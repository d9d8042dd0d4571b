----------------------------- MODULE PolicyRules -----------------------------
(***************************************************************************)
(* What decides whether an operation reaches the transport: the label a    *)
(* session takes on as context is registered (services/labels.ts), the     *)
(* policy engine over it (policy-engine/src/engine.ts), and the adapter    *)
(* behind that (openclaw-adapter/src/adapter.ts).  The engine and the      *)
(* adapter keep no state and the label store one entry for each session,   *)
(* so all of them are operators.                                           *)
(***************************************************************************)
EXTENDS Labels, Sequences, FiniteSets, SequencesExt

CONSTANTS Hashes,        \* content hashes
          Roles          \* the role matrix: DefaultRoles, or a bundle's

Element == [provenance : Origins, classification : Classifications, contentHash : Hashes]

Operations == {"operator.read", "operator.write", "tool.invoke", "node.invoke", "file.read",
               "file.write", "export.data", "exec.run", "admin.control"}
Intents    == {"read", "write", "analyze", "export", "execute", "escalate"}
Profiles   == {"relaxed", "standard", "strict", "scif"}

ASSUME RolesAssumption ==
    \A r \in DOMAIN Roles :
       /\ Roles[r].allowedOperations \cup Roles[r].requiresDualControl \subseteq Operations
       /\ Roles[r].defaultProfile \in Profiles

-----------------------------------------------------------------------------
(* Roles and intents.                                                      *)

Role(operations, profile, dual) ==
    [allowedOperations |-> operations, defaultProfile |-> profile, requiresDualControl |-> dual]

(* DEFAULT_ROLE_MATRIX, which the shipped policy bundle repeats.           *)
DefaultRoles ==
    [viewer       |-> Role({"operator.read"}, "standard", {}),
     analyst      |-> Role({"operator.read", "tool.invoke"}, "standard", {}),
     operator     |-> Role({"operator.read", "operator.write", "tool.invoke",
                            "file.read", "file.write"}, "standard", {}),
     orchestrator |-> Role({"operator.read", "operator.write", "tool.invoke", "node.invoke",
                            "file.read", "file.write"}, "strict", {}),
     admin        |-> Role({"admin.control", "exec.run"}, "strict", {"admin.control", "exec.run"}),
     egress_agent |-> Role({"operator.read", "file.read", "export.data"}, "strict", {}),
     node_admin   |-> Role({"node.invoke"}, "strict", {"node.invoke"})]

OperationToIntent ==
    [o \in Operations |->
        CASE o \in {"operator.read", "file.read"}   -> {"read", "analyze"}
          [] o \in {"operator.write", "file.write"} -> {"write"}
          [] o = "tool.invoke"                      -> {"read", "analyze", "write"}
          [] o = "node.invoke"                      -> {"read", "analyze", "write", "execute"}
          [] o = "export.data"                      -> {"export"}
          [] o = "exec.run"                         -> {"execute"}
          [] o = "admin.control"                    -> {"escalate"}]

-----------------------------------------------------------------------------
(* PolicyEngine.evaluate, over what the token, the envelope and the label  *)
(* store say of a request.  An envelope the in-process bindings read is    *)
(* not checked against its schema, so it may name a classification that is *)
(* none of the four.                                                       *)

Input == [role : DOMAIN Roles \cup {"undefined"}, operation : Operations, intent : Intents,
          classification : Classifications \cup {"unlisted"}]

Resolved(i) == i.role \in DOMAIN Roles

Outward == {"export", "escalate"}

TaintFails(i, e) == IsTainted(e.label) /\ i.intent \in Outward

(* Each of the four has an FHE mode, and nothing else has.                 *)
ClassificationFails(i) == i.classification \notin Classifications

(* The predicates that fail, and with the taint predicate what the session *)
(* had read, whether or not it fails.  No failure hides another.           *)
ShortCircuit(i, e) ==
    IF Resolved(i) /\ i.operation \in Roles[i.role].allowedOperations
    THEN [failed |->
             (IF i.intent \in OperationToIntent[i.operation] THEN {} ELSE {"intent"}) \cup
             (IF TaintFails(i, e) THEN {"taint"} ELSE {}) \cup
             (IF ClassificationFails(i) THEN {"classification"} ELSE {}),
          ancestors |-> IF IsTainted(e.label) THEN e.untrustedAncestors ELSE {}]
    ELSE [failed |-> {"scope"}, ancestors |-> {}]

Evaluated(i, e) ==
    [failed |->
        (IF Resolved(i) THEN {} ELSE {"role"}) \cup
        (IF Resolved(i) /\ i.operation \in Roles[i.role].allowedOperations
         THEN {} ELSE {"scope"}) \cup
        (IF i.intent \in OperationToIntent[i.operation] THEN {} ELSE {"intent"}) \cup
        (IF TaintFails(i, e) THEN {"taint"} ELSE {}) \cup
        (IF ClassificationFails(i) THEN {"classification"} ELSE {}),
     ancestors |-> IF IsTainted(e.label) THEN e.untrustedAncestors ELSE {}]

Allowed(i, e) == Evaluated(i, e).failed = {}

Profile(i)             == Roles[i.role].defaultProfile
RequiresDualControl(i) == i.operation \in Roles[i.role].requiresDualControl

(* OpenClawAdapter.route: the transport's method, or the adapter refuses.  *)
DefaultDeny == {"exec.run", "admin.control"}
StrictOnly  == {"node.invoke", "export.data"}

ScifOnly(operation, profile) ==
    IF operation \in DefaultDeny \cup StrictOnly /\ profile # "scif" THEN "blocked" ELSE "readResource"

Route(operation, profile) ==
    CASE operation \in DefaultDeny /\ profile \notin {"strict", "scif"} -> "blocked"
      [] operation \in StrictOnly /\ profile = "standard"               -> "blocked"
      [] OTHER -> CASE operation \in {"operator.read", "file.read", "export.data"} -> "readResource"
                    [] operation \in {"operator.write", "file.write"} -> "writeResource"
                    [] operation = "tool.invoke"                      -> "invokeTool"
                    [] operation = "node.invoke"                      -> "invokeNode"
                    [] OTHER                                          -> "executeRestricted"

-----------------------------------------------------------------------------
(* SessionLabelStore.                                                      *)

NoEntry == [label |-> Bottom, taintedBy |-> 0, untrustedAncestors |-> {}]

HashAsOrigin(e) == [classification |-> e.classification, origins |-> {e.contentHash}]

ElementLabel(e) == [classification |-> e.classification, origins |-> {e.provenance}]

UntrustedHashes(elements) ==
    {elements[n].contentHash : n \in {m \in DOMAIN elements : elements[m].provenance \in Untrusted}}

OnlyLastElement(e, elements, correlationId) ==
    LET label == IF elements = <<>> THEN e.label ELSE Join(e.label, ElementLabel(Last(elements)))
    IN [label     |-> label,
        taintedBy |-> IF e.taintedBy = 0 /\ ~IsTainted(e.label) /\ IsTainted(label)
                      THEN correlationId ELSE e.taintedBy,
        untrustedAncestors |-> e.untrustedAncestors \cup UntrustedHashes(elements)]

(* joinElements: the elements are joined in one by one, onto the label the *)
(* session has.                                                            *)
LabelAfter(l, elements) ==
    LET label[n \in 0..Len(elements)] ==
            IF n = 0 THEN l ELSE Join(label[n - 1], ElementLabel(elements[n]))
    IN  label

(* taintedBy is the correlation id of the registration, here its place in  *)
(* the history, that first brought an untrusted origin.                    *)
Joined(e, elements, correlationId) ==
    LET label == LabelAfter(e.label, elements)[Len(elements)] IN
    [label     |-> label,
     taintedBy |-> IF e.taintedBy = 0 /\ ~IsTainted(e.label) /\ IsTainted(label)
                   THEN correlationId ELSE e.taintedBy,
     untrustedAncestors |-> e.untrustedAncestors \cup UntrustedHashes(elements)]
=============================================================================
