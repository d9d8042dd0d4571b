-------------------------- MODULE MCInvokePipeline --------------------------
(***************************************************************************)
(* Instances of InvokePipeline for TLC.  One session; the operations are   *)
(* one of each kind the layers tell apart.                                 *)
(***************************************************************************)
EXTENDS InvokePipeline, TLC

CONSTANTS s1, u, d, n1, n2, m

MCSubjectOf == [s \in Sessions |-> u]
MCDeviceOf  == [s \in Sessions |-> d]
MCRoleOf    == [s \in Sessions |-> "role"]
MCGranted   == [x \in RoleNames |-> {"read", "export", "node", "admin"}]

Ask(s, n, op) ==
    [kind |-> "invoke", session |-> s, nonce |-> n, operation |-> op,
     faults |-> {}, manifest |-> NoManifest, receipt |-> FALSE]

Declare(s, o) == [kind |-> "register", session |-> s, manifest |-> m, origins |-> {o}]

(* One call for each path of the pipeline.                                 *)
EveryPath ==
    LET a == Ask(s1, n1, "read")
    IN  {a, Ask(s1, n1, "export"), Ask(s1, n1, "unknown"), Ask(s1, n1, "node"),
         Ask(s1, n1, "admin"), [Ask(s1, n1, "admin") EXCEPT !.receipt = TRUE],
         [a EXCEPT !.manifest = m], [a EXCEPT !.faults = {"expired", "target"}]}
        \cup {[a EXCEPT !.faults = {f}] : f \in Faults}

(* Calls that share a session, a nonce, a manifest or a label.             *)
Shared == {Ask(s1, n1, "export"), [Ask(s1, n2, "read") EXCEPT !.manifest = m]}

Declarations == {Declare(s1, "user"), Declare(s1, "web")}

Receipts == {[kind |-> "cosign", session |-> s1, grants |-> g] : g \in BOOLEAN}

NamesSubject == {<<"subject", u>>}
NamesOthers  == {<<"session", s1>>, <<"device", d>>}

Symmetry == Permutations(Requests)
=============================================================================
