------------------------------ MODULE AttackSim ------------------------------
(***************************************************************************)
(* apps/attack-sim against the broker: its scenarios, run one after the    *)
(* other over HTTP, while other clients of the same broker are admitted,   *)
(* derive capabilities and are revoked.  The broker is the one the         *)
(* simulator is started with: in-process bindings, the built-in role       *)
(* matrix and trust table, the scaffolding transport, which answers every  *)
(* call.  A request is one step here; InvokePipeline takes it apart.       *)
(***************************************************************************)
EXTENDS NieBindings, PolicyRules

CONSTANTS Others,       \* handles of the other clients' tokens
          OtherSubjects,
          OtherDevices,
          Pauses,       \* bound: the places of the requests before which time passes
          Restarts      \* bound: of those before which the broker restarts

VARIABLES labels,    \* sessionLabels
          manifests, \* registeredManifests
          at,        \* the scenario the simulator is in
          step,      \* and how many of its requests were answered
          admitted,  \* the token of the scenario's last admission
          verdict,   \* of each scenario
          event      \* history: the type of the last record of each scenario

simVars == <<at, step, admitted, verdict, event>>
vars == <<bindingVars, labels, manifests, simVars>>

-----------------------------------------------------------------------------
(* What a client sends.                                                    *)

Admit(role) == [route |-> "admit", role |-> role, attested |-> TRUE, operator |-> TRUE]

(* Three scenarios classify what they ask as regulated: the answer is that *)
(* of every classification the schema lists.                               *)
Invoke(operation, intent) ==
    [route |-> "invoke", operation |-> operation, intent |-> intent, bound |-> TRUE,
     classification |-> "sensitive", manifest |-> "zero", receipt |-> FALSE, operator |-> TRUE]

RevokeSession == [route |-> "revoke", operator |-> TRUE]

(* The names of the injection patterns the content matches.                *)
Ingest(server, matches) ==
    [route |-> "mcp", server |-> server, matches |-> matches, operator |-> TRUE]

RegisterSkill(signer) == [route |-> "skill", signer |-> signer, operator |-> TRUE]

RegisterContext(element, manifest) ==
    [route |-> "register", elements |-> <<element>>, manifest |-> manifest, operator |-> TRUE]

-----------------------------------------------------------------------------
(* What the broker answers: the status, the code and the type of the record*)
(* it makes.                                                               *)

Answer(status, code, type) == [status |-> status, code |-> code, event |-> type]

TrustLevel == [server \in {"telegram-bot", "slack-connector", "email-ingest", "internal-docs",
                           "attacker-mcp"} |->
    CASE server = "attacker-mcp" -> "blocked" [] server = "internal-docs" -> "trusted"
      [] OTHER -> "sanitized"]

Mediated(server) == server \in DOMAIN TrustLevel /\ TrustLevel[server] # "blocked"

(* The sanitizer rewrites what matches, so that anything it changed matched.*)
TaintFound(r) == r.matches # {}

McpAnswer(r) ==
    CASE ~Mediated(r.server) -> Answer(403, "ERR_MCP_SERVER_BLOCKED", "mcp_block")
      [] OTHER -> IF TaintFound(r) THEN Answer(403, "ERR_MCP_RESPONSE_TAINTED", "mcp_tainted")
                  ELSE Answer(200, "none", "none")

TrustedSigners == {"xsoc-trusted-signer-1", "mock-key-1"}

BlockedOnly(r) ==
    IF r.signer \in TrustedSigners THEN Answer(200, "none", "none")
    ELSE Answer(403, IF r.signer = "none" THEN "ERR_SKILL_UNSIGNED" ELSE "ERR_SKILL_BLOCKED",
                "skill_blocked")

SkillAnswer(r) ==
    CASE r.signer = "none" -> Answer(403, "ERR_SKILL_UNSIGNED", "skill_unsigned")
      [] OTHER -> IF r.signer \in TrustedSigners THEN Answer(200, "none", "none")
                  ELSE Answer(403, "ERR_SKILL_BLOCKED", "skill_blocked")

(* The code of the first predicate that failed; an intent that fails is    *)
(* refused a layer before the policy.                                      *)
DenyReasonCode(failed) ==
    CASE "role" \in failed -> "ERR_ROLE_INVALID"
      [] failed = {"classification"} -> "ERR_CLASSIFICATION_VIOLATION"
      [] OTHER -> "ERR_SCOPE_DENIED"

ReplayedAnywhere(h) == \E s \in Handles : <<s, "n">> \in seen

(* Each request of a client carries a new nonce but those of scenario 02:  *)
(* one name for it in each session, as no scenario repeats another's.      *)
Replayed(h) == <<token[h].session, "n">> \in seen

(* What the answer to request r under token h depends on.                  *)
Standing(r, h) ==
    CASE r.route = "admit" -> [refused |-> Refused(h, h, r.attested)]
      [] r.route \in {"invoke", "register"} ->
            [verifies |-> Verifies(h), reason |-> ReasonCode(h), role |-> token[h].role,
             replayed |-> Replayed(h), entry |-> labels[token[h].session], manifests |-> manifests]
      [] OTHER -> [refused |-> FALSE]

(* The layers of /v1/invoke that refuse request r of standing s, in order. *)
Layers(r, s) ==
    LET i      == [role |-> s.role, operation |-> r.operation, intent |-> r.intent,
                   classification |-> r.classification]
        failed == Evaluated(i, s.entry).failed
    IN  <<  <<~s.verifies, Answer(401, s.reason, "deny")>>,
            <<s.replayed, Answer(403, "ERR_NONCE_REPLAY", "replay_fail")>>,
            <<~r.bound, Answer(403, "ERR_TARGET_MISMATCH", "target_mismatch")>>,
            <<r.intent \notin OperationToIntent[r.operation],
              Answer(403, "ERR_INTENT_DRIFT", "intent_drift")>>,
            <<r.manifest # "zero" /\ r.manifest \notin s.manifests,
              Answer(403, "ERR_CONTEXT_MANIFEST_INVALID", "deny")>>,
            <<failed # {},
              Answer(403, DenyReasonCode(failed),
                     IF DenyReasonCode(failed) = "ERR_SCOPE_DENIED" THEN "scope_fail" ELSE "deny")>>,
            <<failed = {} /\ RequiresDualControl(i) /\ ~r.receipt,
              Answer(202, "ERR_DUAL_CONTROL_REQUIRED", "dual_control_requested")>>,
            <<failed = {} /\ Route(r.operation, Profile(i)) = "blocked",
              Answer(403, "ERR_OPERATION_BLOCKED", "tool_block")>>,
            <<TRUE, Answer(200, "none", "invoke")>>  >>

InvokeAnswer(r, s) ==
    LET layers == Layers(r, s) IN layers[Min({n \in DOMAIN layers : layers[n][1]})][2]

AdmitAnswer(s) ==
    IF s.refused THEN Answer(401, "ERR_ATTESTATION_FAILED", "deny") ELSE Answer(200, "none", "admit")

Unguarded(r, s) ==
    CASE r.route = "admit"    -> AdmitAnswer(s)
      [] r.route = "invoke"   -> InvokeAnswer(r, s)
      [] r.route = "revoke"   -> Answer(200, "none", "revoke")
      [] r.route = "mcp"      -> McpAnswer(r)
      [] r.route = "skill"    -> SkillAnswer(r)
      [] r.route = "register" -> IF s.verifies THEN Answer(200, "none", "invoke")
                                 ELSE Answer(401, s.reason, "none")

(* Every write route is behind the operator's token.                       *)
Answered(r, s) == IF r.operator THEN Unguarded(r, s) ELSE Answer(401, "none", "none")

(* What the request changes.                                               *)
Joins(r, h) ==
    IF Verifies(h)
    THEN /\ manifests' = manifests \cup {r.manifest}
         /\ labels' = [labels EXCEPT ![token[h].session] = Joined(@, r.elements, 1)]
    ELSE UNCHANGED <<labels, manifests>>

Handled(r, h) ==
    IF ~r.operator THEN UNCHANGED <<bindingVars, labels, manifests>>
    ELSE /\ CASE r.route = "admit"  -> Attest(h, h, h, r.role, Scope, r.attested)
              [] r.route = "invoke" -> IF Verifies(h) THEN ConsumeNonce(h, "n")
                                       ELSE UNCHANGED bindingVars
              [] r.route = "revoke" -> RevokeSessionOf(h)
              [] OTHER              -> UNCHANGED bindingVars
         /\ IF r.route = "register" THEN Joins(r, h) ELSE UNCHANGED <<labels, manifests>>

-----------------------------------------------------------------------------
(* The scenarios: each a sequence of requests with the answer it wants, a  *)
(* code "any" wanting whatever code there is.  A skeleton has none.        *)

Expect(request, status, code) == [request |-> request, status |-> status, code |-> code]

Enter(role) == Expect(Admit(role), 200, "none")

Read == Invoke("tool.invoke", "read")

Scenario(id, type, steps) == [id |-> id, expectedEventType |-> type, steps |-> steps]

Skeleton(id) == Scenario(id, "none", <<>>)

Denied(id, type, role, request, code) ==
    Scenario(id, type, <<Enter(role), Expect(request, 403, code)>>)

Tainted(id, server, matches) ==
    Scenario(id, "mcp_tainted", <<Expect(Ingest(server, matches), 403, "ERR_MCP_RESPONSE_TAINTED")>>)

Fetched == [provenance |-> "external-channel", classification |-> "sensitive", contentHash |-> "h"]

s01 == Scenario("01", "invoke", <<Enter("operator"), Expect(Read, 200, "none")>>)

s02 == Scenario("02", "replay_fail", <<Enter("operator"), Expect(Read, 200, "any"),
                                       Expect(Read, 403, "ERR_NONCE_REPLAY")>>)

s03 == Denied("03", "scope_fail", "viewer", Invoke("exec.run", "execute"), "ERR_SCOPE_DENIED")

s04 == Denied("04", "target_mismatch", "operator", [Read EXCEPT !.bound = FALSE],
              "ERR_TARGET_MISMATCH")

s05 == Scenario("05", "deny", <<Enter("operator"), Expect(RevokeSession, 200, "any"),
                                Expect(Read, 401, "ERR_SESSION_REVOKED")>>)

s06 == Denied("06", "tool_block", "admin",
              [Invoke("exec.run", "execute") EXCEPT !.receipt = TRUE], "ERR_OPERATION_BLOCKED")

s07 == Denied("07", "intent_drift", "operator", Invoke("tool.invoke", "export"), "ERR_INTENT_DRIFT")

s08 == Tainted("08", "slack-connector", {"system-prompt-override"})

s09 == Denied("09", "deny", "operator", [Read EXCEPT !.manifest = "aa"],
              "ERR_CONTEXT_MANIFEST_INVALID")

s11 == Scenario("11", "dual_control_requested",
           <<Enter("admin"),
             Expect(Invoke("admin.control", "escalate"), 202, "ERR_DUAL_CONTROL_REQUIRED")>>)

s16 == Tainted("16", "telegram-bot", {"role-injection", "tool-hijack"})

s17 == Denied("17", "scope_fail", "viewer", Invoke("admin.control", "escalate"), "ERR_SCOPE_DENIED")

s21 == Scenario("21", "skill_unsigned", <<Expect(RegisterSkill("none"), 403, "ERR_SKILL_UNSIGNED")>>)

s21b == Scenario("21b", "skill_blocked",
            <<Expect(RegisterSkill("attacker-key-1"), 403, "ERR_SKILL_BLOCKED")>>)

s22 == Scenario("22", "deny",
           <<Expect([Admit("admin") EXCEPT !.attested = FALSE, !.operator = FALSE],
                    401, "ERR_ATTESTATION_FAILED")>>)

(* What it sends matches no pattern.                                       *)
s23 == Tainted("23", "email-ingest", {})

s23b == Scenario("23b", "mcp_block",
            <<Expect(Ingest("attacker-mcp", {}), 403, "ERR_MCP_SERVER_BLOCKED")>>)

s24 == Denied("24", "deny", "operator", [Read EXCEPT !.manifest = "bb"],
              "ERR_CONTEXT_MANIFEST_INVALID")

s25 == Tainted("25", "slack-connector", {"role-injection"})

s26 == Scenario("26", "scope_fail",
           <<Enter("egress_agent"), Expect(Invoke("export.data", "export"), 200, "none"),
             Enter("egress_agent"), Expect(RegisterContext(Fetched, "cc"), 200, "any"),
             Expect(Invoke("export.data", "export"), 403, "any")>>)

Scenarios ==
    <<s01, s02, s03, s04, s05, s06, s07, s08, s09, Skeleton("10"), s11, Skeleton("12"),
      Skeleton("13"), Skeleton("14"), Skeleton("15"), s16, s17, s24, s25, Skeleton("18"),
      Skeleton("19"), Skeleton("20"), s21, s21b, s22, s23, s23b, s26, Skeleton("27")>>

-----------------------------------------------------------------------------
(* The handles and hashes of the simulator's own admissions are random:    *)
(* here each is named by the place of the request.                         *)
Place(scenario, n) == 10 * scenario + n

Own ==
    {Place(x[1], x[2]) : x \in {y \in (DOMAIN Scenarios) \X (0..4) :
        /\ y[2] < Len(Scenarios[y[1]].steps)
        /\ Scenarios[y[1]].steps[y[2] + 1].request.route = "admit"}}

ASSUME SimAssumption ==
    /\ Others \cup Own \subseteq Handles
    /\ OtherSubjects \cup Own \subseteq Subjects
    /\ OtherDevices \cup Own \subseteq Devices
    /\ (Others \cup OtherSubjects \cup OtherDevices) \cap Own = {}
    /\ {"viewer", "operator", "admin", "egress_agent"} \subseteq RoleNames
    /\ "n" \in Nonces
    /\ Roles = DefaultRoles
    /\ Fetched \in Element /\ Fetched.provenance \in Untrusted

TypeOK ==
    /\ BindingsTypeOK
    /\ \A h \in Handles : labels[h].label \in Label
    /\ manifests \subseteq {"cc", "dd"}
    /\ at \in 1..(Len(Scenarios) + 1)
    /\ step \in 0..4
    /\ admitted \in Own
    /\ verdict \in [DOMAIN Scenarios -> {"none", "pass", "fail", "skip"}]

Init ==
    /\ BindingsInit
    /\ labels = [h \in Handles |-> NoEntry]
    /\ manifests = {}
    /\ at = 1
    /\ step = 0
    /\ admitted = Place(1, 0)
    /\ verdict = [i \in DOMAIN Scenarios |-> "none"]
    /\ event = [i \in DOMAIN Scenarios |-> "none"]

Matches(answer, wanted) ==
    answer.status = wanted.status /\ wanted.code \in {answer.code, "any"}

Finished(result) ==
    /\ verdict' = [verdict EXCEPT ![at] = result]
    /\ at' = at + 1
    /\ step' = 0

(* "(skeleton)": reported as skipped.                                      *)
Skip ==
    /\ at \in DOMAIN Scenarios
    /\ Scenarios[at].steps = <<>>
    /\ Finished("skip")
    /\ UNCHANGED <<bindingVars, labels, manifests, admitted, event>>

(* The next request of the scenario is answered.  Its token is that of the *)
(* scenario's last admission.                                              *)
Request ==
    /\ at \in DOMAIN Scenarios
    /\ Scenarios[at].steps # <<>>
    /\ LET steps  == Scenarios[at].steps
           wanted == steps[step + 1]
           h      == IF wanted.request.route = "admit" THEN Place(at, step) ELSE admitted
           answer == Answered(wanted.request, Standing(wanted.request, h))
       IN  /\ Handled(wanted.request, h)
           /\ admitted' = h
           /\ event' = [event EXCEPT ![at] = answer.event]
           /\ CASE ~Matches(answer, wanted) -> Finished("fail")
                [] Matches(answer, wanted) /\ step + 1 = Len(steps) -> Finished("pass")
                [] OTHER -> step' = step + 1 /\ UNCHANGED <<at, verdict>>

(* The other clients, whose handles, packages and devices are their own.   *)
OtherRequests ==
    /\ \/ \E h \in Others, u \in OtherSubjects, d \in OtherDevices :
              Attest(h, u, d, "operator", Scope, TRUE)
       \/ \E u \in OtherSubjects : Revoke("subject", u)
       \/ \E d \in OtherDevices : Revoke("device", d)
       \/ \E h \in Others : RevokeSessionOf(h) \/ ConsumeNonce(h, "n")
    /\ UNCHANGED <<labels, manifests, simVars>>

OtherRegisters(h) ==
    /\ token[h] # NoToken
    /\ Joins(RegisterContext(Fetched, "dd"), h)
    /\ UNCHANGED <<bindingVars, simVars>>

(* No route derives a capability; what embeds the bindings does.           *)
Derives ==
    /\ \E h, p \in Others, o \in SUBSET Scope, ttl \in 1..Lifetime : Derive(h, p, o, ttl)
    /\ UNCHANGED <<labels, manifests, simVars>>

(* A scenario ends within the life of its token, as its few requests do    *)
(* within 15 minutes.                                                      *)
TimePasses ==
    /\ Place(at, step) \in Pauses
    /\ step > 0 => clock < token[admitted].expiresAt
    /\ Tick
    /\ UNCHANGED <<labels, manifests, simVars>>

(* Nothing is claimed of a scenario whose broker dies under it.            *)
BrokerRestarts ==
    /\ Place(at, step) \in Restarts
    /\ step = 0
    /\ Restart
    /\ labels' = [h \in Handles |-> NoEntry]
    /\ manifests' = {}
    /\ UNCHANGED simVars

Next ==
    \/ Skip
    \/ Request
    \/ OtherRequests
    \/ \E h \in Others : OtherRegisters(h)
    \/ Derives
    \/ TimePasses
    \/ BrokerRestarts

Spec == Init /\ [][Next]_vars
-----------------------------------------------------------------------------
(* The standing of the n-th request of a scenario that has the broker to   *)
(* itself: what its own requests before it made of it.                     *)
Alone(i, n) ==
    LET request(m)   == Scenarios[i].steps[m].request
        entered      == {m \in 1..(n - 1) : request(m).route = "admit"}
        since(route) == {m \in 1..(n - 1) : request(m).route = route /\ \A k \in entered : k < m}
        fetched      == {m \in 1..(n - 1) : request(m).route = "register"}
    IN  CASE request(n).route = "admit" -> [refused |-> ~request(n).attested]
          [] request(n).route \in {"invoke", "register"} ->
                [verifies |-> since("revoke") = {}, reason |-> "ERR_SESSION_REVOKED",
                 role |-> request(Max(entered)).role, replayed |-> since("invoke") # {},
                 entry |-> IF since("register") = {} THEN NoEntry
                           ELSE Joined(NoEntry, request(Max(since("register"))).elements, 1),
                 manifests |-> {request(m).manifest : m \in fetched}]
          [] OTHER -> [refused |-> FALSE]

OwnVerdict ==
    [i \in {n \in DOMAIN Scenarios : Scenarios[n].steps # <<>>} |->
        LET steps == Scenarios[i].steps IN
        IF \A n \in DOMAIN steps : Matches(Answered(steps[n].request, Alone(i, n)), steps[n])
        THEN "pass" ELSE "fail"]

(* "Each is deterministic, self-contained" (scenarios/index.ts): whatever  *)
(* scenarios came before and whatever other clients do between two of its  *)
(* requests, a scenario ends as it does with the broker to itself.         *)
SelfContained ==
    \A i \in DOMAIN OwnVerdict : verdict[i] \in {"pass", "fail"} => verdict[i] = OwnVerdict[i]

(* "implemented attack scenarios pass in continuous integration" (the      *)
(* executive brief): no scenario that ran misses the answer it wants.      *)
ScenariosPass == \A i \in DOMAIN Scenarios : verdict[i] # "fail"

(* The record behind the answer a scenario wanted has the type the         *)
(* scenario declares and does not itself look at.                          *)
RecordedAsDeclared ==
    \A i \in DOMAIN Scenarios : verdict[i] = "pass" => event[i] = Scenarios[i].expectedEventType
=============================================================================
