--------------------------- MODULE InvokePipeline ---------------------------
(***************************************************************************)
(* apps/broker/src/routes/invoke.ts with the routes it shares state with   *)
(* (admit.ts, revoke.ts, context.ts), over the bindings of nie-bindings    *)
(* and the adapter of openclaw-adapter.                                    *)
(*                                                                         *)
(* A step is one run of the event loop between two awaits.  What is called *)
(* with an await takes effect at some moment after the call, and its       *)
(* answer is read at a later one; a deadline that fires in between denies  *)
(* the request and does not take the call back.  A record is at the grain  *)
(* of ProvidenceChain: it is on the chain, or the append threw.            *)
(***************************************************************************)
EXTENDS Integers, Sequences

CONSTANTS Requests,      \* requests to /v1/invoke, /v1/context/register and /v1/cosign
          Invocations,   \* what an invoke may ask for
          Registrations, \* what a context registration may declare
          Cosignings,    \* what a cosign may say
          Sessions,      \* the admissions of the run: one token each
          Subjects, Devices, RoleNames,
          SubjectOf, DeviceOf, RoleOf,  \* what each session is admitted for
          Revocable,     \* what /v1/revoke may be asked to revoke: a kind and an id
          Nonces,
          Manifests,
          NoManifest,    \* the zero hash: no sensitive context
          Operations,
          Granted,       \* the operations each role allows
          DualControl,   \* operations that need a cosign receipt
          Blocked,       \* operations the adapter or transport itself refuses
          Outward,       \* operations whose intent is export or escalate
          Origins,
          Untrusted,     \* UNTRUSTED_ORIGINS
          RecordsFail,   \* may an append throw?
          NoToken, Lifetime, MaxClock

VARIABLES token, active, revoked, seen, clock,  \* the bindings
          manifests, \* registeredManifests
          labels,    \* sessionLabels: the origins of each session's label
          log,       \* the Providence chain
          refusing,  \* it refuses appends
          admission, \* where the admit request of each session is
          revocation,\* where each revoke request is
          req,       \* the requests
          pending,   \* calls made that have not taken effect
          ran,       \* operations the transport ran
          calledAt,  \* history: length of the chain when the transport was called
          ended      \* history: sessions a revocation named after their admission

(* No route reads the operations a token names.                            *)
Nie == INSTANCE NieBindings WITH Handles <- Sessions, Scope <- {}

bindingVars == <<token, active, revoked, seen, clock>>
brokerVars  == <<manifests, labels>>
chainVars   == <<log, refusing>>
callVars    == <<pending, ran, calledAt>>
vars == <<bindingVars, brokerVars, chainVars, admission, revocation, ended, req, callVars>>

(* What can be wrong with an envelope: it does not authenticate, it has    *)
(* expired, it is sealed over another target or another operation, it      *)
(* declares an intent its operation does not have, or a classification     *)
(* there is not.                                                           *)
Faults == {"unauthentic", "expired", "target", "scope", "intent", "classification"}

Invocation == [kind : {"invoke"}, session : Sessions, nonce : Nonces,
               operation : Operations, faults : SUBSET Faults,
               manifest : Manifests \cup {NoManifest}, receipt : BOOLEAN]

Registration == [kind : {"register"}, session : Sessions,
                 manifest : Manifests, origins : SUBSET Origins]

(* A grant, or not; the request it is of goes to the record unread.        *)
Cosigning == [kind : {"cosign"}, session : Sessions, grants : BOOLEAN]

Calls == Invocations \cup Registrations \cup Cosignings

ASSUME PipelineAssumption ==
    /\ Invocations \subseteq Invocation
    /\ Registrations \subseteq Registration
    /\ Cosignings \subseteq Cosigning
    /\ SubjectOf \in [Sessions -> Subjects]
    /\ DeviceOf \in [Sessions -> Devices]
    /\ RoleOf \in [Sessions -> RoleNames]
    /\ Requests \cap (Sessions \cup Revocable) = {}
    /\ Granted \in [RoleNames -> SUBSET Operations]
    /\ Revocable \subseteq Nie!Kinds \X (Subjects \cup Sessions \cup Devices)
    /\ NoManifest \notin Manifests
    /\ DualControl \cup Blocked \cup Outward \subseteq Operations
    /\ Untrusted \subseteq Origins
    /\ RecordsFail \in BOOLEAN
    /\ Lifetime \in Nat /\ MaxClock \in Nat
    /\ NoToken \notin Nie!TokenState

Never   == -1
Stages  == {"token", "nonce", "envelope", "adapter"}
Routes  == {"context", "cosign"}
PCs     == {"idle", "done", "lost"} \cup Stages \cup Routes
Answers == {"waiting", "valid", "invalid", "first", "replay", "ok", "failed", "refused"}
Kinds   == {"admit", "revoke", "register", "invoke", "deny", "dual_control_requested",
            "dual_control_granted", "dual_control_denied", "replay_fail", "envelope_rejected",
            "target_mismatch", "continuity_fail", "intent_drift", "scope_fail", "tool_block"}

NoCall == [kind |-> "none"]

Request == [pc : PCs, call : Calls \cup {NoCall}, answer : Answers,
            status : {"none", "200", "202", "denied", "500"}, late : BOOLEAN]

Record == [kind : Kinds, of : Requests \cup Sessions \cup Revocable, stamped : BOOLEAN]

TypeOK ==
    /\ Nie!BindingsTypeOK
    /\ manifests \subseteq Manifests
    /\ labels \in [Sessions -> SUBSET Origins]
    /\ log \in Seq(Record)
    /\ refusing \in BOOLEAN
    /\ admission \in [Sessions -> {"none", "attested", "refused", "answered", "failed"}]
    /\ revocation \in [Revocable -> {"none", "applied", "answered", "failed"}]
    /\ req \in [Requests -> Request]
    /\ pending \subseteq Requests \X {"nonce", "adapter"}
    /\ ran \subseteq Requests
    /\ calledAt \in [Requests -> Nat \cup {Never}]
    /\ ended \subseteq Sessions

Init ==
    /\ Nie!BindingsInit
    /\ manifests = {}
    /\ labels = [s \in Sessions |-> {}]
    /\ log = <<>>
    /\ refusing = FALSE
    /\ admission = [s \in Sessions |-> "none"]
    /\ revocation = [x \in Revocable |-> "none"]
    /\ req = [r \in Requests |-> [pc |-> "idle", call |-> NoCall, answer |-> "waiting",
                                  status |-> "none", late |-> FALSE]]
    /\ pending = {}
    /\ ran = {}
    /\ calledAt = [r \in Requests |-> Never]
    /\ ended = {}

-----------------------------------------------------------------------------
(* BrokerProvidence.append and appendForwarded: the record is on the chain *)
(* or the append throws.                                                   *)

Tainted(s) == labels[s] \cap Untrusted # {}

Recorded(kind, of, stamped) ==
    /\ ~refusing
    /\ log' = Append(log, [kind |-> kind, of |-> of, stamped |-> stamped])
    /\ UNCHANGED refusing

(* The log refuses, now or already; when its last fsync is what failed,    *)
(* the record is on the chain all the same.                                *)
LogFails(kind, of, stamped) ==
    \/ refusing /\ UNCHANGED chainVars
    \/ /\ RecordsFail /\ ~refusing
       /\ refusing' = TRUE
       /\ log' \in {log, Append(log, [kind |-> kind, of |-> of, stamped |-> stamped])}

QuotesHashes(kind, of) ==
    \/ kind \in {"admit", "revoke", "register", "invoke", "intent_drift", "scope_fail"}
    \/ kind = "tool_block" /\ req[of].answer = "failed"

(* The records that quote text from outside, which need not encode: the    *)
(* device's label, the reason of a revocation or a cosign, the intent and  *)
(* the classification of an envelope, which the bindings do not validate,  *)
(* the hashes of untrusted material a policy decision names, the gateway's *)
(* message.  The deny of a classification is the one an envelope gets whose*)
(* manifest is registered.                                                 *)
QuotesText(kind, of) ==
    \/ kind \in {"admit", "revoke", "invoke", "intent_drift", "scope_fail"}
    \/ /\ kind = "deny" /\ of \in Requests /\ req[of].pc = "envelope"
       /\ req[of].call.manifest \in manifests \cup {NoManifest}
    \/ kind = "tool_block" /\ req[of].answer = "failed"
    \/ /\ kind \in {"dual_control_granted", "dual_control_denied"}
       /\ req[of].answer = "valid"

(* Only this append throws, before the chain is touched.                   *)
Unencodable(kind, of) == RecordsFail /\ QuotesText(kind, of) /\ ~refusing

NotRecorded(kind, of, stamped) ==
    \/ LogFails(kind, of, stamped)
    \/ Unencodable(kind, of) /\ UNCHANGED chainVars

Moved(r, pc) == [req EXCEPT ![r].pc = pc, ![r].answer = "waiting"]

Closed(r, status) == [req EXCEPT ![r].pc = "done", ![r].answer = "waiting", ![r].status = status]

(* A handler records its decision and answers; an append that throws is    *)
(* answered 500.                                                           *)
Reply(r, kind, stamped, status) ==
    \/ Recorded(kind, r, stamped) /\ req' = Closed(r, status)
    \/ NotRecorded(kind, r, stamped) /\ req' = Closed(r, "500")

-----------------------------------------------------------------------------
(* POST /v1/admit: attest, then the record, then the answer with the token.*)

Admit(s) ==
    /\ admission[s] = "none"
    /\ \E attested \in BOOLEAN :
          LET refused == Nie!Refused(SubjectOf[s], DeviceOf[s], attested)
          IN  /\ Nie!Attest(s, SubjectOf[s], DeviceOf[s], RoleOf[s], {}, attested)
              /\ admission' = [admission EXCEPT ![s] = IF refused THEN "refused" ELSE "attested"]
    /\ UNCHANGED <<brokerVars, chainVars, revocation, ended, req, callVars>>

(* The catch of the handler: a deny, then 401, or 500 when it throws too.  *)
Denied(s) ==
    /\ Recorded("deny", s, FALSE) \/ NotRecorded("deny", s, FALSE)
    /\ admission' = [admission EXCEPT ![s] = "failed"]

AdmitsUnrecorded(s) ==
    /\ admission[s] = "attested"
    /\ Recorded("admit", s, FALSE) \/ NotRecorded("admit", s, FALSE)
    /\ admission' = [admission EXCEPT ![s] = "answered"]
    /\ UNCHANGED <<bindingVars, brokerVars, revocation, ended, req, callVars>>

(* When the record throws the token stays live and no client is given it.  *)
Admitted(s) ==
    /\ \/ admission[s] = "refused" /\ Denied(s)
       \/ /\ admission[s] = "attested"
          /\ \/ /\ Recorded("admit", s, FALSE)
                /\ admission' = [admission EXCEPT ![s] = "answered"]
             \/ /\ LogFails("admit", s, FALSE)
                /\ admission' = [admission EXCEPT ![s] = "failed"]
             \/ Unencodable("admit", s) /\ Denied(s)
    /\ UNCHANGED <<bindingVars, brokerVars, revocation, ended, req, callVars>>

(* POST /v1/revoke: revokeSubject, then the record.  Nobody names a        *)
(* session before it is issued.                                            *)
Revoke(x) ==
    /\ revocation[x] = "none"
    /\ x[1] = "session" => token[x[2]] # NoToken
    /\ Nie!Revoke(x[1], x[2])
    /\ revocation' = [revocation EXCEPT ![x] = "applied"]
    /\ ended' = ended \cup {s \in Sessions : token[s] # NoToken /\ Nie!Named(s, x[1]) = x[2]}
    /\ UNCHANGED <<brokerVars, chainVars, admission, req, callVars>>

Revoked(x) ==
    /\ revocation[x] = "applied"
    /\ \/ /\ Recorded("revoke", x, FALSE)
          /\ revocation' = [revocation EXCEPT ![x] = "answered"]
       \/ /\ NotRecorded("revoke", x, FALSE)
          /\ revocation' = [revocation EXCEPT ![x] = "failed"]
    /\ UNCHANGED <<bindingVars, brokerVars, admission, ended, req, callVars>>

-----------------------------------------------------------------------------
(* A request arrives with a token its client was given, live or not; its   *)
(* handler calls verifyToken.                                              *)
FirstStage(c) == CASE c.kind = "invoke"   -> "token"
                   [] c.kind = "register" -> "context"
                   [] c.kind = "cosign"   -> "cosign"

Arrive(r, c) ==
    /\ req[r].pc = "idle"
    /\ admission[c.session] = "answered"
    /\ req' = [req EXCEPT ![r] =
           [pc |-> FirstStage(c), call |-> c, answer |-> "waiting", status |-> "none",
            late |-> c.session \in ended]]
    /\ UNCHANGED <<bindingVars, brokerVars, chainVars, admission, revocation, ended, callVars>>

VerifyToken(r) ==
    /\ req[r].pc \in {"token"} \cup Routes
    /\ req[r].answer = "waiting"
    /\ req' = [req EXCEPT ![r].answer =
           IF Nie!Verifies(req[r].call.session) THEN "valid" ELSE "invalid"]
    /\ UNCHANGED <<bindingVars, brokerVars, chainVars, admission, revocation, ended, callVars>>

OverwritesLabel(r) ==
    /\ req[r].pc = "context"
    /\ req[r].answer = "valid"
    /\ manifests' = manifests \cup {req[r].call.manifest}
    /\ labels' = [labels EXCEPT ![req[r].call.session] = req[r].call.origins]
    /\ Reply(r, "register", FALSE, "200")
    /\ UNCHANGED <<bindingVars, admission, revocation, ended, callVars>>

(* POST /v1/context/register, once the token is verified.                  *)
RegisterContext(r) ==
    LET c == req[r].call
    IN  /\ req[r].pc = "context"
        /\ \/ /\ req[r].answer = "invalid"
              /\ req' = Closed(r, "denied")
              /\ UNCHANGED <<brokerVars, chainVars>>
           \/ /\ req[r].answer = "valid"
              /\ manifests' = manifests \cup {c.manifest}
              /\ labels' = [labels EXCEPT ![c.session] = @ \cup c.origins]
              /\ Reply(r, "register", FALSE, "200")
        /\ UNCHANGED <<bindingVars, admission, revocation, ended, callVars>>

(* POST /v1/cosign, once the token is verified: a record, and nothing that *)
(* a later invoke reads.                                                   *)
Cosign(r) ==
    /\ req[r].pc = "cosign"
    /\ \/ req[r].answer = "invalid" /\ Reply(r, "dual_control_denied", FALSE, "denied")
       \/ /\ req[r].answer = "valid"
          /\ Reply(r, IF req[r].call.grants THEN "dual_control_granted" ELSE "dual_control_denied",
                   FALSE, "200")
    /\ UNCHANGED <<bindingVars, brokerVars, admission, revocation, ended, callVars>>

-----------------------------------------------------------------------------
(* POST /v1/invoke, layer by layer.                                        *)

TokenVerified(r) ==
    /\ req[r].pc = "token"
    /\ \/ /\ req[r].answer = "invalid"
          /\ Reply(r, "deny", FALSE, "denied")
          /\ UNCHANGED pending
       \/ /\ req[r].answer = "valid"
          /\ req' = Moved(r, "nonce")
          /\ pending' = pending \cup {<<r, "nonce">>}
          /\ UNCHANGED chainVars
    /\ UNCHANGED <<bindingVars, brokerVars, admission, revocation, ended, ran, calledAt>>

(* consumeNonce takes effect in the bindings, whether or not it is awaited.*)
ConsumeNonce(r) ==
    LET c == req[r].call
    IN  /\ <<r, "nonce">> \in pending
        /\ pending' = pending \ {<<r, "nonce">>}
        /\ Nie!ConsumeNonce(c.session, c.nonce)
        /\ req' = IF req[r].pc = "nonce"
                  THEN [req EXCEPT ![r].answer =
                           IF <<c.session, c.nonce>> \in seen THEN "replay" ELSE "first"]
                  ELSE req
        /\ UNCHANGED <<brokerVars, chainVars, admission, revocation, ended, ran, calledAt>>

NonceConsumed(r) ==
    /\ req[r].pc = "nonce"
    /\ \/ req[r].answer = "replay" /\ Reply(r, "replay_fail", FALSE, "denied")
       \/ /\ req[r].answer = "first"
          /\ req' = Moved(r, "envelope")
          /\ UNCHANGED chainVars
    /\ UNCHANGED <<bindingVars, brokerVars, admission, revocation, ended, callVars>>

(* The kinds of record the layers from the envelope to the policy refuse   *)
(* a call with; the first of them is the one recorded.                     *)
Refusals(c) ==
    <<  <<{"unauthentic", "expired"} \cap c.faults # {}, "envelope_rejected">>,
        <<"target" \in c.faults, "target_mismatch">>,
        <<"scope" \in c.faults, "continuity_fail">>,
        <<"intent" \in c.faults, "intent_drift">>,
        <<c.manifest # NoManifest /\ c.manifest \notin manifests, "deny">>,
        <<c.operation \notin Granted[token[c.session].role], "scope_fail">>,
        <<c.operation \in Outward /\ Tainted(c.session), "scope_fail">>,
        <<"classification" \in c.faults, "deny">>  >>

Fails(c) == {i \in DOMAIN Refusals(c) : Refusals(c)[i][1]}

(* The envelope is validated, and the layers up to the adapter run without *)
(* yielding.                                                               *)
EnvelopeValidated(r) ==
    LET c == req[r].call
    IN  /\ req[r].pc = "envelope"
        /\ \/ /\ Fails(c) # {}
              /\ \E i \in Fails(c) :
                    /\ \A j \in Fails(c) : i <= j
                    /\ Reply(r, Refusals(c)[i][2], FALSE, "denied")
              /\ UNCHANGED callVars
           \/ /\ Fails(c) = {}
              /\ c.operation \in DualControl /\ ~c.receipt
              /\ Reply(r, "dual_control_requested", FALSE, "202")
              /\ UNCHANGED callVars
           \/ /\ Fails(c) = {}
              /\ c.operation \in DualControl => c.receipt
              /\ IF c.operation \in Blocked
                 THEN /\ req' = [Moved(r, "adapter") EXCEPT ![r].answer = "refused"]
                      /\ UNCHANGED callVars
                 ELSE /\ req' = Moved(r, "adapter")
                      /\ pending' = pending \cup {<<r, "adapter">>}
                      /\ calledAt' = [calledAt EXCEPT ![r] = Len(log)]
                      /\ UNCHANGED ran
              /\ UNCHANGED chainVars
        /\ UNCHANGED <<bindingVars, brokerVars, admission, revocation, ended>>

(* The transport runs the operation, or fails; after a failure the         *)
(* operation may have run.                                                 *)
TransportRuns(r) ==
    /\ <<r, "adapter">> \in pending
    /\ pending' = pending \ {<<r, "adapter">>}
    /\ \E answer \in {"ok", "failed"} :
          /\ ran' \in {ran \cup {r}} \cup (IF answer = "failed" THEN {ran} ELSE {})
          /\ req' = IF req[r].pc = "adapter" THEN [req EXCEPT ![r].answer = answer] ELSE req
    /\ UNCHANGED <<bindingVars, brokerVars, chainVars, admission, revocation, ended, calledAt>>

AdapterAnswered(r) ==
    /\ req[r].pc = "adapter"
    /\ \/ req[r].answer = "ok" /\ Reply(r, "invoke", TRUE, "200")
       \/ req[r].answer = "failed" /\ Reply(r, "tool_block", TRUE, "denied")
       \/ req[r].answer = "refused" /\ Reply(r, "tool_block", FALSE, "denied")
    /\ UNCHANGED <<bindingVars, brokerVars, admission, revocation, ended, callVars>>

UnknownEventType == [s \in Stages |-> IF s = "nonce" THEN "timeout" ELSE "deny"]

TimeoutKind == [s \in Stages |->
    CASE s = "envelope" -> "continuity_fail" [] s = "adapter" -> "tool_block" [] OTHER -> "deny"]

FallsThrough(r) ==
    /\ req[r].pc \in Stages
    /\ req[r].answer # "refused"
    /\ IF req[r].pc = "adapter"
       THEN Reply(r, "invoke", TRUE, "200")
       ELSE Reply(r, TimeoutKind[req[r].pc], TRUE, "denied")
    /\ UNCHANGED <<bindingVars, brokerVars, admission, revocation, ended, callVars>>

NoNonceDeadline(r) ==
    /\ req[r].pc \in Stages \ {"nonce"}
    /\ req[r].answer # "refused"
    /\ Reply(r, TimeoutKind[req[r].pc], TRUE, "denied")
    /\ UNCHANGED <<bindingVars, brokerVars, admission, revocation, ended, callVars>>

(* withDeadline: the budget of the stage elapses before its answer is read.*)
(* The adapter's own refusal is read before any timer runs.                *)
DeadlineExceeded(r) ==
    /\ req[r].pc \in Stages
    /\ req[r].answer # "refused"
    /\ Reply(r, TimeoutKind[req[r].pc], TRUE, "denied")
    /\ UNCHANGED <<bindingVars, brokerVars, admission, revocation, ended, callVars>>

-----------------------------------------------------------------------------
Tick ==
    /\ Nie!Tick
    /\ UNCHANGED <<brokerVars, chainVars, admission, revocation, ended, req, callVars>>

ForgetsNonces ==
    /\ seen' = {}
    /\ req' = [r \in Requests |->
           IF req[r].pc \in Stages \cup Routes
           THEN [req[r] EXCEPT !.pc = "lost", !.answer = "waiting"] ELSE req[r]]
    /\ pending' = {p \in pending : p[2] = "adapter"}
    /\ UNCHANGED <<token, active, revoked, clock, brokerVars, admission, revocation, ended,
                   chainVars, ran, calledAt>>

(* The process dies and a new one opens the chain, or refuses it.  Its     *)
(* in-process bindings and its registries start empty; what the transport  *)
(* was sent may still run.                                                 *)
Restart ==
    /\ Nie!Restart
    /\ manifests' = {}
    /\ labels' = [s \in Sessions |-> {}]
    /\ refusing' \in (IF RecordsFail THEN BOOLEAN ELSE {refusing})
    /\ admission' = [s \in Sessions |->
           IF admission[s] \in {"attested", "refused"} THEN "failed" ELSE admission[s]]
    /\ revocation' = [x \in Revocable |->
           IF revocation[x] = "applied" THEN "failed" ELSE revocation[x]]
    /\ req' = [r \in Requests |->
           IF req[r].pc \in Stages \cup Routes
           THEN [req[r] EXCEPT !.pc = "lost", !.answer = "waiting"] ELSE req[r]]
    /\ pending' = {p \in pending : p[2] = "adapter"}
    /\ UNCHANGED <<log, ended, ran, calledAt>>

Step(r) ==
    \/ VerifyToken(r) \/ ConsumeNonce(r) \/ TransportRuns(r)
    \/ RegisterContext(r) \/ Cosign(r)
    \/ TokenVerified(r) \/ NonceConsumed(r) \/ EnvelopeValidated(r) \/ AdapterAnswered(r)
    \/ DeadlineExceeded(r)

Next ==
    \/ \E s \in Sessions : Admit(s) \/ Admitted(s)
    \/ \E x \in Revocable : Revoke(x) \/ Revoked(x)
    \/ \E r \in Requests : Step(r) \/ \E c \in Calls : Arrive(r, c)
    \/ Tick
    \/ Restart

(* Timers fire, and the adapter's answers are read, whatever the bindings  *)
(* and the transport do.                                                   *)
Fairness ==
    \A r \in Requests : WF_vars(DeadlineExceeded(r)) /\ WF_vars(AdapterAnswered(r))

Spec == Init /\ [][Next]_vars /\ Fairness

-----------------------------------------------------------------------------
Called(r) == calledAt[r] # Never

(* The positions of the records of a request on the chain.                 *)
RecordsOf(r) == {i \in 1..Len(log) : log[i].of = r}

(* The records the chain held when the transport was called for r.         *)
RecordedByCall(r) == {log[i] : i \in 1..calledAt[r]}

(* "Nonce single-use enforcement": whatever timed out, answered late or    *)
(* was restarted, the transport is called for at most one request of a     *)
(* session's nonce.                                                        *)
NonceForwardsOnce ==
    \A a, b \in Requests :
        /\ Called(a) /\ Called(b)
        /\ req[a].call.session = req[b].call.session
        /\ req[a].call.nonce = req[b].call.nonce
        => a = b

AnswerMatches(r) ==
    LET unnamed == req[r].call.kind = "register" /\ req[r].status = "denied"
    IN  /\ \A i, j \in RecordsOf(r) : i = j
        /\ RecordsOf(r) = {} => unnamed \/ req[r].status = "500"
        /\ unnamed => RecordsOf(r) = {}
        /\ req[r].call.kind = "invoke" /\ req[r].status # "500" =>
               \A i \in RecordsOf(r) :
                   /\ Called(r) => log[i].stamped
                   /\ req[r].status = "200" <=> log[i].kind = "invoke"
                   /\ req[r].status = "200" => r \in ran

(* What the client was answered is what the chain says: one record of each *)
(* request that was answered, at most one of a request whose append threw, *)
(* none of a registration without a token; an allow only of an operation   *)
(* the transport ran, and the transport's stamp on the record of every     *)
(* operation it was called for.                                            *)
AnswersMatchRecords == \A r \in Requests : req[r].pc = "done" => AnswerMatches(r)

(* "metadata merged into the record of an operation forwarded through the  *)
(* OpenClaw transport, and into no other": only the record of a request    *)
(* the transport was called for is stamped.                                *)
StampedWasCalled ==
    \A r \in Requests : \A i \in RecordsOf(r) : log[i].stamped => Called(r)

(* The taint of a session outlives everything registered after it: once    *)
(* the chain holds a registration of untrusted origin for a session, no    *)
(* export or escalation of that session is forwarded.                      *)
TaintGates ==
    \A r \in Requests :
        Called(r) /\ req[r].call.operation \in Outward =>
            ~ \E q \in Requests :
                /\ [kind |-> "register", of |-> q, stamped |-> FALSE] \in RecordedByCall(r)
                /\ req[q].call.session = req[r].call.session
                /\ req[q].call.origins \cap Untrusted # {}

(* The manifest is registered before its record is made, which may throw;  *)
(* yet an invoke that was answered 200 names only manifests whose          *)
(* registration the chain held when the transport was called.              *)
AllowedManifestsRecorded ==
    \A r \in Requests :
        Called(r) /\ req[r].status = "200" /\ req[r].call.manifest # NoManifest =>
            \E q \in Requests :
                /\ [kind |-> "register", of |-> q, stamped |-> FALSE] \in RecordedByCall(r)
                /\ req[q].call.manifest = req[r].call.manifest

(* What a request does that the caller's token allows: a call of the       *)
(* transport, a registration, a grant.                                     *)
ActKinds == {"invoke", "register", "dual_control_granted"}

Acted(r) == Called(r) \/ \E i \in 1..Len(log) : log[i].of = r /\ log[i].kind \in ActKinds

(* A request acts only for a session whose admission is on the chain       *)
(* before what it did, whatever became of the append of either.            *)
ActsAdmitted ==
    \A r \in Requests :
        LET admit == [kind |-> "admit", of |-> req[r].call.session, stamped |-> FALSE]
        IN  /\ Called(r) => admit \in RecordedByCall(r)
            /\ \A i \in 1..Len(log) :
                   log[i].of = r /\ log[i].kind \in ActKinds => \E j \in 1..(i - 1) : log[j] = admit

(* A revocation of a session, its subject or its device, recorded or not,  *)
(* ends it: no request that arrives later acts for it, whoever else is     *)
(* admitted in between and whatever process serves it.  One that arrived   *)
(* before and read its token in time may act after it: no layer looks at   *)
(* the token twice.                                                        *)
RevocationHolds == \A r \in Requests : Acted(r) => ~req[r].late

(* "A record that cannot be made durable throws, and the route's action is *)
(* denied with it": an invoke whose record could not be made was not       *)
(* forwarded.                                                              *)
UnrecordedNotForwarded ==
    \A r \in Requests : req[r].status = "500" => ~Called(r)

(* Every invoke is answered, though the bindings and the transport may     *)
(* never answer, unless the process dies first.                            *)
InvokesAnswered ==
    \A r \in Requests : req[r].pc \in Stages ~> req[r].pc \in {"done", "lost"}
=============================================================================
