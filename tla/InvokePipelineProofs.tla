------------------------ MODULE InvokePipelineProofs ------------------------
(***************************************************************************)
(* The safety of InvokePipeline for any number of requests, sessions,      *)
(* nonces and registrations.                                               *)
(***************************************************************************)
EXTENDS InvokePipeline, SequenceTheorems, TLAPS

USE PipelineAssumption DEF PipelineAssumption

Entry(kind, of, stamped) == [kind |-> kind, of |-> of, stamped |-> stamped]

-----------------------------------------------------------------------------
(* What the helpers of the handlers do to a request and to the chain.      *)

LEMMA ClosedRequest ==
  ASSUME TypeOK, NEW r \in Requests, NEW status \in {"200", "202", "denied", "500"}
  PROVE  /\ Closed(r, status) \in [Requests -> Request]
         /\ \A q \in Requests \ {r} : Closed(r, status)[q] = req[q]
         /\ Closed(r, status)[r].pc = "done"
         /\ Closed(r, status)[r].answer = "waiting"
         /\ Closed(r, status)[r].status = status
         /\ Closed(r, status)[r].call = req[r].call
         /\ Closed(r, status)[r].late = req[r].late
  <1>1. req \in [Requests -> Request]
    BY DEF TypeOK
  <1>2. [req[r] EXCEPT !.pc = "done", !.answer = "waiting", !.status = status] \in Request
    BY <1>1 DEF Request, PCs, Answers
  <1>3. Closed(r, status)
          = [req EXCEPT ![r] = [req[r] EXCEPT !.pc = "done", !.answer = "waiting", !.status = status]]
    BY <1>1 DEF Closed, Request
  <1>4. Closed(r, status) \in [Requests -> Request]
    BY <1>1, <1>2, <1>3
  <1> QED
    BY <1>1, <1>3, <1>4 DEF Request

LEMMA MovedRequest ==
  ASSUME TypeOK, NEW r \in Requests, NEW pc \in PCs
  PROVE  /\ Moved(r, pc) \in [Requests -> Request]
         /\ \A q \in Requests \ {r} : Moved(r, pc)[q] = req[q]
         /\ Moved(r, pc)[r].pc = pc
         /\ Moved(r, pc)[r].answer = "waiting"
         /\ Moved(r, pc)[r].status = req[r].status
         /\ Moved(r, pc)[r].call = req[r].call
         /\ Moved(r, pc)[r].late = req[r].late
  <1>1. req \in [Requests -> Request]
    BY DEF TypeOK
  <1>2. [req[r] EXCEPT !.pc = pc, !.answer = "waiting"] \in Request
    BY <1>1 DEF Request, Answers
  <1>3. Moved(r, pc) = [req EXCEPT ![r] = [req[r] EXCEPT !.pc = pc, !.answer = "waiting"]]
    BY <1>1 DEF Moved, Request
  <1>4. Moved(r, pc) \in [Requests -> Request]
    BY <1>1, <1>2, <1>3
  <1> QED
    BY <1>1, <1>3, <1>4 DEF Request

(* The chain after at most one append.                                     *)
LEMMA LogGrows ==
  ASSUME log \in Seq(Record), NEW e \in Record, log' = log \/ log' = Append(log, e)
  PROVE  /\ log' \in Seq(Record)
         /\ Len(log) \in Nat /\ Len(log') \in Nat /\ Len(log) <= Len(log')
         /\ \A i \in 1..Len(log) : log'[i] = log[i]
         /\ \A i \in 1..Len(log') :
               i \in 1..Len(log) \/ (i = Len(log) + 1 /\ log'[i] = e /\ log' = Append(log, e))
  <1>1. CASE log' = log
    BY <1>1
  <1>2. CASE log' = Append(log, e)
    BY <1>2, AppendProperties
  <1> QED
    BY <1>1, <1>2

LEMMA RecordedOrNot ==
  ASSUME TypeOK, NEW kind \in Kinds, NEW of \in Requests \cup Sessions \cup Revocable,
         NEW stamped \in BOOLEAN,
         Recorded(kind, of, stamped) \/ NotRecorded(kind, of, stamped)
  PROVE  /\ Entry(kind, of, stamped) \in Record
         /\ log' = log \/ log' = Append(log, Entry(kind, of, stamped))
         /\ log' \in Seq(Record)
         /\ refusing' \in BOOLEAN
         /\ refusing => refusing'
  <1>1. Entry(kind, of, stamped) \in Record
    BY DEF Entry, Record
  <1>2. log' = log \/ log' = Append(log, Entry(kind, of, stamped))
    BY DEF Recorded, NotRecorded, LogFails, Unencodable, chainVars, Entry
  <1>3. log' \in Seq(Record)
    BY <1>1, <1>2, LogGrows DEF TypeOK
  <1>4. refusing' \in BOOLEAN /\ (refusing => refusing')
    BY DEF Recorded, NotRecorded, LogFails, Unencodable, chainVars, TypeOK
  <1> QED
    BY <1>1, <1>2, <1>3, <1>4

(* A handler that records its decision and answers.                        *)
LEMMA ReplyDoes ==
  ASSUME TypeOK, NEW r \in Requests, NEW kind \in Kinds, NEW stamped \in BOOLEAN,
         NEW status \in {"200", "202", "denied"}, Reply(r, kind, stamped, status)
  PROVE  /\ req' \in [Requests -> Request]
         /\ \A q \in Requests \ {r} : req'[q] = req[q]
         /\ req'[r].pc = "done"
         /\ req'[r].answer = "waiting"
         /\ req'[r].call = req[r].call
         /\ req'[r].late = req[r].late
         /\ req'[r].status \in {status, "500"}
         /\ req'[r].status = status => ~refusing
         /\ Entry(kind, r, stamped) \in Record
         /\ log' = log \/ log' = Append(log, Entry(kind, r, stamped))
         /\ log' \in Seq(Record)
         /\ refusing' \in BOOLEAN
         /\ refusing => refusing'
  <1>1. CASE Recorded(kind, r, stamped) /\ req' = Closed(r, status)
    BY <1>1, ClosedRequest, RecordedOrNot DEF Recorded
  <1>2. CASE NotRecorded(kind, r, stamped) /\ req' = Closed(r, "500")
    BY <1>2, ClosedRequest, RecordedOrNot
  <1> QED
    BY <1>1, <1>2 DEF Reply

-----------------------------------------------------------------------------
(* The invariant.                                                          *)

(* A request between its token and the transport; one that has its nonce   *)
(* to itself.                                                              *)
InFlight(r) ==
    \/ req[r].pc \in {"nonce", "envelope"}
    \/ req[r].pc = "token" /\ req[r].answer = "valid"

Holds(r) ==
    \/ Called(r)
    \/ req[r].pc = "envelope"
    \/ req[r].pc = "nonce" /\ req[r].answer = "first"

Key(r) == <<req[r].call.session, req[r].call.nonce>>

(* A session this process still decides for: it is live, or it was when a  *)
(* request of it that is not answered read its token.                      *)
InUse(s) == s \in active \/ \E r \in Requests : InFlight(r) /\ req[r].call.session = s

Before(n, e) == \E j \in 1..n : log[j] = e

(* Requests and calls belong together.                                     *)
CallInv(r) ==
    /\ req[r].pc = "idle" => ~Called(r) /\ ~req[r].late
    /\ req[r].pc # "idle" => req[r].call \in Calls /\ admission[req[r].call.session] = "answered"
    /\ req[r].pc \in Stages => req[r].call.kind = "invoke"
    /\ req[r].pc = "context" => req[r].call.kind = "register"
    /\ Called(r) => /\ req[r].pc \in {"adapter", "done", "lost"}
                    /\ req[r].call.kind = "invoke"
                    /\ calledAt[r] \in 0..Len(log)
    /\ \A x \in {"nonce", "adapter"} :
          <<r, x>> \in pending => req[r].pc # "idle" /\ req[r].call.kind = "invoke"
    /\ req[r].status = "200" => req[r].pc = "done"

(* A session is named by its token, and a revoked one is out.              *)
TokenInv ==
    /\ \A s \in Sessions :
          /\ admission[s] = "none" => token[s] = NoToken
          /\ admission[s] \in {"attested", "answered"} => token[s] # NoToken
          /\ token[s] # NoToken => token[s].session = s
          /\ admission[s] = "answered" => Before(Len(log), Entry("admit", s, FALSE))
    /\ \A s \in ended : token[s] # NoToken /\ s \notin active

Base == TypeOK /\ TokenInv /\ \A r \in Requests : CallInv(r)

(* A nonce has one holder, and is in seen while its session is in use.     *)
NonceInv ==
    /\ \A a, b \in Requests : Holds(a) /\ Holds(b) /\ Key(a) = Key(b) => a = b
    /\ \A r \in Requests : Holds(r) /\ InUse(req[r].call.session) => Key(r) \in seen

(* The label of a session in use covers what the chain holds of it.        *)
LabelInv ==
    \A q \in Requests :
        /\ Before(Len(log), Entry("register", q, FALSE))
        /\ InUse(req[q].call.session)
        => req[q].call.origins \subseteq labels[req[q].call.session]

(* What a request recorded follows its admission and is of a request that  *)
(* has arrived.                                                            *)
ActInv ==
    \A i \in 1..Len(log) :
        log[i].kind \in ActKinds =>
            /\ log[i].of \in Requests
            /\ req[log[i].of].pc # "idle"
            /\ ~req[log[i].of].late
            /\ Before(i - 1, Entry("admit", req[log[i].of].call.session, FALSE))

(* A request that came late never gets past its token.                     *)
LateInv ==
    \A r \in Requests : req[r].late =>
        /\ req[r].call.session \in ended
        /\ req[r].answer # "valid"
        /\ req[r].pc \notin {"nonce", "envelope", "adapter"}
        /\ ~Called(r)

(* A manifest is on the chain, or the log refuses: so is what is forwarded.*)
Vouched(n, m) ==
    \E q \in Requests : Before(n, Entry("register", q, FALSE)) /\ req[q].call.manifest = m

ManifestInv ==
    /\ \A m \in manifests : refusing \/ Vouched(Len(log), m)
    /\ \A r \in Requests :
          /\ Called(r)
          /\ req[r].call.manifest # NoManifest
          /\ req[r].pc = "adapter" \/ req[r].status = "200"
          => Vouched(calledAt[r], req[r].call.manifest) \/ (refusing /\ req[r].status # "200")

IInv == Base /\ NonceInv /\ LabelInv /\ TaintGates /\ ActInv /\ ActsAdmitted /\ LateInv /\ ManifestInv

LEMMA InitInv == Init => IInv
  <1> SUFFICES ASSUME Init
               PROVE  IInv
    OBVIOUS
  <1>1. TypeOK
    <2>1. Nie!BindingsTypeOK
      BY DEF Init, Nie!BindingsInit, Nie!BindingsTypeOK
    <2>2. req \in [Requests -> Request]
      BY DEF Init, Request, PCs, Answers
    <2>3. log \in Seq(Record)
      BY DEF Init
    <2>4. refusing \in BOOLEAN
      BY DEF Init
    <2> QED
      BY <2>1, <2>2, <2>3, <2>4 DEF Init, TypeOK, Never
  <1>2. \A r \in Requests : ~Called(r) /\ req[r].pc = "idle" /\ ~req[r].late /\ req[r].status = "none"
    BY DEF Init, Called
  <1>3. log = <<>> /\ Len(log) = 0 /\ pending = {} /\ ended = {} /\ active = {} /\ manifests = {}
    BY DEF Init, Nie!BindingsInit
  <1>4. TokenInv /\ \A r \in Requests : CallInv(r)
    BY <1>2, <1>3 DEF TokenInv, CallInv, Init, Nie!BindingsInit, Stages, Called, Before
  <1>5. NonceInv /\ LabelInv
    BY <1>2, <1>3 DEF NonceInv, LabelInv, Holds, Before
  <1>6. TaintGates /\ ActInv /\ ActsAdmitted /\ LateInv /\ ManifestInv
    BY <1>2, <1>3 DEF TaintGates, ActInv, ActsAdmitted, LateInv, ManifestInv
  <1> QED
    BY <1>1, <1>4, <1>5, <1>6 DEF IInv, Base

-----------------------------------------------------------------------------
(* What a step does, as far as the invariant looks at it.                  *)

Edges == {<<"token", "nonce">>, <<"nonce", "envelope">>, <<"envelope", "adapter">>}
         \cup (Stages \cup Routes) \X {"done", "lost"}

Arrives(r) ==
    /\ req'[r].call \in Calls
    /\ admission[req'[r].call.session] = "answered"
    /\ req'[r].pc = FirstStage(req'[r].call)
    /\ req'[r].answer = "waiting"
    /\ req'[r].status = "none"
    /\ req'[r].late = (req'[r].call.session \in ended)
    /\ calledAt'[r] = calledAt[r]

Forwards(r) ==
    LET c == req[r].call
    IN  /\ req[r].pc = "envelope" /\ req'[r].pc = "adapter"
        /\ calledAt'[r] = Len(log) /\ log' = log
        /\ c.manifest # NoManifest => c.manifest \in manifests
        /\ c.operation \in Outward => ~Tainted(c.session)

(* To a request.                                                           *)
Moves(r) ==
    \/ req'[r] = req[r] /\ calledAt'[r] = calledAt[r]
    \/ req[r].pc = "idle" /\ Arrives(r)
    \/ /\ req[r].pc # "idle"
       /\ req'[r].call = req[r].call /\ req'[r].late = req[r].late
       /\ req'[r].pc = req[r].pc \/ <<req[r].pc, req'[r].pc>> \in Edges
       /\ req'[r].answer = "valid" => req[r].answer = "valid" \/ req[r].call.session \in active
       /\ req'[r].pc = "nonce" /\ req[r].pc = "token" => req[r].answer = "valid"
       /\ Holds(r)' => Holds(r) \/ (InFlight(r) /\ Key(r) \notin seen /\ Key(r) \in seen')
       /\ req'[r].status = "200" /\ req[r].status # "200" =>
             /\ req[r].pc \in Stages \cup Routes /\ req'[r].pc = "done"
             /\ req[r].pc \in Stages => ~refusing
       /\ calledAt'[r] = calledAt[r] \/ Forwards(r)

(* To the chain: the act it adds is of a request that read its token.      *)
Acts(e) ==
    /\ e.of \in Requests
    /\ req'[e.of].pc = "done"
    /\ req[e.of].answer = "valid" \/ req[e.of].pc = "adapter"
    /\ req[e.of].pc # "idle"
    /\ e = Entry("register", e.of, FALSE) =>
           req[e.of].call.origins \subseteq labels'[req[e.of].call.session]

Writes ==
    \/ log' = log
    \/ \E e \in Record : log' = Append(log, e) /\ (e.kind \in ActKinds => Acts(e))

(* To what the requests share.                                             *)
Shares ==
    /\ \A s \in Sessions : admission[s] = "answered" => admission'[s] = "answered"
    /\ \A s \in ended' : s \in ended \/ (token'[s] # NoToken /\ s \notin active')
    /\ ended \subseteq ended'
    /\ \A r \in Requests, x \in {"nonce", "adapter"} :
          <<r, x>> \in pending' => <<r, x>> \in pending \/ req[r].pc \in Stages
    /\ \/ /\ active' = {} /\ manifests' = {}
          /\ \A r \in Requests :
                /\ ~InFlight(r)'
                /\ req'[r].pc # "adapter"
                /\ req'[r].status = req[r].status
                /\ Holds(r)' => Holds(r)
       \/ /\ refusing => refusing'
          /\ seen \subseteq seen'
          /\ \A s \in Sessions : labels[s] \subseteq labels'[s]
          /\ \A s \in active' : s \in active \/ admission[s] = "none"
          /\ \A a, b \in Requests : a = b \/ req'[a] = req[a] \/ req'[b] = req[b]
          /\ \A a, b \in Requests : a = b \/ calledAt'[a] = calledAt[a] \/ calledAt'[b] = calledAt[b]

(* To the manifests.                                                       *)
Vouches ==
    \A m \in manifests' \ manifests :
        \/ refusing'
        \/ \E q \in Requests :
              /\ log' = Append(log, Entry("register", q, FALSE))
              /\ req[q].pc # "idle" /\ req[q].call.manifest = m

Tokens ==
    \A s \in Sessions :
        /\ admission'[s] = "none" => admission[s] = "none" /\ token'[s] = token[s]
        /\ token[s] # NoToken => token'[s] = token[s]
        /\ token'[s] # token[s] => token'[s].session = s
        /\ admission'[s] \in {"attested", "answered"} => token'[s] # NoToken
        /\ admission'[s] = "answered" =>
              admission[s] = "answered" \/ log' = Append(log, Entry("admit", s, FALSE))

Effect == TypeOK' /\ (\A r \in Requests : Moves(r)) /\ Writes /\ Shares /\ Vouches /\ Tokens

-----------------------------------------------------------------------------
(* Steps that leave the requests alone.                                    *)

LEMMA StillEffect ==
  ASSUME Base, UNCHANGED <<brokerVars, req, callVars>>,
         Nie!BindingsTypeOK', log' \in Seq(Record), refusing' \in BOOLEAN,
         admission' \in [Sessions -> {"none", "attested", "refused", "answered", "failed"}],
         revocation' \in [Revocable -> {"none", "applied", "answered", "failed"}],
         ended' \subseteq Sessions, Writes, Tokens,
         refusing => refusing', seen \subseteq seen',
         \A s \in Sessions : admission[s] = "answered" => admission'[s] = "answered",
         \A s \in active' : s \in active \/ admission[s] = "none",
         ended \subseteq ended',
         \A s \in ended' : s \in ended \/ (token'[s] # NoToken /\ s \notin active')
  PROVE  Effect
  <1> USE DEF brokerVars, callVars
  <1>1. TypeOK'
    BY DEF Base, TypeOK
  <1>2. (\A r \in Requests : Moves(r)) /\ Vouches
    BY DEF Moves, Vouches
  <1>3. Shares
    BY DEF Shares
  <1> QED
    BY <1>1, <1>2, <1>3 DEF Effect

LEMMA AdmitEffect ==
  ASSUME Base, NEW s \in Sessions, Admit(s)
  PROVE  Effect
  <1> USE DEF Admit, brokerVars, chainVars, callVars
  <1>1. PICK attested \in BOOLEAN :
            /\ Nie!Attest(s, SubjectOf[s], DeviceOf[s], RoleOf[s], {}, attested)
            /\ admission' = [admission EXCEPT ![s] =
                   IF Nie!Refused(SubjectOf[s], DeviceOf[s], attested) THEN "refused" ELSE "attested"]
    OBVIOUS
  <1>2. CASE Nie!Refused(SubjectOf[s], DeviceOf[s], attested)
    <2>1. UNCHANGED bindingVars /\ admission' = [admission EXCEPT ![s] = "refused"]
      BY <1>1, <1>2 DEF Nie!Attest, Nie!bindingVars, bindingVars
    <2>2. Nie!BindingsTypeOK' /\ Writes /\ Tokens
      BY <2>1 DEF bindingVars, Base, TypeOK, Nie!BindingsTypeOK, Writes, Tokens, TokenInv
    <2> QED
      BY <2>1, <2>2, StillEffect DEF bindingVars, Base, TypeOK
  <1>3. CASE ~Nie!Refused(SubjectOf[s], DeviceOf[s], attested)
    <2> DEFINE state == [session |-> s, subject |-> SubjectOf[s], device |-> DeviceOf[s],
                         role |-> RoleOf[s], operations |-> {}, expiresAt |-> clock + Lifetime,
                         parent |-> s]
    <2>1. /\ token[s] = NoToken /\ token' = [token EXCEPT ![s] = state]
          /\ active' = active \cup {s} /\ UNCHANGED <<revoked, seen, clock>>
          /\ admission' = [admission EXCEPT ![s] = "attested"]
      BY <1>1, <1>3 DEF Nie!Attest, Nie!Mint
    <2>2. state \in Nie!TokenState /\ state.session = s
      BY DEF Base, TypeOK, Nie!BindingsTypeOK, Nie!TokenState
    <2> HIDE DEF state
    <2>3. Nie!BindingsTypeOK'
      BY <2>1, <2>2 DEF Base, TypeOK, Nie!BindingsTypeOK
    <2>4. Writes
      BY DEF Writes
    <2>5. /\ token \in [Sessions -> Nie!TokenState \cup {NoToken}] /\ state # NoToken
          /\ admission \in [Sessions -> {"none", "attested", "refused", "answered", "failed"}]
      BY <2>2 DEF Base, TypeOK, Nie!BindingsTypeOK
    <2>6. Tokens
      <3>1. \A q \in Sessions \ {s} : token'[q] = token[q] /\ admission'[q] = admission[q]
        BY <2>1, <2>5
      <3>2. token'[s] = state /\ admission'[s] = "attested"
        BY <2>1, <2>5
      <3> QED
        BY <2>1, <2>2, <2>5, <3>1, <3>2 DEF Base, TokenInv, Tokens
    <2> QED
      BY <2>1, <2>3, <2>4, <2>6, StillEffect DEF Base, TypeOK
  <1> QED
    BY <1>2, <1>3

LEMMA AdmittedEffect ==
  ASSUME Base, NEW s \in Sessions, Admitted(s)
  PROVE  Effect
  <1> USE DEF brokerVars, callVars
  <1>1. /\ UNCHANGED <<bindingVars, brokerVars, revocation, ended, req, callVars>>
        /\ \E kind \in {"deny", "admit"} : Recorded(kind, s, FALSE) \/ NotRecorded(kind, s, FALSE)
    BY DEF Admitted, Denied, NotRecorded
  <1>2. PICK kind \in {"deny", "admit"} : Recorded(kind, s, FALSE) \/ NotRecorded(kind, s, FALSE)
    BY <1>1
  <1>3. /\ Entry(kind, s, FALSE) \in Record
        /\ log' = log \/ log' = Append(log, Entry(kind, s, FALSE))
        /\ log' \in Seq(Record) /\ refusing' \in BOOLEAN /\ (refusing => refusing')
    BY <1>2, RecordedOrNot DEF Base, Kinds
  <1>4. Writes
    BY <1>3 DEF Writes, ActKinds, Entry
  <1>5. /\ admission[s] \in {"attested", "refused"}
        /\ \/ admission' = [admission EXCEPT ![s] = "failed"]
           \/ /\ admission[s] = "attested"
              /\ admission' = [admission EXCEPT ![s] = "answered"]
              /\ log' = Append(log, Entry("admit", s, FALSE))
    BY DEF Admitted, Denied, Recorded, Entry
  <1>6. Tokens
    <2>1. token' = token
      BY <1>1 DEF bindingVars
    <2>2. admission \in [Sessions -> {"none", "attested", "refused", "answered", "failed"}]
      BY DEF Base, TypeOK
    <2>3. \A q \in Sessions \ {s} : admission'[q] = admission[q]
      BY <1>5, <2>2
    <2>4. CASE admission' = [admission EXCEPT ![s] = "failed"]
      BY <1>5, <2>1, <2>2, <2>3, <2>4 DEF Tokens, Base, TokenInv
    <2>5. CASE /\ admission[s] = "attested"
               /\ admission' = [admission EXCEPT ![s] = "answered"]
               /\ log' = Append(log, Entry("admit", s, FALSE))
      BY <2>1, <2>2, <2>3, <2>5 DEF Tokens, Base, TokenInv
    <2> QED
      BY <1>5, <2>4, <2>5
  <1>7. Nie!BindingsTypeOK'
    BY <1>1 DEF bindingVars, Base, TypeOK, Nie!BindingsTypeOK
  <1> QED
    BY <1>1, <1>3, <1>4, <1>5, <1>6, <1>7, StillEffect DEF bindingVars, Base, TypeOK

LEMMA RevokeEffect ==
  ASSUME Base, NEW x \in Revocable, Revoke(x)
  PROVE  Effect
  <1> USE DEF brokerVars, chainVars, callVars
  <1>1. /\ revoked' = revoked \cup {<<x[1], x[2]>>}
        /\ active' = active \ {h \in active : Nie!Named(h, x[1]) = x[2]}
        /\ UNCHANGED <<token, seen, clock, brokerVars, chainVars, admission, req, callVars>>
        /\ ended' = ended \cup {s \in Sessions : token[s] # NoToken /\ Nie!Named(s, x[1]) = x[2]}
        /\ revocation' = [revocation EXCEPT ![x] = "applied"]
    BY DEF Revoke, Nie!Revoke
  <1>2. <<x[1], x[2]>> \in Nie!Kinds \X (Subjects \cup Sessions \cup Devices)
    OBVIOUS
  <1>3. Nie!BindingsTypeOK'
    BY <1>1, <1>2 DEF Base, TypeOK, Nie!BindingsTypeOK
  <1>4. Writes /\ Tokens
    BY <1>1 DEF Writes, Tokens, Base, TokenInv
  <1>5. \A s \in ended' : s \in ended \/ (token'[s] # NoToken /\ s \notin active')
    BY <1>1
  <1> QED
    BY <1>1, <1>3, <1>4, <1>5, StillEffect DEF Base, TypeOK

LEMMA RevokedEffect ==
  ASSUME Base, NEW x \in Revocable, Revoked(x)
  PROVE  Effect
  <1> USE DEF brokerVars, callVars
  <1>1. /\ UNCHANGED <<bindingVars, brokerVars, admission, ended, req, callVars>>
        /\ Recorded("revoke", x, FALSE) \/ NotRecorded("revoke", x, FALSE)
        /\ revocation' \in [Revocable -> {"none", "applied", "answered", "failed"}]
    BY DEF Revoked, Base, TypeOK
  <1>2. /\ Entry("revoke", x, FALSE) \in Record
        /\ log' = log \/ log' = Append(log, Entry("revoke", x, FALSE))
        /\ log' \in Seq(Record) /\ refusing' \in BOOLEAN /\ (refusing => refusing')
    BY <1>1, RecordedOrNot DEF Base, Kinds
  <1>3. Writes
    BY <1>2 DEF Writes, ActKinds, Entry
  <1>4. Tokens /\ Nie!BindingsTypeOK'
    BY <1>1 DEF Tokens, bindingVars, Base, TypeOK, TokenInv, Nie!BindingsTypeOK
  <1> QED
    BY <1>1, <1>2, <1>3, <1>4, StillEffect DEF bindingVars, Base, TypeOK

LEMMA TickEffect ==
  ASSUME Base, Tick
  PROVE  Effect
  <1> USE DEF Tick, Nie!Tick, brokerVars, chainVars, callVars
  <1>1. Nie!BindingsTypeOK'
    BY DEF Base, TypeOK, Nie!BindingsTypeOK
  <1>2. Writes /\ Tokens
    BY DEF Writes, Tokens, Base, TokenInv
  <1> QED
    BY <1>1, <1>2, StillEffect DEF Base, TypeOK

-----------------------------------------------------------------------------
(* Steps of one request.                                                   *)

LEMMA TouchEffect ==
  ASSUME Base, NEW r \in Requests,
         UNCHANGED <<token, active, revoked, clock, admission, revocation, ended>>,
         seen' \in SUBSET (Sessions \X Nonces), seen \subseteq seen',
         manifests' \subseteq Manifests,
         labels' \in [Sessions -> SUBSET Origins],
         \A s \in Sessions : labels[s] \subseteq labels'[s],
         log' \in Seq(Record), refusing' \in BOOLEAN, refusing => refusing',
         req' \in [Requests -> Request], \A q \in Requests \ {r} : req'[q] = req[q],
         pending' \subseteq Requests \X {"nonce", "adapter"}, ran' \subseteq Requests,
         calledAt' \in [Requests -> Nat \cup {Never}],
         \A q \in Requests \ {r} : calledAt'[q] = calledAt[q],
         pending' \subseteq pending \cup {<<r, "nonce">>, <<r, "adapter">>},
         pending' \subseteq pending \/ req[r].pc \in Stages,
         Moves(r), Writes, Vouches
  PROVE  Effect
  <1>1. Nie!BindingsTypeOK'
    BY DEF Base, TypeOK, Nie!BindingsTypeOK
  <1>2. TypeOK'
    BY <1>1 DEF Base, TypeOK
  <1>3. \A q \in Requests : Moves(q)
    BY DEF Moves
  <1>4. \A q \in Requests, x \in {"nonce", "adapter"} :
            <<q, x>> \in pending' => <<q, x>> \in pending \/ req[q].pc \in Stages
    OBVIOUS
  <1>5. Shares
    BY <1>4 DEF Shares
  <1>6. Tokens
    BY DEF Tokens, Base, TokenInv
  <1> QED
    BY <1>2, <1>3, <1>5, <1>6 DEF Effect

LEMMA ArriveEffect ==
  ASSUME Base, NEW r \in Requests, NEW c \in Calls, Arrive(r, c)
  PROVE  Effect
  <1> USE DEF bindingVars, brokerVars, chainVars, callVars
  <1>1. c.kind \in {"invoke", "register", "cosign"} /\ c.session \in Sessions
    BY DEF Calls, Invocation, Registration, Cosigning
  <1> DEFINE new == [pc |-> FirstStage(c), call |-> c, answer |-> "waiting", status |-> "none",
                     late |-> c.session \in ended]
  <1>2. FirstStage(c) \in PCs
    BY <1>1 DEF FirstStage, PCs, Stages, Routes
  <1>3. new.late \in BOOLEAN
    OBVIOUS
  <1>4. new \in Request
    BY <1>2, <1>3 DEF Request, Answers
  <1>5. req' = [req EXCEPT ![r] = new] /\ req \in [Requests -> Request]
    BY DEF Arrive, Base, TypeOK
  <1>6. req'[r] = new /\ req' \in [Requests -> Request] /\ \A q \in Requests \ {r} : req'[q] = req[q]
    <2> HIDE DEF new
    <2> QED
      BY <1>4, <1>5
  <1>7. Moves(r)
    BY <1>6 DEF Moves, Arrives, Arrive
  <1>8. Writes /\ Vouches
    BY DEF Writes, Vouches, Arrive
  <1> QED
    BY <1>6, <1>7, <1>8, TouchEffect DEF Arrive, Base, TypeOK, Nie!BindingsTypeOK

LEMMA VerifyTokenEffect ==
  ASSUME Base, NEW r \in Requests, VerifyToken(r)
  PROVE  Effect
  <1> USE DEF VerifyToken, bindingVars, brokerVars, chainVars, callVars
  <1> DEFINE a == IF Nie!Verifies(req[r].call.session) THEN "valid" ELSE "invalid"
  <1>1. req' = [req EXCEPT ![r].answer = a] /\ req \in [Requests -> Request] /\ a \in Answers
    BY DEF Base, TypeOK, Answers
  <1>2. a = "valid" => req[r].call.session \in active
    BY DEF Nie!Verifies
  <1> HIDE DEF a
  <1>3. /\ req' \in [Requests -> Request] /\ \A q \in Requests \ {r} : req'[q] = req[q]
        /\ req'[r] = [req[r] EXCEPT !.answer = a]
    BY <1>1 DEF Request
  <1>4. /\ req'[r].pc = req[r].pc /\ req'[r].call = req[r].call /\ req'[r].late = req[r].late
        /\ req'[r].status = req[r].status /\ req'[r].answer = a
    BY <1>1, <1>3 DEF Request
  <1>5. req[r].pc \in {"token", "context", "cosign"}
    BY DEF Routes
  <1>6. Holds(r)' => Holds(r)
    BY <1>4, <1>5 DEF Holds, Called
  <1>7. req[r].pc # "idle" /\ req'[r].pc # "nonce" /\ calledAt'[r] = calledAt[r]
    BY <1>4, <1>5
  <1>8. req'[r].answer = "valid" => req[r].call.session \in active
    BY <1>2, <1>4
  <1>9. Moves(r)
    BY <1>4, <1>6, <1>7, <1>8 DEF Moves
  <1>10. Writes /\ Vouches
    BY DEF Writes, Vouches
  <1> QED
    BY <1>3, <1>9, <1>10, TouchEffect DEF Base, TypeOK, Nie!BindingsTypeOK

(* Every reply of a handler takes the same form.                           *)
LEMMA ReplyEffect ==
  ASSUME Base, NEW r \in Requests, NEW kind \in Kinds, NEW stamped \in BOOLEAN,
         NEW status \in {"200", "202", "denied"}, Reply(r, kind, stamped, status),
         req[r].pc \in Stages \cup Routes,
         UNCHANGED <<bindingVars, admission, revocation, ended, callVars>>,
         manifests' \subseteq Manifests, labels' \in [Sessions -> SUBSET Origins],
         \A s \in Sessions : labels[s] \subseteq labels'[s],
         kind \in ActKinds => req[r].answer = "valid" \/ req[r].pc = "adapter",
         kind = "register" => req[r].call.origins \subseteq labels'[req[r].call.session],
         Vouches
  PROVE  Effect
  <1> USE DEF bindingVars, callVars
  <1> DEFINE e == Entry(kind, r, stamped)
  <1>1. /\ req' \in [Requests -> Request] /\ \A q \in Requests \ {r} : req'[q] = req[q]
        /\ req'[r].pc = "done" /\ req'[r].answer = "waiting"
        /\ req'[r].call = req[r].call /\ req'[r].late = req[r].late
        /\ req'[r].status = "200" => ~refusing
        /\ e \in Record /\ (log' = log \/ log' = Append(log, e))
        /\ log' \in Seq(Record) /\ refusing' \in BOOLEAN /\ (refusing => refusing')
    BY ReplyDoes DEF Base
  <1>2. req[r].pc # "idle" /\ <<req[r].pc, "done">> \in Edges
    BY DEF Edges, Stages, Routes
  <1>3. Holds(r)' => Holds(r)
    BY <1>1 DEF Holds, Called
  <1>4. Moves(r)
    BY <1>1, <1>2, <1>3 DEF Moves
  <1>5. e.kind = kind /\ e.of = r /\ (e = Entry("register", r, FALSE) => kind = "register")
    BY DEF Entry
  <1>6. Writes
    <2> HIDE DEF e
    <2> QED
      BY <1>1, <1>2, <1>5 DEF Writes, Acts
  <1> QED
    BY <1>1, <1>4, <1>6, TouchEffect DEF Base, TypeOK, Nie!BindingsTypeOK

LEMMA CallTypes ==
  ASSUME NEW c \in Calls
  PROVE  /\ c.session \in Sessions
         /\ c.kind = "invoke" => /\ c.nonce \in Nonces /\ c.operation \in Operations
                                 /\ c.manifest \in Manifests \cup {NoManifest}
         /\ c.kind = "register" => c.manifest \in Manifests /\ c.origins \subseteq Origins
  BY DEF Calls, Invocation, Registration, Cosigning

LEMMA RegisterContextEffect ==
  ASSUME Base, NEW r \in Requests, RegisterContext(r)
  PROVE  Effect
  <1> USE DEF callVars
  <1>1. /\ req[r].pc = "context" /\ req[r].call.session \in Sessions
        /\ req[r].call.manifest \in Manifests /\ req[r].call.origins \subseteq Origins
    BY CallTypes DEF RegisterContext, Base, CallInv
  <1>2. CASE req[r].answer = "invalid" /\ req' = Closed(r, "denied") /\ UNCHANGED <<brokerVars, chainVars>>
    <2>1. /\ req' \in [Requests -> Request] /\ \A q \in Requests \ {r} : req'[q] = req[q]
          /\ req'[r].pc = "done" /\ req'[r].answer = "waiting" /\ req'[r].status = "denied"
          /\ req'[r].call = req[r].call /\ req'[r].late = req[r].late
      BY <1>2, ClosedRequest DEF Base
    <2>2. UNCHANGED <<bindingVars, brokerVars, chainVars, admission, revocation, ended, callVars>>
      BY <1>2 DEF RegisterContext
    <2>3. Holds(r)' => Holds(r)
      BY <2>1, <2>2 DEF Holds, Called
    <2>4. Moves(r)
      BY <1>1, <2>1, <2>2, <2>3 DEF Moves, Edges, Routes
    <2>5. Writes /\ Vouches
      BY <2>2 DEF Writes, Vouches, brokerVars, chainVars
    <2> QED
      BY <2>1, <2>2, <2>4, <2>5, TouchEffect
         DEF Base, TypeOK, Nie!BindingsTypeOK, bindingVars, brokerVars, chainVars
  <1>3. CASE /\ req[r].answer = "valid"
             /\ manifests' = manifests \cup {req[r].call.manifest}
             /\ labels' = [labels EXCEPT ![req[r].call.session] = @ \cup req[r].call.origins]
             /\ Reply(r, "register", FALSE, "200")
    <2>1. /\ manifests' \subseteq Manifests /\ labels' \in [Sessions -> SUBSET Origins]
          /\ \A s \in Sessions : labels[s] \subseteq labels'[s]
          /\ req[r].call.origins \subseteq labels'[req[r].call.session]
      BY <1>1, <1>3 DEF Base, TypeOK
    <2>2. refusing' \/ log' = Append(log, Entry("register", r, FALSE))
      BY <1>3 DEF Reply, Recorded, NotRecorded, LogFails, Unencodable, QuotesText, chainVars, Entry
    <2>3. Vouches
      BY <1>1, <1>3, <2>2 DEF Vouches
    <2>4. UNCHANGED <<bindingVars, admission, revocation, ended, callVars>>
      BY DEF RegisterContext
    <2> QED
      BY <1>1, <1>3, <2>1, <2>3, <2>4, ReplyEffect DEF Kinds, Routes
  <1> QED
    BY <1>2, <1>3 DEF RegisterContext

LEMMA CosignEffect ==
  ASSUME Base, NEW r \in Requests, Cosign(r)
  PROVE  Effect
  <1>1. /\ UNCHANGED <<bindingVars, brokerVars, admission, revocation, ended, callVars>>
        /\ req[r].pc = "cosign"
    BY DEF Cosign
  <1>2. Vouches
    BY <1>1 DEF Vouches, brokerVars
  <1>3. \/ Reply(r, "dual_control_denied", FALSE, "denied")
        \/ Reply(r, "dual_control_denied", FALSE, "200")
        \/ req[r].answer = "valid" /\ Reply(r, "dual_control_granted", FALSE, "200")
    BY DEF Cosign
  <1> QED
    BY <1>1, <1>2, <1>3, ReplyEffect
       DEF Base, TypeOK, Kinds, ActKinds, Routes, brokerVars

LEMMA TokenVerifiedEffect ==
  ASSUME Base, NEW r \in Requests, TokenVerified(r)
  PROVE  Effect
  <1>1. /\ UNCHANGED <<bindingVars, brokerVars, admission, revocation, ended, ran, calledAt>>
        /\ req[r].pc = "token"
    BY DEF TokenVerified
  <1>2. Vouches
    BY <1>1 DEF Vouches, brokerVars
  <1>3. CASE Reply(r, "deny", FALSE, "denied") /\ UNCHANGED pending
    BY <1>1, <1>2, <1>3, ReplyEffect
       DEF Base, TypeOK, Kinds, ActKinds, Stages, brokerVars, callVars
  <1>4. CASE /\ req[r].answer = "valid" /\ req' = Moved(r, "nonce")
             /\ pending' = pending \cup {<<r, "nonce">>} /\ UNCHANGED chainVars
    <2>1. /\ req' \in [Requests -> Request] /\ \A q \in Requests \ {r} : req'[q] = req[q]
          /\ req'[r].pc = "nonce" /\ req'[r].answer = "waiting" /\ req'[r].status = req[r].status
          /\ req'[r].call = req[r].call /\ req'[r].late = req[r].late
      BY <1>4, MovedRequest DEF Base, PCs, Stages
    <2>2. Holds(r)' => Holds(r)
      BY <1>1, <2>1 DEF Holds, Called
    <2>3. Moves(r)
      BY <1>1, <1>4, <2>1, <2>2 DEF Moves, Edges
    <2>4. Writes
      BY <1>4 DEF Writes, chainVars
    <2>5. /\ pending' \subseteq Requests \X {"nonce", "adapter"}
          /\ pending' \subseteq pending \cup {<<r, "nonce">>, <<r, "adapter">>}
          /\ req[r].pc \in Stages
      BY <1>1, <1>4 DEF Base, TypeOK, Stages
    <2>6. UNCHANGED <<token, active, revoked, seen, clock, manifests, labels, log, refusing,
                      admission, revocation, ended, ran, calledAt>>
      BY <1>1, <1>4 DEF bindingVars, brokerVars, chainVars
    <2> QED
      BY <1>2, <2>1, <2>3, <2>4, <2>5, <2>6, TouchEffect
         DEF Base, TypeOK, Nie!BindingsTypeOK
  <1> QED
    BY <1>3, <1>4 DEF TokenVerified

LEMMA ConsumeNonceEffect ==
  ASSUME Base, NEW r \in Requests, ConsumeNonce(r)
  PROVE  Effect
  <1> DEFINE c == req[r].call
  <1>1. /\ req[r].pc # "idle" /\ c.kind = "invoke" /\ c \in Calls
        /\ c.session \in Sessions /\ c.nonce \in Nonces
        /\ token[c.session].session = c.session
    BY CallTypes DEF ConsumeNonce, Base, CallInv, TokenInv
  <1>2. /\ pending' = pending \ {<<r, "nonce">>}
        /\ seen' = seen \cup {Key(r)}
        /\ UNCHANGED <<token, active, revoked, clock, brokerVars, chainVars, admission,
                       revocation, ended, ran, calledAt>>
    BY <1>1 DEF ConsumeNonce, Nie!ConsumeNonce, Key
  <1>3. Writes /\ Vouches
    BY <1>2 DEF Writes, Vouches, brokerVars, chainVars
  <1>4. /\ req' \in [Requests -> Request] /\ \A q \in Requests \ {r} : req'[q] = req[q]
        /\ Moves(r)
    <2>1. CASE req[r].pc # "nonce"
      BY <1>2, <2>1 DEF ConsumeNonce, Moves, Base, TypeOK
    <2>2. CASE req[r].pc = "nonce"
      <3> DEFINE a == IF Key(r) \in seen THEN "replay" ELSE "first"
      <3>1. req' = [req EXCEPT ![r].answer = a] /\ req \in [Requests -> Request] /\ a \in Answers
        BY <2>2 DEF ConsumeNonce, Key, Base, TypeOK, Answers
      <3>2. a = "first" => Key(r) \notin seen
        OBVIOUS
      <3>3. a # "valid"
        OBVIOUS
      <3> HIDE DEF a
      <3>4. /\ req' \in [Requests -> Request] /\ \A q \in Requests \ {r} : req'[q] = req[q]
            /\ req'[r].pc = "nonce" /\ req'[r].answer = a /\ req'[r].status = req[r].status
            /\ req'[r].call = req[r].call /\ req'[r].late = req[r].late
        BY <2>2, <3>1 DEF Request
      <3>5. Holds(r)' => Holds(r) \/ (InFlight(r) /\ Key(r) \notin seen /\ Key(r) \in seen')
        BY <1>2, <2>2, <3>2, <3>4 DEF Holds, Called, InFlight
      <3>6. Moves(r)
        BY <1>1, <1>2, <2>2, <3>3, <3>4, <3>5 DEF Moves
      <3> QED
        BY <3>4, <3>6
    <2> QED
      BY <2>1, <2>2
  <1>5. Key(r) \in Sessions \X Nonces
    BY <1>1 DEF Key
  <1>6. seen' \in SUBSET (Sessions \X Nonces) /\ seen \subseteq seen' /\ pending' \subseteq pending
    BY <1>2, <1>5 DEF Base, TypeOK, Nie!BindingsTypeOK
  <1>7. /\ manifests' \subseteq Manifests /\ labels' \in [Sessions -> SUBSET Origins]
        /\ \A s \in Sessions : labels[s] \subseteq labels'[s]
        /\ log' \in Seq(Record) /\ refusing' \in BOOLEAN /\ (refusing => refusing')
        /\ pending' \subseteq Requests \X {"nonce", "adapter"} /\ ran' \subseteq Requests
        /\ calledAt' \in [Requests -> Nat \cup {Never}]
    BY <1>2, <1>6 DEF Base, TypeOK, brokerVars, chainVars
  <1> QED
    BY <1>2, <1>3, <1>4, <1>6, <1>7, TouchEffect

LEMMA NonceConsumedEffect ==
  ASSUME Base, NEW r \in Requests, NonceConsumed(r)
  PROVE  Effect
  <1>1. /\ UNCHANGED <<bindingVars, brokerVars, admission, revocation, ended, callVars>>
        /\ req[r].pc = "nonce"
    BY DEF NonceConsumed
  <1>2. Vouches
    BY <1>1 DEF Vouches, brokerVars
  <1>3. CASE Reply(r, "replay_fail", FALSE, "denied")
    BY <1>1, <1>2, <1>3, ReplyEffect
       DEF Base, TypeOK, Kinds, ActKinds, Stages, brokerVars
  <1>4. CASE req[r].answer = "first" /\ req' = Moved(r, "envelope") /\ UNCHANGED chainVars
    <2>1. /\ req' \in [Requests -> Request] /\ \A q \in Requests \ {r} : req'[q] = req[q]
          /\ req'[r].pc = "envelope" /\ req'[r].answer = "waiting" /\ req'[r].status = req[r].status
          /\ req'[r].call = req[r].call /\ req'[r].late = req[r].late
      BY <1>4, MovedRequest DEF Base, PCs, Stages
    <2>2. Holds(r)
      BY <1>1, <1>4 DEF Holds
    <2>3. Moves(r)
      BY <1>1, <2>1, <2>2 DEF Moves, Edges, callVars
    <2>4. Writes
      BY <1>4 DEF Writes, chainVars
    <2> QED
      BY <1>1, <1>2, <1>4, <2>1, <2>3, <2>4, TouchEffect
         DEF Base, TypeOK, Nie!BindingsTypeOK, bindingVars, brokerVars, chainVars, callVars
  <1> QED
    BY <1>3, <1>4 DEF NonceConsumed

(* What an invoke is refused with is a kind of record, and none of an act. *)
LEMMA RefusalKinds ==
  ASSUME NEW c, NEW i \in Fails(c)
  PROVE  Refusals(c)[i][2] \in Kinds \ ActKinds
  <1>1. i \in 1..8
    BY DEF Fails, Refusals
  <1>2. i \in {1, 2, 3, 4, 5, 6, 7, 8}
    BY <1>1
  <1> QED
    BY <1>2 DEF Refusals, Kinds, ActKinds

(* The first refusal in line is none: the call passes every layer.         *)
LEMMA PassesAll ==
  ASSUME NEW c, Fails(c) = {}
  PROVE  /\ c.manifest # NoManifest => c.manifest \in manifests
         /\ c.operation \in Outward => ~Tainted(c.session)
  <1>1. 5 \in DOMAIN Refusals(c) /\ 7 \in DOMAIN Refusals(c)
    BY DEF Refusals
  <1>2. ~Refusals(c)[5][1] /\ ~Refusals(c)[7][1]
    BY <1>1 DEF Fails
  <1> QED
    BY <1>2 DEF Refusals

LEMMA EnvelopeValidatedEffect ==
  ASSUME Base, NEW r \in Requests, EnvelopeValidated(r)
  PROVE  Effect
  <1> DEFINE c == req[r].call
  <1>1. /\ UNCHANGED <<bindingVars, brokerVars, admission, revocation, ended>>
        /\ req[r].pc = "envelope"
    BY DEF EnvelopeValidated
  <1>2. Vouches
    BY <1>1 DEF Vouches, brokerVars
  <1>3. ASSUME NEW kind \in Kinds, NEW stamped \in BOOLEAN, NEW status \in {"200", "202", "denied"},
               kind \notin ActKinds, Reply(r, kind, stamped, status), UNCHANGED callVars
        PROVE  Effect
    <2>1. UNCHANGED <<bindingVars, admission, revocation, ended, callVars>>
      BY <1>1, <1>3
    <2>2. /\ manifests' \subseteq Manifests /\ labels' \in [Sessions -> SUBSET Origins]
          /\ \A s \in Sessions : labels[s] \subseteq labels'[s]
      BY <1>1 DEF Base, TypeOK, brokerVars
    <2>3. /\ kind \in ActKinds => req[r].answer = "valid" \/ req[r].pc = "adapter"
          /\ kind = "register" => req[r].call.origins \subseteq labels'[req[r].call.session]
      BY <1>3 DEF ActKinds
    <2>4. req[r].pc \in Stages \cup Routes
      BY <1>1 DEF Stages
    <2> QED
      BY <1>2, <1>3, <2>1, <2>2, <2>3, <2>4, ReplyEffect
  <1>4. CASE \E i \in Fails(c) :
                 Reply(r, Refusals(c)[i][2], FALSE, "denied") /\ UNCHANGED callVars
    BY <1>3, <1>4, RefusalKinds
  <1>5. CASE Reply(r, "dual_control_requested", FALSE, "202") /\ UNCHANGED callVars
    BY <1>3, <1>5 DEF Kinds, ActKinds
  <1>6. CASE /\ Fails(c) = {} /\ UNCHANGED chainVars
             /\ IF c.operation \in Blocked
                THEN /\ req' = [Moved(r, "adapter") EXCEPT ![r].answer = "refused"]
                     /\ UNCHANGED callVars
                ELSE /\ req' = Moved(r, "adapter")
                     /\ pending' = pending \cup {<<r, "adapter">>}
                     /\ calledAt' = [calledAt EXCEPT ![r] = Len(log)]
                     /\ UNCHANGED ran
    <2>1. /\ req' \in [Requests -> Request] /\ \A q \in Requests \ {r} : req'[q] = req[q]
          /\ req'[r].pc = "adapter" /\ req'[r].answer \in {"waiting", "refused"}
          /\ req'[r].status = req[r].status
          /\ req'[r].call = req[r].call /\ req'[r].late = req[r].late
      <3> DEFINE m == Moved(r, "adapter")
      <3>1. /\ m \in [Requests -> Request] /\ \A q \in Requests \ {r} : m[q] = req[q]
            /\ m[r].pc = "adapter" /\ m[r].answer = "waiting" /\ m[r].status = req[r].status
            /\ m[r].call = req[r].call /\ m[r].late = req[r].late
        BY MovedRequest DEF Base, PCs, Stages
      <3>2. req' = m \/ req' = [m EXCEPT ![r].answer = "refused"]
        BY <1>6
      <3> HIDE DEF m
      <3> QED
        BY <3>1, <3>2 DEF Request, Answers
    <2>2. /\ calledAt' \in [Requests -> Nat \cup {Never}]
          /\ \A q \in Requests \ {r} : calledAt'[q] = calledAt[q]
          /\ calledAt'[r] \in {calledAt[r], Len(log)}
      <3>1. calledAt \in [Requests -> Nat \cup {Never}] /\ Len(log) \in Nat
        BY DEF Base, TypeOK
      <3>2. calledAt' = calledAt \/ calledAt' = [calledAt EXCEPT ![r] = Len(log)]
        BY <1>6 DEF callVars
      <3> QED
        BY <3>1, <3>2
    <2>3. calledAt'[r] = calledAt[r] \/ Forwards(r)
      BY <1>1, <1>6, <2>1, <2>2, PassesAll DEF Forwards, chainVars
    <2>4. Holds(r)
      BY <1>1 DEF Holds
    <2>5. Moves(r)
      BY <1>1, <2>1, <2>3, <2>4 DEF Moves, Edges
    <2>6. pending' \subseteq pending \cup {<<r, "adapter">>} /\ ran' = ran
      BY <1>6 DEF callVars
    <2>7. Writes
      BY <1>6 DEF Writes, chainVars
    <2>8. /\ pending' \subseteq Requests \X {"nonce", "adapter"}
          /\ pending' \subseteq pending \cup {<<r, "nonce">>, <<r, "adapter">>}
          /\ req[r].pc \in Stages
      BY <1>1, <2>6 DEF Base, TypeOK, Stages
    <2>9. UNCHANGED <<token, active, revoked, seen, clock, manifests, labels, log, refusing,
                      admission, revocation, ended, ran>>
      BY <1>1, <1>6, <2>6 DEF bindingVars, brokerVars, chainVars
    <2> QED
      BY <1>2, <2>1, <2>2, <2>5, <2>7, <2>8, <2>9, TouchEffect
         DEF Base, TypeOK, Nie!BindingsTypeOK
  <1> QED
    BY <1>4, <1>5, <1>6 DEF EnvelopeValidated

LEMMA TransportRunsEffect ==
  ASSUME Base, NEW r \in Requests, TransportRuns(r)
  PROVE  Effect
  <1>1. /\ pending' = pending \ {<<r, "adapter">>} /\ ran' \subseteq Requests
        /\ UNCHANGED <<bindingVars, brokerVars, chainVars, admission, revocation, ended, calledAt>>
    BY DEF TransportRuns, Base, TypeOK
  <1>2. Writes /\ Vouches
    BY <1>1 DEF Writes, Vouches, brokerVars, chainVars
  <1>3. /\ req' \in [Requests -> Request] /\ \A q \in Requests \ {r} : req'[q] = req[q]
        /\ Moves(r)
    <2>1. CASE req' = req
      BY <1>1, <2>1 DEF Moves, Base, TypeOK
    <2>2. CASE /\ req[r].pc = "adapter"
               /\ \E answer \in {"ok", "failed"} : req' = [req EXCEPT ![r].answer = answer]
      <3>1. PICK answer \in {"ok", "failed"} : req' = [req EXCEPT ![r].answer = answer]
        BY <2>2
      <3>2. /\ req' \in [Requests -> Request] /\ \A q \in Requests \ {r} : req'[q] = req[q]
            /\ req'[r].pc = "adapter" /\ req'[r].answer = answer /\ req'[r].status = req[r].status
            /\ req'[r].call = req[r].call /\ req'[r].late = req[r].late
        <4>1. req \in [Requests -> Request] /\ answer \in Answers
          BY DEF Base, TypeOK, Answers
        <4> QED
          BY <2>2, <3>1, <4>1 DEF Request
      <3>3. Holds(r)' => Holds(r)
        BY <1>1, <2>2, <3>2 DEF Holds, Called
      <3>4. Moves(r)
        BY <1>1, <2>2, <3>2, <3>3 DEF Moves
      <3> QED
        BY <3>2, <3>4
    <2> QED
      BY <2>1, <2>2 DEF TransportRuns
  <1> QED
    BY <1>1, <1>2, <1>3, TouchEffect
       DEF Base, TypeOK, Nie!BindingsTypeOK, bindingVars, brokerVars, chainVars

LEMMA AdapterAnsweredEffect ==
  ASSUME Base, NEW r \in Requests, AdapterAnswered(r) \/ DeadlineExceeded(r)
  PROVE  Effect
  <1>1. /\ UNCHANGED <<bindingVars, brokerVars, admission, revocation, ended, callVars>>
        /\ req[r].pc \in Stages
    BY DEF AdapterAnswered, DeadlineExceeded, Stages
  <1>2. Vouches
    BY <1>1 DEF Vouches, brokerVars
  <1>3. CASE req[r].pc = "adapter" /\ Reply(r, "invoke", TRUE, "200")
    BY <1>1, <1>2, <1>3, ReplyEffect DEF Base, TypeOK, Kinds, ActKinds, brokerVars
  <1>4. CASE \E kind \in Kinds \ ActKinds, stamped \in BOOLEAN : Reply(r, kind, stamped, "denied")
    BY <1>1, <1>2, <1>4, ReplyEffect DEF Base, TypeOK, ActKinds, brokerVars
  <1>5. TimeoutKind[req[r].pc] \in Kinds \ ActKinds
    BY <1>1 DEF TimeoutKind, Kinds, ActKinds, Stages
  <1> QED
    BY <1>3, <1>4, <1>5 DEF AdapterAnswered, DeadlineExceeded, Kinds, ActKinds

(* A restart loses what is in flight and forgets every session.            *)
LEMMA RestartEffect ==
  ASSUME Base, Restart
  PROVE  Effect
  <1>1. /\ active' = {} /\ revoked' = {} /\ seen' = {} /\ manifests' = {}
        /\ labels' = [s \in Sessions |-> {}]
        /\ UNCHANGED <<token, clock, log, ended, ran, calledAt>>
        /\ pending' \subseteq pending
    BY DEF Restart, Nie!Restart
  <1>2. refusing' \in BOOLEAN
    BY DEF Restart, Base, TypeOK
  <1>3. req' \in [Requests -> Request]
        /\ \A r \in Requests :
              \/ req[r].pc \notin Stages \cup Routes /\ req'[r] = req[r]
              \/ /\ req[r].pc \in Stages \cup Routes
                 /\ req'[r].pc = "lost" /\ req'[r].answer = "waiting"
                 /\ req'[r].call = req[r].call /\ req'[r].late = req[r].late
                 /\ req'[r].status = req[r].status
    <2> DEFINE f(r) == IF req[r].pc \in Stages \cup Routes
                       THEN [req[r] EXCEPT !.pc = "lost", !.answer = "waiting"] ELSE req[r]
    <2>1. req' = [r \in Requests |-> f(r)] /\ req \in [Requests -> Request]
      BY DEF Restart, Base, TypeOK
    <2>2. ASSUME NEW r \in Requests
          PROVE  /\ f(r) \in Request
                 /\ \/ req[r].pc \notin Stages \cup Routes /\ f(r) = req[r]
                    \/ /\ req[r].pc \in Stages \cup Routes
                       /\ f(r).pc = "lost" /\ f(r).answer = "waiting"
                       /\ f(r).call = req[r].call /\ f(r).late = req[r].late
                       /\ f(r).status = req[r].status
      BY <2>1 DEF Request, PCs, Answers
    <2> HIDE DEF f
    <2> QED
      BY <2>1, <2>2
  <1>4. \A r \in Requests : Holds(r)' => Holds(r)
    BY <1>1, <1>3 DEF Holds, Called, Stages, Routes
  <1>5. \A r \in Requests : ~InFlight(r)' /\ req'[r].pc # "adapter" /\ req'[r].status = req[r].status
    BY <1>3 DEF InFlight, Stages
  <1>6. \A r \in Requests : Moves(r)
    BY <1>1, <1>3, <1>4 DEF Moves, Edges, Stages, Routes
  <1>7. /\ admission' \in [Sessions -> {"none", "attested", "refused", "answered", "failed"}]
        /\ \A s \in Sessions : admission'[s] = admission[s] \/ (admission[s] # "answered" /\ admission'[s] = "failed")
    BY DEF Restart, Base, TypeOK
  <1>8. revocation' \in [Revocable -> {"none", "applied", "answered", "failed"}]
    BY DEF Restart, Base, TypeOK
  <1>9. TypeOK'
    <2>1. Nie!BindingsTypeOK'
      BY <1>1 DEF Base, TypeOK, Nie!BindingsTypeOK
    <2>2. log' \in Seq(Record) /\ calledAt' \in [Requests -> Nat \cup {Never}]
      BY <1>1 DEF Base, TypeOK
    <2>3. labels' \in [Sessions -> SUBSET Origins] /\ manifests' \subseteq Manifests
      BY <1>1
    <2>4. pending' \subseteq Requests \X {"nonce", "adapter"} /\ ran' \subseteq Requests /\ ended' \subseteq Sessions
      BY <1>1 DEF Base, TypeOK
    <2> QED
      BY <1>2, <1>3, <1>7, <1>8, <2>1, <2>2, <2>3, <2>4 DEF TypeOK
  <1>10. Writes /\ Vouches
    BY <1>1 DEF Writes, Vouches
  <1>11. Shares
    BY <1>1, <1>4, <1>5, <1>7 DEF Shares
  <1>12. Tokens
    BY <1>1, <1>7 DEF Tokens, Base, TokenInv
  <1> QED
    BY <1>6, <1>9, <1>10, <1>11, <1>12 DEF Effect

LEMMA NextEffect ==
  ASSUME Base, Next
  PROVE  Effect
  <1>1. CASE \E s \in Sessions : Admit(s) \/ Admitted(s)
    BY <1>1, AdmitEffect, AdmittedEffect
  <1>2. CASE \E x \in Revocable : Revoke(x) \/ Revoked(x)
    BY <1>2, RevokeEffect, RevokedEffect
  <1>3. CASE \E r \in Requests : Step(r)
    BY <1>3, VerifyTokenEffect, ConsumeNonceEffect, TransportRunsEffect, RegisterContextEffect,
       CosignEffect, TokenVerifiedEffect, NonceConsumedEffect, EnvelopeValidatedEffect,
       AdapterAnsweredEffect DEF Step
  <1>4. CASE \E r \in Requests, c \in Calls : Arrive(r, c)
    BY <1>4, ArriveEffect
  <1>5. CASE Tick
    BY <1>5, TickEffect
  <1>6. CASE Restart
    BY <1>6, RestartEffect
  <1> QED
    BY <1>1, <1>2, <1>3, <1>4, <1>5, <1>6 DEF Next

-----------------------------------------------------------------------------
(* From what a step does to the invariant after it.                        *)

LEMMA Prefix ==
  ASSUME Base, Effect
  PROVE  /\ log \in Seq(Record) /\ log' \in Seq(Record)
         /\ Len(log) \in Nat /\ Len(log') \in Nat /\ Len(log) <= Len(log')
         /\ \A i \in 1..Len(log) : i \in 1..Len(log') /\ log'[i] = log[i]
  <1>1. log \in Seq(Record)
    BY DEF Base, TypeOK
  <1>2. CASE log' = log
    BY <1>1, <1>2
  <1>3. CASE \E e \in Record : log' = Append(log, e)
    BY <1>1, <1>3, LogGrows
  <1> QED
    BY <1>2, <1>3 DEF Effect, Writes

LEMMA Added ==
  ASSUME Base, Effect, NEW i \in 1..Len(log'), i \notin 1..Len(log)
  PROVE  /\ i = Len(log) + 1
         /\ log' = Append(log, log'[i])
         /\ log'[i].kind \in ActKinds => Acts(log'[i])
  <1>1. log \in Seq(Record) /\ log' # log
    BY DEF Base, TypeOK
  <1>2. PICK e \in Record : log' = Append(log, e) /\ (e.kind \in ActKinds => Acts(e))
    BY <1>1 DEF Effect, Writes
  <1> QED
    BY <1>1, <1>2, LogGrows

(* A request that has arrived stays the request it is.                     *)
LEMMA Stays ==
  ASSUME Base, Effect, NEW r \in Requests, req[r].pc # "idle"
  PROVE  /\ req'[r].call = req[r].call /\ req'[r].late = req[r].late /\ req'[r].pc # "idle"
         /\ req[r].call \in Calls /\ admission[req[r].call.session] = "answered"
         /\ req[r].call.session \in Sessions
  BY CallTypes DEF Base, CallInv, Effect, Moves, Edges, Stages, Routes

LEMMA TokenInvNext ==
  ASSUME Base, Effect
  PROVE  TokenInv'
  <1>1. ASSUME NEW s \in Sessions, admission'[s] = "answered"
        PROVE  \E j \in 1..Len(log') : log'[j] = Entry("admit", s, FALSE)
    <2>1. CASE admission[s] = "answered"
      <3>1. PICK j \in 1..Len(log) : log[j] = Entry("admit", s, FALSE)
        BY <2>1 DEF Base, TokenInv, Before
      <3>2. j \in 1..Len(log') /\ log'[j] = log[j]
        BY Prefix
      <3> QED
        BY <3>1, <3>2
    <2>2. CASE log' = Append(log, Entry("admit", s, FALSE))
      BY <2>2, AppendProperties, Prefix DEF Entry, Record, Kinds
    <2> QED
      BY <1>1, <2>1, <2>2 DEF Effect, Tokens
  <1>2. ASSUME NEW s \in Sessions
        PROVE  /\ admission'[s] = "none" => token'[s] = NoToken
               /\ admission'[s] \in {"attested", "answered"} => token'[s] # NoToken
               /\ token'[s] # NoToken => token'[s].session = s
    BY DEF Effect, Tokens, Base, TokenInv
  <1>3. ASSUME NEW s \in ended'
        PROVE  token'[s] # NoToken /\ s \notin active'
    BY DEF Effect, Shares, Tokens, Base, TypeOK, TokenInv
  <1> QED
    BY <1>1, <1>2, <1>3 DEF TokenInv, Before

LEMMA CallInvNext ==
  ASSUME Base, Effect, NEW r \in Requests
  PROVE  CallInv(r)'
  <1>1. /\ Len(log) \in Nat /\ Len(log') \in Nat /\ Len(log) <= Len(log')
        /\ \A s \in Sessions : admission[s] = "answered" => admission'[s] = "answered"
        /\ \A x \in {"nonce", "adapter"} :
              <<r, x>> \in pending' => <<r, x>> \in pending \/ req[r].pc \in Stages
        /\ CallInv(r)
    BY Prefix DEF Effect, Shares, Base
  <1>2. CASE req'[r] = req[r] /\ calledAt'[r] = calledAt[r]
    <2>1. req[r].pc # "idle" => req[r].call.session \in Sessions
      BY <1>1, CallTypes DEF CallInv
    <2> QED
      BY <1>1, <1>2, <2>1 DEF CallInv, Called, Stages
  <1>3. CASE req[r].pc = "idle" /\ Arrives(r)
    <2>1. /\ req'[r].call \in Calls /\ req'[r].call.session \in Sessions
          /\ req'[r].call.kind \in {"invoke", "register", "cosign"}
          /\ req'[r].pc = FirstStage(req'[r].call) /\ req'[r].status = "none"
          /\ admission[req'[r].call.session] = "answered" /\ calledAt'[r] = calledAt[r]
      BY <1>3, CallTypes DEF Arrives, Calls, Invocation, Registration, Cosigning
    <2>2. /\ req'[r].pc # "idle"
          /\ req'[r].pc \in Stages => req'[r].call.kind = "invoke"
          /\ req'[r].pc = "context" => req'[r].call.kind = "register"
      BY <2>1 DEF FirstStage, Stages
    <2>3. ~Called(r) /\ ~Called(r)' /\ \A x \in {"nonce", "adapter"} : <<r, x>> \notin pending'
      BY <1>1, <1>3, <2>1 DEF CallInv, Called, Stages
    <2> QED
      BY <1>1, <2>1, <2>2, <2>3 DEF CallInv
  <1>4. CASE /\ req[r].pc # "idle"
             /\ req'[r].pc = req[r].pc \/ <<req[r].pc, req'[r].pc>> \in Edges
             /\ req'[r].status = "200" /\ req[r].status # "200" => req'[r].pc = "done"
             /\ calledAt'[r] = calledAt[r] \/ Forwards(r)
    <2>1. /\ req'[r].call = req[r].call /\ req'[r].pc # "idle" /\ req[r].call \in Calls
          /\ admission'[req[r].call.session] = "answered"
      BY <1>1, <1>4, Stays
    <2>2. /\ req'[r].pc \in Stages => req[r].pc \in Stages
          /\ req'[r].pc = "context" => req[r].pc = "context"
          /\ req[r].pc \in {"adapter", "done", "lost"} => req'[r].pc \in {"adapter", "done", "lost"}
          /\ req[r].pc = "done" => req'[r].pc = "done"
      BY <1>4 DEF Edges, Stages, Routes
    <2>3. Called(r)' => /\ req'[r].pc \in {"adapter", "done", "lost"}
                        /\ req[r].call.kind = "invoke"
                        /\ calledAt'[r] \in 0..Len(log')
      BY <1>1, <1>4, <2>2 DEF CallInv, Called, Forwards, Stages
    <2> QED
      BY <1>1, <1>4, <2>1, <2>2, <2>3 DEF CallInv
  <1> QED
    BY <1>2, <1>3, <1>4 DEF Effect, Moves

LEMMA BaseNext ==
  ASSUME Base, Effect
  PROVE  Base'
  BY TokenInvNext, CallInvNext DEF Effect, Base

(* No session comes into use but by its admission, and what is in use has  *)
(* lived through no restart.                                               *)
LEMMA InUseKeeps ==
  ASSUME Base, Effect, NEW s \in Sessions, InUse(s)'
  PROVE  /\ InUse(s) \/ admission[s] = "none"
         /\ seen \subseteq seen' /\ labels[s] \subseteq labels'[s]
         /\ \A a, b \in Requests : a = b \/ req'[a] = req[a] \/ req'[b] = req[b]
         /\ \A a, b \in Requests : a = b \/ calledAt'[a] = calledAt[a] \/ calledAt'[b] = calledAt[b]
  <1>1. /\ seen \subseteq seen' /\ labels[s] \subseteq labels'[s]
        /\ \A h \in active' : h \in active \/ admission[h] = "none"
        /\ \A a, b \in Requests : a = b \/ req'[a] = req[a] \/ req'[b] = req[b]
        /\ \A a, b \in Requests : a = b \/ calledAt'[a] = calledAt[a] \/ calledAt'[b] = calledAt[b]
    BY DEF Effect, Shares, InUse
  <1>2. ASSUME NEW r \in Requests, InFlight(r)', req'[r].call.session = s
        PROVE  InUse(s)
    <2>1. CASE req'[r] = req[r]
      BY <1>2, <2>1 DEF InUse, InFlight
    <2>2. CASE req[r].pc = "idle" /\ Arrives(r)
      <3>1. req'[r].pc \in {"token", "context", "cosign"} /\ req'[r].answer = "waiting"
        BY <2>2 DEF Arrives, FirstStage, Calls, Invocation, Registration, Cosigning
      <3> QED
        BY <1>2, <3>1 DEF InFlight
    <2>3. CASE /\ req[r].pc # "idle"
               /\ req'[r].pc = req[r].pc \/ <<req[r].pc, req'[r].pc>> \in Edges
               /\ req'[r].answer = "valid" => req[r].answer = "valid" \/ req[r].call.session \in active
               /\ req'[r].pc = "nonce" /\ req[r].pc = "token" => req[r].answer = "valid"
      <3>1. req[r].call.session = s
        BY <1>2, <2>3, Stays
      <3>2. \/ req'[r].pc = "nonce" /\ req[r].pc \in {"token", "nonce"}
            \/ req'[r].pc = "envelope" /\ req[r].pc \in {"nonce", "envelope"}
            \/ req'[r].pc = "token" /\ req'[r].answer = "valid" /\ req[r].pc = "token"
        BY <1>2, <2>3 DEF InFlight, Edges
      <3>3. InFlight(r) \/ s \in active
        BY <2>3, <3>1, <3>2 DEF InFlight
      <3> QED
        BY <3>1, <3>3 DEF InUse
    <2> QED
      BY <2>1, <2>2, <2>3 DEF Effect, Moves
  <1>3. InUse(s) \/ admission[s] = "none"
    BY <1>1, <1>2 DEF InUse
  <1> QED
    BY <1>1, <1>3

(* A request that has arrived is of an admitted session.                   *)
LEMMA StaysInUse ==
  ASSUME Base, Effect, NEW r \in Requests, req[r].pc # "idle",
         NEW s \in Sessions, s = req'[r].call.session, InUse(s)'
  PROVE  s = req[r].call.session /\ InUse(s)
  BY Stays, InUseKeeps

LEMMA NonceInvNext ==
  ASSUME Base, NonceInv, Effect
  PROVE  NonceInv'
  <1>1. ASSUME NEW r \in Requests, Holds(r)'
        PROVE  /\ req[r].pc # "idle" /\ Key(r)' = Key(r)
               /\ Holds(r) \/ (InFlight(r) /\ Key(r) \notin seen /\ Key(r) \in seen')
    <2>1. CASE req'[r] = req[r] /\ calledAt'[r] = calledAt[r]
      BY <1>1, <2>1 DEF Holds, Called, Key, Base, CallInv
    <2>2. CASE req[r].pc = "idle" /\ Arrives(r)
      BY <1>1, <2>2 DEF Arrives, Holds, Called, Base, CallInv, FirstStage,
                        Calls, Invocation, Registration, Cosigning
    <2>3. CASE /\ req[r].pc # "idle"
               /\ Holds(r)' => Holds(r) \/ (InFlight(r) /\ Key(r) \notin seen /\ Key(r) \in seen')
      BY <1>1, <2>3, Stays DEF Key
    <2> QED
      BY <2>1, <2>2, <2>3 DEF Effect, Moves
  <1>2. ASSUME NEW a \in Requests, NEW b \in Requests, Holds(a)', Holds(b)', Key(a)' = Key(b)', a # b
        PROVE  FALSE
    <2>1. Key(a) = Key(b) /\ req[a].call.session = req[b].call.session
      BY <1>1, <1>2 DEF Key
    <2>2. ~(Holds(a) /\ Holds(b))
      BY <1>2, <2>1 DEF NonceInv
    <2>3. ~(Holds(a) /\ ~Holds(b))
      <3>1. ASSUME Holds(a), ~Holds(b)
            PROVE  FALSE
        BY <1>1, <1>2, <2>1, <3>1 DEF NonceInv, InUse
      <3> QED
        BY <3>1
    <2>4. ~(Holds(b) /\ ~Holds(a))
      <3>1. ASSUME Holds(b), ~Holds(a)
            PROVE  FALSE
        BY <1>1, <1>2, <2>1, <3>1 DEF NonceInv, InUse
      <3> QED
        BY <3>1
    <2>5. Holds(a) \/ Holds(b)
      <3>1. CASE \A q \in Requests : Holds(q)' => Holds(q)
        BY <1>2, <3>1
      <3>2. CASE /\ req'[a] = req[a] \/ req'[b] = req[b]
                 /\ calledAt'[a] = calledAt[a] \/ calledAt'[b] = calledAt[b]
        <4>1. \A q \in Requests : calledAt'[q] = calledAt[q] \/ Holds(q)
          BY DEF Effect, Moves, Forwards, Holds, Arrives
        <4>2. \A q \in Requests : calledAt'[q] = calledAt[q] /\ req'[q] = req[q] /\ Holds(q)' => Holds(q)
          BY DEF Holds, Called
        <4> QED
          BY <1>2, <3>2, <4>1, <4>2
      <3> QED
        BY <1>2, <3>1, <3>2 DEF Effect, Shares
    <2> QED
      BY <2>2, <2>3, <2>4, <2>5
  <1>3. ASSUME NEW r \in Requests, Holds(r)', NEW s \in Sessions, s = req'[r].call.session, InUse(s)'
        PROVE  Key(r)' \in seen'
    <2>1. s = req[r].call.session /\ InUse(s) /\ Key(r)' = Key(r)
      BY <1>1, <1>3, StaysInUse
    <2>2. seen \subseteq seen'
      BY <1>3, InUseKeeps
    <2> QED
      BY <1>1, <1>3, <2>1, <2>2 DEF NonceInv
  <1>4. \A r \in Requests : Holds(r)' => req'[r].call.session \in Sessions
    BY <1>1, Stays
  <1> QED
    BY <1>2, <1>3, <1>4 DEF NonceInv, InUse

(* The acts a request has on the chain are its own and stay so.            *)
LEMMA ActOf ==
  ASSUME Base, ActInv, LateInv, Effect, NEW i \in 1..Len(log'), log'[i].kind \in ActKinds
  PROVE  /\ log'[i].of \in Requests
         /\ req[log'[i].of].pc # "idle"
         /\ ~req[log'[i].of].late
         /\ \E j \in 1..(i - 1) :
               j \in 1..Len(log) /\ log[j] = Entry("admit", req[log'[i].of].call.session, FALSE)
  <1>1. CASE i \in 1..Len(log)
    <2>1. log'[i] = log[i]
      BY <1>1, Prefix
    <2>2. \A j \in 1..(i - 1) : j \in 1..Len(log)
      BY <1>1, Prefix
    <2>3. /\ log[i].of \in Requests /\ req[log[i].of].pc # "idle" /\ ~req[log[i].of].late
          /\ Before(i - 1, Entry("admit", req[log[i].of].call.session, FALSE))
      BY <1>1, <2>1 DEF ActInv
    <2> QED
      BY <2>1, <2>2, <2>3 DEF Before
  <1>2. CASE i \notin 1..Len(log)
    <2>1. i = Len(log) + 1 /\ Acts(log'[i]) /\ Len(log) \in Nat /\ i - 1 = Len(log)
      BY <1>2, Added, Prefix
    <2> DEFINE r == log'[i].of
    <2>2. r \in Requests /\ req[r].pc # "idle" /\ (req[r].answer = "valid" \/ req[r].pc = "adapter")
      BY <2>1 DEF Acts
    <2>3. ~req[r].late
      BY <2>2 DEF LateInv
    <2>4. Before(Len(log), Entry("admit", req[r].call.session, FALSE))
      BY <2>2, Stays DEF Base, TokenInv
    <2> HIDE DEF r
    <2>5. PICK j \in 1..Len(log) : log[j] = Entry("admit", req[r].call.session, FALSE)
      BY <2>4 DEF Before
    <2> QED
      BY <2>1, <2>2, <2>3, <2>5 DEF r
  <1> QED
    BY <1>1, <1>2

LEMMA ActInvNext ==
  ASSUME Base, ActInv, LateInv, Effect
  PROVE  ActInv'
  <1>1. ASSUME NEW i \in 1..Len(log'), log'[i].kind \in ActKinds
        PROVE  /\ log'[i].of \in Requests
               /\ req'[log'[i].of].pc # "idle"
               /\ ~req'[log'[i].of].late
               /\ \E j \in 1..(i - 1) :
                     log'[j] = Entry("admit", req'[log'[i].of].call.session, FALSE)
    <2> DEFINE r == log'[i].of
    <2>1. r \in Requests /\ req[r].pc # "idle" /\ ~req[r].late
      BY <1>1, ActOf
    <2>2. PICK j \in 1..(i - 1) :
              j \in 1..Len(log) /\ log[j] = Entry("admit", req[r].call.session, FALSE)
      BY <1>1, ActOf
    <2>3. log'[j] = log[j]
      BY <2>2, Prefix
    <2>4. req'[r].call = req[r].call /\ req'[r].late = req[r].late /\ req'[r].pc # "idle"
      BY <2>1, Stays
    <2> HIDE DEF r
    <2>5. log'[j] = Entry("admit", req'[r].call.session, FALSE)
      BY <2>2, <2>3, <2>4
    <2> QED
      BY <2>1, <2>4, <2>5 DEF r
  <1> QED
    BY <1>1 DEF ActInv, Before

LEMMA LateInvNext ==
  ASSUME Base, LateInv, Effect
  PROVE  LateInv'
  <1>1. ASSUME NEW r \in Requests, req'[r].late
        PROVE  /\ req'[r].call.session \in ended'
               /\ req'[r].answer # "valid"
               /\ req'[r].pc \notin {"nonce", "envelope", "adapter"}
               /\ ~(calledAt'[r] # Never)
    <2>1. ended \subseteq ended'
      BY DEF Effect, Shares
    <2>2. CASE req'[r] = req[r] /\ calledAt'[r] = calledAt[r]
      BY <1>1, <2>1, <2>2 DEF LateInv, Called
    <2>3. CASE req[r].pc = "idle" /\ Arrives(r)
      <3>1. req'[r].pc \in {"token", "context", "cosign"}
        BY <2>3 DEF Arrives, FirstStage, Calls, Invocation, Registration, Cosigning
      <3>2. ~(calledAt'[r] # Never)
        BY <2>3 DEF Arrives, Base, CallInv, Called
      <3> QED
        BY <1>1, <2>1, <2>3, <3>1, <3>2 DEF Arrives
    <2>4. CASE /\ req[r].pc # "idle"
               /\ req'[r].pc = req[r].pc \/ <<req[r].pc, req'[r].pc>> \in Edges
               /\ req'[r].answer = "valid" => req[r].answer = "valid" \/ req[r].call.session \in active
               /\ req'[r].pc = "nonce" /\ req[r].pc = "token" => req[r].answer = "valid"
               /\ calledAt'[r] = calledAt[r] \/ Forwards(r)
      <3>1. req'[r].call = req[r].call /\ req[r].late
        BY <1>1, <2>4, Stays
      <3>2. /\ req[r].call.session \in ended /\ req[r].answer # "valid" /\ ~Called(r)
            /\ req[r].pc \notin {"nonce", "envelope", "adapter"}
        BY <3>1 DEF LateInv
      <3>3. req[r].call.session \notin active
        BY <3>2 DEF Base, TokenInv
      <3>4. req'[r].pc \notin {"nonce", "envelope", "adapter"}
        BY <2>4, <3>2 DEF Edges
      <3>5. calledAt'[r] = calledAt[r]
        BY <2>4, <3>2 DEF Forwards
      <3> QED
        BY <2>1, <2>4, <3>1, <3>2, <3>3, <3>4, <3>5 DEF Called
    <2> QED
      BY <2>2, <2>3, <2>4 DEF Effect, Moves
  <1> QED
    BY <1>1 DEF LateInv, Called

LEMMA LabelInvNext ==
  ASSUME Base, LabelInv, ActInv, LateInv, Effect
  PROVE  LabelInv'
  <1>1. ASSUME NEW q \in Requests, NEW i \in 1..Len(log'), log'[i] = Entry("register", q, FALSE),
               NEW s \in Sessions, s = req'[q].call.session, InUse(s)'
        PROVE  req'[q].call.origins \subseteq labels'[s]
    <2>1. log'[i].kind \in ActKinds /\ log'[i].of = q
      BY <1>1 DEF Entry, ActKinds
    <2>2. req[q].pc # "idle"
      BY <2>1, ActOf
    <2>3. s = req[q].call.session /\ InUse(s) /\ req'[q].call = req[q].call
      BY <1>1, <2>2, Stays, StaysInUse
    <2>4. labels[s] \subseteq labels'[s]
      BY <1>1, InUseKeeps
    <2>5. CASE i \in 1..Len(log)
      <3>1. log[i] = Entry("register", q, FALSE)
        BY <1>1, <2>5, Prefix
      <3>2. req[q].call.origins \subseteq labels[s]
        BY <2>3, <2>5, <3>1 DEF LabelInv, Before
      <3> QED
        BY <2>3, <2>4, <3>2
    <2>6. CASE i \notin 1..Len(log)
      <3>1. Acts(log'[i])
        BY <2>1, <2>6, Added
      <3> QED
        BY <1>1, <2>1, <2>3, <3>1 DEF Acts
    <2> QED
      BY <2>5, <2>6
  <1>2. ASSUME NEW q \in Requests, NEW i \in 1..Len(log'), log'[i] = Entry("register", q, FALSE)
        PROVE  req'[q].call.session \in Sessions
    <2>1. log'[i].kind \in ActKinds /\ log'[i].of = q
      BY <1>2 DEF Entry, ActKinds
    <2> QED
      BY <2>1, ActOf, Stays
  <1> QED
    BY <1>1, <1>2 DEF LabelInv, Before, InUse

LEMMA WasCalled ==
  ASSUME Base, Effect, NEW r \in Requests, Called(r)
  PROVE  /\ calledAt'[r] = calledAt[r] /\ calledAt[r] \in Nat
         /\ req'[r].call = req[r].call /\ req[r].call.session \in Sessions
         /\ \A i \in 1..calledAt[r] : i \in 1..Len(log) /\ i \in 1..Len(log') /\ log'[i] = log[i]
  <1>1. req[r].pc \in {"adapter", "done", "lost"} /\ calledAt[r] \in 0..Len(log)
    BY DEF Base, CallInv
  <1>2. calledAt'[r] = calledAt[r]
    BY <1>1 DEF Effect, Moves, Arrives, Forwards
  <1>3. req'[r].call = req[r].call /\ req[r].call.session \in Sessions
    BY <1>1, Stays
  <1>4. \A i \in 1..calledAt[r] : i \in 1..Len(log)
    BY <1>1, Prefix
  <1> QED
    BY <1>1, <1>2, <1>3, <1>4, Prefix

LEMMA IsCalled ==
  ASSUME Base, Effect, NEW r \in Requests, ~Called(r), calledAt'[r] # Never
  PROVE  /\ Forwards(r) /\ Holds(r) /\ InFlight(r) /\ InUse(req[r].call.session)
         /\ req'[r].call = req[r].call /\ req[r].call.session \in Sessions
         /\ log' = log /\ Len(log) \in Nat /\ calledAt'[r] = Len(log)
  <1>1. Forwards(r)
    BY DEF Effect, Moves, Arrives, Called
  <1>2. req[r].pc = "envelope" /\ log' = log /\ calledAt'[r] = Len(log)
    BY <1>1 DEF Forwards
  <1> QED
    BY <1>1, <1>2, Stays, Prefix DEF Holds, InFlight, InUse

LEMMA Registered ==
  ASSUME Base, ActInv, Effect, NEW q \in Requests, NEW i \in 1..Len(log),
         log[i] = Entry("register", q, FALSE)
  PROVE  req[q].pc # "idle" /\ req'[q].call = req[q].call
  <1>1. log[i].kind \in ActKinds /\ log[i].of = q
    BY DEF Entry, ActKinds
  <1>2. req[q].pc # "idle"
    BY <1>1 DEF ActInv
  <1> QED
    BY <1>2, Stays

LEMMA TaintGatesNext ==
  ASSUME Base, LabelInv, ActInv, TaintGates, Effect
  PROVE  TaintGates'
  <1> SUFFICES ASSUME NEW r \in Requests, calledAt'[r] # Never, req'[r].call.operation \in Outward,
                      NEW q \in Requests, NEW i \in 1..calledAt'[r],
                      log'[i] = Entry("register", q, FALSE),
                      req'[q].call.session = req'[r].call.session,
                      req'[q].call.origins \cap Untrusted # {}
               PROVE  FALSE
    BY DEF TaintGates, RecordedByCall, Called, Entry
  <1>1. CASE Called(r)
    <2>1. i \in 1..calledAt[r] /\ i \in 1..Len(log) /\ log[i] = Entry("register", q, FALSE)
      BY <1>1, WasCalled
    <2>2. req'[r].call = req[r].call /\ req'[q].call = req[q].call
      BY <1>1, <2>1, WasCalled, Registered
    <2>3. [kind |-> "register", of |-> q, stamped |-> FALSE] \in RecordedByCall(r)
      BY <2>1 DEF RecordedByCall, Entry
    <2> QED
      BY <1>1, <2>2, <2>3 DEF TaintGates
  <1>2. CASE ~Called(r)
    <2>1. /\ i \in 1..Len(log) /\ log[i] = Entry("register", q, FALSE)
          /\ InUse(req[r].call.session) /\ Forwards(r) /\ req'[r].call = req[r].call
      BY <1>2, IsCalled
    <2>2. req'[q].call = req[q].call
      BY <2>1, Registered
    <2>3. req[q].call.origins \subseteq labels[req[r].call.session]
      BY <2>1, <2>2 DEF LabelInv, Before
    <2>4. ~Tainted(req[r].call.session)
      BY <2>1 DEF Forwards
    <2> QED
      BY <2>2, <2>3, <2>4 DEF Tainted
  <1> QED
    BY <1>1, <1>2

LEMMA ActsAdmittedNext ==
  ASSUME Base, ActInv', ActsAdmitted, Effect
  PROVE  ActsAdmitted'
  <1>1. ASSUME NEW r \in Requests, calledAt'[r] # Never
        PROVE  \E i \in 1..calledAt'[r] : log'[i] = Entry("admit", req'[r].call.session, FALSE)
    <2>1. CASE Called(r)
      <3>1. PICK i \in 1..calledAt[r] : log[i] = Entry("admit", req[r].call.session, FALSE)
        BY <2>1 DEF ActsAdmitted, RecordedByCall, Entry
      <3> QED
        BY <2>1, <3>1, WasCalled
    <2>2. CASE ~Called(r)
      <3>1. /\ req'[r].call = req[r].call /\ calledAt'[r] = Len(log) /\ log' = log
            /\ req[r].pc = "envelope"
        BY <1>1, <2>2, IsCalled DEF Forwards
      <3>2. Before(Len(log), Entry("admit", req[r].call.session, FALSE))
        BY <3>1, Stays DEF Base, TokenInv
      <3> QED
        BY <3>1, <3>2 DEF Before
    <2> QED
      BY <2>1, <2>2
  <1>2. ASSUME NEW r \in Requests, NEW i \in 1..Len(log'), log'[i].of = r, log'[i].kind \in ActKinds
        PROVE  \E j \in 1..(i - 1) : log'[j] = Entry("admit", req'[r].call.session, FALSE)
    BY <1>2 DEF ActInv, Before
  <1> QED
    BY <1>1, <1>2 DEF ActsAdmitted, RecordedByCall, Called, Entry

LEMMA ManifestInvNext ==
  ASSUME Base, ActInv, ManifestInv, Effect
  PROVE  ManifestInv'
  <1> DEFINE Stands(n, m) == \E q \in Requests :
                                  /\ \E i \in 1..n : log'[i] = Entry("register", q, FALSE)
                                  /\ req'[q].call.manifest = m
  <1>0. Len(log) \in Nat /\ Len(log') \in Nat /\ Len(log) <= Len(log')
    BY Prefix
  <1>1. ASSUME NEW n \in 0..Len(log), NEW m, Vouched(n, m)
        PROVE  Stands(n, m)
    <2>1. PICK q \in Requests, i \in 1..n :
              log[i] = Entry("register", q, FALSE) /\ req[q].call.manifest = m
      BY <1>1 DEF Vouched, Before
    <2>2. i \in 1..Len(log) /\ log'[i] = log[i]
      <3>1. i \in 1..Len(log)
        BY <1>0
      <3> QED
        BY <3>1, Prefix
    <2>3. req'[q].call = req[q].call
      BY <2>1, <2>2, Registered
    <2> QED
      BY <2>1, <2>2, <2>3
  <1>2. ASSUME NEW m \in manifests', ~refusing'
        PROVE  Stands(Len(log'), m)
    <2>1. CASE m \in manifests
      <3>1. ~refusing
        BY <1>2 DEF Effect, Shares
      <3>2. Vouched(Len(log), m)
        BY <2>1, <3>1 DEF ManifestInv
      <3> HIDE DEF Stands
      <3>3. Len(log) \in 0..Len(log) /\ Stands(Len(log), m)
        BY <1>0, <1>1, <3>2
      <3> USE DEF Stands
      <3>4. \A i \in 1..Len(log) : i \in 1..Len(log')
        BY <1>0
      <3> QED
        BY <3>3, <3>4
    <2>2. CASE m \notin manifests
      <3>1. PICK q \in Requests : /\ log' = Append(log, Entry("register", q, FALSE))
                                  /\ req[q].pc # "idle" /\ req[q].call.manifest = m
        BY <1>2, <2>2 DEF Effect, Vouches
      <3>2. req'[q].call = req[q].call
        BY <3>1, Stays
      <3>3. Entry("register", q, FALSE) \in Record
        BY DEF Entry, Record, Kinds
      <3>4. Len(log) + 1 \in 1..Len(log') /\ log'[Len(log) + 1] = Entry("register", q, FALSE)
        <4> DEFINE e == Entry("register", q, FALSE)
        <4>1. log \in Seq(Record) /\ e \in Record /\ log' = Append(log, e)
          BY <3>1, <3>3, Prefix
        <4> HIDE DEF e
        <4>2. Len(log') = Len(log) + 1 /\ log'[Len(log) + 1] = e /\ Len(log) \in Nat
          BY <4>1, AppendProperties
        <4>3. Len(log) + 1 \in 1..Len(log') /\ log'[Len(log) + 1] = e
          BY <4>2
        <4> QED
          BY <4>3 DEF e
      <3> QED
        BY <3>1, <3>2, <3>4
    <2> QED
      BY <2>1, <2>2
  <1>3. ASSUME NEW r \in Requests, calledAt'[r] # Never, req'[r].call.manifest # NoManifest,
               req'[r].pc = "adapter" \/ req'[r].status = "200"
        PROVE  \/ refusing' /\ req'[r].status # "200"
               \/ Stands(calledAt'[r], req'[r].call.manifest)
    <2> HIDE DEF Stands
    <2>1. req'[r].pc = "adapter" => req'[r].status # "200" /\ (refusing => refusing')
      BY CallInvNext DEF CallInv, Effect, Shares
    <2>2. CASE Called(r)
      <3>1. /\ calledAt'[r] = calledAt[r] /\ req'[r].call = req[r].call /\ calledAt[r] \in Nat
            /\ calledAt[r] \in 0..Len(log)
            /\ req[r].pc \in {"adapter", "done", "lost"}
        BY <2>2, WasCalled DEF Base, CallInv
      <3>2. req'[r].pc = "adapter" => req[r].pc = "adapter"
        BY <3>1 DEF Effect, Moves, Edges, Arrives
      <3>3. req'[r].status = "200" => req[r].status = "200" \/ (req[r].pc = "adapter" /\ ~refusing)
        BY <3>1 DEF Effect, Moves, Arrives, Stages, Routes
      <3>4. Vouched(calledAt[r], req[r].call.manifest) \/ (refusing /\ req[r].status # "200")
        BY <1>3, <2>2, <3>1, <3>2, <3>3 DEF ManifestInv
      <3>5. CASE Vouched(calledAt[r], req[r].call.manifest)
        <4>1. Stands(calledAt[r], req[r].call.manifest)
          BY <1>1, <3>1, <3>5
        <4> QED
          BY <3>1, <4>1
      <3>6. CASE refusing /\ req[r].status # "200"
        <4>1. req'[r].status # "200"
          BY <3>3, <3>6
        <4>2. req'[r].pc = "adapter"
          BY <1>3, <4>1
        <4> QED
          BY <2>1, <3>6, <4>1, <4>2
      <3> QED
        BY <3>4, <3>5, <3>6
    <2>3. CASE ~Called(r)
      <3>1. /\ Forwards(r) /\ req'[r].call = req[r].call /\ Len(log) \in Nat /\ calledAt'[r] = Len(log)
        BY <1>3, <2>3, IsCalled
      <3>2. req'[r].pc = "adapter" /\ req[r].call.manifest \in manifests
        BY <1>3, <3>1 DEF Forwards
      <3>3. refusing \/ Vouched(Len(log), req[r].call.manifest)
        BY <3>2 DEF ManifestInv
      <3>4. CASE refusing
        BY <2>1, <3>2, <3>4
      <3>5. CASE Vouched(Len(log), req[r].call.manifest)
        <4>1. Len(log) \in 0..Len(log) /\ Stands(Len(log), req[r].call.manifest)
          BY <1>0, <1>1, <3>5
        <4> QED
          BY <3>1, <4>1
      <3> QED
        BY <3>3, <3>4, <3>5
    <2> QED
      BY <2>2, <2>3
  <1> QED
    BY <1>2, <1>3 DEF ManifestInv, Vouched, Before, Called

(* A step that changes nothing has an effect too: none.                    *)
LEMMA StutterEffect ==
  ASSUME Base, UNCHANGED vars
  PROVE  Effect
  <1>1. UNCHANGED <<bindingVars, brokerVars, chainVars, admission, revocation, ended, req, callVars>>
    BY DEF vars
  <1>2. Nie!BindingsTypeOK' /\ Writes /\ Tokens
    BY <1>1 DEF bindingVars, chainVars, Base, TypeOK, Nie!BindingsTypeOK, Writes, Tokens, TokenInv
  <1> QED
    BY <1>1, <1>2, StillEffect DEF bindingVars, chainVars, Base, TypeOK

LEMMA StepKeeps == IInv /\ [Next]_vars => IInv'
  <1> SUFFICES ASSUME IInv, [Next]_vars
               PROVE  IInv'
    OBVIOUS
  <1>1. Base /\ NonceInv /\ LabelInv /\ TaintGates /\ ActInv /\ ActsAdmitted /\ LateInv /\ ManifestInv
    BY DEF IInv
  <1>2. Effect
    BY <1>1, NextEffect, StutterEffect
  <1>3. Base'
    BY <1>1, <1>2, BaseNext
  <1>4. NonceInv' /\ LabelInv' /\ TaintGates'
    BY <1>1, <1>2, NonceInvNext, LabelInvNext, TaintGatesNext
  <1>5. ActInv' /\ LateInv' /\ ManifestInv'
    BY <1>1, <1>2, ActInvNext, LateInvNext, ManifestInvNext
  <1>6. ActsAdmitted'
    BY <1>1, <1>2, <1>5, ActsAdmittedNext
  <1> QED
    BY <1>3, <1>4, <1>5, <1>6 DEF IInv

(* What the handlers share is as IInv says after every run of the event    *)
(* loop, whatever fails, times out, answers late or is restarted.          *)
THEOREM Invariance == Spec => []IInv
  <1>1. Init => IInv
    BY InitInv
  <1>2. IInv /\ [Next]_vars => IInv'
    BY StepKeeps
  <1> QED
    BY <1>1, <1>2, PTL DEF Spec

(* Requests, bindings, registries and the chain keep their types.          *)
THEOREM TypeCorrect == Spec => []TypeOK
  <1>1. IInv => TypeOK
    BY DEF IInv, Base
  <1> QED
    BY <1>1, Invariance, PTL

(* consumeNonce: two invokes of one session's nonce do not both reach the  *)
(* transport, though the call of either may take effect after its request  *)
(* timed out or the process restarted.                                     *)
THEOREM NonceSingleUse == Spec => []NonceForwardsOnce
  <1>1. IInv => NonceForwardsOnce
    BY DEF IInv, NonceInv, NonceForwardsOnce, Holds, Key
  <1> QED
    BY <1>1, Invariance, PTL

(* sessionLabels and the export gate: no export or escalation of a session *)
(* is forwarded once the chain holds an untrusted registration of it.      *)
THEOREM TaintHolds == Spec => []TaintGates
  <1>1. IInv => TaintGates
    BY DEF IInv
  <1> QED
    BY <1>1, Invariance, PTL

(* The manifest check and the log that refuses after a failure: an allowed *)
(* invoke names only manifests the chain held when it was forwarded,       *)
(* though context.ts adds a manifest before its append, which may throw.   *)
THEOREM AllowedRecorded == Spec => []AllowedManifestsRecorded
  <1>1. ASSUME IInv
        PROVE  AllowedManifestsRecorded
    <2>1. ASSUME NEW r \in Requests, Called(r), req[r].status = "200",
                 req[r].call.manifest # NoManifest
          PROVE  \E q \in Requests :
                    /\ Entry("register", q, FALSE) \in RecordedByCall(r)
                    /\ req[q].call.manifest = req[r].call.manifest
      <3>1. Vouched(calledAt[r], req[r].call.manifest)
        BY <1>1, <2>1 DEF IInv, ManifestInv
      <3> QED
        BY <3>1 DEF Vouched, Before, RecordedByCall
    <2> QED
      BY <2>1 DEF AllowedManifestsRecorded, Entry
  <1> QED
    BY <1>1, Invariance, PTL

(* admit.ts answers with a token only after its append: what a session's   *)
(* requests do follows the record of its admission.                        *)
THEOREM AdmissionFirst == Spec => []ActsAdmitted
  <1>1. IInv => ActsAdmitted
    BY DEF IInv
  <1> QED
    BY <1>1, Invariance, PTL

(* revokeSubject: a request that arrives after the revocation of its       *)
(* session, subject or device registers, grants and forwards nothing.      *)
THEOREM RevocationIsFinal == Spec => []RevocationHolds
  <1>1. IInv => RevocationHolds
    <2> SUFFICES ASSUME IInv, NEW r \in Requests, Acted(r), req[r].late
                 PROVE  FALSE
      BY DEF RevocationHolds
    <2>1. ~Called(r)
      BY DEF IInv, LateInv
    <2>2. PICK i \in 1..Len(log) : log[i].of = r /\ log[i].kind \in ActKinds
      BY <2>1 DEF Acted
    <2> QED
      BY <2>2 DEF IInv, ActInv
  <1> QED
    BY <1>1, Invariance, PTL

-----------------------------------------------------------------------------
(* What the chain says of the answers.                                     *)

(* A request has no record before it is answered, and one at the adapter   *)
(* has called the transport unless the adapter refused it.                 *)
RecordInv(r) ==
    /\ RecordsOf(r) # {} => req[r].pc = "done"
    /\ <<r, "adapter">> \in pending => Called(r)
    /\ req[r].pc = "cosign" => req[r].call.kind = "cosign"
    /\ req[r].pc = "adapter" =>
          /\ Called(r) <=> req[r].answer # "refused"
          /\ req[r].answer = "ok" => r \in ran

AnswerInv(r) == RecordInv(r) /\ (req[r].pc = "done" => AnswerMatches(r))

AnswersInv == \A r \in Requests : AnswerInv(r)

(* A request that a step leaves alone.                                     *)
LEMMA LeftAlone ==
  ASSUME log \in Seq(Record), NEW q \in Requests, AnswerInv(q),
         req'[q] = req[q], calledAt'[q] = calledAt[q], ran \subseteq ran',
         <<q, "adapter">> \in pending' => <<q, "adapter">> \in pending,
         log' = log \/ \E e \in Record : log' = Append(log, e) /\ e.of # q
  PROVE  AnswerInv(q)'
  <1>1. RecordsOf(q)' = RecordsOf(q) /\ \A i \in RecordsOf(q) : log'[i] = log[i]
    <2>1. CASE log' = log
      BY <2>1 DEF RecordsOf
    <2>2. CASE \E e \in Record : log' = Append(log, e) /\ e.of # q
      <3>1. PICK e \in Record : log' = Append(log, e) /\ e.of # q
        BY <2>2
      <3>2. /\ Len(log) \in Nat /\ Len(log') = Len(log) + 1 /\ log'[Len(log) + 1] = e
            /\ \A i \in 1..Len(log) : log'[i] = log[i]
        BY <3>1, AppendProperties
      <3> QED
        BY <3>1, <3>2 DEF RecordsOf
    <2> QED
      BY <2>1, <2>2
  <1>2. Called(q)' = Called(q)
    BY DEF Called
  <1>3. RecordInv(q)'
    BY <1>1, <1>2 DEF AnswerInv, RecordInv
  <1>4. ASSUME req[q].pc = "done"
        PROVE  AnswerMatches(q)'
    BY <1>1, <1>2, <1>4 DEF AnswerInv, AnswerMatches
  <1> QED
    BY <1>3, <1>4 DEF AnswerInv

(* The record a handler makes says what it answers.                        *)
Says(r, kind, stamped, status) ==
    /\ ~(req[r].call.kind = "register" /\ status = "denied")
    /\ req[r].call.kind = "invoke" =>
           /\ Called(r) => stamped
           /\ status = "200" <=> kind = "invoke"
           /\ status = "200" => r \in ran

LEMMA ReplyAnswers ==
  ASSUME Base, AnswersInv, NEW r \in Requests, NEW kind \in Kinds, NEW stamped \in BOOLEAN,
         NEW status \in {"200", "202", "denied"}, Reply(r, kind, stamped, status),
         Says(r, kind, stamped, status), req[r].pc # "done",
         UNCHANGED callVars
  PROVE  AnswersInv'
  <1> DEFINE e == Entry(kind, r, stamped)
  <1>1. TypeOK /\ log \in Seq(Record) /\ AnswerInv(r) /\ RecordsOf(r) = {} /\ Len(log) \in Nat
    BY DEF Base, TypeOK, AnswersInv, AnswerInv, RecordInv
  <1>2. /\ \A q \in Requests \ {r} : req'[q] = req[q]
        /\ req'[r].pc = "done" /\ req'[r].call = req[r].call
        /\ e \in Record /\ (log' = log \/ log' = Append(log, e))
    BY <1>1, ReplyDoes
  <1>3. req'[r].status = "500" \/ (req'[r].status = status /\ log' = Append(log, e))
    BY <1>1, ClosedRequest DEF Reply, Recorded, Entry
  <1>4. e.of = r /\ e.kind = kind /\ e.stamped = stamped
    BY DEF Entry
  <1> HIDE DEF e
  <1>5. \A q \in Requests \ {r} : AnswerInv(q)'
    BY <1>1, <1>2, <1>4, LeftAlone DEF AnswersInv, callVars
  <1>6. /\ RecordsOf(r)' \subseteq {Len(log) + 1}
        /\ \A i \in RecordsOf(r)' : log'[i] = e
        /\ log' = Append(log, e) => RecordsOf(r)' = {Len(log) + 1}
    <2>1. CASE log' = log
      <3>1. RecordsOf(r)' = {} /\ Len(log') = Len(log)
        BY <1>1, <2>1 DEF RecordsOf
      <3>2. log' # Append(log, e)
        BY <1>1, <1>2, <3>1, AppendProperties
      <3> QED
        BY <3>1, <3>2
    <2>2. CASE log' = Append(log, e)
      <3>1. /\ Len(log') = Len(log) + 1 /\ log'[Len(log) + 1] = e
            /\ \A i \in 1..Len(log) : log'[i] = log[i]
        BY <1>1, <1>2, <2>2, AppendProperties
      <3>2. \A i \in 1..Len(log) : log'[i].of # r
        BY <1>1, <3>1 DEF RecordsOf
      <3>3. 1..Len(log') = 1..Len(log) \cup {Len(log) + 1}
        BY <1>1, <3>1
      <3>4. RecordsOf(r)' = {Len(log) + 1}
        BY <1>4, <3>1, <3>2, <3>3 DEF RecordsOf
      <3> QED
        BY <3>1, <3>4
    <2> QED
      BY <1>2, <2>1, <2>2
  <1>7. Called(r)' = Called(r) /\ UNCHANGED <<pending, ran>>
    BY DEF Called, callVars
  <1>8. RecordInv(r)'
    BY <1>1, <1>2, <1>7 DEF AnswerInv, RecordInv
  <1>9. AnswerMatches(r)'
    <2>1. CASE req'[r].status = "500"
      BY <1>6, <2>1 DEF AnswerMatches
    <2>2. CASE req'[r].status = status /\ log' = Append(log, e)
      <3>1. RecordsOf(r)' = {Len(log) + 1} /\ log'[Len(log) + 1] = e
        BY <1>6, <2>2
      <3> QED
        BY <1>2, <1>4, <1>7, <2>2, <3>1 DEF AnswerMatches, Says
    <2> QED
      BY <1>3, <2>1, <2>2
  <1> QED
    BY <1>5, <1>8, <1>9 DEF AnswersInv, AnswerInv

(* A step of one request that makes no record.                             *)
LEMMA SilentAnswers ==
  ASSUME Base, AnswersInv, NEW r \in Requests, log' = log, ran \subseteq ran',
         \A q \in Requests \ {r} :
            /\ req'[q] = req[q] /\ calledAt'[q] = calledAt[q]
            /\ <<q, "adapter">> \in pending' => <<q, "adapter">> \in pending,
         req[r].pc # "done", req'[r].pc # "done",
         <<r, "adapter">> \in pending' => Called(r)',
         req'[r].pc = "cosign" => req'[r].call.kind = "cosign",
         req'[r].pc = "adapter" =>
            /\ Called(r)' <=> req'[r].answer # "refused"
            /\ req'[r].answer = "ok" => r \in ran'
  PROVE  AnswersInv'
  <1>1. log \in Seq(Record)
    BY DEF Base, TypeOK
  <1>2. \A q \in Requests \ {r} : AnswerInv(q)'
    BY <1>1, LeftAlone DEF AnswersInv
  <1>3. RecordsOf(r)' = {}
    BY DEF AnswersInv, AnswerInv, RecordInv, RecordsOf
  <1>4. RecordInv(r)'
    BY <1>3 DEF RecordInv
  <1> QED
    BY <1>2, <1>4 DEF AnswersInv, AnswerInv

(* A step that leaves every request alone, and records nothing of one.     *)
LEMMA ElsewhereAnswers ==
  ASSUME Base, AnswersInv, UNCHANGED <<req, calledAt>>, ran \subseteq ran', pending' \subseteq pending,
         log' = log \/ \E e \in Record : log' = Append(log, e) /\ e.of \notin Requests
  PROVE  AnswersInv'
  <1>1. log \in Seq(Record)
    BY DEF Base, TypeOK
  <1> QED
    BY <1>1, LeftAlone DEF AnswersInv

(* The steps that answer no request.                                       *)
LEMMA AdmitAnswers ==
  ASSUME Base, AnswersInv, NEW s \in Sessions, Admit(s) \/ Admitted(s)
  PROVE  AnswersInv'
  <1> USE DEF callVars
  <1>1. CASE Admit(s)
    BY <1>1, ElsewhereAnswers DEF Admit, chainVars
  <1>2. CASE Admitted(s)
    <2>1. PICK kind \in {"deny", "admit"} : Recorded(kind, s, FALSE) \/ NotRecorded(kind, s, FALSE)
      BY <1>2 DEF Admitted, Denied, NotRecorded
    <2>2. Entry(kind, s, FALSE) \in Record /\ (log' = log \/ log' = Append(log, Entry(kind, s, FALSE)))
      BY <2>1, RecordedOrNot DEF Base, Kinds
    <2>3. Entry(kind, s, FALSE).of \notin Requests
      BY DEF Entry
    <2> QED
      BY <1>2, <2>2, <2>3, ElsewhereAnswers DEF Admitted
  <1> QED
    BY <1>1, <1>2

LEMMA RevokeAnswers ==
  ASSUME Base, AnswersInv, NEW x \in Revocable, Revoke(x) \/ Revoked(x)
  PROVE  AnswersInv'
  <1> USE DEF callVars
  <1>1. CASE Revoke(x)
    BY <1>1, ElsewhereAnswers DEF Revoke, chainVars
  <1>2. CASE Revoked(x)
    <2>1. Recorded("revoke", x, FALSE) \/ NotRecorded("revoke", x, FALSE)
      BY <1>2 DEF Revoked
    <2>2. Entry("revoke", x, FALSE) \in Record /\ (log' = log \/ log' = Append(log, Entry("revoke", x, FALSE)))
      BY <2>1, RecordedOrNot DEF Base, Kinds
    <2>3. Entry("revoke", x, FALSE).of \notin Requests
      BY DEF Entry
    <2> QED
      BY <1>2, <2>2, <2>3, ElsewhereAnswers DEF Revoked
  <1> QED
    BY <1>1, <1>2

LEMMA ArriveAnswers ==
  ASSUME Base, AnswersInv, NEW r \in Requests, NEW c \in Calls, Arrive(r, c)
  PROVE  AnswersInv'
  <1>1. /\ req[r].pc = "idle" /\ req \in [Requests -> Request] /\ ~Called(r) /\ AnswerInv(r)
        /\ UNCHANGED <<log, pending, ran, calledAt>>
    BY DEF Arrive, Base, TypeOK, CallInv, AnswersInv, chainVars, callVars
  <1>2. /\ \A q \in Requests \ {r} : req'[q] = req[q]
        /\ req'[r].pc = FirstStage(c) /\ req'[r].call = c
    BY <1>1 DEF Arrive
  <1>3. /\ FirstStage(c) \in {"token", "context", "cosign"}
        /\ FirstStage(c) = "cosign" => c.kind = "cosign"
    BY DEF FirstStage, Calls, Invocation, Registration, Cosigning
  <1>4. <<r, "adapter">> \in pending' => Called(r)'
    BY <1>1 DEF AnswerInv, RecordInv, Called
  <1> QED
    BY <1>1, <1>2, <1>3, <1>4, SilentAnswers

LEMMA VerifyTokenAnswers ==
  ASSUME Base, AnswersInv, NEW r \in Requests, VerifyToken(r)
  PROVE  AnswersInv'
  <1>1. /\ req[r].pc \in {"token"} \cup Routes /\ req \in [Requests -> Request] /\ AnswerInv(r)
        /\ UNCHANGED <<log, pending, ran, calledAt>>
    BY DEF VerifyToken, Base, TypeOK, AnswersInv, chainVars, callVars
  <1>2. /\ \A q \in Requests \ {r} : req'[q] = req[q]
        /\ req'[r].pc = req[r].pc /\ req'[r].call = req[r].call
    BY <1>1 DEF VerifyToken, Request
  <1>3. req[r].pc # "done" /\ req[r].pc # "adapter"
    BY <1>1 DEF Routes
  <1>4. /\ <<r, "adapter">> \in pending' => Called(r)'
        /\ req'[r].pc = "cosign" => req'[r].call.kind = "cosign"
    BY <1>1, <1>2 DEF AnswerInv, RecordInv, Called
  <1> QED
    BY <1>1, <1>2, <1>3, <1>4, SilentAnswers

LEMMA ConsumeNonceAnswers ==
  ASSUME Base, AnswersInv, NEW r \in Requests, ConsumeNonce(r)
  PROVE  AnswersInv'
  <1>1. /\ req \in [Requests -> Request] /\ AnswerInv(r)
        /\ pending' \subseteq pending /\ UNCHANGED <<log, ran, calledAt>>
    BY DEF ConsumeNonce, Base, TypeOK, AnswersInv, chainVars
  <1>2. CASE req[r].pc # "nonce"
    BY <1>1, <1>2, ElsewhereAnswers DEF ConsumeNonce
  <1>3. CASE req[r].pc = "nonce"
    <2>1. \A q \in Requests \ {r} : req'[q] = req[q]
      BY <1>1, <1>3 DEF ConsumeNonce
    <2>2. req'[r].pc = "nonce"
      BY <1>1, <1>3 DEF ConsumeNonce, Request
    <2>3. <<r, "adapter">> \in pending' => Called(r)'
      BY <1>1 DEF AnswerInv, RecordInv, Called
    <2> QED
      BY <1>1, <1>3, <2>1, <2>2, <2>3, SilentAnswers
  <1> QED
    BY <1>2, <1>3

LEMMA TransportAnswers ==
  ASSUME Base, AnswersInv, NEW r \in Requests, TransportRuns(r)
  PROVE  AnswersInv'
  <1>1. /\ req \in [Requests -> Request] /\ Called(r)
        /\ pending' \subseteq pending /\ ran \subseteq ran' /\ UNCHANGED <<log, calledAt>>
    BY DEF TransportRuns, Base, TypeOK, AnswersInv, AnswerInv, RecordInv, chainVars
  <1>2. CASE req[r].pc # "adapter"
    BY <1>1, <1>2, ElsewhereAnswers DEF TransportRuns
  <1>3. CASE req[r].pc = "adapter"
    <2>1. PICK answer \in {"ok", "failed"} :
              /\ answer = "ok" => r \in ran'
              /\ req' = [req EXCEPT ![r].answer = answer]
      BY <1>3 DEF TransportRuns
    <2>2. /\ \A q \in Requests \ {r} : req'[q] = req[q]
          /\ req'[r].pc = "adapter" /\ req'[r].answer = answer
      BY <1>1, <1>3, <2>1 DEF Request
    <2>3. Called(r)'
      BY <1>1 DEF Called
    <2> QED
      BY <1>1, <1>3, <2>1, <2>2, <2>3, SilentAnswers
  <1> QED
    BY <1>2, <1>3

LEMMA RegisterAnswers ==
  ASSUME Base, AnswersInv, NEW r \in Requests, RegisterContext(r)
  PROVE  AnswersInv'
  <1>1. /\ TypeOK /\ req[r].pc = "context" /\ req[r].call.kind = "register" /\ ~Called(r)
        /\ AnswerInv(r) /\ UNCHANGED callVars /\ log \in Seq(Record)
    BY DEF RegisterContext, Base, TypeOK, CallInv, AnswersInv
  <1>2. CASE Reply(r, "register", FALSE, "200")
    <2>1. Says(r, "register", FALSE, "200")
      BY <1>1 DEF Says
    <2> QED
      BY <1>1, <1>2, <2>1, ReplyAnswers DEF Kinds
  <1>3. CASE req' = Closed(r, "denied") /\ UNCHANGED chainVars
    <2>1. /\ \A q \in Requests \ {r} : req'[q] = req[q]
          /\ req'[r].pc = "done" /\ req'[r].status = "denied" /\ req'[r].call = req[r].call
      BY <1>1, <1>3, ClosedRequest
    <2>2. log' = log
      BY <1>3 DEF chainVars
    <2>3. \A q \in Requests \ {r} : AnswerInv(q)'
      BY <1>1, <2>1, <2>2, LeftAlone DEF AnswersInv, callVars
    <2>4. RecordsOf(r)' = {}
      BY <1>1, <2>2 DEF AnswerInv, RecordInv, RecordsOf
    <2>5. RecordInv(r)'
      BY <1>1, <2>1, <2>4 DEF AnswerInv, RecordInv, Called, callVars
    <2>6. AnswerMatches(r)'
      BY <1>1, <2>1, <2>4 DEF AnswerMatches
    <2> QED
      BY <2>3, <2>5, <2>6 DEF AnswersInv, AnswerInv
  <1> QED
    BY <1>2, <1>3 DEF RegisterContext

LEMMA CosignAnswers ==
  ASSUME Base, AnswersInv, NEW r \in Requests, Cosign(r)
  PROVE  AnswersInv'
  <1>1. req[r].pc = "cosign" /\ req[r].call.kind = "cosign" /\ UNCHANGED callVars
    BY DEF Cosign, AnswersInv, AnswerInv, RecordInv
  <1>2. PICK kind \in Kinds, stamped \in BOOLEAN, status \in {"200", "202", "denied"} :
            Reply(r, kind, stamped, status)
    BY DEF Cosign, Kinds
  <1>3. Says(r, kind, stamped, status) /\ req[r].pc # "done"
    BY <1>1 DEF Says
  <1> QED
    BY <1>1, <1>2, <1>3, ReplyAnswers

(* An invoke that is refused or timed out before the adapter.              *)
LEMMA EarlyAnswers ==
  ASSUME Base, AnswersInv, NEW r \in Requests, req[r].pc \in {"token", "nonce", "envelope"},
         NEW kind \in Kinds \ {"invoke", "tool_block"}, NEW stamped \in BOOLEAN,
         NEW status \in {"202", "denied"}, Reply(r, kind, stamped, status), UNCHANGED callVars
  PROVE  AnswersInv'
  <1>1. ~Called(r) /\ req[r].call.kind = "invoke" /\ req[r].pc # "done"
    BY DEF Base, CallInv, Stages
  <1>2. kind \in Kinds /\ status \in {"200", "202", "denied"}
    OBVIOUS
  <1>3. Says(r, kind, stamped, status)
    BY <1>1 DEF Says
  <1> QED
    BY <1>1, <1>2, <1>3, ReplyAnswers

LEMMA TokenVerifiedAnswers ==
  ASSUME Base, AnswersInv, NEW r \in Requests, TokenVerified(r)
  PROVE  AnswersInv'
  <1>1. /\ TypeOK /\ req[r].pc = "token" /\ ~Called(r) /\ AnswerInv(r) /\ UNCHANGED <<ran, calledAt>>
    BY DEF TokenVerified, Base, CallInv, AnswersInv
  <1>2. CASE Reply(r, "deny", FALSE, "denied") /\ UNCHANGED pending
    BY <1>1, <1>2, EarlyAnswers DEF Kinds, callVars
  <1>3. CASE req' = Moved(r, "nonce") /\ pending' = pending \cup {<<r, "nonce">>} /\ UNCHANGED chainVars
    <2>1. (\A q \in Requests \ {r} : req'[q] = req[q]) /\ req'[r].pc = "nonce"
      BY <1>1, <1>3, MovedRequest DEF PCs, Stages
    <2>2. log' = log /\ \A q \in Requests : <<q, "adapter">> \in pending' => <<q, "adapter">> \in pending
      BY <1>3 DEF chainVars
    <2>3. <<r, "adapter">> \in pending' => Called(r)'
      BY <1>1, <2>2 DEF AnswerInv, RecordInv, Called
    <2> QED
      BY <1>1, <2>1, <2>2, <2>3, SilentAnswers
  <1> QED
    BY <1>2, <1>3 DEF TokenVerified

LEMMA NonceConsumedAnswers ==
  ASSUME Base, AnswersInv, NEW r \in Requests, NonceConsumed(r)
  PROVE  AnswersInv'
  <1>1. TypeOK /\ req[r].pc = "nonce" /\ AnswerInv(r) /\ UNCHANGED callVars
    BY DEF NonceConsumed, Base, AnswersInv
  <1>2. CASE Reply(r, "replay_fail", FALSE, "denied")
    BY <1>1, <1>2, EarlyAnswers DEF Kinds
  <1>3. CASE req' = Moved(r, "envelope") /\ UNCHANGED chainVars
    <2>1. (\A q \in Requests \ {r} : req'[q] = req[q]) /\ req'[r].pc = "envelope"
      BY <1>1, <1>3, MovedRequest DEF PCs, Stages
    <2>2. log' = log /\ UNCHANGED <<pending, ran, calledAt>>
      BY <1>1, <1>3 DEF chainVars, callVars
    <2>3. <<r, "adapter">> \in pending' => Called(r)'
      BY <1>1, <2>2 DEF AnswerInv, RecordInv, Called
    <2> QED
      BY <1>1, <2>1, <2>2, <2>3, SilentAnswers
  <1> QED
    BY <1>2, <1>3 DEF NonceConsumed

(* No refusal of these layers is recorded as an outcome of the transport.  *)
LEMMA RefusalNoOutcome ==
  ASSUME NEW c, NEW i \in Fails(c)
  PROVE  Refusals(c)[i][2] \in Kinds \ {"invoke", "tool_block"}
  <1>1. i \in {1, 2, 3, 4, 5, 6, 7, 8}
    BY DEF Fails, Refusals
  <1> QED
    BY <1>1 DEF Refusals, Kinds

LEMMA EnvelopeAnswers ==
  ASSUME Base, AnswersInv, NEW r \in Requests, EnvelopeValidated(r)
  PROVE  AnswersInv'
  <1> DEFINE c == req[r].call
  <1>1. TypeOK /\ req[r].pc = "envelope" /\ ~Called(r) /\ AnswerInv(r)
    BY DEF EnvelopeValidated, Base, CallInv, AnswersInv
  <1>2. CASE \E i \in Fails(c) : Reply(r, Refusals(c)[i][2], FALSE, "denied") /\ UNCHANGED callVars
    <2>1. PICK i \in Fails(c) : Reply(r, Refusals(c)[i][2], FALSE, "denied") /\ UNCHANGED callVars
      BY <1>2
    <2>2. Refusals(c)[i][2] \in Kinds \ {"invoke", "tool_block"}
      BY RefusalNoOutcome
    <2> QED
      BY <1>1, <2>1, <2>2, EarlyAnswers
  <1>3. CASE Reply(r, "dual_control_requested", FALSE, "202") /\ UNCHANGED callVars
    BY <1>1, <1>3, EarlyAnswers DEF Kinds
  <1>4. CASE /\ req' = [Moved(r, "adapter") EXCEPT ![r].answer = "refused"]
             /\ UNCHANGED callVars /\ UNCHANGED chainVars
    <2>1. /\ Moved(r, "adapter") \in [Requests -> Request]
          /\ \A q \in Requests \ {r} : Moved(r, "adapter")[q] = req[q]
          /\ Moved(r, "adapter")[r].pc = "adapter"
      BY <1>1, MovedRequest DEF PCs, Stages
    <2>2. /\ \A q \in Requests \ {r} : req'[q] = req[q]
          /\ req'[r].pc = "adapter" /\ req'[r].answer = "refused"
      BY <1>4, <2>1 DEF Request
    <2>3. UNCHANGED <<log, pending, ran, calledAt>>
      BY <1>4 DEF chainVars, callVars
    <2>4. ~Called(r)' /\ (<<r, "adapter">> \in pending' => Called(r)')
      BY <1>1, <2>3 DEF AnswerInv, RecordInv, Called
    <2> QED
      BY <1>1, <2>2, <2>3, <2>4, SilentAnswers
  <1>5. CASE /\ req' = Moved(r, "adapter")
             /\ pending' = pending \cup {<<r, "adapter">>}
             /\ calledAt' = [calledAt EXCEPT ![r] = Len(log)]
             /\ UNCHANGED ran /\ UNCHANGED chainVars
    <2>1. /\ \A q \in Requests \ {r} : req'[q] = req[q]
          /\ req'[r].pc = "adapter" /\ req'[r].answer = "waiting"
      BY <1>1, <1>5, MovedRequest DEF PCs, Stages
    <2>2. /\ \A q \in Requests \ {r} : calledAt'[q] = calledAt[q]
          /\ calledAt'[r] = Len(log) /\ Len(log) \in Nat
      BY <1>1, <1>5 DEF TypeOK
    <2>3. Called(r)'
      BY <2>2 DEF Called, Never
    <2>4. log' = log /\ \A q \in Requests \ {r} : <<q, "adapter">> \in pending' => <<q, "adapter">> \in pending
      BY <1>5 DEF chainVars
    <2> QED
      BY <1>1, <1>5, <2>1, <2>2, <2>3, <2>4, SilentAnswers
  <1> QED
    BY <1>2, <1>3, <1>4, <1>5 DEF EnvelopeValidated

LEMMA AdapterAnswers ==
  ASSUME Base, AnswersInv, NEW r \in Requests, AdapterAnswered(r)
  PROVE  AnswersInv'
  <1>1. /\ req[r].pc = "adapter" /\ req[r].call.kind = "invoke" /\ UNCHANGED callVars
        /\ Called(r) <=> req[r].answer # "refused"
        /\ req[r].answer = "ok" => r \in ran
    BY DEF AdapterAnswered, Base, CallInv, Stages, AnswersInv, AnswerInv, RecordInv
  <1>2. PICK kind \in Kinds, stamped \in BOOLEAN, status \in {"200", "202", "denied"} :
            /\ Reply(r, kind, stamped, status)
            /\ \/ req[r].answer = "ok" /\ kind = "invoke" /\ stamped /\ status = "200"
               \/ req[r].answer = "failed" /\ kind = "tool_block" /\ stamped /\ status = "denied"
               \/ req[r].answer = "refused" /\ kind = "tool_block" /\ ~stamped /\ status = "denied"
    BY DEF AdapterAnswered, Kinds
  <1>3. Says(r, kind, stamped, status) /\ req[r].pc # "done"
    BY <1>1, <1>2 DEF Says
  <1> QED
    BY <1>1, <1>2, <1>3, ReplyAnswers

LEMMA DeadlineAnswers ==
  ASSUME Base, AnswersInv, NEW r \in Requests, DeadlineExceeded(r)
  PROVE  AnswersInv'
  <1>1. /\ req[r].pc \in Stages /\ req[r].answer # "refused" /\ req[r].call.kind = "invoke"
        /\ Reply(r, TimeoutKind[req[r].pc], TRUE, "denied") /\ UNCHANGED callVars
    BY DEF DeadlineExceeded, Base, CallInv
  <1>2. CASE req[r].pc = "adapter"
    <2>1. Called(r)
      BY <1>1, <1>2 DEF AnswersInv, AnswerInv, RecordInv
    <2>2. PICK kind \in Kinds, stamped \in BOOLEAN, status \in {"200", "202", "denied"} :
              /\ Reply(r, kind, stamped, status)
              /\ kind = "tool_block" /\ stamped /\ status = "denied"
      BY <1>1, <1>2 DEF TimeoutKind, Stages, Kinds
    <2>3. Says(r, kind, stamped, status) /\ req[r].pc # "done"
      BY <1>1, <1>2, <2>1, <2>2 DEF Says
    <2> QED
      BY <1>1, <2>2, <2>3, ReplyAnswers
  <1>3. CASE req[r].pc # "adapter"
    <2>1. req[r].pc \in {"token", "nonce", "envelope"}
      BY <1>1, <1>3 DEF Stages
    <2>2. TimeoutKind[req[r].pc] \in Kinds \ {"invoke", "tool_block"}
      BY <2>1 DEF TimeoutKind, Stages, Kinds
    <2>3. PICK kind \in Kinds \ {"invoke", "tool_block"}, stamped \in BOOLEAN,
               status \in {"202", "denied"} : Reply(r, kind, stamped, status)
      BY <1>1, <2>2
    <2> QED
      BY <1>1, <2>1, <2>3, EarlyAnswers
  <1> QED
    BY <1>2, <1>3

LEMMA RestartAnswers ==
  ASSUME Base, AnswersInv, Restart
  PROVE  AnswersInv'
  <1>1. /\ req \in [Requests -> Request] /\ pending' \subseteq pending
        /\ UNCHANGED <<log, ran, calledAt>>
    BY DEF Restart, Base, TypeOK
  <1>2. ASSUME NEW r \in Requests
        PROVE  AnswerInv(r)'
    <2>1. RecordsOf(r)' = RecordsOf(r) /\ Called(r)' = Called(r) /\ log' = log /\ AnswerInv(r)
      BY <1>1 DEF RecordsOf, Called, AnswersInv
    <2>2. CASE req[r].pc \in Stages \cup Routes
      <3>1. req'[r] = [req[r] EXCEPT !.pc = "lost", !.answer = "waiting"] /\ req[r] \in Request
        BY <1>1, <2>2 DEF Restart
      <3>2. req'[r].pc = "lost" /\ req[r].pc # "done"
        BY <2>2, <3>1 DEF Request, Stages, Routes
      <3> QED
        BY <1>1, <2>1, <3>2 DEF AnswerInv, RecordInv
    <2>3. CASE req[r].pc \notin Stages \cup Routes
      <3>1. req'[r] = req[r]
        BY <2>3 DEF Restart
      <3> QED
        BY <1>1, <2>1, <3>1 DEF AnswerInv, RecordInv, AnswerMatches
    <2> QED
      BY <2>2, <2>3
  <1> QED
    BY <1>2 DEF AnswersInv

LEMMA StepAnswers == Base /\ AnswersInv /\ [Next]_vars => AnswersInv'
  <1> SUFFICES ASSUME Base, AnswersInv, [Next]_vars
               PROVE  AnswersInv'
    OBVIOUS
  <1>1. CASE UNCHANGED vars
    BY <1>1, ElsewhereAnswers DEF vars, chainVars, callVars
  <1>2. CASE \E s \in Sessions : Admit(s) \/ Admitted(s)
    BY <1>2, AdmitAnswers
  <1>3. CASE \E x \in Revocable : Revoke(x) \/ Revoked(x)
    BY <1>3, RevokeAnswers
  <1>4. CASE \E r \in Requests : Step(r)
    BY <1>4, VerifyTokenAnswers, ConsumeNonceAnswers, TransportAnswers, RegisterAnswers, CosignAnswers,
       TokenVerifiedAnswers, NonceConsumedAnswers, EnvelopeAnswers, AdapterAnswers, DeadlineAnswers
       DEF Step
  <1>5. CASE \E r \in Requests, c \in Calls : Arrive(r, c)
    BY <1>5, ArriveAnswers
  <1>6. CASE Tick
    BY <1>6, ElsewhereAnswers DEF Tick, chainVars, callVars
  <1>7. CASE Restart
    BY <1>7, RestartAnswers
  <1> QED
    BY <1>1, <1>2, <1>3, <1>4, <1>5, <1>6, <1>7 DEF Next

(* Reply and withDeadline: whatever failed, timed out, ran late or was     *)
(* restarted, what a client was answered is what the chain says, an allow  *)
(* is of an operation the transport ran, and the record of an operation    *)
(* the transport was called for is stamped.                                *)
THEOREM AnswersAreRecorded == Spec => []AnswersMatchRecords
  <1>1. Init => AnswersInv
    <2> SUFFICES ASSUME Init, NEW r \in Requests
                 PROVE  AnswerInv(r)
      BY DEF AnswersInv
    <2>1. req[r].pc = "idle" /\ pending = {} /\ Len(log) = 0
      BY DEF Init
    <2>2. RecordsOf(r) = {}
      BY <2>1 DEF RecordsOf
    <2> QED
      BY <2>1, <2>2 DEF AnswerInv, RecordInv
  <1>2. IInv /\ AnswersInv /\ [Next]_vars => AnswersInv'
    BY StepAnswers DEF IInv
  <1>3. AnswersInv => AnswersMatchRecords
    BY DEF AnswersInv, AnswerInv, AnswersMatchRecords
  <1> QED
    BY <1>1, <1>2, <1>3, Invariance, PTL DEF Spec
=============================================================================
