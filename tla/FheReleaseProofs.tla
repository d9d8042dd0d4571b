-------------------------- MODULE FheReleaseProofs --------------------------
(***************************************************************************)
(* Theorems about FheRelease, for any number of requests, any window and   *)
(* any provider.                                                           *)
(***************************************************************************)
EXTENDS FheRelease, TLAPS

USE DEF chainVars

(* Once the inference is computed its record stays named, and an answer    *)
(* that holds the result names both records.                               *)
ReqInv(r) ==
    /\ req[r].pc # "done" => req[r].status = None
    /\ req[r].pc \in {"attesting", "approving", "releasing", "released", "rejected"}
         => Ours(req[r].inference, r, "mode_a_inference", "computed")
    /\ req[r].status = "released" =>
         /\ Ours(req[r].inference, r, "mode_a_inference", "computed")
         /\ Ours(req[r].release, r, "mode_c_decryption", "release")
         /\ req[r].inference < req[r].release

(* A decryption on the chain is of a request the gate has answered, after  *)
(* its inference, or was refused by the log as well; a denial ends its     *)
(* request, so no decryption follows it.                                   *)
LogInv(n) ==
    /\ log[n].event = "mode_c_decryption" =>
         LET r == log[n].of IN
         /\ log[n].step = "release"
         /\ \/ req[r].pc \in {"released", "done"}
            \/ req[r].pc = "rejected" /\ refusing
         /\ req[r].status \in {None, "released", "record", "500"}
         /\ req[r].inference < n
         /\ Ours(req[r].inference, r, "mode_a_inference", "computed")
    /\ log[n].event = "deny" => req[log[n].of].pc = "done"

(* While the log accepts, the head in memory is that of the chain.         *)
HeadInv == ~refusing => head = Len(log)

IInv ==
    /\ TypeOK
    /\ HeadInv
    /\ \A r \in Requests : ReqInv(r)
    /\ \A n \in 1..Len(log) : LogInv(n)
    /\ OvertakenOnly

-----------------------------------------------------------------------------
(* The chain after an append: what was there stays where it was.           *)
LEMMA RecordedExtends ==
    ASSUME TypeOK, NEW x \in Record, log' = Append(log, x)
    PROVE  /\ log' \in Seq(Record)
           /\ Len(log') = Len(log) + 1
           /\ log'[Len(log) + 1] = x
           /\ \A n \in 1..Len(log) : log'[n] = log[n]
  BY DEF TypeOK

(* A position that named a request's record still names it.                *)
LEMMA OursStays ==
    ASSUME TypeOK, NEW x \in Record, log' = Append(log, x),
           NEW n, NEW r \in Requests, NEW event, NEW step,
           Ours(n, r, event, step)
    PROVE  Ours(n, r, event, step)'
  BY RecordedExtends DEF Ours

(* A record that is neither a decryption nor a denial leaves the window's  *)
(* account of denials as it was.                                           *)
LEMMA WindowStays ==
    ASSUME TypeOK, OvertakenOnly, NEW x \in Record, log' = Append(log, x),
           x.event \notin {"mode_c_decryption", "deny"}
    PROVE  OvertakenOnly'
  BY RecordedExtends DEF OvertakenOnly

(* A request that moves, or that ends with 500, keeps what it names, and   *)
(* the others are as they were.                                            *)
LEMMA PcMoves ==
    ASSUME TypeOK, NEW r \in Requests, NEW pc \in PC, req' = [req EXCEPT ![r].pc = pc]
    PROVE  /\ req' \in [Requests -> Request]
           /\ req'[r].pc = pc
           /\ req'[r].status = req[r].status
           /\ \A q \in Requests : req'[q].inference = req[q].inference
           /\ \A q \in Requests \ {r} : req'[q] = req[q]
<1>1. req \in [Requests -> Request] /\ req[r] \in Request
  BY DEF TypeOK
<1>2. req' = [req EXCEPT ![r] = [req[r] EXCEPT !.pc = pc]]
  BY <1>1
<1>3. [req[r] EXCEPT !.pc = pc] \in Request
  BY <1>1 DEF Request
<1>. QED
  BY <1>1, <1>2, <1>3 DEF Request

LEMMA EndsUnrecorded ==
    ASSUME TypeOK, NEW r \in Requests, req' = [req EXCEPT ![r].pc = "done", ![r].status = "500"]
    PROVE  /\ req' \in [Requests -> Request]
           /\ req'[r].pc = "done"
           /\ req'[r].status = "500"
           /\ \A q \in Requests : req'[q].inference = req[q].inference
           /\ \A q \in Requests \ {r} : req'[q] = req[q]
<1>1. req \in [Requests -> Request] /\ req[r] \in Request
  BY DEF TypeOK
<1>2. req' = [req EXCEPT ![r] = [req[r] EXCEPT !.pc = "done", !.status = "500"]]
  BY <1>1
<1>3. [req[r] EXCEPT !.pc = "done", !.status = "500"] \in Request
  BY <1>1 DEF Request, PC
<1>. QED
  BY <1>1, <1>2, <1>3 DEF Request

(* A handler that ends with a record of its own: any record but a          *)
(* decryption, and after the gate's answer only the one that says there is *)
(* none; or with 500, its append having thrown.                            *)
LEMMA AnswerKeeps ==
    ASSUME IInv, NEW r \in Requests, NEW event \in Event \ {"mode_c_decryption"}, NEW step \in Step,
           Answer(r, event, step), req[r].pc # "done",
           req[r].pc = "released" => step = "record" /\ FindRecord(r) = {},
           receipt' \in [Requests -> {None, "live", "used", "expired"}]
    PROVE  IInv'
<1> DEFINE x == [event |-> event, of |-> r, step |-> step]
<1>1. x \in Record /\ Len(log) \in Nat
  BY DEF IInv, TypeOK, Record, Step, Event
<1>2. \/ /\ Recorded(event, r, step)
         /\ req' = [req EXCEPT ![r].pc = "done", ![r].status = step, ![r].release = head']
      \/ /\ NotRecorded(event, r, step)
         /\ req' = [req EXCEPT ![r].pc = "done", ![r].status = "500"]
  BY DEF Answer
<1>3. /\ log' = log \/ (~refusing /\ log' = Append(log, x))
      /\ refusing' \in BOOLEAN /\ (refusing => refusing')
      /\ head' = head \/ (head' = Len(log') /\ log' = Append(log, x))
      /\ ~refusing' => (log' = log /\ head' = head) \/ head' = Len(log')
  BY <1>2 DEF Recorded, NotRecorded, Entry, IInv, TypeOK
<1>4. Len(log') \in Nat /\ Len(log) <= Len(log') /\ log' \in Seq(Record)
  BY <1>1, <1>3, RecordedExtends DEF IInv, TypeOK
<1>5. head' \in 0..Len(log') /\ HeadInv'
  BY <1>1, <1>3, <1>4 DEF IInv, TypeOK, HeadInv
<1>6. /\ req' \in [Requests -> Request]
      /\ req'[r].pc = "done" /\ req'[r].status \in {step, "500"}
      /\ \A q \in Requests : req'[q].inference = req[q].inference
      /\ \A q \in Requests \ {r} : req'[q] = req[q]
  <2>1. CASE req' = [req EXCEPT ![r].pc = "done", ![r].status = "500"]
    BY <2>1, EndsUnrecorded DEF IInv
  <2>2. CASE req' = [req EXCEPT ![r].pc = "done", ![r].status = step, ![r].release = head']
    <3>1. req[r] \in Request /\ head' \in Nat /\ req \in [Requests -> Request]
      BY <1>4, <1>5 DEF IInv, TypeOK
    <3>2. [req[r] EXCEPT !.pc = "done", !.status = step, !.release = head'] \in Request
      BY <3>1 DEF Request, PC
    <3>. QED
      BY <2>2, <3>1, <3>2 DEF Request
  <2>. QED
    BY <1>2, <2>1, <2>2
<1>7. TypeOK'
  BY <1>3, <1>4, <1>5, <1>6 DEF TypeOK
<1>8. CASE ~refusing /\ log' = Append(log, x)
  <2>1. /\ Len(log') = Len(log) + 1
        /\ log'[Len(log) + 1] = x
        /\ \A n \in 1..Len(log) : log'[n] = log[n]
    BY <1>1, <1>8, RecordedExtends DEF IInv
  <2>2. \A m, q, e, s : q \in Requests /\ Ours(m, q, e, s) => Ours(m, q, e, s)'
    BY <1>1, <1>8, OursStays DEF IInv
  <2>3. \A q \in Requests : ReqInv(q)'
    <3>1. SUFFICES ASSUME NEW q \in Requests PROVE ReqInv(q)'
      OBVIOUS
    <3>2. CASE q = r
      BY <1>6, <3>2 DEF ReqInv, Step, None
    <3>3. CASE q # r
      <4>1. req'[q] = req[q] /\ ReqInv(q)
        BY <1>6, <3>3 DEF IInv
      <4>. QED
        BY <2>2, <4>1 DEF ReqInv
    <3>. QED
      BY <3>2, <3>3
  <2>4. \A n \in 1..Len(log') : LogInv(n)'
    <3>1. SUFFICES ASSUME NEW n \in 1..Len(log') PROVE LogInv(n)'
      OBVIOUS
    <3>2. CASE n = Len(log) + 1
      BY <1>6, <2>1, <3>2 DEF LogInv, Event
    <3>3. CASE n # Len(log) + 1
      <4>1. n \in 1..Len(log) /\ log'[n] = log[n] /\ LogInv(n) /\ log[n] \in Record
        BY <1>1, <2>1, <3>3 DEF IInv, TypeOK
      <4>2. ASSUME log[n].event \in {"mode_c_decryption", "deny"}
            PROVE  /\ log[n].of \in Requests
                   /\ req'[log[n].of].inference = req[log[n].of].inference
                   /\ req'[log[n].of].pc \in {req[log[n].of].pc, "done"}
        <5>1. log[n].of \in Requests
          BY <4>1, <4>2 DEF Record
        <5>. QED
          BY <1>6, <5>1
      <4>3. ASSUME log[n].event = "mode_c_decryption"
            PROVE  req'[log[n].of].status \in {None, "released", "record", "500"}
        <5>1. /\ log[n].of \in Requests
              /\ req[log[n].of].pc \in {"released", "done"}
              /\ req[log[n].of].status \in {None, "released", "record", "500"}
          BY <1>8, <4>1, <4>2, <4>3 DEF LogInv
        <5>2. log[n].of = r => req[r].pc = "released" /\ step = "record"
          BY <5>1
        <5>. QED
          BY <1>6, <5>1, <5>2
      <4>. QED
        BY <1>8, <2>2, <4>1, <4>2, <4>3 DEF LogInv
    <3>. QED
      BY <3>2, <3>3
  <2>5. OvertakenOnly'
    <3>1. SUFFICES ASSUME NEW n \in 1..Len(log'), NEW m \in 1..Len(log'),
                          log'[n].event = "mode_c_decryption",
                          log'[m].event = "deny", log'[m].of = log'[n].of
                   PROVE  m - n > Window
      BY DEF OvertakenOnly
    <3>2. n \in 1..Len(log) /\ log'[n] = log[n]
      BY <1>1, <2>1, <3>1
    <3>3. CASE m = Len(log) + 1
      <4>1. log[n].of = r
        BY <2>1, <3>1, <3>2, <3>3
      <4>2. req[r].pc = "released"
        BY <1>8, <3>1, <3>2, <4>1 DEF IInv, LogInv
      <4>3. n \notin FindRecord(r) /\ head = Len(log)
        BY <1>8, <4>2 DEF IInv, HeadInv
      <4>4. ~(n > Len(log) - Window)
        BY <3>1, <3>2, <4>1, <4>3 DEF FindRecord
      <4>. QED
        BY <1>1, <3>2, <3>3, <4>4, ReleaseAssumption
    <3>4. CASE m # Len(log) + 1
      BY <1>1, <2>1, <3>1, <3>2, <3>4 DEF IInv, HeadInv, OvertakenOnly
    <3>. QED
      BY <3>3, <3>4
  <2>. QED
    BY <1>5, <1>7, <2>3, <2>4, <2>5 DEF IInv
<1>9. CASE log' = log
  <2>1. req'[r].status = "500"
    <3>1. log' # Append(log, x)
      BY <1>1, <1>9, RecordedExtends DEF IInv
    <3>2. req' = [req EXCEPT ![r].pc = "done", ![r].status = "500"]
      BY <1>2, <3>1 DEF Recorded, Entry
    <3>. QED
      BY <3>2, EndsUnrecorded DEF IInv
  <2>2. \A q \in Requests : ReqInv(q)'
    BY <1>6, <1>9, <2>1 DEF IInv, ReqInv, Ours
  <2>3. \A n \in 1..Len(log') : LogInv(n)'
    <3>1. SUFFICES ASSUME NEW n \in 1..Len(log) PROVE LogInv(n)'
      BY <1>9
    <3>2. LogInv(n) /\ log[n] \in Record
      BY DEF IInv, TypeOK
    <3>3. ASSUME log[n].event \in {"mode_c_decryption", "deny"}
          PROVE  /\ log[n].of \in Requests
                 /\ req'[log[n].of].inference = req[log[n].of].inference
                 /\ req'[log[n].of].pc \in {req[log[n].of].pc, "done"}
                 /\ req'[log[n].of].status \in {req[log[n].of].status, "500"}
      <4>1. log[n].of \in Requests
        BY <3>2, <3>3 DEF Record
      <4>. QED
        BY <1>6, <2>1, <4>1
    <3>. QED
      BY <1>3, <1>9, <3>2, <3>3 DEF LogInv, Ours
  <2>4. OvertakenOnly'
    BY <1>9 DEF IInv, HeadInv, OvertakenOnly
  <2>. QED
    BY <1>5, <1>7, <2>2, <2>3, <2>4 DEF IInv
<1>. QED
  BY <1>3, <1>8, <1>9

(* A handler or the gate moves on without a record.                        *)
LEMMA MoveKeeps ==
    ASSUME IInv, NEW r \in Requests, NEW pc \in PC,
           UNCHANGED chainVars, req' = [req EXCEPT ![r].pc = pc],
           \/ req[r].pc = "idle" /\ pc = "inferring"
           \/ /\ req[r].pc \in {"attesting", "approving", "releasing"}
              /\ pc \in {"approving", "releasing", "released", "rejected"},
           receipt' \in [Requests -> {None, "live", "used", "expired"}]
    PROVE  IInv'
<1>1. TypeOK'
  BY PcMoves DEF IInv, TypeOK
<1>2. \A q \in Requests : ReqInv(q)'
  <2>1. SUFFICES ASSUME NEW q \in Requests PROVE ReqInv(q)'
    OBVIOUS
  <2>2. CASE q = r
    <3>1. /\ req'[r].pc = pc /\ req'[r].status = req[r].status
          /\ req'[r].inference = req[r].inference
      BY PcMoves DEF IInv
    <3>2. /\ req[r].pc # "done" /\ pc # "done" /\ ReqInv(r)
      BY DEF IInv
    <3>. QED
      BY <2>2, <3>1, <3>2 DEF ReqInv, Ours, None
  <2>3. CASE q # r
    <3>1. req'[q] = req[q]
      BY <2>3, PcMoves DEF IInv
    <3>. QED
      BY <3>1 DEF IInv, ReqInv, Ours
  <2>. QED
    BY <2>2, <2>3
<1>3. \A n \in 1..Len(log') : LogInv(n)'
  <2>1. SUFFICES ASSUME NEW n \in 1..Len(log) PROVE LogInv(n)'
    OBVIOUS
  <2>2. LogInv(n) /\ log[n] \in Record
    BY DEF IInv, TypeOK
  <2>3. ASSUME log[n].event \in {"mode_c_decryption", "deny"}
        PROVE  log[n].of \in Requests /\ req'[log[n].of] = req[log[n].of]
    <3>1. log[n].of \in Requests
      BY <2>2, <2>3 DEF Record
    <3>2. log[n].of # r
      BY <2>2, <2>3 DEF LogInv
    <3>. QED
      BY <3>1, <3>2 DEF IInv, TypeOK
  <2>. QED
    BY <2>2, <2>3 DEF LogInv, Ours
<1>4. OvertakenOnly'
  BY DEF IInv, HeadInv, OvertakenOnly
<1>. QED
  BY <1>1, <1>2, <1>3, <1>4 DEF IInv, HeadInv

(* Another handler's record.                                               *)
LEMMA OtherKeeps ==
    ASSUME IInv, Other
    PROVE  IInv'
<1> DEFINE x == [event |-> "other"]
<1>1. x \in Record /\ log' = Append(log, x)
  BY DEF Other, Record
<1>2. /\ log' \in Seq(Record)
      /\ Len(log') = Len(log) + 1
      /\ log'[Len(log) + 1] = x
      /\ \A n \in 1..Len(log) : log'[n] = log[n]
  BY <1>1, RecordedExtends DEF IInv
<1>3. \A m, q, e, s : q \in Requests /\ Ours(m, q, e, s) => Ours(m, q, e, s)'
  BY <1>1, OursStays DEF IInv
<1>4. TypeOK'
  BY <1>2 DEF IInv, TypeOK, Other
<1>5. \A q \in Requests : ReqInv(q)'
  BY <1>3 DEF IInv, Other, ReqInv
<1>6. \A n \in 1..Len(log') : LogInv(n)'
  <2>1. SUFFICES ASSUME NEW n \in 1..Len(log') PROVE LogInv(n)'
    OBVIOUS
  <2>2. CASE n = Len(log) + 1
    BY <1>2, <2>2 DEF LogInv
  <2>3. CASE n # Len(log) + 1
    <3>1. n \in 1..Len(log) /\ log'[n] = log[n] /\ LogInv(n) /\ log[n] \in Record
      BY <1>2, <2>3 DEF IInv, TypeOK
    <3>2. log[n].event = "mode_c_decryption" => log[n].of \in Requests
      BY <3>1 DEF Record
    <3>. QED
      BY <1>3, <3>1, <3>2 DEF LogInv, Other
  <2>. QED
    BY <2>2, <2>3
<1>7. OvertakenOnly'
  BY <1>1, WindowStays DEF IInv
<1>8. HeadInv'
  BY DEF HeadInv, Other
<1>. QED
  BY <1>4, <1>5, <1>6, <1>7, <1>8 DEF IInv

(* The inference's record.                                                 *)
LEMMA InferredKeeps ==
    ASSUME IInv, NEW r \in Requests, req[r].pc = "inferring",
           Recorded("mode_a_inference", r, "computed"),
           req' = [req EXCEPT ![r].pc = "attesting", ![r].inference = head'],
           UNCHANGED receipt
    PROVE  IInv'
<1> DEFINE x == [event |-> "mode_a_inference", of |-> r, step |-> "computed"]
<1>1. x \in Record /\ log' = Append(log, x)
  BY DEF Recorded, Entry, Record, Event, Step
<1>2. /\ log' \in Seq(Record)
      /\ Len(log') = Len(log) + 1
      /\ log'[Len(log) + 1] = x
      /\ \A n \in 1..Len(log) : log'[n] = log[n]
  BY <1>1, RecordedExtends DEF IInv
<1>3. \A m, q, e, s : q \in Requests /\ Ours(m, q, e, s) => Ours(m, q, e, s)'
  BY <1>1, OursStays DEF IInv
<1>4. TypeOK'
  <2>1. req[r] \in Request /\ head' = Len(log) + 1 /\ head' \in Nat /\ head' \in 0..Len(log')
    BY <1>2 DEF IInv, TypeOK, Recorded
  <2>2. [req[r] EXCEPT !.pc = "attesting", !.inference = head'] \in Request
    BY <2>1 DEF Request, PC
  <2>3. req' \in [Requests -> Request]
    BY <2>2 DEF IInv, TypeOK
  <2>. QED
    BY <1>2, <2>1, <2>3 DEF IInv, TypeOK, Recorded
<1>5. \A q \in Requests : ReqInv(q)'
  <2>1. SUFFICES ASSUME NEW q \in Requests PROVE ReqInv(q)'
    OBVIOUS
  <2>2. CASE q = r
    <3>1. /\ req'[r].pc = "attesting" /\ req'[r].inference = Len(log) + 1
          /\ req'[r].status = None
      BY <1>2 DEF IInv, TypeOK, Request, ReqInv, Recorded
    <3>2. Ours(req[r].inference, r, "mode_a_inference", "computed")'
      BY <1>2, <3>1 DEF Ours, Entry, IInv, TypeOK
    <3>. QED
      BY <2>2, <3>1, <3>2 DEF ReqInv, None
  <2>3. CASE q # r
    <3>1. req'[q] = req[q] /\ ReqInv(q)
      BY <2>3 DEF IInv, TypeOK
    <3>. QED
      BY <1>3, <3>1 DEF ReqInv
  <2>. QED
    BY <2>2, <2>3
<1>6. \A n \in 1..Len(log') : LogInv(n)'
  <2>1. SUFFICES ASSUME NEW n \in 1..Len(log') PROVE LogInv(n)'
    OBVIOUS
  <2>2. CASE n = Len(log) + 1
    BY <1>2, <2>2 DEF LogInv
  <2>3. CASE n # Len(log) + 1
    <3>1. n \in 1..Len(log) /\ log'[n] = log[n] /\ LogInv(n) /\ log[n] \in Record
      BY <1>2, <2>3 DEF IInv, TypeOK
    <3>2. ASSUME log[n].event \in {"mode_c_decryption", "deny"}
          PROVE  log[n].of \in Requests /\ req'[log[n].of] = req[log[n].of]
      <4>1. log[n].of \in Requests /\ log[n].of # r
        BY <3>1, <3>2 DEF Record, LogInv
      <4>. QED
        BY <4>1 DEF IInv, TypeOK
    <3>. QED
      BY <1>3, <3>1, <3>2 DEF LogInv, Recorded
  <2>. QED
    BY <2>2, <2>3
<1>7. OvertakenOnly'
  BY <1>1, WindowStays DEF IInv
<1>8. HeadInv'
  BY DEF HeadInv, Recorded
<1>. QED
  BY <1>4, <1>5, <1>6, <1>7, <1>8 DEF IInv

(* The gate's own record of a release, which is answered with the values,  *)
(* or rejected when the log refuses after it.                              *)
LEMMA GateRecordsKeeps ==
    ASSUME IInv, NEW r \in Requests, NEW pc \in {"released", "rejected"},
           req[r].pc = "releasing", ~refusing,
           log' = Append(log, Entry("mode_c_decryption", r, "release")),
           refusing' \in BOOLEAN, pc = "rejected" => refusing',
           head' \in 0..Len(log'), HeadInv',
           req' = [req EXCEPT ![r].pc = pc],
           receipt' \in [Requests -> {None, "live", "used", "expired"}]
    PROVE  IInv'
<1> DEFINE x == [event |-> "mode_c_decryption", of |-> r, step |-> "release"]
<1>1. x \in Record /\ log' = Append(log, x)
  BY DEF Recorded, Entry, Record, Event, Step
<1>2. /\ log' \in Seq(Record)
      /\ Len(log') = Len(log) + 1
      /\ log'[Len(log) + 1] = x
      /\ \A n \in 1..Len(log) : log'[n] = log[n]
  BY <1>1, RecordedExtends DEF IInv
<1>3. \A m, q, e, s : q \in Requests /\ Ours(m, q, e, s) => Ours(m, q, e, s)'
  BY <1>1, OursStays DEF IInv
<1>4. TypeOK'
  BY <1>2, PcMoves DEF IInv, TypeOK, PC
<1>5. /\ req'[r].pc = pc /\ req'[r].status = None
      /\ req'[r].inference = req[r].inference
      /\ Ours(req[r].inference, r, "mode_a_inference", "computed")
  BY DEF IInv, TypeOK, Request, ReqInv
<1>6. \A q \in Requests : ReqInv(q)'
  <2>1. SUFFICES ASSUME NEW q \in Requests PROVE ReqInv(q)'
    OBVIOUS
  <2>2. CASE q = r
    BY <1>3, <1>5, <2>2 DEF ReqInv, None
  <2>3. CASE q # r
    <3>1. req'[q] = req[q] /\ ReqInv(q)
      BY <2>3 DEF IInv, TypeOK
    <3>. QED
      BY <1>3, <3>1 DEF ReqInv
  <2>. QED
    BY <2>2, <2>3
<1>7. \A n \in 1..Len(log) : /\ LogInv(n)'
                             /\ log[n].event = "deny" => log[n].of # r
  <2>1. SUFFICES ASSUME NEW n \in 1..Len(log)
                 PROVE  LogInv(n)' /\ (log[n].event = "deny" => log[n].of # r)
    OBVIOUS
  <2>2. log'[n] = log[n] /\ LogInv(n) /\ log[n] \in Record
    BY <1>2 DEF IInv, TypeOK
  <2>3. ASSUME log[n].event \in {"mode_c_decryption", "deny"}
        PROVE  log[n].of \in Requests /\ log[n].of # r /\ req'[log[n].of] = req[log[n].of]
    <3>1. log[n].of \in Requests /\ log[n].of # r
      BY <2>2, <2>3 DEF Record, LogInv
    <3>. QED
      BY <3>1 DEF IInv, TypeOK
  <2>. QED
    BY <1>3, <2>2, <2>3 DEF LogInv
<1>8. ASSUME NEW n, n = Len(log) + 1 PROVE LogInv(n)'
  <2>1. req[r].inference \in 1..Len(log)
    BY <1>5 DEF Ours
  <2>2. Ours(req[r].inference, r, "mode_a_inference", "computed")'
    BY <1>3, <1>5
  <2>3. Len(log) \in Nat /\ log'[Len(log) + 1] = x
    BY <1>2 DEF IInv, TypeOK
  <2>4. req'[r].inference < Len(log) + 1
    BY <1>5, <2>1, <2>3
  <2>. QED
    BY <1>5, <1>8, <2>2, <2>3, <2>4 DEF LogInv
<1>9. Len(log) \in Nat /\ \A n \in 1..Len(log') : n \in 1..Len(log) \/ n = Len(log) + 1
  BY <1>2 DEF IInv, TypeOK
<1>10. OvertakenOnly'
  <2>1. SUFFICES ASSUME NEW n \in 1..Len(log'), NEW m \in 1..Len(log'),
                        log'[n].event = "mode_c_decryption",
                        log'[m].event = "deny", log'[m].of = log'[n].of
                 PROVE  m - n > Window
    BY DEF OvertakenOnly
  <2>2. m \in 1..Len(log) /\ log'[m] = log[m]
    BY <1>2, <1>9, <2>1
  <2>3. n \in 1..Len(log) /\ log'[n] = log[n]
    BY <1>2, <1>7, <1>9, <2>1, <2>2
  <2>. QED
    <3>1. \A i, j \in 1..Len(log) :
             log[i].event = "mode_c_decryption" /\ log[j].event = "deny" /\ log[j].of = log[i].of
             => j - i > Window
      BY DEF IInv, HeadInv, OvertakenOnly
    <3>. QED
      BY <2>1, <2>2, <2>3, <3>1
<1>11. \A n \in 1..Len(log') : LogInv(n)'
  BY <1>7, <1>8, <1>9
<1>. QED
  BY <1>4, <1>6, <1>10, <1>11 DEF IInv

(* The answer with the result, under the record found for it.              *)
LEMMA FoundKeeps ==
    ASSUME IInv, NEW r \in Requests, req[r].pc = "released",
           NEW k \in FindRecord(r),
           req' = [req EXCEPT ![r].pc = "done", ![r].status = "released", ![r].release = k],
           UNCHANGED <<chainVars, receipt>>
    PROVE  IInv'
<1>1. k \in 1..Len(log) /\ log[k].event = "mode_c_decryption" /\ log[k].of = r
  BY DEF FindRecord, IInv, TypeOK
<1>2. /\ Ours(k, r, "mode_c_decryption", "release")
      /\ req[r].inference < k
      /\ Ours(req[r].inference, r, "mode_a_inference", "computed")
  <2>1. LogInv(k) /\ log[k] \in Record
    BY <1>1 DEF IInv, TypeOK
  <2>2. log[k] = [event |-> "mode_c_decryption", of |-> r, step |-> "release"]
    BY <1>1, <2>1 DEF LogInv, Record
  <2>. QED
    BY <1>1, <2>1, <2>2 DEF LogInv, Ours, Entry
<1>3. /\ req'[r].pc = "done" /\ req'[r].status = "released" /\ req'[r].release = k
      /\ req'[r].inference = req[r].inference
      /\ req' \in [Requests -> Request]
  <2>1. k \in Nat
    BY <1>1 DEF IInv, TypeOK
  <2>2. req[r] \in Request
    BY DEF IInv, TypeOK
  <2>3. [req[r] EXCEPT !.pc = "done", !.status = "released", !.release = k] \in Request
    BY <2>1, <2>2 DEF Request, PC
  <2>4. req' \in [Requests -> Request]
    BY <2>3 DEF IInv, TypeOK
  <2>. QED
    BY <2>2, <2>4 DEF IInv, TypeOK, Request
<1>4. \A q \in Requests : ReqInv(q)'
  <2>1. SUFFICES ASSUME NEW q \in Requests PROVE ReqInv(q)'
    OBVIOUS
  <2>2. CASE q = r
    BY <1>2, <1>3, <2>2 DEF ReqInv, Ours
  <2>3. CASE q # r
    BY <2>3 DEF IInv, TypeOK, ReqInv, Ours
  <2>. QED
    BY <2>2, <2>3
<1>5. \A n \in 1..Len(log') : LogInv(n)'
  <2>1. SUFFICES ASSUME NEW n \in 1..Len(log) PROVE LogInv(n)'
    OBVIOUS
  <2>2. LogInv(n) /\ log[n] \in Record
    BY DEF IInv, TypeOK
  <2>3. ASSUME log[n].event \in {"mode_c_decryption", "deny"}
        PROVE  /\ req'[log[n].of].inference = req[log[n].of].inference
               /\ req'[log[n].of].pc \in {req[log[n].of].pc, "done"}
               /\ req'[log[n].of].status \in {req[log[n].of].status, "released"}
    <3>1. log[n].of \in Requests
      BY <2>2, <2>3 DEF Record
    <3>. QED
      BY <1>3, <3>1 DEF IInv, TypeOK, Request
  <2>. QED
    BY <2>2, <2>3 DEF LogInv, Ours
<1>. QED
  BY <1>3, <1>4, <1>5 DEF IInv, TypeOK, HeadInv, OvertakenOnly

(* The end of a released request whose page could not be read.             *)
LEMMA UnreadKeeps ==
    ASSUME IInv, NEW r \in Requests, req[r].pc = "released",
           req' = [req EXCEPT ![r].pc = "done", ![r].status = "500"],
           UNCHANGED <<chainVars, receipt>>
    PROVE  IInv'
<1>1. TypeOK'
  BY EndsUnrecorded DEF IInv, TypeOK
<1>2. /\ req'[r].pc = "done" /\ req'[r].status = "500"
      /\ req'[r].inference = req[r].inference
      /\ \A q \in Requests : q # r => req'[q] = req[q]
  BY DEF IInv, TypeOK, Request
<1>3. \A q \in Requests : ReqInv(q)'
  BY <1>2 DEF IInv, ReqInv, Ours
<1>4. \A n \in 1..Len(log') : LogInv(n)'
  <2>1. SUFFICES ASSUME NEW n \in 1..Len(log) PROVE LogInv(n)'
    OBVIOUS
  <2>2. LogInv(n) /\ log[n] \in Record
    BY DEF IInv, TypeOK
  <2>3. ASSUME log[n].event \in {"mode_c_decryption", "deny"}
        PROVE  /\ req'[log[n].of].inference = req[log[n].of].inference
               /\ req'[log[n].of].pc \in {req[log[n].of].pc, "done"}
               /\ req'[log[n].of].status \in {req[log[n].of].status, "500"}
    <3>1. log[n].of \in Requests
      BY <2>2, <2>3 DEF Record
    <3>. QED
      BY <1>2, <3>1
  <2>. QED
    BY <2>2, <2>3 DEF LogInv, Ours
<1>. QED
  BY <1>1, <1>3, <1>4 DEF IInv, HeadInv, OvertakenOnly

-----------------------------------------------------------------------------
LEMMA InitIInv == Init => IInv
<1> SUFFICES ASSUME Init PROVE IInv
  OBVIOUS
<1>1. log \in Seq(Record) /\ Len(log) = 0 /\ head = 0
  BY DEF Init
<1>2. TypeOK
  <2>1. head \in 0..Len(log)
    BY <1>1
  <2>. QED
    BY <1>1, <2>1 DEF Init, TypeOK, Request, PC, None
<1>3. \A r \in Requests : ReqInv(r)
  BY DEF Init, ReqInv, None
<1>. QED
  BY <1>1, <1>2, <1>3 DEF IInv, HeadInv, OvertakenOnly

(* Every step of a handler keeps the invariant.                            *)
LEMMA HandlerKeeps ==
    ASSUME IInv, NEW r \in Requests, Handler(r)
    PROVE  IInv'
<1> receipt \in [Requests -> {None, "live", "used", "expired"}]
  BY DEF IInv, TypeOK
<1>1. CASE Arrive(r)
  <2>1. CASE Answer(r, "deny", "shape")
    BY <1>1, <2>1, AnswerKeeps DEF Arrive, Event, Step
  <2>2. CASE Answer(r, "mode_a_inference", "denied")
    BY <1>1, <2>2, AnswerKeeps DEF Arrive, Event, Step
  <2>3. CASE req' = [req EXCEPT ![r].pc = "inferring"] /\ UNCHANGED chainVars
    BY <1>1, <2>3, MoveKeeps DEF Arrive, PC
  <2>. QED
    BY <1>1, <2>1, <2>2, <2>3 DEF Arrive
<1>2. CASE Inferred(r)
  <2>1. CASE Recorded("mode_a_inference", r, "computed")
             /\ req' = [req EXCEPT ![r].pc = "attesting", ![r].inference = head']
    BY <1>2, <2>1, InferredKeeps DEF Inferred
  <2>2. CASE NotRecorded("mode_a_inference", r, "computed") /\ req' = [req EXCEPT ![r].pc = "done", ![r].status = "500"]
    <3>1. Answer(r, "mode_a_inference", "computed")
      BY <2>2 DEF Answer
    <3>2. req[r].pc = "inferring" /\ receipt' = receipt
      BY <1>2 DEF Inferred
    <3>3. "mode_a_inference" \in Event \ {"mode_c_decryption"} /\ "computed" \in Step
      BY DEF Event, Step
    <3>. QED
      BY <3>1, <3>2, <3>3, AnswerKeeps
  <2>. QED
    BY <1>2, <2>1, <2>2 DEF Inferred
<1>3. CASE InferenceFailed(r)
  BY <1>3, AnswerKeeps DEF InferenceFailed, Event, Step
<1>4. CASE Attested(r)
  <2>1. CASE req' = [req EXCEPT ![r].pc = "approving"] /\ UNCHANGED chainVars
    BY <1>4, <2>1, MoveKeeps DEF Attested, PC
  <2>2. CASE Refuse(r, "endpoint-attestation")
    BY <1>4, <2>2, AnswerKeeps DEF Attested, Refuse, Event, Step
  <2>. QED
    BY <1>4, <2>1, <2>2 DEF Attested
<1>5. CASE Approved(r)
  <2>1. receipt' \in [Requests -> {None, "live", "used", "expired"}]
    BY <1>5 DEF Approved
  <2>2. CASE Refuse(r, "gate")
    BY <1>5, <2>1, <2>2, AnswerKeeps DEF Approved, Refuse, Event, Step
  <2>3. CASE req' = [req EXCEPT ![r].pc = "releasing"] /\ UNCHANGED chainVars
    BY <1>5, <2>1, <2>3, MoveKeeps DEF Approved, PC
  <2>. QED
    BY <1>5, <2>2, <2>3 DEF Approved
<1>6. CASE NotApproved(r)
  BY <1>6, AnswerKeeps DEF NotApproved, Refuse, Event, Step
<1>7. CASE Released(r)
  <2>1. ASSUME NEW n \in FindRecord(r),
               req' = [req EXCEPT ![r].pc = "done", ![r].status = "released", ![r].release = n],
               UNCHANGED chainVars
        PROVE  IInv'
    BY <1>7, <2>1, FoundKeeps DEF Released
  <2>2. CASE FindRecord(r) = {} /\ Answer(r, "deny", "record")
    BY <1>7, <2>2, AnswerKeeps DEF Released, Event, Step
  <2>3. CASE req' = [req EXCEPT ![r].pc = "done", ![r].status = "500"] /\ UNCHANGED chainVars
    BY <1>7, <2>3, UnreadKeeps DEF Released
  <2>. QED
    BY <1>7, <2>1, <2>2, <2>3 DEF Released
<1>8. CASE Rejected(r)
  BY <1>8, AnswerKeeps DEF Rejected, Refuse, Event, Step
<1>. QED
  BY <1>1, <1>2, <1>3, <1>4, <1>5, <1>6, <1>7, <1>8 DEF Handler

(* Every step of the provider keeps the invariant.                         *)
LEMMA ProviderKeeps ==
    ASSUME IInv, NEW r \in Requests, Provider(r)
    PROVE  IInv'
<1>1. CASE GateReleases(r)
  <2>1. receipt' \in [Requests -> {None, "live", "used", "expired"}]
    BY <1>1 DEF GateReleases, IInv, TypeOK
  <2>2. CASE Recorded("mode_c_decryption", r, "release") /\ req' = [req EXCEPT ![r].pc = "released"]
    <3>1. /\ ~refusing /\ log' = Append(log, Entry("mode_c_decryption", r, "release"))
          /\ head' = Len(log') /\ refusing' = refusing
      BY <2>2 DEF Recorded
    <3>2. head' \in 0..Len(log') /\ HeadInv' /\ refusing' \in BOOLEAN
      BY <3>1 DEF HeadInv, IInv, TypeOK
    <3>. QED
      BY <1>1, <2>1, <2>2, <3>1, <3>2, GateRecordsKeeps DEF GateReleases
  <2>5. CASE /\ ~refusing /\ refusing' /\ head' = head
             /\ log' = Append(log, Entry("mode_c_decryption", r, "release"))
             /\ req' = [req EXCEPT ![r].pc = "rejected"]
    <3>1. head' \in 0..Len(log') /\ HeadInv' /\ refusing' \in BOOLEAN
      <4>1. Entry("mode_c_decryption", r, "release") \in Record
        BY DEF Entry, Record, Event, Step
      <4>. QED
        BY <1>1, <2>5, <4>1, RecordedExtends DEF HeadInv, IInv, TypeOK, GateReleases, NotRecorded, Recorded
    <3>. QED
      BY <1>1, <2>1, <2>5, <3>1, GateRecordsKeeps DEF GateReleases
  <2>3. CASE /\ log' = log /\ head' = head /\ refusing' \in BOOLEAN /\ (refusing => refusing')
             /\ req' = [req EXCEPT ![r].pc = "rejected"]
    <3>1. TypeOK'
      BY <2>1, <2>3, PcMoves DEF IInv, TypeOK, PC
    <3>2. \A q \in Requests : ReqInv(q)'
      <4>1. /\ req'[r].pc = "rejected" /\ req'[r].status = req[r].status
            /\ req'[r].inference = req[r].inference
            /\ \A q \in Requests \ {r} : req'[q] = req[q]
        BY <2>3, PcMoves DEF IInv, PC
      <4>2. req[r].pc = "releasing" /\ log' = log
        BY <1>1, <2>3 DEF GateReleases
      <4>3. ReqInv(r)'
        BY <4>1, <4>2 DEF IInv, ReqInv, Ours, None
      <4>4. ASSUME NEW q \in Requests \ {r} PROVE ReqInv(q)'
        BY <4>1, <4>2 DEF IInv, ReqInv, Ours
      <4>. QED
        BY <4>3, <4>4
    <3>3. \A n \in 1..Len(log') : LogInv(n)'
      <4>1. SUFFICES ASSUME NEW n \in 1..Len(log) PROVE LogInv(n)'
        BY <2>3
      <4>2. LogInv(n) /\ log[n] \in Record /\ log' = log
        BY <2>3 DEF IInv, TypeOK
      <4>3. ASSUME log[n].event \in {"mode_c_decryption", "deny"}
            PROVE  req'[log[n].of] = req[log[n].of]
        BY <1>1, <2>3, <4>2, <4>3 DEF Record, LogInv, IInv, TypeOK, GateReleases
      <4>. QED
        BY <2>3, <4>2, <4>3 DEF LogInv, Ours
    <3>. QED
      BY <2>3, <3>1, <3>2, <3>3 DEF IInv, HeadInv, OvertakenOnly
  <2>4. CASE req' = [req EXCEPT ![r].pc = "released"] /\ UNCHANGED chainVars
    BY <1>1, <2>1, <2>4, MoveKeeps DEF GateReleases, PC
  <2>. QED
    BY <1>1, <2>2, <2>3, <2>4, <2>5 DEF GateReleases, NotRecorded, IInv, TypeOK
<1>2. CASE GateRejects(r)
  BY <1>2, MoveKeeps DEF GateRejects, PC, IInv, TypeOK
<1>3. CASE Expire(r)
  BY <1>3 DEF Expire, IInv, TypeOK, ReqInv, LogInv, Ours, HeadInv, OvertakenOnly
<1>. QED
  BY <1>1, <1>2, <1>3 DEF Provider

LEMMA NextIInv == IInv /\ [Next]_vars => IInv'
<1> SUFFICES ASSUME IInv, [Next]_vars PROVE IInv'
  OBVIOUS
<1>1. CASE UNCHANGED vars
  BY <1>1 DEF vars, IInv, TypeOK, ReqInv, LogInv, Ours, HeadInv, OvertakenOnly
<1>2. CASE Next
  BY <1>2, HandlerKeeps, ProviderKeeps, OtherKeeps DEF Next
<1>. QED
  BY <1>1, <1>2

LEMMA Invariance == Spec => []IInv
  BY InitIInv, NextIInv, PTL DEF Spec

(* The types of the route's and the provider's state.                      *)
THEOREM TypeCorrect == Spec => []TypeOK
<1>1. IInv => TypeOK
  BY DEF IInv
<1>. QED
  BY <1>1, Invariance, PTL

(* No result leaves without the record of its release and, before it, the  *)
(* record of its inference, both of its own request: however many requests *)
(* interleave, whatever the window, and if the provider records nothing.   *)
THEOREM ResultsAreRecorded == Spec => []ResultNamesItsRecords
<1>1. IInv => ResultNamesItsRecords
  BY DEF IInv, ReqInv, ResultNamesItsRecords
<1>. QED
  BY <1>1, Invariance, PTL

(* A release refused before the gate stays sealed.                         *)
THEOREM RefusedIsSealed == Spec => []RefusedStaysSealed
<1>1. IInv => RefusedStaysSealed
  <2>1. SUFFICES ASSUME IInv, NEW n \in 1..Len(log), log[n].event = "mode_c_decryption"
                 PROVE  LET r == log[n].of IN
                        /\ req[r].status \notin {"shape", "denied", "service_error", "endpoint-attestation",
                                                 "dual-control", "gate", "release"}
                        /\ \E m \in 1..n-1 : Ours(m, r, "mode_a_inference", "computed")
    BY DEF RefusedStaysSealed
  <2>2. LogInv(n)
    BY <2>1 DEF IInv
  <2>3. req[log[n].of].inference \in 1..n-1
    BY <2>1, <2>2 DEF LogInv, Ours, IInv, TypeOK
  <2>. QED
    BY <2>1, <2>2, <2>3 DEF LogInv, None
<1>. QED
  BY <1>1, Invariance, PTL

(* Only Window records between the gate's record and the answer can make   *)
(* the route say that there is none.                                       *)
THEOREM OnlyOvertaken == Spec => []OvertakenOnly
<1>1. IInv => OvertakenOnly
  BY DEF IInv
<1>. QED
  BY <1>1, Invariance, PTL
=============================================================================
