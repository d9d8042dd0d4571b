----------------------- MODULE AnchorSchedulerProofs -----------------------
(***************************************************************************)
(* The safety of AnchorScheduler for any number of records, queued runs,   *)
(* requests and polls.                                                     *)
(***************************************************************************)
EXTENDS AnchorScheduler, TLAPS

(* An anchor has been taken since stop() read the head, is being signed,   *)
(* or still has a run of its own in the queue.                             *)
StopInv ==
    phase \in {"stopping", "exited"} =>
        \/ refusing
        \/ \E a \in anchors : a >= stopSeq
        \/ phase = "stopping" /\ (queue > 0 \/ signing >= stopSeq)

(* What the process remembers of the chain is on the disk.                 *)
MemoryInv ==
    /\ since <= seq
    /\ stopSeq <= seq
    /\ last # NoSeq => last \in anchors

IInv == TypeOK /\ AnchorsInOrder /\ MemoryInv /\ StopInv

LEMMA InitInv == Init => IInv
  <1> SUFFICES ASSUME Init
               PROVE  IInv
    OBVIOUS
  <1> USE SchedulerAssumption DEF SchedulerAssumption, Init, NoSeq
  <1>1. TypeOK
    <2>1. refusing \in BOOLEAN /\ diverged \in BOOLEAN /\ anchors \subseteq 0..MaxSeq
      OBVIOUS
    <2>2. 0 \in 0..MaxSeq /\ 0 \in 0..MaxPolls
      OBVIOUS
    <2> QED
      BY <2>1, <2>2 DEF TypeOK, Phases, Alive
  <1>2. AnchorsInOrder /\ MemoryInv
    BY DEF AnchorsInOrder, MemoryInv
  <1>3. StopInv
    BY DEF StopInv
  <1> QED
    BY <1>1, <1>2, <1>3 DEF IInv

(* The end of a process touches neither the disk nor what stop() read.     *)
LEMMA EndsKeeps ==
  ASSUME IInv, NEW how \in {"down", "exited"}, Ends(how),
         how = "exited" => phase = "stopping" /\ queue = 0 /\ signing = NoSeq
  PROVE  IInv'
  <1> USE SchedulerAssumption DEF SchedulerAssumption, NoSeq, Ends, logVars, schedVars, procVars, reqVars
  <1>1. TypeOK'
    BY DEF IInv, TypeOK, Phases
  <1>2. AnchorsInOrder' /\ MemoryInv'
    BY DEF IInv, AnchorsInOrder, MemoryInv
  <1>3. StopInv'
    BY DEF IInv, TypeOK, StopInv
  <1> QED
    BY <1>1, <1>2, <1>3 DEF IInv

(* A handler's append, whatever became of it.                              *)
LEMMA FinishKeeps ==
  ASSUME IInv, Finish
  PROVE  IInv'
  <1> USE SchedulerAssumption DEF SchedulerAssumption, NoSeq, procVars
  <1>1. TypeOK'
    <2>1. handlers' \in Nat /\ orphans' \in Nat
      BY DEF IInv, TypeOK, Finish
    <2>2. CASE Appended
      <3>1. seq' \in 0..MaxSeq /\ since' \in 0..MaxSeq /\ queue' \in Nat
        BY <2>2 DEF IInv, TypeOK, MemoryInv, Appended
      <3> QED
        BY <2>1, <2>2, <3>1 DEF IInv, TypeOK, Finish, Appended
    <2>3. CASE AppendFailed \/ AppendRefused
      BY <2>1, <2>3 DEF IInv, TypeOK, Finish, AppendFailed, AppendRefused
    <2> QED
      BY <2>2, <2>3 DEF Finish
  <1>2. AnchorsInOrder' /\ MemoryInv'
    BY DEF IInv, TypeOK, AnchorsInOrder, MemoryInv, Finish, Appended, AppendFailed, AppendRefused
  <1>3. StopInv'
    BY DEF IInv, TypeOK, StopInv, Finish, Appended, AppendFailed, AppendRefused
  <1> QED
    BY <1>1, <1>2, <1>3 DEF IInv

(* Requests that come and go, ticks, the start and the close move neither  *)
(* records nor anchors, and take no run from the queue.                    *)
LEMMA QuietKeeps ==
  ASSUME IInv,
         UNCHANGED <<logVars, last, signing>>,
         queue' \in Nat, queue' >= queue, phase' \in Phases,
         polls' \in 0..MaxPolls, listen' \in {"none", "pending", "done"},
         handlers' \in Nat, orphans' \in Nat,
         \/ phase' \notin {"stopping", "exited"} /\ UNCHANGED stopSeq
         \/ phase' = phase /\ UNCHANGED stopSeq
         \/ phase' = "stopping" /\ stopSeq' = seq /\ queue' > 0
  PROVE  IInv'
  <1> USE DEF NoSeq, logVars
  <1>1. TypeOK'
    BY DEF IInv, TypeOK
  <1>2. AnchorsInOrder' /\ MemoryInv'
    BY DEF IInv, TypeOK, AnchorsInOrder, MemoryInv
  <1>3. StopInv'
    BY DEF IInv, TypeOK, StopInv
  <1> QED
    BY <1>1, <1>2, <1>3 DEF IInv

LEMMA RunAnchorKeeps ==
  ASSUME IInv, RunAnchor
  PROVE  IInv'
  <1> USE DEF NoSeq, RunAnchor, HeadMoved, logVars, procVars, reqVars
  <1>1. TypeOK'
    BY DEF IInv, TypeOK
  <1>2. AnchorsInOrder' /\ MemoryInv'
    BY DEF IInv, TypeOK, AnchorsInOrder, MemoryInv
  <1>3. StopInv'
    <2>1. CASE refusing
      BY <2>1 DEF StopInv
    <2>2. CASE ~refusing /\ seq = last
      <3>1. last \in anchors /\ last >= stopSeq
        BY <2>2 DEF IInv, TypeOK, MemoryInv
      <3> QED
        BY <3>1 DEF StopInv
    <2>3. CASE ~refusing /\ seq # last
      <3>1. signing' >= stopSeq'
        BY <2>3 DEF IInv, TypeOK, MemoryInv
      <3> QED
        BY <3>1 DEF IInv, StopInv, Alive, Closing
    <2> QED
      BY <2>1, <2>2, <2>3
  <1> QED
    BY <1>1, <1>2, <1>3 DEF IInv

LEMMA AnchorWrittenKeeps ==
  ASSUME IInv, AnchorWritten
  PROVE  IInv'
  <1> USE DEF NoSeq, AnchorWritten, procVars, reqVars
  <1>1. TypeOK'
    BY DEF IInv, TypeOK
  <1>2. AnchorsInOrder' /\ MemoryInv'
    BY DEF IInv, TypeOK, AnchorsInOrder, MemoryInv
  <1>3. StopInv'
    BY DEF IInv, TypeOK, StopInv
  <1> QED
    BY <1>1, <1>2, <1>3 DEF IInv

LEMMA AnchorFailedKeeps ==
  ASSUME IInv, AnchorFailed
  PROVE  IInv'
  BY DEF IInv, TypeOK, AnchorsInOrder, MemoryInv, StopInv, AnchorFailed, NoSeq, procVars, reqVars

LEMMA RestartKeeps ==
  ASSUME IInv, Restart
  PROVE  IInv'
  BY SchedulerAssumption
     DEF SchedulerAssumption, IInv, TypeOK, AnchorsInOrder, MemoryInv, StopInv, Restart, NoSeq,
         reqVars, Phases, Alive, Closing

LEMMA StepKeeps ==
  ASSUME IInv, [Next]_vars
  PROVE  IInv'
  <1> USE DEF logVars, schedVars, procVars, reqVars
  <1>1. CASE Arrive
    BY <1>1, QuietKeeps DEF Arrive, IInv, TypeOK
  <1>2. CASE Disconnect
    BY <1>2, QuietKeeps DEF Disconnect, IInv, TypeOK
  <1>3. CASE Finish
    BY <1>3, FinishKeeps
  <1>4. CASE Tick
    BY <1>4, QuietKeeps DEF Tick, IInv, TypeOK
  <1>5. CASE RunAnchor
    BY <1>5, RunAnchorKeeps
  <1>6. CASE AnchorWritten
    BY <1>6, AnchorWrittenKeeps
  <1>7. CASE AnchorFailed
    BY <1>7, AnchorFailedKeeps
  <1>8. CASE Build
    BY <1>8, QuietKeeps, SchedulerAssumption DEF SchedulerAssumption, Build, IInv, TypeOK, Phases, Alive
  <1>9. CASE Listens
    BY <1>9, QuietKeeps DEF Listens, IInv, TypeOK, Phases, Alive
  <1>10. CASE Close \/ Drained
    BY <1>10, QuietKeeps DEF Close, Drained, IInv, TypeOK, Phases, Alive, Closing
  <1>11. CASE Stop
    BY <1>11, QuietKeeps DEF Stop, IInv, TypeOK, Phases, Alive, Closing
  <1>12. CASE StartFails \/ ListenFails \/ Kill
    BY <1>12, EndsKeeps DEF StartFails, ListenFails, Kill
  <1>13. CASE Exit
    BY <1>13, EndsKeeps DEF Exit
  <1>14. CASE Restart
    BY <1>14, RestartKeeps
  <1>15. CASE UNCHANGED vars
    BY <1>15 DEF vars, IInv, TypeOK, AnchorsInOrder, MemoryInv, StopInv
  <1> QED
    BY <1>1, <1>2, <1>3, <1>4, <1>5, <1>6, <1>7, <1>8, <1>9, <1>10, <1>11,
       <1>12, <1>13, <1>14, <1>15 DEF Next

(* IInv holds of every state of the scheduler, whatever is fair.           *)
THEOREM Invariance == Spec => []IInv
  <1>1. Init => IInv
    BY InitInv
  <1>2. IInv /\ [Next]_vars => IInv'
    BY StepKeeps
  <1> QED
    BY <1>1, <1>2, PTL DEF Spec

(* The variables keep their types, for any bounds.                         *)
THEOREM TypeCorrect == Spec => []TypeOK
  <1>1. IInv => TypeOK
    BY DEF IInv
  <1> QED
    BY <1>1, Invariance, PTL

(* Anchors are over heads the chain had and in the order of the chain,     *)
(* through any number of restarts (exportAnchor signs a head it read       *)
(* before the await).                                                      *)
THEOREM AnchorsFollowChain == Spec => []AnchorsInOrder
  <1>1. IInv => AnchorsInOrder
    BY DEF IInv
  <1> QED
    BY <1>1, Invariance, PTL

(* A clean stop leaves what was on the chain under an anchor, however many *)
(* runs were queued before it (scheduler.ts stop, index.ts shutdown).      *)
THEOREM StopLeavesAnchor == Spec => []StopAnchorsHead
  <1>1. IInv => StopAnchorsHead
    BY DEF IInv, StopInv, StopAnchorsHead
  <1> QED
    BY <1>1, Invariance, PTL
=============================================================================
