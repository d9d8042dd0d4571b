------------------------ MODULE ProvidenceLogProofs ------------------------
(***************************************************************************)
(* Theorems about ProvidenceLog: with one writer on the directory and      *)
(* writes that either complete or throw, what the log promises of its      *)
(* records; with any number of writers on one directory, that none of them *)
(* can make a later start accept a chain file that is not one chain.       *)
(***************************************************************************)
EXTENDS ProvidenceLog, SequenceTheorems, TLAPS

(* The deployment the durability comment describes: one broker per         *)
(* directory, and no write that stops short without an error.              *)
SoleWriter ==
    /\ \A v, w \in Writers : v = w
    /\ ~ShortWrites

DiskInv ==
    /\ Linear(lines)
    /\ synced <= Len(lines)
    /\ Len(lines) <= MaxLines
    /\ headFile \in headMay
    /\ \A h \in headMay \cap GuardHead :
          /\ h.seq <= synced
          /\ h = HeadAt(lines, h.seq)
          /\ headFile \in GuardHead
          /\ h.seq <= headFile.seq
    /\ acked > 0 => /\ linked
                    /\ \A h \in headMay : h \in GuardHead /\ acked <= h.seq

(* Agreement of a process's memory with the disk at each of its steps.     *)
ProcInv(p) ==
    /\ p.pc = "openFresh" => headFile = Missing /\ lines = <<>> /\ ~torn
    /\ p.pc \in {"openLast", "openIndex"} => headFile = p.head
    /\ p.pc = "up" /\ ~p.failure => headFile = p.head /\ Len(lines) = p.head.seq /\ ~torn
    /\ p.pc \in AppendPCs =>
          /\ ~torn
          /\ Len(lines) = p.head.seq + 1
          /\ p.next = HeadAt(lines, Len(lines))
          /\ IF p.pc = "renamed" THEN headFile = p.next ELSE headFile = p.head
          /\ p.pc # "wrote" => synced = Len(lines)
    /\ p.pc \in {"tmpWritten", "tmpSynced"} => tmp = p.next
    /\ p.pc = "tmpSynced" => tmpSynced

IInv == TypeOK /\ DiskInv /\ \A w \in Writers : ProcInv(proc[w])

-----------------------------------------------------------------------------
(* Lemmas about the operators on records.                                  *)

(* The digest of a line is a digest.                                       *)
LEMMA DigestOfType ==
    ASSUME NEW r \in Line
    PROVE  DigestOf(r) \in Digest
  BY DEF Line, Digest, DigestOf

(* A head commitment over a prefix of a chain file is a head.              *)
LEMMA HeadAtType ==
    ASSUME NEW ls \in Seq(Line), NEW n \in 0..Len(ls)
    PROVE  HeadAt(ls, n) \in GuardHead
<1>1. CASE n = 0
  BY <1>1 DEF HeadAt, GuardHead, Digest, Genesis
<1>2. CASE n # 0
  <2>1. ls[n] \in Line
    BY <1>2
  <2> QED
    BY <1>2, <2>1, DigestOfType DEF HeadAt, GuardHead
<1> QED
  BY <1>1, <1>2

(* Extending a chain file leaves the heads of its prefixes as they were.   *)
LEMMA HeadAtAppend ==
    ASSUME NEW ls \in Seq(Line), NEW r \in Line, NEW n \in 0..Len(ls)
    PROVE  HeadAt(Append(ls, r), n) = HeadAt(ls, n)
  BY DEF HeadAt

(* A prefix of a chain file is a chain file.                               *)
LEMMA SubSeqType ==
    ASSUME NEW ls \in Seq(Line), NEW m \in 0..Len(ls)
    PROVE  /\ SubSeq(ls, 1, m) \in Seq(Line)
           /\ Len(SubSeq(ls, 1, m)) = m
  OBVIOUS

(* Cutting a chain file leaves the heads of what remains as they were.     *)
LEMMA HeadAtSubSeq ==
    ASSUME NEW ls \in Seq(Line), NEW m \in 0..Len(ls), NEW n \in 0..m
    PROVE  HeadAt(SubSeq(ls, 1, m), n) = HeadAt(ls, n)
  BY DEF HeadAt

(* The record made for the head of a chain extends it to a chain.          *)
LEMMA LinearAppend ==
    ASSUME NEW ls \in Seq(Line), Linear(ls), NEW b \in Bodies,
           NEW r \in Line, r = RecordAfter(HeadAt(ls, Len(ls)), b)
    PROVE  Linear(Append(ls, r))
<1> DEFINE new == Append(ls, r)
<1>1. SUFFICES ASSUME NEW i \in 1..Len(new)
               PROVE  new[i].ok /\ new[i].seq = i - 1
                      /\ new[i].prev = HeadAt(new, i - 1).digest
  BY DEF Linear
<1>2. HeadAt(new, i - 1) = HeadAt(ls, i - 1)
  BY <1>1, HeadAtAppend
<1>3. CASE i = Len(ls) + 1
  <2>1. new[i] = r
    BY <1>3
  <2> QED
    BY <1>2, <1>3, <2>1 DEF RecordAfter, HeadAt
<1>4. CASE i # Len(ls) + 1
  <2>1. i \in 1..Len(ls) /\ new[i] = ls[i]
    BY <1>1, <1>4
  <2> HIDE DEF new
  <2> QED
    BY <1>2, <2>1 DEF Linear
<1> QED
  BY <1>3, <1>4

(* A prefix of a chain is a chain.                                         *)
LEMMA LinearSubSeq ==
    ASSUME NEW ls \in Seq(Line), Linear(ls), NEW m \in 0..Len(ls)
    PROVE  Linear(SubSeq(ls, 1, m))
<1> DEFINE cut == SubSeq(ls, 1, m)
<1>1. SUFFICES ASSUME NEW i \in 1..Len(cut)
               PROVE  cut[i].ok /\ cut[i].seq = i - 1
                      /\ cut[i].prev = HeadAt(cut, i - 1).digest
  BY DEF Linear
<1>2. i \in 1..m /\ i \in 1..Len(ls) /\ cut[i] = ls[i]
  BY <1>1
<1>3. HeadAt(cut, i - 1) = HeadAt(ls, i - 1)
  BY <1>2, HeadAtSubSeq
<1> HIDE DEF cut
<1> QED
  BY <1>2, <1>3 DEF Linear

-----------------------------------------------------------------------------
(* The invariant.                                                          *)

LEMMA Head0Type == Head0 \in GuardHead
  BY DEF Head0, GuardHead, Digest, Genesis

LEMMA DownType == Down \in Proc
  BY Head0Type DEF Down, Proc, PCs

(* A process that moves, or refuses, is still a process.                   *)
LEMMA GotoType ==
    ASSUME TypeOK, NEW w \in Writers, NEW pc \in PCs, Goto(w, pc)
    PROVE  proc' \in [Writers -> Proc]
  BY DEF TypeOK, Proc, Goto

LEMMA RefuseType ==
    ASSUME TypeOK, NEW w \in Writers, Refuse(w)
    PROVE  proc' \in [Writers -> Proc]
  BY DEF TypeOK, Proc, Refuse, PCs

LEMMA InitIInv == Init => IInv
<1> SUFFICES ASSUME Init PROVE IInv
  OBVIOUS
<1> USE DEF Init
<1>1. TypeOK
  <2>1. proc \in [Writers -> Proc]
    BY DownType
  <2>2. <<>> \in Seq(Line)
    OBVIOUS
  <2> QED
    BY <2>1, <2>2 DEF TypeOK
<1>2. DiskInv
  BY LogAssumption DEF DiskInv, Linear
<1>3. \A w \in Writers : ProcInv(proc[w])
  BY DEF ProcInv, Down, AppendPCs
<1> QED
  BY <1>1, <1>2, <1>3 DEF IInv

(* Each step keeps the types.                                              *)
LEMMA OpenType ==
    ASSUME TypeOK, NEW w \in Writers, Open(w)
    PROVE  TypeOK'
<1>1. {"up", "openFresh", "openLast", "openIndex"} \subseteq PCs
  BY DEF PCs, OpenPCs
<1>2. CASE OpenHead(w)
  <2>1. CASE headFile \in {Missing, Unreadable}
    <3>1. Refuse(w) \/ Goto(w, "openFresh")
      BY <1>2, <2>1 DEF OpenHead
    <3>2. proc' \in [Writers -> Proc]
      BY <1>1, <3>1, GotoType, RefuseType
    <3> QED
      BY <1>2, <3>2 DEF OpenHead, TypeOK, disk
  <2>2. CASE headFile \notin {Missing, Unreadable}
    BY <1>1, <1>2, <2>2 DEF OpenHead, TypeOK, disk, Proc
  <2> QED
    BY <2>1, <2>2
<1>3. CASE OpenFresh(w)
  <2>1. proc' = [proc EXCEPT ![w].pc = "openIndex", ![w].head = Head0]
    BY <1>3 DEF OpenFresh
  <2>2. proc' \in [Writers -> Proc]
    BY <1>1, <2>1, Head0Type DEF TypeOK, Proc
  <2> QED
    BY <1>3, <2>2, Head0Type DEF OpenFresh, TypeOK
<1>4. CASE OpenLast(w) \/ OpenIndex(w)
  <2>1. Refuse(w) \/ Goto(w, "openIndex") \/ Goto(w, "up")
    BY <1>4 DEF OpenLast, OpenIndex
  <2>2. proc' \in [Writers -> Proc]
    BY <1>1, <2>1, GotoType, RefuseType
  <2> QED
    BY <1>4, <2>2 DEF OpenLast, OpenIndex, TypeOK, disk
<1> QED
  BY <1>2, <1>3, <1>4 DEF Open

LEMMA AppendRecordType ==
    ASSUME TypeOK, NEW w \in Writers, NEW b \in Bodies, AppendRecord(w, b)
    PROVE  TypeOK'
<1> DEFINE r == RecordAfter(proc[w].head, b)
<1> DEFINE next == [seq |-> r.seq + 1, digest |-> DigestOf(r)]
<1>1. r \in Line /\ Written(r) \in Line
  BY DEF TypeOK, Proc, RecordAfter, Line, GuardHead, Written
<1>2. next \in GuardHead
  BY <1>1, DigestOfType DEF GuardHead, Line
<1> HIDE DEF r, next
<1>3. \/ proc' = [proc EXCEPT ![w].pc = "wrote", ![w].next = next]
      \/ Refuse(w)
  BY DEF AppendRecord, r, next
<1>4. proc' \in [Writers -> Proc]
  <2>1. CASE proc' = [proc EXCEPT ![w].pc = "wrote", ![w].next = next]
    <3>1. [proc[w] EXCEPT !.pc = "wrote", !.next = next] \in Proc
      BY <1>2 DEF TypeOK, Proc, PCs, AppendPCs
    <3> QED
      BY <2>1, <3>1 DEF TypeOK
  <2> QED
    BY <1>3, <2>1, RefuseType
<1>5. lines' = Append(lines, Written(r)) \/ lines' = lines
  BY DEF AppendRecord, r
<1>6. lines' \in Seq(Line)
  BY <1>1, <1>5 DEF TypeOK
<1>7. torn' \in BOOLEAN
  BY DEF AppendRecord, TypeOK
<1> QED
  BY <1>4, <1>6, <1>7 DEF TypeOK, AppendRecord

LEMMA ReplaceHeadType ==
    ASSUME TypeOK, NEW w \in Writers, ReplaceHead(w)
    PROVE  TypeOK'
<1>1. {"up", "checked", "tmpWritten", "tmpSynced", "renamed"} \subseteq PCs
  BY DEF PCs, AppendPCs
<1>2. proc[w].next \in GuardHead
  BY DEF TypeOK, Proc
<1>3. CASE CheckHead(w)
  <2>1. proc' \in [Writers -> Proc]
    BY <1>1, <1>3, GotoType, RefuseType DEF CheckHead
  <2> QED
    BY <1>3, <2>1 DEF CheckHead, TypeOK, disk
<1>4. CASE WriteTmp(w)
  <2>1. proc' \in [Writers -> Proc]
    BY <1>1, <1>4, GotoType DEF WriteTmp
  <2> QED
    BY <1>2, <1>4, <2>1 DEF WriteTmp, TypeOK
<1>5. CASE FsyncTmp(w)
  <2>1. proc' \in [Writers -> Proc]
    BY <1>1, <1>5, GotoType DEF FsyncTmp
  <2> QED
    BY <1>5, <2>1 DEF FsyncTmp, TypeOK
<1>6. CASE RenameHead(w)
  <2>1. proc' \in [Writers -> Proc]
    BY <1>1, <1>6, GotoType, RefuseType DEF RenameHead
  <2>2. headFile' \in {tmp, headFile} /\ headMay' \subseteq headMay \cup {tmp, Unreadable}
    BY <1>6 DEF RenameHead
  <2> QED
    BY <1>6, <2>1, <2>2 DEF RenameHead, TypeOK
<1>7. CASE FsyncDir(w)
  <2>1. proc' \in [Writers -> Proc]
    BY <1>1, <1>2, <1>7 DEF FsyncDir, TypeOK, Proc
  <2> QED
    BY <1>2, <1>7, <2>1 DEF FsyncDir, TypeOK, GuardHead
<1> QED
  BY <1>3, <1>4, <1>5, <1>6, <1>7 DEF ReplaceHead

LEMMA PowerLossType == TypeOK /\ PowerLoss => TypeOK'
<1> SUFFICES ASSUME TypeOK, PowerLoss PROVE TypeOK'
  OBVIOUS
<1>1. PICK h \in headMay : headFile' = h /\ headMay' = {h}
  BY DEF PowerLoss
<1>2. lines' \in Seq(Line)
  <2>1. \/ lines' = <<>>
        \/ \E n \in synced..Len(lines) : lines' = SubSeq(lines, 1, n)
    BY DEF PowerLoss
  <2>2. ASSUME NEW n \in synced..Len(lines), lines' = SubSeq(lines, 1, n)
        PROVE  lines' \in Seq(Line)
    <3>1. n \in 0..Len(lines) /\ lines \in Seq(Line)
      BY DEF TypeOK
    <3> QED
      BY <2>2, <3>1, SubSeqType
  <2>3. <<>> \in Seq(Line)
    OBVIOUS
  <2> QED
    BY <2>1, <2>2, <2>3
<1>3. torn' \in BOOLEAN
  BY DEF PowerLoss, TypeOK
<1>4. synced' \in Nat
  BY DEF PowerLoss, TypeOK
<1>5. linked' \in BOOLEAN
  BY DEF PowerLoss, TypeOK
<1>6. proc' \in [Writers -> Proc]
  BY DownType DEF PowerLoss
<1> QED
  BY <1>1, <1>2, <1>3, <1>4, <1>5, <1>6 DEF TypeOK, PowerLoss

LEMMA NextType == TypeOK /\ [Next]_vars => TypeOK'
<1> SUFFICES ASSUME TypeOK, [Next]_vars PROVE TypeOK'
  OBVIOUS
<1>1. "synced" \in PCs /\ "up" \in PCs
  BY DEF PCs, AppendPCs
<1>2. ASSUME NEW w \in Writers, FsyncChain(w) PROVE TypeOK'
  <2>1. proc' \in [Writers -> Proc]
    BY <1>1, <1>2, GotoType DEF FsyncChain
  <2> QED
    BY <1>2, <2>1 DEF TypeOK, FsyncChain
<1>3. ASSUME NEW w \in Writers, CallFails(w) PROVE TypeOK'
  <2>1. proc' \in [Writers -> Proc]
    BY <1>3, RefuseType DEF CallFails
  <2>2. tmp' \in {tmp, Unreadable} /\ tmpSynced' \in BOOLEAN
    BY <1>3 DEF CallFails, TypeOK
  <2>3. headFile' \in {headFile, Unreadable} /\ headMay' \subseteq headMay \cup {headFile, Unreadable}
    BY <1>3 DEF CallFails
  <2> QED
    BY <1>3, <2>1, <2>2, <2>3 DEF TypeOK, CallFails
<1>4. ASSUME NEW w \in Writers, Kill(w) PROVE TypeOK'
  <2>1. proc' \in [Writers -> Proc]
    BY <1>4, DownType DEF Kill, TypeOK
  <2> QED
    BY <1>4, <2>1 DEF TypeOK, Kill, disk
<1>5. CASE UNCHANGED vars
  BY <1>5 DEF TypeOK, vars, disk
<1> QED
  BY <1>2, <1>3, <1>4, <1>5, OpenType, AppendRecordType, ReplaceHeadType, PowerLossType
     DEF Next

(* Every variable keeps its type, whatever the number of writers and       *)
(* whichever calls fail or stop short.                                     *)
THEOREM TypeCorrect == Spec => []TypeOK
<1>1. Init => TypeOK
  BY InitIInv DEF IInv
<1> QED
  BY <1>1, NextType, PTL DEF Spec

-----------------------------------------------------------------------------
(* What a step does to the memory of the process that takes it.            *)
LEMMA GotoAt ==
    ASSUME TypeOK, NEW w \in Writers, NEW pc, Goto(w, pc)
    PROVE  /\ proc'[w].pc = pc
           /\ proc'[w].head = proc[w].head
           /\ proc'[w].next = proc[w].next
           /\ proc'[w].failure = proc[w].failure
  BY DEF TypeOK, Proc, Goto

LEMMA RefuseAt ==
    ASSUME TypeOK, NEW w \in Writers, Refuse(w)
    PROVE  proc'[w].pc = "up" /\ proc'[w].failure
  BY DEF TypeOK, Proc, Refuse

(* A process that refuses is bound by nothing until it is restarted.       *)
LEMMA RefusedProc ==
    ASSUME TypeOK, NEW w \in Writers, Refuse(w)
    PROVE  ProcInv(proc[w])'
  BY RefuseAt DEF ProcInv, AppendPCs

LEMMA DiskUnchanged ==
    ASSUME DiskInv, UNCHANGED <<disk, acked>>
    PROVE  DiskInv'
  BY DEF DiskInv, disk

LEMMA OpenStep ==
    ASSUME SoleWriter, IInv, NEW w \in Writers, Open(w)
    PROVE  DiskInv' /\ ProcInv(proc[w])'
<1> USE DEF IInv
<1>1. CASE OpenHead(w)
  <2>1. DiskInv'
    BY <1>1, DiskUnchanged DEF OpenHead
  <2>2. CASE Refuse(w)
    BY <2>1, <2>2, RefusedProc
  <2>3. CASE headFile = Missing /\ lines = <<>> /\ ~torn /\ Goto(w, "openFresh")
    <3>1. proc'[w].pc = "openFresh"
      BY <2>3, GotoAt
    <3> QED
      BY <1>1, <2>1, <2>3, <3>1 DEF ProcInv, AppendPCs, OpenHead, disk
  <2>4. CASE proc' = [proc EXCEPT ![w].pc = "openLast", ![w].head = headFile]
    <3>1. proc'[w].pc = "openLast" /\ proc'[w].head = headFile
      BY <2>4 DEF TypeOK, Proc
    <3> QED
      BY <1>1, <2>1, <3>1 DEF ProcInv, AppendPCs, OpenHead, disk
  <2> QED
    BY <1>1, <2>2, <2>3, <2>4 DEF OpenHead
<1>2. CASE OpenFresh(w)
  <2>1. /\ headFile = Missing /\ lines = <<>> /\ ~torn
        /\ headFile' = Head0 /\ headMay' = (headMay \cap {Missing}) \cup {Head0}
        /\ proc' = [proc EXCEPT ![w].pc = "openIndex", ![w].head = Head0]
    BY <1>2 DEF OpenFresh, ProcInv, At, SoleWriter
  <2>2. proc'[w].pc = "openIndex" /\ proc'[w].head = headFile'
    BY <2>1 DEF TypeOK, Proc
  <2>3. ProcInv(proc[w])'
    BY <2>2 DEF ProcInv, AppendPCs
  <2>4. acked = 0
    BY <2>1, LogAssumption DEF DiskInv, TypeOK
  <2>5. DiskInv'
    BY <1>2, <2>1, <2>4, Head0Type, LogAssumption
       DEF OpenFresh, DiskInv, Linear, Head0, HeadAt, TypeOK
  <2> QED
    BY <2>3, <2>5
<1>3. CASE OpenLast(w)
  <2>1. DiskInv'
    BY <1>3, DiskUnchanged DEF OpenLast
  <2>2. CASE Goto(w, "openIndex")
    <3>1. proc'[w].pc = "openIndex" /\ proc'[w].head = proc[w].head
      BY <2>2, GotoAt
    <3> QED
      BY <1>3, <2>1, <3>1 DEF ProcInv, AppendPCs, OpenLast, At, disk
  <2> QED
    BY <1>3, <2>1, <2>2, RefusedProc DEF OpenLast
<1>4. CASE OpenIndex(w)
  <2>1. DiskInv'
    BY <1>4, DiskUnchanged DEF OpenIndex
  <2>2. CASE Goto(w, "up") /\ ~torn /\ Len(lines) = proc[w].head.seq
    <3>1. proc'[w].pc = "up" /\ proc'[w].head = proc[w].head
      BY <2>2, GotoAt
    <3> QED
      BY <1>4, <2>1, <2>2, <3>1 DEF ProcInv, AppendPCs, OpenIndex, At, disk
  <2> QED
    BY <1>4, <2>1, <2>2, RefusedProc DEF OpenIndex
<1> QED
  BY <1>1, <1>2, <1>3, <1>4 DEF Open

LEMMA AppendRecordStep ==
    ASSUME SoleWriter, IInv, NEW w \in Writers, NEW b \in Bodies, AppendRecord(w, b)
    PROVE  DiskInv' /\ ProcInv(proc[w])'
<1> USE DEF IInv
<1> DEFINE p == proc[w]
<1> DEFINE r == RecordAfter(p.head, b)
<1>1. p.pc = "up" /\ ~p.failure /\ p \in Proc
  BY DEF AppendRecord, At, TypeOK
<1>2. headFile = p.head /\ Len(lines) = p.head.seq /\ ~torn /\ p.head \in GuardHead
  BY <1>1 DEF ProcInv, Proc
<1>3. p.head = HeadAt(lines, Len(lines))
  BY <1>2 DEF DiskInv
<1>4. r \in Line /\ Written(r) = r
  BY <1>1, <1>2 DEF RecordAfter, Line, Proc, GuardHead, Written
<1>5. CASE lines' = Append(lines, Written(r)) /\ torn' = FALSE
           /\ proc' = [proc EXCEPT ![w].pc = "wrote",
                                   ![w].next = [seq |-> r.seq + 1, digest |-> DigestOf(r)]]
  <2>1. lines \in Seq(Line) /\ lines' = Append(lines, r) /\ Len(lines') = Len(lines) + 1
    BY <1>4, <1>5 DEF TypeOK
  <2>2. Linear(lines')
    BY <1>3, <1>4, <2>1, LinearAppend DEF DiskInv
  <2>3. ASSUME NEW h \in headMay \cap GuardHead
        PROVE  h.seq <= synced /\ h = HeadAt(lines', h.seq)
    <3>1. h.seq <= synced /\ h = HeadAt(lines, h.seq) /\ h.seq \in 0..Len(lines)
      BY DEF DiskInv, GuardHead, TypeOK
    <3> QED
      BY <1>4, <2>1, <3>1, HeadAtAppend
  <2>4. UNCHANGED <<synced, linked, headFile, headMay, acked>>
    BY DEF AppendRecord
  <2> Len(lines') <= MaxLines
    BY <2>1, LogAssumption DEF AppendRecord
  <2>5. DiskInv'
    BY <2>1, <2>2, <2>3, <2>4 DEF DiskInv, TypeOK
  <2>6. /\ proc'[w].pc = "wrote" /\ proc'[w].head = p.head
        /\ proc'[w].next = [seq |-> r.seq + 1, digest |-> DigestOf(r)]
    BY <1>5 DEF TypeOK, Proc
  <2>7. r.seq + 1 = Len(lines') /\ lines'[Len(lines')] = r /\ Len(lines') # 0
    BY <1>2, <2>1, <1>4 DEF RecordAfter, Line
  <2>8. proc'[w].next = HeadAt(lines', Len(lines'))
    BY <2>6, <2>7 DEF HeadAt
  <2>9. ProcInv(proc[w])'
    BY <1>2, <1>5, <2>1, <2>4, <2>6, <2>8 DEF ProcInv, AppendPCs
  <2> QED
    BY <2>5, <2>9
<1>6. CASE Refuse(w) /\ UNCHANGED lines
  <2>1. DiskInv'
    BY <1>6 DEF AppendRecord, DiskInv
  <2> QED
    BY <1>6, <2>1, RefusedProc
<1> QED
  BY <1>5, <1>6 DEF AppendRecord, SoleWriter

LEMMA FsyncChainStep ==
    ASSUME SoleWriter, IInv, NEW w \in Writers, FsyncChain(w)
    PROVE  DiskInv' /\ ProcInv(proc[w])'
<1> USE DEF IInv
<1>1. proc'[w].pc = "synced" /\ proc'[w].head = proc[w].head /\ proc'[w].next = proc[w].next
  BY GotoAt DEF FsyncChain
<1>2. ProcInv(proc[w])'
  BY <1>1 DEF FsyncChain, At, ProcInv, AppendPCs
<1>3. DiskInv'
  BY DEF FsyncChain, DiskInv, TypeOK, GuardHead
<1> QED
  BY <1>2, <1>3

LEMMA ReplaceHeadStep ==
    ASSUME SoleWriter, IInv, NEW w \in Writers, ReplaceHead(w)
    PROVE  DiskInv' /\ ProcInv(proc[w])'
<1> USE DEF IInv
<1>1. CASE CheckHead(w)
  <2>1. DiskInv'
    BY <1>1, DiskUnchanged DEF CheckHead
  <2>2. CASE Goto(w, "checked")
    <3>1. /\ proc'[w].pc = "checked"
          /\ proc'[w].head = proc[w].head /\ proc'[w].next = proc[w].next
      BY <2>2, GotoAt
    <3> QED
      BY <1>1, <2>1, <3>1 DEF CheckHead, At, disk, ProcInv, AppendPCs
  <2> QED
    BY <1>1, <2>1, <2>2, RefusedProc DEF CheckHead
<1>2. CASE WriteTmp(w)
  <2>1. /\ proc'[w].pc = "tmpWritten"
        /\ proc'[w].head = proc[w].head /\ proc'[w].next = proc[w].next
        /\ tmp' = proc'[w].next
    BY <1>2, GotoAt DEF WriteTmp, SoleWriter
  <2>2. ProcInv(proc[w])'
    BY <1>2, <2>1 DEF WriteTmp, At, ProcInv, AppendPCs
  <2>3. DiskInv'
    BY <1>2 DEF WriteTmp, DiskInv
  <2> QED
    BY <2>2, <2>3
<1>3. CASE FsyncTmp(w)
  <2>1. /\ proc'[w].pc = "tmpSynced"
        /\ proc'[w].head = proc[w].head /\ proc'[w].next = proc[w].next
    BY <1>3, GotoAt DEF FsyncTmp
  <2>2. tmp = proc[w].next /\ proc[w].next \in GuardHead
    BY <1>3 DEF FsyncTmp, At, ProcInv, TypeOK, Proc
  <2>3. tmpSynced'
    BY <1>3, <2>2, LogAssumption DEF FsyncTmp
  <2>4. ProcInv(proc[w])'
    BY <1>3, <2>1, <2>2, <2>3 DEF FsyncTmp, At, ProcInv, AppendPCs
  <2>5. DiskInv'
    BY <1>3 DEF FsyncTmp, DiskInv
  <2> QED
    BY <2>4, <2>5
<1>4. CASE RenameHead(w)
  <2> DEFINE next == proc[w].next
  <2>1. /\ tmp = next /\ tmpSynced /\ ~torn
        /\ next = HeadAt(lines, Len(lines))
        /\ headFile = proc[w].head /\ Len(lines) = proc[w].head.seq + 1
        /\ synced = Len(lines)
    BY <1>4 DEF RenameHead, At, ProcInv, AppendPCs
  <2>2. next \in GuardHead /\ proc[w].head \in GuardHead /\ next.seq = Len(lines)
    BY <2>1 DEF TypeOK, Proc, HeadAt
  <2>3. headFile' = next /\ headMay' = headMay \cup {next} /\ Goto(w, "renamed")
    BY <1>4, <2>1, <2>2, LogAssumption DEF RenameHead
  <2>4. /\ proc'[w].pc = "renamed"
        /\ proc'[w].head = proc[w].head /\ proc'[w].next = next
    BY <2>3, GotoAt
  <2>5. UNCHANGED <<lines, torn, synced, linked, acked>>
    BY <1>4 DEF RenameHead
  <2>6. ProcInv(proc[w])'
    BY <2>1, <2>3, <2>4, <2>5 DEF ProcInv, AppendPCs
  <2> HIDE DEF next
  <2>7. ASSUME NEW h \in headMay' \cap GuardHead
        PROVE  h.seq <= synced /\ h = HeadAt(lines, h.seq) /\ h.seq <= next.seq
    BY <2>1, <2>2, <2>3 DEF DiskInv, TypeOK, GuardHead
  <2>8. acked > 0 => linked /\ \A h \in headMay' : h \in GuardHead /\ acked <= h.seq
    BY <2>1, <2>2, <2>3 DEF DiskInv, TypeOK, GuardHead
  <2>9. DiskInv'
    BY <2>2, <2>3, <2>5, <2>7, <2>8 DEF DiskInv
  <2> QED
    BY <2>6, <2>9
<1>5. CASE FsyncDir(w)
  <2> DEFINE next == proc[w].next
  <2>1. /\ headFile = next /\ ~torn
        /\ next = HeadAt(lines, Len(lines)) /\ synced = Len(lines)
    BY <1>5 DEF FsyncDir, At, ProcInv, AppendPCs
  <2>2. next \in GuardHead /\ next.seq = Len(lines)
    BY <2>1 DEF TypeOK, Proc, HeadAt
  <2>3. headMay' = {next} /\ headFile' = next /\ linked' = TRUE
    BY <1>5, <2>1 DEF FsyncDir
  <2>4. proc'[w].pc = "up" /\ proc'[w].head = next
    BY <1>5 DEF FsyncDir, TypeOK, Proc
  <2>5. UNCHANGED <<lines, torn, synced>>
    BY <1>5 DEF FsyncDir
  <2>6. ProcInv(proc[w])'
    BY <2>1, <2>2, <2>3, <2>4, <2>5 DEF ProcInv, AppendPCs
  <2>7. acked' <= next.seq
    <3>1. next \in headMay
      BY <2>1 DEF DiskInv
    <3>2. acked > 0 => acked <= next.seq
      BY <3>1 DEF DiskInv
    <3> QED
      BY <1>5, <2>2, <3>2 DEF FsyncDir, TypeOK, GuardHead
  <2> HIDE DEF next
  <2>8. DiskInv'
    BY <2>1, <2>2, <2>3, <2>5, <2>7 DEF DiskInv, GuardHead
  <2> QED
    BY <2>6, <2>8
<1> QED
  BY <1>1, <1>2, <1>3, <1>4, <1>5 DEF ReplaceHead

LEMMA CallFailsStep ==
    ASSUME IInv, NEW w \in Writers, CallFails(w)
    PROVE  DiskInv' /\ ProcInv(proc[w])'
<1> USE DEF IInv
<1>1. ProcInv(proc[w])'
  BY RefusedProc DEF CallFails
<1>2. UNCHANGED <<lines, torn, synced, linked, acked>>
  BY DEF CallFails
<1>3. CASE UNCHANGED <<headFile, headMay>>
  BY <1>1, <1>2, <1>3 DEF DiskInv
<1>4. CASE At(w, "openFresh") /\ headFile' \in {headFile, Unreadable}
           /\ headMay' = headMay \cup {headFile'}
  <2>1. headFile = Missing
    BY <1>4 DEF At, ProcInv
  <2>2. headMay \cap GuardHead = {} /\ acked = 0
    BY <2>1, LogAssumption DEF DiskInv, TypeOK
  <2>3. headMay' \cap GuardHead = {}
    BY <1>4, <2>1, <2>2, LogAssumption
  <2>4. DiskInv'
    BY <1>2, <1>4, <2>2, <2>3 DEF DiskInv
  <2> QED
    BY <1>1, <2>4
<1> QED
  BY <1>3, <1>4 DEF CallFails

LEMMA KillStep ==
    ASSUME IInv, NEW w \in Writers, Kill(w)
    PROVE  DiskInv' /\ ProcInv(proc[w])'
<1>1. proc'[w] = Down
  BY DEF Kill, IInv, TypeOK
<1>2. ProcInv(proc[w])'
  BY <1>1 DEF ProcInv, Down, AppendPCs
<1> QED
  BY <1>2, DiskUnchanged DEF Kill, IInv

LEMMA PowerLossStep ==
    ASSUME IInv, PowerLoss
    PROVE  DiskInv' /\ \A w \in Writers : ProcInv(proc[w])'
<1> USE DEF IInv
<1>1. ASSUME NEW w \in Writers PROVE ProcInv(proc[w])'
  <2>1. proc'[w] = Down
    BY DEF PowerLoss
  <2> QED
    BY <2>1 DEF ProcInv, Down, AppendPCs
<1>2. PICK h \in headMay :
        /\ headFile' = h
        /\ headMay' = {h}
        /\ \/ /\ \E n \in synced..Len(lines) : lines' = SubSeq(lines, 1, n) /\ synced' = n
              /\ linked' = TRUE
           \/ /\ ~linked
              /\ h \in {Missing, Unreadable, Head0}
              /\ lines' = <<>> /\ synced' = 0
  BY DEF PowerLoss
<1>3. acked' = acked
  BY DEF PowerLoss
<1>4. CASE linked' = TRUE /\ \E n \in synced..Len(lines) :
              lines' = SubSeq(lines, 1, n) /\ synced' = n
  <2>1. PICK n \in synced..Len(lines) : lines' = SubSeq(lines, 1, n) /\ synced' = n
    BY <1>4
  <2>2. n \in 0..Len(lines) /\ lines \in Seq(Line) /\ Len(lines') = n
    BY <2>1, SubSeqType DEF TypeOK
  <2>3. Linear(lines')
    BY <2>1, <2>2, LinearSubSeq DEF DiskInv
  <2>4. h \in GuardHead => h.seq <= n /\ h = HeadAt(lines', h.seq)
    <3>1. SUFFICES ASSUME h \in GuardHead
                   PROVE  h.seq <= n /\ h = HeadAt(lines', h.seq)
      OBVIOUS
    <3>2. h.seq <= synced /\ h = HeadAt(lines, h.seq) /\ h.seq \in 0..n
      BY <2>1, <2>2, <3>1 DEF DiskInv, GuardHead, TypeOK
    <3> QED
      BY <2>1, <2>2, <3>2, HeadAtSubSeq
  <2> Len(lines') <= MaxLines
    BY <2>2, LogAssumption DEF DiskInv
  <2>5. DiskInv'
    BY <1>2, <1>3, <1>4, <2>1, <2>2, <2>3, <2>4 DEF DiskInv, GuardHead
  <2> QED
    BY <1>1, <2>5
<1>5. CASE ~linked /\ h \in {Missing, Unreadable, Head0} /\ lines' = <<>> /\ synced' = 0
  <2>1. acked' = 0
    BY <1>3, <1>5 DEF DiskInv, TypeOK
  <2>2. Linear(lines') /\ Len(lines') = 0
    BY <1>5 DEF Linear
  <2>3. h \in GuardHead => h = Head0 /\ h.seq = 0 /\ h = HeadAt(lines', 0)
    BY <1>5, LogAssumption DEF Head0, HeadAt
  <2>4. DiskInv'
    BY <1>2, <1>5, <2>1, <2>2, <2>3, LogAssumption DEF DiskInv
  <2> QED
    BY <1>1, <2>4
<1> QED
  BY <1>2, <1>4, <1>5

LEMMA NextIInv ==
    ASSUME SoleWriter
    PROVE  IInv /\ [Next]_vars => IInv'
<1> SUFFICES ASSUME IInv, [Next]_vars PROVE IInv'
  OBVIOUS
<1>1. TypeOK'
  BY NextType DEF IInv
<1>2. ASSUME NEW w \in Writers, DiskInv' /\ ProcInv(proc[w])' PROVE IInv'
  BY <1>1, <1>2 DEF IInv, SoleWriter
<1>3. CASE PowerLoss
  BY <1>1, <1>3, PowerLossStep DEF IInv
<1>4. CASE UNCHANGED vars
  BY <1>1, <1>4 DEF IInv, vars, disk, DiskInv, ProcInv
<1>5. CASE \E w \in Writers : Open(w) \/ (\E b \in Bodies : AppendRecord(w, b)) \/ FsyncChain(w)
  BY <1>2, <1>5, OpenStep, AppendRecordStep, FsyncChainStep
<1>6. CASE \E w \in Writers : ReplaceHead(w) \/ CallFails(w) \/ Kill(w)
  BY <1>2, <1>6, ReplaceHeadStep, CallFailsStep, KillStep
<1> QED
  BY <1>3, <1>4, <1>5, <1>6 DEF Next

(* The invariant holds in every state of a log with one writer.            *)
THEOREM Invariance == ASSUME SoleWriter PROVE Spec => []IInv
<1>1. IInv /\ [Next]_vars => IInv'
  BY NextIInv
<1> QED
  BY <1>1, InitIInv, PTL DEF Spec

(* The chain file of a sole writer is one linked chain at every moment,    *)
(* through refused calls, kills and power losses.                          *)
THEOREM ChainStaysLinear == ASSUME SoleWriter PROVE Spec => []ChainLinear
<1>1. IInv => ChainLinear
  BY DEF IInv, DiskInv, ChainLinear
<1> QED
  BY <1>1, Invariance, PTL

(* A record is durable before any head that counts it can be found.        *)
THEOREM HeadAlwaysNamesDurable == ASSUME SoleWriter PROVE Spec => []HeadNamesDurable
<1>1. IInv => HeadNamesDurable
  BY DEF IInv, TypeOK, DiskInv, HeadNamesDurable
<1> QED
  BY <1>1, Invariance, PTL

(* A record whose append returned is on disk, under every head a power     *)
(* loss could bring back.                                                  *)
THEOREM AckedAlwaysSurvives == ASSUME SoleWriter PROVE Spec => []AckedSurvives
<1>1. ASSUME IInv PROVE AckedSurvives
  <2>1. headFile \in headMay /\ synced \in Nat /\ acked \in Nat /\ synced <= Len(lines)
    BY <1>1 DEF IInv, TypeOK, DiskInv
  <2>2. ASSUME NEW h \in headMay, acked > 0
        PROVE  linked /\ h \notin {Missing, Unreadable} /\ acked <= h.seq /\ h.seq <= synced
    BY <1>1, <2>2, LogAssumption DEF IInv, DiskInv
  <2>3. acked <= synced
    <3>1. CASE acked > 0
      <4>1. headFile \in GuardHead /\ acked <= headFile.seq /\ headFile.seq <= synced
        BY <1>1, <2>1, <3>1 DEF IInv, DiskInv
      <4> QED
        BY <2>1, <4>1 DEF GuardHead
    <3> QED
      BY <2>1, <3>1
  <2> QED
    BY <2>1, <2>2, <2>3 DEF AckedSurvives
<1> QED
  BY <1>1, Invariance, PTL

(* A process that accepts appends agrees with the disk about the whole     *)
(* chain.                                                                  *)
THEOREM AcceptingAlwaysAgrees == ASSUME SoleWriter PROVE Spec => []AcceptingAgrees
<1>1. ASSUME IInv, NEW w \in Writers, At(w, "up") /\ ~proc[w].failure
      PROVE  proc[w].head = headFile /\ proc[w].head = HeadAt(lines, Len(lines)) /\ ~torn
  <2>1. headFile = proc[w].head /\ Len(lines) = proc[w].head.seq /\ ~torn
    BY <1>1 DEF IInv, ProcInv, At
  <2>2. headFile \in headMay \cap GuardHead
    BY <1>1, <2>1 DEF IInv, DiskInv, TypeOK, Proc
  <2>3. headFile = HeadAt(lines, headFile.seq)
    BY <1>1, <2>2 DEF IInv, DiskInv
  <2> QED
    BY <2>1, <2>3
<1>2. IInv => AcceptingAgrees
  BY <1>1 DEF AcceptingAgrees
<1> QED
  BY <1>2, Invariance, PTL

(* No step rewrites or drops a line whose append has returned.             *)
THEOREM AlwaysAppendOnly == ASSUME SoleWriter PROVE Spec => AppendOnly
<1> DEFINE Kept == acked <= Len(lines') /\ \A i \in 1..acked : lines'[i] = lines[i]
<1>1. ASSUME IInv, [Next]_vars PROVE Kept \/ UNCHANGED vars
  <2>1. lines \in Seq(Line) /\ acked \in Nat /\ synced \in Nat
    BY <1>1 DEF IInv, TypeOK
  <2>2. acked <= synced /\ synced <= Len(lines) /\ (acked > 0 => linked)
    <3>1. CASE acked > 0
      <4>1. headFile \in headMay \cap GuardHead /\ acked <= headFile.seq /\ headFile.seq <= synced
        BY <1>1, <3>1 DEF IInv, DiskInv
      <4> QED
        BY <1>1, <2>1, <4>1 DEF IInv, DiskInv, GuardHead
    <3> QED
      BY <1>1, <2>1, <3>1 DEF IInv, DiskInv
  <2>3. CASE UNCHANGED lines
    BY <2>1, <2>2, <2>3
  <2>4. ASSUME NEW r, lines' = Append(lines, r) PROVE Kept
    BY <2>1, <2>2, <2>4
  <2>5. CASE PowerLoss
    <3>1. ASSUME NEW n \in synced..Len(lines), lines' = SubSeq(lines, 1, n) PROVE Kept
      BY <2>1, <2>2, <3>1
    <3>2. CASE ~linked /\ lines' = <<>>
      BY <2>1, <2>2, <3>2
    <3> QED
      BY <2>5, <3>1, <3>2 DEF PowerLoss
  <2>6. CASE \E w \in Writers, b \in Bodies : AppendRecord(w, b)
    BY <2>3, <2>4, <2>6 DEF AppendRecord
  <2> QED
    BY <1>1, <2>3, <2>5, <2>6
       DEF Next, vars, disk, Open, OpenHead, OpenFresh, OpenLast, OpenIndex, FsyncChain,
           ReplaceHead, CheckHead, WriteTmp, FsyncTmp, RenameHead, FsyncDir, CallFails, Kill
<1> QED
  BY <1>1, Invariance, PTL DEF Spec, AppendOnly

-----------------------------------------------------------------------------
(* The refinement.                                                         *)

(* The mapping: the lines the head on disk counts.                         *)
Counted ==
    IF headFile \in {Missing, Unreadable} THEN <<>> ELSE SubSeq(lines, 1, headFile.seq)

LEMMA CountedFacts ==
    ASSUME IInv
    PROVE  /\ lines \in Seq(Line)
           /\ headFile \in GuardHead =>
                 /\ headFile.seq \in 0..Len(lines)
                 /\ Counted = SubSeq(lines, 1, headFile.seq)
                 /\ Len(Counted) = headFile.seq
           /\ headFile \notin GuardHead => Counted = <<>> /\ acked = 0
           /\ acked <= Len(Counted)
<1> USE DEF IInv
<1>1. lines \in Seq(Line) /\ headFile \in headMay /\ acked \in Nat /\ synced \in Nat
  BY DEF TypeOK, DiskInv
<1>2. CASE headFile \in GuardHead
  <2>1. headFile.seq \in 0..Len(lines)
    BY <1>1, <1>2 DEF DiskInv, GuardHead
  <2>2. Counted = SubSeq(lines, 1, headFile.seq)
    BY <1>2, LogAssumption DEF Counted
  <2>3. Len(Counted) = headFile.seq
    BY <1>1, <2>1, <2>2
  <2>4. acked > 0 => acked <= headFile.seq
    BY <1>1 DEF DiskInv
  <2>5. acked <= Len(Counted)
    BY <1>1, <2>1, <2>3, <2>4
  <2> QED
    BY <1>1, <1>2, <2>1, <2>2, <2>3, <2>5
<1>3. CASE headFile \notin GuardHead
  <2>1. Counted = <<>> /\ acked = 0
    BY <1>1, <1>3 DEF Counted, TypeOK, DiskInv
  <2> QED
    BY <1>1, <1>3, <2>1
<1> QED
  BY <1>2, <1>3

(* A step that leaves the head alone and does not cut the chain file below *)
(* it is a stutter of the chain.                                           *)
LEMMA CountedKept ==
    ASSUME IInv, UNCHANGED headFile,
           lines' = lines \/ \E r \in Line : lines' = Append(lines, r)
    PROVE  Counted' = Counted
<1>1. CASE headFile \in GuardHead
  <2>1. lines \in Seq(Line) /\ headFile.seq \in 0..Len(lines)
    BY <1>1, CountedFacts
  <2>2. ASSUME NEW r \in Line
        PROVE SubSeq(Append(lines, r), 1, headFile.seq) = SubSeq(lines, 1, headFile.seq)
    BY <2>1
  <2> QED
    BY <2>2 DEF Counted
<1>2. CASE headFile \notin GuardHead
  BY <1>2 DEF Counted, IInv, TypeOK
<1> QED
  BY <1>1, <1>2

(* The rename is where the chain grows, by the record for its head.        *)
LEMMA RenameCommits ==
    ASSUME SoleWriter, IInv, NEW w \in Writers, RenameHead(w)
    PROVE  \E b \in Bodies :
              /\ Len(Counted) < MaxLines
              /\ Counted' = Append(Counted, RecordAfter(HeadAt(Counted, Len(Counted)), b))
<1> DEFINE n == proc[w].head.seq
<1>1. /\ tmp = proc[w].next /\ tmpSynced
      /\ proc[w].next = HeadAt(lines, Len(lines))
      /\ headFile = proc[w].head /\ Len(lines) = n + 1
  BY DEF RenameHead, At, IInv, ProcInv, AppendPCs
<1>2. proc[w].next \in GuardHead /\ headFile \in GuardHead /\ n \in Nat
  BY <1>1 DEF IInv, TypeOK, Proc, GuardHead
<1>3. headFile' = proc[w].next /\ lines' = lines
  BY <1>1, <1>2, LogAssumption DEF RenameHead
<1>4. Counted' = SubSeq(lines, 1, n + 1)
  BY <1>1, <1>2, <1>3, LogAssumption DEF Counted, HeadAt
<1>5. lines \in Seq(Line) /\ Counted = SubSeq(lines, 1, n) /\ Len(Counted) = n
  BY <1>1, <1>2, CountedFacts
<1>6. lines[n + 1] \in Line
  BY <1>1, <1>2, <1>5
<1>7. /\ lines[n + 1].ok /\ lines[n + 1].seq = n
      /\ lines[n + 1].prev = HeadAt(lines, n).digest
  BY <1>1, <1>2 DEF IInv, DiskInv, Linear
<1>8. HeadAt(Counted, n) = HeadAt(lines, n)
  BY <1>1, <1>2, <1>5, HeadAtSubSeq
<1> HIDE DEF n
<1>9. lines[n + 1] = RecordAfter(HeadAt(Counted, n), lines[n + 1].body)
  BY <1>6, <1>7, <1>8 DEF Line, RecordAfter, HeadAt
<1>10. SubSeq(lines, 1, n + 1) = Append(SubSeq(lines, 1, n), lines[n + 1])
  BY <1>1, <1>2, <1>5
<1>11. Len(Counted) < MaxLines
  BY <1>1, <1>2, <1>5, LogAssumption DEF IInv, DiskInv
<1>12. lines[n + 1].body \in Bodies
  BY <1>6 DEF Line
<1> QED
  BY <1>4, <1>5, <1>9, <1>10, <1>11, <1>12

(* A power loss takes back only records no append had returned for.        *)
LEMMA PowerLossLoses ==
    ASSUME IInv, PowerLoss
    PROVE  \E n \in acked..Len(Counted) : Counted' = SubSeq(Counted, 1, n)
<1>1. PICK h \in headMay :
        /\ headFile' = h
        /\ \/ \E n \in synced..Len(lines) : lines' = SubSeq(lines, 1, n)
           \/ h \in {Missing, Unreadable, Head0} /\ ~linked /\ lines' = <<>>
  BY DEF PowerLoss
<1>2. lines \in Seq(Line) /\ acked \in Nat /\ synced \in Nat
  BY DEF IInv, TypeOK
<1>3. CASE h \notin GuardHead
  <2>1. Counted' = <<>>
    BY <1>1, <1>3 DEF Counted, IInv, TypeOK
  <2>2. acked = 0
    BY <1>2, <1>3 DEF IInv, DiskInv
  <2>3. Len(Counted) \in Nat /\ Counted \in Seq(Line)
    BY <1>2, CountedFacts, SubSeqType DEF Counted, IInv, TypeOK
  <2>4. SubSeq(Counted, 1, 0) = <<>> /\ 0 \in acked..Len(Counted)
    BY <2>2, <2>3
  <2> QED
    BY <2>1, <2>4
<1>4. CASE h \in GuardHead
  <2>1. /\ h.seq \in Nat /\ h.seq <= synced /\ synced <= Len(lines)
        /\ headFile \in GuardHead /\ h.seq <= headFile.seq
        /\ acked <= h.seq
    BY <1>2, <1>4 DEF IInv, DiskInv, GuardHead
  <2>2. /\ headFile.seq \in 0..Len(lines)
        /\ Counted = SubSeq(lines, 1, headFile.seq) /\ Len(Counted) = headFile.seq
    BY <2>1, CountedFacts
  <2>3. Counted' = SubSeq(lines', 1, h.seq)
    BY <1>1, <1>4, LogAssumption DEF Counted
  <2>4. SubSeq(lines', 1, h.seq) = SubSeq(lines, 1, h.seq)
    <3>1. ASSUME NEW n \in synced..Len(lines), lines' = SubSeq(lines, 1, n)
          PROVE  SubSeq(lines', 1, h.seq) = SubSeq(lines, 1, h.seq)
      BY <1>2, <2>1, <3>1
    <3>2. ASSUME h = Head0, lines' = <<>>
          PROVE  SubSeq(lines', 1, h.seq) = SubSeq(lines, 1, h.seq)
      BY <1>2, <3>2 DEF Head0
    <3> QED
      BY <1>1, <1>4, <3>1, <3>2, LogAssumption
  <2>5. SubSeq(Counted, 1, h.seq) = SubSeq(lines, 1, h.seq)
    BY <1>2, <2>1, <2>2
  <2>6. h.seq \in acked..Len(Counted)
    BY <1>2, <2>1, <2>2
  <2> QED
    BY <2>3, <2>4, <2>5, <2>6
<1> QED
  BY <1>3, <1>4

LEMMA InitCounted == Init => Chain!Init
  BY DEF Init, Chain!Init

LEMMA StepImplements ==
    ASSUME SoleWriter, IInv, [Next]_vars
    PROVE  [Chain!Next]_(Chain!vars)
<1> DEFINE Stutter == UNCHANGED <<Counted, acked>>
<1>1. ASSUME Stutter PROVE UNCHANGED Chain!vars
  BY <1>1 DEF Counted, Chain!vars
<1>2. CASE UNCHANGED vars
  BY <1>1, <1>2 DEF vars, disk, Counted
<1>3. CASE PowerLoss
  <2>1. Chain!LoseUnacknowledged
    BY <1>3, PowerLossLoses DEF Chain!LoseUnacknowledged, Counted, PowerLoss
  <2> QED
    BY <2>1 DEF Chain!Next
<1>4. ASSUME NEW w \in Writers, RenameHead(w) PROVE Chain!Next
  <2>1. \E b \in Bodies : Chain!Commit(b)
    BY <1>4, RenameCommits
       DEF Chain!Commit, Counted, RenameHead, Chain!RecordAfter, RecordAfter,
           Chain!HeadAt, HeadAt, Chain!DigestOf, DigestOf, Chain!Genesis, Genesis
  <2> QED
    BY <2>1 DEF Chain!Next
<1>5. ASSUME NEW w \in Writers, FsyncDir(w) PROVE Chain!Next
  <2>1. headFile = proc[w].next /\ headFile \in GuardHead
    BY <1>5 DEF FsyncDir, At, IInv, ProcInv, AppendPCs, TypeOK, Proc
  <2>2. acked <= headFile.seq /\ Len(Counted) = headFile.seq /\ acked \in Nat
    BY <2>1, CountedFacts DEF IInv, TypeOK
  <2>3. acked' = Len(Counted)
    BY <1>5, <2>1, <2>2 DEF FsyncDir, GuardHead
  <2>4. Counted' = Counted
    BY <1>5, CountedKept DEF FsyncDir
  <2>5. Chain!Acknowledge
    BY <2>3, <2>4 DEF Chain!Acknowledge, Counted
  <2> QED
    BY <2>5 DEF Chain!Next
<1>6. ASSUME NEW w \in Writers, NEW b \in Bodies, AppendRecord(w, b) PROVE Stutter
  <2>1. RecordAfter(proc[w].head, b) \in Line
    BY DEF IInv, TypeOK, Proc, RecordAfter, Line, GuardHead
  <2>2. Written(RecordAfter(proc[w].head, b)) \in Line
    BY <2>1 DEF Written, Line
  <2>3. UNCHANGED <<headFile, acked>>
        /\ (lines' = lines \/ \E r \in Line : lines' = Append(lines, r))
    BY <1>6, <2>2 DEF AppendRecord
  <2> QED
    BY <2>3, CountedKept
<1>7. ASSUME NEW w \in Writers, OpenFresh(w) PROVE Stutter
  <2>1. headFile = Missing /\ lines = <<>> /\ lines' = <<>> /\ headFile' = Head0 /\ acked' = acked
    BY <1>7 DEF OpenFresh, IInv, ProcInv, At, SoleWriter
  <2>2. Counted = <<>>
    BY <2>1 DEF Counted
  <2>3. Counted' = <<>>
    BY <2>1 DEF Counted, Head0
  <2> QED
    BY <2>1, <2>2, <2>3
<1>8. ASSUME NEW w \in Writers, CallFails(w) PROVE Stutter
  <2>1. UNCHANGED <<lines, acked>>
    BY <1>8 DEF CallFails
  <2>2. CASE UNCHANGED headFile
    BY <2>1, <2>2 DEF Counted
  <2>3. CASE At(w, "openFresh") /\ headFile' \in {headFile, Unreadable}
    <3>1. headFile = Missing
      BY <2>3 DEF At, IInv, ProcInv
    <3> QED
      BY <2>1, <2>3, <3>1 DEF Counted
  <2> QED
    BY <1>8, <2>2, <2>3 DEF CallFails
<1>9. ASSUME NEW w \in Writers,
             OpenHead(w) \/ OpenLast(w) \/ OpenIndex(w) \/ FsyncChain(w) \/ CheckHead(w)
             \/ WriteTmp(w) \/ FsyncTmp(w) \/ Kill(w)
      PROVE  Stutter
  BY <1>9 DEF OpenHead, OpenLast, OpenIndex, FsyncChain, CheckHead, WriteTmp, FsyncTmp, Kill,
              disk, Counted
<1> HIDE DEF Stutter
<1> QED
  BY <1>1, <1>2, <1>3, <1>4, <1>5, <1>6, <1>7, <1>8, <1>9 DEF Next, Open, ReplaceHead

(* The writer, call by call, implements the append-only chain: records     *)
(* commit at the rename, are acknowledged when the directory is fsynced,   *)
(* and only unacknowledged ones are ever taken back.                       *)
THEOREM Refinement == ASSUME SoleWriter PROVE Spec => ImplementsChain
<1>1. IInv /\ [Next]_vars => [Chain!Next]_(Chain!vars)
  BY StepImplements
<1> QED
  BY <1>1, InitCounted, Invariance, PTL DEF Spec, Chain!Spec, ImplementsChain

-----------------------------------------------------------------------------
(* Several writers on one directory.                                       *)

(* Writes that complete: a torn line comes from a power loss only.         *)
WholeWrites == ~CallsFail /\ ~ShortWrites

(* Line l is the k-th record of the history that digest D commits to.      *)
Holds(l, D, k) ==
    /\ l.ok
    /\ l.seq = k - 1
    /\ l.prev = SubSeq(D, 1, k - 1)
    /\ DigestOf(l) = SubSeq(D, 1, k)

(* The history of line i is among the lines up to it, with room for the    *)
(* rest of it on both sides.                                               *)
HeldBelow(ls, i, D) ==
    \A k \in 1..Len(D) : \E j \in k..(i - (Len(D) - k)) : Holds(ls[j], D, k)

Rooted(ls, i) == HeldBelow(ls, i, DigestOf(ls[i]))

AllRooted(ls) == \A i \in 1..Len(ls) : ls[i].ok /\ Rooted(ls, i)

(* A head that commits to a line of the file, or to none.                  *)
Names(ls, h) ==
    /\ h.seq = Len(h.digest)
    /\ h.seq = 0 \/ \E i \in 1..Len(ls) : DigestOf(ls[i]) = h.digest

Accepts(p) == p.pc \in AppendPCs \/ (p.pc = "up" /\ ~p.failure)

PairProcInv(p) ==
    /\ p.pc = "openIndex" \/ Accepts(p) => Names(lines, p.head)
    /\ p.pc \in AppendPCs => Names(lines, p.next)
    /\ Accepts(p) => ~torn

PairInv == TypeOK /\ AllRooted(lines) /\ \A w \in Writers : PairProcInv(proc[w])

-----------------------------------------------------------------------------
(* Lemmas about digests and the lines that hold what they commit to.       *)

Entry == [seq : Nat, body : Bodies]

LEMMA DigestGrows ==
    ASSUME NEW P \in Seq(Entry), NEW e \in Entry, NEW D, D = Append(P, e)
    PROVE  /\ D \in Seq(Entry) /\ Len(P) \in Nat /\ Len(D) = Len(P) + 1
           /\ SubSeq(D, 1, Len(D)) = D
           /\ SubSeq(D, 1, Len(P)) = P
           /\ \A k \in 0..Len(P) : SubSeq(D, 1, k) = SubSeq(P, 1, k)
<1>1. D \in Seq(Entry) /\ Len(P) \in Nat /\ Len(D) = Len(P) + 1
  BY AppendProperties
<1>2. SubSeq(D, 1, Len(D)) = D
  BY <1>1, SubSeqFull
<1>3. \A k \in 0..Len(P) : SubSeq(D, 1, k) = SubSeq(P, 1, k)
  OBVIOUS
<1>4. SubSeq(D, 1, Len(P)) = P
  BY <1>1, <1>3, SubSeqFull
<1> QED
  BY <1>1, <1>2, <1>3, <1>4

(* Appending a line, or cutting the file, leaves earlier histories alone.  *)
LEMMA RootedAppend ==
    ASSUME NEW ls \in Seq(Line), NEW r \in Line, NEW i \in 1..Len(ls), Rooted(ls, i)
    PROVE  Rooted(Append(ls, r), i)
<1> DEFINE new == Append(ls, r)
<1>1. \A j \in 1..Len(ls) : new[j] = ls[j]
  OBVIOUS
<1> HIDE DEF new
<1>2. \A n \in 1..Len(DigestOf(ls[i])) : \A j \in n..(i - (Len(DigestOf(ls[i])) - n)) : j \in 1..Len(ls)
  <2>1. DigestOf(ls[i]) \in Digest
    BY DigestOfType
  <2>2. Len(DigestOf(ls[i])) \in Nat
    BY <2>1 DEF Digest
  <2> HIDE DEF Rooted
  <2> QED
    BY <2>2
<1>3. new[i] = ls[i]
  BY <1>1
<1>4. Rooted(new, i)
  BY <1>1, <1>2, <1>3 DEF Rooted, HeldBelow
<1> QED
  BY <1>4 DEF new

LEMMA RootedSubSeq ==
    ASSUME NEW ls \in Seq(Line), NEW n \in 0..Len(ls), NEW i \in 1..n, Rooted(ls, i)
    PROVE  Rooted(SubSeq(ls, 1, n), i)
<1> DEFINE new == SubSeq(ls, 1, n)
<1>1. \A j \in 1..n : new[j] = ls[j]
  OBVIOUS
<1> HIDE DEF new
<1>2. \A k \in 1..Len(DigestOf(ls[i])) : \A j \in k..(i - (Len(DigestOf(ls[i])) - k)) : j \in 1..n
  <2>1. ls[i] \in Line
    OBVIOUS
  <2>2. DigestOf(ls[i]) \in Digest
    BY <2>1, DigestOfType
  <2>3. Len(DigestOf(ls[i])) \in Nat
    BY <2>2 DEF Digest
  <2> HIDE DEF Rooted
  <2> QED
    BY <2>3
<1>3. new[i] = ls[i]
  BY <1>1
<1>4. Rooted(new, i)
  BY <1>1, <1>2, <1>3 DEF Rooted, HeldBelow
<1> QED
  BY <1>4 DEF new

(* The last record of a line's history is the line.                        *)
LEMMA RootedSelf ==
    ASSUME NEW ls \in Seq(Line), NEW i \in 1..Len(ls), Rooted(ls, i)
    PROVE  /\ ls[i].seq = Len(ls[i].prev)
           /\ Len(DigestOf(ls[i])) = ls[i].seq + 1
           /\ ls[i].seq + 1 <= i
<1> DEFINE D == DigestOf(ls[i])
<1>1. ls[i] \in Line
  OBVIOUS
<1>2. ls[i].prev \in Seq(Entry) /\ [seq |-> ls[i].seq, body |-> ls[i].body] \in Entry
  BY <1>1 DEF Line, Digest, Entry
<1>3. /\ Len(ls[i].prev) \in Nat /\ Len(D) = Len(ls[i].prev) + 1
      /\ SubSeq(D, 1, Len(D)) = D
  BY <1>2, DigestGrows DEF DigestOf
<1>a. HeldBelow(ls, i, D)
  BY DEF Rooted
<1> HIDE DEF D
<1>4. PICK j \in Len(D)..(i - (Len(D) - Len(D))) : Holds(ls[j], D, Len(D))
  <2>1. Len(D) \in 1..Len(D)
    BY <1>3
  <2> QED
    BY <1>a, <2>1 DEF HeldBelow
<1>5. j \in 1..Len(ls) /\ Len(D) <= i
  BY <1>3, <1>4
<1>6. DigestOf(ls[j]) = D /\ ls[j].seq = Len(D) - 1
  BY <1>3, <1>4 DEF Holds
<1>7. ls[j] \in Line
  BY <1>5
<1>8. ls[j].seq = ls[i].seq
  <2>1. /\ ls[j].prev \in Seq(Entry) /\ [seq |-> ls[j].seq, body |-> ls[j].body] \in Entry
    BY <1>7 DEF Line, Digest, Entry
  <2>2. Append(ls[j].prev, [seq |-> ls[j].seq, body |-> ls[j].body])
          = Append(ls[i].prev, [seq |-> ls[i].seq, body |-> ls[i].body])
    BY <1>6 DEF D, DigestOf
  <2>3. [seq |-> ls[j].seq, body |-> ls[j].body] = [seq |-> ls[i].seq, body |-> ls[i].body]
    BY <1>2, <2>1, <2>2, AppendInjective
  <2> QED
    BY <2>3
<1> QED
  BY <1>3, <1>5, <1>6, <1>8 DEF D

(* The line made for a head that names one has its history in the file.    *)
LEMMA RootedNew ==
    ASSUME NEW ls \in Seq(Line), AllRooted(ls), NEW h \in GuardHead, Names(ls, h),
           NEW b \in Bodies, NEW r, r = RecordAfter(h, b)
    PROVE  /\ r \in Line /\ r.ok /\ Rooted(Append(ls, r), Len(ls) + 1)
           /\ Len(DigestOf(r)) = h.seq + 1
<1> DEFINE new == Append(ls, r)
           D == DigestOf(r)
           m == h.seq
<1>1. h.digest \in Seq(Entry) /\ [seq |-> m, body |-> b] \in Entry /\ m \in Nat /\ Len(h.digest) = m
  BY DEF GuardHead, Digest, Entry, Names
<1>2. r \in Line /\ r.ok /\ r.seq = m /\ r.prev = h.digest /\ D = Append(h.digest, [seq |-> m, body |-> b])
  BY <1>1 DEF RecordAfter, Line, DigestOf, GuardHead
<1>3. /\ Len(D) = m + 1 /\ SubSeq(D, 1, m + 1) = D /\ SubSeq(D, 1, m) = h.digest
      /\ \A k \in 0..m : SubSeq(D, 1, k) = SubSeq(h.digest, 1, k)
  <2> HIDE DEF D, m
  <2>1. /\ Len(D) = Len(h.digest) + 1
        /\ SubSeq(D, 1, Len(D)) = D
        /\ SubSeq(D, 1, Len(h.digest)) = h.digest
        /\ \A k \in 0..Len(h.digest) : SubSeq(D, 1, k) = SubSeq(h.digest, 1, k)
    BY <1>1, <1>2, DigestGrows
  <2> QED
    BY <1>1, <2>1
<1>4. /\ new[Len(ls) + 1] = r /\ Len(ls) \in Nat
      /\ \A j \in 1..Len(ls) : new[j] = ls[j]
  BY <1>2
<1> HIDE DEF new, D, m
<1>5. m <= Len(ls) /\ \A k \in 1..m : \E j \in k..((Len(ls) + 1) - ((m + 1) - k)) : Holds(new[j], D, k)
  <2>1. CASE m = 0
    BY <1>4, <2>1
  <2>2. CASE m # 0
    <3>1. PICK i \in 1..Len(ls) : DigestOf(ls[i]) = h.digest
      BY <2>2 DEF Names, m
    <3>2. Rooted(ls, i)
      BY <3>1 DEF AllRooted
    <3>3. m <= i
      BY <1>1, <3>1, <3>2, RootedSelf
    <3>4. ASSUME NEW k \in 1..m
          PROVE  \E j \in k..((Len(ls) + 1) - ((m + 1) - k)) : Holds(new[j], D, k)
      <4>1. PICK j \in k..(i - (m - k)) : Holds(ls[j], h.digest, k)
        BY <1>1, <3>1, <3>2 DEF Rooted, HeldBelow
      <4>2. j \in 1..Len(ls) /\ j \in k..((Len(ls) + 1) - ((m + 1) - k)) /\ k \in 0..m /\ k - 1 \in 0..m
        BY <1>1, <1>4, <3>1, <3>4, <4>1
      <4>3. Holds(new[j], D, k)
        BY <1>3, <1>4, <4>1, <4>2 DEF Holds
      <4> QED
        BY <4>2, <4>3
    <3> QED
      BY <1>1, <1>4, <3>1, <3>3, <3>4
  <2> QED
    BY <2>1, <2>2
<1>6. Holds(new[Len(ls) + 1], D, m + 1)
  <2>1. (m + 1) - 1 = m
    BY <1>1
  <2>2. DigestOf(r) = D
    BY DEF D
  <2> QED
    <3>1. r.prev = SubSeq(D, 1, (m + 1) - 1) /\ r.seq = (m + 1) - 1
      BY <1>2, <1>3, <2>1
    <3>2. DigestOf(r) = SubSeq(D, 1, m + 1)
      BY <1>3, <2>2
    <3>3. Holds(r, D, m + 1)
      BY <1>2, <3>1, <3>2 DEF Holds
    <3> QED
      BY <1>4, <3>3
<1>7. ASSUME NEW k \in 1..(m + 1)
      PROVE  \E j \in k..((Len(ls) + 1) - ((m + 1) - k)) : Holds(new[j], D, k)
  <2>1. CASE k = m + 1
    <3>1. Len(ls) + 1 \in k..((Len(ls) + 1) - ((m + 1) - k))
      BY <1>1, <1>4, <1>5, <2>1
    <3> QED
      BY <1>6, <2>1, <3>1
  <2>2. CASE k # m + 1
    BY <1>1, <1>5, <1>7, <2>2
  <2> QED
    BY <2>1, <2>2
<1>8. Rooted(new, Len(ls) + 1)
  <2>1. HeldBelow(new, Len(ls) + 1, D)
    <3>1. SUFFICES ASSUME NEW k \in 1..Len(D)
                   PROVE  \E j \in k..((Len(ls) + 1) - (Len(D) - k)) : Holds(new[j], D, k)
      BY DEF HeldBelow
    <3>2. k \in 1..(m + 1) /\ Len(D) = m + 1
      BY <1>3
    <3> QED
      BY <1>7, <3>2
  <2> QED
    BY <1>4, <2>1 DEF Rooted, D
<1> QED
  BY <1>2, <1>3, <1>8 DEF new, D, m

(* As many lines as the head counts, and no room: each is the next record. *)
LEMMA FullIsLinear ==
    ASSUME NEW ls \in Seq(Line), AllRooted(ls), NEW h \in GuardHead, Names(ls, h), Len(ls) = h.seq
    PROVE  Linear(ls)
<1> DEFINE D == h.digest
           n == Len(ls)
<1>1. D \in Seq(Entry) /\ n \in Nat /\ Len(D) = n
  BY DEF GuardHead, Digest, Entry, Names
<1>2. SUFFICES ASSUME NEW k \in 1..n
               PROVE  ls[k].ok /\ ls[k].seq = k - 1 /\ ls[k].prev = HeadAt(ls, k - 1).digest
  BY DEF Linear
<1>3. PICK i \in 1..n : DigestOf(ls[i]) = D
  BY <1>1, <1>2 DEF Names
<1>4. Rooted(ls, i)
  BY <1>3 DEF AllRooted
<1>5. ASSUME NEW q \in 1..n
      PROVE  Holds(ls[q], D, q)
  <2>1. PICK j \in q..(i - (n - q)) : Holds(ls[j], D, q)
    BY <1>1, <1>3, <1>4 DEF Rooted, HeldBelow
  <2>2. j = q
    BY <1>1, <1>3, <1>5, <2>1
  <2> QED
    BY <2>1, <2>2
<1> HIDE DEF D, n
<1>6. ls[k].ok /\ ls[k].seq = k - 1 /\ ls[k].prev = SubSeq(D, 1, k - 1)
  BY <1>2, <1>5 DEF Holds
<1>7. HeadAt(ls, k - 1).digest = SubSeq(D, 1, k - 1)
  <2>1. CASE k = 1
    BY <1>1, <2>1, SubSeqEmpty DEF HeadAt, Genesis
  <2>2. CASE k # 1
    <3>1. k - 1 \in 1..n /\ k - 1 # 0
      BY <1>1, <1>2, <2>2
    <3>2. DigestOf(ls[k - 1]) = SubSeq(D, 1, k - 1)
      BY <1>5, <3>1 DEF Holds
    <3> QED
      BY <3>1, <3>2 DEF HeadAt
  <2> QED
    BY <2>1, <2>2
<1> QED
  BY <1>6, <1>7

-----------------------------------------------------------------------------
(* The invariant of any number of writers.                                 *)

LEMMA InitPair == Init => PairInv
<1> SUFFICES ASSUME Init PROVE PairInv
  OBVIOUS
<1>1. TypeOK
  BY InitIInv DEF IInv
<1>2. AllRooted(lines)
  BY DEF Init, AllRooted
<1>3. \A w \in Writers : PairProcInv(proc[w])
  BY DEF Init, PairProcInv, Accepts, Down, AppendPCs
<1> QED
  BY <1>1, <1>2, <1>3 DEF PairInv

LEMMA NamesAppend ==
    ASSUME NEW ls \in Seq(Line), NEW r, NEW h, Names(ls, h)
    PROVE  Names(Append(ls, r), h)
<1>1. Len(Append(ls, r)) = Len(ls) + 1 /\ \A i \in 1..Len(ls) : Append(ls, r)[i] = ls[i]
  OBVIOUS
<1> QED
  BY <1>1 DEF Names

(* A process that refuses promises nothing.                                *)
LEMMA RefusedPair ==
    ASSUME TypeOK, NEW w \in Writers, Refuse(w)
    PROVE  PairProcInv(proc[w])'
  BY RefuseAt DEF PairProcInv, Accepts, AppendPCs

(* A step of one process that adds at most a line, and tears none, leaves  *)
(* the other processes as they were.                                       *)
LEMMA OthersKept ==
    ASSUME PairInv, TypeOK', NEW w \in Writers,
           \A v \in Writers \ {w} : proc'[v] = proc[v],
           lines' = lines \/ \E r \in Line : lines' = Append(lines, r),
           AllRooted(lines)', torn' => torn, PairProcInv(proc[w])'
    PROVE  PairInv'
<1>1. ASSUME NEW h, Names(lines, h) PROVE Names(lines', h)
  BY <1>1, NamesAppend DEF PairInv, TypeOK
<1>2. ASSUME NEW v \in Writers \ {w} PROVE PairProcInv(proc[v])'
  <2>1. proc'[v] = proc[v] /\ PairProcInv(proc[v])
    BY DEF PairInv
  <2> QED
    BY <1>1, <2>1 DEF PairProcInv, Accepts
<1> QED
  BY <1>2 DEF PairInv

(* openHead takes the head over an empty chain, or the head that the last  *)
(* line computes to, and that line is among the lines.                     *)
LEMMA OpenPair ==
    ASSUME PairInv, NEW w \in Writers, Open(w)
    PROVE  PairProcInv(proc[w])'
<1> USE DEF PairInv
<1>1. CASE OpenHead(w)
  <2>1. CASE Refuse(w)
    BY <2>1, RefusedPair
  <2>2. CASE ~Refuse(w)
    <3>1. proc'[w].pc \in {"openFresh", "openLast"}
      BY <1>1, <2>2, GotoAt DEF OpenHead, TypeOK, Proc
    <3> QED
      BY <3>1 DEF PairProcInv, Accepts, AppendPCs
  <2> QED
    BY <2>1, <2>2
<1>2. CASE OpenFresh(w)
  <2>1. proc'[w].pc = "openIndex" /\ proc'[w].head = Head0
    BY <1>2 DEF OpenFresh, TypeOK, Proc
  <2>2. Names(lines', Head0)
    BY DEF Names, Head0, Genesis
  <2> QED
    BY <2>1, <2>2 DEF PairProcInv, Accepts, AppendPCs
<1>3. CASE OpenLast(w)
  <2>1. CASE Refuse(w)
    BY <2>1, RefusedPair
  <2>2. CASE ~Refuse(w)
    <3> DEFINE h == proc[w].head
               n == Len(lines)
    <3>1. LastAgrees(h) /\ Goto(w, "openIndex") /\ lines' = lines
      BY <1>3, <2>2 DEF OpenLast, disk
    <3>2. h \in GuardHead /\ lines \in Seq(Line) /\ n \in Nat
      BY DEF TypeOK, Proc
    <3>3. Names(lines, h)
      <4>1. CASE h.seq = 0
        BY <3>1, <4>1 DEF LastAgrees, Names, Head0, Genesis
      <4>2. CASE h.seq # 0
        <5>1. n \in 1..n /\ lines[n].seq = h.seq - 1 /\ DigestOf(lines[n]) = h.digest
          BY <3>1, <3>2, <4>2 DEF LastAgrees
        <5>2. Rooted(lines, n)
          BY <5>1 DEF AllRooted
        <5>3. Len(h.digest) = (h.seq - 1) + 1
          BY <3>2, <5>1, <5>2, RootedSelf
        <5>4. h.seq = Len(h.digest)
          BY <3>2, <5>3 DEF GuardHead
        <5> QED
          BY <5>1, <5>4 DEF Names
      <4> QED
        BY <4>1, <4>2
    <3>4. proc'[w].pc = "openIndex" /\ proc'[w].head = h
      BY <3>1, GotoAt
    <3> QED
      BY <3>1, <3>3, <3>4 DEF PairProcInv, Accepts, AppendPCs
  <2> QED
    BY <2>1, <2>2
<1>4. CASE OpenIndex(w)
  <2>1. CASE Refuse(w)
    BY <2>1, RefusedPair
  <2>2. CASE ~Refuse(w)
    <3>1. ~torn /\ Goto(w, "up") /\ lines' = lines /\ torn' = torn /\ proc[w].pc = "openIndex"
      BY <1>4, <2>2 DEF OpenIndex, disk, At
    <3>2. Names(lines, proc[w].head)
      BY <3>1 DEF PairProcInv
    <3>3. proc'[w].pc = "up" /\ proc'[w].head = proc[w].head
      BY <3>1, GotoAt
    <3> QED
      BY <3>1, <3>2, <3>3 DEF PairProcInv, Accepts, AppendPCs
  <2> QED
    BY <2>1, <2>2
<1> QED
  BY <1>1, <1>2, <1>3, <1>4 DEF Open

(* With writes that complete, append adds the record the process's head    *)
(* calls for, and remembers a next head that names it.                     *)
LEMMA AppendPair ==
    ASSUME WholeWrites, PairInv, NEW w \in Writers, NEW b \in Bodies, AppendRecord(w, b)
    PROVE  /\ \E r \in Line : lines' = Append(lines, r)
           /\ AllRooted(lines)'
           /\ ~torn'
           /\ \A v \in Writers \ {w} : proc'[v] = proc[v]
           /\ PairProcInv(proc[w])'
<1> USE DEF PairInv
<1> DEFINE h == proc[w].head
           r == RecordAfter(h, b)
           next == [seq |-> r.seq + 1, digest |-> DigestOf(r)]
           n == Len(lines)
<1>1. h \in GuardHead /\ lines \in Seq(Line) /\ n \in Nat
  BY DEF TypeOK, Proc
<1>2. At(w, "up") /\ ~proc[w].failure
  BY DEF AppendRecord
<1>3. Names(lines, h) /\ ~torn
  BY <1>2 DEF PairProcInv, Accepts, At
<1>4. /\ lines' = Append(lines, r) /\ torn' = FALSE
      /\ proc' = [proc EXCEPT ![w].pc = "wrote", ![w].next = next]
  BY <1>3 DEF AppendRecord, WholeWrites, Written
<1>5. /\ r \in Line /\ r.ok /\ Rooted(Append(lines, r), n + 1)
      /\ Len(DigestOf(r)) = h.seq + 1
  BY <1>1, <1>3, RootedNew
<1>6. r.seq = h.seq
  BY DEF RecordAfter
<1> HIDE DEF h, r, n
<1>7. /\ Len(lines') = n + 1 /\ lines'[n + 1] = r
      /\ \A i \in 1..n : lines'[i] = lines[i]
  BY <1>1, <1>4, <1>5 DEF n
<1>8. AllRooted(lines)'
  <2>1. ASSUME NEW i \in 1..n PROVE lines'[i].ok /\ Rooted(lines', i)
    BY <1>1, <1>4, <1>5, <1>7, RootedAppend DEF AllRooted, n
  <2>2. lines'[n + 1].ok /\ Rooted(lines', n + 1)
    BY <1>4, <1>5, <1>7
  <2>3. \A i \in 1..(n + 1) : i \in 1..n \/ i = n + 1
    BY <1>1
  <2> QED
    BY <1>7, <2>1, <2>2, <2>3 DEF AllRooted
<1>9. Names(lines', h)
  BY <1>1, <1>3, <1>4, NamesAppend
<1>10. Names(lines', next)
  <2>1. n + 1 \in 1..Len(lines')
    BY <1>1, <1>7
  <2> QED
    BY <1>5, <1>6, <1>7, <2>1 DEF Names
<1> HIDE DEF next
<1>11. /\ proc'[w].pc = "wrote" /\ proc'[w].head = h /\ proc'[w].next = next
       /\ \A v \in Writers \ {w} : proc'[v] = proc[v]
  BY <1>4 DEF TypeOK, Proc, h
<1>12. PairProcInv(proc[w])'
  BY <1>4, <1>9, <1>10, <1>11 DEF PairProcInv, Accepts, AppendPCs
<1> QED
  BY <1>4, <1>5, <1>8, <1>11, <1>12

(* The rest of append moves through its calls with the two heads it has,   *)
(* and at the end remembers the next one.                                  *)
LEMMA CallPair ==
    ASSUME PairInv, NEW w \in Writers, FsyncChain(w) \/ ReplaceHead(w)
    PROVE  UNCHANGED <<lines, torn>> /\ PairProcInv(proc[w])'
<1> USE DEF PairInv
<1>1. UNCHANGED <<lines, torn>>
  BY DEF FsyncChain, ReplaceHead, CheckHead, WriteTmp, FsyncTmp, RenameHead, FsyncDir, disk
<1>2. proc[w].pc \in AppendPCs
  BY DEF FsyncChain, ReplaceHead, CheckHead, WriteTmp, FsyncTmp, RenameHead, FsyncDir, At, AppendPCs
<1>3. ~torn /\ Names(lines, proc[w].head) /\ Names(lines, proc[w].next)
  BY <1>2 DEF PairProcInv, Accepts
<1>4. CASE Refuse(w)
  BY <1>1, <1>4, RefusedPair
<1>5. CASE \E pc \in AppendPCs : Goto(w, pc)
  <2>1. /\ proc'[w].pc \in AppendPCs
        /\ proc'[w].head = proc[w].head /\ proc'[w].next = proc[w].next
    BY <1>5, GotoAt
  <2> QED
    BY <1>1, <1>3, <2>1 DEF PairProcInv, Accepts, AppendPCs
<1>6. CASE FsyncDir(w)
  <2>1. proc'[w].pc = "up" /\ proc'[w].head = proc[w].next
    BY <1>6 DEF FsyncDir, TypeOK, Proc
  <2> QED
    BY <1>1, <1>3, <2>1 DEF PairProcInv, Accepts, AppendPCs
<1>7. Refuse(w) \/ FsyncDir(w) \/ \E pc \in {"synced", "checked", "tmpWritten", "tmpSynced", "renamed"} : Goto(w, pc)
  BY DEF FsyncChain, ReplaceHead, CheckHead, WriteTmp, FsyncTmp, RenameHead
<1> QED
  <2>1. {"synced", "checked", "tmpWritten", "tmpSynced", "renamed"} \subseteq AppendPCs
    BY DEF AppendPCs
  <2>2. PairProcInv(proc[w])'
    BY <1>4, <1>5, <1>6, <1>7, <2>1
  <2> QED
    BY <1>1, <2>2

(* A power loss downs every process and cuts the file at a line.           *)
LEMMA PowerLossPair ==
    ASSUME PairInv, PowerLoss
    PROVE  AllRooted(lines)' /\ \A w \in Writers : PairProcInv(proc[w])'
<1> USE DEF PairInv
<1>1. ASSUME NEW w \in Writers PROVE PairProcInv(proc[w])'
  <2>1. proc'[w] = Down
    BY DEF PowerLoss
  <2> QED
    BY <2>1 DEF PairProcInv, Accepts, Down, AppendPCs
<1>2. CASE lines' = <<>>
  BY <1>1, <1>2 DEF AllRooted
<1>3. CASE \E n \in synced..Len(lines) : lines' = SubSeq(lines, 1, n)
  <2>1. PICK n \in synced..Len(lines) : lines' = SubSeq(lines, 1, n)
    BY <1>3
  <2>2. n \in 0..Len(lines) /\ lines \in Seq(Line)
    BY <2>1 DEF TypeOK
  <2>3. Len(lines') = n /\ \A i \in 1..n : lines'[i] = lines[i]
    BY <2>1, <2>2
  <2>4. ASSUME NEW i \in 1..n PROVE lines'[i].ok /\ Rooted(lines', i)
    BY <2>1, <2>2, <2>3, RootedSubSeq DEF AllRooted
  <2> QED
    BY <1>1, <2>3, <2>4 DEF AllRooted
<1> QED
  BY <1>2, <1>3 DEF PowerLoss

LEMMA NextPair ==
    ASSUME WholeWrites
    PROVE  PairInv /\ [Next]_vars => PairInv'
<1> SUFFICES ASSUME PairInv, [Next]_vars PROVE PairInv'
  OBVIOUS
<1>1. TypeOK'
  BY NextType DEF PairInv
<1>2. CASE \E w \in Writers : Open(w)
  <2>1. PICK w \in Writers : Open(w)
    BY <1>2
  <2>2. UNCHANGED <<lines, torn>> /\ \A v \in Writers \ {w} : proc'[v] = proc[v]
    BY <2>1 DEF Open, OpenHead, OpenFresh, OpenLast, OpenIndex, disk, Goto, Refuse, PairInv, TypeOK
  <2>3. AllRooted(lines)'
    BY <2>2 DEF PairInv
  <2> QED
    BY <1>1, <2>1, <2>2, <2>3, OpenPair, OthersKept
<1>3. CASE \E w \in Writers : FsyncChain(w) \/ ReplaceHead(w)
  <2>1. PICK w \in Writers : FsyncChain(w) \/ ReplaceHead(w)
    BY <1>3
  <2>2. \A v \in Writers \ {w} : proc'[v] = proc[v]
    BY <2>1 DEF FsyncChain, ReplaceHead, CheckHead, WriteTmp, FsyncTmp, RenameHead, FsyncDir,
                Goto, Refuse, PairInv, TypeOK
  <2>3. UNCHANGED <<lines, torn>> /\ PairProcInv(proc[w])'
    BY <2>1, CallPair
  <2>4. AllRooted(lines)'
    BY <2>3 DEF PairInv
  <2> QED
    BY <1>1, <2>2, <2>3, <2>4, OthersKept
<1>4. CASE \E w \in Writers, b \in Bodies : AppendRecord(w, b)
  BY <1>1, <1>4, AppendPair, OthersKept
<1>5. CASE \E w \in Writers : Kill(w)
  <2>1. PICK w \in Writers : Kill(w)
    BY <1>5
  <2>2. /\ UNCHANGED <<lines, torn>> /\ proc'[w] = Down
        /\ \A v \in Writers \ {w} : proc'[v] = proc[v]
    BY <2>1 DEF Kill, disk, PairInv, TypeOK
  <2>3. PairProcInv(proc[w])' /\ AllRooted(lines)'
    BY <2>2 DEF PairProcInv, Accepts, Down, AppendPCs, PairInv
  <2> QED
    BY <1>1, <2>2, <2>3, OthersKept
<1>6. CASE PowerLoss
  BY <1>1, <1>6, PowerLossPair DEF PairInv
<1>7. CASE UNCHANGED vars
  BY <1>1, <1>7 DEF PairInv, PairProcInv, vars, disk
<1>8. ~ \E w \in Writers : CallFails(w)
  BY DEF CallFails, WholeWrites
<1> QED
  BY <1>2, <1>3, <1>4, <1>5, <1>6, <1>7, <1>8 DEF Next

(* With writes that complete, every line of the file has its whole history *)
(* in the file, and every process that accepts appends names a line of it, *)
(* however many processes write.                                           *)
THEOREM PairInvariance == ASSUME WholeWrites PROVE Spec => []PairInv
<1>1. PairInv /\ [Next]_vars => PairInv'
  BY NextPair
<1> QED
  BY <1>1, InitPair, PTL DEF Spec

(* A start that accepts the chain file accepts one chain: with as many     *)
(* lines as the head counts, each line is the next record of the history   *)
(* the head commits to, whoever wrote it.                                  *)
THEOREM OpensOnlyChains == ASSUME WholeWrites PROVE Spec => OpensOnlyLinear
<1> DEFINE OnlyLinear ==
        \A w \in Writers :
            At(w, "openIndex") /\ proc'[w].pc = "up" /\ ~proc'[w].failure => Linear(lines)
<1>1. ASSUME PairInv, [Next]_vars, NEW w \in Writers,
             At(w, "openIndex"), proc'[w].pc = "up", ~proc'[w].failure
      PROVE  Linear(lines)
  <2> USE DEF PairInv
  <2>1. proc'[w] # proc[w] /\ proc'[w] # Down /\ ~Refuse(w)
    <3>1. proc[w].pc = "openIndex" /\ Down.pc = "down"
      BY <1>1 DEF At, Down
    <3> QED
      BY <1>1, <3>1, RefuseAt
  <2>2. OpenIndex(w)
    <3>1. ASSUME NEW v \in Writers, v # w,
                 Open(v) \/ (\E b \in Bodies : AppendRecord(v, b)) \/ FsyncChain(v)
                 \/ ReplaceHead(v) \/ CallFails(v) \/ Kill(v)
          PROVE  proc'[w] = proc[w]
      BY <1>1, <3>1 DEF Open, OpenHead, OpenFresh, OpenLast, OpenIndex, AppendRecord, FsyncChain,
         ReplaceHead, CheckHead, WriteTmp, FsyncTmp, RenameHead, FsyncDir, CallFails, Kill,
         Goto, Refuse, TypeOK
    <3>2. ~ UNCHANGED vars /\ ~ PowerLoss /\ ~ Kill(w) /\ ~ CallFails(w)
      BY <1>1, <2>1 DEF vars, PowerLoss, Kill, CallFails, TypeOK
    <3>3. /\ ~ OpenHead(w) /\ ~ OpenFresh(w) /\ ~ OpenLast(w)
          /\ ~ \E b \in Bodies : AppendRecord(w, b)
          /\ ~ FsyncChain(w) /\ ~ ReplaceHead(w)
      BY <1>1 DEF At, OpenHead, OpenFresh, OpenLast, AppendRecord, FsyncChain,
         ReplaceHead, CheckHead, WriteTmp, FsyncTmp, RenameHead, FsyncDir
    <3> QED
      BY <1>1, <2>1, <3>1, <3>2, <3>3 DEF Next, Open
  <2>3. Len(lines) = proc[w].head.seq
    BY <2>1, <2>2 DEF OpenIndex
  <2>4. Names(lines, proc[w].head)
    BY <1>1 DEF At, PairProcInv
  <2>5. proc[w].head \in GuardHead /\ lines \in Seq(Line)
    BY <1>1 DEF TypeOK, Proc
  <2> QED
    BY <1>1, <2>3, <2>4, <2>5, FullIsLinear
<1>2. PairInv /\ [Next]_vars => OnlyLinear
  BY <1>1
<1>3. PairInv /\ [Next]_vars => [OnlyLinear]_vars
  BY <1>2
<1> QED
  BY <1>3, PairInvariance, PTL DEF Spec, OpensOnlyLinear
=============================================================================
