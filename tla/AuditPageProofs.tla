--------------------------- MODULE AuditPageProofs ---------------------------
(***************************************************************************)
(* What an auditor who follows next is given, for any number of auditors,  *)
(* records and anchors and any limits: which anchors, and, by what the     *)
(* index holds of the lines, which records and that a page is answered.    *)
(***************************************************************************)
EXTENDS AuditPage, Recursion, FiniteSetTheorems, SequenceTheorems, TLAPS

USE PageAssumption DEF PageAssumption

Line   == [length : Lengths, whole : BOOLEAN]
Anchor == [seq : Nat, whole : BOOLEAN]

Signed(S) == {n \in S : anchors[n].seq > 0}

(* What is in memory is not ahead of the disk.                             *)
LogInv ==
    /\ file \in Seq(Line)
    /\ diskHead \in Nat /\ diskHead <= Len(file)
    /\ head \in Nat /\ head <= diskHead
    /\ anchors \in Seq(Anchor)
    /\ signing \in Nat \cup {NoSeq}

(* An auditor is not ahead of the log that serves it, nor what it holds    *)
(* ahead of it.                                                            *)
ReaderInv(r) ==
    /\ reader[r].next \in Nat
    /\ reader[r].next <= diskHead
    /\ opened => reader[r].next <= head
    /\ reader[r].anchors \subseteq DOMAIN anchors
    /\ \A n \in reader[r].anchors : anchors[n].seq <= reader[r].next

(* The two halves of AnchorsComplete.                                      *)
NoneMissed(r) ==
    \A n \in DOMAIN anchors :
        anchors[n].whole /\ Passed(reader[r].next, anchors[n].seq) => n \in reader[r].anchors \cup late[r]

NoneTwice(r) == reader[r].served = Cardinality(Signed(reader[r].anchors))

IInv ==
    /\ LogInv
    /\ reader = [r \in Readers |-> reader[r]]
    /\ late = [r \in Readers |-> late[r]]
    /\ \A r \in Readers : ReaderInv(r) /\ NoneMissed(r) /\ NoneTwice(r)

LEMMA InitInv == Init => IInv
  <1> SUFFICES ASSUME Init
               PROVE  IInv
    OBVIOUS
  <1>1. LogInv
    BY DEF Init, LogInv
  <1>2. ASSUME NEW r \in Readers
        PROVE  ReaderInv(r) /\ NoneMissed(r) /\ NoneTwice(r)
    <2>1. reader[r].anchors = {} /\ reader[r].next = 0 /\ reader[r].served = 0 /\ DOMAIN anchors = {}
      BY DEF Init
    <2>2. Signed({}) = {}
      BY DEF Signed
    <2>3. NoneTwice(r)
      BY <2>1, <2>2, FS_EmptySet DEF NoneTwice
    <2>4. ReaderInv(r) /\ NoneMissed(r)
      BY <1>1, <2>1 DEF ReaderInv, NoneMissed, LogInv
    <2> QED
      BY <2>3, <2>4
  <1> QED
    BY <1>1, <1>2 DEF Init, IInv

-----------------------------------------------------------------------------
LEMMA AnchorTypes ==
  ASSUME LogInv
  PROVE  /\ Len(anchors) \in Nat /\ DOMAIN anchors = 1..Len(anchors)
         /\ \A n \in DOMAIN anchors : anchors[n].seq \in Nat
  <1>1. anchors \in Seq(Anchor)
    BY DEF LogInv
  <1>2. \A n \in 1..Len(anchors) : anchors[n] \in Anchor
    BY <1>1
  <1>3. Len(anchors) \in Nat /\ DOMAIN anchors = 1..Len(anchors)
    BY <1>1
  <1> QED
    BY <1>2, <1>3 DEF Anchor

LEMMA EndOfPage ==
  ASSUME LogInv, NEW from \in Nat, from <= head, NEW limit \in Limits
  PROVE  To(from, limit) \in Nat /\ from <= To(from, limit) /\ To(from, limit) <= head
  <1>1. limit \in Nat /\ head \in Nat
    BY DEF LogInv
  <1>2. \E x \in {head, from + limit} : \A y \in {head, from + limit} : x <= y
    <2>1. CASE head <= from + limit
      BY <1>1, <2>1
    <2>2. CASE from + limit <= head
      BY <1>1, <2>2
    <2> QED
      BY <1>1, <2>1, <2>2
  <1>3. /\ To(from, limit) \in {head, from + limit}
        /\ \A y \in {head, from + limit} : To(from, limit) <= y
    BY <1>2 DEF To, Min
  <1> QED
    BY <1>1, <1>3

(* Anchors that were there keep their numbers when another is written.     *)
LEMMA AnchorsStay ==
  ASSUME LogInv, NEW a \in Anchor, anchors' = Append(anchors, a)
  PROVE  /\ anchors' \in Seq(Anchor)
         /\ Len(anchors) \in Nat /\ Len(anchors') = Len(anchors) + 1
         /\ DOMAIN anchors = 1..Len(anchors) /\ DOMAIN anchors' = 1..(Len(anchors) + 1)
         /\ \A n \in DOMAIN anchors : anchors'[n] = anchors[n]
         /\ anchors'[Len(anchors) + 1] = a
  BY AppendProperties DEF LogInv

(* A step that leaves the anchors and the auditors alone.                  *)
LEMMA LogMoves ==
  ASSUME IInv, LogInv', UNCHANGED <<anchors, reader, late>>,
         \A r \in Readers : reader[r].next <= diskHead' /\ (opened' => reader[r].next <= head')
  PROVE  IInv'
  <1>1. ASSUME NEW r \in Readers
        PROVE  ReaderInv(r)' /\ NoneMissed(r)' /\ NoneTwice(r)'
    BY DEF IInv, ReaderInv, NoneMissed, NoneTwice, Signed
  <1> QED
    BY <1>1 DEF IInv

LEMMA AppendKeeps ==
  ASSUME IInv, NEW length \in Lengths, AppendRecord(length) \/ AppendFails(length)
  PROVE  IInv'
  <1> USE DEF IInv, anchorVars
  <1>1. PICK whole \in BOOLEAN : file' = Append(file, [length |-> length, whole |-> whole])
    BY DEF AppendRecord, AppendFails
  <1>2. file' \in Seq(Line) /\ Len(file') = Len(file) + 1 /\ Len(file) \in Nat
    BY <1>1, AppendProperties DEF LogInv, Line
  <1>3. /\ diskHead' \in {diskHead, Len(file')}
        /\ head' = head \/ (head' = Len(file') /\ diskHead' = Len(file'))
        /\ UNCHANGED <<opened, anchors, signing, reader, late>>
    BY DEF AppendRecord, AppendFails
  <1>4. LogInv'
    BY <1>2, <1>3 DEF LogInv
  <1>5. ASSUME NEW r \in Readers
        PROVE  reader[r].next <= diskHead' /\ (opened' => reader[r].next <= head')
    BY <1>2, <1>3 DEF LogInv, ReaderInv
  <1> QED
    BY <1>3, <1>4, <1>5, LogMoves

LEMMA SignKeeps ==
  ASSUME IInv, SignAnchor
  PROVE  IInv'
  BY LogMoves DEF IInv, LogInv, ReaderInv, SignAnchor, diskVars, procVars

LEMMA RestartKeeps ==
  ASSUME IInv, Restart
  PROVE  IInv'
  <1>1. /\ UNCHANGED <<file, diskHead, anchors, reader, late>> /\ signing' = NoSeq
        /\ (opened' /\ head' = diskHead) \/ (~opened' /\ head' = 0)
    BY DEF Restart, diskVars
  <1>2. LogInv'
    BY <1>1 DEF IInv, LogInv
  <1> QED
    BY <1>1, <1>2, LogMoves DEF IInv, ReaderInv

LEMMA WrittenKeeps ==
  ASSUME IInv, AnchorWritten
  PROVE  IInv'
  <1>1. PICK whole \in BOOLEAN : WriteAnchor(whole)
    BY DEF AnchorWritten
  <1> DEFINE a == [seq |-> signing, whole |-> whole]
  <1>2. /\ UNCHANGED <<file, diskHead, head, opened, reader>> /\ signing' = NoSeq
        /\ anchors' = Append(anchors, a)
        /\ late' = [r \in Readers |-> IF Passed(reader[r].next, signing)
                                      THEN late[r] \cup {Len(anchors')} ELSE late[r]]
    BY <1>1 DEF AnchorWritten, WriteAnchor, diskVars
  <1>3. a \in Anchor /\ a.seq = signing
    BY DEF IInv, LogInv, AnchorWritten, Anchor
  <1> HIDE DEF a
  <1>4. LogInv /\ LogInv'
    BY <1>2, <1>3, AnchorsStay DEF IInv, LogInv
  <1>5. ASSUME NEW r \in Readers
        PROVE  ReaderInv(r)' /\ NoneMissed(r)' /\ NoneTwice(r)'
    <2>1. ReaderInv(r) /\ NoneMissed(r) /\ NoneTwice(r) /\ reader'[r] = reader[r]
      BY <1>2 DEF IInv
    <2>2. \A n \in reader[r].anchors : n \in DOMAIN anchors /\ n \in DOMAIN anchors' /\ anchors'[n] = anchors[n]
      BY <1>2, <1>3, <1>4, <2>1, AnchorsStay DEF ReaderInv
    <2>3. ReaderInv(r)'
      BY <1>2, <2>1, <2>2 DEF ReaderInv
    <2>4. Signed(reader[r].anchors)' = Signed(reader[r].anchors)
      BY <2>1, <2>2 DEF Signed
    <2>5. NoneTwice(r)'
      BY <2>1, <2>4 DEF NoneTwice
    <2>6. ASSUME NEW n \in DOMAIN anchors', anchors'[n].whole, Passed(reader[r].next, anchors'[n].seq)
          PROVE  n \in reader[r].anchors \cup late'[r]
      <3>1. CASE n \in DOMAIN anchors
        <4>1. n \in reader[r].anchors \cup late[r]
          BY <1>2, <1>3, <1>4, <2>1, <2>6, <3>1, AnchorsStay DEF NoneMissed
        <4> QED
          BY <1>2, <4>1
      <3>2. CASE n \notin DOMAIN anchors
        <4>1. n = Len(anchors') /\ anchors'[n] = a
          BY <1>2, <1>3, <1>4, <3>2, AnchorsStay
        <4> QED
          BY <1>2, <1>3, <2>6, <4>1
      <3> QED
        BY <3>1, <3>2
    <2>7. NoneMissed(r)'
      BY <2>1, <2>6 DEF NoneMissed
    <2> QED
      BY <2>3, <2>5, <2>7
  <1>6. reader' = [r \in Readers |-> reader'[r]] /\ late' = [r \in Readers |-> late'[r]]
    BY <1>2 DEF IInv
  <1> QED
    BY <1>4, <1>5, <1>6 DEF IInv

(* The anchors of a page are after what the auditor holds, those of the    *)
(* empty chain aside.                                                      *)
LEMMA ServedOnce ==
  ASSUME LogInv, NEW from \in Nat, NEW to \in Nat, NEW held \in SUBSET (DOMAIN anchors),
         \A n \in held : anchors[n].seq <= from
  PROVE  Cardinality(Signed(held \cup InPage(from, to)))
             = Cardinality(Signed(held)) + Cardinality(Signed(InPage(from, to)))
  <1>1. /\ Len(anchors) \in Nat /\ DOMAIN anchors = 1..Len(anchors)
        /\ \A n \in DOMAIN anchors : anchors[n].seq \in Nat
    BY AnchorTypes
  <1>2. IsFiniteSet(DOMAIN anchors)
    BY <1>1, FS_Interval
  <1>3. IsFiniteSet(Signed(held)) /\ IsFiniteSet(Signed(InPage(from, to)))
    <2>1. Signed(held) \subseteq DOMAIN anchors /\ Signed(InPage(from, to)) \subseteq DOMAIN anchors
      BY DEF Signed, InPage
    <2> QED
      BY <1>2, <2>1, FS_Subset
  <1>4. Signed(held) \cap Signed(InPage(from, to)) = {}
    BY <1>1 DEF Signed, InPage
  <1>5. Signed(held \cup InPage(from, to)) = Signed(held) \cup Signed(InPage(from, to))
    BY DEF Signed
  <1>6. Cardinality(Signed(held) \cup Signed(InPage(from, to)))
            = Cardinality(Signed(held)) + Cardinality(Signed(InPage(from, to)))
              - Cardinality(Signed(held) \cap Signed(InPage(from, to)))
    BY <1>3, FS_Union
  <1>7. /\ Cardinality(Signed(held)) \in Nat /\ Cardinality(Signed(InPage(from, to))) \in Nat
        /\ Cardinality({}) = 0
    BY <1>3, FS_CardinalityType, FS_EmptySet
  <1>8. Cardinality(Signed(held \cup InPage(from, to)))
            = Cardinality(Signed(held)) + Cardinality(Signed(InPage(from, to))) - Cardinality({})
    BY <1>4, <1>5, <1>6
  <1> HIDE DEF Signed, InPage
  <1> QED
    BY <1>7, <1>8

LEMMA PageKeeps ==
  ASSUME IInv, NEW r \in Readers, NEW limit \in Limits, Page(r, limit)
  PROVE  IInv'
  <1> DEFINE from == reader[r].next
             to   == To(from, limit)
             came == InPage(from, to)
  <1>1. /\ opened
        /\ UNCHANGED <<file, diskHead, head, opened, anchors, signing, late>>
        /\ reader' = [x \in Readers |-> reader'[x]]
        /\ \A q \in Readers \ {r} : reader'[q] = reader[q]
        /\ reader'[r].next = to
        /\ reader'[r].anchors = reader[r].anchors \cup came
        /\ reader'[r].served = reader[r].served + Cardinality(Signed(came))
    BY DEF IInv, Page, Answered, Signed, diskVars, procVars, anchorVars
  <1>2. LogInv /\ LogInv'
    BY <1>1 DEF IInv, LogInv
  <1>3. ReaderInv(r) /\ NoneMissed(r) /\ NoneTwice(r)
    BY DEF IInv
  <1>4. from \in Nat /\ to \in Nat /\ from <= to /\ to <= head /\ to <= diskHead
    <2>1. from \in Nat /\ from <= head
      BY <1>1, <1>3 DEF ReaderInv
    <2> HIDE DEF from
    <2>2. to \in Nat /\ from <= to /\ to <= head
      BY <1>2, <2>1, EndOfPage
    <2> QED
      BY <1>2, <2>1, <2>2 DEF LogInv
  <1>5. \A n \in DOMAIN anchors : anchors[n].seq \in Nat
    BY <1>2, AnchorTypes
  <1>6. ReaderInv(r)'
    <2>1. \A n \in came : n \in DOMAIN anchors /\ anchors[n].seq <= to
      BY DEF InPage
    <2>2. \A n \in reader[r].anchors : n \in DOMAIN anchors /\ anchors[n].seq <= to
      BY <1>3, <1>4, <1>5 DEF ReaderInv
    <2> HIDE DEF from, to, came
    <2> QED
      BY <1>1, <1>4, <2>1, <2>2 DEF ReaderInv
  <1>7. NoneMissed(r)'
    <2>1. ASSUME NEW n \in DOMAIN anchors, anchors[n].whole, Passed(to, anchors[n].seq)
          PROVE  n \in reader[r].anchors \cup came \cup late[r]
      <3>1. CASE Passed(from, anchors[n].seq)
        BY <1>3, <2>1, <3>1 DEF NoneMissed
      <3>2. CASE ~Passed(from, anchors[n].seq)
        BY <1>4, <1>5, <2>1, <3>2 DEF Passed, InPage
      <3> QED
        BY <3>1, <3>2
    <2> HIDE DEF from, to, came
    <2> QED
      BY <1>1, <2>1 DEF NoneMissed
  <1>8. NoneTwice(r)'
    <2>1. reader[r].anchors \in SUBSET (DOMAIN anchors) /\ \A n \in reader[r].anchors : anchors[n].seq <= from
      BY <1>3 DEF ReaderInv
    <2> HIDE DEF from, to
    <2>2. Cardinality(Signed(reader[r].anchors \cup came)) = reader[r].served + Cardinality(Signed(came))
      BY <1>2, <1>3, <1>4, <2>1, ServedOnce DEF NoneTwice
    <2>3. Signed(reader[r].anchors)' = Signed(reader[r].anchors \cup came)
      BY <1>1 DEF Signed
    <2> QED
      BY <1>1, <2>2, <2>3 DEF NoneTwice
  <1>9. ASSUME NEW q \in Readers \ {r}
        PROVE  ReaderInv(q)' /\ NoneMissed(q)' /\ NoneTwice(q)'
    BY <1>1 DEF IInv, ReaderInv, NoneMissed, NoneTwice, Signed
  <1> QED
    BY <1>1, <1>2, <1>6, <1>7, <1>8, <1>9 DEF IInv

(* Pages, anchors, failures and restarts in any order keep IInv.           *)
THEOREM Invariance == Spec => []IInv
  <1>1. Init => IInv
    BY InitInv
  <1>2. IInv /\ [Next]_vars => IInv'
    <2> SUFFICES ASSUME IInv, [Next]_vars
                 PROVE  IInv'
      OBVIOUS
    <2>1. CASE UNCHANGED vars
      BY <2>1, LogMoves DEF vars, diskVars, procVars, anchorVars, IInv, LogInv, ReaderInv
    <2>2. CASE Next
      BY <2>2, AppendKeeps, SignKeeps, WrittenKeeps, RestartKeeps, PageKeeps DEF Next
    <2> QED
      BY <2>1, <2>2
  <1> QED
    BY <1>1, <1>2, PTL DEF Spec

(* page() serves the anchors whose head falls inside it: an auditor that   *)
(* follows next holds each whole anchor whose file was there when it       *)
(* passed, and none twice.                                                 *)
THEOREM AnchorsServed == Spec => []AnchorsComplete
  <1>1. IInv => AnchorsComplete
    BY DEF IInv, NoneMissed, NoneTwice, Signed, AnchorsComplete
  <1> QED
    BY <1>1, Invariance, PTL

-----------------------------------------------------------------------------
(* Where the lines end.                                                    *)

LEMMA LineTypes ==
  ASSUME NEW f \in Seq(Line)
  PROVE  /\ Len(f) \in Nat
         /\ \A n \in 1..Len(f) : f[n].length \in Nat /\ f[n].length > 0
<1>1. Len(f) \in Nat /\ \A n \in 1..Len(f) : f[n] \in Line
  OBVIOUS
<1>2. \A l \in Line : l.length \in Nat /\ l.length > 0
  BY DEF Line
<1> QED
  BY <1>1, <1>2

LEMMA EndsEquation ==
  ASSUME NEW f \in Seq(Line)
  PROVE  Ends(f) = [n \in 0..Len(f) |-> IF n = 0 THEN 0 ELSE Ends(f)[n - 1] + f[n].length]
<1>1. Len(f) \in Nat /\ \A n \in 1..Len(f) : f[n].length \in Nat
  BY LineTypes
<1> DEFINE F == [x \in (1..Len(f)) \X Nat |-> x[2] + f[x[1]].length]
<1>2. F \in [(1..Len(f)) \X Nat -> Nat]
  BY <1>1
<1>0. \A n \in 1..Len(f), k \in Nat : F[<<n, k>>] = k + f[n].length
  OBVIOUS
<1> HIDE DEF F
<1>3. PICK g : IsRecursion(g, Len(f), Nat, 0, F)
  BY <1>1, <1>2, FunctionByRecursion
<1>4. \A n \in 1..Len(f) : g[n] = g[n - 1] + f[n].length
  <2>1. \A n \in 1..Len(f) : g[n - 1] \in Nat
    BY <1>1, <1>3 DEF IsRecursion
  <2> QED
    BY <1>0, <1>3, <2>1 DEF IsRecursion
<1>5. g = [n \in 0..Len(f) |-> IF n = 0 THEN 0 ELSE g[n - 1] + f[n].length]
  BY <1>1, <1>3, <1>4 DEF IsRecursion
<1>6. \E h : h = [n \in 0..Len(f) |-> IF n = 0 THEN 0 ELSE h[n - 1] + f[n].length]
  BY <1>5
<1> DEFINE E == Ends(f)
<1>7. E = CHOOSE h : h = [n \in 0..Len(f) |-> IF n = 0 THEN 0 ELSE h[n - 1] + f[n].length]
  BY DEF Ends
<1> HIDE DEF E
<1>8. E = [n \in 0..Len(f) |-> IF n = 0 THEN 0 ELSE E[n - 1] + f[n].length]
  BY <1>6, <1>7, Zenon
<1> QED
  BY <1>8 DEF E

LEMMA EndsFacts ==
  ASSUME NEW f \in Seq(Line)
  PROVE  /\ Len(f) \in Nat
         /\ Ends(f)[0] = 0
         /\ \A n \in 1..Len(f) : Ends(f)[n] = Ends(f)[n - 1] + f[n].length
         /\ \A n \in 0..Len(f) : Ends(f)[n] \in Nat
<1> DEFINE E == Ends(f)
           S == {n \in Nat : n <= Len(f) => E[n] \in Nat}
<1>1. Len(f) \in Nat /\ \A n \in 1..Len(f) : f[n].length \in Nat
  BY LineTypes
<1>2. E = [n \in 0..Len(f) |-> IF n = 0 THEN 0 ELSE E[n - 1] + f[n].length]
  BY EndsEquation
<1> HIDE DEF E
<1>3. E[0] = 0 /\ \A n \in 1..Len(f) : E[n] = E[n - 1] + f[n].length
  BY <1>1, <1>2
<1>4. 0 \in S
  BY <1>3
<1>5. ASSUME NEW n \in Nat, n \in S
      PROVE  n + 1 \in S
  <2>1. CASE n + 1 <= Len(f)
    <3>1. n + 1 \in 1..Len(f) /\ E[n] \in Nat
      BY <1>1, <1>5, <2>1
    <3>2. E[n + 1] = E[n] + f[n + 1].length
      BY <1>3, <3>1
    <3> QED
      BY <1>1, <3>1, <3>2
  <2>2. CASE ~(n + 1 <= Len(f))
    BY <2>2
  <2> QED
    BY <2>1, <2>2
<1> HIDE DEF S
<1>6. Nat \subseteq S
  BY <1>4, <1>5, SetInduction
<1>7. \A n \in 0..Len(f) : E[n] \in Nat
  BY <1>1, <1>6 DEF S
<1> QED
  BY <1>1, <1>3, <1>7 DEF E

(* A line has a byte at least: later lines end later.                      *)
LEMMA EndsGrow ==
  ASSUME NEW f \in Seq(Line), NEW m \in 0..Len(f), NEW n \in 0..Len(f), m < n
  PROVE  Ends(f)[m] < Ends(f)[n]
<1> DEFINE E == Ends(f)
           S == {k \in Nat : (m + 1) + k <= Len(f) => E[m] < E[(m + 1) + k]}
<1>1. /\ Len(f) \in Nat /\ \A k \in 1..Len(f) : f[k].length \in Nat /\ f[k].length > 0
      /\ \A k \in 1..Len(f) : E[k] = E[k - 1] + f[k].length
      /\ \A k \in 0..Len(f) : E[k] \in Nat
  BY EndsFacts, LineTypes
<1> HIDE DEF E
<1>2. ASSUME NEW k \in 0..Len(f), k + 1 <= Len(f)
      PROVE  E[k] < E[k + 1] /\ E[k] \in Nat /\ E[k + 1] \in Nat
  <2>1. k + 1 \in 1..Len(f) /\ (k + 1) - 1 = k /\ k + 1 \in 0..Len(f)
    BY <1>1, <1>2
  <2>2. E[k + 1] = E[k] + f[k + 1].length /\ E[k] \in Nat /\ E[k + 1] \in Nat
    BY <1>1, <2>1
  <2> QED
    BY <1>1, <2>1, <2>2
<1>3. 0 \in S
  BY <1>1, <1>2
<1>4. ASSUME NEW k \in Nat, k \in S
      PROVE  k + 1 \in S
  <2>1. CASE (m + 1) + (k + 1) <= Len(f)
    <3>1. (m + 1) + k \in 0..Len(f) /\ ((m + 1) + k) + 1 <= Len(f) /\ ((m + 1) + k) + 1 = (m + 1) + (k + 1)
      BY <1>1, <2>1
    <3>2. E[m] < E[(m + 1) + k] /\ E[m] \in Nat
      BY <1>1, <1>4, <3>1
    <3>3. /\ E[(m + 1) + k] < E[(m + 1) + (k + 1)]
          /\ E[(m + 1) + k] \in Nat /\ E[(m + 1) + (k + 1)] \in Nat
      BY <1>2, <3>1
    <3> QED
      BY <3>2, <3>3
  <2>2. CASE ~((m + 1) + (k + 1) <= Len(f))
    BY <2>2
  <2> QED
    BY <2>1, <2>2
<1> HIDE DEF S
<1>5. Nat \subseteq S
  BY <1>3, <1>4, SetInduction
<1>6. n - (m + 1) \in Nat /\ (m + 1) + (n - (m + 1)) = n /\ n <= Len(f)
  BY <1>1
<1>7. E[m] < E[(m + 1) + (n - (m + 1))]
  BY <1>5, <1>6 DEF S
<1> QED
  BY <1>6, <1>7 DEF E

(* A line more leaves the ends of the others where they are.               *)
LEMMA EndsStay ==
  ASSUME NEW f \in Seq(Line), NEW l \in Line
  PROVE  /\ \A n \in 0..Len(f) : Ends(Append(f, l))[n] = Ends(f)[n]
         /\ Ends(Append(f, l))[Len(f) + 1] = Ends(f)[Len(f)] + l.length
<1> DEFINE g == Append(f, l)
           E == Ends(f)
           G == Ends(g)
           S == {n \in Nat : n <= Len(f) => G[n] = E[n]}
<1>1. /\ g \in Seq(Line) /\ Len(g) = Len(f) + 1 /\ g[Len(f) + 1] = l /\ Len(f) \in Nat
      /\ \A n \in 1..Len(f) : g[n] = f[n]
  BY AppendProperties
<1> HIDE DEF g
<1>2. /\ E[0] = 0 /\ G[0] = 0
      /\ \A n \in 1..Len(f) : E[n] = E[n - 1] + f[n].length
      /\ \A n \in 1..Len(g) : G[n] = G[n - 1] + g[n].length
  BY <1>1, EndsFacts
<1> HIDE DEF E, G
<1>3. 0 \in S
  BY <1>2
<1>4. ASSUME NEW n \in Nat, n \in S
      PROVE  n + 1 \in S
  <2>1. CASE n + 1 <= Len(f)
    <3>1. n + 1 \in 1..Len(f) /\ n + 1 \in 1..Len(g) /\ (n + 1) - 1 = n /\ G[n] = E[n]
      BY <1>1, <1>4, <2>1
    <3>2. G[n + 1] = G[n] + g[n + 1].length /\ E[n + 1] = E[n] + f[n + 1].length
      BY <1>2, <3>1
    <3> QED
      BY <1>1, <3>1, <3>2
  <2>2. CASE ~(n + 1 <= Len(f))
    BY <2>2
  <2> QED
    BY <2>1, <2>2
<1> HIDE DEF S
<1>5. Nat \subseteq S
  BY <1>3, <1>4, SetInduction
<1>6. \A n \in 0..Len(f) : G[n] = E[n]
  BY <1>1, <1>5 DEF S
<1>7. G[Len(f) + 1] = E[Len(f)] + l.length
  <2>1. Len(f) + 1 \in 1..Len(g) /\ (Len(f) + 1) - 1 = Len(f) /\ Len(f) \in 0..Len(f)
    BY <1>1
  <2> QED
    BY <1>1, <1>2, <1>6, <2>1
<1> QED
  BY <1>6, <1>7 DEF E, G, g

-----------------------------------------------------------------------------
(* The index in memory: of a log that opened, one offset for each line its *)
(* head names, the lines whole, and the bytes up to their end; and a log   *)
(* that does not refuse has every line of the file.                        *)
IndexInv ==
    /\ offsets \in Seq(Nat) /\ bytes \in Nat
    /\ opened \in BOOLEAN /\ refusing \in BOOLEAN
    /\ ~refusing => opened /\ head = Len(file) /\ diskHead = Len(file)
    /\ opened =>
          /\ Len(offsets) = head /\ bytes = Start(head + 1)
          /\ \A n \in 1..head : offsets[n] = Start(n) /\ file[n].whole

Held == [next : Nat, records : Seq(Nat), anchors : SUBSET (DOMAIN anchors), served : Nat]

(* What an auditor holds.                                                  *)
HeldInv(r) ==
    /\ reader[r] \in Held
    /\ late[r] \subseteq DOMAIN anchors
    /\ reader[r].records = [n \in 1..reader[r].next |-> n - 1]

PageInv == IndexInv /\ \A r \in Readers : HeldInv(r)

LEMMA StartTypes ==
  ASSUME LogInv
  PROVE  /\ Len(file) \in Nat /\ DOMAIN file = 1..Len(file)
         /\ \A n \in 1..(Len(file) + 1) : Start(n) \in Nat
  <1>1. Len(file) \in Nat /\ DOMAIN file = 1..Len(file) /\ file \in Seq(Line)
    BY DEF LogInv
  <1>2. \A n \in 0..Len(file) : Ends(file)[n] \in Nat
    BY <1>1, EndsFacts
  <1> QED
    BY <1>1, <1>2 DEF Start

(* Lines that were there start where they did when another is written.     *)
LEMMA StartsStay ==
  ASSUME LogInv, NEW l \in Line, file' = Append(file, l)
  PROVE  /\ Len(file') = Len(file) + 1
         /\ \A n \in 1..(Len(file) + 1) : Start(n)' = Start(n)
         /\ Start(Len(file) + 1)' = Start(Len(file) + 1) + l.length
         /\ \A n \in 1..Len(file) : file'[n] = file[n]
         /\ file'[Len(file) + 1] = l
  <1>1. Len(file) \in Nat /\ file \in Seq(Line)
    BY DEF LogInv
  <1>2. /\ Len(file') = Len(file) + 1 /\ file'[Len(file) + 1] = l
        /\ \A n \in 1..Len(file) : file'[n] = file[n]
    BY <1>1, AppendProperties
  <1>3. /\ \A n \in 0..Len(file) : Ends(file')[n] = Ends(file)[n]
        /\ Ends(file')[Len(file) + 1] = Ends(file)[Len(file)] + l.length
    BY <1>1, EndsStay
  <1>4. ASSUME NEW n \in 1..(Len(file) + 1)
        PROVE  Start(n)' = Start(n)
    <2>1. n - 1 \in 0..Len(file)
      BY <1>1
    <2> QED
      BY <1>3, <2>1 DEF Start
  <1>5. Start(Len(file) + 1)' = Start(Len(file) + 1) + l.length
    <2>1. (Len(file) + 1) - 1 = Len(file) /\ (Len(file') + 1) - 1 = Len(file) + 1
      BY <1>1, <1>2
    <2> QED
      BY <1>2, <1>3, <2>1 DEF Start
  <1> QED
    BY <1>2, <1>4, <1>5

LEMMA InitPages == Init => PageInv
  <1> SUFFICES ASSUME Init
               PROVE  PageInv
    OBVIOUS
  <1>1. LogInv
    BY InitInv DEF IInv
  <1>2. file = <<>> /\ file \in Seq(Line) /\ Len(file) = 0
    BY <1>1 DEF Init, LogInv
  <1>3. Ends(file)[0] = 0
    BY <1>2, EndsFacts
  <1>4. IndexInv
    <2>1. Start(0 + 1) = 0
      BY <1>3 DEF Start
    <2>2. /\ offsets = <<>> /\ bytes = 0 /\ head = 0 /\ diskHead = 0
          /\ opened = TRUE /\ refusing = FALSE
      BY DEF Init
    <2>3. <<>> \in Seq(Nat) /\ Len(<<>>) = 0 /\ 1..0 = {}
      OBVIOUS
    <2>4. bytes = Start(head + 1) /\ bytes \in Nat
      BY <2>1, <2>2
    <2>5. offsets \in Seq(Nat) /\ Len(offsets) = head /\ 1..head = {}
      BY <2>2, <2>3
    <2>6. head = Len(file) /\ diskHead = Len(file)
      BY <1>2, <2>2
    <2>7. opened \in BOOLEAN /\ refusing \in BOOLEAN /\ opened
      BY <2>2
    <2> HIDE DEF Start
    <2> QED
      BY <2>4, <2>5, <2>6, <2>7 DEF IndexInv
  <1>5. ASSUME NEW r \in Readers
        PROVE  HeldInv(r)
    <2>1. reader[r] = [next |-> 0, records |-> <<>>, anchors |-> {}, served |-> 0] /\ late[r] = {}
      BY DEF Init
    <2>2. <<>> = [n \in 1..0 |-> n - 1]
      OBVIOUS
    <2> QED
      BY <2>1, <2>2 DEF HeldInv, Held
  <1> QED
    BY <1>4, <1>5 DEF PageInv

(* A step that leaves the file and the index alone, or only makes the log  *)
(* refuse.                                                                 *)
LEMMA IndexStays ==
  ASSUME IndexInv, UNCHANGED <<file, diskHead, head, offsets, bytes, opened>>, refusing' \in {refusing, TRUE}
  PROVE  IndexInv'
  BY DEF IndexInv, Start

LEMMA HeldStays ==
  ASSUME NEW r \in Readers, HeldInv(r), UNCHANGED <<anchors, reader, late>>
  PROVE  HeldInv(r)'
  BY DEF HeldInv, Held

LEMMA AppendIndex ==
  ASSUME LogInv, IndexInv, NEW length \in Lengths, AppendRecord(length)
  PROVE  IndexInv'
  <1> DEFINE l == [length |-> length, whole |-> TRUE]
  <1>1. /\ file' = Append(file, l) /\ diskHead' = Len(file') /\ head' = Len(file')
        /\ offsets' = Append(offsets, bytes) /\ bytes' = bytes + length
        /\ UNCHANGED <<opened, refusing>>
        /\ opened /\ head = Len(file)
    BY DEF AppendRecord, IndexInv
  <1>2. l \in Line /\ l.length = length /\ l.whole = TRUE
    BY DEF Line
  <1> HIDE DEF l
  <1>3. /\ Len(file') = Len(file) + 1 /\ Len(file) \in Nat
        /\ \A n \in 1..(Len(file) + 1) : Start(n)' = Start(n)
        /\ Start(Len(file) + 1)' = Start(Len(file) + 1) + l.length
        /\ \A n \in 1..Len(file) : file'[n] = file[n]
        /\ file'[Len(file) + 1] = l
    BY <1>1, <1>2, StartsStay, StartTypes
  <1>4. /\ offsets \in Seq(Nat) /\ bytes \in Nat /\ Len(offsets) = Len(file)
        /\ bytes = Start(Len(file) + 1)
        /\ \A n \in 1..Len(file) : offsets[n] = Start(n) /\ file[n].whole
    BY <1>1 DEF IndexInv
  <1>5. /\ offsets' \in Seq(Nat) /\ Len(offsets') = Len(file) + 1
        /\ \A n \in 1..Len(file) : offsets'[n] = offsets[n]
        /\ offsets'[Len(file) + 1] = bytes
    BY <1>1, <1>4, AppendProperties
  <1>6. bytes' \in Nat /\ bytes' = Start(head + 1)'
    BY <1>1, <1>2, <1>3, <1>4
  <1>7. ASSUME NEW n \in 1..(Len(file) + 1)
        PROVE  offsets'[n] = Start(n)' /\ file'[n].whole
    <2>1. CASE n \in 1..Len(file)
      BY <1>3, <1>4, <1>5, <2>1
    <2>2. CASE n = Len(file) + 1
      BY <1>2, <1>3, <1>4, <1>5, <2>2
    <2> QED
      BY <1>3, <2>1, <2>2
  <1> QED
    BY <1>1, <1>3, <1>5, <1>6, <1>7 DEF IndexInv

LEMMA FailIndex ==
  ASSUME LogInv, IndexInv, NEW length \in Lengths, AppendFails(length)
  PROVE  IndexInv'
  <1>1. PICK whole \in BOOLEAN : file' = Append(file, [length |-> length, whole |-> whole])
    BY DEF AppendFails
  <1>2. refusing' = TRUE /\ UNCHANGED <<head, offsets, bytes, opened>>
    BY DEF AppendFails
  <1>3. [length |-> length, whole |-> whole] \in Line
    BY DEF Line
  <1>4. /\ Len(file) \in Nat
        /\ \A n \in 1..(Len(file) + 1) : Start(n)' = Start(n)
        /\ \A n \in 1..Len(file) : file'[n] = file[n]
    BY <1>1, <1>3, StartsStay, StartTypes
  <1>5. head \in 0..Len(file)
    BY <1>4 DEF LogInv
  <1>6. Start(head + 1)' = Start(head + 1)
    <2>1. head' + 1 = head + 1 /\ head + 1 \in 1..(Len(file) + 1)
      BY <1>2, <1>4, <1>5
    <2>2. PICK n \in 1..(Len(file) + 1) : n = head + 1
      BY <2>1
    <2>3. Start(n)' = Start(n)
      BY <1>4
    <2> QED
      BY <2>1, <2>2, <2>3
  <1>7. \A n \in 1..head : Start(n)' = Start(n) /\ file'[n] = file[n]
    BY <1>4, <1>5
  <1> QED
    BY <1>2, <1>6, <1>7 DEF IndexInv

LEMMA RestartIndex ==
  ASSUME LogInv, Restart
  PROVE  IndexInv'
  <1> DEFINE agrees == diskHead = Len(file) /\ \A n \in DOMAIN file : file[n].whole
  <1>1. /\ UNCHANGED <<file, diskHead>>
        /\ opened' = agrees /\ refusing' = ~agrees
        /\ head' = IF agrees THEN diskHead ELSE 0
        /\ offsets' = IF agrees THEN [n \in DOMAIN file |-> Start(n)] ELSE <<>>
        /\ bytes' = IF agrees THEN Start(Len(file) + 1) ELSE 0
    BY DEF Restart, diskVars
  <1>2. /\ Len(file) \in Nat /\ DOMAIN file = 1..Len(file)
        /\ \A n \in 1..(Len(file) + 1) : Start(n) \in Nat /\ Start(n)' = Start(n)
    BY <1>1, StartTypes DEF Start
  <1>3. CASE agrees
    <2>1. \A n \in 1..Len(file) : file[n].whole
      BY <1>2, <1>3
    <2>2. /\ opened' = TRUE /\ refusing' = FALSE /\ head' = Len(file)
          /\ offsets' = [n \in 1..Len(file) |-> Start(n)] /\ bytes' = Start(Len(file) + 1)
      BY <1>1, <1>2, <1>3
    <2> HIDE DEF agrees
    <2>3. /\ offsets' \in Seq(Nat) /\ Len(offsets') = Len(file)
          /\ \A n \in 1..Len(file) : offsets'[n] = Start(n)
      BY <1>2, <2>2
    <2>4. bytes' \in Nat /\ bytes' = Start(head + 1)'
      BY <1>1, <1>2, <2>2 DEF Start
    <2> QED
      BY <1>1, <1>2, <2>1, <2>2, <2>3, <2>4 DEF IndexInv
  <1>4. CASE ~agrees
    <2>1. opened' = FALSE /\ refusing' = TRUE /\ offsets' = <<>> /\ bytes' = 0
      BY <1>1, <1>4
    <2>2. offsets' \in Seq(Nat) /\ bytes' \in Nat
      <3>1. <<>> \in Seq(Nat)
        OBVIOUS
      <3> QED
        BY <2>1, <3>1
    <2>3. opened' \in BOOLEAN /\ refusing' \in BOOLEAN /\ ~opened' /\ refusing'
      BY <2>1, Zenon
    <2> HIDE DEF agrees
    <2> QED
      BY <2>2, <2>3 DEF IndexInv
  <1> QED
    BY <1>3, <1>4

LEMMA IndexKeeps ==
  ASSUME LogInv, IndexInv, [Next]_vars
  PROVE  IndexInv'
  <1>1. CASE UNCHANGED vars
    BY <1>1, IndexStays DEF vars, diskVars, procVars
  <1>2. CASE SignAnchor
    BY <1>2, IndexStays DEF SignAnchor, diskVars, procVars
  <1>3. CASE AnchorWritten
    BY <1>3, IndexStays DEF AnchorWritten, diskVars
  <1>4. ASSUME NEW r \in Readers, NEW limit \in Limits, Page(r, limit)
        PROVE  IndexInv'
    BY <1>4, IndexStays DEF Page, diskVars, procVars
  <1> QED
    BY <1>1, <1>2, <1>3, <1>4, AppendIndex, FailIndex, RestartIndex DEF Next

(* A page holds one record for each of its positions.                      *)
LEMMA PageRecords ==
  ASSUME NEW from \in Nat, NEW to \in Nat, from <= to, NEW s, s = [n \in 1..from |-> n - 1]
  PROVE  s \o [k \in 1..(to - from) |-> from + k - 1] = [n \in 1..to |-> n - 1]
  <1> DEFINE t == [k \in 1..(to - from) |-> from + k - 1]
             u == [n \in 1..to |-> n - 1]
  <1>1. s \in Seq(Nat) /\ Len(s) = from /\ \A n \in 1..from : s[n] = n - 1
    OBVIOUS
  <1>2. to - from \in Nat
    OBVIOUS
  <1>3. t \in Seq(Nat) /\ Len(t) = to - from /\ \A k \in 1..(to - from) : t[k] = from + k - 1
    BY <1>2
  <1>4. u \in Seq(Nat) /\ Len(u) = to /\ \A n \in 1..to : u[n] = n - 1
    OBVIOUS
  <1> HIDE DEF t, u
  <1>5. s \o t \in Seq(Nat) /\ Len(s \o t) = to
    BY <1>1, <1>2, <1>3, ConcatProperties
  <1>6. ASSUME NEW n \in 1..to
        PROVE  (s \o t)[n] = u[n]
    <2>1. CASE n <= from
      <3>1. n \in 1..Len(s) /\ n \in 1..(Len(s) + Len(t))
        BY <1>1, <1>2, <1>3, <2>1
      <3>2. (s \o t)[n] = s[n]
        BY <1>1, <1>3, <3>1, ConcatProperties
      <3> QED
        BY <1>1, <1>4, <2>1, <3>2
    <2>2. CASE ~(n <= from)
      <3>1. n \in 1..(Len(s) + Len(t)) /\ n - Len(s) \in 1..(to - from) /\ ~(n <= Len(s))
        BY <1>1, <1>2, <1>3, <2>2
      <3>2. (s \o t)[n] = t[n - Len(s)]
        BY <1>1, <1>3, <3>1, ConcatProperties
      <3>3. t[n - Len(s)] = n - 1
        BY <1>1, <1>3, <3>1
      <3> QED
        BY <1>4, <3>2, <3>3
    <2> QED
      BY <2>1, <2>2
  <1> QED
    BY <1>4, <1>5, <1>6, SeqEqual DEF t, u

LEMMA HeldKeeps ==
  ASSUME IInv, NEW q \in Readers, HeldInv(q), NEW r \in Readers, NEW limit \in Limits, Page(r, limit)
  PROVE  HeldInv(q)'
  <1> DEFINE from == reader[r].next
             to   == To(from, limit)
             came == InPage(from, to)
  <1>1. /\ opened
        /\ UNCHANGED <<anchors, late>>
        /\ q # r => reader'[q] = reader[q]
        /\ q = r => /\ reader'[r] \in [next : {to}, records : {reader'[r].records},
                                       anchors : {reader[r].anchors \cup came},
                                       served : {reader[r].served + Cardinality(Signed(came))}]
                    /\ reader'[r].records = reader[r].records \o [k \in 1..(to - from) |-> from + k - 1]
    BY DEF IInv, Page, Answered, Signed, procVars, anchorVars
  <1>2. CASE q # r
    BY <1>1, <1>2 DEF HeldInv, Held
  <1>3. CASE q = r
    <2>1. ReaderInv(r) /\ LogInv /\ HeldInv(r)
      BY <1>3 DEF IInv
    <2>2. from \in Nat /\ from <= head
      BY <1>1, <2>1 DEF ReaderInv
    <2>3. to \in Nat /\ from <= to
      <3> HIDE DEF from
      <3> QED
        BY <2>1, <2>2, EndOfPage
    <2>4. came \subseteq DOMAIN anchors /\ Signed(came) \subseteq DOMAIN anchors
      BY DEF InPage, Signed
    <2>5. Cardinality(Signed(came)) \in Nat
      <3>1. IsFiniteSet(DOMAIN anchors)
        BY <2>1, AnchorTypes, FS_Interval
      <3> HIDE DEF came
      <3> QED
        BY <2>4, <3>1, FS_Subset, FS_CardinalityType
    <2>6. reader'[r].records = [n \in 1..to |-> n - 1]
      <3>1. reader[r].records = [n \in 1..from |-> n - 1]
        BY <2>1 DEF HeldInv
      <3> HIDE DEF from, to
      <3> QED
        BY <1>1, <1>3, <2>2, <2>3, <3>1, PageRecords
    <2>7. reader'[r].records \in Seq(Nat)
      <3> HIDE DEF to
      <3> QED
        BY <2>3, <2>6
    <2> HIDE DEF from, to, came
    <2>8. reader'[r] \in Held /\ reader'[r].next = to
      BY <1>1, <1>3, <2>1, <2>3, <2>4, <2>5, <2>7 DEF HeldInv, Held
    <2> QED
      BY <1>1, <1>3, <2>1, <2>6, <2>8 DEF HeldInv, Held
  <1> QED
    BY <1>2, <1>3

(* An anchor's file more leaves the auditors what they hold.               *)
LEMMA HeldWritten ==
  ASSUME LogInv, NEW q \in Readers, HeldInv(q), AnchorWritten, late = [x \in Readers |-> late[x]]
  PROVE  HeldInv(q)'
  <1>1. PICK whole \in BOOLEAN : WriteAnchor(whole)
    BY DEF AnchorWritten
  <1> DEFINE a == [seq |-> signing, whole |-> whole]
  <1>2. /\ anchors' = Append(anchors, a) /\ reader' = reader
        /\ late'[q] \in {late[q], late[q] \cup {Len(anchors')}}
    BY <1>1 DEF AnchorWritten, WriteAnchor
  <1>3. a \in Anchor
    BY DEF LogInv, AnchorWritten, Anchor
  <1> HIDE DEF a
  <1>4. DOMAIN anchors \subseteq DOMAIN anchors' /\ Len(anchors') \in DOMAIN anchors'
    BY <1>2, <1>3, AnchorsStay
  <1> QED
    BY <1>2, <1>4 DEF HeldInv, Held

(* The index agrees with the file, and an auditor holds each record before *)
(* next, after any step.                                                   *)
THEOREM PagesInvariance == Spec => []PageInv
  <1>1. Init => PageInv
    BY InitPages
  <1>2. IInv /\ PageInv /\ [Next]_vars => PageInv'
    <2> SUFFICES ASSUME IInv, PageInv, [Next]_vars
                 PROVE  PageInv'
      OBVIOUS
    <2>1. LogInv /\ IndexInv /\ late = [x \in Readers |-> late[x]]
      BY DEF IInv, PageInv
    <2>2. IndexInv'
      BY <2>1, IndexKeeps
    <2>3. ASSUME NEW q \in Readers
          PROVE  HeldInv(q)'
      <3>1. HeldInv(q)
        BY DEF PageInv
      <3>2. CASE UNCHANGED <<anchors, reader, late>>
        BY <3>1, <3>2, HeldStays
      <3>3. CASE AnchorWritten
        BY <2>1, <3>1, <3>3, HeldWritten
      <3>4. ASSUME NEW r \in Readers, NEW limit \in Limits, Page(r, limit)
            PROVE  HeldInv(q)'
        BY <3>1, <3>4, HeldKeeps
      <3>5. CASE \E length \in Lengths : AppendRecord(length) \/ AppendFails(length)
        BY <3>2, <3>5 DEF AppendRecord, AppendFails, anchorVars
      <3>6. CASE SignAnchor \/ Restart \/ UNCHANGED vars
        BY <3>2, <3>6 DEF SignAnchor, Restart, vars, anchorVars
      <3> QED
        BY <3>3, <3>4, <3>5, <3>6 DEF Next
    <2> QED
      BY <2>2, <2>3 DEF PageInv
  <1> QED
    BY <1>1, <1>2, Invariance, PTL DEF Spec

THEOREM TypeCorrect == Spec => []TypeOK
  <1>1. IInv /\ PageInv => TypeOK
    <2> SUFFICES ASSUME IInv, PageInv
                 PROVE  TypeOK
      OBVIOUS
    <2>1. /\ file \in Seq(Line) /\ diskHead \in 0..Len(file) /\ head \in 0..Len(file)
          /\ anchors \in Seq(Anchor) /\ signing \in Nat \cup {NoSeq}
      BY StartTypes DEF IInv, LogInv
    <2>2. offsets \in Seq(Nat) /\ bytes \in Nat /\ opened \in BOOLEAN /\ refusing \in BOOLEAN
      BY DEF PageInv, IndexInv
    <2>3. /\ reader \in [Readers -> Held]
          /\ late \in [Readers -> SUBSET (DOMAIN anchors)]
      BY DEF IInv, PageInv, HeldInv
    <2> QED
      BY <2>1, <2>2, <2>3 DEF TypeOK, Held, Line, Anchor
  <1> QED
    BY <1>1, Invariance, PagesInvariance, PTL

(* GET /v1/audit gives an auditor that follows next each record before it, *)
(* once and in order, and none the log's head does not name.               *)
THEOREM RecordsServed == Spec => []RecordsInOrder
  <1>1. IInv /\ PageInv => RecordsInOrder
    BY DEF IInv, ReaderInv, PageInv, HeldInv, RecordsInOrder
  <1> QED
    BY <1>1, Invariance, PagesInvariance, PTL

(* What lies between two offsets of the index is the records of the page.  *)
LEMMA RangeAgrees ==
  ASSUME LogInv, IndexInv, opened, NEW from \in Nat, NEW to \in Nat, from < to, to <= head
  PROVE  ReadAgrees(from, to)
  <1> DEFINE E == Ends(file)
             range == PageRange(from, to)
  <1>1. /\ Len(file) \in Nat /\ DOMAIN file = 1..Len(file)
        /\ Len(offsets) = head /\ bytes = Start(head + 1) /\ head <= Len(file) /\ head \in Nat
        /\ \A n \in 1..head : offsets[n] = Start(n) /\ file[n].whole
    BY StartTypes DEF LogInv, IndexInv
  <1>2. \A n \in 0..Len(file) : E[n] \in Nat
    BY <1>1, EndsFacts DEF LogInv
  <1>3. \A m, n \in 0..Len(file) : m < n => E[m] < E[n]
    BY <1>1, EndsGrow DEF LogInv
  <1>4. /\ \A n \in 1..Len(file) : Start(n) = E[n - 1] /\ Start(n + 1) = E[n]
        /\ Start(from + 1) = E[from] /\ Start(to + 1) = E[to]
    BY DEF Start
  <1> HIDE DEF E
  <1>5. range[1] = E[from] /\ range[2] = E[to]
    <2>1. offsets[from + 1] = E[from]
      BY <1>1, <1>4
    <2>2. CASE to < Len(offsets)
      BY <1>1, <1>4, <2>1, <2>2 DEF PageRange
    <2>3. CASE ~(to < Len(offsets))
      <3>1. to = head
        BY <1>1, <2>3
      <3> QED
        BY <1>1, <1>4, <2>1, <2>3, <3>1 DEF PageRange
    <2> QED
      BY <2>2, <2>3
  <1> HIDE DEF range
  <1>6. to \in 1..Len(file) /\ from \in 0..Len(file) /\ to \in 0..Len(file)
    BY <1>1
  <1>7. Start(to + 1) = range[2] /\ file[to].whole
    BY <1>1, <1>4, <1>5
  <1>8. ASSUME NEW n \in 1..Len(file)
        PROVE  n \in Lines(range) <=> n \in (from + 1)..to
    <2>1. n - 1 \in 0..Len(file) /\ n \in 0..Len(file)
      BY <1>1
    <2>2. n \in Lines(range) <=> E[from] <= E[n - 1] /\ E[n] <= E[to] /\ file[n].whole
      BY <1>1, <1>4, <1>5 DEF Lines
    <2>3. E[from] <= E[n - 1] <=> from <= n - 1
      BY <1>1, <1>2, <1>3, <1>6, <2>1
    <2>4. E[n] <= E[to] <=> n <= to
      BY <1>1, <1>2, <1>3, <1>6, <2>1
    <2>5. n <= to => file[n].whole
      BY <1>1
    <2> QED
      BY <2>2, <2>3, <2>4, <2>5
  <1>9. Lines(range) = (from + 1)..to
    <2>1. Lines(range) \subseteq 1..Len(file) /\ (from + 1)..to \subseteq 1..Len(file)
      BY <1>1 DEF Lines
    <2> QED
      BY <1>8, <2>1
  <1> QED
    BY <1>1, <1>6, <1>7, <1>9 DEF ReadAgrees, range

(* A log that opened answers every range under its head, unless the file   *)
(* of an anchor in the range does not parse.                               *)
THEOREM RangesServed == Spec => []PagesAnswered
  <1>1. IInv /\ PageInv => PagesAnswered
    <2> SUFFICES ASSUME IInv, PageInv, opened, NEW from \in 0..head, NEW limit \in Limits,
                        \A n \in InPage(from, To(from, limit)) : anchors[n].whole
                 PROVE  Answered(from, limit)
      BY DEF PagesAnswered
    <2>1. LogInv /\ IndexInv
      BY DEF IInv, PageInv
    <2> DEFINE to == To(from, limit)
    <2>2. from \in Nat /\ from <= head
      BY <2>1 DEF LogInv
    <2>3. to \in Nat /\ from <= to /\ to <= head
      BY <2>1, <2>2, EndOfPage
    <2> HIDE DEF to
    <2>4. CASE from < to
      BY <2>1, <2>2, <2>3, <2>4, RangeAgrees DEF Answered, to
    <2>5. CASE ~(from < to)
      BY <2>5 DEF Answered, ReadAgrees, to
    <2> QED
      BY <2>4, <2>5
  <1> QED
    BY <1>1, Invariance, PagesInvariance, PTL
=============================================================================
