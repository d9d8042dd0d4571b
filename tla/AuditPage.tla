----------------------------- MODULE AuditPage ------------------------------
(***************************************************************************)
(* GET /v1/audit (apps/broker/src/routes/audit.ts) over page() of log.ts:  *)
(* auditors follow `next` through the chain while records are appended,    *)
(* appends and anchors fail, and the process restarts.                     *)
(*                                                                         *)
(* page() is synchronous, so a page is one step.  The chain file is its    *)
(* lines by length, which is what the index in memory is about; writes     *)
(* that store a part and return are ProvidenceLog's subject.               *)
(***************************************************************************)
EXTENDS Integers, Sequences, FiniteSets, FiniteSetsExt

CONSTANTS Readers,
          Lengths,     \* of a record's line, in bytes
          Limits,      \* the limits readers ask for
          MaxLines,    \* bound on the lines of the chain file
          MaxAnchors   \* bound on the files under anchors/

ASSUME PageAssumption ==
    /\ Lengths \cup Limits \subseteq Nat \ {0}
    /\ MaxLines \in Nat
    /\ MaxAnchors \in Nat

VARIABLES file,     \* the lines of the chain file: lengths, the last may be partial
          diskHead, \* seq in the head file
          head,     \* this.head.seq
          offsets,  \* lineOffsets
          bytes,    \* chainBytes
          opened,   \* lineOffsets is defined
          refusing, \* this.failure is set
          anchors,  \* the files under anchors/, oldest first
          signing,  \* head_seq of the anchor being signed, or NoSeq
          reader,   \* what each auditor holds
          late      \* history: anchors that came when a reader was past them

diskVars == <<file, diskHead>>
procVars == <<head, offsets, bytes, opened, refusing>>
anchorVars == <<anchors, signing>>
vars == <<diskVars, procVars, anchorVars, reader, late>>

NoSeq == -1

TypeOK ==
    /\ file \in Seq([length : Lengths, whole : BOOLEAN])
    /\ diskHead \in 0..Len(file)
    /\ head \in 0..Len(file)
    /\ offsets \in Seq(Nat)
    /\ bytes \in Nat
    /\ opened \in BOOLEAN /\ refusing \in BOOLEAN
    /\ anchors \in Seq([seq : Nat, whole : BOOLEAN])
    /\ signing \in Nat \cup {NoSeq}
    /\ reader \in [Readers -> [next : Nat, records : Seq(Nat), anchors : SUBSET (DOMAIN anchors),
                               served : Nat]]
    /\ late \in [Readers -> SUBSET (DOMAIN anchors)]

Init ==
    /\ file = <<>> /\ diskHead = 0
    /\ head = 0 /\ offsets = <<>> /\ bytes = 0
    /\ opened = TRUE /\ refusing = FALSE
    /\ anchors = <<>> /\ signing = NoSeq
    /\ reader = [r \in Readers |-> [next |-> 0, records |-> <<>>, anchors |-> {}, served |-> 0]]
    /\ late = [r \in Readers |-> {}]

-----------------------------------------------------------------------------
(* Where each line ends.                                                   *)
Ends(lines) ==
    LET end[n \in 0..Len(lines)] == IF n = 0 THEN 0 ELSE end[n - 1] + lines[n].length
    IN  end

(* Where line n of the file starts; Start(Len(file) + 1) is its end.       *)
Start(n) == Ends(file)[n - 1]

(* append: the line, the head, then the index.                             *)
AppendRecord(length) ==
    /\ Len(file) < MaxLines
    /\ ~refusing
    /\ file' = Append(file, [length |-> length, whole |-> TRUE])
    /\ diskHead' = Len(file')
    /\ head' = Len(file')
    /\ offsets' = Append(offsets, bytes)
    /\ bytes' = bytes + length
    /\ UNCHANGED <<opened, refusing, anchorVars, reader, late>>

HeadBeforeLine(length) ==
    /\ Len(file) < MaxLines
    /\ ~refusing
    /\ diskHead' = diskHead + 1
    /\ refusing' = TRUE
    /\ UNCHANGED <<file, head, offsets, bytes, opened, anchorVars, reader, late>>

AdvancesAnyway(length) ==
    /\ Len(file) < MaxLines
    /\ ~refusing
    /\ file' = Append(file, [length |-> length, whole |-> TRUE])
    /\ head' = Len(file')
    /\ offsets' = Append(offsets, bytes)
    /\ bytes' = bytes + length
    /\ refusing' = TRUE
    /\ UNCHANGED <<diskHead, opened, anchorVars, reader, late>>

(* append throws: with a part of the line in the file, or the line and not *)
(* the head, or, when only the directory's fsync fails, with both on disk. *)
(* The head and the index in memory stay, and the log refuses.             *)
AppendFails(length) ==
    /\ Len(file) < MaxLines
    /\ ~refusing
    /\ \E whole \in BOOLEAN :
        /\ file' = Append(file, [length |-> length, whole |-> whole])
        /\ diskHead' \in {diskHead} \cup (IF whole THEN {Len(file')} ELSE {})
    /\ refusing' = TRUE
    /\ UNCHANGED <<head, offsets, bytes, opened, anchorVars, reader, late>>

(* exportAnchor up to its await, over the head it has read.                *)
SignAnchor ==
    /\ ~refusing
    /\ signing = NoSeq
    /\ Len(anchors) < MaxAnchors
    /\ signing' = head
    /\ UNCHANGED <<diskVars, procVars, anchors, reader, late>>

(* Is the position of an anchor behind a reader at next?                   *)
Passed(next, seq) == next >= seq /\ next > 0

WriteAnchor(whole) ==
    /\ anchors' = Append(anchors, [seq |-> signing, whole |-> whole])
    /\ signing' = NoSeq
    /\ late' = [r \in Readers |-> IF Passed(reader[r].next, signing)
                                  THEN late[r] \cup {Len(anchors')} ELSE late[r]]

(* The signer answered and the anchor's file is written; or the write      *)
(* fails with a part of it there, and the scheduler makes the log refuse.  *)
AnchorWritten ==
    /\ signing # NoSeq
    /\ \/ WriteAnchor(TRUE) /\ UNCHANGED refusing
       \/ WriteAnchor(FALSE) /\ refusing' = TRUE
    /\ UNCHANGED <<diskVars, head, offsets, bytes, opened, reader>>

(* openHead and indexLines of the next process.                            *)
Restart ==
    LET agrees == diskHead = Len(file) /\ \A n \in DOMAIN file : file[n].whole IN
    /\ signing' = NoSeq
    /\ opened' = agrees
    /\ refusing' = ~agrees
    /\ head' = IF agrees THEN diskHead ELSE 0
    /\ offsets' = IF agrees THEN [n \in DOMAIN file |-> Start(n)] ELSE <<>>
    /\ bytes' = IF agrees THEN Start(Len(file) + 1) ELSE 0
    /\ UNCHANGED <<diskVars, anchors, reader, late>>

-----------------------------------------------------------------------------
(* page(from, limit).                                                      *)
To(from, limit) == Min({head, from + limit})

ReadsToEndOfFile(from, to) == <<offsets[from + 1], Start(Len(file) + 1)>>

(* The bytes read: from the first line's offset to the next line's, or to  *)
(* the end of what the index knows.                                        *)
PageRange(from, to) ==
    <<offsets[from + 1], IF to < Len(offsets) THEN offsets[to + 1] ELSE bytes>>

Lines(range) ==
    {n \in DOMAIN file : range[1] =< Start(n) /\ Start(n + 1) =< range[2] /\ file[n].whole}

(* The range is whole lines, as many as asked for, and the k-th line of it *)
(* holds the record at from + k - 1.                                       *)
ReadAgrees(from, to) ==
    LET range == PageRange(from, to) IN
    from < to =>
        /\ \E n \in DOMAIN file : Start(n + 1) = range[2] /\ file[n].whole
        /\ Lines(range) = from + 1 .. to

AnchorsFromInclusive(from, to) ==
    {n \in DOMAIN anchors : anchors[n].seq >= from /\ anchors[n].seq =< to}

InPage(from, to) ==
    {n \in DOMAIN anchors : /\ anchors[n].seq > from \/ (from = 0 /\ anchors[n].seq = 0)
                            /\ anchors[n].seq =< to}

Answered(from, limit) ==
    LET to == To(from, limit) IN
    /\ opened
    /\ ReadAgrees(from, to)
    /\ \A n \in InPage(from, to) : anchors[n].whole

(* A page that throws changes nothing: 503, or 500 for an anchor's file    *)
(* that does not parse.                                                    *)
Page(r, limit) ==
    LET from == reader[r].next
        to   == To(from, limit)
        came == InPage(from, to) IN
    /\ Answered(from, limit)
    /\ reader' = [reader EXCEPT ![r] =
           [next |-> to,
            records |-> @.records \o [k \in 1..(to - from) |-> from + k - 1],
            anchors |-> @.anchors \cup came,
            served  |-> @.served + Cardinality({n \in came : anchors[n].seq > 0})]]
    /\ UNCHANGED <<diskVars, procVars, anchorVars, late>>

Next ==
    \/ \E length \in Lengths : AppendRecord(length) \/ AppendFails(length)
    \/ SignAnchor
    \/ AnchorWritten
    \/ Restart
    \/ \E r \in Readers, limit \in Limits : Page(r, limit)

Spec == Init /\ [][Next]_vars
-----------------------------------------------------------------------------
(* An auditor who follows next holds every record before it, once and in   *)
(* order, whatever page sizes it asked for, and none the log's head did    *)
(* not name.                                                               *)
RecordsInOrder ==
    \A r \in Readers :
        /\ reader[r].records = [n \in 1..reader[r].next |-> n - 1]
        /\ reader[r].next =< diskHead

(* It holds every anchor whose file was there when it passed the anchor's  *)
(* position, and never got one of them twice.  (An anchor of the empty     *)
(* chain comes with every page from 0.)                                    *)
AnchorsComplete ==
    \A r \in Readers :
        /\ \A n \in DOMAIN anchors :
              anchors[n].whole /\ Passed(reader[r].next, anchors[n].seq)
                  => n \in reader[r].anchors \cup late[r]
        /\ reader[r].served = Cardinality({n \in reader[r].anchors : anchors[n].seq > 0})

(* A log that opened serves every range under its head, also after an      *)
(* append failed with bytes in the file, unless an anchor's file in the    *)
(* range is partial.                                                       *)
PagesAnswered ==
    opened => \A from \in 0..head, limit \in Limits :
        \/ Answered(from, limit)
        \/ \E n \in InPage(from, To(from, limit)) : ~anchors[n].whole
=============================================================================
