--------------------------- MODULE ProvidenceLog ---------------------------
(***************************************************************************)
(* packages/providence-log/src/log.ts: the writer of the Providence chain, *)
(* at the granularity of its file system calls.                            *)
(*                                                                         *)
(* Each broker process is a writer.  Within a process append() and the     *)
(* constructor run to the end without yielding, so the steps of one writer *)
(* interleave only with a kill, a power loss and the steps of another      *)
(* process opened on the same directory.                                   *)
(*                                                                         *)
(* The disk is the directory of the chain.  Every read sees the latest     *)
(* write; what a power loss leaves is what was fsynced, plus any prefix of *)
(* the bytes after it, under one of the directory entries written since    *)
(* the last fsync of the directory (directory updates survive in order).   *)
(***************************************************************************)
EXTENDS ChainRecords

CONSTANTS Writers,      \* the broker processes opened on one directory
          MaxLines,     \* bound on the lines of the chain file
          CallsFail,    \* may a file system call throw?
          ShortWrites,  \* may write(2) return having written only a part?
          Missing,      \* there is no such file
          Unreadable    \* a file parseHead rejects

ASSUME LogAssumption ==
    /\ MaxLines \in Nat
    /\ CallsFail \in BOOLEAN
    /\ ShortWrites \in BOOLEAN
    /\ Missing # Unreadable
    /\ Missing \notin GuardHead /\ Unreadable \notin GuardHead

VARIABLES lines,      \* the complete lines of chain-v3.jsonl
          torn,       \* bytes follow the last newline of chain-v3.jsonl
          synced,     \* how many lines fsync has made durable
          linked,     \* the directory entry of chain-v3.jsonl is durable
          headFile,   \* head-v3.json as a reader finds it
          headMay,    \* what head-v3.json may be after a power loss
          tmp,        \* head-v3.json.tmp, one path for every writer
          tmpSynced,  \* the content of tmp is durable
          proc,       \* the processes: where each is and what it remembers
          acked       \* history: the head seq of the last append that returned

disk == <<lines, torn, synced, linked, headFile, headMay, tmp, tmpSynced>>
vars == <<disk, proc, acked>>

-----------------------------------------------------------------------------
Chain == INSTANCE ProvidenceChain WITH
    chain <- IF headFile \in {Missing, Unreadable}
             THEN <<>> ELSE SubSeq(lines, 1, headFile.seq)

Head0 == [seq |-> 0, digest |-> Genesis]

OpenPCs   == {"openFresh", "openLast", "openIndex"}
AppendPCs == {"wrote", "synced", "checked", "tmpWritten", "tmpSynced", "renamed"}
PCs       == {"down", "up"} \cup OpenPCs \cup AppendPCs

Proc == [pc : PCs, head : GuardHead, next : GuardHead, failure : BOOLEAN]

Down == [pc |-> "down", head |-> Head0, next |-> Head0, failure |-> FALSE]

At(w, pc)   == proc[w].pc = pc
Goto(w, pc) == proc' = [proc EXCEPT ![w].pc = pc]

ForgetsFailure(w) == Goto(w, "up")

(* this.failure is set; the process stays up and refuses.                  *)
Refuse(w) == proc' = [proc EXCEPT ![w].pc = "up", ![w].failure = TRUE]

TypeOK ==
    /\ lines \in Seq(Line)
    /\ torn \in BOOLEAN
    /\ synced \in Nat
    /\ linked \in BOOLEAN
    /\ headFile \in GuardHead \cup {Missing, Unreadable}
    /\ headMay \subseteq GuardHead \cup {Missing, Unreadable}
    /\ tmp \in GuardHead \cup {Missing, Unreadable}
    /\ tmpSynced \in BOOLEAN
    /\ proc \in [Writers -> Proc]
    /\ acked \in Nat

Init ==
    /\ lines = <<>>
    /\ torn = FALSE
    /\ synced = 0
    /\ linked = FALSE
    /\ headFile = Missing
    /\ headMay = {Missing}
    /\ tmp = Missing
    /\ tmpSynced = FALSE
    /\ proc = [w \in Writers |-> Down]
    /\ acked = 0

-----------------------------------------------------------------------------
(* The constructor: openHead, then indexLines.                             *)

(* openHead up to its first decision: the head is absent over an empty     *)
(* chain, or it parses, or the log refuses.                                *)
OpenHead(w) ==
    /\ At(w, "down")
    /\ \/ /\ headFile = Missing
          /\ IF lines # <<>> \/ torn THEN Refuse(w) ELSE Goto(w, "openFresh")
       \/ /\ headFile = Unreadable
          /\ Refuse(w)
       \/ /\ headFile \notin {Missing, Unreadable}
          /\ proc' = [proc EXCEPT ![w].pc = "openLast", ![w].head = headFile]
    /\ UNCHANGED <<disk, acked>>

(* A fresh head is fsynced, and the directory that names it is not: the    *)
(* file may be gone after a power loss if it was not there before.         *)
OpenFresh(w) ==
    LET Write(h) == /\ headFile' = h
                    /\ headMay' = (headMay \cap {Missing}) \cup {h}
    IN  /\ At(w, "openFresh")
        /\ \/ /\ Write(Head0)
              /\ proc' = [proc EXCEPT ![w].pc = "openIndex", ![w].head = Head0]
           \/ /\ ShortWrites
              /\ Write(Unreadable)
              /\ proc' = [proc EXCEPT ![w].pc = "openIndex", ![w].head = Head0]
        /\ UNCHANGED <<lines, torn, synced, linked, tmp, tmpSynced, acked>>

(* The last record must compute to the head.                               *)
LastAgrees(h) ==
    /\ ~torn
    /\ IF h.seq = 0
       THEN lines = <<>> /\ h = Head0
       ELSE /\ lines # <<>>
            /\ lines[Len(lines)].ok
            /\ lines[Len(lines)].seq = h.seq - 1
            /\ DigestOf(lines[Len(lines)]) = h.digest

OpenLast(w) ==
    /\ At(w, "openLast")
    /\ IF LastAgrees(proc[w].head) THEN Goto(w, "openIndex") ELSE Refuse(w)
    /\ UNCHANGED <<disk, acked>>

UncountedLines(w) ==
    /\ At(w, "openIndex")
    /\ Goto(w, "up")
    /\ UNCHANGED <<disk, acked>>

(* indexLines: no partial line, and as many lines as the head names.       *)
OpenIndex(w) ==
    /\ At(w, "openIndex")
    /\ IF ~torn /\ Len(lines) = proc[w].head.seq THEN Goto(w, "up") ELSE Refuse(w)
    /\ UNCHANGED <<disk, acked>>

-----------------------------------------------------------------------------
(* append: appendDurably on the chain, then replaceHead.                   *)

(* The line a full write leaves: bytes already after the last newline run  *)
(* into it, and the result parses as no record.                            *)
Written(r) == IF torn THEN [r EXCEPT !.ok = FALSE] ELSE r

AppendRecord(w, b) ==
    LET r == RecordAfter(proc[w].head, b)
        Started == proc' = [proc EXCEPT
            ![w].pc = "wrote",
            ![w].next = [seq |-> r.seq + 1, digest |-> DigestOf(r)]]
    IN  /\ At(w, "up")
        /\ ~proc[w].failure
        /\ Len(lines) < MaxLines
        /\ \/ /\ lines' = Append(lines, Written(r))
              /\ torn' = FALSE
              /\ Started
           \/ /\ ShortWrites
              /\ torn' = TRUE
              /\ Started
              /\ UNCHANGED lines
           \/ /\ CallsFail
              /\ torn' \in {torn, TRUE}
              /\ Refuse(w)
              /\ UNCHANGED lines
        /\ UNCHANGED <<synced, linked, headFile, headMay, tmp, tmpSynced, acked>>

SkipsFsync(w) ==
    /\ At(w, "wrote")
    /\ Goto(w, "synced")
    /\ UNCHANGED <<disk, acked>>

FsyncChain(w) ==
    /\ At(w, "wrote")
    /\ synced' = Len(lines)
    /\ Goto(w, "synced")
    /\ UNCHANGED <<lines, torn, linked, headFile, headMay, tmp, tmpSynced, acked>>

(* replaceHead reads the head on disk and compares it ...                  *)
CheckHead(w) ==
    /\ At(w, "synced")
    /\ IF headFile = proc[w].head THEN Goto(w, "checked") ELSE Refuse(w)
    /\ UNCHANGED <<disk, acked>>

(* ... writes the next head beside it ...                                  *)
WriteTmp(w) ==
    /\ At(w, "checked")
    /\ tmp' \in {proc[w].next} \cup (IF ShortWrites THEN {Unreadable} ELSE {})
    /\ tmpSynced' = FALSE
    /\ Goto(w, "tmpWritten")
    /\ UNCHANGED <<lines, torn, synced, linked, headFile, headMay, acked>>

SkipsFsyncTmp(w) ==
    /\ At(w, "tmpWritten")
    /\ Goto(w, "tmpSynced")
    /\ UNCHANGED <<disk, acked>>

FsyncTmp(w) ==
    /\ At(w, "tmpWritten")
    /\ tmpSynced' = (tmp # Missing)
    /\ Goto(w, "tmpSynced")
    /\ UNCHANGED <<lines, torn, synced, linked, headFile, headMay, tmp, acked>>

(* ... renames it over the head; the path is shared, so the file another   *)
(* writer left there is what moves, and there may be none ...              *)
RenameHead(w) ==
    /\ At(w, "tmpSynced")
    /\ IF tmp = Missing
       THEN Refuse(w) /\ UNCHANGED <<headFile, headMay>>
       ELSE /\ headFile' = tmp
            /\ headMay' = headMay \cup {tmp} \cup (IF tmpSynced THEN {} ELSE {Unreadable})
            /\ Goto(w, "renamed")
    /\ tmp' = Missing
    /\ tmpSynced' = FALSE
    /\ UNCHANGED <<lines, torn, synced, linked, acked>>

SkipsFsyncDir(w) ==
    /\ At(w, "renamed")
    /\ proc' = [proc EXCEPT ![w].pc = "up", ![w].head = proc[w].next]
    /\ acked' = proc[w].next.seq
    /\ UNCHANGED disk

(* ... and fsyncs the directory.  Only then does append return.            *)
FsyncDir(w) ==
    /\ At(w, "renamed")
    /\ headMay' = {headFile}
    /\ linked' = TRUE
    /\ proc' = [proc EXCEPT ![w].pc = "up", ![w].head = proc[w].next]
    /\ acked' = IF acked < proc[w].next.seq THEN proc[w].next.seq ELSE acked
    /\ UNCHANGED <<lines, torn, synced, headFile, tmp, tmpSynced>>

(* Any of these calls may throw, and the log then refuses.  A write that   *)
(* throws may have truncated the file it was to fill.                      *)
CallFails(w) ==
    /\ CallsFail
    /\ proc[w].pc \in OpenPCs \cup AppendPCs
    /\ Refuse(w)
    /\ IF At(w, "checked")
       THEN tmp' \in {tmp, Unreadable} /\ tmpSynced' = FALSE
       ELSE UNCHANGED <<tmp, tmpSynced>>
    /\ IF At(w, "openFresh")
       THEN headFile' \in {headFile, Unreadable} /\ headMay' = headMay \cup {headFile'}
       ELSE UNCHANGED <<headFile, headMay>>
    /\ UNCHANGED <<lines, torn, synced, linked, acked>>

-----------------------------------------------------------------------------
(* A process stops, cleanly or not, at any point; what it wrote stays.     *)
Kill(w) ==
    /\ ~At(w, "down")
    /\ proc' = [proc EXCEPT ![w] = Down]
    /\ UNCHANGED <<disk, acked>>

(* The machine stops.  A file whose directory entry is not durable may be  *)
(* gone, and is gone if the entry created before it is.                    *)
PowerLoss ==
    /\ \E h \in headMay :
        /\ headFile' = h
        /\ headMay' = {h}
        /\ \/ /\ h # Missing
              /\ \E n \in synced..Len(lines), cut \in BOOLEAN :
                    /\ cut => n < Len(lines) \/ torn
                    /\ lines' = SubSeq(lines, 1, n)
                    /\ torn' = cut
                    /\ synced' = n
              /\ linked' = TRUE
           \/ /\ ~linked
              /\ h \in {Missing, Unreadable, Head0}
              /\ lines' = <<>>
              /\ torn' = FALSE
              /\ synced' = 0
              /\ linked' = FALSE
    /\ tmp' = Missing
    /\ tmpSynced' = FALSE
    /\ proc' = [w \in Writers |-> Down]
    /\ UNCHANGED acked

Open(w) == OpenHead(w) \/ OpenFresh(w) \/ OpenLast(w) \/ OpenIndex(w)

ReplaceHead(w) ==
    CheckHead(w) \/ WriteTmp(w) \/ FsyncTmp(w) \/ RenameHead(w) \/ FsyncDir(w)

Next ==
    \/ \E w \in Writers :
          \/ Open(w)
          \/ \E b \in Bodies : AppendRecord(w, b)
          \/ FsyncChain(w)
          \/ ReplaceHead(w)
          \/ CallFails(w)
          \/ Kill(w)
    \/ PowerLoss

Spec == Init /\ [][Next]_vars

-----------------------------------------------------------------------------
(* The chain file is one chain: whatever was killed, cut or refused, every *)
(* complete line is a record linked to the one before it.                  *)
ChainLinear == Linear(lines)

(* "A record is appended and fsynced before the head advances": every head *)
(* a reader or a restart after a power loss could find names the digest of *)
(* a record that is durable, under the same position.                      *)
HeadNamesDurable ==
    \A h \in headMay \ {Missing, Unreadable} :
        /\ h.seq <= synced
        /\ synced <= Len(lines)
        /\ h = HeadAt(lines, h.seq)

(* The same sentence for the head as it is: it never counts a record that  *)
(* is not a whole durable line.                                            *)
AppendedBeforeHead ==
    headFile \notin {Missing, Unreadable} => headFile.seq <= synced

(* Once append returned for a record, no power loss brings back a head, or *)
(* a chain file, that does not hold it.                                    *)
AckedSurvives ==
    /\ acked <= synced
    /\ synced <= Len(lines)
    /\ acked > 0 => linked
    /\ \A h \in headMay : acked > 0 => h \notin {Missing, Unreadable} /\ acked <= h.seq

(* "Any failure to establish or keep that agreement leaves the log         *)
(* refusing every append": a process that accepts appends remembers the    *)
(* head that is on disk, and that head covers the whole chain file.        *)
AcceptingAgrees ==
    \A w \in Writers :
        At(w, "up") /\ ~proc[w].failure =>
            /\ proc[w].head = headFile
            /\ proc[w].head = HeadAt(lines, Len(lines))
            /\ ~torn

(* No step rewrites or drops a line whose append has returned.             *)
AppendOnly ==
    [][ /\ acked <= Len(lines')
        /\ \A i \in 1..acked : lines'[i] = lines[i] ]_vars

(* A restart accepts only a chain file that is one chain, whoever wrote    *)
(* it: two processes on one directory can spoil the chain, never make a    *)
(* later start accept a forked or broken one.                              *)
OpensOnlyLinear ==
    [][ \A w \in Writers :
            At(w, "openIndex") /\ proc'[w].pc = "up" /\ ~proc'[w].failure => Linear(lines) ]_vars

(* The log implements the append-only chain.                               *)
ImplementsChain == Chain!Spec
=============================================================================
