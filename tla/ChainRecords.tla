---------------------------- MODULE ChainRecords ----------------------------
(***************************************************************************)
(* packages/providence-log/src/encoding.ts: a record, its digest and the   *)
(* head commitment, as far as the chain depends on them.                   *)
(***************************************************************************)
EXTENDS Naturals, Sequences

CONSTANT Bodies      \* the fields of a record other than seq and prev_digest

(***************************************************************************)
(* A digest is collision free, so it is modelled by everything it commits  *)
(* to: the hashed fields of its record and of every record before it.      *)
(***************************************************************************)
Digest == Seq([seq : Nat, body : Bodies])

Genesis == <<>>

Line == [ok : BOOLEAN, seq : Nat, prev : Digest, body : Bodies]

GuardHead == [seq : Nat, digest : Digest]

DigestOf(line) == Append(line.prev, [seq |-> line.seq, body |-> line.body])

(* The head commitment over the first n lines of ls.                       *)
HeadAt(ls, n) ==
    [seq |-> n, digest |-> IF n = 0 THEN Genesis ELSE DigestOf(ls[n])]

EarlySeq(h, b) == [ok |-> TRUE, seq |-> h.seq - 1, prev |-> h.digest, body |-> b]
GenesisPrev(h, b) == [ok |-> TRUE, seq |-> h.seq, prev |-> Genesis, body |-> b]

(* The record of body b that extends the chain the head h commits to.      *)
RecordAfter(h, b) == [ok |-> TRUE, seq |-> h.seq, prev |-> h.digest, body |-> b]

(* Every line is a whole record, at its own position, linked to the line   *)
(* before it, back to genesis.                                             *)
Linear(ls) ==
    \A i \in 1..Len(ls) :
        /\ ls[i].ok
        /\ ls[i].seq = i - 1
        /\ ls[i].prev = HeadAt(ls, i - 1).digest
=============================================================================
