-------------------------- MODULE ProvidenceChain --------------------------
(***************************************************************************)
(* What the Providence log promises its callers: one linear chain of       *)
(* records, each linked to the digest of the one before it, that only      *)
(* grows, except that a power loss may take back records no append had     *)
(* returned for yet.                                                       *)
(***************************************************************************)
EXTENDS ChainRecords

CONSTANT MaxLines    \* bound on the length of the chain

VARIABLES chain,     \* the records under the head, oldest first
          acked      \* how many of them an append has returned for

vars == <<chain, acked>>

Init ==
    /\ chain = <<>>
    /\ acked = 0

Commit(b) ==
    /\ Len(chain) < MaxLines
    /\ chain' = Append(chain, RecordAfter(HeadAt(chain, Len(chain)), b))
    /\ UNCHANGED acked

Acknowledge ==
    /\ acked' = Len(chain)
    /\ UNCHANGED chain

LoseUnacknowledged ==
    /\ \E n \in acked..Len(chain) : chain' = SubSeq(chain, 1, n)
    /\ UNCHANGED acked

Next ==
    \/ \E b \in Bodies : Commit(b)
    \/ Acknowledge
    \/ LoseUnacknowledged

Spec == Init /\ [][Next]_vars
=============================================================================
