-------------------------- MODULE MCProvidencePair --------------------------
(***************************************************************************)
(* Two chain directories in one run.  On the first is one broker, as       *)
(* MCProvidenceLog has it; on the second two brokers were started, whose   *)
(* file system calls do not fail.  Nothing is shared between directories,  *)
(* so that a step is taken in one while the other is as first found.       *)
(***************************************************************************)
EXTENDS MCProvidenceLog

CONSTANT Brokers \* the two processes opened on the second directory

VARIABLES pairLines, pairTorn, pairSynced, pairLinked, pairHeadFile, pairHeadMay, pairTmp,
          pairTmpSynced, pairProc, pairAcked

pairVars == <<pairLines, pairTorn, pairSynced, pairLinked, pairHeadFile, pairHeadMay, pairTmp,
              pairTmpSynced, pairProc, pairAcked>>

Pair == INSTANCE ProvidenceLog WITH
    Writers <- Brokers, CallsFail <- FALSE,
    lines <- pairLines, torn <- pairTorn, synced <- pairSynced, linked <- pairLinked,
    headFile <- pairHeadFile, headMay <- pairHeadMay, tmp <- pairTmp,
    tmpSynced <- pairTmpSynced, proc <- pairProc, acked <- pairAcked

DirectoriesInit == Init /\ Pair!Init

DirectoriesNext ==
    \/ Next /\ Pair!Init /\ UNCHANGED pairVars
    \/ Pair!Next /\ Init /\ UNCHANGED vars

Directories == DirectoriesInit /\ [][DirectoriesNext]_<<vars, pairVars>>

DirectoriesSymmetry == Symmetry \cup Permutations(Brokers)
-----------------------------------------------------------------------------
(* OpensOnlyLinear of the directory two brokers were started on: whoever   *)
(* wrote the chain file, a restart accepts it only as one chain.           *)
PairOpensOnlyLinear == Pair!OpensOnlyLinear
=============================================================================
