-------------------------- MODULE MCProvidenceLog --------------------------
(* ProvidenceLog on small instances.                                       *)
EXTENDS ProvidenceLog, TLC

Symmetry == Permutations(Writers) \cup Permutations(Bodies)
=============================================================================
