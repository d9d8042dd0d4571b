------------------------------- MODULE Labels -------------------------------
(***************************************************************************)
(* packages/shared-types/src/lineage.ts: the lattice of labels.  A label   *)
(* is a classification and a set of origins (canonicalLabel sorts and      *)
(* deduplicates the array, so a set loses nothing).                        *)
(***************************************************************************)
EXTENDS Integers

CONSTANTS Origins,
          Untrusted      \* UNTRUSTED_ORIGINS: attacker-controllable content

ASSUME OriginsAssumption == Untrusted \subseteq Origins

Classifications == {"public", "sensitive", "regulated", "classified-adjacent"}

Rank == [c \in Classifications |-> CASE c = "public" -> 0 [] c = "sensitive" -> 1
                                     [] c = "regulated" -> 2 [] OTHER -> 3]

Label == [classification : Classifications, origins : SUBSET Origins]

Bottom == [classification |-> "public", origins |-> {}]

KeepsNewest(a, b) == [classification |-> b.classification, origins |-> b.origins]

Join(a, b) ==
    [classification |-> IF Rank[a.classification] >= Rank[b.classification]
                        THEN a.classification ELSE b.classification,
     origins |-> a.origins \cup b.origins]

Leq(a, b) ==
    /\ Rank[a.classification] =< Rank[b.classification]
    /\ a.origins \subseteq b.origins

IsTainted(l) == l.origins \cap Untrusted # {}
=============================================================================
