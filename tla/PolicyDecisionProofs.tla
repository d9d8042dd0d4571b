-------------------------- MODULE PolicyDecisionProofs --------------------------
(***************************************************************************)
(* The label a session takes on is the least upper bound of what it        *)
(* registered, for any sessions, elements and batches, and what the engine *)
(* decides over it: taint is in every decision it belongs in, and no       *)
(* registration loosens one.                                               *)
(***************************************************************************)
EXTENDS PolicyDecision, Recursion, SequenceTheorems, TLAPS

USE OriginsAssumption, RolesAssumption, PolicyAssumption

-----------------------------------------------------------------------------
(* The lattice of labels.                                                  *)

LEMMA RankTypes ==
  /\ Rank \in [Classifications -> Nat]
  /\ Rank["public"] = 0
  /\ \A c, d \in Classifications : Rank[c] = Rank[d] => c = d
  BY DEF Rank, Classifications

LEMMA JoinFacts ==
  ASSUME NEW a \in Label, NEW b \in Label
  PROVE  /\ Join(a, b) \in Label
         /\ Join(a, b).origins = a.origins \cup b.origins
         /\ Leq(a, Join(a, b)) /\ Leq(b, Join(a, b))
         /\ Join(a, b).classification \in {a.classification, b.classification}
<1>1. /\ a.classification \in Classifications /\ a.origins \subseteq Origins
      /\ b.classification \in Classifications /\ b.origins \subseteq Origins
  BY DEF Label
<1>2. Rank[a.classification] \in Nat /\ Rank[b.classification] \in Nat
  BY <1>1, RankTypes
<1>3. /\ Join(a, b).origins = a.origins \cup b.origins
      /\ Join(a, b).classification = IF Rank[a.classification] >= Rank[b.classification]
                                     THEN a.classification ELSE b.classification
  BY DEF Join
<1>4. Join(a, b) \in Label
  BY <1>1 DEF Join, Label
<1> QED
  BY <1>2, <1>3, <1>4 DEF Leq

LEMMA LeqTransitive ==
  ASSUME NEW a \in Label, NEW b \in Label, NEW c \in Label, Leq(a, b), Leq(b, c)
  PROVE  Leq(a, c)
<1>1. Rank[a.classification] \in Nat /\ Rank[b.classification] \in Nat /\ Rank[c.classification] \in Nat
  BY RankTypes DEF Label
<1> QED
  BY <1>1 DEF Leq

LEMMA ElementTypes ==
  ASSUME NEW x \in Element
  PROVE  /\ ElementLabel(x) \in Label
         /\ ElementLabel(x).origins = {x.provenance}
         /\ ElementLabel(x).classification = x.classification
         /\ x.provenance \in Origins /\ x.classification \in Classifications /\ x.contentHash \in Hashes
  BY DEF Element, ElementLabel, Label

-----------------------------------------------------------------------------
(* The label after the elements of one registration.                       *)

LEMMA LabelEquation ==
  ASSUME NEW l \in Label, NEW es \in Seq(Element)
  PROVE  /\ Len(es) \in Nat
         /\ LabelAfter(l, es)[0] = l
         /\ \A n \in 0..Len(es) : LabelAfter(l, es)[n] \in Label
         /\ \A n \in 1..Len(es) :
               LabelAfter(l, es)[n] = Join(LabelAfter(l, es)[n - 1], ElementLabel(es[n]))
<1>1. Len(es) \in Nat /\ \A n \in 1..Len(es) : es[n] \in Element
  OBVIOUS
<1> DEFINE F == [x \in (1..Len(es)) \X Label |-> Join(x[2], ElementLabel(es[x[1]]))]
<1>2. F \in [(1..Len(es)) \X Label -> Label]
  BY <1>1, ElementTypes, JoinFacts
<1>3. \A n \in 1..Len(es), k \in Label : F[<<n, k>>] = Join(k, ElementLabel(es[n]))
  OBVIOUS
<1> HIDE DEF F
<1>4. PICK g : IsRecursion(g, Len(es), Label, l, F)
  BY <1>1, <1>2, FunctionByRecursion
<1>5. \A n \in 1..Len(es) : g[n - 1] \in Label /\ g[n] = Join(g[n - 1], ElementLabel(es[n]))
  <2>1. \A n \in 1..Len(es) : g[n - 1] \in Label
    BY <1>1, <1>4 DEF IsRecursion
  <2> QED
    BY <1>3, <1>4, <2>1 DEF IsRecursion
<1>6. g = [n \in 0..Len(es) |-> IF n = 0 THEN l ELSE Join(g[n - 1], ElementLabel(es[n]))]
  BY <1>1, <1>4, <1>5 DEF IsRecursion
<1>7. \E h : h = [n \in 0..Len(es) |-> IF n = 0 THEN l ELSE Join(h[n - 1], ElementLabel(es[n]))]
  BY <1>6
<1> DEFINE L == LabelAfter(l, es)
<1>8. L = CHOOSE h : h = [n \in 0..Len(es) |-> IF n = 0 THEN l ELSE Join(h[n - 1], ElementLabel(es[n]))]
  BY DEF LabelAfter
<1> HIDE DEF L
<1>9. L = [n \in 0..Len(es) |-> IF n = 0 THEN l ELSE Join(L[n - 1], ElementLabel(es[n]))]
  BY <1>7, <1>8, Zenon
<1>10. L[0] = l /\ \A n \in 1..Len(es) : L[n] = Join(L[n - 1], ElementLabel(es[n]))
  BY <1>1, <1>9
<1>11. \A n \in 0..Len(es) : L[n] \in Label
  <2> DEFINE S == {n \in 0..Len(es) : L[n] \in Label}
  <2>1. 0 \in S
    BY <1>1, <1>10
  <2>2. ASSUME NEW n \in 0..Len(es), n # Len(es), n \in S
        PROVE  n + 1 \in S
    <3>1. n + 1 \in 1..Len(es) /\ (n + 1) - 1 = n /\ n + 1 \in 0..Len(es) /\ L[n] \in Label
      BY <1>1, <2>2
    <3>2. L[n + 1] = Join(L[n], ElementLabel(es[n + 1])) /\ es[n + 1] \in Element
      BY <1>1, <1>10, <3>1
    <3>3. L[n + 1] \in Label
      BY <3>1, <3>2, ElementTypes, JoinFacts
    <3> QED
      BY <3>1, <3>3
  <2> HIDE DEF S
  <2>3. 0..Len(es) \subseteq S
    BY <1>1, <2>1, <2>2, BoundedInduction
  <2> QED
    BY <2>3 DEF S
<1> QED
  BY <1>1, <1>10, <1>11 DEF L

(* m is the least upper bound of l and the first n elements.               *)
Bounds(l, es, n, m) ==
    /\ m.origins = l.origins \cup {es[k].provenance : k \in 1..n}
    /\ Leq(l, m)
    /\ \A k \in 1..n : Rank[es[k].classification] <= Rank[m.classification]
    /\ m.classification \in {l.classification} \cup {es[k].classification : k \in 1..n}

LEMMA BoundsNone ==
  ASSUME NEW l \in Label, NEW es
  PROVE  Bounds(l, es, 0, l)
<1>1. 1..0 = {}
  OBVIOUS
<1>2. Rank[l.classification] \in Nat
  BY RankTypes DEF Label
<1> QED
  BY <1>1, <1>2 DEF Bounds, Leq

LEMMA BoundsNext ==
  ASSUME NEW l \in Label, NEW es \in Seq(Element), NEW n \in 1..Len(es), NEW m \in Label,
         Bounds(l, es, n - 1, m)
  PROVE  Bounds(l, es, n, Join(m, ElementLabel(es[n])))
<1> DEFINE j == Join(m, ElementLabel(es[n]))
<1>1. Len(es) \in Nat /\ \A k \in 1..Len(es) : es[k] \in Element
  OBVIOUS
<1>2. es[n] \in Element
  BY <1>1
<1>3. /\ ElementLabel(es[n]) \in Label /\ ElementLabel(es[n]).origins = {es[n].provenance}
      /\ ElementLabel(es[n]).classification = es[n].classification
  BY <1>2, ElementTypes
<1>4. /\ j \in Label /\ j.origins = m.origins \cup {es[n].provenance}
      /\ Leq(m, j) /\ Rank[es[n].classification] <= Rank[j.classification]
      /\ j.classification \in {m.classification, es[n].classification}
  BY <1>3, JoinFacts DEF Leq
<1> HIDE DEF j
<1>5. 1..n = (1..(n - 1)) \cup {n} /\ 1..n \subseteq 1..Len(es)
  BY <1>1
<1>6. j.origins = l.origins \cup {es[k].provenance : k \in 1..n}
  BY <1>4, <1>5 DEF Bounds
<1>7. Leq(l, j)
  BY <1>4, LeqTransitive DEF Bounds
<1>8. ASSUME NEW k \in 1..n
      PROVE  Rank[es[k].classification] <= Rank[j.classification]
  <2>1. CASE k = n
    BY <1>4, <2>1
  <2>2. CASE k \in 1..(n - 1)
    <3>1. Rank[es[k].classification] <= Rank[m.classification] /\ Rank[m.classification] <= Rank[j.classification]
      BY <1>4, <2>2 DEF Bounds, Leq
    <3>2. es[k].classification \in Classifications
      BY <1>1, <1>5, ElementTypes
    <3>3. Rank[es[k].classification] \in Nat /\ Rank[m.classification] \in Nat /\ Rank[j.classification] \in Nat
      BY <1>4, <3>2, RankTypes DEF Label
    <3> QED
      BY <3>1, <3>3
  <2> QED
    BY <1>5, <2>1, <2>2
<1>9. j.classification \in {l.classification} \cup {es[k].classification : k \in 1..n}
  BY <1>4, <1>5 DEF Bounds
<1> QED
  BY <1>6, <1>7, <1>8, <1>9 DEF Bounds, j

LEMMA LabelBounds ==
  ASSUME NEW l \in Label, NEW es \in Seq(Element)
  PROVE  /\ LabelAfter(l, es)[Len(es)] \in Label
         /\ Bounds(l, es, Len(es), LabelAfter(l, es)[Len(es)])
<1> DEFINE L == LabelAfter(l, es)
           S == {n \in 0..Len(es) : Bounds(l, es, n, L[n])}
<1>1. /\ Len(es) \in Nat /\ L[0] = l
      /\ \A n \in 0..Len(es) : L[n] \in Label
      /\ \A n \in 1..Len(es) : L[n] = Join(L[n - 1], ElementLabel(es[n]))
  BY LabelEquation
<1> HIDE DEF L
<1>2. 0 \in S
  BY <1>1, BoundsNone
<1>3. ASSUME NEW n \in 0..Len(es), n # Len(es), n \in S
      PROVE  n + 1 \in S
  <2>1. n + 1 \in 1..Len(es) /\ (n + 1) - 1 = n /\ n + 1 \in 0..Len(es)
    BY <1>1, <1>3
  <2>2. L[n] \in Label /\ Bounds(l, es, (n + 1) - 1, L[n]) /\ L[n + 1] = Join(L[n], ElementLabel(es[n + 1]))
    BY <1>1, <1>3, <2>1
  <2>3. Bounds(l, es, n + 1, L[n + 1])
    BY <2>1, <2>2, BoundsNext
  <2> QED
    BY <2>1, <2>3
<1> HIDE DEF S
<1>4. 0..Len(es) \subseteq S
  BY <1>1, <1>2, <1>3, BoundedInduction
<1>5. Len(es) \in S
  BY <1>1, <1>4
<1> QED
  BY <1>1, <1>5 DEF L, S

-----------------------------------------------------------------------------
(* What the history holds of a session.                                    *)

Registration == [session : Sessions, elements : Seq(Elements)]

FromUntrusted(X) == {x \in X : x.provenance \in Untrusted}

Bad(s) ==
    {n \in DOMAIN registered :
        registered[n].session = s /\ UntrustedHashes(registered[n].elements) # {}}

LEMMA MinFacts ==
  ASSUME NEW S \in SUBSET Nat, S # {}
  PROVE  Min(S) \in S /\ \A y \in S : Min(S) <= y
<1>1. IsWellFoundedOn(OpToRel(<, Nat), Nat)
  BY NatLessThanWellFounded
<1>2. PICK x \in S : \A y \in S : ~(<<y, x>> \in OpToRel(<, Nat))
  BY <1>1, WFMin
<1>3. \A y \in S : ~(y < x)
  BY <1>2 DEF OpToRel
<1>4. \E z \in S : \A y \in S : z =< y
  BY <1>3
<1> QED
  BY <1>4 DEF Min

LEMMA HashesOf ==
  ASSUME NEW es
  PROVE  UntrustedHashes(es) = {x.contentHash : x \in FromUntrusted(ToSet(es))}
  BY DEF UntrustedHashes, FromUntrusted, ToSet

LEMMA BatchTypes ==
  ASSUME NEW es \in Seq(Elements)
  PROVE  /\ es \in Seq(Element) /\ Len(es) \in Nat /\ DOMAIN es = 1..Len(es)
         /\ ToSet(es) = {es[k] : k \in 1..Len(es)} /\ ToSet(es) \subseteq Element
<1>1. Elements \subseteq Element
  BY DEF PolicyAssumption
<1>2. Len(es) \in Nat /\ DOMAIN es = 1..Len(es) /\ \A k \in 1..Len(es) : es[k] \in Elements
  OBVIOUS
<1> QED
  BY <1>1, <1>2 DEF ToSet

LEMMA TakenTypes ==
  ASSUME registered \in Seq(Registration), NEW s \in Sessions
  PROVE  /\ Taken(s) \subseteq Element
         /\ Bad(s) \subseteq 1..Len(registered) /\ Len(registered) \in Nat
         /\ Bad(s) = {} <=> FromUntrusted(Taken(s)) = {}
<1>1. /\ Len(registered) \in Nat /\ DOMAIN registered = 1..Len(registered)
      /\ \A n \in 1..Len(registered) : registered[n] \in Registration
  OBVIOUS
<1>2. \A n \in 1..Len(registered) : registered[n].elements \in Seq(Elements)
  BY <1>1 DEF Registration
<1>3. \A n \in 1..Len(registered) : ToSet(registered[n].elements) \subseteq Element
  BY <1>2, BatchTypes
<1>4. Taken(s) \subseteq Element
  BY <1>1, <1>3 DEF Taken
<1>5. \A n \in 1..Len(registered) :
          UntrustedHashes(registered[n].elements) = {} <=> FromUntrusted(ToSet(registered[n].elements)) = {}
  BY HashesOf
<1>6. Bad(s) = {} <=> FromUntrusted(Taken(s)) = {}
  BY <1>1, <1>5 DEF Bad, Taken, FromUntrusted
<1> QED
  BY <1>1, <1>4, <1>6 DEF Bad

LEMMA FirstTypes ==
  ASSUME registered \in Seq(Registration), NEW s \in Sessions
  PROVE  /\ FirstUntrusted(s) = IF Bad(s) = {} THEN 0 ELSE Min(Bad(s))
         /\ FirstUntrusted(s) \in 0..Len(registered)
         /\ FirstUntrusted(s) = 0 <=> Bad(s) = {}
<1>1. Bad(s) \subseteq 1..Len(registered) /\ Len(registered) \in Nat
  BY TakenTypes
<1>2. Bad(s) # {} => Min(Bad(s)) \in Bad(s)
  BY <1>1, MinFacts
<1>3. FirstUntrusted(s) = IF Bad(s) = {} THEN 0 ELSE Min(Bad(s))
  BY DEF FirstUntrusted, Bad
<1> HIDE DEF Bad
<1> QED
  BY <1>1, <1>2, <1>3

(* One registration more.                                                  *)
LEMMA TakenGrows ==
  ASSUME registered \in Seq(Registration), NEW s \in Sessions, NEW q \in Sessions,
         NEW es \in Seq(Elements),
         registered' = Append(registered, [session |-> s, elements |-> es])
  PROVE  /\ registered' \in Seq(Registration)
         /\ Len(registered') = Len(registered) + 1
         /\ Taken(q)' = Taken(q) \cup (IF q = s THEN ToSet(es) ELSE {})
         /\ Bad(q)' = Bad(q) \cup (IF q = s /\ UntrustedHashes(es) # {} THEN {Len(registered) + 1} ELSE {})
<1> DEFINE new == [session |-> s, elements |-> es]
<1>1. new \in Registration /\ new.session = s /\ new.elements = es
  BY DEF Registration
<1> HIDE DEF new
<1>2. /\ registered' \in Seq(Registration) /\ Len(registered) \in Nat
      /\ Len(registered') = Len(registered) + 1
      /\ \A n \in 1..Len(registered) : registered'[n] = registered[n]
      /\ registered'[Len(registered) + 1] = new
  BY <1>1, AppendProperties DEF new
<1>3. /\ DOMAIN registered = 1..Len(registered)
      /\ DOMAIN registered' = 1..Len(registered) \cup {Len(registered) + 1}
  BY <1>2
<1>4. Taken(q)' = Taken(q) \cup (IF q = s THEN ToSet(es) ELSE {})
  BY <1>1, <1>2, <1>3 DEF Taken
<1>5. Bad(q)' = Bad(q) \cup (IF q = s /\ UntrustedHashes(es) # {} THEN {Len(registered) + 1} ELSE {})
  BY <1>1, <1>2, <1>3 DEF Bad
<1> QED
  BY <1>2, <1>4, <1>5

LEMMA FirstGrows ==
  ASSUME registered \in Seq(Registration), NEW s \in Sessions, NEW q \in Sessions,
         NEW es \in Seq(Elements),
         registered' = Append(registered, [session |-> s, elements |-> es])
  PROVE  FirstUntrusted(q)' =
             IF FirstUntrusted(q) = 0 /\ q = s /\ UntrustedHashes(es) # {}
             THEN Len(registered) + 1 ELSE FirstUntrusted(q)
<1>1. /\ registered' \in Seq(Registration)
      /\ Bad(q)' = Bad(q) \cup (IF q = s /\ UntrustedHashes(es) # {} THEN {Len(registered) + 1} ELSE {})
  BY TakenGrows
<1>2. /\ FirstUntrusted(q) = IF Bad(q) = {} THEN 0 ELSE Min(Bad(q))
      /\ FirstUntrusted(q) = 0 <=> Bad(q) = {}
      /\ Bad(q) \subseteq 1..Len(registered) /\ Len(registered) \in Nat
  BY FirstTypes, TakenTypes
<1>3. FirstUntrusted(q)' = IF Bad(q)' = {} THEN 0 ELSE Min(Bad(q)')
  BY DEF FirstUntrusted, Bad
<1> DEFINE old == Bad(q)
           new == Bad(q)'
           n == Len(registered) + 1
<1>4. CASE ~(q = s /\ UntrustedHashes(es) # {})
  <2>1. new = old
    BY <1>1, <1>4
  <2> HIDE DEF old, new
  <2> QED
    BY <1>2, <1>3, <1>4, <2>1 DEF old, new
<1>5. CASE q = s /\ UntrustedHashes(es) # {}
  <2>1. new = old \cup {n}
    BY <1>1, <1>5
  <2>2. old \subseteq Nat /\ n \in Nat /\ \A y \in old : y < n
    BY <1>2
  <2> HIDE DEF old, new, n
  <2>3. /\ Min(new) \in new /\ \A y \in new : Min(new) <= y
        /\ old # {} => Min(old) \in old /\ \A y \in old : Min(old) <= y
    <3>1. old \subseteq Nat /\ new \subseteq Nat /\ new # {}
      BY <2>1, <2>2
    <3> QED
      BY <3>1, MinFacts
  <2>4. CASE old = {}
    BY <1>2, <1>3, <1>5, <2>1, <2>3, <2>4 DEF old, new, n
  <2>5. CASE old # {}
    <3>1. Min(old) \in Nat /\ Min(new) \in Nat /\ Min(new) <= Min(old) /\ Min(old) <= Min(new)
      <4>1. Min(old) \in old /\ Min(old) \in Nat /\ Min(old) < n
        BY <2>2, <2>3, <2>5
      <4>2. Min(new) <= Min(old)
        BY <2>1, <2>3, <4>1
      <4>3. Min(new) \in old \cup {n} /\ Min(new) \in Nat
        BY <2>1, <2>2, <2>3
      <4>4. Min(old) <= Min(new)
        BY <2>3, <2>5, <4>1, <4>3, <2>2
      <4> QED
        BY <4>1, <4>2, <4>3, <4>4
    <3>2. Min(old) = Min(new)
      BY <3>1
    <3> QED
      BY <1>2, <1>3, <1>5, <2>1, <2>5, <3>2 DEF old, new
  <2> QED
    BY <2>4, <2>5
<1> QED
  BY <1>4, <1>5

-----------------------------------------------------------------------------
(* The entry of a session over the history.                                *)

Entry == [label : Label, taintedBy : Nat, untrustedAncestors : SUBSET Hashes]

LabelBound(s) ==
    /\ entry[s].label.origins = {x.provenance : x \in Taken(s)}
    /\ \A x \in Taken(s) : Rank[x.classification] <= Rank[entry[s].label.classification]
    /\ entry[s].label.classification \in {"public"} \cup {x.classification : x \in Taken(s)}

EntryInv(s) ==
    /\ entry[s] \in Entry
    /\ LabelBound(s)
    /\ entry[s].untrustedAncestors = {x.contentHash : x \in FromUntrusted(Taken(s))}
    /\ entry[s].taintedBy = FirstUntrusted(s)

IInv ==
    /\ registered \in Seq(Registration)
    /\ entry = [s \in Sessions |-> entry[s]]
    /\ \A s \in Sessions : EntryInv(s)

(* What tainted a label is in the history.                                 *)
LEMMA TaintedByTaken ==
  ASSUME NEW s \in Sessions, LabelBound(s)
  PROVE  IsTainted(entry[s].label) <=> FromUntrusted(Taken(s)) # {}
  BY DEF LabelBound, IsTainted, FromUntrusted

LEMMA InitInv == Init => IInv
  <1> SUFFICES ASSUME Init
               PROVE  IInv
    OBVIOUS
  <1>1. registered = <<>> /\ registered \in Seq(Registration) /\ DOMAIN registered = {}
    BY DEF Init
  <1>2. ASSUME NEW s \in Sessions
        PROVE  EntryInv(s)
    <2>1. entry[s] = NoEntry
      BY DEF Init
    <2>2. NoEntry \in Entry
      BY DEF NoEntry, Entry, Bottom, Label, Classifications
    <2>3. Taken(s) = {} /\ FirstUntrusted(s) = 0
      BY <1>1 DEF Taken, FirstUntrusted
    <2> QED
      BY <2>1, <2>2, <2>3 DEF EntryInv, LabelBound, FromUntrusted, NoEntry, Bottom
  <1> QED
    BY <1>1, <1>2 DEF Init, IInv

(* The least upper bound of what was taken, and of the batch joined on it. *)
LEMMA RegisterKeeps ==
  ASSUME IInv, NEW s \in Sessions, NEW es \in Seq(Elements), Register(s, es)
  PROVE  /\ IInv'
         /\ Leq(entry[s].label, entry'[s].label)
<1> DEFINE l  == entry[s].label
           m  == LabelAfter(l, es)[Len(es)]
           id == Len(registered)'
<1>1. /\ registered' = Append(registered, [session |-> s, elements |-> es])
      /\ entry' = [entry EXCEPT ![s] = Joined(entry[s], es, id)]
  BY DEF Register
<1>2. registered \in Seq(Registration) /\ \A q \in Sessions : EntryInv(q)
  BY DEF IInv
<1>3. /\ entry' = [q \in Sessions |-> entry'[q]]
      /\ \A q \in Sessions \ {s} : entry'[q] = entry[q]
      /\ entry'[s] = Joined(entry[s], es, id)
  BY <1>1 DEF IInv
<1>4. /\ registered' \in Seq(Registration) /\ id = Len(registered) + 1 /\ Len(registered) \in Nat
      /\ \A q \in Sessions :
            /\ Taken(q)' = Taken(q) \cup (IF q = s THEN ToSet(es) ELSE {})
            /\ FirstUntrusted(q)' = IF FirstUntrusted(q) = 0 /\ q = s /\ UntrustedHashes(es) # {}
                                    THEN id ELSE FirstUntrusted(q)
  BY <1>1, <1>2, TakenGrows, FirstGrows
<1>5. ASSUME NEW q \in Sessions \ {s}
      PROVE  EntryInv(q)'
  <2>1. Taken(q)' = Taken(q) /\ FirstUntrusted(q)' = FirstUntrusted(q) /\ entry'[q] = entry[q]
    BY <1>3, <1>4
  <2>2. EntryInv(q)
    BY <1>2
  <2>3. LabelBound(q)'
    BY <2>1, <2>2 DEF EntryInv, LabelBound
  <2> QED
    BY <2>1, <2>2, <2>3 DEF EntryInv
<1>6. /\ es \in Seq(Element) /\ Len(es) \in Nat
      /\ ToSet(es) = {es[k] : k \in 1..Len(es)} /\ ToSet(es) \subseteq Element
  BY BatchTypes
<1>7. l \in Label /\ entry[s] \in Entry /\ LabelBound(s)
  BY <1>2 DEF EntryInv, Entry
<1> HIDE DEF l
<1>8. m \in Label /\ Bounds(l, es, Len(es), m)
  BY <1>6, <1>7, LabelBounds
<1>9. /\ entry'[s] \in [label : {m}, taintedBy : {entry'[s].taintedBy},
                        untrustedAncestors : {entry[s].untrustedAncestors \cup UntrustedHashes(es)}]
      /\ entry'[s].taintedBy = IF entry[s].taintedBy = 0 /\ ~IsTainted(l) /\ IsTainted(m)
                               THEN id ELSE entry[s].taintedBy
  BY <1>3 DEF Joined, l
<1> HIDE DEF m, id
<1>10. LabelBound(s)'
  <2>1. Taken(s)' = Taken(s) \cup {es[k] : k \in 1..Len(es)}
    BY <1>4, <1>6
  <2>2. entry'[s].label = m
    BY <1>9
  <2>3. m.origins = {x.provenance : x \in Taken(s)'}
    BY <1>7, <1>8, <2>1 DEF LabelBound, Bounds, l
  <2>4. ASSUME NEW x \in Taken(s)'
        PROVE  Rank[x.classification] <= Rank[m.classification]
    <3>1. CASE x \in Taken(s)
      <4>1. Rank[x.classification] <= Rank[l.classification] /\ Rank[l.classification] <= Rank[m.classification]
        BY <1>7, <1>8, <3>1 DEF LabelBound, Bounds, Leq, l
      <4>2. x \in Element
        BY <1>2, <3>1, TakenTypes
      <4>3. Rank[x.classification] \in Nat /\ Rank[l.classification] \in Nat /\ Rank[m.classification] \in Nat
        BY <1>7, <1>8, <4>2, ElementTypes, RankTypes DEF Label
      <4> QED
        BY <4>1, <4>3
    <3>2. CASE x \in {es[k] : k \in 1..Len(es)}
      BY <1>8, <3>2 DEF Bounds
    <3> QED
      BY <2>1, <3>1, <3>2
  <2>5. m.classification \in {"public"} \cup {x.classification : x \in Taken(s)'}
    BY <1>7, <1>8, <2>1 DEF LabelBound, Bounds, l
  <2> QED
    BY <2>2, <2>3, <2>4, <2>5 DEF LabelBound
<1>11. entry'[s].untrustedAncestors = {x.contentHash : x \in FromUntrusted(Taken(s)')}
  <2>1. entry[s].untrustedAncestors = {x.contentHash : x \in FromUntrusted(Taken(s))}
    BY <1>2 DEF EntryInv
  <2>2. UntrustedHashes(es) = {x.contentHash : x \in FromUntrusted(ToSet(es))}
    BY HashesOf
  <2>3. FromUntrusted(Taken(s)') = FromUntrusted(Taken(s)) \cup FromUntrusted(ToSet(es))
    BY <1>4 DEF FromUntrusted
  <2> HIDE DEF FromUntrusted
  <2> QED
    BY <1>9, <2>1, <2>2, <2>3
<1>12. entry'[s].taintedBy = FirstUntrusted(s)'
  <2>1. IsTainted(l) <=> FromUntrusted(Taken(s)) # {}
    BY <1>7, TaintedByTaken DEF l
  <2>2. IsTainted(m) <=> FromUntrusted(Taken(s)') # {}
    <3>1. IsTainted(entry[s].label)' <=> FromUntrusted(Taken(s)') # {}
      BY <1>10 DEF LabelBound, IsTainted, FromUntrusted
    <3> QED
      BY <1>9, <3>1 DEF IsTainted
  <2>3. FromUntrusted(Taken(s)') = FromUntrusted(Taken(s)) \cup FromUntrusted(ToSet(es))
    BY <1>4 DEF FromUntrusted
  <2>4. UntrustedHashes(es) = {} <=> FromUntrusted(ToSet(es)) = {}
    BY HashesOf
  <2>5. entry[s].taintedBy = FirstUntrusted(s) /\ (FirstUntrusted(s) = 0 <=> FromUntrusted(Taken(s)) = {})
    BY <1>2, FirstTypes, TakenTypes DEF EntryInv
  <2> HIDE DEF FromUntrusted
  <2> QED
    BY <1>4, <1>9, <2>1, <2>2, <2>3, <2>4, <2>5
<1>13. entry'[s] \in Entry
  <2>1. UntrustedHashes(es) \subseteq Hashes
    BY <1>6, ElementTypes, HashesOf DEF FromUntrusted
  <2>2. entry'[s].taintedBy \in Nat
    BY <1>4, <1>7, <1>9 DEF Entry
  <2> QED
    BY <1>7, <1>8, <1>9, <2>1, <2>2 DEF Entry
<1>14. EntryInv(s)'
  BY <1>10, <1>11, <1>12, <1>13 DEF EntryInv
<1>15. IInv'
  BY <1>3, <1>4, <1>5, <1>14 DEF IInv
<1>16. Leq(l, m) /\ entry'[s].label = m
  BY <1>8, <1>9 DEF Bounds
<1> QED
  BY <1>15, <1>16 DEF l

LEMMA BatchesAreSequences ==
  ASSUME NEW es \in BoundedSeq(Elements, MaxElements)
  PROVE  es \in Seq(Elements)
  BY DEF BoundedSeq, SeqOf, PolicyAssumption

(* Registrations of any sessions in any order keep IInv.                   *)
THEOREM Invariance == Spec => []IInv
<1>1. Init => IInv
  BY InitInv
<1>2. IInv /\ [Next]_vars => IInv'
  <2> SUFFICES ASSUME IInv, [Next]_vars
               PROVE  IInv'
    OBVIOUS
  <2>1. CASE UNCHANGED vars
    <3>1. \A s \in Sessions : Taken(s)' = Taken(s) /\ FirstUntrusted(s)' = FirstUntrusted(s)
      BY <2>1 DEF vars, Taken, FirstUntrusted
    <3> QED
      BY <2>1, <3>1 DEF vars, IInv, EntryInv, LabelBound
  <2>2. CASE Next
    BY <2>2, BatchesAreSequences, RegisterKeeps DEF Next
  <2> QED
    BY <2>1, <2>2
<1> QED
  BY <1>1, <1>2, PTL DEF Spec

THEOREM TypeCorrect == Spec => []TypeOK
<1>1. IInv => TypeOK
  <2> SUFFICES ASSUME IInv
               PROVE  TypeOK
    OBVIOUS
  <2>1. ASSUME NEW s \in Sessions
        PROVE  /\ entry[s].label \in Label
               /\ entry[s].taintedBy \in 0..Len(registered)
               /\ entry[s].untrustedAncestors \subseteq Hashes
    BY FirstTypes DEF IInv, EntryInv, Entry
  <2> QED
    BY <2>1 DEF TypeOK, IInv, Registration
<1> QED
  BY <1>1, Invariance, PTL

(* labels.ts: however a session's elements were ordered and batched, and   *)
(* whatever others registered, its label is the least upper bound of them, *)
(* and its entry names the registration that tainted it.                   *)
THEOREM LabelsAreBounds == Spec => []LabelIsLeastUpperBound
<1>1. IInv => LabelIsLeastUpperBound
  <2> SUFFICES ASSUME IInv, NEW s \in Sessions
               PROVE  /\ entry[s].label.origins = {x.provenance : x \in Taken(s)}
                      /\ Rank[entry[s].label.classification]
                             = Max({0} \cup {Rank[x.classification] : x \in Taken(s)})
                      /\ entry[s].untrustedAncestors =
                             {x.contentHash : x \in {y \in Taken(s) : y.provenance \in Untrusted}}
                      /\ entry[s].taintedBy = FirstUntrusted(s)
    BY DEF LabelIsLeastUpperBound
  <2> DEFINE ranks == {0} \cup {Rank[x.classification] : x \in Taken(s)}
             top   == Rank[entry[s].label.classification]
  <2>1. EntryInv(s) /\ LabelBound(s) /\ Taken(s) \subseteq Element
    BY TakenTypes DEF IInv, EntryInv
  <2>2. \A x \in Taken(s) : Rank[x.classification] \in Nat
    BY <2>1, ElementTypes, RankTypes
  <2>3. top \in Nat
    BY <2>1, RankTypes DEF EntryInv, Entry, Label
  <2>4. top \in ranks
    BY <2>1, RankTypes DEF LabelBound
  <2>5. \A y \in ranks : top >= y /\ y \in Nat
    BY <2>1, <2>2, <2>3 DEF LabelBound
  <2> HIDE DEF ranks, top
  <2>6. top = Max(ranks)
    <3>1. \E x \in ranks : \A y \in ranks : x >= y
      BY <2>4, <2>5
    <3>2. Max(ranks) \in ranks /\ \A y \in ranks : Max(ranks) >= y
      BY <3>1 DEF Max
    <3>3. Max(ranks) >= top /\ top >= Max(ranks) /\ Max(ranks) \in Nat
      BY <2>4, <2>5, <3>2
    <3> QED
      BY <2>3, <3>3
  <2> QED
    BY <2>1, <2>6 DEF EntryInv, LabelBound, FromUntrusted, ranks, top
<1> QED
  BY <1>1, Invariance, PTL

(* engine.ts: taint is in every decision of an outward intent of a session *)
(* that read untrusted content, and in no other, whatever else fails.      *)
THEOREM TaintReported == Spec => []TaintAlwaysReported
<1>1. IInv => TaintAlwaysReported
  <2> SUFFICES ASSUME IInv, NEW s \in Sessions, NEW i \in Input
               PROVE  LET untrusted == {x \in Taken(s) : x.provenance \in Untrusted} IN
                      /\ ("taint" \in Evaluated(i, entry[s]).failed) <=> (untrusted # {} /\ i.intent \in Outward)
                      /\ Evaluated(i, entry[s]).ancestors = {x.contentHash : x \in untrusted}
    BY DEF TaintAlwaysReported
  <2>1. IsTainted(entry[s].label) <=> FromUntrusted(Taken(s)) # {}
    BY TaintedByTaken DEF IInv, EntryInv
  <2>2. entry[s].untrustedAncestors = {x.contentHash : x \in FromUntrusted(Taken(s))}
    BY DEF IInv, EntryInv
  <2>3. "taint" \in Evaluated(i, entry[s]).failed <=> TaintFails(i, entry[s])
    BY DEF Evaluated
  <2>4. Evaluated(i, entry[s]).ancestors = IF IsTainted(entry[s].label) THEN entry[s].untrustedAncestors ELSE {}
    BY DEF Evaluated
  <2>5. /\ ("taint" \in Evaluated(i, entry[s]).failed) <=> (FromUntrusted(Taken(s)) # {} /\ i.intent \in Outward)
        /\ Evaluated(i, entry[s]).ancestors = {x.contentHash : x \in FromUntrusted(Taken(s))}
    BY <2>1, <2>2, <2>3, <2>4 DEF TaintFails
  <2> QED
    BY <2>5 DEF FromUntrusted
<1> QED
  BY <1>1, Invariance, PTL

(* A restriction is never taken back: the label grows, and what a session  *)
(* is denied stays denied as it registers more.                            *)
THEOREM NothingLoosens == Spec => NeverLoosens
<1>1. ASSUME IInv, [Next]_vars
      PROVE  [\A s \in Sessions :
                 /\ Leq(entry[s].label, entry'[s].label)
                 /\ \A i \in Input : Allowed(i, entry'[s]) => Allowed(i, entry[s])]_vars
  <2> SUFFICES ASSUME Next, NEW s \in Sessions
               PROVE  /\ Leq(entry[s].label, entry'[s].label)
                      /\ \A i \in Input : Allowed(i, entry'[s]) => Allowed(i, entry[s])
    BY <1>1
  <2>1. PICK q \in Sessions, es \in Seq(Elements) : Register(q, es)
    BY BatchesAreSequences DEF Next
  <2>2. IInv' /\ Leq(entry[q].label, entry'[q].label)
    BY <1>1, <2>1, RegisterKeeps
  <2>3. Leq(entry[s].label, entry'[s].label)
    <3>1. CASE s = q
      BY <2>2, <3>1
    <3>2. CASE s # q
      <4>1. entry'[s] = entry[s] /\ entry[s].label \in Label
        BY <1>1, <2>1, <3>2 DEF Register, IInv, EntryInv, Entry
      <4> QED
        BY <4>1, RankTypes DEF Leq, Label
    <3> QED
      BY <3>1, <3>2
  <2>4. ASSUME NEW i \in Input, Allowed(i, entry'[s])
        PROVE  Allowed(i, entry[s])
    <3>1. ~TaintFails(i, entry'[s])
      BY <2>4 DEF Allowed, Evaluated
    <3>2. ~TaintFails(i, entry[s])
      BY <2>3, <3>1 DEF TaintFails, IsTainted, Leq
    <3> QED
      BY <2>4, <3>2 DEF Allowed, Evaluated
  <2> QED
    BY <2>3, <2>4
<1> QED
  BY <1>1, Invariance, PTL DEF Spec, NeverLoosens

(* What the engine allows a role of DEFAULT_ROLE_MATRIX, the adapter       *)
(* routes at that role's profile.                                          *)
THEOREM AllowedRouted == Roles = DefaultRoles => (Spec => []AllowedIsRouted)
<1> SUFFICES ASSUME Roles = DefaultRoles
             PROVE  Spec => []AllowedIsRouted
  OBVIOUS
<1>1. AllowedIsRouted
  <2> SUFFICES ASSUME NEW i, NEW e, Allowed(i, e)
               PROVE  Route(i.operation, Profile(i)) # "blocked"
    BY DEF AllowedIsRouted
  <2>1. i.role \in DOMAIN Roles /\ i.operation \in Roles[i.role].allowedOperations
    BY DEF Allowed, Evaluated, Resolved
  <2>2. \A r \in DOMAIN DefaultRoles : \A o \in DefaultRoles[r].allowedOperations :
           /\ o \in DefaultDeny => DefaultRoles[r].defaultProfile \in {"strict", "scif"}
           /\ o \in StrictOnly => DefaultRoles[r].defaultProfile # "standard"
    BY DEF DefaultRoles, Role, DefaultDeny, StrictOnly
  <2>3. /\ i.operation \in DefaultDeny => Profile(i) \in {"strict", "scif"}
        /\ i.operation \in StrictOnly => Profile(i) # "standard"
    BY <2>1, <2>2 DEF Profile
  <2> QED
    BY <2>3 DEF Route
<1> QED
  BY <1>1, PTL
=============================================================================
