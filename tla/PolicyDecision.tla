--------------------------- MODULE PolicyDecision ---------------------------
(***************************************************************************)
(* The label store of the broker as registrations land, and what the       *)
(* engine and the adapter of PolicyRules decide over it.  The properties   *)
(* quantify over every input the two can be given.                         *)
(***************************************************************************)
EXTENDS PolicyRules

CONSTANTS Sessions,
          Elements,      \* the context elements that may be registered
          MaxElements,   \* bound on the elements of one registration
          MaxRegistrations \* bound on the registrations of the run

ASSUME PolicyAssumption ==
    /\ Elements \subseteq Element
    /\ MaxElements \in Nat
    /\ MaxRegistrations \in Nat

VARIABLES entry,      \* sessionLabels: a SessionLabelEntry for each session
          registered  \* history: the registrations answered, oldest first

vars == <<entry, registered>>

TypeOK ==
    /\ \A s \in Sessions :
          /\ entry[s].label \in Label
          /\ entry[s].taintedBy \in 0..Len(registered)
          /\ entry[s].untrustedAncestors \subseteq Hashes
    /\ registered \in Seq([session : Sessions, elements : Seq(Elements)])

Init ==
    /\ entry = [s \in Sessions |-> NoEntry]
    /\ registered = <<>>

Register(s, elements) ==
    /\ Len(registered) < MaxRegistrations
    /\ registered' = Append(registered, [session |-> s, elements |-> elements])
    /\ entry' = [entry EXCEPT ![s] = Joined(entry[s], elements, Len(registered'))]

Next == \E s \in Sessions :
            \E elements \in BoundedSeq(Elements, MaxElements) : Register(s, elements)

Spec == Init /\ [][Next]_vars
-----------------------------------------------------------------------------
(* What a session registered, whatever the order and the batches.          *)
Taken(s) ==
    UNION {ToSet(registered[n].elements) : n \in {m \in DOMAIN registered : registered[m].session = s}}

(* The first registration of the session with an untrusted element, or 0.  *)
FirstUntrusted(s) ==
    LET bad == {n \in DOMAIN registered :
                   registered[n].session = s /\ UntrustedHashes(registered[n].elements) # {}}
    IN IF bad = {} THEN 0 ELSE Min(bad)

(* labels.ts: the label of a session is the least upper bound of what it   *)
(* registered and of nothing another session did, however it was ordered   *)
(* and batched, and its entry names what tainted it.                       *)
LabelIsLeastUpperBound ==
    \A s \in Sessions :
        /\ entry[s].label.origins = {x.provenance : x \in Taken(s)}
        /\ Rank[entry[s].label.classification] = Max({0} \cup {Rank[x.classification] : x \in Taken(s)})
        /\ entry[s].untrustedAncestors =
               {x.contentHash : x \in {y \in Taken(s) : y.provenance \in Untrusted}}
        /\ entry[s].taintedBy = FirstUntrusted(s)

(* "The taint predicate belongs on every decision, including decisions     *)
(* that fail elsewhere" (engine.ts): whatever else fails, an outward       *)
(* intent of a session that read untrusted content fails by taint, and     *)
(* the decision says what it had read.                                     *)
TaintAlwaysReported ==
    \A s \in Sessions, i \in Input :
        LET untrusted == {x \in Taken(s) : x.provenance \in Untrusted} IN
        /\ ("taint" \in Evaluated(i, entry[s]).failed) <=> (untrusted # {} /\ i.intent \in Outward)
        /\ Evaluated(i, entry[s]).ancestors = {x.contentHash : x \in untrusted}

(* What the policy allows a role of the default matrix, the adapter does   *)
(* not refuse at that role's profile.                                      *)
AllowedIsRouted ==
    \A s \in Sessions, i \in Input :
        Allowed(i, entry[s]) => Route(i.operation, Profile(i)) # "blocked"

(* A label only becomes more restrictive (labels.ts), and no registration  *)
(* turns a denial into an allowance.                                       *)
NeverLoosens ==
    [][\A s \in Sessions :
          /\ Leq(entry[s].label, entry'[s].label)
          /\ \A i \in Input : Allowed(i, entry'[s]) => Allowed(i, entry[s])]_vars
=============================================================================
