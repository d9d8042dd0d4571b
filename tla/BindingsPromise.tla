--------------------------- MODULE BindingsPromise ---------------------------
(***************************************************************************)
(* What the broker needs of its NIE bindings (nie-bindings/src/interface.ts*)
(* as the routes use it): a session is issued once and never comes back    *)
(* once it has ended, a nonce is first used at most once in a session, and *)
(* the nonces of a session that can still be used are never forgotten.     *)
(***************************************************************************)
CONSTANTS Sessions, Nonces

VARIABLES live,     \* the sessions that can be used
          issued,   \* those that ever could
          consumed  \* the nonces used, each with its session

vars == <<live, issued, consumed>>

Init ==
    /\ live = {}
    /\ issued = {}
    /\ consumed = {}

(* Sessions end, by revocation, expiry or loss of the process that held    *)
(* them; nonces of sessions that are not live may be forgotten.            *)
End ==
    /\ live' \in SUBSET live
    /\ consumed' \in SUBSET consumed
    /\ \A c \in consumed \ consumed' : c[1] \notin live'
    /\ UNCHANGED issued

Issue(s) ==
    /\ s \notin issued
    /\ issued' = issued \cup {s}
    /\ live' = live \cup {s}
    /\ UNCHANGED consumed

Consume(s, n) ==
    /\ s \in issued
    /\ <<s, n>> \notin consumed
    /\ consumed' = consumed \cup {<<s, n>>}
    /\ UNCHANGED <<live, issued>>

Next ==
    \/ End
    \/ \E s \in Sessions : Issue(s) \/ \E n \in Nonces : Consume(s, n)

Spec == Init /\ [][Next]_vars
=============================================================================
