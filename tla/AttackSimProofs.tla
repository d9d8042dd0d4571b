---------------------------- MODULE AttackSimProofs ----------------------------
(***************************************************************************)
(* Theorems about the broker under the attack simulator and other clients, *)
(* in two parts.  The first is about NieBindings, for any number of        *)
(* handles, principals and operations, any lifetime and any clock.         *)
(* ChildWithinParent and RevokedStayOut are about the tokens that verify   *)
(* and are not inductive: IInv says of every entry of activeTokens,        *)
(* expired or not, that its parent's is there too and that nothing in it   *)
(* was revoked.                                                            *)
(*                                                                         *)
(* The second is about AttackSim, for any number of other clients that are *)
(* not named as the simulator's admissions, and wherever between two       *)
(* requests time passes.  SelfContained speaks of scenarios that ended:    *)
(* SimInv adds what one underway has reached, and that the handles of the  *)
(* admissions to come are unknown to everybody.  The answers are derived   *)
(* from the standing a request is given, the one it has among the others   *)
(* and the one it has alone, by the same lemmas.                           *)
(***************************************************************************)
EXTENDS AttackSim, TLAPS

-----------------------------------------------------------------------------
(* The bindings.                                                           *)

USE BindingsAssumption

ParentKept(h) ==
    LET p == token[h].parent IN
    /\ p \in active
    /\ token[h].operations \subseteq token[p].operations
    /\ token[h].expiresAt =< token[p].expiresAt
    /\ token[h].session = token[p].session
    /\ token[h].subject = token[p].subject
    /\ token[h].device = token[p].device

Unrevoked(h) ==
    /\ <<"subject", token[h].subject>> \notin revoked
    /\ <<"session", token[h].session>> \notin revoked
    /\ <<"device", token[h].device>> \notin revoked

(* The session of a token was issued, and only such sessions are revoked.  *)
SessionsIssued ==
    /\ \A h \in Handles : token[h] # NoToken => token[h].session \in Issued
    /\ \A s : <<"session", s>> \in revoked => s \in Issued

IInv ==
    /\ BindingsTypeOK
    /\ \A h \in active : ParentKept(h) /\ Unrevoked(h)
    /\ SessionsIssued

LEMMA InitInv == BindingsInit => IInv
BY DEF BindingsInit, IInv, BindingsTypeOK, ParentKept, Unrevoked, SessionsIssued, Issued

LEMMA TokenType ==
    ASSUME BindingsTypeOK, NEW h \in active
    PROVE  h \in Handles /\ token[h] \in TokenState /\ token[h] # NoToken
BY DEF BindingsTypeOK

LEMMA ChildExpiryType ==
    ASSUME BindingsTypeOK, NEW p \in active, NEW ttl \in Nat
    PROVE  /\ ChildExpiry(p, ttl) \in Int
           /\ ChildExpiry(p, ttl) =< token[p].expiresAt
<1>1. token[p].expiresAt \in Nat /\ clock \in Nat
  BY TokenType DEF TokenState, BindingsTypeOK
<1> QED
  BY <1>1 DEF ChildExpiry

(* A new token of a session that was issued, or its own, whose parent is   *)
(* itself or an entry of activeTokens it stays within.                     *)
LEMMA MintInv ==
    ASSUME IInv, NEW h \in Handles, NEW state \in TokenState, Mint(h, state),
           \/ state.parent = h /\ state.session = h
           \/ /\ state.parent \in active
              /\ state.operations \subseteq token[state.parent].operations
              /\ state.expiresAt =< token[state.parent].expiresAt
              /\ state.session = token[state.parent].session
              /\ state.subject = token[state.parent].subject
              /\ state.device = token[state.parent].device,
           <<"subject", state.subject>> \notin revoked,
           <<"device", state.device>> \notin revoked
    PROVE  IInv'
<1>1. /\ token[h] = NoToken
      /\ token' = [token EXCEPT ![h] = state]
      /\ active' = active \cup {h}
      /\ UNCHANGED <<revoked, seen, clock>>
      /\ state # NoToken
  BY DEF Mint
<1>2. token'[h] = state /\ \A g \in Handles \ {h} : token'[g] = token[g]
  BY <1>1 DEF IInv, BindingsTypeOK
<1>3. BindingsTypeOK'
  BY <1>1, <1>2 DEF IInv, BindingsTypeOK
<1>4. h \notin active /\ active \subseteq Handles
  BY <1>1 DEF IInv, BindingsTypeOK
<1>5. \A g \in active : token'[g] = token[g] /\ token[g].parent \in active
  BY <1>2, <1>4 DEF IInv, ParentKept
<1>6. Issued \subseteq Issued'
  BY <1>1, <1>2 DEF Issued
<1>7. h \notin Issued /\ <<"session", h>> \notin revoked
  BY <1>1 DEF IInv, SessionsIssued, Issued
<1>8. \A g \in active : (ParentKept(g) /\ Unrevoked(g))'
  <2> SUFFICES ASSUME NEW g \in active PROVE (ParentKept(g) /\ Unrevoked(g))'
    OBVIOUS
  <2>1. ParentKept(g) /\ Unrevoked(g)
    BY DEF IInv
  <2>2. token'[g] = token[g] /\ token'[token[g].parent] = token[token[g].parent]
    BY <1>5, <2>1 DEF ParentKept
  <2> QED
    BY <1>1, <2>1, <2>2 DEF ParentKept, Unrevoked
<1>9. ParentKept(h)'
  <2>1. CASE state.parent = h /\ state.session = h
    <3>1. state.expiresAt \in Nat
      BY DEF TokenState
    <3> QED
      BY <1>1, <1>2, <2>1, <3>1 DEF ParentKept
  <2>2. CASE state.parent \in active /\ state.parent # h
    <3>1. token'[state.parent] = token[state.parent]
      BY <1>5, <2>2
    <3>2. ~(state.parent = h /\ state.session = h)
      BY <2>2
    <3> QED
      BY <1>1, <1>2, <2>2, <3>1, <3>2 DEF ParentKept
  <2> QED
    BY <1>4, <2>1, <2>2
<1>10. <<"session", state.session>> \notin revoked
  <2>1. CASE state.session = h
    BY <1>7, <2>1
  <2>2. CASE state.session # h
    <3>1. state.parent \in active /\ state.session = token[state.parent].session
      BY <2>2
    <3> QED
      BY <3>1 DEF IInv, Unrevoked
  <2> QED
    BY <2>1, <2>2
<1>11. Unrevoked(h)'
  BY <1>1, <1>2, <1>10 DEF Unrevoked
<1>12. state.session \in Issued'
  <2>1. CASE state.session = h
    BY <1>1, <1>2, <2>1 DEF Issued
  <2>2. CASE state.session # h
    <3>1. state.parent \in active /\ state.session = token[state.parent].session
      BY <2>2
    <3>2. state.session \in Issued
      BY <3>1, TokenType DEF IInv, SessionsIssued
    <3> QED
      BY <3>2, <1>6
  <2> QED
    BY <2>1, <2>2
<1>13. SessionsIssued'
  BY <1>1, <1>2, <1>6, <1>12 DEF IInv, SessionsIssued
<1> QED
  BY <1>1, <1>3, <1>8, <1>9, <1>11, <1>13 DEF IInv

LEMMA AttestInv ==
    ASSUME IInv, NEW h \in Handles, NEW u \in Subjects, NEW d \in Devices, NEW r \in RoleNames,
           NEW o \in SUBSET Scope, NEW a \in BOOLEAN, Attest(h, u, d, r, o, a)
    PROVE  IInv'
<1> DEFINE state == [session |-> h, subject |-> u, device |-> d, role |-> r,
                     operations |-> o, expiresAt |-> clock + Lifetime, parent |-> h]
<1>1. CASE Refused(u, d, a)
  <2>1. UNCHANGED bindingVars
    BY <1>1 DEF Attest
  <2> QED
    BY <2>1 DEF bindingVars, IInv, BindingsTypeOK, ParentKept, Unrevoked, SessionsIssued, Issued
<1>2. CASE ~Refused(u, d, a)
  <2>1. Mint(h, state)
    BY <1>2 DEF Attest
  <2>2. state \in TokenState
    BY DEF IInv, BindingsTypeOK, TokenState
  <2>3. <<"subject", u>> \notin revoked /\ <<"device", d>> \notin revoked
    BY <1>2 DEF Refused
  <2>4. state.parent = h /\ state.session = h /\ state.subject = u /\ state.device = d
    OBVIOUS
  <2> QED
    BY <2>1, <2>2, <2>3, <2>4, MintInv
<1> QED
  BY <1>1, <1>2

LEMMA ChildState ==
    ASSUME IInv, NEW h \in Handles, NEW p \in Handles, NEW o \in SUBSET Scope, NEW ttl \in Nat,
           Derive(h, p, o, ttl)
    PROVE  [token[p] EXCEPT !.operations = o, !.expiresAt = ChildExpiry(p, ttl),
                            !.parent = p] \in TokenState
<1>1. p \in active /\ ChildExpiry(p, ttl) > clock
  BY DEF Derive
<1>2. token[p] \in TokenState
  BY <1>1, TokenType DEF IInv
<1>3. ChildExpiry(p, ttl) \in Nat
  <2>1. ChildExpiry(p, ttl) \in Int
    BY <1>1, ChildExpiryType DEF IInv
  <2> QED
    BY <1>1, <2>1 DEF IInv, BindingsTypeOK
<1> QED
  BY <1>2, <1>3 DEF TokenState

LEMMA DeriveInv ==
    ASSUME IInv, NEW h \in Handles, NEW p \in Handles, NEW o \in SUBSET Scope, NEW ttl \in Nat,
           Derive(h, p, o, ttl)
    PROVE  IInv'
<1> DEFINE state == [token[p] EXCEPT !.operations = o, !.expiresAt = ChildExpiry(p, ttl),
                                     !.parent = p]
<1>1. p \in active /\ ChildExpiry(p, ttl) > clock /\ o \subseteq token[p].operations /\ Mint(h, state)
  BY DEF Derive
<1>2. token[p] \in TokenState
  BY <1>1, TokenType DEF IInv
<1>3. ChildExpiry(p, ttl) =< token[p].expiresAt
  BY <1>1, ChildExpiryType DEF IInv
<1>4. state \in TokenState
  BY ChildState
<1>5. /\ state.parent = p /\ state.operations = o /\ state.expiresAt = ChildExpiry(p, ttl)
      /\ state.session = token[p].session
      /\ state.subject = token[p].subject
      /\ state.device = token[p].device
  BY <1>2 DEF TokenState
<1>6. <<"subject", state.subject>> \notin revoked /\ <<"device", state.device>> \notin revoked
  BY <1>1, <1>5 DEF IInv, Unrevoked
<1> HIDE DEF state
<1> QED
  BY <1>1, <1>3, <1>4, <1>5, <1>6, MintInv

(* A revocation keeps a token only with its parent, which it names alike.  *)
LEMMA RevokeInv ==
    ASSUME IInv, NEW kind \in Kinds, NEW id \in Subjects \cup Handles \cup Devices,
           kind = "session" => id \in Issued, Revoke(kind, id)
    PROVE  IInv'
<1>1. /\ revoked' = revoked \cup {<<kind, id>>}
      /\ active' = active \ {h \in active : Named(h, kind) = id}
      /\ UNCHANGED <<token, seen, clock>>
  BY DEF Revoke
<1>2. BindingsTypeOK'
  BY <1>1 DEF IInv, BindingsTypeOK
<1>3. ASSUME NEW h \in active'
      PROVE  (ParentKept(h) /\ Unrevoked(h))'
  <2>1. h \in active /\ ParentKept(h) /\ Unrevoked(h) /\ Named(h, kind) # id
    BY <1>1 DEF IInv
  <2>2. Named(token[h].parent, kind) = Named(h, kind)
    BY <2>1 DEF ParentKept, Named, Kinds
  <2>3. token[h].parent \in active'
    BY <1>1, <2>1, <2>2 DEF ParentKept
  <2>4. ParentKept(h)'
    BY <1>1, <2>1, <2>3 DEF ParentKept
  <2>5. Unrevoked(h)'
    BY <1>1, <2>1 DEF Unrevoked, Named, Kinds
  <2> QED
    BY <2>4, <2>5
<1>4. SessionsIssued'
  <2>1. Issued' = Issued
    BY <1>1 DEF Issued
  <2>2. \A s : <<"session", s>> \in revoked' => s \in Issued
    BY <1>1 DEF IInv, SessionsIssued
  <2> QED
    BY <1>1, <2>1, <2>2 DEF IInv, SessionsIssued
<1> QED
  BY <1>2, <1>3, <1>4 DEF IInv

LEMMA RevokeSessionInv ==
    ASSUME IInv, NEW h \in Handles, RevokeSessionOf(h)
    PROVE  IInv'
<1>1. token[h] # NoToken /\ Revoke("session", token[h].session)
  BY DEF RevokeSessionOf
<1>2. token[h].session \in Issued /\ Issued \subseteq Handles
  BY <1>1 DEF IInv, SessionsIssued, Issued
<1> QED
  BY <1>1, <1>2, RevokeInv DEF Kinds

LEMMA ConsumeInv ==
    ASSUME IInv, NEW h \in Handles, NEW n \in Nonces, ConsumeNonce(h, n)
    PROVE  IInv'
<1>1. token[h].session \in Handles
  BY DEF ConsumeNonce, IInv, SessionsIssued, Issued
<1> QED
  BY <1>1 DEF ConsumeNonce, IInv, BindingsTypeOK, ParentKept, Unrevoked, SessionsIssued, Issued

LEMMA TickInv == IInv /\ Tick => IInv'
BY DEF Tick, IInv, BindingsTypeOK, ParentKept, Unrevoked, SessionsIssued, Issued

LEMMA RestartInv == IInv /\ Restart => IInv'
BY DEF Restart, IInv, BindingsTypeOK, SessionsIssued, Issued

LEMMA StepInv == IInv /\ [BindingsNext]_bindingVars => IInv'
<1> SUFFICES ASSUME IInv, [BindingsNext]_bindingVars PROVE IInv'
  OBVIOUS
<1>1. CASE \E h \in Handles, u \in Subjects, d \in Devices, r \in RoleNames, o \in SUBSET Scope,
              a \in BOOLEAN : Attest(h, u, d, r, o, a)
  BY <1>1, AttestInv
<1>2. CASE \E h, p \in Handles, o \in SUBSET Scope, ttl \in Nat : Derive(h, p, o, ttl)
  BY <1>2, DeriveInv
<1>3. CASE \E u \in Subjects : Revoke("subject", u)
  BY <1>3, RevokeInv DEF Kinds
<1>4. CASE \E h \in Handles : RevokeSessionOf(h)
  BY <1>4, RevokeSessionInv
<1>5. CASE \E h \in Handles, n \in Nonces : ConsumeNonce(h, n)
  BY <1>5, ConsumeInv
<1>6. CASE \E d \in Devices : Revoke("device", d)
  BY <1>6, RevokeInv DEF Kinds
<1>7. CASE Tick
  BY <1>7, TickInv
<1>8. CASE Restart
  BY <1>8, RestartInv
<1>9. CASE UNCHANGED bindingVars
  BY <1>9 DEF bindingVars, IInv, BindingsTypeOK, ParentKept, Unrevoked, SessionsIssued, Issued
<1> QED
  BY <1>1, <1>2, <1>3, <1>4, <1>5, <1>6, <1>7, <1>8, <1>9 DEF BindingsNext

THEOREM BindingsInvariance == Bindings => []IInv
<1>1. BindingsInit => IInv
  BY InitInv
<1>2. IInv /\ [BindingsNext]_bindingVars => IInv'
  BY StepInv
<1> QED
  BY <1>1, <1>2, PTL DEF Bindings

(* The state of the bindings is of its types.                              *)
THEOREM BindingsTypeCorrect == Bindings => []BindingsTypeOK
<1>1. IInv => BindingsTypeOK
  BY DEF IInv
<1> QED
  BY <1>1, BindingsInvariance, PTL

(* Children cannot widen scope, cannot outlive parents, and revoke through *)
(* the parent, whatever is derived from what: deriveScopedCapability with  *)
(* verifyToken and revokeSubject.                                          *)
THEOREM ChildrenStayWithin == Bindings => []ChildWithinParent
<1>1. IInv => ChildWithinParent
  <2> SUFFICES ASSUME IInv, NEW h \in Handles, token[h] # NoToken, Verifies(h)
               PROVE  LET p == token[h].parent IN
                      /\ Verifies(p)
                      /\ token[h].operations \subseteq token[p].operations
                      /\ token[h].expiresAt =< token[p].expiresAt
                      /\ \A kind \in Kinds : Named(h, kind) = Named(p, kind)
    BY DEF ChildWithinParent
  <2> DEFINE p == token[h].parent
  <2>1. h \in active /\ ParentKept(h)
    BY DEF Verifies, IInv
  <2>2. p \in active /\ Unrevoked(p)
    BY <2>1 DEF ParentKept, IInv
  <2>3. token[h] \in TokenState /\ token[p] \in TokenState /\ clock \in Int
    BY <2>1, <2>2, TokenType DEF IInv, BindingsTypeOK
  <2>4. token[h].expiresAt \in Int /\ token[p].expiresAt \in Int
    BY <2>3 DEF TokenState
  <2>5. ~Expired(p)
    BY <2>1, <2>3, <2>4 DEF Verifies, Expired, ParentKept
  <2>6. Verifies(p)
    BY <2>2, <2>5 DEF Verifies, Unrevoked
  <2>7. \A kind \in Kinds : Named(h, kind) = Named(p, kind)
    BY <2>1 DEF ParentKept, Named, Kinds
  <2> QED
    BY <2>1, <2>6, <2>7 DEF ParentKept
<1> QED
  BY <1>1, BindingsInvariance, PTL

(* No token of a revoked subject, session or device verifies, whatever was *)
(* admitted, derived and revoked in whatever order.                        *)
THEOREM RevokedAlwaysOut == Bindings => []RevokedStayOut
<1>1. IInv => RevokedStayOut
  <2> SUFFICES ASSUME IInv, NEW h \in Handles, Verifies(h), NEW kind \in Kinds
               PROVE  <<kind, Named(h, kind)>> \notin revoked
    BY DEF RevokedStayOut
  <2>1. Unrevoked(h)
    BY DEF Verifies, IInv
  <2> QED
    BY <2>1 DEF Unrevoked, Named, Kinds
<1> QED
  BY <1>1, BindingsInvariance, PTL

-----------------------------------------------------------------------------
(* The bindings implement BindingsPromise.                                 *)
(* Sessions only end, and the nonces of those that last are kept.          *)
LEMMA EndsOnly ==
    ASSUME IInv, Issued' = Issued, Live' \subseteq Live,
           seen' = seen \/ (seen' = {} /\ Live' = {})
    PROVE  Promise!End
BY DEF Promise!End

LEMMA AttestIssues ==
    ASSUME IInv, NEW h \in Handles, NEW state \in TokenState, Mint(h, state),
           state.session = h, state.expiresAt = clock + Lifetime
    PROVE  Promise!Issue(h)
<1>1. /\ token[h] = NoToken /\ h \notin active /\ active \subseteq Handles
      /\ token'[h] = state
      /\ \A g \in Handles \ {h} : token'[g] = token[g]
      /\ active' = active \cup {h}
      /\ UNCHANGED <<revoked, seen, clock>>
      /\ state # NoToken
  BY DEF Mint, IInv, BindingsTypeOK
<1>2. h \notin Issued /\ <<"session", h>> \notin revoked
  BY <1>1 DEF Issued, IInv, SessionsIssued
<1>3. Issued' = Issued \cup {h}
  BY <1>1 DEF Issued
<1>4. \A g \in active : token'[g] = token[g] /\ (Verifies(g))' = Verifies(g)
  BY <1>1 DEF Verifies, Expired
<1>5. (Verifies(h))'
  <2>1. clock \in Int /\ Lifetime \in Nat
    BY DEF IInv, BindingsTypeOK
  <2>2. (~Expired(h))'
    BY <1>1, <2>1 DEF Expired
  <2> QED
    BY <1>1, <1>2, <2>2 DEF Verifies
<1>6. Live' = Live \cup {h}
  <2>1. \A x \in Live' : x \in Live \cup {h}
    BY <1>1, <1>4 DEF Live
  <2>2. \A x \in Live : x \in Live'
    BY <1>1, <1>4 DEF Live
  <2>3. h \in Live'
    BY <1>1, <1>5 DEF Live
  <2> QED
    BY <2>1, <2>2, <2>3
<1> QED
  BY <1>1, <1>2, <1>3, <1>6 DEF Promise!Issue

LEMMA DeriveStutters ==
    ASSUME IInv, NEW h \in Handles, NEW p \in Handles, NEW o \in SUBSET Scope, NEW ttl \in Nat,
           Derive(h, p, o, ttl)
    PROVE  Live' = Live /\ Issued' = Issued /\ seen' = seen
<1> DEFINE state == [token[p] EXCEPT !.operations = o, !.expiresAt = ChildExpiry(p, ttl),
                                     !.parent = p]
           s == token[p].session
<1>1. p \in active /\ ChildExpiry(p, ttl) > clock /\ Mint(h, state)
  BY DEF Derive
<1>2. token[p] \in TokenState /\ token[p] # NoToken
  BY <1>1, TokenType DEF IInv
<1>3. state.session = s /\ state \in TokenState
  BY <1>2, ChildState DEF TokenState
<1> HIDE DEF state
<1>4. /\ token[h] = NoToken /\ h \notin active /\ active \subseteq Handles
      /\ token'[h] = state
      /\ \A g \in Handles \ {h} : token'[g] = token[g]
      /\ active' = active \cup {h}
      /\ UNCHANGED <<revoked, seen, clock>>
      /\ state # NoToken
  BY <1>1, <1>3 DEF Mint, IInv, BindingsTypeOK
<1>5. s \in Issued /\ s # h
  BY <1>2, <1>4 DEF IInv, SessionsIssued, Issued
<1>6. Issued' = Issued
  BY <1>3, <1>4, <1>5 DEF Issued
<1>7. Verifies(p)
  <2>1. clock \in Int /\ token[p].expiresAt \in Int
    BY <1>2 DEF TokenState, IInv, BindingsTypeOK
  <2>2. ~Expired(p)
    BY <1>1, <2>1, ChildExpiryType DEF Expired, IInv
  <2> QED
    BY <1>1, <2>2 DEF Verifies, IInv, Unrevoked
<1>8. \A g \in active : token'[g] = token[g] /\ (Verifies(g))' = Verifies(g)
  BY <1>4 DEF Verifies, Expired
<1>9. s \in Live
  BY <1>1, <1>7 DEF Live
<1>10. \A x \in Live' : x \in Live
  BY <1>3, <1>4, <1>8, <1>9 DEF Live
<1>11. \A x \in Live : x \in Live'
  BY <1>4, <1>8 DEF Live
<1> QED
  BY <1>4, <1>6, <1>10, <1>11

LEMMA RevokeEnds ==
    ASSUME IInv, NEW kind, NEW id, Revoke(kind, id)
    PROVE  Promise!End
<1>1. UNCHANGED <<token, seen, clock>> /\ active' \subseteq active /\ revoked \subseteq revoked'
  BY DEF Revoke
<1>2. Issued' = Issued
  BY <1>1 DEF Issued
<1>3. \A g \in active' : (Verifies(g))' => Verifies(g)
  BY <1>1 DEF Verifies, Expired
<1>4. Live' \subseteq Live
  BY <1>1, <1>3 DEF Live
<1> QED
  BY <1>1, <1>2, <1>4, EndsOnly

LEMMA TickEnds == IInv /\ Tick => Promise!End
<1> SUFFICES ASSUME IInv, Tick PROVE Promise!End
  OBVIOUS
<1>1. UNCHANGED <<token, active, revoked, seen>> /\ clock' = clock + 1
  BY DEF Tick
<1>2. Issued' = Issued
  BY <1>1 DEF Issued
<1>3. ASSUME NEW g \in active, (Verifies(g))' PROVE Verifies(g)
  <2>1. token[g].expiresAt \in Int /\ clock \in Int
    BY TokenType DEF TokenState, IInv, BindingsTypeOK
  <2>2. ~Expired(g)
    BY <1>1, <1>3, <2>1 DEF Verifies, Expired
  <2> QED
    BY <1>1, <1>3, <2>2 DEF Verifies
<1>4. Live' \subseteq Live
  BY <1>1, <1>3 DEF Live
<1> QED
  BY <1>1, <1>2, <1>4, EndsOnly

LEMMA RestartEnds == IInv /\ Restart => Promise!End
<1> SUFFICES ASSUME IInv, Restart PROVE Promise!End
  OBVIOUS
<1>1. UNCHANGED token /\ active' = {} /\ seen' = {}
  BY DEF Restart
<1>2. Issued' = Issued /\ Live' = {}
  BY <1>1 DEF Issued, Live
<1> QED
  BY <1>1, <1>2, EndsOnly

LEMMA ConsumeConsumes ==
    ASSUME IInv, NEW h \in Handles, NEW n \in Nonces, ConsumeNonce(h, n)
    PROVE  Promise!Consume(token[h].session, n) \/ UNCHANGED Promise!vars
<1>1. /\ token[h] # NoToken
      /\ seen' = seen \cup {<<token[h].session, n>>}
      /\ UNCHANGED <<token, active, revoked, clock>>
  BY DEF ConsumeNonce
<1>2. Issued' = Issued /\ Live' = Live
  BY <1>1 DEF Issued, Live, Verifies, Expired
<1>3. token[h].session \in Issued
  BY <1>1 DEF IInv, SessionsIssued
<1> QED
  BY <1>1, <1>2, <1>3 DEF Promise!Consume, Promise!vars

(* Every step of the bindings is one the promise allows, or none it sees.  *)
LEMMA StepKept == IInv /\ [BindingsNext]_bindingVars => [Promise!Next]_(Promise!vars)
<1> SUFFICES ASSUME IInv, [BindingsNext]_bindingVars
             PROVE  Promise!Next \/ UNCHANGED Promise!vars
  OBVIOUS
<1>1. ASSUME NEW h \in Handles, NEW u \in Subjects, NEW d \in Devices, NEW r \in RoleNames,
             NEW o \in SUBSET Scope, NEW a \in BOOLEAN, Attest(h, u, d, r, o, a)
      PROVE  Promise!Next \/ UNCHANGED Promise!vars
  <2>1. CASE Refused(u, d, a)
    <3>1. UNCHANGED bindingVars
      BY <1>1, <2>1 DEF Attest
    <3> QED
      BY <3>1 DEF bindingVars, Promise!vars, Live, Issued, Verifies, Expired
  <2>2. CASE ~Refused(u, d, a)
    <3> DEFINE state == [session |-> h, subject |-> u, device |-> d, role |-> r,
                         operations |-> o, expiresAt |-> clock + Lifetime, parent |-> h]
    <3>1. Mint(h, state)
      BY <1>1, <2>2 DEF Attest
    <3>2. state \in TokenState /\ state.session = h /\ state.expiresAt = clock + Lifetime
      BY DEF TokenState, IInv, BindingsTypeOK
    <3> HIDE DEF state
    <3>3. Promise!Issue(h)
      BY <3>1, <3>2, AttestIssues
    <3> QED
      BY <3>3 DEF Promise!Next
  <2> QED
    BY <2>1, <2>2
<1>2. ASSUME NEW h \in Handles, NEW p \in Handles, NEW o \in SUBSET Scope, NEW ttl \in Nat,
             Derive(h, p, o, ttl)
      PROVE  UNCHANGED Promise!vars
  BY <1>2, DeriveStutters DEF Promise!vars
<1>3. ASSUME NEW h \in Handles, NEW n \in Nonces, ConsumeNonce(h, n)
      PROVE  Promise!Next \/ UNCHANGED Promise!vars
  <2>1. token[h].session \in Handles
    BY <1>3 DEF ConsumeNonce, IInv, SessionsIssued, Issued
  <2> QED
    BY <1>3, <2>1, ConsumeConsumes DEF Promise!Next
<1>4. ASSUME NEW kind, NEW id, Revoke(kind, id) PROVE Promise!Next
  BY <1>4, RevokeEnds DEF Promise!Next
<1>5. CASE Tick
  BY <1>5, TickEnds DEF Promise!Next
<1>6. CASE Restart
  BY <1>6, RestartEnds DEF Promise!Next
<1>7. CASE UNCHANGED bindingVars
  BY <1>7 DEF bindingVars, Promise!vars, Live, Issued, Verifies, Expired
<1> QED
  BY <1>1, <1>2, <1>3, <1>4, <1>5, <1>6, <1>7 DEF BindingsNext, RevokeSessionOf

(* The bindings keep what the broker needs of them: an ended session does  *)
(* not come back, and no nonce of a live session is forgotten.             *)
THEOREM BindingsRefinement == Bindings => PromiseKept
<1>1. BindingsInit => Promise!Init
  BY DEF BindingsInit, Promise!Init, Live, Issued
<1> QED
  BY <1>1, BindingsInvariance, StepKept, PTL DEF Bindings, PromiseKept, Promise!Spec

HIDE BindingsAssumption

-----------------------------------------------------------------------------
(* The table of the scenarios.                                             *)

LEMMA Table ==
  /\ Len(Scenarios) = 29 /\ DOMAIN Scenarios = 1..29
  /\ Scenarios[1] = s01 /\ Scenarios[2] = s02 /\ Scenarios[3] = s03 /\ Scenarios[4] = s04
  /\ Scenarios[5] = s05 /\ Scenarios[6] = s06 /\ Scenarios[7] = s07 /\ Scenarios[8] = s08
  /\ Scenarios[9] = s09 /\ Scenarios[11] = s11 /\ Scenarios[16] = s16 /\ Scenarios[17] = s17
  /\ Scenarios[18] = s24 /\ Scenarios[19] = s25 /\ Scenarios[23] = s21 /\ Scenarios[24] = s21b
  /\ Scenarios[25] = s22 /\ Scenarios[26] = s23 /\ Scenarios[27] = s23b /\ Scenarios[28] = s26
  /\ \A i \in {10, 12, 13, 14, 15, 20, 21, 22, 29} : Scenarios[i].steps = <<>>
<1>1. /\ Scenarios[10] = Skeleton("10") /\ Scenarios[12] = Skeleton("12") /\ Scenarios[13] = Skeleton("13")
      /\ Scenarios[14] = Skeleton("14") /\ Scenarios[15] = Skeleton("15") /\ Scenarios[20] = Skeleton("18")
      /\ Scenarios[21] = Skeleton("19") /\ Scenarios[22] = Skeleton("20") /\ Scenarios[29] = Skeleton("27")
  BY DEF Scenarios
<1>2. \A id : Skeleton(id).steps = <<>>
  BY DEF Skeleton, Scenario
<1>3. \A i \in {10, 12, 13, 14, 15, 20, 21, 22, 29} : Scenarios[i].steps = <<>>
  BY <1>1, <1>2
<1>4. Len(Scenarios) = 29 /\ DOMAIN Scenarios = 1..29
  BY DEF Scenarios
<1> HIDE DEF Scenarios
<1> QED
  BY <1>3, <1>4 DEF Scenarios

(* The scenarios that begin by an admission, and the role it asks for.     *)
Entering == {1, 2, 3, 4, 5, 6, 7, 9, 11, 17, 18, 28}

RoleAt == [i \in Entering |-> CASE i \in {3, 17} -> "viewer" [] i \in {6, 11} -> "admin"
                                [] i = 28 -> "egress_agent" [] OTHER -> "operator"]

LEMMA Lengths ==
  /\ \A i \in Entering \ {2, 5, 28} : Len(Scenarios[i].steps) = 2
  /\ \A i \in {2, 5} : Len(Scenarios[i].steps) = 3
  /\ Len(Scenarios[28].steps) = 5
  /\ \A i \in {8, 16, 19, 23, 24, 25, 26, 27} : Len(Scenarios[i].steps) = 1
  /\ \A i \in {10, 12, 13, 14, 15, 20, 21, 22, 29} : Scenarios[i].steps = <<>>
<1>1. /\ Len(s01.steps) = 2 /\ Len(s03.steps) = 2 /\ Len(s04.steps) = 2 /\ Len(s06.steps) = 2
      /\ Len(s07.steps) = 2 /\ Len(s09.steps) = 2 /\ Len(s11.steps) = 2 /\ Len(s17.steps) = 2
      /\ Len(s24.steps) = 2
  BY DEF s01, s03, s04, s06, s07, s09, s11, s17, s24, Denied, Scenario
<1>2. Len(s02.steps) = 3 /\ Len(s05.steps) = 3 /\ Len(s26.steps) = 5
  BY DEF s02, s05, s26, Scenario
<1>3. /\ Len(s08.steps) = 1 /\ Len(s16.steps) = 1 /\ Len(s25.steps) = 1 /\ Len(s21.steps) = 1
      /\ Len(s21b.steps) = 1 /\ Len(s22.steps) = 1 /\ Len(s23.steps) = 1 /\ Len(s23b.steps) = 1
  BY DEF s08, s16, s25, s21, s21b, s22, s23, s23b, Tainted, Scenario
<1> QED
  BY <1>1, <1>2, <1>3, Table DEF Entering

LEMMA RolesAt ==
  /\ RoleAt[1] = "operator" /\ RoleAt[2] = "operator" /\ RoleAt[3] = "viewer"
  /\ RoleAt[4] = "operator" /\ RoleAt[5] = "operator" /\ RoleAt[6] = "admin"
  /\ RoleAt[7] = "operator" /\ RoleAt[9] = "operator" /\ RoleAt[11] = "admin"
  /\ RoleAt[17] = "viewer" /\ RoleAt[18] = "operator" /\ RoleAt[28] = "egress_agent"
BY DEF RoleAt, Entering

LEMMA Entrances ==
  /\ \A i \in Entering : Scenarios[i].steps[1] = Enter(RoleAt[i])
  /\ Scenarios[28].steps[3] = Enter("egress_agent")
<1>1. /\ s01.steps[1] = Enter("operator") /\ s02.steps[1] = Enter("operator")
      /\ s03.steps[1] = Enter("viewer") /\ s04.steps[1] = Enter("operator")
      /\ s05.steps[1] = Enter("operator") /\ s06.steps[1] = Enter("admin")
      /\ s07.steps[1] = Enter("operator") /\ s09.steps[1] = Enter("operator")
      /\ s11.steps[1] = Enter("admin") /\ s17.steps[1] = Enter("viewer")
      /\ s24.steps[1] = Enter("operator") /\ s26.steps[1] = Enter("egress_agent")
      /\ s26.steps[3] = Enter("egress_agent")
  BY DEF s01, s02, s03, s04, s05, s06, s07, s09, s11, s17, s24, s26, Denied, Scenario
<1> HIDE DEF Enter
<1>2. \A i \in {1, 2, 4, 5, 7, 9, 18} :
         Scenarios[i].steps[1] = Enter("operator") /\ RoleAt[i] = "operator"
  <2>1. \A i \in {1, 2, 4, 5} :
           Scenarios[i].steps[1] = Enter("operator") /\ RoleAt[i] = "operator"
    BY <1>1, RolesAt, Table
  <2>2. \A i \in {7, 9, 18} :
           Scenarios[i].steps[1] = Enter("operator") /\ RoleAt[i] = "operator"
    BY <1>1, RolesAt, Table
  <2> QED
    BY <2>1, <2>2
<1>3. \A i \in {3, 17} : Scenarios[i].steps[1] = Enter("viewer") /\ RoleAt[i] = "viewer"
  BY <1>1, RolesAt, Table
<1>4. \A i \in {6, 11} : Scenarios[i].steps[1] = Enter("admin") /\ RoleAt[i] = "admin"
  BY <1>1, RolesAt, Table
<1>5. /\ Scenarios[28].steps[1] = Enter("egress_agent") /\ RoleAt[28] = "egress_agent"
      /\ Scenarios[28].steps[3] = Enter("egress_agent")
  BY <1>1, RolesAt, Table
<1>6. Entering = {1, 2, 4, 5, 7, 9, 18} \cup {3, 17} \cup {6, 11} \cup {28}
  BY DEF Entering
<1> QED
  BY <1>2, <1>3, <1>4, <1>5, <1>6

LEMMA OwnPlaces ==
  /\ \A h \in Own : h \in Nat /\ 10 <= h
  /\ \A i \in Entering : Place(i, 0) \in Own
  /\ Place(28, 2) \in Own /\ Place(25, 0) \in Own
<1>1. ASSUME NEW h \in Own
      PROVE  h \in Nat /\ 10 <= h
  <2>1. PICK y \in (1..29) \X (0..4) : h = Place(y[1], y[2])
    BY Table DEF Own
  <2>2. y[1] \in 1..29 /\ y[2] \in 0..4
    BY <2>1
  <2> QED
    BY <2>1, <2>2 DEF Place
<1>2. ASSUME NEW i \in 1..29, NEW n \in 0..4, n < Len(Scenarios[i].steps), NEW k, k = n + 1,
             Scenarios[i].steps[k].request.route = "admit"
      PROVE  Place(i, n) \in Own
  <2> DEFINE y == <<i, n>>
  <2>1. y \in (1..29) \X (0..4) /\ y[1] = i /\ y[2] = n
    OBVIOUS
  <2> HIDE DEF y
  <2> QED
    BY <1>2, <2>1, Table DEF Own
<1>3. \A role : Enter(role).request.route = "admit"
  BY DEF Enter, Expect, Admit
<1>4. \A i \in Entering : i \in 1..29 /\ 0 < Len(Scenarios[i].steps)
  <2>1. \A i \in Entering : i \in 1..29
    BY DEF Entering
  <2>2. \A i \in Entering : Len(Scenarios[i].steps) \in {2, 3, 5}
    BY Lengths DEF Entering
  <2>3. \A n \in {2, 3, 5} : 0 < n
    OBVIOUS
  <2> QED
    BY <2>1, <2>2, <2>3, Zenon
<1>5. ASSUME NEW i \in Entering
      PROVE  Place(i, 0) \in Own
  <2>1. Scenarios[i].steps[1].request.route = "admit"
    BY <1>3, Entrances
  <2>2. 0 \in 0..4 /\ 1 = 0 + 1 /\ i \in 1..29 /\ 0 < Len(Scenarios[i].steps)
    BY <1>4
  <2> QED
    BY <1>2, <2>1, <2>2
<1>6. Place(28, 2) \in Own
  <2>1. Scenarios[28].steps[3].request.route = "admit"
    BY <1>3, Entrances
  <2>2. 28 \in 1..29 /\ 2 \in 0..4 /\ 3 = 2 + 1 /\ 2 < Len(Scenarios[28].steps)
    BY Lengths
  <2> QED
    BY <1>2, <2>1, <2>2
<1>7. Place(25, 0) \in Own
  <2>1. Scenarios[25].steps[1].request = [Admit("admin") EXCEPT !.attested = FALSE, !.operator = FALSE]
    BY Table DEF s22, Scenario, Expect
  <2>2. Scenarios[25].steps[1].request.route = "admit"
    BY <2>1 DEF Admit
  <2>3. Len(Scenarios[25].steps) = 1
    BY Lengths
  <2>4. 25 \in 1..29 /\ 0 \in 0..4 /\ 1 = 0 + 1 /\ 0 < Len(Scenarios[25].steps)
    BY <2>3
  <2> QED
    BY <1>2, <2>2, <2>4
<1> QED
  BY <1>1, <1>5, <1>6, <1>7

-----------------------------------------------------------------------------
(* The invariant.                                                          *)

LabelTypes ==
    /\ labels = [h \in Handles |-> labels[h]]
    /\ \A h \in Handles : labels[h].label \in Label
    /\ manifests \subseteq {"cc", "dd"}

SimTypes ==
    /\ LabelTypes
    /\ at \in 1..(Len(Scenarios) + 1)
    /\ step \in 0..4
    /\ admitted \in Own
    /\ verdict \in [DOMAIN Scenarios -> {"none", "pass", "fail", "skip"}]
    /\ event = [i \in DOMAIN Scenarios |-> event[i]]

(* A handle of the simulator that is not issued: nobody names it.          *)
Fresh(h) ==
    /\ token[h] = NoToken
    /\ \A kind \in Kinds : <<kind, h>> \notin revoked
    /\ <<h, "n">> \notin seen
    /\ labels[h] = NoEntry

(* The token of an own handle names nobody else, that of another's handle  *)
(* no own session.                                                         *)
OwnToken(h) ==
    token[h] # NoToken => token[h].session = h /\ token[h].subject = h /\ token[h].device = h

OtherToken(h) == token[h] # NoToken => token[h].session \in Others

(* The handles of the requests to come are fresh.                          *)
Apart ==
    /\ \A h \in Own : h >= Place(at, step) => Fresh(h)
    /\ \A h \in Own : OwnToken(h)
    /\ \A h \in Others : OtherToken(h)

(* The token of an admission, which has not run out.                       *)
Entered(h, role) ==
    /\ token[h].session = h /\ token[h].role = role
    /\ clock <= token[h].expiresAt
    /\ h \in active
    /\ <<"session", h>> \notin revoked

Unspent(h) == <<h, "n">> \notin seen

Newly(h, role) == Entered(h, role) /\ Unspent(h) /\ labels[h] = NoEntry

(* What a scenario has reached with the requests it made.                  *)
Reached(i, n, h) ==
    /\ n = 1 => Newly(h, RoleAt[i])
    /\ i = 2 /\ n = 2 => Entered(h, "operator") /\ ~Unspent(h)
    /\ i = 5 /\ n = 2 => token[h] # NoToken /\ h \notin active
    /\ i = 28 /\ n = 3 => Newly(h, "egress_agent")
    /\ i = 28 /\ n = 4 => Entered(h, "egress_agent") /\ Unspent(h) /\ IsTainted(labels[h].label)

Underway ==
    at \in DOMAIN Scenarios /\ step > 0 =>
        /\ step < Len(Scenarios[at].steps)
        /\ admitted < Place(at, step)
        /\ Reached(at, step, admitted)

(* The scenarios whose expectation is not what the broker does.            *)
Off == {"06", "22", "23"}

Judged ==
    \A i \in DOMAIN Scenarios :
        /\ verdict[i] # "none" => i < at
        /\ verdict[i] = "fail" => Scenarios[i].id \in Off
        /\ verdict[i] = "pass" => /\ Scenarios[i].id \notin Off
                                  /\ event[i] = Scenarios[i].expectedEventType

SimInv == SimTypes /\ Apart /\ Underway /\ Judged

LEMMA SimInit == Init => IInv /\ SimInv
<1> SUFFICES ASSUME Init
             PROVE  IInv /\ SimInv
  OBVIOUS
<1>1. IInv
  BY InitInv DEF Init
<1>2. Len(Scenarios) = 29 /\ DOMAIN Scenarios = 1..29 /\ at = 1 /\ step = 0
  BY Table DEF Init
<1>3. Place(1, 0) \in Own
  BY OwnPlaces DEF Entering
<1>4. SimTypes
  <2>1. NoEntry.label \in Label
    BY DEF NoEntry, Bottom, Label, Classifications
  <2> HIDE DEF NoEntry
  <2> QED
    BY <1>2, <1>3, <2>1 DEF Init, SimTypes, LabelTypes
<1>5. Apart
  <2>1. Own \subseteq Handles /\ Others \subseteq Handles
    BY SimAssumption
  <2>2. /\ \A h \in Handles : token[h] = NoToken /\ labels[h] = NoEntry
        /\ revoked = {} /\ seen = {}
    BY DEF Init, BindingsInit
  <2> QED
    BY <2>1, <2>2 DEF Apart, Fresh, OwnToken, OtherToken
<1>6. Underway
  BY <1>2 DEF Underway
<1>7. Judged
  BY DEF Init, Judged
<1> QED
  BY <1>1, <1>4, <1>5, <1>6, <1>7 DEF SimInv

-----------------------------------------------------------------------------
(* What leaves a session of the simulator alone.                           *)
Untouched(h) ==
    /\ token'[h] = token[h]
    /\ (h \in active') <=> (h \in active)
    /\ \A kind \in Kinds : (<<kind, h>> \in revoked') <=> (<<kind, h>> \in revoked)
    /\ (<<h, "n">> \in seen') <=> (<<h, "n">> \in seen)
    /\ labels'[h] = labels[h]

LEMMA FreshKept == ASSUME NEW h, Untouched(h), Fresh(h) PROVE Fresh(h)'
BY DEF Untouched, Fresh

LEMMA EnteredKept ==
    ASSUME NEW h, NEW role, Untouched(h), UNCHANGED clock, Entered(h, role)
    PROVE  Entered(h, role)'
BY DEF Untouched, Entered, Kinds

LEMMA ReachedKept ==
    ASSUME NEW i, NEW n, NEW h, Untouched(h), UNCHANGED clock, Reached(i, n, h)
    PROVE  Reached(i, n, h)'
<1>1. \A role : Entered(h, role) => Entered(h, role)'
  BY EnteredKept
<1>2. Unspent(h)' = Unspent(h) /\ labels'[h] = labels[h]
  BY DEF Untouched, Unspent
<1>3. \A role : Newly(h, role) => Newly(h, role)'
  BY <1>1, <1>2 DEF Newly
<1>4. i = 5 /\ n = 2 => token'[h] # NoToken /\ h \notin active'
  BY DEF Untouched, Reached
<1>5. n = 1 => Newly(h, RoleAt[i])'
  BY <1>3 DEF Reached
<1>6. i = 28 /\ n = 3 => Newly(h, "egress_agent")'
  BY <1>3 DEF Reached
<1>7. i = 2 /\ n = 2 => Entered(h, "operator")' /\ ~Unspent(h)'
  BY <1>1, <1>2 DEF Reached
<1>8. i = 28 /\ n = 4 =>
        Entered(h, "egress_agent")' /\ Unspent(h)' /\ IsTainted(labels'[h].label)
  BY <1>1, <1>2 DEF Reached
<1> QED
  BY <1>4, <1>5, <1>6, <1>7, <1>8 DEF Reached

LEMMA OthersKeep ==
    ASSUME SimInv, SimTypes', UNCHANGED simVars, UNCHANGED clock, \A h \in Own : Untouched(h),
           \A h \in Others : OtherToken(h)'
    PROVE  SimInv'
<1>1. UNCHANGED <<at, step, admitted, verdict, event>>
  BY DEF simVars
<1>2. Apart'
  <2>1. \A h \in Own : OwnToken(h)'
    BY DEF SimInv, Apart, OwnToken, Untouched
  <2> QED
    BY <1>1, <2>1, FreshKept DEF SimInv, Apart
<1>3. Underway'
  <2>1. admitted \in Own
    BY DEF SimInv, SimTypes
  <2> QED
    BY <1>1, <2>1, ReachedKept DEF SimInv, Underway
<1>4. Judged'
  BY <1>1 DEF SimInv, Judged
<1> QED
  BY <1>2, <1>3, <1>4 DEF SimInv

-----------------------------------------------------------------------------
(* The steps of the other clients, of the clock and of the broker.         *)
LEMMA OthersHandles ==
  /\ Own \subseteq Handles /\ Own \subseteq Subjects /\ Own \subseteq Devices
  /\ Others \subseteq Handles /\ OtherSubjects \subseteq Subjects /\ OtherDevices \subseteq Devices
  /\ \A h \in Own : h \notin Others /\ h \notin OtherSubjects /\ h \notin OtherDevices
  /\ "n" \in Nonces
BY SimAssumption

LEMMA TypesKept ==
    ASSUME SimTypes, UNCHANGED simVars, UNCHANGED <<labels, manifests>>
    PROVE  SimTypes'
BY DEF SimTypes, LabelTypes, simVars

LEMMA MintUntouched ==
    ASSUME IInv, NEW g \in Handles, NEW state, Mint(g, state), NEW h \in Handles, h # g,
           labels'[h] = labels[h]
    PROVE  Untouched(h) /\ UNCHANGED clock
BY DEF Mint, Untouched, IInv, BindingsTypeOK

LEMMA AttestUntouched ==
    ASSUME IInv, NEW g \in Handles, NEW s, NEW e, NEW role, NEW o, NEW a,
           Attest(g, s, e, role, o, a), NEW h \in Handles, h # g, labels'[h] = labels[h]
    PROVE  Untouched(h) /\ UNCHANGED clock
<1>1. CASE UNCHANGED bindingVars
  BY <1>1 DEF bindingVars, Untouched
<1>2. CASE \E state : Mint(g, state)
  BY <1>2, MintUntouched
<1> QED
  BY <1>1, <1>2 DEF Attest

LEMMA RevokeUntouched ==
    ASSUME IInv, NEW kind \in Kinds, NEW id, Revoke(kind, id), NEW h \in Handles, h # id,
           OwnToken(h), labels'[h] = labels[h]
    PROVE  Untouched(h) /\ UNCHANGED clock
<1>1. /\ revoked' = revoked \cup {<<kind, id>>}
      /\ active' = active \ {g \in active : Named(g, kind) = id}
      /\ UNCHANGED <<token, seen, clock>>
  BY DEF Revoke
<1>2. h \in active => Named(h, kind) = h
  BY DEF OwnToken, Named, Kinds, IInv, BindingsTypeOK
<1>3. \A k \in Kinds : <<k, h>> # <<kind, id>>
  OBVIOUS
<1> QED
  BY <1>1, <1>2, <1>3 DEF Untouched

LEMMA ConsumeUntouched ==
    ASSUME NEW g, ConsumeNonce(g, "n"), NEW h, token[g].session # h, labels'[h] = labels[h]
    PROVE  Untouched(h) /\ UNCHANGED clock
<1>1. seen' = seen \cup {<<token[g].session, "n">>} /\ UNCHANGED <<token, active, revoked, clock>>
  BY DEF ConsumeNonce
<1> QED
  BY <1>1 DEF Untouched

LEMMA MintOther ==
    ASSUME IInv, NEW g \in Others, NEW state, Mint(g, state), state.session \in Others,
           \A o \in Others : OtherToken(o)
    PROVE  \A o \in Others : OtherToken(o)'
<1>1. g \in Handles /\ Others \subseteq Handles
  BY OthersHandles
<1>2. token' = [token EXCEPT ![g] = state]
  BY DEF Mint
<1>3. token'[g] = state /\ \A o \in Handles \ {g} : token'[o] = token[o]
  BY <1>1, <1>2 DEF IInv, BindingsTypeOK
<1> QED
  BY <1>1, <1>3 DEF OtherToken

LEMMA OtherRequestsInv == ASSUME IInv, SimInv, OtherRequests PROVE SimInv'
<1>1. UNCHANGED <<labels, manifests>> /\ UNCHANGED simVars
  BY DEF OtherRequests
<1>2. SimTypes' /\ (\A h \in Own : OwnToken(h)) /\ (\A g \in Others : OtherToken(g))
  BY <1>1, TypesKept DEF SimInv, Apart
<1>3. ASSUME UNCHANGED clock, \A h \in Own : Untouched(h), \A g \in Others : OtherToken(g)'
      PROVE  SimInv'
  BY <1>1, <1>2, <1>3, OthersKeep
<1>4. CASE \E g \in Others, s \in OtherSubjects, e \in OtherDevices :
              Attest(g, s, e, "operator", Scope, TRUE)
  <2>1. PICK g \in Others, s \in OtherSubjects, e \in OtherDevices :
              Attest(g, s, e, "operator", Scope, TRUE)
    BY <1>4
  <2>2. \A h \in Own : Untouched(h) /\ UNCHANGED clock
    BY <1>1, <2>1, OthersHandles, AttestUntouched
  <2>3. UNCHANGED clock
    BY <2>2, OwnPlaces DEF Entering
  <2>4. \A o \in Others : OtherToken(o)'
    <3>1. CASE UNCHANGED token
      BY <1>2, <3>1 DEF OtherToken
    <3>2. CASE ~UNCHANGED token
      <4> DEFINE state == [session |-> g, subject |-> s, device |-> e, role |-> "operator",
                           operations |-> Scope, expiresAt |-> clock + Lifetime, parent |-> g]
      <4>1. Mint(g, state)
        BY <2>1, <3>2 DEF Attest, bindingVars
      <4>2. state.session \in Others
        OBVIOUS
      <4> HIDE DEF state
      <4> QED
        BY <1>2, <4>1, <4>2, MintOther
    <3> QED
      BY <3>1, <3>2
  <2> QED
    BY <1>3, <2>2, <2>3, <2>4
<1>5. ASSUME NEW kind \in Kinds, NEW id, Revoke(kind, id), id \notin Own
      PROVE  SimInv'
  <2>1. \A h \in Own : Untouched(h)
    BY <1>1, <1>2, <1>5, OthersHandles, RevokeUntouched
  <2>2. UNCHANGED <<token, clock>>
    BY <1>5 DEF Revoke
  <2>3. \A o \in Others : OtherToken(o)'
    BY <1>2, <2>2 DEF OtherToken
  <2> QED
    BY <1>3, <2>1, <2>2, <2>3
<1>6. ASSUME NEW g \in Others, ConsumeNonce(g, "n")
      PROVE  SimInv'
  <2>1. token[g].session \in Others /\ UNCHANGED <<token, clock>>
    BY <1>2, <1>6 DEF ConsumeNonce, OtherToken
  <2>2. \A h \in Own : Untouched(h)
    BY <1>1, <1>6, <2>1, OthersHandles, ConsumeUntouched
  <2>3. \A o \in Others : OtherToken(o)'
    BY <1>2, <2>1 DEF OtherToken
  <2> QED
    BY <1>3, <2>1, <2>2, <2>3
<1>7. CASE \E s \in OtherSubjects : Revoke("subject", s)
  BY <1>5, <1>7, OthersHandles DEF Kinds
<1>8. CASE \E e \in OtherDevices : Revoke("device", e)
  BY <1>5, <1>8, OthersHandles DEF Kinds
<1>9. CASE \E g \in Others : RevokeSessionOf(g)
  <2>1. PICK g \in Others : token[g] # NoToken /\ Revoke("session", token[g].session)
    BY <1>9 DEF RevokeSessionOf
  <2>2. token[g].session \notin Own
    BY <1>2, <2>1, OthersHandles DEF OtherToken
  <2> QED
    BY <1>5, <2>1, <2>2 DEF Kinds
<1> QED
  BY <1>4, <1>6, <1>7, <1>8, <1>9 DEF OtherRequests

LEMMA DerivesInv == ASSUME IInv, SimInv, Derives PROVE SimInv'
<1>1. PICK h \in Others, p \in Others, o \in SUBSET Scope, ttl \in 1..Lifetime : Derive(h, p, o, ttl)
  BY DEF Derives
<1>2. UNCHANGED <<labels, manifests>> /\ UNCHANGED simVars
  BY DEF Derives
<1>3. SimTypes' /\ \A g \in Others : OtherToken(g)
  BY <1>2, TypesKept DEF SimInv, Apart
<1> DEFINE state == [token[p] EXCEPT !.operations = o, !.expiresAt = ChildExpiry(p, ttl),
                                     !.parent = p]
<1>4. h \in Handles /\ p \in Handles /\ Mint(h, state) /\ p \in active
  BY <1>1, OthersHandles DEF Derive
<1>5. token[p] \in TokenState /\ token[p] # NoToken
  BY <1>4, TokenType DEF IInv
<1>6. state.session \in Others
  BY <1>3, <1>5 DEF TokenState, OtherToken
<1> HIDE DEF state
<1>7. \A g \in Own : Untouched(g) /\ UNCHANGED clock
  BY <1>2, <1>4, OthersHandles, MintUntouched
<1>8. UNCHANGED clock
  BY <1>7, OwnPlaces DEF Entering
<1>9. \A g \in Others : OtherToken(g)'
  BY <1>3, <1>4, <1>6, MintOther
<1> QED
  BY <1>2, <1>3, <1>7, <1>8, <1>9, OthersKeep

(* The clock leaves the token of the scenario underway its life.           *)
LEMMA TimePassesInv == ASSUME IInv, SimInv, TimePasses PROVE SimInv'
<1>1. /\ step > 0 => clock < token[admitted].expiresAt
      /\ clock' = clock + 1 /\ UNCHANGED <<token, active, revoked, seen, labels, manifests>>
      /\ UNCHANGED <<at, step, admitted, verdict, event>>
  BY DEF TimePasses, Tick, simVars
<1>2. SimTypes'
  BY <1>1 DEF SimInv, SimTypes, LabelTypes
<1>3. Apart'
  BY <1>1 DEF SimInv, Apart, Fresh, OwnToken, OtherToken
<1>4. ASSUME step > 0, NEW role, Entered(admitted, role)
      PROVE  Entered(admitted, role)'
  <2>1. clock \in Int /\ token[admitted].expiresAt \in Int
    BY <1>4, TokenType DEF Entered, TokenState, IInv, BindingsTypeOK
  <2>2. clock + 1 <= token[admitted].expiresAt
    BY <1>1, <1>4, <2>1
  <2> QED
    BY <1>1, <1>4, <2>2 DEF Entered
<1>5. ASSUME step > 0, NEW i, NEW n, Reached(i, n, admitted)
      PROVE  Reached(i, n, admitted)'
  <2>1. Unspent(admitted)' = Unspent(admitted) /\ UNCHANGED <<token, active, labels>>
    BY <1>1 DEF Unspent
  <2>2. \A role : Newly(admitted, role) => Newly(admitted, role)'
    BY <1>1, <1>4, <1>5, <2>1 DEF Newly
  <2> QED
    BY <1>1, <1>4, <1>5, <2>1, <2>2 DEF Reached
<1>6. Underway'
  BY <1>1, <1>5 DEF SimInv, Underway
<1>7. Judged'
  BY <1>1 DEF SimInv, Judged
<1> QED
  BY <1>2, <1>3, <1>6, <1>7 DEF SimInv

LEMMA NoEntryType == NoEntry.label \in Label
BY DEF NoEntry, Bottom, Label, Classifications

(* Between two scenarios a restart finds none underway.                    *)
LEMMA BrokerRestartsInv == ASSUME SimInv, BrokerRestarts PROVE SimInv'
<1>1. /\ step = 0 /\ active' = {} /\ revoked' = {} /\ seen' = {} /\ UNCHANGED token
      /\ labels' = [h \in Handles |-> NoEntry]
      /\ manifests' = {}
      /\ UNCHANGED <<at, step, admitted, verdict, event>>
  BY DEF BrokerRestarts, Restart, simVars
<1> HIDE DEF NoEntry
<1>2. SimTypes'
  BY <1>1, NoEntryType DEF SimInv, SimTypes, LabelTypes
<1>3. Apart'
  <2>1. ASSUME NEW h \in Own, Fresh(h)
        PROVE  Fresh(h)'
    BY <1>1, <2>1, OthersHandles DEF Fresh
  <2>2. \A h \in Own : (h >= Place(at, step))' => Fresh(h)'
    BY <1>1, <2>1 DEF SimInv, Apart
  <2>3. (\A h \in Own : OwnToken(h)') /\ (\A h \in Others : OtherToken(h)')
    BY <1>1 DEF SimInv, Apart, OwnToken, OtherToken
  <2> QED
    BY <2>2, <2>3 DEF Apart
<1>4. Underway'
  BY <1>1 DEF Underway
<1>5. Judged'
  BY <1>1 DEF SimInv, Judged
<1> QED
  BY <1>2, <1>3, <1>4, <1>5 DEF SimInv

-----------------------------------------------------------------------------
(* What the registration of the fetched element makes of a label.          *)
LEMMA FetchedLabel ==
  /\ Fetched.provenance \in Untrusted /\ Fetched.provenance \in Origins
  /\ Fetched.classification \in Classifications
BY SimAssumption DEF Element

LEMMA LabelAfterOne ==
    ASSUME NEW l, NEW x
    PROVE  LabelAfter(l, <<x>>)[Len(<<x>>)] = Join(l, ElementLabel(x))
<1> DEFINE es == <<x>>
           L == LabelAfter(l, es)
           g == [n \in 0..1 |-> IF n = 0 THEN l ELSE Join(l, ElementLabel(es[n]))]
<1>1. Len(es) = 1 /\ es[1] = x /\ 0 \in 0..1 /\ 1 \in 0..1
  OBVIOUS
<1>2. g[0] = l /\ g[1] = Join(l, ElementLabel(es[1]))
  OBVIOUS
<1>3. ASSUME NEW n \in 0..1
      PROVE  g[n] = IF n = 0 THEN l ELSE Join(g[n - 1], ElementLabel(es[n]))
  <2>1. CASE n = 0
    BY <1>2, <2>1
  <2>2. CASE n = 1
    BY <1>2, <2>2
  <2> QED
    BY <2>1, <2>2
<1>4. g = [n \in 0..1 |-> g[n]]
  OBVIOUS
<1>5. L = CHOOSE h : h = [n \in 0..Len(es) |-> IF n = 0 THEN l ELSE Join(h[n - 1], ElementLabel(es[n]))]
  BY DEF LabelAfter
<1> HIDE DEF es, g, L
<1>6. g = [n \in 0..Len(es) |-> IF n = 0 THEN l ELSE Join(g[n - 1], ElementLabel(es[n]))]
  BY <1>1, <1>3, <1>4
<1>7. \E h : h = [n \in 0..Len(es) |-> IF n = 0 THEN l ELSE Join(h[n - 1], ElementLabel(es[n]))]
  BY <1>6
<1>8. L = [n \in 0..Len(es) |-> IF n = 0 THEN l ELSE Join(L[n - 1], ElementLabel(es[n]))]
  BY <1>5, <1>7, Zenon
<1>9. L[0] = l /\ L[1] = Join(L[0], ElementLabel(es[1]))
  BY <1>1, <1>8
<1> QED
  BY <1>1, <1>9 DEF es, L

LEMMA JoinedFetched ==
    ASSUME NEW e, e.label \in Label
    PROVE  LET j == Joined(e, <<Fetched>>, 1) IN j.label \in Label /\ IsTainted(j.label)
<1> DEFINE m == Join(e.label, ElementLabel(Fetched))
<1>1. Joined(e, <<Fetched>>, 1).label = m
  BY LabelAfterOne DEF Joined
<1>2. m \in Label /\ Fetched.provenance \in m.origins
  BY FetchedLabel DEF Join, ElementLabel, Label
<1>3. IsTainted(m)
  BY <1>2, FetchedLabel DEF IsTainted
<1> QED
  BY <1>1, <1>2, <1>3

(* A registration changes the label of the session alone.                  *)
LEMMA JoinsLabels ==
    ASSUME LabelTypes, NEW h \in Handles, NEW manifest \in {"cc", "dd"},
           Joins(RegisterContext(Fetched, manifest), h), token[h].session \in Handles
    PROVE  /\ LabelTypes'
           /\ \A g \in Handles : g # token[h].session => labels'[g] = labels[g]
           /\ Verifies(h) => IsTainted(labels'[token[h].session].label)
<1> DEFINE r == RegisterContext(Fetched, manifest)
           s == token[h].session
           j == Joined(labels[s], <<Fetched>>, 1)
<1>1. r.elements = <<Fetched>> /\ r.manifest = manifest
  BY DEF RegisterContext
<1>2. CASE Verifies(h)
  <2>1. manifests' = manifests \cup {manifest} /\ labels' = [labels EXCEPT ![s] = j]
    BY <1>1, <1>2 DEF Joins
  <2>2. j.label \in Label /\ IsTainted(j.label)
    BY JoinedFetched DEF LabelTypes
  <2> HIDE DEF j
  <2>3. labels = [g \in Handles |-> labels[g]] /\ \A g \in Handles : labels[g].label \in Label
    BY DEF LabelTypes
  <2>4. labels'[s] = j /\ \A g \in Handles : g # s => labels'[g] = labels[g]
    BY <2>1, <2>3
  <2>5. labels' = [g \in Handles |-> labels'[g]] /\ \A g \in Handles : labels'[g].label \in Label
    BY <2>1, <2>2, <2>3, <2>4
  <2>6. manifests' \subseteq {"cc", "dd"}
    BY <2>1 DEF LabelTypes
  <2>7. LabelTypes'
    BY <2>5, <2>6 DEF LabelTypes
  <2> QED
    BY <2>2, <2>4, <2>7
<1>3. CASE ~Verifies(h)
  BY <1>3 DEF Joins, LabelTypes
<1> QED
  BY <1>2, <1>3

LEMMA OtherRegistersInv == ASSUME IInv, SimInv, NEW h \in Others, OtherRegisters(h) PROVE SimInv'
<1>1. /\ token[h] # NoToken /\ Joins(RegisterContext(Fetched, "dd"), h)
      /\ UNCHANGED bindingVars /\ UNCHANGED simVars
  BY DEF OtherRegisters
<1>2. /\ SimTypes /\ LabelTypes /\ (\A g \in Own : OwnToken(g)) /\ (\A g \in Others : OtherToken(g))
      /\ token[h].session \in Others
  BY <1>1 DEF SimInv, SimTypes, Apart, OtherToken
<1>3. h \in Handles /\ token[h].session \in Handles
  BY <1>2, OthersHandles
<1>4. LabelTypes' /\ \A g \in Handles : g # token[h].session => labels'[g] = labels[g]
  BY <1>1, <1>2, <1>3, JoinsLabels
<1>5. SimTypes'
  BY <1>1, <1>2, <1>4 DEF SimTypes, simVars
<1>6. UNCHANGED <<token, active, revoked, seen, clock>>
  BY <1>1 DEF bindingVars
<1>7. \A g \in Own : g \in Handles /\ g # token[h].session
  BY <1>2, OthersHandles
<1>8. \A g \in Own : Untouched(g)
  BY <1>4, <1>6, <1>7 DEF Untouched
<1>9. \A g \in Others : OtherToken(g)'
  BY <1>2, <1>6 DEF OtherToken
<1> QED
  BY <1>1, <1>5, <1>6, <1>8, <1>9, OthersKeep

-----------------------------------------------------------------------------
(* A request: what it asks, under which handle, and its answer.            *)
Wanted == Scenarios[at].steps[step + 1]

By == IF Wanted.request.route = "admit" THEN Place(at, step) ELSE admitted

Reply == Answered(Wanted.request, Standing(Wanted.request, By))

(* The length of the scenario, and whether the request is its last.        *)
Steps == Len(Scenarios[at].steps)

Concludes == step + 1 = Steps

LEMMA RequestIs ==
    ASSUME Request
    PROVE  /\ at \in DOMAIN Scenarios /\ Scenarios[at].steps # <<>>
           /\ Handled(Wanted.request, By)
           /\ admitted' = By
           /\ event' = [event EXCEPT ![at] = Reply.event]
           /\ ~Matches(Reply, Wanted) => Finished("fail")
           /\ Matches(Reply, Wanted) /\ Concludes => Finished("pass")
           /\ Matches(Reply, Wanted) /\ ~Concludes => step' = step + 1 /\ UNCHANGED <<at, verdict>>
BY DEF Request, Wanted, By, Reply, Concludes, Steps

(* Where the simulation is in its scenario.                                *)
LEMMA Places ==
    ASSUME SimInv, Request
    PROVE  /\ at \in 1..29 /\ step \in 0..4 /\ admitted \in Own
           /\ step < Steps /\ Steps \in 1..5
           /\ step > 0 => admitted < Place(at, step) /\ Reached(at, step, admitted)
<1>1. at \in 1..29 /\ Scenarios[at].steps # <<>>
  BY RequestIs, Table
<1>2. at \notin {10, 12, 13, 14, 15, 20, 21, 22, 29}
  BY <1>1, Lengths
<1>3. at \in Entering \cup {8, 16, 19, 23, 24, 25, 26, 27}
  BY <1>1, <1>2 DEF Entering
<1>4. Steps \in 1..5
  <2>1. CASE at \in Entering
    BY <2>1, Lengths DEF Entering, Steps
  <2>2. CASE at \in {8, 16, 19, 23, 24, 25, 26, 27}
    BY <2>2, Lengths DEF Steps
  <2> QED
    BY <1>3, <2>1, <2>2
<1>5. step \in 0..4 /\ admitted \in Own
  BY DEF SimInv, SimTypes
<1>6. step > 0 => /\ step < Steps
                  /\ admitted < Place(at, step)
                  /\ Reached(at, step, admitted)
  BY <1>1, Table DEF SimInv, Underway, Steps
<1>7. step < Steps
  <2>1. step > 0 => step < Steps
    BY <1>6
  <2> QED
    BY <1>4, <1>5, <2>1
<1> QED
  BY <1>1, <1>4, <1>5, <1>6, <1>7, Zenon

(* A request keeps the invariant when it gets the answer wanted but in the *)
(* three scenarios, and leaves the handles to come alone.                  *)
LEMMA RequestKeeps ==
    ASSUME SimInv, Request, By \in Own, LabelTypes',
           NEW i, NEW n, NEW h, i = at, n = step + 1, h = By,
           \A g \in Own : g > Place(at, step) => Untouched(g),
           \A g \in Own : OwnToken(g)', \A o \in Others : OtherToken(o)',
           ~Matches(Reply, Wanted) => Scenarios[at].id \in Off,
           Matches(Reply, Wanted) /\ Concludes =>
               Scenarios[at].id \notin Off /\ Reply.event = Scenarios[at].expectedEventType,
           Matches(Reply, Wanted) /\ ~Concludes =>
               By <= Place(at, step) /\ Reached(i, n, h)'
    PROVE  SimInv'
<1>1. /\ at \in 1..29 /\ step \in 0..4 /\ step < Steps
      /\ Steps \in 1..5
  BY Places
<1>2. /\ admitted' = By
      /\ event' = [event EXCEPT ![at] = Reply.event]
      /\ ~Matches(Reply, Wanted) => Finished("fail")
      /\ Matches(Reply, Wanted) /\ Concludes => Finished("pass")
      /\ Matches(Reply, Wanted) /\ ~Concludes => step' = step + 1 /\ UNCHANGED <<at, verdict>>
  BY RequestIs
<1>3. /\ event = [j \in DOMAIN Scenarios |-> event[j]]
      /\ verdict \in [DOMAIN Scenarios -> {"none", "pass", "fail", "skip"}]
  BY DEF SimInv, SimTypes
<1>4. DOMAIN Scenarios = 1..29 /\ Len(Scenarios) = 29
  BY Table
<1>5. event'[at] = Reply.event /\ \A j \in 1..29 : j # at => event'[j] = event[j]
  BY <1>1, <1>2, <1>3, <1>4
<1>6. event' = [j \in DOMAIN Scenarios |-> event'[j]]
  BY <1>2, <1>3
<1>7. ASSUME NEW result \in {"pass", "fail"}, Finished(result),
             result = "fail" => Scenarios[at].id \in Off,
             result = "pass" => /\ Scenarios[at].id \notin Off
                                /\ Reply.event = Scenarios[at].expectedEventType
      PROVE  SimInv'
  <2>1. verdict' = [verdict EXCEPT ![at] = result] /\ at' = at + 1 /\ step' = 0
    BY <1>7 DEF Finished
  <2>2. SimTypes'
    BY <1>1, <1>2, <1>3, <1>4, <1>6, <2>1 DEF SimTypes
  <2>3. Apart'
    <3>1. ASSUME NEW g \in Own, (g >= Place(at, step))'
          PROVE  Fresh(g)'
      <4>1. g \in Nat /\ g > Place(at, step)
        BY <1>1, <2>1, <3>1, OwnPlaces DEF Place
      <4>2. g >= Place(at, step)
        BY <1>1, <4>1 DEF Place
      <4> QED
        BY <4>1, <4>2, FreshKept DEF SimInv, Apart
    <3> QED
      BY <3>1 DEF Apart
  <2>4. Underway'
    BY <2>1 DEF Underway
  <2>5. Judged'
    <3>1. verdict'[at] = result /\ \A j \in 1..29 : j # at => verdict'[j] = verdict[j]
      BY <1>1, <1>3, <1>4, <2>1
    <3>2. ASSUME NEW j \in 1..29
          PROVE  /\ verdict'[j] # "none" => j < at'
                 /\ verdict'[j] = "fail" => Scenarios[j].id \in Off
                 /\ verdict'[j] = "pass" => /\ Scenarios[j].id \notin Off
                                            /\ event'[j] = Scenarios[j].expectedEventType
      <4>1. CASE j = at
        BY <1>1, <1>5, <1>7, <2>1, <3>1, <4>1
      <4>2. CASE j # at
        <5>1. /\ verdict[j] # "none" => j < at
              /\ verdict[j] = "fail" => Scenarios[j].id \in Off
              /\ verdict[j] = "pass" => /\ Scenarios[j].id \notin Off
                                        /\ event[j] = Scenarios[j].expectedEventType
          BY <1>4 DEF SimInv, Judged
        <5> QED
          BY <1>1, <1>5, <2>1, <3>1, <4>2, <5>1
      <4> QED
        BY <4>1, <4>2
    <3> QED
      BY <1>4, <3>2 DEF Judged
  <2> QED
    BY <2>2, <2>3, <2>4, <2>5 DEF SimInv
<1>8. ASSUME Matches(Reply, Wanted), ~Concludes
      PROVE  SimInv'
  <2>1. step' = step + 1 /\ UNCHANGED <<at, verdict>>
    BY <1>2, <1>8
  <2>2. step + 1 < Steps /\ step + 1 \in 1..4
    BY <1>1, <1>8 DEF Concludes
  <2>3. SimTypes'
    BY <1>2, <1>3, <1>6, <2>1, <2>2 DEF SimInv, SimTypes
  <2>4. Apart'
    <3>1. ASSUME NEW g \in Own, (g >= Place(at, step))'
          PROVE  Fresh(g)'
      <4>1. g \in Nat /\ g > Place(at, step)
        BY <1>1, <2>1, <3>1, OwnPlaces DEF Place
      <4>2. g >= Place(at, step)
        BY <1>1, <4>1 DEF Place
      <4> QED
        BY <4>1, <4>2, FreshKept DEF SimInv, Apart
    <3> QED
      BY <3>1 DEF Apart
  <2>5. Underway'
    <3>1. By \in Nat /\ By <= Place(at, step)
      BY <1>8, OwnPlaces
    <3>2. By < Place(at, step + 1)
      BY <1>1, <3>1 DEF Place
    <3>3. i = at' /\ n = step' /\ h = admitted' /\ Reached(i, n, h)'
      BY <1>2, <1>8, <2>1
    <3> QED
      BY <1>2, <2>1, <2>2, <3>2, <3>3 DEF Underway, Steps
  <2>6. Judged'
    <3>1. ASSUME NEW j \in 1..29, verdict[j] # "none"
          PROVE  j < at /\ event'[j] = event[j]
      BY <1>1, <1>4, <1>5, <3>1 DEF SimInv, Judged
    <3> QED
      BY <1>4, <2>1, <3>1 DEF SimInv, Judged
  <2> QED
    BY <2>3, <2>4, <2>5, <2>6 DEF SimInv
<1> QED
  BY <1>2, <1>7, <1>8

-----------------------------------------------------------------------------
(* What the requests of the simulator change.                              *)
LEMMA OwnHandles ==
    ASSUME SimInv
    PROVE  \A h \in Own : h \in Handles /\ h \in Subjects /\ h \in Devices /\ h \notin Others /\ OwnToken(h)
BY OthersHandles DEF SimInv, Apart

LEMMA EnterChanges ==
    ASSUME IInv, SimInv, NEW h \in Own, Fresh(h), NEW role \in RoleNames, Handled(Admit(role), h)
    PROVE  /\ Newly(h, role)' /\ OwnToken(h)'
           /\ UNCHANGED <<labels, manifests, clock>>
           /\ \A g \in Handles : g # h => Untouched(g)
           /\ \E u \in Subjects, d \in Devices, o \in SUBSET Scope :
                 Attest(h, u, d, role, o, TRUE)
<1> DEFINE r == Admit(role)
<1>1. r.route = "admit" /\ r.role = role /\ r.attested = TRUE /\ r.operator = TRUE
  BY DEF Admit
<1>2. Attest(h, h, h, r.role, Scope, r.attested) /\ UNCHANGED <<labels, manifests>>
  <2>1. Handled(r, h)
    OBVIOUS
  <2> HIDE DEF r
  <2> QED
    BY <1>1, <2>1 DEF Handled
<1> HIDE DEF r
<1>3. Attest(h, h, h, role, Scope, TRUE)
  BY <1>1, <1>2
<1>4. h \in Handles /\ h \in Subjects /\ h \in Devices
  BY OwnHandles
<1>5. token[h] = NoToken /\ <<h, "n">> \notin seen /\ labels[h] = NoEntry /\
      \A kind \in Kinds : <<kind, h>> \notin revoked
  BY DEF Fresh
<1>6. ~Refused(h, h, TRUE)
  BY <1>5 DEF Refused, Kinds
<1> DEFINE root == [session |-> h, subject |-> h, device |-> h, role |-> role,
                    operations |-> Scope, expiresAt |-> clock + Lifetime, parent |-> h]
<1>7. Mint(h, root)
  BY <1>3, <1>6 DEF Attest
<1>8. /\ root.session = h /\ root.subject = h /\ root.device = h /\ root.role = role
      /\ clock <= root.expiresAt
  BY BindingsAssumption DEF IInv, BindingsTypeOK
<1> HIDE DEF root
<1>9. /\ token'[h] = root /\ h \in active' /\ UNCHANGED <<revoked, seen, clock>>
  BY <1>4, <1>7 DEF Mint, IInv, BindingsTypeOK
<1>10. Newly(h, role)'
  BY <1>2, <1>5, <1>8, <1>9 DEF Newly, Entered, Unspent, Kinds
<1>11. OwnToken(h)'
  BY <1>8, <1>9 DEF OwnToken
<1>12. \A g \in Handles : g # h => Untouched(g)
  <2>1. UNCHANGED labels
    BY <1>2
  <2> QED
    BY <1>4, <1>7, <2>1, MintUntouched
<1> QED
  BY <1>2, <1>3, <1>4, <1>9, <1>10, <1>11, <1>12

LEMMA InvokeChanges ==
    ASSUME SimInv, NEW h \in Own, token[h] # NoToken,
           NEW r, r.route = "invoke", r.operator = TRUE, Handled(r, h)
    PROVE  /\ UNCHANGED <<labels, manifests, token, active, revoked, clock>>
           /\ seen' = seen \cup (IF Verifies(h) THEN {<<h, "n">>} ELSE {})
           /\ \A g \in Handles : g # h => Untouched(g)
           /\ ConsumeNonce(h, "n") \/ UNCHANGED bindingVars
<1>1. /\ IF Verifies(h) THEN ConsumeNonce(h, "n") ELSE UNCHANGED bindingVars
      /\ UNCHANGED <<labels, manifests>>
  BY DEF Handled
<1>2. token[h].session = h
  BY OwnHandles DEF OwnToken
<1>3. CASE Verifies(h)
  <2>1. ConsumeNonce(h, "n")
    BY <1>1, <1>3
  <2>2. \A g \in Handles : g # h => Untouched(g)
    BY <1>1, <1>2, <2>1, ConsumeUntouched
  <2> QED
    BY <1>1, <1>2, <1>3, <2>1, <2>2 DEF ConsumeNonce
<1>4. CASE ~Verifies(h)
  BY <1>1, <1>4 DEF bindingVars, Untouched
<1> QED
  BY <1>3, <1>4

LEMMA RevokeChanges ==
    ASSUME IInv, SimInv, NEW h \in Own, token[h] # NoToken, Handled(RevokeSession, h)
    PROVE  /\ UNCHANGED <<labels, manifests, token, clock>>
           /\ h \notin active'
           /\ \A g \in Own : g # h => Untouched(g)
           /\ RevokeSessionOf(h)
<1>1. RevokeSession.route = "revoke" /\ RevokeSession.operator = TRUE
  BY DEF RevokeSession
<1>2. RevokeSessionOf(h) /\ UNCHANGED <<labels, manifests>>
  BY <1>1 DEF Handled
<1>3. token[h].session = h
  BY OwnHandles DEF OwnToken
<1>4. Revoke("session", h)
  BY <1>2, <1>3 DEF RevokeSessionOf
<1>5. \A g \in Own : g # h => Untouched(g)
  BY <1>2, <1>4, OwnHandles, RevokeUntouched DEF Kinds
<1>6. UNCHANGED <<token, clock>> /\ h \notin active'
  BY <1>3, <1>4 DEF Revoke, Named
<1> QED
  BY <1>2, <1>5, <1>6

LEMMA NothingChanges ==
    ASSUME NEW h, NEW r, r.operator # TRUE \/ r.route \in {"mcp", "skill"}, Handled(r, h)
    PROVE  UNCHANGED <<bindingVars, labels, manifests>> /\ \A g : Untouched(g)
<1>1. UNCHANGED bindingVars /\ UNCHANGED <<labels, manifests>>
  BY DEF Handled
<1> QED
  BY <1>1 DEF bindingVars, Untouched

LEMMA RegisterChanges ==
    ASSUME IInv, SimInv, NEW h \in Own, Entered(h, "egress_agent"), Verifies(h),
           Handled(RegisterContext(Fetched, "cc"), h)
    PROVE  /\ UNCHANGED bindingVars /\ LabelTypes' /\ IsTainted(labels'[h].label)
           /\ \A g \in Handles : g # h => Untouched(g)
<1> DEFINE r == RegisterContext(Fetched, "cc")
<1>1. r.route = "register" /\ r.operator = TRUE
  BY DEF RegisterContext
<1>2. UNCHANGED bindingVars /\ Joins(r, h)
  <2>1. Handled(r, h)
    OBVIOUS
  <2> HIDE DEF r
  <2> QED
    BY <1>1, <2>1 DEF Handled
<1>3. token[h].session = h /\ h \in Handles
  BY OwnHandles DEF Entered
<1>4. LabelTypes
  BY DEF SimInv, SimTypes
<1>5. /\ LabelTypes' /\ IsTainted(labels'[h].label)
      /\ \A g \in Handles : g # h => labels'[g] = labels[g]
  BY <1>2, <1>3, <1>4, JoinsLabels
<1>6. \A g \in Handles : g # h => Untouched(g)
  BY <1>2, <1>5 DEF bindingVars, Untouched
<1> QED
  BY <1>2, <1>5, <1>6

-----------------------------------------------------------------------------
(* The answers of /v1/invoke: that of the first layer that refuses.        *)
LEMMA LeastIs ==
    ASSUME NEW S \in SUBSET Nat, NEW k \in S, \A n \in S : k <= n
    PROVE  Min(S) = k
<1>1. Min(S) \in S /\ \A n \in S : Min(S) <= n
  BY Zenon DEF Min
<1>2. \A m \in S : k <= m /\ m <= k => m = k
  OBVIOUS
<1> QED
  BY <1>1, <1>2

Refuses(r, s, n) == Layers(r, s)[n][1]

Replies(r, s, n) == Layers(r, s)[n][2]

LEMMA FirstLayer ==
    ASSUME NEW r, NEW s, NEW k \in 1..9, Refuses(r, s, k),
           \A n \in 1..9 : n < k => ~Refuses(r, s, n)
    PROVE  InvokeAnswer(r, s) = Replies(r, s, k)
<1> DEFINE layers == Layers(r, s)
           S == {n \in DOMAIN layers : layers[n][1]}
<1>1. DOMAIN layers = 1..9
  BY DEF Layers
<1>2. InvokeAnswer(r, s) = layers[Min(S)][2]
  BY DEF InvokeAnswer
<1> HIDE DEF layers
<1>3. S \in SUBSET Nat
  BY <1>1
<1>4. k \in S /\ \A n \in S : k <= n
  BY <1>1 DEF layers, Refuses
<1> HIDE DEF S
<1>5. Min(S) = k
  BY <1>3, <1>4, LeastIs
<1> QED
  BY <1>2, <1>5 DEF layers, Replies

InputOf(r, s) == [role |-> s.role, operation |-> r.operation, intent |-> r.intent,
                 classification |-> r.classification]

FailedOf(r, s) == Evaluated(InputOf(r, s), s.entry).failed

LEMMA LayersAre ==
    ASSUME NEW r, NEW s
    PROVE  /\ Refuses(r, s, 1) <=> ~s.verifies
           /\ Refuses(r, s, 2) <=> s.replayed
           /\ Refuses(r, s, 3) <=> ~r.bound
           /\ Refuses(r, s, 4) <=> (r.intent \notin OperationToIntent[r.operation])
           /\ Refuses(r, s, 5) <=> (r.manifest # "zero" /\ r.manifest \notin s.manifests)
           /\ Refuses(r, s, 6) <=> (FailedOf(r, s) # {})
           /\ Refuses(r, s, 7) <=>
                 (FailedOf(r, s) = {} /\ RequiresDualControl(InputOf(r, s)) /\ ~r.receipt)
           /\ Refuses(r, s, 8) <=>
                 (FailedOf(r, s) = {} /\ Route(r.operation, Profile(InputOf(r, s))) = "blocked")
           /\ Refuses(r, s, 9)
           /\ Replies(r, s, 1) = Answer(401, s.reason, "deny")
           /\ Replies(r, s, 2) = Answer(403, "ERR_NONCE_REPLAY", "replay_fail")
           /\ Replies(r, s, 3) = Answer(403, "ERR_TARGET_MISMATCH", "target_mismatch")
           /\ Replies(r, s, 4) = Answer(403, "ERR_INTENT_DRIFT", "intent_drift")
           /\ Replies(r, s, 5) = Answer(403, "ERR_CONTEXT_MANIFEST_INVALID", "deny")
           /\ DenyReasonCode(FailedOf(r, s)) = "ERR_SCOPE_DENIED" =>
             Replies(r, s, 6) = Answer(403, "ERR_SCOPE_DENIED", "scope_fail")
           /\ Replies(r, s, 7) = Answer(202, "ERR_DUAL_CONTROL_REQUIRED", "dual_control_requested")
           /\ Replies(r, s, 9) = Answer(200, "none", "invoke")
BY Zenon DEF Refuses, Replies, Layers, InputOf, FailedOf

(* No layer up to the policy refuses.                                      *)
Accepted(s) == s.verifies /\ ~s.replayed

Formed(r, s) ==
    /\ Accepted(s)
    /\ r.bound
    /\ r.intent \in OperationToIntent[r.operation]
    /\ r.manifest = "zero"

LEMMA InvokeAnswers ==
    ASSUME NEW r, NEW s
    PROVE  /\ ~s.verifies => InvokeAnswer(r, s) = Answer(401, s.reason, "deny")
           /\ s.verifies /\ s.replayed =>
                   InvokeAnswer(r, s) = Answer(403, "ERR_NONCE_REPLAY", "replay_fail")
           /\ Accepted(s) /\ ~r.bound =>
                   InvokeAnswer(r, s) = Answer(403, "ERR_TARGET_MISMATCH", "target_mismatch")
           /\ Accepted(s) /\ r.bound /\ r.intent \notin OperationToIntent[r.operation] =>
                 InvokeAnswer(r, s) = Answer(403, "ERR_INTENT_DRIFT", "intent_drift")
           /\ Accepted(s) /\ r.bound /\ r.intent \in OperationToIntent[r.operation] /\
              r.manifest # "zero" /\ r.manifest \notin s.manifests =>
                 InvokeAnswer(r, s) = Answer(403, "ERR_CONTEXT_MANIFEST_INVALID", "deny")
           /\ Formed(r, s) /\ FailedOf(r, s) # {} /\ DenyReasonCode(FailedOf(r, s)) = "ERR_SCOPE_DENIED" =>
                 InvokeAnswer(r, s) = Answer(403, "ERR_SCOPE_DENIED", "scope_fail")
           /\ Formed(r, s) /\ FailedOf(r, s) = {} /\ RequiresDualControl(InputOf(r, s)) /\ ~r.receipt =>
                 InvokeAnswer(r, s) = Answer(202, "ERR_DUAL_CONTROL_REQUIRED", "dual_control_requested")
           /\ Formed(r, s) /\ FailedOf(r, s) = {} /\ ~(RequiresDualControl(InputOf(r, s)) /\ ~r.receipt) /\
              Route(r.operation, Profile(InputOf(r, s))) # "blocked" =>
                 InvokeAnswer(r, s) = Answer(200, "none", "invoke")
<1>1. /\ \A n \in 1..9 : ~(n < 1)
      /\ \A n \in 1..9 : n < 2 => n = 1
      /\ \A n \in 1..9 : n < 3 => n \in {1, 2}
      /\ \A n \in 1..9 : n < 4 => n \in {1, 2, 3}
      /\ \A n \in 1..9 : n < 5 => n \in {1, 2, 3, 4}
      /\ \A n \in 1..9 : n < 6 => n \in {1, 2, 3, 4, 5}
      /\ \A n \in 1..9 : n < 7 => n \in {1, 2, 3, 4, 5, 6}
      /\ \A n \in 1..9 : n < 9 => n \in {1, 2, 3, 4, 5, 6, 7, 8}
      /\ {1, 2, 3, 4, 5, 6, 7, 9} \subseteq 1..9
  OBVIOUS
<1>2. ~s.verifies => InvokeAnswer(r, s) = Answer(401, s.reason, "deny")
  BY LayersAre, FirstLayer, <1>1
<1>3. s.verifies /\ s.replayed =>
                          InvokeAnswer(r, s) = Answer(403, "ERR_NONCE_REPLAY", "replay_fail")
  BY LayersAre, FirstLayer, <1>1
<1>4. Accepted(s) /\ ~r.bound =>
                             InvokeAnswer(r, s) = Answer(403, "ERR_TARGET_MISMATCH", "target_mismatch")
  BY LayersAre, FirstLayer, <1>1 DEF Accepted
<1>5. Accepted(s) /\ r.bound /\ r.intent \notin OperationToIntent[r.operation] =>
        InvokeAnswer(r, s) = Answer(403, "ERR_INTENT_DRIFT", "intent_drift")
  BY LayersAre, FirstLayer, <1>1 DEF Accepted
<1>6. Accepted(s) /\ r.bound /\ r.intent \in OperationToIntent[r.operation] /\
       r.manifest # "zero" /\ r.manifest \notin s.manifests =>
        InvokeAnswer(r, s) = Answer(403, "ERR_CONTEXT_MANIFEST_INVALID", "deny")
  BY LayersAre, FirstLayer, <1>1 DEF Accepted
<1>7. Formed(r, s) => /\ ~Refuses(r, s, 1) /\ ~Refuses(r, s, 2) /\ ~Refuses(r, s, 3)
                      /\ ~Refuses(r, s, 4) /\ ~Refuses(r, s, 5)
  <2>1. Formed(r, s) => ~Refuses(r, s, 1) /\ ~Refuses(r, s, 2) /\ ~Refuses(r, s, 3)
    BY LayersAre DEF Formed, Accepted
  <2>2. Formed(r, s) => ~Refuses(r, s, 4)
    BY LayersAre DEF Formed
  <2>3. Formed(r, s) => ~Refuses(r, s, 5)
    BY LayersAre DEF Formed
  <2> QED
    BY <2>1, <2>2, <2>3
<1>8. Formed(r, s) /\ FailedOf(r, s) # {} /\ DenyReasonCode(FailedOf(r, s)) = "ERR_SCOPE_DENIED" =>
         InvokeAnswer(r, s) = Answer(403, "ERR_SCOPE_DENIED", "scope_fail")
  BY LayersAre, FirstLayer, <1>1, <1>7
<1>9. Formed(r, s) /\ FailedOf(r, s) = {} /\ RequiresDualControl(InputOf(r, s)) /\ ~r.receipt =>
         InvokeAnswer(r, s) = Answer(202, "ERR_DUAL_CONTROL_REQUIRED", "dual_control_requested")
  BY LayersAre, FirstLayer, <1>1, <1>7
<1>10. Formed(r, s) /\ FailedOf(r, s) = {} /\ ~(RequiresDualControl(InputOf(r, s)) /\ ~r.receipt) /\
       Route(r.operation, Profile(InputOf(r, s))) # "blocked" =>
         InvokeAnswer(r, s) = Answer(200, "none", "invoke")
  BY LayersAre, FirstLayer, <1>1, <1>7
<1> QED
  BY <1>2, <1>3, <1>4, <1>5, <1>6, <1>8, <1>9, <1>10, Zenon

-----------------------------------------------------------------------------
(* What the policy says of the operations of the scenarios.                *)
LEMMA Matrix ==
  /\ {"viewer", "operator", "admin", "egress_agent"} \subseteq DOMAIN Roles
  /\ Roles["viewer"].allowedOperations = {"operator.read"}
  /\ "tool.invoke" \in Roles["operator"].allowedOperations
  /\ Roles["operator"].requiresDualControl = {}
  /\ Roles["admin"].allowedOperations = {"admin.control", "exec.run"}
  /\ Roles["admin"].requiresDualControl = {"admin.control", "exec.run"}
  /\ Roles["admin"].defaultProfile = "strict"
  /\ "export.data" \in Roles["egress_agent"].allowedOperations
  /\ Roles["egress_agent"].requiresDualControl = {}
  /\ Roles["egress_agent"].defaultProfile = "strict"
<1>1. Roles = DefaultRoles
  BY SimAssumption
<1>2. {"viewer", "operator", "admin", "egress_agent"} \subseteq DOMAIN DefaultRoles
  BY DEF DefaultRoles
<1>3. /\ DefaultRoles["viewer"] = Role({"operator.read"}, "standard", {})
      /\ DefaultRoles["operator"] = Role({"operator.read", "operator.write", "tool.invoke",
                                          "file.read", "file.write"}, "standard", {})
      /\ DefaultRoles["admin"] = Role({"admin.control", "exec.run"}, "strict",
                                      {"admin.control", "exec.run"})
      /\ DefaultRoles["egress_agent"] = Role({"operator.read", "file.read", "export.data"},
                                             "strict", {})
  BY DEF DefaultRoles
<1> QED
  BY <1>1, <1>2, <1>3 DEF Role

LEMMA Intended ==
  /\ "read" \in OperationToIntent["tool.invoke"] /\ "export" \notin OperationToIntent["tool.invoke"]
  /\ "execute" \in OperationToIntent["exec.run"]
  /\ "escalate" \in OperationToIntent["admin.control"]
  /\ "export" \in OperationToIntent["export.data"]
BY DEF OperationToIntent, Operations

LEMMA Failures ==
    ASSUME NEW r, NEW s, s.role \in DOMAIN Roles, r.classification \in Classifications,
           r.intent \in OperationToIntent[r.operation]
    PROVE  /\ r.operation \in Roles[s.role].allowedOperations /\ ~IsTainted(s.entry.label) =>
                  FailedOf(r, s) = {}
           /\ r.operation \notin Roles[s.role].allowedOperations =>
                  FailedOf(r, s) # {} /\ DenyReasonCode(FailedOf(r, s)) = "ERR_SCOPE_DENIED"
           /\ IsTainted(s.entry.label) /\ r.intent = "export" =>
                  FailedOf(r, s) # {} /\ DenyReasonCode(FailedOf(r, s)) = "ERR_SCOPE_DENIED"
<1> DEFINE i == InputOf(r, s)
           e == s.entry
           scope == IF i.operation \in Roles[i.role].allowedOperations THEN {} ELSE {"scope"}
           taint == IF TaintFails(i, e) THEN {"taint"} ELSE {}
<1>1. i.role = s.role /\ i.operation = r.operation /\ i.intent = r.intent /\ i.classification = r.classification
  BY DEF InputOf
<1>2. Resolved(i)
  BY <1>1 DEF Resolved
<1>3. FailedOf(r, s) = Evaluated(i, e).failed
  BY DEF FailedOf
<1> HIDE DEF i, e
<1>4. Evaluated(i, e).failed = scope \cup taint
  BY <1>1, <1>2 DEF Evaluated, ClassificationFails
<1>5. "role" \notin FailedOf(r, s) /\ "classification" \notin FailedOf(r, s)
  BY <1>3, <1>4
<1>6. DenyReasonCode(FailedOf(r, s)) = "ERR_SCOPE_DENIED"
  BY <1>5 DEF DenyReasonCode
<1>7. r.operation \in Roles[s.role].allowedOperations /\ ~IsTainted(e.label) =>
        FailedOf(r, s) = {}
  BY <1>1, <1>3, <1>4 DEF TaintFails
<1>8. r.operation \notin Roles[s.role].allowedOperations => FailedOf(r, s) # {}
  BY <1>1, <1>3, <1>4
<1>9. IsTainted(e.label) /\ r.intent = "export" => FailedOf(r, s) # {}
  BY <1>1, <1>3, <1>4 DEF TaintFails, Outward
<1> QED
  BY <1>6, <1>7, <1>8, <1>9 DEF e

(* What an admitted session of a role makes of a request, and one that has *)
(* asked nothing yet and read nothing untrusted.                           *)
Held(s, role) == s.verifies /\ s.role = role

New(s, role) == Held(s, role) /\ ~s.replayed /\ ~IsTainted(s.entry.label)

LEMMA NewIs ==
    \A s, role : New(s, role) => Accepted(s) /\ s.role = role /\ ~IsTainted(s.entry.label)
BY DEF New, Held, Accepted

LEMMA InvokeFields ==
    \A o, i : LET r == Invoke(o, i) IN
        /\ r.route = "invoke" /\ r.operator = TRUE /\ r.bound = TRUE
        /\ r.operation = o /\ r.intent = i /\ r.manifest = "zero" /\ r.receipt = FALSE
        /\ r.classification \in Classifications
BY DEF Invoke, Classifications

LEMMA AdmittedReads ==
    ASSUME NEW s, New(s, "operator")
    PROVE  InvokeAnswer(Read, s) = Answer(200, "none", "invoke")
<1>1. /\ Read.operation = "tool.invoke" /\ Read.intent = "read" /\ Read.bound = TRUE
      /\ Read.manifest = "zero" /\ Read.receipt = FALSE /\ Read.classification \in Classifications
  BY InvokeFields DEF Read
<1>2. Accepted(s) /\ s.role = "operator" /\ ~IsTainted(s.entry.label)
  BY NewIs
<1>3. Formed(Read, s)
  BY <1>1, <1>2, Intended DEF Formed
<1>4. FailedOf(Read, s) = {}
  BY <1>1, <1>2, Matrix, Intended, Failures
<1>5. ~RequiresDualControl(InputOf(Read, s)) /\ Route("tool.invoke", Profile(InputOf(Read, s))) # "blocked"
  <2>1. InputOf(Read, s).role = "operator"
    BY <1>2 DEF InputOf
  <2>2. ~RequiresDualControl(InputOf(Read, s))
    BY <2>1, Matrix DEF RequiresDualControl
  <2>3. \A profile : Route("tool.invoke", profile) = "invokeTool"
    BY DEF Route, DefaultDeny, StrictOnly
  <2> QED
    BY <2>2, <2>3
<1> QED
  BY <1>1, <1>3, <1>4, <1>5, InvokeAnswers

(* The five that the layers before the policy refuse.                      *)
LEMMA RefusedEarly ==
    ASSUME NEW s, New(s, "operator"), s.manifests \subseteq {"cc", "dd"}
    PROVE  /\ InvokeAnswer([Read EXCEPT !.bound = FALSE], s) =
                  Answer(403, "ERR_TARGET_MISMATCH", "target_mismatch")
           /\ InvokeAnswer(Invoke("tool.invoke", "export"), s) =
                  Answer(403, "ERR_INTENT_DRIFT", "intent_drift")
           /\ \A m \in {"aa", "bb"} : InvokeAnswer([Read EXCEPT !.manifest = m], s) =
                  Answer(403, "ERR_CONTEXT_MANIFEST_INVALID", "deny")
<1>1. Accepted(s)
  BY NewIs
<1>2. [Read EXCEPT !.bound = FALSE].bound = FALSE
  BY DEF Read, Invoke
<1>3. LET r == Invoke("tool.invoke", "export") IN
      r.bound = TRUE /\ r.operation = "tool.invoke" /\ r.intent = "export"
  BY InvokeFields
<1>4. ASSUME NEW m \in {"aa", "bb"}
      PROVE  InvokeAnswer([Read EXCEPT !.manifest = m], s) =
                 Answer(403, "ERR_CONTEXT_MANIFEST_INVALID", "deny")
  <2> DEFINE r == [Read EXCEPT !.manifest = m]
  <2>1. r.bound = TRUE /\ r.operation = "tool.invoke" /\ r.intent = "read" /\ r.manifest = m
    BY DEF Read, Invoke
  <2> HIDE DEF r
  <2>2. r.manifest # "zero" /\ r.manifest \notin s.manifests
    BY <2>1
  <2>3. r.intent \in OperationToIntent[r.operation]
    BY <2>1, Intended
  <2>4. InvokeAnswer(r, s) = Answer(403, "ERR_CONTEXT_MANIFEST_INVALID", "deny")
    BY <1>1, <2>1, <2>2, <2>3, InvokeAnswers
  <2> QED
    BY <2>4 DEF r
<1>5. InvokeAnswer([Read EXCEPT !.bound = FALSE], s) =
          Answer(403, "ERR_TARGET_MISMATCH", "target_mismatch")
  <2> DEFINE r == [Read EXCEPT !.bound = FALSE]
  <2>1. Accepted(s) /\ ~r.bound
    BY <1>1, <1>2
  <2> HIDE DEF r
  <2>2. InvokeAnswer(r, s) = Answer(403, "ERR_TARGET_MISMATCH", "target_mismatch")
    BY <2>1, InvokeAnswers
  <2> QED
    BY <2>2 DEF r
<1>6. InvokeAnswer(Invoke("tool.invoke", "export"), s) = Answer(403, "ERR_INTENT_DRIFT", "intent_drift")
  BY <1>1, <1>3, Intended, InvokeAnswers
<1> QED
  BY <1>4, <1>5, <1>6

LEMMA ViewerRefused ==
    ASSUME NEW s, New(s, "viewer"), NEW o, NEW i,
           <<o, i>> \in {<<"exec.run", "execute">>, <<"admin.control", "escalate">>}
    PROVE  InvokeAnswer(Invoke(o, i), s) = Answer(403, "ERR_SCOPE_DENIED", "scope_fail")
<1> DEFINE r == Invoke(o, i)
<1>1. /\ r.operation = o /\ r.intent = i /\ r.bound = TRUE /\ r.manifest = "zero"
      /\ r.classification \in Classifications
  BY InvokeFields
<1>2. r.intent \in OperationToIntent[r.operation] /\ r.operation \notin {"operator.read"}
  BY <1>1, Intended
<1> HIDE DEF r
<1>3. Accepted(s) /\ s.role = "viewer"
  BY NewIs
<1>4. Formed(r, s)
  BY <1>1, <1>2, <1>3 DEF Formed
<1>5. FailedOf(r, s) # {} /\ DenyReasonCode(FailedOf(r, s)) = "ERR_SCOPE_DENIED"
  BY <1>1, <1>2, <1>3, Matrix, Failures
<1>6. InvokeAnswer(r, s) = Answer(403, "ERR_SCOPE_DENIED", "scope_fail")
  BY <1>4, <1>5, InvokeAnswers
<1> QED
  BY <1>6 DEF r

(* Under a receipt, or without one.                                        *)
LEMMA AdminAnswered ==
    ASSUME NEW s, New(s, "admin")
    PROVE  /\ InvokeAnswer(Invoke("admin.control", "escalate"), s) =
                  Answer(202, "ERR_DUAL_CONTROL_REQUIRED", "dual_control_requested")
           /\ InvokeAnswer([Invoke("exec.run", "execute") EXCEPT !.receipt = TRUE], s) =
                  Answer(200, "none", "invoke")
<1>1. /\ Accepted(s)
      /\ s.role = "admin" /\ ~IsTainted(s.entry.label)
  BY NewIs
<1>2. ASSUME NEW r, r.bound = TRUE, r.manifest = "zero", r.classification \in Classifications,
             r.operation \in {"admin.control", "exec.run"},
             r.intent \in OperationToIntent[r.operation]
      PROVE  /\ Formed(r, s) /\ FailedOf(r, s) = {} /\ RequiresDualControl(InputOf(r, s))
             /\ Route(r.operation, Profile(InputOf(r, s))) # "blocked"
  <2>1. Formed(r, s)
    BY <1>1, <1>2 DEF Formed
  <2>2. FailedOf(r, s) = {}
    BY <1>1, <1>2, Matrix, Failures
  <2>3. InputOf(r, s).role = "admin" /\ InputOf(r, s).operation = r.operation
    BY <1>1 DEF InputOf
  <2>4. RequiresDualControl(InputOf(r, s)) /\ Profile(InputOf(r, s)) = "strict"
    BY <1>2, <2>3, Matrix DEF RequiresDualControl, Profile
  <2>5. Route(r.operation, "strict") = "executeRestricted"
    BY <1>2 DEF Route, DefaultDeny, StrictOnly
  <2> QED
    BY <2>1, <2>2, <2>4, <2>5
<1>3. InvokeAnswer(Invoke("admin.control", "escalate"), s) =
          Answer(202, "ERR_DUAL_CONTROL_REQUIRED", "dual_control_requested")
  <2> DEFINE r == Invoke("admin.control", "escalate")
  <2>1. /\ r.bound = TRUE /\ r.manifest = "zero" /\ r.receipt = FALSE
        /\ r.classification \in Classifications
        /\ r.operation = "admin.control" /\ r.intent = "escalate"
    BY InvokeFields
  <2> HIDE DEF r
  <2>2. r.intent \in OperationToIntent[r.operation] /\ r.operation \in {"admin.control", "exec.run"}
    BY <2>1, Intended
  <2>3. /\ Formed(r, s) /\ FailedOf(r, s) = {} /\ RequiresDualControl(InputOf(r, s))
        /\ Route(r.operation, Profile(InputOf(r, s))) # "blocked"
    BY <1>2, <2>1, <2>2
  <2>4. InvokeAnswer(r, s) = Answer(202, "ERR_DUAL_CONTROL_REQUIRED", "dual_control_requested")
    BY <2>1, <2>3, InvokeAnswers
  <2> QED
    BY <2>4 DEF r
<1>4. InvokeAnswer([Invoke("exec.run", "execute") EXCEPT !.receipt = TRUE], s) =
          Answer(200, "none", "invoke")
  <2> DEFINE r == [Invoke("exec.run", "execute") EXCEPT !.receipt = TRUE]
  <2>1. /\ r.bound = TRUE /\ r.manifest = "zero" /\ r.receipt = TRUE
        /\ r.classification \in Classifications
        /\ r.operation = "exec.run" /\ r.intent = "execute"
    BY DEF Invoke, Classifications
  <2> HIDE DEF r
  <2>2. r.intent \in OperationToIntent[r.operation] /\ r.operation \in {"admin.control", "exec.run"}
    BY <2>1, Intended
  <2>3. /\ Formed(r, s) /\ FailedOf(r, s) = {} /\ RequiresDualControl(InputOf(r, s))
        /\ Route(r.operation, Profile(InputOf(r, s))) # "blocked"
    BY <1>2, <2>1, <2>2
  <2>4. InvokeAnswer(r, s) = Answer(200, "none", "invoke")
    BY <2>1, <2>3, InvokeAnswers
  <2> QED
    BY <2>4 DEF r
<1> QED
  BY <1>3, <1>4

Export == Invoke("export.data", "export")

LEMMA ExportAnswered ==
    ASSUME NEW s, Held(s, "egress_agent"), ~s.replayed
    PROVE  /\ ~IsTainted(s.entry.label) =>
                  InvokeAnswer(Export, s) = Answer(200, "none", "invoke")
           /\ IsTainted(s.entry.label) =>
                  InvokeAnswer(Export, s) = Answer(403, "ERR_SCOPE_DENIED", "scope_fail")
<1> DEFINE r == Export
<1>1. /\ r.operation = "export.data" /\ r.intent = "export" /\ r.bound = TRUE
      /\ r.manifest = "zero" /\ r.receipt = FALSE /\ r.classification \in Classifications
  BY InvokeFields DEF Export
<1>2. Accepted(s) /\ s.role = "egress_agent"
  BY DEF Held, Accepted
<1>3. Formed(r, s)
  BY <1>1, <1>2, Intended DEF Formed
<1>4. /\ ~IsTainted(s.entry.label) => FailedOf(r, s) = {}
      /\ IsTainted(s.entry.label) =>
             FailedOf(r, s) # {} /\ DenyReasonCode(FailedOf(r, s)) = "ERR_SCOPE_DENIED"
  BY <1>1, <1>2, Matrix, Intended, Failures
<1>5. ~RequiresDualControl(InputOf(r, s)) /\ Route("export.data", Profile(InputOf(r, s))) # "blocked"
  <2>1. InputOf(r, s).role = "egress_agent"
    BY <1>2 DEF InputOf
  <2>2. ~RequiresDualControl(InputOf(r, s)) /\ Profile(InputOf(r, s)) = "strict"
    BY <2>1, Matrix DEF RequiresDualControl, Profile
  <2>3. Route("export.data", "strict") = "readResource"
    BY DEF Route, DefaultDeny, StrictOnly
  <2> QED
    BY <2>2, <2>3
<1> QED
  BY <1>1, <1>3, <1>4, <1>5, InvokeAnswers

LEMMA ReplayRefused ==
    ASSUME NEW s, s.verifies, s.replayed, NEW r
    PROVE  InvokeAnswer(r, s) = Answer(403, "ERR_NONCE_REPLAY", "replay_fail")
BY InvokeAnswers

LEMMA RevokedRefused ==
    ASSUME NEW s, ~s.verifies, NEW r
    PROVE  InvokeAnswer(r, s) = Answer(401, s.reason, "deny")
BY InvokeAnswers

-----------------------------------------------------------------------------
(* The other answers.                                                      *)
LEMMA AdmitAnswered ==
    ASSUME NEW s, ~s.refused, NEW role
    PROVE  Answered(Admit(role), s) = Answer(200, "none", "admit")
BY DEF Admit, Answered, Unguarded, AdmitAnswer

LEMMA McpAnswered ==
    \A server, matches :
        McpAnswer(Ingest(server, matches)) =
            IF server \notin DOMAIN TrustLevel \/ server = "attacker-mcp"
            THEN Answer(403, "ERR_MCP_SERVER_BLOCKED", "mcp_block")
            ELSE IF matches # {} THEN Answer(403, "ERR_MCP_RESPONSE_TAINTED", "mcp_tainted")
            ELSE Answer(200, "none", "none")
<1>1. /\ DOMAIN TrustLevel = {"telegram-bot", "slack-connector", "email-ingest", "internal-docs",
                              "attacker-mcp"}
      /\ \A server \in DOMAIN TrustLevel :
            TrustLevel[server] = "blocked" <=> server = "attacker-mcp"
  BY DEF TrustLevel
<1>2. ASSUME NEW server
      PROVE  Mediated(server) <=> (server \in DOMAIN TrustLevel /\ server # "attacker-mcp")
  BY <1>1 DEF Mediated
<1>3. \A server, matches : LET r == Ingest(server, matches) IN
          r.server = server /\ (TaintFound(r) <=> matches # {})
  BY DEF Ingest, TaintFound
<1>4. ASSUME NEW server, NEW matches
      PROVE  McpAnswer(Ingest(server, matches)) =
                 IF ~Mediated(server) THEN Answer(403, "ERR_MCP_SERVER_BLOCKED", "mcp_block")
                 ELSE IF matches # {} THEN Answer(403, "ERR_MCP_RESPONSE_TAINTED", "mcp_tainted")
                 ELSE Answer(200, "none", "none")
  BY <1>3 DEF McpAnswer
<1> QED
  BY <1>2, <1>4

LEMMA SkillAnswered ==
  /\ SkillAnswer(RegisterSkill("none")) = Answer(403, "ERR_SKILL_UNSIGNED", "skill_unsigned")
  /\ SkillAnswer(RegisterSkill("attacker-key-1")) = Answer(403, "ERR_SKILL_BLOCKED", "skill_blocked")
BY DEF SkillAnswer, RegisterSkill, TrustedSigners

-----------------------------------------------------------------------------
(* What the broker holds of the session of a token.                        *)
Kept(h) ==
    [verifies |-> Verifies(h), reason |-> ReasonCode(h), role |-> token[h].role,
     replayed |-> Replayed(h), entry |-> labels[token[h].session], manifests |-> manifests]

LEMMA StandingIs ==
    \A r, h : /\ r.route \in {"invoke", "register"} => Standing(r, h) = Kept(h)
              /\ r.route = "admit" => Standing(r, h) = [refused |-> Refused(h, h, r.attested)]
BY DEF Standing, Kept

LEMMA EnteredIs ==
    ASSUME IInv, NEW h \in Own, NEW role, Entered(h, role)
    PROVE  /\ Verifies(h) /\ token[h] # NoToken
           /\ Held(Kept(h), role)
           /\ Kept(h).replayed <=> ~Unspent(h)
           /\ Kept(h).entry = labels[h]
<1>1. /\ token[h].session = h /\ token[h].role = role /\ clock <= token[h].expiresAt
      /\ h \in active /\ <<"session", h>> \notin revoked
  BY DEF Entered
<1>2. token[h] # NoToken /\ clock \in Int /\ token[h].expiresAt \in Int
  BY <1>1, TokenType DEF IInv, BindingsTypeOK, TokenState
<1>3. ~Expired(h)
  BY <1>1, <1>2 DEF Expired
<1>4. Verifies(h) /\ (Replayed(h) <=> ~Unspent(h))
  BY <1>1, <1>3 DEF Verifies, Replayed, Unspent
<1>5. /\ Kept(h).verifies = Verifies(h) /\ Kept(h).role = role
      /\ Kept(h).replayed = Replayed(h) /\ Kept(h).entry = labels[h]
  BY <1>1 DEF Kept
<1> QED
  BY <1>2, <1>4, <1>5 DEF Held

LEMMA NewlyIs ==
    ASSUME IInv, NEW h \in Own, NEW role, Newly(h, role)
    PROVE  token[h] # NoToken /\ New(Kept(h), role)
<1>1. ~IsTainted(labels[h].label)
  BY DEF Newly, NoEntry, Bottom, IsTainted
<1>2. Held(Kept(h), role) /\ ~Kept(h).replayed /\ Kept(h).entry = labels[h] /\ token[h] # NoToken
  BY EnteredIs DEF Newly
<1> QED
  BY <1>1, <1>2 DEF New

(* The answer of the request underway.                                     *)
Given(r) == Answered(r, Standing(r, By))

LEMMA MatchesIs ==
    ASSUME NEW r, NEW status, NEW code, Wanted = Expect(r, status, code),
           NEW s, NEW c, NEW t, Given(r) = Answer(s, c, t)
    PROVE  /\ Matches(Reply, Wanted) <=> (s = status /\ code \in {c, "any"})
           /\ Reply.event = t
           /\ Wanted.request = r
<1>1. Wanted.request = r /\ Wanted.status = status /\ Wanted.code = code
  BY DEF Expect
<1>2. Reply = Answer(s, c, t)
  BY <1>1 DEF Reply, Given
<1>3. Reply.status = s /\ Reply.code = c /\ Reply.event = t
  BY <1>2 DEF Answer
<1> QED
  BY <1>1, <1>3 DEF Matches

-----------------------------------------------------------------------------
(* The requests of the scenarios, as Table names them.                     *)
LEMMA Admitting ==
  /\ Scenarios[1].id = "01" /\ Scenarios[1].expectedEventType = "invoke"
  /\ Scenarios[1].steps[2] = Expect(Read, 200, "none")
  /\ Scenarios[2].id = "02" /\ Scenarios[2].expectedEventType = "replay_fail"
  /\ Scenarios[2].steps[2] = Expect(Read, 200, "any")
  /\ Scenarios[2].steps[3] = Expect(Read, 403, "ERR_NONCE_REPLAY")
  /\ Scenarios[3].id = "03" /\ Scenarios[3].expectedEventType = "scope_fail"
  /\ Scenarios[3].steps[2] = Expect(Invoke("exec.run", "execute"), 403, "ERR_SCOPE_DENIED")
  /\ Scenarios[4].id = "04" /\ Scenarios[4].expectedEventType = "target_mismatch"
  /\ Scenarios[4].steps[2] = Expect([Read EXCEPT !.bound = FALSE], 403, "ERR_TARGET_MISMATCH")
  /\ Scenarios[5].id = "05" /\ Scenarios[5].expectedEventType = "deny"
  /\ Scenarios[5].steps[2] = Expect(RevokeSession, 200, "any")
  /\ Scenarios[5].steps[3] = Expect(Read, 401, "ERR_SESSION_REVOKED")
  /\ Scenarios[6].id = "06"
  /\ Scenarios[6].steps[2] =
          Expect([Invoke("exec.run", "execute") EXCEPT !.receipt = TRUE], 403, "ERR_OPERATION_BLOCKED")
  /\ Scenarios[7].id = "07" /\ Scenarios[7].expectedEventType = "intent_drift"
  /\ Scenarios[7].steps[2] = Expect(Invoke("tool.invoke", "export"), 403, "ERR_INTENT_DRIFT")
  /\ Scenarios[9].id = "09" /\ Scenarios[9].expectedEventType = "deny"
  /\ Scenarios[9].steps[2] =
          Expect([Read EXCEPT !.manifest = "aa"], 403, "ERR_CONTEXT_MANIFEST_INVALID")
  /\ Scenarios[11].id = "11" /\ Scenarios[11].expectedEventType = "dual_control_requested"
  /\ Scenarios[11].steps[2] =
          Expect(Invoke("admin.control", "escalate"), 202, "ERR_DUAL_CONTROL_REQUIRED")
  /\ Scenarios[17].id = "17" /\ Scenarios[17].expectedEventType = "scope_fail"
  /\ Scenarios[17].steps[2] = Expect(Invoke("admin.control", "escalate"), 403, "ERR_SCOPE_DENIED")
  /\ Scenarios[18].id = "24" /\ Scenarios[18].expectedEventType = "deny"
  /\ Scenarios[18].steps[2] =
          Expect([Read EXCEPT !.manifest = "bb"], 403, "ERR_CONTEXT_MANIFEST_INVALID")
  /\ Scenarios[28].id = "26" /\ Scenarios[28].expectedEventType = "scope_fail"
  /\ Scenarios[28].steps[2] = Expect(Export, 200, "none")
  /\ Scenarios[28].steps[4] = Expect(RegisterContext(Fetched, "cc"), 200, "any")
  /\ Scenarios[28].steps[5] = Expect(Export, 403, "any")
<1>1. /\ Scenarios[1].id = "01" /\ Scenarios[1].expectedEventType = "invoke"
      /\ Scenarios[1].steps[2] = Expect(Read, 200, "none")
  BY Table DEF s01, Scenario
<1>2. /\ Scenarios[2].id = "02" /\ Scenarios[2].expectedEventType = "replay_fail"
      /\ Scenarios[2].steps[2] = Expect(Read, 200, "any")
      /\ Scenarios[2].steps[3] = Expect(Read, 403, "ERR_NONCE_REPLAY")
  BY Table DEF s02, Scenario
<1>3. /\ Scenarios[3].id = "03" /\ Scenarios[3].expectedEventType = "scope_fail"
      /\ Scenarios[3].steps[2] = Expect(Invoke("exec.run", "execute"), 403, "ERR_SCOPE_DENIED")
  BY Table DEF s03, Denied, Scenario
<1>4. /\ Scenarios[4].id = "04" /\ Scenarios[4].expectedEventType = "target_mismatch"
      /\ Scenarios[4].steps[2] = Expect([Read EXCEPT !.bound = FALSE], 403, "ERR_TARGET_MISMATCH")
  BY Table DEF s04, Denied, Scenario
<1>5. /\ Scenarios[5].id = "05" /\ Scenarios[5].expectedEventType = "deny"
      /\ Scenarios[5].steps[2] = Expect(RevokeSession, 200, "any")
      /\ Scenarios[5].steps[3] = Expect(Read, 401, "ERR_SESSION_REVOKED")
  BY Table DEF s05, Scenario
<1>6. /\ Scenarios[6].id = "06"
      /\ Scenarios[6].steps[2] =
              Expect([Invoke("exec.run", "execute") EXCEPT !.receipt = TRUE], 403, "ERR_OPERATION_BLOCKED")
  BY Table DEF s06, Denied, Scenario
<1>7. /\ Scenarios[7].id = "07" /\ Scenarios[7].expectedEventType = "intent_drift"
      /\ Scenarios[7].steps[2] = Expect(Invoke("tool.invoke", "export"), 403, "ERR_INTENT_DRIFT")
  BY Table DEF s07, Denied, Scenario
<1>8. /\ Scenarios[9].id = "09" /\ Scenarios[9].expectedEventType = "deny"
      /\ Scenarios[9].steps[2] =
              Expect([Read EXCEPT !.manifest = "aa"], 403, "ERR_CONTEXT_MANIFEST_INVALID")
  BY Table DEF s09, Denied, Scenario
<1>9. /\ Scenarios[11].id = "11" /\ Scenarios[11].expectedEventType = "dual_control_requested"
      /\ Scenarios[11].steps[2] =
              Expect(Invoke("admin.control", "escalate"), 202, "ERR_DUAL_CONTROL_REQUIRED")
  BY Table DEF s11, Scenario
<1>10. /\ Scenarios[17].id = "17" /\ Scenarios[17].expectedEventType = "scope_fail"
       /\ Scenarios[17].steps[2] =
               Expect(Invoke("admin.control", "escalate"), 403, "ERR_SCOPE_DENIED")
  BY Table DEF s17, Denied, Scenario
<1>11. /\ Scenarios[18].id = "24" /\ Scenarios[18].expectedEventType = "deny"
       /\ Scenarios[18].steps[2] =
               Expect([Read EXCEPT !.manifest = "bb"], 403, "ERR_CONTEXT_MANIFEST_INVALID")
  BY Table DEF s24, Denied, Scenario
<1>12. /\ Scenarios[28].id = "26" /\ Scenarios[28].expectedEventType = "scope_fail"
       /\ Scenarios[28].steps[2] = Expect(Export, 200, "none")
       /\ Scenarios[28].steps[4] = Expect(RegisterContext(Fetched, "cc"), 200, "any")
       /\ Scenarios[28].steps[5] = Expect(Export, 403, "any")
  BY Table DEF s26, Scenario, Export
<1> QED
  BY <1>1, <1>2, <1>3, <1>4, <1>5, <1>6, <1>7, <1>8, <1>9, <1>10, <1>11, <1>12

(* The second request of a scenario that began by an admission, made of a  *)
(* session that did nothing yet, gets its answer but in scenario 06.       *)
SecondAs(i, s) ==
    LET wanted == Scenarios[i].steps[2]
        answer == InvokeAnswer(wanted.request, s)
    IN  /\ wanted.request.route = "invoke" /\ wanted.request.operator = TRUE
        /\ Matches(answer, wanted) <=> i # 6
        /\ i \notin {2, 6, 28} => answer.event = Scenarios[i].expectedEventType

LEMMA SecondAnswers ==
    ASSUME NEW i \in Entering \ {5}, NEW s, New(s, RoleAt[i]), s.manifests \subseteq {"cc", "dd"}
    PROVE  SecondAs(i, s)
<1>1. CASE i \in {1, 2}
  <2>1. PICK code \in {"none", "any"} : Scenarios[i].steps[2] = Expect(Read, 200, code)
    BY <1>1, Admitting
  <2>2. i = 1 => Scenarios[i].expectedEventType = "invoke"
    BY Admitting
  <2>3. InvokeAnswer(Read, s) = Answer(200, "none", "invoke")
    BY <1>1, RolesAt, AdmittedReads
  <2>4. Read.route = "invoke" /\ Read.operator = TRUE
    BY InvokeFields DEF Read
  <2> HIDE DEF Read
  <2> QED
    BY <1>1, <2>1, <2>2, <2>3, <2>4 DEF SecondAs, Matches, Answer, Expect
<1>2. CASE i \in {3, 17}
  <2>1. PICK o, intent :
             /\ <<o, intent>> \in {<<"exec.run", "execute">>, <<"admin.control", "escalate">>}
             /\ Scenarios[i].steps[2] = Expect(Invoke(o, intent), 403, "ERR_SCOPE_DENIED")
    BY <1>2, Admitting
  <2>2. Scenarios[i].expectedEventType = "scope_fail"
    BY <1>2, Admitting
  <2>3. InvokeAnswer(Invoke(o, intent), s) = Answer(403, "ERR_SCOPE_DENIED", "scope_fail")
    BY <1>2, <2>1, RolesAt, ViewerRefused
  <2>4. Invoke(o, intent).route = "invoke" /\ Invoke(o, intent).operator = TRUE
    BY InvokeFields
  <2> DEFINE r == Invoke(o, intent)
  <2> HIDE DEF r
  <2>5. /\ Scenarios[i].steps[2] = Expect(r, 403, "ERR_SCOPE_DENIED")
        /\ InvokeAnswer(r, s) = Answer(403, "ERR_SCOPE_DENIED", "scope_fail")
        /\ r.route = "invoke" /\ r.operator = TRUE
    BY <2>1, <2>3, <2>4 DEF r
  <2> QED
    BY <1>2, <2>2, <2>5 DEF SecondAs, Matches, Answer, Expect
<1>3. CASE i = 4
  <2> DEFINE r == [Read EXCEPT !.bound = FALSE]
  <2>1. /\ Scenarios[i].steps[2] = Expect(r, 403, "ERR_TARGET_MISMATCH")
        /\ Scenarios[i].expectedEventType = "target_mismatch"
    BY <1>3, Admitting
  <2>2. InvokeAnswer(r, s) = Answer(403, "ERR_TARGET_MISMATCH", "target_mismatch")
    BY <1>3, RolesAt, RefusedEarly
  <2>3. r.route = "invoke" /\ r.operator = TRUE
    BY DEF Read, Invoke
  <2> HIDE DEF r
  <2> QED
    BY <1>3, <2>1, <2>2, <2>3 DEF SecondAs, Matches, Answer, Expect
<1>4. CASE i = 7
  <2> DEFINE r == Invoke("tool.invoke", "export")
  <2>1. /\ Scenarios[i].steps[2] = Expect(r, 403, "ERR_INTENT_DRIFT")
        /\ Scenarios[i].expectedEventType = "intent_drift"
    BY <1>4, Admitting
  <2>2. InvokeAnswer(r, s) = Answer(403, "ERR_INTENT_DRIFT", "intent_drift")
    BY <1>4, RolesAt, RefusedEarly
  <2>3. r.route = "invoke" /\ r.operator = TRUE
    BY InvokeFields
  <2> HIDE DEF r
  <2> QED
    BY <1>4, <2>1, <2>2, <2>3 DEF SecondAs, Matches, Answer, Expect
<1>5. CASE i \in {9, 18}
  <2>1. PICK m \in {"aa", "bb"} : Scenarios[i].steps[2] =
                 Expect([Read EXCEPT !.manifest = m], 403, "ERR_CONTEXT_MANIFEST_INVALID")
    BY <1>5, Admitting
  <2> DEFINE r == [Read EXCEPT !.manifest = m]
  <2>2. Scenarios[i].steps[2] = Expect(r, 403, "ERR_CONTEXT_MANIFEST_INVALID")
    BY <2>1
  <2>3. Scenarios[i].expectedEventType = "deny"
    BY <1>5, Admitting
  <2>4. InvokeAnswer(r, s) = Answer(403, "ERR_CONTEXT_MANIFEST_INVALID", "deny")
    BY <1>5, RolesAt, RefusedEarly
  <2>5. r.route = "invoke" /\ r.operator = TRUE
    BY DEF Read, Invoke
  <2> HIDE DEF r
  <2> QED
    BY <1>5, <2>2, <2>3, <2>4, <2>5 DEF SecondAs, Matches, Answer, Expect
<1>6. CASE i = 11
  <2> DEFINE r == Invoke("admin.control", "escalate")
  <2>1. /\ Scenarios[i].steps[2] = Expect(r, 202, "ERR_DUAL_CONTROL_REQUIRED")
        /\ Scenarios[i].expectedEventType = "dual_control_requested"
    BY <1>6, Admitting
  <2>2. InvokeAnswer(r, s) = Answer(202, "ERR_DUAL_CONTROL_REQUIRED", "dual_control_requested")
    BY <1>6, RolesAt, AdminAnswered
  <2>3. r.route = "invoke" /\ r.operator = TRUE
    BY InvokeFields
  <2> HIDE DEF r
  <2> QED
    BY <1>6, <2>1, <2>2, <2>3 DEF SecondAs, Matches, Answer, Expect
<1>7. CASE i = 6
  <2> DEFINE r == [Invoke("exec.run", "execute") EXCEPT !.receipt = TRUE]
  <2>1. Scenarios[i].steps[2] = Expect(r, 403, "ERR_OPERATION_BLOCKED")
    BY <1>7, Admitting
  <2>2. InvokeAnswer(r, s) = Answer(200, "none", "invoke")
    BY <1>7, RolesAt, AdminAnswered
  <2>3. r.route = "invoke" /\ r.operator = TRUE
    BY DEF Invoke
  <2> HIDE DEF r
  <2> QED
    BY <1>7, <2>1, <2>2, <2>3 DEF SecondAs, Matches, Answer, Expect
<1>8. CASE i = 28
  <2>1. Scenarios[i].steps[2] = Expect(Export, 200, "none")
    BY <1>8, Admitting
  <2>2. InvokeAnswer(Export, s) = Answer(200, "none", "invoke")
    BY <1>8, RolesAt, ExportAnswered DEF New
  <2>3. Export.route = "invoke" /\ Export.operator = TRUE
    BY InvokeFields DEF Export
  <2> HIDE DEF Export
  <2> QED
    BY <1>8, <2>1, <2>2, <2>3 DEF SecondAs, Matches, Answer, Expect
<1> QED
  BY <1>1, <1>2, <1>3, <1>4, <1>5, <1>6, <1>7, <1>8 DEF Entering

LEMMA Single ==
  /\ Scenarios[8].id = "08" /\ Scenarios[8].expectedEventType = "mcp_tainted"
  /\ Scenarios[8].steps[1] =
          Expect(Ingest("slack-connector", {"system-prompt-override"}), 403, "ERR_MCP_RESPONSE_TAINTED")
  /\ Scenarios[16].id = "16" /\ Scenarios[16].expectedEventType = "mcp_tainted"
  /\ Scenarios[16].steps[1] =
          Expect(Ingest("telegram-bot", {"role-injection", "tool-hijack"}), 403, "ERR_MCP_RESPONSE_TAINTED")
  /\ Scenarios[19].id = "25" /\ Scenarios[19].expectedEventType = "mcp_tainted"
  /\ Scenarios[19].steps[1] =
          Expect(Ingest("slack-connector", {"role-injection"}), 403, "ERR_MCP_RESPONSE_TAINTED")
  /\ Scenarios[23].id = "21" /\ Scenarios[23].expectedEventType = "skill_unsigned"
  /\ Scenarios[23].steps[1] = Expect(RegisterSkill("none"), 403, "ERR_SKILL_UNSIGNED")
  /\ Scenarios[24].id = "21b" /\ Scenarios[24].expectedEventType = "skill_blocked"
  /\ Scenarios[24].steps[1] = Expect(RegisterSkill("attacker-key-1"), 403, "ERR_SKILL_BLOCKED")
  /\ Scenarios[25].id = "22"
  /\ Scenarios[25].steps[1] =
          Expect([Admit("admin") EXCEPT !.attested = FALSE, !.operator = FALSE], 401, "ERR_ATTESTATION_FAILED")
  /\ Scenarios[26].id = "23"
  /\ Scenarios[26].steps[1] = Expect(Ingest("email-ingest", {}), 403, "ERR_MCP_RESPONSE_TAINTED")
  /\ Scenarios[27].id = "23b" /\ Scenarios[27].expectedEventType = "mcp_block"
  /\ Scenarios[27].steps[1] = Expect(Ingest("attacker-mcp", {}), 403, "ERR_MCP_SERVER_BLOCKED")
<1>1. /\ Scenarios[8].id = "08" /\ Scenarios[8].expectedEventType = "mcp_tainted"
      /\ Scenarios[8].steps[1] =
              Expect(Ingest("slack-connector", {"system-prompt-override"}), 403, "ERR_MCP_RESPONSE_TAINTED")
  BY Table DEF s08, Tainted, Scenario
<1>2. /\ Scenarios[16].id = "16" /\ Scenarios[16].expectedEventType = "mcp_tainted"
      /\ Scenarios[16].steps[1] =
              Expect(Ingest("telegram-bot", {"role-injection", "tool-hijack"}), 403, "ERR_MCP_RESPONSE_TAINTED")
  BY Table DEF s16, Tainted, Scenario
<1>3. /\ Scenarios[19].id = "25" /\ Scenarios[19].expectedEventType = "mcp_tainted"
      /\ Scenarios[19].steps[1] =
              Expect(Ingest("slack-connector", {"role-injection"}), 403, "ERR_MCP_RESPONSE_TAINTED")
  BY Table DEF s25, Tainted, Scenario
<1>4. /\ Scenarios[23].id = "21" /\ Scenarios[23].expectedEventType = "skill_unsigned"
      /\ Scenarios[23].steps[1] = Expect(RegisterSkill("none"), 403, "ERR_SKILL_UNSIGNED")
  BY Table DEF s21, Scenario
<1>5. /\ Scenarios[24].id = "21b" /\ Scenarios[24].expectedEventType = "skill_blocked"
      /\ Scenarios[24].steps[1] = Expect(RegisterSkill("attacker-key-1"), 403, "ERR_SKILL_BLOCKED")
  BY Table DEF s21b, Scenario
<1>6. /\ Scenarios[25].id = "22"
      /\ Scenarios[25].steps[1] =
              Expect([Admit("admin") EXCEPT !.attested = FALSE, !.operator = FALSE], 401, "ERR_ATTESTATION_FAILED")
  BY Table DEF s22, Scenario
<1>7. /\ Scenarios[26].id = "23"
      /\ Scenarios[26].steps[1] =
              Expect(Ingest("email-ingest", {}), 403, "ERR_MCP_RESPONSE_TAINTED")
  BY Table DEF s23, Tainted, Scenario
<1>8. /\ Scenarios[27].id = "23b" /\ Scenarios[27].expectedEventType = "mcp_block"
      /\ Scenarios[27].steps[1] = Expect(Ingest("attacker-mcp", {}), 403, "ERR_MCP_SERVER_BLOCKED")
  BY Table DEF s23b, Scenario
<1> QED
  BY <1>1, <1>2, <1>3, <1>4, <1>5, <1>6, <1>7, <1>8

-----------------------------------------------------------------------------
(* The requests of the simulator keep the invariant and are steps of the   *)
(* bindings.                                                               *)
LEMMA TokensApart ==
    ASSUME SimInv, NEW h \in Own, \A g \in Own : g # h => Untouched(g), OwnToken(h)',
           \A o \in Others : token'[o] = token[o]
    PROVE  (\A g \in Own : OwnToken(g)') /\ (\A o \in Others : OtherToken(o)')
<1>1. ASSUME NEW g \in Own, g # h
      PROVE  OwnToken(g)'
  BY <1>1, OwnHandles DEF Untouched, OwnToken
<1>2. \A o \in Others : OtherToken(o)'
  BY DEF SimInv, Apart, OtherToken
<1> QED
  BY <1>1, <1>2

LEMMA EnterStep ==
    ASSUME IInv, SimInv, Request, NEW role \in RoleNames, Wanted = Enter(role),
           Place(at, step) \in Own, ~Concludes,
           NEW i, NEW n, NEW h, i = at, n = step + 1, h = Place(at, step),
           Newly(h, role)' => Reached(i, n, h)'
    PROVE  [BindingsNext]_bindingVars /\ SimInv'
<1>1. /\ Wanted.request = Admit(role) /\ Wanted.request.route = "admit"
      /\ Wanted = Expect(Admit(role), 200, "none")
  BY DEF Enter, Expect, Admit
<1>2. By = h /\ h \in Own
  BY <1>1 DEF By
<1>3. h \in Nat /\ at \in Nat /\ step \in Nat
  BY <1>2, OwnPlaces, Places
<1>4. Fresh(h)
  BY <1>2, <1>3 DEF SimInv, Apart
<1>5. Handled(Admit(role), h)
  BY <1>1, <1>2, RequestIs
<1>6. /\ Newly(h, role)' /\ OwnToken(h)'
      /\ UNCHANGED <<labels, manifests>>
      /\ \A g \in Handles : g # h => Untouched(g)
      /\ \E u \in Subjects, d \in Devices, o \in SUBSET Scope : Attest(h, u, d, role, o, TRUE)
  BY <1>2, <1>4, <1>5, EnterChanges
<1>7. [BindingsNext]_bindingVars
  BY <1>2, <1>6, OwnHandles DEF BindingsNext
<1>8. \A g \in Own : g # h => Untouched(g)
  BY <1>6, OwnHandles
<1>9. \A o \in Others : token'[o] = token[o]
  BY <1>2, <1>6, OthersHandles DEF Untouched
<1>10. (\A g \in Own : OwnToken(g)') /\ (\A o \in Others : OtherToken(o)')
  BY <1>2, <1>6, <1>8, <1>9, TokensApart
<1>11. Given(Admit(role)) = Answer(200, "none", "admit")
  <2> DEFINE r == Admit(role)
  <2>1. r.route = "admit" /\ r.attested = TRUE
    BY DEF Admit
  <2> HIDE DEF r
  <2>2. ~Refused(h, h, r.attested)
    BY <1>4, <2>1 DEF Refused, Fresh, Kinds
  <2>3. ~Standing(r, By).refused
    BY <1>2, <2>1, <2>2, StandingIs
  <2> QED
    BY <2>3, AdmitAnswered DEF Given, r
<1>12. Matches(Reply, Wanted)
  BY <1>1, <1>11, MatchesIs
<1>13. LabelTypes'
  BY <1>6 DEF SimInv, SimTypes, LabelTypes
<1>14. \A g \in Own : g > Place(at, step) => Untouched(g)
  BY <1>3, <1>8
<1>15. h <= Place(at, step)
  BY <1>3
<1>16. SimInv'
  BY <1>2, <1>6, <1>10, <1>12, <1>13, <1>14, <1>15, RequestKeeps
<1> QED
  BY <1>7, <1>16

LEMMA InvokeReply ==
    ASSUME NEW r, Wanted.request = r, r.route = "invoke", r.operator = TRUE
    PROVE  Given(r) = InvokeAnswer(r, Kept(admitted))
<1>1. By = admitted
  BY DEF By
<1>2. Standing(r, By) = Kept(admitted)
  BY <1>1, StandingIs
<1> QED
  BY <1>2 DEF Given, Answered, Unguarded

LEMMA InvokeStep ==
    ASSUME IInv, SimInv, Request, step > 0, token[admitted] # NoToken,
           Wanted.request.route = "invoke", Wanted.request.operator = TRUE,
           NEW i, NEW n, NEW h, i = at, n = step + 1, h = admitted,
           ~Matches(Reply, Wanted) => Scenarios[at].id \in Off,
           Matches(Reply, Wanted) /\ Concludes =>
               Scenarios[at].id \notin Off /\ Reply.event = Scenarios[at].expectedEventType,
           Matches(Reply, Wanted) /\ ~Concludes => Reached(i, n, h)'
    PROVE  [BindingsNext]_bindingVars /\ SimInv'
<1>1. By = h /\ h \in Own
  BY Places DEF By
<1>2. Handled(Wanted.request, h)
  BY <1>1, RequestIs
<1>3. /\ UNCHANGED <<labels, manifests, token>>
      /\ \A g \in Handles : g # h => Untouched(g)
      /\ ConsumeNonce(h, "n") \/ UNCHANGED bindingVars
  BY <1>1, <1>2, InvokeChanges
<1>4. [BindingsNext]_bindingVars
  BY <1>1, <1>3, OthersHandles DEF BindingsNext
<1>5. \A g \in Own : g # h => Untouched(g)
  BY <1>3, OwnHandles
<1>6. OwnToken(h)'
  BY <1>1, <1>3, OwnHandles DEF OwnToken
<1>7. (\A g \in Own : OwnToken(g)') /\ (\A o \in Others : OtherToken(o)')
  BY <1>1, <1>3, <1>5, <1>6, TokensApart
<1>8. LabelTypes'
  BY <1>3 DEF SimInv, SimTypes, LabelTypes
<1>9. h < Place(at, step) /\ h \in Nat /\ Place(at, step) \in Nat
  BY <1>1, Places, OwnPlaces DEF Place
<1>10. (\A g \in Own : g > Place(at, step) => Untouched(g)) /\ h <= Place(at, step)
  BY <1>5, <1>9
<1>11. SimInv'
  BY <1>1, <1>7, <1>8, <1>10, RequestKeeps
<1> QED
  BY <1>4, <1>11

LEMMA NothingStep ==
    ASSUME SimInv, Request, Concludes, By \in Own,
           Wanted.request.operator # TRUE \/ Wanted.request.route \in {"mcp", "skill"},
           ~Matches(Reply, Wanted) => Scenarios[at].id \in Off,
           Matches(Reply, Wanted) =>
               Scenarios[at].id \notin Off /\ Reply.event = Scenarios[at].expectedEventType
    PROVE  UNCHANGED bindingVars /\ SimInv'
<1>1. UNCHANGED bindingVars /\ UNCHANGED <<labels, manifests>> /\ \A g : Untouched(g)
  BY RequestIs, NothingChanges
<1>2. LabelTypes'
  BY <1>1 DEF SimInv, SimTypes, LabelTypes
<1>3. (\A g \in Own : OwnToken(g)') /\ (\A o \in Others : OtherToken(o)')
  BY <1>1 DEF bindingVars, SimInv, Apart, OwnToken, OtherToken
<1>4. SimInv'
  BY <1>1, <1>2, <1>3, RequestKeeps
<1> QED
  BY <1>1, <1>4

LEMMA SingleStep ==
    ASSUME SimInv, Request, at \in {8, 16, 19, 23, 24, 25, 26, 27}
    PROVE  UNCHANGED bindingVars /\ SimInv'
<1>1. step = 0 /\ Concludes
  <2>1. Steps = 1
    BY Lengths DEF Steps
  <2> QED
    BY <2>1, Places DEF Concludes
<1>2. Wanted = Scenarios[at].steps[1] /\ admitted \in Own
  BY <1>1, Places DEF Wanted
<1>3. ASSUME NEW server, NEW matches, NEW code, NEW s, NEW c, NEW t,
             Wanted = Expect(Ingest(server, matches), 403, code),
             McpAnswer(Ingest(server, matches)) = Answer(s, c, t),
             \/ s # 403 /\ Scenarios[at].id \in Off
             \/ s = 403 /\ code = c /\ Scenarios[at].id \notin Off /\ t = Scenarios[at].expectedEventType
      PROVE  UNCHANGED bindingVars /\ SimInv'
  <2> DEFINE r == Ingest(server, matches)
  <2>1. r.route = "mcp" /\ r.operator = TRUE /\ Wanted.request = r
    BY <1>3 DEF Ingest, Expect
  <2>2. McpAnswer(r) = Answer(s, c, t) /\ Wanted = Expect(r, 403, code)
    BY <1>3
  <2> HIDE DEF r
  <2>3. By \in Own
    BY <1>2, <2>1 DEF By
  <2>4. Given(r) = Answer(s, c, t)
    BY <2>1, <2>2 DEF Given, Answered, Unguarded
  <2>5. Wanted.request.operator # TRUE \/ Wanted.request.route \in {"mcp", "skill"}
    BY <2>1
  <2>6. (Matches(Reply, Wanted) <=> (s = 403 /\ code \in {c, "any"})) /\ Reply.event = t
    BY <2>2, <2>4, MatchesIs
  <2> QED
    BY <1>1, <1>3, <2>3, <2>5, <2>6, NothingStep
<1>4. ASSUME NEW signer, NEW code, NEW t,
             Wanted = Expect(RegisterSkill(signer), 403, code),
             SkillAnswer(RegisterSkill(signer)) = Answer(403, code, t),
             Scenarios[at].id \notin Off, t = Scenarios[at].expectedEventType
      PROVE  UNCHANGED bindingVars /\ SimInv'
  <2> DEFINE r == RegisterSkill(signer)
  <2>1. r.route = "skill" /\ r.operator = TRUE /\ Wanted.request = r
    BY <1>4 DEF RegisterSkill, Expect
  <2>2. SkillAnswer(r) = Answer(403, code, t) /\ Wanted = Expect(r, 403, code)
    BY <1>4
  <2> HIDE DEF r
  <2>3. By \in Own
    BY <1>2, <2>1 DEF By
  <2>4. Given(r) = Answer(403, code, t)
    BY <2>1, <2>2 DEF Given, Answered, Unguarded
  <2>5. Wanted.request.operator # TRUE \/ Wanted.request.route \in {"mcp", "skill"}
    BY <2>1
  <2>6. Matches(Reply, Wanted) /\ Reply.event = t
    BY <2>2, <2>4, MatchesIs
  <2> QED
    BY <1>1, <1>4, <2>3, <2>5, <2>6, NothingStep
<1>5. CASE at = 25
  <2> DEFINE r == [Admit("admin") EXCEPT !.attested = FALSE, !.operator = FALSE]
  <2>1. Wanted = Expect(r, 401, "ERR_ATTESTATION_FAILED") /\ Scenarios[at].id = "22"
    BY <1>2, <1>5, Single
  <2>2. r.route = "admit" /\ r.operator = FALSE
    BY DEF Admit
  <2> HIDE DEF r
  <2>3. By = Place(25, 0)
    BY <1>1, <1>5, <2>1, <2>2 DEF By, Expect
  <2>4. By \in Own
    BY <2>3, OwnPlaces
  <2>5. Given(r) = Answer(401, "none", "none")
    BY <2>2 DEF Given, Answered
  <2> QED
    <3>1. ~Matches(Reply, Wanted) /\ Wanted.request = r
      BY <2>1, <2>5, MatchesIs
    <3>2. Wanted.request.operator # TRUE /\ Scenarios[at].id \in Off
      BY <2>1, <2>2, <3>1 DEF Off
    <3> QED
      BY <1>1, <2>4, <3>1, <3>2, NothingStep
<1>6. CASE at \in {23, 24}
  <2>1. CASE at = 23
    <3>1. /\ Wanted = Expect(RegisterSkill("none"), 403, "ERR_SKILL_UNSIGNED")
          /\ Scenarios[at].id \notin Off /\ Scenarios[at].expectedEventType = "skill_unsigned"
      BY <1>2, <2>1, Single DEF Off
    <3> QED
      BY <1>4, <3>1, SkillAnswered
  <2>2. CASE at = 24
    <3>1. /\ Wanted = Expect(RegisterSkill("attacker-key-1"), 403, "ERR_SKILL_BLOCKED")
          /\ Scenarios[at].id \notin Off /\ Scenarios[at].expectedEventType = "skill_blocked"
      BY <1>2, <2>2, Single DEF Off
    <3> QED
      BY <1>4, <3>1, SkillAnswered
  <2> QED
    BY <1>6, <2>1, <2>2
<1>7. CASE at \in {8, 16, 19}
  <2>1. PICK server, matches :
             /\ server \in {"slack-connector", "telegram-bot"} /\ matches # {}
             /\ Wanted = Expect(Ingest(server, matches), 403, "ERR_MCP_RESPONSE_TAINTED")
    BY <1>2, <1>7, Single
  <2>2. Scenarios[at].id \notin Off /\ Scenarios[at].expectedEventType = "mcp_tainted"
    BY <1>7, Single DEF Off
  <2>3. McpAnswer(Ingest(server, matches)) = Answer(403, "ERR_MCP_RESPONSE_TAINTED", "mcp_tainted")
    BY <2>1, McpAnswered DEF TrustLevel
  <2> QED
    BY <1>3, <2>1, <2>2, <2>3
<1>8. CASE at = 26
  <2>1. /\ Wanted = Expect(Ingest("email-ingest", {}), 403, "ERR_MCP_RESPONSE_TAINTED")
        /\ Scenarios[at].id \in Off
    BY <1>2, <1>8, Single DEF Off
  <2>2. McpAnswer(Ingest("email-ingest", {})) = Answer(200, "none", "none")
    BY McpAnswered DEF TrustLevel
  <2> QED
    BY <1>3, <2>1, <2>2
<1>9. CASE at = 27
  <2>1. /\ Wanted = Expect(Ingest("attacker-mcp", {}), 403, "ERR_MCP_SERVER_BLOCKED")
        /\ Scenarios[at].id \notin Off /\ Scenarios[at].expectedEventType = "mcp_block"
    BY <1>2, <1>9, Single DEF Off
  <2>2. McpAnswer(Ingest("attacker-mcp", {})) = Answer(403, "ERR_MCP_SERVER_BLOCKED", "mcp_block")
    BY McpAnswered
  <2> QED
    BY <1>3, <2>1, <2>2
<1> QED
  BY <1>5, <1>6, <1>7, <1>8, <1>9

(* The admission a scenario begins with.                                   *)
LEMMA FirstStep ==
    ASSUME IInv, SimInv, Request, at \in Entering, step = 0
    PROVE  [BindingsNext]_bindingVars /\ SimInv'
<1>1. RoleAt[at] \in RoleNames
  <2>1. RoleAt[at] \in {"viewer", "operator", "admin", "egress_agent"}
    BY RolesAt DEF Entering
  <2> QED
    BY <2>1, SimAssumption
<1>2. Wanted = Enter(RoleAt[at])
  BY Entrances DEF Wanted
<1>3. Place(at, step) \in Own
  BY OwnPlaces
<1>4. ~Concludes
  <2>1. Steps \in {2, 3, 5}
    BY Lengths DEF Entering, Steps
  <2> QED
    BY <2>1 DEF Concludes
<1>5. PICK i, role, h : i = at /\ role = RoleAt[at] /\ h = Place(at, step)
  OBVIOUS
<1>6. Newly(h, role)' => Reached(i, 1, h)'
  BY <1>5 DEF Reached
<1> QED
  BY <1>1, <1>2, <1>3, <1>4, <1>5, <1>6, EnterStep

(* The request that follows it, where that is the last.                    *)
LEMMA SecondStep ==
    ASSUME IInv, SimInv, Request, at \in Entering \ {2, 5, 28}, step > 0
    PROVE  [BindingsNext]_bindingVars /\ SimInv'
<1>1. Steps = 2
  BY Lengths DEF Steps
<1>2. step = 1 /\ Concludes /\ admitted \in Own /\ Reached(at, 1, admitted)
  BY <1>1, Places DEF Concludes
<1>3. /\ New(Kept(admitted), RoleAt[at]) /\ token[admitted] # NoToken
      /\ Kept(admitted).manifests \subseteq {"cc", "dd"}
  <2>1. Newly(admitted, RoleAt[at])
    BY <1>2 DEF Reached
  <2>2. New(Kept(admitted), RoleAt[at]) /\ token[admitted] # NoToken
    BY <1>2, <2>1, NewlyIs
  <2>3. Kept(admitted).manifests \subseteq {"cc", "dd"}
    BY DEF Kept, SimInv, SimTypes, LabelTypes
  <2> QED
    BY <2>2, <2>3
<1>4. Wanted = Scenarios[at].steps[2]
  BY <1>2 DEF Wanted
<1>5. ASSUME Wanted.request.route = "invoke", Wanted.request.operator = TRUE,
             ~Matches(Reply, Wanted) => Scenarios[at].id \in Off,
             Matches(Reply, Wanted) =>
                 Scenarios[at].id \notin Off /\ Reply.event = Scenarios[at].expectedEventType
      PROVE  [BindingsNext]_bindingVars /\ SimInv'
  BY <1>2, <1>3, <1>5, InvokeStep
<1>6. SecondAs(at, Kept(admitted))
  BY <1>3, SecondAnswers
<1>7. /\ Wanted.request.route = "invoke" /\ Wanted.request.operator = TRUE
      /\ Matches(InvokeAnswer(Wanted.request, Kept(admitted)), Wanted) <=> at # 6
      /\ at # 6 => InvokeAnswer(Wanted.request, Kept(admitted)).event = Scenarios[at].expectedEventType
  BY <1>4, <1>6 DEF SecondAs
<1>8. Reply = InvokeAnswer(Wanted.request, Kept(admitted))
  BY <1>7, InvokeReply DEF Reply, Given
<1>9. Scenarios[at].id \in Off <=> at = 6
  BY Admitting DEF Off, Entering
<1> QED
  BY <1>5, <1>7, <1>8, <1>9

LEMMA ReadReply ==
    ASSUME Wanted.request = Read
    PROVE  Given(Read) = InvokeAnswer(Read, Kept(admitted))
<1>1. PICK r : r = Read
  OBVIOUS
<1>2. Wanted.request = r /\ r.route = "invoke" /\ r.operator = TRUE
  BY <1>1, InvokeFields DEF Read
<1>3. Given(r) = InvokeAnswer(r, Kept(admitted))
  BY <1>2, InvokeReply
<1> QED
  BY <1>1, <1>3

LEMMA RevokeReply == Given(RevokeSession) = Answer(200, "none", "revoke")
BY DEF Given, Answered, Unguarded, RevokeSession

(* Scenario 02: the nonce of its first read is the second's.               *)
LEMMA ReplayStep ==
    ASSUME IInv, SimInv, Request, at = 2, step > 0
    PROVE  [BindingsNext]_bindingVars /\ SimInv'
<1>1. Steps = 3
  BY Lengths DEF Steps
<1>2. step \in {1, 2} /\ admitted \in Own /\ Reached(at, step, admitted)
  BY <1>1, Places
<1>3. Read.route = "invoke" /\ Read.operator = TRUE
  BY InvokeFields DEF Read
<1>4. CASE step = 1
  <2>1. Wanted = Expect(Read, 200, "any") /\ Wanted.request = Read
    BY <1>4, Admitting DEF Wanted, Expect
  <2>2. Newly(admitted, "operator")
    BY <1>2, <1>4, RolesAt DEF Reached
  <2>3. Entered(admitted, "operator") /\ Verifies(admitted) /\ token[admitted] # NoToken
    BY <1>2, <2>2, EnteredIs DEF Newly
  <2>4. Given(Read) = Answer(200, "none", "invoke")
    <3>1. New(Kept(admitted), "operator")
      BY <1>2, <2>2, NewlyIs
    <3>2. InvokeAnswer(Read, Kept(admitted)) = Answer(200, "none", "invoke")
      BY <3>1, AdmittedReads
    <3> QED
      BY <2>1, <3>2, ReadReply
  <2>5. Matches(Reply, Wanted) /\ ~Concludes
    BY <1>1, <1>4, <2>1, <2>4, MatchesIs DEF Concludes
  <2>6. PICK i, n, h : i = at /\ n = step + 1 /\ h = admitted
    OBVIOUS
  <2>7. Handled(Read, h)
    <3>1. By = h
      BY <1>3, <2>1, <2>6 DEF By
    <3> QED
      BY <2>1, <3>1, RequestIs
  <2>8. UNCHANGED <<token, active, revoked, clock>> /\ seen' = seen \cup {<<h, "n">>}
    BY <1>2, <1>3, <2>3, <2>6, <2>7, InvokeChanges
  <2>9. Reached(i, n, h)'
    <3>1. Entered(h, "operator")' /\ ~Unspent(h)'
      BY <2>3, <2>6, <2>8 DEF Entered, Unspent
    <3>2. i = 2 /\ n = 2
      BY <1>4, <2>6
    <3> QED
      BY <3>1, <3>2 DEF Reached
  <2>10. step > 0 /\ Wanted.request.route = "invoke" /\ Wanted.request.operator = TRUE
    BY <1>3, <1>4, <2>1
  <2> QED
    BY <2>3, <2>5, <2>6, <2>9, <2>10, InvokeStep
<1>5. CASE step = 2
  <2>1. /\ Wanted = Expect(Read, 403, "ERR_NONCE_REPLAY") /\ Wanted.request = Read
        /\ Scenarios[at].id \notin Off /\ Scenarios[at].expectedEventType = "replay_fail"
    BY <1>5, Admitting DEF Wanted, Expect, Off
  <2>2. Entered(admitted, "operator") /\ ~Unspent(admitted)
    BY <1>2, <1>5 DEF Reached
  <2>3. token[admitted] # NoToken
    BY <1>2, <2>2, EnteredIs
  <2>4. Given(Read) = Answer(403, "ERR_NONCE_REPLAY", "replay_fail")
    <3>1. Kept(admitted).verifies /\ Kept(admitted).replayed
      BY <1>2, <2>2, EnteredIs DEF Held
    <3>2. InvokeAnswer(Read, Kept(admitted)) = Answer(403, "ERR_NONCE_REPLAY", "replay_fail")
      BY <3>1, ReplayRefused
    <3> QED
      BY <2>1, <3>2, ReadReply
  <2>5. Matches(Reply, Wanted) /\ Concludes /\ Reply.event = "replay_fail"
    BY <1>1, <1>5, <2>1, <2>4, MatchesIs DEF Concludes
  <2>6. PICK i, n, h : i = at /\ n = step + 1 /\ h = admitted
    OBVIOUS
  <2>7. /\ step > 0 /\ Wanted.request.route = "invoke" /\ Wanted.request.operator = TRUE
        /\ Scenarios[at].id \notin Off /\ Reply.event = Scenarios[at].expectedEventType
    BY <1>3, <1>5, <2>1, <2>5
  <2> QED
    BY <2>3, <2>5, <2>6, <2>7, InvokeStep
<1> QED
  BY <1>2, <1>4, <1>5

(* Scenario 05: the session is revoked before it reads.                    *)
LEMMA RevokedStep ==
    ASSUME IInv, SimInv, Request, at = 5, step > 0
    PROVE  [BindingsNext]_bindingVars /\ SimInv'
<1>1. Steps = 3
  BY Lengths DEF Steps
<1>2. /\ step \in {1, 2} /\ admitted \in Own /\ Reached(at, step, admitted)
      /\ admitted < Place(at, step)
  BY <1>1, Places
<1>3. CASE step = 1
  <2>1. Wanted = Expect(RevokeSession, 200, "any") /\ Wanted.request = RevokeSession
    BY <1>3, Admitting DEF Wanted, Expect
  <2>2. RevokeSession.route = "revoke" /\ RevokeSession.operator = TRUE
    BY DEF RevokeSession
  <2>3. Newly(admitted, "operator")
    BY <1>2, <1>3, RolesAt DEF Reached
  <2>4. token[admitted] # NoToken
    BY <1>2, <2>3, NewlyIs
  <2>5. PICK i, n, h : i = at /\ n = step + 1 /\ h = admitted
    OBVIOUS
  <2>6. By = h /\ h \in Own
    BY <1>2, <2>1, <2>2, <2>5 DEF By
  <2>7. Given(RevokeSession) = Answer(200, "none", "revoke")
    BY RevokeReply
  <2>8. Matches(Reply, Wanted) /\ ~Concludes
    BY <1>1, <1>3, <2>1, <2>7, MatchesIs DEF Concludes
  <2>9. /\ UNCHANGED <<labels, manifests, token, clock>> /\ h \notin active'
        /\ (\A g \in Own : g # h => Untouched(g)) /\ RevokeSessionOf(h)
    <3>1. Handled(RevokeSession, h)
      BY <2>1, <2>6, RequestIs
    <3> QED
      BY <2>4, <2>5, <2>6, <3>1, RevokeChanges
  <2>10. [BindingsNext]_bindingVars
    BY <2>6, <2>9, OwnHandles DEF BindingsNext
  <2>11. Reached(i, n, h)'
    <3>1. i = 5 /\ n = 2 /\ token'[h] # NoToken /\ h \notin active'
      BY <1>3, <2>4, <2>5, <2>9
    <3> QED
      BY <3>1 DEF Reached
  <2>12. OwnToken(h)'
    BY <2>6, <2>9, OwnHandles DEF OwnToken
  <2>13. (\A g \in Own : OwnToken(g)') /\ (\A o \in Others : OtherToken(o)')
    BY <2>6, <2>9, <2>12, TokensApart
  <2>14. LabelTypes'
    BY <2>9 DEF SimInv, SimTypes, LabelTypes
  <2>15. h < Place(at, step) /\ h \in Nat /\ Place(at, step) \in Nat
    BY <1>2, <1>3, <2>5, <2>6, OwnPlaces DEF Place
  <2>16. (\A g \in Own : g > Place(at, step) => Untouched(g)) /\ By <= Place(at, step)
    BY <2>6, <2>9, <2>15
  <2>17. SimInv'
    BY <2>5, <2>6, <2>8, <2>11, <2>13, <2>14, <2>16, RequestKeeps
  <2> QED
    BY <2>10, <2>17
<1>4. CASE step = 2
  <2>1. /\ Wanted = Expect(Read, 401, "ERR_SESSION_REVOKED") /\ Wanted.request = Read
        /\ Scenarios[at].id \notin Off /\ Scenarios[at].expectedEventType = "deny"
    BY <1>4, Admitting DEF Wanted, Expect, Off
  <2>2. token[admitted] # NoToken /\ admitted \notin active
    BY <1>2, <1>4 DEF Reached
  <2>3. Read.route = "invoke" /\ Read.operator = TRUE
    BY InvokeFields DEF Read
  <2>4. Given(Read) = Answer(401, "ERR_SESSION_REVOKED", "deny")
    <3>1. ~Kept(admitted).verifies /\ Kept(admitted).reason = "ERR_SESSION_REVOKED"
      BY <2>2 DEF Kept, Verifies, ReasonCode
    <3>2. InvokeAnswer(Read, Kept(admitted)) = Answer(401, "ERR_SESSION_REVOKED", "deny")
      BY <3>1, RevokedRefused
    <3> QED
      BY <2>1, <3>2, ReadReply
  <2>5. Matches(Reply, Wanted) /\ Concludes /\ Reply.event = "deny"
    BY <1>1, <1>4, <2>1, <2>4, MatchesIs DEF Concludes
  <2>6. PICK i, n, h : i = at /\ n = step + 1 /\ h = admitted
    OBVIOUS
  <2>7. /\ step > 0 /\ Wanted.request.route = "invoke" /\ Wanted.request.operator = TRUE
        /\ Scenarios[at].id \notin Off /\ Reply.event = Scenarios[at].expectedEventType
    BY <1>4, <2>1, <2>3, <2>5
  <2> QED
    BY <2>2, <2>5, <2>6, <2>7, InvokeStep
<1> QED
  BY <1>2, <1>3, <1>4

LEMMA ExportReply ==
    ASSUME Wanted.request = Export
    PROVE  Given(Export) = InvokeAnswer(Export, Kept(admitted))
<1>1. PICK r : r = Export
  OBVIOUS
<1>2. Wanted.request = r /\ r.route = "invoke" /\ r.operator = TRUE
  BY <1>1, InvokeFields DEF Export
<1>3. Given(r) = InvokeAnswer(r, Kept(admitted))
  BY <1>2, InvokeReply
<1> QED
  BY <1>1, <1>3

LEMMA RegisterReply ==
    ASSUME Verifies(By)
    PROVE  Given(RegisterContext(Fetched, "cc")) = Answer(200, "none", "invoke")
<1>1. PICK r : r = RegisterContext(Fetched, "cc")
  OBVIOUS
<1>2. r.route = "register" /\ r.operator = TRUE
  BY <1>1 DEF RegisterContext
<1>3. Standing(r, By).verifies = TRUE
  BY <1>2, StandingIs DEF Kept
<1>4. Given(r) = Answer(200, "none", "invoke")
  BY <1>2, <1>3 DEF Given, Answered, Unguarded
<1> QED
  BY <1>1, <1>4

(* The fourth request of scenario 26, which taints its second session.     *)
LEMMA TaintStep ==
    ASSUME IInv, SimInv, Request, at = 28, step = 3
    PROVE  [BindingsNext]_bindingVars /\ SimInv'
<1>1. Steps = 5
  BY Lengths DEF Steps
<1>2. /\ admitted \in Own /\ Reached(at, step, admitted)
      /\ admitted < Place(at, step)
  BY Places
<1>3. Wanted = Expect(RegisterContext(Fetched, "cc"), 200, "any")
  BY Admitting DEF Wanted
<1>4. Wanted.request = RegisterContext(Fetched, "cc") /\ Wanted.request.route = "register"
  BY <1>3 DEF Expect, RegisterContext
<1>5. Newly(admitted, "egress_agent")
  BY <1>2 DEF Reached
<1>6. Entered(admitted, "egress_agent") /\ Unspent(admitted) /\ Verifies(admitted)
  BY <1>2, <1>5, EnteredIs DEF Newly
<1>7. PICK i, n, h : i = at /\ n = step + 1 /\ h = admitted
  OBVIOUS
<1>8. By = h /\ h \in Own
  BY <1>2, <1>4, <1>7 DEF By
<1>9. Given(RegisterContext(Fetched, "cc")) = Answer(200, "none", "invoke")
  BY <1>6, <1>7, <1>8, RegisterReply
<1>10. Matches(Reply, Wanted) /\ ~Concludes
  BY <1>1, <1>3, <1>9, MatchesIs DEF Concludes
<1>11. /\ UNCHANGED bindingVars /\ LabelTypes' /\ IsTainted(labels'[h].label)
       /\ \A g \in Handles : g # h => Untouched(g)
  <2>1. Handled(RegisterContext(Fetched, "cc"), h)
    BY <1>4, <1>8, RequestIs
  <2> QED
    BY <1>6, <1>7, <1>8, <2>1, RegisterChanges
<1>12. UNCHANGED <<token, active, revoked, seen, clock>>
  BY <1>11 DEF bindingVars
<1>13. Reached(i, n, h)'
  <2>1. Entered(h, "egress_agent")' /\ Unspent(h)'
    BY <1>6, <1>7, <1>12 DEF Entered, Unspent
  <2>2. i = 28 /\ n = 4
    BY <1>7
  <2> QED
    BY <1>11, <2>1, <2>2 DEF Reached
<1>14. (\A g \in Own : OwnToken(g)') /\ (\A o \in Others : OtherToken(o)')
  BY <1>12 DEF SimInv, Apart, OwnToken, OtherToken
<1>15. h < Place(at, step) /\ h \in Nat /\ Place(at, step) \in Nat
  BY <1>2, <1>7, <1>8, OwnPlaces DEF Place
<1>16. (\A g \in Own : g > Place(at, step) => Untouched(g)) /\ By <= Place(at, step)
  BY <1>8, <1>11, <1>15, OwnHandles
<1>17. SimInv'
  BY <1>7, <1>8, <1>10, <1>11, <1>13, <1>14, <1>16, RequestKeeps
<1> QED
  BY <1>11, <1>17

(* Scenario 26: an export by a session, and by another that fetched.       *)
LEMMA ExportStep ==
    ASSUME IInv, SimInv, Request, at = 28, step > 0
    PROVE  [BindingsNext]_bindingVars /\ SimInv'
<1>1. Steps = 5
  BY Lengths DEF Steps
<1>2. step \in {1, 2, 3, 4} /\ admitted \in Own /\ Reached(at, step, admitted)
  BY <1>1, Places
<1>3. Export.route = "invoke" /\ Export.operator = TRUE
  BY InvokeFields DEF Export
<1>4. CASE step = 1
  <2>1. Wanted = Expect(Export, 200, "none") /\ Wanted.request = Export
    BY <1>4, Admitting DEF Wanted, Expect
  <2>2. Newly(admitted, "egress_agent")
    BY <1>2, <1>4, RolesAt DEF Reached
  <2>3. token[admitted] # NoToken /\ New(Kept(admitted), "egress_agent")
    BY <1>2, <2>2, NewlyIs
  <2>4. Given(Export) = Answer(200, "none", "invoke")
    <3>1. InvokeAnswer(Export, Kept(admitted)) = Answer(200, "none", "invoke")
      BY <2>3, ExportAnswered DEF New
    <3> QED
      BY <2>1, <3>1, ExportReply
  <2>5. Matches(Reply, Wanted) /\ ~Concludes
    BY <1>1, <1>4, <2>1, <2>4, MatchesIs DEF Concludes
  <2>6. PICK i, n, h : i = at /\ n = step + 1 /\ h = admitted
    OBVIOUS
  <2>7. Reached(i, n, h)'
    <3>1. i = 28 /\ n = 2
      BY <1>4, <2>6
    <3> QED
      BY <3>1 DEF Reached
  <2>8. step > 0 /\ Wanted.request.route = "invoke" /\ Wanted.request.operator = TRUE
    BY <1>3, <1>4, <2>1
  <2> QED
    BY <2>3, <2>5, <2>6, <2>7, <2>8, InvokeStep
<1>5. CASE step = 2
  <2>1. "egress_agent" \in RoleNames
    BY SimAssumption
  <2>2. Wanted = Enter("egress_agent") /\ ~Concludes
    BY <1>1, <1>5, Entrances DEF Wanted, Concludes
  <2>3. Place(at, step) \in Own
    BY <1>5, OwnPlaces
  <2>4. PICK i, n, role, h : /\ i = at /\ n = step + 1 /\ role = "egress_agent"
                             /\ h = Place(at, step)
    OBVIOUS
  <2>5. Newly(h, role)' => Reached(i, n, h)'
    <3>1. i = 28 /\ n = 3
      BY <1>5, <2>4
    <3> QED
      BY <2>4, <3>1 DEF Reached
  <2> QED
    BY <2>1, <2>2, <2>3, <2>4, <2>5, EnterStep
<1>6. CASE step = 3
  BY <1>6, TaintStep
<1>7. CASE step = 4
  <2>1. /\ Wanted = Expect(Export, 403, "any") /\ Wanted.request = Export
        /\ Scenarios[at].id \notin Off /\ Scenarios[at].expectedEventType = "scope_fail"
    BY <1>7, Admitting DEF Wanted, Expect, Off
  <2>2. /\ Entered(admitted, "egress_agent") /\ Unspent(admitted)
        /\ IsTainted(labels[admitted].label)
    BY <1>2, <1>7 DEF Reached
  <2>3. token[admitted] # NoToken
    BY <1>2, <2>2, EnteredIs
  <2>4. Given(Export) = Answer(403, "ERR_SCOPE_DENIED", "scope_fail")
    <3>1. /\ Held(Kept(admitted), "egress_agent") /\ ~Kept(admitted).replayed
          /\ IsTainted(Kept(admitted).entry.label)
      BY <1>2, <2>2, EnteredIs
    <3>2. InvokeAnswer(Export, Kept(admitted)) = Answer(403, "ERR_SCOPE_DENIED", "scope_fail")
      BY <3>1, ExportAnswered
    <3> QED
      BY <2>1, <3>2, ExportReply
  <2>5. Matches(Reply, Wanted) /\ Concludes /\ Reply.event = "scope_fail"
    BY <1>1, <1>7, <2>1, <2>4, MatchesIs DEF Concludes
  <2>6. PICK i, n, h : i = at /\ n = step + 1 /\ h = admitted
    OBVIOUS
  <2>7. /\ step > 0 /\ Wanted.request.route = "invoke" /\ Wanted.request.operator = TRUE
        /\ Scenarios[at].id \notin Off /\ Reply.event = Scenarios[at].expectedEventType
    BY <1>3, <1>7, <2>1, <2>5
  <2> QED
    BY <2>3, <2>5, <2>6, <2>7, InvokeStep
<1> QED
  BY <1>2, <1>4, <1>5, <1>6, <1>7

LEMMA RequestInv ==
    ASSUME IInv, SimInv, Request
    PROVE  [BindingsNext]_bindingVars /\ SimInv'
<1>1. at \in 1..29 /\ Scenarios[at].steps # <<>> /\ step \in 0..4
  BY RequestIs, Places
<1>2. at \notin {10, 12, 13, 14, 15, 20, 21, 22, 29}
  BY <1>1, Lengths
<1>3. CASE at \in {8, 16, 19, 23, 24, 25, 26, 27}
  BY <1>3, SingleStep
<1>4. CASE at \in Entering
  <2>1. CASE step = 0
    BY <1>4, <2>1, FirstStep
  <2>2. CASE step > 0
    <3>1. CASE at = 2
      BY <2>2, <3>1, ReplayStep
    <3>2. CASE at = 5
      BY <2>2, <3>2, RevokedStep
    <3>3. CASE at = 28
      BY <2>2, <3>3, ExportStep
    <3>4. CASE at \notin {2, 5, 28}
      BY <1>4, <2>2, <3>4, SecondStep
    <3> QED
      BY <3>1, <3>2, <3>3, <3>4
  <2> QED
    BY <1>1, <2>1, <2>2
<1> QED
  BY <1>1, <1>2, <1>3, <1>4 DEF Entering

(* A skeleton is passed over.                                              *)
LEMMA SkipInv == ASSUME SimInv, Skip PROVE UNCHANGED bindingVars /\ SimInv'
<1>1. /\ at \in 1..29 /\ Steps = 0 /\ step \in 0..4
      /\ UNCHANGED bindingVars /\ UNCHANGED <<labels, manifests, admitted, event>>
      /\ verdict' = [verdict EXCEPT ![at] = "skip"] /\ at' = at + 1 /\ step' = 0
  BY Table DEF Skip, Finished, Steps, SimInv, SimTypes
<1>2. UNCHANGED <<token, active, revoked, seen, clock>>
  BY <1>1 DEF bindingVars
<1>3. Len(Scenarios) = 29 /\ DOMAIN Scenarios = 1..29
  BY Table
<1>4. verdict \in [1..29 -> {"none", "pass", "fail", "skip"}]
  BY <1>3 DEF SimInv, SimTypes
<1>5. step = 0
  BY <1>1, <1>3 DEF SimInv, Underway, Steps
<1>6. SimTypes'
  BY <1>1, <1>3, <1>4 DEF SimInv, SimTypes, LabelTypes
<1>7. Apart'
  <2>1. ASSUME NEW g \in Own, (g >= Place(at, step))'
        PROVE  Fresh(g)'
    <3>1. g \in Nat /\ g >= Place(at, step)
      BY <1>1, <1>5, <2>1, OwnPlaces DEF Place
    <3>2. Untouched(g)
      BY <1>1, <1>2 DEF Untouched
    <3> QED
      BY <3>1, <3>2, FreshKept DEF SimInv, Apart
  <2>2. (\A g \in Own : OwnToken(g)') /\ (\A o \in Others : OtherToken(o)')
    BY <1>2 DEF SimInv, Apart, OwnToken, OtherToken
  <2> QED
    BY <2>1, <2>2 DEF Apart
<1>8. Underway'
  BY <1>1 DEF Underway
<1>9. Judged'
  <2>1. ASSUME NEW j \in 1..29
        PROVE  /\ verdict'[j] # "none" => j < at'
               /\ verdict'[j] = "fail" => Scenarios[j].id \in Off
               /\ verdict'[j] = "pass" => /\ Scenarios[j].id \notin Off
                                          /\ event'[j] = Scenarios[j].expectedEventType
    <3>1. CASE j = at
      BY <1>1, <1>4, <3>1
    <3>2. CASE j # at
      <4>1. verdict'[j] = verdict[j] /\ event'[j] = event[j]
        BY <1>1, <1>4, <3>2
      <4>2. /\ verdict[j] # "none" => j < at
            /\ verdict[j] = "fail" => Scenarios[j].id \in Off
            /\ verdict[j] = "pass" => /\ Scenarios[j].id \notin Off
                                      /\ event[j] = Scenarios[j].expectedEventType
        BY <1>3 DEF SimInv, Judged
      <4> QED
        BY <1>1, <4>1, <4>2
    <3> QED
      BY <3>1, <3>2
  <2> QED
    BY <1>3, <2>1 DEF Judged
<1> QED
  BY <1>1, <1>6, <1>7, <1>8, <1>9 DEF SimInv

(* What the others do are steps of the bindings.                           *)
LEMMA OthersStep ==
    ASSUME OtherRequests \/ Derives \/ TimePasses \/ BrokerRestarts
    PROVE  BindingsNext
<1>1. /\ Others \subseteq Handles /\ OtherSubjects \subseteq Subjects /\ OtherDevices \subseteq Devices
      /\ "operator" \in RoleNames /\ "n" \in Nonces /\ Scope \in SUBSET Scope
  BY SimAssumption
<1>2. CASE TimePasses \/ BrokerRestarts
  BY <1>2 DEF TimePasses, BrokerRestarts, BindingsNext
<1>3. CASE Derives
  <2>1. PICK h \in Others, p \in Others, o \in SUBSET Scope, ttl \in 1..Lifetime : Derive(h, p, o, ttl)
    BY <1>3 DEF Derives
  <2>2. h \in Handles /\ p \in Handles /\ ttl \in Nat
    BY <1>1
  <2> QED
    BY <2>1, <2>2 DEF BindingsNext
<1>4. CASE OtherRequests
  <2>1. CASE \E h \in Others, u \in OtherSubjects, d \in OtherDevices :
                 Attest(h, u, d, "operator", Scope, TRUE)
    <3>1. PICK h \in Others, u \in OtherSubjects, d \in OtherDevices :
              Attest(h, u, d, "operator", Scope, TRUE)
      BY <2>1
    <3>2. h \in Handles /\ u \in Subjects /\ d \in Devices
      BY <1>1
    <3> QED
      BY <1>1, <3>1, <3>2 DEF BindingsNext
  <2>2. CASE \E h \in Others : RevokeSessionOf(h) \/ ConsumeNonce(h, "n")
    BY <1>1, <2>2 DEF BindingsNext
  <2>3. CASE \E u \in OtherSubjects : Revoke("subject", u)
    BY <1>1, <2>3 DEF BindingsNext
  <2>4. CASE \E d \in OtherDevices : Revoke("device", d)
    BY <1>1, <2>4 DEF BindingsNext
  <2> QED
    BY <1>4, <2>1, <2>2, <2>3, <2>4 DEF OtherRequests
<1> QED
  BY <1>2, <1>3, <1>4

(* A step of the simulation keeps the invariant, and to the broker it is a *)
(* step of the bindings or none.                                           *)
LEMMA SimStep ==
    ASSUME IInv, SimInv, [Next]_vars
    PROVE  IInv' /\ SimInv' /\ [BindingsNext]_bindingVars
<1>1. SimInv' /\ [BindingsNext]_bindingVars
  <2>1. CASE Skip
    BY <2>1, SkipInv
  <2>2. CASE Request
    BY <2>2, RequestInv
  <2>3. CASE OtherRequests
    BY <2>3, OtherRequestsInv, OthersStep
  <2>4. CASE \E h \in Others : OtherRegisters(h)
    BY <2>4, OtherRegistersInv DEF OtherRegisters
  <2>5. CASE Derives
    BY <2>5, DerivesInv, OthersStep
  <2>6. CASE TimePasses
    BY <2>6, TimePassesInv, OthersStep
  <2>7. CASE BrokerRestarts
    BY <2>7, BrokerRestartsInv, OthersStep
  <2>8. CASE UNCHANGED vars
    <3>1. /\ UNCHANGED bindingVars /\ UNCHANGED <<token, active, revoked, seen, clock>>
          /\ UNCHANGED <<labels, manifests>> /\ UNCHANGED simVars
      BY <2>8 DEF vars, bindingVars
    <3>2. SimTypes'
      BY <3>1, TypesKept DEF SimInv
    <3>3. \A h \in Own : Untouched(h)
      BY <3>1 DEF Untouched
    <3>4. \A h \in Others : OtherToken(h)'
      BY <3>1 DEF SimInv, Apart, OtherToken
    <3> QED
      BY <3>1, <3>2, <3>3, <3>4, OthersKeep
  <2> QED
    BY <2>1, <2>2, <2>3, <2>4, <2>5, <2>6, <2>7, <2>8 DEF Next
<1> QED
  BY <1>1, StepInv

-----------------------------------------------------------------------------
(* Whatever the other clients do in between, the invariant holds.          *)
THEOREM Simulated == Spec => [](IInv /\ SimInv)
<1>1. Init => IInv /\ SimInv
  BY SimInit
<1>2. IInv /\ SimInv /\ [Next]_vars => IInv' /\ SimInv'
  BY SimStep
<1> QED
  BY <1>1, <1>2, PTL DEF Spec

(* The broker under the simulation and the other clients is the in-process *)
(* bindings, and what is proved of those holds of it.                      *)
THEOREM SimulatesBindings == Spec => Bindings
<1>1. Init => BindingsInit
  BY DEF Init
<1>2. IInv /\ SimInv /\ [Next]_vars => [BindingsNext]_bindingVars
  BY SimStep
<1> QED
  BY <1>1, <1>2, Simulated, PTL DEF Spec, Bindings

(* So no client widens, outlives or survives its parent, no revoked one    *)
(* gets back in and no session comes back, while the scenarios run.        *)
THEOREM BrokerKept == Spec => []ChildWithinParent /\ []RevokedStayOut /\ PromiseKept
BY SimulatesBindings, ChildrenStayWithin, RevokedAlwaysOut, BindingsRefinement, PTL

(* Every variable of the simulation stays in its type.                     *)
THEOREM TypeCorrect == Spec => []TypeOK
<1>1. IInv /\ SimInv => TypeOK
  BY DEF IInv, SimInv, SimTypes, LabelTypes, TypeOK
<1> QED
  BY <1>1, Simulated, PTL

(* The record behind the answer a scenario wanted has the type it declares.*)
THEOREM ScenariosRecorded == Spec => []RecordedAsDeclared
<1>1. SimInv => RecordedAsDeclared
  BY DEF SimInv, Judged, RecordedAsDeclared
<1> QED
  BY <1>1, Simulated, PTL
-----------------------------------------------------------------------------
(* A scenario that has the broker to itself.                               *)
Ask(i, m) == Scenarios[i].steps[m].request

Entrants(i, n) == {m \in 1..(n - 1) : Ask(i, m).route = "admit"}

Since(i, n, route) ==
    {m \in 1..(n - 1) : Ask(i, m).route = route /\ \A k \in Entrants(i, n) : k < m}

Registered(i, n) ==
    {Ask(i, m).manifest : m \in {k \in 1..(n - 1) : Ask(i, k).route = "register"}}

Stands(i, n) ==
    /\ Since(i, n, "revoke") = {} => Alone(i, n).verifies = TRUE
    /\ Since(i, n, "revoke") # {} => Alone(i, n).verifies = FALSE
    /\ Alone(i, n).reason = "ERR_SESSION_REVOKED"
    /\ Alone(i, n).role = Ask(i, Max(Entrants(i, n))).role
    /\ Since(i, n, "invoke") = {} => Alone(i, n).replayed = FALSE
    /\ Since(i, n, "invoke") # {} => Alone(i, n).replayed = TRUE
    /\ Since(i, n, "register") = {} => Alone(i, n).entry = NoEntry
    /\ Since(i, n, "register") # {} =>
          Alone(i, n).entry = Joined(NoEntry, Ask(i, Max(Since(i, n, "register"))).elements, 1)
    /\ Alone(i, n).manifests = Registered(i, n)

LEMMA AloneIs == \A i, n : Ask(i, n).route \in {"invoke", "register"} => Stands(i, n)
<1> SUFFICES ASSUME NEW i, NEW n, Ask(i, n).route \in {"invoke", "register"}
             PROVE  Stands(i, n)
  OBVIOUS
<1> DEFINE verifies  == Since(i, n, "revoke") = {}
           role      == Ask(i, Max(Entrants(i, n))).role
           replayed  == Since(i, n, "invoke") # {}
           entry     == IF Since(i, n, "register") = {} THEN NoEntry
                        ELSE Joined(NoEntry, Ask(i, Max(Since(i, n, "register"))).elements, 1)
           mentioned == Registered(i, n)
<1>1. Alone(i, n) = [verifies |-> verifies, reason |-> "ERR_SESSION_REVOKED", role |-> role,
                     replayed |-> replayed, entry |-> entry, manifests |-> mentioned]
  BY DEF Alone, Ask, Entrants, Since, Registered
<1> HIDE DEF verifies, role, replayed, entry, mentioned
<1>2. /\ Alone(i, n).verifies = verifies /\ Alone(i, n).reason = "ERR_SESSION_REVOKED"
      /\ Alone(i, n).role = role /\ Alone(i, n).replayed = replayed
      /\ Alone(i, n).entry = entry /\ Alone(i, n).manifests = mentioned
  BY <1>1
<1> QED
  BY <1>2, Zenon DEF Stands, verifies, role, replayed, entry, mentioned

LEMMA GreatestIs ==
    ASSUME NEW S \in SUBSET Nat, NEW k \in S, \A n \in S : n <= k
    PROVE  Max(S) = k
<1>1. Max(S) \in S /\ \A n \in S : Max(S) >= n
  BY Zenon DEF Max
<1>2. \A m \in S : m >= k /\ m <= k => m = k
  OBVIOUS
<1> QED
  BY <1>1, <1>2

(* The route of every request.                                             *)
LEMMA Routes ==
  /\ \A i \in Entering : Ask(i, 1).route = "admit" /\ Ask(i, 1).role = RoleAt[i]
  /\ \A i \in Entering \ {5} : Ask(i, 2).route = "invoke"
  /\ Ask(2, 3).route = "invoke"
  /\ Ask(5, 2).route = "revoke" /\ Ask(5, 3).route = "invoke"
  /\ Ask(28, 3).route = "admit" /\ Ask(28, 3).role = "egress_agent"
  /\ Ask(28, 4).route = "register" /\ Ask(28, 4).elements = <<Fetched>> /\ Ask(28, 4).manifest = "cc"
  /\ Ask(28, 5).route = "invoke"
<1>1. \A role : Enter(role).request.route = "admit" /\ Enter(role).request.role = role
  BY DEF Enter, Expect, Admit
<1>2. /\ \A i \in Entering : Ask(i, 1).route = "admit" /\ Ask(i, 1).role = RoleAt[i]
      /\ Ask(28, 3).route = "admit" /\ Ask(28, 3).role = "egress_agent"
  BY <1>1, Entrances DEF Ask
<1>3. /\ s01.steps[2].request.route = "invoke" /\ s03.steps[2].request.route = "invoke"
      /\ s04.steps[2].request.route = "invoke" /\ s06.steps[2].request.route = "invoke"
      /\ s07.steps[2].request.route = "invoke" /\ s09.steps[2].request.route = "invoke"
      /\ s11.steps[2].request.route = "invoke" /\ s17.steps[2].request.route = "invoke"
      /\ s24.steps[2].request.route = "invoke"
  BY DEF s01, s03, s04, s06, s07, s09, s11, s17, s24, Denied, Scenario, Expect, Read, Invoke
<1>4. /\ s02.steps[2].request.route = "invoke" /\ s02.steps[3].request.route = "invoke"
      /\ s05.steps[2].request.route = "revoke" /\ s05.steps[3].request.route = "invoke"
  BY DEF s02, s05, Scenario, Expect, Read, Invoke, RevokeSession
<1>5. /\ s26.steps[2].request.route = "invoke" /\ s26.steps[5].request.route = "invoke"
      /\ s26.steps[4].request = RegisterContext(Fetched, "cc")
  BY DEF s26, Scenario, Expect, Invoke
<1>6. LET r == RegisterContext(Fetched, "cc") IN
      r.route = "register" /\ r.elements = <<Fetched>> /\ r.manifest = "cc"
  BY DEF RegisterContext
<1>7. \A i \in Entering \ {5} : Ask(i, 2).route = "invoke"
  <2>1. \A i \in {1, 2, 3, 4, 6, 7} : Ask(i, 2).route = "invoke"
    BY <1>3, <1>4, Table DEF Ask
  <2>2. \A i \in {9, 11, 17, 18, 28} : Ask(i, 2).route = "invoke"
    BY <1>3, <1>5, Table DEF Ask
  <2> QED
    BY <2>1, <2>2 DEF Entering
<1> QED
  BY <1>2, <1>4, <1>5, <1>6, <1>7, Table DEF Ask

(* The second request, made of a session that did nothing yet.             *)
LEMMA AloneSecond ==
    ASSUME NEW i \in Entering \ {5}
    PROVE  New(Alone(i, 2), RoleAt[i]) /\ Alone(i, 2).manifests \subseteq {"cc", "dd"}
<1>1. Entrants(i, 2) = {1}
  BY Routes DEF Entrants
<1>2. \A route \in {"invoke", "revoke", "register"} : Since(i, 2, route) = {}
  BY Routes DEF Since
<1>3. Registered(i, 2) = {}
  BY Routes DEF Registered
<1>4. Max({1}) = 1
  BY GreatestIs
<1>5. ~IsTainted(NoEntry.label)
  BY DEF NoEntry, Bottom, IsTainted
<1>6. /\ Alone(i, 2).verifies = TRUE /\ Alone(i, 2).replayed = FALSE /\ Alone(i, 2).entry = NoEntry
      /\ Alone(i, 2).role = RoleAt[i] /\ Alone(i, 2).manifests = {}
  <2> HIDE DEF NoEntry
  <2>1. Ask(i, 2).route \in {"invoke", "register"} /\ Ask(i, 1).role = RoleAt[i]
    BY Routes
  <2>2. Stands(i, 2)
    BY <2>1, AloneIs
  <2> QED
    BY <1>1, <1>2, <1>3, <1>4, <2>1, <2>2 DEF Stands
<1> QED
  BY <1>5, <1>6 DEF New, Held

(* The replay of scenario 02, the read of 05 and the second session of 26. *)
LEMMA AloneReplay == Alone(2, 3).verifies = TRUE /\ Alone(2, 3).replayed = TRUE
<1>1. Entrants(2, 3) = {1} /\ Ask(2, 3).route = "invoke"
  BY Routes DEF Entrants, Entering
<1>2. Since(2, 3, "revoke") = {} /\ 2 \in Since(2, 3, "invoke")
  BY <1>1, Routes DEF Since, Entering
<1>3. Stands(2, 3)
  BY <1>1, AloneIs
<1> QED
  BY <1>2, <1>3 DEF Stands

LEMMA AloneRevoked == Alone(5, 3).verifies = FALSE /\ Alone(5, 3).reason = "ERR_SESSION_REVOKED"
<1>1. Entrants(5, 3) = {1} /\ Ask(5, 3).route = "invoke"
  BY Routes DEF Entrants, Entering
<1>2. 2 \in Since(5, 3, "revoke")
  BY <1>1, Routes DEF Since, Entering
<1>3. Stands(5, 3)
  BY <1>1, AloneIs
<1> QED
  BY <1>2, <1>3 DEF Stands

LEMMA AloneFetches == Alone(28, 4).verifies = TRUE
<1>1. Ask(28, 4).route = "register"
  BY Routes
<1>2. Since(28, 4, "revoke") = {}
  BY Routes DEF Since, Entering
<1>3. Stands(28, 4)
  BY <1>1, AloneIs
<1> QED
  BY <1>2, <1>3 DEF Stands

LEMMA AloneTainted ==
  /\ Held(Alone(28, 5), "egress_agent") /\ ~Alone(28, 5).replayed
  /\ IsTainted(Alone(28, 5).entry.label)
<1>1. Entrants(28, 5) = {1, 3} /\ Ask(28, 5).route = "invoke" /\ Ask(28, 3).role = "egress_agent"
  BY Routes DEF Entrants, Entering
<1>2. Since(28, 5, "revoke") = {} /\ Since(28, 5, "invoke") = {} /\ Since(28, 5, "register") = {4}
  <2>1. /\ Ask(28, 1).route = "admit" /\ Ask(28, 2).route = "invoke" /\ Ask(28, 3).route = "admit"
        /\ Ask(28, 4).route = "register"
    BY Routes DEF Entering
  <2>2. 1..(5 - 1) = {1, 2, 3, 4}
    OBVIOUS
  <2>3. Since(28, 5, "revoke") = {}
    BY <2>1, <2>2 DEF Since
  <2>4. Since(28, 5, "invoke") = {}
    BY <1>1, <2>1, <2>2 DEF Since
  <2>5. Since(28, 5, "register") = {4}
    BY <1>1, <2>1, <2>2 DEF Since
  <2> QED
    BY <2>3, <2>4, <2>5
<1>3. Max({1, 3}) = 3 /\ Max({4}) = 4
  BY GreatestIs
<1>4. /\ Alone(28, 5).verifies = TRUE /\ Alone(28, 5).role = "egress_agent"
      /\ Alone(28, 5).replayed = FALSE /\ Alone(28, 5).entry = Joined(NoEntry, <<Fetched>>, 1)
  <2> HIDE DEF NoEntry, Joined
  <2>1. Stands(28, 5)
    BY <1>1, AloneIs
  <2>2. Ask(28, 4).elements = <<Fetched>>
    BY Routes
  <2>3. /\ Alone(28, 5).verifies = TRUE /\ Alone(28, 5).replayed = FALSE
        /\ Alone(28, 5).role = Ask(28, Max(Entrants(28, 5))).role
    BY <1>2, <2>1 DEF Stands
  <2>4. Since(28, 5, "register") # {}
    BY <1>2
  <2>5. Alone(28, 5).entry =
            Joined(NoEntry, Ask(28, Max(Since(28, 5, "register"))).elements, 1)
    BY <2>1, <2>4, Zenon DEF Stands
  <2>6. Alone(28, 5).role = Ask(28, 3).role
    BY <1>1, <1>3, <2>3, Zenon
  <2>7. Alone(28, 5).entry = Joined(NoEntry, Ask(28, 4).elements, 1)
    BY <1>2, <1>3, <2>5, Zenon
  <2> QED
    BY <1>1, <2>2, <2>3, <2>6, <2>7
<1>5. IsTainted(Joined(NoEntry, <<Fetched>>, 1).label)
  BY NoEntryType, JoinedFetched
<1> QED
  BY <1>4, <1>5 DEF Held
(* What the n-th request gets then.                                        *)
Gets(i, n) == Matches(Answered(Ask(i, n), Alone(i, n)), Scenarios[i].steps[n])

LEMMA GetsIs ==
    ASSUME NEW i, NEW n, NEW r, NEW status, NEW code, Scenarios[i].steps[n] = Expect(r, status, code),
           NEW s, NEW c, NEW t, Answered(r, Alone(i, n)) = Answer(s, c, t)
    PROVE  Gets(i, n) <=> (s = status /\ code \in {c, "any"})
BY DEF Gets, Ask, Expect, Answer, Matches

LEMMA GetsIn == (\A i \in Entering : Gets(i, 1)) /\ Gets(28, 3)
<1>1. ASSUME NEW i, NEW n, NEW role, Scenarios[i].steps[n] = Enter(role)
      PROVE  Gets(i, n)
  <2>1. Ask(i, n) = Admit(role) /\ Scenarios[i].steps[n] = Expect(Admit(role), 200, "none")
    BY <1>1 DEF Ask, Enter, Expect
  <2>2. Ask(i, n).route = "admit" /\ Ask(i, n).attested = TRUE
    BY <2>1 DEF Admit
  <2>3. ~Alone(i, n).refused
    BY <2>2 DEF Alone, Ask
  <2>4. Answered(Admit(role), Alone(i, n)) = Answer(200, "none", "admit")
    BY <2>3, AdmitAnswered
  <2> QED
    BY <2>1, <2>4, GetsIs
<1> QED
  BY <1>1, Entrances

LEMMA GetsSecond == \A i \in Entering \ {5} : Gets(i, 2) <=> i # 6
<1> SUFFICES ASSUME NEW i \in Entering \ {5}
             PROVE  Gets(i, 2) <=> i # 6
  OBVIOUS
<1>1. SecondAs(i, Alone(i, 2))
  BY AloneSecond, SecondAnswers
<1>2. /\ Ask(i, 2).route = "invoke" /\ Ask(i, 2).operator = TRUE
      /\ Matches(InvokeAnswer(Ask(i, 2), Alone(i, 2)), Scenarios[i].steps[2]) <=> i # 6
  BY <1>1 DEF SecondAs, Ask
<1>3. Answered(Ask(i, 2), Alone(i, 2)) = InvokeAnswer(Ask(i, 2), Alone(i, 2))
  BY <1>2 DEF Answered, Unguarded
<1> QED
  BY <1>2, <1>3 DEF Gets

LEMMA InvokeAnswered ==
    ASSUME NEW r, r.route = "invoke", r.operator = TRUE, NEW s
    PROVE  Answered(r, s) = InvokeAnswer(r, s)
BY DEF Answered, Unguarded

LEMMA GetsRest == Gets(2, 3) /\ Gets(5, 2) /\ Gets(5, 3) /\ Gets(28, 4) /\ Gets(28, 5)
<1>1. Read.route = "invoke" /\ Read.operator = TRUE /\ Export.route = "invoke" /\ Export.operator = TRUE
  BY InvokeFields DEF Read, Export
<1>2. Gets(2, 3)
  <2>1. InvokeAnswer(Read, Alone(2, 3)) = Answer(403, "ERR_NONCE_REPLAY", "replay_fail")
    BY AloneReplay, ReplayRefused
  <2>2. Answered(Read, Alone(2, 3)) = Answer(403, "ERR_NONCE_REPLAY", "replay_fail")
    BY <1>1, <2>1, InvokeAnswered
  <2> QED
    BY <2>2, Admitting, GetsIs
<1>3. Gets(5, 2)
  <2>1. Answered(RevokeSession, Alone(5, 2)) = Answer(200, "none", "revoke")
    BY DEF Answered, Unguarded, RevokeSession
  <2> QED
    BY <2>1, Admitting, GetsIs
<1>4. Gets(5, 3)
  <2>1. InvokeAnswer(Read, Alone(5, 3)) = Answer(401, "ERR_SESSION_REVOKED", "deny")
    BY AloneRevoked, RevokedRefused
  <2>2. Answered(Read, Alone(5, 3)) = Answer(401, "ERR_SESSION_REVOKED", "deny")
    BY <1>1, <2>1, InvokeAnswered
  <2> QED
    BY <2>2, Admitting, GetsIs
<1>5. Gets(28, 4)
  <2>1. Answered(RegisterContext(Fetched, "cc"), Alone(28, 4)) = Answer(200, "none", "invoke")
    BY AloneFetches DEF Answered, Unguarded, RegisterContext
  <2> QED
    BY <2>1, Admitting, GetsIs
<1>6. Gets(28, 5)
  <2>1. InvokeAnswer(Export, Alone(28, 5)) = Answer(403, "ERR_SCOPE_DENIED", "scope_fail")
    BY AloneTainted, ExportAnswered
  <2>2. Answered(Export, Alone(28, 5)) = Answer(403, "ERR_SCOPE_DENIED", "scope_fail")
    BY <1>1, <2>1, InvokeAnswered
  <2> QED
    BY <2>2, Admitting, GetsIs
<1> QED
  BY <1>2, <1>3, <1>4, <1>5, <1>6

LEMMA GetsSingle ==
    (\A i \in {8, 16, 19, 23, 24, 27} : Gets(i, 1)) /\ ~Gets(25, 1) /\ ~Gets(26, 1)
<1>1. \A server, matches, s :
          Answered(Ingest(server, matches), s) = McpAnswer(Ingest(server, matches))
  BY DEF Answered, Unguarded, Ingest
<1>2. \A signer, s : Answered(RegisterSkill(signer), s) = SkillAnswer(RegisterSkill(signer))
  BY DEF Answered, Unguarded, RegisterSkill
<1>3. ASSUME NEW i \in {8, 16, 19}
      PROVE  Gets(i, 1)
  <2>1. PICK server, matches :
             /\ server \in {"slack-connector", "telegram-bot"} /\ matches # {}
             /\ Scenarios[i].steps[1] =
                    Expect(Ingest(server, matches), 403, "ERR_MCP_RESPONSE_TAINTED")
    BY Single
  <2>2. McpAnswer(Ingest(server, matches)) = Answer(403, "ERR_MCP_RESPONSE_TAINTED", "mcp_tainted")
    BY <2>1, McpAnswered DEF TrustLevel
  <2>3. Answered(Ingest(server, matches), Alone(i, 1)) =
            Answer(403, "ERR_MCP_RESPONSE_TAINTED", "mcp_tainted")
    BY <1>1, <2>2
  <2> QED
    BY <2>1, <2>3, GetsIs
<1>4. Gets(23, 1) /\ Gets(24, 1)
  <2>1. /\ Answered(RegisterSkill("none"), Alone(23, 1)) =
               Answer(403, "ERR_SKILL_UNSIGNED", "skill_unsigned")
        /\ Answered(RegisterSkill("attacker-key-1"), Alone(24, 1)) =
               Answer(403, "ERR_SKILL_BLOCKED", "skill_blocked")
    BY <1>2, SkillAnswered
  <2> QED
    BY <2>1, Single, GetsIs
<1>5. Gets(27, 1)
  <2>1. McpAnswer(Ingest("attacker-mcp", {})) = Answer(403, "ERR_MCP_SERVER_BLOCKED", "mcp_block")
    BY McpAnswered
  <2>2. Answered(Ingest("attacker-mcp", {}), Alone(27, 1)) =
            Answer(403, "ERR_MCP_SERVER_BLOCKED", "mcp_block")
    BY <1>1, <2>1
  <2> QED
    BY <2>2, Single, GetsIs
<1>6. ~Gets(26, 1)
  <2>1. McpAnswer(Ingest("email-ingest", {})) = Answer(200, "none", "none")
    BY McpAnswered DEF TrustLevel
  <2>2. Answered(Ingest("email-ingest", {}), Alone(26, 1)) = Answer(200, "none", "none")
    BY <1>1, <2>1
  <2> QED
    BY <2>2, Single, GetsIs
<1>7. ~Gets(25, 1)
  <2> DEFINE r == [Admit("admin") EXCEPT !.attested = FALSE, !.operator = FALSE]
  <2>1. Scenarios[25].steps[1] = Expect(r, 401, "ERR_ATTESTATION_FAILED")
    BY Single
  <2>2. r.operator = FALSE
    BY DEF Admit
  <2> HIDE DEF r
  <2>3. Answered(r, Alone(25, 1)) = Answer(401, "none", "none")
    BY <2>2 DEF Answered
  <2> QED
    BY <2>1, <2>3, GetsIs
<1> QED
  BY <1>3, <1>4, <1>5, <1>6, <1>7
LEMMA Indices == \A i \in 1..29 : DOMAIN Scenarios[i].steps = 1..Len(Scenarios[i].steps)
<1>1. /\ DOMAIN s01.steps = 1..2 /\ DOMAIN s03.steps = 1..2 /\ DOMAIN s04.steps = 1..2
      /\ DOMAIN s06.steps = 1..2 /\ DOMAIN s07.steps = 1..2 /\ DOMAIN s09.steps = 1..2
      /\ DOMAIN s11.steps = 1..2 /\ DOMAIN s17.steps = 1..2 /\ DOMAIN s24.steps = 1..2
  BY DEF s01, s03, s04, s06, s07, s09, s11, s17, s24, Denied, Scenario
<1>2. DOMAIN s02.steps = 1..3 /\ DOMAIN s05.steps = 1..3 /\ DOMAIN s26.steps = 1..5
  BY DEF s02, s05, s26, Scenario
<1>3. /\ DOMAIN s08.steps = 1..1 /\ DOMAIN s16.steps = 1..1 /\ DOMAIN s25.steps = 1..1
      /\ DOMAIN s21.steps = 1..1 /\ DOMAIN s21b.steps = 1..1 /\ DOMAIN s22.steps = 1..1
      /\ DOMAIN s23.steps = 1..1 /\ DOMAIN s23b.steps = 1..1
  BY DEF s08, s16, s25, s21, s21b, s22, s23, s23b, Tainted, Scenario
<1>4. \A i \in Entering \ {2, 5, 28} : DOMAIN Scenarios[i].steps = 1..Len(Scenarios[i].steps)
  BY <1>1, Lengths, Table DEF Entering
<1>5. \A i \in {2, 5, 28} : DOMAIN Scenarios[i].steps = 1..Len(Scenarios[i].steps)
  BY <1>2, Lengths, Table
<1>6. \A i \in {8, 16, 19, 23, 24, 25, 26, 27} :
          DOMAIN Scenarios[i].steps = 1..Len(Scenarios[i].steps)
  BY <1>3, Lengths, Table
<1>7. \A i \in {10, 12, 13, 14, 15, 20, 21, 22, 29} :
          DOMAIN Scenarios[i].steps = 1..Len(Scenarios[i].steps)
  BY Lengths
<1>8. 1..29 = Entering \cup {8, 16, 19, 23, 24, 25, 26, 27}
                       \cup {10, 12, 13, 14, 15, 20, 21, 22, 29}
  BY DEF Entering
<1> QED
  BY <1>4, <1>5, <1>6, <1>7, <1>8

Passes(i) == \A n \in DOMAIN Scenarios[i].steps : Gets(i, n)

(* Alone with the broker, three scenarios miss the answer they want.       *)
LEMMA OwnVerdicts ==
    \A i \in DOMAIN OwnVerdict :
        i \in DOMAIN Scenarios /\ OwnVerdict[i] = IF Scenarios[i].id \in Off THEN "fail" ELSE "pass"
<1>1. DOMAIN OwnVerdict = {i \in DOMAIN Scenarios : Scenarios[i].steps # <<>>}
  BY DEF OwnVerdict
<1>2. ASSUME NEW i \in DOMAIN OwnVerdict
      PROVE  i \in Entering \cup {8, 16, 19, 23, 24, 25, 26, 27}
  <2>1. i \in 1..29 /\ Scenarios[i].steps # <<>>
    BY <1>1, Table
  <2>2. i \notin {10, 12, 13, 14, 15, 20, 21, 22, 29}
    BY <2>1, Lengths
  <2> QED
    BY <2>1, <2>2 DEF Entering
<1>3. \A i \in DOMAIN OwnVerdict : OwnVerdict[i] = IF Passes(i) THEN "pass" ELSE "fail"
  <2>1. OwnVerdict = [i \in {n \in DOMAIN Scenarios : Scenarios[n].steps # <<>>} |->
                         IF Passes(i) THEN "pass" ELSE "fail"]
    BY Zenon DEF OwnVerdict, Passes, Gets, Ask
  <2> HIDE DEF OwnVerdict
  <2> QED
    BY <2>1
<1>4. \A i \in Entering \ {2, 5, 28} : Passes(i) <=> i # 6
  <2> SUFFICES ASSUME NEW i \in Entering \ {2, 5, 28}
               PROVE  Passes(i) <=> i # 6
    OBVIOUS
  <2>1. Len(Scenarios[i].steps) = 2 /\ i \in 1..29
    BY Lengths DEF Entering
  <2>2. DOMAIN Scenarios[i].steps = 1..2
    BY <2>1, Indices
  <2> QED
    BY <2>2, GetsIn, GetsSecond DEF Passes
<1>5. Passes(2) /\ Passes(5)
  <2>1. DOMAIN Scenarios[2].steps = 1..3 /\ DOMAIN Scenarios[5].steps = 1..3
    <3>1. Len(Scenarios[2].steps) = 3 /\ Len(Scenarios[5].steps) = 3 /\ 2 \in 1..29 /\ 5 \in 1..29
      BY Lengths
    <3> QED
      BY <3>1, Indices
  <2> QED
    BY <2>1, GetsIn, GetsSecond, GetsRest DEF Passes, Entering
<1>6. Passes(28)
  <2>1. DOMAIN Scenarios[28].steps = 1..5
    <3>1. Len(Scenarios[28].steps) = 5 /\ 28 \in 1..29
      BY Lengths
    <3> QED
      BY <3>1, Indices
  <2> QED
    BY <2>1, GetsIn, GetsSecond, GetsRest DEF Passes, Entering
<1>7. \A i \in {8, 16, 19, 23, 24, 25, 26, 27} : Passes(i) <=> i \notin {25, 26}
  <2>1. ASSUME NEW i \in {8, 16, 19, 23, 24, 25, 26, 27}
        PROVE  DOMAIN Scenarios[i].steps = 1..1
    <3>1. Len(Scenarios[i].steps) = 1 /\ i \in 1..29
      BY Lengths
    <3> QED
      BY <3>1, Indices
  <2> QED
    BY <2>1, GetsSingle DEF Passes
<1>8. /\ \A i \in Entering : Scenarios[i].id \in Off <=> i = 6
      /\ \A i \in {8, 16, 19, 23, 24, 25, 26, 27} : Scenarios[i].id \in Off <=> i \in {25, 26}
  BY Admitting, Single DEF Off, Entering
<1>9. \A i \in Entering \cup {8, 16, 19, 23, 24, 25, 26, 27} :
          Passes(i) <=> Scenarios[i].id \notin Off
  BY <1>4, <1>5, <1>6, <1>7, <1>8 DEF Entering
<1> QED
  BY <1>1, <1>2, <1>3, <1>9

(* "Each is deterministic, self-contained": whatever scenarios came before *)
(* and whatever other clients do between two of its requests (admissions,  *)
(* derivations, revocations, registrations), and wherever time passes, a   *)
(* scenario ends as it does with the broker to itself.                     *)
THEOREM ScenariosSelfContained == Spec => []SelfContained
<1>1. SimInv => SelfContained
  BY OwnVerdicts DEF SimInv, Judged, SelfContained
<1> QED
  BY <1>1, Simulated, PTL
=============================================================================
