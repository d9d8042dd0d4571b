----------------------------- MODULE NieBindings -----------------------------
(***************************************************************************)
(* packages/nie-bindings/src/mock.ts: the in-process bindings.  A session  *)
(* handle and a capability token are random, so a token is a handle not    *)
(* used before and a session is named by the token of its admission.  A    *)
(* token is remembered here after activeTokens forgets it; nothing that    *)
(* decides reads it then.                                                  *)
(***************************************************************************)
EXTENDS Integers

CONSTANTS Handles,
          Subjects,   \* hashes of attestation packages
          Devices,    \* device fingerprints
          RoleNames,
          Scope,      \* operation classes
          Nonces,
          NoToken,    \* no token was minted under a handle
          Lifetime,   \* of the token of an admission: 15 minutes
          MaxClock    \* bound on the clock

TokenState == [session : Handles, subject : Subjects, device : Devices, role : RoleNames,
               operations : SUBSET Scope, expiresAt : Nat, parent : Handles]

ASSUME BindingsAssumption ==
    /\ Lifetime \in Nat \ {0}
    /\ MaxClock \in Nat
    /\ NoToken \notin TokenState

VARIABLES token,    \* history: every token minted, by its handle
          active,   \* the keys of activeTokens
          revoked,  \* revokedSubjects, revokedSessions, revokedDevices
          seen,     \* seenNonces
          clock     \* Date.now()

bindingVars == <<token, active, revoked, seen, clock>>

Kinds == {"subject", "session", "device"}

BindingsTypeOK ==
    /\ token \in [Handles -> TokenState \cup {NoToken}]
    /\ active \subseteq {h \in Handles : token[h] # NoToken}
    /\ revoked \subseteq Kinds \X (Subjects \cup Handles \cup Devices)
    /\ seen \subseteq Handles \X Nonces
    /\ clock \in 0..MaxClock

BindingsInit ==
    /\ token = [h \in Handles |-> NoToken]
    /\ active = {}
    /\ revoked = {}
    /\ seen = {}
    /\ clock = 0

-----------------------------------------------------------------------------
(* What a revocation of each kind names in a token.                        *)
Named(h, kind) == CASE kind = "subject" -> token[h].subject
                    [] kind = "session" -> token[h].session
                    [] kind = "device"  -> token[h].device

(* verifyToken, and the reason it gives.                                   *)
Expired(h) == token[h].expiresAt < clock

OnlyUnexpired(h) == token[h] # NoToken /\ ~Expired(h) /\ <<"session", token[h].session>> \notin revoked

Verifies(h) == h \in active /\ ~Expired(h) /\ <<"session", token[h].session>> \notin revoked

ReasonCode(h) == IF h \in active /\ Expired(h) THEN "ERR_SESSION_EXPIRED" ELSE "ERR_SESSION_REVOKED"

Mint(h, state) ==
    /\ token[h] = NoToken
    /\ token' = [token EXCEPT ![h] = state]
    /\ active' = active \cup {h}
    /\ UNCHANGED <<revoked, seen, clock>>

(* attest refuses a package below the floor, a revoked subject and a       *)
(* revoked device.                                                         *)
Refused(subject, device, attested) ==
    \/ ~attested
    \/ <<"subject", subject>> \in revoked
    \/ <<"device", device>> \in revoked

Attest(h, subject, device, role, operations, attested) ==
    IF Refused(subject, device, attested)
    THEN UNCHANGED bindingVars
    ELSE Mint(h, [session |-> h, subject |-> subject, device |-> device, role |-> role,
                  operations |-> operations, expiresAt |-> clock + Lifetime, parent |-> h])

OwnLifetime(p, ttl) == clock + ttl

ChildExpiry(p, ttl) ==
    LET left == token[p].expiresAt - clock IN clock + (IF ttl < left THEN ttl ELSE left)

(* deriveScopedCapability: the child is the parent's with a subset of its  *)
(* operations and no longer a life.                                        *)
Derive(h, p, operations, ttl) ==
    /\ p \in active
    /\ ChildExpiry(p, ttl) > clock
    /\ operations \subseteq token[p].operations
    /\ Mint(h, [token[p] EXCEPT !.operations = operations, !.expiresAt = ChildExpiry(p, ttl),
                                !.parent = p])

RootsOnly(kind, id) ==
    /\ revoked' = revoked \cup {<<kind, id>>}
    /\ active' = active \ {h \in active : Named(h, kind) = id /\ token[h].parent = h}
    /\ UNCHANGED <<token, seen, clock>>

(* revokeSubject, of each kind.                                            *)
Revoke(kind, id) ==
    /\ revoked' = revoked \cup {<<kind, id>>}
    /\ active' = active \ {h \in active : Named(h, kind) = id}
    /\ UNCHANGED <<token, seen, clock>>

(* A session's handle is 32 random bytes: nobody names one before it is    *)
(* issued.                                                                 *)
RevokeSessionOf(h) == token[h] # NoToken /\ Revoke("session", token[h].session)

(* consumeNonce; the second use of a nonce changes nothing.                *)
ConsumeNonce(h, nonce) ==
    /\ token[h] # NoToken
    /\ seen' = seen \cup {<<token[h].session, nonce>>}
    /\ UNCHANGED <<token, active, revoked, clock>>

Tick ==
    /\ clock < MaxClock
    /\ clock' = clock + 1
    /\ UNCHANGED <<token, active, revoked, seen>>

KeepsTokens ==
    /\ revoked' = {}
    /\ seen' = {}
    /\ UNCHANGED <<token, active, clock>>

(* The process ends and another begins: nothing of this is kept anywhere.  *)
Restart ==
    /\ active' = {}
    /\ revoked' = {}
    /\ seen' = {}
    /\ UNCHANGED <<token, clock>>

BindingsNext ==
    \/ \E h \in Handles, u \in Subjects, d \in Devices, r \in RoleNames, o \in SUBSET Scope,
          a \in BOOLEAN : Attest(h, u, d, r, o, a)
    \/ \E h, p \in Handles, o \in SUBSET Scope, ttl \in Nat : Derive(h, p, o, ttl)
    \/ \E u \in Subjects : Revoke("subject", u)
    \/ \E h \in Handles : RevokeSessionOf(h) \/ \E n \in Nonces : ConsumeNonce(h, n)
    \/ \E d \in Devices : Revoke("device", d)
    \/ Tick
    \/ Restart

Bindings == BindingsInit /\ [][BindingsNext]_bindingVars
-----------------------------------------------------------------------------
(* "Children cannot widen scope, cannot outlive parents, and revoke        *)
(* through the parent": a token derived from another verifies only while   *)
(* the other does, of the same principal, with operations of the other's.  *)
ChildWithinParent ==
    \A h \in Handles :
        LET p == token[h].parent IN
        token[h] # NoToken /\ Verifies(h) =>
            /\ Verifies(p)
            /\ token[h].operations \subseteq token[p].operations
            /\ token[h].expiresAt =< token[p].expiresAt
            /\ \A kind \in Kinds : Named(h, kind) = Named(p, kind)

(* Whatever was admitted, derived and revoked in whatever order, no token  *)
(* of a revoked subject, session or device verifies.                       *)
RevokedStayOut ==
    \A h \in Handles :
        token[h] # NoToken /\ Verifies(h) => \A kind \in Kinds : <<kind, Named(h, kind)>> \notin revoked

(* A session is live while one of its tokens verifies.                     *)
Issued == {h \in Handles : token[h] # NoToken /\ token[h].session = h}

Live == {token[h].session : h \in {t \in active : Verifies(t)}}

Promise == INSTANCE BindingsPromise
               WITH Sessions <- Handles, live <- Live, issued <- Issued, consumed <- seen

(* The bindings keep BindingsPromise: an ended session does not come back, *)
(* and the nonces of a live one are not forgotten.                         *)
PromiseKept == Promise!Spec
=============================================================================
