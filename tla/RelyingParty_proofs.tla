------------------------- MODULE RelyingParty_proofs -------------------------
(***************************************************************************)
(* Theorems about what a relying party verifies and keeps.                 *)
(*   Lifetimes     for any lifetimes, skew, drift and number of assertions: *)
(*                 when a chain of tickets ends, and when an assertion may  *)
(*                 be accepted again;                                      *)
(*   Verification  for any token, any times and any skew: what is known of  *)
(*                 a token that is accepted.                               *)
(***************************************************************************)
EXTENDS MCRelyingParty, FiniteSetTheorems, TLAPS

Acceptance == [at : Int, iexp : Int]
Last ==
    [id : Ids, at : Int, before : Acceptance \cup {None}, purged : BOOLEAN, root : Int, cexp : Int]
Ticket == [tid : Ids, exp : Int]

\* TypeOK, with the variables that it leaves out.
Types ==
    /\ reauth \in BOOLEAN /\ ticketLifetime \in TicketLifetimes
    /\ renewLifetime \in RenewLifetimes /\ drift \in Drifts
    /\ now \in Start..MaxTime
    /\ issued \in Seq(Assertion) /\ Len(issued) <= MaxAssertions
    /\ cache \in [Ids -> Entry \cup {None}]
    /\ ticket \in Ticket \cup {None}
    /\ accepted \in [Ids -> Acceptance \cup {None}]
    /\ purged \in [Ids -> Nat]
    /\ last \in Last \cup {None}

\* Entries belong to assertions that exist, tickets to accepted ones; the last
\* acceptance is of one that exists.
Grounded ==
    /\ \A i \in Ids : cache[i] # None => i \in DOMAIN issued
    /\ \A i \in Ids : accepted[i] # None => i \in DOMAIN issued /\ accepted[i].at <= now
    /\ \A i \in Ids : purged[i] # 0 => i \in DOMAIN issued
    /\ ticket # None => accepted[ticket.tid] # None
    /\ last # None => last.id \in DOMAIN issued

\* An entry with a key expires within the limits of its chain of tickets, and
\* every entry knows the renewal limit of its chain.
ChainSound(e) ==
    /\ ticketLifetime = 0 => e.exp <= e.cexp
    /\ e.rexp = IF renewLifetime = 0 THEN 0 ELSE e.root + renewLifetime
    /\ e.ark /\ ticketLifetime # 0 =>
         e.exp <= IF renewLifetime = 0 THEN e.root + ticketLifetime
                  ELSE e.root + renewLifetime + Skew + ticketLifetime

ChainInv == \A i \in Ids : cache[i] # None => ChainSound(cache[i])

\* x is not before the identity of acceptance c expired, or the ticket it made.
IsLate(x, c) ==
    \/ x >= c.iexp
    \/ reauth /\ ticketLifetime # 0 /\ x >= c.at + ticketLifetime

\* An accepted assertion is guarded by its entry until it is late to accept it again.
LateInv ==
    \A i \in Ids : accepted[i] # None =>
        \/ purged[i] # 0
        \/ IsLate(now, accepted[i])
        \/ cache[i] # None /\ IsLate(cache[i].exp, accepted[i])

\* A certificate-signed assertion was made with one of the lifetimes, in the past.
IssuedInv ==
    \A i \in DOMAIN issued : ~IsReauth(issued[i]) =>
        \E life \in AssertionLives : issued[i].exp <= now + drift + life

\* Its entry has its expiry, and was purged no earlier.
PurgeInv ==
    \A i \in DOMAIN issued : ~IsReauth(issued[i]) =>
        /\ cache[i] # None => cache[i].aexp = issued[i].exp
        /\ purged[i] # 0 => purged[i] >= issued[i].exp

\* With tickets that outlive assertions the entry of an accepted assertion is a
\* ticket, which is there until the assertion is no longer valid.
OnceInv ==
    reauth /\ OutlivesAssertions =>
      \A i \in DOMAIN issued : ~IsReauth(issued[i]) /\ accepted[i] # None =>
        /\ issued[i].exp + Skew < accepted[i].at + ticketLifetime
        /\ \/ now >= accepted[i].at + ticketLifetime
           \/ /\ cache[i] # None /\ cache[i].ark
              /\ cache[i].exp >= accepted[i].at + ticketLifetime

LifetimesInv ==
    /\ Types /\ Grounded /\ ChainInv /\ LateInv /\ IssuedInv /\ PurgeInv /\ OnceInv
    /\ ReauthEnds /\ AcceptedAgainOnlyLate /\ AcceptedOnce

-----------------------------------------------------------------------------
LEMMA NoneApart ==
  /\ None \notin Entry
  /\ None \notin Acceptance
  /\ None \notin Last
  /\ None \notin Ticket
BY DEF None, Entry, Acceptance, Last, Ticket

LEMMA Constants ==
  /\ Skew \in Nat /\ Start \in Nat /\ MaxTime \in Nat /\ MaxAssertions \in Nat
  /\ Skew < Start /\ Start <= MaxTime
  /\ \A x \in TicketLifetimes \cup RenewLifetimes \cup AssertionLives \cup CertLives : x \in Nat
  /\ \A d \in Drifts : d \in Int
BY LifetimesAssumption

LEMMA InitInv ==
  ASSUME Init
  PROVE  LifetimesInv
<1>1. Types
  BY Constants DEF Init, Types
<1>2. Grounded /\ ChainInv /\ LateInv
  BY DEF Init, Grounded, ChainInv, LateInv
<1>3. DOMAIN issued = {}
  BY DEF Init
<1>4. IssuedInv /\ PurgeInv /\ OnceInv
  BY <1>3 DEF IssuedInv, PurgeInv, OnceInv
<1>5. ReauthEnds /\ AcceptedAgainOnlyLate /\ AcceptedOnce
  BY DEF Init, ReauthEnds, AcceptedAgainOnlyLate, AcceptedOnce
<1> QED
  BY <1>1, <1>2, <1>4, <1>5 DEF LifetimesInv

LEMMA InvTypes ==
  ASSUME LifetimesInv
  PROVE  TypeOK
BY NoneApart DEF LifetimesInv, Types, Grounded, TypeOK, Ticket, Ids

\* The types, at one assertion.
LEMMA Fields ==
  ASSUME Types
  PROVE  /\ ticketLifetime \in Nat /\ renewLifetime \in Nat /\ drift \in Int
         /\ now \in Nat /\ Skew \in Nat /\ now > Skew
         /\ DOMAIN issued = 1..Len(issued) /\ Len(issued) \in Nat /\ Len(issued) <= MaxAssertions
         /\ DOMAIN issued \subseteq Ids
         /\ \A i \in DOMAIN issued :
              /\ issued[i] \in Assertion /\ issued[i].exp \in Int /\ issued[i].cexp \in Int
              /\ IsReauth(issued[i]) => issued[i].tid \in Ids
         /\ \A i \in Ids : cache[i] # None =>
              /\ cache[i] \in Entry /\ cache[i].exp \in Int /\ cache[i].aexp \in Int
              /\ cache[i].rexp \in Int /\ cache[i].root \in Int /\ cache[i].cexp \in Int
         /\ \A i \in Ids : accepted[i] # None =>
              accepted[i] \in Acceptance /\ accepted[i].at \in Int /\ accepted[i].iexp \in Int
         /\ \A i \in Ids : purged[i] \in Nat
         /\ last # None =>
              /\ last \in Last /\ last.at \in Int /\ last.root \in Int /\ last.cexp \in Int
              /\ last.id \in Ids
              /\ last.before # None =>
                   last.before \in Acceptance /\ last.before.at \in Int /\ last.before.iexp \in Int
<1>1. /\ ticketLifetime \in Nat /\ renewLifetime \in Nat /\ drift \in Int
      /\ now \in Nat /\ Skew \in Nat /\ now > Skew
  BY Constants DEF Types
<1>2. /\ DOMAIN issued = 1..Len(issued) /\ Len(issued) \in Nat /\ Len(issued) <= MaxAssertions
      /\ DOMAIN issued \subseteq Ids
  BY Constants DEF Types, Ids
<1>3. \A i \in DOMAIN issued :
              /\ issued[i] \in Assertion /\ issued[i].exp \in Int /\ issued[i].cexp \in Int
              /\ IsReauth(issued[i]) => issued[i].tid \in Ids
  <2>1. \A i \in DOMAIN issued : issued[i] \in Assertion
    BY <1>2 DEF Types
  <2>2. \A a \in Assertion : a.exp \in Int /\ a.cexp \in Int /\ (IsReauth(a) => a.tid \in Ids)
    BY DEF Assertion, IsReauth
  <2> QED
    BY <2>1, <2>2
<1>4. \A i \in Ids : cache[i] # None =>
              /\ cache[i] \in Entry /\ cache[i].exp \in Int /\ cache[i].aexp \in Int
              /\ cache[i].rexp \in Int /\ cache[i].root \in Int /\ cache[i].cexp \in Int
  BY DEF Types, Entry
<1>5. \A i \in Ids : accepted[i] # None =>
              accepted[i] \in Acceptance /\ accepted[i].at \in Int /\ accepted[i].iexp \in Int
  BY DEF Types, Acceptance
<1>6. last # None =>
              /\ last \in Last /\ last.at \in Int /\ last.root \in Int /\ last.cexp \in Int
              /\ last.id \in Ids
              /\ last.before # None =>
                   last.before \in Acceptance /\ last.before.at \in Int /\ last.before.iexp \in Int
  BY DEF Types, Last, Acceptance
<1> QED
  BY <1>1, <1>2, <1>3, <1>4, <1>5, <1>6 DEF Types

LEMMA TickPreserves ==
  ASSUME LifetimesInv, Tick
  PROVE  LifetimesInv'
<1> USE DEF LifetimesInv
<1>1. now' = now + 1 /\ now' \in Start..MaxTime
  BY Constants DEF Tick, Types
<1>2. UNCHANGED <<config, issued, cache, ticket, accepted, purged, last>>
  BY DEF Tick
<1>3. Types'
  BY <1>1, <1>2 DEF Types, config
<1>4. Grounded' /\ ChainInv'
  BY <1>1, <1>2, Fields DEF Grounded, ChainInv, ChainSound, config
<1>5. LateInv'
  <2>1. ASSUME NEW i \in Ids, accepted[i] # None, IsLate(now, accepted[i])
        PROVE  IsLate(now + 1, accepted[i])
    BY <2>1, Fields DEF IsLate
  <2> QED
    BY <1>1, <1>2, <2>1 DEF LateInv, IsLate, config
<1>6. IssuedInv'
  <2>1. ASSUME NEW i \in DOMAIN issued, ~IsReauth(issued[i])
        PROVE  \E life \in AssertionLives : issued[i].exp <= now + 1 + drift + life
    <3>1. PICK life \in AssertionLives : issued[i].exp <= now + drift + life
      BY <2>1 DEF IssuedInv
    <3>2. issued[i].exp <= now + 1 + drift + life
      BY <3>1, Constants, Fields
    <3> QED
      BY <3>2
  <2> QED
    BY <1>1, <1>2, <2>1 DEF IssuedInv, IsReauth, config
<1>7. PurgeInv'
  BY <1>2 DEF PurgeInv, IsReauth
<1>8. OnceInv'
  <2>1. ASSUME NEW i \in DOMAIN issued, accepted[i] # None, now >= accepted[i].at + ticketLifetime
        PROVE  now + 1 >= accepted[i].at + ticketLifetime
    BY <2>1, Fields
  <2>2. /\ reauth' = reauth /\ ticketLifetime' = ticketLifetime /\ drift' = drift
        /\ issued' = issued /\ cache' = cache /\ accepted' = accepted
    BY <1>2 DEF config
  <2>3. OutlivesAssertions' = OutlivesAssertions
    BY <2>2 DEF OutlivesAssertions
  <2>4. SUFFICES ASSUME reauth, OutlivesAssertions,
                        NEW i \in DOMAIN issued, ~IsReauth(issued[i]), accepted[i] # None
                 PROVE  /\ issued[i].exp + Skew < accepted[i].at + ticketLifetime
                        /\ \/ now + 1 >= accepted[i].at + ticketLifetime
                           \/ /\ cache[i] # None /\ cache[i].ark
                              /\ cache[i].exp >= accepted[i].at + ticketLifetime
    BY <1>1, <2>2, <2>3 DEF OnceInv
  <2>5. /\ issued[i].exp + Skew < accepted[i].at + ticketLifetime
        /\ \/ now >= accepted[i].at + ticketLifetime
           \/ /\ cache[i] # None /\ cache[i].ark
              /\ cache[i].exp >= accepted[i].at + ticketLifetime
    BY <2>4 DEF OnceInv
  <2> QED
    BY <2>1, <2>4, <2>5
<1>9. (ReauthEnds /\ AcceptedAgainOnlyLate /\ AcceptedOnce)'
  BY <1>2 DEF ReauthEnds, AcceptedAgainOnlyLate, AcceptedOnce, OutlivesAssertions, IsReauth, config
<1> QED
  BY <1>3, <1>4, <1>5, <1>6, <1>7, <1>8, <1>9

\* A new assertion has no entry yet; the others are as before.
LEMMA IssuesPreserves ==
  ASSUME LifetimesInv, NEW exp \in Int, NEW cexp \in Int,
         NEW tid \in {NoTicket} \cup Ids, Issues(exp, cexp, tid),
         tid = NoTicket => \E life \in AssertionLives : exp <= now + drift + life
  PROVE  LifetimesInv'
<1> USE DEF LifetimesInv
<1> DEFINE a == [exp |-> exp, cexp |-> cexp, tid |-> tid]
<1> DEFINE n == Len(issued) + 1
<1>1. a \in Assertion /\ a.exp = exp /\ a.tid = tid
  BY DEF Assertion
<1>2. issued' = Append(issued, a) /\ Len(issued) < MaxAssertions
  BY DEF Issues
<1>3. UNCHANGED <<config, now, cache, ticket, accepted, purged, last>>
  BY DEF Issues
<1> HIDE DEF a
<1>4. issued \in Seq(Assertion) /\ Len(issued) \in Nat
  BY DEF Types
<1>5. issued' \in Seq(Assertion) /\ Len(issued') = n
  BY <1>1, <1>2, <1>4
<1>6. /\ \A i \in DOMAIN issued : i \in DOMAIN issued' /\ issued'[i] = issued[i]
      /\ issued'[n] = a
      /\ \A i \in DOMAIN issued' : i \in DOMAIN issued \/ i = n
      /\ n \notin DOMAIN issued
  BY <1>2, <1>4, <1>5
<1>7. n \in Ids
  BY <1>2, <1>4, Constants DEF Ids
<1>8. cache[n] = None /\ accepted[n] = None /\ purged[n] = 0
  BY <1>6, <1>7 DEF Grounded
<1> HIDE DEF n
<1>9. Types'
  <2>1. Len(issued') <= MaxAssertions
    BY <1>5, <1>7, Constants DEF Ids
  <2> QED
    BY <1>3, <1>5, <2>1 DEF Types, config
<1>10. Grounded' /\ ChainInv' /\ LateInv'
  BY <1>3, <1>6 DEF Grounded, ChainInv, ChainSound, LateInv, IsLate, config
<1>11. IssuedInv'
  BY <1>1, <1>3, <1>6 DEF IssuedInv, IsReauth, config
<1>12. PurgeInv' /\ OnceInv'
  BY <1>3, <1>6, <1>8 DEF PurgeInv, OnceInv, OutlivesAssertions, IsReauth, config
<1>13. (ReauthEnds /\ AcceptedAgainOnlyLate /\ AcceptedOnce)'
  BY <1>3, <1>6 DEF ReauthEnds, AcceptedAgainOnlyLate, AcceptedOnce, OutlivesAssertions, IsReauth,
                    config, Grounded
<1> QED
  BY <1>9, <1>10, <1>11, <1>12, <1>13

LEMMA AcquirePreserves ==
  ASSUME LifetimesInv, AcquireAssertion
  PROVE  LifetimesInv'
<1>1. PICK life \in AssertionLives, cert \in CertLives :
        Issues(now + drift + life, now + drift + cert, NoTicket)
  BY DEF AcquireAssertion
<1>2. now + drift + life \in Int /\ now + drift + cert \in Int
  BY Constants, Fields DEF LifetimesInv
<1>3. now + drift + life <= now + drift + life
  BY <1>2
<1> QED
  BY <1>1, <1>2, <1>3, IssuesPreserves

LEMMA AuthenticatorPreserves ==
  ASSUME LifetimesInv, MakeAuthenticator
  PROVE  LifetimesInv'
<1>1. ticket.tid \in Ids /\ ticket.tid # NoTicket
  BY DEF MakeAuthenticator, LifetimesInv, Types, Ticket, NoTicket, Ids
<1>2. now + drift + Skew \in Int /\ 0 \in Int
  BY Constants, Fields DEF LifetimesInv
<1> QED
  BY <1>1, <1>2, IssuesPreserves DEF MakeAuthenticator

LEMMA PurgeTicketPreserves ==
  ASSUME LifetimesInv, PurgeTicketCache
  PROVE  LifetimesInv'
<1> USE DEF LifetimesInv
<1>1. ticket' = None /\ UNCHANGED <<config, now, issued, cache, accepted, purged, last>>
  BY DEF PurgeTicketCache
<1>2. Types' /\ Grounded'
  BY <1>1 DEF Types, Grounded, config
<1>3. ChainInv' /\ LateInv' /\ IssuedInv' /\ PurgeInv' /\ OnceInv'
  BY <1>1 DEF ChainInv, ChainSound, LateInv, IsLate, IssuedInv, PurgeInv, OnceInv, OutlivesAssertions,
              IsReauth, config
<1>4. (ReauthEnds /\ AcceptedAgainOnlyLate /\ AcceptedOnce)'
  BY <1>1 DEF ReauthEnds, AcceptedAgainOnlyLate, AcceptedOnce, OutlivesAssertions, IsReauth, config
<1> QED
  BY <1>2, <1>3, <1>4

LEMMA PurgeReplayPreserves ==
  ASSUME LifetimesInv, PurgeReplayCache
  PROVE  LifetimesInv'
<1> USE DEF LifetimesInv
<1> DEFINE Gone(i) == cache[i] # None /\ ShouldPurge(cache[i])
<1>1. UNCHANGED <<config, now, issued, ticket, accepted, last>>
  BY DEF PurgeReplayCache
<1>2. /\ cache' = [i \in Ids |-> IF Gone(i) THEN None ELSE cache[i]]
      /\ purged' = [i \in Ids |-> IF Gone(i) /\ ~cache[i].ark THEN now ELSE purged[i]]
  BY DEF PurgeReplayCache
<1>3. \A i \in Ids : Gone(i) =>
        /\ cache[i] # None
        /\ cache[i].ark => now >= cache[i].exp
        /\ ~cache[i].ark => now >= cache[i].aexp
  BY DEF ShouldPurge
<1> HIDE DEF Gone
<1>4. \A i \in Ids :
        /\ cache'[i] = None \/ cache'[i] = cache[i]
        /\ Gone(i) => cache'[i] = None
        /\ ~Gone(i) => cache'[i] = cache[i]
        /\ Gone(i) /\ ~cache[i].ark => purged'[i] = now
        /\ ~(Gone(i) /\ ~cache[i].ark) => purged'[i] = purged[i]
  BY <1>2
<1>5. Types'
  <2>1. now \in Nat
    BY Fields
  <2>2. cache' \in [Ids -> Entry \cup {None}]
    BY <1>2 DEF Types
  <2>3. purged' \in [Ids -> Nat]
    BY <1>2, <2>1 DEF Types
  <2> QED
    BY <1>1, <2>2, <2>3 DEF Types, config
<1>6. Grounded'
  BY <1>1, <1>3, <1>4 DEF Grounded
<1>7. ChainInv'
  BY <1>1, <1>4 DEF ChainInv, ChainSound, config
<1>8. LateInv'
  <2>1. ASSUME NEW i \in Ids, accepted[i] # None
        PROVE  \/ purged'[i] # 0
               \/ IsLate(now, accepted[i])
               \/ cache'[i] # None /\ IsLate(cache'[i].exp, accepted[i])
    <3>1. CASE ~Gone(i)
      BY <1>4, <2>1, <3>1 DEF LateInv
    <3>2. CASE Gone(i) /\ ~cache[i].ark
      BY <1>4, <3>2, Fields
    <3>3. CASE Gone(i) /\ cache[i].ark
      <4>1. now >= cache[i].exp /\ cache[i] # None /\ cache[i].exp \in Int /\ purged'[i] = purged[i]
        BY <1>3, <1>4, <3>3, Fields
      <4>2. IsLate(cache[i].exp, accepted[i]) => IsLate(now, accepted[i])
        BY <2>1, <4>1, Fields, SMTT(30) DEF IsLate
      <4> QED
        BY <2>1, <4>1, <4>2 DEF LateInv
    <3> QED
      BY <3>1, <3>2, <3>3
  <2> QED
    BY <1>1, <2>1 DEF LateInv, IsLate, config
<1>9. IssuedInv'
  BY <1>1 DEF IssuedInv, IsReauth, config
<1>10. PurgeInv'
  BY <1>1, <1>3, <1>4, Fields DEF PurgeInv, IsReauth
<1>11. OnceInv'
  <2>1. ASSUME reauth, OutlivesAssertions, NEW i \in DOMAIN issued, ~IsReauth(issued[i]), accepted[i] # None
        PROVE  /\ issued[i].exp + Skew < accepted[i].at + ticketLifetime
               /\ \/ now >= accepted[i].at + ticketLifetime
                  \/ /\ cache'[i] # None /\ cache'[i].ark
                     /\ cache'[i].exp >= accepted[i].at + ticketLifetime
    <3>1. i \in Ids
      BY Fields
    <3>2. CASE ~Gone(i)
      BY <1>4, <2>1, <3>1, <3>2 DEF OnceInv
    <3>3. CASE Gone(i)
      <4>1. /\ issued[i].exp + Skew < accepted[i].at + ticketLifetime
            /\ \/ now >= accepted[i].at + ticketLifetime
               \/ /\ cache[i] # None /\ cache[i].ark
                  /\ cache[i].exp >= accepted[i].at + ticketLifetime
        BY <2>1 DEF OnceInv
      <4>2. cache[i] # None /\ cache[i].exp \in Int /\ (cache[i].ark => now >= cache[i].exp)
        BY <1>3, <3>1, <3>3, Fields
      <4>3. now \in Int /\ ticketLifetime \in Int /\ accepted[i].at \in Int
        BY <2>1, <3>1, Fields
      <4> QED
        BY <4>1, <4>2, <4>3
    <3> QED
      BY <3>2, <3>3
  <2> QED
    BY <1>1, <2>1 DEF OnceInv, OutlivesAssertions, IsReauth, config
<1>12. (ReauthEnds /\ AcceptedAgainOnlyLate /\ AcceptedOnce)'
  BY <1>1 DEF ReauthEnds, AcceptedAgainOnlyLate, AcceptedOnce, OutlivesAssertions, IsReauth, config
<1> QED
  BY <1>5, <1>6, <1>7, <1>8, <1>9, <1>10, <1>11, <1>12

\* The entry that a verification writes.
LEMMA Updated ==
  ASSUME LifetimesInv, NEW i \in DOMAIN issued, Verifies(issued[i])
  PROVE  LET a == issued[i]
             e == UpdatedEntry(a)
         IN  /\ e \in Entry
             /\ e.exp \in Int /\ e.root \in Int /\ e.cexp \in Int
             /\ e.exp = IF StoresReauthCreds(a) /\ ticketLifetime # 0 THEN now + ticketLifetime
                       ELSE IdentityExpiry(a)
             /\ ~IsReauth(a) => e.aexp = a.exp /\ e.root = now /\ e.cexp = a.cexp
             /\ IsReauth(a) => /\ a.tid \in Ids /\ cache[a.tid] # None /\ cache[a.tid].ark
                               /\ e.root = cache[a.tid].root /\ e.cexp = cache[a.tid].cexp
             /\ e.rexp = RenewExpiry(a)
             /\ e.ark <=> StoresReauthCreds(a)
             /\ IdentityExpiry(a) \in Int
<1> USE DEF LifetimesInv
<1> DEFINE a == issued[i]
           e == UpdatedEntry(a)
<1>1. a \in Assertion /\ a.exp \in Int /\ a.cexp \in Int
  BY Fields
<1>2. IsReauth(a) => /\ a.tid \in Ids /\ cache[a.tid] # None /\ cache[a.tid].ark
                     /\ cache[a.tid].exp \in Int /\ cache[a.tid].aexp \in Int
                     /\ cache[a.tid].rexp \in Int /\ cache[a.tid].root \in Int
                     /\ cache[a.tid].cexp \in Int
  BY Fields DEF Verifies
<1> HIDE DEF a
<1>3. IdentityExpiry(a) \in Int /\ RenewExpiry(a) \in Int
  BY <1>1, <1>2, Fields DEF IdentityExpiry, RenewExpiry
<1>4. /\ e.exp = IF StoresReauthCreds(a) /\ ticketLifetime # 0 THEN now + ticketLifetime
                  ELSE IdentityExpiry(a)
      /\ e.aexp = IF IsReauth(a) THEN cache[a.tid].aexp ELSE a.exp
      /\ e.rexp = RenewExpiry(a)
      /\ e.ark <=> StoresReauthCreds(a)
      /\ e.root = IF IsReauth(a) THEN cache[a.tid].root ELSE now
      /\ e.cexp = IF IsReauth(a) THEN cache[a.tid].cexp ELSE a.cexp
  BY DEF UpdatedEntry
<1>5. e.exp \in Int /\ e.aexp \in Int /\ e.rexp \in Int /\ e.root \in Int /\ e.cexp \in Int
  BY <1>1, <1>2, <1>3, <1>4, Fields
<1>6. e \in Entry
  <2>1. PICK x \in Int, y \in Int, z \in Int, u \in Int, v \in Int, b \in BOOLEAN :
          e = [exp |-> x, aexp |-> y, rexp |-> z, ark |-> b, root |-> u, cexp |-> v]
    <3>1. StoresReauthCreds(a) \in BOOLEAN
      BY DEF StoresReauthCreds
    <3> QED
      BY <1>4, <1>5, <3>1, ZenonT(60) DEF UpdatedEntry
  <2> QED
    BY <2>1 DEF Entry
<1> QED
  BY <1>1, <1>2, <1>3, <1>4, <1>5, <1>6, Zenon DEF a

\* What the limits of a chain say of the entry written.
LEMMA UpdatedChain ==
  ASSUME LifetimesInv, NEW i \in DOMAIN issued, Verifies(issued[i])
  PROVE  ChainSound(UpdatedEntry(issued[i]))
<1> USE DEF LifetimesInv
<1> DEFINE a == issued[i]
           e == UpdatedEntry(a)
           t == cache[a.tid]
<1>1. /\ e.exp \in Int /\ e.root \in Int /\ e.cexp \in Int
      /\ e.exp = IF StoresReauthCreds(a) /\ ticketLifetime # 0 THEN now + ticketLifetime
                ELSE IdentityExpiry(a)
      /\ ~IsReauth(a) => e.root = now /\ e.cexp = a.cexp
      /\ IsReauth(a) => /\ a.tid \in Ids /\ t # None /\ t.ark /\ e.root = t.root /\ e.cexp = t.cexp
      /\ e.rexp = RenewExpiry(a)
      /\ e.ark <=> StoresReauthCreds(a)
  BY Updated
<1>2. /\ ticketLifetime \in Nat /\ renewLifetime \in Nat /\ now \in Nat /\ Skew \in Nat /\ now > Skew
      /\ a.cexp \in Int
  BY Fields
<1>3. IsReauth(a) => /\ t.exp \in Int /\ t.rexp \in Int /\ t.root \in Int /\ t.cexp \in Int
                     /\ ChainSound(t)
  BY <1>1, Fields DEF ChainInv
<1>4. ticketLifetime = 0 => e.exp <= e.cexp
  BY <1>1, <1>2, <1>3 DEF IdentityExpiry, ChainSound
<1>5. e.rexp = IF renewLifetime = 0 THEN 0 ELSE e.root + renewLifetime
  BY <1>1, <1>2, <1>3 DEF RenewExpiry, ChainSound
<1>6. ASSUME e.ark, ticketLifetime # 0
      PROVE  e.exp <= IF renewLifetime = 0 THEN e.root + ticketLifetime
                      ELSE e.root + renewLifetime + Skew + ticketLifetime
  <2>1. StoresReauthCreds(a) /\ e.exp = now + ticketLifetime
    BY <1>1, <1>6
  <2>2. CASE ~IsReauth(a)
    BY <1>1, <1>2, <2>1, <2>2
  <2>3. CASE IsReauth(a)
    <3>1. now - t.rexp <= Skew
      BY <2>1, <2>3 DEF StoresReauthCreds
    <3>2. renewLifetime # 0 /\ t.rexp = t.root + renewLifetime
      BY <1>2, <1>3, <2>3, <3>1 DEF ChainSound
    <3> QED
      BY <1>1, <1>2, <1>3, <2>1, <2>3, <3>1, <3>2
  <2> QED
    BY <2>2, <2>3
<1> QED
  BY <1>4, <1>5, <1>6 DEF ChainSound

\* An acceptance keeps to those limits.
LEMMA ReadyInTime ==
  ASSUME LifetimesInv, NEW i \in DOMAIN issued, Verifies(issued[i]),
         ContextReady(issued[i])
  PROVE  now <= IF ticketLifetime = 0 THEN UpdatedEntry(issued[i]).cexp
                ELSE IF ~IsReauth(issued[i]) THEN UpdatedEntry(issued[i]).root
                ELSE IF renewLifetime = 0 THEN UpdatedEntry(issued[i]).root + ticketLifetime
                ELSE UpdatedEntry(issued[i]).root + renewLifetime + Skew + ticketLifetime
<1> USE DEF LifetimesInv
<1> DEFINE a == issued[i]
           e == UpdatedEntry(a)
           t == cache[a.tid]
<1>1. /\ ~IsReauth(a) => e.root = now /\ e.cexp = a.cexp
      /\ IsReauth(a) => /\ a.tid \in Ids /\ t # None /\ t.ark /\ e.root = t.root /\ e.cexp = t.cexp
      /\ e.root \in Int /\ e.cexp \in Int
  BY Updated
<1>2. /\ ticketLifetime \in Nat /\ renewLifetime \in Nat /\ now \in Nat /\ Skew \in Nat
      /\ a.cexp \in Int
  BY Fields
<1>3. IsReauth(a) => t.exp \in Int /\ ChainSound(t) /\ now <= t.exp
  BY <1>1, <1>2, Fields DEF ChainInv, ContextReady, IdentityExpiry
<1>4. ~IsReauth(a) => now <= a.cexp
  BY <1>2 DEF ContextReady, IdentityExpiry
<1> HIDE DEF a, e, t
<1>5. now <= IF ticketLifetime = 0 THEN e.cexp
             ELSE IF ~IsReauth(a) THEN e.root
             ELSE IF renewLifetime = 0 THEN e.root + ticketLifetime
             ELSE e.root + renewLifetime + Skew + ticketLifetime
  BY <1>1, <1>2, <1>3, <1>4 DEF ChainSound
<1> QED
  BY <1>5 DEF a, e

\* What _BIDCheckReplayCache lets through a second time.
LEMMA PassedAgainIsLate ==
  ASSUME LifetimesInv, NEW i \in DOMAIN issued, ~Replayed(i), accepted[i] # None
  PROVE  purged[i] # 0 \/ IsLate(now, accepted[i])
<1> USE DEF LifetimesInv
<1>1. i \in Ids /\ now \in Nat /\ ticketLifetime \in Nat
  BY Fields
<1>2. accepted[i].at \in Int /\ accepted[i].iexp \in Int
  BY <1>1, Fields
<1>3. cache[i] # None => cache[i].exp \in Int /\ now >= cache[i].exp
  BY <1>1, Fields DEF Replayed
<1>4. cache[i] # None /\ IsLate(cache[i].exp, accepted[i]) => IsLate(now, accepted[i])
  BY <1>1, <1>2, <1>3 DEF IsLate
<1> QED
  BY <1>1, <1>4 DEF LateInv

\* With tickets that outlive assertions it lets none through that is still valid.
LEMMA NeverAgain ==
  ASSUME LifetimesInv, NEW i \in DOMAIN issued, Verifies(issued[i]), ~Replayed(i),
         reauth, OutlivesAssertions, ~IsReauth(issued[i])
  PROVE  accepted[i] = None
<1> USE DEF LifetimesInv
<1>1. SUFFICES ASSUME accepted[i] # None
               PROVE  FALSE
  OBVIOUS
<1>2. i \in Ids /\ now \in Nat /\ ticketLifetime \in Nat /\ Skew \in Nat /\ issued[i].exp \in Int
  BY Fields
<1>3. accepted[i].at \in Int
  BY <1>1, <1>2, Fields
<1>4. now <= issued[i].exp + Skew
  BY <1>2 DEF Verifies, Expired
<1>5. /\ issued[i].exp + Skew < accepted[i].at + ticketLifetime
      /\ \/ now >= accepted[i].at + ticketLifetime
         \/ cache[i] # None /\ cache[i].exp >= accepted[i].at + ticketLifetime
  BY <1>1 DEF OnceInv
<1>6. cache[i] # None => cache[i].exp \in Int /\ now >= cache[i].exp
  BY <1>2, Fields DEF Replayed
<1> QED
  BY <1>2, <1>3, <1>4, <1>5, <1>6

\* The first acceptance makes a ticket that outlives the assertion.
LEMMA FirstOutlives ==
  ASSUME LifetimesInv, NEW i \in DOMAIN issued, Verifies(issued[i]),
         reauth, OutlivesAssertions, ~IsReauth(issued[i])
  PROVE  /\ issued[i].exp + Skew < now + ticketLifetime
         /\ UpdatedEntry(issued[i]).ark
         /\ UpdatedEntry(issued[i]).exp = now + ticketLifetime
<1> USE DEF LifetimesInv
<1>1. PICK life \in AssertionLives : issued[i].exp <= now + drift + life
  BY DEF IssuedInv
<1>2. ticketLifetime # 0 /\ ticketLifetime > life + drift + Skew
  BY DEF OutlivesAssertions, Types
<1>3. life \in Nat /\ drift \in Int /\ now \in Nat /\ Skew \in Nat /\ ticketLifetime \in Nat
      /\ issued[i].exp \in Int
  BY Constants, Fields
<1>4. StoresReauthCreds(issued[i])
  BY DEF StoresReauthCreds
<1>5. UpdatedEntry(issued[i]).ark /\ UpdatedEntry(issued[i]).exp = now + ticketLifetime
  BY <1>2, <1>4, Updated
<1> QED
  BY <1>1, <1>2, <1>3, <1>5

LEMMA VerifyPreserves ==
  ASSUME LifetimesInv, NEW i \in DOMAIN issued, VerifyAssertion(i)
  PROVE  LifetimesInv'
<1> USE DEF LifetimesInv
<1> DEFINE a == issued[i]
           e == UpdatedEntry(a)
           c == [at |-> now, iexp |-> IdentityExpiry(a)]
           l == [id |-> i, at |-> now, before |-> accepted[i], purged |-> purged[i] # 0,
                 root |-> e.root, cexp |-> e.cexp]
           k == [tid |-> i, exp |-> e.exp]
           Ready == ContextReady(a)
<1>1. Verifies(a) /\ ~Replayed(i)
  BY DEF VerifyAssertion
<1>2. UNCHANGED <<config, now, issued, purged>>
  BY DEF VerifyAssertion
<1>3. cache' = [cache EXCEPT ![i] = e]
  BY DEF VerifyAssertion
<1>4. /\ Ready => accepted' = [accepted EXCEPT ![i] = c] /\ last' = l
      /\ ~Ready => accepted' = accepted /\ last' = last
  BY DEF VerifyAssertion
<1>5. ticket' = ticket \/ (Ready /\ ticket' = k)
  BY DEF VerifyAssertion, TicketAfter
<1>6. /\ e \in Entry /\ e.exp \in Int /\ e.root \in Int /\ e.cexp \in Int
      /\ e.exp = IF StoresReauthCreds(a) /\ ticketLifetime # 0 THEN now + ticketLifetime
                ELSE IdentityExpiry(a)
      /\ ~IsReauth(a) => e.aexp = a.exp
      /\ IdentityExpiry(a) \in Int
  BY <1>1, Updated
<1>7. i \in Ids /\ now \in Nat /\ ticketLifetime \in Nat
  BY Fields
<1>8. ChainSound(e)
  BY <1>1, UpdatedChain
<1>9. Ready => now <= IF ticketLifetime = 0 THEN e.cexp
                      ELSE IF ~IsReauth(a) THEN e.root
                      ELSE IF renewLifetime = 0 THEN e.root + ticketLifetime
                      ELSE e.root + renewLifetime + Skew + ticketLifetime
  BY <1>1, ReadyInTime
<1>10. accepted[i] # None => purged[i] # 0 \/ IsLate(now, accepted[i])
  BY <1>1, PassedAgainIsLate
<1>11. reauth /\ OutlivesAssertions /\ ~IsReauth(a) =>
         /\ accepted[i] = None
         /\ a.exp + Skew < now + ticketLifetime
         /\ e.ark /\ e.exp = now + ticketLifetime
  BY <1>1, NeverAgain, FirstOutlives
<1>12. c \in Acceptance /\ c.at = now /\ c.iexp = IdentityExpiry(a)
  BY <1>6, <1>7 DEF Acceptance
<1>13. k \in Ticket /\ k.tid = i
  BY <1>6, <1>7 DEF Ticket
<1>14. /\ l.id = i /\ l.at = now /\ l.before = accepted[i] /\ (l.purged <=> purged[i] # 0)
       /\ l.root = e.root /\ l.cexp = e.cexp
  OBVIOUS
<1>15. l \in Last
  <2>1. accepted[i] \in Acceptance \cup {None}
    BY <1>7 DEF Types
  <2>2. PICK b \in BOOLEAN : b = (purged[i] # 0)
    OBVIOUS
  <2>3. l = [id |-> i, at |-> now, before |-> accepted[i], purged |-> b, root |-> e.root, cexp |-> e.cexp]
    BY <2>2, Zenon
  <2>4. \A x \in BOOLEAN, y \in Acceptance \cup {None}, u \in Int, v \in Int :
          [id |-> i, at |-> now, before |-> y, purged |-> x, root |-> u, cexp |-> v] \in Last
    BY <1>7 DEF Last
  <2> QED
    BY <1>6, <2>1, <2>2, <2>3, <2>4, Zenon
<1>16. cache \in [Ids -> Entry \cup {None}] /\ accepted \in [Ids -> Acceptance \cup {None}]
  BY DEF Types
<1> HIDE DEF c, l, k, e
<1>17. cache'[i] = e /\ \A j \in Ids : j # i => cache'[j] = cache[j]
  BY <1>3, <1>7, <1>16
<1>18. /\ Ready => accepted'[i] = c
       /\ ~Ready => accepted'[i] = accepted[i]
       /\ \A j \in Ids : j # i => accepted'[j] = accepted[j]
  BY <1>4, <1>7, <1>16
<1> HIDE DEF Ready
<1>19. Types'
  <2>1. cache' \in [Ids -> Entry \cup {None}]
    BY <1>3, <1>6, <1>16
  <2>2. accepted' \in [Ids -> Acceptance \cup {None}]
    BY <1>4, <1>12, <1>16
  <2>3. ticket' \in Ticket \cup {None} /\ last' \in Last \cup {None}
    BY <1>4, <1>5, <1>13, <1>15 DEF Types
  <2> QED
    BY <1>2, <2>1, <2>2, <2>3 DEF Types, config
<1>20. Grounded'
  <2>1. c # None
    BY <1>12, NoneApart
  <2>2. \A j \in Ids : cache'[j] # None => j \in DOMAIN issued'
    BY <1>2, <1>17 DEF Grounded
  <2>3. \A j \in Ids : accepted'[j] # None => j \in DOMAIN issued' /\ accepted'[j].at <= now'
    <3>1. accepted'[i] # None => accepted'[i].at <= now
      BY <1>7, <1>12, <1>18 DEF Grounded
    <3> QED
      BY <1>2, <1>18, <3>1 DEF Grounded
  <2>4. \A j \in Ids : accepted[j] # None => accepted'[j] # None
    BY <1>18, <2>1
  <2>5. ticket' # None => accepted'[ticket'.tid] # None
    <3>1. CASE ticket' = ticket
      BY <2>4, <3>1 DEF Grounded, Types, Ticket
    <3>2. CASE Ready /\ ticket' = k
      BY <1>13, <1>18, <2>1, <3>2
    <3> QED
      BY <1>5, <3>1, <3>2
  <2>6. last' # None => last'.id \in DOMAIN issued'
    BY <1>2, <1>4, <1>14 DEF Grounded
  <2> QED
    BY <1>2, <2>2, <2>3, <2>5, <2>6 DEF Grounded
<1>21. ChainInv'
  BY <1>2, <1>8, <1>17 DEF ChainInv, ChainSound, config
<1>22. LateInv'
  <2>1. e # None
    BY <1>6, NoneApart
  <2>2. Ready => IsLate(e.exp, c)
    BY <1>6, <1>7, <1>12 DEF IsLate, StoresReauthCreds
  <2>3. accepted'[i] # None => \/ purged[i] # 0
                               \/ IsLate(now, accepted'[i])
                               \/ cache'[i] # None /\ IsLate(cache'[i].exp, accepted'[i])
    BY <1>10, <1>17, <1>18, <2>1, <2>2
  <2>4. \A j \in Ids : accepted'[j] # None => \/ purged[j] # 0
                                              \/ IsLate(now, accepted'[j])
                                              \/ cache'[j] # None /\ IsLate(cache'[j].exp, accepted'[j])
    BY <1>17, <1>18, <2>3 DEF LateInv
  <2> QED
    BY <1>2, <2>4 DEF LateInv, IsLate, config
<1>23. IssuedInv'
  BY <1>2 DEF IssuedInv, IsReauth, config
<1>24. PurgeInv'
  BY <1>2, <1>6, <1>17, Fields DEF PurgeInv, IsReauth
<1>25. OnceInv'
  <2>1. ASSUME reauth, OutlivesAssertions, NEW j \in DOMAIN issued, ~IsReauth(issued[j]), accepted'[j] # None
        PROVE  /\ issued[j].exp + Skew < accepted'[j].at + ticketLifetime
               /\ \/ now >= accepted'[j].at + ticketLifetime
                  \/ /\ cache'[j] # None /\ cache'[j].ark
                     /\ cache'[j].exp >= accepted'[j].at + ticketLifetime
    <3>1. CASE j = i
      <4>1. accepted'[i] = c /\ cache'[i] = e /\ e # None
        BY <1>6, <1>11, <1>17, <1>18, <2>1, <3>1, NoneApart
      <4> QED
        BY <1>7, <1>11, <1>12, <2>1, <3>1, <4>1
    <3>2. CASE j # i
      <4>1. j \in Ids
        BY Fields
      <4> QED
        BY <1>17, <1>18, <2>1, <3>2, <4>1 DEF OnceInv
    <3> QED
      BY <3>1, <3>2
  <2> QED
    BY <1>2, <2>1 DEF OnceInv, OutlivesAssertions, IsReauth, config
<1>26. ReauthEnds'
  BY <1>2, <1>4, <1>9, <1>14 DEF ReauthEnds, IsReauth, config
<1>27. AcceptedAgainOnlyLate'
  BY <1>2, <1>4, <1>10, <1>14 DEF AcceptedAgainOnlyLate, IsLate, config
<1>28. AcceptedOnce'
  BY <1>2, <1>4, <1>11, <1>14 DEF AcceptedOnce, OutlivesAssertions, IsReauth, config
<1> QED
  BY <1>19, <1>20, <1>21, <1>22, <1>23, <1>24, <1>25, <1>26, <1>27, <1>28

LEMMA NextInv ==
  ASSUME LifetimesInv, [Next]_vars
  PROVE  LifetimesInv'
<1>1. CASE Tick
  BY <1>1, TickPreserves
<1>2. CASE AcquireAssertion \/ MakeAuthenticator
  BY <1>2, AcquirePreserves, AuthenticatorPreserves
<1>3. CASE \E i \in DOMAIN issued : VerifyAssertion(i)
  BY <1>3, VerifyPreserves
<1>4. CASE PurgeReplayCache \/ PurgeTicketCache
  BY <1>4, PurgeReplayPreserves, PurgeTicketPreserves
<1>5. CASE UNCHANGED vars
  <2> USE <1>5 DEF LifetimesInv, vars, config
  <2>1. Types' /\ Grounded' /\ ChainInv' /\ LateInv'
    BY DEF Types, Grounded, ChainInv, ChainSound, LateInv, IsLate
  <2>2. IssuedInv' /\ PurgeInv' /\ OnceInv'
    BY DEF IssuedInv, PurgeInv, OnceInv, OutlivesAssertions, IsReauth
  <2>3. (ReauthEnds /\ AcceptedAgainOnlyLate /\ AcceptedOnce)'
    BY DEF ReauthEnds, AcceptedAgainOnlyLate, AcceptedOnce, OutlivesAssertions, IsReauth
  <2> QED
    BY <2>1, <2>2, <2>3
<1> QED
  BY <1>1, <1>2, <1>3, <1>4, <1>5 DEF Next

-----------------------------------------------------------------------------
\* The invariant that the other theorems of this module rest on: an accepted
\* assertion is guarded by its entry until it is late to accept it again, and an
\* entry expires within the limits of its chain of tickets.
THEOREM LifetimesInvariant ==
  Spec => []LifetimesInv
<1>1. Init => LifetimesInv
  BY InitInv
<1>2. LifetimesInv /\ [Next]_vars => LifetimesInv'
  BY NextInv
<1> QED
  BY <1>1, <1>2, PTL DEF Spec

\* The entries of the replay cache and the initiator's ticket belong to
\* assertions that were issued, the ticket to an accepted one.
THEOREM LifetimesTypes ==
  Spec => []TypeOK
<1>1. LifetimesInv => TypeOK
  BY InvTypes
<1> QED
  BY <1>1, LifetimesInvariant, PTL

\* A chain of re-authentications ends, for any lifetimes: the renewal limit of
\* _BIDUpdateReplayCache passes from ticket to ticket unchanged.
THEOREM ReauthenticationEnds ==
  Spec => []ReauthEnds
<1>1. LifetimesInv => ReauthEnds
  BY DEF LifetimesInv
<1> QED
  BY <1>1, LifetimesInvariant, PTL

\* _BIDCheckReplayCache lets an assertion through again only late, or after its
\* entry was purged; with tickets that outlive assertions it never lets one signed
\* with a certificate through twice, whenever the cache is purged; and
\* _BIDShouldPurgeReplayCacheEntryP spares the entry of such an assertion until the
\* assertion has expired.
THEOREM ReplaysStopped ==
  Spec => []NoReplay
<1>1. LifetimesInv => AcceptedAgainOnlyLate
  BY DEF LifetimesInv
<1>2. LifetimesInv => AcceptedOnce
  BY DEF LifetimesInv
<1>3. LifetimesInv => PurgedOnlyExpired
  BY DEF LifetimesInv, PurgeInv, PurgedOnlyExpired
<1>4. LifetimesInv => NoReplay
  BY <1>1, <1>2, <1>3 DEF NoReplay
<1> QED
  BY <1>4, LifetimesInvariant, PTL

-----------------------------------------------------------------------------
(***************************************************************************)
(* Verification: what is known of a token before each of the checks.       *)
(***************************************************************************)

CheckPcs ==
    {"unpack", "local", "audience", "expiry", "issuer", "chain", "signature", "populate",
     "subject", "opts", "rp", "post", "reply", "cleanup", "returned"}
Tokens ==
    [certs : Nat, x5c : {absent, "trusted", "untrusted"}, tkt : {absent, "valid"},
     aud : {"same", "host", "other", absent}, cb : {"same", "other", absent},
     claims : Checks!Claims \cup {absent}, email : {"certified", absent},
     nonce : {"same", "other", absent},
     by : {"leaf", "x5c", "session", "ticket", "other", "nobody", absent}]

CheckTypes ==
    /\ pc \in CheckPcs
    /\ req \in Checks!AssertionRequests \cup Checks!ResponseRequests
    /\ tok \in Tokens
    /\ flags \subseteq {"RP", "REMOTE", "X509", "VALIDATED_CERTS", "REAUTH", "EXTRA_ROUND_TRIP"}
    /\ cred \in {absent, "session", "x5c", "ticket", "leaf"}
    /\ identity \in [of : {absent, "leaf", "x5c", "ticket", "empty"},
                     sub : {absent, "certified", "ticket", "replied"}]
    /\ refs \in [leaf : Int, root : Int, session : Int]
    /\ asserted \in BOOLEAN

\* The token has passed a check that the checks in "later" come after.
Passed(later) == pc \in later \/ (pc \in {"cleanup", "returned"} /\ result = "OK")

\* The checks of a remote verification, and those of a local one.
PathInv ==
    /\ req.remote => pc \in {"unpack", "audience", "post", "populate", "reply", "cleanup", "returned"}
    /\ ~req.remote => pc \notin {"post", "reply"}
    /\ pc \in {"issuer", "chain"} => tok.certs = 1
    /\ pc = "rp" => req.rp

\* What the audience, the expiry and the signature were checked for stays as it was.
AudienceInv ==
    Passed({"expiry", "issuer", "chain", "signature", "populate", "subject", "opts", "rp",
            "post", "reply"}) =>
        Checks!AudienceMatches(tok.aud) /\ Checks!BindingsMatch(tok.cb)
ExpiryInv ==
    ~req.remote =>
        /\ Passed({"issuer", "chain", "signature", "populate", "subject", "opts", "rp"}) =>
             tok.claims \in Checks!Claims /\ Checks!ExpiryError(tok.claims) = absent
        /\ Passed({"subject", "opts", "rp"}) => req.rp \/ cred = "ticket" \/ tok.claims.exp # absent
SignatureInv ==
    ~req.remote /\ Passed({"populate", "subject", "opts", "rp"}) => tok.by = cred /\ cred # absent

\* The keys that _BIDVerifyLocal may have without a certificate.
OtherKeys == IF req.rp THEN {absent, "session", "x5c"} ELSE {"x5c", "ticket"}

\* Where the key comes from: a session key only from the caller, the key of the
\* certificate only after the chain, and the flags say which.
CredInv ==
    /\ cred = "session" => req.session
    /\ cred = absent => ~req.session
    /\ pc = "unpack" => cred \in {absent, "session"} /\ flags = {}
    /\ pc = "local" => /\ cred \in {absent, "session"}
                       /\ "VALIDATED_CERTS" \notin flags /\ "REAUTH" \notin flags
    /\ ~req.remote =>
         /\ pc \in {"audience", "expiry", "issuer", "chain"} =>
              cred \in IF tok.certs > 0 THEN {absent, "session"} ELSE OtherKeys
         /\ Passed({"signature", "populate", "subject", "opts", "rp"}) =>
              cred \in IF tok.certs > 0 THEN {"leaf"} ELSE OtherKeys
         /\ Passed(CheckPcs \ {"cleanup", "returned"}) =>
              /\ "VALIDATED_CERTS" \in flags <=> cred \in {"leaf", "x5c"}
              /\ "REAUTH" \in flags <=> cred = "ticket"
    /\ req.remote =>
         /\ cred = absent /\ "REAUTH" \notin flags
         /\ pc \in {"cleanup", "returned"} /\ result = "OK" => "VALIDATED_CERTS" \in flags

\* The identity is that of the ticket until the attributes of the token are read.
IdentityInv ==
    /\ pc \in {"unpack", "local", "populate"} => identity = Checks!NoIdentity
    /\ pc \in {"audience", "expiry", "issuer", "chain", "signature", "post"} =>
         \/ identity = Checks!NoIdentity
         \/ cred = "ticket" /\ identity.of = "ticket"
    /\ req.remote /\ pc \in {"cleanup", "returned"} /\ result = "OK" =>
         identity.sub \in {"replied", absent}

\* A response that is accepted.
AnswerInv ==
    req.rp /\ pc \in {"cleanup", "returned"} /\ result = "OK" =>
        tok.aud = absent /\ Checks!NonceMatches(tok.nonce)

\* The references to the payload of the certificate are those of the backed
\* assertion, of pKey in _BIDValidateCertChain, and of the identity.
One(b) == IF b THEN 1 ELSE 0
RefsInv ==
    /\ pc = "unpack" => refs.leaf = 0
    /\ pc \notin {"unpack", "returned"} =>
         refs.leaf = One(tok.certs > 0) + One(cred = "leaf") + One(identity.of = "leaf")
    /\ pc = "returned" => refs.leaf = One(identity.of = "leaf")

AssertedInv == (pc = "unpack" => asserted) /\ Checks!HasVerifyCred

CheckInv ==
    /\ CheckTypes /\ PathInv /\ AudienceInv /\ ExpiryInv /\ SignatureInv /\ CredInv
    /\ IdentityInv /\ AnswerInv /\ RefsInv /\ AssertedInv

LEMMA RequestFacts ==
    CheckTypes =>
        /\ {req.rp, req.remote, req.reauth, req.audience, req.cb, req.alias, req.subject, req.session,
            req.gss, req.initial} \subseteq BOOLEAN
        /\ req.remote \/ req.reauth => ~req.rp
        /\ req.session \/ req.subject => req.rp
        /\ req.rp => ~req.audience /\ ~req.cb
  BY DEF CheckTypes, Checks!AssertionRequests, Checks!ResponseRequests

LEMMA AbsentFacts ==
    Checks!VerificationAssumption =>
        /\ MaxCerts \in Nat /\ CheckedAt \in Nat /\ Skew \in Nat
        /\ absent \notin Nat
        /\ \A w \in Checks!Found : absent # w
  BY DEF Checks!VerificationAssumption

LEMMA ErrorFacts ==
    /\ \A c : Checks!ExpiryError(c) # absent => Checks!ExpiryError(c) # "OK"
    /\ \A by : Checks!SignatureError(by) # absent => Checks!SignatureError(by) # "OK"
  BY DEF Checks!ExpiryError, Checks!SignatureError

LEMMA SignatureFacts ==
    ASSUME Checks!VerificationAssumption, CheckTypes, NEW by \in Checks!Signers
    PROVE  /\ by \in {"leaf", "x5c", "session", "ticket", "other", "nobody", absent}
           /\ Checks!SignatureError(by) = absent => by = cred /\ cred # absent
  <1>1. by \in {"leaf", "x5c", "session", "ticket", "other", "nobody", absent}
    BY DEF CheckTypes, Tokens, Checks!Signers
  <1>2. Checks!SignatureError(by) = absent => by = cred /\ cred # absent
    BY <1>1, AbsentFacts DEF CheckTypes, Checks!Found, Checks!SignatureError
  <1> QED
    BY <1>1, <1>2

LEMMA CertsCounted ==
    ASSUME NEW parts \in Checks!Parts
    PROVE  Checks!CertsBefore(parts, Len(parts)) \in Nat
  <1>1. parts \in Seq({"jwt", "empty", "bad"}) /\ Len(parts) \in Nat
    BY DEF Checks!Parts
  <1>2. IsFiniteSet(1 .. (Len(parts) - 1))
    BY <1>1, FS_Interval
  <1>3. {j \in 1 .. (Len(parts) - 1) : parts[j] = "jwt"} \subseteq 1 .. (Len(parts) - 1)
    OBVIOUS
  <1>4. IsFiniteSet({j \in 1 .. (Len(parts) - 1) : parts[j] = "jwt"})
    BY <1>2, <1>3, FS_Subset
  <1>5. Cardinality({j \in 1 .. (Len(parts) - 1) : parts[j] = "jwt"}) \in Nat
    BY <1>4, FS_CardinalityType
  <1> QED
    BY <1>5, Zenon DEF Checks!CertsBefore, Checks!Cardinality, Cardinality

LEMMA UnpackEffect ==
    ASSUME CheckTypes, Checks!UnpackBackedAssertion
    PROVE  \E n \in Nat :
        \/ /\ tok' = [tok EXCEPT !.certs = n]
           /\ pc' = IF req.remote THEN "audience" ELSE "local"
           /\ refs' = [refs EXCEPT !.leaf = IF n > 0 THEN 1 ELSE 0, !.session = IF req.session THEN 2 ELSE 0]
           /\ flags' = IF req.rp THEN {"RP"} ELSE IF req.remote THEN {"REMOTE"} ELSE {}
        \/ /\ pc' = "returned" /\ result' = "INVALID_ASSERTION"
           /\ UNCHANGED <<tok, refs, flags>>
  <1>1. PICK parts \in Checks!Parts :
           IF Checks!Unpacks(parts)
           THEN /\ pc' = IF req.remote THEN "audience" ELSE "local"
                /\ tok' = [tok EXCEPT !.certs = Checks!CertsBefore(parts, Len(parts))]
                /\ refs' = [refs EXCEPT !.leaf = IF Checks!CertsBefore(parts, Len(parts)) > 0 THEN 1 ELSE 0,
                                        !.session = IF req.session THEN 2 ELSE 0]
                /\ flags' = CASE req.rp -> {"RP"} [] req.remote -> {"REMOTE"} [] OTHER -> {}
                /\ UNCHANGED result
           ELSE /\ pc' = "returned" /\ result' = "INVALID_ASSERTION"
                /\ UNCHANGED <<tok, refs, flags>>
    BY Zenon DEF Checks!UnpackBackedAssertion
  <1>2. PICK n \in Nat : n = Checks!CertsBefore(parts, Len(parts))
    BY CertsCounted
  <1>3. CASE Checks!Unpacks(parts)
    <2>1. tok' = [tok EXCEPT !.certs = n] /\ pc' = IF req.remote THEN "audience" ELSE "local"
      BY <1>1, <1>2, <1>3, Zenon
    <2>2. refs' = [refs EXCEPT !.leaf = IF n > 0 THEN 1 ELSE 0, !.session = IF req.session THEN 2 ELSE 0]
      BY <1>1, <1>2, <1>3, Zenon DEF One
    <2>3. flags' = IF req.rp THEN {"RP"} ELSE IF req.remote THEN {"REMOTE"} ELSE {}
      <3>1. flags' = CASE req.rp -> {"RP"} [] req.remote -> {"REMOTE"} [] OTHER -> {}
        BY <1>1, <1>3, Zenon
      <3> QED
        BY <3>1, RequestFacts
    <2> QED
      BY <2>1, <2>2, <2>3
  <1>4. CASE ~Checks!Unpacks(parts)
    BY <1>1, <1>4, Zenon
  <1> QED
    BY <1>3, <1>4

LEMMA UnpackBackedAssertionStep ==
    ASSUME Checks!VerificationAssumption, CheckInv, Checks!UnpackBackedAssertion
    PROVE  CheckInv'
  <1>0. pc = "unpack" /\ UNCHANGED <<req, cred, identity, asserted>>
    BY DEF Checks!UnpackBackedAssertion
  <1>n. PICK n \in Nat :
        \/ /\ tok' = [tok EXCEPT !.certs = n]
           /\ pc' = IF req.remote THEN "audience" ELSE "local"
           /\ refs' = [refs EXCEPT !.leaf = IF n > 0 THEN 1 ELSE 0, !.session = IF req.session THEN 2 ELSE 0]
           /\ flags' = IF req.rp THEN {"RP"} ELSE IF req.remote THEN {"REMOTE"} ELSE {}
        \/ /\ pc' = "returned" /\ result' = "INVALID_ASSERTION"
           /\ UNCHANGED <<tok, refs, flags>>
    BY UnpackEffect, Zenon DEF CheckInv
  <1> USE <1>0, <1>n, RequestFacts, AbsentFacts DEF CheckInv, CheckTypes, Checks!Found
  <1>1. CheckTypes'
    <2>1. tok' \in Tokens
      BY DEF Tokens
    <2>2. pc' \in CheckPcs /\ req' \in Checks!AssertionRequests \cup Checks!ResponseRequests
      BY DEF CheckPcs
    <2>3. flags' \subseteq {"RP", "REMOTE", "X509", "VALIDATED_CERTS", "REAUTH", "EXTRA_ROUND_TRIP"}
      OBVIOUS
    <2>4. cred' \in {absent, "session", "x5c", "ticket", "leaf"} /\ asserted' \in BOOLEAN
      OBVIOUS
    <2>5. identity' \in [of : {absent, "leaf", "x5c", "ticket", "empty"},
                         sub : {absent, "certified", "ticket", "replied"}]
      BY DEF Checks!NoIdentity, Checks!SubjectOf
    <2>6. refs' \in [leaf : Int, root : Int, session : Int]
      <3>1. CASE pc' # "returned"
        <4>1. PICK a \in Int, b \in Int : refs' = [refs EXCEPT !.leaf = a, !.session = b]
          <5>1. (IF n > 0 THEN 1 ELSE 0) \in Int /\ (IF req.session THEN 2 ELSE 0) \in Int
            OBVIOUS
          <5>2. refs' = [refs EXCEPT !.leaf = IF n > 0 THEN 1 ELSE 0,
                                     !.session = IF req.session THEN 2 ELSE 0]
            BY <3>1, <1>n, Zenon
          <5> QED
            BY <5>1, <5>2, Zenon
        <4> QED
          BY <4>1
      <3>2. CASE pc' = "returned"
        BY <3>2
      <3> QED
        BY <3>1, <3>2
    <2> QED
      BY <2>1, <2>2, <2>3, <2>4, <2>5, <2>6
  <1>2. PathInv'
    BY DEF PathInv, CheckPcs
  <1>3. AudienceInv'
    BY DEF AudienceInv, Passed, Checks!AudienceMatches, Checks!BindingsMatch
  <1>4. ExpiryInv'
    BY DEF PathInv, ExpiryInv, Passed
  <1>5. SignatureInv'
    BY DEF PathInv, SignatureInv, Passed, CredInv
  <1>6. CredInv'
    BY DEF Tokens, PathInv, CredInv, OtherKeys, Passed, CheckPcs, IdentityInv
  <1>7. IdentityInv'
    BY DEF IdentityInv, PathInv, CredInv, Checks!NoIdentity, CheckPcs, Checks!SubjectOf
  <1>8. AnswerInv'
    BY DEF AnswerInv, PathInv, Checks!NonceMatches
  <1>9. RefsInv'
    <2>1. identity = Checks!NoIdentity /\ cred # "leaf" /\ refs.leaf = 0
      BY DEF IdentityInv, CredInv, RefsInv
    <2>2. CASE pc' # "returned"
      <3>1. tok'.certs = n /\ refs'.leaf = IF n > 0 THEN 1 ELSE 0
        BY <2>2 DEF Tokens
      <3> QED
        BY <3>1, <2>1, <2>2 DEF RefsInv, One, Checks!NoIdentity
    <2>3. CASE pc' = "returned"
      BY <2>1, <2>3 DEF RefsInv, One, Checks!NoIdentity
    <2> QED
      BY <2>2, <2>3
  <1>10. AssertedInv'
    BY DEF Tokens, AssertedInv, Checks!HasVerifyCred, CredInv, PathInv, OtherKeys, Passed
  <1> QED
    BY <1>1, <1>2, <1>3, <1>4, <1>5, <1>6, <1>7, <1>8, <1>9, <1>10

LEMMA ValidateX509Step ==
    ASSUME Checks!VerificationAssumption, CheckInv, Checks!ValidateX509
    PROVE  CheckInv'
  <1> USE RequestFacts, AbsentFacts, ErrorFacts DEF Checks!Found, CheckInv, CheckTypes,
      Checks!ValidateX509, Checks!Checks, Checks!Fails
  <1>1. CheckTypes'
    BY DEF Tokens, CheckPcs, Checks!NoIdentity
  <1>2. PathInv' /\ AudienceInv' /\ ExpiryInv' /\ SignatureInv'
    BY DEF PathInv, CheckPcs, AudienceInv, Passed, Checks!AudienceMatches, Checks!BindingsMatch,
       ExpiryInv, SignatureInv, CredInv
  <1>3. CredInv' /\ IdentityInv' /\ AnswerInv'
    BY SMTT(60) DEF Tokens, PathInv, CredInv, OtherKeys, Passed, CheckPcs, IdentityInv,
       Checks!NoIdentity, Checks!SubjectOf, AnswerInv, Checks!NonceMatches
  <1>4. RefsInv' /\ AssertedInv'
    BY SMTT(60) DEF RefsInv, One, CredInv, IdentityInv, Checks!NoIdentity, Tokens, OtherKeys,
       AssertedInv, Checks!HasVerifyCred, PathInv, Passed
  <1> QED
    BY <1>1, <1>2, <1>3, <1>4

LEMMA VerifyReauthAssertionStep ==
    ASSUME Checks!VerificationAssumption, CheckInv, Checks!VerifyReauthAssertion
    PROVE  CheckInv'
  <1> USE RequestFacts, AbsentFacts DEF CheckInv, CheckTypes, Checks!Found
  <1>1. /\ pc = "local" /\ tok.certs = 0 /\ ~req.rp /\ ~req.remote /\ cred = absent
        /\ identity = Checks!NoIdentity /\ refs.leaf = 0 /\ ~req.session
        /\ "VALIDATED_CERTS" \notin flags
        /\ UNCHANGED <<req, refs>> /\ asserted' = asserted
    <2>1. pc = "local" /\ tok.certs = 0 /\ req.reauth /\ UNCHANGED <<req, refs>>
      BY DEF Checks!VerifyReauthAssertion
    <2>2. /\ ~req.rp /\ ~req.remote /\ ~req.session /\ cred = absent
          /\ identity = Checks!NoIdentity /\ "VALIDATED_CERTS" \notin flags
      BY <2>1 DEF PathInv, CredInv, IdentityInv
    <2>3. asserted' = asserted
      <3>1. asserted' = (asserted /\ cred = absent /\ ~req.rp)
        BY DEF Checks!VerifyReauthAssertion
      <3> QED
        BY <3>1, <2>2
    <2>4. refs.leaf = 0
      BY <2>1, <2>2 DEF RefsInv, One, Checks!NoIdentity
    <2> QED
      BY <2>1, <2>2, <2>3, <2>4
  <1>2. \/ /\ pc' = "audience" /\ tok' = [tok EXCEPT !.tkt = "valid", !.by = "ticket"]
           /\ cred' = "ticket" /\ identity' = [of |-> "ticket", sub |-> "ticket"]
           /\ flags' = flags \cup {"REAUTH"}
        \/ /\ pc' = "cleanup" /\ result' # "OK" /\ UNCHANGED <<tok, cred, identity>>
           /\ flags' \subseteq flags \cup {"REAUTH"}
    BY DEF Checks!VerifyReauthAssertion, Checks!Checks, Checks!Fails
  <1> HIDE DEF CheckInv
  <1>3. CheckTypes'
    <2>1. CASE pc' = "audience"
      <3>1. tok' \in Tokens
        <4>1. tok' = [tok EXCEPT !.tkt = "valid", !.by = "ticket"] /\ tok \in Tokens
          BY <1>2, <2>1 DEF CheckInv, CheckTypes
        <4>2. PICK t : t = [tok EXCEPT !.tkt = "valid"]
          OBVIOUS
        <4>3. t \in Tokens
          BY <4>1, <4>2 DEF Tokens
        <4>4. tok' = [t EXCEPT !.by = "ticket"]
          BY <4>1, <4>2
        <4> QED
          BY <4>3, <4>4 DEF Tokens
      <3>2. identity' \in [of : {absent, "leaf", "x5c", "ticket", "empty"},
                           sub : {absent, "certified", "ticket", "replied"}]
        BY <1>2, <2>1
      <3> QED
        BY <1>1, <1>2, <2>1, <3>1, <3>2 DEF CheckInv, CheckPcs
    <2>2. CASE pc' = "cleanup"
      BY <1>1, <1>2, <2>2 DEF CheckInv, CheckPcs
    <2> QED
      BY <1>2, <2>1, <2>2
  <1>4. tok'.certs = 0
    BY <1>1, <1>2 DEF CheckInv, Tokens
  <1>5. /\ PathInv' /\ AudienceInv' /\ ExpiryInv' /\ SignatureInv' /\ AnswerInv'
    BY <1>1, <1>2 DEF PathInv, AudienceInv, ExpiryInv, SignatureInv, AnswerInv, Passed
  <1>6. CredInv'
    BY <1>1, <1>2, <1>4 DEF CredInv, OtherKeys, Passed
  <1>7. IdentityInv' /\ RefsInv' /\ AssertedInv'
    BY <1>1, <1>2, <1>4 DEF CheckInv, IdentityInv, RefsInv, One, AssertedInv,
        Checks!HasVerifyCred, Checks!NoIdentity
  <1> QED
    BY <1>3, <1>5, <1>6, <1>7 DEF CheckInv

LEMMA VerifyLocalOtherStep ==
    ASSUME Checks!VerificationAssumption, CheckInv, Checks!VerifyLocalOther
    PROVE  CheckInv'
  <1> USE RequestFacts, AbsentFacts, ErrorFacts DEF Checks!Found, CheckInv, CheckTypes,
      Checks!VerifyLocalOther, Checks!Checks, Checks!Fails, Checks!NeedsCertificate
  <1>1. CheckTypes'
    BY DEF Tokens, CheckPcs, Checks!NoIdentity
  <1>2. PathInv' /\ AudienceInv' /\ ExpiryInv' /\ SignatureInv'
    BY DEF PathInv, CheckPcs, AudienceInv, Passed, Checks!AudienceMatches, Checks!BindingsMatch,
       ExpiryInv, SignatureInv, CredInv
  <1>3. CredInv' /\ IdentityInv' /\ AnswerInv'
    BY DEF Tokens, PathInv, CredInv, OtherKeys, Passed, CheckPcs, IdentityInv,
       Checks!NoIdentity, Checks!SubjectOf, AnswerInv, Checks!NonceMatches
  <1>4. RefsInv' /\ AssertedInv'
    BY DEF RefsInv, One, CredInv, IdentityInv, Checks!NoIdentity, Tokens, OtherKeys,
       AssertedInv, Checks!HasVerifyCred, PathInv, Passed
  <1> QED
    BY <1>1, <1>2, <1>3, <1>4

LEMMA ValidateAudienceStep ==
    ASSUME Checks!VerificationAssumption, CheckInv, Checks!ValidateAudience
    PROVE  CheckInv'
  <1> USE RequestFacts, AbsentFacts, ErrorFacts DEF Checks!Found, CheckInv, CheckTypes,
      Checks!ValidateAudience, Checks!Fails
  <1>1. CheckTypes'
    <2>1. tok' \in Tokens
      BY ZenonT(60) DEF Tokens
    <2>2. pc' \in CheckPcs /\ req' \in Checks!AssertionRequests \cup Checks!ResponseRequests
      BY DEF CheckPcs
    <2>3. flags' \subseteq {"RP", "REMOTE", "X509", "VALIDATED_CERTS", "REAUTH", "EXTRA_ROUND_TRIP"}
      OBVIOUS
    <2>4. cred' \in {absent, "session", "x5c", "ticket", "leaf"} /\ asserted' \in BOOLEAN
      OBVIOUS
    <2>5. identity' \in [of : {absent, "leaf", "x5c", "ticket", "empty"},
                         sub : {absent, "certified", "ticket", "replied"}]
      BY DEF Checks!NoIdentity, Checks!SubjectOf
    <2>6. refs' \in [leaf : Int, root : Int, session : Int]
      OBVIOUS
    <2> QED
      BY <2>1, <2>2, <2>3, <2>4, <2>5, <2>6
  <1>2. PathInv' /\ AudienceInv' /\ ExpiryInv' /\ SignatureInv'
    BY DEF PathInv, CheckPcs, AudienceInv, Passed, Checks!AudienceMatches, Checks!BindingsMatch,
       ExpiryInv, SignatureInv, CredInv
  <1>3. CredInv' /\ IdentityInv' /\ AnswerInv'
    BY DEF Tokens, PathInv, CredInv, OtherKeys, Passed, CheckPcs, IdentityInv,
       Checks!NoIdentity, Checks!SubjectOf, AnswerInv, Checks!NonceMatches
  <1>4. RefsInv' /\ AssertedInv'
    BY DEF RefsInv, One, CredInv, IdentityInv, Checks!NoIdentity, Tokens, OtherKeys,
       AssertedInv, Checks!HasVerifyCred, PathInv, Passed
  <1> QED
    BY <1>1, <1>2, <1>3, <1>4

LEMMA ValidateExpiryStep ==
    ASSUME Checks!VerificationAssumption, CheckInv, Checks!ValidateExpiry
    PROVE  CheckInv'
  <1> USE RequestFacts, AbsentFacts, ErrorFacts DEF Checks!Found, CheckInv, CheckTypes,
      Checks!ValidateExpiry, Checks!Checks, Checks!Fails
  <1>1. CheckTypes'
    BY DEF Tokens, CheckPcs, Checks!NoIdentity
  <1>2. PathInv' /\ AudienceInv' /\ ExpiryInv' /\ SignatureInv'
    BY DEF PathInv, CheckPcs, AudienceInv, Passed, Checks!AudienceMatches, Checks!BindingsMatch,
       ExpiryInv, SignatureInv, CredInv
  <1>3. CredInv' /\ IdentityInv' /\ AnswerInv'
    BY SMTT(60) DEF Tokens, PathInv, CredInv, OtherKeys, Passed, CheckPcs, IdentityInv,
       Checks!NoIdentity, Checks!SubjectOf, AnswerInv, Checks!NonceMatches
  <1>4. RefsInv' /\ AssertedInv'
    BY DEF RefsInv, One, CredInv, IdentityInv, Checks!NoIdentity, Tokens, OtherKeys,
       AssertedInv, Checks!HasVerifyCred, PathInv, Passed
  <1> QED
    BY <1>1, <1>2, <1>3, <1>4

LEMMA ValidateCertIssuerStep ==
    ASSUME Checks!VerificationAssumption, CheckInv, Checks!ValidateCertIssuer
    PROVE  CheckInv'
  <1> USE RequestFacts, AbsentFacts, ErrorFacts DEF Checks!Found, CheckInv, CheckTypes,
      Checks!ValidateCertIssuer, Checks!Checks, Checks!Fails
  <1>1. CheckTypes'
    BY DEF Tokens, CheckPcs, Checks!NoIdentity
  <1>2. PathInv' /\ AudienceInv' /\ ExpiryInv' /\ SignatureInv'
    BY DEF PathInv, CheckPcs, AudienceInv, Passed, Checks!AudienceMatches, Checks!BindingsMatch,
       ExpiryInv, SignatureInv, CredInv
  <1>3. CredInv' /\ IdentityInv' /\ AnswerInv'
    BY DEF Tokens, PathInv, CredInv, OtherKeys, Passed, CheckPcs, IdentityInv,
       Checks!NoIdentity, Checks!SubjectOf, AnswerInv, Checks!NonceMatches
  <1>4. RefsInv' /\ AssertedInv'
    BY DEF RefsInv, One, CredInv, IdentityInv, Checks!NoIdentity, Tokens, OtherKeys,
       AssertedInv, Checks!HasVerifyCred, PathInv, Passed
  <1> QED
    BY <1>1, <1>2, <1>3, <1>4

LEMMA ValidateCertChainStep ==
    ASSUME Checks!VerificationAssumption, CheckInv, Checks!ValidateCertChain
    PROVE  CheckInv'
  <1> USE RequestFacts, AbsentFacts, ErrorFacts DEF Checks!Found, CheckInv, CheckTypes,
      Checks!ValidateCertChain, Checks!Checks, Checks!Fails
  <1>1. CheckTypes'
    BY DEF Tokens, CheckPcs, Checks!NoIdentity, Checks!ChainRefs
  <1>2. PathInv' /\ AudienceInv' /\ ExpiryInv' /\ SignatureInv'
    BY DEF PathInv, CheckPcs, AudienceInv, Passed, Checks!AudienceMatches, Checks!BindingsMatch,
       ExpiryInv, SignatureInv, CredInv
  <1>3. CredInv'
    <2>1. CASE pc' = "signature"
      BY <2>1 DEF Tokens, PathInv, CredInv, OtherKeys, Passed, CheckPcs, IdentityInv
    <2>2. CASE pc' = "cleanup" /\ result' # "OK"
      BY <2>2 DEF Tokens, PathInv, CredInv, OtherKeys, Passed, CheckPcs, IdentityInv
    <2> QED
      BY <2>1, <2>2
  <1>4. IdentityInv'
    BY DEF IdentityInv, PathInv, CredInv, Checks!NoIdentity, CheckPcs
  <1>5. AnswerInv'
    BY DEF AnswerInv, PathInv, Checks!NonceMatches
  <1>6. RefsInv' /\ AssertedInv'
    BY DEF RefsInv, One, CredInv, IdentityInv, Checks!NoIdentity, Tokens, OtherKeys,
       Checks!ChainRefs, AssertedInv, Checks!HasVerifyCred, PathInv, Passed
  <1> QED
    BY <1>1, <1>2, <1>3, <1>4, <1>5, <1>6

LEMMA VerifyAssertionSignatureStep ==
    ASSUME Checks!VerificationAssumption, CheckInv, Checks!VerifyAssertionSignature
    PROVE  CheckInv'
  <1> USE RequestFacts, AbsentFacts, ErrorFacts DEF Checks!Found, CheckInv, CheckTypes,
      Checks!VerifyAssertionSignature, Checks!Fails
  <1>1. CheckTypes'
    <2>1. tok' \in Tokens
      BY SignatureFacts DEF Tokens
    <2>2. pc' \in CheckPcs /\ req' \in Checks!AssertionRequests \cup Checks!ResponseRequests
      BY DEF CheckPcs
    <2>3. flags' \subseteq {"RP", "REMOTE", "X509", "VALIDATED_CERTS", "REAUTH", "EXTRA_ROUND_TRIP"}
      OBVIOUS
    <2>4. cred' \in {absent, "session", "x5c", "ticket", "leaf"} /\ asserted' \in BOOLEAN
      OBVIOUS
    <2>5. identity' \in [of : {absent, "leaf", "x5c", "ticket", "empty"},
                         sub : {absent, "certified", "ticket", "replied"}]
      BY DEF Checks!NoIdentity, Checks!SubjectOf
    <2>6. refs' \in [leaf : Int, root : Int, session : Int]
      OBVIOUS
    <2> QED
      BY <2>1, <2>2, <2>3, <2>4, <2>5, <2>6
  <1>2. PathInv' /\ AudienceInv' /\ ExpiryInv' /\ SignatureInv'
    BY SignatureFacts DEF PathInv, CheckPcs, AudienceInv, Passed, Checks!AudienceMatches,
       Checks!BindingsMatch, ExpiryInv, IdentityInv, Tokens, SignatureInv, CredInv
  <1>3. CredInv' /\ IdentityInv' /\ AnswerInv'
    BY DEF Tokens, PathInv, CredInv, OtherKeys, Passed, CheckPcs, IdentityInv,
       Checks!NoIdentity, Checks!SubjectOf, AnswerInv, Checks!NonceMatches
  <1>4. RefsInv' /\ AssertedInv'
    BY SMTT(60) DEF RefsInv, One, CredInv, IdentityInv, Checks!NoIdentity, Tokens, OtherKeys,
       AssertedInv, Checks!HasVerifyCred, PathInv, Passed
  <1> QED
    BY <1>1, <1>2, <1>3, <1>4

LEMMA PopulateIdentityStep ==
    ASSUME Checks!VerificationAssumption, CheckInv, Checks!PopulateIdentity
    PROVE  CheckInv'
  <1> USE RequestFacts, AbsentFacts, ErrorFacts DEF Checks!Found, CheckInv, CheckTypes,
      Checks!PopulateIdentity, Checks!Fails
  <1>1. CheckTypes'
    BY DEF Tokens, CheckPcs, Checks!NoIdentity
  <1>2. PathInv' /\ AudienceInv' /\ ExpiryInv' /\ SignatureInv'
    BY DEF PathInv, CheckPcs, AudienceInv, Passed, Checks!AudienceMatches, Checks!BindingsMatch,
       ExpiryInv, SignatureInv, CredInv
  <1>3. CredInv' /\ IdentityInv' /\ AnswerInv'
    BY DEF Tokens, PathInv, CredInv, OtherKeys, Passed, CheckPcs, IdentityInv,
       Checks!NoIdentity, Checks!SubjectOf, AnswerInv, Checks!NonceMatches
  <1>4. RefsInv' /\ AssertedInv'
    BY DEF RefsInv, One, CredInv, IdentityInv, Checks!NoIdentity, Tokens, OtherKeys,
       AssertedInv, Checks!HasVerifyCred, PathInv, Passed
  <1> QED
    BY <1>1, <1>2, <1>3, <1>4

LEMMA ValidateSubjectStep ==
    ASSUME Checks!VerificationAssumption, CheckInv, Checks!ValidateSubject
    PROVE  CheckInv'
  <1> USE RequestFacts, AbsentFacts, ErrorFacts DEF Checks!Found, CheckInv, CheckTypes,
      Checks!ValidateSubject, Checks!Checks, Checks!Fails
  <1>1. CheckTypes'
    BY DEF Tokens, CheckPcs, Checks!NoIdentity
  <1>2. PathInv' /\ AudienceInv' /\ ExpiryInv' /\ SignatureInv'
    BY DEF PathInv, CheckPcs, AudienceInv, Passed, Checks!AudienceMatches, Checks!BindingsMatch,
       ExpiryInv, SignatureInv, CredInv
  <1>3. CredInv' /\ IdentityInv' /\ AnswerInv'
    BY DEF Tokens, PathInv, CredInv, OtherKeys, Passed, CheckPcs, IdentityInv,
       Checks!NoIdentity, Checks!SubjectOf, AnswerInv, Checks!NonceMatches
  <1>4. RefsInv' /\ AssertedInv'
    BY DEF RefsInv, One, CredInv, IdentityInv, Checks!NoIdentity, Tokens, OtherKeys,
       AssertedInv, Checks!HasVerifyCred, PathInv, Passed
  <1> QED
    BY <1>1, <1>2, <1>3, <1>4

LEMMA ParseProtocolOptsStep ==
    ASSUME Checks!VerificationAssumption, CheckInv, Checks!ParseProtocolOpts
    PROVE  CheckInv'
  <1> USE RequestFacts, AbsentFacts, ErrorFacts DEF Checks!Found, CheckInv, CheckTypes,
      Checks!ParseProtocolOpts, Checks!Fails
  <1>1. CheckTypes'
    <2>1. tok' \in Tokens
      BY DEF Tokens
    <2>2. pc' \in CheckPcs /\ req' \in Checks!AssertionRequests \cup Checks!ResponseRequests
      BY DEF CheckPcs
    <2>3. flags' \subseteq {"RP", "REMOTE", "X509", "VALIDATED_CERTS", "REAUTH", "EXTRA_ROUND_TRIP"}
      OBVIOUS
    <2>4. cred' \in {absent, "session", "x5c", "ticket", "leaf"} /\ asserted' \in BOOLEAN
      OBVIOUS
    <2>5. identity' \in [of : {absent, "leaf", "x5c", "ticket", "empty"},
                         sub : {absent, "certified", "ticket", "replied"}]
      BY DEF Checks!NoIdentity, Checks!SubjectOf
    <2>6. refs' \in [leaf : Int, root : Int, session : Int]
      OBVIOUS
    <2> QED
      BY <2>1, <2>2, <2>3, <2>4, <2>5, <2>6
  <1>2. PathInv' /\ AudienceInv' /\ ExpiryInv' /\ SignatureInv'
    BY DEF PathInv, CheckPcs, AudienceInv, Passed, Checks!AudienceMatches, Checks!BindingsMatch,
       ExpiryInv, SignatureInv, CredInv
  <1>3. CredInv' /\ IdentityInv' /\ AnswerInv'
    BY DEF Tokens, PathInv, CredInv, OtherKeys, Passed, CheckPcs, IdentityInv,
       Checks!NoIdentity, Checks!SubjectOf, AnswerInv, Checks!NonceMatches
  <1>4. RefsInv' /\ AssertedInv'
    BY DEF RefsInv, One, CredInv, IdentityInv, Checks!NoIdentity, Tokens, OtherKeys,
       AssertedInv, Checks!HasVerifyCred, PathInv, Passed
  <1> QED
    BY <1>1, <1>2, <1>3, <1>4

LEMMA VerifyRPResponseTokenStep ==
    ASSUME Checks!VerificationAssumption, CheckInv, Checks!VerifyRPResponseToken
    PROVE  CheckInv'
  <1> USE RequestFacts, AbsentFacts, ErrorFacts DEF Checks!Found, CheckInv, CheckTypes,
      Checks!VerifyRPResponseToken
  <1>1. CheckTypes'
    BY DEF Tokens, CheckPcs, Checks!NoIdentity
  <1>2. PathInv' /\ AudienceInv' /\ ExpiryInv' /\ SignatureInv'
    BY DEF PathInv, CheckPcs, AudienceInv, Passed, Checks!AudienceMatches, Checks!BindingsMatch,
       ExpiryInv, SignatureInv, CredInv
  <1>3. CredInv' /\ IdentityInv' /\ AnswerInv'
    BY DEF Tokens, PathInv, CredInv, OtherKeys, Passed, CheckPcs, IdentityInv,
       Checks!NoIdentity, Checks!SubjectOf, AnswerInv, Checks!NonceMatches
  <1>4. RefsInv' /\ AssertedInv'
    BY DEF RefsInv, One, CredInv, IdentityInv, Checks!NoIdentity, Tokens, OtherKeys,
       AssertedInv, Checks!HasVerifyCred, PathInv, Passed
  <1> QED
    BY <1>1, <1>2, <1>3, <1>4

LEMMA PostDocumentStep ==
    ASSUME Checks!VerificationAssumption, CheckInv, Checks!PostDocument
    PROVE  CheckInv'
  <1> USE RequestFacts, AbsentFacts, ErrorFacts DEF Checks!Found, CheckInv, CheckTypes,
      Checks!PostDocument, Checks!Checks, Checks!Fails
  <1>1. CheckTypes'
    BY DEF Tokens, CheckPcs, Checks!NoIdentity
  <1>2. PathInv' /\ AudienceInv' /\ ExpiryInv' /\ SignatureInv'
    BY DEF PathInv, CheckPcs, AudienceInv, Passed, Checks!AudienceMatches, Checks!BindingsMatch,
       ExpiryInv, SignatureInv, CredInv
  <1>3. CredInv' /\ IdentityInv' /\ AnswerInv'
    BY DEF Tokens, PathInv, CredInv, OtherKeys, Passed, CheckPcs, IdentityInv,
       Checks!NoIdentity, Checks!SubjectOf, AnswerInv, Checks!NonceMatches
  <1>4. RefsInv' /\ AssertedInv'
    BY DEF RefsInv, One, CredInv, IdentityInv, Checks!NoIdentity, Tokens, OtherKeys,
       AssertedInv, Checks!HasVerifyCred, PathInv, Passed
  <1> QED
    BY <1>1, <1>2, <1>3, <1>4

LEMMA RemoteVerifierResponseToIdentityStep ==
    ASSUME Checks!VerificationAssumption, CheckInv, Checks!RemoteVerifierResponseToIdentity
    PROVE  CheckInv'
  <1> USE RequestFacts, AbsentFacts, ErrorFacts DEF Checks!Found, CheckInv, CheckTypes,
      Checks!RemoteVerifierResponseToIdentity
  <1>1. CheckTypes'
    <2>1. tok' \in Tokens
      BY DEF Tokens
    <2>2. pc' \in CheckPcs /\ req' \in Checks!AssertionRequests \cup Checks!ResponseRequests
      BY DEF CheckPcs
    <2>3. flags' \subseteq {"RP", "REMOTE", "X509", "VALIDATED_CERTS", "REAUTH", "EXTRA_ROUND_TRIP"}
      OBVIOUS
    <2>4. cred' \in {absent, "session", "x5c", "ticket", "leaf"} /\ asserted' \in BOOLEAN
      OBVIOUS
    <2>5. identity' \in [of : {absent, "leaf", "x5c", "ticket", "empty"},
                         sub : {absent, "certified", "ticket", "replied"}]
      BY DEF Checks!NoIdentity, Checks!SubjectOf
    <2>6. refs' \in [leaf : Int, root : Int, session : Int]
      OBVIOUS
    <2> QED
      BY <2>1, <2>2, <2>3, <2>4, <2>5, <2>6
  <1>2. PathInv' /\ AudienceInv' /\ ExpiryInv' /\ SignatureInv'
    BY DEF PathInv, CheckPcs, AudienceInv, Passed, Checks!AudienceMatches, Checks!BindingsMatch,
       ExpiryInv, SignatureInv, CredInv
  <1>3. CredInv' /\ IdentityInv' /\ AnswerInv'
    BY DEF Tokens, PathInv, CredInv, OtherKeys, Passed, CheckPcs, IdentityInv,
       Checks!NoIdentity, Checks!SubjectOf, AnswerInv, Checks!NonceMatches
  <1>4. RefsInv' /\ AssertedInv'
    BY DEF RefsInv, One, CredInv, IdentityInv, Checks!NoIdentity, Tokens, OtherKeys,
       AssertedInv, Checks!HasVerifyCred, PathInv, Passed
  <1> QED
    BY <1>1, <1>2, <1>3, <1>4

LEMMA CleanupStep ==
    ASSUME Checks!VerificationAssumption, CheckInv, Checks!Cleanup
    PROVE  CheckInv'
  <1> USE RequestFacts, AbsentFacts, ErrorFacts DEF Checks!Found, CheckInv, CheckTypes,
      Checks!Cleanup
  <1>1. CheckTypes'
    <2>1. tok' \in Tokens
      BY DEF Tokens
    <2>2. pc' \in CheckPcs /\ req' \in Checks!AssertionRequests \cup Checks!ResponseRequests
      BY DEF CheckPcs
    <2>3. flags' \subseteq {"RP", "REMOTE", "X509", "VALIDATED_CERTS", "REAUTH", "EXTRA_ROUND_TRIP"}
      OBVIOUS
    <2>4. cred' \in {absent, "session", "x5c", "ticket", "leaf"} /\ asserted' \in BOOLEAN
      OBVIOUS
    <2>5. identity' \in [of : {absent, "leaf", "x5c", "ticket", "empty"},
                         sub : {absent, "certified", "ticket", "replied"}]
      BY DEF Checks!NoIdentity, Checks!SubjectOf
    <2>6. refs' \in [leaf : Int, root : Int, session : Int]
      <3>1. PICK a \in Int, b \in Int : refs' = [refs EXCEPT !.leaf = a, !.session = b]
        <4>1. \A d, e, f \in {0, 1}, k \in {0, 1, 2} :
                refs.leaf - d - e - f \in Int /\ refs.session - k \in Int
          OBVIOUS
        <4>2. \E d, e, f \in {0, 1}, k \in {0, 1, 2} :
                refs' = [refs EXCEPT !.leaf = @ - d - e - f, !.session = @ - k]
          BY Zenon
        <4> QED
          BY <4>1, <4>2
      <3> QED
        BY <3>1
    <2> QED
      BY <2>1, <2>2, <2>3, <2>4, <2>5, <2>6
  <1>2. PathInv' /\ AudienceInv' /\ ExpiryInv' /\ SignatureInv'
    BY DEF PathInv, CheckPcs, AudienceInv, Passed, Checks!AudienceMatches, Checks!BindingsMatch,
       ExpiryInv, SignatureInv, CredInv
  <1>3. CredInv' /\ IdentityInv' /\ AnswerInv'
    BY DEF Tokens, PathInv, CredInv, OtherKeys, Passed, CheckPcs, IdentityInv,
       Checks!NoIdentity, Checks!SubjectOf, AnswerInv, Checks!NonceMatches
  <1>4. RefsInv' /\ AssertedInv'
    BY DEF RefsInv, One, CredInv, IdentityInv, Checks!NoIdentity, Tokens, OtherKeys,
       AssertedInv, Checks!HasVerifyCred, PathInv, Passed
  <1> QED
    BY <1>1, <1>2, <1>3, <1>4

LEMMA CheckInit == Checks!VerificationAssumption /\ Checks!Init => CheckInv
  <1> SUFFICES ASSUME Checks!VerificationAssumption, Checks!Init PROVE CheckInv
    OBVIOUS
  <1> USE AbsentFacts DEF Checks!Init, Checks!Found
  <1>1. CheckTypes
    BY DEF CheckTypes, CheckPcs, Tokens, Checks!Unread, Checks!NoIdentity
  <1>2. req.session => req.rp
    BY <1>1, RequestFacts
  <1>3. PathInv /\ AudienceInv /\ ExpiryInv /\ SignatureInv /\ AnswerInv
    BY <1>1, RequestFacts DEF PathInv, AudienceInv, ExpiryInv, SignatureInv, AnswerInv, Passed
  <1>4. CredInv /\ IdentityInv /\ RefsInv /\ AssertedInv
    BY <1>1, RequestFacts DEF CredInv, IdentityInv, RefsInv, AssertedInv, Passed, One,
        Checks!NoIdentity,
       Checks!HasVerifyCred
  <1> QED
    BY <1>1, <1>3, <1>4 DEF CheckInv

LEMMA CheckStep ==
    ASSUME Checks!VerificationAssumption, CheckInv, [Checks!Next]_checkVars
    PROVE  CheckInv'
  <1>1. CASE Checks!Next
    BY <1>1, UnpackBackedAssertionStep, ValidateX509Step, VerifyReauthAssertionStep, VerifyLocalOtherStep,
       ValidateAudienceStep, ValidateExpiryStep, ValidateCertIssuerStep, ValidateCertChainStep,
       VerifyAssertionSignatureStep, PopulateIdentityStep, ValidateSubjectStep, ParseProtocolOptsStep,
       VerifyRPResponseTokenStep, PostDocumentStep, RemoteVerifierResponseToIdentityStep, CleanupStep
       DEF Checks!Next
  <1>2. CASE UNCHANGED checkVars
    <2> USE <1>2 DEF checkVars, CheckInv
    <2>1. CheckTypes' /\ PathInv' /\ AudienceInv' /\ ExpiryInv' /\ SignatureInv'
      BY DEF CheckTypes, PathInv, AudienceInv, ExpiryInv, SignatureInv, Passed, Checks!AudienceMatches,
         Checks!BindingsMatch
    <2>2. CredInv' /\ IdentityInv' /\ AnswerInv' /\ RefsInv' /\ AssertedInv'
      BY DEF CredInv, IdentityInv, AnswerInv, RefsInv, AssertedInv, OtherKeys, Passed, Checks!NonceMatches,
         Checks!HasVerifyCred
    <2> QED
      BY <2>1, <2>2
  <1> QED
    BY <1>1, <1>2

\* What ExpiryError = None says of the claims.
LEMMA NotExpired ==
    ASSUME Checks!VerificationAssumption, NEW c \in Checks!Claims, Checks!ExpiryError(c) = absent
    PROVE  /\ \A t \in {c.iat, c.nbf} \ {absent} : t <= CheckedAt + Skew
           /\ IF c.exp # absent THEN CheckedAt <= c.exp + Skew
                                ELSE c.iat # absent /\ CheckedAt <= c.iat + 2 * Skew
  <1> USE AbsentFacts DEF Checks!Found
  <1>1. /\ c.iat \in Nat \cup {absent} /\ c.nbf \in Nat \cup {absent} /\ c.exp \in Nat \cup {absent}
    BY DEF Checks!VerificationAssumption, Checks!Claims
  <1>2. /\ ~(Checks!Since(c.iat) - CheckedAt > Skew) /\ ~(Checks!Since(c.nbf) - CheckedAt > Skew)
        /\ Checks!Expiry(c) # absent /\ ~(CheckedAt - Checks!Expiry(c) > Skew)
    BY DEF Checks!ExpiryError
  <1> QED
    BY <1>1, <1>2 DEF Checks!Since, Checks!Expiry

\* The invariant is enough for what is promised of a token that is accepted.
LEMMA CheckPromises ==
    Checks!VerificationAssumption /\ CheckInv =>
        /\ Checks!AcceptedIsForUs /\ Checks!AcceptedIsTrusted /\ Checks!RemoteSubject
        /\ Checks!HasVerifyCred /\ Checks!LeafReferenced
  <1> SUFFICES ASSUME Checks!VerificationAssumption, CheckInv
               PROVE  /\ Checks!AcceptedIsForUs /\ Checks!AcceptedIsTrusted /\ Checks!RemoteSubject
                      /\ Checks!HasVerifyCred /\ Checks!LeafReferenced
    OBVIOUS
  <1> USE AbsentFacts, RequestFacts DEF CheckInv, CheckTypes, Checks!Found, Checks!Accepted, Passed
  <1>1. Checks!AcceptedIsForUs
    <2> SUFFICES ASSUME Checks!Accepted PROVE Checks!AcceptedIsForUs
      BY DEF Checks!AcceptedIsForUs
    <2>1. /\ req.audience => (tok.aud = "same" \/ (req.alias /\ tok.aud = "host"))
          /\ req.cb => tok.cb = "same"
      BY DEF AudienceInv, Checks!AudienceMatches, Checks!BindingsMatch
    <2>2. ASSUME ~req.remote
          PROVE  /\ tok.claims \in Checks!Claims /\ Checks!ExpiryError(tok.claims) = absent
                 /\ req.rp \/ cred = "ticket" \/ tok.claims.exp # absent
      BY <2>2 DEF ExpiryInv
    <2> QED
      BY <2>1, <2>2, NotExpired DEF Checks!AcceptedIsForUs
  <1>2. Checks!AcceptedIsTrusted
    BY DEF Checks!AcceptedIsTrusted, SignatureInv, CredInv, AnswerInv, Checks!NonceMatches, OtherKeys, CheckPcs
  <1>3. Checks!RemoteSubject
    BY DEF Checks!RemoteSubject, IdentityInv
  <1>4. Checks!HasVerifyCred
    BY DEF AssertedInv
  <1>5. Checks!LeafReferenced
    BY DEF Checks!LeafReferenced, RefsInv, One, Tokens
  <1> QED
    BY <1>1, <1>2, <1>3, <1>4, <1>5

\* A verification: the inductive invariant holds whatever the token says and
\* whichever path _BIDVerifyLocal takes.
THEOREM VerificationInvariant == Checks!Spec => []CheckInv
  <1> USE MCRelyingPartyAssumption
  <1>1. Checks!Init => CheckInv
    BY CheckInit
  <1>2. CheckInv /\ [Checks!Next]_checkVars => CheckInv'
    BY CheckStep
  <1> QED
    BY <1>1, <1>2, PTL DEF Checks!Spec, Checks!vars, checkVars

\* The instance of the run.
LEMMA CheckSteps ==
    /\ MCInit => (of = "checks" => CheckInv)
    /\ (of = "checks" => CheckInv) /\ [MCNext]_<<of, vars, keyVars, checkVars>> =>
           (of = "checks" => CheckInv)'
  <1> USE MCRelyingPartyAssumption
  <1>1. MCInit /\ of = "checks" => CheckInv
    BY CheckInit DEF MCInit
  <1>2. ASSUME of = "checks" => CheckInv, [MCNext]_<<of, vars, keyVars, checkVars>>, of' = "checks"
        PROVE  CheckInv'
    <2>1. of = "checks" /\ [Checks!Next]_checkVars
      BY <1>2 DEF MCNext
    <2> QED
      BY <1>2, <2>1, CheckStep
  <1> QED
    BY <1>1, <1>2

\* Verification: a token that BIDVerifyAssertion or BIDVerifyRPResponseToken
\* accepts is for this audience, these channel bindings and this time, is signed
\* with a key the verifier has reason to trust, and its subject is the one vouched
\* for; for any token, any times and any skew.
THEOREM AcceptedTokensAreValid == MCSpec => []AcceptedIsValid
  <1>1. (of = "checks" => CheckInv) => AcceptedIsValid
    BY MCRelyingPartyAssumption, CheckPromises DEF AcceptedIsValid
  <1> QED
    BY <1>1, CheckSteps, PTL DEF MCSpec

\* Verification: the credential is there when _BIDVerifyLocal asserts it, but for a
\* response without a certificate to a caller without a session key, and the
\* payload of the certificate lives as long as something refers to it.
THEOREM CredentialsAreHeld == MCSpec => []CredentialHeld
  <1>1. (of = "checks" => CheckInv) => CredentialHeld
    BY MCRelyingPartyAssumption, CheckPromises DEF CredentialHeld
  <1> QED
    BY <1>1, CheckSteps, PTL DEF MCSpec

-----------------------------------------------------------------------------
(***************************************************************************)
(* Authority: the theorems about it, for the instance of MCRelyingParty.   *)
(***************************************************************************)

Authorities == INSTANCE Authority_proofs
    WITH Verifiers <- Threads, Hosts <- Providers, Keys <- HostKeys, None <- absent,
         UseCache <- TRUE, Lifetime <- DocumentLife, Initially <- AtFirst, Documents <- Rotated,
         Certificates <- ByHost, MaxTime <- MaxClock,
         cache <- documents, last <- latest, now <- clock

LEMMA SameConstants == Authorities!AuthorityAssumption
  <1>1. Rotation!AuthorityAssumption
    BY MCRelyingPartyAssumption
  <1> QED
    BY <1>1, Zenon DEF Rotation!AuthorityAssumption, Authorities!AuthorityAssumption,
       Rotation!Document, Authorities!Document, Rotation!Results, Authorities!Results

\* The two instances of Authority define the same behaviours and properties.
LEMMA SameBehaviours ==
    /\ Rotation!Init <=> Authorities!Init
    /\ [Rotation!Next]_keyVars <=> [Authorities!Next]_keyVars
    /\ UNCHANGED keyVars <=> UNCHANGED Authorities!vars
    /\ Rotation!KeysCurrent <=> Authorities!KeysCurrent
  <1>1. Rotation!Init <=> Authorities!Init
    BY Zenon DEF Rotation!Init, Authorities!Init, Rotation!Document, Authorities!Document, Rotation!Never,
       Authorities!Never, Rotation!NoVerification, Authorities!NoVerification,
       Rotation!NoDocument, Authorities!NoDocument
  <1>2. Rotation!Next <=> Authorities!Next
    BY Zenon DEF Rotation!Next, Authorities!Next, Rotation!Publish, Authorities!Publish, Rotation!Tick,
       Authorities!Tick, Rotation!Return, Authorities!Return, Rotation!Begin, Authorities!Begin,
       Rotation!Step, Authorities!Step, Rotation!NoVerification, Authorities!NoVerification,
       Rotation!ValidateCertIssuer, Authorities!ValidateCertIssuer,
       Rotation!IssuerIsAuthoritative, Authorities!IssuerIsAuthoritative,
       Rotation!ValidateCertChain, Authorities!ValidateCertChain, Rotation!Acquire,
       Authorities!Acquire, Rotation!NoDocument, Authorities!NoDocument, Rotation!Acquires,
       Authorities!Acquires, Rotation!Ends, Authorities!Ends, Rotation!Follows,
       Authorities!Follows, Rotation!Decided, Authorities!Decided,
       Rotation!GetAuthorityPublicKey, Authorities!GetAuthorityPublicKey, Rotation!Lookup,
       Authorities!Lookup, Rotation!RetrieveDocument, Authorities!RetrieveDocument,
       Rotation!RetrieveFails, Authorities!RetrieveFails, Rotation!SetCacheObject,
       Authorities!SetCacheObject, Rotation!Acquired, Authorities!Acquired, Rotation!Unexpired,
       Authorities!Unexpired, Rotation!Stored, Authorities!Stored, Rotation!AfterStore,
       Authorities!AfterStore
  <1>3. Rotation!WithdrawnKeyExpires <=> Authorities!WithdrawnKeyExpires
    BY DEF Rotation!WithdrawnKeyExpires, Authorities!WithdrawnKeyExpires, Rotation!Recently,
       Authorities!Recently, Rotation!Document, Authorities!Document, Rotation!Never,
       Authorities!Never
  <1>4. Rotation!SettledKeyAccepted <=> Authorities!SettledKeyAccepted
    BY DEF Rotation!SettledKeyAccepted, Authorities!SettledKeyAccepted
  <1>5. UNCHANGED keyVars <=> UNCHANGED Authorities!vars
    BY DEF keyVars, Authorities!vars
  <1> QED
    BY <1>1, <1>2, <1>3, <1>4, <1>5 DEF Rotation!KeysCurrent, Authorities!KeysCurrent

\* Authority: whatever threads share the cache and whenever hosts change their
\* keys, a withdrawn key is used no longer than a document may be cached, plus the
\* skew, and a key published for longer than that is not refused.
THEOREM CurrentKeys == MCSpec => []KeysCurrent
  <1>1. MCInit /\ of = "keys" => Authorities!Init
    BY SameBehaviours DEF MCInit
  <1>2. of = "keys" /\ [MCNext]_<<of, vars, keyVars, checkVars>> =>
          (of = "keys")' /\ [Authorities!Next]_Authorities!vars
    <2> SUFFICES ASSUME of = "keys", [MCNext]_<<of, vars, keyVars, checkVars>>
                 PROVE  (of = "keys")' /\ [Authorities!Next]_Authorities!vars
      OBVIOUS
    <2>1. of' = "keys" /\ [Rotation!Next]_keyVars
      BY DEF MCNext
    <2> QED
      BY <2>1, SameBehaviours
  <1>3. ~(of = "keys") /\ [MCNext]_<<of, vars, keyVars, checkVars>> => ~(of = "keys")'
    BY DEF MCNext
  <1>4. Authorities!SafetySpec => []Authorities!KeysCurrent
    BY SameConstants, Authorities!KeysAreCurrent, PTL
  <1>5. Authorities!KeysCurrent \/ ~(of = "keys") => KeysCurrent
    BY SameBehaviours DEF KeysCurrent
  <1> QED
    BY <1>1, <1>2, <1>3, <1>4, <1>5, PTL DEF MCSpec, Authorities!SafetySpec
=============================================================================
