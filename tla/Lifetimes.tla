----------------------------- MODULE Lifetimes -----------------------------
(***************************************************************************)
(* The clock arithmetic of assertions, tickets and the replay cache:        *)
(* bid_verify.c, bid_rcache.c, bid_reauth.c, the check of gssBidContextReady *)
(* and the purge commands of bidtool.                                       *)
(*                                                                          *)
(* One acceptor with its clock, one initiator whose clock is off by a       *)
(* constant, and any number of presentations of each assertion.  A          *)
(* verification is one step: SecContext has the interleavings, the keys and *)
(* the extra round trip, which does without the replay check.               *)
(***************************************************************************)
EXTENDS Integers, Sequences

CONSTANTS
    Skew,              \* maxclockskew
    TicketLifetimes,   \* values of maxticketage, 0 for none
    RenewLifetimes,    \* values of maxrenewage, 0 for none
    Drifts,            \* initiator's clock minus acceptor's
    AssertionLives,    \* lifetimes the browser gives to an assertion
    CertLives,         \* lifetimes an authority gives to a certificate
    Start, MaxTime, MaxAssertions

\* The year 1970 is over: no time stamp is within the skew of 0.
ASSUME LifetimesAssumption ==
    /\ (TicketLifetimes \cup RenewLifetimes \cup AssertionLives \cup CertLives) \subseteq Nat
    /\ Drifts \subseteq Int
    /\ {Skew, Start, MaxTime, MaxAssertions} \subseteq Nat /\ Start > Skew /\ Start <= MaxTime

VARIABLES
    reauth, ticketLifetime, renewLifetime, drift,   \* configuration
    now,       \* the acceptor's clock
    issued,    \* the assertions and authenticators made
    cache,     \* the replay cache, by assertion
    ticket,    \* what the initiator's ticket cache holds for this acceptor
    accepted,  \* when an assertion was accepted last, and the identity's expiry then
    purged,    \* when its entry without a key was purged, 0 for never
    last       \* the last acceptance: of what, when, and when before

config == <<reauth, ticketLifetime, renewLifetime, drift>>
vars == <<config, now, issued, cache, ticket, accepted, purged, last>>

None == [none |-> TRUE]
Ids == 1..MaxAssertions
NoTicket == 0

\* cexp is the expiry of the certificate, tid the ticket of an authenticator.
Assertion == [exp : Int, cexp : Int, tid : {NoTicket} \cup Ids]
\* root and bound are the time and the certificate's expiry of the acceptance
\* with a certificate that a chain of tickets goes back to.
Entry == [exp : Int, aexp : Int, rexp : Int, ark : BOOLEAN, root : Int, cexp : Int]

Init ==
    /\ reauth \in BOOLEAN
    /\ ticketLifetime \in TicketLifetimes
    /\ renewLifetime \in RenewLifetimes
    /\ drift \in Drifts
    /\ now = Start
    /\ issued = <<>>
    /\ cache = [i \in Ids |-> None]
    /\ ticket = None
    /\ accepted = [i \in Ids |-> None]
    /\ purged = [i \in Ids |-> 0]
    /\ last = None

-----------------------------------------------------------------------------
Tick ==
    /\ now < MaxTime
    /\ now' = now + 1
    /\ UNCHANGED <<config, issued, cache, ticket, accepted, purged, last>>

\* _BIDValidateExpiry: the date may lie back by the skew.
Expired(time, exp) == time - exp > Skew

Issues(exp, cexp, tid) ==
    /\ Len(issued) < MaxAssertions
    /\ issued' = Append(issued, [exp |-> exp, cexp |-> cexp, tid |-> tid])
    /\ UNCHANGED <<config, now, cache, ticket, accepted, purged, last>>

\* The browser signs an assertion with the user's certificate.
AcquireAssertion ==
    \E life \in AssertionLives, cert \in CertLives :
        Issues(now + drift + life, now + drift + cert, NoTicket)

\* A ticket that the initiator's clock finds valid makes an authenticator, which
\* is valid for the skew.
MakeAuthenticator ==
    /\ ticket # None
    /\ ~Expired(now + drift, ticket.exp)
    /\ Issues(now + drift + Skew, 0, ticket.tid)

-----------------------------------------------------------------------------
IsReauth(a) == a.tid # NoTicket

\* _BIDVerifyLocal, as far as time is concerned: the ticket must be in the
\* replay cache, with its key.
Verifies(a) ==
    /\ ~Expired(now, a.exp)
    /\ IF IsReauth(a) THEN /\ cache[a.tid] # None /\ cache[a.tid].ark
                           /\ ~Expired(now, cache[a.tid].exp)
       ELSE ~Expired(now, a.cexp)

\* _BIDCheckReplayCache
Replayed(i) == cache[i] # None /\ now < cache[i].exp

\* The attribute "exp" of the identity: of the certificate, or of the ticket.
IdentityExpiry(a) == IF IsReauth(a) THEN cache[a.tid].exp ELSE a.cexp

\* The renewal limit of a ticket is set with a certificate only; a ticket made
\* with a ticket inherits it.
RenewExpiry(a) ==
    IF IsReauth(a) THEN cache[a.tid].rexp
    ELSE IF renewLifetime # 0 THEN now + renewLifetime ELSE 0

\* Wrong variant: a ticket is renewed by each of its uses.
StoresAlways(a) == reauth

\* A new ticket comes with a certificate, or within the renewable lifetime.
StoresReauthCreds(a) == reauth /\ (IsReauth(a) => now - cache[a.tid].rexp <= Skew)

\* _BIDUpdateReplayCache: an entry that is no ticket has the identity's expiry.
UpdatedEntry(a) ==
    [exp  |-> IF StoresReauthCreds(a) /\ ticketLifetime # 0 THEN now + ticketLifetime ELSE IdentityExpiry(a),
     aexp |-> IF IsReauth(a) THEN cache[a.tid].aexp ELSE a.exp,
     rexp |-> RenewExpiry(a),
     ark  |-> StoresReauthCreds(a),
     root |-> IF IsReauth(a) THEN cache[a.tid].root ELSE now,
     cexp |-> IF IsReauth(a) THEN cache[a.tid].cexp ELSE a.cexp]

\* gssBidContextReady allows no skew.
ContextReady(a) == IdentityExpiry(a) >= now

\* What the initiator stores with the response of an established context.
TicketAfter(i, a) ==
    IF StoresReauthCreds(a) /\ ContextReady(a) THEN [tid |-> i, exp |-> UpdatedEntry(a).exp]
    ELSE ticket

\* BIDVerifyAssertion and what gss_accept_sec_context makes of it: the cache is
\* updated even if the context turns out expired.
VerifyAssertion(i) ==
    LET a == issued[i] IN
    /\ Verifies(a) /\ ~Replayed(i)
    /\ cache' = [cache EXCEPT ![i] = UpdatedEntry(a)]
    /\ IF ContextReady(a)
       THEN /\ accepted' = [accepted EXCEPT ![i] = [at |-> now, iexp |-> IdentityExpiry(a)]]
            /\ last' = [id |-> i, at |-> now, before |-> accepted[i], purged |-> purged[i] # 0,
                        root |-> UpdatedEntry(a).root,
                        cexp |-> UpdatedEntry(a).cexp]
       ELSE UNCHANGED <<accepted, last>>
    /\ ticket' = TicketAfter(i, a)
    /\ UNCHANGED <<config, now, issued, purged>>

-----------------------------------------------------------------------------
\* Wrong variant: by the assertion's expiry always.
ShouldPurgeByAssertion(e) == now >= e.aexp

\* _BIDShouldPurgeReplayCacheEntryP
ShouldPurge(e) == now >= IF e.ark THEN e.exp ELSE e.aexp

PurgeReplayCache ==
    /\ \E i \in Ids : cache[i] # None /\ ShouldPurge(cache[i])
    /\ cache' = [i \in Ids |-> IF cache[i] # None /\ ShouldPurge(cache[i]) THEN None ELSE cache[i]]
    /\ purged' = [i \in Ids |-> IF cache[i] # None /\ ShouldPurge(cache[i]) /\ ~cache[i].ark
                                THEN now ELSE purged[i]]
    /\ UNCHANGED <<config, now, issued, ticket, accepted, last>>

\* BIDShouldPurgeTicketCacheEntryP of bidtool.
PurgeTicketCache ==
    /\ ticket # None /\ now + drift >= ticket.exp
    /\ ticket' = None
    /\ UNCHANGED <<config, now, issued, cache, accepted, purged, last>>

Next ==
    \/ Tick
    \/ AcquireAssertion
    \/ MakeAuthenticator
    \/ \E i \in DOMAIN issued : VerifyAssertion(i)
    \/ PurgeReplayCache
    \/ PurgeTicketCache

Spec == Init /\ [][Next]_vars

-----------------------------------------------------------------------------
\* Types; and a ticket of the initiator names an assertion that was accepted, as
\* only the response of an established context brings one.
TypeOK ==
    /\ reauth \in BOOLEAN /\ ticketLifetime \in TicketLifetimes
    /\ renewLifetime \in RenewLifetimes /\ drift \in Drifts
    /\ now \in Start..MaxTime
    /\ \A i \in DOMAIN issued : issued[i] \in Assertion
    /\ \A i \in Ids : cache[i] # None => cache[i] \in Entry /\ i \in DOMAIN issued
    /\ ticket # None => ticket.tid \in DOMAIN issued /\ accepted[ticket.tid] # None

\* Re-authentication comes to an end: however often tickets are renewed, the
\* last acceptance that goes back to a certificate lies within the renewable
\* lifetime and one ticket lifetime of the acceptance of that certificate, with
\* the skew for the renewal (bid_rcache.c:111); without a ticket lifetime, within
\* the certificate's.
ReauthEnds ==
    last # None =>
        last.at <= IF ticketLifetime = 0 THEN last.cexp
                   ELSE IF ~IsReauth(issued[last.id]) THEN last.root
                   ELSE IF renewLifetime = 0 THEN last.root + ticketLifetime
                   ELSE last.root + renewLifetime + Skew + ticketLifetime

\* What _BIDCheckReplayCache lets through a second time: an assertion whose entry
\* made no ticket and was purged, one that made a ticket which has expired, and
\* one whose certificate or ticket expired since: in the very second of that
\* date, which the check takes for over and gssBidContextReady for still valid,
\* or when the ticket was itself extended by a second acceptance.
AcceptedAgainOnlyLate ==
    last # None /\ last.before # None =>
        \/ last.purged
        \/ last.at >= last.before.iexp
        \/ reauth /\ ticketLifetime # 0 /\ last.at >= last.before.at + ticketLifetime

\* Tickets outlive every assertion and the differences of clocks, as the
\* defaults of BIDAcquireContext (ten hours) do.
OutlivesAssertions ==
    ticketLifetime # 0 /\ \A life \in AssertionLives, d \in Drifts :
                              ticketLifetime > life + d + Skew

\* With such tickets _BIDCheckReplayCache lets no certificate-signed assertion
\* through twice, whenever the cache is purged.
AcceptedOnce ==
    reauth /\ OutlivesAssertions /\ last # None /\ ~IsReauth(issued[last.id]) => last.before = None

\* "Otherwise, purge when the assertion expires" (bid_rcache.c:241): an entry
\* without a key goes when the assertion it stands for has expired.  It is not so
\* for the entry of an authenticator, whose a-exp is copied from its ticket
\* (bid_reauth.c:387) and is that of the certificate's assertion.
PurgedOnlyExpired ==
    \A i \in DOMAIN issued :
        purged[i] # 0 /\ ~IsReauth(issued[i]) => purged[i] >= issued[i].exp

\* No assertion is taken for a new one while its entry should stop it: the replay
\* check of BIDVerifyAssertion and the purge of its cache go together.
NoReplay == AcceptedAgainOnlyLate /\ AcceptedOnce /\ PurgedOnlyExpired
=============================================================================
