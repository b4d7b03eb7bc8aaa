------------------------------ MODULE Authority ------------------------------
(***************************************************************************)
(* Who may certify an address, and with which key: the part of             *)
(* _BIDVerifyLocal that asks identity providers (bid_authority.c and       *)
(* _BIDValidateCertIssuer, _BIDValidateCertChain in bid_verify.c).         *)
(*                                                                         *)
(* A provider publishes a document with its key, or with the name of the   *)
(* host it delegates to, and may replace it at any time.  A relying party  *)
(* keeps documents in a cache its threads share, until they expire.  Each  *)
(* verification has one verification time, taken when it starts, and looks *)
(* a host up as often as it needs it: between two lookups the document or  *)
(* the cache may change.                                                   *)
(***************************************************************************)
EXTENDS Naturals, Sequences

CONSTANTS
    Verifiers,              \* threads that verify assertions
    Hosts,
    Keys,
    None,
    SecondaryAuthorities,   \* BID_PARAM_SECONDARY_AUTHORITIES
    MaxDelegations,         \* BID_PARAM_MAX_DELEGATIONS
    Skew,                   \* BID_PARAM_SKEW
    UseCache,               \* BID_CONTEXT_AUTHORITY_CACHE
    Lifetime,               \* for how long a document may be cached
    Initially,              \* the documents published first
    Documents,              \* the documents published later
    Certificates,           \* the certificates presented
    MaxTime,                \* bound of the clock
    MaxChanges              \* bound of the changes of documents

\* A document of BID_WELL_KNOWN_URL: "public-key" and "authority".
Document == [key : Keys \cup {None}, authority : Hosts \cup {None}]

Results == {"OK", "HTTP_ERROR", "UNTRUSTED_ISSUER", "NO_KEY", "INVALID_SIGNATURE"}

ASSUME AuthorityAssumption ==
    /\ None \notin Hosts \cup Keys \cup Results
    /\ SecondaryAuthorities \subseteq Hosts
    /\ {MaxDelegations, Skew, Lifetime, MaxTime, MaxChanges} \subseteq Nat
    /\ UseCache \in BOOLEAN
    /\ Initially \in [Hosts -> Document] /\ Documents \subseteq Document
    /\ Certificates \subseteq [domain : Hosts, iss : Hosts, key : Keys]

VARIABLES
    published,   \* the document of each host
    since,       \* history: when it was published
    last,        \* history: when each document of a host was last the published one
    changes,
    cache,       \* AuthorityCache
    now,
    ver          \* the verification each thread is in

vars == <<published, since, last, changes, cache, now, ver>>

NoDocument == [key |-> None, authority |-> None]
Never == MaxTime + 1

Pc == {"idle", "lookup", "retrieve", "store", "delegation", "chain", "done"}
Verification ==
    [pc : Pc, asks : {"issuer", "chain"}, domain : Hosts \cup {None}, iss : Hosts \cup {None},
     key : Keys \cup {None}, time : 0..MaxTime, host : Hosts \cup {None}, doc : Document,
     exp : 0..(MaxTime + Lifetime), hops : 0..MaxDelegations, trail : Seq(Hosts),
     result : Results \cup {None}]
NoVerification ==
    [pc |-> "idle", asks |-> "issuer", domain |-> None, iss |-> None, key |-> None, time |-> 0,
     host |-> None, doc |-> NoDocument, exp |-> 0, hops |-> 0, trail |-> <<>>, result |-> None]

Init ==
    /\ published = Initially
    /\ since = [h \in Hosts |-> 0]
    /\ last = [h \in Hosts |-> [d \in Document |-> IF d = Initially[h] THEN 0 ELSE Never]]
    /\ changes = 0
    /\ cache = [h \in Hosts |-> None]
    /\ now = 0
    /\ ver = [v \in Verifiers |-> NoVerification]

-----------------------------------------------------------------------------
(***************************************************************************)
(* The providers and the clock.                                            *)
(***************************************************************************)

Publish(h, d) ==
    /\ changes < MaxChanges
    /\ d # published[h]
    /\ changes' = changes + 1
    /\ published' = [published EXCEPT ![h] = d]
    /\ since' = [since EXCEPT ![h] = now]
    /\ last' = [last EXCEPT ![h][d] = now]
    /\ UNCHANGED <<cache, now, ver>>

Tick ==
    /\ now < MaxTime
    /\ now' = now + 1
    /\ last' = [h \in Hosts |-> [last[h] EXCEPT ![published[h]] = now + 1]]
    /\ UNCHANGED <<published, since, changes, cache, ver>>

-----------------------------------------------------------------------------
(***************************************************************************)
(* _BIDAcquireAuthority.                                                   *)
(***************************************************************************)

Acquires(v, h, asks) ==
    [v EXCEPT !.pc = "lookup", !.asks = asks, !.host = h, !.doc = NoDocument, !.exp = 0]
Acquired(v) == [v EXCEPT !.pc = IF v.asks = "issuer" THEN "delegation" ELSE "chain"]
Ends(v, result) == [v EXCEPT !.pc = "done", !.result = result]

\* _BIDValidateExpiry of a cached document, which has neither "iat" nor "nbf".
Unexpired(entry, time) == time <= entry.exp + Skew

Lookup(v) ==
    LET me == ver[v]
        hit == UseCache /\ cache[me.host] # None /\ Unexpired(cache[me.host], me.time)
    IN
    /\ me.pc = "lookup"
    /\ ver' = [ver EXCEPT ![v] =
           IF hit THEN Acquired([me EXCEPT !.doc = cache[me.host].doc])
                  ELSE [me EXCEPT !.pc = "retrieve"]]
    /\ UNCHANGED <<published, since, last, changes, cache, now>>

\* The reply carries the time it expires at: 0 if the server states none that
\* can be used.
RetrieveDocument(v) ==
    /\ ver[v].pc = "retrieve"
    /\ \E exp \in {0, now + Lifetime} :
           LET got == [ver[v] EXCEPT !.doc = published[ver[v].host], !.exp = exp]
           IN ver' = [ver EXCEPT ![v] = IF UseCache THEN [got EXCEPT !.pc = "store"] ELSE Acquired(got)]
    /\ UNCHANGED <<published, since, last, changes, cache, now>>

RetrieveFails(v) ==
    /\ ver[v].pc = "retrieve"
    /\ ver' = [ver EXCEPT ![v] = Ends(@, "HTTP_ERROR")]
    /\ UNCHANGED <<published, since, last, changes, cache, now>>

\* Wrong variant: the document is cached without the time it expires at.
StoredWithoutExpiry(me) == [doc |-> me.doc]

Stored(me) == [doc |-> me.doc, exp |-> me.exp]

\* Wrong variant: what was stored is looked up.
LooksUpAgain(me) == [me EXCEPT !.pc = "lookup"]

AfterStore(me) == Acquired(me)

\* That the document cannot be stored is not an error.
SetCacheObject(v) ==
    /\ ver[v].pc = "store"
    /\ \/ cache' = [cache EXCEPT ![ver[v].host] = Stored(ver[v])]
       \/ UNCHANGED cache
    /\ ver' = [ver EXCEPT ![v] = AfterStore(@)]
    /\ UNCHANGED <<published, since, last, changes, now>>

-----------------------------------------------------------------------------
(***************************************************************************)
(* _BIDValidateCertIssuer and _BIDIssuerIsAuthoritative.                   *)
(***************************************************************************)

\* A certificate for an address at c.domain, issued by c.iss, signed with c.key.
ValidateCertIssuer(v, c) ==
    LET begun == [NoVerification EXCEPT !.domain = c.domain, !.iss = c.iss, !.key = c.key,
                                        !.time = now, !.trail = <<c.domain>>]
        trusted == c.domain = c.iss \/ c.iss \in SecondaryAuthorities
    IN
    /\ ver[v].pc = "idle"
    /\ ver' = [ver EXCEPT ![v] = IF trusted THEN Acquires(begun, c.iss, "chain")
                                            ELSE Acquires(begun, c.domain, "issuer")]
    /\ UNCHANGED <<published, since, last, changes, cache, now>>

Follows(n) == n < MaxDelegations

\* Wrong variant: a host that names no other authority vouches for any issuer.
DecidedOpen(me) ==
    IF me.doc.authority \in {me.iss, None} THEN "yes" ELSE "undecided"

\* What the document at hand says about the issuer.
Decided(me) ==
    CASE me.doc.authority = None -> "no"
      [] me.doc.authority = me.iss -> "yes"
      [] OTHER -> "undecided"

\* One round of the loop of _BIDIssuerIsAuthoritative.
IssuerIsAuthoritative(v) ==
    LET me == ver[v]
        verdict == Decided(me)
    IN
    /\ me.pc = "delegation"
    /\ ver' = [ver EXCEPT ![v] =
           CASE ~Follows(me.hops) \/ verdict = "no" -> Ends(me, "UNTRUSTED_ISSUER")
             [] Follows(me.hops) /\ verdict = "yes" ->
                    Acquires([me EXCEPT !.trail = Append(@, me.iss)], me.iss, "chain")
             [] OTHER ->
                    Acquires([me EXCEPT !.trail = Append(@, me.doc.authority), !.hops = @ + 1],
                             me.doc.authority, "issuer")]
    /\ UNCHANGED <<published, since, last, changes, cache, now>>

\* Wrong variant: the key of a cached document that has expired is good too.
KeyOfCached(me) ==
    IF cache[me.iss] # None /\ cache[me.iss].doc.key = me.key THEN me.key ELSE me.doc.key

\* _BIDGetAuthorityPublicKey
GetAuthorityPublicKey(me) == me.doc.key

\* _BIDValidateCertChain: the only certificate is signed with the issuer's key.
\* Nothing is kept of what the issuer's document said before.
ValidateCertChain(v) ==
    LET me == ver[v] IN
    /\ me.pc = "chain"
    /\ ver' = [ver EXCEPT ![v] = Ends(me, CASE GetAuthorityPublicKey(me) = None -> "NO_KEY"
                                            [] GetAuthorityPublicKey(me) = me.key -> "OK"
                                            [] OTHER -> "INVALID_SIGNATURE")]
    /\ UNCHANGED <<published, since, last, changes, cache, now>>

\* The caller is done with the result.
Return(v) ==
    /\ ver[v].pc = "done"
    /\ ver' = [ver EXCEPT ![v] = NoVerification]
    /\ UNCHANGED <<published, since, last, changes, cache, now>>

Begin(v) == \E c \in Certificates : ValidateCertIssuer(v, c)

Acquire(v) == Lookup(v) \/ RetrieveDocument(v) \/ RetrieveFails(v) \/ SetCacheObject(v)
Step(v) == Acquire(v) \/ IssuerIsAuthoritative(v) \/ ValidateCertChain(v)

Next ==
    \/ Tick
    \/ \E h \in Hosts, d \in Documents : Publish(h, d)
    \/ \E v \in Verifiers : Begin(v) \/ Step(v) \/ Return(v)

\* A request to a provider returns, by an error if there is no answer.
Fairness == \A v \in Verifiers : WF_vars(Step(v))
SafetySpec == Init /\ [][Next]_vars
Spec == SafetySpec /\ Fairness

-----------------------------------------------------------------------------
(***************************************************************************)
(* Properties.                                                             *)
(***************************************************************************)

\* The documents, the cache and the verifications have their types.
TypeOK ==
    /\ published \in [Hosts -> Document]
    /\ since \in [Hosts -> 0..MaxTime]
    /\ last \in [Hosts -> [Document -> 0..Never]]
    /\ changes \in 0..MaxChanges
    /\ \A h \in Hosts : cache[h] = None \/ cache[h] \in [doc : Document, exp : 0..(MaxTime + Lifetime)]
    /\ now \in 0..MaxTime
    /\ \A v \in Verifiers : ver[v] \in Verification

\* Host h published, less than a document's lifetime and the skew before time,
\* a document with property P.
Recently(h, time, P(_)) ==
    \E d \in Document : P(d) /\ last[h][d] # Never /\ time <= last[h][d] + Lifetime + Skew

\* A certificate is accepted only if its issuer published the key it is signed
\* with, and not longer ago than a document may be cached plus the clock skew
\* (_BIDAcquireAuthority, _BIDValidateExpiry): a key that was withdrawn is used
\* for that long and no longer, whatever threads store into the shared cache.
WithdrawnKeyExpires ==
    \A v \in Verifiers :
        LET me == ver[v] IN
        me.result = "OK" => Recently(me.iss, me.time, LAMBDA d : d.key = me.key)

\* A certificate is accepted only from the host of the address, from a secondary
\* authority, or from the end of a chain of at most MaxDelegations hosts, each of
\* which recently published that it delegates to the next
\* (_BIDIssuerIsAuthoritative).
IssuerAuthorised ==
    \A v \in Verifiers :
        LET me == ver[v]
            n == Len(me.trail)
        IN
        me.result = "OK" =>
            \/ me.iss = me.domain \/ me.iss \in SecondaryAuthorities
            \/ /\ n - 1 \in 1..MaxDelegations
               /\ me.trail[1] = me.domain /\ me.trail[n] = me.iss
               /\ \A i \in 1..(n - 1) :
                      Recently(me.trail[i], me.time, LAMBDA d : d.authority = me.trail[i + 1])

\* A key its issuer has published for longer than an older document can live in
\* the cache is not refused: a key rotation blocks nobody for good, although a
\* slow thread may store the old document over the new one
\* (_BIDAcquireAuthority).
SettledKeyAccepted ==
    \A v \in Verifiers :
        LET me == ver[v] IN
        ~(/\ me.result \in {"INVALID_SIGNATURE", "NO_KEY"}
          /\ published[me.iss].key = me.key
          /\ me.time > since[me.iss] + Lifetime + Skew)

\* The key that _BIDGetAuthorityPublicKey finds is current: a withdrawn key is used
\* no longer than a document may be cached, plus the skew, and a key that has been
\* published for longer than that is not refused.
KeysCurrent == WithdrawnKeyExpires /\ SettledKeyAccepted

\* Every verification ends, also when providers delegate to each other in a
\* circle: the loop of _BIDIssuerIsAuthoritative is bounded.
VerificationEnds ==
    \A v \in Verifiers : ver[v].pc = "lookup" ~> ver[v].pc = "done"
=============================================================================
