-------------------------- MODULE Authority_proofs ---------------------------
(***************************************************************************)
(* Theorems about Authority, for any hosts, keys, documents, certificates, *)
(* threads and lifetimes: who may have certified an address that is        *)
(* accepted, and how old the key can be.                                   *)
(***************************************************************************)
EXTENDS Authority, TLAPS

\* By the times L at which documents were last published, host h had published d
\* no longer ago than a document may be used at a verification of this time.
Seen(L, h, d, time) == L[h][d] # Never /\ time <= L[h][d] + Lifetime + Skew

\* By L, host h had published that it delegates to host g.
Delegated(L, h, g, time) == \E d \in Document : d.authority = g /\ Seen(L, h, d, time)

\* What a document and the time it expires at must satisfy to be cached for h.
Storable(L, h, d, exp) == L[h][d] # Never /\ exp <= L[h][d] + Lifetime

\* The issuer of the verification is the one whose document is asked for its key.
Granted(me) ==
    /\ me.host = me.iss
    /\ \/ me.iss = me.domain \/ me.iss \in SecondaryAuthorities
       \/ Len(me.trail) = me.hops + 2 /\ me.hops < MaxDelegations /\ me.trail[Len(me.trail)] = me.iss

\* The hosts a verification has asked, each of which delegates to the next.
TrailSound(me, L) ==
    /\ me.trail \in Seq(Hosts) /\ Len(me.trail) > 0 /\ me.trail[1] = me.domain
    /\ \A i \in 1..(Len(me.trail) - 1) : Delegated(L, me.trail[i], me.trail[i + 1], me.time)

\* Where a verification is, and what it knows there.
PlaceSound(me, L) ==
    /\ me.pc \in {"lookup", "retrieve", "store", "delegation"} /\ me.asks = "issuer" =>
           me.host = me.trail[Len(me.trail)] /\ Len(me.trail) = me.hops + 1
    /\ me.asks = "chain" => Granted(me)
    /\ me.pc = "store" => Storable(L, me.host, me.doc, me.exp)
    /\ me.pc \in {"store", "delegation", "chain"} => Seen(L, me.host, me.doc, me.time)
    /\ me.pc = "delegation" => me.asks = "issuer"
    /\ me.pc = "chain" => me.asks = "chain"
    /\ me.pc # "done" => me.result = None

\* A verdict on the signature comes from a document of the issuer.
VerdictSound(me, L) ==
    /\ me.result \in {"OK", "INVALID_SIGNATURE", "NO_KEY"} =>
           me.asks = "chain" /\ Seen(L, me.host, me.doc, me.time)
    /\ me.result = "OK" => me.doc.key = me.key
    /\ me.result \in {"INVALID_SIGNATURE", "NO_KEY"} => me.doc.key # me.key

Sound(me, L, t) ==
    IF me.pc = "idle"
    THEN me.result = None
    ELSE /\ me.domain \in Hosts /\ me.iss \in Hosts /\ me.host \in Hosts /\ me.key \in Keys
         /\ me.time <= t
         /\ TrailSound(me, L) /\ PlaceSound(me, L) /\ VerdictSound(me, L)

\* The history of the documents.
ClockInv ==
    \A h \in Hosts :
        /\ last[h][published[h]] = now /\ since[h] <= now
        /\ \A d \in Document : last[h][d] # Never =>
               last[h][d] <= now /\ (d # published[h] => last[h][d] <= since[h])

\* Only documents that were published are in the cache, with an expiry that their
\* last publication justifies, whichever thread stored them and when.
CacheInv ==
    /\ cache = [h \in Hosts |-> cache[h]]
    /\ \A h \in Hosts : cache[h] # None => Storable(last, h, cache[h].doc, cache[h].exp)

VerInv ==
    /\ ver = [v \in Verifiers |-> ver[v]]
    /\ \A v \in Verifiers : Sound(ver[v], last, now)

\* The inductive invariant.
AuthorityInv == TypeOK /\ ClockInv /\ CacheInv /\ VerInv

-----------------------------------------------------------------------------
LEMMA ConstantFacts ==
    /\ MaxDelegations \in Nat /\ Skew \in Nat /\ Lifetime \in Nat /\ MaxTime \in Nat
    /\ MaxChanges \in Nat /\ Never \in Nat /\ Never > MaxTime
    /\ None \notin Hosts /\ None \notin Keys /\ None \notin Results
    /\ NoDocument \in Document
  BY AuthorityAssumption DEF Never, NoDocument, Document

\* What is known of documents that were published stays known as time goes on.
LEMMA SeenGrows ==
    ASSUME NEW L \in [Hosts -> [Document -> 0..Never]], NEW M \in [Hosts -> [Document -> 0..Never]],
           \A h \in Hosts, d \in Document : L[h][d] # Never => M[h][d] # Never /\ L[h][d] <= M[h][d]
    PROVE /\ \A h \in Hosts, d \in Document, time \in Nat : Seen(L, h, d, time) => Seen(M, h, d, time)
          /\ \A h \in Hosts, g \in Hosts, time \in Nat : Delegated(L, h, g, time) => Delegated(M, h, g, time)
          /\ \A h \in Hosts, d \in Document, exp \in Nat :
                 Storable(L, h, d, exp) => Storable(M, h, d, exp)
  <1>1. \A h \in Hosts, d \in Document, time \in Nat : Seen(L, h, d, time) => Seen(M, h, d, time)
    BY ConstantFacts DEF Seen
  <1>2. \A h \in Hosts, g \in Hosts, time \in Nat : Delegated(L, h, g, time) => Delegated(M, h, g, time)
    BY <1>1 DEF Delegated
  <1>3. \A h \in Hosts, d \in Document, exp \in Nat :
            Storable(L, h, d, exp) => Storable(M, h, d, exp)
    BY ConstantFacts DEF Storable
  <1> QED
    BY <1>1, <1>2, <1>3

LEMMA SoundKept ==
    ASSUME NEW L \in [Hosts -> [Document -> 0..Never]], NEW M \in [Hosts -> [Document -> 0..Never]],
           \A h \in Hosts, d \in Document : L[h][d] # Never => M[h][d] # Never /\ L[h][d] <= M[h][d],
           NEW t \in Nat, NEW u \in Nat, t <= u,
           NEW me \in Verification, Sound(me, L, t)
    PROVE Sound(me, M, u)
  <1>1. CASE me.pc = "idle"
    BY <1>1 DEF Sound
  <1>2. CASE me.pc # "idle"
    <2>1. /\ me.doc \in Document /\ me.time \in Nat /\ me.exp \in Nat
      BY ConstantFacts DEF Verification
    <2>2. /\ me.domain \in Hosts /\ me.iss \in Hosts /\ me.host \in Hosts /\ me.key \in Keys
          /\ me.time <= t /\ TrailSound(me, L) /\ PlaceSound(me, L) /\ VerdictSound(me, L)
      BY <1>2 DEF Sound
    <2>3. TrailSound(me, M)
      <3>1. SUFFICES ASSUME NEW i \in 1..(Len(me.trail) - 1)
                     PROVE Delegated(M, me.trail[i], me.trail[i + 1], me.time)
        BY <2>2 DEF TrailSound
      <3>2. /\ me.trail[i] \in Hosts /\ me.trail[i + 1] \in Hosts
            /\ Delegated(L, me.trail[i], me.trail[i + 1], me.time)
        BY <2>2, <3>1 DEF TrailSound
      <3>3. \A h \in Hosts, g \in Hosts, time \in Nat : Delegated(L, h, g, time) => Delegated(M, h, g, time)
        BY SeenGrows
      <3> QED
        BY <2>1, <3>2, <3>3
    <2>4. PlaceSound(me, M)
      BY <2>1, <2>2, SeenGrows DEF PlaceSound
    <2>5. VerdictSound(me, M)
      BY <2>1, <2>2, SeenGrows DEF VerdictSound
    <2> QED
      BY <1>2, <2>1, <2>2, <2>3, <2>4, <2>5 DEF Sound
  <1> QED
    BY <1>1, <1>2

\* A step of the clock or of a provider leaves the relying party's state alone.
LEMMA HistoryKept ==
    ASSUME AuthorityInv, TypeOK', ClockInv', now <= now', UNCHANGED <<cache, ver>>,
           \A h \in Hosts, d \in Document :
               last[h][d] # Never => last'[h][d] # Never /\ last[h][d] <= last'[h][d]
    PROVE AuthorityInv'
  <1>1. /\ last \in [Hosts -> [Document -> 0..Never]] /\ last' \in [Hosts -> [Document -> 0..Never]]
        /\ now \in Nat /\ now' \in Nat
    BY ConstantFacts DEF AuthorityInv, TypeOK
  <1>2. CacheInv'
    <2>1. SUFFICES ASSUME NEW h \in Hosts, cache[h] # None
                   PROVE Storable(last', h, cache[h].doc, cache[h].exp)
      BY DEF AuthorityInv, CacheInv
    <2>2. cache[h].doc \in Document /\ cache[h].exp \in Nat
      BY <2>1, ConstantFacts DEF AuthorityInv, TypeOK
    <2>3. Storable(last, h, cache[h].doc, cache[h].exp)
      BY <2>1 DEF AuthorityInv, CacheInv
    <2> QED
      BY <1>1, <2>2, <2>3, ConstantFacts DEF Storable
  <1>3. VerInv'
    <2>1. SUFFICES ASSUME NEW v \in Verifiers PROVE Sound(ver[v], last', now')
      BY DEF AuthorityInv, VerInv
    <2>2. ver[v] \in Verification /\ Sound(ver[v], last, now)
      BY DEF AuthorityInv, VerInv, TypeOK
    <2> QED
      BY <1>1, <2>2, SoundKept
  <1> QED
    BY <1>2, <1>3 DEF AuthorityInv

LEMMA TickKeeps ==
    ASSUME AuthorityInv, Tick
    PROVE AuthorityInv'
  <1>1. /\ now < MaxTime /\ now' = now + 1 /\ now \in Nat
        /\ published' = published /\ since' = since /\ UNCHANGED <<cache, ver>>
        /\ published \in [Hosts -> Document] /\ last \in [Hosts -> [Document -> 0..Never]]
        /\ last' = [h \in Hosts |-> [last[h] EXCEPT ![published[h]] = now + 1]]
    BY DEF Tick, AuthorityInv, TypeOK
  <1>2. \A h \in Hosts, d \in Document :
            last'[h][d] = IF d = published[h] THEN now + 1 ELSE last[h][d]
    BY <1>1
  <1>3. TypeOK'
    <2>1. last' \in [Hosts -> [Document -> 0..Never]]
      BY <1>1, ConstantFacts DEF Never
    <2> QED
      BY <1>1, <2>1, ConstantFacts DEF Tick, AuthorityInv, TypeOK
  <1>4. ClockInv'
    BY <1>1, <1>2, ConstantFacts DEF AuthorityInv, TypeOK, ClockInv
  <1>5. \A h \in Hosts, d \in Document :
            last[h][d] # Never => last'[h][d] # Never /\ last[h][d] <= last'[h][d]
    BY <1>1, <1>2, ConstantFacts DEF AuthorityInv, ClockInv
  <1> QED
    BY <1>1, <1>3, <1>4, <1>5, HistoryKept

LEMMA PublishKeeps ==
    ASSUME AuthorityInv, NEW g \in Hosts, NEW e \in Documents, Publish(g, e)
    PROVE AuthorityInv'
  <1>1. /\ now' = now /\ now \in 0..MaxTime /\ e \in Document /\ changes < MaxChanges
        /\ changes' = changes + 1
        /\ published' = [published EXCEPT ![g] = e] /\ since' = [since EXCEPT ![g] = now]
        /\ last' = [last EXCEPT ![g][e] = now] /\ UNCHANGED <<cache, ver>>
        /\ published \in [Hosts -> Document] /\ last \in [Hosts -> [Document -> 0..Never]]
        /\ since \in [Hosts -> 0..MaxTime]
    BY AuthorityAssumption DEF Publish, AuthorityInv, TypeOK
  <1>2. \A h \in Hosts, d \in Document :
            last'[h][d] = IF h = g /\ d = e THEN now ELSE last[h][d]
    BY <1>1
  <1>3. TypeOK'
    <2>1. last' \in [Hosts -> [Document -> 0..Never]]
      BY <1>1, ConstantFacts DEF Never
    <2> QED
      BY <1>1, <2>1, ConstantFacts DEF AuthorityInv, TypeOK
  <1>4. ClockInv'
    BY <1>1, <1>2, ConstantFacts DEF AuthorityInv, ClockInv
  <1>5. \A h \in Hosts, d \in Document :
            last[h][d] # Never => last'[h][d] # Never /\ last[h][d] <= last'[h][d]
    BY <1>1, <1>2, ConstantFacts DEF AuthorityInv, ClockInv
  <1> QED
    BY <1>1, <1>3, <1>4, <1>5, HistoryKept

-----------------------------------------------------------------------------
\* A step of one thread, which leaves the history alone and puts the verification n
\* in the place of its own.
LEMMA ThreadStep ==
    ASSUME AuthorityInv, NEW v \in Verifiers, UNCHANGED <<published, since, last, changes, now>>,
           NEW n \in Verification, Sound(n, last, now),
           ver' = [w \in Verifiers |-> ver'[w]], ver'[v] = n,
           \A w \in Verifiers : w # v => ver'[w] = ver[w],
           CacheInv', \A h \in Hosts : cache'[h] = None
                                       \/ cache'[h] \in [doc : Document, exp : 0..(MaxTime + Lifetime)]
    PROVE AuthorityInv'
  <1>1. TypeOK'
    BY DEF AuthorityInv, TypeOK
  <1>2. ClockInv'
    BY DEF AuthorityInv, ClockInv
  <1>3. VerInv'
    BY DEF AuthorityInv, VerInv
  <1> QED
    BY <1>1, <1>2, <1>3 DEF AuthorityInv

\* A thread is in a sound verification, with its types.
LEMMA InVerification ==
    ASSUME AuthorityInv, NEW v \in Verifiers, ver[v].pc # "idle"
    PROVE LET me == ver[v] IN
          /\ me \in Verification
          /\ me.domain \in Hosts /\ me.iss \in Hosts /\ me.host \in Hosts /\ me.key \in Keys
          /\ me.time <= now
          /\ TrailSound(me, last) /\ PlaceSound(me, last) /\ VerdictSound(me, last)
  BY DEF AuthorityInv, TypeOK, VerInv, Sound

\* The cache is left alone.
LEMMA CacheLeft ==
    ASSUME AuthorityInv, UNCHANGED <<cache, last>>
    PROVE /\ CacheInv'
          /\ \A h \in Hosts : cache'[h] = None
                              \/ cache'[h] \in [doc : Document, exp : 0..(MaxTime + Lifetime)]
  BY DEF AuthorityInv, TypeOK, CacheInv

LEMMA LookupKeeps ==
    ASSUME AuthorityInv, NEW v \in Verifiers, Lookup(v)
    PROVE AuthorityInv'
  <1> DEFINE me == ver[v]
             hit == UseCache /\ cache[me.host] # None /\ Unexpired(cache[me.host], me.time)
             n == IF hit THEN Acquired([me EXCEPT !.doc = cache[me.host].doc])
                         ELSE [me EXCEPT !.pc = "retrieve"]
  <1>1. /\ me.pc = "lookup" /\ ver' = [ver EXCEPT ![v] = n]
        /\ UNCHANGED <<published, since, last, changes, cache, now>>
    BY DEF Lookup
  <1>2. /\ me \in Verification
        /\ me.domain \in Hosts /\ me.iss \in Hosts /\ me.host \in Hosts /\ me.key \in Keys
        /\ me.time <= now
        /\ TrailSound(me, last) /\ PlaceSound(me, last) /\ VerdictSound(me, last)
    BY <1>1, InVerification
  <1>3. n \in Verification /\ Sound(n, last, now)
    <2>1. CASE ~hit
      <3>1. n = [me EXCEPT !.pc = "retrieve"]
        BY <2>1
      <3>2. n \in Verification
        BY <1>2, <3>1 DEF Verification, Pc
      <3>3. /\ n.pc = "retrieve" /\ n.asks = me.asks /\ n.domain = me.domain /\ n.iss = me.iss
            /\ n.key = me.key /\ n.time = me.time /\ n.host = me.host /\ n.doc = me.doc
            /\ n.hops = me.hops /\ n.trail = me.trail /\ n.result = me.result
        BY <1>2, <3>1 DEF Verification
      <3> HIDE DEF n, me
      <3>4. TrailSound(n, last)
        BY <1>2, <3>3 DEF TrailSound
      <3>5. PlaceSound(n, last) /\ VerdictSound(n, last)
        BY <1>1, <1>2, <3>3 DEF PlaceSound, VerdictSound, Granted
      <3> QED
        BY <1>2, <3>2, <3>3, <3>4, <3>5 DEF Sound
    <2>2. CASE hit
      <3>1. /\ cache[me.host] # None /\ me.time <= cache[me.host].exp + Skew
            /\ cache[me.host] \in [doc : Document, exp : 0..(MaxTime + Lifetime)]
            /\ Storable(last, me.host, cache[me.host].doc, cache[me.host].exp)
        BY <1>2, <2>2 DEF Unexpired, AuthorityInv, CacheInv, TypeOK
      <3>2. last[me.host][cache[me.host].doc] \in Nat /\ me.time \in Nat
        <4>1. me.time \in Nat
          BY <1>2, ConstantFacts DEF Verification
        <4>2. cache[me.host].doc \in Document /\ last \in [Hosts -> [Document -> 0..Never]]
          BY <3>1 DEF AuthorityInv, TypeOK
        <4> QED
          BY <1>2, <4>1, <4>2, ConstantFacts
      <3>3. Seen(last, me.host, cache[me.host].doc, me.time)
        BY <3>1, <3>2, ConstantFacts DEF Storable, Seen
      <3>4. n = [me EXCEPT !.doc = cache[me.host].doc,
                           !.pc = IF me.asks = "issuer" THEN "delegation" ELSE "chain"]
        BY <1>2, <2>2 DEF Acquired, Verification
      <3>5. n \in Verification
        BY <1>2, <3>1, <3>4 DEF Verification, Pc
      <3>6. /\ n.pc = IF me.asks = "issuer" THEN "delegation" ELSE "chain"
            /\ n.asks = me.asks /\ n.domain = me.domain /\ n.iss = me.iss
            /\ n.key = me.key /\ n.time = me.time /\ n.host = me.host
            /\ n.doc = cache[me.host].doc
            /\ n.hops = me.hops /\ n.trail = me.trail /\ n.result = me.result
            /\ me.asks \in {"issuer", "chain"}
        BY <1>2, <3>4, ZenonT(60) DEF Verification
      <3> HIDE DEF n, me
      <3>7. TrailSound(n, last)
        BY <1>2, <3>6 DEF TrailSound
      <3>8. PlaceSound(n, last)
        BY <1>1, <1>2, <3>3, <3>6 DEF PlaceSound, Granted
      <3>9. VerdictSound(n, last)
        BY <1>1, <1>2, <3>6, ConstantFacts DEF PlaceSound, VerdictSound, Results
      <3> QED
        BY <1>2, <3>5, <3>6, <3>7, <3>8, <3>9 DEF Sound
    <2> QED
      BY <2>1, <2>2
  <1>4. /\ ver' = [w \in Verifiers |-> ver'[w]] /\ ver'[v] = n
        /\ \A w \in Verifiers : w # v => ver'[w] = ver[w]
    <2> HIDE DEF n
    <2> QED
      BY <1>1 DEF AuthorityInv, VerInv
  <1> HIDE DEF n
  <1> QED
    BY <1>1, <1>3, <1>4, CacheLeft, ThreadStep

LEMMA RetrieveDocumentKeeps ==
    ASSUME AuthorityInv, NEW v \in Verifiers, RetrieveDocument(v)
    PROVE AuthorityInv'
  <1> DEFINE me == ver[v]
             got(exp) == [me EXCEPT !.doc = published[me.host], !.exp = exp]
  <1>0. PICK exp \in {0, now + Lifetime} :
            ver' = [ver EXCEPT ![v] = IF UseCache THEN [got(exp) EXCEPT !.pc = "store"]
                                                  ELSE Acquired(got(exp))]
    BY DEF RetrieveDocument
  <1> DEFINE n == IF UseCache THEN [got(exp) EXCEPT !.pc = "store"] ELSE Acquired(got(exp))
  <1>1. /\ me.pc = "retrieve" /\ ver' = [ver EXCEPT ![v] = n]
        /\ UNCHANGED <<published, since, last, changes, cache, now>>
    BY <1>0 DEF RetrieveDocument
  <1>2. /\ me \in Verification
        /\ me.domain \in Hosts /\ me.iss \in Hosts /\ me.host \in Hosts /\ me.key \in Keys
        /\ me.time <= now
        /\ TrailSound(me, last) /\ PlaceSound(me, last) /\ VerdictSound(me, last)
    BY <1>1, InVerification
  <1>3. n \in Verification /\ Sound(n, last, now)
    <2>1. /\ exp \in 0..(MaxTime + Lifetime) /\ exp \in Nat /\ exp <= now + Lifetime
          /\ now \in Nat /\ now # Never /\ me.time \in Nat
      <3>1. now \in 0..MaxTime
        BY DEF AuthorityInv, TypeOK
      <3>2. me.time \in Nat
        BY <1>2, ConstantFacts DEF Verification
      <3> QED
        BY <3>1, <3>2, ConstantFacts
    <2>2. published[me.host] \in Document /\ last[me.host][published[me.host]] = now
      BY <1>2 DEF AuthorityInv, TypeOK, ClockInv
    <2>3. /\ Storable(last, me.host, published[me.host], exp)
          /\ Seen(last, me.host, published[me.host], me.time)
      BY <1>2, <2>1, <2>2, ConstantFacts DEF Storable, Seen
    <2>4. PICK p \in {"store", "delegation", "chain"} :
              /\ n = [me EXCEPT !.doc = published[me.host], !.exp = exp, !.pc = p]
              /\ p = "delegation" => me.asks = "issuer"
              /\ p = "chain" => me.asks = "chain"
      <3>1. CASE UseCache
        BY <1>2, <3>1 DEF Verification
      <3>2. CASE ~UseCache /\ me.asks = "issuer"
        BY <1>2, <3>2 DEF Verification, Acquired
      <3>3. CASE ~UseCache /\ me.asks # "issuer"
        BY <1>2, <3>3 DEF Verification, Acquired
      <3> QED
        BY <3>1, <3>2, <3>3
    <2>5. n \in Verification
      BY <1>2, <2>1, <2>2, <2>4 DEF Verification, Pc
    <2>6. /\ n.pc = p /\ n.doc = published[me.host] /\ n.exp = exp
          /\ n.asks = me.asks /\ n.domain = me.domain /\ n.iss = me.iss /\ n.key = me.key
          /\ n.time = me.time /\ n.host = me.host /\ n.hops = me.hops
          /\ n.trail = me.trail /\ n.result = me.result
      BY <1>2, <2>4 DEF Verification
    <2> HIDE DEF n, me
    <2>7. TrailSound(n, last)
      BY <1>2, <2>6 DEF TrailSound
    <2>8. PlaceSound(n, last)
      BY <1>1, <1>2, <2>3, <2>4, <2>6 DEF PlaceSound, Granted
    <2>9. VerdictSound(n, last)
      BY <1>1, <1>2, <2>6, ConstantFacts DEF PlaceSound, VerdictSound, Results
    <2> QED
      BY <1>2, <2>4, <2>5, <2>6, <2>7, <2>8, <2>9 DEF Sound
  <1>4. /\ ver' = [w \in Verifiers |-> ver'[w]] /\ ver'[v] = n
        /\ \A w \in Verifiers : w # v => ver'[w] = ver[w]
    <2> HIDE DEF n
    <2> QED
      BY <1>1 DEF AuthorityInv, VerInv
  <1> HIDE DEF n
  <1> QED
    BY <1>1, <1>3, <1>4, CacheLeft, ThreadStep

LEMMA RetrieveFailsKeeps ==
    ASSUME AuthorityInv, NEW v \in Verifiers, RetrieveFails(v)
    PROVE AuthorityInv'
  <1> DEFINE me == ver[v]
             n == Ends(me, "HTTP_ERROR")
  <1>1. /\ me.pc = "retrieve" /\ ver' = [ver EXCEPT ![v] = n]
        /\ UNCHANGED <<published, since, last, changes, cache, now>>
    BY DEF RetrieveFails
  <1>2. /\ me \in Verification
        /\ me.domain \in Hosts /\ me.iss \in Hosts /\ me.host \in Hosts /\ me.key \in Keys
        /\ me.time <= now
        /\ TrailSound(me, last) /\ PlaceSound(me, last) /\ VerdictSound(me, last)
    BY <1>1, InVerification
  <1>3. n \in Verification /\ Sound(n, last, now)
    <2>1. n \in Verification
      BY <1>2 DEF Ends, Verification, Pc, Results
    <2>2. /\ n.pc = "done" /\ n.result = "HTTP_ERROR"
          /\ n.asks = me.asks /\ n.domain = me.domain /\ n.iss = me.iss /\ n.key = me.key
          /\ n.time = me.time /\ n.host = me.host /\ n.hops = me.hops
          /\ n.trail = me.trail
      BY <1>2 DEF Ends, Verification
    <2> HIDE DEF n, me
    <2>3. TrailSound(n, last)
      BY <1>2, <2>2 DEF TrailSound
    <2>4. PlaceSound(n, last) /\ VerdictSound(n, last)
      BY <1>2, <2>2 DEF PlaceSound, VerdictSound, Granted
    <2> QED
      BY <1>2, <2>1, <2>2, <2>3, <2>4 DEF Sound
  <1>4. /\ ver' = [w \in Verifiers |-> ver'[w]] /\ ver'[v] = n
        /\ \A w \in Verifiers : w # v => ver'[w] = ver[w]
    <2> HIDE DEF n
    <2> QED
      BY <1>1 DEF AuthorityInv, VerInv
  <1> HIDE DEF n
  <1> QED
    BY <1>1, <1>3, <1>4, CacheLeft, ThreadStep

\* A thread that was slow may store an old document over a newer one: what is
\* stored was still published when its expiry was set.
LEMMA SetCacheObjectKeeps ==
    ASSUME AuthorityInv, NEW v \in Verifiers, SetCacheObject(v)
    PROVE AuthorityInv'
  <1> DEFINE me == ver[v]
             n == Acquired(me)
  <1>1. /\ me.pc = "store" /\ ver' = [ver EXCEPT ![v] = n]
        /\ UNCHANGED <<published, since, last, changes, now>>
    BY DEF SetCacheObject, AfterStore
  <1>2. /\ me \in Verification
        /\ me.domain \in Hosts /\ me.iss \in Hosts /\ me.host \in Hosts /\ me.key \in Keys
        /\ me.time <= now
        /\ TrailSound(me, last) /\ PlaceSound(me, last) /\ VerdictSound(me, last)
    BY <1>1, InVerification
  <1>3. n \in Verification /\ Sound(n, last, now)
    <2>1. PICK p \in {"delegation", "chain"} :
              /\ n = [me EXCEPT !.pc = p]
              /\ p = "delegation" => me.asks = "issuer"
              /\ p = "chain" => me.asks = "chain"
      <3>1. CASE me.asks = "issuer"
        BY <3>1 DEF Acquired
      <3>2. CASE me.asks # "issuer"
        BY <1>2, <3>2 DEF Verification, Acquired
      <3> QED
        BY <3>1, <3>2
    <2>2. n \in Verification
      BY <1>2, <2>1 DEF Verification, Pc
    <2>3. /\ n.pc = p /\ n.doc = me.doc
          /\ n.asks = me.asks /\ n.domain = me.domain /\ n.iss = me.iss /\ n.key = me.key
          /\ n.time = me.time /\ n.host = me.host /\ n.hops = me.hops
          /\ n.trail = me.trail /\ n.result = me.result
      BY <1>2, <2>1 DEF Verification
    <2> HIDE DEF n, me
    <2>4. TrailSound(n, last)
      BY <1>2, <2>3 DEF TrailSound
    <2>5. PlaceSound(n, last) /\ VerdictSound(n, last)
      BY <1>1, <1>2, <2>1, <2>3 DEF PlaceSound, VerdictSound, Granted
    <2> QED
      BY <1>2, <2>1, <2>2, <2>3, <2>4, <2>5 DEF Sound
  <1>4. /\ ver' = [w \in Verifiers |-> ver'[w]] /\ ver'[v] = n
        /\ \A w \in Verifiers : w # v => ver'[w] = ver[w]
    <2> HIDE DEF n
    <2> QED
      BY <1>1 DEF AuthorityInv, VerInv
  <1>5. /\ CacheInv'
        /\ \A h \in Hosts : cache'[h] = None
                            \/ cache'[h] \in [doc : Document, exp : 0..(MaxTime + Lifetime)]
    <2>1. CASE UNCHANGED cache
      BY <1>1, <2>1, CacheLeft
    <2>2. CASE cache' = [cache EXCEPT ![me.host] = Stored(me)]
      <3>1. /\ Stored(me) \in [doc : Document, exp : 0..(MaxTime + Lifetime)]
            /\ Stored(me).doc = me.doc /\ Stored(me).exp = me.exp
            /\ Storable(last, me.host, me.doc, me.exp)
        BY <1>1, <1>2 DEF Stored, Verification, PlaceSound
      <3>2. /\ cache' = [h \in Hosts |-> cache'[h]] /\ cache'[me.host] = Stored(me)
            /\ \A h \in Hosts : h # me.host => cache'[h] = cache[h]
        BY <1>2, <2>2 DEF AuthorityInv, CacheInv
      <3> HIDE DEF me
      <3>3. \A h \in Hosts : cache'[h] # None => Storable(last', h, cache'[h].doc, cache'[h].exp)
        BY <1>1, <3>1, <3>2 DEF AuthorityInv, CacheInv
      <3>4. \A h \in Hosts : cache'[h] = None
                            \/ cache'[h] \in [doc : Document, exp : 0..(MaxTime + Lifetime)]
        BY <3>1, <3>2 DEF AuthorityInv, TypeOK
      <3> QED
        BY <3>2, <3>3, <3>4 DEF CacheInv
    <2> QED
      BY <2>1, <2>2 DEF SetCacheObject
  <1> HIDE DEF n
  <1> QED
    BY <1>1, <1>3, <1>4, <1>5, ThreadStep

\* A trail that grows by a host its last host delegates to.
LEMMA TrailGrows ==
    ASSUME NEW me, NEW n, NEW g \in Hosts, TrailSound(me, last),
           Delegated(last, me.trail[Len(me.trail)], g, me.time),
           n.trail = Append(me.trail, g), n.domain = me.domain, n.time = me.time
    PROVE /\ TrailSound(n, last) /\ Len(n.trail) = Len(me.trail) + 1
          /\ n.trail[Len(n.trail)] = g
  <1> DEFINE s == me.trail
             t == n.trail
  <1>1. /\ s \in Seq(Hosts) /\ Len(s) > 0 /\ s[1] = me.domain
        /\ \A i \in 1..(Len(s) - 1) : Delegated(last, s[i], s[i + 1], me.time)
    BY DEF TrailSound
  <1>2. /\ t \in Seq(Hosts) /\ Len(t) = Len(s) + 1 /\ t[Len(s) + 1] = g /\ Len(s) \in Nat
        /\ \A i \in 1..Len(s) : t[i] = s[i]
    BY <1>1
  <1> HIDE DEF s, t
  <1>3. \A i \in 1..(Len(t) - 1) : Delegated(last, t[i], t[i + 1], me.time)
    <2> SUFFICES ASSUME NEW i \in 1..(Len(t) - 1)
                 PROVE Delegated(last, t[i], t[i + 1], me.time)
      OBVIOUS
    <2>1. CASE i = Len(s)
      BY <1>1, <1>2, <2>1 DEF s
    <2>2. CASE i # Len(s)
      <3>1. i \in 1..(Len(s) - 1) /\ t[i] = s[i] /\ t[i + 1] = s[i + 1]
        BY <1>2, <2>2
      <3> QED
        BY <1>1, <3>1
    <2> QED
      BY <2>1, <2>2
  <1> QED
    BY <1>1, <1>2, <1>3 DEF TrailSound, s, t

LEMMA ValidateCertIssuerKeeps ==
    ASSUME AuthorityInv, NEW v \in Verifiers, NEW c \in Certificates, ValidateCertIssuer(v, c)
    PROVE AuthorityInv'
  <1> DEFINE trusted == c.domain = c.iss \/ c.iss \in SecondaryAuthorities
             begun == [NoVerification EXCEPT !.domain = c.domain, !.iss = c.iss, !.key = c.key,
                                             !.time = now, !.trail = <<c.domain>>]
             n == IF trusted THEN Acquires(begun, c.iss, "chain")
                             ELSE Acquires(begun, c.domain, "issuer")
  <1>1. /\ ver' = [ver EXCEPT ![v] = n]
        /\ UNCHANGED <<published, since, last, changes, cache, now>>
    BY DEF ValidateCertIssuer
  <1>2. /\ c.domain \in Hosts /\ c.iss \in Hosts /\ c.key \in Keys
        /\ now \in 0..MaxTime
    BY AuthorityAssumption DEF AuthorityInv, TypeOK
  <1>3. n \in Verification /\ Sound(n, last, now)
    <2>1. PICK h \in Hosts, q \in {"chain", "issuer"} :
              /\ n = [pc |-> "lookup", asks |-> q, domain |-> c.domain, iss |-> c.iss,
                      key |-> c.key, time |-> now, host |-> h, doc |-> NoDocument, exp |-> 0,
                      hops |-> 0, trail |-> <<c.domain>>, result |-> None]
              /\ q = "chain" => h = c.iss /\ trusted
              /\ q = "issuer" => h = c.domain
      <3>1. CASE trusted
        BY <1>2, <3>1 DEF Acquires, NoVerification
      <3>2. CASE ~trusted
        BY <1>2, <3>2 DEF Acquires, NoVerification
      <3> QED
        BY <3>1, <3>2
    <2>2. <<c.domain>> \in Seq(Hosts) /\ Len(<<c.domain>>) = 1 /\ <<c.domain>>[1] = c.domain
      BY <1>2
    <2>3. n \in Verification
      <3>1. 0 \in 0..MaxDelegations /\ 0 \in 0..(MaxTime + Lifetime)
        BY ConstantFacts
      <3>2. n.doc \in Document /\ n.doc = NoDocument
        BY <2>1, ConstantFacts
      <3> HIDE DEF n, begun, trusted
      <3> QED
        BY <1>2, <2>1, <2>2, <3>1, <3>2 DEF Verification, Pc
    <2>4. /\ n.pc = "lookup" /\ n.asks = q /\ n.domain = c.domain /\ n.iss = c.iss /\ n.key = c.key
          /\ n.time = now /\ n.host = h /\ n.hops = 0 /\ n.trail = <<c.domain>> /\ n.result = None
      BY <2>1
    <2> HIDE DEF n, begun
    <2>5. TrailSound(n, last)
      BY <2>2, <2>4 DEF TrailSound
    <2>6. PlaceSound(n, last)
      BY <2>1, <2>2, <2>4 DEF PlaceSound, Granted
    <2>7. VerdictSound(n, last)
      BY <2>4, ConstantFacts DEF VerdictSound, Results
    <2> QED
      BY <1>2, <2>1, <2>3, <2>4, <2>5, <2>6, <2>7 DEF Sound
  <1>4. /\ ver' = [w \in Verifiers |-> ver'[w]] /\ ver'[v] = n
        /\ \A w \in Verifiers : w # v => ver'[w] = ver[w]
    <2> HIDE DEF n
    <2> QED
      BY <1>1 DEF AuthorityInv, VerInv
  <1> HIDE DEF n
  <1> QED
    BY <1>1, <1>3, <1>4, CacheLeft, ThreadStep

LEMMA IssuerIsAuthoritativeKeeps ==
    ASSUME AuthorityInv, NEW v \in Verifiers, IssuerIsAuthoritative(v)
    PROVE AuthorityInv'
  <1> DEFINE me == ver[v]
             verdict == Decided(me)
             n == CASE ~Follows(me.hops) \/ verdict = "no" -> Ends(me, "UNTRUSTED_ISSUER")
                    [] Follows(me.hops) /\ verdict = "yes" ->
                           Acquires([me EXCEPT !.trail = Append(@, me.iss)], me.iss, "chain")
                    [] OTHER ->
                           Acquires([me EXCEPT !.trail = Append(@, me.doc.authority), !.hops = @ + 1],
                                    me.doc.authority, "issuer")
  <1>1. /\ me.pc = "delegation" /\ ver' = [ver EXCEPT ![v] = n]
        /\ UNCHANGED <<published, since, last, changes, cache, now>>
    BY DEF IssuerIsAuthoritative
  <1>2. /\ me \in Verification
        /\ me.domain \in Hosts /\ me.iss \in Hosts /\ me.host \in Hosts /\ me.key \in Keys
        /\ me.time <= now
        /\ TrailSound(me, last) /\ PlaceSound(me, last) /\ VerdictSound(me, last)
    BY <1>1, InVerification
  <1>3. n \in Verification /\ Sound(n, last, now)
    <2>1. /\ me.asks = "issuer" /\ me.host = me.trail[Len(me.trail)] /\ Len(me.trail) = me.hops + 1
          /\ Seen(last, me.host, me.doc, me.time) /\ me.result = None
          /\ me.doc \in Document /\ me.hops \in 0..MaxDelegations /\ me.trail \in Seq(Hosts)
      BY <1>1, <1>2 DEF PlaceSound, Verification
    <2>2. CASE ~Follows(me.hops) \/ verdict = "no"
      <3>1. n = Ends(me, "UNTRUSTED_ISSUER")
        BY <2>2
      <3>2. n \in Verification
        BY <1>2, <3>1, ZenonT(60) DEF Ends, Verification, Pc, Results
      <3>3. /\ n.pc = "done" /\ n.result = "UNTRUSTED_ISSUER"
            /\ n.asks = me.asks /\ n.domain = me.domain /\ n.iss = me.iss /\ n.key = me.key
            /\ n.time = me.time /\ n.host = me.host /\ n.doc = me.doc /\ n.hops = me.hops
            /\ n.trail = me.trail
        BY <1>2, <3>1, ZenonT(60) DEF Ends, Verification
      <3> HIDE DEF n, me
      <3>4. TrailSound(n, last)
        BY <1>2, <3>3 DEF TrailSound
      <3>5. PlaceSound(n, last) /\ VerdictSound(n, last)
        BY <1>2, <3>3 DEF PlaceSound, VerdictSound, Granted
      <3> QED
        BY <1>2, <3>2, <3>3, <3>4, <3>5 DEF Sound
    <2>3. CASE Follows(me.hops) /\ verdict # "no"
      <3>1. /\ me.doc.authority \in Hosts /\ me.hops < MaxDelegations
            /\ Delegated(last, me.trail[Len(me.trail)], me.doc.authority, me.time)
        <4>1. me.doc.authority # None /\ me.hops < MaxDelegations
          BY <1>2, <2>3, ConstantFacts DEF Decided, Follows
        <4>2. me.doc.authority \in Hosts
          BY <2>1, <4>1 DEF Document
        <4> QED
          BY <2>1, <4>1, <4>2 DEF Delegated
      <3> DEFINE longer == Append(me.trail, me.doc.authority)
      <3>2. longer \in Seq(Hosts)
        BY <2>1, <3>1
      <3>3. PICK q \in {"chain", "issuer"}, k \in 0..MaxDelegations :
                /\ n = [me EXCEPT !.pc = "lookup", !.asks = q, !.host = me.doc.authority,
                                  !.doc = NoDocument, !.exp = 0, !.trail = longer, !.hops = k]
                /\ q = "chain" => me.doc.authority = me.iss /\ k = me.hops
                /\ q = "issuer" => k = me.hops + 1
        <4>1. CASE verdict = "yes"
          <5>1. me.doc.authority = me.iss
            BY <4>1 DEF Decided
          <5>2. n = Acquires([me EXCEPT !.trail = Append(@, me.iss)], me.iss, "chain")
            BY <2>3, <4>1
          <5>3. n = [me EXCEPT !.pc = "lookup", !.asks = "chain", !.host = me.doc.authority,
                               !.doc = NoDocument, !.exp = 0, !.trail = longer, !.hops = me.hops]
            BY <1>2, <5>1, <5>2, ZenonT(60) DEF Acquires, Verification
          <5> HIDE DEF n, me, longer
          <5> QED
            BY <2>1, <5>1, <5>3
        <4>2. CASE verdict # "yes"
          <5>1. n = Acquires([me EXCEPT !.trail = Append(@, me.doc.authority), !.hops = @ + 1],
                             me.doc.authority, "issuer")
            BY <2>3, <4>2
          <5>2. n = [me EXCEPT !.pc = "lookup", !.asks = "issuer", !.host = me.doc.authority,
                               !.doc = NoDocument, !.exp = 0, !.trail = longer, !.hops = me.hops + 1]
            BY <1>2, <5>1, ZenonT(60) DEF Acquires, Verification
          <5>3. me.hops + 1 \in 0..MaxDelegations
            BY <2>1, <3>1, ConstantFacts
          <5> HIDE DEF n, me, longer
          <5> QED
            BY <5>2, <5>3
        <4> QED
          BY <4>1, <4>2
      <3>4. n \in Verification
        <4>1. NoDocument \in Document /\ 0 \in 0..(MaxTime + Lifetime)
          BY ConstantFacts
        <4> HIDE DEF n, longer
        <4> QED
          BY <1>2, <3>1, <3>2, <3>3, <4>1 DEF Verification, Pc
      <3>5. /\ n.pc = "lookup" /\ n.asks = q /\ n.host = me.doc.authority /\ n.hops = k
            /\ n.trail = Append(me.trail, me.doc.authority) /\ n.domain = me.domain
            /\ n.iss = me.iss /\ n.key = me.key /\ n.time = me.time /\ n.result = None
        <4> HIDE DEF n
        <4> QED
          BY <1>2, <2>1, <3>3 DEF Verification
      <3> HIDE DEF n, me, longer
      <3>6. /\ TrailSound(n, last) /\ Len(n.trail) = Len(me.trail) + 1
            /\ n.trail[Len(n.trail)] = me.doc.authority
        BY <1>2, <3>1, <3>5, TrailGrows
      <3>7. PlaceSound(n, last)
        BY <2>1, <3>1, <3>3, <3>5, <3>6 DEF PlaceSound, Granted
      <3>8. VerdictSound(n, last)
        BY <3>5, ConstantFacts DEF VerdictSound, Results
      <3> QED
        BY <1>2, <3>1, <3>4, <3>5, <3>6, <3>7, <3>8 DEF Sound
    <2> QED
      BY <2>2, <2>3
  <1>4. /\ ver' = [w \in Verifiers |-> ver'[w]] /\ ver'[v] = n
        /\ \A w \in Verifiers : w # v => ver'[w] = ver[w]
    <2> HIDE DEF n
    <2> QED
      BY <1>1 DEF AuthorityInv, VerInv
  <1> HIDE DEF n
  <1> QED
    BY <1>1, <1>3, <1>4, CacheLeft, ThreadStep

LEMMA ValidateCertChainKeeps ==
    ASSUME AuthorityInv, NEW v \in Verifiers, ValidateCertChain(v)
    PROVE AuthorityInv'
  <1> DEFINE me == ver[v]
             r == CASE GetAuthorityPublicKey(me) = None -> "NO_KEY"
                    [] GetAuthorityPublicKey(me) = me.key -> "OK"
                    [] OTHER -> "INVALID_SIGNATURE"
             n == Ends(me, r)
  <1>1. /\ me.pc = "chain" /\ ver' = [ver EXCEPT ![v] = n]
        /\ UNCHANGED <<published, since, last, changes, cache, now>>
    BY DEF ValidateCertChain
  <1>2. /\ me \in Verification
        /\ me.domain \in Hosts /\ me.iss \in Hosts /\ me.host \in Hosts /\ me.key \in Keys
        /\ me.time <= now
        /\ TrailSound(me, last) /\ PlaceSound(me, last) /\ VerdictSound(me, last)
    BY <1>1, InVerification
  <1>3. n \in Verification /\ Sound(n, last, now)
    <2>1. /\ r \in {"NO_KEY", "OK", "INVALID_SIGNATURE"}
          /\ r = "OK" <=> me.doc.key = me.key
      BY <1>2, ConstantFacts DEF GetAuthorityPublicKey
    <2> HIDE DEF r
    <2>2. n \in Verification
      BY <1>2, <2>1 DEF Ends, Verification, Pc, Results
    <2>3. /\ n.pc = "done" /\ n.result = r
          /\ n.asks = me.asks /\ n.domain = me.domain /\ n.iss = me.iss /\ n.key = me.key
          /\ n.time = me.time /\ n.host = me.host /\ n.doc = me.doc /\ n.hops = me.hops
          /\ n.trail = me.trail
      BY <1>2 DEF Ends, Verification
    <2> HIDE DEF n, me
    <2>4. TrailSound(n, last)
      BY <1>2, <2>3 DEF TrailSound
    <2>5. PlaceSound(n, last) /\ VerdictSound(n, last)
      BY <1>1, <1>2, <2>1, <2>3 DEF PlaceSound, VerdictSound, Granted
    <2> QED
      BY <1>2, <2>2, <2>3, <2>4, <2>5 DEF Sound
  <1>4. /\ ver' = [w \in Verifiers |-> ver'[w]] /\ ver'[v] = n
        /\ \A w \in Verifiers : w # v => ver'[w] = ver[w]
    <2> HIDE DEF n
    <2> QED
      BY <1>1 DEF AuthorityInv, VerInv
  <1> HIDE DEF n
  <1> QED
    BY <1>1, <1>3, <1>4, CacheLeft, ThreadStep

LEMMA IdleSound == NoVerification \in Verification /\ Sound(NoVerification, last, now)
  <1>1. <<>> \in Seq(Hosts)
    OBVIOUS
  <1>2. NoVerification \in Verification
    BY <1>1, ConstantFacts DEF NoVerification, Verification, Pc
  <1>3. NoVerification.pc = "idle" /\ NoVerification.result = None
    BY DEF NoVerification
  <1> QED
    BY <1>2, <1>3 DEF Sound

LEMMA ReturnKeeps ==
    ASSUME AuthorityInv, NEW v \in Verifiers, Return(v)
    PROVE AuthorityInv'
  <1>1. /\ ver' = [ver EXCEPT ![v] = NoVerification]
        /\ UNCHANGED <<published, since, last, changes, cache, now>>
    BY DEF Return
  <1>2. /\ ver' = [w \in Verifiers |-> ver'[w]] /\ ver'[v] = NoVerification
        /\ \A w \in Verifiers : w # v => ver'[w] = ver[w]
    BY <1>1 DEF AuthorityInv, VerInv
  <1> QED
    BY <1>1, <1>2, IdleSound, CacheLeft, ThreadStep

-----------------------------------------------------------------------------
LEMMA InitSound == Init => AuthorityInv
  <1> SUFFICES ASSUME Init PROVE AuthorityInv
    OBVIOUS
  <1> USE DEF Init
  <1>1. /\ published = Initially /\ published \in [Hosts -> Document] /\ now = 0
        /\ \A h \in Hosts : since[h] = 0 /\ cache[h] = None
        /\ \A h \in Hosts, d \in Document : last[h][d] = IF d = published[h] THEN 0 ELSE Never
    BY AuthorityAssumption
  <1>2. TypeOK
    <2>1. last \in [Hosts -> [Document -> 0..Never]] /\ since \in [Hosts -> 0..MaxTime]
      BY ConstantFacts
    <2>2. \A v \in Verifiers : ver[v] \in Verification
      BY IdleSound
    <2> QED
      BY <1>1, <2>1, <2>2, ConstantFacts DEF TypeOK
  <1>3. ClockInv
    BY <1>1, ConstantFacts DEF ClockInv
  <1>4. CacheInv
    BY <1>1 DEF CacheInv
  <1>5. VerInv
    BY IdleSound DEF VerInv
  <1> QED
    BY <1>2, <1>3, <1>4, <1>5 DEF AuthorityInv

LEMMA NextKeeps == AuthorityInv /\ [Next]_vars => AuthorityInv'
  <1> SUFFICES ASSUME AuthorityInv, [Next]_vars PROVE AuthorityInv'
    OBVIOUS
  <1>1. CASE Tick
    BY <1>1, TickKeeps
  <1>2. ASSUME NEW h \in Hosts, NEW d \in Documents, Publish(h, d) PROVE AuthorityInv'
    BY <1>2, PublishKeeps
  <1>3. ASSUME NEW v \in Verifiers, Begin(v) PROVE AuthorityInv'
    BY <1>3, ValidateCertIssuerKeeps DEF Begin
  <1>4. ASSUME NEW v \in Verifiers, Step(v) PROVE AuthorityInv'
    BY <1>4, LookupKeeps, RetrieveDocumentKeeps, RetrieveFailsKeeps, SetCacheObjectKeeps,
       IssuerIsAuthoritativeKeeps, ValidateCertChainKeeps DEF Step, Acquire
  <1>5. ASSUME NEW v \in Verifiers, Return(v) PROVE AuthorityInv'
    BY <1>5, ReturnKeeps
  <1>6. CASE UNCHANGED vars
    <2>1. TypeOK'
      BY <1>6 DEF vars, AuthorityInv, TypeOK
    <2>2. ClockInv' /\ CacheInv' /\ VerInv'
      BY <1>6 DEF vars, AuthorityInv, ClockInv, CacheInv, VerInv
    <2> QED
      BY <2>1, <2>2 DEF AuthorityInv
  <1> QED
    BY <1>1, <1>2, <1>3, <1>4, <1>5, <1>6 DEF Next

\* The documents, the cache and the verifications have their types, the cache holds
\* only what was published, with an expiry its publication justifies, and each
\* verification knows what its place in _BIDValidateCertIssuer,
\* _BIDIssuerIsAuthoritative and _BIDValidateCertChain says it knows.
THEOREM AuthorityInvariant == SafetySpec => []AuthorityInv
  BY InitSound, NextKeeps, PTL DEF SafetySpec

\* Whatever threads store into the cache that _BIDAcquireAuthority shares among
\* them, an entry is a document with its expiry, and a verification knows its place.
THEOREM AuthorityTypes == SafetySpec => []TypeOK
  <1>1. AuthorityInv => TypeOK
    BY DEF AuthorityInv
  <1> QED
    BY <1>1, AuthorityInvariant, PTL

\* Whatever documents providers publish and threads store into the cache they share,
\* a certificate is accepted only with a key that its issuer published recently, and
\* a key that has been published for long enough is not refused
\* (_BIDAcquireAuthority, _BIDValidateExpiry, _BIDGetAuthorityPublicKey).
THEOREM KeysAreCurrent == SafetySpec => []KeysCurrent
  <1>1. AuthorityInv => KeysCurrent
    <2> SUFFICES ASSUME AuthorityInv, NEW v \in Verifiers
                 PROVE /\ ver[v].result = "OK" =>
                             Recently(ver[v].iss, ver[v].time, LAMBDA d : d.key = ver[v].key)
                       /\ ~(/\ ver[v].result \in {"INVALID_SIGNATURE", "NO_KEY"}
                            /\ published[ver[v].iss].key = ver[v].key
                            /\ ver[v].time > since[ver[v].iss] + Lifetime + Skew)
      BY DEF KeysCurrent, WithdrawnKeyExpires, SettledKeyAccepted
    <2> DEFINE me == ver[v]
    <2>1. CASE me.result \notin {"OK", "INVALID_SIGNATURE", "NO_KEY"}
      BY <2>1
    <2>2. CASE me.result \in {"OK", "INVALID_SIGNATURE", "NO_KEY"}
      <3>1. me.pc # "idle"
        BY <2>2, ConstantFacts DEF AuthorityInv, VerInv, Sound, Results
      <3>2. /\ me.iss \in Hosts /\ me.doc \in Document /\ Seen(last, me.iss, me.doc, me.time)
            /\ me.result = "OK" => me.doc.key = me.key
            /\ me.result \in {"INVALID_SIGNATURE", "NO_KEY"} => me.doc.key # me.key
        BY <2>2, <3>1, InVerification DEF VerdictSound, PlaceSound, Granted, Verification
      <3>3. me.result = "OK" => Recently(me.iss, me.time, LAMBDA d : d.key = me.key)
        BY <3>2 DEF Recently, Seen
      <3>4. ~(/\ me.result \in {"INVALID_SIGNATURE", "NO_KEY"}
              /\ published[me.iss].key = me.key
              /\ me.time > since[me.iss] + Lifetime + Skew)
        <4>1. me.doc # published[me.iss] => last[me.iss][me.doc] <= since[me.iss]
          BY <3>2 DEF AuthorityInv, ClockInv, Seen
        <4>2. /\ last[me.iss][me.doc] \in Nat /\ since[me.iss] \in Nat /\ me.time \in Nat
          <5>1. me.time \in Nat
            BY <3>1, InVerification, ConstantFacts DEF Verification
          <5> HIDE DEF me
          <5> QED
            BY <3>2, <5>1, ConstantFacts DEF AuthorityInv, TypeOK
        <4> HIDE DEF me
        <4> QED
          BY <3>2, <4>1, <4>2, ConstantFacts DEF Seen
      <3> QED
        BY <3>3, <3>4
    <2> QED
      BY <2>1, <2>2
  <1> QED
    BY <1>1, AuthorityInvariant, PTL

\* Whatever delegations providers publish, withdraw and close to circles, a
\* certificate is accepted only from the host of the address, from a secondary
\* authority, or from the end of a chain of at most MaxDelegations delegations, each
\* of which was published recently (_BIDIssuerIsAuthoritative).
THEOREM IssuersAuthorised == SafetySpec => []IssuerAuthorised
  <1>1. AuthorityInv => IssuerAuthorised
    <2> SUFFICES ASSUME AuthorityInv, NEW v \in Verifiers, ver[v].result = "OK",
                        ver[v].iss # ver[v].domain, ver[v].iss \notin SecondaryAuthorities
                 PROVE LET me == ver[v]
                           n == Len(me.trail)
                       IN /\ n - 1 \in 1..MaxDelegations
                          /\ me.trail[1] = me.domain /\ me.trail[n] = me.iss
                          /\ \A i \in 1..(n - 1) :
                                 Recently(me.trail[i], me.time, LAMBDA d : d.authority = me.trail[i + 1])
      BY DEF IssuerAuthorised
    <2> DEFINE me == ver[v]
               n == Len(me.trail)
    <2>1. me.pc # "idle"
      BY ConstantFacts DEF AuthorityInv, VerInv, Sound, Results
    <2>2. /\ TrailSound(me, last) /\ me.hops \in 0..MaxDelegations
          /\ n = me.hops + 2 /\ me.hops < MaxDelegations /\ me.trail[n] = me.iss
      BY <2>1, InVerification DEF VerdictSound, PlaceSound, Granted, Verification
    <2>3. n - 1 \in 1..MaxDelegations
      <3> HIDE DEF me, n
      <3> QED
        BY <2>2, ConstantFacts
    <2>4. ASSUME NEW i \in 1..(n - 1)
          PROVE Recently(me.trail[i], me.time, LAMBDA d : d.authority = me.trail[i + 1])
      <3>1. Delegated(last, me.trail[i], me.trail[i + 1], me.time)
        BY <2>2 DEF TrailSound
      <3> QED
        BY <3>1 DEF Delegated, Seen, Recently
    <2> QED
      BY <2>2, <2>3, <2>4 DEF TrailSound
  <1> QED
    BY <1>1, AuthorityInvariant, PTL
=============================================================================
