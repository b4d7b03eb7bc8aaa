--------------------------- MODULE Library_proofs ----------------------------
(***************************************************************************)
(* Theorems about the components around one context of the library, for    *)
(* any values of their constants:                                          *)
(*   LibContext   who owns each cache, for any number of contexts, caches, *)
(*                names and windows and any options;                       *)
(*   ModalSession who holds the session of a call and how often it is      *)
(*                answered, however often the dialog is told to close;     *)
(*   Http         what a body received in pieces and redirected any number *)
(*                of times is when it is parsed, for bodies of any length. *)
(***************************************************************************)
EXTENDS MCLibrary, Integers, SequenceTheorems, WellFoundedInduction, TLAPS

\* The inductive invariant: types, exclusive ownership and the options together.
OwnershipInv == TypeOK /\ ExclusiveLive /\ LeakOnlyByObject /\ OptionsHaveCaches

\* The default caches are named.
LEMMA NameFacts ==
    /\ \A s \in Slot : DefaultName(s) # None
    /\ None \notin CacheNames /\ None \notin Caches
    /\ DOMAIN Filling = {"authority", "replay", "ticket"} /\ DOMAIN Filling \subseteq Slot
  <1>1. \A s \in Slot : DefaultName(s) # None
    BY NoNameAssumption
  <1>2. None \notin CacheNames /\ None \notin Caches
    BY LibContextAssumption, NoNameAssumption
  <1>3. DOMAIN Filling = {"authority", "replay", "ticket"} /\ DOMAIN Filling \subseteq Slot
    BY DEF Filling, Slot
  <1> QED
    BY <1>1, <1>2, <1>3

\* A new cache is put into a free place.
LEMMA AllocatedFacts ==
    ASSUME NEW h, NEW n, NEW a \in Allocated(h, n)
    PROVE /\ a.cache \in Caches /\ h[a.cache] = None
          /\ a.heap = [h EXCEPT ![a.cache] = n]
  <1>1. PICK c \in Caches : h[c] = None /\ a = [heap |-> [h EXCEPT ![c] = n], cache |-> c]
    BY DEF Allocated
  <1> QED
    BY <1>1

\* BIDAcquireReplayCache, BIDAcquireTicketCache and BIDReleaseCache.
LEMMA AcquireCacheOwned ==
    ASSUME OwnershipInv, NEW n \in CacheNames, AcquireCache(n)
    PROVE OwnershipInv'
  <1>1. PICK c \in Caches : /\ heap[c] = None /\ heap' = [heap EXCEPT ![c] = n]
                            /\ owned' = owned \cup {c}
    <2>1. PICK a \in Allocated(heap, n) : heap' = a.heap /\ owned' = owned \cup {a.cache}
      BY DEF AcquireCache
    <2>2. /\ a.cache \in Caches /\ heap[a.cache] = None
          /\ a.heap = [heap EXCEPT ![a.cache] = n]
      BY AllocatedFacts
    <2> QED
      BY <2>1, <2>2
  <1>2. ctx' = ctx /\ lost' = lost /\ n # None
    BY NameFacts DEF AcquireCache
  <1> USE DEF OwnershipInv
  <1>3. TypeOK'
    BY <1>1, <1>2 DEF TypeOK, Open, Context
  <1>4. ExclusiveLive'
    BY <1>1, <1>2 DEF TypeOK, ExclusiveLive, Open, Context
  <1>5. LeakOnlyByObject'
    BY <1>1, <1>2 DEF TypeOK, LeakOnlyByObject, Open
  <1>6. OptionsHaveCaches'
    BY <1>2 DEF OptionsHaveCaches, Open
  <1> QED
    BY <1>3, <1>4, <1>5, <1>6

LEMMA ReleaseCacheOwned ==
    ASSUME OwnershipInv, NEW c \in owned, ReleaseCache(c)
    PROVE OwnershipInv'
  <1>1. /\ heap' = [d \in Caches |-> IF d = c THEN None ELSE heap[d]]
        /\ owned' = owned \ {c} /\ ctx' = ctx /\ lost' = lost
    BY DEF ReleaseCache, Released
  <1> USE DEF OwnershipInv
  <1>3. TypeOK'
    BY <1>1 DEF TypeOK, Open
  <1>4. ExclusiveLive'
    BY <1>1 DEF TypeOK, ExclusiveLive, Open, Context
  <1>5. LeakOnlyByObject'
    BY <1>1 DEF TypeOK, LeakOnlyByObject, Open
  <1>6. OptionsHaveCaches'
    BY <1>1 DEF OptionsHaveCaches, Open
  <1> QED
    BY <1>3, <1>4, <1>5, <1>6

\* BIDReleaseContext frees what the context refers to, and nothing else.
LEMMA ReleaseContextOwned ==
    ASSUME OwnershipInv, NEW x \in Contexts, ReleaseContext(x)
    PROVE OwnershipInv'
  <1>1. /\ heap' = [d \in Caches |-> IF \E s \in Slot : d = ctx[x].slots[s]
                                    THEN None ELSE heap[d]]
        /\ ctx' = [ctx EXCEPT ![x] = None] /\ owned' = owned /\ lost' = lost
    BY DEF ReleaseContext, Released
  <1>2. ctx[x] # None /\ x \in Open
    BY DEF ReleaseContext, Open
  <1> USE DEF OwnershipInv
  <1>3. Open' = Open \ {x} /\ \A y \in Open' : ctx'[y] = ctx[y]
    BY <1>1, <1>2 DEF TypeOK, Open
  <1>4. TypeOK'
    BY <1>1, <1>3 DEF TypeOK
  <1>5. ExclusiveLive'
    <2>1. ASSUME NEW y \in Open', NEW s \in Slot, ctx'[y].slots[s] # None
          PROVE /\ heap'[ctx'[y].slots[s]] # None /\ ctx'[y].slots[s] \notin owned
                /\ \A z \in Open', t \in Slot : ctx'[z].slots[t] = ctx'[y].slots[s] =>
                                                <<y, s>> = <<z, t>>
      <3>1. y \in Open /\ y # x /\ ctx'[y] = ctx[y] /\ ctx[y].slots[s] \in Caches
        BY <1>3, <2>1 DEF TypeOK, Open, Context
      <3>2. \A t \in Slot : ctx[x].slots[t] # ctx[y].slots[s]
        BY <1>2, <2>1, <3>1 DEF ExclusiveLive
      <3>3. heap'[ctx[y].slots[s]] = heap[ctx[y].slots[s]]
        BY <1>1, <3>1, <3>2
      <3>4. /\ heap[ctx[y].slots[s]] # None /\ ctx[y].slots[s] \notin owned
            /\ \A z \in Open, t \in Slot : ctx[z].slots[t] = ctx[y].slots[s] =>
                                           <<y, s>> = <<z, t>>
        BY <2>1, <3>1 DEF ExclusiveLive
      <3> QED
        BY <1>3, <3>1, <3>3, <3>4
    <2>2. ASSUME NEW c \in owned
          PROVE heap'[c] # None
      <3>1. c \in Caches /\ \A t \in Slot : ctx[x].slots[t] # c
        BY <1>2, NameFacts DEF ExclusiveLive, TypeOK
      <3> QED
        BY <1>1, <3>1 DEF ExclusiveLive
    <2> QED
      BY <1>1, <2>1, <2>2 DEF ExclusiveLive
  <1>6. LeakOnlyByObject'
    BY <1>1, <1>2, <1>3 DEF TypeOK, LeakOnlyByObject, Open
  <1>7. OptionsHaveCaches'
    BY <1>3 DEF OptionsHaveCaches
  <1> QED
    BY <1>4, <1>5, <1>6, <1>7

\* BIDSetContextParam by name: the old cache is freed once the new one is in place.
LEMMA SetCacheNameOwned ==
    ASSUME OwnershipInv, NEW x \in Contexts, NEW s \in Slot, NEW n \in CacheNames,
           SetCacheName(x, s, n)
    PROVE OwnershipInv'
  <1>i. TypeOK /\ ExclusiveLive /\ LeakOnlyByObject /\ OptionsHaveCaches
    BY DEF OwnershipInv
  <1> DEFINE old == ctx[x].slots[s]
  <1>0. x \in Open /\ owned' = owned /\ lost' = lost
    BY DEF SetCacheName, Open
  <1>1. CASE heap' = heap /\ ctx' = ctx
    BY <1>0, <1>1 DEF OwnershipInv, TypeOK, ExclusiveLive, LeakOnlyByObject, OptionsHaveCaches, Open
  <1>2. CASE ~(heap' = heap /\ ctx' = ctx)
    <2>1. PICK c \in Caches :
            /\ heap[c] = None
            /\ heap' = [d \in Caches |-> IF d = old THEN None ELSE [heap EXCEPT ![c] = n][d]]
            /\ ctx' = [ctx EXCEPT ![x].slots[s] = c]
      <3>1. PICK a \in Allocated(heap, n) :
              heap' = Replaced(a.heap, old) /\ ctx' = [ctx EXCEPT ![x].slots[s] = a.cache]
        BY <1>2 DEF SetCacheName, FailedAcquire
      <3>2. /\ a.cache \in Caches /\ heap[a.cache] = None
            /\ a.heap = [heap EXCEPT ![a.cache] = n]
        BY AllocatedFacts
      <3>3. heap' = [d \in Caches |-> IF d = old THEN None ELSE [heap EXCEPT ![a.cache] = n][d]]
        BY <3>1, <3>2 DEF Replaced, Released
      <3> QED
        BY <3>1, <3>2, <3>3
    <2>2. /\ Open' = Open /\ \A y \in Contexts : y # x => ctx'[y] = ctx[y]
          /\ ctx'[x] \in Context
          /\ ctx'[x].slots[s] = c
          /\ \A t \in Slot : t # s => ctx'[x].slots[t] = ctx[x].slots[t]
          /\ ctx'[x].options = ctx[x].options /\ ctx'[x].ecdhCurve = ctx[x].ecdhCurve
      <3>1. ctx[x] \in Context /\ ctx \in [Contexts -> Context \cup {None}]
        BY <1>0, <1>i DEF Open, TypeOK
      <3>2. ctx'[x] = [ctx[x] EXCEPT !.slots = [ctx[x].slots EXCEPT ![s] = c]]
        BY <2>1, <3>1
      <3>3. ctx'[x] \in Context
        BY <3>1, <3>2 DEF Context
      <3> QED
        BY <1>0, <2>1, <3>1, <3>2, <3>3, NoContextAssumption DEF Open, Context
    <2>3. c # old /\ n # None /\ c \notin owned
      BY <1>i, <1>0, <2>1, NameFacts DEF ExclusiveLive
    <2>o. old \in Caches \cup {None} /\ Open \subseteq Contexts
      BY <1>i, <1>0 DEF TypeOK, Open, Context
    <2>h. /\ heap'[c] = n
          /\ old # None => heap'[old] = None
          /\ \A d \in Caches : d # c /\ d # old => heap'[d] = heap[d]
      BY <1>i, <2>1, <2>3, <2>o DEF TypeOK
    <2>4. TypeOK'
      <3>1. heap' \in [Caches -> CacheNames \cup {DefaultName(t) : t \in Slot} \cup {None}]
        BY <1>i, <2>1 DEF TypeOK
      <3>2. ctx' \in [Contexts -> Context \cup {None}]
        BY <1>i, <2>1, <2>2 DEF TypeOK
      <3>3. \A y \in Open' : (ctx'[y].ecdhCurve # None) <=> ("ECDH_KEYEX" \in ctx'[y].options)
        BY <1>i, <2>2, <2>o DEF TypeOK
      <3> QED
        BY <1>i, <1>0, <3>1, <3>2, <3>3 DEF TypeOK
    <2>5. ExclusiveLive'
      <3>1. ASSUME NEW y \in Open, NEW t \in Slot, ctx'[y].slots[t] # None
            PROVE /\ ctx'[y].slots[t] \in Caches /\ heap'[ctx'[y].slots[t]] # None
                  /\ ctx'[y].slots[t] \notin owned
                  /\ <<y, t>> # <<x, s>> => ctx'[y].slots[t] # c
        <4>1. CASE <<y, t>> = <<x, s>>
          BY <2>2, <2>3, <2>h, <4>1
        <4>2. CASE <<y, t>> # <<x, s>>
          <5>1. ctx'[y].slots[t] = ctx[y].slots[t]
            BY <2>2, <2>o, <4>2
          <5>2. ctx[y].slots[t] \in Caches
            BY <1>i, <3>1, <5>1 DEF TypeOK, Open, Context
          <5>3. ctx[y].slots[t] # old
            BY <1>i, <1>0, <3>1, <4>2, <5>1 DEF ExclusiveLive
          <5>4. heap[ctx[y].slots[t]] # None /\ ctx[y].slots[t] \notin owned
            BY <1>i, <3>1, <5>1 DEF ExclusiveLive
          <5> QED
            BY <2>1, <2>h, <5>1, <5>2, <5>3, <5>4
        <4> QED
          BY <4>1, <4>2
      <3>2. ASSUME NEW y \in Open, NEW t \in Slot, NEW z \in Open, NEW u \in Slot,
                   ctx'[y].slots[t] # None, ctx'[y].slots[t] = ctx'[z].slots[u]
            PROVE <<y, t>> = <<z, u>>
        <4>1. CASE <<y, t>> = <<x, s>> \/ <<z, u>> = <<x, s>>
          BY <2>2, <3>1, <3>2, <4>1
        <4>2. CASE <<y, t>> # <<x, s>> /\ <<z, u>> # <<x, s>>
          <5>1. ctx'[y].slots[t] = ctx[y].slots[t] /\ ctx'[z].slots[u] = ctx[z].slots[u]
            BY <2>2, <2>o, <4>2
          <5>2. ctx[y].slots[t] # None /\ ctx[z].slots[u] = ctx[y].slots[t]
            BY <3>2, <5>1
          <5> QED
            BY <1>i, <5>2 DEF ExclusiveLive
        <4> QED
          BY <4>1, <4>2
      <3>3. \A d \in owned : heap'[d] # None
        <4>1. \A d \in owned : d \in Caches /\ d # c /\ d # old /\ heap[d] # None
          BY <1>i, <1>0, <2>3, NameFacts DEF ExclusiveLive, TypeOK
        <4> QED
          BY <2>h, <4>1
      <3> QED
        BY <1>i, <1>0, <2>2, <3>1, <3>2, <3>3 DEF ExclusiveLive
    <2>6. LeakOnlyByObject'
      <3> SUFFICES ASSUME NEW d \in Caches, heap'[d] # None, d \notin owned \cup lost
                   PROVE \E y \in Open, t \in Slot : ctx'[y].slots[t] = d
        BY <1>i, <1>0, <2>2 DEF LeakOnlyByObject
      <3>1. CASE d = c
        BY <1>0, <2>2, <3>1
      <3>2. CASE d # c
        <4>1. d # old /\ heap[d] # None
          BY <2>h, <3>2, NameFacts
        <4>2. PICK y \in Open, t \in Slot : ctx[y].slots[t] = d
          BY <1>i, <4>1 DEF LeakOnlyByObject
        <4> QED
          BY <2>2, <2>o, <4>1, <4>2
      <3> QED
        BY <3>1, <3>2
    <2>7. OptionsHaveCaches'
      <3> SUFFICES ASSUME NEW y \in Open, NEW t \in DOMAIN Filling,
                          Filling[t] \in ctx'[y].options
                   PROVE ctx'[y].slots[t] # None
        BY <1>i, <2>2 DEF OptionsHaveCaches
      <3>1. t \in Slot /\ ctx'[y].options = ctx[y].options /\ c # None
        BY <2>2, <2>o, NameFacts
      <3> QED
        BY <1>i, <2>2, <2>o, <3>1 DEF OptionsHaveCaches
    <2> QED
      BY <2>4, <2>5, <2>6, <2>7 DEF OwnershipInv
  <1> QED
    BY <1>1, <1>2

\* BIDSetContextParam by object: the cache becomes the context's, and what was in the
\* slot is lost.
LEMMA SetCacheOwned ==
    ASSUME OwnershipInv, NEW x \in Contexts, NEW s \in Slot, NEW c \in owned, SetCache(x, s, c)
    PROVE OwnershipInv'
  <1>i. TypeOK /\ ExclusiveLive /\ LeakOnlyByObject /\ OptionsHaveCaches
    BY DEF OwnershipInv
  <1> DEFINE old == ctx[x].slots[s]
  <1>0. /\ x \in Open /\ heap' = heap /\ owned' = owned \ {c} /\ lost' = lost \cup ({old} \ {None})
        /\ c \in Caches /\ Open \subseteq Contexts
    BY <1>i DEF SetCache, Open, TypeOK
  <1>2. /\ Open' = Open /\ \A y \in Contexts : y # x => ctx'[y] = ctx[y]
        /\ ctx'[x] \in Context /\ ctx' \in [Contexts -> Context \cup {None}]
        /\ ctx'[x].slots[s] = c
        /\ \A t \in Slot : t # s => ctx'[x].slots[t] = ctx[x].slots[t]
        /\ ctx'[x].options = ctx[x].options /\ ctx'[x].ecdhCurve = ctx[x].ecdhCurve
    <2>0. ctx' = [ctx EXCEPT ![x].slots[s] = c, ![x].parentWindow = c]
      BY DEF SetCache
    <2>1. ctx[x] \in Context /\ ctx \in [Contexts -> Context \cup {None}]
      BY <1>0, <1>i DEF Open, TypeOK
    <2>2. ctx'[x] = [ctx[x] EXCEPT !.slots = [ctx[x].slots EXCEPT ![s] = c], !.parentWindow = c]
      BY <2>0, <2>1
    <2>3. ctx'[x] \in Context
      <3>1. [ctx[x].slots EXCEPT ![s] = c] \in [Slot -> Caches \cup {None}]
        BY <1>0, <2>1 DEF Context
      <3> QED
        BY <1>0, <2>1, <2>2, <3>1 DEF Context
    <2>4. /\ ctx' \in [Contexts -> Context \cup {None}]
          /\ \A y \in Contexts : y # x => ctx'[y] = ctx[y]
      BY <2>0, <2>1, <2>3
    <2>5. Open' = Open
      BY <1>0, <2>1, <2>3, <2>4, NoContextAssumption DEF Open
    <2> QED
      BY <2>1, <2>2, <2>3, <2>4, <2>5 DEF Context
  <1>h. heap[c] # None /\ \A y \in Open, t \in Slot : ctx[y].slots[t] # c
    BY <1>0, <1>i, NameFacts DEF ExclusiveLive
  <1>3. TypeOK'
    <2>1. \A y \in Open' : (ctx'[y].ecdhCurve # None) <=> ("ECDH_KEYEX" \in ctx'[y].options)
      BY <1>i, <1>0, <1>2 DEF TypeOK
    <2>2. old \in Caches \cup {None}
      BY <1>i, <1>0 DEF TypeOK, Open, Context
    <2> QED
      BY <1>i, <1>0, <1>2, <2>1, <2>2 DEF TypeOK
  <1>4. ExclusiveLive'
    <2>1. ASSUME NEW y \in Open, NEW t \in Slot, ctx'[y].slots[t] # None
          PROVE heap[ctx'[y].slots[t]] # None /\ ctx'[y].slots[t] \notin owned \ {c}
      <3>1. CASE <<y, t>> = <<x, s>>
        BY <1>2, <1>h, <3>1
      <3>2. CASE <<y, t>> # <<x, s>>
        <4>1. ctx'[y].slots[t] = ctx[y].slots[t]
          BY <1>0, <1>2, <3>2
        <4> QED
          BY <1>i, <2>1, <4>1 DEF ExclusiveLive
      <3> QED
        BY <3>1, <3>2
    <2>2. ASSUME NEW y \in Open, NEW t \in Slot, NEW z \in Open, NEW u \in Slot,
                 ctx'[y].slots[t] # None, ctx'[y].slots[t] = ctx'[z].slots[u]
          PROVE <<y, t>> = <<z, u>>
      <3>1. CASE <<y, t>> = <<x, s>> \/ <<z, u>> = <<x, s>>
        BY <1>0, <1>2, <1>h, <2>2, <3>1
      <3>2. CASE <<y, t>> # <<x, s>> /\ <<z, u>> # <<x, s>>
        <4>1. ctx'[y].slots[t] = ctx[y].slots[t] /\ ctx'[z].slots[u] = ctx[z].slots[u]
          BY <1>0, <1>2, <3>2
        <4>2. ctx[y].slots[t] # None /\ ctx[z].slots[u] = ctx[y].slots[t]
          BY <2>2, <4>1
        <4> QED
          BY <1>i, <4>2 DEF ExclusiveLive
      <3> QED
        BY <3>1, <3>2
    <2>3. \A d \in owned \ {c} : heap[d] # None
      BY <1>i DEF ExclusiveLive
    <2> QED
      BY <1>0, <1>2, <2>1, <2>2, <2>3 DEF ExclusiveLive
  <1>5. LeakOnlyByObject'
    <2> SUFFICES ASSUME NEW d \in Caches, heap[d] # None, d \notin owned' \cup lost'
                 PROVE \E y \in Open, t \in Slot : ctx'[y].slots[t] = d
      BY <1>0, <1>2 DEF LeakOnlyByObject
    <2>1. CASE d = c
      BY <1>0, <1>2, <2>1
    <2>2. CASE d # c
      <3>1. d \notin owned \cup lost /\ d # old
        BY <1>0, <2>2, NameFacts
      <3>2. PICK y \in Open, t \in Slot : ctx[y].slots[t] = d
        BY <1>i, <3>1 DEF LeakOnlyByObject
      <3> QED
        BY <1>0, <1>2, <3>1, <3>2
    <2> QED
      BY <2>1, <2>2
  <1>6. OptionsHaveCaches'
    <2> SUFFICES ASSUME NEW y \in Open, NEW t \in DOMAIN Filling, Filling[t] \in ctx'[y].options
                 PROVE ctx'[y].slots[t] # None
      BY <1>2 DEF OptionsHaveCaches
    <2>1. t \in Slot /\ ctx'[y].options = ctx[y].options /\ c # None
      BY <1>0, <1>2, NameFacts
    <2> QED
      BY <1>i, <1>0, <1>2, <2>1 DEF OptionsHaveCaches
  <1> QED
    BY <1>3, <1>4, <1>5, <1>6 DEF OwnershipInv

\* The other parameters.
LEMMA SetOtherOwned ==
    ASSUME OwnershipInv, NEW x \in Contexts,
           \/ \E w \in Windows : SetParentWindow(x, w)
           \/ \E curve \in Curve : SetECDHCurve(x, curve)
    PROVE OwnershipInv'
  <1>i. TypeOK /\ ExclusiveLive /\ LeakOnlyByObject /\ OptionsHaveCaches
    BY DEF OwnershipInv
  <1>0. x \in Open /\ UNCHANGED <<heap, owned, lost>>
    BY DEF SetParentWindow, SetECDHCurve, Open
  <1>1. ctx[x] \in Context /\ ctx \in [Contexts -> Context \cup {None}] /\ Open \subseteq Contexts
    BY <1>0, <1>i DEF Open, TypeOK
  <1>2. /\ ctx' \in [Contexts -> Context \cup {None}] /\ ctx'[x] \in Context
        /\ \A y \in Contexts : y # x => ctx'[y] = ctx[y]
        /\ ctx'[x].slots = ctx[x].slots /\ ctx'[x].options = ctx[x].options
        /\ \/ ctx'[x].ecdhCurve = ctx[x].ecdhCurve
           \/ ctx'[x].ecdhCurve # None /\ "ECDH_KEYEX" \in ctx[x].options
    <2>1. ASSUME NEW w \in Windows, SetParentWindow(x, w)
          PROVE /\ ctx' = [ctx EXCEPT ![x].parentWindow = w]
                /\ ctx'[x] \in Context
                /\ ctx'[x].slots = ctx[x].slots /\ ctx'[x].options = ctx[x].options
                /\ ctx'[x].ecdhCurve = ctx[x].ecdhCurve
      BY <1>1, <2>1 DEF SetParentWindow, Context
    <2>2. ASSUME NEW v \in Curve, SetECDHCurve(x, v)
          PROVE /\ ctx' = [ctx EXCEPT ![x].ecdhCurve = v]
                /\ ctx'[x] \in Context
                /\ ctx'[x].slots = ctx[x].slots /\ ctx'[x].options = ctx[x].options
                /\ ctx'[x].ecdhCurve # None /\ "ECDH_KEYEX" \in ctx[x].options
      BY <1>1, <2>2, LibContextAssumption DEF SetECDHCurve, CurveAllowed, Context
    <2> QED
      BY <1>1, <2>1, <2>2
  <1>3. Open' = Open
    BY <1>0, <1>1, <1>2, NoContextAssumption DEF Open
  <1>s. \A y \in Open : ctx'[y].slots = ctx[y].slots /\ ctx'[y].options = ctx[y].options
    BY <1>1, <1>2
  <1>4. TypeOK'
    <2>1. \A y \in Open : (ctx'[y].ecdhCurve # None) <=> ("ECDH_KEYEX" \in ctx'[y].options)
      BY <1>i, <1>1, <1>2 DEF TypeOK
    <2> QED
      BY <1>i, <1>0, <1>2, <1>3, <2>1 DEF TypeOK
  <1>5. ExclusiveLive'
    BY <1>i, <1>0, <1>3, <1>s DEF ExclusiveLive
  <1>6. LeakOnlyByObject'
    BY <1>i, <1>0, <1>3, <1>s DEF LeakOnlyByObject
  <1>7. OptionsHaveCaches'
    BY <1>i, <1>3, <1>s DEF OptionsHaveCaches, Filling, Slot
  <1> QED
    BY <1>4, <1>5, <1>6, <1>7 DEF OwnershipInv

-----------------------------------------------------------------------------
\* BIDAcquireContext takes the caches it is given and acquires the others.
LEMMA AcquireContextOwned ==
    ASSUME OwnershipInv, NEW x \in Contexts, NEW options \in Options, NEW args \in Args,
           NEW config \in {DefaultName("config"), None}, AcquireContext(x, options, args, config)
    PROVE OwnershipInv'
  <1>i. TypeOK /\ ExclusiveLive /\ LeakOnlyByObject /\ OptionsHaveCaches
    BY DEF OwnershipInv
  <1> DEFINE W == {s \in DOMAIN Filling : Filling[s] \in options}
             fresh == {s \in DOMAIN Filling : Wants(options, args, s) /\ args[s] = None}
                        \cup (IF config = None THEN {} ELSE {"config"})
             Name(s) == IF s = "config" THEN config ELSE DefaultName(s)
             given == {args[s] : s \in W}
  <1>a. /\ args \in [Slot -> owned \cup {None}] /\ args["config"] = None
        /\ \A s, t \in Slot : s # t /\ args[s] = args[t] => args[s] = None
    BY DEF Args
  <1>f. /\ fresh \subseteq Slot /\ W \subseteq Slot /\ "config" \notin W
        /\ \A s \in W : s \notin fresh => args[s] # None
        /\ \A s \in fresh : args[s] = None
        /\ \A s \in fresh : s \in W \/ s = "config"
    BY <1>a, NameFacts DEF Wants, Slot
  <1>1. PICK new \in [fresh -> {c \in Caches : heap[c] = None}] :
          /\ \A s, t \in fresh : s # t => new[s] # new[t]
          /\ heap' = [c \in Caches |->
                       IF \E s \in fresh : new[s] = c
                       THEN Name(CHOOSE s \in fresh : new[s] = c) ELSE heap[c]]
          /\ ctx' = [ctx EXCEPT ![x] =
                      [options |-> options, slots |-> Filled(options, args, new),
                       parentWindow |-> None,
                       ecdhCurve |-> IF "ECDH_KEYEX" \in options THEN "P-256" ELSE None]]
    BY DEF AcquireContext
  <1>2. ctx[x] = None /\ owned' = owned \ given /\ lost' = lost
    BY DEF AcquireContext
  <1> DEFINE slots == Filled(options, args, new)
  <1>d. DOMAIN new = fresh /\ \A s \in fresh : new[s] \in Caches /\ heap[new[s]] = None
    BY <1>1
  <1>3. ASSUME NEW s \in Slot
        PROVE /\ s \in fresh => slots[s] = new[s]
              /\ s \notin fresh /\ s \in W => slots[s] = args[s]
              /\ s \notin fresh /\ s \notin W => slots[s] = None
    BY <1>d DEF Filled, Wants
  <1>n. config # None => config = DefaultName("config")
    OBVIOUS
  <1>c. "config" \in Slot /\ \A s \in fresh : Name(s) \in {DefaultName(t) : t \in Slot}
    <2>1. "config" \in Slot /\ ("config" \in fresh => config # None)
      BY NameFacts DEF Slot
    <2> QED
      BY <1>f, <1>n, <2>1
  <1> HIDE DEF W, fresh, Name, slots, given
  <1>4. ASSUME NEW s \in Slot, slots[s] # None
        PROVE \/ s \in fresh /\ slots[s] = new[s]
              \/ s \in W /\ slots[s] = args[s] /\ args[s] \in owned /\ args[s] \in given
    BY <1>3, <1>4, <1>a DEF given
  <1>5. slots \in [Slot -> Caches \cup {None}]
    <2>1. ASSUME NEW s \in Slot PROVE slots[s] \in Caches \cup {None}
      BY <1>4, <1>d, <1>i DEF TypeOK
    <2> QED
      BY <2>1 DEF slots, Filled
  <1>6. ASSUME NEW c \in Caches
        PROVE /\ (\E s \in fresh : new[s] = c) => heap'[c] \in {DefaultName(t) : t \in Slot}
              /\ (\A s \in fresh : new[s] # c) => heap'[c] = heap[c]
    <2>1. CASE \E s \in fresh : new[s] = c
      <3>1. PICK u : u = CHOOSE s \in fresh : new[s] = c
        OBVIOUS
      <3>2. u \in fresh
        BY <2>1, <3>1
      <3>3. heap'[c] = Name(u)
        BY <1>1, <2>1, <3>1
      <3> QED
        BY <1>c, <2>1, <3>2, <3>3
    <2>2. CASE \A s \in fresh : new[s] # c
      BY <1>1, <2>2
    <2> QED
      BY <2>1, <2>2
  <1>7. /\ ctx' \in [Contexts -> Context \cup {None}]
        /\ \A y \in Contexts : y # x => ctx'[y] = ctx[y]
        /\ ctx'[x] \in Context /\ ctx'[x].slots = slots /\ ctx'[x].options = options
        /\ (ctx'[x].ecdhCurve # None) <=> ("ECDH_KEYEX" \in options)
    <2>1. ctx \in [Contexts -> Context \cup {None}]
      BY <1>i DEF TypeOK
    <2>2. ctx'[x] = [options |-> options, slots |-> slots, parentWindow |-> None,
                     ecdhCurve |-> IF "ECDH_KEYEX" \in options THEN "P-256" ELSE None]
      BY <1>1, <2>1 DEF slots
    <2>3. options \subseteq OptionName /\ "P-256" \in Curve /\ "P-256" # None
      BY LibContextAssumption DEF Curve
    <2>4. ctx'[x] \in Context
      BY <1>5, <2>2, <2>3 DEF Context
    <2> QED
      BY <1>1, <2>1, <2>2, <2>3, <2>4
  <1>8. /\ Open' = Open \cup {x} /\ x \notin Open /\ Open \subseteq Contexts
        /\ \A y \in Open : ctx'[y] = ctx[y]
    BY <1>2, <1>7, NoContextAssumption DEF Open
  <1>9. TypeOK'
    <2>1. heap' \in [Caches -> CacheNames \cup {DefaultName(s) : s \in Slot} \cup {None}]
      <3>1. ASSUME NEW c \in Caches
            PROVE heap'[c] \in CacheNames \cup {DefaultName(s) : s \in Slot} \cup {None}
        BY <1>6, <1>i DEF TypeOK
      <3>2. heap' = [c \in Caches |-> heap'[c]]
        BY <1>1
      <3> QED
        BY <3>1, <3>2
    <2>2. \A y \in Open' : (ctx'[y].ecdhCurve # None) <=> ("ECDH_KEYEX" \in ctx'[y].options)
      BY <1>i, <1>7, <1>8 DEF TypeOK
    <2> QED
      BY <1>i, <1>2, <1>7, <2>1, <2>2 DEF TypeOK
  <1>10. ASSUME NEW c \in Caches, heap[c] # None
         PROVE heap'[c] = heap[c] /\ \A s \in fresh : new[s] # c
    BY <1>6, <1>10, <1>d
  <1>11. ExclusiveLive'
    <2>1. ASSUME NEW y \in Open, NEW t \in Slot, ctx[y].slots[t] # None
          PROVE /\ ctx[y].slots[t] \in Caches /\ ctx[y].slots[t] \notin owned
                /\ heap[ctx[y].slots[t]] # None
      BY <1>i, <2>1 DEF ExclusiveLive, TypeOK, Open, Context
    <2>2. ASSUME NEW s \in Slot, slots[s] # None
          PROVE /\ slots[s] \in Caches /\ heap'[slots[s]] # None /\ slots[s] \notin owned'
                /\ \A y \in Open, t \in Slot : ctx[y].slots[t] # slots[s]
                /\ \A t \in Slot : slots[t] = slots[s] => t = s
      <3>1. CASE s \in fresh
        <4>1. slots[s] = new[s] /\ new[s] \in Caches /\ heap[new[s]] = None
          BY <1>3, <1>d, <3>1
        <4>2. new[s] \notin owned
          BY <1>i, <4>1 DEF ExclusiveLive
        <4>3. heap'[new[s]] # None
          BY <1>6, <3>1, <4>1, NameFacts
        <4>4. \A t \in Slot : slots[t] = slots[s] => t = s
          BY <1>1, <1>4, <2>2, <3>1, <4>1, <4>2
        <4> QED
          BY <1>2, <2>1, <2>2, <4>1, <4>2, <4>3, <4>4
      <3>2. CASE s \notin fresh
        <4>1. s \in W /\ slots[s] = args[s] /\ args[s] \in owned /\ args[s] \in given
          BY <1>4, <2>2, <3>2
        <4>2. args[s] \in Caches /\ heap[args[s]] # None
          BY <1>i, <4>1 DEF ExclusiveLive, TypeOK
        <4>3. heap'[args[s]] # None /\ \A t \in fresh : new[t] # args[s]
          BY <1>10, <4>2
        <4>4. \A t \in Slot : slots[t] = slots[s] => t = s
          <5> SUFFICES ASSUME NEW t \in Slot, slots[t] = slots[s] PROVE t = s
            OBVIOUS
          <5>1. t \notin fresh
            BY <1>3, <4>1, <4>3
          <5>2. slots[t] = args[t]
            BY <1>4, <2>2, <5>1
          <5> QED
            BY <1>a, <2>2, <4>1, <5>2
        <4> QED
          BY <1>2, <2>1, <2>2, <4>1, <4>2, <4>3, <4>4
      <3> QED
        BY <3>1, <3>2
    <2>3. ASSUME NEW y \in Open', NEW t \in Slot, ctx'[y].slots[t] # None
          PROVE /\ heap'[ctx'[y].slots[t]] # None /\ ctx'[y].slots[t] \notin owned'
                /\ \A z \in Open', u \in Slot : ctx'[z].slots[u] = ctx'[y].slots[t] =>
                                                <<y, t>> = <<z, u>>
      <3>1. CASE y = x
        BY <1>7, <1>8, <2>2, <2>3, <3>1
      <3>2. CASE y # x
        <4>1. y \in Open /\ ctx'[y] = ctx[y] /\ ctx[y].slots[t] # None
          BY <1>8, <2>3, <3>2
        <4>2. /\ ctx[y].slots[t] \in Caches /\ ctx[y].slots[t] \notin owned
              /\ heap[ctx[y].slots[t]] # None
          BY <2>1, <4>1
        <4>3. heap'[ctx[y].slots[t]] # None
          BY <1>10, <4>2
        <4>4. ASSUME NEW z \in Open', NEW u \in Slot, ctx'[z].slots[u] = ctx'[y].slots[t]
              PROVE <<y, t>> = <<z, u>>
          <5>1. CASE z = x
            BY <1>7, <2>2, <4>1, <4>4, <5>1
          <5>2. CASE z # x
            <6>1. z \in Open /\ ctx[z].slots[u] = ctx[y].slots[t]
              BY <1>8, <4>1, <4>4, <5>2
            <6> QED
              BY <1>i, <4>1, <6>1 DEF ExclusiveLive
          <5> QED
            BY <5>1, <5>2
        <4> QED
          BY <1>2, <4>1, <4>2, <4>3, <4>4
      <3> QED
        BY <3>1, <3>2
    <2>4. ASSUME NEW c \in owned' PROVE heap'[c] # None
      <3>1. c \in Caches /\ heap[c] # None
        BY <1>2, <1>i DEF ExclusiveLive, TypeOK
      <3> QED
        BY <1>10, <3>1
    <2> QED
      BY <2>3, <2>4 DEF ExclusiveLive
  <1>12. LeakOnlyByObject'
    <2> SUFFICES ASSUME NEW c \in Caches, heap'[c] # None, c \notin owned' \cup lost'
                 PROVE \E y \in Open', t \in Slot : ctx'[y].slots[t] = c
      BY DEF LeakOnlyByObject
    <2>1. CASE \E s \in fresh : new[s] = c
      BY <1>3, <1>7, <1>8, <1>f, <2>1
    <2>2. CASE c \in given
      <3>1. PICK s \in W : c = args[s]
        BY <2>2 DEF given
      <3>2. s \in Slot /\ s \notin fresh
        BY <1>f, <3>1, NameFacts
      <3> QED
        BY <1>3, <1>7, <1>8, <3>1, <3>2
    <2>3. CASE ~(\E s \in fresh : new[s] = c) /\ c \notin given
      <3>1. heap[c] # None /\ c \notin owned \cup lost
        BY <1>2, <1>6, <2>3
      <3>2. PICK y \in Open, t \in Slot : ctx[y].slots[t] = c
        BY <1>i, <3>1 DEF LeakOnlyByObject
      <3> QED
        BY <1>8, <3>2
    <2> QED
      BY <2>1, <2>2, <2>3
  <1>13. OptionsHaveCaches'
    <2> SUFFICES ASSUME NEW y \in Open', NEW t \in DOMAIN Filling, Filling[t] \in ctx'[y].options
                 PROVE ctx'[y].slots[t] # None
      BY DEF OptionsHaveCaches
    <2>1. CASE y = x
      <3>1. t \in W /\ t \in Slot
        BY <1>7, <1>f, <2>1 DEF W
      <3>2. slots[t] # None
        BY <1>3, <1>d, <1>f, <3>1, NameFacts
      <3> QED
        BY <1>7, <2>1, <3>2
    <2>2. CASE y # x
      BY <1>8, <1>i, <2>2 DEF OptionsHaveCaches
    <2> QED
      BY <2>1, <2>2
  <1> QED
    BY <1>9, <1>11, <1>12, <1>13 DEF OwnershipInv

\* A failing BIDAcquireContext frees the caches of the caller that it has taken.
LEMMA AcquireContextFailsOwned ==
    ASSUME OwnershipInv, NEW x \in Contexts, NEW options \in Options, NEW args \in Args,
           NEW s \in DOMAIN Filling, AcquireContextFails(x, options, args, s)
    PROVE OwnershipInv'
  <1>i. TypeOK /\ ExclusiveLive /\ LeakOnlyByObject /\ OptionsHaveCaches
    BY DEF OwnershipInv
  <1>1. PICK taken : /\ taken \subseteq owned
                     /\ heap' = [c \in Caches |-> IF c \in taken THEN None ELSE heap[c]]
                     /\ owned' = owned \ taken
    <2> DEFINE taken == {args[t] : t \in {u \in DOMAIN Filling \cap Before(s) :
                                            Filling[u] \in options}} \ {None}
    <2>1. /\ heap' = [c \in Caches |-> IF c \in taken THEN None ELSE heap[c]]
          /\ owned' = owned \ taken
      BY DEF AcquireContextFails, Released
    <2>2. taken \subseteq owned
      BY NameFacts DEF Args
    <2> HIDE DEF taken
    <2> QED
      BY <2>1, <2>2
  <1>2. ctx' = ctx /\ lost' = lost /\ Open' = Open
    BY DEF AcquireContextFails, Open
  <1>3. TypeOK'
    BY <1>i, <1>1, <1>2 DEF TypeOK
  <1>4. ExclusiveLive'
    <2>1. ASSUME NEW y \in Open, NEW t \in Slot, ctx[y].slots[t] # None
          PROVE ctx[y].slots[t] \in Caches /\ ctx[y].slots[t] \notin taken
      BY <1>i, <1>1, <2>1 DEF ExclusiveLive, TypeOK, Open, Context
    <2>2. \A c \in owned' : c \in Caches /\ heap'[c] # None
      BY <1>i, <1>1 DEF ExclusiveLive, TypeOK
    <2> QED
      BY <1>i, <1>1, <1>2, <2>1, <2>2 DEF ExclusiveLive
  <1>5. LeakOnlyByObject'
    BY <1>i, <1>1, <1>2 DEF LeakOnlyByObject
  <1>6. OptionsHaveCaches'
    BY <1>i, <1>2 DEF OptionsHaveCaches
  <1> QED
    BY <1>3, <1>4, <1>5, <1>6 DEF OwnershipInv

LEMMA OwnershipInit ==
    ASSUME Init
    PROVE OwnershipInv
  <1>1. Open = {}
    BY DEF Init, Open
  <1> QED
    BY <1>1 DEF Init, OwnershipInv, TypeOK, ExclusiveLive, LeakOnlyByObject, OptionsHaveCaches

LEMMA OwnershipStep ==
    ASSUME OwnershipInv, [Next]_vars
    PROVE OwnershipInv'
  <1>1. CASE Next
    BY <1>1, AcquireCacheOwned, ReleaseCacheOwned, AcquireContextOwned,
       AcquireContextFailsOwned, ReleaseContextOwned, SetCacheNameOwned, SetCacheOwned,
       SetOtherOwned DEF Next
  <1>2. CASE UNCHANGED vars
    BY <1>2 DEF vars, OwnershipInv, TypeOK, ExclusiveLive, LeakOnlyByObject,
                OptionsHaveCaches, Open
  <1> QED
    BY <1>1, <1>2

-----------------------------------------------------------------------------
(***************************************************************************)
(* ModalSession.  The inductive invariant says, for each place of the      *)
(* caller, who holds the session and whether the handler was called; it    *)
(* holds until a race has ended the behaviour, and the race is known then. *)
(***************************************************************************)

ModalTypes ==
    /\ platform \in {"mac", "ios", "stub"} /\ api \in {"sync", "async"}
    /\ caller \in {"main", "background"}
    /\ pc \in {"alloc", "begin", "ui", "begun", "run", "modal", "running", "finish", "cleanup", "return", "fault"}
    /\ session \in {"none", "live", "released"}
    /\ own \in BOOLEAN /\ bound \in BOOLEAN /\ uiContext \in BOOLEAN /\ early \in BOOLEAN
    /\ dialog \in {"none", "loading", "shown", "closed", "gone"}
    /\ bidError \in Modal!Errors \cup {"OK"} /\ err \in Modal!Errors \cup {"OK"}
    /\ cc \in Modal!Errors \cup {"OK", "none"}
    /\ source \in {"nil", "added", "signalled"}
    /\ calls \in 0..1 /\ closes \in 0..MaxCloses
    /\ identity \in {"none", "returned", "released"}
    /\ fault \in {"none", "released", "null"}

\* The caller is on its way from the making of the dialog to the end of its loop.
InDialog == {"ui", "begun", "run", "modal", "running"}

\* The controller is bound to a live session exactly while the dialog is on the screen.
DialogFacts ==
    /\ bound <=> dialog \in {"loading", "shown"}
    /\ bound => session = "live" /\ calls = 0 /\ err = "OK" /\ closes = 0
                /\ (pc \in InDialog \/ (pc = "return" /\ api = "async"))
    /\ IF dialog = "none" THEN closes = 0 ELSE platform # "stub"
    /\ dialog = "closed" => platform = "ios" /\ closes >= 1
    /\ source = "signalled" => calls = 1 /\ dialog = "closed"

\* The handler was called, once, exactly if it has said how the call ends.
AnswerFacts ==
    /\ calls = 0 => identity = "none"
    /\ calls = 1 => /\ session = "released" /\ cc # "none"
                    /\ api = "sync" => (identity = "returned" <=> cc = "OK")
                    /\ api = "async" => identity # "returned"

\* The caller's pointer to the session, and its error, at each place.
CallerFacts ==
    /\ pc \in {"alloc", "begin"} => dialog = "none"
    /\ pc = "alloc" => session = "none" /\ ~own /\ calls = 0 /\ err = "OK"
    /\ pc = "begin" => session = "live" /\ own /\ calls = 0 /\ err = "OK"
    /\ pc \in InDialog =>
         /\ err = "OK" /\ (bound \/ calls = 1)
         /\ own \/ (pc = "begun" /\ calls = 1)
    /\ pc \in {"ui", "begun", "run"} /\ own /\ session = "released" => caller = "background" /\ early
    /\ pc \in {"run", "modal", "running", "finish"} => api = "sync"
    /\ pc = "finish" => calls = 1
    /\ pc = "cleanup" =>
         \/ calls = 0 /\ err # "OK" /\ (IF own THEN session = "live" ELSE session = "none")
         \/ calls = 1 /\ ~own /\ api = "sync" /\ err = cc
    /\ pc = "return" =>
         \/ calls = 0 /\ err # "OK" /\ session # "live"
         \/ calls = 1 /\ api = "sync" /\ err = cc
         \/ api = "async" /\ err = "OK" /\ (bound \/ calls = 1)

ModalInv ==
    /\ ModalTypes
    /\ pc = "fault" <=> fault # "none"
    /\ Modal!FaultOnlyByRace
    /\ pc # "fault" => DialogFacts /\ AnswerFacts /\ CallerFacts

LEMMA AllocModalSessionModal ==
    ASSUME ModalInv, Modal!AllocModalSession
    PROVE ModalInv'
  <1> USE DEF Modal!AllocModalSession, Modal!callerVars, Modal!sessionVars, Modal!dialogVars,
              ModalInv, ModalTypes, Modal!Errors
  <1>b. own' \in BOOLEAN /\ bound' \in BOOLEAN /\ uiContext' \in BOOLEAN /\ early' \in BOOLEAN
    BY Zenon
  <1>1. ModalTypes'
    BY <1>b DEF CallerFacts, AnswerFacts, InDialog
  <1>2. (pc = "fault" <=> fault # "none")' /\ Modal!FaultOnlyByRace'
    BY DEF CallerFacts, InDialog, Modal!FaultOnlyByRace
  <1>3. pc' # "fault" => DialogFacts'
    BY DEF CallerFacts, DialogFacts, InDialog
  <1>4. pc' # "fault" => AnswerFacts'
    BY DEF CallerFacts, AnswerFacts, InDialog
  <1>5. pc' # "fault" => CallerFacts'
    BY DEF CallerFacts, DialogFacts, AnswerFacts, InDialog
  <1> QED
    BY <1>1, <1>2, <1>3, <1>4, <1>5

LEMMA BeginModalSessionReauthModal ==
    ASSUME ModalInv, Modal!BeginModalSessionReauth
    PROVE ModalInv'
  <1> USE DEF Modal!BeginModalSessionReauth, Modal!Completed, Modal!OwnAfterReauth,
              Modal!IdentityAfter, Modal!callerVars, Modal!sessionVars, Modal!dialogVars,
              ModalInv, ModalTypes, Modal!Errors
  <1>b. own' \in BOOLEAN /\ bound' \in BOOLEAN /\ uiContext' \in BOOLEAN /\ early' \in BOOLEAN
    BY Zenon
  <1>1. ModalTypes'
    BY <1>b DEF CallerFacts, AnswerFacts, InDialog
  <1>2. (pc = "fault" <=> fault # "none")' /\ Modal!FaultOnlyByRace'
    BY DEF CallerFacts, InDialog, Modal!FaultOnlyByRace
  <1>3. pc' # "fault" => DialogFacts'
    BY DEF CallerFacts, DialogFacts, InDialog
  <1>4. pc' # "fault" => AnswerFacts'
    BY DEF CallerFacts, AnswerFacts, InDialog
  <1>5. pc' # "fault" => CallerFacts'
    BY DEF CallerFacts, DialogFacts, AnswerFacts, InDialog
  <1> QED
    BY <1>1, <1>2, <1>3, <1>4, <1>5

LEMMA BeginModalSessionFailsModal ==
    ASSUME ModalInv, Modal!BeginModalSessionFails
    PROVE ModalInv'
  <1> USE DEF Modal!BeginModalSessionFails, Modal!callerVars, Modal!sessionVars,
              Modal!dialogVars, ModalInv, ModalTypes, Modal!Errors
  <1>b. own' \in BOOLEAN /\ bound' \in BOOLEAN /\ uiContext' \in BOOLEAN /\ early' \in BOOLEAN
    BY Zenon
  <1>1. ModalTypes'
    BY <1>b DEF CallerFacts, AnswerFacts, InDialog
  <1>2. (pc = "fault" <=> fault # "none")' /\ Modal!FaultOnlyByRace'
    BY DEF CallerFacts, InDialog, Modal!FaultOnlyByRace
  <1>3. pc' # "fault" => DialogFacts'
    BY DEF CallerFacts, DialogFacts, InDialog
  <1>4. pc' # "fault" => AnswerFacts'
    BY DEF CallerFacts, AnswerFacts, InDialog
  <1>5. pc' # "fault" => CallerFacts'
    BY DEF CallerFacts, DialogFacts, AnswerFacts, InDialog
  <1> QED
    BY <1>1, <1>2, <1>3, <1>4, <1>5

LEMMA GetAssertionUnavailableModal ==
    ASSUME ModalInv, Modal!GetAssertionUnavailable
    PROVE ModalInv'
  <1> USE DEF Modal!GetAssertionUnavailable, Modal!callerVars, Modal!sessionVars,
              Modal!dialogVars, ModalInv, ModalTypes, Modal!Errors
  <1>b. own' \in BOOLEAN /\ bound' \in BOOLEAN /\ uiContext' \in BOOLEAN /\ early' \in BOOLEAN
    BY Zenon
  <1>1. ModalTypes'
    BY <1>b DEF CallerFacts, AnswerFacts, InDialog
  <1>2. (pc = "fault" <=> fault # "none")' /\ Modal!FaultOnlyByRace'
    BY DEF CallerFacts, InDialog, Modal!FaultOnlyByRace
  <1>3. pc' # "fault" => DialogFacts'
    BY DEF CallerFacts, DialogFacts, InDialog
  <1>4. pc' # "fault" => AnswerFacts'
    BY DEF CallerFacts, AnswerFacts, InDialog
  <1>5. pc' # "fault" => CallerFacts'
    BY DEF CallerFacts, DialogFacts, AnswerFacts, InDialog
  <1> QED
    BY <1>1, <1>2, <1>3, <1>4, <1>5

LEMMA GetAssertionModal ==
    ASSUME ModalInv, Modal!GetAssertion
    PROVE ModalInv'
  <1> USE DEF Modal!GetAssertion, Modal!callerVars, Modal!sessionVars, Modal!dialogVars,
              ModalInv, ModalTypes, Modal!Errors
  <1>b. own' \in BOOLEAN /\ bound' \in BOOLEAN /\ uiContext' \in BOOLEAN /\ early' \in BOOLEAN
    BY Zenon
  <1>1. ModalTypes'
    BY <1>b DEF CallerFacts, AnswerFacts, InDialog
  <1>2. (pc = "fault" <=> fault # "none")' /\ Modal!FaultOnlyByRace'
    BY DEF CallerFacts, InDialog, Modal!FaultOnlyByRace
  <1>3. pc' # "fault" => DialogFacts'
    BY DEF CallerFacts, DialogFacts, InDialog
  <1>4. pc' # "fault" => AnswerFacts'
    BY DEF CallerFacts, AnswerFacts, InDialog
  <1>5. pc' # "fault" => CallerFacts'
    BY DEF CallerFacts, DialogFacts, AnswerFacts, InDialog
  <1> QED
    BY <1>1, <1>2, <1>3, <1>4, <1>5

LEMMA SetModalSessionUIContextModal ==
    ASSUME ModalInv, Modal!SetModalSessionUIContext
    PROVE ModalInv'
  <1> USE DEF Modal!SetModalSessionUIContext, Modal!Faults, Modal!callerVars,
              Modal!sessionVars, Modal!dialogVars, ModalInv, ModalTypes, Modal!Errors
  <1>b. own' \in BOOLEAN /\ bound' \in BOOLEAN /\ uiContext' \in BOOLEAN /\ early' \in BOOLEAN
    BY Zenon
  <1>1. ModalTypes'
    BY <1>b DEF CallerFacts, AnswerFacts, InDialog
  <1>2. (pc = "fault" <=> fault # "none")' /\ Modal!FaultOnlyByRace'
    BY DEF CallerFacts, InDialog, Modal!FaultOnlyByRace
  <1>3. pc' # "fault" => DialogFacts'
    BY DEF CallerFacts, DialogFacts, InDialog
  <1>4. pc' # "fault" => AnswerFacts'
    BY DEF CallerFacts, AnswerFacts, InDialog
  <1>5. pc' # "fault" => CallerFacts'
    BY DEF CallerFacts, DialogFacts, AnswerFacts, InDialog
  <1> QED
    BY <1>1, <1>2, <1>3, <1>4, <1>5

LEMMA BegunModal ==
    ASSUME ModalInv, Modal!Begun
    PROVE ModalInv'
  <1> USE DEF Modal!Begun, Modal!callerVars, Modal!sessionVars, Modal!dialogVars, ModalInv,
              ModalTypes, Modal!Errors
  <1>b. own' \in BOOLEAN /\ bound' \in BOOLEAN /\ uiContext' \in BOOLEAN /\ early' \in BOOLEAN
    BY Zenon
  <1>1. ModalTypes'
    BY <1>b DEF CallerFacts, AnswerFacts, InDialog
  <1>2. (pc = "fault" <=> fault # "none")' /\ Modal!FaultOnlyByRace'
    BY DEF CallerFacts, InDialog, Modal!FaultOnlyByRace
  <1>3. pc' # "fault" => DialogFacts'
    BY DEF CallerFacts, DialogFacts, InDialog
  <1>4. pc' # "fault" => AnswerFacts'
    BY DEF CallerFacts, AnswerFacts, InDialog
  <1>5. pc' # "fault" => CallerFacts'
    BY DEF CallerFacts, DialogFacts, AnswerFacts, InDialog
  <1> QED
    BY <1>1, <1>2, <1>3, <1>4, <1>5

LEMMA GetModalSessionUIContextModal ==
    ASSUME ModalInv, Modal!GetModalSessionUIContext
    PROVE ModalInv'
  <1> USE DEF Modal!GetModalSessionUIContext, Modal!Faults, Modal!callerVars,
              Modal!sessionVars, Modal!dialogVars, ModalInv, ModalTypes, Modal!Errors
  <1>b. own' \in BOOLEAN /\ bound' \in BOOLEAN /\ uiContext' \in BOOLEAN /\ early' \in BOOLEAN
    BY Zenon
  <1>1. ModalTypes'
    BY <1>b DEF CallerFacts, AnswerFacts, InDialog
  <1>2. (pc = "fault" <=> fault # "none")' /\ Modal!FaultOnlyByRace'
    BY DEF CallerFacts, InDialog, Modal!FaultOnlyByRace
  <1>3. pc' # "fault" => DialogFacts'
    BY DEF CallerFacts, DialogFacts, InDialog
  <1>4. pc' # "fault" => AnswerFacts'
    BY DEF CallerFacts, AnswerFacts, InDialog
  <1>5. pc' # "fault" => CallerFacts'
    BY DEF CallerFacts, DialogFacts, AnswerFacts, InDialog
  <1> QED
    BY <1>1, <1>2, <1>3, <1>4, <1>5

LEMMA RunModalModal ==
    ASSUME ModalInv, Modal!RunModal
    PROVE ModalInv'
  <1> USE DEF Modal!RunModal, Modal!callerVars, Modal!sessionVars, Modal!dialogVars, ModalInv,
              ModalTypes, Modal!Errors
  <1>b. own' \in BOOLEAN /\ bound' \in BOOLEAN /\ uiContext' \in BOOLEAN /\ early' \in BOOLEAN
    BY Zenon
  <1>1. ModalTypes'
    BY <1>b DEF CallerFacts, AnswerFacts, InDialog
  <1>2. (pc = "fault" <=> fault # "none")' /\ Modal!FaultOnlyByRace'
    BY DEF CallerFacts, InDialog, Modal!FaultOnlyByRace
  <1>3. pc' # "fault" => DialogFacts'
    BY DEF CallerFacts, DialogFacts, InDialog
  <1>4. pc' # "fault" => AnswerFacts'
    BY DEF CallerFacts, AnswerFacts, InDialog
  <1>5. pc' # "fault" => CallerFacts'
    BY DEF CallerFacts, DialogFacts, AnswerFacts, InDialog
  <1> QED
    BY <1>1, <1>2, <1>3, <1>4, <1>5

LEMMA FinishModal ==
    ASSUME ModalInv, Modal!Finish
    PROVE ModalInv'
  <1> USE DEF Modal!Finish, Modal!callerVars, Modal!sessionVars, Modal!dialogVars, ModalInv,
              ModalTypes, Modal!Errors
  <1>b. own' \in BOOLEAN /\ bound' \in BOOLEAN /\ uiContext' \in BOOLEAN /\ early' \in BOOLEAN
    BY Zenon
  <1>1. ModalTypes'
    BY <1>b DEF CallerFacts, AnswerFacts, InDialog
  <1>2. (pc = "fault" <=> fault # "none")' /\ Modal!FaultOnlyByRace'
    BY DEF CallerFacts, InDialog, Modal!FaultOnlyByRace
  <1>3. pc' # "fault" => DialogFacts'
    BY DEF CallerFacts, DialogFacts, InDialog
  <1>4. pc' # "fault" => AnswerFacts'
    BY DEF CallerFacts, AnswerFacts, InDialog
  <1>5. pc' # "fault" => CallerFacts'
    BY DEF CallerFacts, DialogFacts, AnswerFacts, InDialog
  <1> QED
    BY <1>1, <1>2, <1>3, <1>4, <1>5

LEMMA CleanupModal ==
    ASSUME ModalInv, Modal!Cleanup
    PROVE ModalInv'
  <1> USE DEF Modal!Cleanup, Modal!Faults, Modal!callerVars, Modal!sessionVars,
              Modal!dialogVars, ModalInv, ModalTypes, Modal!Errors
  <1>b. own' \in BOOLEAN /\ bound' \in BOOLEAN /\ uiContext' \in BOOLEAN /\ early' \in BOOLEAN
    BY Zenon
  <1>1. ModalTypes'
    BY <1>b DEF CallerFacts, AnswerFacts, InDialog
  <1>2. (pc = "fault" <=> fault # "none")' /\ Modal!FaultOnlyByRace'
    BY DEF CallerFacts, InDialog, Modal!FaultOnlyByRace
  <1>3. pc' # "fault" => DialogFacts'
    BY DEF CallerFacts, DialogFacts, InDialog
  <1>4. pc' # "fault" => AnswerFacts'
    BY DEF CallerFacts, AnswerFacts, InDialog
  <1>5. pc' # "fault" => CallerFacts'
    BY DEF CallerFacts, DialogFacts, AnswerFacts, InDialog
  <1> QED
    BY <1>1, <1>2, <1>3, <1>4, <1>5

LEMMA DidFinishLoadModal ==
    ASSUME ModalInv, Modal!DidFinishLoad
    PROVE ModalInv'
  <1> USE DEF Modal!DidFinishLoad, Modal!callerVars, Modal!sessionVars, Modal!dialogVars,
              ModalInv, ModalTypes, Modal!Errors, Modal!MainLoop
  <1>b. own' \in BOOLEAN /\ bound' \in BOOLEAN /\ uiContext' \in BOOLEAN /\ early' \in BOOLEAN
    BY Zenon
  <1>1. ModalTypes'
    BY <1>b DEF CallerFacts, AnswerFacts, InDialog
  <1>2. (pc = "fault" <=> fault # "none")' /\ Modal!FaultOnlyByRace'
    BY DEF CallerFacts, InDialog, Modal!FaultOnlyByRace
  <1>3. pc' # "fault" => DialogFacts'
    BY DEF CallerFacts, DialogFacts, InDialog
  <1>4. pc' # "fault" => AnswerFacts'
    BY DEF CallerFacts, AnswerFacts, InDialog
  <1>5. pc' # "fault" => CallerFacts'
    BY DEF CallerFacts, DialogFacts, AnswerFacts, InDialog
  <1> QED
    BY <1>1, <1>2, <1>3, <1>4, <1>5

LEMMA DismissIdentityDialogAndStopModalModal ==
    ASSUME ModalInv, Modal!DismissIdentityDialogAndStopModal
    PROVE ModalInv'
  <1> USE DEF Modal!DismissIdentityDialogAndStopModal, Modal!callerVars, Modal!sessionVars,
              Modal!dialogVars, ModalInv, ModalTypes, Modal!Errors, Modal!MainLoop
  <1>b. own' \in BOOLEAN /\ bound' \in BOOLEAN /\ uiContext' \in BOOLEAN /\ early' \in BOOLEAN
    BY Zenon
  <1>1. ModalTypes'
    BY <1>b DEF CallerFacts, AnswerFacts, InDialog
  <1>2. (pc = "fault" <=> fault # "none")' /\ Modal!FaultOnlyByRace'
    BY DEF CallerFacts, InDialog, Modal!FaultOnlyByRace
  <1>3. pc' # "fault" => DialogFacts'
    BY DEF CallerFacts, DialogFacts, InDialog
  <1>4. pc' # "fault" => AnswerFacts'
    BY DEF CallerFacts, AnswerFacts, InDialog
  <1>5. pc' # "fault" => CallerFacts'
    BY DEF CallerFacts, DialogFacts, AnswerFacts, InDialog
  <1> QED
    BY <1>1, <1>2, <1>3, <1>4, <1>5

\* CloseIdentityDialog of a dialog on the screen completes the session.
LEMMA ShownDialogCloses ==
    ASSUME ModalInv, Modal!MainLoop, dialog \in {"loading", "shown"},
           NEW e \in Modal!Errors \cup {"OK"}, Modal!CloseIdentityDialog(e)
    PROVE ModalInv'
  <1> USE DEF ModalInv, ModalTypes
  <1>0. /\ pc # "fault" /\ bound /\ session = "live" /\ calls = 0 /\ err = "OK" /\ closes = 0
        /\ pc \in InDialog \/ (pc = "return" /\ api = "async")
        /\ platform # "stub" /\ identity = "none" /\ fault = "none"
        /\ caller = "background" \/ pc \in {"running", "return"}
    BY DEF DialogFacts, AnswerFacts, Modal!MainLoop
  <1>1. /\ calls' = 1 /\ session' = "released" /\ uiContext' = FALSE /\ bound' = FALSE
        /\ closes' = 1 /\ bidError' = e /\ fault' = fault
        /\ UNCHANGED <<platform, api, caller, own, err>>
        /\ cc' \in Modal!Errors \cup {"OK"}
        /\ identity' = IF cc' # "OK" THEN identity ELSE IF api = "sync" THEN "returned" ELSE "released"
        /\ pc' = IF platform = "mac" /\ pc = "running" THEN "finish" ELSE pc
        /\ early' = (early \/ (api = "sync" /\ pc # "running") \/ pc \in {"ui", "begun"})
        /\ dialog' = IF platform = "mac" THEN "gone" ELSE "closed"
        /\ source' = IF platform = "ios" /\ source = "added" THEN "signalled" ELSE source
    BY <1>0 DEF Modal!CloseIdentityDialog, Modal!CompleteModalSession, Modal!Completed,
                Modal!IdentityAfter, Modal!SourceAfterClose, Modal!callerVars, Modal!Errors
  <1>b. own' \in BOOLEAN /\ bound' \in BOOLEAN /\ uiContext' \in BOOLEAN /\ early' \in BOOLEAN
    BY <1>1, Zenon
  <1>2. ModalTypes'
    BY <1>0, <1>1, <1>b, MCLibraryAssumption DEF Modal!ModalSessionAssumption, InDialog
  <1>3. (pc = "fault" <=> fault # "none")' /\ Modal!FaultOnlyByRace'
    BY <1>0, <1>1 DEF Modal!FaultOnlyByRace, InDialog
  <1>4. DialogFacts'
    BY <1>0, <1>1 DEF DialogFacts, InDialog
  <1>5. AnswerFacts'
    BY <1>0, <1>1 DEF AnswerFacts, Modal!Errors
  <1>6. CallerFacts'
    BY <1>0, <1>1 DEF CallerFacts, InDialog
  <1> QED
    BY <1>2, <1>3, <1>4, <1>5, <1>6

\* A load error of a dialog that is closed already finds the controller's pointer NULL.
LEMMA ClosedDialogFaults ==
    ASSUME ModalInv, Modal!MainLoop, dialog = "closed", closes < MaxCloses,
           NEW e \in Modal!Errors \cup {"OK"}, Modal!CloseIdentityDialog(e)
    PROVE ModalInv'
  <1> USE DEF ModalInv, ModalTypes
  <1>0. pc # "fault" /\ ~bound /\ platform = "ios" /\ closes >= 1
    BY DEF DialogFacts, Modal!MainLoop
  <1>1. /\ fault' = "null" /\ pc' = "fault" /\ closes' = closes + 1 /\ bidError' = e
        /\ UNCHANGED <<platform, api, caller, own, err, session, uiContext, calls, cc, identity, bound>>
        /\ early' = (early \/ (api = "sync" /\ pc # "running") \/ pc \in {"ui", "begun"})
        /\ dialog' = "closed"
        /\ source' = IF source = "added" THEN "signalled" ELSE source
    BY <1>0 DEF Modal!CloseIdentityDialog, Modal!CompleteModalSession, Modal!Faults,
                Modal!SourceAfterClose, Modal!callerVars
  <1>b. own' \in BOOLEAN /\ bound' \in BOOLEAN /\ uiContext' \in BOOLEAN /\ early' \in BOOLEAN
    BY <1>1, Zenon
  <1>2. ModalTypes'
    BY <1>0, <1>1, <1>b, MCLibraryAssumption DEF Modal!ModalSessionAssumption
  <1>3. (pc = "fault" <=> fault # "none")' /\ Modal!FaultOnlyByRace'
    BY <1>0, <1>1 DEF Modal!FaultOnlyByRace
  <1> QED
    BY <1>1, <1>2, <1>3

LEMMA ModalStep ==
    ASSUME ModalInv, Modal!Next
    PROVE ModalInv'
  <1>1. CASE Modal!Call
    BY <1>1, AllocModalSessionModal, BeginModalSessionReauthModal, BeginModalSessionFailsModal,
       GetAssertionUnavailableModal, GetAssertionModal, SetModalSessionUIContextModal, BegunModal,
       GetModalSessionUIContextModal, RunModalModal, FinishModal, CleanupModal DEF Modal!Call
  <1>2. CASE Modal!IdentityCallback
    <2>1. PICK e \in {"OK", "INTERACT_FAILURE"} : Modal!CloseIdentityDialog(e)
      BY <1>2 DEF Modal!IdentityCallback
    <2>2. e \in Modal!Errors \cup {"OK"}
      BY DEF Modal!Errors
    <2> QED
      BY <1>2, <2>1, <2>2, ShownDialogCloses DEF Modal!IdentityCallback
  <1>3. CASE Modal!AbortWithError
    <2>1. PICK e \in {"HTTP_ERROR", "INTERACT_FAILURE"} : Modal!CloseIdentityDialog(e)
      BY <1>3 DEF Modal!AbortWithError
    <2>2. e \in Modal!Errors \cup {"OK"}
      BY DEF Modal!Errors
    <2>3. Modal!MainLoop /\ closes < MaxCloses /\ dialog \in {"loading", "shown", "closed"}
      BY <1>3 DEF Modal!AbortWithError
    <2> QED
      BY <2>1, <2>2, <2>3, ShownDialogCloses, ClosedDialogFaults
  <1>4. CASE Modal!WindowWillClose
    <2>1. bidError \in Modal!Errors \cup {"OK"}
      BY DEF ModalInv, ModalTypes
    <2> QED
      BY <1>4, <2>1, ShownDialogCloses DEF Modal!WindowWillClose
  <1> QED
    BY <1>1, <1>2, <1>3, <1>4, DidFinishLoadModal, DismissIdentityDialogAndStopModalModal
    DEF Modal!Next, Modal!User

LEMMA ModalInit ==
    ASSUME Modal!Init
    PROVE ModalInv
  <1> USE DEF Modal!Init
  <1>b. own \in BOOLEAN /\ bound \in BOOLEAN /\ uiContext \in BOOLEAN /\ early \in BOOLEAN
    BY Zenon
  <1>1. ModalTypes
    BY <1>b, MCLibraryAssumption DEF ModalTypes, Modal!Errors, Modal!ModalSessionAssumption
  <1>2. (pc = "fault" <=> fault # "none") /\ Modal!FaultOnlyByRace
    BY DEF Modal!FaultOnlyByRace
  <1>3. DialogFacts /\ AnswerFacts /\ CallerFacts
    BY DEF DialogFacts, AnswerFacts, CallerFacts, InDialog
  <1> QED
    BY <1>1, <1>2, <1>3 DEF ModalInv

LEMMA ModalSafe ==
    ASSUME ModalInv
    PROVE Modal!TypeOK /\ Modal!FaultOnlyByRace /\ Modal!AnsweredOnce
  <1> USE DEF ModalInv, ModalTypes
  <1>1. pc = "return" /\ session = "live" => dialog \in {"loading", "shown"}
    BY DEF DialogFacts, AnswerFacts, CallerFacts
  <1>2. {own, bound, uiContext, early} \subseteq BOOLEAN
    BY Zenon
  <1>3. Modal!TypeOK
    BY <1>1, <1>2 DEF Modal!TypeOK
  <1>4. Modal!AnsweredOnce
    BY DEF Modal!AnsweredOnce, DialogFacts, AnswerFacts, CallerFacts
  <1> QED
    BY <1>3, <1>4
-----------------------------------------------------------------------------
(***************************************************************************)
(* Http.                                                                   *)
(***************************************************************************)

LEMMA LeastElement ==
    ASSUME NEW S \in SUBSET Nat, S # {}
    PROVE \E x \in S : \A y \in S : x <= y
  <1>1. PICK x \in S : \A y \in S : ~(<<y, x>> \in OpToRel(<, Nat))
    BY WFMin, NatLessThanWellFounded, Zenon
  <1>2. \A y \in S : ~(y < x)
    BY <1>1 DEF OpToRel
  <1> QED
    BY <1>2

\* Twice a power of two is one.
LEMMA TwicePower ==
    ASSUME NEW p \in Nat \ {0}, Http!PowerOfTwo(p)
    PROVE Http!PowerOfTwo(2 * p)
  <1> SUFFICES ASSUME NEW d \in 1..(2 * p), NEW m \in 1..(2 * p), 2 * p = d * m, d % 2 # 0
               PROVE d = 1
    BY DEF Http!PowerOfTwo
  <1>1. PICK e \in Nat : d = 2 * e + 1
    <2>1. d = 2 * (d \div 2) + (d % 2) /\ d \div 2 \in Nat /\ d % 2 \in 0..1
      OBVIOUS
    <2> QED
      BY <2>1
  <1> DEFINE k == p - e * m
  <1>2. k \in Int /\ m = 2 * k
    <2>1. d * m = 2 * (e * m) + m
      BY <1>1
    <2>2. e * m \in Int
      OBVIOUS
    <2> QED
      BY <2>1, <2>2
  <1> HIDE DEF k
  <1>3. p = d * k
    <2>1. d * m = 2 * (d * k) /\ d * k \in Int
      BY <1>2
    <2> QED
      BY <2>1
  <1>4. k >= 1 /\ k \in 1..p /\ d \in 1..p
    <2>1. k >= 1
      BY <1>2
    <2>2. d * k >= k /\ d * k >= d
      BY <2>1, <1>2
    <2> QED
      BY <1>2, <1>3, <2>1, <2>2
  <1> QED
    BY <1>3, <1>4 DEF Http!PowerOfTwo

\* Between a number and its double there is a power of two.
LEMMA PowerBetween ==
    ASSUME NEW r \in Nat \ {0}
    PROVE \E m \in 1..(2 * r) : Http!PowerOfTwo(m) /\ m >= r
  <1> DEFINE Gap == {g \in 0..r : r - g >= 1 /\ Http!PowerOfTwo(r - g)}
  <1>1. Http!PowerOfTwo(1)
    BY DEF Http!PowerOfTwo
  <1>2. r - 1 \in Gap
    <2>1. r - 1 \in 0..r /\ r - (r - 1) = 1
      OBVIOUS
    <2> QED
      BY <1>1, <2>1
  <1>3. PICK g \in Gap : \A h \in Gap : g <= h
    <2>1. Gap \in SUBSET Nat
      OBVIOUS
    <2>2. Gap # {}
      BY <1>2
    <2> HIDE DEF Gap
    <2> QED
      BY <2>1, <2>2, LeastElement
  <1> DEFINE p == r - g
  <1>4. p \in Nat \ {0} /\ p <= r /\ Http!PowerOfTwo(p) /\ Http!PowerOfTwo(2 * p)
    BY TwicePower
  <1>5. CASE 2 * p >= r
    BY <1>4, <1>5
  <1>6. CASE 2 * p < r
    <2>1. r - 2 * p \in 0..r /\ r - (r - 2 * p) = 2 * p
      BY <1>4, <1>6
    <2>2. r - 2 * p \in Gap
      BY <1>4, <2>1
    <2>3. r - 2 * p < g
      BY <1>4
    <2> QED
      BY <1>3, <2>2, <2>3, <1>4
  <1> QED
    BY <1>4, <1>5, <1>6

\* The loop of _BIDGrowHttpBuffer ends with a size that is large enough.
LEMMA DoubledHolds ==
    ASSUME NEW from \in Nat \ {0}, NEW required \in Nat \ {0}
    PROVE Http!Doubled(from, required) \in Nat /\ Http!Doubled(from, required) >= required
  <1> DEFINE D == Http!Doublings(from, required)
             L == {s \in D : s >= required}
  <1>1. D \subseteq Nat
    BY DEF Http!Doublings
  <1>2. PICK m \in 1..(2 * required) : Http!PowerOfTwo(m) /\ m >= required
    BY PowerBetween
  <1>3. from * m \in D /\ from * m >= m
    BY <1>2 DEF Http!Doublings
  <1>4. from * m \in L
    BY <1>1, <1>2, <1>3
  <1>5. PICK s \in L : \A t \in L : s <= t
    BY <1>1, <1>4, LeastElement
  <1>6. s \in D /\ s >= required /\ \A t \in D : t >= required => s <= t
    BY <1>5
  <1>7. Http!Doubled(from, required) \in D /\ Http!Doubled(from, required) >= required
    BY <1>6 DEF Http!Doubled
  <1> QED
    BY <1>1, <1>7

\* The inductive invariant: the bytes received are the bytes counted, the buffer holds
\* them, and the headers are those of the reply unless curl was redirected.
HttpTypes ==
    /\ backend \in {"curl", "cf", "winhttp"} /\ get \in BOOLEAN
    /\ pc \in {"setup", "send", "body", "parse", "return"}
    /\ redirects \in 0..MaxRedirects
    /\ reply \in Http!Reply \cup {None} /\ headers \in Http!Headers
    /\ pieces \in Nat /\ got \in Nat /\ length \in Nat /\ offset \in Nat /\ size \in Nat
    /\ pieces <= got /\ got <= length /\ length <= MaxBody
    /\ data \in [1..size -> 0..MaxBody]
    /\ err \in {"OK", "NO_MEMORY", "HTTP_ERROR", "DOCUMENT_NOT_MODIFIED", "INVALID_JSON"}
    /\ doc = None \/ doc \in Seq(0..MaxBody)
    /\ expiry \in Int

RequestFacts ==
    /\ pc \in {"setup", "send"} => length = 0 /\ (redirects = 0 => headers = Http!NoHeaders)
    /\ pc \in {"body", "parse"} =>
         reply \in Http!Reply /\ (redirects = 0 \/ backend # "curl" => headers = Http!HeadersOfLast(reply))
    /\ pc # "return" => doc = None
    /\ pc = "parse" => got = length

BufferFacts ==
    /\ offset = got /\ (got > 0 => pieces > 0)
    /\ backend = "cf" => size = got
    /\ backend = "winhttp" => offset <= size
    /\ backend = "curl" /\ pc \in {"send", "body", "parse"} => offset < size
    /\ pc = "parse" /\ backend # "cf" => offset < size
    /\ (backend = "winhttp" => pieces <= 1) => \A i \in 1..got : data[i] = i

HttpInv == HttpTypes /\ RequestFacts /\ BufferFacts /\ Http!WholeBody /\ Http!ExpiryOfDocument

LEMMA FunctionIsSeq ==
    ASSUME NEW S, NEW n \in Nat, NEW f \in [1..n -> S]
    PROVE f \in Seq(S) /\ Len(f) = n
  <1>1. f \in Seq(S)
    BY SeqDef, Zenon
  <1> QED
    BY <1>1

LEMMA HttpAssumptions ==
    /\ MaxBody \in Nat /\ MaxRedirects \in Nat /\ Bufsiz \in Nat \ {0} /\ Day \in Nat
    /\ Dates \subseteq Nat \ {0} /\ None # invalid /\ None \notin Dates /\ invalid \notin Dates
  BY MCLibraryAssumption DEF Http!HttpAssumption

LEMMA HttpInit ==
    ASSUME Http!Init
    PROVE HttpInv
  <1> USE HttpAssumptions DEF Http!Init
  <1>1. HttpTypes
    <2>1. headers \in Http!Headers
      BY DEF Http!Headers, Http!NoHeaders, Http!HeaderValue
    <2>2. data \in [1..size -> 0..MaxBody]
      OBVIOUS
    <2> QED
      BY <2>1, <2>2 DEF HttpTypes
  <1>2. RequestFacts /\ BufferFacts
    BY DEF RequestFacts, BufferFacts
  <1> QED
    BY <1>1, <1>2 DEF HttpInv, Http!WholeBody, Http!ExpiryOfDocument

\* Without a document there is nothing to say of it.
LEMMA NoDocument ==
    ASSUME doc = None \/ err # "OK"
    PROVE Http!WholeBody /\ Http!ExpiryOfDocument
  BY DEF Http!WholeBody, Http!ExpiryOfDocument

LEMMA SetupHttp ==
    ASSUME HttpInv, Http!Setup
    PROVE HttpInv'
  <1> USE HttpAssumptions DEF Http!Setup, Http!Fails
  <1>0. HttpTypes /\ RequestFacts /\ BufferFacts /\ doc = None /\ got = 0 /\ length = 0
    BY DEF HttpInv, HttpTypes, RequestFacts
  <1>1. HttpTypes'
    BY <1>0 DEF HttpTypes, Http!Garbage
  <1>2. RequestFacts'
    BY <1>0 DEF RequestFacts
  <1>3. BufferFacts'
    BY <1>0 DEF BufferFacts, HttpTypes
  <1>4. (doc = None)'
    BY <1>0
  <1> QED
    BY <1>1, <1>2, <1>3, <1>4 DEF HttpInv, Http!WholeBody, Http!ExpiryOfDocument

LEMMA HeadersAfterType ==
    ASSUME headers \in Http!Headers, NEW r, r.date \in Http!HeaderValue, r.expires \in Http!HeaderValue
    PROVE Http!HeadersAfter(r) \in Http!Headers
  BY DEF Http!HeadersAfter, Http!HeadersOfLast, Http!Headers

LEMMA RedirectHttp ==
    ASSUME HttpInv, Http!Redirect
    PROVE HttpInv'
  <1> USE HttpAssumptions DEF Http!Redirect
  <1>0. HttpTypes /\ RequestFacts /\ BufferFacts /\ doc = None
    BY DEF HttpInv, RequestFacts
  <1>1. headers' \in Http!Headers
    <2>1. PICK r \in Http!Headers : headers' = Http!HeadersAfter(r)
      OBVIOUS
    <2>2. headers \in Http!Headers /\ r.date \in Http!HeaderValue /\ r.expires \in Http!HeaderValue
      BY <1>0 DEF HttpTypes, Http!Headers
    <2> QED
      BY <2>1, <2>2, HeadersAfterType
  <1>2. HttpTypes'
    BY <1>0, <1>1 DEF HttpTypes
  <1>3. RequestFacts'
    BY <1>0 DEF RequestFacts, HttpTypes
  <1>4. BufferFacts'
    BY <1>0 DEF BufferFacts
  <1> QED
    BY <1>0, <1>2, <1>3, <1>4 DEF HttpInv, Http!WholeBody, Http!ExpiryOfDocument

LEMMA ReceiveHttp ==
    ASSUME HttpInv, Http!Receive
    PROVE HttpInv'
  <1> USE HttpAssumptions DEF Http!Receive
  <1>0. HttpTypes /\ RequestFacts /\ BufferFacts /\ doc = None
    BY DEF HttpInv, RequestFacts
  <1>1. PICK r \in Http!Reply, n \in 0..MaxBody :
          reply' = r /\ length' = n /\ headers' = Http!HeadersAfter(r)
    OBVIOUS
  <1>2. headers' \in Http!Headers
    <2>1. headers \in Http!Headers /\ r.date \in Http!HeaderValue /\ r.expires \in Http!HeaderValue
      BY <1>0 DEF HttpTypes, Http!Reply
    <2> QED
      BY <1>1, <2>1, HeadersAfterType
  <1>3. HttpTypes'
    BY <1>0, <1>1, <1>2 DEF HttpTypes, RequestFacts
  <1>4. redirects = 0 \/ backend # "curl" => headers' = Http!HeadersOfLast(r)
    BY <1>0, <1>1 DEF RequestFacts, Http!HeadersAfter, Http!HeadersOfLast, Http!NoHeaders
  <1>5. RequestFacts'
    BY <1>0, <1>1, <1>4 DEF RequestFacts
  <1>6. BufferFacts'
    BY <1>0 DEF BufferFacts
  <1> QED
    BY <1>0, <1>3, <1>5, <1>6 DEF HttpInv, Http!WholeBody, Http!ExpiryOfDocument

LEMMA ConnectionFailsHttp ==
    ASSUME HttpInv, Http!ConnectionFails
    PROVE HttpInv'
  <1> USE DEF Http!ConnectionFails, Http!Fails
  <1>0. HttpTypes /\ RequestFacts /\ BufferFacts /\ doc = None
    BY DEF HttpInv, RequestFacts
  <1>1. HttpTypes' /\ RequestFacts' /\ BufferFacts'
    BY <1>0 DEF HttpTypes, RequestFacts, BufferFacts
  <1> QED
    BY <1>0, <1>1 DEF HttpInv, Http!WholeBody, Http!ExpiryOfDocument

LEMMA GrownHolds ==
    ASSUME HttpTypes, NEW n \in Nat
    PROVE Http!Grown(n) \in Nat /\ Http!Grown(n) >= offset + n + 1
  <1> DEFINE from == IF size = 0 THEN Bufsiz ELSE size
  <1>1. size \in Nat /\ Http!Required(n) \in Nat \ {0} /\ Http!Required(n) = offset + n + 1
    BY DEF HttpTypes, Http!Required
  <1>2. from \in Nat \ {0}
    BY <1>1, HttpAssumptions
  <1>3. Http!Doubled(from, Http!Required(n)) \in Nat /\ Http!Doubled(from, Http!Required(n)) >= Http!Required(n)
    BY <1>1, <1>2, DoubledHolds
  <1> QED
    BY <1>1, <1>3 DEF Http!Grown

\* CFNetwork appends the piece to what it has.
LEMMA PieceCF ==
    ASSUME HttpTypes, BufferFacts, NEW n \in 1..(length - got), backend = "cf",
           data' = data \o [i \in 1..n |-> got + i]
    PROVE /\ data' \in [1..(size + n) -> 0..MaxBody]
          /\ \A i \in 1..(got + n) : data'[i] = i
  <1>1. /\ size = got /\ size \in Nat /\ n \in Nat /\ got + n <= MaxBody /\ MaxBody \in Nat
        /\ data \in [1..size -> 0..MaxBody] /\ \A i \in 1..got : data[i] = i
    BY HttpAssumptions DEF HttpTypes, BufferFacts
  <1> DEFINE new == [i \in 1..n |-> got + i]
  <1>2. data \in Seq(0..MaxBody) /\ Len(data) = size
    BY <1>1, FunctionIsSeq
  <1>3. new \in Seq(0..MaxBody) /\ Len(new) = n /\ \A i \in 1..n : new[i] = got + i
    <2>1. new \in [1..n -> 0..MaxBody]
      BY <1>1
    <2>2. new \in Seq(0..MaxBody) /\ Len(new) = n
      BY <1>1, <2>1, FunctionIsSeq
    <2> QED
      BY <2>2
  <1> HIDE DEF new
  <1>4. /\ data \o new \in Seq(0..MaxBody) /\ Len(data \o new) = size + n
        /\ \A i \in 1..(size + n) : (data \o new)[i] = IF i <= size THEN data[i] ELSE new[i - size]
    BY <1>2, <1>3, ConcatProperties
  <1>5. data' = data \o new
    BY DEF new
  <1>6. \A i \in 1..(got + n) : data'[i] = i
    <2> SUFFICES ASSUME NEW i \in 1..(got + n) PROVE data'[i] = i
      OBVIOUS
    <2>1. CASE i <= size
      BY <1>1, <1>4, <1>5, <2>1
    <2>2. CASE i > size
      <3>1. i - size \in 1..n
        BY <1>1, <2>2
      <3>2. new[i - size] = i
        BY <1>1, <1>3, <3>1
      <3>3. i \in 1..(size + n) /\ ~(i <= size)
        BY <1>1, <2>2
      <3>4. (data \o new)[i] = new[i - size]
        BY <1>4, <3>3
      <3> QED
        BY <1>5, <3>2, <3>4
    <2> QED
      BY <1>1, <2>1, <2>2
  <1>7. data' \in [1..(size + n) -> 0..MaxBody]
    BY <1>4, <1>5, LenProperties
  <1> QED
    BY <1>6, <1>7

\* curl writes the piece behind what is there, WinHTTP to the start.
LEMMA PieceWritten ==
    ASSUME HttpTypes, BufferFacts, NEW n \in 1..(length - got), backend # "cf",
           data' = Http!Written(n)
    PROVE /\ data' \in [1..Http!Grown(n) -> 0..MaxBody]
          /\ (backend = "curl" \/ pieces = 0) /\ offset <= size => \A i \in 1..(got + n) : data'[i] = i
  <1>1. /\ offset = got /\ got \in Nat /\ size \in Nat /\ n \in Nat /\ got + n <= MaxBody /\ MaxBody \in Nat
        /\ data \in [1..size -> 0..MaxBody] /\ backend \in {"curl", "winhttp"}
        /\ pieces = 0 => got = 0
        /\ pieces \in Nat
    BY HttpAssumptions DEF HttpTypes, BufferFacts
  <1>2. Http!Grown(n) \in Nat /\ Http!Grown(n) >= got + n + 1
    BY <1>1, GrownHolds
  <1>3. Http!WriteAt(n) = IF backend = "winhttp" THEN 0 ELSE got
    BY <1>1 DEF Http!WriteAt
  <1>4. \A i \in 1..Http!Grown(n) :
          Http!Written(n)[i] = IF i \in (Http!WriteAt(n) + 1)..(Http!WriteAt(n) + n) THEN got + i - Http!WriteAt(n)
                              ELSE IF i <= size THEN data[i] ELSE 0
    BY DEF Http!Written, Http!Garbage
  <1>5. \A i \in 1..Http!Grown(n) : Http!Written(n)[i] \in 0..MaxBody
    BY <1>1, <1>2, <1>3, <1>4
  <1>6. data' \in [1..Http!Grown(n) -> 0..MaxBody]
    BY <1>5 DEF Http!Written
  <1>7. ASSUME backend = "curl" \/ pieces = 0, offset <= size, NEW i \in 1..(got + n)
        PROVE data'[i] = i
    <2>1. i \in 1..Http!Grown(n)
      BY <1>1, <1>2
    <2>2. CASE backend = "winhttp"
      BY <1>1, <1>3, <1>4, <1>7, <2>1, <2>2
    <2>3. CASE backend = "curl"
      <3>1. \A k \in 1..got : data[k] = k
        BY <2>3 DEF BufferFacts
      <3> QED
        BY <1>1, <1>3, <1>4, <1>7, <2>1, <2>3, <3>1
    <2> QED
      BY <1>1, <2>2, <2>3
  <1> QED
    BY <1>6, <1>7

LEMMA PieceHttp ==
    ASSUME HttpInv, Http!Piece
    PROVE HttpInv'
  <1>0. HttpTypes /\ RequestFacts /\ BufferFacts /\ doc = None /\ pc = "body"
    BY DEF HttpInv, RequestFacts, Http!Piece
  <1>1. PICK n \in 1..(length - got) :
          /\ got' = got + n /\ pieces' = pieces + 1 /\ offset' = offset + n
          /\ IF backend = "cf"
             THEN data' = data \o [i \in 1..n |-> got + i] /\ size' = size + n
             ELSE data' = Http!Written(n) /\ size' = Http!Grown(n)
    BY DEF Http!Piece
  <1>2. UNCHANGED <<backend, pc, get, redirects, reply, length, headers, err, doc, expiry>>
    BY DEF Http!Piece
  <1>t. /\ got \in Nat /\ length \in Nat /\ pieces \in Nat /\ size \in Nat /\ offset \in Nat
        /\ pieces <= got /\ got <= length /\ n \in Nat /\ n >= 1 /\ got + n <= length
        /\ offset = got /\ backend \in {"curl", "cf", "winhttp"}
    BY <1>0 DEF HttpTypes, BufferFacts
  <1>3. Http!Grown(n) \in Nat /\ Http!Grown(n) >= offset + n + 1
    BY <1>0, <1>t, GrownHolds
  <1>4. data' \in [1..size' -> 0..MaxBody]
    BY <1>0, <1>1, PieceCF, PieceWritten
  <1>5. (backend = "winhttp" => pieces' <= 1) => \A i \in 1..got' : data'[i] = i
    <2>1. CASE backend = "cf"
      BY <1>0, <1>1, <2>1, PieceCF
    <2>2. CASE backend # "cf"
      <3>1. offset <= size
        BY <1>0, <1>t, <2>2 DEF BufferFacts
      <3>2. (backend = "winhttp" => pieces' <= 1) => backend = "curl" \/ pieces = 0
        BY <1>1, <1>t, <2>2
      <3> QED
        BY <1>0, <1>1, <2>2, <3>1, <3>2, PieceWritten
    <2> QED
      BY <2>1, <2>2
  <1>6. HttpTypes'
    BY <1>0, <1>1, <1>2, <1>3, <1>4, <1>t DEF HttpTypes
  <1>7. RequestFacts'
    BY <1>0, <1>2 DEF RequestFacts
  <1>8. BufferFacts'
    BY <1>0, <1>1, <1>2, <1>3, <1>5, <1>t DEF BufferFacts
  <1> QED
    BY <1>0, <1>2, <1>6, <1>7, <1>8 DEF HttpInv, Http!WholeBody, Http!ExpiryOfDocument

\* WinHTTP makes the buffer larger if it has no room for the NUL.
LEMMA StatusHttp ==
    ASSUME HttpInv, Http!Status
    PROVE HttpInv'
  <1>0. HttpTypes /\ RequestFacts /\ BufferFacts /\ doc = None /\ pc = "body" /\ got = length
    BY DEF HttpInv, RequestFacts, Http!Status
  <1>1. /\ pc' \in {"parse", "return"}
        /\ err' \in {"OK", "NO_MEMORY", "HTTP_ERROR", "DOCUMENT_NOT_MODIFIED", "INVALID_JSON"}
        /\ UNCHANGED <<backend, get, redirects, reply, length, headers, got, pieces, offset, doc, expiry>>
    BY <1>0 DEF Http!Status, Http!Fails, HttpTypes
  <1>2. /\ size' = IF backend = "winhttp" /\ offset = size THEN Http!Grown(1) ELSE size
        /\ data' = [i \in 1..size' |-> IF i <= size THEN data[i] ELSE 0]
    BY DEF Http!Status, Http!Garbage
  <1>3. Http!Grown(1) \in Nat /\ Http!Grown(1) >= offset + 2
    <2>1. Http!Grown(1) \in Nat /\ Http!Grown(1) >= offset + 1 + 1
      BY <1>0, GrownHolds
    <2> QED
      BY <1>0, <2>1 DEF HttpTypes
  <1>4. size' \in Nat /\ size' >= size
    BY <1>0, <1>2, <1>3 DEF HttpTypes
  <1>5. data' \in [1..size' -> 0..MaxBody] /\ \A i \in 1..size : data'[i] = data[i]
    BY <1>0, <1>2, <1>4, HttpAssumptions DEF HttpTypes
  <1>6. HttpTypes'
    BY <1>0, <1>1, <1>4, <1>5 DEF HttpTypes
  <1>7. RequestFacts'
    BY <1>0, <1>1 DEF RequestFacts
  <1>8. BufferFacts'
    <2>1. backend # "cf" => offset < size'
      BY <1>0, <1>2, <1>3 DEF BufferFacts, HttpTypes
    <2>2. got <= size
      BY <1>0 DEF BufferFacts, HttpTypes
    <2>3. (backend = "winhttp" => pieces <= 1) => \A i \in 1..got : data'[i] = i
      BY <1>0, <1>5, <2>2 DEF BufferFacts, HttpTypes
    <2>4. /\ offset = got /\ (got > 0 => pieces > 0) /\ (backend = "cf" => size' = got)
          /\ (backend = "winhttp" => offset <= size')
      <3>1. offset = got /\ (got > 0 => pieces > 0) /\ (backend = "cf" => size = got) /\ offset \in Nat
            /\ (backend = "winhttp" => backend # "cf")
        BY <1>0 DEF BufferFacts, HttpTypes
      <3>2. backend = "cf" => size' = size
        BY <1>2
      <3> QED
        BY <1>4, <2>1, <3>1, <3>2
    <2> QED
      BY <1>1, <2>1, <2>3, <2>4 DEF BufferFacts
  <1> QED
    BY <1>0, <1>1, <1>6, <1>7, <1>8 DEF HttpInv, Http!WholeBody, Http!ExpiryOfDocument

\* The expiry of headers, when they are those of the reply.
LEMMA ExpiryHolds ==
    ASSUME NEW h \in Http!Headers
    PROVE /\ Http!HttpExpiry(h) \in Int
          /\ Http!HttpExpiry(h) <= IF h.expires \in Dates THEN h.expires
                                  ELSE IF h.date \in Dates THEN h.date + Day ELSE Day
  <1> USE HttpAssumptions
  <1>1. ASSUME NEW v \in Http!HeaderValue
        PROVE Http!CurlDate(v) = IF v = None THEN 0 ELSE IF v = invalid THEN -1 ELSE v
    BY DEF Http!CurlDate
  <1>2. h.date \in Http!HeaderValue /\ h.expires \in Http!HeaderValue
    BY DEF Http!Headers
  <1>3. CASE backend = "curl"
    <2> DEFINE e == Http!CurlDate(h.expires)
               d == Http!CurlDate(h.date)
    <2>1. Http!HttpExpiry(h) = IF e # 0 THEN e ELSE d + Day
      BY <1>3 DEF Http!HttpExpiry
    <2>2. /\ e = IF h.expires = None THEN 0 ELSE IF h.expires = invalid THEN -1 ELSE h.expires
          /\ d = IF h.date = None THEN 0 ELSE IF h.date = invalid THEN -1 ELSE h.date
      BY <1>1, <1>2
    <2> HIDE DEF e, d
    <2>3. h.expires \in Dates => e = h.expires /\ e \in Nat \ {0}
      BY <2>2
    <2>4. h.expires \notin Dates => e \in {0, -1}
      BY <1>2, <2>2 DEF Http!HeaderValue
    <2>5. d \in Int /\ IF h.date \in Dates THEN d = h.date /\ d \in Nat ELSE d \in {0, -1}
      BY <1>2, <2>2 DEF Http!HeaderValue
    <2> QED
      BY <2>1, <2>3, <2>4, <2>5
  <1>4. CASE backend # "curl"
    <2>1. Http!HttpExpiry(h) = IF h.expires \in Dates THEN h.expires
                               ELSE IF h.date \in Dates THEN h.date + Day ELSE 0
      BY <1>4 DEF Http!HttpExpiry
    <2>2. /\ h.expires \in Dates => h.expires \in Nat
          /\ h.date \in Dates => h.date \in Nat
      OBVIOUS
    <2>3. CASE h.expires \in Dates
      BY <2>1, <2>2, <2>3
    <2>4. CASE h.expires \notin Dates
      BY <2>1, <2>2, <2>4
    <2> QED
      BY <2>3, <2>4
  <1> QED
    BY <1>3, <1>4

LEMMA ParseHttp ==
    ASSUME HttpInv, Http!Parse
    PROVE HttpInv'
  <1>0. /\ HttpTypes /\ RequestFacts /\ BufferFacts /\ doc = None /\ pc = "parse" /\ got = length
        /\ reply \in Http!Reply
    BY DEF HttpInv, RequestFacts, Http!Parse
  <1>1. /\ pc' = "return"
        /\ UNCHANGED <<backend, get, redirects, reply, length, headers, got, pieces, data, size, offset>>
    BY DEF Http!Parse, Http!Fails
  <1>2. CASE err' = "INVALID_JSON" /\ UNCHANGED <<doc, expiry>>
    <2>1. HttpTypes' /\ RequestFacts' /\ BufferFacts'
      BY <1>0, <1>1, <1>2 DEF HttpTypes, RequestFacts, BufferFacts
    <2> QED
      BY <1>0, <1>2, <2>1 DEF HttpInv, Http!WholeBody, Http!ExpiryOfDocument
  <1>3. CASE /\ doc' = SubSeq(data, 1, offset) /\ err' = err
             /\ expiry' = IF get /\ err = "OK" THEN Http!HttpExpiry(headers) ELSE 0
    <2>1. offset = length /\ offset \in Nat /\ offset <= size /\ size \in Nat
      BY <1>0 DEF BufferFacts, HttpTypes
    <2>2. doc' = [i \in 1..length |-> data[i]]
      BY <1>3, <2>1
    <2>3. doc' \in Seq(0..MaxBody)
      <3>1. data \in [1..size -> 0..MaxBody]
        BY <1>0 DEF HttpTypes
      <3>2. doc' \in [1..length -> 0..MaxBody] /\ length \in Nat
        BY <2>1, <2>2, <3>1
      <3> QED
        BY <3>2, FunctionIsSeq
    <2>4. headers \in Http!Headers
      BY <1>0 DEF HttpTypes
    <2>5. expiry' \in Int
      BY <1>3, <2>4, ExpiryHolds
    <2>6. HttpTypes'
      BY <1>0, <1>1, <1>3, <2>3, <2>5 DEF HttpTypes
    <2>7. RequestFacts' /\ BufferFacts'
      BY <1>0, <1>1 DEF RequestFacts, BufferFacts
    <2>8. Http!WholeBody'
      <3>1. (backend = "winhttp" => pieces <= 1) => \A i \in 1..length : data[i] = i
        BY <1>0 DEF BufferFacts
      <3> QED
        BY <1>1, <2>2, <3>1 DEF Http!WholeBody
    <2>9. Http!ExpiryOfDocument'
      <3> SUFFICES ASSUME err = "OK", get, redirects = 0 \/ backend # "curl"
                   PROVE expiry' <= CASE reply.expires \in Dates -> reply.expires
                                      [] reply.expires \notin Dates /\ reply.date \in Dates -> reply.date + Day
                                      [] OTHER -> Day
        BY <1>1, <1>3 DEF Http!ExpiryOfDocument
      <3>1. headers = Http!HeadersOfLast(reply)
        BY <1>0 DEF RequestFacts
      <3>2. headers.expires = reply.expires /\ headers.date = reply.date
        BY <3>1 DEF Http!HeadersOfLast
      <3>3. expiry' <= IF reply.expires \in Dates THEN reply.expires
                      ELSE IF reply.date \in Dates THEN reply.date + Day ELSE Day
        BY <1>3, <2>4, <3>2, ExpiryHolds
      <3> QED
        BY <3>3
    <2> QED
      BY <2>6, <2>7, <2>8, <2>9 DEF HttpInv
  <1> QED
    BY <1>2, <1>3 DEF Http!Parse, Http!Fails

LEMMA HttpStep ==
    ASSUME HttpInv, Http!Next
    PROVE HttpInv'
  BY SetupHttp, RedirectHttp, ReceiveHttp, ConnectionFailsHttp, PieceHttp, StatusHttp, ParseHttp
  DEF Http!Next

LEMMA HttpSafe ==
    ASSUME HttpInv
    PROVE Http!TypeOK /\ Http!RoomForNul /\ Http!WholeBody /\ Http!ExpiryOfDocument
  <1>1. Http!RoomForNul
    BY DEF HttpInv, BufferFacts, Http!RoomForNul
  <1>2. data \in Seq(0..MaxBody) /\ Len(data) = size
    <2>1. size \in Nat /\ data \in [1..size -> 0..MaxBody]
      BY DEF HttpInv, HttpTypes
    <2> QED
      BY <2>1, FunctionIsSeq
  <1>3. Http!TypeOK
    BY <1>2 DEF HttpInv, HttpTypes, Http!TypeOK
  <1> QED
    BY <1>1, <1>3 DEF HttpInv

-----------------------------------------------------------------------------
(***************************************************************************)
(* The library as a whole.                                                 *)
(***************************************************************************)

LibraryInv == OwnershipInv /\ (of = "http" => HttpInv) /\ (of = "modal" => ModalInv)

LEMMA HttpUnchanged ==
    ASSUME HttpInv, UNCHANGED httpVars, UNCHANGED <<pc, err>>
    PROVE HttpInv'
  <1> USE DEF httpVars, HttpInv
  <1>1. HttpTypes'
    BY DEF HttpTypes
  <1>2. RequestFacts'
    BY DEF RequestFacts, Http!HeadersOfLast
  <1>3. BufferFacts'
    BY DEF BufferFacts
  <1>4. Http!WholeBody' /\ Http!ExpiryOfDocument'
    BY DEF Http!WholeBody, Http!ExpiryOfDocument
  <1> QED
    BY <1>1, <1>2, <1>3, <1>4

LEMMA ModalUnchanged ==
    ASSUME ModalInv, UNCHANGED modalVars, UNCHANGED <<pc, err>>
    PROVE ModalInv'
  <1> USE DEF modalVars, ModalInv
  <1>1. ModalTypes'
    BY DEF ModalTypes
  <1>2. (pc = "fault" <=> fault # "none")' /\ Modal!FaultOnlyByRace'
    BY DEF Modal!FaultOnlyByRace
  <1>3. pc' # "fault" => DialogFacts' /\ AnswerFacts' /\ CallerFacts'
    BY DEF DialogFacts, AnswerFacts, CallerFacts
  <1> QED
    BY <1>1, <1>2, <1>3

LEMMA LibraryInvariant == MCSpec => []LibraryInv
  <1>1. MCInit => LibraryInv
    BY OwnershipInit, HttpInit, ModalInit DEF MCInit, LibraryInv
  <1>2. LibraryInv /\ [MCNext]_allVars => LibraryInv'
    <2> SUFFICES ASSUME LibraryInv, [MCNext]_allVars PROVE LibraryInv'
      OBVIOUS
    <2> USE DEF LibraryInv
    <2>1. CASE of = "contexts" /\ Next /\ UNCHANGED <<of, httpVars, modalVars, pc, err>>
      BY <2>1, OwnershipStep
    <2>2. CASE of = "http" /\ Http!Next /\ UNCHANGED <<of, vars, modalVars>>
      BY <2>2, OwnershipStep, HttpStep
    <2>3. CASE of = "modal" /\ Modal!Next /\ UNCHANGED <<of, vars, httpVars>>
      BY <2>3, OwnershipStep, ModalStep
    <2>4. CASE UNCHANGED allVars
      <3>1. UNCHANGED of /\ UNCHANGED vars /\ UNCHANGED httpVars /\ UNCHANGED modalVars
            /\ UNCHANGED <<pc, err>>
        BY <2>4 DEF allVars
      <3> QED
        BY <3>1, OwnershipStep, HttpUnchanged, ModalUnchanged
    <2> QED
      BY <2>1, <2>2, <2>3, <2>4 DEF MCNext
  <1> QED
    BY <1>1, <1>2, PTL DEF MCSpec

\* The variables of a library context, of a request for a document and of a modal
\* session keep their types; a call that has returned without a dialog on the screen
\* has released its session (_BIDReleaseModalSession).
THEOREM LibraryTypes == MCSpec => []LibraryTypeOK
  <1>1. LibraryInv => LibraryTypeOK
    BY HttpSafe, ModalSafe DEF LibraryInv, LibraryTypeOK, OwnershipInv
  <1> QED
    BY <1>1, LibraryInvariant, PTL

\* However acquisitions fail and whatever parameters are set, no cache has two owners or
\* is used after _BIDReleaseCache has freed it, and none is leaked but those that
\* BIDSetContextParam sets a cache object over.
THEOREM CacheOwnership == MCSpec => []CachesOwned
  <1>1. LibraryInv => CachesOwned
    BY DEF LibraryInv, OwnershipInv, CachesOwned
  <1> QED
    BY <1>1, LibraryInvariant, PTL

\* The assertions of BIDAcquireContext hold for as long as the context is open,
\* whatever parameters are set meanwhile.
THEOREM OptionsKeepCaches == MCSpec => []OptionsHaveCaches
  <1>1. LibraryInv => OptionsHaveCaches
    BY DEF LibraryInv, OwnershipInv
  <1> QED
    BY <1>1, LibraryInvariant, PTL

\* In whatever pieces and however often redirected a document comes, the parser is given
\* the whole body of the last reply with room for the NUL behind it, and the document
\* expires no later than its reply says (_BIDRetrieveDocument, _BIDCurlWriteCB), for
\* bodies of any length and any first size of the buffer.
THEOREM RepliesAreCollected == MCSpec => []ReplyCollected
  <1>1. LibraryInv => ReplyCollected
    BY HttpSafe DEF LibraryInv, ReplyCollected
  <1> QED
    BY <1>1, LibraryInvariant, PTL

\* The modal session is used after its release or completed twice only in the two races
\* of the front ends, and a call that returns has answered once, with one owner of the
\* identity (_BIDCompleteModalSession, BIDAcquireAssertionEx), however often the dialog
\* is told to close.
THEOREM SessionsAreSafe == MCSpec => []SessionSafe
  <1>1. LibraryInv => SessionSafe
    BY ModalSafe DEF LibraryInv, SessionSafe
  <1> QED
    BY <1>1, LibraryInvariant, PTL
=============================================================================
