----------------------------- MODULE LibContext ------------------------------
(***************************************************************************)
(* Library contexts (bid_context.c) and the caches they own: which cache   *)
(* each of the four slots of a context refers to, through acquisition with *)
(* caches of the caller, parameters that replace a cache by name or by     *)
(* object, and release.  A cache is memory: it is allocated, and freed by  *)
(* _BIDReleaseCache without counting references.  The application hands a  *)
(* cache over at most once and then keeps no use of it, as it must.        *)
(***************************************************************************)
EXTENDS Naturals, FiniteSets

CONSTANTS
    Contexts,
    Caches,       \* places for cache objects
    CacheNames,   \* names of caches: [scheme, name]
    Windows,
    Options,      \* sets of options the application asks for
    None

OptionName ==
    {"USER_AGENT", "RP", "AUTHORITY_CACHE", "REPLAY_CACHE", "REAUTH", "TICKET_CACHE", "ECDH_KEYEX"}
Slot == {"authority", "replay", "ticket", "config"}
Curve == {"P-256", "P-384", "P-521"}

ASSUME LibContextAssumption ==
    /\ Options \subseteq SUBSET OptionName
    /\ CacheNames \subseteq [scheme : {"file", "memory", "unknown"}, name : STRING]
    /\ None \notin Contexts \cup Caches \cup Windows \cup Curve

VARIABLES
    heap,      \* the name and scheme of the cache in each place, None if free
    ctx,       \* the contexts, None for BID_C_NO_CONTEXT
    owned,     \* caches the application has acquired and not handed over
    lost       \* history: caches that a parameter was set over

vars == <<heap, ctx, owned, lost>>

Context ==
    [options : SUBSET OptionName, slots : [Slot -> Caches \cup {None}],
     parentWindow : Windows \cup Caches \cup {None}, ecdhCurve : Curve \cup {None}]

ASSUME NoContextAssumption == None \notin Context

Init ==
    /\ heap = [c \in Caches |-> None]
    /\ ctx = [x \in Contexts |-> None]
    /\ owned = {}
    /\ lost = {}

-----------------------------------------------------------------------------
\* _BIDAcquireCache: the objects of the heap with one more of the given name.
Allocated(h, n) ==
    IF n.scheme = "unknown" THEN {}
    ELSE {[heap |-> [h EXCEPT ![c] = n], cache |-> c] : c \in {x \in Caches : h[x] = None}}

\* _BIDReleaseCache
Released(h, cs) == [c \in Caches |-> IF c \in cs THEN None ELSE h[c]]

\* BIDAcquireReplayCache and BIDAcquireTicketCache, by the application.
AcquireCache(n) ==
    /\ \E a \in Allocated(heap, n) : heap' = a.heap /\ owned' = owned \cup {a.cache}
    /\ UNCHANGED <<ctx, lost>>
ReleaseCache(c) ==
    /\ c \in owned
    /\ heap' = Released(heap, {c})
    /\ owned' = owned \ {c}
    /\ UNCHANGED <<ctx, lost>>

\* The default caches of _BIDAcquireCacheForUser, one file each.
DefaultName(s) == [scheme |-> "file", name |-> s]

ASSUME NoNameAssumption == None \notin CacheNames \cup {DefaultName(s) : s \in Slot}

\* The options that fill a slot, and the ones each needs.
Filling == [authority |-> "AUTHORITY_CACHE", replay |-> "REPLAY_CACHE", ticket |-> "TICKET_CACHE"]
Needs == [authority |-> {"RP"}, replay |-> {"RP"}, ticket |-> {"REAUTH", "USER_AGENT"}]

\* The slots are filled in this order, the configuration first.
Before(s) ==
    CASE s = "authority" -> {"config"} [] s = "replay" -> {"config", "authority"}
      [] s = "ticket" -> {"config", "authority", "replay"}

\* Wrong variant: a cache is acquired only if the caller passes arguments.
WantsArgument(options, args, s) == Filling[s] \in options /\ args[s] # None

Wants(options, args, s) == Filling[s] \in options

\* The slots when everything is acquired, the new caches being in the places new.
Filled(options, args, new) ==
    [s \in Slot |-> IF s \in DOMAIN new THEN new[s]
                   ELSE IF s \in DOMAIN Filling /\ Wants(options, args, s) THEN args[s] ELSE None]

\* args: the caches the caller passes.
AcquireContext(x, options, args, config) ==
    LET fresh == {s \in DOMAIN Filling : Wants(options, args, s) /\ args[s] = None}
                   \cup (IF config = None THEN {} ELSE {"config"})
        Name(s) == IF s = "config" THEN config ELSE DefaultName(s)
    IN
    /\ ctx[x] = None
    /\ \A s \in DOMAIN Filling : Filling[s] \in options => Needs[s] \subseteq options
    /\ \E new \in [fresh -> {c \in Caches : heap[c] = None}] :
         /\ \A s, t \in fresh : s # t => new[s] # new[t]
         /\ heap' = [c \in Caches |->
                       IF \E s \in fresh : new[s] = c THEN Name(CHOOSE s \in fresh : new[s] = c) ELSE heap[c]]
         /\ ctx' = [ctx EXCEPT ![x] =
                      [options |-> options, slots |-> Filled(options, args, new), parentWindow |-> None,
                       ecdhCurve |-> IF "ECDH_KEYEX" \in options THEN "P-256" ELSE None]]
    /\ owned' = owned \ {args[s] : s \in {t \in DOMAIN Filling : Filling[t] \in options}}
    /\ UNCHANGED lost

\* Options that do not fit, or a default cache that cannot be acquired, at slot s:
\* the context is released with the caches it has, those of the caller included.
AcquireContextFails(x, options, args, s) ==
    LET taken == {args[t] : t \in {u \in DOMAIN Filling \cap Before(s) : Filling[u] \in options}} \ {None}
    IN
    /\ ctx[x] = None
    /\ Filling[s] \in options
    /\ \A t \in DOMAIN Filling \cap Before(s) : Filling[t] \in options => Needs[t] \subseteq options
    /\ ~(Needs[s] \subseteq options) \/ args[s] = None
    /\ heap' = Released(heap, taken)
    /\ owned' = owned \ taken
    /\ UNCHANGED <<ctx, lost>>

ReleaseContext(x) ==
    /\ ctx[x] # None
    /\ heap' = Released(heap, {ctx[x].slots[s] : s \in Slot})
    /\ ctx' = [ctx EXCEPT ![x] = None]
    /\ UNCHANGED <<owned, lost>>

-----------------------------------------------------------------------------
(***************************************************************************)
(* BIDSetContextParam                                                      *)
(***************************************************************************)

Replaced(h, old) == Released(h, {old})

\* Wrong variant: the old cache is released although the new one cannot be acquired.
FailedReleases(old) == Released(heap, {old})

FailedAcquire(old) == heap

\* By name; the scheme "file" is that of a name without one.  The name of the
\* present cache is compared without its scheme.
SetCacheName(x, s, n) ==
    LET old == ctx[x].slots[s]
        same == old # None /\ n.scheme = "file" /\ heap[old].name = n.name
    IN
    /\ ctx[x] # None
    /\ ~same
    /\ \/ \E a \in Allocated(heap, n) :
            /\ heap' = Replaced(a.heap, old)
            /\ ctx' = [ctx EXCEPT ![x].slots[s] = a.cache]
       \/ heap' = FailedAcquire(old) /\ UNCHANGED ctx
    /\ UNCHANGED <<owned, lost>>

\* Wrong variant: a curve is set whatever the key exchange.
CurveAllowedAlways(x) == TRUE

CurveAllowed(x) == "ECDH_KEYEX" \in ctx[x].options

\* By object: the cache in the slot is forgotten, and the case runs on into the
\* one for the window.
SetCache(x, s, c) ==
    /\ ctx[x] # None
    /\ c \in owned
    /\ lost' = lost \cup ({ctx[x].slots[s]} \ {None})
    /\ ctx' = [ctx EXCEPT ![x].slots[s] = c, ![x].parentWindow = c]
    /\ owned' = owned \ {c}
    /\ UNCHANGED heap

SetParentWindow(x, w) ==
    /\ ctx[x] # None
    /\ ctx' = [ctx EXCEPT ![x].parentWindow = w]
    /\ UNCHANGED <<heap, owned, lost>>

SetECDHCurve(x, curve) ==
    /\ ctx[x] # None
    /\ CurveAllowed(x)
    /\ ctx' = [ctx EXCEPT ![x].ecdhCurve = curve]
    /\ UNCHANGED <<heap, owned, lost>>

Args == {a \in [Slot -> owned \cup {None}] :
           /\ a["config"] = None
           /\ \A s, t \in Slot : s # t /\ a[s] = a[t] => a[s] = None}

Next ==
    \/ \E n \in CacheNames : AcquireCache(n)
    \/ \E c \in owned : ReleaseCache(c)
    \/ \E x \in Contexts, o \in Options, a \in Args :
         \/ \E n \in {DefaultName("config"), None} : AcquireContext(x, o, a, n)
         \/ \E s \in DOMAIN Filling : AcquireContextFails(x, o, a, s)
    \/ \E x \in Contexts :
         \/ ReleaseContext(x)
         \/ \E s \in Slot, n \in CacheNames : SetCacheName(x, s, n)
         \/ \E s \in Slot, c \in owned : SetCache(x, s, c)
         \/ \E w \in Windows : SetParentWindow(x, w)
         \/ \E curve \in Curve : SetECDHCurve(x, curve)

Spec == Init /\ [][Next]_vars

-----------------------------------------------------------------------------
Open == {x \in Contexts : ctx[x] # None}

\* Type invariant: there is a curve exactly when keys are exchanged.
TypeOK ==
    /\ heap \in [Caches -> CacheNames \cup {DefaultName(s) : s \in Slot} \cup {None}]
    /\ ctx \in [Contexts -> Context \cup {None}]
    /\ \A x \in Open : (ctx[x].ecdhCurve # None) <=> ("ECDH_KEYEX" \in ctx[x].options)
    /\ owned \subseteq Caches /\ lost \subseteq Caches

\* Every cache that a context or the application refers to is allocated, and no
\* two of them refer to one: so none is used after it is freed, or freed twice.
ExclusiveLive ==
    /\ \A x \in Open, s \in Slot :
         LET c == ctx[x].slots[s] IN
         c # None =>
           /\ heap[c] # None /\ c \notin owned
           /\ \A y \in Open, t \in Slot : ctx[y].slots[t] = c => <<x, s>> = <<y, t>>
    /\ \A c \in owned : heap[c] # None

\* Whatever fails, a cache to which nobody refers any more is freed, but for the
\* ones that a cache object was set over.
LeakOnlyByObject ==
    \A c \in Caches : heap[c] # None =>
      c \in owned \cup lost \/ \E x \in Open, s \in Slot : ctx[x].slots[s] = c

\* Every cache has one owner and is released once, by BIDReleaseContext,
\* BIDSetContextParam or the cleanup of BIDAcquireContext.
CachesOwned == ExclusiveLive /\ LeakOnlyByObject

\* The assertions of BIDAcquireContext hold as long as the context is open: an
\* option for a cache means that there is one.
OptionsHaveCaches ==
    \A x \in Open, s \in DOMAIN Filling : Filling[s] \in ctx[x].options => ctx[x].slots[s] # None
=============================================================================
