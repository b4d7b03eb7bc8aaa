----------------------------- MODULE MemoryCache -----------------------------
(***************************************************************************)
(* The cache in memory (bid_mcache.c), used by several threads.  The data  *)
(* is read and changed inside the mutex, one step; the time of the last    *)
(* change is taken and stored, and read, outside it.  Values are shared    *)
(* and never changed, as the comment at the head of the file assumes.      *)
(***************************************************************************)
EXTENDS Naturals

CONSTANTS
    Threads,
    Keys,
    Vals,
    ReadOnly,    \* acquired with BID_CACHE_FLAG_READONLY
    MaxTime      \* bound of the clock

MemoryCacheAssumption == ReadOnly \in BOOLEAN /\ MaxTime \in Nat

VARIABLES
    data,              \* the entries
    lastChangedTime,
    thread,            \* the call of each thread
    clock,
    changed,           \* history: when an entry was last changed
    overlapped         \* history: a change took effect between the change and
                       \* the stamp of another thread

vars == <<data, lastChangedTime, thread, clock, changed, overlapped>>

OpName == {"get", "set", "remove", "list", "initialize", "destroy", "time"}
Map == UNION {[S -> Vals] : S \in SUBSET Keys}
NoEntries == [k \in {} |-> k]
Reply(status, entries) == [status |-> status, entries |-> entries]
Done(entries) == Reply("ok", entries)
Error == Reply("error", NoEntries)

Thread ==
    [pc : {"idle", "called", "stamp", "store", "done"}, op : OpName \cup {"none"},
     key : Keys \cup {"none"}, val : Vals \cup {"none"}, now : 0..MaxTime,
     reply : [status : {"none", "pending", "ok", "error"}, entries : Map]]
Idle ==
    [pc |-> "idle", op |-> "none", key |-> "none", val |-> "none", now |-> 0,
     reply |-> Reply("none", NoEntries)]

Init ==
    /\ data = NoEntries
    /\ lastChangedTime = 0
    /\ thread = [t \in Threads |-> Idle]
    /\ clock = 0
    /\ changed = 0
    /\ overlapped = FALSE

-----------------------------------------------------------------------------
Call(t, op, k, v) ==
    /\ thread[t].pc = "idle"
    /\ thread' = [thread EXCEPT ![t] = [pc |-> "called", op |-> op, key |-> k, val |-> v, now |-> 0,
                                        reply |-> Reply("pending", NoEntries)]]
    /\ UNCHANGED <<data, lastChangedTime, clock, changed, overlapped>>

Invoke(t) ==
    \/ \E op \in {"list", "initialize", "destroy", "time"} : Call(t, op, "none", "none")
    \/ \E op \in {"get", "remove"}, k \in Keys : Call(t, op, k, "none")
    \/ \E k \in Keys, v \in Vals : Call(t, "set", k, v)

Enters(t, ops) == thread[t].pc = "called" /\ thread[t].op \in ops
Answers(t, reply) == thread' = [thread EXCEPT ![t].pc = "done", ![t].reply = reply]

GetObject(t) ==
    /\ Enters(t, {"get"})
    /\ Answers(t, Done([k \in DOMAIN data \cap {thread[t].key} |-> data[k]]))
    /\ UNCHANGED <<data, lastChangedTime, clock, changed, overlapped>>

\* The iterator goes over a copy; there is none over an empty cache.
FirstObject(t) ==
    /\ Enters(t, {"list"})
    /\ Answers(t, IF DOMAIN data = {} THEN Error ELSE Done(data))
    /\ UNCHANGED <<data, lastChangedTime, clock, changed, overlapped>>

Initialize(t) ==
    /\ Enters(t, {"initialize"})
    /\ Answers(t, Done(NoEntries))
    /\ UNCHANGED <<data, lastChangedTime, clock, changed, overlapped>>

\* The time of the last change stays.
Destroy(t) ==
    /\ Enters(t, {"destroy"})
    /\ data' = NoEntries
    /\ Answers(t, Done(NoEntries))
    /\ UNCHANGED <<lastChangedTime, clock, changed, overlapped>>

GetLastChangedTime(t) ==
    /\ Enters(t, {"time"})
    /\ thread' = [thread EXCEPT ![t].pc = "done", ![t].now = lastChangedTime]
    /\ UNCHANGED <<data, lastChangedTime, clock, changed, overlapped>>

\* Wrong variant: an entry is removed without a stamp.
NextAfterSetOnly(op) == IF op = "set" THEN "stamp" ELSE "done"

\* Both changes are followed by a stamp.
NextAfter(op) == "stamp"

Changed(c) ==
    IF c.op = "remove" THEN [k \in DOMAIN data \ {c.key} |-> data[k]]
    ELSE [k \in DOMAIN data \cup {c.key} |-> IF k = c.key THEN c.val ELSE data[k]]

SetOrRemoveObject(t) ==
    /\ Enters(t, {"set", "remove"})
    /\ ~ReadOnly
    /\ data' = Changed(thread[t])
    /\ thread' = [thread EXCEPT ![t].pc = NextAfter(thread[t].op), ![t].reply = Done(NoEntries)]
    /\ changed' = clock
    /\ overlapped' = (overlapped \/ \E u \in Threads : thread[u].pc \in {"stamp", "store"})
    /\ UNCHANGED <<lastChangedTime, clock>>

\* A read-only cache, or no memory for the entry.
SetOrRemoveFails(t) ==
    /\ Enters(t, {"set", "remove"})
    /\ ReadOnly \/ thread[t].op = "set"
    /\ Answers(t, Error)
    /\ UNCHANGED <<data, lastChangedTime, clock, changed, overlapped>>

\* time(&mc->LastChangedTime) takes the time and then stores it.
TakeTime(t) ==
    /\ thread[t].pc = "stamp"
    /\ thread' = [thread EXCEPT ![t].pc = "store", ![t].now = clock]
    /\ UNCHANGED <<data, lastChangedTime, clock, changed, overlapped>>
StoreTime(t) ==
    /\ thread[t].pc = "store"
    /\ lastChangedTime' = thread[t].now
    /\ thread' = [thread EXCEPT ![t].pc = "done"]
    /\ UNCHANGED <<data, clock, changed, overlapped>>

Return(t) ==
    /\ thread[t].pc = "done"
    /\ thread' = [thread EXCEPT ![t] = Idle]
    /\ UNCHANGED <<data, lastChangedTime, clock, changed, overlapped>>

Tick ==
    /\ clock < MaxTime
    /\ clock' = clock + 1
    /\ UNCHANGED <<data, lastChangedTime, thread, changed, overlapped>>

Next ==
    \/ \E t \in Threads :
         \/ Invoke(t) \/ GetObject(t) \/ FirstObject(t) \/ Initialize(t) \/ Destroy(t)
         \/ GetLastChangedTime(t) \/ SetOrRemoveObject(t) \/ SetOrRemoveFails(t)
         \/ TakeTime(t) \/ StoreTime(t) \/ Return(t)
    \/ Tick

Spec == Init /\ [][Next]_vars

-----------------------------------------------------------------------------
\* The state of the cache and of the calls of its threads.
TypeOK ==
    /\ data \in Map
    /\ {lastChangedTime, clock, changed} \subseteq 0..MaxTime
    /\ thread \in [Threads -> Thread]
    /\ overlapped \in BOOLEAN

\* Between changes the time of the last change is not before the last change,
\* unless two changes overlapped: then the earlier stamp may be stored last.
StampMissesOnlyByOverlap ==
    (\A t \in Threads : thread[t].pc \notin {"stamp", "store"}) =>
      overlapped \/ lastChangedTime >= changed

\* The map that the calls are seen as.  The query of the time is no call of it.
Atomic ==
    INSTANCE Cache WITH
      Clients <- Threads,
      store <- data,
      call <- [t \in Threads |->
                 IF thread[t].op = "time" THEN [op |-> "none", key |-> "none", val |-> "none",
                                                reply |-> Reply("none", NoEntries)]
                 ELSE [op |-> thread[t].op, key |-> thread[t].key, val |-> thread[t].val,
                       reply |-> thread[t].reply]]

\* The memory cache is an atomic map: every call of the BIDMemoryCache operations
\* takes effect at one moment between its invocation and its return.
Linearizable == Atomic!Spec
=============================================================================
