------------------------- MODULE Caches_proofs -----------------------------
(***************************************************************************)
(* Theorems about the shared caches, the instances of MCCaches.  First the *)
(* cache in memory, for any threads, keys and values: its inductive        *)
(* invariant, and that it implements the atomic map of module Cache; then  *)
(* the properties of MCCaches, from these results and from those of        *)
(* FileCache_proofs.                                                       *)
(***************************************************************************)
EXTENDS MCCaches, Naturals, TLAPS

Stamping(c) == c.pc \in {"stamp", "store"}

\* A call that has not taken effect has no answer yet; a thread has an operation
\* exactly during its call.
CallSound(c) ==
    /\ c.pc = "idle" <=> c.op = "none"
    /\ c.pc = "idle" => c = Memory!Idle
    /\ c.pc = "called" => c.reply.status = "pending"
    /\ Stamping(c) => c.op \in {"set", "remove"}
    /\ c.op = "set" => c.key \in Keys /\ c.val \in Vals

CallInv == \A t \in Threads : CallSound(thread[t])

\* Without overlap one thread stamps at a time, with a time that is not before
\* its own change.
StampInv ==
    /\ changed <= clock
    /\ ~overlapped =>
         /\ \A t, u \in Threads : Stamping(thread[t]) /\ Stamping(thread[u]) => t = u
         /\ \A t \in Threads : thread[t].pc = "store" => changed <= thread[t].now
         /\ (\A t \in Threads : ~Stamping(thread[t])) => changed <= lastChangedTime

MemoryCacheInv == Memory!TypeOK /\ CallInv /\ StampInv

-----------------------------------------------------------------------------
LEMMA NoEntriesType == Memory!NoEntries \in Memory!Map
<1>1. Memory!NoEntries \in [{} -> Vals]
  BY DEF Memory!NoEntries
<1>2. {} \in SUBSET Keys
  OBVIOUS
<1> QED
  BY <1>1, <1>2 DEF Memory!Map

LEMMA MapType ==
  ASSUME NEW m
  PROVE  m \in Memory!Map <=> \E S \in SUBSET Keys : m \in [S -> Vals]
BY DEF Memory!Map

\* The entries that a lookup reports.
LEMMA OnlyType ==
  ASSUME NEW m \in Memory!Map, NEW x
  PROVE  [k \in DOMAIN m \cap {x} |-> m[k]] \in Memory!Map
<1>1. PICK S \in SUBSET Keys : m \in [S -> Vals]
  BY MapType
<1>2. [k \in DOMAIN m \cap {x} |-> m[k]] \in [S \cap {x} -> Vals]
  BY <1>1
<1> QED
  BY <1>2, MapType

\* What remains without a key.
LEMMA DropType ==
  ASSUME NEW m \in Memory!Map, NEW x
  PROVE  [k \in DOMAIN m \ {x} |-> m[k]] \in Memory!Map
<1>1. PICK S \in SUBSET Keys : m \in [S -> Vals]
  BY MapType
<1>2. [k \in DOMAIN m \ {x} |-> m[k]] \in [S \ {x} -> Vals]
  BY <1>1
<1> QED
  BY <1>2, MapType

\* What there is with one more entry.
LEMMA PutType ==
  ASSUME NEW m \in Memory!Map, NEW x \in Keys, NEW v \in Vals
  PROVE  [k \in DOMAIN m \cup {x} |-> IF k = x THEN v ELSE m[k]] \in Memory!Map
<1>1. PICK S \in SUBSET Keys : m \in [S -> Vals]
  BY MapType
<1>2. [k \in DOMAIN m \cup {x} |-> IF k = x THEN v ELSE m[k]] \in [S \cup {x} -> Vals]
  BY <1>1
<1>3. S \cup {x} \in SUBSET Keys
  OBVIOUS
<1> QED
  BY <1>2, <1>3, MapType

-----------------------------------------------------------------------------
(***************************************************************************)
(* The inductive invariant.                                                *)
(***************************************************************************)
LEMMA IdleSound ==
  ASSUME Memory!MemoryCacheAssumption
  PROVE  Memory!Idle \in Memory!Thread /\ CallSound(Memory!Idle)
<1>1. Memory!Reply("none", Memory!NoEntries)
        \in [status : {"none", "pending", "ok", "error"}, entries : Memory!Map]
  BY NoEntriesType DEF Memory!Reply
<1>2. 0 \in 0..MaxTime
  BY DEF Memory!MemoryCacheAssumption
<1> QED
  BY <1>1, <1>2 DEF Memory!Idle, Memory!Thread, CallSound, Stamping

LEMMA InitInv ==
  ASSUME Memory!MemoryCacheAssumption, Memory!Init
  PROVE  MemoryCacheInv
<1>1. 0 \in 0..MaxTime
  BY DEF Memory!MemoryCacheAssumption
<1>2. Memory!TypeOK
  BY <1>1, IdleSound, NoEntriesType DEF Memory!Init, Memory!TypeOK
<1>3. CallInv
  BY IdleSound DEF Memory!Init, CallInv
<1>4. StampInv
  BY DEF Memory!Init, StampInv, Stamping, Memory!Idle
<1> QED
  BY <1>2, <1>3, <1>4 DEF MemoryCacheInv

\* Only one thread moves.
Moves(t, c) ==
    /\ thread'[t] = c
    /\ \A u \in Threads \ {t} : thread'[u] = thread[u]
    /\ thread' \in [Threads -> Memory!Thread]

LEMMA ThreadMoves ==
  ASSUME Memory!TypeOK, NEW t \in Threads, NEW c \in Memory!Thread,
         thread' = [thread EXCEPT ![t] = c]
  PROVE  Moves(t, c)
BY DEF Memory!TypeOK, Moves

LEMMA ThreadType ==
  ASSUME Memory!TypeOK, NEW t \in Threads
  PROVE  thread[t] \in Memory!Thread
BY DEF Memory!TypeOK

\* A step that changes neither the entries nor the times, and after which the
\* thread does not stamp.
Quiet(t) ==
    /\ ~Stamping(thread[t])
    /\ ~Stamping(thread'[t])
    /\ \A u \in Threads \ {t} : thread'[u] = thread[u]
    /\ UNCHANGED <<lastChangedTime, clock, changed, overlapped>>

LEMMA QuietStep ==
  ASSUME StampInv, NEW t \in Threads, Quiet(t)
  PROVE  StampInv'
BY DEF StampInv, Quiet, Stamping

LEMMA QuietInv ==
  ASSUME MemoryCacheInv, NEW t \in Threads, NEW c \in Memory!Thread, Moves(t, c), CallSound(c),
         data' \in Memory!Map, ~Stamping(thread[t]), ~Stamping(c),
         UNCHANGED <<lastChangedTime, clock, changed, overlapped>>
  PROVE  MemoryCacheInv'
<1>1. Memory!TypeOK'
  BY DEF MemoryCacheInv, Memory!TypeOK, Moves
<1>2. CallInv'
  BY DEF MemoryCacheInv, CallInv, Moves
<1>3. StampInv'
  BY QuietStep DEF MemoryCacheInv, Quiet, Moves
<1> QED
  BY <1>1, <1>2, <1>3 DEF MemoryCacheInv

LEMMA CallPreserves ==
  ASSUME Memory!MemoryCacheAssumption, MemoryCacheInv, NEW t \in Threads, NEW op \in Memory!OpName,
         NEW k \in Keys \cup {"none"}, NEW v \in Vals \cup {"none"}, Memory!Call(t, op, k, v),
         op = "set" => k \in Keys /\ v \in Vals
  PROVE  MemoryCacheInv'
<1> DEFINE c == [pc |-> "called", op |-> op, key |-> k, val |-> v, now |-> 0,
                 reply |-> Memory!Reply("pending", Memory!NoEntries)]
<1>1. Memory!Reply("pending", Memory!NoEntries)
        \in [status : {"none", "pending", "ok", "error"}, entries : Memory!Map]
  BY NoEntriesType DEF Memory!Reply
<1>2. 0 \in 0..MaxTime
  BY DEF Memory!MemoryCacheAssumption
<1>3. c \in Memory!Thread
  BY <1>1, <1>2 DEF Memory!Thread
<1>4. CallSound(c) /\ ~Stamping(c)
  BY DEF CallSound, Stamping, Memory!Reply, Memory!OpName
<1>5. Moves(t, c)
  BY <1>3, ThreadMoves DEF Memory!Call, MemoryCacheInv
<1>6. data' \in Memory!Map /\ ~Stamping(thread[t])
      /\ UNCHANGED <<lastChangedTime, clock, changed, overlapped>>
  BY DEF Memory!Call, Stamping, MemoryCacheInv, Memory!TypeOK
<1> HIDE DEF c
<1> QED
  BY <1>3, <1>4, <1>5, <1>6, QuietInv

\* The steps that end a call with an answer.
LEMMA AnswerPreserves ==
  ASSUME MemoryCacheInv, NEW t \in Threads,
         NEW reply \in [status : {"none", "pending", "ok", "error"}, entries : Memory!Map],
         thread[t].pc = "called", Memory!Answers(t, reply), data' \in Memory!Map,
         UNCHANGED <<lastChangedTime, clock, changed, overlapped>>
  PROVE  MemoryCacheInv'
<1> DEFINE c == [thread[t] EXCEPT !.pc = "done", !.reply = reply]
<1>1. thread[t] \in Memory!Thread
  BY ThreadType DEF MemoryCacheInv
<1>2. c \in Memory!Thread
  BY <1>1 DEF Memory!Thread
<1>3. thread' = [thread EXCEPT ![t] = c]
  BY <1>1 DEF Memory!Answers, MemoryCacheInv, Memory!TypeOK
<1>4. Moves(t, c)
  BY <1>2, <1>3, ThreadMoves DEF MemoryCacheInv
<1>5. CallSound(c) /\ ~Stamping(c) /\ ~Stamping(thread[t])
  BY <1>1 DEF CallSound, Stamping, Memory!Thread, MemoryCacheInv, CallInv
<1> HIDE DEF c
<1> QED
  BY <1>2, <1>4, <1>5, QuietInv

\* The steps that change entries.
LEMMA ChangePreserves ==
  ASSUME MemoryCacheInv, NEW t \in Threads, Memory!SetOrRemoveObject(t)
  PROVE  MemoryCacheInv'
<1> DEFINE c == [thread[t] EXCEPT !.pc = "stamp", !.reply = Memory!Done(Memory!NoEntries)]
<1>1. thread[t] \in Memory!Thread /\ CallSound(thread[t])
  BY ThreadType DEF MemoryCacheInv, CallInv
<1>2. Memory!Done(Memory!NoEntries)
        \in [status : {"none", "pending", "ok", "error"}, entries : Memory!Map]
  BY NoEntriesType DEF Memory!Done, Memory!Reply
<1>3. c \in Memory!Thread
  BY <1>1, <1>2 DEF Memory!Thread
<1>4. thread' = [thread EXCEPT ![t] = c]
  BY <1>1 DEF Memory!SetOrRemoveObject, MemoryCacheInv, Memory!TypeOK, Memory!NextAfter
<1>5. Moves(t, c)
  BY <1>3, <1>4, ThreadMoves DEF MemoryCacheInv
<1>6. thread[t].pc = "called" /\ thread[t].op \in {"set", "remove"}
      /\ data' = Memory!Changed(thread[t])
  BY DEF Memory!SetOrRemoveObject, Memory!Enters
<1>7. CallSound(c) /\ c.pc = "stamp"
  BY <1>1, <1>6 DEF CallSound, Stamping, Memory!Thread
<1>8. changed' = clock /\ clock' = clock /\ lastChangedTime' = lastChangedTime
  BY DEF Memory!SetOrRemoveObject
<1>9. /\ overlapped' \in BOOLEAN
      /\ ~overlapped' => ~overlapped /\ \A u \in Threads : ~Stamping(thread[u])
  BY DEF Memory!SetOrRemoveObject, Stamping
<1>10. data \in Memory!Map
  BY DEF MemoryCacheInv, Memory!TypeOK
<1>11. data' \in Memory!Map
  <2>1. CASE thread[t].op = "remove"
    BY <1>6, <1>10, <2>1, DropType DEF Memory!Changed
  <2>2. CASE thread[t].op = "set"
    <3>1. thread[t].key \in Keys /\ thread[t].val \in Vals
      BY <1>1, <2>2 DEF CallSound
    <3>2. data' = [k \in DOMAIN data \cup {thread[t].key} |->
                     IF k = thread[t].key THEN thread[t].val ELSE data[k]]
      BY <1>6, <2>2 DEF Memory!Changed
    <3> QED
      BY <1>10, <3>1, <3>2, PutType
  <2> QED
    BY <1>6, <2>1, <2>2
<1> HIDE DEF c
<1>12. Memory!TypeOK'
  BY <1>5, <1>8, <1>9, <1>11 DEF MemoryCacheInv, Memory!TypeOK, Moves
<1>13. CallInv'
  BY <1>5, <1>7 DEF MemoryCacheInv, CallInv, Moves
<1>14. StampInv'
  <2>1. changed' <= clock'
    BY <1>8 DEF MemoryCacheInv, Memory!TypeOK
  <2>2. ASSUME ~overlapped'
        PROVE  \A u \in Threads : Stamping(thread'[u]) => u = t
    BY <1>5, <1>9, <2>2 DEF Moves
  <2>3. thread'[t].pc = "stamp"
    BY <1>5, <1>7 DEF Moves
  <2> QED
    BY <2>1, <2>2, <2>3 DEF StampInv, Stamping
<1> QED
  BY <1>12, <1>13, <1>14 DEF MemoryCacheInv

LEMMA TakeTimePreserves ==
  ASSUME MemoryCacheInv, NEW t \in Threads, Memory!TakeTime(t)
  PROVE  MemoryCacheInv'
<1> DEFINE c == [thread[t] EXCEPT !.pc = "store", !.now = clock]
<1>1. thread[t] \in Memory!Thread /\ CallSound(thread[t]) /\ thread[t].pc = "stamp"
  BY ThreadType DEF MemoryCacheInv, CallInv, Memory!TakeTime
<1>2. clock \in 0..MaxTime
  BY DEF MemoryCacheInv, Memory!TypeOK
<1>3. c \in Memory!Thread
  BY <1>1, <1>2 DEF Memory!Thread
<1>4. thread' = [thread EXCEPT ![t] = c]
  BY <1>1 DEF Memory!TakeTime, MemoryCacheInv, Memory!TypeOK
<1>5. Moves(t, c)
  BY <1>3, <1>4, ThreadMoves DEF MemoryCacheInv
<1>6. CallSound(c) /\ Stamping(c) /\ c.now = clock
  BY <1>1 DEF CallSound, Stamping, Memory!Thread
<1>7. UNCHANGED <<data, lastChangedTime, clock, changed, overlapped>>
  BY DEF Memory!TakeTime
<1> HIDE DEF c
<1>8. Memory!TypeOK'
  BY <1>5, <1>7 DEF MemoryCacheInv, Memory!TypeOK, Moves
<1>9. CallInv'
  BY <1>5, <1>6 DEF MemoryCacheInv, CallInv, Moves
<1>10. StampInv'
  <2>1. \A u \in Threads : Stamping(thread'[u]) <=> Stamping(thread[u])
    BY <1>1, <1>5, <1>6 DEF Moves, Stamping
  <2>2. \A u \in Threads : u # t => thread'[u] = thread[u]
    BY <1>5 DEF Moves
  <2>3. thread'[t].now = clock
    BY <1>5, <1>6 DEF Moves
  <2> QED
    BY <1>7, <2>1, <2>2, <2>3 DEF MemoryCacheInv, StampInv
<1> QED
  BY <1>8, <1>9, <1>10 DEF MemoryCacheInv

LEMMA StoreTimePreserves ==
  ASSUME MemoryCacheInv, NEW t \in Threads, Memory!StoreTime(t)
  PROVE  MemoryCacheInv'
<1> DEFINE c == [thread[t] EXCEPT !.pc = "done"]
<1>1. thread[t] \in Memory!Thread /\ CallSound(thread[t]) /\ thread[t].pc = "store"
  BY ThreadType DEF MemoryCacheInv, CallInv, Memory!StoreTime
<1>2. c \in Memory!Thread
  BY <1>1 DEF Memory!Thread
<1>3. thread' = [thread EXCEPT ![t] = c]
  BY <1>1 DEF Memory!StoreTime, MemoryCacheInv, Memory!TypeOK
<1>4. Moves(t, c)
  BY <1>2, <1>3, ThreadMoves DEF MemoryCacheInv
<1>5. CallSound(c) /\ ~Stamping(c)
  BY <1>1 DEF CallSound, Stamping, Memory!Thread
<1>6. lastChangedTime' = thread[t].now /\ UNCHANGED <<data, clock, changed, overlapped>>
  BY DEF Memory!StoreTime
<1>7. thread[t].now \in 0..MaxTime
  BY <1>1 DEF Memory!Thread
<1> HIDE DEF c
<1>8. Memory!TypeOK'
  BY <1>4, <1>6, <1>7 DEF MemoryCacheInv, Memory!TypeOK, Moves
<1>9. CallInv'
  BY <1>4, <1>5 DEF MemoryCacheInv, CallInv, Moves
<1>10. StampInv'
  <2>1. Stamping(thread[t])
    BY <1>1 DEF Stamping
  <2>2. ~overlapped => \A u \in Threads : ~Stamping(thread'[u])
    BY <1>4, <1>5, <2>1 DEF MemoryCacheInv, StampInv, Moves
  <2>3. ~overlapped => changed <= thread[t].now
    BY <1>1 DEF MemoryCacheInv, StampInv
  <2> QED
    BY <1>6, <2>2, <2>3 DEF MemoryCacheInv, StampInv, Stamping
<1> QED
  BY <1>8, <1>9, <1>10 DEF MemoryCacheInv

LEMMA InvokePreserves ==
  ASSUME Memory!MemoryCacheAssumption, MemoryCacheInv, NEW t \in Threads, Memory!Invoke(t)
  PROVE  MemoryCacheInv'
<1>1. ASSUME NEW op \in {"list", "initialize", "destroy", "time"},
             Memory!Call(t, op, "none", "none")
      PROVE  MemoryCacheInv'
  BY <1>1, CallPreserves DEF Memory!OpName
<1>2. ASSUME NEW op \in {"get", "remove"}, NEW k \in Keys, Memory!Call(t, op, k, "none")
      PROVE  MemoryCacheInv'
  BY <1>2, CallPreserves DEF Memory!OpName
<1>3. ASSUME NEW k \in Keys, NEW v \in Vals, Memory!Call(t, "set", k, v)
      PROVE  MemoryCacheInv'
  BY <1>3, CallPreserves DEF Memory!OpName
<1> QED
  BY <1>1, <1>2, <1>3 DEF Memory!Invoke

\* The steps that answer a call.
AnswerStep(t) ==
    Memory!GetObject(t) \/ Memory!FirstObject(t) \/ Memory!Initialize(t) \/ Memory!Destroy(t)
    \/ Memory!SetOrRemoveFails(t)

LEMMA AnswerStepPreserves ==
  ASSUME MemoryCacheInv, NEW t \in Threads, AnswerStep(t)
  PROVE  MemoryCacheInv'
<1> DEFINE Replies == [status : {"none", "pending", "ok", "error"}, entries : Memory!Map]
<1>1. data \in Memory!Map
  BY DEF MemoryCacheInv, Memory!TypeOK
<1>2. \A m \in Memory!Map : Memory!Done(m) \in Replies
  BY DEF Memory!Done, Memory!Reply
<1>3. Memory!Error \in Replies
  BY NoEntriesType DEF Memory!Error, Memory!Reply
<1>4. CASE Memory!GetObject(t)
  <2>1. [k \in DOMAIN data \cap {thread[t].key} |-> data[k]] \in Memory!Map
    BY <1>1, OnlyType
  <2>2. PICK m \in Memory!Map : Memory!Answers(t, Memory!Done(m))
    BY <1>4, <2>1 DEF Memory!GetObject
  <2> QED
    BY <1>1, <1>2, <1>4, <2>2, AnswerPreserves DEF Memory!GetObject, Memory!Enters
<1>5. CASE Memory!FirstObject(t)
  <2>1. PICK a \in Replies : Memory!Answers(t, a)
    BY <1>1, <1>2, <1>3, <1>5 DEF Memory!FirstObject
  <2> QED
    BY <1>1, <1>5, <2>1, AnswerPreserves DEF Memory!FirstObject, Memory!Enters
<1>6. CASE Memory!Initialize(t)
  BY <1>1, <1>2, <1>6, NoEntriesType, AnswerPreserves DEF Memory!Initialize, Memory!Enters
<1>7. CASE Memory!Destroy(t)
  BY <1>2, <1>7, NoEntriesType, AnswerPreserves DEF Memory!Destroy, Memory!Enters
<1>8. CASE Memory!SetOrRemoveFails(t)
  BY <1>1, <1>3, <1>8, AnswerPreserves DEF Memory!SetOrRemoveFails, Memory!Enters
<1> QED
  BY <1>4, <1>5, <1>6, <1>7, <1>8 DEF AnswerStep

LEMMA GetLastChangedTimePreserves ==
  ASSUME MemoryCacheInv, NEW t \in Threads, Memory!GetLastChangedTime(t)
  PROVE  MemoryCacheInv'
<1> DEFINE c == [thread[t] EXCEPT !.pc = "done", !.now = lastChangedTime]
<1>1. thread[t] \in Memory!Thread /\ CallSound(thread[t]) /\ thread[t].pc = "called"
  BY ThreadType DEF MemoryCacheInv, CallInv, Memory!GetLastChangedTime, Memory!Enters
<1>2. lastChangedTime \in 0..MaxTime /\ data' \in Memory!Map
  BY DEF MemoryCacheInv, Memory!TypeOK, Memory!GetLastChangedTime
<1>3. c \in Memory!Thread
  BY <1>1, <1>2 DEF Memory!Thread
<1>4. thread' = [thread EXCEPT ![t] = c]
  BY <1>1 DEF Memory!GetLastChangedTime, MemoryCacheInv, Memory!TypeOK
<1>5. Moves(t, c)
  BY <1>3, <1>4, ThreadMoves DEF MemoryCacheInv
<1>6. CallSound(c) /\ ~Stamping(c) /\ ~Stamping(thread[t])
  BY <1>1 DEF CallSound, Stamping, Memory!Thread
<1>7. UNCHANGED <<lastChangedTime, clock, changed, overlapped>>
  BY DEF Memory!GetLastChangedTime
<1> HIDE DEF c
<1> QED
  BY <1>2, <1>3, <1>5, <1>6, <1>7, QuietInv

LEMMA ReturnPreserves ==
  ASSUME Memory!MemoryCacheAssumption, MemoryCacheInv, NEW t \in Threads, Memory!Return(t)
  PROVE  MemoryCacheInv'
<1>1. Moves(t, Memory!Idle)
  BY IdleSound, ThreadMoves DEF Memory!Return, MemoryCacheInv
<1>2. data' \in Memory!Map /\ ~Stamping(thread[t]) /\ ~Stamping(Memory!Idle)
  BY DEF Memory!Return, MemoryCacheInv, Memory!TypeOK, Stamping, Memory!Idle
<1> QED
  BY <1>1, <1>2, IdleSound, QuietInv DEF Memory!Return

LEMMA TickPreserves ==
  ASSUME Memory!MemoryCacheAssumption, MemoryCacheInv, Memory!Tick
  PROVE  MemoryCacheInv'
<1>1. clock' \in 0..MaxTime
  BY DEF Memory!Tick, MemoryCacheInv, Memory!TypeOK, Memory!MemoryCacheAssumption
<1>2. Memory!TypeOK'
  BY <1>1 DEF Memory!Tick, MemoryCacheInv, Memory!TypeOK
<1>3. CallInv'
  BY DEF Memory!Tick, MemoryCacheInv, CallInv
<1>4. StampInv'
  BY DEF Memory!Tick, MemoryCacheInv, Memory!TypeOK, StampInv, Memory!MemoryCacheAssumption
<1> QED
  BY <1>2, <1>3, <1>4 DEF MemoryCacheInv

LEMMA NextInv ==
  ASSUME Memory!MemoryCacheAssumption, MemoryCacheInv, [Memory!Next]_(Memory!vars)
  PROVE  MemoryCacheInv'
<1>1. ASSUME NEW t \in Threads, Memory!Invoke(t)
      PROVE  MemoryCacheInv'
  BY <1>1, InvokePreserves
<1>2. ASSUME NEW t \in Threads, AnswerStep(t)
      PROVE  MemoryCacheInv'
  BY <1>2, AnswerStepPreserves
<1>3. ASSUME NEW t \in Threads, Memory!GetLastChangedTime(t)
      PROVE  MemoryCacheInv'
  BY <1>3, GetLastChangedTimePreserves
<1>4. ASSUME NEW t \in Threads, Memory!SetOrRemoveObject(t)
      PROVE  MemoryCacheInv'
  BY <1>4, ChangePreserves
<1>5. ASSUME NEW t \in Threads, Memory!TakeTime(t) \/ Memory!StoreTime(t) \/ Memory!Return(t)
      PROVE  MemoryCacheInv'
  BY <1>5, TakeTimePreserves, StoreTimePreserves, ReturnPreserves
<1>6. CASE Memory!Tick
  BY <1>6, TickPreserves
<1>7. CASE UNCHANGED Memory!vars
  BY <1>7 DEF Memory!vars, MemoryCacheInv, Memory!TypeOK, CallInv, StampInv
<1> QED
  BY <1>1, <1>2, <1>3, <1>4, <1>5, <1>6, <1>7 DEF Memory!Next, AnswerStep

\* The invariant that the other theorems of this module rest on: while a call of
\* the BIDMemoryCache operations is open it has no answer, and stamps of changes that did
\* not overlap are in the order of the changes.
THEOREM MemoryCacheInvariant ==
  ASSUME Memory!MemoryCacheAssumption
  PROVE  Memory!Spec => []MemoryCacheInv
<1>1. Memory!Init => MemoryCacheInv
  BY InitInv
<1>2. MemoryCacheInv /\ [Memory!Next]_(Memory!vars) => MemoryCacheInv'
  BY NextInv
<1> QED
  BY <1>1, <1>2, PTL DEF Memory!Spec

-----------------------------------------------------------------------------
(***************************************************************************)
(* The refinement.  Seen(c) is the call that a client of Cache sees.       *)
(***************************************************************************)
Seen(c) ==
    IF c.op = "time" THEN [op |-> "none", key |-> "none", val |-> "none",
                           reply |-> Memory!Reply("none", Memory!NoEntries)]
    ELSE [op |-> c.op, key |-> c.key, val |-> c.val, reply |-> c.reply]
MemoryCalls == [t \in Threads |-> Seen(thread[t])]

\* A step of thread t maps to one that leaves the calls of the others alone.
LEMMA SeenMoves ==
  ASSUME NEW t \in Threads, NEW c, Moves(t, c)
  PROVE  MemoryCalls' = [MemoryCalls EXCEPT ![t] = Seen(c)]
BY DEF Moves, MemoryCalls

LEMMA AtomicInit ==
  ASSUME Memory!Init
  PROVE  Memory!Atomic!Init
BY DEF Memory!Init, Memory!Idle, Memory!Atomic!Init, Memory!Atomic!NoCall, Memory!Atomic!NoReply,
   Memory!Atomic!Reply, Memory!Atomic!NoEntries, Memory!NoEntries, Memory!Reply

\* The calls of Cache are these: the definitions of Atomic in terms of Calls.
LEMMA AtomicSteps ==
  ASSUME NEW t \in Threads
  PROVE  /\ Memory!Atomic!Invoke(t) <=>
              /\ MemoryCalls[t] = Memory!Atomic!NoCall
              /\ \E op \in {"get", "set", "remove", "list", "initialize", "destroy"} :
                 \E k \in Keys \cup {"none"}, v \in Vals \cup {"none"} :
                   MemoryCalls' = [MemoryCalls EXCEPT ![t] =
                               [op |-> op, key |-> k, val |-> v,
                                reply |-> Memory!Reply("pending", Memory!NoEntries)]]
              /\ UNCHANGED data
         /\ Memory!Atomic!Apply(t) <=>
              /\ MemoryCalls[t].reply.status = "pending"
              /\ data' = Memory!Atomic!Effect(MemoryCalls[t])
              /\ MemoryCalls' = [MemoryCalls EXCEPT ![t].reply = Memory!Atomic!Answer(MemoryCalls[t])]
         /\ Memory!Atomic!Fail(t) <=>
              /\ MemoryCalls[t].op # "none"
              /\ MemoryCalls' = [MemoryCalls EXCEPT ![t].reply = Memory!Error]
              /\ UNCHANGED data
         /\ Memory!Atomic!Return(t) <=>
              /\ MemoryCalls[t].op # "none"
              /\ MemoryCalls' = [MemoryCalls EXCEPT ![t] = Memory!Atomic!NoCall]
              /\ UNCHANGED data
BY Zenon DEF Memory!Atomic!Invoke, Memory!Atomic!Apply, Memory!Atomic!Fail, Memory!Atomic!Return,
   Memory!Atomic!Reply, Memory!Atomic!NoEntries, Memory!Error, Memory!Reply, Memory!NoEntries,
   MemoryCalls, Seen

\* An answer to an open call, with the effect that Cache gives it, is one step.
LEMMA AnswerApplies ==
  ASSUME MemoryCacheInv, NEW t \in Threads, NEW c \in Memory!Thread, Moves(t, c),
         thread[t].pc = "called", thread[t].op # "time",
         c.op = thread[t].op, c.key = thread[t].key, c.val = thread[t].val,
         data' = Memory!Atomic!Effect(MemoryCalls[t]),
         c.reply = Memory!Atomic!Answer(MemoryCalls[t])
  PROVE  Memory!Atomic!Apply(t)
<1>1. thread[t] \in Memory!Thread /\ CallSound(thread[t])
  BY ThreadType DEF MemoryCacheInv, CallInv
<1>2. MemoryCalls[t] = [op |-> c.op, key |-> c.key, val |-> c.val, reply |-> thread[t].reply]
  BY DEF MemoryCalls, Seen
<1>3. MemoryCalls[t].reply.status = "pending"
  BY <1>1, <1>2 DEF CallSound
<1>4. Seen(c) = [op |-> c.op, key |-> c.key, val |-> c.val, reply |-> c.reply]
  BY DEF Seen
<1>5. Seen(c) = [MemoryCalls[t] EXCEPT !.reply = Memory!Atomic!Answer(MemoryCalls[t])]
  BY <1>2, <1>4
<1>6. MemoryCalls' = [MemoryCalls EXCEPT ![t].reply = Memory!Atomic!Answer(MemoryCalls[t])]
  BY <1>5, SeenMoves
<1> QED
  BY <1>3, <1>6, AtomicSteps

LEMMA AnswerFails ==
  ASSUME MemoryCacheInv, NEW t \in Threads, NEW c \in Memory!Thread, Moves(t, c),
         thread[t].op \notin {"time", "none"},
         c.op = thread[t].op, c.key = thread[t].key, c.val = thread[t].val,
         UNCHANGED data, c.reply = Memory!Error
  PROVE  Memory!Atomic!Fail(t)
<1>1. MemoryCalls[t] = [op |-> c.op, key |-> c.key, val |-> c.val, reply |-> thread[t].reply]
  BY DEF MemoryCalls, Seen
<1>2. Seen(c) = [op |-> c.op, key |-> c.key, val |-> c.val, reply |-> Memory!Error]
  BY DEF Seen
<1>3. Seen(c) = [MemoryCalls[t] EXCEPT !.reply = Memory!Error]
  BY <1>1, <1>2
<1>4. MemoryCalls' = [MemoryCalls EXCEPT ![t].reply = Memory!Error]
  BY <1>3, SeenMoves
<1>5. MemoryCalls[t].op # "none"
  BY <1>1
<1> QED
  BY <1>4, <1>5, AtomicSteps

\* What an answer does to its thread.
LEMMA AnswerMoves ==
  ASSUME MemoryCacheInv, NEW t \in Threads, thread[t].pc = "called",
         NEW reply \in [status : {"none", "pending", "ok", "error"}, entries : Memory!Map],
         NEW pc \in {"stamp", "done"},
         thread' = [thread EXCEPT ![t].pc = pc, ![t].reply = reply]
  PROVE  \E c \in Memory!Thread :
           /\ Moves(t, c)
           /\ c.op = thread[t].op /\ c.key = thread[t].key /\ c.val = thread[t].val
           /\ c.reply = reply
<1> DEFINE c == [thread[t] EXCEPT !.pc = pc, !.reply = reply]
<1>1. thread[t] \in Memory!Thread
  BY ThreadType DEF MemoryCacheInv
<1>2. c \in Memory!Thread /\ c.op = thread[t].op /\ c.key = thread[t].key /\ c.val = thread[t].val
                  /\ c.reply = reply
  BY <1>1 DEF Memory!Thread
<1>3. thread' = [thread EXCEPT ![t] = c]
  BY <1>1 DEF MemoryCacheInv, Memory!TypeOK
<1>4. Moves(t, c)
  BY <1>2, <1>3, ThreadMoves DEF MemoryCacheInv
<1> HIDE DEF c
<1> QED
  BY <1>2, <1>4

LEMMA ReplyTypes ==
  /\ \A m \in Memory!Map : Memory!Done(m)
       \in [status : {"none", "pending", "ok", "error"}, entries : Memory!Map]
  /\ Memory!Error \in [status : {"none", "pending", "ok", "error"}, entries : Memory!Map]
BY NoEntriesType DEF Memory!Done, Memory!Error, Memory!Reply

\* What Cache does for an operation on the entries.
LEMMA AtomicEffects ==
  ASSUME NEW t \in Threads, thread[t].op \notin {"time", "none"}
  PROVE  /\ thread[t].op = "get" =>
              /\ Memory!Atomic!Effect(MemoryCalls[t]) = data
              /\ Memory!Atomic!Answer(MemoryCalls[t])
                   = Memory!Done([k \in DOMAIN data \cap {thread[t].key} |-> data[k]])
         /\ thread[t].op = "list" =>
              /\ Memory!Atomic!Effect(MemoryCalls[t]) = data
              /\ Memory!Atomic!Answer(MemoryCalls[t]) = Memory!Done(data)
         /\ thread[t].op = "initialize" =>
              /\ Memory!Atomic!Effect(MemoryCalls[t]) = data
              /\ Memory!Atomic!Answer(MemoryCalls[t]) = Memory!Done(Memory!NoEntries)
         /\ thread[t].op = "destroy" =>
              /\ Memory!Atomic!Effect(MemoryCalls[t]) = Memory!NoEntries
              /\ Memory!Atomic!Answer(MemoryCalls[t]) = Memory!Done(Memory!NoEntries)
         /\ thread[t].op \in {"set", "remove"} =>
              /\ Memory!Atomic!Effect(MemoryCalls[t]) = Memory!Changed(thread[t])
              /\ Memory!Atomic!Answer(MemoryCalls[t]) = Memory!Done(Memory!NoEntries)
<1>1. MemoryCalls[t] = [op |-> thread[t].op, key |-> thread[t].key, val |-> thread[t].val,
                  reply |-> thread[t].reply]
  BY DEF MemoryCalls, Seen
<1>2. MemoryCalls[t].op = thread[t].op /\ MemoryCalls[t].key = thread[t].key
      /\ MemoryCalls[t].val = thread[t].val
  BY <1>1
<1> QED
  BY <1>2 DEF Memory!Atomic!Effect, Memory!Atomic!Answer, Memory!Atomic!Reply, Memory!Atomic!Only,
     Memory!Atomic!NoEntries, Memory!Atomic!Put, Memory!Atomic!Drop, Memory!Done, Memory!Reply,
     Memory!NoEntries, Memory!Changed

LEMMA AnswerStepRefines ==
  ASSUME MemoryCacheInv, NEW t \in Threads, AnswerStep(t) \/ Memory!SetOrRemoveObject(t)
  PROVE  Memory!Atomic!Apply(t) \/ Memory!Atomic!Fail(t)
<1>1. data \in Memory!Map
  BY DEF MemoryCacheInv, Memory!TypeOK
<1>2. CASE Memory!GetObject(t)
  <2>1. thread[t].pc = "called" /\ thread[t].op = "get"
    BY <1>2 DEF Memory!GetObject, Memory!Enters
  <2> DEFINE reply == Memory!Done([k \in DOMAIN data \cap {thread[t].key} |-> data[k]])
  <2>2. reply \in [status : {"none", "pending", "ok", "error"}, entries : Memory!Map]
    BY <1>1, OnlyType, ReplyTypes
  <2>3. thread' = [thread EXCEPT ![t].pc = "done", ![t].reply = reply] /\ data' = data
    BY <1>2 DEF Memory!GetObject, Memory!Answers
  <2>4. reply = Memory!Atomic!Answer(MemoryCalls[t]) /\ data' = Memory!Atomic!Effect(MemoryCalls[t])
    BY <2>1, <2>3, AtomicEffects
  <2> HIDE DEF reply
  <2>5. PICK c \in Memory!Thread : /\ Moves(t, c)
                            /\ c.op = thread[t].op /\ c.key = thread[t].key /\ c.val = thread[t].val
                            /\ c.reply = reply
    BY <2>1, <2>2, <2>3, AnswerMoves
  <2> QED
    BY <2>1, <2>4, <2>5, AnswerApplies
<1>3. CASE Memory!FirstObject(t) /\ DOMAIN data # {}
  <2>1. thread[t].pc = "called" /\ thread[t].op = "list"
    BY <1>3 DEF Memory!FirstObject, Memory!Enters
  <2> DEFINE reply == Memory!Done(data)
  <2>2. reply \in [status : {"none", "pending", "ok", "error"}, entries : Memory!Map]
    BY <1>1, ReplyTypes
  <2>3. thread' = [thread EXCEPT ![t].pc = "done", ![t].reply = reply] /\ data' = data
    BY <1>3 DEF Memory!FirstObject, Memory!Answers
  <2>4. reply = Memory!Atomic!Answer(MemoryCalls[t]) /\ data' = Memory!Atomic!Effect(MemoryCalls[t])
    BY <2>1, <2>3, AtomicEffects
  <2> HIDE DEF reply
  <2>5. PICK c \in Memory!Thread : /\ Moves(t, c)
                            /\ c.op = thread[t].op /\ c.key = thread[t].key /\ c.val = thread[t].val
                            /\ c.reply = reply
    BY <2>1, <2>2, <2>3, AnswerMoves
  <2> QED
    BY <2>1, <2>4, <2>5, AnswerApplies
<1>4. CASE (Memory!FirstObject(t) /\ DOMAIN data = {}) \/ Memory!SetOrRemoveFails(t)
  <2>1. thread[t].pc = "called" /\ thread[t].op \in {"list", "set", "remove"}
    BY <1>4 DEF Memory!FirstObject, Memory!SetOrRemoveFails, Memory!Enters
  <2> DEFINE reply == Memory!Error
  <2>2. reply \in [status : {"none", "pending", "ok", "error"}, entries : Memory!Map]
    BY ReplyTypes
  <2>3. thread' = [thread EXCEPT ![t].pc = "done", ![t].reply = reply] /\ data' = data
    BY <1>4 DEF Memory!FirstObject, Memory!SetOrRemoveFails, Memory!Answers
  <2>4. reply = Memory!Error
    OBVIOUS
  <2> HIDE DEF reply
  <2>5. PICK c \in Memory!Thread : /\ Moves(t, c)
                            /\ c.op = thread[t].op /\ c.key = thread[t].key /\ c.val = thread[t].val
                            /\ c.reply = reply
    BY <2>1, <2>2, <2>3, AnswerMoves
  <2> QED
    BY <2>1, <2>3, <2>4, <2>5, AnswerFails
<1>5. CASE Memory!Initialize(t) \/ Memory!Destroy(t) \/ Memory!SetOrRemoveObject(t)
  <2>1. thread[t].pc = "called" /\ thread[t].op \in {"initialize", "destroy", "set", "remove"}
    BY <1>5 DEF Memory!Initialize, Memory!Destroy, Memory!SetOrRemoveObject, Memory!Enters
  <2> DEFINE reply == Memory!Done(Memory!NoEntries)
  <2>2. reply \in [status : {"none", "pending", "ok", "error"}, entries : Memory!Map]
    BY ReplyTypes, NoEntriesType
  <2>3. PICK pc \in {"stamp", "done"} : thread' = [thread EXCEPT ![t].pc = pc, ![t].reply = reply]
    BY <1>5 DEF Memory!Initialize, Memory!Destroy, Memory!SetOrRemoveObject, Memory!Answers,
       Memory!NextAfter
  <2>4. reply = Memory!Atomic!Answer(MemoryCalls[t]) /\ data' = Memory!Atomic!Effect(MemoryCalls[t])
    BY <1>5, <2>1, AtomicEffects DEF Memory!Initialize, Memory!Destroy, Memory!SetOrRemoveObject,
       Memory!Enters
  <2> HIDE DEF reply
  <2>5. PICK c \in Memory!Thread : /\ Moves(t, c)
                            /\ c.op = thread[t].op /\ c.key = thread[t].key /\ c.val = thread[t].val
                            /\ c.reply = reply
    BY <2>1, <2>2, <2>3, AnswerMoves, ZenonT(60)
  <2> QED
    BY <2>1, <2>4, <2>5, AnswerApplies
<1> QED
  BY <1>2, <1>3, <1>4, <1>5 DEF AnswerStep

LEMMA SeenIdle == Seen(Memory!Idle) = Memory!Atomic!NoCall
BY DEF Seen, Memory!Idle, Memory!Atomic!NoCall, Memory!Atomic!NoReply, Memory!Atomic!Reply,
   Memory!Atomic!NoEntries, Memory!Reply, Memory!NoEntries

LEMMA SeenTime ==
  ASSUME NEW c, c.op = "time"
  PROVE  Seen(c) = Memory!Atomic!NoCall
BY DEF Seen, Memory!Atomic!NoCall, Memory!Atomic!NoReply, Memory!Atomic!Reply,
   Memory!Atomic!NoEntries, Memory!Reply, Memory!NoEntries

\* A call is made, or the time is asked for, which Cache does not see.
LEMMA CallRefines ==
  ASSUME Memory!MemoryCacheAssumption, MemoryCacheInv, NEW t \in Threads, NEW op \in Memory!OpName,
         NEW k \in Keys \cup {"none"}, NEW v \in Vals \cup {"none"}, Memory!Call(t, op, k, v)
  PROVE  Memory!Atomic!Invoke(t) \/ UNCHANGED <<data, MemoryCalls>>
<1> DEFINE c == [pc |-> "called", op |-> op, key |-> k, val |-> v, now |-> 0,
                 reply |-> Memory!Reply("pending", Memory!NoEntries)]
<1>1. /\ thread \in [Threads -> Memory!Thread] /\ thread[t].pc = "idle"
      /\ thread' = [thread EXCEPT ![t] = c] /\ data' = data
  BY DEF Memory!Call, MemoryCacheInv, Memory!TypeOK
<1>2. Memory!Reply("pending", Memory!NoEntries)
        \in [status : {"none", "pending", "ok", "error"}, entries : Memory!Map]
  BY NoEntriesType DEF Memory!Reply
<1>3. 0 \in 0..MaxTime
  BY DEF Memory!MemoryCacheAssumption
<1>4. c \in Memory!Thread
  BY <1>2, <1>3 DEF Memory!Thread
<1>5. Moves(t, c)
  BY <1>1, <1>4, ThreadMoves DEF MemoryCacheInv
<1>6. MemoryCalls' = [MemoryCalls EXCEPT ![t] = Seen(c)]
  BY <1>5, SeenMoves
<1>7. MemoryCalls[t] = Memory!Atomic!NoCall
  BY <1>1, SeenIdle DEF MemoryCalls, MemoryCacheInv, CallInv, CallSound
<1>8. CASE op = "time"
  <2>1. Seen(c) = MemoryCalls[t]
    BY <1>7, <1>8, SeenTime
  <2>2. MemoryCalls' = MemoryCalls
    BY <1>6, <2>1 DEF MemoryCalls
  <2> QED
    BY <1>1, <2>2
<1>9. CASE op # "time"
  <2>1. Seen(c) = [op |-> op, key |-> k, val |-> v,
                   reply |-> Memory!Reply("pending", Memory!NoEntries)]
    BY <1>9 DEF Seen
  <2>2. op \in {"get", "set", "remove", "list", "initialize", "destroy"}
    BY <1>9 DEF Memory!OpName
  <2> HIDE DEF c
  <2>3. MemoryCalls' = [MemoryCalls EXCEPT ![t] =
                               [op |-> op, key |-> k, val |-> v,
                                       reply |-> Memory!Reply("pending", Memory!NoEntries)]]
    BY <1>6, <2>1
  <2> QED
    BY <1>1, <1>7, <2>2, <2>3, AtomicSteps
<1> QED
  BY <1>8, <1>9

LEMMA InvokeRefines ==
  ASSUME Memory!MemoryCacheAssumption, MemoryCacheInv, NEW t \in Threads, Memory!Invoke(t)
  PROVE  Memory!Atomic!Invoke(t) \/ UNCHANGED <<data, MemoryCalls>>
<1>1. PICK op \in Memory!OpName, k \in Keys \cup {"none"}, v \in Vals \cup {"none"}
             : Memory!Call(t, op, k, v)
  BY DEF Memory!Invoke, Memory!OpName
<1> QED
  BY <1>1, CallRefines

\* Cache does not see the stamp, nor the answer about the time.
LEMMA TimeStepsUnseen ==
  ASSUME MemoryCacheInv, NEW t \in Threads,
         Memory!TakeTime(t) \/ Memory!StoreTime(t) \/ Memory!GetLastChangedTime(t)
  PROVE  UNCHANGED <<data, MemoryCalls>>
<1>1. thread \in [Threads -> Memory!Thread] /\ thread[t] \in Memory!Thread
  BY ThreadType DEF MemoryCacheInv, Memory!TypeOK
<1>2. data' = data
  BY DEF Memory!TakeTime, Memory!StoreTime, Memory!GetLastChangedTime
<1>3. /\ \A u \in Threads \ {t} : thread'[u] = thread[u]
      /\ thread'[t].op = thread[t].op /\ thread'[t].key = thread[t].key
      /\ thread'[t].val = thread[t].val /\ thread'[t].reply = thread[t].reply
  <2>1. CASE Memory!TakeTime(t)
    BY <1>1, <2>1 DEF Memory!TakeTime, Memory!Thread
  <2>2. CASE Memory!StoreTime(t)
    BY <1>1, <2>2 DEF Memory!StoreTime, Memory!Thread
  <2>3. CASE Memory!GetLastChangedTime(t)
    BY <1>1, <2>3 DEF Memory!GetLastChangedTime, Memory!Thread
  <2> QED
    BY <2>1, <2>2, <2>3
<1>4. \A u \in Threads : Seen(thread'[u]) = Seen(thread[u])
  BY <1>3 DEF Seen
<1> QED
  BY <1>2, <1>4 DEF MemoryCalls

LEMMA ReturnRefines ==
  ASSUME Memory!MemoryCacheAssumption, MemoryCacheInv, NEW t \in Threads, Memory!Return(t)
  PROVE  Memory!Atomic!Return(t) \/ UNCHANGED <<data, MemoryCalls>>
<1>1. Moves(t, Memory!Idle) /\ data' = data
  BY IdleSound, ThreadMoves DEF Memory!Return, MemoryCacheInv
<1>2. MemoryCalls' = [MemoryCalls EXCEPT ![t] = Memory!Atomic!NoCall]
  BY <1>1, SeenMoves, SeenIdle
<1>3. thread[t].op # "none"
  BY DEF Memory!Return, MemoryCacheInv, CallInv, CallSound
<1>4. CASE thread[t].op = "time"
  <2>1. MemoryCalls[t] = Memory!Atomic!NoCall
    BY <1>4, SeenTime DEF MemoryCalls
  <2>2. MemoryCalls' = MemoryCalls
    BY <1>2, <2>1 DEF MemoryCalls
  <2> QED
    BY <1>1, <2>2
<1>5. CASE thread[t].op # "time"
  <2>1. MemoryCalls[t].op # "none"
    BY <1>3, <1>5 DEF MemoryCalls, Seen
  <2> QED
    BY <1>1, <1>2, <2>1, AtomicSteps
<1> QED
  BY <1>4, <1>5

LEMMA NextRefines ==
  ASSUME Memory!MemoryCacheAssumption, MemoryCacheInv, [Memory!Next]_(Memory!vars)
  PROVE  [Memory!Atomic!Next]_(Memory!Atomic!vars)
<1>1. (\E t \in Threads : Memory!Atomic!Invoke(t) \/ Memory!Atomic!Apply(t) \/ Memory!Atomic!Fail(t)
                  \/ Memory!Atomic!Return(t))
      \/ UNCHANGED <<data, MemoryCalls>>
  <2>1. ASSUME NEW t \in Threads, Memory!Invoke(t)
        PROVE  Memory!Atomic!Invoke(t) \/ UNCHANGED <<data, MemoryCalls>>
    BY <2>1, InvokeRefines
  <2>2. ASSUME NEW t \in Threads, AnswerStep(t) \/ Memory!SetOrRemoveObject(t)
        PROVE  Memory!Atomic!Apply(t) \/ Memory!Atomic!Fail(t)
    BY <2>2, AnswerStepRefines
  <2>3. ASSUME NEW t \in Threads,
               Memory!TakeTime(t) \/ Memory!StoreTime(t) \/ Memory!GetLastChangedTime(t)
        PROVE  UNCHANGED <<data, MemoryCalls>>
    BY <2>3, TimeStepsUnseen
  <2>4. ASSUME NEW t \in Threads, Memory!Return(t)
        PROVE  Memory!Atomic!Return(t) \/ UNCHANGED <<data, MemoryCalls>>
    BY <2>4, ReturnRefines
  <2>5. ASSUME Memory!Tick \/ UNCHANGED Memory!vars
        PROVE  UNCHANGED <<data, MemoryCalls>>
    BY <2>5 DEF Memory!Tick, Memory!vars, MemoryCalls
  <2> QED
    BY <2>1, <2>2, <2>3, <2>4, <2>5, Zenon DEF Memory!Next, AnswerStep
<1>2. UNCHANGED <<data, MemoryCalls>> => UNCHANGED Memory!Atomic!vars
  BY DEF Memory!Atomic!vars, MemoryCalls, Seen
<1> QED
  BY <1>1, <1>2, Zenon DEF Memory!Atomic!Next

\* The memory cache implements the atomic map that the interface of bid_cache.c
\* promises: every call of the BIDMemoryCache operations takes effect at one moment
\* between its invocation and its return, whatever the threads do.
THEOREM MemoryCacheImplementsCache ==
  ASSUME Memory!MemoryCacheAssumption
  PROVE  Memory!Spec => Memory!Linearizable
<1>1. Memory!Init => Memory!Atomic!Init
  BY AtomicInit
<1>2. MemoryCacheInv /\ [Memory!Next]_(Memory!vars) => [Memory!Atomic!Next]_(Memory!Atomic!vars)
  BY NextRefines
<1> QED
  BY <1>1, <1>2, MemoryCacheInvariant, PTL DEF Memory!Spec, Memory!Linearizable, Memory!Atomic!Spec
-----------------------------------------------------------------------------
(***************************************************************************)
(* The caches of MCCaches.  Ones and Two are the theorems about the cache  *)
(* in a file, for the instance with one process that writes and for the    *)
(* one with any processes.                                                 *)
(***************************************************************************)
Ones == INSTANCE FileCache_proofs
    WITH Processes <- {Writer} \cup Readers, Faults <- {"fail", "crash"},
         Calls <- [p \in {Writer} \cup Readers |-> CallsOf(p)],
         inode <- inode1, name <- name1, locks <- locks1, proc <- proc1,
         touched <- touched1, rewritten <- rewritten1

Two == INSTANCE FileCache_proofs

\* The instances of FileCache define the same behaviours.
LEMMA OneWriterSame ==
    /\ One!Init <=> Ones!Init
    /\ [One!Next]_oneVars <=> [Ones!Next]_(Ones!vars)
  <1>1. One!Init <=> Ones!Init
    BY Zenon DEF One!Init, Ones!Init, One!Free, Ones!Free, One!NoEntries, Ones!NoEntries, One!Idle,
       Ones!Idle, One!Reply, Ones!Reply
  <1>2. One!Next <=> Ones!Next
    BY Zenon DEF One!Next, Ones!Next, One!Begin, Ones!Begin, One!Start, Ones!Start, One!PurgeNext,
       Ones!PurgeNext, One!Return, Ones!Return, One!Lstat, Ones!Lstat, One!Open, Ones!Open,
       One!Opener, Ones!Opener, One!Opened, Ones!Opened, One!Lock, Ones!Lock, One!GetObject,
       Ones!GetObject, One!FirstObject, Ones!FirstObject, One!ReadFails, Ones!ReadFails,
       One!ReadBy, Ones!ReadBy, One!SetOrRemoveObject, Ones!SetOrRemoveObject, One!Updated,
       Ones!Updated, One!Rename, Ones!Rename, One!StoreInPlace, Ones!StoreInPlace, One!Unlink,
       Ones!Unlink, One!Scrub, Ones!Scrub, One!Close, Ones!Close, One!StepFails, Ones!StepFails,
       One!Crash, Ones!Crash, One!Step, Ones!Step, One!Done, Ones!Done, One!Unlocked,
       Ones!Unlocked, One!At, Ones!At, One!File, Ones!File, One!ShouldPurge, Ones!ShouldPurge,
       One!Remaining, Ones!Remaining, One!Content, Ones!Content, One!Store, Ones!Store,
       One!Differ, Ones!Differ, One!Only, Ones!Only, One!Put, Ones!Put, One!Drop, Ones!Drop,
       One!NoEntries, Ones!NoEntries, One!Free, Ones!Free, One!Created, Ones!Created, One!Whole,
       Ones!Whole, One!Reply, Ones!Reply, One!OK, Ones!OK, One!Error, Ones!Error, One!Idle,
       Ones!Idle
  <1> QED
    BY <1>1, <1>2 DEF oneVars, Ones!vars

LEMMA OneAtomicSame ==
    /\ One!Atomic!Init <=> Ones!Atomic!Init
    /\ One!Atomic!Next <=> Ones!Atomic!Next
    /\ UNCHANGED One!Atomic!vars <=> UNCHANGED Ones!Atomic!vars
  BY Zenon DEF One!Atomic!Init, Ones!Atomic!Init, One!Atomic!Next, Ones!Atomic!Next,
       One!Atomic!vars, Ones!Atomic!vars,
       One!Atomic!Invoke, Ones!Atomic!Invoke, One!Atomic!Apply, Ones!Atomic!Apply,
       One!Atomic!Fail, Ones!Atomic!Fail, One!Atomic!Return, Ones!Atomic!Return,
       One!Atomic!Effect, Ones!Atomic!Effect, One!Atomic!Answer, Ones!Atomic!Answer,
       One!Atomic!Put, Ones!Atomic!Put, One!Atomic!Drop, Ones!Atomic!Drop, One!Atomic!Only,
       Ones!Atomic!Only, One!Atomic!NoEntries, Ones!Atomic!NoEntries, One!Atomic!Reply,
       Ones!Atomic!Reply, One!Atomic!NoReply, Ones!Atomic!NoReply, One!Atomic!NoCall,
       Ones!Atomic!NoCall, One!Store, Ones!Store, One!Content, Ones!Content, One!NoEntries,
       Ones!NoEntries, One!Promise, Ones!Promise, One!At, Ones!At, One!File, Ones!File,
       One!Only, Ones!Only, One!Reply, Ones!Reply, One!OK, Ones!OK

LEMMA TwoWritersSame ==
    /\ Init <=> Two!Init
    /\ [Next]_vars <=> [Two!Next]_(Two!vars)
    /\ TypeOK <=> Two!TypeOK
  <1>1. Init <=> Two!Init
    BY Zenon DEF Init, Two!Init, Free, Two!Free, NoEntries, Two!NoEntries, Idle, Two!Idle, Reply,
       Two!Reply
  <1>2. Next <=> Two!Next
    BY Zenon DEF Next, Two!Next, Begin, Two!Begin, Start, Two!Start, PurgeNext, Two!PurgeNext,
       Return, Two!Return, Lstat, Two!Lstat, Open, Two!Open, Opener, Two!Opener, Opened,
       Two!Opened, Lock, Two!Lock, GetObject, Two!GetObject, FirstObject, Two!FirstObject,
       ReadFails, Two!ReadFails, ReadBy, Two!ReadBy, SetOrRemoveObject, Two!SetOrRemoveObject,
       Updated, Two!Updated, Rename, Two!Rename, StoreInPlace, Two!StoreInPlace, Unlink,
       Two!Unlink, Scrub, Two!Scrub, Close, Two!Close, StepFails, Two!StepFails, Crash, Two!Crash,
       Step, Two!Step, Done, Two!Done, Unlocked, Two!Unlocked, At, Two!At, File, Two!File,
       ShouldPurge, Two!ShouldPurge, Remaining, Two!Remaining, Content, Two!Content, Store,
       Two!Store, Differ, Two!Differ, Only, Two!Only, Put, Two!Put, Drop, Two!Drop, NoEntries,
       Two!NoEntries, Free, Two!Free, Created, Two!Created, Whole, Two!Whole, Reply, Two!Reply,
       OK, Two!OK, Error, Two!Error, Idle, Two!Idle
  <1>3. TypeOK <=> Two!TypeOK
    BY Zenon DEF TypeOK, Two!TypeOK, Inode, Two!Inode, Map, Two!Map, Process, Two!Process, PC,
       Two!PC, OpName, Two!OpName
  <1> QED
    BY <1>1, <1>2, <1>3 DEF vars, Two!vars

-----------------------------------------------------------------------------
\* The hypothesis of the theorems about the cache in a file: one process writes, and
\* what it has written can be read.
LEMMA OneWriterHolds == Ones!OneWriter
  BY DEF Ones!OneWriter, Ones!Writes, CallsOf

\* The assumptions of FileCache hold of the instances.
LEMMA OneAssumption ==
    /\ [p \in {Writer} \cup Readers |-> CallsOf(p)]
         \in [{Writer} \cup Readers -> SUBSET Ones!OpName]
    /\ Purgeable \subseteq Vals
    /\ Ones!IsFiniteSet(Inodes) /\ NoFile \notin Inodes
    /\ {"fail", "crash"} \subseteq {"fail", "crash", "read"}
  <1>1. \A p : CallsOf(p) \in SUBSET Ones!OpName
    BY DEF CallsOf, Ones!OpName
  <1>2. Ones!IsFiniteSet(Inodes)
    BY FileCacheAssumption, Zenon DEF IsFiniteSet, Ones!IsFiniteSet
  <1>3. Purgeable \subseteq Vals /\ NoFile \notin Inodes
    BY FileCacheAssumption, Zenon
  <1> QED
    BY <1>1, <1>2, <1>3

LEMMA TwoAssumption ==
    /\ Calls \in [Processes -> SUBSET Two!OpName]
    /\ Purgeable \subseteq Vals
    /\ Two!IsFiniteSet(Inodes) /\ NoFile \notin Inodes
    /\ Faults \subseteq {"fail", "crash", "read"}
  BY FileCacheAssumption, Zenon DEF OpName, Two!OpName, IsFiniteSet, Two!IsFiniteSet

\* What holds of the cache in a file in the behaviours of MCCaches that are its own.
OneInv == of = "one writer" => Ones!FileCacheInv /\ Ones!AtomicInv

LEMMA OneInvariant == MCSpec => []OneInv
  <1>1. MCInit /\ of = "one writer" => Ones!Init
    BY OneWriterSame DEF MCInit
  <1>2. of = "one writer" /\ [MCNext]_allVars => (of = "one writer")' /\ [Ones!Next]_(Ones!vars)
    BY OneWriterSame DEF MCNext, allVars, oneVars
  <1>3. ~(of = "one writer") /\ [MCNext]_allVars => ~(of = "one writer")'
    BY DEF MCNext, allVars
  <1>4. Ones!Spec => [](Ones!FileCacheInv /\ Ones!AtomicInv)
    BY OneAssumption, OneWriterHolds, Ones!OneWriterInvariant, Zenon
  <1> QED
    BY <1>1, <1>2, <1>3, <1>4, PTL DEF MCSpec, Ones!Spec, OneInv

\* The same for the cache in memory.
MemoryInv == of = "memory" => MemoryCacheInv

LEMMA MemoryInvariant == MCSpec => []MemoryInv
  <1>1. MCInit => MemoryInv
    BY MCCachesAssumption, InitInv DEF MCInit, MemoryInv
  <1>2. MemoryInv /\ [MCNext]_allVars => MemoryInv'
    <2> SUFFICES ASSUME MemoryInv, [MCNext]_allVars, of' = "memory"
                 PROVE  MemoryCacheInv'
      BY DEF MemoryInv
    <2>1. of = "memory" /\ [Memory!Next]_(Memory!vars)
      BY DEF MCNext, allVars, memoryVars, Memory!vars
    <2> QED
      BY <2>1, MCCachesAssumption, NextInv DEF MemoryInv
  <1> QED
    BY <1>1, <1>2, PTL DEF MCSpec

\* FileCache and MemoryCache: whatever processes and threads do and whatever fails, a
\* lock of the file has a process that holds the file open, entries and calls keep
\* their types.
THEOREM CachesTypes == MCSpec => []CachesTypeOK
  <1>1. MCSpec => Two!Spec
    <2>1. MCInit => Two!Init
      BY TwoWritersSame DEF MCInit
    <2>2. [MCNext]_allVars => [Two!Next]_(Two!vars)
      BY TwoWritersSame DEF MCNext, allVars, vars
    <2> QED
      BY <2>1, <2>2, PTL DEF MCSpec, Two!Spec
  <1>2. Two!Spec => []Two!TypeOK
    BY TwoAssumption, Two!FileCacheTypes, Zenon
  <1>3. Two!TypeOK /\ MemoryInv => CachesTypeOK
    BY TwoWritersSame DEF MemoryInv, MemoryCacheInv, CachesTypeOK
  <1> QED
    BY <1>1, <1>2, <1>3, MemoryInvariant, PTL

\* MemoryCache: the time of the last change, which BIDMemoryCacheGetLastChangedTime
\* reads, is behind the last change only if two changes overlapped.
THEOREM StampsAreTrue == MCSpec => []StampMissesOnlyByOverlap
  <1>1. MemoryInv => StampMissesOnlyByOverlap
    BY DEF MemoryInv, MemoryCacheInv, Memory!TypeOK, StampInv, StampMissesOnlyByOverlap,
       Memory!StampMissesOnlyByOverlap, Stamping
  <1> QED
    BY <1>1, MemoryInvariant, PTL

\* FileCache with one process that writes, and MemoryCache with any threads: their
\* steps are steps of the atomic map that the interface of bid_cache.c promises.
THEOREM CachesAreAtomic == MCSpec => CachesLinearizable
  <1>1. MCInit => (of = "one writer" => One!Atomic!Init) /\ (of = "memory" => Memory!Atomic!Init)
    BY OneAssumption, OneWriterSame, OneAtomicSame, Ones!InitRefines, AtomicInit, Zenon
       DEF MCInit
  <1>2. OneInv /\ [MCNext]_allVars => [of = "one writer" => One!Atomic!Next]_(One!Atomic!vars)
    <2> SUFFICES ASSUME OneInv, [MCNext]_allVars, of = "one writer"
                 PROVE  [One!Atomic!Next]_(One!Atomic!vars)
      OBVIOUS
    <2>1. [Ones!Next]_(Ones!vars)
      BY OneWriterSame DEF MCNext, allVars, oneVars
    <2>2. [Ones!Atomic!Next]_(Ones!Atomic!vars)
      BY <2>1, OneAssumption, OneWriterHolds, Ones!NextRefines, Zenon DEF OneInv
    <2> QED
      BY <2>2, OneAtomicSame, Zenon
  <1>3. MemoryInv /\ [MCNext]_allVars => [of = "memory" => Memory!Atomic!Next]_(Memory!Atomic!vars)
    <2> SUFFICES ASSUME MemoryInv, [MCNext]_allVars, of = "memory"
                 PROVE  [Memory!Atomic!Next]_(Memory!Atomic!vars)
      OBVIOUS
    <2>1. [Memory!Next]_(Memory!vars)
      BY DEF MCNext, allVars, memoryVars, Memory!vars
    <2> QED
      BY <2>1, MCCachesAssumption, NextRefines DEF MemoryInv
  <1> QED
    BY <1>1, <1>2, <1>3, OneInvariant, MemoryInvariant, PTL DEF MCSpec, CachesLinearizable
=============================================================================
