------------------------------ MODULE MCCaches -------------------------------
(***************************************************************************)
(* Instances of the modules about shared caches: FileCache with            *)
(* two writers and with one, and MemoryCache.  A behaviour is one of the   *)
(* component "of", and the variables of the others keep their first value. *)
(***************************************************************************)
EXTENDS FileCache, TLC

CONSTANTS
    x1, x2,             \* processes, threads
    k1, k2, h1, h2, h3, \* keys and files
    Writer, Readers,    \* one process that writes, and others that read
    Threads, ReadOnly, MaxTime   \* of the memory cache

VARIABLES
    of,
    inode1, name1, locks1, proc1, touched1, rewritten1,             \* of One
    data, lastChangedTime, thread, clock, changed, overlapped      \* of Memory

oneVars == <<inode1, name1, locks1, proc1, touched1, rewritten1>>
memoryVars == <<data, lastChangedTime, thread, clock, changed, overlapped>>
allVars == <<of, vars, oneVars, memoryVars>>

\* Two processes that write; a lookup changes no entry.
TwoWriters == [p \in {x1, x2} |-> OpName \ {"get"}]

\* One process writes, the others read; system calls fail and processes crash.
CallsOf(p) == IF p = Writer THEN {"set", "remove", "purge", "initialize", "destroy"} ELSE {"get"}

One == INSTANCE FileCache
    WITH Processes <- {Writer} \cup Readers, Faults <- {"fail", "crash"},
         Calls <- [p \in {Writer} \cup Readers |-> CallsOf(p)],
         inode <- inode1, name <- name1, locks <- locks1, proc <- proc1,
         touched <- touched1, rewritten <- rewritten1

Memory == INSTANCE MemoryCache

ASSUME MCCachesAssumption ==
    One!FileCacheAssumption /\ Memory!MemoryCacheAssumption

Symmetry == Permutations({h1, h2, h3}) \cup Permutations({x1, x2}) \cup Permutations({k1, k2})

NoOne ==
    /\ inode1 = "none" /\ name1 = "none" /\ locks1 = "none" /\ proc1 = "none"
    /\ touched1 = "none" /\ rewritten1 = "none"
NoMemory ==
    /\ data = "none" /\ lastChangedTime = "none" /\ thread = "none" /\ clock = "none"
    /\ changed = "none" /\ overlapped = "none"

MCInit ==
    /\ Init
    /\ \/ of = "two writers" /\ NoOne /\ NoMemory
       \/ of = "one writer" /\ One!Init /\ NoMemory
       \/ of = "memory" /\ Memory!Init /\ NoOne

MCNext ==
    \/ of = "two writers" /\ Next /\ UNCHANGED <<of, oneVars, memoryVars>>
    \/ of = "one writer" /\ One!Next /\ UNCHANGED <<of, vars, memoryVars>>
    \/ of = "memory" /\ Memory!Next /\ UNCHANGED <<of, vars, oneVars>>

MCSpec == MCInit /\ [][MCNext]_allVars

-----------------------------------------------------------------------------
\* The types of the caches: a lock has a process that holds its file (FileCache),
\* an entry a value and a call its place (MemoryCache).
CachesTypeOK == TypeOK /\ (of = "memory" => Memory!TypeOK)

\* The cache file with one process that writes, and the memory cache, behave like
\* an atomic map (Linearizable of FileCache and of MemoryCache): their steps are
\* steps of Cache.
CachesLinearizable ==
    /\ of = "one writer" => One!Atomic!Init
    /\ [][of = "one writer" => One!Atomic!Next]_(One!Atomic!vars)
    /\ of = "memory" => Memory!Atomic!Init
    /\ [][of = "memory" => Memory!Atomic!Next]_(Memory!Atomic!vars)

\* The time of the last change is not before the last change, unless two
\* changes overlapped (MemoryCache).
StampMissesOnlyByOverlap == of = "memory" => Memory!StampMissesOnlyByOverlap
=============================================================================
