-------------------------- MODULE FileCache_proofs ---------------------------
(***************************************************************************)
(* Theorems about FileCache, for any number of processes, files, keys and  *)
(* values, any calls and any faults: what overlapping writers can lose,    *)
(* what a purge can, and that a file with one writer implements Cache.     *)
(***************************************************************************)
EXTENDS FileCache, TLAPS

\* Where a process has its file open.
Holding == {"lock", "load", "rename", "store", "unlink", "scrub", "close"}

\* A process in state s is in one of its calls.
CallSound(s) ==
    /\ s.pc \in Holding <=> s.fd # NoFile
    /\ s.op \in {"get", "set", "remove"} => s.key \in Keys
    /\ s.op = "set" => s.val \in Vals
    /\ s.pc = "rename" => s.op \in {"set", "remove"}
    /\ s.pc = "store" => s.op = "initialize"
    /\ s.pc \in {"unlink", "scrub", "close"} => s.op = "destroy"
    /\ s.pc \in {"idle", "purging"} => s.op = "none"
    /\ s.pc = "idle" \/ ~s.purge => s.todo = {}
    /\ s.purge => s.op \in {"list", "remove", "none"}
    /\ s.op = "list" => s.purge
    /\ s.op = "list" /\ s.pc # "done" => s.todo = {}

\* Two contents agree on all keys but those of D.
AgreeBut(c, d, D) == \A k \in Keys : k \notin D => Only(c, k) = Only(d, k)

\* The open file of a process in state s, among files f with content c under the
\* name: it holds what the name held when it was opened, but for the keys t.
HeldSound(s, f, c, t) ==
    s.fd # NoFile =>
        /\ f[s.fd].state # "free"
        /\ AgreeBut(f[s.fd].data, c, t)
        /\ f[s.fd].state = "scrubbed" => DOMAIN f[s.fd].data \subseteq t
        /\ s.op = "initialize" => f[s.fd].data = NoEntries

\* What a writer is about to put in place of the file.
WriteSound(s, c, t) == s.pc = "rename" /\ ~s.blind => AgreeBut(s.data, c, t \cup {s.key})

\* The entries a purge is going to remove.
Removes(s) == s.todo \cup (IF s.op = "remove" THEN {s.key} ELSE {})
PurgeSound(s, f, c, w) ==
    s.purge =>
        /\ s.op = "list" /\ s.pc \in {"lock", "load"} => AgreeBut(f[s.fd].data, c, w)
        /\ \A k \in Removes(s) \cap DOMAIN c : c[k] \in Purgeable \/ k \in w

ProcessSound(s, f, c, t, w) ==
    CallSound(s) /\ HeldSound(s, f, c, t) /\ WriteSound(s, c, t) /\ PurgeSound(s, f, c, w)

\* The files: only a file that is being, or has been, destroyed is overwritten, and
\* such a file has lost its name.
FilesInv ==
    /\ \A i \in Inodes : inode[i].state \in {"free", "empty"} => inode[i].data = NoEntries
    /\ name # NoFile => inode[name].state \notin {"free", "scrubbed"}
    /\ \A p, q \in Processes :
           At(p, "scrub") => proc[p].fd # name
                             /\ (proc[q].fd = proc[p].fd =>
                                    DOMAIN inode[proc[p].fd].data \subseteq touched[q])

LocksInv == \A l \in locks : l.proc \in Processes

ProcessesInv ==
    \A p \in Processes : ProcessSound(proc[p], inode, Store, touched[p], rewritten[p])

\* The inductive invariant.
FileCacheInv == TypeOK /\ FilesInv /\ LocksInv /\ ProcessesInv

-----------------------------------------------------------------------------
(***************************************************************************)
(* The entries of a cache.                                                 *)
(***************************************************************************)

LEMMA MapMembers ==
    /\ \A s : s \in Map <=> \E S \in SUBSET Keys : s \in [S -> Vals]
    /\ NoEntries \in Map /\ DOMAIN NoEntries = {}
  <1>1. \A s : s \in Map <=> \E S \in SUBSET Keys : s \in [S -> Vals]
    BY DEF Map
  <1>2. NoEntries \in [{} -> Vals] /\ {} \in SUBSET Keys
    BY DEF NoEntries
  <1> QED
    BY <1>1, <1>2

LEMMA MapChanges ==
    ASSUME NEW s \in Map, NEW k \in Keys
    PROVE /\ Drop(s, k) \in Map /\ Only(s, k) \in Map
          /\ \A v \in Vals : Put(s, k, v) \in Map
  <1>1. PICK S \in SUBSET Keys : s \in [S -> Vals]
    BY MapMembers
  <1>2. Drop(s, k) \in [S \ {k} -> Vals] /\ Only(s, k) \in [S \cap {k} -> Vals]
    BY <1>1 DEF Drop, Only
  <1>3. \A v \in Vals : Put(s, k, v) \in [S \cup {k} -> Vals]
    BY <1>1 DEF Put
  <1>4. S \ {k} \in SUBSET Keys /\ S \cap {k} \in SUBSET Keys /\ S \cup {k} \in SUBSET Keys
    BY <1>1
  <1> QED
    BY <1>2, <1>3, <1>4, MapMembers

\* A change of one entry leaves the others alone.
LEMMA OnlyOthers ==
    ASSUME NEW s, NEW k, NEW v, NEW x, x # k
    PROVE Only(Put(s, k, v), x) = Only(s, x) /\ Only(Drop(s, k), x) = Only(s, x)
  <1>1. /\ DOMAIN Put(s, k, v) \cap {x} = DOMAIN s \cap {x}
        /\ DOMAIN Drop(s, k) \cap {x} = DOMAIN s \cap {x}
    BY DEF Put, Drop
  <1>2. \A y \in DOMAIN s \cap {x} : Put(s, k, v)[y] = s[y] /\ Drop(s, k)[y] = s[y]
    BY DEF Put, Drop
  <1> QED
    BY <1>1, <1>2 DEF Only

LEMMA OnlyEqual ==
    ASSUME NEW s, NEW t, NEW k
    PROVE /\ Only(s, k) = Only(t, k) =>
                 /\ k \in DOMAIN s <=> k \in DOMAIN t
                 /\ k \in DOMAIN s => s[k] = t[k]
          /\ k \notin DOMAIN s /\ k \notin DOMAIN t => Only(s, k) = Only(t, k)
  <1>1. ASSUME Only(s, k) = Only(t, k), k \in DOMAIN s PROVE k \in DOMAIN t /\ s[k] = t[k]
    <2>1. DOMAIN Only(s, k) = DOMAIN s \cap {k} /\ DOMAIN Only(t, k) = DOMAIN t \cap {k}
      BY DEF Only
    <2>2. Only(s, k)[k] = s[k]
      BY <1>1 DEF Only
    <2>3. k \in DOMAIN t
      BY <1>1, <2>1
    <2>4. Only(t, k)[k] = t[k]
      BY <2>3 DEF Only
    <2> QED
      BY <1>1, <2>2, <2>3, <2>4
  <1>2. ASSUME Only(s, k) = Only(t, k), k \in DOMAIN t PROVE k \in DOMAIN s
    <2>1. DOMAIN Only(s, k) = DOMAIN s \cap {k} /\ DOMAIN Only(t, k) = DOMAIN t \cap {k}
      BY DEF Only
    <2> QED
      BY <1>2, <2>1
  <1>3. ASSUME k \notin DOMAIN s, k \notin DOMAIN t PROVE Only(s, k) = Only(t, k)
    <2>1. DOMAIN s \cap {k} = {} /\ DOMAIN t \cap {k} = {}
      BY <1>3
    <2> QED
      BY <2>1 DEF Only
  <1> QED
    BY <1>1, <1>2, <1>3

LEMMA AgreeFacts ==
    ASSUME NEW c, NEW d, NEW e, NEW D, NEW E
    PROVE /\ AgreeBut(c, c, D)
          /\ AgreeBut(c, d, D) /\ AgreeBut(d, e, E) => AgreeBut(c, e, D \cup E)
          /\ AgreeBut(c, d, Differ(c, d))
  BY DEF AgreeBut, Differ

-----------------------------------------------------------------------------
(***************************************************************************)
(* What a step of one process means to another.                            *)
(***************************************************************************)

\* The content of the name changes in the keys D, and no file that is open changes
\* what it holds.
LEMMA OtherProcess ==
    ASSUME NEW s \in Process, NEW f, NEW g, NEW c, NEW d, NEW t, NEW u, NEW w, NEW x, NEW D,
           ProcessSound(s, f, c, t, w), AgreeBut(c, d, D),
           s.fd # NoFile => /\ g[s.fd].data = f[s.fd].data /\ g[s.fd].state # "free"
                            /\ g[s.fd].state = "scrubbed" =>
                                   f[s.fd].state = "scrubbed" \/ DOMAIN f[s.fd].data \subseteq u
                            /\ u = t \cup D,
           s.purge => x = w \cup D,
           s.todo \subseteq Keys
    PROVE ProcessSound(s, g, d, u, x)
  <1>1. CallSound(s) /\ HeldSound(s, f, c, t) /\ WriteSound(s, c, t) /\ PurgeSound(s, f, c, w)
    BY DEF ProcessSound
  <1>2. HeldSound(s, g, d, u)
    <2> SUFFICES ASSUME s.fd # NoFile
                 PROVE /\ g[s.fd].state # "free"
                       /\ AgreeBut(g[s.fd].data, d, u)
                       /\ g[s.fd].state = "scrubbed" => DOMAIN g[s.fd].data \subseteq u
                       /\ s.op = "initialize" => g[s.fd].data = NoEntries
      BY DEF HeldSound
    <2>1. AgreeBut(g[s.fd].data, d, u)
      BY <1>1, AgreeFacts DEF HeldSound
    <2> QED
      BY <1>1, <2>1 DEF HeldSound
  <1>3. WriteSound(s, d, u)
    <2> SUFFICES ASSUME s.pc = "rename", ~s.blind PROVE AgreeBut(s.data, d, u \cup {s.key})
      BY DEF WriteSound
    <2>1. s.fd # NoFile /\ AgreeBut(s.data, c, t \cup {s.key})
      BY <1>1 DEF CallSound, Holding, WriteSound
    <2> QED
      BY <2>1 DEF AgreeBut
  <1>4. PurgeSound(s, g, d, x)
    <2> SUFFICES ASSUME s.purge
                 PROVE /\ s.op = "list" /\ s.pc \in {"lock", "load"} => AgreeBut(g[s.fd].data, d, x)
                       /\ \A k \in Removes(s) \cap DOMAIN d : d[k] \in Purgeable \/ k \in x
      BY DEF PurgeSound
    <2>1. ASSUME s.op = "list", s.pc \in {"lock", "load"} PROVE AgreeBut(g[s.fd].data, d, x)
      <3>1. s.fd # NoFile /\ AgreeBut(f[s.fd].data, c, w)
        BY <1>1, <2>1 DEF CallSound, Holding, PurgeSound
      <3> QED
        BY <3>1 DEF AgreeBut
    <2>2. ASSUME NEW k \in Removes(s) \cap DOMAIN d PROVE d[k] \in Purgeable \/ k \in x
      <3>1. k \in Keys
        BY <1>1 DEF Removes, CallSound
      <3>2. CASE k \in D
        BY <3>2
      <3>3. CASE k \notin D
        <4>1. Only(c, k) = Only(d, k)
          BY <3>1, <3>3 DEF AgreeBut
        <4>2. k \in DOMAIN c /\ c[k] = d[k]
          BY <4>1, OnlyEqual
        <4> QED
          BY <1>1, <4>2 DEF PurgeSound
      <3> QED
        BY <3>2, <3>3
    <2> QED
      BY <2>1, <2>2
  <1> QED
    BY <1>1, <1>2, <1>3, <1>4 DEF ProcessSound


\* A step of process p, to the state s, with the files f and the name linked to n.
LEMMA StepFacts ==
    ASSUME FileCacheInv, NEW p \in Processes, NEW f \in [Inodes -> Inode],
           NEW n \in Inodes \cup {NoFile}, NEW s \in Process, Step(p, f, n, s)
    PROVE LET D == Differ(Store, Content(f, n)) IN
          /\ proc' \in [Processes -> Process] /\ proc'[p] = s
          /\ \A q \in Processes : q # p => proc'[q] = proc[q]
          /\ inode' \in [Inodes -> Inode] /\ name' = n /\ Store' = Content(f, n)
          /\ \A i \in Inodes : inode'[i] = Free \/ inode'[i] = f[i]
          /\ n # NoFile => inode'[n] = f[n]
          /\ \A q \in Processes : proc'[q].fd # NoFile => inode'[proc'[q].fd] = f[proc'[q].fd]
          /\ touched' \in [Processes -> SUBSET Keys] /\ rewritten' \in [Processes -> SUBSET Keys]
          /\ \A q \in Processes : proc'[q].fd # NoFile => touched'[q] = touched[q] \cup D
          /\ \A q \in Processes : q # p /\ proc'[q].purge => rewritten'[q] = rewritten[q] \cup D
          /\ s.purge /\ ~(s.op = "list" /\ s.pc = "lock") => rewritten'[p] = rewritten[p] \cup D
  <1> DEFINE pr == [proc EXCEPT ![p] = s]
             D == Differ(Store, Content(f, n))
  <1>1. proc \in [Processes -> Process] /\ touched \in [Processes -> SUBSET Keys]
        /\ rewritten \in [Processes -> SUBSET Keys]
    BY DEF FileCacheInv, TypeOK
  <1>2. /\ proc' = pr /\ inode' = Remaining(f, n, pr) /\ name' = n
        /\ touched' = [q \in Processes |-> IF pr[q].fd = NoFile THEN {} ELSE touched[q] \cup D]
        /\ rewritten' = [q \in Processes |->
                           IF ~pr[q].purge \/ (q = p /\ s.op = "list" /\ s.pc = "lock") THEN {}
                           ELSE rewritten[q] \cup D]
    BY DEF Step
  <1>3. pr \in [Processes -> Process] /\ pr[p] = s /\ \A q \in Processes : q # p => pr[q] = proc[q]
    BY <1>1
  <1>4. Free \in Inode /\ D \subseteq Keys /\ NoFile \notin Inodes
    BY MapMembers, FileCacheAssumption DEF Free, Inode, Differ
  <1> HIDE DEF pr, D
  <1>5. /\ inode' \in [Inodes -> Inode]
        /\ \A i \in Inodes : inode'[i] = Free \/ inode'[i] = f[i]
        /\ n # NoFile => inode'[n] = f[n]
        /\ \A q \in Processes : pr[q].fd # NoFile => inode'[pr[q].fd] = f[pr[q].fd]
    <2>1. \A q \in Processes : pr[q].fd # NoFile => pr[q].fd \in Inodes
      BY <1>3 DEF Process
    <2> QED
      BY <1>2, <1>4, <2>1 DEF Remaining
  <1>6. Store' = Content(f, n)
    <2>1. Store' = Content(inode', n)
      BY <1>2 DEF Store, Content
    <2> QED
      BY <1>5, <2>1 DEF Content
  <1>7. touched' \in [Processes -> SUBSET Keys] /\ rewritten' \in [Processes -> SUBSET Keys]
    BY <1>1, <1>2, <1>4
  <1>8. /\ \A q \in Processes : pr[q].fd # NoFile => touched'[q] = touched[q] \cup D
        /\ \A q \in Processes : q # p /\ pr[q].purge => rewritten'[q] = rewritten[q] \cup D
        /\ s.purge /\ ~(s.op = "list" /\ s.pc = "lock") => rewritten'[p] = rewritten[p] \cup D
    BY <1>2, <1>3
  <1> QED
    BY <1>2, <1>3, <1>5, <1>6, <1>7, <1>8 DEF D

\* Such a step keeps the invariant if it changes what no open file holds, gives the
\* name only to a good file, and leaves its own process sound.
LEMMA StepKeeps ==
    ASSUME FileCacheInv, NEW p \in Processes, NEW f \in [Inodes -> Inode],
           NEW n \in Inodes \cup {NoFile}, NEW s \in Process, Step(p, f, n, s),
           \A i \in Inodes : inode[i].state # "free" => f[i].data = inode[i].data /\ f[i].state # "free",
           \A i \in Inodes : f[i].state \in {"free", "empty"} => f[i].data = NoEntries,
           n # NoFile => f[n].state \notin {"free", "scrubbed"},
           ProcessSound(s, f, Content(f, n), touched'[p], rewritten'[p]),
           \A q \in Processes : q # p /\ proc[q].fd # NoFile /\ f[proc[q].fd].state = "scrubbed" =>
               inode[proc[q].fd].state = "scrubbed" \/ DOMAIN inode[proc[q].fd].data \subseteq touched'[q],
           \A q \in Processes : proc'[q].pc = "scrub" => proc'[q].fd # n,
           \A q, r \in Processes : proc'[q].pc = "scrub" /\ proc'[r].fd = proc'[q].fd =>
               DOMAIN f[proc'[q].fd].data \subseteq touched'[r],
           \A l \in locks' : IF l \in locks /\ l.proc # p THEN TRUE
                              ELSE l.proc = p /\ l.file \in Inodes /\ s.fd = l.file /\ l.excl \in BOOLEAN
    PROVE FileCacheInv'
  <1> DEFINE D == Differ(Store, Content(f, n))
  <1>1. /\ proc' \in [Processes -> Process] /\ proc'[p] = s
        /\ \A q \in Processes : q # p => proc'[q] = proc[q]
        /\ inode' \in [Inodes -> Inode] /\ name' = n /\ Store' = Content(f, n)
        /\ \A i \in Inodes : inode'[i] = Free \/ inode'[i] = f[i]
        /\ n # NoFile => inode'[n] = f[n]
        /\ \A q \in Processes : proc'[q].fd # NoFile => inode'[proc'[q].fd] = f[proc'[q].fd]
        /\ touched' \in [Processes -> SUBSET Keys] /\ rewritten' \in [Processes -> SUBSET Keys]
        /\ \A q \in Processes : proc'[q].fd # NoFile => touched'[q] = touched[q] \cup D
        /\ \A q \in Processes : q # p /\ proc'[q].purge => rewritten'[q] = rewritten[q] \cup D
    BY StepFacts
  <1> HIDE DEF D
  <1>2. /\ proc \in [Processes -> Process] /\ LocksInv /\ FilesInv
        /\ \A l \in locks : l.file \in Inodes /\ proc[l.proc].fd = l.file /\ l.excl \in BOOLEAN
        /\ \A q \in Processes : proc[q].fd # NoFile => proc[q].fd \in Inodes
    BY DEF FileCacheInv, TypeOK, Process
  <1>3. LocksInv'
    BY <1>2 DEF LocksInv
  <1>4. TypeOK'
    <2>1. \A l \in locks' : l.file \in Inodes /\ proc'[l.proc].fd = l.file /\ l.excl \in BOOLEAN
      BY <1>1, <1>2 DEF LocksInv
    <2> QED
      BY <1>1, <2>1 DEF TypeOK
  <1>5. FilesInv'
    <2>1. \A i \in Inodes : inode'[i].state \in {"free", "empty"} => inode'[i].data = NoEntries
      BY <1>1 DEF Free
    <2>2. name' # NoFile => inode'[name'].state \notin {"free", "scrubbed"}
      BY <1>1
    <2>3. ASSUME NEW q \in Processes, NEW r \in Processes, proc'[q].pc = "scrub"
          PROVE /\ proc'[q].fd # name'
                /\ proc'[r].fd = proc'[q].fd => DOMAIN inode'[proc'[q].fd].data \subseteq touched'[r]
      <3>1. proc'[q].fd # NoFile
        <4>1. CASE q = p
          BY <1>1, <2>3, <4>1 DEF ProcessSound, CallSound, Holding
        <4>2. CASE q # p
          BY <1>1, <2>3, <4>2 DEF FileCacheInv, ProcessesInv, ProcessSound, CallSound, Holding
        <4> QED
          BY <4>1, <4>2
      <3> QED
        BY <1>1, <2>3, <3>1
    <2> QED
      BY <2>1, <2>2, <2>3 DEF FilesInv, At
  <1>6. ProcessesInv'
    <2> SUFFICES ASSUME NEW q \in Processes
                 PROVE ProcessSound(proc'[q], inode', Store', touched'[q], rewritten'[q])
      BY DEF ProcessesInv
    <2>1. CASE q = p
      <3>1. s.fd # NoFile => inode'[s.fd] = f[s.fd]
        BY <1>1
      <3>2. CallSound(s) /\ WriteSound(s, Store', touched'[p])
        BY <1>1 DEF ProcessSound
      <3>3. HeldSound(s, inode', Store', touched'[p])
        BY <1>1, <3>1 DEF ProcessSound, HeldSound
      <3>4. PurgeSound(s, inode', Store', rewritten'[p])
        BY <1>1, <3>1 DEF ProcessSound, PurgeSound, CallSound, Holding
      <3> QED
        BY <1>1, <2>1, <3>2, <3>3, <3>4 DEF ProcessSound
    <2>2. CASE q # p
      <3>1. /\ proc'[q] = proc[q] /\ proc[q] \in Process /\ proc[q].todo \subseteq Keys
            /\ ProcessSound(proc[q], inode, Store, touched[q], rewritten[q])
        BY <1>1, <1>2, <2>2 DEF FileCacheInv, ProcessesInv, Process
      <3>2. AgreeBut(Store, Store', D)
        BY <1>1, AgreeFacts DEF D
      <3>3. proc[q].fd # NoFile =>
               /\ inode'[proc[q].fd].data = inode[proc[q].fd].data /\ inode'[proc[q].fd].state # "free"
               /\ inode'[proc[q].fd].state = "scrubbed" =>
                      \/ inode[proc[q].fd].state = "scrubbed"
                      \/ DOMAIN inode[proc[q].fd].data \subseteq touched'[q]
               /\ touched'[q] = touched[q] \cup D
        <4>1. proc[q].fd # NoFile => inode[proc[q].fd].state # "free" /\ inode'[proc[q].fd] = f[proc[q].fd]
          BY <1>1, <3>1 DEF ProcessSound, HeldSound
        <4> QED
          BY <1>1, <1>2, <2>2, <3>1, <4>1
      <3>4. proc[q].purge => rewritten'[q] = rewritten[q] \cup D
        BY <1>1, <2>2, <3>1
      <3> QED
        BY <3>1, <3>2, <3>3, <3>4, OtherProcess
    <2> QED
      BY <2>1, <2>2
  <1> QED
    BY <1>3, <1>4, <1>5, <1>6 DEF FileCacheInv

\* A step that leaves the files and the name alone.
LEMMA QuietStepKeeps ==
    ASSUME FileCacheInv, NEW p \in Processes, NEW s \in Process, Step(p, inode, name, s),
           CallSound(s), s.pc # "scrub", s.fd # NoFile => s.fd = name /\ s.op # "initialize",
           s.pc # "rename",
           s.purge /\ ~(s.op = "list" /\ s.pc = "lock") =>
               /\ ~(s.op = "list" /\ s.pc = "load")
               /\ \A k \in Removes(s) \cap DOMAIN Store : Store[k] \in Purgeable \/ k \in rewritten[p],
           \A l \in locks' : l \in locks /\ l.proc # p
    PROVE FileCacheInv' /\ Store' = Store
  <1>0. /\ inode \in [Inodes -> Inode] /\ name \in Inodes \cup {NoFile} /\ FilesInv
        /\ proc \in [Processes -> Process]
    BY DEF FileCacheInv, TypeOK
  <1>1. Differ(Store, Store) = {} /\ Content(inode, name) = Store
    BY DEF Differ, Store
  <1>2. /\ Store' = Store /\ proc'[p] = s /\ \A q \in Processes : q # p => proc'[q] = proc[q]
        /\ \A q \in Processes : proc'[q].fd # NoFile => touched'[q] = touched[q]
        /\ s.purge /\ ~(s.op = "list" /\ s.pc = "lock") => rewritten'[p] = rewritten[p]
    <2> DEFINE D == Differ(Store, Content(inode, name))
    <2>1. /\ Store' = Content(inode, name) /\ proc'[p] = s
          /\ \A q \in Processes : q # p => proc'[q] = proc[q]
          /\ \A q \in Processes : proc'[q].fd # NoFile => touched'[q] = touched[q] \cup D
          /\ s.purge /\ ~(s.op = "list" /\ s.pc = "lock") => rewritten'[p] = rewritten[p] \cup D
      BY <1>0, StepFacts
    <2>2. D = {}
      BY <1>1
    <2> HIDE DEF D
    <2> QED
      BY <1>1, <2>1, <2>2
  <1>3. ProcessSound(s, inode, Store, touched'[p], rewritten'[p])
    <2>1. HeldSound(s, inode, Store, touched'[p])
      <3> SUFFICES ASSUME s.fd # NoFile
                   PROVE /\ inode[s.fd].state # "free"
                         /\ AgreeBut(inode[s.fd].data, Store, touched'[p])
                         /\ inode[s.fd].state # "scrubbed" /\ s.op # "initialize"
        BY DEF HeldSound
      <3>1. inode[s.fd].data = Store
        BY DEF Store, Content
      <3> QED
        BY <1>0, <3>1, AgreeFacts DEF FilesInv
    <2>2. WriteSound(s, Store, touched'[p])
      BY DEF WriteSound
    <2>3. PurgeSound(s, inode, Store, rewritten'[p])
      <3>1. CASE s.op = "list" /\ s.pc = "lock"
        <4>1. inode[s.fd].data = Store /\ Removes(s) = {}
          BY <3>1 DEF Store, Content, CallSound, Holding, Removes
        <4> QED
          BY <3>1, <4>1, AgreeFacts DEF PurgeSound
      <3>2. CASE ~(s.op = "list" /\ s.pc = "lock")
        BY <1>2, <3>2 DEF PurgeSound
      <3> QED
        BY <3>1, <3>2
    <2> QED
      BY <2>1, <2>2, <2>3 DEF ProcessSound
  <1>4. \A i \in Inodes : inode[i].state \in {"free", "empty"} => inode[i].data = NoEntries
    BY <1>0 DEF FilesInv
  <1>5. name # NoFile => inode[name].state \notin {"free", "scrubbed"}
    BY <1>0 DEF FilesInv
  <1>6. \A q \in Processes : proc'[q].pc = "scrub" => q # p /\ proc[q].pc = "scrub" /\ proc'[q] = proc[q]
    BY <1>2
  <1>7. \A q \in Processes : proc'[q].pc = "scrub" => proc'[q].fd # name /\ proc'[q].fd # NoFile
    BY <1>0, <1>6 DEF FilesInv, At, FileCacheInv, ProcessesInv, ProcessSound, CallSound, Holding
  <1>8. \A q, r \in Processes : proc'[q].pc = "scrub" /\ proc'[r].fd = proc'[q].fd =>
            DOMAIN inode[proc'[q].fd].data \subseteq touched'[r]
    <2> SUFFICES ASSUME NEW q \in Processes, NEW r \in Processes,
                        proc'[q].pc = "scrub", proc'[r].fd = proc'[q].fd
                 PROVE DOMAIN inode[proc'[q].fd].data \subseteq touched'[r]
      OBVIOUS
    <2>1. r # p
      BY <1>2, <1>7
    <2> QED
      BY <1>0, <1>2, <1>6, <1>7, <2>1 DEF FilesInv, At
  <1> QED
    BY <1>0, <1>1, <1>2, <1>3, <1>4, <1>5, <1>7, <1>8, StepKeeps

\* A step of a process that keeps its file or closes it, and does not begin a listing.
LEMMA OwnProcess ==
    ASSUME FileCacheInv, NEW p \in Processes, NEW f \in [Inodes -> Inode],
           NEW n \in Inodes \cup {NoFile}, NEW s \in Process, Step(p, f, n, s),
           ProcessSound(s, inode, Store, touched[p], rewritten[p]), ~(s.op = "list" /\ s.pc = "lock"),
           \A i \in Inodes : inode[i].state # "free" => f[i].data = inode[i].data /\ f[i].state # "free",
           s.fd # NoFile /\ f[s.fd].state = "scrubbed" =>
               inode[s.fd].state = "scrubbed" \/ DOMAIN inode[s.fd].data \subseteq touched'[p]
    PROVE ProcessSound(s, f, Content(f, n), touched'[p], rewritten'[p])
  <1> DEFINE D == Differ(Store, Content(f, n))
  <1>1. /\ proc'[p] = s
        /\ proc'[p].fd # NoFile => touched'[p] = touched[p] \cup D
        /\ s.purge => rewritten'[p] = rewritten[p] \cup D
    <2>1. /\ proc'[p] = s
          /\ \A q \in Processes : proc'[q].fd # NoFile => touched'[q] = touched[q] \cup D
          /\ s.purge /\ ~(s.op = "list" /\ s.pc = "lock") => rewritten'[p] = rewritten[p] \cup D
      BY StepFacts
    <2> QED
      BY <2>1
  <1>2. AgreeBut(Store, Content(f, n), D)
    BY AgreeFacts
  <1>3. s.fd # NoFile => s.fd \in Inodes /\ inode[s.fd].state # "free"
    BY DEF ProcessSound, HeldSound, Process
  <1>4. s.todo \subseteq Keys
    BY DEF Process
  <1> HIDE DEF D
  <1> QED
    BY <1>1, <1>2, <1>3, <1>4, OtherProcess

\* A step that changes nothing but the state of a process and the locks.
LEMMA ProcessStepKeeps ==
    ASSUME FileCacheInv, NEW p \in Processes, NEW s \in Process,
           proc' \in [Processes -> Process], proc'[p] = s,
           \A q \in Processes : q # p => proc'[q] = proc[q],
           UNCHANGED <<inode, name, touched, rewritten>>, s.fd = proc[p].fd, s.pc # "scrub",
           ProcessSound(s, inode, Store, touched[p], rewritten[p]),
           \A l \in locks' : \/ l \in locks
                             \/ l.proc = p /\ l.file \in Inodes /\ s.fd = l.file /\ l.excl \in BOOLEAN
    PROVE FileCacheInv' /\ Store' = Store
  <1>1. /\ proc \in [Processes -> Process] /\ LocksInv /\ FilesInv /\ ProcessesInv
        /\ \A l \in locks : l.file \in Inodes /\ proc[l.proc].fd = l.file /\ l.excl \in BOOLEAN
    BY DEF FileCacheInv, TypeOK
  <1>2. /\ proc' \in [Processes -> Process] /\ proc'[p] = s
        /\ \A q \in Processes : q # p => proc'[q] = proc[q]
    OBVIOUS
  <1>3. Store' = Store
    BY DEF Store, Content
  <1>4. LocksInv' /\ \A l \in locks' : l.file \in Inodes /\ proc'[l.proc].fd = l.file /\ l.excl \in BOOLEAN
    BY <1>1, <1>2 DEF LocksInv
  <1>5. TypeOK'
    BY <1>2, <1>4 DEF FileCacheInv, TypeOK
  <1>6. FilesInv'
    BY <1>1, <1>2 DEF FilesInv, At
  <1>7. ProcessesInv'
    BY <1>1, <1>2, <1>3 DEF ProcessesInv
  <1> QED
    BY <1>3, <1>4, <1>5, <1>6, <1>7 DEF FileCacheInv

-----------------------------------------------------------------------------
(***************************************************************************)
(* The states a process can be in.                                         *)
(***************************************************************************)

\* What is known of a process.
LEMMA ProcessFacts ==
    ASSUME FileCacheInv, NEW p \in Processes
    PROVE /\ proc[p] \in Process /\ CallSound(proc[p])
          /\ ProcessSound(proc[p], inode, Store, touched[p], rewritten[p])
          /\ inode \in [Inodes -> Inode] /\ name \in Inodes \cup {NoFile} /\ NoFile \notin Inodes
          /\ proc[p].fd # NoFile => proc[p].fd \in Inodes /\ inode[proc[p].fd].state # "free"
                                    /\ File(p) \in Inode
          /\ proc[p].todo \subseteq Keys
  BY FileCacheAssumption
  DEF FileCacheInv, TypeOK, Process, ProcessesInv, ProcessSound, HeldSound, File

\* The locks that are left when a process gives its up, and those of a process
\* without a file.
LEMMA UnlockedFacts ==
    ASSUME FileCacheInv, NEW p \in Processes
    PROVE /\ \A l \in Unlocked(p) : l \in locks /\ l.proc # p
          /\ proc[p].fd = NoFile => \A l \in locks : l.proc # p
  BY FileCacheAssumption DEF Unlocked, FileCacheInv, TypeOK

LEMMA DoneSound ==
    ASSUME FileCacheInv, NEW p \in Processes, NEW status \in {"ok", "error"}, NEW entries \in Map,
           proc[p].pc \notin {"idle", "purging"}
    PROVE LET s == Done(p, Reply(status, entries)) IN
          /\ s \in Process /\ s.fd = NoFile /\ s.pc = "done" /\ s.op = proc[p].op
          /\ s.key = proc[p].key /\ s.val = proc[p].val /\ s.purge = proc[p].purge
          /\ s.todo = proc[p].todo /\ s.reply = Reply(status, entries)
          /\ CallSound(s) /\ ProcessSound(s, inode, Store, touched[p], rewritten[p])
  <1> DEFINE s == Done(p, Reply(status, entries))
  <1>1. /\ s \in Process /\ s.fd = NoFile /\ s.pc = "done" /\ s.op = proc[p].op
        /\ s.key = proc[p].key /\ s.val = proc[p].val /\ s.purge = proc[p].purge
        /\ s.todo = proc[p].todo /\ s.reply = Reply(status, entries)
    BY ProcessFacts, MapMembers, ZenonT(60) DEF Done, Process, PC, Reply
  <1> HIDE DEF s
  <1>2. CallSound(s)
    BY <1>1, ProcessFacts DEF CallSound, Holding
  <1>3. HeldSound(s, inode, Store, touched[p]) /\ WriteSound(s, Store, touched[p])
    BY <1>1 DEF HeldSound, WriteSound
  <1>4. PurgeSound(s, inode, Store, rewritten[p])
    BY <1>1, ProcessFacts DEF ProcessSound, PurgeSound, Removes
  <1> QED
    BY <1>1, <1>2, <1>3, <1>4 DEF ProcessSound, s

LEMMA ReplyFacts ==
    /\ OK = Reply("ok", NoEntries) /\ Error = Reply("error", NoEntries) /\ NoEntries \in Map
  BY MapMembers DEF OK, Error

\* A call is over, and has changed nothing.
LEMMA DoneStepKeeps ==
    ASSUME FileCacheInv, NEW p \in Processes, NEW status \in {"ok", "error"}, NEW entries \in Map,
           proc[p].pc \notin {"idle", "purging"},
           Step(p, inode, name, Done(p, Reply(status, entries))),
           \A l \in locks' : l \in locks /\ l.proc # p
    PROVE FileCacheInv' /\ Store' = Store
  <1> DEFINE s == Done(p, Reply(status, entries))
  <1>1. /\ s \in Process /\ s.fd = NoFile /\ s.pc = "done" /\ s.op = proc[p].op
        /\ s.purge = proc[p].purge /\ CallSound(s)
        /\ ProcessSound(s, inode, Store, touched[p], rewritten[p])
    BY DoneSound
  <1>2. s.purge => \A k \in Removes(s) \cap DOMAIN Store : Store[k] \in Purgeable \/ k \in rewritten[p]
    BY <1>1 DEF ProcessSound, PurgeSound
  <1> HIDE DEF s
  <1>3. Step(p, inode, name, s)
    BY DEF s
  <1> QED
    BY <1>1, <1>2, <1>3, QuietStepKeeps

-----------------------------------------------------------------------------
(***************************************************************************)
(* The steps.                                                              *)
(***************************************************************************)

\* The states of a process; B stands for the Boolean values.
ProcessWith(B) ==
    [pc : PC, op : OpName \cup {"list", "none"}, key : Keys \cup {"none"},
     val : Vals \cup {"none"}, fd : Inodes \cup {NoFile}, sb : Inodes \cup {NoFile},
     data : Map, blind : B, purge : B, todo : SUBSET Keys,
     reply : [status : {"none", "pending", "ok", "error"}, entries : Map]]

LEMMA StartKeeps ==
    ASSUME FileCacheInv, NEW p \in Processes, At(p, "idle"),
           NEW op \in {"get", "set", "remove", "list", "initialize", "destroy"},
           NEW k \in Keys \cup {"none"}, NEW v \in Vals \cup {"none"}, NEW purge \in BOOLEAN,
           Start(p, op, k, v, purge), op \in {"get", "set", "remove"} => k \in Keys,
           op = "set" => v \in Vals, purge <=> op = "list"
    PROVE FileCacheInv' /\ Store' = Store
  <1>0. PICK pc \in PC : pc = IF op = "destroy" THEN "lstat" ELSE "open"
    BY DEF PC
  <1> DEFINE s == [proc[p] EXCEPT !.pc = pc, !.op = op, !.key = k, !.val = v, !.purge = purge,
                                  !.reply = Reply("pending", NoEntries)]
  <1>1. proc[p] \in Process /\ CallSound(proc[p]) /\ proc[p].pc = "idle" /\ proc \in [Processes -> Process]
    BY ProcessFacts DEF At, FileCacheInv, TypeOK
  <1>2. proc' = [proc EXCEPT ![p] = s] /\ UNCHANGED <<inode, name, locks, touched, rewritten>>
    BY <1>0, <1>1 DEF Start
  <1>3. /\ s \in Process /\ s.pc = pc
        /\ s.op = op /\ s.key = k /\ s.val = v /\ s.purge = purge /\ s.fd = proc[p].fd
        /\ s.todo = proc[p].todo
    <2>1. op \in OpName \cup {"list", "none"}
      BY DEF OpName
    <2>2. Reply("pending", NoEntries) \in [status : {"none", "pending", "ok", "error"}, entries : Map]
      BY MapMembers DEF Reply
    <2>3. Process = ProcessWith(BOOLEAN)
      BY DEF Process, ProcessWith
    <2>4. PICK B : B = BOOLEAN
      OBVIOUS
    <2>5. PICK b \in B : b = purge
      BY <2>4, Zenon
    <2>6. PICK r \in [status : {"none", "pending", "ok", "error"}, entries : Map] :
              r = Reply("pending", NoEntries)
      BY <2>2
    <2>7. proc[p] \in ProcessWith(B)
      BY <1>1, <2>3, <2>4, Zenon
    <2>8. LET x == [proc[p] EXCEPT !.pc = pc, !.op = op, !.key = k, !.val = v, !.purge = b, !.reply = r]
          IN /\ x \in ProcessWith(B) /\ x.pc = pc /\ x.op = op /\ x.key = k /\ x.val = v
             /\ x.purge = b /\ x.fd = proc[p].fd /\ x.todo = proc[p].todo
      BY <2>1, <2>7, ZenonT(60) DEF ProcessWith
    <2> QED
      BY <2>3, <2>4, <2>5, <2>6, <2>8, Zenon
  <1> HIDE DEF s
  <1>4. s.fd = NoFile /\ s.todo = {} /\ CallSound(s)
    BY <1>0, <1>1, <1>3 DEF CallSound, Holding
  <1>5. ProcessSound(s, inode, Store, touched[p], rewritten[p])
    BY <1>0, <1>3, <1>4 DEF ProcessSound, HeldSound, WriteSound, PurgeSound, Removes
  <1>6. /\ proc' \in [Processes -> Process] /\ proc'[p] = s
        /\ \A q \in Processes : q # p => proc'[q] = proc[q]
    BY <1>1, <1>2, <1>3
  <1>7. UNCHANGED <<inode, name, touched, rewritten>> /\ \A l \in locks' : l \in locks
    BY <1>2
  <1>8. s.pc # "scrub"
    BY <1>0, <1>3
  <1> QED
    BY <1>3, <1>5, <1>6, <1>7, <1>8, ProcessStepKeeps

LEMMA BeginKeeps ==
    ASSUME FileCacheInv, NEW p \in Processes, Begin(p)
    PROVE FileCacheInv' /\ Store' = Store
  <1>1. At(p, "idle")
    BY DEF Begin
  <1>2. ASSUME NEW op \in {"get", "remove"}, NEW k \in Keys, Start(p, op, k, "none", FALSE)
        PROVE FileCacheInv' /\ Store' = Store
    BY <1>1, <1>2, StartKeeps
  <1>3. ASSUME NEW k \in Keys, NEW v \in Vals, Start(p, "set", k, v, FALSE)
        PROVE FileCacheInv' /\ Store' = Store
    BY <1>1, <1>3, StartKeeps
  <1>4. CASE Start(p, "list", "none", "none", TRUE)
    BY <1>1, <1>4, StartKeeps
  <1>5. ASSUME NEW op \in {"initialize", "destroy"}, Start(p, op, "none", "none", FALSE)
        PROVE FileCacheInv' /\ Store' = Store
    BY <1>1, <1>5, StartKeeps
  <1> QED
    BY <1>2, <1>3, <1>4, <1>5 DEF Begin

LEMMA PurgeNextKeeps ==
    ASSUME FileCacheInv, NEW p \in Processes, PurgeNext(p)
    PROVE FileCacheInv' /\ Store' = Store
  <1>1. PICK k \in proc[p].todo :
            /\ proc' = [proc EXCEPT ![p].pc = "open", ![p].op = "remove", ![p].key = k,
                                    ![p].todo = @ \ {k}, ![p].reply = Reply("pending", NoEntries)]
            /\ UNCHANGED <<inode, name, locks, touched, rewritten>>
    BY DEF PurgeNext
  <1> DEFINE s == [proc[p] EXCEPT !.pc = "open", !.op = "remove", !.key = k,
                                  !.todo = @ \ {k}, !.reply = Reply("pending", NoEntries)]
  <1>2. /\ proc[p] \in Process /\ CallSound(proc[p]) /\ proc[p].pc = "purging"
        /\ proc \in [Processes -> Process] /\ k \in Keys
    BY <1>1, ProcessFacts DEF PurgeNext, At, FileCacheInv, TypeOK
  <1>3. proc' = [proc EXCEPT ![p] = s]
    BY <1>1, <1>2
  <1>4. /\ s \in Process /\ s.pc = "open" /\ s.op = "remove" /\ s.key = k /\ s.fd = proc[p].fd
        /\ s.todo = proc[p].todo \ {k} /\ s.purge = proc[p].purge
    BY <1>2, MapMembers DEF Process, PC, OpName, Reply
  <1> HIDE DEF s
  <1>5. CallSound(s) /\ s.fd = NoFile
    BY <1>2, <1>4 DEF CallSound, Holding
  <1>6. PurgeSound(s, inode, Store, rewritten[p])
    BY <1>1, <1>2, <1>4, ProcessFacts DEF ProcessSound, PurgeSound, Removes
  <1>7. ProcessSound(s, inode, Store, touched[p], rewritten[p])
    BY <1>4, <1>5, <1>6 DEF ProcessSound, HeldSound, WriteSound
  <1>8. /\ proc' \in [Processes -> Process] /\ proc'[p] = s
        /\ \A q \in Processes : q # p => proc'[q] = proc[q]
    BY <1>2, <1>3, <1>4
  <1>9. UNCHANGED <<inode, name, touched, rewritten>> /\ \A l \in locks' : l \in locks
    BY <1>1
  <1> QED
    BY <1>4, <1>7, <1>8, <1>9, ProcessStepKeeps

LEMMA IdleFacts ==
    /\ Idle \in Process /\ CallSound(Idle) /\ Idle.fd = NoFile /\ Idle.pc = "idle" /\ ~Idle.purge
    /\ \A todo \in SUBSET Keys :
         LET s == [Idle EXCEPT !.pc = "purging", !.purge = TRUE, !.todo = todo] IN
         /\ s \in Process /\ CallSound(s) /\ s.fd = NoFile /\ s.pc = "purging"
         /\ s.op = "none" /\ s.todo = todo /\ s.purge
  BY MapMembers, ZenonT(60) DEF Idle, Process, PC, OpName, Reply, CallSound, Holding

LEMMA ReturnKeeps ==
    ASSUME FileCacheInv, NEW p \in Processes, Return(p)
    PROVE FileCacheInv' /\ Store' = Store
  <1> DEFINE left == proc[p].todo
             s == IF left = {} THEN Idle ELSE [Idle EXCEPT !.pc = "purging", !.purge = TRUE, !.todo = left]
  <1>1. proc[p].pc = "done" /\ Step(p, inode, name, s) /\ UNCHANGED locks
    BY DEF Return, At
  <1>2. /\ s \in Process /\ CallSound(s) /\ s.fd = NoFile /\ s.pc \in {"idle", "purging"}
        /\ s.purge => s.op = "none" /\ s.todo = proc[p].todo /\ proc[p].todo # {}
    <2>1. left \in SUBSET Keys
      BY ProcessFacts
    <2> QED
      BY <2>1, IdleFacts
  <1>3. proc[p].todo # {} => proc[p].purge
    BY <1>1, ProcessFacts DEF CallSound
  <1> HIDE DEF s
  <1>4. s.purge => \A k \in Removes(s) \cap DOMAIN Store : Store[k] \in Purgeable \/ k \in rewritten[p]
    BY <1>2, <1>3, ProcessFacts DEF ProcessSound, PurgeSound, Removes
  <1>5. \A l \in locks' : l \in locks /\ l.proc # p
    BY <1>1, ProcessFacts, UnlockedFacts DEF CallSound, Holding
  <1> QED
    BY <1>1, <1>2, <1>4, <1>5, QuietStepKeeps

LEMMA LstatKeeps ==
    ASSUME FileCacheInv, NEW p \in Processes, Lstat(p)
    PROVE FileCacheInv' /\ Store' = Store
  <1>1. proc[p].pc = "lstat" /\ UNCHANGED locks
    BY DEF Lstat, At
  <1>2. proc[p] \in Process /\ CallSound(proc[p]) /\ proc[p].fd = NoFile
    BY <1>1, ProcessFacts DEF CallSound, Holding
  <1>3. \A l \in locks' : l \in locks /\ l.proc # p
    BY <1>1, <1>2, UnlockedFacts
  <1>4. CASE name = NoFile
    <2>1. Step(p, inode, name, Done(p, Reply("error", NoEntries)))
      BY <1>4, ReplyFacts DEF Lstat
    <2> QED
      BY <1>1, <1>3, <2>1, ReplyFacts, DoneStepKeeps
  <1>5. CASE name # NoFile
    <2> DEFINE s == [proc[p] EXCEPT !.pc = "open", !.sb = name]
    <2>1. Step(p, inode, name, s)
      BY <1>5 DEF Lstat
    <2>2. /\ s \in Process /\ s.pc = "open" /\ s.fd = NoFile /\ s.op = proc[p].op /\ s.key = proc[p].key
          /\ s.val = proc[p].val /\ s.purge = proc[p].purge /\ s.todo = proc[p].todo
      BY <1>2, ProcessFacts, ZenonT(60) DEF Process, PC
    <2> HIDE DEF s
    <2>3. CallSound(s)
      BY <1>1, <1>2, <2>2 DEF CallSound, Holding
    <2>4. s.purge => \A k \in Removes(s) \cap DOMAIN Store : Store[k] \in Purgeable \/ k \in rewritten[p]
      BY <2>2, ProcessFacts DEF ProcessSound, PurgeSound, Removes
    <2> QED
      BY <1>3, <2>1, <2>2, <2>3, <2>4, QuietStepKeeps
  <1> QED
    BY <1>4, <1>5

\* A process opens a file.
LEMMA OpenedFacts ==
    ASSUME FileCacheInv, NEW p \in Processes, NEW i \in Inodes, At(p, "open")
    PROVE LET s == Opened(p, i) IN
          /\ s \in Process /\ s.pc = "lock" /\ s.fd = i /\ s.op = proc[p].op /\ s.key = proc[p].key
          /\ s.val = proc[p].val /\ s.purge = proc[p].purge /\ s.todo = proc[p].todo
          /\ CallSound(s)
  <1> DEFINE s == Opened(p, i)
  <1>1. /\ s \in Process /\ s.pc = "lock" /\ s.fd = i /\ s.op = proc[p].op /\ s.key = proc[p].key
        /\ s.val = proc[p].val /\ s.purge = proc[p].purge /\ s.todo = proc[p].todo
    <2>1. proc[p] \in Process
      BY ProcessFacts
    <2> QED
      BY <2>1 DEF Opened, Process, PC
  <1>2. proc[p].pc = "open" /\ CallSound(proc[p]) /\ i # NoFile
    BY ProcessFacts DEF At
  <1> HIDE DEF s
  <1>3. CallSound(s)
    BY <1>1, <1>2 DEF CallSound, Holding
  <1> QED
    BY <1>1, <1>3 DEF s

LEMMA OpenKeeps ==
    ASSUME FileCacheInv, NEW p \in Processes, Open(p)
    PROVE FileCacheInv' /\ Store' = Store
  <1>1. At(p, "open") /\ proc[p].pc = "open" /\ UNCHANGED locks
    BY DEF Open, Opener, At
  <1>2. proc[p].fd = NoFile /\ name \in Inodes \cup {NoFile} /\ inode \in [Inodes -> Inode]
        /\ proc \in [Processes -> Process] /\ NoFile \notin Inodes /\ FilesInv
    BY <1>1, ProcessFacts DEF CallSound, Holding, FileCacheInv, TypeOK
  <1>3. \A l \in locks' : l \in locks /\ l.proc # p
    BY <1>1, <1>2, UnlockedFacts
  <1>4. CASE /\ Opener(p, {"get", "list", "set", "remove", "destroy"})
             /\ name # NoFile /\ Step(p, inode, name, Opened(p, name))
    <2> DEFINE s == Opened(p, name)
    <2>1. /\ s \in Process /\ s.pc = "lock" /\ s.fd = name /\ s.op = proc[p].op /\ s.key = proc[p].key
          /\ s.val = proc[p].val /\ s.purge = proc[p].purge /\ s.todo = proc[p].todo
          /\ CallSound(s)
      BY <1>1, <1>2, <1>4, OpenedFacts
    <2>2. s.op # "initialize" /\ Step(p, inode, name, s)
      BY <1>4, <2>1 DEF Opener
    <2> HIDE DEF s
    <2>3. s.purge => \A k \in Removes(s) \cap DOMAIN Store : Store[k] \in Purgeable \/ k \in rewritten[p]
      BY <2>1, ProcessFacts DEF ProcessSound, PurgeSound, Removes
    <2> QED
      BY <1>3, <2>1, <2>2, <2>3, QuietStepKeeps
  <1>5. ASSUME Opener(p, {"set", "remove", "initialize"}), name = NoFile, NEW i \in Inodes,
               inode[i] = Free, Step(p, [inode EXCEPT ![i] = Created], i, Opened(p, i))
        PROVE FileCacheInv' /\ Store' = Store
    <2> DEFINE s == Opened(p, i)
               f == [inode EXCEPT ![i] = Created]
    <2>1. /\ s \in Process /\ s.pc = "lock" /\ s.fd = i /\ s.op = proc[p].op /\ s.key = proc[p].key
          /\ s.val = proc[p].val /\ s.purge = proc[p].purge /\ s.todo = proc[p].todo
          /\ CallSound(s) /\ s.op \in {"set", "remove", "initialize"}
      BY <1>1, <1>5, OpenedFacts DEF Opener
    <2>2. /\ f \in [Inodes -> Inode] /\ f[i].state = "empty" /\ f[i].data = NoEntries
          /\ inode[i].state = "free" /\ \A j \in Inodes : j # i => f[j] = inode[j]
      <3>1. Created \in Inode /\ Created.state = "empty" /\ Created.data = NoEntries
        BY MapMembers DEF Created, Inode
      <3> QED
        BY <1>2, <1>5, <3>1 DEF Free
    <2>3. Step(p, f, i, s)
      BY <1>5
    <2> HIDE DEF s, f
    <2>4. Store = NoEntries /\ Content(f, i) = NoEntries /\ i # NoFile /\ Differ(NoEntries, NoEntries) = {}
      BY <1>2, <1>5, <2>2 DEF Store, Content, Differ
    <2>5. /\ proc'[p] = s /\ \A q \in Processes : q # p => proc'[q] = proc[q]
          /\ Store' = Content(f, i)
          /\ \A q \in Processes : proc'[q].fd # NoFile => touched'[q] = touched[q]
          /\ s.purge => rewritten'[p] = rewritten[p]
      <3> DEFINE D == Differ(Store, Content(f, i))
      <3>1. /\ proc'[p] = s /\ \A q \in Processes : q # p => proc'[q] = proc[q]
            /\ Store' = Content(f, i)
            /\ \A q \in Processes : proc'[q].fd # NoFile => touched'[q] = touched[q] \cup D
            /\ s.purge /\ ~(s.op = "list" /\ s.pc = "lock") => rewritten'[p] = rewritten[p] \cup D
        BY <2>1, <2>2, <2>3, StepFacts
      <3>2. D = {}
        BY <2>4
      <3> HIDE DEF D
      <3> QED
        BY <2>1, <3>1, <3>2
    <2>6. ProcessSound(s, f, Content(f, i), touched'[p], rewritten'[p])
      <3>1. HeldSound(s, f, Content(f, i), touched'[p])
        BY <2>1, <2>2, <2>4, AgreeFacts DEF HeldSound
      <3>2. WriteSound(s, Content(f, i), touched'[p])
        BY <2>1 DEF WriteSound
      <3>3. PurgeSound(s, f, Content(f, i), rewritten'[p])
        BY <2>1, <2>4, MapMembers DEF PurgeSound
      <3> QED
        BY <2>1, <3>1, <3>2, <3>3 DEF ProcessSound
    <2>7. \A q \in Processes : q # p /\ proc[q].fd # NoFile =>
             proc[q].fd \in Inodes /\ proc[q].fd # i /\ f[proc[q].fd] = inode[proc[q].fd]
      BY <2>2, ProcessFacts
    <2>8. \A q \in Processes : proc'[q].pc = "scrub" =>
             q # p /\ proc[q].pc = "scrub" /\ proc'[q] = proc[q] /\ proc[q].fd # NoFile
      BY <2>1, <2>5, ProcessFacts DEF CallSound, Holding
    <2>9. \A q, r \in Processes : proc'[q].pc = "scrub" /\ proc'[r].fd = proc'[q].fd =>
             DOMAIN f[proc'[q].fd].data \subseteq touched'[r]
      <3> SUFFICES ASSUME NEW q \in Processes, NEW r \in Processes,
                          proc'[q].pc = "scrub", proc'[r].fd = proc'[q].fd
                   PROVE DOMAIN f[proc'[q].fd].data \subseteq touched'[r]
        OBVIOUS
      <3>1. r # p
        BY <2>1, <2>5, <2>7, <2>8
      <3> QED
        BY <1>2, <2>5, <2>7, <2>8, <3>1 DEF FilesInv, At
    <2>10. \A j \in Inodes : inode[j].state # "free" => f[j].data = inode[j].data /\ f[j].state # "free"
      BY <2>2
    <2>11. \A j \in Inodes : f[j].state \in {"free", "empty"} => f[j].data = NoEntries
      BY <1>2, <2>2 DEF FilesInv
    <2>12. f[i].state \notin {"free", "scrubbed"}
      BY <2>2
    <2>13. \A q \in Processes : q # p /\ proc[q].fd # NoFile /\ f[proc[q].fd].state = "scrubbed" =>
             inode[proc[q].fd].state = "scrubbed"
      BY <2>7
    <2>14. \A q \in Processes : proc'[q].pc = "scrub" => proc'[q].fd # i
      BY <2>7, <2>8
    <2>15. FileCacheInv'
      BY <1>3, <2>1, <2>2, <2>3, <2>6, <2>9, <2>10, <2>11, <2>12, <2>13, <2>14, StepKeeps
    <2> QED
      BY <2>4, <2>5, <2>15
  <1>6. ASSUME NEW reply \in {"ok", "error"}, Step(p, inode, name, Done(p, Reply(reply, NoEntries)))
        PROVE FileCacheInv' /\ Store' = Store
    BY <1>1, <1>3, <1>6, ReplyFacts, DoneStepKeeps
  <1> QED
    BY <1>4, <1>5, <1>6, ReplyFacts DEF Open

LEMMA LockKeeps ==
    ASSUME FileCacheInv, NEW p \in Processes, Lock(p)
    PROVE FileCacheInv' /\ Store' = Store
  <1>1. PICK pc \in {"store", "unlink", "load"} :
            /\ proc' = [proc EXCEPT ![p].pc = pc]
            /\ pc = "store" <=> proc[p].op = "initialize"
            /\ pc = "unlink" <=> proc[p].op = "destroy"
    BY DEF Lock
  <1> DEFINE s == [proc[p] EXCEPT !.pc = pc]
  <1>2. /\ proc[p] \in Process /\ proc[p].pc = "lock" /\ proc \in [Processes -> Process]
        /\ proc[p].fd # NoFile /\ proc[p].fd \in Inodes
        /\ CallSound(proc[p]) /\ ProcessSound(proc[p], inode, Store, touched[p], rewritten[p])
    BY ProcessFacts DEF Lock, At, FileCacheInv, TypeOK, CallSound, Holding
  <1>3. /\ s \in Process /\ s.pc = pc /\ s.fd = proc[p].fd /\ s.op = proc[p].op /\ s.key = proc[p].key
        /\ s.val = proc[p].val /\ s.purge = proc[p].purge /\ s.todo = proc[p].todo
    BY <1>2 DEF Process, PC
  <1>4. /\ proc' \in [Processes -> Process] /\ proc'[p] = s
        /\ \A q \in Processes : q # p => proc'[q] = proc[q]
    BY <1>1, <1>2, <1>3
  <1> HIDE DEF s
  <1>5. CallSound(s)
    BY <1>1, <1>2, <1>3 DEF CallSound, Holding
  <1>6. ProcessSound(s, inode, Store, touched[p], rewritten[p])
    <2>1. HeldSound(s, inode, Store, touched[p]) /\ WriteSound(s, Store, touched[p])
      BY <1>2, <1>3 DEF ProcessSound, HeldSound, WriteSound
    <2>2. PurgeSound(s, inode, Store, rewritten[p])
      BY <1>2, <1>3 DEF ProcessSound, PurgeSound, Removes
    <2> QED
      BY <1>5, <2>1, <2>2 DEF ProcessSound
  <1>7. \A l \in locks' : \/ l \in locks
                          \/ l.proc = p /\ l.file \in Inodes /\ s.fd = l.file /\ l.excl \in BOOLEAN
    <2>1. PICK excl \in BOOLEAN : locks' = locks \cup {[proc |-> p, file |-> proc[p].fd, excl |-> excl]}
      BY DEF Lock
    <2> QED
      BY <1>2, <1>3, <2>1
  <1>8. UNCHANGED <<inode, name, touched, rewritten>> /\ s.pc # "scrub"
    BY <1>3 DEF Lock
  <1> QED
    BY <1>3, <1>4, <1>6, <1>7, <1>8, ProcessStepKeeps

-----------------------------------------------------------------------------
LEMMA GetObjectKeeps ==
    ASSUME FileCacheInv, NEW p \in Processes, GetObject(p)
    PROVE FileCacheInv' /\ Store' = Store
  <1>1. /\ proc[p].pc = "load" /\ proc[p].op = "get" /\ locks' = Unlocked(p)
        /\ Step(p, inode, name, Done(p, IF File(p).state = "whole"
                                       THEN Reply("ok", Only(File(p).data, proc[p].key)) ELSE Error))
    BY DEF GetObject, ReadBy, At
  <1>2. \A l \in locks' : l \in locks /\ l.proc # p
    BY <1>1, UnlockedFacts
  <1>3. proc[p].key \in Keys /\ File(p).data \in Map
    BY <1>1, ProcessFacts DEF CallSound, Holding, Inode
  <1>4. PICK status \in {"ok", "error"}, entries \in Map :
            Step(p, inode, name, Done(p, Reply(status, entries)))
    BY <1>1, <1>3, MapChanges, ReplyFacts
  <1> QED
    BY <1>1, <1>2, <1>4, DoneStepKeeps

LEMMA ReadFailsKeeps ==
    ASSUME FileCacheInv, NEW p \in Processes, ReadFails(p)
    PROVE FileCacheInv' /\ Store' = Store
  <1>1. proc[p].pc = "load" /\ locks' = Unlocked(p) /\ Step(p, inode, name, Done(p, Reply("error", NoEntries)))
    BY ReplyFacts DEF ReadFails, ReadBy, At
  <1> QED
    BY <1>1, UnlockedFacts, ReplyFacts, DoneStepKeeps

\* The listing of a purge: the entries it takes are purgeable, as the file has them.
LEMMA FirstObjectKeeps ==
    ASSUME FileCacheInv, NEW p \in Processes, FirstObject(p)
    PROVE FileCacheInv' /\ Store' = Store
  <1> DEFINE d == File(p).data
             purgeable == {k \in DOMAIN d : ShouldPurge(d[k])}
  <1>1. /\ proc[p].pc = "load" /\ proc[p].op = "list" /\ locks' = Unlocked(p)
        /\ Step(p, inode, name, IF File(p).state # "whole" THEN Done(p, Error)
                               ELSE [Done(p, Reply("ok", d)) EXCEPT !.todo = purgeable])
    BY DEF FirstObject, ReadBy, At
  <1>2. \A l \in locks' : l \in locks /\ l.proc # p
    BY <1>1, UnlockedFacts
  <1>3. d \in Map /\ proc[p].fd # NoFile
    BY <1>1, ProcessFacts DEF CallSound, Holding, Inode
  <1>4. CASE File(p).state # "whole"
    <2>1. Step(p, inode, name, Done(p, Reply("error", NoEntries)))
      BY <1>1, <1>4, ReplyFacts
    <2> QED
      BY <1>1, <1>2, <2>1, ReplyFacts, DoneStepKeeps
  <1>5. CASE File(p).state = "whole"
    <2> DEFINE r == Done(p, Reply("ok", d))
               s == [r EXCEPT !.todo = purgeable]
    <2>1. /\ r \in Process /\ r.fd = NoFile /\ r.pc = "done" /\ r.op = proc[p].op
          /\ r.key = proc[p].key /\ r.val = proc[p].val /\ r.purge = proc[p].purge
      BY <1>1, <1>3, DoneSound
    <2>2. purgeable \subseteq Keys
      BY <1>3, MapMembers
    <2>3. Step(p, inode, name, s)
      BY <1>1, <1>5
    <2> HIDE DEF r, purgeable
    <2>4. /\ s \in Process /\ s.fd = NoFile /\ s.pc = "done" /\ s.op = "list"
          /\ s.purge = proc[p].purge /\ s.todo = purgeable
      BY <1>1, <2>1, <2>2 DEF Process
    <2>5. proc[p].purge
      BY <1>1, ProcessFacts DEF CallSound
    <2> HIDE DEF s
    <2>6. CallSound(s)
      BY <2>4, <2>5 DEF CallSound, Holding
    <2>7. \A k \in Removes(s) \cap DOMAIN Store : Store[k] \in Purgeable \/ k \in rewritten[p]
      <3> SUFFICES ASSUME NEW k \in purgeable, k \in DOMAIN Store, k \notin rewritten[p]
                   PROVE Store[k] \in Purgeable
        BY <2>4 DEF Removes
      <3>1. AgreeBut(d, Store, rewritten[p])
        BY <1>1, <2>5, ProcessFacts DEF ProcessSound, PurgeSound, File
      <3>2. Only(d, k) = Only(Store, k) /\ k \in DOMAIN d
        BY <2>2, <3>1 DEF AgreeBut, purgeable
      <3>3. Store[k] = d[k]
        BY <3>2, OnlyEqual
      <3> QED
        BY <3>3 DEF purgeable, ShouldPurge
    <2> QED
      BY <1>2, <2>3, <2>4, <2>6, <2>7, QuietStepKeeps
  <1> QED
    BY <1>4, <1>5

\* A writer makes its change to what it read.
LEMMA UpdatedFacts ==
    ASSUME FileCacheInv, NEW p \in Processes, NEW e \in Map, proc[p].op \in {"set", "remove"}
    PROVE Updated(p, e) \in Map /\ AgreeBut(Updated(p, e), e, {proc[p].key})
  <1>1. proc[p].key \in Keys /\ (proc[p].op = "set" => proc[p].val \in Vals)
    BY ProcessFacts DEF CallSound
  <1>2. CASE proc[p].op = "set"
    <2>1. Updated(p, e) = Put(e, proc[p].key, proc[p].val)
      BY <1>2 DEF Updated
    <2>2. Put(e, proc[p].key, proc[p].val) \in Map
      BY <1>1, <1>2, MapChanges
    <2>3. \A k \in Keys : k # proc[p].key => Only(Put(e, proc[p].key, proc[p].val), k) = Only(e, k)
      BY OnlyOthers
    <2> QED
      BY <2>1, <2>2, <2>3 DEF AgreeBut
  <1>3. CASE proc[p].op = "remove"
    <2>1. Updated(p, e) = Drop(e, proc[p].key)
      BY <1>3 DEF Updated
    <2>2. Drop(e, proc[p].key) \in Map
      BY <1>1, MapChanges
    <2>3. \A k \in Keys : k # proc[p].key => Only(Drop(e, proc[p].key), k) = Only(e, k)
      BY OnlyOthers
    <2> QED
      BY <2>1, <2>2, <2>3 DEF AgreeBut
  <1> QED
    BY <1>2, <1>3

\* If the file is empty, or was destroyed, the writer starts with no entries: those
\* the file has are among the keys that were changed since it was opened.
LEMMA SetOrRemoveObjectKeeps ==
    ASSUME FileCacheInv, NEW p \in Processes, SetOrRemoveObject(p)
    PROVE FileCacheInv' /\ Store' = Store
  <1>1. /\ proc[p].pc = "load" /\ proc[p].op \in {"set", "remove"}
        /\ UNCHANGED <<inode, name, touched, rewritten>> /\ \A l \in locks' : l \in locks
    BY UnlockedFacts DEF SetOrRemoveObject, At
  <1>2. /\ proc[p] \in Process /\ proc \in [Processes -> Process] /\ CallSound(proc[p])
        /\ proc[p].fd # NoFile /\ proc[p].fd \in Inodes /\ File(p) \in Inode
        /\ ProcessSound(proc[p], inode, Store, touched[p], rewritten[p])
    BY <1>1, ProcessFacts DEF CallSound, Holding, FileCacheInv, TypeOK
  <1> DEFINE read == IF File(p).state = "whole" THEN File(p).data ELSE NoEntries
  <1>3. read \in Map /\ NoEntries \in Map
    BY <1>2, MapMembers DEF Inode
  <1>4. AgreeBut(read, Store, touched[p])
    <2>1. AgreeBut(File(p).data, Store, touched[p])
      BY <1>2 DEF ProcessSound, HeldSound, File
    <2>2. CASE File(p).state = "whole"
      BY <2>1, <2>2
    <2>3. CASE File(p).state = "empty"
      <3>1. File(p).data = NoEntries
        BY <1>2, <2>3 DEF FileCacheInv, FilesInv, File
      <3> QED
        BY <2>1, <2>3, <3>1
    <2>4. CASE File(p).state = "scrubbed"
      <3>1. DOMAIN File(p).data \subseteq touched[p]
        BY <1>2, <2>4 DEF ProcessSound, HeldSound, File
      <3>2. \A k : k \notin touched[p] => Only(NoEntries, k) = Only(File(p).data, k)
        BY <3>1, MapMembers, OnlyEqual
      <3> QED
        BY <2>1, <2>4, <3>2 DEF AgreeBut
    <2> QED
      BY <1>2, <2>2, <2>3, <2>4 DEF Inode, ProcessSound, HeldSound, File
  <1> HIDE DEF read
  <1>5. PICK u \in Map, b \in BOOLEAN :
            /\ \/ proc' = [proc EXCEPT ![p].pc = "rename", ![p].data = u] /\ ~b
               \/ proc' = [proc EXCEPT ![p].pc = "rename", ![p].data = u, ![p].blind = TRUE] /\ b
            /\ ~b => AgreeBut(u, Store, touched[p] \cup {proc[p].key})
    <2>1. CASE proc' = [proc EXCEPT ![p].pc = "rename", ![p].data = Updated(p, read)]
      <3>1. Updated(p, read) \in Map /\ AgreeBut(Updated(p, read), read, {proc[p].key})
        BY <1>1, <1>3, UpdatedFacts
      <3>2. AgreeBut(Updated(p, read), Store, touched[p] \cup {proc[p].key})
        BY <1>4, <3>1 DEF AgreeBut
      <3> QED
        BY <2>1, <3>1, <3>2
    <2>2. CASE proc' = [proc EXCEPT ![p].pc = "rename", ![p].data = Updated(p, NoEntries),
                                    ![p].blind = TRUE]
      <3>1. Updated(p, NoEntries) \in Map
        BY <1>1, <1>3, UpdatedFacts
      <3> QED
        BY <2>2, <3>1
    <2> QED
      BY <2>1, <2>2 DEF SetOrRemoveObject, read
  <1> DEFINE s == proc'[p]
  <1>6. /\ s \in Process /\ s.pc = "rename" /\ s.data = u /\ (b => s.blind) /\ s.fd = proc[p].fd
        /\ s.op = proc[p].op /\ s.key = proc[p].key /\ s.val = proc[p].val
        /\ s.purge = proc[p].purge /\ s.todo = proc[p].todo
        /\ proc' \in [Processes -> Process] /\ \A q \in Processes : q # p => proc'[q] = proc[q]
    <2>1. CASE proc' = [proc EXCEPT ![p].pc = "rename", ![p].data = u, ![p].blind = TRUE] /\ b
      <3> DEFINE x == [proc[p] EXCEPT !.pc = "rename", !.data = u, !.blind = TRUE]
      <3>1. /\ x \in Process /\ x.pc = "rename" /\ x.data = u /\ x.blind /\ x.fd = proc[p].fd
            /\ x.op = proc[p].op /\ x.key = proc[p].key /\ x.val = proc[p].val
            /\ x.purge = proc[p].purge /\ x.todo = proc[p].todo
        BY <1>2 DEF Process, PC
      <3>2. proc' = [proc EXCEPT ![p] = x]
        BY <2>1, <1>2
      <3> HIDE DEF x
      <3> QED
        BY <1>2, <3>1, <3>2
    <2>2. CASE proc' = [proc EXCEPT ![p].pc = "rename", ![p].data = u] /\ ~b
      <3> DEFINE x == [proc[p] EXCEPT !.pc = "rename", !.data = u]
      <3>1. /\ x \in Process /\ x.pc = "rename" /\ x.data = u /\ x.fd = proc[p].fd
            /\ x.op = proc[p].op /\ x.key = proc[p].key /\ x.val = proc[p].val
            /\ x.purge = proc[p].purge /\ x.todo = proc[p].todo
        BY <1>2 DEF Process, PC
      <3>2. proc' = [proc EXCEPT ![p] = x]
        BY <2>2, <1>2
      <3> HIDE DEF x
      <3> QED
        BY <1>2, <2>2, <3>1, <3>2
    <2> QED
      BY <1>5, <2>1, <2>2
  <1> HIDE DEF s
  <1>7. CallSound(s)
    BY <1>1, <1>2, <1>6 DEF CallSound, Holding
  <1>8. HeldSound(s, inode, Store, touched[p]) /\ PurgeSound(s, inode, Store, rewritten[p])
    BY <1>1, <1>2, <1>6 DEF ProcessSound, HeldSound, PurgeSound, Removes
  <1>9. WriteSound(s, Store, touched[p])
    BY <1>5, <1>6 DEF WriteSound
  <1>10. proc'[p] = s /\ s.pc # "scrub"
    BY <1>6 DEF s
  <1>11. ProcessSound(s, inode, Store, touched[p], rewritten[p])
    BY <1>7, <1>8, <1>9 DEF ProcessSound
  <1> QED
    BY <1>1, <1>6, <1>10, <1>11, ProcessStepKeeps

-----------------------------------------------------------------------------
\* A call is over after a step that leaves what open files hold alone.
LEMMA LastStepKeeps ==
    ASSUME FileCacheInv, NEW p \in Processes, NEW f \in [Inodes -> Inode], NEW n \in Inodes \cup {NoFile},
           NEW status \in {"ok", "error"}, proc[p].pc \notin {"idle", "purging"},
           Step(p, f, n, Done(p, Reply(status, NoEntries))), locks' = Unlocked(p),
           \A i \in Inodes : inode[i].state # "free" => f[i].data = inode[i].data /\ f[i].state # "free",
           \A i \in Inodes : f[i].state \in {"free", "empty"} => f[i].data = NoEntries,
           n # NoFile => f[n].state \notin {"free", "scrubbed"},
           \A i \in Inodes : f[i].state = "scrubbed" => inode[i].state = "scrubbed",
           \A q \in Processes : At(q, "scrub") => proc[q].fd # n
    PROVE FileCacheInv' /\ Store' = Content(f, n) /\ proc'[p].pc = "done"
  <1> DEFINE s == Done(p, Reply(status, NoEntries))
             D == Differ(Store, Content(f, n))
  <1>1. /\ s \in Process /\ s.fd = NoFile /\ s.pc = "done"
        /\ CallSound(s) /\ ProcessSound(s, inode, Store, touched[p], rewritten[p])
    BY DoneSound, ReplyFacts
  <1>2. Step(p, f, n, s)
    OBVIOUS
  <1> HIDE DEF s
  <1>3. ProcessSound(s, f, Content(f, n), touched'[p], rewritten'[p])
    BY <1>1, <1>2, OwnProcess
  <1>4. /\ proc'[p] = s /\ \A q \in Processes : q # p => proc'[q] = proc[q]
        /\ Store' = Content(f, n)
        /\ \A q \in Processes : proc'[q].fd # NoFile => touched'[q] = touched[q] \cup D
    BY <1>1, <1>2, StepFacts
  <1> HIDE DEF D
  <1>5. \A q \in Processes : proc'[q].pc = "scrub" =>
            q # p /\ proc[q].pc = "scrub" /\ proc'[q] = proc[q] /\ proc[q].fd # NoFile
            /\ proc[q].fd \in Inodes /\ inode[proc[q].fd].state # "free"
    BY <1>1, <1>4, ProcessFacts DEF CallSound, Holding
  <1>6. \A q, r \in Processes : proc'[q].pc = "scrub" /\ proc'[r].fd = proc'[q].fd =>
            DOMAIN f[proc'[q].fd].data \subseteq touched'[r]
    <2> SUFFICES ASSUME NEW q \in Processes, NEW r \in Processes,
                        proc'[q].pc = "scrub", proc'[r].fd = proc'[q].fd
                 PROVE DOMAIN f[proc'[q].fd].data \subseteq touched'[r]
      OBVIOUS
    <2>1. r # p
      BY <1>1, <1>4, <1>5
    <2>2. DOMAIN inode[proc[q].fd].data \subseteq touched[r]
      BY <1>4, <1>5, <2>1 DEF FileCacheInv, FilesInv, At
    <2> QED
      BY <1>4, <1>5, <2>1, <2>2
  <1>7. \A q \in Processes : proc'[q].pc = "scrub" => proc'[q].fd # n
    BY <1>5 DEF At
  <1>8. \A q \in Processes : q # p /\ proc[q].fd # NoFile /\ f[proc[q].fd].state = "scrubbed" =>
            inode[proc[q].fd].state = "scrubbed"
    BY ProcessFacts
  <1>9. \A l \in locks' : l \in locks /\ l.proc # p
    BY UnlockedFacts
  <1>10. FileCacheInv'
    BY <1>1, <1>2, <1>3, <1>6, <1>7, <1>8, <1>9, StepKeeps
  <1> QED
    BY <1>1, <1>4, <1>10

\* The content that a writer puts in place.
LEMMA RenameKeeps ==
    ASSUME FileCacheInv, NEW p \in Processes, Rename(p)
    PROVE FileCacheInv' /\ Store' = proc[p].data /\ proc'[p].pc = "done"
  <1>1. PICK i \in Inodes :
            /\ inode[i] = Free
            /\ Step(p, [inode EXCEPT ![i] = Whole(proc[p].data)], i, Done(p, OK))
    BY DEF Rename
  <1> DEFINE f == [inode EXCEPT ![i] = Whole(proc[p].data)]
  <1>2. proc[p].pc = "rename" /\ locks' = Unlocked(p)
    BY DEF Rename, At
  <1>3. /\ proc[p].data \in Map /\ inode \in [Inodes -> Inode] /\ NoFile \notin Inodes
        /\ FilesInv
    BY ProcessFacts DEF Process, FileCacheInv
  <1>4. /\ f \in [Inodes -> Inode] /\ f[i].state = "whole" /\ f[i].data = proc[p].data
        /\ inode[i].state = "free" /\ \A j \in Inodes : j # i => f[j] = inode[j]
    <2>1. LET w == Whole(proc[p].data) IN w \in Inode /\ w.state = "whole" /\ w.data = proc[p].data
      BY <1>3 DEF Whole, Inode
    <2> QED
      BY <1>1, <1>3, <2>1 DEF Free
  <1>5. Step(p, f, i, Done(p, Reply("ok", NoEntries)))
    BY <1>1, ReplyFacts
  <1> HIDE DEF f
  <1>6. Content(f, i) = proc[p].data
    BY <1>3, <1>4 DEF Content
  <1>7. \A j \in Inodes : f[j].state \in {"free", "empty"} => f[j].data = NoEntries
    BY <1>3, <1>4 DEF FilesInv
  <1>8. /\ \A j \in Inodes : inode[j].state # "free" => f[j].data = inode[j].data /\ f[j].state # "free"
        /\ \A j \in Inodes : f[j].state = "scrubbed" => inode[j].state = "scrubbed"
        /\ f[i].state \notin {"free", "scrubbed"}
    BY <1>4
  <1>9. \A q \in Processes : At(q, "scrub") => proc[q].fd # i
    BY <1>4, ProcessFacts DEF At, CallSound, Holding
  <1>10. FileCacheInv' /\ Store' = Content(f, i) /\ proc'[p].pc = "done"
    BY <1>2, <1>4, <1>5, <1>7, <1>8, <1>9, LastStepKeeps
  <1> QED
    BY <1>6, <1>10

LEMMA StoreInPlaceKeeps ==
    ASSUME FileCacheInv, NEW p \in Processes, StoreInPlace(p)
    PROVE FileCacheInv' /\ Store' = Store
  <1> DEFINE i == proc[p].fd
             f == [inode EXCEPT ![i] = Whole(NoEntries)]
  <1>1. proc[p].pc = "store" /\ locks' = Unlocked(p)
    BY DEF StoreInPlace, At
  <1>2. /\ i \in Inodes /\ inode[i].data = NoEntries /\ inode \in [Inodes -> Inode] /\ FilesInv
        /\ name \in Inodes \cup {NoFile}
    BY <1>1, ProcessFacts DEF CallSound, Holding, ProcessSound, HeldSound, FileCacheInv
  <1>3. Step(p, f, name, Done(p, Reply("ok", NoEntries)))
    BY ReplyFacts DEF StoreInPlace
  <1>4. /\ f \in [Inodes -> Inode] /\ f[i].state = "whole" /\ f[i].data = NoEntries
        /\ \A j \in Inodes : j # i => f[j] = inode[j]
    <2>1. LET w == Whole(NoEntries) IN w \in Inode /\ w.state = "whole" /\ w.data = NoEntries
      BY MapMembers DEF Whole, Inode
    <2> QED
      BY <1>2, <2>1
  <1> HIDE DEF f, i
  <1>5. Content(f, name) = Store
    BY <1>2, <1>4 DEF Content, Store
  <1>6. /\ \A j \in Inodes : inode[j].state # "free" => f[j].data = inode[j].data /\ f[j].state # "free"
        /\ \A j \in Inodes : f[j].state = "scrubbed" => inode[j].state = "scrubbed"
    BY <1>2, <1>4
  <1>7. \A j \in Inodes : f[j].state \in {"free", "empty"} => f[j].data = NoEntries
    BY <1>2, <1>4 DEF FilesInv
  <1>8. name # NoFile => f[name].state \notin {"free", "scrubbed"}
    BY <1>2, <1>4 DEF FilesInv
  <1>9. \A q \in Processes : At(q, "scrub") => proc[q].fd # name
    BY <1>2 DEF FilesInv
  <1>10. FileCacheInv' /\ Store' = Content(f, name)
    BY <1>1, <1>2, <1>3, <1>4, <1>6, <1>7, <1>8, <1>9, LastStepKeeps
  <1> QED
    BY <1>5, <1>10

\* The name goes, and with it the entries: whoever has the file of the destruction
\* open has all of its keys among those changed since.
LEMMA UnlinkKeeps ==
    ASSUME FileCacheInv, NEW p \in Processes, Unlink(p)
    PROVE FileCacheInv' /\ proc'[p].pc # "unlink"
  <1>1. proc[p].pc = "unlink"
    BY DEF Unlink, At
  <1>2. /\ inode \in [Inodes -> Inode] /\ FilesInv /\ name \in Inodes \cup {NoFile} /\ NoFile \notin Inodes
        /\ proc[p] \in Process /\ CallSound(proc[p])
        /\ proc[p].fd # NoFile /\ proc[p].fd \in Inodes /\ inode[proc[p].fd].state # "free"
        /\ ProcessSound(proc[p], inode, Store, touched[p], rewritten[p])
    BY <1>1, ProcessFacts DEF FileCacheInv, CallSound, Holding
  <1>3. ASSUME NEW n \in {name, NoFile}, Step(p, inode, n, Done(p, Error)), locks' = Unlocked(p)
        PROVE FileCacheInv' /\ proc'[p].pc = "done"
    <2>1. Step(p, inode, n, Done(p, Reply("error", NoEntries))) /\ n \in Inodes \cup {NoFile}
      BY <1>2, <1>3, ReplyFacts
    <2>2. n # NoFile => inode[n].state \notin {"free", "scrubbed"}
      BY <1>2 DEF FilesInv
    <2>3. \A q \in Processes : At(q, "scrub") => proc[q].fd # n
      BY <1>2, ProcessFacts DEF FilesInv, At, CallSound, Holding
    <2>4. \A j \in Inodes : inode[j].state \in {"free", "empty"} => inode[j].data = NoEntries
      BY <1>2 DEF FilesInv
    <2> QED
      BY <1>1, <1>2, <1>3, <2>1, <2>2, <2>3, <2>4, LastStepKeeps
  <1>4. ASSUME Step(p, inode, NoFile, [proc[p] EXCEPT !.pc = "scrub"]), UNCHANGED locks
        PROVE FileCacheInv' /\ proc'[p].pc # "unlink"
    <2> DEFINE s == [proc[p] EXCEPT !.pc = "scrub"]
               D == Differ(Store, NoEntries)
    <2>1. /\ s \in Process /\ s.pc = "scrub" /\ s.fd = proc[p].fd /\ s.op = proc[p].op
          /\ s.key = proc[p].key /\ s.val = proc[p].val /\ s.purge = proc[p].purge
          /\ s.todo = proc[p].todo
      BY <1>2 DEF Process, PC
    <2>2. Step(p, inode, NoFile, s) /\ Content(inode, NoFile) = NoEntries
      BY <1>4 DEF Content
    <2> HIDE DEF s
    <2>3. CallSound(s) /\ s.op = "destroy"
      BY <1>1, <1>2, <2>1 DEF CallSound, Holding
    <2>4. ProcessSound(s, inode, Store, touched[p], rewritten[p])
      <3>1. HeldSound(s, inode, Store, touched[p]) /\ WriteSound(s, Store, touched[p])
        BY <1>2, <2>1 DEF ProcessSound, HeldSound, WriteSound
      <3>2. PurgeSound(s, inode, Store, rewritten[p])
        BY <1>2, <2>1, <2>3 DEF ProcessSound, PurgeSound, Removes
      <3> QED
        BY <2>3, <3>1, <3>2 DEF ProcessSound
    <2>5. ProcessSound(s, inode, Content(inode, NoFile), touched'[p], rewritten'[p])
      BY <1>2, <2>1, <2>2, <2>3, <2>4, OwnProcess
    <2>6. /\ proc'[p] = s /\ \A q \in Processes : q # p => proc'[q] = proc[q]
          /\ \A q \in Processes : proc'[q].fd # NoFile => touched'[q] = touched[q] \cup D
      <3> DEFINE E == Differ(Store, Content(inode, NoFile))
      <3>1. /\ proc'[p] = s /\ \A q \in Processes : q # p => proc'[q] = proc[q]
            /\ \A q \in Processes : proc'[q].fd # NoFile => touched'[q] = touched[q] \cup E
        BY <1>2, <2>1, <2>2, StepFacts
      <3> QED
        BY <2>2, <3>1
    <2>7. \A q \in Processes : /\ proc'[q].fd = proc[q].fd
                               /\ proc'[q].pc = "scrub" => proc'[q].fd # NoFile /\ proc'[q].fd \in Inodes
      BY <1>2, <2>1, <2>6, ProcessFacts DEF CallSound, Holding
    <2> HIDE DEF D
    <2>8. ASSUME NEW q \in Processes, NEW r \in Processes,
                 proc'[q].pc = "scrub", proc'[r].fd = proc'[q].fd
          PROVE DOMAIN inode[proc'[q].fd].data \subseteq touched'[r]
      <3> DEFINE d == inode[proc[r].fd].data
      <3>1. proc[r].fd # NoFile /\ proc[r].fd \in Inodes /\ touched'[r] = touched[r] \cup D
        BY <2>6, <2>7, <2>8
      <3>2. DOMAIN d \subseteq Keys
        <4>1. d \in Map
          BY <1>2, <3>1 DEF Inode
        <4> QED
          BY <4>1, MapMembers
      <3>3. AgreeBut(d, Store, touched[r])
        BY <3>1, ProcessFacts DEF ProcessSound, HeldSound
      <3>4. ASSUME NEW k \in DOMAIN d, k \notin touched[r] PROVE k \in D
        <4>1. k \in Keys /\ Only(d, k) = Only(Store, k)
          BY <3>2, <3>3, <3>4 DEF AgreeBut
        <4>2. k \in DOMAIN Store
          BY <4>1, OnlyEqual
        <4>3. Only(Store, k) # Only(NoEntries, k)
          BY <4>2, MapMembers, OnlyEqual
        <4> QED
          BY <4>1, <4>3 DEF D, Differ
      <3> QED
        BY <2>7, <2>8, <3>1, <3>4
    <2>9. \A l \in locks' : IF l \in locks /\ l.proc # p THEN TRUE
                            ELSE l.proc = p /\ l.file \in Inodes /\ s.fd = l.file /\ l.excl \in BOOLEAN
      BY <1>4, <2>1 DEF FileCacheInv, TypeOK
    <2>10. \A j \in Inodes : inode[j].state \in {"free", "empty"} => inode[j].data = NoEntries
      BY <1>2 DEF FilesInv
    <2>11. FileCacheInv'
      BY <1>2, <2>1, <2>2, <2>5, <2>7, <2>8, <2>9, <2>10, StepKeeps
    <2> QED
      BY <2>1, <2>6, <2>11
  <1> QED
    BY <1>3, <1>4 DEF Unlink

LEMMA ScrubKeeps ==
    ASSUME FileCacheInv, NEW p \in Processes, Scrub(p)
    PROVE FileCacheInv' /\ Store' = Store
  <1> DEFINE i == proc[p].fd
             f == [inode EXCEPT ![i].state = "scrubbed"]
             s == [proc[p] EXCEPT !.pc = "close"]
  <1>1. proc[p].pc = "scrub" /\ At(p, "scrub") /\ Step(p, f, name, s) /\ locks' = locks
    BY DEF Scrub, At
  <1>2. /\ inode \in [Inodes -> Inode] /\ FilesInv /\ name \in Inodes \cup {NoFile} /\ NoFile \notin Inodes
        /\ proc[p] \in Process /\ CallSound(proc[p])
        /\ i # NoFile /\ i \in Inodes /\ inode[i].state # "free" /\ inode[i] \in Inode
        /\ ProcessSound(proc[p], inode, Store, touched[p], rewritten[p])
    BY <1>1, ProcessFacts DEF FileCacheInv, CallSound, Holding, File
  <1>3. /\ f \in [Inodes -> Inode] /\ f[i].state = "scrubbed" /\ f[i].data = inode[i].data
        /\ \A j \in Inodes : j # i => f[j] = inode[j]
    BY <1>2 DEF Inode
  <1>4. /\ s \in Process /\ s.pc = "close" /\ s.fd = i /\ s.op = proc[p].op /\ s.key = proc[p].key
        /\ s.val = proc[p].val /\ s.purge = proc[p].purge /\ s.todo = proc[p].todo
    BY <1>2 DEF Process, PC
  <1>5. /\ i # name
        /\ \A q \in Processes : proc[q].fd = i => DOMAIN inode[i].data \subseteq touched[q]
    BY <1>1, <1>2 DEF FilesInv
  <1> HIDE DEF s, f, i
  <1>6. CallSound(s) /\ s.op = "destroy"
    BY <1>1, <1>2, <1>4 DEF CallSound, Holding
  <1>7. ProcessSound(s, inode, Store, touched[p], rewritten[p])
    <2>1. HeldSound(s, inode, Store, touched[p]) /\ WriteSound(s, Store, touched[p])
      BY <1>2, <1>4 DEF ProcessSound, HeldSound, WriteSound, i
    <2>2. PurgeSound(s, inode, Store, rewritten[p])
      BY <1>2, <1>4, <1>6 DEF ProcessSound, PurgeSound, Removes
    <2> QED
      BY <1>6, <2>1, <2>2 DEF ProcessSound
  <1>8. Content(f, name) = Store /\ Differ(Store, Store) = {}
    BY <1>2, <1>3, <1>5 DEF Content, Store, Differ
  <1>9. /\ proc'[p] = s /\ \A q \in Processes : q # p => proc'[q] = proc[q]
        /\ Store' = Store /\ \A q \in Processes : proc'[q].fd # NoFile => touched'[q] = touched[q]
    <2> DEFINE D == Differ(Store, Content(f, name))
    <2>1. /\ proc'[p] = s /\ \A q \in Processes : q # p => proc'[q] = proc[q]
          /\ Store' = Content(f, name)
          /\ \A q \in Processes : proc'[q].fd # NoFile => touched'[q] = touched[q] \cup D
      BY <1>1, <1>2, <1>3, <1>4, StepFacts
    <2>2. D = {}
      BY <1>8
    <2> HIDE DEF D
    <2> QED
      BY <1>8, <2>1, <2>2
  <1>10. \A j \in Inodes : inode[j].state # "free" => f[j].data = inode[j].data /\ f[j].state # "free"
    BY <1>3
  <1>11. \A q \in Processes : /\ proc'[q].fd = proc[q].fd
                              /\ proc[q].fd = i => DOMAIN inode[i].data \subseteq touched'[q]
    BY <1>2, <1>4, <1>5, <1>9 DEF i
  <1>12. ProcessSound(s, f, Content(f, name), touched'[p], rewritten'[p])
    BY <1>1, <1>2, <1>3, <1>4, <1>6, <1>7, <1>10, <1>11, OwnProcess DEF i
  <1>13. \A j \in Inodes : f[j].state \in {"free", "empty"} => f[j].data = NoEntries
    BY <1>2, <1>3 DEF FilesInv
  <1>14. name # NoFile => f[name].state \notin {"free", "scrubbed"}
    BY <1>2, <1>3, <1>5 DEF FilesInv
  <1>15. \A q \in Processes : q # p /\ proc[q].fd # NoFile /\ f[proc[q].fd].state = "scrubbed" =>
            inode[proc[q].fd].state = "scrubbed" \/ DOMAIN inode[proc[q].fd].data \subseteq touched'[q]
    BY <1>3, <1>11, ProcessFacts
  <1>16. \A q \in Processes : proc'[q].pc = "scrub" =>
            q # p /\ At(q, "scrub") /\ proc'[q].fd # NoFile /\ proc'[q].fd \in Inodes
    BY <1>4, <1>9, ProcessFacts DEF At, CallSound, Holding
  <1>17. \A q \in Processes : proc'[q].pc = "scrub" => proc'[q].fd # name
    BY <1>2, <1>11, <1>16 DEF FilesInv
  <1>18. ASSUME NEW q \in Processes, NEW r \in Processes,
                proc'[q].pc = "scrub", proc'[r].fd = proc'[q].fd
         PROVE DOMAIN f[proc'[q].fd].data \subseteq touched'[r]
    <2>1. DOMAIN inode[proc[q].fd].data \subseteq touched[r]
      BY <1>2, <1>11, <1>16, <1>18 DEF FilesInv
    <2>2. touched'[r] = touched[r] /\ f[proc'[q].fd].data = inode[proc[q].fd].data
      BY <1>3, <1>9, <1>11, <1>16, <1>18
    <2> QED
      BY <2>1, <2>2
  <1>19. \A l \in locks' : IF l \in locks /\ l.proc # p THEN TRUE
                           ELSE l.proc = p /\ l.file \in Inodes /\ s.fd = l.file /\ l.excl \in BOOLEAN
    BY <1>1, <1>4 DEF FileCacheInv, TypeOK, i
  <1>20. FileCacheInv'
    BY <1>1, <1>2, <1>3, <1>4, <1>10, <1>12, <1>13, <1>14, <1>15, <1>17, <1>18, <1>19, StepKeeps
  <1> QED
    BY <1>9, <1>20

LEMMA CloseKeeps ==
    ASSUME FileCacheInv, NEW p \in Processes, Close(p)
    PROVE FileCacheInv' /\ Store' = Store
  <1>1. proc[p].pc = "close" /\ locks' = Unlocked(p) /\ Step(p, inode, name, Done(p, Reply("ok", NoEntries)))
    BY ReplyFacts DEF Close, At
  <1> QED
    BY <1>1, UnlockedFacts, ReplyFacts, DoneStepKeeps

LEMMA StepFailsKeeps ==
    ASSUME FileCacheInv, NEW p \in Processes, StepFails(p)
    PROVE FileCacheInv' /\ Store' = Store
  <1>1. /\ proc[p].pc \notin {"idle", "purging"} /\ locks' = Unlocked(p)
        /\ Step(p, inode, name, Done(p, Reply("error", NoEntries)))
    BY ReplyFacts DEF StepFails
  <1> QED
    BY <1>1, UnlockedFacts, ReplyFacts, DoneStepKeeps

LEMMA CrashKeeps ==
    ASSUME FileCacheInv, NEW p \in Processes, Crash(p)
    PROVE FileCacheInv' /\ Store' = Store
  <1>1. locks' = Unlocked(p) /\ Step(p, inode, name, Idle)
    BY DEF Crash
  <1>2. Idle \in Process /\ CallSound(Idle) /\ Idle.fd = NoFile /\ Idle.pc = "idle" /\ ~Idle.purge
    BY IdleFacts
  <1>3. \A l \in locks' : l \in locks /\ l.proc # p
    BY <1>1, UnlockedFacts
  <1> QED
    BY <1>1, <1>2, <1>3, QuietStepKeeps

\* Only a rename and an unlink change what clients find under the name.
Quiet(p) ==
    \/ Begin(p) \/ PurgeNext(p) \/ Return(p)
    \/ Lstat(p) \/ Open(p) \/ Lock(p) \/ GetObject(p) \/ FirstObject(p)
    \/ ReadFails(p) \/ SetOrRemoveObject(p) \/ StoreInPlace(p) \/ Scrub(p) \/ Close(p)
    \/ StepFails(p) \/ Crash(p)

LEMMA QuietKeeps ==
    ASSUME FileCacheInv, NEW p \in Processes, Quiet(p)
    PROVE FileCacheInv' /\ Store' = Store
  BY BeginKeeps, PurgeNextKeeps, ReturnKeeps, LstatKeeps, OpenKeeps, LockKeeps, GetObjectKeeps,
     FirstObjectKeeps, ReadFailsKeeps, SetOrRemoveObjectKeeps, StoreInPlaceKeeps, ScrubKeeps,
     CloseKeeps, StepFailsKeeps, CrashKeeps DEF Quiet

LEMMA NextCases ==
    Next => \E p \in Processes : Quiet(p) \/ Rename(p) \/ Unlink(p)
  BY Zenon DEF Next, Quiet

LEMMA StutterKeeps == ASSUME FileCacheInv, UNCHANGED vars PROVE FileCacheInv' /\ Store' = Store
  <1>1. Store' = Store
    BY DEF vars, Store, Content
  <1>2. TypeOK'
    BY DEF vars, FileCacheInv, TypeOK
  <1>3. FilesInv' /\ LocksInv'
    BY DEF vars, FileCacheInv, FilesInv, LocksInv, At
  <1>4. ProcessesInv'
    BY <1>1 DEF vars, FileCacheInv, ProcessesInv
  <1> QED
    BY <1>1, <1>2, <1>3, <1>4 DEF FileCacheInv

LEMMA InitSound == Init => FileCacheInv
  <1> SUFFICES ASSUME Init PROVE FileCacheInv
    OBVIOUS
  <1> USE DEF Init
  <1>1. /\ Free \in Inode /\ Free.state = "free" /\ Free.data = NoEntries
        /\ \A i \in Inodes : inode[i] = Free
        /\ \A p \in Processes : proc[p] = Idle
    BY MapMembers DEF Free, Inode
  <1>2. TypeOK
    BY <1>1, IdleFacts DEF TypeOK
  <1>3. FilesInv /\ LocksInv
    BY <1>1, IdleFacts DEF FilesInv, LocksInv, At
  <1>4. ProcessesInv
    BY <1>1, IdleFacts DEF ProcessesInv, ProcessSound, HeldSound, WriteSound, PurgeSound
  <1> QED
    BY <1>2, <1>3, <1>4 DEF FileCacheInv

LEMMA NextKeeps == FileCacheInv /\ [Next]_vars => FileCacheInv'
  BY NextCases, QuietKeeps, RenameKeeps, UnlinkKeeps, StutterKeeps

\* Types; a name, and an open file, belong to a file that exists; and each process
\* has read, is about to write or is going to purge what its place in bid_fcache.c
\* says, but for the keys changed meanwhile.
THEOREM FileCacheInvariant == Spec => []FileCacheInv
  BY InitSound, NextKeeps, PTL DEF Spec

\* Whatever calls fail and whatever processes crash, a lock has a process that holds
\* its file open (the fcntl locks of bid_fcache.c).
THEOREM FileCacheTypes == Spec => []TypeOK
  <1>1. FileCacheInv => TypeOK
    BY DEF FileCacheInv
  <1> QED
    BY <1>1, FileCacheInvariant, PTL

\* With any number of writers, an entry changes only by a call for its key, by the
\* destruction of the cache, or because a writer puts back what it read before the
\* entry was changed, or could not read at all (_BIDFileCacheWrite).
THEOREM OnlyOverlapLoses == Spec => LostOnlyByOverlap
  <1> DEFINE A == \A k \in Differ(Store, Store') :
                    \E p \in Processes :
                       \/ At(p, "unlink") /\ proc'[p].pc # "unlink"
                       \/ /\ At(p, "rename") /\ proc'[p].pc = "done"
                          /\ proc[p].key = k \/ k \in touched[p] \/ proc[p].blind
  <1>1. FileCacheInv /\ [Next]_vars => [A]_vars
    <2> SUFFICES ASSUME FileCacheInv, [Next]_vars PROVE A \/ UNCHANGED vars
      OBVIOUS
    <2>1. CASE UNCHANGED vars
      BY <2>1
    <2>2. ASSUME NEW p \in Processes, Quiet(p) PROVE A
      BY <2>2, QuietKeeps DEF Differ
    <2>3. ASSUME NEW p \in Processes, Unlink(p) PROVE A
      <3>1. At(p, "unlink") /\ proc'[p].pc # "unlink"
        BY <2>3, UnlinkKeeps DEF Unlink
      <3> QED
        BY <3>1
    <2>4. ASSUME NEW p \in Processes, Rename(p) PROVE A
      <3>1. At(p, "rename") /\ Store' = proc[p].data /\ proc'[p].pc = "done"
        BY <2>4, RenameKeeps DEF Rename
      <3>2. ASSUME NEW k \in Differ(Store, Store')
            PROVE proc[p].key = k \/ k \in touched[p] \/ proc[p].blind
        <4>1. ~proc[p].blind => AgreeBut(proc[p].data, Store, touched[p] \cup {proc[p].key})
          BY <3>1, ProcessFacts DEF ProcessSound, WriteSound, At
        <4> QED
          BY <3>1, <3>2, <4>1 DEF AgreeBut, Differ
      <3> QED
        BY <3>1, <3>2
    <2> HIDE DEF A
    <2> QED
      BY <2>1, <2>2, <2>3, <2>4, NextCases
  <1> QED
    BY <1>1, FileCacheInvariant, PTL DEF Spec, LostOnlyByOverlap

\* Whatever other processes write, destroy and create meanwhile, a purge removes an
\* entry that is not purgeable only if the entry was written after the purge had
\* opened the file to list it.
THEOREM PurgesSpareLive == Spec => PurgeSparesLive
  <1> DEFINE A == \A p \in Processes :
                    At(p, "rename") /\ proc[p].purge /\ proc'[p].pc = "done" /\ proc'[p].reply = OK =>
                       \A k \in {proc[p].key} \cap DOMAIN Store :
                           Store[k] \in Purgeable \/ k \in rewritten[p]
  <1>1. FileCacheInv => A
    <2> SUFFICES ASSUME FileCacheInv, NEW p \in Processes, At(p, "rename"), proc[p].purge
                 PROVE \A k \in {proc[p].key} \cap DOMAIN Store :
                           Store[k] \in Purgeable \/ k \in rewritten[p]
      OBVIOUS
    <2>1. proc[p].op = "remove"
      BY ProcessFacts DEF At, CallSound
    <2> QED
      BY <2>1, ProcessFacts DEF ProcessSound, PurgeSound, Removes
  <1>2. FileCacheInv /\ [Next]_vars => [A]_vars
    BY <1>1
  <1> QED
    BY <1>2, FileCacheInvariant, PTL DEF Spec, PurgeSparesLive

-----------------------------------------------------------------------------
(***************************************************************************)
(* The refinement of Cache by a file that at most one process writes.      *)
(***************************************************************************)

\* Only one process calls what changes the cache, and files that are good can be read.
Writes(p) == ~(Calls[p] \subseteq {"get"})
OneWriter ==
    /\ \A p, q \in Processes : Writes(p) /\ Writes(q) => p = q
    /\ "read" \notin Faults

\* A process has an operation, and no answer yet, while it is in a call.
ShapeSound(s) ==
    /\ s.pc \in {"idle", "purging"} <=> s.op = "none"
    /\ s.op = "none" => s.key = "none" /\ s.val = "none" /\ s.reply = Reply("none", NoEntries)
    /\ s.pc \notin {"idle", "purging", "done"} => s.reply = Reply("pending", NoEntries)

ReaderSound(s) == s.op \in {"get", "none"} /\ ~s.purge

\* The entries after a change of those of c.
Changed(s, c) == IF s.op = "set" THEN Put(c, s.key, s.val) ELSE Drop(c, s.key)

\* The writer, with the name linked to n and the entries c under it: the file it has
\* open is the one with the name, and it writes what its call makes of the entries.
WriterSound(s, n, c) ==
    /\ s.fd # NoFile /\ s.pc \notin {"scrub", "close"} => s.fd = n
    /\ s.op = "destroy" /\ s.pc \in {"open", "lock", "unlink"} => s.sb = n
    /\ s.pc = "rename" => s.data = Changed(s, c)

RoleSound(p, s, n, c) ==
    ShapeSound(s) /\ IF Writes(p) THEN WriterSound(s, n, c) ELSE ReaderSound(s)
AtomicInv == \A p \in Processes : RoleSound(p, proc[p], name, Store)

\* The answer a process in state s is bound to give, among files f.
Promised(s, f) ==
    CASE s.pc = "done" -> s.reply
      [] s.op = "get" /\ s.fd # NoFile -> Reply("ok", Only(f[s.fd].data, s.key))
      [] s.op = "list" /\ s.fd # NoFile -> Reply("ok", f[s.fd].data)
      [] s.pc \in {"scrub", "close"} -> OK
      [] OTHER -> s.reply

\* The calls that a client of Cache sees.
Seen(s, f) == [op |-> s.op, key |-> s.key, val |-> s.val, reply |-> Promised(s, f)]
SeenCalls ==
    [p \in Processes |-> [op |-> proc[p].op, key |-> proc[p].key, val |-> proc[p].val,
                          reply |-> Promise(p)]]

LEMMA SeenCallsFacts ==
    /\ SeenCalls = [p \in Processes |-> Seen(proc[p], inode)]
    /\ SeenCalls' = [p \in Processes |-> Seen(proc'[p], inode')]
  <1>1. \A p \in Processes : Promise(p) = Promised(proc[p], inode)
    BY DEF Promise, Promised, At, File
  <1>2. \A p \in Processes : Promise(p)' = Promised(proc'[p], inode')
    BY DEF Promise, Promised, At, File
  <1> QED
    BY <1>1, <1>2 DEF SeenCalls, Seen

\* The steps of Cache in terms of SeenCalls.
LEMMA AtomicSteps ==
    ASSUME NEW p \in Processes
    PROVE /\ Atomic!Invoke(p) <=>
               /\ SeenCalls[p] = Atomic!NoCall
               /\ \E op \in {"get", "set", "remove", "list", "initialize", "destroy"} :
                  \E k \in Keys \cup {"none"}, v \in Vals \cup {"none"} :
                    SeenCalls' = [SeenCalls EXCEPT ![p] = [op |-> op, key |-> k, val |-> v,
                                                  reply |-> Reply("pending", NoEntries)]]
               /\ UNCHANGED Store
          /\ Atomic!Apply(p) <=>
               /\ SeenCalls[p].reply.status = "pending"
               /\ Store' = Atomic!Effect(SeenCalls[p])
               /\ SeenCalls' = [SeenCalls EXCEPT ![p].reply = Atomic!Answer(SeenCalls[p])]
          /\ Atomic!Fail(p) <=>
               /\ SeenCalls[p].op # "none"
               /\ SeenCalls' = [SeenCalls EXCEPT ![p].reply = Error]
               /\ UNCHANGED Store
          /\ Atomic!Return(p) <=>
               /\ SeenCalls[p].op # "none"
               /\ SeenCalls' = [SeenCalls EXCEPT ![p] = Atomic!NoCall]
               /\ UNCHANGED Store
  BY Zenon DEF Atomic!Invoke, Atomic!Apply, Atomic!Fail, Atomic!Return, Atomic!Reply,
               Atomic!NoEntries, Error, Reply, NoEntries, SeenCalls

\* Process p moves to the state s, and no other sees a change in the file it has open.
Moves(p, s) ==
    /\ s \in Process
    /\ proc \in [Processes -> Process]
    /\ proc' = [proc EXCEPT ![p] = s]
    /\ \A q \in Processes \ {p} :
         proc[q].fd # NoFile => inode'[proc[q].fd].data = inode[proc[q].fd].data

LEMMA SeenMoves ==
    ASSUME NEW p \in Processes, NEW s, Moves(p, s)
    PROVE SeenCalls' = [SeenCalls EXCEPT ![p] = Seen(s, inode')]
  <1>1. \A q \in Processes \ {p} : Seen(proc'[q], inode') = Seen(proc[q], inode)
    BY DEF Moves, Seen, Promised
  <1>2. proc'[p] = s
    BY DEF Moves
  <1> QED
    BY <1>1, <1>2, SeenCallsFacts

LEMMA MovesKeep ==
    ASSUME OneWriter, AtomicInv, NEW p \in Processes, NEW s, Moves(p, s),
           RoleSound(p, s, name', Store'), Writes(p) \/ (name' = name /\ Store' = Store)
    PROVE AtomicInv'
  <1> SUFFICES ASSUME NEW q \in Processes PROVE RoleSound(q, proc'[q], name', Store')
    BY DEF AtomicInv
  <1>1. CASE q = p
    BY <1>1 DEF Moves
  <1>2. CASE q # p
    <2>1. proc'[q] = proc[q] /\ RoleSound(q, proc[q], name, Store)
      BY <1>2 DEF Moves, AtomicInv
    <2>2. CASE Writes(q)
      BY <1>2, <2>1, <2>2 DEF OneWriter
    <2>3. CASE ~Writes(q)
      BY <2>1, <2>3 DEF RoleSound
    <2> QED
      BY <2>2, <2>3
  <1> QED
    BY <1>1, <1>2

\* A step of the protocol among the files is one of these steps of Cache.
AtomicStep(p) ==
    \/ Atomic!Invoke(p) \/ Atomic!Apply(p) \/ Atomic!Fail(p) \/ Atomic!Return(p)
    \/ UNCHANGED <<Store, SeenCalls>>

\* The process goes on with its call, before or after the moment of its effect.
LEMMA StaysUnseen ==
    ASSUME NEW p \in Processes, NEW s, Moves(p, s), Store' = Store,
           s.op = proc[p].op, s.key = proc[p].key, s.val = proc[p].val,
           Promised(s, inode') = Promised(proc[p], inode)
    PROVE UNCHANGED <<Store, SeenCalls>>
  <1>1. Seen(s, inode') = SeenCalls[p]
    BY SeenCallsFacts DEF Seen
  <1>2. SeenCalls' = [SeenCalls EXCEPT ![p] = SeenCalls[p]]
    BY <1>1, SeenMoves
  <1> QED
    BY <1>2, SeenCallsFacts

\* The moment of the effect.
LEMMA EffectApplies ==
    ASSUME NEW p \in Processes, NEW s, Moves(p, s), Store' = Atomic!Effect(SeenCalls[p]),
           s.op = proc[p].op, s.key = proc[p].key, s.val = proc[p].val,
           Promised(proc[p], inode) = Reply("pending", NoEntries),
           Promised(s, inode') = Atomic!Answer(SeenCalls[p])
    PROVE Atomic!Apply(p)
  <1>1. SeenCalls[p] = [op |-> s.op, key |-> s.key, val |-> s.val,
                        reply |-> Reply("pending", NoEntries)]
    BY SeenCallsFacts DEF Seen
  <1>2. SeenCalls[p].reply.status = "pending"
    BY <1>1 DEF Reply
  <1>3. Seen(s, inode') = [SeenCalls[p] EXCEPT !.reply = Atomic!Answer(SeenCalls[p])]
    BY <1>1 DEF Seen
  <1>4. SeenCalls' = [SeenCalls EXCEPT ![p].reply = Atomic!Answer(SeenCalls[p])]
    BY <1>3, SeenMoves
  <1> QED
    BY <1>2, <1>4, AtomicSteps

LEMMA ErrorFails ==
    ASSUME NEW p \in Processes, NEW s, Moves(p, s), Store' = Store,
           s.op = proc[p].op, s.key = proc[p].key, s.val = proc[p].val, s.op # "none",
           Promised(s, inode') = Error
    PROVE Atomic!Fail(p)
  <1>1. SeenCalls[p] = [op |-> s.op, key |-> s.key, val |-> s.val,
                        reply |-> Promised(proc[p], inode)]
    BY SeenCallsFacts DEF Seen
  <1>2. Seen(s, inode') = [SeenCalls[p] EXCEPT !.reply = Error]
    BY <1>1 DEF Seen
  <1>3. SeenCalls' = [SeenCalls EXCEPT ![p].reply = Error]
    BY <1>2, SeenMoves
  <1>4. SeenCalls[p].op # "none"
    BY <1>1
  <1> QED
    BY <1>3, <1>4, AtomicSteps

\* The process is in no call.
LEMMA NoCallSeen ==
    ASSUME NEW u, NEW f, ShapeSound(u), u.op = "none"
    PROVE Seen(u, f) = Atomic!NoCall
  <1>1. Atomic!NoCall = [op |-> "none", key |-> "none", val |-> "none",
                         reply |-> Reply("none", NoEntries)]
    BY DEF Atomic!NoCall, Atomic!NoReply, Atomic!Reply, Atomic!NoEntries, Reply, NoEntries
  <1> QED
    BY <1>1 DEF ShapeSound, Seen, Promised

\* The process is back where Cache sees no call.
LEMMA EndReturns ==
    ASSUME NEW p \in Processes, NEW s, Moves(p, s), Store' = Store, ShapeSound(proc[p]),
           s.pc \in {"idle", "purging"}, ShapeSound(s)
    PROVE Atomic!Return(p) \/ UNCHANGED <<Store, SeenCalls>>
  <1>1. \A u, f : ShapeSound(u) /\ u.op = "none" => Seen(u, f) = Atomic!NoCall
    BY NoCallSeen
  <1>2. SeenCalls' = [SeenCalls EXCEPT ![p] = Atomic!NoCall]
    BY <1>1, SeenMoves DEF ShapeSound
  <1>3. CASE proc[p].op = "none"
    <2>1. SeenCalls[p] = Atomic!NoCall
      BY <1>1, <1>3, SeenCallsFacts
    <2> QED
      BY <1>2, <2>1, SeenCallsFacts
  <1>4. CASE proc[p].op # "none"
    <2>1. SeenCalls[p].op # "none"
      BY <1>4, SeenCallsFacts DEF Seen
    <2> QED
      BY <1>2, <2>1, AtomicSteps
  <1> QED
    BY <1>3, <1>4

LEMMA StepMoves ==
    ASSUME FileCacheInv, NEW p \in Processes, NEW f \in [Inodes -> Inode],
           NEW n \in Inodes \cup {NoFile}, NEW s \in Process, Step(p, f, n, s),
           \A i \in Inodes : inode[i].state # "free" => f[i].data = inode[i].data
    PROVE /\ Moves(p, s) /\ name' = n /\ Store' = Content(f, n)
          /\ s.fd # NoFile => inode'[s.fd] = f[s.fd]
  <1>1. /\ proc'[p] = s /\ name' = n /\ Store' = Content(f, n)
        /\ \A q \in Processes : q # p => proc'[q] = proc[q]
        /\ \A q \in Processes : proc'[q].fd # NoFile => inode'[proc'[q].fd] = f[proc'[q].fd]
    BY StepFacts
  <1>2. proc \in [Processes -> Process] /\ proc' = [proc EXCEPT ![p] = s]
    BY DEF FileCacheInv, TypeOK, Step
  <1>3. ASSUME NEW q \in Processes \ {p}, proc[q].fd # NoFile
        PROVE inode'[proc[q].fd].data = inode[proc[q].fd].data
    <2>1. proc[q].fd \in Inodes /\ inode[proc[q].fd].state # "free"
      BY <1>3, ProcessFacts
    <2> QED
      BY <1>1, <1>3, <2>1
  <1> QED
    BY <1>1, <1>2, <1>3 DEF Moves

\* A step that changes no file and not the name.
LEMMA QuietStepMoves ==
    ASSUME FileCacheInv, NEW p \in Processes, NEW s \in Process, Step(p, inode, name, s)
    PROVE /\ Moves(p, s) /\ name' = name /\ Store' = Store
          /\ s.fd # NoFile => inode'[s.fd] = inode[s.fd]
  <1>1. inode \in [Inodes -> Inode] /\ name \in Inodes \cup {NoFile}
    BY DEF FileCacheInv, TypeOK
  <1>2. Store' = Content(inode, name)
    BY <1>1, StepMoves
  <1> QED
    BY <1>1, <1>2, StepMoves DEF Store

\* What is known of a process in a call.
LEMMA RoleFacts ==
    ASSUME AtomicInv, NEW p \in Processes
    PROVE /\ RoleSound(p, proc[p], name, Store) /\ ShapeSound(proc[p])
          /\ Writes(p) => WriterSound(proc[p], name, Store)
          /\ ~Writes(p) => ReaderSound(proc[p])
          /\ proc[p].pc \notin {"idle", "purging"} => proc[p].op # "none"
          /\ proc[p].pc \notin {"idle", "purging", "done"} =>
                proc[p].reply = Reply("pending", NoEntries)
  BY DEF AtomicInv, RoleSound, ShapeSound

\* A call that is over.
LEMMA DoneMoves ==
    ASSUME OneWriter, FileCacheInv, AtomicInv, NEW p \in Processes,
           NEW status \in {"ok", "error"}, NEW entries \in Map,
           proc[p].pc \notin {"idle", "purging"},
           Step(p, inode, name, Done(p, Reply(status, entries)))
    PROVE LET s == Done(p, Reply(status, entries)) IN
          /\ AtomicInv' /\ Moves(p, s) /\ Store' = Store
          /\ s.op = proc[p].op /\ s.key = proc[p].key /\ s.val = proc[p].val /\ s.op # "none"
          /\ Promised(s, inode') = Reply(status, entries)
  <1> DEFINE s == Done(p, Reply(status, entries))
  <1>1. /\ s \in Process /\ s.fd = NoFile /\ s.pc = "done" /\ s.op = proc[p].op
        /\ s.key = proc[p].key /\ s.val = proc[p].val /\ s.purge = proc[p].purge
        /\ s.reply = Reply(status, entries)
    BY DoneSound
  <1>2. Step(p, inode, name, s)
    OBVIOUS
  <1> HIDE DEF s
  <1>3. Moves(p, s) /\ name' = name /\ Store' = Store
    BY <1>1, <1>2, QuietStepMoves
  <1>4. s.op # "none"
    BY <1>1, RoleFacts
  <1>5. RoleSound(p, s, name', Store')
    BY <1>1, <1>4, RoleFacts DEF RoleSound, ShapeSound, WriterSound, ReaderSound
  <1>6. Promised(s, inode') = Reply(status, entries)
    BY <1>1 DEF Promised
  <1>7. AtomicInv'
    BY <1>3, <1>5, MovesKeep
  <1> QED
    BY <1>1, <1>3, <1>4, <1>6, <1>7 DEF s

LEMMA DoneFails ==
    ASSUME OneWriter, FileCacheInv, AtomicInv, NEW p \in Processes,
           proc[p].pc \notin {"idle", "purging"}, Step(p, inode, name, Done(p, Error))
    PROVE AtomicInv' /\ AtomicStep(p)
  <1> DEFINE s == Done(p, Error)
  <1>1. /\ AtomicInv' /\ Moves(p, s) /\ Store' = Store
        /\ s.op = proc[p].op /\ s.key = proc[p].key /\ s.val = proc[p].val /\ s.op # "none"
        /\ Promised(s, inode') = Error
    BY ReplyFacts, DoneMoves
  <1> HIDE DEF s
  <1>2. Atomic!Fail(p)
    BY <1>1, ErrorFails
  <1> QED
    BY <1>1, <1>2 DEF AtomicStep

\* The answer is the one that was promised.
LEMMA DoneUnseen ==
    ASSUME OneWriter, FileCacheInv, AtomicInv, NEW p \in Processes, NEW entries \in Map,
           proc[p].pc \notin {"idle", "purging"},
           Step(p, inode, name, Done(p, Reply("ok", entries))),
           Promised(proc[p], inode) = Reply("ok", entries)
    PROVE AtomicInv' /\ AtomicStep(p)
  <1> DEFINE s == Done(p, Reply("ok", entries))
  <1>1. /\ AtomicInv' /\ Moves(p, s) /\ Store' = Store
        /\ s.op = proc[p].op /\ s.key = proc[p].key /\ s.val = proc[p].val
        /\ Promised(s, inode') = Promised(proc[p], inode)
    BY DoneMoves
  <1> HIDE DEF s
  <1>2. UNCHANGED <<Store, SeenCalls>>
    BY <1>1, StaysUnseen
  <1> QED
    BY <1>1, <1>2 DEF AtomicStep

\* What Cache does for a call, and what it answers.
LEMMA AtomicEffects ==
    ASSUME NEW p \in Processes
    PROVE /\ proc[p].op = "get" =>
               /\ Atomic!Effect(SeenCalls[p]) = Store
               /\ Atomic!Answer(SeenCalls[p]) = Reply("ok", Only(Store, proc[p].key))
          /\ proc[p].op = "list" =>
               /\ Atomic!Effect(SeenCalls[p]) = Store
               /\ Atomic!Answer(SeenCalls[p]) = Reply("ok", Store)
          /\ proc[p].op = "initialize" =>
               /\ Atomic!Effect(SeenCalls[p]) = Store
               /\ Atomic!Answer(SeenCalls[p]) = OK
          /\ proc[p].op = "destroy" =>
               /\ Atomic!Effect(SeenCalls[p]) = NoEntries
               /\ Atomic!Answer(SeenCalls[p]) = OK
          /\ proc[p].op \in {"set", "remove"} =>
               /\ Atomic!Effect(SeenCalls[p]) = Changed(proc[p], Store)
               /\ Atomic!Answer(SeenCalls[p]) = OK
  <1>1. /\ SeenCalls[p].op = proc[p].op /\ SeenCalls[p].key = proc[p].key
        /\ SeenCalls[p].val = proc[p].val
    BY DEF SeenCalls
  <1> QED
    BY <1>1 DEF Atomic!Effect, Atomic!Answer, Atomic!Reply, Atomic!Only, Atomic!NoEntries,
                Atomic!Put, Atomic!Drop, OK, Reply, Only, NoEntries, Put, Drop, Changed

-----------------------------------------------------------------------------
\* A call begins.
LEMMA CallBegins ==
    ASSUME OneWriter, FileCacheInv, AtomicInv, NEW p \in Processes, NEW s, Moves(p, s),
           proc[p].pc \in {"idle", "purging"}, name' = name, Store' = Store,
           s.op \in {"get", "set", "remove", "list", "initialize", "destroy"},
           s.key \in Keys \cup {"none"}, s.val \in Vals \cup {"none"},
           s.reply = Reply("pending", NoEntries), s.fd = NoFile,
           s.pc \in {"open", "lstat"}, s.op = "destroy" => s.pc = "lstat",
           Writes(p) \/ (s.op = "get" /\ ~s.purge)
    PROVE AtomicInv' /\ AtomicStep(p)
  <1>1. RoleSound(p, s, name', Store')
    BY DEF RoleSound, ShapeSound, WriterSound, ReaderSound
  <1>2. AtomicInv'
    BY <1>1, MovesKeep
  <1>3. SeenCalls[p] = Atomic!NoCall
    BY RoleFacts, NoCallSeen, SeenCallsFacts DEF ShapeSound
  <1>4. Seen(s, inode') = [op |-> s.op, key |-> s.key, val |-> s.val,
                           reply |-> Reply("pending", NoEntries)]
    BY DEF Seen, Promised
  <1>5. SeenCalls' = [SeenCalls EXCEPT ![p] = [op |-> s.op, key |-> s.key, val |-> s.val,
                                               reply |-> Reply("pending", NoEntries)]]
    BY <1>4, SeenMoves
  <1>6. Atomic!Invoke(p)
    BY <1>3, <1>5, AtomicSteps
  <1> QED
    BY <1>2, <1>6 DEF AtomicStep

LEMMA StartRefines ==
    ASSUME OneWriter, FileCacheInv, AtomicInv, NEW p \in Processes, At(p, "idle"),
           NEW op \in {"get", "set", "remove", "list", "initialize", "destroy"},
           NEW k \in Keys \cup {"none"}, NEW v \in Vals \cup {"none"}, NEW purge \in BOOLEAN,
           Start(p, op, k, v, purge), op \in {"get", "set", "remove"} => k \in Keys,
           op = "set" => v \in Vals, purge <=> op = "list", Writes(p) \/ op = "get"
    PROVE AtomicInv' /\ AtomicStep(p)
  <1> DEFINE s == proc'[p]
             pc == IF op = "destroy" THEN "lstat" ELSE "open"
  <1>1. /\ proc[p] \in Process /\ proc[p].pc = "idle" /\ proc[p].fd = NoFile
        /\ proc \in [Processes -> Process]
    BY ProcessFacts DEF At, FileCacheInv, TypeOK, CallSound, Holding
  <1>2. /\ proc' = [proc EXCEPT ![p] = [proc[p] EXCEPT !.pc = pc, !.op = op, !.key = k, !.val = v,
                                          !.purge = purge, !.reply = Reply("pending", NoEntries)]]
        /\ inode' = inode /\ name' = name
    BY <1>1 DEF Start
  <1>3. FileCacheInv' /\ Store' = Store
    BY StartKeeps
  <1>4. s \in Process
    BY <1>3 DEF FileCacheInv, TypeOK
  <1>5. /\ s.pc = pc /\ s.op = op /\ s.key = k /\ s.val = v /\ s.purge = purge /\ s.fd = NoFile
        /\ s.reply = Reply("pending", NoEntries)
    <2>1. s = [proc[p] EXCEPT !.pc = pc, !.op = op, !.key = k, !.val = v,
                              !.purge = purge, !.reply = Reply("pending", NoEntries)]
      BY <1>1, <1>2
    <2> QED
      BY <1>1, <2>1, ZenonT(60) DEF Process
  <1>6. proc' = [proc EXCEPT ![p] = s]
    BY <1>1, <1>2
  <1> HIDE DEF s
  <1>7. Moves(p, s)
    BY <1>1, <1>2, <1>4, <1>6 DEF Moves
  <1> QED
    BY <1>1, <1>2, <1>3, <1>5, <1>7, CallBegins

LEMMA BeginRefines ==
    ASSUME OneWriter, FileCacheInv, AtomicInv, NEW p \in Processes, Begin(p)
    PROVE AtomicInv' /\ AtomicStep(p)
  <1>1. At(p, "idle")
    BY DEF Begin
  <1>2. ASSUME NEW op \in {"get", "remove"} \cap Calls[p], NEW k \in Keys,
               Start(p, op, k, "none", FALSE)
        PROVE AtomicInv' /\ AtomicStep(p)
    <2>1. Writes(p) \/ op = "get"
      BY DEF Writes
    <2> QED
      BY <1>1, <1>2, <2>1, StartRefines
  <1>3. ASSUME "set" \in Calls[p], NEW k \in Keys, NEW v \in Vals, Start(p, "set", k, v, FALSE)
        PROVE AtomicInv' /\ AtomicStep(p)
    <2>1. Writes(p)
      BY <1>3 DEF Writes
    <2> QED
      BY <1>1, <1>3, <2>1, StartRefines
  <1>4. ASSUME "purge" \in Calls[p], Start(p, "list", "none", "none", TRUE)
        PROVE AtomicInv' /\ AtomicStep(p)
    <2>1. Writes(p)
      BY <1>4 DEF Writes
    <2> QED
      BY <1>1, <1>4, <2>1, StartRefines
  <1>5. ASSUME NEW op \in {"initialize", "destroy"} \cap Calls[p],
               Start(p, op, "none", "none", FALSE)
        PROVE AtomicInv' /\ AtomicStep(p)
    <2>1. Writes(p)
      BY <1>5 DEF Writes
    <2> QED
      BY <1>1, <1>5, <2>1, StartRefines
  <1> QED
    BY <1>2, <1>3, <1>4, <1>5 DEF Begin

\* Each removal of a purge is a call of its own.
LEMMA PurgeNextRefines ==
    ASSUME OneWriter, FileCacheInv, AtomicInv, NEW p \in Processes, PurgeNext(p)
    PROVE AtomicInv' /\ AtomicStep(p)
  <1>1. PICK k \in proc[p].todo :
            /\ proc' = [proc EXCEPT ![p].pc = "open", ![p].op = "remove", ![p].key = k,
                                    ![p].todo = @ \ {k}, ![p].reply = Reply("pending", NoEntries)]
            /\ inode' = inode /\ name' = name
    BY DEF PurgeNext
  <1> DEFINE s == proc'[p]
  <1>2. /\ proc[p] \in Process /\ CallSound(proc[p]) /\ proc[p].pc = "purging" /\ k \in Keys
        /\ proc \in [Processes -> Process] /\ proc[p].fd = NoFile /\ proc[p].op = "none"
    BY <1>1, ProcessFacts DEF PurgeNext, At, FileCacheInv, TypeOK, CallSound, Holding
  <1>3. FileCacheInv' /\ Store' = Store
    BY PurgeNextKeeps
  <1>4. s \in Process
    BY <1>3 DEF FileCacheInv, TypeOK
  <1>5. proc[p].val = "none" /\ Writes(p)
    BY <1>1, <1>2, RoleFacts DEF ShapeSound, ReaderSound, CallSound
  <1>6. /\ s.pc = "open" /\ s.op = "remove" /\ s.key = k /\ s.val = "none" /\ s.fd = NoFile
        /\ s.reply = Reply("pending", NoEntries)
    BY <1>1, <1>2, <1>5 DEF Process
  <1>7. proc' = [proc EXCEPT ![p] = s]
    BY <1>1, <1>2
  <1> HIDE DEF s
  <1>8. Moves(p, s)
    BY <1>1, <1>2, <1>4, <1>7 DEF Moves
  <1> QED
    BY <1>1, <1>2, <1>3, <1>5, <1>6, <1>8, CallBegins

\* A call returns, or its process dies.
LEMMA EndRefines ==
    ASSUME OneWriter, FileCacheInv, AtomicInv, NEW p \in Processes, NEW s \in Process,
           Step(p, inode, name, s), s.pc \in {"idle", "purging"}, ShapeSound(s), s.fd = NoFile,
           Writes(p) \/ ~s.purge
    PROVE AtomicInv' /\ AtomicStep(p)
  <1>1. Moves(p, s) /\ name' = name /\ Store' = Store
    BY QuietStepMoves
  <1>2. RoleSound(p, s, name', Store')
    BY DEF RoleSound, ShapeSound, WriterSound, ReaderSound
  <1>3. AtomicInv'
    BY <1>1, <1>2, MovesKeep
  <1> QED
    BY <1>1, <1>3, RoleFacts, EndReturns DEF AtomicStep

LEMMA IdleShape ==
    /\ ShapeSound(Idle)
    /\ \A todo \in SUBSET Keys :
         ShapeSound([Idle EXCEPT !.pc = "purging", !.purge = TRUE, !.todo = todo])
  BY ZenonT(60) DEF ShapeSound, Idle, Reply

LEMMA ReturnRefines ==
    ASSUME OneWriter, FileCacheInv, AtomicInv, NEW p \in Processes, Return(p)
    PROVE AtomicInv' /\ AtomicStep(p)
  <1> DEFINE left == proc[p].todo
             s == IF left = {} THEN Idle ELSE [Idle EXCEPT !.pc = "purging", !.purge = TRUE, !.todo = left]
  <1>1. Step(p, inode, name, s) /\ proc[p].pc = "done"
    BY DEF Return, At
  <1>2. /\ s \in Process /\ s.fd = NoFile /\ s.pc \in {"idle", "purging"} /\ ShapeSound(s)
        /\ s.purge => proc[p].todo # {}
    <2>1. left \in SUBSET Keys
      BY ProcessFacts
    <2> QED
      BY <2>1, IdleFacts, IdleShape
  <1>3. Writes(p) \/ proc[p].todo = {}
    BY <1>1, ProcessFacts, RoleFacts DEF CallSound, ReaderSound
  <1> HIDE DEF s
  <1> QED
    BY <1>1, <1>2, <1>3, EndRefines

LEMMA CrashRefines ==
    ASSUME OneWriter, FileCacheInv, AtomicInv, NEW p \in Processes, Crash(p)
    PROVE AtomicInv' /\ AtomicStep(p)
  BY IdleFacts, IdleShape, EndRefines DEF Crash

-----------------------------------------------------------------------------
LEMMA LstatRefines ==
    ASSUME OneWriter, FileCacheInv, AtomicInv, NEW p \in Processes, Lstat(p)
    PROVE AtomicInv' /\ AtomicStep(p)
  <1>1. proc[p].pc = "lstat"
    BY DEF Lstat, At
  <1>2. proc[p] \in Process /\ proc[p].fd = NoFile /\ name \in Inodes \cup {NoFile}
    BY <1>1, ProcessFacts DEF CallSound, Holding
  <1>3. CASE name = NoFile
    BY <1>1, <1>3, DoneFails DEF Lstat
  <1>4. CASE name # NoFile
    <2> DEFINE s == [proc[p] EXCEPT !.pc = "open", !.sb = name]
    <2>1. /\ s \in Process /\ s.pc = "open" /\ s.fd = NoFile /\ s.sb = name /\ s.op = proc[p].op
          /\ s.key = proc[p].key /\ s.val = proc[p].val /\ s.purge = proc[p].purge
          /\ s.reply = proc[p].reply
      BY <1>2, ZenonT(60) DEF Process, PC
    <2>2. Step(p, inode, name, s)
      BY <1>4 DEF Lstat
    <2> HIDE DEF s
    <2>3. Moves(p, s) /\ name' = name /\ Store' = Store
      BY <2>1, <2>2, QuietStepMoves
    <2>4. RoleSound(p, s, name', Store')
      BY <1>1, <2>1, <2>3, RoleFacts DEF RoleSound, ShapeSound, WriterSound, ReaderSound
    <2>5. Promised(s, inode') = Promised(proc[p], inode)
      BY <1>1, <1>2, <2>1 DEF Promised
    <2> QED
      BY <2>1, <2>3, <2>4, <2>5, MovesKeep, StaysUnseen DEF AtomicStep
  <1> QED
    BY <1>3, <1>4

\* Opening the file is the moment of a lookup and of a listing; a file that is
\* created for a writer has as few entries as none.
LEMMA OpenRefines ==
    ASSUME OneWriter, FileCacheInv, AtomicInv, NEW p \in Processes, Open(p)
    PROVE AtomicInv' /\ AtomicStep(p)
  <1>1. At(p, "open") /\ proc[p].pc = "open"
    BY DEF Open, Opener, At
  <1>2. /\ proc[p].fd = NoFile /\ name \in Inodes \cup {NoFile} /\ inode \in [Inodes -> Inode]
        /\ NoFile \notin Inodes /\ CallSound(proc[p])
    BY <1>1, ProcessFacts DEF CallSound, Holding
  <1>3. /\ Promised(proc[p], inode) = Reply("pending", NoEntries) /\ proc[p].op # "none"
        /\ proc[p].reply = Reply("pending", NoEntries)
    BY <1>1, <1>2, RoleFacts DEF Promised
  <1>4. ASSUME NEW i \in Inodes
        PROVE LET s == Opened(p, i) IN
              /\ s \in Process /\ s.pc = "lock" /\ s.fd = i /\ s.op = proc[p].op
              /\ s.key = proc[p].key /\ s.val = proc[p].val /\ s.purge = proc[p].purge
              /\ s.reply = proc[p].reply /\ s.sb = proc[p].sb
    <2>1. proc[p] \in Process
      BY ProcessFacts
    <2> QED
      BY <1>1, <2>1, OpenedFacts DEF Opened, Process
  <1>5. CASE /\ Opener(p, {"get", "list", "set", "remove", "destroy"})
             /\ name # NoFile /\ Step(p, inode, name, Opened(p, name))
    <2> DEFINE s == Opened(p, name)
    <2>1. /\ s \in Process /\ s.pc = "lock" /\ s.fd = name /\ s.op = proc[p].op
          /\ s.key = proc[p].key /\ s.val = proc[p].val /\ s.purge = proc[p].purge
          /\ s.reply = proc[p].reply /\ s.sb = proc[p].sb /\ Step(p, inode, name, s)
          /\ s.op \in {"get", "list", "set", "remove", "destroy"}
      BY <1>2, <1>4, <1>5 DEF Opener
    <2> HIDE DEF s
    <2>2. /\ Moves(p, s) /\ name' = name /\ Store' = Store /\ inode'[s.fd] = inode[name]
          /\ inode[name].data = Store
      BY <1>2, <1>5, <2>1, QuietStepMoves DEF Store, Content
    <2>3. RoleSound(p, s, name', Store')
      BY <1>1, <2>1, <2>2, RoleFacts DEF RoleSound, ShapeSound, WriterSound, ReaderSound
    <2>4. AtomicInv'
      BY <2>2, <2>3, MovesKeep
    <2>5. CASE s.op \in {"get", "list"}
      <3>1. Promised(s, inode') = Reply("ok", IF s.op = "get" THEN Only(Store, s.key) ELSE Store)
        BY <1>2, <1>5, <2>1, <2>2, <2>5 DEF Promised
      <3>2. Promised(s, inode') = Atomic!Answer(SeenCalls[p]) /\ Store' = Atomic!Effect(SeenCalls[p])
        BY <2>1, <2>2, <2>5, <3>1, AtomicEffects
      <3>3. Atomic!Apply(p)
        BY <1>3, <2>1, <2>2, <3>2, EffectApplies
      <3> QED
        BY <2>4, <3>3 DEF AtomicStep
    <2>6. CASE s.op \notin {"get", "list"}
      <3>1. Promised(s, inode') = Promised(proc[p], inode)
        BY <1>3, <2>1, <2>6 DEF Promised
      <3> QED
        BY <2>1, <2>2, <2>4, <3>1, StaysUnseen DEF AtomicStep
    <2> QED
      BY <2>5, <2>6
  <1>6. ASSUME Opener(p, {"set", "remove", "initialize"}), name = NoFile, NEW i \in Inodes,
               inode[i] = Free, Step(p, [inode EXCEPT ![i] = Created], i, Opened(p, i))
        PROVE AtomicInv' /\ AtomicStep(p)
    <2> DEFINE s == Opened(p, i)
               f == [inode EXCEPT ![i] = Created]
    <2>1. /\ s \in Process /\ s.pc = "lock" /\ s.fd = i /\ s.op = proc[p].op
          /\ s.key = proc[p].key /\ s.val = proc[p].val /\ s.purge = proc[p].purge
          /\ s.reply = proc[p].reply /\ Step(p, f, i, s)
          /\ s.op \in {"set", "remove", "initialize"}
      BY <1>4, <1>6 DEF Opener
    <2>2. /\ f \in [Inodes -> Inode] /\ f[i].data = NoEntries
          /\ inode[i].state = "free" /\ \A j \in Inodes : j # i => f[j] = inode[j]
      <3>1. Created \in Inode /\ Created.data = NoEntries
        BY MapMembers DEF Created, Inode
      <3> QED
        BY <1>2, <1>6, <3>1 DEF Free
    <2> HIDE DEF s, f
    <2>3. Moves(p, s) /\ name' = i /\ Store' = Content(f, i)
      BY <2>1, <2>2, StepMoves
    <2>4. Store' = Store
      BY <1>2, <1>6, <2>2, <2>3 DEF Store, Content
    <2>5. Writes(p)
      BY <1>6, RoleFacts DEF Opener, ReaderSound
    <2>6. RoleSound(p, s, name', Store')
      BY <2>1, <2>3, <2>5, <1>3 DEF RoleSound, ShapeSound, WriterSound
    <2>7. Promised(s, inode') = Promised(proc[p], inode)
      BY <1>3, <2>1 DEF Promised
    <2> QED
      BY <2>1, <2>3, <2>4, <2>5, <2>6, <2>7, MovesKeep, StaysUnseen DEF AtomicStep
  <1>7. CASE /\ Opener(p, {"get", "list"}) /\ name = NoFile /\ Step(p, inode, name, Done(p, OK))
    <2> DEFINE s == Done(p, OK)
    <2>1. /\ AtomicInv' /\ Moves(p, s) /\ Store' = Store
          /\ s.op = proc[p].op /\ s.key = proc[p].key /\ s.val = proc[p].val
          /\ Promised(s, inode') = Reply("ok", NoEntries)
      BY <1>1, <1>7, ReplyFacts, DoneMoves
    <2> HIDE DEF s
    <2>2. Store = NoEntries /\ \A k : Only(NoEntries, k) = NoEntries
      BY <1>7 DEF Store, Content, Only, NoEntries
    <2>3. Promised(s, inode') = Atomic!Answer(SeenCalls[p]) /\ Store' = Atomic!Effect(SeenCalls[p])
      BY <1>7, <2>1, <2>2, AtomicEffects DEF Opener
    <2>4. Atomic!Apply(p)
      BY <1>3, <2>1, <2>3, EffectApplies
    <2> QED
      BY <2>1, <2>4 DEF AtomicStep
  <1>8. CASE Step(p, inode, name, Done(p, Error))
    BY <1>1, <1>8, DoneFails
  <1> QED
    BY <1>5, <1>6, <1>7, <1>8 DEF Open

LEMMA LockRefines ==
    ASSUME OneWriter, FileCacheInv, AtomicInv, NEW p \in Processes, Lock(p)
    PROVE AtomicInv' /\ AtomicStep(p)
  <1>1. PICK pc \in {"store", "unlink", "load"} : proc' = [proc EXCEPT ![p].pc = pc]
    BY DEF Lock
  <1> DEFINE s == [proc[p] EXCEPT !.pc = pc]
  <1>2. /\ proc[p] \in Process /\ proc[p].pc = "lock" /\ proc \in [Processes -> Process]
        /\ inode' = inode /\ name' = name
    BY ProcessFacts DEF Lock, At, FileCacheInv, TypeOK
  <1>3. /\ s \in Process /\ s.pc = pc /\ s.fd = proc[p].fd /\ s.op = proc[p].op /\ s.key = proc[p].key
        /\ s.val = proc[p].val /\ s.purge = proc[p].purge /\ s.sb = proc[p].sb
        /\ s.reply = proc[p].reply
    BY <1>2 DEF Process, PC
  <1>4. proc' = [proc EXCEPT ![p] = s]
    BY <1>1, <1>2
  <1> HIDE DEF s
  <1>5. Moves(p, s) /\ Store' = Store
    BY <1>2, <1>3, <1>4 DEF Moves, Store, Content
  <1>6. RoleSound(p, s, name', Store')
    BY <1>2, <1>3, <1>5, RoleFacts DEF RoleSound, ShapeSound, WriterSound, ReaderSound
  <1>7. Promised(s, inode') = Promised(proc[p], inode)
    BY <1>2, <1>3 DEF Promised
  <1> QED
    BY <1>2, <1>3, <1>5, <1>6, <1>7, MovesKeep, StaysUnseen DEF AtomicStep

\* The answer of a reader is the one it was promised when it opened the file.
LEMMA GetObjectRefines ==
    ASSUME OneWriter, FileCacheInv, AtomicInv, NEW p \in Processes, GetObject(p)
    PROVE AtomicInv' /\ AtomicStep(p)
  <1> DEFINE entries == Only(File(p).data, proc[p].key)
  <1>1. /\ proc[p].pc = "load" /\ proc[p].op = "get"
        /\ Step(p, inode, name, Done(p, IF File(p).state = "whole" THEN Reply("ok", entries)
                                        ELSE Error))
    BY DEF GetObject, ReadBy, At
  <1>2. proc[p].key \in Keys /\ File(p).data \in Map /\ proc[p].fd # NoFile
    BY <1>1, ProcessFacts DEF CallSound, Holding, Inode
  <1>3. entries \in Map
    BY <1>2, MapChanges
  <1>4. Promised(proc[p], inode) = Reply("ok", entries)
    BY <1>1, <1>2 DEF Promised, File
  <1> HIDE DEF entries
  <1>5. CASE File(p).state = "whole"
    BY <1>1, <1>3, <1>4, <1>5, DoneUnseen
  <1>6. CASE File(p).state # "whole"
    BY <1>1, <1>6, DoneFails
  <1> QED
    BY <1>5, <1>6

LEMMA FirstObjectRefines ==
    ASSUME OneWriter, FileCacheInv, AtomicInv, NEW p \in Processes, FirstObject(p)
    PROVE AtomicInv' /\ AtomicStep(p)
  <1> DEFINE d == File(p).data
             purgeable == {k \in DOMAIN d : ShouldPurge(d[k])}
             r == Done(p, Reply("ok", d))
             s == [r EXCEPT !.todo = purgeable]
  <1>1. /\ proc[p].pc = "load" /\ proc[p].op = "list"
        /\ Step(p, inode, name, IF File(p).state # "whole" THEN Done(p, Error) ELSE s)
    BY DEF FirstObject, ReadBy, At
  <1>2. d \in Map /\ proc[p].fd # NoFile
    BY <1>1, ProcessFacts DEF CallSound, Holding, Inode
  <1>3. CASE File(p).state # "whole"
    BY <1>1, <1>3, DoneFails
  <1>4. CASE File(p).state = "whole"
    <2>1. /\ r \in Process /\ r.fd = NoFile /\ r.pc = "done" /\ r.op = proc[p].op
          /\ r.key = proc[p].key /\ r.val = proc[p].val /\ r.reply = Reply("ok", d)
      BY <1>1, <1>2, DoneSound
    <2>2. purgeable \subseteq Keys
      BY <1>2, MapMembers
    <2>3. Step(p, inode, name, s)
      BY <1>1, <1>4
    <2> HIDE DEF r, purgeable
    <2>4. /\ s \in Process /\ s.fd = NoFile /\ s.pc = "done" /\ s.op = proc[p].op
          /\ s.key = proc[p].key /\ s.val = proc[p].val /\ s.reply = Reply("ok", d)
      BY <2>1, <2>2 DEF Process
    <2> HIDE DEF s
    <2>5. Moves(p, s) /\ name' = name /\ Store' = Store
      BY <2>3, <2>4, QuietStepMoves
    <2>6. Writes(p)
      BY <1>1, RoleFacts DEF ReaderSound
    <2>7. RoleSound(p, s, name', Store')
      BY <1>1, <2>4, <2>6 DEF RoleSound, ShapeSound, WriterSound
    <2>8. Promised(s, inode') = Promised(proc[p], inode)
      BY <1>1, <1>2, <2>4 DEF Promised, File
    <2> QED
      BY <2>4, <2>5, <2>6, <2>7, <2>8, MovesKeep, StaysUnseen DEF AtomicStep
  <1> QED
    BY <1>3, <1>4

\* What the one writer reads are the entries under the name.
LEMMA SetOrRemoveObjectRefines ==
    ASSUME OneWriter, FileCacheInv, AtomicInv, NEW p \in Processes, SetOrRemoveObject(p)
    PROVE AtomicInv' /\ AtomicStep(p)
  <1> DEFINE read == IF File(p).state = "whole" THEN File(p).data ELSE NoEntries
  <1>1. /\ proc[p].pc = "load" /\ proc[p].op \in {"set", "remove"}
        /\ inode' = inode /\ name' = name
        /\ proc' = [proc EXCEPT ![p].pc = "rename", ![p].data = Updated(p, read)]
    BY DEF SetOrRemoveObject, At, OneWriter
  <1>2. /\ proc[p] \in Process /\ proc \in [Processes -> Process] /\ inode \in [Inodes -> Inode]
        /\ proc[p].fd # NoFile /\ proc[p].fd \in Inodes /\ File(p) \in Inode /\ FilesInv
    BY <1>1, ProcessFacts DEF CallSound, Holding, FileCacheInv, TypeOK
  <1>3. Writes(p) /\ proc[p].fd = name
    BY <1>1, <1>2, RoleFacts DEF ReaderSound, WriterSound
  <1>4. read = Store
    <2>1. File(p).data = Store /\ File(p).state \in {"empty", "whole"}
      BY <1>2, <1>3 DEF File, Store, Content, FilesInv, Inode
    <2>2. File(p).state = "empty" => File(p).data = NoEntries
      BY <1>2 DEF FilesInv, File
    <2> QED
      BY <2>1, <2>2
  <1> HIDE DEF read
  <1>5. FileCacheInv' /\ Store' = Store
    BY SetOrRemoveObjectKeeps
  <1> DEFINE s == proc'[p]
  <1>6. s \in Process
    BY <1>5 DEF FileCacheInv, TypeOK
  <1>7. /\ s.pc = "rename" /\ s.fd = proc[p].fd /\ s.op = proc[p].op /\ s.key = proc[p].key
        /\ s.val = proc[p].val /\ s.reply = proc[p].reply /\ s.data = Updated(p, Store)
    BY <1>1, <1>2, <1>4 DEF Process
  <1>8. proc' = [proc EXCEPT ![p] = s]
    BY <1>1, <1>2
  <1> HIDE DEF s
  <1>9. Moves(p, s)
    BY <1>1, <1>2, <1>6, <1>8 DEF Moves
  <1>10. RoleSound(p, s, name', Store')
    BY <1>1, <1>3, <1>5, <1>7, RoleFacts
    DEF RoleSound, ShapeSound, WriterSound, Updated, Changed
  <1>11. Promised(s, inode') = Promised(proc[p], inode)
    BY <1>1, <1>7 DEF Promised
  <1> QED
    BY <1>3, <1>5, <1>7, <1>9, <1>10, <1>11, MovesKeep, StaysUnseen DEF AtomicStep

\* A call that changes the cache has its effect, and is over.
LEMMA LastStepRefines ==
    ASSUME OneWriter, FileCacheInv, AtomicInv, NEW p \in Processes, Writes(p),
           NEW f \in [Inodes -> Inode], NEW n \in Inodes \cup {NoFile},
           proc[p].pc \in {"rename", "store"}, Step(p, f, n, Done(p, OK)),
           \A i \in Inodes : inode[i].state # "free" => f[i].data = inode[i].data,
           Content(f, n) = Atomic!Effect(SeenCalls[p])
    PROVE AtomicInv' /\ AtomicStep(p)
  <1> DEFINE s == Done(p, OK)
  <1>1. /\ s \in Process /\ s.fd = NoFile /\ s.pc = "done" /\ s.op = proc[p].op
        /\ s.key = proc[p].key /\ s.val = proc[p].val /\ s.reply = OK
    BY ReplyFacts, DoneSound
  <1>2. Step(p, f, n, s)
    OBVIOUS
  <1> HIDE DEF s
  <1>3. Moves(p, s) /\ name' = n /\ Store' = Content(f, n)
    BY <1>1, <1>2, StepMoves
  <1>4. proc[p].op \in {"set", "remove", "initialize"}
    BY ProcessFacts DEF CallSound
  <1>5. AtomicInv'
    <2>1. RoleSound(p, s, name', Store')
      BY <1>1, <1>4 DEF RoleSound, ShapeSound, WriterSound
    <2> QED
      BY <1>3, <2>1, MovesKeep
  <1>6. Promised(proc[p], inode) = Reply("pending", NoEntries)
    BY <1>4, RoleFacts DEF Promised
  <1>7. Promised(s, inode') = Atomic!Answer(SeenCalls[p])
    BY <1>1, <1>4, AtomicEffects DEF Promised
  <1>8. Atomic!Apply(p)
    BY <1>1, <1>3, <1>6, <1>7, EffectApplies
  <1> QED
    BY <1>5, <1>8 DEF AtomicStep

\* The new file takes the place of the old one: the moment of a change.
LEMMA RenameRefines ==
    ASSUME OneWriter, FileCacheInv, AtomicInv, NEW p \in Processes, Rename(p)
    PROVE AtomicInv' /\ AtomicStep(p)
  <1>1. PICK i \in Inodes :
            /\ inode[i] = Free
            /\ Step(p, [inode EXCEPT ![i] = Whole(proc[p].data)], i, Done(p, OK))
    BY DEF Rename
  <1> DEFINE f == [inode EXCEPT ![i] = Whole(proc[p].data)]
  <1>2. proc[p].pc = "rename" /\ proc[p].op \in {"set", "remove"}
    BY ProcessFacts DEF Rename, At, CallSound
  <1>3. proc[p].data \in Map /\ inode \in [Inodes -> Inode] /\ NoFile \notin Inodes
    BY ProcessFacts DEF Process
  <1>4. /\ f \in [Inodes -> Inode] /\ f[i].data = proc[p].data
        /\ inode[i].state = "free" /\ \A j \in Inodes : j # i => f[j] = inode[j]
    <2>1. LET w == Whole(proc[p].data) IN w \in Inode /\ w.data = proc[p].data
      BY <1>3 DEF Whole, Inode
    <2> QED
      BY <1>1, <1>3, <2>1 DEF Free
  <1>5. Step(p, f, i, Done(p, OK))
    BY <1>1
  <1> HIDE DEF f
  <1>6. Content(f, i) = proc[p].data
    BY <1>3, <1>4 DEF Content
  <1>7. Writes(p) /\ proc[p].data = Changed(proc[p], Store)
    BY <1>2, RoleFacts DEF ReaderSound, WriterSound
  <1>8. Content(f, i) = Atomic!Effect(SeenCalls[p])
    BY <1>2, <1>6, <1>7, AtomicEffects
  <1> QED
    BY <1>2, <1>4, <1>5, <1>7, <1>8, LastStepRefines

LEMMA StoreInPlaceRefines ==
    ASSUME OneWriter, FileCacheInv, AtomicInv, NEW p \in Processes, StoreInPlace(p)
    PROVE AtomicInv' /\ AtomicStep(p)
  <1> DEFINE i == proc[p].fd
             f == [inode EXCEPT ![i] = Whole(NoEntries)]
  <1>1. proc[p].pc = "store" /\ proc[p].op = "initialize"
    BY ProcessFacts DEF StoreInPlace, At, CallSound
  <1>2. /\ i \in Inodes /\ inode[i].data = NoEntries /\ inode \in [Inodes -> Inode]
        /\ name \in Inodes \cup {NoFile} /\ NoFile \notin Inodes
    BY <1>1, ProcessFacts DEF CallSound, Holding, ProcessSound, HeldSound
  <1>3. Step(p, f, name, Done(p, OK))
    BY DEF StoreInPlace
  <1>4. /\ f \in [Inodes -> Inode] /\ f[i].data = NoEntries
        /\ \A j \in Inodes : j # i => f[j] = inode[j]
    <2>1. LET w == Whole(NoEntries) IN w \in Inode /\ w.data = NoEntries
      BY MapMembers DEF Whole, Inode
    <2> QED
      BY <1>2, <2>1
  <1>5. Writes(p)
    BY <1>1, RoleFacts DEF ReaderSound
  <1> HIDE DEF f, i
  <1>6. Content(f, name) = Store
    BY <1>2, <1>4 DEF Content, Store
  <1>7. Content(f, name) = Atomic!Effect(SeenCalls[p])
    BY <1>1, <1>6, AtomicEffects
  <1>8. \A j \in Inodes : inode[j].state # "free" => f[j].data = inode[j].data
    BY <1>2, <1>4
  <1> QED
    BY <1>1, <1>2, <1>3, <1>4, <1>5, <1>7, <1>8, LastStepRefines

\* The one writer unlinks the file it has open: the moment of a destruction.
LEMMA UnlinkRefines ==
    ASSUME OneWriter, FileCacheInv, AtomicInv, NEW p \in Processes, Unlink(p)
    PROVE AtomicInv' /\ AtomicStep(p)
  <1> DEFINE s == [proc[p] EXCEPT !.pc = "scrub"]
  <1>1. proc[p].pc = "unlink" /\ proc[p].op = "destroy"
    BY ProcessFacts DEF Unlink, At, CallSound
  <1>2. proc[p] \in Process /\ proc[p].fd # NoFile /\ inode \in [Inodes -> Inode]
    BY <1>1, ProcessFacts DEF CallSound, Holding
  <1>3. Writes(p) /\ proc[p].fd = name /\ proc[p].sb = name
    BY <1>1, <1>2, RoleFacts DEF ReaderSound, WriterSound
  <1>4. Step(p, inode, NoFile, s)
    BY <1>2, <1>3 DEF Unlink
  <1>5. /\ s \in Process /\ s.pc = "scrub" /\ s.op = proc[p].op /\ s.key = proc[p].key
        /\ s.val = proc[p].val /\ s.reply = proc[p].reply
    BY <1>2 DEF Process, PC
  <1> HIDE DEF s
  <1>6. Moves(p, s) /\ Store' = NoEntries
    BY <1>2, <1>4, <1>5, StepMoves DEF Content
  <1>7. AtomicInv'
    <2>1. RoleSound(p, s, name', Store')
      BY <1>1, <1>3, <1>5, RoleFacts DEF RoleSound, ShapeSound, WriterSound
    <2> QED
      BY <1>3, <1>6, <2>1, MovesKeep
  <1>8. Promised(proc[p], inode) = Reply("pending", NoEntries)
    BY <1>1, RoleFacts DEF Promised
  <1>9. Promised(s, inode') = Atomic!Answer(SeenCalls[p]) /\ Store' = Atomic!Effect(SeenCalls[p])
    BY <1>1, <1>5, <1>6, AtomicEffects DEF Promised
  <1>10. Atomic!Apply(p)
    BY <1>5, <1>6, <1>8, <1>9, EffectApplies
  <1> QED
    BY <1>7, <1>10 DEF AtomicStep

LEMMA ScrubRefines ==
    ASSUME OneWriter, FileCacheInv, AtomicInv, NEW p \in Processes, Scrub(p)
    PROVE AtomicInv' /\ AtomicStep(p)
  <1> DEFINE i == proc[p].fd
             f == [inode EXCEPT ![i].state = "scrubbed"]
             s == [proc[p] EXCEPT !.pc = "close"]
  <1>1. proc[p].pc = "scrub" /\ Step(p, f, name, s) /\ proc[p].op = "destroy"
    BY ProcessFacts DEF Scrub, At, CallSound
  <1>2. /\ inode \in [Inodes -> Inode] /\ name \in Inodes \cup {NoFile} /\ proc[p] \in Process
        /\ i \in Inodes /\ inode[i] \in Inode
    BY <1>1, ProcessFacts DEF CallSound, Holding, File
  <1>3. /\ f \in [Inodes -> Inode] /\ f[i].data = inode[i].data
        /\ \A j \in Inodes : j # i => f[j] = inode[j]
    BY <1>2 DEF Inode
  <1>4. /\ s \in Process /\ s.pc = "close" /\ s.op = proc[p].op /\ s.key = proc[p].key
        /\ s.val = proc[p].val /\ s.reply = proc[p].reply
    BY <1>2 DEF Process, PC
  <1> HIDE DEF s, f, i
  <1>5. Moves(p, s) /\ name' = name
    BY <1>1, <1>2, <1>3, <1>4, StepMoves
  <1>6. Store' = Store
    BY ScrubKeeps
  <1>7. Writes(p)
    BY <1>1, RoleFacts DEF ReaderSound
  <1>8. RoleSound(p, s, name', Store')
    BY <1>1, <1>4, <1>7, RoleFacts DEF RoleSound, ShapeSound, WriterSound
  <1>9. Promised(s, inode') = Promised(proc[p], inode)
    BY <1>1, <1>4 DEF Promised
  <1> QED
    BY <1>4, <1>5, <1>6, <1>7, <1>8, <1>9, MovesKeep, StaysUnseen DEF AtomicStep

LEMMA CloseRefines ==
    ASSUME OneWriter, FileCacheInv, AtomicInv, NEW p \in Processes, Close(p)
    PROVE AtomicInv' /\ AtomicStep(p)
  <1>1. proc[p].pc = "close" /\ proc[p].op = "destroy" /\ Step(p, inode, name, Done(p, OK))
    BY ProcessFacts DEF Close, At, CallSound
  <1>2. Promised(proc[p], inode) = OK
    BY <1>1 DEF Promised
  <1> QED
    BY <1>1, <1>2, ReplyFacts, DoneUnseen

LEMMA FailureRefines ==
    ASSUME OneWriter, FileCacheInv, AtomicInv, NEW p \in Processes, ReadFails(p) \/ StepFails(p)
    PROVE AtomicInv' /\ AtomicStep(p)
  <1>1. ~ReadFails(p)
    BY DEF OneWriter, ReadFails
  <1> QED
    BY <1>1, DoneFails DEF StepFails

LEMMA NextRefines ==
    ASSUME OneWriter, FileCacheInv, AtomicInv, [Next]_vars
    PROVE AtomicInv' /\ [Atomic!Next]_(Atomic!vars)
  <1>1. UNCHANGED <<Store, SeenCalls>> => UNCHANGED Atomic!vars
    BY Zenon DEF Atomic!vars, SeenCalls
  <1>2. CASE UNCHANGED vars
    <2>1. UNCHANGED <<Store, SeenCalls>>
      BY <1>2, SeenCallsFacts DEF vars, Store, Content
    <2>2. AtomicInv'
      BY <1>2, <2>1 DEF vars, AtomicInv
    <2> QED
      BY <1>1, <2>1, <2>2
  <1>3. CASE Next
    <2>1. PICK p \in Processes :
            \/ Begin(p) \/ PurgeNext(p) \/ Return(p)
            \/ Lstat(p) \/ Open(p) \/ Lock(p) \/ GetObject(p) \/ FirstObject(p)
            \/ ReadFails(p) \/ SetOrRemoveObject(p) \/ Rename(p) \/ StoreInPlace(p)
            \/ Unlink(p) \/ Scrub(p) \/ Close(p) \/ StepFails(p) \/ Crash(p)
      BY <1>3, Zenon DEF Next
    <2>2. AtomicInv' /\ AtomicStep(p)
      BY <2>1, BeginRefines, PurgeNextRefines, ReturnRefines, LstatRefines, OpenRefines,
         LockRefines, GetObjectRefines, FirstObjectRefines, SetOrRemoveObjectRefines,
         RenameRefines, StoreInPlaceRefines, UnlinkRefines, ScrubRefines, CloseRefines,
         FailureRefines, CrashRefines
    <2> QED
      BY <1>1, <2>2, Zenon DEF AtomicStep, Atomic!Next
  <1> QED
    BY <1>2, <1>3

LEMMA InitRefines ==
    ASSUME Init
    PROVE AtomicInv /\ Atomic!Init
  <1>1. \A p \in Processes : proc[p] = Idle /\ ShapeSound(Idle) /\ Idle.pc = "idle"
                             /\ Idle.fd = NoFile /\ Idle.op = "none" /\ ~Idle.purge
    BY IdleFacts, IdleShape DEF Init, CallSound
  <1>2. AtomicInv
    BY <1>1 DEF AtomicInv, RoleSound, WriterSound, ReaderSound
  <1>3. SeenCalls = [p \in Processes |-> Atomic!NoCall]
    <2>1. \A p \in Processes : Seen(proc[p], inode) = Atomic!NoCall
      BY <1>1, NoCallSeen
    <2> QED
      BY <2>1, SeenCallsFacts
  <1>4. Store = Atomic!NoEntries
    BY DEF Init, Store, Content, NoEntries, Atomic!NoEntries
  <1> QED
    BY <1>2, <1>3, <1>4, Zenon DEF Atomic!Init, SeenCalls

\* The inductive invariant of the refinement: each process is in a call or in none,
\* and the file the one writer has open is the one with the name of the cache, which
\* no other process replaces between its reading and its renaming.
THEOREM OneWriterInvariant ==
    ASSUME OneWriter
    PROVE Spec => [](FileCacheInv /\ AtomicInv)
  <1>1. Init => AtomicInv
    BY InitRefines
  <1>2. FileCacheInv /\ AtomicInv /\ [Next]_vars => AtomicInv'
    BY NextRefines
  <1> QED
    BY <1>1, <1>2, FileCacheInvariant, PTL DEF Spec

\* With one process that writes, and any number that read, the file implements the
\* atomic map that the interface of bid_cache.c promises: a lookup sees the entries
\* of the moment it opened the file, and an update takes effect with its rename,
\* whatever system calls fail and whatever processes crash.
THEOREM FileCacheImplementsCache ==
    ASSUME OneWriter
    PROVE Spec => Linearizable
  <1>1. Init => Atomic!Init
    BY InitRefines
  <1>2. FileCacheInv /\ AtomicInv /\ [Next]_vars => [Atomic!Next]_(Atomic!vars)
    BY NextRefines
  <1> QED
    BY <1>1, <1>2, OneWriterInvariant, PTL DEF Spec, Linearizable, Atomic!Spec
=============================================================================
