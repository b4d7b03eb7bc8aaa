------------------------------ MODULE FileCache ------------------------------
(***************************************************************************)
(* The cache in a file (bid_fcache.c), used by several processes.  A call  *)
(* is a sequence of system calls, each a step of its own: lstat, open,     *)
(* lock, read, rename, unlink, write.  A lock belongs to a process and to  *)
(* a file, not to a name, and an update puts a new file in the place of    *)
(* the one that was locked.  fcntl locks go when the process closes any    *)
(* descriptor of the file: _BIDFileCacheLoad reads through a duplicate and *)
(* closes it, so no lock outlives the reading.                             *)
(***************************************************************************)
EXTENDS FiniteSets

CONSTANTS
    Processes,    \* processes, each with one call at a time
    Calls,        \* the calls each process makes
    Keys,
    Vals,
    Purgeable,    \* values for which the predicate of a purge holds
    Inodes,       \* inode numbers, used again once a file is gone
    Faults        \* what may fail: "fail" a system call, "crash" a process,
                  \* "read" the reading of a good file
CONSTANT NoFile

OpName == {"get", "set", "remove", "purge", "initialize", "destroy"}

ASSUME FileCacheAssumption ==
    /\ Calls \in [Processes -> SUBSET OpName]
    /\ Purgeable \subseteq Vals
    /\ IsFiniteSet(Inodes) /\ NoFile \notin Inodes
    /\ Faults \subseteq {"fail", "crash", "read"}

VARIABLES
    inode,       \* content of each file
    name,        \* the file the name of the cache is linked to
    locks,       \* fcntl locks
    proc,        \* where each process is
    touched,     \* history: keys changed since a process opened its file
    rewritten    \* history: keys changed since a purge opened its file

vars == <<inode, name, locks, proc, touched, rewritten>>

Map == UNION {[S -> Vals] : S \in SUBSET Keys}
NoEntries == [k \in {} |-> k]
Put(s, k, v) == [x \in DOMAIN s \cup {k} |-> IF x = k THEN v ELSE s[x]]
Drop(s, k) == [x \in DOMAIN s \ {k} |-> s[x]]
Only(s, k) == [x \in DOMAIN s \cap {k} |-> s[x]]

\* "empty": nothing, or not all, has been written; "scrubbed": overwritten with
\* zeros (data is then what the file held before).
Inode == [state : {"free", "empty", "whole", "scrubbed"}, data : Map]
Free == [state |-> "free", data |-> NoEntries]
Created == [state |-> "empty", data |-> NoEntries]
Whole(s) == [state |-> "whole", data |-> s]

Reply(status, entries) == [status |-> status, entries |-> entries]
OK == Reply("ok", NoEntries)
Error == Reply("error", NoEntries)

PC == {"idle", "purging", "lstat", "open", "lock", "load", "rename", "store", "unlink",
       "scrub", "close", "done"}
Process ==
    [pc : PC, op : OpName \cup {"list", "none"}, key : Keys \cup {"none"},
     val : Vals \cup {"none"}, fd : Inodes \cup {NoFile}, sb : Inodes \cup {NoFile},
     data : Map, blind : BOOLEAN, purge : BOOLEAN, todo : SUBSET Keys,
     reply : [status : {"none", "pending", "ok", "error"}, entries : Map]]
Idle ==
    [pc |-> "idle", op |-> "none", key |-> "none", val |-> "none", fd |-> NoFile,
     sb |-> NoFile, data |-> NoEntries, blind |-> FALSE, purge |-> FALSE, todo |-> {},
     reply |-> Reply("none", NoEntries)]

Init ==
    /\ inode = [i \in Inodes |-> Free]
    /\ name = NoFile
    /\ locks = {}
    /\ proc = [p \in Processes |-> Idle]
    /\ touched = [p \in Processes |-> {}]
    /\ rewritten = [p \in Processes |-> {}]

\* What a client finds in the file f[n].
Content(f, n) == IF n = NoFile THEN NoEntries ELSE f[n].data
Store == Content(inode, name)

\* Keys whose entries differ.
Differ(s, t) == {k \in Keys : Only(s, k) # Only(t, k)}

\* The files that remain when the name is linked to n and the processes are in
\* the states pr: the other inode numbers are free.
Remaining(f, n, pr) ==
    [i \in Inodes |-> IF i = n \/ \E p \in Processes : pr[p].fd = i THEN f[i] ELSE Free]

\* A step after which the files are f, the name is linked to n and p is in state s.
Step(p, f, n, s) ==
    LET pr == [proc EXCEPT ![p] = s]
        changed == Differ(Store, Content(f, n))
        Opens(q) == q = p /\ s.op = "list" /\ s.pc = "lock"
    IN
    /\ proc' = pr
    /\ inode' = Remaining(f, n, pr)
    /\ name' = n
    /\ touched' = [q \in Processes |-> IF pr[q].fd = NoFile THEN {} ELSE touched[q] \cup changed]
    /\ rewritten' = [q \in Processes |->
                       IF ~pr[q].purge \/ Opens(q) THEN {} ELSE rewritten[q] \cup changed]

\* The call is over: the file is unlocked and closed.
Done(p, reply) ==
    [proc[p] EXCEPT !.pc = "done", !.fd = NoFile, !.sb = NoFile, !.data = NoEntries,
                    !.blind = FALSE, !.reply = reply]

\* Wrong variant: the lock is not given up.
UnlockedNever(p) == locks

Unlocked(p) == {l \in locks : l.proc # p}

At(p, pc) == proc[p].pc = pc
Opener(p, ops) == At(p, "open") /\ proc[p].op \in ops
File(p) == inode[proc[p].fd]

-----------------------------------------------------------------------------
Start(p, op, k, v, purge) ==
    /\ proc' = [proc EXCEPT ![p].pc = IF op = "destroy" THEN "lstat" ELSE "open",
                            ![p].op = op, ![p].key = k, ![p].val = v, ![p].purge = purge,
                            ![p].reply = Reply("pending", NoEntries)]
    /\ UNCHANGED <<inode, name, locks, touched, rewritten>>

\* A client calls the cache.  A purge begins by listing the entries.
Begin(p) ==
    /\ At(p, "idle")
    /\ \E op \in Calls[p] :
         \/ op \in {"get", "remove"} /\ \E k \in Keys : Start(p, op, k, "none", FALSE)
         \/ op = "set" /\ \E k \in Keys, v \in Vals : Start(p, op, k, v, FALSE)
         \/ op = "purge" /\ Start(p, "list", "none", "none", TRUE)
         \/ op \in {"initialize", "destroy"} /\ Start(p, op, "none", "none", FALSE)

\* The entries of a purge are removed one by one, each by a call of its own.
PurgeNext(p) ==
    /\ At(p, "purging")
    /\ \E k \in proc[p].todo :
         /\ proc' = [proc EXCEPT ![p].pc = "open", ![p].op = "remove", ![p].key = k,
                                 ![p].todo = @ \ {k}, ![p].reply = Reply("pending", NoEntries)]
         /\ UNCHANGED <<inode, name, locks, touched, rewritten>>

\* A call returns; a purge ignores the outcome of a removal.
Return(p) ==
    /\ At(p, "done")
    /\ LET left == proc[p].todo IN
       Step(p, inode, name,
            IF left = {} THEN Idle
            ELSE [Idle EXCEPT !.pc = "purging", !.purge = TRUE, !.todo = left])
    /\ UNCHANGED locks

\* _BIDFileCacheErase looks at the name before it opens it.
Lstat(p) ==
    /\ At(p, "lstat")
    /\ Step(p, inode, name,
            IF name = NoFile THEN Done(p, Error)
            ELSE [proc[p] EXCEPT !.pc = "open", !.sb = name])
    /\ UNCHANGED locks

Opened(p, i) == [proc[p] EXCEPT !.pc = "lock", !.fd = i]

Open(p) ==
    /\ \/ /\ Opener(p, {"get", "list", "set", "remove", "destroy"})
          /\ name # NoFile
          /\ Step(p, inode, name, Opened(p, name))
       \/ /\ Opener(p, {"set", "remove", "initialize"})       \* O_CREAT
          /\ name = NoFile
          /\ \E i \in Inodes : /\ inode[i] = Free
                               /\ Step(p, [inode EXCEPT ![i] = Created], i, Opened(p, i))
       \/ /\ Opener(p, {"get", "list"})                       \* CACHE_NOT_FOUND
          /\ name = NoFile
          /\ Step(p, inode, name, Done(p, OK))
       \/ /\ \/ Opener(p, {"destroy"}) /\ name = NoFile
             \/ Opener(p, {"initialize"}) /\ name # NoFile    \* O_EXCL
          /\ Step(p, inode, name, Done(p, Error))
    /\ UNCHANGED locks

\* F_SETLKW waits; only a reader asks for a shared lock.
Lock(p) ==
    LET excl == proc[p].op # "get" IN
    /\ At(p, "lock")
    /\ \A l \in locks : l.file = proc[p].fd /\ l.proc # p => ~l.excl /\ ~excl
    /\ locks' = locks \cup {[proc |-> p, file |-> proc[p].fd, excl |-> excl]}
    /\ proc' = [proc EXCEPT ![p].pc = CASE proc[p].op = "initialize" -> "store"
                                        [] proc[p].op = "destroy" -> "unlink"
                                        [] OTHER -> "load"]
    /\ UNCHANGED <<inode, name, touched, rewritten>>

\* Wrong variant: the comparison with the expiry time the wrong way round.
ShouldPurgeLive(v) == v \notin Purgeable

\* The predicate of a purge.
ShouldPurge(v) == v \in Purgeable

\* Wrong variant: a removal takes a cache without the key for one that is empty.
UpdatedOrEmptied(p, s) ==
    IF proc[p].op = "set" THEN Put(s, proc[p].key, proc[p].val)
    ELSE IF proc[p].key \in DOMAIN s THEN Drop(s, proc[p].key) ELSE NoEntries

\* The entries with the change of a "set" or a "remove".
Updated(p, s) ==
    IF proc[p].op = "set" THEN Put(s, proc[p].key, proc[p].val) ELSE Drop(s, proc[p].key)

\* _BIDFileCacheRead, which gives up the lock, and what the calls make of it.  A
\* reader reports a file that cannot be parsed as an error.
ReadBy(p, op, state) ==
    /\ At(p, "load")
    /\ proc[p].op = op
    /\ Step(p, inode, name, state)
    /\ locks' = Unlocked(p)

GetObject(p) ==
    ReadBy(p, "get", Done(p, IF File(p).state = "whole"
                             THEN Reply("ok", Only(File(p).data, proc[p].key)) ELSE Error))

\* A listing, from which a purge takes the entries to remove.
FirstObject(p) ==
    LET s == File(p).data IN
    ReadBy(p, "list",
           IF File(p).state # "whole" THEN Done(p, Error)
           ELSE [Done(p, Reply("ok", s)) EXCEPT !.todo = {k \in DOMAIN s : ShouldPurge(s[k])}])

\* The reading of a good file fails.
ReadFails(p) ==
    /\ "read" \in Faults
    /\ \E op \in {"get", "list"} : ReadBy(p, op, Done(p, Error))

\* A writer starts with an empty cache if the file cannot be parsed, or read.  The
\* lock is kept if it is the duplication of the descriptor that fails.
SetOrRemoveObject(p) ==
    /\ At(p, "load")
    /\ proc[p].op \in {"set", "remove"}
    /\ \/ /\ locks' = Unlocked(p)
          /\ proc' = [proc EXCEPT ![p].pc = "rename",
                            ![p].data = Updated(p, IF File(p).state = "whole" THEN File(p).data
                                                   ELSE NoEntries)]
       \/ /\ "read" \in Faults
          /\ locks' \in {locks, Unlocked(p)}
          /\ proc' = [proc EXCEPT ![p].pc = "rename", ![p].data = Updated(p, NoEntries),
                                  ![p].blind = TRUE]
    /\ UNCHANGED <<inode, name, touched, rewritten>>

\* Wrong variant: the file is written in place, without the lock.
RenameInPlace(p) ==
    /\ At(p, "rename")
    /\ Step(p, [inode EXCEPT ![proc[p].fd] = Whole(proc[p].data)], name, Done(p, OK))
    /\ locks' = Unlocked(p)

\* _BIDFileCacheWrite: a complete new file takes the place of the old one.
Rename(p) ==
    /\ At(p, "rename")
    /\ \E i \in Inodes :
         /\ inode[i] = Free
         /\ Step(p, [inode EXCEPT ![i] = Whole(proc[p].data)], i, Done(p, OK))
    /\ locks' = Unlocked(p)

\* _BIDFileCacheInitialize writes in place.
StoreInPlace(p) ==
    /\ At(p, "store")
    /\ locks' = Unlocked(p)
    /\ Step(p, [inode EXCEPT ![proc[p].fd] = Whole(NoEntries)], name, Done(p, OK))

\* _BIDFileCacheErase removes whatever the name is linked to now.
Unlink(p) ==
    /\ At(p, "unlink")
    /\ \/ /\ name # NoFile
          /\ proc[p].sb = proc[p].fd
          /\ Step(p, inode, NoFile, [proc[p] EXCEPT !.pc = "scrub"])
          /\ UNCHANGED locks
       \/ /\ name # NoFile
          /\ proc[p].sb # proc[p].fd
          /\ Step(p, inode, NoFile, Done(p, Error))
          /\ locks' = Unlocked(p)
       \/ /\ name = NoFile
          /\ Step(p, inode, name, Done(p, Error))
          /\ locks' = Unlocked(p)

Scrub(p) ==
    /\ At(p, "scrub")
    /\ Step(p, [inode EXCEPT ![proc[p].fd].state = "scrubbed"], name,
            [proc[p] EXCEPT !.pc = "close"])
    /\ UNCHANGED locks

Close(p) ==
    /\ At(p, "close")
    /\ locks' = Unlocked(p)
    /\ Step(p, inode, name, Done(p, OK))

\* A system call fails, and with it the call.
StepFails(p) ==
    /\ "fail" \in Faults
    /\ proc[p].pc \notin {"idle", "purging", "done"}
    /\ locks' = Unlocked(p)
    /\ Step(p, inode, name, Done(p, Error))

Crash(p) ==
    /\ "crash" \in Faults
    /\ ~At(p, "idle")
    /\ locks' = Unlocked(p)
    /\ Step(p, inode, name, Idle)

Next ==
    \E p \in Processes :
        \/ Begin(p) \/ PurgeNext(p) \/ Return(p)
        \/ Lstat(p) \/ Open(p) \/ Lock(p) \/ GetObject(p) \/ FirstObject(p)
        \/ ReadFails(p) \/ SetOrRemoveObject(p) \/ Rename(p) \/ StoreInPlace(p) \/ Unlink(p) \/ Scrub(p) \/ Close(p)
        \/ StepFails(p) \/ Crash(p)

Spec == Init /\ [][Next]_vars

-----------------------------------------------------------------------------
\* Every variable holds a value of its kind, and a process that is not between
\* open and close has no lock left.
TypeOK ==
    /\ inode \in [Inodes -> Inode]
    /\ name \in Inodes \cup {NoFile}
    /\ proc \in [Processes -> Process]
    /\ touched \in [Processes -> SUBSET Keys]
    /\ rewritten \in [Processes -> SUBSET Keys]
    /\ \A l \in locks : l.file \in Inodes /\ proc[l.proc].fd = l.file /\ l.excl \in BOOLEAN

\* The answer a call in progress is bound to give unless it fails: a reader has it
\* once it has opened the file, whose content no longer changes.
Promise(p) ==
    CASE At(p, "done") -> proc[p].reply
      [] proc[p].op = "get" /\ proc[p].fd # NoFile -> Reply("ok", Only(File(p).data, proc[p].key))
      [] proc[p].op = "list" /\ proc[p].fd # NoFile -> Reply("ok", File(p).data)
      [] proc[p].pc \in {"scrub", "close"} -> OK
      [] OTHER -> proc[p].reply

Atomic == INSTANCE Cache
    WITH Clients <- Processes, store <- Store,
         call <- [p \in Processes |->
                    [op |-> proc[p].op, key |-> proc[p].key, val |-> proc[p].val,
                     reply |-> Promise(p)]]

\* With one process that writes, the file behaves like an atomic map: a reader sees
\* the entries of one moment of its call, also across updates, purges, crashes and
\* the destruction of the file it reads.
Linearizable == Atomic!Spec

\* With several writers, an entry changes by a call for its key, by the destruction
\* of the cache, or because a writer puts back what it read before the entry was
\* changed, or could not read at all.
LostOnlyByOverlap ==
    [][\A k \in Differ(Store, Store') :
         \E p \in Processes :
            \/ At(p, "unlink") /\ proc'[p].pc # "unlink"
            \/ /\ At(p, "rename") /\ proc'[p].pc = "done"
               /\ proc[p].key = k \/ k \in touched[p] \/ proc[p].blind]_vars

\* A purge removes an entry that is not purgeable only if the entry was written
\* after the purge had opened the file to list it.
PurgeSparesLive ==
    [][\A p \in Processes :
         At(p, "rename") /\ proc[p].purge /\ proc'[p].pc = "done" /\ proc'[p].reply = OK =>
            \A k \in {proc[p].key} \cap DOMAIN Store :
                Store[k] \in Purgeable \/ k \in rewritten[p]]_vars
=============================================================================
