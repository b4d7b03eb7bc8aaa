-------------------------------- MODULE Cache --------------------------------
(***************************************************************************)
(* What the interface of bid_cache.c promises its clients: a map from keys *)
(* to values on which every call takes effect at one moment between its    *)
(* invocation and its return, or fails.                                    *)
(***************************************************************************)
CONSTANTS Clients, Keys, Vals

VARIABLES
    store,   \* a function from some of the keys to values
    call     \* the call each client is in, and its answer once it is known

NoEntries == [k \in {} |-> k]
Put(s, k, v) == [x \in DOMAIN s \cup {k} |-> IF x = k THEN v ELSE s[x]]
Drop(s, k) == [x \in DOMAIN s \ {k} |-> s[x]]
Only(s, k) == [x \in DOMAIN s \cap {k} |-> s[x]]

\* Entries that an answer reports: none means, to a "get", that there is no such key.
Reply(status, entries) == [status |-> status, entries |-> entries]
NoReply == Reply("none", NoEntries)
NoCall == [op |-> "none", key |-> "none", val |-> "none", reply |-> NoReply]

Effect(c) ==
    CASE c.op = "set" -> Put(store, c.key, c.val)
      [] c.op = "remove" -> Drop(store, c.key)
      [] c.op = "destroy" -> NoEntries
      [] OTHER -> store

Answer(c) ==
    CASE c.op = "get" -> Reply("ok", Only(store, c.key))
      [] c.op = "list" -> Reply("ok", store)
      [] OTHER -> Reply("ok", NoEntries)

Invoke(p) ==
    /\ call[p] = NoCall
    /\ \E op \in {"get", "set", "remove", "list", "initialize", "destroy"} :
       \E k \in Keys \cup {"none"}, v \in Vals \cup {"none"} :
         call' = [call EXCEPT ![p] =
                    [op |-> op, key |-> k, val |-> v, reply |-> Reply("pending", NoEntries)]]
    /\ UNCHANGED store

\* The moment at which the call takes effect.
Apply(p) ==
    /\ call[p].reply.status = "pending"
    /\ store' = Effect(call[p])
    /\ call' = [call EXCEPT ![p].reply = Answer(call[p])]

\* The call fails; what it did, if it did anything, remains.
Fail(p) ==
    /\ call[p].op # "none"
    /\ call' = [call EXCEPT ![p].reply = Reply("error", NoEntries)]
    /\ UNCHANGED store

\* The call returns, or its process dies.
Return(p) ==
    /\ call[p].op # "none"
    /\ call' = [call EXCEPT ![p] = NoCall]
    /\ UNCHANGED store

Init ==
    /\ store = NoEntries
    /\ call = [p \in Clients |-> NoCall]

Next == \E p \in Clients : Invoke(p) \/ Apply(p) \/ Fail(p) \/ Return(p)

vars == <<store, call>>
Spec == Init /\ [][Next]_vars
=============================================================================
