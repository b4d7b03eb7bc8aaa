---------------------------- MODULE RegistryCache ----------------------------
(***************************************************************************)
(* The cache in the Windows registry (bid_rgycache.c): configuration the   *)
(* library only reads, by calls that enumerate a key value by value and    *)
(* subkey by subkey while an administrator changes it.  A value is read in *)
(* two calls, its size and then its data; both name it by its index, and   *)
(* the values behind a deleted one move down.                              *)
(***************************************************************************)
EXTENDS Naturals, Sequences, FiniteSets

CONSTANTS
    Names,       \* names of values and of subkeys
    Types,       \* "sz", and "other" for a type the library does not know
    MaxWrites    \* bound on what the administrator does

RegistryCacheAssumption == Types \subseteq {"sz", "other"} /\ MaxWrites \in Nat

VARIABLES
    reg,      \* the cache's key: its values and its subkeys
    call,     \* the reader's call
    writes,   \* how much the administrator has done
    seen,     \* history: values the key that is read has had during the call
    stable    \* history: values it has had during all of the call, and whether
              \* any was deleted

vars == <<reg, call, writes, seen, stable>>

\* A value has a name, a type and a size, which stands for its data.
Value == [name : Names, type : Types, size : 1..2]
Named(s, n) == {i \in DOMAIN s : s[i].name = n}
Remove(s, i) == SubSeq(s, 1, i - 1) \o SubSeq(s, i + 1, Len(s))
Elements(s) == {s[i] : i \in DOMAIN s}

\* The cache's own key is number 0; a subkey has a number that is not used again,
\* so that a handle of a deleted one stays without a key.
Root == 0
NoKey == [values |-> <<>>, subs |-> <<>>]
Exists(r, key) == key = Root \/ \E i \in DOMAIN r.subs : r.subs[i].id = key
ValuesOf(r, key) ==
    IF key = Root THEN r.values
    ELSE IF Exists(r, key) THEN r.subs[CHOOSE i \in DOMAIN r.subs : r.subs[i].id = key].values ELSE <<>>

NoCall ==
    [pc |-> "idle", key |-> Root, top |-> Root, idx |-> 1, sub |-> 1, subName |-> "none",
     name |-> "none", size |-> 0, out |-> {}, subOut |-> {}, err |-> "none"]

Init ==
    /\ reg = NoKey
    /\ call = NoCall
    /\ writes = 0
    /\ seen = {}
    /\ stable = [values |-> {}, deleted |-> FALSE]

-----------------------------------------------------------------------------
(***************************************************************************)
(* The administrator, outside the library.                                 *)
(***************************************************************************)
Follows(r) ==
    LET now == Elements(ValuesOf(r, call.key)) IN
    /\ reg' = r
    /\ writes' = writes + 1
    /\ seen' = seen \cup now
    /\ stable' = [values |-> stable.values \cap now,
                  deleted |-> stable.deleted \/ Len(ValuesOf(r, call.key)) < Len(ValuesOf(reg, call.key))]
    /\ UNCHANGED call

SetIn(s, v) ==
    IF Named(s, v.name) = {} THEN Append(s, v)
    ELSE [s EXCEPT ![CHOOSE i \in Named(s, v.name) : TRUE] = v]

RegWriter ==
    /\ writes < MaxWrites
    /\ \/ \E v \in Value : Follows([reg EXCEPT !.values = SetIn(@, v)])
       \/ \E i \in DOMAIN reg.values : Follows([reg EXCEPT !.values = Remove(@, i)])
       \/ \E n \in Names : Named(reg.subs, n) = {} /\
            Follows([reg EXCEPT !.subs = Append(@, [name |-> n, id |-> writes + 1, values |-> <<>>])])
       \/ \E i \in DOMAIN reg.subs : \/ Follows([reg EXCEPT !.subs = Remove(@, i)])
                                     \/ \E v \in Value :
                                          Follows([reg EXCEPT !.subs[i].values = SetIn(@, v)])

-----------------------------------------------------------------------------
(***************************************************************************)
(* The reader.                                                             *)
(***************************************************************************)
Goes(c) == call' = c /\ UNCHANGED <<reg, writes, seen, stable>>
Fails(err) == Goes([call EXCEPT !.pc = "done", !.err = err, !.out = {}])

\* Begins to enumerate the values of a key.
Enumerates(c, key) ==
    /\ call' = [c EXCEPT !.pc = "value size", !.key = key, !.idx = 1]
    /\ seen' = Elements(ValuesOf(reg, key))
    /\ stable' = [values |-> Elements(ValuesOf(reg, key)), deleted |-> FALSE]
    /\ UNCHANGED <<reg, writes>>

\* _BIDRegistryCacheGetObject: a subkey is enumerated, a value is read.
GetObject(n) ==
    /\ call.pc = "idle"
    /\ IF Named(reg.subs, n) # {}
       THEN LET id == reg.subs[CHOOSE i \in Named(reg.subs, n) : TRUE].id
            IN Enumerates([NoCall EXCEPT !.top = id], id)
       ELSE Goes([NoCall EXCEPT !.pc = "query size", !.name = n])

QuerySize ==
    /\ call.pc = "query size"
    /\ LET at == Named(reg.values, call.name) IN
       IF at = {} THEN Fails("key not found")
       ELSE Goes([call EXCEPT !.pc = "query data", !.size = reg.values[CHOOSE i \in at : TRUE].size])

\* The value that _BIDRegistryMakeValue makes: nothing, and no error, for a type
\* it does not know.
MakeValue(v) == IF v.type = "sz" THEN {v} ELSE {}

QueryData ==
    /\ call.pc = "query data"
    /\ LET at == Named(reg.values, call.name)
           v == reg.values[CHOOSE i \in at : TRUE]
       IN
       IF at = {} THEN Fails("key not found")
       ELSE IF v.size > call.size THEN Fails("buffer too small")
       ELSE Goes([call EXCEPT !.pc = "done", !.out = MakeValue(v), !.err = "ok"])

\* _BIDRegistryCacheFirstObject
FirstObject ==
    /\ call.pc = "idle"
    /\ Enumerates(NoCall, Root)

\* The end of the values: the subkeys follow.  A subkey of the model has none.
ValuesDone ==
    IF call.key = call.top THEN [call EXCEPT !.pc = "subkey", !.sub = 1]
    ELSE [call EXCEPT !.pc = "subkey add"]

\* _BIDRegistryEnumValue, the first call.
EnumValueSize ==
    /\ call.pc = "value size"
    /\ LET values == ValuesOf(reg, call.key) IN
       IF ~Exists(reg, call.key) THEN Fails("invalid parameter")
       ELSE IF call.idx > Len(values) THEN Goes(ValuesDone)
       ELSE Goes([call EXCEPT !.pc = "value data", !.size = values[call.idx].size,
                              !.name = values[call.idx].name])

\* Wrong variant: the value is entered under the name of the first call.
EntryUnderFirstName(v) == [v EXCEPT !.name = call.name]

\* The name is the one that the second call returns.
Entry(v) == v

\* _BIDJsonObjectSet
Entered(s, e) == {x \in s : x.name # e.name} \cup {e}

NextIndex(i) == i + 1

\* The second call.  A value of an unknown type is nothing to _BIDJsonObjectSet,
\* which requires something.
EnumValueData ==
    /\ call.pc = "value data"
    /\ LET values == ValuesOf(reg, call.key)
           v == values[call.idx]
       IN
       IF ~Exists(reg, call.key) THEN Fails("invalid parameter")
       ELSE IF call.idx > Len(values) THEN Goes(ValuesDone)
       ELSE IF v.size > call.size THEN Fails("buffer too small")
       ELSE IF MakeValue(v) = {} THEN Fails("unknown json key")
       ELSE Goes([call EXCEPT !.pc = "value size", !.idx = NextIndex(@),
                              !.out = IF call.key = call.top THEN Entered(@, Entry(v)) ELSE @,
                              !.subOut = IF call.key = call.top THEN @ ELSE Entered(@, Entry(v))])

\* The loop over subkeys: RegEnumKeyExW, then RegOpenKeyExW by name.
EnumSubKey ==
    /\ call.pc = "subkey"
    /\ IF ~Exists(reg, call.key) THEN Fails("invalid parameter")
       ELSE IF call.key # Root \/ call.sub > Len(reg.subs)
       THEN Goes([call EXCEPT !.pc = "done", !.err = "ok"])
       ELSE Goes([call EXCEPT !.pc = "subkey open", !.subName = reg.subs[call.sub].name])
OpenSubKey ==
    /\ call.pc = "subkey open"
    /\ LET at == Named(reg.subs, call.subName) IN
       IF at = {} THEN Fails("key not found")
       ELSE Enumerates([call EXCEPT !.subOut = {}], reg.subs[CHOOSE i \in at : TRUE].id)

\* RegEnumKeyExW finds no subkey of the subkey.  The object of the subkey takes the
\* place of a value of the same name.
AddSubKey ==
    /\ call.pc = "subkey add"
    /\ IF ~Exists(reg, call.key) THEN Fails("invalid parameter")
       ELSE Goes([call EXCEPT !.pc = "subkey", !.sub = @ + 1, !.key = Root, !.subOut = {},
                              !.out = {x \in @ : x.name # call.subName}])

Return ==
    /\ call.pc = "done"
    /\ Goes(NoCall)

Next ==
    \/ RegWriter
    \/ \E n \in Names : GetObject(n)
    \/ FirstObject \/ QuerySize \/ QueryData
    \/ EnumValueSize \/ EnumValueData \/ EnumSubKey \/ OpenSubKey \/ AddSubKey
    \/ Return

Spec == Init /\ [][Next]_vars

-----------------------------------------------------------------------------
\* The registry has one value of a name, and _BIDJsonObjectSet leaves one entry
\* of a name in what an enumeration builds.
TypeOK ==
    /\ Elements(reg.values) \subseteq Value
    /\ \A x, y \in call.out : x.name = y.name => x = y
    /\ Cardinality({reg.values[i].name : i \in DOMAIN reg.values}) = Len(reg.values)

\* Whatever the administrator does between the two calls for a value, what is
\* reported under a name is a value that had that name during the enumeration.
ReportedWasThere ==
    call.pc \in {"value size", "value data"} =>
      (IF call.key = call.top THEN call.out ELSE call.subOut) \subseteq seen

\* When the values of a key have been enumerated, those that were there all the
\* time are reported; one may be missing only if another was deleted meanwhile.
StableReported ==
    call.pc = "subkey add" \/ (call.pc = "subkey" /\ call.sub = 1) =>
      stable.deleted \/ stable.values \subseteq (IF call.key = call.top THEN call.out ELSE call.subOut)
=============================================================================
