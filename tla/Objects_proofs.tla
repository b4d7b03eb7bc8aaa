---------------------------- MODULE Objects_proofs ----------------------------
(***************************************************************************)
(* Theorems about single calls and the objects they work on.               *)
(*   NameAttributes  for any processes, providers, names and attributes:   *)
(*                   what is authenticated, what is disabled, and what a   *)
(*                   token restores.                                       *)
(*   Credentials     for any credentials, subjects and options: the copy   *)
(*                   a context works with, and what the caller is shown.   *)
(*   RegistryCache   for any names and any number of writes: what a reader *)
(*                   finds while an administrator changes the key.         *)
(***************************************************************************)
EXTENDS MCObjects, SequenceTheorems, NaturalsInduction, WellFoundedInduction, TLAPS

(***************************************************************************)
(* NameAttributes: sequences of attributes.                                *)
(***************************************************************************)

AnAttribute == [id : (Kinds \cup {"local"}) \X (Ids \cup {"r"}), src : Sources]
AProvider == [attrs : Seq(AnAttribute), auth : BOOLEAN, there : BOOLEAN]

LEMMA LeastIndex ==
    ASSUME NEW I \in SUBSET Nat, I # {}
    PROVE  \E i \in I : \A j \in I : i <= j
  <1>1. PICK i \in I : \A j \in I : <<j, i>> \notin OpToRel(<, Nat)
    BY WFMin, NatLessThanWellFounded, Zenon
  <1>2. \A j \in I : ~(j < i)
    BY <1>1, Zenon DEF OpToRel
  <1> QED
    BY <1>2

\* An attribute that is there has a first value.
LEMMA FirstFacts ==
    ASSUME NEW s \in Seq(AnAttribute), NEW id, Has(s, id)
    PROVE  First(s, id) \in DOMAIN s /\ s[First(s, id)].id = id
  <1> DEFINE I == {i \in DOMAIN s : s[i].id = id}
             IsFirst(i) == i \in DOMAIN s /\ s[i].id = id /\ \A j \in 1 .. i - 1 : s[j].id # id
  <1>1. I \in SUBSET Nat /\ I # {}
    BY DEF Has
  <1>2. PICK i \in I : \A j \in I : i <= j
    BY <1>1, LeastIndex
  <1>3. IsFirst(i)
    BY <1>2
  <1>4. IsFirst(First(s, id))
    BY <1>3, Zenon DEF First
  <1> QED
    BY <1>4

\* Removing the first attribute leaves a sequence of attributes.
LEMMA RemoveFirstAttribute ==
    ASSUME NEW s \in Seq(AnAttribute), s # << >>
    PROVE  RemoveAt(s, 1) \in Seq(AnAttribute)
  <1>1. SubSeq(s, 1, 0) \in Seq(AnAttribute) /\ SubSeq(s, 2, Len(s)) \in Seq(AnAttribute)
    BY SubSeqProperties
  <1>2. RemoveAt(s, 1) = SubSeq(s, 1, 0) \o SubSeq(s, 2, Len(s))
    BY DEF RemoveAt
  <1> QED
    BY <1>1, <1>2, ConcatProperties

(***************************************************************************)
(* NameAttributes: the invariant.                                          *)
(***************************************************************************)

\* Attributes that are reported as authenticated are all from the issuer.
LocalSound(l) ==
    /\ l \in AProvider
    /\ l.auth => \A i \in DOMAIN l.attrs : l.attrs[i].src = "issued"

\* A context that is disabled has no local provider, whatever the process has.
CtxSound(c, p, noLocal) ==
    /\ c = [disabled |-> c.disabled, jwt |-> c.jwt, samlThere |-> c.samlThere, saml |-> c.saml,
            localThere |-> c.localThere, local |-> c.local]
    /\ LocalSound(c.local)
    /\ c.localThere = LocalEnabled(p, c.disabled)
    /\ ~c.localThere => c.local = Absent
    /\ noLocal => c.disabled

IsName(x) ==
    \/ x = NoName
    \/ x = [proc |-> x.proc, mn |-> x.mn, noLocal |-> x.noLocal, ctx |-> x.ctx]

NamesSound ==
    /\ names = [n \in Names |-> names[n]]
    /\ \A n \in Names : IsName(names[n])
    /\ \A n \in Names : HasCtx(n) => CtxSound(names[n].ctx, names[n].proc, names[n].noLocal)

TokenSound(tok) ==
    tok.attrs # NoCtx =>
        /\ tok.attrs = [disabled |-> tok.attrs.disabled, jwt |-> tok.attrs.jwt,
                        localThere |-> tok.attrs.localThere, local |-> tok.attrs.local]
        /\ LocalSound(tok.attrs.local)
        /\ tok.noLocal => tok.attrs.disabled

NamesInv ==
    /\ NamesSound
    /\ \A tok \in tokens : TokenSound(tok)
    /\ LocalAuthentic

-----------------------------------------------------------------------------
\* A name that is changed or made is sound if what it is replaced by is.
LEMMA ReplaceName ==
    ASSUME NamesSound, NEW n \in Names, NEW x, names' = [names EXCEPT ![n] = x], IsName(x),
           UNCHANGED providers,
           x.proc # Nothing /\ x.ctx # NoCtx => CtxSound(x.ctx, x.proc, x.noLocal)
    PROVE  NamesSound'
  <1>1. \A m \in Names : names'[m] = IF m = n THEN x ELSE names[m]
    BY DEF NamesSound
  <1>2. names' = [m \in Names |-> names'[m]]
    BY DEF NamesSound
  <1>3. \A c, p, b : CtxSound(c, p, b) => CtxSound(c, p, b)'
    BY DEF CtxSound, LocalSound, LocalEnabled
  <1>4. \A m \in Names : HasCtx(m)' => IF m = n THEN x.proc # Nothing /\ x.ctx # NoCtx ELSE HasCtx(m)
    BY <1>1 DEF HasCtx, Live
  <1>5. ASSUME NEW m \in Names, HasCtx(m)'
        PROVE  CtxSound(names[m].ctx, names[m].proc, names[m].noLocal)'
    <2>1. CASE m = n
      BY <1>1, <1>3, <1>4, <1>5, <2>1
    <2>2. CASE m # n
      <3>1. names'[m] = names[m] /\ HasCtx(m)
        BY <1>1, <1>4, <1>5, <2>2
      <3>2. CtxSound(names[m].ctx, names[m].proc, names[m].noLocal)
        BY <3>1 DEF NamesSound
      <3> QED
        BY <1>3, <3>1, <3>2
    <2> QED
      BY <2>1, <2>2
  <1> QED
    BY <1>1, <1>2, <1>5 DEF NamesSound

\* A name with a context is a record.
LEMMA CtxFacts ==
    ASSUME NamesSound, NEW n \in Names, HasCtx(n)
    PROVE  /\ names[n] = [proc |-> names[n].proc, mn |-> names[n].mn, noLocal |-> names[n].noLocal,
                          ctx |-> names[n].ctx]
           /\ names[n].ctx # NoCtx /\ names[n].proc # Nothing
           /\ CtxSound(names[n].ctx, names[n].proc, names[n].noLocal)
  BY DEF NamesSound, IsName, HasCtx, Live, NoName

\* A provider that is not there, and what the resolver makes.
LEMMA FixedSound == LocalSound(Absent) /\ LocalSound(Resolved)
  <1>1. [id |-> <<"local", "r">>, src |-> "issued"] \in AnAttribute
    BY DEF AnAttribute, Sources
  <1>2. Absent \in AProvider /\ Resolved \in AProvider
    BY <1>1 DEF AProvider, Absent, Resolved
  <1> QED
    BY <1>2 DEF LocalSound, Absent, Resolved

\* No operation of the local provider makes what the application set authenticated.
LEMMA LocalOperations ==
    ASSUME NEW l, LocalSound(l)
    PROVE  /\ \A kind \in Kinds, id \in Ids : /\ LocalSound(LocalSet(l, <<kind, id>>))
                                              /\ LocalSound(LocalDelete(l, <<kind, id>>))
           /\ LocalSound(LocalCopy(l)) /\ LocalSound(LocalJson(l)) /\ LocalSound(LocalOfJson(l))
           /\ l.there => LocalOfJson(LocalJson(l)) = l
  <1>1. ASSUME NEW kind \in Kinds, NEW id \in Ids
        PROVE  LocalSound(LocalSet(l, <<kind, id>>))
    <2>1. [id |-> <<kind, id>>, src |-> "set"] \in AnAttribute
      BY DEF AnAttribute, Sources
    <2>2. Append(l.attrs, [id |-> <<kind, id>>, src |-> "set"]) \in Seq(AnAttribute)
      BY <2>1, AppendProperties DEF LocalSound, AProvider
    <2> QED
      BY <2>2 DEF LocalSound, AProvider, LocalSet
  <1>2. ASSUME NEW kind \in Kinds, NEW id \in Ids
        PROVE  LocalSound(LocalDelete(l, <<kind, id>>))
    <2> DEFINE i == getAttributeIndex(l.attrs, <<kind, id>>)
    <2>1. l.attrs \in Seq(AnAttribute)
      BY DEF LocalSound, AProvider
    <2>2. i > 0 => i = 1 /\ l.attrs # << >>
      BY <2>1 DEF getAttributeIndex, Has
    <2>3. (IF i > 0 THEN RemoveAt(l.attrs, i) ELSE l.attrs) \in Seq(AnAttribute)
      BY <2>1, <2>2, RemoveFirstAttribute
    <2>4. LocalDelete(l, <<kind, id>>) =
            [l EXCEPT !.attrs = IF i > 0 THEN RemoveAt(l.attrs, i) ELSE l.attrs, !.auth = FALSE]
      BY DEF LocalDelete
    <2> HIDE DEF i
    <2> QED
      BY <2>3, <2>4 DEF LocalSound, AProvider
  <1>3. LocalSound(LocalCopy(l)) /\ LocalSound(LocalOfJson(l))
    BY DEF LocalSound, AProvider, LocalCopy, LocalOfJson
  <1>4. LocalSound(LocalJson(l))
    BY FixedSound DEF LocalJson
  <1>5. l.there => LocalOfJson(LocalJson(l)) = l
    BY DEF LocalSound, AProvider, LocalJson, LocalOfJson
  <1> QED
    BY <1>1, <1>2, <1>3, <1>4, <1>5

\* Contexts that are made: by gssBidContextReady, by duplication and by import.
LEMMA MadeSound ==
    ASSUME NEW p
    PROVE  /\ \A claims : \A d \in BOOLEAN : CtxSound(ContextFor(p, claims, d), p, d)
           /\ \A c, b : CtxSound(c, p, b) => CtxSound(CopyOf(c), p, b)
           /\ \A tok, o : tok.attrs # NoCtx /\ TokenSound(tok) =>
                  CtxSound(Imported(p, tok.attrs, o), p, tok.noLocal)
  <1>1. LocalSound(Absent) /\ LocalSound(Resolved)
    BY FixedSound
  <1>2. ASSUME NEW claims, NEW d \in BOOLEAN
        PROVE  CtxSound(ContextFor(p, claims, d), p, d)
    BY <1>1 DEF CtxSound, ContextFor
  <1>3. ASSUME NEW c, NEW b, CtxSound(c, p, b)
        PROVE  CtxSound(CopyOf(c), p, b)
    BY <1>3, LocalOperations DEF CtxSound, CopyOf
  <1>4. ASSUME NEW tok, NEW o, tok.attrs # NoCtx, TokenSound(tok)
        PROVE  CtxSound(Imported(p, tok.attrs, o), p, tok.noLocal)
    BY <1>1, <1>4, LocalOperations DEF TokenSound, CtxSound, Imported, Uninitialised, Absent
  <1> QED
    BY <1>2, <1>3, <1>4

\* Contexts that are changed by gss_set_name_attribute and gss_delete_name_attribute.
LEMMA ChangedSound ==
    ASSUME NEW c, NEW p, NEW b, CtxSound(c, p, b), NEW kind \in Kinds, NEW id \in Ids
    PROVE  CtxSound(SetIn(c, kind, id), p, b) /\ CtxSound(DeleteIn(c, kind, id), p, b)
  <1>1. LocalSound(LocalSet(c.local, <<kind, id>>)) /\ LocalSound(LocalDelete(c.local, <<kind, id>>))
    BY LocalOperations DEF CtxSound
  <1>2. ASSUME NEW s PROVE CtxSound([c EXCEPT !.saml = s], p, b)
    BY DEF CtxSound
  <1>3. ASSUME NEW l, LocalSound(l), c.localThere PROVE CtxSound([c EXCEPT !.local = l], p, b)
    <2> DEFINE d == [c EXCEPT !.local = l]
    <2>1. /\ d = [disabled |-> c.disabled, jwt |-> c.jwt, samlThere |-> c.samlThere, saml |-> c.saml,
                  localThere |-> c.localThere, local |-> l]
          /\ c.localThere = LocalEnabled(p, c.disabled) /\ (b => c.disabled)
      BY DEF CtxSound
    <2> HIDE DEF d
    <2>2. d.localThere /\ d.localThere = LocalEnabled(p, d.disabled) /\ (b => d.disabled) /\ d.local = l
      BY <1>3, <2>1
    <2> QED
      BY <1>3, <2>1, <2>2 DEF CtxSound, d
  <1>4. CtxSound(SetIn(c, kind, id), p, b)
    <2>1. \/ SetIn(c, kind, id) \in {[c EXCEPT !.saml = SamlAssertionSet],
                                     [c EXCEPT !.saml = SamlAttrSet(c.saml, <<kind, id>>)], c}
          \/ c.localThere /\ SetIn(c, kind, id) = [c EXCEPT !.local = LocalSet(c.local, <<kind, id>>)]
      BY DEF SetIn
    <2> QED
      BY <1>1, <1>2, <1>3, <2>1
  <1>5. CtxSound(DeleteIn(c, kind, id), p, b)
    <2>1. \/ DeleteIn(c, kind, id) \in {[c EXCEPT !.saml = NoAssertion],
                                        [c EXCEPT !.saml = SamlAttrDelete(c.saml, <<kind, id>>)], c}
          \/ c.localThere /\ DeleteIn(c, kind, id) = [c EXCEPT !.local = LocalDelete(c.local, <<kind, id>>)]
      BY DEF DeleteIn
    <2> QED
      BY <1>1, <1>2, <1>3, <2>1
  <1> QED
    BY <1>4, <1>5

\* The answer of gss_get_name_attribute.
LEMMA AnswerSound ==
    ASSUME NEW l, LocalSound(l), NEW id,
           LocalAnswer(l, id).kind = "local", LocalAnswer(l, id).auth
    PROVE  LocalAnswer(l, id).src = "issued"
  <1>1. l.attrs \in Seq(AnAttribute)
    BY DEF LocalSound, AProvider
  <1>2. Has(l.attrs, id)
    BY DEF LocalAnswer, NoAnswer, Nothing
  <1>3. First(l.attrs, id) \in DOMAIN l.attrs
    BY <1>1, <1>2, FirstFacts
  <1>4. l.auth
    BY <1>2 DEF LocalAnswer
  <1> QED
    BY <1>2, <1>3, <1>4 DEF LocalSound, LocalAnswer

(***************************************************************************)
(* NameAttributes: the steps.                                              *)
(***************************************************************************)

\* Names and providers that stay as they are; an answer that is none.
LEMMA SameNames ==
    ASSUME NamesSound, UNCHANGED <<providers, names>>
    PROVE  NamesSound'
  BY DEF NamesSound, IsName, HasCtx, Live, CtxSound, LocalSound, LocalEnabled

LEMMA SameTokens ==
    ASSUME \A tok \in tokens : TokenSound(tok), UNCHANGED tokens
    PROVE  (\A tok \in tokens : TokenSound(tok))'
  BY DEF TokenSound, LocalSound

LEMMA NoAnswerSound ==
    ASSUME answer' = NoAnswer
    PROVE  LocalAuthentic'
  BY DEF LocalAuthentic, NoAnswer, Nothing

LEMMA EstablishStep ==
    ASSUME NamesInv, NEW p \in Procs, NEW n \in Names, NEW d \in BOOLEAN, Establish(p, n, d)
    PROVE  NamesInv'
  <1>1. PICK claims : names' = [names EXCEPT ![n] =
                          [proc |-> p, mn |-> TRUE, noLocal |-> d, ctx |-> ContextFor(p, claims, d)]]
    BY DEF Establish
  <1> DEFINE x == [proc |-> p, mn |-> TRUE, noLocal |-> d, ctx |-> ContextFor(p, claims, d)]
  <1>2. IsName(x) /\ CtxSound(x.ctx, x.proc, x.noLocal)
    <2>1. CtxSound(ContextFor(p, claims, d), p, d)
      BY MadeSound
    <2>2. x.ctx = ContextFor(p, claims, d) /\ x.proc = p /\ x.noLocal = d
      OBVIOUS
    <2>3. IsName(x)
      BY DEF IsName
    <2> HIDE DEF x
    <2> QED
      BY <2>1, <2>2, <2>3
  <1>3. UNCHANGED <<providers, tokens>> /\ answer' = NoAnswer
    BY DEF Establish
  <1> HIDE DEF x
  <1>4. NamesSound'
    BY <1>1, <1>2, <1>3, ReplaceName DEF NamesInv, x
  <1> QED
    BY <1>3, <1>4, SameTokens, NoAnswerSound DEF NamesInv

LEMMA ImportNameStep ==
    ASSUME NamesInv, NEW p \in Procs, NEW n \in Names, ImportName(p, n)
    PROVE  NamesInv'
  <1> DEFINE x == [proc |-> p, mn |-> FALSE, noLocal |-> FALSE, ctx |-> NoCtx]
  <1>1. IsName(x) /\ x.ctx = NoCtx
    BY DEF IsName
  <1>2. names' = [names EXCEPT ![n] = x] /\ UNCHANGED <<providers, tokens>> /\ answer' = NoAnswer
    BY DEF ImportName
  <1> HIDE DEF x
  <1>3. NamesSound'
    BY <1>1, <1>2, ReplaceName DEF NamesInv
  <1> QED
    BY <1>2, <1>3, SameTokens, NoAnswerSound DEF NamesInv

\* The name is what the token says, in whichever process it is imported.
LEMMA ImportExportNameStep ==
    ASSUME NamesInv, NEW p \in Procs, NEW n \in Names, ImportExportName(p, n)
    PROVE  NamesInv'
  <1>1. PICK tok \in tokens, fresh \in Objects \ InUse :
            names' = [names EXCEPT ![n] =
                [proc |-> p, mn |-> tok.mn, noLocal |-> tok.noLocal,
                 ctx |-> IF tok.attrs = NoCtx THEN NoCtx ELSE Imported(p, tok.attrs, fresh)]]
    BY DEF ImportExportName
  <1> DEFINE x == [proc |-> p, mn |-> tok.mn, noLocal |-> tok.noLocal,
                   ctx |-> IF tok.attrs = NoCtx THEN NoCtx ELSE Imported(p, tok.attrs, fresh)]
  <1>2. TokenSound(tok)
    BY DEF NamesInv
  <1>3. tok.attrs # NoCtx => CtxSound(Imported(p, tok.attrs, fresh), p, tok.noLocal)
    BY <1>2, MadeSound
  <1>4. IsName(x) /\ (x.ctx # NoCtx => CtxSound(x.ctx, x.proc, x.noLocal))
    BY <1>3 DEF IsName
  <1>5. UNCHANGED <<providers, tokens>> /\ answer' = NoAnswer
    BY DEF ImportExportName
  <1> HIDE DEF x
  <1>6. NamesSound'
    BY <1>1, <1>4, <1>5, ReplaceName DEF NamesInv, x
  <1> QED
    BY <1>5, <1>6, SameTokens, NoAnswerSound DEF NamesInv

LEMMA ReleaseNameStep ==
    ASSUME NamesInv, NEW n \in Names, ReleaseName(n)
    PROVE  NamesInv'
  <1>1. names' = [names EXCEPT ![n] = NoName] /\ UNCHANGED <<providers, tokens>> /\ answer' = NoAnswer
    BY DEF ReleaseName
  <1>2. IsName(NoName) /\ NoName.proc = Nothing
    BY DEF IsName, NoName
  <1>3. NamesSound'
    BY <1>1, <1>2, ReplaceName DEF NamesInv
  <1> QED
    BY <1>1, <1>3, SameTokens, NoAnswerSound DEF NamesInv

\* Calls on claims change the JSON objects only.
LEMMA ClaimStep ==
    ASSUME NamesInv, NEW t \in Threads,
           (\E n \in Names : Begin(t, n)) \/ SetClaim(t) \/ DeleteClaim(t) \/ GetClaim(t)
    PROVE  NamesInv'
  <1>1. UNCHANGED <<providers, names, tokens>> /\ (answer' = NoAnswer \/ answer' = answer)
    BY DEF Begin, SetClaim, DeleteClaim, GetClaim, End
  <1>2. LocalAuthentic'
    BY <1>1, NoAnswerSound DEF NamesInv, LocalAuthentic
  <1> QED
    BY <1>1, <1>2, SameNames, SameTokens DEF NamesInv

\* A name whose context is replaced.
LEMMA ReplaceCtx ==
    ASSUME NamesSound, UNCHANGED providers, NEW n \in Names, HasCtx(n), NEW c,
           names' = [names EXCEPT ![n].ctx = c],
           CtxSound(c, names[n].proc, names[n].noLocal)
    PROVE  NamesSound'
  <1> DEFINE x == [names[n] EXCEPT !.ctx = c]
  <1>1. x = [proc |-> names[n].proc, mn |-> names[n].mn, noLocal |-> names[n].noLocal, ctx |-> c]
    <2>1. PICK y : y = names[n]
      OBVIOUS
    <2>2. y = [proc |-> y.proc, mn |-> y.mn, noLocal |-> y.noLocal, ctx |-> y.ctx]
      BY <2>1, CtxFacts
    <2>3. [y EXCEPT !.ctx = c] = [proc |-> y.proc, mn |-> y.mn, noLocal |-> y.noLocal, ctx |-> c]
      BY <2>2
    <2> QED
      BY <2>1, <2>3
  <1>2. IsName(x) /\ CtxSound(x.ctx, x.proc, x.noLocal)
    BY <1>1 DEF IsName
  <1>3. names' = [names EXCEPT ![n] = x]
    OBVIOUS
  <1> HIDE DEF x
  <1> QED
    BY <1>2, <1>3, ReplaceName

LEMMA SetNameAttributeStep ==
    ASSUME NamesInv, NEW n \in Names, NEW kind \in Kinds, NEW id \in Ids, SetNameAttribute(n, kind, id)
    PROVE  NamesInv'
  <1>1. /\ HasCtx(n) /\ names' = [names EXCEPT ![n].ctx = SetIn(names[n].ctx, kind, id)]
        /\ UNCHANGED <<providers, tokens>> /\ answer' = NoAnswer
    BY DEF SetNameAttribute
  <1>2. CtxSound(SetIn(names[n].ctx, kind, id), names[n].proc, names[n].noLocal)
    BY <1>1, CtxFacts, ChangedSound DEF NamesInv
  <1>3. NamesSound'
    BY <1>1, <1>2, ReplaceCtx DEF NamesInv
  <1> QED
    BY <1>1, <1>3, SameTokens, NoAnswerSound DEF NamesInv

LEMMA DeleteNameAttributeStep ==
    ASSUME NamesInv, NEW n \in Names, NEW kind \in Kinds, NEW id \in Ids, DeleteNameAttribute(n, kind, id)
    PROVE  NamesInv'
  <1>1. /\ HasCtx(n) /\ names' = [names EXCEPT ![n].ctx = DeleteIn(names[n].ctx, kind, id)]
        /\ UNCHANGED <<providers, tokens>> /\ answer' = NoAnswer
    BY DEF DeleteNameAttribute
  <1>2. CtxSound(DeleteIn(names[n].ctx, kind, id), names[n].proc, names[n].noLocal)
    BY <1>1, CtxFacts, ChangedSound DEF NamesInv
  <1>3. NamesSound'
    BY <1>1, <1>2, ReplaceCtx DEF NamesInv
  <1> QED
    BY <1>1, <1>3, SameTokens, NoAnswerSound DEF NamesInv

LEMMA GetNameAttributeStep ==
    ASSUME NamesInv, NEW n \in Names, NEW kind \in Kinds, NEW id \in Ids, GetNameAttribute(n, kind, id)
    PROVE  NamesInv'
  <1>1. /\ HasCtx(n) /\ UNCHANGED <<providers, names, tokens>>
        /\ answer' = LocalAnswer(names[n].ctx.local, <<kind, id>>)
    BY DEF GetNameAttribute
  <1>2. LocalSound(names[n].ctx.local)
    BY <1>1, CtxFacts DEF NamesInv, CtxSound
  <1>3. LocalAuthentic'
    BY <1>1, <1>2, AnswerSound DEF LocalAuthentic
  <1> QED
    BY <1>1, <1>3, SameNames, SameTokens DEF NamesInv

\* A name with another mechanism and another context.
NameWith(y, v, z) == [y EXCEPT !.mn = v, !.ctx = z]

LEMMA NameWithFields ==
    ASSUME NEW y, y = [proc |-> y.proc, mn |-> y.mn, noLocal |-> y.noLocal, ctx |-> y.ctx],
           NEW v, NEW z
    PROVE  NameWith(y, v, z) = [proc |-> y.proc, mn |-> v, noLocal |-> y.noLocal, ctx |-> z]
  <1>1. PICK u : u = [y EXCEPT !.mn = v]
    OBVIOUS
  <1>2. u = [proc |-> y.proc, mn |-> v, noLocal |-> y.noLocal, ctx |-> y.ctx]
    BY <1>1
  <1>3. [u EXCEPT !.ctx = z] = [proc |-> y.proc, mn |-> v, noLocal |-> y.noLocal, ctx |-> z]
    BY <1>2
  <1>4. [y EXCEPT !.mn = v, !.ctx = z] = [u EXCEPT !.ctx = z]
    BY <1>1
  <1> QED
    BY <1>3, <1>4 DEF NameWith

LEMMA DuplicateNameStep ==
    ASSUME NamesInv, NEW n \in Names, NEW m \in Names, NEW b \in BOOLEAN, DuplicateName(n, m, b)
    PROVE  NamesInv'
  <1> DEFINE x == [names[n] EXCEPT !.mn = @ \/ b,
                                   !.ctx = IF HasCtx(n) THEN CopyOf(@) ELSE NoCtx]
  <1>1. /\ Live(n) /\ names' = [names EXCEPT ![m] = x]
        /\ UNCHANGED <<providers, tokens>> /\ answer' = NoAnswer
    BY DEF DuplicateName, Callable
  <1>2. names[n] = [proc |-> names[n].proc, mn |-> names[n].mn, noLocal |-> names[n].noLocal,
                    ctx |-> names[n].ctx]
    BY <1>1 DEF NamesInv, NamesSound, IsName, Live, NoName
  <1>3. x = [proc |-> names[n].proc, mn |-> names[n].mn \/ b, noLocal |-> names[n].noLocal,
             ctx |-> IF HasCtx(n) THEN CopyOf(names[n].ctx) ELSE NoCtx]
    <2> DEFINE z == IF HasCtx(n) THEN CopyOf(names[n].ctx) ELSE NoCtx
               v == names[n].mn \/ b
    <2>1. x = NameWith(names[n], v, z)
      BY Zenon DEF NameWith
    <2> HIDE DEF x, v, z
    <2>2. x = [proc |-> names[n].proc, mn |-> v, noLocal |-> names[n].noLocal, ctx |-> z]
      BY <1>2, <2>1, NameWithFields
    <2> QED
      BY <2>2, Zenon DEF v, z
  <1>4. HasCtx(n) => CtxSound(CopyOf(names[n].ctx), names[n].proc, names[n].noLocal)
    BY CtxFacts, MadeSound DEF NamesInv
  <1>5. IsName(x) /\ (x.ctx # NoCtx => CtxSound(x.ctx, x.proc, x.noLocal))
    BY <1>3, <1>4 DEF IsName
  <1> HIDE DEF x
  <1>6. NamesSound'
    BY <1>1, <1>5, ReplaceName DEF NamesInv
  <1> QED
    BY <1>1, <1>6, SameTokens, NoAnswerSound DEF NamesInv

\* The token of a disabled name says so.
LEMMA ExportNameStep ==
    ASSUME NamesInv, NEW n \in Names, NEW form, ExportName(n, form)
    PROVE  NamesInv'
  <1> DEFINE a == IF HasCtx(n) /\ form # "plain" THEN Exported(names[n].ctx) ELSE NoCtx
             new == [mn |-> names[n].mn /\ form # "json", noLocal |-> names[n].noLocal, attrs |-> a]
  <1>1. tokens' = {new} /\ UNCHANGED <<providers, names>> /\ answer' = NoAnswer
    BY DEF ExportName
  <1>2. a # NoCtx => HasCtx(n) /\ a = Exported(names[n].ctx)
    OBVIOUS
  <1>3. TokenSound(new)
    <2>1. SUFFICES ASSUME HasCtx(n), a = Exported(names[n].ctx)
                   PROVE  TokenSound(new)
      BY <1>2 DEF TokenSound
    <2> DEFINE c == names[n].ctx
    <2>2. CtxSound(c, names[n].proc, names[n].noLocal)
      BY <2>1, CtxFacts DEF NamesInv
    <2>3. LocalSound(LocalJson(c.local))
      BY <2>2, LocalOperations DEF CtxSound
    <2>4. a = [disabled |-> c.disabled, jwt |-> objects[c.jwt], localThere |-> c.localThere,
               local |-> LocalJson(c.local)]
      BY <2>1 DEF Exported
    <2>5. new.attrs = a /\ new.noLocal = names[n].noLocal /\ (names[n].noLocal => c.disabled)
      BY <2>2 DEF CtxSound
    <2> HIDE DEF a, c, new
    <2> QED
      BY <2>3, <2>4, <2>5 DEF TokenSound
  <1>4. (\A tok \in tokens : TokenSound(tok))'
    BY <1>1, <1>3 DEF TokenSound, LocalSound
  <1> QED
    BY <1>1, <1>4, SameNames, NoAnswerSound DEF NamesInv

-----------------------------------------------------------------------------
LEMMA NamesInitial == ASSUME Init PROVE NamesInv
  <1>1. \A n \in Names : names[n] = NoName
    BY DEF Init
  <1>2. NamesSound
    BY <1>1 DEF Init, NamesSound, IsName, HasCtx, Live, NoName
  <1> QED
    BY <1>2 DEF Init, NamesInv, LocalAuthentic, NoAnswer, Nothing

LEMMA NamesStep == ASSUME NamesInv, [Next]_vars PROVE NamesInv'
  <1>1. CASE UNCHANGED vars
    BY <1>1, SameNames, SameTokens DEF vars, NamesInv, LocalAuthentic
  <1>2. CASE \E p \in Procs, n \in Names, d \in BOOLEAN : Establish(p, n, d)
    BY <1>2, EstablishStep
  <1>3. CASE \E p \in Procs, n \in Names : ImportName(p, n) \/ ImportExportName(p, n)
    BY <1>3, ImportNameStep, ImportExportNameStep
  <1>4. CASE \E n \in Names : ReleaseName(n)
    BY <1>4, ReleaseNameStep
  <1>5. CASE \E t \in Threads :
                (\E n \in Names : Begin(t, n)) \/ SetClaim(t) \/ DeleteClaim(t) \/ GetClaim(t)
    BY <1>5, ClaimStep
  <1>6. CASE \E n \in Names, kind \in Kinds \ {"jwt"}, id \in Ids :
                \/ SetNameAttribute(n, kind, id)
                \/ DeleteNameAttribute(n, kind, id)
                \/ GetNameAttribute(n, kind, id)
    BY <1>6, SetNameAttributeStep, DeleteNameAttributeStep, GetNameAttributeStep
  <1>7. CASE \E n, m \in Names, b \in BOOLEAN : DuplicateName(n, m, b)
    BY <1>7, DuplicateNameStep
  <1>8. CASE \E n \in Names, form \in {"plain", "composite", "json"} : ExportName(n, form)
    BY <1>8, ExportNameStep
  <1> QED
    BY <1>1, <1>2, <1>3, <1>4, <1>5, <1>6, <1>7, <1>8 DEF Next

\* What the invariant says of the names there are: the flag and what a token restores.
LEMMA NamesPromises == ASSUME NamesInv PROVE LocalAuthentic /\ DisabledStaysDisabled /\ ImportRestores
  <1>1. DisabledStaysDisabled
    BY CtxFacts DEF NamesInv, DisabledStaysDisabled, CtxSound, LocalEnabled
  <1>2. ASSUME NEW n \in Names, HasCtx(n)
        PROVE  LET c == names[n].ctx
                   tok == Exported(c)
                   i == Imported(names[n].proc, tok, c.jwt)
               IN  /\ i.disabled = c.disabled
                   /\ tok.jwt = objects[c.jwt]
                   /\ c.local.there => i.local = c.local
                   /\ i.localThere = c.localThere
    <2> DEFINE c == names[n].ctx
               p == names[n].proc
    <2>1. CtxSound(c, p, names[n].noLocal)
      BY <1>2, CtxFacts DEF NamesInv
    <2>2. c.local.there => c.localThere /\ LocalOfJson(LocalJson(c.local)) = c.local
      BY <2>1, LocalOperations DEF CtxSound, Absent
    <2>3. c.localThere = LocalEnabled(p, c.disabled)
      BY <2>1 DEF CtxSound
    <2> HIDE DEF c, p
    <2>4. Exported(c) = [disabled |-> c.disabled, jwt |-> objects[c.jwt],
                         localThere |-> c.localThere, local |-> LocalJson(c.local)]
      BY DEF Exported
    <2>5. /\ Imported(p, Exported(c), c.jwt).disabled = c.disabled
          /\ Imported(p, Exported(c), c.jwt).localThere = LocalEnabled(p, c.disabled)
          /\ LocalEnabled(p, c.disabled) /\ c.localThere =>
                 Imported(p, Exported(c), c.jwt).local = LocalOfJson(LocalJson(c.local))
      BY <2>4 DEF Imported
    <2> QED
      BY <2>2, <2>3, <2>4, <2>5 DEF c, p
  <1>3. ImportRestores
    BY <1>2, Zenon DEF ImportRestores
  <1> QED
    BY <1>1, <1>3 DEF NamesInv

-----------------------------------------------------------------------------
\* NamesInv: every name has a context only of providers it may have, what its
\* local provider says is authenticated is from the issuer, and the same holds of
\* the tokens that names were exported to.
THEOREM NamesInvariant == Spec => []NamesInv
  <1>1. Init => NamesInv
    BY NamesInitial
  <1>2. NamesInv /\ [Next]_vars => NamesInv'
    BY NamesStep
  <1> QED
    BY <1>1, <1>2, PTL DEF Spec

\* NamesFaithful: however many processes, names, attributes and calls there are,
\* gss_get_name_attribute reports no local attribute as authenticated that an
\* application has set, no name made from one without local attributes has a local
\* provider, and a token restores the attributes of the name.
THEOREM NamesAreFaithful == MCSpec => []NamesFaithful
  <1>1. MCInit => (of = "names" => NamesInv)
    BY NamesInitial DEF MCInit, Changes
  <1>2. (of = "names" => NamesInv) /\ [MCNext]_allVars => (of = "names" => NamesInv)'
    <2> SUFFICES ASSUME of = "names" => NamesInv, [MCNext]_allVars, of' = "names"
                 PROVE  NamesInv'
      OBVIOUS
    <2>1. of = "names" /\ [Next]_vars
      BY DEF MCNext, allVars, vars, Changes
    <2> QED
      BY <2>1, NamesStep
  <1>3. (of = "names" => NamesInv) => NamesFaithful
    BY NamesPromises DEF NamesFaithful
  <1> QED
    BY <1>1, <1>2, <1>3, PTL DEF MCSpec

(***************************************************************************)
(* Credentials: the invariant.                                             *)
(***************************************************************************)

\* A credential that is resolved has an assertion.
IsCred(r) ==
    r = [flags |-> r.flags, name |-> r.name, assertion |-> r.assertion, mechanisms |-> r.mechanisms,
         ticketCache |-> r.ticketCache, replayCache |-> r.replayCache, identity |-> r.identity]
CredSound(r) == IsCred(r) /\ ("RESOLVED" \in r.flags => r.assertion # absent)

CredsInv ==
    /\ cred = [c \in Creds |-> cred[c]]
    /\ \A c \in Creds : cred[c] # absent => CredSound(cred[c])

CtxInv ==
    ctx.state # "none" =>
        /\ {"RESOLVED", "INITIATE"} \subseteq ctx.cred.flags
        /\ ctx.cred.assertion # absent
        /\ ctx.cred.name = ctx.subject
        /\ ctx.asked \in {absent, ctx.subject}
        /\ ctx.app \in Creds \cup {absent}
        /\ ctx.state \in {"authenticate", "retry authenticate"}
        /\ ctx.state = "retry authenticate" => ~ctx.reauth

CredentialsInv == CredsInv /\ CtxInv

-----------------------------------------------------------------------------
\* A credential that is replaced by a sound one, or by none.
LEMMA ReplaceCred ==
    ASSUME CredsInv, NEW c \in Creds, NEW r, r = absent \/ CredSound(r), cred' = [cred EXCEPT ![c] = r]
    PROVE  CredsInv'
  <1>1. \A d \in Creds : cred'[d] = IF d = c THEN r ELSE cred[d]
    BY DEF CredsInv
  <1>2. cred' = [d \in Creds |-> cred'[d]]
    BY DEF CredsInv
  <1> QED
    BY <1>1, <1>2 DEF CredsInv, CredSound, IsCred

LEMMA SameCtx == ASSUME CtxInv, UNCHANGED ctx PROVE CtxInv'
  BY DEF CtxInv

LEMMA AllocCredSound ==
    ASSUME NEW how \in Changes
    PROVE  CredSound(Ctx(how)!AllocCred) /\ Ctx(how)!AllocCred.flags = {}
  BY DEF CredSound, IsCred, Ctx!AllocCred

LEMMA ChooseSingle == ASSUME NEW x PROVE (CHOOSE y \in {x} : TRUE) = x
  OBVIOUS

\* A credential with another assertion.
LEMMA CredWithAssertion ==
    ASSUME NEW r, IsCred(r), NEW fs, NEW b
    PROVE  [r EXCEPT !.assertion = b, !.flags = fs]
             = [flags |-> fs, name |-> r.name, assertion |-> b, mechanisms |-> r.mechanisms,
                ticketCache |-> r.ticketCache, replayCache |-> r.replayCache, identity |-> r.identity]
  <1>1. PICK u : u = [r EXCEPT !.assertion = b]
    OBVIOUS
  <1>2. u = [flags |-> r.flags, name |-> r.name, assertion |-> b, mechanisms |-> r.mechanisms,
             ticketCache |-> r.ticketCache, replayCache |-> r.replayCache, identity |-> r.identity]
    BY <1>1 DEF IsCred
  <1>3. [u EXCEPT !.flags = fs]
          = [flags |-> fs, name |-> r.name, assertion |-> b, mechanisms |-> r.mechanisms,
             ticketCache |-> r.ticketCache, replayCache |-> r.replayCache, identity |-> r.identity]
    BY <1>2
  <1>4. [r EXCEPT !.assertion = b, !.flags = fs] = [u EXCEPT !.flags = fs]
    BY <1>1 DEF IsCred
  <1> QED
    BY <1>3, <1>4

\* What a setter returns: nothing, or one credential, which is sound.
SetterSound(S) == S = {} \/ \E x : CredSound(x) /\ S = {x}

\* The setters keep a credential sound.
LEMMA SettersSound ==
    ASSUME NEW how \in Changes, NEW r, CredSound(r), NEW a
    PROVE  /\ SetterSound(Ctx(how)!SetCredAssertion(r, a))
           /\ SetterSound(Ctx(how)!SetCredTicketCacheName(r, a))
           /\ SetterSound(Ctx(how)!SetCredReplayCacheName(r, a))
  <1>1. ASSUME NEW fs, NEW b, "RESOLVED" \in fs => b # absent
        PROVE  CredSound([r EXCEPT !.assertion = b, !.flags = fs])
    <2>1. [r EXCEPT !.assertion = b, !.flags = fs]
             = [flags |-> fs, name |-> r.name, assertion |-> b, mechanisms |-> r.mechanisms,
                ticketCache |-> r.ticketCache, replayCache |-> r.replayCache, identity |-> r.identity]
      BY CredWithAssertion DEF CredSound
    <2> DEFINE x == [r EXCEPT !.assertion = b, !.flags = fs]
    <2> HIDE DEF x
    <2> QED
      BY <1>1, <2>1 DEF CredSound, IsCred, x
  <1>2. "RESOLVED" \notin r.flags => CredSound([r EXCEPT !.assertion = absent, !.flags = r.flags \ {"ASSERTION"}])
    BY <1>1
  <1>3. a # absent => CredSound([r EXCEPT !.assertion = a, !.flags = r.flags \cup {"ASSERTION", "RESOLVED"}])
    BY <1>1
  <1>4. CredSound([r EXCEPT !.ticketCache = a]) /\ CredSound([r EXCEPT !.replayCache = a])
    BY DEF CredSound, IsCred
  <1>5. SetterSound(Ctx(how)!SetCredAssertion(r, a))
    BY <1>2, <1>3 DEF SetterSound, Ctx!SetCredAssertion
  <1> QED
    BY <1>4, <1>5 DEF SetterSound, Ctx!SetCredTicketCacheName, Ctx!SetCredReplayCacheName

\* Every identifier that is exported has a setter.
Arcs(how) ==
    {Ctx(how)!CRED_FLAG, Ctx(how)!CRED_ASSERTION, Ctx(how)!CRED_TICKET_CACHE, Ctx(how)!CRED_REPLAY_CACHE}

LEMMA SetterKnown ==
    ASSUME NEW how \in Changes,
           NEW id \in Arcs(how)
    PROVE  Ctx(how)!SetterOf(id) \in {"flag", "assertion", "ticket cache", "replay cache"}
  <1> DEFINE ops == Ctx(how)!setCredOps
             IsFirst(i) == i \in DOMAIN ops /\ ops[i].arc = id /\ \A j \in 1..(i - 1) : ops[j].arc # id
  <1>1. PICK e1, e2, e3, e4 : /\ e1 = [arc |-> 1, setter |-> "flag"]
                              /\ e2 = [arc |-> 2, setter |-> "assertion"]
                              /\ e3 = [arc |-> 3, setter |-> "ticket cache"]
                              /\ e4 = [arc |-> 3, setter |-> "replay cache"]
    OBVIOUS
  <1>2. ops = <<e1, e2, e3, e4>>
    BY <1>1, Zenon DEF Ctx!setCredOps
  <1> HIDE DEF ops
  <1>a. DOMAIN ops = 1..4 /\ ops[1] = e1 /\ ops[2] = e2 /\ ops[3] = e3 /\ ops[4] = e4
    BY <1>2
  <1>b. e1.arc = 1 /\ e2.arc = 2 /\ e3.arc = 3 /\ e4.arc = 3
    BY <1>1
  <1>c. {e1.setter, e2.setter, e3.setter, e4.setter} = {"flag", "assertion", "ticket cache", "replay cache"}
    BY <1>1
  <1>3. IsFirst(id)
    <2>1. id \in {ops[1].arc, ops[2].arc, ops[3].arc, ops[4].arc}
      BY DEF Arcs, Ctx!CRED_FLAG, Ctx!CRED_ASSERTION, Ctx!CRED_TICKET_CACHE, Ctx!CRED_REPLAY_CACHE, ops
    <2>2. id \in {1, 2, 3}
      BY <1>a, <1>b, <2>1
    <2> QED
      BY <1>a, <1>b, <2>2
  <1>4. Ctx(how)!SetterOf(id)
           = ops[CHOOSE i \in DOMAIN ops : ops[i].arc = id /\ \A j \in 1..(i - 1) : ops[j].arc # id].setter
    BY DEF Ctx!SetterOf, ops
  <1>5. IsFirst(CHOOSE i \in DOMAIN ops : ops[i].arc = id /\ \A j \in 1..(i - 1) : ops[j].arc # id)
    BY <1>3, Zenon
  <1> QED
    <2>1. PICK k : k = CHOOSE i \in DOMAIN ops : ops[i].arc = id /\ \A j \in 1..(i - 1) : ops[j].arc # id
      OBVIOUS
    <2>2. k \in DOMAIN ops
      BY <1>5, <2>1
    <2>3. k \in 1..4
      BY <1>a, <2>2
    <2>4. ops[k] \in {e1, e2, e3, e4}
      BY <1>a, <2>3
    <2> QED
      BY <1>4, <1>c, <2>1, <2>4

LEMMA SetOptionSound ==
    ASSUME NEW how \in Changes, NEW r, CredSound(r), NEW a,
           NEW arc \in Arcs(how)
    PROVE  SetterSound(Ctx(how)!SetOption(r, arc, a))
  <1>1. CASE Ctx(how)!SetterOf(arc) = "flag"
    BY <1>1 DEF SetterSound, Ctx!SetOption, Ctx!SetCredFlag
  <1>2. CASE Ctx(how)!SetterOf(arc) = "assertion"
    BY <1>2, SettersSound DEF Ctx!SetOption
  <1>3. CASE Ctx(how)!SetterOf(arc) = "ticket cache"
    <2>1. Ctx(how)!SetOption(r, arc, a) = Ctx(how)!SetCredTicketCacheName(r, a)
      BY <1>3 DEF Ctx!SetOption
    <2> QED
      BY <2>1, SettersSound
  <1>4. CASE Ctx(how)!SetterOf(arc) = "replay cache"
    <2>1. Ctx(how)!SetOption(r, arc, a) = Ctx(how)!SetCredReplayCacheName(r, a)
      BY <1>4 DEF Ctx!SetOption
    <2> QED
      BY <2>1, SettersSound
  <1> QED
    BY <1>1, <1>2, <1>3, <1>4, SetterKnown

-----------------------------------------------------------------------------
(***************************************************************************)
(* Credentials: the calls, each with what it displays.                     *)
(***************************************************************************)

\* A call on a handle: its credential is replaced, and no dialog is displayed.
LEMMA CallOnHandle ==
    ASSUME CredentialsInv, NEW how \in Changes, NEW c \in Creds, NEW r, r = absent \/ CredSound(r),
           cred' = [cred EXCEPT ![c] = r] \/ cred' = cred, UNCHANGED ctx,
           NEW major, NEW name \in {"acquire", "release", "dictionary", "set flag", "set assertion",
                                    "set ticket cache", "set replay cache"},
           out' = Ctx(how)!Idle(name, c, major)
    PROVE  CredentialsInv' /\ Ctx(how)!LeavesDisplay
  <1>1. CredsInv'
    BY ReplaceCred DEF CredentialsInv, CredsInv, CredSound, IsCred
  <1>2. out'.call # "init"
    BY DEF Ctx!Idle
  <1> QED
    BY <1>1, <1>2, SameCtx DEF CredentialsInv, Ctx!LeavesDisplay

LEMMA AcquireStep ==
    ASSUME CredentialsInv, NEW how \in Changes, Ctx(how)!Acquire
    PROVE  CredentialsInv' /\ Ctx(how)!LeavesDisplay
  <1>1. PICK c \in Creds, u \in Ctx(how)!Usage, ui \in {{}, {"CALLER_UI"}} :
            \E n, m : Ctx(how)!AcquireCred(c, n, m, u, ui)
    BY DEF Ctx!Acquire, Ctx!AddCred
  <1>a. PICK n, m : Ctx(how)!AcquireCred(c, n, m, u, ui)
    BY <1>1
  <1> DEFINE r == [Ctx(how)!AllocCred EXCEPT !.flags = u \cup ui, !.name = n, !.mechanisms = m]
  <1>2. r = [flags |-> u \cup ui, name |-> n, assertion |-> absent, mechanisms |-> m,
             ticketCache |-> absent, replayCache |-> absent, identity |-> absent]
    <2>1. PICK r0 : r0 = [Ctx(how)!AllocCred EXCEPT !.flags = u \cup ui]
      OBVIOUS
    <2>2. r0 = [flags |-> u \cup ui, name |-> absent, assertion |-> absent, mechanisms |-> Ctx(how)!NoOidSet,
                ticketCache |-> absent, replayCache |-> absent, identity |-> absent]
      BY <2>1 DEF Ctx!AllocCred
    <2>3. PICK r1 : r1 = [r0 EXCEPT !.name = n]
      OBVIOUS
    <2>4. r1 = [flags |-> u \cup ui, name |-> n, assertion |-> absent, mechanisms |-> Ctx(how)!NoOidSet,
                ticketCache |-> absent, replayCache |-> absent, identity |-> absent]
      BY <2>2, <2>3
    <2>5. [r1 EXCEPT !.mechanisms = m]
             = [flags |-> u \cup ui, name |-> n, assertion |-> absent, mechanisms |-> m,
                ticketCache |-> absent, replayCache |-> absent, identity |-> absent]
      BY <2>4
    <2>6. r = [r1 EXCEPT !.mechanisms = m]
      BY <2>1, <2>3
    <2> QED
      BY <2>5, <2>6
  <1>3. CredSound(r)
    <2> HIDE DEF r
    <2>1. "RESOLVED" \notin u \cup ui
      BY <1>1 DEF Ctx!Usage
    <2>2. r.flags = u \cup ui
      BY <1>2
    <2> QED
      BY <1>2, <2>1, <2>2 DEF CredSound, IsCred
  <1>4. /\ cred' = [cred EXCEPT ![c] = r] \/ cred' = cred
        /\ UNCHANGED ctx
        /\ \E major : out' = Ctx(how)!Idle("acquire", c, major)
    BY <1>a DEF Ctx!AcquireCred, Ctx!Sets, Ctx!Fails
  <1> HIDE DEF r
  <1> QED
    BY <1>3, <1>4, CallOnHandle

LEMMA ReleaseStep ==
    ASSUME CredentialsInv, NEW how \in Changes, NEW c \in Creds, Ctx(how)!ReleaseCred(c)
    PROVE  CredentialsInv' /\ Ctx(how)!LeavesDisplay
  <1>1. /\ cred' = [cred EXCEPT ![c] = absent]
        /\ UNCHANGED ctx
        /\ out' = Ctx(how)!Idle("release", c, "complete")
    BY DEF Ctx!ReleaseCred, Ctx!Sets
  <1> QED
    BY <1>1, CallOnHandle

LEMMA OptionsStep ==
    ASSUME CredentialsInv, NEW how \in Changes, Ctx(how)!Options
    PROVE  CredentialsInv' /\ Ctx(how)!LeavesDisplay
  <1>1. PICK c \in Creds, arc \in Arcs(how),
             name \in {"set flag", "set assertion", "set ticket cache", "set replay cache"} :
            \E a : Ctx(how)!SetCredOption(name, c, arc, a)
    BY DEF Ctx!Options, Arcs
  <1>a. PICK a : Ctx(how)!SetCredOption(name, c, arc, a)
    BY <1>1
  <1> DEFINE r == IF cred[c] = absent THEN Ctx(how)!AllocCred ELSE cred[c]
             new == Ctx(how)!SetOption(r, arc, a)
             got == IF new = {} THEN r ELSE CHOOSE x \in new : TRUE
  <1>2. CredSound(r)
    BY AllocCredSound DEF CredentialsInv, CredsInv
  <1>3. /\ cred' = [cred EXCEPT ![c] = got]
        /\ UNCHANGED ctx
        /\ \E major : out' = Ctx(how)!Idle(name, c, major)
    BY <1>a DEF Ctx!SetCredOption
  <1> HIDE DEF r
  <1>4. SetterSound(new)
    BY <1>2, SetOptionSound
  <1> HIDE DEF new
  <1>5. CredSound(got)
    BY <1>2, <1>4, ChooseSingle DEF SetterSound
  <1> HIDE DEF got
  <1> QED
    BY <1>3, <1>5, CallOnHandle

LEMMA DeleteStep ==
    ASSUME CredentialsInv, NEW how \in Changes, Ctx(how)!DeleteSecContext
    PROVE  CredentialsInv' /\ Ctx(how)!LeavesDisplay
  <1>1. ctx'.state = "none" /\ UNCHANGED cred /\ out'.call # "init"
    BY DEF Ctx!DeleteSecContext, Ctx!NoContext, Ctx!Idle
  <1> QED
    BY <1>1 DEF CredentialsInv, CredsInv, CredSound, IsCred, CtxInv, Ctx!LeavesDisplay

\* A credential with the entries of a dictionary.
LEMMA CredWithEntries ==
    ASSUME NEW r, CredSound(r), NEW fs, "RESOLVED" \in fs => "RESOLVED" \in r.flags, NEW m, NEW n
    PROVE  /\ CredSound([r EXCEPT !.mechanisms = m, !.flags = fs, !.name = n])
           /\ [r EXCEPT !.mechanisms = m, !.flags = fs, !.name = n].flags = fs
           /\ CredSound([r EXCEPT !.identity = n, !.flags = fs])
  <1>1. PICK u : u = [r EXCEPT !.mechanisms = m]
    OBVIOUS
  <1>2. u = [flags |-> r.flags, name |-> r.name, assertion |-> r.assertion, mechanisms |-> m,
             ticketCache |-> r.ticketCache, replayCache |-> r.replayCache, identity |-> r.identity]
    BY <1>1 DEF CredSound, IsCred
  <1>3. PICK v : v = [u EXCEPT !.flags = fs]
    OBVIOUS
  <1>4. v = [flags |-> fs, name |-> r.name, assertion |-> r.assertion, mechanisms |-> m,
             ticketCache |-> r.ticketCache, replayCache |-> r.replayCache, identity |-> r.identity]
    BY <1>2, <1>3
  <1>5. PICK w : w = [v EXCEPT !.name = n]
    OBVIOUS
  <1>6. w = [flags |-> fs, name |-> n, assertion |-> r.assertion, mechanisms |-> m,
             ticketCache |-> r.ticketCache, replayCache |-> r.replayCache, identity |-> r.identity]
    BY <1>4, <1>5
  <1>7. w = [r EXCEPT !.mechanisms = m, !.flags = fs, !.name = n]
    BY <1>1, <1>3, <1>5
  <1>8. CredSound(w) /\ w.flags = fs
    BY <1>6 DEF CredSound, IsCred
  <1>9. PICK x : x = [r EXCEPT !.identity = n]
    OBVIOUS
  <1>10. x = [flags |-> r.flags, name |-> r.name, assertion |-> r.assertion, mechanisms |-> r.mechanisms,
              ticketCache |-> r.ticketCache, replayCache |-> r.replayCache, identity |-> n]
    BY <1>9 DEF CredSound, IsCred
  <1>11. PICK y : y = [x EXCEPT !.flags = fs]
    OBVIOUS
  <1>12. y = [flags |-> fs, name |-> r.name, assertion |-> r.assertion, mechanisms |-> r.mechanisms,
              ticketCache |-> r.ticketCache, replayCache |-> r.replayCache, identity |-> n]
    BY <1>10, <1>11
  <1>13. y = [r EXCEPT !.identity = n, !.flags = fs]
    BY <1>9, <1>11
  <1>14. CredSound(y)
    BY <1>12 DEF CredSound, IsCred
  <1> QED
    BY <1>7, <1>8, <1>13, <1>14

\* What a dictionary may say of the usage.
LEMMA DictionaryUsage ==
    ASSUME NEW attrs \in OneEntry, NEW how \in Changes
    PROVE  "RESOLVED" \notin attrs.usage
  <1>1. attrs \in Ctx(how)!Dictionary
    BY MCObjectsAssumption DEF Ctx!CredentialsAssumption
  <1>2. attrs.usage \in Ctx(how)!Usage \cup {{}}
    BY <1>1 DEF Ctx!Dictionary
  <1> QED
    BY <1>2 DEF Ctx!Usage

\* What is set before an assertion is refused is sound too.
LEMMA DictionaryStep ==
    ASSUME CredentialsInv, NEW how \in Changes, NEW c \in Creds, NEW attrs \in OneEntry,
           Ctx(how)!SetCredWithCFDictionary(c, attrs)
    PROVE  CredentialsInv' /\ Ctx(how)!LeavesDisplay
  <1> DEFINE r0 == IF cred[c] = absent THEN Ctx(how)!AllocCred ELSE cred[c]
             fs == r0.flags \cup attrs.usage
             m == IF attrs.mech = absent THEN r0.mechanisms ELSE {attrs.mech}
             n == IF attrs.name = absent THEN r0.name ELSE attrs.name
             r1 == [r0 EXCEPT !.mechanisms = m, !.flags = fs, !.name = n]
             r2 == IF attrs.assertion = absent THEN {r1} ELSE Ctx(how)!SetCredAssertion(r1, attrs.assertion)
             r3 == CHOOSE x \in r2 : TRUE
             i == IF attrs.identity = absent THEN r3.identity ELSE attrs.identity
             gs == IF r3.flags \cap {"INITIATE", "ACCEPT"} = {}
                   THEN r3.flags \cup {"INITIATE", "CALLER_UI"}
                   ELSE IF "INITIATE" \in r3.flags THEN r3.flags \cup {"CALLER_UI"} ELSE r3.flags
             r4 == [r3 EXCEPT !.identity = i, !.flags = gs]
             new == IF attrs.mech \in Foreign THEN r0 ELSE IF r2 = {} THEN r1 ELSE r4
  <1>1. /\ cred' = [cred EXCEPT ![c] = new]
        /\ UNCHANGED ctx
        /\ \E major : out' = Ctx(how)!Idle("dictionary", c, major)
    BY Zenon DEF Ctx!SetCredWithCFDictionary
  <1>2. CredSound(r0)
    BY AllocCredSound DEF CredentialsInv, CredsInv
  <1>3. "RESOLVED" \notin attrs.usage
    BY DictionaryUsage
  <1> HIDE DEF r0, m, n
  <1>4. CredSound(r1)
    <2>1. "RESOLVED" \in fs => "RESOLVED" \in r0.flags
      BY <1>3
    <2> HIDE DEF fs
    <2> QED
      BY <1>2, <2>1, CredWithEntries
  <1> HIDE DEF r1
  <1>5. SetterSound(r2)
    <2>1. SetterSound(Ctx(how)!SetCredAssertion(r1, attrs.assertion))
      BY <1>4, SettersSound
    <2>2. SetterSound({r1})
      BY <1>4 DEF SetterSound
    <2> QED
      BY <2>1, <2>2
  <1> HIDE DEF r2
  <1>6. r2 # {} => CredSound(r3)
    BY <1>5, ChooseSingle DEF SetterSound
  <1> HIDE DEF r3, i
  <1>7. r2 # {} => CredSound(r4)
    <2>1. "RESOLVED" \in gs => "RESOLVED" \in r3.flags
      OBVIOUS
    <2> HIDE DEF gs
    <2> QED
      BY <1>6, <2>1, CredWithEntries
  <1> HIDE DEF r4
  <1>8. CredSound(new)
    BY <1>2, <1>4, <1>7
  <1> HIDE DEF new
  <1> QED
    BY <1>1, <1>8, CallOnHandle

-----------------------------------------------------------------------------
(***************************************************************************)
(* Credentials: the contexts.                                              *)
(***************************************************************************)

\* An assertion that is acquired is there, and a dialog that is displayed is not
\* for a caller who displays its own; a second attempt uses no ticket.
LEMMA AcquiredFacts ==
    ASSUME NEW how \in Changes, NEW r, CredSound(r), NEW reauth,
           NEW got \in IF "RESOLVED" \in r.flags THEN Ctx(how)!AssertionFromCred(r)
                       ELSE Ctx(how)!AcquireAssertion(r, reauth),
           got.via # "error"
    PROVE  /\ got.assertion # absent
           /\ got.via = "dialog" => "CALLER_UI" \notin r.flags
           /\ got.via = "reauth" => ~reauth
  <1>1. absent \notin Assertions /\ absent # Ctx(how)!Authenticator
    BY MCObjectsAssumption DEF Ctx!CredentialsAssumption
  <1>2. CASE "RESOLVED" \in r.flags
    <2>1. got \in {Ctx(how)!Got("identity", r.assertion, r.identity), Ctx(how)!Error,
                   Ctx(how)!Got("string", r.assertion, SubjectOf[r.assertion])}
      BY <1>2 DEF Ctx!AssertionFromCred
    <2>2. got.assertion = r.assertion /\ got.via \in {"identity", "string"}
      BY <2>1 DEF Ctx!Got, Ctx!Error
    <2> QED
      BY <1>2, <2>2 DEF CredSound
  <1>3. CASE "RESOLVED" \notin r.flags
    <2>1. \/ ~reauth /\ \E s \in Subjects : got = Ctx(how)!Got("reauth", Ctx(how)!Authenticator, s)
          \/ "CALLER_UI" \notin r.flags /\ \E a \in Assertions : got = Ctx(how)!Got("dialog", a, SubjectOf[a])
          \/ got = Ctx(how)!Error
      BY <1>3 DEF Ctx!AcquireAssertion
    <2> QED
      BY <1>1, <2>1 DEF Ctx!Got, Ctx!Error
  <1> QED
    BY <1>2, <1>3

\* The application's credential, and the one that a context works with.
AppOf(c) == IF c = absent THEN absent ELSE cred[c]
WorksWith(how, c) ==
    IF AppOf(c) = absent THEN Ctx(how)!DefaultCred ELSE Ctx(how)!DuplicateCred(AppOf(c))

LEMMA ResolvedCred ==
    ASSUME NEW how \in Changes, CredentialsInv, NEW c \in Creds \cup {absent}
    PROVE  /\ CredSound(WorksWith(how, c))
           /\ AppOf(c) # absent => /\ c \in Creds
                                   /\ WorksWith(how, c).flags = cred[c].flags
                                   /\ WorksWith(how, c).name = AppOf(c).name
  <1>1. CASE AppOf(c) = absent
    <2>1. WorksWith(how, c) =
              [flags |-> {"INITIATE"}, name |-> absent, assertion |-> absent,
               mechanisms |-> Ctx(how)!NoOidSet, ticketCache |-> absent, replayCache |-> absent,
               identity |-> absent]
      BY <1>1 DEF WorksWith, Ctx!DefaultCred, Ctx!AllocCred
    <2> QED
      BY <1>1, <2>1 DEF CredSound, IsCred
  <1>2. CASE AppOf(c) # absent
    <2>1. PICK app : app = AppOf(c)
      OBVIOUS
    <2>2. c \in Creds /\ app = cred[c] /\ CredSound(app)
      BY <1>2, <2>1 DEF AppOf, CredentialsInv, CredsInv
    <2>3. PICK u : u = [app EXCEPT !.ticketCache = absent]
      OBVIOUS
    <2>4. u = [flags |-> app.flags, name |-> app.name, assertion |-> app.assertion,
               mechanisms |-> app.mechanisms, ticketCache |-> absent, replayCache |-> app.replayCache,
               identity |-> app.identity]
      BY <2>2, <2>3 DEF CredSound, IsCred
    <2>5. PICK v : v = [u EXCEPT !.replayCache = absent]
      OBVIOUS
    <2>6. v = [flags |-> app.flags, name |-> app.name, assertion |-> app.assertion,
               mechanisms |-> app.mechanisms, ticketCache |-> absent, replayCache |-> absent,
               identity |-> app.identity]
      BY <2>4, <2>5
    <2>7. v = [app EXCEPT !.ticketCache = absent, !.replayCache = absent]
      BY <2>3, <2>5
    <2>8. v = WorksWith(how, c)
      BY <1>2, <2>1, <2>7, Zenon DEF WorksWith, Ctx!DuplicateCred
    <2>9. CredSound(v) /\ v.flags = app.flags /\ v.name = app.name
      BY <2>2, <2>6 DEF CredSound, IsCred
    <2> QED
      BY <2>1, <2>2, <2>8, <2>9
  <1> QED
    BY <1>1, <1>2

\* A context that is released on an error, and one that has got an assertion.
Released(c, dialog) ==
    ctx'.state = "none" /\ out'.cred = c /\ out'.dialog = dialog /\ UNCHANGED cred
WorksBy(r, got) == [r EXCEPT !.name = got.subject, !.assertion = got.assertion, !.flags = @ \cup {"RESOLVED"}]
Works(c, state, r, got) ==
    /\ "INITIATE" \in r.flags /\ r.name \in {absent, got.subject}
    /\ ctx' = [state |-> state, app |-> c, subject |-> got.subject, cred |-> WorksBy(r, got),
               reauth |-> (got.via = "reauth"), asked |-> IF AppOf(c) = absent THEN absent ELSE AppOf(c).name]
    /\ out'.cred = c /\ out'.dialog = (got.via = "dialog") /\ UNCHANGED cred

LEMMA ResolveOutcomes ==
    ASSUME NEW how \in Changes, NEW c, NEW mech, NEW state,
           Ctx(how)!ResolveInitiatorCred(c, mech, state)
    PROVE  \/ Released(c, FALSE)
           \/ \E got \in IF "RESOLVED" \in WorksWith(how, c).flags
                         THEN Ctx(how)!AssertionFromCred(WorksWith(how, c))
                         ELSE Ctx(how)!AcquireAssertion(WorksWith(how, c), ctx.reauth) :
                 /\ got.via # "error"
                 /\ Released(c, got.via = "dialog") \/ Works(c, state, WorksWith(how, c), got)
  <1> DEFINE r == WorksWith(how, c)
             Source == IF "RESOLVED" \in r.flags THEN Ctx(how)!AssertionFromCred(r)
                       ELSE Ctx(how)!AcquireAssertion(r, ctx.reauth)
  <1>1. ASSUME NEW major, NEW dialog \in BOOLEAN, Ctx(how)!ContextFails(c, major, dialog)
        PROVE  Released(c, dialog)
    BY <1>1 DEF Released, Ctx!ContextFails, Ctx!NoContext, Ctx!Idle
  <1>2. IF "INITIATE" \notin r.flags THEN Ctx(how)!ContextFails(c, "no cred", FALSE)
        ELSE IF "CALLER_UI" \in r.flags /\ ctx.reauth THEN Ctx(how)!ContextFails(c, "prompting needed", FALSE)
        ELSE \E got \in Source :
               IF got.via = "error" THEN Ctx(how)!ContextFails(c, "failure", FALSE)
               ELSE IF ~Ctx(how)!NameAccepted(r, got.subject)
                    THEN Ctx(how)!ContextFails(c, "no cred", got.via = "dialog")
               ELSE IF ~Ctx(how)!CredAvailable(r, mech)
                    THEN Ctx(how)!ContextFails(c, "bad mech", got.via = "dialog")
               ELSE /\ ctx' = [state |-> state, app |-> c, subject |-> got.subject, cred |-> WorksBy(r, got),
                               reauth |-> got.via = "reauth",
                               asked |-> IF AppOf(c) = absent THEN absent ELSE AppOf(c).name]
                    /\ out' = [Ctx(how)!Idle("init", c, "continue") EXCEPT !.dialog = got.via = "dialog"]
                    /\ UNCHANGED <<cred, token>>
    BY Zenon DEF Ctx!ResolveInitiatorCred, WorksWith, AppOf, WorksBy
  <1> HIDE DEF r
  <1>3. CASE "INITIATE" \notin r.flags \/ ("CALLER_UI" \in r.flags /\ ctx.reauth)
    BY <1>1, <1>2, <1>3
  <1>4. CASE "INITIATE" \in r.flags /\ ~("CALLER_UI" \in r.flags /\ ctx.reauth)
    <2> HIDE DEF Source
    <2>1. PICK got \in Source :
               IF got.via = "error" THEN Ctx(how)!ContextFails(c, "failure", FALSE)
               ELSE IF ~Ctx(how)!NameAccepted(r, got.subject)
                    THEN Ctx(how)!ContextFails(c, "no cred", got.via = "dialog")
               ELSE IF ~Ctx(how)!CredAvailable(r, mech)
                    THEN Ctx(how)!ContextFails(c, "bad mech", got.via = "dialog")
               ELSE /\ ctx' = [state |-> state, app |-> c, subject |-> got.subject, cred |-> WorksBy(r, got),
                               reauth |-> got.via = "reauth",
                               asked |-> IF AppOf(c) = absent THEN absent ELSE AppOf(c).name]
                    /\ out' = [Ctx(how)!Idle("init", c, "continue") EXCEPT !.dialog = got.via = "dialog"]
                    /\ UNCHANGED <<cred, token>>
      BY <1>2, <1>4, Zenon
    <2>2. (got.via = "dialog") \in BOOLEAN
      OBVIOUS
    <2>3. \/ Released(c, FALSE)
          \/ got.via # "error" /\ (Released(c, got.via = "dialog") \/ Works(c, state, r, got))
      BY <1>1, <1>4, <2>1, <2>2 DEF Works, Ctx!NameAccepted, Ctx!Idle
    <2> QED
      BY <2>3, Zenon DEF Source, r
  <1> QED
    BY <1>3, <1>4 DEF r

\* The first call and the retry, which is made after a ticket was refused.
LEMMA ResolveStep ==
    ASSUME CredentialsInv, NEW how \in Changes, NEW c \in Creds \cup {absent}, NEW mech,
           NEW state \in {"authenticate", "retry authenticate"},
           state = "retry authenticate" => ctx.reauth,
           Ctx(how)!ResolveInitiatorCred(c, mech, state)
    PROVE  CredentialsInv' /\ Ctx(how)!LeavesDisplay
  <1>1. PICK r : r = WorksWith(how, c)
    OBVIOUS
  <1>2. CredSound(r) /\ (AppOf(c) # absent => c \in Creds /\ r.flags = cred[c].flags /\ r.name = AppOf(c).name)
    BY <1>1, ResolvedCred
  <1>3. ASSUME NEW dialog, Released(c, dialog)
        PROVE  CredentialsInv'
    BY <1>3 DEF Released, CredentialsInv, CredsInv, CredSound, IsCred, CtxInv
  <1>4. CASE Released(c, FALSE)
    BY <1>3, <1>4 DEF Released, Ctx!LeavesDisplay
  <1>5. ASSUME NEW got \in IF "RESOLVED" \in r.flags THEN Ctx(how)!AssertionFromCred(r)
                           ELSE Ctx(how)!AcquireAssertion(r, ctx.reauth),
               got.via # "error", Released(c, got.via = "dialog") \/ Works(c, state, r, got)
        PROVE  CredentialsInv' /\ Ctx(how)!LeavesDisplay
    <2>1. /\ got.assertion # absent
          /\ got.via = "dialog" => "CALLER_UI" \notin r.flags
          /\ got.via = "reauth" => ~ctx.reauth
      BY <1>2, <1>5, AcquiredFacts
    <2>2. Ctx(how)!LeavesDisplay
      <3>1. out'.cred = c /\ out'.dialog = (got.via = "dialog")
        BY <1>5 DEF Released, Works
      <3>2. c # absent => AppOf(c) = cred[c]
        BY DEF AppOf
      <3> QED
        BY <1>2, <2>1, <3>1, <3>2 DEF Ctx!LeavesDisplay
    <2>3. CASE Released(c, got.via = "dialog")
      BY <1>3, <2>2, <2>3
    <2>4. CASE Works(c, state, r, got)
      <3>1. PICK w : w = WorksBy(r, got)
        OBVIOUS
      <3>2. PICK u : u = [r EXCEPT !.name = got.subject]
        OBVIOUS
      <3>3. u = [flags |-> r.flags, name |-> got.subject, assertion |-> r.assertion,
                 mechanisms |-> r.mechanisms, ticketCache |-> r.ticketCache,
                 replayCache |-> r.replayCache, identity |-> r.identity]
        BY <1>2, <3>2 DEF CredSound, IsCred
      <3>4. PICK v : v = [u EXCEPT !.assertion = got.assertion]
        OBVIOUS
      <3>5. v = [flags |-> r.flags, name |-> got.subject, assertion |-> got.assertion,
                 mechanisms |-> r.mechanisms, ticketCache |-> r.ticketCache,
                 replayCache |-> r.replayCache, identity |-> r.identity]
        BY <3>3, <3>4
      <3>6. w = [v EXCEPT !.flags = r.flags \cup {"RESOLVED"}]
        BY <3>1, <3>2, <3>4 DEF WorksBy
      <3>7. w.flags = r.flags \cup {"RESOLVED"} /\ w.name = got.subject /\ w.assertion = got.assertion
        BY <3>5, <3>6
      <3>8. PICK name : name = IF AppOf(c) = absent THEN absent ELSE AppOf(c).name
        OBVIOUS
      <3>9. name \in {absent, got.subject}
        BY <1>2, <2>4, <3>8 DEF Works
      <3>10. /\ ctx' = [state |-> state, app |-> c, subject |-> got.subject, cred |-> w,
                        reauth |-> (got.via = "reauth"), asked |-> name]
             /\ "INITIATE" \in r.flags /\ UNCHANGED cred
        BY <2>4, <3>1, <3>8 DEF Works
      <3>11. PICK again : again = (got.via = "reauth")
        OBVIOUS
      <3>12. state = "retry authenticate" => again = FALSE
        BY <2>1, <3>11
      <3>13. CtxInv'
        BY <2>1, <3>7, <3>9, <3>10, <3>12, <3>11 DEF CtxInv
      <3>14. CredsInv'
        BY <3>10 DEF CredentialsInv, CredsInv, CredSound, IsCred
      <3> QED
        BY <2>2, <3>13, <3>14 DEF CredentialsInv
    <2> QED
      BY <1>5, <2>3, <2>4
  <1> QED
    BY <1>1, <1>4, <1>5, ResolveOutcomes

LEMMA CredentialsStep ==
    ASSUME CredentialsInv, NEW how \in Changes, Ctx(how)!Next
    PROVE  CredentialsInv' /\ Ctx(how)!LeavesDisplay
  <1>1. CASE Ctx(how)!Acquire
    BY <1>1, AcquireStep
  <1>2. CASE \E c \in Creds : Ctx(how)!ReleaseCred(c)
    BY <1>2, ReleaseStep
  <1>3. CASE Ctx(how)!Options
    BY <1>3, OptionsStep
  <1>4. CASE \E c \in Creds, attrs \in OneEntry : Ctx(how)!SetCredWithCFDictionary(c, attrs)
    BY <1>4, DictionaryStep
  <1>5. CASE \E c \in Creds \cup {absent}, m \in Mechs : Ctx(how)!InitSecContext(c, m)
    BY <1>5, ResolveStep DEF Ctx!InitSecContext
  <1>6. CASE \E m \in Mechs : Ctx(how)!RetryInitial(m)
    <2>1. PICK m \in Mechs : Ctx(how)!RetryInitial(m)
      BY <1>6
    <2>2. ctx.state = "authenticate" /\ ctx.reauth
      BY <2>1 DEF Ctx!RetryInitial
    <2>3. ctx.app \in Creds \cup {absent}
      BY <2>2 DEF CredentialsInv, CtxInv
    <2>4. Ctx(how)!ResolveInitiatorCred(ctx.app, m, "retry authenticate")
      BY <2>1 DEF Ctx!RetryInitial
    <2> QED
      BY <2>2, <2>3, <2>4, ResolveStep
  <1>7. CASE Ctx(how)!DeleteSecContext
    BY <1>7, DeleteStep
  <1>8. "tokens" \notin {how, "contexts"}
    BY DEF Changes
  <1> QED
    BY <1>1, <1>2, <1>3, <1>4, <1>5, <1>6, <1>7, <1>8, Zenon DEF Ctx!Next

OfCredentials == of \in Changes

LEMMA CredentialsInitial ==
    ASSUME MCInit, OfCredentials
    PROVE  CredentialsInv
  <1>1. PICK how \in Changes : Ctx(how)!Init
    BY DEF MCInit, OfCredentials, Changes
  <1>2. cred = [c \in Creds |-> absent] /\ ctx.state = "none"
    BY <1>1 DEF Ctx!Init, Ctx!NoContext
  <1> QED
    BY <1>2 DEF CredentialsInv, CredsInv, CtxInv

LEMMA CredentialsMCStep ==
    ASSUME OfCredentials => CredentialsInv, [MCNext]_allVars
    PROVE  /\ (OfCredentials => CredentialsInv)'
           /\ [\A how \in Changes : of = how => (Ctx(how)!LeavesDisplay)]_<<cred, ctx, token, out>>
  <1>1. CASE UNCHANGED allVars
    BY <1>1 DEF allVars, credVars, OfCredentials, CredentialsInv, CredsInv, CredSound, IsCred, CtxInv
  <1>2. CASE MCNext /\ OfCredentials
    <2>1. PICK how \in Changes : of = how /\ of' = of
      BY <1>2 DEF MCNext, OfCredentials
    <2>2. Ctx(how)!Next
      BY <1>2, <2>1, Zenon DEF MCNext, Changes
    <2>3. CredentialsInv' /\ Ctx(how)!LeavesDisplay
      BY <1>2, <2>2, CredentialsStep
    <2> QED
      BY <2>1, <2>3
  <1>3. CASE MCNext /\ ~OfCredentials
    BY <1>3 DEF MCNext, OfCredentials
  <1> QED
    BY <1>1, <1>2, <1>3

\* ContextCredentials: whatever credentials the application has and changes, an
\* initiator context works with a resolved credential that has an assertion, of the
\* identity in the context and of the one the application asked for, and the
\* attempt after a refused ticket is made with a certificate.
THEOREM ContextsKeepTheirIdentity == MCSpec => []ContextCredentials
  <1>1. MCInit => (OfCredentials => CredentialsInv)
    BY CredentialsInitial
  <1>2. (OfCredentials => CredentialsInv) /\ [MCNext]_allVars => (OfCredentials => CredentialsInv)'
    BY CredentialsMCStep
  <1>3. (OfCredentials => CredentialsInv) => ContextCredentials
    BY DEF OfCredentials, CredentialsInv, CtxInv, ContextCredentials, Ctx!ContextCredential,
           Ctx!RetryIsCertified
  <1> QED
    BY <1>1, <1>2, <1>3, PTL DEF MCSpec

\* CallerDisplays: gss_init_sec_context displays no dialog for a credential of a
\* caller that displays its own.
THEOREM CallersDisplay == MCSpec => CallerDisplays
  <1>1. MCInit => (OfCredentials => CredentialsInv)
    BY CredentialsInitial
  <1>2. (OfCredentials => CredentialsInv) /\ [MCNext]_allVars => (OfCredentials => CredentialsInv)'
    BY CredentialsMCStep
  <1>3. (OfCredentials => CredentialsInv) /\ [MCNext]_allVars =>
            [\A how \in Changes : of = how => (Ctx(how)!LeavesDisplay)]_<<cred, ctx, token, out>>
    BY CredentialsMCStep
  <1> QED
    BY <1>1, <1>2, <1>3, PTL DEF MCSpec, CallerDisplays
-----------------------------------------------------------------------------
(***************************************************************************)
(* RegistryCache.                                                          *)
(***************************************************************************)
\* A key has one value of a name.
NamedOnce(s) ==
    /\ s \in Seq(Registry!Value)
    /\ \A i, j \in DOMAIN s : s[i].name = s[j].name => i = j

Subkey == [name : ValueNames, id : Nat, values : Seq(Registry!Value)]
Subkeys == Seq(Subkey)

\* A number stands for one subkey, and is one that the administrator has given.
RegSound(r, n) ==
    /\ r \in [values : Seq(Registry!Value), subs : Subkeys]
    /\ NamedOnce(r.values)
    /\ \A i \in DOMAIN r.subs : NamedOnce(r.subs[i].values) /\ r.subs[i].id \in 1..n
    /\ \A i, j \in DOMAIN r.subs : r.subs[i].id = r.subs[j].id => i = j
    /\ n \in Nat

Reading == {"value size", "value data"}
RegCall ==
    [pc : {"idle", "query size", "query data", "done", "subkey", "subkey open", "subkey add"} \cup Reading,
     key : Nat, top : Nat, idx : Nat \ {0}, sub : Nat \ {0}, subName : ValueNames \cup {"none"},
     name : ValueNames \cup {"none"}, size : 0..2, out : SUBSET Registry!Value,
     subOut : SUBSET Registry!Value,
     err : {"none", "ok", "key not found", "buffer too small", "invalid parameter", "unknown json key"}]

\* Only an enumeration of the cache's own key goes on to its subkeys.
CallPlace(c) ==
    /\ c.pc \in {"subkey open", "subkey add"} => c.top = Registry!Root
    /\ c.pc \in Reading /\ c.key # c.top => c.top = Registry!Root
    /\ c.pc = "subkey" => c.key = c.top

\* What has been read of the key that is read.
Collected(c) == IF c.key = c.top THEN c.out ELSE c.subOut

\* While a key is read, what there is and what has been collected of it was there
\* during the call; what has been there all the time is collected, or ahead, if no
\* value was deleted.
ReadSound(c, vs, s, st) ==
    /\ Registry!Elements(vs) \subseteq s
    /\ Collected(c) \subseteq s
    /\ st.values \subseteq Registry!Elements(vs)
    /\ ~st.deleted =>
         \A v \in st.values : v \in Collected(c) \/ \E i \in DOMAIN vs : i >= c.idx /\ vs[i] = v

ReadInv ==
    /\ call.pc \in Reading => ReadSound(call, Registry!ValuesOf(reg, call.key), seen, stable)
    /\ Registry!StableReported
    /\ stable \in [values : SUBSET Registry!Value, deleted : BOOLEAN]

RegInv == RegSound(reg, writes) /\ call \in RegCall /\ CallPlace(call) /\ ReadInv

-----------------------------------------------------------------------------
\* How the values of a key change: one is gone, or all keep their places.
Keeps(s, t) ==
    \/ Len(t) < Len(s)
    \/ DOMAIN s \subseteq DOMAIN t /\ \A i \in DOMAIN s : t[i].name = s[i].name

LEMMA RemoveFacts ==
    ASSUME NEW S, NEW s \in Seq(S), NEW i \in DOMAIN s
    PROVE  LET t == Registry!Remove(s, i) IN
           /\ t \in Seq(S)
           /\ Len(t) = Len(s) - 1
           /\ \A j \in DOMAIN t : (IF j < i THEN j ELSE j + 1) \in DOMAIN s
                                  /\ t[j] = s[IF j < i THEN j ELSE j + 1]
  <1> DEFINE a == SubSeq(s, 1, i - 1)
             b == SubSeq(s, i + 1, Len(s))
             t == Registry!Remove(s, i)
  <1>1. i \in 1 .. Len(s) /\ Len(s) \in Nat /\ \A j \in 1 .. Len(s) : s[j] \in S
    OBVIOUS
  <1>2. a \in Seq(S) /\ Len(a) = i - 1 /\ \A j \in 1 .. i - 1 : a[j] = s[j]
    <2>1. \A j \in 1 .. i - 1 : s[j] \in S
      BY <1>1
    <2>2. 1 \in Int /\ i - 1 \in Int
      BY <1>1
    <2>3. /\ a \in Seq(S)
          /\ Len(a) = IF 1 <= i - 1 THEN (i - 1) - 1 + 1 ELSE 0
          /\ \A j \in 1 .. (i - 1) - 1 + 1 : a[j] = s[1 + j - 1]
      BY <2>1, <2>2, SubSeqProperties
    <2> QED
      BY <1>1, <2>3
  <1>3. b \in Seq(S) /\ Len(b) = Len(s) - i /\ \A j \in 1 .. Len(s) - i : b[j] = s[i + j]
    <2>1. \A j \in i + 1 .. Len(s) : s[j] \in S
      BY <1>1
    <2>2. i + 1 \in Int /\ Len(s) \in Int
      BY <1>1
    <2>3. /\ b \in Seq(S)
          /\ Len(b) = IF i + 1 <= Len(s) THEN Len(s) - (i + 1) + 1 ELSE 0
          /\ \A j \in 1 .. Len(s) - (i + 1) + 1 : b[j] = s[(i + 1) + j - 1]
      BY <2>1, <2>2, SubSeqProperties
    <2> QED
      BY <1>1, <2>3
  <1> HIDE DEF a, b
  <1>4. t = a \o b
    BY DEF Registry!Remove, a, b
  <1> HIDE DEF t
  <1>5. /\ t \in Seq(S) /\ Len(t) = Len(a) + Len(b)
        /\ \A j \in 1 .. Len(a) + Len(b) : t[j] = IF j <= Len(a) THEN a[j] ELSE b[j - Len(a)]
    BY <1>2, <1>3, <1>4, ConcatProperties
  <1>6. Len(t) = Len(s) - 1
    BY <1>1, <1>2, <1>3, <1>5
  <1>7. ASSUME NEW j \in DOMAIN t
        PROVE  /\ (IF j < i THEN j ELSE j + 1) \in DOMAIN s
               /\ t[j] = s[IF j < i THEN j ELSE j + 1]
    <2>1. j \in 1 .. Len(s) - 1
      BY <1>5, <1>6
    <2>2. CASE j < i
      <3>1. j \in 1 .. i - 1 /\ j <= Len(a)
        BY <1>1, <1>2, <2>1, <2>2
      <3>2. t[j] = a[j]
        BY <1>1, <1>2, <1>3, <1>5, <2>1, <3>1
      <3> QED
        BY <1>1, <1>2, <2>1, <2>2, <3>1, <3>2
    <2>3. CASE ~(j < i)
      <3>1. j - Len(a) \in 1 .. Len(s) - i /\ ~(j <= Len(a)) /\ j \in 1 .. Len(a) + Len(b)
        <4>1. Len(a) = i - 1 /\ Len(b) = Len(s) - i /\ i \in 1 .. Len(s) /\ Len(s) \in Nat
          BY <1>1, <1>2, <1>3
        <4> QED
          BY <2>1, <2>3, <4>1, SMTT(30)
      <3>2. t[j] = b[j - Len(a)]
        BY <1>5, <3>1
      <3>3. b[j - Len(a)] = s[i + (j - Len(a))]
        BY <1>3, <3>1
      <3>4. i + (j - Len(a)) = j + 1
        BY <1>1, <1>2, <2>1
      <3> QED
        BY <1>1, <2>1, <2>3, <3>2, <3>3, <3>4
    <2> QED
      BY <2>2, <2>3
  <1> QED
    BY <1>5, <1>6, <1>7 DEF t

LEMMA RemoveKeeps ==
    ASSUME NEW s, NamedOnce(s), NEW i \in DOMAIN s
    PROVE  NamedOnce(Registry!Remove(s, i)) /\ Keeps(s, Registry!Remove(s, i))
  <1> PICK t : t = Registry!Remove(s, i)
    OBVIOUS
  <1>1. s \in Seq(Registry!Value)
    BY DEF NamedOnce
  <1>2. /\ t \in Seq(Registry!Value)
        /\ Len(t) = Len(s) - 1
        /\ \A j \in DOMAIN t : (IF j < i THEN j ELSE j + 1) \in DOMAIN s
                               /\ t[j] = s[IF j < i THEN j ELSE j + 1]
    BY <1>1, RemoveFacts
  <1>3. i \in Nat /\ \A j \in DOMAIN t : j \in Nat
    BY <1>1, <1>2
  <1>4. ASSUME NEW j \in DOMAIN t, NEW k \in DOMAIN t, t[j].name = t[k].name PROVE j = k
    <2>1. (IF j < i THEN j ELSE j + 1) = (IF k < i THEN k ELSE k + 1)
      BY <1>2, <1>4 DEF NamedOnce
    <2> QED
      BY <1>3, <2>1
  <1>5. Len(t) < Len(s)
    BY <1>1, <1>2
  <1> QED
    BY <1>2, <1>4, <1>5 DEF NamedOnce, Keeps

LEMMA SetInKeeps ==
    ASSUME NEW s, NamedOnce(s), NEW v \in Registry!Value
    PROVE  NamedOnce(Registry!SetIn(s, v)) /\ Keeps(s, Registry!SetIn(s, v))
  <1> PICK t : t = Registry!SetIn(s, v)
    OBVIOUS
  <1>1. s \in Seq(Registry!Value)
    BY DEF NamedOnce
  <1>2. CASE Registry!Named(s, v.name) = {}
    <2>1. t = Append(s, v)
      BY <1>2 DEF Registry!SetIn
    <2>2. /\ t \in Seq(Registry!Value) /\ Len(t) = Len(s) + 1
          /\ \A i \in 1 .. Len(s) : t[i] = s[i]
          /\ t[Len(s) + 1] = v
      BY <1>1, <2>1, AppendProperties
    <2>3. \A i \in DOMAIN s : s[i].name # v.name
      BY <1>2 DEF Registry!Named
    <2>4. DOMAIN s = 1 .. Len(s) /\ DOMAIN t = 1 .. Len(s) + 1 /\ Len(s) \in Nat
      BY <1>1, <2>2
    <2>5. ASSUME NEW i \in DOMAIN t, NEW j \in DOMAIN t, t[i].name = t[j].name PROVE i = j
      <3>1. CASE i \in DOMAIN s /\ j \in DOMAIN s
        BY <2>2, <2>4, <2>5, <3>1 DEF NamedOnce
      <3>2. CASE i = Len(s) + 1 /\ j \in DOMAIN s
        BY <2>2, <2>3, <2>4, <2>5, <3>2
      <3>3. CASE i \in DOMAIN s /\ j = Len(s) + 1
        BY <2>2, <2>3, <2>4, <2>5, <3>3
      <3> QED
        BY <2>4, <3>1, <3>2, <3>3
    <2>6. DOMAIN s \subseteq DOMAIN t /\ \A i \in DOMAIN s : t[i].name = s[i].name
      BY <2>2, <2>4
    <2> QED
      BY <2>2, <2>5, <2>6 DEF NamedOnce, Keeps
  <1>3. CASE Registry!Named(s, v.name) # {}
    <2>1. PICK i \in Registry!Named(s, v.name) : t = [s EXCEPT ![i] = v]
      BY <1>3 DEF Registry!SetIn
    <2>2. i \in DOMAIN s /\ s[i].name = v.name
      BY DEF Registry!Named
    <2>3. t \in Seq(Registry!Value) /\ DOMAIN t = DOMAIN s
      BY <1>1, <2>1, <2>2
    <2>4. \A j \in DOMAIN s : t[j].name = s[j].name
      BY <1>1, <2>1, <2>2
    <2> QED
      BY <2>3, <2>4 DEF NamedOnce, Keeps
  <1> QED
    BY <1>2, <1>3

\* The values of a key.
LEMMA ValuesFacts ==
    ASSUME NEW r, NEW n, RegSound(r, n)
    PROVE  /\ Registry!ValuesOf(r, 0) = r.values
           /\ \A i \in DOMAIN r.subs : Registry!ValuesOf(r, r.subs[i].id) = r.subs[i].values
           /\ \A key : key # 0 /\ (\A i \in DOMAIN r.subs : r.subs[i].id # key) =>
                 Registry!ValuesOf(r, key) = <<>>
           /\ \A key : NamedOnce(Registry!ValuesOf(r, key))
  <1>1. Registry!ValuesOf(r, 0) = r.values
    BY DEF Registry!ValuesOf, Registry!Root
  <1>2. ASSUME NEW i \in DOMAIN r.subs
        PROVE  Registry!ValuesOf(r, r.subs[i].id) = r.subs[i].values
    <2>1. r.subs[i].id # 0
      BY DEF RegSound
    <2>2. Registry!Exists(r, r.subs[i].id)
      BY DEF Registry!Exists
    <2>3. (CHOOSE j \in DOMAIN r.subs : r.subs[j].id = r.subs[i].id) = i
      BY DEF RegSound
    <2> QED
      BY <2>1, <2>2, <2>3 DEF Registry!ValuesOf, Registry!Root
  <1>3. ASSUME NEW key, key # 0, \A i \in DOMAIN r.subs : r.subs[i].id # key
        PROVE  Registry!ValuesOf(r, key) = <<>>
    BY <1>3 DEF Registry!ValuesOf, Registry!Root, Registry!Exists
  <1>4. NamedOnce(<<>>)
    BY DEF NamedOnce
  <1>5. ASSUME NEW key PROVE NamedOnce(Registry!ValuesOf(r, key))
    <2>1. CASE key = 0
      BY <1>1, <2>1 DEF RegSound
    <2>2. CASE \E i \in DOMAIN r.subs : r.subs[i].id = key
      BY <1>2, <2>2 DEF RegSound
    <2>3. CASE key # 0 /\ \A i \in DOMAIN r.subs : r.subs[i].id # key
      BY <1>3, <1>4, <2>3
    <2> QED
      BY <2>1, <2>2, <2>3
  <1> QED
    BY <1>1, <1>2, <1>3, <1>5

LEMMA KeepsSame == ASSUME NEW s PROVE Keeps(s, s)
  BY DEF Keeps

LEMMA KeepsNone ==
    ASSUME NEW s \in Seq(Registry!Value)
    PROVE  Keeps(s, <<>>)
  <1>1. CASE Len(s) > 0
    BY <1>1 DEF Keeps
  <1>2. CASE ~(Len(s) > 0)
    <2>1. s = <<>>
      BY <1>2
    <2> QED
      BY <2>1, KeepsSame
  <1> QED
    BY <1>1, <1>2

\* Another key of the cache after a step of the administrator.
Rewritten(r) ==
    /\ RegSound(r, writes + 1)
    /\ \A key : Keeps(Registry!ValuesOf(reg, key), Registry!ValuesOf(r, key))

LEMMA SetValues ==
    ASSUME RegSound(reg, writes), NEW t, NamedOnce(t), Keeps(reg.values, t)
    PROVE  Rewritten([reg EXCEPT !.values = t])
  <1> PICK r : r = [reg EXCEPT !.values = t]
    OBVIOUS
  <1>1. r.values = t /\ r.subs = reg.subs /\ r \in [values : Seq(Registry!Value), subs : Subkeys]
    BY DEF RegSound, NamedOnce
  <1>2. RegSound(r, writes + 1)
    <2>1. writes + 1 \in Nat /\ \A id \in 1..writes : id \in 1 .. writes + 1
      BY DEF RegSound
    <2> QED
      BY <1>1, <2>1 DEF RegSound
  <1>3. ASSUME NEW key PROVE Keeps(Registry!ValuesOf(reg, key), Registry!ValuesOf(r, key))
    <2>1. CASE key = 0
      BY <1>1, <1>2, <2>1, ValuesFacts
    <2>2. CASE key # 0
      <3>1. Registry!ValuesOf(r, key) = Registry!ValuesOf(reg, key)
        BY <1>1, <2>2 DEF Registry!ValuesOf, Registry!Root, Registry!Exists
      <3> QED
        BY <3>1, KeepsSame
    <2> QED
      BY <2>1, <2>2
  <1> QED
    BY <1>2, <1>3 DEF Rewritten

LEMMA SetSubValues ==
    ASSUME RegSound(reg, writes), NEW i \in DOMAIN reg.subs, NEW t, NamedOnce(t),
           Keeps(reg.subs[i].values, t)
    PROVE  Rewritten([reg EXCEPT !.subs[i].values = t])
  <1> PICK r : r = [reg EXCEPT !.subs[i].values = t]
    OBVIOUS
  <1>1. /\ reg.subs \in Subkeys /\ reg.values \in Seq(Registry!Value)
        /\ r = [reg EXCEPT !.subs = [reg.subs EXCEPT ![i] = [reg.subs[i] EXCEPT !.values = t]]]
    BY DEF RegSound
  <1> PICK u : u = [reg.subs EXCEPT ![i] = [reg.subs[i] EXCEPT !.values = t]]
    OBVIOUS
  <1>2. /\ DOMAIN u = DOMAIN reg.subs /\ u \in Subkeys
        /\ \A j \in DOMAIN u : u[j].id = reg.subs[j].id
        /\ \A j \in DOMAIN u : u[j].values = IF j = i THEN t ELSE reg.subs[j].values
    <2>1. PICK w : w = [reg.subs[i] EXCEPT !.values = t]
      OBVIOUS
    <2>2. reg.subs[i] \in Subkey
      BY <1>1 DEF Subkeys
    <2>3. w \in Subkey /\ w.id = reg.subs[i].id /\ w.values = t
      BY <2>1, <2>2 DEF NamedOnce, Subkey
    <2>4. u = [reg.subs EXCEPT ![i] = w]
      BY <2>1
    <2>5. DOMAIN u = DOMAIN reg.subs /\ u \in Subkeys
      BY <1>1, <2>3, <2>4 DEF Subkeys
    <2>6. \A j \in DOMAIN u : u[j] = IF j = i THEN w ELSE reg.subs[j]
      BY <1>1, <2>4, <2>5 DEF Subkeys
    <2> QED
      BY <2>3, <2>5, <2>6
  <1>3. r.values = reg.values /\ r.subs = u /\ r \in [values : Seq(Registry!Value), subs : Subkeys]
    BY <1>1, <1>2 DEF RegSound
  <1>4. RegSound(r, writes + 1)
    <2>1. writes + 1 \in Nat /\ \A id \in 1..writes : id \in 1 .. writes + 1
      BY DEF RegSound
    <2> QED
      BY <1>2, <1>3, <2>1 DEF RegSound
  <1>5. ASSUME NEW key PROVE Keeps(Registry!ValuesOf(reg, key), Registry!ValuesOf(r, key))
    <2>1. CASE key = 0
      BY <1>3, <1>4, <2>1, ValuesFacts, KeepsSame
    <2>2. CASE \E j \in DOMAIN reg.subs : reg.subs[j].id = key
      <3>1. PICK j \in DOMAIN reg.subs : reg.subs[j].id = key
        BY <2>2
      <3>2. Registry!ValuesOf(reg, key) = reg.subs[j].values
        BY <3>1, ValuesFacts
      <3>3. j \in DOMAIN r.subs /\ r.subs[j].id = key /\ r.subs[j].values = u[j].values
        BY <1>2, <1>3, <3>1
      <3>4. Registry!ValuesOf(r, key) = u[j].values
        BY <1>4, <3>3, ValuesFacts
      <3> QED
        BY <1>2, <3>2, <3>4, KeepsSame
    <2>3. CASE key # 0 /\ \A j \in DOMAIN reg.subs : reg.subs[j].id # key
      <3>1. Registry!ValuesOf(reg, key) = <<>>
        BY <2>3, ValuesFacts
      <3>2. \A j \in DOMAIN r.subs : r.subs[j].id # key
        BY <1>2, <1>3, <2>3
      <3>3. Registry!ValuesOf(r, key) = <<>>
        BY <1>4, <2>3, <3>2, ValuesFacts
      <3> QED
        BY <3>1, <3>3, KeepsSame
    <2> QED
      BY <2>1, <2>2, <2>3
  <1> QED
    BY <1>4, <1>5 DEF Rewritten

\* A new subkey has a number of its own and no values.
LEMMA AddSub ==
    ASSUME RegSound(reg, writes), NEW n \in ValueNames
    PROVE  Rewritten([reg EXCEPT !.subs = Append(@, [name |-> n, id |-> writes + 1, values |-> <<>>])])
  <1> PICK e : e = [name |-> n, id |-> writes + 1, values |-> <<>>]
    OBVIOUS
  <1> PICK u : u = Append(reg.subs, e)
    OBVIOUS
  <1> PICK r : r = [reg EXCEPT !.subs = u]
    OBVIOUS
  <1>1. writes \in Nat /\ reg.subs \in Subkeys /\ reg.values \in Seq(Registry!Value)
    BY DEF RegSound
  <1>2. e \in Subkey /\ e.id = writes + 1 /\ e.values = <<>> /\ NamedOnce(e.values)
    BY <1>1 DEF NamedOnce, Subkey
  <1>3. /\ u \in Subkeys /\ Len(u) = Len(reg.subs) + 1
        /\ \A j \in 1 .. Len(reg.subs) : u[j] = reg.subs[j]
        /\ u[Len(reg.subs) + 1] = e
    BY <1>1, <1>2, AppendProperties DEF Subkeys
  <1>4. /\ DOMAIN reg.subs = 1 .. Len(reg.subs) /\ Len(reg.subs) \in Nat
        /\ DOMAIN u = 1 .. Len(reg.subs) + 1
    BY <1>1, <1>3 DEF Subkeys
  <1>5. r.values = reg.values /\ r.subs = u /\ r \in [values : Seq(Registry!Value), subs : Subkeys]
    BY <1>1, <1>3 DEF RegSound
  <1>6. \A j \in DOMAIN u : (j \in DOMAIN reg.subs /\ u[j] = reg.subs[j]) \/ (j = Len(reg.subs) + 1 /\ u[j] = e)
    BY <1>3, <1>4
  <1>7. RegSound(r, writes + 1)
    <2>1. writes + 1 \in Nat /\ writes + 1 \notin 1..writes /\ \A id \in 1..writes + 1 : id \in 1 .. writes + 1
          /\ writes + 1 \in 1 .. writes + 1 /\ 1..writes \subseteq 1 .. writes + 1
      BY <1>1
    <2>2. \A j \in DOMAIN u : NamedOnce(u[j].values) /\ u[j].id \in 1 .. writes + 1
      BY <1>2, <1>6, <2>1 DEF RegSound
    <2>3. \A j, k \in DOMAIN u : u[j].id = u[k].id => j = k
      BY <1>2, <1>6, <2>1 DEF RegSound
    <2>4. NamedOnce(r.values)
      BY <1>5 DEF RegSound
    <2> QED
      BY SMTT(30), <1>5, <2>1, <2>2, <2>3, <2>4 DEF RegSound
  <1>8. ASSUME NEW key PROVE Keeps(Registry!ValuesOf(reg, key), Registry!ValuesOf(r, key))
    <2>1. CASE key = 0
      BY <1>5, <1>7, <2>1, ValuesFacts, KeepsSame
    <2>2. CASE \E j \in DOMAIN reg.subs : reg.subs[j].id = key
      <3>1. PICK j \in DOMAIN reg.subs : reg.subs[j].id = key
        BY <2>2
      <3>2. j \in DOMAIN u /\ u[j] = reg.subs[j]
        BY <1>3, <1>4
      <3>3. Registry!ValuesOf(reg, key) = Registry!ValuesOf(r, key)
        BY <1>5, <1>7, <3>1, <3>2, ValuesFacts
      <3> QED
        BY <3>3, KeepsSame
    <2>3. CASE key # 0 /\ \A j \in DOMAIN reg.subs : reg.subs[j].id # key
      <3>1. Registry!ValuesOf(reg, key) = <<>>
        BY <2>3, ValuesFacts
      <3>2. CASE key = writes + 1
        <4>1. Len(reg.subs) + 1 \in DOMAIN u /\ u[Len(reg.subs) + 1].id = key
          BY <1>2, <1>3, <1>4, <3>2
        <4>2. Registry!ValuesOf(r, key) = e.values
          BY <1>3, <1>5, <1>7, <4>1, ValuesFacts
        <4> QED
          BY <1>2, <3>1, <4>2, KeepsSame
      <3>3. CASE key # writes + 1
        <4>1. \A j \in DOMAIN u : u[j].id # key
          BY <1>2, <1>6, <2>3, <3>3
        <4>2. Registry!ValuesOf(r, key) = <<>>
          <5>1. \A j \in DOMAIN r.subs : r.subs[j].id # key
            BY <1>5, <4>1
          <5> QED
            BY <1>7, <2>3, <5>1, ValuesFacts
        <4> QED
          BY <3>1, <4>2, KeepsSame
      <3> QED
        BY <3>2, <3>3
    <2> QED
      BY <2>1, <2>2, <2>3
  <1> QED
    BY <1>7, <1>8 DEF Rewritten

LEMMA RemoveSub ==
    ASSUME RegSound(reg, writes), NEW i \in DOMAIN reg.subs
    PROVE  Rewritten([reg EXCEPT !.subs = Registry!Remove(@, i)])
  <1> PICK u : u = Registry!Remove(reg.subs, i)
    OBVIOUS
  <1> PICK r : r = [reg EXCEPT !.subs = u]
    OBVIOUS
  <1> DEFINE at(j) == IF j < i THEN j ELSE j + 1
  <1>1. reg.subs \in Subkeys /\ reg.values \in Seq(Registry!Value) /\ writes \in Nat
    BY DEF RegSound
  <1>2. /\ u \in Subkeys /\ Len(u) = Len(reg.subs) - 1
        /\ \A j \in DOMAIN u : at(j) \in DOMAIN reg.subs /\ u[j] = reg.subs[at(j)]
    BY <1>1, RemoveFacts DEF Subkeys
  <1>3. \A j, k \in DOMAIN u : at(j) = at(k) => j = k
    BY <1>1, <1>2 DEF Subkeys
  <1>4. ASSUME NEW j \in DOMAIN reg.subs, j # i PROVE \E k \in DOMAIN u : at(k) = j
    <2>1. /\ DOMAIN reg.subs = 1 .. Len(reg.subs) /\ DOMAIN u = 1 .. Len(reg.subs) - 1
          /\ Len(reg.subs) \in Nat
      BY <1>1, <1>2 DEF Subkeys
    <2>2. CASE j < i
      BY <2>1, <2>2
    <2>3. CASE ~(j < i)
      <3>1. j - 1 \in DOMAIN u /\ at(j - 1) = j
        BY <1>4, <2>1, <2>3
      <3> QED
        BY <3>1
    <2> QED
      BY <2>2, <2>3
  <1> HIDE DEF at
  <1>5. r.values = reg.values /\ r.subs = u /\ r \in [values : Seq(Registry!Value), subs : Subkeys]
    BY <1>1, <1>2 DEF RegSound
  <1>6. RegSound(r, writes + 1)
    <2>1. writes + 1 \in Nat /\ 1..writes \subseteq 1 .. writes + 1
      BY <1>1
    <2>2. \A j \in DOMAIN u : NamedOnce(u[j].values) /\ u[j].id \in 1 .. writes + 1
      BY <1>2, <2>1 DEF RegSound
    <2>3. \A j, k \in DOMAIN u : u[j].id = u[k].id => j = k
      BY <1>2, <1>3 DEF RegSound
    <2>4. NamedOnce(r.values)
      BY <1>5 DEF RegSound
    <2> QED
      BY <1>5, <2>1, <2>2, <2>3, <2>4 DEF RegSound
  <1>7. ASSUME NEW key PROVE Keeps(Registry!ValuesOf(reg, key), Registry!ValuesOf(r, key))
    <2>1. CASE key = 0
      BY <1>5, <1>6, <2>1, ValuesFacts, KeepsSame
    <2>2. CASE \E j \in DOMAIN u : u[j].id = key
      <3>1. PICK j \in DOMAIN u : u[j].id = key
        BY <2>2
      <3>2. at(j) \in DOMAIN reg.subs /\ reg.subs[at(j)].id = key /\ u[j] = reg.subs[at(j)]
        BY <1>2, <3>1
      <3>3. Registry!ValuesOf(reg, key) = Registry!ValuesOf(r, key)
        BY <1>5, <1>6, <3>1, <3>2, ValuesFacts
      <3> QED
        BY <3>3, KeepsSame
    <2>3. CASE key # 0 /\ \A j \in DOMAIN u : u[j].id # key
      <3>1. Registry!ValuesOf(r, key) = <<>>
        BY <1>5, <1>6, <2>3, ValuesFacts
      <3>2. Registry!ValuesOf(reg, key) \in Seq(Registry!Value)
        BY ValuesFacts DEF NamedOnce
      <3> QED
        BY <3>1, <3>2, KeepsNone
    <2> QED
      BY <2>1, <2>2, <2>3
  <1> QED
    BY <1>6, <1>7 DEF Rewritten

LEMMA WriterStep ==
    ASSUME RegSound(reg, writes), Registry!RegWriter
    PROVE  \E r : Registry!Follows(r) /\ Rewritten(r)
  <1>1. ASSUME NEW v \in Registry!Value,
               Registry!Follows([reg EXCEPT !.values = Registry!SetIn(@, v)])
        PROVE  \E r : Registry!Follows(r) /\ Rewritten(r)
    <2>1. NamedOnce(Registry!SetIn(reg.values, v)) /\ Keeps(reg.values, Registry!SetIn(reg.values, v))
      BY SetInKeeps DEF RegSound
    <2> QED
      BY <1>1, <2>1, SetValues
  <1>2. ASSUME NEW i \in DOMAIN reg.values,
               Registry!Follows([reg EXCEPT !.values = Registry!Remove(@, i)])
        PROVE  \E r : Registry!Follows(r) /\ Rewritten(r)
    <2>1. NamedOnce(Registry!Remove(reg.values, i)) /\ Keeps(reg.values, Registry!Remove(reg.values, i))
      BY RemoveKeeps DEF RegSound
    <2> QED
      BY <1>2, <2>1, SetValues
  <1>3. ASSUME NEW n \in ValueNames,
               Registry!Follows([reg EXCEPT !.subs =
                                   Append(@, [name |-> n, id |-> writes + 1, values |-> <<>>])])
        PROVE  \E r : Registry!Follows(r) /\ Rewritten(r)
    BY <1>3, AddSub
  <1>4. ASSUME NEW i \in DOMAIN reg.subs,
               Registry!Follows([reg EXCEPT !.subs = Registry!Remove(@, i)])
        PROVE  \E r : Registry!Follows(r) /\ Rewritten(r)
    BY <1>4, RemoveSub
  <1>5. ASSUME NEW i \in DOMAIN reg.subs, NEW v \in Registry!Value,
               Registry!Follows([reg EXCEPT !.subs[i].values = Registry!SetIn(@, v)])
        PROVE  \E r : Registry!Follows(r) /\ Rewritten(r)
    <2>1. PICK t : t = Registry!SetIn(reg.subs[i].values, v)
      OBVIOUS
    <2>2. NamedOnce(t) /\ Keeps(reg.subs[i].values, t)
      BY <2>1, SetInKeeps DEF RegSound
    <2>3. Rewritten([reg EXCEPT !.subs[i].values = t])
      BY <2>2, SetSubValues
    <2>4. [reg EXCEPT !.subs[i].values = Registry!SetIn(@, v)] = [reg EXCEPT !.subs[i].values = t]
      BY <2>1
    <2> QED
      BY <1>5, <2>3, <2>4
  <1> QED
    BY <1>1, <1>2, <1>3, <1>4, <1>5 DEF Registry!RegWriter

-----------------------------------------------------------------------------
\* The administrator's steps.
LEMMA WriterKeeps ==
    ASSUME RegInv, Registry!RegWriter
    PROVE  RegInv'
  <1>1. PICK r : Registry!Follows(r) /\ Rewritten(r)
    BY WriterStep DEF RegInv
  <1> DEFINE vs == Registry!ValuesOf(reg, call.key)
             now == Registry!ValuesOf(r, call.key)
  <1>2. /\ reg' = r /\ writes' = writes + 1 /\ call' = call
        /\ seen' = seen \cup Registry!Elements(now)
        /\ stable' = [values |-> stable.values \cap Registry!Elements(now),
                      deleted |-> stable.deleted \/ Len(now) < Len(vs)]
    BY <1>1 DEF Registry!Follows
  <1>3. RegSound(r, writes + 1) /\ NamedOnce(now) /\ NamedOnce(vs) /\ Keeps(vs, now)
    BY <1>1, ValuesFacts DEF Rewritten, RegInv
  <1> HIDE DEF vs, now
  <1>4. stable.values \in SUBSET Registry!Value /\ stable.deleted \in BOOLEAN
    BY DEF RegInv, ReadInv
  <1>5. /\ stable'.values = stable.values \cap Registry!Elements(now)
        /\ stable'.deleted <=> stable.deleted \/ Len(now) < Len(vs)
        /\ stable' \in [values : SUBSET Registry!Value, deleted : BOOLEAN]
    BY <1>2, <1>4
  <1>6. ASSUME call.pc \in Reading
        PROVE  ReadSound(call, now, seen', stable')
    <2>1. ReadSound(call, vs, seen, stable)
      BY <1>6 DEF RegInv, ReadInv, vs
    <2>2. ASSUME ~stable'.deleted, NEW v \in stable'.values, v \notin Collected(call)
          PROVE  \E i \in DOMAIN now : i >= call.idx /\ now[i] = v
      <3>1. PICK i \in DOMAIN vs : i >= call.idx /\ vs[i] = v
        BY <1>5, <2>1, <2>2 DEF ReadSound
      <3>2. PICK j \in DOMAIN now : now[j] = v
        BY <1>5, <2>2 DEF Registry!Elements
      <3>3. i \in DOMAIN now /\ now[i].name = v.name
        BY <1>5, <2>2, <3>1, <1>3 DEF Keeps
      <3>4. i = j
        BY <1>3, <3>2, <3>3 DEF NamedOnce
      <3> QED
        BY <3>1, <3>2, <3>4
    <2> QED
      BY <1>2, <1>5, <2>1, <2>2 DEF ReadSound, Collected
  <1>7. Registry!StableReported'
    BY <1>2, <1>5 DEF RegInv, ReadInv, Registry!StableReported
  <1>8. call'.pc \in Reading => ReadSound(call', Registry!ValuesOf(reg', call'.key), seen', stable')
    BY <1>2, <1>6 DEF now
  <1>9. ReadInv'
    BY <1>5, <1>7, <1>8 DEF ReadInv
  <1> QED
    BY <1>2, <1>3, <1>9 DEF RegInv, CallPlace

LEMMA OneNumber == 1 \in Nat \ {0}
  OBVIOUS

LEMMA SizeRange == ASSUME NEW v \in Registry!Value PROVE v.size \in 0..2
  <1>1. v.size \in 1..2
    BY DEF Registry!Value
  <1> QED
    BY <1>1

LEMMA FirstPlace ==
    ASSUME NEW w \in RegCall
    PROVE  [w EXCEPT !.idx = 1] \in RegCall /\ [w EXCEPT !.idx = 1].idx = 1
  BY OneNumber DEF RegCall

\* A step of the reader that begins no key.
LEMMA GoesKeeps ==
    ASSUME RegInv, NEW c \in RegCall, Registry!Goes(c), CallPlace(c),
           c.pc \in Reading => ReadSound(c, Registry!ValuesOf(reg, c.key), seen, stable),
           c.pc = "subkey add" \/ (c.pc = "subkey" /\ c.sub = 1) =>
              stable.deleted \/ stable.values \subseteq Collected(c)
    PROVE  RegInv'
  <1>1. call' = c /\ reg' = reg /\ writes' = writes /\ seen' = seen /\ stable' = stable
    BY DEF Registry!Goes
  <1>2. Registry!StableReported'
    BY <1>1 DEF Registry!StableReported, Collected
  <1> QED
    BY <1>1, <1>2 DEF RegInv, ReadInv

LEMMA Restful ==
    ASSUME NEW c, c.pc \notin Reading \cup {"subkey", "subkey open", "subkey add"}
    PROVE  CallPlace(c)
  BY DEF CallPlace

LEMMA RestsKeeps ==
    ASSUME RegInv, NEW c \in RegCall, Registry!Goes(c),
           c.pc \notin Reading \cup {"subkey", "subkey open", "subkey add"}
    PROVE  RegInv'
  BY GoesKeeps, Restful

LEMMA FailsKeeps ==
    ASSUME RegInv, Registry!Fails("key not found") \/ Registry!Fails("buffer too small")
                   \/ Registry!Fails("invalid parameter") \/ Registry!Fails("unknown json key")
    PROVE  RegInv'
  <1>1. PICK err \in {"key not found", "buffer too small", "invalid parameter", "unknown json key"} :
           Registry!Fails(err)
    OBVIOUS
  <1> PICK c : c = [call EXCEPT !.pc = "done", !.err = err, !.out = {}]
    OBVIOUS
  <1>2. c \in RegCall /\ c.pc = "done"
    BY DEF RegInv, RegCall
  <1> QED
    BY <1>1, <1>2, RestsKeeps DEF Registry!Fails, Reading

\* A step that begins to enumerate a key.
LEMMA EnumeratesKeeps ==
    ASSUME RegInv, NEW c \in RegCall, NEW key \in Nat, Registry!Enumerates(c, key),
           key = c.top => c.out = {}, key # c.top => c.subOut = {} /\ c.top = Registry!Root
    PROVE  RegInv'
  <1> PICK d : d = [c EXCEPT !.pc = "value size", !.key = key, !.idx = 1]
    OBVIOUS
  <1> PICK vs : vs = Registry!ValuesOf(reg, key)
    OBVIOUS
  <1>1. /\ d \in RegCall /\ d.pc = "value size" /\ d.key = key /\ d.idx = 1
        /\ d.top = c.top /\ d.out = c.out /\ d.subOut = c.subOut
    <2>1. PICK u : u = [c EXCEPT !.pc = "value size"]
      OBVIOUS
    <2>2. /\ u \in RegCall /\ u.pc = "value size"
          /\ u.top = c.top /\ u.out = c.out /\ u.subOut = c.subOut
      BY <2>1 DEF RegCall, Reading
    <2>3. PICK w : w = [u EXCEPT !.key = key]
      OBVIOUS
    <2>4. /\ w \in RegCall /\ w.pc = u.pc /\ w.key = key
          /\ w.top = u.top /\ w.out = u.out /\ w.subOut = u.subOut
      BY <2>2, <2>3 DEF RegCall
    <2>5. d = [w EXCEPT !.idx = 1]
      BY <2>1, <2>3
    <2>6. d \in RegCall /\ d.idx = 1
      BY <2>4, <2>5, FirstPlace
    <2>7. /\ d.pc = w.pc /\ d.key = w.key
          /\ d.top = w.top /\ d.out = w.out /\ d.subOut = w.subOut
      BY <2>4, <2>5 DEF RegCall
    <2> QED
      BY <2>2, <2>4, <2>6, <2>7, Zenon
  <1>2. /\ call' = d /\ reg' = reg /\ writes' = writes
        /\ seen' = Registry!Elements(vs)
        /\ stable' = [values |-> Registry!Elements(vs), deleted |-> FALSE]
    BY DEF Registry!Enumerates
  <1>3. NamedOnce(vs)
    BY ValuesFacts DEF RegInv
  <1>4. Registry!Elements(vs) \in SUBSET Registry!Value /\ DOMAIN vs = 1 .. Len(vs) /\ Len(vs) \in Nat
    BY <1>3 DEF NamedOnce, Registry!Elements
  <1>5. stable'.values = Registry!Elements(vs) /\ ~stable'.deleted
        /\ stable' \in [values : SUBSET Registry!Value, deleted : BOOLEAN]
    BY <1>2, <1>4
  <1>6. Collected(d) = {}
    BY <1>1 DEF Collected
  <1>7. \A v \in stable'.values : \E i \in DOMAIN vs : i >= d.idx /\ vs[i] = v
    BY <1>1, <1>4, <1>5 DEF Registry!Elements
  <1>8. ReadSound(d, vs, seen', stable')
    BY <1>2, <1>5, <1>6, <1>7 DEF ReadSound
  <1>9. CallPlace(d)
    BY <1>1 DEF CallPlace
  <1>10. Registry!StableReported'
    BY <1>1, <1>2 DEF Registry!StableReported
  <1>11. ReadInv'
    BY <1>1, <1>2, <1>5, <1>8, <1>10 DEF ReadInv
  <1> QED
    BY <1>1, <1>2, <1>9, <1>11 DEF RegInv

LEMMA NoCallFacts ==
    /\ Registry!NoCall \in RegCall /\ Registry!NoCall.pc = "idle"
    /\ Registry!NoCall.out = {} /\ Registry!NoCall.subOut = {} /\ Registry!NoCall.top = 0
  BY DEF Registry!NoCall, Registry!Root, RegCall

LEMMA GetObjectKeeps ==
    ASSUME RegInv, NEW n \in ValueNames, Registry!GetObject(n)
    PROVE  RegInv'
  <1>1. CASE Registry!Named(reg.subs, n) # {}
    <2>1. PICK i \in Registry!Named(reg.subs, n) :
             Registry!Enumerates([Registry!NoCall EXCEPT !.top = reg.subs[i].id], reg.subs[i].id)
      BY <1>1 DEF Registry!GetObject
    <2>2. i \in DOMAIN reg.subs /\ reg.subs[i].id \in Nat
      BY DEF Registry!Named, RegInv, RegSound
    <2> PICK c : c = [Registry!NoCall EXCEPT !.top = reg.subs[i].id]
      OBVIOUS
    <2>3. c \in RegCall /\ c.top = reg.subs[i].id /\ c.out = {} /\ c.subOut = {}
      BY <2>2, NoCallFacts DEF RegCall
    <2> QED
      BY <2>1, <2>2, <2>3, EnumeratesKeeps
  <1>2. CASE Registry!Named(reg.subs, n) = {}
    <2> PICK c : c = [Registry!NoCall EXCEPT !.pc = "query size", !.name = n]
      OBVIOUS
    <2>1. c \in RegCall /\ c.pc = "query size"
      BY NoCallFacts DEF RegCall
    <2>2. Registry!Goes(c)
      BY <1>2 DEF Registry!GetObject
    <2> QED
      BY <2>1, <2>2, RestsKeeps DEF Reading
  <1> QED
    BY <1>1, <1>2

LEMMA QuerySizeKeeps ==
    ASSUME RegInv, Registry!QuerySize
    PROVE  RegInv'
  <1>1. CASE Registry!Named(reg.values, call.name) = {}
    BY <1>1, FailsKeeps DEF Registry!QuerySize
  <1>2. CASE Registry!Named(reg.values, call.name) # {}
    <2>1. PICK i \in Registry!Named(reg.values, call.name) :
             Registry!Goes([call EXCEPT !.pc = "query data", !.size = reg.values[i].size])
      BY <1>2 DEF Registry!QuerySize
    <2>2. reg.values[i] \in Registry!Value
      BY DEF Registry!Named, RegInv, RegSound, NamedOnce
    <2> PICK c : c = [call EXCEPT !.pc = "query data", !.size = reg.values[i].size]
      OBVIOUS
    <2>3. c \in RegCall /\ c.pc = "query data"
      <3> PICK u : u = [call EXCEPT !.pc = "query data"]
        OBVIOUS
      <3>1. u \in RegCall /\ u.pc = "query data"
        BY DEF RegInv, RegCall
      <3>2. c = [u EXCEPT !.size = reg.values[i].size]
        OBVIOUS
      <3>3. reg.values[i].size \in 0..2
        <4> PICK v : v = reg.values[i]
          OBVIOUS
        <4>1. v \in Registry!Value
          BY <2>2
        <4>2. v.size \in 0..2
          BY <4>1, SizeRange DEF Registry!Value
        <4> QED
          BY <4>2, Zenon
      <3> QED
        BY <3>1, <3>2, <3>3 DEF RegCall
    <2> QED
      BY <2>1, <2>3, RestsKeeps DEF Reading
  <1> QED
    BY <1>1, <1>2

LEMMA QueryDataKeeps ==
    ASSUME RegInv, Registry!QueryData
    PROVE  RegInv'
  <1>1. CASE Registry!Fails("key not found") \/ Registry!Fails("buffer too small")
    BY <1>1, FailsKeeps
  <1>2. CASE ~(Registry!Fails("key not found") \/ Registry!Fails("buffer too small"))
    <2>1. PICK i \in Registry!Named(reg.values, call.name) :
             Registry!Goes([call EXCEPT !.pc = "done", !.out = Registry!MakeValue(reg.values[i]),
                                        !.err = "ok"])
      BY <1>2 DEF Registry!QueryData
    <2>2. reg.values[i] \in Registry!Value
      BY DEF Registry!Named, RegInv, RegSound, NamedOnce
    <2>3. Registry!MakeValue(reg.values[i]) \in SUBSET Registry!Value
      BY <2>2 DEF Registry!MakeValue
    <2> PICK c : c = [call EXCEPT !.pc = "done", !.out = Registry!MakeValue(reg.values[i]),
                                  !.err = "ok"]
      OBVIOUS
    <2>4. c \in RegCall /\ c.pc = "done"
      BY <2>3 DEF RegInv, RegCall
    <2> QED
      BY <2>1, <2>4, RestsKeeps DEF Reading
  <1> QED
    BY <1>1, <1>2

\* All values of a key have been read.
LEMMA ValuesDoneKeeps ==
    ASSUME RegInv, call.pc \in Reading, Registry!Goes(Registry!ValuesDone),
           call.idx > Len(Registry!ValuesOf(reg, call.key))
    PROVE  RegInv'
  <1> PICK vs : vs = Registry!ValuesOf(reg, call.key)
    OBVIOUS
  <1> PICK c : c = Registry!ValuesDone
    OBVIOUS
  <1>1. ReadSound(call, vs, seen, stable) /\ NamedOnce(vs) /\ call.idx > Len(vs)
    BY ValuesFacts DEF RegInv, ReadInv
  <1>2. DOMAIN vs = 1 .. Len(vs) /\ Len(vs) \in Nat /\ call.idx \in Nat
    <2>1. DOMAIN vs = 1 .. Len(vs) /\ Len(vs) \in Nat
      BY <1>1 DEF NamedOnce
    <2>2. call.idx \in Nat
      BY DEF RegInv, RegCall
    <2> QED
      BY <2>1, <2>2
  <1>3. stable.deleted \/ stable.values \subseteq Collected(call)
    BY <1>1, <1>2 DEF ReadSound
  <1>4. CASE call.key # call.top
    <2>1. c = [call EXCEPT !.pc = "subkey add"]
      BY <1>4 DEF Registry!ValuesDone
    <2>2. /\ c \in RegCall /\ c.pc = "subkey add" /\ c.key = call.key /\ c.top = call.top
          /\ c.out = call.out /\ c.subOut = call.subOut
      BY <2>1 DEF RegInv, RegCall
    <2>3. Collected(c) = Collected(call)
      BY <2>2 DEF Collected
    <2>4. CallPlace(c)
      BY <1>4, <2>2 DEF CallPlace, RegInv, Reading
    <2> QED
      BY <1>3, <2>2, <2>3, <2>4, GoesKeeps DEF Reading
  <1>5. CASE call.key = call.top
    <2> PICK u : u = [call EXCEPT !.pc = "subkey"]
      OBVIOUS
    <2>1. /\ u \in RegCall /\ u.pc = "subkey" /\ u.key = call.key /\ u.top = call.top
          /\ u.out = call.out /\ u.subOut = call.subOut
      BY DEF RegInv, RegCall
    <2>2. c = [u EXCEPT !.sub = 1]
      BY <1>5 DEF Registry!ValuesDone
    <2>3. /\ c \in RegCall /\ c.pc = "subkey" /\ c.key = call.key /\ c.top = call.top
          /\ c.out = call.out /\ c.subOut = call.subOut
      BY <2>1, <2>2, OneNumber DEF RegCall
    <2>4. Collected(c) = Collected(call)
      BY <2>3 DEF Collected
    <2>5. CallPlace(c)
      BY <1>5, <2>3 DEF CallPlace, Reading
    <2> QED
      BY <1>3, <2>3, <2>4, <2>5, GoesKeeps DEF Reading
  <1> QED
    BY <1>4, <1>5

\* The updates of several fields of a call.
Sized(c, size, n) == [c EXCEPT !.pc = "value data", !.size = size, !.name = n]
NewEntry(c, i, x, y) == [c EXCEPT !.pc = "value size", !.idx = i, !.out = x, !.subOut = y]
Added(c, sub, key, y) ==
    [c EXCEPT !.pc = "subkey", !.sub = sub, !.key = key, !.subOut = {}, !.out = y]

LEMMA Sizing ==
    ASSUME NEW c \in RegCall, NEW size \in 0..2, NEW n \in ValueNames
    PROVE  LET d == Sized(c, size, n) IN
           /\ d \in RegCall
           /\ d.pc = "value data" /\ d.key = c.key /\ d.top = c.top /\ d.idx = c.idx
           /\ d.out = c.out /\ d.subOut = c.subOut
  <1>1. PICK u : u = [c EXCEPT !.pc = "value data"]
    OBVIOUS
  <1>2. u \in RegCall
    BY <1>1 DEF RegCall, Reading
  <1>3. /\ u.pc = "value data" /\ u.key = c.key /\ u.top = c.top /\ u.idx = c.idx /\ u.out = c.out
        /\ u.subOut = c.subOut
    BY <1>1 DEF RegCall
  <1>4. PICK v : v = [u EXCEPT !.size = size]
    OBVIOUS
  <1>5. v \in RegCall
    BY <1>2, <1>4 DEF RegCall
  <1>6. /\ v.pc = u.pc /\ v.key = u.key /\ v.top = u.top /\ v.idx = u.idx /\ v.out = u.out
        /\ v.subOut = u.subOut
    BY <1>2, <1>4 DEF RegCall
  <1>7. PICK d : d = [v EXCEPT !.name = n]
    OBVIOUS
  <1>8. d \in RegCall
    BY <1>5, <1>7 DEF RegCall
  <1>9. /\ d.pc = v.pc /\ d.key = v.key /\ d.top = v.top /\ d.idx = v.idx /\ d.out = v.out
        /\ d.subOut = v.subOut
    BY <1>5, <1>7 DEF RegCall
  <1>10. d = Sized(c, size, n)
    BY <1>1, <1>4, <1>7 DEF Sized
  <1> QED
    BY <1>3, <1>6, <1>8, <1>9, <1>10, Zenon

LEMMA Adding ==
    ASSUME NEW c \in RegCall, NEW sub \in Nat \ {0}, NEW key \in Nat, NEW y \in SUBSET Registry!Value
    PROVE  LET d == Added(c, sub, key, y) IN
           /\ d \in RegCall
           /\ d.pc = "subkey" /\ d.key = key /\ d.top = c.top /\ d.sub = sub
  <1>1. PICK u : u = [c EXCEPT !.pc = "subkey"]
    OBVIOUS
  <1>2. u \in RegCall /\ u.pc = "subkey" /\ u.top = c.top
    BY <1>1 DEF RegCall
  <1>3. PICK v : v = [u EXCEPT !.sub = sub]
    OBVIOUS
  <1>4. v \in RegCall /\ v.pc = u.pc /\ v.top = u.top /\ v.sub = sub
    BY <1>2, <1>3 DEF RegCall
  <1>5. PICK w : w = [v EXCEPT !.key = key]
    OBVIOUS
  <1>6. w \in RegCall /\ w.pc = v.pc /\ w.top = v.top /\ w.sub = v.sub /\ w.key = key
    BY <1>4, <1>5 DEF RegCall
  <1>7. PICK x : x = [w EXCEPT !.subOut = {}]
    OBVIOUS
  <1>8. x \in RegCall /\ x.pc = w.pc /\ x.top = w.top /\ x.sub = w.sub /\ x.key = w.key
    BY <1>6, <1>7 DEF RegCall
  <1>9. PICK d : d = [x EXCEPT !.out = y]
    OBVIOUS
  <1>10. d \in RegCall
    BY <1>8, <1>9 DEF RegCall
  <1>11. d.pc = x.pc /\ d.top = x.top /\ d.sub = x.sub /\ d.key = x.key
    BY <1>8, <1>9 DEF RegCall
  <1>12. d = Added(c, sub, key, y)
    BY <1>1, <1>3, <1>5, <1>7, <1>9 DEF Added
  <1> QED
    BY <1>2, <1>4, <1>6, <1>8, <1>10, <1>11, <1>12, Zenon

\* A call that reads on, with what it has collected.
LEMMA ReadsOn ==
    ASSUME RegInv, call.pc \in Reading, NEW c \in RegCall, Registry!Goes(c), c.pc \in Reading,
           c.key = call.key, c.top = call.top,
           ReadSound(c, Registry!ValuesOf(reg, call.key), seen, stable)
    PROVE  RegInv'
  <1>1. CallPlace(c)
    BY DEF RegInv, CallPlace, Reading
  <1>2. c.pc # "subkey add" /\ c.pc # "subkey"
    BY DEF Reading
  <1> QED
    BY <1>1, <1>2, GoesKeeps

\* The reader has the size and the name of a value.
LEMMA SizesOn ==
    ASSUME RegInv, call.pc \in Reading, NEW size \in 0..2, NEW n \in ValueNames,
           NEW c, c = Sized(call, size, n), Registry!Goes(c)
    PROVE  RegInv'
  <1>1. call \in RegCall
    BY DEF RegInv
  <1>2. /\ c \in RegCall /\ c.pc = "value data" /\ c.key = call.key /\ c.top = call.top
        /\ c.idx = call.idx /\ c.out = call.out /\ c.subOut = call.subOut
    BY <1>1, Sizing
  <1>3. Collected(c) = Collected(call)
    BY <1>2, Zenon DEF Collected
  <1>4. ReadSound(call, Registry!ValuesOf(reg, call.key), seen, stable)
    BY DEF RegInv, ReadInv
  <1>5. ReadSound(c, Registry!ValuesOf(reg, call.key), seen, stable)
    BY <1>2, <1>3, <1>4, Zenon DEF ReadSound
  <1> QED
    BY <1>2, <1>5, ReadsOn DEF Reading

\* What has been collected of the key, and before a place of it.
Collecting(x, y) == IF call.key = call.top THEN x ELSE y
Ahead(vs, a, i) ==
    /\ a \subseteq seen
    /\ ~stable.deleted => \A v \in stable.values : v \in a \/ \E j \in DOMAIN vs : j >= i /\ vs[j] = v

\* The reader has entered a value.
LEMMA EntersOn ==
    ASSUME RegInv, call.pc \in Reading, NEW i \in Nat \ {0},
           NEW x \in SUBSET Registry!Value, NEW y \in SUBSET Registry!Value,
           NEW c, c = NewEntry(call, i, x, y)
    PROVE  Registry!Goes(c) /\ Ahead(Registry!ValuesOf(reg, call.key), Collecting(x, y), i) => RegInv'
  <1>1. call \in RegCall
    BY DEF RegInv
  <1>2. /\ c \in RegCall /\ c.pc = "value size" /\ c.key = call.key /\ c.top = call.top
        /\ c.idx = i /\ c.out = x /\ c.subOut = y
    <2>1. PICK u : u = [call EXCEPT !.pc = "value size"]
      OBVIOUS
    <2>2. u \in RegCall /\ u.pc = "value size" /\ u.key = call.key /\ u.top = call.top
      BY <1>1, <2>1 DEF RegCall, Reading
    <2>3. PICK v : v = [u EXCEPT !.idx = i]
      OBVIOUS
    <2>4. v \in RegCall /\ v.pc = u.pc /\ v.key = u.key /\ v.top = u.top /\ v.idx = i
      BY <2>2, <2>3 DEF RegCall
    <2>5. PICK w : w = [v EXCEPT !.out = x]
      OBVIOUS
    <2>6. w \in RegCall
      BY <2>4, <2>5 DEF RegCall
    <2>7. w.pc = v.pc /\ w.key = v.key /\ w.top = v.top /\ w.idx = v.idx /\ w.out = x
      BY <2>4, <2>5 DEF RegCall
    <2>8. c = [w EXCEPT !.subOut = y]
      BY <2>1, <2>3, <2>5 DEF NewEntry
    <2>9. c \in RegCall
      BY <2>6, <2>8 DEF RegCall
    <2>10. /\ c.pc = w.pc /\ c.key = w.key /\ c.top = w.top /\ c.idx = w.idx /\ c.out = w.out
           /\ c.subOut = y
      BY <2>6, <2>8 DEF RegCall
    <2> QED
      BY <2>2, <2>4, <2>7, <2>9, <2>10, Zenon
  <1>3. Collected(c) = Collecting(x, y)
    BY <1>2, Zenon DEF Collected, Collecting
  <1>4. ReadSound(call, Registry!ValuesOf(reg, call.key), seen, stable)
    BY DEF RegInv, ReadInv
  <1>5. HAVE Registry!Goes(c) /\ Ahead(Registry!ValuesOf(reg, call.key), Collecting(x, y), i)
  <1>6. Ahead(Registry!ValuesOf(reg, call.key), Collected(c), c.idx)
    BY <1>2, <1>3, <1>5
  <1>7. ReadSound(c, Registry!ValuesOf(reg, call.key), seen, stable)
    BY <1>4, <1>6, Zenon DEF ReadSound, Ahead
  <1> QED
    BY <1>2, <1>5, <1>7, ReadsOn DEF Reading

LEMMA EnumValueSizeKeeps ==
    ASSUME RegInv, Registry!EnumValueSize
    PROVE  RegInv'
  <1> PICK vs : vs = Registry!ValuesOf(reg, call.key)
    OBVIOUS
  <1> PICK i : i = call.idx
    OBVIOUS
  <1>1. call.pc \in Reading
    BY DEF Registry!EnumValueSize, Reading
  <1>2. CASE Registry!Fails("invalid parameter")
    BY <1>2, FailsKeeps
  <1>3. CASE i > Len(vs) /\ Registry!Goes(Registry!ValuesDone)
    BY <1>1, <1>3, ValuesDoneKeeps
  <1>4. CASE ~(i > Len(vs)) /\ Registry!Goes([call EXCEPT !.pc = "value data", !.size = vs[i].size,
                                                          !.name = vs[i].name])
    <2>1. ReadSound(call, vs, seen, stable) /\ NamedOnce(vs)
      BY <1>1, ValuesFacts DEF RegInv, ReadInv
    <2>2. i \in Nat \ {0}
      BY DEF RegInv, RegCall
    <2> PICK v : v = vs[i]
      OBVIOUS
    <2>3. v \in Registry!Value
      BY <1>4, <2>1, <2>2 DEF NamedOnce
    <2>4. v.size \in 0..2 /\ v.name \in ValueNames
      BY <2>3, SizeRange DEF Registry!Value
    <2>5. Registry!Goes(Sized(call, v.size, v.name))
      BY <1>4 DEF Sized
    <2> QED
      BY <1>1, <2>4, <2>5, SizesOn
  <1> QED
    BY <1>2, <1>3, <1>4 DEF Registry!EnumValueSize

LEMMA EnteredFacts ==
    ASSUME NEW s \in SUBSET Registry!Value, NEW v \in Registry!Value
    PROVE  /\ Registry!Entered(s, v) \in SUBSET Registry!Value
           /\ v \in Registry!Entered(s, v)
           /\ Registry!Entered(s, v) \subseteq s \cup {v}
           /\ \A x \in s : x.name # v.name => x \in Registry!Entered(s, v)
  BY DEF Registry!Entered

\* The value that is read is entered: nothing that was there is lost but what had
\* its name, which it is.
LEMMA Advances ==
    ASSUME NEW vs, NamedOnce(vs), NEW i \in Nat, i \in DOMAIN vs,
           NEW a \in SUBSET Registry!Value, NEW s, NEW was, Registry!Elements(vs) \subseteq s,
           a \subseteq s, was \subseteq Registry!Elements(vs)
    PROVE  LET e == Registry!Entered(a, vs[i]) IN
           /\ e \subseteq s
           /\ (\A y \in was : y \in a \/ \E j \in DOMAIN vs : j >= i /\ vs[j] = y) =>
                 \A y \in was : y \in e \/ \E j \in DOMAIN vs : j >= i + 1 /\ vs[j] = y
  <1> PICK v : v = vs[i]
    OBVIOUS
  <1> PICK e : e = Registry!Entered(a, v)
    OBVIOUS
  <1>1. v \in Registry!Value /\ v \in s /\ \A j \in DOMAIN vs : j \in Nat
    BY DEF NamedOnce, Registry!Elements
  <1>2. /\ e \subseteq a \cup {v} /\ v \in e
        /\ \A x \in a : x.name # v.name => x \in e
    BY <1>1, EnteredFacts
  <1>3. ASSUME \A y \in was : y \in a \/ \E j \in DOMAIN vs : j >= i /\ vs[j] = y,
               NEW y \in was, y \notin e
        PROVE  \E j \in DOMAIN vs : j >= i + 1 /\ vs[j] = y
    <2>1. y # v
      BY <1>2, <1>3
    <2>2. PICK j \in DOMAIN vs : vs[j] = y
      BY DEF Registry!Elements
    <2>3. y.name # v.name
      BY <2>1, <2>2 DEF NamedOnce
    <2>4. y \notin a
      BY <1>2, <1>3, <2>3
    <2>5. PICK k \in DOMAIN vs : k >= i /\ vs[k] = y
      BY <1>3, <2>4
    <2>6. k # i /\ k \in Nat
      BY <1>1, <2>1, <2>5
    <2>7. k >= i + 1
      BY <2>5, <2>6
    <2> QED
      BY <2>5, <2>7
  <1>4. e \subseteq s
    BY <1>1, <1>2
  <1> QED
    BY <1>3, <1>4

LEMMA EnumValueDataKeeps ==
    ASSUME RegInv, Registry!EnumValueData
    PROVE  RegInv'
  <1> PICK vs : vs = Registry!ValuesOf(reg, call.key)
    OBVIOUS
  <1> PICK i : i = call.idx
    OBVIOUS
  <1> PICK v : v = vs[i]
    OBVIOUS
  <1>o. PICK outs : outs = IF call.key = call.top THEN Registry!Entered(call.out, v) ELSE call.out
    OBVIOUS
  <1>s. PICK subOut : subOut = IF call.key = call.top THEN call.subOut
                             ELSE Registry!Entered(call.subOut, v)
    OBVIOUS
  <1>1. call.pc \in Reading
    BY DEF Registry!EnumValueData, Reading
  <1>2. CASE \/ Registry!Fails("invalid parameter") \/ Registry!Fails("buffer too small")
             \/ Registry!Fails("unknown json key")
    BY <1>2, FailsKeeps
  <1>3. CASE i > Len(vs) /\ Registry!Goes(Registry!ValuesDone)
    BY <1>1, <1>3, ValuesDoneKeeps
  <1>4. CASE ~(i > Len(vs)) /\ Registry!Goes([call EXCEPT !.pc = "value size", !.idx = i + 1,
                                                          !.out = outs, !.subOut = subOut])
    <2>1. ReadSound(call, vs, seen, stable) /\ NamedOnce(vs)
      BY <1>1, ValuesFacts DEF RegInv, ReadInv
    <2>2. i \in Nat \ {0} /\ i + 1 \in Nat \ {0}
      <3>1. i \in Nat \ {0}
        BY DEF RegInv, RegCall
      <3> QED
        BY <3>1
    <2>3. v \in Registry!Value /\ i \in DOMAIN vs /\ \A j \in DOMAIN vs : j \in Nat
      BY <1>4, <2>1, <2>2 DEF NamedOnce
    <2>4. call.out \in SUBSET Registry!Value /\ call.subOut \in SUBSET Registry!Value
      BY DEF RegInv, RegCall
    <2>5. outs \in SUBSET Registry!Value /\ subOut \in SUBSET Registry!Value
      BY <1>o, <1>s, <2>3, <2>4, EnteredFacts
    <2>6. Registry!Goes(NewEntry(call, i + 1, outs, subOut))
      BY <1>4 DEF NewEntry
    <2>7. PICK a : a = Collected(call)
      OBVIOUS
    <2>8. PICK e : e = Registry!Entered(a, v)
      OBVIOUS
    <2>9. e = IF call.key = call.top THEN outs ELSE subOut
      BY <1>o, <1>s, <2>7, <2>8 DEF Collected
    <2>10. /\ Registry!Elements(vs) \subseteq seen /\ a \subseteq seen
           /\ stable.values \subseteq Registry!Elements(vs)
           /\ ~stable.deleted => \A y \in stable.values :
                 y \in a \/ \E j \in DOMAIN vs : j >= i /\ vs[j] = y
      BY <2>1, <2>7 DEF ReadSound
    <2>11. a \in SUBSET Registry!Value /\ i \in Nat
      BY <2>2, <2>4, <2>7 DEF Collected
    <2>12. Ahead(vs, e, i + 1)
      BY <2>1, <2>3, <2>8, <2>10, <2>11, Advances DEF Ahead
    <2>13. Ahead(Registry!ValuesOf(reg, call.key), Collecting(outs, subOut), i + 1)
      BY <2>9, <2>12 DEF Collecting
    <2> QED
      BY <1>1, <2>2, <2>5, <2>6, <2>13, EntersOn, Zenon
  <1> QED
    BY <1>o, <1>s, <1>2, <1>3, <1>4 DEF Registry!EnumValueData, Registry!Entry, Registry!NextIndex

LEMMA EnumSubKeyKeeps ==
    ASSUME RegInv, Registry!EnumSubKey
    PROVE  RegInv'
  <1>1. CASE Registry!Goes([call EXCEPT !.pc = "done", !.err = "ok"])
    <2> PICK u : u = [call EXCEPT !.pc = "done"]
      OBVIOUS
    <2>1. u \in RegCall /\ u.pc = "done"
      BY DEF RegInv, RegCall
    <2> PICK c : c = [u EXCEPT !.err = "ok"]
      OBVIOUS
    <2>2. c \in RegCall /\ c.pc = "done"
      BY <2>1 DEF RegCall
    <2>3. Registry!Goes(c)
      BY <1>1
    <2> QED
      BY <2>2, <2>3, RestsKeeps DEF Reading
  <1>0. CASE Registry!Fails("invalid parameter")
    BY <1>0, FailsKeeps
  <1>2. CASE call.key = Registry!Root /\ ~(call.sub > Len(reg.subs))
             /\ Registry!Goes([call EXCEPT !.pc = "subkey open", !.subName = reg.subs[call.sub].name])
    <2>1. reg.subs \in Seq(Subkey) /\ call.sub \in Nat \ {0}
      BY DEF RegInv, RegSound, RegCall, Subkeys
    <2>2. reg.subs[call.sub] \in Subkey
      BY <1>2, <2>1
    <2> PICK n : n = reg.subs[call.sub].name
      OBVIOUS
    <2>3. n \in ValueNames
      BY <2>2 DEF Subkey
    <2> PICK u : u = [call EXCEPT !.pc = "subkey open"]
      OBVIOUS
    <2>4. u \in RegCall /\ u.pc = "subkey open" /\ u.top = call.top
      BY DEF RegInv, RegCall
    <2> PICK c : c = [u EXCEPT !.subName = n]
      OBVIOUS
    <2>5. c \in RegCall /\ c.pc = "subkey open" /\ c.top = call.top
      BY <2>3, <2>4 DEF RegCall
    <2>6. Registry!Goes(c)
      BY <1>2
    <2>7. CallPlace(c)
      BY <1>2, <2>5 DEF RegInv, CallPlace, Registry!EnumSubKey, Reading
    <2> QED
      BY <2>5, <2>6, <2>7, GoesKeeps DEF Reading
  <1> QED
    BY <1>0, <1>1, <1>2 DEF Registry!EnumSubKey

LEMMA OpenSubKeyKeeps ==
    ASSUME RegInv, Registry!OpenSubKey
    PROVE  RegInv'
  <1>1. CASE Registry!Fails("key not found")
    BY <1>1, FailsKeeps
  <1>2. CASE Registry!Named(reg.subs, call.subName) # {}
    <2>1. PICK i \in Registry!Named(reg.subs, call.subName) :
             Registry!Enumerates([call EXCEPT !.subOut = {}], reg.subs[i].id)
      BY <1>2 DEF Registry!OpenSubKey
    <2>2. i \in DOMAIN reg.subs /\ reg.subs[i].id \in Nat /\ reg.subs[i].id # 0
      BY DEF Registry!Named, RegInv, RegSound
    <2> PICK c : c = [call EXCEPT !.subOut = {}]
      OBVIOUS
    <2>3. c \in RegCall /\ c.top = call.top /\ c.subOut = {}
      BY DEF RegInv, RegCall
    <2>4. call.top = Registry!Root /\ Registry!Root = 0
      BY DEF RegInv, CallPlace, Registry!OpenSubKey, Registry!Root
    <2> QED
      BY <2>1, <2>2, <2>3, <2>4, EnumeratesKeeps
  <1> QED
    BY <1>1, <1>2 DEF Registry!OpenSubKey

LEMMA AddSubKeyKeeps ==
    ASSUME RegInv, Registry!AddSubKey
    PROVE  RegInv'
  <1>f. CASE Registry!Fails("invalid parameter")
    BY <1>f, FailsKeeps
  <1> PICK outs : outs = {x \in call.out : x.name # call.subName}
    OBVIOUS
  <1>1. call.out \in SUBSET Registry!Value /\ call.sub \in Nat \ {0} /\ call.sub + 1 \in Nat \ {0}
        /\ call.sub + 1 # 1
    <2>1. call.out \in SUBSET Registry!Value /\ call.sub \in Nat \ {0}
      BY DEF RegInv, RegCall
    <2> QED
      BY <2>1
  <1>2. outs \in SUBSET Registry!Value /\ {} \in SUBSET Registry!Value
    BY <1>1
  <1>3. PICK c : c = Added(call, call.sub + 1, Registry!Root, outs)
    OBVIOUS
  <1>4. call \in RegCall /\ Registry!Root \in Nat
    BY DEF RegInv, Registry!Root
  <1>5. /\ c \in RegCall /\ c.pc = "subkey" /\ c.top = call.top /\ c.sub = call.sub + 1
        /\ c.key = Registry!Root
    BY <1>1, <1>2, <1>3, <1>4, Adding
  <1>7. c.sub # 1
    BY <1>1, <1>5
  <1>8. CASE Registry!Goes(c)
    <2>1. CallPlace(c)
      BY <1>5 DEF RegInv, CallPlace, Registry!AddSubKey, Reading
    <2> QED
      BY <1>5, <1>7, <1>8, <2>1, GoesKeeps DEF Reading
  <1> QED
    BY <1>3, <1>f, <1>8 DEF Registry!AddSubKey, Added

\* Every step of the registry and of the reader.
LEMMA RegStep ==
    ASSUME RegInv, Registry!Next
    PROVE  RegInv'
  <1>1. CASE Registry!RegWriter
    BY <1>1, WriterKeeps
  <1>2. CASE \E n \in ValueNames : Registry!GetObject(n)
    BY <1>2, GetObjectKeeps
  <1>3. CASE Registry!FirstObject
    BY <1>3, NoCallFacts, EnumeratesKeeps DEF Registry!FirstObject, Registry!Root
  <1>4. CASE Registry!QuerySize \/ Registry!QueryData
    BY <1>4, QuerySizeKeeps, QueryDataKeeps
  <1>5. CASE Registry!EnumValueSize \/ Registry!EnumValueData
    BY <1>5, EnumValueSizeKeeps, EnumValueDataKeeps
  <1>6. CASE Registry!EnumSubKey \/ Registry!OpenSubKey \/ Registry!AddSubKey
    BY <1>6, EnumSubKeyKeeps, OpenSubKeyKeeps, AddSubKeyKeeps
  <1>7. CASE Registry!Return
    BY <1>7, NoCallFacts, RestsKeeps DEF Registry!Return, Reading
  <1> QED
    BY <1>1, <1>2, <1>3, <1>4, <1>5, <1>6, <1>7 DEF Registry!Next

LEMMA RegInitial ==
    ASSUME Registry!Init
    PROVE  RegInv
  <1>1. reg = [values |-> <<>>, subs |-> <<>>] /\ writes = 0
    BY DEF Registry!Init, Registry!NoKey
  <1>2. RegSound(reg, writes)
    <2>1. NamedOnce(<<>>)
      BY DEF NamedOnce
    <2>2. reg \in [values : Seq(Registry!Value), subs : Subkeys]
      BY <1>1 DEF Subkeys
    <2> QED
      BY <1>1, <2>1, <2>2 DEF RegSound
  <1>3. call \in RegCall /\ call.pc = "idle"
    BY NoCallFacts DEF Registry!Init
  <1>4. CallPlace(call)
    BY <1>3 DEF CallPlace, Reading
  <1>5. ReadInv
    BY <1>3 DEF ReadInv, Registry!Init, Registry!StableReported, Reading
  <1> QED
    BY <1>2, <1>3, <1>4, <1>5 DEF RegInv

LEMMA RegMCStep ==
    ASSUME of = "registry" => RegInv, [MCNext]_allVars
    PROVE  (of = "registry" => RegInv)'
  <1>1. CASE UNCHANGED allVars
    <2>1. /\ of' = of /\ reg' = reg /\ writes' = writes /\ seen' = seen /\ stable' = stable
          /\ call' = call
      BY <1>1 DEF allVars, registryVars
    <2>2. RegInv => RegInv'
      BY <2>1 DEF RegInv, ReadInv, Registry!StableReported
    <2> QED
      BY <2>1, <2>2
  <1>2. CASE MCNext /\ of = "registry"
    <2>1. Registry!Next /\ of' = of
      BY <1>2, Zenon DEF MCNext, Changes
    <2> QED
      BY <1>2, <2>1, RegStep
  <1>3. CASE MCNext /\ of # "registry"
    BY <1>3 DEF MCNext
  <1> QED
    BY <1>1, <1>2, <1>3

\* RegistryFaithful: whatever an administrator does between the two calls for a
\* value, what an enumeration reports was in the key during the enumeration, and a
\* value that was there all the time is reported unless another was deleted.
THEOREM RegistryIsFaithful == MCSpec => []RegistryFaithful
  <1>1. MCInit => (of = "registry" => RegInv)
    BY RegInitial, Zenon DEF MCInit, Changes
  <1>2. (of = "registry" => RegInv) /\ [MCNext]_allVars => (of = "registry" => RegInv)'
    BY RegMCStep
  <1>3. (of = "registry" => RegInv) => RegistryFaithful
    <2>1. RegInv => Registry!ReportedWasThere /\ Registry!StableReported
      BY DEF RegInv, ReadInv, ReadSound, Collected, Reading, Registry!ReportedWasThere
    <2> QED
      BY <2>1 DEF RegistryFaithful
  <1> QED
    BY <1>1, <1>2, <1>3, PTL DEF MCSpec
=============================================================================
