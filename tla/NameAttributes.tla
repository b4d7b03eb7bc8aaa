---------------------------- MODULE NameAttributes ----------------------------
(***************************************************************************)
(* GSS names and their attribute contexts (mech_browserid/util_name.c,     *)
(* util_attr.cpp and the three attribute providers util_browserid.cpp,     *)
(* util_saml.cpp and util_shib.cpp).                                       *)
(*                                                                         *)
(* A name has an attribute context when it came out of an established      *)
(* acceptor context, was duplicated from such a name, or was imported from *)
(* a composite token.  The attribute context holds one provider of each    *)
(* kind that the process has registered:                                   *)
(*   jwt    a reference to a JSON object, the claims of the assertion;     *)
(*   saml   the assertion found in the claim "saml", with its attributes   *)
(*          (the two SAML providers, which are registered together);       *)
(*   local  the attributes resolved by Shibboleth.                         *)
(* Processes differ in the providers they have: SAML is a build option,    *)
(* and the Shibboleth resolver may fail to initialise.                     *)
(*                                                                         *)
(* A call on a name holds the name's mutex (gss_*_name_attribute and the   *)
(* like).                                                                  *)
(***************************************************************************)
EXTENDS Naturals, Sequences, SequencesExt

CONSTANTS
    Optional,   \* the optional providers that processes may have
    Procs,      \* processes between which exported names travel
    Threads,    \* threads calling on names
    Names,      \* handles of names, over all processes
    Ids,        \* names of local and of SAML attributes
    MaxAttrs,   \* bound: attributes of one provider
    Kinds,      \* the attribute prefixes applications use
    WithTokens  \* whether names are exported and imported

ASSUME NameAttributesAssumption ==
    /\ Kinds \subseteq {"jwt", "samlassertion", "samlattr", "local"}
    /\ Optional \subseteq {"saml", "local"}
    /\ MaxAttrs \in Nat \ {0}

VARIABLES
    providers,  \* the optional providers registered in each process
    names,      \* the names
    objects,    \* the JSON objects the jwt providers refer to
    tokens,     \* the exported names
    calls,      \* the call each thread is in
    answer      \* what the last gss_get_name_attribute reported

vars == <<providers, names, objects, tokens, calls, answer>>

Nothing == "none"
Identity == "identity"
Objects == Names \cup {Identity}

Claims == {"email", "saml"}
Sources == {"issued", "set"}

NoClaims == [c \in Claims |-> Nothing]
NoName == [proc |-> Nothing]
NoCtx == [disabled |-> Nothing]
Idle == [op |-> Nothing]
NoAnswer == [kind |-> Nothing]

\* An attribute of a SAML assertion or of the local provider, and whether it
\* is from the issuer or from a call of the application.
Attribute == [id : {"local", "samlattr", "samlassertion"} \X Ids, src : Sources]
AttributeLists == UNION {[1 .. k -> Attribute] : k \in 0 .. MaxAttrs}
Json == [Claims -> Sources \cup {Nothing}]
Provided == [attrs : AttributeLists, auth : BOOLEAN, there : BOOLEAN]

\* A provider that is not there, an assertion that is not set, and a local
\* provider whose m_initialized is FALSE, respectively.
Absent == [attrs |-> <<>>, auth |-> FALSE, there |-> FALSE]
NoAssertion == Absent
Uninitialised == Absent

\* samlThere, localThere: m_providers[type] != NULL.
AttrCtx ==
    [disabled : BOOLEAN, jwt : Objects, samlThere : BOOLEAN, saml : Provided,
     localThere : BOOLEAN, local : Provided]

Live(n) == names[n].proc # Nothing
HasCtx(n) == Live(n) /\ names[n].ctx # NoCtx

-----------------------------------------------------------------------------
(***************************************************************************)
(* Providers and attribute contexts                                        *)
(***************************************************************************)

\* Wrong variant: the flag is not looked at.
LocalEnabledAlways(p, disabled) == "local" \in providers[p]

\* BIDGSSAttributeContext::providerEnabled, of the local provider.
LocalEnabled(p, disabled) == "local" \in providers[p] /\ ~disabled

\* Setting the claim "saml" of a JSON object makes an assertion of it when the
\* SAML provider is initialised; a jwt provider always says authenticated.
SamlOf(json) ==
    IF json["saml"] = Nothing
    THEN NoAssertion
    ELSE [attrs |-> <<[id |-> <<"samlattr", "s">>, src |-> json["saml"]]>>, auth |-> TRUE, there |-> TRUE]

\* What the Shibboleth resolver makes of the name and the assertion.
Resolved ==
    [attrs |-> <<[id |-> <<"local", "r">>, src |-> "issued"]>>, auth |-> TRUE, there |-> TRUE]

\* BIDGSSAttributeContext::initWithGssContext of a context of process p.
ContextFor(p, claims, disabled) ==
    [disabled |-> disabled,
     jwt |-> Identity,
     samlThere |-> "saml" \in providers[p],
     saml |-> IF "saml" \in providers[p] THEN SamlOf(claims) ELSE NoAssertion,
     localThere |-> LocalEnabled(p, disabled),
     local |-> IF LocalEnabled(p, disabled) THEN Resolved ELSE Absent]

\* BIDGSSShibbolethAttributeProvider::initWithExistingContext; the copy is
\* initialised even if the provider is not.
LocalCopy(local) == [local EXCEPT !.there = TRUE]

\* BIDGSSAttributeContext::initWithExistingContext: the assertion and the
\* local attributes are copied, the JSON object only gets another reference.
CopyOf(ctx) == [ctx EXCEPT !.local = IF ctx.localThere THEN LocalCopy(@) ELSE @]

\* BIDGSSShibbolethAttributeProvider::jsonRepresentation, "don't export
\* incomplete context", and initWithJsonObject, which takes an empty object for
\* a provider without attributes.
LocalJson(local) == IF local.there THEN local ELSE Absent
LocalOfJson(source) == [source EXCEPT !.there = TRUE]

\* BIDGSSAttributeContext::jsonRepresentation: the providers with a name().
Exported(ctx) ==
    [disabled |-> ctx.disabled,
     jwt |-> objects[ctx.jwt],
     localThere |-> ctx.localThere,
     local |-> LocalJson(ctx.local)]

\* BIDGSSAttributeContext::initWithJsonObject in process p, the JSON object
\* being o: a local provider for which the token has no source stays as it was
\* constructed, one whose source is empty is initialised without attributes.
Imported(p, source, o) ==
    [disabled |-> source.disabled,
     jwt |-> o,
     samlThere |-> "saml" \in providers[p],
     saml |-> IF "saml" \in providers[p] THEN SamlOf(source.jwt) ELSE NoAssertion,
     localThere |-> LocalEnabled(p, source.disabled),
     local |-> IF LocalEnabled(p, source.disabled) /\ source.localThere
               THEN LocalOfJson(source.local)
               ELSE Uninitialised]

\* The JSON objects that some name or the context's identity refers to.
InUse == {Identity} \cup {names[n].ctx.jwt : n \in {m \in Names : HasCtx(m)}}

-----------------------------------------------------------------------------
(***************************************************************************)
(* The providers' attribute operations                                     *)
(***************************************************************************)

\* BIDGSSAttributeContext::attributePrefixToType: a prefix without a provider
\* is local, and then the local attribute's name includes the prefix.
TypeOf(ctx, kind) == IF kind \in {"samlattr", "samlassertion"} /\ ~ctx.samlThere
                     THEN "local" ELSE kind

Has(attrs, id) == \E i \in DOMAIN attrs : attrs[i].id = id
First(attrs, id) == CHOOSE i \in DOMAIN attrs :
                        attrs[i].id = id /\ \A j \in 1 .. i - 1 : attrs[j].id # id

\* BIDGSSShibbolethAttributeProvider::getAttributeIndex never counts: it
\* returns 0 for every attribute there is.
getAttributeIndex(attrs, id) == IF Has(attrs, id) THEN 1 ELSE 0

\* Wrong variant: the attributes stay authenticated.
LocalSetKept(local, id) == [local EXCEPT !.attrs = Append(@, [id |-> id, src |-> "set"])]

\* BIDGSSShibbolethAttributeProvider::setAttribute
LocalSet(local, id) ==
    [local EXCEPT !.attrs = Append(@, [id |-> id, src |-> "set"]), !.auth = FALSE]

\* BIDGSSShibbolethAttributeProvider::deleteAttribute
LocalDelete(local, id) ==
    [local EXCEPT !.attrs = IF getAttributeIndex(@, id) > 0
                            THEN RemoveAt(@, getAttributeIndex(@, id)) ELSE @,
                  !.auth = FALSE]

\* BIDGSSSAMLAttributeProvider::setAttribute, which makes an assertion when
\* there is none and leaves m_authenticated alone when there is one.
SamlAttrSet(saml, id) ==
    [saml EXCEPT !.attrs = Append(@, [id |-> id, src |-> "set"]), !.there = TRUE]

\* BIDGSSSAMLAttributeProvider::deleteAttribute
SamlAttrDelete(saml, id) ==
    IF Has(saml.attrs, id) THEN [saml EXCEPT !.attrs = RemoveAt(@, First(@, id))] ELSE saml

\* BIDGSSSAMLAssertionProvider::setAttribute, the application's assertion.
SamlAssertionSet ==
    [attrs |-> <<[id |-> <<"samlattr", "s">>, src |-> "set"]>>, auth |-> FALSE, there |-> TRUE]

\* gssBidSetNameAttribute and gssBidDeleteNameAttribute on the context ctx,
\* apart from the JSON object.
SetIn(ctx, kind, id) ==
    CASE TypeOf(ctx, kind) = "samlassertion" -> [ctx EXCEPT !.saml = SamlAssertionSet]
      [] TypeOf(ctx, kind) = "samlattr"      -> [ctx EXCEPT !.saml = SamlAttrSet(@, <<kind, id>>)]
      [] TypeOf(ctx, kind) = "local" /\ ctx.localThere
                                             -> [ctx EXCEPT !.local = LocalSet(@, <<kind, id>>)]
      [] OTHER                               -> ctx

DeleteIn(ctx, kind, id) ==
    CASE TypeOf(ctx, kind) = "samlassertion" -> [ctx EXCEPT !.saml = NoAssertion]
      [] TypeOf(ctx, kind) = "samlattr"      -> [ctx EXCEPT !.saml = SamlAttrDelete(@, <<kind, id>>)]
      [] TypeOf(ctx, kind) = "local" /\ ctx.localThere
                                             -> [ctx EXCEPT !.local = LocalDelete(@, <<kind, id>>)]
      [] OTHER                               -> ctx

\* gssBidGetNameAttribute of a local attribute.
LocalAnswer(local, id) ==
    IF Has(local.attrs, id)
    THEN [kind |-> "local", auth |-> local.auth, src |-> local.attrs[First(local.attrs, id)].src]
    ELSE NoAnswer

-----------------------------------------------------------------------------
(***************************************************************************)
(* The operations                                                          *)
(***************************************************************************)

Init ==
    /\ providers \in [Procs -> SUBSET Optional]
    /\ names = [n \in Names |-> NoName]
    /\ objects = [o \in Objects |-> NoClaims]
    /\ tokens = {}
    /\ calls = [t \in Threads |-> Idle]
    /\ answer = NoAnswer

Unused(n) == ~Live(n)

\* A name is locked while a thread is in a call on it.
Locked(n) == \E t \in Threads : calls[t] # Idle /\ calls[t].name = n
Callable(n) == Live(n) /\ ~Locked(n)

\* The bound on the attributes of a provider.
HasRoom(ctx) == Len(ctx.local.attrs) < MaxAttrs /\ Len(ctx.saml.attrs) < MaxAttrs

\* gssBidContextReady creates the attribute context of the initiator's name;
\* the credential may disable local attributes.  When the resolver fails the
\* context is not established and the application gets no name.  One context
\* at a time: its identity's claims are the object Identity, which goes on
\* living as long as names refer to it.
Establish(p, n, disabled) ==
    /\ Unused(n)
    /\ \A m \in Names : HasCtx(m) => names[m].ctx.jwt # Identity
    /\ \E saml \in IF "saml" \in Optional THEN {"issued", Nothing} ELSE {Nothing} :
          LET claims == [email |-> "issued", saml |-> saml] IN
          /\ objects' = [objects EXCEPT ![Identity] = claims]
          /\ names' = [names EXCEPT ![n] =
                          [proc |-> p, mn |-> TRUE, noLocal |-> disabled,
                           ctx |-> ContextFor(p, claims, disabled)]]
    /\ answer' = NoAnswer
    /\ UNCHANGED <<providers, tokens, calls>>

\* gss_import_name of a user, service or anonymous name.
ImportName(p, n) ==
    /\ WithTokens
    /\ Unused(n)
    /\ names' = [names EXCEPT ![n] =
                    [proc |-> p, mn |-> FALSE, noLocal |-> FALSE, ctx |-> NoCtx]]
    /\ answer' = NoAnswer
    /\ UNCHANGED <<providers, objects, tokens, calls>>

\* gss_import_name of an exported name: EXPORT_NAME and EXPORT_NAME_COMPOSITE
\* carry the mechanism, the family mechanism standing for none; the form in a
\* credential token (gssBidImportNameJson) does not.
ImportExportName(p, n) ==
    \E tok \in tokens, fresh \in Objects \ InUse :
        /\ Unused(n)
        /\ names' = [names EXCEPT ![n] =
                        [proc |-> p,
                         mn |-> tok.mn,
                         noLocal |-> tok.noLocal,
                         ctx |-> IF tok.attrs = NoCtx THEN NoCtx
                                 ELSE Imported(p, tok.attrs, fresh)]]
        /\ objects' = IF tok.attrs = NoCtx THEN objects
                      ELSE [objects EXCEPT ![fresh] = tok.attrs.jwt]
        /\ answer' = NoAnswer
        /\ UNCHANGED <<providers, tokens, calls>>

\* gss_release_name; a JSON object goes with its last reference.
ReleaseName(n) ==
    /\ Callable(n)
    /\ names' = [names EXCEPT ![n] = NoName]
    /\ objects' = [o \in Objects |-> IF o \in InUse' THEN objects[o] ELSE NoClaims]
    /\ answer' = NoAnswer
    /\ UNCHANGED <<providers, tokens, calls>>

\* The claims of a name are in a JSON object that other names may share, so a
\* call that uses them is two steps: Begin takes the mutex of the name, and
\* SetClaim, DeleteClaim or GetClaim is the effect and gives the mutex back.
\* Other attributes belong to the one name: a call on them is a single step.
Begin(t, n) ==
    \E op \in {"set", "delete", "get"}, claim \in Claims :
        /\ "jwt" \in Kinds
        /\ calls[t] = Idle
        /\ Callable(n)
        /\ HasCtx(n)
        /\ calls' = [calls EXCEPT ![t] = [op |-> op, name |-> n, claim |-> claim]]
        /\ answer' = NoAnswer
        /\ UNCHANGED <<providers, names, objects, tokens>>

\* The end of thread t's call op, which leaves the object of the name as json.
End(t, op, json) ==
    /\ calls[t].op = op
    /\ calls' = [calls EXCEPT ![t] = Idle]
    /\ objects' = [objects EXCEPT ![names[calls[t].name].ctx.jwt] = json]
    /\ UNCHANGED <<providers, names, tokens, answer>>

\* The object that thread t's call uses.
ObjectOf(t) == objects[names[calls[t].name].ctx.jwt]

\* BIDGSSJWTAttributeProvider::setAttribute, deleteAttribute and getAttribute.
SetClaim(t) == calls[t] # Idle /\ End(t, "set", [ObjectOf(t) EXCEPT ![calls[t].claim] = "set"])
DeleteClaim(t) == calls[t] # Idle /\ End(t, "delete", [ObjectOf(t) EXCEPT ![calls[t].claim] = Nothing])
GetClaim(t) == calls[t] # Idle /\ End(t, "get", ObjectOf(t))

\* gss_set_name_attribute and gss_delete_name_attribute, of SAML and local
\* attributes; without an attribute context they are unavailable.
SetNameAttribute(n, kind, id) ==
    /\ Callable(n)
    /\ HasCtx(n)
    /\ HasRoom(names[n].ctx)
    /\ names' = [names EXCEPT ![n].ctx = SetIn(@, kind, id)]
    /\ answer' = NoAnswer
    /\ UNCHANGED <<providers, objects, tokens, calls>>

DeleteNameAttribute(n, kind, id) ==
    /\ Callable(n)
    /\ HasCtx(n)
    /\ names' = [names EXCEPT ![n].ctx = DeleteIn(@, kind, id)]
    /\ answer' = NoAnswer
    /\ UNCHANGED <<providers, objects, tokens, calls>>

\* gss_get_name_attribute; the answers about local attributes are kept.
GetNameAttribute(n, kind, id) ==
    /\ Callable(n)
    /\ HasCtx(n)
    /\ TypeOf(names[n].ctx, kind) = "local"
    /\ answer' = LocalAnswer(names[n].ctx.local, <<kind, id>>)
    /\ UNCHANGED <<providers, names, objects, tokens, calls>>

\* gss_duplicate_name keeps the mechanism, gss_canonicalize_name sets it.
DuplicateName(n, m, canonicalize) ==
    /\ Callable(n)
    /\ Unused(m)
    /\ names' = [names EXCEPT ![m] =
                    [names[n] EXCEPT !.mn = @ \/ canonicalize,
                                     !.ctx = IF HasCtx(n) THEN CopyOf(@) ELSE NoCtx]]
    /\ answer' = NoAnswer
    /\ UNCHANGED <<providers, objects, tokens, calls>>

\* gss_export_name, gss_export_name_composite and gssBidExportNameJson.  The
\* latest token is kept.
ExportName(n, form) ==
    /\ WithTokens
    /\ Callable(n)
    /\ tokens' = {[mn |-> names[n].mn /\ form # "json",
                   noLocal |-> names[n].noLocal,
                   attrs |-> IF HasCtx(n) /\ form # "plain"
                             THEN Exported(names[n].ctx) ELSE NoCtx]}
    /\ answer' = NoAnswer
    /\ UNCHANGED <<providers, names, objects, calls>>

\* The SAML and local attributes an application names.
Named(kind, id) ==
    /\ kind = "samlassertion" => id = "s"
    /\ kind = "samlattr" => id # "r"
    /\ kind = "local" => id # "s"

Next ==
    \/ \E p \in Procs, n \in Names, disabled \in BOOLEAN : Establish(p, n, disabled)
    \/ \E p \in Procs, n \in Names : ImportName(p, n) \/ ImportExportName(p, n)
    \/ \E n \in Names : ReleaseName(n)
    \/ \E t \in Threads :
          \/ \E n \in Names : Begin(t, n)
          \/ SetClaim(t) \/ DeleteClaim(t) \/ GetClaim(t)
    \/ \E n \in Names, kind \in Kinds \ {"jwt"}, id \in Ids :
          /\ Named(kind, id)
          /\ \/ SetNameAttribute(n, kind, id)
             \/ DeleteNameAttribute(n, kind, id)
             \/ GetNameAttribute(n, kind, id)
    \/ \E n, m \in Names, canonicalize \in BOOLEAN : DuplicateName(n, m, canonicalize)
    \/ \E n \in Names, form \in {"plain", "composite", "json"} : ExportName(n, form)

Spec == Init /\ [][Next]_vars

-----------------------------------------------------------------------------
(***************************************************************************)
(* Properties                                                              *)
(***************************************************************************)

\* Names, JSON objects, tokens and calls have their types; in particular a
\* context has attributes only of providers it has, which its process has
\* registered (BIDGSSAttributeContext::m_providers).
TypeOK ==
    /\ providers \in [Procs -> SUBSET Optional]
    /\ objects \in [Objects -> Json]
    /\ \A n \in Names : HasCtx(n) =>
          LET c == names[n].ctx IN
          /\ c \in AttrCtx
          /\ c.samlThere <=> "saml" \in providers[names[n].proc]
          /\ c.localThere => "local" \in providers[names[n].proc]
          /\ ~c.samlThere => c.saml = NoAssertion
          /\ ~c.localThere => c.local = Absent
    /\ \A tok \in tokens : tok.mn \in BOOLEAN
    /\ \A t \in Threads : calls[t] # Idle => Live(calls[t].name)

\* A local attribute that gss_get_name_attribute reports as authenticated was
\* resolved from the issuer's assertion: no sequence of setting, deleting,
\* duplicating, exporting and importing, in whichever processes, makes an
\* attribute set by an application authenticated (m_authenticated of
\* util_shib.cpp, which travels in the token).
LocalAuthentic == answer.kind = "local" /\ answer.auth => answer.src = "issued"

\* A name whose credential disabled local attributes
\* (GSS_BROWSERID_DISABLE_LOCAL_ATTRS_FLAG) never gets a local provider, nor
\* does any name made from it by duplication or through tokens, although every
\* process creates its contexts with all the providers it has.
DisabledStaysDisabled ==
    \A n \in Names : HasCtx(n) /\ names[n].noLocal => ~names[n].ctx.localThere

\* Exporting a name and importing the token where the same providers are
\* registered gives a context with the same flag and the same claims, and with
\* the same local attributes and the same answer to whether they are
\* authenticated if the name's local provider was initialised.
ImportRestores ==
    \A n \in Names : HasCtx(n) =>
        LET c == names[n].ctx
            token == Exported(c)
            i == Imported(names[n].proc, token, c.jwt)
        IN  /\ i.disabled = c.disabled
            /\ token.jwt = objects[c.jwt]
            /\ c.local.there => i.local = c.local
            /\ i.localThere = c.localThere
=============================================================================
