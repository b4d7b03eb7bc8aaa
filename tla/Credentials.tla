----------------------------- MODULE Credentials -----------------------------
(***************************************************************************)
(* Credentials (util_cred.c, set_cred_option.c and the calls over them):   *)
(* the handles an application acquires, changes by options, exports and    *)
(* imports, and the resolved copy an initiator context works with.  The    *)
(* establishment of the context itself is in SecContext; here it is the    *)
(* acquisition of an assertion, once, and once more when the acceptor      *)
(* refuses a ticket.                                                       *)
(***************************************************************************)
EXTENDS Naturals, Sequences, FiniteSets

CONSTANTS
    Creds,        \* credential handles of the application
    Subjects,
    Assertions,   \* assertions the application or the browser has
    SubjectOf,    \* the subject of an assertion, None when it does not parse
    CacheNames,   \* names of caches: [scheme, name]
    Mechs,        \* the concrete mechanisms
    Foreign,      \* OIDs that are no mechanism
    Heimdal,      \* built for Heimdal's mechanism glue
    Apple,        \* built with the CoreFoundation bindings
    Calls,        \* the calls the application makes
    Attributes,   \* dictionaries the application sets a credential with
    None

Usage == {{"INITIATE"}, {"ACCEPT"}, {"INITIATE", "ACCEPT"}}

\* The entries of a dictionary, None for one that is not there.
Dictionary ==
    [mech : Mechs \cup Foreign \cup {None}, usage : Usage \cup {{}}, name : Subjects \cup {None},
     assertion : Assertions \cup {None}, identity : Subjects \cup {None}]

\* The re-authentication assertion made from a ticket.
Authenticator == "authenticator"

CredentialsAssumption ==
    /\ SubjectOf \in [Assertions -> Subjects \cup {None}]
    /\ CacheNames \subseteq [scheme : {"file", "memory", "unknown"}, name : STRING]
    /\ Mechs \cap Foreign = {} /\ Mechs # {}
    /\ {Heimdal, Apple} \subseteq BOOLEAN /\ (Apple => Heimdal)
    /\ Calls \subseteq {"options", "dictionary", "tokens", "contexts"}
    /\ Attributes \subseteq Dictionary
    /\ None \notin Creds \cup Subjects \cup Assertions \cup Mechs \cup {Authenticator}

VARIABLES
    cred,    \* the credential of each handle, None for GSS_C_NO_CREDENTIAL
    ctx,     \* an initiator context
    token,   \* an exported credential
    out      \* the last call and what it returned

vars == <<cred, ctx, token, out>>

Flags == {"INITIATE", "ACCEPT", "ASSERTION", "RESOLVED", "CALLER_UI"}

\* The mechanisms are a set or GSS_C_NO_OID_SET, written {None}.
NoOidSet == {None}

Cache == [scheme : {"file", "memory"}, name : {n.name : n \in CacheNames}]
Credential ==
    [flags : SUBSET Flags, name : Subjects \cup {None},
     assertion : Assertions \cup {Authenticator, None}, mechanisms : SUBSET Mechs \cup {NoOidSet},
     ticketCache : Cache \cup {None}, replayCache : Cache \cup {None},
     identity : Subjects \cup {None}]

AllocCred ==
    [flags |-> {}, name |-> None, assertion |-> None, mechanisms |-> NoOidSet,
     ticketCache |-> None, replayCache |-> None, identity |-> None]

NoContext ==
    [state |-> "none", app |-> None, cred |-> None, subject |-> None, reauth |-> FALSE,
     asked |-> None]

Idle(call, c, major) == [call |-> call, cred |-> c, major |-> major, dialog |-> FALSE]

Init ==
    /\ cred = [c \in Creds |-> None]
    /\ ctx = NoContext
    /\ token = None
    /\ out = Idle("none", None, "complete")

-----------------------------------------------------------------------------
\* The call changes the credential of a handle, or nothing when it fails.
Sets(call, c, new) ==
    /\ cred' = [cred EXCEPT ![c] = new]
    /\ out' = Idle(call, c, "complete")
    /\ UNCHANGED <<ctx, token>>
Fails(call, c, major) ==
    /\ out' = Idle(call, c, major)
    /\ UNCHANGED <<cred, ctx, token>>

ValidateMechs(mechs) == mechs = NoOidSet \/ mechs \subseteq Mechs

AcquireCred(c, name, mechs, usage, ui) ==
    /\ cred[c] = None
    /\ IF ValidateMechs(mechs)
       THEN Sets("acquire", c,
                 [AllocCred EXCEPT !.flags = usage \cup ui, !.name = name, !.mechanisms = mechs])
       ELSE Fails("acquire", c, "bad mech")

\* gss_add_cred and gss_add_cred_from: one mechanism.
AddCred(c, name, mech, usage) == AcquireCred(c, name, {mech}, usage, {})

ReleaseCred(c) ==
    /\ cred[c] # None
    /\ Sets("release", c, None)

-----------------------------------------------------------------------------
(***************************************************************************)
(* The setters.  Each returns the set with the new credential, empty when  *)
(* it refuses.                                                             *)
(***************************************************************************)

\* The public flags are outside the ones the library uses.
SetCredFlag(r) == {r}

\* Wrong variant: an assertion is replaced in a resolved credential.
SetCredAssertionAgain(r, a) ==
    {[r EXCEPT !.assertion = a, !.flags = @ \cup {"ASSERTION", "RESOLVED"}]}

SetCredAssertion(r, a) ==
    IF "RESOLVED" \in r.flags THEN {}
    ELSE IF a = None THEN {[r EXCEPT !.assertion = None, !.flags = @ \ {"ASSERTION"}]}
    ELSE {[r EXCEPT !.assertion = a, !.flags = @ \cup {"ASSERTION", "RESOLVED"}]}

\* _BIDAcquireCache: a name with a known scheme; a name without one is a file.
Acquirable(n) == n = None \/ n.scheme # "unknown"

SetCredTicketCacheName(r, n) ==
    IF "RESOLVED" \in r.flags \/ ~Acquirable(n) THEN {} ELSE {[r EXCEPT !.ticketCache = n]}

SetCredReplayCacheName(r, n) ==
    IF "RESOLVED" \in r.flags \/ ~Acquirable(n) THEN {} ELSE {[r EXCEPT !.replayCache = n]}

\* The table of options: the last arc of the object identifier and the setter.
setCredOps == <<[arc |-> 1, setter |-> "flag"], [arc |-> 2, setter |-> "assertion"],
                [arc |-> 3, setter |-> "ticket cache"], [arc |-> 3, setter |-> "replay cache"]>>

\* The identifiers the library exports are those of the entries of the table.
CRED_FLAG == setCredOps[1].arc
CRED_ASSERTION == setCredOps[2].arc
CRED_TICKET_CACHE == setCredOps[3].arc
CRED_REPLAY_CACHE == setCredOps[4].arc

\* The first entry with the identifier.
SetterOf(arc) ==
    setCredOps[CHOOSE i \in DOMAIN setCredOps :
                 setCredOps[i].arc = arc /\ \A j \in 1..(i - 1) : setCredOps[j].arc # arc].setter

SetOption(r, arc, value) ==
    CASE SetterOf(arc) = "flag" -> SetCredFlag(r)
      [] SetterOf(arc) = "assertion" -> SetCredAssertion(r, value)
      [] SetterOf(arc) = "ticket cache" -> SetCredTicketCacheName(r, value)
      [] SetterOf(arc) = "replay cache" -> SetCredReplayCacheName(r, value)

\* A handle without a credential gets one, also when the setter refuses.
SetCredOption(call, c, arc, value) ==
    LET r == IF cred[c] = None THEN AllocCred ELSE cred[c]
        new == SetOption(r, arc, value)
    IN
    /\ cred' = [cred EXCEPT ![c] = IF new = {} THEN r ELSE CHOOSE x \in new : TRUE]
    /\ out' = Idle(call, c, IF new = {} THEN "failure" ELSE "complete")
    /\ UNCHANGED <<ctx, token>>

\* What the dictionary sets before an assertion is refused stays.
SetCredWithCFDictionary(c, attrs) ==
    LET r0 == IF cred[c] = None THEN AllocCred ELSE cred[c]
        r1 == [r0 EXCEPT !.mechanisms = IF attrs.mech = None THEN @ ELSE {attrs.mech},
                         !.flags = @ \cup attrs.usage,
                         !.name = IF attrs.name = None THEN @ ELSE attrs.name]
        r2 == IF attrs.assertion = None THEN {r1} ELSE SetCredAssertion(r1, attrs.assertion)
        Filled(r) ==
            [r EXCEPT !.identity = IF attrs.identity = None THEN @ ELSE attrs.identity,
                      !.flags = IF @ \cap {"INITIATE", "ACCEPT"} = {} THEN @ \cup {"INITIATE", "CALLER_UI"}
                                ELSE IF "INITIATE" \in @ THEN @ \cup {"CALLER_UI"} ELSE @]
        new == IF attrs.mech \in Foreign THEN r0
               ELSE IF r2 = {} THEN r1
               ELSE Filled(CHOOSE x \in r2 : TRUE)
    IN
    /\ Apple
    /\ cred' = [cred EXCEPT ![c] = new]
    /\ out' = Idle("dictionary", c, IF attrs.mech \in Foreign \/ r2 = {} THEN "failure" ELSE "complete")
    /\ UNCHANGED <<ctx, token>>

-----------------------------------------------------------------------------
(***************************************************************************)
(* Export and import.  The token is the OID of the mechanism, the length   *)
(* of the JSON text and the text.  Heimdal's mechanism glue takes off the  *)
(* first two; otherwise the import takes off the OID alone, and a text     *)
(* that starts with the octets of a length does not parse.                 *)
(***************************************************************************)

\* The name of a cache is reported without its scheme.
CacheNameOf(cache) == IF cache = None THEN None ELSE cache.name
FromName(n) == IF n = None THEN None ELSE [scheme |-> "file", name |-> n]

Json(r) ==
    [flags |-> r.flags, name |-> r.name, assertion |-> r.assertion, mechanisms |-> r.mechanisms,
     ticketCache |-> CacheNameOf(r.ticketCache), replayCache |-> CacheNameOf(r.replayCache),
     identity |-> r.identity]

\* history: of is the credential that was exported.
ExportCred(c) ==
    /\ cred[c] # None
    /\ token' = [layout |-> <<"oid", "length", "json">>, json |-> Json(cred[c]), of |-> cred[c]]
    /\ out' = Idle("export", c, "complete")
    /\ UNCHANGED <<cred, ctx>>

\* What is left for json_loads.
Stripped(layout) == IF Heimdal THEN SubSeq(layout, 3, Len(layout)) ELSE Tail(layout)

\* Wrong variant: the name is not taken over.
RestoredWithoutName(j) ==
    [AllocCred EXCEPT !.flags = j.flags, !.assertion = j.assertion,
                      !.mechanisms = j.mechanisms, !.identity = j.identity]

\* The flags are in place before the setters of the caches look at them.
Restored(j) ==
    [AllocCred EXCEPT !.flags = j.flags, !.name = j.name, !.assertion = j.assertion,
                      !.mechanisms = j.mechanisms, !.identity = j.identity]

CachesRestored(r, j) ==
    LET t == IF j.ticketCache = None THEN {r} ELSE SetCredTicketCacheName(r, FromName(j.ticketCache))
    IN UNION {IF j.replayCache = None THEN {x} ELSE SetCredReplayCacheName(x, FromName(j.replayCache)) :
              x \in t}

ImportCred(c) ==
    /\ token # None /\ cred[c] = None
    /\ IF Stripped(token.layout) # <<"json">> THEN Fails("import", c, "defective token")
       ELSE LET new == CachesRestored(Restored(token.json), token.json)
            IN IF new = {} THEN Fails("import", c, "failure")
               ELSE Sets("import", c, CHOOSE x \in new : TRUE)

-----------------------------------------------------------------------------
(***************************************************************************)
(* The credential of an initiator context.                                 *)
(***************************************************************************)

\* The caches are not duplicated.
DuplicateCred(r) == [r EXCEPT !.ticketCache = None, !.replayCache = None]

DefaultCred == [AllocCred EXCEPT !.flags = {"INITIATE"}]

Got(via, a, s) == [via |-> via, assertion |-> a, subject |-> s]
Error == Got("error", None, None)

\* Wrong variant: a ticket is used although the acceptor has just refused one.
AcquireAssertionCached(r, reauth) ==
    {Got("reauth", Authenticator, s) : s \in {x \in Subjects : r.name \in {None, x}}} \cup {Error}

\* Wrong variant: the caller's wish to display the user interface is ignored.
AcquireAssertionInteractive(r, reauth) ==
    (IF reauth THEN {}
     ELSE {Got("reauth", Authenticator, s) : s \in {x \in Subjects : r.name \in {None, x}}})
      \cup {Got("dialog", a, SubjectOf[a]) : a \in {x \in Assertions : SubjectOf[x] # None}}
      \cup {Error}

\* BIDAcquireAssertion: a ticket, for the name if there is one, unless NO_CACHED;
\* then the user, unless NO_INTERACT, who may choose another identity.
AcquireAssertion(r, reauth) ==
    (IF reauth THEN {}
     ELSE {Got("reauth", Authenticator, s) : s \in {x \in Subjects : r.name \in {None, x}}})
      \cup (IF "CALLER_UI" \in r.flags THEN {}
            ELSE {Got("dialog", a, SubjectOf[a]) : a \in {x \in Assertions : SubjectOf[x] # None}})
      \cup {Error}

\* A resolved credential brings its assertion, and on Apple perhaps its identity.
AssertionFromCred(r) ==
    IF Apple /\ r.identity # None THEN {Got("identity", r.assertion, r.identity)}
    ELSE IF SubjectOf[r.assertion] = None THEN {Error}
    ELSE {Got("string", r.assertion, SubjectOf[r.assertion])}

NameAccepted(r, subject) == r.name \in {None, subject}

\* gssBidCredAvailable
CredAvailable(r, mech) == r.mechanisms = NoOidSet \/ mech \in r.mechanisms

\* gss_init_sec_context releases the context on every error.
ContextFails(c, major, dialog) ==
    /\ ctx' = NoContext
    /\ out' = [Idle("init", c, major) EXCEPT !.dialog = dialog]
    /\ UNCHANGED <<cred, token>>

ResolveInitiatorCred(c, mech, state) ==
    LET app == IF c = None THEN None ELSE cred[c]
        r == IF app = None THEN DefaultCred ELSE DuplicateCred(app)
    IN
    IF "INITIATE" \notin r.flags THEN ContextFails(c, "no cred", FALSE)
    ELSE IF "CALLER_UI" \in r.flags /\ ctx.reauth THEN ContextFails(c, "prompting needed", FALSE)
    ELSE \E got \in IF "RESOLVED" \in r.flags THEN AssertionFromCred(r) ELSE AcquireAssertion(r, ctx.reauth) :
           IF got.via = "error" THEN ContextFails(c, "failure", FALSE)
           ELSE IF ~NameAccepted(r, got.subject) THEN ContextFails(c, "no cred", got.via = "dialog")
           ELSE IF ~CredAvailable(r, mech) THEN ContextFails(c, "bad mech", got.via = "dialog")
           ELSE /\ ctx' = [state |-> state, app |-> c, subject |-> got.subject,
                           cred |-> [r EXCEPT !.name = got.subject, !.assertion = got.assertion,
                                              !.flags = @ \cup {"RESOLVED"}],
                           reauth |-> got.via = "reauth",
                           asked |-> IF app = None THEN None ELSE app.name]
                /\ out' = [Idle("init", c, "continue") EXCEPT !.dialog = got.via = "dialog"]
                /\ UNCHANGED <<cred, token>>

\* The first call; c is None for GSS_C_NO_CREDENTIAL.
InitSecContext(c, mech) ==
    /\ ctx.state = "none"
    /\ ResolveInitiatorCred(c, mech, "authenticate")

\* The acceptor answers that it needs a fresh assertion.
RetryInitial(mech) ==
    /\ ctx.state = "authenticate" /\ ctx.reauth
    /\ ResolveInitiatorCred(ctx.app, mech, "retry authenticate")

\* The context is established or given up, and deleted.
DeleteSecContext ==
    /\ ctx.state # "none"
    /\ ctx' = NoContext
    /\ out' = Idle("delete", None, "complete")
    /\ UNCHANGED <<cred, token>>

Acquire ==
    \E c \in Creds, n \in Subjects \cup {None}, u \in Usage :
       \/ \E ui \in IF Heimdal THEN {{}, {"CALLER_UI"}} ELSE {{}} : AcquireCred(c, n, NoOidSet, u, ui)
       \/ \E m \in Mechs \cup Foreign : AddCred(c, n, m, u)
Options ==
    \E c \in Creds :
       \/ SetCredOption("set flag", c, CRED_FLAG, None)
       \/ \E a \in Assertions \cup {None} : SetCredOption("set assertion", c, CRED_ASSERTION, a)
       \/ \E n \in CacheNames \cup {None} : SetCredOption("set ticket cache", c, CRED_TICKET_CACHE, n)
       \/ \E n \in CacheNames \cup {None} : SetCredOption("set replay cache", c, CRED_REPLAY_CACHE, n)
Next ==
    \/ Acquire
    \/ \E c \in Creds : ReleaseCred(c)
    \/ "options" \in Calls /\ Options
    \/ "dictionary" \in Calls /\ \E c \in Creds, attrs \in Attributes : SetCredWithCFDictionary(c, attrs)
    \/ "tokens" \in Calls /\ \E c \in Creds : ExportCred(c) \/ ImportCred(c)
    \/ "contexts" \in Calls /\ (\/ \E c \in Creds \cup {None}, m \in Mechs : InitSecContext(c, m)
                               \/ \E m \in Mechs : RetryInitial(m)
                               \/ DeleteSecContext)

Spec == Init /\ [][Next]_vars

-----------------------------------------------------------------------------
\* Type invariant: a credential of the application is marked resolved exactly
\* when it has an assertion.
TypeOK ==
    /\ cred \in [Creds -> Credential \cup {None}]
    /\ \A c \in Creds : cred[c] # None =>
         /\ ("RESOLVED" \in cred[c].flags) <=> cred[c].assertion # None
         /\ ("ASSERTION" \in cred[c].flags) <=> cred[c].assertion # None
    /\ ctx.cred \in Credential \cup {None}
    /\ (ctx.state = "none") <=> (ctx = NoContext)

\* The assertions of gssBidInitSecContext and gssBidResolveInitiatorCred: the
\* context's credential is resolved, may initiate and has an assertion.  It is
\* of the identity in the context, and of the one the application asked for:
\* neither a ticket, nor the user's choice, nor the second attempt changes it.
ContextCredential ==
    ctx.state # "none" =>
      /\ {"RESOLVED", "INITIATE"} \subseteq ctx.cred.flags
      /\ ctx.cred.assertion # None
      /\ ctx.cred.name = ctx.subject
      /\ ctx.asked \in {None, ctx.subject}

\* A second attempt is made with a certificate: the ticket that was refused is
\* not used again (the assertion after the call in the loop of
\* gssBidInitSecContext), so there is no third.
RetryIsCertified == ctx.state = "retry authenticate" => ~ctx.reauth

\* No dialog is displayed for a credential of a caller that displays its own.
LeavesDisplay ==
    out'.call = "init" /\ out'.cred # None /\ out'.dialog =>
      cred[out'.cred] = None \/ "CALLER_UI" \notin cred[out'.cred].flags
CallerDisplays == [][LeavesDisplay]_vars

\* An import, if the step is one, gives the credential that was exported, up to
\* the scheme of its caches; it fails when the credential is resolved and has a
\* cache, and only then.
Restoring ==
    out'.call = "import" /\ out' # out =>
      LET of == token.of
          SameCache(x, y) == CacheNameOf(x) = CacheNameOf(y)
      IN IF "RESOLVED" \in of.flags /\ (of.ticketCache # None \/ of.replayCache # None)
         THEN out'.major # "complete"
         ELSE /\ out'.major = "complete"
              /\ SameCache(cred'[out'.cred].ticketCache, of.ticketCache)
              /\ SameCache(cred'[out'.cred].replayCache, of.replayCache)
              /\ [cred'[out'.cred] EXCEPT !.ticketCache = None, !.replayCache = None] =
                   DuplicateCred(of)

\* gssBidImportCred restores what gssBidExportCred wrote, as far as said there.
ImportRestores == [][Restoring]_vars
=============================================================================
