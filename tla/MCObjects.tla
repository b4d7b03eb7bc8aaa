------------------------------ MODULE MCObjects ------------------------------
(***************************************************************************)
(* Instances of the modules about single calls and the objects they work   *)
(* on: NameAttributes with names that travel between processes,            *)
(* Credentials with initiator contexts, Layout, TokenHeader and            *)
(* RegistryCache.  They share no state in the code either: a behaviour is  *)
(* one of the component "of", and the variables it does not have keep one  *)
(* value.                                                                  *)
(***************************************************************************)
EXTENDS NameAttributes, TLC

CONSTANTS
    t1, n1, n2, p1, p2,              \* a thread, names, processes
    Creds, Subjects, Assertions,     \* of credentials
    Owned,                           \* an assertion and its subject, each pair as a set
    Mechs, Foreign, absent,
    ValueNames, MaxWrites            \* of the registry

VARIABLES
    of,
    cred, ctx, out,                            \* of Credentials
    pc, iov, asked, limit, status, back,       \* of Layout
    phase, sent, damaged, result,              \* of TokenHeader
    reg, writes, seen, stable,                 \* of RegistryCache
    call, token                                \* of several

credVars == <<cred, ctx, out>>
layoutVars == <<pc, iov, asked, limit, status, back>>
headerVars == <<phase, sent, damaged, result>>
registryVars == <<reg, writes, seen, stable>>
allVars == <<of, vars, credVars, layoutVars, headerVars, registryVars, call, token>>

\* The names and the processes are alike.
Symmetry == Permutations({n1, n2}) \cup Permutations({p1, p2})

\* The subject of an assertion; one without does not parse.
SubjectOf ==
    [a \in Assertions |->
        IF \E s \in Subjects : {a, s} \in Owned THEN CHOOSE s \in Subjects : {a, s} \in Owned ELSE absent]

\* Dictionaries: empty, with one entry, and with an assertion and its identity.
Empty == [mech |-> absent, usage |-> {}, name |-> absent, assertion |-> absent, identity |-> absent]
OneEntry ==
    {Empty} \cup {[Empty EXCEPT !.mech = x] : x \in Mechs \cup Foreign}
      \cup {[Empty EXCEPT !.usage = u] : u \in {{"INITIATE"}, {"ACCEPT"}}}
      \cup {[Empty EXCEPT !.name = s] : s \in Subjects}
      \cup {[Empty EXCEPT !.assertion = a] : a \in Assertions}
      \cup {[Empty EXCEPT !.assertion = a, !.identity = SubjectOf[a]] : a \in Assertions}

\* Credentials that contexts work with, and that are changed by options or by
\* dictionaries.
Ctx(how) == INSTANCE Credentials
    WITH CacheNames <- {}, Attributes <- OneEntry, Heimdal <- TRUE, Apple <- TRUE,
         Calls <- {how, "contexts"}, None <- absent

Changes == {"options", "dictionary"}

\* AES with a 96-bit HMAC, which needs no padding, and triple DES, which pads to
\* blocks of 8.
Enctypes ==
    {[header |-> 16, trailer |-> 12, checksum |-> 12, padding |-> 0, block |-> 16],
     [header |-> 8, trailer |-> 20, checksum |-> 20, padding |-> 8, block |-> 8]}

Layout == INSTANCE Layout
    WITH DataLengths <- {0, 1, 2, 7, 8, 9}, Rooms <- {0, 32, 200}, OutputSizes <- 64..92

\* Sizes around the places where the form of the DER length changes.
Header == INSTANCE TokenHeader
    WITH BodySizes <- {0, 1} \cup 112..115 \cup {127, 128} \cup 240..243 \cup {255, 256}
                        \cup 65520..65522 \cup {65535, 65536} \cup 16777200..16777203 \cup {16777216},
         OidSizes <- {10, 11}, TokTypes <- {1540, 65535},
         Damages <- {-65300, -300, -128, -16, -14, -12, -3, -2, -1, 1, 2, 128, 256}

\* Names are for values and subkeys.
Registry == INSTANCE RegistryCache WITH Names <- ValueNames, Types <- {"sz", "other"}

ASSUME MCObjectsAssumption ==
    /\ \A how \in Changes : Ctx(how)!CredentialsAssumption
    /\ Layout!LayoutAssumption /\ Header!TokenHeaderAssumption /\ Registry!RegistryCacheAssumption

NoNames ==
    /\ providers = "none" /\ names = "none" /\ objects = "none"
    /\ tokens = "none" /\ calls = "none" /\ answer = "none"
NoCred == cred = "none" /\ ctx = "none" /\ out = "none"
NoLayout ==
    /\ pc = "none" /\ iov = "none" /\ asked = "none" /\ limit = "none"
    /\ status = "none" /\ back = "none"
NoHeader == phase = "none" /\ sent = "none" /\ damaged = "none" /\ result = "none"
NoRegistry == reg = "none" /\ writes = "none" /\ seen = "none" /\ stable = "none"
NoCall == call = "none"
NoToken == token = "none"

MCInit ==
    \/ of = "names" /\ Init /\ NoCred /\ NoLayout /\ NoHeader /\ NoRegistry /\ NoCall /\ NoToken
    \/ \E how \in Changes :
          of = how /\ Ctx(how)!Init /\ NoNames /\ NoLayout /\ NoHeader /\ NoRegistry /\ NoCall
    \/ of = "layout" /\ Layout!Init /\ NoNames /\ NoCred /\ NoHeader /\ NoRegistry
    \/ of = "header" /\ Header!Init /\ NoNames /\ NoCred /\ NoLayout /\ NoRegistry /\ NoCall
    \/ of = "registry" /\ Registry!Init /\ NoNames /\ NoCred /\ NoLayout /\ NoHeader /\ NoToken

MCNext ==
    /\ UNCHANGED of
    /\ \/ /\ of = "names" /\ Next
          /\ UNCHANGED <<credVars, layoutVars, headerVars, registryVars, call, token>>
       \/ /\ \E how \in Changes : of = how /\ Ctx(how)!Next
          /\ UNCHANGED <<vars, layoutVars, headerVars, registryVars, call>>
       \/ /\ of = "layout" /\ Layout!Next
          /\ UNCHANGED <<vars, credVars, headerVars, registryVars>>
       \/ /\ of = "header" /\ Header!Next
          /\ UNCHANGED <<vars, credVars, layoutVars, registryVars, call>>
       \/ /\ of = "registry" /\ Registry!Next
          /\ UNCHANGED <<vars, credVars, layoutVars, headerVars, token>>

MCSpec == MCInit /\ [][MCNext]_allVars

-----------------------------------------------------------------------------
\* The types of the objects: a name has attributes only of providers that its
\* process has (NameAttributes), a credential is resolved if and only if it has an
\* assertion (Credentials), no buffer keeps a byte that nobody has written (Layout),
\* a header is bytes that are in the token (TokenHeader), what is read from the
\* registry has one entry of a name (RegistryCache).
ObjectsTypeOK ==
    CASE of = "names" -> TypeOK
      [] of = "layout" -> Layout!TypeOK
      [] of = "header" -> Header!TypeOK
      [] of = "registry" -> Registry!TypeOK
      [] OTHER -> \A how \in Changes : of = how => Ctx(how)!TypeOK

\* A local attribute reported as authenticated was resolved from the issuer's
\* assertion, no name made from one without local attributes has a local provider,
\* and exporting a name and importing the token restores its attributes
\* (NameAttributes).
NamesFaithful == of = "names" => LocalAuthentic /\ DisabledStaysDisabled /\ ImportRestores

\* The credential a context works with has the identity the application asked for
\* and the one of its assertion, and the retry after a refused ticket has an
\* assertion with a certificate (Credentials).
ContextCredentials ==
    \A how \in Changes :
        of = how => Ctx(how)!ContextCredential /\ Ctx(how)!RetryIsCertified

\* No dialog is displayed for a credential of a caller that displays its own
\* (Credentials).
CallerDisplays ==
    [][\A how \in Changes : of = how => (Ctx(how)!LeavesDisplay)]_<<cred, ctx, token, out>>

\* What one side makes the other reads back: wrapped messages, in whatever buffers,
\* of which a call of gssBidWrapOrGetMIC that fails half way leaves none allocated
\* (Layout), and token headers, where verifyTokenHeader refuses an initial token
\* that was cut or continued (TokenHeader).
RoundTrip ==
    /\ of = "layout" => Layout!RoundTrip /\ Layout!NothingLeftOnFailure
    /\ of = "header" => Header!HeaderRoundTrip /\ Header!DamagedRefused

\* The sizes that are computed beforehand are right: gssBidWrapOrGetMIC finds room
\* in buffers of the lengths that gss_wrap_iov_length has said, a message of the
\* size gss_wrap_size_limit has answered fits (Layout), and makeTokenHeader writes
\* as many bytes as tokenSize has said (TokenHeader).
AnswersSuffice ==
    /\ of = "layout" => Layout!LengthsSuffice /\ Layout!SizeLimitHolds
    /\ of = "header" => Header!SizeExact

\* RegistryCache: what is reported under a name is a value that had the name
\* meanwhile, and a value that was there all the time is reported, unless another
\* was deleted.
RegistryFaithful == of = "registry" => Registry!ReportedWasThere /\ Registry!StableReported
=============================================================================
