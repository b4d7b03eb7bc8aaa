------------------------------ MODULE MCLibrary ------------------------------
(***************************************************************************)
(* Instances of the modules about one context of the library: LibContext   *)
(* with the caches of contexts, Http with the replies a context collects,  *)
(* ModalSession with the dialog that answers its caller.  A behaviour is   *)
(* one of the component "of", and the variables it does not have keep one  *)
(* value.                                                                  *)
(***************************************************************************)
EXTENDS LibContext, TLC

CONSTANTS
    x1, x2, h1, h2, h3, h4, window,                              \* of contexts
    MaxBody, Bufsiz, MaxRedirects, Dates, Day, invalid,         \* of Http
    MaxCloses                                                   \* of ModalSession

VARIABLES
    of,
    backend, get, redirects, reply, length, headers, got, pieces, data, size, offset, doc, expiry,   \* of Http
    platform, api, caller, session, own, bound, uiContext, dialog, bidError, source, cc,
    identity, calls, closes, early, fault,                                                           \* of ModalSession
    pc, err                                                                                          \* of both

httpVars == <<backend, get, redirects, reply, length, headers, got, pieces, data, size, offset, doc, expiry>>
modalVars ==
    <<platform, api, caller, session, own, bound, uiContext, dialog, bidError, source, cc,
      identity, calls, closes, early, fault>>
allVars == <<of, vars, httpVars, modalVars, pc, err>>

\* A relying party, a user agent, and a combination that is refused half way.
Asked ==
    {{"RP", "AUTHORITY_CACHE", "REPLAY_CACHE"},
     {"USER_AGENT", "REAUTH", "TICKET_CACHE", "ECDH_KEYEX"},
     {"RP", "REPLAY_CACHE", "TICKET_CACHE"}}

Names == {[scheme |-> "file", name |-> "replay"], [scheme |-> "memory", name |-> "replay"],
          [scheme |-> "unknown", name |-> "u"]}

Http == INSTANCE Http WITH Backends <- {"curl", "cf", "winhttp"}, Invalid <- invalid

Modal == INSTANCE ModalSession
    WITH Platforms <- {"mac", "ios", "stub"}, Apis <- {"sync", "async"},
         Callers <- {"main", "background"}

ASSUME MCLibraryAssumption == Http!HttpAssumption /\ Modal!ModalSessionAssumption

Symmetry == Permutations({x1, x2}) \cup Permutations({h1, h2, h3, h4})

NoHttp ==
    /\ backend = "none" /\ get = "none" /\ redirects = "none" /\ reply = "none" /\ length = "none"
    /\ headers = "none" /\ got = "none" /\ pieces = "none" /\ data = "none" /\ size = "none"
    /\ offset = "none" /\ doc = "none" /\ expiry = "none"
NoModal ==
    /\ platform = "none" /\ api = "none" /\ caller = "none" /\ session = "none" /\ own = "none"
    /\ bound = "none" /\ uiContext = "none" /\ dialog = "none" /\ bidError = "none"
    /\ source = "none" /\ cc = "none" /\ identity = "none" /\ calls = "none" /\ closes = "none"
    /\ early = "none" /\ fault = "none"

MCInit ==
    /\ Init
    /\ \/ of = "contexts" /\ NoHttp /\ NoModal /\ pc = "none" /\ err = "none"
       \/ of = "http" /\ Http!Init /\ NoModal
       \/ of = "modal" /\ Modal!Init /\ NoHttp

MCNext ==
    \/ of = "contexts" /\ Next /\ UNCHANGED <<of, httpVars, modalVars, pc, err>>
    \/ of = "http" /\ Http!Next /\ UNCHANGED <<of, vars, modalVars>>
    \/ of = "modal" /\ Modal!Next /\ UNCHANGED <<of, vars, httpVars>>

MCSpec == MCInit /\ [][MCNext]_allVars

-----------------------------------------------------------------------------
\* The types of the components: a curve is set exactly when keys are exchanged
\* (LibContext), the buffer is as long as its size says (Http), and a call that has
\* returned without a dialog on the screen has released its session (ModalSession).
LibraryTypeOK ==
    TypeOK /\ (of = "http" => Http!TypeOK) /\ (of = "modal" => Modal!TypeOK)

\* What is parsed is the body of the last reply, whole and in order, in a buffer
\* with room for the NUL behind it, and the document expires no later than the
\* reply says (Http).
ReplyCollected ==
    of = "http" => Http!RoomForNul /\ Http!WholeBody /\ Http!ExpiryOfDocument

\* The session is used after its release, or completed twice, only in two known
\* races of the front ends; a call that returns has answered once, and the
\* identity has one owner (ModalSession).
SessionSafe == of = "modal" => Modal!FaultOnlyByRace /\ Modal!AnsweredOnce
=============================================================================
