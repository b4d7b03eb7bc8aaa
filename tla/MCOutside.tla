------------------------------ MODULE MCOutside ------------------------------
(***************************************************************************)
(* Instances of the modules about what the library gets from outside:      *)
(* Authority with delegations, ModalSession with a user who answers,       *)
(* Credentials with the tokens they are imported from, NameAttributes with *)
(* SAML assertions.  A behaviour is one of the component "of", and the     *)
(* variables it does not have keep one value.                              *)
(***************************************************************************)
EXTENDS Authority, TLC

CONSTANTS
    h1, h2, h3, k1, v1,                        \* of authorities
    c1, alice, byAlice, mech, other,           \* of credentials
    t1, n1, n2, p1                             \* a thread, names, a process

VARIABLES
    of,
    platform, api, caller, session, own, bound, uiContext, dialog, bidError, source, cc,
    pc, err, identity, closes, early, fault,                   \* of ModalSession
    cred, ctx, token, out,                                     \* of Credentials
    providers, names, objects, tokens, answer,                 \* of NameAttributes
    calls                                                      \* of ModalSession and NameAttributes

modalVars ==
    <<platform, api, caller, session, own, bound, uiContext, dialog, bidError, source, cc,
      pc, err, identity, closes, early, fault>>
credVars == <<cred, ctx, token, out>>
nameVars == <<providers, names, objects, tokens, answer>>
allVars == <<of, vars, modalVars, credVars, nameVars, calls>>

\* Two hosts delegate to each other in a circle; a third has a key.
DelegatesTo(h) == [key |-> None, authority |-> h]
Circle ==
    [h \in Hosts |-> CASE h = h1 -> DelegatesTo(h2)
                       [] h = h2 -> DelegatesTo(h1)
                       [] OTHER -> [key |-> k1, authority |-> None]]

\* Delegations come and go.
Redirected == {DelegatesTo(h) : h \in Hosts} \cup {NoDocument, [key |-> k1, authority |-> h3]}
AtFirstHost == [domain : {h1}, iss : Hosts, key : {k1}]

Modal == INSTANCE ModalSession
    WITH Platforms <- {"mac", "ios", "stub"}, Apis <- {"sync", "async"},
         Callers <- {"main", "background"}, MaxCloses <- 2

\* Credentials acquired, changed by options, exported, released and imported.
Tok == INSTANCE Credentials
    WITH Creds <- {c1}, Subjects <- {alice}, Assertions <- {byAlice}, SubjectOf <- byAlice :> alice,
         CacheNames <- {[scheme |-> "file", name |-> "f"], [scheme |-> "memory", name |-> "m"]},
         Mechs <- {mech}, Foreign <- {other}, Attributes <- {},
         Heimdal <- TRUE, Apple <- FALSE, Calls <- {"options", "tokens"}

\* Names with a SAML assertion among their claims.
Saml == INSTANCE NameAttributes
    WITH Optional <- {"saml", "local"}, Procs <- {p1}, Threads <- {t1}, Names <- {n1, n2},
         Ids <- {"r", "s"}, MaxAttrs <- 2, Kinds <- {"jwt", "samlattr", "samlassertion"},
         WithTokens <- FALSE

ASSUME MCOutsideAssumption ==
    /\ Modal!ModalSessionAssumption /\ Tok!CredentialsAssumption
    /\ Saml!NameAttributesAssumption

NoModal ==
    /\ platform = "none" /\ api = "none" /\ caller = "none" /\ session = "none" /\ own = "none"
    /\ bound = "none" /\ uiContext = "none" /\ dialog = "none" /\ bidError = "none"
    /\ source = "none" /\ cc = "none" /\ pc = "none" /\ err = "none" /\ identity = "none" /\ closes = "none"
    /\ early = "none" /\ fault = "none"
NoCred == cred = "none" /\ ctx = "none" /\ token = "none" /\ out = "none"
NoName ==
    providers = "none" /\ names = "none" /\ objects = "none" /\ tokens = "none" /\ answer = "none"

MCInit ==
    /\ Init
    /\ \/ of = "delegation" /\ NoModal /\ NoCred /\ NoName /\ calls = "none"
       \/ of = "modal" /\ Modal!Init /\ NoCred /\ NoName
       \/ of = "tokens" /\ Tok!Init /\ NoModal /\ NoName /\ calls = "none"
       \/ of = "names" /\ Saml!Init /\ NoModal /\ NoCred

\* A step of one component.
OfDelegation(A) ==
    of = "delegation" /\ A /\ UNCHANGED <<of, modalVars, credVars, nameVars, calls>>
OfModal(A) == of = "modal" /\ A /\ UNCHANGED <<of, vars, credVars, nameVars>>
OfTok(A) == of = "tokens" /\ A /\ UNCHANGED <<of, vars, modalVars, nameVars, calls>>
OfSaml(A) == of = "names" /\ A /\ UNCHANGED <<of, vars, modalVars, credVars>>

MCNext ==
    OfDelegation(Next) \/ OfModal(Modal!Next) \/ OfTok(Tok!Next) \/ OfSaml(Saml!Next)

\* The fairness of Authority and of ModalSession.
MCFairness ==
    /\ \A v \in Verifiers : WF_allVars(OfDelegation(Step(v)))
    /\ WF_allVars(OfModal(Modal!Call))
    /\ WF_allVars(OfModal(Modal!Answers))
    /\ WF_allVars(OfModal(Modal!DismissIdentityDialogAndStopModal))

MCSpec == MCInit /\ [][MCNext]_allVars /\ MCFairness

-----------------------------------------------------------------------------
\* Every call returns and calls its handler, unless a race stops it, and once the
\* session is over the dialog goes away (ModalSession).
SessionEnds ==
    /\ <>(of = "modal" => Modal!Answered)
    /\ (of = "modal" /\ calls = 1 /\ dialog # "none") ~> (of = "modal" /\ Modal!DialogGone)

\* An import gives the credential that was exported, or fails when it is resolved
\* and has a cache (Credentials).
CredImportRestores == [][of = "tokens" => Tok!Restoring]_credVars

\* A local attribute reported as authenticated was resolved from the issuer's
\* assertion, also when it was mapped from a SAML attribute, and exporting a name
\* with claims and importing the token restores them (NameAttributes).
ClaimsFaithful == of = "names" => Saml!LocalAuthentic /\ Saml!ImportRestores
=============================================================================
