--------------------------- MODULE MCRelyingParty ----------------------------
(***************************************************************************)
(* Instances of the modules about what a relying party verifies and keeps: *)
(* Lifetimes twice, Authority with a key that changes, and Verification.   *)
(* They share no state in the code either: a behaviour is one of the       *)
(* component "of", and the variables it does not have keep one value.  The *)
(* invariants of Lifetimes mean the same in both of its instances: they    *)
(* speak of the configuration in the variables, and the assertions and the *)
(* drifts of the short lifetimes are among those of the default ones.      *)
(***************************************************************************)
EXTENDS Lifetimes, TLC

CONSTANTS
    absent,
    Threads, Providers, HostKeys, FirstKey, SecondaryAuthorities, MaxDelegations,
    DocumentLife, MaxClock, MaxChanges,                      \* of Authority
    MaxCerts, CheckedAt, IssueTimes, StartTimes, EndTimes    \* of Verification

VARIABLES
    of,
    documents, published, since, latest, changes, clock, ver,       \* of Authority
    pc, req, tok, flags, cred, identity, refs, result, asserted     \* of Verification

keyVars == <<documents, published, since, latest, changes, clock, ver>>
checkVars == <<pc, req, tok, flags, cred, identity, refs, result, asserted>>

\* Tickets as long as an assertion and its certificate, or none.  The constants
\* of RelyingParty.cfg are those of tickets that outlive every assertion, as by
\* default.
Short == INSTANCE Lifetimes
    WITH TicketLifetimes <- {0, 2}, RenewLifetimes <- {0, 1}, Drifts <- {1}, AssertionLives <- {1},
         CertLives <- {2}, Start <- 2, MaxTime <- 6, MaxAssertions <- 3

\* Threads share a cache of documents while the keys of hosts change; in
\* RelyingParty.cfg two threads, and one host whose key changes twice.
WithKey(k) == [key |-> k, authority |-> absent]
AtFirst == [h \in Providers |-> WithKey(FirstKey)]
Rotated == {WithKey(k) : k \in HostKeys}
ByHost == [domain : Providers, iss : Providers, key : HostKeys]
Rotation == INSTANCE Authority
    WITH Verifiers <- Threads, Hosts <- Providers, Keys <- HostKeys, None <- absent,
         UseCache <- TRUE, Lifetime <- DocumentLife, Initially <- AtFirst, Documents <- Rotated,
         Certificates <- ByHost, MaxTime <- MaxClock,
         cache <- documents, last <- latest, now <- clock

\* The constants of RelyingParty.cfg are on either side of the limits of a
\* verification at 5 with a skew of 1: too early after 6, expired before 4, and
\* before 3 if only the time of issue is known.
Checks == INSTANCE Verification WITH Now <- CheckedAt, None <- absent

ASSUME MCRelyingPartyAssumption ==
    Short!LifetimesAssumption /\ Rotation!AuthorityAssumption /\ Checks!VerificationAssumption

Symmetry == Permutations(Threads)

NoLifetimes ==
    /\ reauth = FALSE /\ ticketLifetime = "none" /\ renewLifetime = "none" /\ drift = "none"
    /\ now = "none" /\ issued = <<>> /\ cache = "none" /\ ticket = "none" /\ accepted = "none"
    /\ purged = "none" /\ last = None
NoKeys ==
    /\ documents = "none" /\ published = "none" /\ since = "none" /\ latest = "none"
    /\ changes = "none" /\ clock = "none" /\ ver = "none"
NoChecks ==
    /\ pc = "none" /\ req = "none" /\ tok = "none" /\ flags = "none" /\ cred = "none"
    /\ identity = "none" /\ refs = "none" /\ result = "none" /\ asserted = "none"

MCInit ==
    \/ of = "short lifetimes" /\ Short!Init /\ NoKeys /\ NoChecks
    \/ of = "default lifetimes" /\ Init /\ NoKeys /\ NoChecks
    \/ of = "keys" /\ Rotation!Init /\ NoLifetimes /\ NoChecks
    \/ of = "checks" /\ Checks!Init /\ NoLifetimes /\ NoKeys

MCNext ==
    /\ UNCHANGED of
    /\ \/ of = "short lifetimes" /\ Short!Next /\ UNCHANGED <<keyVars, checkVars>>
       \/ of = "default lifetimes" /\ Next /\ UNCHANGED <<keyVars, checkVars>>
       \/ of = "keys" /\ Rotation!Next /\ UNCHANGED <<vars, checkVars>>
       \/ of = "checks" /\ Checks!Next /\ UNCHANGED <<vars, keyVars>>

MCSpec == MCInit /\ [][MCNext]_<<of, vars, keyVars, checkVars>>

-----------------------------------------------------------------------------
\* The types of each component: a ticket names an assertion that was accepted, an
\* entry of the cache of documents has its expiry.
RelyingPartyTypeOK ==
    CASE of = "short lifetimes" -> Short!TypeOK
      [] of = "default lifetimes" -> TypeOK
      [] of = "keys" -> Rotation!TypeOK
      [] of = "checks" -> Checks!TypeOK

\* The key that _BIDGetAuthorityPublicKey finds is current: a withdrawn key is used
\* no longer than a document may be cached, plus the skew, and a key that has been
\* published for longer than that is not refused (Authority).
KeysCurrent == of = "keys" => Rotation!KeysCurrent

\* Verification: a token that BIDVerifyAssertion or BIDVerifyRPResponseToken
\* accepts is for this audience, these channel bindings and this time, is signed
\* with a key the verifier has reason to trust, and its subject is the one vouched
\* for, by the remote verifier if it was asked.
AcceptedIsValid ==
    of = "checks" =>
        Checks!AcceptedIsForUs /\ Checks!AcceptedIsTrusted /\ Checks!RemoteSubject

\* Verification: the credential to verify with is there when _BIDVerifyLocal
\* asserts it, but for a response without a certificate that finds no session key,
\* and the payload of the certificate lives as long as something refers to it.
CredentialHeld == of = "checks" => Checks!HasVerifyCred /\ Checks!LeafReferenced
=============================================================================
