----------------------------- MODULE SecContext -----------------------------
(***************************************************************************)
(* Context establishment of the GSS BrowserID mechanism.                   *)
(*                                                                         *)
(* Each member of Initiators is one initiator context (one sequence of     *)
(* gss_init_sec_context calls), each member of Acceptors one acceptor      *)
(* context.  The initiator contexts belong to one user and share that      *)
(* user's ticket cache for one audience; the acceptor contexts belong to   *)
(* one service and share its replay cache.  Applications carry the tokens: *)
(* a token that was output is kept in a set and may be delivered, to its   *)
(* own peer if Unreliable is FALSE, to any context any number of times if  *)
(* Unreliable is TRUE.                                                     *)
(*                                                                         *)
(* Keys are symbolic: a key is the sequence of the inputs it was derived   *)
(* from, so two keys are equal exactly when they have the same history.    *)
(* The mechanisms modelled are the keyed ones (encryptionType is not       *)
(* ENCTYPE_NULL).                                                          *)
(***************************************************************************)
EXTENDS Integers, Sequences

CONSTANTS
    Initiators,   \* initiator contexts
    Acceptors,    \* acceptor contexts
    Requests,     \* req_flags an application passes: [xrt, mutual]
    HasCert,      \* the acceptor can load a private key and a certificate
    Faults,       \* which failures of one step may happen
    Unreliable    \* tokens may be duplicated and misdirected

\* "acquire", "verify", "lookup", "update" and "ready": the step of that name of a call
\* fails (out of memory, no network, a cache that cannot be locked or parsed);
\* "delete": an application gives up a context; "lose": a live replay cache entry
\* disappears; "expire" and "delay": lifetimes pass after or before verification.
FaultNames ==
    {"acquire", "verify", "lookup", "update", "ready", "delete", "lose", "expire", "delay"}

(***************************************************************************)
(* An assertion is named by the initiator that made it and by whether it   *)
(* is the first one of that context or the one of the retry.  The name     *)
(* stands for its digest, for its nonce and for the initiator's ephemeral  *)
(* Diffie-Hellman key at once: all three are fresh in every assertion.     *)
(***************************************************************************)
Aid == Initiators \X {1, 2}
NoAid == <<>>

Salt == Aid \cup Acceptors \cup {"ARK", "RRK"}
Key == Seq(Salt)
NoKey == <<>>

ASSUME SecContextAssumption ==
    /\ Requests \subseteq [xrt : BOOLEAN, mutual : BOOLEAN]
    /\ HasCert \in BOOLEAN
    /\ Faults \subseteq FaultNames
    /\ Unreliable \in BOOLEAN
    /\ Aid \cap Acceptors = {}

VARIABLES
    ini,       \* initiator contexts
    acc,       \* acceptor contexts
    netI,      \* assertion tokens output by initiators
    netA,      \* response tokens output by acceptors
    netX,      \* extra round trip tokens output by initiators
    tickets,   \* the initiator's ticket cache: at most one ticket
    rcache,    \* the replay cache: a function from digests to entries
    expired,   \* assertions and tickets whose lifetime has passed
    overlap,   \* history: which verifications ran at the same time
    accepted   \* history: contexts for which the acceptor returned COMPLETE

vars == <<ini, acc, netI, netA, netX, tickets, rcache, expired, overlap, accepted>>

(***************************************************************************)
(* Key derivation.  DH is the ECDH secret of assertion x and of the fresh  *)
(* key that acceptor context a generates for it; Derive is _BIDDeriveKey   *)
(* with a salt.                                                            *)
(***************************************************************************)
DH(x, a) == <<x, a>>
Derive(k, salt) == Append(k, salt)
SessionSubkey(k, salt) == Derive(k, salt)
AuthenticatorSessionKey(ark, x) == Derive(ark, x)
XRTKey(k, a) == Derive(k, a)

Assertion ==
    [aid : Aid, tid : Aid \cup {NoAid}, ark : Key, xrt : BOOLEAN, mutual : BOOLEAN]
Response ==
    [from : Acceptors, re : Aid, minor : {"OK", "REAUTH_FAILED", "OTHER"},
     dh : BOOLEAN, jti : BOOLEAN, tkt : BOOLEAN, x509 : BOOLEAN, rrk : Key]
XRTToken == [from : Initiators, key : Key]
Ticket == [tid : Aid, ark : Key, mutual : BOOLEAN]
CacheEntry == [ark : Key, mutual : BOOLEAN]

InitState == {"INITIAL", "AUTHENTICATE", "RETRY_AUTHENTICATE", "ESTABLISHED",
              "RELEASED", "SPINNING"}
AcceptState == {"INITIAL", "RETRY_INITIAL", "VERIFYING", "EXTRA_ROUND_TRIP",
                "ESTABLISHED", "RELEASED"}
Major == {"NONE", "CONTINUE_NEEDED", "COMPLETE", "FAILURE"}

InitContext ==
    [state : InitState, req : [xrt : BOOLEAN, mutual : BOOLEAN], reauth : BOOLEAN,
     mutual : BOOLEAN, aid : Aid \cup {NoAid}, secret : Key, key : Key, ret : Major]
AcceptContext ==
    [state : AcceptState, aid : Aid \cup {NoAid}, reauth : BOOLEAN, xrt : BOOLEAN,
     want : BOOLEAN, mutual : BOOLEAN, secret : Key, key : Key, ret : Major]

NoInitContext ==
    [state |-> "INITIAL", req |-> [xrt |-> FALSE, mutual |-> FALSE], reauth |-> FALSE,
     mutual |-> FALSE, aid |-> NoAid, secret |-> NoKey, key |-> NoKey, ret |-> "NONE"]
NoAcceptContext ==
    [state |-> "INITIAL", aid |-> NoAid, reauth |-> FALSE, xrt |-> FALSE,
     want |-> FALSE, mutual |-> FALSE, secret |-> NoKey, key |-> NoKey, ret |-> "NONE"]

Init ==
    /\ ini = [i \in Initiators |-> NoInitContext]
    /\ acc = [a \in Acceptors |-> NoAcceptContext]
    /\ netI = {} /\ netA = {} /\ netX = {}
    /\ tickets = {}
    /\ rcache = [x \in {} |-> NoKey]
    /\ expired = {}
    /\ overlap = [a \in Acceptors |-> {}]
    /\ accepted = {}

-----------------------------------------------------------------------------
(***************************************************************************)
(* The initiator.                                                          *)
(***************************************************************************)

\* gss_init_sec_context returns an error: the context is released.
InitReleased(i) == [ini EXCEPT ![i].state = "RELEASED", ![i].ret = "FAILURE"]

\* A certificate-signed assertion, as the user's identity provider signs it.
CertAssertion(x, req) ==
    [aid |-> x, tid |-> NoAid, ark |-> NoKey, xrt |-> req.xrt, mutual |-> req.mutual]

\* An authenticator for the cached ticket t, signed with its ARK.
ReauthAssertion(x, req, t) ==
    [aid |-> x, tid |-> t.tid, ark |-> t.ark, xrt |-> req.xrt, mutual |-> req.mutual]

\* No cached ticket looks valid.  Clocks may differ by the skew: an expired
\* ticket may or may not look valid, so InitReauth does not exclude it.
NoUsableTicket == \A t \in tickets : t.tid \in expired

\* First call, with a ticket: the assertion is an authenticator, and the
\* context is mutual if the ticket is.
InitReauth(i) ==
    /\ ini[i].state = "INITIAL"
    /\ \E req \in Requests, t \in tickets :
         LET x == <<i, 1>> IN
         /\ netI' = netI \cup {ReauthAssertion(x, req, t)}
         /\ ini' = [ini EXCEPT ![i] =
                      [state |-> "AUTHENTICATE", req |-> req, reauth |-> TRUE,
                       mutual |-> t.mutual, aid |-> x,
                       secret |-> AuthenticatorSessionKey(t.ark, x),
                       key |-> NoKey, ret |-> "CONTINUE_NEEDED"]]
    /\ UNCHANGED <<acc, netA, netX, tickets, rcache, expired, overlap, accepted>>

\* First call, without a ticket: any error of the lookup is taken for that.
InitCert(i) ==
    /\ ini[i].state = "INITIAL"
    /\ NoUsableTicket \/ "lookup" \in Faults
    /\ \E req \in Requests :
         LET x == <<i, 1>> IN
         /\ netI' = netI \cup {CertAssertion(x, req)}
         /\ ini' = [ini EXCEPT ![i] =
                      [state |-> "AUTHENTICATE", req |-> req, reauth |-> FALSE,
                       mutual |-> FALSE, aid |-> x, secret |-> NoKey,
                       key |-> NoKey, ret |-> "CONTINUE_NEEDED"]]
    /\ UNCHANGED <<acc, netA, netX, tickets, rcache, expired, overlap, accepted>>

\* No assertion can be acquired (the user cancels, no network, ...).
InitAcquireFails(i) ==
    /\ "acquire" \in Faults
    /\ ini[i].state = "INITIAL"
    /\ ini' = InitReleased(i)
    /\ UNCHANGED <<acc, netI, netA, netX, tickets, rcache, expired, overlap, accepted>>

\* r is handed to initiator context i by its application.
Receives(i, r) ==
    /\ r \in netA
    /\ ini[i].ret = "CONTINUE_NEEDED"
    /\ Unreliable \/ r.re = ini[i].aid

\* Wrong variant: the state machine stays in the state it was reset to.
InitRetryNoTransition(i, r) ==
    LET x == <<i, 2>> IN
    /\ Receives(i, r)
    /\ r.minor = "REAUTH_FAILED"
    /\ ini[i].reauth /\ ini[i].state # "RETRY_AUTHENTICATE"
    /\ netI' = netI \cup {CertAssertion(x, ini[i].req)}
    /\ ini' = [ini EXCEPT ![i].state = "RETRY_INITIAL", ![i].reauth = FALSE,
                          ![i].mutual = FALSE, ![i].aid = x, ![i].secret = NoKey]
    /\ UNCHANGED <<acc, netA, netX, tickets, rcache, expired, overlap, accepted>>

\* Wrong variant: the identity of the failed attempt, and its secret, are kept.
InitRetryKeepsIdentity(i, r) ==
    LET x == <<i, 2>> IN
    /\ Receives(i, r)
    /\ r.minor = "REAUTH_FAILED"
    /\ ini[i].reauth /\ ini[i].state # "RETRY_AUTHENTICATE"
    /\ netI' = netI \cup {CertAssertion(x, ini[i].req)}
    /\ ini' = [ini EXCEPT ![i].state = "RETRY_AUTHENTICATE", ![i].reauth = FALSE,
                          ![i].mutual = FALSE, ![i].aid = x]
    /\ UNCHANGED <<acc, netA, netX, tickets, rcache, expired, overlap, accepted>>

\* The loop of gssBidInitSecContext goes round once more: the context gives
\* up its identity, acquires an assertion without looking at the ticket cache
\* and outputs it without the initial token header.
InitRetry(i, r) ==
    LET x == <<i, 2>> IN
    /\ Receives(i, r)
    /\ r.minor = "REAUTH_FAILED"
    /\ ini[i].reauth /\ ini[i].state # "RETRY_AUTHENTICATE"
    /\ \/ /\ netI' = netI \cup {CertAssertion(x, ini[i].req)}
          /\ ini' = [ini EXCEPT ![i].state = "RETRY_AUTHENTICATE", ![i].reauth = FALSE,
                                ![i].mutual = FALSE, ![i].aid = x, ![i].secret = NoKey]
       \/ /\ "acquire" \in Faults
          /\ ini' = InitReleased(i)
          /\ UNCHANGED netI
    /\ UNCHANGED <<acc, netA, netX, tickets, rcache, expired, overlap, accepted>>

\* The same minor status when there is nothing to retry: no branch of the loop
\* changes the minor status or the state, so the call never returns.
InitSpin(i, r) ==
    /\ Receives(i, r)
    /\ r.minor = "REAUTH_FAILED"
    /\ ~(ini[i].reauth /\ ini[i].state # "RETRY_AUTHENTICATE")
    /\ ini' = [ini EXCEPT ![i].state = "SPINNING", ![i].ret = "NONE"]
    /\ UNCHANGED <<acc, netI, netA, netX, tickets, rcache, expired, overlap, accepted>>

\* Any other minor status without a failing major status: gssBidInitResponseToken
\* returns at once with the major status of the response, GSS_S_COMPLETE.
InitMinorStatus(i, r) ==
    /\ Receives(i, r)
    /\ r.minor = "OTHER"
    /\ ini' = [ini EXCEPT ![i].ret = "COMPLETE"]
    /\ UNCHANGED <<acc, netI, netA, netX, tickets, rcache, expired, overlap, accepted>>

\* The secret of the initiator's identity once it has seen response r.
SecretWith(i, r) ==
    IF ini[i].secret = NoKey THEN DH(ini[i].aid, r.from) ELSE ini[i].secret

\* BIDVerifyRPResponseToken: the RRK can be derived, and the response is signed
\* with it, or with a certificate if it echoes the nonce of an initial assertion.
ResponseVerifies(i, r) ==
    /\ r.dh \/ ini[i].secret # NoKey
    /\ IF r.x509 THEN r.re = ini[i].aid /\ ~ini[i].reauth
                 ELSE r.rrk = SessionSubkey(SecretWith(i, r), "RRK")

InitReject(i, r) ==
    /\ Receives(i, r)
    /\ r.minor = "OK"
    /\ ~ResponseVerifies(i, r) \/ "verify" \in Faults
    /\ ini' = InitReleased(i)
    /\ UNCHANGED <<acc, netI, netA, netX, tickets, rcache, expired, overlap, accepted>>

\* Wrong variant: the ARK is derived after the extra round trip key.
TicketAfterXRT(i, r, mutual) ==
    LET s == SecretWith(i, r) IN
    [tid |-> r.re, mutual |-> mutual,
     ark |-> SessionSubkey(IF r.jti THEN XRTKey(s, r.from) ELSE s, "ARK")]

\* The ticket stored for r: its ARK comes from the secret the response was
\* verified with, before an extra round trip replaces that secret.
TicketOf(i, r, mutual) ==
    [tid |-> r.re, ark |-> SessionSubkey(SecretWith(i, r), "ARK"), mutual |-> mutual]

\* Wrong variant: the flag the application asked for is the flag it gets.
MutualAsRequested(i, r) == ini[i].req.mutual

\* GSS_C_MUTUAL_FLAG of an established initiator: from the ticket, or from a
\* response signed with a certificate.
InitialMutual(i, r) == IF ini[i].reauth THEN ini[i].mutual ELSE r.x509

\* Wrong variant: the session key ignores the extra round trip.
ContextKeyBeforeXRT(s, r) == s

\* The secret gssBidContextReady derives the session key from.
ContextKey(s, r) == IF r.jti THEN XRTKey(s, r.from) ELSE s

\* A good response.  The ticket is stored and the extra round trip token is
\* made before gssBidContextReady, which may still fail.
InitEstablish(i, r) ==
    LET s == SecretWith(i, r)
        m == InitialMutual(i, r)
    IN
    /\ Receives(i, r)
    /\ r.minor = "OK"
    /\ ResponseVerifies(i, r)
    /\ tickets' = IF r.tkt THEN {TicketOf(i, r, m)} ELSE tickets
    /\ netX' = IF r.jti THEN netX \cup {[from |-> i, key |-> XRTKey(s, r.from)]} ELSE netX
    /\ \/ ini' = [ini EXCEPT ![i].state = "ESTABLISHED", ![i].mutual = m,
                             ![i].secret = s, ![i].key = ContextKey(s, r), ![i].ret = "COMPLETE"]
       \/ "ready" \in Faults /\ ini' = InitReleased(i)
    /\ UNCHANGED <<acc, netI, netA, rcache, expired, overlap, accepted>>

InitResponseToken(i) ==
    \E r \in netA : \/ InitRetry(i, r)
                    \/ InitSpin(i, r)
                    \/ InitMinorStatus(i, r)
                    \/ InitReject(i, r)
                    \/ InitEstablish(i, r)

-----------------------------------------------------------------------------
(***************************************************************************)
(* The acceptor.                                                           *)
(***************************************************************************)

\* gss_accept_sec_context returns an error: the context is released, and no
\* token is output.
AcceptReleased(a) == [acc EXCEPT ![a].state = "RELEASED", ![a].ret = "FAILURE"]

\* Tokens of initiator context i reach acceptor context a.  A reliable
\* application binds a connection to one context on each side.
Connected(a, i) ==
    \/ Unreliable
    \/ /\ acc[a].state = "INITIAL"
       /\ \A b \in Acceptors : acc[b].aid # NoAid => acc[b].aid[1] # i
    \/ acc[a].aid # NoAid /\ acc[a].aid[1] = i

\* Only the first token of an initiator has the initial token header, which a
\* new acceptor context demands and a later call does not parse.
Offered(a, m) ==
    /\ m \in netI
    /\ Connected(a, m.aid[1])
    /\ \/ acc[a].state = "INITIAL" /\ m.aid[2] = 1
       \/ acc[a].state = "RETRY_INITIAL" /\ m.aid[2] = 2

IsReauth(m) == m.tid # NoAid

\* Wrong variant: any expired assertion asks for a retry.
AnyRecoverable(a, m) ==
    /\ acc[a].state = "INITIAL"
    /\ \/ m.aid \in expired
       \/ IsReauth(m) /\ m.tid \notin DOMAIN rcache \ expired

\* _BIDVerifyReauthAssertion fails with an error after which the initiator
\* should send a fresh assertion: no such ticket, or something has expired.
ReauthRecoverable(a, m) ==
    /\ IsReauth(m)
    /\ acc[a].state = "INITIAL"
    /\ m.tid \in DOMAIN rcache \ expired =>
         m.ark = rcache[m.tid].ark /\ m.aid \in expired

\* _BIDVerifyLocal succeeds.
LocallyVerified(a, m) ==
    /\ m.aid \notin expired
    /\ IsReauth(m) => /\ acc[a].state = "INITIAL"
                      /\ m.tid \in DOMAIN rcache
                      /\ m.tid \notin expired
                      /\ m.ark = rcache[m.tid].ark

\* Wrong variant: the wrong kind of exchange is looked up.
ReplayedSwapped(m) ==
    /\ m.xrt
    /\ m.aid \in DOMAIN rcache
    /\ m.aid \notin expired

\* _BIDCheckReplayCache; an extra round trip avoids the check.
Replayed(m) ==
    /\ ~m.xrt
    /\ m.aid \in DOMAIN rcache
    /\ m.aid \notin expired

\* Wrong variant: the minor status is not one the peer knows.
ReauthFailedUnmapped(a, m) ==
    [from |-> a, re |-> m.aid, minor |-> "OTHER", dh |-> FALSE, jti |-> FALSE,
     tkt |-> FALSE, x509 |-> FALSE, rrk |-> NoKey]

\* A token with the minor status GSSBID_REAUTH_FAILED, and unsigned: there is no
\* verified identity to take a key from.
ReauthFailedResponse(a, m) ==
    [from |-> a, re |-> m.aid, minor |-> "REAUTH_FAILED", dh |-> FALSE, jti |-> FALSE,
     tkt |-> FALSE, x509 |-> FALSE, rrk |-> NoKey]

AcceptReauthFailed(a, m) ==
    /\ Offered(a, m)
    /\ \/ ReauthRecoverable(a, m)
       \/ IsReauth(m) /\ LocallyVerified(a, m) /\ "verify" \in Faults  \* BAD_AUDIENCE
    /\ netA' = netA \cup {ReauthFailedResponse(a, m)}
    /\ acc' = [acc EXCEPT ![a].state = "RETRY_INITIAL", ![a].aid = m.aid,
                          ![a].ret = "CONTINUE_NEEDED"]
    /\ UNCHANGED <<ini, netI, netX, tickets, rcache, expired, overlap, accepted>>

\* BIDVerifyAssertion up to and including the look into the replay cache, which
\* takes every error for an assertion not seen before; the cache is written by
\* another, later access.
VerifyBegin(a, m) ==
    /\ Offered(a, m)
    /\ LocallyVerified(a, m)
    /\ Replayed(m) => "lookup" \in Faults
    /\ acc' = [acc EXCEPT ![a] =
                 [state |-> "VERIFYING", aid |-> m.aid, reauth |-> IsReauth(m),
                  xrt |-> m.xrt, want |-> m.mutual,
                  mutual |-> IsReauth(m) /\ rcache[m.tid].mutual /\ m.mutual,
                  secret |-> IF IsReauth(m)
                             THEN AuthenticatorSessionKey(m.ark, m.aid)
                             ELSE DH(m.aid, a),
                  key |-> NoKey, ret |-> @.ret]]
    /\ overlap' = [overlap EXCEPT ![a] = {b \in Acceptors : acc[b].state = "VERIFYING"}]
    /\ UNCHANGED <<ini, netI, netA, netX, tickets, rcache, expired, accepted>>

\* Any other outcome of BIDVerifyAssertion up to there.
AcceptReject(a, m) ==
    /\ Offered(a, m)
    /\ \/ "verify" \in Faults
       \/ IsReauth(m) /\ "lookup" \in Faults
       \/ ~ReauthRecoverable(a, m) /\ ~LocallyVerified(a, m)
       \/ LocallyVerified(a, m) /\ Replayed(m)
    /\ acc' = [AcceptReleased(a) EXCEPT ![a].aid = m.aid]
    /\ UNCHANGED <<ini, netI, netA, netX, tickets, rcache, expired, overlap, accepted>>

\* The entry _BIDUpdateReplayCache stores: with the ARK it is a ticket.
EntryOf(a, renew) ==
    [ark |-> IF renew THEN SessionSubkey(acc[a].secret, "ARK") ELSE NoKey,
     mutual |-> renew /\ HasCert]

Put(f, x, e) == [y \in DOMAIN f \cup {x} |-> IF y = x THEN e ELSE f[y]]

\* A certificate-signed assertion always becomes a ticket, an authenticator only
\* while its ticket is renewable.
Renewals(a) == IF acc[a].reauth THEN BOOLEAN ELSE {TRUE}

X509Signs(a) == ~acc[a].reauth /\ acc[a].want /\ HasCert

\* BIDMakeRPResponseToken for a verified identity.
ResponseOf(a, minor, tkt) ==
    [from |-> a, re |-> acc[a].aid, minor |-> minor, dh |-> ~acc[a].reauth,
     jti |-> acc[a].xrt, tkt |-> tkt, x509 |-> X509Signs(a),
     rrk |-> IF X509Signs(a) THEN NoKey ELSE SessionSubkey(acc[a].secret, "RRK")]

Acceptance(a, k) == [acc |-> a, aid |-> acc[a].aid, xrt |-> acc[a].xrt, key |-> k]

\* The rest of BIDVerifyAssertion and of the call, when the cache is written.
VerifyEnd(a) ==
    /\ acc[a].state = "VERIFYING"
    /\ \E renew \in Renewals(a) :
         /\ rcache' = Put(rcache, acc[a].aid, EntryOf(a, renew))
         /\ \/ /\ acc[a].xrt
               /\ netA' = netA \cup {ResponseOf(a, "OK", renew)}
               /\ acc' = [acc EXCEPT ![a].state = "EXTRA_ROUND_TRIP",
                                     ![a].mutual = @ \/ X509Signs(a),
                                     ![a].ret = "CONTINUE_NEEDED"]
               /\ UNCHANGED accepted
            \/ /\ ~acc[a].xrt
               /\ netA' = netA \cup {ResponseOf(a, "OK", renew)}
               /\ acc' = [acc EXCEPT ![a].state = "ESTABLISHED",
                                     ![a].mutual = @ \/ X509Signs(a),
                                     ![a].key = acc[a].secret, ![a].ret = "COMPLETE"]
               /\ accepted' = accepted \cup {Acceptance(a, acc[a].secret)}
            \/ /\ ~acc[a].xrt
               /\ "ready" \in Faults
               /\ acc' = AcceptReleased(a)
               /\ UNCHANGED <<netA, accepted>>
    /\ UNCHANGED <<ini, netI, netX, tickets, expired, overlap>>

\* The rest of the call when the cache cannot be written.  The flag for an extra
\* round trip turns the error into GSS_S_CONTINUE_NEEDED, and the response has
\* the minor status of the error but no major status.
UpdateFails(a) ==
    /\ "update" \in Faults
    /\ acc[a].state = "VERIFYING"
    /\ IF acc[a].xrt
         THEN /\ netA' = netA \cup {ResponseOf(a, "OTHER", FALSE)}
              /\ acc' = [acc EXCEPT ![a].state = "EXTRA_ROUND_TRIP",
                                    ![a].mutual = @ \/ X509Signs(a),
                                    ![a].ret = "CONTINUE_NEEDED"]
         ELSE /\ acc' = AcceptReleased(a)
              /\ UNCHANGED netA
    /\ UNCHANGED <<ini, netI, netX, tickets, rcache, expired, overlap, accepted>>

\* The third token: signed with the key derived from the secret and from the jti
\* of this context's response.
XRTVerifies(a, t) == t.key = XRTKey(acc[a].secret, a)

AcceptXRT(a, t) ==
    /\ t \in netX
    /\ Connected(a, t.from)
    /\ acc[a].state = "EXTRA_ROUND_TRIP"
    /\ \/ /\ XRTVerifies(a, t)
          /\ acc' = [acc EXCEPT ![a].state = "ESTABLISHED",
                                ![a].key = XRTKey(acc[a].secret, a),
                                ![a].ret = "COMPLETE"]
          /\ accepted' = accepted \cup {Acceptance(a, XRTKey(acc[a].secret, a))}
       \/ /\ ~XRTVerifies(a, t) \/ "ready" \in Faults
          /\ acc' = AcceptReleased(a)
          /\ UNCHANGED accepted
    /\ UNCHANGED <<ini, netI, netA, netX, tickets, rcache, expired, overlap>>

\* A token that the state of the context has no use for: one with the initial
\* token header, an assertion instead of an extra round trip token or the other
\* way round, or anything at all once the context is established.  (Before there
\* is a context such a token leaves nothing behind.)
AcceptDefective(a) ==
    /\ Unreliable
    /\ \/ acc[a].state \in {"RETRY_INITIAL", "EXTRA_ROUND_TRIP", "ESTABLISHED"} /\ netI # {}
       \/ acc[a].state \in {"RETRY_INITIAL", "ESTABLISHED"} /\ netX # {}
    /\ acc' = AcceptReleased(a)
    /\ UNCHANGED <<ini, netI, netA, netX, tickets, rcache, expired, overlap, accepted>>

AcceptSecContext(a) ==
    \/ \E m \in netI : AcceptReauthFailed(a, m) \/ VerifyBegin(a, m) \/ AcceptReject(a, m)
    \/ VerifyEnd(a)
    \/ UpdateFails(a)
    \/ \E t \in netX : AcceptXRT(a, t)

-----------------------------------------------------------------------------
(***************************************************************************)
(* The environment.                                                        *)
(***************************************************************************)

\* gss_delete_sec_context.
DeleteInit(i) ==
    /\ "delete" \in Faults
    /\ ini[i].state \in {"AUTHENTICATE", "RETRY_AUTHENTICATE", "ESTABLISHED"}
    /\ ini' = InitReleased(i)
    /\ UNCHANGED <<acc, netI, netA, netX, tickets, rcache, expired, overlap, accepted>>

DeleteAccept(a) ==
    /\ "delete" \in Faults
    /\ acc[a].state \in {"RETRY_INITIAL", "EXTRA_ROUND_TRIP", "ESTABLISHED"}
    /\ acc' = AcceptReleased(a)
    /\ UNCHANGED <<ini, netI, netA, netX, tickets, rcache, expired, overlap, accepted>>

Remove(f, S) == [x \in DOMAIN f \ S |-> f[x]]

\* The lifetime of assertion x and of the ticket it became passes: before it is
\* verified ("delay"), or after.  An assertion does not outlive its ticket.
Expire(x) ==
    /\ x \notin expired
    /\ \/ "expire" \in Faults /\ x \in DOMAIN rcache
       \/ "delay" \in Faults /\ \E m \in netI : m.aid = x
    /\ expired' = expired \cup {x}
    /\ UNCHANGED <<ini, acc, netI, netA, netX, tickets, rcache, overlap, accepted>>

\* _BIDPurgeReplayCache.
PurgeReplayCache ==
    /\ DOMAIN rcache \cap expired # {}
    /\ rcache' = Remove(rcache, expired)
    /\ UNCHANGED <<ini, acc, netI, netA, netX, tickets, expired, overlap, accepted>>

\* A live entry disappears: the cache file is destroyed, or another writer's
\* update overwrites it.
LoseEntry(x) ==
    /\ "lose" \in Faults
    /\ x \in DOMAIN rcache
    /\ rcache' = Remove(rcache, {x})
    /\ UNCHANGED <<ini, acc, netI, netA, netX, tickets, expired, overlap, accepted>>

InitStep(i) == InitReauth(i) \/ InitCert(i) \/ InitAcquireFails(i) \/ InitResponseToken(i)

Next ==
    \/ \E i \in Initiators : InitStep(i) \/ DeleteInit(i)
    \/ \E a \in Acceptors : AcceptSecContext(a) \/ AcceptDefective(a) \/ DeleteAccept(a)
    \/ \E x \in Aid : Expire(x) \/ LoseEntry(x)
    \/ PurgeReplayCache

Spec == Init /\ [][Next]_vars

\* The applications keep calling: a context is fed its peer's token once there is
\* one, and no call blocks on anything but its own caches.
Fairness ==
    /\ \A i \in Initiators : WF_vars(InitResponseToken(i))
    /\ \A a \in Acceptors : WF_vars(AcceptSecContext(a))

FairSpec == Spec /\ Fairness

-----------------------------------------------------------------------------
(***************************************************************************)
(* Properties.                                                             *)
(***************************************************************************)

\* Every variable holds a value of its kind; in particular an initiator context
\* never rests in a state its next call could not dispatch on.
TypeOK ==
    /\ ini \in [Initiators -> InitContext]
    /\ acc \in [Acceptors -> AcceptContext]
    /\ netI \subseteq Assertion
    /\ netA \subseteq Response
    /\ netX \subseteq XRTToken
    /\ tickets \subseteq Ticket
    /\ DOMAIN rcache \subseteq Aid
    /\ \A x \in DOMAIN rcache : rcache[x] \in CacheEntry
    /\ expired \subseteq Aid
    /\ overlap \in [Acceptors -> SUBSET Acceptors]
    /\ accepted \subseteq [acc : Acceptors, aid : Aid, xrt : BOOLEAN, key : Key]

Raced(a, b) == a \in overlap[b] \/ b \in overlap[a]

\* Replay protection.  Two acceptor contexts that both returned GSS_S_COMPLETE for
\* one assertion verified it at the same time, each between the other's look
\* into the replay cache and its update of it, and the assertion did not ask
\* for an extra round trip: a context with the extra round trip is never accepted
\* twice, although its assertion is not looked up in the cache at all.
AtMostOnce ==
    \A e, f \in accepted :
        e.aid = f.aid /\ e.acc # f.acc => ~e.xrt /\ Raced(e.acc, f.acc)

(***************************************************************************)
(* The argument for AtMostOnce, as invariants.                             *)
(***************************************************************************)

\* The assertion a secret belongs to: its nonce is the first input of a key
\* agreement, and the last input of a key derived from a ticket.
Owned(s, x) ==
    \/ Len(s) = 2 /\ s[1] = x /\ s[2] \in Acceptors
    \/ Len(s) > 0 /\ s[Len(s)] = x

\* The assertion and the acceptor context an extra round trip key belongs to.
OwnedXRT(k, x, a) ==
    /\ Len(k) > 1 /\ k[Len(k)] = a
    /\ \/ Len(k) = 3 /\ k[1] = x /\ k[2] \in Acceptors
       \/ k[Len(k) - 1] = x

\* An initiator context uses its own assertions, each made once, and takes its
\* secret from the one it is waiting on.
InitiatorInv ==
    \A i \in Initiators :
        /\ ini[i].ret = "CONTINUE_NEEDED" => ini[i].aid \in Aid /\ ini[i].aid[1] = i
        /\ ini[i].ret = "CONTINUE_NEEDED" /\ ini[i].secret # NoKey =>
             Owned(ini[i].secret, ini[i].aid)
        /\ ini[i].state = "INITIAL" => ini[i].ret = "NONE"
        /\ \A m \in netI : m.aid[1] = i => ini[i].state # "INITIAL"
        /\ \A m \in netI : m.aid = <<i, 2>> => ~ini[i].reauth

AssertionInv == \A m, n \in netI : m.aid = n.aid => m.xrt = n.xrt

\* An initiator context makes one extra round trip token, for one acceptor
\* context and with a secret of one of its own assertions.
XRTTokenInv ==
    /\ \A t \in netX :
         /\ ini[t.from].ret # "CONTINUE_NEEDED" /\ ini[t.from].state # "INITIAL"
         /\ \E x \in Aid, a \in Acceptors : x[1] = t.from /\ OwnedXRT(t.key, x, a)
    /\ \A t, u \in netX : t.from = u.from => t = u

AcceptorInv ==
    \A a \in Acceptors :
        acc[a].state \in {"VERIFYING", "EXTRA_ROUND_TRIP"} =>
            /\ acc[a].aid \in Aid
            /\ Owned(acc[a].secret, acc[a].aid)
            /\ \E m \in netI : m.aid = acc[a].aid /\ m.xrt = acc[a].xrt
            /\ acc[a].state = "EXTRA_ROUND_TRIP" => acc[a].xrt

AcceptedInv ==
    \A e \in accepted :
        /\ acc[e.acc].state \in {"ESTABLISHED", "RELEASED"}
        /\ \E m \in netI : m.aid = e.aid /\ m.xrt = e.xrt
        /\ e.xrt => \E t \in netX : t.from = e.aid[1] /\ t.key[Len(t.key)] = e.acc

\* Two contexts in the middle of a verification overlap, and one that is in the
\* middle of verifying an assertion already accepted overlapped with the context
\* that accepted it: the cache has known the assertion since then.
RaceInv ==
    /\ \A a, b \in Acceptors :
         acc[a].state = "VERIFYING" /\ acc[b].state = "VERIFYING" /\ a # b => Raced(a, b)
    /\ \A e \in accepted : ~e.xrt => e.aid \in DOMAIN rcache \cup expired
    /\ \A a \in Acceptors, e \in accepted :
         acc[a].state = "VERIFYING" /\ ~acc[a].xrt /\ e.aid = acc[a].aid => Raced(a, e.acc)

\* The inductive invariant behind AtMostOnce, for a replay cache that loses
\* nothing: how assertions, extra round trip tokens, the acceptors' progress and
\* the replay cache constrain each other.
ReplayInv ==
    /\ InitiatorInv
    /\ AssertionInv
    /\ XRTTokenInv
    /\ AcceptorInv
    /\ AcceptedInv
    /\ RaceInv
    /\ AtMostOnce

\* Two established ends of one exchange have the same key, whether it comes from
\* the key agreement, from a ticket or from the extra round trip.
KeysAgree ==
    \A i \in Initiators : \A e \in accepted :
        /\ ini[i].state = "ESTABLISHED"
        /\ e.aid = ini[i].aid
        /\ \A f \in accepted : f.aid = e.aid => f = e
        => e.key = ini[i].key

\* A ticket and the replay cache entry it refers to hold the same ARK, so the
\* acceptor can verify the authenticators the initiator will sign with it.
TicketKeysAgree ==
    \A t \in tickets : t.tid \in DOMAIN rcache => rcache[t.tid].ark = t.ark

\* Both ends of a chain of re-authentications agree: an established acceptor and
\* its initiator on the session key (gssBidContextReady), and the two halves of a
\* ticket on its key (_BIDStoreTicketInCache, _BIDUpdateReplayCache).
ChainKeysAgree == KeysAgree /\ TicketKeysAgree

\* The acceptor contexts whose BIDVerifyAssertion has got past the look into the
\* replay cache with assertion x.
Verifiers(x) == {a \in Acceptors : acc[a].aid = x /\ acc[a].secret # NoKey}

\* The assertion was delivered again, and the replay cache did not stop it: it asked
\* for the extra round trip, or its verifications overlapped.
Repeated(x) == \E a, b \in Verifiers(x) : a # b /\ (acc[a].xrt \/ Raced(a, b))

\* However tokens travel, a ticket stops working while the acceptor still has an entry
\* for it (_BIDUpdateReplayCache stored another ARK over it) only if its assertion was
\* verified a second time; no other exchange, failed call or late response of either
\* side touches the two halves of a ticket.
OverwrittenOnlyByRepeat ==
    \A t \in tickets :
        t.tid \in DOMAIN rcache => rcache[t.tid].ark = t.ark \/ Repeated(t.tid)

\* The first assertion a key descends from.
Root(k) == k[1]

\* An initiator reports GSS_C_MUTUAL_FLAG only if the acceptor proved its identity
\* with a certificate for the assertion that this context's key descends from,
\* however many tickets lie in between.
MutualGrounded ==
    \A i \in Initiators :
        ini[i].state = "ESTABLISHED" /\ ini[i].mutual =>
            \E r \in netA : r.x509 /\ r.re = Root(ini[i].key)

\* The loop of gssBidInitSecContext ends.
NoSpin == \A i \in Initiators : ini[i].state # "SPINNING"

\* The assertion at the end of gssBidInitSecContext, init_sec_context.c:391:
\* a call that does not fail leaves the context established or asks for more.
InitReturnConsistent ==
    \A i \in Initiators : ini[i].ret = "COMPLETE" => ini[i].state = "ESTABLISHED"

\* An exchange that was started ends with both contexts established and with one
\* key, also if the acceptor no longer has or no longer honours the ticket.
Establishes ==
    \A i \in Initiators :
        ini[i].state = "AUTHENTICATE" ~>
            /\ ini[i].state = "ESTABLISHED"
            /\ \E e \in accepted : e.aid = ini[i].aid /\ e.key = ini[i].key
=============================================================================
