----------------------------- MODULE Verification -----------------------------
(***************************************************************************)
(* Verification of a backed assertion: _BIDUnpackBackedAssertion,          *)
(* _BIDVerifyLocal on each of the paths its comment lists, _BIDVerifyRemote,*)
(* and what BIDVerifyAssertion and BIDVerifyRPResponseToken add, in the    *)
(* order of the code.  A field of the token is chosen when it is read.     *)
(* Whether an issuer is authoritative is the subject of Authority.         *)
(*                                                                         *)
(* The references to three JSON objects are counted: the payload of the    *)
(* certificate, which an identity is made of, the document of the issuer,  *)
(* and the key the caller verifies a response with.                        *)
(***************************************************************************)
EXTENDS Integers, Sequences, FiniteSets

CONSTANTS
    MaxCerts,     \* BID_MAX_CERTS
    Skew,         \* BID_PARAM_SKEW
    Now,          \* the verification time
    IssueTimes, StartTimes, EndTimes,   \* the times in a token: iat, nbf, exp
    None

\* What a check may find instead of None: keys, audiences, subjects and errors.
Found ==
    {"session", "leaf", "x5c", "ticket", "same", "host", "certified",
     "INVALID_ASSERTION", "ASSERTION_NOT_YET_VALID", "UNKNOWN_JSON_KEY", "EXPIRED_ASSERTION",
     "MISSING_SIGNATURE", "INVALID_KEYSET", "INVALID_SIGNATURE"}

VerificationAssumption ==
    /\ {MaxCerts, Skew, Now} \subseteq Nat
    /\ (IssueTimes \cup StartTimes \cup EndTimes) \subseteq Nat \ {0}
    /\ None \notin Nat \cup Found

VARIABLES
    pc,           \* the check that is next
    req,          \* arguments and context options
    tok,          \* what has been read of the token
    flags,        \* *pulRetFlags
    cred,         \* verifyCred
    identity,     \* verifiedIdentity: what it is made of and its subject
    refs,         \* references to the objects that are counted
    result,
    asserted      \* the BID_ASSERTs met so far hold

vars == <<pc, req, tok, flags, cred, identity, refs, result, asserted>>

\* BIDVerifyAssertion: an assertion from the initiator.
AssertionRequests ==
    [rp : {FALSE}, remote : BOOLEAN, reauth : BOOLEAN, audience : BOOLEAN, cb : BOOLEAN,
     alias : BOOLEAN, subject : {FALSE}, session : {FALSE}, gss : {TRUE}, initial : {TRUE}]
\* BIDVerifyRPResponseToken: the response of an acceptor; session says that
\* there is a session key, initial that there was no re-authentication.
ResponseRequests ==
    [rp : {TRUE}, remote : {FALSE}, reauth : {FALSE}, audience : {FALSE}, cb : {FALSE},
     alias : {FALSE}, subject : BOOLEAN, session : BOOLEAN, gss : BOOLEAN, initial : BOOLEAN]

\* iat, nbf and exp of an assertion, each of which may be missing.
Claims ==
    [iat : IssueTimes \cup {None}, nbf : StartTimes \cup {None}, exp : EndTimes \cup {None}]
Unread ==
    [certs |-> 0, x5c |-> None, tkt |-> None, aud |-> None, cb |-> None, claims |-> None,
     email |-> None, nonce |-> None, by |-> None]
NoIdentity == [of |-> None, sub |-> None]

Init ==
    /\ pc = "unpack"
    /\ req \in AssertionRequests \cup ResponseRequests
    /\ tok = Unread
    /\ flags = {}
    /\ cred = IF req.session THEN "session" ELSE None
    /\ identity = NoIdentity
    /\ refs = [leaf |-> 0, root |-> 0, session |-> IF req.session THEN 1 ELSE 0]
    /\ result = None
    /\ asserted = TRUE

Checks(here, there) == pc = here /\ pc' = there
Fails(here, error) == pc = here /\ pc' = "cleanup" /\ result' = error

-----------------------------------------------------------------------------
(***************************************************************************)
(* The token.                                                              *)
(***************************************************************************)

\* The parts of a token between the "~": a JWT, nothing, or what _BIDParseJWT
\* refuses.
Parts == UNION {[1..n -> {"jwt", "empty", "bad"}] : n \in 1..(MaxCerts + 2)}
CertsBefore(parts, i) == Cardinality({j \in 1..(i - 1) : parts[j] = "jwt"})

\* rCertificates has room for another certificate.
HasRoom(n) == n < MaxCerts

\* Empty parts are skipped; the last one has to be the assertion.
Unpacks(parts) ==
    /\ \A i \in 1..Len(parts) : parts[i] # "bad"
    /\ \A i \in 1..(Len(parts) - 1) : HasRoom(CertsBefore(parts, i))
    /\ parts[Len(parts)] = "jwt"

UnpackBackedAssertion ==
    /\ pc = "unpack"
    /\ \E parts \in Parts :
           LET certs == CertsBefore(parts, Len(parts)) IN
           IF Unpacks(parts)
           THEN /\ pc' = IF req.remote THEN "audience" ELSE "local"
                /\ tok' = [tok EXCEPT !.certs = certs]
                /\ refs' = [refs EXCEPT !.leaf = IF certs > 0 THEN 1 ELSE 0,
                                        !.session = IF req.session THEN 2 ELSE 0]
                /\ flags' = CASE req.rp -> {"RP"} [] req.remote -> {"REMOTE"} [] OTHER -> {}
                /\ UNCHANGED result
           ELSE /\ pc' = "returned" /\ result' = "INVALID_ASSERTION"
                /\ UNCHANGED <<tok, refs, flags>>
    /\ UNCHANGED <<req, cred, identity, asserted>>

-----------------------------------------------------------------------------
(***************************************************************************)
(* Without a certificate: X.509, a ticket, or the key of the caller.       *)
(***************************************************************************)

\* The reference to the caller's key is lost.
ValidateX509 ==
    /\ pc = "local" /\ tok.certs = 0
    /\ \/ /\ Checks("local", "audience")
          /\ tok' = [tok EXCEPT !.x5c = "trusted"]
          /\ cred' = "x5c"
          /\ flags' = flags \cup {"X509", "VALIDATED_CERTS"}
          /\ UNCHANGED result
       \/ /\ Fails("local", "UNTRUSTED_X509_CERT")
          /\ tok' = [tok EXCEPT !.x5c = "untrusted"]
          /\ UNCHANGED <<cred, flags>>
    /\ UNCHANGED <<req, identity, refs, asserted>>

\* _BIDVerifyReauthAssertion: the token names no ticket, or one that is not in
\* the cache, is too weak or has expired, or the signature is not of its ARK.
VerifyReauthAssertion ==
    /\ pc = "local" /\ tok.certs = 0 /\ req.reauth
    /\ asserted' = (asserted /\ cred = None /\ ~req.rp)
    /\ \/ /\ Checks("local", "audience")
          /\ tok' = [tok EXCEPT !.tkt = "valid", !.by = "ticket"]
          /\ cred' = "ticket"
          /\ identity' = [of |-> "ticket", sub |-> "ticket"]
          /\ flags' = flags \cup {"REAUTH"}
          /\ UNCHANGED result
       \/ /\ Fails("local", "NOT_REAUTH_ASSERTION")
          /\ UNCHANGED <<tok, cred, identity, flags>>
       \/ /\ \E e \in {"INVALID_ASSERTION", "KEY_TOO_SHORT", "EXPIRED_ASSERTION", "INVALID_SIGNATURE"} :
                 Fails("local", e)
          /\ flags' = flags \cup {"REAUTH"}
          /\ UNCHANGED <<tok, cred, identity>>
    /\ UNCHANGED <<req, refs>>

\* Only a response may be signed with a key that the caller has.
NeedsCertificate == ~req.rp

VerifyLocalOther ==
    /\ \/ tok.certs > 0 /\ Checks("local", "audience") /\ UNCHANGED result
       \/ tok.certs = 0 /\ ~req.reauth /\ ~NeedsCertificate /\ Checks("local", "audience") /\ UNCHANGED result
       \/ tok.certs = 0 /\ ~req.reauth /\ NeedsCertificate /\ Fails("local", "INVALID_ASSERTION")
    /\ UNCHANGED <<req, tok, flags, cred, identity, refs, asserted>>

-----------------------------------------------------------------------------
(***************************************************************************)
(* Audience, expiry and certificates.                                      *)
(***************************************************************************)

\* Wrong variant: a ticket stands in for the channel bindings.
BindingsMatchUnlessReauth(cb) == req.cb => (cb = "same" \/ "REAUTH" \in flags)

BindingsMatch(cb) == req.cb => cb = "same"
AudienceMatches(aud) == req.audience => (aud = "same" \/ (aud = "host" /\ req.alias))

\* "host" is the host SPN of the audience.  A remote verifier needs to be told
\* an audience.
ValidateAudience ==
    /\ pc = "audience"
    /\ \E aud \in {"same", "host", "other", None}, cb \in {"same", "other", None} :
           /\ tok' = [tok EXCEPT !.aud = aud, !.cb = cb]
           /\ \/ AudienceMatches(aud) /\ BindingsMatch(cb) /\ ~(req.remote /\ aud = None)
                 /\ pc' = (IF req.remote THEN "post" ELSE "expiry") /\ UNCHANGED result
              \/ ~AudienceMatches(aud) /\ Fails("audience", "BAD_AUDIENCE")
              \/ AudienceMatches(aud) /\ ~BindingsMatch(cb)
                 /\ Fails("audience", "CHANNEL_BINDINGS_MISMATCH")
              \/ AudienceMatches(aud) /\ BindingsMatch(cb) /\ req.remote /\ aud = None
                 /\ Fails("audience", "MISSING_AUDIENCE")
    /\ UNCHANGED <<req, flags, cred, identity, refs, asserted>>

Since(t) == IF t = None THEN 0 ELSE t

\* The expiry of claims c, None if they have none.
Expiry(c) == IF c.exp = None /\ c.iat # None THEN c.iat + Skew ELSE c.exp

\* _BIDValidateExpiry
ExpiryError(c) ==
    CASE Since(c.iat) - Now > Skew -> "INVALID_ASSERTION"
      [] Since(c.nbf) - Now > Skew -> "ASSERTION_NOT_YET_VALID"
      [] Expiry(c) = None -> "UNKNOWN_JSON_KEY"
      [] Now - Expiry(c) > Skew -> "EXPIRED_ASSERTION"
      [] OTHER -> None

ValidateExpiry ==
    /\ pc = "expiry"
    /\ \E c \in Claims :
           /\ tok' = [tok EXCEPT !.claims = c]
           /\ IF ExpiryError(c) # None THEN Fails("expiry", ExpiryError(c))
              ELSE IF tok.certs > 1 THEN Fails("expiry", "TOO_MANY_CERTS")
              ELSE Checks("expiry", IF tok.certs = 1 THEN "issuer" ELSE "signature") /\ UNCHANGED result
    /\ UNCHANGED <<req, flags, cred, identity, refs, asserted>>

\* The principal of the certificate; for a response, that of a host.
ValidateCertIssuer ==
    /\ pc = "issuer"
    /\ \/ Checks("issuer", "chain") /\ UNCHANGED result
       \/ \E e \in {"MISSING_PRINCIPAL", "UNKNOWN_PRINCIPAL_TYPE", "INVALID_ISSUER", "MISSING_ISSUER",
                    "UNTRUSTED_ISSUER"} : Fails("issuer", e)
    /\ UNCHANGED <<req, tok, flags, cred, identity, refs, asserted>>

\* Wrong variant: the last key is released at the end, as the first one is.
ChainRefsBalanced(r, ok) == [r EXCEPT !.root = @ + IF ok THEN 0 ELSE 1]

\* The references _BIDValidateCertChain leaves behind: pKey, which is the leaf's
\* payload at the end of the loop, and the issuer's document if it is left early.
ChainRefs(r, ok) == IF ok THEN [r EXCEPT !.leaf = @ + 1] ELSE [r EXCEPT !.root = @ + 1]

\* verifyCred becomes the leaf's payload without a reference of its own.
ValidateCertChain ==
    /\ pc = "chain"
    /\ \/ /\ Checks("chain", "signature")
          /\ refs' = ChainRefs(refs, TRUE)
          /\ cred' = "leaf"
          /\ flags' = flags \cup {"VALIDATED_CERTS"}
          /\ UNCHANGED result
       \/ /\ \E e \in {"EXPIRED_CERT", "CERT_NOT_YET_VALID", "INVALID_SIGNATURE"} : Fails("chain", e)
          /\ refs' = ChainRefs(refs, FALSE)
          /\ UNCHANGED <<cred, flags>>
       \/ /\ \E e \in {"MISSING_ISSUER", "HTTP_ERROR", "NO_KEY"} : Fails("chain", e)
          /\ UNCHANGED <<refs, cred, flags>>
    /\ UNCHANGED <<req, tok, identity, asserted>>

-----------------------------------------------------------------------------
(***************************************************************************)
(* Signature, identity and subject.                                        *)
(***************************************************************************)

\* A token is signed by the owner of one of the keys, or not at all.
Signers == IF tok.by = None THEN {"leaf", "x5c", "session", "other", "nobody"} ELSE {tok.by}

SignatureError(by) ==
    CASE by = "nobody" -> "MISSING_SIGNATURE"
      [] by # "nobody" /\ cred = None -> "INVALID_KEYSET"
      [] by \notin {"nobody", cred} /\ cred # None -> "INVALID_SIGNATURE"
      [] OTHER -> None

VerifyAssertionSignature ==
    /\ pc = "signature"
    /\ asserted' = (asserted /\ cred # None)
    /\ \E by \in Signers :
           /\ tok' = [tok EXCEPT !.by = by]
           /\ IF SignatureError(by) # None THEN Fails("signature", SignatureError(by))
              ELSE pc' = (IF identity = NoIdentity THEN "populate" ELSE "subject") /\ UNCHANGED result
    /\ UNCHANGED <<req, flags, cred, identity, refs>>

\* _BIDPopulateIdentity: the attributes are the leaf's payload, or are filled
\* from the X.509 certificate.
PopulateIdentity ==
    /\ pc = "populate"
    /\ \E email \in {"certified", None} :
           LET of == IF tok.certs > 0 THEN "leaf" ELSE IF "X509" \in flags THEN "x5c" ELSE "empty"
               ok == \/ req.rp
                     \/ email # None /\ of # "empty" /\ (req.remote \/ tok.claims.exp # None)
           IN
           /\ tok' = [tok EXCEPT !.email = email]
           /\ IF ok
              THEN /\ pc' = IF req.remote THEN "reply" ELSE "subject"
                   /\ identity' = [of |-> of, sub |-> IF req.rp THEN None ELSE email]
                   /\ refs' = [refs EXCEPT !.leaf = @ + IF of = "leaf" THEN 1 ELSE 0]
                   /\ UNCHANGED result
              ELSE Fails("populate", "MISSING_PRINCIPAL") /\ UNCHANGED <<identity, refs>>
    /\ UNCHANGED <<req, flags, cred, asserted>>

Presence == {"match", "other", None}

\* _BIDValidateEKUs: without an EKU extension, or with any, or, for GSS, for a
\* service the map has, or, for HTTP, with serverAuth.
EKUsValid(eku, service) ==
    eku \in {None, "any"} \/ IF req.gss THEN service = "http" ELSE eku = "serverAuth"

\* _BIDValidateSubject of a response: an OtherName that is there has to match; a
\* service it names needs no EKU.
HostSubjectValid(othername, hostname, sub, eku, service) ==
    /\ othername # "other"
    /\ "match" \in {othername, hostname, sub}
    /\ othername = "match" \/ EKUsValid(eku, service)

\* An assertion is verified without a subject.
ValidateSubject ==
    /\ pc = "subject"
    /\ \/ /\ ~req.subject \/ "VALIDATED_CERTS" \notin flags
          /\ Checks("subject", "opts") /\ UNCHANGED result
       \/ /\ req.subject /\ "VALIDATED_CERTS" \in flags
          /\ \E othername, hostname, sub \in Presence, service \in {"http", "imap"},
                eku \in {None, "any", "serverAuth", "emailProtection"} :
                 IF HostSubjectValid(othername, hostname, sub, eku, service)
                 THEN Checks("subject", "opts") /\ UNCHANGED result
                 ELSE Fails("subject", "BAD_SUBJECT")
    /\ UNCHANGED <<req, tok, flags, cred, identity, refs, asserted>>

\* _BIDParseProtocolOpts, for assertions only.
ParseProtocolOpts ==
    /\ pc = "opts"
    /\ \/ req.rp /\ pc' = "rp" /\ UNCHANGED <<flags, result>>
       \/ ~req.rp /\ pc' = "cleanup" /\ result' = "OK" /\ UNCHANGED flags
       \/ ~req.rp /\ pc' = "cleanup" /\ result' = "OK" /\ flags' = flags \cup {"EXTRA_ROUND_TRIP"}
       \/ ~req.rp /\ Fails("opts", "INVALID_JSON") /\ UNCHANGED flags
    /\ UNCHANGED <<req, tok, cred, identity, refs, asserted>>

\* A response with a certificate echoes the initiator's nonce.
NonceMatches(nonce) == "VALIDATED_CERTS" \in flags => nonce = "same" /\ req.initial

\* The rest of BIDVerifyRPResponseToken.
VerifyRPResponseToken ==
    /\ pc = "rp"
    /\ \E nonce \in {"same", "other", None} :
           /\ tok' = [tok EXCEPT !.nonce = nonce]
           /\ pc' = "cleanup"
           /\ result' = CASE tok.aud # None -> "REFLECTED_RP_RESPONSE"
                          [] tok.aud = None /\ ~NonceMatches(nonce) -> "MISMATCHED_RP_RESPONSE"
                          [] OTHER -> "OK"
    /\ UNCHANGED <<req, flags, cred, identity, refs, asserted>>

-----------------------------------------------------------------------------
(***************************************************************************)
(* _BIDVerifyRemote.                                                       *)
(***************************************************************************)

\* The verifier answers, or does not, or refuses the assertion.
PostDocument ==
    /\ \/ Checks("post", "populate") /\ UNCHANGED result
       \/ \E e \in {"HTTP_ERROR", "REMOTE_VERIFY_FAILURE"} : Fails("post", e)
    /\ UNCHANGED <<req, tok, flags, cred, identity, refs, asserted>>

\* _BIDJsonObjectSet without a value removes the attribute.
SubjectOf(reply, old) == reply

RemoteVerifierResponseToIdentity ==
    /\ pc = "reply"
    /\ \E email \in {"replied", None} :
           identity' = [identity EXCEPT !.sub = SubjectOf(email, @)]
    /\ flags' = flags \cup {"VALIDATED_CERTS"}
    /\ pc' = "cleanup" /\ result' = "OK"
    /\ UNCHANGED <<req, tok, cred, refs, asserted>>

\* The identity is released on an error, or if it is not asked for; so is
\* verifyCred, and then the backed assertion.
Cleanup ==
    LET drops == identity.of = "leaf" /\ (result # "OK" \/ req.rp) IN
    /\ pc = "cleanup"
    /\ pc' = "returned"
    /\ identity' = IF result # "OK" \/ req.rp THEN NoIdentity ELSE identity
    /\ refs' = [refs EXCEPT !.leaf = @ - (IF drops THEN 1 ELSE 0) - (IF cred = "leaf" THEN 1 ELSE 0)
                                       - (IF tok.certs > 0 THEN 1 ELSE 0),
                            !.session = @ - IF cred = "session" THEN 2 ELSE IF req.session THEN 1 ELSE 0]
    /\ UNCHANGED <<req, tok, flags, cred, result, asserted>>

Next ==
    \/ UnpackBackedAssertion \/ ValidateX509 \/ VerifyReauthAssertion \/ VerifyLocalOther
    \/ ValidateAudience \/ ValidateExpiry \/ ValidateCertIssuer \/ ValidateCertChain
    \/ VerifyAssertionSignature \/ PopulateIdentity \/ ValidateSubject \/ ParseProtocolOpts
    \/ VerifyRPResponseToken \/ PostDocument \/ RemoteVerifierResponseToIdentity \/ Cleanup

Spec == Init /\ [][Next]_vars

-----------------------------------------------------------------------------
(***************************************************************************)
(* Properties.                                                             *)
(***************************************************************************)

\* The state of a verification has its type.
TypeOK ==
    /\ pc \in {"unpack", "local", "audience", "expiry", "issuer", "chain", "signature", "populate",
               "subject", "opts", "rp", "post", "reply", "cleanup", "returned"}
    /\ req \in AssertionRequests \cup ResponseRequests
    /\ tok.certs \in 0..MaxCerts
    /\ tok.claims \in Claims \cup {None}
    /\ flags \subseteq {"RP", "REMOTE", "X509", "VALIDATED_CERTS", "REAUTH", "EXTRA_ROUND_TRIP"}
    /\ cred \in {None, "session", "x5c", "ticket", "leaf"}
    /\ identity \in [of : {None, "leaf", "x5c", "ticket", "empty"},
                     sub : {None, "certified", "ticket", "replied"}]
    /\ refs \in [leaf : -1..3, root : 0..1, session : 0..2]
    /\ asserted \in BOOLEAN

Accepted == pc = "returned" /\ result = "OK"

\* On every path of _BIDVerifyLocal and _BIDVerifyRemote an accepted token is for
\* this audience and these channel bindings, if the caller has any, and one that
\* was verified here is valid now: no more than the skew past its expiry, and
\* without an expiry no more than two skews past its issue.
AcceptedIsForUs ==
    Accepted =>
        /\ req.audience => (tok.aud = "same" \/ (req.alias /\ tok.aud = "host"))
        /\ req.cb => tok.cb = "same"
        /\ ~req.remote =>
               LET c == tok.claims IN
               /\ \A t \in {c.iat, c.nbf} \ {None} : t <= Now + Skew
               /\ IF c.exp # None THEN Now <= c.exp + Skew
                                  ELSE (req.rp \/ cred = "ticket") /\ c.iat # None /\ Now <= c.iat + 2 * Skew

\* An accepted token is signed with a key the verifier has reason to trust, and
\* the flags tell the caller which: a validated certificate for an assertion
\* without a ticket; for a response, the session key or a certificate that the
\* initiator's nonce proves fresh, never in a re-authentication; and a response
\* is no assertion sent back (_BIDVerifyLocal, BIDVerifyRPResponseToken).
AcceptedIsTrusted ==
    Accepted =>
        /\ req.remote \/ (tok.by = cred /\ cred # None)
        /\ "VALIDATED_CERTS" \in flags <=> (req.remote \/ cred \in {"leaf", "x5c"})
        /\ "REAUTH" \in flags <=> cred = "ticket"
        /\ ~req.rp /\ ~req.remote => cred \in {"leaf", "x5c", "ticket"}
        /\ req.rp => tok.aud = None
        /\ req.rp /\ cred # "session" => tok.nonce = "same" /\ req.initial

\* The payload of the certificate lives as long as the backed assertion or an
\* identity refers to it, and no longer: _BIDVerifyLocal releases it once too
\* often, for the reference that _BIDValidateCertChain leaves behind.
LeafReferenced ==
    /\ pc \notin {"unpack", "returned"} /\ tok.certs > 0 => refs.leaf >= 1
    /\ pc = "returned" => refs.leaf = IF identity.of = "leaf" THEN 1 ELSE 0

\* The subject of an identity the remote verifier vouched for is the one in its
\* reply, never one that only the unverified certificate states
\* (_BIDRemoteVerifierResponseToIdentity).
RemoteSubject ==
    (Accepted /\ req.remote) => identity.sub \in {"replied", None}

\* The assertions in _BIDVerifyLocal, of which bid_verify.c:425 says that there is
\* a key to verify the signature with: they fail only for a response without a
\* certificate to a caller without a session key.
HasVerifyCred == asserted \/ (req.rp /\ ~req.session /\ tok.certs = 0)
=============================================================================
