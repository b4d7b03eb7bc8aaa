------------------------- MODULE SecContext_proofs -------------------------
(***************************************************************************)
(* Theorems about SecContext, for any sets of contexts, any requests and   *)
(* any faults: the replay cache, then the keys and how a call ends, that is *)
(* what the two ends of an exchange, and the two halves of a ticket, know  *)
(* of each other.                                                          *)
(***************************************************************************)
EXTENDS SecContext, TLAPS, SequenceTheorems

(***************************************************************************)
(* What the provers need to know of keys.                                  *)
(***************************************************************************)

\* Appending an element adds one element at the end: the key derivations below
\* keep the history of a key.
LEMMA AppendFacts ==
    ASSUME NEW S, NEW s \in Seq(S), NEW e \in S
    PROVE /\ Append(s, e) \in Seq(S)
          /\ Len(Append(s, e)) = Len(s) + 1
          /\ Append(s, e)[Len(s) + 1] = e
          /\ \A k \in 1 .. Len(s) : Append(s, e)[k] = s[k]
          /\ Append(s, e) # << >>
  OBVIOUS

\* Every derivation _BIDDeriveKey is used for yields a key, and never the empty one.
LEMMA KeyFacts ==
    /\ NoKey \in Key
    /\ \A x \in Aid, a \in Acceptors : DH(x, a) \in Key
    /\ \A k \in Key, x \in Aid : AuthenticatorSessionKey(k, x) \in Key
    /\ \A k \in Key : SessionSubkey(k, "ARK") \in Key /\ SessionSubkey(k, "RRK") \in Key
    /\ \A k \in Key, a \in Acceptors : XRTKey(k, a) \in Key
  <1> USE DEF Key, Salt
  <1>1. NoKey \in Key
    BY DEF NoKey
  <1>2. \A x \in Aid, a \in Acceptors : DH(x, a) \in Key
    BY DEF DH
  <1>3. \A k \in Key, x \in Salt : Append(k, x) \in Key
    BY AppendFacts
  <1> QED
    BY <1>1, <1>2, <1>3 DEF AuthenticatorSessionKey, SessionSubkey, XRTKey, Derive

-----------------------------------------------------------------------------
(***************************************************************************)
(* Type correctness.                                                       *)
(***************************************************************************)

\* The initiator contexts of a step that changes one of them.
InitOK(f) ==
    /\ f \in [Initiators -> InitContext]
    /\ \A i \in Initiators : f[i].ret = "CONTINUE_NEEDED" => f[i].aid \in Aid

AcceptOK(f) ==
    /\ f \in [Acceptors -> AcceptContext]
    /\ \A a \in Acceptors :
         f[a].state \in {"VERIFYING", "EXTRA_ROUND_TRIP"} => f[a].aid \in Aid

\* The part of TypeInv that is about the tokens, the caches and the histories.
RestOK ==
    /\ netI \subseteq Assertion
    /\ netA \subseteq Response
    /\ netX \subseteq XRTToken
    /\ tickets \subseteq Ticket
    /\ DOMAIN rcache \subseteq Aid
    /\ \A x \in DOMAIN rcache : rcache[x] \in CacheEntry
    /\ expired \subseteq Aid
    /\ overlap \in [Acceptors -> SUBSET Acceptors]
    /\ accepted \subseteq [acc : Acceptors, aid : Aid, xrt : BOOLEAN, key : Key]

\* TypeOK, regrouped, with what makes it inductive: a context that waits for a
\* token knows the assertion it has sent or is verifying.
TypeInv == InitOK(ini) /\ AcceptOK(acc) /\ RestOK

\* The regrouping loses nothing.
LEMMA TypeInvTypeOK == TypeInv => TypeOK
  BY DEF TypeInv, InitOK, AcceptOK, RestOK, TypeOK

\* Changing one context of a good set of contexts to a good one.
LEMMA InitUpdate ==
    ASSUME NEW f, InitOK(f), NEW i \in Initiators, NEW c \in InitContext,
           c.ret = "CONTINUE_NEEDED" => c.aid \in Aid
    PROVE InitOK([f EXCEPT ![i] = c])
  BY DEF InitOK

\* A failing call releases the context.
LEMMA InitReleasedType ==
    ASSUME InitOK(ini), NEW i \in Initiators
    PROVE InitOK(InitReleased(i))
  <1> DEFINE c == [ini[i] EXCEPT !.state = "RELEASED", !.ret = "FAILURE"]
  <1>0. ini[i] \in InitContext
    BY DEF InitOK
  <1>s. "RELEASED" \in InitState /\ "FAILURE" \in Major
    BY DEF InitState, Major
  <1>1. c \in InitContext /\ c.ret = "FAILURE"
    BY <1>0, <1>s DEF InitContext
  <1>2. InitReleased(i) = [ini EXCEPT ![i] = c]
    BY DEF InitReleased, InitOK
  <1>3. InitOK([ini EXCEPT ![i] = c])
    <2> HIDE DEF c
    <2> QED BY <1>1, InitUpdate
  <1> QED
    BY <1>2, <1>3

\* An initiator's steps keep the types.
LEMMA InitStepType ==
    ASSUME TypeInv, NEW i \in Initiators, InitStep(i) \/ DeleteInit(i)
    PROVE TypeInv'
  <1>0. <<i, 1>> \in Aid /\ <<i, 2>> \in Aid
    BY DEF Aid
  <1>i. InitOK(ini) /\ ini[i] \in InitContext
    BY DEF TypeInv, InitOK
  <1>a. InitOK(InitReleased(i))
    BY <1>i, InitReleasedType
  <1>q. Requests \subseteq [xrt : BOOLEAN, mutual : BOOLEAN]
    BY SecContextAssumption
  <1>1. CASE InitReauth(i)
    <2> PICK req \in Requests, t \in tickets :
          /\ netI' = netI \cup {ReauthAssertion(<<i, 1>>, req, t)}
          /\ ini' = [ini EXCEPT ![i] =
                      [state |-> "AUTHENTICATE", req |-> req, reauth |-> TRUE,
                       mutual |-> t.mutual, aid |-> <<i, 1>>,
                       secret |-> AuthenticatorSessionKey(t.ark, <<i, 1>>),
                       key |-> NoKey, ret |-> "CONTINUE_NEEDED"]]
      BY <1>1 DEF InitReauth
    <2>0. t \in Ticket
      BY DEF TypeInv, RestOK
    <2>1. ReauthAssertion(<<i, 1>>, req, t) \in Assertion
      BY <1>0, <1>q, <2>0 DEF ReauthAssertion, Assertion, Ticket
    <2>2. AuthenticatorSessionKey(t.ark, <<i, 1>>) \in Key /\ NoKey \in Key
      BY <1>0, <2>0, KeyFacts DEF Ticket
    <2>3. InitOK(ini')
      <3> DEFINE c == [state |-> "AUTHENTICATE", req |-> req, reauth |-> TRUE,
                       mutual |-> t.mutual, aid |-> <<i, 1>>,
                       secret |-> AuthenticatorSessionKey(t.ark, <<i, 1>>),
                       key |-> NoKey, ret |-> "CONTINUE_NEEDED"]
      <3>1. c \in InitContext /\ c.aid \in Aid
        BY <1>0, <1>q, <2>0, <2>2 DEF InitContext, InitState, Major, Ticket
      <3> QED
        BY <3>1, <1>i, InitUpdate
    <2> QED
      BY <1>1, <2>1, <2>3 DEF InitReauth, TypeInv, RestOK
  <1>2. CASE InitCert(i)
    <2> PICK req \in Requests :
          /\ netI' = netI \cup {CertAssertion(<<i, 1>>, req)}
          /\ ini' = [ini EXCEPT ![i] =
                      [state |-> "AUTHENTICATE", req |-> req, reauth |-> FALSE,
                       mutual |-> FALSE, aid |-> <<i, 1>>, secret |-> NoKey,
                       key |-> NoKey, ret |-> "CONTINUE_NEEDED"]]
      BY <1>2 DEF InitCert
    <2>1. CertAssertion(<<i, 1>>, req) \in Assertion
      BY <1>0, <1>q, KeyFacts DEF CertAssertion, Assertion
    <2>2. InitOK(ini')
      <3> DEFINE c == [state |-> "AUTHENTICATE", req |-> req, reauth |-> FALSE,
                       mutual |-> FALSE, aid |-> <<i, 1>>, secret |-> NoKey,
                       key |-> NoKey, ret |-> "CONTINUE_NEEDED"]
      <3>1. c \in InitContext /\ c.aid \in Aid
        BY <1>0, <1>q, KeyFacts DEF InitContext, InitState, Major
      <3> QED
        BY <3>1, <1>i, InitUpdate
    <2> QED
      BY <1>2, <2>1, <2>2 DEF InitCert, TypeInv, RestOK
  <1>3. CASE InitAcquireFails(i) \/ DeleteInit(i)
    BY <1>3, <1>a DEF InitAcquireFails, DeleteInit, TypeInv, RestOK
  <1>4. CASE InitResponseToken(i)
    <2> PICK r \in netA : \/ InitRetry(i, r) \/ InitSpin(i, r) \/ InitMinorStatus(i, r)
                          \/ InitReject(i, r) \/ InitEstablish(i, r)
      BY <1>4 DEF InitResponseToken
    <2>0. r \in Response
      BY DEF TypeInv, RestOK
    <2>1. CASE InitRetry(i, r)
      <3> DEFINE c == [ini[i] EXCEPT !.state = "RETRY_AUTHENTICATE", !.reauth = FALSE,
                                     !.mutual = FALSE, !.aid = <<i, 2>>, !.secret = NoKey]
                 f == [ini EXCEPT ![i].state = "RETRY_AUTHENTICATE", ![i].reauth = FALSE,
                                  ![i].mutual = FALSE, ![i].aid = <<i, 2>>,
                                  ![i].secret = NoKey]
      <3>1. CertAssertion(<<i, 2>>, ini[i].req) \in Assertion
        BY <1>0, <1>i, KeyFacts DEF CertAssertion, Assertion, InitContext
      <3>2. c \in InitContext /\ c.aid = <<i, 2>>
        BY <1>0, <1>i, KeyFacts DEF InitContext, InitState
      <3>3. f = [ini EXCEPT ![i] = c]
        BY <1>i DEF InitOK
      <3>4. InitOK(f)
        BY <3>2, <3>3, <1>0, <1>i, InitUpdate, ZenonT(60)
      <3>5. InitOK(ini') /\ netI' \subseteq Assertion
        BY <2>1, <3>1, <3>4, <1>a DEF InitRetry, TypeInv, RestOK
      <3> QED
        BY <2>1, <3>5 DEF InitRetry, TypeInv, RestOK
    <2>2. CASE InitSpin(i, r)
      <3> DEFINE c == [ini[i] EXCEPT !.state = "SPINNING", !.ret = "NONE"]
      <3>1. c \in InitContext /\ c.ret = "NONE"
        BY <1>i DEF InitContext, InitState, Major
      <3>2. ini' = [ini EXCEPT ![i] = c]
        BY <2>2, <1>i DEF InitSpin, InitOK
      <3>3. InitOK(ini')
        BY <3>1, <3>2, <1>i, InitUpdate
      <3> QED
        BY <2>2, <3>3 DEF InitSpin, TypeInv, RestOK
    <2>3. CASE InitMinorStatus(i, r)
      <3> DEFINE c == [ini[i] EXCEPT !.ret = "COMPLETE"]
      <3>1. c \in InitContext /\ c.ret = "COMPLETE"
        BY <1>i DEF InitContext, Major
      <3>2. ini' = [ini EXCEPT ![i] = c]
        BY <2>3, <1>i DEF InitMinorStatus, InitOK
      <3>3. InitOK(ini')
        BY <3>1, <3>2, <1>i, InitUpdate
      <3> QED
        BY <2>3, <3>3 DEF InitMinorStatus, TypeInv, RestOK
    <2>4. CASE InitReject(i, r)
      BY <2>4, <1>a DEF InitReject, TypeInv, RestOK
    <2>5. CASE InitEstablish(i, r)
      <3> DEFINE s == SecretWith(i, r)
                 m == InitialMutual(i, r)
                 c == [ini[i] EXCEPT !.state = "ESTABLISHED", !.mutual = m, !.secret = s,
                                     !.key = ContextKey(s, r), !.ret = "COMPLETE"]
                 f == [ini EXCEPT ![i].state = "ESTABLISHED", ![i].mutual = m,
                                  ![i].secret = s, ![i].key = ContextKey(s, r),
                                  ![i].ret = "COMPLETE"]
      <3>1. ini[i].aid \in Aid
        BY <2>5, <1>i DEF InitEstablish, Receives, InitOK
      <3>2. s \in Key
        BY <2>0, <3>1, <1>i, KeyFacts DEF SecretWith, Response, InitContext
      <3>3. m \in BOOLEAN
        BY <2>0, <1>i DEF InitialMutual, Response, InitContext
      <3>4. TicketOf(i, r, m) \in Ticket
        BY <2>0, <3>2, <3>3, KeyFacts DEF TicketOf, Ticket, Response
      <3>5. XRTKey(s, r.from) \in Key /\ ContextKey(s, r) \in Key
        BY <2>0, <3>2, KeyFacts DEF ContextKey, Response
      <3>6. [from |-> i, key |-> XRTKey(s, r.from)] \in XRTToken
        BY <3>5 DEF XRTToken
      <3>7. tickets' \subseteq Ticket /\ netX' \subseteq XRTToken
        BY <2>5, <3>4, <3>6 DEF InitEstablish, TypeInv, RestOK
      <3>8. c \in InitContext /\ c.ret = "COMPLETE"
        BY <1>i, <3>2, <3>3, <3>5 DEF InitContext, InitState, Major
      <3>9. f = [ini EXCEPT ![i] = c]
        BY <1>i DEF InitOK
      <3>10. InitOK(f)
        BY <3>8, <3>9, <1>i, InitUpdate
      <3>11. InitOK(ini')
        BY <2>5, <3>10, <1>a DEF InitEstablish
      <3> QED
        BY <2>5, <3>7, <3>11 DEF InitEstablish, TypeInv, RestOK
    <2> QED
      BY <2>1, <2>2, <2>3, <2>4, <2>5
  <1> QED
    BY <1>1, <1>2, <1>3, <1>4 DEF InitStep

\* Changing one acceptor context to a good one.
LEMMA AcceptUpdate ==
    ASSUME NEW f, AcceptOK(f), NEW a \in Acceptors, NEW c \in AcceptContext,
           c.state \in {"VERIFYING", "EXTRA_ROUND_TRIP"} => c.aid \in Aid
    PROVE AcceptOK([f EXCEPT ![a] = c])
  BY DEF AcceptOK

\* A failing call releases the acceptor's context.
LEMMA AcceptReleasedType ==
    ASSUME AcceptOK(acc), NEW a \in Acceptors
    PROVE AcceptOK(AcceptReleased(a))
  <1> DEFINE c == [acc[a] EXCEPT !.state = "RELEASED", !.ret = "FAILURE"]
  <1>0. acc[a] \in AcceptContext
    BY DEF AcceptOK
  <1>s. "RELEASED" \in AcceptState /\ "FAILURE" \in Major
    BY DEF AcceptState, Major
  <1>1. c \in AcceptContext /\ c.state = "RELEASED"
    BY <1>0, <1>s DEF AcceptContext
  <1>2. AcceptReleased(a) = [acc EXCEPT ![a] = c]
    BY DEF AcceptReleased, AcceptOK
  <1>3. AcceptOK([acc EXCEPT ![a] = c])
    <2> HIDE DEF c
    <2> QED BY <1>1, AcceptUpdate
  <1> QED
    BY <1>2, <1>3

\* The response of a verified identity is a response.
LEMMA ResponseType ==
    ASSUME AcceptOK(acc), NEW a \in Acceptors, acc[a].aid \in Aid,
           NEW minor \in {"OK", "OTHER"}, NEW tkt \in BOOLEAN
    PROVE ResponseOf(a, minor, tkt) \in Response /\ X509Signs(a) \in BOOLEAN
  <1>1. acc[a] \in AcceptContext
    BY DEF AcceptOK
  <1>2. X509Signs(a) \in BOOLEAN
    BY <1>1, SecContextAssumption DEF X509Signs, AcceptContext
  <1>3. SessionSubkey(acc[a].secret, "RRK") \in Key /\ NoKey \in Key
    BY <1>1, KeyFacts DEF AcceptContext
  <1>4. acc[a].xrt \in BOOLEAN /\ (~acc[a].reauth) \in BOOLEAN
    BY <1>1 DEF AcceptContext
  <1> QED
    BY <1>2, <1>3, <1>4 DEF ResponseOf, Response

\* An acceptor's steps keep the types.
LEMMA AcceptStepType ==
    ASSUME TypeInv, NEW a \in Acceptors,
           AcceptSecContext(a) \/ AcceptDefective(a) \/ DeleteAccept(a)
    PROVE TypeInv'
  <1>i. AcceptOK(acc) /\ acc[a] \in AcceptContext
    BY DEF TypeInv, AcceptOK
  <1>a. AcceptOK(AcceptReleased(a))
    BY <1>i, AcceptReleasedType
  <1>1. ASSUME NEW m \in netI, AcceptReauthFailed(a, m)
        PROVE TypeInv'
    <2> DEFINE c == [acc[a] EXCEPT !.state = "RETRY_INITIAL", !.aid = m.aid,
                                   !.ret = "CONTINUE_NEEDED"]
    <2>0. m \in Assertion
      BY DEF TypeInv, RestOK
    <2>1. c \in AcceptContext /\ c.state = "RETRY_INITIAL"
      BY <1>i, <2>0 DEF AcceptContext, AcceptState, Major, Assertion
    <2>2. acc' = [acc EXCEPT ![a] = c]
      BY <1>1, <1>i DEF AcceptReauthFailed, AcceptOK
    <2>3. AcceptOK(acc')
      BY <2>1, <2>2, <1>i, AcceptUpdate
    <2>4. ReauthFailedResponse(a, m) \in Response
      BY <2>0, KeyFacts DEF ReauthFailedResponse, Response, Assertion
    <2> QED
      BY <1>1, <2>3, <2>4 DEF AcceptReauthFailed, TypeInv, RestOK
  <1>2. ASSUME NEW m \in netI, VerifyBegin(a, m)
        PROVE TypeInv'
    <2> DEFINE k == IF IsReauth(m) THEN AuthenticatorSessionKey(m.ark, m.aid)
                                   ELSE DH(m.aid, a)
               mut == IsReauth(m) /\ rcache[m.tid].mutual /\ m.mutual
               c == [state |-> "VERIFYING", aid |-> m.aid, reauth |-> IsReauth(m),
                     xrt |-> m.xrt, want |-> m.mutual, mutual |-> mut,
                     secret |-> k, key |-> NoKey, ret |-> acc[a].ret]
    <2>0. m \in Assertion
      BY DEF TypeInv, RestOK
    <2>1. k \in Key /\ NoKey \in Key
      BY <2>0, KeyFacts DEF Assertion
    <2>2. mut \in BOOLEAN /\ IsReauth(m) \in BOOLEAN
      BY DEF IsReauth
    <2>3. c \in AcceptContext /\ c.aid \in Aid
      <3> HIDE DEF k, mut
      <3> QED BY <1>i, <2>0, <2>1, <2>2 DEF AcceptContext, AcceptState, Assertion
    <2>4. acc' = [acc EXCEPT ![a] = c]
      BY <1>2 DEF VerifyBegin
    <2>5. AcceptOK(acc')
      <3> HIDE DEF c
      <3> QED BY <2>3, <2>4, <1>i, AcceptUpdate
    <2>6. overlap' \in [Acceptors -> SUBSET Acceptors]
      BY <1>2 DEF VerifyBegin, TypeInv, RestOK
    <2> QED
      BY <1>2, <2>5, <2>6 DEF VerifyBegin, TypeInv, RestOK
  <1>3. ASSUME NEW m \in netI, AcceptReject(a, m)
        PROVE TypeInv'
    <2> DEFINE c == [acc[a] EXCEPT !.state = "RELEASED", !.ret = "FAILURE", !.aid = m.aid]
    <2>0. m \in Assertion
      BY DEF TypeInv, RestOK
    <2>1. c \in AcceptContext /\ c.state = "RELEASED"
      BY <1>i, <2>0 DEF AcceptContext, AcceptState, Major, Assertion
    <2>2. acc' = [acc EXCEPT ![a] = c]
      BY <1>3, <1>i DEF AcceptReject, AcceptReleased, AcceptOK
    <2>3. AcceptOK(acc')
      BY <2>1, <2>2, <1>i, AcceptUpdate
    <2> QED
      BY <1>3, <2>3 DEF AcceptReject, TypeInv, RestOK
  <1>4. CASE VerifyEnd(a)
    <2>0. acc[a].aid \in Aid
      BY <1>4, <1>i DEF VerifyEnd, AcceptOK
    <2> PICK renew \in Renewals(a) :
          /\ rcache' = Put(rcache, acc[a].aid, EntryOf(a, renew))
          /\ \/ /\ acc[a].xrt
                /\ netA' = netA \cup {ResponseOf(a, "OK", renew)}
                /\ acc' = [acc EXCEPT ![a].state = "EXTRA_ROUND_TRIP",
                                      ![a].mutual = @ \/ X509Signs(a),
                                      ![a].ret = "CONTINUE_NEEDED"]
                /\ UNCHANGED accepted
             \/ /\ ~acc[a].xrt
                /\ netA' = netA \cup {ResponseOf(a, "OK", renew)}
                /\ acc' = [acc EXCEPT ![a].state = "ESTABLISHED",
                                      ![a].mutual = @ \/ X509Signs(a),
                                      ![a].key = acc[a].secret, ![a].ret = "COMPLETE"]
                /\ accepted' = accepted \cup {Acceptance(a, acc[a].secret)}
             \/ /\ acc' = AcceptReleased(a)
                /\ UNCHANGED <<netA, accepted>>
      BY <1>4 DEF VerifyEnd
    <2>1. renew \in BOOLEAN
      BY DEF Renewals
    <2>2. ResponseOf(a, "OK", renew) \in Response /\ X509Signs(a) \in BOOLEAN
      BY <2>0, <2>1, <1>i, ResponseType
    <2>3. EntryOf(a, renew) \in CacheEntry
      BY <1>i, <2>1, KeyFacts, SecContextAssumption DEF EntryOf, CacheEntry, AcceptContext
    <2>4. /\ DOMAIN rcache' \subseteq Aid
          /\ \A x \in DOMAIN rcache' : rcache'[x] \in CacheEntry
      BY <2>0, <2>3 DEF Put, TypeInv, RestOK
    <2>5. Acceptance(a, acc[a].secret) \in [acc : Acceptors, aid : Aid, xrt : BOOLEAN, key : Key]
      BY <2>0, <1>i DEF Acceptance, AcceptContext
    <2>6. netA' \subseteq Response /\ accepted' \subseteq [acc : Acceptors, aid : Aid, xrt : BOOLEAN, key : Key]
      BY <2>2, <2>5 DEF TypeInv, RestOK
    <2> DEFINE c1 == [acc[a] EXCEPT !.state = "EXTRA_ROUND_TRIP",
                                    !.mutual = acc[a].mutual \/ X509Signs(a),
                                    !.ret = "CONTINUE_NEEDED"]
               c2 == [acc[a] EXCEPT !.state = "ESTABLISHED",
                                    !.mutual = acc[a].mutual \/ X509Signs(a),
                                    !.key = acc[a].secret, !.ret = "COMPLETE"]
    <2>7. c1 \in AcceptContext /\ c1.aid \in Aid /\ c2 \in AcceptContext /\ c2.state = "ESTABLISHED"
      BY <1>i, <2>0 DEF AcceptContext, AcceptState, Major
    <2>8. \/ acc' = [acc EXCEPT ![a] = c1]
          \/ acc' = [acc EXCEPT ![a] = c2]
          \/ acc' = AcceptReleased(a)
      BY <1>i DEF AcceptOK
    <2>9. AcceptOK(acc')
      <3> HIDE DEF c1, c2
      <3> QED BY <2>7, <2>8, <1>i, <1>a, AcceptUpdate
    <2> QED
      BY <1>4, <2>4, <2>6, <2>9 DEF VerifyEnd, TypeInv, RestOK
  <1>5. CASE UpdateFails(a)
    <2> DEFINE c == [acc[a] EXCEPT !.state = "EXTRA_ROUND_TRIP",
                                   !.mutual = acc[a].mutual \/ X509Signs(a),
                                   !.ret = "CONTINUE_NEEDED"]
    <2>0. acc[a].aid \in Aid
      BY <1>5, <1>i DEF UpdateFails, AcceptOK
    <2>1. ResponseOf(a, "OTHER", FALSE) \in Response
      BY <2>0, <1>i, ResponseType
    <2>2. c \in AcceptContext /\ c.aid \in Aid
      BY <1>i, <2>0 DEF AcceptContext, AcceptState, Major
    <2>3. acc' = [acc EXCEPT ![a] = c] \/ acc' = AcceptReleased(a)
      BY <1>5, <1>i DEF UpdateFails, AcceptOK
    <2>4. AcceptOK(acc')
      <3> HIDE DEF c
      <3> QED BY <2>2, <2>3, <1>i, <1>a, AcceptUpdate
    <2>5. netA' \subseteq Response
      BY <1>5, <2>1 DEF UpdateFails, TypeInv, RestOK
    <2> QED
      BY <1>5, <2>4, <2>5 DEF UpdateFails, TypeInv, RestOK
  <1>6. ASSUME NEW t \in netX, AcceptXRT(a, t)
        PROVE TypeInv'
    <2> DEFINE k == XRTKey(acc[a].secret, a)
               c == [acc[a] EXCEPT !.state = "ESTABLISHED", !.key = k, !.ret = "COMPLETE"]
    <2>0. acc[a].aid \in Aid
      BY <1>6, <1>i DEF AcceptXRT, AcceptOK
    <2>1. k \in Key
      BY <1>i, KeyFacts DEF AcceptContext
    <2>2. c \in AcceptContext /\ c.state = "ESTABLISHED"
      BY <1>i, <2>1 DEF AcceptContext, AcceptState, Major
    <2>3. acc' = [acc EXCEPT ![a] = c] \/ acc' = AcceptReleased(a)
      BY <1>6, <1>i DEF AcceptXRT, AcceptOK
    <2>4. AcceptOK(acc')
      <3> HIDE DEF c
      <3> QED BY <2>2, <2>3, <1>i, <1>a, AcceptUpdate
    <2>5. accepted' \subseteq [acc : Acceptors, aid : Aid, xrt : BOOLEAN, key : Key]
      <3>1. Acceptance(a, k) \in [acc : Acceptors, aid : Aid, xrt : BOOLEAN, key : Key]
        BY <2>0, <2>1, <1>i DEF Acceptance, AcceptContext
      <3> QED BY <1>6, <3>1 DEF AcceptXRT, TypeInv, RestOK
    <2> QED
      BY <1>6, <2>4, <2>5 DEF AcceptXRT, TypeInv, RestOK
  <1>7. CASE AcceptDefective(a) \/ DeleteAccept(a)
    BY <1>7, <1>a DEF AcceptDefective, DeleteAccept, TypeInv, RestOK
  <1> QED
    BY <1>1, <1>2, <1>3, <1>4, <1>5, <1>6, <1>7 DEF AcceptSecContext

\* So do the passing of lifetimes and the loss of cache entries.
LEMMA EnvStepType ==
    ASSUME TypeInv, (\E x \in Aid : Expire(x) \/ LoseEntry(x)) \/ PurgeReplayCache
    PROVE TypeInv'
  <1>1. ASSUME NEW x \in Aid, Expire(x)
        PROVE TypeInv'
    BY <1>1 DEF Expire, TypeInv, RestOK
  <1>2. ASSUME NEW S, rcache' = Remove(rcache, S),
               UNCHANGED <<ini, acc, netI, netA, netX, tickets, expired, overlap, accepted>>
        PROVE TypeInv'
    BY <1>2 DEF Remove, TypeInv, RestOK
  <1> QED
    BY <1>1, <1>2 DEF LoseEntry, PurgeReplayCache

\* The inductive invariant of type correctness.
LEMMA TypeInvCorrect == Spec => []TypeInv
  <1>1. Init => TypeInv
    <2> SUFFICES ASSUME Init PROVE TypeInv
      OBVIOUS
    <2>1. NoInitContext \in InitContext /\ NoInitContext.ret = "NONE"
      BY KeyFacts DEF NoInitContext, InitContext, InitState, Major
    <2>2. NoAcceptContext \in AcceptContext /\ NoAcceptContext.state = "INITIAL"
      BY KeyFacts DEF NoAcceptContext, AcceptContext, AcceptState, Major
    <2>3. InitOK(ini)
      BY <2>1 DEF Init, InitOK
    <2>4. AcceptOK(acc)
      BY <2>2 DEF Init, AcceptOK
    <2>5. RestOK
      BY DEF Init, RestOK
    <2> QED
      BY <2>3, <2>4, <2>5 DEF TypeInv
  <1>2. TypeInv /\ [Next]_vars => TypeInv'
    <2> SUFFICES ASSUME TypeInv, [Next]_vars PROVE TypeInv'
      OBVIOUS
    <2>1. CASE Next
      BY <2>1, InitStepType, AcceptStepType, EnvStepType DEF Next
    <2>2. CASE UNCHANGED vars
      BY <2>2 DEF vars, TypeInv, InitOK, AcceptOK, RestOK
    <2> QED
      BY <2>1, <2>2
  <1> QED
    BY <1>1, <1>2, PTL DEF Spec

\* Type correctness: whatever the applications, the caches and the failures do,
\* every context, token and cache entry is of its kind, and no initiator context
\* is left in a state its next call does not dispatch on.
THEOREM TypeCorrect == Spec => []TypeOK
  BY TypeInvCorrect, TypeInvTypeOK, PTL

-----------------------------------------------------------------------------
(***************************************************************************)
(* Replay protection.                                                      *)
(***************************************************************************)

\* The names of assertions.
LEMMA AidFacts ==
    /\ \A i \in Initiators : /\ <<i, 1>> \in Aid /\ <<i, 2>> \in Aid
                             /\ <<i, 1>>[1] = i /\ <<i, 2>>[1] = i
                             /\ <<i, 1>> # <<i, 2>>
    /\ \A x \in Aid : x[1] \in Initiators
    /\ \A x \in Aid : x \notin Acceptors
  <1>1. \A x \in Aid : x \notin Acceptors
    BY SecContextAssumption
  <1> QED
    BY <1>1 DEF Aid

\* A key agreement and an authenticator's session key belong to their assertion.
LEMMA SecretOwned ==
    /\ \A x \in Aid, a \in Acceptors : Owned(DH(x, a), x)
    /\ \A x \in Aid, k \in Key : Owned(AuthenticatorSessionKey(k, x), x)
  <1>1. ASSUME NEW x \in Aid, NEW a \in Acceptors
        PROVE Owned(DH(x, a), x)
    BY DEF Owned, DH
  <1>2. ASSUME NEW x \in Aid, NEW k \in Key
        PROVE Owned(AuthenticatorSessionKey(k, x), x)
    <2>1. x \in Salt
      BY DEF Salt
    <2> QED
      BY <2>1, AppendFacts DEF Owned, AuthenticatorSessionKey, Derive, Key
  <1> QED
    BY <1>1, <1>2

\* The extra round trip key derived from an assertion's secret belongs to that
\* assertion and to the acceptor context whose jti it was derived with.
LEMMA XRTKeyOwned ==
    ASSUME NEW s \in Key, NEW x \in Aid, Owned(s, x), NEW a \in Acceptors
    PROVE OwnedXRT(XRTKey(s, a), x, a)
  <1>1. a \in Salt /\ s \in Seq(Salt)
    BY DEF Salt, Key
  <1>2. PICK k : k = XRTKey(s, a)
    OBVIOUS
  <1>3. /\ Len(k) = Len(s) + 1 /\ k[Len(s) + 1] = a
        /\ \A n \in 1 .. Len(s) : k[n] = s[n]
    BY <1>1, <1>2, AppendFacts DEF XRTKey, Derive
  <1>4. Len(s) \in Nat
    BY <1>1
  <1>5. OwnedXRT(k, x, a)
    <2>1. CASE Len(s) = 2 /\ s[1] = x /\ s[2] \in Acceptors
      BY <1>3, <2>1 DEF OwnedXRT
    <2>2. CASE Len(s) > 0 /\ s[Len(s)] = x
      BY <1>3, <1>4, <2>2 DEF OwnedXRT
    <2> QED
      BY <2>1, <2>2 DEF Owned
  <1> QED
    BY <1>2, <1>5

\* An extra round trip key belongs to one assertion and to one acceptor context:
\* no nonce of an assertion is the jti of an acceptor context.
LEMMA OwnedXRTUnique ==
    ASSUME NEW k, NEW x \in Aid, NEW y \in Aid, NEW a, NEW b,
           OwnedXRT(k, x, a), OwnedXRT(k, y, b)
    PROVE x = y /\ a = b
  BY AidFacts DEF OwnedXRT

\* A step of an initiator after which it waits for nothing, and which makes no
\* token.
LEMMA InitQuiet ==
    ASSUME TypeInv, ReplayInv, NEW i \in Initiators, NEW c,
           ini' = [ini EXCEPT ![i] = c],
           c.ret # "CONTINUE_NEEDED", c.state # "INITIAL", c.reauth = ini[i].reauth,
           UNCHANGED <<acc, netI, netX, rcache, expired, overlap, accepted>>
    PROVE ReplayInv'
  <1>1. \A j \in Initiators : ini'[j] = IF j = i THEN c ELSE ini[j]
    BY DEF TypeInv, InitOK
  <1>2. InitiatorInv'
    BY <1>1 DEF ReplayInv, InitiatorInv
  <1>3. XRTTokenInv'
    <2>1. \A t \in netX : t.from \in Initiators
      BY DEF TypeInv, RestOK, XRTToken
    <2> QED
      BY <1>1, <2>1 DEF ReplayInv, XRTTokenInv
  <1>4. (AssertionInv /\ AcceptorInv /\ AcceptedInv)'
    BY DEF ReplayInv, AssertionInv, AcceptorInv, AcceptedInv
  <1>5. (RaceInv /\ AtMostOnce)'
    BY DEF ReplayInv, RaceInv, AtMostOnce, Raced
  <1> QED
    BY <1>2, <1>3, <1>4, <1>5 DEF ReplayInv

\* A step of an initiator that outputs a new assertion m and waits for its answer.
LEMMA InitSends ==
    ASSUME TypeInv, ReplayInv, NEW i \in Initiators, NEW m,
           \A j \in Initiators : j # i => ini'[j] = ini[j],
           netI' = netI \cup {m},
           m.aid \in Aid, m.aid[1] = i, ini'[i].aid = m.aid,
           \A n \in netI : n.aid # m.aid,
           ini[i].state = "INITIAL" \/ ini[i].ret = "CONTINUE_NEEDED",
           ini'[i].secret # NoKey => Owned(ini'[i].secret, m.aid),
           ini'[i].state # "INITIAL",
           ini'[i].reauth => m.aid # <<i, 2>> /\ ini[i].state = "INITIAL",
           UNCHANGED <<acc, netX, rcache, expired, overlap, accepted>>
    PROVE ReplayInv'
  <1>1. InitiatorInv'
    <2> SUFFICES ASSUME NEW j \in Initiators
                 PROVE /\ ini'[j].ret = "CONTINUE_NEEDED" =>
                            ini'[j].aid \in Aid /\ ini'[j].aid[1] = j
                       /\ ini'[j].ret = "CONTINUE_NEEDED" /\ ini'[j].secret # NoKey =>
                            Owned(ini'[j].secret, ini'[j].aid)
                       /\ ini'[j].state = "INITIAL" => ini'[j].ret = "NONE"
                       /\ \A n \in netI' : n.aid[1] = j => ini'[j].state # "INITIAL"
                       /\ \A n \in netI' : n.aid = <<j, 2>> => ~ini'[j].reauth
      BY DEF InitiatorInv
    <2>1. CASE j # i
      <3>1. m.aid # <<j, 2>>
        BY <2>1, AidFacts
      <3> QED
        BY <2>1, <3>1 DEF ReplayInv, InitiatorInv
    <2>2. CASE j = i
      <3>1. ASSUME NEW n \in netI', n.aid = <<i, 2>>, ini'[i].reauth PROVE FALSE
        <4>1. n \in netI /\ n.aid[1] = i
          BY <3>1, AidFacts
        <4> QED
          BY <3>1, <4>1 DEF ReplayInv, InitiatorInv
      <3> QED
        BY <2>2, <3>1
    <2> QED
      BY <2>1, <2>2
  <1>2. XRTTokenInv'
    <2>1. \A t \in netX : t.from \in Initiators /\ t.from # i
      BY DEF TypeInv, RestOK, XRTToken, ReplayInv, XRTTokenInv
    <2> QED
      BY <2>1 DEF ReplayInv, XRTTokenInv
  <1>3. (AssertionInv /\ AcceptorInv /\ AcceptedInv)'
    BY DEF ReplayInv, AssertionInv, AcceptorInv, AcceptedInv
  <1>4. (RaceInv /\ AtMostOnce)'
    BY DEF ReplayInv, RaceInv, AtMostOnce, Raced
  <1> QED
    BY <1>1, <1>2, <1>3, <1>4 DEF ReplayInv

\* A good response: the context becomes established, or is released, and may
\* output the one extra round trip token it ever makes.
LEMMA InitEstablishes ==
    ASSUME TypeInv, ReplayInv, NEW i \in Initiators, NEW r \in netA, InitEstablish(i, r)
    PROVE ReplayInv'
  <1>0. ini[i] \in InitContext /\ r \in Response
    BY DEF TypeInv, InitOK, RestOK
  <1>r. ini[i].ret = "CONTINUE_NEEDED"
    BY DEF InitEstablish, Receives
  <1> DEFINE s == SecretWith(i, r)
             tok == [from |-> i, key |-> XRTKey(s, r.from)]
  <1>1. PICK c : /\ ini' = [ini EXCEPT ![i] = c]
                 /\ c.ret # "CONTINUE_NEEDED" /\ c.state # "INITIAL"
                 /\ c.reauth = ini[i].reauth
    <2> DEFINE c1 == [ini[i] EXCEPT !.state = "ESTABLISHED", !.mutual = InitialMutual(i, r),
                                    !.secret = s, !.key = ContextKey(s, r),
                                    !.ret = "COMPLETE"]
               c2 == [ini[i] EXCEPT !.state = "RELEASED", !.ret = "FAILURE"]
    <2>1. ini' = [ini EXCEPT ![i] = c1] \/ ini' = [ini EXCEPT ![i] = c2]
      BY DEF InitEstablish, InitReleased, TypeInv, InitOK
    <2>2. /\ c1.ret # "CONTINUE_NEEDED" /\ c1.state # "INITIAL" /\ c1.reauth = ini[i].reauth
          /\ c2.ret # "CONTINUE_NEEDED" /\ c2.state # "INITIAL" /\ c2.reauth = ini[i].reauth
      BY <1>0 DEF InitContext
    <2> QED
      BY <2>1, <2>2
  <1>2. \A j \in Initiators : ini'[j] = IF j = i THEN c ELSE ini[j]
    BY <1>1 DEF TypeInv, InitOK
  <1>3. netX' = netX \/ netX' = netX \cup {tok}
    BY DEF InitEstablish
  <1>4. UNCHANGED <<acc, netI, rcache, expired, overlap, accepted>>
    BY DEF InitEstablish
  <1>5. InitiatorInv'
    BY <1>1, <1>2, <1>4 DEF ReplayInv, InitiatorInv
  <1>6. XRTTokenInv'
    <2>1. \A t \in netX : t.from \in Initiators /\ t.from # i
      BY <1>r DEF TypeInv, RestOK, XRTToken, ReplayInv, XRTTokenInv
    <2>2. /\ ini[i].aid \in Aid /\ ini[i].aid[1] = i
          /\ ini[i].secret # NoKey => Owned(ini[i].secret, ini[i].aid)
      BY <1>r DEF ReplayInv, InitiatorInv
    <2>3. s \in Key /\ Owned(s, ini[i].aid) /\ r.from \in Acceptors
      BY <1>0, <2>2, KeyFacts, SecretOwned DEF SecretWith, InitContext, Response
    <2>4. OwnedXRT(XRTKey(s, r.from), ini[i].aid, r.from)
      BY <2>2, <2>3, XRTKeyOwned
    <2> HIDE DEF s
    <2>5. tok.from = i /\ \E x \in Aid, a \in Acceptors : x[1] = tok.from /\ OwnedXRT(tok.key, x, a)
      BY <2>2, <2>3, <2>4
    <2> HIDE DEF tok
    <2>6. \A t \in netX' :
            /\ ini'[t.from].ret # "CONTINUE_NEEDED" /\ ini'[t.from].state # "INITIAL"
            /\ \E x \in Aid, a \in Acceptors : x[1] = t.from /\ OwnedXRT(t.key, x, a)
      BY <1>1, <1>2, <1>3, <2>1, <2>5 DEF ReplayInv, XRTTokenInv
    <2>7. \A t, u \in netX' : t.from = u.from => t = u
      BY <1>3, <2>1, <2>5 DEF ReplayInv, XRTTokenInv
    <2> QED
      BY <2>6, <2>7 DEF XRTTokenInv
  <1>7. (AssertionInv /\ AcceptorInv)'
    BY <1>4 DEF ReplayInv, AssertionInv, AcceptorInv
  <1>8. AcceptedInv'
    <2>1. netX \subseteq netX'
      BY <1>3
    <2> QED
      BY <1>4, <2>1 DEF ReplayInv, AcceptedInv
  <1>9. (RaceInv /\ AtMostOnce)'
    BY <1>4 DEF ReplayInv, RaceInv, AtMostOnce, Raced
  <1> QED
    BY <1>5, <1>6, <1>7, <1>8, <1>9 DEF ReplayInv

\* An initiator's steps keep the invariant.
LEMMA InitStepReplay ==
    ASSUME TypeInv, ReplayInv, NEW i \in Initiators, InitStep(i) \/ DeleteInit(i)
    PROVE ReplayInv'
  <1>0. ini[i] \in InitContext /\ <<i, 1>> \in Aid /\ <<i, 2>> \in Aid
    BY AidFacts DEF TypeInv, InitOK
  <1>f. ini[i].state = "INITIAL" => \A n \in netI : n.aid # <<i, 1>>
    BY AidFacts DEF ReplayInv, InitiatorInv
  <1>a. ASSUME ini' = InitReleased(i),
               UNCHANGED <<acc, netI, netX, rcache, expired, overlap, accepted>>
        PROVE ReplayInv'
    <2> DEFINE c == [ini[i] EXCEPT !.state = "RELEASED", !.ret = "FAILURE"]
    <2>1. ini' = [ini EXCEPT ![i] = c]
      BY <1>a DEF InitReleased, TypeInv, InitOK
    <2>2. c.ret # "CONTINUE_NEEDED" /\ c.state # "INITIAL" /\ c.reauth = ini[i].reauth
      BY <1>0 DEF InitContext
    <2> HIDE DEF c
    <2> QED
      BY <1>a, <2>1, <2>2, InitQuiet
  <1>1. CASE InitReauth(i)
    <2> PICK req \in Requests, t \in tickets :
          /\ netI' = netI \cup {ReauthAssertion(<<i, 1>>, req, t)}
          /\ ini' = [ini EXCEPT ![i] =
                      [state |-> "AUTHENTICATE", req |-> req, reauth |-> TRUE,
                       mutual |-> t.mutual, aid |-> <<i, 1>>,
                       secret |-> AuthenticatorSessionKey(t.ark, <<i, 1>>),
                       key |-> NoKey, ret |-> "CONTINUE_NEEDED"]]
      BY <1>1 DEF InitReauth
    <2> DEFINE m == ReauthAssertion(<<i, 1>>, req, t)
               c == [state |-> "AUTHENTICATE", req |-> req, reauth |-> TRUE,
                     mutual |-> t.mutual, aid |-> <<i, 1>>,
                     secret |-> AuthenticatorSessionKey(t.ark, <<i, 1>>),
                     key |-> NoKey, ret |-> "CONTINUE_NEEDED"]
    <2>1. t.ark \in Key
      BY DEF TypeInv, RestOK, Ticket
    <2>2. Owned(AuthenticatorSessionKey(t.ark, <<i, 1>>), <<i, 1>>)
      BY <1>0, <2>1, SecretOwned
    <2>3. m.aid = <<i, 1>>
      BY DEF ReauthAssertion
    <2>4. c.aid = <<i, 1>> /\ c.state # "INITIAL" /\ Owned(c.secret, <<i, 1>>)
      BY <2>2
    <2>5. /\ ini[i].state = "INITIAL"
          /\ UNCHANGED <<acc, netX, rcache, expired, overlap, accepted>>
      BY <1>1 DEF InitReauth
    <2>6. ini' = [ini EXCEPT ![i] = c] /\ netI' = netI \cup {m}
      OBVIOUS
    <2> HIDE DEF m, c
    <2>7. m.aid \in Aid /\ m.aid[1] = i /\ \A n \in netI : n.aid # m.aid
      BY <1>0, <1>f, <2>3, <2>4, <2>5, AidFacts
    <2>8. ini'[i] = c /\ \A j \in Initiators : j # i => ini'[j] = ini[j]
      BY <2>6 DEF TypeInv, InitOK
    <2> QED
      BY <2>3, <2>4, <2>5, <2>6, <2>7, <2>8, AidFacts, InitSends
  <1>2. CASE InitCert(i)
    <2> PICK req \in Requests :
          /\ netI' = netI \cup {CertAssertion(<<i, 1>>, req)}
          /\ ini' = [ini EXCEPT ![i] =
                      [state |-> "AUTHENTICATE", req |-> req, reauth |-> FALSE,
                       mutual |-> FALSE, aid |-> <<i, 1>>, secret |-> NoKey,
                       key |-> NoKey, ret |-> "CONTINUE_NEEDED"]]
      BY <1>2 DEF InitCert
    <2> DEFINE m == CertAssertion(<<i, 1>>, req)
               c == [state |-> "AUTHENTICATE", req |-> req, reauth |-> FALSE,
                     mutual |-> FALSE, aid |-> <<i, 1>>, secret |-> NoKey,
                     key |-> NoKey, ret |-> "CONTINUE_NEEDED"]
    <2>1. m.aid = <<i, 1>>
      BY DEF CertAssertion
    <2>2. c.aid = <<i, 1>> /\ c.state # "INITIAL" /\ c.secret = NoKey /\ ~c.reauth
      OBVIOUS
    <2>3. /\ ini[i].state = "INITIAL"
          /\ UNCHANGED <<acc, netX, rcache, expired, overlap, accepted>>
      BY <1>2 DEF InitCert
    <2>4. ini' = [ini EXCEPT ![i] = c] /\ netI' = netI \cup {m}
      OBVIOUS
    <2> HIDE DEF m, c
    <2>5. m.aid \in Aid /\ m.aid[1] = i /\ \A n \in netI : n.aid # m.aid
      BY <1>0, <1>f, <2>1, <2>2, <2>3, AidFacts
    <2>6. ini'[i] = c /\ \A j \in Initiators : j # i => ini'[j] = ini[j]
      BY <2>4 DEF TypeInv, InitOK
    <2> QED
      BY <2>1, <2>2, <2>3, <2>4, <2>5, <2>6, InitSends
  <1>3. CASE InitAcquireFails(i) \/ DeleteInit(i)
    BY <1>3, <1>a DEF InitAcquireFails, DeleteInit
  <1>4. CASE InitResponseToken(i)
    <2> PICK r \in netA : \/ InitRetry(i, r) \/ InitSpin(i, r) \/ InitMinorStatus(i, r)
                          \/ InitReject(i, r) \/ InitEstablish(i, r)
      BY <1>4 DEF InitResponseToken
    <2>1. CASE InitRetry(i, r)
      <3> DEFINE m == CertAssertion(<<i, 2>>, ini[i].req)
                 c == [ini[i] EXCEPT !.state = "RETRY_AUTHENTICATE", !.reauth = FALSE,
                                     !.mutual = FALSE, !.aid = <<i, 2>>, !.secret = NoKey]
      <3>0. /\ ini[i].ret = "CONTINUE_NEEDED" /\ ini[i].reauth
            /\ UNCHANGED <<acc, netX, rcache, expired, overlap, accepted>>
        BY <2>1 DEF InitRetry, Receives
      <3>1. \/ netI' = netI \cup {m} /\ ini' = [ini EXCEPT ![i] = c]
            \/ netI' = netI /\ ini' = InitReleased(i)
        BY <2>1 DEF InitRetry, TypeInv, InitOK
      <3>2. m.aid = <<i, 2>>
        BY DEF CertAssertion
      <3>3. c.aid = <<i, 2>> /\ c.state # "INITIAL" /\ c.secret = NoKey /\ ~c.reauth
        BY <1>0 DEF InitContext
      <3>4. \A n \in netI : n.aid # <<i, 2>>
        BY <3>0 DEF ReplayInv, InitiatorInv
      <3> HIDE DEF m, c
      <3>5. CASE netI' = netI \cup {m} /\ ini' = [ini EXCEPT ![i] = c]
        <4>1. m.aid \in Aid /\ m.aid[1] = i /\ \A n \in netI : n.aid # m.aid
          BY <1>0, <3>2, <3>3, <3>4, AidFacts
        <4>2. ini'[i] = c /\ \A j \in Initiators : j # i => ini'[j] = ini[j]
          BY <3>5 DEF TypeInv, InitOK
        <4> QED
          BY <3>0, <3>2, <3>3, <3>5, <4>1, <4>2, InitSends
      <3>6. CASE netI' = netI /\ ini' = InitReleased(i)
        BY <1>a, <3>0, <3>6
      <3> QED
        BY <3>1, <3>5, <3>6
    <2>2. CASE InitSpin(i, r)
      <3> DEFINE c == [ini[i] EXCEPT !.state = "SPINNING", !.ret = "NONE"]
      <3>1. /\ ini' = [ini EXCEPT ![i] = c]
            /\ UNCHANGED <<acc, netI, netX, rcache, expired, overlap, accepted>>
        BY <2>2 DEF InitSpin, TypeInv, InitOK
      <3>2. c.ret # "CONTINUE_NEEDED" /\ c.state # "INITIAL" /\ c.reauth = ini[i].reauth
        BY <1>0 DEF InitContext
      <3> HIDE DEF c
      <3> QED
        BY <3>1, <3>2, InitQuiet
    <2>3. CASE InitMinorStatus(i, r)
      <3> DEFINE c == [ini[i] EXCEPT !.ret = "COMPLETE"]
      <3>1. /\ ini' = [ini EXCEPT ![i] = c]
            /\ UNCHANGED <<acc, netI, netX, rcache, expired, overlap, accepted>>
        BY <2>3 DEF InitMinorStatus, TypeInv, InitOK
      <3>2. ini[i].state # "INITIAL"
        BY <2>3 DEF InitMinorStatus, Receives, ReplayInv, InitiatorInv
      <3>3. c.ret # "CONTINUE_NEEDED" /\ c.state # "INITIAL" /\ c.reauth = ini[i].reauth
        BY <1>0, <3>2 DEF InitContext
      <3> HIDE DEF c
      <3> QED
        BY <3>1, <3>3, InitQuiet
    <2>4. CASE InitReject(i, r)
      BY <2>4, <1>a DEF InitReject
    <2>5. CASE InitEstablish(i, r)
      BY <2>5, InitEstablishes
    <2> QED
      BY <2>1, <2>2, <2>3, <2>4, <2>5
  <1> QED
    BY <1>1, <1>2, <1>3, <1>4 DEF InitStep

\* A step of an acceptor that ends in neither a verification nor an acceptance.
LEMMA AcceptQuiet ==
    ASSUME TypeInv, ReplayInv, NEW a \in Acceptors,
           \A b \in Acceptors : b # a => acc'[b] = acc[b],
           \/ acc'[a].state = "RELEASED"
           \/ acc'[a].state = "RETRY_INITIAL" /\ acc[a].state = "INITIAL",
           DOMAIN rcache \cup expired \subseteq DOMAIN rcache' \cup expired',
           UNCHANGED <<ini, netI, netX, overlap, accepted>>
    PROVE ReplayInv'
  <1>0. \A e \in accepted : e.acc \in Acceptors
    BY DEF TypeInv, RestOK
  <1>1. (InitiatorInv /\ AssertionInv /\ XRTTokenInv)'
    BY DEF ReplayInv, InitiatorInv, AssertionInv, XRTTokenInv
  <1>2. AcceptorInv'
    BY DEF ReplayInv, AcceptorInv
  <1>3. AcceptedInv'
    BY <1>0 DEF ReplayInv, AcceptedInv
  <1>4. RaceInv'
    BY <1>0 DEF ReplayInv, RaceInv, Raced
  <1>5. AtMostOnce'
    BY DEF ReplayInv, AtMostOnce, Raced
  <1> QED
    BY <1>1, <1>2, <1>3, <1>4, <1>5 DEF ReplayInv

\* A verified assertion that asked for the extra round trip: the acceptor waits for
\* the third token.
LEMMA AcceptContinues ==
    ASSUME TypeInv, ReplayInv, NEW a \in Acceptors,
           \A b \in Acceptors : b # a => acc'[b] = acc[b],
           acc[a].state = "VERIFYING", acc[a].xrt,
           acc'[a].state = "EXTRA_ROUND_TRIP", acc'[a].aid = acc[a].aid,
           acc'[a].secret = acc[a].secret, acc'[a].xrt = acc[a].xrt,
           DOMAIN rcache \cup expired \subseteq DOMAIN rcache' \cup expired',
           UNCHANGED <<ini, netI, netX, overlap, accepted>>
    PROVE ReplayInv'
  <1>0. \A e \in accepted : e.acc \in Acceptors /\ e.acc # a
    BY DEF TypeInv, RestOK, ReplayInv, AcceptedInv
  <1>1. (InitiatorInv /\ AssertionInv /\ XRTTokenInv)'
    BY DEF ReplayInv, InitiatorInv, AssertionInv, XRTTokenInv
  <1>2. AcceptorInv'
    <2>1. /\ acc[a].aid \in Aid /\ Owned(acc[a].secret, acc[a].aid)
          /\ \E m \in netI : m.aid = acc[a].aid /\ m.xrt = acc[a].xrt
      BY DEF ReplayInv, AcceptorInv
    <2>2. acc'[a].xrt
      OBVIOUS
    <2>3. /\ acc'[a].aid \in Aid /\ Owned(acc'[a].secret, acc'[a].aid)
          /\ \E m \in netI' : m.aid = acc'[a].aid /\ m.xrt = acc'[a].xrt
      BY <2>1
    <2>4. ASSUME NEW b \in Acceptors, b # a,
                 acc'[b].state \in {"VERIFYING", "EXTRA_ROUND_TRIP"}
          PROVE /\ acc'[b].aid \in Aid /\ Owned(acc'[b].secret, acc'[b].aid)
                /\ \E m \in netI' : m.aid = acc'[b].aid /\ m.xrt = acc'[b].xrt
                /\ acc'[b].state = "EXTRA_ROUND_TRIP" => acc'[b].xrt
      BY <2>4 DEF ReplayInv, AcceptorInv
    <2> QED
      BY <2>2, <2>3, <2>4, Zenon DEF AcceptorInv
  <1>3. AcceptedInv'
    BY <1>0 DEF ReplayInv, AcceptedInv
  <1>4. RaceInv'
    BY <1>0 DEF ReplayInv, RaceInv, Raced
  <1>5. AtMostOnce'
    BY DEF ReplayInv, AtMostOnce, Raced
  <1> QED
    BY <1>1, <1>2, <1>3, <1>4, <1>5 DEF ReplayInv

\* A verification begins: the assertion was accepted by nobody, or else it was
\* still in the replay cache or had expired.
LEMMA AcceptVerifies ==
    ASSUME TypeInv, ReplayInv, "lookup" \notin Faults,
           NEW a \in Acceptors, NEW m \in netI, VerifyBegin(a, m)
    PROVE ReplayInv'
  <1>m. m \in Assertion /\ acc[a].state \in {"INITIAL", "RETRY_INITIAL"}
    BY DEF TypeInv, RestOK, VerifyBegin, Offered
  <1>0. \A e \in accepted : e.acc \in Acceptors /\ e.acc # a
    BY <1>m DEF TypeInv, RestOK, ReplayInv, AcceptedInv
  <1>1. /\ \A b \in Acceptors : b # a => acc'[b] = acc[b] /\ overlap'[b] = overlap[b]
        /\ overlap'[a] = {b \in Acceptors : acc[b].state = "VERIFYING"}
        /\ acc'[a].state = "VERIFYING" /\ acc'[a].aid = m.aid /\ acc'[a].xrt = m.xrt
        /\ acc'[a].secret = IF IsReauth(m) THEN AuthenticatorSessionKey(m.ark, m.aid)
                                           ELSE DH(m.aid, a)
    BY DEF VerifyBegin, TypeInv, AcceptOK, RestOK
  <1>2. UNCHANGED <<ini, netI, netX, rcache, expired, accepted>>
    BY DEF VerifyBegin
  <1>3. (InitiatorInv /\ AssertionInv /\ XRTTokenInv)'
    BY <1>2 DEF ReplayInv, InitiatorInv, AssertionInv, XRTTokenInv
  <1>4. AcceptorInv'
    <2>1. Owned(acc'[a].secret, m.aid) /\ m.aid \in Aid
      BY <1>m, <1>1, SecretOwned DEF Assertion
    <2> QED
      BY <1>1, <1>2, <2>1 DEF ReplayInv, AcceptorInv
  <1>5. AcceptedInv'
    BY <1>0, <1>1, <1>2 DEF ReplayInv, AcceptedInv
  <1>6. \A b, c \in Acceptors :
          b # a /\ c # a => (Raced(b, c)' <=> Raced(b, c))
    BY <1>1 DEF Raced
  <1>7. \A b \in Acceptors : acc[b].state = "VERIFYING" => Raced(a, b)' /\ Raced(b, a)'
    BY <1>1 DEF Raced
  <1>8. RaceInv'
    <2>1. ASSUME NEW b \in Acceptors, NEW c \in Acceptors, b # c,
                 acc'[b].state = "VERIFYING", acc'[c].state = "VERIFYING"
          PROVE Raced(b, c)'
      BY <2>1, <1>1, <1>6, <1>7 DEF ReplayInv, RaceInv
    <2>2. \A e \in accepted : ~e.xrt => e.aid \in DOMAIN rcache \cup expired
      BY DEF ReplayInv, RaceInv
    <2>3. ASSUME NEW e \in accepted, ~m.xrt, e.aid = m.aid
          PROVE FALSE
      <3>1. ~e.xrt
        BY <2>3 DEF ReplayInv, AcceptedInv, AssertionInv
      <3> QED
        BY <2>2, <2>3, <3>1 DEF VerifyBegin, LocallyVerified, Replayed
    <2>4. ASSUME NEW b \in Acceptors, NEW e \in accepted,
                 acc'[b].state = "VERIFYING", ~acc'[b].xrt, e.aid = acc'[b].aid
          PROVE Raced(b, e.acc)'
      <3>1. CASE b = a
        BY <2>3, <2>4, <3>1, <1>1
      <3>2. CASE b # a
        BY <2>4, <3>2, <1>0, <1>1, <1>6 DEF ReplayInv, RaceInv
      <3> QED
        BY <3>1, <3>2
    <2> QED
      BY <1>2, <2>1, <2>2, <2>4 DEF RaceInv
  <1>9. AtMostOnce'
    BY <1>0, <1>2, <1>6 DEF ReplayInv, AtMostOnce
  <1> QED
    BY <1>3, <1>4, <1>5, <1>8, <1>9 DEF ReplayInv

\* Acceptance without the extra round trip: whoever else accepted the assertion was
\* verifying it at the same time.
LEMMA AcceptEstablishes ==
    ASSUME TypeInv, ReplayInv, NEW a \in Acceptors, NEW k,
           \A b \in Acceptors : b # a => acc'[b] = acc[b],
           acc[a].state = "VERIFYING", ~acc[a].xrt,
           acc'[a].state = "ESTABLISHED",
           accepted' = accepted \cup {Acceptance(a, k)},
           DOMAIN rcache \cup expired \cup {acc[a].aid} \subseteq DOMAIN rcache' \cup expired',
           UNCHANGED <<ini, netI, netX, overlap>>
    PROVE ReplayInv'
  <1>n. PICK new : new = Acceptance(a, k)
    OBVIOUS
  <1>f. new.acc = a /\ new.aid = acc[a].aid /\ new.xrt = acc[a].xrt
    BY <1>n DEF Acceptance
  <1>a. accepted' = accepted \cup {new}
    BY <1>n
  <1>0. \A e \in accepted : e.acc \in Acceptors /\ e.acc # a
    BY DEF TypeInv, RestOK, ReplayInv, AcceptedInv
  <1>m. PICK m \in netI : m.aid = acc[a].aid /\ m.xrt = acc[a].xrt
    BY DEF ReplayInv, AcceptorInv
  <1>1. (InitiatorInv /\ AssertionInv /\ XRTTokenInv)'
    BY DEF ReplayInv, InitiatorInv, AssertionInv, XRTTokenInv
  <1>2. AcceptorInv'
    BY DEF ReplayInv, AcceptorInv
  <1>3. AcceptedInv'
    BY <1>0, <1>a, <1>f, <1>m DEF ReplayInv, AcceptedInv
  <1>4. RaceInv'
    <2>1. \A b, c \in Acceptors :
            acc'[b].state = "VERIFYING" /\ acc'[c].state = "VERIFYING" /\ b # c => Raced(b, c)'
      BY DEF ReplayInv, RaceInv, Raced
    <2>2. \A e \in accepted' : ~e.xrt => e.aid \in DOMAIN rcache' \cup expired'
      BY <1>a, <1>f DEF ReplayInv, RaceInv
    <2>3. ASSUME NEW b \in Acceptors, NEW e \in accepted',
                 acc'[b].state = "VERIFYING", ~acc'[b].xrt, e.aid = acc'[b].aid
          PROVE Raced(b, e.acc)'
      <3>1. b # a /\ acc[b].state = "VERIFYING"
        BY <2>3
      <3>2. CASE e = new
        BY <3>1, <3>2, <1>f DEF ReplayInv, RaceInv, Raced
      <3>3. CASE e \in accepted
        BY <2>3, <3>1, <3>3 DEF ReplayInv, RaceInv, Raced
      <3> QED
        BY <1>a, <3>2, <3>3
    <2> QED
      BY <2>1, <2>2, <2>3 DEF RaceInv
  <1>5. AtMostOnce'
    <2>1. ASSUME NEW e \in accepted, e.aid = acc[a].aid
          PROVE ~e.xrt /\ Raced(a, e.acc)' /\ Raced(e.acc, a)'
      <3>1. ~e.xrt
        BY <2>1, <1>m DEF ReplayInv, AcceptedInv, AssertionInv
      <3>2. Raced(a, e.acc)
        BY <2>1 DEF ReplayInv, RaceInv
      <3> QED
        BY <3>1, <3>2 DEF Raced
    <2>2. ASSUME NEW e \in accepted, NEW f \in accepted, e.aid = f.aid, e.acc # f.acc
          PROVE ~e.xrt /\ Raced(e.acc, f.acc)'
      BY <2>2 DEF ReplayInv, AtMostOnce, Raced
    <2> QED
      BY <1>a, <1>f, <2>1, <2>2 DEF AtMostOnce
  <1> QED
    BY <1>1, <1>2, <1>3, <1>4, <1>5 DEF ReplayInv

\* Acceptance after the extra round trip: the token is the only one of its
\* initiator, and it names this acceptor context.
LEMMA AcceptEstablishesXRT ==
    ASSUME TypeInv, ReplayInv, NEW a \in Acceptors, NEW k, NEW t \in netX,
           \A b \in Acceptors : b # a => acc'[b] = acc[b],
           acc[a].state = "EXTRA_ROUND_TRIP", XRTVerifies(a, t),
           acc'[a].state = "ESTABLISHED",
           accepted' = accepted \cup {Acceptance(a, k)},
           UNCHANGED <<ini, netI, netX, rcache, expired, overlap>>
    PROVE ReplayInv'
  <1>n. PICK new : new = Acceptance(a, k)
    OBVIOUS
  <1>f. new.acc = a /\ new.aid = acc[a].aid /\ new.xrt = acc[a].xrt
    BY <1>n DEF Acceptance
  <1>a. accepted' = accepted \cup {new}
    BY <1>n
  <1>0. \A e \in accepted : e.acc \in Acceptors /\ e.acc # a
    BY DEF TypeInv, RestOK, ReplayInv, AcceptedInv
  <1>m. PICK m \in netI : m.aid = acc[a].aid /\ m.xrt = acc[a].xrt
    BY DEF ReplayInv, AcceptorInv
  <1>x. acc[a].xrt /\ acc[a].aid \in Aid /\ Owned(acc[a].secret, acc[a].aid)
    BY DEF ReplayInv, AcceptorInv
  <1>t. t.from = acc[a].aid[1] /\ t.key[Len(t.key)] = a
    <2>1. PICK x \in Aid, b \in Acceptors : x[1] = t.from /\ OwnedXRT(t.key, x, b)
      BY DEF ReplayInv, XRTTokenInv
    <2>2. acc[a].secret \in Key
      BY DEF TypeInv, AcceptOK, AcceptContext
    <2>3. OwnedXRT(t.key, acc[a].aid, a)
      BY <1>x, <2>2, XRTKeyOwned DEF XRTVerifies
    <2>4. x = acc[a].aid
      BY <1>x, <2>1, <2>3, OwnedXRTUnique
    <2> QED
      BY <2>1, <2>3, <2>4 DEF OwnedXRT
  <1>1. (InitiatorInv /\ AssertionInv /\ XRTTokenInv)'
    BY DEF ReplayInv, InitiatorInv, AssertionInv, XRTTokenInv
  <1>2. AcceptorInv'
    BY DEF ReplayInv, AcceptorInv
  <1>3. AcceptedInv'
    BY <1>0, <1>a, <1>f, <1>m, <1>t DEF ReplayInv, AcceptedInv
  <1>d. \A e \in accepted : e.aid # acc[a].aid
    <2> SUFFICES ASSUME NEW e \in accepted, e.aid = acc[a].aid PROVE FALSE
      OBVIOUS
    <2>1. e.xrt
      <3>1. PICK n \in netI : n.aid = e.aid /\ n.xrt = e.xrt
        BY DEF ReplayInv, AcceptedInv
      <3>2. n.xrt = m.xrt
        BY <1>m, <3>1 DEF ReplayInv, AssertionInv
      <3>3. e.xrt = acc[a].xrt
        BY <1>m, <3>1, <3>2
      <3> QED
        BY <1>x, <3>3
    <2>2. PICK u \in netX : u.from = e.aid[1] /\ u.key[Len(u.key)] = e.acc
      BY <2>1 DEF ReplayInv, AcceptedInv
    <2>3. u = t
      BY <2>2, <1>t DEF ReplayInv, XRTTokenInv
    <2> QED
      BY <2>2, <2>3, <1>0, <1>t
  <1>4. RaceInv'
    <2>1. \A b, c \in Acceptors :
            acc'[b].state = "VERIFYING" /\ acc'[c].state = "VERIFYING" /\ b # c => Raced(b, c)'
      BY DEF ReplayInv, RaceInv, Raced
    <2>2. \A e \in accepted' : ~e.xrt => e.aid \in DOMAIN rcache' \cup expired'
      BY <1>a, <1>f, <1>x DEF ReplayInv, RaceInv
    <2>3. ASSUME NEW b \in Acceptors, NEW e \in accepted',
                 acc'[b].state = "VERIFYING", ~acc'[b].xrt, e.aid = acc'[b].aid
          PROVE Raced(b, e.acc)'
      <3>1. b # a /\ acc'[b] = acc[b]
        BY <2>3
      <3>2. CASE e = new
        BY <2>3, <3>1, <3>2, <1>f, <1>m, <1>x DEF ReplayInv, AcceptorInv, AssertionInv
      <3>3. CASE e \in accepted
        BY <2>3, <3>1, <3>3 DEF ReplayInv, RaceInv, Raced
      <3> QED
        BY <1>a, <3>2, <3>3
    <2> QED
      BY <2>1, <2>2, <2>3 DEF RaceInv
  <1>5. AtMostOnce'
    BY <1>a, <1>f, <1>d DEF ReplayInv, AtMostOnce, Raced
  <1> QED
    BY <1>1, <1>2, <1>3, <1>4, <1>5 DEF ReplayInv

\* An acceptor's steps keep the invariant.
LEMMA AcceptStepReplay ==
    ASSUME TypeInv, ReplayInv, "lookup" \notin Faults, NEW a \in Acceptors,
           AcceptSecContext(a) \/ AcceptDefective(a) \/ DeleteAccept(a)
    PROVE ReplayInv'
  <1>i. acc[a] \in AcceptContext /\ acc \in [Acceptors -> AcceptContext]
    BY DEF TypeInv, AcceptOK
  <1>a. ASSUME acc' = AcceptReleased(a),
               DOMAIN rcache \cup expired \subseteq DOMAIN rcache' \cup expired',
               UNCHANGED <<ini, netI, netX, overlap, accepted>>
        PROVE ReplayInv'
    <2>1. /\ \A b \in Acceptors : b # a => acc'[b] = acc[b]
          /\ acc'[a].state = "RELEASED"
      BY <1>a, <1>i DEF AcceptReleased, AcceptContext
    <2> QED
      BY <1>a, <2>1, AcceptQuiet
  <1>1. ASSUME NEW m \in netI, AcceptReauthFailed(a, m)
        PROVE ReplayInv'
    <2>1. acc[a].state = "INITIAL"
      BY <1>1 DEF AcceptReauthFailed, ReauthRecoverable, LocallyVerified
    <2>2. /\ \A b \in Acceptors : b # a => acc'[b] = acc[b]
          /\ acc'[a].state = "RETRY_INITIAL"
      BY <1>1, <1>i DEF AcceptReauthFailed, AcceptContext
    <2>3. UNCHANGED <<ini, netI, netX, rcache, expired, overlap, accepted>>
      BY <1>1 DEF AcceptReauthFailed
    <2> QED
      BY <2>1, <2>2, <2>3, AcceptQuiet
  <1>2. ASSUME NEW m \in netI, VerifyBegin(a, m)
        PROVE ReplayInv'
    BY <1>2, AcceptVerifies
  <1>3. ASSUME NEW m \in netI, AcceptReject(a, m)
        PROVE ReplayInv'
    <2>1. /\ \A b \in Acceptors : b # a => acc'[b] = acc[b]
          /\ acc'[a].state = "RELEASED"
      BY <1>3, <1>i DEF AcceptReject, AcceptReleased, AcceptContext
    <2>2. UNCHANGED <<ini, netI, netX, rcache, expired, overlap, accepted>>
      BY <1>3 DEF AcceptReject
    <2> QED
      BY <2>1, <2>2, AcceptQuiet
  <1>4. CASE VerifyEnd(a)
    <2>0. /\ acc[a].state = "VERIFYING"
          /\ UNCHANGED <<ini, netI, netX, expired, overlap>>
      BY <1>4 DEF VerifyEnd
    <2>1. DOMAIN rcache \cup expired \cup {acc[a].aid} \subseteq DOMAIN rcache' \cup expired'
      BY <1>4 DEF VerifyEnd, Put
    <2>2. \/ /\ acc[a].xrt
             /\ acc' = [acc EXCEPT ![a].state = "EXTRA_ROUND_TRIP",
                                   ![a].mutual = @ \/ X509Signs(a),
                                   ![a].ret = "CONTINUE_NEEDED"]
             /\ UNCHANGED accepted
          \/ /\ ~acc[a].xrt
             /\ acc' = [acc EXCEPT ![a].state = "ESTABLISHED",
                                   ![a].mutual = @ \/ X509Signs(a),
                                   ![a].key = acc[a].secret, ![a].ret = "COMPLETE"]
             /\ accepted' = accepted \cup {Acceptance(a, acc[a].secret)}
          \/ acc' = AcceptReleased(a) /\ UNCHANGED accepted
      BY <1>4 DEF VerifyEnd
    <2>3. CASE /\ acc[a].xrt
               /\ acc' = [acc EXCEPT ![a].state = "EXTRA_ROUND_TRIP",
                                     ![a].mutual = @ \/ X509Signs(a),
                                     ![a].ret = "CONTINUE_NEEDED"]
               /\ UNCHANGED accepted
      <3>1. /\ \A b \in Acceptors : b # a => acc'[b] = acc[b]
            /\ acc'[a].state = "EXTRA_ROUND_TRIP" /\ acc'[a].aid = acc[a].aid
            /\ acc'[a].secret = acc[a].secret /\ acc'[a].xrt = acc[a].xrt
        BY <2>3, <1>i DEF AcceptContext
      <3> QED
        BY <2>0, <2>1, <2>3, <3>1, AcceptContinues
    <2>4. CASE /\ ~acc[a].xrt
               /\ acc' = [acc EXCEPT ![a].state = "ESTABLISHED",
                                     ![a].mutual = @ \/ X509Signs(a),
                                     ![a].key = acc[a].secret, ![a].ret = "COMPLETE"]
               /\ accepted' = accepted \cup {Acceptance(a, acc[a].secret)}
      <3>1. /\ \A b \in Acceptors : b # a => acc'[b] = acc[b]
            /\ acc'[a].state = "ESTABLISHED"
        BY <2>4, <1>i DEF AcceptContext
      <3> QED
        BY <2>0, <2>1, <2>4, <3>1, AcceptEstablishes
    <2>5. CASE acc' = AcceptReleased(a) /\ UNCHANGED accepted
      BY <1>a, <2>0, <2>1, <2>5
    <2> QED
      BY <2>2, <2>3, <2>4, <2>5
  <1>5. CASE UpdateFails(a)
    <2>0. /\ acc[a].state = "VERIFYING"
          /\ UNCHANGED <<ini, netI, netX, rcache, expired, overlap, accepted>>
      BY <1>5 DEF UpdateFails
    <2>1. CASE acc[a].xrt
      <3>0. acc' = [acc EXCEPT ![a].state = "EXTRA_ROUND_TRIP",
                               ![a].mutual = @ \/ X509Signs(a),
                               ![a].ret = "CONTINUE_NEEDED"]
        BY <1>5, <2>1 DEF UpdateFails
      <3>1. /\ \A b \in Acceptors : b # a => acc'[b] = acc[b]
            /\ acc'[a].state = "EXTRA_ROUND_TRIP" /\ acc'[a].aid = acc[a].aid
            /\ acc'[a].secret = acc[a].secret /\ acc'[a].xrt = acc[a].xrt
        BY <3>0, <1>i DEF AcceptContext
      <3> QED
        BY <2>0, <2>1, <3>1, AcceptContinues
    <2>2. CASE ~acc[a].xrt
      BY <1>5, <1>a, <2>0, <2>2 DEF UpdateFails
    <2> QED
      BY <2>1, <2>2
  <1>6. ASSUME NEW t \in netX, AcceptXRT(a, t)
        PROVE ReplayInv'
    <2>0. /\ acc[a].state = "EXTRA_ROUND_TRIP"
          /\ UNCHANGED <<ini, netI, netX, rcache, expired, overlap>>
      BY <1>6 DEF AcceptXRT
    <2>1. \/ /\ XRTVerifies(a, t)
             /\ acc' = [acc EXCEPT ![a].state = "ESTABLISHED",
                                   ![a].key = XRTKey(acc[a].secret, a),
                                   ![a].ret = "COMPLETE"]
             /\ accepted' = accepted \cup {Acceptance(a, XRTKey(acc[a].secret, a))}
          \/ acc' = AcceptReleased(a) /\ UNCHANGED accepted
      BY <1>6 DEF AcceptXRT
    <2>2. CASE /\ XRTVerifies(a, t)
               /\ acc' = [acc EXCEPT ![a].state = "ESTABLISHED",
                                     ![a].key = XRTKey(acc[a].secret, a),
                                     ![a].ret = "COMPLETE"]
               /\ accepted' = accepted \cup {Acceptance(a, XRTKey(acc[a].secret, a))}
      <3>1. /\ \A b \in Acceptors : b # a => acc'[b] = acc[b]
            /\ acc'[a].state = "ESTABLISHED"
        BY <2>2, <1>i DEF AcceptContext
      <3> QED
        BY <2>0, <2>2, <3>1, AcceptEstablishesXRT
    <2>3. CASE acc' = AcceptReleased(a) /\ UNCHANGED accepted
      BY <1>a, <2>0, <2>3
    <2> QED
      BY <2>1, <2>2, <2>3
  <1>7. CASE AcceptDefective(a) \/ DeleteAccept(a)
    BY <1>7, <1>a DEF AcceptDefective, DeleteAccept
  <1> QED
    BY <1>1, <1>2, <1>3, <1>4, <1>5, <1>6, <1>7 DEF AcceptSecContext

\* A cache that forgets only what has expired keeps the invariant.
LEMMA EnvStepReplay ==
    ASSUME TypeInv, ReplayInv, "lose" \notin Faults,
           (\E x \in Aid : Expire(x) \/ LoseEntry(x)) \/ PurgeReplayCache
    PROVE ReplayInv'
  <1>1. UNCHANGED <<ini, acc, netI, netX, overlap, accepted>>
    BY DEF Expire, LoseEntry, PurgeReplayCache
  <1>2. DOMAIN rcache \cup expired \subseteq DOMAIN rcache' \cup expired'
    BY DEF Expire, LoseEntry, PurgeReplayCache, Remove
  <1>3. (InitiatorInv /\ AssertionInv /\ XRTTokenInv /\ AcceptorInv /\ AcceptedInv)'
    BY <1>1 DEF ReplayInv, InitiatorInv, AssertionInv, XRTTokenInv, AcceptorInv, AcceptedInv
  <1>4. (RaceInv /\ AtMostOnce)'
    BY <1>1, <1>2 DEF ReplayInv, RaceInv, AtMostOnce, Raced
  <1> QED
    BY <1>3, <1>4 DEF ReplayInv

\* The inductive invariant of replay protection: it holds for every number of
\* contexts, with tokens duplicated and misdirected at will and with every failure
\* but a replay cache that loses a live entry or cannot be read.
THEOREM ReplayInvariant ==
    ASSUME "lose" \notin Faults, "lookup" \notin Faults
    PROVE Spec => []ReplayInv
  <1>1. Init => ReplayInv
    BY DEF Init, ReplayInv, InitiatorInv, AssertionInv, XRTTokenInv, AcceptorInv,
           AcceptedInv, RaceInv, AtMostOnce, NoInitContext, NoAcceptContext
  <1>2. TypeInv /\ ReplayInv /\ [Next]_vars => ReplayInv'
    <2> SUFFICES ASSUME TypeInv, ReplayInv, [Next]_vars PROVE ReplayInv'
      OBVIOUS
    <2>1. CASE Next
      BY <2>1, InitStepReplay, AcceptStepReplay, EnvStepReplay DEF Next
    <2>2. CASE UNCHANGED vars
      BY <2>2 DEF vars, ReplayInv, InitiatorInv, AssertionInv, XRTTokenInv, AcceptorInv,
                  AcceptedInv, RaceInv, AtMostOnce, Raced
    <2> QED
      BY <2>1, <2>2
  <1> QED
    BY <1>1, <1>2, TypeInvCorrect, PTL DEF Spec

\* Replay protection: an assertion is accepted by two acceptor contexts only if it
\* did not ask for the extra round trip and both looked into the replay cache
\* before either had updated it.
THEOREM ReplayProtection ==
    ASSUME "lose" \notin Faults, "lookup" \notin Faults
    PROVE Spec => []AtMostOnce
  <1>1. ReplayInv => AtMostOnce
    BY DEF ReplayInv
  <1> QED
    BY <1>1, ReplayInvariant, PTL

-----------------------------------------------------------------------------

(***************************************************************************)
(* The invariants.                                                         *)
(***************************************************************************)

\* The state of an initiator context goes with what its last call returned, with the
\* assertion it waits on and with the secret it has for it: none before the
\* response, except that of an authenticator.
WaitingInv ==
    \A i \in Initiators :
        /\ ini[i].state \in {"INITIAL", "SPINNING"} => ini[i].ret = "NONE"
        /\ ini[i].state = "ESTABLISHED" => ini[i].ret = "COMPLETE"
        /\ ini[i].state = "RELEASED" => ini[i].ret = "FAILURE"
        /\ ini[i].state = "AUTHENTICATE" => ini[i].aid = <<i, 1>>
        /\ ini[i].state = "RETRY_AUTHENTICATE" => ini[i].aid = <<i, 2>> /\ ~ini[i].reauth
        /\ ini[i].ret = "CONTINUE_NEEDED" =>
             IF ini[i].reauth
             THEN \E k \in Key : ini[i].secret = AuthenticatorSessionKey(k, ini[i].aid)
             ELSE ini[i].secret = NoKey

\* Each assertion is made once, the second one of a context only after the first has
\* failed, and only the first one may be an authenticator.
OnceInv ==
    /\ \A m, n \in netI : m.aid = n.aid => m = n
    /\ \A m \in netI, i \in Initiators :
         /\ m.aid = <<i, 1>> => /\ ini[i].state # "INITIAL"
                                /\ ini[i].state = "AUTHENTICATE" => (ini[i].reauth <=> IsReauth(m))
         /\ m.aid = <<i, 2>> => /\ ini[i].state \notin {"INITIAL", "AUTHENTICATE"}
                                /\ ~IsReauth(m)

\* Only an authenticator is answered by a demand for a fresh assertion.
FailedInv ==
    \A r \in netA : r.minor = "REAUTH_FAILED" => \E m \in netI : m.aid = r.re /\ IsReauth(m)

\* Acceptor context a has verified an assertion and has its secret.
Verified(a) ==
    /\ acc[a].aid \in Aid
    /\ IF acc[a].reauth
       THEN \E k \in Key : acc[a].secret = AuthenticatorSessionKey(k, acc[a].aid)
       ELSE acc[a].secret = DH(acc[a].aid, a)
    /\ \E m \in netI : m.aid = acc[a].aid /\ m.xrt = acc[a].xrt

VerifiedInv ==
    \A a \in Acceptors :
        /\ acc[a].state \in {"VERIFYING", "EXTRA_ROUND_TRIP", "ESTABLISHED"} => Verified(a)
        /\ acc[a].state = "EXTRA_ROUND_TRIP" => acc[a].xrt

\* A response without an error tells what its acceptor context knows.
ResponseInv ==
    \A r \in netA : r.minor = "OK" =>
        /\ Verified(r.from)
        /\ acc[r.from].state \in {"EXTRA_ROUND_TRIP", "ESTABLISHED", "RELEASED"}
        /\ r.re = acc[r.from].aid /\ r.jti = acc[r.from].xrt
        /\ IF r.x509 THEN ~acc[r.from].reauth
                     ELSE r.rrk = SessionSubkey(acc[r.from].secret, "RRK")
        /\ ~r.jti => \E e \in accepted : e.acc = r.from

\* The key an acceptor context has for its session.
SessionKey(a, xrt) == IF xrt THEN XRTKey(acc[a].secret, a) ELSE acc[a].secret

\* An acceptance is that of its context, after the extra round trip if there is one.
AcceptanceInv ==
    \A e \in accepted :
        /\ Verified(e.acc)
        /\ acc[e.acc].state \in {"ESTABLISHED", "RELEASED"}
        /\ e.aid = acc[e.acc].aid /\ e.xrt = acc[e.acc].xrt
        /\ e.key = SessionKey(e.acc, e.xrt)
        /\ e.xrt => \E t \in netX : t.key = e.key

\* The extra round trip token of an initiator has the key of its session, which
\* descends from one of its assertions.
ThirdTokenInv ==
    \A t \in netX :
        /\ ini[t.from].state \in {"ESTABLISHED", "RELEASED"}
        /\ ini[t.from].state = "ESTABLISHED" => ini[t.from].key = t.key
        /\ \E x \in Aid, a \in Acceptors : x[1] = t.from /\ OwnedXRT(t.key, x, a)

\* An established initiator has taken the key of the acceptor context that answered it.
EstablishedInv ==
    \A i \in Initiators : ini[i].state = "ESTABLISHED" =>
        /\ ini[i].aid \in Aid /\ ini[i].aid[1] = i
        /\ \E r \in netA : /\ r.minor = "OK" /\ r.re = ini[i].aid
                           /\ ini[i].key = SessionKey(r.from, r.jti)

\* The inductive invariant behind KeysAgree, NoSpin and InitReturnConsistent.
KeysInv ==
    /\ WaitingInv /\ OnceInv /\ FailedInv
    /\ VerifiedInv /\ ResponseInv /\ AcceptanceInv
    /\ ThirdTokenInv /\ EstablishedInv

\* A certificate has been shown for the assertion that key k descends from.
Grounded(k) == k # NoKey /\ \E r \in netA : r.x509 /\ r.re = Root(k)

\* The inductive invariant behind MutualGrounded: tickets hand down the proof.
GroundedInv ==
    /\ \A i \in Initiators :
         /\ ini[i].ret = "CONTINUE_NEEDED" /\ ini[i].reauth /\ ini[i].mutual =>
              Grounded(ini[i].secret)
         /\ ini[i].state = "ESTABLISHED" /\ ini[i].mutual => Grounded(ini[i].key)
    /\ \A t \in tickets : t.ark # NoKey /\ (t.mutual => Grounded(t.ark))

\* Over reliable connections an acceptor context serves one initiator context, and no
\* other acceptor context does.
BoundInv ==
    \A a, b \in Acceptors :
        a # b /\ acc[a].aid # NoAid /\ acc[b].aid # NoAid => acc[a].aid[1] # acc[b].aid[1]

\* A ticket, the response that brought it and the cache entry have one ARK.
TicketInv ==
    /\ \A r \in netA :
         r.minor = "OK" /\ r.tkt /\ r.re \in DOMAIN rcache =>
            rcache[r.re].ark = SessionSubkey(acc[r.from].secret, "ARK")
    /\ \A t \in tickets :
         \E r \in netA : /\ r.minor = "OK" /\ r.tkt /\ r.re = t.tid
                         /\ t.ark = SessionSubkey(acc[r.from].secret, "ARK")

-----------------------------------------------------------------------------
(***************************************************************************)
(* What the provers need to know of keys.                                  *)
(***************************************************************************)

\* A derived key determines the key it was derived from and the last input.
LEMMA DerivedFromOne ==
    \A k, l \in Key, x, y \in Salt : Append(k, x) = Append(l, y) => k = l /\ x = y
  BY AppendInjective DEF Key

\* The derivations as functions: which keys are equal, which are different, and
\* which assertion they descend from.
LEMMA DeriveFacts ==
    /\ \A x, y \in Aid, a, b \in Acceptors : DH(x, a) = DH(y, b) => x = y /\ a = b
    /\ \A x, y \in Aid, a \in Acceptors, k \in Key : DH(x, a) # AuthenticatorSessionKey(k, y)
    /\ \A x, y \in Aid, k, l \in Key :
         AuthenticatorSessionKey(k, x) = AuthenticatorSessionKey(l, y) => x = y
    /\ \A k, l \in Key : SessionSubkey(k, "RRK") = SessionSubkey(l, "RRK") => k = l
    /\ \A k, l \in Key, a, b \in Acceptors : XRTKey(k, a) = XRTKey(l, b) => k = l /\ a = b
  <1>1. ASSUME NEW x \in Aid, NEW y \in Aid, NEW a \in Acceptors, NEW b \in Acceptors,
               DH(x, a) = DH(y, b)
        PROVE x = y /\ a = b
    BY <1>1 DEF DH
  <1>2. ASSUME NEW x \in Aid, NEW y \in Aid, NEW a \in Acceptors, NEW k \in Key,
               DH(x, a) = AuthenticatorSessionKey(k, y)
        PROVE FALSE
    <2>1. <<x, a>> = Append(k, y) /\ y \in Salt /\ k \in Seq(Salt)
      BY <1>2 DEF DH, AuthenticatorSessionKey, Derive, Salt, Key
    <2>2. Append(k, y)[Len(Append(k, y))] = y
      BY <2>1, AppendFacts
    <2>3. <<x, a>>[Len(<<x, a>>)] = a
      OBVIOUS
    <2>4. y = a
      BY <2>1, <2>2, <2>3
    <2> QED
      BY <2>4, AidFacts
  <1>3. \A k, l \in Key, x, y \in Salt : Append(k, x) = Append(l, y) => k = l /\ x = y
    BY DerivedFromOne
  <1>4. Aid \subseteq Salt /\ Acceptors \subseteq Salt /\ "RRK" \in Salt /\ "ARK" \in Salt
    BY DEF Salt
  <1> QED
    BY <1>1, <1>2, <1>3, <1>4 DEF AuthenticatorSessionKey, SessionSubkey, XRTKey, Derive

\* A derived key is a key with the same root.
LEMMA RootFacts ==
    /\ \A x \in Aid, a \in Acceptors : DH(x, a) # NoKey /\ Root(DH(x, a)) = x
    /\ \A k \in Key, x \in Aid :
         /\ AuthenticatorSessionKey(k, x) # NoKey
         /\ k # NoKey => Root(AuthenticatorSessionKey(k, x)) = Root(k)
    /\ \A k \in Key :
         /\ SessionSubkey(k, "ARK") # NoKey
         /\ k # NoKey => Root(SessionSubkey(k, "ARK")) = Root(k)
    /\ \A k \in Key, a \in Acceptors :
         /\ XRTKey(k, a) # NoKey
         /\ k # NoKey => Root(XRTKey(k, a)) = Root(k)
  <1>1. \A x \in Aid, a \in Acceptors : DH(x, a) # NoKey /\ Root(DH(x, a)) = x
    BY DEF DH, NoKey, Root
  <1>2. ASSUME NEW k \in Key, NEW x \in Salt
        PROVE /\ Append(k, x) # NoKey
              /\ k # NoKey => Root(Append(k, x)) = Root(k)
    <2>1. k # << >> => 1 \in 1 .. Len(k)
      BY EmptySeq DEF Key
    <2> QED
      BY <2>1, AppendFacts DEF Key, NoKey, Root
  <1>3. Aid \subseteq Salt /\ Acceptors \subseteq Salt /\ "ARK" \in Salt
    BY DEF Salt
  <1> QED
    BY <1>1, <1>2, <1>3 DEF AuthenticatorSessionKey, SessionSubkey, XRTKey, Derive

\* The secret of a verified assertion is a key and is the assertion's.
LEMMA VerifiedFacts ==
    ASSUME TypeInv, NEW a \in Acceptors, Verified(a)
    PROVE /\ acc[a].secret \in Key /\ acc[a].secret # NoKey
          /\ Owned(acc[a].secret, acc[a].aid)
  BY KeyFacts, RootFacts, SecretOwned DEF Verified, TypeInv, AcceptOK, AcceptContext

-----------------------------------------------------------------------------
(***************************************************************************)
(* What a step changes, for the invariants.                                *)
(***************************************************************************)

\* An initiator's step changes one context, and adds to what it has output.
LEMMA InitFrame ==
    ASSUME TypeInv, NEW i \in Initiators, InitStep(i) \/ DeleteInit(i)
    PROVE /\ UNCHANGED <<acc, netA, rcache, expired, overlap, accepted>>
          /\ netI \subseteq netI' /\ netX \subseteq netX'
          /\ \A j \in Initiators : j # i => ini'[j] = ini[j]
  BY DEF TypeInv, InitOK, InitStep, DeleteInit, InitReauth, InitCert, InitAcquireFails,
         InitResponseToken, InitRetry, InitSpin, InitMinorStatus, InitReject, InitEstablish,
         InitReleased

\* An acceptor's step changes one context, which keeps what it has verified.
LEMMA AcceptFrame ==
    ASSUME TypeInv, NEW a \in Acceptors,
           AcceptSecContext(a) \/ AcceptDefective(a) \/ DeleteAccept(a)
    PROVE /\ UNCHANGED <<ini, netI, netX, tickets, expired>>
          /\ netA \subseteq netA' /\ accepted \subseteq accepted'
          /\ \A b \in Acceptors : b # a => acc'[b] = acc[b]
          /\ acc[a].state \in {"VERIFYING", "EXTRA_ROUND_TRIP", "ESTABLISHED", "RELEASED"} =>
               /\ acc'[a].state \in {"EXTRA_ROUND_TRIP", "ESTABLISHED", "RELEASED"}
               /\ acc'[a].aid = acc[a].aid /\ acc'[a].secret = acc[a].secret
               /\ acc'[a].xrt = acc[a].xrt /\ acc'[a].reauth = acc[a].reauth
  <1>i. acc \in [Acceptors -> AcceptContext] /\ acc[a] \in AcceptContext
    BY DEF TypeInv, AcceptOK
  <1>1. ASSUME NEW m \in netI, AcceptReauthFailed(a, m) \/ VerifyBegin(a, m) \/ AcceptReject(a, m)
        PROVE /\ UNCHANGED <<ini, netI, netX, tickets, expired, accepted>>
              /\ netA \subseteq netA'
              /\ \A b \in Acceptors : b # a => acc'[b] = acc[b]
              /\ acc[a].state \in {"INITIAL", "RETRY_INITIAL"}
    BY <1>1, <1>i DEF AcceptReauthFailed, VerifyBegin, AcceptReject, Offered, AcceptReleased
  <1>2. CASE VerifyEnd(a)
    BY <1>2, <1>i DEF VerifyEnd, AcceptReleased, AcceptContext
  <1>3. CASE UpdateFails(a)
    <2>1. CASE acc[a].xrt
      <3>1. PICK mut : acc' = [acc EXCEPT ![a].state = "EXTRA_ROUND_TRIP", ![a].mutual = mut,
                                          ![a].ret = "CONTINUE_NEEDED"]
        BY <1>3, <2>1 DEF UpdateFails
      <3>2. /\ UNCHANGED <<ini, netI, netX, tickets, expired, accepted>>
            /\ netA \subseteq netA'
        BY <1>3, <2>1 DEF UpdateFails
      <3> QED
        BY <1>i, <3>1, <3>2 DEF AcceptContext
    <2>2. CASE ~acc[a].xrt
      BY <1>3, <1>i, <2>2 DEF UpdateFails, AcceptReleased, AcceptContext
    <2> QED
      BY <2>1, <2>2
  <1>4. CASE \E t \in netX : AcceptXRT(a, t)
    BY <1>4, <1>i DEF AcceptXRT, AcceptReleased, AcceptContext
  <1>5. CASE AcceptDefective(a) \/ DeleteAccept(a)
    BY <1>5, <1>i DEF AcceptDefective, DeleteAccept, AcceptReleased, AcceptContext
  <1> QED
    BY <1>1, <1>2, <1>3, <1>4, <1>5 DEF AcceptSecContext

\* The environment changes no context and takes no token back.
LEMMA EnvFrame ==
    ASSUME (\E x \in Aid : Expire(x) \/ LoseEntry(x)) \/ PurgeReplayCache
    PROVE /\ UNCHANGED <<ini, acc, netI, netA, netX, tickets, accepted>>
          /\ DOMAIN rcache' \subseteq DOMAIN rcache
          /\ \A x \in DOMAIN rcache' : rcache'[x] = rcache[x]
  BY DEF Expire, LoseEntry, PurgeReplayCache, Remove

-----------------------------------------------------------------------------
(***************************************************************************)
(* An initiator's steps keep KeysInv.                                      *)
(***************************************************************************)

\* A response that verifies is the answer of an acceptor context with the same secret.
LEMMA ResponseSecret ==
    ASSUME TypeInv, KeysInv, NEW i \in Initiators, NEW r \in netA,
           ini[i].ret = "CONTINUE_NEEDED", r.minor = "OK", ResponseVerifies(i, r)
    PROVE r.re = ini[i].aid /\ SecretWith(i, r) = acc[r.from].secret
  <1> DEFINE a == r.from
             s == acc[a].secret
             x == acc[a].aid
  <1>1. /\ ini[i] \in InitContext /\ ini[i].aid \in Aid /\ r \in Response
        /\ a \in Acceptors /\ acc[a] \in AcceptContext
    BY DEF TypeInv, InitOK, AcceptOK, RestOK, Response
  <1>2. /\ Verified(a) /\ r.re = x
        /\ IF r.x509 THEN ~acc[a].reauth ELSE r.rrk = SessionSubkey(s, "RRK")
    BY DEF KeysInv, ResponseInv
  <1>3. s \in Key /\ x \in Aid
    BY <1>1 DEF AcceptContext, Verified, KeysInv, ResponseInv
  <1>4. SecretWith(i, r) \in Key
    BY <1>1, KeyFacts DEF SecretWith, InitContext
  <1>5. CASE r.x509
    <2>1. r.re = ini[i].aid /\ ~ini[i].reauth
      BY <1>5 DEF ResponseVerifies
    <2>2. ini[i].secret = NoKey
      BY <2>1 DEF KeysInv, WaitingInv
    <2> QED
      BY <1>2, <1>5, <2>1, <2>2 DEF SecretWith, Verified
  <1>6. CASE ~r.x509
    <2>1. SecretWith(i, r) = s
      BY <1>2, <1>3, <1>4, <1>6, DeriveFacts DEF ResponseVerifies
    <2>2. CASE ini[i].reauth
      <3>1. PICK k \in Key : ini[i].secret = AuthenticatorSessionKey(k, ini[i].aid)
        BY <2>2 DEF KeysInv, WaitingInv
      <3>2. s = AuthenticatorSessionKey(k, ini[i].aid)
        BY <1>1, <2>1, <3>1, RootFacts DEF SecretWith
      <3>3. x = ini[i].aid
        BY <1>1, <1>2, <1>3, <3>2, DeriveFacts DEF Verified
      <3> QED
        BY <1>2, <2>1, <3>3
    <2>3. CASE ~ini[i].reauth
      <3>1. s = DH(ini[i].aid, a)
        BY <2>1, <2>3 DEF SecretWith, KeysInv, WaitingInv
      <3>2. x = ini[i].aid
        BY <1>1, <1>2, <1>3, <3>1, DeriveFacts DEF Verified
      <3> QED
        BY <1>2, <2>1, <3>2
    <2> QED
      BY <2>2, <2>3
  <1> QED
    BY <1>5, <1>6

\* The secret and the identity go together through every step of an initiator.
LEMMA InitStepWaiting ==
    ASSUME TypeInv, WaitingInv, NEW i \in Initiators, InitStep(i) \/ DeleteInit(i)
    PROVE WaitingInv'
  <1>i. /\ ini \in [Initiators -> InitContext] /\ ini[i] \in InitContext
        /\ \A j \in Initiators : j # i => ini'[j] = ini[j]
    BY InitFrame DEF TypeInv, InitOK
  <1> DEFINE W(c) ==
        /\ c.state \in {"INITIAL", "SPINNING"} => c.ret = "NONE"
        /\ c.state = "ESTABLISHED" => c.ret = "COMPLETE"
        /\ c.state = "RELEASED" => c.ret = "FAILURE"
        /\ c.state = "AUTHENTICATE" => c.aid = <<i, 1>>
        /\ c.state = "RETRY_AUTHENTICATE" => c.aid = <<i, 2>> /\ ~c.reauth
        /\ c.ret = "CONTINUE_NEEDED" =>
             IF c.reauth THEN \E k \in Key : c.secret = AuthenticatorSessionKey(k, c.aid)
                         ELSE c.secret = NoKey
  <1>w. W(ini[i])
    BY DEF WaitingInv
  <1>q. SUFFICES W(ini'[i])
    BY <1>i DEF WaitingInv
  <1>r. ini' = InitReleased(i) => W(ini'[i])
    BY <1>i DEF InitReleased, InitContext
  <1>1. CASE InitReauth(i)
    <2> PICK req \in Requests, t \in tickets :
          ini' = [ini EXCEPT ![i] =
                      [state |-> "AUTHENTICATE", req |-> req, reauth |-> TRUE,
                       mutual |-> t.mutual, aid |-> <<i, 1>>,
                       secret |-> AuthenticatorSessionKey(t.ark, <<i, 1>>),
                       key |-> NoKey, ret |-> "CONTINUE_NEEDED"]]
      BY <1>1 DEF InitReauth
    <2>1. t.ark \in Key
      BY DEF TypeInv, RestOK, Ticket
    <2> QED
      BY <1>i, <2>1
  <1>2. CASE InitCert(i)
    BY <1>2, <1>i DEF InitCert
  <1>3. CASE InitAcquireFails(i) \/ DeleteInit(i)
    BY <1>3, <1>r DEF InitAcquireFails, DeleteInit
  <1>4. ASSUME NEW r \in netA, InitRetry(i, r) PROVE W(ini'[i])
    BY <1>4, <1>i, <1>r DEF InitRetry, InitContext
  <1>5. ASSUME NEW r \in netA, InitSpin(i, r) PROVE W(ini'[i])
    BY <1>5, <1>i DEF InitSpin, InitContext
  <1>6. ASSUME NEW r \in netA, InitMinorStatus(i, r) PROVE W(ini'[i])
    BY <1>6, <1>i, <1>w DEF InitMinorStatus, Receives, InitContext
  <1>7. ASSUME NEW r \in netA, InitReject(i, r) PROVE W(ini'[i])
    BY <1>7, <1>r DEF InitReject
  <1>8. ASSUME NEW r \in netA, InitEstablish(i, r) PROVE W(ini'[i])
    BY <1>8, <1>i, <1>r DEF InitEstablish, InitContext
  <1> QED
    BY <1>1, <1>2, <1>3, <1>4, <1>5, <1>6, <1>7, <1>8 DEF InitStep, InitResponseToken

\* The three kinds of step an initiator makes: it sends an assertion, gives up or ends
\* without one, or takes a good response.
LEMMA InitEffect ==
    ASSUME TypeInv, NEW i \in Initiators, InitStep(i) \/ DeleteInit(i)
    PROVE \/ \E m : /\ netI' = netI \cup {m} /\ UNCHANGED <<netX, tickets>>
                    /\ ini'[i].aid = m.aid /\ (ini'[i].reauth <=> IsReauth(m))
                    /\ ini'[i].ret = "CONTINUE_NEEDED"
                    /\ \/ /\ ini[i].state = "INITIAL" /\ ini'[i].state = "AUTHENTICATE"
                          /\ m.aid = <<i, 1>>
                       \/ /\ ini[i].ret = "CONTINUE_NEEDED"
                          /\ ini[i].state # "RETRY_AUTHENTICATE"
                          /\ ini'[i].state = "RETRY_AUTHENTICATE"
                          /\ m.aid = <<i, 2>> /\ ~IsReauth(m)
          \/ /\ UNCHANGED <<netI, netX, tickets>>
             /\ \/ ini'[i].state = "RELEASED" /\ ini'[i].ret = "FAILURE"
                \/ /\ ini[i].ret = "CONTINUE_NEEDED"
                   /\ ini'[i].state = "SPINNING" /\ ini'[i].ret = "NONE"
                   /\ \E r \in netA : InitSpin(i, r)
                \/ /\ ini[i].ret = "CONTINUE_NEEDED"
                   /\ ini'[i].state = ini[i].state /\ ini'[i].reauth = ini[i].reauth
                   /\ ini'[i].ret = "COMPLETE"
                   /\ \E r \in netA : InitMinorStatus(i, r)
          \/ \E r \in netA : InitEstablish(i, r) /\ UNCHANGED netI
  <1>i. ini \in [Initiators -> InitContext] /\ ini[i] \in InitContext
    BY DEF TypeInv, InitOK
  <1>r. ini' = InitReleased(i) => ini'[i].state = "RELEASED" /\ ini'[i].ret = "FAILURE"
    BY <1>i DEF InitReleased, InitContext
  <1>1. CASE InitReauth(i)
    <2>1. PICK req \in Requests, t \in tickets :
            /\ netI' = netI \cup {ReauthAssertion(<<i, 1>>, req, t)}
            /\ ini' = [ini EXCEPT ![i] =
                      [state |-> "AUTHENTICATE", req |-> req, reauth |-> TRUE,
                       mutual |-> t.mutual, aid |-> <<i, 1>>,
                       secret |-> AuthenticatorSessionKey(t.ark, <<i, 1>>),
                       key |-> NoKey, ret |-> "CONTINUE_NEEDED"]]
      BY <1>1 DEF InitReauth
    <2>2. t.tid # NoAid
      BY DEF TypeInv, RestOK, Ticket, Aid, NoAid
    <2>3. PICK m : m = ReauthAssertion(<<i, 1>>, req, t)
      OBVIOUS
    <2>4. IsReauth(m) /\ m.aid = <<i, 1>>
      BY <2>2, <2>3 DEF ReauthAssertion, IsReauth
    <2> QED
      BY <1>i, <1>1, <2>1, <2>3, <2>4 DEF InitReauth
  <1>2. CASE InitCert(i)
    <2>1. PICK req \in Requests :
            /\ netI' = netI \cup {CertAssertion(<<i, 1>>, req)}
            /\ ini' = [ini EXCEPT ![i] =
                      [state |-> "AUTHENTICATE", req |-> req, reauth |-> FALSE,
                       mutual |-> FALSE, aid |-> <<i, 1>>, secret |-> NoKey,
                       key |-> NoKey, ret |-> "CONTINUE_NEEDED"]]
      BY <1>2 DEF InitCert
    <2>3. PICK m : m = CertAssertion(<<i, 1>>, req)
      OBVIOUS
    <2>4. ~IsReauth(m) /\ m.aid = <<i, 1>>
      BY <2>3 DEF CertAssertion, IsReauth
    <2>5. /\ ini'[i].aid = <<i, 1>> /\ ini'[i].reauth = FALSE
          /\ ini'[i].ret = "CONTINUE_NEEDED" /\ ini'[i].state = "AUTHENTICATE"
      BY <1>i, <2>1
    <2> QED
      BY <1>2, <2>1, <2>3, <2>4, <2>5 DEF InitCert
  <1>3. CASE InitAcquireFails(i) \/ DeleteInit(i)
    BY <1>3, <1>r DEF InitAcquireFails, DeleteInit
  <1>4. ASSUME NEW r \in netA, InitRetry(i, r), ini' # InitReleased(i)
        PROVE \E m : /\ netI' = netI \cup {m} /\ UNCHANGED <<netX, tickets>>
                     /\ ini'[i].aid = m.aid /\ (ini'[i].reauth <=> IsReauth(m))
                     /\ ini'[i].ret = "CONTINUE_NEEDED"
                     /\ ini[i].ret = "CONTINUE_NEEDED"
                     /\ ini[i].state # "RETRY_AUTHENTICATE"
                     /\ ini'[i].state = "RETRY_AUTHENTICATE"
                     /\ m.aid = <<i, 2>> /\ ~IsReauth(m)
    <2>1. /\ netI' = netI \cup {CertAssertion(<<i, 2>>, ini[i].req)}
          /\ UNCHANGED <<netX, tickets>>
          /\ ini[i].ret = "CONTINUE_NEEDED" /\ ini[i].state # "RETRY_AUTHENTICATE"
          /\ ini' = [ini EXCEPT ![i].state = "RETRY_AUTHENTICATE", ![i].reauth = FALSE,
                                ![i].mutual = FALSE, ![i].aid = <<i, 2>>, ![i].secret = NoKey]
      BY <1>4 DEF InitRetry, Receives
    <2>3. PICK m : m = CertAssertion(<<i, 2>>, ini[i].req)
      OBVIOUS
    <2>4. ~IsReauth(m) /\ m.aid = <<i, 2>>
      BY <2>3 DEF CertAssertion, IsReauth
    <2>5. /\ ini'[i].aid = <<i, 2>> /\ ini'[i].reauth = FALSE
          /\ ini'[i].ret = "CONTINUE_NEEDED" /\ ini'[i].state = "RETRY_AUTHENTICATE"
      BY <1>i, <2>1 DEF InitContext
    <2> QED
      BY <2>1, <2>3, <2>4, <2>5
  <1>5. ASSUME NEW r \in netA, InitRetry(i, r), ini' = InitReleased(i)
        PROVE UNCHANGED <<netI, netX, tickets>> \/ ini'[i].state = "RETRY_AUTHENTICATE"
    BY <1>5, <1>i DEF InitRetry, InitContext
  <1>6. ASSUME NEW r \in netA, InitSpin(i, r)
        PROVE /\ UNCHANGED <<netI, netX, tickets>>
              /\ ini[i].ret = "CONTINUE_NEEDED"
              /\ ini'[i].state = "SPINNING" /\ ini'[i].ret = "NONE"
    BY <1>6, <1>i DEF InitSpin, Receives, InitContext
  <1>7. ASSUME NEW r \in netA, InitMinorStatus(i, r)
        PROVE /\ UNCHANGED <<netI, netX, tickets>>
              /\ ini[i].ret = "CONTINUE_NEEDED"
              /\ ini'[i].state = ini[i].state /\ ini'[i].reauth = ini[i].reauth
              /\ ini'[i].ret = "COMPLETE"
    BY <1>7, <1>i DEF InitMinorStatus, Receives, InitContext
  <1>8. ASSUME NEW r \in netA, InitReject(i, r)
        PROVE UNCHANGED <<netI, netX, tickets>> /\ ini' = InitReleased(i)
    BY <1>8 DEF InitReject
  <1>9. ASSUME NEW r \in netA, InitEstablish(i, r)
        PROVE UNCHANGED netI
    BY <1>9 DEF InitEstablish
  <1> QED
    BY <1>r, <1>1, <1>2, <1>3, <1>4, <1>5, <1>6, <1>7, <1>8, <1>9
       DEF InitStep, InitResponseToken

\* A good response gives an initiator context the key, the third token and the ticket
\* of the acceptor context that answered it.
LEMMA EstablishEffect ==
    ASSUME TypeInv, KeysInv, NEW i \in Initiators, NEW r \in netA, InitEstablish(i, r)
    PROVE /\ ini[i].ret = "CONTINUE_NEEDED" /\ r.minor = "OK" /\ r.re = ini[i].aid
          /\ ini[i].aid \in Aid /\ ini[i].aid[1] = i
          /\ \/ /\ ini'[i].state = "ESTABLISHED" /\ ini'[i].ret = "COMPLETE"
                /\ ini'[i].aid = ini[i].aid /\ ini'[i].key = SessionKey(r.from, r.jti)
                /\ ini'[i].mutual = InitialMutual(i, r)
             \/ ini'[i].state = "RELEASED" /\ ini'[i].ret = "FAILURE"
          /\ \/ netX' = netX
             \/ /\ r.jti /\ OwnedXRT(SessionKey(r.from, r.jti), ini[i].aid, r.from)
                /\ netX' = netX \cup {[from |-> i, key |-> SessionKey(r.from, r.jti)]}
          /\ \/ tickets' = tickets
             \/ /\ r.tkt
                /\ tickets' = {[tid |-> ini[i].aid, mutual |-> InitialMutual(i, r),
                                ark |-> SessionSubkey(acc[r.from].secret, "ARK")]}
  <1> DEFINE s == acc[r.from].secret
  <1>i. ini \in [Initiators -> InitContext] /\ ini[i] \in InitContext
    BY DEF TypeInv, InitOK
  <1>1. /\ ini[i].ret = "CONTINUE_NEEDED" /\ r.minor = "OK" /\ r.re = ini[i].aid
        /\ SecretWith(i, r) = s
    BY ResponseSecret DEF InitEstablish, Receives
  <1>2. ini[i].aid \in Aid /\ ini[i].aid[1] = i
    <2>1. ini[i].state \in {"AUTHENTICATE", "RETRY_AUTHENTICATE"}
      BY <1>i, <1>1 DEF InitContext, InitState, KeysInv, WaitingInv
    <2> QED
      BY <2>1, AidFacts DEF KeysInv, WaitingInv
  <1>3. /\ ContextKey(s, r) = SessionKey(r.from, r.jti)
        /\ r.jti => XRTKey(s, r.from) = SessionKey(r.from, r.jti)
    BY DEF ContextKey, SessionKey
  <1>4. \/ /\ ini'[i].state = "ESTABLISHED" /\ ini'[i].ret = "COMPLETE"
           /\ ini'[i].aid = ini[i].aid /\ ini'[i].key = SessionKey(r.from, r.jti)
           /\ ini'[i].mutual = InitialMutual(i, r)
        \/ ini'[i].state = "RELEASED" /\ ini'[i].ret = "FAILURE"
    <2>1. PICK mut, key : /\ mut = InitialMutual(i, r) /\ key = SessionKey(r.from, r.jti)
      OBVIOUS
    <2>2. \/ ini' = [ini EXCEPT ![i].state = "ESTABLISHED", ![i].mutual = mut,
                                ![i].secret = s, ![i].key = key, ![i].ret = "COMPLETE"]
          \/ ini' = [ini EXCEPT ![i].state = "RELEASED", ![i].ret = "FAILURE"]
      BY <1>1, <1>3, <2>1 DEF InitEstablish, InitReleased
    <2>3. \/ /\ ini'[i].state = "ESTABLISHED" /\ ini'[i].ret = "COMPLETE"
             /\ ini'[i].aid = ini[i].aid /\ ini'[i].key = key /\ ini'[i].mutual = mut
          \/ ini'[i].state = "RELEASED" /\ ini'[i].ret = "FAILURE"
      BY <1>i, <2>2 DEF InitContext
    <2> QED
      BY <2>1, <2>3
  <1>5. r.from \in Acceptors /\ Verified(r.from) /\ acc[r.from].aid = ini[i].aid
    BY <1>1 DEF TypeInv, RestOK, Response, KeysInv, ResponseInv
  <1>6. r.jti => OwnedXRT(SessionKey(r.from, r.jti), ini[i].aid, r.from)
    BY <1>2, <1>5, VerifiedFacts, XRTKeyOwned DEF SessionKey
  <1>7. \/ netX' = netX
        \/ r.jti /\ netX' = netX \cup {[from |-> i, key |-> SessionKey(r.from, r.jti)]}
    BY <1>1, <1>3 DEF InitEstablish
  <1>8. \/ tickets' = tickets
        \/ r.tkt /\ tickets' = {TicketOf(i, r, InitialMutual(i, r))}
    BY DEF InitEstablish
  <1>9. TicketOf(i, r, InitialMutual(i, r))
          = [tid |-> ini[i].aid, mutual |-> InitialMutual(i, r), ark |-> SessionSubkey(s, "ARK")]
    BY <1>1 DEF TicketOf
  <1> QED
    BY <1>1, <1>2, <1>4, <1>6, <1>7, <1>8, <1>9

\* An initiator's steps keep what the invariants say of the acceptors.
LEMMA InitStepVerified ==
    ASSUME TypeInv, KeysInv, NEW i \in Initiators, InitStep(i) \/ DeleteInit(i)
    PROVE (FailedInv /\ VerifiedInv /\ ResponseInv /\ AcceptanceInv)'
  <1>1. /\ UNCHANGED <<acc, netA, accepted>> /\ netI \subseteq netI' /\ netX \subseteq netX'
    BY InitFrame
  <1>2. \A a \in Acceptors : Verified(a) => Verified(a)'
    BY <1>1 DEF Verified
  <1>3. /\ \A r \in netA : r.from \in Acceptors
        /\ \A e \in accepted : e.acc \in Acceptors
    BY DEF TypeInv, RestOK, Response
  <1>4. FailedInv'
    BY <1>1 DEF KeysInv, FailedInv
  <1>5. VerifiedInv'
    BY <1>1, <1>2 DEF KeysInv, VerifiedInv
  <1>6. ResponseInv'
    BY <1>1, <1>2, <1>3 DEF KeysInv, ResponseInv
  <1>7. AcceptanceInv'
    BY <1>1, <1>2, <1>3 DEF KeysInv, AcceptanceInv, SessionKey
  <1> QED
    BY <1>4, <1>5, <1>6, <1>7

\* An initiator's steps make no assertion twice.
LEMMA InitStepOnce ==
    ASSUME TypeInv, KeysInv, NEW i \in Initiators, InitStep(i) \/ DeleteInit(i)
    PROVE OnceInv'
  <1>f. \A j \in Initiators : j # i => ini'[j] = ini[j]
    BY InitFrame
  <1>a. \A j \in Initiators : /\ <<j, 1>> # <<i, 2>>
                              /\ <<j, 1>> = <<i, 1>> => j = i
                              /\ <<j, 2>> = <<i, 2>> => j = i
    OBVIOUS
  <1>o. OnceInv /\ WaitingInv
    BY DEF KeysInv
  <1>c. /\ ini[i] \in InitContext
        /\ ini[i].ret = "CONTINUE_NEEDED" =>
             ini[i].state \in {"AUTHENTICATE", "RETRY_AUTHENTICATE"}
    BY <1>o DEF TypeInv, InitOK, InitContext, InitState, WaitingInv
  <1>1. ASSUME NEW m, netI' = netI \cup {m}, m.aid = <<i, 1>>, ini[i].state = "INITIAL",
               ini'[i].state = "AUTHENTICATE", ini'[i].reauth <=> IsReauth(m)
        PROVE OnceInv'
    <2>1. \A n \in netI : n.aid # <<i, 1>> /\ n.aid # <<i, 2>>
      BY <1>o, <1>1 DEF OnceInv
    <2> QED
      BY <1>a, <1>f, <1>o, <1>1, <2>1 DEF OnceInv, IsReauth
  <1>2. ASSUME NEW m, netI' = netI \cup {m}, m.aid = <<i, 2>>, ~IsReauth(m),
               ini[i].ret = "CONTINUE_NEEDED", ini[i].state # "RETRY_AUTHENTICATE",
               ini'[i].state = "RETRY_AUTHENTICATE"
        PROVE OnceInv'
    <2>1. \A n \in netI : n.aid # <<i, 2>>
      BY <1>c, <1>o, <1>2 DEF OnceInv
    <2> QED
      BY <1>a, <1>f, <1>o, <1>2, <2>1 DEF OnceInv, IsReauth
  <1>3. ASSUME UNCHANGED netI,
               \/ ini'[i].state \notin {"INITIAL", "AUTHENTICATE"}
               \/ ini'[i].state = ini[i].state /\ ini'[i].reauth = ini[i].reauth
        PROVE OnceInv'
    BY <1>f, <1>o, <1>3 DEF OnceInv, IsReauth
  <1>4. ASSUME NEW r \in netA, InitEstablish(i, r)
        PROVE ini'[i].state \notin {"INITIAL", "AUTHENTICATE"}
    BY <1>4, EstablishEffect
  <1> QED
    BY <1>1, <1>2, <1>3, <1>4, InitEffect

\* An initiator's steps keep its key and its third token together.
LEMMA InitStepToken ==
    ASSUME TypeInv, KeysInv, NEW i \in Initiators, InitStep(i) \/ DeleteInit(i)
    PROVE (ThirdTokenInv /\ EstablishedInv)'
  <1>f. /\ UNCHANGED <<acc, netA>> /\ \A j \in Initiators : j # i => ini'[j] = ini[j]
    BY InitFrame
  <1>o. ThirdTokenInv /\ EstablishedInv /\ WaitingInv
    BY DEF KeysInv
  <1>w. /\ ini[i].ret = "CONTINUE_NEEDED" \/ ini[i].state = "INITIAL" =>
             ini[i].state # "ESTABLISHED" /\ \A t \in netX : t.from # i
        /\ \A t \in netX : t.from \in Initiators
    BY <1>o DEF WaitingInv, ThirdTokenInv, TypeInv, RestOK, XRTToken
  <1>1. ASSUME netX' = netX, ini'[i].state # "ESTABLISHED",
               \/ ini[i].ret = "CONTINUE_NEEDED" \/ ini[i].state = "INITIAL"
               \/ ini'[i].state = "RELEASED"
        PROVE (ThirdTokenInv /\ EstablishedInv)'
    BY <1>f, <1>o, <1>w, <1>1 DEF ThirdTokenInv, EstablishedInv, SessionKey
  <1>2. ASSUME NEW r \in netA, InitEstablish(i, r)
        PROVE (ThirdTokenInv /\ EstablishedInv)'
    <2> DEFINE k == SessionKey(r.from, r.jti)
    <2>0. r.from \in Acceptors
      BY DEF TypeInv, RestOK, Response
    <2>1. /\ ini[i].ret = "CONTINUE_NEEDED" /\ r.minor = "OK" /\ r.re = ini[i].aid
          /\ ini[i].aid \in Aid /\ ini[i].aid[1] = i
          /\ \/ /\ ini'[i].state = "ESTABLISHED"
                /\ ini'[i].aid = ini[i].aid /\ ini'[i].key = k
             \/ ini'[i].state = "RELEASED"
          /\ \/ netX' = netX
             \/ /\ OwnedXRT(k, ini[i].aid, r.from)
                /\ netX' = netX \cup {[from |-> i, key |-> k]}
      BY <1>2, EstablishEffect
    <2>2. ThirdTokenInv'
      <3> HIDE DEF k
      <3> QED
        BY <1>f, <1>o, <1>w, <2>0, <2>1 DEF ThirdTokenInv
    <2>3. EstablishedInv'
      BY <1>f, <1>o, <2>1 DEF EstablishedInv, SessionKey
    <2> QED
      BY <2>2, <2>3
  <1> QED
    BY <1>w, <1>1, <1>2, InitEffect

LEMMA InitStepKeys ==
    ASSUME TypeInv, KeysInv, NEW i \in Initiators, InitStep(i) \/ DeleteInit(i)
    PROVE KeysInv'
  BY InitStepWaiting, InitStepVerified, InitStepOnce, InitStepToken DEF KeysInv

-----------------------------------------------------------------------------
(***************************************************************************)
(* An acceptor's steps keep KeysInv.                                       *)
(***************************************************************************)

\* The kinds of step an acceptor makes, with what each outputs.
LEMMA AcceptEffect ==
    ASSUME TypeInv, NEW a \in Acceptors,
           AcceptSecContext(a) \/ AcceptDefective(a) \/ DeleteAccept(a)
    PROVE \/ \E m \in netI : /\ AcceptReauthFailed(a, m) /\ IsReauth(m)
                             /\ acc[a].state \in {"INITIAL", "RETRY_INITIAL"}
                             /\ acc'[a].state = "RETRY_INITIAL"
          \/ \E m \in netI : /\ VerifyBegin(a, m)
                             /\ acc[a].state \in {"INITIAL", "RETRY_INITIAL"}
                             /\ acc'[a].state = "VERIFYING"
                             /\ UNCHANGED <<netA, accepted>>
          \/ acc'[a].state = "RELEASED" /\ UNCHANGED <<netA, accepted>>
          \/ /\ acc[a].state = "VERIFYING" /\ acc'[a].state = "EXTRA_ROUND_TRIP"
             /\ acc[a].xrt /\ UNCHANGED accepted
             /\ \/ "update" \in Faults /\ netA' = netA \cup {ResponseOf(a, "OTHER", FALSE)}
                \/ \E renew \in BOOLEAN : netA' = netA \cup {ResponseOf(a, "OK", renew)}
          \/ /\ acc[a].state = "VERIFYING" /\ acc'[a].state = "ESTABLISHED" /\ ~acc[a].xrt
             /\ \E renew \in BOOLEAN : netA' = netA \cup {ResponseOf(a, "OK", renew)}
             /\ accepted' = accepted \cup {Acceptance(a, acc[a].secret)}
          \/ /\ acc[a].state = "EXTRA_ROUND_TRIP" /\ acc'[a].state = "ESTABLISHED"
             /\ \E t \in netX : t.key = XRTKey(acc[a].secret, a)
             /\ accepted' = accepted \cup {Acceptance(a, XRTKey(acc[a].secret, a))}
             /\ UNCHANGED netA
  <1>i. acc \in [Acceptors -> AcceptContext] /\ acc[a] \in AcceptContext
    BY DEF TypeInv, AcceptOK
  <1>r. acc' = AcceptReleased(a) => acc'[a].state = "RELEASED"
    BY <1>i DEF AcceptReleased, AcceptContext
  <1>1. ASSUME NEW m \in netI, AcceptReauthFailed(a, m)
        PROVE /\ IsReauth(m) /\ acc[a].state \in {"INITIAL", "RETRY_INITIAL"}
              /\ acc'[a].state = "RETRY_INITIAL"
    BY <1>1, <1>i DEF AcceptReauthFailed, Offered, ReauthRecoverable, AcceptContext
  <1>2. ASSUME NEW m \in netI, VerifyBegin(a, m)
        PROVE /\ acc[a].state \in {"INITIAL", "RETRY_INITIAL"}
              /\ acc'[a].state = "VERIFYING" /\ UNCHANGED <<netA, accepted>>
    BY <1>2, <1>i DEF VerifyBegin, Offered
  <1>3. ASSUME NEW m \in netI, AcceptReject(a, m)
        PROVE acc'[a].state = "RELEASED" /\ UNCHANGED <<netA, accepted>>
    BY <1>3, <1>i DEF AcceptReject, AcceptReleased, AcceptContext
  <1>4. ASSUME VerifyEnd(a), acc' # AcceptReleased(a)
        PROVE /\ acc[a].state = "VERIFYING"
              /\ \E renew \in BOOLEAN : netA' = netA \cup {ResponseOf(a, "OK", renew)}
              /\ \/ /\ acc'[a].state = "EXTRA_ROUND_TRIP" /\ acc[a].xrt /\ UNCHANGED accepted
                 \/ /\ acc'[a].state = "ESTABLISHED" /\ ~acc[a].xrt
                    /\ accepted' = accepted \cup {Acceptance(a, acc[a].secret)}
    <2>1. PICK mut : mut = (acc[a].mutual \/ X509Signs(a))
      OBVIOUS
    <2>2. \/ /\ acc[a].xrt /\ UNCHANGED accepted
             /\ acc' = [acc EXCEPT ![a].state = "EXTRA_ROUND_TRIP", ![a].mutual = mut,
                                   ![a].ret = "CONTINUE_NEEDED"]
          \/ /\ ~acc[a].xrt /\ accepted' = accepted \cup {Acceptance(a, acc[a].secret)}
             /\ acc' = [acc EXCEPT ![a].state = "ESTABLISHED", ![a].mutual = mut,
                                   ![a].key = acc[a].secret, ![a].ret = "COMPLETE"]
      BY <1>4, <2>1 DEF VerifyEnd
    <2>3. /\ acc[a].state = "VERIFYING"
          /\ \E renew \in BOOLEAN : netA' = netA \cup {ResponseOf(a, "OK", renew)}
      BY <1>4 DEF VerifyEnd, Renewals
    <2> QED
      BY <1>i, <2>2, <2>3 DEF AcceptContext
  <1>5. ASSUME VerifyEnd(a), acc' = AcceptReleased(a)
        PROVE UNCHANGED <<netA, accepted>>
    <2>1. PICK mut : mut = (acc[a].mutual \/ X509Signs(a))
      OBVIOUS
    <2>2. \/ acc' = [acc EXCEPT ![a].state = "EXTRA_ROUND_TRIP", ![a].mutual = mut,
                                ![a].ret = "CONTINUE_NEEDED"]
          \/ acc' = [acc EXCEPT ![a].state = "ESTABLISHED", ![a].mutual = mut,
                                ![a].key = acc[a].secret, ![a].ret = "COMPLETE"]
          \/ UNCHANGED <<netA, accepted>>
      BY <1>5, <2>1 DEF VerifyEnd
    <2> QED
      BY <1>i, <1>r, <1>5, <2>2 DEF AcceptContext
  <1>6. ASSUME UpdateFails(a)
        PROVE \/ /\ acc[a].state = "VERIFYING" /\ acc'[a].state = "EXTRA_ROUND_TRIP"
                 /\ acc[a].xrt /\ UNCHANGED accepted /\ "update" \in Faults
                 /\ netA' = netA \cup {ResponseOf(a, "OTHER", FALSE)}
              \/ acc'[a].state = "RELEASED" /\ UNCHANGED <<netA, accepted>>
    <2>1. PICK mut : mut = (acc[a].mutual \/ X509Signs(a))
      OBVIOUS
    <2>2. \/ /\ acc[a].state = "VERIFYING" /\ acc[a].xrt /\ "update" \in Faults
             /\ acc' = [acc EXCEPT ![a].state = "EXTRA_ROUND_TRIP", ![a].mutual = mut,
                                   ![a].ret = "CONTINUE_NEEDED"]
             /\ UNCHANGED accepted /\ netA' = netA \cup {ResponseOf(a, "OTHER", FALSE)}
          \/ acc' = AcceptReleased(a) /\ UNCHANGED <<netA, accepted>>
      BY <1>6, <2>1 DEF UpdateFails
    <2>3. acc' = [acc EXCEPT ![a].state = "EXTRA_ROUND_TRIP", ![a].mutual = mut,
                             ![a].ret = "CONTINUE_NEEDED"]
            => acc'[a].state = "EXTRA_ROUND_TRIP"
      BY <1>i DEF AcceptContext
    <2> QED
      BY <1>r, <2>2, <2>3
  <1>7. ASSUME NEW t \in netX, AcceptXRT(a, t)
        PROVE \/ /\ acc[a].state = "EXTRA_ROUND_TRIP" /\ acc'[a].state = "ESTABLISHED"
                 /\ t.key = XRTKey(acc[a].secret, a)
                 /\ accepted' = accepted \cup {Acceptance(a, XRTKey(acc[a].secret, a))}
                 /\ UNCHANGED netA
              \/ acc'[a].state = "RELEASED" /\ UNCHANGED <<netA, accepted>>
    BY <1>7, <1>i, <1>r DEF AcceptXRT, XRTVerifies, AcceptContext
  <1>8. ASSUME AcceptDefective(a) \/ DeleteAccept(a)
        PROVE acc'[a].state = "RELEASED" /\ UNCHANGED <<netA, accepted>>
    BY <1>8, <1>r DEF AcceptDefective, DeleteAccept
  <1> QED
    BY <1>r, <1>1, <1>2, <1>3, <1>4, <1>5, <1>6, <1>7, <1>8 DEF AcceptSecContext

\* An acceptor's step takes back nothing that it or another context has verified.
LEMMA VerifiedStays ==
    ASSUME TypeInv, NEW a \in Acceptors,
           AcceptSecContext(a) \/ AcceptDefective(a) \/ DeleteAccept(a),
           NEW b \in Acceptors,
           acc[b].state \in {"VERIFYING", "EXTRA_ROUND_TRIP", "ESTABLISHED", "RELEASED"}
    PROVE /\ acc'[b].aid = acc[b].aid /\ acc'[b].secret = acc[b].secret
          /\ acc'[b].xrt = acc[b].xrt /\ acc'[b].reauth = acc[b].reauth
          /\ Verified(b) => Verified(b)'
          /\ acc[b].state # "VERIFYING" =>
               acc'[b].state \in {"EXTRA_ROUND_TRIP", "ESTABLISHED", "RELEASED"}
          /\ acc[b].state \in {"ESTABLISHED", "RELEASED"} =>
               acc'[b].state \in {"ESTABLISHED", "RELEASED"}
  <1>1. /\ acc'[b].aid = acc[b].aid /\ acc'[b].secret = acc[b].secret
        /\ acc'[b].xrt = acc[b].xrt /\ acc'[b].reauth = acc[b].reauth /\ UNCHANGED netI
        /\ acc[b].state # "VERIFYING" =>
             acc'[b].state \in {"EXTRA_ROUND_TRIP", "ESTABLISHED", "RELEASED"}
    BY AcceptFrame
  <1>2. acc[b].state \in {"ESTABLISHED", "RELEASED"} =>
          acc'[b].state \in {"ESTABLISHED", "RELEASED"}
    BY AcceptFrame, AcceptEffect
  <1> QED
    BY <1>1, <1>2 DEF Verified

\* A context that begins to verify an assertion has its secret.
LEMMA BeginVerified ==
    ASSUME TypeInv, NEW a \in Acceptors, NEW m \in netI, VerifyBegin(a, m)
    PROVE Verified(a)' /\ acc'[a].aid = m.aid
  <1>1. m.aid \in Aid /\ m.ark \in Key
    BY DEF TypeInv, RestOK, Assertion
  <1>2. acc \in [Acceptors -> AcceptContext]
    BY DEF TypeInv, AcceptOK
  <1>3. PICK mut, ret :
          acc' = [acc EXCEPT ![a] =
                    [state |-> "VERIFYING", aid |-> m.aid, reauth |-> IsReauth(m),
                     xrt |-> m.xrt, want |-> m.mutual, mutual |-> mut,
                     secret |-> IF IsReauth(m)
                                THEN AuthenticatorSessionKey(m.ark, m.aid)
                                ELSE DH(m.aid, a),
                     key |-> NoKey, ret |-> ret]]
    BY DEF VerifyBegin
  <1>4. /\ acc'[a].aid = m.aid /\ acc'[a].xrt = m.xrt /\ acc'[a].reauth = IsReauth(m)
        /\ acc'[a].secret = IF IsReauth(m) THEN AuthenticatorSessionKey(m.ark, m.aid)
                                          ELSE DH(m.aid, a)
    BY <1>2, <1>3
  <1>5. netI' = netI
    BY DEF VerifyBegin
  <1> QED
    BY <1>1, <1>4, <1>5 DEF Verified

\* What an acceptor's step adds to the responses and the acceptances fits the context.
LEMMA AcceptStepVerified ==
    ASSUME TypeInv, KeysInv, NEW a \in Acceptors,
           AcceptSecContext(a) \/ AcceptDefective(a) \/ DeleteAccept(a)
    PROVE (FailedInv /\ VerifiedInv /\ ResponseInv /\ AcceptanceInv)'
  <1>f. /\ UNCHANGED <<ini, netI, netX>> /\ netA \subseteq netA' /\ accepted \subseteq accepted'
        /\ \A b \in Acceptors : b # a => acc'[b] = acc[b]
    BY AcceptFrame
  <1>o. FailedInv /\ VerifiedInv /\ ResponseInv /\ AcceptanceInv
    BY DEF KeysInv
  <1>t. /\ \A r \in netA : r.from \in Acceptors
        /\ \A e \in accepted : e.acc \in Acceptors
    BY DEF TypeInv, RestOK, Response
  <1>s. acc[a].state = "VERIFYING" \/ acc[a].state = "EXTRA_ROUND_TRIP" => Verified(a)
    BY <1>o DEF VerifiedInv
  <1>1. FailedInv'
    <2>1. ASSUME NEW m \in netI, AcceptReauthFailed(a, m), IsReauth(m)
          PROVE FailedInv'
      <3>1. netA' = netA \cup {ReauthFailedResponse(a, m)} /\ netI' = netI
        BY <2>1 DEF AcceptReauthFailed
      <3>2. ReauthFailedResponse(a, m).re = m.aid
        BY DEF ReauthFailedResponse
      <3> QED
        BY <1>o, <2>1, <3>1, <3>2 DEF FailedInv
    <2>2. ASSUME NEW q, netA' = netA \cup {q}, q.minor # "REAUTH_FAILED"
          PROVE FailedInv'
      BY <1>f, <1>o, <2>2 DEF FailedInv
    <2>3. \A renew : /\ ResponseOf(a, "OK", renew).minor = "OK"
                     /\ ResponseOf(a, "OTHER", renew).minor = "OTHER"
      BY DEF ResponseOf
    <2>4. ASSUME UNCHANGED netA PROVE FailedInv'
      BY <1>f, <1>o, <2>4 DEF FailedInv
    <2> QED
      BY <2>1, <2>2, <2>3, <2>4, AcceptEffect
  <1>2. VerifiedInv'
    <2>1. ASSUME NEW b \in Acceptors,
                 acc'[b].state \in {"VERIFYING", "EXTRA_ROUND_TRIP", "ESTABLISHED"}
          PROVE Verified(b)'
      <3>1. CASE b # a
        BY <1>f, <1>o, <2>1, <3>1, VerifiedStays DEF VerifiedInv
      <3>2. CASE b = a
        BY <1>s, <2>1, <3>2, AcceptEffect, BeginVerified, VerifiedStays
      <3> QED
        BY <3>1, <3>2
    <2>2. ASSUME NEW b \in Acceptors, acc'[b].state = "EXTRA_ROUND_TRIP"
          PROVE acc'[b].xrt
      BY <1>f, <1>o, <2>2, AcceptEffect, VerifiedStays DEF VerifiedInv
    <2> QED
      BY <2>1, <2>2 DEF VerifiedInv
  <1>3. ResponseInv'
    <2> DEFINE Good(r) ==
          /\ Verified(r.from)
          /\ acc[r.from].state \in {"EXTRA_ROUND_TRIP", "ESTABLISHED", "RELEASED"}
          /\ r.re = acc[r.from].aid /\ r.jti = acc[r.from].xrt
          /\ IF r.x509 THEN ~acc[r.from].reauth
                       ELSE r.rrk = SessionSubkey(acc[r.from].secret, "RRK")
          /\ ~r.jti => \E e \in accepted : e.acc = r.from
    <2>1. ASSUME NEW r \in netA, r.minor = "OK"
          PROVE Good(r)'
      <3>1. Good(r) /\ r.from \in Acceptors
        BY <1>o, <1>t, <2>1 DEF ResponseInv
      <3> QED
        BY <1>f, <3>1, VerifiedStays
    <2>2. ASSUME NEW renew \in BOOLEAN, NEW q, q = ResponseOf(a, "OK", renew),
                 acc[a].state = "VERIFYING",
                 acc'[a].state \in {"EXTRA_ROUND_TRIP", "ESTABLISHED"},
                 ~acc[a].xrt => \E e \in accepted' : e.acc = a
          PROVE Good(q)'
      <3>1. /\ q.from = a /\ q.re = acc[a].aid /\ q.jti = acc[a].xrt
            /\ IF q.x509 THEN ~acc[a].reauth
                         ELSE q.rrk = SessionSubkey(acc[a].secret, "RRK")
        BY <2>2 DEF ResponseOf, X509Signs
      <3> QED
        BY <1>s, <2>2, <3>1, VerifiedStays
    <2>3. ASSUME NEW renew \in BOOLEAN, netA' = netA \cup {ResponseOf(a, "OK", renew)},
                 acc[a].state = "VERIFYING",
                 acc'[a].state \in {"EXTRA_ROUND_TRIP", "ESTABLISHED"},
                 ~acc[a].xrt => \E e \in accepted' : e.acc = a
          PROVE ResponseInv'
      <3>1. PICK q : q = ResponseOf(a, "OK", renew)
        OBVIOUS
      <3>2. Good(q)'
        BY <2>2, <2>3, <3>1
      <3>3. \A r \in netA' : r.minor = "OK" => Good(r)'
        <4> HIDE DEF Good
        <4> QED BY <2>1, <2>3, <3>1, <3>2
      <3> QED
        BY <3>3 DEF ResponseInv
    <2>4. ASSUME NEW q, netA' = netA \cup {q}, q.minor # "OK"
          PROVE ResponseInv'
      <3>3. \A r \in netA' : r.minor = "OK" => Good(r)'
        <4> HIDE DEF Good
        <4> QED BY <2>1, <2>4
      <3> QED
        BY <3>3 DEF ResponseInv
    <2>5. ASSUME UNCHANGED netA PROVE ResponseInv'
      <3>3. \A r \in netA' : r.minor = "OK" => Good(r)'
        <4> HIDE DEF Good
        <4> QED BY <2>1, <2>5
      <3> QED
        BY <3>3 DEF ResponseInv
    <2>6. /\ \A renew : ResponseOf(a, "OTHER", renew).minor = "OTHER"
          /\ \A m : ReauthFailedResponse(a, m).minor = "REAUTH_FAILED"
          /\ \A k : Acceptance(a, k).acc = a
      BY DEF ResponseOf, ReauthFailedResponse, Acceptance
    <2>7. \A m \in netI : AcceptReauthFailed(a, m) =>
                            netA' = netA \cup {ReauthFailedResponse(a, m)}
      BY DEF AcceptReauthFailed
    <2> HIDE DEF Good
    <2> QED
      BY <2>3, <2>4, <2>5, <2>6, <2>7, AcceptEffect
  <1>4. AcceptanceInv'
    <2> DEFINE Good(e) ==
          /\ Verified(e.acc)
          /\ acc[e.acc].state \in {"ESTABLISHED", "RELEASED"}
          /\ e.aid = acc[e.acc].aid /\ e.xrt = acc[e.acc].xrt
          /\ e.key = SessionKey(e.acc, e.xrt)
          /\ e.xrt => \E t \in netX : t.key = e.key
    <2>1. ASSUME NEW e \in accepted
          PROVE Good(e)'
      <3>1. Good(e) /\ e.acc \in Acceptors
        BY <1>o, <1>t, <2>1 DEF AcceptanceInv
      <3> QED
        BY <1>f, <3>1, VerifiedStays DEF SessionKey
    <2>2. ASSUME NEW k, NEW e, e = Acceptance(a, k), acc'[a].state = "ESTABLISHED",
                 acc[a].state \in {"VERIFYING", "EXTRA_ROUND_TRIP"},
                 k = SessionKey(a, acc[a].xrt), acc[a].xrt => \E t \in netX : t.key = k
          PROVE Good(e)'
      <3>1. e.acc = a /\ e.aid = acc[a].aid /\ e.xrt = acc[a].xrt /\ e.key = k
        BY <2>2 DEF Acceptance
      <3> QED
        BY <1>f, <1>s, <2>2, <3>1, VerifiedStays DEF SessionKey
    <2>3. ASSUME NEW k, accepted' = accepted \cup {Acceptance(a, k)},
                 acc'[a].state = "ESTABLISHED",
                 acc[a].state \in {"VERIFYING", "EXTRA_ROUND_TRIP"},
                 k = SessionKey(a, acc[a].xrt), acc[a].xrt => \E t \in netX : t.key = k
          PROVE AcceptanceInv'
      <3>1. PICK e : e = Acceptance(a, k)
        OBVIOUS
      <3>2. Good(e)'
        BY <2>2, <2>3, <3>1
      <3>3. \A g \in accepted' : Good(g)'
        <4> HIDE DEF Good
        <4> QED BY <2>1, <2>3, <3>1, <3>2
      <3> QED
        BY <3>3 DEF AcceptanceInv
    <2>4. ASSUME UNCHANGED accepted PROVE AcceptanceInv'
      <3>3. \A g \in accepted' : Good(g)'
        <4> HIDE DEF Good
        <4> QED BY <2>1, <2>4
      <3> QED
        BY <3>3 DEF AcceptanceInv
    <2>5. \A m \in netI : AcceptReauthFailed(a, m) => UNCHANGED accepted
      BY DEF AcceptReauthFailed
    <2>6. /\ ~acc[a].xrt => acc[a].secret = SessionKey(a, acc[a].xrt)
          /\ acc[a].xrt => XRTKey(acc[a].secret, a) = SessionKey(a, acc[a].xrt)
      BY DEF SessionKey
    <2>7. acc[a].state = "EXTRA_ROUND_TRIP" => acc[a].xrt
      BY <1>o DEF VerifiedInv
    <2> HIDE DEF Good
    <2> QED
      BY <2>3, <2>4, <2>5, <2>6, <2>7, AcceptEffect
  <1> QED
    BY <1>1, <1>2, <1>3, <1>4

LEMMA AcceptStepKeys ==
    ASSUME TypeInv, KeysInv, NEW a \in Acceptors,
           AcceptSecContext(a) \/ AcceptDefective(a) \/ DeleteAccept(a)
    PROVE KeysInv'
  <1>1. UNCHANGED <<ini, netI, netX>> /\ netA \subseteq netA'
    BY AcceptFrame
  <1>2. (WaitingInv /\ OnceInv /\ ThirdTokenInv)'
    BY <1>1 DEF KeysInv, WaitingInv, OnceInv, ThirdTokenInv, IsReauth
  <1>3. EstablishedInv'
    <2>1. ASSUME NEW r \in netA, r.minor = "OK"
          PROVE SessionKey(r.from, r.jti)' = SessionKey(r.from, r.jti)
      <3>1. /\ r.from \in Acceptors
            /\ acc[r.from].state \in {"EXTRA_ROUND_TRIP", "ESTABLISHED", "RELEASED"}
        BY <2>1 DEF KeysInv, ResponseInv, TypeInv, RestOK, Response
      <3> QED
        BY <3>1, VerifiedStays DEF SessionKey
    <2> QED
      BY <1>1, <2>1 DEF KeysInv, EstablishedInv
  <1> QED
    BY <1>2, <1>3, AcceptStepVerified DEF KeysInv

-----------------------------------------------------------------------------
(***************************************************************************)
(* The theorems.                                                           *)
(***************************************************************************)

LEMMA EnvStepKeys ==
    ASSUME TypeInv, KeysInv, (\E x \in Aid : Expire(x) \/ LoseEntry(x)) \/ PurgeReplayCache
    PROVE KeysInv'
  <1>1. UNCHANGED <<ini, acc, netI, netA, netX, accepted>>
    BY EnvFrame
  <1> QED
    BY <1>1 DEF KeysInv, WaitingInv, OnceInv, FailedInv, VerifiedInv, Verified, ResponseInv,
                AcceptanceInv, SessionKey, ThirdTokenInv, EstablishedInv, IsReauth

\* What the two ends of an exchange know of each other, whatever fails and however the
\* tokens travel: the inductive invariant of the theorems below.
THEOREM KeysInvariant == Spec => []KeysInv
  <1>1. Init => KeysInv
    BY DEF Init, KeysInv, WaitingInv, OnceInv, FailedInv, VerifiedInv, ResponseInv,
           AcceptanceInv, ThirdTokenInv, EstablishedInv, NoInitContext, NoAcceptContext
  <1>2. TypeInv /\ KeysInv /\ [Next]_vars => KeysInv'
    <2> SUFFICES ASSUME TypeInv, KeysInv, [Next]_vars PROVE KeysInv'
      OBVIOUS
    <2>1. CASE Next
      BY <2>1, InitStepKeys, AcceptStepKeys, EnvStepKeys DEF Next
    <2>2. CASE UNCHANGED vars
      BY <2>2 DEF vars, KeysInv, WaitingInv, OnceInv, FailedInv, VerifiedInv, Verified,
                  ResponseInv, AcceptanceInv, SessionKey, ThirdTokenInv, EstablishedInv,
                  IsReauth
    <2> QED
      BY <2>1, <2>2
  <1> QED
    BY <1>1, <1>2, TypeInvCorrect, PTL DEF Spec

\* Two established ends of one exchange have one session key (gssBidContextReady),
\* even if the application duplicates and misdirects tokens and anything may fail:
\* a response that verifies comes from a context with the same secret, and the
\* third token of an initiator is made for that context alone.
THEOREM KeysAgreement == Spec => []KeysAgree
  <1>1. TypeInv /\ KeysInv => KeysAgree
    <2> SUFFICES ASSUME TypeInv, KeysInv, NEW i \in Initiators, NEW e \in accepted,
                        ini[i].state = "ESTABLISHED", e.aid = ini[i].aid,
                        \A f \in accepted : f.aid = e.aid => f = e
                 PROVE e.key = ini[i].key
      BY DEF KeysAgree
    <2>1. PICK r \in netA : /\ r.minor = "OK" /\ r.re = ini[i].aid
                            /\ ini[i].key = SessionKey(r.from, r.jti)
      BY DEF KeysInv, EstablishedInv
    <2>2. ini[i].aid[1] = i /\ ini[i].aid \in Aid
      BY DEF KeysInv, EstablishedInv
    <2>3. /\ r.from \in Acceptors /\ Verified(r.from) /\ acc[r.from].aid = ini[i].aid
          /\ r.jti = acc[r.from].xrt /\ (~r.jti => \E f \in accepted : f.acc = r.from)
      BY <2>1 DEF KeysInv, ResponseInv, TypeInv, RestOK, Response
    <2>4. /\ e.acc \in Acceptors /\ Verified(e.acc) /\ acc[e.acc].aid = ini[i].aid
          /\ e.xrt = acc[e.acc].xrt /\ e.key = SessionKey(e.acc, e.xrt)
          /\ e.xrt => \E t \in netX : t.key = e.key
      BY DEF KeysInv, AcceptanceInv, TypeInv, RestOK
    <2>5. r.jti = e.xrt
      BY <2>3, <2>4 DEF Verified, KeysInv, OnceInv
    <2>6. CASE ~r.jti
      BY <2>1, <2>3, <2>4, <2>5, <2>6 DEF KeysInv, AcceptanceInv
    <2>7. CASE r.jti
      <3>1. PICK t \in netX : t.key = e.key
        BY <2>4, <2>5, <2>7
      <3>2. PICK x \in Aid, a \in Acceptors : x[1] = t.from /\ OwnedXRT(t.key, x, a)
        BY DEF KeysInv, ThirdTokenInv
      <3>3. OwnedXRT(e.key, ini[i].aid, e.acc)
        BY <2>4, <2>5, <2>7, VerifiedFacts, XRTKeyOwned DEF SessionKey, Verified
      <3>4. t.from = i
        BY <2>2, <2>4, <3>1, <3>2, <3>3, OwnedXRTUnique
      <3> QED
        BY <3>1, <3>4 DEF KeysInv, ThirdTokenInv
    <2> QED
      BY <2>6, <2>7
  <1> QED
    BY <1>1, TypeInvCorrect, KeysInvariant, PTL

\* The retry loop of gssBidInitSecContext ends if each response reaches the context that
\* asked for it: only an authenticator is answered by a demand for a fresh
\* assertion, and the assertion of a retry is not one.
THEOREM RetryEnds ==
    ASSUME ~Unreliable
    PROVE Spec => []NoSpin
  <1>1. Init => NoSpin
    <2>1. NoInitContext.state = "INITIAL"
      BY DEF NoInitContext
    <2> QED
      BY <2>1 DEF Init, NoSpin
  <1>2. TypeInv /\ KeysInv /\ NoSpin /\ [Next]_vars => NoSpin'
    <2> SUFFICES ASSUME TypeInv, KeysInv, NoSpin, [Next]_vars PROVE NoSpin'
      OBVIOUS
    <2>1. ASSUME NEW i \in Initiators, InitStep(i) \/ DeleteInit(i)
          PROVE NoSpin'
      <3>f. \A j \in Initiators : j # i => ini'[j] = ini[j]
        BY <2>1, InitFrame
      <3>1. ASSUME NEW r \in netA, InitSpin(i, r)
            PROVE FALSE
        <4>1. /\ r.re = ini[i].aid /\ r.minor = "REAUTH_FAILED"
              /\ ini[i].ret = "CONTINUE_NEEDED"
              /\ ~(ini[i].reauth /\ ini[i].state # "RETRY_AUTHENTICATE")
          BY <3>1 DEF InitSpin, Receives
        <4>2. ini[i].state \in {"AUTHENTICATE", "RETRY_AUTHENTICATE"}
          BY <4>1 DEF TypeInv, InitOK, InitContext, InitState, KeysInv, WaitingInv
        <4>3. PICK m \in netI : m.aid = ini[i].aid /\ IsReauth(m)
          BY <4>1 DEF KeysInv, FailedInv
        <4> QED
          BY <4>1, <4>2, <4>3 DEF KeysInv, WaitingInv, OnceInv
      <3>2. ASSUME NEW r \in netA, InitEstablish(i, r)
            PROVE ini'[i].state # "SPINNING"
        BY <3>2, EstablishEffect
      <3>3. ini'[i].state # "SPINNING"
        BY <2>1, <3>1, <3>2, InitEffect DEF NoSpin
      <3> QED
        BY <3>f, <3>3 DEF NoSpin
    <2>2. ASSUME NEW a \in Acceptors,
                 AcceptSecContext(a) \/ AcceptDefective(a) \/ DeleteAccept(a)
          PROVE NoSpin'
      BY <2>2, AcceptFrame DEF NoSpin
    <2>3. CASE (\E x \in Aid : Expire(x) \/ LoseEntry(x)) \/ PurgeReplayCache
      BY <2>3, EnvFrame DEF NoSpin
    <2>4. CASE UNCHANGED vars
      BY <2>4 DEF vars, NoSpin
    <2> QED
      BY <2>1, <2>2, <2>3, <2>4 DEF Next
  <1> QED
    BY <1>1, <1>2, TypeInvCorrect, KeysInvariant, PTL DEF Spec

\* gssBidInitSecContext keeps the promise of its closing assertion, that a call which
\* does not fail leaves the context established or asks for more, as long as the
\* acceptor can write its replay cache: otherwise a response with another minor
\* status is made (init_sec_context.c:391, violated in a run with "update").
THEOREM ReturnConsistent ==
    ASSUME "update" \notin Faults
    PROVE Spec => []InitReturnConsistent
  <1> DEFINE NoOther == \A r \in netA : r.minor # "OTHER"
             Inv == NoOther /\ InitReturnConsistent
  <1>1. Init => Inv
    BY DEF Init, InitReturnConsistent, NoInitContext
  <1>2. TypeInv /\ KeysInv /\ Inv /\ [Next]_vars => Inv'
    <2> SUFFICES ASSUME TypeInv, KeysInv, Inv, [Next]_vars PROVE Inv'
      OBVIOUS
    <2>1. ASSUME NEW i \in Initiators, InitStep(i) \/ DeleteInit(i)
          PROVE Inv'
      <3>f. netA' = netA /\ \A j \in Initiators : j # i => ini'[j] = ini[j]
        BY <2>1, InitFrame
      <3>1. ASSUME NEW r \in netA, InitMinorStatus(i, r)
            PROVE FALSE
        BY <3>1 DEF InitMinorStatus
      <3>2. ASSUME NEW r \in netA, InitEstablish(i, r)
            PROVE ini'[i].ret = "COMPLETE" => ini'[i].state = "ESTABLISHED"
        BY <3>2, EstablishEffect
      <3>3. ini'[i].ret = "COMPLETE" => ini'[i].state = "ESTABLISHED"
        BY <2>1, <3>1, <3>2, InitEffect
      <3> QED
        BY <3>f, <3>3 DEF InitReturnConsistent
    <2>2. ASSUME NEW a \in Acceptors,
                 AcceptSecContext(a) \/ AcceptDefective(a) \/ DeleteAccept(a)
          PROVE Inv'
      <3>f. ini' = ini
        BY <2>2, AcceptFrame
      <3>1. /\ \A renew : ResponseOf(a, "OK", renew).minor # "OTHER"
            /\ \A m : ReauthFailedResponse(a, m).minor # "OTHER"
        BY DEF ResponseOf, ReauthFailedResponse
      <3>2. \A m \in netI : AcceptReauthFailed(a, m) =>
                              netA' = netA \cup {ReauthFailedResponse(a, m)}
        BY DEF AcceptReauthFailed
      <3>3. NoOther'
        BY <2>2, <3>1, <3>2, AcceptEffect
      <3> QED
        BY <3>f, <3>3 DEF InitReturnConsistent
    <2>3. CASE (\E x \in Aid : Expire(x) \/ LoseEntry(x)) \/ PurgeReplayCache
      BY <2>3, EnvFrame DEF InitReturnConsistent
    <2>4. CASE UNCHANGED vars
      BY <2>4 DEF vars, InitReturnConsistent
    <2> QED
      BY <2>1, <2>2, <2>3, <2>4 DEF Next
  <1>3. Inv => InitReturnConsistent
    OBVIOUS
  <1> HIDE DEF Inv
  <1> QED
    BY <1>1, <1>2, <1>3, TypeInvCorrect, KeysInvariant, PTL DEF Spec

-----------------------------------------------------------------------------
(***************************************************************************)
(* Mutual authentication.                                                  *)
(***************************************************************************)

\* More responses ground more keys, and a key grounds those derived from it.
LEMMA GroundedFacts ==
    /\ netA \subseteq netA' => \A k : Grounded(k) => Grounded(k)'
    /\ \A k \in Key, x \in Aid : Grounded(k) => Grounded(AuthenticatorSessionKey(k, x))
    /\ \A k \in Key : Grounded(k) => Grounded(SessionSubkey(k, "ARK"))
    /\ \A k \in Key, a \in Acceptors : Grounded(k) => Grounded(XRTKey(k, a))
  <1>1. netA \subseteq netA' => \A k : Grounded(k) => Grounded(k)'
    BY DEF Grounded, Root
  <1> QED
    BY <1>1, RootFacts DEF Grounded

\* The secret of a response that proves the acceptor's identity, or of a re-authentication
\* with a ticket from one, descends from such a response.
LEMMA EstablishGrounded ==
    ASSUME TypeInv, KeysInv, GroundedInv, NEW i \in Initiators, NEW r \in netA,
           InitEstablish(i, r), InitialMutual(i, r)
    PROVE Grounded(acc[r.from].secret)
  <1>1. /\ ini[i].ret = "CONTINUE_NEEDED" /\ r.minor = "OK" /\ r.re = ini[i].aid
        /\ SecretWith(i, r) = acc[r.from].secret
    BY ResponseSecret, EstablishEffect, ZenonT(60) DEF InitEstablish
  <1>2. r.from \in Acceptors /\ ini[i].aid \in Aid
    BY EstablishEffect DEF TypeInv, RestOK, Response
  <1>3. CASE ini[i].reauth
    <2>1. Grounded(ini[i].secret)
      BY <1>1, <1>3 DEF GroundedInv, InitialMutual
    <2> QED
      BY <1>1, <2>1 DEF SecretWith, Grounded
  <1>4. CASE ~ini[i].reauth
    <2>1. acc[r.from].secret = DH(ini[i].aid, r.from)
      BY <1>1, <1>4 DEF KeysInv, WaitingInv, SecretWith
    <2> QED
      BY <1>1, <1>2, <1>4, <2>1, RootFacts DEF InitialMutual, Grounded
  <1> QED
    BY <1>3, <1>4

\* An initiator's steps hand the proof down.
LEMMA InitStepGrounded ==
    ASSUME TypeInv, KeysInv, GroundedInv, NEW i \in Initiators, InitStep(i) \/ DeleteInit(i)
    PROVE GroundedInv'
  <1>i. ini \in [Initiators -> InitContext] /\ ini[i] \in InitContext
    BY DEF TypeInv, InitOK
  <1>f. netA' = netA /\ \A j \in Initiators : j # i => ini'[j] = ini[j]
    BY InitFrame
  <1>g. \A k : Grounded(k)' <=> Grounded(k)
    BY <1>f DEF Grounded, Root
  <1> DEFINE New == /\ ini'[i].ret = "CONTINUE_NEEDED" /\ ini'[i].reauth /\ ini'[i].mutual =>
                        Grounded(ini'[i].secret)
                    /\ ini'[i].state = "ESTABLISHED" /\ ini'[i].mutual =>
                        Grounded(ini'[i].key)
  <1>q. ASSUME New, UNCHANGED tickets PROVE GroundedInv'
    BY <1>f, <1>g, <1>q DEF GroundedInv
  <1>1. ASSUME InitReauth(i) PROVE New /\ UNCHANGED tickets
    <2>1. PICK req \in Requests, t \in tickets :
            ini' = [ini EXCEPT ![i] =
                      [state |-> "AUTHENTICATE", req |-> req, reauth |-> TRUE,
                       mutual |-> t.mutual, aid |-> <<i, 1>>,
                       secret |-> AuthenticatorSessionKey(t.ark, <<i, 1>>),
                       key |-> NoKey, ret |-> "CONTINUE_NEEDED"]]
      BY <1>1 DEF InitReauth
    <2>2. /\ ini'[i].mutual = t.mutual /\ ini'[i].state = "AUTHENTICATE"
          /\ ini'[i].secret = AuthenticatorSessionKey(t.ark, <<i, 1>>)
      BY <1>i, <2>1
    <2>3. t.ark \in Key /\ (t.mutual => Grounded(t.ark))
      BY DEF TypeInv, RestOK, Ticket, GroundedInv
    <2>4. tickets' = tickets
      BY <1>1 DEF InitReauth
    <2> QED
      BY <2>2, <2>3, <2>4, AidFacts, GroundedFacts
  <1>2. ASSUME InitCert(i) PROVE New /\ UNCHANGED tickets
    <2>1. ini'[i].reauth = FALSE /\ ini'[i].state = "AUTHENTICATE"
      BY <1>2, <1>i DEF InitCert
    <2> QED
      BY <1>2, <2>1 DEF InitCert
  <1>3. ASSUME NEW r \in netA, InitRetry(i, r)
        PROVE New /\ UNCHANGED tickets
    <2>1. \/ ini'[i].reauth = FALSE /\ ini'[i].state = "RETRY_AUTHENTICATE"
          \/ ini'[i].state = "RELEASED" /\ ini'[i].ret = "FAILURE"
      BY <1>3, <1>i DEF InitRetry, InitReleased, InitContext
    <2> QED
      BY <1>3, <2>1 DEF InitRetry
  <1>4. ASSUME UNCHANGED tickets, ini'[i].ret # "CONTINUE_NEEDED", ini'[i].state # "ESTABLISHED"
        PROVE New
    BY <1>4
  <1>5. ASSUME NEW r \in netA, InitEstablish(i, r)
        PROVE GroundedInv'
    <2> DEFINE s == acc[r.from].secret
    <2>1. InitialMutual(i, r) => Grounded(s)
      BY <1>5, EstablishGrounded
    <2>2. s \in Key /\ r.from \in Acceptors
      BY DEF TypeInv, RestOK, Response, AcceptOK, AcceptContext
    <2>3. New
      <3>1. Grounded(s) => Grounded(SessionKey(r.from, r.jti))
        BY <2>2, GroundedFacts DEF SessionKey
      <3> QED
        BY <1>5, <2>1, <3>1, EstablishEffect
    <2>4. ASSUME NEW t \in tickets', t \notin tickets
          PROVE t.ark # NoKey /\ (t.mutual => Grounded(t.ark))
      <3>1. t = [tid |-> ini[i].aid, mutual |-> InitialMutual(i, r),
                 ark |-> SessionSubkey(s, "ARK")]
        BY <1>5, <2>4, EstablishEffect
      <3> QED
        BY <2>1, <2>2, <3>1, RootFacts, GroundedFacts
    <2> HIDE DEF New
    <2>5. \A t \in tickets' : t.ark # NoKey /\ (t.mutual => Grounded(t.ark))
      BY <2>4 DEF GroundedInv
    <2> USE DEF New
    <2> QED
      BY <1>f, <1>g, <2>3, <2>5 DEF GroundedInv
  <1>6. ASSUME NEW r \in netA, InitMinorStatus(i, r)
        PROVE New /\ UNCHANGED tickets
    <2>1. /\ ini'[i].state = ini[i].state /\ ini'[i].ret = "COMPLETE"
          /\ ini[i].ret = "CONTINUE_NEEDED" /\ UNCHANGED tickets
      BY <1>6, <1>i DEF InitMinorStatus, Receives, InitContext
    <2> QED
      BY <2>1 DEF KeysInv, WaitingInv
  <1>7. ASSUME NEW r \in netA, InitSpin(i, r) \/ InitReject(i, r)
        PROVE New /\ UNCHANGED tickets
    BY <1>7, <1>i DEF InitSpin, InitReject, InitReleased, InitContext
  <1>8. ASSUME InitAcquireFails(i) \/ DeleteInit(i)
        PROVE New /\ UNCHANGED tickets
    BY <1>8, <1>i DEF InitAcquireFails, DeleteInit, InitReleased, InitContext
  <1> HIDE DEF New
  <1> QED
    BY <1>q, <1>1, <1>2, <1>3, <1>5, <1>6, <1>7, <1>8 DEF InitStep, InitResponseToken

\* GSS_C_MUTUAL_FLAG is never reported without a certificate at the root of the chain of
\* tickets the context's key comes from, whatever fails and however tokens travel.
THEOREM MutualAuthentication == Spec => []MutualGrounded
  <1>1. Init => GroundedInv
    BY DEF Init, GroundedInv, NoInitContext
  <1>2. TypeInv /\ KeysInv /\ GroundedInv /\ [Next]_vars => GroundedInv'
    <2> SUFFICES ASSUME TypeInv, KeysInv, GroundedInv, [Next]_vars PROVE GroundedInv'
      OBVIOUS
    <2>1. ASSUME NEW a \in Acceptors,
                 AcceptSecContext(a) \/ AcceptDefective(a) \/ DeleteAccept(a)
          PROVE GroundedInv'
      BY <2>1, AcceptFrame, GroundedFacts DEF GroundedInv
    <2>2. CASE (\E x \in Aid : Expire(x) \/ LoseEntry(x)) \/ PurgeReplayCache
      BY <2>2, EnvFrame, GroundedFacts DEF GroundedInv
    <2>3. CASE UNCHANGED vars
      BY <2>3, GroundedFacts DEF vars, GroundedInv
    <2> QED
      BY <2>1, <2>2, <2>3, InitStepGrounded DEF Next
  <1>3. GroundedInv => MutualGrounded
    BY DEF GroundedInv, MutualGrounded, Grounded
  <1> QED
    BY <1>1, <1>2, <1>3, TypeInvCorrect, KeysInvariant, PTL DEF Spec

-----------------------------------------------------------------------------
(***************************************************************************)
(* Tickets.                                                                *)
(***************************************************************************)

\* Over reliable connections no acceptor's step gives a context the initiator of another.
LEMMA AcceptStepBound ==
    ASSUME ~Unreliable, TypeInv, BoundInv, NEW a \in Acceptors,
           AcceptSecContext(a) \/ AcceptDefective(a) \/ DeleteAccept(a)
    PROVE BoundInv'
  <1>i. acc \in [Acceptors -> AcceptContext] /\ acc[a] \in AcceptContext
    BY DEF TypeInv, AcceptOK
  <1>f. \A b \in Acceptors : b # a => acc'[b] = acc[b]
    BY AcceptFrame
  <1>1. ASSUME NEW m \in netI, Offered(a, m), acc'[a].aid = m.aid
        PROVE BoundInv'
    BY <1>f, <1>1 DEF BoundInv, Offered, Connected
  <1>2. ASSUME acc'[a].aid = acc[a].aid
        PROVE BoundInv'
    BY <1>f, <1>2 DEF BoundInv
  <1>3. ASSUME NEW m \in netI, AcceptReauthFailed(a, m)
        PROVE Offered(a, m) /\ acc'[a].aid = m.aid
    BY <1>3, <1>i DEF AcceptReauthFailed, AcceptContext
  <1>4. ASSUME NEW m \in netI, VerifyBegin(a, m)
        PROVE Offered(a, m) /\ acc'[a].aid = m.aid
    BY <1>4, BeginVerified DEF VerifyBegin
  <1>5. ASSUME NEW m \in netI, AcceptReject(a, m)
        PROVE Offered(a, m) /\ acc'[a].aid = m.aid
    BY <1>5, <1>i DEF AcceptReject, AcceptReleased, AcceptContext
  <1>6. ASSUME VerifyEnd(a) \/ UpdateFails(a) \/ \E t \in netX : AcceptXRT(a, t)
        PROVE acc'[a].aid = acc[a].aid
    <2>1. acc[a].state \in {"VERIFYING", "EXTRA_ROUND_TRIP"}
      BY <1>6 DEF VerifyEnd, UpdateFails, AcceptXRT
    <2> QED
      BY <2>1, VerifiedStays
  <1>7. ASSUME AcceptDefective(a) \/ DeleteAccept(a)
        PROVE acc'[a].aid = acc[a].aid
    BY <1>7, <1>i DEF AcceptDefective, DeleteAccept, AcceptReleased, AcceptContext
  <1> QED
    BY <1>1, <1>2, <1>3, <1>4, <1>5, <1>6, <1>7 DEF AcceptSecContext

\* A ticket that an initiator's step stores is that of the response it takes.
LEMMA InitStepNewTicket ==
    ASSUME TypeInv, KeysInv, NEW i \in Initiators, InitStep(i) \/ DeleteInit(i),
           NEW t \in tickets', t \notin tickets
    PROVE \E r \in netA : /\ r.minor = "OK" /\ r.tkt /\ r.re = t.tid
                          /\ t.ark = SessionSubkey(acc[r.from].secret, "ARK")
  <1>1. PICK r \in netA : InitEstablish(i, r)
    BY InitEffect
  <1>2. /\ r.minor = "OK" /\ r.tkt /\ r.re = ini[i].aid
        /\ t = [tid |-> ini[i].aid, mutual |-> InitialMutual(i, r),
                ark |-> SessionSubkey(acc[r.from].secret, "ARK")]
    BY <1>1, EstablishEffect
  <1> QED
    BY <1>2

\* What each step of an acceptor writes of the replay cache, the overlaps and the
\* responses: but for the end of a verification, no entry and no response without error.
LEMMA AcceptWrites ==
    ASSUME NEW a \in Acceptors,
           AcceptSecContext(a) \/ AcceptDefective(a) \/ DeleteAccept(a)
    PROVE /\ UNCHANGED overlap \/ \E m \in netI : VerifyBegin(a, m)
          /\ \/ VerifyEnd(a)
             \/ /\ UNCHANGED rcache
                /\ \/ netA' = netA
                   \/ netA' = netA \cup {ResponseOf(a, "OTHER", FALSE)}
                   \/ \E m \in netI : netA' = netA \cup {ReauthFailedResponse(a, m)}
  <1>1. CASE \E m \in netI : AcceptReauthFailed(a, m)
    BY <1>1 DEF AcceptReauthFailed
  <1>2. CASE \E m \in netI : VerifyBegin(a, m)
    BY <1>2 DEF VerifyBegin
  <1>3. CASE \E m \in netI : AcceptReject(a, m)
    BY <1>3 DEF AcceptReject
  <1>4. CASE VerifyEnd(a)
    BY <1>4 DEF VerifyEnd
  <1>5. CASE UpdateFails(a)
    BY <1>5 DEF UpdateFails
  <1>6. CASE \E t \in netX : AcceptXRT(a, t)
    BY <1>6 DEF AcceptXRT
  <1>7. CASE AcceptDefective(a) \/ DeleteAccept(a)
    BY <1>7 DEF AcceptDefective, DeleteAccept
  <1> QED
    BY <1>1, <1>2, <1>3, <1>4, <1>5, <1>6, <1>7 DEF AcceptSecContext

\* Only the end of a verification outputs a response without an error.
LEMMA AcceptStepAnswers ==
    ASSUME NEW a \in Acceptors, ~VerifyEnd(a),
           AcceptSecContext(a) \/ AcceptDefective(a) \/ DeleteAccept(a)
    PROVE \A r \in netA' : r \in netA \/ r.minor # "OK"
  <1>1. /\ ResponseOf(a, "OTHER", FALSE).minor = "OTHER"
        /\ \A m : ReauthFailedResponse(a, m).minor = "REAUTH_FAILED"
    BY DEF ResponseOf, ReauthFailedResponse
  <1> QED
    BY <1>1, AcceptWrites

\* The entry an acceptor context writes into the replay cache agrees with the response
\* it makes, and with no other: the assertion has been answered by no other context.
LEMMA AcceptStepTicket ==
    ASSUME TypeInv, KeysInv, BoundInv, TicketInv, NEW a \in Acceptors,
           AcceptSecContext(a) \/ AcceptDefective(a) \/ DeleteAccept(a)
    PROVE TicketInv'
  <1> DEFINE ARK(r) == SessionSubkey(acc[r.from].secret, "ARK")
             Fits(r) == r.re \in DOMAIN rcache => rcache[r.re].ark = ARK(r)
  <1>f. UNCHANGED tickets /\ netA \subseteq netA'
    BY AcceptFrame
  <1>o. /\ \A r \in netA : r.minor = "OK" /\ r.tkt => Fits(r)
        /\ \A t \in tickets :
             \E r \in netA : r.minor = "OK" /\ r.tkt /\ r.re = t.tid /\ t.ark = ARK(r)
    BY DEF TicketInv
  <1>r. ASSUME NEW r \in netA, r.minor = "OK"
        PROVE /\ r.from \in Acceptors /\ acc[r.from].aid = r.re /\ r.re \in Aid
              /\ acc[r.from].state \in {"EXTRA_ROUND_TRIP", "ESTABLISHED", "RELEASED"}
              /\ ARK(r)' = ARK(r)
    <2>1. /\ r.from \in Acceptors /\ acc[r.from].aid = r.re /\ r.re \in Aid
          /\ acc[r.from].state \in {"EXTRA_ROUND_TRIP", "ESTABLISHED", "RELEASED"}
      BY <1>r DEF KeysInv, ResponseInv, TypeInv, RestOK, Response
    <2> QED
      BY <2>1, VerifiedStays
  <1>1. \A t \in tickets' : \E r \in netA' : /\ r.minor = "OK" /\ r.tkt /\ r.re = t.tid
                                             /\ t.ark = ARK(r)'
    BY <1>f, <1>o, <1>r
  <1>2. ASSUME UNCHANGED rcache
        PROVE \A r \in netA : r.minor = "OK" /\ r.tkt => Fits(r)'
    BY <1>o, <1>r, <1>2
  <1>3. ASSUME VerifyEnd(a)
        PROVE \A r \in netA : r.minor = "OK" /\ r.tkt => Fits(r)'
    <2>1. PICK e : rcache' = Put(rcache, acc[a].aid, e)
      BY <1>3 DEF VerifyEnd
    <2>2. ASSUME NEW r \in netA, r.minor = "OK"
          PROVE r.re # acc[a].aid
      <3>1. acc[a].state = "VERIFYING"
        BY <1>3 DEF VerifyEnd
      <3>2. acc[a].aid \in Aid
        BY <3>1 DEF KeysInv, VerifiedInv, Verified
      <3>3. NoAid \notin Aid
        BY DEF Aid, NoAid
      <3> QED
        BY <1>r, <2>2, <3>1, <3>2, <3>3 DEF BoundInv
    <2>3. ASSUME NEW x, x # acc[a].aid, x \in DOMAIN rcache'
          PROVE x \in DOMAIN rcache /\ rcache'[x] = rcache[x]
      BY <2>1, <2>3 DEF Put
    <2> QED
      BY <1>o, <1>r, <2>2, <2>3
  <1>4. UNCHANGED rcache \/ VerifyEnd(a)
    BY AcceptWrites
  <1>5. ASSUME VerifyEnd(a), NEW renew \in BOOLEAN,
               rcache' = Put(rcache, acc[a].aid, EntryOf(a, renew)),
               NEW r, r = ResponseOf(a, "OK", renew), r.tkt
        PROVE Fits(r)'
    <2>1. r.from = a /\ r.re = acc[a].aid /\ renew
      BY <1>5 DEF ResponseOf
    <2>2. rcache'[acc[a].aid].ark = SessionSubkey(acc[a].secret, "ARK")
      BY <1>5, <2>1 DEF Put, EntryOf
    <2>3. acc[a].state = "VERIFYING"
      BY <1>5 DEF VerifyEnd
    <2>4. acc'[a].secret = acc[a].secret
      BY <2>3, VerifiedStays
    <2> QED
      BY <2>1, <2>2, <2>4
  <1>6. \A r \in netA' : r.minor = "OK" /\ r.tkt => Fits(r)'
    <2>1. CASE VerifyEnd(a)
      <3>1. PICK renew \in BOOLEAN :
              /\ rcache' = Put(rcache, acc[a].aid, EntryOf(a, renew))
              /\ netA' \subseteq netA \cup {ResponseOf(a, "OK", renew)}
        BY <2>1 DEF VerifyEnd, Renewals
      <3> HIDE DEF Fits
      <3> QED
        BY <1>3, <1>5, <2>1, <3>1
    <2>2. CASE ~VerifyEnd(a)
      <3>1. \A r \in netA' : r \in netA \/ r.minor # "OK"
        BY <2>2, AcceptStepAnswers
      <3> HIDE DEF Fits
      <3> QED
        BY <1>2, <1>4, <2>2, <3>1
    <2> QED
      BY <2>1, <2>2
  <1> QED
    BY <1>1, <1>6 DEF TicketInv

\* Over reliable connections the two ends of a chain of re-authentications agree on the
\* session key and on the key of the next ticket, whatever else fails: the entry that
\* _BIDUpdateReplayCache writes and the ticket that _BIDStoreTicketInCache stores come
\* from one secret, and no later verification overwrites the entry.
THEOREM ChainAgreement ==
    ASSUME ~Unreliable
    PROVE Spec => []ChainKeysAgree
  <1>1. Init => BoundInv /\ TicketInv
    BY DEF Init, BoundInv, TicketInv, NoAcceptContext
  <1>2. TypeInv /\ KeysInv /\ BoundInv /\ TicketInv /\ [Next]_vars => (BoundInv /\ TicketInv)'
    <2> SUFFICES ASSUME TypeInv, KeysInv, BoundInv, TicketInv, [Next]_vars
                 PROVE (BoundInv /\ TicketInv)'
      OBVIOUS
    <2>1. ASSUME NEW i \in Initiators, InitStep(i) \/ DeleteInit(i)
          PROVE (BoundInv /\ TicketInv)'
      <3>1. UNCHANGED <<acc, netA, rcache>>
        BY <2>1, InitFrame
      <3>2. ASSUME NEW t \in tickets', t \notin tickets
            PROVE \E r \in netA : /\ r.minor = "OK" /\ r.tkt /\ r.re = t.tid
                                  /\ t.ark = SessionSubkey(acc[r.from].secret, "ARK")
        BY <2>1, <3>2, InitStepNewTicket
      <3> QED
        BY <3>1, <3>2 DEF BoundInv, TicketInv
    <2>2. ASSUME NEW a \in Acceptors,
                 AcceptSecContext(a) \/ AcceptDefective(a) \/ DeleteAccept(a)
          PROVE (BoundInv /\ TicketInv)'
      BY <2>2, AcceptStepBound, AcceptStepTicket
    <2>3. CASE (\E x \in Aid : Expire(x) \/ LoseEntry(x)) \/ PurgeReplayCache
      BY <2>3, EnvFrame DEF BoundInv, TicketInv
    <2>4. CASE UNCHANGED vars
      BY <2>4 DEF vars, BoundInv, TicketInv
    <2> QED
      BY <2>1, <2>2, <2>3, <2>4 DEF Next
  <1>3. TicketInv => TicketKeysAgree
    BY DEF TicketInv, TicketKeysAgree
  <1>4. KeysAgree /\ TicketKeysAgree => ChainKeysAgree
    BY DEF ChainKeysAgree
  <1> QED
    BY <1>1, <1>2, <1>3, <1>4, TypeInvCorrect, KeysInvariant, KeysAgreement, PTL DEF Spec
-----------------------------------------------------------------------------
(***************************************************************************)
(* Tickets when tokens are duplicated and misdirected.                     *)
(***************************************************************************)

\* A context has a secret only once it has verified an assertion.
FreshInv ==
    \A a \in Acceptors : acc[a].state \in {"INITIAL", "RETRY_INITIAL"} => acc[a].secret = NoKey

\* As TicketInv, with the exception of assertions that were verified again.
RepeatInv ==
    /\ FreshInv
    /\ \A r \in netA :
         r.minor = "OK" /\ r.tkt /\ r.re \in DOMAIN rcache =>
            \/ rcache[r.re].ark = SessionSubkey(acc[r.from].secret, "ARK")
            \/ Repeated(r.re)
    /\ \A t \in tickets :
         \E r \in netA : /\ r.minor = "OK" /\ r.tkt /\ r.re = t.tid
                         /\ t.ark = SessionSubkey(acc[r.from].secret, "ARK")

\* An acceptor's step gives a secret to the context that verifies, and none otherwise.
LEMMA AcceptStepFresh ==
    ASSUME TypeInv, FreshInv, NEW a \in Acceptors,
           AcceptSecContext(a) \/ AcceptDefective(a) \/ DeleteAccept(a)
    PROVE FreshInv'
  <1>i. acc \in [Acceptors -> AcceptContext] /\ acc[a] \in AcceptContext
    BY DEF TypeInv, AcceptOK
  <1>f. \A b \in Acceptors : b # a => acc'[b] = acc[b]
    BY AcceptFrame
  <1>1. CASE \E m \in netI : AcceptReauthFailed(a, m)
    BY <1>1, <1>i, <1>f DEF AcceptReauthFailed, Offered, FreshInv, AcceptContext
  <1>2. CASE ~ \E m \in netI : AcceptReauthFailed(a, m)
    <2>1. acc'[a].state \notin {"INITIAL", "RETRY_INITIAL"}
      BY <1>2, AcceptEffect
    <2> QED
      BY <2>1, <1>f DEF FreshInv
  <1> QED
    BY <1>1, <1>2

\* What a context has verified, and with what it overlapped, is not taken back.
LEMMA RepeatedStays ==
    ASSUME TypeInv, FreshInv, NEW a \in Acceptors,
           AcceptSecContext(a) \/ AcceptDefective(a) \/ DeleteAccept(a), NEW x \in Aid
    PROVE Repeated(x) => Repeated(x)'
  <1>i. acc \in [Acceptors -> AcceptContext]
    BY DEF TypeInv, AcceptOK
  <1>1. ASSUME NEW b \in Verifiers(x)
        PROVE /\ b \in Acceptors /\ b \in Verifiers(x)'
              /\ acc'[b].xrt = acc[b].xrt /\ overlap'[b] = overlap[b]
    <2>1. /\ b \in Acceptors /\ acc[b].aid = x /\ acc[b].secret # NoKey
          /\ acc[b].state \in {"VERIFYING", "EXTRA_ROUND_TRIP", "ESTABLISHED", "RELEASED"}
      BY <1>i, <1>1 DEF Verifiers, FreshInv, AcceptContext, AcceptState
    <2>2. b \in Verifiers(x)' /\ acc'[b].xrt = acc[b].xrt
      BY <2>1, VerifiedStays DEF Verifiers
    <2>3. UNCHANGED overlap \/ \E m \in netI : VerifyBegin(a, m)
      BY AcceptWrites
    <2>4. ASSUME NEW m \in netI, VerifyBegin(a, m)
          PROVE overlap'[b] = overlap[b]
      <3>1. acc[a].state \in {"INITIAL", "RETRY_INITIAL"}
        BY <2>4 DEF VerifyBegin, Offered
      <3>2. b # a
        BY <2>1, <3>1
      <3>3. overlap \in [Acceptors -> SUBSET Acceptors]
        BY DEF TypeInv, RestOK
      <3> QED
        BY <2>1, <2>4, <3>2, <3>3 DEF VerifyBegin
    <2> QED
      BY <2>1, <2>2, <2>3, <2>4
  <1> QED
    BY <1>1 DEF Repeated, Raced

\* A context that is in the middle of verifying an assertion that another has answered
\* repeats it: without the extra round trip, the other's acceptance says that they
\* overlapped.
LEMMA AnsweredTwice ==
    ASSUME TypeInv, KeysInv, ReplayInv, NEW a \in Acceptors, acc[a].state = "VERIFYING",
           NEW r \in netA, r.minor = "OK", r.re = acc[a].aid
    PROVE Repeated(r.re)
  <1>1. /\ r.from \in Acceptors /\ Verified(r.from) /\ acc[r.from].aid = r.re
        /\ acc[r.from].state \in {"EXTRA_ROUND_TRIP", "ESTABLISHED", "RELEASED"}
        /\ r.jti = acc[r.from].xrt
        /\ ~r.jti => \E e \in accepted : e.acc = r.from
    BY DEF KeysInv, ResponseInv, TypeInv, RestOK, Response
  <1>2. Verified(a)
    BY DEF KeysInv, VerifiedInv
  <1>3. a \in Verifiers(r.re) /\ r.from \in Verifiers(r.re) /\ a # r.from
    BY <1>1, <1>2, VerifiedFacts DEF Verifiers
  <1>4. CASE acc[a].xrt
    BY <1>3, <1>4 DEF Repeated
  <1>5. CASE ~acc[a].xrt
    <2>1. ~acc[r.from].xrt
      BY <1>1, <1>2, <1>5 DEF Verified, KeysInv, OnceInv
    <2>2. PICK e \in accepted : e.acc = r.from
      BY <1>1, <2>1
    <2>3. e.aid = acc[a].aid
      BY <1>1, <2>2 DEF KeysInv, AcceptanceInv
    <2>4. Raced(a, r.from)
      BY <1>5, <2>2, <2>3 DEF ReplayInv, RaceInv
    <2> QED
      BY <1>3, <2>4 DEF Repeated
  <1> QED
    BY <1>4, <1>5

\* An acceptor's step keeps RepeatInv: the entry it writes is that of its own response,
\* or is written over that of another context which answered the same assertion.
LEMMA AcceptStepRepeat ==
    ASSUME TypeInv, KeysInv, ReplayInv, RepeatInv, NEW a \in Acceptors,
           AcceptSecContext(a) \/ AcceptDefective(a) \/ DeleteAccept(a)
    PROVE RepeatInv'
  <1> DEFINE ARK(r) == SessionSubkey(acc[r.from].secret, "ARK")
             Fits(r) == r.re \in DOMAIN rcache => rcache[r.re].ark = ARK(r) \/ Repeated(r.re)
  <1>f. UNCHANGED tickets /\ netA \subseteq netA'
    BY AcceptFrame
  <1>o. /\ \A r \in netA : r.minor = "OK" /\ r.tkt => Fits(r)
        /\ \A t \in tickets :
             \E r \in netA : r.minor = "OK" /\ r.tkt /\ r.re = t.tid /\ t.ark = ARK(r)
    BY DEF RepeatInv
  <1>r. ASSUME NEW r \in netA, r.minor = "OK"
        PROVE /\ r.from \in Acceptors /\ r.re \in Aid /\ ARK(r)' = ARK(r)
              /\ Repeated(r.re) => Repeated(r.re)'
    <2>1. /\ r.from \in Acceptors /\ r.re \in Aid
          /\ acc[r.from].state \in {"EXTRA_ROUND_TRIP", "ESTABLISHED", "RELEASED"}
      BY <1>r DEF KeysInv, ResponseInv, TypeInv, RestOK, Response
    <2> QED
      BY <2>1, VerifiedStays, RepeatedStays DEF RepeatInv
  <1>1. \A t \in tickets' : \E r \in netA' : /\ r.minor = "OK" /\ r.tkt /\ r.re = t.tid
                                             /\ t.ark = ARK(r)'
    BY <1>f, <1>o, <1>r
  <1>2. ASSUME UNCHANGED rcache
        PROVE \A r \in netA : r.minor = "OK" /\ r.tkt => Fits(r)'
    BY <1>o, <1>r, <1>2
  <1>3. ASSUME VerifyEnd(a)
        PROVE \A r \in netA : r.minor = "OK" /\ r.tkt => Fits(r)'
    <2>1. PICK e : rcache' = Put(rcache, acc[a].aid, e)
      BY <1>3 DEF VerifyEnd
    <2>2. ASSUME NEW r \in netA, r.minor = "OK", r.re = acc[a].aid
          PROVE Repeated(r.re)
      BY <1>3, <2>2, AnsweredTwice DEF VerifyEnd
    <2>3. ASSUME NEW x, x # acc[a].aid, x \in DOMAIN rcache'
          PROVE x \in DOMAIN rcache /\ rcache'[x] = rcache[x]
      BY <2>1, <2>3 DEF Put
    <2> QED
      BY <1>o, <1>r, <2>2, <2>3
  <1>4. UNCHANGED rcache \/ VerifyEnd(a)
    BY AcceptWrites
  <1>5. ASSUME VerifyEnd(a), NEW renew \in BOOLEAN,
               rcache' = Put(rcache, acc[a].aid, EntryOf(a, renew)),
               NEW r, r = ResponseOf(a, "OK", renew), r.tkt
        PROVE Fits(r)'
    <2>1. r.from = a /\ r.re = acc[a].aid /\ renew
      BY <1>5 DEF ResponseOf
    <2>2. rcache'[acc[a].aid].ark = SessionSubkey(acc[a].secret, "ARK")
      BY <1>5, <2>1 DEF Put, EntryOf
    <2>3. acc[a].state = "VERIFYING"
      BY <1>5 DEF VerifyEnd
    <2>4. acc'[a].secret = acc[a].secret
      BY <2>3, VerifiedStays
    <2> QED
      BY <2>1, <2>2, <2>4
  <1>6. \A r \in netA' : r.minor = "OK" /\ r.tkt => Fits(r)'
    <2>1. CASE VerifyEnd(a)
      <3>1. PICK renew \in BOOLEAN :
              /\ rcache' = Put(rcache, acc[a].aid, EntryOf(a, renew))
              /\ netA' \subseteq netA \cup {ResponseOf(a, "OK", renew)}
        BY <2>1 DEF VerifyEnd, Renewals
      <3> HIDE DEF Fits
      <3> QED
        BY <1>3, <1>5, <2>1, <3>1
    <2>2. CASE ~VerifyEnd(a)
      <3>1. \A r \in netA' : r \in netA \/ r.minor # "OK"
        BY <2>2, AcceptStepAnswers
      <3> HIDE DEF Fits
      <3> QED
        BY <1>2, <1>4, <2>2, <3>1
    <2> QED
      BY <2>1, <2>2
  <1> QED
    BY <1>1, <1>6, AcceptStepFresh DEF RepeatInv

\* However tokens travel and whatever fails, the two halves of a ticket disagree only if
\* the assertion it stands for was verified a second time: an entry of the replay cache
\* is written by VerifyEnd alone, under the verified assertion, and a verification that
\* begins after that is refused unless it asks for the extra round trip.
THEOREM TicketsOverwritten ==
    ASSUME "lose" \notin Faults, "lookup" \notin Faults
    PROVE Spec => []OverwrittenOnlyByRepeat
  <1>1. Init => RepeatInv
    BY DEF Init, RepeatInv, FreshInv, NoAcceptContext
  <1>2. TypeInv /\ KeysInv /\ ReplayInv /\ RepeatInv /\ [Next]_vars => RepeatInv'
    <2> SUFFICES ASSUME TypeInv, KeysInv, ReplayInv, RepeatInv, [Next]_vars
                 PROVE RepeatInv'
      OBVIOUS
    <2>o. ASSUME UNCHANGED <<acc, overlap>>, NEW x
          PROVE Repeated(x)' = Repeated(x)
      BY <2>o DEF Repeated, Verifiers, Raced
    <2>1. ASSUME NEW i \in Initiators, InitStep(i) \/ DeleteInit(i)
          PROVE RepeatInv'
      <3>1. UNCHANGED <<acc, netA, rcache, overlap>>
        BY <2>1, InitFrame
      <3>2. ASSUME NEW t \in tickets', t \notin tickets
            PROVE \E r \in netA : /\ r.minor = "OK" /\ r.tkt /\ r.re = t.tid
                                  /\ t.ark = SessionSubkey(acc[r.from].secret, "ARK")
        BY <2>1, <3>2, InitStepNewTicket
      <3> QED
        BY <2>o, <3>1, <3>2 DEF RepeatInv, FreshInv
    <2>2. ASSUME NEW a \in Acceptors,
                 AcceptSecContext(a) \/ AcceptDefective(a) \/ DeleteAccept(a)
          PROVE RepeatInv'
      BY <2>2, AcceptStepRepeat
    <2>3. CASE (\E x \in Aid : Expire(x) \/ LoseEntry(x)) \/ PurgeReplayCache
      <3>1. UNCHANGED overlap
        BY <2>3 DEF Expire, LoseEntry, PurgeReplayCache
      <3> QED
        BY <2>3, <2>o, <3>1, EnvFrame DEF RepeatInv, FreshInv
    <2>4. CASE UNCHANGED vars
      BY <2>4, <2>o DEF vars, RepeatInv, FreshInv
    <2> QED
      BY <2>1, <2>2, <2>3, <2>4 DEF Next
  <1>3. RepeatInv => OverwrittenOnlyByRepeat
    BY DEF RepeatInv, OverwrittenOnlyByRepeat
  <1> QED
    BY <1>1, <1>2, <1>3, TypeInvCorrect, KeysInvariant, ReplayInvariant, PTL DEF Spec
=============================================================================
