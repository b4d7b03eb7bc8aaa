------------------------- MODULE MessageProtection -------------------------
(***************************************************************************)
(* Per-message protection over an established context: gss_wrap and        *)
(* gss_get_mic number their tokens, gss_unwrap and gss_verify_mic check    *)
(* the numbers, and a context may move to another process in between.  The *)
(* applications' transport may lose, reorder and duplicate tokens and may  *)
(* return them to their sender.  Checksums are ideal: a token that reaches *)
(* unwrapToken was made by gssBidWrapOrGetMIC with the context key.        *)
(***************************************************************************)
EXTENDS SeqQueue, FiniteSets

CONSTANT MaxSend   \* how many tokens each peer may send

Peers == {"initiator", "acceptor"}
Other(p) == IF p = "initiator" THEN "acceptor" ELSE "initiator"

\* Fewer than half of all numbers are used: a peer never sends 2^63 tokens.
ASSUME MaxSendAssumption ==
    /\ MaxSend \in [Peers -> Nat]
    /\ \A p \in Peers : MaxSend[p] <= TopBit

VARIABLES
    ctx,        \* context of each peer: sendSeq, seqState, and where it is
    net,        \* tokens sent
    recorded,   \* history: numbers each peer's queue has taken in
    last,       \* the last status of each peer's sequenceCheck
    returned    \* history: how often each token was returned to the application

vars == <<ctx, net, recorded, last, returned>>

Token == [from : Peers, seq : SeqNum]
Context == [sendSeq : SeqNum, seqState : Queue, place : {"live", "exported"}]

Init ==
    /\ ctx = [p \in Peers |->
                [sendSeq |-> 0, seqState |-> sequenceInit, place |-> "live"]]
    /\ net = {}
    /\ recorded = [p \in Peers |-> {}]
    /\ last = [p \in Peers |-> [seq |-> -1, verdict |-> "COMPLETE"]]
    /\ returned = [t \in {} |-> 0]

\* gssBidWrapOrGetMIC: the number goes into the token and is used up.
WrapOrGetMIC(p) ==
    /\ ctx[p].place = "live"
    /\ ctx[p].sendSeq < MaxSend[p]
    /\ net' = net \cup {[from |-> p, seq |-> ctx[p].sendSeq]}
    /\ ctx' = [ctx EXCEPT ![p].sendSeq = (@ + 1) % 2^Width]
    /\ UNCHANGED <<recorded, last, returned>>

\* Wrong variant: a status that is none of the supplementary ones passes.
IsErrorNever(verdict) == FALSE

\* The statuses GSS_ERROR is true of; the others are supplementary.
IsError(verdict) == verdict = "FAILURE"

\* The number of times token t has been returned with GSS_S_COMPLETE; the
\* count stops at 2.
Count(t) == IF t \in DOMAIN returned THEN returned[t] ELSE 0
Returned(t) == [u \in DOMAIN returned \cup {t} |-> IF u = t THEN Min({2, Count(t) + 1}) ELSE returned[u]]

\* unwrapToken.  A token that comes back to its sender is refused before its number
\* is looked at: at the initiator by its direction flag, at the acceptor, which asks
\* for no such flag, by the key usage.  Every status of sequenceCheck that is not an
\* error becomes GSS_S_COMPLETE.
UnwrapToken(p, t) ==
    LET c == sequenceCheck(ctx[p].seqState, t.seq) IN
    /\ ctx[p].place = "live"
    /\ t \in net
    /\ t.from = Other(p)
    /\ ctx' = [ctx EXCEPT ![p].seqState = c.queue]
    /\ recorded' = IF c.queue # ctx[p].seqState
                   THEN [recorded EXCEPT ![p] = @ \cup {t.seq}] ELSE recorded
    /\ last' = [last EXCEPT ![p] = [seq |-> t.seq, verdict |-> c.verdict]]
    /\ returned' = IF IsError(c.verdict) THEN returned ELSE Returned(t)
    /\ UNCHANGED net

\* gss_export_sec_context releases the context; gss_import_sec_context makes one
\* with the same counters and the same queue.
ExportSecContext(p) ==
    /\ ctx[p].place = "live"
    /\ ctx' = [ctx EXCEPT ![p].place = "exported"]
    /\ UNCHANGED <<net, recorded, last, returned>>

ImportSecContext(p) ==
    /\ ctx[p].place = "exported"
    /\ ctx' = [ctx EXCEPT ![p].place = "live"]
    /\ UNCHANGED <<net, recorded, last, returned>>

Next ==
    \E p \in Peers :
        \/ WrapOrGetMIC(p)
        \/ \E t \in net : UnwrapToken(p, t)
        \/ ExportSecContext(p)
        \/ ImportSecContext(p)

Spec == Init /\ [][Next]_vars

-----------------------------------------------------------------------------
\* Every variable holds a value of its kind, and the ring stays within its bounds.
TypeOK ==
    /\ ctx \in [Peers -> Context]
    /\ net \subseteq Token
    /\ recorded \in [Peers -> SUBSET SeqNum]
    /\ last \in [Peers -> [seq : SeqNum \cup {-1}, verdict : Verdict]]
    /\ DOMAIN returned \subseteq Token

\* The content of a ring from its oldest to its newest position; the number in
\* front of the first one counts as -1.
Content(q) ==
    [k \in 1 .. q.length |->
        LET e == QElem(q, q.start + k - 1) IN IF e = Mask THEN -1 ELSE e]

\* The rep invariant of util_ordering.c: "the first element is the oldest. The
\* last element is the newest."  The ring stays within its array, is sorted and
\* holds exactly the QSize newest of all the numbers it has ever taken in.
RepInvariant ==
    \A p \in Peers :
        LET c == Content(ctx[p].seqState)
            held == {c[k] : k \in DOMAIN c}
            all == recorded[p] \cup {-1}
        IN /\ ctx[p].seqState \in Queue
           /\ \A k \in DOMAIN c : k + 1 \in DOMAIN c => c[k] < c[k + 1]
           /\ held \subseteq all
           /\ Cardinality(held) = Min({QSize, Cardinality(all)})
           /\ \A n \in all \ held : \A h \in held : n < h

AtInitiator == INSTANCE ReplayWindow
    WITH Number <- SeqNum, recorded <- recorded["initiator"], last <- last["initiator"]
AtAcceptor == INSTANCE ReplayWindow
    WITH Number <- SeqNum, recorded <- recorded["acceptor"], last <- last["acceptor"]

\* sequenceCheck keeps the promise of ReplayWindow for each peer, whatever the
\* transport does and wherever the context moves: no number is recorded twice, no
\* new number is refused, and the status is the true one.
KeepsWindow == AtInitiator!Spec /\ AtAcceptor!Spec

\* util_context.c:122: replay detection is always available.  A token is returned
\* to the application with GSS_S_COMPLETE, and no other indication, once.
ReplayDetected == \A t \in DOMAIN returned : returned[t] = 1

\* A token is returned to the application again only while its number is in the
\* ring: unwrapToken refuses every older one.
ReplayOnlyInWindow ==
    [][\A t \in DOMAIN returned :
         returned'[t] > returned[t] =>
             \E i \in 0 .. QSize - 1 : ctx[Other(t.from)].seqState.elem[i] = t.seq]_vars
=============================================================================
