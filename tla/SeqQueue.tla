------------------------------ MODULE SeqQueue ------------------------------
(***************************************************************************)
(* The queue of received sequence numbers of a context (util_ordering.c):  *)
(* a ring of QSize numbers, each stored as the difference, modulo 2^Width, *)
(* to the first expected number.                                           *)
(***************************************************************************)
EXTENDS Integers, FiniteSetsExt

CONSTANTS
    QSize,       \* QUEUE_LENGTH, 20 in the code
    Width,       \* bits of a sequence number, 64 in the code
    DoReplay,    \* GSS_C_REPLAY_FLAG of the context
    DoSequence   \* GSS_C_SEQUENCE_FLAG of the context

Mask == 2^Width - 1
SeqNum == 0 .. Mask
TopBit == 2^(Width - 1)

\* The last conjunct is what the proofs need to know of powers of 2.
ASSUME SeqQueueAssumption ==
    /\ QSize \in Nat \ {0}
    /\ Width \in Nat \ {0}
    /\ DoReplay \in BOOLEAN
    /\ DoSequence \in BOOLEAN
    /\ TopBit \in Nat \ {0} /\ 2^Width = 2 * TopBit

Queue == [start : 0 .. QSize - 1, length : 1 .. QSize, elem : [0 .. QSize - 1 -> SeqNum]]
Verdict == {"COMPLETE", "GAP", "UNSEQ", "OLD", "DUPLICATE", "FAILURE"}

QElem(q, i) == q.elem[i % QSize]
LastPos(q) == q.start + q.length - 1

\* Before the first message the queue holds the number in front of it.
sequenceInit ==
    [start |-> 0, length |-> 1,
     elem |-> [s \in 0 .. QSize - 1 |-> IF s = 0 THEN Mask ELSE 0]]

\* The elements behind position after move up by one slot (in a full ring the
\* last of them lands on the first element), and seqnum fills the slot.
Shifted(q, after, seqnum) ==
    [s \in 0 .. QSize - 1 |->
        CASE s = (after + 1) % QSize -> seqnum
          [] \E p \in after + 2 .. LastPos(q) + 1 : p % QSize = s -> QElem(q, s + QSize - 1)
          [] OTHER -> q.elem[s]]

\* Wrong variant: a full ring keeps its start.
queue_insert_keeps_start(q, after, seqnum) ==
    [start |-> q.start,
     length |-> IF q.length = QSize THEN q.length ELSE q.length + 1,
     elem |-> Shifted(q, after, seqnum)]

\* The queue grows, or its start moves on: the oldest element is given up.
queue_insert(q, after, seqnum) ==
    [start |-> IF q.length = QSize THEN (q.start + 1) % QSize ELSE q.start,
     length |-> IF q.length = QSize THEN q.length ELSE q.length + 1,
     elem |-> Shifted(q, after, seqnum)]

\* Positions at which the search of rules 4 and 5 stops.
Hits(q, n) ==
    {i \in q.start .. LastPos(q) - 1 :
        n = QElem(q, i) \/ (n > QElem(q, i) /\ n < QElem(q, i + 1))}

\* The statuses differ by whether the context does sequencing or only replay
\* detection.
Unless(sequencing, replayOnly) ==
    IF DoReplay /\ ~DoSequence THEN replayOnly ELSE sequencing

Outcome(verdict, q) == [verdict |-> verdict, queue |-> q]

\* Wrong variant: a duplicate of the newest number only is noticed.
RuleFourFiveLastOnly(q, n) ==
    IF n = QElem(q, LastPos(q)) THEN Outcome("DUPLICATE", q)
    ELSE Outcome(Unless("UNSEQ", "COMPLETE"), q)

\* Rules 4 and 5: seqnum in [seqnum(first), seqnum(last)].
RuleFourFive(q, n) ==
    IF n = QElem(q, LastPos(q)) THEN Outcome("DUPLICATE", q)
    ELSE IF Hits(q, n) = {} THEN Outcome("FAILURE", q)
    ELSE LET i == Min(Hits(q, n)) IN
         IF n = QElem(q, i) THEN Outcome("DUPLICATE", q)
         ELSE Outcome(Unless("UNSEQ", "COMPLETE"), queue_insert(q, i, n))

sequenceCheck(q, n) ==
    LET expected == (QElem(q, LastPos(q)) + 1) % 2^Width IN
    IF ~DoReplay /\ ~DoSequence THEN Outcome("COMPLETE", q)
    ELSE IF n = expected THEN Outcome("COMPLETE", queue_insert(q, LastPos(q), n))
    ELSE IF n > expected
         THEN Outcome(Unless("GAP", "COMPLETE"), queue_insert(q, LastPos(q), n))
    ELSE IF n < QElem(q, q.start) /\ n >= TopBit THEN Outcome(Unless("UNSEQ", "OLD"), q)
    ELSE RuleFourFive(q, n)
=============================================================================
