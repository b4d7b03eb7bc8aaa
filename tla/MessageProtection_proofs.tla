---------------------- MODULE MessageProtection_proofs -----------------------
(***************************************************************************)
(* Theorems about the ring of received sequence numbers and the peers that *)
(* use it, for any size of the ring, any width of the numbers and any      *)
(* number of tokens up to half of the numbers: the ring keeps the newest   *)
(* numbers in order, implements ReplayWindow, and lets a token through     *)
(* again only while it holds its number.                                   *)
(***************************************************************************)
EXTENDS MessageProtection, FiniteSetTheorems, TLAPS

\* The number in front of the first one is stored as all bits set.
Val(e) == IF e = Mask THEN -1 ELSE e
At(q, p) == Val(QElem(q, p))
Positions(q) == q.start .. LastPos(q)

\* Sorted; every number taken in is in the ring or older than all in the ring,
\* the latter only if the ring is full.
Sorted(q) == \A p, r \in Positions(q) : p < r => At(q, p) < At(q, r)
HoldsOnly(q, S) == \A p \in Positions(q) : At(q, p) \in S
HoldsNewest(q, S) ==
    \A n \in S : \/ \E p \in Positions(q) : At(q, p) = n
                 \/ q.length = QSize /\ n < At(q, q.start)
RingSound(q, taken) ==
    /\ q \in Queue /\ taken \subseteq Nat
    /\ Sorted(q)
    /\ HoldsOnly(q, taken \cup {-1})
    /\ HoldsNewest(q, taken \cup {-1})

-----------------------------------------------------------------------------
(***************************************************************************)
(* Positions modulo the size of the ring.                                  *)
(***************************************************************************)
LEMMA Powers ==
  /\ QSize \in Nat /\ QSize > 0
  /\ TopBit \in Nat /\ TopBit > 0
  /\ 2^Width = 2 * TopBit /\ 2^Width \in Nat
  /\ Mask = 2 * TopBit - 1 /\ Mask \in Nat /\ Mask >= TopBit
BY SeqQueueAssumption DEF Mask

LEMMA ModSmall == \A x \in 0 .. QSize - 1 : x % QSize = x
BY Powers

LEMMA ModWrap == \A x \in QSize .. 2 * QSize - 1 : x % QSize = x - QSize
BY Powers

LEMMA ModSlot == \A x \in 0 .. 2 * QSize - 1 : x % QSize \in 0 .. QSize - 1
BY Powers, ModSmall, ModWrap

\* Fewer than QSize positions apart, different slots.
LEMMA ModDistinct ==
  ASSUME NEW x \in 0 .. 2 * QSize - 1, NEW y \in 0 .. 2 * QSize - 1, x < y, y - x < QSize
  PROVE  x % QSize # y % QSize
BY Powers, ModSmall, ModWrap

\* The slot in front of the slot of p.
LEMMA ModPred ==
  ASSUME NEW p \in 1 .. 2 * QSize - 1
  PROVE  ((p % QSize) + QSize - 1) % QSize = (p - 1) % QSize
<1>1. CASE p < QSize
  <2>1. p % QSize = p /\ (p - 1) % QSize = p - 1
    BY <1>1, Powers, ModSmall
  <2>2. (p + QSize - 1) % QSize = p + QSize - 1 - QSize
    BY <1>1, Powers, ModWrap
  <2> QED
    BY <2>1, <2>2, Powers
<1>2. CASE p = QSize
  <2>1. p % QSize = 0 /\ (p - 1) % QSize = p - 1
    BY <1>2, Powers, ModSmall, ModWrap
  <2> QED
    BY <1>2, <2>1, Powers
<1>3. CASE p > QSize
  <2>1. p % QSize = p - QSize /\ (p - 1) % QSize = p - 1 - QSize
    BY <1>3, Powers, ModWrap
  <2>2. (p - QSize + QSize - 1) % QSize = p - QSize - 1
    BY <1>3, <2>1, Powers, ModWrap
  <2> QED
    BY <2>1, <2>2, Powers
<1> QED
  BY <1>1, <1>2, <1>3, Powers

LEMMA QueueFields ==
  ASSUME NEW q \in Queue
  PROVE  /\ q.start \in 0 .. QSize - 1 /\ q.length \in 1 .. QSize
         /\ q.elem \in [0 .. QSize - 1 -> SeqNum]
         /\ LastPos(q) = q.start + q.length - 1 /\ LastPos(q) \in 0 .. 2 * QSize - 2
         /\ q.start <= LastPos(q)
         /\ Positions(q) \subseteq 0 .. 2 * QSize - 2
         /\ q.start \in Positions(q) /\ LastPos(q) \in Positions(q)
<1>1. /\ q.start \in 0 .. QSize - 1 /\ q.length \in 1 .. QSize
      /\ q.elem \in [0 .. QSize - 1 -> SeqNum]
  BY DEF Queue
<1>2. LastPos(q) = q.start + q.length - 1
  BY DEF LastPos
<1> QED
  BY <1>1, <1>2, Powers, SMTT(30) DEF Positions

LEMMA ElemType ==
  ASSUME NEW q \in Queue, NEW p \in 0 .. 2 * QSize - 1
  PROVE  /\ QElem(q, p) \in SeqNum /\ QElem(q, p) \in Nat
         /\ At(q, p) \in Int /\ At(q, p) >= -1
<1>1. QElem(q, p) \in SeqNum
  BY QueueFields, ModSlot DEF QElem
<1> QED
  BY <1>1, Powers DEF At, Val, SeqNum

-----------------------------------------------------------------------------
(***************************************************************************)
(* queue_insert.                                                           *)
(***************************************************************************)
\* The first position that is kept.
Kept(q) == IF q.length = QSize THEN q.start + 1 ELSE q.start

\* What the slots of a ring hold after an insertion.
LEMMA InsertSlots ==
  ASSUME NEW q \in Queue, NEW after \in Positions(q), NEW n \in SeqNum,
         NEW p \in Kept(q) .. LastPos(q) + 1
  PROVE  Shifted(q, after, n)[p % QSize] =
           IF p <= after THEN QElem(q, p) ELSE IF p = after + 1 THEN n ELSE QElem(q, p - 1)
<1> DEFINE s == p % QSize
<1>1. /\ q.start \in 0 .. QSize - 1 /\ q.length \in 1 .. QSize
      /\ LastPos(q) = q.start + q.length - 1
      /\ after \in Int /\ q.start <= after /\ after <= LastPos(q)
      /\ p \in Int /\ Kept(q) <= p /\ p <= LastPos(q) + 1
  BY QueueFields, Powers DEF Positions, Kept
<1>2. p \in 0 .. 2 * QSize - 1 /\ after + 1 \in 0 .. 2 * QSize - 1
  BY <1>1, Powers DEF Kept
<1>3. s \in 0 .. QSize - 1
  BY <1>2, ModSlot
<1>4. CASE p = after + 1
  <2>1. s = (after + 1) % QSize
    BY <1>4
  <2>2. ASSUME NEW x \in after + 2 .. LastPos(q) + 1
        PROVE  x % QSize # s
    <3>1. x \in 0 .. 2 * QSize - 1 /\ p < x /\ x - p < QSize
      BY <1>1, <1>4, <2>2, Powers DEF Kept
    <3> QED
      BY <1>2, <3>1, ModDistinct
  <2> HIDE DEF s
  <2>3. Shifted(q, after, n)[s] = n
    BY <1>3, <2>1, <2>2 DEF Shifted
  <2> QED
    BY <1>1, <1>4, <2>3 DEF s
<1>5. CASE p > after + 1
  <2>1. s # (after + 1) % QSize
    BY <1>1, <1>2, <1>5, Powers, ModDistinct
  <2>2. \E x \in after + 2 .. LastPos(q) + 1 : x % QSize = s
    BY <1>1, <1>5, Powers
  <2>3. (s + QSize - 1) % QSize = (p - 1) % QSize
    BY <1>1, <1>2, <1>5, Powers, ModPred
  <2>4. QElem(q, s + QSize - 1) = QElem(q, p - 1)
    BY <2>3 DEF QElem
  <2> HIDE DEF s
  <2>5. Shifted(q, after, n)[s] = QElem(q, s + QSize - 1)
    BY <1>3, <2>1, <2>2 DEF Shifted
  <2> QED
    BY <1>1, <1>5, <2>4, <2>5 DEF s
<1>6. CASE p <= after
  <2>1. s # (after + 1) % QSize
    BY <1>1, <1>2, <1>6, Powers, ModDistinct, SMTT(30) DEF Kept
  <2>2. ASSUME NEW x \in after + 2 .. LastPos(q) + 1
        PROVE  x % QSize # s
    <3>1. x \in 0 .. 2 * QSize - 1 /\ p < x /\ x - p < QSize
      BY <1>1, <1>6, <2>2, Powers DEF Kept
    <3> QED
      BY <1>2, <3>1, ModDistinct
  <2>3. q.elem[s] = QElem(q, p)
    BY DEF QElem
  <2> HIDE DEF s
  <2>4. Shifted(q, after, n)[s] = q.elem[s]
    BY <1>3, <2>1, <2>2 DEF Shifted
  <2> QED
    BY <1>6, <2>3, <2>4 DEF s
<1> QED
  BY <1>1, <1>4, <1>5, <1>6

LEMMA ShiftedType ==
  ASSUME NEW q \in Queue, NEW after \in Positions(q), NEW n \in SeqNum
  PROVE  Shifted(q, after, n) \in [0 .. QSize - 1 -> SeqNum]
<1>1. q.elem \in [0 .. QSize - 1 -> SeqNum]
  BY QueueFields
<1>2. \A s \in 0 .. QSize - 1 : QElem(q, s + QSize - 1) \in SeqNum
  <2>1. \A s \in 0 .. QSize - 1 : s + QSize - 1 \in 0 .. 2 * QSize - 1
    BY Powers
  <2> QED
    BY <2>1, ElemType
<1>3. \A s \in 0 .. QSize - 1 :
        (CASE s = (after + 1) % QSize -> n
           [] \E p \in after + 2 .. LastPos(q) + 1 : p % QSize = s -> QElem(q, s + QSize - 1)
           [] OTHER -> q.elem[s]) \in SeqNum
  BY <1>1, <1>2
<1> QED
  BY <1>3 DEF Shifted

\* The content after an insertion: d is how far the positions have moved back.
LEMMA InsertContent ==
  ASSUME NEW q \in Queue, NEW after \in Positions(q), NEW n \in SeqNum
  PROVE  LET q2 == queue_insert(q, after, n)
         IN  /\ q2 \in Queue
             /\ q2.length >= q.length
             /\ q2.length # QSize => q.length # QSize
             /\ \E d \in {0, QSize} :
                  /\ q2.start + d = Kept(q) /\ LastPos(q2) + d = LastPos(q) + 1
                  /\ \A p \in Kept(q) .. LastPos(q) + 1 :
                       QElem(q2, p - d) =
                         IF p <= after THEN QElem(q, p) ELSE IF p = after + 1 THEN n ELSE QElem(q, p - 1)
<1> DEFINE q2 == queue_insert(q, after, n)
<1>1. /\ q.start \in 0 .. QSize - 1 /\ q.length \in 1 .. QSize
      /\ LastPos(q) = q.start + q.length - 1
  BY QueueFields
<1>2. /\ q2.start = IF q.length = QSize THEN (q.start + 1) % QSize ELSE q.start
      /\ q2.length = IF q.length = QSize THEN q.length ELSE q.length + 1
      /\ q2.elem = Shifted(q, after, n)
      /\ q2 = [start |-> q2.start, length |-> q2.length, elem |-> q2.elem]
  BY DEF queue_insert
<1> HIDE DEF q2
<1>3. q2.start \in 0 .. QSize - 1
  <2>1. q.start + 1 \in 0 .. 2 * QSize - 1
    BY <1>1, Powers
  <2> QED
    BY <1>1, <1>2, <2>1, ModSlot
<1>4. q2.length \in 1 .. QSize /\ q2.length >= q.length /\ (q2.length # QSize => q.length # QSize)
  BY <1>1, <1>2, Powers
<1>5. q2 \in Queue
  <2>1. q2.elem \in [0 .. QSize - 1 -> SeqNum]
    BY <1>2, ShiftedType
  <2> QED
    BY <1>2, <1>3, <1>4, <2>1 DEF Queue
<1>6. PICK d \in {0, QSize} : q2.start + d = Kept(q)
  <2>1. CASE q.length # QSize
    BY <1>1, <1>2, <2>1, Powers DEF Kept
  <2>2. CASE q.length = QSize /\ q.start + 1 < QSize
    <3>1. (q.start + 1) % QSize = q.start + 1
      BY <1>1, <2>2, Powers, ModSmall
    <3> QED
      BY <1>1, <1>2, <2>2, <3>1, Powers DEF Kept
  <2>3. CASE q.length = QSize /\ q.start + 1 = QSize
    <3>1. (q.start + 1) % QSize = 0
      BY <1>1, <2>3, Powers, ModWrap
    <3> QED
      BY <1>1, <1>2, <2>3, <3>1, Powers DEF Kept
  <2> QED
    BY <1>1, <2>1, <2>2, <2>3, Powers
<1>7. LastPos(q2) + d = LastPos(q) + 1
  <2>1. LastPos(q2) = q2.start + q2.length - 1 /\ d \in Int
    BY Powers DEF LastPos
  <2>2. q2.length = q.length + 1 + q.start - Kept(q) /\ Kept(q) \in Int
    BY <1>1, <1>2, Powers DEF Kept
  <2> QED
    BY <1>1, <1>3, <1>4, <1>6, <2>1, <2>2
<1>8. ASSUME NEW p \in Kept(q) .. LastPos(q) + 1
      PROVE  QElem(q2, p - d) =
               IF p <= after THEN QElem(q, p) ELSE IF p = after + 1 THEN n ELSE QElem(q, p - 1)
  <2>1. p \in 0 .. 2 * QSize - 1 /\ p - d >= 0 /\ p - d \in Int
    BY <1>1, <1>3, <1>6, Powers DEF Kept
  <2>2. (p - d) % QSize = p % QSize
    <3>1. CASE d = 0
      BY <2>1, <3>1
    <3>2. CASE d = QSize
      <4>1. p % QSize = p - QSize /\ p - QSize \in 0 .. QSize - 1
        BY <2>1, <3>2, Powers, ModWrap
      <4> QED
        BY <3>2, <4>1, ModSmall
    <3> QED
      BY <3>1, <3>2
  <2>3. QElem(q2, p - d) = Shifted(q, after, n)[p % QSize]
    BY <1>2, <2>2 DEF QElem
  <2> QED
    BY <2>3, InsertSlots
<1> QED
  BY <1>4, <1>5, <1>6, <1>7, <1>8 DEF q2

\* A number that belongs behind position after.
Belongs(q, after, n) ==
    /\ after \in Positions(q) /\ n \in SeqNum /\ n < TopBit
    /\ At(q, after) < n
    /\ after # LastPos(q) => n < At(q, after + 1)

\* It is new, and the ring is sound with it.
LEMMA InsertSound ==
  ASSUME NEW q, NEW S, RingSound(q, S), NEW after, NEW n, Belongs(q, after, n)
  PROVE  /\ RingSound(queue_insert(q, after, n), S \cup {n})
         /\ n \notin S
         /\ queue_insert(q, after, n) # q
<1> DEFINE q2 == queue_insert(q, after, n)
<1>1. /\ q \in Queue /\ Sorted(q) /\ HoldsOnly(q, S \cup {-1}) /\ HoldsNewest(q, S \cup {-1})
      /\ after \in Positions(q) /\ n \in SeqNum
  BY DEF RingSound, Belongs
<1>2. /\ q2 \in Queue /\ (q.length = QSize => q2.length = QSize)
      /\ \E d \in {0, QSize} :
           /\ q2.start + d = Kept(q) /\ LastPos(q2) + d = LastPos(q) + 1
           /\ \A p \in Kept(q) .. LastPos(q) + 1 :
                QElem(q2, p - d) =
                  IF p <= after THEN QElem(q, p) ELSE IF p = after + 1 THEN n ELSE QElem(q, p - 1)
  BY <1>1, InsertContent
<1> HIDE DEF q2
<1>3. PICK d \in {0, QSize} :
           /\ q2.start + d = Kept(q) /\ LastPos(q2) + d = LastPos(q) + 1
           /\ \A p \in Kept(q) .. LastPos(q) + 1 :
                QElem(q2, p - d) =
                  IF p <= after THEN QElem(q, p) ELSE IF p = after + 1 THEN n ELSE QElem(q, p - 1)
  BY <1>2
<1>4. d \in Int /\ n \in Nat /\ n < Mask /\ Val(n) = n /\ n >= 0
  BY <1>1, Powers DEF SeqNum, Belongs, Val
<1>5. /\ q.start \in 0 .. QSize - 1 /\ LastPos(q) \in Int /\ q.start <= LastPos(q)
      /\ after \in Int /\ q.start <= after /\ after <= LastPos(q)
      /\ Kept(q) \in {q.start, q.start + 1} /\ (Kept(q) = q.start + 1 <=> q.length = QSize)
      /\ q2.start \in Int /\ LastPos(q2) \in Int
      /\ Positions(q) = q.start .. LastPos(q) /\ Positions(q2) = q2.start .. LastPos(q2)
  BY <1>1, <1>2, QueueFields, Powers, SMTT(30) DEF Positions, Kept
<1> DEFINE N(p) == IF p <= after THEN At(q, p) ELSE IF p = after + 1 THEN n ELSE At(q, p - 1)
<1>6. \A p \in Kept(q) .. LastPos(q) + 1 : At(q2, p - d) = N(p)
  BY <1>3, <1>4 DEF At
<1>7. \A r \in Positions(q2) : /\ r + d \in Kept(q) .. LastPos(q) + 1
                               /\ At(q2, r) = N(r + d)
  <2>1. ASSUME NEW r \in Positions(q2)
        PROVE  r + d \in Kept(q) .. LastPos(q) + 1 /\ r = (r + d) - d
    BY <1>3, <1>4, <1>5, SMTT(30)
  <2> QED
    BY <1>6, <2>1
<1>8. \A p \in Kept(q) .. LastPos(q) + 1 : p - d \in Positions(q2) /\ At(q2, p - d) = N(p)
  BY <1>3, <1>4, <1>5, <1>6
<1>9. \A p \in Positions(q) : At(q, p) \in Int
  BY <1>1, QueueFields, ElemType, Powers
<1>10. \A p, r \in Positions(q) : p < r => At(q, p) < At(q, r)
  BY <1>1 DEF Sorted
<1>11. At(q, after) < n /\ (after # LastPos(q) => n < At(q, after + 1))
  BY DEF Belongs
<1>12. S \cup {-1} \subseteq Int
  BY DEF RingSound
\* Everything in the ring up to after is older, everything behind it newer.
<1>13. /\ \A p \in Positions(q) : p <= after => At(q, p) < n
       /\ \A p \in Positions(q) : p > after => n < At(q, p)
  <2>1. ASSUME NEW p \in Positions(q), p <= after
        PROVE  At(q, p) < n
    BY <1>1, <1>4, <1>5, <1>9, <1>10, <1>11, <2>1
  <2>2. ASSUME NEW p \in Positions(q), p > after
        PROVE  n < At(q, p)
    <3>1. after # LastPos(q) /\ after + 1 \in Positions(q)
      BY <1>5, <2>2
    <3>2. CASE p = after + 1
      BY <1>11, <3>1, <3>2
    <3>3. CASE p # after + 1
      BY <1>4, <1>5, <1>9, <1>10, <1>11, <2>2, <3>1, <3>3
    <3> QED
      BY <3>2, <3>3
  <2> QED
    BY <2>1, <2>2
<1>14. \A p, r \in q.start .. LastPos(q) + 1 : p < r => N(p) < N(r)
  <2> SUFFICES ASSUME NEW p \in q.start .. LastPos(q) + 1, NEW r \in q.start .. LastPos(q) + 1, p < r
               PROVE  N(p) < N(r)
    OBVIOUS
  <2>1. CASE r <= after
    BY <1>5, <1>10, <2>1
  <2>2. CASE r = after + 1
    BY <1>5, <1>13, <2>2
  <2>3. CASE r > after + 1 /\ p <= after
    <3>1. At(q, p) < n /\ n < At(q, r - 1) /\ p \in Positions(q) /\ r - 1 \in Positions(q)
      BY <1>5, <1>13, <2>3
    <3> QED
      BY <1>4, <1>5, <1>9, <2>3, <3>1
  <2>4. CASE r > after + 1 /\ p = after + 1
    BY <1>5, <1>13, <2>4
  <2>5. CASE r > after + 1 /\ p > after + 1
    BY <1>5, <1>10, <2>5, SMTT(30)
  <2> QED
    BY <1>5, <2>1, <2>2, <2>3, <2>4, <2>5
<1>15. Sorted(q2)
  <2>1. ASSUME NEW p \in Positions(q2), NEW r \in Positions(q2), p < r
        PROVE  At(q2, p) < At(q2, r)
    <3>1. /\ p + d \in q.start .. LastPos(q) + 1 /\ r + d \in q.start .. LastPos(q) + 1 /\ p + d < r + d
          /\ At(q2, p) = N(p + d) /\ At(q2, r) = N(r + d)
      BY <1>4, <1>5, <1>7, <2>1
    <3> HIDE DEF N
    <3> QED
      BY <1>14, <3>1
  <2> QED
    BY <2>1 DEF Sorted
<1>16. HoldsOnly(q2, (S \cup {n}) \cup {-1})
  <2>1. \A p \in q.start .. LastPos(q) + 1 : N(p) \in S \cup {n} \cup {-1}
    BY <1>1, <1>5 DEF HoldsOnly
  <2>2. \A r \in Positions(q2) : r + d \in q.start .. LastPos(q) + 1
    BY <1>4, <1>5, <1>7
  <2> HIDE DEF N
  <2> QED
    BY <1>7, <2>1, <2>2 DEF HoldsOnly
<1>17. At(q2, q2.start) = N(Kept(q)) /\ Kept(q) \in q.start .. LastPos(q) + 1
  <2>1. q2.start \in Positions(q2)
    BY <1>2, QueueFields
  <2> HIDE DEF N
  <2> QED
    BY <1>3, <1>5, <1>7, <2>1
<1>18. N(q.start) = At(q, q.start)
  BY <1>5
<1>19. \E r \in Positions(q2) : At(q2, r) = n
  <2>1. after + 1 \in Kept(q) .. LastPos(q) + 1 /\ N(after + 1) = n
    BY <1>5
  <2> HIDE DEF N
  <2> QED
    BY <1>8, <2>1
<1>20. HoldsNewest(q2, (S \cup {n}) \cup {-1})
  <2>1. q.length = QSize => At(q, q.start) < At(q2, q2.start)
    <3>1. q.length = QSize => Kept(q) > q.start /\ q.start \in q.start .. LastPos(q) + 1
      BY <1>5
    <3> HIDE DEF N
    <3> QED
      BY <1>14, <1>17, <1>18, <3>1
  <2>2. ASSUME NEW m \in S \cup {-1}
        PROVE  \/ \E r \in Positions(q2) : At(q2, r) = m
               \/ q2.length = QSize /\ m < At(q2, q2.start)
    <3>1. CASE \E p \in Positions(q) : At(q, p) = m
      <4>1. PICK p \in Positions(q) : At(q, p) = m
        BY <3>1
      <4>2. CASE p < Kept(q)
        BY <1>2, <1>5, <2>1, <4>1, <4>2
      <4>3. CASE p >= Kept(q) /\ p <= after
        <5>1. p \in Kept(q) .. LastPos(q) + 1 /\ N(p) = m
          BY <1>5, <4>1, <4>3
        <5> HIDE DEF N
        <5> QED
          BY <1>8, <5>1
      <4>4. CASE p >= Kept(q) /\ p > after
        <5>1. p + 1 \in Kept(q) .. LastPos(q) + 1 /\ N(p + 1) = m
          BY <1>5, <4>1, <4>4
        <5> HIDE DEF N
        <5> QED
          BY <1>8, <5>1
      <4> QED
        BY <1>5, <4>2, <4>3, <4>4
    <3>2. CASE q.length = QSize /\ m < At(q, q.start)
      <4>1. m \in Int /\ At(q, q.start) \in Int /\ At(q2, q2.start) \in Int
        <5>1. q.start \in Positions(q)
          BY <1>5
        <5>2. q2.start \in 0 .. 2 * QSize - 1
          BY <1>2, QueueFields, Powers
        <5>3. At(q2, q2.start) \in Int
          BY <1>2, <5>2, ElemType
        <5> QED
          BY <1>9, <1>12, <5>1, <5>3
      <4> QED
        BY <1>2, <2>1, <3>2, <4>1
    <3> QED
      BY <1>1, <3>1, <3>2 DEF HoldsNewest
  <2> QED
    BY <1>19, <2>2 DEF HoldsNewest
<1>21. \A p \in Positions(q) : At(q, p) # n
  BY <1>4, <1>5, <1>9, <1>13
<1>22. n \notin S
  <2>1. n >= At(q, q.start)
    BY <1>4, <1>5, <1>9, <1>13
  <2>2. ~(n < At(q, q.start))
    BY <1>4, <1>5, <1>9, <2>1
  <2> QED
    BY <1>1, <1>21, <2>2 DEF HoldsNewest
<1>23. q2 # q
  BY <1>19, <1>21
<1> QED
  BY <1>2, <1>4, <1>15, <1>16, <1>20, <1>22, <1>23 DEF RingSound, q2

-----------------------------------------------------------------------------
(***************************************************************************)
(* sequenceCheck.                                                          *)
(***************************************************************************)
LEMMA ValNumber ==
  ASSUME NEW n \in Nat, n < TopBit
  PROVE  n \in SeqNum /\ n # Mask /\ Val(n) = n /\ n < Mask
BY Powers DEF SeqNum, Val

\* The expected number follows the newest one in the ring.
LEMMA Expected ==
  ASSUME NEW q \in Queue
  PROVE  (QElem(q, LastPos(q)) + 1) % 2^Width = At(q, LastPos(q)) + 1
<1> DEFINE e == QElem(q, LastPos(q))
<1>1. LastPos(q) \in 0 .. 2 * QSize - 1
  BY QueueFields, Powers
<1>2. e \in SeqNum
  BY <1>1, ElemType
<1> HIDE DEF e
<1>3. CASE e = Mask
  <2>1. e + 1 = 2^Width
    BY <1>3, Powers
  <2>2. 2^Width % 2^Width = 0
    BY Powers
  <2> QED
    BY <1>3, <2>1, <2>2 DEF At, Val, e
<1>4. CASE e # Mask
  <2>1. e + 1 \in 0 .. 2^Width - 1
    BY <1>2, <1>4, Powers DEF SeqNum
  <2>2. \A x \in 0 .. 2^Width - 1 : x % 2^Width = x
    BY Powers
  <2> QED
    BY <1>4, <2>1, <2>2 DEF At, Val, e
<1> QED
  BY <1>3, <1>4

\* What a check finds: a new number, a late one, one in the ring, or one it refuses.
FindsNew(q, S, n, c) ==
    /\ n > At(q, LastPos(q)) /\ n \notin S
    /\ c.queue # q /\ RingSound(c.queue, S \cup {n})
    /\ c.verdict = IF n = At(q, LastPos(q)) + 1 THEN "COMPLETE" ELSE Unless("GAP", "COMPLETE")
FindsLate(q, S, n, c) ==
    /\ n < At(q, LastPos(q)) /\ n \notin S
    /\ c.queue # q /\ RingSound(c.queue, S \cup {n})
    /\ c.verdict = Unless("UNSEQ", "COMPLETE")
FindsHeld(q, S, n, c) ==
    /\ n \in S
    /\ \E i \in 0 .. QSize - 1 : q.elem[i] = n
    /\ c.queue = q /\ c.verdict = "DUPLICATE"
FindsOld(q, S, n, c) ==
    /\ n < At(q, LastPos(q))
    /\ c.queue = q /\ c.verdict = "FAILURE"
Finds(q, S, n, c) ==
    FindsNew(q, S, n, c) \/ FindsLate(q, S, n, c) \/ FindsHeld(q, S, n, c) \/ FindsOld(q, S, n, c)

LEMMA OutcomeFields ==
  ASSUME NEW v, NEW q
  PROVE  Outcome(v, q).verdict = v /\ Outcome(v, q).queue = q
BY DEF Outcome

LEMMA HeldFound ==
  ASSUME NEW q, NEW S, RingSound(q, S), NEW n \in Nat, n < TopBit,
         NEW p \in Positions(q), QElem(q, p) = n
  PROVE  FindsHeld(q, S, n, Outcome("DUPLICATE", q))
<1>1. q \in Queue /\ HoldsOnly(q, S \cup {-1})
  BY DEF RingSound
<1>2. p \in 0 .. 2 * QSize - 1
  BY <1>1, QueueFields, Powers
<1>3. At(q, p) = n
  BY ValNumber DEF At
<1>4. n \in S
  BY <1>1, <1>3 DEF HoldsOnly
<1>5. p % QSize \in 0 .. QSize - 1 /\ q.elem[p % QSize] = n
  BY <1>2, ModSlot DEF QElem
<1> QED
  BY <1>4, <1>5, OutcomeFields DEF FindsHeld

\* The search stops at one position at most.
LEMMA HitsUnique ==
  ASSUME NEW q, NEW S, RingSound(q, S), NEW n \in Nat, n < TopBit, NEW i \in Hits(q, n)
  PROVE  /\ i \in Positions(q) /\ i + 1 \in Positions(q) /\ i # LastPos(q)
         /\ At(q, i) <= n /\ n < At(q, i + 1)
         /\ (n # QElem(q, i) => At(q, i) < n)
         /\ Min(Hits(q, n)) = i
<1>1. q \in Queue /\ Sorted(q)
  BY DEF RingSound
<1>2. Positions(q) = q.start .. LastPos(q) /\ q.start \in Int /\ LastPos(q) \in Int
  BY <1>1, QueueFields DEF Positions
<1>3. \A p \in Positions(q) : At(q, p) \in Int /\ At(q, p) >= -1 /\ QElem(q, p) \in Nat
  <2>1. \A p \in Positions(q) : p \in 0 .. 2 * QSize - 1
    BY <1>1, QueueFields, Powers
  <2> QED
    BY <1>1, <2>1, ElemType
<1>4. n # Mask /\ n < Mask /\ Mask \in Nat
  BY ValNumber, Powers
<1>5. ASSUME NEW j \in Hits(q, n)
      PROVE  /\ j \in Positions(q) /\ j + 1 \in Positions(q) /\ j # LastPos(q) /\ j \in Int
             /\ At(q, j) <= n /\ n < At(q, j + 1)
             /\ (n # QElem(q, j) => At(q, j) < n)
  <2>1. /\ j \in q.start .. LastPos(q) - 1
        /\ n = QElem(q, j) \/ (n > QElem(q, j) /\ n < QElem(q, j + 1))
    BY DEF Hits
  <2>2. j \in Positions(q) /\ j + 1 \in Positions(q) /\ j # LastPos(q) /\ j \in Int
    BY <1>2, <2>1
  <2>3. At(q, j) < At(q, j + 1)
    BY <1>1, <2>2 DEF Sorted
  <2>4. At(q, j) = QElem(q, j)
    BY <1>3, <1>4, <2>1, <2>2 DEF At, Val
  <2>5. At(q, j + 1) = QElem(q, j + 1)
    BY <1>3, <2>2, <2>3 DEF At, Val
  <2> QED
    BY <1>3, <2>1, <2>2, <2>3, <2>4, <2>5
<1>6. ASSUME NEW j \in Hits(q, n)
      PROVE  j = i
  <2>1. ASSUME NEW x \in Hits(q, n), NEW y \in Hits(q, n), x < y
        PROVE  FALSE
    <3>1. /\ x + 1 \in Positions(q) /\ y \in Positions(q) /\ x \in Int /\ y \in Int
          /\ n < At(q, x + 1) /\ At(q, y) <= n
      BY <1>5
    <3>2. At(q, x + 1) <= At(q, y)
      BY <1>1, <1>3, <2>1, <3>1 DEF Sorted
    <3> QED
      BY <1>3, <3>1, <3>2
  <2> QED
    BY <1>5, <2>1
<1>7. Min(Hits(q, n)) = i
  <2>1. i \in Int
    BY <1>5
  <2>2. \A y \in Hits(q, n) : i =< y
    BY <1>6, <2>1
  <2> QED
    BY <1>6, <2>2 DEF Min
<1> QED
  BY <1>5, <1>7

LEMMA RuleFourFiveFinds ==
  ASSUME NEW q, NEW S, RingSound(q, S), NEW n \in Nat, n < TopBit, n <= At(q, LastPos(q))
  PROVE  Finds(q, S, n, RuleFourFive(q, n))
<1>1. q \in Queue /\ LastPos(q) \in Positions(q)
  BY QueueFields DEF RingSound
<1>2. At(q, LastPos(q)) \in Int
  BY <1>1, QueueFields, ElemType, Powers
<1>3. CASE n = QElem(q, LastPos(q))
  BY <1>1, <1>3, HeldFound DEF RuleFourFive, Finds
<1>4. CASE n # QElem(q, LastPos(q)) /\ Hits(q, n) = {}
  <2>1. n # At(q, LastPos(q))
    BY <1>4 DEF At, Val
  <2>2. n < At(q, LastPos(q))
    BY <1>2, <2>1
  <2>3. RuleFourFive(q, n) = Outcome("FAILURE", q)
    BY <1>4 DEF RuleFourFive
  <2> QED
    BY <2>2, <2>3, OutcomeFields DEF Finds, FindsOld
<1>5. CASE n # QElem(q, LastPos(q)) /\ Hits(q, n) # {}
  <2>1. PICK i \in Hits(q, n) : TRUE
    BY <1>5
  <2>2. /\ i \in Positions(q) /\ i + 1 \in Positions(q) /\ i # LastPos(q)
        /\ At(q, i) <= n /\ n < At(q, i + 1)
        /\ (n # QElem(q, i) => At(q, i) < n)
        /\ Min(Hits(q, n)) = i
    BY <2>1, HitsUnique
  <2>3. CASE n = QElem(q, i)
    <3>1. RuleFourFive(q, n) = Outcome("DUPLICATE", q)
      BY <1>5, <2>2, <2>3 DEF RuleFourFive
    <3> QED
      BY <2>2, <2>3, <3>1, HeldFound DEF Finds
  <2>4. CASE n # QElem(q, i)
    <3> DEFINE q2 == queue_insert(q, i, n)
    <3>1. RuleFourFive(q, n) = Outcome(Unless("UNSEQ", "COMPLETE"), q2)
      BY <1>5, <2>2, <2>4 DEF RuleFourFive
    <3>2. Belongs(q, i, n)
      BY <2>2, <2>4, ValNumber DEF Belongs
    <3>3. RingSound(q2, S \cup {n}) /\ n \notin S /\ q2 # q
      BY <3>2, InsertSound
    <3>4. n # At(q, LastPos(q))
      BY <1>5 DEF At, Val
    <3>5. n < At(q, LastPos(q))
      BY <1>2, <3>4
    <3> HIDE DEF q2
    <3> QED
      BY <3>1, <3>3, <3>5, OutcomeFields DEF Finds, FindsLate
  <2> QED
    BY <2>3, <2>4
<1> QED
  BY <1>3, <1>4, <1>5

LEMMA SequenceCheckFinds ==
  ASSUME NEW q, NEW S, RingSound(q, S), NEW n \in Nat, n < TopBit, DoReplay \/ DoSequence
  PROVE  Finds(q, S, n, sequenceCheck(q, n))
<1> DEFINE x == At(q, LastPos(q)) + 1
<1>1. q \in Queue /\ LastPos(q) \in Positions(q)
  BY QueueFields DEF RingSound
<1>2. At(q, LastPos(q)) \in Int
  BY <1>1, QueueFields, ElemType, Powers
<1>3. (QElem(q, LastPos(q)) + 1) % 2^Width = x
  BY <1>1, Expected
<1>4. CASE n >= x
  <2> DEFINE q2 == queue_insert(q, LastPos(q), n)
  <2>1. Belongs(q, LastPos(q), n)
    BY <1>1, <1>2, <1>4, ValNumber DEF Belongs
  <2>2. RingSound(q2, S \cup {n}) /\ n \notin S /\ q2 # q
    BY <2>1, InsertSound
  <2>3. n > At(q, LastPos(q))
    BY <1>2, <1>4
  <2>4. sequenceCheck(q, n) = Outcome(IF n = x THEN "COMPLETE" ELSE Unless("GAP", "COMPLETE"), q2)
    BY <1>2, <1>3, <1>4 DEF sequenceCheck
  <2> HIDE DEF q2
  <2> QED
    BY <2>2, <2>3, <2>4, OutcomeFields DEF Finds, FindsNew
<1>5. CASE n < x
  <2>1. n <= At(q, LastPos(q))
    BY <1>2, <1>5
  <2>2. ~(n >= TopBit) /\ n # x /\ ~(n > x)
    BY <1>2, <1>5, Powers
  <2>3. sequenceCheck(q, n) = RuleFourFive(q, n)
    BY <1>3, <2>2 DEF sequenceCheck
  <2> QED
    BY <2>1, <2>3, RuleFourFiveFinds
<1> QED
  BY <1>2, <1>4, <1>5

-----------------------------------------------------------------------------
(***************************************************************************)
(* The inductive invariant of the two peers.                               *)
(***************************************************************************)
\* Each ring is sound for the numbers its peer has recorded.
RingsInv == \A p \in Peers : RingSound(ctx[p].seqState, recorded[p])

\* Numbers in use are in the lower half.
NumbersInv ==
    /\ \A p \in Peers : ctx[p].sendSeq <= TopBit
    /\ \A t \in net : t.seq < TopBit

\* A token that was returned to the application is recorded.
ReturnedInv ==
    \A t \in DOMAIN returned :
        t \in Token /\ returned[t] \in Nat /\ t.seq \in recorded[Other(t.from)]

ProtectionInv == TypeOK /\ RingsInv /\ NumbersInv /\ ReturnedInv

LEMMA InitialRing ==
  RingSound(sequenceInit, {})
<1> DEFINE q == sequenceInit
<1>1. /\ q.start = 0 /\ q.length = 1
      /\ q.elem = [s \in 0 .. QSize - 1 |-> IF s = 0 THEN Mask ELSE 0]
      /\ q \in Queue
  BY Powers DEF sequenceInit, Queue, SeqNum
<1> HIDE DEF q
<1>2. LastPos(q) = 0 /\ Positions(q) = {0}
  BY <1>1 DEF LastPos, Positions
<1>3. At(q, 0) = -1
  <2>1. 0 % QSize = 0 /\ 0 \in 0 .. QSize - 1
    BY Powers, ModSmall
  <2> QED
    BY <1>1, <2>1 DEF At, Val, QElem
<1> QED
  BY <1>1, <1>2, <1>3 DEF RingSound, Sorted, HoldsOnly, HoldsNewest, q

LEMMA InitInv ==
  ASSUME Init
  PROVE  ProtectionInv
<1>1. sequenceInit \in Queue
  BY InitialRing DEF RingSound
<1>2. 0 \in SeqNum
  BY Powers DEF SeqNum
<1>3. TypeOK
  BY <1>1, <1>2 DEF Init, TypeOK, Context, Verdict
<1>4. RingsInv
  BY InitialRing DEF Init, RingsInv
<1>5. NumbersInv
  BY Powers DEF Init, NumbersInv
<1>6. ReturnedInv
  BY DEF Init, ReturnedInv
<1> QED
  BY <1>3, <1>4, <1>5, <1>6 DEF ProtectionInv

LEMMA ContextType ==
  ASSUME TypeOK, NEW p \in Peers
  PROVE  /\ ctx[p] \in Context /\ ctx[p].sendSeq \in SeqNum /\ ctx[p].seqState \in Queue
         /\ ctx[p].place \in {"live", "exported"}
BY DEF TypeOK, Context

LEMMA WrapPreserves ==
  ASSUME ProtectionInv, NEW p \in Peers, WrapOrGetMIC(p)
  PROVE  ProtectionInv'
<1> USE DEF ProtectionInv
<1> DEFINE n == ctx[p].sendSeq
           c == [ctx[p] EXCEPT !.sendSeq = n + 1]
           t == [from |-> p, seq |-> n]
<1>1. /\ ctx[p] \in Context /\ n \in SeqNum /\ n < MaxSend[p] /\ MaxSend[p] <= TopBit
      /\ MaxSend[p] \in Nat
  BY ContextType, MaxSendAssumption DEF WrapOrGetMIC
<1>2. n \in Nat /\ n < TopBit /\ n + 1 \in SeqNum /\ n + 1 <= TopBit
  BY <1>1, Powers DEF SeqNum
<1>3. (n + 1) % 2^Width = n + 1
  <2>1. n + 1 \in 0 .. 2^Width - 1
    BY <1>2, Powers
  <2>2. \A x \in 0 .. 2^Width - 1 : x % 2^Width = x
    BY Powers
  <2> QED
    BY <2>1, <2>2
<1>4. /\ c \in Context /\ c.sendSeq = n + 1 /\ c.seqState = ctx[p].seqState
  BY <1>1, <1>2 DEF Context
<1>5. ctx' = [ctx EXCEPT ![p] = c] /\ net' = net \cup {t}
  BY <1>3 DEF WrapOrGetMIC, TypeOK
<1>6. UNCHANGED <<recorded, last, returned>>
  BY DEF WrapOrGetMIC
<1>7. t \in Token /\ t.seq = n
  BY <1>1 DEF Token
<1> HIDE DEF c, t, n
<1>8. ctx' \in [Peers -> Context] /\ ctx'[p] = c /\ \A r \in Peers : r # p => ctx'[r] = ctx[r]
  BY <1>4, <1>5 DEF TypeOK
<1>9. TypeOK'
  BY <1>5, <1>6, <1>7, <1>8 DEF TypeOK
<1>10. RingsInv'
  BY <1>4, <1>6, <1>8 DEF RingsInv
<1>11. NumbersInv'
  BY <1>2, <1>4, <1>5, <1>7, <1>8 DEF NumbersInv
<1>12. ReturnedInv'
  BY <1>6 DEF ReturnedInv
<1> QED
  BY <1>9, <1>10, <1>11, <1>12

\* Export and import: only the place changes.
LEMMA MovePreserves ==
  ASSUME ProtectionInv, NEW p \in Peers, ExportSecContext(p) \/ ImportSecContext(p)
  PROVE  ProtectionInv'
<1> USE DEF ProtectionInv
<1>1. PICK x \in {"live", "exported"} : ctx' = [ctx EXCEPT ![p].place = x]
  BY DEF ExportSecContext, ImportSecContext
<1> DEFINE c == [ctx[p] EXCEPT !.place = x]
<1>2. c \in Context /\ c.sendSeq = ctx[p].sendSeq /\ c.seqState = ctx[p].seqState
  BY ContextType DEF Context
<1>3. ctx' = [ctx EXCEPT ![p] = c]
  BY <1>1 DEF TypeOK
<1>4. UNCHANGED <<net, recorded, last, returned>>
  BY DEF ExportSecContext, ImportSecContext
<1> HIDE DEF c
<1>5. ctx' \in [Peers -> Context] /\ ctx'[p] = c /\ \A r \in Peers : r # p => ctx'[r] = ctx[r]
  BY <1>2, <1>3 DEF TypeOK
<1>6. TypeOK'
  BY <1>4, <1>5 DEF TypeOK
<1>7. RingsInv' /\ NumbersInv' /\ ReturnedInv'
  BY <1>2, <1>4, <1>5 DEF RingsInv, NumbersInv, ReturnedInv
<1> QED
  BY <1>6, <1>7

LEMMA MinOfTwo ==
  ASSUME NEW a \in Nat, NEW b \in Nat
  PROVE  Min({a, b}) \in {a, b}
<1>1. \E x \in {a, b} : \A y \in {a, b} : x =< y
  OBVIOUS
<1> QED
  BY <1>1 DEF Min

LEMMA VerdictType ==
  ASSUME NEW q, NEW S, NEW n, NEW c, Finds(q, S, n, c)
  PROVE  c.verdict \in Verdict
BY DEF Finds, FindsNew, FindsLate, FindsHeld, FindsOld, Unless, Verdict

\* What a call of unwrapToken does, in terms of what the check finds.
LEMMA UnwrapFinds ==
  ASSUME ProtectionInv, DoReplay \/ DoSequence, NEW p \in Peers, NEW t \in net, UnwrapToken(p, t)
  PROVE  \E c :
           /\ Finds(ctx[p].seqState, recorded[p], t.seq, c)
           /\ ctx' = [ctx EXCEPT ![p].seqState = c.queue]
           /\ recorded' = IF c.queue # ctx[p].seqState
                          THEN [recorded EXCEPT ![p] = @ \cup {t.seq}] ELSE recorded
           /\ last' = [last EXCEPT ![p] = [seq |-> t.seq, verdict |-> c.verdict]]
           /\ returned' = IF c.verdict = "FAILURE" THEN returned ELSE Returned(t)
           /\ net' = net
           /\ t \in Token /\ t.from = Other(p) /\ t.seq \in Nat /\ t.seq < TopBit
<1>1. t \in Token /\ t.seq < TopBit
  BY DEF ProtectionInv, TypeOK, NumbersInv
<1>2. t.seq \in Nat
  BY <1>1, Powers DEF Token, SeqNum
<1>3. Finds(ctx[p].seqState, recorded[p], t.seq, sequenceCheck(ctx[p].seqState, t.seq))
  BY <1>1, <1>2, SequenceCheckFinds DEF ProtectionInv, RingsInv
<1> QED
  BY <1>1, <1>2, <1>3 DEF UnwrapToken, IsError

\* The number of a token that is returned is recorded.
LEMMA FoundIsRecorded ==
  ASSUME NEW q, NEW S, NEW n, NEW c, Finds(q, S, n, c), c.verdict # "FAILURE"
  PROVE  n \in S \/ c.queue # q
BY DEF Finds, FindsNew, FindsLate, FindsHeld, FindsOld

LEMMA FoundRingSound ==
  ASSUME NEW q, NEW S, NEW n, NEW c, RingSound(q, S), Finds(q, S, n, c)
  PROVE  RingSound(c.queue, IF c.queue # q THEN S \cup {n} ELSE S)
BY DEF Finds, FindsNew, FindsLate, FindsHeld, FindsOld

LEMMA UnwrapPreserves ==
  ASSUME ProtectionInv, DoReplay \/ DoSequence, NEW p \in Peers, NEW t \in net, UnwrapToken(p, t)
  PROVE  ProtectionInv'
<1> USE DEF ProtectionInv
<1> DEFINE q == ctx[p].seqState
           S == recorded[p]
<1>1. PICK c :
           /\ Finds(q, S, t.seq, c)
           /\ ctx' = [ctx EXCEPT ![p].seqState = c.queue]
           /\ recorded' = IF c.queue # q THEN [recorded EXCEPT ![p] = @ \cup {t.seq}] ELSE recorded
           /\ last' = [last EXCEPT ![p] = [seq |-> t.seq, verdict |-> c.verdict]]
           /\ returned' = IF c.verdict = "FAILURE" THEN returned ELSE Returned(t)
           /\ net' = net
           /\ t \in Token /\ t.from = Other(p) /\ t.seq \in Nat /\ t.seq < TopBit
  BY UnwrapFinds
<1>2. RingSound(c.queue, IF c.queue # q THEN S \cup {t.seq} ELSE S)
  <2>1. RingSound(q, S) /\ Finds(q, S, t.seq, c)
    BY <1>1 DEF RingsInv
  <2> HIDE DEF q, S
  <2> QED
    BY <2>1, FoundRingSound, Zenon
<1>3. c.queue \in Queue
  BY <1>2 DEF RingSound
<1> DEFINE x == [ctx[p] EXCEPT !.seqState = c.queue]
<1>4. x \in Context /\ x.sendSeq = ctx[p].sendSeq /\ x.seqState = c.queue
  BY <1>3, ContextType DEF Context
<1>5. ctx' = [ctx EXCEPT ![p] = x]
  BY <1>1 DEF TypeOK
<1> HIDE DEF x
<1>6. ctx' \in [Peers -> Context] /\ ctx'[p] = x /\ \A r \in Peers : r # p => ctx'[r] = ctx[r]
  BY <1>4, <1>5 DEF TypeOK
<1>7. /\ recorded' \in [Peers -> SUBSET SeqNum]
      /\ recorded'[p] = (IF c.queue # q THEN S \cup {t.seq} ELSE S)
      /\ \A r \in Peers : r # p => recorded'[r] = recorded[r]
  BY <1>1 DEF TypeOK, Token
<1> DEFINE m == [seq |-> t.seq, verdict |-> c.verdict]
<1>8. m \in [seq : SeqNum \cup {-1}, verdict : Verdict]
  BY <1>1, VerdictType DEF Token
<1>9. last' = [last EXCEPT ![p] = m]
  BY <1>1
<1> HIDE DEF m
<1>10. last' \in [Peers -> [seq : SeqNum \cup {-1}, verdict : Verdict]]
  BY <1>8, <1>9 DEF TypeOK
<1>11. ReturnedInv' /\ DOMAIN returned' \subseteq Token
  <2>1. \A u \in DOMAIN returned :
          u \in Token /\ returned[u] \in Nat /\ u.seq \in recorded'[Other(u.from)]
    <3>1. \A u \in Token : Other(u.from) \in Peers
      BY DEF Token, Other, Peers
    <3>2. \A r \in Peers : recorded[r] \subseteq recorded'[r]
      BY <1>7
    <3> QED
      BY <3>1, <3>2 DEF ReturnedInv
  <2>2. CASE c.verdict = "FAILURE"
    <3>1. returned' = returned
      BY <1>1, <2>2
    <3> QED
      BY <2>1, <3>1 DEF ReturnedInv
  <2>3. CASE c.verdict # "FAILURE"
    <3>1. Count(t) \in Nat
      BY <2>1 DEF Count
    <3>2. Min({2, Count(t) + 1}) \in Nat
      <4>1. Count(t) + 1 \in Nat /\ 2 \in Nat
        BY <3>1
      <4> QED
        BY <4>1, MinOfTwo
    <3>3. Other(t.from) = p
      BY <1>1 DEF Other, Peers
    <3>4. t.seq \in recorded'[p]
      BY <1>1, <1>7, <2>3, FoundIsRecorded
    <3>5. returned' = [u \in DOMAIN returned \cup {t} |->
                         IF u = t THEN Min({2, Count(t) + 1}) ELSE returned[u]]
      BY <1>1, <2>3 DEF Returned
    <3> QED
      BY <1>1, <2>1, <3>2, <3>3, <3>4, <3>5 DEF ReturnedInv
  <2> QED
    BY <2>2, <2>3
<1>12. TypeOK'
  BY <1>1, <1>6, <1>7, <1>10, <1>11 DEF TypeOK
<1>13. RingsInv'
  BY <1>2, <1>4, <1>6, <1>7 DEF RingsInv
<1>14. NumbersInv'
  BY <1>1, <1>4, <1>6 DEF NumbersInv
<1> QED
  BY <1>11, <1>12, <1>13, <1>14

LEMMA NextInv ==
  ASSUME ProtectionInv, DoReplay \/ DoSequence, [Next]_vars
  PROVE  ProtectionInv'
<1>1. ASSUME NEW p \in Peers, WrapOrGetMIC(p)
      PROVE  ProtectionInv'
  BY <1>1, WrapPreserves
<1>2. ASSUME NEW p \in Peers, NEW t \in net, UnwrapToken(p, t)
      PROVE  ProtectionInv'
  BY <1>2, UnwrapPreserves
<1>3. ASSUME NEW p \in Peers, ExportSecContext(p) \/ ImportSecContext(p)
      PROVE  ProtectionInv'
  BY <1>3, MovePreserves
<1>4. CASE UNCHANGED vars
  BY <1>4 DEF vars, ProtectionInv, TypeOK, RingsInv, NumbersInv, ReturnedInv
<1> QED
  BY <1>1, <1>2, <1>3, <1>4 DEF Next

\* The invariant that the other theorems of this module rest on: each ring of
\* util_ordering.c is sorted and holds the newest of the numbers it has taken in.
THEOREM ProtectionInvariant ==
  ASSUME DoReplay \/ DoSequence
  PROVE  Spec => []ProtectionInv
<1>1. Init => ProtectionInv
  BY InitInv
<1>2. ProtectionInv /\ [Next]_vars => ProtectionInv'
  BY NextInv
<1> QED
  BY <1>1, <1>2, PTL DEF Spec

-----------------------------------------------------------------------------
(***************************************************************************)
(* The ring implements ReplayWindow.                                       *)
(***************************************************************************)
\* The last element of a ring is the newest number taken in.
LEMMA LastIsNewest ==
  ASSUME NEW q, NEW S, RingSound(q, S)
  PROVE  /\ At(q, LastPos(q)) \in S \cup {-1} /\ At(q, LastPos(q)) \in Int
         /\ \A n \in S \cup {-1} : n <= At(q, LastPos(q)) /\ n \in Int
<1>1. q \in Queue /\ q.start \in Positions(q) /\ LastPos(q) \in Positions(q)
  BY QueueFields DEF RingSound
<1>2. \A p \in Positions(q) : At(q, p) \in Int /\ p \in Int
  BY <1>1, QueueFields, ElemType, Powers
<1>3. \A p \in Positions(q) : At(q, p) <= At(q, LastPos(q))
  <2>1. \A p \in Positions(q) : p < LastPos(q) \/ p = LastPos(q)
    BY <1>1, QueueFields DEF Positions
  <2> QED
    BY <1>1, <1>2, <2>1 DEF RingSound, Sorted
<1>4. \A n \in S \cup {-1} : n <= At(q, LastPos(q)) /\ n \in Int
  BY <1>1, <1>2, <1>3 DEF RingSound, HoldsNewest
<1> QED
  BY <1>1, <1>2, <1>4 DEF RingSound, HoldsOnly

\* A step of ReplayWindow from the numbers S, with n checked.
WindowStep(S, S2, l, newest, n) ==
    \/ /\ n > newest /\ S2 = S \cup {n}
       /\ l = [seq |-> n, verdict |-> IF n = newest + 1 THEN "COMPLETE" ELSE "GAP"]
    \/ n < newest /\ n \notin S /\ S2 = S \cup {n} /\ l = [seq |-> n, verdict |-> "UNSEQ"]
    \/ n \in S /\ S2 = S /\ l = [seq |-> n, verdict |-> "DUPLICATE"]
    \/ n < newest /\ S2 = S /\ l = [seq |-> n, verdict |-> "FAILURE"]

LEMMA FoundIsWindowStep ==
  ASSUME NEW q, NEW S, NEW n, NEW c, Finds(q, S, n, c), DoSequence
  PROVE  WindowStep(S, IF c.queue # q THEN S \cup {n} ELSE S,
                    [seq |-> n, verdict |-> c.verdict], At(q, LastPos(q)), n)
<1>1. \A a, b : Unless(a, b) = a
  BY DEF Unless
<1> QED
  BY <1>1 DEF Finds, FindsNew, FindsLate, FindsHeld, FindsOld, WindowStep

\* What a step of the system does to the numbers that peer p has recorded.
LEMMA PeerStep ==
  ASSUME ProtectionInv, DoSequence, [Next]_vars, NEW p \in Peers
  PROVE  \/ recorded'[p] = recorded[p] /\ last'[p] = last[p]
         \/ \E n \in SeqNum :
              WindowStep(recorded[p], recorded'[p], last'[p],
                         At(ctx[p].seqState, LastPos(ctx[p].seqState)), n)
<1>1. ASSUME NEW r \in Peers, NEW t \in net, UnwrapToken(r, t)
      PROVE  \/ recorded'[p] = recorded[p] /\ last'[p] = last[p]
             \/ \E n \in SeqNum :
                  WindowStep(recorded[p], recorded'[p], last'[p],
                             At(ctx[p].seqState, LastPos(ctx[p].seqState)), n)
  <2>1. PICK c :
           /\ Finds(ctx[r].seqState, recorded[r], t.seq, c)
           /\ recorded' = IF c.queue # ctx[r].seqState
                          THEN [recorded EXCEPT ![r] = @ \cup {t.seq}] ELSE recorded
           /\ last' = [last EXCEPT ![r] = [seq |-> t.seq, verdict |-> c.verdict]]
           /\ t \in Token
    BY <1>1, UnwrapFinds
  <2>2. CASE r # p
    BY <2>1, <2>2 DEF ProtectionInv, TypeOK
  <2>3. CASE r = p
    <3>1. /\ recorded'[p] = (IF c.queue # ctx[p].seqState
                             THEN recorded[p] \cup {t.seq} ELSE recorded[p])
          /\ last'[p] = [seq |-> t.seq, verdict |-> c.verdict]
          /\ t.seq \in SeqNum
      BY <2>1, <2>3 DEF ProtectionInv, TypeOK, Token
    <3>2. WindowStep(recorded[p], recorded'[p], last'[p],
                     At(ctx[p].seqState, LastPos(ctx[p].seqState)), t.seq)
      <4> DEFINE q == ctx[p].seqState
                 S == recorded[p]
                 S2 == IF c.queue # q THEN S \cup {t.seq} ELSE S
                 l == [seq |-> t.seq, verdict |-> c.verdict]
      <4>1. WindowStep(S, S2, l, At(q, LastPos(q)), t.seq)
        <5>1. Finds(q, S, t.seq, c)
          BY <2>1, <2>3
        <5> HIDE DEF q, S
        <5> QED
          BY <5>1, FoundIsWindowStep, Zenon
      <4>2. recorded'[p] = S2 /\ last'[p] = l
        BY <3>1
      <4> HIDE DEF S2, l
      <4> QED
        BY <4>1, <4>2
    <3> QED
      BY <3>1, <3>2
  <2> QED
    BY <2>2, <2>3
<1>2. ASSUME NEW r \in Peers, WrapOrGetMIC(r) \/ ExportSecContext(r) \/ ImportSecContext(r)
      PROVE  recorded' = recorded /\ last' = last
  BY <1>2 DEF WrapOrGetMIC, ExportSecContext, ImportSecContext
<1>3. CASE UNCHANGED vars
  BY <1>3 DEF vars
<1> QED
  BY <1>1, <1>2, <1>3 DEF Next

LEMMA InitiatorStep ==
  ASSUME ProtectionInv, DoSequence, [Next]_vars
  PROVE  [AtInitiator!Next]_(AtInitiator!vars)
<1> DEFINE q == ctx["initiator"].seqState
           S == recorded["initiator"]
<1>1. "initiator" \in Peers
  BY DEF Peers
<1>2. RingSound(q, S)
  BY <1>1 DEF ProtectionInv, RingsInv
<1>3. AtInitiator!Newest = At(q, LastPos(q))
  <2> HIDE DEF q, S
  <2>1. /\ At(q, LastPos(q)) \in S \cup {-1} /\ At(q, LastPos(q)) \in Int
        /\ \A n \in S \cup {-1} : n <= At(q, LastPos(q)) /\ n \in Int
    BY <1>2, LastIsNewest, Zenon
  <2>2. \A x \in S \cup {-1} : (\A n \in S \cup {-1} : x >= n) => x = At(q, LastPos(q))
    BY <2>1
  <2>3. AtInitiator!Max(S \cup {-1}) = At(q, LastPos(q))
    BY <2>1, <2>2 DEF AtInitiator!Max
  <2> QED
    BY <2>3 DEF AtInitiator!Newest, S
<1>4. \/ recorded'["initiator"] = S /\ last'["initiator"] = last["initiator"]
      \/ \E n \in SeqNum :
           WindowStep(S, recorded'["initiator"], last'["initiator"], AtInitiator!Newest, n)
  BY <1>1, <1>3, PeerStep
<1>5. ASSUME NEW n \in SeqNum,
             WindowStep(S, recorded'["initiator"], last'["initiator"], AtInitiator!Newest, n)
      PROVE  AtInitiator!Next
  BY <1>5 DEF WindowStep, AtInitiator!Next, AtInitiator!RecordNew, AtInitiator!RecordLate,
              AtInitiator!ReportDuplicate, AtInitiator!Refuse, AtInitiator!Report
<1> QED
  BY <1>4, <1>5 DEF AtInitiator!vars

LEMMA AcceptorStep ==
  ASSUME ProtectionInv, DoSequence, [Next]_vars
  PROVE  [AtAcceptor!Next]_(AtAcceptor!vars)
<1> DEFINE q == ctx["acceptor"].seqState
           S == recorded["acceptor"]
<1>1. "acceptor" \in Peers
  BY DEF Peers
<1>2. RingSound(q, S)
  BY <1>1 DEF ProtectionInv, RingsInv
<1>3. AtAcceptor!Newest = At(q, LastPos(q))
  <2> HIDE DEF q, S
  <2>1. /\ At(q, LastPos(q)) \in S \cup {-1} /\ At(q, LastPos(q)) \in Int
        /\ \A n \in S \cup {-1} : n <= At(q, LastPos(q)) /\ n \in Int
    BY <1>2, LastIsNewest, Zenon
  <2>2. \A x \in S \cup {-1} : (\A n \in S \cup {-1} : x >= n) => x = At(q, LastPos(q))
    BY <2>1
  <2>3. AtAcceptor!Max(S \cup {-1}) = At(q, LastPos(q))
    BY <2>1, <2>2 DEF AtAcceptor!Max
  <2> QED
    BY <2>3 DEF AtAcceptor!Newest, S
<1>4. \/ recorded'["acceptor"] = S /\ last'["acceptor"] = last["acceptor"]
      \/ \E n \in SeqNum :
           WindowStep(S, recorded'["acceptor"], last'["acceptor"], AtAcceptor!Newest, n)
  BY <1>1, <1>3, PeerStep
<1>5. ASSUME NEW n \in SeqNum,
             WindowStep(S, recorded'["acceptor"], last'["acceptor"], AtAcceptor!Newest, n)
      PROVE  AtAcceptor!Next
  BY <1>5 DEF WindowStep, AtAcceptor!Next, AtAcceptor!RecordNew, AtAcceptor!RecordLate,
              AtAcceptor!ReportDuplicate, AtAcceptor!Refuse, AtAcceptor!Report
<1> QED
  BY <1>4, <1>5 DEF AtAcceptor!vars

\* sequenceCheck keeps the promise of ReplayWindow at both peers: no number is
\* recorded twice, no new number is refused, and the status is the true one.  With
\* replay detection alone GSS_S_GAP_TOKEN and GSS_S_UNSEQ_TOKEN are not reported,
\* so sequencing is assumed.
THEOREM RingImplementsWindow ==
  ASSUME DoSequence
  PROVE  Spec => KeepsWindow
<1>1. Init => AtInitiator!Init /\ AtAcceptor!Init
  BY DEF Init, Peers, AtInitiator!Init, AtAcceptor!Init
<1>2. ProtectionInv /\ [Next]_vars => /\ [AtInitiator!Next]_(AtInitiator!vars)
                                      /\ [AtAcceptor!Next]_(AtAcceptor!vars)
  BY InitiatorStep, AcceptorStep
<1>3. Spec => []ProtectionInv
  BY ProtectionInvariant
<1> QED
  BY <1>1, <1>2, <1>3, PTL DEF Spec, KeepsWindow, AtInitiator!Spec, AtAcceptor!Spec

LEMMA ReturnedStep ==
  ASSUME ProtectionInv, DoReplay \/ DoSequence, [Next]_vars, NEW u \in DOMAIN returned,
         returned'[u] > returned[u]
  PROVE  \E i \in 0 .. QSize - 1 : ctx[Other(u.from)].seqState.elem[i] = u.seq
<1>1. returned[u] \in Nat /\ u.seq \in recorded[Other(u.from)]
  BY DEF ProtectionInv, ReturnedInv
<1>2. returned' # returned
  BY <1>1
<1>3. PICK p \in Peers, t \in net : UnwrapToken(p, t)
  BY <1>2 DEF Next, vars, WrapOrGetMIC, ExportSecContext, ImportSecContext
<1>4. PICK c :
         /\ Finds(ctx[p].seqState, recorded[p], t.seq, c)
         /\ returned' = IF c.verdict = "FAILURE" THEN returned ELSE Returned(t)
         /\ t.from = Other(p)
  BY <1>3, UnwrapFinds
<1>5. u = t /\ c.verdict # "FAILURE"
  BY <1>1, <1>2, <1>4 DEF Returned
<1>6. Other(u.from) = p
  BY <1>4, <1>5 DEF Other, Peers
<1>7. FindsHeld(ctx[p].seqState, recorded[p], t.seq, c)
  BY <1>1, <1>4, <1>5, <1>6 DEF Finds, FindsNew, FindsLate, FindsOld
<1> QED
  BY <1>5, <1>6, <1>7 DEF FindsHeld

\* unwrapToken returns a token to the application again only while the ring holds
\* its number: every older one is refused.
THEOREM RepeatedOnlyInWindow ==
  ASSUME DoReplay \/ DoSequence
  PROVE  Spec => ReplayOnlyInWindow
<1> DEFINE Step == \A t \in DOMAIN returned :
                      returned'[t] > returned[t] =>
                        \E i \in 0 .. QSize - 1 : ctx[Other(t.from)].seqState.elem[i] = t.seq
<1>1. ProtectionInv /\ [Next]_vars => Step
  BY ReturnedStep
<1>2. Spec => []ProtectionInv
  BY ProtectionInvariant
<1>3. Step => [Step]_vars
  OBVIOUS
<1> QED
  BY <1>1, <1>2, PTL DEF Spec, ReplayOnlyInWindow

-----------------------------------------------------------------------------
(***************************************************************************)
(* The rep invariant that util_ordering.c states, with the number of       *)
(* elements that the ring holds.                                           *)
(***************************************************************************)
LEMMA MinIs ==
  ASSUME NEW a \in Nat, NEW b \in Nat, a <= b
  PROVE  Min({a, b}) = a
<1>1. \A x \in {a, b} : (\A y \in {a, b} : x =< y) => x = a
  OBVIOUS
<1>2. \A y \in {a, b} : a =< y
  OBVIOUS
<1> QED
  BY <1>1, <1>2 DEF Min

LEMMA ContentOf ==
  ASSUME NEW q \in Queue
  PROVE  /\ Content(q) = [k \in 1 .. q.length |-> At(q, q.start + k - 1)]
         /\ \A k \in 1 .. q.length : q.start + k - 1 \in Positions(q)
         /\ \A p \in Positions(q) : p - q.start + 1 \in 1 .. q.length /\ q.start + (p - q.start + 1) - 1 = p
<1>1. Content(q) = [k \in 1 .. q.length |-> At(q, q.start + k - 1)]
  BY DEF Content, At, Val
<1>2. q.start \in Int /\ q.length \in Int
  BY QueueFields
<1>3. \A a, n \in Int :
        /\ \A k \in 1 .. n : a + k - 1 \in a .. a + n - 1
        /\ \A p \in a .. a + n - 1 : p - a + 1 \in 1 .. n /\ a + (p - a + 1) - 1 = p
  OBVIOUS
<1>4. Positions(q) = q.start .. q.start + q.length - 1
  BY DEF Positions, LastPos
<1> QED
  BY <1>1, <1>2, <1>3, <1>4

LEMMA RingIsRep ==
  ASSUME NEW q, NEW S, RingSound(q, S), S \subseteq SeqNum
  PROVE  LET c == Content(q)
             held == {c[k] : k \in DOMAIN c}
             all == S \cup {-1}
         IN  /\ q \in Queue
             /\ \A k \in DOMAIN c : k + 1 \in DOMAIN c => c[k] < c[k + 1]
             /\ held \subseteq all
             /\ Cardinality(held) = Min({QSize, Cardinality(all)})
             /\ \A n \in all \ held : \A h \in held : n < h
<1> DEFINE c == Content(q)
           held == {c[k] : k \in DOMAIN c}
           all == S \cup {-1}
<1>1. q \in Queue /\ q.length \in Nat /\ q.length <= QSize /\ q.start \in Positions(q)
  BY QueueFields, Powers DEF RingSound
<1>2. /\ DOMAIN c = 1 .. q.length
      /\ \A k \in DOMAIN c : c[k] = At(q, q.start + k - 1) /\ q.start + k - 1 \in Positions(q)
  BY <1>1, ContentOf
<1>3. \A p \in Positions(q) : At(q, p) \in held
  BY <1>1, <1>2, ContentOf
<1>4. \A p \in Positions(q) : p \in Int /\ At(q, p) \in Int
  BY <1>1, QueueFields, ElemType, Powers
<1>5. q.start \in Int
  BY <1>1, <1>4
<1> HIDE DEF c
<1>6. \A j, k \in DOMAIN c : j < k => c[j] < c[k]
  <2>1. \A j, k \in 1 .. q.length : j < k => q.start + j - 1 < q.start + k - 1
    BY <1>1, <1>5
  <2> QED
    BY <1>2, <2>1 DEF RingSound, Sorted
<1>7. held \subseteq all
  BY <1>2 DEF RingSound, HoldsOnly
<1>8. IsFiniteSet(all) /\ Cardinality(all) \in Nat
  <2>1. IsFiniteSet(SeqNum)
    BY FS_Interval, Powers DEF SeqNum
  <2>2. IsFiniteSet(S)
    BY <2>1, FS_Subset
  <2> QED
    BY <2>2, FS_AddElement, FS_CardinalityType
<1>9. IsFiniteSet(held) /\ Cardinality(held) = q.length /\ Cardinality(held) <= Cardinality(all)
  <2>1. IsFiniteSet(1 .. q.length) /\ Cardinality(1 .. q.length) = q.length
    BY <1>1, FS_Interval
  <2> DEFINE f == [k \in 1 .. q.length |-> c[k]]
  <2>2. f \in Bijection(1 .. q.length, held)
    <3>1. \A j, k \in 1 .. q.length : c[j] = c[k] => j = k
      <4>1. \A k \in 1 .. q.length : c[k] \in Int
        BY <1>2, <1>4
      <4> QED
        BY <1>2, <1>6, <4>1
    <3> QED
      BY <1>2, <3>1 DEF Bijection, Injection, Surjection, IsInjective
  <2>3. ExistsBijection(1 .. q.length, held)
    BY <2>2 DEF ExistsBijection
  <2>4. IsFiniteSet(held) /\ Cardinality(held) = q.length
    BY <2>1, <2>3, FS_Bijection
  <2> QED
    BY <1>7, <1>8, <2>4, FS_Subset
<1>10. Cardinality(held) = Min({QSize, Cardinality(all)})
  <2>1. CASE q.length = QSize
    BY <1>1, <1>8, <1>9, <2>1, MinIs
  <2>2. CASE q.length # QSize
    <3>1. all \subseteq held
      BY <1>3, <2>2 DEF RingSound, HoldsNewest
    <3>2. all = held
      BY <1>7, <3>1
    <3>3. Cardinality(all) <= QSize
      BY <1>1, <1>9, <3>2
    <3>4. {QSize, Cardinality(all)} = {Cardinality(all), QSize}
      OBVIOUS
    <3> QED
      BY <1>8, <3>2, <3>3, <3>4, MinIs, Powers
  <2> QED
    BY <2>1, <2>2
<1>11. ASSUME NEW n \in all \ held, NEW h \in held
       PROVE  n < h
  <2>1. n < At(q, q.start)
    BY <1>3 DEF RingSound, HoldsNewest
  <2>2. PICK k \in DOMAIN c : h = c[k]
    OBVIOUS
  <2>3. h = At(q, q.start + k - 1) /\ q.start + k - 1 \in Positions(q)
    BY <1>2, <2>2
  <2>4. At(q, q.start) <= h
    <3>1. k \in Int /\ k >= 1
      BY <1>2
    <3>2. q.start + k - 1 = q.start \/ q.start < q.start + k - 1
      BY <1>5, <3>1
    <3> QED
      BY <1>1, <1>4, <2>3, <3>2 DEF RingSound, Sorted
  <2>5. n \in Int
    BY Powers DEF SeqNum
  <2> QED
    BY <1>1, <1>4, <2>1, <2>3, <2>4, <2>5
<1>12. \A k \in DOMAIN c : k + 1 \in DOMAIN c => c[k] < c[k + 1]
  <2>1. \A k \in DOMAIN c : k < k + 1
    BY <1>2
  <2> QED
    BY <1>6, <2>1
<1> HIDE DEF held, all
<1>13. \A n \in all \ held : \A h \in held : n < h
  BY <1>11
<1> QED
  BY <1>1, <1>7, <1>10, <1>12, <1>13 DEF held, all, c

\* "the first element is the oldest. The last element is the newest"
\* (util_ordering.c): the ring is sorted and holds exactly the newest numbers, as
\* many as fit.
THEOREM RepKept ==
  ASSUME DoReplay \/ DoSequence
  PROVE  Spec => []RepInvariant
<1>1. ASSUME ProtectionInv
      PROVE  RepInvariant
  <2>1. \A p \in Peers : RingSound(ctx[p].seqState, recorded[p]) /\ recorded[p] \subseteq SeqNum
    BY <1>1 DEF ProtectionInv, RingsInv, TypeOK
  <2> QED
    BY <2>1, RingIsRep DEF RepInvariant
<1>2. Spec => []ProtectionInv
  BY ProtectionInvariant
<1> QED
  BY <1>1, <1>2, PTL

\* Every variable keeps its type, and the ring stays within its array.
THEOREM ProtectionTypes ==
  ASSUME DoReplay \/ DoSequence
  PROVE  Spec => []TypeOK
<1>1. ProtectionInv => TypeOK
  BY DEF ProtectionInv
<1>2. Spec => []ProtectionInv
  BY ProtectionInvariant
<1> QED
  BY <1>1, <1>2, PTL
=============================================================================
