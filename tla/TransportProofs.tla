---------------------------- MODULE TransportProofs -----------------------------
(***************************************************************************)
(* What the proofs of both ends need of the data they use: the extrema     *)
(* that Max and Min choose, when two sequence numbers share a slot, and    *)
(* what the operations on the timeout queues return.                       *)
(***************************************************************************)
EXTENDS Transport, EventQueue, FiniteSetsExt, WellFoundedInduction, SequenceTheorems,
        FiniteSetTheorems, TLAPS

\* Every set of naturals with an element has a least one.
LEMMA LeastNatural ==
    ASSUME NEW T \in SUBSET Nat, T # {}
    PROVE  \E x \in T : \A y \in T : x <= y
<1> DEFINE R == OpToRel(<, Nat)
<1>1. IsWellFoundedOn(R, Nat)
  BY NatLessThanWellFounded
<1>2. \A x, y \in Nat : y < x => <<y, x>> \in R
  BY DEF OpToRel
<1> HIDE DEF R
<1>3. PICK x \in T : \A y \in T : ~ (<<y, x>> \in R)
  BY <1>1, WFMin
<1>4. ASSUME NEW y \in T PROVE x <= y
  <2>1. x \in Nat /\ y \in Nat
    OBVIOUS
  <2>2. ~ (y < x)
    BY <1>2, <1>3, <2>1
  <2> QED BY <2>1, <2>2
<1> QED BY <1>4

\* Max of a set of integers that has an element and an upper bound.
LEMMA MaxOfBounded ==
    ASSUME NEW T \in SUBSET Int, T # {}, NEW b \in Int, \A x \in T : x <= b
    PROVE  Max(T) \in T /\ \A x \in T : Max(T) >= x
<1> DEFINE D == {b - x : x \in T}
<1>1. D \in SUBSET Nat
  <2>1. ASSUME NEW x \in T PROVE b - x \in Nat
    <3>1. x \in Int /\ x <= b
      OBVIOUS
    <3> QED BY <3>1
  <2> QED BY <2>1
<1>2. PICK d \in D : \A e \in D : d <= e
  <2>1. D # {}
    OBVIOUS
  <2> HIDE DEF D
  <2> QED BY <1>1, <2>1, LeastNatural
<1>3. PICK m \in T : d = b - m
  OBVIOUS
<1>4. ASSUME NEW x \in T PROVE m >= x
  <2>1. b - m <= b - x
    BY <1>2, <1>3
  <2>2. m \in Int /\ x \in Int
    OBVIOUS
  <2> QED BY <2>1, <2>2
<1> QED BY <1>4, Zenon DEF Max

\* Max and Min of two numbers.
LEMMA MaxOfTwo ==
    ASSUME NEW a \in Int, NEW b \in Int
    PROVE  Max({a, b}) = IF a >= b THEN a ELSE b
<1> DEFINE m == IF a >= b THEN a ELSE b
<1>1. m \in {a, b} /\ \A y \in {a, b} : m >= y
  OBVIOUS
<1>2. \A x \in {a, b} : (\A y \in {a, b} : x >= y) => x = m
  OBVIOUS
<1> HIDE DEF m
<1>3. Max({a, b}) = m
  BY <1>1, <1>2, Zenon DEF Max
<1> QED BY <1>3 DEF m

LEMMA MinOfTwo ==
    ASSUME NEW a \in Int, NEW b \in Int
    PROVE  Min({a, b}) = IF a <= b THEN a ELSE b
<1> DEFINE m == IF a <= b THEN a ELSE b
<1>1. m \in {a, b} /\ \A y \in {a, b} : m <= y
  OBVIOUS
<1>2. \A x \in {a, b} : (\A y \in {a, b} : x <= y) => x = m
  OBVIOUS
<1> HIDE DEF m
<1>3. Min({a, b}) = m
  BY <1>1, <1>2, Zenon DEF Min
<1> QED BY <1>3 DEF m

-------------------------------------------------------------------------------
\* Every sequence number has a slot.
LEMMA SlotType == ASSUME NEW seq \in Nat PROVE Slot(seq) \in Slots
BY SWSAssumption DEF Slot, Slots

\* Two sequence numbers less than the size of the array apart have two slots.
LEMMA SlotsDiffer ==
    ASSUME NEW i \in Nat, NEW j \in Nat, i - j < SWS, j - i < SWS, Slot(i) = Slot(j)
    PROVE  i = j
<1> DEFINE qi == i \div SWS
           qj == j \div SWS
<1>1. /\ i = SWS * qi + (i % SWS)
      /\ j = SWS * qj + (j % SWS)
      /\ qi \in Int /\ qj \in Int
  BY SWSAssumption
<1> HIDE DEF qi, qj
<1>2. i - j = SWS * (qi - qj)
  BY <1>1, SWSAssumption DEF Slot
<1>3. qi - qj = 0
  <2>1. SUFFICES ASSUME qi - qj >= 1 \/ qj - qi >= 1 PROVE FALSE
    BY <1>1
  <2>2. CASE qi - qj >= 1
    <3>1. SWS * (qi - qj) >= SWS
      BY <1>1, <2>2, SWSAssumption
    <3> QED BY <1>1, <1>2, <3>1, SWSAssumption
  <2>3. CASE qj - qi >= 1
    <3>1. SWS * (qi - qj) <= 0 - SWS
      BY <1>1, <2>3, SWSAssumption
    <3> QED BY <1>1, <1>2, <3>1, SWSAssumption
  <2> QED BY <2>1, <2>2, <2>3
<1> QED BY <1>1, <1>2, <1>3, SWSAssumption

-------------------------------------------------------------------------------
(* The timeout queues, as sequences of slots from any set S.               *)

\* A sequence with a length other than zero has an element.
LEMMA NonEmptyByLength ==
    ASSUME NEW S, NEW q \in Seq(S), Len(q) # 0
    PROVE  q # <<>>
<1>1. Len(<<>>) = 0
  OBVIOUS
<1> QED BY <1>1

\* An entry of a queue is one of its slots; the last one exists when any does.
LEMMA QueueEntries ==
    ASSUME NEW S, NEW q \in Seq(S)
    PROVE  /\ Queued(q) \subseteq S
           /\ q # <<>> => Len(q) \in 1 .. Len(q) /\ Last(q) \in S /\ Last(q) \in Queued(q)
<1>1. \A i \in 1 .. Len(q) : q[i] \in S
  BY ElementOfSeq
<1>2. Queued(q) \subseteq S
  BY <1>1 DEF Queued, ToSet
<1>3. ASSUME q # <<>> PROVE Len(q) \in 1 .. Len(q) /\ Last(q) \in S /\ Last(q) \in Queued(q)
  <2>1. Len(q) \in Nat /\ Len(q) # 0
    BY <1>3, EmptySeq, LenProperties
  <2>2. Len(q) \in 1 .. Len(q)
    BY <2>1
  <2> QED BY <1>1, <2>2, LenProperties DEF Last, Queued, ToSet
<1> QED BY <1>2, <1>3

\* queue_evt makes a queue with at least the new entry.
LEMMA QueueSendType ==
    ASSUME NEW S, NEW q \in Seq(S), NEW type, NEW s \in S, NEW r \in QueueSend(q, type, s)
    PROVE  r \in Seq(S) /\ r # <<>>
<1>1. CASE r = <<s>> \o q
  BY <1>1
<1>2. CASE \E i \in 1 .. Len(q) : r = InsertAt(q, i + 1, s)
  <2>1. PICK i \in 1 .. Len(q) : r = InsertAt(q, i + 1, s)
    BY <1>2
  <2> DEFINE front == SubSeq(q, 1, i)
             back  == SubSeq(q, i + 1, Len(q))
  <2>2. r = SubSeq(q, 1, i) \o <<s>> \o SubSeq(q, i + 1, Len(q))
    <3>1. (i + 1) - 1 = i
      OBVIOUS
    <3>2. r = SubSeq(q, 1, (i + 1) - 1) \o <<s>> \o SubSeq(q, i + 1, Len(q))
      BY <2>1, Zenon DEF InsertAt
    <3> QED BY <3>1, <3>2, Zenon
  <2>3. front \in Seq(S) /\ back \in Seq(S)
    BY LenProperties
  <2> HIDE DEF front, back
  <2>4. r = front \o <<s>> \o back
    BY <2>2 DEF front, back
  <2>5. r \in Seq(S)
    BY <2>3, <2>4
  <2>6. Len(r) = Len(front) + 1 + Len(back) /\ Len(front) \in Nat /\ Len(back) \in Nat
    BY <2>3, <2>4, LenProperties
  <2>7. Len(r) # 0
    BY <2>6
  <2> QED BY <2>5, <2>7, NonEmptyByLength, Zenon
<1> QED BY <1>1, <1>2 DEF QueueSend

\* dequeue_evt makes a queue.
LEMMA DequeueType ==
    ASSUME NEW S, NEW q \in Seq(S), NEW s, NEW r \in Dequeue(q, s)
    PROVE  r \in Seq(S)
<1>1. PICK i \in 1 .. Len(q) : r = RemoveAt(q, i)
  BY DEF Dequeue
<1>2. r = SubSeq(q, 1, i - 1) \o SubSeq(q, i + 1, Len(q))
  BY <1>1 DEF RemoveAt
<1>3. SubSeq(q, 1, i - 1) \in Seq(S) /\ SubSeq(q, i + 1, Len(q)) \in Seq(S)
  BY LenProperties
<1> QED BY <1>2, <1>3

\* congestion_timer splits EQ_Tail: the rest stays, and the batch, which is not
\* empty, goes in front of EQ_Head.
LEMMA BatchType ==
    ASSUME NEW S, NEW t \in Seq(S), NEW h \in Seq(S), NEW type, NEW hs,
           NEW n \in CongestionStart(t, type, hs)
    PROVE  /\ SubSeq(t, 1, n - 1) \in Seq(S)
           /\ SubSeq(t, n, Len(t)) \in Seq(S)
           /\ QueueRetransmit(h, SubSeq(t, n, Len(t))) \in Seq(S)
           /\ QueueRetransmit(h, SubSeq(t, n, Len(t))) # <<>>
<1>1. n \in 1 .. Len(t) /\ Len(t) \in Nat
  BY LenProperties DEF CongestionStart
<1>2. SubSeq(t, 1, n - 1) \in Seq(S) /\ SubSeq(t, n, Len(t)) \in Seq(S)
  BY <1>1
<1>3. Len(SubSeq(t, n, Len(t))) = Len(t) - n + 1
  BY <1>1, SubSeqProperties
<1>4. SubSeq(t, n, Len(t)) # <<>>
  <2>1. Len(SubSeq(t, n, Len(t))) # 0
    BY <1>1, <1>3
  <2> QED BY <1>2, <2>1, NonEmptyByLength, Zenon
<1>5. QueueRetransmit(h, SubSeq(t, n, Len(t))) = SubSeq(t, n, Len(t)) \o h
  BY DEF QueueRetransmit
<1> QED BY <1>2, <1>4, <1>5, ConcatProperties, ConcatEqualIffEmpty

-------------------------------------------------------------------------------
(* Which slots have an entry, and that none has two.                       *)

\* No slot has two entries in q.
Distinct(q) == \A i, j \in 1 .. Len(q) : q[i] = q[j] => i = j

\* No slot has two entries in the two queues together.
Separate(h, t) == Distinct(h) /\ Distinct(t) /\ Queued(h) \cap Queued(t) = {}

\* An entry has a place.
LEMMA QueuedPlace ==
    ASSUME NEW S, NEW q \in Seq(S)
    PROVE  /\ \A i \in 1 .. Len(q) : q[i] \in Queued(q)
           /\ \A s \in Queued(q) : \E i \in 1 .. Len(q) : q[i] = s
<1>1. DOMAIN q = 1 .. Len(q)
  BY LenProperties
<1> QED BY <1>1 DEF Queued, ToSet

LEMMA QueuedOne ==
    ASSUME NEW S, NEW s \in S
    PROVE  <<s>> \in Seq(S) /\ Queued(<<s>>) = {s} /\ Distinct(<<s>>)
<1>1. <<s>> \in Seq(S) /\ Len(<<s>>) = 1 /\ <<s>>[1] = s
  OBVIOUS
<1>2. Queued(<<s>>) = {s}
  <2>1. DOMAIN <<s>> = {1}
    BY <1>1
  <2> QED BY <1>1, <2>1, Zenon DEF Queued, ToSet
<1> QED BY <1>1, <1>2 DEF Distinct

\* Putting one queue behind another.
LEMMA ConcatEntries ==
    ASSUME NEW S, NEW a \in Seq(S), NEW b \in Seq(S)
    PROVE  /\ a \o b \in Seq(S)
           /\ Queued(a \o b) = Queued(a) \cup Queued(b)
           /\ Distinct(a \o b) <=> Separate(a, b)
<1> DEFINE q == a \o b
<1>1. /\ q \in Seq(S) /\ Len(q) = Len(a) + Len(b) /\ Len(a) \in Nat /\ Len(b) \in Nat
      /\ \A i \in 1 .. Len(q) : q[i] = IF i <= Len(a) THEN a[i] ELSE b[i - Len(a)]
  BY ConcatProperties, LenProperties
<1> HIDE DEF q
<1>2. \A i \in 1 .. Len(a) : i \in 1 .. Len(q) /\ q[i] = a[i]
  BY <1>1
<1>3. \A i \in 1 .. Len(b) : Len(a) + i \in 1 .. Len(q) /\ q[Len(a) + i] = b[i]
  <2> SUFFICES ASSUME NEW i \in 1 .. Len(b)
               PROVE  Len(a) + i \in 1 .. Len(q) /\ q[Len(a) + i] = b[i]
    OBVIOUS
  <2>1. Len(a) + i \in 1 .. Len(q) /\ ~(Len(a) + i <= Len(a)) /\ (Len(a) + i) - Len(a) = i
    BY <1>1
  <2> QED BY <1>1, <2>1
<1>4. \A i \in 1 .. Len(q) : \/ i \in 1 .. Len(a) /\ q[i] = a[i]
                             \/ i - Len(a) \in 1 .. Len(b) /\ q[i] = b[i - Len(a)]
  BY <1>1
<1>5. Queued(q) = Queued(a) \cup Queued(b)
  <2>1. ASSUME NEW s \in Queued(q) PROVE s \in Queued(a) \cup Queued(b)
    <3>1. PICK i \in 1 .. Len(q) : q[i] = s
      BY <1>1, QueuedPlace
    <3> QED BY <1>4, <3>1, QueuedPlace
  <2>2. ASSUME NEW s \in Queued(a) PROVE s \in Queued(q)
    BY <1>1, <1>2, QueuedPlace
  <2>3. ASSUME NEW s \in Queued(b) PROVE s \in Queued(q)
    <3>1. PICK i \in 1 .. Len(b) : b[i] = s
      BY QueuedPlace
    <3>2. Len(a) + i \in 1 .. Len(q) /\ q[Len(a) + i] = s
      BY <1>3, <3>1
    <3> QED BY <1>1, <3>2, QueuedPlace
  <2> QED BY <2>1, <2>2, <2>3
<1>6. ASSUME Distinct(q) PROVE Separate(a, b)
  <2>1. Distinct(a)
    BY <1>2, <1>6 DEF Distinct
  <2>2. Distinct(b)
    <3> SUFFICES ASSUME NEW i \in 1 .. Len(b), NEW j \in 1 .. Len(b), b[i] = b[j]
                 PROVE  i = j
      BY DEF Distinct
    <3>1. Len(a) + i = Len(a) + j
      BY <1>3, <1>6 DEF Distinct
    <3> QED BY <1>1, <3>1
  <2>3. Queued(a) \cap Queued(b) = {}
    <3> SUFFICES ASSUME NEW s \in Queued(a), s \in Queued(b) PROVE FALSE
      OBVIOUS
    <3>1. PICK i \in 1 .. Len(a) : a[i] = s
      BY QueuedPlace
    <3>2. PICK j \in 1 .. Len(b) : b[j] = s
      BY QueuedPlace
    <3>3. i = Len(a) + j
      BY <1>2, <1>3, <1>6, <3>1, <3>2 DEF Distinct
    <3> QED BY <1>1, <3>3
  <2> QED BY <2>1, <2>2, <2>3 DEF Separate
<1>7. ASSUME Separate(a, b) PROVE Distinct(q)
  <2> SUFFICES ASSUME NEW i \in 1 .. Len(q), NEW j \in 1 .. Len(q), q[i] = q[j]
               PROVE  i = j
    BY DEF Distinct
  <2>1. CASE i \in 1 .. Len(a) /\ j \in 1 .. Len(a)
    BY <1>2, <1>7, <2>1 DEF Separate, Distinct
  <2>2. CASE i - Len(a) \in 1 .. Len(b) /\ j - Len(a) \in 1 .. Len(b)
    <3>1. b[i - Len(a)] = b[j - Len(a)]
      BY <1>1, <2>2
    <3>2. i - Len(a) = j - Len(a)
      BY <1>7, <2>2, <3>1 DEF Separate, Distinct
    <3> QED BY <1>1, <3>2
  <2>3. ASSUME NEW k \in 1 .. Len(q), NEW l \in 1 .. Len(q), q[k] = q[l],
               k \in 1 .. Len(a), l - Len(a) \in 1 .. Len(b)
        PROVE  FALSE
    <3>1. q[k] = a[k] /\ q[l] = b[l - Len(a)]
      BY <1>1, <2>3
    <3>2. q[k] \in Queued(a) /\ q[k] \in Queued(b)
      BY <2>3, <3>1, QueuedPlace
    <3> QED BY <1>7, <3>2 DEF Separate
  <2> QED BY <1>4, <2>1, <2>2, <2>3
<1> QED BY <1>1, <1>5, <1>6, <1>7 DEF q

\* A queue is what lies up to a place and what lies behind it.
LEMMA SplitQueue ==
    ASSUME NEW S, NEW q \in Seq(S), NEW i \in 0 .. Len(q)
    PROVE  /\ SubSeq(q, 1, i) \in Seq(S) /\ SubSeq(q, i + 1, Len(q)) \in Seq(S)
           /\ q = SubSeq(q, 1, i) \o SubSeq(q, i + 1, Len(q))
<1>1. Len(q) \in Nat
  BY LenProperties
<1>2. SubSeq(q, 1, i) \in Seq(S) /\ SubSeq(q, i + 1, Len(q)) \in Seq(S)
  BY <1>1
<1>3. SubSeq(q, 1, i) \o SubSeq(q, i + 1, Len(q)) = SubSeq(q, 1, Len(q))
  <2>1. 1 \in 1 .. Len(q) + 1 /\ i \in 1 - 1 .. Len(q) /\ Len(q) \in i .. Len(q)
    BY <1>1
  <2> QED BY <2>1, ConcatAdjacentSubSeq
<1> QED BY <1>2, <1>3, SubSeqFull

\* A slot between two parts of a queue.
LEMMA MiddleEntries ==
    ASSUME NEW S, NEW a \in Seq(S), NEW b \in Seq(S), NEW s \in S
    PROVE  /\ a \o <<s>> \o b \in Seq(S)
           /\ Queued(a \o <<s>> \o b) = Queued(a \o b) \cup {s}
           /\ Distinct(a \o <<s>> \o b) <=> Distinct(a \o b) /\ s \notin Queued(a \o b)
<1>1. <<s>> \in Seq(S) /\ Queued(<<s>>) = {s} /\ Distinct(<<s>>)
  BY QueuedOne
<1> DEFINE one == <<s>>
<1> HIDE DEF one
<1>2. one \in Seq(S) /\ Queued(one) = {s} /\ Distinct(one)
  BY <1>1 DEF one
<1> DEFINE as == a \o one
<1>3. /\ as \in Seq(S) /\ Queued(as) = Queued(a) \cup {s}
      /\ Distinct(as) <=> Separate(a, one)
  BY <1>2, ConcatEntries
<1> HIDE DEF as
<1>4. /\ as \o b \in Seq(S) /\ Queued(as \o b) = Queued(as) \cup Queued(b)
      /\ Distinct(as \o b) <=> Separate(as, b)
  BY <1>3, ConcatEntries
<1>5. Queued(a \o b) = Queued(a) \cup Queued(b) /\ (Distinct(a \o b) <=> Separate(a, b))
  BY ConcatEntries
<1>6. Distinct(as \o b) <=> Distinct(a \o b) /\ s \notin Queued(a \o b)
  BY <1>2, <1>3, <1>4, <1>5 DEF Separate
<1>7. Queued(as \o b) = Queued(a \o b) \cup {s}
  BY <1>3, <1>4, <1>5
<1> QED BY <1>4, <1>6, <1>7 DEF as, one

\* queue_evt adds an entry of the frame's slot and loses none.
LEMMA QueueSendEntries ==
    ASSUME NEW S, NEW q \in Seq(S), NEW type, NEW s \in S, NEW r \in QueueSend(q, type, s)
    PROVE  /\ Queued(r) = Queued(q) \cup {s}
           /\ Distinct(q) /\ s \notin Queued(q) => Distinct(r)
<1>1. CASE r = <<s>> \o q
  <2> DEFINE one == <<s>>
  <2>1. one \in Seq(S) /\ Queued(one) = {s} /\ Distinct(one) /\ r = one \o q
    BY <1>1, QueuedOne
  <2> HIDE DEF one
  <2>2. /\ Queued(r) = Queued(one) \cup Queued(q)
        /\ Distinct(r) <=> Separate(one, q)
    BY <2>1, ConcatEntries
  <2> QED BY <2>1, <2>2 DEF Separate
<1>2. CASE \E i \in 1 .. Len(q) : r = InsertAt(q, i + 1, s)
  <2>1. PICK i \in 1 .. Len(q) : r = InsertAt(q, i + 1, s)
    BY <1>2
  <2> DEFINE front == SubSeq(q, 1, i)
             back  == SubSeq(q, i + 1, Len(q))
  <2>2. r = front \o <<s>> \o back
    <3>1. (i + 1) - 1 = i
      OBVIOUS
    <3>2. r = SubSeq(q, 1, (i + 1) - 1) \o <<s>> \o SubSeq(q, i + 1, Len(q))
      BY <2>1, Zenon DEF InsertAt
    <3> QED BY <3>1, <3>2, Zenon
  <2>3. front \in Seq(S) /\ back \in Seq(S) /\ q = front \o back
    <3>1. i \in 0 .. Len(q)
      BY LenProperties
    <3> QED BY <3>1, SplitQueue
  <2> HIDE DEF front, back
  <2> QED BY <2>2, <2>3, MiddleEntries
<1> QED BY <1>1, <1>2 DEF QueueSend

\* dequeue_evt removes the entry of the slot and no other.
LEMMA DequeueEntries ==
    ASSUME NEW S, NEW q \in Seq(S), NEW s, NEW r \in Dequeue(q, s), Distinct(q)
    PROVE  Queued(r) = Queued(q) \ {s} /\ Distinct(r)
<1>1. PICK i \in 1 .. Len(q) : q[i] = s /\ r = RemoveAt(q, i)
  BY DEF Dequeue
<1> DEFINE front == SubSeq(q, 1, i - 1)
           back  == SubSeq(q, i + 1, Len(q))
<1>2. r = front \o back
  BY <1>1 DEF RemoveAt
<1>3. front \in Seq(S) /\ back \in Seq(S) /\ s \in S /\ q = front \o <<s>> \o back
  <2>1. Len(q) \in Nat /\ s \in S
    BY <1>1, LenProperties, ElementOfSeq
  <2>2. /\ SubSeq(q, 1, i) \in Seq(S) /\ back \in Seq(S)
        /\ q = SubSeq(q, 1, i) \o back
    <3>1. i \in 0 .. Len(q)
      BY <2>1
    <3> QED BY <3>1, SplitQueue
  <2>3. SubSeq(q, 1, i) = front \o <<s>>
    <3>1. 1 \in 1 .. Len(q) /\ i \in 1 .. Len(q)
      BY <2>1
    <3> QED BY <1>1, <3>1, SubSeqRecursiveSecond
  <2>4. front \in Seq(S)
    BY <2>1
  <2> QED BY <2>1, <2>2, <2>3, <2>4
<1> HIDE DEF front, back
<1>4. /\ Queued(q) = Queued(r) \cup {s}
      /\ Distinct(r) /\ s \notin Queued(r)
  BY <1>2, <1>3, MiddleEntries
<1> QED BY <1>4

\* congestion_timer moves the batch from one queue to the other: every slot keeps
\* its one entry.
LEMMA BatchEntries ==
    ASSUME NEW S, NEW t \in Seq(S), NEW h \in Seq(S), Separate(h, t), NEW type, NEW hs,
           NEW n \in CongestionStart(t, type, hs)
    PROVE  LET rest  == SubSeq(t, 1, n - 1)
               batch == SubSeq(t, n, Len(t))
           IN  /\ Separate(QueueRetransmit(h, batch), rest)
               /\ Queued(QueueRetransmit(h, batch)) = Queued(batch) \cup Queued(h)
               /\ Queued(t) = Queued(rest) \cup Queued(batch)
               /\ Queued(rest) \cap Queued(batch) = {}
<1> DEFINE rest  == SubSeq(t, 1, n - 1)
           batch == SubSeq(t, n, Len(t))
<1>1. rest \in Seq(S) /\ batch \in Seq(S) /\ t = rest \o batch
  <2>1. n \in 1 .. Len(t) /\ Len(t) \in Nat
    BY LenProperties DEF CongestionStart
  <2>2. n - 1 \in 0 .. Len(t) /\ (n - 1) + 1 = n
    BY <2>1
  <2> QED BY <2>2, SplitQueue
<1> HIDE DEF rest, batch
<1>2. Queued(t) = Queued(rest) \cup Queued(batch) /\ Separate(rest, batch)
  BY <1>1, ConcatEntries DEF Separate
<1>3. QueueRetransmit(h, batch) = batch \o h
  BY DEF QueueRetransmit
<1>4. Separate(batch, h)
  BY <1>2 DEF Separate
<1>5. /\ Queued(batch \o h) = Queued(batch) \cup Queued(h)
      /\ Distinct(batch \o h)
  BY <1>1, <1>4, ConcatEntries
<1>6. Separate(batch \o h, rest)
  BY <1>2, <1>5 DEF Separate
<1> QED BY <1>2, <1>3, <1>5, <1>6 DEF rest, batch, Separate

\* A queue is as long as the number of its slots, when none has two entries.
LEMMA DistinctLength ==
    ASSUME NEW S, NEW q \in Seq(S), Distinct(q)
    PROVE  Len(q) = Cardinality(Queued(q))
<1>1. /\ Len(q) \in Nat /\ q \in [1 .. Len(q) -> Queued(q)]
      /\ \A s \in Queued(q) : \E i \in 1 .. Len(q) : q[i] = s
  BY LenProperties, QueuedPlace
<1>2. q \in Bijection(1 .. Len(q), Queued(q))
  BY <1>1 DEF Distinct, Bijection, Injection, Surjection, IsInjective
<1>3. ExistsBijection(1 .. Len(q), Queued(q))
  BY <1>2 DEF ExistsBijection
<1>4. IsFiniteSet(1 .. Len(q)) /\ Cardinality(1 .. Len(q)) = Len(q)
  <2>1. /\ IsFiniteSet(1 .. Len(q))
        /\ Cardinality(1 .. Len(q)) = IF 1 > Len(q) THEN 0 ELSE Len(q) - 1 + 1
    <3>1. 1 \in Int /\ Len(q) \in Int
      BY <1>1
    <3> QED BY <3>1, FS_Interval, Zenon
  <2> QED BY <1>1, <2>1
<1> QED BY <1>3, <1>4, FS_Bijection
================================================================================
