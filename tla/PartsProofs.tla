------------------------------- MODULE PartsProofs -------------------------------
(***************************************************************************)
(* The parts that have no share in the state of the two ends: the bounds   *)
(* on the timeout, for every set of round trips and every cap; the windows *)
(* over sequence numbers that wrap; the bytes of the file, for every size  *)
(* of file, buffer and header.                                             *)
(***************************************************************************)
EXTENDS RttEstimator, SeqnoWindow, Segments, SequenceTheorems, TLAPS

-------------------------------------------------------------------------------
(* The estimator.                                                          *)

\* What rounding up and rounding to the nearest yield, for the divisors of
\* nextTimeoutValue.
LEMMA Rounding ==
    ASSUME NEW n \in Nat
    PROVE  /\ CeilDiv(n, 4) \in Nat /\ n <= 4 * CeilDiv(n, 4)
           /\ CeilDiv(n, 8) \in Nat
           /\ CeilDiv(n, 8000) \in Nat /\ n <= 8000 * CeilDiv(n, 8000)
           /\ RoundDiv(n, 1000) \in Nat
BY DEF CeilDiv, RoundDiv

\* The bound on the estimates is one that rounding up cannot leave.
LEMMA MaxEstimateType == MaxEstimate \in Nat
BY Rounding, SamplesAssumption DEF MaxEstimate

\* nextTimeoutValue's estimate stays within the bound.
LEMMA EstimateStep ==
    ASSUME NEW est \in 0 .. MaxEstimate, NEW s \in Samples
    PROVE  NextEstimate(est, s) \in 0 .. MaxEstimate
<1> DEFINE c == CeilDiv(MaxSample, 8000)
<1>1. s \in Nat /\ s <= MaxSample /\ MaxSample \in Nat
  BY SamplesAssumption
<1>2. c \in Nat /\ MaxEstimate = 8 * c
  BY <1>1, Rounding DEF MaxEstimate
<1>3. CeilDiv(s, 8000) \in Nat /\ CeilDiv(s, 8000) <= c
  BY <1>1 DEF CeilDiv
<1>4. est \in Nat /\ est <= 8 * c
  BY <1>2
<1>5. CeilDiv(7 * est, 8) \in Nat /\ CeilDiv(7 * est, 8) <= 7 * c
  <2> HIDE DEF c
  <2> QED BY <1>2, <1>4 DEF CeilDiv
<1> QED BY <1>2, <1>3, <1>5 DEF NextEstimate

\* The new estimate and the sample are both within the bound, and so is their
\* distance.
LEMMA DistanceStep ==
    ASSUME NEW est \in 0 .. MaxEstimate, NEW s \in Samples
    PROVE  /\ RoundDiv(s, 1000) \in Nat
           /\ Distance(est, RoundDiv(s, 1000)) \in 0 .. MaxEstimate
           /\ RoundDiv(s, 1000) <= est + Distance(est, RoundDiv(s, 1000))
<1>1. s \in Nat /\ s <= MaxSample /\ MaxSample \in Nat
  BY SamplesAssumption
<1>2. MaxSample <= 1000 * MaxEstimate /\ MaxEstimate \in Nat
  BY <1>1, Rounding, MaxEstimateType DEF MaxEstimate
<1>3. RoundDiv(s, 1000) \in Nat /\ RoundDiv(s, 1000) <= MaxEstimate
  BY <1>1, <1>2 DEF RoundDiv
<1> QED BY <1>2, <1>3 DEF Distance

\* The deviation stays within the bound, and four times it covers the distance
\* of the sample from the estimate.
LEMMA DeviationStep ==
    ASSUME NEW dev \in 0 .. MaxEstimate, NEW est \in 0 .. MaxEstimate, NEW s \in Samples
    PROVE  /\ NextDeviation(dev, est, s) \in 0 .. MaxEstimate
           /\ RoundDiv(s, 1000) <= est + 4 * NextDeviation(dev, est, s)
<1> DEFINE c == CeilDiv(MaxSample, 8000)
           d == Distance(est, RoundDiv(s, 1000))
<1>1. c \in Nat /\ MaxEstimate = 8 * c
  BY SamplesAssumption, Rounding DEF MaxEstimate
<1>2. /\ d \in Nat /\ d <= 8 * c
      /\ RoundDiv(s, 1000) \in Nat /\ RoundDiv(s, 1000) <= est + d
  BY <1>1, DistanceStep
<1>3. dev \in Nat /\ dev <= 8 * c /\ est \in Nat
  BY <1>1
<1> HIDE DEF c, d
<1>4. CeilDiv(3 * dev, 4) \in Nat /\ CeilDiv(3 * dev, 4) <= 6 * c
  BY <1>1, <1>3 DEF CeilDiv
<1>5. CeilDiv(d, 4) \in Nat /\ CeilDiv(d, 4) <= 2 * c /\ d <= 4 * CeilDiv(d, 4)
  BY <1>1, <1>2 DEF CeilDiv
<1>6. NextDeviation(dev, est, s) = CeilDiv(3 * dev, 4) + CeilDiv(d, 4)
  BY DEF NextDeviation, d
<1> QED BY <1>1, <1>2, <1>3, <1>4, <1>5, <1>6

\* The three invariants hold together.
RttInv == RttTypeOK /\ EstimateBounded /\ TimeoutCoversSample

LEMMA RttInvInit == RttInit => RttInv
<1> SUFFICES ASSUME RttInit PROVE RttInv
  OBVIOUS
<1>1. Cap \in Nat /\ MaxSample \in Nat /\ MaxEstimate \in Nat
  BY CapAssumption, SamplesAssumption, MaxEstimateType
<1>2. RttTypeOK
  <2>1. 0 \in 0 .. MaxSample
    BY <1>1
  <2> QED BY <2>1, <1>1 DEF RttInit, RttTypeOK
<1>3. EstimateBounded
  BY <1>1 DEF RttInit, EstimateBounded, MaxOf
<1>4. TimeoutCoversSample
  BY <1>1, Rounding DEF RttInit, TimeoutCoversSample, Capped, RoundDiv
<1> QED BY <1>2, <1>3, <1>4 DEF RttInv

LEMMA RttInvNext == RttInv /\ [RttNext]_rttVars => RttInv'
<1> SUFFICES ASSUME RttInv, [RttNext]_rttVars PROVE RttInv'
  OBVIOUS
<1> USE DEF RttInv
<1>1. /\ Cap \in Nat /\ MaxSample \in Nat /\ MaxEstimate \in Nat
      /\ sampleRTT \in Nat /\ RoundDiv(sampleRTT, 1000) \in Nat
  BY CapAssumption, SamplesAssumption, MaxEstimateType, Rounding DEF RttTypeOK
<1>2. ASSUME NEW s \in Samples, Sample(s) PROVE RttInv'
  <2>1. /\ estimatedRTT \in 0 .. MaxEstimate /\ estimatedRTTdev \in 0 .. MaxEstimate
    BY <1>1 DEF RttTypeOK, EstimateBounded
  <2>2. estimatedRTT' \in 0 .. MaxEstimate
    BY <1>2, <2>1, EstimateStep DEF Sample
  <2>3. /\ estimatedRTTdev' \in 0 .. MaxEstimate
        /\ RoundDiv(s, 1000) <= estimatedRTT' + 4 * estimatedRTTdev'
    BY <1>2, <2>1, <2>2, DeviationStep DEF Sample
  <2>4. s \in 0 .. MaxSample /\ RoundDiv(s, 1000) \in Nat
    BY SamplesAssumption, Rounding
  <2>5. timeout' = 1000 * (estimatedRTT' + 4 * estimatedRTTdev')
    BY <1>2 DEF Sample
  <2>6. RttTypeOK'
    BY <1>2, <1>1, <2>2, <2>3, <2>4, <2>5 DEF Sample, RttTypeOK
  <2>7. EstimateBounded'
    BY <1>2, <1>1, <2>2, <2>3, <2>5 DEF Sample, EstimateBounded, MaxOf
  <2>8. TimeoutCoversSample'
    <3>1. sampleRTT' = s
      BY <1>2 DEF Sample
    <3>2. timeout' >= 1000 * RoundDiv(s, 1000)
      BY <2>2, <2>3, <2>4, <2>5, <1>1
    <3>3. timeout' >= Capped(1000 * RoundDiv(s, 1000))
      BY <3>2, <2>2, <2>3, <2>4, <2>5, <1>1 DEF Capped
    <3> QED BY <3>1, <3>3 DEF TimeoutCoversSample, Capped, RoundDiv
  <2> QED BY <2>6, <2>7, <2>8
<1>3. CASE FirstTimeout
  BY <1>1, <1>3 DEF FirstTimeout, Capped, RttTypeOK, EstimateBounded, MaxOf,
                    TimeoutCoversSample
<1>4. CASE TimeoutOnTimeout
  BY <1>1, <1>4 DEF TimeoutOnTimeout, BackOff, Capped, RttTypeOK, EstimateBounded,
                    MaxOf, TimeoutCoversSample
<1>5. CASE ReadTimeout
  <2>1. UNCHANGED <<estimatedRTT, estimatedRTTdev, sampleRTT, estTimeout, timeout>>
    BY <1>5 DEF ReadTimeout
  <2>2. frameTimeout' \in {Cap, frameTimeout} /\ reading' \in {TRUE, reading}
    BY <1>5 DEF ReadTimeout
  <2>3. RttTypeOK'
    BY <1>1, <2>1, <2>2 DEF RttTypeOK
  <2>4. EstimateBounded' /\ TimeoutCoversSample'
    BY <1>1, <2>1, <2>2 DEF RttTypeOK, EstimateBounded, MaxOf, TimeoutCoversSample
  <2> QED BY <2>3, <2>4
<1>6. CASE ReadTimeoutAgain
  <2>1. RttTypeOK'
    BY <1>6 DEF ReadTimeoutAgain, RttTypeOK
  <2>2. EstimateBounded' /\ TimeoutCoversSample'
    BY <1>6 DEF ReadTimeoutAgain, EstimateBounded, TimeoutCoversSample
  <2> QED BY <2>1, <2>2
<1>7. CASE UNCHANGED rttVars
  BY <1>7 DEF rttVars, RttTypeOK, EstimateBounded, TimeoutCoversSample
<1> QED BY <1>2, <1>3, <1>4, <1>5, <1>6, <1>7 DEF RttNext

LEMMA RttInvariant == RttSpec => []RttInv
BY RttInvInit, RttInvNext, PTL DEF RttSpec

\* The estimator's variables keep their types.
THEOREM RttTypeCorrect == RttSpec => []RttTypeOK
BY RttInvariant, PTL DEF RttInv

\* For every set of round trips the estimates and the timeouts are bounded by
\* the longest of them: rounding up at every step does not accumulate.
THEOREM EstimatesStayBounded == RttSpec => []EstimateBounded
BY RttInvariant, PTL DEF RttInv

\* The shared timeout never falls below the last round trip or the cap.
THEOREM TimeoutIsLongEnough == RttSpec => []TimeoutCoversSample
BY RttInvariant, PTL DEF RttInv

\* Nor does the timeout that a frame is given, despite the two reads of UMIN.
THEOREM FrameTimeoutIsLongEnough == RttSpec => FrameTimeoutCoversSample
<1>1. ASSUME RttInv, [RttNext]_rttVars, frameTimeout' # frameTimeout
      PROVE  frameTimeout' >= Capped(1000 * RoundDiv(sampleRTT, 1000))
  <2>1. /\ Cap \in Nat /\ sampleRTT \in Nat /\ RoundDiv(sampleRTT, 1000) \in Nat
        /\ timeout \in Nat
    BY <1>1, CapAssumption, Rounding DEF RttInv, RttTypeOK
  <2>2. timeout >= Capped(1000 * RoundDiv(sampleRTT, 1000))
    BY <1>1 DEF RttInv, TimeoutCoversSample
  <2>3. \/ frameTimeout' = Capped(timeout)
        \/ frameTimeout' = Capped(2 * timeout)
        \/ frameTimeout' = Cap
        \/ frameTimeout' = timeout
    BY <1>1 DEF RttNext, Sample, FirstTimeout, TimeoutOnTimeout, BackOff, ReadTimeout,
                ReadTimeoutAgain, rttVars
  <2> QED BY <2>1, <2>2, <2>3 DEF Capped
<1>2. RttInv /\ [RttNext]_rttVars
        => [frameTimeout' # frameTimeout
              => frameTimeout' >= Capped(1000 * RoundDiv(sampleRTT, 1000))]_rttVars
  BY <1>1
<1> QED BY RttInvariant, <1>2, PTL DEF RttSpec, FrameTimeoutCoversSample

-------------------------------------------------------------------------------
(* Sequence numbers.  swpInWindow is exact for every number of them, so    *)
(* also for the 2^32 of a uint32_t.  The counts of the two ends keep their *)
(* order (Ordered, the inductive invariant), hence a late packet is less   *)
(* than a round of numbers behind the window it is tested against; from    *)
(* this the modular test is the plain one.                                 *)

Ordered == /\ lar \in Nat /\ lfs \in Nat /\ nfe \in Nat
           /\ AckedWasDelivered

-------------------------------------------------------------------------------
(* Arithmetic modulo SeqnoMod.                                             *)

LEMMA ModPositive == SeqnoMod \in Nat \ {0}
BY SeqnoModAssumption, WindowAssumption, LateAssumption

\* Two numbers less than a round apart with the same remainder are equal.
LEMMA SameRemainder ==
    ASSUME NEW k \in Int, NEW r \in Int, NEW s \in Int,
           r - s = SeqnoMod * k, r - s < SeqnoMod, s - r < SeqnoMod
    PROVE  r = s
<1>1. SUFFICES ASSUME k >= 1 \/ k <= -1 PROVE FALSE
  <2>1. SeqnoMod * 0 = 0
    BY ModPositive
  <2> QED BY <1>1, <2>1
<1>2. CASE k >= 1
  <2>1. SeqnoMod * k >= SeqnoMod
    BY <1>2, ModPositive
  <2> QED BY <2>1, ModPositive
<1>3. CASE k <= -1
  <2>1. SeqnoMod * k <= -SeqnoMod
    BY <1>3, ModPositive
  <2> QED BY <2>1, ModPositive
<1> QED BY <1>1, <1>2, <1>3

\* Division with remainder.
LEMMA Division ==
    ASSUME NEW x \in Int
    PROVE  \E q \in Int : /\ x = SeqnoMod * q + (x % SeqnoMod)
                          /\ x % SeqnoMod \in 0 .. (SeqnoMod - 1)
<1>1. /\ x = SeqnoMod * (x \div SeqnoMod) + (x % SeqnoMod)
      /\ x % SeqnoMod \in 0 .. (SeqnoMod - 1)
      /\ x \div SeqnoMod \in Int
  BY ModPositive
<1> QED BY <1>1

\* The remainder is the only number of the range that differs by rounds.
LEMMA Remainder ==
    ASSUME NEW x \in Int, NEW k \in Int, NEW r \in 0 .. (SeqnoMod - 1),
           x = SeqnoMod * k + r
    PROVE  x % SeqnoMod = r
<1>1. PICK q \in Int : /\ x = SeqnoMod * q + (x % SeqnoMod)
                       /\ x % SeqnoMod \in 0 .. (SeqnoMod - 1)
  BY Division
<1> DEFINE m == x % SeqnoMod
<1>2. m \in Int /\ m - r = SeqnoMod * (k - q)
  BY <1>1, ModPositive
<1>3. m - r < SeqnoMod /\ r - m < SeqnoMod
  BY <1>1, ModPositive
<1> HIDE DEF m
<1>4. m = r
  BY <1>2, <1>3, SameRemainder
<1> QED BY <1>4 DEF m

\* The difference of two wrapped numbers, wrapped, knows the true difference up
\* to rounds.
LEMMA WrappedDifference ==
    ASSUME NEW x \in Int, NEW a \in Int, NEW c \in Int, NEW k \in Int,
           NEW r \in 0 .. (SeqnoMod - 1), x - a + c = SeqnoMod * k + r
    PROVE  (Seqno(x) - Seqno(a) + c) % SeqnoMod = r
<1>1. PICK p \in Int : /\ x = SeqnoMod * p + Seqno(x)
                       /\ Seqno(x) \in 0 .. (SeqnoMod - 1)
  BY Division DEF Seqno
<1>2. PICK q \in Int : /\ a = SeqnoMod * q + Seqno(a)
                       /\ Seqno(a) \in 0 .. (SeqnoMod - 1)
  BY Division DEF Seqno
<1> DEFINE d == Seqno(x) - Seqno(a) + c
<1>3. d \in Int /\ d = SeqnoMod * (k - p + q) + r /\ k - p + q \in Int
  <2>1. SeqnoMod * (k - p + q) = SeqnoMod * k - SeqnoMod * p + SeqnoMod * q
    BY ModPositive
  <2>2. SeqnoMod * k \in Int /\ SeqnoMod * p \in Int /\ SeqnoMod * q \in Int
    BY ModPositive
  <2>3. Seqno(x) - Seqno(a) + c = SeqnoMod * k - SeqnoMod * p + SeqnoMod * q + r
    BY <1>1, <1>2, <2>2
  <2>4. Seqno(x) \in Int /\ Seqno(a) \in Int
    BY <1>1, <1>2, ModPositive
  <2> QED BY <2>1, <2>3, <2>4
<1> HIDE DEF d
<1>4. d % SeqnoMod = r
  BY <1>3, Remainder
<1> QED BY <1>4 DEF d

\* swpInWindow on wrapped numbers is the plain test, for a window shorter than a
\* round and a number that lies behind its end by no more than a round.
LEMMA WindowTest ==
    ASSUME NEW x \in Int, NEW a \in Int, NEW b \in Int,
           b - a + 1 \in 0 .. (SeqnoMod - 1), x <= b, b < x + SeqnoMod
    PROVE  swpInWindow(Seqno(x), Seqno(a), Seqno(b)) <=> a <= x /\ x <= b
<1> DEFINE pos    == (Seqno(x) - Seqno(a)) % SeqnoMod
           maxpos == (Seqno(b) - Seqno(a) + 1) % SeqnoMod
<1>1. Seqno(x) \in Int /\ Seqno(a) \in Int
  BY ModPositive DEF Seqno
<1>2. maxpos = b - a + 1
  <2>1. b - a + 1 = SeqnoMod * 0 + (b - a + 1)
    BY ModPositive
  <2> QED BY <2>1, WrappedDifference
<1>3. CASE a <= x
  <2>1. x - a \in 0 .. (SeqnoMod - 1) /\ x - a + 0 = SeqnoMod * 0 + (x - a)
    BY <1>3, ModPositive
  <2>2. (Seqno(x) - Seqno(a) + 0) % SeqnoMod = x - a
    BY <2>1, WrappedDifference
  <2>3. pos = x - a
    BY <1>1, <2>2
  <2>4. pos < maxpos
    BY <1>2, <2>3
  <2> QED BY <1>3, <2>4 DEF swpInWindow
<1>4. CASE x < a
  <2>1. /\ x - a + SeqnoMod \in 0 .. (SeqnoMod - 1)
        /\ x - a + 0 = SeqnoMod * (-1) + (x - a + SeqnoMod)
    BY <1>4, ModPositive
  <2>2. (Seqno(x) - Seqno(a) + 0) % SeqnoMod = x - a + SeqnoMod
    BY <2>1, WrappedDifference
  <2>3. pos = x - a + SeqnoMod
    BY <1>1, <2>2
  <2>4. ~(pos < maxpos)
    BY <1>2, <2>3, ModPositive
  <2> QED BY <1>4, <2>4 DEF swpInWindow
<1> QED BY <1>3, <1>4

-------------------------------------------------------------------------------
(* The tests of the two ends.                                              *)

LEMMA SendTestExact ==
    ASSUME Ordered, NEW ack \in Nat, AckArrives(ack)
    PROVE  InWindowOfSender(ack) <=> lar < ack /\ ack <= lfs
<1>1. /\ ack <= nfe - 1 /\ lfs - Late < ack
      /\ nfe <= lfs + 1 /\ lfs <= lar + Window /\ lar < nfe
  BY DEF AckArrives, NotTooLate, Ordered, AckedWasDelivered
<1>2. /\ lfs - (lar + 1) + 1 \in 0 .. (SeqnoMod - 1)
      /\ ack <= lfs /\ lfs < ack + SeqnoMod
  BY <1>1, SeqnoModAssumption, WindowAssumption, LateAssumption DEF Ordered
<1>3. InWindowOfSender(ack) <=> lar + 1 <= ack /\ ack <= lfs
  BY <1>2, WindowTest DEF InWindowOfSender, Ordered
<1> QED BY <1>3 DEF Ordered

LEMMA ReceiveTestExact ==
    ASSUME Ordered, NEW seq \in Nat, FrameArrives(seq)
    PROVE  InWindowOfReceiver(seq) <=> nfe <= seq /\ seq <= nfe + RWS - 1
<1> DEFINE last == nfe + RWS - 1
<1>1. /\ seq <= lfs /\ lfs - Late < seq
      /\ nfe <= lfs + 1 /\ lfs <= lar + Window /\ lar < nfe
  BY DEF FrameArrives, NotTooLate, Ordered, AckedWasDelivered
<1>2. /\ last \in Int /\ last - nfe + 1 \in 0 .. (SeqnoMod - 1)
      /\ seq <= last /\ last < seq + SeqnoMod
  BY <1>1, SeqnoModAssumption, WindowAssumption, LateAssumption DEF Ordered
<1> HIDE DEF last
<1>3. swpInWindow(Seqno(seq), Seqno(nfe), Seqno(last)) <=> nfe <= seq /\ seq <= last
  BY <1>2, WindowTest DEF Ordered
<1> QED BY <1>3 DEF InWindowOfReceiver, last

-------------------------------------------------------------------------------
(* Ordered is inductive.                                                   *)

LEMMA OrderedInit == WindowInit => Ordered
BY SeqnoModAssumption DEF WindowInit, Ordered, AckedWasDelivered

LEMMA RecvAckOrdered ==
    ASSUME Ordered, NEW ack \in 0 .. (nfe - 1), RecvAck(ack)
    PROVE  Ordered'
<1>1. ack \in Nat /\ AckArrives(ack) /\ InWindowOfSender(ack)
  BY DEF RecvAck, Ordered
<1>2. lar < ack /\ ack <= lfs /\ ack <= nfe - 1
  BY <1>1, SendTestExact DEF AckArrives
<1>3. PICK n \in (lar + 1) .. (lar + SeqnoMod) : Seqno(n) = Seqno(ack) /\ lar' = n
  BY DEF RecvAck
<1>4. n = ack
  <2>1. n \in Int /\ n - ack < SeqnoMod /\ ack - n < SeqnoMod
    BY <1>1, <1>2, <1>3, SeqnoModAssumption, WindowAssumption, LateAssumption
       DEF Ordered, AckedWasDelivered
  <2>2. PICK p \in Int : /\ n = SeqnoMod * p + Seqno(n)
                         /\ Seqno(n) \in 0 .. (SeqnoMod - 1)
    BY <2>1, Division DEF Seqno
  <2>3. PICK q \in Int : ack = SeqnoMod * q + Seqno(ack)
    BY <1>1, Division DEF Seqno
  <2>4. n - ack = SeqnoMod * (p - q) /\ p - q \in Int
    BY <1>1, <1>3, <2>1, <2>2, <2>3, ModPositive
  <2> QED BY <1>1, <2>1, <2>4, SameRemainder
<1>5. lar' = ack /\ lfs' = lfs /\ nfe' = nfe
  BY <1>3, <1>4 DEF RecvAck
<1>6. lfs <= ack + Window
  BY <1>1, <1>2, SeqnoModAssumption DEF Ordered, AckedWasDelivered
<1> QED BY <1>1, <1>2, <1>5, <1>6 DEF Ordered, AckedWasDelivered

LEMMA OrderedNext == Ordered /\ [WindowNext]_windowVars => Ordered'
<1> SUFFICES ASSUME Ordered, [WindowNext]_windowVars PROVE Ordered'
  OBVIOUS
<1>1. CASE NextFrame
  BY <1>1, SeqnoModAssumption DEF NextFrame, Ordered, AckedWasDelivered
<1>2. ASSUME NEW seq \in 1 .. lfs, RecvFrame(seq) PROVE Ordered'
  BY <1>2 DEF RecvFrame, Ordered, AckedWasDelivered
<1>3. ASSUME NEW ack \in 0 .. (nfe - 1), RecvAck(ack) PROVE Ordered'
  BY <1>3, RecvAckOrdered
<1>4. CASE UNCHANGED windowVars
  BY <1>4 DEF windowVars, Ordered, AckedWasDelivered
<1> QED BY <1>1, <1>2, <1>3, <1>4 DEF WindowNext, Done

LEMMA OrderedAlways == WindowSpec => []Ordered
BY OrderedInit, OrderedNext, PTL DEF WindowSpec

-------------------------------------------------------------------------------
(* The theorems.                                                           *)

\* What is acknowledged has been delivered, and what is delivered has been sent,
\* however often the sequence numbers have wrapped.
THEOREM WrapKeepsOrder == WindowSpec => []AckedWasDelivered
<1>1. Ordered => AckedWasDelivered
  BY DEF Ordered
<1> QED BY <1>1, OrderedAlways, PTL

\* swpInWindow, in the arithmetic of any unsigned type that is wide enough for
\* the window and the age of the packets, decides exactly whether the packet's
\* frame is in the window.
THEOREM WrappedTestsAreExact == WindowSpec => []WindowTestsExact
<1>1. Ordered => WindowTestsExact
  <2> SUFFICES ASSUME Ordered PROVE WindowTestsExact
    OBVIOUS
  <2>1. ASSUME NEW ack \in 0 .. (nfe - 1), AckArrives(ack)
        PROVE  InWindowOfSender(ack) <=> lar < ack /\ ack <= lfs
    BY <2>1, SendTestExact DEF Ordered
  <2>2. ASSUME NEW seq \in 1 .. lfs, FrameArrives(seq)
        PROVE  InWindowOfReceiver(seq) <=> nfe <= seq /\ seq <= nfe + RWS - 1
    BY <2>2, ReceiveTestExact DEF Ordered
  <2> QED BY <2>1, <2>2 DEF WindowTestsExact
<1> QED BY <1>1, OrderedAlways, PTL

-------------------------------------------------------------------------------
(* The bytes of the file.                                                  *)

\* The bytes that are read from position a on, and the position up to which the
\* packets before the i-th one bring the output file.
DataFrom(a) == [j \in 1 .. (IF a + ReadSize > total_bytes THEN total_bytes - a ELSE ReadSize)
                    |-> a + j]
Start(i) == Len(output_dat) + (i - 1) * ReadSize

SegmentsTypeOK ==
    /\ total_bytes \in Nat /\ read \in Nat
    /\ client \in {"sending", "eof"} /\ server \in {"running", "done"}
    /\ output_dat \in Seq(Int)
    /\ packets \in Seq(Seq(Int)) /\ sendQ \in Seq(Seq(Int))

\* Packets carry the input from where the output ends to where the client reads.
\* A packet that is shorter than the others is the last one, and the padding
\* which the server's copy gives it lies beyond the end of the input.
TransitInv ==
    /\ \A i \in 1 .. Len(packets) :
          Start(i) < total_bytes /\ packets[i] = msgAddHdr(DataFrom(Start(i)))
    /\ read = IF Start(Len(packets) + 1) > total_bytes THEN total_bytes
              ELSE Start(Len(packets) + 1)

StopInv == /\ server = "done" => Len(output_dat) >= total_bytes
           /\ server = "running" => Len(output_dat) < total_bytes \/ total_bytes = 0
           /\ client = "eof" => read = total_bytes

SegmentsInv == /\ SegmentsTypeOK
               /\ TransitInv /\ StopInv
               /\ OutputStartsWithInput /\ SavedIsSent

LEMMA PayloadSize == ReadSize \in Nat /\ ReadSize > HLEN /\ HLEN \in Nat /\ HLEN > 0
                     /\ HLEN + ReadSize = SIZE
BY SegmentsAssumption DEF ReadSize

\* The header is put in front of the data and taken off again; a message with
\* its header fits the buffer, so its copy is the message.
LEMMA HeaderRoundTrip ==
    ASSUME NEW m \in Seq(Int), Len(m) \in 1 .. ReadSize
    PROVE  /\ msgAddHdr(m) \in Seq(Int)
           /\ Len(msgAddHdr(m)) = HLEN + Len(m)
           /\ msgSaveCopy(msgAddHdr(m)) = msgAddHdr(m)
           /\ msgStripHdr(Received(msgAddHdr(m))) = m
<1> DEFINE h == [i \in 1 .. HLEN |-> Header]
           f == h \o m
<1>1. h \in Seq(Int) /\ Len(h) = HLEN
  BY PayloadSize DEF Header
<1> HIDE DEF h
<1>2. /\ f \in Seq(Int) /\ Len(f) = HLEN + Len(m)
      /\ \A i \in 1 .. (HLEN + Len(m)) : f[i] = IF i <= HLEN THEN h[i] ELSE m[i - HLEN]
  BY <1>1, ConcatProperties
<1>3. msgAddHdr(m) = f
  BY DEF msgAddHdr, h
<1> HIDE DEF f
<1>4. Len(f) \in HLEN .. SIZE /\ Len(f) \in 0 .. SIZE /\ Len(m) \in Nat
  BY <1>2, PayloadSize
<1>5. SavedLen(f) = Len(f) /\ URANGE(0, Len(f), SIZE) = Len(f)
  BY <1>4, PayloadSize DEF SavedLen, URANGE
<1>6. msgSaveCopy(f) = f
  <2> DEFINE c == [i \in 1 .. Len(f) |-> IF i <= Len(f) THEN f[i] ELSE Junk]
  <2>1. \A i \in 1 .. Len(f) : f[i] \in Int
    BY <1>2, ElementOfSeq
  <2>2. c \in Seq(Int) /\ Len(c) = Len(f) /\ \A i \in 1 .. Len(c) : c[i] = f[i]
    BY <1>4, <2>1
  <2>3. msgSaveCopy(f) = c
    BY <1>5 DEF msgSaveCopy
  <2> HIDE DEF c
  <2>4. c = f
    BY <1>2, <2>2, SeqEqual
  <2> QED BY <2>3, <2>4
<1>7. Received(f) = f
  BY <1>2, <1>5, SubSeqFull DEF Received
<1>8. SubSeq(f, HLEN + 1, Len(f)) = m
  <2> DEFINE b == SubSeq(f, HLEN + 1, Len(f))
  <2>1. \A i \in (HLEN + 1) .. Len(f) : f[i] \in Int
    <3>1. \A i \in (HLEN + 1) .. Len(f) : i \in 1 .. Len(f)
      BY <1>4, PayloadSize
    <3> QED BY <1>2, <3>1, ElementOfSeq
  <2>2. HLEN + 1 \in Int /\ Len(f) \in Int
    BY <1>4, PayloadSize
  <2> DEFINE from == HLEN + 1
             upto == Len(f)
  <2>3. /\ SubSeq(f, from, upto) \in Seq(Int)
        /\ Len(SubSeq(f, from, upto)) = IF from <= upto THEN upto - from + 1 ELSE 0
        /\ \A i \in 1 .. (upto - from + 1) : SubSeq(f, from, upto)[i] = f[from + i - 1]
    <3>1. from \in Int /\ upto \in Int /\ \A i \in from .. upto : f[i] \in Int
      BY <2>1, <2>2
    <3> HIDE DEF from, upto
    <3> QED BY <3>1, SubSeqProperties
  <2> HIDE DEF b
  <2>4. Len(b) = Len(m)
    BY <1>2, <1>4, <2>3, PayloadSize DEF b
  <2>5. ASSUME NEW i \in 1 .. Len(b) PROVE b[i] = m[i]
    <3> DEFINE k == HLEN + i
    <3>1. /\ i \in 1 .. (upto - from + 1) /\ from + i - 1 = k
          /\ k \in 1 .. (HLEN + Len(m)) /\ ~(k <= HLEN) /\ k - HLEN = i
      BY <1>2, <1>4, <2>4, PayloadSize
    <3>2. b[i] = f[from + i - 1]
      BY <2>3, <3>1 DEF b
    <3> HIDE DEF k, from, upto
    <3>3. f[k] = m[k - HLEN]
      BY <1>2, <3>1
    <3> QED BY <3>1, <3>2, <3>3
  <2>6. b = m
    BY <2>3, <2>4, <2>5, SeqEqual DEF b
  <2> QED BY <2>6 DEF b
<1> QED BY <1>2, <1>3, <1>6, <1>7, <1>8 DEF msgStripHdr

\* The copy that the server writes: padded when it is shorter than a header.
LEMMA WrittenCopy ==
    ASSUME NEW m \in Seq(Int)
    PROVE  /\ msgSaveCopy(m) \in Seq(Int)
           /\ Len(msgSaveCopy(m)) = SavedLen(m)
           /\ \A i \in 1 .. SavedLen(m) :
                 msgSaveCopy(m)[i] = IF i <= Len(m) THEN m[i] ELSE Junk
<1>1. Len(m) \in Nat /\ SavedLen(m) \in Nat
  BY PayloadSize DEF SavedLen, URANGE
<1>2. \A i \in 1 .. SavedLen(m) : (IF i <= Len(m) THEN m[i] ELSE Junk) \in Int
  <2> SUFFICES ASSUME NEW i \in 1 .. SavedLen(m), i <= Len(m) PROVE m[i] \in Int
    BY DEF Junk
  <2>1. i \in 1 .. Len(m)
    BY <1>1
  <2> QED BY <2>1, ElementOfSeq
<1> QED BY <1>1, <1>2 DEF msgSaveCopy

\* What is read is a frame's payload.
LEMMA DataIsPayload ==
    ASSUME total_bytes \in Nat, NEW a \in Nat, a < total_bytes
    PROVE  /\ DataFrom(a) \in Seq(Int)
           /\ Len(DataFrom(a)) \in 1 .. ReadSize
           /\ Len(DataFrom(a)) = IF a + ReadSize > total_bytes THEN total_bytes - a ELSE ReadSize
           /\ \A i \in 1 .. Len(DataFrom(a)) : DataFrom(a)[i] = a + i
<1> DEFINE n == IF a + ReadSize > total_bytes THEN total_bytes - a ELSE ReadSize
<1>1. n \in Nat /\ n \in 1 .. ReadSize
  BY PayloadSize
<1>2. DataFrom(a) = [j \in 1 .. n |-> a + j]
  BY DEF DataFrom
<1> HIDE DEF n
<1>3. DataFrom(a) \in Seq(Int) /\ Len(DataFrom(a)) = n /\ \A i \in 1 .. n : DataFrom(a)[i] = a + i
  BY <1>1, <1>2
<1> QED BY <1>1, <1>3 DEF n

-------------------------------------------------------------------------------
\* The places of the packets after one more round of reading and writing.
LEMMA StartStep ==
    ASSUME NEW n \in Nat, NEW k \in Nat, NEW p \in Nat
    PROVE  /\ n + (k + 1 - 1) * p \in Nat
           /\ n + (k + 1 + 1 - 1) * p = n + (k + 1 - 1) * p + p
           /\ n + (k + 1 + 1 - 1) * p = (n + p) + (k + 1 - 1) * p
           /\ n + (0 + 1 - 1) * p = n
OBVIOUS

LEMMA SegmentsInvInit == SegmentsInit => SegmentsInv
<1> SUFFICES ASSUME SegmentsInit PROVE SegmentsInv
  OBVIOUS
<1>1. SegmentsTypeOK
  BY SegmentsAssumption DEF SegmentsInit, SegmentsTypeOK
<1>2. Len(output_dat) = 0 /\ Len(packets) = 0 /\ packets = <<>>
  BY DEF SegmentsInit
<1>3. TransitInv
  <2>1. Start(0 + 1) = 0
    BY <1>2, PayloadSize, StartStep DEF Start
  <2> QED BY <1>1, <1>2, <2>1 DEF TransitInv, SegmentsInit, SegmentsTypeOK
<1>4. StopInv
  BY <1>1, <1>2 DEF SegmentsInit, StopInv, SegmentsTypeOK
<1>5. OutputStartsWithInput /\ SavedIsSent
  BY <1>2 DEF OutputStartsWithInput, SavedIsSent
<1> QED BY <1>1, <1>3, <1>4, <1>5 DEF SegmentsInv

\* What the client reads next is the packet that follows those on their way.
LEMMA NextRead ==
    ASSUME SegmentsInv, client = "sending"
    PROVE  /\ FrameRead = DataFrom(read)
           /\ FrameRead = <<>> <=> read = total_bytes
           /\ read < total_bytes => read = Start(Len(packets) + 1)
           /\ ReadEnd = IF read + ReadSize > total_bytes THEN total_bytes ELSE read + ReadSize
           /\ read <= total_bytes
<1>1. read \in Nat /\ total_bytes \in Nat /\ ReadSize \in Nat /\ ReadSize > 0
  BY PayloadSize DEF SegmentsInv, SegmentsTypeOK
<1>2. packets \in Seq(Seq(Int)) /\ Len(packets) \in Nat /\ Len(output_dat) \in Nat
  BY DEF SegmentsInv, SegmentsTypeOK
<1>3. Start(Len(packets) + 1) \in Nat
  <2> DEFINE k == Len(packets)
             a == Len(output_dat)
  <2>1. k \in Nat /\ a \in Nat
    BY <1>2
  <2> HIDE DEF k, a
  <2>2. a + (k + 1 - 1) * ReadSize \in Nat
    BY <1>1, <2>1, StartStep
  <2> QED BY <2>2 DEF Start, k, a
<1>4. /\ read <= total_bytes
      /\ read < total_bytes => read = Start(Len(packets) + 1)
  BY <1>1, <1>3 DEF SegmentsInv, TransitInv
<1>5. ReadEnd - read = IF read + ReadSize > total_bytes THEN total_bytes - read ELSE ReadSize
  BY <1>1 DEF ReadEnd
<1>6. FrameRead = DataFrom(read)
  BY <1>5 DEF FrameRead, DataFrom
<1>7. CASE read < total_bytes
  <2>1. Len(FrameRead) >= 1
    BY <1>1, <1>6, <1>7, DataIsPayload
  <2>2. FrameRead # <<>>
    BY <2>1
  <2> QED BY <1>1, <1>4, <1>6, <1>7, <2>2 DEF ReadEnd
<1>8. CASE read = total_bytes
  <2>1. FrameRead = [i \in 1 .. 0 |-> read + i]
    BY <1>1, <1>5, <1>8 DEF FrameRead
  <2>2. FrameRead = <<>>
    BY <2>1
  <2> QED BY <1>1, <1>4, <1>6, <1>8, <2>2 DEF ReadEnd
<1> QED BY <1>1, <1>4, <1>7, <1>8

LEMMA ReadAndSendKeeps == SegmentsInv /\ ReadAndSend => SegmentsInv'
<1> SUFFICES ASSUME SegmentsInv, ReadAndSend PROVE SegmentsInv'
  OBVIOUS
<1> DEFINE n == Len(packets)
           f == msgAddHdr(DataFrom(read))
<1>1. /\ read \in Nat /\ total_bytes \in Nat /\ ReadSize \in Nat /\ ReadSize > 0
      /\ packets \in Seq(Seq(Int)) /\ sendQ \in Seq(Seq(Int)) /\ n \in Nat
      /\ Len(output_dat) \in Nat /\ output_dat \in Seq(Int)
  BY PayloadSize DEF SegmentsInv, SegmentsTypeOK
<1>2. /\ client = "sending" /\ FrameRead # <<>> /\ read' = ReadEnd
      /\ client' = IF Eof THEN "eof" ELSE "sending"
      /\ UNCHANGED <<total_bytes, output_dat, server>>
  BY DEF ReadAndSend
<1>3. read < total_bytes /\ read = Start(n + 1) /\ FrameRead = DataFrom(read)
  BY <1>1, <1>2, NextRead
<1>4. DataFrom(read) \in Seq(Int) /\ Len(DataFrom(read)) \in 1 .. ReadSize
  BY <1>1, <1>3, DataIsPayload
<1>5. /\ f \in Seq(Int) /\ Len(f) = HLEN + Len(DataFrom(read)) /\ msgSaveCopy(f) = f
  BY <1>4, HeaderRoundTrip
<1>6. packets' = Append(packets, f) /\ sendQ' = Append(sendQ, f)
  BY <1>3, <1>5 DEF ReadAndSend, SaveAndSend
<1> HIDE DEF f
<1>7. /\ packets' \in Seq(Seq(Int)) /\ Len(packets') = n + 1
      /\ \A i \in 1 .. (n + 1) : packets'[i] = IF i = n + 1 THEN f ELSE packets[i]
      /\ sendQ' \in Seq(Seq(Int)) /\ Len(sendQ') = Len(sendQ) + 1
      /\ \A i \in 1 .. (Len(sendQ) + 1) :
            sendQ'[i] = IF i = Len(sendQ) + 1 THEN f ELSE sendQ[i]
  BY <1>1, <1>5, <1>6, AppendProperties
<1>8. /\ SegmentsTypeOK' /\ ReadEnd \in Nat
      /\ ReadEnd = IF read + ReadSize > total_bytes THEN total_bytes ELSE read + ReadSize
  BY <1>1, <1>2, <1>7 DEF SegmentsInv, SegmentsTypeOK, ReadEnd
<1>9. \A i : Start(i)' = Start(i)
  BY <1>2 DEF Start, ReadSize
<1>10. \A a : DataFrom(a)' = DataFrom(a)
  BY <1>2 DEF DataFrom, ReadSize
<1>11. TransitInv'
  <2>1. ASSUME NEW i \in 1 .. (n + 1)
        PROVE  Start(i) < total_bytes /\ packets'[i] = msgAddHdr(DataFrom(Start(i)))
    <3>1. CASE i = n + 1
      BY <1>3, <1>7, <3>1 DEF f
    <3>2. CASE i # n + 1
      <4>1. i \in 1 .. n
        BY <1>1, <3>2
      <4> QED BY <1>7, <3>2, <4>1 DEF SegmentsInv, TransitInv
    <3> QED BY <3>1, <3>2
  <2>2. Start(n + 1 + 1) = read + ReadSize
    BY <1>1, <1>3, StartStep DEF Start
  <2>3. read' = IF Start(n + 1 + 1) > total_bytes THEN total_bytes ELSE Start(n + 1 + 1)
    BY <1>2, <1>8, <2>2
  <2> HIDE DEF n
  <2> QED BY <1>2, <1>7, <1>9, <1>10, <2>1, <2>3 DEF TransitInv, msgAddHdr
<1>12. StopInv'
  BY <1>1, <1>2, <1>8 DEF SegmentsInv, StopInv, Eof
<1>13. OutputStartsWithInput'
  BY <1>2 DEF SegmentsInv, OutputStartsWithInput
<1>14. SavedIsSent'
  <2>1. DOMAIN packets = 1 .. n /\ DOMAIN packets' = 1 .. (n + 1)
    BY <1>1, <1>7, LenProperties
  <2>2. DOMAIN sendQ = 1 .. Len(sendQ) /\ DOMAIN sendQ' = 1 .. (Len(sendQ) + 1) /\ Len(sendQ) \in Nat
    BY <1>1, <1>7, LenProperties
  <2>3. Len(sendQ) + 1 \in 1 .. (Len(sendQ) + 1) /\ sendQ'[Len(sendQ) + 1] = f
    BY <1>7, <2>2
  <2>4. f \in Range(sendQ')
    BY <2>2, <2>3, Zenon DEF Range
  <2>5. \A i \in 1 .. Len(sendQ) : i \in 1 .. (Len(sendQ) + 1) /\ sendQ'[i] = sendQ[i]
    BY <1>7, <2>2
  <2>6. Range(sendQ) \subseteq Range(sendQ')
    BY <2>2, <2>5 DEF Range
  <2>7. Len(f) \in (HLEN + 1) .. SIZE
    BY <1>4, <1>5, PayloadSize
  <2>8. ASSUME NEW i \in 1 .. (n + 1)
        PROVE  packets'[i] \in Range(sendQ') /\ Len(packets'[i]) \in (HLEN + 1) .. SIZE
    <3>1. CASE i = n + 1
      BY <1>7, <2>4, <2>7, <3>1
    <3>2. CASE i # n + 1
      <4>1. i \in 1 .. n /\ packets'[i] = packets[i]
        BY <1>1, <1>7, <3>2
      <4> QED BY <2>1, <2>6, <4>1 DEF SegmentsInv, SavedIsSent
    <3> QED BY <3>1, <3>2
  <2> QED BY <2>1, <2>8 DEF SavedIsSent
<1> QED BY <1>8, <1>11, <1>12, <1>13, <1>14 DEF SegmentsInv

LEMMA ReadNothingKeeps == SegmentsInv /\ ReadNothing => SegmentsInv'
<1> SUFFICES ASSUME SegmentsInv, ReadNothing PROVE SegmentsInv'
  OBVIOUS
<1>1. read = total_bytes
  BY NextRead DEF ReadNothing
<1> QED BY <1>1 DEF ReadNothing, SegmentsInv, SegmentsTypeOK, TransitInv, Start, DataFrom,
                    ReadSize, msgAddHdr, StopInv, OutputStartsWithInput, SavedIsSent

LEMMA DeliverBytesKeeps == SegmentsInv /\ DeliverBytes => SegmentsInv'
<1> SUFFICES ASSUME SegmentsInv, DeliverBytes PROVE SegmentsInv'
  OBVIOUS
<1> DEFINE n == Len(packets)
           len == Len(output_dat)
           d == DataFrom(len)
           c == msgSaveCopy(d)
<1>1. /\ read \in Nat /\ total_bytes \in Nat /\ ReadSize \in Nat /\ ReadSize > HLEN
      /\ packets \in Seq(Seq(Int)) /\ n \in Nat \ {0} /\ HLEN \in Nat
      /\ output_dat \in Seq(Int) /\ len \in Nat
  BY PayloadSize, EmptySeq DEF SegmentsInv, SegmentsTypeOK, DeliverBytes
<1>2. Start(1) = len
  BY <1>1, StartStep DEF Start
<1>3. len < total_bytes /\ Head(packets) = msgAddHdr(d)
  <2>1. 1 \in 1 .. n /\ Head(packets) = packets[1]
    BY <1>1
  <2> QED BY <1>2, <2>1 DEF SegmentsInv, TransitInv
<1>4. /\ d \in Seq(Int) /\ Len(d) \in 1 .. ReadSize
      /\ Len(d) = IF len + ReadSize > total_bytes THEN total_bytes - len ELSE ReadSize
      /\ \A i \in 1 .. Len(d) : d[i] = len + i
  BY <1>1, <1>3, DataIsPayload
<1>5. msgStripHdr(Received(Head(packets))) = d
  BY <1>3, <1>4, HeaderRoundTrip
<1>6. /\ output_dat' = output_dat \o c
      /\ server' = IF Stopped(output_dat') THEN "done" ELSE "running"
      /\ packets' = Tail(packets) /\ UNCHANGED <<total_bytes, read, client, sendQ>>
  BY <1>5 DEF DeliverBytes
<1>7. /\ c \in Seq(Int) /\ Len(c) = SavedLen(d)
      /\ \A i \in 1 .. SavedLen(d) : c[i] = IF i <= Len(d) THEN d[i] ELSE Junk
  BY <1>4, WrittenCopy
<1>8. /\ Len(c) \in Nat /\ Len(d) <= Len(c)
      /\ len + ReadSize <= total_bytes => Len(c) = ReadSize
      /\ len + ReadSize > total_bytes => len + Len(c) >= total_bytes
  <2>1. Len(c) = IF Len(d) < HLEN THEN HLEN ELSE Len(d)
    BY <1>1, <1>4, <1>7, PayloadSize DEF SavedLen, URANGE
  <2> HIDE DEF d, c
  <2> QED BY <1>1, <1>4, <2>1
<1> HIDE DEF c, d
<1>9. /\ output_dat' \in Seq(Int) /\ Len(output_dat') = len + Len(c)
      /\ \A i \in 1 .. (len + Len(c)) :
            output_dat'[i] = IF i <= len THEN output_dat[i] ELSE c[i - len]
  BY <1>1, <1>6, <1>7, ConcatProperties
<1>10. /\ packets' \in Seq(Seq(Int)) /\ Len(packets') = n - 1
       /\ \A i \in 1 .. (n - 1) : packets'[i] = packets[i + 1]
  <2>1. packets # <<>>
    BY DEF DeliverBytes
  <2> QED BY <1>1, <1>6, <2>1, HeadTailProperties
<1>11. SegmentsTypeOK'
  BY <1>6, <1>9, <1>10 DEF SegmentsInv, SegmentsTypeOK
<1>12. n # 1 => len + ReadSize < total_bytes
  <2>1. SUFFICES ASSUME n # 1 PROVE len + ReadSize < total_bytes
    OBVIOUS
  <2>2. 2 \in 1 .. n
    <3> HIDE DEF n
    <3> QED BY <1>1, <2>1
  <2>3. Start(2) = len + ReadSize
    BY <1>1 DEF Start
  <2> QED BY <2>2, <2>3 DEF SegmentsInv, TransitInv
<1> DEFINE NewStart(i) == (len + Len(c)) + (i - 1) * ReadSize
<1>13. \A i : Start(i)' = NewStart(i)
  BY <1>9 DEF Start, ReadSize
<1>14. len + ReadSize <= total_bytes => \A i \in Nat : NewStart(i) = Start(i + 1)
  <2>1. SUFFICES ASSUME len + ReadSize <= total_bytes, NEW i \in Nat
                 PROVE  NewStart(i) = Start(i + 1)
    OBVIOUS
  <2>2. Len(c) = ReadSize
    BY <1>8, <2>1
  <2>3. (len + ReadSize) + (i - 1) * ReadSize = len + (i + 1 - 1) * ReadSize
    BY <1>1
  <2> QED BY <2>2, <2>3 DEF Start
<1>15. TransitInv'
  <2>1. \A a : DataFrom(a)' = DataFrom(a)
    BY <1>6 DEF DataFrom, ReadSize
  <2>2. ASSUME NEW i \in 1 .. (n - 1)
        PROVE  NewStart(i) < total_bytes /\ packets'[i] = msgAddHdr(DataFrom(NewStart(i)))
    <3>1. i \in Nat /\ i + 1 \in 1 .. n /\ n # 1
      <4> HIDE DEF n
      <4> QED BY <1>1
    <3>2. NewStart(i) = Start(i + 1)
      BY <1>1, <1>12, <1>14, <3>1
    <3> QED BY <1>10, <3>1, <3>2 DEF SegmentsInv, TransitInv
  <2>3. read = IF NewStart(n) > total_bytes THEN total_bytes ELSE NewStart(n)
    <3>1. n \in Nat
      BY <1>1
    <3>2. read = IF Start(n + 1) > total_bytes THEN total_bytes ELSE Start(n + 1)
      BY DEF SegmentsInv, TransitInv
    <3>3. CASE len + ReadSize <= total_bytes
      <4>1. NewStart(n) = Start(n + 1)
        BY <1>14, <3>1, <3>3
      <4> QED BY <3>2, <4>1
    <3>4. CASE len + ReadSize > total_bytes
      <4>1. n = 1
        BY <1>1, <1>12, <3>4
      <4>2. Start(n + 1) = len + ReadSize
        BY <1>1, <4>1 DEF Start
      <4>3. NewStart(n) = len + Len(c)
        <5> HIDE DEF len, c
        <5> QED BY <1>1, <1>8, <4>1
      <4> HIDE DEF NewStart, c, n, len
      <4>4. read = total_bytes
        BY <3>2, <3>4, <4>2
      <4>5. NewStart(n) >= total_bytes /\ NewStart(n) \in Int /\ total_bytes \in Int
        BY <1>1, <1>8, <3>4, <4>3
      <4> QED BY <4>4, <4>5
    <3> QED BY <1>1, <3>3, <3>4
  <2>4. n - 1 + 1 = n
    BY <1>1
  <2> HIDE DEF NewStart, n, c
  <2> QED BY <1>6, <1>10, <1>13, <2>1, <2>2, <2>3, <2>4 DEF TransitInv, msgAddHdr
<1>16. StopInv'
  BY <1>1, <1>6, <1>8, <1>9 DEF SegmentsInv, StopInv, Stopped
<1>17. OutputStartsWithInput'
  <2>1. ASSUME NEW i \in 1 .. (len + Len(c))
        PROVE  output_dat'[i] = IF i <= total_bytes THEN i ELSE Junk
    <3>1. CASE i <= len
      <4>1. i \in 1 .. len
        BY <1>1, <1>8, <3>1
      <4> QED BY <1>9, <3>1, <4>1 DEF SegmentsInv, OutputStartsWithInput
    <3>2. CASE i > len
      <4>1. i - len \in 1 .. Len(c) /\ output_dat'[i] = c[i - len]
        BY <1>1, <1>8, <1>9, <3>2
      <4>2. i - len <= Len(d) <=> i <= total_bytes
        BY <1>1, <1>4, <1>8, <3>2, <4>1
      <4>3. c[i - len] = IF i - len <= Len(d) THEN d[i - len] ELSE Junk
        BY <1>7, <4>1
      <4>4. i - len <= Len(d) => d[i - len] = i
        <5>1. SUFFICES ASSUME i - len <= Len(d) PROVE d[i - len] = i
          OBVIOUS
        <5>2. i - len \in 1 .. Len(d) /\ len + (i - len) = i
          BY <1>1, <1>4, <1>8, <4>1, <5>1
        <5> QED BY <1>4, <5>2
      <4> QED BY <4>1, <4>2, <4>3, <4>4
    <3> QED BY <1>1, <1>8, <3>1, <3>2
  <2> QED BY <1>6, <1>9, <2>1 DEF OutputStartsWithInput
<1>18. SavedIsSent'
  <2>1. DOMAIN packets = 1 .. n /\ DOMAIN packets' = 1 .. (n - 1)
    BY <1>1, <1>10, LenProperties
  <2>2. \A i \in 1 .. (n - 1) : i + 1 \in 1 .. n
    BY <1>1
  <2> QED BY <1>6, <1>10, <2>1, <2>2 DEF SegmentsInv, SavedIsSent
<1> QED BY <1>11, <1>15, <1>16, <1>17, <1>18 DEF SegmentsInv

THEOREM SegmentsInvariant == SegmentsSpec => []SegmentsInv
<1>1. SegmentsInv /\ [SegmentsNext]_segmentsVars => SegmentsInv'
  <2>1. SegmentsInv /\ UNCHANGED segmentsVars => SegmentsInv'
    BY DEF segmentsVars, SegmentsInv, SegmentsTypeOK, TransitInv, Start, DataFrom,
           ReadSize, msgAddHdr, StopInv, OutputStartsWithInput, SavedIsSent
  <2> QED BY <2>1, ReadAndSendKeeps, ReadNothingKeeps, DeliverBytesKeeps DEF SegmentsNext
<1> QED BY <1>1, SegmentsInvInit, PTL DEF SegmentsSpec

\* The bytes written are the bytes read, for every size of file, buffer and header:
\* the padding that msgSaveCopy gives a short last frame lies behind the end.
THEOREM BytesArriveInOrder == SegmentsSpec => []OutputStartsWithInput
<1>1. SegmentsInv => OutputStartsWithInput
  BY DEF SegmentsInv
<1> QED BY <1>1, SegmentsInvariant, PTL

\* Every packet fits the buffer and is the copy that a retransmission sends.
THEOREM CopiesArePackets == SegmentsSpec => []SavedIsSent
<1>1. SegmentsInv => SavedIsSent
  BY DEF SegmentsInv
<1> QED BY <1>1, SegmentsInvariant, PTL

\* The server's count of bytes and the client's end of file agree on the last
\* packet, though the last one is shorter, or padded, or full.
THEOREM ServerStopsInTime == SegmentsSpec => []StopsWithLastByte
<1>1. ASSUME SegmentsInv PROVE StopsWithLastByte
  <2>1. /\ read \in Nat /\ total_bytes \in Nat /\ packets \in Seq(Seq(Int))
        /\ Len(packets) \in Nat /\ Len(output_dat) \in Nat /\ ReadSize \in Nat
        /\ server \in {"running", "done"}
    BY <1>1, PayloadSize DEF SegmentsInv, SegmentsTypeOK
  <2>2. Start(1) = Len(output_dat)
    BY <2>1, StartStep DEF Start
  <2>3. packets = <<>> => Start(Len(packets) + 1) = Len(output_dat)
    BY <2>2
  <2>4. packets # <<>> => 1 \in 1 .. Len(packets)
    BY <2>1, EmptySeq
  <2>5. packets # <<>> => Len(output_dat) < total_bytes
    BY <1>1, <2>2, <2>4 DEF SegmentsInv, TransitInv
  <2>6. server = "done" => Len(output_dat) >= total_bytes /\ packets = <<>>
    BY <1>1, <2>1, <2>5 DEF SegmentsInv, StopInv
  <2>7. packets = <<>> => read = IF Len(output_dat) > total_bytes THEN total_bytes
                                 ELSE Len(output_dat)
    BY <1>1, <2>3 DEF SegmentsInv, TransitInv
  <2>8. server = "done" => read = total_bytes
    BY <2>1, <2>6, <2>7
  <2>9. client = "eof" /\ packets = <<>> /\ total_bytes > 0 => server = "done"
    BY <1>1, <2>1, <2>7 DEF SegmentsInv, StopInv
  <2> QED BY <2>6, <2>8, <2>9 DEF StopsWithLastByte
<1> QED BY <1>1, SegmentsInvariant, PTL
=================================================================================
