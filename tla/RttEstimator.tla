------------------------------ MODULE RttEstimator ------------------------------
(***************************************************************************)
(* The retransmission timeout of the sender: Jacobson's estimator          *)
(* (nextTimeoutValue in event.c), Karn's back-off (swpTimeout), and        *)
(* "timeout" in SwpState, which all slots share and which both change.     *)
(* Estimates are in milliseconds, samples and timeouts in microseconds.    *)
(* The code computes in doubles and rounds at every step; for round trips  *)
(* of less than a day the results are these integers.                      *)
(*                                                                         *)
(* sendSWP caps the timeout of a new frame with UMIN, a macro that reads   *)
(* "timeout" twice; the signal handler can change it between the reads.    *)
(***************************************************************************)
EXTENDS Integers

CONSTANTS Cap,        \* the longest timeout of a frame: 3000000
          MaxSample,  \* bound: the longest round trip
          Samples     \* the round trips that are measured

ASSUME CapAssumption == Cap \in Nat
ASSUME SamplesAssumption == /\ MaxSample \in Nat
                            /\ Samples \subseteq 1 .. MaxSample

VARIABLES
    estimatedRTT, estimatedRTTdev, sampleRTT,  \* of RTT_est
    estTimeout,    \* RTT_est.timeout, the last value computed
    timeout,       \* SwpState.timeout
    reading,       \* the thread is between the two reads of UMIN
    frameTimeout   \* the timeout given to the last frame sent or sent again

rttVars == <<estimatedRTT, estimatedRTTdev, sampleRTT, estTimeout, timeout,
             reading, frameTimeout>>

-------------------------------------------------------------------------------
\* ceil(n / d) and round(n / d).
CeilDiv(n, d) == (n + d - 1) \div d
RoundDiv(n, d) == (n + d \div 2) \div d

DistanceSigned(a, b) == a - b    \* mutant: "if(diff < 0)" left out

Distance(a, b) == IF a < b THEN b - a ELSE a - b

NextEstimateUnweighted(est, sample) == est + CeilDiv(sample, 8000)    \* mutant

\* An eighth of the sample and seven eighths of the old estimate.
NextEstimate(est, sample) == CeilDiv(7 * est, 8) + CeilDiv(sample, 8000)

NextDeviationOfOld(dev, est, sample) == CeilDiv(3 * dev, 4)    \* mutant: no new part

\* A quarter of the sample's distance from the new estimate.
NextDeviation(dev, est, sample) ==
    CeilDiv(3 * dev, 4) + CeilDiv(Distance(est, RoundDiv(sample, 1000)), 4)

Capped(t) == IF t < Cap THEN t ELSE Cap

RttInit ==
    /\ estimatedRTT = 0 /\ estimatedRTTdev = 0 /\ sampleRTT = 0
    /\ estTimeout = Cap /\ timeout = Cap
    /\ reading = FALSE
    /\ frameTimeout = 0

\* updateRTT, when the timed frame is acknowledged after one transmission.
Sample(s) ==
    /\ sampleRTT' = s
    /\ estimatedRTT' = NextEstimate(estimatedRTT, s)
    /\ estimatedRTTdev' = NextDeviation(estimatedRTTdev, estimatedRTT', s)
    /\ estTimeout' = 1000 * (estimatedRTT' + 4 * estimatedRTTdev')
    /\ timeout' = estTimeout'
    /\ UNCHANGED <<reading, frameTimeout>>

BackOffHalves(t) == Capped(t \div 2)    \* mutant: /= for *=

\* swpTimeout doubles the shared timeout when the frame was sent again before.
BackOff(t) == Capped(2 * t)

FirstTimeout ==
    /\ timeout' = Capped(timeout)
    /\ frameTimeout' = timeout'
    /\ UNCHANGED <<estimatedRTT, estimatedRTTdev, sampleRTT, estTimeout, reading>>

TimeoutOnTimeout ==
    /\ timeout' = BackOff(timeout)
    /\ frameTimeout' = timeout'
    /\ UNCHANGED <<estimatedRTT, estimatedRTTdev, sampleRTT, estTimeout, reading>>

\* UMIN(3000000ULL, timeout) in sendSWP: the comparison, and the second read.
ReadTimeout ==
    /\ ~reading
    /\ IF Cap < timeout THEN frameTimeout' = Cap /\ UNCHANGED reading
                        ELSE reading' = TRUE /\ UNCHANGED frameTimeout
    /\ UNCHANGED <<estimatedRTT, estimatedRTTdev, sampleRTT, estTimeout, timeout>>

ReadTimeoutAgain ==
    /\ reading
    /\ reading' = FALSE
    /\ frameTimeout' = timeout
    /\ UNCHANGED <<estimatedRTT, estimatedRTTdev, sampleRTT, estTimeout, timeout>>

RttNext == \/ \E s \in Samples : Sample(s)
           \/ FirstTimeout \/ TimeoutOnTimeout
           \/ ReadTimeout \/ ReadTimeoutAgain

RttSpec == RttInit /\ [][RttNext]_rttVars

-------------------------------------------------------------------------------
(* Properties.                                                             *)

\* The longest round trip in milliseconds, rounded up to a multiple of 8.
MaxEstimate == 8 * CeilDiv(MaxSample, 8000)

MaxOf(a, b) == IF a < b THEN b ELSE a

\* Every variable keeps the type its C declaration gives it.
RttTypeOK ==
    /\ estimatedRTT \in Nat /\ estimatedRTTdev \in Nat
    /\ sampleRTT \in 0 .. MaxSample
    /\ estTimeout \in Nat /\ timeout \in Nat
    /\ reading \in BOOLEAN
    /\ frameTimeout \in Nat

\* Though nextTimeoutValue rounds up at every step, estimate and deviation do
\* not creep upwards: neither passes the longest round trip, rounded up to 8 ms,
\* so no timeout is longer than five times that or the cap.
EstimateBounded ==
    /\ estimatedRTT <= MaxEstimate /\ estimatedRTTdev <= MaxEstimate
    /\ timeout <= MaxOf(Cap, 5000 * MaxEstimate)
    /\ frameTimeout <= MaxOf(Cap, 5000 * MaxEstimate)

\* No order of samples, timeouts and doublings takes the timeout below the round
\* trip that was measured last, but for the cap: the sender cannot fall
\* into timing out every frame before its acknowledgement can arrive.
TimeoutCoversSample == timeout >= Capped(1000 * RoundDiv(sampleRTT, 1000))

\* The same of the timeout a frame is given, whatever the handler does between
\* the two reads of UMIN.
FrameTimeoutCoversSample ==
    [][frameTimeout' # frameTimeout
          => frameTimeout' >= Capped(1000 * RoundDiv(sampleRTT, 1000))]_rttVars
================================================================================
