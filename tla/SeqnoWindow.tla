------------------------------ MODULE SeqnoWindow ------------------------------
(***************************************************************************)
(* The windows of both ends when sequence numbers wrap: SwpSeqno is a      *)
(* uint32_t, and a transfer may pass 2^32 frames.  The state below counts  *)
(* frames without bound; the code sees each count modulo SeqnoMod, and     *)
(* tests it with swpInWindow.                                              *)
(*                                                                         *)
(* What the code keeps per slot is left out here, and so is the choice of  *)
(* the frames to send: any sender that has at most Window frames           *)
(* outstanding.  A packet is late by less than a whole round of numbers.   *)
(***************************************************************************)
EXTENDS Integers

CONSTANTS SeqnoMod,   \* 2^32, the number of sequence numbers
          Window,     \* the most frames that are outstanding
          RWS,        \* __RWS, the length of the receive window
          Late,       \* bound: how many frames a packet may be older than lfs
          LastFrame   \* bound: the number of frames sent

ASSUME SeqnoModAssumption == SeqnoMod \in Nat /\ Window \in Nat \ {0} /\ RWS \in Nat \ {0}
ASSUME WindowAssumption == Window <= RWS
ASSUME LateAssumption == Late \in Nat /\ Late + RWS <= SeqnoMod
ASSUME LastFrameAssumption == LastFrame \in Nat

VARIABLES lar, lfs,   \* the sender's, counted without wrapping
          nfe         \* the receiver's, counted without wrapping

windowVars == <<lar, lfs, nfe>>

\* The SwpSeqno of the frame that is the n-th.
Seqno(n) == n % SeqnoMod

\* Mutant: the two ends are compared as they are.
swpInWindowCompared(seqno, min, max) == min <= seqno /\ seqno <= max

\* swpInWindow, in the arithmetic of uint32_t.
swpInWindow(seqno, min, max) ==
    LET pos    == (seqno - min) % SeqnoMod
        maxpos == (max - min + 1) % SeqnoMod
    IN  pos < maxpos

InWindowOfSender(ack) == swpInWindow(Seqno(ack), Seqno(lar + 1), Seqno(lfs))
InWindowOfReceiver(seq) == swpInWindow(Seqno(seq), Seqno(nfe), Seqno(nfe + RWS - 1))

-------------------------------------------------------------------------------
\* The frames and the acknowledgements that may arrive: the receiver
\* acknowledges nfe - 1, and every earlier value of it.
NotTooLate(n) == lfs - Late < n
FrameArrives(seq) == seq \in 1 .. lfs /\ NotTooLate(seq)
AckArrives(ack) == ack \in 0 .. (nfe - 1) /\ NotTooLate(ack)

WindowInit == lar = 0 /\ lfs = 0 /\ nfe = 1

\* sendSWP
NextFrame == /\ lfs - lar < Window /\ lfs < LastFrame
             /\ lfs' = lfs + 1
             /\ UNCHANGED <<lar, nfe>>

\* deliverSWP for a frame: the one expected, with those buffered behind it.
RecvFrame(seq) == /\ FrameArrives(seq)
                  /\ InWindowOfReceiver(seq) /\ Seqno(seq) = Seqno(nfe)
                  /\ \E last \in nfe .. lfs :
                         last < nfe + RWS /\ nfe' = last + 1
                  /\ UNCHANGED <<lar, lfs>>

\* Mutant: every acknowledgement is taken for a new one.
RecvAckUntested(ack) == /\ AckArrives(ack)
                        /\ \E n \in (lar + 1) .. (lar + SeqnoMod) :
                               Seqno(n) = Seqno(ack) /\ lar' = n
                        /\ UNCHANGED <<lfs, nfe>>

\* deliverSWP for an acknowledgement: ++lar until it is AckNum.
RecvAck(ack) == /\ AckArrives(ack)
                /\ InWindowOfSender(ack)
                /\ \E n \in (lar + 1) .. (lar + SeqnoMod) :
                       Seqno(n) = Seqno(ack) /\ lar' = n
                /\ UNCHANGED <<lfs, nfe>>

Done == lar = LastFrame /\ UNCHANGED windowVars

WindowNext == \/ NextFrame
        \/ \E seq \in 1 .. lfs : RecvFrame(seq)
        \/ \E ack \in 0 .. (nfe - 1) : RecvAck(ack)
        \/ Done

WindowSpec == WindowInit /\ [][WindowNext]_windowVars

-------------------------------------------------------------------------------
(* Properties.                                                             *)

\* Also while the numbers wrap, lar < nfe <= lfs + 1: no late packet of the
\* round before is taken for a new one and releases or delivers a frame.
AckedWasDelivered == lar < nfe /\ nfe <= lfs + 1 /\ lfs <= lar + Window

\* swpInWindow takes exactly the packets whose frame is in the window, for each
\* packet that may arrive at either end.
WindowTestsExact ==
    /\ \A ack \in 0 .. (nfe - 1) :
           AckArrives(ack) => (InWindowOfSender(ack) <=> lar < ack /\ ack <= lfs)
    /\ \A seq \in 1 .. lfs :
           FrameArrives(seq) =>
               (InWindowOfReceiver(seq) <=> nfe <= seq /\ seq <= nfe + RWS - 1)
================================================================================
