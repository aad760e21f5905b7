------------------------------- MODULE Transport -------------------------------
(***************************************************************************)
(* What transport.h gives both ends: the sizes of the two slot arrays, and *)
(* how a sequence number finds its slot.  __SWS and __RWS are one constant *)
(* here: both default to 33, and congestion_timer indexes sendQ modulo     *)
(* __RWS.  Sequence numbers stay below 2^32 here: they do not wrap.        *)
(***************************************************************************)
EXTENDS Integers, Sequences, FiniteSets

CONSTANTS SWS,      \* __SWS = __RWS
          NFrames   \* the number of frames the client cuts its file into

ASSUME SWSAssumption == SWS \in Nat /\ SWS >= 3
ASSUME NFramesAssumption == NFrames \in Nat /\ NFrames >= 1

Slots == 0 .. (SWS - 1)
NoSlot == SWS

Slot(seq) == seq % SWS
Frames == 1 .. NFrames
================================================================================
