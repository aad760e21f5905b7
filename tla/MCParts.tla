-------------------------------- MODULE MCParts --------------------------------
(***************************************************************************)
(* The parts whose state spaces are small, for TLC: the receiver, the      *)
(* round trip estimator, the bytes of the file, the wrapping windows.      *)
(* They share no state; each behaviour is one of "part".                   *)
(***************************************************************************)
EXTENDS SwpReceiver, RttEstimator, Segments, SeqnoWindow

VARIABLE part    \* the part that runs in this behaviour

partsVars == <<part, receiverVars, rttVars, segmentsVars, windowVars>>

\* Round trips below, at and above a millisecond, on both sides of the points
\* where the code rounds, and one whose timeout is capped.
MCSamples == {1, 499, 500, 8000, 8001, 17000}
MCMaxSample == 17000
MCCap == 30000

PartsInit ==
    /\ part \in {"receiver", "estimator", "segments", "window"}
    /\ ReceiverInit /\ RttInit /\ SegmentsInit /\ WindowInit
    /\ part # "segments" => total_bytes = 0

PartsNext ==
    \/ /\ part = "receiver" /\ ReceiverNext
       /\ UNCHANGED <<part, rttVars, segmentsVars, windowVars>>
    \/ /\ part = "estimator" /\ RttNext
       /\ UNCHANGED <<part, receiverVars, segmentsVars, windowVars>>
    \/ /\ part = "segments" /\ SegmentsNext
       /\ UNCHANGED <<part, receiverVars, rttVars, windowVars>>
    \/ /\ part = "window" /\ WindowNext
       /\ UNCHANGED <<part, receiverVars, rttVars, segmentsVars>>

PartsSpec == PartsInit /\ [][PartsNext]_partsVars
================================================================================
