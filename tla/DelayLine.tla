------------------------------ MODULE DelayLine ------------------------------
(***************************************************************************)
(* What libnet promises its user: a line that delays.  A packet handed     *)
(* over is lost at the entrance or waits; packets leave in the order in    *)
(* which they were handed over, each of them once.                         *)
(***************************************************************************)
EXTENDS Naturals, Sequences

VARIABLES
    decided,  \* number of packets handed over so far
    waiting,  \* the packets on the line, oldest first
    out       \* the packets that have left it, oldest first

lineVars == <<decided, waiting, out>>

LineInit == decided = 0 /\ waiting = <<>> /\ out = <<>>

Accept == /\ decided' = decided + 1
          /\ waiting' = Append(waiting, decided + 1)
          /\ UNCHANGED out

Discard == /\ decided' = decided + 1
           /\ UNCHANGED <<waiting, out>>

Leave == /\ waiting # <<>>
         /\ out' = Append(out, Head(waiting))
         /\ waiting' = Tail(waiting)
         /\ UNCHANGED decided

LineNext == Accept \/ Discard \/ Leave

LineSpec == LineInit /\ [][LineNext]_lineVars
===============================================================================
