----------------------------- MODULE FileTransfer ------------------------------
(***************************************************************************)
(* What the protocol promises, whatever the network does: frames are sent  *)
(* in order and at most Window ahead of the acknowledged ones, the server  *)
(* writes the next frames of the file and only frames that were sent, and  *)
(* the client takes a frame for acknowledged only when it is in the file.  *)
(***************************************************************************)
EXTENDS Naturals

CONSTANTS NFrames, Window

VARIABLES sent,     \* frames 1 .. sent have been handed to the network
          written,  \* frames 1 .. written are in the output file
          acked     \* frames 1 .. acked are released by the client

transferVars == <<sent, written, acked>>

TransferInit == sent = 0 /\ written = 0 /\ acked = 0

Send == /\ sent < NFrames /\ sent < acked + Window
        /\ sent' = sent + 1
        /\ UNCHANGED <<written, acked>>

Write == /\ written' \in (written + 1) .. sent
         /\ UNCHANGED <<sent, acked>>

Acknowledge == /\ acked' \in (acked + 1) .. written
               /\ UNCHANGED <<sent, written>>

TransferNext == Send \/ Write \/ Acknowledge

TransferSpec == TransferInit /\ [][TransferNext]_transferVars
================================================================================
