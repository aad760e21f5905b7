------------------------------ MODULE SackReceiver ------------------------------
(***************************************************************************)
(* The receiver with the list of SACK blocks it keeps: what deliverSWP and *)
(* recvDataMainLoop call in swp_options.c, at the places where they do.    *)
(***************************************************************************)
EXTENDS SwpReceiver, SackOptions

vars == <<receiverVars, sackVars>>

Init == ReceiverInit /\ SackInit

Drop(seq) == DropData(seq) /\ UNCHANGED sackVars

Buffer(seq) == BufferData(seq) /\ PrepareSack(seq)

\* The list is not touched once the file is complete.
Deliver(seq) ==
    /\ DeliverData(seq)
    /\ IF FileComplete(output')
       THEN UNCHANGED sackVars
       ELSE CumulativeAck(NFE')

\* A reply copies the list into its SACK option (SackWire) and leaves it alone.
Answer == Reply /\ UNCHANGED sackVars

Terminating == rpc = "done" /\ UNCHANGED vars

Next == \/ \E seq \in Frames : Drop(seq) \/ Buffer(seq) \/ Deliver(seq)
        \/ Answer
        \/ Terminating

Spec == Init /\ [][Next]_vars

-------------------------------------------------------------------------------
(* Properties.                                                             *)

\* Every variable keeps its type: the list never overflows its array, the
\* subtraction of emptied blocks never wraps n_blocks around.
SackTypeOK ==
    /\ n_blocks \in 0 .. MaxBlocks
    /\ idx_last_block \in 0 .. (MaxBlocks - 1)
    /\ SwpSACKdata \in [0 .. MaxBlocks -> [left_edge : 0 .. NFrames,
                                           right_edge : 0 .. (NFrames + 1)]]
================================================================================
