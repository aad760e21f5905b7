------------------------------ MODULE SwpReceiver ------------------------------
(***************************************************************************)
(* The receiving side of the sliding window protocol (swp.c) in the server *)
(* process, with the server's deliverHLP, which writes frames to the       *)
(* output file until it has the expected number of bytes.                  *)
(*                                                                         *)
(* The server is one thread, in recvDataMainLoop: it blocks for a packet,  *)
(* hands it to deliverSWP, then does the same for every packet that        *)
(* already waits in the socket, and answers the result of the last one     *)
(* with one acknowledgement.                                               *)
(***************************************************************************)
EXTENDS Transport, FiniteSetsExt

CONSTANT MaxRepeats  \* bound: how many repetitions of the last frame are kept

ASSUME MaxRepeatsAssumption == MaxRepeats \in Nat

VARIABLES
    rpc,        \* "recv": blocked in recvfrom; "drain": in the inner loop;
                \* "done": recvDataMainLoop has returned 0
    swp_res,    \* the result of the last deliverSWP; "NONE" once it is answered,
                \* as the next one is stored before it is read again
    NFE,        \* next frame expected
    LAF,        \* highest frame number ever buffered out of order
    received,   \* per slot
    recvMsg,    \* per slot: the saved frame, 0 when destroyed
    output      \* the frames written to the output file, in order

receiverVars == <<rpc, swp_res, NFE, LAF, received, recvMsg, output>>

-------------------------------------------------------------------------------
Results == {"NONE", "MSG_DROPPED", "DELAYED_ACK", "MSG_BUFFERED", "GAP_FILLED",
            "XFER_COMPLETE"}

\* The receiver's half of the state after SWP_create.
ReceiverInit ==
    /\ rpc = "recv"
    /\ swp_res = "NONE"
    /\ NFE = 1 /\ LAF = 0
    /\ received = [s \in Slots |-> FALSE]
    /\ recvMsg = [s \in Slots |-> 0]
    /\ output = <<>>

-------------------------------------------------------------------------------
(* deliverSWP for a data packet.  recvfrom is the blocking call when the   *)
(* thread is at "recv" and the MSG_DONTWAIT one when it drains.            *)

Listening == rpc \in {"recv", "drain"}

\* Mutants: no lower end; an upper end one too far; no upper end.
InReceiveWindowNoLower(seq) == seq <= NFE + SWS - 1
InReceiveWindowOneMore(seq) == NFE <= seq /\ seq <= NFE + SWS
InReceiveWindowNoUpper(seq) == NFE <= seq

InReceiveWindow(seq) == NFE <= seq /\ seq <= NFE + SWS - 1

DropData(seq) ==
    /\ Listening
    /\ ~InReceiveWindow(seq)
    /\ swp_res' = "MSG_DROPPED"
    /\ rpc' = "drain"
    /\ UNCHANGED <<NFE, LAF, received, recvMsg, output>>

\* A frame beyond a gap is saved; so is a second copy, over the first.
BufferData(seq) ==
    /\ Listening
    /\ InReceiveWindow(seq) /\ seq # NFE
    /\ received' = [received EXCEPT ![Slot(seq)] = TRUE]
    /\ recvMsg' = [recvMsg EXCEPT ![Slot(seq)] = seq]
    /\ LAF' = IF LAF < seq THEN seq ELSE LAF
    /\ swp_res' = "MSG_BUFFERED"
    /\ rpc' = "drain"
    /\ UNCHANGED <<NFE, output>>

FileCompleteLate(written) == Len(written) > NFrames    \* mutant: off by one

\* deliverHLP answers 0 from the moment the file has all its bytes.
FileComplete(written) == Len(written) >= NFrames

\* The file, without the repetitions of its last frame that exceed the bound.
Kept(file) == SubSeq(file, 1, Min({Len(file), NFrames + MaxRepeats}))

\* The frame expected: it and the frames buffered right behind it are written.
\* When deliverHLP answers 0 the loop is left at once, with that frame still in
\* its slot and NFE still its number.
DeliverData(seq) ==
    LET have   == [received EXCEPT ![Slot(seq)] = TRUE]
        saved  == [recvMsg EXCEPT ![Slot(seq)] = seq]
        run    == Max({n \in 1 .. SWS :
                           \A k \in 0 .. (n - 1) : have[Slot(seq + k)]})
        wanted == Max({1, NFrames - Len(output)})
        n      == Min({run, wanted})
        passed == IF FileComplete(output') THEN n - 1 ELSE n
        freed  == {Slot(seq + k) : k \in 0 .. (passed - 1)}
    IN  /\ Listening
        /\ InReceiveWindow(seq) /\ seq = NFE
        /\ output' = Kept(output \o [k \in 1 .. n |-> saved[Slot(seq + k - 1)]])
        /\ NFE' = NFE + passed
        /\ received' = [s \in Slots |-> have[s] /\ s \notin freed]
        /\ recvMsg' = [s \in Slots |-> IF s \in freed THEN 0 ELSE saved[s]]
        /\ LAF' = IF passed > 0 /\ LAF = seq THEN 0 ELSE LAF
        /\ swp_res' = IF FileComplete(output') THEN "XFER_COMPLETE"
                      ELSE IF LAF' = 0 /\ passed = 1 THEN "DELAYED_ACK"
                      ELSE "GAP_FILLED"
        /\ rpc' = "drain"

RecvData(seq) == DropData(seq) \/ BufferData(seq) \/ DeliverData(seq)

-------------------------------------------------------------------------------
(* recvDataMainLoop after the last waiting packet: prepare_ack, sendLINK.  *)

\* Mutants: the number of the frame expected; the highest one received.
ReplyAckNext == NFE
ReplyAckHighest == IF swp_res = "MSG_BUFFERED" THEN LAF ELSE NFE - 1

\* The AckNum of the reply: the transfer's last frame is still NFE.
ReplyAck == IF swp_res = "XFER_COMPLETE" THEN NFE ELSE NFE - 1

\* The frames its SACK option may report: those that are buffered beyond NFE
\* or were when their block was made.  Only a buffered frame is answered with
\* an option.
Reportable ==
    IF swp_res = "MSG_BUFFERED"
    THEN ({recvMsg[s] : s \in Slots} \cup {output[i] : i \in DOMAIN output}) \ {0}
    ELSE {}

\* The last frame is acknowledged and the loop returns 0.
ReplyComplete ==
    /\ rpc = "drain"
    /\ swp_res = "XFER_COMPLETE"
    /\ rpc' = "done"
    /\ UNCHANGED <<swp_res, NFE, LAF, received, recvMsg, output>>

\* Any other result is answered and the loop blocks for the next packet.
ReplyAndWait ==
    /\ rpc = "drain"
    /\ swp_res # "XFER_COMPLETE"
    /\ rpc' = "recv"
    /\ swp_res' = "NONE"
    /\ UNCHANGED <<NFE, LAF, received, recvMsg, output>>

Reply == ReplyComplete \/ ReplyAndWait

\* Any frame of the file may arrive at any time, any number of times, in any
\* order: what the network and the sender's timeouts can bring about together.
ReceiverNext == \/ \E seq \in Frames : RecvData(seq)
                \/ Reply
                \/ rpc = "done" /\ UNCHANGED receiverVars

ReceiverSpec == ReceiverInit /\ [][ReceiverNext]_receiverVars

-------------------------------------------------------------------------------
(* Properties.                                                             *)

\* The number of different frames that are in the output file.
Written == Min({Len(output), NFrames})

\* Every variable keeps the type its C declaration gives it.
ReceiverTypeOK ==
    /\ rpc \in {"recv", "drain", "done"}
    /\ swp_res \in Results
    /\ NFE \in Frames
    /\ LAF \in 0 .. NFrames
    /\ received \in [Slots -> BOOLEAN]
    /\ recvMsg \in [Slots -> 0 .. NFrames]
    /\ output \in Seq(Frames)

\* The output file is the input file, whatever order and however often the
\* frames arrive, except that its last frame may be repeated at the end.
OutputInOrder == \A i \in DOMAIN output : output[i] = Min({i, NFrames})

\* A slot marked received holds a frame of the receive window, in its own
\* place; the expected frame itself is in its slot only when it is the last
\* one and was left there.  No earlier occupant of a slot can be written in
\* the place of a later frame.
BufferInWindow ==
    \A s \in Slots : received[s] =>
        /\ Slot(recvMsg[s]) = s
        /\ recvMsg[s] >= NFE /\ recvMsg[s] <= NFE + SWS - 1
        /\ recvMsg[s] = NFE => FileComplete(output)

\* A reply acknowledges exactly the frames that are in the output file, but for
\* the last one, which a reply to anything but its own arrival leaves out.
AcksWritten ==
    rpc = "drain" => ReplyAck = Written \/ (ReplyAck = NFrames - 1 /\ Written = NFrames)

\* transport.h calls NFE the "Next frame expected": when the thread blocks for
\* the next packet, that frame is not one it has written.
ExpectedNotWritten == rpc = "recv" => \A i \in DOMAIN output : output[i] # NFE

\* A frame saved beyond a gap stays in its slot until it is written: no later
\* packet, dropped, repeated or delivered, can lose it.
BufferedUntilWritten ==
    [][\A s \in Slots : received[s] =>
          \/ received'[s] /\ recvMsg'[s] = recvMsg[s]
          \/ \E i \in DOMAIN output' : output'[i] = recvMsg[s]]_receiverVars
================================================================================
