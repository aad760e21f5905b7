------------------------------- MODULE ArtcpProofs -------------------------------
(***************************************************************************)
(* Both ends together implement the abstract transfer: for every size of   *)
(* the slot arrays, every file, and every order in which the network       *)
(* delivers, repeats and loses packets.                                    *)
(***************************************************************************)
EXTENDS Artcp, SenderQueueProofs, SwpReceiverProofs

-------------------------------------------------------------------------------
(* The inductive invariant.                                                *)

\* Every acknowledgement on its way, or being handled, is of frames that are in
\* the file.
AckInv == /\ LAR <= Written /\ Written <= Scheduled
          /\ handler = "acking" => ackTo <= Written
          /\ \A p \in ackNet : p.ack \in 0 .. Written /\ p.sacks \subseteq Frames

\* What the server has buffered was sent.
ArrivedInv == \A s \in Slots : received[s] => recvMsg[s] <= Scheduled

ArtcpInv == /\ SenderInv /\ QueueInv
            /\ ReceiverInv
            /\ AckInv /\ ArrivedInv

-------------------------------------------------------------------------------
(* What the steps of the two ends do to the three counters.                *)

USE DEF threadVars, handlerVars, congestionVars, historyVars, slotVars, queueVars, timerVars

\* sendSWP schedules the next frame, while at most MaxSendWin are outstanding.
LEMMA ThreadCounts ==
    ASSUME SenderInv, QueueInv, Thread
    PROVE  /\ UNCHANGED <<LAR, handler, ackTo>>
           /\ \/ Scheduled' = Scheduled
              \/ /\ Scheduled' = Scheduled + 1
                 /\ Scheduled < NFrames /\ Scheduled < LAR + (MaxSendWin + 1)
<1>1. UNCHANGED <<LAR, handler, ackTo>>
  BY DEF Thread, SemWait, TestWindow, UnregisterTimer, NumberFrame, StoreFrame,
         ScheduleFrame
<1>2. CASE ScheduleFrame
  <2>1. Scheduled = LFS - 1 /\ Scheduled' = LFS
    BY <1>2 DEF ScheduleFrame, ThreadAt, Scheduled
  <2>2. LFS - LAR <= MaxSendWin + 1
    BY DEF SenderInv, WindowInv, WindowBound
  <2>3. LFS \in Nat /\ LAR \in Nat /\ LFS <= NFrames
    BY WindowNumbers
  <2>4. LFS - 1 < NFrames /\ LFS - 1 < LAR + (MaxSendWin + 1) /\ LFS = (LFS - 1) + 1
    BY <2>2, <2>3, NFramesAssumption, MaxSendWinType
  <2> QED BY <1>1, <2>1, <2>4
<1>3. CASE Thread /\ ~ScheduleFrame
  <2>1. Scheduled' = Scheduled
    BY <1>3, WindowNumbers
       DEF Thread, SemWait, TestWindow, UnregisterTimer, NumberFrame, StoreFrame,
           ThreadAt, Scheduled
  <2> QED BY <1>1, <2>1
<1> QED BY <1>2, <1>3

\* The handler moves LAR, and only up to the AckNum it has read.
HandlerMovesLAR == handler = "acking" /\ LAR' = LAR + 1 /\ LAR' <= ackTo

LEMMA HandlerCounts ==
    ASSUME SenderInv, Handler
    PROVE  /\ UNCHANGED <<pc, LFS>> /\ Scheduled' = Scheduled
           /\ LAR' = LAR \/ HandlerMovesLAR
           /\ handler' = "acking" => handler = "acking" /\ ackTo' = ackTo
<1>1. UNCHANGED <<pc, LFS>>
  BY DEF Handler, HandlerRuns, ProcTimer, CongestionTimerFires, ReleaseFrame,
         RearmNothing, RearmFirst, RearmCongestion, RearmFails, ReadNothing
<1>2. Scheduled' = Scheduled
  BY <1>1 DEF Scheduled
<1>3. CASE ReleaseFrame
  <2>1. LAR < ackTo /\ LAR \in Nat /\ ackTo \in Nat
    <3>1. LAR < ackTo
      BY <1>3 DEF SenderInv, WindowInv, AckingInv, ReleaseFrame
    <3>2. LAR \in 0 .. NFrames /\ ackTo \in 0 .. NFrames
      BY DEF SenderInv, SenderTypeOK
    <3> QED BY <3>1, <3>2
  <2> QED BY <1>1, <1>2, <1>3, <2>1 DEF ReleaseFrame, HandlerMovesLAR
<1>4. CASE Handler /\ ~ReleaseFrame
  BY <1>1, <1>2, <1>4
     DEF Handler, HandlerRuns, ProcTimer, CongestionTimerFires, RearmNothing,
         RearmFirst, RearmCongestion, RearmFails, ReadNothing
<1> QED BY <1>3, <1>4

LEMMA RecvAckCounts ==
    ASSUME NEW ack, NEW sacks, RecvAck(ack, sacks)
    PROVE  /\ UNCHANGED <<pc, LFS, LAR>> /\ Scheduled' = Scheduled
           /\ handler' = "acking" => ackTo' = ack
<1>1. /\ UNCHANGED <<pc, LFS, LAR>>
      /\ handler' = "acking" => ackTo' = ack
  BY DEF RecvAck, RecvNewAck, RecvDuplicateAck, RecvOtherAck
<1> QED BY <1>1 DEF Scheduled

\* A packet adds frames to the file that have arrived, now or earlier: when all
\* of these are at most b, so are they.
LEMMA RecvDataCounts ==
    ASSUME ReceiverInv, NEW b \in Nat, NEW seq \in Frames, seq <= b, Written <= b,
           \A s \in Slots : received[s] => recvMsg[s] <= b,
           RecvData(seq)
    PROVE  /\ Written' \in Written .. b
           /\ \A s \in Slots : received'[s] => recvMsg'[s] <= b
<1>1. ReceiverTypeOK /\ BufferInWindow /\ NFE \in Nat /\ seq \in Nat /\ Slot(seq) \in Slots
  <2>1. NFE \in Nat /\ seq \in Nat
    BY DEF ReceiverInv, ReceiverTypeOK, Frames
  <2> QED BY <2>1, SlotType DEF ReceiverInv
<1>2. Written \in Nat /\ Written \in Written .. b
  BY <1>1, WrittenNumber
<1>3. CASE DropData(seq)
  BY <1>2, <1>3 DEF DropData, Written
<1>4. CASE BufferData(seq)
  <2>1. Written' = Written
    BY <1>4 DEF BufferData, Written
  <2>2. \A s \in Slots : received'[s] => recvMsg'[s] <= b
    BY <1>1, <1>4 DEF BufferData, ReceiverTypeOK
  <2> QED BY <1>2, <2>1, <2>2
<1>5. CASE DeliverData(seq)
  <2>1. PICK n \in 1 .. SWS :
            LET passed == IF FileComplete(output') THEN n - 1 ELSE n
            IN  /\ seq = NFE
                /\ received' = [s \in Slots |->
                       (received[s] \/ s = Slot(NFE)) /\ s \notin Freed(passed)]
                /\ recvMsg' = [s \in Slots |->
                       IF s \in Freed(passed) THEN 0
                       ELSE IF s = Slot(NFE) THEN NFE ELSE recvMsg[s]]
                /\ output' = Kept(output \o [k \in 1 .. n |-> NFE + k - 1])
                /\ \A k \in 1 .. (n - 1) : received[Slot(NFE + k)]
                /\ FileComplete(output) => n = 1
                /\ ~FileComplete(output) => n <= NFrames - Len(output)
    BY <1>5, DeliverDataEffect, Zenon
  <2>2. \A s \in Slots : received'[s] => recvMsg'[s] <= b
    BY <2>1
  <2>3. NFE + (n - 1) <= b
    <3>1. CASE n = 1
      BY <1>1, <2>1, <3>1
    <3>2. CASE n # 1
      <4>1. n - 1 \in 1 .. (n - 1) /\ n - 1 < SWS /\ n - 1 >= 0
        BY <3>2, SWSAssumption
      <4>2. /\ NFE + (n - 1) \in Nat /\ NFE <= NFE + (n - 1)
            /\ NFE + (n - 1) <= NFE + SWS - 1
        BY <1>1, <4>1, SWSAssumption
      <4>3. received[Slot(NFE + (n - 1))]
        BY <2>1, <4>1
      <4>4. recvMsg[Slot(NFE + (n - 1))] = NFE + (n - 1)
        BY <1>1, <4>2, <4>3, BufferedFrame
      <4>5. Slot(NFE + (n - 1)) \in Slots
        BY <4>2, SlotType
      <4> QED BY <4>3, <4>4, <4>5
    <3> QED BY <3>1, <3>2
  <2>4. /\ output' \in Seq(Frames)
        /\ FileComplete(output) => FileComplete(output')
        /\ ~FileComplete(output) =>
              NFE = Len(output) + 1 /\ Len(output') = Len(output) + n
    BY <2>1, DeliverDataOutput
  <2>5. /\ Len(output) \in Nat /\ Len(output') \in Nat
        /\ Written = IF Len(output) <= NFrames THEN Len(output) ELSE NFrames
    BY <1>1, <2>4, WrittenNumber, LenProperties
  <2>6. Written' = IF Len(output') <= NFrames THEN Len(output') ELSE NFrames
    <3>1. Len(output') \in Nat /\ NFrames \in Nat
      BY <2>5, NFramesAssumption
    <3>2. Written' = Min({Len(output'), NFrames})
      BY DEF Written
    <3> QED BY <3>1, <3>2, MinOfTwo
  <2>7. Written' \in Written .. b
    <3>1. CASE FileComplete(output)
      BY <1>2, <2>4, <2>5, <2>6, <3>1, NFramesAssumption DEF FileComplete
    <3>2. CASE ~FileComplete(output)
      <4>1. Len(output') = Len(output) + n /\ Len(output') = NFE + (n - 1)
            /\ Len(output') <= NFrames
        BY <1>1, <2>1, <2>4, <2>5, <3>2, NFramesAssumption, SWSAssumption
      <4> QED BY <1>1, <2>3, <2>5, <2>6, <3>2, <4>1, NFramesAssumption, SWSAssumption DEF FileComplete
    <3> QED BY <3>1, <3>2
  <2> QED BY <2>2, <2>7
<1> QED BY <1>3, <1>4, <1>5 DEF RecvData

-------------------------------------------------------------------------------
(* The steps of the composition.                                           *)

TransferStep == [Transfer!TransferNext]_(Transfer!transferVars)

LEMMA Counters ==
    ASSUME ArtcpInv
    PROVE  /\ LAR \in Nat /\ LAR <= Written
           /\ Written \in 0 .. NFrames /\ Written \in Nat /\ Written <= Scheduled
           /\ Scheduled \in Nat /\ Scheduled <= NFrames
           /\ ackTo \in Nat
<1>1. LAR \in Nat /\ Scheduled \in Int /\ Scheduled <= NFrames
  BY WindowNumbers, NFramesAssumption DEF ArtcpInv
<1>2. LAR <= Written /\ Written <= Scheduled /\ Written \in 0 .. NFrames
  BY WrittenNumber DEF ArtcpInv, AckInv, ReceiverInv
<1>3. Written \in Nat
  BY <1>2, NFramesAssumption
<1>4. ackTo \in 0 .. NFrames
  BY DEF ArtcpInv, SenderInv, SenderTypeOK
<1>5. ackTo \in Nat
  BY <1>4, NFramesAssumption
<1> QED BY <1>1, <1>2, <1>3, <1>5

\* A step of the client or of the network: what it has to keep of the invariant.
LEMMA ServerIdles ==
    ASSUME ArtcpInv, SenderInv', QueueInv', UNCHANGED receiverVars,
           Scheduled' \in {Scheduled, Scheduled + 1},
           LAR' <= Written, handler' = "acking" => ackTo' <= Written,
           ackNet' \subseteq ackNet
    PROVE  ArtcpInv'
<1>1. Written' = Written
  BY DEF receiverVars, Written
<1>2. ReceiverInv'
  BY ReceiverInvStutters DEF ArtcpInv
<1>3. Written <= Scheduled'
  BY Counters
<1>4. AckInv'
  BY <1>1, <1>3 DEF ArtcpInv, AckInv
<1>5. ArrivedInv'
  <2> SUFFICES ASSUME NEW s \in Slots, received[s] PROVE recvMsg[s] <= Scheduled'
    BY DEF receiverVars, ArrivedInv
  <2>1. recvMsg[s] <= Scheduled /\ recvMsg[s] \in Nat
    BY DEF ArtcpInv, ArrivedInv, ReceiverInv, ReceiverTypeOK
  <2> QED BY <2>1, Counters
<1> QED BY <1>2, <1>4, <1>5 DEF ArtcpInv

\* Send, or nothing that counts.
LEMMA ClientSendsStep == ArtcpInv /\ ClientSends => ArtcpInv' /\ TransferStep
<1> SUFFICES ASSUME ArtcpInv, ClientSends PROVE ArtcpInv' /\ TransferStep
  OBVIOUS
<1>1. SenderInv /\ QueueInv /\ Thread
  BY DEF ArtcpInv, ClientSends
<1>2. SenderInv' /\ QueueInv'
  BY <1>1, SenderInvNext, QueueInvNext DEF SenderNext
<1>3. /\ UNCHANGED <<LAR, handler, ackTo>>
      /\ \/ Scheduled' = Scheduled
         \/ /\ Scheduled' = Scheduled + 1
            /\ Scheduled < NFrames /\ Scheduled < LAR + (MaxSendWin + 1)
  BY <1>1, ThreadCounts
<1>4. UNCHANGED <<receiverVars, ackNet>> /\ Written' = Written
  BY DEF ClientSends, receiverVars, Written
<1>5. ArtcpInv'
  BY <1>2, <1>3, <1>4, ServerIdles DEF ArtcpInv, AckInv
<1>6. TransferStep
  BY <1>3, <1>4 DEF TransferStep, Transfer!TransferNext, Transfer!Send, Transfer!transferVars
<1> QED BY <1>5, <1>6

\* Acknowledge, or nothing that counts.
LEMMA ClientHandlesStep == ArtcpInv /\ ClientHandles(Handler) => ArtcpInv' /\ TransferStep
<1> SUFFICES ASSUME ArtcpInv, ClientHandles(Handler) PROVE ArtcpInv' /\ TransferStep
  OBVIOUS
<1>1. SenderInv /\ QueueInv /\ Handler
  BY DEF ArtcpInv, ClientHandles
<1>2. SenderInv' /\ QueueInv'
  BY <1>1, SenderInvNext, QueueInvNext DEF SenderNext
<1>3. /\ Scheduled' = Scheduled
      /\ LAR' = LAR \/ HandlerMovesLAR
      /\ handler' = "acking" => handler = "acking" /\ ackTo' = ackTo
  BY <1>1, HandlerCounts
<1>4. UNCHANGED <<receiverVars, ackNet>> /\ Written' = Written
  BY DEF ClientHandles, receiverVars, Written
<1>5. /\ LAR' = LAR \/ LAR' \in (LAR + 1) .. Written
      /\ LAR' <= Written
      /\ handler' = "acking" => ackTo' <= Written
  <2>1. handler = "acking" => ackTo <= Written
    BY DEF ArtcpInv, AckInv
  <2> QED BY <1>3, <2>1, Counters DEF HandlerMovesLAR
<1>6. ArtcpInv'
  BY <1>2, <1>3, <1>4, <1>5, ServerIdles
<1>7. TransferStep
  BY <1>3, <1>4, <1>5
     DEF TransferStep, Transfer!TransferNext, Transfer!Acknowledge, Transfer!transferVars
<1> QED BY <1>6, <1>7

\* A packet is read: deliverSWP takes its AckNum for the end of its loop.
LEMMA ClientReceivesStep ==
    ASSUME ArtcpInv, NEW p \in ackNet, ClientReceives(p)
    PROVE  ArtcpInv' /\ TransferStep
<1>1. SenderInv /\ QueueInv /\ RecvAck(p.ack, p.sacks)
  BY DEF ArtcpInv, ClientReceives
<1>2. p.ack \in 0 .. Written /\ p.sacks \in SUBSET Frames
  BY DEF ArtcpInv, AckInv
<1>3. p.ack \in 0 .. Scheduled /\ p.ack \in 0 .. NFrames
  BY <1>2, Counters, NFramesAssumption
<1>4. SenderInv' /\ QueueInv'
  BY <1>1, <1>2, <1>3, RecvAckStep, RecvAckEntries
<1>5. UNCHANGED LAR /\ Scheduled' = Scheduled /\ (handler' = "acking" => ackTo' = p.ack)
  BY <1>1, RecvAckCounts
<1>6. UNCHANGED receiverVars /\ Written' = Written /\ ackNet' \subseteq ackNet
  BY DEF ClientReceives, receiverVars, Written
<1>7. LAR' <= Written /\ (handler' = "acking" => ackTo' <= Written)
  BY <1>2, <1>5, Counters
<1>8. ArtcpInv'
  BY <1>4, <1>5, <1>6, <1>7, ServerIdles
<1>9. TransferStep
  BY <1>5, <1>6 DEF TransferStep, Transfer!transferVars
<1> QED BY <1>8, <1>9

\* The end of the file, the close, and packets that are lost.
LEMMA OtherSteps ==
    ASSUME ArtcpInv, EndOfFile \/ Close \/ LoseData \/ LoseAck \/ UNCHANGED vars
    PROVE  ArtcpInv' /\ TransferStep
<1>1. /\ UNCHANGED senderVarsButNet /\ dataNet' \subseteq dataNet
      /\ UNCHANGED receiverVars /\ ackNet' \subseteq ackNet
  BY DEF EndOfFile, Close, LoseData, LoseAck, vars, senderVars
<1>2. SenderInv' /\ QueueInv'
  BY <1>1, NetLosesStep, NetLosesEntries DEF ArtcpInv
<1>3. Scheduled' = Scheduled /\ UNCHANGED <<LAR, handler, ackTo>> /\ Written' = Written
  BY <1>1 DEF senderVarsButNet, receiverVars, Scheduled, Written
<1>4. ArtcpInv'
  BY <1>1, <1>2, <1>3, ServerIdles DEF ArtcpInv, AckInv
<1>5. TransferStep
  BY <1>3 DEF TransferStep, Transfer!transferVars
<1> QED BY <1>4, <1>5

\* Write, or nothing that counts.
LEMMA ServerReceivesStep ==
    ASSUME ArtcpInv, NEW seq \in dataNet, ServerReceives(seq)
    PROVE  ArtcpInv' /\ TransferStep
<1>1. /\ UNCHANGED senderVarsButNet /\ dataNet' \subseteq dataNet
      /\ RecvData(seq) /\ UNCHANGED ackNet
  BY DEF ServerReceives
<1>2. SenderInv' /\ QueueInv'
  BY <1>1, NetLosesStep, NetLosesEntries DEF ArtcpInv
<1>3. Scheduled' = Scheduled /\ UNCHANGED <<LAR, handler, ackTo>>
  BY <1>1 DEF senderVarsButNet, Scheduled
<1>4. seq \in Frames /\ seq <= Scheduled
  <2>1. dataNet \subseteq 1 .. Scheduled /\ dataNet \subseteq Frames
    BY DEF ArtcpInv, QueueInv, SentInv, SenderInv, SenderTypeOK
  <2> QED BY <2>1, Counters
<1>5. ReceiverInv'
  BY <1>1, <1>4, RecvDataStep DEF ArtcpInv
<1>6. /\ Written' \in Written .. Scheduled
      /\ \A s \in Slots : received'[s] => recvMsg'[s] <= Scheduled
  BY <1>1, <1>4, Counters, RecvDataCounts DEF ArtcpInv, AckInv, ArrivedInv
<1>7. AckInv'
  <2>1. LAR <= Written' /\ Written' <= Scheduled
    BY <1>6, Counters
  <2>2. handler = "acking" => ackTo <= Written'
    <3>1. handler = "acking" => ackTo <= Written
      BY DEF ArtcpInv, AckInv
    <3> QED BY <1>6, <3>1, Counters
  <2>3. \A p \in ackNet : p.ack \in 0 .. Written' /\ p.sacks \subseteq Frames
    BY <1>6, Counters DEF ArtcpInv, AckInv
  <2> QED BY <1>1, <1>3, <2>1, <2>2, <2>3 DEF AckInv
<1>8. ArrivedInv'
  BY <1>3, <1>6 DEF ArrivedInv
<1>9. TransferStep
  <2>1. Written' = Written \/ Written' \in (Written + 1) .. Scheduled
    BY <1>6, Counters
  <2> QED BY <1>3, <2>1
          DEF TransferStep, Transfer!TransferNext, Transfer!Write, Transfer!transferVars
<1> QED BY <1>2, <1>5, <1>7, <1>8, <1>9 DEF ArtcpInv

\* The acknowledgement that joins the others is of frames in the file.
LEMMA ServerRepliesStep == ArtcpInv /\ ServerReplies => ArtcpInv' /\ TransferStep
<1> SUFFICES ASSUME ArtcpInv, ServerReplies PROVE ArtcpInv' /\ TransferStep
  OBVIOUS
<1>1. /\ UNCHANGED <<senderVars, clientVars>> /\ Reply
      /\ \E sacks \in SUBSET Reportable :
            ackNet' = Carried(ackNet, {AckPacket(ReplyAck, sacks)})
  BY DEF ServerReplies
<1>2. UNCHANGED senderVarsButNet /\ dataNet' \subseteq dataNet
  BY <1>1 DEF senderVars
<1>3. SenderInv' /\ QueueInv'
  BY <1>2, NetLosesStep, NetLosesEntries DEF ArtcpInv
<1>4. Scheduled' = Scheduled /\ UNCHANGED <<LAR, handler, ackTo>>
  BY <1>2 DEF senderVarsButNet, Scheduled
<1>5. ReceiverInv'
  BY <1>1, ReplyStep DEF ArtcpInv
<1>6. UNCHANGED <<output, received, recvMsg>> /\ Written' = Written
  BY <1>1 DEF Reply, ReplyComplete, ReplyAndWait, Written
<1>7. ReplyAck \in 0 .. Written
  <2>1. ReplyAck = Written \/ (ReplyAck = NFrames - 1 /\ Written = NFrames)
    BY ReplyIsWritten DEF ArtcpInv
  <2> QED BY <2>1, Counters, NFramesAssumption
<1>8. Reportable \subseteq Frames
  <2>1. \A s \in Slots : recvMsg[s] # 0 => recvMsg[s] \in Frames
    BY NFramesAssumption DEF ArtcpInv, ReceiverInv, ReceiverTypeOK, Frames
  <2>2. output \in Seq(Frames)
    BY DEF ArtcpInv, ReceiverInv, ReceiverTypeOK
  <2>3. \A i \in DOMAIN output : output[i] \in Frames
    BY <2>2
  <2> QED BY <2>1, <2>3 DEF Reportable
<1>9. AckInv'
  <2>1. PICK sacks \in SUBSET Reportable :
            ackNet' = Carried(ackNet, {AckPacket(ReplyAck, sacks)})
    BY <1>1
  <2>2. ackNet' \subseteq ackNet \cup {AckPacket(ReplyAck, sacks)}
    BY <2>1, CarriedType
  <2>3. \A p \in ackNet' : p.ack \in 0 .. Written /\ p.sacks \subseteq Frames
    BY <1>7, <1>8, <2>2 DEF AckPacket, ArtcpInv, AckInv
  <2> QED BY <1>4, <1>6, <2>3 DEF ArtcpInv, AckInv
<1>10. ArrivedInv'
  BY <1>4, <1>6 DEF ArtcpInv, ArrivedInv
<1>11. TransferStep
  BY <1>4, <1>6 DEF TransferStep, Transfer!transferVars
<1> QED BY <1>3, <1>5, <1>9, <1>10, <1>11 DEF ArtcpInv

-------------------------------------------------------------------------------
(* Every step.                                                             *)

LEMMA ArtcpInvInit == Init => ArtcpInv
<1> SUFFICES ASSUME Init PROVE ArtcpInv
  OBVIOUS
<1>1. SenderInv /\ QueueInv /\ ReceiverInv
  BY SenderInvInit, QueueInvInit, ReceiverInvInit DEF Init
<1>2. Written = 0
  <2>1. Len(output) = 0
    BY DEF Init, ReceiverInit
  <2> QED BY <1>1, <2>1, WrittenNumber, NFramesAssumption DEF ReceiverInv
<1>3. LAR = 0 /\ Scheduled = 0 /\ handler = "idle" /\ ackNet = {}
  BY DEF Init, SenderInit, Scheduled
<1>4. AckInv
  BY <1>2, <1>3 DEF AckInv
<1>5. ArrivedInv
  BY DEF Init, ReceiverInit, ArrivedInv
<1> QED BY <1>1, <1>4, <1>5 DEF ArtcpInv

LEMMA ArtcpInvNext == ArtcpInv /\ [Next]_vars => ArtcpInv' /\ TransferStep
BY ClientSendsStep, ClientHandlesStep, ClientReceivesStep, OtherSteps, ServerReceivesStep,
   ServerRepliesStep DEF Next

LEMMA ArtcpInvariant == Spec => []ArtcpInv
BY ArtcpInvInit, ArtcpInvNext, PTL DEF Spec

-------------------------------------------------------------------------------
(* The theorems.                                                           *)

\* What the client takes for acknowledged is in the server's file, and what is in
\* the file was sent, whatever the network loses, delays and reorders.
THEOREM OnlyWrittenIsReleased == Spec => []AckedIsWritten
<1>1. ArtcpInv => AckedIsWritten
  BY DEF ArtcpInv, AckInv, AckedIsWritten
<1> QED BY <1>1, ArtcpInvariant, PTL

\* Client, server and network together are the abstract transfer: frames are
\* scheduled in order and at most MaxSendWin + 1 ahead, the server writes only
\* what was scheduled, and the client releases only what is written.
THEOREM ArtcpIsTransfer == Spec => ImplementsTransfer
<1>1. Init => Transfer!TransferInit
  <2> SUFFICES ASSUME Init PROVE Transfer!TransferInit
    OBVIOUS
  <2>1. LAR = 0 /\ Scheduled = 0
    BY DEF Init, SenderInit, Scheduled
  <2>2. LAR <= Written /\ Written <= Scheduled /\ Written \in Nat
    BY ArtcpInvInit, Counters
  <2> QED BY <2>1, <2>2 DEF Transfer!TransferInit
<1>2. ArtcpInv /\ [Next]_vars => [Transfer!TransferNext]_(Transfer!transferVars)
  BY ArtcpInvNext DEF TransferStep
<1> QED BY <1>1, <1>2, ArtcpInvariant, PTL DEF Spec, ImplementsTransfer, Transfer!TransferSpec
================================================================================
