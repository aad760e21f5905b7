--------------------------------- MODULE Artcp ---------------------------------
(***************************************************************************)
(* A file transfer: the client process (artcp_client.c over SwpSender) and *)
(* the server process (artcp_server.c over SwpReceiver), joined by a       *)
(* network that may lose and reorder packets.  Copies of a packet come     *)
(* from retransmissions and repeated acknowledgements; two equal packets   *)
(* that are in flight at the same time are one element of the network.     *)
(***************************************************************************)
EXTENDS SwpSender, SwpReceiver

\* Whether the file is a multiple of the payload size, so that end of file is
\* seen only by a further, empty read.
CONSTANT ExactMultiple

ASSUME ExactMultipleAssumption == ExactMultiple \in BOOLEAN

VARIABLES
    main,     \* the client's main: "sending"; "waiting" for sem_fin, with
              \* processFin registered; "closed"
    sem_fin,  \* value of that semaphore
    ackNet    \* the acknowledgements in flight

clientVars == <<main, sem_fin>>
vars == <<senderVars, receiverVars, clientVars, ackNet>>

AckPacket(no, sacks) == [ack |-> no, sacks |-> sacks]

Init == /\ SenderInit
        /\ ReceiverInit
        /\ main = "sending"
        /\ sem_fin = 0
        /\ ackNet = {}

-------------------------------------------------------------------------------
(* The client.                                                             *)

ClientRuns == status = "running" /\ main # "closed"

ClientSends == /\ main = "sending"
               /\ Thread
               /\ UNCHANGED <<receiverVars, clientVars, ackNet>>

\* End of file: processFin takes the place of processAcks, after the last frame
\* is on its way.  When the read that met the end of file was empty, sem_fin is
\* posted here.
EndOfFile == /\ main = "sending"
             /\ ThreadAt("done")
             /\ main' = "waiting"
             /\ sem_fin' = IF ExactMultiple THEN sem_fin + 1 ELSE sem_fin
             /\ UNCHANGED <<senderVars, receiverVars, ackNet>>

\* The end of main: the timer is stopped and the socket closed.
Close == /\ main = "waiting"
         /\ status = "running" /\ handler = "idle"
         /\ sem_fin > 0
         /\ sem_fin' = sem_fin - 1
         /\ main' = "closed"
         /\ UNCHANGED <<senderVars, receiverVars, ackNet>>

\* processFin posts sem_fin after a packet that leaves nothing outstanding.
FinCheck == sem_fin' = IF main = "waiting" /\ handler = "rearm" /\ LAR = LFS /\ LAR = NFrames
                       THEN sem_fin + 1 ELSE sem_fin

ClientHandles(action) == /\ ClientRuns
                         /\ action
                         /\ FinCheck
                         /\ UNCHANGED <<receiverVars, main, ackNet>>

ClientReceives(p) == /\ ClientRuns
                     /\ p \in ackNet
                     /\ RecvAck(p.ack, p.sacks)
                     /\ ackNet' = ackNet \ {p}
                     /\ UNCHANGED <<receiverVars, clientVars>>

-------------------------------------------------------------------------------
(* The server and the network.                                             *)

ServerReceives(seq) == /\ seq \in dataNet
                       /\ RecvData(seq)
                       /\ dataNet' = dataNet \ {seq}
                       /\ UNCHANGED <<senderVarsButNet, clientVars, ackNet>>

ServerReplies == /\ Reply
                 /\ \E sacks \in SUBSET Reportable :
                        /\ Cardinality(sacks) <= MaxSacks
                        /\ ackNet' = Carried(ackNet, {AckPacket(ReplyAck, sacks)})
                 /\ UNCHANGED <<senderVars, clientVars>>

LoseData == /\ \E seq \in dataNet : dataNet' = dataNet \ {seq}
            /\ UNCHANGED <<senderVarsButNet, receiverVars, clientVars, ackNet>>

LoseAck == /\ \E p \in ackNet : ackNet' = ackNet \ {p}
           /\ UNCHANGED <<senderVars, receiverVars, clientVars>>

Next == \/ ClientSends \/ EndOfFile \/ Close
        \/ ClientHandles(Handler)
        \/ \E p \in ackNet : ClientReceives(p)
        \/ \E seq \in dataNet : ServerReceives(seq)
        \/ ServerReplies
        \/ LoseData \/ LoseAck

Spec == Init /\ [][Next]_vars

\* The timer function that is registered when its time has come.
TimerFires == ClientHandles(ProcTimer \/ CongestionTimerFires)

\* register_timers compares the deadlines of the two queues, and ProcTimer takes
\* either for the earlier one.  An entry that stays in EQ_Tail keeps its deadline,
\* those of EQ_Head get later with each retransmission: so ProcTimer cannot
\* always arm proc_timer again, unless acknowledgements empty EQ_Tail meanwhile.
TailHandled == ClientHandles(\/ ProcTimer /\ user_timer_fn' = "congestion_timer"
                             \/ RearmCongestion)

\* An acknowledgement that releases frames gets through to the client.
NewAckArrives == \E p \in ackNet : p.ack > LAR /\ ClientReceives(p)

\* The thread runs whenever it can and a handler run comes to its end; SIGALRM
\* comes every millisecond and the deadline it waits for passes, so a timer
\* function that stays registered, or is registered again and again, is called;
\* the server answers; and what is sent again and again gets through: each frame,
\* and of the acknowledgements one that is news to the client.
Fairness ==
    /\ WF_vars(ClientSends) /\ WF_vars(EndOfFile) /\ WF_vars(Close)
    /\ WF_vars(ClientHandles(HandlerRuns))
    /\ SF_vars(TimerFires) /\ SF_vars(TailHandled)
    /\ WF_vars(ServerReplies)
    /\ \A seq \in Frames : SF_vars(ServerReceives(seq))
    /\ SF_vars(NewAckArrives)

FairSpec == Spec /\ Fairness

-------------------------------------------------------------------------------
(* Properties.                                                             *)

\* What the client takes for acknowledged is in the server's file, and what is
\* in the file was sent: LAR <= frames written <= LFS, whatever acknowledgements
\* arrive late or twice.
AckedIsWritten == LAR <= Written /\ Written <= Scheduled

\* The two ends implement the abstract transfer.
Transfer == INSTANCE FileTransfer WITH
                Window <- MaxSendWin + 1,
                sent <- Scheduled, written <- Written, acked <- LAR

ImplementsTransfer == Transfer!TransferSpec

\* "Wait for ack #%d" (artcp_client.c:155): the client closes only after its
\* last frame has been acknowledged.
ClosesAfterLastAck == main = "closed" => LAR = NFrames

ClientExits == status # "running"

\* Frames are outstanding and no timer function is registered.
TimerLost == user_timer_fn = "none" /\ LAR # LFS

\* The whole file arrives, unless the client exits on an empty EQ_Tail or loses
\* its timer for good: under loss and reordering there is no third way to stall.
FileArrives == <>(FileComplete(output) \/ ClientExits) \/ <>[]TimerLost

\* The server has left, and no copy of its last acknowledgement is on its way or
\* being handled.
LastAckLost == /\ rpc = "done"
               /\ handler # "acking"
               /\ \A p \in ackNet : p.ack # NFrames

\* Once the server has the file and leaves, the client learns it from the one
\* acknowledgement sent for the last frame, even if its timer is lost, unless
\* the network loses that acknowledgement or the client exits.
TransferCompletes ==
    rpc = "done" ~> (LAR = NFrames \/ ClientExits \/ LastAckLost)

\* libnet.h says the registered read function "is called asynchronously if any
\* data is received": once the last frame is acknowledged, processFin posts
\* sem_fin and the client closes.
FinPosted == LAR = NFrames ~> main = "closed"
================================================================================
