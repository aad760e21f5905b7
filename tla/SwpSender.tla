------------------------------- MODULE SwpSender -------------------------------
(***************************************************************************)
(* The sending side of the sliding window protocol (swp.c, event.c) in the *)
(* client process, with the one timer and the read callback of libnet that *)
(* drive it.                                                               *)
(*                                                                         *)
(* The client is one thread, running sendSWP, interrupted by SIGALRM: the  *)
(* handler, libnet's timer(), runs to its end before the thread goes on.   *)
(* It calls the registered timer function when the time has come, then the *)
(* registered read function once per packet that waits in the socket.  It  *)
(* does neither while user_timer_interval is 0.  The thread's steps below  *)
(* are the places of sendSWP between which a handler run can change what   *)
(* it sees; "handler" says where a handler run is, and no thread step is   *)
(* taken before that run is over.                                          *)
(*                                                                         *)
(* A deadline is represented by the slot whose queue entry carries it: the *)
(* deadlines of two entries are different, and an entry that is re-queued  *)
(* gets a new one.                                                         *)
(***************************************************************************)
EXTENDS Transport, EventQueue

CONSTANTS MaxSacks,    \* bound: how many frames one SACK option reports
          MaxInFlight  \* bound: how many packets the network holds in one direction

ASSUME MaxSacksAssumption == MaxSacks \in Nat
ASSUME MaxInFlightAssumption == MaxInFlight \in Nat

VARIABLES
    pc,                  \* where the thread is in sendSWP
    handler,             \* where the signal handler is; "idle" outside of it
    ackTo,               \* AckNum of the packet whose frames the handler releases
    status,              \* "running", or the exit() the client has taken
    LAR, LFS,            \* last acknowledgement received, last frame sent
    sendWindowNotFull,   \* value of the semaphore
    CongWin, Threshold, CongestionMode,
    RTT_sampled,         \* the slot whose round trip is being timed
    LSS,                 \* SACK_state.LSS, the highest SACKed sequence number
    duplicateAck,        \* of the slot of LAR: 0, 1, or 2 for the code's -1; of
                         \* another slot it is reset before it is read
    SACKed,              \* per slot
    msg,                 \* per slot: the saved frame, 0 when destroyed
    event_type,          \* per slot: the type of its event
    sends,               \* history, per slot: how often its frame has been sent;
                         \* 2 for more than once
    withheld,            \* history, per slot: the latest timeouts that have not
                         \* sent its frame
    EQH, EQT,            \* EQ_Head and EQ_Tail
    EQH_time, EQT_time,  \* the deadlines their sentinels cache, NoSlot for 0
    user_timer_fn,       \* the function libnet's timer calls
    user_timer_interval, \* the slot whose deadline it waits for, NoSlot for 0
    dataNet              \* the frames handed to the network

threadVars == <<pc, LFS>>
handlerVars == <<handler, ackTo, status>>
congestionVars == <<CongWin, Threshold, CongestionMode>>
historyVars == <<sends, withheld>>
slotVars == <<duplicateAck, SACKed, msg, event_type, historyVars>>
queueVars == <<EQH, EQT, EQH_time, EQT_time>>
timerVars == <<user_timer_fn, user_timer_interval>>
senderVarsButNet == <<threadVars, handlerVars, LAR, sendWindowNotFull,
                      congestionVars, RTT_sampled, LSS, slotVars, queueVars,
                      timerVars>>
senderVars == <<senderVarsButNet, dataNet>>

-------------------------------------------------------------------------------
\* The largest congestion window, UMAX(1, (__SWS-1)/2).
MaxSendWin == IF (SWS - 1) \div 2 > 1 THEN (SWS - 1) \div 2 ELSE 1

\* The initial Threshold.
InitialThreshold == 7

SlowStart == "SWP_SLOW_START"
CongestionAvoidance == "SWP_CONGESTION_AVOIDANCE"

\* Mutants: the window counts the frame about to be sent; it is one too large.
WindowSizeCountsNext(win, lar, lfs) == win - (lfs - lar) - 1
WindowSizeOneMore(win, lar, lfs) == win - (lfs - lar) + 1

\* WindowSize(), over sequence numbers that do not wrap.
WindowSize(win, lar, lfs) ==
    IF lar < lfs THEN win - (lfs - lar) ELSE win - (lar - lfs)

\* swpInWindow(no, first, last), over sequence numbers that do not wrap.
InWindow(no, first, last) == first <= no /\ no <= last

HalvedToZero(win) == win \div 2    \* mutant: no lower limit

Halved(win) == IF win \div 2 > 1 THEN win \div 2 ELSE 1

-------------------------------------------------------------------------------
Timer(fn, at) == [fn |-> fn, at |-> at]
Disarmed == Timer("none", NoSlot)

\* register_timers(): arm for the earlier of the two cached deadlines.  Which
\* one is earlier is left open.
RegisterTimers(headTime, tailTime) ==
    IF tailTime # NoSlot
    THEN {Timer("congestion_timer", tailTime)}
         \cup (IF headTime # NoSlot THEN {Timer("proc_timer", headTime)} ELSE {})
    ELSE {IF headTime # NoSlot THEN Timer("proc_timer", headTime) ELSE Disarmed}

\* What a sentinel caches when its queue has just been changed at its end.
LastTime(q) == IF q = <<>> THEN NoSlot ELSE Last(q)

\* What it caches after dequeue_evt has made q into rest: unless the entry was
\* the last one, its own deadline, although it is gone.
DequeuedTime(q, rest, s) == IF rest = <<>> \/ Last(q) = s THEN LastTime(rest) ELSE s

SetTimer(timer) == /\ user_timer_fn' = timer.fn
                   /\ user_timer_interval' = timer.at

\* What is in flight after these packets are sent: when there would be more than
\* the bound, the older ones are lost.
Carried(net, packets) ==
    IF packets # {} /\ Cardinality(net \cup packets) > MaxInFlight THEN packets
    ELSE net \cup packets

\* sendLINK, in the handlers of these slots' timeouts or, with none, outside of
\* them; u_sendto ignores a message without bytes.
Transmit(frames, timeouts) ==
    LET sent == frames \ {0}
        used == {Slot(i) : i \in sent}
    IN  /\ dataNet' = Carried(dataNet, sent)
        /\ sends' = [s \in Slots |-> IF s \in used /\ sends[s] < 2 THEN sends[s] + 1
                                     ELSE sends[s]]
        /\ withheld' = [s \in Slots |-> IF s \in used THEN 0
                                        ELSE IF s \in timeouts THEN withheld[s] + 1
                                        ELSE withheld[s]]

\* The history of a slot begins with the frame that is put into it, and ends with
\* its release.
ForgetHistory(s) == /\ sends' = [sends EXCEPT ![s] = 0]
                    /\ withheld' = [withheld EXCEPT ![s] = 0]

-------------------------------------------------------------------------------
\* The state after SWP_create and the client's register_read.
SenderInit ==
    /\ pc = "sem_wait"
    /\ handler = "idle" /\ ackTo = 0 /\ status = "running"
    /\ LAR = 0 /\ LFS = 0 /\ LSS = 0
    /\ sendWindowNotFull = 1
    /\ CongWin = 1 /\ Threshold = InitialThreshold /\ CongestionMode = SlowStart
    /\ RTT_sampled = NoSlot
    /\ duplicateAck = 0
    /\ SACKed = [s \in Slots |-> FALSE]
    /\ msg = [s \in Slots |-> 0]
    /\ event_type = [s \in Slots |-> NoEvent]
    /\ sends = [s \in Slots |-> 0] /\ withheld = [s \in Slots |-> 0]
    /\ EQH = <<>> /\ EQT = <<>> /\ EQH_time = NoSlot /\ EQT_time = NoSlot
    /\ user_timer_fn = "none" /\ user_timer_interval = NoSlot
    /\ dataNet = {}

-------------------------------------------------------------------------------
(* The thread: sendSWP.  It runs only between two handler runs.            *)

ThreadAt(place) == status = "running" /\ handler = "idle" /\ pc = place

SemWait ==
    /\ ThreadAt("sem_wait")
    /\ sendWindowNotFull > 0
    /\ sendWindowNotFull' = sendWindowNotFull - 1
    /\ pc' = "window"
    /\ UNCHANGED <<handlerVars, LAR, LFS, congestionVars, RTT_sampled, LSS,
                   slotVars, queueVars, timerVars, dataNet>>

\* while(WindowSize(state) < 0): the token is spent either way.
TestWindow ==
    /\ ThreadAt("window")
    /\ pc' = IF WindowSize(CongWin, LAR, LFS) < 0 THEN "sem_wait" ELSE "unregister"
    /\ UNCHANGED <<handlerVars, LAR, LFS, sendWindowNotFull, congestionVars,
                   RTT_sampled, LSS, slotVars, queueVars, timerVars, dataNet>>

\* Mutant: unregister_timer() stops the whole timer.
UnregisterTimerAndInterval ==
    /\ ThreadAt("unregister")
    /\ SetTimer(Disarmed)
    /\ pc' = "number"
    /\ UNCHANGED <<handlerVars, LAR, LFS, sendWindowNotFull, congestionVars,
                   RTT_sampled, LSS, slotVars, queueVars, dataNet>>

\* unregister_timer() clears the function and leaves the interval, so the
\* read callback stays enabled.
UnregisterTimer ==
    /\ ThreadAt("unregister")
    /\ user_timer_fn' = "none"
    /\ pc' = "number"
    /\ UNCHANGED <<handlerVars, LAR, LFS, sendWindowNotFull, congestionVars,
                   RTT_sampled, LSS, slotVars, queueVars, user_timer_interval,
                   dataNet>>

\* hdr.SeqNum = ++LFS
NumberFrame ==
    /\ ThreadAt("number")
    /\ LFS' = LFS + 1
    /\ pc' = "store"
    /\ UNCHANGED <<handlerVars, LAR, sendWindowNotFull, congestionVars,
                   RTT_sampled, LSS, slotVars, queueVars, timerVars, dataNet>>

\* Mutant: the slot is taken from the number before ++LFS.
StoreFrameOldSlot ==
    /\ ThreadAt("store")
    /\ msg' = [msg EXCEPT ![Slot(LFS - 1)] = LFS]
    /\ ForgetHistory(Slot(LFS - 1))
    /\ RTT_sampled' = IF RTT_sampled = NoSlot THEN Slot(LFS) ELSE RTT_sampled
    /\ pc' = "schedule"
    /\ UNCHANGED <<handlerVars, LAR, LFS, sendWindowNotFull, congestionVars, LSS,
                   duplicateAck, SACKed, event_type, queueVars, timerVars, dataNet>>

\* Save the frame in its slot, and time its round trip if none is being timed.
StoreFrame ==
    /\ ThreadAt("store")
    /\ msg' = [msg EXCEPT ![Slot(LFS)] = LFS]
    /\ ForgetHistory(Slot(LFS))
    /\ RTT_sampled' = IF RTT_sampled = NoSlot THEN Slot(LFS) ELSE RTT_sampled
    /\ pc' = "schedule"
    /\ UNCHANGED <<handlerVars, LAR, LFS, sendWindowNotFull, congestionVars, LSS,
                   duplicateAck, SACKed, event_type, queueVars, timerVars, dataNet>>

EvSchedule(s) ==
    /\ event_type' = [event_type EXCEPT ![s] = SendTimeout]
    /\ EQH' \in QueueSend(EQH, event_type, s)
    /\ EQH_time' = LastTime(EQH')

\* evSchedule, sendLINK and register_timer(EQH->time, proc_timer).  evSchedule
\* first sets the interval to 0, so no callback runs until the last call.
ScheduleFrame ==
    /\ ThreadAt("schedule")
    /\ EvSchedule(Slot(LFS))
    /\ Transmit({LFS}, {})
    /\ SetTimer(Timer("proc_timer", EQH_time'))
    /\ pc' = IF LFS = NFrames THEN "done" ELSE "sem_wait"
    /\ UNCHANGED <<handlerVars, LAR, LFS, sendWindowNotFull, congestionVars,
                   RTT_sampled, LSS, duplicateAck, SACKed, msg, EQT, EQT_time>>

-------------------------------------------------------------------------------
(* What the handlers share.                                                *)

\* The slot being timed, after the round trip of these slots is given up.
SampleWithout(slots) == IF RTT_sampled \in slots THEN NoSlot ELSE RTT_sampled

\* The slot congestion_timer stops behind, besides the first retransmitted one.
HighestSacked == IF LAR > LSS \/ ~SACKed[Slot(LSS)] THEN NoSlot ELSE Slot(LSS)

\* Mutant: the mark is tested before it is forgotten.
SwpTimeoutTestsOldMark(expired) ==
    /\ event_type' = [s \in Slots |-> IF s \in expired THEN SendTimeoutOnTimeout
                                      ELSE event_type[s]]
    /\ SACKed' = [s \in Slots |->
                      /\ SACKed[s]
                      /\ ~(s \in expired /\ event_type[s] = SendTimeoutOnTimeout)]
    /\ Transmit({msg[s] : s \in {e \in expired : ~SACKed[e]}}, expired)

\* swpTimeout for each of the expired slots: its frame is transmitted unless it
\* is SACKed; a second timeout forgets the SACK first.
SwpTimeout(expired) ==
    /\ event_type' = [s \in Slots |-> IF s \in expired THEN SendTimeoutOnTimeout
                                      ELSE event_type[s]]
    /\ SACKed' = [s \in Slots |->
                      /\ SACKed[s]
                      /\ ~(s \in expired /\ event_type[s] = SendTimeoutOnTimeout)]
    /\ Transmit({msg[s] : s \in {e \in expired : ~SACKed'[e]}}, expired)

\* congestion_timer on EQ_Tail = t and EQ_Head = h: every frame of the batch is
\* re-queued in front of EQ_Head.
CongestionTimer(t, h) ==
    \E n \in CongestionStart(t, event_type, HighestSacked) :
        LET batch == SubSeq(t, n, Len(t))
        IN  /\ EQT' = SubSeq(t, 1, n - 1)
            /\ EQH' = QueueRetransmit(h, batch)
            /\ EQT_time' = LastTime(EQT') /\ EQH_time' = LastTime(EQH')
            /\ SwpTimeout(Queued(batch))
            /\ RTT_sampled' = SampleWithout(Queued(batch))

\* congestion_timeout(): halve into Threshold, restart from one frame.
CongestionTimeout ==
    /\ Threshold' = Halved(CongWin)
    /\ CongWin' = 1
    /\ CongestionMode' = SlowStart

-------------------------------------------------------------------------------
(* The signal handler: libnet's timer().                                   *)

Fires(fn) == /\ status = "running" /\ handler = "idle"
             /\ user_timer_fn = fn /\ user_timer_interval # NoSlot

\* proc_timer: every running timeout is moved to EQ_Tail, then congestion_event.
\* The timer is one shot: when the callback has registered the very deadline
\* that has just passed, timer() takes it for the old one and clears it.
ProcTimer ==
    /\ Fires("proc_timer")
    /\ CongestionTimeout
    /\ CongestionTimer(Expire(EQT, EQH), <<>>)
    /\ IF EQT_time' = user_timer_interval
       THEN /\ user_timer_fn' = "none"
            /\ UNCHANGED user_timer_interval
       ELSE \E timer \in RegisterTimers(EQH_time', EQT_time') : SetTimer(timer)
    /\ handler' = "polling"
    /\ UNCHANGED <<threadVars, ackTo, status, LAR, sendWindowNotFull, LSS,
                   duplicateAck, msg>>

\* congestion_timer registered by itself: no congestion_timeout, and proc_timer
\* is registered for a deadline that is newer than the one that has passed.
CongestionTimerFires ==
    /\ Fires("congestion_timer")
    /\ CongestionTimer(EQT, EQH)
    /\ SetTimer(Timer("proc_timer", EQH_time'))
    /\ handler' = "polling"
    /\ UNCHANGED <<threadVars, ackTo, status, LAR, sendWindowNotFull,
                   congestionVars, LSS, duplicateAck, msg>>

\* Mutant: no packet is read while no timer function is registered.
ReadingWhenArmed == \/ handler = "polling"
                    \/ handler = "idle" /\ user_timer_interval # NoSlot
                                        /\ user_timer_fn # "none"

\* The read loop of timer(): entered while the interval is set, then taken once
\* per waiting packet without looking at the interval again.
Reading == \/ handler = "polling"
           \/ handler = "idle" /\ user_timer_interval # NoSlot

\* deliverSWP up to the branch on AckNum: the SACK option (senderOptSack marks
\* every reported frame that is not below LAR), then register_timer(0, NULL).
ReceiveOptions(sacks) ==
    LET reported == {i \in sacks : i >= LAR}
    IN  /\ SACKed' = [s \in Slots |-> SACKed[s] \/ s \in {Slot(i) : i \in reported}]
        /\ LSS' \in {m \in reported \cup {LSS} : m >= LSS /\ \A i \in reported : m >= i}
        /\ SetTimer(Disarmed)

\* An acknowledgement of outstanding frames.
RecvNewAck(ack, sacks) ==
    /\ status = "running" /\ Reading
    /\ InWindow(ack, LAR + 1, LFS)
    /\ ReceiveOptions(sacks)
    /\ handler' = "acking"
    /\ ackTo' = ack
    /\ UNCHANGED <<threadVars, status, LAR, sendWindowNotFull, congestionVars,
                   RTT_sampled, duplicateAck, msg, event_type, historyVars, queueVars,
                   dataNet>>

\* Mutant: the frame that is sent again is still timed.
FastRecoveryKeepsSample(s) ==
    /\ Threshold' = Halved(CongWin)
    /\ CongWin' = Threshold'
    /\ CongestionMode' = CongestionAvoidance
    /\ UNCHANGED RTT_sampled

\* swpFastRecovery: halve the window and leave slow start.
FastRecovery(s) ==
    /\ Threshold' = Halved(CongWin)
    /\ CongWin' = Threshold'
    /\ CongestionMode' = CongestionAvoidance
    /\ RTT_sampled' = SampleWithout({s})

CountDuplicateOn(n) == n + 1    \* mutant: never marked as done

CountDuplicate(n) == IF n = 0 THEN 1 ELSE 2

\* A repetition of the last acknowledgement.  The second one retransmits the
\* first outstanding frame, when its event still is a first timeout, and
\* starts fast recovery; the later ones do nothing.
RecvDuplicateAck(ack, sacks) ==
    LET s == Slot(LAR + 1)
        fast == /\ duplicateAck = 1
                /\ event_type[s] = SendTimeout
    IN  /\ status = "running" /\ Reading
        /\ ack = LAR
        /\ ReceiveOptions(sacks)
        /\ duplicateAck' = CountDuplicate(duplicateAck)
        /\ IF fast
           THEN /\ Transmit({msg[s]}, {})
                /\ FastRecovery(s)
           ELSE UNCHANGED <<dataNet, historyVars, congestionVars, RTT_sampled>>
        /\ handler' = "rearm"
        /\ UNCHANGED <<threadVars, ackTo, status, LAR, sendWindowNotFull, msg, event_type,
                       queueVars>>

\* Any other acknowledgement, one from before LAR: only its option counts.
RecvOtherAck(ack, sacks) ==
    /\ status = "running" /\ Reading
    /\ ack # LAR /\ ~InWindow(ack, LAR + 1, LFS)
    /\ ReceiveOptions(sacks)
    /\ handler' = "rearm"
    /\ UNCHANGED <<threadVars, ackTo, status, LAR, sendWindowNotFull, congestionVars,
                   RTT_sampled, duplicateAck, msg, event_type, historyVars, queueVars,
                   dataNet>>

RecvAck(ack, sacks) == \/ RecvNewAck(ack, sacks)
                       \/ RecvDuplicateAck(ack, sacks)
                       \/ RecvOtherAck(ack, sacks)

\* evCancel looks in EQ_Tail first.  It would call exit(4) if the event were in
\* neither queue: the invariant CancelFindsEvent.
EvCancel(s) ==
    /\ s \in Queued(EQT) \cup Queued(EQH)
    /\ IF s \in Queued(EQT)
       THEN /\ EQT' \in Dequeue(EQT, s)
            /\ EQT_time' = DequeuedTime(EQT, EQT', s)
            /\ UNCHANGED <<EQH, EQH_time>>
       ELSE /\ EQH' \in Dequeue(EQH, s)
            /\ EQH_time' = DequeuedTime(EQH, EQH', s)
            /\ UNCHANGED <<EQT, EQT_time>>
    /\ \E timer \in RegisterTimers(EQH_time', EQT_time') : SetTimer(timer)

\* updateRTT opens the window by one frame in slow start, and whenever the
\* released frame is the one being timed.
Grows(s) == /\ CongestionMode = SlowStart \/ RTT_sampled = s
            /\ CongWin + 1 <= MaxSendWin

UpdateRTT(s) ==
    /\ RTT_sampled' = SampleWithout({s})
    /\ CongWin' = IF Grows(s) THEN CongWin + 1 ELSE CongWin
    /\ CongestionMode' = IF Grows(s) /\ CongWin' > Threshold THEN CongestionAvoidance
                         ELSE CongestionMode

\* One round of the do-while loop: release the frame LAR + 1.  Both the release
\* and the growth of the window give the thread a token while it is open.
ReleaseFrame ==
    LET lar    == LAR + 1
        s      == Slot(lar)
        opened == IF WindowSize(CongWin, lar, LFS) > 0 THEN 1 ELSE 0
        grown  == IF Grows(s) /\ WindowSize(CongWin', lar, LFS) > 0 THEN 1 ELSE 0
    IN  /\ status = "running" /\ handler = "acking"
        /\ EvCancel(s)
        /\ LAR' = lar
        /\ duplicateAck' = 0
        /\ SACKed' = [SACKed EXCEPT ![s] = FALSE]
        /\ msg' = [msg EXCEPT ![s] = 0]
        /\ ForgetHistory(s)
        /\ UpdateRTT(s)
        /\ sendWindowNotFull' = sendWindowNotFull + opened + grown
        /\ IF lar = ackTo THEN handler' = "rearm" /\ ackTo' = 0
                          ELSE UNCHANGED <<handler, ackTo>>
        /\ UNCHANGED <<threadVars, status, Threshold, LSS, event_type, dataNet>>

\* The end of the sender's half of deliverSWP, when nothing is outstanding.
RearmNothing ==
    /\ status = "running" /\ handler = "rearm"
    /\ LAR = LFS
    /\ user_timer_fn' = "none"
    /\ handler' = "polling"
    /\ UNCHANGED <<threadVars, ackTo, status, LAR, sendWindowNotFull,
                   congestionVars, RTT_sampled, LSS, slotVars, queueVars,
                   user_timer_interval, dataNet>>

\* Mutant: the cached deadline is taken for that of the frame's entry.
RearmFirstCached ==
    /\ status = "running" /\ handler = "rearm"
    /\ LAR # LFS
    /\ Slot(LAR + 1) \in Queued(EQH)
    /\ SetTimer(Timer("proc_timer", EQH_time))
    /\ handler' = "polling"
    /\ UNCHANGED <<threadVars, ackTo, status, LAR, sendWindowNotFull,
                   congestionVars, RTT_sampled, LSS, slotVars, queueVars, dataNet>>

\* The first outstanding frame still runs its timeout: wait for that.
RearmFirst ==
    /\ status = "running" /\ handler = "rearm"
    /\ LAR # LFS
    /\ Slot(LAR + 1) \in Queued(EQH)
    /\ SetTimer(Timer("proc_timer", Slot(LAR + 1)))
    /\ handler' = "polling"
    /\ UNCHANGED <<threadVars, ackTo, status, LAR, sendWindowNotFull,
                   congestionVars, RTT_sampled, LSS, slotVars, queueVars, dataNet>>

\* Its timeout has expired: congestion_timer(0), then register_timers.
RearmCongestion ==
    /\ status = "running" /\ handler = "rearm"
    /\ LAR # LFS
    /\ Slot(LAR + 1) \notin Queued(EQH)
    /\ EQT # <<>>
    /\ CongestionTimer(EQT, EQH)
    /\ \E timer \in RegisterTimers(EQH_time', EQT_time') : SetTimer(timer)
    /\ handler' = "polling"
    /\ UNCHANGED <<threadVars, ackTo, status, LAR, sendWindowNotFull,
                   congestionVars, LSS, duplicateAck, msg>>

\* congestion_timer calls exit(1) on an empty EQ_Tail.
RearmFails ==
    /\ status = "running" /\ handler = "rearm"
    /\ LAR # LFS
    /\ Slot(LAR + 1) \notin Queued(EQH)
    /\ EQT = <<>>
    /\ status' = "EQ_Tail is an empty list"
    /\ UNCHANGED <<threadVars, handler, ackTo, LAR, sendWindowNotFull,
                   congestionVars, RTT_sampled, LSS, slotVars, queueVars, timerVars,
                   dataNet>>

\* No packet waits: the handler returns.
ReadNothing ==
    /\ status = "running" /\ handler = "polling"
    /\ handler' = "idle"
    /\ UNCHANGED <<threadVars, ackTo, status, LAR, sendWindowNotFull, congestionVars,
                   RTT_sampled, LSS, slotVars, queueVars, timerVars, dataNet>>

Thread == \/ SemWait \/ TestWindow \/ UnregisterTimer
          \/ NumberFrame \/ StoreFrame \/ ScheduleFrame

\* A handler run that has begun, between two packets.
HandlerRuns == \/ ReleaseFrame
               \/ RearmNothing \/ RearmFirst \/ RearmCongestion \/ RearmFails
               \/ ReadNothing

Handler == ProcTimer \/ CongestionTimerFires \/ HandlerRuns

\* The packets the other end may have sent: any cumulative acknowledgement of
\* frames it can have received, in any order and any number of times.  Its SACK
\* option may report any frames, also ones never sent: swp_append_sack_opts
\* announces a block that it leaves out, and what is in its place is arbitrary.
Acks == {0} \cup dataNet
SackReports == {S \in SUBSET Frames : Cardinality(S) <= MaxSacks}

\* Everything is sent and acknowledged, or the client has called exit().
Finished == \/ status # "running"
            \/ pc = "done" /\ LAR = NFrames /\ handler = "idle"

Terminating == Finished /\ UNCHANGED senderVars

SenderNext == \/ Thread
        \/ Handler
        \/ \E ack \in Acks, sacks \in SackReports : RecvAck(ack, sacks)
        \/ Terminating

SenderSpec == SenderInit /\ [][SenderNext]_senderVars

-------------------------------------------------------------------------------
(* Properties.                                                             *)

Places == {"sem_wait", "window", "unregister", "number", "store", "schedule", "done"}
HandlerPlaces == {"idle", "polling", "acking", "rearm"}
TimerFns == {"none", "proc_timer", "congestion_timer"}

\* Every variable keeps the type its C declaration gives it.
SenderTypeOK ==
    /\ pc \in Places
    /\ handler \in HandlerPlaces
    /\ ackTo \in 0 .. NFrames
    /\ status \in {"running", "EQ_Tail is an empty list"}
    /\ LAR \in 0 .. NFrames /\ LFS \in 0 .. NFrames /\ LSS \in 0 .. NFrames
    /\ sendWindowNotFull \in Nat
    /\ CongWin \in Nat /\ Threshold \in Nat
    /\ CongestionMode \in {SlowStart, CongestionAvoidance}
    /\ RTT_sampled \in Slots \cup {NoSlot}
    /\ duplicateAck \in 0 .. 2
    /\ SACKed \in [Slots -> BOOLEAN]
    /\ msg \in [Slots -> 0 .. NFrames]
    /\ event_type \in [Slots -> EventTypes]
    /\ sends \in [Slots -> 0 .. 2] /\ withheld \in [Slots -> Nat]
    /\ EQH \in Seq(Slots) /\ EQT \in Seq(Slots)
    /\ EQH_time \in Slots \cup {NoSlot} /\ EQT_time \in Slots \cup {NoSlot}
    /\ user_timer_fn \in TimerFns
    /\ user_timer_interval \in Slots \cup {NoSlot}
    /\ dataNet \subseteq Frames

\* The last frame that has an event: ++LFS comes before evSchedule.
Scheduled == IF pc \in {"store", "schedule"} THEN LFS - 1 ELSE LFS
Outstanding == (LAR + 1) .. Scheduled

\* The congestion window stays within what SWP_create allows, and in slow start
\* it has not passed the threshold: fast recovery and updateRTT switch the mode
\* in the same step that takes the window past it.
CongestionWindowBound ==
    /\ CongWin \in 1 .. MaxSendWin
    /\ Threshold >= 1
    /\ CongestionMode = SlowStart => CongWin <= Threshold

\* sendSWP lets a frame go while the window is exactly full and the test and
\* ++LFS are separate steps, yet no more than MaxSendWin + 1 frames are ever
\* outstanding, so the slots of LAR .. LFS are pairwise different and a frame
\* never overwrites one that may still have to be sent again.
WindowBound == LAR <= LFS /\ LFS - LAR <= MaxSendWin + 1

\* A frame's copy stays in its slot, unharmed by later frames, until it is
\* acknowledged: what a timeout sends is always the frame it is about.
SavedUntilAcked == \A i \in Outstanding : msg[Slot(i)] = i

\* The two event queues together hold exactly one entry for every outstanding
\* frame and none for another slot: no frame loses its timeout and no stale
\* entry survives, across timeouts, acknowledgements and fast retransmits.
QueuesHoldOutstanding ==
    LET q == EQH \o EQT
    IN  /\ Queued(q) = {Slot(i) : i \in Outstanding}
        /\ Len(q) = Cardinality(Queued(q))

\* evCancel always finds the event of the frame an acknowledgement releases.
CancelFindsEvent == handler = "acking" => Slot(LAR + 1) \in Queued(EQH) \cup Queued(EQT)

\* An armed timer waits for an entry that still exists: for one of EQ_Head
\* with proc_timer, for the oldest of EQ_Tail with congestion_timer.  This is so
\* although dequeue_evt leaves the deadlines of removed entries in the sentinels
\* and evCancel arms the timer for them.
TimerTracksEntry ==
    handler = "idle" =>
        /\ user_timer_fn = "proc_timer" => user_timer_interval \in Queued(EQH)
        /\ user_timer_fn = "congestion_timer" => /\ EQT # <<>>
                                                 /\ user_timer_interval = Last(EQT)

\* While a frame is outstanding the interval is set, so timer() still calls the
\* read callback even where the thread has unregistered the timer function.
ReadsEnabled ==
    handler = "idle" /\ Outstanding # {} => user_timer_interval # NoSlot

\* Whenever nothing is outstanding and the thread waits for the semaphore, a
\* token is there: the tokens that TestWindow throws away never leave the
\* thread asleep with no acknowledgement to come.
WakeupPending ==
    handler = "idle" /\ pc = "sem_wait" /\ LAR = LFS => sendWindowNotFull > 0

\* Karn's rule: the frame whose round trip is being timed is outstanding and has
\* been sent at most once, by sendSWP; neither a timeout nor a fast retransmission
\* nor both together have sent it again, so its acknowledgement is not ambiguous.
SampleIsFirstTransmission ==
    RTT_sampled # NoSlot =>
        /\ RTT_sampled \in {Slot(i) : i \in (LAR + 1) .. LFS}
        /\ sends[RTT_sampled] <= 1

\* While frames are outstanding and the thread is not inside sendSWP, a timer
\* function is registered, as libnet.h asks of a user of its one-shot timer.
TimerArmed ==
    handler = "idle" /\ pc \in {"sem_wait", "window", "done"} /\ Outstanding # {}
        => user_timer_fn # "none"

\* congestion_timer is never called on an empty EQ_Tail, which it answers with
\* exit(1).
TailNeverEmpty == status = "running"

\* No outstanding frame has been withheld by two timeouts in a row, whatever its
\* slot is marked with: senderOptSack also marks the slot of LAR for a late report,
\* and the frame that uses this slot next starts out as SACKed, as it does after
\* a false report.  A mark, right or wrong, delays a retransmission by one timeout.
NotWithheldTwice == \A i \in Outstanding : withheld[Slot(i)] <= 1
================================================================================
