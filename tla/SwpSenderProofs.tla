---------------------------- MODULE SwpSenderProofs -----------------------------
(***************************************************************************)
(* Type correctness of the sender and the bounds on its windows, for every *)
(* size of the slot array, every number of frames and every order of       *)
(* packets, signals and steps of the thread.                               *)
(***************************************************************************)
EXTENDS SwpSender, TransportProofs

-------------------------------------------------------------------------------
(* The inductive invariant.                                                *)

\* The thread numbers a frame only while one is left, and between the test of
\* the window and ++LFS the window still has room for one frame too many: an
\* acknowledgement can only widen it.
ThreadInv ==
    /\ pc \in {"sem_wait", "window", "unregister", "number"} => LFS < NFrames
    /\ pc \in {"unregister", "number"} => LFS - LAR <= MaxSendWin

\* While deliverSWP releases frames, it has not reached AckNum yet, and AckNum
\* is a frame that was sent.
AckingInv == handler = "acking" => LAR < ackTo /\ ackTo <= LFS

WindowInv == /\ CongestionWindowBound /\ WindowBound
             /\ ThreadInv /\ AckingInv

SenderInv == SenderTypeOK /\ WindowInv

-------------------------------------------------------------------------------
(* Types of the operators.                                                 *)

\* The slots that the actions use.
LEMMA SlotsInUse ==
    ASSUME SenderTypeOK
    PROVE  Slot(LFS) \in Slots /\ Slot(LAR) \in Slots /\ Slot(LAR + 1) \in Slots
<1>1. LFS \in 0 .. NFrames /\ LAR \in 0 .. NFrames
  BY DEF SenderTypeOK
<1>2. LFS \in Nat /\ LAR \in Nat /\ LAR + 1 \in Nat
  BY <1>1
<1> QED BY <1>2, SlotType

LEMMA MaxSendWinType == MaxSendWin \in Nat /\ MaxSendWin >= 1
BY SWSAssumption DEF MaxSendWin

LEMMA HalvedType ==
    ASSUME NEW win \in Nat
    PROVE  /\ Halved(win) \in Nat /\ Halved(win) >= 1
           /\ win >= 1 => Halved(win) <= win
BY DEF Halved

TimerType(fn, at) == fn \in TimerFns /\ at \in Slots \cup {NoSlot}

\* register_timers arms one of the two functions for a slot, or none.
LEMMA RegisterTimersType ==
    ASSUME NEW headTime \in Slots \cup {NoSlot}, NEW tailTime \in Slots \cup {NoSlot},
           NEW timer \in RegisterTimers(headTime, tailTime)
    PROVE  TimerType(timer.fn, timer.at)
<1>1. \/ timer = Timer("congestion_timer", tailTime)
      \/ timer = Timer("proc_timer", headTime)
      \/ timer = Disarmed
  BY DEF RegisterTimers
<1> QED BY <1>1 DEF Timer, Disarmed, TimerType, TimerFns

\* What a sentinel caches is a slot, or NoSlot.
LEMMA LastTimeType ==
    ASSUME NEW q \in Seq(Slots)
    PROVE  /\ LastTime(q) \in Slots \cup {NoSlot}
           /\ q # <<>> => LastTime(q) \in Slots
BY QueueEntries DEF LastTime

LEMMA DequeuedTimeType ==
    ASSUME NEW q \in Seq(Slots), NEW rest \in Seq(Slots), NEW s \in Slots
    PROVE  DequeuedTime(q, rest, s) \in Slots \cup {NoSlot}
BY LastTimeType DEF DequeuedTime

\* Sending adds to the packets in flight only what is sent.
LEMMA CarriedType ==
    ASSUME NEW net, NEW packets
    PROVE  Carried(net, packets) \subseteq net \cup packets
BY DEF Carried

\* Sending counts at most two transmissions of a frame.
LEMMA TransmitType ==
    ASSUME SenderTypeOK, NEW frames, NEW timeouts, Transmit(frames, timeouts)
    PROVE  sends' \in [Slots -> 0 .. 2] /\ withheld' \in [Slots -> Nat]
<1>1. sends \in [Slots -> 0 .. 2] /\ withheld \in [Slots -> Nat]
  BY DEF SenderTypeOK
<1>2. sends' \in [Slots -> 0 .. 2]
  BY <1>1 DEF Transmit
<1>3. withheld' \in [Slots -> Nat]
  BY <1>1 DEF Transmit
<1> QED BY <1>2, <1>3

LEMMA ForgetHistoryType ==
    ASSUME SenderTypeOK, NEW s \in Slots, ForgetHistory(s)
    PROVE  sends' \in [Slots -> 0 .. 2] /\ withheld' \in [Slots -> Nat]
<1>1. sends \in [Slots -> 0 .. 2] /\ withheld \in [Slots -> Nat]
  BY DEF SenderTypeOK
<1>2. sends' \in [Slots -> 0 .. 2]
  BY <1>1 DEF ForgetHistory
<1>3. withheld' \in [Slots -> Nat]
  BY <1>1 DEF ForgetHistory
<1> QED BY <1>2, <1>3

\* congestion_timer leaves two queues, the first of them not empty, and keeps
\* the types of what it changes.
LEMMA CongestionTimerType ==
    ASSUME NEW h \in Seq(Slots), NEW t \in Seq(Slots), SenderTypeOK,
           CongestionTimer(t, h)
    PROVE  /\ EQT' \in Seq(Slots)
           /\ EQH' \in Seq(Slots)
           /\ EQT_time' \in Slots \cup {NoSlot} /\ EQH_time' \in Slots
           /\ event_type' \in [Slots -> EventTypes]
           /\ SACKed' \in [Slots -> BOOLEAN]
           /\ dataNet' \subseteq Frames
           /\ RTT_sampled' \in Slots \cup {NoSlot}
           /\ sends' \in [Slots -> 0 .. 2] /\ withheld' \in [Slots -> Nat]
<1>1. PICK n \in CongestionStart(t, event_type, HighestSacked) :
          LET batch == SubSeq(t, n, Len(t))
          IN  /\ EQT' = SubSeq(t, 1, n - 1)
              /\ EQH' = QueueRetransmit(h, batch)
              /\ EQT_time' = LastTime(EQT') /\ EQH_time' = LastTime(EQH')
              /\ SwpTimeout(Queued(batch))
              /\ RTT_sampled' = SampleWithout(Queued(batch))
  BY DEF CongestionTimer
<1> DEFINE batch == SubSeq(t, n, Len(t))
<1>2. /\ EQT' \in Seq(Slots)
      /\ EQH' \in Seq(Slots) /\ EQH' # <<>>
      /\ batch \in Seq(Slots)
  BY <1>1, BatchType
<1>3. Queued(batch) \subseteq Slots
  BY <1>2, QueueEntries
<1> HIDE DEF batch
<1>4. EQT_time' \in Slots \cup {NoSlot} /\ EQH_time' \in Slots
  BY <1>1, <1>2, LastTimeType
<1>5. SwpTimeout(Queued(batch)) /\ RTT_sampled' = SampleWithout(Queued(batch))
  BY <1>1 DEF batch
<1>6. event_type' \in [Slots -> EventTypes]
  BY <1>5 DEF SwpTimeout, SenderTypeOK, EventTypes
<1>7. SACKed' \in [Slots -> BOOLEAN]
  BY <1>5 DEF SwpTimeout, SenderTypeOK
<1>8. dataNet' \subseteq Frames
  <2>1. \A s \in Queued(batch) : msg[s] \in 0 .. NFrames
    BY <1>3 DEF SenderTypeOK
  <2> DEFINE sent == {msg[s] : s \in {e \in Queued(batch) : ~SACKed'[e]}} \ {0}
  <2>2. dataNet' = Carried(dataNet, sent)
    BY <1>5 DEF SwpTimeout, Transmit
  <2>3. \A i \in sent : \E s \in Queued(batch) : i = msg[s] /\ i # 0
    OBVIOUS
  <2> HIDE DEF sent
  <2>4. dataNet' \subseteq dataNet \cup sent
    BY <2>2, CarriedType
  <2>5. \A i \in 0 .. NFrames : i # 0 => i \in Frames
    BY NFramesAssumption DEF Frames
  <2>6. dataNet \subseteq Frames
    BY DEF SenderTypeOK
  <2> QED BY <2>1, <2>3, <2>4, <2>5, <2>6
<1>9. RTT_sampled' \in Slots \cup {NoSlot}
  BY <1>5 DEF SampleWithout, SenderTypeOK
<1>10. sends' \in [Slots -> 0 .. 2] /\ withheld' \in [Slots -> Nat]
  BY <1>5, TransmitType DEF SwpTimeout
<1> QED BY <1>2, <1>4, <1>6, <1>7, <1>8, <1>9, <1>10

\* The SACK option marks slots and raises LSS to a frame of the file.
LEMMA ReceiveOptionsType ==
    ASSUME SenderTypeOK, NEW sacks \in SUBSET Frames, ReceiveOptions(sacks)
    PROVE  /\ SACKed' \in [Slots -> BOOLEAN]
           /\ LSS' \in 0 .. NFrames
           /\ TimerType(user_timer_fn', user_timer_interval')
<1>1. LSS' \in sacks \cup {LSS}
  BY DEF ReceiveOptions
<1>2. sacks \subseteq 0 .. NFrames
  BY NFramesAssumption DEF Frames
<1>3. LSS' \in 0 .. NFrames
  BY <1>1, <1>2 DEF SenderTypeOK
<1>4. SACKed' \in [Slots -> BOOLEAN]
  BY DEF ReceiveOptions, SenderTypeOK
<1>5. TimerType(user_timer_fn', user_timer_interval')
  BY DEF ReceiveOptions, SetTimer, Disarmed, Timer, TimerType, TimerFns
<1> QED BY <1>3, <1>4, <1>5

-------------------------------------------------------------------------------
(* The initial states.                                                     *)

LEMMA SenderInvInit == SenderInit => SenderInv
<1> SUFFICES ASSUME SenderInit PROVE SenderInv
  OBVIOUS
<1>1. SenderTypeOK
  BY NFramesAssumption
     DEF SenderInit, SenderTypeOK, Places, HandlerPlaces, TimerFns, InitialThreshold,
         SlowStart, EventTypes, NoEvent
<1>2. WindowInv
  BY NFramesAssumption, MaxSendWinType
     DEF SenderInit, WindowInv, CongestionWindowBound, WindowBound, ThreadInv,
         AckingInv, InitialThreshold, SlowStart
<1> QED BY <1>1, <1>2 DEF SenderInv

-------------------------------------------------------------------------------
(* The steps of the thread.                                                *)

USE DEF threadVars, handlerVars, congestionVars, historyVars, slotVars, queueVars, timerVars

LEMMA SemWaitStep == SenderInv /\ SemWait => SenderInv'
<1> SUFFICES ASSUME SenderInv, SemWait PROVE SenderInv'
  OBVIOUS
<1>1. SenderTypeOK'
  <2>1. pc' \in Places /\ sendWindowNotFull' \in Nat
    BY DEF SenderInv, SenderTypeOK, SemWait, ThreadAt, Places
  <2> QED BY <2>1, ZenonT(40) DEF SenderInv, SenderTypeOK, SemWait
<1>2. WindowInv'
  BY MaxSendWinType
     DEF SenderInv, SenderTypeOK, WindowInv, CongestionWindowBound, WindowBound,
         ThreadInv, AckingInv, SemWait, ThreadAt
<1> QED BY <1>1, <1>2 DEF SenderInv

\* The test of the window: LFS - LAR <= CongWin.
LEMMA TestWindowStep == SenderInv /\ TestWindow => SenderInv'
<1> SUFFICES ASSUME SenderInv, TestWindow PROVE SenderInv'
  OBVIOUS
<1>1. SenderTypeOK'
  <2>1. pc' \in Places
    BY DEF SenderInv, SenderTypeOK, TestWindow, ThreadAt, Places
  <2> QED BY <2>1, ZenonT(40) DEF SenderInv, SenderTypeOK, TestWindow
<1>2. WindowInv'
  BY MaxSendWinType
     DEF SenderInv, SenderTypeOK, WindowInv, CongestionWindowBound, WindowBound,
         ThreadInv, AckingInv, TestWindow, ThreadAt, WindowSize
<1> QED BY <1>1, <1>2 DEF SenderInv

LEMMA UnregisterTimerStep == SenderInv /\ UnregisterTimer => SenderInv'
<1> SUFFICES ASSUME SenderInv, UnregisterTimer PROVE SenderInv'
  OBVIOUS
<1>1. SenderTypeOK'
  BY DEF SenderInv, SenderTypeOK, UnregisterTimer, ThreadAt, Places, TimerFns
<1>2. WindowInv'
  BY MaxSendWinType
     DEF SenderInv, SenderTypeOK, WindowInv, CongestionWindowBound, WindowBound,
         ThreadInv, AckingInv, UnregisterTimer, ThreadAt
<1> QED BY <1>1, <1>2 DEF SenderInv

\* ++LFS: the window may now hold one frame more than MaxSendWin.
LEMMA NumberFrameStep == SenderInv /\ NumberFrame => SenderInv'
<1> SUFFICES ASSUME SenderInv, NumberFrame PROVE SenderInv'
  OBVIOUS
<1>1. SenderTypeOK'
  BY NFramesAssumption DEF SenderInv, SenderTypeOK, NumberFrame, ThreadAt, Places, ThreadInv, WindowInv
<1>2. WindowInv'
  BY MaxSendWinType
     DEF SenderInv, SenderTypeOK, WindowInv, CongestionWindowBound, WindowBound,
         ThreadInv, AckingInv, NumberFrame, ThreadAt
<1> QED BY <1>1, <1>2 DEF SenderInv

LEMMA StoreFrameStep == SenderInv /\ StoreFrame => SenderInv'
<1> SUFFICES ASSUME SenderInv, StoreFrame PROVE SenderInv'
  OBVIOUS
<1>1. SenderTypeOK'
  <2>1. Slot(LFS) \in Slots
    BY SlotsInUse DEF SenderInv
  <2>2. msg' \in [Slots -> 0 .. NFrames] /\ RTT_sampled' \in Slots \cup {NoSlot}
    BY <2>1 DEF SenderInv, SenderTypeOK, StoreFrame
  <2>3. sends' \in [Slots -> 0 .. 2] /\ withheld' \in [Slots -> Nat]
    BY <2>1, ForgetHistoryType DEF SenderInv, StoreFrame
  <2> QED BY <2>2, <2>3 DEF SenderInv, SenderTypeOK, StoreFrame, ThreadAt, Places
<1>2. WindowInv'
  BY MaxSendWinType
     DEF SenderInv, SenderTypeOK, WindowInv, CongestionWindowBound, WindowBound,
         ThreadInv, AckingInv, StoreFrame, ThreadAt
<1> QED BY <1>1, <1>2 DEF SenderInv

LEMMA ScheduleFrameStep == SenderInv /\ ScheduleFrame => SenderInv'
<1> SUFFICES ASSUME SenderInv, ScheduleFrame PROVE SenderInv'
  OBVIOUS
<1>1. SenderTypeOK'
  <2>1. LFS \in 0 .. NFrames /\ Slot(LFS) \in Slots
    BY SlotsInUse, Zenon DEF SenderInv, SenderTypeOK
  <2>2. EQH \in Seq(Slots) /\ event_type \in [Slots -> EventTypes]
    BY DEF SenderInv, SenderTypeOK
  <2>3. EQH' \in Seq(Slots) /\ EQH' # <<>>
    BY <2>1, <2>2, QueueSendType DEF ScheduleFrame, EvSchedule
  <2>4. EQH_time' \in Slots
    BY <2>3, LastTimeType DEF ScheduleFrame, EvSchedule
  <2>5. event_type' \in [Slots -> EventTypes]
    BY <2>1, <2>2 DEF ScheduleFrame, EvSchedule, EventTypes
  <2>6. dataNet' \subseteq Frames
    <3>1. LFS # 0 => LFS \in Frames
      BY <2>1, NFramesAssumption DEF Frames
    <3>2. dataNet \subseteq Frames /\ dataNet' \subseteq dataNet \cup ({LFS} \ {0})
      BY CarriedType DEF SenderInv, SenderTypeOK, ScheduleFrame, Transmit
    <3> QED BY <3>1, <3>2
  <2>7. TimerType(user_timer_fn', user_timer_interval')
    BY <2>4 DEF ScheduleFrame, SetTimer, Timer, TimerType, TimerFns
  <2>8. sends' \in [Slots -> 0 .. 2] /\ withheld' \in [Slots -> Nat]
    BY TransmitType DEF SenderInv, ScheduleFrame
  <2> QED
    BY <2>3, <2>4, <2>5, <2>6, <2>7, <2>8
       DEF SenderInv, SenderTypeOK, ScheduleFrame, ThreadAt, Places, TimerType
<1>2. WindowInv'
  BY MaxSendWinType, NFramesAssumption
     DEF SenderInv, SenderTypeOK, WindowInv, CongestionWindowBound, WindowBound,
         ThreadInv, AckingInv, ScheduleFrame, ThreadAt
<1> QED BY <1>1, <1>2 DEF SenderInv

-------------------------------------------------------------------------------
(* The steps of the signal handler.                                       *)

LEMMA ProcTimerStep == SenderInv /\ ProcTimer => SenderInv'
<1> SUFFICES ASSUME SenderInv, ProcTimer PROVE SenderInv'
  OBVIOUS
<1>1. SenderTypeOK'
  <2>1. EQT \in Seq(Slots) /\ EQH \in Seq(Slots)
    BY DEF SenderInv, SenderTypeOK
  <2> <<>> \in Seq(Slots)
    OBVIOUS
  <2>2. Expire(EQT, EQH) \in Seq(Slots)
    BY <2>1 DEF Expire
  <2>3. /\ EQT' \in Seq(Slots) /\ EQH' \in Seq(Slots)
        /\ EQT_time' \in Slots \cup {NoSlot} /\ EQH_time' \in Slots
        /\ event_type' \in [Slots -> EventTypes] /\ SACKed' \in [Slots -> BOOLEAN]
        /\ dataNet' \subseteq Frames /\ RTT_sampled' \in Slots \cup {NoSlot}
        /\ sends' \in [Slots -> 0 .. 2] /\ withheld' \in [Slots -> Nat]
    BY <2>1, <2>2, CongestionTimerType DEF SenderInv, ProcTimer
  <2>4. TimerType(user_timer_fn', user_timer_interval')
    <3>1. CASE \E timer \in RegisterTimers(EQH_time', EQT_time') : SetTimer(timer)
      BY <2>3, <3>1, RegisterTimersType DEF SetTimer
    <3>2. CASE user_timer_fn' = "none" /\ UNCHANGED user_timer_interval
      BY <3>2 DEF SenderInv, SenderTypeOK, TimerType, TimerFns
    <3> QED BY <3>1, <3>2 DEF ProcTimer
  <2>5. /\ Threshold' \in Nat /\ CongWin' \in Nat
        /\ CongestionMode' \in {SlowStart, CongestionAvoidance}
    BY HalvedType DEF SenderInv, SenderTypeOK, ProcTimer, CongestionTimeout
  <2> QED
    BY <2>3, <2>4, <2>5
       DEF SenderInv, SenderTypeOK, ProcTimer, HandlerPlaces, TimerType
<1>2. WindowInv'
  BY MaxSendWinType, HalvedType
     DEF SenderInv, SenderTypeOK, WindowInv, CongestionWindowBound, WindowBound,
         ThreadInv, AckingInv, ProcTimer, Fires, CongestionTimeout, SlowStart, CongestionAvoidance
<1> QED BY <1>1, <1>2 DEF SenderInv

LEMMA CongestionTimerFiresStep == SenderInv /\ CongestionTimerFires => SenderInv'
<1> SUFFICES ASSUME SenderInv, CongestionTimerFires PROVE SenderInv'
  OBVIOUS
<1>1. SenderTypeOK'
  <2>1. EQT \in Seq(Slots) /\ EQH \in Seq(Slots)
    BY DEF SenderInv, SenderTypeOK
  <2>2. /\ EQT' \in Seq(Slots) /\ EQH' \in Seq(Slots)
        /\ EQT_time' \in Slots \cup {NoSlot} /\ EQH_time' \in Slots
        /\ event_type' \in [Slots -> EventTypes] /\ SACKed' \in [Slots -> BOOLEAN]
        /\ dataNet' \subseteq Frames /\ RTT_sampled' \in Slots \cup {NoSlot}
        /\ sends' \in [Slots -> 0 .. 2] /\ withheld' \in [Slots -> Nat]
    BY <2>1, CongestionTimerType DEF SenderInv, CongestionTimerFires
  <2>4. TimerType(user_timer_fn', user_timer_interval')
    BY <2>2 DEF CongestionTimerFires, SetTimer, Timer, TimerType, TimerFns
  <2> QED
    BY <2>2, <2>4
       DEF SenderInv, SenderTypeOK, CongestionTimerFires, HandlerPlaces, TimerType
<1>2. WindowInv'
  BY MaxSendWinType
     DEF SenderInv, SenderTypeOK, WindowInv, CongestionWindowBound, WindowBound,
         ThreadInv, AckingInv, CongestionTimerFires, Fires
<1> QED BY <1>1, <1>2 DEF SenderInv

LEMMA RearmCongestionStep == SenderInv /\ RearmCongestion => SenderInv'
<1> SUFFICES ASSUME SenderInv, RearmCongestion PROVE SenderInv'
  OBVIOUS
<1>1. SenderTypeOK'
  <2>1. EQT \in Seq(Slots) /\ EQH \in Seq(Slots)
    BY DEF SenderInv, SenderTypeOK
  <2>2. /\ EQT' \in Seq(Slots) /\ EQH' \in Seq(Slots)
        /\ EQT_time' \in Slots \cup {NoSlot} /\ EQH_time' \in Slots
        /\ event_type' \in [Slots -> EventTypes] /\ SACKed' \in [Slots -> BOOLEAN]
        /\ dataNet' \subseteq Frames /\ RTT_sampled' \in Slots \cup {NoSlot}
        /\ sends' \in [Slots -> 0 .. 2] /\ withheld' \in [Slots -> Nat]
    BY <2>1, CongestionTimerType DEF SenderInv, RearmCongestion
  <2>3. TimerType(user_timer_fn', user_timer_interval')
    BY <2>2, RegisterTimersType DEF RearmCongestion, SetTimer
  <2> QED
    BY <2>2, <2>3
       DEF SenderInv, SenderTypeOK, RearmCongestion, HandlerPlaces, TimerType
<1>2. WindowInv'
  BY MaxSendWinType
     DEF SenderInv, SenderTypeOK, WindowInv, CongestionWindowBound, WindowBound,
         ThreadInv, AckingInv, RearmCongestion
<1> QED BY <1>1, <1>2 DEF SenderInv

LEMMA RearmNothingStep == SenderInv /\ RearmNothing => SenderInv'
<1> SUFFICES ASSUME SenderInv, RearmNothing PROVE SenderInv'
  OBVIOUS
<1>1. SenderTypeOK'
  BY DEF SenderInv, SenderTypeOK, RearmNothing, HandlerPlaces, TimerFns
<1>2. WindowInv'
  BY MaxSendWinType
     DEF SenderInv, SenderTypeOK, WindowInv, CongestionWindowBound, WindowBound,
         ThreadInv, AckingInv, RearmNothing
<1> QED BY <1>1, <1>2 DEF SenderInv

LEMMA RearmFirstStep == SenderInv /\ RearmFirst => SenderInv'
<1> SUFFICES ASSUME SenderInv, RearmFirst PROVE SenderInv'
  OBVIOUS
<1>1. SenderTypeOK'
  <2>1. Slot(LAR + 1) \in Slots
    BY SlotsInUse DEF SenderInv
  <2>2. TimerType(user_timer_fn', user_timer_interval')
    BY <2>1 DEF RearmFirst, SetTimer, Timer, TimerType, TimerFns
  <2> QED
    BY <2>2 DEF SenderInv, SenderTypeOK, RearmFirst, HandlerPlaces, TimerType
<1>2. WindowInv'
  BY MaxSendWinType
     DEF SenderInv, SenderTypeOK, WindowInv, CongestionWindowBound, WindowBound,
         ThreadInv, AckingInv, RearmFirst
<1> QED BY <1>1, <1>2 DEF SenderInv

LEMMA RearmFailsStep == SenderInv /\ RearmFails => SenderInv'
<1> SUFFICES ASSUME SenderInv, RearmFails PROVE SenderInv'
  OBVIOUS
<1>1. SenderTypeOK'
  BY DEF SenderInv, SenderTypeOK, RearmFails
<1>2. WindowInv'
  BY MaxSendWinType
     DEF SenderInv, SenderTypeOK, WindowInv, CongestionWindowBound, WindowBound,
         ThreadInv, AckingInv, RearmFails
<1> QED BY <1>1, <1>2 DEF SenderInv

LEMMA ReadNothingStep == SenderInv /\ ReadNothing => SenderInv'
<1> SUFFICES ASSUME SenderInv, ReadNothing PROVE SenderInv'
  OBVIOUS
<1>1. SenderTypeOK'
  BY NFramesAssumption DEF SenderInv, SenderTypeOK, ReadNothing, HandlerPlaces
<1>2. WindowInv'
  BY MaxSendWinType
     DEF SenderInv, SenderTypeOK, WindowInv, CongestionWindowBound, WindowBound,
         ThreadInv, AckingInv, ReadNothing
<1> QED BY <1>1, <1>2 DEF SenderInv

\* The packets that may arrive acknowledge and report frames of the file.
LEMMA PacketTypes ==
    ASSUME SenderTypeOK, NEW ack \in Acks, NEW sacks \in SackReports
    PROVE  ack \in 0 .. NFrames /\ sacks \in SUBSET Frames
<1>1. Frames \subseteq 0 .. NFrames /\ 0 \in 0 .. NFrames
  BY NFramesAssumption DEF Frames
<1>2. dataNet \subseteq Frames
  BY DEF SenderTypeOK
<1> QED BY <1>1, <1>2 DEF Acks, SackReports

LEMMA RecvNewAckStep ==
    ASSUME SenderInv, NEW ack \in 0 .. NFrames, NEW sacks \in SUBSET Frames,
           RecvNewAck(ack, sacks)
    PROVE  SenderInv'
<1>1. SenderTypeOK /\ ack \in 0 .. NFrames /\ sacks \in SUBSET Frames
  BY DEF SenderInv
<1>2. /\ SACKed' \in [Slots -> BOOLEAN] /\ LSS' \in 0 .. NFrames
      /\ TimerType(user_timer_fn', user_timer_interval')
  BY <1>1, ReceiveOptionsType DEF RecvNewAck
<1>3. SenderTypeOK'
  BY <1>1, <1>2 DEF SenderTypeOK, RecvNewAck, HandlerPlaces, TimerType
<1>4. WindowInv'
  BY <1>1, MaxSendWinType
     DEF SenderInv, SenderTypeOK, WindowInv, CongestionWindowBound, WindowBound,
         ThreadInv, AckingInv, RecvNewAck, InWindow
<1> QED BY <1>3, <1>4 DEF SenderInv

\* Fast recovery halves the window and leaves slow start.
LEMMA RecvDuplicateAckStep ==
    ASSUME SenderInv, NEW ack \in 0 .. NFrames, NEW sacks \in SUBSET Frames,
           RecvDuplicateAck(ack, sacks)
    PROVE  SenderInv'
<1>1. SenderTypeOK /\ ack \in 0 .. NFrames /\ sacks \in SUBSET Frames
  BY DEF SenderInv
<1>2. /\ SACKed' \in [Slots -> BOOLEAN] /\ LSS' \in 0 .. NFrames
      /\ TimerType(user_timer_fn', user_timer_interval')
  BY <1>1, ReceiveOptionsType DEF RecvDuplicateAck
<1>3. Slot(LAR) \in Slots /\ Slot(LAR + 1) \in Slots
  BY <1>1, SlotsInUse
<1>4. duplicateAck' \in 0 .. 2
  BY DEF RecvDuplicateAck, CountDuplicate
<1>5. \/ UNCHANGED <<dataNet, historyVars, congestionVars, RTT_sampled>>
      \/ Transmit({msg[Slot(LAR + 1)]}, {}) /\ FastRecovery(Slot(LAR + 1))
  BY DEF RecvDuplicateAck
<1>6. dataNet' \subseteq Frames
  <2>1. msg[Slot(LAR + 1)] \in 0 .. NFrames
    BY <1>1, <1>3 DEF SenderTypeOK
  <2>2. msg[Slot(LAR + 1)] # 0 => msg[Slot(LAR + 1)] \in Frames
    BY <2>1, NFramesAssumption DEF Frames
  <2>3. dataNet' \subseteq dataNet \cup ({msg[Slot(LAR + 1)]} \ {0})
    BY <1>5, CarriedType DEF Transmit
  <2> QED BY <1>1, <2>2, <2>3 DEF SenderTypeOK
<1>7. RTT_sampled' \in Slots \cup {NoSlot}
  BY <1>1, <1>5 DEF SenderTypeOK, FastRecovery, SampleWithout
<1>8. /\ CongWin' \in Nat /\ Threshold' \in Nat
      /\ CongestionMode' \in {SlowStart, CongestionAvoidance}
      /\ CongestionWindowBound'
  <2>1. CASE UNCHANGED <<dataNet, historyVars, congestionVars, RTT_sampled>>
    BY <1>1, <2>1 DEF SenderInv, SenderTypeOK, WindowInv, CongestionWindowBound
  <2>2. CASE FastRecovery(Slot(LAR + 1))
    <3>1. CongWin \in 1 .. MaxSendWin /\ CongWin \in Nat
      BY <1>1 DEF SenderInv, WindowInv, CongestionWindowBound, SenderTypeOK
    <3>2. Halved(CongWin) \in Nat /\ Halved(CongWin) \in 1 .. MaxSendWin
      BY <3>1, HalvedType, MaxSendWinType
    <3>3. /\ Threshold' = Halved(CongWin) /\ CongWin' = Halved(CongWin)
          /\ CongestionMode' = CongestionAvoidance
      BY <2>2 DEF FastRecovery
    <3>4. CongestionMode' # SlowStart
      BY <3>3 DEF SlowStart, CongestionAvoidance
    <3>5. Threshold' >= 1
      BY <3>2, <3>3
    <3>6. CongWin' \in 1 .. MaxSendWin'
      BY <3>2, <3>3, Zenon DEF MaxSendWin
    <3> QED BY <3>2, <3>3, <3>4, <3>5, <3>6, Zenon DEF CongestionWindowBound
  <2> QED BY <1>5, <2>1, <2>2
<1>9. sends' \in [Slots -> 0 .. 2] /\ withheld' \in [Slots -> Nat]
  BY <1>1, <1>5, TransmitType DEF SenderTypeOK
<1>10. SenderTypeOK'
  BY <1>1, <1>2, <1>4, <1>6, <1>7, <1>8, <1>9
     DEF SenderTypeOK, RecvDuplicateAck, HandlerPlaces, TimerType
<1>11. WindowInv'
  BY <1>1, <1>8, MaxSendWinType
     DEF SenderInv, SenderTypeOK, WindowInv, WindowBound, ThreadInv, AckingInv,
         RecvDuplicateAck
<1> QED BY <1>10, <1>11 DEF SenderInv

LEMMA RecvOtherAckStep ==
    ASSUME SenderInv, NEW ack \in 0 .. NFrames, NEW sacks \in SUBSET Frames,
           RecvOtherAck(ack, sacks)
    PROVE  SenderInv'
<1>1. SenderTypeOK /\ ack \in 0 .. NFrames /\ sacks \in SUBSET Frames
  BY DEF SenderInv
<1>2. /\ SACKed' \in [Slots -> BOOLEAN] /\ LSS' \in 0 .. NFrames
      /\ TimerType(user_timer_fn', user_timer_interval')
  BY <1>1, ReceiveOptionsType DEF RecvOtherAck
<1>3. SenderTypeOK'
  BY <1>1, <1>2 DEF SenderTypeOK, RecvOtherAck, HandlerPlaces, TimerType
<1>4. WindowInv'
  BY <1>1, MaxSendWinType
     DEF SenderInv, SenderTypeOK, WindowInv, CongestionWindowBound, WindowBound,
         ThreadInv, AckingInv, RecvOtherAck
<1> QED BY <1>3, <1>4 DEF SenderInv

\* Any packet that acknowledges and reports frames of the file.
LEMMA RecvAckStep ==
    ASSUME SenderInv, NEW ack \in 0 .. NFrames, NEW sacks \in SUBSET Frames,
           RecvAck(ack, sacks)
    PROVE  SenderInv'
BY RecvNewAckStep, RecvDuplicateAckStep, RecvOtherAckStep DEF RecvAck

\* Releasing a frame widens the window, grows it by at most one within
\* MaxSendWin, and leaves slow start in the step that passes the threshold.
LEMMA ReleaseFrameStep == SenderInv /\ ReleaseFrame => SenderInv'
<1> SUFFICES ASSUME SenderInv, ReleaseFrame PROVE SenderInv'
  OBVIOUS
<1> DEFINE s == Slot(LAR + 1)
<1>1. SenderTypeOK /\ s \in Slots
  BY SlotsInUse DEF SenderInv
<1> HIDE DEF s
<1>2. /\ EvCancel(s) /\ UpdateRTT(s)
      /\ duplicateAck' = 0
      /\ SACKed' = [SACKed EXCEPT ![s] = FALSE]
      /\ msg' = [msg EXCEPT ![s] = 0]
      /\ ForgetHistory(s)
  BY DEF ReleaseFrame, s
<1>3. EQH' \in Seq(Slots) /\ EQT' \in Seq(Slots)
  BY <1>1, <1>2, DequeueType DEF EvCancel, SenderTypeOK
<1>4. EQH_time' \in Slots \cup {NoSlot} /\ EQT_time' \in Slots \cup {NoSlot}
  <2>1. EQH \in Seq(Slots) /\ EQT \in Seq(Slots)
    BY <1>1 DEF SenderTypeOK
  <2>2. /\ DequeuedTime(EQT, EQT', s) \in Slots \cup {NoSlot}
        /\ DequeuedTime(EQH, EQH', s) \in Slots \cup {NoSlot}
    BY <1>1, <1>3, <2>1, DequeuedTimeType
  <2> QED BY <1>1, <1>2, <2>2 DEF EvCancel, SenderTypeOK
<1>5. TimerType(user_timer_fn', user_timer_interval')
  BY <1>2, <1>4, RegisterTimersType DEF EvCancel, SetTimer
<1>6. /\ duplicateAck' \in 0 .. 2 /\ SACKed' \in [Slots -> BOOLEAN]
      /\ msg' \in [Slots -> 0 .. NFrames]
  <2>1. 0 \in 0 .. 2 /\ 0 \in 0 .. NFrames
    BY NFramesAssumption
  <2> QED BY <1>1, <1>2, <2>1 DEF SenderTypeOK
<1>7. RTT_sampled' \in Slots \cup {NoSlot}
  BY <1>1, <1>2 DEF SenderTypeOK, UpdateRTT, SampleWithout
<1>8. /\ CongWin' \in Nat /\ Threshold' \in Nat
      /\ CongestionMode' \in {SlowStart, CongestionAvoidance}
      /\ CongestionWindowBound'
  BY <1>1, <1>2, MaxSendWinType
     DEF SenderInv, SenderTypeOK, WindowInv, CongestionWindowBound, UpdateRTT, Grows,
         SlowStart, CongestionAvoidance, ReleaseFrame
<1>9. /\ LAR' = LAR + 1 /\ LAR < ackTo /\ ackTo <= LFS /\ LFS <= NFrames
      /\ LAR' \in 0 .. NFrames
  BY <1>1, NFramesAssumption DEF SenderInv, SenderTypeOK, WindowInv, AckingInv, ReleaseFrame
<1>10. sendWindowNotFull' \in Nat
  BY <1>1 DEF SenderTypeOK, ReleaseFrame
<1>11. ackTo' \in 0 .. NFrames /\ handler' \in HandlerPlaces
  <2>1. \/ handler' = "rearm" /\ ackTo' = 0
        \/ handler' = "acking" /\ ackTo' = ackTo
    BY DEF ReleaseFrame
  <2>2. ackTo \in 0 .. NFrames
    BY <1>1, Zenon DEF SenderTypeOK
  <2>3. 0 \in 0 .. NFrames
    BY NFramesAssumption
  <2> QED BY <2>1, <2>2, <2>3 DEF HandlerPlaces
<1>12. sends' \in [Slots -> 0 .. 2] /\ withheld' \in [Slots -> Nat]
  BY <1>1, <1>2, ForgetHistoryType
<1>13. SenderTypeOK'
  BY <1>1, <1>3, <1>4, <1>5, <1>6, <1>7, <1>8, <1>9, <1>10, <1>11, <1>12, ZenonT(40)
     DEF SenderTypeOK, ReleaseFrame, TimerType
<1>14. WindowInv'
  BY <1>1, <1>8, <1>9, MaxSendWinType
     DEF SenderInv, SenderTypeOK, WindowInv, WindowBound, ThreadInv, AckingInv,
         ReleaseFrame
<1> QED BY <1>13, <1>14 DEF SenderInv

\* A packet leaves the network.
LEMMA NetLosesStep ==
    ASSUME SenderInv, UNCHANGED senderVarsButNet, dataNet' \subseteq dataNet
    PROVE  SenderInv'
<1>1. SenderTypeOK'
  BY ZenonT(40) DEF senderVarsButNet, SenderInv, SenderTypeOK
<1>2. WindowInv'
  BY DEF senderVarsButNet, SenderInv, WindowInv, CongestionWindowBound, WindowBound,
         ThreadInv, AckingInv
<1> QED BY <1>1, <1>2 DEF SenderInv

-------------------------------------------------------------------------------
(* Every step.                                                             *)

LEMMA SenderInvNext == SenderInv /\ [SenderNext]_senderVars => SenderInv'
<1> SUFFICES ASSUME SenderInv, [SenderNext]_senderVars PROVE SenderInv'
  OBVIOUS
<1>1. CASE Thread
  BY <1>1, SemWaitStep, TestWindowStep, UnregisterTimerStep, NumberFrameStep,
     StoreFrameStep, ScheduleFrameStep DEF Thread
<1>2. CASE Handler
  BY <1>2, ProcTimerStep, CongestionTimerFiresStep, ReleaseFrameStep,
     RearmNothingStep, RearmFirstStep, RearmCongestionStep, RearmFailsStep,
     ReadNothingStep DEF Handler, HandlerRuns
<1>3. CASE \E ack \in Acks, sacks \in SackReports : RecvAck(ack, sacks)
  <2>1. PICK ack \in Acks, sacks \in SackReports : RecvAck(ack, sacks)
    BY <1>3
  <2>2. ack \in 0 .. NFrames /\ sacks \in SUBSET Frames
    BY PacketTypes DEF SenderInv
  <2> QED BY <2>1, <2>2, RecvAckStep
<1>4. CASE UNCHANGED senderVars
  BY <1>4, NetLosesStep DEF senderVars, senderVarsButNet
<1> QED BY <1>1, <1>2, <1>3, <1>4 DEF SenderNext, Terminating

LEMMA SenderInvariant == SenderSpec => []SenderInv
BY SenderInvInit, SenderInvNext, PTL DEF SenderSpec

-------------------------------------------------------------------------------
(* The theorems.                                                           *)

\* Every variable of the sender keeps its type, whatever arrives and whenever
\* the signal comes: in particular no acknowledgement moves LAR past the last
\* frame sent, and the timer waits for a slot of sendQ or for none.
THEOREM SenderTypeCorrect == SenderSpec => []SenderTypeOK
<1>1. SenderInv => SenderTypeOK
  BY DEF SenderInv
<1> QED BY <1>1, SenderInvariant, PTL

\* The congestion window is never zero and never larger than SWP_create allows,
\* and slow start ends when the window passes the threshold, whichever of
\* congestion_timeout, swpFastRecovery and updateRTT came before.
THEOREM CongestionWindowIsBounded == SenderSpec => []CongestionWindowBound
<1>1. SenderInv => CongestionWindowBound
  BY DEF SenderInv, WindowInv
<1> QED BY <1>1, SenderInvariant, PTL

\* LAR never passes LFS and at most MaxSendWin + 1 frames are outstanding, for
\* every interleaving of sendSWP's test of the window with acknowledgements and
\* timeouts that move its ends and change its size.
THEOREM WindowIsBounded == SenderSpec => []WindowBound
<1>1. SenderInv => WindowBound
  BY DEF SenderInv, WindowInv
<1> QED BY <1>1, SenderInvariant, PTL

\* The slots of LAR .. LFS are pairwise different.
LEMMA WindowSlotsDiffer ==
    ASSUME SenderInv, NEW i \in LAR .. LFS, NEW j \in LAR .. LFS, Slot(i) = Slot(j)
    PROVE  i = j
<1>1. LAR \in Nat /\ LFS \in Nat /\ LFS - LAR <= MaxSendWin + 1
  <2>1. LAR \in 0 .. NFrames /\ LFS \in 0 .. NFrames
    BY DEF SenderInv, SenderTypeOK
  <2>2. LFS - LAR <= MaxSendWin + 1
    BY DEF SenderInv, WindowInv, WindowBound
  <2> QED BY <2>1, <2>2
<1>2. MaxSendWin + 1 < SWS
  BY SWSAssumption DEF MaxSendWin
<1>3. i - j < SWS /\ j - i < SWS /\ i \in Nat /\ j \in Nat
  BY <1>1, <1>2, MaxSendWinType, SWSAssumption
<1> QED BY <1>3, SlotsDiffer

\* A frame never shares its slot with another one that may still be sent again.
COROLLARY OutstandingSlotsDiffer ==
    SenderSpec => [](\A i, j \in LAR .. LFS : Slot(i) = Slot(j) => i = j)
<1>1. SenderInv => \A i, j \in LAR .. LFS : Slot(i) = Slot(j) => i = j
  BY WindowSlotsDiffer
<1> QED BY <1>1, SenderInvariant, PTL
================================================================================
