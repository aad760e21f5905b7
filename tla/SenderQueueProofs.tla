--------------------------- MODULE SenderQueueProofs ----------------------------
(***************************************************************************)
(* The sender keeps one saved copy and one queue entry for every frame     *)
(* that is outstanding, and its timer and its semaphore never leave it     *)
(* asleep: for every size of the slot array, every number of frames and    *)
(* every order of packets, signals and steps of the thread.                *)
(***************************************************************************)
EXTENDS SwpSenderProofs

-------------------------------------------------------------------------------
(* The inductive invariant.                                                *)

\* The last frame that is saved in its slot: sendSWP saves it before evSchedule.
Stored == IF pc = "store" THEN LFS - 1 ELSE LFS

NoEntry == EQH = <<>> /\ EQT = <<>>

\* The queues hold one entry for every outstanding frame and none else.
EntriesInv == /\ Separate(EQH, EQT)
              /\ Queued(EQH) \cup Queued(EQT) = {Slot(i) : i \in Outstanding}

\* A slot holds a copy exactly while its frame is saved and not acknowledged.
SavedInv ==
    /\ \A i \in (LAR + 1) .. Stored : msg[Slot(i)] = i
    /\ \A s \in Slots : msg[s] # 0 =>
          msg[s] \in (LAR + 1) .. Stored /\ Slot(msg[s]) = s

\* No frame is acknowledged, or sent by a handler, before it is scheduled.
SentInv == /\ LAR <= Scheduled
           /\ handler = "acking" => ackTo <= Scheduled
           /\ dataNet \subseteq 1 .. Scheduled

\* A sentinel caches a deadline exactly while its queue has an entry.
TimesInv == /\ EQH = <<>> <=> EQH_time = NoSlot
            /\ EQT = <<>> <=> EQT_time = NoSlot

\* The interval is set exactly while there is an entry; and the handler does not
\* go on to the next packet when the thread is between ++LFS and evSchedule and
\* nothing else is outstanding.
IntervalInv ==
    /\ handler \in {"idle", "polling"} => (user_timer_interval = NoSlot <=> NoEntry)
    /\ handler = "rearm" /\ NoEntry => user_timer_interval = NoSlot
    /\ handler = "polling" /\ pc \in {"store", "schedule"} => ~NoEntry

\* TimerTracksEntry holds also where the handler goes on to the next packet.
ArmedInv ==
    handler \in {"idle", "polling"} =>
        /\ user_timer_fn = "proc_timer" => user_timer_interval \in Queued(EQH)
        /\ user_timer_fn = "congestion_timer" =>
              EQT # <<>> /\ user_timer_interval = Last(EQT)

\* The slot that is timed belongs to a frame that is numbered, and has been sent
\* no more than once.
SampleInv ==
    RTT_sampled # NoSlot =>
        /\ \E i \in (LAR + 1) .. LFS : RTT_sampled = Slot(i)
        /\ sends[RTT_sampled] <= 1

\* A frame that its latest timeout has withheld has an event of the second kind,
\* and a frame that is saved has not been sent before evSchedule.
WithheldAtMost(s) == IF event_type[s] = SendTimeoutOnTimeout THEN 1 ELSE 0

HistoryInv ==
    /\ \A i \in Outstanding : withheld[Slot(i)] <= WithheldAtMost(Slot(i))
    /\ pc = "schedule" => sends[Slot(LFS)] = 0 /\ withheld[Slot(LFS)] = 0

\* WakeupPending holds also inside a handler run.
TokenInv == pc = "sem_wait" /\ LAR = LFS => sendWindowNotFull > 0

QueueInv == /\ EntriesInv /\ SavedInv /\ SentInv
            /\ TimesInv /\ IntervalInv /\ ArmedInv
            /\ SampleInv /\ HistoryInv /\ TokenInv

-------------------------------------------------------------------------------
(* Consequences of the invariant.                                          *)

USE DEF threadVars, handlerVars, congestionVars, historyVars, slotVars, queueVars, timerVars

\* The ends of the window, as numbers.
LEMMA WindowNumbers ==
    ASSUME SenderInv
    PROVE  /\ LAR \in Nat /\ LFS \in Nat /\ LAR <= LFS /\ LFS <= NFrames
           /\ LFS - LAR < SWS
           /\ Scheduled \in Int /\ Stored \in Int
           /\ Scheduled <= Stored /\ Stored <= LFS /\ LFS <= Scheduled + 1
<1>1. LAR \in 0 .. NFrames /\ LFS \in 0 .. NFrames
  BY DEF SenderInv, SenderTypeOK
<1>2. LAR <= LFS /\ LFS - LAR <= MaxSendWin + 1
  BY DEF SenderInv, WindowInv, WindowBound
<1>3. MaxSendWin + 1 < SWS
  BY SWSAssumption DEF MaxSendWin
<1>4. LAR \in Nat /\ LFS \in Nat /\ LAR <= LFS /\ LFS <= NFrames /\ LFS - LAR < SWS
  BY <1>1, <1>2, <1>3, MaxSendWinType, SWSAssumption
<1> QED BY <1>4 DEF Scheduled, Stored

\* There is an entry exactly while a frame is outstanding.
LEMMA EntriesOutstanding ==
    ASSUME SenderInv, EntriesInv
    PROVE  NoEntry <=> Outstanding = {}
<1>1. EQH \in Seq(Slots) /\ EQT \in Seq(Slots)
  BY DEF SenderInv, SenderTypeOK
<1>2. ASSUME NoEntry PROVE Outstanding = {}
  <2>1. Queued(EQH) = {} /\ Queued(EQT) = {}
    BY <1>2 DEF NoEntry, Queued, ToSet
  <2> QED BY <2>1 DEF EntriesInv
<1>3. ASSUME Outstanding = {} PROVE NoEntry
  <2>1. Queued(EQH) = {} /\ Queued(EQT) = {}
    BY <1>3 DEF EntriesInv
  <2> QED BY <1>1, <2>1, QueueEntries DEF NoEntry
<1> QED BY <1>2, <1>3

\* The copy in the slot of an entry is the frame that is outstanding.
LEMMA EntryFrame ==
    ASSUME SenderInv, EntriesInv, SavedInv,
           NEW s \in Queued(EQH) \cup Queued(EQT)
    PROVE  s \in Slots /\ msg[s] \in Outstanding /\ Slot(msg[s]) = s
<1>1. PICK i \in Outstanding : s = Slot(i)
  BY DEF EntriesInv
<1>2. i \in (LAR + 1) .. Stored /\ i \in Nat
  BY <1>1, WindowNumbers DEF Outstanding
<1> QED BY <1>1, <1>2, SlotType DEF SavedInv

\* What a step that leaves the queues, the slots and the window alone keeps.
LEMMA EntriesKept ==
    ASSUME EntriesInv, SavedInv, TimesInv, UNCHANGED <<LAR, queueVars, msg>>,
           Scheduled' = Scheduled, Stored' = Stored
    PROVE  EntriesInv' /\ SavedInv' /\ TimesInv'
<1>1. EntriesInv'
  BY DEF EntriesInv, Outstanding
<1>2. SavedInv'
  BY DEF SavedInv
<1>3. TimesInv'
  BY DEF TimesInv
<1> QED BY <1>1, <1>2, <1>3

LEMMA HistoryKept ==
    ASSUME HistoryInv, UNCHANGED <<LAR, historyVars, event_type>>, Scheduled' = Scheduled,
           pc' = "schedule" => pc = "schedule" /\ LFS' = LFS
    PROVE  HistoryInv'
BY DEF HistoryInv, Outstanding, WithheldAtMost

\* A transmission resets the slots it sends and counts on those it does not send.
LEMMA TransmitCounts ==
    ASSUME SenderTypeOK, NEW frames, NEW timeouts, Transmit(frames, timeouts), NEW s \in Slots
    PROVE  /\ (\E i \in frames \ {0} : Slot(i) = s) => withheld'[s] = 0
           /\ (\A i \in frames \ {0} : Slot(i) # s) =>
                 /\ sends'[s] = sends[s]
                 /\ withheld'[s] = IF s \in timeouts THEN withheld[s] + 1 ELSE withheld[s]
BY DEF SenderTypeOK, Transmit

\* The slot of a frame that is not scheduled yet has no entry.
LEMMA LastSlotIsFree ==
    ASSUME SenderInv, EntriesInv, pc = "schedule"
    PROVE  Slot(LFS) \notin Queued(EQH) \cup Queued(EQT)
<1>1. ASSUME NEW i \in Outstanding PROVE Slot(i) # Slot(LFS)
  <2>1. i \in LAR .. LFS /\ LFS \in LAR .. LFS /\ i # LFS
    BY WindowNumbers DEF Outstanding, Scheduled
  <2> QED BY <2>1, WindowSlotsDiffer
<1> QED BY <1>1 DEF EntriesInv

-------------------------------------------------------------------------------
(* The initial states.                                                     *)

LEMMA QueueInvInit == SenderInit => QueueInv
<1> SUFFICES ASSUME SenderInit PROVE QueueInv
  OBVIOUS
<1>1. EQH = <<>> /\ EQT = <<>> /\ Len(<<>>) = 0 /\ Queued(<<>>) = {}
  BY DEF SenderInit, Queued, ToSet
<1>2. Scheduled = 0 /\ Stored = 0 /\ LAR = 0 /\ Outstanding = {}
  BY DEF SenderInit, Scheduled, Stored, Outstanding
<1>3. EntriesInv
  BY <1>1, <1>2 DEF EntriesInv, Separate, Distinct
<1>4. SavedInv /\ SentInv
  BY <1>2 DEF SenderInit, SavedInv, SentInv
<1>5. TimesInv /\ IntervalInv /\ ArmedInv /\ SampleInv /\ TokenInv
  BY DEF SenderInit, TimesInv, IntervalInv, ArmedInv, SampleInv, TokenInv, NoEntry
<1>6. HistoryInv
  BY <1>2 DEF SenderInit, HistoryInv
<1> QED BY <1>3, <1>4, <1>5, <1>6 DEF QueueInv

-------------------------------------------------------------------------------
(* The steps of the thread.                                                *)

LEMMA SemWaitEntries == SenderInv /\ QueueInv /\ SemWait => QueueInv'
<1> SUFFICES ASSUME SenderInv, QueueInv, SemWait PROVE QueueInv'
  OBVIOUS
<1>1. Scheduled' = Scheduled /\ Stored' = Stored
  BY DEF SemWait, ThreadAt, Scheduled, Stored
<1>2. EntriesInv' /\ SavedInv' /\ TimesInv'
  BY <1>1, EntriesKept DEF QueueInv, SemWait
<1>3. SentInv' /\ IntervalInv' /\ ArmedInv' /\ SampleInv' /\ TokenInv'
  BY <1>1 DEF QueueInv, SentInv, IntervalInv, ArmedInv, SampleInv, TokenInv, NoEntry,
              SemWait, ThreadAt
<1>4. HistoryInv'
  BY <1>1, HistoryKept DEF QueueInv, SemWait
<1> QED BY <1>2, <1>3, <1>4 DEF QueueInv

\* The token that is thrown away was not needed: LFS - LAR > CongWin >= 1.
LEMMA TestWindowEntries == SenderInv /\ QueueInv /\ TestWindow => QueueInv'
<1> SUFFICES ASSUME SenderInv, QueueInv, TestWindow PROVE QueueInv'
  OBVIOUS
<1>1. Scheduled' = Scheduled /\ Stored' = Stored
  BY DEF TestWindow, ThreadAt, Scheduled, Stored
<1>2. EntriesInv' /\ SavedInv' /\ TimesInv'
  BY <1>1, EntriesKept DEF QueueInv, TestWindow
<1>3. SentInv' /\ IntervalInv' /\ ArmedInv' /\ SampleInv'
  BY <1>1 DEF QueueInv, SentInv, IntervalInv, ArmedInv, SampleInv, NoEntry,
              TestWindow, ThreadAt
<1>4. TokenInv'
  <2>1. SUFFICES ASSUME pc' = "sem_wait" PROVE LAR # LFS
    BY DEF TokenInv, TestWindow
  <2>2. WindowSize(CongWin, LAR, LFS) < 0
    BY <2>1 DEF TestWindow
  <2>3. CongWin \in 1 .. MaxSendWin
    BY DEF SenderInv, WindowInv, CongestionWindowBound
  <2> QED BY <2>2, <2>3, WindowNumbers DEF WindowSize
<1>5. HistoryInv'
  BY <1>1, HistoryKept DEF QueueInv, TestWindow
<1> QED BY <1>2, <1>3, <1>4, <1>5 DEF QueueInv

\* Only the function is cleared, not the interval.
LEMMA UnregisterTimerEntries == SenderInv /\ QueueInv /\ UnregisterTimer => QueueInv'
<1> SUFFICES ASSUME SenderInv, QueueInv, UnregisterTimer PROVE QueueInv'
  OBVIOUS
<1>1. Scheduled' = Scheduled /\ Stored' = Stored
  BY DEF UnregisterTimer, ThreadAt, Scheduled, Stored
<1>2. EntriesInv' /\ SavedInv' /\ TimesInv'
  BY <1>1, EntriesKept DEF QueueInv, UnregisterTimer
<1>3. SentInv' /\ IntervalInv' /\ ArmedInv' /\ SampleInv' /\ TokenInv'
  BY <1>1 DEF QueueInv, SentInv, IntervalInv, ArmedInv, SampleInv, TokenInv, NoEntry,
              UnregisterTimer, ThreadAt
<1>4. HistoryInv'
  BY <1>1, HistoryKept DEF QueueInv, UnregisterTimer
<1> QED BY <1>2, <1>3, <1>4 DEF QueueInv

LEMMA NumberFrameEntries == SenderInv /\ QueueInv /\ NumberFrame => QueueInv'
<1> SUFFICES ASSUME SenderInv, QueueInv, NumberFrame PROVE QueueInv'
  OBVIOUS
<1>1. Scheduled' = Scheduled /\ Stored' = Stored
  BY WindowNumbers DEF NumberFrame, ThreadAt, Scheduled, Stored
<1>2. EntriesInv' /\ SavedInv' /\ TimesInv'
  BY <1>1, EntriesKept DEF QueueInv, NumberFrame
<1>3. SentInv' /\ IntervalInv' /\ ArmedInv' /\ TokenInv'
  BY <1>1 DEF QueueInv, SentInv, IntervalInv, ArmedInv, TokenInv, NoEntry,
              NumberFrame, ThreadAt
<1>4. SampleInv'
  <2>1. LFS' = LFS + 1 /\ UNCHANGED <<LAR, RTT_sampled, sends>>
    BY DEF NumberFrame
  <2>2. \A i \in (LAR + 1) .. LFS : i \in (LAR' + 1) .. LFS'
    BY <2>1, WindowNumbers
  <2> QED BY <2>1, <2>2 DEF QueueInv, SampleInv
<1>5. HistoryInv'
  BY <1>1, HistoryKept DEF QueueInv, NumberFrame
<1> QED BY <1>2, <1>3, <1>4, <1>5 DEF QueueInv

\* The frame's slot is not one of a frame that is outstanding.
LEMMA StoreFrameEntries == SenderInv /\ QueueInv /\ StoreFrame => QueueInv'
<1> SUFFICES ASSUME SenderInv, QueueInv, StoreFrame PROVE QueueInv'
  OBVIOUS
<1>1. /\ Scheduled' = Scheduled /\ Scheduled = LFS - 1
      /\ Stored' = LFS /\ Stored = LFS - 1
  BY DEF StoreFrame, ThreadAt, Scheduled, Stored
<1>2. /\ LAR \in Nat /\ LFS \in Nat /\ LAR <= LFS - 1 /\ Slot(LFS) \in Slots
      /\ msg \in [Slots -> 0 .. NFrames]
  BY <1>1, WindowNumbers, SlotType DEF QueueInv, SentInv, SenderInv, SenderTypeOK
<1>3. EntriesInv' /\ TimesInv'
  BY <1>1 DEF QueueInv, EntriesInv, TimesInv, Outstanding, StoreFrame
<1>4. msg' = [msg EXCEPT ![Slot(LFS)] = LFS] /\ LAR' = LAR
  BY DEF StoreFrame
<1>5. \A i \in (LAR + 1) .. (LFS - 1) : Slot(i) # Slot(LFS) /\ Slot(i) \in Slots
  <2> SUFFICES ASSUME NEW i \in (LAR + 1) .. (LFS - 1)
               PROVE  Slot(i) # Slot(LFS) /\ Slot(i) \in Slots
    OBVIOUS
  <2>1. i \in LAR .. LFS /\ LFS \in LAR .. LFS /\ i \in Nat /\ i # LFS
    BY <1>2
  <2> QED BY <2>1, WindowSlotsDiffer, SlotType
<1>6. SavedInv'
  <2>1. ASSUME NEW i \in (LAR + 1) .. LFS PROVE msg'[Slot(i)] = i
    <3>1. CASE i = LFS
      BY <1>2, <1>4, <3>1
    <3>2. CASE i # LFS
      <4>1. i \in (LAR + 1) .. (LFS - 1)
        BY <1>2, <3>2
      <4>2. msg[Slot(i)] = i
        BY <1>1, <4>1 DEF QueueInv, SavedInv
      <4> QED BY <1>2, <1>4, <1>5, <4>1, <4>2
    <3> QED BY <3>1, <3>2
  <2>2. ASSUME NEW s \in Slots, msg'[s] # 0
        PROVE  msg'[s] \in (LAR + 1) .. LFS /\ Slot(msg'[s]) = s
    <3>1. CASE s = Slot(LFS)
      BY <1>2, <1>4, <3>1
    <3>2. CASE s # Slot(LFS)
      <4>1. msg'[s] = msg[s]
        BY <1>2, <1>4, <3>2
      <4>2. msg[s] \in (LAR + 1) .. (LFS - 1) /\ Slot(msg[s]) = s
        BY <1>1, <2>2, <4>1 DEF QueueInv, SavedInv
      <4> QED BY <1>2, <4>1, <4>2
    <3> QED BY <3>1, <3>2
  <2> QED BY <1>1, <1>4, <2>1, <2>2 DEF SavedInv
<1>7. \A r \in Slots : /\ sends'[r] = IF r = Slot(LFS) THEN 0 ELSE sends[r]
                       /\ withheld'[r] = IF r = Slot(LFS) THEN 0 ELSE withheld[r]
  BY <1>2 DEF SenderInv, SenderTypeOK, StoreFrame, ForgetHistory
<1>8. SampleInv'
  <2>1. CASE RTT_sampled = NoSlot
    <3>1. RTT_sampled' = Slot(LFS) /\ LFS' = LFS
      BY <2>1 DEF StoreFrame
    <3>2. LFS \in (LAR + 1) .. LFS /\ sends'[Slot(LFS)] = 0
      BY <1>2, <1>7
    <3> QED BY <1>4, <3>1, <3>2 DEF SampleInv
  <2>2. CASE RTT_sampled # NoSlot
    <3>1. RTT_sampled' = RTT_sampled /\ LFS' = LFS /\ RTT_sampled \in Slots
      BY <2>2 DEF StoreFrame, SenderInv, SenderTypeOK
    <3>2. sends'[RTT_sampled] <= 1
      BY <1>7, <2>2, <3>1 DEF QueueInv, SampleInv
    <3> QED BY <1>4, <2>2, <3>1, <3>2 DEF QueueInv, SampleInv
  <2> QED BY <2>1, <2>2
<1>9. HistoryInv'
  <2>1. Outstanding' = (LAR + 1) .. (LFS - 1) /\ Outstanding = (LAR + 1) .. (LFS - 1)
    BY <1>1, <1>4 DEF Outstanding
  <2>2. \A i \in Outstanding : withheld'[Slot(i)] = withheld[Slot(i)]
    BY <1>5, <1>7, <2>1
  <2>3. UNCHANGED <<LFS, event_type>>
    BY DEF StoreFrame
  <2>4. sends'[Slot(LFS)] = 0 /\ withheld'[Slot(LFS)] = 0
    BY <1>2, <1>7
  <2> QED BY <2>1, <2>2, <2>3, <2>4 DEF QueueInv, HistoryInv, WithheldAtMost
<1>10. SentInv' /\ IntervalInv' /\ ArmedInv' /\ TokenInv'
  BY <1>1 DEF QueueInv, SentInv, IntervalInv, ArmedInv, TokenInv, NoEntry,
              StoreFrame, ThreadAt
<1> QED BY <1>3, <1>6, <1>8, <1>9, <1>10 DEF QueueInv

\* evSchedule gives the frame an entry of its own, and the timer waits for the
\* last one of EQ_Head.
LEMMA ScheduleFrameEntries == SenderInv /\ QueueInv /\ ScheduleFrame => QueueInv'
<1> SUFFICES ASSUME SenderInv, QueueInv, ScheduleFrame PROVE QueueInv'
  OBVIOUS
<1> DEFINE s == Slot(LFS)
<1>1. /\ Scheduled = LFS - 1 /\ Scheduled' = LFS
      /\ Stored' = LFS /\ Stored = LFS
  BY DEF ScheduleFrame, ThreadAt, Scheduled, Stored
<1>2. LAR \in Nat /\ LFS \in Nat /\ LAR <= LFS - 1 /\ LFS \in LAR .. LFS /\ s \in Slots
  BY <1>1, WindowNumbers, SlotType DEF QueueInv, SentInv
<1>3. EQH \in Seq(Slots) /\ EQT \in Seq(Slots) /\ event_type \in [Slots -> EventTypes]
  BY DEF SenderInv, SenderTypeOK
<1>4. /\ EQH' \in QueueSend(EQH, event_type, s) /\ EQH_time' = LastTime(EQH')
      /\ event_type' = [event_type EXCEPT ![s] = SendTimeout]
      /\ user_timer_fn' = "proc_timer" /\ user_timer_interval' = EQH_time'
      /\ UNCHANGED <<LAR, LFS, EQT, EQT_time, msg, RTT_sampled, handler, ackTo>>
  BY DEF ScheduleFrame, EvSchedule, SetTimer, Timer
<1>5. s \notin Queued(EQH) \cup Queued(EQT)
  <2>1. ASSUME NEW i \in Outstanding PROVE Slot(i) # s
    <3>1. i \in LAR .. LFS /\ i # LFS
      BY <1>1, <1>2 DEF Outstanding
    <3> QED BY <1>2, <3>1, WindowSlotsDiffer
  <2> QED BY <2>1 DEF QueueInv, EntriesInv
<1>6. Outstanding' = Outstanding \cup {LFS}
  BY <1>1, <1>2, <1>4 DEF Outstanding
<1> HIDE DEF s
<1>7. /\ EQH' \in Seq(Slots) /\ EQH' # <<>>
      /\ Queued(EQH') = Queued(EQH) \cup {s} /\ Distinct(EQH')
  <2>1. Distinct(EQH)
    BY DEF QueueInv, EntriesInv, Separate
  <2> QED BY <1>2, <1>3, <1>4, <1>5, <2>1, QueueSendType, QueueSendEntries
<1>8. EQH_time' = Last(EQH') /\ EQH_time' \in Queued(EQH') /\ EQH_time' \in Slots
  BY <1>4, <1>7, QueueEntries DEF LastTime
<1>9. EntriesInv'
  <2>1. Separate(EQH', EQT')
    BY <1>4, <1>5, <1>7 DEF QueueInv, EntriesInv, Separate
  <2>2. Queued(EQH') \cup Queued(EQT') = {Slot(i) : i \in Outstanding'}
    BY <1>4, <1>6, <1>7 DEF QueueInv, EntriesInv, s
  <2> QED BY <2>1, <2>2 DEF EntriesInv
<1>10. SavedInv'
  BY <1>1, <1>4 DEF QueueInv, SavedInv
<1>11. SentInv'
  <2>1. LAR' <= Scheduled' /\ handler' # "acking"
    BY <1>1, <1>2, <1>4 DEF ScheduleFrame, ThreadAt
  <2>2. dataNet' \subseteq dataNet \cup {LFS}
    BY CarriedType DEF ScheduleFrame, Transmit
  <2>3. \A i \in 1 .. Scheduled : i \in 1 .. Scheduled'
    BY <1>1, <1>2
  <2>4. LFS \in 1 .. Scheduled'
    BY <1>1, <1>2
  <2> QED BY <2>1, <2>2, <2>3, <2>4 DEF QueueInv, SentInv
<1>12. NoSlot \notin Slots
  BY SWSAssumption DEF NoSlot, Slots
<1>13. TimesInv'
  BY <1>4, <1>7, <1>8, <1>12 DEF QueueInv, TimesInv
<1>14. IntervalInv' /\ ArmedInv'
  <2>1. handler' = "idle"
    BY <1>4 DEF ScheduleFrame, ThreadAt
  <2> QED BY <1>4, <1>7, <1>8, <1>12, <2>1 DEF IntervalInv, ArmedInv, NoEntry
<1>15. /\ \A r \in Slots : r # s => sends'[r] = sends[r] /\ withheld'[r] = withheld[r]
       /\ sends'[s] = 1 /\ withheld'[s] = 0
  <2>1. Transmit({LFS}, {}) /\ sends[s] = 0 /\ LFS # 0 /\ Slot(LFS) = s
    BY <1>2 DEF ScheduleFrame, ThreadAt, QueueInv, HistoryInv, s
  <2> QED BY <1>2, <2>1 DEF Transmit
<1>16. SampleInv'
  <2>1. SUFFICES ASSUME RTT_sampled # NoSlot PROVE sends'[RTT_sampled] <= 1
    BY <1>4 DEF QueueInv, SampleInv
  <2>2. RTT_sampled \in Slots /\ sends[RTT_sampled] <= 1
    BY <2>1 DEF SenderInv, SenderTypeOK, QueueInv, SampleInv
  <2> QED BY <1>15, <2>2
<1>17. HistoryInv'
  <2>1. ASSUME NEW i \in Outstanding PROVE withheld'[Slot(i)] <= WithheldAtMost(Slot(i))'
    <3>1. i \in Nat /\ Slot(i) # s
      BY <1>5, WindowNumbers DEF Outstanding, QueueInv, EntriesInv
    <3>2. Slot(i) \in Slots
      BY <3>1, SlotType
    <3>3. withheld'[Slot(i)] = withheld[Slot(i)] /\ event_type'[Slot(i)] = event_type[Slot(i)]
      BY <1>3, <1>4, <1>15, <3>1, <3>2
    <3> QED BY <3>3 DEF QueueInv, HistoryInv, WithheldAtMost
  <2>2. withheld'[Slot(LFS)] <= WithheldAtMost(Slot(LFS))'
    BY <1>15 DEF WithheldAtMost, s
  <2>3. pc' # "schedule"
    BY DEF ScheduleFrame
  <2> QED BY <1>4, <1>6, <2>1, <2>2, <2>3 DEF HistoryInv
<1>18. TokenInv'
  BY <1>2, <1>4 DEF TokenInv
<1> QED BY <1>9, <1>10, <1>11, <1>13, <1>14, <1>16, <1>17, <1>18 DEF QueueInv

-------------------------------------------------------------------------------
(* The steps of the signal handler.                                        *)

LEMMA NoSlotIsNone == NoSlot \notin Slots
BY SWSAssumption DEF NoSlot, Slots

\* congestion_timer moves entries and loses none; the frames it sends are
\* outstanding, and it gives up the sample of every one of them.
LEMMA CongestionTimerEntries ==
    ASSUME SenderInv, EntriesInv, SavedInv, SampleInv, HistoryInv,
           NEW h \in Seq(Slots), NEW t \in Seq(Slots), Separate(h, t),
           Queued(h) \cup Queued(t) = Queued(EQH) \cup Queued(EQT),
           CongestionTimer(t, h), UNCHANGED <<pc, LAR, LFS>>
    PROVE  /\ Separate(EQH', EQT')
           /\ Queued(EQH') \cup Queued(EQT') = Queued(EQH) \cup Queued(EQT)
           /\ EQH_time' = Last(EQH') /\ EQH_time' \in Queued(EQH') /\ EQH' # <<>>
           /\ EQT' # <<>> => EQT_time' = Last(EQT')
           /\ TimesInv'
           /\ dataNet' \subseteq dataNet \cup Outstanding
           /\ SampleInv' /\ HistoryInv'
<1>1. PICK n \in CongestionStart(t, event_type, HighestSacked) :
          LET batch == SubSeq(t, n, Len(t))
          IN  /\ EQT' = SubSeq(t, 1, n - 1)
              /\ EQH' = QueueRetransmit(h, batch)
              /\ EQT_time' = LastTime(EQT') /\ EQH_time' = LastTime(EQH')
              /\ SwpTimeout(Queued(batch))
              /\ RTT_sampled' = SampleWithout(Queued(batch))
  BY DEF CongestionTimer
<1> DEFINE batch == SubSeq(t, n, Len(t))
<1>2. /\ EQT' \in Seq(Slots) /\ EQH' \in Seq(Slots) /\ EQH' # <<>> /\ batch \in Seq(Slots)
  BY <1>1, BatchType
<1>3. /\ Separate(EQH', EQT')
      /\ Queued(EQH') = Queued(batch) \cup Queued(h)
      /\ Queued(t) = Queued(EQT') \cup Queued(batch)
  BY <1>1, BatchEntries
<1> HIDE DEF batch
<1>4. /\ EQT_time' = LastTime(EQT') /\ EQH_time' = LastTime(EQH')
      /\ SwpTimeout(Queued(batch)) /\ RTT_sampled' = SampleWithout(Queued(batch))
  BY <1>1 DEF batch
<1>5. Queued(EQH') \cup Queued(EQT') = Queued(EQH) \cup Queued(EQT)
  BY <1>3
<1>6. /\ EQH_time' = Last(EQH') /\ EQH_time' \in Queued(EQH') /\ EQH_time' \in Slots
      /\ EQT' # <<>> => EQT_time' = Last(EQT') /\ EQT_time' \in Slots
      /\ EQT' = <<>> => EQT_time' = NoSlot
  BY <1>2, <1>4, QueueEntries DEF LastTime
<1>7. TimesInv'
  BY <1>2, <1>6, NoSlotIsNone DEF TimesInv
<1>8. Queued(batch) \subseteq Queued(EQH) \cup Queued(EQT)
  BY <1>3
<1>9. dataNet' \subseteq dataNet \cup Outstanding
  <2> DEFINE sent == {msg[s] : s \in {e \in Queued(batch) : ~SACKed'[e]}} \ {0}
  <2>1. dataNet' = Carried(dataNet, sent)
    BY <1>4 DEF SwpTimeout, Transmit
  <2>2. sent \subseteq Outstanding
    BY <1>8, EntryFrame
  <2> HIDE DEF sent
  <2> QED BY <2>1, <2>2, CarriedType
<1> DEFINE frames == {msg[s] : s \in {e \in Queued(batch) : ~SACKed'[e]}}
\* A frame goes out from the slot whose timeout is handled, and from no other.
<1>10. \A r \in Slots :
          /\ r \in Queued(batch) /\ ~SACKed'[r] => \E i \in frames \ {0} : Slot(i) = r
          /\ r \notin Queued(batch) => \A i \in frames \ {0} : Slot(i) # r
  <2>1. \A e \in Queued(batch) : msg[e] \in Outstanding /\ Slot(msg[e]) = e
    BY <1>8, EntryFrame
  <2>2. 0 \notin Outstanding
    BY WindowNumbers DEF Outstanding
  <2>3. ASSUME NEW r \in Slots, r \in Queued(batch), ~SACKed'[r]
        PROVE  \E i \in frames \ {0} : Slot(i) = r
    <3>1. msg[r] \in frames \ {0} /\ Slot(msg[r]) = r
      BY <2>1, <2>2, <2>3
    <3> QED BY <3>1
  <2>4. ASSUME NEW r \in Slots, r \notin Queued(batch), NEW i \in frames \ {0}
        PROVE  Slot(i) # r
    BY <2>1, <2>4
  <2> QED BY <2>3, <2>4
<1>11. Transmit(frames, Queued(batch))
  BY <1>4 DEF SwpTimeout
<1> HIDE DEF frames
<1>12. \A r \in Slots :
          /\ r \in Queued(batch) /\ ~SACKed'[r] => withheld'[r] = 0
          /\ r \notin Queued(batch) => sends'[r] = sends[r] /\ withheld'[r] = withheld[r]
  <2>1. SenderTypeOK
    BY DEF SenderInv
  <2> QED BY <1>10, <1>11, <2>1, TransmitCounts
<1>13. SampleInv'
  <2>1. SUFFICES ASSUME RTT_sampled' # NoSlot PROVE SampleInv'
    BY DEF SampleInv
  <2>2. RTT_sampled' = RTT_sampled /\ RTT_sampled \notin Queued(batch) /\ RTT_sampled # NoSlot
    BY <1>4, <2>1 DEF SampleWithout
  <2>3. RTT_sampled \in Slots
    BY <2>2 DEF SenderInv, SenderTypeOK
  <2>4. sends'[RTT_sampled] = sends[RTT_sampled]
    BY <1>12, <2>2, <2>3
  <2> QED BY <2>2, <2>4 DEF SampleInv
<1>14. HistoryInv'
  <2>1. Outstanding' = Outstanding
    BY DEF Outstanding, Scheduled
  <2>2. ASSUME NEW i \in Outstanding PROVE withheld'[Slot(i)] <= WithheldAtMost(Slot(i))'
    <3> DEFINE r == Slot(i)
    <3>1. r \in Slots
      BY WindowNumbers, SlotType DEF Outstanding
    <3>2. withheld[r] \in Nat /\ withheld[r] <= WithheldAtMost(r)
      BY <3>1 DEF HistoryInv, SenderInv, SenderTypeOK
    <3> HIDE DEF r
    <3>3. CASE r \notin Queued(batch)
      <4>1. event_type'[r] = event_type[r] /\ withheld'[r] = withheld[r]
        BY <1>4, <1>12, <3>1, <3>3 DEF SwpTimeout
      <4> QED BY <3>2, <4>1 DEF WithheldAtMost, r
    <3>4. CASE r \in Queued(batch) /\ event_type[r] = SendTimeoutOnTimeout
      <4>1. ~SACKed'[r] /\ event_type'[r] = SendTimeoutOnTimeout
        BY <1>4, <3>1, <3>4 DEF SwpTimeout
      <4>2. withheld'[r] = 0
        BY <1>12, <3>1, <3>4, <4>1
      <4> QED BY <4>1, <4>2 DEF WithheldAtMost, r
    <3>5. CASE r \in Queued(batch) /\ event_type[r] # SendTimeoutOnTimeout
      <4>1. withheld[r] = 0 /\ event_type'[r] = SendTimeoutOnTimeout
        BY <1>4, <3>1, <3>2, <3>5 DEF SwpTimeout, WithheldAtMost
      <4>2. withheld'[r] <= 1
        BY <1>11, <3>1, <4>1 DEF Transmit
      <4> QED BY <4>1, <4>2 DEF WithheldAtMost, r
    <3> QED BY <3>3, <3>4, <3>5
  <2>3. ASSUME pc = "schedule"
        PROVE  sends'[Slot(LFS)] = 0 /\ withheld'[Slot(LFS)] = 0
    <3>1. Slot(LFS) \notin Queued(batch)
      BY <1>8, <2>3, LastSlotIsFree
    <3>2. Slot(LFS) \in Slots
      BY SlotsInUse DEF SenderInv
    <3> QED BY <1>12, <2>3, <3>1, <3>2 DEF HistoryInv
  <2> QED BY <2>1, <2>2, <2>3 DEF HistoryInv
<1> QED BY <1>2, <1>3, <1>5, <1>6, <1>7, <1>9, <1>13, <1>14

\* What every step with a batch keeps: the window and the copies are the same.
LEMMA BatchKept ==
    ASSUME SenderInv, QueueInv,
           NEW h \in Seq(Slots), NEW t \in Seq(Slots), Separate(h, t),
           Queued(h) \cup Queued(t) = Queued(EQH) \cup Queued(EQT),
           CongestionTimer(t, h), handler' = "polling",
           UNCHANGED <<threadVars, LAR, sendWindowNotFull, msg>>
    PROVE  /\ EntriesInv' /\ SavedInv' /\ SentInv'
           /\ TimesInv' /\ SampleInv' /\ HistoryInv' /\ TokenInv' /\ ~NoEntry'
           /\ EQH_time' = Last(EQH') /\ EQH_time' \in Queued(EQH') /\ EQH_time' \in Slots
           /\ EQT' # <<>> => EQT_time' = Last(EQT') /\ EQT_time' \in Slots
           /\ EQT' = <<>> => EQT_time' = NoSlot
<1>1. /\ Separate(EQH', EQT')
      /\ Queued(EQH') \cup Queued(EQT') = Queued(EQH) \cup Queued(EQT)
      /\ EQH_time' = Last(EQH') /\ EQH_time' \in Queued(EQH') /\ EQH' # <<>>
      /\ EQT' # <<>> => EQT_time' = Last(EQT')
      /\ TimesInv'
      /\ dataNet' \subseteq dataNet \cup Outstanding
      /\ SampleInv' /\ HistoryInv'
  BY CongestionTimerEntries DEF QueueInv
<1>2. Scheduled' = Scheduled /\ Stored' = Stored /\ Outstanding' = Outstanding
  BY DEF Scheduled, Stored, Outstanding
<1>3. EntriesInv'
  BY <1>1, <1>2 DEF QueueInv, EntriesInv
<1>4. SavedInv'
  BY <1>2 DEF QueueInv, SavedInv
<1>5. SentInv'
  <2>1. Outstanding \subseteq 1 .. Scheduled
    BY WindowNumbers DEF Outstanding
  <2> QED BY <1>1, <1>2, <2>1 DEF QueueInv, SentInv
<1>6. TokenInv'
  BY DEF QueueInv, TokenInv
<1>7. /\ EQH_time' \in Slots
      /\ EQT' # <<>> => EQT_time' \in Slots
      /\ EQT' = <<>> => EQT_time' = NoSlot
  <2>1. /\ EQH_time' \in Slots \cup {NoSlot} /\ EQT_time' \in Slots \cup {NoSlot}
    BY CongestionTimerType DEF SenderInv
  <2> QED BY <1>1, <2>1 DEF TimesInv
<1> QED BY <1>1, <1>3, <1>4, <1>5, <1>6, <1>7 DEF NoEntry

\* register_timers on queues that are not both empty arms the timer for one of
\* their last entries.
LEMMA RegisterTimersTracks ==
    ASSUME NEW headTime \in Slots, NEW tailTime \in Slots \cup {NoSlot},
           NEW timer \in RegisterTimers(headTime, tailTime)
    PROVE  /\ timer.at \in Slots
           /\ \/ timer.fn = "proc_timer" /\ timer.at = headTime
              \/ timer.fn = "congestion_timer" /\ timer.at = tailTime /\ tailTime # NoSlot
<1>1. headTime # NoSlot
  BY NoSlotIsNone
<1>2. \/ timer = Timer("congestion_timer", tailTime) /\ tailTime # NoSlot
      \/ timer = Timer("proc_timer", headTime)
  BY <1>1 DEF RegisterTimers
<1> QED BY <1>2 DEF Timer

\* What the two queues hold before proc_timer's batch: everything is in EQ_Tail.
LEMMA ExpireEntries ==
    ASSUME SenderInv, EntriesInv
    PROVE  /\ <<>> \in Seq(Slots) /\ Expire(EQT, EQH) \in Seq(Slots)
           /\ Separate(<<>>, Expire(EQT, EQH))
           /\ Queued(<<>>) \cup Queued(Expire(EQT, EQH)) = Queued(EQH) \cup Queued(EQT)
<1>1. EQH \in Seq(Slots) /\ EQT \in Seq(Slots)
  BY DEF SenderInv, SenderTypeOK
<1>2. <<>> \in Seq(Slots) /\ Len(<<>>) = 0 /\ Queued(<<>>) = {}
  BY DEF Queued, ToSet
<1>3. Separate(EQT, EQH)
  BY DEF EntriesInv, Separate
<1>4. /\ EQT \o EQH \in Seq(Slots)
      /\ Queued(EQT \o EQH) = Queued(EQT) \cup Queued(EQH)
      /\ Distinct(EQT \o EQH)
  BY <1>1, <1>3, ConcatEntries
<1>5. Distinct(<<>>)
  BY <1>2 DEF Distinct
<1> QED BY <1>2, <1>4, <1>5 DEF Expire, Separate

\* timer() clears the function again when the deadline is the one that has just
\* passed; the interval stays.
LEMMA ProcTimerEntries == SenderInv /\ QueueInv /\ ProcTimer => QueueInv'
<1> SUFFICES ASSUME SenderInv, QueueInv, ProcTimer PROVE QueueInv'
  OBVIOUS
<1>1. /\ CongestionTimer(Expire(EQT, EQH), <<>>) /\ handler' = "polling"
      /\ UNCHANGED <<threadVars, LAR, sendWindowNotFull, msg>>
      /\ user_timer_interval # NoSlot
  BY DEF ProcTimer, Fires
<1>2. /\ <<>> \in Seq(Slots) /\ Expire(EQT, EQH) \in Seq(Slots)
      /\ Separate(<<>>, Expire(EQT, EQH))
      /\ Queued(<<>>) \cup Queued(Expire(EQT, EQH)) = Queued(EQH) \cup Queued(EQT)
  BY ExpireEntries DEF QueueInv
<1>3. /\ EntriesInv' /\ SavedInv' /\ SentInv'
      /\ TimesInv' /\ SampleInv' /\ HistoryInv' /\ TokenInv' /\ ~NoEntry'
      /\ EQH_time' = Last(EQH') /\ EQH_time' \in Queued(EQH') /\ EQH_time' \in Slots
      /\ EQT' # <<>> => EQT_time' = Last(EQT') /\ EQT_time' \in Slots
      /\ EQT' = <<>> => EQT_time' = NoSlot
  BY <1>1, <1>2, BatchKept
<1>4. IntervalInv' /\ ArmedInv'
  <2>1. CASE user_timer_fn' = "none" /\ UNCHANGED user_timer_interval
    BY <1>1, <1>3, <2>1 DEF IntervalInv, ArmedInv
  <2>2. CASE \E timer \in RegisterTimers(EQH_time', EQT_time') : SetTimer(timer)
    <3>1. PICK timer \in RegisterTimers(EQH_time', EQT_time') : SetTimer(timer)
      BY <2>2
    <3>2. /\ timer.at \in Slots
          /\ \/ timer.fn = "proc_timer" /\ timer.at = EQH_time'
             \/ timer.fn = "congestion_timer" /\ timer.at = EQT_time' /\ EQT_time' # NoSlot
      BY <1>3, <3>1, RegisterTimersTracks
    <3> QED BY <1>1, <1>3, <3>1, <3>2, NoSlotIsNone DEF SetTimer, IntervalInv, ArmedInv
  <2> QED BY <2>1, <2>2 DEF ProcTimer
<1> QED BY <1>3, <1>4 DEF QueueInv

LEMMA CongestionTimerFiresEntries ==
    SenderInv /\ QueueInv /\ CongestionTimerFires => QueueInv'
<1> SUFFICES ASSUME SenderInv, QueueInv, CongestionTimerFires PROVE QueueInv'
  OBVIOUS
<1>1. /\ CongestionTimer(EQT, EQH) /\ handler' = "polling"
      /\ UNCHANGED <<threadVars, LAR, sendWindowNotFull, msg>>
      /\ user_timer_fn' = "proc_timer" /\ user_timer_interval' = EQH_time'
  BY DEF CongestionTimerFires, SetTimer, Timer
<1>2. EQH \in Seq(Slots) /\ EQT \in Seq(Slots) /\ Separate(EQH, EQT)
  BY DEF SenderInv, SenderTypeOK, QueueInv, EntriesInv
<1>3. /\ EntriesInv' /\ SavedInv' /\ SentInv'
      /\ TimesInv' /\ SampleInv' /\ HistoryInv' /\ TokenInv' /\ ~NoEntry'
      /\ EQH_time' \in Queued(EQH') /\ EQH_time' \in Slots
  BY <1>1, <1>2, BatchKept
<1>4. IntervalInv' /\ ArmedInv'
  BY <1>1, <1>3, NoSlotIsNone DEF IntervalInv, ArmedInv
<1> QED BY <1>3, <1>4 DEF QueueInv

LEMMA RearmCongestionEntries == SenderInv /\ QueueInv /\ RearmCongestion => QueueInv'
<1> SUFFICES ASSUME SenderInv, QueueInv, RearmCongestion PROVE QueueInv'
  OBVIOUS
<1>1. /\ CongestionTimer(EQT, EQH) /\ handler' = "polling"
      /\ UNCHANGED <<threadVars, LAR, sendWindowNotFull, msg>>
  BY DEF RearmCongestion
<1>2. EQH \in Seq(Slots) /\ EQT \in Seq(Slots) /\ Separate(EQH, EQT)
  BY DEF SenderInv, SenderTypeOK, QueueInv, EntriesInv
<1>3. /\ EntriesInv' /\ SavedInv' /\ SentInv'
      /\ TimesInv' /\ SampleInv' /\ HistoryInv' /\ TokenInv' /\ ~NoEntry'
      /\ EQH_time' = Last(EQH') /\ EQH_time' \in Queued(EQH') /\ EQH_time' \in Slots
      /\ EQT' # <<>> => EQT_time' = Last(EQT') /\ EQT_time' \in Slots
      /\ EQT' = <<>> => EQT_time' = NoSlot
  BY <1>1, <1>2, BatchKept
<1>4. IntervalInv' /\ ArmedInv'
  <2>1. PICK timer \in RegisterTimers(EQH_time', EQT_time') : SetTimer(timer)
    BY DEF RearmCongestion
  <2>2. /\ timer.at \in Slots
        /\ \/ timer.fn = "proc_timer" /\ timer.at = EQH_time'
           \/ timer.fn = "congestion_timer" /\ timer.at = EQT_time' /\ EQT_time' # NoSlot
    BY <1>3, <2>1, RegisterTimersTracks
  <2> QED BY <1>1, <1>3, <2>1, <2>2, NoSlotIsNone DEF SetTimer, IntervalInv, ArmedInv
<1> QED BY <1>3, <1>4 DEF QueueInv

\* The timer is left alone: nothing is outstanding, so the interval is not set.
LEMMA RearmNothingEntries == SenderInv /\ QueueInv /\ RearmNothing => QueueInv'
<1> SUFFICES ASSUME SenderInv, QueueInv, RearmNothing PROVE QueueInv'
  OBVIOUS
<1>1. Scheduled' = Scheduled /\ Stored' = Stored
  BY DEF RearmNothing, Scheduled, Stored
<1>2. EntriesInv' /\ SavedInv' /\ TimesInv'
  BY <1>1, EntriesKept DEF QueueInv, RearmNothing
<1>3. NoEntry
  <2>1. Outstanding = {}
    BY WindowNumbers DEF RearmNothing, Outstanding
  <2> QED BY <2>1, EntriesOutstanding DEF QueueInv
<1>4. pc \notin {"store", "schedule"}
  BY WindowNumbers DEF RearmNothing, QueueInv, SentInv, Scheduled
<1>5. SentInv' /\ IntervalInv' /\ ArmedInv' /\ SampleInv' /\ TokenInv'
  BY <1>1, <1>3, <1>4
     DEF QueueInv, SentInv, IntervalInv, ArmedInv, SampleInv, TokenInv, NoEntry,
         RearmNothing
<1>6. HistoryInv'
  BY <1>1, HistoryKept DEF QueueInv, RearmNothing
<1> QED BY <1>2, <1>5, <1>6 DEF QueueInv

LEMMA RearmFirstEntries == SenderInv /\ QueueInv /\ RearmFirst => QueueInv'
<1> SUFFICES ASSUME SenderInv, QueueInv, RearmFirst PROVE QueueInv'
  OBVIOUS
<1>1. Scheduled' = Scheduled /\ Stored' = Stored
  BY DEF RearmFirst, Scheduled, Stored
<1>2. EntriesInv' /\ SavedInv' /\ TimesInv'
  BY <1>1, EntriesKept DEF QueueInv, RearmFirst
<1>3. Slot(LAR + 1) \in Slots /\ Slot(LAR + 1) \in Queued(EQH)
  BY SlotsInUse DEF SenderInv, RearmFirst
<1>4. ~NoEntry
  BY <1>3 DEF NoEntry, Queued, ToSet
<1>5. SentInv' /\ SampleInv' /\ TokenInv'
  BY <1>1 DEF QueueInv, SentInv, SampleInv, TokenInv, RearmFirst
<1>6. IntervalInv' /\ ArmedInv'
  BY <1>3, <1>4, NoSlotIsNone
     DEF IntervalInv, ArmedInv, NoEntry, RearmFirst, SetTimer, Timer
<1>7. HistoryInv'
  BY <1>1, HistoryKept DEF QueueInv, RearmFirst
<1> QED BY <1>2, <1>5, <1>6, <1>7 DEF QueueInv

LEMMA RearmFailsEntries == SenderInv /\ QueueInv /\ RearmFails => QueueInv'
<1> SUFFICES ASSUME SenderInv, QueueInv, RearmFails PROVE QueueInv'
  OBVIOUS
<1>1. Scheduled' = Scheduled /\ Stored' = Stored
  BY DEF RearmFails, Scheduled, Stored
<1>2. EntriesInv' /\ SavedInv' /\ TimesInv'
  BY <1>1, EntriesKept DEF QueueInv, RearmFails
<1>3. SentInv' /\ IntervalInv' /\ ArmedInv' /\ SampleInv' /\ TokenInv'
  BY <1>1 DEF QueueInv, SentInv, IntervalInv, ArmedInv, SampleInv, TokenInv, NoEntry,
              RearmFails
<1>4. HistoryInv'
  BY <1>1, HistoryKept DEF QueueInv, RearmFails
<1> QED BY <1>2, <1>3, <1>4 DEF QueueInv

LEMMA ReadNothingEntries == SenderInv /\ QueueInv /\ ReadNothing => QueueInv'
<1> SUFFICES ASSUME SenderInv, QueueInv, ReadNothing PROVE QueueInv'
  OBVIOUS
<1>1. Scheduled' = Scheduled /\ Stored' = Stored
  BY DEF ReadNothing, Scheduled, Stored
<1>2. EntriesInv' /\ SavedInv' /\ TimesInv'
  BY <1>1, EntriesKept DEF QueueInv, ReadNothing
<1>3. SentInv' /\ IntervalInv' /\ ArmedInv' /\ SampleInv' /\ TokenInv'
  BY <1>1 DEF QueueInv, SentInv, IntervalInv, ArmedInv, SampleInv, TokenInv, NoEntry,
              ReadNothing
<1>4. HistoryInv'
  BY <1>1, HistoryKept DEF QueueInv, ReadNothing
<1> QED BY <1>2, <1>3, <1>4 DEF QueueInv

\* An acknowledgement moves no entry: deliverSWP has disarmed the timer.
LEMMA RecvNewAckEntries ==
    ASSUME SenderInv, QueueInv, NEW ack \in 0 .. Scheduled, NEW sacks,
           RecvNewAck(ack, sacks)
    PROVE  QueueInv'
<1>1. Scheduled' = Scheduled /\ Stored' = Stored
  BY DEF RecvNewAck, Scheduled, Stored
<1>2. EntriesInv' /\ SavedInv' /\ TimesInv'
  BY <1>1, EntriesKept DEF QueueInv, RecvNewAck
<1>3. SentInv'
  <2>1. ack <= Scheduled
    BY WindowNumbers
  <2> QED BY <1>1, <2>1 DEF QueueInv, SentInv, RecvNewAck
<1>4. IntervalInv' /\ ArmedInv' /\ SampleInv' /\ TokenInv'
  BY DEF QueueInv, IntervalInv, ArmedInv, SampleInv, TokenInv, RecvNewAck
<1>5. HistoryInv'
  BY <1>1, HistoryKept DEF QueueInv, RecvNewAck
<1> QED BY <1>2, <1>3, <1>4, <1>5 DEF QueueInv

LEMMA RecvOtherAckEntries ==
    ASSUME SenderInv, QueueInv, NEW ack, NEW sacks, RecvOtherAck(ack, sacks)
    PROVE  QueueInv'
<1>1. Scheduled' = Scheduled /\ Stored' = Stored
  BY DEF RecvOtherAck, Scheduled, Stored
<1>2. EntriesInv' /\ SavedInv' /\ TimesInv'
  BY <1>1, EntriesKept DEF QueueInv, RecvOtherAck
<1>3. SentInv' /\ IntervalInv' /\ ArmedInv' /\ SampleInv' /\ TokenInv'
  BY <1>1 DEF QueueInv, SentInv, IntervalInv, ArmedInv, SampleInv, TokenInv, NoEntry,
              RecvOtherAck, ReceiveOptions, SetTimer, Disarmed, Timer
<1>4. HistoryInv'
  BY <1>1, HistoryKept DEF QueueInv, RecvOtherAck
<1> QED BY <1>2, <1>3, <1>4 DEF QueueInv

\* The fast retransmission sends no frame that waits between the copy into its
\* slot and evSchedule: with nothing else outstanding no packet is read then.
LEMMA FastRetransmitted ==
    ASSUME SenderInv, QueueInv, Reading, handler # "acking",
           msg[Slot(LAR + 1)] # 0
    PROVE  msg[Slot(LAR + 1)] \in 1 .. Scheduled
<1> DEFINE m == msg[Slot(LAR + 1)]
<1>1. Slot(LAR + 1) \in Slots
  BY SlotsInUse DEF SenderInv
<1>2. m \in (LAR + 1) .. Stored /\ Slot(m) = Slot(LAR + 1)
  BY <1>1 DEF QueueInv, SavedInv
<1> HIDE DEF m
<1>3. m = LAR + 1
  <2>1. m \in Nat /\ LAR + 1 \in Nat /\ m - (LAR + 1) < SWS /\ (LAR + 1) - m < SWS
    BY <1>2, WindowNumbers, SWSAssumption
  <2> QED BY <1>2, <2>1, SlotsDiffer
<1>4. LAR + 1 <= Scheduled
  <2>1. SUFFICES ASSUME LAR + 1 > Scheduled PROVE FALSE
    BY WindowNumbers
  <2>2. Scheduled # Stored
    BY <1>2, <1>3, <2>1, WindowNumbers
  <2>3. pc = "schedule"
    BY <2>2 DEF Scheduled, Stored
  <2>4. Outstanding = {}
    BY <2>1, WindowNumbers DEF Outstanding
  <2>5. NoEntry
    BY <2>4, EntriesOutstanding DEF QueueInv
  <2> QED BY <2>3, <2>5 DEF QueueInv, IntervalInv, Reading
<1>5. m \in 1 .. Scheduled
  BY <1>3, <1>4, WindowNumbers
<1> QED BY <1>5 DEF m

LEMMA RecvDuplicateAckEntries ==
    ASSUME SenderInv, QueueInv, NEW ack, NEW sacks, RecvDuplicateAck(ack, sacks)
    PROVE  QueueInv'
<1>1. Scheduled' = Scheduled /\ Stored' = Stored
  BY DEF RecvDuplicateAck, Scheduled, Stored
<1>2. EntriesInv' /\ SavedInv' /\ TimesInv'
  BY <1>1, EntriesKept DEF QueueInv, RecvDuplicateAck
<1>3. \/ UNCHANGED <<dataNet, historyVars, congestionVars, RTT_sampled>>
      \/ Transmit({msg[Slot(LAR + 1)]}, {}) /\ FastRecovery(Slot(LAR + 1))
  BY DEF RecvDuplicateAck
<1>4. dataNet' \subseteq 1 .. Scheduled
  <2>1. Reading /\ handler # "acking"
    BY DEF RecvDuplicateAck, Reading
  <2>2. {msg[Slot(LAR + 1)]} \ {0} \subseteq 1 .. Scheduled
    BY <2>1, FastRetransmitted
  <2>3. dataNet' \subseteq dataNet \cup ({msg[Slot(LAR + 1)]} \ {0})
    BY <1>3, CarriedType DEF Transmit
  <2>4. dataNet \subseteq 1 .. Scheduled
    BY DEF QueueInv, SentInv
  <2> QED BY <2>2, <2>3, <2>4
<1>5. SentInv'
  BY <1>1, <1>4 DEF QueueInv, SentInv, RecvDuplicateAck
<1>6. IntervalInv' /\ ArmedInv' /\ TokenInv'
  BY DEF QueueInv, IntervalInv, ArmedInv, TokenInv, NoEntry,
         RecvDuplicateAck, ReceiveOptions, SetTimer, Disarmed, Timer
<1>7. CASE UNCHANGED <<dataNet, historyVars, congestionVars, RTT_sampled>>
  <2>1. SampleInv'
    BY <1>7 DEF QueueInv, SampleInv, RecvDuplicateAck
  <2>2. HistoryInv'
    BY <1>1, <1>7, HistoryKept DEF QueueInv, RecvDuplicateAck
  <2> QED BY <1>2, <1>5, <1>6, <2>1, <2>2 DEF QueueInv
<1>8. CASE Transmit({msg[Slot(LAR + 1)]}, {}) /\ FastRecovery(Slot(LAR + 1))
  <2> DEFINE s == Slot(LAR + 1)
             frames == {msg[s]}
  <2>1. s \in Slots /\ SenderTypeOK
    BY SlotsInUse DEF SenderInv
  <2>2. ASSUME NEW i \in frames \ {0} PROVE Slot(i) = s
    BY <2>1 DEF QueueInv, SavedInv
  <2>3. ASSUME NEW i \in frames \ {0} PROVE i \in 1 .. Scheduled
    <3>1. Reading /\ handler # "acking"
      BY DEF RecvDuplicateAck, Reading
    <3> QED BY <3>1, FastRetransmitted
  <2>4. Transmit(frames, {}) /\ RTT_sampled' = SampleWithout({s})
    BY <1>8 DEF FastRecovery
  <2>5. UNCHANGED <<pc, LAR, LFS, event_type>>
    BY DEF RecvDuplicateAck
  <2>6. \A i \in frames \ {0} : i >= LAR + 1
    BY <2>1 DEF QueueInv, SavedInv
  <2> HIDE DEF s, frames
  <2>7. \A r \in Slots : /\ withheld'[r] <= withheld[r]
                         /\ (\A i \in frames \ {0} : Slot(i) # r) => sends'[r] = sends[r]
    <3> SUFFICES ASSUME NEW r \in Slots
                 PROVE  /\ withheld'[r] <= withheld[r]
                        /\ (\A i \in frames \ {0} : Slot(i) # r) => sends'[r] = sends[r]
      OBVIOUS
    <3>1. /\ (\E i \in frames \ {0} : Slot(i) = r) => withheld'[r] = 0
          /\ (\A i \in frames \ {0} : Slot(i) # r) =>
                sends'[r] = sends[r] /\ withheld'[r] = withheld[r]
      BY <2>1, <2>4, TransmitCounts
    <3>2. withheld[r] \in Nat
      BY <2>1 DEF SenderTypeOK
    <3> QED BY <3>1, <3>2
  <2>8. SampleInv'
    <3>1. SUFFICES ASSUME RTT_sampled' # NoSlot PROVE SampleInv'
      BY DEF SampleInv
    <3>2. RTT_sampled' = RTT_sampled /\ RTT_sampled # s /\ RTT_sampled # NoSlot
      BY <2>4, <3>1 DEF SampleWithout
    <3>3. RTT_sampled \in Slots
      BY <2>1, <3>2 DEF SenderTypeOK
    <3>4. sends'[RTT_sampled] = sends[RTT_sampled]
      BY <2>2, <2>7, <3>2, <3>3
    <3> QED BY <2>5, <3>2, <3>4 DEF QueueInv, SampleInv
  <2>9. HistoryInv'
    <3>1. Outstanding' = Outstanding
      BY <2>5 DEF Outstanding, Scheduled
    <3>2. ASSUME NEW i \in Outstanding PROVE withheld'[Slot(i)] <= WithheldAtMost(Slot(i))'
      <4>1. Slot(i) \in Slots
        BY WindowNumbers, SlotType DEF Outstanding
      <4>2. /\ withheld[Slot(i)] \in Nat /\ withheld'[Slot(i)] <= withheld[Slot(i)]
            /\ withheld[Slot(i)] <= WithheldAtMost(Slot(i))
            /\ withheld' \in [Slots -> Nat]
        BY <2>1, <2>4, <2>7, <4>1, TransmitType DEF QueueInv, HistoryInv, SenderTypeOK
      <4>3. withheld'[Slot(i)] \in Nat
        BY <4>1, <4>2
      <4> QED BY <2>5, <4>2, <4>3 DEF WithheldAtMost
    <3>3. ASSUME pc = "schedule"
          PROVE  sends'[Slot(LFS)] = 0 /\ withheld'[Slot(LFS)] = 0
      <4>1. Slot(LFS) \in Slots
        BY SlotsInUse DEF SenderInv
      <4>2. ASSUME NEW i \in frames \ {0} PROVE Slot(i) # Slot(LFS)
        <5>1. i \in LAR .. LFS /\ LFS \in LAR .. LFS /\ i # LFS
          BY <2>3, <2>6, <3>3, WindowNumbers DEF Scheduled
        <5> QED BY <5>1, WindowSlotsDiffer
      <4>3. sends'[Slot(LFS)] = sends[Slot(LFS)] /\ withheld'[Slot(LFS)] = withheld[Slot(LFS)]
        BY <2>1, <2>4, <4>1, <4>2, TransmitCounts
      <4> QED BY <3>3, <4>3 DEF QueueInv, HistoryInv
    <3> QED BY <2>5, <3>1, <3>2, <3>3 DEF HistoryInv
  <2> QED BY <1>2, <1>5, <1>6, <2>8, <2>9 DEF QueueInv
<1> QED BY <1>3, <1>7, <1>8

\* Any packet that acknowledges frames which have been scheduled.
LEMMA RecvAckEntries ==
    ASSUME SenderInv, QueueInv, NEW ack \in 0 .. Scheduled, NEW sacks, RecvAck(ack, sacks)
    PROVE  QueueInv'
BY RecvNewAckEntries, RecvDuplicateAckEntries, RecvOtherAckEntries DEF RecvAck

\* The entry of the frame that is released is found, and it alone is removed.
LEMMA ReleaseFrameEntries == SenderInv /\ QueueInv /\ ReleaseFrame => QueueInv'
<1> SUFFICES ASSUME SenderInv, QueueInv, ReleaseFrame PROVE QueueInv'
  OBVIOUS
<1> DEFINE s == Slot(LAR + 1)
<1>1. /\ s \in Slots /\ LAR \in Nat /\ LFS \in Nat /\ LFS - LAR < SWS
      /\ handler = "acking" /\ LAR' = LAR + 1 /\ UNCHANGED <<pc, LFS, event_type, dataNet>>
      /\ LAR + 1 <= ackTo /\ ackTo <= Scheduled /\ Scheduled <= LFS
      /\ Scheduled \in Int /\ Stored \in Int /\ Stored <= LFS /\ ackTo \in Nat
  <2>1. SenderTypeOK /\ LAR < ackTo /\ ackTo <= Scheduled /\ handler = "acking"
    BY DEF SenderInv, WindowInv, AckingInv, QueueInv, SentInv, ReleaseFrame
  <2>2. ackTo \in 0 .. NFrames
    BY <2>1 DEF SenderTypeOK
  <2>3. ackTo \in Nat
    BY <2>2, NFramesAssumption
  <2> QED BY <2>1, <2>3, SlotsInUse, WindowNumbers DEF ReleaseFrame
<1>2. EvCancel(s) /\ msg' = [msg EXCEPT ![s] = 0] /\ RTT_sampled' = SampleWithout({s})
  BY DEF ReleaseFrame, UpdateRTT
<1>3. Scheduled' = Scheduled /\ Stored' = Stored
  BY <1>1 DEF Scheduled, Stored
<1>4. /\ EQH \in Seq(Slots) /\ EQT \in Seq(Slots) /\ msg \in [Slots -> 0 .. NFrames]
      /\ RTT_sampled \in Slots \cup {NoSlot}
  BY DEF SenderInv, SenderTypeOK
<1>5. \A i \in (LAR + 2) .. LFS : Slot(i) # s /\ Slot(i) \in Slots
  <2> SUFFICES ASSUME NEW i \in (LAR + 2) .. LFS PROVE Slot(i) # s /\ Slot(i) \in Slots
    OBVIOUS
  <2>1. i \in LAR .. LFS /\ LAR + 1 \in LAR .. LFS /\ i # LAR + 1 /\ i \in Nat
    BY <1>1
  <2> QED BY <2>1, WindowSlotsDiffer, SlotType
<1>6. Outstanding = {LAR + 1} \cup Outstanding' /\ Outstanding' = (LAR + 2) .. Scheduled
  BY <1>1, <1>3 DEF Outstanding
<1>7. Outstanding' \subseteq (LAR + 2) .. LFS
  BY <1>1, <1>6
<1>8. {Slot(i) : i \in Outstanding'} = {Slot(i) : i \in Outstanding} \ {s}
  <2>1. \A i \in Outstanding' : i \in Outstanding /\ Slot(i) # s
    BY <1>5, <1>6, <1>7
  <2>2. \A i \in Outstanding : i \in Outstanding' \/ Slot(i) = s
    BY <1>6
  <2> QED BY <2>1, <2>2
<1> HIDE DEF s
<1>9. Separate(EQH, EQT) /\ Queued(EQH) \cup Queued(EQT) = {Slot(i) : i \in Outstanding}
  BY DEF QueueInv, EntriesInv
<1>10. EntriesInv'
  <2>1. CASE s \in Queued(EQT)
    <3>1. EQT' \in Dequeue(EQT, s) /\ EQH' = EQH
      BY <1>2, <2>1 DEF EvCancel
    <3>2. Queued(EQT') = Queued(EQT) \ {s} /\ Distinct(EQT')
      BY <1>4, <1>9, <3>1, DequeueEntries DEF Separate
    <3>3. s \notin Queued(EQH)
      BY <1>9, <2>1 DEF Separate
    <3> QED BY <1>8, <1>9, <3>1, <3>2, <3>3 DEF EntriesInv, Separate
  <2>2. CASE s \notin Queued(EQT)
    <3>1. EQH' \in Dequeue(EQH, s) /\ EQT' = EQT
      BY <1>2, <2>2 DEF EvCancel
    <3>2. Queued(EQH') = Queued(EQH) \ {s} /\ Distinct(EQH')
      BY <1>4, <1>9, <3>1, DequeueEntries DEF Separate
    <3> QED BY <1>8, <1>9, <2>2, <3>1, <3>2 DEF EntriesInv, Separate
  <2> QED BY <2>1, <2>2
<1>11. SavedInv'
  <2>1. ASSUME NEW i \in (LAR' + 1) .. Stored' PROVE msg'[Slot(i)] = i
    <3>1. i \in (LAR + 2) .. LFS /\ i \in (LAR + 1) .. Stored
      BY <1>1, <1>3
    <3> QED BY <1>2, <1>4, <1>5, <3>1 DEF QueueInv, SavedInv
  <2>2. ASSUME NEW r \in Slots, msg'[r] # 0
        PROVE  msg'[r] \in (LAR' + 1) .. Stored' /\ Slot(msg'[r]) = r
    <3>1. r # s /\ msg'[r] = msg[r]
      BY <1>1, <1>2, <1>4, <2>2
    <3>2. msg[r] \in (LAR + 1) .. Stored /\ Slot(msg[r]) = r
      BY <2>2, <3>1 DEF QueueInv, SavedInv
    <3>3. msg[r] # LAR + 1
      BY <3>1, <3>2 DEF s
    <3> QED BY <1>1, <1>3, <3>1, <3>2, <3>3
  <2> QED BY <2>1, <2>2 DEF SavedInv
<1>12. SentInv'
  <2>1. handler' = "acking" => ackTo' = ackTo
    BY DEF ReleaseFrame
  <2> QED BY <1>1, <1>3, <2>1 DEF QueueInv, SentInv
<1>13. TimesInv'
  <2>1. EQH' \in Seq(Slots) /\ EQT' \in Seq(Slots)
    BY <1>2, <1>4, DequeueType DEF EvCancel
  <2>2. /\ EQT' = <<>> <=> DequeuedTime(EQT, EQT', s) = NoSlot
        /\ EQH' = <<>> <=> DequeuedTime(EQH, EQH', s) = NoSlot
    BY <1>1, <2>1, LastTimeType, NoSlotIsNone DEF DequeuedTime, LastTime
  <2>3. \/ EQT_time' = DequeuedTime(EQT, EQT', s) /\ UNCHANGED <<EQH, EQH_time>>
        \/ EQH_time' = DequeuedTime(EQH, EQH', s) /\ UNCHANGED <<EQT, EQT_time>>
    BY <1>2 DEF EvCancel
  <2> QED BY <2>2, <2>3 DEF QueueInv, TimesInv
<1>14. IntervalInv' /\ ArmedInv'
  <2>1. handler' \in {"acking", "rearm"}
    BY <1>1 DEF ReleaseFrame
  <2>2. NoEntry' => user_timer_interval' = NoSlot
    <3>1. PICK timer \in RegisterTimers(EQH_time', EQT_time') : SetTimer(timer)
      BY <1>2 DEF EvCancel
    <3>2. ASSUME NoEntry' PROVE timer = Disarmed
      <4>1. EQH_time' = NoSlot /\ EQT_time' = NoSlot
        BY <1>13, <3>2 DEF TimesInv, NoEntry
      <4> QED BY <3>1, <4>1 DEF RegisterTimers
    <3> QED BY <3>1, <3>2 DEF SetTimer, Disarmed, Timer
  <2> QED BY <2>1, <2>2 DEF IntervalInv, ArmedInv
<1>16. \A r \in Slots : /\ sends'[r] = IF r = s THEN 0 ELSE sends[r]
                        /\ withheld'[r] = IF r = s THEN 0 ELSE withheld[r]
  BY DEF SenderInv, SenderTypeOK, ReleaseFrame, ForgetHistory, s
<1>17. SampleInv'
  <2>1. SUFFICES ASSUME RTT_sampled' # NoSlot PROVE SampleInv'
    BY DEF SampleInv
  <2>2. RTT_sampled' = RTT_sampled /\ RTT_sampled # s /\ RTT_sampled # NoSlot
    BY <1>2, <2>1 DEF SampleWithout
  <2>3. PICK i \in (LAR + 1) .. LFS : RTT_sampled = Slot(i)
    BY <2>2 DEF QueueInv, SampleInv
  <2>4. i \in (LAR' + 1) .. LFS'
    BY <1>1, <2>2, <2>3 DEF s
  <2>5. sends'[RTT_sampled] = sends[RTT_sampled]
    BY <1>4, <1>16, <2>2
  <2> QED BY <2>2, <2>3, <2>4, <2>5 DEF QueueInv, SampleInv
<1>18. HistoryInv'
  <2>1. ASSUME NEW i \in Outstanding' PROVE withheld'[Slot(i)] <= WithheldAtMost(Slot(i))'
    <3>1. i \in Outstanding /\ Slot(i) \in Slots
      BY <1>5, <1>6, <1>7
    <3>2. /\ withheld'[Slot(i)] = 0 \/ withheld'[Slot(i)] = withheld[Slot(i)]
          /\ withheld[Slot(i)] <= WithheldAtMost(Slot(i))
      BY <1>16, <3>1 DEF QueueInv, HistoryInv
    <3> QED BY <1>1, <3>2 DEF WithheldAtMost
  <2>2. ASSUME pc' = "schedule" PROVE sends'[Slot(LFS')] = 0 /\ withheld'[Slot(LFS')] = 0
    <3>1. Slot(LFS) \in Slots /\ pc = "schedule" /\ LFS' = LFS
      BY <1>1, <2>2, SlotsInUse DEF SenderInv
    <3>2. sends[Slot(LFS)] = 0 /\ withheld[Slot(LFS)] = 0
      BY <3>1 DEF QueueInv, HistoryInv
    <3> QED BY <1>16, <3>1, <3>2
  <2> QED BY <2>1, <2>2 DEF HistoryInv
<1>19. TokenInv'
  <2> DEFINE opened == IF WindowSize(CongWin, LAR + 1, LFS) > 0 THEN 1 ELSE 0
             grown  == IF Grows(s) /\ WindowSize(CongWin', LAR + 1, LFS) > 0 THEN 1 ELSE 0
  <2>1. sendWindowNotFull' = sendWindowNotFull + opened + grown
    BY DEF ReleaseFrame, s
  <2>2. CongWin \in Nat /\ CongWin >= 1 /\ sendWindowNotFull \in Nat
    <3>1. CongWin \in 1 .. MaxSendWin
      BY DEF SenderInv, WindowInv, CongestionWindowBound
    <3>2. sendWindowNotFull \in Nat
      BY DEF SenderInv, SenderTypeOK
    <3> QED BY <3>1, <3>2, MaxSendWinType
  <2>3. LAR + 1 = LFS => opened = 1
    BY <1>1, <2>2 DEF WindowSize
  <2>4. opened \in {0, 1} /\ grown \in {0, 1}
    OBVIOUS
  <2> HIDE DEF opened, grown
  <2> QED BY <1>1, <2>1, <2>2, <2>3, <2>4 DEF TokenInv
<1> QED BY <1>10, <1>11, <1>12, <1>13, <1>14, <1>17, <1>18, <1>19 DEF QueueInv

\* A packet leaves the network, or nothing happens.
LEMMA NetLosesEntries ==
    ASSUME SenderInv, QueueInv, UNCHANGED senderVarsButNet, dataNet' \subseteq dataNet
    PROVE  QueueInv'
<1>1. Scheduled' = Scheduled /\ Stored' = Stored
  BY DEF senderVarsButNet, Scheduled, Stored
<1>2. EntriesInv' /\ SavedInv' /\ TimesInv'
  BY <1>1, EntriesKept DEF QueueInv, senderVarsButNet
<1>3. SentInv' /\ IntervalInv' /\ ArmedInv' /\ SampleInv' /\ TokenInv'
  BY <1>1
     DEF senderVarsButNet, QueueInv, SentInv, IntervalInv, ArmedInv, SampleInv,
         TokenInv, NoEntry
<1>4. HistoryInv'
  BY <1>1, HistoryKept DEF QueueInv, senderVarsButNet
<1> QED BY <1>2, <1>3, <1>4 DEF QueueInv

-------------------------------------------------------------------------------
(* Every step.                                                             *)

LEMMA QueueInvNext ==
    SenderInv /\ QueueInv /\ [SenderNext]_senderVars => QueueInv'
<1> SUFFICES ASSUME SenderInv, QueueInv, [SenderNext]_senderVars PROVE QueueInv'
  OBVIOUS
<1>1. CASE Thread
  BY <1>1, SemWaitEntries, TestWindowEntries, UnregisterTimerEntries, NumberFrameEntries,
     StoreFrameEntries, ScheduleFrameEntries DEF Thread
<1>2. CASE Handler
  BY <1>2, ProcTimerEntries, CongestionTimerFiresEntries, ReleaseFrameEntries,
     RearmNothingEntries, RearmFirstEntries, RearmCongestionEntries, RearmFailsEntries,
     ReadNothingEntries DEF Handler, HandlerRuns
<1>3. CASE \E ack \in Acks, sacks \in SackReports : RecvAck(ack, sacks)
  <2>1. PICK ack \in Acks, sacks \in SackReports : RecvAck(ack, sacks)
    BY <1>3
  <2>2. ack \in 0 .. Scheduled
    BY WindowNumbers DEF Acks, QueueInv, SentInv
  <2> QED BY <2>1, <2>2, RecvAckEntries
<1>4. CASE UNCHANGED senderVars
  <2>1. UNCHANGED senderVarsButNet /\ dataNet' \subseteq dataNet
    BY <1>4 DEF senderVars
  <2> QED BY <2>1, NetLosesEntries
<1> QED BY <1>1, <1>2, <1>3, <1>4 DEF SenderNext, Terminating

LEMMA QueueInvariant == SenderSpec => [](SenderInv /\ QueueInv)
<1>1. SenderInit => SenderInv /\ QueueInv
  BY SenderInvInit, QueueInvInit
<1>2. SenderInv /\ QueueInv /\ [SenderNext]_senderVars => (SenderInv /\ QueueInv)'
  BY SenderInvNext, QueueInvNext
<1> QED BY <1>1, <1>2, PTL DEF SenderSpec

-------------------------------------------------------------------------------
(* What the invariant gives.                                               *)

\* The copy of a frame stays in its slot from the moment it is scheduled until
\* it is acknowledged, whatever the handler releases in between.
THEOREM FrameIsSaved == SenderSpec => []SavedUntilAcked
<1>1. ASSUME SenderInv, QueueInv PROVE SavedUntilAcked
  <2>1. \A i \in Outstanding : i \in (LAR + 1) .. Stored
    BY <1>1, WindowNumbers DEF Outstanding
  <2> QED BY <1>1, <2>1 DEF QueueInv, SavedInv, SavedUntilAcked
<1> QED BY <1>1, QueueInvariant, PTL

\* The two event queues hold exactly one entry for every outstanding frame and
\* none for another slot, across evSchedule, evCancel, proc_timer's move to
\* EQ_Tail and congestion_timer's move back.
THEOREM OneEntryPerFrame == SenderSpec => []QueuesHoldOutstanding
<1>1. ASSUME SenderInv, QueueInv PROVE QueuesHoldOutstanding
  <2> DEFINE q == EQH \o EQT
  <2>1. EQH \in Seq(Slots) /\ EQT \in Seq(Slots)
    BY <1>1 DEF SenderInv, SenderTypeOK
  <2>2. Separate(EQH, EQT) /\ Queued(EQH) \cup Queued(EQT) = {Slot(i) : i \in Outstanding}
    BY <1>1 DEF QueueInv, EntriesInv
  <2>3. q \in Seq(Slots) /\ Queued(q) = {Slot(i) : i \in Outstanding} /\ Distinct(q)
    BY <2>1, <2>2, ConcatEntries
  <2>4. Len(q) = Cardinality(Queued(q))
    BY <2>3, DistinctLength
  <2> QED BY <2>3, <2>4 DEF QueuesHoldOutstanding
<1> QED BY <1>1, QueueInvariant, PTL

\* evCancel never reaches its exit(4): the frame that the do-while loop of
\* deliverSWP is about to release has its event in one of the queues.
THEOREM CancelIsSafe == SenderSpec => []CancelFindsEvent
<1>1. ASSUME SenderInv, QueueInv PROVE CancelFindsEvent
  <2>1. SUFFICES ASSUME handler = "acking"
                 PROVE  Slot(LAR + 1) \in Queued(EQH) \cup Queued(EQT)
    BY DEF CancelFindsEvent
  <2>2. LAR < ackTo /\ ackTo <= Scheduled
    BY <1>1, <2>1 DEF SenderInv, WindowInv, AckingInv, QueueInv, SentInv
  <2>3. ackTo \in 0 .. NFrames
    BY <1>1 DEF SenderInv, SenderTypeOK
  <2>4. LAR + 1 \in Outstanding
    BY <1>1, <2>2, <2>3, NFramesAssumption, WindowNumbers DEF Outstanding
  <2> QED BY <1>1, <2>4 DEF QueueInv, EntriesInv
<1> QED BY <1>1, QueueInvariant, PTL

\* Between two handler runs an armed timer waits for an entry that is still
\* queued: the deadlines of removed entries that dequeue_evt leaves in the
\* sentinels never stay registered.
THEOREM TimerWaitsForEntry == SenderSpec => []TimerTracksEntry
<1>1. QueueInv => TimerTracksEntry
  BY DEF QueueInv, ArmedInv, TimerTracksEntry
<1> QED BY <1>1, QueueInvariant, PTL

\* While a frame is outstanding timer() goes on calling the read callback, even
\* in the steps of sendSWP that run with no timer function.
THEOREM ReadsStayEnabled == SenderSpec => []ReadsEnabled
<1>1. ASSUME SenderInv, QueueInv PROVE ReadsEnabled
  <2>1. NoEntry <=> Outstanding = {}
    BY <1>1, EntriesOutstanding DEF QueueInv
  <2> QED BY <1>1, <2>1 DEF QueueInv, IntervalInv, ReadsEnabled
<1> QED BY <1>1, QueueInvariant, PTL

\* The thread never waits for a token with nothing outstanding: the tokens that
\* sendSWP throws away are never the last ones.
THEOREM TokenIsLeft == SenderSpec => []WakeupPending
<1>1. QueueInv => WakeupPending
  BY DEF QueueInv, TokenInv, WakeupPending
<1> QED BY <1>1, QueueInvariant, PTL

\* Karn's rule: the slot that is timed holds a frame that is outstanding and has
\* been sent at most once; every timeout and every fast retransmission that sends
\* it again ends its sample.
THEOREM SampleIsUnambiguous == SenderSpec => []SampleIsFirstTransmission
<1>1. QueueInv => SampleIsFirstTransmission
  BY DEF QueueInv, SampleInv, SampleIsFirstTransmission
<1> QED BY <1>1, QueueInvariant, PTL

\* Of two timeouts of a frame in a row at least one sends it, whatever marks the
\* SACK options leave on its slot.
THEOREM SecondTimeoutIsNotWithheld == SenderSpec => []NotWithheldTwice
<1>1. ASSUME SenderInv, QueueInv PROVE NotWithheldTwice
  <2> SUFFICES ASSUME NEW i \in Outstanding PROVE withheld[Slot(i)] <= 1
    BY DEF NotWithheldTwice
  <2>1. Slot(i) \in Slots
    BY <1>1, WindowNumbers, SlotType DEF Outstanding
  <2>2. withheld[Slot(i)] \in Nat /\ withheld[Slot(i)] <= WithheldAtMost(Slot(i))
    BY <1>1, <2>1 DEF SenderInv, SenderTypeOK, QueueInv, HistoryInv
  <2> QED BY <2>2 DEF WithheldAtMost
<1> QED BY <1>1, QueueInvariant, PTL
================================================================================
