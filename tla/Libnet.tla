-------------------------------- MODULE Libnet --------------------------------
(***************************************************************************)
(* libnet's simulated link in the client (libnet/libnet.c): u_sendto       *)
(* blocks for the time a transmission takes and puts the packet into a     *)
(* ring; timer(), called by SIGALRM and at the end of every enqueue_data,  *)
(* transmits what has waited for a round trip and then calls the user's    *)
(* functions, which may send themselves.                                   *)
(*                                                                         *)
(* Two actors run this code: the thread, "main", and the signal handler,   *)
(* "alarm", which interrupts the thread between any two of its steps and   *)
(* is not interrupted itself.  A packet is its number, current_packet.     *)
(* A tick is the millisecond of the interval timer.                        *)
(***************************************************************************)
EXTENDS Integers, Sequences, SequencesExt, FiniteSetsExt

CONSTANTS
    RingSize,      \* MAX_DATA_QUEUE
    Rtts,          \* the values current_rtt takes, in ticks
    TxTimes,       \* ticks that the transmission of a packet takes
    Lossy,         \* l_rel
    Trains,        \* the values drop_train takes, 2 .. 5 in the code
    HandlerSends,  \* bound: packets that one run of the user's functions sends
    MaxPackets     \* bound: packets handed over in all

ASSUME LibnetAssumption ==
    /\ RingSize \in Nat /\ RingSize >= 2
    /\ Rtts \subseteq Nat /\ TxTimes \subseteq Nat \ {0}
    /\ Lossy \in BOOLEAN /\ Trains \subseteq Nat \ {0}
    /\ HandlerSends \in Nat /\ MaxPackets \in Nat

Actors == {"main", "alarm"}
Slots == 0 .. RingSize - 1
NoPacket == 0
Free == [packet |-> NoPacket, left |-> 0]
NoTrain == [mode |-> FALSE, counter |-> 0, train |-> 0]

\* Where an actor is: "off" between calls; in enqueue_data at the test for a
\* full ring, at qlock = 1, in the transmission of a packet that will be kept or
\* dropped, at qend = ..., at qlock = 0, at its call of timer(); in timer() at the
\* head of its loop, at qstart = ... in dequeue_data, at sendto, in the user's
\* functions; the thread also before it arms the user's timer again and in
\* close_net.
EnqueueSteps == {"full", "enter", "tx", "drop", "queue", "unlock", "timer"}
TimerSteps == {"drain", "advance", "send", "calls"}
Steps == EnqueueSteps \cup TimerSteps \cup {"off", "arm", "close", "closed"}

\* The steps of enqueue_data that must not be taken by two actors at a time: from
\* the choice of the slot qend to qlock = 0.
Exclusive == {"enter", "tx", "drop", "queue", "unlock"}

VARIABLES
    ring,            \* qptr: packet and ticks until its tx_time (below 0: overdue)
    qstart, qend,
    qlock, tlock,
    current_packet,
    drops,           \* drop_mode, drop_counter, drop_train
    armed,           \* user_timer_interval > 0
    pc,              \* [Actors -> Steps]
    busy,            \* ticks until get_time() reaches last_tx_time, per actor
    sends,           \* packets the user's functions may still send in this run
    ptr,             \* the slot that dequeue_data has returned
    pending,         \* whether SIGALRM is due
    out              \* history: the packets given to sendto

ringVars == <<ring, qstart, qend>>
lockVars == <<qlock, tlock>>
linkVars == <<current_packet, drops>>
vars == <<ringVars, lockVars, linkVars, armed, pc, busy, sends, ptr, pending, out>>

After(slot) == (slot + 1) % RingSize

\* The slots in use, oldest first.
InUse == [i \in 1 .. (qend - qstart) % RingSize |-> (qstart + i - 1) % RingSize]
Waiting == [i \in DOMAIN InUse |-> ring[InUse[i]].packet]

Full == After(qend) = qstart

Init == /\ ring = [s \in Slots |-> Free]
        /\ qstart = 0 /\ qend = 0
        /\ qlock = FALSE /\ tlock = FALSE
        /\ current_packet = 0
        /\ drops = NoTrain
        /\ armed = FALSE
        /\ pc = [a \in Actors |-> "off"]
        /\ busy = [a \in Actors |-> 0]
        /\ sends = 0
        /\ ptr = 0
        /\ pending = FALSE
        /\ out = <<>>

\* The handler runs to its end before the thread takes its next step.
Runs(a) == a = "main" => pc["alarm"] = "off"

At(a, step) == pc[a] = step /\ Runs(a)
GoTo(a, step) == pc' = [pc EXCEPT ![a] = step]

-------------------------------------------------------------------------------
(* enqueue_data.                                                           *)

\* The spin at the full ring, which only a call of timer() ends.
RoomFound(a) == /\ At(a, "full")
                /\ ~Full
                /\ GoTo(a, "enter")
                /\ UNCHANGED <<ringVars, lockVars, linkVars, armed, busy, sends, ptr, pending, out>>

\* The packet is kept, or dropped because a train of losses is under way or one
\* begins with it.
Keep(a) == ~drops.mode /\ drops' = drops /\ GoTo(a, "tx")

Lose(a) == /\ Lossy
           /\ GoTo(a, "drop")
           /\ IF drops.mode THEN drops' = drops
              ELSE \E n \in Trains : drops' = [drops EXCEPT !.mode = TRUE, !.train = n]

TakeQlock(a) == /\ At(a, "enter")
                /\ qlock' = TRUE
                /\ current_packet' = current_packet + 1
                /\ Keep(a) \/ Lose(a)
                /\ \E t \in TxTimes : busy' = [busy EXCEPT ![a] = t]
                /\ UNCHANGED <<ringVars, tlock, armed, sends, ptr, pending, out>>

\* The packet has been transmitted into nothing; the train may be over.
CountedKept == [drops EXCEPT !.mode = drops.counter + 1 < drops.train,
                             !.counter = drops.counter + 1]    \* mutant: no reset

Counted == IF drops.counter + 1 >= drops.train THEN NoTrain
           ELSE [drops EXCEPT !.counter = @ + 1]

Dropped(a) == /\ At(a, "drop") /\ busy[a] = 0
              /\ drops' = Counted
              /\ GoTo(a, "unlock")
              /\ UNCHANGED <<ringVars, lockVars, current_packet, armed, busy, sends, ptr, pending, out>>

\* The packet has been transmitted and begins its round trip.
Store(a) == /\ At(a, "tx") /\ busy[a] = 0
            /\ \E rtt \in Rtts :
                   ring' = [ring EXCEPT ![qend] = [packet |-> current_packet, left |-> rtt]]
            /\ GoTo(a, "queue")
            /\ UNCHANGED <<qstart, qend, lockVars, linkVars, armed, busy, sends, ptr, pending, out>>

AdvanceEnd(a) == /\ At(a, "queue")
                 /\ qend' = After(qend)
                 /\ GoTo(a, "unlock")
                 /\ UNCHANGED <<ring, qstart, lockVars, linkVars, armed, busy, sends, ptr, pending, out>>

ReleaseQlock(a) == /\ At(a, "unlock")
                   /\ qlock' = FALSE
                   /\ GoTo(a, "timer")
                   /\ UNCHANGED <<ringVars, tlock, linkVars, armed, busy, sends, ptr, pending, out>>

\* Where enqueue_data returns to.
Returned(a) == IF a = "main" THEN "arm" ELSE "calls"

-------------------------------------------------------------------------------
(* timer().                                                                *)

NotTlocked == FALSE    \* mutant: timer() does not test tlock

TimerBusy == tlock

EnterTimer(a) == /\ At(a, "timer")
                 /\ \/ /\ TimerBusy
                       /\ GoTo(a, Returned(a))
                       /\ UNCHANGED tlock
                    \/ /\ ~TimerBusy
                       /\ tlock' = TRUE
                       /\ GoTo(a, "drain")
                 /\ UNCHANGED <<ringVars, qlock, linkVars, armed, busy, sends, ptr, pending, out>>

\* SIGALRM.
Sigalrm == /\ pending
           /\ pc["alarm"] = "off"
           /\ pending' = FALSE
           /\ \/ TimerBusy /\ UNCHANGED <<pc, tlock>>
              \/ ~TimerBusy /\ GoTo("alarm", "drain") /\ tlock' = TRUE
           /\ UNCHANGED <<ringVars, qlock, linkVars, armed, busy, sends, ptr, out>>

DueWhenUnlocked == qstart # qend /\ ring[qstart].left <= 0 /\ ~qlock    \* mutant: qlock holds back the link too

DueLate == qstart # qend /\ ring[qstart].left < 0    \* mutant: > for >= in dequeue_data

\* dequeue_data: the oldest packet has waited for its round trip.
Due == qstart # qend /\ ring[qstart].left <= 0

FoundDue(a) == /\ At(a, "drain")
               /\ Due
               /\ GoTo(a, "advance")
               /\ UNCHANGED <<ringVars, lockVars, linkVars, armed, busy, sends, ptr, pending, out>>

AdvanceStart(a) == /\ At(a, "advance")
                   /\ ptr' = qstart
                   /\ qstart' = After(qstart)
                   /\ GoTo(a, "send")
                   /\ UNCHANGED <<ring, qend, lockVars, linkVars, armed, busy, sends, pending, out>>

\* sendto and free.
Transmit(a) == /\ At(a, "send")
               /\ out' = Append(out, ring[ptr].packet)
               /\ ring' = [ring EXCEPT ![ptr] = Free]
               /\ ptr' = 0
               /\ GoTo(a, "drain")
               /\ UNCHANGED <<qstart, qend, lockVars, linkVars, armed, busy, sends, pending>>

\* Where timer() returns to.
TimerReturned(a) == IF a = "main" THEN "arm" ELSE "off"

LeaveTimerLocked(a) ==    \* mutant: timer() resets tlock only after it has called the user
    /\ At(a, "drain")
    /\ ~Due
    /\ qlock \/ ~armed
    /\ GoTo(a, TimerReturned(a))
    /\ UNCHANGED <<ringVars, lockVars, linkVars, armed, busy, sends, ptr, pending, out>>

\* Nothing is due.  The user's functions are not called while an enqueue_data is
\* under way or while no interval is set.
LeaveTimer(a) == /\ At(a, "drain")
                 /\ ~Due
                 /\ qlock \/ ~armed
                 /\ tlock' = FALSE
                 /\ GoTo(a, TimerReturned(a))
                 /\ UNCHANGED <<ringVars, qlock, linkVars, armed, busy, sends, ptr, pending, out>>

CallUser(a) == /\ At(a, "drain")
               /\ ~Due
               /\ ~qlock /\ armed
               /\ sends' = HandlerSends
               /\ GoTo(a, "calls")
               /\ UNCHANGED <<ringVars, lockVars, linkVars, armed, busy, ptr, pending, out>>

UserSends(a) == /\ At(a, "calls")
                /\ sends > 0
                /\ current_packet < MaxPackets
                /\ sends' = sends - 1
                /\ GoTo(a, "full")
                /\ UNCHANGED <<ringVars, lockVars, linkVars, armed, busy, ptr, pending, out>>

\* The user's functions return, with the timer armed again or not.
UserReturns(a) == /\ At(a, "calls")
                  /\ armed' \in BOOLEAN
                  /\ sends' = 0
                  /\ tlock' = FALSE
                  /\ GoTo(a, TimerReturned(a))
                  /\ UNCHANGED <<ringVars, qlock, linkVars, busy, ptr, pending, out>>

-------------------------------------------------------------------------------
(* The user's thread (artcp_client.c, sendSWP) and close_net.              *)

StillArmed == armed    \* mutant: evSchedule leaves the timer armed

\* evSchedule calls register_timer(0, NULL) before sendSWP calls sendLINK.
Disarmed == FALSE

Send == /\ At("main", "off")
        /\ current_packet < MaxPackets
        /\ armed' = Disarmed
        /\ GoTo("main", "full")
        /\ UNCHANGED <<ringVars, lockVars, linkVars, busy, sends, ptr, pending, out>>

\* register_timer after sendLINK.
Arm == /\ At("main", "arm")
       /\ armed' = TRUE
       /\ GoTo("main", "off")
       /\ UNCHANGED <<ringVars, lockVars, linkVars, busy, sends, ptr, pending, out>>

\* close_net stops the interval timer and ignores SIGALRM...
BeginClose == /\ At("main", "off")
              /\ pending' = FALSE
              /\ GoTo("main", "close")
              /\ UNCHANGED <<ringVars, lockVars, linkVars, armed, busy, sends, ptr, out>>

\* ... and dequeues and transmits itself, until the ring is empty.
Flush == /\ At("main", "close")
         /\ Due
         /\ out' = Append(out, ring[qstart].packet)
         /\ ring' = [ring EXCEPT ![qstart] = Free]
         /\ qstart' = After(qstart)
         /\ UNCHANGED <<qend, lockVars, linkVars, armed, pc, busy, sends, ptr, pending>>

FlushedWhenNoneDue == ~Due    \* mutant: a dequeue_data that returns NULL ends the loop

Flushed == qstart = qend

EndClose == /\ At("main", "close")
            /\ Flushed
            /\ GoTo("main", "closed")
            /\ UNCHANGED <<ringVars, lockVars, linkVars, armed, busy, sends, ptr, pending, out>>

-------------------------------------------------------------------------------
(* Time.  Instructions take none, waiting does: an actor waits for the end *)
(* of a transmission, for room in the ring, and the thread for its user or *)
(* for a packet to become due while it closes.                             *)

Waits(a) == \/ pc[a] \in {"tx", "drop"} /\ busy[a] > 0
            \/ pc[a] = "full" /\ Full
            \/ pc[a] \in {"off", "closed"}
            \/ pc[a] = "close" /\ ~Due /\ qstart # qend

\* The handler has run since the last tick, unless it is running still.
TimeMayPass == IF pc["alarm"] = "off" THEN ~pending /\ Waits("main") ELSE Waits("alarm")

\* The time that the handler's own transmissions take.
MaxLate == HandlerSends * Max(TxTimes)

\* How long before an older packet one can become due: round trips differ, and it
\* was put into the ring at least a transmission later.
MaxAhead == Max({0, Max(Rtts) - Min(Rtts) - Min(TxTimes)})

\* Bound: packets that are overdue by more than both are not told apart.
MaxOverdue == MaxLate + MaxAhead

Older(slot) == IF ring[slot].left < -MaxOverdue THEN ring[slot]
               ELSE [ring[slot] EXCEPT !.left = @ - 1]

Tick == /\ TimeMayPass
        /\ ring' = [s \in Slots |-> IF s \in Range(InUse) THEN Older(s) ELSE ring[s]]
        /\ busy' = [a \in Actors |-> IF busy[a] > 0 THEN busy[a] - 1 ELSE 0]
        /\ pending' = (pc["main"] \notin {"close", "closed"})
        /\ UNCHANGED <<qstart, qend, lockVars, linkVars, armed, pc, sends, ptr, out>>

Enqueue(a) == \/ RoomFound(a) \/ TakeQlock(a) \/ Dropped(a) \/ Store(a)
              \/ AdvanceEnd(a) \/ ReleaseQlock(a)

Timer(a) == \/ EnterTimer(a) \/ FoundDue(a) \/ AdvanceStart(a) \/ Transmit(a)
            \/ LeaveTimer(a) \/ CallUser(a) \/ UserReturns(a)

Next == \/ \E a \in Actors : Enqueue(a) \/ Timer(a) \/ UserSends(a)
        \/ Sigalrm
        \/ Send \/ Arm \/ BeginClose \/ Flush \/ EndClose
        \/ Tick

Spec == Init /\ [][Next]_vars

\* Time passes, SIGALRM is delivered, and code that has begun runs on.  The user
\* need not send or close.
Fairness == /\ \A a \in Actors : WF_vars(Enqueue(a)) /\ WF_vars(Timer(a))
            /\ WF_vars(Sigalrm) /\ WF_vars(Tick)
            /\ WF_vars(Arm) /\ WF_vars(Flush) /\ WF_vars(EndClose)

FairSpec == Spec /\ Fairness

-------------------------------------------------------------------------------
(* Properties.                                                             *)

\* Every variable has its type; a train of losses is under way exactly while
\* drop_counter is below a drop_train that is not 0 (libnet.c:256-280).
LibnetTypeOK ==
    /\ ring \in [Slots -> [packet : 0 .. MaxPackets, left : Int]]
    /\ qstart \in Slots /\ qend \in Slots
    /\ qlock \in BOOLEAN /\ tlock \in BOOLEAN
    /\ current_packet \in 0 .. MaxPackets
    /\ drops \in [mode : BOOLEAN, counter : Nat, train : Trains \cup {0}]
    /\ IF drops.mode THEN drops.counter < drops.train ELSE drops = NoTrain
    /\ armed \in BOOLEAN
    /\ pc \in [Actors -> Steps]
    /\ busy \in [Actors -> Nat]
    /\ sends \in 0 .. HandlerSends
    /\ ptr \in Slots
    /\ pending \in BOOLEAN
    /\ out \in Seq(0 .. MaxPackets)

\* enqueue_data takes its slot at the test for a full ring and sets qlock only
\* after it (libnet.c:246-248); still thread and handler are never both between
\* the two ends of it, and tlock is held by one of them.
OneInQueue ==
    /\ ~(pc["main"] \in Exclusive /\ pc["alarm"] \in Exclusive)
    /\ ~(pc["main"] \in TimerSteps /\ pc["alarm"] \in TimerSteps)

\* A handler that finds the ring full would wait for ever: only timer() makes
\* room, and it is in timer() (libnet.c:246, 356).
HandlerNeverBlocked == ~(pc["alarm"] = "full" /\ Full)

\* dequeue_data looks only at qstart (libnet.c:334), and a packet that was stored
\* after current_rtt fell (libnet.c:373) is due before older ones.  It leaves late
\* behind these, and behind what the handler transmits itself (libnet.c:423), but
\* for no other reason: nobody waits while the oldest packet is due, except the
\* handler for its own transmissions, so a packet is overdue by no more than these
\* take and round trips differ.
LateBehindOlderOrHandler ==
    /\ TimeMayPass /\ qstart # qend =>
          ring[qstart].left > (IF pc["alarm"] = "off" THEN 0 ELSE busy["alarm"] - MaxLate)
    /\ \A s \in Range(InUse) : ring[s].left >= -MaxOverdue

\* The ring implements the abstract line: no packet in it is overwritten, sent
\* twice, skipped or overtaken, wherever SIGALRM interrupts enqueue_data and
\* dequeue_data.  A packet in ptr is still on the line, one whose transmission
\* has not ended is not decided.
InHand == IF \E a \in Actors : pc[a] = "send" THEN <<ring[ptr].packet>> ELSE <<>>

Undecided == Cardinality({a \in Actors : pc[a] \in {"tx", "drop", "queue"}})

Line == INSTANCE DelayLine WITH decided <- current_packet - Undecided,
                                waiting <- InHand \o Waiting

ImplementsDelayLine == Line!LineSpec

\* Whatever is put into the ring is transmitted, by SIGALRM, by a later call of
\* u_sendto, or by close_net.
QueuedIsTransmitted ==
    \A p \in 1 .. MaxPackets : (p \in Range(Waiting)) ~> (p \in Range(out))

\* A call of u_sendto returns, whether the ring is full or not.
SendReturns == (pc["main"] = "full") ~> (pc["main"] = "off")
===============================================================================
