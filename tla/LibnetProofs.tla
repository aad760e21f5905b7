------------------------------ MODULE LibnetProofs ------------------------------
(***************************************************************************)
(* The thread and the handler are never in enqueue_data or in timer() at   *)
(* the same time, for a ring of any size and any user: OneInQueue.  It     *)
(* rests on ActorsInv: the user's functions are called only while the      *)
(* timer is armed, and sendSWP disarms it before it calls u_sendto.        *)
(*                                                                         *)
(* With RingInv, libnet then implements the line that delays (DelayLine):  *)
(* every step of it is a step of the line or leaves the line alone.        *)
(*                                                                         *)
(* Last come the two properties about time.  Transmissions follow each     *)
(* other, so the packets of the ring are spaced (SpacingInv) and in order  *)
(* (OrderInv), which bounds how many of them a handler finds that has just *)
(* emptied the ring of all that was due, and how late one of them can be.  *)
(***************************************************************************)
EXTENDS Libnet, SequenceTheorems, FiniteSetTheorems, TLAPS

\* Who may be where while the other one is.
ActorsInv ==
    /\ pc["main"] # "calls"
    /\ pc["main"] \in EnqueueSteps \cup TimerSteps \cup {"arm"} => ~armed
    /\ pc["main"] \in TimerSteps => tlock /\ pc["alarm"] = "off"
    /\ pc["main"] \in {"close", "closed"} => ~pending /\ pc["alarm"] = "off"
    /\ pc["alarm"] \in EnqueueSteps \cup TimerSteps \cup {"off"}
    /\ pc["alarm"] # "off" => tlock
    /\ pc["alarm"] \in EnqueueSteps \cup {"calls"} => pc["main"] = "off"

\* A packet that is on its way to its number is within the bound.
NumberInv == \A a \in Actors : pc[a] \in {"full", "enter"} => current_packet < MaxPackets

LinkInv == LibnetTypeOK /\ ActorsInv /\ NumberInv

LEMMA AfterIsSlot == ASSUME NEW s \in Slots PROVE After(s) \in Slots
BY LibnetAssumption DEF After, Slots

\* What LibnetTypeOK says of a state of the losses.
TrainOK(d) == /\ d \in [mode : BOOLEAN, counter : Nat, train : Trains \cup {0}]
              /\ IF d.mode THEN d.counter < d.train ELSE d = NoTrain

LEMMA NoTrainIsOK == TrainOK(NoTrain)
BY DEF TrainOK, NoTrain

LEMMA NewTrain ==
    ASSUME LibnetTypeOK, NEW n \in Trains, ~drops.mode
    PROVE  TrainOK([drops EXCEPT !.mode = TRUE, !.train = n])
<1> DEFINE d == [drops EXCEPT !.mode = TRUE, !.train = n]
<1>1. drops \in [mode : BOOLEAN, counter : Nat, train : Trains \cup {0}]
  BY DEF LibnetTypeOK
<1>2. drops.counter = 0
  BY DEF LibnetTypeOK, NoTrain
<1>3. d \in [mode : BOOLEAN, counter : Nat, train : Trains \cup {0}]
  BY <1>1
<1>4. d.mode = TRUE /\ d.counter = drops.counter /\ d.train = n
  BY <1>1
<1>5. n \in Nat /\ 0 < n
  BY LibnetAssumption
<1> HIDE DEF d
<1>6. TrainOK(d)
  <2>1. d.counter < d.train
    BY <1>2, <1>4, <1>5
  <2> QED BY <1>3, <1>4, <2>1 DEF TrainOK
<1> QED BY <1>6 DEF d

LEMMA CountedIsTrain == ASSUME LibnetTypeOK PROVE TrainOK(Counted)
<1>1. CASE drops.counter + 1 >= drops.train
  BY <1>1, NoTrainIsOK DEF Counted
<1>2. CASE ~(drops.counter + 1 >= drops.train)
  <2>1. drops \in [mode : BOOLEAN, counter : Nat, train : Trains \cup {0}]
    BY DEF LibnetTypeOK
  <2>2. drops.mode
    BY <1>2 DEF LibnetTypeOK, NoTrain
  <2>3. drops.train \in Nat /\ drops.counter \in Nat
    <3>1. Trains \cup {0} \subseteq Nat
      BY LibnetAssumption
    <3>2. drops.train \in Trains \cup {0} /\ drops.counter \in Nat
      BY <2>1
    <3> QED BY <3>1, <3>2
  <2> DEFINE d == [drops EXCEPT !.counter = @ + 1]
  <2>4. Counted = d
    BY <1>2 DEF Counted
  <2>5. d \in [mode : BOOLEAN, counter : Nat, train : Trains \cup {0}]
    BY <2>1, <2>3
  <2>6. d.mode = drops.mode /\ d.counter = drops.counter + 1 /\ d.train = drops.train
    BY <2>1
  <2>7. d.counter < d.train
    BY <1>2, <2>3, <2>6
  <2> HIDE DEF d
  <2> QED BY <2>2, <2>4, <2>5, <2>6, <2>7 DEF TrainOK
<1> QED BY <1>1, <1>2

LEMMA LinkInit == Init => LinkInv
<1> SUFFICES ASSUME Init PROVE LinkInv
  OBVIOUS
<1>1. 0 \in Slots
  BY LibnetAssumption DEF Slots
<1>2. LibnetTypeOK
  <2>1. ring \in [Slots -> [packet : 0 .. MaxPackets, left : Int]]
    BY LibnetAssumption DEF Init, Free, NoPacket
  <2>2. TrainOK(drops)
    BY NoTrainIsOK DEF Init
  <2>3. pc \in [Actors -> Steps] /\ busy \in [Actors -> Nat]
    BY DEF Init, Steps
  <2>4. out \in Seq(0 .. MaxPackets)
    BY DEF Init
  <2>5. current_packet \in 0 .. MaxPackets /\ sends \in 0 .. HandlerSends
    BY LibnetAssumption DEF Init
  <2> QED BY <1>1, <2>1, <2>2, <2>3, <2>4, <2>5 DEF Init, LibnetTypeOK, TrainOK
<1>3. ActorsInv /\ NumberInv
  BY DEF Init, ActorsInv, NumberInv, EnqueueSteps, TimerSteps, Actors
<1> QED BY <1>2, <1>3 DEF LinkInv

\* Where an actor may go from a step at which it runs.
LEMMA EnqueueKeeps ==
    ASSUME LinkInv, NEW a \in Actors, Enqueue(a) PROVE LinkInv'
<1> USE DEF LinkInv, At, GoTo, Runs, ringVars, lockVars, linkVars
<1>1. CASE RoomFound(a)
  <2>1. LibnetTypeOK'
    BY <1>1 DEF RoomFound, LibnetTypeOK, Steps, EnqueueSteps, Actors
  <2>2. ActorsInv' /\ NumberInv'
    BY <1>1 DEF RoomFound, LibnetTypeOK, ActorsInv, NumberInv, EnqueueSteps, TimerSteps, Actors
  <2> QED BY <2>1, <2>2
<1>2. CASE TakeQlock(a)
  <2>1. current_packet' \in 0 .. MaxPackets
    BY <1>2, LibnetAssumption DEF TakeQlock, LibnetTypeOK, NumberInv
  <2>2. pc' \in [Actors -> Steps]
    BY <1>2 DEF TakeQlock, Keep, Lose, LibnetTypeOK, Steps, EnqueueSteps
  <2>3. /\ drops' \in [mode : BOOLEAN, counter : Nat, train : Trains \cup {0}]
        /\ IF drops'.mode THEN drops'.counter < drops'.train ELSE drops' = NoTrain
    BY <1>2, NewTrain DEF TakeQlock, Keep, Lose, LibnetTypeOK, TrainOK
  <2>4. busy' \in [Actors -> Nat]
    BY <1>2, LibnetAssumption DEF TakeQlock, LibnetTypeOK
  <2>5. LibnetTypeOK'
    BY <1>2, <2>1, <2>2, <2>3, <2>4 DEF TakeQlock, LibnetTypeOK
  <2>6. ActorsInv'
    BY <1>2 DEF TakeQlock, Keep, Lose, LibnetTypeOK, ActorsInv, EnqueueSteps, TimerSteps, Actors
  <2>7. NumberInv'
    <3>1. \E s \in {"tx", "drop"} : pc' = [pc EXCEPT ![a] = s]
      BY <1>2 DEF TakeQlock, Keep, Lose
    <3>2. ASSUME NEW b \in Actors, pc'[b] \in {"full", "enter"} PROVE FALSE
      <4>1. pc \in [Actors -> Steps]
        BY DEF LibnetTypeOK
      <4>2. b # a
        BY <3>1, <3>2, <4>1
      <4>3. pc[b] \in {"full", "enter"} /\ pc[a] = "enter"
        BY <1>2, <3>1, <3>2, <4>1, <4>2 DEF TakeQlock
      <4> QED BY <4>2, <4>3 DEF ActorsInv, EnqueueSteps, TimerSteps, Actors
    <3> QED BY <3>2 DEF NumberInv
  <2> QED BY <2>5, <2>6, <2>7
<1>3. CASE Dropped(a)
  <2>1. /\ drops' \in [mode : BOOLEAN, counter : Nat, train : Trains \cup {0}]
        /\ IF drops'.mode THEN drops'.counter < drops'.train ELSE drops' = NoTrain
    BY <1>3, CountedIsTrain DEF Dropped, TrainOK
  <2>2. LibnetTypeOK'
    BY <1>3, <2>1 DEF Dropped, LibnetTypeOK, Steps, EnqueueSteps
  <2>3. ActorsInv' /\ NumberInv'
    BY <1>3 DEF Dropped, LibnetTypeOK, ActorsInv, NumberInv, EnqueueSteps, TimerSteps, Actors
  <2> QED BY <2>2, <2>3
<1>4. CASE Store(a)
  <2>1. ring' \in [Slots -> [packet : 0 .. MaxPackets, left : Int]]
    BY <1>4, LibnetAssumption DEF Store, LibnetTypeOK
  <2>2. LibnetTypeOK'
    BY <1>4, <2>1 DEF Store, LibnetTypeOK, Steps, EnqueueSteps
  <2>3. ActorsInv' /\ NumberInv'
    BY <1>4 DEF Store, LibnetTypeOK, ActorsInv, NumberInv, EnqueueSteps, TimerSteps, Actors
  <2> QED BY <2>2, <2>3
<1>5. CASE AdvanceEnd(a)
  <2>1. LibnetTypeOK'
    BY <1>5, AfterIsSlot DEF AdvanceEnd, LibnetTypeOK, Steps, EnqueueSteps
  <2>2. ActorsInv' /\ NumberInv'
    BY <1>5 DEF AdvanceEnd, LibnetTypeOK, ActorsInv, NumberInv, EnqueueSteps, TimerSteps, Actors
  <2> QED BY <2>1, <2>2
<1>6. CASE ReleaseQlock(a)
  <2>1. LibnetTypeOK'
    BY <1>6 DEF ReleaseQlock, LibnetTypeOK, Steps, EnqueueSteps
  <2>2. ActorsInv' /\ NumberInv'
    BY <1>6 DEF ReleaseQlock, LibnetTypeOK, ActorsInv, NumberInv, EnqueueSteps, TimerSteps, Actors
  <2> QED BY <2>1, <2>2
<1> QED BY <1>1, <1>2, <1>3, <1>4, <1>5, <1>6 DEF Enqueue

LEMMA TimerKeeps ==
    ASSUME LinkInv, NEW a \in Actors, Timer(a) PROVE LinkInv'
<1> USE DEF LinkInv, At, GoTo, Runs, ringVars, lockVars, linkVars
<1>1. CASE EnterTimer(a)
  <2>1. LibnetTypeOK'
    BY <1>1 DEF EnterTimer, TimerBusy, Returned, LibnetTypeOK, Steps, TimerSteps
  <2>2. ActorsInv' /\ NumberInv'
    BY <1>1 DEF EnterTimer, TimerBusy, Returned, LibnetTypeOK, ActorsInv, NumberInv,
                EnqueueSteps, TimerSteps, Actors
  <2> QED BY <2>1, <2>2
<1>2. CASE FoundDue(a)
  <2>1. LibnetTypeOK'
    BY <1>2 DEF FoundDue, LibnetTypeOK, Steps, TimerSteps
  <2>2. ActorsInv' /\ NumberInv'
    BY <1>2 DEF FoundDue, LibnetTypeOK, ActorsInv, NumberInv, EnqueueSteps, TimerSteps, Actors
  <2> QED BY <2>1, <2>2
<1>3. CASE AdvanceStart(a)
  <2>1. LibnetTypeOK'
    BY <1>3, AfterIsSlot DEF AdvanceStart, LibnetTypeOK, Steps, TimerSteps
  <2>2. ActorsInv' /\ NumberInv'
    BY <1>3 DEF AdvanceStart, LibnetTypeOK, ActorsInv, NumberInv, EnqueueSteps, TimerSteps, Actors
  <2> QED BY <2>1, <2>2
<1>4. CASE Transmit(a)
  <2>1. /\ ring[ptr].packet \in 0 .. MaxPackets
        /\ Free \in [packet : 0 .. MaxPackets, left : Int]
        /\ 0 \in Slots
    BY LibnetAssumption DEF LibnetTypeOK, Free, NoPacket, Slots
  <2>2. out' \in Seq(0 .. MaxPackets)
    BY <1>4, <2>1 DEF Transmit, LibnetTypeOK
  <2>3. ring' \in [Slots -> [packet : 0 .. MaxPackets, left : Int]]
    BY <1>4, <2>1 DEF Transmit, LibnetTypeOK
  <2>4. LibnetTypeOK'
    BY <1>4, <2>1, <2>2, <2>3 DEF Transmit, LibnetTypeOK, Steps, TimerSteps
  <2>5. ActorsInv' /\ NumberInv'
    BY <1>4 DEF Transmit, LibnetTypeOK, ActorsInv, NumberInv, EnqueueSteps, TimerSteps, Actors
  <2> QED BY <2>4, <2>5
<1>5. CASE LeaveTimer(a)
  <2>1. LibnetTypeOK'
    BY <1>5 DEF LeaveTimer, TimerReturned, LibnetTypeOK, Steps
  <2>2. ActorsInv' /\ NumberInv'
    BY <1>5 DEF LeaveTimer, TimerReturned, LibnetTypeOK, ActorsInv, NumberInv,
                EnqueueSteps, TimerSteps, Actors
  <2> QED BY <2>1, <2>2
<1>6. CASE CallUser(a)
  <2>1. LibnetTypeOK'
    BY <1>6, LibnetAssumption DEF CallUser, LibnetTypeOK, Steps, TimerSteps
  <2>2. ActorsInv' /\ NumberInv'
    BY <1>6 DEF CallUser, LibnetTypeOK, ActorsInv, NumberInv, Steps, EnqueueSteps, TimerSteps, Actors
  <2> QED BY <2>1, <2>2
<1>7. CASE UserReturns(a)
  <2>1. LibnetTypeOK'
    <3>1. pc' \in [Actors -> Steps]
      BY <1>7 DEF UserReturns, TimerReturned, LibnetTypeOK, Steps
    <3>2. sends' \in 0 .. HandlerSends
      BY <1>7, LibnetAssumption DEF UserReturns
    <3>3. armed' \in BOOLEAN
      BY <1>7 DEF UserReturns
    <3> QED BY <1>7, <3>1, <3>2, <3>3 DEF UserReturns, LibnetTypeOK
  <2>2. ActorsInv' /\ NumberInv'
    BY <1>7 DEF UserReturns, TimerReturned, LibnetTypeOK, ActorsInv, NumberInv,
                EnqueueSteps, TimerSteps, Actors
  <2> QED BY <2>1, <2>2
<1> QED BY <1>1, <1>2, <1>3, <1>4, <1>5, <1>6, <1>7 DEF Timer

LEMMA UserKeeps ==
    ASSUME LinkInv, Send \/ Arm \/ BeginClose \/ EndClose \/ Sigalrm
                    \/ \E a \in Actors : UserSends(a)
    PROVE  LinkInv'
<1> USE DEF LinkInv, At, GoTo, Runs, ringVars, lockVars, linkVars
<1>1. LibnetTypeOK'
  <2>1. CASE Send
    BY <2>1 DEF Send, Disarmed, LibnetTypeOK, Steps, EnqueueSteps
  <2>2. CASE Arm
    BY <2>2 DEF Arm, LibnetTypeOK, Steps
  <2>3. CASE BeginClose \/ EndClose
    BY <2>3 DEF BeginClose, EndClose, LibnetTypeOK, Steps
  <2>4. CASE Sigalrm
    BY <2>4 DEF Sigalrm, LibnetTypeOK, Steps, TimerSteps
  <2>5. ASSUME NEW a \in Actors, UserSends(a) PROVE LibnetTypeOK'
    BY <2>5, LibnetAssumption DEF UserSends, LibnetTypeOK, Steps, EnqueueSteps
  <2> QED BY <2>1, <2>2, <2>3, <2>4, <2>5
<1>2. ActorsInv' /\ NumberInv'
  <2> USE DEF LibnetTypeOK, ActorsInv, NumberInv, EnqueueSteps, TimerSteps, Actors
  <2>1. CASE Send
    BY <2>1 DEF Send, Disarmed
  <2>2. CASE Arm
    BY <2>2 DEF Arm
  <2>3. CASE BeginClose \/ EndClose
    BY <2>3 DEF BeginClose, EndClose
  <2>4. CASE Sigalrm
    BY <2>4 DEF Sigalrm, TimerBusy
  <2>5. ASSUME NEW a \in Actors, UserSends(a) PROVE ActorsInv' /\ NumberInv'
    BY <2>5 DEF UserSends
  <2> QED BY <2>1, <2>2, <2>3, <2>4, <2>5
<1> QED BY <1>1, <1>2

LEMMA FlushKeeps == ASSUME LinkInv, Flush PROVE LinkInv'
<1> USE DEF LinkInv
<1>1. /\ ring[qstart].packet \in 0 .. MaxPackets
      /\ Free \in [packet : 0 .. MaxPackets, left : Int]
  BY LibnetAssumption DEF LibnetTypeOK, Free, NoPacket
<1>2. out' \in Seq(0 .. MaxPackets)
  BY <1>1 DEF Flush, LibnetTypeOK
<1>3. ring' \in [Slots -> [packet : 0 .. MaxPackets, left : Int]]
  BY <1>1 DEF Flush, LibnetTypeOK
<1>4. LibnetTypeOK'
  BY <1>2, <1>3, AfterIsSlot DEF Flush, LibnetTypeOK, lockVars, linkVars
<1>5. ActorsInv' /\ NumberInv'
  BY DEF Flush, ActorsInv, NumberInv, lockVars, linkVars
<1> QED BY <1>4, <1>5

LEMMA TickKeeps == ASSUME LinkInv, Tick PROVE LinkInv'
<1> USE DEF LinkInv
<1>1. ASSUME NEW s \in Slots PROVE Older(s) \in [packet : 0 .. MaxPackets, left : Int]
  <2>1. ring[s] \in [packet : 0 .. MaxPackets, left : Int]
    BY DEF LibnetTypeOK
  <2>2. CASE ring[s].left < -MaxOverdue
    BY <2>1, <2>2 DEF Older
  <2>3. CASE ~(ring[s].left < -MaxOverdue)
    <3>1. Older(s) = [ring[s] EXCEPT !.left = @ - 1]
      BY <2>3 DEF Older
    <3> QED BY <2>1, <3>1
  <2> QED BY <2>2, <2>3
<1>2. ring' \in [Slots -> [packet : 0 .. MaxPackets, left : Int]]
  BY <1>1 DEF Tick, LibnetTypeOK
<1>3. busy' \in [Actors -> Nat]
  BY DEF Tick, LibnetTypeOK
<1>4. pending' \in BOOLEAN
  BY DEF Tick
<1>5. LibnetTypeOK'
  BY <1>2, <1>3, <1>4 DEF Tick, LibnetTypeOK, lockVars, linkVars
<1>6. ActorsInv' /\ NumberInv'
  BY DEF Tick, ActorsInv, NumberInv, lockVars, linkVars
<1> QED BY <1>5, <1>6

THEOREM LinkInvariant == Spec => []LinkInv
<1>1. LinkInv /\ [Next]_vars => LinkInv'
  <2> SUFFICES ASSUME LinkInv, [Next]_vars PROVE LinkInv'
    OBVIOUS
  <2>1. CASE UNCHANGED vars
    BY <2>1 DEF vars, ringVars, lockVars, linkVars, LinkInv, LibnetTypeOK, ActorsInv, NumberInv
  <2>2. CASE Next
    BY <2>2, EnqueueKeeps, TimerKeeps, UserKeeps, FlushKeeps, TickKeeps DEF Next
  <2> QED BY <2>1, <2>2
<1> QED BY <1>1, LinkInit, PTL DEF Spec

\* The ring, the locks, the losses and the two actors keep their types, and a
\* train of losses starts anew as a whole, for every ring, user and bound.
THEOREM LibnetTypeCorrect == Spec => []LibnetTypeOK
<1>1. LinkInv => LibnetTypeOK
  BY DEF LinkInv
<1> QED BY <1>1, LinkInvariant, PTL

\* The thread and the handler are never both between the test for a full ring
\* and qlock = 0, nor both in timer(), though the code tests before it locks.
THEOREM OneActorInQueue == Spec => []OneInQueue
<1>1. LinkInv => OneInQueue
  BY DEF LinkInv, LibnetTypeOK, ActorsInv, OneInQueue, Exclusive, EnqueueSteps, TimerSteps, Actors
<1> QED BY <1>1, LinkInvariant, PTL

-------------------------------------------------------------------------------
(* Arithmetic of the ring.                                                 *)

LEMMA RingRemainder ==
    ASSUME NEW x \in Int, NEW k \in Int, NEW r \in Slots, x = RingSize * k + r
    PROVE  x % RingSize = r
<1> DEFINE q == x \div RingSize
           m == x % RingSize
<1>1. RingSize \in Nat /\ RingSize >= 2 /\ r \in Int /\ 0 <= r /\ r < RingSize
  BY LibnetAssumption DEF Slots
<1>2. x = RingSize * q + m /\ q \in Int /\ m \in Int /\ 0 <= m /\ m < RingSize
  BY <1>1
<1> HIDE DEF q, m
<1>3. RingSize * (q - k) = r - m
  BY <1>1, <1>2
<1>4. q = k
  <2>1. SUFFICES ASSUME q - k >= 1 \/ q - k <= -1 PROVE FALSE
    BY <1>2
  <2>2. CASE q - k >= 1
    <3>1. RingSize * (q - k) >= RingSize
      BY <1>1, <1>2, <2>2
    <3> QED BY <1>1, <1>2, <1>3, <3>1
  <2>3. CASE q - k <= -1
    <3>1. RingSize * (q - k) <= 0 - RingSize
      BY <1>1, <1>2, <2>3
    <3> QED BY <1>1, <1>2, <1>3, <3>1
  <2> QED BY <2>1, <2>2, <2>3
<1> QED BY <1>1, <1>2, <1>4 DEF m

\* Less than a round away from the ring, the remainder is one case or another.
LEMMA RingMod ==
    ASSUME NEW x \in Int, -RingSize <= x, x < 2 * RingSize
    PROVE  x % RingSize = IF x < 0 THEN x + RingSize
                          ELSE IF x < RingSize THEN x ELSE x - RingSize
<1>1. RingSize \in Nat /\ RingSize >= 2
  BY LibnetAssumption
<1>2. CASE x < 0
  <2>1. x + RingSize \in Slots /\ x = RingSize * (-1) + (x + RingSize)
    BY <1>1, <1>2 DEF Slots
  <2> QED BY <1>2, <2>1, RingRemainder
<1>3. CASE x >= 0 /\ x < RingSize
  <2>1. x \in Slots /\ x = RingSize * 0 + x
    BY <1>1, <1>3 DEF Slots
  <2> QED BY <1>3, <2>1, RingRemainder
<1>4. CASE x >= RingSize
  <2>1. x - RingSize \in Slots /\ x = RingSize * 1 + (x - RingSize)
    BY <1>1, <1>4 DEF Slots
  <2> QED BY <1>1, <1>4, <2>1, RingRemainder
<1> QED BY <1>1, <1>2, <1>3, <1>4

LEMMA AfterIs ==
    ASSUME NEW s \in Slots
    PROVE  After(s) = IF s = RingSize - 1 THEN 0 ELSE s + 1
<1>1. RingSize \in Nat /\ RingSize >= 2 /\ s \in Int /\ 0 <= s /\ s < RingSize
  BY LibnetAssumption DEF Slots
<1>2. s + 1 \in Int /\ -RingSize <= s + 1 /\ s + 1 < 2 * RingSize
  BY <1>1
<1>3. (s + 1) % RingSize = IF s + 1 < 0 THEN (s + 1) + RingSize
                           ELSE IF s + 1 < RingSize THEN s + 1 ELSE (s + 1) - RingSize
  BY <1>2, RingMod
<1> QED BY <1>1, <1>3 DEF After

-------------------------------------------------------------------------------
(* The packets in the ring.                                                *)

\* The number of slots from s up to e, and the one i - 1 slots after s.
Used(s, e) == (e - s) % RingSize
Nth(s, i) == (s + i - 1) % RingSize

Contents(r, s, e) == [i \in 1 .. Used(s, e) |-> r[Nth(s, i)].packet]

LEMMA UsedIs ==
    ASSUME NEW s \in Slots, NEW e \in Slots
    PROVE  /\ Used(s, e) = IF e >= s THEN e - s ELSE (e - s) + RingSize
           /\ Used(s, e) \in Slots
<1>1. /\ RingSize \in Nat /\ RingSize >= 2
      /\ s \in Int /\ 0 <= s /\ s < RingSize /\ e \in Int /\ 0 <= e /\ e < RingSize
  BY LibnetAssumption DEF Slots
<1>2. e - s \in Int /\ -RingSize <= e - s /\ e - s < 2 * RingSize
  BY <1>1
<1>3. (e - s) % RingSize = IF e - s < 0 THEN (e - s) + RingSize
                           ELSE IF e - s < RingSize THEN e - s ELSE (e - s) - RingSize
  BY <1>2, RingMod
<1> QED BY <1>1, <1>3 DEF Used, Slots

LEMMA NthIs ==
    ASSUME NEW s \in Slots, NEW i \in 1 .. RingSize
    PROVE  /\ Nth(s, i) = IF s + i - 1 < RingSize THEN s + i - 1
                          ELSE (s + i - 1) - RingSize
           /\ Nth(s, i) \in Slots
<1>1. /\ RingSize \in Nat /\ RingSize >= 2 /\ s \in Int /\ 0 <= s /\ s < RingSize
      /\ i \in Int /\ 1 <= i /\ i <= RingSize
  BY LibnetAssumption DEF Slots
<1> DEFINE x == s + i - 1
<1>2. x \in Int /\ 0 <= x /\ x < 2 * RingSize
  BY <1>1
<1> HIDE DEF x
<1>3. x % RingSize = IF x < 0 THEN x + RingSize
                     ELSE IF x < RingSize THEN x ELSE x - RingSize
  BY <1>1, <1>2, RingMod
<1>4. Nth(s, i) = IF x < RingSize THEN x ELSE x - RingSize
  BY <1>2, <1>3 DEF Nth, x
<1> QED BY <1>1, <1>2, <1>4 DEF x, Slots

\* The places when a slot is put at the end, and when the oldest is taken.
LEMMA PlaceAppended ==
    ASSUME NEW s \in Slots, NEW e \in Slots, After(e) # s
    PROVE  Used(s, After(e)) = Used(s, e) + 1 /\ Nth(s, Used(s, e) + 1) = e
<1> DEFINE f == After(e)
           n == Used(s, e)
<1>1. /\ RingSize \in Nat /\ RingSize >= 2 /\ f \in Slots
      /\ s \in Int /\ 0 <= s /\ s < RingSize /\ e \in Int /\ 0 <= e /\ e < RingSize
  BY LibnetAssumption, AfterIsSlot DEF Slots
<1>2. f = IF e = RingSize - 1 THEN 0 ELSE e + 1
  BY AfterIs
<1>3. /\ n = IF e >= s THEN e - s ELSE (e - s) + RingSize
      /\ Used(s, f) = IF f >= s THEN f - s ELSE (f - s) + RingSize
  BY <1>1, UsedIs
<1>4. n + 1 \in 1 .. RingSize
  BY <1>1, <1>3
<1>5. Nth(s, n + 1) = IF s + (n + 1) - 1 < RingSize THEN s + (n + 1) - 1
                      ELSE (s + (n + 1) - 1) - RingSize
  BY <1>4, NthIs
<1>6. f # s
  OBVIOUS
<1> HIDE DEF f, n
<1>7. Used(s, f) = n + 1
  BY <1>1, <1>2, <1>3, <1>6
<1>8. Nth(s, n + 1) = e
  BY <1>1, <1>3, <1>4, <1>5
<1> QED BY <1>7, <1>8 DEF f, n

LEMMA PlaceTaken ==
    ASSUME NEW s \in Slots, NEW e \in Slots, s # e
    PROVE  /\ Used(s, e) = Used(After(s), e) + 1 /\ Used(After(s), e) < RingSize
           /\ Nth(s, 1) = s
           /\ \A i \in 1 .. Used(After(s), e) : Nth(s, i + 1) = Nth(After(s), i)
<1> DEFINE t == After(s)
           n == Used(t, e)
<1>1. t \in Slots /\ n \in Slots
  BY AfterIsSlot, UsedIs
<1>2. n \in Int
  BY <1>1 DEF Slots
<1>3. /\ RingSize \in Nat /\ RingSize >= 2
      /\ s \in Int /\ 0 <= s /\ s < RingSize /\ e \in Int /\ 0 <= e /\ e < RingSize
      /\ t \in Int
  BY <1>1, LibnetAssumption DEF Slots
<1>4. t = IF s = RingSize - 1 THEN 0 ELSE s + 1
  BY AfterIs
<1>5. Used(s, e) = n + 1 /\ n < RingSize
  <2>1. /\ n = IF e >= t THEN e - t ELSE (e - t) + RingSize
        /\ Used(s, e) = IF e >= s THEN e - s ELSE (e - s) + RingSize
    BY <1>1, UsedIs
  <2> HIDE DEF t, n
  <2> QED BY <1>3, <1>4, <2>1
<1>6. Nth(s, 1) = s
  <2>1. 1 \in 1 .. RingSize
    BY <1>3
  <2>2. Nth(s, 1) = IF s + 1 - 1 < RingSize THEN s + 1 - 1 ELSE (s + 1 - 1) - RingSize
    BY <2>1, NthIs
  <2> QED BY <1>3, <2>2
<1>7. \A i \in 1 .. n : Nth(s, i + 1) = Nth(t, i)
  <2> SUFFICES ASSUME NEW i \in 1 .. n PROVE Nth(s, i + 1) = Nth(t, i)
    OBVIOUS
  <2>1. i \in 1 .. RingSize /\ i + 1 \in 1 .. RingSize /\ i \in Int
    BY <1>2, <1>3, <1>5
  <2>2. /\ Nth(s, i + 1) = IF s + (i + 1) - 1 < RingSize THEN s + (i + 1) - 1
                           ELSE (s + (i + 1) - 1) - RingSize
        /\ Nth(t, i) = IF t + i - 1 < RingSize THEN t + i - 1 ELSE (t + i - 1) - RingSize
    BY <1>1, <2>1, NthIs
  <2> HIDE DEF t, n
  <2> QED BY <1>3, <1>4, <2>1, <2>2
<1> QED BY <1>5, <1>6, <1>7

LEMMA ContentsType ==
    ASSUME NEW r \in [Slots -> [packet : 0 .. MaxPackets, left : Int]],
           NEW s \in Slots, NEW e \in Slots
    PROVE  /\ Contents(r, s, e) \in Seq(0 .. MaxPackets)
           /\ Len(Contents(r, s, e)) = Used(s, e) /\ Used(s, e) \in Nat
           /\ \A i \in 1 .. Used(s, e) : /\ Contents(r, s, e)[i] = r[Nth(s, i)].packet
                                         /\ Nth(s, i) \in Slots
<1> DEFINE n == Used(s, e)
           c == Contents(r, s, e)
<1>1. n \in Nat /\ n < RingSize /\ RingSize \in Nat
  <2>1. n \in Slots
    BY UsedIs
  <2> HIDE DEF n
  <2> QED BY <2>1, LibnetAssumption DEF Slots
<1>2. c = [i \in 1 .. n |-> r[Nth(s, i)].packet]
  BY DEF Contents
<1> HIDE DEF c, n
<1>3. \A i \in 1 .. n : i \in 1 .. RingSize
  BY <1>1
<1>4. \A i \in 1 .. n : Nth(s, i) \in Slots
  BY <1>3, NthIs
<1>5. \A i \in 1 .. n : r[Nth(s, i)].packet \in 0 .. MaxPackets
  BY <1>4
<1>6. c \in Seq(0 .. MaxPackets) /\ Len(c) = n
  BY <1>1, <1>2, <1>5
<1>7. \A i \in 1 .. n : c[i] = r[Nth(s, i)].packet
  BY <1>2
<1> QED BY <1>1, <1>4, <1>6, <1>7 DEF c, n

\* A slot put at the end.
LEMMA ContentsAppend ==
    ASSUME NEW r \in [Slots -> [packet : 0 .. MaxPackets, left : Int]],
           NEW s \in Slots, NEW e \in Slots, After(e) # s
    PROVE  Contents(r, s, After(e)) = Append(Contents(r, s, e), r[e].packet)
<1> DEFINE f == After(e)
           n == Used(s, e)
           c == Contents(r, s, e)
           d == Contents(r, s, f)
<1>1. f \in Slots
  BY AfterIsSlot
<1>2. /\ c \in Seq(0 .. MaxPackets) /\ Len(c) = n /\ n \in Nat
      /\ \A i \in 1 .. n : c[i] = r[Nth(s, i)].packet
  BY ContentsType
<1>3. Used(s, f) = n + 1 /\ Nth(s, n + 1) = e
  BY PlaceAppended
<1>4. /\ d \in Seq(0 .. MaxPackets) /\ Len(d) = n + 1
      /\ \A i \in 1 .. n + 1 : d[i] = r[Nth(s, i)].packet
  <2>1. /\ d \in Seq(0 .. MaxPackets) /\ Len(d) = Used(s, f)
        /\ \A i \in 1 .. Used(s, f) : d[i] = r[Nth(s, i)].packet
    BY <1>1, ContentsType
  <2> HIDE DEF d, n, f
  <2> QED BY <1>3, <2>1
<1>5. r[e].packet \in 0 .. MaxPackets
  OBVIOUS
<1> DEFINE x == r[e].packet
           a == Append(c, x)
<1> HIDE DEF c, d, n, x
<1>6. /\ a \in Seq(0 .. MaxPackets) /\ Len(a) = n + 1
      /\ \A i \in 1 .. n : a[i] = c[i]
      /\ a[n + 1] = x
  BY <1>2, <1>5, AppendProperties DEF x
<1> HIDE DEF a
<1>7. \A i \in 1 .. Len(d) : d[i] = a[i]
  <2>1. SUFFICES ASSUME NEW i \in 1 .. n + 1 PROVE d[i] = a[i]
    BY <1>4
  <2>2. CASE i = n + 1
    BY <1>3, <1>4, <1>6, <2>1, <2>2 DEF x
  <2>3. CASE i # n + 1
    <3>1. i \in 1 .. n
      BY <1>2, <2>3
    <3> QED BY <1>2, <1>4, <1>6, <2>1, <3>1
  <2> QED BY <2>2, <2>3
<1>8. d = a
  BY <1>4, <1>6, <1>7, SeqEqual
<1> QED BY <1>8 DEF a, c, d, x

\* The oldest slot taken.
LEMMA ContentsTail ==
    ASSUME NEW r \in [Slots -> [packet : 0 .. MaxPackets, left : Int]],
           NEW s \in Slots, NEW e \in Slots, s # e
    PROVE  Contents(r, s, e) = <<r[s].packet>> \o Contents(r, After(s), e)
<1> DEFINE t == After(s)
           n == Used(t, e)
           c == Contents(r, s, e)
           d == Contents(r, t, e)
           x == r[s].packet
           one == <<x>>
           a == one \o d
<1>1. t \in Slots
  BY AfterIsSlot
<1>2. /\ d \in Seq(0 .. MaxPackets) /\ Len(d) = n /\ n \in Nat
      /\ \A i \in 1 .. n : d[i] = r[Nth(t, i)].packet
  BY <1>1, ContentsType
<1>3. Used(s, e) = n + 1 /\ n < RingSize /\ Nth(s, 1) = s
  BY PlaceTaken
<1>4. \A i \in 1 .. n : Nth(s, i + 1) = Nth(t, i)
  BY PlaceTaken
<1>5. /\ c \in Seq(0 .. MaxPackets) /\ Len(c) = n + 1
      /\ \A i \in 1 .. n + 1 : c[i] = r[Nth(s, i)].packet
  <2>1. /\ c \in Seq(0 .. MaxPackets) /\ Len(c) = Used(s, e)
        /\ \A i \in 1 .. Used(s, e) : c[i] = r[Nth(s, i)].packet
    BY ContentsType
  <2> HIDE DEF c, n
  <2> QED BY <1>3, <2>1
<1>6. x \in 0 .. MaxPackets /\ one \in Seq(0 .. MaxPackets) /\ Len(one) = 1 /\ one[1] = x
  OBVIOUS
<1> HIDE DEF c, d, n, x, t, one
<1>7. /\ a \in Seq(0 .. MaxPackets) /\ Len(a) = 1 + n
       /\ \A i \in 1 .. 1 + n : a[i] = IF i <= 1 THEN one[i] ELSE d[i - 1]
  <2>1. /\ a \in Seq(0 .. MaxPackets) /\ Len(a) = Len(one) + Len(d)
        /\ \A i \in 1 .. Len(one) + Len(d) :
              a[i] = IF i <= Len(one) THEN one[i] ELSE d[i - Len(one)]
    BY <1>2, <1>6, ConcatProperties, Zenon
  <2> HIDE DEF a
  <2> QED BY <1>2, <1>6, <2>1
<1> HIDE DEF a
<1>8. \A i \in 1 .. Len(c) : c[i] = a[i]
  <2>1. SUFFICES ASSUME NEW i \in 1 .. n + 1 PROVE c[i] = a[i]
    BY <1>5
  <2>2. CASE i = 1
    BY <1>2, <1>3, <1>5, <1>6, <1>7, <2>1, <2>2 DEF x
  <2>3. CASE i # 1
    <3>1. i - 1 \in 1 .. n /\ i = (i - 1) + 1
      BY <1>2, <2>3
    <3>2. Nth(s, i) = Nth(t, i - 1)
      BY <1>4, <3>1
    <3>3. a[i] = d[i - 1]
      BY <1>2, <1>7, <2>1, <2>3
    <3>4. c[i] = r[Nth(s, i)].packet
      BY <1>5, <2>1
    <3> QED BY <1>2, <3>1, <3>2, <3>3, <3>4
  <2> QED BY <2>2, <2>3
<1>9. c = a
  <2>1. Len(c) = Len(a)
    BY <1>2, <1>5, <1>7
  <2> QED BY <1>5, <1>7, <1>8, <2>1, SeqEqual
<1> QED BY <1>9 DEF a, c, d, x, t, one

\* The slot at the end and the one before the start are not in use.
LEMMA UnusedSlots ==
    ASSUME NEW s \in Slots, NEW e \in Slots, NEW i \in 1 .. Used(s, e)
    PROVE  Nth(s, i) # e /\ After(Nth(s, i)) # s
<1> DEFINE n == Used(s, e)
           x == Nth(s, i)
<1>1. /\ RingSize \in Nat /\ RingSize >= 2
      /\ s \in Int /\ 0 <= s /\ s < RingSize /\ e \in Int /\ 0 <= e /\ e < RingSize
  BY LibnetAssumption DEF Slots
<1>2. n = (IF e >= s THEN e - s ELSE (e - s) + RingSize) /\ n \in Int /\ n < RingSize
  <2>1. n = (IF e >= s THEN e - s ELSE (e - s) + RingSize)
    BY UsedIs
  <2> HIDE DEF n
  <2> QED BY <1>1, <2>1
<1>3. i \in Int /\ 1 <= i /\ i <= n /\ i \in 1 .. RingSize
  <2>1. i \in 1 .. n
    OBVIOUS
  <2> HIDE DEF n
  <2> QED BY <1>1, <1>2, <2>1
<1>4. x = (IF s + i - 1 < RingSize THEN s + i - 1 ELSE (s + i - 1) - RingSize) /\ x \in Slots
  BY <1>3, NthIs
<1>5. After(x) = IF x = RingSize - 1 THEN 0 ELSE x + 1
  BY <1>4, AfterIs
<1> HIDE DEF x, n
<1>6. x # e
  BY <1>1, <1>2, <1>3, <1>4
<1>7. After(x) # s
  BY <1>1, <1>2, <1>3, <1>4, <1>5
<1> QED BY <1>6, <1>7 DEF x

LEMMA AfterInjective ==
    ASSUME NEW s \in Slots, NEW e \in Slots, After(s) = After(e) PROVE s = e
<1>1. PICK x \in Int : /\ x = IF s = RingSize - 1 THEN 0 ELSE s + 1
                       /\ x = IF e = RingSize - 1 THEN 0 ELSE e + 1
  <2>1. /\ After(s) = IF s = RingSize - 1 THEN 0 ELSE s + 1
        /\ After(e) = IF e = RingSize - 1 THEN 0 ELSE e + 1
    BY AfterIs
  <2>2. After(s) \in Int
    BY AfterIsSlot, LibnetAssumption DEF Slots
  <2> QED BY <2>1, <2>2
<1>2. RingSize \in Nat /\ s \in Int /\ 0 <= s /\ e \in Int /\ 0 <= e
  BY LibnetAssumption DEF Slots
<1> QED BY <1>1, <1>2

\* Only the packets of the slots in use count.
LEMMA ContentsKept ==
    ASSUME NEW r, NEW q, NEW s, NEW e,
           \A i \in 1 .. Used(s, e) : q[Nth(s, i)].packet = r[Nth(s, i)].packet
    PROVE  Contents(q, s, e) = Contents(r, s, e)
BY DEF Contents

LEMMA WaitingIs == Waiting = Contents(ring, qstart, qend)
BY DEF Waiting, InUse, Contents, Used, Nth

LEMMA WaitingWillBe == Waiting' = Contents(ring', qstart', qend')
BY DEF Waiting, InUse, Contents, Used, Nth

-------------------------------------------------------------------------------
(* The invariant of the ring.                                              *)

\* Between the test for a full ring and qend = ..., the handler does not fill the
\* ring and does not touch the slot; between qstart = ... and sendto, the thread
\* does not use the slot that was taken out.
RingInv ==
    /\ \A a \in Actors : pc[a] \in {"enter", "tx", "drop", "queue"} => ~Full
    /\ \A a \in Actors : pc[a] = "queue" => ring[qend].packet = current_packet
    /\ \A a \in Actors : pc[a] = "advance" => qstart # qend
    /\ \A a \in Actors : pc[a] = "send" => ptr # qend /\ After(ptr) = qstart

LEMMA RingInit == Init => RingInv
BY DEF Init, RingInv, Actors

\* While one actor runs in enqueue_data the other one is between two calls, and
\* while one is in timer() the other one is not.
LEMMA Alone ==
    ASSUME LinkInv, NEW a \in Actors, Runs(a), NEW b \in Actors \ {a}
    PROVE  /\ pc[a] \in EnqueueSteps \cup {"calls"} => pc[b] = "off"
           /\ pc[a] \in TimerSteps => pc[b] \notin TimerSteps
<1>1. ActorsInv
  BY DEF LinkInv
<1>2. CASE a = "main"
  <2>1. b = "alarm" /\ pc[b] = "off"
    BY <1>2 DEF Runs, Actors
  <2> QED BY <2>1 DEF TimerSteps
<1>3. CASE a = "alarm"
  <2>1. b = "main"
    BY <1>3 DEF Actors
  <2> QED BY <1>1, <1>3, <2>1 DEF ActorsInv, EnqueueSteps, TimerSteps
<1> QED BY <1>2, <1>3 DEF Actors

\* A step that leaves the ring alone, and takes no actor to a step that RingInv
\* speaks of.
LEMMA RingInvKept ==
    ASSUME RingInv, UNCHANGED <<ring, qstart, qend, ptr>>,
           \A b \in Actors : pc'[b] = pc[b]
              \/ pc'[b] \notin {"enter", "tx", "drop", "queue", "advance", "send"},
           \A b \in Actors : pc[b] = "queue" => UNCHANGED current_packet
    PROVE  RingInv'
BY DEF RingInv, Full

LEMMA EnqueueKeepsRing == ASSUME LinkInv, RingInv, NEW a \in Actors, Enqueue(a) PROVE RingInv'
<1> USE DEF At, GoTo, ringVars, lockVars, linkVars
<1>1. pc \in [Actors -> Steps] /\ Runs(a) /\ pc[a] \in EnqueueSteps
  BY DEF LinkInv, LibnetTypeOK, Enqueue, RoomFound, TakeQlock, Dropped, Store, AdvanceEnd,
         ReleaseQlock, EnqueueSteps
<1>2. \A b \in Actors \ {a} : pc[b] = "off"
  BY <1>1, Alone
<1>3. /\ ring \in [Slots -> [packet : 0 .. MaxPackets, left : Int]]
      /\ qstart \in Slots /\ qend \in Slots
  BY DEF LinkInv, LibnetTypeOK
<1>4. CASE RoomFound(a)
  BY <1>1, <1>2, <1>4 DEF RoomFound, RingInv, Full
<1>5. CASE TakeQlock(a)
  BY <1>1, <1>2, <1>5 DEF TakeQlock, Keep, Lose, RingInv, Full
<1>6. CASE Dropped(a) \/ ReleaseQlock(a)
  BY <1>1, <1>2, <1>6 DEF Dropped, ReleaseQlock, RingInv, Full
<1>7. CASE Store(a)
  <2>1. pc' = [pc EXCEPT ![a] = "queue"] /\ pc[a] = "tx" /\ UNCHANGED <<qstart, qend, current_packet>>
    BY <1>7 DEF Store
  <2>2. ring'[qend].packet = current_packet
    BY <1>3, <1>7 DEF Store
  <2> QED BY <1>1, <1>2, <2>1, <2>2 DEF RingInv, Full
<1>8. CASE AdvanceEnd(a)
  BY <1>1, <1>2, <1>8 DEF AdvanceEnd, RingInv
<1> QED BY <1>4, <1>5, <1>6, <1>7, <1>8 DEF Enqueue

LEMMA TimerKeepsRing == ASSUME LinkInv, RingInv, NEW a \in Actors, Timer(a) PROVE RingInv'
<1> USE DEF At, GoTo, ringVars, lockVars, linkVars
<1>1. pc \in [Actors -> Steps] /\ Runs(a)
  BY DEF LinkInv, LibnetTypeOK, Timer, EnterTimer, FoundDue, AdvanceStart, Transmit,
         LeaveTimer, CallUser, UserReturns
<1>2. /\ ring \in [Slots -> [packet : 0 .. MaxPackets, left : Int]]
      /\ qstart \in Slots /\ qend \in Slots /\ ptr \in Slots
  BY DEF LinkInv, LibnetTypeOK
<1>3. CASE EnterTimer(a) \/ LeaveTimer(a) \/ CallUser(a) \/ UserReturns(a)
  <2>1. UNCHANGED <<ring, qstart, qend, ptr, current_packet>>
    BY <1>3 DEF EnterTimer, LeaveTimer, CallUser, UserReturns
  <2>2. \A b \in Actors : pc'[b] = pc[b]
           \/ pc'[b] \notin {"enter", "tx", "drop", "queue", "advance", "send"}
    BY <1>1, <1>3 DEF EnterTimer, LeaveTimer, CallUser, UserReturns, Returned, TimerReturned
  <2> QED BY <2>1, <2>2, RingInvKept
<1>4. CASE FoundDue(a)
  BY <1>1, <1>4 DEF FoundDue, Due, RingInv, Full
<1>5. CASE AdvanceStart(a)
  <2>1. /\ pc[a] = "advance" /\ pc' = [pc EXCEPT ![a] = "send"]
        /\ ptr' = qstart /\ qstart' = After(qstart)
        /\ UNCHANGED <<ring, qend, current_packet>>
    BY <1>5 DEF AdvanceStart
  <2>2. \A b \in Actors \ {a} : pc[b] \notin {"advance", "send"}
    BY <1>1, <2>1, Alone DEF TimerSteps
  <2>3. qstart # qend
    BY <2>1 DEF RingInv
  <2>4. After(qend) # After(qstart)
    BY <1>2, <2>3, AfterInjective
  <2> QED BY <1>1, <2>1, <2>2, <2>3, <2>4 DEF RingInv, Full
<1>6. CASE Transmit(a)
  <2>1. /\ pc[a] = "send" /\ pc' = [pc EXCEPT ![a] = "drain"]
        /\ ring' = [ring EXCEPT ![ptr] = Free]
        /\ UNCHANGED <<qstart, qend, current_packet>>
    BY <1>6 DEF Transmit
  <2>2. \A b \in Actors \ {a} : pc[b] \notin {"advance", "send"}
    BY <1>1, <2>1, Alone DEF TimerSteps
  <2>3. ring'[qend] = ring[qend]
    BY <1>2, <2>1 DEF RingInv
  <2> QED BY <1>1, <2>1, <2>2, <2>3 DEF RingInv, Full
<1> QED BY <1>3, <1>4, <1>5, <1>6 DEF Timer

LEMMA OthersKeepRing ==
    ASSUME LinkInv, RingInv,
           \/ Send \/ Arm \/ BeginClose \/ EndClose \/ Sigalrm
           \/ \E a \in Actors : UserSends(a)
           \/ UNCHANGED vars
    PROVE  RingInv'
<1> USE DEF At, GoTo, vars, ringVars, lockVars, linkVars
<1>1. pc \in [Actors -> Steps]
  BY DEF LinkInv, LibnetTypeOK
<1>2. UNCHANGED <<ring, qstart, qend, ptr, current_packet>>
  BY DEF Send, Arm, BeginClose, EndClose, Sigalrm, UserSends
<1>3. \A b \in Actors : pc'[b] = pc[b]
         \/ pc'[b] \notin {"enter", "tx", "drop", "queue", "advance", "send"}
  BY <1>1 DEF Send, Arm, BeginClose, EndClose, Sigalrm, UserSends
<1> QED BY <1>2, <1>3, RingInvKept

LEMMA FlushKeepsRing == ASSUME LinkInv, RingInv, Flush PROVE RingInv'
<1>1. pc["main"] = "close" /\ pc["alarm"] = "off" /\ UNCHANGED pc
  BY DEF LinkInv, ActorsInv, Flush, At
<1> QED BY <1>1 DEF RingInv, Actors

\* Time changes no packet.
LEMMA OlderPacket ==
    ASSUME LinkInv, Tick, NEW s \in Slots PROVE ring'[s].packet = ring[s].packet
<1>1. ring[s] \in [packet : 0 .. MaxPackets, left : Int]
  BY DEF LinkInv, LibnetTypeOK
<1>2. Older(s).packet = ring[s].packet
  <2>1. CASE ring[s].left < -MaxOverdue
    BY <2>1 DEF Older
  <2>2. CASE ~(ring[s].left < -MaxOverdue)
    <3>1. Older(s) = [ring[s] EXCEPT !.left = @ - 1]
      BY <2>2 DEF Older
    <3> QED BY <1>1, <3>1
  <2> QED BY <2>1, <2>2
<1> QED BY <1>2 DEF Tick

LEMMA TickKeepsRing == ASSUME LinkInv, RingInv, Tick PROVE RingInv'
<1>1. UNCHANGED <<pc, qstart, qend, ptr, current_packet>>
  BY DEF Tick, linkVars
<1>2. ring'[qend].packet = ring[qend].packet
  BY OlderPacket DEF LinkInv, LibnetTypeOK
<1> QED BY <1>1, <1>2 DEF RingInv, Full

LEMMA RingInvariant == Spec => [](LinkInv /\ RingInv)
<1>1. LinkInv /\ RingInv /\ [Next]_vars => RingInv'
  BY EnqueueKeepsRing, TimerKeepsRing, OthersKeepRing, FlushKeepsRing, TickKeepsRing DEF Next
<1> QED BY <1>1, RingInit, LinkInvariant, PTL DEF Spec

-------------------------------------------------------------------------------
(* The refinement: every step of libnet is one of the line, or changes     *)
(* nothing of it.                                                          *)

\* One actor at most is between the number of a packet and the end of its
\* transmission.
LEMMA CountOne ==
    ASSUME NEW p, NEW a \in Actors, \A b \in Actors \ {a} : p[b] \notin {"tx", "drop", "queue"}
    PROVE  Cardinality({b \in Actors : p[b] \in {"tx", "drop", "queue"}})
              = IF p[a] \in {"tx", "drop", "queue"} THEN 1 ELSE 0
<1> DEFINE S == {b \in Actors : p[b] \in {"tx", "drop", "queue"}}
<1>1. CASE p[a] \in {"tx", "drop", "queue"}
  <2>1. S = {a}
    BY <1>1
  <2> HIDE DEF S
  <2>2. Cardinality(S) = 1
    BY <2>1, FS_Singleton
  <2> QED BY <1>1, <2>2 DEF S
<1>2. CASE p[a] \notin {"tx", "drop", "queue"}
  <2>1. S = {}
    BY <1>2
  <2> HIDE DEF S
  <2>2. Cardinality(S) = 0
    BY <2>1, FS_EmptySet
  <2> QED BY <1>2, <2>2 DEF S
<1> QED BY <1>1, <1>2

LineStep == [Line!LineNext]_(Line!lineVars)

\* A step that leaves the packets in use alone, and decides about none.
LEMMA LineStutters ==
    ASSUME UNCHANGED <<out, current_packet, qstart, qend, ptr>>,
           \A b \in Actors : /\ pc'[b] \in {"tx", "drop", "queue"}
                                <=> pc[b] \in {"tx", "drop", "queue"}
                             /\ pc'[b] = "send" <=> pc[b] = "send",
           \A i \in 1 .. Used(qstart, qend) :
              ring'[Nth(qstart, i)].packet = ring[Nth(qstart, i)].packet,
           (\E b \in Actors : pc[b] = "send") => ring'[ptr].packet = ring[ptr].packet
    PROVE  LineStep
<1>1. Waiting' = Waiting
  <2>1. Contents(ring', qstart, qend) = Contents(ring, qstart, qend)
    BY ContentsKept
  <2> QED BY <2>1, WaitingIs, WaitingWillBe
<1>2. Undecided' = Undecided
  <2>1. {b \in Actors : pc'[b] \in {"tx", "drop", "queue"}}
           = {b \in Actors : pc[b] \in {"tx", "drop", "queue"}}
    OBVIOUS
  <2> QED BY <2>1 DEF Undecided
<1>3. InHand' = InHand
  BY DEF InHand
<1> QED BY <1>1, <1>2, <1>3 DEF LineStep, Line!lineVars

\* The oldest packet leaves.
LEMMA LineLeaves ==
    ASSUME NEW x \in 0 .. MaxPackets, NEW rest \in Seq(0 .. MaxPackets),
           InHand \o Waiting = <<x>> \o rest, InHand' \o Waiting' = rest,
           out' = Append(out, x), Undecided' = Undecided, UNCHANGED current_packet
    PROVE  LineStep
<1> DEFINE one == <<x>>
           w == one \o rest
<1>1. one \in Seq(0 .. MaxPackets) /\ Len(one) = 1 /\ one[1] = x
  OBVIOUS
<1> HIDE DEF one
<1>2. /\ w \in Seq(0 .. MaxPackets) /\ Len(w) = Len(one) + Len(rest)
      /\ \A i \in 1 .. Len(one) + Len(rest) :
            w[i] = IF i <= Len(one) THEN one[i] ELSE rest[i - Len(one)]
  BY <1>1, ConcatProperties, Zenon
<1> HIDE DEF w
<1>3. Len(rest) \in Nat /\ Len(w) = 1 + Len(rest) /\ w[1] = x
      /\ \A i \in 1 .. Len(rest) : w[i + 1] = rest[i]
  <2> DEFINE n == Len(rest)
  <2>1. n \in Nat
    OBVIOUS
  <2> HIDE DEF n
  <2>2. /\ Len(w) = 1 + n
        /\ \A i \in 1 .. 1 + n : w[i] = IF i <= 1 THEN one[i] ELSE rest[i - 1]
    BY <1>1, <1>2, <2>1 DEF n
  <2>3. w[1] = x
    BY <1>1, <2>1, <2>2
  <2>4. ASSUME NEW i \in 1 .. n PROVE w[i + 1] = rest[i]
    <3>1. i + 1 \in 1 .. 1 + n /\ ~(i + 1 <= 1) /\ (i + 1) - 1 = i
      BY <2>1
    <3>2. w[i + 1] = rest[(i + 1) - 1]
      BY <2>2, <3>1
    <3> QED BY <3>1, <3>2
  <2> QED BY <2>1, <2>2, <2>3, <2>4 DEF n
<1>4. w # <<>> /\ Head(w) = x
  <2>1. Len(w) # 0
    BY <1>3
  <2> QED BY <1>2, <1>3, <2>1, EmptySeq
<1>5. Tail(w) = rest
  <2>1. /\ Tail(w) \in Seq(0 .. MaxPackets) /\ Len(Tail(w)) = Len(w) - 1
        /\ \A i \in 1 .. Len(Tail(w)) : Tail(w)[i] = w[i + 1]
    BY <1>2, <1>4, HeadTailProperties
  <2>2. Len(Tail(w)) = Len(rest) /\ \A i \in 1 .. Len(Tail(w)) : Tail(w)[i] = rest[i]
    BY <1>3, <2>1
  <2> QED BY <2>1, <2>2, SeqEqual
<1>6. InHand \o Waiting = w
  BY DEF w, one
<1> QED BY <1>3, <1>4, <1>5, <1>6 DEF LineStep, Line!LineNext, Line!Leave

LEMMA EnqueueRefines ==
    ASSUME LinkInv, RingInv, NEW a \in Actors, Enqueue(a) PROVE LineStep
<1> USE DEF At, GoTo, ringVars, lockVars, linkVars
<1>1. pc \in [Actors -> Steps] /\ Runs(a) /\ pc[a] \in EnqueueSteps
  BY DEF LinkInv, LibnetTypeOK, Enqueue, RoomFound, TakeQlock, Dropped, Store, AdvanceEnd,
         ReleaseQlock, EnqueueSteps
<1>2. \A b \in Actors \ {a} : pc[b] = "off"
  BY <1>1, Alone
<1>3. /\ ring \in [Slots -> [packet : 0 .. MaxPackets, left : Int]]
      /\ qstart \in Slots /\ qend \in Slots /\ current_packet \in Int
  BY LibnetAssumption DEF LinkInv, LibnetTypeOK
<1>4. Undecided = IF pc[a] \in {"tx", "drop", "queue"} THEN 1 ELSE 0
  BY <1>2, CountOne DEF Undecided
<1>5. InHand = <<>>
  BY <1>1, <1>2 DEF InHand, EnqueueSteps
<1>6. InHand \o Waiting = Waiting
  <2>1. Waiting \in Seq(0 .. MaxPackets)
    BY <1>3, WaitingIs, ContentsType
  <2> QED BY <1>5, <2>1, ConcatEmptySeq
<1>7. CASE RoomFound(a) \/ ReleaseQlock(a)
  <2>1. UNCHANGED <<out, current_packet, qstart, qend, ptr, ring>>
    BY <1>7 DEF RoomFound, ReleaseQlock
  <2>2. \A b \in Actors : /\ pc'[b] \in {"tx", "drop", "queue"}
                             <=> pc[b] \in {"tx", "drop", "queue"}
                          /\ pc'[b] = "send" <=> pc[b] = "send"
    BY <1>1, <1>7 DEF RoomFound, ReleaseQlock
  <2> QED BY <2>1, <2>2, LineStutters
<1>8. CASE TakeQlock(a)
  <2>1. /\ UNCHANGED <<out, qstart, qend, ring>> /\ current_packet' = current_packet + 1
        /\ pc[a] = "enter" /\ pc'[a] \in {"tx", "drop"}
        /\ \A b \in Actors \ {a} : pc'[b] = pc[b]
    BY <1>1, <1>8 DEF TakeQlock, Keep, Lose
  <2>2. Undecided = 0
    BY <1>4, <2>1
  <2>3. Undecided' = 1
    <3>1. Undecided' = IF pc'[a] \in {"tx", "drop", "queue"} THEN 1 ELSE 0
      BY <1>2, <2>1, CountOne DEF Undecided
    <3> QED BY <2>1, <3>1
  <2>4. InHand' = <<>>
    BY <1>2, <2>1 DEF InHand
  <2>5. Waiting' = Waiting
    BY <2>1, WaitingIs, WaitingWillBe
  <2>6. current_packet' - Undecided' = current_packet - Undecided
    BY <1>3, <2>1, <2>2, <2>3
  <2> QED BY <1>5, <2>1, <2>4, <2>5, <2>6 DEF LineStep, Line!lineVars
<1>9. CASE Store(a)
  <2>1. /\ UNCHANGED <<out, current_packet, qstart, qend, ptr>>
        /\ pc[a] = "tx" /\ pc' = [pc EXCEPT ![a] = "queue"]
        /\ \E rtt \in Rtts :
              ring' = [ring EXCEPT ![qend] = [packet |-> current_packet, left |-> rtt]]
    BY <1>9 DEF Store
  <2>2. \A b \in Actors : /\ pc'[b] \in {"tx", "drop", "queue"}
                             <=> pc[b] \in {"tx", "drop", "queue"}
                          /\ pc'[b] = "send" <=> pc[b] = "send"
    BY <1>1, <2>1
  <2>3. \A i \in 1 .. Used(qstart, qend) :
           ring'[Nth(qstart, i)].packet = ring[Nth(qstart, i)].packet
    BY <1>3, <2>1, UnusedSlots, ContentsType
  <2>4. ~(\E b \in Actors : pc[b] = "send")
    BY <1>2, <2>1
  <2> QED BY <2>1, <2>2, <2>3, <2>4, LineStutters
<1>10. CASE Dropped(a) \/ AdvanceEnd(a)
  <2>1. /\ UNCHANGED <<out, ring, qstart, current_packet>>
        /\ pc[a] \in {"drop", "queue"} /\ pc'[a] = "unlock"
        /\ \A b \in Actors \ {a} : pc'[b] = pc[b]
    BY <1>1, <1>10 DEF Dropped, AdvanceEnd
  <2>2. Undecided = 1
    BY <1>4, <2>1
  <2>3. Undecided' = 0
    <3>1. Undecided' = IF pc'[a] \in {"tx", "drop", "queue"} THEN 1 ELSE 0
      BY <1>2, <2>1, CountOne DEF Undecided
    <3> QED BY <2>1, <3>1
  <2>4. InHand' = <<>>
    BY <1>2, <2>1 DEF InHand
  <2>5. /\ current_packet' - Undecided' = (current_packet - Undecided) + 1
        /\ (current_packet - Undecided) + 1 = current_packet
    BY <1>3, <2>1, <2>2, <2>3
  <2>6. CASE Dropped(a)
    <3>1. Waiting' = Waiting
      BY <2>1, <2>6, WaitingIs, WaitingWillBe DEF Dropped
    <3> QED BY <1>5, <2>1, <2>4, <2>5, <3>1 DEF LineStep, Line!LineNext, Line!Discard
  <2>7. CASE AdvanceEnd(a)
    <3>1. qend' = After(qend) /\ pc[a] = "queue"
      BY <2>7 DEF AdvanceEnd
    <3>2. After(qend) # qstart /\ ring[qend].packet = current_packet
      BY <3>1 DEF RingInv, Full
    <3>3. Waiting' = Append(Waiting, current_packet)
      BY <1>3, <2>1, <3>1, <3>2, ContentsAppend, WaitingIs, WaitingWillBe
    <3>4. InHand' \o Waiting' = Append(InHand \o Waiting, current_packet)
      <4>1. Waiting' \in Seq(0 .. MaxPackets)
        BY <1>3, <2>1, <3>1, AfterIsSlot, WaitingWillBe, ContentsType
      <4>2. InHand' \o Waiting' = Waiting'
        BY <2>4, <4>1, ConcatEmptySeq
      <4> QED BY <1>6, <3>3, <4>2
    <3> QED BY <2>1, <2>5, <3>4 DEF LineStep, Line!LineNext, Line!Accept
  <2> QED BY <1>10, <2>6, <2>7
<1> QED BY <1>7, <1>8, <1>9, <1>10 DEF Enqueue

LEMMA TimerRefines ==
    ASSUME LinkInv, RingInv, NEW a \in Actors, Timer(a) PROVE LineStep
<1> USE DEF At, GoTo, ringVars, lockVars, linkVars
<1>1. pc \in [Actors -> Steps] /\ Runs(a)
  BY DEF LinkInv, LibnetTypeOK, Timer, EnterTimer, FoundDue, AdvanceStart, Transmit,
         LeaveTimer, CallUser, UserReturns
<1>2. /\ ring \in [Slots -> [packet : 0 .. MaxPackets, left : Int]]
      /\ qstart \in Slots /\ qend \in Slots /\ ptr \in Slots
  BY DEF LinkInv, LibnetTypeOK
<1>3. CASE EnterTimer(a) \/ FoundDue(a) \/ LeaveTimer(a) \/ CallUser(a) \/ UserReturns(a)
  <2>1. UNCHANGED <<out, current_packet, qstart, qend, ptr, ring>>
    BY <1>3 DEF EnterTimer, FoundDue, LeaveTimer, CallUser, UserReturns
  <2>2. \A b \in Actors : /\ pc'[b] \in {"tx", "drop", "queue"}
                             <=> pc[b] \in {"tx", "drop", "queue"}
                          /\ pc'[b] = "send" <=> pc[b] = "send"
    BY <1>1, <1>3 DEF EnterTimer, FoundDue, LeaveTimer, CallUser, UserReturns, Returned,
                      TimerReturned
  <2> QED BY <2>1, <2>2, LineStutters
<1>4. ASSUME pc[a] \in {"advance", "send"}
      PROVE  \A b \in Actors \ {a} : pc[b] \notin {"advance", "send"}
  BY <1>1, <1>4, Alone DEF TimerSteps
<1>5. CASE AdvanceStart(a)
  <2>1. /\ UNCHANGED <<out, current_packet, ring, qend>>
        /\ ptr' = qstart /\ qstart' = After(qstart)
        /\ pc[a] = "advance" /\ pc' = [pc EXCEPT ![a] = "send"]
    BY <1>5 DEF AdvanceStart
  <2>2. Undecided' = Undecided
    <3>1. {b \in Actors : pc'[b] \in {"tx", "drop", "queue"}}
             = {b \in Actors : pc[b] \in {"tx", "drop", "queue"}}
      BY <1>1, <2>1
    <3> QED BY <3>1 DEF Undecided
  <2>3. InHand = <<>>
    BY <1>4, <2>1 DEF InHand
  <2>4. InHand' = <<ring[qstart].packet>>
    BY <1>1, <2>1 DEF InHand
  <2>5. qstart # qend
    BY <2>1 DEF RingInv
  <2>6. Waiting = <<ring[qstart].packet>> \o Waiting'
    BY <1>2, <2>1, <2>5, ContentsTail, WaitingIs, WaitingWillBe
  <2>7. Waiting \in Seq(0 .. MaxPackets)
    BY <1>2, WaitingIs, ContentsType
  <2>8. InHand \o Waiting = Waiting
    BY <2>3, <2>7, ConcatEmptySeq
  <2>9. InHand' \o Waiting' = InHand \o Waiting
    BY <2>4, <2>6, <2>8
  <2> QED BY <2>1, <2>2, <2>9 DEF LineStep, Line!lineVars
<1>6. CASE Transmit(a)
  <2>1. /\ UNCHANGED <<current_packet, qstart, qend>>
        /\ out' = Append(out, ring[ptr].packet)
        /\ ring' = [ring EXCEPT ![ptr] = Free]
        /\ pc[a] = "send" /\ pc' = [pc EXCEPT ![a] = "drain"]
    BY <1>6 DEF Transmit
  <2>2. Undecided' = Undecided
    <3>1. {b \in Actors : pc'[b] \in {"tx", "drop", "queue"}}
             = {b \in Actors : pc[b] \in {"tx", "drop", "queue"}}
      BY <1>1, <2>1
    <3> QED BY <3>1 DEF Undecided
  <2>3. InHand = <<ring[ptr].packet>>
    BY <2>1 DEF InHand
  <2>4. InHand' = <<>>
    BY <1>1, <1>4, <2>1 DEF InHand
  <2>5. Waiting' = Waiting
    <3>1. \A i \in 1 .. Used(qstart, qend) : Nth(qstart, i) \in Slots /\ Nth(qstart, i) # ptr
      BY <1>2, <2>1, ContentsType, UnusedSlots DEF RingInv
    <3>2. \A i \in 1 .. Used(qstart, qend) :
             ring'[Nth(qstart, i)].packet = ring[Nth(qstart, i)].packet
      BY <1>2, <2>1, <3>1
    <3>3. Contents(ring', qstart, qend) = Contents(ring, qstart, qend)
      BY <3>2, ContentsKept
    <3> QED BY <2>1, <3>3, WaitingIs, WaitingWillBe
  <2>6. Waiting \in Seq(0 .. MaxPackets) /\ ring[ptr].packet \in 0 .. MaxPackets
    BY <1>2, WaitingIs, ContentsType
  <2>7. InHand' \o Waiting' = Waiting
    BY <2>4, <2>5, <2>6, ConcatEmptySeq
  <2> QED BY <2>1, <2>2, <2>3, <2>6, <2>7, LineLeaves
<1> QED BY <1>3, <1>5, <1>6 DEF Timer

LEMMA OthersRefine ==
    ASSUME LinkInv, RingInv,
           \/ Send \/ Arm \/ BeginClose \/ EndClose \/ Sigalrm
           \/ \E a \in Actors : UserSends(a)
           \/ UNCHANGED vars
    PROVE  LineStep
<1> USE DEF At, GoTo, vars, ringVars, lockVars, linkVars
<1>1. pc \in [Actors -> Steps]
  BY DEF LinkInv, LibnetTypeOK
<1>2. UNCHANGED <<out, current_packet, qstart, qend, ptr, ring>>
  BY DEF Send, Arm, BeginClose, EndClose, Sigalrm, UserSends
<1>3. \A b \in Actors : /\ pc'[b] \in {"tx", "drop", "queue"}
                           <=> pc[b] \in {"tx", "drop", "queue"}
                        /\ pc'[b] = "send" <=> pc[b] = "send"
  BY <1>1 DEF Send, Arm, BeginClose, EndClose, Sigalrm, UserSends
<1> QED BY <1>2, <1>3, LineStutters

\* close_net sends the oldest packet itself.
LEMMA FlushRefines == ASSUME LinkInv, RingInv, Flush PROVE LineStep
<1>1. /\ pc["main"] = "close" /\ pc["alarm"] = "off"
      /\ UNCHANGED <<pc, qend, current_packet>>
      /\ out' = Append(out, ring[qstart].packet)
      /\ ring' = [ring EXCEPT ![qstart] = Free] /\ qstart' = After(qstart)
      /\ qstart # qend
  BY DEF LinkInv, ActorsInv, Flush, At, Due, linkVars
<1>2. /\ ring \in [Slots -> [packet : 0 .. MaxPackets, left : Int]]
      /\ qstart \in Slots /\ qend \in Slots /\ qstart' \in Slots
  BY <1>1, AfterIsSlot DEF LinkInv, LibnetTypeOK
<1>3. InHand = <<>> /\ InHand' = <<>> /\ Undecided' = Undecided
  BY <1>1 DEF InHand, Undecided, Actors
<1> DEFINE x == ring[qstart].packet
           rest == Contents(ring, qstart', qend)
<1>4. Waiting = <<x>> \o rest
  BY <1>1, <1>2, ContentsTail, WaitingIs
<1>5. Waiting' = rest
  <2>1. \A i \in 1 .. Used(qstart', qend) :
           Nth(qstart', i) \in Slots /\ Nth(qstart', i) # qstart
    BY <1>1, <1>2, ContentsType, UnusedSlots
  <2>2. \A i \in 1 .. Used(qstart', qend) :
           ring'[Nth(qstart', i)].packet = ring[Nth(qstart', i)].packet
    BY <1>1, <1>2, <2>1
  <2>3. Contents(ring', qstart', qend) = rest
    BY <2>2, ContentsKept
  <2> QED BY <1>1, <2>3, WaitingWillBe
<1>6. x \in 0 .. MaxPackets /\ rest \in Seq(0 .. MaxPackets) /\ Waiting \in Seq(0 .. MaxPackets)
  BY <1>2, WaitingIs, ContentsType
<1>7. InHand \o Waiting = Waiting /\ InHand' \o Waiting' = rest
  BY <1>3, <1>5, <1>6, ConcatEmptySeq
<1> HIDE DEF x, rest
<1>8. InHand \o Waiting = <<x>> \o rest
  BY <1>4, <1>7
<1>9. out' = Append(out, x)
  BY <1>1 DEF x
<1> QED BY <1>1, <1>3, <1>6, <1>7, <1>8, <1>9, LineLeaves

LEMMA TickRefines == ASSUME LinkInv, RingInv, Tick PROVE LineStep
<1>1. UNCHANGED <<out, current_packet, qstart, qend, ptr, pc>>
  BY DEF Tick, linkVars
<1>2. /\ ring \in [Slots -> [packet : 0 .. MaxPackets, left : Int]]
      /\ qstart \in Slots /\ qend \in Slots /\ ptr \in Slots
  BY DEF LinkInv, LibnetTypeOK
<1>3. \A i \in 1 .. Used(qstart, qend) : Nth(qstart, i) \in Slots
  BY <1>2, ContentsType
<1> QED BY <1>1, <1>2, <1>3, OlderPacket, LineStutters

LEMMA LineStarts == Init => Line!LineInit
<1> SUFFICES ASSUME Init PROVE Line!LineInit
  OBVIOUS
<1>1. ring \in [Slots -> [packet : 0 .. MaxPackets, left : Int]] /\ qstart \in Slots /\ qend \in Slots
  BY LinkInit DEF LinkInv, LibnetTypeOK
<1>2. Waiting = <<>>
  <2>1. Used(qstart, qend) = 0
    BY <1>1, UsedIs, LibnetAssumption DEF Init
  <2>2. Waiting \in Seq(0 .. MaxPackets) /\ Len(Waiting) = 0
    BY <1>1, <2>1, ContentsType, WaitingIs
  <2> QED BY <2>2, EmptySeq
<1>3. InHand = <<>>
  BY DEF Init, InHand
<1>4. Undecided = 0
  <2>1. pc["main"] = "off" /\ \A b \in Actors \ {"main"} : pc[b] \notin {"tx", "drop", "queue"}
    BY DEF Init, Actors
  <2>2. "main" \in Actors
    BY DEF Actors
  <2> QED BY <2>1, <2>2, CountOne DEF Undecided
<1>5. InHand \o Waiting = <<>>
  BY <1>2, <1>3
<1> QED BY <1>4, <1>5 DEF Init, Line!LineInit

\* libnet is a line that delays: no packet in its ring is overwritten, sent
\* twice, skipped or overtaken, for a ring of any size, wherever SIGALRM
\* interrupts enqueue_data and dequeue_data and whatever the user's functions
\* send from the handler.
THEOREM LibnetIsDelayLine == Spec => ImplementsDelayLine
<1>1. LinkInv /\ RingInv /\ [Next]_vars => [Line!LineNext]_(Line!lineVars)
  BY EnqueueRefines, TimerRefines, OthersRefine, FlushRefines, TickRefines DEF Next, LineStep
<1> QED BY <1>1, LineStarts, RingInvariant, PTL DEF Spec, ImplementsDelayLine, Line!LineSpec

-------------------------------------------------------------------------------
(* Times in the ring.                                                      *)

\* How many packets are in the ring, and what is left of their round trips, oldest
\* first.
Count == Used(qstart, qend)
Lefts == [i \in 1 .. Count |-> ring[Nth(qstart, i)].left]

LEMMA LeftsWillBe ==
    /\ Count' = Used(qstart', qend')
    /\ \A i \in 1 .. Count' : Lefts'[i] = ring'[Nth(qstart', i)].left
BY DEF Count, Lefts

LEMMA CountType ==
    ASSUME LinkInv
    PROVE  /\ Count \in Nat /\ Count < RingSize
           /\ \A i \in 1 .. Count : Lefts[i] \in Int /\ Nth(qstart, i) \in Slots
           /\ Count = 0 <=> qstart = qend
           /\ Full => Count = RingSize - 1
<1>1. /\ qstart \in Slots /\ qend \in Slots
      /\ ring \in [Slots -> [packet : 0 .. MaxPackets, left : Int]]
  BY DEF LinkInv, LibnetTypeOK
<1>2. /\ RingSize \in Nat /\ RingSize >= 2
      /\ qstart \in Int /\ 0 <= qstart /\ qstart < RingSize
      /\ qend \in Int /\ 0 <= qend /\ qend < RingSize
  BY <1>1, LibnetAssumption DEF Slots
<1>3. Used(qstart, qend) = IF qend >= qstart THEN qend - qstart ELSE (qend - qstart) + RingSize
  BY <1>1, UsedIs
<1>4. Count \in Nat /\ Count < RingSize /\ (Count = 0 <=> qstart = qend)
  BY <1>2, <1>3 DEF Count
<1>5. Full => Count = RingSize - 1
  <2>1. After(qend) = IF qend = RingSize - 1 THEN 0 ELSE qend + 1
    BY <1>1, AfterIs
  <2> QED BY <1>2, <1>3, <2>1 DEF Full, Count
<1>6. ASSUME NEW i \in 1 .. Count PROVE Lefts[i] \in Int /\ Nth(qstart, i) \in Slots
  <2>1. Nth(qstart, i) \in Slots
    BY <1>1, ContentsType DEF Count
  <2> QED BY <1>1, <2>1 DEF Lefts
<1> QED BY <1>4, <1>5, <1>6

\* What a step may do to the packets in the ring.
SameLeft == Count' = Count /\ \A i \in 1 .. Count : Lefts'[i] = Lefts[i]
OneAdded == /\ Count' = Count + 1
            /\ \A i \in 1 .. (Count + 1) :
                  Lefts'[i] = IF i <= Count THEN Lefts[i] ELSE ring[qend].left
OneTaken == /\ Count' = Count - 1 /\ Count >= 1
            /\ \A i \in 1 .. (Count - 1) : Lefts'[i] = Lefts[i + 1]

LEMMA RingAlone ==
    ASSUME UNCHANGED ringVars PROVE SameLeft
BY DEF ringVars, SameLeft, Count, Lefts

LEMMA SlotChanged ==
    ASSUME LinkInv, NEW s \in Slots, NEW x, UNCHANGED <<qstart, qend>>,
           ring' = [ring EXCEPT ![s] = x],
           s = qend \/ After(s) = qstart
    PROVE  SameLeft
<1>1. qstart \in Slots /\ qend \in Slots
  BY DEF LinkInv, LibnetTypeOK
<1>2. Count' = Count
  BY DEF Count
<1>3. ASSUME NEW i \in 1 .. Count PROVE Lefts'[i] = Lefts[i]
  <2>1. Nth(qstart, i) # s
    BY <1>1, UnusedSlots DEF Count
  <2>2. Lefts'[i] = ring'[Nth(qstart, i)].left
    BY <1>2, LeftsWillBe
  <2> QED BY <2>1, <2>2 DEF Lefts, LinkInv, LibnetTypeOK
<1> QED BY <1>2, <1>3 DEF SameLeft

LEMMA StoreTimes ==
    ASSUME LinkInv, NEW a \in Actors, Store(a)
    PROVE  SameLeft /\ ring'[qend].left \in Rtts
<1>1. PICK rtt \in Rtts :
         ring' = [ring EXCEPT ![qend] = [packet |-> current_packet, left |-> rtt]]
  BY DEF Store
<1>2. qend \in Slots /\ ring \in [Slots -> [packet : 0 .. MaxPackets, left : Int]]
  BY DEF LinkInv, LibnetTypeOK
<1>3. SameLeft
  BY <1>1, <1>2, SlotChanged DEF Store
<1> QED BY <1>1, <1>2, <1>3

LEMMA TransmitTimes ==
    ASSUME LinkInv, RingInv, NEW a \in Actors, Transmit(a)
    PROVE  SameLeft
<1>1. ptr \in Slots /\ After(ptr) = qstart
  BY DEF LinkInv, LibnetTypeOK, RingInv, Transmit, At
<1> QED BY <1>1, SlotChanged DEF Transmit

LEMMA AdvanceEndTimes ==
    ASSUME LinkInv, RingInv, NEW a \in Actors, AdvanceEnd(a)
    PROVE  OneAdded
<1>1. /\ qstart \in Slots /\ qend \in Slots /\ After(qend) # qstart
      /\ qend' = After(qend) /\ UNCHANGED <<ring, qstart>>
  BY DEF LinkInv, LibnetTypeOK, RingInv, AdvanceEnd, At, Full
<1>2. Used(qstart, After(qend)) = Count + 1 /\ Nth(qstart, Count + 1) = qend
  BY <1>1, PlaceAppended DEF Count
<1>3. Count' = Count + 1
  BY <1>1, <1>2 DEF Count
<1>4. \A i \in 1 .. (Count + 1) : Lefts'[i] = ring[Nth(qstart, i)].left
  BY <1>1, <1>3, LeftsWillBe
<1>5. Count \in Nat
  BY CountType
<1>6. \A i \in 1 .. (Count + 1) : IF i <= Count THEN i \in 1 .. Count ELSE i = Count + 1
  BY <1>5
<1>7. \A i \in 1 .. Count : Lefts[i] = ring[Nth(qstart, i)].left
  BY DEF Lefts
<1> QED BY <1>2, <1>3, <1>4, <1>6, <1>7 DEF OneAdded

LEMMA TakenTimes ==
    ASSUME LinkInv, qstart # qend, qstart' = After(qstart), qend' = qend,
           \A s \in Slots \ {qstart} : ring'[s] = ring[s]
    PROVE  OneTaken
<1> DEFINE n == Used(After(qstart), qend)
<1>1. qstart \in Slots /\ qend \in Slots
  BY DEF LinkInv, LibnetTypeOK
<1>2. /\ Count = n + 1 /\ n < RingSize
      /\ \A i \in 1 .. n : Nth(qstart, i + 1) = Nth(After(qstart), i)
  BY <1>1, PlaceTaken DEF Count
<1>3. Count' = n
  BY DEF Count
<1>4. Count \in Nat
  BY CountType
<1>5. ASSUME NEW i \in 1 .. n PROVE Lefts'[i] = ring[Nth(qstart, i + 1)].left
  <2>1. Lefts'[i] = ring'[Nth(After(qstart), i)].left
    BY <1>3, LeftsWillBe
  <2>2. Nth(After(qstart), i) \in Slots
    BY <1>1, AfterIsSlot, ContentsType DEF LinkInv, LibnetTypeOK
  <2>3. Nth(After(qstart), i) # qstart
    BY <1>1, AfterIsSlot, UnusedSlots, <2>2
  <2> QED BY <1>2, <2>1, <2>2, <2>3
<1> HIDE DEF n
<1>6. n = Count - 1 /\ Count >= 1
  <2>1. n \in Nat
    <3>1. Used(After(qstart), qend) \in Slots
      BY <1>1, AfterIsSlot, UsedIs
    <3> QED BY <3>1, LibnetAssumption DEF n, Slots
  <2> QED BY <1>2, <1>4, <2>1
<1>7. \A i \in 1 .. n : i + 1 \in 1 .. Count
  BY <1>4, <1>6
<1>8. \A i \in 1 .. n : Lefts'[i] = Lefts[i + 1]
  BY <1>5, <1>7 DEF Lefts
<1> QED BY <1>3, <1>6, <1>8 DEF OneTaken

LEMMA AdvanceStartTimes ==
    ASSUME LinkInv, RingInv, NEW a \in Actors, AdvanceStart(a)
    PROVE  OneTaken
BY TakenTimes DEF RingInv, AdvanceStart, At

LEMMA FlushTimes ==
    ASSUME LinkInv, Flush
    PROVE  OneTaken
<1>1. ring' = [ring EXCEPT ![qstart] = Free]
  BY DEF Flush
<1>2. ring \in [Slots -> [packet : 0 .. MaxPackets, left : Int]]
  BY DEF LinkInv, LibnetTypeOK
<1>3. \A s \in Slots \ {qstart} : ring'[s] = ring[s]
  BY <1>1, <1>2
<1> QED BY <1>3, TakenTimes DEF Flush, Due

LEMMA TickTimes ==
    ASSUME LinkInv, Tick
    PROVE  /\ Count' = Count
           /\ \A i \in 1 .. Count :
                 Lefts'[i] = IF Lefts[i] < -MaxOverdue THEN Lefts[i] ELSE Lefts[i] - 1
<1>1. UNCHANGED <<qstart, qend>>
  BY DEF Tick
<1>2. Count' = Count
  BY <1>1 DEF Count
<1>3. ASSUME NEW i \in 1 .. Count
      PROVE  Lefts'[i] = IF Lefts[i] < -MaxOverdue THEN Lefts[i] ELSE Lefts[i] - 1
  <2> DEFINE s == Nth(qstart, i)
  <2>1. s \in Slots /\ s \in Range(InUse)
    <3>1. DOMAIN InUse = 1 .. Count /\ InUse[i] = s
      BY <1>3 DEF InUse, Count, Used, Nth
    <3> QED BY <1>3, <3>1, CountType DEF Range
  <2>2. ring' = [t \in Slots |-> IF t \in Range(InUse) THEN Older(t) ELSE ring[t]]
    BY DEF Tick
  <2>3. ring'[s] = Older(s)
    BY <2>1, <2>2
  <2>4. ring[s] \in [packet : 0 .. MaxPackets, left : Int]
    BY <2>1 DEF LinkInv, LibnetTypeOK
  <2>5. Older(s).left = IF ring[s].left < -MaxOverdue THEN ring[s].left ELSE ring[s].left - 1
    BY <2>4 DEF Older
  <2>6. Lefts'[i] = ring'[s].left /\ Lefts[i] = ring[s].left
    BY <1>1, <1>2, LeftsWillBe DEF Lefts
  <2> QED BY <2>3, <2>5, <2>6
<1> QED BY <1>2, <1>3

\* The slot at the end is not in use, so it does not age.
LEMMA TickEnd == ASSUME LinkInv, Tick PROVE ring'[qend] = ring[qend]
<1>1. qend \in Slots /\ qstart \in Slots
  BY DEF LinkInv, LibnetTypeOK
<1>2. qend \notin Range(InUse)
  BY <1>1, UnusedSlots DEF Range, InUse, Used, Nth
<1> QED BY <1>1, <1>2 DEF Tick

\* Nothing is due exactly when the oldest packet has something left to wait for.
LEMMA OldestIsDue ==
    ASSUME LinkInv
    PROVE  Due <=> Count >= 1 /\ Lefts[1] <= 0 /\ ~(qstart = qend)
<1>1. qstart \in Slots /\ qend \in Slots
  BY DEF LinkInv, LibnetTypeOK
<1>2. qstart # qend => Nth(qstart, 1) = qstart
  BY <1>1, PlaceTaken
<1>3. qstart # qend => Count >= 1
  BY CountType
<1> QED BY <1>2, <1>3 DEF Due, Lefts

-------------------------------------------------------------------------------
(* How many packets one round trip can hold.                               *)

\* The shortest and the longest transmission and round trip, if there are such.
TimesWithin(short, long, near, far) ==
    /\ short \in TxTimes /\ long \in TxTimes /\ near \in Rtts /\ far \in Rtts
    /\ \A t \in TxTimes : short <= t /\ t <= long
    /\ \A rtt \in Rtts : near <= rtt /\ rtt <= far

\* Of n packets in the ring, each that is not due yet has waited for the
\* transmission of those behind it, up to the m-th.
Spaced(left, n, short, m, far) ==
    \A i \in 1 .. n : left[i] > 0 => left[i] + short * (m - i) <= far

SpacingInv(short, far) ==
    /\ Spaced(Lefts, Count, short, Count, far)
    /\ \A a \in Actors : pc[a] = "tx" => Spaced(Lefts, Count, short, Count + 1, far + busy[a])
    /\ \A a \in Actors : pc[a] = "queue" => /\ ring[qend].left <= far
                                            /\ Spaced(Lefts, Count, short, Count + 1, far)

LEMMA TimesAre ==
    ASSUME NEW short, NEW long, NEW near, NEW far, TimesWithin(short, long, near, far)
    PROVE  /\ short \in Nat \ {0} /\ long \in Nat \ {0} /\ near \in Nat /\ far \in Nat
           /\ MaxLate = HandlerSends * long /\ MaxLate \in Nat
           /\ MaxAhead \in Nat /\ far <= near + short + MaxAhead
           /\ MaxOverdue = MaxLate + MaxAhead /\ MaxOverdue \in Nat
<1>1. /\ short \in Nat \ {0} /\ long \in Nat \ {0} /\ near \in Nat /\ far \in Nat
      /\ \A t \in TxTimes : t \in Nat /\ short <= t /\ t <= long
      /\ \A rtt \in Rtts : rtt \in Nat /\ near <= rtt /\ rtt <= far
  BY LibnetAssumption DEF TimesWithin
<1>2. Max(TxTimes) = long
  <2>1. long \in TxTimes /\ \A y \in TxTimes : long >= y
    BY <1>1 DEF TimesWithin
  <2>2. \A x \in TxTimes : (\A y \in TxTimes : x >= y) => x = long
    BY <1>1, <2>1
  <2> QED BY <2>1, <2>2, Zenon DEF Max
<1>3. Min(TxTimes) = short
  <2>1. short \in TxTimes /\ \A y \in TxTimes : short <= y
    BY <1>1 DEF TimesWithin
  <2>2. \A x \in TxTimes : (\A y \in TxTimes : x <= y) => x = short
    BY <1>1, <2>1
  <2> QED BY <2>1, <2>2, Zenon DEF Min
<1>4. Max(Rtts) = far
  <2>1. far \in Rtts /\ \A y \in Rtts : far >= y
    BY <1>1 DEF TimesWithin
  <2>2. \A x \in Rtts : (\A y \in Rtts : x >= y) => x = far
    BY <1>1, <2>1
  <2> QED BY <2>1, <2>2, Zenon DEF Max
<1>5. Min(Rtts) = near
  <2>1. near \in Rtts /\ \A y \in Rtts : near <= y
    BY <1>1 DEF TimesWithin
  <2>2. \A x \in Rtts : (\A y \in Rtts : x <= y) => x = near
    BY <1>1, <2>1
  <2> QED BY <2>1, <2>2, Zenon DEF Min
<1> DEFINE more == far - near - short
           most == IF more >= 0 THEN more ELSE 0
<1>6. Max({0, more}) = most
  <2>1. most \in {0, more} /\ \A y \in {0, more} : most >= y
    BY <1>1
  <2>2. \A x \in {0, more} : (\A y \in {0, more} : x >= y) => x = most
    BY <1>1
  <2> HIDE DEF most, more
  <2> QED BY <2>1, <2>2, Zenon DEF Max
<1>7. MaxAhead = most
  BY <1>3, <1>4, <1>5, <1>6 DEF MaxAhead
<1>8. MaxAhead \in Nat /\ far <= near + short + MaxAhead
  BY <1>1, <1>7
<1>9. MaxLate = HandlerSends * long /\ MaxLate \in Nat
  BY <1>1, <1>2, LibnetAssumption DEF MaxLate
<1> QED BY <1>1, <1>8, <1>9 DEF MaxOverdue

LEMMA SpacedSame ==
    ASSUME NEW n, NEW v, NEW w, \A i \in 1 .. n : v[i] = w[i],
           NEW short, NEW m, NEW far, Spaced(w, n, short, m, far)
    PROVE  Spaced(v, n, short, m, far)
BY DEF Spaced

LEMMA SpacedTaken ==
    ASSUME NEW n \in Nat, NEW v, NEW w, \A i \in 1 .. n - 1 : v[i] = w[i + 1],
           NEW short \in Nat, NEW m \in Int, NEW far, Spaced(w, n, short, m, far)
    PROVE  Spaced(v, n - 1, short, m - 1, far)
<1>1. ASSUME NEW i \in 1 .. n - 1 PROVE v[i] > 0 => v[i] + short * (m - 1 - i) <= far
  <2>1. i + 1 \in 1 .. n /\ i \in Int
    OBVIOUS
  <2>2. short * (m - (i + 1)) = short * (m - 1 - i)
    BY <2>1
  <2> QED BY <2>1, <2>2 DEF Spaced
<1> QED BY <1>1 DEF Spaced

LEMMA SpacedAdded ==
    ASSUME NEW n \in Nat, NEW v, NEW w, \A i \in 1 .. n : v[i] = w[i],
           NEW short \in Nat, NEW far \in Int, v[n + 1] \in Int, v[n + 1] <= far,
           Spaced(w, n, short, n + 1, far)
    PROVE  Spaced(v, n + 1, short, n + 1, far)
<1>1. ASSUME NEW i \in 1 .. n + 1 PROVE v[i] > 0 => v[i] + short * (n + 1 - i) <= far
  <2>1. CASE i \in 1 .. n
    BY <2>1 DEF Spaced
  <2>2. CASE i = n + 1
    <3>1. short * (n + 1 - i) = 0
      BY <2>2
    <3> QED BY <2>2, <3>1
  <2> QED BY <2>1, <2>2
<1> QED BY <1>1 DEF Spaced

\* The transmission of one more packet takes "short" at least.
LEMMA SpacedNext ==
    ASSUME NEW n \in Nat, NEW w, \A i \in 1 .. n : w[i] \in Int,
           NEW short \in Nat, NEW far \in Int, NEW t \in Int, short <= t,
           Spaced(w, n, short, n, far)
    PROVE  Spaced(w, n, short, n + 1, far + t)
<1>1. ASSUME NEW i \in 1 .. n PROVE w[i] > 0 => w[i] + short * (n + 1 - i) <= far + t
  <2>1. short * (n + 1 - i) = short * (n - i) + short
    OBVIOUS
  <2>2. short * (n - i) \in Int
    OBVIOUS
  <2>3. w[i] > 0 => w[i] + short * (n - i) <= far
    BY DEF Spaced
  <2> QED BY <2>1, <2>2, <2>3
<1> QED BY <1>1 DEF Spaced

LEMMA SpacedOlder ==
    ASSUME NEW n \in Nat, NEW v, NEW w, \A i \in 1 .. n : w[i] \in Int,
           NEW late \in Nat,
           \A i \in 1 .. n : v[i] = IF w[i] < -late THEN w[i] ELSE w[i] - 1,
           NEW short \in Nat, NEW m \in Int, NEW far \in Int,
           Spaced(w, n, short, m, far)
    PROVE  Spaced(v, n, short, m, far - 1)
<1>1. ASSUME NEW i \in 1 .. n, v[i] > 0 PROVE v[i] + short * (m - i) <= far - 1
  <2>1. v[i] = w[i] - 1 /\ w[i] > 0
    BY <1>1
  <2>2. w[i] + short * (m - i) <= far /\ short * (m - i) \in Int
    BY <2>1 DEF Spaced
  <2> QED BY <2>1, <2>2
<1> QED BY <1>1 DEF Spaced

LEMMA SpacedWeaker ==
    ASSUME NEW n \in Nat, NEW w, \A i \in 1 .. n : w[i] \in Int,
           NEW short \in Nat, NEW m \in Int, NEW far \in Int, NEW more \in Int, far <= more,
           Spaced(w, n, short, m, far)
    PROVE  Spaced(w, n, short, m, more)
<1>1. \A i \in 1 .. n : short * (m - i) \in Int
  OBVIOUS
<1> QED BY <1>1 DEF Spaced

LEMMA SpacingKept ==
    ASSUME NEW short, NEW far, SpacingInv(short, far), SameLeft,
           ring'[qend'] = ring[qend],
           \A b \in Actors : \/ pc'[b] = pc[b] /\ busy'[b] = busy[b]
                             \/ pc'[b] \notin {"tx", "queue"}
    PROVE  SpacingInv(short, far)'
<1>1. Count' = Count /\ \A i \in 1 .. Count : Lefts'[i] = Lefts[i]
  BY DEF SameLeft
<1>2. \A m, y : Spaced(Lefts, Count, short, m, y) => Spaced(Lefts', Count', short, m, y)
  BY <1>1 DEF Spaced
<1> QED BY <1>1, <1>2 DEF SpacingInv

LEMMA SpacingTaken ==
    ASSUME NEW short \in Nat, NEW far, LinkInv, SpacingInv(short, far), OneTaken,
           ring'[qend'] = ring[qend], UNCHANGED busy,
           \A b \in Actors : pc'[b] = pc[b] \/ pc'[b] \notin {"tx", "queue"}
    PROVE  SpacingInv(short, far)'
<1>1. Count \in Nat /\ Count' = Count - 1 /\ \A i \in 1 .. (Count - 1) : Lefts'[i] = Lefts[i + 1]
  BY CountType DEF OneTaken
<1>2. ASSUME NEW m \in Int, NEW y, Spaced(Lefts, Count, short, m, y)
      PROVE  Spaced(Lefts', Count', short, m - 1, y)
  BY <1>1, <1>2, SpacedTaken
<1>3. Spaced(Lefts', Count', short, Count', far)
  BY <1>1, <1>2 DEF SpacingInv
<1>4. Count + 1 \in Int /\ (Count + 1) - 1 = Count' + 1
  BY <1>1
<1>5. ASSUME NEW y, Spaced(Lefts, Count, short, Count + 1, y)
      PROVE  Spaced(Lefts', Count', short, Count' + 1, y)
  <2>1. Spaced(Lefts', Count', short, (Count + 1) - 1, y)
    BY <1>2, <1>4, <1>5
  <2> QED BY <1>4, <2>1
<1> QED BY <1>3, <1>5 DEF SpacingInv

LEMMA TickSpacing ==
    ASSUME NEW short, NEW long, NEW near, NEW far, TimesWithin(short, long, near, far),
           LinkInv, SpacingInv(short, far), Tick
    PROVE  SpacingInv(short, far)'
<1>a. short \in Nat /\ far \in Int
  BY TimesAre
<1>b. MaxOverdue \in Nat
  BY TimesAre
<1>c. Count \in Nat /\ \A i \in 1 .. Count : Lefts[i] \in Int
  BY CountType
<1>1. /\ short \in Nat /\ far \in Int /\ MaxOverdue \in Nat /\ Count \in Nat /\ Count' = Count
      /\ \A i \in 1 .. Count : Lefts[i] \in Int
      /\ \A i \in 1 .. Count :
            Lefts'[i] = IF Lefts[i] < -MaxOverdue THEN Lefts[i] ELSE Lefts[i] - 1
  BY <1>a, <1>b, <1>c, TickTimes
<1>2. /\ UNCHANGED <<pc, qend, qstart>>
      /\ busy' = [a \in Actors |-> IF busy[a] > 0 THEN busy[a] - 1 ELSE 0]
      /\ busy \in [Actors -> Nat]
  BY DEF Tick, LinkInv, LibnetTypeOK
<1>3. ring'[qend] = ring[qend]
  BY TickEnd
<1>4. ASSUME NEW m \in Int, NEW y \in Int, Spaced(Lefts, Count, short, m, y)
      PROVE  Spaced(Lefts', Count', short, m, y - 1)
  BY <1>1, <1>4, SpacedOlder
<1>5. ASSUME NEW m \in Int, NEW y \in Int, NEW z \in Int, y - 1 <= z,
             Spaced(Lefts, Count, short, m, y)
      PROVE  Spaced(Lefts', Count', short, m, z)
  <2>1. Spaced(Lefts', Count', short, m, y - 1)
    BY <1>4, <1>5
  <2>2. \A i \in 1 .. Count' : Lefts'[i] \in Int
    BY <1>1
  <2>3. y - 1 \in Int /\ Count' \in Nat
    BY <1>1
  <2> QED BY <1>1, <1>5, <2>1, <2>2, <2>3, SpacedWeaker
<1>6. Spaced(Lefts', Count', short, Count', far)
  BY <1>1, <1>5 DEF SpacingInv
<1>7. ASSUME NEW a \in Actors, pc'[a] = "tx"
      PROVE  Spaced(Lefts', Count', short, Count' + 1, far + busy'[a])
  <2> DEFINE m == Count + 1
             y == far + busy[a]
             z == far + busy'[a]
  <2>1. m \in Int /\ y \in Int /\ z \in Int /\ y - 1 <= z
    BY <1>1, <1>2
  <2>2. Spaced(Lefts, Count, short, m, y)
    BY <1>2, <1>7 DEF SpacingInv
  <2>3. m = Count' + 1 /\ z = far + busy'[a]
    BY <1>1
  <2> HIDE DEF m, y, z
  <2>4. Spaced(Lefts', Count', short, m, z)
    BY <1>5, <2>1, <2>2
  <2> QED BY <2>3, <2>4
<1>8. ASSUME NEW a \in Actors, pc'[a] = "queue"
      PROVE  ring'[qend'].left <= far /\ Spaced(Lefts', Count', short, Count' + 1, far)
  <2>1. Count + 1 \in Int /\ far - 1 <= far
    BY <1>1
  <2>2. Spaced(Lefts, Count, short, Count + 1, far) /\ ring[qend].left <= far
    BY <1>2, <1>8 DEF SpacingInv
  <2> QED BY <1>1, <1>2, <1>3, <1>5, <2>1, <2>2
<1> QED BY <1>6, <1>7, <1>8 DEF SpacingInv

LEMMA EnqueueSpacing ==
    ASSUME NEW short, NEW long, NEW near, NEW far, TimesWithin(short, long, near, far),
           LinkInv, RingInv, SpacingInv(short, far), NEW a \in Actors, Enqueue(a)
    PROVE  SpacingInv(short, far)'
<1> USE DEF At, GoTo, lockVars, linkVars
<1>1. pc \in [Actors -> Steps] /\ Runs(a) /\ pc[a] \in EnqueueSteps
  BY DEF LinkInv, LibnetTypeOK, Enqueue, RoomFound, TakeQlock, Dropped, Store, AdvanceEnd,
         ReleaseQlock, EnqueueSteps
<1>2. \A b \in Actors \ {a} : pc[b] = "off"
  BY <1>1, Alone
<1>a. short \in Nat /\ far \in Int
  BY TimesAre
<1>3. /\ short \in Nat /\ far \in Int
      /\ Count \in Nat /\ (\A i \in 1 .. Count : Lefts[i] \in Int)
      /\ busy \in [Actors -> Nat]
  BY <1>a, CountType DEF LinkInv, LibnetTypeOK
<1>4. CASE RoomFound(a) \/ Dropped(a) \/ ReleaseQlock(a)
  <2>1. UNCHANGED ringVars /\ UNCHANGED busy
    BY <1>4 DEF RoomFound, Dropped, ReleaseQlock
  <2>2. \A b \in Actors : pc'[b] = pc[b] \/ pc'[b] \notin {"tx", "queue"}
    BY <1>1, <1>4 DEF RoomFound, Dropped, ReleaseQlock
  <2>3. SameLeft
    BY <2>1, RingAlone
  <2>4. ring'[qend'] = ring[qend]
    BY <2>1 DEF ringVars
  <2> QED BY <2>1, <2>2, <2>3, <2>4, SpacingKept
<1>5. CASE TakeQlock(a)
  <2>1. UNCHANGED ringVars /\ \E t \in TxTimes : busy' = [busy EXCEPT ![a] = t]
    BY <1>5 DEF TakeQlock
  <2>2. pc'[a] \in {"tx", "drop"} /\ \A b \in Actors \ {a} : pc'[b] = "off"
    BY <1>1, <1>2, <1>5 DEF TakeQlock, Keep, Lose
  <2>3. busy'[a] \in Int /\ short <= busy'[a]
    <3>1. PICK t \in TxTimes : busy' = [busy EXCEPT ![a] = t]
      BY <2>1
    <3>2. t \in Int /\ short <= t
      BY LibnetAssumption DEF TimesWithin
    <3> QED BY <1>3, <3>1, <3>2
  <2>4. Count' = Count /\ \A i \in 1 .. Count : Lefts'[i] = Lefts[i]
    BY <2>1, RingAlone DEF SameLeft
  <2>5. Spaced(Lefts, Count, short, Count, far)
    BY DEF SpacingInv
  <2>6. Spaced(Lefts, Count, short, Count + 1, far + busy'[a])
    BY <1>3, <2>3, <2>5, SpacedNext
  <2>7. Spaced(Lefts', Count', short, Count', far)
    BY <2>4, <2>5, SpacedSame
  <2>8. Spaced(Lefts', Count', short, Count' + 1, far + busy'[a])
    BY <2>4, <2>6, SpacedSame
  <2> QED BY <2>2, <2>7, <2>8 DEF SpacingInv
<1>6. CASE Store(a)
  <2>1. SameLeft /\ ring'[qend].left \in Rtts
    BY <1>6, StoreTimes
  <2>2. /\ pc[a] = "tx" /\ busy[a] = 0 /\ UNCHANGED <<qend, busy>>
        /\ pc' = [pc EXCEPT ![a] = "queue"]
    BY <1>6 DEF Store
  <2>3. Spaced(Lefts, Count, short, Count, far) /\ Spaced(Lefts, Count, short, Count + 1, far)
    BY <1>3, <2>2 DEF SpacingInv
  <2>4. Count' = Count /\ \A i \in 1 .. Count : Lefts'[i] = Lefts[i]
    BY <2>1 DEF SameLeft
  <2>5. Spaced(Lefts', Count', short, Count', far)
    BY <2>3, <2>4, SpacedSame
  <2>6. Spaced(Lefts', Count', short, Count' + 1, far)
    BY <2>3, <2>4, SpacedSame
  <2>7. ring'[qend'].left <= far
    BY <2>1, <2>2 DEF TimesWithin
  <2> QED BY <1>1, <1>2, <2>2, <2>5, <2>6, <2>7 DEF SpacingInv
<1>7. CASE AdvanceEnd(a)
  <2>1. OneAdded
    BY <1>7, AdvanceEndTimes
  <2>2. pc[a] = "queue" /\ pc' = [pc EXCEPT ![a] = "unlock"]
    BY <1>7 DEF AdvanceEnd
  <2>3. Spaced(Lefts, Count, short, Count + 1, far) /\ ring[qend].left <= far
    BY <2>2 DEF SpacingInv
  <2>4. ring[qend].left \in Int
    BY DEF LinkInv, LibnetTypeOK
  <2>5. Count' = Count + 1 /\ (\A i \in 1 .. Count : Lefts'[i] = Lefts[i])
        /\ Lefts'[Count + 1] = ring[qend].left
    BY <1>3, <2>1 DEF OneAdded
  <2>6. Spaced(Lefts', Count + 1, short, Count + 1, far)
    BY <1>3, <2>3, <2>4, <2>5, SpacedAdded
  <2> QED BY <1>1, <1>2, <2>2, <2>5, <2>6 DEF SpacingInv
<1> QED BY <1>4, <1>5, <1>6, <1>7 DEF Enqueue

LEMMA TimerSpacing ==
    ASSUME NEW short \in Nat, NEW far, LinkInv, RingInv, SpacingInv(short, far),
           NEW a \in Actors, Timer(a)
    PROVE  SpacingInv(short, far)'
<1> USE DEF At, GoTo, lockVars, linkVars
<1>1. pc \in [Actors -> Steps] /\ Runs(a)
  BY DEF LinkInv, LibnetTypeOK, Timer, EnterTimer, FoundDue, AdvanceStart, Transmit,
         LeaveTimer, CallUser, UserReturns
<1>2. UNCHANGED busy /\ \A b \in Actors : pc'[b] = pc[b] \/ pc'[b] \notin {"tx", "queue"}
  BY <1>1 DEF Timer, EnterTimer, FoundDue, AdvanceStart, Transmit, LeaveTimer, CallUser,
              UserReturns, Returned, TimerReturned
<1>3. CASE EnterTimer(a) \/ FoundDue(a) \/ LeaveTimer(a) \/ CallUser(a) \/ UserReturns(a)
  <2>1. UNCHANGED ringVars
    BY <1>3 DEF EnterTimer, FoundDue, LeaveTimer, CallUser, UserReturns
  <2>2. ring'[qend'] = ring[qend] /\ SameLeft
    BY <2>1, RingAlone DEF ringVars
  <2> QED BY <1>2, <2>2, SpacingKept
<1>4. CASE AdvanceStart(a)
  <2>1. ring'[qend'] = ring[qend]
    BY <1>4 DEF AdvanceStart
  <2> QED BY <1>2, <1>4, <2>1, AdvanceStartTimes, SpacingTaken
<1>5. CASE Transmit(a)
  <2>1. ptr # qend /\ ptr \in Slots /\ qend \in Slots
    BY <1>5 DEF Transmit, RingInv, LinkInv, LibnetTypeOK
  <2>2. ring'[qend'] = ring[qend]
    BY <1>5, <2>1 DEF Transmit, LinkInv, LibnetTypeOK
  <2> QED BY <1>2, <1>5, <2>2, TransmitTimes, SpacingKept
<1> QED BY <1>3, <1>4, <1>5 DEF Timer

LEMMA OthersSpacing ==
    ASSUME NEW short \in Nat, NEW far, LinkInv, SpacingInv(short, far),
           \/ \E a \in Actors : UserSends(a)
           \/ Sigalrm \/ Send \/ Arm \/ BeginClose \/ Flush \/ EndClose
    PROVE  SpacingInv(short, far)'
<1> USE DEF At, GoTo, lockVars, linkVars
<1>1. pc \in [Actors -> Steps]
  BY DEF LinkInv, LibnetTypeOK
<1>2. UNCHANGED busy /\ \A b \in Actors : pc'[b] = pc[b] \/ pc'[b] \notin {"tx", "queue"}
  BY <1>1 DEF UserSends, Sigalrm, Send, Arm, BeginClose, Flush, EndClose
<1>3. CASE Flush
  <2>1. /\ qstart # qend /\ qstart \in Slots /\ qend \in Slots
        /\ ring' = [ring EXCEPT ![qstart] = Free] /\ qend' = qend
    BY <1>3 DEF Flush, Due, LinkInv, LibnetTypeOK
  <2>2. ring'[qend'] = ring[qend]
    BY <2>1 DEF LinkInv, LibnetTypeOK
  <2> QED BY <1>2, <1>3, <2>2, FlushTimes, SpacingTaken
<1>4. CASE ~Flush
  <2>1. UNCHANGED ringVars
    BY <1>4 DEF UserSends, Sigalrm, Send, Arm, BeginClose, EndClose
  <2>2. ring'[qend'] = ring[qend] /\ SameLeft
    BY <2>1, RingAlone DEF ringVars
  <2> QED BY <1>2, <2>2, SpacingKept
<1> QED BY <1>3, <1>4

THEOREM SpacingInvariant ==
    ASSUME NEW short, NEW long, NEW near, NEW far, TimesWithin(short, long, near, far)
    PROVE  Spec => []SpacingInv(short, far)
<1>1. short \in Nat
  BY TimesAre
<1>2. Init => SpacingInv(short, far)
  <2> SUFFICES ASSUME Init PROVE SpacingInv(short, far)
    OBVIOUS
  <2>1. Count = 0
    BY LinkInit, CountType DEF Init
  <2>2. \A a \in Actors : pc[a] = "off"
    BY DEF Init
  <2> QED BY <2>1, <2>2 DEF SpacingInv, Spaced
<1>3. LinkInv /\ RingInv /\ SpacingInv(short, far) /\ [Next]_vars => SpacingInv(short, far)'
  <2> SUFFICES ASSUME LinkInv, RingInv, SpacingInv(short, far), [Next]_vars
               PROVE  SpacingInv(short, far)'
    OBVIOUS
  <2>1. CASE UNCHANGED vars
    <3>1. UNCHANGED <<ringVars, pc, busy, qend, ring>>
      BY <2>1 DEF vars, ringVars
    <3>2. SameLeft
      BY <3>1, RingAlone
    <3> QED BY <3>1, <3>2, SpacingKept
  <2>2. CASE Next
    BY <1>1, <2>2, EnqueueSpacing, TimerSpacing, OthersSpacing, TickSpacing DEF Next
  <2> QED BY <2>1, <2>2
<1> QED BY <1>2, <1>3, LinkInvariant, RingInvariant, PTL DEF Spec

\* When nothing is due, one round trip holds what is in the ring.
LEMMA NoneDue ==
    ASSUME NEW short \in Nat \ {0}, NEW far \in Nat, NEW room \in Nat, far <= short * room,
           LinkInv, SpacingInv(short, far), ~Due
    PROVE  Count <= room
<1>1. Count \in Nat /\ \A i \in 1 .. Count : Lefts[i] \in Int
  BY CountType
<1>2. SUFFICES ASSUME ~(Count <= room) PROVE FALSE
  OBVIOUS
<1>3. Count >= 1 /\ 1 \in 1 .. Count
  BY <1>1, <1>2
<1>4. Lefts[1] > 0 /\ Lefts[1] \in Int
  BY <1>1, <1>3, OldestIsDue, CountType
<1>5. Lefts[1] + short * (Count - 1) <= far
  BY <1>3, <1>4 DEF SpacingInv, Spaced
<1> DEFINE k == Count - 1
<1>6. k \in Nat /\ k >= room
  BY <1>1, <1>2, <1>3
<1> HIDE DEF k
<1>7. short * k >= short * room
  BY <1>6
<1>8. short * k \in Int /\ short * room \in Int
  BY <1>6
<1> QED BY <1>4, <1>5, <1>7, <1>8 DEF k

\* The packets the handler's user has sent are on top of those.
RoomInv(room) ==
    /\ pc["alarm"] \in {"calls", "unlock", "timer"} => Count <= room + HandlerSends - sends
    /\ pc["alarm"] \in {"full", "enter", "tx", "drop", "queue"} =>
          Count + 1 <= room + HandlerSends - sends

LEMMA RoomKept ==
    ASSUME NEW short \in Nat \ {0}, NEW far \in Nat, NEW room \in Nat, far <= short * room,
           LinkInv, RingInv, SpacingInv(short, far), RoomInv(room), [Next]_vars
    PROVE  RoomInv(room)'
<1> USE DEF At, GoTo, Runs, lockVars, linkVars
<1>1. /\ pc \in [Actors -> Steps] /\ "alarm" \in Actors
      /\ Count \in Nat /\ HandlerSends \in Nat /\ sends \in Int /\ 0 <= sends /\ sends <= HandlerSends
  BY CountType, LibnetAssumption DEF LinkInv, LibnetTypeOK, Actors
<1>2. ASSUME UNCHANGED ringVars PROVE Count' = Count
  BY <1>2, RingAlone DEF SameLeft
<1>3. CASE UNCHANGED vars \/ Tick
  <2>1. Count' = Count /\ UNCHANGED <<pc, sends>>
    BY <1>2, <1>3, TickTimes DEF vars, Tick
  <2> QED BY <2>1 DEF RoomInv
<1>4. CASE pc'["alarm"] \in {"off", "drain", "advance", "send"}
  BY <1>4 DEF RoomInv
<1>5. CASE Send \/ Arm \/ BeginClose \/ Flush \/ EndClose
  <2>1. pc'["alarm"] = "off"
    BY <1>1, <1>5 DEF Send, Arm, BeginClose, Flush, EndClose
  <2> QED BY <1>4, <2>1
<1>6. CASE Sigalrm
  <2>1. pc'["alarm"] \in {"off", "drain"}
    BY <1>1, <1>6 DEF Sigalrm
  <2> QED BY <1>4, <2>1
<1>7. CASE Enqueue("main") \/ Timer("main") \/ UserSends("main")
  <2>1. pc["alarm"] = "off" /\ pc'["alarm"] = pc["alarm"]
    BY <1>1, <1>7 DEF Enqueue, RoomFound, TakeQlock, Keep, Lose, Dropped, Store, AdvanceEnd,
       ReleaseQlock, Timer, EnterTimer, FoundDue, AdvanceStart, Transmit, LeaveTimer, CallUser,
       UserReturns, UserSends
  <2> QED BY <1>4, <2>1
<1>8. CASE RoomFound("alarm") \/ TakeQlock("alarm") \/ Dropped("alarm") \/ ReleaseQlock("alarm")
  <2>1. UNCHANGED ringVars /\ UNCHANGED sends
    BY <1>8 DEF RoomFound, TakeQlock, Dropped, ReleaseQlock
  <2>2. \/ /\ pc["alarm"] \in {"full", "enter", "drop"}
           /\ pc'["alarm"] \in {"enter", "tx", "drop", "unlock"}
        \/ pc["alarm"] = "unlock" /\ pc'["alarm"] = "timer"
    BY <1>1, <1>8 DEF RoomFound, TakeQlock, Keep, Lose, Dropped, ReleaseQlock
  <2> QED BY <1>1, <1>2, <2>1, <2>2 DEF RoomInv
<1>9. CASE Store("alarm")
  <2>1. Count' = Count /\ UNCHANGED sends
    BY <1>1, <1>9, StoreTimes DEF Store, SameLeft
  <2>2. pc["alarm"] = "tx" /\ pc'["alarm"] = "queue"
    BY <1>1, <1>9 DEF Store
  <2> QED BY <2>1, <2>2 DEF RoomInv
<1>10. CASE AdvanceEnd("alarm")
  <2>1. Count' = Count + 1 /\ UNCHANGED sends
    BY <1>1, <1>10, AdvanceEndTimes DEF AdvanceEnd, OneAdded
  <2>2. pc["alarm"] = "queue" /\ pc'["alarm"] = "unlock"
    BY <1>1, <1>10 DEF AdvanceEnd
  <2> QED BY <2>1, <2>2 DEF RoomInv
<1>11. CASE EnterTimer("alarm")
  <2>1. UNCHANGED ringVars /\ UNCHANGED sends
    BY <1>11 DEF EnterTimer
  <2>2. pc["alarm"] = "timer" /\ pc'["alarm"] = "calls"
    BY <1>1, <1>11 DEF EnterTimer, TimerBusy, Returned, LinkInv, ActorsInv
  <2> QED BY <1>2, <2>1, <2>2 DEF RoomInv
<1>12. CASE FoundDue("alarm") \/ AdvanceStart("alarm") \/ Transmit("alarm")
            \/ LeaveTimer("alarm") \/ UserReturns("alarm")
  <2>1. pc'["alarm"] \in {"off", "drain", "advance", "send"}
    BY <1>1, <1>12 DEF FoundDue, AdvanceStart, Transmit, LeaveTimer, UserReturns, TimerReturned
  <2> QED BY <1>4, <2>1
<1>13. CASE CallUser("alarm")
  <2>1. Count' = Count /\ sends' = HandlerSends /\ pc'["alarm"] = "calls"
    BY <1>1, <1>2, <1>13 DEF CallUser
  <2>2. Count <= room
    BY <1>13, NoneDue DEF CallUser
  <2> QED BY <1>1, <2>1, <2>2 DEF RoomInv
<1>14. CASE UserSends("alarm")
  <2>1. /\ Count' = Count /\ sends' = sends - 1
        /\ pc["alarm"] = "calls" /\ pc'["alarm"] = "full"
    BY <1>1, <1>2, <1>14 DEF UserSends
  <2>2. Count <= room + HandlerSends - sends
    BY <2>1 DEF RoomInv
  <2> QED BY <1>1, <2>1, <2>2 DEF RoomInv
<1> QED BY <1>3, <1>5, <1>6, <1>7, <1>8, <1>9, <1>10, <1>11, <1>12, <1>13, <1>14
        DEF Next, Enqueue, Timer, Actors

\* The handler, which nothing empties the ring for, never waits at a full ring
\* (libnet.c:246, 356), for every ring that is larger than what transmissions of
\* "short" ticks put into one round trip, plus what the user's functions send in one
\* run.  The code rests on that and tests it nowhere.
THEOREM HandlerFindsRoom ==
    ASSUME NEW short, NEW long, NEW near, NEW far, TimesWithin(short, long, near, far),
           NEW room \in Nat, far <= short * room, room + HandlerSends < RingSize
    PROVE  Spec => []HandlerNeverBlocked
<1>1. short \in Nat \ {0} /\ far \in Nat
  BY TimesAre
<1>2. Init => RoomInv(room)
  BY DEF Init, RoomInv, Actors
<1>3. LinkInv /\ RingInv /\ SpacingInv(short, far) /\ RoomInv(room) /\ [Next]_vars
         => RoomInv(room)'
  BY <1>1, RoomKept
<1>4. LinkInv /\ RoomInv(room) => HandlerNeverBlocked
  <2> SUFFICES ASSUME LinkInv, RoomInv(room), pc["alarm"] = "full", Full PROVE FALSE
    BY DEF HandlerNeverBlocked
  <2>1. Count = RingSize - 1 /\ sends \in Nat /\ HandlerSends \in Nat /\ RingSize \in Nat
    BY CountType, LibnetAssumption DEF LinkInv, LibnetTypeOK
  <2>2. Count + 1 <= room + HandlerSends - sends
    BY DEF RoomInv
  <2> QED BY <2>1, <2>2
<1> QED BY <1>2, <1>3, <1>4, LinkInvariant, RingInvariant, SpacingInvariant, PTL DEF Spec

-------------------------------------------------------------------------------
(* How late a packet is.                                                   *)

AtMost(left, n, y) == \A i \in 1 .. n : left[i] <= y
AtLeast(left, n, y) == \A i \in 1 .. n : left[i] >= y

\* No packet becomes due more than "ahead" before an older one.
Ordered(left, n, ahead) == \A i, j \in 1 .. n : i <= j => left[i] <= left[j] + ahead

\* Round trips are between "near" and "far", so what is stored next is due after that
\* as well; the transmission of it, which is not over, counts as time between them.
OrderInv(near, far, ahead) ==
    /\ Ordered(Lefts, Count, ahead) /\ AtMost(Lefts, Count, far)
    /\ \A a \in Actors : pc[a] = "tx" => AtMost(Lefts, Count, near + ahead + busy[a])
    /\ \A a \in Actors : pc[a] = "queue" => /\ AtMost(Lefts, Count, ring[qend].left + ahead)
                                            /\ ring[qend].left <= far

LEMMA OrderKept ==
    ASSUME NEW near, NEW far, NEW ahead, OrderInv(near, far, ahead), SameLeft,
           ring'[qend'] = ring[qend],
           \A b \in Actors : \/ pc'[b] = pc[b] /\ busy'[b] = busy[b]
                             \/ pc'[b] \notin {"tx", "queue"}
    PROVE  OrderInv(near, far, ahead)'
<1>1. Count' = Count /\ \A i \in 1 .. Count : Lefts'[i] = Lefts[i]
  BY DEF SameLeft
<1>2. \A y : AtMost(Lefts, Count, y) => AtMost(Lefts', Count', y)
  BY <1>1 DEF AtMost
<1>3. Ordered(Lefts', Count', ahead)
  BY <1>1 DEF OrderInv, Ordered
<1> QED BY <1>1, <1>2, <1>3 DEF OrderInv

LEMMA OrderTaken ==
    ASSUME NEW near, NEW far, NEW ahead, LinkInv, OrderInv(near, far, ahead), OneTaken,
           ring'[qend'] = ring[qend], UNCHANGED busy,
           \A b \in Actors : pc'[b] = pc[b] \/ pc'[b] \notin {"tx", "queue"}
    PROVE  OrderInv(near, far, ahead)'
<1>1. Count \in Nat /\ Count' = Count - 1 /\ \A i \in 1 .. (Count - 1) : Lefts'[i] = Lefts[i + 1]
  BY CountType DEF OneTaken
<1>2. \A i \in 1 .. Count' : i \in Int /\ i + 1 \in 1 .. Count /\ Lefts'[i] = Lefts[i + 1]
  BY <1>1
<1>3. \A y : AtMost(Lefts, Count, y) => AtMost(Lefts', Count', y)
  BY <1>2 DEF AtMost
<1>4. Ordered(Lefts', Count', ahead)
  <2>1. ASSUME NEW i \in 1 .. Count', NEW j \in 1 .. Count', i <= j
        PROVE  Lefts'[i] <= Lefts'[j] + ahead
    <3>1. i + 1 \in 1 .. Count /\ j + 1 \in 1 .. Count /\ i + 1 <= j + 1
      BY <1>2, <2>1
    <3>2. Lefts[i + 1] <= Lefts[j + 1] + ahead
      BY <3>1 DEF OrderInv, Ordered
    <3> QED BY <1>2, <3>2
  <2> QED BY <2>1 DEF Ordered
<1> QED BY <1>3, <1>4 DEF OrderInv

\* Waiting takes from everything alike, and nothing from what is late already.
LEMMA OlderOrder ==
    ASSUME NEW n \in Nat, NEW v, NEW w, \A i \in 1 .. n : w[i] \in Int,
           NEW late \in Nat, NEW ahead \in Nat,
           \A i \in 1 .. n : v[i] = IF w[i] < -late THEN w[i] ELSE w[i] - 1
    PROVE  /\ Ordered(w, n, ahead) => Ordered(v, n, ahead)
           /\ \A y \in Int : AtMost(w, n, y) => AtMost(v, n, y)
           /\ \A y \in Nat : AtMost(w, n, y) => AtMost(v, n, IF y > 0 THEN y - 1 ELSE y)
           /\ \A y \in Int : y >= -late /\ AtLeast(w, n, y) => AtLeast(v, n, y - 1)
<1>1. ASSUME Ordered(w, n, ahead) PROVE Ordered(v, n, ahead)
  <2>1. ASSUME NEW i \in 1 .. n, NEW j \in 1 .. n, i <= j PROVE v[i] <= v[j] + ahead
    <3>1. w[i] <= w[j] + ahead
      BY <1>1, <2>1 DEF Ordered
    <3> QED BY <3>1
  <2> QED BY <2>1 DEF Ordered
<1>2. \A y \in Int : AtMost(w, n, y) => AtMost(v, n, y)
  BY DEF AtMost
<1>3. \A y \in Nat : AtMost(w, n, y) => AtMost(v, n, IF y > 0 THEN y - 1 ELSE y)
  BY DEF AtMost
<1>4. \A y \in Int : y >= -late /\ AtLeast(w, n, y) => AtLeast(v, n, y - 1)
  BY DEF AtLeast
<1> QED BY <1>1, <1>2, <1>3, <1>4

LEMMA TickOrder ==
    ASSUME NEW near \in Nat, NEW far \in Nat, NEW ahead \in Nat, MaxOverdue \in Nat,
           LinkInv, OrderInv(near, far, ahead), Tick
    PROVE  OrderInv(near, far, ahead)'
<1>1. Count \in Nat /\ Count' = Count /\ \A i \in 1 .. Count : Lefts[i] \in Int
  BY CountType, TickTimes
<1>2. \A i \in 1 .. Count :
         Lefts'[i] = IF Lefts[i] < -MaxOverdue THEN Lefts[i] ELSE Lefts[i] - 1
  BY TickTimes
<1>3. /\ UNCHANGED <<pc, qend>> /\ ring'[qend] = ring[qend]
      /\ busy' = [a \in Actors |-> IF busy[a] > 0 THEN busy[a] - 1 ELSE 0]
      /\ busy \in [Actors -> Nat]
  BY TickEnd DEF Tick, LinkInv, LibnetTypeOK
<1>4. /\ Ordered(Lefts, Count, ahead) => Ordered(Lefts', Count, ahead)
      /\ \A y \in Int : AtMost(Lefts, Count, y) => AtMost(Lefts', Count, y)
      /\ \A y \in Nat : AtMost(Lefts, Count, y) => AtMost(Lefts', Count, IF y > 0 THEN y - 1 ELSE y)
  BY <1>1, <1>2, OlderOrder
<1>5. Ordered(Lefts', Count', ahead) /\ AtMost(Lefts', Count', far)
  BY <1>1, <1>4 DEF OrderInv
<1>6. ASSUME NEW a \in Actors, pc'[a] = "tx" PROVE AtMost(Lefts', Count', near + ahead + busy'[a])
  <2> DEFINE y == near + ahead + busy[a]
             z == near + ahead + busy'[a]
  <2>1. AtMost(Lefts, Count, y) /\ y \in Nat
    BY <1>3, <1>6 DEF OrderInv
  <2>2. IF busy[a] > 0 THEN y > 0 /\ z = y - 1 ELSE z = y
    BY <1>3
  <2> HIDE DEF y, z
  <2>3. AtMost(Lefts', Count', z)
    BY <1>1, <1>4, <2>1, <2>2
  <2> QED BY <2>3 DEF z
<1>7. ASSUME NEW a \in Actors, pc'[a] = "queue"
      PROVE  AtMost(Lefts', Count', ring'[qend'].left + ahead) /\ ring'[qend'].left <= far
  <2>1. ring[qend].left + ahead \in Int
    BY DEF LinkInv, LibnetTypeOK
  <2> QED BY <1>1, <1>3, <1>4, <1>7, <2>1 DEF OrderInv
<1> QED BY <1>5, <1>6, <1>7 DEF OrderInv

LEMMA EnqueueOrder ==
    ASSUME NEW short, NEW long, NEW near, NEW far, TimesWithin(short, long, near, far),
           NEW ahead \in Nat, far <= near + short + ahead,
           LinkInv, RingInv, OrderInv(near, far, ahead), NEW a \in Actors, Enqueue(a)
    PROVE  OrderInv(near, far, ahead)'
<1> USE DEF At, GoTo, lockVars, linkVars
<1>1. pc \in [Actors -> Steps] /\ Runs(a) /\ pc[a] \in EnqueueSteps
  BY DEF LinkInv, LibnetTypeOK, Enqueue, RoomFound, TakeQlock, Dropped, Store, AdvanceEnd,
         ReleaseQlock, EnqueueSteps
<1>2. \A b \in Actors \ {a} : pc[b] = "off"
  BY <1>1, Alone
<1>3. short \in Nat /\ far \in Nat /\ near \in Nat
  BY TimesAre
<1>a. /\ Count \in Nat /\ \A i \in 1 .. Count : Lefts[i] \in Int
      /\ busy \in [Actors -> Nat]
  BY CountType DEF LinkInv, LibnetTypeOK
<1>4. CASE RoomFound(a) \/ Dropped(a) \/ ReleaseQlock(a)
  <2>1. UNCHANGED ringVars /\ UNCHANGED busy
    BY <1>4 DEF RoomFound, Dropped, ReleaseQlock
  <2>2. \A b \in Actors : pc'[b] = pc[b] \/ pc'[b] \notin {"tx", "queue"}
    BY <1>1, <1>4 DEF RoomFound, Dropped, ReleaseQlock
  <2>3. SameLeft
    BY <2>1, RingAlone
  <2>4. ring'[qend'] = ring[qend]
    BY <2>1 DEF ringVars
  <2> QED BY <2>1, <2>2, <2>3, <2>4, OrderKept
<1>5. CASE TakeQlock(a)
  <2>1. UNCHANGED ringVars /\ \E t \in TxTimes : busy' = [busy EXCEPT ![a] = t]
    BY <1>5 DEF TakeQlock
  <2>2. pc'[a] \in {"tx", "drop"} /\ \A b \in Actors \ {a} : pc'[b] = "off"
    BY <1>1, <1>2, <1>5 DEF TakeQlock, Keep, Lose
  <2>3. busy'[a] \in Int /\ short <= busy'[a]
    <3>1. PICK t \in TxTimes : busy' = [busy EXCEPT ![a] = t]
      BY <2>1
    <3>2. t \in Int /\ short <= t
      BY LibnetAssumption DEF TimesWithin
    <3> QED BY <1>a, <3>1, <3>2
  <2>4. Count' = Count /\ \A i \in 1 .. Count : Lefts'[i] = Lefts[i]
    BY <2>1, RingAlone DEF SameLeft
  <2>5. Ordered(Lefts, Count, ahead) /\ AtMost(Lefts, Count, far)
    BY DEF OrderInv
  <2>6. Ordered(Lefts', Count', ahead) /\ AtMost(Lefts', Count', far)
    BY <2>4, <2>5 DEF Ordered, AtMost
  <2>7. AtMost(Lefts', Count', near + ahead + busy'[a])
    BY <1>3, <1>a, <2>3, <2>4, <2>5 DEF AtMost
  <2> QED BY <2>2, <2>6, <2>7 DEF OrderInv
<1>6. CASE Store(a)
  <2>1. SameLeft /\ ring'[qend].left \in Rtts
    BY <1>6, StoreTimes
  <2>2. /\ pc[a] = "tx" /\ busy[a] = 0 /\ UNCHANGED <<qend, busy>>
        /\ pc' = [pc EXCEPT ![a] = "queue"]
    BY <1>6 DEF Store
  <2>3. Ordered(Lefts, Count, ahead) /\ AtMost(Lefts, Count, far)
        /\ AtMost(Lefts, Count, near + ahead + busy[a])
    BY <2>2 DEF OrderInv
  <2>4. Count' = Count /\ \A i \in 1 .. Count : Lefts'[i] = Lefts[i]
    BY <2>1 DEF SameLeft
  <2>5. Ordered(Lefts', Count', ahead) /\ AtMost(Lefts', Count', far)
    BY <2>3, <2>4 DEF Ordered, AtMost
  <2>6. near + ahead + busy[a] = near + ahead
    BY <1>3, <2>2
  <2>8. near <= ring'[qend].left /\ ring'[qend].left <= far
    BY <2>1 DEF TimesWithin
  <2>9. ring'[qend].left \in Int
    <3>1. \A rtt \in Rtts : rtt \in Int
      BY LibnetAssumption
    <3> QED BY <2>1, <3>1
  <2>7. AtMost(Lefts', Count', ring'[qend'].left + ahead)
    BY <1>3, <1>a, <2>2, <2>3, <2>4, <2>6, <2>8, <2>9 DEF AtMost
  <2> QED BY <1>1, <1>2, <2>2, <2>5, <2>7, <2>8 DEF OrderInv
<1>7. CASE AdvanceEnd(a)
  <2>1. OneAdded
    BY <1>7, AdvanceEndTimes
  <2>2. pc[a] = "queue" /\ pc' = [pc EXCEPT ![a] = "unlock"]
    BY <1>7 DEF AdvanceEnd
  <2>3. /\ Ordered(Lefts, Count, ahead) /\ AtMost(Lefts, Count, far)
        /\ AtMost(Lefts, Count, ring[qend].left + ahead) /\ ring[qend].left <= far
    BY <2>2 DEF OrderInv
  <2>4. ring[qend].left \in Int
    BY DEF LinkInv, LibnetTypeOK
  <2>5. Count' = Count + 1 /\ (\A i \in 1 .. Count : Lefts'[i] = Lefts[i])
        /\ Lefts'[Count + 1] = ring[qend].left
    BY <1>a, <2>1 DEF OneAdded
  <2>6. \A i \in 1 .. (Count + 1) : i \in 1 .. Count \/ i = Count + 1
    BY <1>a
  <2>7. AtMost(Lefts', Count', far)
    BY <2>3, <2>5, <2>6 DEF AtMost
  <2>8. Ordered(Lefts', Count', ahead)
    <3>1. ASSUME NEW i \in 1 .. Count + 1, NEW j \in 1 .. Count + 1, i <= j
          PROVE  Lefts'[i] <= Lefts'[j] + ahead
      <4>1. CASE i \in 1 .. Count /\ j \in 1 .. Count
        BY <2>3, <2>5, <3>1, <4>1 DEF Ordered
      <4>2. CASE i \in 1 .. Count /\ j = Count + 1
        BY <2>3, <2>5, <4>2 DEF AtMost
      <4>3. CASE i = Count + 1
        <5>1. j = Count + 1
          BY <1>a, <3>1, <4>3
        <5> QED BY <2>4, <2>5, <4>3, <5>1
      <4> QED BY <2>6, <4>1, <4>2, <4>3
    <3> QED BY <2>5, <3>1 DEF Ordered
  <2> QED BY <1>1, <1>2, <2>2, <2>7, <2>8 DEF OrderInv
<1> QED BY <1>4, <1>5, <1>6, <1>7 DEF Enqueue

LEMMA TimerOrder ==
    ASSUME NEW near, NEW far, NEW ahead, LinkInv, RingInv, OrderInv(near, far, ahead),
           NEW a \in Actors, Timer(a)
    PROVE  OrderInv(near, far, ahead)'
<1> USE DEF At, GoTo, lockVars, linkVars
<1>1. pc \in [Actors -> Steps] /\ Runs(a)
  BY DEF LinkInv, LibnetTypeOK, Timer, EnterTimer, FoundDue, AdvanceStart, Transmit,
         LeaveTimer, CallUser, UserReturns
<1>2. UNCHANGED busy /\ \A b \in Actors : pc'[b] = pc[b] \/ pc'[b] \notin {"tx", "queue"}
  BY <1>1 DEF Timer, EnterTimer, FoundDue, AdvanceStart, Transmit, LeaveTimer, CallUser,
              UserReturns, Returned, TimerReturned
<1>3. CASE EnterTimer(a) \/ FoundDue(a) \/ LeaveTimer(a) \/ CallUser(a) \/ UserReturns(a)
  <2>1. UNCHANGED ringVars
    BY <1>3 DEF EnterTimer, FoundDue, LeaveTimer, CallUser, UserReturns
  <2>2. ring'[qend'] = ring[qend] /\ SameLeft
    BY <2>1, RingAlone DEF ringVars
  <2> QED BY <1>2, <2>2, OrderKept
<1>4. CASE AdvanceStart(a)
  <2>1. ring'[qend'] = ring[qend]
    BY <1>4 DEF AdvanceStart
  <2> QED BY <1>2, <1>4, <2>1, AdvanceStartTimes, OrderTaken
<1>5. CASE Transmit(a)
  <2>1. ptr # qend /\ ptr \in Slots /\ qend \in Slots
    BY <1>5 DEF Transmit, RingInv, LinkInv, LibnetTypeOK
  <2>2. ring'[qend'] = ring[qend]
    BY <1>5, <2>1 DEF Transmit, LinkInv, LibnetTypeOK
  <2> QED BY <1>2, <1>5, <2>2, TransmitTimes, OrderKept
<1> QED BY <1>3, <1>4, <1>5 DEF Timer

LEMMA OthersOrder ==
    ASSUME NEW near, NEW far, NEW ahead, LinkInv, OrderInv(near, far, ahead),
           \/ \E a \in Actors : UserSends(a)
           \/ Sigalrm \/ Send \/ Arm \/ BeginClose \/ Flush \/ EndClose
    PROVE  OrderInv(near, far, ahead)'
<1> USE DEF At, GoTo, lockVars, linkVars
<1>1. pc \in [Actors -> Steps]
  BY DEF LinkInv, LibnetTypeOK
<1>2. UNCHANGED busy /\ \A b \in Actors : pc'[b] = pc[b] \/ pc'[b] \notin {"tx", "queue"}
  BY <1>1 DEF UserSends, Sigalrm, Send, Arm, BeginClose, Flush, EndClose
<1>3. CASE Flush
  <2>1. /\ qstart # qend /\ qstart \in Slots /\ qend \in Slots
        /\ ring' = [ring EXCEPT ![qstart] = Free] /\ qend' = qend
    BY <1>3 DEF Flush, Due, LinkInv, LibnetTypeOK
  <2>2. ring'[qend'] = ring[qend]
    BY <2>1 DEF LinkInv, LibnetTypeOK
  <2> QED BY <1>2, <1>3, <2>2, FlushTimes, OrderTaken
<1>4. CASE ~Flush
  <2>1. UNCHANGED ringVars
    BY <1>4 DEF UserSends, Sigalrm, Send, Arm, BeginClose, EndClose
  <2>2. ring'[qend'] = ring[qend] /\ SameLeft
    BY <2>1, RingAlone DEF ringVars
  <2> QED BY <1>2, <2>2, OrderKept
<1> QED BY <1>3, <1>4

THEOREM OrderInvariant ==
    ASSUME NEW short, NEW long, NEW near, NEW far, TimesWithin(short, long, near, far),
           NEW ahead \in Nat, far <= near + short + ahead
    PROVE  Spec => []OrderInv(near, far, ahead)
<1>1. near \in Nat /\ far \in Nat
  BY TimesAre
<1>a. MaxOverdue \in Nat
  BY TimesAre
<1>2. Init => OrderInv(near, far, ahead)
  <2> SUFFICES ASSUME Init PROVE OrderInv(near, far, ahead)
    OBVIOUS
  <2>1. Count = 0
    BY LinkInit, CountType DEF Init
  <2>2. \A a \in Actors : pc[a] = "off"
    BY DEF Init
  <2> QED BY <2>1, <2>2 DEF OrderInv, Ordered, AtMost
<1>3. LinkInv /\ RingInv /\ OrderInv(near, far, ahead) /\ [Next]_vars => OrderInv(near, far, ahead)'
  <2> SUFFICES ASSUME LinkInv, RingInv, OrderInv(near, far, ahead), [Next]_vars
               PROVE  OrderInv(near, far, ahead)'
    OBVIOUS
  <2>1. CASE UNCHANGED vars
    <3>1. UNCHANGED <<ringVars, pc, busy, qend, ring>>
      BY <2>1 DEF vars, ringVars
    <3>2. SameLeft
      BY <3>1, RingAlone
    <3> QED BY <3>1, <3>2, OrderKept
  <2>2. CASE Next
    BY <1>1, <1>a, <2>2, EnqueueOrder, TimerOrder, OthersOrder, TickOrder DEF Next
  <2> QED BY <2>1, <2>2
<1> QED BY <1>2, <1>3, LinkInvariant, RingInvariant, PTL DEF Spec

\* The ticks that the handler's transmissions may have taken so far.
Spent(long) == (HandlerSends - sends) * long

\* What is left of the oldest packet's round trip.
Oldest(left, n, y) == n >= 1 => left[1] >= y

\* After SIGALRM and after a call of timer(), the oldest packet has something left to
\* wait for, so a tick later it is not late...
PromptInv ==
    /\ tlock => pc["alarm"] # "off" \/ pc["main"] \in TimerSteps
    /\ pc["main"] = "closed" => Count = 0
    /\ AtLeast(Lefts, Count, -MaxOverdue)
    /\ pc["alarm"] = "off" /\ ~pending
          /\ pc["main"] \in {"off", "full", "enter", "tx", "drop", "queue", "arm"}
          => Oldest(Lefts, Count, 1)
    /\ \A a \in Actors : pc[a] = "queue" => ring[qend].left >= 0

\* ... but while the handler transmits, nobody empties the ring.
HandlerInv(long) ==
    /\ pc["alarm"] \in {"full", "enter", "tx", "drop", "queue"} => sends < HandlerSends
    /\ pc["alarm"] \in {"full", "enter"} => Oldest(Lefts, Count, 1 - Spent(long) + long)
    /\ pc["alarm"] \in {"tx", "drop"} => Oldest(Lefts, Count, 1 - Spent(long) + busy["alarm"])
    /\ pc["alarm"] \in {"queue", "unlock", "timer", "calls"} =>
          Oldest(Lefts, Count, 1 - Spent(long))
    /\ pc["alarm"] \in EnqueueSteps \cup {"calls"} /\ ~pending => Oldest(Lefts, Count, 1)
    /\ pc["alarm"] \in {"tx", "drop"} /\ ~pending => busy["alarm"] > 0
    /\ pc["alarm"] = "queue" => pending

LateInv(long) == PromptInv /\ HandlerInv(long)

LEMMA AtLeastKept ==
    ASSUME LinkInv, SameLeft \/ OneTaken
    PROVE  \A y : AtLeast(Lefts, Count, y) => AtLeast(Lefts', Count', y)
<1>1. Count \in Nat
  BY CountType
<1>2. CASE SameLeft
  BY <1>2 DEF SameLeft, AtLeast
<1>3. CASE OneTaken
  <2>1. \A i \in 1 .. Count' : i + 1 \in 1 .. Count /\ Lefts'[i] = Lefts[i + 1]
    BY <1>1, <1>3 DEF OneTaken
  <2> QED BY <2>1 DEF AtLeast
<1> QED BY <1>2, <1>3

LEMMA AtLeastAdded ==
    ASSUME LinkInv, OneAdded, NEW y, ring[qend].left >= y, AtLeast(Lefts, Count, y)
    PROVE  AtLeast(Lefts', Count', y)
<1>1. Count \in Nat
  BY CountType
<1>2. \A i \in 1 .. Count' : /\ i \in 1 .. (Count + 1)
                             /\ IF i <= Count THEN i \in 1 .. Count ELSE i = Count + 1
  BY <1>1 DEF OneAdded
<1> QED BY <1>2 DEF OneAdded, AtLeast

LEMMA OldestKept ==
    ASSUME LinkInv, SameLeft
    PROVE  \A y : Oldest(Lefts, Count, y) => Oldest(Lefts', Count', y)
<1>1. Count' = Count /\ (Count >= 1 => Lefts'[1] = Lefts[1])
  <2>1. Count >= 1 => 1 \in 1 .. Count
    BY CountType
  <2> QED BY <2>1 DEF SameLeft
<1> QED BY <1>1 DEF Oldest

LEMMA OldestAdded ==
    ASSUME LinkInv, OneAdded, NEW y, ring[qend].left >= y, Oldest(Lefts, Count, y)
    PROVE  Oldest(Lefts', Count', y)
<1>1. Count \in Nat /\ 1 \in 1 .. (Count + 1)
  BY CountType
<1>2. Lefts'[1] = IF Count >= 1 THEN Lefts[1] ELSE ring[qend].left
  BY <1>1 DEF OneAdded
<1> QED BY <1>2 DEF Oldest

\* When nothing is due, the oldest packet has something left...
LEMMA NoneLate ==
    ASSUME LinkInv, ~Due
    PROVE  Oldest(Lefts, Count, 1)
<1>1. Count \in Nat /\ (Count >= 1 => 1 \in 1 .. Count /\ Lefts[1] \in Int)
  BY CountType
<1>2. Count >= 1 => Lefts[1] > 0
  BY <1>1, OldestIsDue, CountType
<1> QED BY <1>1, <1>2 DEF Oldest

\* ... and the others nearly so.
LEMMA OldestFirst ==
    ASSUME NEW near, NEW far, NEW ahead \in Nat, LinkInv, OrderInv(near, far, ahead),
           NEW y \in Int, Oldest(Lefts, Count, y)
    PROVE  AtLeast(Lefts, Count, y - ahead)
<1>1. Count \in Nat /\ \A i \in 1 .. Count : Lefts[i] \in Int
  BY CountType
<1>2. ASSUME NEW i \in 1 .. Count PROVE Lefts[i] >= y - ahead
  <2>1. 1 \in 1 .. Count /\ 1 <= i /\ Count >= 1
    BY <1>1
  <2>2. Lefts[1] >= y
    BY <2>1 DEF Oldest
  <2>3. Lefts[1] <= Lefts[i] + ahead
    BY <2>1 DEF OrderInv, Ordered
  <2> QED BY <1>1, <2>1, <2>2, <2>3
<1> QED BY <1>2 DEF AtLeast

LEMMA OldestLess ==
    ASSUME LinkInv, NEW x \in Int, NEW y \in Int, y <= x, Oldest(Lefts, Count, x)
    PROVE  Oldest(Lefts, Count, y)
<1>1. Count \in Nat /\ (Count >= 1 => 1 \in 1 .. Count /\ Lefts[1] \in Int)
  BY CountType
<1> QED BY <1>1 DEF Oldest

LEMMA TickAtLeast ==
    ASSUME LinkInv, MaxOverdue \in Nat, Tick,
           NEW y \in Int, y >= -MaxOverdue, AtLeast(Lefts, Count, y)
    PROVE  AtLeast(Lefts', Count', y - 1)
<1>1. Count \in Nat /\ Count' = Count /\ \A i \in 1 .. Count : Lefts[i] \in Int
  BY CountType, TickTimes
<1>2. \A i \in 1 .. Count :
         Lefts'[i] = IF Lefts[i] < -MaxOverdue THEN Lefts[i] ELSE Lefts[i] - 1
  BY TickTimes
<1>3. AtLeast(Lefts', Count, y - 1)
  BY <1>1, <1>2 DEF AtLeast
<1> QED BY <1>1, <1>3

LEMMA TickOldest ==
    ASSUME LinkInv, Tick, NEW y \in Int, Oldest(Lefts, Count, y)
    PROVE  Oldest(Lefts', Count', y - 1)
<1>1. Count \in Nat /\ Count' = Count /\ \A i \in 1 .. Count : Lefts[i] \in Int
  BY CountType, TickTimes
<1>2. Count >= 1 => /\ 1 \in 1 .. Count
                    /\ Lefts'[1] = IF Lefts[1] < -MaxOverdue THEN Lefts[1] ELSE Lefts[1] - 1
  BY <1>1, TickTimes
<1> QED BY <1>1, <1>2 DEF Oldest

LEMMA SpentIs ==
    ASSUME NEW short, NEW long, NEW near, NEW far, TimesWithin(short, long, near, far), LinkInv
    PROVE  /\ Spent(long) \in Nat /\ Spent(long) <= MaxLate /\ MaxLate \in Nat
           /\ long \in Nat \ {0}
           /\ sends < HandlerSends => Spent(long) >= long
<1>1. MaxLate = HandlerSends * long /\ MaxLate \in Nat /\ long \in Nat /\ long \in Nat \ {0}
  BY TimesAre, LibnetAssumption
<1>2. sends \in Nat /\ HandlerSends \in Nat /\ sends <= HandlerSends
  BY LibnetAssumption DEF LinkInv, LibnetTypeOK
<1> DEFINE k == HandlerSends - sends
<1>3. k \in Nat /\ k <= HandlerSends /\ (sends < HandlerSends => k >= 1)
  BY <1>2
<1>4. Spent(long) = k * long
  BY DEF Spent
<1> HIDE DEF k
<1>5. k * long \in Nat /\ k * long <= HandlerSends * long /\ (k >= 1 => k * long >= long)
  BY <1>1, <1>2, <1>3
<1> QED BY <1>1, <1>3, <1>4, <1>5

\* While time passes, the oldest packet is not due, or the handler is transmitting.
LEMMA NobodyWaits ==
    ASSUME LinkInv, HandlerNeverBlocked, NEW long, LateInv(long), TimeMayPass
    PROVE  IF pc["alarm"] = "off" THEN Oldest(Lefts, Count, 1)
           ELSE /\ pc["alarm"] \in {"tx", "drop"} /\ busy["alarm"] > 0
                /\ Oldest(Lefts, Count, 1 - Spent(long) + busy["alarm"])
<1>1. CASE pc["alarm"] = "off"
  <2>1. ~pending /\ Waits("main")
    BY <1>1 DEF TimeMayPass
  <2>2. CASE pc["main"] \in {"off", "full", "tx", "drop"}
    BY <1>1, <2>1, <2>2 DEF LateInv, PromptInv
  <2>3. CASE pc["main"] = "closed"
    BY <1>1, <2>3 DEF LateInv, PromptInv, Oldest
  <2>4. CASE pc["main"] = "close"
    <3>1. ~Due
      BY <2>1, <2>4 DEF Waits
    <3> QED BY <1>1, <3>1, NoneLate
  <2> QED BY <2>1, <2>2, <2>3, <2>4 DEF Waits
<1>2. CASE pc["alarm"] # "off"
  <2>1. Waits("alarm")
    BY <1>2 DEF TimeMayPass
  <2>2. pc["alarm"] \in {"tx", "drop"} /\ busy["alarm"] > 0
    BY <1>2, <2>1 DEF Waits, HandlerNeverBlocked, LinkInv, ActorsInv, EnqueueSteps, TimerSteps
  <2> QED BY <1>2, <2>2 DEF LateInv, HandlerInv
<1> QED BY <1>1, <1>2

LEMMA TickPrompt ==
    ASSUME NEW short, NEW long, NEW near, NEW far, TimesWithin(short, long, near, far),
           LinkInv, OrderInv(near, far, MaxAhead), HandlerNeverBlocked, LateInv(long), Tick
    PROVE  LateInv(long)'
<1>1. /\ Spent(long) \in Nat /\ Spent(long) <= MaxLate /\ MaxLate \in Nat
      /\ Spent(long)' = Spent(long)
  BY SpentIs DEF Tick, Spent
<1>a. /\ MaxAhead \in Nat /\ MaxOverdue \in Nat /\ MaxOverdue = MaxLate + MaxAhead
      /\ MaxOverdue' = MaxOverdue
  BY TimesAre DEF MaxOverdue, MaxLate, MaxAhead
<1>2. /\ UNCHANGED <<pc, qend, tlock, sends>> /\ ring'[qend] = ring[qend]
      /\ busy' = [a \in Actors |-> IF busy[a] > 0 THEN busy[a] - 1 ELSE 0]
      /\ busy \in [Actors -> Nat] /\ "alarm" \in Actors /\ "main" \in Actors
      /\ pending' = (pc["main"] \notin {"close", "closed"}) /\ TimeMayPass
  BY TickEnd DEF Tick, LinkInv, LibnetTypeOK, lockVars, Actors
<1>3. Count' = Count /\ Count \in Nat
  BY TickTimes, CountType
\* If the oldest packet is not overdue by more than that, no packet is by more than
\* MaxOverdue.
<1>4. ASSUME NEW y \in Int, y >= 1 - MaxLate, Oldest(Lefts, Count, y)
      PROVE  AtLeast(Lefts', Count', -MaxOverdue)
  <2> DEFINE z == y - MaxAhead
  <2>1. AtLeast(Lefts, Count, z)
    BY <1>a, <1>4, OldestFirst
  <2>2. z \in Int /\ z - 1 >= -MaxOverdue /\ z >= -MaxOverdue
    BY <1>1, <1>a, <1>4
  <2> HIDE DEF z
  <2>3. AtLeast(Lefts', Count', z - 1)
    BY <1>a, <2>1, <2>2, TickAtLeast
  <2>4. \A i \in 1 .. Count' : Lefts'[i] \in Int
    BY <1>3, <1>a, TickTimes, CountType
  <2> QED BY <1>a, <2>2, <2>3, <2>4 DEF AtLeast
<1>5. CASE pc["alarm"] = "off"
  <2>1. Oldest(Lefts, Count, 1)
    BY <1>2, <1>5, NobodyWaits
  <2>2. AtLeast(Lefts', Count', -MaxOverdue)
    BY <1>1, <1>4, <2>1
  <2>3. PromptInv'
    <3>1. ~pending' => pc'["main"] \in {"close", "closed"}
      BY <1>2
    <3> QED BY <1>2, <1>3, <1>5, <1>a, <2>2, <3>1 DEF LateInv, PromptInv
  <2>4. HandlerInv(long)'
    BY <1>2, <1>5 DEF HandlerInv, EnqueueSteps
  <2> QED BY <2>3, <2>4 DEF LateInv
<1>6. CASE pc["alarm"] # "off"
  <2>1. pc["main"] \notin {"close", "closed"} /\ pending'
    BY <1>2, <1>6 DEF LinkInv, ActorsInv
  <2> DEFINE y == 1 - Spent(long) + busy["alarm"]
  <2>2. pc["alarm"] \in {"tx", "drop"} /\ busy["alarm"] > 0 /\ Oldest(Lefts, Count, y)
    BY <1>2, <1>6, NobodyWaits
  <2>3. y \in Int /\ y >= 1 - MaxLate /\ y - 1 = 1 - Spent(long)' + busy'["alarm"]
    BY <1>1, <1>2, <2>2
  <2> HIDE DEF y
  <2>4. AtLeast(Lefts', Count', -MaxOverdue)
    BY <1>4, <2>2, <2>3
  <2>5. Oldest(Lefts', Count', y - 1)
    BY <2>2, <2>3, TickOldest
  <2>6. PromptInv'
    BY <1>2, <1>3, <1>6, <1>a, <2>1, <2>4 DEF LateInv, PromptInv
  <2>7. HandlerInv(long)'
    <3>1. Oldest(Lefts', Count', 1 - Spent(long)' + busy'["alarm"])
      BY <2>3, <2>5
    <3> QED BY <1>2, <2>1, <2>2, <3>1 DEF LateInv, HandlerInv
  <2> QED BY <2>6, <2>7 DEF LateInv
<1> QED BY <1>5, <1>6

\* The thread alone: nothing but its own timer() empties the ring meanwhile, but
\* while it waits it is interrupted.
LEMMA ThreadPrompt ==
    ASSUME NEW long, LinkInv, RingInv, LateInv(long), MaxOverdue \in Nat,
           \/ Enqueue("main") \/ Timer("main") \/ UserSends("main")
           \/ Send \/ Arm \/ BeginClose \/ Flush \/ EndClose
    PROVE  LateInv(long)'
<1> USE DEF At, GoTo, Runs, lockVars, linkVars
<1>1. pc \in [Actors -> Steps] /\ "main" \in Actors /\ "alarm" \in Actors /\ MaxOverdue' = MaxOverdue
  BY DEF LinkInv, LibnetTypeOK, Actors, MaxOverdue, MaxLate, MaxAhead
<1>2. /\ pc["alarm"] = "off" /\ pc'["alarm"] = "off"
      /\ \A a \in Actors : a = "main" \/ a = "alarm"
  BY <1>1 DEF Enqueue, RoomFound, TakeQlock, Keep, Lose, Dropped, Store, AdvanceEnd,
       ReleaseQlock, Timer, EnterTimer, FoundDue, AdvanceStart, Transmit, LeaveTimer, CallUser,
       UserReturns, UserSends, Send, Arm, BeginClose, Flush, EndClose, Actors
<1>3. HandlerInv(long)'
  BY <1>2 DEF HandlerInv, EnqueueSteps
<1>4. ~armed \/ pc["main"] \notin {"drain", "calls"}
  BY DEF LinkInv, ActorsInv, TimerSteps
<1>5. pc["main"] # "calls"
  BY DEF LinkInv, ActorsInv
<1> DEFINE AtLeastWill == \A y : AtLeast(Lefts, Count, y) => AtLeast(Lefts', Count', y)
           OldestWill == \A y : Oldest(Lefts, Count, y) => Oldest(Lefts', Count', y)
<1>6. CASE RoomFound("main") \/ TakeQlock("main") \/ Dropped("main") \/ ReleaseQlock("main")
           \/ FoundDue("main") \/ EnterTimer("main") \/ Send \/ Arm \/ BeginClose
  <2>1. UNCHANGED ringVars /\ pc'["main"] # "queue" /\ pc'["main"] # "closed"
    BY <1>1, <1>6 DEF RoomFound, TakeQlock, Keep, Lose, Dropped, ReleaseQlock, FoundDue, EnterTimer,
          Send, Arm, BeginClose, Returned
  <2>2. AtLeastWill /\ OldestWill
    BY <2>1, RingAlone, AtLeastKept, OldestKept
  <2>3. tlock' => pc'["main"] \in TimerSteps
    BY <1>1, <1>2, <1>6 DEF RoomFound, TakeQlock, Keep, Lose, Dropped, ReleaseQlock, FoundDue,
       EnterTimer, TimerBusy, Returned, Send, Arm, BeginClose, LateInv, PromptInv, TimerSteps
  <2>4. ~pending' /\ pc'["main"] \in {"off", "full", "enter", "tx", "drop", "queue", "arm"}
           => ~pending /\ pc["main"] \in {"off", "full", "enter", "tx", "drop", "queue", "arm"}
    BY <1>1, <1>2, <1>6 DEF RoomFound, TakeQlock, Keep, Lose, Dropped, ReleaseQlock, FoundDue,
       EnterTimer, TimerBusy, Returned, Send, Arm, BeginClose, LateInv, PromptInv, TimerSteps
  <2>5. PromptInv'
    BY <1>1, <1>2, <2>1, <2>2, <2>3, <2>4 DEF LateInv, PromptInv
  <2> QED BY <1>3, <2>5 DEF LateInv
<1>7. CASE Store("main")
  <2>1. SameLeft /\ ring'[qend].left \in Rtts /\ UNCHANGED <<qend, tlock, pending>>
    BY <1>1, <1>7, StoreTimes DEF Store
  <2>2. pc["main"] = "tx" /\ pc'["main"] = "queue"
    BY <1>1, <1>7 DEF Store
  <2>3. AtLeastWill /\ OldestWill
    BY <2>1, AtLeastKept, OldestKept
  <2>4. ring'[qend'].left >= 0
    <3>1. \A rtt \in Rtts : rtt >= 0
      BY LibnetAssumption
    <3> QED BY <2>1, <3>1
  <2>5. PromptInv'
    BY <1>1, <1>2, <2>1, <2>2, <2>3, <2>4 DEF LateInv, PromptInv, TimerSteps
  <2> QED BY <1>3, <2>5 DEF LateInv
<1>8. CASE AdvanceEnd("main")
  <2>1. pc["main"] = "queue" /\ pc'["main"] = "unlock" /\ UNCHANGED <<tlock, pending>>
    BY <1>1, <1>8 DEF AdvanceEnd
  <2>2. ring[qend].left >= 0 /\ ring[qend].left \in Int
    BY <1>1, <2>1 DEF LateInv, PromptInv, LinkInv, LibnetTypeOK
  <2>3. ring[qend].left >= -MaxOverdue /\ AtLeast(Lefts, Count, -MaxOverdue)
    BY <2>2 DEF LateInv, PromptInv
  <2>4. AtLeast(Lefts', Count', -MaxOverdue)
    BY <1>1, <1>8, <2>3, AdvanceEndTimes, AtLeastAdded
  <2>5. PromptInv'
    BY <1>1, <1>2, <2>1, <2>4 DEF LateInv, PromptInv, TimerSteps
  <2> QED BY <1>3, <2>5 DEF LateInv
<1>9. CASE AdvanceStart("main") \/ Transmit("main")
  <2>1. /\ pc["main"] \in TimerSteps /\ pc'["main"] \in {"send", "drain"}
        /\ UNCHANGED <<tlock, pending>>
    BY <1>1, <1>9 DEF AdvanceStart, Transmit, TimerSteps
  <2>2. AtLeastWill
    BY <1>1, <1>9, AdvanceStartTimes, TransmitTimes, AtLeastKept
  <2>3. PromptInv'
    BY <1>1, <1>2, <2>1, <2>2 DEF LateInv, PromptInv, TimerSteps
  <2> QED BY <1>3, <2>3 DEF LateInv
<1>10. CASE LeaveTimer("main")
  <2>1. UNCHANGED ringVars /\ ~Due /\ ~tlock' /\ pc'["main"] = "arm"
    BY <1>1, <1>10 DEF LeaveTimer, TimerReturned
  <2>2. AtLeastWill /\ OldestWill
    BY <2>1, RingAlone, AtLeastKept, OldestKept
  <2>3. Oldest(Lefts', Count', 1)
    BY <2>1, <2>2, NoneLate
  <2>4. PromptInv'
    BY <1>1, <1>2, <2>1, <2>2, <2>3 DEF LateInv, PromptInv
  <2> QED BY <1>3, <2>4 DEF LateInv
<1>11. CASE CallUser("main") \/ UserReturns("main") \/ UserSends("main")
  BY <1>4, <1>5, <1>11 DEF CallUser, UserReturns, UserSends
<1>12. CASE Flush
  <2>1. pc["main"] = "close" /\ pc'["main"] = "close" /\ UNCHANGED <<tlock, pending>>
    BY <1>12 DEF Flush
  <2>2. AtLeastWill
    BY <1>12, FlushTimes, AtLeastKept
  <2>3. PromptInv'
    BY <1>1, <1>2, <2>1, <2>2 DEF LateInv, PromptInv, TimerSteps
  <2> QED BY <1>3, <2>3 DEF LateInv
<1>13. CASE EndClose
  <2>1. /\ UNCHANGED ringVars /\ qstart = qend /\ pc["main"] = "close" /\ pc'["main"] = "closed"
        /\ UNCHANGED <<tlock, pending>>
    BY <1>1, <1>13 DEF EndClose, Flushed
  <2>2. Count = 0 /\ Count' = Count
    BY <2>1, CountType, RingAlone DEF SameLeft
  <2>3. AtLeastWill
    BY <2>1, RingAlone, AtLeastKept
  <2>4. PromptInv'
    BY <1>1, <1>2, <2>1, <2>2, <2>3 DEF LateInv, PromptInv, TimerSteps
  <2> QED BY <1>3, <2>4 DEF LateInv
<1> QED BY <1>6, <1>7, <1>8, <1>9, <1>10, <1>11, <1>12, <1>13 DEF Enqueue, Timer

LEMMA SigalrmPrompt ==
    ASSUME NEW long, LinkInv, LateInv(long), Sigalrm
    PROVE  LateInv(long)'
<1> USE DEF At, GoTo, Runs, lockVars, linkVars
<1>1. pc \in [Actors -> Steps] /\ "main" \in Actors /\ "alarm" \in Actors /\ MaxOverdue' = MaxOverdue
  BY DEF LinkInv, LibnetTypeOK, Actors, MaxOverdue, MaxLate, MaxAhead
<1>2. /\ UNCHANGED ringVars /\ pc["alarm"] = "off" /\ pc'["main"] = pc["main"]
      /\ \/ tlock /\ tlock' = tlock /\ pc'["alarm"] = "off"
         \/ pc'["alarm"] = "drain"
  BY <1>1 DEF Sigalrm, TimerBusy
<1>3. /\ \A y : AtLeast(Lefts, Count, y) => AtLeast(Lefts', Count', y)
      /\ \A y : Oldest(Lefts, Count, y) => Oldest(Lefts', Count', y)
  BY <1>2, RingAlone, AtLeastKept, OldestKept
<1>4. Count' = Count /\ ring'[qend'] = ring[qend]
  BY <1>2, RingAlone DEF SameLeft, ringVars
<1>5. \A a \in Actors : pc'[a] = "queue" => pc[a] = "queue"
  BY <1>1, <1>2 DEF Actors
<1>6. PromptInv'
  BY <1>1, <1>2, <1>3, <1>4, <1>5 DEF LateInv, PromptInv, TimerSteps
<1>7. HandlerInv(long)'
  BY <1>2 DEF HandlerInv, EnqueueSteps
<1> QED BY <1>6, <1>7 DEF LateInv

LEMMA HandlerPrompt ==
    ASSUME NEW short, NEW long, NEW near, NEW far, TimesWithin(short, long, near, far),
           LinkInv, RingInv, LateInv(long),
           Enqueue("alarm") \/ Timer("alarm") \/ UserSends("alarm")
    PROVE  LateInv(long)'
<1> USE DEF At, GoTo, Runs, lockVars, linkVars
<1>1. /\ pc \in [Actors -> Steps] /\ "main" \in Actors /\ "alarm" \in Actors
      /\ busy \in [Actors -> Nat] /\ sends \in Nat /\ HandlerSends \in Nat
      /\ sends <= HandlerSends
  BY LibnetAssumption DEF LinkInv, LibnetTypeOK, Actors
<1>a. MaxOverdue \in Nat /\ MaxOverdue' = MaxOverdue
  BY TimesAre DEF MaxOverdue, MaxLate, MaxAhead
<1>2. /\ Spent(long) \in Nat /\ Spent(long) <= MaxLate /\ MaxLate \in Nat
      /\ long \in Nat \ {0}
      /\ sends < HandlerSends => Spent(long) >= long
  BY SpentIs
<1>3. /\ pc["alarm"] # "off" /\ tlock /\ pc'["main"] = pc["main"]
      /\ pc["main"] \notin {"close", "closed"} /\ UNCHANGED pending
      /\ \A a \in Actors : a = "main" \/ a = "alarm"
  BY <1>1 DEF Enqueue, RoomFound, TakeQlock, Keep, Lose, Dropped, Store, AdvanceEnd,
       ReleaseQlock, Timer, EnterTimer, FoundDue, AdvanceStart, Transmit, LeaveTimer, CallUser,
       UserReturns, UserSends, Actors, LinkInv, ActorsInv
<1>4. pc["alarm"] \in EnqueueSteps \cup {"calls"} => pc["main"] = "off"
  BY DEF LinkInv, ActorsInv
<1>5. UNCHANGED sends => Spent(long)' = Spent(long)
  BY DEF Spent
<1> DEFINE AtLeastWill == \A y : AtLeast(Lefts, Count, y) => AtLeast(Lefts', Count', y)
           OldestWill == \A y : Oldest(Lefts, Count, y) => Oldest(Lefts', Count', y)
\* What a step that stays in the handler has to show of PromptInv.
<1>6. ASSUME pc'["alarm"] # "off", AtLeast(Lefts', Count', -MaxOverdue),
             pc'["alarm"] = "queue" \/ pc["main"] = "queue" => ring'[qend'].left >= 0
      PROVE  PromptInv'
  BY <1>1, <1>3, <1>6, <1>a DEF PromptInv
<1>7. AtLeast(Lefts, Count, -MaxOverdue)
      /\ (pc["alarm"] = "queue" \/ pc["main"] = "queue" => ring[qend].left >= 0)
  BY <1>1 DEF LateInv, PromptInv
<1>8. CASE RoomFound("alarm") \/ TakeQlock("alarm")
           \/ Dropped("alarm") \/ ReleaseQlock("alarm") \/ EnterTimer("alarm")
           \/ FoundDue("alarm") \/ CallUser("alarm") \/ UserSends("alarm")
  <2>1. UNCHANGED ringVars /\ pc'["alarm"] # "off" /\ pc'["alarm"] # "queue"
    BY <1>1, <1>8 DEF RoomFound, TakeQlock, Keep, Lose, Dropped, ReleaseQlock, EnterTimer,
       FoundDue, CallUser, UserSends, Returned
  <2>2. AtLeastWill /\ OldestWill
    BY <2>1, RingAlone, AtLeastKept, OldestKept
  <2>3. ring'[qend'] = ring[qend]
    BY <2>1 DEF ringVars
  <2>4. PromptInv'
    BY <1>6, <1>7, <2>1, <2>2, <2>3
  <2>5. CASE RoomFound("alarm")
    <3>1. pc["alarm"] = "full" /\ pc'["alarm"] = "enter" /\ UNCHANGED sends
      BY <1>1, <2>5 DEF RoomFound
    <3>2. HandlerInv(long)'
      BY <1>3, <1>5, <2>2, <3>1 DEF LateInv, HandlerInv, EnqueueSteps
    <3> QED BY <2>4, <3>2 DEF LateInv
  <2>6. CASE TakeQlock("alarm")
    <3>1. /\ pc["alarm"] = "enter" /\ pc'["alarm"] \in {"tx", "drop"} /\ UNCHANGED sends
          /\ busy'["alarm"] \in TxTimes
      BY <1>1, <2>6 DEF TakeQlock, Keep, Lose
    <3>2. busy'["alarm"] \in Int /\ 0 < busy'["alarm"] /\ busy'["alarm"] <= long
      <4>1. \A t \in TxTimes : t \in Int /\ 0 < t
        BY LibnetAssumption
      <4> QED BY <3>1, <4>1 DEF TimesWithin
    <3> DEFINE x == 1 - Spent(long) + long
               y == 1 - Spent(long) + busy'["alarm"]
    <3>3. Oldest(Lefts, Count, x) /\ x \in Int /\ y \in Int /\ y <= x
      BY <1>2, <3>1, <3>2 DEF LateInv, HandlerInv
    <3> HIDE DEF x, y
    <3>4. Oldest(Lefts', Count', y)
      BY <2>2, <3>3, OldestLess
    <3>5. Oldest(Lefts', Count', 1 - Spent(long)' + busy'["alarm"])
      BY <1>5, <3>1, <3>4 DEF y
    <3>6. sends < HandlerSends /\ (~pending => Oldest(Lefts, Count, 1))
      BY <3>1 DEF LateInv, HandlerInv, EnqueueSteps
    <3>7. HandlerInv(long)'
      BY <1>3, <2>2, <3>1, <3>2, <3>5, <3>6 DEF HandlerInv
    <3> QED BY <2>4, <3>7 DEF LateInv
  <2>7. CASE Dropped("alarm")
    <3>1. /\ pc["alarm"] = "drop" /\ busy["alarm"] = 0 /\ pc'["alarm"] = "unlock"
          /\ UNCHANGED sends
      BY <1>1, <2>7 DEF Dropped
    <3>2. 1 - Spent(long) + busy["alarm"] = 1 - Spent(long)
      BY <1>2, <3>1
    <3>3. Oldest(Lefts, Count, 1 - Spent(long)) /\ (~pending => Oldest(Lefts, Count, 1))
      BY <3>1, <3>2 DEF LateInv, HandlerInv, EnqueueSteps
    <3>4. HandlerInv(long)'
      BY <1>3, <1>5, <2>2, <3>1, <3>3 DEF HandlerInv
    <3> QED BY <2>4, <3>4 DEF LateInv
  <2>8. CASE ReleaseQlock("alarm") \/ EnterTimer("alarm")
    <3>1. /\ pc["alarm"] \in {"unlock", "timer"} /\ pc'["alarm"] \in {"timer", "calls"}
          /\ UNCHANGED sends
      BY <1>1, <1>3, <2>8 DEF ReleaseQlock, EnterTimer, TimerBusy, Returned
    <3>2. Oldest(Lefts, Count, 1 - Spent(long)) /\ (~pending => Oldest(Lefts, Count, 1))
      BY <3>1 DEF LateInv, HandlerInv, EnqueueSteps
    <3>3. HandlerInv(long)'
      BY <1>3, <1>5, <2>2, <3>1, <3>2 DEF HandlerInv
    <3> QED BY <2>4, <3>3 DEF LateInv
  <2>9. CASE FoundDue("alarm")
    <3>1. pc'["alarm"] = "advance"
      BY <1>1, <2>9 DEF FoundDue
    <3>2. HandlerInv(long)'
      BY <3>1 DEF HandlerInv, EnqueueSteps
    <3> QED BY <2>4, <3>2 DEF LateInv
  <2>10. CASE CallUser("alarm")
    <3>1. pc'["alarm"] = "calls" /\ sends' = HandlerSends /\ ~Due
      BY <1>1, <2>10 DEF CallUser
    <3>2. Spent(long)' = 0
      <4>1. Spent(long)' = (HandlerSends - sends') * long
        BY DEF Spent
      <4> QED BY <1>1, <1>2, <3>1, <4>1
    <3>3. Oldest(Lefts', Count', 1) /\ 1 - Spent(long)' = 1
      BY <2>2, <3>1, <3>2, NoneLate
    <3>4. HandlerInv(long)'
      BY <3>1, <3>3 DEF HandlerInv
    <3> QED BY <2>4, <3>4 DEF LateInv
  <2>11. CASE UserSends("alarm")
    <3>1. pc["alarm"] = "calls" /\ pc'["alarm"] = "full" /\ sends > 0 /\ sends' = sends - 1
      BY <1>1, <2>11 DEF UserSends
    <3>2. 1 - Spent(long)' + long = 1 - Spent(long)
      <4> DEFINE k == HandlerSends - sends
      <4>1. Spent(long)' = (HandlerSends - sends') * long
        BY DEF Spent
      <4>2. Spent(long)' = (k + 1) * long /\ Spent(long) = k * long /\ k \in Nat
        BY <1>1, <3>1, <4>1 DEF Spent
      <4> HIDE DEF k
      <4>3. (k + 1) * long = k * long + long /\ k * long \in Nat
        BY <1>2, <4>2
      <4> QED BY <1>2, <4>2, <4>3
    <3>3. Oldest(Lefts, Count, 1 - Spent(long)) /\ (~pending => Oldest(Lefts, Count, 1))
      BY <3>1 DEF LateInv, HandlerInv
    <3>4. sends' < HandlerSends
      BY <1>1, <3>1
    <3>5. HandlerInv(long)'
      BY <1>3, <2>2, <3>1, <3>2, <3>3, <3>4 DEF HandlerInv
    <3> QED BY <2>4, <3>5 DEF LateInv
  <2> QED BY <1>8, <2>5, <2>6, <2>7, <2>8, <2>9, <2>10, <2>11
<1>9. CASE Store("alarm")
  <2>1. SameLeft /\ ring'[qend].left \in Rtts /\ UNCHANGED <<qend, sends>>
    BY <1>1, <1>9, StoreTimes DEF Store
  <2>2. pc["alarm"] = "tx" /\ pc'["alarm"] = "queue" /\ busy["alarm"] = 0
    BY <1>1, <1>9 DEF Store
  <2>3. AtLeastWill /\ OldestWill
    BY <2>1, AtLeastKept, OldestKept
  <2>4. ring'[qend'].left >= 0
    <3>1. \A rtt \in Rtts : rtt >= 0
      BY LibnetAssumption
    <3> QED BY <2>1, <3>1
  <2>5. PromptInv'
    BY <1>6, <1>7, <2>2, <2>3, <2>4
  <2>6. 1 - Spent(long) + busy["alarm"] = 1 - Spent(long)
    BY <1>2, <2>2
  <2>7. Oldest(Lefts, Count, 1 - Spent(long)) /\ pending /\ sends < HandlerSends
    BY <2>2, <2>6 DEF LateInv, HandlerInv
  <2>8. HandlerInv(long)'
    BY <1>3, <1>5, <2>1, <2>2, <2>3, <2>7 DEF HandlerInv
  <2> QED BY <2>5, <2>8 DEF LateInv
<1>10. CASE AdvanceEnd("alarm")
  <2>1. pc["alarm"] = "queue" /\ pc'["alarm"] = "unlock" /\ UNCHANGED sends
    BY <1>1, <1>10 DEF AdvanceEnd
  <2>2. /\ ring[qend].left >= 0 /\ ring[qend].left \in Int
        /\ Oldest(Lefts, Count, 1 - Spent(long)) /\ pending /\ sends < HandlerSends
    BY <1>1, <2>1 DEF LateInv, PromptInv, HandlerInv, LinkInv, LibnetTypeOK
  <2> DEFINE y == 1 - Spent(long)
  <2>3. y <= 0 /\ y \in Int /\ -MaxOverdue <= 0
    BY <1>2, <1>a, <2>2
  <2>4. Oldest(Lefts, Count, y)
    BY <2>2
  <2>5. ring[qend].left >= y /\ ring[qend].left >= -MaxOverdue
    BY <1>a, <2>2, <2>3
  <2> HIDE DEF y
  <2>6. Oldest(Lefts', Count', y) /\ AtLeast(Lefts', Count', -MaxOverdue)
    BY <1>1, <1>7, <1>10, <2>4, <2>5, AdvanceEndTimes, AtLeastAdded, OldestAdded
  <2>7. Oldest(Lefts', Count', 1 - Spent(long)')
    BY <1>5, <2>1, <2>6 DEF y
  <2>8. PromptInv'
    BY <1>4, <1>6, <2>1, <2>6 DEF EnqueueSteps
  <2>9. HandlerInv(long)'
    BY <1>3, <2>1, <2>2, <2>7 DEF HandlerInv
  <2> QED BY <2>8, <2>9 DEF LateInv
<1>11. CASE AdvanceStart("alarm") \/ Transmit("alarm")
  <2>1. pc'["alarm"] \in {"send", "drain"}
    BY <1>1, <1>11 DEF AdvanceStart, Transmit
  <2>2. AtLeastWill
    BY <1>1, <1>11, AdvanceStartTimes, TransmitTimes, AtLeastKept
  <2>3. ring'[qend'] = ring[qend]
    <3>1. CASE AdvanceStart("alarm")
      BY <3>1 DEF AdvanceStart
    <3>2. CASE Transmit("alarm")
      <4>1. ptr # qend /\ ptr \in Slots /\ qend \in Slots
        BY <1>1, <3>2 DEF Transmit, RingInv, LinkInv, LibnetTypeOK
      <4> QED BY <3>2, <4>1 DEF Transmit, LinkInv, LibnetTypeOK
    <3> QED BY <1>11, <3>1, <3>2
  <2>4. PromptInv'
    BY <1>6, <1>7, <2>1, <2>2, <2>3
  <2>5. HandlerInv(long)'
    BY <2>1 DEF HandlerInv, EnqueueSteps
  <2> QED BY <2>4, <2>5 DEF LateInv
<1>12. CASE LeaveTimer("alarm") \/ UserReturns("alarm")
  <2>1. /\ UNCHANGED ringVars /\ ~tlock' /\ pc'["alarm"] = "off"
        /\ ~Due \/ pc["alarm"] = "calls"
    BY <1>1, <1>12 DEF LeaveTimer, UserReturns, TimerReturned
  <2>2. AtLeastWill /\ OldestWill
    BY <2>1, RingAlone, AtLeastKept, OldestKept
  <2>3. ring'[qend'] = ring[qend]
    BY <2>1 DEF ringVars
  <2>4. ~pending => Oldest(Lefts, Count, 1)
    BY <2>1, NoneLate DEF LateInv, HandlerInv
  <2>5. PromptInv'
    BY <1>1, <1>3, <1>7, <1>a, <2>1, <2>2, <2>3, <2>4 DEF PromptInv
  <2>6. HandlerInv(long)'
    BY <2>1 DEF HandlerInv, EnqueueSteps
  <2> QED BY <2>5, <2>6 DEF LateInv
<1> QED BY <1>8, <1>9, <1>10, <1>11, <1>12 DEF Enqueue, Timer

\* In such a ring, and whatever the round trips, a packet leaves late only behind older
\* ones (libnet.c:334, 373) and the handler's own transmissions (libnet.c:423): timer()
\* is called early enough otherwise, by SIGALRM or at the end of enqueue_data.
THEOREM LateBehindOlder ==
    ASSUME NEW short, NEW long, NEW near, NEW far, TimesWithin(short, long, near, far),
           NEW room \in Nat, far <= short * room, room + HandlerSends < RingSize
    PROVE  Spec => []LateBehindOlderOrHandler
<1>1. MaxOverdue \in Nat /\ MaxOverdue' = MaxOverdue
  BY TimesAre DEF MaxOverdue, MaxLate, MaxAhead
<1>a. PICK ahead \in Nat : ahead = MaxAhead /\ far <= near + short + ahead
  BY TimesAre
<1>2. Init => LateInv(long)
  <2> SUFFICES ASSUME Init PROVE LateInv(long)
    OBVIOUS
  <2>1. Count = 0
    BY LinkInit, CountType DEF Init
  <2>2. pc["main"] = "off" /\ pc["alarm"] = "off" /\ ~tlock /\ \A a \in Actors : pc[a] = "off"
    BY DEF Init, Actors
  <2> QED BY <2>1, <2>2 DEF LateInv, PromptInv, HandlerInv, AtLeast, Oldest, EnqueueSteps
<1>3. LinkInv /\ RingInv /\ OrderInv(near, far, ahead) /\ HandlerNeverBlocked /\ LateInv(long)
         /\ [Next]_vars => LateInv(long)'
  <2> SUFFICES ASSUME LinkInv, RingInv, OrderInv(near, far, ahead), HandlerNeverBlocked, LateInv(long),
                      [Next]_vars
               PROVE  LateInv(long)'
    OBVIOUS
  <2>1. CASE UNCHANGED vars
    <3>1. SameLeft /\ UNCHANGED <<pc, ring, qend, tlock, pending, sends, busy>>
      BY <2>1, RingAlone DEF vars, ringVars, lockVars
    <3>2. /\ \A y : AtLeast(Lefts, Count, y) => AtLeast(Lefts', Count', y)
          /\ \A y : Oldest(Lefts, Count, y) => Oldest(Lefts', Count', y)
      BY <3>1, AtLeastKept, OldestKept
    <3>3. Count' = Count /\ Spent(long)' = Spent(long)
      BY <3>1 DEF SameLeft, Spent
    <3>4. PromptInv'
      BY <1>1, <3>1, <3>2, <3>3 DEF LateInv, PromptInv
    <3>5. HandlerInv(long)'
      BY <3>1, <3>2, <3>3 DEF LateInv, HandlerInv
    <3> QED BY <3>4, <3>5 DEF LateInv
  <2>2. CASE Tick
    BY <1>a, <2>2, TickPrompt
  <2>3. CASE Sigalrm
    BY <2>3, SigalrmPrompt
  <2>4. CASE \/ Enqueue("main") \/ Timer("main") \/ UserSends("main")
             \/ Send \/ Arm \/ BeginClose \/ Flush \/ EndClose
    BY <1>1, <2>4, ThreadPrompt
  <2>5. CASE Enqueue("alarm") \/ Timer("alarm") \/ UserSends("alarm")
    BY <2>5, HandlerPrompt
  <2> QED BY <2>1, <2>2, <2>3, <2>4, <2>5 DEF Next, Actors
<1>4. LinkInv /\ HandlerNeverBlocked /\ LateInv(long) => LateBehindOlderOrHandler
  <2> SUFFICES ASSUME LinkInv, HandlerNeverBlocked, LateInv(long)
               PROVE  LateBehindOlderOrHandler
    OBVIOUS
  <2>1. ASSUME TimeMayPass, qstart # qend
        PROVE  ring[qstart].left > (IF pc["alarm"] = "off" THEN 0 ELSE busy["alarm"] - MaxLate)
    <3>1. Count >= 1 /\ 1 \in 1 .. Count /\ Lefts[1] \in Int
      BY <2>1, CountType
    <3>2. Lefts[1] = ring[qstart].left
      <4>1. Nth(qstart, 1) = qstart
        BY <2>1, PlaceTaken DEF LinkInv, LibnetTypeOK
      <4> QED BY <3>1, <4>1 DEF Lefts
    <3>3. Spent(long) \in Nat /\ Spent(long) <= MaxLate /\ MaxLate \in Nat
      BY SpentIs
    <3>4. busy["alarm"] \in Nat
      BY DEF LinkInv, LibnetTypeOK, Actors
    <3>5. CASE pc["alarm"] = "off"
      BY <2>1, <3>1, <3>2, <3>5, NobodyWaits DEF Oldest
    <3>6. CASE pc["alarm"] # "off"
      <4>1. Lefts[1] >= 1 - Spent(long) + busy["alarm"]
        BY <2>1, <3>1, <3>6, NobodyWaits DEF Oldest
      <4> QED BY <3>1, <3>2, <3>3, <3>4, <3>6, <4>1
    <3> QED BY <3>5, <3>6
  <2>2. ASSUME NEW s \in Range(InUse) PROVE ring[s].left >= -MaxOverdue
    <3>1. DOMAIN InUse = 1 .. Count /\ \A i \in 1 .. Count : InUse[i] = Nth(qstart, i)
      BY DEF InUse, Count, Used, Nth
    <3>2. PICK i \in 1 .. Count : s = Nth(qstart, i)
      BY <2>2, <3>1 DEF Range
    <3>3. Lefts[i] = ring[s].left
      BY <3>2 DEF Lefts
    <3> QED BY <3>3 DEF LateInv, PromptInv, AtLeast
  <2> QED BY <2>1, <2>2 DEF LateBehindOlderOrHandler
<1>5. Spec => []HandlerNeverBlocked
  BY HandlerFindsRoom
<1>6. Spec => []OrderInv(near, far, ahead)
  BY <1>a, OrderInvariant
<1> QED BY <1>2, <1>3, <1>4, <1>5, <1>6, LinkInvariant, RingInvariant, PTL DEF Spec
================================================================================
