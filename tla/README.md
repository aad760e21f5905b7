# adt_netcode in TLA+

`adt_netcode` copies a file from a client to a server over UDP. It is a sliding
window protocol with cumulative and selective acknowledgements, congestion
control, fast retransmission and a round trip estimator, over `libnet`, a small
library that gives the client one timer, a read callback and a simulated slow
and lossy network. This directory specifies the program in TLA+, checks the
specifications with TLC and proves what it can with TLAPS.

## 1. The system

| part | state it keeps | operations | modelled in |
|---|---|---|---|
| sender (`swp.c`) | `LAR`, `LFS`, `CongWin`, `Threshold`, `CongestionMode`, the semaphore `sendWindowNotFull`, per slot of `sendQ` the saved frame, its event, `duplicateAck`, `SACKed` | `sendSWP`, `deliverSWP` (acknowledgements), `congestion_timer`, `congestion_timeout`, `swpFastRecovery`, `updateRTT`, `register_timers` | `SwpSender` |
| event queues (`event.c`) | `EQ_Head`: frames whose timeout runs; `EQ_Tail`: frames whose timeout has expired | `evSchedule`, `evCancel`, `proc_timer`, `swpTimeout` | `EventQueue`, `SwpSender` |
| libnet (`libnet/libnet.c`) | `user_timer_fn`, `user_timer_interval`, `user_read_fn`, the ring of delayed packets, `tlock`, `qlock`, the train of losses | `u_sendto` (`enqueue_data`), `timer` (SIGALRM, `dequeue_data`), `register_timer`, `unregister_timer`, `register_read`, `close_net` | `Libnet` (ring, locks, losses, close); timer and read loop in `SwpSender` |
| receiver (`swp.c`) | `NFE`, `LAF`, `received` and the saved frame per slot of `recvQ` | `recvDataMainLoop`, `deliverSWP` (data), `prepare_ack` | `SwpReceiver` |
| SACK options (`swp_options.c`) | the list of blocks beyond a gap, `n_blocks`, `idx_last_block` | `prepare_sack`, `prepare_sack_culmuative_ack`, `swp_append_sack_opts` | `SackOptions`, `SackReceiver`, `SackWire` |
| round trip estimator (`event.c`, `swp.c`) | `estimatedRTT`, `estimatedRTTdev`, the shared `timeout` | `nextTimeoutValue`, the doubling in `swpTimeout`, `UMIN` in `sendSWP` | `RttEstimator` |
| client (`artcp_client.c`) | `sem_fin`, the registered read function | main loop, `processAcks`, `processFin`, close | `Artcp` |
| server (`artcp_server.c`) | the output file | main loop, `deliverHLP`, `sendLINK` | `SwpReceiver`, `Artcp` |
| messages and files (`msg.c`, `xfer.c`) | the buffer and `bytes_used` of a message, the position in the file | `msgAddHdr`, `msgStripHdr`, `msgSaveCopy`, `ReadFromFile`, `WriteToFile` | `Segments` |
| sequence numbers (`swp.c`) | `LAR`, `LFS`, `NFE` as `uint32_t` | `swpInWindow` at both ends | `SeqnoWindow` |
| sockets, debug output (`linklayer.c`, `comm.c`), `libtimer.c`, `test_sack.c`, `test_ppp.c` | | | not modelled, see section 8 |

### How the parts interact

*In the client* there is one thread and one signal. The thread runs `sendSWP`
once per frame: wait for the semaphore, test the window, `++LFS`, store the frame
in its slot, schedule its timeout, send, arm the timer. SIGALRM runs `timer()`,
which calls the registered timer function (`proc_timer` or `congestion_timer`)
when its deadline has passed, then the registered read function once per packet
that waits. All of deliverSWP's acknowledgement side therefore runs inside the
handler, between any two instructions of `sendSWP`. A handler run is not
interrupted by another one (`tlock`, and the signal is blocked). `timer()` calls
neither function while `user_timer_interval` is 0: `register_timer(0, NULL)` is
how the code keeps the handler out of its critical sections.

*In libnet* both the thread and the handler run `enqueue_data` (a call of
`u_sendto` that waits until the packet is transmitted, then puts it into the
ring) and `timer()` (which transmits what has waited for a round trip). The
handler interrupts the thread between any two instructions; a callback that
retransmits calls `u_sendto` inside `timer()`. `tlock` keeps `timer()` from
being entered twice, `qlock` keeps the callbacks from being called while a
packet is put into the ring.

*In the server* there is one thread, in `recvDataMainLoop`: a blocking receive,
then every packet that already waits, then one reply that answers the *last*
result only.

*Between them* packets are lost and reordered. There is no connection set-up; the
server leaves once the file has the size it expects.

### What is hard

Everything the handler changes is read by `sendSWP` before or after; a frame's
event moves between two queues, is cancelled and scheduled again in any order
with acknowledgements; slots are reused; the timer is one shot and is armed from
cached deadlines; packets are only read while a timer is armed; the end of the
transfer is a race of the last acknowledgement with the registration of
`processFin`. `PROJECT.json` lists each hazard with its line and the properties
that cover it.

### What makes each part correct

* sender: no frame is overwritten before it is acknowledged, every outstanding
  frame keeps exactly one event, the window is bounded, the thread is woken
  again, packets keep being read, the timed frame has been sent once;
* receiver: the file is written in order and once, a saved frame is not lost, no
  acknowledgement claims a frame that is not written;
* SACK list: it stays in its array, and never covers a frame that is missing; an
  option names the newest frame first and leaves out at most one block;
* libnet: thread and handler never fill the same slot, packets leave in order and
  once, the handler never waits for itself, every queued packet leaves, and late only
  behind older ones and what the handler sends;
* files: the bytes written are the bytes read, and both ends agree on the last
  frame although one counts bytes and the other frames;
* sequence numbers: a test modulo 2^32 decides as if they did not wrap;
* estimator: bounded above in spite of rounding, and bounded below by the round
  trip that was measured last;
* both ends together: they implement the abstract transfer (section 4), and the
  file arrives.

## 2. Modules

| module | what it is |
|---|---|
| `Transport` | slot arrays and the slot of a sequence number (`SWS`, `NFrames`) |
| `EventQueue` | `EQ_Head` and `EQ_Tail` as sequences read from `sentinel->next`: insertion, removal, expiry, the batch `congestion_timer` takes |
| `SwpSender` | client thread, signal handler, queues, congestion control |
| `SwpReceiver` | the receive loop, the receive window, the output file |
| `SackOptions`, `SackReceiver`, `SackWire` | the block list; the receiver together with it; the option that a reply carries |
| `Libnet` | the ring, its locks and losses, the thread and the signal handler in `enqueue_data` and `timer()`, `close_net`, time in ticks |
| `DelayLine` | abstract specification of libnet: packets wait or are lost, and leave in order and once |
| `Segments` | the bytes of the file through the buffers of both programs |
| `SeqnoWindow` | the windows of both ends over sequence numbers that wrap |
| `FileTransfer` | abstract specification: send in order at most `Window` ahead, write what was sent, acknowledge what is written |
| `Artcp` | client, server and network; its refinement of `FileTransfer`; liveness |
| `RttEstimator` | the estimator |
| `MCParts` | the receiver, the estimator, `Segments` and `SeqnoWindow` in one run, each in behaviours of its own, and the round trips TLC tries |
| `TransportProofs` | lemmas about slots, sequences as queues, extrema |
| `SwpSenderProofs`, `SenderQueueProofs` | theorems about the sender: window; queues, slots, timer, semaphore |
| `SwpReceiverProofs`, `ArtcpProofs`, `LibnetProofs` | theorems about the receiver, both ends, libnet |
| `SackProofs` | theorems about the block list and the option |
| `PartsProofs` | theorems about the estimator, the sequence numbers and the bytes of the file |

### State and steps

A frame is its sequence number, an event is the slot it is embedded in, and a
deadline is the slot whose entry carries it. `SwpSender` has one action per place
of `sendSWP` at which a handler run can change what the thread sees (`pc`), and
the handler is a run of its own (`handler`): it begins with `ProcTimer`,
`CongestionTimerFires` or a received packet, goes through one `ReleaseFrame` per
round of deliverSWP's loop and one `Rearm...` step, and reads the next packet or
ends. No thread step is taken in between, as in the program. `evSchedule` to
`register_timer` is one action, since `evSchedule` starts by setting the interval
to 0. A deadline may pass at any time and SIGALRM may come at any time, so every
order of timeouts and packets is explored.

The data is reduced to what the properties tell apart:

* The deadlines that the two sentinels cache are variables of their own
  (`EQH_time`, `EQT_time`): `dequeue_evt` leaves the deadline of a removed entry
  in them unless it was the last one of the queue. `register_timers` compares
  the two; both results are allowed, since the clock is not modelled.
* `duplicateAck` is one number, that of the slot of `LAR`: the counters of other
  slots are reset by the release loop before they are read.
* Two history variables count per slot, for the frame that is in it: `sends` its
  transmissions (up to two) and `withheld` the latest timeouts that did not transmit
  it. Every place that calls `sendLINK` goes through `Transmit`, which counts; no guard
  reads them.
* `ackTo` (the `AckNum` that the release loop runs up to) and `swp_res` (the
  result that a reply answers) are local variables of the program: they go back
  to their initial values at the end of the loop and after the reply, so that no
  state differs in a dead value only.

Three comparisons that decide control are kept as they are in the code even
where it is surprising: the window test lets a frame go when the window is
exactly full, `congestion_timer` indexes `sendQ` modulo `__RWS`, and
`timer()` deletes a timer whose deadline equals the old one.

`SwpReceiver.DeliverData` is the whole loop of deliverSWP, which stops in the
middle when the file is complete. `SackOptions` keeps the array with its stale
entries, because the code reads them. `RttEstimator` computes in integers what the code computes in
doubles and rounds; the results agree for round trips below a day.

In `Libnet` an actor's `pc` is the place in `enqueue_data` or `timer()` between two
accesses to shared state. A packet is its number in the order of `u_sendto`, and
time is counted in the milliseconds of the interval timer: instructions take no
time, waiting does, so `Tick` is taken only when nobody can go on. The bandwidth
and the round trip that libnet varies with time are a choice per packet. The
callbacks are the user's: `UserSends` any number of packets up to `HandlerSends`,
then `UserReturns` with the timer armed or not.

`SackWire` has no state of its own. A place of the option to which no block is
copied holds what was on the stack; this is why `SwpSender` takes SACK reports of
any frames, also of frames that were never sent, and why `SACKed` marks may be
wrong there.

`Segments` counts in bytes: a byte of the file is its position. A message is the
sequence that `bytes_used` counts, so the clamp in `msgSaveCopy` shows as `Junk`
bytes at the end of a short last frame. `SeqnoWindow` counts frames without bound,
and the code's tests see the counts modulo `SeqnoMod`.

Definitions whose comment says "mutant" are wrong on purpose: they are forms a
bug could take, and each property of a passing run is shown to fail with one of
them (`PROJECT.json`, "mutants").

## 3. Runs

All passing runs check deadlock, but `transfer_safety` and `transfer_liveness`:
there the client may have closed, or wait for ever (findings below).

| run | instance | shows |
|---|---|---|
| `sender_window` | 5 slots (`MaxSendWin` 2), 8 frames, no SACK | `SenderTypeOK`, `CongestionWindowBound`, `WindowBound`, `SavedUntilAcked`, `CancelFindsEvent`, `WakeupPending`, `SampleIsFirstTransmission` |
| `sender_sacks` | 5 slots, 4 frames, SACK reports of one frame, true or not | `QueuesHoldOutstanding`, `TimerTracksEntry`, `ReadsEnabled`, `NotWithheldTwice` |
| `sack_wire` | 8 slots, 9 frames, 3 blocks | `SackTypeOK`, `BlocksReceived`, `OnlyLastLeftOut`, `AnswerStartsWithFrame` |
| `libnet` | ring of 7, 7 packets, transmissions of 1 or 2 ticks, round trips of 1 or 4, trains of 3 losses, 2 packets per handler run | `LibnetTypeOK`, `OneInQueue`, `HandlerNeverBlocked`, `LateBehindOlderOrHandler`, `ImplementsDelayLine`, `QueuedIsTransmitted`, `SendReturns` |
| `transfer_safety` | 5 slots, 4 frames, 2 packets in flight each way | `AckedIsWritten`, `ImplementsTransfer` |
| `transfer_liveness` | 5 slots, 3 frames, SACK reports of one frame, 1 packet in flight each way, fairness | `FileArrives`, `TransferCompletes` |
| `parts`: receiver | 4 slots, 9 frames, 2 repetitions of the last | `ReceiverTypeOK`, `OutputInOrder`, `BufferInWindow`, `AcksWritten`, `BufferedUntilWritten` |
| `parts`: estimator | six round trips around the rounding points, cap 30 ms | `RttTypeOK`, `EstimateBounded`, `TimeoutCoversSample`, `FrameTimeoutCoversSample` |
| `parts`: segments | files of 0 to 21 bytes, frames of 5 bytes, headers of 3 | `OutputStartsWithInput`, `SavedIsSent`, `StopsWithLastByte` |
| `parts`: windows | numbers modulo 16, 40 frames, windows of 3 and 5, packets up to 11 frames late | `AckedWasDelivered`, `WindowTestsExact` |

Each of the runs `tail_empty`, `timer_lost`, `last_frame_again`, `closes_early` and
`fin_never_posted` violates one property (section 6).

### Bounds

* `SWS` (33 in the build). `MaxSendWin` is `(SWS - 1) / 2`. With 3 or 4 slots it
  is 1 and the semaphore then hands out one token per released frame: the
  protocol is stop-and-wait, no batch is ever longer than one and the interesting
  cases do not happen. With 5 slots it is 2: the window grows, halves and
  collapses, three frames can be outstanding, and `congestion_timer` can take a
  part of `EQ_Tail` and leave the rest.
* `NFrames`. In `sender_window` eight frames go through five slots, so a stale
  event, saved frame or counter of an earlier occupant would show. Nine frames
  go through four receiver slots.
* `MaxSacks`: frames in one SACK report. Reports follow each other, so one frame
  per report reaches every set of marks, in slots whose frame is outstanding,
  acknowledged or still to be sent. In `sender_sacks` no slot is used a second
  time, but a report of a frame not yet sent marks its slot as a late report of
  an earlier occupant would.
* `MaxInFlight`: how many packets the network holds in one direction; when more
  are sent, the older ones are lost. In the sender runs it is no restriction: the
  acknowledgements that arrive are of any frame handed to the network so far, and
  the properties about retransmissions count them (`sends`, `withheld`) instead of
  looking at the network. In
  `transfer_safety` two packets each way can overtake each other and any of them
  can be lost. In `transfer_liveness` there is one, so packets are lost and
  delayed but not reordered.
* `MaxRepeats`: repetitions of the last frame kept in `output` (finding 3); more
  of them change nothing else.
* `MaxBlocks`: 5 in the code. Three blocks are the least with which a block can
  be moved by the compaction, and nine frames overflow the list and use a slot
  twice.
* `RingSize`: `MAX_DATA_QUEUE` is 200. No more packets are in the ring than are
  transmitted in one round trip and by one handler run, so `HandlerNeverBlocked`
  needs `Max(Rtts) / Min(TxTimes) + HandlerSends + 1`: 7 places for these bounds.
  The thread meets the full ring too in the instance.
* `Rtts`, `TxTimes`: in the code round trips are between 150 and 200 ms and a full
  frame is transmitted in 12 to 20 ms, so they differ by 2.5 to 4 transmissions. 1 and 4
  ticks differ by three short transmissions: packets that are stored after the round
  trip has fallen are due up to two ticks before older ones.
* `MaxOverdue`: packets that are overdue by more than `LateBehindOlderOrHandler` allows
  are not told apart.
* `MaxPackets`: seven packets go through seven places. `HandlerSends` bounds the
  packets that the callbacks send in one run; the code's bound is the window.
* `Trains`: 2 to 5 losses in the code. A train of three begins, goes on and ends; the
  theorems hold for every choice of lengths.
* `MaxFileSize`: up to four full frames and a byte; every remainder modulo the
  payload of 5, those below and above what `msgSaveCopy` clamps to.
* `Late`: `Late + RWS <= SeqnoMod`, since a packet that is a round late cannot be
  told from a new one. The run has equality, the least the tests can bear.
* The network is a set: a packet sent again while an equal one is in flight adds
  nothing.

## 4. The abstract specification

`FileTransfer` has three counters, `acked <= written <= sent`. `Artcp` implements
it with `sent <- Scheduled`, `written <- Written`, `acked <- LAR` and a window of
`MaxSendWin + 1`, since `sendSWP` sends when `WindowSize` is 0. The run
`transfer_safety` checks this for every step, `ArtcpIsTransfer` proves it.

`DelayLine` is what libnet promises its user. `Libnet` implements it with
`waiting <-` the packet in the hand of `dequeue_data` and those in the ring, and
`decided <-` the packets handed over without the one being transmitted
(`ImplementsDelayLine`, proved by `LibnetIsDelayLine`). The sender, and `Artcp` with it, assume less of the
network than this: packets may also overtake each other.

Two properties tie the parts together. `BlocksReceived` shows that the blocks
copied into an option report what `Reportable` allows the server of `Artcp` to
report. `OutputInOrder` is the assumption under which `Segments` takes the network
for a sequence.

## 5. Liveness and fairness

`FairSpec` assumes of

* the thread, the end of the file, the close, a handler run that has begun
  (`HandlerRuns`) and the server's reply: weak fairness. Each is enabled until
  taken, by a process that the system schedules;
* `TimerFires`: strong fairness. SIGALRM comes every millisecond and a deadline
  passes, but an acknowledgement may disarm and rearm the timer before;
* `TailHandled`: strong fairness of the steps that attend to `EQ_Tail`, namely
  `proc_timer` choosing `congestion_timer` for its successor, and
  `congestion_timer` called by an acknowledgement. The model leaves the comparison
  of deadlines in `register_timers` open, which alone would let it prefer `EQ_Head`
  for ever. The program cannot: an entry that stays in `EQ_Tail` keeps its
  deadline while those of `EQ_Head` grow with each retransmission;
* the network: strong fairness of the delivery of each frame and of an
  acknowledgement that is news to the client. What is sent again and again
  arrives at some time. Packets that are sent finitely often may all be lost.

`FairSpec` of `Libnet` assumes weak fairness of time, of SIGALRM, and of code that has
begun to run: `enqueue_data`, `timer()`, `close_net`. The user need not send, the
callbacks need not send. `QueuedIsTransmitted` then says that a packet in the ring
leaves, through SIGALRM, a later `u_sendto` or `close_net`; `SendReturns` that a
call of `u_sendto` returns also when it meets a full ring.

`FileArrives` says that the whole file arrives unless the client exits (finding
1) or its timer is lost for good (finding 2): there is no third way to stall.
`TransferCompletes` says that once the server has left, the client learns it,
unless the one acknowledgement of the last frame is lost: the server is gone
and the client then retransmits for ever.

## 6. Findings

Each is a run that violates one property.

1. `tail_empty`: between `++LFS` (swp.c:322) and `evSchedule` (341) an
   acknowledgement of all earlier frames makes `deliverSWP` see an outstanding
   frame without an event; the client exits with "EQ_Tail is an empty list".
2. `timer_lost`: a timer callback that registers the deadline that has just
   passed has its new timer deleted too (libnet.c:404). No SACK is needed: two
   frames have timed out together and are queued again; a repeated acknowledgement
   makes deliverSWP wait for the deadline of the first of them; when that passes,
   `proc_timer` moves both to `EQ_Tail` but re-queues the last entry only, and
   `register_timers` registers the deadline of the other one, which is the one that has
   just passed. Frames are outstanding and no timer runs until a packet arrives.
3. `last_frame_again`: `NFE` is not advanced past the last frame; a repetition
   that waits in the socket is written to the file again.
4. `closes_early`: when the file is a multiple of the payload size, `sem_fin` is
   posted at the empty read, and the client closes with frames unacknowledged.
5. `fin_never_posted`: when the last acknowledgement is handled before
   `processFin` is registered, no read function is called any more and the
   client waits for ever.

Deviations without a run:

* `swp_append_sack_opts` spends a turn of its loop on the block it has already
  copied (swp_options.c:319), so an option can announce one block more than was
  copied into it, and the last one is what was on the stack. `OnlyLastLeftOut`
  shows that it is the last one only, `NotWithheldTwice` that a false mark does not
  withhold a frame at two timeouts in a row.
* libnet.c:359-361 wants "a real phy transmit even if u_sendto is blocked". That
  holds for the thread. When a callback sends, SIGALRM is blocked and `tlock` is
  set: packets that fall due wait for the handler.
* `dequeue_data` looks at the oldest packet only (libnet.c:334), so after `current_rtt`
  has fallen (373) packets leave later than their `tx_time`, behind older ones, with
  no handler involved. `LateBehindOlderOrHandler` says that these two are the only
  reasons, and bounds what they add up to.
* The second repetition of the last acknowledgement tests only the event type of
  slot `LAR + 1` (swp.c:407): with nothing outstanding an empty message goes to
  `sendLINK` and the window is halved. It costs throughput only.
* `WindowSize` and `WindowLength` compare `LAR` and `LFS` as they are: when `LFS` has
  wrapped and `LAR` has not, the frames in flight count negative (swp.c:642).

## 7. Proofs

A theorem holds for every value of the constants that the named assumptions
allow (TLC evaluates them in the runs); the proofs rest on nothing else. Each
invariant below was checked by TLC before it was proved. One lemma per action
shows that the action keeps the invariant.

`TransportProofs` has what the others share: `SlotsDiffer` (frames less than `SWS`
apart have different slots), what insertion, removal, expiry and the batch
return for queues over any set, and `LeastNatural`, from which maxima and least
counterexamples come.

### The sender's window

`SwpSenderProofs` proves `SenderTypeCorrect`, `CongestionWindowIsBounded` and
`WindowIsBounded`, for every `SWS >= 3`, `NFrames >= 1`, `MaxSacks` and `MaxInFlight`.
`WindowBound` alone is not inductive. `ThreadInv` adds that between
the window test and `++LFS` at most `MaxSendWin` frames are outstanding; it is
established by the test from `CongWin <= MaxSendWin` and kept by every handler
step, since those only move `LAR` up. `AckingInv` adds that `deliverSWP`'s loop
stays between `LAR` and `LFS`; without it `LAR` could pass `LFS`.

### The sender's queues, slots, timer and semaphore

`SenderQueueProofs` proves the other eight properties of the sender from one
invariant, `QueueInv`. Its parts need each other:

* `EntriesInv`: the entries of the two queues are pairwise different and are exactly
  the slots of the scheduled frames above `LAR`. `evCancel` and `++LAR` keep it since
  the slots of the window differ (`WindowIsBounded`); the move of a batch from one
  queue to the other keeps it since nothing is in both;
* `SavedInv`: a slot holds a copy exactly while its frame is saved and not
  acknowledged. A handler retransmits `msg[s]` of an entry `s`: with `EntriesInv`
  that is an outstanding frame;
* `SentInv`: nothing is in the network, and nothing is acknowledged, that
  is not scheduled. Between `++LFS` and `evSchedule` there is a number without an event:
  if it could be acknowledged, `evCancel` would take an entry that is not there;
* `TimesInv`, `IntervalInv`, `ArmedInv`: the cached deadlines, the interval and the timer
  function fit the queues, inside a handler run with the exceptions stated there
  (findings 1 and 2 start from them);
* `SampleInv`: the timed slot is that of a frame that is numbered and was sent once at
  most. When a slot is used again its old sample has ended, since `++LAR` ends it;
* `HistoryInv`: an outstanding frame whose event is a first timeout has not been
  withheld, any other once in a row at most; a slot that is about to be scheduled has no
  history;
* `TokenInv`: a thread that waits with nothing outstanding finds a token.

`SampleIsUnambiguous` and `SecondTimeoutIsNotWithheld` are about the history variables.
The first holds because a frame that is sent again, by the batch of `congestion_timer`
or by `swpFastRecovery`, is no longer timed in the same step. For the second: the batch
contains every entry of `EQ_Tail` that it counts, and each of them is either sent, or
marked and not yet delayed; at the next timeout its mark is forgotten before it is tested.

### The receiver

`SwpReceiverProofs` proves the receiver's five properties for every `SWS`, `NFrames`
and number of kept repetitions. `ReceiverInv` adds to the three state properties
that `NFE` is the number of frames written plus one, but for the last frame
(`ExpectedInv`), and that only a complete file is reported complete (`ResultInv`).
`DeliverData` is a loop over consecutive slots: `DeliverDataEffect` says what it
returns, with the first slot that is not received from `LeastNatural`.
`BufferedIsWritten`: no step drops a frame that is saved beyond a gap.

### Both ends

`ArtcpProofs` proves `OnlyWrittenIsReleased` and the refinement `ArtcpIsTransfer`. A
step of `Artcp` is a step of one end and of the network, so `ArtcpInv` is
`SenderInv`, `QueueInv` and `ReceiverInv` with two parts that tie them together:
`AckInv` (`LAR <= Written <= Scheduled`, and no acknowledgement on its way is of a
frame that is not written) and `ArrivedInv` (what the server has buffered was
sent). The abstract transfer needs `LAR <= Written`, which is true only because the
replies in flight were truthful when they were sent and `Written` never falls.

### libnet

`LibnetProofs` proves `LibnetTypeCorrect`, `OneActorInQueue` and the refinement
`LibnetIsDelayLine` for every ring of at least two places, every choice of times
and every user. `OneInQueue` is not inductive: `ActorsInv` adds that
the thread is in `enqueue_data` or `timer()` only while `user_timer_interval` is 0
(`sendSWP` disarms first), that the handler holds `tlock` wherever it is, and that
it sends only while the thread is outside libnet. The refinement adds `RingInv`:
whoever is past the test for a full ring finds it not full until it advances `qend`,
although the test is made before `qlock` is set, and whoever is about to advance
`qstart` finds the ring not empty. The ring's contents from `qstart` to `qend` are then a
sequence that grows at its end and shrinks at its front.

The two properties about time hold for rings that are large enough, and the
theorems say how large. Let transmissions take `short` ticks at least and round
trips `far` at most; `room` transmissions fit one round trip. `HandlerFindsRoom` proves
`HandlerNeverBlocked` for every ring of more than `room + HandlerSends` places: of the
packets in the ring each was transmitted after the one before it (`SpacingInv`), so a
handler that has just emptied the ring of what was due finds `room` packets at most,
and what it sends itself is counted by `sends` (`RoomInv`).

`LateBehindOlder` proves `LateBehindOlderOrHandler` for the same rings, however much
round trips differ. When no handler is due and the thread is not in `timer()`, the
oldest packet has a tick left (`PromptInv`); while a handler sends, it is overdue by no
more than the handler's transmissions have taken so far (`HandlerInv`). Nothing of this
kind holds of the packets behind it: they may be due already. But one packet is never
due more than `MaxAhead` before an older one, since it was stored at least a
transmission later (`OrderInv`), and that bounds how late they can get. The hypotheses
name the shortest and the longest transmission and round trip; the run's numbers, 1, 2
and 1, 4, meet the one about the ring with equality: 4 + 2 < 7.

### Estimator, sequence numbers, bytes of the file

`PartsProofs` proves the four properties of the estimator for every set of
round trips and every cap. The bound on the estimate is inductive because
`MaxEstimate` is a multiple of 8: 7/8 of it and an eighth of a sample, each
rounded up, add up to no more than it. The lower bound on the timeout uses that
the new estimate and four deviations cover the sample, and that neither the cap
nor the doubling goes below the capped sample.

It also proves, for every width of the sequence numbers that leaves
room for window and lateness (`WindowAssumption`, `LateAssumption`):
`WrapKeepsOrder`, `WindowSpec => []AckedWasDelivered`, and
`WrappedTestsAreExact`, the same of `WindowTestsExact`. The invariant is the order
`lar < nfe <= lfs + 1 <= lar + Window + 1` itself: under it every packet is less than a
round of numbers from the window it is tested against, and `SameRemainder`, which
says that two such numbers with one remainder are equal, makes the modular test
the plain one.

For `Segments` it proves `BytesArriveInOrder`, `CopiesArePackets` and `ServerStopsInTime`
(`OutputStartsWithInput`, `SavedIsSent`, `StopsWithLastByte`) for every size of file,
buffer and header that `SegmentsAssumption` allows. In `SegmentsInv` the packets on
their way carry the input from the end of the output to the place the client reads
at (`TransitInv`), each a full payload but the last; only a packet that reaches the end of
the file can be padded, so the padding lies behind the bytes that the server
counts.

### The SACK list and its option

`SackProofs` proves `SackTypeCorrect`, `OnlyReceivedReported`, `OptionHasTheList` and
`AnswerHasItsFrameFirst` (`SackTypeOK`, `BlocksReceived`, `OnlyLastLeftOut`,
`AnswerStartsWithFrame`) for every `SWS`, `NFrames` and up to five blocks. The array is
not sorted and is read beyond its counted part, so the invariant says nothing of an
order and speaks of *every* place: `ListType(Got)` says that each is a block whose
edges do not cross and which reports frames of `Got` only, the frames buffered or
written. That the edges do not cross is what makes a join with a stale block
report no more than the two blocks and the frame between them. `Got` must never lose
a frame (`GotGrows`): that takes `ReceiverInv`, and `EmptyInv`, that a slot that is not
received holds nothing.

The compaction is a recursive function. `CompactType` shows by a least counterexample
that the function exists and that `Walks` holds at each of its places: at least as
many blocks are left as have not been seen, so the subtraction at the end cannot wrap
`n_blocks`. The memmove at place `i` reads up to place `2 * i - 1` of the array, and
stays in it because there are at most five blocks (`MaxBlocksAssumption`).

### Only model-checked

Liveness (`FileArrives`, `TransferCompletes`, `QueuedIsTransmitted`,
`SendReturns`), which is out of the prover's reach. Every safety property of the
passing runs is proved.

## 8. Not modelled

* Of `xfer.c` the opening and closing of files and the plots; `comm.c` and
  `linklayer.c`: debug output and opening a socket. `malloc`, `fread`, `fwrite`,
  `sendto` do not fail.
* `libtimer.c`: a second version of libnet's timer that the program does not use.
* `test_sack.c`, `test_ppp.c`: programs that print or start processes.
* The echo options (parsed and ignored), `AdvertisedWindow` (never read),
  congestion and fast-retransmit events (never scheduled), and the branch of
  `updateRTT` for a clock that runs backwards.
* In `SwpSender`: sequence numbers that wrap. `SeqnoWindow` has the tests of
  `swpInWindow`, but takes the window that the sender keeps as a bound: `WindowSize`
  at the wrap, and the slots, which start again there since `__SWS` does not divide
  2^32, are left out.
* Frames above 2^24 in the SACK list, whose shift leaves out the last byte.
* A second option in a packet: `swp_options` would take a wrong length for it
  (swp_options.c:361), but the program sends one.

## 9. Plan

1. *Done*: sender, queues, receiver, composition, estimator, SACK list; type and
   window theorems of the sender, all theorems of the estimator.
2. *Done*: libnet and its abstract line, the SACK option, the bytes of the file,
   sequence numbers that wrap; SACK reports of any frames; theorems about the
   wrapping windows and about who may be in libnet's queue.
3. *Done*: theorems for the remaining properties of sender and receiver, both
   refinements.
4. *Done*: theorems about the bytes of the file and about time in libnet.
5. *Done*: theorems about the SACK list and its option.
6. Left: theorems about the parts together, `SackReceiver` under the network of
   `Artcp` first (each option that arrives is a report `SwpSender` may take), and about
   what the abstract specifications promise by themselves.
