------------------------------ MODULE EventQueue ------------------------------
(***************************************************************************)
(* The two timeout queues of the sender (event.c).                         *)
(*                                                                         *)
(* EQ_Head ("EQH") holds the frames whose timeout is running, EQ_Tail      *)
(* ("EQT") the frames whose timeout has expired and that still wait for    *)
(* congestion_timer.  A queue is a doubly linked ring behind a sentinel;   *)
(* here it is the sequence of its entries read from sentinel->next, so     *)
(* Last(q) is sentinel->prev, the entry whose time the sentinel caches.    *)
(* The event of an entry is embedded in one slot of sendQ and is the only  *)
(* event of that slot, so an entry is named by its slot number.            *)
(***************************************************************************)
EXTENDS Integers, Sequences, SequencesExt

\* event_type of a slot's event: 0 until the slot is first used, then
\* SWP_SEND_TIMEOUT or SWP_SEND_TIMEOUT_ON_TIMEOUT.
NoEvent == "none"
SendTimeout == "SWP_SEND_TIMEOUT"
SendTimeoutOnTimeout == "SWP_SEND_TIMEOUT_ON_TIMEOUT"

EventTypes == {NoEvent, SendTimeout, SendTimeoutOnTimeout}

\* The slots that have an entry in q.
Queued(q) == ToSet(q)

\* The operators below that look for an entry give the set of the queues that
\* can result: one queue, as long as no slot has two entries.

\* queue_evt for a frame sent for the first time: the scan from the front
\* stops behind the first retransmitted frame, or falls off the ring and
\* inserts in front.
QueueSend(q, type, s) ==
    LET Resent(i) == type[q[i]] = SendTimeoutOnTimeout
        InFront == \A i \in 1 .. Len(q) : ~Resent(i)
        Behind(i) == Resent(i) /\ \A j \in 1 .. (i - 1) : ~Resent(j)
    IN  IF InFront THEN {<<s>> \o q}
        ELSE {InsertAt(q, i + 1, s) : i \in {j \in 1 .. Len(q) : Behind(j)}}

\* queue_evt for retransmitted frames, the last of the batch first: no entry
\* stops the scan, so each one goes in front.
QueueRetransmit(q, batch) == batch \o q

DequeueFront(q, s) == {Tail(q)}    \* mutant: the front entry, whatever its slot

\* dequeue_evt: unlink the entry of slot s.
Dequeue(q, s) == {RemoveAt(q, i) : i \in {j \in 1 .. Len(q) : q[j] = s}}

ExpireReplaces(t, h) == h    \* mutant: EQ_Tail's entries are lost

\* proc_timer's loop: findEvtQueByTime returns the front entry whatever its
\* time, and evQueueInsert(EQ_Tail.prev, e) appends it, until EQ_Head is empty.
Expire(t, h) == t \o h

\* congestion_timer walks EQ_Tail from the back and stops after the first
\* retransmitted frame or after the highest SACKed one (hs, which may be no
\* slot); this is where the entries begin that it handles.
CongestionStart(t, type, hs) ==
    LET Stops(i) == type[t[i]] = SendTimeoutOnTimeout \/ t[i] = hs
    IN  {n \in 1 .. Len(t) : /\ n = 1 \/ Stops(n)
                             /\ \A i \in (n + 1) .. Len(t) : ~Stops(i)}
===============================================================================
