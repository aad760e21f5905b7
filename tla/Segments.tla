------------------------------- MODULE Segments -------------------------------
(***************************************************************************)
(* The bytes of the file on their way through the program's buffers:       *)
(* ReadFromFile and WriteToFile (xfer.c), the header calls and the copy    *)
(* that msg.c makes of a message, main of the client up to the end of file *)
(* and deliverHLP of the server.                                           *)
(*                                                                         *)
(* The other modules take a message for its sequence number; here it is    *)
(* the bytes that bytes_used counts.  A byte of the file is its position,  *)
(* counted from 1.  That frames reach deliverHLP in order and once is      *)
(* SwpReceiver's OutputInOrder, so the network is a sequence here.         *)
(***************************************************************************)
EXTENDS Integers, Sequences, SequencesExt

CONSTANTS SIZE,         \* bytes of a message's buffer, 500 in the code
          HLEN,         \* bytes of a header, 16 in the code
          MaxFileSize   \* bound: bytes of the input file

ASSUME SegmentsAssumption == /\ HLEN \in Nat \ {0}
                             /\ SIZE \in Nat /\ SIZE > 2 * HLEN
                             /\ MaxFileSize \in Nat

VARIABLES
    total_bytes,  \* the size of input.dat, which the server reads too
    read,         \* the client's f_offset: bytes it has read
    client,       \* "sending"; "eof" behind its loop
    sendQ,        \* history: the saved copies, in order
    packets,      \* the packets on their way to the server
    output_dat,   \* the bytes of that file
    server        \* "running"; "done" behind its loop

segmentsVars == <<total_bytes, read, client, sendQ, packets, output_dat, server>>

Header == -1    \* a byte of a header
Junk == 0       \* a byte of a buffer that no one has written for this message

URANGE(low, n, high) == IF n < low THEN low ELSE IF n > high THEN high ELSE n

-------------------------------------------------------------------------------
(* Messages (msg.c).                                                       *)

\* The buffer has SIZE bytes: a message that grows beyond it loses its end.
msgAddHdr(m) == [i \in 1 .. HLEN |-> Header] \o m

msgStripHdr(m) == SubSeq(m, HLEN + 1, Len(m))

SavedLenAsIs(m) == URANGE(0, Len(m), SIZE - HLEN)    \* mutant: room for a header is kept free

\* The length msgSaveCopy gives the copy: never less than a header.
SavedLen(m) == URANGE(HLEN, Len(m), SIZE)

\* Bytes beyond bytes_used are copied as they lie in the buffer.
msgSaveCopy(m) == [i \in 1 .. SavedLen(m) |-> IF i <= Len(m) THEN m[i] ELSE Junk]

-------------------------------------------------------------------------------
SegmentsInit ==
    /\ total_bytes \in 0 .. MaxFileSize
    /\ read = 0
    /\ client = "sending"
    /\ sendQ = <<>> /\ packets = <<>>
    /\ output_dat = <<>>
    /\ server = "running"

ReadSizeFull == SIZE    \* mutant: no room for the header

\* What one fread asks for.
ReadSize == SIZE - HLEN

\* fread meets the end of the file when it returns less than it was asked for.
ReadEnd == IF read + ReadSize > total_bytes THEN total_bytes ELSE read + ReadSize
Eof == read + ReadSize > total_bytes

FrameRead == [i \in 1 .. (ReadEnd - read) |-> read + i]

\* sendSWP: the header is put in front, the message saved, and the packet sent;
\* it may be lost, and then the saved copy is what arrives.
SaveAndSend(m) ==
    LET frame == msgAddHdr(m)
    IN  /\ sendQ' = Append(sendQ, msgSaveCopy(frame))
        /\ \E packet \in {frame, msgSaveCopy(frame)} : packets' = Append(packets, packet)

\* One round of main's loop.
ReadAndSend == /\ client = "sending"
               /\ FrameRead # <<>>
               /\ SaveAndSend(FrameRead)
               /\ read' = ReadEnd
               /\ client' = IF Eof THEN "eof" ELSE "sending"
               /\ UNCHANGED <<total_bytes, output_dat, server>>

\* The round in which nothing is left to read.
ReadNothing == /\ client = "sending"
               /\ FrameRead = <<>>
               /\ client' = "eof"
               /\ UNCHANGED <<total_bytes, read, sendQ, packets, output_dat, server>>

StoppedEarly(file) == Len(file) + ReadSize > total_bytes    \* mutant: stops when less than a frame is missing

\* deliverHLP's answer 0, which ends the server's loop.
Stopped(file) == Len(file) >= total_bytes

\* recvfrom fills at most SIZE bytes.
Received(packet) == SubSeq(packet, 1, URANGE(0, Len(packet), SIZE))

\* deliverSWP strips the header and saves a copy, deliverHLP writes it.
DeliverBytes ==
    /\ server = "running"
    /\ packets # <<>>
    /\ LET m == msgSaveCopy(msgStripHdr(Received(Head(packets))))
       IN  /\ output_dat' = output_dat \o m
           /\ server' = IF Stopped(output_dat') THEN "done" ELSE "running"
    /\ packets' = Tail(packets)
    /\ UNCHANGED <<total_bytes, read, client, sendQ>>

SegmentsNext == \/ ReadAndSend \/ ReadNothing
                \/ DeliverBytes
                \/ client = "eof" /\ packets = <<>> /\ UNCHANGED segmentsVars

SegmentsSpec == SegmentsInit /\ [][SegmentsNext]_segmentsVars

-------------------------------------------------------------------------------
(* Properties.                                                             *)

\* The output file is the input file as far as that goes: no byte is lost at a
\* frame's end, none of a header is written, and what msgSaveCopy pads a short
\* frame with (msg.c:47) lies behind the last byte of the input.
OutputStartsWithInput ==
    \A i \in 1 .. Len(output_dat) : output_dat[i] = IF i <= total_bytes THEN i ELSE Junk

\* Nothing the client sends is longer than libnet's MTU, which is SIZE, or
\* shorter than its header and a byte of data; and a retransmission is the packet
\* it repeats.
SavedIsSent ==
    \A i \in DOMAIN packets :
        /\ packets[i] \in Range(sendQ)
        /\ Len(packets[i]) \in (HLEN + 1) .. SIZE

\* The server leaves with the last byte, although it counts bytes and the client
\* counts frames: when every byte of the input is in its file, with no packet
\* after that, so the padding does not make it stop early; and it does not wait
\* for a byte that will not come once everything has arrived.  Only for an empty
\* file, of which no packet is ever sent, it waits in recvfrom for ever.
StopsWithLastByte ==
    /\ server = "done" => Len(output_dat) >= total_bytes /\ read = total_bytes /\ packets = <<>>
    /\ client = "eof" /\ packets = <<>> /\ total_bytes > 0 => server = "done"
===============================================================================
