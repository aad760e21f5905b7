--------------------------- MODULE SwpReceiverProofs ----------------------------
(***************************************************************************)
(* The receiver writes the file in order, keeps what it buffers until it   *)
(* is written and acknowledges what is written, for every size of the slot *)
(* array, every number of frames and every order in which they arrive.     *)
(***************************************************************************)
EXTENDS SwpReceiver, TransportProofs

-------------------------------------------------------------------------------
(* The inductive invariant.                                                *)

\* NFE counts what is written until the file is complete; then it stays at the
\* last frame.
ExpectedInv == NFE = IF Len(output) < NFrames THEN Len(output) + 1 ELSE NFrames

\* Only a complete file is reported as such.
ResultInv == swp_res = "XFER_COMPLETE" => FileComplete(output)

ReceiverInv == /\ ReceiverTypeOK
               /\ OutputInOrder /\ BufferInWindow
               /\ ExpectedInv /\ ResultInv

-------------------------------------------------------------------------------
(* The operators.                                                          *)

\* What is kept of the file is a prefix of it, which is long enough to tell
\* that the file is complete.
LEMMA KeptIsPrefix ==
    ASSUME NEW S, NEW file \in Seq(S)
    PROVE  /\ Kept(file) \in Seq(S)
           /\ Len(Kept(file)) <= Len(file) /\ Len(Kept(file)) \in Nat
           /\ Len(file) <= NFrames => Len(Kept(file)) = Len(file)
           /\ Len(file) >= NFrames => Len(Kept(file)) >= NFrames
           /\ \A i \in 1 .. Len(Kept(file)) : Kept(file)[i] = file[i]
<1> DEFINE m == Min({Len(file), NFrames + MaxRepeats})
<1>1. Len(file) \in Nat
  BY LenProperties
<1>2. m = IF Len(file) <= NFrames + MaxRepeats THEN Len(file) ELSE NFrames + MaxRepeats
  BY <1>1, MinOfTwo, NFramesAssumption, MaxRepeatsAssumption
<1>3. Kept(file) = SubSeq(file, 1, m)
  BY DEF Kept
<1> HIDE DEF m
<1>4. m \in 0 .. Len(file)
  BY <1>1, <1>2, NFramesAssumption, MaxRepeatsAssumption
<1>5. \A i \in 1 .. m : file[i] \in S
  BY <1>1, <1>4, ElementOfSeq
<1>6. /\ Kept(file) \in Seq(S)
      /\ Len(Kept(file)) = m
      /\ \A i \in 1 .. m : Kept(file)[i] = file[i]
  BY <1>1, <1>3, <1>4, <1>5, SubSeqProperties
<1> QED BY <1>1, <1>2, <1>4, <1>6, NFramesAssumption, MaxRepeatsAssumption

\* The frames that are written in one go start with the expected one and end
\* before the first slot that is not received, or behind the last slot.
LEMMA RunIsMaximal ==
    ASSUME NEW have \in [Slots -> BOOLEAN], NEW seq \in Nat, have[Slot(seq)]
    PROVE  LET run == Max({n \in 1 .. SWS :
                               \A k \in 0 .. (n - 1) : have[Slot(seq + k)]})
           IN  /\ run \in 1 .. SWS
               /\ \A k \in 0 .. (run - 1) : have[Slot(seq + k)]
               /\ run < SWS => ~have[Slot(seq + run)]
<1> DEFINE R == {n \in 1 .. SWS : \A k \in 0 .. (n - 1) : have[Slot(seq + k)]}
           run == Max(R)
<1>1. 1 \in R
  <2>1. \A k \in 0 .. (1 - 1) : seq + k = seq
    OBVIOUS
  <2> QED BY <2>1, SWSAssumption
<1>2. R \in SUBSET Int /\ \A n \in R : n <= SWS
  BY SWSAssumption
<1>3. run \in R /\ \A n \in R : run >= n
  <2> HIDE DEF R
  <2> QED BY <1>1, <1>2, MaxOfBounded, SWSAssumption
<1> HIDE DEF run
<1>4. run \in 1 .. SWS /\ \A k \in 0 .. (run - 1) : have[Slot(seq + k)]
  BY <1>3
<1>5. ASSUME run < SWS, have[Slot(seq + run)] PROVE FALSE
  <2>1. run + 1 \in 1 .. SWS
    BY <1>4, <1>5, SWSAssumption
  <2>2. ASSUME NEW k \in 0 .. ((run + 1) - 1) PROVE have[Slot(seq + k)]
    <3>1. k \in 0 .. (run - 1) \/ k = run
      BY <1>4, SWSAssumption
    <3> QED BY <1>4, <1>5, <3>1
  <2>3. run + 1 \in R
    BY <2>1, <2>2
  <2>4. run >= run + 1
    BY <1>3, <2>3
  <2> QED BY <1>4, <2>4, SWSAssumption
<1> QED BY <1>4, <1>5 DEF run

\* The frame in a slot that is received is the one of the window that the slot
\* belongs to.
LEMMA BufferedFrame ==
    ASSUME ReceiverTypeOK, BufferInWindow,
           NEW seq \in Nat, NFE <= seq, seq <= NFE + SWS - 1, received[Slot(seq)]
    PROVE  recvMsg[Slot(seq)] = seq
<1>1. Slot(seq) \in Slots
  BY SlotType
<1> DEFINE m == recvMsg[Slot(seq)]
<1>2. m \in Nat
  BY <1>1 DEF ReceiverTypeOK
<1>3. Slot(m) = Slot(seq) /\ m >= NFE /\ m <= NFE + SWS - 1
  BY <1>1 DEF BufferInWindow
<1> HIDE DEF m
<1>4. m - seq < SWS /\ seq - m < SWS
  BY <1>2, <1>3, SWSAssumption DEF ReceiverTypeOK, Frames
<1>5. m = seq
  BY <1>2, <1>3, <1>4, SlotsDiffer
<1> QED BY <1>5 DEF m

\* The slots of the first frames of the window.
Freed(passed) == {Slot(NFE + k) : k \in 0 .. (passed - 1)}

\* What deliverSWP does with the expected frame: it writes the n frames from
\* that one on, each from its own slot, and frees all of them, or all but the
\* last when this one completes the file.  It stops short of the end of the
\* file only in front of a gap.
LEMMA DeliverDataEffect ==
    ASSUME ReceiverInv, NEW seq \in Frames, DeliverData(seq)
    PROVE  \E n \in 1 .. SWS :
              LET passed == IF FileComplete(output') THEN n - 1 ELSE n
              IN  /\ seq = NFE
                  /\ NFE' = NFE + passed
                  /\ received' = [s \in Slots |->
                         (received[s] \/ s = Slot(NFE)) /\ s \notin Freed(passed)]
                  /\ recvMsg' = [s \in Slots |->
                         IF s \in Freed(passed) THEN 0
                         ELSE IF s = Slot(NFE) THEN NFE ELSE recvMsg[s]]
                  /\ output' = Kept(output \o [k \in 1 .. n |-> NFE + k - 1])
                  /\ \A k \in 1 .. (n - 1) : received[Slot(NFE + k)]
                  /\ FileComplete(output) => n = 1
                  /\ ~FileComplete(output) =>
                        /\ n <= NFrames - Len(output)
                        /\ n < NFrames - Len(output) /\ n < SWS
                               => ~received[Slot(NFE + n)]
<1> DEFINE have   == [received EXCEPT ![Slot(seq)] = TRUE]
           saved  == [recvMsg EXCEPT ![Slot(seq)] = seq]
           run    == Max({n \in 1 .. SWS :
                              \A k \in 0 .. (n - 1) : have[Slot(seq + k)]})
           wanted == Max({1, NFrames - Len(output)})
           n      == Min({run, wanted})
           passed == IF FileComplete(output') THEN n - 1 ELSE n
           freed  == {Slot(seq + k) : k \in 0 .. (passed - 1)}
<1>1. /\ seq = NFE
      /\ output' = Kept(output \o [k \in 1 .. n |-> saved[Slot(seq + k - 1)]])
      /\ NFE' = NFE + passed
      /\ received' = [s \in Slots |-> have[s] /\ s \notin freed]
      /\ recvMsg' = [s \in Slots |-> IF s \in freed THEN 0 ELSE saved[s]]
  BY DEF DeliverData
<1>2. /\ ReceiverTypeOK /\ BufferInWindow
      /\ seq \in Nat /\ Slot(seq) \in Slots /\ Len(output) \in Nat
  <2>1. ReceiverTypeOK /\ BufferInWindow
    BY DEF ReceiverInv
  <2>2. seq \in Nat
    BY DEF Frames
  <2>3. Len(output) \in Nat
    BY <2>1, LenProperties DEF ReceiverTypeOK
  <2> QED BY <2>1, <2>2, <2>3, SlotType
<1>3. have \in [Slots -> BOOLEAN] /\ have[Slot(seq)]
  BY <1>2 DEF ReceiverTypeOK
<1>4. /\ run \in 1 .. SWS
      /\ \A k \in 0 .. (run - 1) : have[Slot(seq + k)]
      /\ run < SWS => ~have[Slot(seq + run)]
  <2> HIDE DEF have
  <2> QED BY <1>2, <1>3, RunIsMaximal
<1>5. wanted = IF 1 >= NFrames - Len(output) THEN 1 ELSE NFrames - Len(output)
  BY <1>2, MaxOfTwo, NFramesAssumption
<1> HIDE DEF run, wanted
<1>6. n = IF run <= wanted THEN run ELSE wanted
  <2>1. run \in Int /\ wanted \in Int
    BY <1>2, <1>4, <1>5, NFramesAssumption
  <2> QED BY <2>1, MinOfTwo
<1> HIDE DEF n
<1>7. n \in 1 .. SWS /\ n <= run
  BY <1>2, <1>4, <1>5, <1>6, NFramesAssumption, SWSAssumption
<1>8. ASSUME NEW k \in 1 .. n PROVE saved[Slot(seq + k - 1)] = NFE + k - 1
  <2>1. /\ seq + k - 1 \in Nat /\ k - 1 \in 0 .. (run - 1)
        /\ NFE <= seq + k - 1 /\ seq + k - 1 <= NFE + SWS - 1
        /\ seq + k - 1 = seq + (k - 1)
    BY <1>1, <1>2, <1>4, <1>7, SWSAssumption
  <2>2. Slot(seq + k - 1) \in Slots
    BY <2>1, SlotType
  <2>3. have[Slot(seq + k - 1)]
    BY <1>4, <2>1
  <2>4. CASE Slot(seq + k - 1) = Slot(seq)
    <3>1. seq + k - 1 = seq
      <4>1. (seq + k - 1) - seq < SWS /\ seq - (seq + k - 1) < SWS
        BY <1>1, <1>2, <2>1, SWSAssumption
      <4> QED BY <1>2, <2>1, <2>4, <4>1, SlotsDiffer
    <3> QED BY <1>1, <1>2, <3>1 DEF ReceiverTypeOK
  <2>5. CASE Slot(seq + k - 1) # Slot(seq)
    <3>1. received[Slot(seq + k - 1)]
      BY <1>2, <2>2, <2>3, <2>5 DEF ReceiverTypeOK
    <3>2. recvMsg[Slot(seq + k - 1)] = seq + k - 1
      BY <1>2, <2>1, <3>1, BufferedFrame
    <3> QED BY <1>1, <1>2, <2>2, <2>5, <3>2 DEF ReceiverTypeOK
  <2> QED BY <2>4, <2>5
<1>9. output' = Kept(output \o [k \in 1 .. n |-> NFE + k - 1])
  <2>1. [k \in 1 .. n |-> saved[Slot(seq + k - 1)]] = [k \in 1 .. n |-> NFE + k - 1]
    BY <1>8, Zenon
  <2> QED BY <1>1, <2>1, Zenon
<1>10. freed = Freed(passed)
  BY <1>1 DEF Freed
<1> HIDE DEF passed, freed
<1>11. received' = [s \in Slots |->
           (received[s] \/ s = Slot(NFE)) /\ s \notin Freed(passed)]
  <2>1. ASSUME NEW s \in Slots
        PROVE  (have[s] /\ s \notin freed)
                 = ((received[s] \/ s = Slot(NFE)) /\ s \notin Freed(passed))
    BY <1>1, <1>2, <1>10 DEF ReceiverTypeOK
  <2> HIDE DEF have
  <2> QED BY <1>1, <2>1
<1>12. recvMsg' = [s \in Slots |->
           IF s \in Freed(passed) THEN 0
           ELSE IF s = Slot(NFE) THEN NFE ELSE recvMsg[s]]
  BY <1>1, <1>2, <1>10 DEF ReceiverTypeOK
<1>13. FileComplete(output) => n = 1
  BY <1>2, <1>4, <1>5, <1>6, NFramesAssumption DEF FileComplete
<1>14. ASSUME ~FileComplete(output)
       PROVE  /\ n <= NFrames - Len(output)
              /\ n < NFrames - Len(output) /\ n < SWS => ~received[Slot(NFE + n)]
  <2>1. wanted = NFrames - Len(output) /\ wanted \in Nat
    BY <1>2, <1>5, <1>14, NFramesAssumption DEF FileComplete
  <2>2. n <= NFrames - Len(output)
    BY <1>4, <1>6, <2>1
  <2>3. ASSUME n < NFrames - Len(output), n < SWS PROVE ~received[Slot(NFE + n)]
    <3>1. n = run
      BY <1>4, <1>6, <2>1, <2>3
    <3>2. ~have[Slot(seq + n)]
      BY <1>4, <2>3, <3>1
    <3>3. Slot(seq + n) \in Slots
      <4>1. seq + n \in Nat
        BY <1>2, <1>7
      <4> QED BY <4>1, SlotType
    <3> QED BY <1>1, <1>2, <3>2, <3>3 DEF ReceiverTypeOK
  <2> QED BY <2>2, <2>3
<1>15. ASSUME NEW k \in 1 .. (n - 1) PROVE received[Slot(NFE + k)]
  <2>1. /\ seq + k \in Nat /\ k \in 0 .. (run - 1)
        /\ (seq + k) - seq < SWS /\ seq - (seq + k) < SWS /\ seq + k # seq
    BY <1>2, <1>4, <1>7, SWSAssumption
  <2>2. Slot(seq + k) \in Slots /\ have[Slot(seq + k)]
    BY <1>4, <2>1, SlotType
  <2>3. Slot(seq + k) # Slot(seq)
    BY <1>2, <2>1, SlotsDiffer
  <2> QED BY <1>1, <1>2, <2>2, <2>3 DEF ReceiverTypeOK
<1> QED BY <1>1, <1>7, <1>9, <1>11, <1>12, <1>13, <1>14, <1>15 DEF passed

\* The numbers of the frames written and passed: what a step that delivers
\* makes of NFE and of the file.
LEMMA DeliverDataOutput ==
    ASSUME ReceiverInv, NEW n \in 1 .. SWS,
           output' = Kept(output \o [k \in 1 .. n |-> NFE + k - 1]),
           FileComplete(output) => n = 1,
           ~FileComplete(output) => n <= NFrames - Len(output)
    PROVE  /\ output' \in Seq(Frames)
           /\ OutputInOrder'
           /\ FileComplete(output) => FileComplete(output')
           /\ ~FileComplete(output) =>
                 /\ NFE = Len(output) + 1
                 /\ Len(output') = Len(output) + n
                 /\ FileComplete(output') <=> n = NFrames - Len(output)
                 /\ \A k \in 0 .. (n - 1) : output'[NFE + k] = NFE + k
<1> DEFINE run  == [k \in 1 .. n |-> NFE + k - 1]
           file == output \o run
<1>1. /\ output \in Seq(Frames) /\ Len(output) \in Nat /\ NFE \in Frames
      /\ \A i \in 1 .. Len(output) : output[i] = Min({i, NFrames})
  BY LenProperties DEF ReceiverInv, ReceiverTypeOK, OutputInOrder
<1>2. NFE = IF Len(output) < NFrames THEN Len(output) + 1 ELSE NFrames
  BY DEF ReceiverInv, ExpectedInv
<1>3. \A k \in 1 .. n : run[k] = NFE + k - 1 /\ run[k] \in Frames
  BY <1>1, <1>2, NFramesAssumption, SWSAssumption DEF Frames, FileComplete
<1>4. run \in Seq(Frames) /\ Len(run) = n
  <2>1. run \in [1 .. n -> Frames]
    BY <1>3
  <2> HIDE DEF run
  <2> QED BY <2>1, SWSAssumption
<1> HIDE DEF run
<1>5. /\ file \in Seq(Frames) /\ Len(file) = Len(output) + n
      /\ \A i \in 1 .. Len(file) :
            file[i] = IF i <= Len(output) THEN output[i] ELSE run[i - Len(output)]
  BY <1>1, <1>4, ConcatProperties
<1> HIDE DEF file
<1>6. \A i \in 1 .. Len(file) : file[i] = Min({i, NFrames})
  <2> SUFFICES ASSUME NEW i \in 1 .. Len(file) PROVE file[i] = Min({i, NFrames})
    OBVIOUS
  <2>1. Min({i, NFrames}) = IF i <= NFrames THEN i ELSE NFrames
    BY MinOfTwo, NFramesAssumption
  <2>2. CASE i <= Len(output)
    BY <1>1, <1>5, <2>2
  <2>3. CASE i > Len(output)
    <3>1. i - Len(output) \in 1 .. n /\ file[i] = run[i - Len(output)]
      BY <1>1, <1>5, <2>3
    <3>2. file[i] = NFE + (i - Len(output)) - 1
      BY <1>3, <3>1
    <3> QED BY <1>1, <1>2, <1>5, <2>1, <2>3, <3>2, NFramesAssumption DEF FileComplete
  <2> QED BY <1>1, <2>2, <2>3
<1>7. /\ output' \in Seq(Frames)
      /\ Len(output') <= Len(file) /\ Len(output') \in Nat
      /\ Len(file) <= NFrames => Len(output') = Len(file)
      /\ Len(file) >= NFrames => Len(output') >= NFrames
      /\ \A i \in 1 .. Len(output') : output'[i] = file[i]
  <2>1. output' = Kept(file)
    BY DEF file, run
  <2> QED BY <1>5, <2>1, KeptIsPrefix
<1>8. \A i \in 1 .. Len(output') : output'[i] = Min({i, NFrames})
  BY <1>5, <1>6, <1>7, <1>1
<1>9. OutputInOrder'
  <2>1. DOMAIN output' = 1 .. Len(output')
    BY <1>7, LenProperties
  <2> QED BY <1>8, <2>1, Zenon DEF OutputInOrder
<1>10. FileComplete(output) => FileComplete(output')
  BY <1>1, <1>5, <1>7, NFramesAssumption DEF FileComplete
<1>11. ASSUME ~FileComplete(output)
       PROVE  /\ NFE = Len(output) + 1
              /\ Len(output') = Len(output) + n
              /\ FileComplete(output') <=> n = NFrames - Len(output)
              /\ \A k \in 0 .. (n - 1) : output'[NFE + k] = NFE + k
  <2>1. NFE = Len(output) + 1 /\ n <= NFrames - Len(output)
    BY <1>1, <1>2, <1>11, NFramesAssumption DEF FileComplete
  <2>2. Len(output') = Len(output) + n
    BY <1>1, <1>5, <1>7, <2>1, NFramesAssumption
  <2>3. FileComplete(output') <=> n = NFrames - Len(output)
    BY <1>1, <2>1, <2>2, NFramesAssumption DEF FileComplete
  <2>4. ASSUME NEW k \in 0 .. (n - 1) PROVE output'[NFE + k] = NFE + k
    <3>1. NFE + k \in 1 .. Len(output') /\ NFE + k <= NFrames /\ NFE + k \in Int
      BY <1>1, <2>1, <2>2, NFramesAssumption
    <3>2. output'[NFE + k] = Min({NFE + k, NFrames})
      BY <1>8, <3>1, Zenon
    <3> QED BY <3>1, <3>2, MinOfTwo, NFramesAssumption
  <2> QED BY <2>1, <2>2, <2>3, <2>4
<1> QED BY <1>7, <1>9, <1>10, <1>11

\* The number of frames in the file, and what a reply says of it.
LEMMA WrittenNumber ==
    ASSUME ReceiverTypeOK
    PROVE  /\ Len(output) \in Nat /\ Written \in 0 .. NFrames
           /\ Written = IF Len(output) <= NFrames THEN Len(output) ELSE NFrames
<1>1. Len(output) \in Nat
  BY LenProperties DEF ReceiverTypeOK
<1>2. Written = IF Len(output) <= NFrames THEN Len(output) ELSE NFrames
  BY <1>1, MinOfTwo, NFramesAssumption DEF Written
<1> QED BY <1>1, <1>2, NFramesAssumption

LEMMA ReplyIsWritten ==
    ASSUME ReceiverInv
    PROVE  ReplyAck = Written \/ (ReplyAck = NFrames - 1 /\ Written = NFrames)
<1>1. /\ Len(output) \in Nat
      /\ Written = IF Len(output) <= NFrames THEN Len(output) ELSE NFrames
      /\ NFE = IF Len(output) < NFrames THEN Len(output) + 1 ELSE NFrames
  BY WrittenNumber DEF ReceiverInv, ExpectedInv
<1>2. swp_res = "XFER_COMPLETE" => Len(output) >= NFrames
  BY DEF ReceiverInv, ResultInv, FileComplete
<1> QED BY <1>1, <1>2, NFramesAssumption DEF ReplyAck

-------------------------------------------------------------------------------
(* The initial states and the steps.                                       *)

LEMMA ReceiverInvInit == ReceiverInit => ReceiverInv
<1> SUFFICES ASSUME ReceiverInit PROVE ReceiverInv
  OBVIOUS
<1>1. output = <<>> /\ Len(output) = 0 /\ DOMAIN output = {} /\ output \in Seq(Frames)
  BY DEF ReceiverInit
<1>2. ReceiverTypeOK
  BY <1>1, NFramesAssumption DEF ReceiverInit, ReceiverTypeOK, Results, Frames
<1>3. OutputInOrder
  BY <1>1 DEF OutputInOrder
<1>4. BufferInWindow
  BY DEF ReceiverInit, BufferInWindow
<1>5. ExpectedInv /\ ResultInv
  BY <1>1, NFramesAssumption DEF ReceiverInit, ExpectedInv, ResultInv
<1> QED BY <1>2, <1>3, <1>4, <1>5 DEF ReceiverInv

LEMMA DropDataStep ==
    ASSUME ReceiverInv, NEW seq \in Frames, DropData(seq)
    PROVE  ReceiverInv'
BY DEF ReceiverInv, ReceiverTypeOK, OutputInOrder, BufferInWindow, ExpectedInv, ResultInv,
       FileComplete, DropData, Results

LEMMA ReplyStep == ReceiverInv /\ Reply => ReceiverInv'
<1> SUFFICES ASSUME ReceiverInv, Reply PROVE ReceiverInv'
  OBVIOUS
<1>1. CASE ReplyComplete
  BY <1>1 DEF ReceiverInv, ReceiverTypeOK, OutputInOrder, BufferInWindow, ExpectedInv,
              ResultInv, FileComplete, ReplyComplete
<1>2. CASE ReplyAndWait
  BY <1>2 DEF ReceiverInv, ReceiverTypeOK, OutputInOrder, BufferInWindow, ExpectedInv,
              ResultInv, FileComplete, ReplyAndWait, Results
<1> QED BY <1>1, <1>2 DEF Reply

\* A frame that is buffered goes to its own slot of the window.
LEMMA BufferDataStep ==
    ASSUME ReceiverInv, NEW seq \in Frames, BufferData(seq)
    PROVE  ReceiverInv'
<1>1. seq \in Nat /\ seq \in 0 .. NFrames /\ Slot(seq) \in Slots
  <2>1. seq \in Nat /\ seq \in 0 .. NFrames
    BY NFramesAssumption DEF Frames
  <2> QED BY <2>1, SlotType
<1>2. ReceiverTypeOK'
  BY <1>1 DEF ReceiverInv, ReceiverTypeOK, BufferData, Results
<1>3. BufferInWindow'
  <2> SUFFICES ASSUME NEW s \in Slots, received'[s]
               PROVE  /\ Slot(recvMsg'[s]) = s
                      /\ recvMsg'[s] >= NFE' /\ recvMsg'[s] <= NFE' + SWS - 1
                      /\ recvMsg'[s] = NFE' => FileComplete(output')
    BY DEF BufferInWindow
  <2>1. CASE s = Slot(seq)
    BY <1>1, <2>1 DEF ReceiverInv, ReceiverTypeOK, BufferData, InReceiveWindow
  <2>2. CASE s # Slot(seq)
    <3>1. received[s] /\ recvMsg'[s] = recvMsg[s] /\ UNCHANGED <<NFE, output>>
      BY <1>1, <2>2 DEF ReceiverInv, ReceiverTypeOK, BufferData
    <3> QED BY <3>1 DEF ReceiverInv, BufferInWindow, FileComplete
  <2> QED BY <2>1, <2>2
<1>4. OutputInOrder' /\ ExpectedInv' /\ ResultInv'
  BY DEF ReceiverInv, OutputInOrder, ExpectedInv, ResultInv, BufferData
<1> QED BY <1>2, <1>3, <1>4 DEF ReceiverInv

\* The frame expected: every slot that is left belongs to the window behind the
\* frames that are written.
LEMMA DeliverDataStep ==
    ASSUME ReceiverInv, NEW seq \in Frames, DeliverData(seq)
    PROVE  ReceiverInv'
<1>1. PICK n \in 1 .. SWS :
          LET passed == IF FileComplete(output') THEN n - 1 ELSE n
          IN  /\ seq = NFE
              /\ NFE' = NFE + passed
              /\ received' = [s \in Slots |->
                     (received[s] \/ s = Slot(NFE)) /\ s \notin Freed(passed)]
              /\ recvMsg' = [s \in Slots |->
                     IF s \in Freed(passed) THEN 0
                     ELSE IF s = Slot(NFE) THEN NFE ELSE recvMsg[s]]
              /\ output' = Kept(output \o [k \in 1 .. n |-> NFE + k - 1])
              /\ FileComplete(output) => n = 1
              /\ ~FileComplete(output) =>
                    /\ n <= NFrames - Len(output)
                    /\ n < NFrames - Len(output) /\ n < SWS
                           => ~received[Slot(NFE + n)]
  BY DeliverDataEffect, Zenon
<1> DEFINE passed == IF FileComplete(output') THEN n - 1 ELSE n
<1>2. /\ output' \in Seq(Frames)
      /\ OutputInOrder'
      /\ FileComplete(output) => FileComplete(output')
      /\ ~FileComplete(output) =>
            /\ NFE = Len(output) + 1
            /\ Len(output') = Len(output) + n
            /\ FileComplete(output') <=> n = NFrames - Len(output)
  BY <1>1, DeliverDataOutput
<1>3. /\ NFE \in Frames /\ NFE \in Nat /\ Len(output) \in Nat /\ Len(output') \in Nat
      /\ NFE = IF Len(output) < NFrames THEN Len(output) + 1 ELSE NFrames
  BY <1>2, LenProperties
     DEF ReceiverInv, ReceiverTypeOK, ExpectedInv, Frames
<1>4. passed \in 0 .. n /\ NFE' = NFE + passed
  BY <1>1, SWSAssumption
<1>5. NFE' = IF Len(output') < NFrames THEN Len(output') + 1 ELSE NFrames
  <2>1. CASE FileComplete(output)
    BY <1>1, <1>2, <1>3, <2>1, NFramesAssumption DEF FileComplete
  <2>2. CASE ~FileComplete(output)
    <3>1. /\ NFE = Len(output) + 1 /\ Len(output') = Len(output) + n
          /\ n <= NFrames - Len(output) /\ n \in Nat
          /\ FileComplete(output') <=> n = NFrames - Len(output)
      BY <1>1, <1>2, <2>2, SWSAssumption
    <3>2. NFE' = IF FileComplete(output') THEN NFE + (n - 1) ELSE NFE + n
      BY <1>4
    <3> QED BY <1>3, <3>1, <3>2, NFramesAssumption DEF FileComplete
  <2> QED BY <2>1, <2>2
<1>6. received' = [s \in Slots |->
          (received[s] \/ s = Slot(NFE)) /\ s \notin Freed(passed)]
  BY <1>1
<1>7. recvMsg' = [s \in Slots |->
          IF s \in Freed(passed) THEN 0 ELSE IF s = Slot(NFE) THEN NFE ELSE recvMsg[s]]
  BY <1>1
<1>8. ReceiverTypeOK'
  <2>1. rpc' \in {"recv", "drain", "done"} /\ swp_res' \in Results
    BY DEF DeliverData, Results
  <2>2. NFE' \in Frames
    BY <1>3, <1>5, NFramesAssumption DEF Frames
  <2>3. LAF' \in 0 .. NFrames
    <3>1. LAF' = 0 \/ LAF' = LAF
      BY DEF DeliverData
    <3> QED BY <3>1, NFramesAssumption DEF ReceiverInv, ReceiverTypeOK
  <2>4. received' \in [Slots -> BOOLEAN]
    BY <1>6
  <2>5. recvMsg' \in [Slots -> 0 .. NFrames]
    <3>1. NFE \in 0 .. NFrames /\ 0 \in 0 .. NFrames
      BY <1>3, NFramesAssumption DEF Frames
    <3> HIDE DEF passed
    <3> QED BY <1>7, <3>1 DEF ReceiverInv, ReceiverTypeOK
  <2> QED BY <1>2, <2>1, <2>2, <2>3, <2>4, <2>5 DEF ReceiverTypeOK
<1>9. BufferInWindow'
  <2> SUFFICES ASSUME NEW s \in Slots, received'[s]
               PROVE  /\ Slot(recvMsg'[s]) = s
                      /\ recvMsg'[s] >= NFE' /\ recvMsg'[s] <= NFE' + SWS - 1
                      /\ recvMsg'[s] = NFE' => FileComplete(output')
    BY DEF BufferInWindow
  <2>1. (received[s] \/ s = Slot(NFE)) /\ s \notin Freed(passed)
    BY <1>6
  <2>2. recvMsg'[s] = IF s = Slot(NFE) THEN NFE ELSE recvMsg[s]
    BY <1>7, <2>1
  <2>3. CASE s = Slot(NFE)
    <3>1. passed = 0
      <4>1. SUFFICES ASSUME passed > 0 PROVE FALSE
        BY <1>4, SWSAssumption
      <4>2. 0 \in 0 .. (passed - 1) /\ NFE + 0 = NFE
        BY <1>3, <1>4, <4>1, SWSAssumption
      <4> HIDE DEF passed
      <4> QED BY <2>1, <2>3, <4>2 DEF Freed
    <3>2. FileComplete(output')
      BY <3>1, SWSAssumption
    <3> QED BY <1>3, <1>4, <2>2, <2>3, <3>1, <3>2, SWSAssumption
  <2>4. CASE s # Slot(NFE)
    <3> DEFINE m == recvMsg[s]
    <3>1. /\ m \in Nat /\ received[s] /\ recvMsg'[s] = m
          /\ Slot(m) = s /\ m >= NFE /\ m <= NFE + SWS - 1
      BY <2>1, <2>2, <2>4 DEF ReceiverInv, ReceiverTypeOK, BufferInWindow
    <3> HIDE DEF m
    <3>2. m >= NFE + passed
      <4>1. SUFFICES ASSUME m < NFE + passed PROVE FALSE
        BY <1>3, <1>4, <3>1, SWSAssumption
      <4>2. m - NFE \in 0 .. (passed - 1) /\ NFE + (m - NFE) = m
        BY <1>3, <1>4, <3>1, <4>1, SWSAssumption
      <4> HIDE DEF passed
      <4> QED BY <2>1, <3>1, <4>2 DEF Freed
    <3>3. ASSUME m = NFE', ~FileComplete(output') PROVE FALSE
      <4>1. passed = n /\ m = NFE + n
        BY <1>4, <3>3
      <4>2. ~FileComplete(output) /\ n < NFrames - Len(output)
        BY <1>1, <1>2, <1>3, <3>3, NFramesAssumption DEF FileComplete
      <4>3. n < SWS
        BY <1>3, <3>1, <4>1, SWSAssumption
      <4>4. ~received[Slot(NFE + n)]
        BY <1>1, <4>2, <4>3
      <4> QED BY <3>1, <4>1, <4>4
    <3> QED BY <1>3, <1>4, <3>1, <3>2, <3>3, SWSAssumption
  <2> QED BY <2>3, <2>4
<1>10. ExpectedInv'
  BY <1>5 DEF ExpectedInv
<1>11. ResultInv'
  BY DEF ResultInv, DeliverData
<1> QED BY <1>2, <1>8, <1>9, <1>10, <1>11 DEF ReceiverInv

\* A packet leaves the invariant alone, whatever the rest of the program does.
LEMMA RecvDataStep ==
    ASSUME ReceiverInv, NEW seq \in Frames, RecvData(seq)
    PROVE  ReceiverInv'
BY DropDataStep, BufferDataStep, DeliverDataStep DEF RecvData

LEMMA ReceiverInvStutters == ReceiverInv /\ UNCHANGED receiverVars => ReceiverInv'
BY DEF receiverVars, ReceiverInv, ReceiverTypeOK, OutputInOrder, BufferInWindow, ExpectedInv,
       ResultInv, FileComplete

LEMMA ReceiverInvNext == ReceiverInv /\ [ReceiverNext]_receiverVars => ReceiverInv'
BY RecvDataStep, ReplyStep, ReceiverInvStutters DEF ReceiverNext

LEMMA ReceiverInvariant == ReceiverSpec => []ReceiverInv
BY ReceiverInvInit, ReceiverInvNext, PTL DEF ReceiverSpec

-------------------------------------------------------------------------------
(* The theorems.                                                           *)

\* Every variable of the receiver keeps its type: NFE in particular never runs
\* past the last frame of the file, however the frames arrive.
THEOREM ReceiverTypeCorrect == ReceiverSpec => []ReceiverTypeOK
<1>1. ReceiverInv => ReceiverTypeOK
  BY DEF ReceiverInv
<1> QED BY <1>1, ReceiverInvariant, PTL

\* deliverSWP and deliverHLP write the file's frames in order, each once, but
\* for repetitions of the last one at the end, however often and in whatever
\* order the network delivers them.
THEOREM FileIsInOrder == ReceiverSpec => []OutputInOrder
<1>1. ReceiverInv => OutputInOrder
  BY DEF ReceiverInv
<1> QED BY <1>1, ReceiverInvariant, PTL

\* A slot that is marked received never holds a frame from another turn of the
\* ring of slots.
THEOREM BufferStaysInWindow == ReceiverSpec => []BufferInWindow
<1>1. ReceiverInv => BufferInWindow
  BY DEF ReceiverInv
<1> QED BY <1>1, ReceiverInvariant, PTL

\* What prepare_ack puts into AckNum is what is in the output file, but for the
\* last frame.
THEOREM OnlyWrittenIsAcked == ReceiverSpec => []AcksWritten
<1>1. ReceiverInv => AcksWritten
  BY ReplyIsWritten DEF AcksWritten
<1> QED BY <1>1, ReceiverInvariant, PTL

\* A frame saved beyond a gap is still saved after a step, or written.
BufferedKept ==
    \A s \in Slots : received[s] =>
        \/ received'[s] /\ recvMsg'[s] = recvMsg[s]
        \/ \E i \in DOMAIN output' : output'[i] = recvMsg[s]

\* A slot keeps its frame, when a frame of the window is saved in it again.
LEMMA BufferedKeptByData ==
    ASSUME ReceiverInv, NEW seq \in Frames, BufferData(seq) \/ DeliverData(seq)
    PROVE  BufferedKept
<1> SUFFICES ASSUME NEW s \in Slots, received[s]
             PROVE  \/ received'[s] /\ recvMsg'[s] = recvMsg[s]
                    \/ \E i \in DOMAIN output' : output'[i] = recvMsg[s]
  BY DEF BufferedKept
<1>1. ReceiverTypeOK /\ BufferInWindow /\ seq \in Nat /\ NFE \in Nat
  BY DEF ReceiverInv, ReceiverTypeOK, Frames
<1>2. /\ recvMsg[s] \in Nat /\ Slot(recvMsg[s]) = s
      /\ recvMsg[s] >= NFE /\ recvMsg[s] <= NFE + SWS - 1
  BY <1>1 DEF ReceiverTypeOK, BufferInWindow
<1>3. CASE BufferData(seq)
  <2>1. CASE s = Slot(seq)
    <3>1. NFE <= seq /\ seq <= NFE + SWS - 1
      BY <1>3 DEF BufferData, InReceiveWindow
    <3>2. recvMsg[s] = seq
      BY <1>1, <2>1, <3>1, BufferedFrame
    <3> QED BY <1>1, <1>3, <2>1, <3>2 DEF BufferData, ReceiverTypeOK
  <2>2. CASE s # Slot(seq)
    BY <1>1, <1>3, <2>2 DEF BufferData, ReceiverTypeOK
  <2> QED BY <2>1, <2>2
<1>4. CASE DeliverData(seq)
  <2>1. PICK n \in 1 .. SWS :
            LET passed == IF FileComplete(output') THEN n - 1 ELSE n
            IN  /\ received' = [t \in Slots |->
                       (received[t] \/ t = Slot(NFE)) /\ t \notin Freed(passed)]
                /\ recvMsg' = [t \in Slots |->
                       IF t \in Freed(passed) THEN 0
                       ELSE IF t = Slot(NFE) THEN NFE ELSE recvMsg[t]]
                /\ output' = Kept(output \o [k \in 1 .. n |-> NFE + k - 1])
                /\ FileComplete(output) => n = 1
                /\ ~FileComplete(output) => n <= NFrames - Len(output)
    BY <1>4, DeliverDataEffect
  <2> DEFINE passed == IF FileComplete(output') THEN n - 1 ELSE n
  <2>2. /\ output' \in Seq(Frames)
        /\ FileComplete(output) => FileComplete(output')
        /\ ~FileComplete(output) =>
              /\ NFE = Len(output) + 1
              /\ Len(output') = Len(output) + n
              /\ \A k \in 0 .. (n - 1) : output'[NFE + k] = NFE + k
    BY <2>1, DeliverDataOutput
  <2>3. passed \in 0 .. n /\ (FileComplete(output) => passed = 0)
    BY <2>1, <2>2, SWSAssumption
  <2>4. CASE s \notin Freed(passed)
    <3>1. s = Slot(NFE) => recvMsg[s] = NFE
      BY <1>1, BufferedFrame, SWSAssumption
    <3>2. received'[s] /\ recvMsg'[s] = IF s = Slot(NFE) THEN NFE ELSE recvMsg[s]
      BY <2>1, <2>4
    <3> QED BY <3>1, <3>2
  <2>5. CASE s \in Freed(passed)
    <3> HIDE DEF passed
    <3>1. PICK k \in 0 .. (passed - 1) : s = Slot(NFE + k)
      BY <2>5 DEF Freed
    <3>2. k \in 0 .. (n - 1) /\ ~FileComplete(output) /\ k <= SWS - 1 /\ k \in Nat
      BY <2>3, <3>1, SWSAssumption
    <3>3. recvMsg[s] = NFE + k
      <4>1. NFE + k \in Nat /\ NFE <= NFE + k /\ NFE + k <= NFE + SWS - 1
        BY <1>1, <3>2, SWSAssumption
      <4> QED BY <1>1, <3>1, <4>1, BufferedFrame
    <3>4. Len(output) \in Nat
      BY <1>1, LenProperties DEF ReceiverTypeOK
    <3>5. NFE + k \in 1 .. Len(output')
      BY <2>2, <3>2, <3>4, SWSAssumption
    <3>6. NFE + k \in DOMAIN output'
      BY <2>2, <3>5, LenProperties
    <3>7. output'[NFE + k] = recvMsg[s]
      BY <2>2, <3>2, <3>3
    <3> QED BY <3>6, <3>7
  <2> QED BY <2>4, <2>5
<1> QED BY <1>3, <1>4

\* A frame saved beyond a gap is not lost: whatever packet comes next, it stays
\* in its slot until deliverSWP has written it.
THEOREM BufferedIsWritten == ReceiverSpec => BufferedUntilWritten
<1>1. ReceiverInv /\ [ReceiverNext]_receiverVars => [BufferedKept]_receiverVars
  <2> SUFFICES ASSUME ReceiverInv, ReceiverNext PROVE BufferedKept \/ UNCHANGED receiverVars
    OBVIOUS
  <2>1. CASE \E seq \in Frames : RecvData(seq)
    <3>1. PICK seq \in Frames : RecvData(seq)
      BY <2>1
    <3>2. CASE DropData(seq)
      BY <3>2 DEF DropData, BufferedKept
    <3> QED BY <3>1, <3>2, BufferedKeptByData DEF RecvData
  <2>2. CASE Reply
    BY <2>2 DEF Reply, ReplyComplete, ReplyAndWait, BufferedKept
  <2> QED BY <2>1, <2>2 DEF ReceiverNext
<1> QED BY <1>1, ReceiverInvariant, PTL DEF ReceiverSpec, BufferedUntilWritten, BufferedKept
================================================================================
