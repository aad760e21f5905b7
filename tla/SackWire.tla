-------------------------------- MODULE SackWire --------------------------------
(***************************************************************************)
(* The SACK option of a reply (swp_append_sack_opts), as the client's      *)
(* swp_options finds it: what recvDataMainLoop makes of the list that the  *)
(* receiver of SackReceiver keeps.                                         *)
(*                                                                         *)
(* opt_buffer, in which the option is made, is a local variable of the     *)
(* loop that nothing sets.  The client takes the option's length from its  *)
(* header, so it sees as many blocks as are announced; a place to which no *)
(* block is copied holds anything, which is why SwpSender takes reports of *)
(* any frames.  The program puts one option into a packet.                 *)
(***************************************************************************)
EXTENDS SackReceiver, SequencesExt

TurnsFromOne == [j \in 1 .. (n_blocks - 1) |-> j]    \* mutant: block 0 is forgotten

\* The blocks the loop of swp_append_sack_opts looks at, one per turn.  The
\* turn it spends on the block that has been copied first is not made up for.
Turns == [j \in 1 .. (n_blocks - 1) |-> j - 1]

\* Mutant: the blocks in the order of the list.
CopiedInOrder == [j \in 1 .. n_blocks |-> SwpSACKdata[j - 1]]

\* The blocks behind the first: the turn of the one that has been copied is skipped.
Others == IF idx_last_block < Len(Turns) THEN RemoveAt(Turns, idx_last_block + 1) ELSE Turns

\* What is copied into the option.
Copied == <<SwpSACKdata[idx_last_block]>>
          \o [k \in 1 .. Len(Others) |-> SwpSACKdata[Others[k]]]

\* opt_len announces one block for each of the list.
Announced == n_blocks

\* Only a frame that was buffered is answered with an option, and a list that
\* has become empty with none.
HasOption == rpc = "drain" /\ swp_res = "MSG_BUFFERED" /\ n_blocks > 0

-------------------------------------------------------------------------------
(* Properties.                                                             *)

\* No block of the array, listed or stale, covers a frame that was not received,
\* though blocks are joined with stale ones, kept in the wrong order and dropped:
\* what is copied into an option never claims a frame that still has to be sent.
\* An option reports what the transfer of Artcp lets the server report, but for
\* a place that was not copied to, which may report any frame.
BlocksReceived ==
    /\ \A i \in 0 .. MaxBlocks : Reports(SwpSACKdata[i]) \subseteq
           {output[k] : k \in DOMAIN output} \cup {recvMsg[s] : s \in Slots}
    /\ HasOption => \A k \in DOMAIN Copied : Reports(Copied[k]) \subseteq Reportable

\* An option leaves out no block of the list but the last, although the order
\* starts anywhere, and at most one of its places is not copied to.
OnlyLastLeftOut ==
    HasOption =>
        /\ \A i \in 0 .. (n_blocks - 2) : \E k \in DOMAIN Copied : Copied[k] = SwpSACKdata[i]
        /\ Len(Copied) \in (Announced - 1) .. Announced

\* Unless the list was full, the option that answers a buffered frame starts
\* with the block that has it.
AnswerStartsWithFrame ==
    [][\A seq \in Frames :
          Buffer(seq) /\ n_blocks < MaxBlocks
              => seq \in Reports(Head(Copied'))]_vars
================================================================================
