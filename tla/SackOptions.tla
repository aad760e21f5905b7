------------------------------ MODULE SackOptions ------------------------------
(***************************************************************************)
(* The receiver's list of the blocks it holds beyond a gap (swp_options.c).*)
(*                                                                         *)
(* The list is an array that is never sorted; entries beyond n_blocks keep *)
(* what they held, and some of the code below reads them.  opt_len is      *)
(* always 2 + 8 * n_blocks and is left out.  The array has one entry more  *)
(* than is ever counted, which SWP_create does not set: it is zero, as the *)
(* server allocates SwpState from memory that is fresh from the system.    *)
(* swp_append_sack_opts copies blocks of the list into the option and      *)
(* changes neither the list nor its counters.                              *)
(***************************************************************************)
EXTENDS Integers, Sequences, FiniteSetsExt

CONSTANT MaxBlocks    \* MAX_OPT_SACK_LEN: 5

\* The memmove of prepare_sack_culmuative_ack stays in the array for these.
ASSUME MaxBlocksAssumption == MaxBlocks \in 1 .. 5

VARIABLES
    n_blocks, idx_last_block,  \* of SACK_state
    SwpSACKdata                \* of SACK_opts

sackVars == <<n_blocks, idx_last_block, SwpSACKdata>>

-------------------------------------------------------------------------------
Block(left, right) == [left_edge |-> left, right_edge |-> right]
NoBlock == Block(0, 0)

\* The frames a block reports.
Reports(block) == block.left_edge .. (block.right_edge - 1)

\* memmove(&data[to], &data[from], count * sizeof(SwpHdrSACKOptData))
Move(data, to, from, count) ==
    [i \in DOMAIN data |-> IF i \in to .. (to + count - 1) THEN data[i - to + from]
                           ELSE data[i]]

SackInit ==
    /\ n_blocks = 0 /\ idx_last_block = 0
    /\ SwpSACKdata = [i \in 0 .. MaxBlocks |-> NoBlock]

-------------------------------------------------------------------------------
(* prepare_sack, for a frame that was buffered.                            *)

Touches(block, no) == \/ no \in Reports(block)
                      \/ no + 1 = block.left_edge
                      \/ no = block.right_edge

\* The loop stops at the first block of the list that the frame touches.
FirstTouched(i, no) == /\ i \in 0 .. (n_blocks - 1)
                       /\ Touches(SwpSACKdata[i], no)
                       /\ \A j \in 0 .. (i - 1) : ~Touches(SwpSACKdata[j], no)

KnownFrame(i, no) ==
    /\ FirstTouched(i, no)
    /\ no \in Reports(SwpSACKdata[i])
    /\ idx_last_block' = i
    /\ UNCHANGED <<n_blocks, SwpSACKdata>>

GrownLeft(block) == Block(block.left_edge - 1, block.right_edge)

\* The frame comes right before block i.  The code can also join block i with
\* i - 1 here, but a frame at the end of i - 1 has stopped the loop there.
ExtendLeft(i, no) ==
    LET block == SwpSACKdata[i]
    IN  /\ FirstTouched(i, no)
        /\ no \notin Reports(block) /\ no + 1 = block.left_edge
        /\ SwpSACKdata' = [SwpSACKdata EXCEPT ![i] = GrownLeft(block)]
        /\ idx_last_block' = i
        /\ UNCHANGED n_blocks

JoinsNextAnyway(i, no) == i + 1 < n_blocks    \* mutant: its left edge is not looked at

\* The code looks at i + 1 even where that is an entry beyond the list.
JoinsNext(i, no) == SwpSACKdata[i + 1].left_edge = no + 1

\* The frame comes right after block i, and may close the gap to i + 1; where
\* i + 1 is beyond the list, this drops block i from the list.
ExtendRight(i, no) ==
    LET block == SwpSACKdata[i]
        grown == [SwpSACKdata EXCEPT ![i].right_edge = no + 1]
    IN  /\ FirstTouched(i, no)
        /\ no \notin Reports(block) /\ no + 1 # block.left_edge
        /\ IF JoinsNext(i, no)
           THEN /\ SwpSACKdata' = Move([grown EXCEPT ![i + 1].left_edge = block.left_edge],
                                       i, i + 1, n_blocks - i - 1)
                /\ n_blocks' = n_blocks - 1
           ELSE SwpSACKdata' = grown /\ UNCHANGED n_blocks
        /\ idx_last_block' = i

HasRoomPastEnd == n_blocks <= MaxBlocks    \* mutant: off by one

HasRoom == n_blocks < MaxBlocks

\* A block of its own.  A full list loses its first block, and the new one is
\* not stored: the last place gets what lies behind the list.
NewBlock(no) ==
    /\ \A i \in 0 .. (n_blocks - 1) : ~Touches(SwpSACKdata[i], no)
    /\ IF HasRoom
       THEN /\ SwpSACKdata' = [SwpSACKdata EXCEPT ![n_blocks] = Block(no, no + 1)]
            /\ idx_last_block' = n_blocks
            /\ n_blocks' = n_blocks + 1
       ELSE /\ SwpSACKdata' = Move(SwpSACKdata, 0, 1, MaxBlocks)
            /\ idx_last_block' = MaxBlocks - 1
            /\ UNCHANGED n_blocks

PrepareSack(no) == \/ \E i \in 0 .. (MaxBlocks - 1) : \/ KnownFrame(i, no)
                                                      \/ ExtendLeft(i, no)
                                                      \/ ExtendRight(i, no)
                   \/ NewBlock(no)

-------------------------------------------------------------------------------
\* The loop of prepare_sack_culmuative_ack at block i of the first "count": how
\* many blocks are left, how many of the last ones seen are to go, the array.
Visited(walk, i, valid, count) ==
    CASE {i, i + 1} \subseteq valid ->
            [walk EXCEPT !.n = @ - walk.emptied, !.emptied = 0]
      [] i \in valid /\ i + 1 \notin valid /\ i + 1 = count ->
            walk
      [] i \in valid /\ i + 1 \notin valid /\ i + 1 # count ->
            [walk EXCEPT !.data = Move(@, i - walk.emptied, i, walk.emptied),
                         !.emptied = @ + 1]
      [] i \notin valid ->
            [walk EXCEPT !.emptied = @ + 1]

Compact(valid, count) ==
    LET walk[i \in 0 .. count] ==
            IF i = 0 THEN [n |-> count, emptied |-> 0, data |-> SwpSACKdata]
            ELSE Visited(walk[i - 1], i - 1, valid, count)
    IN  walk[count]

\* prepare_sack_culmuative_ack: everything below nfe has been delivered.  The
\* blocks beyond it are looked for in the whole array, and idx_last_block stays
\* unless there are none.
CumulativeAck(nfe) ==
    LET valid == {i \in 0 .. (MaxBlocks - 1) : SwpSACKdata[i].left_edge > nfe}
        walk  == Compact(valid, n_blocks)
    IN  IF valid = {}
        THEN /\ n_blocks' = 0 /\ idx_last_block' = 0
             /\ SwpSACKdata' = [i \in 0 .. MaxBlocks |->
                                   IF i < MaxBlocks THEN NoBlock ELSE SwpSACKdata[i]]
        ELSE /\ n_blocks' = walk.n - walk.emptied
             /\ SwpSACKdata' = walk.data
             /\ UNCHANGED idx_last_block

================================================================================
