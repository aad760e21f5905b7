------------------------------ MODULE SackProofs -------------------------------
(***************************************************************************)
(* The list of SACK blocks keeps within its array and never claims a frame *)
(* that was not received, whatever swp_options.c joins, moves and drops.   *)
(***************************************************************************)
EXTENDS SackWire, SwpReceiverProofs

-------------------------------------------------------------------------------
(* The blocks that report frames of a set G only.                          *)

Blocks(G) == {b \in [left_edge : 0 .. NFrames, right_edge : 0 .. (NFrames + 1)] :
                 b.left_edge <= b.right_edge /\ Reports(b) \subseteq G}

\* What SACK_opts holds when all its blocks, listed or stale, are of that kind.
Lists(G) == [0 .. MaxBlocks -> Blocks(G)]

LEMMA BlockMade ==
    ASSUME NEW G, NEW left \in 0 .. NFrames, NEW right \in 0 .. (NFrames + 1),
           left <= right, left .. (right - 1) \subseteq G
    PROVE  Block(left, right) \in Blocks(G)
<1> DEFINE b == Block(left, right)
<1>1. /\ b \in [left_edge : 0 .. NFrames, right_edge : 0 .. (NFrames + 1)]
      /\ b.left_edge = left /\ b.right_edge = right
  BY DEF Block
<1> HIDE DEF b
<1> QED BY <1>1 DEF Blocks, Reports, b

LEMMA BlockParts ==
    ASSUME NEW G, NEW b \in Blocks(G)
    PROVE  /\ b.left_edge \in 0 .. NFrames /\ b.right_edge \in 0 .. (NFrames + 1)
           /\ b.left_edge <= b.right_edge /\ Reports(b) \subseteq G
           /\ b = Block(b.left_edge, b.right_edge)
BY DEF Blocks, Block

\* More frames allow more blocks.
LEMMA ListsGrow ==
    ASSUME NEW G, NEW H, G \subseteq H
    PROVE  Blocks(G) \subseteq Blocks(H) /\ Lists(G) \subseteq Lists(H)
<1>1. Blocks(G) \subseteq Blocks(H)
  BY DEF Blocks
<1> QED BY <1>1 DEF Lists

\* memmove copies blocks of the array, as long as it does not read beyond it.
LEMMA MoveType ==
    ASSUME NEW G, NEW data \in Lists(G), NEW to \in Nat, NEW from \in Nat,
           NEW count \in Int, from + count <= MaxBlocks + 1
    PROVE  Move(data, to, from, count) \in Lists(G)
<1>1. DOMAIN data = 0 .. MaxBlocks
  BY DEF Lists
<1>2. ASSUME NEW i \in 0 .. MaxBlocks
      PROVE  (IF i \in to .. (to + count - 1) THEN data[i - to + from] ELSE data[i])
                 \in Blocks(G)
  <2>1. CASE i \in to .. (to + count - 1)
    <3>1. i - to + from \in 0 .. MaxBlocks
      BY <2>1, MaxBlocksAssumption
    <3> QED BY <2>1, <3>1 DEF Lists
  <2>2. CASE i \notin to .. (to + count - 1)
    BY <2>2 DEF Lists
  <2> QED BY <2>1, <2>2
<1> QED BY <1>1, <1>2 DEF Move, Lists

\* The entry that takes the first place of those that are moved.
LEMMA MoveFirst ==
    ASSUME NEW G, NEW data \in Lists(G), NEW to \in 0 .. MaxBlocks, NEW from \in Nat,
           NEW count \in Int
    PROVE  Move(data, to, from, count)[to] = IF count >= 1 THEN data[from] ELSE data[to]
<1>1. DOMAIN data = 0 .. MaxBlocks
  BY DEF Lists
<1>2. to \in to .. (to + count - 1) <=> count >= 1
  OBVIOUS
<1> QED BY <1>1, <1>2 DEF Move

-------------------------------------------------------------------------------
(* prepare_sack.                                                           *)

\* The list and its counters, with blocks that report frames of G.
ListType(G) == /\ n_blocks \in 0 .. MaxBlocks
               /\ idx_last_block \in 0 .. (MaxBlocks - 1)
               /\ SwpSACKdata \in Lists(G)

ListTypeNext(G) == /\ n_blocks' \in 0 .. MaxBlocks
                   /\ idx_last_block' \in 0 .. (MaxBlocks - 1)
                   /\ SwpSACKdata' \in Lists(G)

LEMMA ExtendLeftEffect ==
    ASSUME NEW G, ListType(G), NEW no \in Frames, no \in G,
           NEW i \in 0 .. (MaxBlocks - 1), ExtendLeft(i, no)
    PROVE  ListTypeNext(G) /\ no \in Reports(SwpSACKdata'[idx_last_block'])
<1> DEFINE block == SwpSACKdata[i]
           l == block.left_edge
           r == block.right_edge
<1>1. i \in 0 .. MaxBlocks /\ block \in Blocks(G)
  BY MaxBlocksAssumption DEF ListType, Lists
<1>2. /\ l \in 0 .. NFrames /\ r \in 0 .. (NFrames + 1) /\ l <= r
      /\ l .. (r - 1) \subseteq G
  BY <1>1, BlockParts DEF Reports
<1>3. /\ no + 1 = l /\ no \in 1 .. NFrames
      /\ SwpSACKdata' = [SwpSACKdata EXCEPT ![i] = Block(l - 1, r)]
      /\ idx_last_block' = i /\ n_blocks' = n_blocks
  BY DEF ExtendLeft, GrownLeft, Frames
<1> HIDE DEF l, r
<1>4. Block(l - 1, r) \in Blocks(G) /\ no \in Reports(Block(l - 1, r))
  <2>1. l - 1 = no /\ no \in 0 .. NFrames /\ no <= r
    BY <1>2, <1>3, NFramesAssumption
  <2>2. no .. (r - 1) \subseteq G
    BY <1>2, <1>3, NFramesAssumption
  <2>3. Block(no, r) \in Blocks(G)
    BY <1>2, <2>1, <2>2, BlockMade
  <2>4. no \in Reports(Block(no, r))
    BY <1>2, <1>3, NFramesAssumption DEF Reports, Block
  <2> QED BY <2>1, <2>3, <2>4
<1>5. SwpSACKdata' \in Lists(G) /\ SwpSACKdata'[i] = Block(l - 1, r)
  <2> HIDE DEF block
  <2> QED BY <1>1, <1>3, <1>4 DEF ListType, Lists
<1> QED BY <1>3, <1>4, <1>5 DEF ListType, ListTypeNext

\* The joined block reports what the two blocks report, and the frame.
LEMMA ExtendRightEffect ==
    ASSUME NEW G, ListType(G), NEW no \in Frames, no \in G,
           NEW i \in 0 .. (MaxBlocks - 1), ExtendRight(i, no)
    PROVE  ListTypeNext(G) /\ no \in Reports(SwpSACKdata'[idx_last_block'])
<1> DEFINE block == SwpSACKdata[i]
           next  == SwpSACKdata[i + 1]
           l == block.left_edge
           r == block.right_edge
           nl == next.left_edge
           nr == next.right_edge
           grown == [SwpSACKdata EXCEPT ![i].right_edge = no + 1]
           joined == [grown EXCEPT ![i + 1].left_edge = block.left_edge]
<1>1. /\ i \in 0 .. MaxBlocks /\ i + 1 \in 0 .. MaxBlocks /\ i + 1 # i
      /\ block \in Blocks(G) /\ next \in Blocks(G)
      /\ SwpSACKdata \in Lists(G) /\ n_blocks \in 0 .. MaxBlocks
      /\ no \in 1 .. NFrames
  BY MaxBlocksAssumption DEF ListType, Lists, Frames
<1>2. /\ l \in 0 .. NFrames /\ r \in 0 .. (NFrames + 1) /\ l <= r
      /\ l .. (r - 1) \subseteq G /\ block = Block(l, r)
  BY <1>1, BlockParts DEF Reports
<1>3. /\ nl \in 0 .. NFrames /\ nr \in 0 .. (NFrames + 1) /\ nl <= nr
      /\ nl .. (nr - 1) \subseteq G /\ next = Block(nl, nr)
  BY <1>1, BlockParts DEF Reports
<1>4. no = r /\ i \in 0 .. (n_blocks - 1) /\ idx_last_block' = i
  BY <1>1 DEF ExtendRight, FirstTouched, Touches
<1>5. /\ JoinsNext(i, no) => /\ SwpSACKdata' = Move(joined, i, i + 1, n_blocks - i - 1)
                             /\ n_blocks' = n_blocks - 1
      /\ ~JoinsNext(i, no) => SwpSACKdata' = grown /\ n_blocks' = n_blocks
  BY DEF ExtendRight
<1>6. grown = [SwpSACKdata EXCEPT ![i] = Block(l, no + 1)]
  <2>1. [block EXCEPT !.right_edge = no + 1] = Block(l, no + 1)
    <3> HIDE DEF l, r, block
    <3> QED BY <1>2 DEF Block
  <2> HIDE DEF l, r, block
  <2> QED BY <2>1 DEF block
<1> HIDE DEF l, r, block, next, nl, nr, grown
<1>7. Block(l, no + 1) \in Blocks(G) /\ no \in Reports(Block(l, no + 1))
  <2>1. l <= no + 1 /\ no + 1 \in 0 .. (NFrames + 1) /\ l .. ((no + 1) - 1) \subseteq G
    BY <1>1, <1>2, <1>4, NFramesAssumption
  <2>2. Block(l, no + 1) \in Blocks(G)
    BY <1>2, <2>1, BlockMade
  <2> QED BY <1>1, <1>2, <1>4, <2>2 DEF Reports, Block
<1>8. grown \in Lists(G) /\ grown[i] = Block(l, no + 1) /\ grown[i + 1] = next
  BY <1>1, <1>6, <1>7 DEF Lists, next
<1>9. CASE ~JoinsNext(i, no)
  BY <1>1, <1>4, <1>5, <1>7, <1>8, <1>9 DEF ListTypeNext
<1>10. CASE JoinsNext(i, no)
  <2>1. nl = no + 1
    BY <1>10 DEF JoinsNext, next, nl
  <2>2. joined = [grown EXCEPT ![i + 1] = Block(l, nr)]
    <3>1. [next EXCEPT !.left_edge = l] = Block(l, nr)
      BY <1>3 DEF Block
    <3> QED BY <1>1, <1>8, <3>1 DEF joined, l, block
  <2> HIDE DEF joined
  <2>3. Block(l, nr) \in Blocks(G) /\ no \in Reports(Block(l, nr))
    <3>1. l <= nr /\ l .. (nr - 1) \subseteq G
      <4>1. ASSUME NEW f \in l .. (nr - 1) PROVE f \in G
        <5>1. f \in l .. (r - 1) \/ f = no \/ f \in nl .. (nr - 1)
          BY <1>1, <1>2, <1>3, <1>4, <2>1
        <5> QED BY <1>2, <1>3, <5>1
      <4> QED BY <1>2, <1>3, <1>4, <2>1, <4>1
    <3>2. Block(l, nr) \in Blocks(G)
      BY <1>2, <1>3, <3>1, BlockMade
    <3> QED BY <1>1, <1>2, <1>3, <1>4, <2>1, <3>2 DEF Reports, Block
  <2>4. joined \in Lists(G) /\ joined[i + 1] = Block(l, nr) /\ joined[i] = Block(l, no + 1)
    BY <1>1, <1>8, <2>2, <2>3 DEF Lists
  <2>5. /\ i \in Nat /\ i + 1 \in Nat /\ n_blocks - i - 1 \in Int
        /\ (i + 1) + (n_blocks - i - 1) <= MaxBlocks + 1
    BY <1>1, MaxBlocksAssumption
  <2>6. SwpSACKdata' \in Lists(G)
    BY <1>5, <1>10, <2>4, <2>5, MoveType
  <2>7. SwpSACKdata'[i] \in {Block(l, nr), Block(l, no + 1)}
    BY <1>1, <1>5, <1>10, <2>4, <2>5, MoveFirst
  <2>8. n_blocks' \in 0 .. MaxBlocks
    BY <1>1, <1>4, <1>5, <1>10, MaxBlocksAssumption
  <2> QED BY <1>4, <1>7, <2>3, <2>6, <2>7, <2>8 DEF ListTypeNext
<1> QED BY <1>9, <1>10

\* A full list is moved by one place, and the frame is not in it.
LEMMA NewBlockEffect ==
    ASSUME NEW G, ListType(G), NEW no \in Frames, no \in G, NewBlock(no)
    PROVE  /\ ListTypeNext(G)
           /\ n_blocks < MaxBlocks => no \in Reports(SwpSACKdata'[idx_last_block'])
<1>1. no \in 1 .. NFrames /\ n_blocks \in 0 .. MaxBlocks /\ SwpSACKdata \in Lists(G)
  BY DEF ListType, Frames
<1>2. CASE HasRoom
  <2>1. /\ SwpSACKdata' = [SwpSACKdata EXCEPT ![n_blocks] = Block(no, no + 1)]
        /\ idx_last_block' = n_blocks /\ n_blocks' = n_blocks + 1
        /\ n_blocks < MaxBlocks
    BY <1>2 DEF NewBlock, HasRoom
  <2>2. Block(no, no + 1) \in Blocks(G)
    <3>1. no \in 0 .. NFrames /\ no + 1 \in 0 .. (NFrames + 1) /\ no <= no + 1
      BY <1>1, NFramesAssumption
    <3>2. no .. ((no + 1) - 1) \subseteq G
      BY <1>1
    <3> QED BY <3>1, <3>2, BlockMade
  <2>3. no \in Reports(Block(no, no + 1))
    BY <1>1 DEF Reports, Block
  <2>4. SwpSACKdata' \in Lists(G) /\ SwpSACKdata'[idx_last_block'] = Block(no, no + 1)
    BY <1>1, <2>1, <2>2 DEF Lists
  <2>5. n_blocks' \in 0 .. MaxBlocks /\ idx_last_block' \in 0 .. (MaxBlocks - 1)
    BY <1>1, <2>1, MaxBlocksAssumption
  <2> QED BY <2>3, <2>4, <2>5 DEF ListTypeNext
<1>3. CASE ~HasRoom
  <2>1. /\ SwpSACKdata' = Move(SwpSACKdata, 0, 1, MaxBlocks)
        /\ idx_last_block' = MaxBlocks - 1 /\ n_blocks' = n_blocks
        /\ ~(n_blocks < MaxBlocks)
    BY <1>3 DEF NewBlock, HasRoom
  <2>2. SwpSACKdata' \in Lists(G)
    BY <1>1, <2>1, MoveType, MaxBlocksAssumption
  <2>3. idx_last_block' \in 0 .. (MaxBlocks - 1)
    BY <2>1, MaxBlocksAssumption
  <2> QED BY <1>1, <2>1, <2>2, <2>3 DEF ListTypeNext
<1> QED BY <1>2, <1>3

\* A frame that is among the frames reported keeps the list as it has to be,
\* and unless the list was full the block that is copied first has it.
LEMMA PrepareSackEffect ==
    ASSUME NEW G, ListType(G), NEW no \in Frames, no \in G, PrepareSack(no)
    PROVE  /\ ListTypeNext(G)
           /\ n_blocks < MaxBlocks => no \in Reports(SwpSACKdata'[idx_last_block'])
<1>1. ASSUME NEW i \in 0 .. (MaxBlocks - 1), KnownFrame(i, no)
      PROVE  ListTypeNext(G) /\ no \in Reports(SwpSACKdata'[idx_last_block'])
  BY <1>1 DEF ListType, ListTypeNext, KnownFrame
<1> QED BY <1>1, ExtendLeftEffect, ExtendRightEffect, NewBlockEffect DEF PrepareSack

-------------------------------------------------------------------------------
(* prepare_sack_culmuative_ack.                                            *)

\* What the loop has made of the first i of count blocks: no more are to go
\* than it has seen, and at least those it has not seen are left.
Walks(G, i, count) ==
    {w \in [n : 0 .. count, emptied : 0 .. i, data : Lists(G)] : w.n - w.emptied >= count - i}

LEMMA VisitedType ==
    ASSUME NEW G, NEW count \in 0 .. MaxBlocks, NEW i \in 0 .. (count - 1), NEW valid,
           NEW walk \in Walks(G, i, count)
    PROVE  Visited(walk, i, valid, count) \in Walks(G, i + 1, count)
<1> DEFINE n == walk.n
           e == walk.emptied
           d == walk.data
<1>1. /\ n \in 0 .. count /\ e \in 0 .. i /\ d \in Lists(G) /\ n - e >= count - i
      /\ walk = [n |-> n, emptied |-> e, data |-> d]
  BY DEF Walks
<1>2. count \in Nat /\ i \in Nat /\ i < count
  BY MaxBlocksAssumption
<1>3. CASE {i, i + 1} \subseteq valid
  <2>1. Visited(walk, i, valid, count) = [walk EXCEPT !.n = @ - walk.emptied, !.emptied = 0]
    BY <1>3 DEF Visited
  <2>2. n - e \in 0 .. count /\ 0 \in 0 .. (i + 1) /\ (n - e) - 0 >= count - (i + 1)
    BY <1>1, <1>2
  <2> DEFINE next == Visited(walk, i, valid, count)
  <2>3. next.n = n - e /\ next.emptied = 0 /\ next.data = d
    BY <1>1, <2>1
  <2>4. next \in [n : 0 .. count, emptied : 0 .. (i + 1), data : Lists(G)]
    BY <1>1, <2>1, <2>2
  <2> QED BY <2>2, <2>3, <2>4 DEF Walks
<1>4. CASE i \in valid /\ i + 1 \notin valid /\ i + 1 = count
  <2>1. Visited(walk, i, valid, count) = walk
    BY <1>4, Zenon DEF Visited
  <2>2. e \in 0 .. (i + 1) /\ n - e >= count - (i + 1)
    BY <1>1, <1>2
  <2> QED BY <1>1, <2>1, <2>2 DEF Walks
<1>5. CASE i \in valid /\ i + 1 \notin valid /\ i + 1 # count
  <2> DEFINE moved == Move(d, i - e, i, e)
  <2>1. Visited(walk, i, valid, count)
            = [walk EXCEPT !.data = Move(@, i - walk.emptied, i, walk.emptied), !.emptied = @ + 1]
    BY <1>5 DEF Visited
  <2>2. moved \in Lists(G)
    <3>1. i - e \in Nat /\ e \in Int /\ i + e <= MaxBlocks + 1
      BY <1>1, <1>2, <1>5, MaxBlocksAssumption
    <3> QED BY <1>1, <1>2, <3>1, MoveType
  <2> HIDE DEF moved
  <2>3. e + 1 \in 0 .. (i + 1) /\ n - (e + 1) >= count - (i + 1)
    BY <1>1, <1>2
  <2> DEFINE next == Visited(walk, i, valid, count)
  <2>4. next = [walk EXCEPT !.data = moved, !.emptied = e + 1]
    BY <2>1 DEF moved
  <2>5. next.n = n /\ next.emptied = e + 1 /\ next.data = moved
    BY <1>1, <2>4
  <2>6. next \in [n : 0 .. count, emptied : 0 .. (i + 1), data : Lists(G)]
    BY <1>1, <2>2, <2>3, <2>4
  <2> QED BY <2>3, <2>5, <2>6 DEF Walks
<1>6. CASE i \notin valid
  <2>1. Visited(walk, i, valid, count) = [walk EXCEPT !.emptied = @ + 1]
    BY <1>6 DEF Visited
  <2>2. e + 1 \in 0 .. (i + 1) /\ n - (e + 1) >= count - (i + 1)
    BY <1>1, <1>2
  <2>3. [walk EXCEPT !.emptied = @ + 1] = [n |-> n, emptied |-> e + 1, data |-> d]
    BY <1>1
  <2> HIDE DEF n, e, d
  <2>4. [n |-> n, emptied |-> e + 1, data |-> d] \in Walks(G, i + 1, count)
    BY <1>1, <2>2 DEF Walks
  <2> QED BY <2>1, <2>3, <2>4
<1> QED BY <1>3, <1>4, <1>5, <1>6

\* The blocks that are left are some of those there were, and the subtraction of
\* the emptied ones does not wrap around.
LEMMA CompactType ==
    ASSUME NEW G, NEW count \in 0 .. MaxBlocks, NEW valid, SwpSACKdata \in Lists(G)
    PROVE  /\ Compact(valid, count).n - Compact(valid, count).emptied \in 0 .. count
           /\ Compact(valid, count).data \in Lists(G)
<1> DEFINE first == [n |-> count, emptied |-> 0, data |-> SwpSACKdata]
           WalkTo(m, f) == f = [i \in 0 .. m |-> IF i = 0 THEN first
                                                 ELSE Visited(f[i - 1], i - 1, valid, count)]
<1>1. count \in Nat
  BY MaxBlocksAssumption
<1>2. first \in Walks(G, 0, count)
  BY <1>1 DEF Walks
<1> HIDE DEF first
<1>3. \E f : WalkTo(count, f)
  <2> DEFINE T == {m \in 0 .. count : ~ \E f : WalkTo(m, f)}
  <2> SUFFICES ASSUME T # {} PROVE FALSE
    BY <1>1
  <2>1. PICK m \in T : \A k \in T : m <= k
    <3>1. T \in SUBSET Nat
      OBVIOUS
    <3> HIDE DEF T
    <3> QED BY <3>1, LeastNatural
  <2>2. m \in 0 .. count /\ ~ \E f : WalkTo(m, f)
    OBVIOUS
  <2>3. CASE m = 0
    <3> DEFINE f == [i \in 0 .. 0 |-> first]
    <3>1. WalkTo(0, f)
      OBVIOUS
    <3> QED BY <2>2, <2>3, <3>1
  <2>4. CASE m # 0
    <3>1. m - 1 \in 0 .. count /\ ~ (m <= m - 1) /\ m \in Nat \ {0}
      BY <1>1, <2>2, <2>4
    <3>2. m - 1 \notin T
      BY <2>1, <3>1
    <3>3. PICK g : WalkTo(m - 1, g)
      BY <3>1, <3>2
    <3> DEFINE h == [i \in 0 .. m |-> IF i < m THEN g[i]
                                      ELSE Visited(g[m - 1], m - 1, valid, count)]
    <3>4. ASSUME NEW i \in 0 .. m
          PROVE  h[i] = IF i = 0 THEN first ELSE Visited(h[i - 1], i - 1, valid, count)
      <4>1. CASE i = 0
        BY <3>1, <3>3, <4>1
      <4>2. CASE i # 0 /\ i < m
        <5>1. i \in 0 .. (m - 1) /\ i - 1 \in 0 .. m /\ i - 1 < m
          BY <3>1, <4>2
        <5> QED BY <3>3, <4>2, <5>1
      <4>3. CASE i = m
        <5>1. m - 1 \in 0 .. m /\ m - 1 < m /\ ~(m < m)
          BY <3>1
        <5> QED BY <3>1, <4>3, <5>1
      <4> QED BY <3>1, <4>1, <4>2, <4>3
    <3>5. h = [i \in 0 .. m |-> h[i]]
      OBVIOUS
    <3>6. WalkTo(m, h)
      <4> HIDE DEF h
      <4> QED BY <3>4, <3>5, Zenon
    <3> QED BY <2>2, <3>6
  <2> QED BY <2>3, <2>4
<1> DEFINE walk[i \in 0 .. count] == IF i = 0 THEN first
                                     ELSE Visited(walk[i - 1], i - 1, valid, count)
<1>4. WalkTo(count, walk)
  BY <1>3, Zenon
<1>5. Compact(valid, count) = walk[count]
  BY Zenon DEF Compact, first
<1> HIDE DEF walk
<1>6. \A i \in 0 .. count : walk[i] \in Walks(G, i, count)
  <2> DEFINE T == {i \in 0 .. count : walk[i] \notin Walks(G, i, count)}
  <2> SUFFICES ASSUME T # {} PROVE FALSE
    OBVIOUS
  <2>1. PICK m \in T : \A k \in T : m <= k
    <3>1. T \in SUBSET Nat
      OBVIOUS
    <3> HIDE DEF T
    <3> QED BY <3>1, LeastNatural
  <2>2. m \in 0 .. count /\ walk[m] \notin Walks(G, m, count)
    OBVIOUS
  <2>3. m # 0
    BY <1>1, <1>2, <1>4, <2>2
  <2>4. /\ m - 1 \in 0 .. count /\ m - 1 \in 0 .. (count - 1)
        /\ ~ (m <= m - 1) /\ (m - 1) + 1 = m
    BY <1>1, <2>2, <2>3
  <2>5. walk[m - 1] \in Walks(G, m - 1, count)
    BY <2>1, <2>4
  <2>6. Visited(walk[m - 1], m - 1, valid, count) \in Walks(G, (m - 1) + 1, count)
    BY <2>4, <2>5, VisitedType
  <2>7. walk[m] = Visited(walk[m - 1], m - 1, valid, count)
    BY <1>4, <2>2, <2>3
  <2> QED BY <2>2, <2>4, <2>6, <2>7
<1>7. Compact(valid, count) \in Walks(G, count, count)
  BY <1>1, <1>5, <1>6
<1> QED BY <1>1, <1>7 DEF Walks

LEMMA CumulativeAckEffect ==
    ASSUME NEW G, ListType(G), NEW nfe, CumulativeAck(nfe)
    PROVE  ListTypeNext(G)
<1> DEFINE valid == {i \in 0 .. (MaxBlocks - 1) : SwpSACKdata[i].left_edge > nfe}
           walk  == Compact(valid, n_blocks)
<1>1. /\ n_blocks \in 0 .. MaxBlocks /\ idx_last_block \in 0 .. (MaxBlocks - 1)
      /\ SwpSACKdata \in Lists(G)
  BY DEF ListType
<1>2. walk.n - walk.emptied \in 0 .. n_blocks /\ walk.data \in Lists(G)
  <2> HIDE DEF valid
  <2> QED BY <1>1, CompactType
<1>3. CASE valid = {}
  <2>1. /\ n_blocks' = 0 /\ idx_last_block' = 0
        /\ SwpSACKdata' = [i \in 0 .. MaxBlocks |->
                              IF i < MaxBlocks THEN NoBlock ELSE SwpSACKdata[i]]
    BY <1>3 DEF CumulativeAck
  <2>2. NoBlock \in Blocks(G)
    <3>1. /\ 0 \in 0 .. NFrames /\ 0 \in 0 .. (NFrames + 1)
          /\ 0 <= 0 /\ 0 .. (0 - 1) \subseteq G
      BY NFramesAssumption
    <3> QED BY <3>1, BlockMade, Zenon DEF NoBlock
  <2> QED BY <1>1, <2>1, <2>2, MaxBlocksAssumption DEF ListTypeNext, Lists
<1>4. CASE valid # {}
  <2>1. n_blocks' = walk.n - walk.emptied /\ SwpSACKdata' = walk.data
        /\ idx_last_block' = idx_last_block
    BY <1>4 DEF CumulativeAck
  <2> HIDE DEF walk
  <2>2. n_blocks' \in 0 .. MaxBlocks
    BY <1>1, <1>2, <2>1, MaxBlocksAssumption
  <2> QED BY <1>1, <1>2, <2>1, <2>2 DEF ListTypeNext
<1> QED BY <1>3, <1>4

-------------------------------------------------------------------------------
(* The frames the receiver has, buffered or written.                       *)

Got == ({recvMsg[s] : s \in Slots} \cup {output[i] : i \in DOMAIN output}) \ {0}

\* A slot that is not received holds nothing: a saved frame is destroyed when
\* its slot is freed, and only then.
EmptyInv == \A s \in Slots : ~received[s] => recvMsg[s] = 0

\* The list of blocks reports frames that are there.
SackInv == /\ ReceiverInv
           /\ EmptyInv
           /\ ListType(Got)

\* A file that is in order consists of the first frames, all of them.
LEMMA FramesOfFile ==
    ASSUME NEW file \in Seq(Frames), \A i \in DOMAIN file : file[i] = Min({i, NFrames})
    PROVE  {file[i] : i \in DOMAIN file}
               = 1 .. (IF Len(file) <= NFrames THEN Len(file) ELSE NFrames)
<1>1. Len(file) \in Nat /\ DOMAIN file = 1 .. Len(file)
  BY LenProperties
<1>2. \A i \in 1 .. Len(file) : file[i] = IF i <= NFrames THEN i ELSE NFrames
  <2> SUFFICES ASSUME NEW i \in 1 .. Len(file)
               PROVE  file[i] = IF i <= NFrames THEN i ELSE NFrames
    OBVIOUS
  <2>1. i \in Int /\ NFrames \in Int
    BY NFramesAssumption
  <2>2. file[i] = Min({i, NFrames})
    BY <1>1, Zenon
  <2> QED BY <2>1, <2>2, MinOfTwo
<1> DEFINE m == IF Len(file) <= NFrames THEN Len(file) ELSE NFrames
<1>3. \A f \in 1 .. m : f \in 1 .. Len(file) /\ file[f] = f
  BY <1>1, <1>2, NFramesAssumption
<1>4. \A i \in 1 .. Len(file) : file[i] \in 1 .. m
  BY <1>1, <1>2, NFramesAssumption
<1> HIDE DEF m
<1>5. {file[i] : i \in 1 .. Len(file)} = 1 .. m
  BY <1>3, <1>4
<1> QED BY <1>1, <1>5 DEF m

\* The receiver loses none of its frames: a second copy goes over the first, and
\* a slot is freed for a frame that is written.
LEMMA GotGrows ==
    ASSUME ReceiverInv, EmptyInv, NEW seq \in Frames, BufferData(seq) \/ DeliverData(seq)
    PROVE  Got \subseteq Got'
<1> SUFFICES ASSUME NEW f \in Got PROVE f \in Got'
  OBVIOUS
<1>1. f # 0 /\ Got' = ({recvMsg'[s] : s \in Slots} \cup {output'[i] : i \in DOMAIN output'}) \ {0}
  BY DEF Got
<1>2. CASE f \in {recvMsg[s] : s \in Slots}
  <2>1. PICK s \in Slots : recvMsg[s] = f
    BY <1>2
  <2>2. received[s]
    BY <1>1, <2>1 DEF EmptyInv
  <2>3. \/ recvMsg'[s] = f
        \/ \E i \in DOMAIN output' : output'[i] = f
    BY <2>1, <2>2, BufferedKeptByData DEF BufferedKept
  <2> QED BY <1>1, <2>3
<1>3. CASE f \in {output[i] : i \in DOMAIN output}
  <2>1. CASE BufferData(seq)
    BY <1>1, <1>3, <2>1 DEF BufferData
  <2>2. CASE DeliverData(seq)
    <3>1. PICK n \in 1 .. SWS :
              /\ output' = Kept(output \o [k \in 1 .. n |-> NFE + k - 1])
              /\ FileComplete(output) => n = 1
              /\ ~FileComplete(output) => n <= NFrames - Len(output)
      BY <2>2, DeliverDataEffect
    <3>2. /\ output' \in Seq(Frames)
          /\ OutputInOrder'
          /\ FileComplete(output) => FileComplete(output')
          /\ ~FileComplete(output) => Len(output') = Len(output) + n
      BY <3>1, DeliverDataOutput
    <3>3. /\ output \in Seq(Frames) /\ Len(output) \in Nat /\ Len(output') \in Nat
          /\ \A i \in DOMAIN output : output[i] = Min({i, NFrames})
          /\ \A i \in DOMAIN output' : output'[i] = Min({i, NFrames})
      BY <3>2, LenProperties DEF ReceiverInv, ReceiverTypeOK, OutputInOrder
    <3>4. /\ f \in 1 .. (IF Len(output) <= NFrames THEN Len(output) ELSE NFrames)
          /\ {output'[i] : i \in DOMAIN output'}
                 = 1 .. (IF Len(output') <= NFrames THEN Len(output') ELSE NFrames)
      BY <1>3, <3>2, <3>3, FramesOfFile
    <3>5. Len(output') >= Len(output) \/ Len(output') >= NFrames
      BY <3>2, <3>3, SWSAssumption DEF FileComplete
    <3>6. f \in 1 .. (IF Len(output') <= NFrames THEN Len(output') ELSE NFrames)
      BY <3>3, <3>4, <3>5, NFramesAssumption
    <3> QED BY <1>1, <3>4, <3>6
  <2> QED BY <2>1, <2>2
<1> QED BY <1>2, <1>3 DEF Got

\* A slot is emptied when it is freed, and filled when it is received.
LEMMA EmptyInvStep ==
    ASSUME ReceiverInv, EmptyInv, NEW seq \in Frames, BufferData(seq) \/ DeliverData(seq)
    PROVE  EmptyInv'
<1> SUFFICES ASSUME NEW s \in Slots, ~received'[s] PROVE recvMsg'[s] = 0
  BY DEF EmptyInv
<1>1. received \in [Slots -> BOOLEAN] /\ recvMsg \in [Slots -> 0 .. NFrames]
  BY DEF ReceiverInv, ReceiverTypeOK
<1>2. CASE BufferData(seq)
  <2>1. received' = [received EXCEPT ![Slot(seq)] = TRUE]
        /\ recvMsg' = [recvMsg EXCEPT ![Slot(seq)] = seq]
    BY <1>2 DEF BufferData
  <2>2. s # Slot(seq) /\ ~received[s]
    BY <1>1, <2>1
  <2> QED BY <1>1, <2>1, <2>2 DEF EmptyInv
<1>3. CASE DeliverData(seq)
  <2>1. PICK n \in 1 .. SWS :
            LET passed == IF FileComplete(output') THEN n - 1 ELSE n
            IN  /\ received' = [t \in Slots |->
                       (received[t] \/ t = Slot(NFE)) /\ t \notin Freed(passed)]
                /\ recvMsg' = [t \in Slots |->
                       IF t \in Freed(passed) THEN 0
                       ELSE IF t = Slot(NFE) THEN NFE ELSE recvMsg[t]]
    BY <1>3, DeliverDataEffect
  <2> DEFINE passed == IF FileComplete(output') THEN n - 1 ELSE n
  <2>2. /\ ~((received[s] \/ s = Slot(NFE)) /\ s \notin Freed(passed))
        /\ recvMsg'[s] = IF s \in Freed(passed) THEN 0
                         ELSE IF s = Slot(NFE) THEN NFE ELSE recvMsg[s]
    BY <2>1
  <2> HIDE DEF passed
  <2> QED BY <2>2 DEF EmptyInv
<1> QED BY <1>2, <1>3

-------------------------------------------------------------------------------
(* The initial states and the steps.                                       *)

LEMMA SackInvInit == Init => SackInv
<1> SUFFICES ASSUME Init PROVE SackInv
  OBVIOUS
<1>1. ReceiverInv
  BY ReceiverInvInit DEF Init
<1>2. EmptyInv
  BY DEF Init, ReceiverInit, EmptyInv
<1>3. NoBlock \in Blocks(Got)
  <2>1. /\ 0 \in 0 .. NFrames /\ 0 \in 0 .. (NFrames + 1)
        /\ 0 <= 0 /\ 0 .. (0 - 1) \subseteq Got
    BY NFramesAssumption
  <2> QED BY <2>1, BlockMade, Zenon DEF NoBlock
<1>4. ListType(Got)
  BY <1>3, MaxBlocksAssumption DEF Init, SackInit, ListType, Lists
<1> QED BY <1>1, <1>2, <1>4 DEF SackInv

LEMMA BufferStep ==
    ASSUME SackInv, NEW seq \in Frames, Buffer(seq)
    PROVE  /\ SackInv'
           /\ n_blocks < MaxBlocks => seq \in Reports(SwpSACKdata'[idx_last_block'])
<1>1. ReceiverInv /\ EmptyInv /\ BufferData(seq) /\ PrepareSack(seq)
  BY DEF SackInv, Buffer
<1>2. ReceiverInv' /\ EmptyInv' /\ Got \subseteq Got'
  BY <1>1, BufferDataStep, EmptyInvStep, GotGrows
<1>3. seq \in Got'
  <2>1. seq \in Nat /\ Slot(seq) \in Slots /\ seq # 0
    BY SlotType DEF Frames
  <2>2. recvMsg'[Slot(seq)] = seq
    BY <1>1, <2>1 DEF BufferData, ReceiverInv, ReceiverTypeOK
  <2> QED BY <2>1, <2>2 DEF Got
<1>4. ListType(Got')
  BY <1>2, ListsGrow DEF SackInv, ListType
<1> DEFINE G == Got'
<1> HIDE DEF G
<1>5. ListTypeNext(G) /\ (n_blocks < MaxBlocks => seq \in Reports(SwpSACKdata'[idx_last_block']))
  BY <1>1, <1>3, <1>4, PrepareSackEffect DEF G
<1> QED BY <1>2, <1>5 DEF SackInv, ListType, ListTypeNext, G

LEMMA DeliverStep ==
    ASSUME SackInv, NEW seq \in Frames, Deliver(seq)
    PROVE  SackInv'
<1>1. ReceiverInv /\ EmptyInv /\ DeliverData(seq)
  BY DEF SackInv, Deliver
<1>2. ReceiverInv' /\ EmptyInv' /\ Got \subseteq Got'
  BY <1>1, DeliverDataStep, EmptyInvStep, GotGrows
<1>3. ListType(Got')
  BY <1>2, ListsGrow DEF SackInv, ListType
<1> DEFINE G == Got'
<1> HIDE DEF G
<1>4. ListTypeNext(G)
  <2>1. CASE UNCHANGED sackVars
    BY <1>3, <2>1 DEF ListType, ListTypeNext, sackVars, G
  <2>2. CASE CumulativeAck(NFE')
    BY <1>3, <2>2, CumulativeAckEffect DEF G
  <2> QED BY <2>1, <2>2 DEF Deliver
<1> QED BY <1>2, <1>4 DEF SackInv, ListType, ListTypeNext, G

LEMMA SackInvNext == SackInv /\ [Next]_vars => SackInv'
<1> SUFFICES ASSUME SackInv, [Next]_vars PROVE SackInv'
  OBVIOUS
<1>1. ASSUME ReceiverInv', UNCHANGED <<received, recvMsg, output, sackVars>> PROVE SackInv'
  BY <1>1 DEF SackInv, EmptyInv, Got, ListType, sackVars
<1>2. ASSUME NEW seq \in Frames, Drop(seq) PROVE SackInv'
  <2>1. ReceiverInv'
    BY <1>2, DropDataStep DEF Drop, SackInv
  <2> QED BY <1>1, <1>2, <2>1 DEF Drop, DropData
<1>3. CASE Answer
  <2>1. ReceiverInv'
    BY <1>3, ReplyStep DEF Answer, SackInv
  <2> QED BY <1>1, <1>3, <2>1 DEF Answer, Reply, ReplyComplete, ReplyAndWait
<1>4. CASE UNCHANGED vars
  <2>1. UNCHANGED receiverVars
    BY <1>4 DEF vars
  <2>2. ReceiverInv'
    BY <2>1, ReceiverInvStutters DEF SackInv
  <2> QED BY <1>1, <1>4, <2>2 DEF vars, receiverVars
<1> QED BY <1>2, <1>3, <1>4, BufferStep, DeliverStep DEF Next, Terminating

LEMMA SackInvariant == Spec => []SackInv
BY SackInvInit, SackInvNext, PTL DEF Spec

-------------------------------------------------------------------------------
(* The option.                                                             *)

TurnsOf(n) == [j \in 1 .. (n - 1) |-> j - 1]
OthersOf(n, idx) ==
    IF idx < Len(TurnsOf(n)) THEN RemoveAt(TurnsOf(n), idx + 1) ELSE TurnsOf(n)
CopiedOf(n, idx, data) ==
    <<data[idx]>> \o [k \in 1 .. Len(OthersOf(n, idx)) |-> data[OthersOf(n, idx)[k]]]

LEMMA TurnsTaken ==
    ASSUME NEW n \in 0 .. MaxBlocks
    PROVE  /\ TurnsOf(n) \in Seq(0 .. MaxBlocks)
           /\ Len(TurnsOf(n)) = IF n = 0 THEN 0 ELSE n - 1
           /\ \A j \in 1 .. Len(TurnsOf(n)) : TurnsOf(n)[j] = j - 1
<1> DEFINE m == IF n = 0 THEN 0 ELSE n - 1
           t == TurnsOf(n)
<1>1. m \in Nat /\ 1 .. (n - 1) = 1 .. m /\ \A j \in 1 .. m : j - 1 \in 0 .. MaxBlocks
  BY MaxBlocksAssumption
<1>2. t \in [1 .. m -> 0 .. MaxBlocks] /\ \A j \in 1 .. m : t[j] = j - 1
  BY <1>1 DEF TurnsOf
<1> HIDE DEF t, m
<1>3. t \in Seq(0 .. MaxBlocks) /\ Len(t) = m
  <2> DEFINE S == 0 .. MaxBlocks
  <2>1. m \in Nat /\ t \in [1 .. m -> S]
    BY <1>1, <1>2
  <2> HIDE DEF S
  <2>2. t \in Seq(S) /\ Len(t) = m
    BY <2>1
  <2> QED BY <2>2 DEF S
<1> QED BY <1>2, <1>3 DEF t, m

\* The other blocks are all there are, in their order, but for one: the first
\* block if its turn comes, and else the last block of the list.
LEMMA OthersTaken ==
    ASSUME NEW n \in 0 .. MaxBlocks, NEW idx \in 0 .. (MaxBlocks - 1)
    PROVE  LET others == OthersOf(n, idx)
               skips  == idx < n - 1
           IN  /\ others \in Seq(0 .. MaxBlocks)
               /\ Len(others) = IF n = 0 THEN 0 ELSE IF skips THEN n - 2 ELSE n - 1
               /\ \A k \in 1 .. Len(others) :
                     others[k] = IF skips /\ k > idx THEN k ELSE k - 1
<1> DEFINE t == TurnsOf(n)
           m == Len(t)
           o == OthersOf(n, idx)
<1>1. /\ t \in Seq(0 .. MaxBlocks) /\ m \in Nat
      /\ m = IF n = 0 THEN 0 ELSE n - 1
      /\ \A j \in 1 .. m : t[j] = j - 1
  BY TurnsTaken, MaxBlocksAssumption
<1>2. o = IF idx < m THEN SubSeq(t, 1, (idx + 1) - 1) \o SubSeq(t, (idx + 1) + 1, m) ELSE t
  BY DEF OthersOf, RemoveAt
<1>3. n \in Nat /\ idx \in Nat /\ (idx < m <=> idx < n - 1)
  BY <1>1, MaxBlocksAssumption
<1> HIDE DEF t, m, o
<1>4. CASE idx < m
  <2> DEFINE a == SubSeq(t, 1, idx)
             b == SubSeq(t, idx + 2, m)
  <2>1. o = a \o b
    <3>1. (idx + 1) - 1 = idx /\ (idx + 1) + 1 = idx + 2
      BY <1>3
    <3> QED BY <1>2, <1>4, <3>1
  <2>2. \A j \in 1 .. m : t[j] \in 0 .. MaxBlocks
    BY <1>1, ElementOfSeq DEF m
  <2>3. /\ a \in Seq(0 .. MaxBlocks) /\ Len(a) = idx
        /\ \A k \in 1 .. idx : a[k] = t[k]
    <3>1. 1 \in Int /\ idx \in Int /\ \A j \in 1 .. idx : t[j] \in 0 .. MaxBlocks
      BY <1>1, <1>3, <1>4, <2>2
    <3>2. /\ a \in Seq(0 .. MaxBlocks)
          /\ Len(a) = IF 1 <= idx THEN idx - 1 + 1 ELSE 0
          /\ \A k \in 1 .. (idx - 1 + 1) : a[k] = t[1 + k - 1]
      BY <1>1, <3>1, SubSeqProperties
    <3> HIDE DEF a
    <3> QED BY <1>3, <3>2
  <2>4. /\ b \in Seq(0 .. MaxBlocks) /\ Len(b) = m - idx - 1
        /\ \A k \in 1 .. (m - idx - 1) : b[k] = t[idx + 1 + k]
    <3> DEFINE from == idx + 2
    <3>1. from \in Int /\ m \in Int /\ from = idx + 2
          /\ \A j \in from .. m : t[j] \in 0 .. MaxBlocks
      BY <1>1, <1>3, <1>4, <2>2
    <3>2. b = SubSeq(t, from, m)
      OBVIOUS
    <3> HIDE DEF b, from
    <3>3. /\ b \in Seq(0 .. MaxBlocks)
          /\ Len(b) = IF from <= m THEN m - from + 1 ELSE 0
          /\ \A k \in 1 .. (m - from + 1) : b[k] = t[from + k - 1]
      BY <1>1, <3>1, <3>2, SubSeqProperties
    <3>4. m - from + 1 = m - idx - 1
      BY <1>1, <1>3, <3>1
    <3>5. \A k \in 1 .. (m - idx - 1) : from + k - 1 = idx + 1 + k
      BY <1>3, <3>1
    <3>6. Len(b) = m - idx - 1
      BY <1>1, <1>3, <1>4, <3>1, <3>3
    <3> QED BY <3>3, <3>4, <3>5, <3>6
  <2> HIDE DEF a, b
  <2>5. /\ o \in Seq(0 .. MaxBlocks) /\ Len(o) = Len(a) + Len(b)
        /\ \A i \in 1 .. Len(o) : o[i] = IF i <= Len(a) THEN a[i] ELSE b[i - Len(a)]
    <3>1. a \in Seq(0 .. MaxBlocks) /\ b \in Seq(0 .. MaxBlocks)
      BY <2>3, <2>4
    <3> QED BY <2>1, <3>1, ConcatProperties
  <2>6. Len(o) = n - 2
    BY <1>1, <1>3, <1>4, <2>3, <2>4, <2>5
  <2>7. ASSUME NEW k \in 1 .. Len(o) PROVE o[k] = IF k > idx THEN k ELSE k - 1
    <3>1. CASE k <= idx
      BY <1>1, <1>3, <1>4, <2>3, <2>5, <3>1
    <3>2. CASE k > idx
      <4>1. o[k] = b[k - idx] /\ k - idx \in 1 .. (m - idx - 1)
        BY <1>1, <1>3, <1>4, <2>3, <2>4, <2>5, <3>2
      <4>2. b[k - idx] = t[idx + 1 + (k - idx)] /\ idx + 1 + (k - idx) = k + 1
        BY <1>3, <2>4, <4>1
      <4>3. k + 1 \in 1 .. m /\ (k + 1) - 1 = k
        BY <1>1, <1>3, <1>4, <2>6
      <4>4. t[k + 1] = k
        BY <1>1, <4>3
      <4> QED BY <3>2, <4>1, <4>2, <4>4
    <3> QED BY <1>3, <3>1, <3>2
  <2> QED BY <1>1, <1>3, <1>4, <2>5, <2>6, <2>7 DEF o
<1>5. CASE ~(idx < m)
  BY <1>1, <1>2, <1>3, <1>5 DEF o, m
<1> QED BY <1>4, <1>5

\* What is copied: the block that was touched last, and the others.
LEMMA CopiedBlocks ==
    ASSUME NEW G, NEW n \in 0 .. MaxBlocks, NEW idx \in 0 .. (MaxBlocks - 1),
           NEW data \in Lists(G)
    PROVE  LET copied == CopiedOf(n, idx, data)
               others == OthersOf(n, idx)
           IN  /\ copied \in Seq(Blocks(G))
               /\ Len(copied) = 1 + Len(others) /\ Len(others) \in Nat
               /\ copied[1] = data[idx] /\ Head(copied) = data[idx]
               /\ \A k \in 1 .. Len(others) : copied[k + 1] = data[others[k]]
<1> DEFINE o == OthersOf(n, idx)
           c == CopiedOf(n, idx, data)
           a == <<data[idx]>>
           b == [k \in 1 .. Len(o) |-> data[o[k]]]
<1>1. o \in Seq(0 .. MaxBlocks) /\ Len(o) \in Nat
      /\ \A k \in 1 .. Len(o) : o[k] \in 0 .. MaxBlocks
  <2>1. o \in Seq(0 .. MaxBlocks)
    BY OthersTaken
  <2> HIDE DEF o
  <2> QED BY <2>1, LenProperties, ElementOfSeq
<1>2. c = a \o b
  BY DEF CopiedOf
<1>3. idx \in 0 .. MaxBlocks /\ data[idx] \in Blocks(G)
  BY MaxBlocksAssumption DEF Lists
<1>4. a \in Seq(Blocks(G)) /\ Len(a) = 1 /\ a[1] = data[idx]
  BY <1>3
<1> HIDE DEF o, c, a
<1>5. b \in [1 .. Len(o) -> Blocks(G)] /\ \A k \in 1 .. Len(o) : b[k] = data[o[k]]
  BY <1>1 DEF Lists
<1> HIDE DEF b
<1>6. b \in Seq(Blocks(G)) /\ Len(b) = Len(o)
  BY <1>1, <1>5
<1>7. /\ c \in Seq(Blocks(G)) /\ Len(c) = 1 + Len(o)
      /\ \A i \in 1 .. Len(c) : c[i] = IF i <= 1 THEN a[i] ELSE b[i - 1]
  BY <1>2, <1>4, <1>6, ConcatProperties
<1>8. c[1] = data[idx] /\ \A k \in 1 .. Len(o) : c[k + 1] = data[o[k]]
  <2>1. 1 \in 1 .. Len(c) /\ c[1] = a[1]
    BY <1>1, <1>7
  <2>2. ASSUME NEW k \in 1 .. Len(o) PROVE c[k + 1] = data[o[k]]
    <3>1. k + 1 \in 1 .. Len(c) /\ ~(k + 1 <= 1) /\ (k + 1) - 1 = k
      BY <1>1, <1>7
    <3>2. c[k + 1] = b[k]
      BY <1>7, <3>1
    <3> QED BY <1>5, <3>2
  <2> QED BY <1>4, <2>1, <2>2
<1>9. Head(c) = c[1]
  BY <1>1, <1>7
<1> QED BY <1>1, <1>7, <1>8, <1>9 DEF o, c

-------------------------------------------------------------------------------
(* The theorems.                                                           *)

\* prepare_sack and prepare_sack_culmuative_ack keep within the array: the list
\* never gets longer than it, and n_blocks never wraps around below zero.
THEOREM SackTypeCorrect == Spec => []SackTypeOK
<1>1. SackInv => SackTypeOK
  BY DEF SackInv, ListType, Lists, Blocks, SackTypeOK
<1> QED BY <1>1, SackInvariant, PTL

\* No block of the array, and none that swp_append_sack_opts copies into an
\* option, claims a frame that the server has not received.
THEOREM OnlyReceivedReported == Spec => []BlocksReceived
<1>1. SackInv => BlocksReceived
  <2> SUFFICES ASSUME SackInv PROVE BlocksReceived
    OBVIOUS
  <2>1. ListType(Got)
    BY DEF SackInv
  <2>2. \A i \in 0 .. MaxBlocks : Reports(SwpSACKdata[i]) \subseteq Got
    BY <2>1, BlockParts DEF ListType, Lists
  <2>3. ASSUME HasOption, NEW k \in DOMAIN Copied PROVE Reports(Copied[k]) \subseteq Reportable
    <3>1. Reportable = Got
      BY <2>3 DEF HasOption, Reportable, Got
    <3>2. Copied = CopiedOf(n_blocks, idx_last_block, SwpSACKdata)
      BY DEF Copied, Others, Turns, CopiedOf, OthersOf, TurnsOf
    <3>3. Copied \in Seq(Blocks(Got))
      BY <2>1, <3>2, CopiedBlocks DEF ListType
    <3>4. Copied[k] \in Blocks(Got)
      BY <2>3, <3>3, LenProperties, ElementOfSeq
    <3> QED BY <3>1, <3>4, BlockParts
  <2> QED BY <2>2, <2>3 DEF BlocksReceived, Got
<1> QED BY <1>1, SackInvariant, PTL

\* The order in which swp_append_sack_opts takes the blocks loses none of them
\* but possibly the last, wherever it starts.
THEOREM OptionHasTheList == Spec => []OnlyLastLeftOut
<1>1. SackInv => OnlyLastLeftOut
  <2> SUFFICES ASSUME SackInv, HasOption
               PROVE  /\ \A i \in 0 .. (n_blocks - 2) :
                            \E k \in DOMAIN Copied : Copied[k] = SwpSACKdata[i]
                      /\ Len(Copied) \in (Announced - 1) .. Announced
    BY DEF OnlyLastLeftOut
  <2> DEFINE n == n_blocks
             idx == idx_last_block
             others == OthersOf(n, idx)
             len == Len(others)
  <2>1. ListType(Got) /\ n \in 0 .. MaxBlocks /\ n > 0 /\ idx \in 0 .. (MaxBlocks - 1)
    BY DEF SackInv, ListType, HasOption
  <2>2. Copied = CopiedOf(n, idx, SwpSACKdata)
    BY DEF Copied, Others, Turns, CopiedOf, OthersOf, TurnsOf
  <2>3. /\ Copied \in Seq(Blocks(Got)) /\ Len(Copied) = 1 + len
        /\ Copied[1] = SwpSACKdata[idx]
        /\ \A k \in 1 .. len : Copied[k + 1] = SwpSACKdata[others[k]]
    <3>1. SwpSACKdata \in Lists(Got)
      BY <2>1 DEF ListType
    <3> HIDE DEF n, idx
    <3> QED BY <2>1, <2>2, <3>1, CopiedBlocks
  <2>4. /\ len = IF idx < n - 1 THEN n - 2 ELSE n - 1
        /\ \A k \in 1 .. len : others[k] = IF idx < n - 1 /\ k > idx THEN k ELSE k - 1
    BY <2>1, OthersTaken
  <2>5. DOMAIN Copied = 1 .. (1 + len)
    BY <2>3, LenProperties
  <2>6. n \in Nat /\ idx \in Nat /\ n >= 1
    BY <2>1, MaxBlocksAssumption
  <2> HIDE DEF n, idx, others, len
  <2>7. ASSUME NEW i \in 0 .. (n - 2)
        PROVE  \E k \in DOMAIN Copied : Copied[k] = SwpSACKdata[i]
    <3>1. CASE i = idx
      <4>1. 1 \in 1 .. (1 + len)
        BY <2>4, <2>6, <2>7
      <4> QED BY <2>3, <2>5, <3>1, <4>1
    <3>2. CASE i < idx
      <4>1. i + 1 \in 1 .. len /\ others[i + 1] = i
        BY <2>4, <2>6, <3>2
      <4>2. (i + 1) + 1 \in 1 .. (1 + len)
        BY <2>4, <2>6, <4>1
      <4> QED BY <2>3, <2>5, <4>1, <4>2
    <3>3. CASE i > idx
      <4>1. i \in 1 .. len /\ others[i] = i
        BY <2>4, <2>6, <3>3
      <4>2. i + 1 \in 1 .. (1 + len)
        BY <2>4, <2>6, <4>1
      <4> QED BY <2>3, <2>5, <4>1, <4>2
    <3> QED BY <2>6, <3>1, <3>2, <3>3
  <2>8. Len(Copied) \in (n - 1) .. n
    BY <2>3, <2>4, <2>6
  <2> QED BY <2>7, <2>8 DEF Announced, n
<1> QED BY <1>1, SackInvariant, PTL

\* The block that is first in an option is the one of the frame it answers, as
\* long as the list had room for it.
THEOREM AnswerHasItsFrameFirst == Spec => AnswerStartsWithFrame
<1> DEFINE Answers == \A seq \in Frames :
                         Buffer(seq) /\ n_blocks < MaxBlocks => seq \in Reports(Head(Copied'))
<1>1. ASSUME SackInv PROVE Answers
  <2> SUFFICES ASSUME NEW seq \in Frames, Buffer(seq), n_blocks < MaxBlocks
               PROVE  seq \in Reports(Head(Copied'))
    OBVIOUS
  <2>1. /\ SackInv'
        /\ seq \in Reports(SwpSACKdata'[idx_last_block'])
    BY <1>1, BufferStep
  <2>2. /\ n_blocks' \in 0 .. MaxBlocks /\ idx_last_block' \in 0 .. (MaxBlocks - 1)
        /\ SwpSACKdata' \in Lists(Got')
    BY <2>1 DEF SackInv, ListType
  <2>3. Copied' = CopiedOf(n_blocks', idx_last_block', SwpSACKdata')
    BY DEF Copied, Others, Turns, CopiedOf, OthersOf, TurnsOf
  <2>4. Head(Copied') = SwpSACKdata'[idx_last_block']
    <3> DEFINE G == Got'
    <3> HIDE DEF G
    <3>1. SwpSACKdata' \in Lists(G)
      BY <2>2 DEF G
    <3> QED BY <2>2, <2>3, <3>1, CopiedBlocks
  <2> QED BY <2>1, <2>4
<1>2. SackInv /\ [Next]_vars => [Answers]_vars
  BY <1>1
<1> QED BY <1>2, SackInvariant, PTL DEF Spec, AnswerStartsWithFrame
================================================================================
