-------------------------- MODULE RootBlockAllocator --------------------------
(***************************************************************************)
(* The allocator of blocks.  Memory comes from the system in chunks.  A    *)
(* chunk starts with the descriptors of its blocks; a group of several     *)
(* chunks is one large block that covers the headers of all chunks but the *)
(* first.  Free groups within a chunk are in free lists by the logarithm   *)
(* of their span, groups of whole chunks in a list sorted by address.      *)
(*                                                                         *)
(* A block is the number of its descriptor: block k of chunk c is          *)
(* c * ChunkBlocks + k, so that block arithmetic is that of the code.  The *)
(* allocator is sequential; each action is one whole call.                 *)
(***************************************************************************)
EXTENDS Totals, FiniteSets, SequencesExt

CONSTANTS
    BlocksPerChunk,     \* 252: the blocks with a descriptor in a chunk
    FreeListCount,      \* 8 = ChunkBits - BlockBits
    MaxChunks,          \* bound: the chunks of the address space
    Requests,           \* the block counts clients ask for
    MaxLive             \* bound: blocks handed out at the same time

ChunkBlocks == PowerOfTwo[FreeListCount]     \* ChunkSize / BlockSize

ASSUME AllocatorAssumption ==
    /\ FreeListCount \in Nat /\ MaxChunks \in Nat \ {0} /\ MaxLive \in Nat
    /\ BlocksPerChunk \in 2..ChunkBlocks - 1
    /\ Requests \subseteq Nat \ {0}

MemoryBlocks == MaxChunks * ChunkBlocks

Blocks == {b \in 0..MemoryBlocks - 1 : b % ChunkBlocks < BlocksPerChunk}

NoBlock == -1       \* nullptr

VARIABLES
    span,               \* Block::span_
    free,               \* Block::free_ = nullptr
    constructed,        \* descriptors that hold a Block and no client's data
    freeBlocks,         \* free_blocks_: the free list of each index
    freeChunks,         \* free_chunks_
    allocations,        \* allocations_, as pairs <<first chunk, chunks>>
    blocksAllocated,
    chunksAllocated,
    live                \* the blocks clients have, each with the count asked for

vars == <<span, free, constructed, freeBlocks, freeChunks, allocations,
          blocksAllocated, chunksAllocated, live>>

\* The allocator's state as one record, for operations made of others.
State == [span |-> span, free |-> free, constructed |-> constructed,
          lists |-> freeBlocks, chunks |-> freeChunks, allocations |-> allocations,
          blocksAllocated |-> blocksAllocated, chunksAllocated |-> chunksAllocated]

Become(s) ==
    /\ span' = s.span
    /\ free' = s.free
    /\ constructed' = s.constructed
    /\ freeBlocks' = s.lists
    /\ freeChunks' = s.chunks
    /\ allocations' = s.allocations
    /\ blocksAllocated' = s.blocksAllocated
    /\ chunksAllocated' = s.chunksAllocated

Indices == 0..FreeListCount - 1

Init ==
    /\ span = [b \in Blocks |-> 0]
    /\ free = [b \in Blocks |-> TRUE]
    /\ constructed = {}
    /\ freeBlocks = [x \in Indices |-> <<>>]
    /\ freeChunks = <<>>
    /\ allocations = <<>>
    /\ blocksAllocated = 0
    /\ chunksAllocated = 0
    /\ live = <<>>

-----------------------------------------------------------------------------
(* Sizes and places *)

BlocksForChunks(chunks) == BlocksPerChunk + (chunks - 1) * ChunkBlocks

\* Mutant of ChunksForBlocks: rounds down.
ChunksForBlocksDown(blocks) == 1 + (blocks - BlocksPerChunk) \div ChunkBlocks

ChunksForBlocks(blocks) ==
    1 + (blocks - BlocksPerChunk + ChunkBlocks - 1) \div ChunkBlocks

ChunkOf(b) == b \div ChunkBlocks

ChunkBegin(chunk) == chunk * ChunkBlocks

ChunkEnd(chunk) == ChunkBegin(chunk) + BlocksPerChunk

DescriptorsOf(chunk) == ChunkBegin(chunk)..ChunkEnd(chunk) - 1

First(indices) == CHOOSE x \in indices : \A y \in indices : x <= y

\* Log2, rounded down; FreeListCount bounds the loop.
FreeListIndex(n) == CHOOSE x \in Indices : PowerOfTwo[x] <= n /\ n < PowerOfTwo[x + 1]

\* Log2, rounded up, or FreeListCount when no list has only large enough groups.
FreeListIndexForAllocation(n) ==
    First({x \in Indices : n <= PowerOfTwo[x]} \cup {FreeListCount})

-----------------------------------------------------------------------------
(* Steps of allocation and deallocation, on states *)

\* Mutant of SetupGroup: the last descriptor keeps its old span.
SetupHeadOnly(s, b, n) == [s EXCEPT !.span[b] = n]

\* Mutant of SetupGroup: the span goes into the descriptor after the last.
SetupPastEnd(s, b, n) ==
    LET last == IF n > 1 /\ n <= BlocksPerChunk THEN b + n ELSE b
    IN  [s EXCEPT !.span[b] = n, !.span[last] = n]

\* The span goes into the first descriptor of a group and, if the group is
\* within a chunk, into the last.
SetupGroup(s, b, n) ==
    LET last == IF n > 1 /\ n <= BlocksPerChunk THEN b + n - 1 ELSE b
    IN  [s EXCEPT !.span[b] = n, !.span[last] = n]

AddToFreeList(s, b) ==
    [s EXCEPT !.lists[FreeListIndex(s.span[b])] = <<b>> \o @]

\* A list from which the node of b is unlinked.
Without(list, b) == RemoveAt(list, CHOOSE i \in DOMAIN list : list[i] = b)

RemoveFromFreeList(s, b) ==
    [s EXCEPT !.lists[FreeListIndex(s.span[b])] = Without(@, b)]

\* A block goes to a client.  The data of a large block covers the
\* descriptors of all chunks but the first.
Release(s, b) ==
    [s EXCEPT !.free[b] = FALSE,
              !.blocksAllocated = @ + s.span[b],
              !.constructed = @ \ {d \in Blocks : ChunkOf(b) < ChunkOf(d)
                                                  /\ d < b + s.span[b]}]

\* Mutant of Reclaim: the counter stays.
ReclaimUncounted(s, b) == [s EXCEPT !.free[b] = TRUE]

\* A block comes back.
Reclaim(s, b) ==
    [s EXCEPT !.free[b] = TRUE, !.blocksAllocated = @ - s.span[b]]

InitChunkBlocks(s, chunk) ==
    [s EXCEPT !.span = [b \in Blocks |-> IF ChunkOf(b) = chunk THEN 0 ELSE @[b]],
              !.free = [b \in Blocks |-> @[b] \/ ChunkOf(b) = chunk],
              !.constructed = @ \cup DescriptorsOf(chunk)]

\* Where the list of free chunks has groups that are large enough.
Fitting(s, chunks) ==
    {i \in DOMAIN s.chunks : s.span[s.chunks[i]] >= BlocksForChunks(chunks)}

\* The first of the smallest of them.
BestFit(s, fitting) ==
    s.chunks[CHOOSE i \in fitting : \A j \in fitting :
               \/ s.span[s.chunks[i]] < s.span[s.chunks[j]]
               \/ s.span[s.chunks[i]] = s.span[s.chunks[j]] /\ i <= j]

\* A group is made of chunks that begin with this one.
NewGroup(s, chunk, chunks) ==
    [state |-> SetupGroup(InitChunkBlocks(s, chunk), ChunkBegin(chunk), BlocksForChunks(chunks)),
     block |-> ChunkBegin(chunk)]

\* A group of chunks that is free and in no list: one of the right size, or
\* else the end of the smallest larger one, or else memory from the system,
\* which is at the chunk base.
AllocateChunkGroup(s, chunks, base) ==
    LET fitting  == Fitting(s, chunks)
        best     == BestFit(s, fitting)
        left     == ChunksForBlocks(s.span[best]) - chunks
        fromRest == SetupGroup(s, best, BlocksForChunks(left))
        fromNew  == [s EXCEPT !.allocations = <<<<base, chunks>>>> \o @,
                              !.chunksAllocated = @ + chunks]
    IN  IF fitting = {} THEN NewGroup(fromNew, base, chunks)
        ELSE IF left = 0 THEN [state |-> [s EXCEPT !.chunks = Without(@, best)],
                               block |-> best]
        ELSE NewGroup(fromRest, ChunkOf(best) + left, chunks)

\* Free lists from which n blocks can be taken.
UsableLists(s, n) ==
    {x \in Indices : x >= FreeListIndexForAllocation(n) /\ s.lists[x] # <<>>}

\* Mutant of AllocateFromFreeList: the group that is cut keeps its span.
AllocateWithoutShrinking(s, n) ==
    LET x    == First(UsableLists(s, n))
        b    == Head(s.lists[x])
        size == s.span[b]
        popped == [s EXCEPT !.lists[x] = Tail(@)]
        cut    == b + size - n
    IN  IF size = n
          THEN [state |-> Release(popped, b), block |-> b]
          ELSE [state |-> Release(AddToFreeList(SetupGroup(popped, cut, n), b), cut),
                block |-> cut]

\* The first block of the first usable list, or the end of it.
AllocateFromFreeList(s, n) ==
    LET x    == First(UsableLists(s, n))
        b    == Head(s.lists[x])
        size == s.span[b]
        popped == [s EXCEPT !.lists[x] = Tail(@)]
        cut    == b + size - n
    IN  IF size = n
          THEN [state |-> Release(popped, b), block |-> b]
          ELSE [state |-> Release(AddToFreeList(SetupGroup(SetupGroup(popped, cut, n),
                                                           b, size - n), b), cut),
                block |-> cut]

\* The beginning of a chunk; the rest goes to the free lists.
AllocateFromNewChunk(s, n, base) ==
    LET new  == AllocateChunkGroup(s, 1, base)
        rest == new.block + n
    IN  [state |-> Release(AddToFreeList(SetupGroup(SetupGroup(new.state, new.block, n),
                                                    rest, BlocksPerChunk - n), rest),
                           new.block),
         block |-> new.block]

\* The chunks that allocate(n) takes from the system: none if it does without.
ChunksNeeded(s, n) ==
    LET chunks == IF n >= BlocksPerChunk THEN ChunksForBlocks(n) ELSE 1
    IN  IF \/ n < BlocksPerChunk /\ UsableLists(s, n) # {}
           \/ Fitting(s, chunks) # {}
          THEN 0 ELSE chunks

AllocateBlocks(s, n, base) ==
    IF n >= BlocksPerChunk
      THEN LET new == AllocateChunkGroup(s, ChunksForBlocks(n), base)
           IN  [new EXCEPT !.state = Release(@, new.block)]
    ELSE IF UsableLists(s, n) # {} THEN AllocateFromFreeList(s, n)
    ELSE AllocateFromNewChunk(s, n, base)

NextFreeBlock(s, b) ==
    LET next == b + s.span[b]
    IN  IF next < ChunkEnd(ChunkOf(b)) /\ s.free[next] THEN next ELSE NoBlock

PreviousFreeBlock(s, b) ==
    LET prev == IF s.span[b - 1] > 1 THEN b - s.span[b - 1] ELSE b - 1
    IN  IF b > ChunkBegin(ChunkOf(b)) /\ s.free[prev] THEN prev ELSE NoBlock

\* Mutant of MergeWithNext: the next group stays in its free list.
MergeWithNextListed(s, b) ==
    LET next == NextFreeBlock(s, b)
    IN  IF next = NoBlock THEN s ELSE SetupGroup(s, b, s.span[b] + s.span[next])

MergeWithNext(s, b) ==
    LET next == NextFreeBlock(s, b)
    IN  IF next = NoBlock THEN s
        ELSE SetupGroup(RemoveFromFreeList(s, next), b, s.span[b] + s.span[next])

MergeWithPrevious(s, b) ==
    LET prev == PreviousFreeBlock(s, b)
    IN  IF prev = NoBlock THEN s
        ELSE SetupGroup(RemoveFromFreeList(s, prev), prev, s.span[prev] + s.span[b])

\* Whether the chunks of group b end where those of next begin.
Adjoins(s, b, next) == ChunkOf(b) + ChunksForBlocks(s.span[b]) = ChunkOf(next)

MergeChunkGroups(s, b, next) ==
    SetupGroup(s, b, BlocksForChunks(ChunksForBlocks(s.span[b])
                                     + ChunksForBlocks(s.span[next])))

\* How many groups come before b in the sorted list.
GroupsBefore(s, b) ==
    CHOOSE k \in 0..Len(s.chunks) :
      /\ \A j \in 1..k : s.chunks[j] < b
      /\ k < Len(s.chunks) => s.chunks[k + 1] >= b

\* Mutant of FreeChunkGroup: merges only with the group before.
FreeChunkGroupOneSide(s, b) ==
    LET k == GroupsBefore(s, b)
    IN  IF k > 0 /\ Adjoins(s, s.chunks[k], b)
          THEN MergeChunkGroups(s, s.chunks[k], b)
          ELSE [s EXCEPT !.chunks = InsertAt(@, k + 1, b)]

\* Into the sorted list, merged with the groups before and after it.
FreeChunkGroup(s, b) ==
    LET k         == GroupsBefore(s, b)
        joinsPrev == k > 0 /\ Adjoins(s, s.chunks[k], b)
        group     == IF joinsPrev THEN s.chunks[k] ELSE b
        added     == IF joinsPrev
                       THEN MergeChunkGroups(s, group, b)
                       ELSE [s EXCEPT !.chunks = InsertAt(@, k + 1, b)]
        next      == s.chunks[k + 1]
    IN  IF k < Len(s.chunks) /\ Adjoins(added, group, next)
          THEN [MergeChunkGroups(added, group, next) EXCEPT !.chunks = Without(@, next)]
          ELSE added

DeallocateBlock(s, b) ==
    LET back   == Reclaim(s, b)
        longer == MergeWithNext(back, b)
        merged == MergeWithPrevious(longer, b)
        group  == IF PreviousFreeBlock(longer, b) = NoBlock THEN b
                  ELSE PreviousFreeBlock(longer, b)
    IN  IF s.span[b] >= BlocksPerChunk THEN FreeChunkGroup(back, b)
        ELSE IF merged.span[group] >= BlocksPerChunk THEN FreeChunkGroup(merged, group)
        ELSE AddToFreeList(merged, group)

-----------------------------------------------------------------------------
(* The allocator and its clients *)

\* aligned_alloc returns any chunks of the address space that are not in use.
\* When there are none it fails, and nothing has changed.
SystemMemory(chunks) ==
    {base \in 0..MaxChunks - chunks :
       \A a \in ToSet(allocations) : base + chunks <= a[1] \/ a[1] + a[2] <= base}

Allocate(n) ==
    LET needed == ChunksNeeded(State, n) IN
    /\ Cardinality(DOMAIN live) < MaxLive
    /\ \E base \in IF needed = 0 THEN {0} ELSE SystemMemory(needed) :
         LET result == AllocateBlocks(State, n, base)
         IN  /\ Become(result.state)
             /\ live' = [b \in DOMAIN live \cup {result.block} |->
                          IF b = result.block THEN n ELSE live[b]]

Deallocate(b) ==
    /\ b \in DOMAIN live
    /\ Become(DeallocateBlock(State, b))
    /\ live' = Restrict(live, DOMAIN live \ {b})

Next ==
    \/ \E n \in Requests : Allocate(n)
    \/ \E b \in Blocks : Deallocate(b)

Spec == Init /\ [][Next]_vars

-----------------------------------------------------------------------------
(* Properties *)

InFreeLists == UNION {ToSet(freeBlocks[x]) : x \in Indices}

\* The heads of all groups, handed out or free.
Groups == DOMAIN live \cup InFreeLists \cup ToSet(freeChunks)

Extent(b) == b..b + span[b] - 1

OwnedChunks == UNION {a[1]..a[1] + a[2] - 1 : a \in ToSet(allocations)}

TypeOK ==
    /\ span \in [Blocks -> 0..MemoryBlocks]
    /\ free \in [Blocks -> BOOLEAN]
    /\ constructed \subseteq Blocks
    /\ \A x \in Indices : freeBlocks[x] \in Seq(Blocks)
    /\ freeChunks \in Seq(Blocks)
    /\ blocksAllocated \in 0..MemoryBlocks
    /\ chunksAllocated \in 0..MaxChunks
    /\ DOMAIN live \subseteq Blocks /\ Range(live) \subseteq Requests

\* Every block of every chunk belongs to exactly one group: no two groups
\* overlap, no block is lost by a split or a merge, and no group reaches out
\* of the chunks it was made of.
GroupsTileChunks ==
    /\ \A g, h \in Groups : g # h => Extent(g) \cap Extent(h) = {}
    /\ \A b \in Blocks : (ChunkOf(b) \in OwnedChunks) <=> \E g \in Groups : b \in Extent(g)

\* Each free group is in exactly one list, once, and in the list its present
\* span belongs to, so that removeFromFreeList finds it; a group of whole
\* chunks is in the list of chunks.
FreeListsMatch ==
    /\ \A x \in Indices : IsInjective(freeBlocks[x])
    /\ IsInjective(freeChunks)
    /\ \A x \in Indices : \A b \in ToSet(freeBlocks[x]) :
         /\ span[b] \in 1..BlocksPerChunk - 1
         /\ PowerOfTwo[x] <= span[b] /\ span[b] < PowerOfTwo[x + 1]
    /\ \A b \in ToSet(freeChunks) :
         b = ChunkBegin(ChunkOf(b)) /\ span[b] >= BlocksPerChunk
    /\ \A b \in Groups : (b \in DOMAIN live) <=> ~free[b]

\* The descriptors from which deallocate() finds the neighbours of a block
\* tell the truth: the head of every group, and the last block of every group
\* within a chunk, hold a descriptor with the span of the group.
BoundaryTagsMatch ==
    \A b \in Groups :
      /\ b \in constructed
      /\ span[b] <= BlocksPerChunk =>
           /\ b + span[b] - 1 \in constructed
           /\ span[b + span[b] - 1] = span[b]

\* Freeing leaves no fragments: no two free groups are neighbours in a chunk,
\* and no two groups of free chunks are neighbours in memory (deallocate and
\* freeChunkGroup merge on both sides).
FreeGroupsAreMerged ==
    /\ \A b, c \in InFreeLists : b + span[b] = c => ChunkOf(b) # ChunkOf(c)
    /\ \A b, c \in ToSet(freeChunks) : ChunkOf(b) + ChunksForBlocks(span[b]) # ChunkOf(c)

\* The counters agree with the memory that clients have and the memory there is.
CountersMatch ==
    /\ blocksAllocated = Cardinality(UNION {Extent(b) : b \in DOMAIN live})
    /\ chunksAllocated = Cardinality(OwnedChunks)

\* A block handed out keeps its place and its length until it is given back,
\* whatever is split and merged around it.
LiveBlocksStay ==
    [][\A b \in DOMAIN live \cap DOMAIN live' : span'[b] = span[b] /\ ~free'[b]]_vars

Extents ==
    INSTANCE BlockExtents
      WITH Slack <- ChunkBlocks - 1,
           extents <- {<<b, span[b], live[b]>> : b \in DOMAIN live}

\* Blocks handed out are disjoint, as long as asked for, and less than a chunk
\* longer (BlockExtents).
ImplementsExtents == Extents!Spec

=============================================================================
