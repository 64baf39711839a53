----------------------------- MODULE BlockMemory -----------------------------
(***************************************************************************)
(* Blocks of memory: where a chunk has its blocks and their descriptors,   *)
(* how a block hands out its bytes, and the calculation of sizes the heap  *)
(* makes before it places its parts in one block.                          *)
(*                                                                         *)
(*   source                              here                              *)
(*   Block: start_, free_, span_         start, free, span                 *)
(*   x & ChunkMask, x & ~ChunkMask       x % ChunkSize, x - (x % ChunkSize)*)
(*   shifts by BlockBits -               \div Scale, * Scale               *)
(*     BlockDescriptorBits                                                 *)
(*                                                                         *)
(* Addresses are numbers.                                                  *)
(***************************************************************************)
EXTENDS Integers

CONSTANTS
    BlockDescriptorSize,    \* 2^6
    Scale,                  \* BlockSize / BlockDescriptorSize: 2^6
    ChunkBlocks             \* ChunkSize / BlockSize: 2^8

\* A chunk of the code has four times as many blocks as Scale.
ASSUME BlockMemoryAssumption ==
    /\ BlockDescriptorSize \in Nat \ {0} /\ Scale \in Nat \ {0}
    /\ \E n \in 1..Scale : ChunkBlocks = n * Scale

BlockSize == BlockDescriptorSize * Scale

ChunkSize == BlockSize * ChunkBlocks

Nullptr == -1

\* boost::alignment::align_up
AlignUp(x, alignment) == ((x + alignment - 1) \div alignment) * alignment

BlocksForBytes(size) == AlignUp(size, BlockSize) \div BlockSize

-----------------------------------------------------------------------------
(* The layout of a chunk: descriptors, then blocks *)

BlocksPerChunk == ChunkSize \div (BlockSize + BlockDescriptorSize)

FirstBlockOffset == ChunkSize - BlockSize * BlocksPerChunk

DescriptorFromBlockOffset(offset) == offset \div Scale

BlockFromDescriptorOffset(offset) == offset * Scale

FirstBlockDescriptorOffset == DescriptorFromBlockOffset(FirstBlockOffset)

ChunkAddress(ptr) == ptr - (ptr % ChunkSize)

\* Block::of: the address of the descriptor of the block an address is in.
DescriptorOf(ptr) ==
    LET offset == ptr % ChunkSize
    IN  ChunkAddress(ptr) + DescriptorFromBlockOffset(offset - (offset % BlockSize))

BlockFromDescriptor(descr) == ChunkAddress(descr) + BlockFromDescriptorOffset(descr % ChunkSize)

\* What initChunkBlocks constructs for block k of a chunk.
DescriptorAddress(chunk, k) == chunk + FirstBlockDescriptorOffset + k * BlockDescriptorSize

BlockAddress(chunk, k) == chunk + FirstBlockOffset + k * BlockSize

-----------------------------------------------------------------------------
(* Memory in a block *)

Capacity(block) == block.span * BlockSize

EndOf(block) == block.start + Capacity(block)

BytesAllocated(block) == block.free - block.start

BytesAvailable(block) == EndOf(block) - block.free

\* Both ways to allocate give an address, or Nullptr, and the block after it.
AllocateBytes(block, size) ==
    IF block.free + size > EndOf(block) THEN [ptr |-> Nullptr, block |-> block]
    ELSE [ptr |-> block.free, block |-> [block EXCEPT !.free = @ + size]]

AllocateAligned(block, size, alignment) ==
    LET ptr == AlignUp(block.free, alignment) IN
    IF ptr + size > EndOf(block) THEN [ptr |-> Nullptr, block |-> block]
    ELSE [ptr |-> ptr, block |-> [block EXCEPT !.free = ptr + size]]

DeallocateBytes(block, size) == [block EXCEPT !.free = @ - size]

\* A block comes from its allocator empty.
Released(start, span) == [start |-> start, free |-> start, span |-> span]

-----------------------------------------------------------------------------
(* SizeCalculator *)

\* add<T>(count), on what there is so far
AddSize(size, alignment, bytes) == AlignUp(size, alignment) + bytes

=============================================================================
