-------------------------- MODULE BlockMemoryProofs --------------------------
(***************************************************************************)
(* Theorems about the layout of chunks, for every size of chunks, blocks   *)
(* and descriptors, and about the memory the heap reserves for its parts.  *)
(***************************************************************************)
EXTENDS BlockMemory, TLAPS

\* Quotient and remainder are determined by their equation.
LEMMA Division ==
    ASSUME NEW a \in Int, NEW b \in Nat \ {0}, NEW q \in Int, NEW r \in 0..b - 1,
           a = b * q + r
    PROVE  a \div b = q /\ a % b = r
OBVIOUS

LEMMA RemainderOfSum ==
    ASSUME NEW c \in Nat, NEW b \in Nat \ {0}, NEW r \in 0..b - 1
    PROVE  (c * b + r) % b = r
<1>1. c * b + r \in Int /\ c * b + r = b * c + r
  OBVIOUS
<1> QED
  BY <1>1, Division

-----------------------------------------------------------------------------
(* The layout of a chunk.  The header takes n blocks, where ChunkBlocks is  *)
(* n * Scale: four in the code.                                             *)

LEMMA SizesAreNat == BlockSize \in Nat \ {0} /\ ChunkSize \in Nat \ {0} /\ ChunkBlocks \in Nat \ {0}
<1>1. BlockSize \in Nat \ {0}
  BY BlockMemoryAssumption DEF BlockSize
<1>2. ChunkBlocks \in Nat \ {0}
  BY BlockMemoryAssumption
<1> QED
  BY <1>1, <1>2 DEF ChunkSize

LEMMA Header ==
    ASSUME NEW n \in 1..Scale, ChunkBlocks = n * Scale
    PROVE  /\ BlocksPerChunk = ChunkBlocks - n
           /\ FirstBlockOffset = n * BlockSize
           /\ FirstBlockDescriptorOffset = n * BlockDescriptorSize
<1> DEFINE D == BlockDescriptorSize
           S == Scale
<1>1. D \in Nat \ {0} /\ S \in Nat \ {0} /\ n \in Nat \ {0} /\ n <= S
  BY BlockMemoryAssumption
<1>2. ChunkSize = (BlockSize + D) * (ChunkBlocks - n) + D * n
  <2>1. ChunkSize = (D * S) * (n * S) /\ BlockSize = D * S
    BY DEF ChunkSize, BlockSize
  <2>2. (D * S + D) * (n * S - n) + D * n = (D * S) * (n * S)
    BY <1>1
  <2> QED
    BY <2>1, <2>2
<1>3. D * n \in 0..BlockSize + D - 1
  <2>1. D * n \in Nat /\ D * n <= D * S
    BY <1>1
  <2> QED
    BY <1>1, <2>1 DEF BlockSize
<1>4. BlocksPerChunk = ChunkBlocks - n
  <2> DEFINE b == BlockSize + D
             q == ChunkBlocks - n
             r == D * n
  <2>1. b \in Nat \ {0} /\ q \in Int /\ ChunkSize \in Int /\ r \in 0..b - 1 /\ ChunkSize = b * q + r
    BY <1>1, <1>2, <1>3, SizesAreNat
  <2>2. BlocksPerChunk = ChunkSize \div b
    BY DEF BlocksPerChunk
  <2> HIDE DEF b, q, r
  <2>3. ChunkSize \div b = q
    BY <2>1, Division
  <2> QED
    BY <2>2, <2>3 DEF q
<1>5. FirstBlockOffset = n * BlockSize
  <2>1. BlockSize * (ChunkBlocks - n) = BlockSize * ChunkBlocks - n * BlockSize
    BY <1>1, SizesAreNat
  <2> QED
    BY <1>1, <1>4, <2>1, SizesAreNat DEF FirstBlockOffset, ChunkSize
<1>6. FirstBlockDescriptorOffset = n * D
  <2>1. n * BlockSize = S * (n * D) + 0
    BY <1>1 DEF BlockSize
  <2>2. n * D \in Int /\ n * BlockSize \in Int /\ 0 \in 0..S - 1
    BY <1>1, SizesAreNat
  <2> QED
    BY <1>1, <1>5, <2>1, <2>2, Division DEF FirstBlockDescriptorOffset, DescriptorFromBlockOffset
<1> QED
  BY <1>4, <1>5, <1>6

\* The descriptors of all blocks of a chunk fit below its first block
\* (FirstBlockOffset and FirstBlockDescriptorOffset): with the sizes of the code
\* they end where the first block begins, with nothing to spare.
THEOREM DescriptorsFit ==
    FirstBlockDescriptorOffset + BlocksPerChunk * BlockDescriptorSize <= FirstBlockOffset
<1>1. PICK n \in 1..Scale : ChunkBlocks = n * Scale
  BY BlockMemoryAssumption
<1>2. /\ BlocksPerChunk = n * Scale - n
      /\ FirstBlockOffset = n * (BlockDescriptorSize * Scale)
      /\ FirstBlockDescriptorOffset = n * BlockDescriptorSize
  BY <1>1, Header DEF BlockSize
<1>3. n * BlockDescriptorSize + (n * Scale - n) * BlockDescriptorSize = n * (BlockDescriptorSize * Scale)
  BY BlockMemoryAssumption
<1>4. n * (BlockDescriptorSize * Scale) \in Int
  BY BlockMemoryAssumption
<1> QED
  BY <1>2, <1>3, <1>4

\* Block::of finds the descriptor that initChunkBlocks made for a block from
\* every address in the block, and blockFromDescriptor finds the block again.
\* That the allocator's model names a block by the number of its descriptor
\* rests on this.
THEOREM BlockOfAddress ==
    ASSUME NEW c \in Nat, NEW k \in 0..BlocksPerChunk - 1, NEW offset \in 0..BlockSize - 1
    PROVE  LET chunk == c * ChunkSize IN
           /\ ChunkAddress(BlockAddress(chunk, k) + offset) = chunk
           /\ DescriptorOf(BlockAddress(chunk, k) + offset) = DescriptorAddress(chunk, k)
           /\ BlockFromDescriptor(DescriptorAddress(chunk, k)) = BlockAddress(chunk, k)
<1> DEFINE D == BlockDescriptorSize
           S == Scale
           B == BlockSize
           chunk == c * ChunkSize
<1>1. PICK n \in 1..Scale : ChunkBlocks = n * Scale
  BY BlockMemoryAssumption
<1> DEFINE m == n + k
<1>2. /\ BlocksPerChunk = ChunkBlocks - n
      /\ FirstBlockOffset = n * B
      /\ FirstBlockDescriptorOffset = n * D
  BY <1>1, Header
<1>3. D \in Nat \ {0} /\ S \in Nat \ {0} /\ B \in Nat \ {0} /\ ChunkSize \in Nat \ {0} /\ ChunkBlocks \in Nat
  BY BlockMemoryAssumption, SizesAreNat
<1>4. m \in 0..ChunkBlocks - 1 /\ k \in Nat /\ n \in Nat
  BY <1>1, <1>2, <1>3
<1>5. chunk \in Nat
  BY <1>3
<1>6. BlockAddress(chunk, k) = chunk + m * B /\ DescriptorAddress(chunk, k) = chunk + m * D
  BY <1>2, <1>3, <1>4, <1>5 DEF BlockAddress, DescriptorAddress
<1>7. m * B \in Nat /\ m * B + offset \in 0..ChunkSize - 1
  <2>1. m * B \in Nat /\ (m + 1) * B <= ChunkBlocks * B
    BY <1>3, <1>4
  <2>2. (m + 1) * B = m * B + B /\ ChunkSize = ChunkBlocks * B
    BY <1>3, <1>4 DEF ChunkSize
  <2> QED
    BY <2>1, <2>2, <1>3
<1>8. m * D \in Nat /\ m * D \in 0..ChunkSize - 1
  <2>1. m * D \in Nat /\ m * D <= m * B
    <3>1. m * B = (m * D) * S /\ m * D \in Nat
      BY <1>3, <1>4 DEF BlockSize
    <3> QED
      BY <3>1, <1>3
  <2> QED
    BY <2>1, <1>7, <1>3
<1>9. /\ (chunk + (m * B + offset)) % ChunkSize = m * B + offset
      /\ (chunk + m * D) % ChunkSize = m * D
  <2> DEFINE x == m * B + offset
             y == m * D
  <2>1. x \in 0..ChunkSize - 1 /\ y \in 0..ChunkSize - 1
    BY <1>7, <1>8
  <2> HIDE DEF x, y
  <2> QED
    BY <2>1, <1>3, RemainderOfSum DEF x, y
<1>10. (m * B + offset) % B = offset
  <2>1. m * B + offset = B * m + offset
    BY <1>3, <1>4
  <2> HIDE DEF m, B
  <2> QED
    BY <2>1, <1>3, <1>4, <1>7, Division DEF B
<1>11. (m * B) \div S = m * D
  <2>1. m * B = S * (m * D) + 0
    BY <1>3, <1>4 DEF BlockSize
  <2> HIDE DEF m, B, D, S
  <2> QED
    BY <2>1, <1>3, <1>7, <1>8, Division
<1>12. (m * D) * S = m * B
  BY <1>3, <1>4 DEF BlockSize
<1> HIDE DEF m, chunk, B, D, S
<1>13. ChunkAddress(chunk + m * B + offset) = chunk /\ ChunkAddress(chunk + m * D) = chunk
  BY <1>5, <1>7, <1>8, <1>9 DEF ChunkAddress
<1>14. DescriptorOf(chunk + m * B + offset) = chunk + m * D
  BY <1>5, <1>7, <1>8, <1>9, <1>10, <1>11, <1>13 DEF DescriptorOf, DescriptorFromBlockOffset, B, S
<1>15. BlockFromDescriptor(chunk + m * D) = chunk + m * B
  BY <1>9, <1>12, <1>13 DEF BlockFromDescriptor, BlockFromDescriptorOffset, S
<1> QED
  BY <1>6, <1>13, <1>14, <1>15 DEF chunk

-----------------------------------------------------------------------------
(* What the heap reserves for its parts *)

LEMMA Aligned ==
    ASSUME NEW x \in Nat, NEW a \in Nat \ {0}
    PROVE  /\ \E q \in Nat : AlignUp(x, a) = q * a
           /\ AlignUp(x, a) \in x..x + a - 1
<1> DEFINE y == x + a - 1
           q == y \div a
           r == y % a
<1>1. y \in Nat
  OBVIOUS
<1>2. q \in Nat /\ y = a * q + r /\ r \in 0..a - 1
  BY <1>1
<1>3. AlignUp(x, a) = q * a
  BY DEF AlignUp
<1> HIDE DEF q, r
<1>4. q * a = x + a - 1 - r
  BY <1>2
<1>5. q * a \in x..x + a - 1
  BY <1>2, <1>4
<1> QED
  BY <1>2, <1>3, <1>5

\* A multiple of the alignment between x and x + a - 1 is what AlignUp gives.
LEMMA AlignedIsUnique ==
    ASSUME NEW x \in Nat, NEW a \in Nat \ {0}, NEW q \in Nat, q * a \in x..x + a - 1
    PROVE  AlignUp(x, a) = q * a
<1> DEFINE r == x + a - 1 - q * a
<1>1. q * a \in Nat /\ r \in 0..a - 1 /\ x + a - 1 = a * q + r /\ x + a - 1 \in Int
  OBVIOUS
<1> HIDE DEF r
<1>2. (x + a - 1) \div a = q
  BY <1>1, Division
<1> QED
  BY <1>2 DEF AlignUp

\* The heap constructs its parts in its block in the order in which it added
\* them to the SizeCalculator: if the block starts at an address with the
\* alignment of a part, and the calculated size fits, Block::construct does not
\* throw, and as much of the block is used as was calculated.
THEOREM ConstructAgreesWithCalculator ==
    ASSUME NEW start \in Nat, NEW free \in Nat, NEW span \in Nat, free >= start,
           NEW a \in Nat \ {0}, NEW n \in Nat, start = n * a, NEW size \in Nat,
           LET block == [start |-> start, free |-> free, span |-> span]
           IN  AddSize(BytesAllocated(block), a, size) <= Capacity(block)
    PROVE  LET block  == [start |-> start, free |-> free, span |-> span]
               result == AllocateAligned(block, size, a)
           IN  /\ result.ptr # Nullptr /\ result.ptr >= free
               /\ \E q \in Nat : result.ptr = q * a
               /\ BytesAllocated(result.block) = AddSize(BytesAllocated(block), a, size)
<1> DEFINE block == [start |-> start, free |-> free, span |-> span]
           used == free - start
           ptr == AlignUp(free, a)
<1>1. used \in Nat /\ BytesAllocated(block) = used
  BY DEF BytesAllocated
<1>2. PICK q \in Nat : AlignUp(used, a) = q * a /\ q * a \in used..used + a - 1
  <2> HIDE DEF used
  <2>1. (\E q \in Nat : AlignUp(used, a) = q * a) /\ AlignUp(used, a) \in used..used + a - 1
    BY <1>1, Aligned
  <2> QED
    BY <2>1
<1>3. ptr = start + AlignUp(used, a) /\ ptr = (n + q) * a
  <2>1. (n + q) * a = n * a + q * a /\ n + q \in Nat
    BY <1>2
  <2>2. (n + q) * a \in free..free + a - 1
    BY <1>2, <2>1
  <2>3. ptr = (n + q) * a
    BY <2>1, <2>2, AlignedIsUnique
  <2> QED
    BY <1>2, <2>1, <2>3
<1>4. AlignUp(used, a) \in Nat /\ AlignUp(used, a) >= used
  BY <1>1, <1>2
<1>5. used = BytesAllocated(block) /\ Capacity(block) = span * BlockSize /\ span * BlockSize \in Nat
  BY <1>1, SizesAreNat DEF Capacity
<1>6. ptr + size <= EndOf(block)
  <2>1. AlignUp(used, a) + size <= span * BlockSize
    BY <1>5 DEF AddSize
  <2> HIDE DEF used, ptr
  <2> QED
    BY <1>3, <1>4, <1>5, <2>1 DEF EndOf
<1>7. AllocateAligned(block, size, a) = [ptr |-> ptr, block |-> [block EXCEPT !.free = ptr + size]]
  <2>1. block.free = free
    OBVIOUS
  <2>2. ~(ptr + size > EndOf(block))
    <3>1. EndOf(block) = start + span * BlockSize /\ ptr \in Int
      BY <1>3, <1>4, <1>5 DEF EndOf
    <3> HIDE DEF ptr, block
    <3> QED
      BY <1>5, <1>6, <3>1
  <2> QED
    BY <2>1, <2>2 DEF AllocateAligned
<1>8. BytesAllocated([block EXCEPT !.free = ptr + size]) = ptr + size - start
  <2>0. ptr \in Int
    BY <1>3, <1>4
  <2> HIDE DEF ptr
  <2>1. [block EXCEPT !.free = ptr + size] = [start |-> start, free |-> ptr + size, span |-> span]
    OBVIOUS
  <2>2. BytesAllocated([start |-> start, free |-> ptr + size, span |-> span]) = ptr + size - start
    BY <2>0 DEF BytesAllocated
  <2> QED
    BY <2>1, <2>2
<1>9. ptr >= free /\ ptr # Nullptr
  BY <1>3, <1>4 DEF Nullptr
<1>10. n + q \in Nat
  OBVIOUS
<1> HIDE DEF ptr, used
<1>11. ptr + size - start = AddSize(used, a, size)
  BY <1>3, <1>4 DEF AddSize
<1> QED
  BY <1>1, <1>3, <1>7, <1>8, <1>9, <1>10, <1>11

\* Objects of one type that are constructed one after the other, as generations
\* and frames are, follow each other without gaps: the next one is at the index
\* the heap uses for it (the check in Heap::newFrame), and the calculation for
\* all of them at once is the one for each of them in turn.
THEOREM ArraysHaveNoGaps ==
    ASSUME NEW used \in Nat, NEW a \in Nat \ {0}, NEW m \in Nat, NEW count \in Nat
    PROVE  LET size == m * a IN
           /\ AlignUp(AddSize(used, a, count * size), a) = AddSize(used, a, count * size)
           /\ AddSize(AddSize(used, a, count * size), a, size) = AddSize(used, a, (count + 1) * size)
<1> DEFINE size == m * a
           end == AddSize(used, a, count * size)
<1>1. PICK q \in Nat : AlignUp(used, a) = q * a
  BY Aligned
<1>2. count * size = (count * m) * a /\ count * m \in Nat
  OBVIOUS
<1>3. end = (q + count * m) * a /\ q + count * m \in Nat /\ end \in Nat
  BY <1>1, <1>2 DEF AddSize
<1>4. AlignUp(end, a) = end
  <2> HIDE DEF end
  <2>1. (q + count * m) * a \in end..end + a - 1
    BY <1>3
  <2> QED
    BY <1>3, <2>1, AlignedIsUnique
<1>5. end + size = AddSize(used, a, (count + 1) * size)
  <2>1. (count + 1) * size = count * size + size /\ count * size \in Nat /\ size \in Nat /\ q * a \in Nat
    BY <1>2
  <2> HIDE DEF size
  <2> QED
    BY <1>1, <2>1 DEF AddSize
<1> QED
  BY <1>4, <1>5 DEF AddSize

=============================================================================
