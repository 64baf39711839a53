-------------------------- MODULE BlockedVectorProofs --------------------------
(***************************************************************************)
(* Proofs about BlockedVector, for every size of blocks and of values.     *)
(*                                                                         *)
(* The proofs have four layers: what is done to the bytes of one block;    *)
(* how many values the blocks up to one have, which indices are counted    *)
(* by; the calls, which change one block of the list; and the loops, where *)
(* the iterator is after so many steps.                                    *)
(***************************************************************************)
EXTENDS BlockedVector, InductionTheorems, SequenceTheorems

-----------------------------------------------------------------------------
(* Multiples of the size of a value *)

LEMMA Sizes == ValueSize \in Nat \ {0} /\ BlockSize \in Nat \ {0} /\ ValueSize <= BlockSize
<1>1. BlockSize \in Nat \ {0}
  BY BlockMemoryAssumption DEF BlockSize
<1> QED
  BY <1>1, VectorAssumption

LEMMA Multiples ==
    ASSUME NEW j \in Int, NEW k \in Int
    PROVE  /\ j * ValueSize \in Int /\ (k * ValueSize) \div ValueSize = k
           /\ (k * ValueSize) % ValueSize = 0
           /\ (k + 1) * ValueSize = k * ValueSize + ValueSize
           /\ (k - 1) * ValueSize = k * ValueSize - ValueSize
           /\ j < k => j * ValueSize + ValueSize <= k * ValueSize
           /\ j * ValueSize < k * ValueSize => j < k
<1> DEFINE V == ValueSize
<1>1. V \in Nat \ {0}
  BY Sizes
<1> HIDE DEF V
<1>2. (k * V) \div V = k /\ (k * V) % V = 0
  BY <1>1
<1>3. (k + 1) * V = k * V + V /\ (k - 1) * V = k * V - V /\ j * V \in Int
  BY <1>1
<1>4. j < k => j * V + V <= k * V
  <2>1. j < k => (k - (j + 1)) * V >= 0
    BY <1>1
  <2>2. (k - (j + 1)) * V = k * V - (j * V + V)
    BY <1>1
  <2>3. k * V \in Int /\ j * V \in Int
    BY <1>1
  <2> QED
    BY <1>1, <2>1, <2>2, <2>3
<1>5. j * V < k * V => j < k
  <2>1. j >= k => (j - k) * V >= 0
    BY <1>1
  <2>2. (j - k) * V = j * V - k * V
    BY <1>1
  <2>3. k * V \in Int /\ j * V \in Int
    BY <1>1
  <2> QED
    BY <1>1, <2>1, <2>2, <2>3
<1> QED
  BY <1>2, <1>3, <1>4, <1>5 DEF V

LEMMA MultipleIsNat ==
    ASSUME NEW j \in Nat
    PROVE  j * ValueSize \in Nat
BY Sizes

LEMMA IsMultiple ==
    ASSUME NEW x \in Nat
    PROVE  /\ x \div ValueSize \in Nat /\ x % ValueSize \in 0..ValueSize - 1
           /\ x = (x \div ValueSize) * ValueSize + (x % ValueSize)
BY Sizes

-----------------------------------------------------------------------------
(* A block *)

\* The value with an index in a block.
ValueOf(block, i) == block.memory[Data(block, i)]

\* The bytes up to the free pointer are those of values, and the others are dead.
IsFilled(block) ==
    \E k \in Nat :
      /\ block.free = k * ValueSize
      /\ \A i \in 0..k - 1 : block.memory[i * ValueSize] \in Values
      /\ \A x \in 0..BlockSize - 1 :
           ~(\E i \in 0..k - 1 : x = i * ValueSize) => block.memory[x] = Dead

BlockSet ==
    {block \in [start : {0}, free : 0..BlockSize, span : {1},
                memory : [0..BlockSize - 1 -> Values \cup {Dead}]] : IsFilled(block)}

LEMMA BlockFacts ==
    ASSUME NEW block \in BlockSet
    PROVE  /\ SizeOf(block) \in Nat /\ block.start = 0 /\ EndOf(block) = BlockSize
           /\ block.free = SizeOf(block) * ValueSize /\ block.free \in 0..BlockSize
           /\ IsEmpty(block) <=> SizeOf(block) = 0
           /\ \A i \in 0..SizeOf(block) - 1 :
                /\ Data(block, i) = i * ValueSize /\ Data(block, i) \in 0..BlockSize - 1
                /\ Data(block, i) + ValueSize <= block.free
                /\ ValueOf(block, i) \in Values
           /\ \A x \in 0..BlockSize - 1 :
                ~(\E i \in 0..SizeOf(block) - 1 : x = i * ValueSize) => block.memory[x] = Dead
           /\ block = [start |-> 0, free |-> block.free, span |-> 1, memory |-> block.memory]
           /\ block.memory \in [0..BlockSize - 1 -> Values \cup {Dead}]
<1>1. /\ block.start = 0 /\ block.free \in 0..BlockSize /\ block.span = 1
      /\ block.memory \in [0..BlockSize - 1 -> Values \cup {Dead}]
      /\ block = [start |-> 0, free |-> block.free, span |-> 1, memory |-> block.memory]
  BY DEF BlockSet
<1>2. PICK k \in Nat :
        /\ block.free = k * ValueSize
        /\ \A i \in 0..k - 1 : block.memory[i * ValueSize] \in Values
        /\ \A x \in 0..BlockSize - 1 :
             ~(\E i \in 0..k - 1 : x = i * ValueSize) => block.memory[x] = Dead
  BY DEF BlockSet, IsFilled
<1>3. SizeOf(block) = k
  <2>1. block.free - block.start = k * ValueSize
    BY <1>1, <1>2, Sizes
  <2> QED
    BY <1>2, <2>1, Multiples DEF SizeOf, BytesAllocated
<1>4. EndOf(block) = BlockSize
  BY <1>1, Sizes DEF EndOf, Capacity
<1>5. IsEmpty(block) <=> k = 0
  <2>1. k * ValueSize = 0 <=> k = 0
    BY <1>2, Sizes
  <2> QED
    BY <1>1, <1>2, <2>1 DEF IsEmpty
<1>6. ASSUME NEW i \in 0..k - 1
      PROVE  /\ Data(block, i) = i * ValueSize /\ Data(block, i) \in 0..BlockSize - 1
             /\ Data(block, i) + ValueSize <= block.free
             /\ ValueOf(block, i) \in Values
  <2>1. i \in Int /\ i >= 0 /\ i < k
    OBVIOUS
  <2>6. i \in Nat /\ k \in Int
    BY <2>1
  <2>7. i * ValueSize \in Nat
    BY <2>6, MultipleIsNat
  <2>8. i * ValueSize + ValueSize <= k * ValueSize
    BY <2>1, <2>6, Multiples
  <2>2. i * ValueSize \in Int /\ i * ValueSize >= 0 /\ i * ValueSize + ValueSize <= k * ValueSize
    BY <2>7, <2>8
  <2>3. Data(block, i) = i * ValueSize
    BY <1>1, <2>2 DEF Data
  <2>4. block.memory[i * ValueSize] \in Values
    BY <1>2
  <2>5. ValueOf(block, i) \in Values
    BY <2>3, <2>4 DEF ValueOf
  <2> QED
    BY <1>1, <1>2, <2>2, <2>3, <2>5, Sizes
<1> QED
  BY <1>1, <1>2, <1>3, <1>4, <1>5, <1>6

\* A block that is as many values long as it says.
LEMMA MakeBlock ==
    ASSUME NEW free, NEW memory \in [0..BlockSize - 1 -> Values \cup {Dead}], NEW k \in Nat,
           free = k * ValueSize, free \in 0..BlockSize,
           \A i \in 0..k - 1 : memory[i * ValueSize] \in Values,
           \A x \in 0..BlockSize - 1 :
             ~(\E i \in 0..k - 1 : x = i * ValueSize) => memory[x] = Dead
    PROVE  LET block == [start |-> 0, free |-> free, span |-> 1, memory |-> memory]
           IN  block \in BlockSet /\ SizeOf(block) = k
<1> DEFINE block == [start |-> 0, free |-> free, span |-> 1, memory |-> memory]
<1>1. /\ block.start = 0 /\ block.free = free /\ block.memory = memory
      /\ block \in [start : {0}, free : 0..BlockSize, span : {1},
                    memory : [0..BlockSize - 1 -> Values \cup {Dead}]]
  OBVIOUS
<1> HIDE DEF block
<1>2. IsFilled(block)
  BY <1>1 DEF IsFilled
<1>3. SizeOf(block) = k
  <2>1. block.free - block.start = k * ValueSize
    BY <1>1, Sizes
  <2> QED
    BY <2>1, Multiples DEF SizeOf, BytesAllocated
<1>4. block \in BlockSet
  BY <1>1, <1>2 DEF BlockSet
<1> QED
  BY <1>3, <1>4 DEF block

LEMMA NewBlockFacts ==
    NewBlock \in BlockSet /\ SizeOf(NewBlock) = 0 /\ HasRoom(NewBlock)
<1> DEFINE memory == [ptr \in 0..BlockSize - 1 |-> Dead]
<1>1. NewBlock = [start |-> 0, free |-> 0, span |-> 1, memory |-> memory]
  BY DEF NewBlock, Released
<1>2. /\ memory \in [0..BlockSize - 1 -> Values \cup {Dead}]
      /\ \A x \in 0..BlockSize - 1 : memory[x] = Dead
  OBVIOUS
<1>3. 0 = 0 * ValueSize /\ 0 \in 0..BlockSize
  BY Sizes
<1> HIDE DEF memory
<1>4. NewBlock \in BlockSet /\ SizeOf(NewBlock) = 0
  <2> DEFINE free == 0
  <2>1. 0 \in Nat /\ free = 0 * ValueSize /\ free \in 0..BlockSize /\ 0..0 - 1 = {}
    BY <1>3
  <2> HIDE DEF free
  <2>2. LET block == [start |-> 0, free |-> free, span |-> 1, memory |-> memory]
        IN  block \in BlockSet /\ SizeOf(block) = 0
    BY <1>2, <2>1, MakeBlock
  <2> QED
    BY <1>1, <2>2 DEF free
<1>5. HasRoom(NewBlock)
  BY <1>1, Sizes DEF HasRoom, BytesAvailable, EndOf, Capacity
<1> QED
  BY <1>4, <1>5

\* What Write does to the bytes of a value.
LEMMA WriteFacts ==
    ASSUME NEW block \in BlockSet, NEW j \in Nat, NEW ptr, ptr = j * ValueSize,
           ptr + ValueSize <= BlockSize, NEW v \in Values \cup {Dead},
           NEW r, r = Write(block, ptr, v)
    PROVE  /\ r = [start |-> 0, free |-> block.free, span |-> 1, memory |-> r.memory]
           /\ r.memory \in [0..BlockSize - 1 -> Values \cup {Dead}]
           /\ ptr \in 0..BlockSize - 1 /\ r.memory[ptr] = v
           /\ \A i \in Nat : i # j /\ i * ValueSize < BlockSize =>
                r.memory[i * ValueSize] = block.memory[i * ValueSize]
           /\ \A x \in 0..BlockSize - 1 :
                x # ptr => r.memory[x] = Dead \/ r.memory[x] = block.memory[x]
<1> DEFINE new == [x \in DOMAIN block.memory |->
                     IF x = ptr THEN v
                     ELSE IF x \in ptr + 1..ptr + ValueSize - 1 THEN Dead ELSE block.memory[x]]
<1>1. /\ block = [start |-> 0, free |-> block.free, span |-> 1, memory |-> block.memory]
      /\ block.memory \in [0..BlockSize - 1 -> Values \cup {Dead}]
  BY BlockFacts
<1>2. r = [block EXCEPT !.memory = new]
  BY DEF Write
<1>3. r = [start |-> 0, free |-> block.free, span |-> 1, memory |-> new]
  <2> HIDE DEF new
  <2> QED
    BY <1>1, <1>2
<1>4. r.memory = new
  BY <1>3
<1>5. new = [x \in 0..BlockSize - 1 |->
               IF x = ptr THEN v
               ELSE IF x \in ptr + 1..ptr + ValueSize - 1 THEN Dead ELSE block.memory[x]]
  BY <1>1
<1>6. ptr \in 0..BlockSize - 1
  <2>1. ptr \in Int /\ ptr >= 0
    BY MultipleIsNat
  <2> QED
    BY <2>1, Sizes
<1> HIDE DEF new
<1>7. new \in [0..BlockSize - 1 -> Values \cup {Dead}]
  BY <1>1, <1>5
<1>8. new[ptr] = v /\ \A x \in 0..BlockSize - 1 : x # ptr => new[x] = Dead \/ new[x] = block.memory[x]
  BY <1>5, <1>6
<1>9. ASSUME NEW i \in Nat, i # j, i * ValueSize < BlockSize
      PROVE  new[i * ValueSize] = block.memory[i * ValueSize]
  <2> DEFINE x == i * ValueSize
  <2>1. x \in Int /\ x >= 0 /\ ptr \in Int
    BY <1>6, MultipleIsNat
  <2>2. i < j => x + ValueSize <= ptr
    BY Multiples
  <2>3. j < i => ptr + ValueSize <= x
    BY Multiples
  <2>4. x < BlockSize
    BY <1>9
  <2> HIDE DEF x
  <2>5. x + ValueSize <= ptr \/ ptr + ValueSize <= x
    BY <1>9, <2>2, <2>3
  <2>6. x \in 0..BlockSize - 1 /\ x # ptr /\ ~(x \in ptr + 1..ptr + ValueSize - 1)
    BY <2>1, <2>4, <2>5, Sizes
  <2>7. new[x] = block.memory[x]
    BY <1>5, <2>6
  <2> QED
    BY <2>7 DEF x
<1> QED
  BY <1>3, <1>4, <1>6, <1>7, <1>8, <1>9

\* Two blocks hold the same values up to one of them.
SameUpTo(block, r, n) == \A i \in 0..n - 1 : ValueOf(r, i) = ValueOf(block, i)

\* A value is written at the free pointer.
Pushed(block, v) ==
    LET allocated == AllocateBytes(block, ValueSize) IN Write(allocated.block, allocated.ptr, v)

LEMMA PushedFacts ==
    ASSUME NEW block \in BlockSet, HasRoom(block), NEW v \in Values,
           NEW r, r = Pushed(block, v), NEW k, k = SizeOf(block)
    PROVE  r \in BlockSet /\ SizeOf(r) = k + 1 /\ SameUpTo(block, r, k) /\ ValueOf(r, k) = v
<1> DEFINE next == [block EXCEPT !.free = @ + ValueSize]
           ptr == block.free
<1>1. /\ k \in Nat /\ block.start = 0 /\ EndOf(block) = BlockSize
      /\ ptr = k * ValueSize /\ ptr \in 0..BlockSize
      /\ \A i \in 0..k - 1 : Data(block, i) = i * ValueSize /\ ValueOf(block, i) \in Values
                             /\ Data(block, i) \in 0..BlockSize - 1
      /\ \A x \in 0..BlockSize - 1 :
           ~(\E i \in 0..k - 1 : x = i * ValueSize) => block.memory[x] = Dead
      /\ block = [start |-> 0, free |-> ptr, span |-> 1, memory |-> block.memory]
      /\ block.memory \in [0..BlockSize - 1 -> Values \cup {Dead}]
  BY BlockFacts
<1>2. ptr + ValueSize <= BlockSize
  BY <1>1, Sizes DEF HasRoom, BytesAvailable
<1> HIDE DEF ptr
<1>3. Pushed(block, v) = Write(next, ptr, v)
  <2>1. ~(block.free + ValueSize > EndOf(block))
    BY <1>1, <1>2, Sizes DEF ptr
  <2> QED
    BY <2>1 DEF Pushed, AllocateBytes, ptr
<1> DEFINE w == Write(block, ptr, v)
<1>4. r = [start |-> 0, free |-> ptr + ValueSize, span |-> 1, memory |-> w.memory]
  <2> DEFINE new == [x \in DOMAIN block.memory |->
                       IF x = ptr THEN v
                       ELSE IF x \in ptr + 1..ptr + ValueSize - 1 THEN Dead ELSE block.memory[x]]
  <2>1. next = [start |-> 0, free |-> ptr + ValueSize, span |-> 1, memory |-> block.memory]
    BY <1>1 DEF ptr
  <2>2. next.memory = block.memory
    BY <2>1
  <2>3. Write(next, ptr, v) = [next EXCEPT !.memory = new]
    BY <2>2 DEF Write
  <2>4. w = [block EXCEPT !.memory = new]
    BY DEF Write
  <2> HIDE DEF new, next, w
  <2>5. w.memory = new
    BY <1>1, <2>4
  <2> QED
    BY <1>3, <2>1, <2>3, <2>5
<1> HIDE DEF next
<1>5. /\ w.memory \in [0..BlockSize - 1 -> Values \cup {Dead}]
      /\ ptr \in 0..BlockSize - 1 /\ w.memory[ptr] = v
      /\ \A i \in Nat : i # k /\ i * ValueSize < BlockSize =>
           w.memory[i * ValueSize] = block.memory[i * ValueSize]
      /\ \A x \in 0..BlockSize - 1 :
           x # ptr => w.memory[x] = Dead \/ w.memory[x] = block.memory[x]
  <2> HIDE DEF w
  <2>1. w = Write(block, ptr, v)
    BY DEF w
  <2> QED
    BY <1>1, <1>2, <2>1, WriteFacts
<1> HIDE DEF w
<1> DEFINE memory == w.memory
<1> HIDE DEF memory
<1>6. \A i \in 0..k - 1 : memory[i * ValueSize] = block.memory[i * ValueSize] /\ memory[i * ValueSize] \in Values
  <2> SUFFICES ASSUME NEW i \in 0..k - 1
               PROVE  memory[i * ValueSize] = block.memory[i * ValueSize] /\ memory[i * ValueSize] \in Values
    OBVIOUS
  <2>4. i * ValueSize \in 0..BlockSize - 1
    BY <1>1
  <2>1. i \in Nat /\ i # k /\ i * ValueSize < BlockSize
    BY <1>1, <2>4, Sizes
  <2>2. memory[i * ValueSize] = block.memory[i * ValueSize]
    BY <1>5, <2>1 DEF memory
  <2>3. block.memory[i * ValueSize] \in Values
    BY <1>1 DEF ValueOf
  <2> QED
    BY <2>2, <2>3
<1>7. memory[k * ValueSize] = v
  BY <1>1, <1>5 DEF memory
<1>8. \A i \in 0..(k + 1) - 1 : memory[i * ValueSize] \in Values
  <2>1. \A i \in 0..(k + 1) - 1 : i = k \/ i \in 0..k - 1
    BY <1>1
  <2> QED
    BY <1>6, <1>7, <2>1
<1>9. \A x \in 0..BlockSize - 1 :
        ~(\E i \in 0..(k + 1) - 1 : x = i * ValueSize) => memory[x] = Dead
  <2> SUFFICES ASSUME NEW x \in 0..BlockSize - 1, ~(\E i \in 0..(k + 1) - 1 : x = i * ValueSize)
               PROVE  memory[x] = Dead
    OBVIOUS
  <2>1. k \in 0..(k + 1) - 1 /\ \A i \in 0..k - 1 : i \in 0..(k + 1) - 1
    BY <1>1
  <2>2. x # ptr /\ ~(\E i \in 0..k - 1 : x = i * ValueSize)
    BY <1>1, <2>1
  <2> QED
    BY <1>1, <1>5, <2>2 DEF memory
<1>10. ptr + ValueSize = (k + 1) * ValueSize /\ ptr + ValueSize \in 0..BlockSize /\ k + 1 \in Nat
  <2>1. k \in Int /\ k + 1 \in Nat
    BY <1>1
  <2>2. (k + 1) * ValueSize = k * ValueSize + ValueSize
    BY <2>1, Multiples
  <2>3. ptr + ValueSize \in 0..BlockSize
    BY <1>1, <1>2, Sizes
  <2> QED
    BY <1>1, <2>1, <2>2, <2>3
<1>11. r \in BlockSet /\ SizeOf(r) = k + 1
  <2> DEFINE free == ptr + ValueSize
             n == k + 1
  <2>1. /\ free = n * ValueSize /\ free \in 0..BlockSize /\ n \in Nat
        /\ memory \in [0..BlockSize - 1 -> Values \cup {Dead}]
        /\ \A i \in 0..n - 1 : memory[i * ValueSize] \in Values
        /\ \A x \in 0..BlockSize - 1 :
             ~(\E i \in 0..n - 1 : x = i * ValueSize) => memory[x] = Dead
        /\ r = [start |-> 0, free |-> free, span |-> 1, memory |-> memory]
    BY <1>4, <1>5, <1>8, <1>9, <1>10 DEF memory
  <2> HIDE DEF free, n
  <2>2. LET b == [start |-> 0, free |-> free, span |-> 1, memory |-> memory]
        IN  b \in BlockSet /\ SizeOf(b) = n
    BY <2>1, MakeBlock
  <2> QED
    BY <2>1, <2>2 DEF n
<1>12. r.memory = memory /\ r.start = 0
  BY <1>4 DEF memory
<1>13. \A i \in 0..k : Data(r, i) = i * ValueSize
  BY <1>1, <1>12, MultipleIsNat DEF Data
<1>14. SameUpTo(block, r, k) /\ ValueOf(r, k) = v
  BY <1>1, <1>6, <1>7, <1>12, <1>13 DEF SameUpTo, ValueOf
<1> QED
  BY <1>11, <1>14

LEMMA PoppedFacts ==
    ASSUME NEW block \in BlockSet, ~IsEmpty(block), NEW r, r = Popped(block),
           NEW k, k = SizeOf(block)
    PROVE  k \in Nat \ {0} /\ r \in BlockSet /\ SizeOf(r) = k - 1 /\ SameUpTo(block, r, k - 1)
<1> DEFINE ptr == block.free - ValueSize
           w == Write(block, ptr, Dead)
<1>1. /\ k \in Nat \ {0} /\ block.start = 0
      /\ block.free = k * ValueSize /\ block.free \in 0..BlockSize
      /\ \A i \in 0..k - 1 : Data(block, i) = i * ValueSize /\ ValueOf(block, i) \in Values
                             /\ Data(block, i) \in 0..BlockSize - 1
      /\ \A x \in 0..BlockSize - 1 :
           ~(\E i \in 0..k - 1 : x = i * ValueSize) => block.memory[x] = Dead
  BY BlockFacts
<1>2. k - 1 \in Nat /\ ptr = (k - 1) * ValueSize /\ ptr + ValueSize <= BlockSize
  <2>1. k \in Int
    BY <1>1
  <2>2. (k - 1) * ValueSize = k * ValueSize - ValueSize
    BY <2>1, Multiples
  <2> QED
    BY <1>1, <2>2, Sizes
<1> HIDE DEF ptr
<1>3. /\ w = [start |-> 0, free |-> block.free, span |-> 1, memory |-> w.memory]
      /\ w.memory \in [0..BlockSize - 1 -> Values \cup {Dead}]
      /\ ptr \in 0..BlockSize - 1 /\ w.memory[ptr] = Dead
      /\ \A i \in Nat : i # k - 1 /\ i * ValueSize < BlockSize =>
           w.memory[i * ValueSize] = block.memory[i * ValueSize]
      /\ \A x \in 0..BlockSize - 1 :
           x # ptr => w.memory[x] = Dead \/ w.memory[x] = block.memory[x]
  <2> HIDE DEF w
  <2>1. w = Write(block, ptr, Dead)
    BY DEF w
  <2> QED
    BY <1>2, <2>1, WriteFacts
<1>4. r = [start |-> 0, free |-> ptr, span |-> 1, memory |-> w.memory]
  <2>1. r = [w EXCEPT !.free = @ - ValueSize]
    BY DEF Popped, DeallocateBytes, ptr
  <2> HIDE DEF w
  <2> QED
    BY <1>3, <2>1 DEF ptr
<1> HIDE DEF w
<1> DEFINE memory == w.memory
           n == k - 1
<1> HIDE DEF memory
<1>5. \A i \in 0..n - 1 : memory[i * ValueSize] = block.memory[i * ValueSize] /\ memory[i * ValueSize] \in Values
  <2> SUFFICES ASSUME NEW i \in 0..n - 1
               PROVE  memory[i * ValueSize] = block.memory[i * ValueSize] /\ memory[i * ValueSize] \in Values
    OBVIOUS
  <2>1. i \in 0..k - 1 /\ i \in Nat /\ i # k - 1
    BY <1>1
  <2>2. i * ValueSize \in 0..BlockSize - 1
    BY <1>1, <2>1
  <2>3. memory[i * ValueSize] = block.memory[i * ValueSize]
    BY <1>3, <2>1, <2>2, Sizes DEF memory
  <2>4. block.memory[i * ValueSize] \in Values
    BY <1>1, <2>1 DEF ValueOf
  <2> QED
    BY <2>3, <2>4
<1>6. \A x \in 0..BlockSize - 1 :
        ~(\E i \in 0..n - 1 : x = i * ValueSize) => memory[x] = Dead
  <2> SUFFICES ASSUME NEW x \in 0..BlockSize - 1, ~(\E i \in 0..n - 1 : x = i * ValueSize)
               PROVE  memory[x] = Dead
    OBVIOUS
  <2>1. \A i \in 0..k - 1 : i \in 0..n - 1 \/ i = k - 1
    BY <1>1
  <2>2. CASE x = ptr
    BY <1>3, <2>2 DEF memory
  <2>3. CASE x # ptr
    <3>1. ~(\E i \in 0..k - 1 : x = i * ValueSize)
      BY <1>2, <2>1, <2>3
    <3> QED
      BY <1>1, <1>3, <2>3, <3>1 DEF memory
  <2> QED
    BY <2>2, <2>3
<1>7. r \in BlockSet /\ SizeOf(r) = n
  <2>1. /\ ptr = n * ValueSize /\ ptr \in 0..BlockSize /\ n \in Nat
        /\ memory \in [0..BlockSize - 1 -> Values \cup {Dead}]
        /\ r = [start |-> 0, free |-> ptr, span |-> 1, memory |-> memory]
    BY <1>2, <1>3, <1>4, Sizes DEF memory
  <2> HIDE DEF n
  <2>2. LET b == [start |-> 0, free |-> ptr, span |-> 1, memory |-> memory]
        IN  b \in BlockSet /\ SizeOf(b) = n
    BY <1>5, <1>6, <2>1, MakeBlock
  <2> QED
    BY <2>1, <2>2
<1>8. r.memory = memory /\ r.start = 0
  BY <1>4 DEF memory
<1>9. SameUpTo(block, r, n)
  <2> SUFFICES ASSUME NEW i \in 0..n - 1 PROVE ValueOf(r, i) = ValueOf(block, i)
    BY DEF SameUpTo
  <2>1. i \in 0..k - 1 /\ i \in Nat
    BY <1>1
  <2>2. Data(r, i) = i * ValueSize /\ Data(block, i) = i * ValueSize
    BY <1>1, <1>8, <2>1, MultipleIsNat DEF Data
  <2> QED
    BY <1>5, <1>8, <2>2 DEF ValueOf
<1> QED
  BY <1>1, <1>7, <1>9

\* Assignment to a value that is there.
LEMMA AssignedFacts ==
    ASSUME NEW block \in BlockSet, NEW k, k = SizeOf(block), NEW j \in 0..k - 1,
           NEW v \in Values, NEW r, r = Write(block, Data(block, j), v)
    PROVE  /\ r \in BlockSet /\ SizeOf(r) = k /\ ValueOf(r, j) = v
           /\ \A i \in 0..k - 1 : i # j => ValueOf(r, i) = ValueOf(block, i)
<1> DEFINE ptr == Data(block, j)
<1>1. /\ k \in Nat /\ block.start = 0
      /\ block.free = k * ValueSize /\ block.free \in 0..BlockSize
      /\ \A i \in 0..k - 1 : Data(block, i) = i * ValueSize /\ ValueOf(block, i) \in Values
                             /\ Data(block, i) \in 0..BlockSize - 1
      /\ \A x \in 0..BlockSize - 1 :
           ~(\E i \in 0..k - 1 : x = i * ValueSize) => block.memory[x] = Dead
      /\ ptr + ValueSize <= block.free /\ ptr \in 0..BlockSize - 1
  BY BlockFacts
<1>2. j \in Nat /\ ptr = j * ValueSize /\ ptr + ValueSize <= BlockSize
  BY <1>1, Sizes
<1> HIDE DEF ptr
<1>3. /\ r = [start |-> 0, free |-> block.free, span |-> 1, memory |-> r.memory]
      /\ r.memory \in [0..BlockSize - 1 -> Values \cup {Dead}]
      /\ ptr \in 0..BlockSize - 1 /\ r.memory[ptr] = v
      /\ \A i \in Nat : i # j /\ i * ValueSize < BlockSize =>
           r.memory[i * ValueSize] = block.memory[i * ValueSize]
      /\ \A x \in 0..BlockSize - 1 :
           x # ptr => r.memory[x] = Dead \/ r.memory[x] = block.memory[x]
  <2>1. r = Write(block, ptr, v) /\ v \in Values \cup {Dead}
    BY DEF ptr
  <2> QED
    BY <1>2, <2>1, WriteFacts
<1> DEFINE memory == r.memory
           free == block.free
<1> HIDE DEF memory, free
<1>4. ASSUME NEW i \in 0..k - 1, i # j PROVE memory[i * ValueSize] = block.memory[i * ValueSize]
  <2>1. i \in Nat /\ i * ValueSize \in 0..BlockSize - 1
    BY <1>1
  <2> QED
    BY <1>3, <1>4, <2>1, Sizes DEF memory
<1>5. memory[j * ValueSize] = v
  BY <1>2, <1>3 DEF memory
<1>6. \A i \in 0..k - 1 : memory[i * ValueSize] \in Values
  <2> SUFFICES ASSUME NEW i \in 0..k - 1 PROVE memory[i * ValueSize] \in Values
    OBVIOUS
  <2>1. block.memory[i * ValueSize] \in Values
    BY <1>1 DEF ValueOf
  <2> QED
    BY <1>4, <1>5, <2>1
<1>7. \A x \in 0..BlockSize - 1 :
        ~(\E i \in 0..k - 1 : x = i * ValueSize) => memory[x] = Dead
  BY <1>1, <1>2, <1>3 DEF memory
<1>8. r \in BlockSet /\ SizeOf(r) = k
  <2>1. /\ free = k * ValueSize /\ free \in 0..BlockSize /\ k \in Nat
        /\ memory \in [0..BlockSize - 1 -> Values \cup {Dead}]
        /\ r = [start |-> 0, free |-> free, span |-> 1, memory |-> memory]
    BY <1>1, <1>3 DEF memory, free
  <2>2. LET b == [start |-> 0, free |-> free, span |-> 1, memory |-> memory]
        IN  b \in BlockSet /\ SizeOf(b) = k
    BY <1>6, <1>7, <2>1, MakeBlock
  <2> QED
    BY <2>1, <2>2
<1>9. \A i \in 0..k - 1 : ValueOf(r, i) = memory[i * ValueSize] /\ ValueOf(block, i) = block.memory[i * ValueSize]
  <2> SUFFICES ASSUME NEW i \in 0..k - 1
               PROVE  ValueOf(r, i) = memory[i * ValueSize] /\ ValueOf(block, i) = block.memory[i * ValueSize]
    OBVIOUS
  <2>1. r.start = 0 /\ i \in Nat
    BY <1>1, <1>3
  <2>2. Data(r, i) = i * ValueSize /\ Data(block, i) = i * ValueSize
    BY <1>1, <2>1, MultipleIsNat DEF Data
  <2> QED
    BY <2>2 DEF ValueOf, memory
<1>10. \A i \in 0..k - 1 : i # j => ValueOf(r, i) = ValueOf(block, i)
  BY <1>4, <1>9
<1>11. ValueOf(r, j) = v
  BY <1>5, <1>9
<1> QED
  BY <1>8, <1>10, <1>11

-----------------------------------------------------------------------------
(* Counting through the blocks *)

LEMMA PassedFacts ==
    ASSUME NEW bs \in Seq(BlockSet)
    PROVE  /\ Passed(bs, 0) = 0
           /\ \A n \in 0..Len(bs) : Passed(bs, n) \in Nat
           /\ \A n \in 1..Len(bs) : Passed(bs, n) = Passed(bs, n - 1) + SizeOf(bs[n])
<1> DEFINE sizes(n) == [b \in 1..n |-> SizeOf(bs[b])]
           L == Len(bs)
<1>1. L \in Nat /\ \A b \in 1..L : SizeOf(bs[b]) \in Nat
  BY BlockFacts
<1>2. \A n \in 0..L : Passed(bs, n) = Total(sizes(n))
  BY DEF Passed
<1>3. Passed(bs, 0) = 0
  <2>1. sizes(0) = <<>>
    OBVIOUS
  <2>2. Passed(bs, 0) = Total(sizes(0))
    BY DEF Passed
  <2> HIDE DEF sizes
  <2> QED
    BY <2>1, <2>2, TotalOfEmpty
<1>4. ASSUME NEW n \in 0..L
      PROVE  sizes(n) \in Seq(Int) /\ Len(sizes(n)) = n
  <2>1. n \in Nat /\ \A b \in 1..n : SizeOf(bs[b]) \in Int
    BY <1>1
  <2>2. sizes(n) \in [1..n -> Int]
    BY <2>1
  <2> QED
    BY <2>1, <2>2
<1>5. ASSUME NEW n \in 1..L
      PROVE  Passed(bs, n) = Passed(bs, n - 1) + SizeOf(bs[n])
  <2>1. n - 1 \in 0..L /\ n \in 0..L /\ n \in Nat /\ SizeOf(bs[n]) \in Int
    BY <1>1
  <2> DEFINE shorter == sizes(n - 1)
             longer == Append(shorter, SizeOf(bs[n]))
  <2>2. shorter \in Seq(Int) /\ Len(shorter) = n - 1
    BY <1>4, <2>1
  <2>3. sizes(n) \in Seq(Int) /\ Len(sizes(n)) = n /\ \A b \in 1..n : sizes(n)[b] = SizeOf(bs[b])
    BY <1>4, <2>1
  <2>4. \A b \in 1..n - 1 : shorter[b] = SizeOf(bs[b])
    OBVIOUS
  <2> HIDE DEF shorter, sizes
  <2>5. longer \in Seq(Int) /\ Len(longer) = n /\ \A b \in 1..n : longer[b] = SizeOf(bs[b])
    BY <2>1, <2>2, <2>4
  <2> HIDE DEF longer
  <2>6. sizes(n) = longer
    BY <2>3, <2>5
  <2>7. Total(longer) = Total(shorter) + SizeOf(bs[n])
    BY <2>1, <2>2, TotalOfAppend DEF longer
  <2> QED
    BY <1>2, <2>1, <2>6, <2>7 DEF shorter
<1> HIDE DEF sizes, L
<1> DEFINE S == {n \in Nat : n <= L => Passed(bs, n) \in Nat}
<1>6. 0 \in S
  BY <1>3
<1>7. ASSUME NEW n \in Nat, n \in S PROVE n + 1 \in S
  <2> SUFFICES ASSUME n + 1 <= L PROVE Passed(bs, n + 1) \in Nat
    OBVIOUS
  <2>1. n + 1 \in 1..L /\ n <= L /\ (n + 1) - 1 = n
    BY <1>1
  <2>2. Passed(bs, n) \in Nat /\ SizeOf(bs[n + 1]) \in Nat
    BY <1>1, <1>7, <2>1
  <2> QED
    BY <1>5, <2>1, <2>2
<1>8. Nat \subseteq S
  <2> HIDE DEF S
  <2> QED
    BY <1>6, <1>7, NatInductionOnSet
<1> QED
  BY <1>1, <1>3, <1>5, <1>8 DEF L

LEMMA PassedGrows ==
    ASSUME NEW bs \in Seq(BlockSet), NEW m \in 0..Len(bs), NEW n \in 0..Len(bs), m <= n
    PROVE  Passed(bs, m) <= Passed(bs, n)
<1> DEFINE S == {k \in Nat : m <= k /\ k <= Len(bs) => Passed(bs, m) <= Passed(bs, k)}
<1>1. /\ \A k \in 0..Len(bs) : Passed(bs, k) \in Nat
      /\ \A k \in 1..Len(bs) : Passed(bs, k) = Passed(bs, k - 1) + SizeOf(bs[k])
      /\ Len(bs) \in Nat
  BY PassedFacts
<1>2. \A b \in 1..Len(bs) : SizeOf(bs[b]) \in Nat
  BY BlockFacts
<1>3. 0 \in S
  BY <1>1
<1>4. ASSUME NEW k \in Nat, k \in S PROVE k + 1 \in S
  <2> SUFFICES ASSUME m <= k + 1, k + 1 <= Len(bs) PROVE Passed(bs, m) <= Passed(bs, k + 1)
    OBVIOUS
  <2>1. k + 1 \in 1..Len(bs) /\ k \in 0..Len(bs) /\ (k + 1) - 1 = k
    BY <1>1
  <2>2. CASE m = k + 1
    BY <1>1, <2>1, <2>2
  <2>3. CASE m # k + 1
    <3>1. Passed(bs, m) <= Passed(bs, k)
      BY <1>1, <1>4, <2>1, <2>3
    <3>2. Passed(bs, k + 1) = Passed(bs, k) + SizeOf(bs[k + 1])
      BY <1>1, <2>1
    <3> QED
      BY <1>1, <1>2, <2>1, <3>1, <3>2
  <2> QED
    BY <2>2, <2>3
<1>5. n \in S
  <2>1. n \in Nat
    BY <1>1
  <2> HIDE DEF S
  <2> QED
    BY <1>3, <1>4, <2>1, NatInductionOnSet
<1> QED
  BY <1>1, <1>5

\* Only the sizes count.
LEMMA SamePassed ==
    ASSUME NEW bs, NEW cs, NEW n \in Nat, \A b \in 1..n : SizeOf(cs[b]) = SizeOf(bs[b])
    PROVE  Passed(cs, n) = Passed(bs, n)
<1>1. [b \in 1..n |-> SizeOf(cs[b])] = [b \in 1..n |-> SizeOf(bs[b])]
  OBVIOUS
<1> QED
  BY <1>1 DEF Passed

\* The block in which the value with an index is.
Found(bs, i, b) == b \in 1..Len(bs) /\ Passed(bs, b - 1) <= i /\ i < Passed(bs, b)

LEMMA FoundExists ==
    ASSUME NEW bs \in Seq(BlockSet), NEW i \in Nat, i < Passed(bs, Len(bs))
    PROVE  \E b : Found(bs, i, b)
<1> DEFINE S == {n \in 0..Len(bs) : i < Passed(bs, n)}
<1>1. S \in SUBSET Nat /\ Len(bs) \in S
  OBVIOUS
<1>2. PICK b \in S : \A n \in S : b <= n
  <2> HIDE DEF S
  <2> QED
    BY <1>1, LeastNatural
<1>3. /\ Passed(bs, 0) = 0 /\ Len(bs) \in Nat
      /\ \A n \in 0..Len(bs) : Passed(bs, n) \in Nat
  BY PassedFacts
<1>4. b \in 1..Len(bs)
  BY <1>2, <1>3
<1>5. b - 1 \in 0..Len(bs) /\ b - 1 \notin S
  BY <1>2, <1>4
<1>6. Passed(bs, b - 1) <= i
  BY <1>3, <1>5
<1> QED
  BY <1>2, <1>4, <1>6 DEF Found

LEMMA FoundOnce ==
    ASSUME NEW bs \in Seq(BlockSet), NEW i \in Int, NEW b, NEW c, Found(bs, i, b), Found(bs, i, c)
    PROVE  b = c
<1>1. /\ b \in 1..Len(bs) /\ c \in 1..Len(bs) /\ Len(bs) \in Nat
      /\ \A n \in 0..Len(bs) : Passed(bs, n) \in Nat
  BY PassedFacts DEF Found
<1>2. ASSUME NEW x \in 1..Len(bs), NEW y \in 1..Len(bs), x < y, Found(bs, i, x), Found(bs, i, y)
      PROVE  FALSE
  <2>1. x \in 0..Len(bs) /\ y - 1 \in 0..Len(bs) /\ x <= y - 1
    BY <1>1, <1>2
  <2>2. Passed(bs, x) <= Passed(bs, y - 1)
    BY <2>1, PassedGrows
  <2>3. i < Passed(bs, x) /\ Passed(bs, y - 1) <= i
    BY <1>2 DEF Found
  <2>4. Passed(bs, x) \in Int /\ Passed(bs, y - 1) \in Int
    BY <1>1, <2>1
  <2> QED
    BY <2>2, <2>3, <2>4
<1> QED
  BY <1>1, <1>2

LEMMA SeekIs ==
    ASSUME NEW bs \in Seq(BlockSet), NEW i \in Int, NEW b, Found(bs, i, b)
    PROVE  LET j == i - Passed(bs, b - 1) IN
           /\ j \in 0..SizeOf(bs[b]) - 1
           /\ Seek(bs, i) = [block |-> b, index |-> j]
           /\ Place(bs, i) = <<b, Data(bs[b], j)>>
           /\ Ref(bs, i) = ValueOf(bs[b], j)
<1> DEFINE at(c) == [block |-> c, index |-> i - Passed(bs, c - 1)]
           within(found) == 0 <= found.index /\ found.index < SizeOf(bs[found.block])
           j == i - Passed(bs, b - 1)
           all == {at(c) : c \in DOMAIN bs}
<1>1. /\ DOMAIN bs = 1..Len(bs) /\ b \in 1..Len(bs)
      /\ \A n \in 0..Len(bs) : Passed(bs, n) \in Nat
      /\ \A n \in 1..Len(bs) : Passed(bs, n) = Passed(bs, n - 1) + SizeOf(bs[n]) /\ SizeOf(bs[n]) \in Nat
  BY PassedFacts, BlockFacts DEF Found
<1>2. ASSUME NEW c \in 1..Len(bs)
      PROVE  within(at(c)) <=> Found(bs, i, c)
  <2>1. c \in 0..Len(bs) /\ c - 1 \in 0..Len(bs)
    OBVIOUS
  <2>2. Passed(bs, c) \in Nat /\ Passed(bs, c - 1) \in Nat /\ SizeOf(bs[c]) \in Nat
        /\ Passed(bs, c) = Passed(bs, c - 1) + SizeOf(bs[c])
    BY <1>1, <2>1
  <2> QED
    BY <2>2 DEF Found
<1>3. at(b) \in all /\ within(at(b))
  BY <1>1, <1>2
<1>4. ASSUME NEW found \in all, within(found) PROVE found = at(b)
  <2>1. PICK c \in 1..Len(bs) : found = at(c)
    BY <1>1
  <2>2. Found(bs, i, c)
    <3> HIDE DEF within, at
    <3> QED
      BY <1>2, <1>4, <2>1
  <2>3. c = b
    BY <2>2, FoundOnce
  <2> QED
    BY <2>1, <2>3
<1>5. Seek(bs, i) = CHOOSE found \in all : within(found)
  BY DEF Seek
<1> HIDE DEF at, within, all
<1>6. Seek(bs, i) = at(b)
  BY <1>3, <1>4, <1>5
<1>7. Seek(bs, i) = [block |-> b, index |-> j]
  BY <1>6 DEF at
<1>8. j \in 0..SizeOf(bs[b]) - 1
  <2>1. b - 1 \in 0..Len(bs)
    BY <1>1
  <2>2. Passed(bs, b - 1) \in Nat /\ SizeOf(bs[b]) \in Nat
    BY <1>1, <2>1
  <2> QED
    BY <1>3, <2>2 DEF at, within
<1> HIDE DEF j
<1>9. Place(bs, i) = <<b, Data(bs[b], j)>> /\ Ref(bs, i) = bs[b].memory[Data(bs[b], j)]
  BY <1>7 DEF Place, Ref
<1> QED
  BY <1>7, <1>8, <1>9 DEF ValueOf, j

\* Lists of blocks agree on the first n values: the address and the value itself.
Agree(bs, cs, n) == \A i \in 0..n - 1 : Place(cs, i) = Place(bs, i) /\ Ref(cs, i) = Ref(bs, i)

\* A value stays where it is when the blocks before its own keep their sizes and
\* its own keeps enough of them.
LEMMA StaysFound ==
    ASSUME NEW bs \in Seq(BlockSet), NEW cs \in Seq(BlockSet), NEW i \in Int, NEW b,
           Found(bs, i, b), b <= Len(cs),
           \A c \in 1..b - 1 : SizeOf(cs[c]) = SizeOf(bs[c]),
           i - Passed(bs, b - 1) < SizeOf(cs[b])
    PROVE  LET j == i - Passed(bs, b - 1) IN
           /\ j \in 0..SizeOf(bs[b]) - 1 /\ j \in 0..SizeOf(cs[b]) - 1
           /\ Found(cs, i, b)
           /\ Place(cs, i) = Place(bs, i) /\ Place(bs, i) = <<b, Data(bs[b], j)>>
           /\ Ref(bs, i) = ValueOf(bs[b], j) /\ Ref(cs, i) = ValueOf(cs[b], j)
<1> DEFINE p == Passed(bs, b - 1)
           j == i - p
<1>1. /\ b \in 1..Len(bs) /\ b \in 1..Len(cs) /\ b - 1 \in Nat
      /\ b - 1 \in 0..Len(bs) /\ b - 1 \in 0..Len(cs)
  BY DEF Found
<1>2. Passed(cs, b - 1) = p /\ p \in Nat
  <2>1. Passed(cs, b - 1) = p
    BY <1>1, SamePassed
  <2> QED
    BY <1>1, <2>1, PassedFacts
<1>3. /\ Passed(cs, b) = p + SizeOf(cs[b])
      /\ SizeOf(cs[b]) \in Nat /\ SizeOf(bs[b]) \in Nat
  <2>1. Passed(cs, b) = Passed(cs, b - 1) + SizeOf(cs[b])
    BY <1>1, PassedFacts
  <2>2. cs[b] \in BlockSet /\ bs[b] \in BlockSet
    BY <1>1
  <2> QED
    BY <1>2, <2>1, <2>2, BlockFacts
<1>4. p <= i
  BY DEF Found
<1> HIDE DEF p
<1>5. Found(cs, i, b)
  BY <1>1, <1>2, <1>3, <1>4 DEF Found, p
<1>6. /\ j \in 0..SizeOf(bs[b]) - 1
      /\ Place(bs, i) = <<b, Data(bs[b], j)>> /\ Ref(bs, i) = ValueOf(bs[b], j)
  BY SeekIs DEF p
<1>7. /\ j \in 0..SizeOf(cs[b]) - 1
      /\ Place(cs, i) = <<b, Data(cs[b], j)>> /\ Ref(cs, i) = ValueOf(cs[b], j)
  BY <1>2, <1>5, SeekIs
<1>8. Data(cs[b], j) = j * ValueSize /\ Data(bs[b], j) = j * ValueSize
  <2>1. cs[b] \in BlockSet /\ bs[b] \in BlockSet
    BY <1>1
  <2> HIDE DEF j
  <2> QED
    BY <1>6, <1>7, <2>1, BlockFacts
<1> QED
  BY <1>5, <1>6, <1>7, <1>8 DEF p

\* What is left of the list when its last blocks have no values in them.
LEMMA EmptyTail ==
    ASSUME NEW bs \in Seq(BlockSet), NEW b \in 0..Len(bs),
           \A c \in b + 1..Len(bs) : SizeOf(bs[c]) = 0
    PROVE  Passed(bs, Len(bs)) = Passed(bs, b)
<1> DEFINE S == {n \in Nat : b <= n /\ n <= Len(bs) => Passed(bs, n) = Passed(bs, b)}
<1>1. /\ \A k \in 0..Len(bs) : Passed(bs, k) \in Nat
      /\ \A k \in 1..Len(bs) : Passed(bs, k) = Passed(bs, k - 1) + SizeOf(bs[k])
      /\ Len(bs) \in Nat
  BY PassedFacts
<1>2. 0 \in S
  OBVIOUS
<1>3. ASSUME NEW k \in Nat, k \in S PROVE k + 1 \in S
  <2> SUFFICES ASSUME b <= k + 1, k + 1 <= Len(bs) PROVE Passed(bs, k + 1) = Passed(bs, b)
    OBVIOUS
  <2>1. k + 1 \in 1..Len(bs) /\ k \in 0..Len(bs) /\ (k + 1) - 1 = k
    BY <1>1
  <2>2. CASE b = k + 1
    BY <2>2
  <2>3. CASE b # k + 1
    <3>1. Passed(bs, k) = Passed(bs, b)
      BY <1>1, <1>3, <2>1, <2>3
    <3>2. Passed(bs, k + 1) = Passed(bs, k) + SizeOf(bs[k + 1])
      BY <1>1, <2>1
    <3>3. SizeOf(bs[k + 1]) = 0
      BY <2>1, <2>3
    <3> QED
      BY <1>1, <2>1, <3>1, <3>2, <3>3
  <2> QED
    BY <2>2, <2>3
<1>4. Len(bs) \in S
  <2> HIDE DEF S
  <2> QED
    BY <1>1, <1>2, <1>3, NatInductionOnSet
<1> QED
  BY <1>1, <1>4

\* The last block with values, when there is one.
LEMMA LastUsedFacts ==
    ASSUME NEW bs \in Seq(BlockSet), Passed(bs, Len(bs)) # 0, NEW b, b = LastUsed(bs)
    PROVE  /\ b \in 1..Len(bs) /\ ~IsEmpty(bs[b])
           /\ \A c \in b + 1..Len(bs) : SizeOf(bs[c]) = 0
           /\ Passed(bs, Len(bs)) = Passed(bs, b)
<1> DEFINE S == {n \in 0..Len(bs) : \A c \in n + 1..Len(bs) : SizeOf(bs[c]) = 0}
<1>1. Len(bs) \in Nat /\ DOMAIN bs = 1..Len(bs)
  OBVIOUS
<1>2. S \in SUBSET Nat /\ Len(bs) \in S
  BY <1>1
<1>3. PICK n \in S : \A m \in S : n <= m
  <2> HIDE DEF S
  <2> QED
    BY <1>2, LeastNatural
<1>4. Passed(bs, Len(bs)) = Passed(bs, n)
  BY EmptyTail
<1>5. n # 0
  BY <1>4, PassedFacts
<1>6. SizeOf(bs[n]) # 0
  <2> SUFFICES ASSUME SizeOf(bs[n]) = 0 PROVE FALSE
    OBVIOUS
  <2>1. n - 1 \in 0..Len(bs) /\ \A c \in (n - 1) + 1..Len(bs) : c = n \/ c \in n + 1..Len(bs)
    BY <1>1, <1>5
  <2>2. n - 1 \in S
    BY <2>1
  <2>3. n \in Int
    OBVIOUS
  <2>4. n <= n - 1
    BY <1>3, <2>2
  <2> QED
    BY <2>3, <2>4
<1>7. n \in 1..Len(bs)
  BY <1>5
<1>8. \A c \in 1..Len(bs) : IsEmpty(bs[c]) <=> SizeOf(bs[c]) = 0
  BY BlockFacts
<1>9. /\ n \in DOMAIN bs
      /\ ~IsEmpty(bs[n]) /\ \A c \in n + 1..Len(bs) : IsEmpty(bs[c])
  <2>1. \A c \in n + 1..Len(bs) : c \in 1..Len(bs)
    BY <1>7
  <2> QED
    BY <1>1, <1>6, <1>7, <1>8, <2>1
<1>10. /\ b \in DOMAIN bs
       /\ ~IsEmpty(bs[b]) /\ \A c \in b + 1..Len(bs) : IsEmpty(bs[c])
  <2> HIDE DEF S
  <2> QED
    BY <1>9 DEF LastUsed
<1>11. \A c \in b + 1..Len(bs) : SizeOf(bs[c]) = 0
  <2>1. \A c \in b + 1..Len(bs) : c \in 1..Len(bs)
    BY <1>1, <1>10
  <2> QED
    BY <1>8, <1>10, <2>1
<1>12. b \in 0..Len(bs)
  BY <1>1, <1>10
<1>13. Passed(bs, Len(bs)) = Passed(bs, b)
  BY <1>11, <1>12, EmptyTail
<1> QED
  BY <1>1, <1>10, <1>11, <1>13

-----------------------------------------------------------------------------
(* The calls, on a list of blocks *)

Replaced(bs, b, r) == [bs EXCEPT ![b] = r]

LEMMA ReplacedIs ==
    ASSUME NEW bs \in Seq(BlockSet), NEW b \in 1..Len(bs), NEW r \in BlockSet
    PROVE  LET cs == Replaced(bs, b, r) IN
           /\ cs \in Seq(BlockSet) /\ Len(cs) = Len(bs) /\ cs[b] = r
           /\ \A c \in 1..Len(bs) : c # b => cs[c] = bs[c]
BY DEF Replaced

\* A block behind which there are no values is replaced by one that agrees with
\* it on the first m values.
LEMMA ReplacedFacts ==
    ASSUME NEW bs \in Seq(BlockSet), NEW b \in 1..Len(bs), NEW r \in BlockSet,
           NEW cs, cs = Replaced(bs, b, r),
           \A c \in b + 1..Len(bs) : SizeOf(bs[c]) = 0,
           NEW m \in Nat, m <= SizeOf(r), m <= SizeOf(bs[b]), SameUpTo(bs[b], r, m),
           NEW p, p = Passed(bs, b - 1)
    PROVE  /\ cs \in Seq(BlockSet) /\ Len(cs) = Len(bs) /\ p \in Nat
           /\ Passed(cs, Len(cs)) = p + SizeOf(r)
           /\ Passed(bs, Len(bs)) = p + SizeOf(bs[b])
           /\ Agree(bs, cs, p + m)
<1>1. /\ cs \in Seq(BlockSet) /\ Len(cs) = Len(bs) /\ cs[b] = r
      /\ \A c \in 1..Len(bs) : c # b => cs[c] = bs[c]
  BY DEF Replaced
<1>2. /\ b - 1 \in 0..Len(bs) /\ b \in 0..Len(bs) /\ b \in 1..Len(cs) /\ b \in 0..Len(cs)
      /\ b - 1 \in Nat /\ Len(bs) \in Nat
  BY <1>1
<1>3. p \in Nat /\ Passed(bs, b) = p + SizeOf(bs[b])
  BY <1>2, PassedFacts
<1>4. \A c \in 1..b - 1 : SizeOf(cs[c]) = SizeOf(bs[c])
  <2>1. \A c \in 1..b - 1 : c \in 1..Len(bs) /\ c # b
    BY <1>2
  <2> QED
    BY <1>1, <2>1
<1>5. Passed(cs, b) = p + SizeOf(r)
  <2>1. Passed(cs, b - 1) = p
    BY <1>2, <1>4, SamePassed
  <2>2. Passed(cs, b) = Passed(cs, b - 1) + SizeOf(cs[b])
    BY <1>1, <1>2, PassedFacts
  <2> QED
    BY <1>1, <2>1, <2>2
<1>6. Passed(bs, Len(bs)) = Passed(bs, b)
  BY <1>2, EmptyTail
<1>7. Passed(cs, Len(cs)) = Passed(cs, b)
  <2>1. \A c \in b + 1..Len(cs) : c \in 1..Len(bs) /\ c # b /\ c \in b + 1..Len(bs)
    BY <1>1, <1>2
  <2>2. \A c \in b + 1..Len(cs) : SizeOf(cs[c]) = 0
    BY <1>1, <2>1
  <2> QED
    BY <1>1, <1>2, <2>2, EmptyTail
<1>8. SizeOf(bs[b]) \in Nat /\ SizeOf(r) \in Nat
  <2>1. bs[b] \in BlockSet
    OBVIOUS
  <2> QED
    BY <2>1, BlockFacts
<1>9. ASSUME NEW i \in 0..(p + m) - 1
      PROVE  Place(cs, i) = Place(bs, i) /\ Ref(cs, i) = Ref(bs, i)
  <2>1. i \in Nat /\ i \in Int /\ i < p + m
    BY <1>3
  <2>2. i < Passed(bs, Len(bs))
    BY <1>3, <1>6, <1>8, <2>1
  <2>3. PICK c : Found(bs, i, c)
    BY <2>1, <2>2, FoundExists
  <2>4. c \in 1..Len(bs) /\ Passed(bs, c - 1) <= i /\ i < Passed(bs, c)
    BY <2>3 DEF Found
  <2>5. c <= b
    <3> SUFFICES ASSUME b < c PROVE FALSE
      BY <1>2, <2>4
    <3>1. c - 1 \in 0..Len(bs) /\ b <= c - 1
      BY <1>2, <2>4
    <3>2. Passed(bs, b) <= Passed(bs, c - 1)
      BY <1>2, <3>1, PassedGrows
    <3>3. Passed(bs, c - 1) \in Nat
      BY <3>1, PassedFacts
    <3> QED
      BY <1>3, <1>8, <2>1, <2>4, <3>2, <3>3
  <2>6. \A d \in 1..c - 1 : SizeOf(cs[d]) = SizeOf(bs[d])
    <3>1. \A d \in 1..c - 1 : d \in 1..b - 1
      BY <1>2, <2>4, <2>5
    <3> QED
      BY <1>4, <3>1
  <2> DEFINE j == i - Passed(bs, c - 1)
  <2>7. j \in 0..SizeOf(bs[c]) - 1
    BY <2>1, <2>3, SeekIs
  <2> HIDE DEF j
  <2>8. j < SizeOf(cs[c]) /\ (j \in 0..SizeOf(bs[c]) - 1 => ValueOf(cs[c], j) = ValueOf(bs[c], j))
    <3>1. CASE c = b
      <4>1. j = i - p
        BY <3>1 DEF j
      <4>2. j < m /\ j \in 0..m - 1
        BY <1>3, <2>1, <2>7, <4>1
      <4> QED
        BY <1>1, <1>8, <3>1, <4>2 DEF SameUpTo
    <3>2. CASE c # b
      <4>1. cs[c] = bs[c] /\ bs[c] \in BlockSet
        BY <1>1, <2>4, <3>2
      <4>2. SizeOf(bs[c]) \in Nat
        BY <4>1, BlockFacts
      <4> QED
        BY <2>7, <4>1, <4>2
    <3> QED
      BY <3>1, <3>2
  <2>9. c <= Len(cs)
    BY <1>1, <2>4
  <2>10. i - Passed(bs, c - 1) < SizeOf(cs[c]) /\ cs \in Seq(BlockSet)
    BY <1>1, <2>8 DEF j
  <2>11. /\ Place(cs, i) = Place(bs, i)
         /\ Ref(bs, i) = ValueOf(bs[c], i - Passed(bs, c - 1))
         /\ Ref(cs, i) = ValueOf(cs[c], i - Passed(bs, c - 1))
    BY <2>1, <2>3, <2>6, <2>9, <2>10, StaysFound
  <2>12. Ref(bs, i) = ValueOf(bs[c], j) /\ Ref(cs, i) = ValueOf(cs[c], j)
    BY <2>11 DEF j
  <2> QED
    BY <2>7, <2>8, <2>11, <2>12
<1> QED
  BY <1>1, <1>3, <1>5, <1>6, <1>7, <1>9 DEF Agree

\* What a list must be, and how many values it has.
IsVector(bs, n) == bs \in Seq(BlockSet) /\ Len(bs) <= MaxBlocks /\ n = Passed(bs, Len(bs))

LEMMA VectorFacts ==
    ASSUME NEW bs, NEW n, IsVector(bs, n)
    PROVE  bs \in Seq(BlockSet) /\ Len(bs) \in Nat /\ n \in Nat
<1>1. bs \in Seq(BlockSet) /\ Len(bs) \in Nat
  BY DEF IsVector
<1> QED
  BY <1>1, PassedFacts DEF IsVector

\* A value is pushed into the last block.
LEMMA PushedList ==
    ASSUME NEW bs, NEW n, IsVector(bs, n), bs # <<>>, NEW last, last = Len(bs),
           HasRoom(bs[last]), NEW v \in Values,
           NEW cs, cs = Replaced(bs, last, Pushed(bs[last], v))
    PROVE  IsVector(cs, n + 1) /\ Agree(bs, cs, n) /\ Ref(cs, n) = v
<1> DEFINE block == bs[last]
           r == Pushed(block, v)
           k == SizeOf(block)
           p == Passed(bs, last - 1)
<1>1. bs \in Seq(BlockSet) /\ last \in Nat /\ n \in Nat /\ last \in 1..last /\ last <= MaxBlocks
      /\ n = Passed(bs, last)
  BY VectorFacts DEF IsVector
<1>2. block \in BlockSet
  BY <1>1
<1>3. r \in BlockSet /\ SizeOf(r) = k + 1 /\ SameUpTo(block, r, k) /\ ValueOf(r, k) = v
  <2> HIDE DEF block
  <2> QED
    BY <1>2, PushedFacts DEF block
<1>4. k \in Nat
  BY <1>2, BlockFacts
<1> HIDE DEF r, k, p
<1>5. /\ cs \in Seq(BlockSet) /\ Len(cs) = last /\ p \in Nat
      /\ Passed(cs, Len(cs)) = p + SizeOf(r) /\ n = p + k
      /\ Agree(bs, cs, p + k)
  <2>1. cs = Replaced(bs, last, r)
    BY DEF r
  <2>2. \A c \in last + 1..Len(bs) : SizeOf(bs[c]) = 0
    BY <1>1
  <2>3. k <= SizeOf(r) /\ k <= SizeOf(bs[last]) /\ SameUpTo(bs[last], r, k)
    BY <1>3, <1>4 DEF k
  <2>5. p = Passed(bs, last - 1) /\ last \in 1..Len(bs) /\ bs \in Seq(BlockSet)
    BY <1>1 DEF p
  <2>6. r \in BlockSet /\ k \in Nat
    BY <1>3, <1>4 DEF k
  <2>4. /\ cs \in Seq(BlockSet) /\ Len(cs) = Len(bs) /\ p \in Nat
        /\ Passed(cs, Len(cs)) = p + SizeOf(r)
        /\ Passed(bs, Len(bs)) = p + SizeOf(bs[last])
        /\ Agree(bs, cs, p + k)
    BY <2>1, <2>2, <2>3, <2>5, <2>6, ReplacedFacts
  <2> QED
    BY <1>1, <2>4 DEF k
<1>6. IsVector(cs, n + 1)
  BY <1>1, <1>3, <1>4, <1>5 DEF IsVector
<1>7. Ref(cs, n) = v
  <2>1. cs[last] = r
    BY <1>1 DEF r, Replaced
  <2>2. \A c \in 1..last - 1 : SizeOf(cs[c]) = SizeOf(bs[c])
    BY <1>1 DEF Replaced
  <2>3. last - 1 \in Nat
    BY <1>1
  <2>9. Passed(cs, last - 1) = Passed(bs, last - 1)
    BY <2>2, <2>3, SamePassed
  <2>4. Passed(cs, last - 1) = p
    BY <2>9 DEF p
  <2>5. Passed(cs, last) = n + 1
    BY <1>5, <1>6 DEF IsVector
  <2>6. Found(cs, n, last)
    BY <1>1, <1>4, <1>5, <2>4, <2>5 DEF Found
  <2>7. n \in Int /\ n - p = k
    BY <1>1, <1>4, <1>5
  <2>10. cs \in Seq(BlockSet) /\ n \in Int
    BY <1>5, <2>7
  <2>11. Ref(cs, n) = ValueOf(cs[last], n - Passed(cs, last - 1))
    BY <2>6, <2>10, SeekIs
  <2>8. Ref(cs, n) = ValueOf(cs[last], n - p)
    BY <2>4, <2>11
  <2> QED
    BY <1>3, <2>1, <2>7, <2>8
<1> QED
  BY <1>1, <1>5, <1>6, <1>7

\* A list that begins like another has the same values as far as that one goes.
LEMMA Beginning ==
    ASSUME NEW bs \in Seq(BlockSet), NEW cs \in Seq(BlockSet), Len(cs) <= Len(bs),
           \A c \in 1..Len(cs) : cs[c] = bs[c], NEW n, n = Passed(cs, Len(cs))
    PROVE  n = Passed(bs, Len(cs)) /\ n \in Nat /\ Agree(cs, bs, n) /\ Agree(bs, cs, n)
<1>1. Len(cs) \in Nat /\ Len(bs) \in Nat /\ n \in Nat
  BY PassedFacts
<1>2. n = Passed(bs, Len(cs))
  BY <1>1, SamePassed
<1>3. ASSUME NEW i \in 0..n - 1
      PROVE  Place(cs, i) = Place(bs, i) /\ Ref(cs, i) = Ref(bs, i)
  <2>1. i \in Nat /\ i \in Int /\ i < n
    BY <1>1
  <2>2. PICK b : Found(cs, i, b)
    BY <2>1, FoundExists
  <2>3. b \in 1..Len(cs) /\ b <= Len(bs) /\ cs[b] = bs[b]
    BY <1>1, <2>2 DEF Found
  <2>4. \A c \in 1..b - 1 : SizeOf(bs[c]) = SizeOf(cs[c])
    <3>1. \A c \in 1..b - 1 : c \in 1..Len(cs)
      BY <1>1, <2>3
    <3> QED
      BY <3>1
  <2> DEFINE j == i - Passed(cs, b - 1)
  <2>5. j \in 0..SizeOf(cs[b]) - 1 /\ SizeOf(cs[b]) \in Nat
    <3>1. cs[b] \in BlockSet
      BY <2>3
    <3> QED
      BY <2>1, <2>2, <3>1, SeekIs, BlockFacts
  <2>6. j < SizeOf(bs[b])
    BY <2>3, <2>5
  <2>7. /\ Place(bs, i) = Place(cs, i)
        /\ Ref(cs, i) = ValueOf(cs[b], j) /\ Ref(bs, i) = ValueOf(bs[b], j)
    BY <2>1, <2>2, <2>3, <2>4, <2>6, StaysFound
  <2> QED
    BY <2>3, <2>7
<1> QED
  BY <1>1, <1>2, <1>3 DEF Agree

\* An empty block at the end changes nothing.
LEMMA AppendedList ==
    ASSUME NEW bs, NEW n, IsVector(bs, n), Len(bs) < MaxBlocks,
           NEW cs, cs = Append(bs, NewBlock)
    PROVE  IsVector(cs, n) /\ Len(cs) = Len(bs) + 1 /\ cs[Len(bs) + 1] = NewBlock /\ Agree(bs, cs, n)
<1>1. bs \in Seq(BlockSet) /\ Len(bs) \in Nat /\ n \in Nat /\ n = Passed(bs, Len(bs))
  BY VectorFacts DEF IsVector
<1>2. NewBlock \in BlockSet /\ SizeOf(NewBlock) = 0
  BY NewBlockFacts
<1>3. /\ cs \in Seq(BlockSet) /\ Len(cs) = Len(bs) + 1 /\ cs[Len(bs) + 1] = NewBlock
      /\ \A c \in 1..Len(bs) : bs[c] = cs[c]
  BY <1>1, <1>2
<1>4. Len(bs) <= Len(cs) /\ Len(bs) \in 0..Len(cs)
  BY <1>1, <1>3
<1>5. n = Passed(cs, Len(bs)) /\ Agree(bs, cs, n)
  BY <1>1, <1>3, <1>4, Beginning
<1>6. Passed(cs, Len(cs)) = Passed(cs, Len(bs))
  <2>1. \A c \in Len(bs) + 1..Len(cs) : c = Len(bs) + 1
    BY <1>1, <1>3
  <2>2. \A c \in Len(bs) + 1..Len(cs) : SizeOf(cs[c]) = 0
    BY <1>2, <1>3, <2>1
  <2> QED
    BY <1>3, <1>4, <2>2, EmptyTail
<1>7. Len(cs) <= MaxBlocks
  BY <1>1, <1>3, VectorAssumption
<1> QED
  BY <1>3, <1>5, <1>6, <1>7 DEF IsVector

LEMMA PoppedList ==
    ASSUME NEW bs, NEW n, IsVector(bs, n), n # 0, NEW cs, cs = WithoutLast(bs)
    PROVE  IsVector(cs, n - 1) /\ Agree(bs, cs, n - 1)
<1> DEFINE b == LastUsed(bs)
           r == Popped(bs[b])
           k == SizeOf(bs[b])
           p == Passed(bs, b - 1)
<1>1. bs \in Seq(BlockSet) /\ Len(bs) \in Nat /\ n \in Nat /\ n = Passed(bs, Len(bs))
      /\ Len(bs) <= MaxBlocks
  BY VectorFacts DEF IsVector
<1>2. /\ b \in 1..Len(bs) /\ ~IsEmpty(bs[b])
      /\ \A c \in b + 1..Len(bs) : SizeOf(bs[c]) = 0
  <2> HIDE DEF b
  <2>1. b = LastUsed(bs) /\ Passed(bs, Len(bs)) # 0
    BY <1>1 DEF b
  <2> QED
    BY <1>1, <2>1, LastUsedFacts
<1>3. k \in Nat \ {0} /\ r \in BlockSet /\ SizeOf(r) = k - 1 /\ SameUpTo(bs[b], r, k - 1)
  <2> HIDE DEF b
  <2> DEFINE block == bs[b]
  <2>1. block \in BlockSet /\ ~IsEmpty(block)
    BY <1>1, <1>2
  <2> HIDE DEF block
  <2>2. LET q == SizeOf(block)
            w == Popped(block)
        IN  q \in Nat \ {0} /\ w \in BlockSet /\ SizeOf(w) = q - 1 /\ SameUpTo(block, w, q - 1)
    BY <2>1, PoppedFacts
  <2> QED
    BY <2>2 DEF block
<1>4. cs = Replaced(bs, b, r)
  BY DEF WithoutLast, Replaced
<1> HIDE DEF b, r, k, p
<1>5. /\ cs \in Seq(BlockSet) /\ Len(cs) = Len(bs) /\ p \in Nat
      /\ Passed(cs, Len(cs)) = p + SizeOf(r)
      /\ Passed(bs, Len(bs)) = p + SizeOf(bs[b])
      /\ Agree(bs, cs, p + (k - 1))
  <2> DEFINE m == k - 1
  <2>1. p = Passed(bs, b - 1) /\ m \in Nat /\ m <= SizeOf(r) /\ m <= SizeOf(bs[b]) /\ SameUpTo(bs[b], r, m)
    BY <1>3 DEF p, k
  <2> HIDE DEF m
  <2>2. /\ cs \in Seq(BlockSet) /\ Len(cs) = Len(bs) /\ p \in Nat
        /\ Passed(cs, Len(cs)) = p + SizeOf(r)
        /\ Passed(bs, Len(bs)) = p + SizeOf(bs[b])
        /\ Agree(bs, cs, p + m)
    BY <1>1, <1>2, <1>3, <1>4, <2>1, ReplacedFacts
  <2> QED
    BY <2>2 DEF m
<1>6. n = p + k /\ p + (k - 1) = n - 1
  BY <1>1, <1>3, <1>5 DEF k
<1>7. IsVector(cs, n - 1)
  BY <1>1, <1>3, <1>5, <1>6 DEF IsVector
<1> QED
  BY <1>5, <1>6, <1>7

Assigned(bs, i, v) ==
    LET place == Place(bs, i) IN Replaced(bs, place[1], Write(bs[place[1]], place[2], v))

LEMMA AssignedList ==
    ASSUME NEW bs, NEW n, IsVector(bs, n), NEW i \in 0..n - 1, NEW v \in Values,
           NEW cs, cs = Assigned(bs, i, v)
    PROVE  /\ IsVector(cs, n) /\ Ref(cs, i) = v
           /\ \A h \in 0..n - 1 : Place(cs, h) = Place(bs, h)
           /\ \A h \in 0..n - 1 : h # i => Ref(cs, h) = Ref(bs, h)
<1>1. bs \in Seq(BlockSet) /\ Len(bs) \in Nat /\ n \in Nat /\ n = Passed(bs, Len(bs))
      /\ Len(bs) <= MaxBlocks
  BY VectorFacts DEF IsVector
<1>2. i \in Nat /\ i \in Int /\ i < Passed(bs, Len(bs))
  BY <1>1
<1>3. PICK b : Found(bs, i, b)
  BY <1>1, <1>2, FoundExists
<1> DEFINE j == i - Passed(bs, b - 1)
           block == bs[b]
           r == Write(block, Data(block, j), v)
           k == SizeOf(block)
<1>4. j \in 0..k - 1 /\ Place(bs, i) = <<b, Data(block, j)>>
  BY <1>1, <1>2, <1>3, SeekIs
<1>5. b \in 1..Len(bs) /\ block \in BlockSet
  BY <1>1, <1>3 DEF Found
<1>6. cs = Replaced(bs, b, r)
  BY <1>4 DEF Assigned
<1> HIDE DEF j, block
<1>7. /\ r \in BlockSet /\ SizeOf(r) = k /\ ValueOf(r, j) = v
      /\ \A h \in 0..k - 1 : h # j => ValueOf(r, h) = ValueOf(block, h)
  <2>1. k = SizeOf(block) /\ r = Write(block, Data(block, j), v)
    OBVIOUS
  <2> HIDE DEF k, r
  <2> QED
    BY <1>4, <1>5, <2>1, AssignedFacts
<1>8. k \in Nat
  BY <1>5, BlockFacts
<1> HIDE DEF k, r
<1>9. /\ cs \in Seq(BlockSet) /\ Len(cs) = Len(bs) /\ cs[b] = r
      /\ \A c \in 1..Len(bs) : c # b => cs[c] = bs[c]
  <2>1. bs \in Seq(BlockSet) /\ b \in 1..Len(bs) /\ r \in BlockSet
    BY <1>1, <1>5, <1>7
  <2>2. LET ds == Replaced(bs, b, r) IN
        /\ ds \in Seq(BlockSet) /\ Len(ds) = Len(bs) /\ ds[b] = r
        /\ \A c \in 1..Len(bs) : c # b => ds[c] = bs[c]
    BY <2>1, ReplacedIs
  <2> QED
    BY <1>6, <2>2
<1>10. \A c \in 1..Len(bs) : SizeOf(cs[c]) = SizeOf(bs[c])
  BY <1>7, <1>9 DEF k, block
<1>11. IsVector(cs, n)
  <2>1. Passed(cs, Len(bs)) = Passed(bs, Len(bs))
    BY <1>1, <1>10, SamePassed
  <2> QED
    BY <1>1, <1>9, <2>1 DEF IsVector
<1>12. ASSUME NEW h \in 0..n - 1
       PROVE  /\ Place(cs, h) = Place(bs, h)
              /\ h = i => Ref(cs, h) = v
              /\ h # i => Ref(cs, h) = Ref(bs, h)
  <2>1. h \in Nat /\ h \in Int /\ h < Passed(bs, Len(bs))
    BY <1>1
  <2>2. PICK c : Found(bs, h, c)
    BY <1>1, <2>1, FoundExists
  <2>3. c \in 1..Len(bs) /\ c <= Len(cs)
    BY <1>1, <1>9, <2>2 DEF Found
  <2>4. \A d \in 1..c - 1 : SizeOf(cs[d]) = SizeOf(bs[d])
    <3>1. \A d \in 1..c - 1 : d \in 1..Len(bs)
      BY <1>1, <2>3
    <3> QED
      BY <1>10, <3>1
  <2> DEFINE g == h - Passed(bs, c - 1)
  <2>5. g \in 0..SizeOf(bs[c]) - 1
    BY <1>1, <2>1, <2>2, SeekIs
  <2>6. SizeOf(bs[c]) \in Nat
    <3>1. bs[c] \in BlockSet
      BY <1>1, <2>3
    <3> QED
      BY <3>1, BlockFacts
  <2>7. h - Passed(bs, c - 1) < SizeOf(cs[c])
    BY <1>10, <2>3, <2>5, <2>6
  <2>8. /\ Place(cs, h) = Place(bs, h)
        /\ Ref(bs, h) = ValueOf(bs[c], h - Passed(bs, c - 1))
        /\ Ref(cs, h) = ValueOf(cs[c], h - Passed(bs, c - 1))
    BY <1>1, <1>9, <2>1, <2>2, <2>3, <2>4, <2>7, StaysFound
  <2> HIDE DEF g
  <2>9. Ref(bs, h) = ValueOf(bs[c], g) /\ Ref(cs, h) = ValueOf(cs[c], g)
    BY <2>8 DEF g
  <2>10. CASE c = b
    <3>1. Passed(bs, b - 1) \in Nat
      <4>1. b - 1 \in 0..Len(bs)
        BY <1>1, <1>5
      <4> QED
        BY <1>1, <4>1, PassedFacts
    <3>2. (h = i) <=> (g = j)
      BY <1>2, <2>1, <2>10, <3>1 DEF g, j
    <3>3. cs[c] = r /\ bs[c] = block /\ g \in 0..k - 1
      BY <1>9, <2>5, <2>10 DEF block, k
    <3> QED
      BY <1>7, <2>8, <2>9, <3>2, <3>3
  <2>11. CASE c # b
    <3>1. h # i
      BY <1>3, <2>2, <2>11, <1>1, <2>1, FoundOnce
    <3>2. cs[c] = bs[c]
      BY <1>9, <2>3, <2>11
    <3> QED
      BY <2>8, <2>9, <3>1, <3>2
  <2> QED
    BY <2>10, <2>11
<1> QED
  BY <1>11, <1>12

LEMMA ShrunkList ==
    ASSUME NEW bs, NEW n, IsVector(bs, n), n # 0,
           NEW cs, cs = SubSeq(bs, 1, LastUsed(bs))
    PROVE  IsVector(cs, n) /\ Agree(bs, cs, n)
<1> DEFINE b == LastUsed(bs)
<1>1. bs \in Seq(BlockSet) /\ Len(bs) \in Nat /\ n \in Nat /\ n = Passed(bs, Len(bs))
      /\ Len(bs) <= MaxBlocks
  BY VectorFacts DEF IsVector
<1>2. b \in 1..Len(bs) /\ Passed(bs, Len(bs)) = Passed(bs, b)
  <2> HIDE DEF b
  <2>1. b = LastUsed(bs) /\ Passed(bs, Len(bs)) # 0
    BY <1>1 DEF b
  <2> QED
    BY <1>1, <2>1, LastUsedFacts
<1> HIDE DEF b
<1>3. cs \in Seq(BlockSet) /\ Len(cs) = b /\ \A c \in 1..b : cs[c] = bs[c]
  BY <1>1, <1>2 DEF b
<1>4. Len(cs) <= Len(bs) /\ b \in Nat /\ Len(cs) <= MaxBlocks
  BY <1>1, <1>2, <1>3, VectorAssumption
<1>5. Passed(cs, Len(cs)) = n
  <2>1. \A c \in 1..b : SizeOf(cs[c]) = SizeOf(bs[c])
    BY <1>3
  <2>2. Passed(cs, b) = Passed(bs, b)
    BY <1>4, <2>1, SamePassed
  <2> QED
    BY <1>1, <1>2, <1>3, <2>2
<1>6. Agree(bs, cs, n)
  BY <1>1, <1>3, <1>4, <1>5, Beginning
<1> QED
  BY <1>3, <1>4, <1>5, <1>6 DEF IsVector

\* The lists after the first pops, in a function.
Pops(bs, n, f) ==
    /\ DOMAIN f = 0..n
    /\ \A k \in 0..n : f[k] = IF k = 0 THEN bs ELSE WithoutLast(f[k - 1])

LEMMA SamePops ==
    ASSUME NEW bs, NEW m \in Nat, NEW n \in Nat, NEW f, NEW g, Pops(bs, m, f), Pops(bs, n, g),
           NEW k \in Nat, k <= m, k <= n
    PROVE  f[k] = g[k]
<1> DEFINE S == {i \in Nat : i <= m /\ i <= n => f[i] = g[i]}
<1>1. 0 \in S
  BY DEF Pops
<1>2. ASSUME NEW i \in Nat, i \in S PROVE i + 1 \in S
  BY <1>2 DEF Pops
<1>3. k \in S
  <2> HIDE DEF S
  <2> QED
    BY <1>1, <1>2, NatInductionOnSet
<1> QED
  BY <1>3

LEMMA PopsExist ==
    ASSUME NEW bs, NEW n \in Nat
    PROVE  \E f : Pops(bs, n, f)
<1> DEFINE S == {m \in Nat : \E f : Pops(bs, m, f)}
<1>1. 0 \in S
  <2>1. Pops(bs, 0, [k \in 0..0 |-> bs])
    BY DEF Pops
  <2> QED
    BY <2>1
<1>2. ASSUME NEW m \in Nat, m \in S PROVE m + 1 \in S
  <2>1. PICK f : Pops(bs, m, f)
    BY <1>2
  <2> DEFINE g == [k \in 0..m + 1 |-> IF k = m + 1 THEN WithoutLast(f[m]) ELSE f[k]]
  <2>2. Pops(bs, m + 1, g)
    <3> SUFFICES ASSUME NEW k \in 0..m + 1
                 PROVE  g[k] = IF k = 0 THEN bs ELSE WithoutLast(g[k - 1])
      BY DEF Pops
    <3>1. CASE k = m + 1
      BY <2>1, <3>1 DEF Pops
    <3>2. CASE k # m + 1
      BY <2>1, <3>2 DEF Pops
    <3> QED
      BY <3>1, <3>2
  <2> QED
    BY <2>2
<1>3. n \in S
  <2> HIDE DEF S
  <2> QED
    BY <1>1, <1>2, NatInductionOnSet
<1> QED
  BY <1>3

\* The function AfterPops of ClearAll.
PopsOf(bs) == CHOOSE f : f = [n \in Nat |-> IF n = 0 THEN bs ELSE WithoutLast(f[n - 1])]

LEMMA PopsOfFacts ==
    ASSUME NEW bs
    PROVE  /\ PopsOf(bs)[0] = bs
           /\ \A n \in Nat : PopsOf(bs)[n + 1] = WithoutLast(PopsOf(bs)[n])
<1> DEFINE upTo(n) == CHOOSE f : Pops(bs, n, f)
           P == [n \in Nat |-> upTo(n)[n]]
<1>1. ASSUME NEW n \in Nat PROVE Pops(bs, n, upTo(n))
  BY PopsExist
<1> HIDE DEF upTo
<1>2. ASSUME NEW n \in Nat, NEW k \in 0..n PROVE P[k] = upTo(n)[k]
  <2>1. k \in Nat /\ k <= n
    OBVIOUS
  <2>2. upTo(k)[k] = upTo(n)[k]
    BY <1>1, <2>1, SamePops
  <2> QED
    BY <2>1, <2>2
<1>3. ASSUME NEW n \in Nat
      PROVE  P[n] = IF n = 0 THEN bs ELSE WithoutLast(P[n - 1])
  <2>1. P[n] = upTo(n)[n]
        /\ upTo(n)[n] = IF n = 0 THEN bs ELSE WithoutLast(upTo(n)[n - 1])
    BY <1>1 DEF Pops
  <2>2. n # 0 => P[n - 1] = upTo(n)[n - 1]
    BY <1>2
  <2> HIDE DEF P
  <2> QED
    BY <2>1, <2>2
<1>4. P = [n \in Nat |-> IF n = 0 THEN bs ELSE WithoutLast(P[n - 1])]
  <2> DEFINE body == [n \in Nat |-> IF n = 0 THEN bs ELSE WithoutLast(P[n - 1])]
  <2>1. \A n \in Nat : P[n] = body[n]
    BY <1>3
  <2>2. DOMAIN P = Nat /\ P = [n \in Nat |-> P[n]]
    OBVIOUS
  <2> HIDE DEF P
  <2> QED
    BY <2>1, <2>2
<1> DEFINE chosen == PopsOf(bs)
<1>5. chosen = [n \in Nat |-> IF n = 0 THEN bs ELSE WithoutLast(chosen[n - 1])]
  <2> HIDE DEF P
  <2> QED
    BY <1>4 DEF PopsOf
<1> HIDE DEF chosen
<1>6. ASSUME NEW n \in Nat
      PROVE  chosen[n] = IF n = 0 THEN bs ELSE WithoutLast(chosen[n - 1])
  <2> DEFINE body == [k \in Nat |-> IF k = 0 THEN bs ELSE WithoutLast(chosen[k - 1])]
  <2>1. chosen[n] = body[n]
    BY <1>5
  <2> QED
    BY <2>1
<1>7. chosen[0] = bs
  BY <1>6
<1>8. ASSUME NEW n \in Nat PROVE chosen[n + 1] = WithoutLast(chosen[n])
  <2>1. n + 1 \in Nat /\ n + 1 # 0 /\ (n + 1) - 1 = n
    OBVIOUS
  <2> QED
    BY <1>6, <2>1
<1> QED
  BY <1>7, <1>8 DEF chosen

LEMMA AllPopped ==
    ASSUME NEW bs, NEW n, IsVector(bs, n)
    PROVE  IsVector(PopsOf(bs)[n], 0)
<1> DEFINE S == {k \in Nat : k <= n => IsVector(PopsOf(bs)[k], n - k)}
<1>1. n \in Nat
  BY VectorFacts
<1>2. 0 \in S
  BY <1>1, PopsOfFacts
<1>3. ASSUME NEW k \in Nat, k \in S PROVE k + 1 \in S
  <2> SUFFICES ASSUME k + 1 <= n PROVE IsVector(PopsOf(bs)[k + 1], n - (k + 1))
    OBVIOUS
  <2> DEFINE m == n - k
             cs == PopsOf(bs)[k]
             ds == PopsOf(bs)[k + 1]
  <2>1. m # 0 /\ n - (k + 1) = m - 1
    BY <1>1
  <2>2. IsVector(cs, m)
    BY <1>1, <1>3
  <2>3. ds = WithoutLast(cs)
    BY PopsOfFacts
  <2> HIDE DEF m, cs, ds
  <2>4. IsVector(ds, m - 1)
    BY <2>1, <2>2, <2>3, PoppedList
  <2> QED
    BY <2>1, <2>4 DEF ds
<1>4. n \in S
  <2> HIDE DEF S
  <2> QED
    BY <1>1, <1>2, <1>3, NatInductionOnSet
<1> QED
  BY <1>1, <1>4

-----------------------------------------------------------------------------
(* The invariant *)

\* The list is one of blocks that are filled from their beginnings, and size()
\* is how many values they have.
IInv == IsVector(blocks, size)

LEMMA InitInv == Init => IInv
<1> SUFFICES ASSUME Init PROVE IInv
  OBVIOUS
<1>1. blocks = <<>> /\ size = 0
  BY DEF Init
<1>2. <<>> \in Seq(BlockSet) /\ Len(<<>>) = 0
  OBVIOUS
<1>3. Passed(<<>>, 0) = 0
  BY <1>2, PassedFacts
<1>4. 0 <= MaxBlocks
  BY VectorAssumption
<1> QED
  BY <1>1, <1>2, <1>3, <1>4 DEF IInv, IsVector

\* What each call does to the list.
LEMMA PushBackFacts ==
    ASSUME IInv, NEW v \in Values, PushBack(v)
    PROVE  IInv' /\ Agree(blocks, blocks', size) /\ Ref(blocks', size) = v /\ size' = size + 1
<1>1. blocks \in Seq(BlockSet) /\ Len(blocks) \in Nat /\ size \in Nat /\ Len(blocks) <= MaxBlocks
  BY VectorFacts DEF IInv, IsVector
<1>2. size' = size + 1 /\ FreeBlock <= MaxBlocks
  BY DEF PushBack
<1>3. CASE blocks # <<>> /\ HasRoom(Last(blocks))
  <2> DEFINE last == Len(blocks)
  <2>1. FreeBlock = last /\ ~(FreeBlock > Len(blocks))
    BY <1>1, <1>3 DEF FreeBlock
  <2>2. blocks' = Replaced(blocks, last, Pushed(blocks[last], v))
    BY <2>1 DEF PushBack, Replaced, Pushed
  <2>3. HasRoom(blocks[last])
    BY <1>3 DEF Last
  <2> DEFINE after == blocks'
  <2>4. after = Replaced(blocks, last, Pushed(blocks[last], v)) /\ last = Len(blocks)
    BY <2>2
  <2> HIDE DEF after, last
  <2>5. IsVector(after, size + 1) /\ Agree(blocks, after, size) /\ Ref(after, size) = v
    BY <1>3, <2>3, <2>4, PushedList DEF IInv
  <2> QED
    BY <1>2, <2>5 DEF after, IInv
<1>4. CASE ~(blocks # <<>> /\ HasRoom(Last(blocks)))
  <2> DEFINE longer == Append(blocks, NewBlock)
             last == Len(blocks) + 1
             after == blocks'
  <2>1. FreeBlock = last /\ FreeBlock > Len(blocks)
    BY <1>1, <1>4 DEF FreeBlock
  <2>2. after = Append(blocks, Pushed(NewBlock, v))
    BY <2>1 DEF PushBack, Pushed
  <2>3. Len(blocks) < MaxBlocks
    BY <1>1, <1>2, <2>1, VectorAssumption
  <2>4. longer = Append(blocks, NewBlock)
    OBVIOUS
  <2> HIDE DEF longer, after
  <2>5. /\ IsVector(longer, size) /\ Len(longer) = last /\ longer[last] = NewBlock
        /\ Agree(blocks, longer, size)
    BY <2>3, <2>4, AppendedList DEF IInv
  <2>6. after = Replaced(longer, last, Pushed(longer[last], v))
    <3> DEFINE r == Pushed(NewBlock, v)
    <3>1. r \in BlockSet
      BY NewBlockFacts, PushedFacts
    <3>2. Pushed(longer[last], v) = r
      BY <2>5
    <3> HIDE DEF r
    <3>3. NewBlock \in BlockSet
      BY NewBlockFacts
    <3>4. /\ longer \in Seq(BlockSet) /\ Len(longer) = last
          /\ \A c \in 1..last - 1 : longer[c] = blocks[c]
      BY <1>1, <2>4, <3>3
    <3>5. /\ after \in Seq(BlockSet) /\ Len(after) = last
          /\ \A c \in 1..last - 1 : after[c] = blocks[c]
          /\ after[last] = r
      BY <1>1, <2>2, <3>1 DEF r
    <3> DEFINE replaced == Replaced(longer, last, r)
    <3>6. /\ replaced \in Seq(BlockSet) /\ Len(replaced) = last
          /\ \A c \in 1..last - 1 : replaced[c] = longer[c]
          /\ replaced[last] = r
      BY <1>1, <3>1, <3>4 DEF Replaced
    <3> HIDE DEF replaced
    <3>7. \A c \in 1..last : after[c] = replaced[c]
      BY <1>1, <3>4, <3>5, <3>6
    <3>8. after = replaced
      BY <3>5, <3>6, <3>7
    <3> QED
      BY <3>2, <3>8 DEF replaced
  <2>7. longer # <<>> /\ HasRoom(longer[last]) /\ last = Len(longer)
    BY <1>1, <2>5, NewBlockFacts
  <2> HIDE DEF last
  <2>8. IsVector(after, size + 1) /\ Agree(longer, after, size) /\ Ref(after, size) = v
    BY <2>5, <2>6, <2>7, PushedList
  <2>9. Agree(blocks, after, size)
    BY <2>5, <2>8 DEF Agree
  <2> QED
    BY <1>2, <2>8, <2>9 DEF after, IInv
<1> QED
  BY <1>3, <1>4

LEMMA PopBackFacts ==
    ASSUME IInv, PopBack
    PROVE  IInv' /\ Agree(blocks, blocks', size - 1) /\ size' = size - 1 /\ size > 0
<1> DEFINE after == blocks'
<1>1. size \in Nat /\ size > 0 /\ size' = size - 1 /\ after = WithoutLast(blocks)
  BY VectorFacts DEF IInv, PopBack
<1> HIDE DEF after
<1>2. size # 0
  BY <1>1
<1>3. IsVector(after, size - 1) /\ Agree(blocks, after, size - 1)
  BY <1>1, <1>2, PoppedList DEF IInv
<1> QED
  BY <1>1, <1>3 DEF IInv, after

LEMMA ClearAllFacts ==
    ASSUME IInv, ClearAll
    PROVE  IInv' /\ size' = 0 /\ size > 0
<1>1. size' = 0 /\ size > 0 /\ blocks' = PopsOf(blocks)[size]
  BY DEF ClearAll, PopsOf
<1>2. IsVector(PopsOf(blocks)[size], 0)
  BY AllPopped DEF IInv
<1> QED
  BY <1>1, <1>2 DEF IInv

LEMMA AssignFacts ==
    ASSUME IInv, NEW i \in 0..size - 1, NEW v \in Values, Assign(i, v)
    PROVE  /\ IInv' /\ size' = size /\ Ref(blocks', i) = v
           /\ \A h \in 0..size - 1 : Place(blocks', h) = Place(blocks, h)
           /\ \A h \in 0..size - 1 : h # i => Ref(blocks', h) = Ref(blocks, h)
<1> DEFINE after == blocks'
<1>1. size' = size /\ after = Assigned(blocks, i, v)
  BY DEF Assign, Assigned, Replaced
<1> HIDE DEF after
<1>2. /\ IsVector(after, size) /\ Ref(after, i) = v
      /\ \A h \in 0..size - 1 : Place(after, h) = Place(blocks, h)
      /\ \A h \in 0..size - 1 : h # i => Ref(after, h) = Ref(blocks, h)
  BY <1>1, AssignedList DEF IInv
<1> QED
  BY <1>1, <1>2 DEF IInv, after

LEMMA ShrinkToFitFacts ==
    ASSUME IInv, ShrinkToFit
    PROVE  IInv' /\ Agree(blocks, blocks', size) /\ size' = size
<1> DEFINE after == blocks'
<1>1. size \in Nat /\ size' = size
      /\ after = IF size = 0 THEN <<>> ELSE SubSeq(blocks, 1, LastUsed(blocks))
  BY VectorFacts DEF IInv, ShrinkToFit
<1> HIDE DEF after
<1>2. IsVector(after, size) /\ Agree(blocks, after, size)
  <2>1. CASE size = 0
    <3>1. <<>> \in Seq(BlockSet) /\ Len(<<>>) = 0
      OBVIOUS
    <3>2. Passed(<<>>, 0) = 0
      BY <3>1, PassedFacts
    <3>3. IsVector(<<>>, 0)
      BY <3>1, <3>2, VectorAssumption DEF IsVector
    <3>4. Agree(blocks, after, 0)
      BY DEF Agree
    <3> QED
      BY <1>1, <2>1, <3>3, <3>4
  <2>2. CASE size # 0
    BY <1>1, <2>2, ShrunkList DEF IInv
  <2> QED
    BY <2>1, <2>2
<1> QED
  BY <1>1, <1>2 DEF IInv, after

LEMMA StepFacts ==
    ASSUME IInv, [Next]_vars
    PROVE  IInv' /\ \A i \in 0..size - 1 : i < size' => Place(blocks', i) = Place(blocks, i)
<1>1. size \in Nat
  BY VectorFacts DEF IInv
<1>2. ASSUME NEW v \in Values, PushBack(v)
      PROVE  IInv' /\ \A i \in 0..size - 1 : i < size' => Place(blocks', i) = Place(blocks, i)
  BY <1>2, PushBackFacts DEF Agree
<1>3. ASSUME NEW v \in Values, NEW i \in 0..size - 1, Assign(i, v)
      PROVE  IInv' /\ \A h \in 0..size - 1 : h < size' => Place(blocks', h) = Place(blocks, h)
  BY <1>3, AssignFacts
<1>4. CASE PopBack
  <2>1. IInv' /\ Agree(blocks, blocks', size - 1) /\ size' = size - 1
    BY <1>4, PopBackFacts
  <2>2. \A i \in 0..size - 1 : i < size' => i \in 0..(size - 1) - 1
    BY <1>1, <2>1
  <2> QED
    BY <2>1, <2>2 DEF Agree
<1>5. CASE ClearAll
  <2>1. IInv' /\ size' = 0
    BY <1>5, ClearAllFacts
  <2> QED
    BY <1>1, <2>1
<1>6. CASE ShrinkToFit
  BY <1>6, ShrinkToFitFacts DEF Agree
<1>7. CASE UNCHANGED vars
  <2>1. blocks' = blocks /\ size' = size
    BY <1>7 DEF vars
  <2>2. IInv'
    BY <2>1 DEF IInv, IsVector
  <2> QED
    BY <2>1, <2>2
<1> QED
  BY <1>2, <1>3, <1>4, <1>5, <1>6, <1>7 DEF Next

LEMMA TypeHolds == IInv => TypeOK
<1> SUFFICES ASSUME IInv PROVE TypeOK
  OBVIOUS
<1>1. /\ blocks \in Seq(BlockSet) /\ Len(blocks) <= MaxBlocks /\ size = Passed(blocks, Len(blocks))
      /\ DOMAIN blocks = 1..Len(blocks)
  BY DEF IInv, IsVector
<1>2. ASSUME NEW block \in BlockSet
      PROVE  /\ block.free \in block.start..EndOf(block)
             /\ \A ptr \in block.start..EndOf(block) - 1 :
                  block.memory[ptr] \in
                    IF ptr % ValueSize = 0 /\ ptr < block.free THEN Values ELSE {Dead}
  <2> DEFINE k == SizeOf(block)
  <2>1. /\ k \in Nat /\ block.start = 0 /\ EndOf(block) = BlockSize
        /\ block.free = k * ValueSize /\ block.free \in 0..BlockSize
        /\ \A i \in 0..k - 1 :
             /\ Data(block, i) = i * ValueSize /\ Data(block, i) \in 0..BlockSize - 1
             /\ Data(block, i) + ValueSize <= block.free
             /\ ValueOf(block, i) \in Values
        /\ \A x \in 0..BlockSize - 1 :
             ~(\E i \in 0..k - 1 : x = i * ValueSize) => block.memory[x] = Dead
    BY BlockFacts
  <2> HIDE DEF k
  <2>2. ASSUME NEW ptr \in 0..BlockSize - 1
        PROVE  block.memory[ptr] \in
                 IF ptr % ValueSize = 0 /\ ptr < block.free THEN Values ELSE {Dead}
    <3>1. CASE ptr % ValueSize = 0 /\ ptr < block.free
      <4> DEFINE q == ptr \div ValueSize
      <4>1. ptr \in Nat
        OBVIOUS
      <4>2. q \in Nat /\ ptr = q * ValueSize + (ptr % ValueSize)
        BY <4>1, IsMultiple
      <4> HIDE DEF q
      <4>3. q * ValueSize \in Nat
        BY <4>2, MultipleIsNat
      <4>4. ptr = q * ValueSize
        BY <3>1, <4>2, <4>3
      <4>5. q * ValueSize < k * ValueSize
        BY <2>1, <3>1, <4>4
      <4>6. q < k
        <5>1. q \in Int /\ k \in Int
          BY <2>1, <4>2
        <5> QED
          BY <4>5, <5>1, Multiples
      <4>7. q \in 0..k - 1
        BY <2>1, <4>2, <4>6
      <4>8. Data(block, q) = ptr /\ ValueOf(block, q) \in Values
        BY <2>1, <4>4, <4>7
      <4> QED
        BY <3>1, <4>8 DEF ValueOf
    <3>2. CASE ~(ptr % ValueSize = 0 /\ ptr < block.free)
      <4>1. ~(\E i \in 0..k - 1 : ptr = i * ValueSize)
        <5> SUFFICES ASSUME NEW i \in 0..k - 1, ptr = i * ValueSize PROVE FALSE
          OBVIOUS
        <5>1. i \in Int
          OBVIOUS
        <5>2. ptr % ValueSize = 0
          BY <5>1, Multiples
        <5>3. Data(block, i) = ptr /\ Data(block, i) + ValueSize <= block.free
          BY <2>1
        <5>4. ptr < block.free
          BY <2>1, <5>3, Sizes
        <5> QED
          BY <3>2, <5>2, <5>4
      <4>2. block.memory[ptr] = Dead
        BY <2>1, <4>1
      <4> QED
        BY <3>2, <4>2
    <3> QED
      BY <3>1, <3>2
  <2> QED
    BY <2>1, <2>2
<1>3. \A b \in DOMAIN blocks : blocks[b] \in BlockSet
  BY <1>1
<1> QED
  BY <1>1, <1>2, <1>3 DEF TypeOK

LEMMA InvAlways == Spec => []IInv
<1>1. IInv /\ [Next]_vars => IInv'
  BY StepFacts
<1> QED
  BY <1>1, InitInv, PTL DEF Spec

\* The type invariant: every byte of a block holds what it should, the values
\* lie from its beginning to its free pointer, and size() counts them.
THEOREM TypeCorrect == Spec => []TypeOK
BY InvAlways, TypeHolds, PTL

\* The address of a value does not change while the value is there.
THEOREM ElementsAlwaysStay == Spec => ElementsStay
<1>1. IInv /\ [Next]_vars =>
        [\A i \in 0..size - 1 : i < size' => Place(blocks', i) = Place(blocks, i)]_vars
  BY StepFacts
<1> QED
  BY <1>1, InvAlways, PTL DEF Spec, ElementsStay

-----------------------------------------------------------------------------
(* The sequence that is promised *)

ContentOf(bs, n) == [i \in 1..n |-> Ref(bs, i - 1)]

LEMMA ContentFacts ==
    ASSUME NEW bs, NEW n, IsVector(bs, n), NEW c, c = ContentOf(bs, n)
    PROVE  /\ c \in Seq(Values) /\ Len(c) = n /\ n \in Nat /\ DOMAIN c = 1..n
           /\ \A i \in 1..n : c[i] = Ref(bs, i - 1)
<1>1. bs \in Seq(BlockSet) /\ n \in Nat /\ n = Passed(bs, Len(bs))
  BY VectorFacts DEF IsVector
<1>2. ASSUME NEW i \in 0..n - 1 PROVE Ref(bs, i) \in Values
  <2>1. i \in Nat /\ i \in Int /\ i < Passed(bs, Len(bs))
    BY <1>1
  <2>2. PICK b : Found(bs, i, b)
    BY <1>1, <2>1, FoundExists
  <2> DEFINE j == i - Passed(bs, b - 1)
  <2>3. j \in 0..SizeOf(bs[b]) - 1 /\ Ref(bs, i) = ValueOf(bs[b], j)
    BY <1>1, <2>1, <2>2, SeekIs
  <2>4. bs[b] \in BlockSet
    BY <1>1, <2>2 DEF Found
  <2> HIDE DEF j
  <2> QED
    BY <2>3, <2>4, BlockFacts
<1>3. \A i \in 1..n : i - 1 \in 0..n - 1
  BY <1>1
<1>4. c \in [1..n -> Values] /\ \A i \in 1..n : c[i] = Ref(bs, i - 1)
  BY <1>2, <1>3 DEF ContentOf
<1> QED
  BY <1>1, <1>4

LEMMA ContentIs == Content = ContentOf(blocks, size)
BY DEF Content, ContentOf

LEMMA SequenceStep ==
    ASSUME IInv, [Next]_vars
    PROVE  [Sequence!Next]_Content
<1> DEFINE after == blocks'
           n == size
           m == size'
           c == ContentOf(blocks, n)
           d == ContentOf(after, m)
<1>1. Content = c /\ Content' = d
  BY DEF Content, ContentOf
<1>2. IsVector(blocks, n) /\ IsVector(after, m)
  BY StepFacts DEF IInv
<1> HIDE DEF after, n, m, c, d
<1>3. /\ c \in Seq(Values) /\ Len(c) = n /\ n \in Nat /\ DOMAIN c = 1..n
      /\ \A i \in 1..n : c[i] = Ref(blocks, i - 1)
  BY <1>2, ContentFacts DEF c
<1>4. /\ d \in Seq(Values) /\ Len(d) = m /\ m \in Nat /\ DOMAIN d = 1..m
      /\ \A i \in 1..m : d[i] = Ref(after, i - 1)
  BY <1>2, ContentFacts DEF d
<1>5. ASSUME NEW v \in Values, PushBack(v) PROVE d = Append(c, v)
  <2>1. Agree(blocks, after, n) /\ Ref(after, n) = v /\ m = n + 1
    BY <1>5, PushBackFacts DEF after, m, n
  <2>2. \A i \in 1..n : i - 1 \in 0..n - 1
    BY <1>3
  <2>3. \A i \in 1..n : d[i] = c[i]
    BY <1>3, <1>4, <2>1, <2>2 DEF Agree
  <2>4. d[n + 1] = v
    BY <1>3, <1>4, <2>1
  <2> DEFINE e == Append(c, v)
  <2>5. e \in Seq(Values) /\ Len(e) = n + 1 /\ e[n + 1] = v /\ \A i \in 1..n : e[i] = c[i]
    BY <1>3
  <2> HIDE DEF e
  <2>6. d = e
    BY <1>3, <1>4, <2>1, <2>3, <2>4, <2>5
  <2> QED
    BY <2>6 DEF e
<1>6. ASSUME NEW v \in Values, NEW i \in 0..size - 1, Assign(i, v)
      PROVE  i + 1 \in DOMAIN c /\ d = [c EXCEPT ![i + 1] = v]
  <2>1. /\ m = n /\ Ref(after, i) = v /\ i \in 0..n - 1
        /\ \A h \in 0..n - 1 : h # i => Ref(after, h) = Ref(blocks, h)
    BY <1>6, AssignFacts DEF after, m, n
  <2>2. \A h \in 1..n : h - 1 \in 0..n - 1 /\ (h - 1 = i <=> h = i + 1)
    BY <1>3, <2>1
  <2>3. \A h \in 1..n : d[h] = IF h = i + 1 THEN v ELSE c[h]
    BY <1>3, <1>4, <2>1, <2>2
  <2>4. i + 1 \in 1..n
    BY <1>3, <2>1
  <2> DEFINE e == [c EXCEPT ![i + 1] = v]
  <2>5. e \in Seq(Values) /\ Len(e) = n /\ \A h \in 1..n : e[h] = IF h = i + 1 THEN v ELSE c[h]
    BY <1>3, <2>4
  <2> HIDE DEF e
  <2>6. d = e
    BY <1>3, <1>4, <2>1, <2>3, <2>5
  <2> QED
    BY <1>3, <2>4, <2>6 DEF e
<1>7. ASSUME PopBack PROVE c # <<>> /\ d = Front(c)
  <2>1. Agree(blocks, after, n - 1) /\ m = n - 1 /\ n > 0
    BY <1>7, PopBackFacts DEF after, m, n
  <2>2. \A i \in 1..n - 1 : i - 1 \in 0..(n - 1) - 1 /\ i \in 1..n
    BY <1>3
  <2>3. \A i \in 1..n - 1 : d[i] = c[i]
    BY <1>3, <1>4, <2>1, <2>2 DEF Agree
  <2> DEFINE e == SubSeq(c, 1, n - 1)
  <2>4. e \in Seq(Values) /\ Len(e) = n - 1 /\ \A i \in 1..n - 1 : e[i] = c[i]
    BY <1>3, <2>1
  <2> HIDE DEF e
  <2>5. d = e
    BY <1>3, <1>4, <2>1, <2>3, <2>4
  <2> QED
    BY <1>3, <2>1, <2>5 DEF e, Front
<1>8. ASSUME ClearAll PROVE d = <<>>
  <2>1. m = 0
    BY <1>8, ClearAllFacts DEF m
  <2> QED
    BY <1>4, <2>1
<1>9. ASSUME ShrinkToFit PROVE d = c
  <2>1. Agree(blocks, after, n) /\ m = n
    BY <1>9, ShrinkToFitFacts DEF after, m, n
  <2>2. \A i \in 1..n : i - 1 \in 0..n - 1
    BY <1>3
  <2>3. \A i \in 1..n : d[i] = c[i]
    BY <1>3, <1>4, <2>1, <2>2 DEF Agree
  <2> QED
    BY <1>3, <1>4, <2>1, <2>3
<1>10. ASSUME UNCHANGED vars PROVE d = c
  BY <1>10 DEF vars, c, d, after, m, n
<1>11. \/ \E v \in Values : \/ d = Append(c, v)
                            \/ \E i \in DOMAIN c : d = [c EXCEPT ![i] = v]
       \/ c # <<>> /\ d = Front(c)
       \/ d = <<>>
       \/ d = c
  BY <1>5, <1>6, <1>7, <1>8, <1>9, <1>10 DEF Next
<1> QED
  BY <1>1, <1>11 DEF Sequence!Next, Sequence!Push, Sequence!Pop, Sequence!Clear, Sequence!Assign,
                     Sequence!Front, Front

\* Whatever calls leave the blocks half empty or empty, the vector is the
\* sequence that the pushed, assigned and popped values make.
THEOREM VectorImplementsSequence == Spec => ImplementsSequence
<1>1. Init => Sequence!Init
  <2> SUFFICES ASSUME Init PROVE Content = <<>>
    BY DEF Sequence!Init
  <2>1. IInv /\ size = 0
    BY InitInv DEF Init
  <2>2. Content \in Seq(Values) /\ Len(Content) = 0
    BY <2>1, ContentFacts, ContentIs DEF IInv
  <2> QED
    BY <2>2
<1>2. IInv /\ [Next]_vars => [Sequence!Next]_Content
  BY SequenceStep
<1> QED
  BY <1>1, <1>2, InvAlways, PTL DEF Spec, ImplementsSequence, Sequence!Spec

-----------------------------------------------------------------------------
(* Loops *)

\* The step of a loop, and its first iterators in a function.
Step(forwards, it) == IF forwards THEN Increment(it) ELSE Decrement(it)

Walk(forwards, n, f) ==
    /\ DOMAIN f = 0..n
    /\ \A k \in 0..n : f[k] = IF k = 0 THEN Start(forwards) ELSE Step(forwards, f[k - 1])

LEMMA SameWalk ==
    ASSUME NEW w, NEW m \in Nat, NEW n \in Nat, NEW f, NEW g, Walk(w, m, f), Walk(w, n, g),
           NEW k \in Nat, k <= m, k <= n
    PROVE  f[k] = g[k]
<1> DEFINE S == {i \in Nat : i <= m /\ i <= n => f[i] = g[i]}
<1>1. 0 \in S
  BY DEF Walk
<1>2. ASSUME NEW i \in Nat, i \in S PROVE i + 1 \in S
  BY <1>2 DEF Walk
<1>3. k \in S
  <2> HIDE DEF S
  <2> QED
    BY <1>1, <1>2, NatInductionOnSet
<1> QED
  BY <1>3

LEMMA WalkExists ==
    ASSUME NEW w, NEW n \in Nat
    PROVE  \E f : Walk(w, n, f)
<1> DEFINE S == {m \in Nat : \E f : Walk(w, m, f)}
<1>1. 0 \in S
  <2>1. Walk(w, 0, [k \in 0..0 |-> Start(w)])
    BY DEF Walk
  <2> QED
    BY <2>1
<1>2. ASSUME NEW m \in Nat, m \in S PROVE m + 1 \in S
  <2>1. PICK f : Walk(w, m, f)
    BY <1>2
  <2> DEFINE g == [k \in 0..m + 1 |-> IF k = m + 1 THEN Step(w, f[m]) ELSE f[k]]
  <2>2. Walk(w, m + 1, g)
    <3> SUFFICES ASSUME NEW k \in 0..m + 1
                 PROVE  g[k] = IF k = 0 THEN Start(w) ELSE Step(w, g[k - 1])
      BY DEF Walk
    <3>1. CASE k = m + 1
      BY <2>1, <3>1 DEF Walk
    <3>2. CASE k # m + 1
      BY <2>1, <3>2 DEF Walk
    <3> QED
      BY <3>1, <3>2
  <2> QED
    BY <2>2
<1>3. n \in S
  <2> HIDE DEF S
  <2> QED
    BY <1>1, <1>2, NatInductionOnSet
<1> QED
  BY <1>3

LEMMA IteratorsFacts ==
    ASSUME NEW w
    PROVE  /\ Iterators(w)[0] = Start(w)
           /\ \A n \in Nat : Iterators(w)[n + 1] = Step(w, Iterators(w)[n])
<1> DEFINE upTo(n) == CHOOSE f : Walk(w, n, f)
           P == [n \in Nat |-> upTo(n)[n]]
<1>1. ASSUME NEW n \in Nat PROVE Walk(w, n, upTo(n))
  BY WalkExists
<1> HIDE DEF upTo
<1>2. ASSUME NEW n \in Nat, NEW k \in 0..n PROVE P[k] = upTo(n)[k]
  <2>1. k \in Nat /\ k <= n
    OBVIOUS
  <2>2. upTo(k)[k] = upTo(n)[k]
    BY <1>1, <2>1, SameWalk
  <2> QED
    BY <2>1, <2>2
<1>3. ASSUME NEW n \in Nat
      PROVE  P[n] = IF n = 0 THEN Start(w) ELSE Step(w, P[n - 1])
  <2>1. P[n] = upTo(n)[n]
        /\ upTo(n)[n] = IF n = 0 THEN Start(w) ELSE Step(w, upTo(n)[n - 1])
    BY <1>1 DEF Walk
  <2>2. n # 0 => P[n - 1] = upTo(n)[n - 1]
    BY <1>2
  <2> HIDE DEF P
  <2> QED
    BY <2>1, <2>2
<1>4. P = [n \in Nat |-> IF n = 0 THEN Start(w) ELSE Step(w, P[n - 1])]
  <2> DEFINE body == [n \in Nat |-> IF n = 0 THEN Start(w) ELSE Step(w, P[n - 1])]
  <2>1. \A n \in Nat : P[n] = body[n]
    BY <1>3
  <2>2. DOMAIN P = Nat /\ P = [n \in Nat |-> P[n]]
    OBVIOUS
  <2> HIDE DEF P
  <2> QED
    BY <2>1, <2>2
<1> DEFINE chosen ==
             CHOOSE f : f = [n \in Nat |-> IF n = 0 THEN Start(w) ELSE Step(w, f[n - 1])]
<1>5. Iterators(w) = chosen
  BY DEF Iterators, Step
<1>6. chosen = [n \in Nat |-> IF n = 0 THEN Start(w) ELSE Step(w, chosen[n - 1])]
  <2> HIDE DEF P
  <2> QED
    BY <1>4
<1> HIDE DEF chosen
<1>7. ASSUME NEW n \in Nat
      PROVE  chosen[n] = IF n = 0 THEN Start(w) ELSE Step(w, chosen[n - 1])
  <2> DEFINE body == [k \in Nat |-> IF k = 0 THEN Start(w) ELSE Step(w, chosen[k - 1])]
  <2>1. chosen[n] = body[n]
    BY <1>6
  <2> QED
    BY <2>1
<1>8. ASSUME NEW n \in Nat PROVE chosen[n + 1] = Step(w, chosen[n])
  <2>1. n + 1 \in Nat /\ n + 1 # 0 /\ (n + 1) - 1 = n
    OBVIOUS
  <2> QED
    BY <1>7, <2>1
<1> QED
  BY <1>5, <1>7, <1>8

\* The values among the first ones that are not dead, for each number of them.
Living(values, f) ==
    \A n \in 0..Len(values) :
      f[n] = IF n = 0 THEN <<>>
             ELSE IF values[n] # Dead THEN Append(f[n - 1], values[n]) ELSE f[n - 1]

LEMMA LiveExists ==
    ASSUME NEW values, Len(values) \in Nat
    PROVE  \E f : Living(values, f) /\ Live(values) = f[Len(values)]
<1> DEFINE next(f, n) ==
             IF n = 0 THEN <<>>
             ELSE IF values[n] # Dead THEN Append(f[n - 1], values[n]) ELSE f[n - 1]
           Exists(m) == \E f : f = [n \in 0..m |-> next(f, n)]
<1>1. Exists(0)
  <2> DEFINE f == [n \in 0..0 |-> <<>>]
  <2>1. f = [n \in 0..0 |-> next(f, n)]
    OBVIOUS
  <2> QED
    BY <2>1
<1>2. ASSUME NEW m \in Nat, Exists(m) PROVE Exists(m + 1)
  <2>1. PICK f : f = [n \in 0..m |-> next(f, n)]
    BY <1>2
  <2> DEFINE last == IF values[m + 1] # Dead THEN Append(f[m], values[m + 1]) ELSE f[m]
             g == [n \in 0..m + 1 |-> IF n = m + 1 THEN last ELSE f[n]]
  <2>2. ASSUME NEW n \in 0..m + 1 PROVE g[n] = next(g, n)
    <3>1. CASE n = m + 1
      BY <3>1
    <3>2. CASE n # m + 1
      <4>1. n \in 0..m /\ (n # 0 => n - 1 \in 0..m)
        BY <3>2
      <4>2. f[n] = next(f, n)
        BY <2>1, <4>1
      <4>3. g[n] = f[n] /\ (n # 0 => g[n - 1] = f[n - 1])
        BY <3>2, <4>1
      <4> HIDE DEF g
      <4> QED
        BY <4>2, <4>3
    <3> QED
      BY <3>1, <3>2
  <2>3. g = [n \in 0..m + 1 |-> next(g, n)]
    <3>1. g = [n \in 0..m + 1 |-> g[n]]
      OBVIOUS
    <3> HIDE DEF g, next
    <3> QED
      BY <2>2, <3>1
  <2> QED
    BY <2>3
<1>3. Exists(Len(values))
  <2> DEFINE S == {m \in Nat : Exists(m)}
  <2> HIDE DEF Exists
  <2>1. 0 \in S /\ \A n \in Nat : n \in S => n + 1 \in S
    BY <1>1, <1>2
  <2> HIDE DEF S
  <2>2. Len(values) \in S
    BY <2>1, NatInductionOnSet
  <2> QED
    BY <2>2 DEF S
<1> DEFINE F == CHOOSE h : h = [n \in 0..Len(values) |-> next(h, n)]
<1>4. F = [n \in 0..Len(values) |-> next(F, n)]
  BY <1>3
<1>5. Live(values) = F[Len(values)]
  BY DEF Live
<1> HIDE DEF F
<1>6. ASSUME NEW n \in 0..Len(values) PROVE F[n] = next(F, n)
  <2> DEFINE body == [k \in 0..Len(values) |-> next(F, k)]
  <2>1. F[n] = body[n]
    BY <1>4
  <2> QED
    BY <2>1
<1>7. Living(values, F)
  BY <1>6 DEF Living
<1> QED
  BY <1>5, <1>7

\* A sequence of values and dead places has the values of another sequence when
\* the next one is met at each place, or a dead place.
LEMMA LiveIs ==
    ASSUME NEW content \in Seq(Values), NEW values, NEW m \in Nat, Len(values) = m,
           NEW count, count[0] = 0, count[m] = Len(content),
           \A n \in 0..m : count[n] \in 0..Len(content),
           \A n \in 1..m :
             \/ values[n] = Dead /\ count[n] = count[n - 1]
             \/ count[n] = count[n - 1] + 1 /\ values[n] = content[count[n]]
    PROVE  Live(values) = content
<1>1. PICK f : Living(values, f) /\ Live(values) = f[m]
  BY LiveExists
<1> DEFINE S == {n \in Nat : n <= m => f[n] = SubSeq(content, 1, count[n])}
<1>2. 0 \in S
  <2>1. f[0] = <<>>
    BY <1>1 DEF Living
  <2> DEFINE none == SubSeq(content, 1, 0)
  <2>2. none = <<>>
    OBVIOUS
  <2>3. f[0] = SubSeq(content, 1, count[0])
    BY <2>1, <2>2
  <2> QED
    BY <2>3
<1>3. ASSUME NEW n \in Nat, n \in S PROVE n + 1 \in S
  <2> SUFFICES ASSUME n + 1 <= m PROVE f[n + 1] = SubSeq(content, 1, count[n + 1])
    OBVIOUS
  <2>1. n + 1 \in 1..m /\ n + 1 \in 0..m /\ n \in 0..m /\ (n + 1) - 1 = n
    OBVIOUS
  <2>2. f[n] = SubSeq(content, 1, count[n])
    BY <1>3, <2>1
  <2>3. f[n + 1] = IF values[n + 1] # Dead THEN Append(f[n], values[n + 1]) ELSE f[n]
    BY <1>1, <2>1 DEF Living
  <2> DEFINE k == count[n]
             l == count[n + 1]
  <2>4. k \in 0..Len(content) /\ l \in 0..Len(content)
        /\ (\/ values[n + 1] = Dead /\ l = k
            \/ l = k + 1 /\ values[n + 1] = content[l])
    BY <2>1
  <2> HIDE DEF k, l
  <2>5. CASE values[n + 1] = Dead /\ l = k
    BY <2>2, <2>3, <2>5 DEF k, l
  <2>6. CASE l = k + 1 /\ values[n + 1] = content[l]
    <3>1. l \in 1..Len(content) /\ content[l] \in Values
      BY <2>4, <2>6
    <3>2. values[n + 1] # Dead
      BY <2>6, <3>1, VectorAssumption
    <3> DEFINE shorter == SubSeq(content, 1, k)
               longer == SubSeq(content, 1, l)
               appended == Append(shorter, content[l])
    <3>3. shorter \in Seq(Values) /\ Len(shorter) = k /\ \A i \in 1..k : shorter[i] = content[i]
      BY <2>4
    <3>4. longer \in Seq(Values) /\ Len(longer) = l /\ \A i \in 1..l : longer[i] = content[i]
      BY <2>4
    <3> HIDE DEF shorter, longer
    <3>5. appended \in Seq(Values) /\ Len(appended) = k + 1 /\ appended[k + 1] = content[l]
          /\ \A i \in 1..k : appended[i] = content[i]
      BY <2>4, <3>1, <3>3
    <3> HIDE DEF appended
    <3>6. longer = appended
      BY <2>4, <2>6, <3>4, <3>5
    <3> QED
      BY <2>2, <2>3, <2>6, <3>2, <3>6 DEF shorter, longer, appended, k, l
  <2> QED
    BY <2>4, <2>5, <2>6
<1>4. m \in S
  <2> HIDE DEF S
  <2> QED
    BY <1>2, <1>3, NatInductionOnSet
<1>5. f[m] = SubSeq(content, 1, Len(content))
  BY <1>4
<1> DEFINE all == SubSeq(content, 1, Len(content))
<1>6. all \in Seq(Values) /\ Len(all) = Len(content) /\ \A i \in 1..Len(content) : all[i] = content[i]
  OBVIOUS
<1> HIDE DEF all, S
<1>7. all = content
  BY <1>6
<1> QED
  BY <1>1, <1>5, <1>7 DEF all

\* How many of the first blocks are empty.
Empties(b) == Cardinality({c \in 1..b : IsEmpty(blocks[c])})

\* How often a loop runs in a block, and up to its end.
Width(b) == IF IsEmpty(blocks[b]) THEN 1 ELSE SizeOf(blocks[b])

Ends(b) == Passed(blocks, b) + Empties(b)

LEMMA ListFacts ==
    ASSUME IInv
    PROVE  /\ blocks \in Seq(BlockSet) /\ Len(blocks) \in Nat /\ size \in Nat
           /\ size = Passed(blocks, Len(blocks)) /\ DOMAIN blocks = 1..Len(blocks)
           /\ \A b \in 1..Len(blocks) :
                /\ blocks[b] \in BlockSet /\ SizeOf(blocks[b]) \in Nat
                /\ IsEmpty(blocks[b]) <=> SizeOf(blocks[b]) = 0
                /\ First(b) = 0 /\ LastPos(b) = (SizeOf(blocks[b]) - 1) * ValueSize
<1>1. /\ blocks \in Seq(BlockSet) /\ Len(blocks) \in Nat /\ size \in Nat
      /\ size = Passed(blocks, Len(blocks)) /\ DOMAIN blocks = 1..Len(blocks)
  BY VectorFacts DEF IInv, IsVector
<1>2. ASSUME NEW b \in 1..Len(blocks)
      PROVE  /\ blocks[b] \in BlockSet /\ SizeOf(blocks[b]) \in Nat
             /\ IsEmpty(blocks[b]) <=> SizeOf(blocks[b]) = 0
             /\ First(b) = 0 /\ LastPos(b) = (SizeOf(blocks[b]) - 1) * ValueSize
  <2> DEFINE block == blocks[b]
             k == SizeOf(block)
  <2>1. block \in BlockSet
    BY <1>1
  <2> HIDE DEF block
  <2>2. /\ k \in Nat /\ block.start = 0 /\ block.free = k * ValueSize
        /\ IsEmpty(block) <=> k = 0
    BY <2>1, BlockFacts
  <2> HIDE DEF k
  <2>3. k \in Int
    BY <2>2
  <2>4. (k - 1) * ValueSize = k * ValueSize - ValueSize
    BY <2>3, Multiples
  <2> QED
    BY <2>1, <2>2, <2>4 DEF First, LastPos, block, k
<1> QED
  BY <1>1, <1>2

LEMMA EndsFacts ==
    ASSUME IInv, NEW L, L = Len(blocks)
    PROVE  /\ Ends(0) = 0 /\ Empties(0) = 0
           /\ \A b \in 0..L : Ends(b) \in Nat /\ Ends(b) <= Ends(L)
           /\ \A b \in 0..L : Empties(b) \in Nat /\ Empties(b) <= b
           /\ \A b \in 0..L : Passed(blocks, b) \in Nat /\ Passed(blocks, b) <= size
           /\ \A b \in 1..L : Ends(b) = Ends(b - 1) + Width(b) /\ Width(b) \in Nat \ {0}
           /\ \A b \in 1..L : Empties(b) = Empties(b - 1) + IF IsEmpty(blocks[b]) THEN 1 ELSE 0
           /\ \A b \in 1..L : Passed(blocks, b) = Passed(blocks, b - 1) + SizeOf(blocks[b])
           /\ Ends(L) = size + Empties(L) /\ Empties(L) = Cardinality(EmptyBlocks)
<1> DEFINE among(b) == {c \in 1..b : IsEmpty(blocks[c])}
<1>1. /\ blocks \in Seq(BlockSet) /\ L \in Nat /\ size \in Nat
      /\ size = Passed(blocks, L) /\ DOMAIN blocks = 1..L
      /\ \A b \in 1..L : SizeOf(blocks[b]) \in Nat /\ (IsEmpty(blocks[b]) <=> SizeOf(blocks[b]) = 0)
  BY ListFacts
<1>2. ASSUME NEW b \in 0..L PROVE IsFiniteSet(among(b)) /\ Empties(b) \in Nat /\ Empties(b) <= b
  <2>1. b \in Nat
    BY <1>1
  <2>2. IsFiniteSet(1..b) /\ Cardinality(1..b) = b
    <3>1. 1 \in Int /\ b \in Int
      BY <2>1
    <3>2. IsFiniteSet(1..b) /\ Cardinality(1..b) = IF 1 > b THEN 0 ELSE b - 1 + 1
      BY <3>1, FS_Interval
    <3> QED
      BY <2>1, <3>2
  <2>3. among(b) \subseteq 1..b
    OBVIOUS
  <2> DEFINE all == 1..b
             some == among(b)
  <2> HIDE DEF all, some
  <2>4. IsFiniteSet(some) /\ Cardinality(some) <= Cardinality(all)
    BY <2>2, <2>3, FS_Subset DEF all, some
  <2>5. Cardinality(some) \in Nat
    BY <2>4, FS_CardinalityType
  <2> QED
    BY <2>2, <2>4, <2>5 DEF all, some, Empties
<1>3. Empties(0) = 0
  <2>1. among(0) = {}
    OBVIOUS
  <2> QED
    BY <2>1, FS_EmptySet DEF Empties
<1>4. ASSUME NEW b \in 1..L
      PROVE  Empties(b) = Empties(b - 1) + IF IsEmpty(blocks[b]) THEN 1 ELSE 0
  <2>1. b - 1 \in 0..L /\ b \notin among(b - 1)
    BY <1>1
  <2>2. among(b) = IF IsEmpty(blocks[b]) THEN among(b - 1) \cup {b} ELSE among(b - 1)
    BY <1>1
  <2> DEFINE some == among(b - 1)
  <2>3. IsFiniteSet(some) /\ b \notin some
    BY <1>2, <2>1
  <2> HIDE DEF some
  <2>4. Cardinality(some \cup {b}) = Cardinality(some) + 1
    BY <2>3, FS_AddElement
  <2>5. Cardinality(some) \in Nat
    BY <2>3, FS_CardinalityType
  <2>6. Empties(b - 1) = Cardinality(some)
    BY DEF Empties, some
  <2>7. IsEmpty(blocks[b]) => Empties(b) = Cardinality(some \cup {b})
    BY <2>2 DEF Empties, some
  <2>8. ~IsEmpty(blocks[b]) => Empties(b) = Cardinality(some)
    BY <2>2 DEF Empties, some
  <2> QED
    BY <2>4, <2>5, <2>6, <2>7, <2>8
<1>5. /\ \A b \in 0..L : Passed(blocks, b) \in Nat /\ Passed(blocks, b) <= size
      /\ \A b \in 1..L : Passed(blocks, b) = Passed(blocks, b - 1) + SizeOf(blocks[b])
      /\ Passed(blocks, 0) = 0
  <2>1. \A b \in 0..L : b <= L /\ L \in 0..L
    BY <1>1
  <2> QED
    BY <1>1, <2>1, PassedFacts, PassedGrows
<1>6. ASSUME NEW b \in 0..L PROVE Empties(b) <= Empties(L)
  <2> DEFINE some == among(b)
             all == among(L)
  <2>1. some \subseteq all /\ IsFiniteSet(all)
    <3>1. L \in 0..L
      BY <1>1
    <3> QED
      BY <1>1, <1>2, <3>1
  <2> HIDE DEF some, all
  <2>2. Cardinality(some) <= Cardinality(all)
    BY <2>1, FS_Subset
  <2> QED
    BY <2>2 DEF some, all, Empties
<1>7. Empties(L) = Cardinality(EmptyBlocks)
  BY <1>1 DEF Empties, EmptyBlocks
<1>8. ASSUME NEW b \in 0..L PROVE Ends(b) \in Nat /\ Ends(b) <= Ends(L)
  <2>1. L \in 0..L
    BY <1>1
  <2>2. Passed(blocks, b) \in Nat /\ Passed(blocks, b) <= Passed(blocks, L) /\ Passed(blocks, L) \in Nat
    BY <1>1, <1>5, <2>1
  <2>3. Empties(b) \in Nat /\ Empties(b) <= Empties(L) /\ Empties(L) \in Nat
    BY <1>2, <1>6, <2>1
  <2> QED
    BY <2>2, <2>3 DEF Ends
<1>9. ASSUME NEW b \in 1..L PROVE Ends(b) = Ends(b - 1) + Width(b) /\ Width(b) \in Nat \ {0}
  <2>1. b - 1 \in 0..L
    BY <1>1
  <2>2. Passed(blocks, b - 1) \in Nat /\ Empties(b - 1) \in Nat /\ SizeOf(blocks[b]) \in Nat
    BY <1>1, <1>2, <1>5, <2>1
  <2>3. /\ Passed(blocks, b) = Passed(blocks, b - 1) + SizeOf(blocks[b])
        /\ Empties(b) = Empties(b - 1) + IF IsEmpty(blocks[b]) THEN 1 ELSE 0
        /\ IsEmpty(blocks[b]) <=> SizeOf(blocks[b]) = 0
    BY <1>1, <1>4, <1>5
  <2> QED
    BY <2>2, <2>3 DEF Ends, Width
<1>10. Ends(L) = size + Empties(L)
  BY <1>1 DEF Ends
<1>11. Ends(0) = 0
  BY <1>3, <1>5 DEF Ends
<1> HIDE DEF among
<1> QED
  BY <1>2, <1>3, <1>4, <1>5, <1>7, <1>8, <1>9, <1>10, <1>11

\* Where a loop is after n steps: at a value of a block, or at the one dead place
\* of an empty block, or at the end.
Cursor(b, j) == [block |-> b, pos |-> IF j = 0 /\ b # 1 THEN Nullptr ELSE j * ValueSize]

Reached(n, b, j) ==
    /\ b \in 1..Len(blocks) + 1 /\ j \in Nat
    /\ IF b = Len(blocks) + 1 THEN j = 0 ELSE j < Width(b)
    /\ n = Ends(b - 1) + j
    /\ Iterators(TRUE)[n] = Cursor(b, j)

LEMMA CursorFacts ==
    ASSUME IInv, NEW b \in 1..Len(blocks), NEW j \in Nat, j < Width(b)
    PROVE  /\ Increment(Cursor(b, j)) = IF j + 1 = Width(b) THEN Cursor(b + 1, 0) ELSE Cursor(b, j + 1)
           /\ IF IsEmpty(blocks[b])
                THEN j = 0 /\ Dereference(Cursor(b, j)) = Dead
                ELSE j \in 0..SizeOf(blocks[b]) - 1 /\ Dereference(Cursor(b, j)) = ValueOf(blocks[b], j)
<1> DEFINE it == Cursor(b, j)
           k == SizeOf(blocks[b])
           ptr == IF it.pos = Nullptr THEN First(it.block) ELSE it.pos
           next == ptr + ValueSize
<1>1. /\ blocks[b] \in BlockSet /\ k \in Nat
      /\ IsEmpty(blocks[b]) <=> k = 0
      /\ First(b) = 0 /\ LastPos(b) = (k - 1) * ValueSize /\ b \in DOMAIN blocks /\ b \in Nat
  BY ListFacts
<1>2. ValueSize \in Nat \ {0} /\ BlockSize \in Nat \ {0}
  BY Sizes
<1>3. j * ValueSize \in Nat
  BY MultipleIsNat
<1>4. it.block = b /\ ptr = j * ValueSize
  <2>1. it.block = b /\ it.pos = IF j = 0 /\ b # 1 THEN Nullptr ELSE j * ValueSize
    BY DEF Cursor
  <2>2. j = 0 => j * ValueSize = 0
    BY <1>2
  <2> HIDE DEF it
  <2> QED
    BY <1>1, <1>3, <2>1, <2>2 DEF Nullptr
<1>5. next = (j + 1) * ValueSize
  <2>1. (j + 1) * ValueSize = j * ValueSize + ValueSize
    BY Multiples
  <2> QED
    BY <1>4, <2>1
<1>6. next > LastPos(b) <=> j + 1 = Width(b)
  <2>1. j + 1 \in Int /\ k - 1 \in Int
    BY <1>1
  <2>2. j + 1 < k - 1 => (j + 1) * ValueSize + ValueSize <= (k - 1) * ValueSize
    BY <2>1, Multiples
  <2>3. k - 1 < j + 1 => (k - 1) * ValueSize + ValueSize <= (j + 1) * ValueSize
    BY <2>1, Multiples
  <2>4. (j + 1) * ValueSize \in Int /\ (k - 1) * ValueSize \in Int
    BY <2>1, Multiples
  <2>5. next > LastPos(b) <=> k - 1 < j + 1
    BY <1>1, <1>2, <1>5, <2>1, <2>2, <2>3, <2>4
  <2>6. k = 0 => Width(b) = 1
    BY <1>1 DEF Width
  <2>7. k # 0 => Width(b) = k
    BY <1>1 DEF Width
  <2> QED
    BY <1>1, <2>5, <2>6, <2>7
<1>7. Increment(it) = IF j + 1 = Width(b) THEN Cursor(b + 1, 0) ELSE Cursor(b, j + 1)
  <2>1. CASE j + 1 = Width(b)
    <3>1. Increment(it) = [block |-> b + 1, pos |-> Nullptr]
      BY <1>4, <1>6, <2>1 DEF Increment
    <3>2. Cursor(b + 1, 0) = [block |-> b + 1, pos |-> Nullptr]
      BY <1>1 DEF Cursor
    <3> QED
      BY <2>1, <3>1, <3>2
  <2>2. CASE j + 1 # Width(b)
    <3>1. Increment(it) = [it EXCEPT !.pos = next]
      BY <1>4, <1>6, <2>2 DEF Increment
    <3>2. [it EXCEPT !.pos = next] = [block |-> b, pos |-> next]
      BY DEF Cursor
    <3>3. Cursor(b, j + 1) = [block |-> b, pos |-> (j + 1) * ValueSize]
      BY DEF Cursor
    <3> QED
      BY <1>5, <2>2, <3>1, <3>2, <3>3
  <2> QED
    BY <2>1, <2>2
<1>8. Dereference(it) = IF ptr \in DOMAIN blocks[b].memory THEN blocks[b].memory[ptr] ELSE Dead
  BY <1>1, <1>4 DEF Dereference, At
<1> HIDE DEF it, ptr, next
<1>9. CASE IsEmpty(blocks[b])
  <2>1. j = 0 /\ ptr = 0
    BY <1>2, <1>4, <1>9 DEF Width
  <2> DEFINE block == blocks[b]
  <2> HIDE DEF block
  <2>2. /\ \A x \in 0..BlockSize - 1 :
             ~(\E i \in 0..SizeOf(block) - 1 : x = i * ValueSize) => block.memory[x] = Dead
        /\ block.memory \in [0..BlockSize - 1 -> Values \cup {Dead}]
    BY <1>1, BlockFacts DEF block
  <2>3. SizeOf(block) = 0
    BY <1>1, <1>9 DEF block
  <2>4. 0..SizeOf(block) - 1 = {} /\ 0 \in 0..BlockSize - 1
    BY <1>2, <2>3
  <2>5. block.memory[0] = Dead
    BY <2>2, <2>4
  <2>6. Dereference(it) = Dead
    BY <1>8, <2>1, <2>5 DEF block
  <2> QED
    BY <1>7, <1>9, <2>1, <2>6 DEF it
<1>10. CASE ~IsEmpty(blocks[b])
  <2>1. j \in 0..k - 1
    BY <1>1, <1>10 DEF Width
  <2> DEFINE block == blocks[b]
  <2> HIDE DEF block
  <2>2. /\ Data(block, j) = j * ValueSize /\ Data(block, j) \in 0..BlockSize - 1
        /\ block.memory \in [0..BlockSize - 1 -> Values \cup {Dead}]
    BY <1>1, <2>1, BlockFacts DEF block
  <2>3. ptr \in DOMAIN block.memory /\ block.memory[ptr] = ValueOf(block, j)
    BY <1>4, <2>2 DEF ValueOf
  <2>4. Dereference(it) = ValueOf(blocks[b], j)
    BY <1>8, <2>3 DEF block
  <2> QED
    BY <1>7, <1>10, <2>1, <2>4 DEF it
<1> QED
  BY <1>9, <1>10

\* A loop reaches an iterator in every step up to as many as there are values and
\* empty blocks, and it is then at the end.
LEMMA ForwardReached ==
    ASSUME IInv, blocks # <<>>, NEW total, total = size + Cardinality(EmptyBlocks)
    PROVE  \A n \in 0..total : \E b, j : Reached(n, b, j)
<1> DEFINE L == Len(blocks)
<1>1. L \in Nat \ {0} /\ blocks \in Seq(BlockSet)
  BY ListFacts
<1> HIDE DEF L
<1>2. /\ Ends(0) = 0 /\ Ends(L) = total /\ total \in Nat
      /\ \A b \in 0..L : Ends(b) \in Nat /\ Ends(b) <= Ends(L)
      /\ \A b \in 1..L : Ends(b) = Ends(b - 1) + Width(b) /\ Width(b) \in Nat \ {0}
  <2>1. L = Len(blocks)
    BY DEF L
  <2>2. /\ Ends(0) = 0
        /\ \A b \in 0..L : Ends(b) \in Nat /\ Ends(b) <= Ends(L)
        /\ \A b \in 1..L : Ends(b) = Ends(b - 1) + Width(b) /\ Width(b) \in Nat \ {0}
        /\ Ends(L) = size + Empties(L) /\ Empties(L) = Cardinality(EmptyBlocks)
    BY <2>1, EndsFacts
  <2>3. L \in 0..L
    BY <1>1
  <2> QED
    BY <2>2, <2>3
<1>3. Reached(0, 1, 0)
  <2>1. Iterators(TRUE)[0] = Begin
    BY IteratorsFacts DEF Start
  <2>2. 1 \in 1..L
    BY <1>1
  <2>3. Begin = Cursor(1, 0)
    <3>1. First(1) = 0 /\ 0 * ValueSize = 0
      BY <2>2, ListFacts, Sizes DEF L
    <3> QED
      BY <3>1 DEF Begin, Cursor
  <2>4. 0 < Width(1) /\ 1 # L + 1 /\ 1 \in 1..L + 1
    BY <1>1, <1>2, <2>2
  <2>5. Iterators(TRUE)[0] = Cursor(1, 0)
    BY <2>1, <2>3
  <2>6. 0 = Ends(1 - 1) + 0
    <3>1. 1 - 1 = 0
      OBVIOUS
    <3>2. Ends(1 - 1) = 0
      BY <1>2, <3>1
    <3> QED
      BY <3>2
  <2> QED
    BY <2>4, <2>5, <2>6 DEF Reached, L
<1>4. ASSUME NEW n \in Nat, n < total, NEW b, NEW j, Reached(n, b, j)
      PROVE  \E c, h : Reached(n + 1, c, h)
  <2>1. /\ b \in 1..L + 1 /\ j \in Nat /\ n = Ends(b - 1) + j
        /\ IF b = L + 1 THEN j = 0 ELSE j < Width(b)
        /\ Iterators(TRUE)[n] = Cursor(b, j)
    BY <1>4 DEF Reached, L
  <2>2. b # L + 1
    <3> SUFFICES ASSUME b = L + 1 PROVE FALSE
      OBVIOUS
    <3>1. b - 1 = L /\ n = Ends(L) + 0
      BY <1>1, <2>1
    <3> QED
      BY <1>2, <1>4, <3>1
  <2>3. b \in 1..L /\ j < Width(b) /\ Width(b) \in Nat /\ Ends(b) = Ends(b - 1) + Width(b)
        /\ Ends(b - 1) \in Nat
    <3>1. b \in 1..L /\ b - 1 \in 0..L
      BY <1>1, <2>1, <2>2
    <3> QED
      BY <1>2, <2>1, <2>2, <3>1
  <2>4. Iterators(TRUE)[n + 1] = Increment(Cursor(b, j))
    BY <2>1, IteratorsFacts DEF Step
  <2>5. Increment(Cursor(b, j)) = IF j + 1 = Width(b) THEN Cursor(b + 1, 0) ELSE Cursor(b, j + 1)
    BY <2>1, <2>3, CursorFacts DEF L
  <2>6. CASE j + 1 = Width(b)
    <3>1. b + 1 \in 1..L + 1 /\ (b + 1) - 1 = b /\ n + 1 = Ends(b) + 0
      BY <1>1, <2>1, <2>3, <2>6
    <3>2. IF b + 1 = L + 1 THEN 0 = 0 ELSE 0 < Width(b + 1)
      <4>1. b + 1 # L + 1 => b + 1 \in 1..L
        BY <1>1, <3>1
      <4>2. b + 1 \in 1..L => Width(b + 1) \in Nat \ {0}
        BY <1>2
      <4> QED
        BY <4>1, <4>2
    <3>3. Reached(n + 1, b + 1, 0)
      BY <2>4, <2>5, <2>6, <3>1, <3>2 DEF Reached, L
    <3> QED
      BY <3>3
  <2>7. CASE j + 1 # Width(b)
    <3>1. j + 1 \in Nat /\ j + 1 < Width(b) /\ n + 1 = Ends(b - 1) + (j + 1)
      BY <2>1, <2>3, <2>7
    <3>2. Reached(n + 1, b, j + 1)
      BY <2>1, <2>2, <2>4, <2>5, <2>7, <3>1 DEF Reached, L
    <3> QED
      BY <3>2
  <2> QED
    BY <2>6, <2>7
<1> DEFINE S == {n \in Nat : n <= total => \E b, j : Reached(n, b, j)}
<1>5. 0 \in S /\ \A n \in Nat : n \in S => n + 1 \in S
  BY <1>2, <1>3, <1>4
<1>6. Nat \subseteq S
  <2> HIDE DEF S
  <2> QED
    BY <1>5, NatInductionOnSet
<1> QED
  BY <1>2, <1>6

\* What is met on the way, and where the way ends.
LEMMA ForwardsMet ==
    ASSUME IInv, blocks # <<>>, NEW total, total = size + Cardinality(EmptyBlocks)
    PROVE  /\ total \in Nat /\ Len(Forwards) = total
           /\ Live(Forwards) = Content
<1> DEFINE L == Len(blocks)
           it == Iterators(TRUE)
           count(n) == n - Empties(it[n].block - 1)
<1>1. L \in Nat \ {0} /\ blocks \in Seq(BlockSet) /\ size \in Nat /\ size = Passed(blocks, L)
  BY ListFacts
<1> HIDE DEF L, it
<1>2. /\ Ends(0) = 0 /\ Ends(L) = total /\ total \in Nat /\ Empties(0) = 0
      /\ total = size + Empties(L) /\ total <= size + L
      /\ \A b \in 0..L : Ends(b) \in Nat /\ Ends(b) <= Ends(L)
      /\ \A b \in 0..L : Empties(b) \in Nat /\ Passed(blocks, b) \in Nat /\ Passed(blocks, b) <= size
      /\ \A b \in 0..L : Ends(b) = Passed(blocks, b) + Empties(b)
      /\ \A b \in 1..L : Ends(b) = Ends(b - 1) + Width(b) /\ Width(b) \in Nat \ {0}
      /\ \A b \in 1..L : Empties(b) = Empties(b - 1) + IF IsEmpty(blocks[b]) THEN 1 ELSE 0
      /\ \A b \in 1..L : Passed(blocks, b) = Passed(blocks, b - 1) + SizeOf(blocks[b])
  <2>1. L = Len(blocks)
    BY DEF L
  <2>2. /\ Ends(0) = 0 /\ Empties(0) = 0
        /\ \A b \in 0..L : Ends(b) \in Nat /\ Ends(b) <= Ends(L)
        /\ \A b \in 0..L : Empties(b) \in Nat /\ Empties(b) <= b
        /\ \A b \in 0..L : Passed(blocks, b) \in Nat /\ Passed(blocks, b) <= size
        /\ \A b \in 1..L : Ends(b) = Ends(b - 1) + Width(b) /\ Width(b) \in Nat \ {0}
        /\ \A b \in 1..L : Empties(b) = Empties(b - 1) + IF IsEmpty(blocks[b]) THEN 1 ELSE 0
        /\ \A b \in 1..L : Passed(blocks, b) = Passed(blocks, b - 1) + SizeOf(blocks[b])
        /\ Ends(L) = size + Empties(L) /\ Empties(L) = Cardinality(EmptyBlocks)
    BY <2>1, EndsFacts
  <2>3. L \in 0..L
    BY <1>1
  <2>4. \A b \in 0..L : Ends(b) = Passed(blocks, b) + Empties(b)
    BY DEF Ends
  <2>5. Empties(L) \in Nat /\ Empties(L) <= L
    BY <2>2, <2>3
  <2>6. total = size + Empties(L)
    BY <2>2
  <2>7. Ends(L) = total /\ total \in Nat /\ total <= size + L
    BY <1>1, <2>2, <2>5, <2>6
  <2> QED
    BY <2>2, <2>4, <2>6, <2>7
<1>3. ASSUME NEW n \in 0..total
      PROVE  \E b, j : Reached(n, b, j)
  BY ForwardReached
<1>4. ASSUME NEW n \in 0..total, NEW b, NEW j, Reached(n, b, j)
      PROVE  /\ it[n] = Cursor(b, j) /\ b - 1 \in 0..L /\ j \in Nat
             /\ count(n) = Passed(blocks, b - 1) + j /\ count(n) \in 0..size
             /\ n < total => b \in 1..L /\ j < Width(b)
             /\ n = total => b = L + 1 /\ j = 0
  <2>1. /\ b \in 1..L + 1 /\ j \in Nat /\ n = Ends(b - 1) + j
        /\ IF b = L + 1 THEN j = 0 ELSE j < Width(b)
        /\ it[n] = Cursor(b, j)
    BY <1>4 DEF Reached, L, it
  <2>2. it[n].block = b
    BY <2>1 DEF Cursor
  <2>3. b - 1 \in 0..L /\ n \in Nat
    BY <1>1, <1>2, <2>1
  <2>4. Passed(blocks, b - 1) \in Nat /\ Empties(b - 1) \in Nat
        /\ Ends(b - 1) = Passed(blocks, b - 1) + Empties(b - 1)
    BY <1>2, <2>3
  <2>5. count(n) = Passed(blocks, b - 1) + j
    BY <2>1, <2>2, <2>3, <2>4
  <2> HIDE DEF count
  <2>6. CASE b = L + 1
    <3>1. b - 1 = L
      BY <1>1, <2>6
    <3>2. count(n) = size + 0 /\ n = total /\ j = 0
      BY <1>1, <1>2, <2>1, <2>5, <2>6, <3>1
    <3> QED
      BY <1>1, <1>2, <2>1, <2>3, <2>5, <2>6, <3>2
  <2>7. CASE b # L + 1
    <3>1. b \in 1..L /\ b \in 0..L /\ j < Width(b)
      BY <1>1, <2>1, <2>7
    <3>2. n < total
      <4>1. Ends(b) = Ends(b - 1) + Width(b) /\ Width(b) \in Nat /\ Ends(b) <= total /\ Ends(b) \in Nat
        BY <1>2, <3>1
      <4>2. Ends(b - 1) \in Nat
        BY <1>2, <2>3
      <4> QED
        BY <1>2, <2>1, <3>1, <4>1, <4>2
    <3>3. count(n) <= size
      <4>1. Passed(blocks, b) = Passed(blocks, b - 1) + SizeOf(blocks[b])
            /\ Passed(blocks, b) <= size /\ SizeOf(blocks[b]) \in Nat
            /\ (IsEmpty(blocks[b]) <=> SizeOf(blocks[b]) = 0)
        BY <1>2, <3>1, ListFacts DEF L
      <4>2. j <= SizeOf(blocks[b])
        BY <2>1, <3>1, <4>1 DEF Width
      <4> QED
        BY <1>1, <2>1, <2>4, <2>5, <4>1, <4>2
    <3>4. count(n) \in 0..size
      BY <1>1, <2>1, <2>4, <2>5, <3>3
    <3>5. n # total
      BY <1>2, <2>3, <3>2
    <3> QED
      BY <2>1, <2>3, <2>5, <3>1, <3>4, <3>5
  <2> QED
    BY <2>6, <2>7
<1>5. it[total] = End /\ \A m \in 0..total - 1 : it[m] # End
  <2>1. it[total] = End
    <3>1. total \in 0..total
      BY <1>2
    <3>2. PICK b, j : Reached(total, b, j)
      BY <1>3, <3>1
    <3>3. it[total] = Cursor(L + 1, 0)
      BY <1>4, <3>1, <3>2
    <3>4. L + 1 # 1
      BY <1>1
    <3> QED
      BY <3>3, <3>4 DEF Cursor, End, L
  <2>2. ASSUME NEW m \in 0..total - 1 PROVE it[m] # End
    <3>1. m \in 0..total /\ m < total
      BY <1>2
    <3>2. PICK b, j : Reached(m, b, j)
      BY <1>3, <3>1
    <3>3. it[m] = Cursor(b, j) /\ b \in 1..L
      BY <1>4, <3>1, <3>2
    <3>4. it[m].block = b /\ b # L + 1
      BY <1>1, <3>3 DEF Cursor
    <3>5. End.block = L + 1
      BY DEF End, L
    <3> QED
      BY <3>4, <3>5
  <2> QED
    BY <2>1, <2>2
<1>6. Runs(TRUE) = total
  <2> DEFINE isEnd(n) == it[n] = End /\ \A m \in 0..n - 1 : it[m] # End
             possible == 0..size + L
  <2>1. Runs(TRUE) = CHOOSE n \in possible : isEnd(n)
    BY DEF Runs, Start, it, L
  <2>2. total \in possible /\ isEnd(total)
    BY <1>1, <1>2, <1>5
  <2>3. ASSUME NEW n \in possible, isEnd(n) PROVE n = total
    <3>1. n \in Nat
      BY <1>1
    <3>2. ~(n < total)
      <4>1. n < total => n \in 0..total - 1
        BY <1>2, <3>1
      <4> QED
        BY <1>5, <2>3, <4>1
    <3>3. ~(total < n)
      <4>1. total < n => total \in 0..n - 1
        BY <1>2, <3>1
      <4> QED
        BY <1>5, <2>3, <4>1
    <3> QED
      BY <1>2, <3>1, <3>2, <3>3
  <2> HIDE DEF isEnd, possible
  <2> QED
    BY <2>1, <2>2, <2>3
<1>7. Forwards = [n \in 1..total |-> Dereference(it[n - 1])]
  BY <1>6 DEF Forwards, it
<1> DEFINE content == Content
           values == Forwards
           counted == [n \in 0..total |-> count(n)]
<1>8. Len(values) = total /\ \A n \in 1..total : values[n] = Dereference(it[n - 1])
  BY <1>2, <1>7
<1>9. content \in Seq(Values) /\ Len(content) = size /\ \A i \in 1..size : content[i] = Ref(blocks, i - 1)
  BY ContentFacts, ContentIs DEF IInv
<1> HIDE DEF content, values
<1>10. ASSUME NEW n \in 0..total PROVE counted[n] = count(n) /\ count(n) \in 0..size
  BY <1>3, <1>4
<1>11. counted[0] = 0
  <2>4. Iterators(TRUE)[0] = Begin
    BY IteratorsFacts DEF Start
  <2>5. 0 \in 0..total
    BY <1>2
  <2>1. it[0] = Begin
    BY <2>4 DEF it
  <2>2. it[0].block - 1 = 0
    BY <2>1 DEF Begin
  <2>3. counted[0] = 0 - Empties(it[0].block - 1)
    BY <2>5
  <2> QED
    BY <1>2, <2>2, <2>3
<1>12. counted[total] = size
  <2>1. total \in 0..total
    BY <1>2
  <2>2. PICK b, j : Reached(total, b, j)
    BY <1>3, <2>1
  <2>3. b = L + 1 /\ j = 0 /\ count(total) = Passed(blocks, b - 1) + j
    BY <1>4, <2>1, <2>2
  <2>4. b - 1 = L
    BY <1>1, <2>3
  <2>5. counted[total] = count(total)
    BY <1>10, <2>1
  <2> HIDE DEF count, counted
  <2> QED
    BY <1>1, <2>3, <2>4, <2>5
<1>13. ASSUME NEW n \in 1..total
       PROVE  \/ values[n] = Dead /\ counted[n] = counted[n - 1]
              \/ counted[n] = counted[n - 1] + 1 /\ values[n] = content[counted[n]]
  <2> DEFINE p == n - 1
  <2>1. p \in 0..total /\ n \in 0..total /\ p < total /\ p \in Nat /\ n = p + 1
    BY <1>2
  <2> HIDE DEF p
  <2>2. PICK b, j : Reached(p, b, j)
    BY <1>3, <2>1
  <2>3. it[p] = Cursor(b, j) /\ b \in 1..L /\ j \in Nat /\ j < Width(b) /\ b - 1 \in 0..L
        /\ count(p) = Passed(blocks, b - 1) + j
    BY <1>4, <2>1, <2>2
  <2>4. it[n] = IF j + 1 = Width(b) THEN Cursor(b + 1, 0) ELSE Cursor(b, j + 1)
    <3>1. it[n] = Increment(it[p])
      BY <2>1, IteratorsFacts DEF Step, it
    <3>2. Increment(Cursor(b, j)) = IF j + 1 = Width(b) THEN Cursor(b + 1, 0) ELSE Cursor(b, j + 1)
      BY <2>3, CursorFacts DEF L
    <3> QED
      BY <2>3, <3>1, <3>2
  <2>5. /\ values[n] = Dereference(Cursor(b, j))
        /\ IF IsEmpty(blocks[b])
             THEN j = 0 /\ Dereference(Cursor(b, j)) = Dead
             ELSE j \in 0..SizeOf(blocks[b]) - 1 /\ Dereference(Cursor(b, j)) = ValueOf(blocks[b], j)
    BY <1>8, <2>3, CursorFacts DEF L, p
  <2>6. counted[n] = count(n) /\ counted[p] = count(p)
    BY <1>10, <2>1
  <2>7. it[p].block = b /\ it[n].block = IF j + 1 = Width(b) THEN b + 1 ELSE b
    BY <2>3, <2>4 DEF Cursor
  <2>8. Empties(b) \in Nat /\ Empties(b - 1) \in Nat /\ b \in 0..L /\ b \in Nat /\ (b + 1) - 1 = b
        /\ Empties(b) = Empties(b - 1) + IF IsEmpty(blocks[b]) THEN 1 ELSE 0
    BY <1>1, <1>2, <2>3
  <2>9. CASE IsEmpty(blocks[b])
    <3>1. j + 1 = Width(b)
      BY <2>5, <2>9 DEF Width
    <3>2. count(n) = count(p)
      BY <2>1, <2>7, <2>8, <2>9, <3>1
    <3> QED
      BY <2>1, <2>5, <2>6, <2>9, <3>2 DEF p
  <2>10. CASE ~IsEmpty(blocks[b])
    <3>1. Empties(b) = Empties(b - 1)
      BY <2>8, <2>10
    <3>2. count(n) = count(p) + 1
      BY <2>1, <2>7, <2>8, <3>1
    <3> DEFINE i == Passed(blocks, b - 1) + j
    <3>3. Passed(blocks, b - 1) \in Nat /\ i \in Nat /\ count(p) = i
      BY <1>2, <2>3
    <3>4. Found(blocks, i, b) /\ i - Passed(blocks, b - 1) = j
      <4>1. Passed(blocks, b) = Passed(blocks, b - 1) + SizeOf(blocks[b]) /\ SizeOf(blocks[b]) \in Nat
        BY <1>2, <2>3, ListFacts DEF L
      <4>2. j < SizeOf(blocks[b])
        BY <2>5, <2>10, <4>1
      <4> QED
        BY <2>3, <3>3, <4>1, <4>2 DEF Found, L
    <3> HIDE DEF i, count
    <3>5. Ref(blocks, i) = ValueOf(blocks[b], j)
      <4>1. i \in Int
        BY <3>3
      <4> QED
        BY <1>1, <3>4, <4>1, SeekIs
    <3>6. i + 1 \in 1..size /\ (i + 1) - 1 = i
      <4>1. count(n) \in 0..size
        BY <1>10, <2>1
      <4> QED
        BY <1>1, <3>2, <3>3, <4>1
    <3>7. content[i + 1] = ValueOf(blocks[b], j)
      BY <1>9, <3>5, <3>6
    <3> QED
      BY <2>1, <2>5, <2>6, <2>10, <3>2, <3>3, <3>7 DEF p
  <2> QED
    BY <2>9, <2>10
<1> HIDE DEF counted, count
<1>14. \A n \in 0..total : counted[n] \in 0..Len(content)
  BY <1>9, <1>10
<1>15. Live(values) = content
  BY <1>2, <1>8, <1>9, <1>11, <1>12, <1>13, <1>14, LiveIs
<1> QED
  BY <1>2, <1>8, <1>15 DEF content, values

\* Where a reverse loop is: at a value of a block, or before the beginning of an
\* empty block; and how many steps are then left.
Back(b, j) == [block |-> b, pos |-> j * ValueSize]

AtBack(b, j) ==
    /\ b \in 1..Len(blocks) /\ j \in Int
    /\ IF IsEmpty(blocks[b]) THEN j = 0 - 1 ELSE j \in 0..SizeOf(blocks[b]) - 1

LeftOver(b, j) == Ends(b - 1) + IF IsEmpty(blocks[b]) THEN 0 ELSE j

Returned(n, b, j) ==
    /\ AtBack(b, j)
    /\ n + LeftOver(b, j) = Ends(Len(blocks))
    /\ Iterators(FALSE)[n] = Back(b, j)
    /\ \/ Iterators(FALSE)[n - 1].block = b + 1
       \/ Iterators(FALSE)[n - 1].block = b /\ ~IsEmpty(blocks[b])

LEMMA BackFacts ==
    ASSUME IInv, NEW b, NEW j, AtBack(b, j)
    PROVE  /\ j >= 1 => Decrement(Back(b, j)) = Back(b, j - 1)
           /\ j < 1 /\ b # 1 => Decrement(Back(b, j)) = Back(b - 1, SizeOf(blocks[b - 1]) - 1)
           /\ Dereference(Back(b, j)) = IF IsEmpty(blocks[b]) THEN Dead ELSE ValueOf(blocks[b], j)
<1> DEFINE it == Back(b, j)
           k == SizeOf(blocks[b])
<1>1. b \in 1..Len(blocks) /\ j \in Int
      /\ IF IsEmpty(blocks[b]) THEN j = 0 - 1 ELSE j \in 0..k - 1
  BY DEF AtBack
<1>2. /\ blocks[b] \in BlockSet /\ k \in Nat /\ Len(blocks) \in Nat
      /\ IsEmpty(blocks[b]) <=> k = 0
      /\ First(b) = 0 /\ b \in DOMAIN blocks
  BY <1>1, ListFacts
<1>3. ValueSize \in Nat \ {0} /\ BlockSize \in Nat \ {0}
  BY Sizes
<1>4. it.block = b /\ it.pos = j * ValueSize /\ j * ValueSize \in Int
  <2>1. j * ValueSize \in Int
    BY <1>1, Multiples
  <2> QED
    BY <2>1 DEF Back
<1>5. j * ValueSize > 0 <=> j >= 1
  <2>1. 0 \in Int /\ 0 * ValueSize = 0
    BY <1>3
  <2>2. 0 < j => 0 * ValueSize + ValueSize <= j * ValueSize
    BY <1>1, <2>1, Multiples
  <2>3. 0 * ValueSize < j * ValueSize => 0 < j
    BY <1>1, <2>1, Multiples
  <2> QED
    BY <1>1, <1>3, <1>4, <2>1, <2>2, <2>3
<1>6. it.pos # Nullptr /\ it.pos > First(it.block) <=> j >= 1
  BY <1>1, <1>2, <1>4, <1>5 DEF Nullptr
<1>7. ASSUME j >= 1 PROVE Decrement(it) = Back(b, j - 1)
  <2>1. Decrement(it) = [it EXCEPT !.pos = @ - ValueSize]
    BY <1>6, <1>7 DEF Decrement
  <2>2. [it EXCEPT !.pos = @ - ValueSize] = [block |-> b, pos |-> j * ValueSize - ValueSize]
    BY DEF Back
  <2>3. (j - 1) * ValueSize = j * ValueSize - ValueSize
    BY <1>1, Multiples
  <2> QED
    BY <2>1, <2>2, <2>3 DEF Back
<1>8. ASSUME j < 1, b # 1 PROVE Decrement(it) = Back(b - 1, SizeOf(blocks[b - 1]) - 1)
  <2>1. ~(j >= 1)
    BY <1>1, <1>8
  <2>2. Decrement(it) = [block |-> b - 1, pos |-> LastPos(b - 1)]
    BY <1>4, <1>6, <2>1 DEF Decrement
  <2>3. b - 1 \in 1..Len(blocks)
    BY <1>1, <1>2, <1>8
  <2>4. LastPos(b - 1) = (SizeOf(blocks[b - 1]) - 1) * ValueSize
    BY <2>3, ListFacts
  <2> QED
    BY <2>2, <2>4 DEF Back
<1> DEFINE ptr == IF it.pos = Nullptr THEN First(it.block) ELSE it.pos
           block == blocks[b]
<1>9. Dereference(it) = IF ptr \in DOMAIN block.memory THEN block.memory[ptr] ELSE Dead
  BY <1>2, <1>4 DEF Dereference, At
<1>10. /\ \A i \in 0..k - 1 : Data(block, i) = i * ValueSize /\ Data(block, i) \in 0..BlockSize - 1
       /\ \A x \in 0..BlockSize - 1 :
            ~(\E i \in 0..k - 1 : x = i * ValueSize) => block.memory[x] = Dead
       /\ DOMAIN block.memory = 0..BlockSize - 1
  <2> HIDE DEF block
  <2>1. block \in BlockSet /\ k = SizeOf(block)
    BY <1>2 DEF block
  <2> HIDE DEF k
  <2> QED
    BY <2>1, BlockFacts
<1>11. CASE IsEmpty(blocks[b])
  <2>1. j = 0 - 1 /\ k = 0
    BY <1>1, <1>2, <1>11
  <2>2. j * ValueSize < 0
    BY <1>3, <2>1
  <2>3. ptr = 0 \/ ptr < 0
    BY <1>2, <1>4, <2>2
  <2> HIDE DEF ptr, block
  <2>4. ptr < 0 => ptr \notin DOMAIN block.memory
    BY <1>3, <1>10
  <2>5. 0..k - 1 = {} /\ 0 \in 0..BlockSize - 1
    BY <1>3, <2>1
  <2>6. block.memory[0] = Dead
    BY <1>10, <2>5
  <2>7. Dereference(it) = Dead
    BY <1>9, <2>3, <2>4, <2>6
  <2>8. ~(j >= 1)
    BY <2>1
  <2> HIDE DEF it
  <2> QED
    BY <1>8, <1>11, <2>7, <2>8 DEF it
<1>12. CASE ~IsEmpty(blocks[b])
  <2>1. j \in 0..k - 1 /\ j \in Nat
    BY <1>1, <1>12
  <2>2. j * ValueSize \in Nat
    BY <2>1, MultipleIsNat
  <2>3. ptr = j * ValueSize
    BY <1>4, <2>2 DEF Nullptr
  <2> HIDE DEF ptr, block
  <2>4. Dereference(it) = ValueOf(block, j)
    BY <1>9, <1>10, <2>1, <2>3 DEF ValueOf
  <2> HIDE DEF it
  <2> QED
    BY <1>7, <1>8, <1>12, <2>4 DEF it, block
<1> QED
  BY <1>11, <1>12

\* A reverse loop comes back to the first value, and in every step before that
\* it is at another place.
LEMMA BackwardReturned ==
    ASSUME IInv, blocks # <<>>, 1 \notin EmptyBlocks, NEW total, total = Ends(Len(blocks))
    PROVE  total \in Nat \ {0} /\ \A n \in 1..total : \E b, j : Returned(n, b, j)
<1> DEFINE L == Len(blocks)
           it == Iterators(FALSE)
<1>1. L \in Nat \ {0} /\ blocks \in Seq(BlockSet) /\ DOMAIN blocks = 1..L
      /\ \A b \in 1..L : SizeOf(blocks[b]) \in Nat /\ (IsEmpty(blocks[b]) <=> SizeOf(blocks[b]) = 0)
  BY ListFacts
<1> HIDE DEF L, it
<1>2. ~IsEmpty(blocks[1]) /\ 1 \in 1..L
  BY <1>1 DEF EmptyBlocks
<1>3. /\ Ends(0) = 0 /\ Ends(L) = total
      /\ \A b \in 0..L : Ends(b) \in Nat /\ Ends(b) <= Ends(L)
      /\ \A b \in 1..L : Ends(b) = Ends(b - 1) + Width(b) /\ Width(b) \in Nat \ {0}
  <2>1. L = Len(blocks)
    BY DEF L
  <2> QED
    BY <2>1, EndsFacts
<1>4. total \in Nat \ {0}
  <2>1. L \in 0..L /\ 1 \in 0..L /\ 1 - 1 = 0
    BY <1>1
  <2>2. Ends(1) = Ends(1 - 1) + Width(1) /\ Width(1) \in Nat \ {0}
    BY <1>2, <1>3
  <2>3. Ends(1) \in Nat /\ Ends(1) # 0
    BY <1>3, <2>1, <2>2
  <2> QED
    BY <1>3, <2>1, <2>3
\* The last value of a block, as the one a reverse loop comes to first.
<1>5. ASSUME NEW b \in 1..L
      PROVE  LET j == SizeOf(blocks[b]) - 1 IN AtBack(b, j) /\ LeftOver(b, j) = Ends(b) - 1
  <2> DEFINE k == SizeOf(blocks[b])
  <2>1. k \in Nat /\ (IsEmpty(blocks[b]) <=> k = 0) /\ b - 1 \in 0..L
    BY <1>1
  <2>2. Ends(b) = Ends(b - 1) + Width(b) /\ Ends(b - 1) \in Nat
    BY <1>3, <2>1
  <2>3. AtBack(b, k - 1)
    BY <2>1 DEF AtBack, L
  <2>4. LeftOver(b, k - 1) = Ends(b) - 1
    BY <2>1, <2>2 DEF LeftOver, Width
  <2> QED
    BY <2>3, <2>4
<1>6. Returned(1, L, SizeOf(blocks[L]) - 1)
  <2> DEFINE j == SizeOf(blocks[L]) - 1
  <2>1. L \in 1..L
    BY <1>1
  <2>2. AtBack(L, j) /\ LeftOver(L, j) = Ends(L) - 1
    BY <1>5, <2>1
  <2>3. Iterators(FALSE)[0] = End /\ Iterators(FALSE)[0 + 1] = Decrement(Iterators(FALSE)[0])
    BY IteratorsFacts DEF Start, Step
  <2>4. Decrement(End) = [block |-> (L + 1) - 1, pos |-> LastPos((L + 1) - 1)]
    BY DEF Decrement, End, L
  <2>5. (L + 1) - 1 = L /\ 0 + 1 = 1 /\ 1 - 1 = 0
    BY <1>1
  <2>6. LastPos(L) = j * ValueSize
    BY <2>1, ListFacts DEF L
  <2>7. Iterators(FALSE)[1] = Back(L, j)
    BY <2>3, <2>4, <2>5, <2>6 DEF Back
  <2>10. End.block = L + 1
    BY DEF End, L
  <2>8. Iterators(FALSE)[1 - 1].block = L + 1
    BY <2>3, <2>5, <2>10
  <2>9. 1 + LeftOver(L, j) = Ends(L)
    BY <1>3, <1>4, <2>2
  <2> QED
    BY <2>2, <2>7, <2>8, <2>9 DEF Returned, L
<1>7. ASSUME NEW n \in Nat, n < total, NEW b, NEW j, Returned(n, b, j)
      PROVE  \E c, h : Returned(n + 1, c, h)
  <2>1. /\ AtBack(b, j) /\ n + LeftOver(b, j) = total
        /\ Iterators(FALSE)[n] = Back(b, j)
    BY <1>3, <1>7 DEF Returned, L
  <2>2. /\ b \in 1..L /\ j \in Int /\ b - 1 \in 0..L
        /\ IF IsEmpty(blocks[b]) THEN j = 0 - 1 ELSE j \in 0..SizeOf(blocks[b]) - 1
    BY <1>1, <2>1 DEF AtBack, L
  <2>3. /\ LeftOver(b, j) = Ends(b - 1) + (IF IsEmpty(blocks[b]) THEN 0 ELSE j)
        /\ Ends(b - 1) \in Nat
    BY <1>3, <2>2 DEF LeftOver
  <2>4. Iterators(FALSE)[n + 1] = Decrement(Back(b, j))
    BY <2>1, IteratorsFacts DEF Step
  <2>8. (n + 1) - 1 = n
    OBVIOUS
  <2>9. Back(b, j).block = b
    BY DEF Back
  <2>5. Iterators(FALSE)[(n + 1) - 1].block = b
    BY <2>1, <2>8, <2>9
  <2>6. CASE j >= 1
    <3>1. ~IsEmpty(blocks[b]) /\ SizeOf(blocks[b]) \in Nat
      BY <1>1, <2>2, <2>6
    <3>2. Iterators(FALSE)[n + 1] = Back(b, j - 1)
      BY <2>1, <2>4, <2>6, BackFacts
    <3>3. AtBack(b, j - 1)
      BY <2>2, <2>6, <3>1 DEF AtBack, L
    <3>4. LeftOver(b, j - 1) = Ends(b - 1) + (j - 1)
      BY <3>1 DEF LeftOver
    <3>5. (n + 1) + LeftOver(b, j - 1) = Ends(L)
      BY <1>3, <2>1, <2>2, <2>3, <3>1, <3>4
    <3>6. Returned(n + 1, b, j - 1)
      BY <2>5, <3>1, <3>2, <3>3, <3>5 DEF Returned, L
    <3> QED
      BY <3>6
  <2>7. CASE j < 1
    <3>1. LeftOver(b, j) = Ends(b - 1)
      BY <1>1, <2>2, <2>3, <2>7
    <3>2. b # 1
      <4> SUFFICES ASSUME b = 1 PROVE FALSE
        OBVIOUS
      <4>1. b - 1 = 0
        OBVIOUS
      <4>2. n + 0 = total
        BY <1>3, <2>1, <3>1, <4>1
      <4> QED
        BY <1>4, <1>7, <4>2
    <3> DEFINE c == b - 1
               h == SizeOf(blocks[c]) - 1
    <3>3. c \in 1..L /\ b = c + 1
      BY <1>1, <2>2, <3>2
    <3>4. Iterators(FALSE)[n + 1] = Back(c, h)
      BY <2>1, <2>4, <2>7, <3>2, BackFacts
    <3> HIDE DEF c
    <3>5. AtBack(c, h) /\ LeftOver(c, h) = Ends(c) - 1
      BY <1>5, <3>3
    <3> HIDE DEF h
    <3>6. n + Ends(c) = Ends(L) /\ Ends(c) \in Nat
      BY <1>3, <2>1, <2>3, <3>1 DEF c
    <3>7. (n + 1) + LeftOver(c, h) = Ends(L)
      BY <1>3, <1>4, <3>5, <3>6
    <3>8. Iterators(FALSE)[(n + 1) - 1].block = c + 1
      BY <2>5, <3>3
    <3>9. Returned(n + 1, c, h)
      BY <3>4, <3>5, <3>7, <3>8 DEF Returned, L
    <3> QED
      BY <3>9
  <2> QED
    BY <2>2, <2>6, <2>7
<1> DEFINE S == {n \in Nat : 1 <= n + 1 /\ n + 1 <= total => \E b, j : Returned(n + 1, b, j)}
<1>8. 0 \in S
  <2>1. 0 + 1 = 1
    OBVIOUS
  <2> QED
    BY <1>6, <2>1
<1>9. ASSUME NEW n \in Nat, n \in S PROVE n + 1 \in S
  <2> SUFFICES ASSUME (n + 1) + 1 <= total PROVE \E b, j : Returned((n + 1) + 1, b, j)
    OBVIOUS
  <2> DEFINE p == n + 1
  <2>1. p \in Nat /\ p < total /\ 1 <= p /\ p <= total
    BY <1>4
  <2>2. \E b, j : Returned(p, b, j)
    BY <1>9, <2>1
  <2> HIDE DEF p
  <2>3. \E b, j : Returned(p + 1, b, j)
    BY <1>7, <2>1, <2>2
  <2> QED
    BY <2>3 DEF p
<1>10. Nat \subseteq S
  <2> HIDE DEF S
  <2> QED
    BY <1>8, <1>9, NatInductionOnSet
<1>11. ASSUME NEW n \in 1..total PROVE \E b, j : Returned(n, b, j)
  <2> DEFINE p == n - 1
  <2>1. p \in Nat /\ p + 1 = n /\ 1 <= p + 1 /\ p + 1 <= total
    BY <1>4
  <2> HIDE DEF p
  <2>2. \E b, j : Returned(p + 1, b, j)
    BY <1>10, <2>1
  <2> QED
    BY <2>1, <2>2
<1> QED
  BY <1>4, <1>11

LEMMA BackwardsMet ==
    ASSUME IInv, blocks # <<>>, 1 \notin EmptyBlocks, NEW total, total = Ends(Len(blocks))
    PROVE  Len(Backwards) = total /\ Live(Backwards) = Reverse(Content)
<1> DEFINE L == Len(blocks)
           it == Iterators(FALSE)
           count(n) == (n - Empties(L)) + Empties(it[n].block - 1)
<1>1. L \in Nat \ {0} /\ blocks \in Seq(BlockSet) /\ size \in Nat /\ DOMAIN blocks = 1..L
      /\ \A b \in 1..L : /\ SizeOf(blocks[b]) \in Nat /\ (IsEmpty(blocks[b]) <=> SizeOf(blocks[b]) = 0)
                         /\ First(b) = 0
  BY ListFacts
<1> HIDE DEF L, it
<1>2. /\ total = Ends(L) /\ total = size + Empties(L) /\ total <= size + L
      /\ \A b \in 0..L : Ends(b) \in Nat /\ Ends(b) <= Ends(L) /\ Ends(b) = Passed(blocks, b) + Empties(b)
      /\ \A b \in 0..L : Empties(b) \in Nat /\ Passed(blocks, b) \in Nat /\ Passed(blocks, b) <= size
      /\ \A b \in 1..L : Empties(b) = Empties(b - 1) + IF IsEmpty(blocks[b]) THEN 1 ELSE 0
      /\ \A b \in 1..L : Passed(blocks, b) = Passed(blocks, b - 1) + SizeOf(blocks[b])
  <2>1. L = Len(blocks)
    BY DEF L
  <2>2. /\ \A b \in 0..L : Ends(b) \in Nat /\ Ends(b) <= Ends(L)
        /\ \A b \in 0..L : Empties(b) \in Nat /\ Empties(b) <= b
        /\ \A b \in 0..L : Passed(blocks, b) \in Nat /\ Passed(blocks, b) <= size
        /\ \A b \in 1..L : Empties(b) = Empties(b - 1) + IF IsEmpty(blocks[b]) THEN 1 ELSE 0
        /\ \A b \in 1..L : Passed(blocks, b) = Passed(blocks, b - 1) + SizeOf(blocks[b])
        /\ Ends(L) = size + Empties(L)
    BY <2>1, EndsFacts
  <2>3. L \in 0..L
    BY <1>1
  <2>4. \A b \in 0..L : Ends(b) = Passed(blocks, b) + Empties(b)
    BY DEF Ends
  <2>5. Empties(L) \in Nat /\ Empties(L) <= L
    BY <2>2, <2>3
  <2>6. total = Ends(L) /\ total = size + Empties(L)
    BY <2>1, <2>2
  <2>7. total <= size + L
    BY <1>1, <2>5, <2>6
  <2> QED
    BY <2>2, <2>4, <2>6, <2>7
<1>3. total \in Nat \ {0} /\ \A n \in 1..total : \E b, j : Returned(n, b, j)
  BY BackwardReturned
<1>4. ASSUME NEW n \in 1..total, NEW b, NEW j, Returned(n, b, j)
      PROVE  /\ it[n] = Back(b, j) /\ AtBack(b, j) /\ b \in 1..L /\ j \in Int /\ b - 1 \in 0..L
             /\ IF IsEmpty(blocks[b]) THEN j = 0 - 1 ELSE j \in 0..SizeOf(blocks[b]) - 1
             /\ n + LeftOver(b, j) = total
             /\ LeftOver(b, j) = Ends(b - 1) + (IF IsEmpty(blocks[b]) THEN 0 ELSE j)
             /\ \/ it[n - 1].block = b + 1
                \/ it[n - 1].block = b /\ ~IsEmpty(blocks[b])
  <2>1. /\ AtBack(b, j) /\ n + LeftOver(b, j) = total /\ it[n] = Back(b, j)
        /\ \/ it[n - 1].block = b + 1
           \/ it[n - 1].block = b /\ ~IsEmpty(blocks[b])
    BY <1>2, <1>4 DEF Returned, L, it
  <2>2. /\ b \in 1..L /\ j \in Int
        /\ IF IsEmpty(blocks[b]) THEN j = 0 - 1 ELSE j \in 0..SizeOf(blocks[b]) - 1
    BY <2>1 DEF AtBack, L
  <2>3. b - 1 \in 0..L
    BY <1>1, <2>2
  <2>4. LeftOver(b, j) = Ends(b - 1) + (IF IsEmpty(blocks[b]) THEN 0 ELSE j)
    BY DEF LeftOver
  <2> QED
    BY <2>1, <2>2, <2>3, <2>4
\* Where the loop ends.
<1>5. it[total] = Begin /\ \A m \in 0..total - 1 : it[m] # Begin
  <2>1. Begin = [block |-> 1, pos |-> 0]
    <3>1. 1 \in 1..L
      BY <1>1
    <3> QED
      BY <1>1, <3>1 DEF Begin
  <2>2. it[total] = Begin
    <3>1. total \in 1..total
      BY <1>3
    <3>2. PICK b, j : Returned(total, b, j)
      BY <1>3, <3>1
    <3>3. /\ it[total] = Back(b, j) /\ b \in 1..L /\ b - 1 \in 0..L /\ j \in Int
          /\ IF IsEmpty(blocks[b]) THEN j = 0 - 1 ELSE j \in 0..SizeOf(blocks[b]) - 1
          /\ total + LeftOver(b, j) = total
          /\ LeftOver(b, j) = Ends(b - 1) + (IF IsEmpty(blocks[b]) THEN 0 ELSE j)
      BY <1>4, <3>1, <3>2
    <3>4. Ends(b - 1) \in Nat /\ (~IsEmpty(blocks[b]) => j \in Nat)
      BY <1>1, <1>2, <3>3
    <3>5. Ends(b - 1) = 0 /\ (~IsEmpty(blocks[b]) => j = 0)
      BY <1>3, <3>3, <3>4
    <3>6. b = 1
      <4> SUFFICES ASSUME b # 1 PROVE FALSE
        OBVIOUS
      <4>1. 1 \in 0..L /\ 1 \in 1..L /\ b - 1 \in 1..L /\ 1 <= b - 1 /\ 1 - 1 = 0
        BY <1>1, <3>3
      <4>2. Passed(blocks, 1) <= Passed(blocks, b - 1) /\ Passed(blocks, 1) \in Nat
            /\ Passed(blocks, b - 1) \in Nat /\ Empties(b - 1) \in Nat
        <5>1. 1 \in 0..Len(blocks) /\ b - 1 \in 0..Len(blocks)
          BY <3>3, <4>1 DEF L
        <5>2. Passed(blocks, 1) <= Passed(blocks, b - 1)
          BY <1>1, <4>1, <5>1, PassedGrows
        <5> QED
          BY <1>2, <3>3, <4>1, <5>2
      <4>3. Passed(blocks, b - 1) = 0
        BY <1>2, <3>3, <3>5, <4>2
      <4>4. Passed(blocks, 1) = Passed(blocks, 0) + SizeOf(blocks[1]) /\ Passed(blocks, 0) = 0
        BY <1>1, <1>2, <4>1, PassedFacts
      <4>5. SizeOf(blocks[1]) \in Nat \ {0}
        BY <1>1, <4>1 DEF EmptyBlocks
      <4> QED
        BY <4>2, <4>3, <4>4, <4>5
    <3>7. ~IsEmpty(blocks[1])
      BY <1>1 DEF EmptyBlocks
    <3>8. j = 0 /\ 0 * ValueSize = 0
      BY <3>5, <3>6, <3>7, Sizes
    <3> QED
      BY <2>1, <3>3, <3>6, <3>8 DEF Back
  <2>3. ASSUME NEW m \in 0..total - 1 PROVE it[m] # Begin
    <3>1. CASE m = 0
      <4>1. Iterators(FALSE)[0] = End
        BY IteratorsFacts DEF Start
      <4>2. it[0] = End
        BY <4>1 DEF it
      <4>3. End.block = L + 1 /\ Begin.block = 1
        BY <2>1 DEF End, L
      <4> QED
        BY <1>1, <3>1, <4>2, <4>3
    <3>2. CASE m # 0
      <4>1. m \in 1..total /\ m < total /\ m \in Nat
        BY <1>3, <3>2
      <4>2. PICK b, j : Returned(m, b, j)
        BY <1>3, <4>1
      <4>3. /\ it[m] = Back(b, j) /\ b \in 1..L /\ j \in Int /\ b - 1 \in 0..L
            /\ IF IsEmpty(blocks[b]) THEN j = 0 - 1 ELSE j \in 0..SizeOf(blocks[b]) - 1
            /\ m + LeftOver(b, j) = total
            /\ LeftOver(b, j) = Ends(b - 1) + (IF IsEmpty(blocks[b]) THEN 0 ELSE j)
        BY <1>4, <4>1, <4>2
      <4> SUFFICES ASSUME it[m] = Begin PROVE FALSE
        OBVIOUS
      <4>4. b = 1 /\ j * ValueSize = 0
        BY <2>1, <4>3 DEF Back
      <4>5. Ends(b - 1) = 0
        <5>1. b - 1 = 0
          BY <4>4
        <5> QED
          BY <5>1, EndsFacts
      <4>6. ~IsEmpty(blocks[b])
        BY <1>1, <4>3, <4>4 DEF EmptyBlocks
      <4>7. j = 0
        BY <4>3, <4>4, Sizes
      <4> QED
        BY <1>3, <4>1, <4>3, <4>5, <4>6, <4>7
    <3> QED
      BY <3>1, <3>2
  <2> QED
    BY <2>2, <2>3
<1>6. Runs(FALSE) = total
  <2> DEFINE isEnd(n) == it[n] = Begin /\ \A m \in 0..n - 1 : it[m] # Begin
             possible == 0..size + L
  <2>1. Runs(FALSE) = CHOOSE n \in possible : isEnd(n)
    BY DEF Runs, Start, it, L
  <2>2. total \in possible /\ isEnd(total)
    BY <1>1, <1>2, <1>3, <1>5
  <2>3. ASSUME NEW n \in possible, isEnd(n) PROVE n = total
    <3>1. n \in Nat
      BY <1>1
    <3>2. ~(n < total)
      <4>1. n < total => n \in 0..total - 1
        BY <1>3, <3>1
      <4> QED
        BY <1>5, <2>3, <4>1
    <3>3. ~(total < n)
      <4>1. total < n => total \in 0..n - 1
        BY <1>3, <3>1
      <4> QED
        BY <1>5, <2>3, <4>1
    <3> QED
      BY <1>3, <3>1, <3>2, <3>3
  <2> HIDE DEF isEnd, possible
  <2> QED
    BY <2>1, <2>2, <2>3
<1>7. Backwards = [n \in 1..total |-> Dereference(it[n])]
  BY <1>6 DEF Backwards, it
<1> DEFINE content == Content
           reversed == Reverse(Content)
           values == Backwards
           counted == [n \in 0..total |-> count(n)]
<1>8. Len(values) = total /\ \A n \in 1..total : values[n] = Dereference(it[n])
  BY <1>3, <1>7
<1>9. content \in Seq(Values) /\ Len(content) = size /\ \A i \in 1..size : content[i] = Ref(blocks, i - 1)
  BY ContentFacts, ContentIs DEF IInv
<1>10. /\ reversed \in Seq(Values) /\ Len(reversed) = size
       /\ \A i \in 1..size : reversed[i] = content[(size - i) + 1]
  <2> DEFINE same == [i \in 1..size |-> content[(size - i) + 1]]
  <2>1. reversed = same
    BY <1>9 DEF Reverse
  <2> HIDE DEF content
  <2>2. \A i \in 1..size : (size - i) + 1 \in 1..size
    BY <1>1
  <2>3. same \in [1..size -> Values]
    BY <1>9, <2>2
  <2> HIDE DEF reversed
  <2> QED
    BY <1>1, <2>1, <2>3
<1> HIDE DEF content, values, reversed
<1>11. ASSUME NEW n \in 1..total, NEW b, NEW j, Returned(n, b, j)
       PROVE  /\ count(n) = (size - Passed(blocks, b - 1)) - (IF IsEmpty(blocks[b]) THEN 0 ELSE j)
              /\ count(n) \in 0..size
  <2>1. /\ it[n] = Back(b, j) /\ b \in 1..L /\ j \in Int /\ b - 1 \in 0..L
        /\ IF IsEmpty(blocks[b]) THEN j = 0 - 1 ELSE j \in 0..SizeOf(blocks[b]) - 1
        /\ n + LeftOver(b, j) = total
        /\ LeftOver(b, j) = Ends(b - 1) + (IF IsEmpty(blocks[b]) THEN 0 ELSE j)
    BY <1>4, <1>11
  <2>2. it[n].block = b
    BY <2>1 DEF Back
  <2>3. /\ Ends(b - 1) = Passed(blocks, b - 1) + Empties(b - 1)
        /\ Empties(b - 1) \in Nat /\ Passed(blocks, b - 1) \in Nat
        /\ Empties(L) \in Nat /\ total = size + Empties(L)
    <3>1. L \in 0..L
      BY <1>1
    <3> QED
      BY <1>2, <2>1, <3>1
  <2>4. count(n) = (n - Empties(L)) + Empties(b - 1)
    BY <2>2
  <2> HIDE DEF count
  <2> DEFINE rest == IF IsEmpty(blocks[b]) THEN 0 ELSE j
  <2>5. rest \in Nat /\ rest <= SizeOf(blocks[b]) /\ SizeOf(blocks[b]) \in Nat
    BY <1>1, <2>1
  <2> HIDE DEF rest
  <2>6. n + (Ends(b - 1) + rest) = total
    BY <2>1 DEF rest
  <2>7. n \in Int
    OBVIOUS
  <2>8. count(n) = (size - Passed(blocks, b - 1)) - rest
    <3> DEFINE p == Passed(blocks, b - 1)
               e == Empties(b - 1)
               f == Empties(L)
    <3>1. p \in Nat /\ e \in Nat /\ f \in Nat /\ n \in Int /\ rest \in Nat /\ size \in Nat
      BY <1>1, <2>3, <2>5, <2>7
    <3>2. n + ((p + e) + rest) = size + f
      BY <2>3, <2>6
    <3>3. count(n) = (n - f) + e
      BY <2>4
    <3> HIDE DEF p, e, f
    <3>4. (n - f) + e = (size - p) - rest
      BY <3>1, <3>2
    <3>5. count(n) = (size - p) - rest
      BY <3>3, <3>4
    <3> QED
      BY <3>5 DEF p
  <2>9. Passed(blocks, b) = Passed(blocks, b - 1) + SizeOf(blocks[b]) /\ Passed(blocks, b) <= size
    <3>1. b \in 0..L
      BY <1>1, <2>1
    <3> QED
      BY <1>2, <2>1, <3>1
  <2>10. count(n) \in 0..size
    BY <1>1, <2>3, <2>5, <2>8, <2>9
  <2> QED
    BY <2>8, <2>10 DEF rest
<1>12. count(0) = 0
  <2>1. Iterators(FALSE)[0] = End
    BY IteratorsFacts DEF Start
  <2>2. it[0].block = L + 1
    <3>1. it[0] = End
      BY <2>1 DEF it
    <3>2. End.block = L + 1
      BY DEF End, L
    <3> QED
      BY <3>1, <3>2
  <2>3. it[0].block - 1 = L /\ L \in 0..L
    BY <1>1, <2>2
  <2>4. Empties(L) \in Nat
    BY <1>2, <2>3
  <2> QED
    BY <2>3, <2>4
<1>13. ASSUME NEW n \in 0..total PROVE counted[n] = count(n) /\ count(n) \in 0..size
  <2>1. CASE n = 0
    BY <1>1, <1>12, <2>1
  <2>2. CASE n # 0
    <3>1. n \in 1..total
      BY <1>3, <2>2
    <3> QED
      BY <1>3, <1>11, <3>1
  <2> QED
    BY <2>1, <2>2
<1>14. counted[0] = 0
  <2>1. 0 \in 0..total
    BY <1>3
  <2> QED
    BY <1>12, <1>13, <2>1
<1>15. ASSUME NEW n \in 1..total
       PROVE  /\ \/ values[n] = Dead /\ counted[n] = counted[n - 1]
                 \/ counted[n] = counted[n - 1] + 1 /\ values[n] = reversed[counted[n]]
              /\ n = total => counted[n] = size
  <2>1. n \in 0..total /\ n - 1 \in 0..total /\ n \in Nat
    BY <1>3
  <2>2. counted[n] = count(n) /\ counted[n - 1] = count(n - 1)
    BY <1>13, <2>1
  <2>3. PICK b, j : Returned(n, b, j)
    BY <1>3
  <2>4. /\ it[n] = Back(b, j) /\ AtBack(b, j) /\ b \in 1..L /\ j \in Int /\ b - 1 \in 0..L
        /\ IF IsEmpty(blocks[b]) THEN j = 0 - 1 ELSE j \in 0..SizeOf(blocks[b]) - 1
        /\ \/ it[n - 1].block = b + 1
           \/ it[n - 1].block = b /\ ~IsEmpty(blocks[b])
    BY <1>4, <2>3
  <2>5. /\ count(n) = (size - Passed(blocks, b - 1)) - (IF IsEmpty(blocks[b]) THEN 0 ELSE j)
        /\ count(n) \in 0..size
    BY <1>11, <2>3
  <2>6. values[n] = IF IsEmpty(blocks[b]) THEN Dead ELSE ValueOf(blocks[b], j)
    BY <1>8, <2>4, BackFacts
  <2>7. it[n].block = b /\ (b + 1) - 1 = b /\ b \in 0..L
    BY <1>1, <2>4 DEF Back
  <2>8. /\ Empties(b) = Empties(b - 1) + (IF IsEmpty(blocks[b]) THEN 1 ELSE 0)
        /\ Empties(b) \in Nat /\ Empties(b - 1) \in Nat /\ Empties(L) \in Nat
    <3>1. L \in 0..L
      BY <1>1
    <3> QED
      BY <1>2, <2>4, <2>7, <3>1
  <2>9. count(n) = count(n - 1) + IF IsEmpty(blocks[b]) THEN 0 ELSE 1
    <3>1. count(n) = (n - Empties(L)) + Empties(b - 1)
      BY <2>7
    <3>2. CASE it[n - 1].block = b + 1
      <4>1. count(n - 1) = ((n - 1) - Empties(L)) + Empties(b)
        BY <2>7, <3>2
      <4> HIDE DEF count
      <4> QED
        BY <2>1, <2>8, <3>1, <4>1
    <3>3. CASE it[n - 1].block = b /\ ~IsEmpty(blocks[b])
      <4>1. count(n - 1) = ((n - 1) - Empties(L)) + Empties(b - 1)
        BY <3>3
      <4> HIDE DEF count
      <4> QED
        BY <2>1, <2>8, <3>1, <3>3, <4>1
    <3> QED
      BY <2>4, <3>2, <3>3
  <2>10. n = total => counted[n] = size
    <3> SUFFICES ASSUME n = total PROVE count(n) = size
      BY <2>2
    <3>1. it[n] = [block |-> 1, pos |-> First(1)]
      BY <1>5 DEF Begin
    <3>2. it[n].block - 1 = 0
      BY <3>1
    <3>3. count(n) = (n - Empties(L)) + Empties(0)
      BY <3>2
    <3>4. Empties(0) = 0
      BY EndsFacts
    <3> HIDE DEF count
    <3> QED
      BY <1>1, <1>2, <2>8, <3>3, <3>4
  <2> HIDE DEF count
  <2>11. CASE IsEmpty(blocks[b])
    <3>1. n - 1 \in 0..total
      BY <2>1
    <3>2. count(n - 1) \in Nat
      BY <1>1, <1>13, <3>1
    <3> QED
      BY <2>2, <2>6, <2>9, <2>10, <2>11, <3>2
  <2>12. CASE ~IsEmpty(blocks[b])
    <3> DEFINE i == Passed(blocks, b - 1) + j
    <3>1. j \in 0..SizeOf(blocks[b]) - 1 /\ SizeOf(blocks[b]) \in Nat /\ Passed(blocks, b - 1) \in Nat
          /\ Passed(blocks, b) = Passed(blocks, b - 1) + SizeOf(blocks[b]) /\ Passed(blocks, b) <= size
      BY <1>1, <1>2, <2>4, <2>7, <2>12
    <3>2. Found(blocks, i, b) /\ i - Passed(blocks, b - 1) = j /\ i \in Nat /\ i < size
      BY <1>1, <2>4, <3>1 DEF Found, L
    <3>3. count(n) = size - i
      BY <1>1, <2>5, <2>12, <3>1
    <3> HIDE DEF i
    <3>4. Ref(blocks, i) = ValueOf(blocks[b], j)
      <4>1. i \in Int
        BY <3>2
      <4> QED
        BY <1>1, <3>2, <4>1, SeekIs
    <3>5. size - i \in 1..size /\ (size - (size - i)) + 1 = i + 1 /\ i + 1 \in 1..size /\ (i + 1) - 1 = i
      BY <1>1, <3>2
    <3>6. reversed[size - i] = content[i + 1]
      BY <1>10, <3>5
    <3>7. content[i + 1] = Ref(blocks, i)
      BY <1>9, <3>5
    <3> QED
      BY <2>2, <2>6, <2>9, <2>10, <2>12, <3>3, <3>4, <3>6, <3>7
  <2> QED
    BY <2>11, <2>12
<1>16. counted[total] = size
  <2>1. total \in 1..total
    BY <1>3
  <2> QED
    BY <1>15, <2>1
<1> HIDE DEF counted, count
<1>17. \A n \in 0..total : counted[n] \in 0..Len(reversed)
  BY <1>10, <1>13
<1>18. Live(values) = reversed
  <2>1. total \in Nat
    BY <1>3
  <2> QED
    BY <1>8, <1>10, <1>14, <1>15, <1>16, <1>17, <2>1, LiveIs
<1> QED
  BY <1>8, <1>18 DEF values, reversed

\* back() and front() are the ends of the content.
LEMMA LastIsLast ==
    ASSUME IInv, size > 0
    PROVE  LastValue = Last(Content)
<1> DEFINE content == Content
<1>1. size \in Nat /\ size \in 1..size
  BY ListFacts
<1>2. Len(content) = size /\ \A i \in 1..size : content[i] = Ref(blocks, i - 1)
  BY ContentFacts, ContentIs DEF IInv
<1> HIDE DEF content
<1>3. Last(content) = Ref(blocks, size - 1)
  BY <1>1, <1>2 DEF Last
<1> QED
  BY <1>3 DEF LastValue, content

LEMMA FirstIsFirst ==
    ASSUME IInv, blocks # <<>>, 1 \notin EmptyBlocks
    PROVE  FirstValue = Content[1]
<1> DEFINE content == Content
           one == blocks[1]
<1>1. /\ blocks \in Seq(BlockSet) /\ Len(blocks) \in Nat \ {0} /\ size \in Nat
      /\ DOMAIN blocks = 1..Len(blocks)
      /\ size = Passed(blocks, Len(blocks))
  BY ListFacts
<1>2. 1 \in 1..Len(blocks) /\ 1 \in DOMAIN blocks /\ 1 - 1 = 0
  BY <1>1
<1>3. one \in BlockSet /\ SizeOf(one) \in Nat /\ (IsEmpty(one) <=> SizeOf(one) = 0)
  BY <1>2, ListFacts
<1>4. SizeOf(one) > 0
  BY <1>2, <1>3 DEF EmptyBlocks
<1>5. Passed(blocks, 0) = 0 /\ Passed(blocks, 1) = SizeOf(one)
  <2>1. Passed(blocks, 0) = 0
    BY <1>1, PassedFacts
  <2>2. Passed(blocks, 1) = Passed(blocks, 0) + SizeOf(blocks[1])
    BY <1>2, EndsFacts
  <2> QED
    BY <1>3, <2>1, <2>2
<1>6. Passed(blocks, 1) <= size
  <2>1. 1 \in 0..Len(blocks)
    BY <1>1
  <2> QED
    BY <2>1, EndsFacts
<1>7. 0 \in 0..SizeOf(one) - 1 /\ 1 \in 1..size
  BY <1>1, <1>3, <1>4, <1>5, <1>6
<1>8. Found(blocks, 0, 1)
  BY <1>2, <1>4, <1>5 DEF Found
<1>9. Ref(blocks, 0) = ValueOf(one, 0)
  <2>1. 0 - Passed(blocks, 1 - 1) = 0
    BY <1>2, <1>5
  <2> QED
    BY <1>1, <1>8, <2>1, SeekIs
<1>10. Data(one, 0) \in DOMAIN one.memory
  <2>1. Data(one, 0) \in 0..BlockSize - 1 /\ one.memory \in [0..BlockSize - 1 -> Values \cup {Dead}]
    BY <1>3, <1>7, BlockFacts
  <2> QED
    BY <2>1
<1>11. FirstValue = ValueOf(one, 0)
  BY <1>2, <1>10 DEF FirstValue, At, ValueOf
<1>12. \A i \in 1..size : content[i] = Ref(blocks, i - 1)
  BY ContentFacts, ContentIs DEF IInv
<1> HIDE DEF content
<1>13. content[1] = Ref(blocks, 0)
  BY <1>2, <1>7, <1>12
<1> QED
  BY <1>9, <1>11, <1>13 DEF content

LEMMA IterationHolds == IInv => IterationMeetsAll
<1> SUFFICES ASSUME IInv PROVE IterationMeetsAll
  OBVIOUS
<1> DEFINE total == size + Cardinality(EmptyBlocks)
<1>1. size > 0 => LastValue = Last(Content)
  BY LastIsLast
<1>2. blocks # <<>> => Live(Forwards) = Content /\ Len(Forwards) = total
  BY ForwardsMet
<1>3. total = Ends(Len(blocks))
  BY EndsFacts
<1>4. blocks # <<>> /\ 1 \notin EmptyBlocks => Live(Backwards) = Reverse(Content) /\ Len(Backwards) = total
  BY <1>3, BackwardsMet
<1>5. blocks # <<>> /\ 1 \notin EmptyBlocks => FirstValue = Content[1]
  BY FirstIsFirst
<1> QED
  BY <1>1, <1>2, <1>4, <1>5 DEF IterationMeetsAll

\* A loop meets every value once and in order, and one dead place for each empty
\* block; a reverse loop does so too when the first block has a value.
THEOREM LoopsMeetAll == Spec => []IterationMeetsAll
BY InvAlways, IterationHolds, PTL

=============================================================================
