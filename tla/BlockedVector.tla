---------------------------- MODULE BlockedVector ----------------------------
(***************************************************************************)
(* BlockedVector, the list of blocks in which the handle pool keeps its    *)
(* handles, and its iterators.  One step is one call.                      *)
(*                                                                         *)
(*   source                             here                               *)
(*   blocks_                            blocks, a sequence                 *)
(*   a block and the bytes in it        start, free, span, and memory: the *)
(*                                      value that begins at a byte        *)
(*   size_                              size                               *)
(*   BlockedVectorIterator:             an iterator's block (end() is the  *)
(*     block_, pos_                       one after the last) and pos      *)
(*                                                                         *)
(* Nothing compares addresses of different blocks, so every block starts   *)
(* at address 0.                                                           *)
(***************************************************************************)
EXTENDS BlockMemory, Totals, Sequences, FiniteSets, SequencesExt

CONSTANTS
    Values,
    Dead,               \* what is read where no value is
    ValueSize,
    MaxBlocks           \* bound: blocks of the vector

ASSUME VectorAssumption ==
    /\ Dead \notin Values
    /\ ValueSize \in 1..BlockSize /\ MaxBlocks \in Nat

VARIABLES
    blocks,
    size

vars == <<blocks, size>>

ValuesPerBlock == BlockSize \div ValueSize

Init == blocks = <<>> /\ size = 0

-----------------------------------------------------------------------------
(* Reading *)

\* data() with an index
Data(block, i) == block.start + i * ValueSize

IsEmpty(block) == block.free = block.start

SizeOf(block) == BytesAllocated(block) \div ValueSize

\* What the program reads at an address that it takes for one in block b.
At(bs, b, ptr) ==
    IF b \in DOMAIN bs THEN IF ptr \in DOMAIN bs[b].memory THEN bs[b].memory[ptr] ELSE Dead
                       ELSE Dead

\* How many values the first n blocks have.
Passed(bs, n) == Total([b \in 1..n |-> SizeOf(bs[b])])

\* Mutant of Seek: all blocks but the last are taken to be full.
SeekFullBlocks(bs, i) == [block |-> 1 + i \div ValuesPerBlock, index |-> i % ValuesPerBlock]

\* seek: where the loop stops that passes the values of block after block.
Seek(bs, i) ==
    CHOOSE found \in {[block |-> b, index |-> i - Passed(bs, b - 1)] : b \in DOMAIN bs} :
      0 <= found.index /\ found.index < SizeOf(bs[found.block])

\* The block and the address of a value.
Place(bs, i) ==
    LET found == Seek(bs, i) IN <<found.block, Data(bs[found.block], found.index)>>

Ref(bs, i) == LET found == Seek(bs, i) IN bs[found.block].memory[Data(bs[found.block], found.index)]

FirstValue == At(blocks, 1, Data(blocks[1], 0))

LastValue == Ref(blocks, size - 1)

-----------------------------------------------------------------------------
(* Iterators *)

First(b) == blocks[b].start

LastPos(b) == blocks[b].free - ValueSize

Begin == [block |-> 1, pos |-> First(1)]

End == [block |-> Len(blocks) + 1, pos |-> Nullptr]

Dereference(it) == At(blocks, it.block, IF it.pos = Nullptr THEN First(it.block) ELSE it.pos)

\* Mutant of Increment: the last value of a block is left out.
IncrementEarly(it) ==
    LET next == (IF it.pos = Nullptr THEN First(it.block) ELSE it.pos) + ValueSize
    IN  IF next >= LastPos(it.block) THEN [block |-> it.block + 1, pos |-> Nullptr]
                                     ELSE [it EXCEPT !.pos = next]

Increment(it) ==
    LET next == (IF it.pos = Nullptr THEN First(it.block) ELSE it.pos) + ValueSize
    IN  IF next > LastPos(it.block) THEN [block |-> it.block + 1, pos |-> Nullptr]
                                    ELSE [it EXCEPT !.pos = next]

\* end() has no block, and its null position is below every other.
Decrement(it) ==
    IF it.pos # Nullptr /\ it.pos > First(it.block)
      THEN [it EXCEPT !.pos = @ - ValueSize]
      ELSE [block |-> it.block - 1, pos |-> LastPos(it.block - 1)]

\* A loop goes from begin() by increments, a reverse one from end() by decrements,
\* and each ends where the other begins.
Start(forwards) == IF forwards THEN Begin ELSE End

Iterators(forwards) ==
    LET Iterator[n \in Nat] ==
          IF n = 0 THEN Start(forwards)
          ELSE IF forwards THEN Increment(Iterator[n - 1]) ELSE Decrement(Iterator[n - 1])
    IN  Iterator

\* How often a loop runs: each time it passes a value or a block.
Runs(forwards) ==
    LET iterator == Iterators(forwards)
        last     == Start(~forwards)
    IN  CHOOSE n \in 0..size + Len(blocks) :
          iterator[n] = last /\ \A m \in 0..n - 1 : iterator[m] # last

\* The values the loops meet.  A reverse one dereferences the place before its
\* iterator.
Forwards ==
    LET iterator == Iterators(TRUE) IN [n \in 1..Runs(TRUE) |-> Dereference(iterator[n - 1])]

Backwards ==
    LET iterator == Iterators(FALSE) IN [n \in 1..Runs(FALSE) |-> Dereference(iterator[n])]

-----------------------------------------------------------------------------
(* Calls *)

\* A block from the allocator, with one span.
NewBlock ==
    LET block == Released(0, 1)
    IN  [start |-> block.start, free |-> block.free, span |-> block.span,
         memory |-> [ptr \in 0..BlockSize - 1 |-> Dead]]

\* A value is written, over what was in its bytes.
Write(block, ptr, v) ==
    [block EXCEPT !.memory =
        [x \in DOMAIN @ |-> IF x = ptr THEN v
                            ELSE IF x \in ptr + 1..ptr + ValueSize - 1 THEN Dead ELSE @[x]]]

\* Mutant of HasRoom: any room will do.
HasAnyRoom(block) == BytesAvailable(block) > 0

HasRoom(block) == BytesAvailable(block) >= ValueSize

\* freeBlock: only the last block is looked at; the one after it is a new one.
FreeBlock == IF blocks # <<>> /\ HasRoom(Last(blocks)) THEN Len(blocks) ELSE Len(blocks) + 1

\* push_back and emplace_back; what is written to the null pointer is lost.
PushBack(v) ==
    LET block     == IF FreeBlock > Len(blocks) THEN NewBlock ELSE blocks[FreeBlock]
        allocated == AllocateBytes(block, ValueSize)
        written   == Write(allocated.block, allocated.ptr, v)
    IN  /\ FreeBlock <= MaxBlocks
        /\ blocks' = IF FreeBlock > Len(blocks) THEN Append(blocks, written)
                     ELSE [blocks EXCEPT ![FreeBlock] = written]
        /\ size' = size + 1

\* Mutant of LastUsed: the search starts at the wrong end.
FirstUsed(bs) == CHOOSE b \in DOMAIN bs : ~IsEmpty(bs[b]) /\ \A c \in 1..b - 1 : IsEmpty(bs[c])

LastUsed(bs) == CHOOSE b \in DOMAIN bs : ~IsEmpty(bs[b]) /\ \A c \in b + 1..Len(bs) : IsEmpty(bs[c])

\* The value at the end is destroyed and its bytes are given back.
Popped(block) ==
    DeallocateBytes(Write(block, block.free - ValueSize, Dead), ValueSize)

WithoutLast(bs) == [bs EXCEPT ![LastUsed(bs)] = Popped(@)]

PopBack ==
    /\ size > 0
    /\ blocks' = WithoutLast(blocks)
    /\ size' = size - 1

\* pop_back as often as there are values: no block is given back.
ClearAll ==
    LET AfterPops[n \in Nat] == IF n = 0 THEN blocks ELSE WithoutLast(AfterPops[n - 1])
    IN  /\ size > 0
        /\ blocks' = AfterPops[size]
        /\ size' = 0

\* A value is assigned through at() or operator[].
Assign(i, v) ==
    LET place == Place(blocks, i)
    IN  /\ i < size
        /\ blocks' = [blocks EXCEPT ![place[1]] = Write(@, place[2], v)]
        /\ UNCHANGED size

ShrinkToFit ==
    /\ blocks # <<>> /\ IsEmpty(Last(blocks))
    /\ blocks' = IF size = 0 THEN <<>> ELSE SubSeq(blocks, 1, LastUsed(blocks))
    /\ UNCHANGED size

Next ==
    \/ \E v \in Values : PushBack(v) \/ \E i \in 0..size - 1 : Assign(i, v)
    \/ PopBack
    \/ ClearAll
    \/ ShrinkToFit

Spec == Init /\ [][Next]_vars

-----------------------------------------------------------------------------
(* Properties *)

Content == [i \in 1..size |-> Ref(blocks, i - 1)]

EmptyBlocks == {b \in DOMAIN blocks : IsEmpty(blocks[b])}

\* The values of a block lie one after the other from its beginning to its free
\* pointer, none of them over its end, and size() is how many there are.
TypeOK ==
    /\ Len(blocks) <= MaxBlocks
    /\ \A b \in DOMAIN blocks :
         /\ blocks[b].free \in blocks[b].start..EndOf(blocks[b])
         /\ \A ptr \in blocks[b].start..EndOf(blocks[b]) - 1 :
              blocks[b].memory[ptr] \in
                IF ptr % ValueSize = 0 /\ ptr < blocks[b].free THEN Values ELSE {Dead}
    /\ size = Passed(blocks, Len(blocks))

Live(values) ==
    LET UpTo[n \in 0..Len(values)] ==
          IF n = 0 THEN <<>>
          ELSE IF values[n] # Dead THEN Append(UpTo[n - 1], values[n]) ELSE UpTo[n - 1]
    IN  UpTo[Len(values)]

\* A loop over the vector meets every value once and in order, and besides it
\* reads one dead place for each empty block, for increment() and decrement()
\* do not pass over such blocks.  A reverse loop, and front(), need a value in
\* the first block: begin() is otherwise not met.
IterationMeetsAll ==
    LET empty == Cardinality(EmptyBlocks) IN
    /\ size > 0 => LastValue = Last(Content)
    /\ blocks # <<>> =>
         /\ Live(Forwards) = Content
         /\ Len(Forwards) = size + empty
    /\ blocks # <<>> /\ 1 \notin EmptyBlocks =>
         /\ Live(Backwards) = Reverse(Content)
         /\ Len(Backwards) = size + empty
         /\ FirstValue = Content[1]

\* A value stays at its address while it is in the vector, whatever is added or
\* given back: the handle pool hands out the addresses of its handles.
ElementsStay ==
    [][\A i \in 0..size - 1 : i < size' => Place(blocks', i) = Place(blocks, i)]_vars

Sequence == INSTANCE ValueSequence WITH content <- Content

\* at(), operator[] and back() read what was pushed and assigned, also after
\* calls that leave empty and half empty blocks.
ImplementsSequence == Sequence!Spec

=============================================================================
