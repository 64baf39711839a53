# A verification of Worthy in TLA+

Worthy is a C++ library of immutable values and persistent collections with its
own garbage-collected heap. This directory models the parts of it that carry its
logic, checks the models with TLC, and proves what matters most about them with
TLAPS. Paths below are relative to the repository.

## The system

| Component | Source | State | Operations |
|---|---|---|---|
| Public values | `src/abstract_value.cpp`, `include/worthy/*.h`, `src/map.cpp`, `src/runtime.cpp`, `src/utils.h` | `AbstractValue`: a type and a primitive or a handle; `Runtime`: a heap | copy, move, assign, compare, hash; `Map::add`, `get`; every operation on objects runs in `Heap::lock` (class `With`) |
| Handles | `src/internal/handle*.cpp`, `atomic_intrusive_stack.h` | blocks of handles, reference counts, a lock-free stack of released handles | `makeHandle`, `retain`, `release`, `reclaim`, `traverse` (GC roots) |
| Heap and frames | `src/internal/heap.cpp`, `frame.cpp` | frames with an atomic flag, the id of the owner and a nursery; `frame_count_`, `frames_mutex_`, `frame_released_`; a thread-local `current_` | `lock`, `unlock`, `gc`, `makeHandle` |
| Spaces | `src/internal/space.cpp`, `nursery.cpp`, `generation.cpp`, `eternity.cpp` | lists of blocks, a count of objects, the next generation | `construct` (bump allocation), `clear`, `setNextGeneration` |
| Garbage collector | `src/internal/garbage_collector.cpp`, `gc_worker.cpp`, `gc_workspace.cpp` | for each generation an allocation block, pending and completed blocks; forwarding addresses in objects | `collect`: swap spaces, evacuate roots, scavenge, give old blocks back, reset nurseries |
| Block allocator | `src/internal/root_block_allocator.cpp`, `block_layout.h` | descriptors with spans, free lists, free chunks, counters | `allocate(n)`, `deallocate` |
| Hash map | `src/internal/hashmap.cpp` | a hash array mapped trie of immutable nodes: bitmap nodes and array nodes | `add`, `remove`, `get`, `containsKey`, iteration, `equals`, `hash` |
| Variants, byte arrays, hashing | `src/internal/variant.cpp`, `byte_array.cpp`, `hash.cpp`, `include/worthy/value.h` | typed values, arrays of them in trie nodes, immutable bytes | construction, conversion, `==`, `hash`, `copy`, `traverse` |
| Blocks and layout | `src/internal/block.cpp`, `block_layout.h`, `memory_utils.h` | a block's start, free pointer and span | `allocate`, `deallocate`, `Block::of`, `SizeCalculator` |
| Blocked vectors | `src/internal/blocked_vector.h`, `blocked_vector_iterator.h` | growable lists of blocks with values | `emplace_back`, `pop_back`, `resize`, indices, iteration |

The components meet in few places. A client of the public values takes a frame
with `Heap::lock`, constructs objects in the nursery of its frame, gets a handle
for the result and gives the frame back. Nurseries, generations, the collector's
workspaces, the handle pool and the heap itself get blocks from one block
allocator. The collector takes the handles as roots, copies what is reachable
from the nurseries to generation 0 and from there to generation 1, and gives
blocks back. `Heap::gc` says it stops the world, but does not yet do so.

### What is hard

* Frames are taken with an atomic flag by threads that scan them without the
  mutex, while other threads add frames, and are released without the mutex.
* Handles are pushed and popped from a lock-free stack by any thread.
* The collector moves objects while blocks fill up under it, also the very
  block it is scanning.
* The block allocator finds neighbours through tags in descriptors that come
  and go with large blocks.
* The hash map switches between two node types at thresholds, splits nodes where
  hashes share digits, and counts entries far above the node that gets them.
* Keys are equal as values of a type and hashed by their bits; null and maps are
  values like others, and a map stands for "not found" in a comparison.
* A vector counts its values from the bytes of its blocks, with half empty blocks
  in the middle and bytes left over at the end of each.

### What makes each part correct

* Frames: exclusive, never lost, waited for only at the limit; waiters wake.
* Handles: a handle has one owner at a time; reference counts match owners.
* Collector: what is reachable from handles is the same graph before and after;
  nothing reachable is in memory that is given back; counts of objects are
  right; blocks are given back in the end.
* Blocked vector: values in order, at places that do not change.
* Allocator: groups tile the chunks, lists and tags match, free neighbours merge.
* Hash map: `get` after `add` is that of a finite map, for every shape of the
  trie; equality is that of the entries, and the collector meets every entry.
* Layout: each address in a block leads to the block's own descriptor.

## Modules

| Module | Models | Kind |
|---|---|---|
| `FrameOwnership` | what `Heap::lock` and `unlock` promise: a frame has one owner | abstract specification |
| `HeapFrames` | `Heap::lock`, `unlock`, `tryAcquireFrame`, `acquireFrameSync`, `newFrame`, the check of `gc`; `Frame::tryLock`, `unlock` | one step for each access to shared state |
| `HeapFramesProofs` | theorems about `HeapFrames` | proofs |
| `BlockExtents` | what the allocator promises: blocks that do not overlap and stay where they are | abstract specification |
| `RootBlockAllocator` | `RootBlockAllocator::allocate`, `deallocate` | sequential; one step for each call |
| `RootBlockAllocatorProofs` | theorems about `RootBlockAllocator` | proofs |
| `ObjectGraph` | what a collected heap promises: objects stay as they are while they are reachable, and where they are cannot be seen | abstract specification |
| `Totals` | sums, which the sizes of blocks are computed with, and powers of two, which the free lists go by | operators |
| `GarbageCollection` | `Space` and nurseries, `GarbageCollector`, `GCWorker`, `GCWorkspace`, the roots in `HandlePool::traverse`, class `With` | one step for each operation of a client, each root and each object scanned |
| `InductionTheorems` | theorems about `Totals`, and induction over natural numbers and finite sets | proofs |
| `GarbageCollectionProofs` | theorems about memory in `GarbageCollection` | proofs |
| `CollectedGraphProofs` | theorems about what clients see of `GarbageCollection`, and what it counts | proofs |
| `FiniteMap` | what a hash map promises: a finite function from keys to values | abstract specification |
| `Variants` | `Variant`, `VariantArray`, `ByteArray`: equality, hashes, arrays; `AbstractValue::equals`, `toVariant`, `toValue` | operators |
| `HashMap` | `HashMap::add`, `remove`, `get`, `containsKey`, `iterate_map`, `equals_`, `hashCode_`, `traverse_`, the same of bitmap and array nodes, and `Map::add`, `get` | sequential; one step for each call |
| `MCHashMap` | the keys and values of the runs of `HashMap` | instance |
| `SharedValues` | what handles promise: a value keeps its object until it is dropped | abstract specification |
| `ValueSequence` | what a blocked vector promises: a sequence | abstract specification |
| `BlockedVectorProofs` | theorems about `BlockedVector` | proofs |
| `BlockMemory` | where chunks have blocks and descriptors (`block_layout.h`, `Block::of`), allocation in a block, `SizeCalculator` | operators |
| `BlockMemoryProofs` | theorems about `BlockMemory` | proofs |
| `BlockedVector` | all calls of `BlockedVector` that change it, its indices and its iterators | sequential; one step for each call |
| `HandlePool` | `HandlePool::makeHandle`, `reclaim`, `Handle::retain`, `release`, `AtomicIntrusiveStack`, copies, moves and swaps of `AbstractValue` | one step for each access to shared state |
| `HandlePoolProofs` | theorems about `HandlePool` | proofs |

The head of each module has a table from the fields of the code to its
variables. Actions have the names of the functions; a function with several
accesses to shared state is split into actions at these accesses, and a program
counter says where a thread is. Definitions that begin with "Mutant of" in their
comment are wrong versions of the next definition, which show that a property
can fail.

### Frames

`pc[t]` walks through `lock`: `scan` and `tryLock` are the loop of
`tryAcquireFrame`, without the mutex or, after `mutex`, with it; `link` and
`claim` are `newFrame` and the `tryLock` after it; `wait` is the wait set of
the condition variable, left through `NotifyOne` or spuriously. `release` and
`notify` are the two steps of `unlock` after the id is reset. A failed check ends
the process (`Abort`, the variable `aborted` has the check); `debug` says whether
checks of the debug build are there, and both builds are explored.

### Block allocator

Each call is one action, written on a record of the allocator's fields, so that
each helper of the code is an operator from a state to a state. Descriptors that
lie in memory of a large block are not `constructed`; reading one is an error of
the model. The block numbers are those of the code's address arithmetic. The loops
that compute logarithms or search a list are a choice of the index they stop at:
the proofs show that there is exactly one.

### Garbage collection

An object is a number of references with a name; the name exists only to compare
the graph before and after. Clients make an object from what they can reach from
the value they read, and any other handle. A collection is a sequence of steps:
`Collect`, an `EvacuateRoot` for each handle, and then `StartBlock`, `ScanObject`
for each object and `EndBlock` until no generation has work, and `Finish`. An
operation on a value is a `Read` of the address in its handle, a `Lock`, and then
`Construct`, `AddNothing` or `Leave`, which unlock. `Collect` is a call of `gc()` in a
thread that does nothing else, and needs that no thread has locked the heap: the
code checks that only for the calling thread and has a TODO to stop the others.
The constant `ReadersRest` says whether threads between `Read` and `Lock` are
stopped too; run `gc_with` shows why that matters. What is unreachable
keeps only its size (`Forget`): nothing may depend on it, and it keeps the state
space finite.

### Hash map

A node is a record, and a helper of the code is an operator on nodes. Where the
code passes `added_leaf` down, operators return it with the node. A failed check
comes back the same way, and the call that meets it changes nothing and ends the
behaviour (`aborted`). The numbers of the code are constants: 32 children (`Width`),
16 pairs (`MaxBitmap`), 8 children (`BitmapAt`). Maps are never changed, so one
variable with the last map is enough; equality compares it with maps made afresh.

Keys and values are variants of `Variants`: integers and floats of several types,
byte arrays, null, and maps. A cell of a new array is `Unset` until it is written.
An object is its content, as nothing on these paths looks at addresses of objects
but to tell whether a node has changed. `HashMap` defines equality and hash of
variants (`Equal`, `Hash`), as they go by the type of the object back to maps.
A double is a number that stands for its bits; the run says which are a NaN or
-0.0. `MurmurHash3` is external: here the hash of a number is the number modulo
`HashRange`, so a run chooses hashes by choosing keys, and `hashCombine` is
arithmetic that depends on the order of its calls.

### Blocked vector and blocks

`BlockMemory` has the arithmetic of the code on addresses, with its three sizes as
constants. A block is its start, its free pointer and its span; the vector adds
the memory, a function from the address at which a value begins. What is read
elsewhere is `Dead`. Indices, `size()` of a block and the ends of loops are
computed from bytes, as in the code. Iterators are records with the block and the
address, and a loop from `begin()` to `end()` is a recursive function, `Iterators`,
over the iterator's own increments, which runs until the iterator equals `end()`
(`Runs`), so that it meets what the code's loop meets, dead places included.

### Handles

`word[h]` is the union of `obj_` and `next_`; that the two share memory is the
point. The constant `Serial` says which parts of `makeHandle` clients run one
thread at a time: the loop of `pop`, and `emplace_back`. Without `"pop"` the
stack breaks (run `handles_aba`); without `"append"` two threads can get the same
slot (`TODO.md` lists the pool as not thread safe). Pushes, copies, moves, swaps
and releases are never serialised, nor the rest of `makeHandle`. An assignment is a
release and a copy or a move, with steps of other threads in between. `Stack` are
the handles one gets to from the top: those in every set that has the top and, with
a handle, the next of it.

## Runs

| Run | Shows | Bounds |
|---|---|---|
| `frames` | safety of `lock` and `unlock`, `FrameOwnership`, and that every call gets to its end, to the mutex or to the wait | 3 threads, 1 frame and 1 more: scans meet a frame that is added, taken and released |
| `frames_lost_wakeup` | a waiter misses the only notification | 2 threads, 1 frame |
| `frames_new_frame` | the new frame is stolen, and a check fails | 3 threads, the code's limit of 4 frames per CPU |
| `frames_gc` | `gc` fails its check in a thread that has unlocked | 2 threads, 4 frames per CPU |
| `blocks` | lists, tags, counters and merging, and `BlockExtents` | chunks of 6 usable blocks and 8 in all, 3 chunks, requests of 2, 5 and 7 blocks, 2 blocks at a time |
| `gc` | graphs survive, each object once, in memory that stays; and `ObjectGraph` | 1 thread, 2 handles, 3 reachable objects with up to 2 references, 5 blocks of 3 units, 2 generations, 3 collections |
| `gc_with` | a thread that has read a handle and not yet locked the heap keeps the address of a moved object | as `gc`, with collections between the two |
| `handles` | counts, places and objects of handles, and `SharedValues` | 3 threads, 2 values, 2 objects, 5 handles |
| `handles_aba` | the stack of free handles gets an object as its top | 2 threads in `pop` at a time |
| `vector` | indices read a sequence, values stay in place, loops meet every value, and `ValueSequence` | blocks of 5 bytes, values of 2, so 2 in a block and a byte left over; 4 blocks |
| `map` | search, iteration, count, equality, hash and traversal agree with a finite map, and `FiniteMap`; every `add` and `remove` has its effect from every map reached | 4 children, 2 pairs in a bitmap node, 2 children in an array node, hashes of 3 digits; 9 keys of 5 types, null among them, 5 entries at a time; null, a number, a map and a map of maps as values |
| `map_shrink` | the removal that rebuilds a bitmap node writes past the end of an array | as `map` |

Why the bounds are enough for the cases that matter:

* Frames: three threads are one to hold, one to add and one to scan; with a
  second frame the remainder in the scan and the growing count are exercised.
  The limit of four frames per CPU is scaled down to two or one, except where it
  is the point. The proofs cover every number.
* Blocks: a request of 5 of 6 leaves a free block of one, 2 leaves several, and 7
  takes two chunks; with three chunks free groups of chunks are split and merged
  on both sides.
* Collection: objects of one to three units in blocks of three fill blocks at
  every point: while the block is scanned, with a part of it scanned (pending), or
  with all of it scanned (completed). Three collections take an object from a
  nursery to generation 0, to generation 1, and within generation 1. One thread
  suffices as each frame only adds a nursery. With these bounds no
  generation has old blocks to give back except generation 0.
* Handles: one thread pops while two others push, copy and append. Up to four
  handles are used, so the bound of five never stops the pool.

* Blocked vector: four blocks of two leave empty and half empty blocks at the
  front, in the middle and at the end; the byte left over is less than a value.
* Hash map: 0, 1 and 3 differ in the first digit of their hash; 0, 8 and the
  string (hash 4) share it and differ in the second; the NaN (hash 17) shares two
  digits with 1. So entries are split at three levels, and array nodes lie at the
  root and below it, also both at a time with five entries. 0 as an integer and as
  a float have one hash and are different keys; 0.0 and -0.0 are one key. The
  map of maps equals its inner map from one side only. All histories of calls are
  explored, up to five entries at a time.

Deadlock is not checked: clients may stop, and the bounds on collections,
objects and blocks end behaviours.

Memory accesses are interleaved in program order. The code uses relaxed and
release orders; what a weaker memory model adds is not modelled.

## Fairness

Only `frames` and `frames_lost_wakeup` assume fairness (`FairSpec` of
`HeapFrames`): a thread inside `lock` or `unlock` takes its next step, a mutex that
stays free is taken, and a client with a frame unlocks. All of it is weak: the
scheduler runs every thread, and a client must not keep its frame for ever.
Nothing is assumed of who gets a contended mutex, so a waiter may still starve
while others lock and unlock; `WaiterGetsFreeFrame` fails even without that.

## Proofs

`HeapFramesProofs` proves for all sets of threads, all numbers of CPUs and all
limits of frames, from `FramesAssumption` alone:

* `TypeCorrectness`, `Exclusion`, `Recording`, `NoLoss`, `HolderChecks`,
  `WaitingAtLimit`: the safety invariants of run `frames`;
* `Handover`: its action property;
* `Implementation`: `HeapFrames` implements `FrameOwnership`.

The invariants do not follow from one another step by step. That two threads do
not have the same frame needs that a thread that has one has its flag set
(`HoldersHaveFlag`), for `TryLockFree` looks only at the flag. That `Unlock` passes
its checks needs that the id in the frame is the holder's own, and this that no
late step of an earlier owner's `unlock` removes it: the id is reset before the flag
is cleared, so an earlier owner at `release` still excludes the next. That the
frames a thread remembers exist (`IndicesValid`) needs that frames are never
taken away. `Inv` is the conjunction of these, and of who may hold the mutex where
(`MutexDiscipline`). Each action falls in one of five kinds by what it does to
frames (takes, records, forgets, returns, or none), with a lemma for each kind.
`StepPreserves` combines them, and the theorems follow from `Invariance`.

`HandlePoolProofs` proves all properties of run `handles` for every finite set of
threads and of values, every set of objects and every bound of the pool, from
`HandlePoolAssumption` and `Serialized`, which says that one thread at a time is in
the loop of `pop` and one in `emplace_back`:

* `TypeCorrect`, `CountsAreRight`, `TraversalFindsObjects`, `OnePlace`,
  `PoolGrowsOnDemand`: its invariants;
* `HandlesImplementSharedValues`: `HandlePool` implements `SharedValues`.

The argument is about the handles that no value and no thread has (`Released`). A
step changes which they are only where it exchanges the top (`StepReleased`), and
it writes only to words of handles that one thread has to itself (`HeldAlone`,
`WordsStay`). So what the one thread in `pop` has read stays true
(`PopperIsRight`), and its exchange takes a handle that is released. That the
released handles are exactly those on the stack would need induction along the
links; `ReleasedAreLinked` (each is linked from at most one place) and `NoneIsLost`
(they are in every set of handles that has the top and the next of each member)
say it without, and each follows from itself in one step. Counts are cardinalities
of the values that have a handle (`StepCounts`). The bound of the pool counts: when
a thread finds the stack empty, the values with handles, the targets of the
threads that make values and its own are different values, and only the others
can be about to push (`HandleIsNeeded`, `AddedAreNeeded`).

`BlockMemoryProofs` proves about `BlockMemory`, for every size of descriptors and
blocks, and chunks whose descriptors fill n blocks, n at most the number of
descriptors in a block (4 of 64 in the code):

* `DescriptorsFit`: the descriptors of all blocks end exactly where the first
  block begins, with nothing to spare;
* `BlockOfAddress`: `Block::of` finds the descriptor that was made for the block,
  from every address in it, and `blockFromDescriptor` leads back;
* `ConstructAgreesWithCalculator` and `ArraysHaveNoGaps`: what the heap constructs in
  its block takes what `SizeCalculator` calculated, and frames lie at their indices.

`GarbageCollectionProofs` proves for every finite set of threads and every number of
blocks, generations, handles and objects, from `CollectionAssumption`, and from
`ReadersRest`, which says that a collection waits for threads that have read an address
and not yet locked the heap (run `gc_with` shows that it must):

* `TypeCorrect`, `PointersStayValid`, `WorkIsKept`, `CopiesStay`, `BlocksHaveOnePlace`:
  the invariants of run `gc`.

The inductive invariant `IInv` has its main part, `Sound`, on states of the evacuation:
records of blocks, workspaces, the block being scanned and the copies made so far.
One lemma says what the copy of one object does to it (`CopiedSound`), one what a new
allocation block does (`RoomSound`), and an induction over the references of an
object carries both to a whole object (`EvacuateAllSound`); roots use the same lemma.
`Sound` says more than the invariants of the run. That a pointer stays valid needs
that everything an object refers to is an object (`RefsValid`), also in objects that no
client can reach; that a forwarding address leads to a copy (in `RefsForwarded` and
`CopiesKept`), and that copies lie in no block of an old list, for the old blocks are
emptied at the end. That no block is in two lists needs that the owner of a block says
in which lists it may be, and the lists of one generation to be disjoint
(`BlocksListed`). At the end of a collection nothing is left to scan
(`NothingUnscanned`), so every pointer in a copy is to a copy (`SettledSound`), and by
an induction along paths so is all that is reachable from the roots
(`ReachableWithin`): the old blocks can go. What a client makes an object of is
reachable from its own pointer or a handle (`UsableIsValid`).

`CollectedGraphProofs` proves from the same assumptions:

* `SurvivorsAreCounted` and `CollectionImplementsGraph`: the action properties of run
  `gc`, the second with the refinement of `ObjectGraph`.

The argument is not about the way from objects to their copies, but about the contents
of memory: the pairs of the name of an object and the names it refers to, of all objects
that have not been forgotten (`Contents`). Contents are a function from names to
references (`Functional`), which is the graph (`GraphOf`). The copy of one object leaves
them as they are, as it has the name and the references of its original
(`DuplicatedKeeps`), and so does the exchange of a pointer for a forwarding address,
which leads to the same name (`ForwardedName`, `ScanKeeps`); both are carried to whole
steps with `Kept`. So no step of a collection but the last has to be compared with the
graph at all. The last one gives blocks back, and needs that each name has one original
and at most one copy (`OneOriginal`): otherwise what stays would not be determined by
the names (`OnePlace`). That nothing clients know is lost then follows from `AllReached`,
the part of the invariant that says that at all times every name is reachable from the
handles, by references between names (the model forgets other objects when the last
handle that led to them goes). What is reachable is a level of a
recursion for addresses in the model and one for names in `ObjectGraph`. Both have
as many levels as there are names, and each level that is not closed
adds one (`LastLevelSpans`), so both are the least set of names that is closed
(`Spans`), and `FurtherNames` takes one to the other. Steps of clients are then lemmas
on such sets: a handle more (`MoreSpans`), an object more (`WithSpans`), a handle less
(`RestrictSpans`).

For the counts, `CopiesCounted` says that the counters of the workspaces add up to the
number of copies; a collection starts with none (`NothingCounted`), a copy adds one to
both (`DuplicatedCounts`), and at the end the copies are the objects that are reachable
(`FinishKeepsInv`), each with a name of its own (`RestView`).

`RootBlockAllocatorProofs` proves for every number of blocks in a chunk, of free lists,
of chunks in the address space and of clients' blocks, and all requests, from
`AllocatorAssumption` alone (a chunk has at least two usable blocks and loses at least
one to descriptors, its size is a power of two, and nobody asks for no blocks, which
`allocate` checks):

* `TypeCorrect`, `GroupsAlwaysTileChunks`, `FreeListsAlwaysMatch`,
  `BoundaryTagsAlwaysMatch`, `FreeGroupsStayMerged`, `CountersAlwaysMatch`: the
  invariants of run `blocks`;
* `LiveBlocksAlwaysStay`: its action property;
* `AllocatorImplementsExtents`: `RootBlockAllocator` implements `BlockExtents`.

The invariant `IInv` is `Sound`, `Merged` and `ClientsMatch`. `Sound` is about a state and
the set of groups that are in no list, which clients have, or which is in hand within a
call: its groups lie apart (`GroupsApart`, where a group of whole chunks ends with its
last chunk), cover the chunks of the allocations (`ChunksCovered`), have the form of a
group and their spans in their first and last descriptor (`IsGroup`), are in the
lists their spans say (`ListsMatch`), and no descriptor but those of groups in no list
says that it is not free, stale ones within groups included (`FreeMatch`). `Merged` and `ClientsMatch`, which ties the span of a client's group to what
was asked for and the counter to the groups, hold only between calls. Each of the
properties is one of these parts or needs several of them: that the tags tell the
truth (`BoundaryTagsMatch`) does not survive a merge unless the neighbour that is found
through them is a whole free group, which needs that groups lie apart and cover the
chunk; that needs in turn that the neighbour is taken from the one list that has it.

Everything a call does to the groups is a case of one lemma, `Regroup`: where a
stretch of memory from the beginning of one group to the end of another is cut
differently, with tags for the new groups and nothing else changed, `Sound` is kept.
`SplitGroup`, `JoinGroups`, `CutChunks`, `JoinChunks` and `NewMemory` are its cases, and
the lemmas on `Release`, `Reclaim` and on putting groups in lists and taking them out say
that the groups stay. So each helper of the code has one lemma (`FromFreeListFacts`,
`MergeNextFacts`, `FreeChunkGroupFacts`, ...), `AllocateFacts` and `DeallocateFacts` are
about whole calls, and both invariant and refinement follow from these two. That the
freed group merges on both sides needs no search of the list: a group that adjoins
the one in hand is the one before or after its place in the sorted list
(`AddChunks`).

`BlockedVectorProofs` proves for every size of blocks and of values that fit, every
set of values and any number of blocks, from `VectorAssumption` and
`BlockMemoryAssumption` alone:

* `TypeCorrect` and `LoopsMeetAll`: the invariants of run `vector`;
* `ElementsAlwaysStay`: its action property;
* `VectorImplementsSequence`: `BlockedVector` implements `ValueSequence`.

The inductive invariant says of each block that its bytes up to the free pointer are
those of some number of whole values and the others are dead (`BlockSet`), and that
the vector's size is the sum of those numbers (`IsVector`). Everything else is counting:
`Passed` says how many values the first blocks have, so an index has exactly one
block (`FoundExists`, `FoundOnce`), which `Seek` finds (`SeekIs`), and which is the same
one after a call that changes the blocks only from there on (`StaysFound`). The calls
are lemmas about lists of blocks (`PushedList`, `PoppedList`, ...): each says that the
list is still a vector and up to which index values and places agree with those before;
`clear` is an induction over its pops. For the loops, `ForwardReached` and
`BackwardReturned` say where the iterator is after n steps: a block takes as many
steps as it has values, and one if it has none (`Ends`). So the loop ends where it should
and not before, and the values met that are not dead are the content (`LiveIs`). What
the reverse loop needs of the first block enters at one place: without a value in it,
the iterator passes from its second block to an address before `begin()`.

Inductions over data are stated about sets, as no prover here takes a predicate for an
argument: `LeastNatural` follows from the well-foundedness of inclusion on finite
sets, `NatInductionOnSet` from it, and each induction names the set of numbers for which
its claim holds. Recursive functions are shown to exist in the same way (`TotalExists`, `PowerOfTwoFacts`).

Model-checked only: liveness of frames, as fairness is beyond the provers; everything
about the hash map, whose operators recurse along the trie, as the code does, which
the provers cannot follow by induction over data; and the operators of `Variants`,
which the hash map is checked with.
The lost wakeup, the stolen frame and the other runs that find a violation have
nothing to prove.

## What the code does not do

* `unlock` can lose the wakeup of a waiter (`frames_lost_wakeup`): it notifies
  without the mutex.
* A new frame can be taken by another thread before its creator locks it
  (`frames_new_frame`): the count is incremented first.
* `gc` can fail its check in a thread that holds nothing (`frames_gc`), because
  `Frame::current_` is left behind by `unlock`.
* `With` reads the address in a handle before it locks the heap (`gc_with`), so a
  collection can move the object away under the operation.
* `HashMapArrayNode::toBitmapNode` writes past the end of the new node's array
  (`map_shrink`), in every call.
* `pop` has the ABA problem (`handles_aba`), made worse by the union of `obj_` and
  `next_`.

Seen while modelling, without a run:

* Blocks that fill up while they are scanned, or are pending, end in no list and
  are never given back; `gc_worker.cpp:193` has a TODO.
* `gc` does not stop other threads; `heap.cpp:130` has a TODO.
* `HashMap::equals_` uses the other map as the value for "not found", so
  `{1: {2: x}}` equals `{2: x}`, but not the other way round. `add` keeps the old value
  if it equals the new one, so `add(k, {2: x})` over `{k: {1: {2: x}}}` changes nothing.
* A key that is a NaN equals no key: it is never found or removed, and adding it
  again ends the program, as two keys with one hash do. So do 0 as an integer and
  0 as a float in one map (`hashmap.cpp:55`, a TODO).
* `Map::get` gives null for every value that is an object (`utils.cpp:19`, a TODO).
* `Block::of` is right for addresses in the first block of a larger one only: the
  others have no descriptor of their own.
* `BlockedVector::pop_back` leaves empty blocks, and a loop reads a dead place in
  each of them (`IterationMeetsAll` says exactly how many). With the first block
  empty and a later one not, as after `clear` and `push_back`, `front` reads a dead
  place and a reverse loop misses its end. The iterators of a vector without
  blocks are read from the list's own head.
* `push_back` looks only at the last block, so a vector that grows and shrinks
  across the end of a block again and again takes a block each time.

## Not modelled

* The bits of hashes: MurmurHash is a vendored library. Iterators over maps and
  strings: stubs. Output to streams and the messages of checks.
* Large objects, partial collections and several collector workers: not
  implemented in the code.
* Several heaps in a process and their destruction, with the thread-local
  current frame they share.
* The cached hash of a map, which holds what the model computes anew, and the
  collision node, which the code does not have. Iterators of a blocked vector that
  are kept while it changes; the destruction of vectors, spaces and heaps.

## Plan

1. Done: frames, with proofs; block allocator; collection; handles, with proofs;
   hash map with variants and maps as values; blocked vector at the level of
   bytes; layout of chunks, with proofs.
2. Done: proofs about `GarbageCollection`, `RootBlockAllocator` and `BlockedVector`;
   that a collection keeps the graph and counts the survivors.
3. Proofs about the operators of `Variants`, and about the hash map in a form whose
   recursion is a function of the depth.
4. Several heaps and the thread-local current frame.
