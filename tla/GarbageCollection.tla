-------------------------- MODULE GarbageCollection --------------------------
(***************************************************************************)
(* Objects in spaces, and the copying collector.  Clients construct        *)
(* objects in the nurseries of their frames and keep them with handles.  A *)
(* collection copies what is reachable from handles into the allocation    *)
(* blocks of generations, leaving forwarding addresses, scans the copies,  *)
(* and gives the blocks of nurseries and of old generations back.  The     *)
(* allocation block of a generation stays from one collection to the next. *)
(*                                                                         *)
(* A step is one operation of a client or, in a collection, the evacuation *)
(* of one handle or the scan of one object.  One worker collects.          *)
(*                                                                         *)
(*   source                             here                               *)
(*   Block: owner_, [start_, free_),    block[b].owner, .objects,          *)
(*          scan_ptr_                     .scanned (a number of objects)   *)
(*   Block::Scanning                    scanning                           *)
(*   Object: moved_, pointers in it     an object's moved, refs            *)
(*   Space: blocks_, object_count_      space[s].blocks, .count, where s   *)
(*                                        is a generation or the thread    *)
(*                                        whose frame has the nursery      *)
(*   Generation::old_blocks_            old[g]                             *)
(*   GCWorkspace                        work[g]                            *)
(*   Handle::obj_, if it has references handle[h]                          *)
(*   With::object_, and between its     pointer[t], and between Lock and   *)
(*     constructor and destructor         Unlock                           *)
(*                                                                         *)
(* An object takes one unit of memory, and one for each reference.         *)
(***************************************************************************)
EXTENDS Integers, Sequences, FiniteSets, SequencesExt, FiniteSetsExt, TLC, Totals

CONSTANTS
    Threads,            \* threads, each with a frame of its own
    NoOwner,            \* the owner of a block that is not allocated
    BlockCount,         \* bound: blocks of memory
    BlockSize,          \* units of memory in a block
    GenerationCount,    \* 2 in heap.cpp
    HandleCount,        \* bound: handles
    NameCount,          \* bound: reachable objects
    MaxCollections,     \* bound: collections
    MaxNewObjects,      \* bound: objects constructed
    MaxRefs,            \* bound: references in an object
    ReadersRest         \* whether gc() waits for threads about to lock the heap

ASSUME CollectionAssumption ==
    /\ NoOwner \notin Threads /\ IsFiniteSet(Threads)
    /\ (Threads \cup {NoOwner}) \cap (0..GenerationCount - 1) = {}
    /\ BlockCount \in Nat \ {0} /\ MaxRefs \in Nat
    /\ BlockSize \in Nat /\ BlockSize > MaxRefs
    /\ GenerationCount \in 1..BlockCount
    /\ HandleCount \in Nat /\ NameCount \in Nat
    /\ MaxCollections \in Nat /\ MaxNewObjects \in Nat
    /\ ReadersRest \in BOOLEAN

Blocks == 1..BlockCount
Generations == 0..GenerationCount - 1
Handles == 1..HandleCount
Names == 1..NameCount

NoBlock == 0
NoHandle == 0
Null == <<NoBlock, 0>>          \* nullptr
EmptyMap == <<NoBlock, 1>>      \* an object in a block with the Eternal flag

VARIABLES
    block,
    space,
    old,
    work,
    handle,
    inUse,          \* inUse[t]: the handle of the value t works on, or NoHandle
    pointer,        \* pointer[t]: the address t has read from it, or Null
    locked,         \* whether t has locked the heap
    collecting,     \* whether collect() runs
    toVisit,        \* handles evacuateRoots has still to visit
    scanning,       \* the block scavengeBlock scans, or NoBlock
    copies,         \* history: the addresses copied to in this collection
    collections,    \* how many collections there were, for the bound
    created         \* how many objects were constructed, for the bound

vars == <<block, space, old, work, handle, inUse, pointer, locked, collecting, toVisit,
          scanning, copies, collections, created>>

Used(objects) == Total([k \in DOMAIN objects |-> 1 + Len(objects[k].refs)])

\* Block::bytesAvailable
Available(b) == BlockSize - Used(b.objects)

Free(blocks) == {b \in Blocks : blocks[b].owner = NoOwner}

\* Which of the free blocks is taken makes no difference.
FreshBlock(blocks) == CHOOSE b \in Free(blocks) : \A c \in Free(blocks) : b <= c

\* Space::initBlock
EmptyBlock(owner) == [owner |-> owner, objects |-> <<>>, scanned |-> 0]

\* BlockAllocator::deallocateList
Deallocate(blocks, list) ==
    [b \in Blocks |-> IF b \in list THEN EmptyBlock(NoOwner) ELSE blocks[b]]

ObjectAt(blocks, addr) == blocks[addr[1]].objects[addr[2]]

NextGeneration(owner) ==
    IF owner \in Threads THEN 0
    ELSE IF owner + 1 \in Generations THEN owner + 1 ELSE owner

Init ==
    /\ block = [b \in Blocks |-> EmptyBlock(IF b \in 1..GenerationCount THEN b - 1
                                                                      ELSE NoOwner)]
    /\ space = [s \in Threads \cup Generations |-> [blocks |-> <<>>, count |-> 0]]
    /\ old = [g \in Generations |-> <<>>]
    /\ work = [g \in Generations |-> [block |-> g + 1, pending |-> <<>>,
                                      completed |-> {}, count |-> 0]]
    /\ handle = [h \in Handles |-> Null]
    /\ inUse = [t \in Threads |-> NoHandle]
    /\ pointer = [t \in Threads |-> Null]
    /\ locked = [t \in Threads |-> FALSE]
    /\ collecting = FALSE
    /\ toVisit = {}
    /\ scanning = NoBlock
    /\ copies = {}
    /\ collections = 0
    /\ created = 0

-----------------------------------------------------------------------------
(* What is reachable *)

\* Whether there is an object at an address.
IsObject(addr) ==
    \/ addr \in {Null, EmptyMap}
    \/ block[addr[1]].owner # NoOwner /\ addr[2] \in DOMAIN block[addr[1]].objects

RefsAt(addr) ==
    IF addr \in {Null, EmptyMap} \/ ~IsObject(addr) THEN {} ELSE ToSet(ObjectAt(block, addr).refs)

ReachableFrom(roots) ==
    LET Level[n \in 0..NameCount] ==
          IF n = 0 THEN roots
          ELSE UNION {{addr} \cup RefsAt(addr) : addr \in Level[n - 1]}
    IN  Level[NameCount] \ {Null, EmptyMap}

Roots == {handle[h] : h \in Handles} \cup {pointer[t] : t \in Threads}

NameOf(addr) ==
    CASE addr = Null -> -1
      [] addr = EmptyMap -> 0
      [] addr \notin {Null, EmptyMap} /\ IsObject(addr) -> ObjectAt(block, addr).name
      [] OTHER -> -2

LiveNames == {NameOf(addr) : addr \in ReachableFrom(Roots)}

Blank(o) == [name |-> 0, refs |-> [i \in DOMAIN o.refs |-> Null], moved |-> Null]

\* What cannot be reached keeps its size, and nothing else of it is part of
\* the state: a step that used it would see a blank.  Collections keep it to their end.
Forget(blocks, roots) ==
    LET live == ReachableFrom(roots) IN
    [b \in Blocks |-> [blocks[b] EXCEPT
       !.objects = [k \in DOMAIN @ |-> IF <<b, k>> \in live THEN @[k] ELSE Blank(@[k])]]]

-----------------------------------------------------------------------------
(* Clients *)

collector == <<old, work, collecting, toVisit, scanning, copies, collections>>

\* The world is stopped during a collection.  Bound: after the last one there
\* is nothing more to see.
MayRun == ~collecting /\ collections < MaxCollections

\* Which of the unused handles is taken makes no difference but to the order
\* of visits.
IsUnused(h) == handle[h] = Null /\ \A k \in Handles : k < h => handle[k] # Null

\* Runtime::map
NewMap(h) ==
    /\ MayRun
    /\ IsUnused(h)
    /\ handle' = [handle EXCEPT ![h] = EmptyMap]
    /\ UNCHANGED <<block, space, inUse, pointer, locked, collector, created>>

\* The constructor of With: a client reads the address in a handle...
Read(t, h) ==
    /\ MayRun
    /\ pointer[t] = Null /\ handle[h] # Null
    /\ inUse' = [inUse EXCEPT ![t] = h]
    /\ pointer' = [pointer EXCEPT ![t] = handle[h]]
    /\ UNCHANGED <<block, space, handle, locked, collector, created>>

\* ... and then locks the heap.
Lock(t) ==
    /\ MayRun
    /\ pointer[t] # Null /\ ~locked[t]
    /\ locked' = [locked EXCEPT ![t] = TRUE]
    /\ UNCHANGED <<block, space, handle, inUse, pointer, collector, created>>

\* Its destructor.
Unlock(t) ==
    /\ locked[t]
    /\ locked' = [locked EXCEPT ![t] = FALSE]
    /\ inUse' = [inUse EXCEPT ![t] = NoHandle]
    /\ pointer' = [pointer EXCEPT ![t] = Null]

\* Space::blockForAllocation
HasRoom(t, size) ==
    space[t].blocks # <<>> /\ Available(block[Head(space[t].blocks)]) >= size

\* An object made from the one that was read, what that refers to, and what
\* other handles refer to; a handle for it; and the heap is unlocked.
Construct(t, h, refs) ==
    LET size   == 1 + Len(refs)
        b      == IF HasRoom(t, size) THEN Head(space[t].blocks) ELSE FreshBlock(block)
        before == IF HasRoom(t, size) THEN block[b] ELSE EmptyBlock(t)
        object == [name |-> CHOOSE n \in Names \ LiveNames :
                              \A m \in Names \ LiveNames : n <= m,
                   refs |-> refs, moved |-> Null]
    IN  /\ MayRun
        /\ Unlock(t)
        /\ IsUnused(h) /\ created < MaxNewObjects /\ created' = created + 1
        /\ Names \ LiveNames # {} /\ (HasRoom(t, size) \/ Free(block) # {})
        /\ block' = [block EXCEPT ![b] = [before EXCEPT !.objects = Append(@, object)]]
        /\ space' = [space EXCEPT ![t].blocks = IF HasRoom(t, size) THEN @ ELSE <<b>> \o @,
                                  ![t].count = @ + 1]
        /\ handle' = [handle EXCEPT ![h] = <<b, Len(before.objects) + 1>>]
        /\ UNCHANGED collector

Usable(t) == ({pointer[t]} \cup RefsAt(pointer[t]) \cup {handle[h] : h \in Handles}) \ {Null}

\* HashMap::add of an entry that is there: another handle for the object that
\* was read.
AddNothing(t, h) ==
    /\ MayRun
    /\ Unlock(t)
    /\ IsUnused(h)
    /\ handle' = [handle EXCEPT ![h] = pointer[t]]
    /\ UNCHANGED <<block, space, collector, created>>

\* A client that only read unlocks the heap.
Leave(t) ==
    /\ MayRun
    /\ Unlock(t)
    /\ UNCHANGED <<block, space, handle, collector, created>>

\* The last value with a reference to a handle goes; no operation on that
\* value is under way.
ReleaseHandle(h) ==
    /\ MayRun
    /\ handle[h] # Null /\ h \notin Range(inUse)
    /\ handle' = [handle EXCEPT ![h] = Null]
    /\ UNCHANGED <<space, inUse, pointer, locked, collector, created>>
    /\ block' = Forget(block, Roots')

-----------------------------------------------------------------------------
(* Evacuation, on states: records of block, work, scanning and copies, and of *)
(* whether memory ran out, which ends the program                            *)

State == [block |-> block, work |-> work, scanning |-> scanning, copies |-> copies,
          failed |-> FALSE]

Become(s) ==
    /\ ~s.failed
    /\ block' = s.block
    /\ work' = s.work
    /\ copies' = s.copies

\* GCWorkspace::allocateBlock
AllocateBlock(s, g) ==
    LET b == FreshBlock(s.block)
    IN  [s EXCEPT !.block[b] = EmptyBlock(g), !.work[g].block = b]

\* Mutant of Retire: a block with objects to scan is taken for completed.
RetireUnscanned(s, g) ==
    LET b == s.work[g].block
    IN  IF b = s.scanning THEN s ELSE [s EXCEPT !.work[g].completed = @ \cup {b}]

\* Where a full allocation block goes: nowhere while it is being scanned.
Retire(s, g) ==
    LET b == s.work[g].block
    IN  IF b = s.scanning THEN s
        ELSE IF s.block[b].scanned = Len(s.block[b].objects)
          THEN [s EXCEPT !.work[g].completed = @ \cup {b}]
          ELSE [s EXCEPT !.work[g].pending = Append(@, b)]

\* Mutant of EnsureAvailable: any room is enough.
EnsureSomeRoom(s, g, size) ==
    IF Available(s.block[s.work[g].block]) > 0 THEN s ELSE AllocateBlock(Retire(s, g), g)

EnsureAvailable(s, g, size) ==
    IF Available(s.block[s.work[g].block]) >= size THEN s
    ELSE IF Free(s.block) = {} THEN [s EXCEPT !.failed = TRUE]
    ELSE AllocateBlock(Retire(s, g), g)

Copy(s, addr) ==
    LET object == ObjectAt(s.block, addr)
        g      == NextGeneration(s.block[addr[1]].owner)
        ready  == EnsureAvailable(s, g, 1 + Len(object.refs))
        b      == ready.work[g].block
        new    == <<b, Len(ready.block[b].objects) + 1>>
    IN  IF ready.failed THEN ready
        ELSE [ready EXCEPT !.block[b].objects = Append(@, object),
                           !.block[addr[1]].objects[addr[2]].moved = new,
                           !.work[g].count = @ + 1,
                           !.copies = @ \cup {new}]

\* Mutant of Evacuate: the forwarding address is not looked at.
EvacuateAgain(s, addr) ==
    IF s.failed \/ addr \in {Null, EmptyMap} THEN s ELSE Copy(s, addr)

\* GCWorker::evacuate, up to the change of the pointer.  Traversals do not
\* visit null pointers.
Evacuate(s, addr) ==
    IF s.failed \/ addr \in {Null, EmptyMap} \/ ObjectAt(s.block, addr).moved # Null
      THEN s ELSE Copy(s, addr)

\* The state after the evacuation of one pointer after the other.
EvacuateAll(s, refs) ==
    LET After[n \in 0..Len(refs)] == IF n = 0 THEN s ELSE Evacuate(After[n - 1], refs[n])
    IN  After[Len(refs)]

\* The pointer that evacuate() leaves.
Forwarded(s, addr) ==
    IF addr \in {Null, EmptyMap} THEN addr ELSE ObjectAt(s.block, addr).moved

-----------------------------------------------------------------------------
(* GarbageCollector::collect.  Nobody has locked the heap, as Heap::gc says;  *)
(* it checks that only for its own thread and has yet to stop the others.     *)

client == <<space, inUse, pointer, locked, collections, created>>

\* Mutant of Collect: the blocks are not taken from the generations.
CollectKeepingBlocks ==
    /\ ~collecting
    /\ \A t \in Threads : ~locked[t] /\ (ReadersRest => pointer[t] = Null)
    /\ collections < MaxCollections /\ collections' = collections + 1
    /\ Cardinality(Free(block)) >= Cardinality(LiveNames)
    /\ collecting' = TRUE
    /\ old' = [g \in Generations |-> space[g].blocks]
    /\ space' = [s \in DOMAIN space |->
                   IF s \in Generations THEN [space[s] EXCEPT !.count = 0] ELSE space[s]]
    /\ toVisit' = Handles
    /\ copies' = {}
    /\ UNCHANGED <<block, work, handle, inUse, pointer, locked, scanning, created>>

\* prepareGenerations: all generations are collected.
Collect ==
    /\ ~collecting
    /\ \A t \in Threads : ~locked[t] /\ (ReadersRest => pointer[t] = Null)
    /\ collections < MaxCollections /\ collections' = collections + 1
    /\ Cardinality(Free(block)) >= Cardinality(LiveNames)     \* memory does not run out
    /\ collecting' = TRUE
    /\ old' = [g \in Generations |-> space[g].blocks]
    /\ space' = [s \in DOMAIN space |->
                   IF s \in Generations THEN [blocks |-> <<>>, count |-> 0] ELSE space[s]]
    /\ toVisit' = Handles
    /\ copies' = {}
    /\ UNCHANGED <<block, work, handle, inUse, pointer, locked, scanning, created>>

\* Mutant of EvacuateRoot: the handle keeps the address of an object that was
\* copied before.
EvacuateRootOnce(h) ==
    /\ h \in toVisit /\ \A k \in toVisit : h <= k
    /\ toVisit' = toVisit \ {h}
    /\ IF handle[h] = Null
         THEN UNCHANGED <<block, work, copies, handle>>
         ELSE LET s == Evacuate(State, handle[h])
              IN  /\ Become(s)
                  /\ handle' = [handle EXCEPT ![h] = IF s = State THEN @ ELSE Forwarded(s, @)]
    /\ UNCHANGED <<client, old, collecting, scanning>>

\* evacuateRoots: handles with references are visited in order.
EvacuateRoot(h) ==
    /\ h \in toVisit /\ \A k \in toVisit : h <= k
    /\ toVisit' = toVisit \ {h}
    /\ IF handle[h] = Null
         THEN UNCHANGED <<block, work, copies, handle>>
         ELSE LET s == Evacuate(State, handle[h])
              IN  /\ Become(s)
                  /\ handle' = [handle EXCEPT ![h] = Forwarded(s, @)]
    /\ UNCHANGED <<client, old, collecting, scanning>>

HasUnscanned(b) == block[b].scanned < Len(block[b].objects)

HasWork(g) == HasUnscanned(work[g].block) \/ work[g].pending # <<>>

\* scavengeAll takes a block of the oldest generation that has work; its
\* allocation block comes before its pending blocks.
StartBlock(g) ==
    /\ collecting /\ toVisit = {} /\ scanning = NoBlock
    /\ HasWork(g) /\ \A k \in Generations : k > g => ~HasWork(k)
    /\ IF HasUnscanned(work[g].block)
         THEN /\ scanning' = work[g].block
              /\ UNCHANGED work
         ELSE /\ scanning' = Head(work[g].pending)
              /\ work' = [work EXCEPT ![g].pending = Tail(@)]
    /\ UNCHANGED <<client, block, old, handle, collecting, toVisit, copies>>

\* The pointers of an object change, and its block is scanned as far as that.
Rescanned(blocks, b, k, refs) ==
    [blocks EXCEPT ![b].objects[k].refs = refs, ![b].scanned = k]

\* Mutant of ScanObject: only the first reference is evacuated.
ScanFirstReference ==
    LET k    == block[scanning].scanned + 1
        refs == block[scanning].objects[k].refs
        s    == EvacuateAll(State, SubSeq(refs, 1, IF refs = <<>> THEN 0 ELSE 1))
    IN  /\ scanning # NoBlock /\ HasUnscanned(scanning)
        /\ Become([s EXCEPT !.block = Rescanned(s.block, scanning, k,
             [i \in DOMAIN refs |-> IF i = 1 THEN Forwarded(s, refs[i]) ELSE refs[i]])])
        /\ UNCHANGED <<client, old, handle, collecting, toVisit, scanning>>

\* One round of the loop of scavengeBlock: Object::traverse.
ScanObject ==
    LET k    == block[scanning].scanned + 1
        refs == block[scanning].objects[k].refs
        s    == EvacuateAll(State, refs)
    IN  /\ scanning # NoBlock /\ HasUnscanned(scanning)
        /\ Become([s EXCEPT !.block = Rescanned(s.block, scanning, k,
             [i \in DOMAIN refs |-> Forwarded(s, refs[i])])])
        /\ UNCHANGED <<client, old, handle, collecting, toVisit, scanning>>

\* The block is scanned; it goes in no list.
EndBlock ==
    /\ scanning # NoBlock /\ ~HasUnscanned(scanning)
    /\ scanning' = NoBlock
    /\ UNCHANGED <<client, block, old, work, handle, collecting, toVisit, copies>>

\* collectCompletedBlocks, finalizeGenerations and resetNurseries.
Finish ==
    /\ collecting /\ toVisit = {} /\ scanning = NoBlock
    /\ \A g \in Generations : ~HasWork(g)
    /\ collecting' = FALSE
    /\ space' = [s \in DOMAIN space |->
                   IF s \in Generations
                     THEN [blocks |-> space[s].blocks \o SetToSeq(work[s].completed),
                           count |-> space[s].count + work[s].count]
                     ELSE [blocks |-> <<>>, count |-> 0]]
    /\ work' = [g \in Generations |-> [work[g] EXCEPT !.completed = {}, !.count = 0]]
    /\ block' = Deallocate(Forget(block, Roots), UNION ({ToSet(old[g]) : g \in Generations}
                                         \cup {ToSet(space[t].blocks) : t \in Threads}))
    /\ old' = [g \in Generations |-> <<>>]
    /\ copies' = {}
    /\ UNCHANGED <<handle, inUse, pointer, locked, toVisit, scanning, collections, created>>

CollectorStep ==
    \/ \E h \in Handles : EvacuateRoot(h)
    \/ \E g \in Generations : StartBlock(g)
    \/ ScanObject
    \/ EndBlock
    \/ Finish

Next ==
    \/ \E h \in Handles : NewMap(h) \/ ReleaseHandle(h)
    \/ \E t \in Threads :
         \/ Lock(t) \/ Leave(t)
         \/ \E h \in Handles :
              \/ Read(t, h)
              \/ AddNothing(t, h)
              \/ \E refs \in BoundedSeq(Usable(t), MaxRefs) : Construct(t, h, refs)
    \/ Collect
    \/ CollectorStep

Spec == Init /\ [][Next]_vars

-----------------------------------------------------------------------------
(* Properties *)

Addresses == {Null, EmptyMap} \cup (Blocks \X Nat)

TypeOK ==
    /\ \A b \in Blocks :
         /\ block[b].owner \in Threads \cup Generations \cup {NoOwner}
         /\ block[b].scanned \in 0..Len(block[b].objects)
         /\ Used(block[b].objects) <= BlockSize
    /\ \A s \in DOMAIN space : space[s].blocks \in Seq(Blocks) /\ space[s].count \in Nat
    /\ \A g \in Generations : old[g] \in Seq(Blocks) /\ work[g].block \in Blocks
    /\ \A h \in Handles : handle[h] \in Addresses
    /\ \A t \in Threads :
         /\ pointer[t] \in Addresses /\ inUse[t] \in Handles \cup {NoHandle}
         /\ locked[t] \in BOOLEAN
    /\ toVisit \subseteq Handles /\ scanning \in Blocks \cup {NoBlock}

\* Whatever clients hold, and whatever an object they can reach refers to, is
\* in memory that has not been given back.
PointersAreValid ==
    /\ \A addr \in Roots : IsObject(addr)
    /\ \A addr \in ReachableFrom(Roots) : \A ref \in RefsAt(addr) : IsObject(ref)

\* During a collection, no copy that has still to be scanned is forgotten:
\* it is in an allocation block, in a pending block or in the block being
\* scanned (ensureAvailable and scavengeAll).
NoWorkIsLost ==
    \A b \in Blocks : HasUnscanned(b) /\ block[b].owner \in Generations =>
      b = scanning \/ \E g \in Generations : b = work[g].block \/ b \in ToSet(work[g].pending)

\* A copy is never copied again in the same collection, and one that has been
\* scanned refers only to copies, if to anything: nothing is left behind in
\* memory that will be given back.
CopiesAreFinal ==
    \A c \in copies :
      /\ ObjectAt(block, c).moved = Null
      /\ c[2] <= block[c[1]].scanned => RefsAt(c) \subseteq copies \cup {Null, EmptyMap}

\* The lists of blocks are disjoint and hold blocks that are allocated, so no
\* block is given back twice or used after it was.
ListedTwice(b) ==
    LET places == {<<"space", s>> : s \in {s \in DOMAIN space : b \in ToSet(space[s].blocks)}}
                  \cup UNION {{<<kind, g>> : kind \in
                         {k \in {"old", "alloc", "pending", "completed"} :
                            \/ k = "old" /\ b \in ToSet(old[g])
                            \/ k = "alloc" /\ b = work[g].block
                            \/ k = "pending" /\ b \in ToSet(work[g].pending)
                            \/ k = "completed" /\ b \in work[g].completed}} : g \in Generations}
    IN  Cardinality(places) > 1 \/ (places # {} /\ block[b].owner = NoOwner)

BlocksAreListedOnce == \A b \in Blocks : ~ListedTwice(b)

ObjectCount ==
    LET spaces == SetToSeq(Threads \cup Generations)
    IN  Total([i \in DOMAIN spaces |-> space[spaces[i]].count])

\* A collection leaves exactly the objects that are reachable
\* (Heap::objectCount), each of them once.
CountsSurvivors ==
    [][collecting /\ ~collecting' =>
         /\ ObjectCount' = Cardinality(ReachableFrom(Roots)')
         /\ Cardinality(LiveNames') = Cardinality(ReachableFrom(Roots)')]_vars

\* The names that the objects reachable from handles refer to.
NamesIn(addr) ==
    LET refs == ObjectAt(block, addr).refs IN [i \in DOMAIN refs |-> NameOf(refs[i])]

LiveGraph ==
    LET live == {addr \in ReachableFrom(Range(handle)) : IsObject(addr)}
    IN  [n \in {NameOf(addr) : addr \in live} |->
           NamesIn(CHOOSE addr \in live : NameOf(addr) = n)]

Graph ==
    INSTANCE ObjectGraph
      WITH Clients <- Handles,
           root <- [h \in Handles |-> NameOf(handle[h])],
           refs <- LiveGraph

\* Clients see ObjectGraph, and a collection changes nothing they can see: not
\* what a handle refers to, nor any object.
ImplementsGraph == Graph!Spec /\ [][collecting => UNCHANGED Graph!vars]_vars

=============================================================================
