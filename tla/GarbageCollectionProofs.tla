------------------------ MODULE GarbageCollectionProofs ------------------------
(***************************************************************************)
(* Proofs about GarbageCollection, for every number of threads, blocks,    *)
(* handles and objects, on the assumption that gc() waits for threads      *)
(* about to lock the heap.                                                 *)
(*                                                                         *)
(* The inductive invariant is about states s of the evacuation, as State   *)
(* is: what holds of them is preserved by the evacuation of one pointer,   *)
(* hence of all pointers in an object, and State is one in every state of  *)
(* the specification.                                                      *)
(***************************************************************************)
EXTENDS GarbageCollection, InductionTheorems

-----------------------------------------------------------------------------
(* The inductive invariant *)

Spaces == Threads \cup Generations

Object == [name : Int, refs : {r \in Seq(Addresses) : Len(r) <= MaxRefs}, moved : Addresses]

Block == [owner : Spaces \cup {NoOwner}, objects : Seq(Object), scanned : Nat]

Workspace == [block : Blocks, pending : Seq(Blocks), completed : SUBSET Blocks, count : Nat]

StateType == [block : [Blocks -> Block], work : [Generations -> Workspace],
              scanning : Blocks \cup {NoBlock}, copies : SUBSET (Blocks \X Nat),
              failed : BOOLEAN]

\* The addresses of objects.
Objects(s) == {a \in Blocks \X Nat : a[2] \in DOMAIN s.block[a[1]].objects}

\* What a pointer to an object, or to none, is.
Pointers(s) == Objects(s) \cup {Null, EmptyMap}

Targets(s, a) == ToSet(ObjectAt(s.block, a).refs)

BlocksFit(s) ==
    \A b \in Blocks :
      /\ s.block[b].scanned <= Len(s.block[b].objects)
      /\ Used(s.block[b].objects) <= BlockSize
      /\ s.block[b].owner = NoOwner => s.block[b] = EmptyBlock(NoOwner)

\* Who owns the blocks in a list, and which lists have no block in common.
BlocksListed(s, spaces, olds) ==
    /\ \A t \in Threads : \A b \in ToSet(spaces[t].blocks) : s.block[b].owner = t
    /\ \A g \in Generations :
         LET alloc   == {s.work[g].block}
             pending == ToSet(s.work[g].pending)
             done    == s.work[g].completed
             before  == ToSet(olds[g])
             after   == ToSet(spaces[g].blocks)
         IN  /\ \A b \in alloc \cup pending \cup done \cup before \cup after :
                  s.block[b].owner = g
             /\ alloc \cap (pending \cup done \cup before \cup after) = {}
             /\ pending \cap (done \cup before \cup after) = {}
             /\ done \cap (before \cup after) = {}
             /\ before \cap after = {}

\* Nothing with something left to scan is forgotten.
WorkKept(s) ==
    \A b \in Blocks :
      s.block[b].scanned < Len(s.block[b].objects) /\ s.block[b].owner \in Generations =>
        \/ b = s.scanning
        \/ \E g \in Generations : b = s.work[g].block \/ b \in ToSet(s.work[g].pending)

RefsValid(s) == \A a \in Objects(s) : Targets(s, a) \subseteq Pointers(s)

\* Copies are in blocks of generations that will not be given back.
CopiesKept(s, olds) ==
    \A c \in s.copies :
      /\ c \in Objects(s)
      /\ s.block[c[1]].owner \in Generations
      /\ \A g \in Generations : c[1] \notin ToSet(olds[g])
      /\ ObjectAt(s.block, c).moved = Null

MovedToCopies(s) == \A a \in Objects(s) : ObjectAt(s.block, a).moved \in s.copies \cup {Null}

\* What has been scanned refers to copies, and nothing else does.
Scanned(s, a) == a \in s.copies /\ a[2] <= s.block[a[1]].scanned

RefsForwarded(s) ==
    \A a \in Objects(s) :
      IF Scanned(s, a) THEN Targets(s, a) \subseteq s.copies \cup {Null, EmptyMap}
                       ELSE Targets(s, a) \cap s.copies = {}

\* What is left to scan in generations are copies.
UnscannedAreCopies(s) ==
    \A b \in Blocks : s.block[b].owner \in Generations =>
      \A k \in DOMAIN s.block[b].objects : k > s.block[b].scanned => <<b, k>> \in s.copies

Sound(s, spaces, olds) ==
    /\ s \in StateType
    /\ BlocksFit(s) /\ BlocksListed(s, spaces, olds) /\ WorkKept(s)
    /\ RefsValid(s) /\ CopiesKept(s, olds) /\ MovedToCopies(s)
    /\ RefsForwarded(s) /\ UnscannedAreCopies(s)

SpacesType == [Spaces -> [blocks : Seq(Blocks), count : Nat]]

OldsType == [Generations -> Seq(Blocks)]

VariablesType ==
    /\ space \in SpacesType
    /\ old \in OldsType
    /\ handle \in [Handles -> Addresses]
    /\ inUse \in [Threads -> Handles \cup {NoHandle}]
    /\ pointer \in [Threads -> Addresses]
    /\ locked \in [Threads -> BOOLEAN]
    /\ collecting \in BOOLEAN
    /\ toVisit \subseteq Handles

\* Between collections there is nothing of one, and during one no client has
\* read a pointer, and handles refer to copies once they were visited.
Phases ==
    /\ ~collecting =>
         /\ toVisit = {} /\ scanning = NoBlock /\ copies = {}
         /\ \A g \in Generations : old[g] = <<>>
    /\ collecting =>
         /\ \A g \in Generations : space[g].blocks = <<>>
         /\ \A t \in Threads : pointer[t] = Null
         /\ \A h \in Handles : IF h \in toVisit THEN handle[h] \notin copies
                               ELSE handle[h] \in copies \cup {Null, EmptyMap}

ScansGenerations == scanning # NoBlock => block[scanning].owner \in Generations

RootsValid ==
    /\ \A h \in Handles : handle[h] \in Pointers(State)
    /\ \A t \in Threads : pointer[t] \in Pointers(State)

IInv == VariablesType /\ Sound(State, space, old) /\ Phases /\ ScansGenerations /\ RootsValid

-----------------------------------------------------------------------------
(* Blocks, addresses and memory in use *)

LEMMA AddressFacts ==
    /\ Addresses = {Null, EmptyMap} \cup (Blocks \X Nat)
    /\ Null \notin Blocks \X Nat /\ EmptyMap \notin Blocks \X Nat
    /\ Null # EmptyMap
    /\ Generations \cap Threads = {} /\ NoOwner \notin Spaces
    /\ Blocks \subseteq Nat \ {0} /\ NoBlock \notin Blocks
BY CollectionAssumption DEF Addresses, Null, EmptyMap, NoBlock, Blocks, Generations, Spaces

LEMMA FreshBlockIsFree ==
    ASSUME NEW blocks, Free(blocks) # {}
    PROVE  FreshBlock(blocks) \in Free(blocks)
<1>1. Free(blocks) \in SUBSET Nat
  BY DEF Free, Blocks
<1>2. \E b \in Free(blocks) : \A c \in Free(blocks) : b <= c
  BY <1>1, LeastNatural
<1> QED
  BY <1>2 DEF FreshBlock

\* Sizes of objects.
Sizes(objects) == [k \in DOMAIN objects |-> 1 + Len(objects[k].refs)]

LEMMA SizesType ==
    ASSUME NEW objects \in Seq(Object)
    PROVE  Sizes(objects) \in Seq(Int) /\ Len(Sizes(objects)) = Len(objects)
           /\ Used(objects) = Total(Sizes(objects))
<1>1. DOMAIN objects = 1..Len(objects) /\ Len(objects) \in Nat
  OBVIOUS
<1>2. \A k \in 1..Len(objects) : 1 + Len(objects[k].refs) \in Int
  BY DEF Object
<1>3. Sizes(objects) \in [1..Len(objects) -> Int]
  BY <1>1, <1>2 DEF Sizes
<1>4. Sizes(objects) \in Seq(Int) /\ Len(Sizes(objects)) = Len(objects)
  BY <1>1, <1>3
<1>5. Used(objects) = Total(Sizes(objects))
  BY DEF Used, Sizes
<1> QED
  BY <1>4, <1>5

LEMMA UsedOfNothing == Used(<<>>) = 0
<1>1. [k \in DOMAIN <<>> |-> 1 + Len(<<>>[k].refs)] = <<>>
  OBVIOUS
<1> QED
  BY <1>1, TotalOfEmpty DEF Used

LEMMA UsedOfAppend ==
    ASSUME NEW objects \in Seq(Object), NEW o \in Object
    PROVE  Used(Append(objects, o)) = Used(objects) + 1 + Len(o.refs)
<1> DEFINE longer == Append(objects, o)
           n == Len(objects)
           size == 1 + Len(o.refs)
<1>1. /\ longer \in Seq(Object) /\ Len(longer) = n + 1 /\ n \in Nat
      /\ DOMAIN longer = 1..n + 1 /\ DOMAIN objects = 1..n
      /\ longer[n + 1] = o /\ \A k \in 1..n : longer[k] = objects[k]
  OBVIOUS
<1>2. size \in Int /\ Len(o.refs) \in Int
  BY DEF Object
<1>3. /\ Sizes(longer) \in Seq(Int) /\ Len(Sizes(longer)) = n + 1
      /\ Used(longer) = Total(Sizes(longer))
  <2> HIDE DEF longer
  <2> QED
    BY <1>1, SizesType
<1>4. /\ Sizes(objects) \in Seq(Int) /\ Len(Sizes(objects)) = n
      /\ Used(objects) = Total(Sizes(objects))
  BY SizesType
<1>5. Sizes(longer) = Append(Sizes(objects), size)
  <2>1. \A k \in 1..n + 1 : Sizes(longer)[k] = IF k = n + 1 THEN size ELSE Sizes(objects)[k]
    <3> HIDE DEF longer
    <3> QED
      BY <1>1 DEF Sizes
  <2> HIDE DEF longer, n, size
  <2> QED
    BY <1>1, <1>2, <1>3, <1>4, <2>1
<1>6. Total(Sizes(longer)) = Total(Sizes(objects)) + size /\ Total(Sizes(objects)) \in Int
  BY <1>2, <1>4, <1>5, TotalOfAppend, TotalIsInt
<1>7. Used(longer) = Used(objects) + size /\ Used(objects) \in Int
  <2> HIDE DEF longer, size
  <2> QED
    BY <1>3, <1>4, <1>6
<1> QED
  BY <1>2, <1>7

LEMMA UsedIsInt ==
    ASSUME NEW objects \in Seq(Object)
    PROVE  Used(objects) \in Int
BY SizesType, TotalIsInt

\* Only the number of references counts.
LEMMA UsedOfSameSizes ==
    ASSUME NEW p \in Seq(Object), NEW q \in Seq(Object), Len(p) = Len(q),
           \A k \in DOMAIN p : Len(p[k].refs) = Len(q[k].refs)
    PROVE  Used(p) = Used(q)
<1>1. Sizes(p) = Sizes(q)
  BY DEF Sizes
<1> QED
  BY <1>1, SizesType

-----------------------------------------------------------------------------
(* Room for a copy *)

LEMMA ToSetOfAppend ==
    ASSUME NEW S, NEW p \in Seq(S), NEW x \in S
    PROVE  ToSet(Append(p, x)) = ToSet(p) \cup {x}
<1>1. DOMAIN Append(p, x) = 1..Len(p) + 1 /\ DOMAIN p = 1..Len(p) /\ Len(p) \in Nat
  OBVIOUS
<1>2. \A i \in 1..Len(p) + 1 : Append(p, x)[i] = IF i = Len(p) + 1 THEN x ELSE p[i]
  OBVIOUS
<1> QED
  BY <1>1, <1>2 DEF ToSet

LEMMA WorkspaceFields ==
    ASSUME NEW w \in Workspace
    PROVE  /\ w = [block |-> w.block, pending |-> w.pending, completed |-> w.completed,
                   count |-> w.count]
           /\ \A p : [w EXCEPT !.pending = p]
                       = [block |-> w.block, pending |-> p, completed |-> w.completed,
                          count |-> w.count]
           /\ \A c : [w EXCEPT !.completed = c]
                       = [block |-> w.block, pending |-> w.pending, completed |-> c,
                          count |-> w.count]
BY DEF Workspace

\* A block that is full goes to one of three places.
Retired(s, g, pending, completed) ==
    LET a == s.work[g].block
        w == s.work[g]
    IN  \/ a = s.scanning /\ pending = w.pending /\ completed = w.completed
        \/ /\ s.block[a].scanned = Len(s.block[a].objects)
           /\ pending = w.pending /\ completed = w.completed \cup {a}
        \/ pending = Append(w.pending, a) /\ completed = w.completed

\* A free block becomes the allocation block.
Replaced(s, g, b, pending, completed) ==
    [s EXCEPT !.block = [s.block EXCEPT ![b] = EmptyBlock(g)],
              !.work = [s.work EXCEPT ![g] =
                 [block |-> b, pending |-> pending, completed |-> completed,
                  count |-> s.work[g].count]]]

\* What EnsureAvailable does, if there is memory.
LEMMA RoomFacts ==
    ASSUME NEW s \in StateType, NEW g \in Generations, NEW size \in 1..BlockSize, ~s.failed,
           NEW r, r = EnsureAvailable(s, g, size), ~r.failed
    PROVE  /\ Available(r.block[r.work[g].block]) >= size
           /\ \/ r = s
              \/ \E b \in Free(s.block), p \in Seq(Blocks), c \in SUBSET Blocks :
                   /\ Retired(s, g, p, c)
                   /\ r = Replaced(s, g, b, p, c)
<1> DEFINE a == s.work[g].block
           room == Available(s.block[a]) >= size
<1>1. /\ s.work[g] \in Workspace /\ a \in Blocks
      /\ s.block \in [Blocks -> Block] /\ s.work \in [Generations -> Workspace]
  BY DEF StateType, Workspace
<1>2. CASE room
  BY <1>2 DEF EnsureAvailable
<1>3. CASE ~room
  <2>1. Free(s.block) # {} /\ r = AllocateBlock(Retire(s, g), g)
    BY <1>3 DEF EnsureAvailable, StateType
  <2>2. PICK p \in Seq(Blocks), c \in SUBSET Blocks :
          /\ Retired(s, g, p, c)
          /\ Retire(s, g) = [s EXCEPT !.work = [s.work EXCEPT ![g] =
                               [block |-> a, pending |-> p, completed |-> c,
                                count |-> s.work[g].count]]]
    <3> DEFINE w == s.work[g]
               With(p, c) == [s EXCEPT !.work = [s.work EXCEPT ![g] =
                               [block |-> a, pending |-> p, completed |-> c,
                                count |-> s.work[g].count]]]
               Done(p, c) == Retired(s, g, p, c) /\ Retire(s, g) = With(p, c)
    <3>1. /\ w = [block |-> a, pending |-> w.pending, completed |-> w.completed,
                  count |-> w.count]
          /\ s = With(w.pending, w.completed)
          /\ w.pending \in Seq(Blocks) /\ w.completed \in SUBSET Blocks
      BY <1>1 DEF StateType, Workspace
    <3>2. CASE a = s.scanning
      <4>1. Retired(s, g, w.pending, w.completed) /\ Retire(s, g) = s
        BY <3>2 DEF Retire, Retired
      <4> QED
        BY <3>1, <4>1
    <3>3. CASE a # s.scanning /\ s.block[a].scanned = Len(s.block[a].objects)
      <4>1. Retired(s, g, w.pending, w.completed \cup {a})
        BY <3>3 DEF Retired
      <4>2. Retire(s, g) = [s EXCEPT !.work[g].completed = @ \cup {a}]
        BY <3>3 DEF Retire
      <4>3. Retire(s, g) = With(w.pending, w.completed \cup {a})
        <5>1. [w EXCEPT !.completed = w.completed \cup {a}]
                = [block |-> a, pending |-> w.pending, completed |-> w.completed \cup {a},
                   count |-> s.work[g].count]
          BY <1>1, WorkspaceFields
        <5>2. Retire(s, g)
                = [s EXCEPT !.work = [s.work EXCEPT ![g] = [w EXCEPT !.completed = w.completed \cup {a}]]]
          BY <4>2
        <5> QED
          BY <5>1, <5>2
      <4>4. w.completed \cup {a} \in SUBSET Blocks
        BY <1>1, <3>1
      <4> QED
        BY <3>1, <4>1, <4>3, <4>4
    <3>4. CASE a # s.scanning /\ s.block[a].scanned # Len(s.block[a].objects)
      <4>1. Retired(s, g, Append(w.pending, a), w.completed)
        BY <3>4 DEF Retired
      <4>2. Retire(s, g) = [s EXCEPT !.work[g].pending = Append(@, a)]
        BY <3>4 DEF Retire
      <4>3. Retire(s, g) = With(Append(w.pending, a), w.completed)
        <5>1. [w EXCEPT !.pending = Append(w.pending, a)]
                = [block |-> a, pending |-> Append(w.pending, a), completed |-> w.completed,
                   count |-> s.work[g].count]
          BY <1>1, WorkspaceFields
        <5>2. Retire(s, g)
                = [s EXCEPT !.work = [s.work EXCEPT ![g] = [w EXCEPT !.pending = Append(w.pending, a)]]]
          BY <4>2
        <5> QED
          BY <5>1, <5>2
      <4>4. Append(w.pending, a) \in Seq(Blocks)
        BY <1>1, <3>1
      <4> QED
        BY <3>1, <4>1, <4>3, <4>4
    <3> QED
      BY <3>2, <3>3, <3>4
  <2>3. Retire(s, g).block = s.block
    BY <2>2 DEF StateType
  <2> DEFINE b == FreshBlock(s.block)
  <2>4. b \in Free(s.block) /\ b \in Blocks
    <3>1. b \in Free(s.block)
      BY <2>1, FreshBlockIsFree, Zenon
    <3> QED
      BY <3>1 DEF Free
  <2>5. r = [s EXCEPT !.block = [s.block EXCEPT ![b] = EmptyBlock(g)],
                      !.work = [s.work EXCEPT ![g] =
                         [block |-> b, pending |-> p, completed |-> c,
                          count |-> s.work[g].count]]]
    <3> DEFINE q == Retire(s, g)
    <3>1. r = [q EXCEPT !.block[b] = EmptyBlock(g), !.work[g].block = b]
      BY <2>1, <2>3 DEF AllocateBlock
    <3> HIDE DEF b, q
    <3>2. q = [s EXCEPT !.work = [s.work EXCEPT ![g] =
                 [block |-> a, pending |-> p, completed |-> c, count |-> s.work[g].count]]]
      BY <2>2 DEF q
    <3> DEFINE workspace == [block |-> a, pending |-> p, completed |-> c,
                             count |-> s.work[g].count]
    <3>3. /\ q.block = s.block /\ q.work = [s.work EXCEPT ![g] = workspace]
          /\ q.work[g] = workspace
      BY <1>1, <3>2 DEF StateType
    <3>4. r = [q EXCEPT !.block = [s.block EXCEPT ![b] = EmptyBlock(g)],
                        !.work = [q.work EXCEPT ![g] = [workspace EXCEPT !.block = b]]]
      BY <3>1, <3>3
    <3>5. [workspace EXCEPT !.block = b] = [block |-> b, pending |-> p, completed |-> c,
                                            count |-> s.work[g].count]
      OBVIOUS
    <3>6. [q.work EXCEPT ![g] = [workspace EXCEPT !.block = b]]
            = [s.work EXCEPT ![g] = [workspace EXCEPT !.block = b]]
      BY <1>1, <3>3
    <3>7. \A B, W : [q EXCEPT !.block = B, !.work = W] = [s EXCEPT !.block = B, !.work = W]
      BY <3>2 DEF StateType
    <3> HIDE DEF workspace
    <3> QED
      BY <3>4, <3>5, <3>6, <3>7, ZenonT(30)
  <2>6. r.work[g].block = b /\ r.block[b] = EmptyBlock(g)
    <3> HIDE DEF b
    <3> QED
      BY <1>1, <2>4, <2>5 DEF StateType
  <2>7. Available(EmptyBlock(g)) >= size
    BY UsedOfNothing, CollectionAssumption DEF Available, EmptyBlock
  <2> QED
    BY <2>2, <2>4, <2>5, <2>6, <2>7 DEF Replaced
<1> QED
  BY <1>2, <1>3

\* Blocks have the same objects, scanned as far; one that was free may be owned.
\* No copy is counted.
SameObjects(s, r) ==
    /\ \A b \in Blocks :
         /\ r.block[b].objects = s.block[b].objects
         /\ r.block[b].scanned = s.block[b].scanned
         /\ r.block[b].owner = s.block[b].owner \/ s.block[b].owner = NoOwner
    /\ r.copies = s.copies /\ r.scanning = s.scanning
    /\ \A k \in Generations : r.work[k].count = s.work[k].count

LEMMA SameObjectsFacts ==
    ASSUME NEW s, NEW r, SameObjects(s, r)
    PROVE  /\ Objects(r) = Objects(s) /\ Pointers(r) = Pointers(s)
           /\ \A a \in Objects(s) : ObjectAt(r.block, a) = ObjectAt(s.block, a)
           /\ \A a \in Objects(s) : Scanned(r, a) <=> Scanned(s, a)
           /\ RefsValid(s) => RefsValid(r)
           /\ MovedToCopies(s) => MovedToCopies(r)
           /\ RefsForwarded(s) => RefsForwarded(r)
<1>1. Objects(r) = Objects(s)
  BY DEF Objects, SameObjects
<1>2. \A a \in Objects(s) : a[1] \in Blocks
  BY DEF Objects
<1>3. \A a \in Objects(s) : ObjectAt(r.block, a) = ObjectAt(s.block, a)
  BY <1>2 DEF ObjectAt, SameObjects
<1>4. \A a \in Objects(s) : Scanned(r, a) <=> Scanned(s, a)
  BY <1>2 DEF Scanned, SameObjects
<1> QED
  BY <1>1, <1>3, <1>4
     DEF Pointers, RefsValid, MovedToCopies, RefsForwarded, Targets, SameObjects

\* Making room keeps what is invariant, and moves nothing.
LEMMA RoomSound ==
    ASSUME NEW spaces \in SpacesType, NEW olds \in OldsType,
           NEW s, Sound(s, spaces, olds), ~s.failed,
           NEW g \in Generations, NEW size \in 1..BlockSize,
           NEW r, r = EnsureAvailable(s, g, size), ~r.failed
    PROVE  /\ Sound(r, spaces, olds) /\ SameObjects(s, r)
           /\ Available(r.block[r.work[g].block]) >= size
<1>1. s \in StateType /\ BlocksFit(s) /\ BlocksListed(s, spaces, olds) /\ WorkKept(s)
      /\ CopiesKept(s, olds) /\ UnscannedAreCopies(s)
  BY DEF Sound
<1>2a. /\ Available(r.block[r.work[g].block]) >= size
       /\ \/ r = s
          \/ \E b \in Free(s.block), p \in Seq(Blocks), c \in SUBSET Blocks :
               /\ Retired(s, g, p, c)
               /\ r = Replaced(s, g, b, p, c)
  <2>1. s \in StateType
    BY DEF Sound
  <2> QED
    BY <2>1, RoomFacts
<1> SUFFICES ASSUME r # s
             PROVE  Sound(r, spaces, olds) /\ SameObjects(s, r)
  BY <1>2a DEF SameObjects
<1>2b. PICK b \in Free(s.block), p \in Seq(Blocks), c \in SUBSET Blocks :
         /\ Retired(s, g, p, c)
         /\ r = Replaced(s, g, b, p, c)
  BY <1>2a
<1>2c. /\ s.work[g].block \in Blocks /\ s.work[g].pending \in Seq(Blocks)
       /\ s.work[g].completed \subseteq Blocks
       /\ ToSet(Append(s.work[g].pending, s.work[g].block))
            = ToSet(s.work[g].pending) \cup {s.work[g].block}
  <2>1. /\ s.work[g].block \in Blocks /\ s.work[g].pending \in Seq(Blocks)
        /\ s.work[g].completed \subseteq Blocks
    BY <1>1 DEF StateType, Workspace
  <2> QED
    BY <2>1, ToSetOfAppend
<1> DEFINE a == s.work[g].block
<1>2. /\ b \in Blocks /\ s.block[b] = EmptyBlock(NoOwner)
      /\ s.block[b].owner = NoOwner
  BY <1>1 DEF BlocksFit, Free
<1>3. /\ r.scanning = s.scanning /\ r.copies = s.copies /\ r.failed = s.failed
      /\ \A x \in Blocks : r.block[x] = IF x = b THEN EmptyBlock(g) ELSE s.block[x]
      /\ \A k \in Generations :
           r.work[k] = IF k = g THEN [block |-> b, pending |-> p, completed |-> c,
                                      count |-> s.work[g].count]
                       ELSE s.work[k]
  BY <1>1, <1>2, <1>2b DEF StateType, Replaced
<1>4. SameObjects(s, r)
  BY <1>2, <1>3 DEF SameObjects, EmptyBlock
<1>5. r \in StateType
  <2>1. EmptyBlock(g) \in Block
    BY DEF EmptyBlock, Block, Spaces
  <2>2. s.work[g].count \in Nat
    BY <1>1 DEF StateType, Workspace
  <2>3. [block |-> b, pending |-> p, completed |-> c, count |-> s.work[g].count] \in Workspace
    BY <1>2, <2>2 DEF Workspace
  <2>4. [s.block EXCEPT ![b] = EmptyBlock(g)] \in [Blocks -> Block]
    BY <1>1, <1>2, <2>1 DEF StateType
  <2>5. [s.work EXCEPT ![g] = [block |-> b, pending |-> p, completed |-> c,
                               count |-> s.work[g].count]]
          \in [Generations -> Workspace]
    BY <1>1, <2>3 DEF StateType
  <2> QED
    BY <1>1, <1>2b, <2>4, <2>5 DEF StateType, Replaced
<1>6. BlocksFit(r)
  <2>1. g # NoOwner
    BY AddressFacts DEF Spaces
  <2> QED
    BY <1>1, <1>2, <1>3, <2>1, UsedOfNothing, CollectionAssumption DEF BlocksFit, EmptyBlock
<1>7. WorkKept(r)
  <2> SUFFICES ASSUME NEW x \in Blocks, r.block[x].owner \in Generations,
                      r.block[x].scanned < Len(r.block[x].objects)
               PROVE  \/ x = r.scanning
                      \/ \E k \in Generations :
                           x = r.work[k].block \/ x \in ToSet(r.work[k].pending)
    BY DEF WorkKept
  <2>1. x # b
    BY <1>3 DEF EmptyBlock
  <2>2. \/ x = s.scanning
        \/ \E k \in Generations : x = s.work[k].block \/ x \in ToSet(s.work[k].pending)
    BY <1>1, <1>3, <2>1 DEF WorkKept
  <2>3. CASE x = s.scanning
    BY <1>3, <2>3
  <2>4. CASE x = a /\ x # s.scanning
    <3>1. s.block[a].scanned < Len(s.block[a].objects)
      BY <1>3, <2>1, <2>4
    <3>2. s.block[a].scanned # Len(s.block[a].objects)
      BY <1>1, <2>4, <3>1 DEF StateType, Block
    <3>4. p = Append(s.work[g].pending, a)
      BY <1>2b, <2>4, <3>2 DEF Retired
    <3>5. x \in ToSet(p)
      BY <1>2c, <2>4, <3>4
    <3> QED
      BY <1>3, <3>5
  <2>5. CASE x \in ToSet(s.work[g].pending)
    <3>1. ToSet(s.work[g].pending) \subseteq ToSet(p)
      BY <1>2b, <1>2c DEF Retired
    <3> QED
      BY <1>3, <2>5, <3>1
  <2>6. ASSUME NEW k \in Generations, k # g,
               x = s.work[k].block \/ x \in ToSet(s.work[k].pending)
        PROVE  x = r.work[k].block \/ x \in ToSet(r.work[k].pending)
    BY <1>3, <2>6
  <2> QED
    BY <2>2, <2>3, <2>4, <2>5, <2>6
<1>8. CopiesKept(r, olds)
  <2> SUFFICES ASSUME NEW x \in r.copies
               PROVE  /\ x \in Objects(r) /\ r.block[x[1]].owner \in Generations
                      /\ \A k \in Generations : x[1] \notin ToSet(olds[k])
                      /\ ObjectAt(r.block, x).moved = Null
    BY DEF CopiesKept
  <2>1. x \in s.copies /\ x \in Objects(s)
    BY <1>1, <1>3 DEF CopiesKept
  <2>2. x[1] \in Blocks /\ x[1] # b
    BY <1>2, <2>1 DEF Objects, EmptyBlock
  <2>3. Objects(r) = Objects(s) /\ ObjectAt(r.block, x) = ObjectAt(s.block, x)
    BY <1>4, <2>1, SameObjectsFacts
  <2> QED
    BY <1>1, <1>3, <2>1, <2>2, <2>3 DEF CopiesKept
<1>9. UnscannedAreCopies(r)
  BY <1>1, <1>3 DEF UnscannedAreCopies, EmptyBlock
<1>10. BlocksListed(r, spaces, olds)
  <2>1. \A x \in Blocks : s.block[x].owner \in Spaces => x # b
    BY <1>2, AddressFacts
  <2>2. \A t \in Threads : \A x \in ToSet(spaces[t].blocks) : r.block[x].owner = t
    <3> SUFFICES ASSUME NEW t \in Threads, NEW x \in ToSet(spaces[t].blocks)
                 PROVE  r.block[x].owner = t
      OBVIOUS
    <3>1. x \in Blocks
      BY DEF ToSet, SpacesType, Spaces
    <3> QED
      BY <1>1, <1>3, <2>1, <3>1 DEF BlocksListed, Spaces
  <2> DEFINE Lists(u, k) == {u.work[k].block} \cup ToSet(u.work[k].pending) \cup u.work[k].completed
                              \cup ToSet(olds[k]) \cup ToSet(spaces[k].blocks)
  <2>3. \A k \in Generations : Lists(s, k) \subseteq Blocks
    <3> SUFFICES ASSUME NEW k \in Generations PROVE Lists(s, k) \subseteq Blocks
      OBVIOUS
    <3>1. s.work[k] \in Workspace /\ olds[k] \in Seq(Blocks) /\ spaces[k].blocks \in Seq(Blocks)
      BY <1>1 DEF StateType, SpacesType, OldsType, Spaces
    <3> QED
      BY <3>1 DEF Workspace, ToSet
  <2>4. \A k \in Generations : \A x \in Lists(s, k) :
          x # b /\ s.block[x].owner = k /\ r.block[x].owner = k
    <3> SUFFICES ASSUME NEW k \in Generations, NEW x \in Lists(s, k)
                 PROVE  x # b /\ s.block[x].owner = k /\ r.block[x].owner = k
      OBVIOUS
    <3>1. s.block[x].owner = k
      BY <1>1 DEF BlocksListed
    <3> HIDE DEF Lists
    <3> QED
      BY <1>3, <2>1, <2>3, <3>1 DEF Spaces
  <2>5. ASSUME NEW k \in Generations, k # g
        PROVE  r.work[k] = s.work[k]
    BY <1>3, <2>5
  <2>6. /\ r.work[g].block = b /\ r.work[g].pending = p /\ r.work[g].completed = c
        /\ r.block[b].owner = g
    BY <1>2, <1>3 DEF EmptyBlock
  <2>7. \/ p = s.work[g].pending /\ c = s.work[g].completed
        \/ p = s.work[g].pending /\ c = s.work[g].completed \cup {a}
        \/ p = Append(s.work[g].pending, a) /\ c = s.work[g].completed
    BY <1>2b DEF Retired
  <2>8. \/ ToSet(p) = ToSet(s.work[g].pending) /\ c = s.work[g].completed
        \/ ToSet(p) = ToSet(s.work[g].pending) /\ c = s.work[g].completed \cup {a}
        \/ ToSet(p) = ToSet(s.work[g].pending) \cup {a} /\ c = s.work[g].completed
    BY <1>2c, <2>7
  <2>9. ASSUME NEW k \in Generations
        PROVE  LET alloc   == {r.work[k].block}
                   pending == ToSet(r.work[k].pending)
                   done    == r.work[k].completed
                   before  == ToSet(olds[k])
                   after   == ToSet(spaces[k].blocks)
               IN  /\ \A x \in alloc \cup pending \cup done \cup before \cup after :
                        r.block[x].owner = k
                   /\ alloc \cap (pending \cup done \cup before \cup after) = {}
                   /\ pending \cap (done \cup before \cup after) = {}
                   /\ done \cap (before \cup after) = {}
                   /\ before \cap after = {}
    <3> DEFINE pending0 == ToSet(s.work[k].pending)
               done0    == s.work[k].completed
               before   == ToSet(olds[k])
               after    == ToSet(spaces[k].blocks)
               a0       == s.work[k].block
    <3>1. /\ {a0} \cap (pending0 \cup done0 \cup before \cup after) = {}
          /\ pending0 \cap (done0 \cup before \cup after) = {}
          /\ done0 \cap (before \cup after) = {}
          /\ before \cap after = {}
      BY <1>1 DEF BlocksListed
    <3>2. \A x \in {a0} \cup pending0 \cup done0 \cup before \cup after :
            x # b /\ r.block[x].owner = k
      BY <2>4
    <3>3. CASE k # g
      BY <2>5, <3>1, <3>2, <3>3
    <3>4. CASE k = g
      <4>1. /\ r.work[k].block = b /\ r.block[b].owner = k /\ r.work[k].completed = c
            /\ r.work[k].pending = p
        BY <2>6, <3>4
      <4>2. \/ ToSet(p) = pending0 /\ c = done0
            \/ ToSet(p) = pending0 /\ c = done0 \cup {a0}
            \/ ToSet(p) = pending0 \cup {a0} /\ c = done0
        BY <2>8, <3>4
      <4> DEFINE q == ToSet(p)
      <4> HIDE DEF before, after, a0, pending0, done0, q
      <4>3. \A x \in {b} \cup q \cup c \cup before \cup after : r.block[x].owner = k
        BY <3>2, <4>1, <4>2 DEF q
      <4>4. {b} \cap (q \cup c \cup before \cup after) = {}
        BY <3>2, <4>2 DEF q
      <4>5. q \cap (c \cup before \cup after) = {}
        BY <3>1, <4>2 DEF q
      <4>6. c \cap (before \cup after) = {} /\ before \cap after = {}
        BY <3>1, <4>2
      <4> QED
        BY <4>1, <4>3, <4>4, <4>5, <4>6 DEF q, before, after
    <3> QED
      BY <3>3, <3>4
  <2> QED
    BY <2>2, <2>9 DEF BlocksListed
<1> QED
  BY <1>4, <1>5, <1>6, <1>7, <1>8, <1>9, <1>10, SameObjectsFacts DEF Sound

-----------------------------------------------------------------------------
(* Copies *)

\* An object is added to a block.
Appended(blocks, b, o) == [blocks EXCEPT ![b].objects = Append(@, o)]

\* An object leaves a forwarding address.
Forwarding(blocks, addr, new) == [blocks EXCEPT ![addr[1]].objects[addr[2]].moved = new]

LEMMA AppendedFacts ==
    ASSUME NEW blocks \in [Blocks -> Block], NEW b \in Blocks, NEW o \in Object,
           NEW q, q = Appended(blocks, b, o)
    PROVE  /\ q \in [Blocks -> Block]
           /\ \A x \in Blocks :
                /\ q[x].owner = blocks[x].owner /\ q[x].scanned = blocks[x].scanned
                /\ x # b => q[x] = blocks[x]
           /\ q[b].objects = Append(blocks[b].objects, o)
           /\ Len(q[b].objects) = Len(blocks[b].objects) + 1
           /\ q[b].objects[Len(blocks[b].objects) + 1] = o
           /\ \A k \in 1..Len(blocks[b].objects) : q[b].objects[k] = blocks[b].objects[k]
<1>1. blocks[b] \in Block /\ blocks[b].objects \in Seq(Object)
  BY DEF Block
<1>2. Append(blocks[b].objects, o) \in Seq(Object)
  BY <1>1
<1> DEFINE new == [blocks[b] EXCEPT !.objects = Append(blocks[b].objects, o)]
<1>3. /\ new \in Block /\ new.objects = Append(blocks[b].objects, o)
      /\ new.owner = blocks[b].owner /\ new.scanned = blocks[b].scanned
  BY <1>1, <1>2 DEF Block
<1>4. q = [blocks EXCEPT ![b] = new]
  BY DEF Appended
<1> HIDE DEF new
<1>5. q \in [Blocks -> Block] /\ q[b] = new /\ \A x \in Blocks : x # b => q[x] = blocks[x]
  BY <1>3, <1>4
<1>6. /\ Len(Append(blocks[b].objects, o)) = Len(blocks[b].objects) + 1
      /\ Append(blocks[b].objects, o)[Len(blocks[b].objects) + 1] = o
      /\ \A k \in 1..Len(blocks[b].objects) : Append(blocks[b].objects, o)[k] = blocks[b].objects[k]
  BY <1>1
<1> QED
  BY <1>3, <1>5, <1>6

LEMMA ForwardingFacts ==
    ASSUME NEW blocks \in [Blocks -> Block], NEW b \in Blocks,
           NEW j \in 1..Len(blocks[b].objects), NEW new \in Addresses,
           NEW q, q = Forwarding(blocks, <<b, j>>, new)
    PROVE  /\ q \in [Blocks -> Block]
           /\ \A x \in Blocks :
                /\ q[x].owner = blocks[x].owner /\ q[x].scanned = blocks[x].scanned
                /\ x # b => q[x] = blocks[x]
           /\ Len(q[b].objects) = Len(blocks[b].objects)
           /\ \A k \in 1..Len(blocks[b].objects) :
                /\ q[b].objects[k].refs = blocks[b].objects[k].refs
                /\ q[b].objects[k].name = blocks[b].objects[k].name
                /\ q[b].objects[k].moved = IF k = j THEN new ELSE blocks[b].objects[k].moved
<1>1. /\ blocks[b] \in Block /\ blocks[b].objects \in Seq(Object)
      /\ blocks[b].objects[j] \in Object
  BY DEF Block
<1> DEFINE o == [blocks[b].objects[j] EXCEPT !.moved = new]
           objects == [blocks[b].objects EXCEPT ![j] = o]
           record == [blocks[b] EXCEPT !.objects = objects]
<1>2. /\ o \in Object /\ o.refs = blocks[b].objects[j].refs /\ o.moved = new
      /\ o.name = blocks[b].objects[j].name
  BY <1>1 DEF Object
<1> HIDE DEF o
<1>3. /\ objects \in Seq(Object) /\ Len(objects) = Len(blocks[b].objects)
      /\ \A k \in 1..Len(blocks[b].objects) :
           objects[k] = IF k = j THEN o ELSE blocks[b].objects[k]
  BY <1>1, <1>2
<1> HIDE DEF objects
<1>4. /\ record \in Block /\ record.objects = objects
      /\ record.owner = blocks[b].owner /\ record.scanned = blocks[b].scanned
  BY <1>1, <1>3 DEF Block
<1>5. q = [blocks EXCEPT ![b] = record]
  BY DEF Forwarding, o, objects
<1> HIDE DEF record
<1>6. q \in [Blocks -> Block] /\ q[b] = record /\ \A x \in Blocks : x # b => q[x] = blocks[x]
  BY <1>4, <1>5
<1> QED
  BY <1>2, <1>3, <1>4, <1>6

Counted(w) == [w EXCEPT !.count = w.count + 1]

LEMMA CountedFacts ==
    ASSUME NEW w \in Workspace
    PROVE  /\ Counted(w) \in Workspace
           /\ Counted(w).block = w.block /\ Counted(w).pending = w.pending
           /\ Counted(w).completed = w.completed /\ Counted(w).count = w.count + 1
BY DEF Counted, Workspace

\* The state after the copy of an object, where there is room.
Copied(r, addr, g, new) ==
    [r EXCEPT !.block = Forwarding(Appended(r.block, new[1], ObjectAt(r.block, addr)), addr, new),
              !.work = [r.work EXCEPT ![g] = Counted(r.work[g])],
              !.copies = r.copies \cup {new}]

LEMMA StateFacts ==
    ASSUME NEW s \in StateType
    PROVE  /\ \A b \in Blocks :
                /\ s.block[b].objects \in Seq(Object) /\ s.block[b].scanned \in Nat
                /\ s.block[b].owner \in Spaces \cup {NoOwner}
                /\ Len(s.block[b].objects) \in Nat
                /\ DOMAIN s.block[b].objects = 1..Len(s.block[b].objects)
           /\ \A g \in Generations :
                /\ s.work[g].block \in Blocks /\ s.work[g].pending \in Seq(Blocks)
                /\ s.work[g].completed \subseteq Blocks /\ s.work[g].count \in Nat
<1>1. \A b \in Blocks : s.block[b] \in Block
  BY DEF StateType
<1>2. \A g \in Generations : s.work[g] \in Workspace
  BY DEF StateType
<1>3. \A b \in Blocks :
        /\ s.block[b].objects \in Seq(Object) /\ s.block[b].scanned \in Nat
        /\ s.block[b].owner \in Spaces \cup {NoOwner}
  BY <1>1 DEF Block
<1> QED
  BY <1>2, <1>3 DEF Workspace

LEMMA ObjectFacts ==
    ASSUME NEW s \in StateType, NEW a \in Objects(s)
    PROVE  /\ ObjectAt(s.block, a) \in Object
           /\ a[1] \in Blocks /\ a[2] \in 1..Len(s.block[a[1]].objects)
           /\ a = <<a[1], a[2]>> /\ a \notin {Null, EmptyMap}
<1>1. a \in Blocks \X Nat /\ a[2] \in DOMAIN s.block[a[1]].objects
  BY DEF Objects
<1>2. a[1] \in Blocks /\ a = <<a[1], a[2]>> /\ a \notin {Null, EmptyMap}
  BY <1>1, AddressFacts
<1> QED
  BY <1>1, <1>2, StateFacts DEF ObjectAt

\* What the copy of an object does, address by address.
OwnersSame(r, q) ==
    \A x \in Blocks : q.block[x].owner = r.block[x].owner /\ q.block[x].scanned = r.block[x].scanned

ListsSame(r, q) ==
    \A k \in Generations :
      /\ q.work[k].block = r.work[k].block
      /\ q.work[k].pending = r.work[k].pending
      /\ q.work[k].completed = r.work[k].completed

OneMore(r, q, b) ==
    \A x \in Blocks : Len(q.block[x].objects)
                        = IF x = b THEN Len(r.block[x].objects) + 1 ELSE Len(r.block[x].objects)

RefsSame(r, q) ==
    \A a \in Objects(r) : ObjectAt(q.block, a).refs = ObjectAt(r.block, a).refs

NamesSame(r, q) ==
    \A a \in Objects(r) : ObjectAt(q.block, a).name = ObjectAt(r.block, a).name

OneCounted(r, q, g) ==
    \A k \in Generations :
      q.work[k].count = IF k = g THEN r.work[k].count + 1 ELSE r.work[k].count

OneMoved(r, q, addr, new) ==
    \A a \in Objects(r) : ObjectAt(q.block, a).moved =
                            IF a = addr THEN new ELSE ObjectAt(r.block, a).moved

CopyOf(r, q, addr, new) ==
    /\ q \in StateType /\ q.scanning = r.scanning /\ q.failed = r.failed
    /\ q.copies = r.copies \cup {new}
    /\ OwnersSame(r, q) /\ ListsSame(r, q) /\ OneMore(r, q, new[1])
    /\ RefsSame(r, q) /\ NamesSame(r, q) /\ OneMoved(r, q, addr, new)
    /\ \A x \in Blocks : x \notin {new[1], addr[1]} => q.block[x] = r.block[x]
    /\ ObjectAt(q.block, new).refs = ObjectAt(r.block, addr).refs
    /\ ObjectAt(q.block, new).name = ObjectAt(r.block, addr).name
    /\ ObjectAt(q.block, new).moved = ObjectAt(r.block, addr).moved

\* Where a copy goes.
Ahead(r, g, new) ==
    /\ new \in Blocks \X Nat /\ new[1] = r.work[g].block
    /\ new[2] = Len(r.block[new[1]].objects) + 1

LEMMA CopiedFacts ==
    ASSUME NEW r \in StateType, NEW addr \in Objects(r), NEW g \in Generations,
           NEW new, Ahead(r, g, new), NEW q, q = Copied(r, addr, g, new)
    PROVE  CopyOf(r, q, addr, new) /\ OneCounted(r, q, g)
<1>1. /\ r.block \in [Blocks -> Block] /\ r.work \in [Generations -> Workspace]
      /\ r.copies \subseteq Blocks \X Nat
  BY DEF StateType
<1>2. r.work[g].count \in Nat /\ r.work[g] \in Workspace
  BY <1>1 DEF Workspace
<1>2a. PICK b \in Blocks, m \in Nat : new = <<b, m>>
  BY DEF Ahead
<1>2b. m = Len(r.block[b].objects) + 1
  BY <1>2a DEF Ahead
<1>3. PICK a \in Blocks, j \in Nat : addr = <<a, j>> /\ j \in DOMAIN r.block[a].objects
  BY DEF Objects
<1>4. \A x \in Blocks : r.block[x].objects \in Seq(Object) /\ Len(r.block[x].objects) \in Nat
  BY <1>1 DEF Block
<1>4a. PICK n \in Nat : n = Len(r.block[b].objects)
  BY <1>4
<1>4b. m = n + 1
  BY <1>2b, <1>4a
<1>5. j \in 1..Len(r.block[a].objects) /\ (a = b => j \in 1..n)
  BY <1>3, <1>4, <1>4a
<1> DEFINE o == ObjectAt(r.block, addr)
           blocks == Appended(r.block, b, o)
<1>6. o = r.block[a].objects[j] /\ o \in Object
  BY <1>3, <1>4, <1>5 DEF ObjectAt
<1>7. new \in Blocks \X Nat /\ new \in Addresses /\ new[1] = b
  BY <1>2a DEF Addresses
<1>8. /\ blocks \in [Blocks -> Block]
      /\ \A x \in Blocks :
           /\ blocks[x].owner = r.block[x].owner /\ blocks[x].scanned = r.block[x].scanned
           /\ x # b => blocks[x] = r.block[x]
      /\ Len(blocks[b].objects) = m /\ blocks[b].objects[m] = o
      /\ \A k \in 1..n : blocks[b].objects[k] = r.block[b].objects[k]
  <2>1. blocks = Appended(r.block, b, o)
    OBVIOUS
  <2>2. r.block \in [Blocks -> Block] /\ o \in Object
    BY <1>1, <1>6
  <2> HIDE DEF o, blocks
  <2> QED
    BY <1>4a, <1>4b, <2>1, <2>2, AppendedFacts
<1> HIDE DEF o, blocks
<1>9. j \in 1..Len(blocks[a].objects)
  <2>1. CASE a = b
    <3>1. j \in 1..m
      BY <1>4b, <1>5, <2>1
    <3> QED
      BY <1>8, <2>1, <3>1
  <2>2. CASE a # b
    BY <1>3, <1>5, <1>8, <2>2
  <2> QED
    BY <2>1, <2>2
<1> DEFINE moved == Forwarding(blocks, <<a, j>>, new)
<1>10. /\ moved \in [Blocks -> Block]
       /\ \A x \in Blocks :
            /\ moved[x].owner = blocks[x].owner /\ moved[x].scanned = blocks[x].scanned
            /\ x # a => moved[x] = blocks[x]
       /\ Len(moved[a].objects) = Len(blocks[a].objects)
       /\ \A k \in 1..Len(blocks[a].objects) :
            /\ moved[a].objects[k].refs = blocks[a].objects[k].refs
            /\ moved[a].objects[k].name = blocks[a].objects[k].name
            /\ moved[a].objects[k].moved = IF k = j THEN new ELSE blocks[a].objects[k].moved
  <2>1. moved = Forwarding(blocks, <<a, j>>, new)
    OBVIOUS
  <2>2. blocks \in [Blocks -> Block] /\ new \in Addresses
    BY <1>7, <1>8
  <2> HIDE DEF moved
  <2> QED
    BY <1>9, <2>1, <2>2, ForwardingFacts
<1>11. q.block = moved
  BY <1>3, <1>7 DEF Copied, StateType, o, blocks
<1> HIDE DEF moved
<1>12. /\ q.scanning = r.scanning /\ q.failed = r.failed
       /\ q.copies = r.copies \cup {new}
       /\ q.work = [r.work EXCEPT ![g] = Counted(r.work[g])]
  BY DEF Copied, StateType
<1>13. Counted(r.work[g]) \in Workspace
  BY <1>2, CountedFacts
<1>14. q.work \in [Generations -> Workspace]
  BY <1>1, <1>12, <1>13
<1>15. q \in StateType
  <2>1. q = [r EXCEPT !.block = q.block, !.work = q.work, !.copies = q.copies]
    BY <1>11, <1>12 DEF Copied, StateType
  <2> QED
    BY <1>1, <1>7, <1>10, <1>11, <1>12, <1>14, <2>1 DEF StateType
<1>16. \A k \in Generations :
         /\ q.work[k].block = r.work[k].block /\ q.work[k].pending = r.work[k].pending
         /\ q.work[k].completed = r.work[k].completed
         /\ q.work[k].count = IF k = g THEN r.work[k].count + 1 ELSE r.work[k].count
  <2>1. \A k \in Generations : q.work[k] = IF k = g THEN Counted(r.work[g]) ELSE r.work[k]
    BY <1>1, <1>12
  <2>2. /\ Counted(r.work[g]).block = r.work[g].block
        /\ Counted(r.work[g]).pending = r.work[g].pending
        /\ Counted(r.work[g]).completed = r.work[g].completed
        /\ Counted(r.work[g]).count = r.work[g].count + 1
    BY <1>2, CountedFacts
  <2> QED
    BY <2>1, <2>2
<1>17. /\ q.block[b].objects[m].refs = o.refs /\ q.block[b].objects[m].moved = o.moved
       /\ q.block[b].objects[m].name = o.name
  <2>1. CASE a = b
    <3>1. m # j /\ m \in 1..m
      BY <1>4b, <1>5, <2>1
    <3>2. m # j /\ m \in 1..Len(blocks[a].objects)
      BY <1>8, <2>1, <3>1
    <3> QED
      BY <1>8, <1>10, <1>11, <2>1, <3>2
  <2>2. CASE a # b
    BY <1>2, <1>8, <1>10, <1>11, <2>2
  <2> QED
    BY <2>1, <2>2
<1>18. ASSUME NEW x \in Blocks
       PROVE  /\ q.block[x].owner = r.block[x].owner
              /\ q.block[x].scanned = r.block[x].scanned
              /\ x \notin {b, a} => q.block[x] = r.block[x]
              /\ Len(q.block[x].objects) = IF x = b THEN m ELSE Len(r.block[x].objects)
              /\ \A k \in 1..Len(r.block[x].objects) :
                   /\ q.block[x].objects[k].refs = r.block[x].objects[k].refs
                   /\ q.block[x].objects[k].name = r.block[x].objects[k].name
                   /\ q.block[x].objects[k].moved =
                        IF x = a /\ k = j THEN new ELSE r.block[x].objects[k].moved
  <2>1. /\ Len(blocks[x].objects) = IF x = b THEN m ELSE Len(r.block[x].objects)
        /\ \A k \in 1..Len(r.block[x].objects) :
             /\ blocks[x].objects[k] = r.block[x].objects[k]
             /\ k \in 1..Len(blocks[x].objects)
    <3>1. CASE x = b
      <4>1. \A k \in 1..n : k \in 1..m
        BY <1>4b
      <4>2. n = Len(r.block[x].objects) /\ Len(blocks[x].objects) = m
        BY <1>4a, <1>8, <3>1
      <4>3. \A k \in 1..n : blocks[x].objects[k] = r.block[x].objects[k]
        BY <1>8, <3>1
      <4> QED
        BY <3>1, <4>1, <4>2, <4>3
    <3>2. CASE x # b
      BY <1>8, <3>2
    <3> QED
      BY <3>1, <3>2
  <2>3. CASE x = a
    <3>1. /\ moved[x].owner = blocks[x].owner /\ moved[x].scanned = blocks[x].scanned
          /\ Len(moved[x].objects) = Len(blocks[x].objects)
          /\ \A k \in 1..Len(blocks[x].objects) :
               /\ moved[x].objects[k].refs = blocks[x].objects[k].refs
               /\ moved[x].objects[k].name = blocks[x].objects[k].name
               /\ moved[x].objects[k].moved = IF k = j THEN new ELSE blocks[x].objects[k].moved
      BY <1>10, <2>3
    <3>2. \A k \in 1..Len(r.block[x].objects) : k \in 1..Len(blocks[x].objects)
      BY <2>1
    <3>3. \A k \in 1..Len(r.block[x].objects) :
            /\ moved[x].objects[k].refs = r.block[x].objects[k].refs
            /\ moved[x].objects[k].name = r.block[x].objects[k].name
            /\ moved[x].objects[k].moved = IF k = j THEN new ELSE r.block[x].objects[k].moved
      BY <2>1, <3>1, <3>2
    <3>4. Len(moved[x].objects) = IF x = b THEN m ELSE Len(r.block[x].objects)
      BY <2>1, <3>1
    <3> QED
      BY <1>8, <1>11, <2>3, <3>1, <3>3, <3>4
  <2>4. CASE x # a
    <3>1. moved[x] = blocks[x]
      BY <1>10, <2>4
    <3> QED
      BY <1>8, <1>11, <2>1, <2>4, <3>1
  <2> QED
    BY <2>3, <2>4
<1>19. new[1] = b /\ new[2] = m /\ addr[1] = a /\ addr[2] = j
  BY <1>2a, <1>3
<1>20. OwnersSame(r, q)
  BY <1>18 DEF OwnersSame
<1>21. OneMore(r, q, new[1])
  BY <1>18, <1>19, <1>4a, <1>4b DEF OneMore
<1>22. ASSUME NEW y \in Objects(r)
       PROVE  /\ ObjectAt(q.block, y).refs = ObjectAt(r.block, y).refs
              /\ ObjectAt(q.block, y).name = ObjectAt(r.block, y).name
              /\ ObjectAt(q.block, y).moved = IF y = addr THEN new ELSE ObjectAt(r.block, y).moved
  <2>1. y[1] \in Blocks /\ y[2] \in 1..Len(r.block[y[1]].objects) /\ y = <<y[1], y[2]>>
    BY ObjectFacts
  <2>2. y = addr <=> y[1] = a /\ y[2] = j
    BY <1>3, <2>1
  <2> QED
    BY <1>18, <2>1, <2>2 DEF ObjectAt
<1>23. \A x \in Blocks : x \notin {new[1], addr[1]} => q.block[x] = r.block[x]
  BY <1>18, <1>19
<1>24. /\ ObjectAt(q.block, new).refs = ObjectAt(r.block, addr).refs
       /\ ObjectAt(q.block, new).name = ObjectAt(r.block, addr).name
       /\ ObjectAt(q.block, new).moved = ObjectAt(r.block, addr).moved
  BY <1>17, <1>19 DEF o, ObjectAt
<1> QED
  BY <1>12, <1>15, <1>16, <1>20, <1>21, <1>22, <1>23, <1>24
     DEF CopyOf, ListsSame, RefsSame, NamesSame, OneMoved, OneCounted

LEMMA ListedAreBlocks ==
    ASSUME NEW spaces \in SpacesType, NEW olds \in OldsType, NEW s \in StateType
    PROVE  /\ \A x \in Spaces : ToSet(spaces[x].blocks) \subseteq Blocks
           /\ \A k \in Generations :
                /\ ToSet(olds[k]) \subseteq Blocks /\ ToSet(s.work[k].pending) \subseteq Blocks
                /\ s.work[k].completed \subseteq Blocks /\ s.work[k].block \in Blocks
<1>1. \A p \in Seq(Blocks) : ToSet(p) \subseteq Blocks
  BY DEF ToSet
<1>2. \A x \in Spaces : spaces[x].blocks \in Seq(Blocks)
  BY DEF SpacesType
<1>3. \A k \in Generations : olds[k] \in Seq(Blocks)
  BY DEF OldsType
<1> QED
  BY <1>1, <1>2, <1>3, StateFacts

LEMMA SameLists ==
    ASSUME NEW spaces \in SpacesType, NEW olds \in OldsType,
           NEW r \in StateType, NEW q, BlocksListed(r, spaces, olds),
           ListsSame(r, q), \A x \in Blocks : q.block[x].owner = r.block[x].owner
    PROVE  BlocksListed(q, spaces, olds)
<1>1. \A x \in Blocks : q.block[x].owner = r.block[x].owner
  OBVIOUS
<1>2. \A t \in Threads : \A b \in ToSet(spaces[t].blocks) : q.block[b].owner = t
  BY <1>1, ListedAreBlocks DEF BlocksListed, Spaces
<1>3. ASSUME NEW g \in Generations
      PROVE  LET alloc   == {q.work[g].block}
                 pending == ToSet(q.work[g].pending)
                 done    == q.work[g].completed
                 before  == ToSet(olds[g])
                 after   == ToSet(spaces[g].blocks)
             IN  /\ \A b \in alloc \cup pending \cup done \cup before \cup after :
                      q.block[b].owner = g
                 /\ alloc \cap (pending \cup done \cup before \cup after) = {}
                 /\ pending \cap (done \cup before \cup after) = {}
                 /\ done \cap (before \cup after) = {}
                 /\ before \cap after = {}
  <2> DEFINE alloc   == {r.work[g].block}
             pending == ToSet(r.work[g].pending)
             done    == r.work[g].completed
             before  == ToSet(olds[g])
             after   == ToSet(spaces[g].blocks)
  <2>1. /\ \A b \in alloc \cup pending \cup done \cup before \cup after :
              r.block[b].owner = g
        /\ alloc \cap (pending \cup done \cup before \cup after) = {}
        /\ pending \cap (done \cup before \cup after) = {}
        /\ done \cap (before \cup after) = {}
        /\ before \cap after = {}
    BY DEF BlocksListed
  <2>2. alloc \cup pending \cup done \cup before \cup after \subseteq Blocks
    BY ListedAreBlocks DEF Spaces
  <2>3. /\ {q.work[g].block} = alloc /\ ToSet(q.work[g].pending) = pending
        /\ q.work[g].completed = done
    BY DEF ListsSame
  <2> HIDE DEF alloc, pending, done
  <2> QED
    BY <1>1, <2>1, <2>2, <2>3
<1> QED
  BY <1>2, <1>3 DEF BlocksListed

\* What may be copied there.
MayCopy(r, addr, new) ==
    /\ addr \in Objects(r) /\ addr \notin r.copies /\ ObjectAt(r.block, addr).moved = Null
    /\ Available(r.block[new[1]]) >= 1 + Len(ObjectAt(r.block, addr).refs)

\* A copy keeps what is invariant.
LEMMA CopiedSound ==
    ASSUME NEW spaces \in SpacesType, NEW olds \in OldsType,
           NEW r, NEW q, NEW addr, NEW g \in Generations, NEW new,
           Sound(r, spaces, olds), Ahead(r, g, new), MayCopy(r, addr, new),
           CopyOf(r, q, addr, new)
    PROVE  /\ Sound(q, spaces, olds)
           /\ Objects(q) = Objects(r) \cup {new} /\ new \notin Objects(r)
<1>1. /\ r \in StateType /\ q \in StateType /\ addr \in Objects(r) /\ addr \notin r.copies
      /\ q.scanning = r.scanning /\ q.copies = r.copies \cup {new}
      /\ new[1] \in Blocks /\ new = <<new[1], new[2]>> /\ new[2] \in Nat
  BY DEF Sound, Ahead, MayCopy, CopyOf
<1>2. PICK b \in Blocks, m \in Nat : new = <<b, m>>
  BY <1>1
<1>3. new[1] = b /\ new[2] = m
  BY <1>2
<1>4. b = r.work[g].block /\ m = Len(r.block[b].objects) + 1
  BY <1>3 DEF Ahead
<1>5. \A x \in Blocks :
        Len(q.block[x].objects) = IF x = b THEN m ELSE Len(r.block[x].objects)
  BY <1>3, <1>4 DEF CopyOf, OneMore
<1>6. \A x \in Blocks :
        /\ DOMAIN q.block[x].objects = 1..Len(q.block[x].objects)
        /\ DOMAIN r.block[x].objects = 1..Len(r.block[x].objects)
        /\ Len(r.block[x].objects) \in Nat
  BY <1>1, StateFacts
<1>6a. PICK n \in Nat :
         /\ m = n + 1
         /\ Len(r.block[b].objects) = n /\ DOMAIN r.block[b].objects = 1..n
         /\ Len(q.block[b].objects) = m /\ DOMAIN q.block[b].objects = 1..m
  BY <1>4, <1>5, <1>6
<1>7. r.block[b].owner = g /\ q.block[b].owner = g
  <2>1. r.block[b].owner = g
    BY <1>4 DEF Sound, BlocksListed
  <2> QED
    BY <2>1 DEF CopyOf, OwnersSame
<1>8. Objects(q) = Objects(r) \cup {new}
  <2>1. ASSUME NEW x \in Blocks, NEW k \in Nat
        PROVE  k \in DOMAIN q.block[x].objects
                 <=> k \in DOMAIN r.block[x].objects \/ (x = b /\ k = m)
    <3>1. CASE x = b
      BY <1>6a, <3>1
    <3>2. CASE x # b
      BY <1>5, <1>6, <3>2
    <3> QED
      BY <3>1, <3>2
  <2> QED
    BY <1>2, <2>1 DEF Objects
<1>9. new \notin Objects(r)
  <2>1. m \notin DOMAIN r.block[b].objects
    BY <1>4, <1>6
  <2> QED
    BY <1>2, <2>1 DEF Objects
<1>10. \A a \in Objects(r) : Targets(q, a) = Targets(r, a)
  BY DEF CopyOf, RefsSame, Targets
<1>11. \A a \in Objects(r) :
         ObjectAt(q.block, a).moved = IF a = addr THEN new ELSE ObjectAt(r.block, a).moved
  BY DEF CopyOf, OneMoved
<1>12. \A a \in Objects(r) : Scanned(q, a) <=> Scanned(r, a)
  <2>1. \A a \in Objects(r) : a # new /\ a[1] \in Blocks
    BY <1>1, <1>9, ObjectFacts
  <2> QED
    BY <1>1, <2>1 DEF Scanned, CopyOf, OwnersSame
<1>13. Targets(q, new) = Targets(r, addr) /\ ObjectAt(q.block, new).moved = Null
  BY DEF CopyOf, MayCopy, Targets
<1>14. BlocksFit(q)
  <2> SUFFICES ASSUME NEW x \in Blocks
               PROVE  /\ q.block[x].scanned <= Len(q.block[x].objects)
                      /\ Used(q.block[x].objects) <= BlockSize
                      /\ q.block[x].owner = NoOwner => q.block[x] = EmptyBlock(NoOwner)
    BY DEF BlocksFit
  <2>1. r.block[x].objects \in Seq(Object) /\ q.block[x].objects \in Seq(Object)
    BY <1>1, StateFacts
  <2>2. q.block[x].scanned <= Len(q.block[x].objects)
    <3>1. q.block[x].scanned = r.block[x].scanned
      BY DEF CopyOf, OwnersSame
    <3>2. r.block[x].scanned <= Len(r.block[x].objects) /\ r.block[x].scanned \in Nat
      BY <1>1, StateFacts DEF Sound, BlocksFit
    <3>3. CASE x = b
      BY <1>6a, <3>1, <3>2, <3>3
    <3>4. CASE x # b
      <4>1. Len(q.block[x].objects) = Len(r.block[x].objects)
        BY <1>5, <3>4
      <4> QED
        BY <3>1, <3>2, <4>1
    <3> QED
      BY <3>3, <3>4
  <2>3. \A k \in DOMAIN r.block[x].objects :
          q.block[x].objects[k].refs = r.block[x].objects[k].refs
    <3> SUFFICES ASSUME NEW k \in DOMAIN r.block[x].objects
                 PROVE  q.block[x].objects[k].refs = r.block[x].objects[k].refs
      OBVIOUS
    <3>1. <<x, k>> \in Objects(r)
      BY <1>6 DEF Objects
    <3>2. ObjectAt(q.block, <<x, k>>).refs = ObjectAt(r.block, <<x, k>>).refs
      BY <3>1 DEF CopyOf, RefsSame
    <3> QED
      BY <3>2 DEF ObjectAt
  <2>4. Used(r.block[x].objects) <= BlockSize
    BY DEF Sound, BlocksFit
  <2>5. Used(q.block[x].objects) <= BlockSize
    <3>1. CASE x # b
      <4>1. Len(q.block[x].objects) = Len(r.block[x].objects)
        BY <1>5, <3>1
      <4>2. \A k \in DOMAIN r.block[x].objects :
              Len(r.block[x].objects[k].refs) = Len(q.block[x].objects[k].refs)
        BY <2>3
      <4>3. Used(r.block[x].objects) = Used(q.block[x].objects)
        BY <2>1, <4>1, <4>2, UsedOfSameSizes
      <4> QED
        BY <2>4, <4>3
    <3>2. CASE x = b
      <4> DEFINE o == ObjectAt(r.block, addr)
                 longer == Append(r.block[b].objects, o)
      <4>1. o \in Object
        BY <1>1, ObjectFacts
      <4>2. longer \in Seq(Object) /\ Used(longer) = Used(r.block[b].objects) + 1 + Len(o.refs)
        BY <2>1, <3>2, <4>1, UsedOfAppend
      <4>3. /\ Len(longer) = Len(r.block[b].objects) + 1
            /\ longer[Len(r.block[b].objects) + 1] = o
            /\ \A k \in 1..Len(r.block[b].objects) : longer[k] = r.block[b].objects[k]
        BY <2>1, <3>2, <4>1
      <4> HIDE DEF longer
      <4>4. /\ Len(longer) = m /\ longer[m] = o /\ DOMAIN longer = 1..m
            /\ \A k \in 1..m : k # m => k \in DOMAIN r.block[b].objects
            /\ \A k \in DOMAIN r.block[b].objects : longer[k] = r.block[b].objects[k]
        BY <1>6a, <4>2, <4>3
      <4>5. Len(q.block[b].objects) = m
        BY <1>5
      <4>6. q.block[b].objects[m].refs = o.refs
        BY <1>3 DEF CopyOf, ObjectAt
      <4> HIDE DEF o
      <4>7. \A k \in DOMAIN longer : Len(longer[k].refs) = Len(q.block[b].objects[k].refs)
        BY <2>3, <3>2, <4>4, <4>6
      <4>8. Used(longer) = Used(q.block[b].objects)
        BY <2>1, <3>2, <4>2, <4>4, <4>5, <4>7, UsedOfSameSizes
      <4>9. BlockSize - Used(r.block[b].objects) >= 1 + Len(o.refs)
        BY <1>3 DEF MayCopy, Available, o
      <4>10. Used(r.block[b].objects) \in Int /\ Len(o.refs) \in Int
        BY <2>1, <3>2, <4>1, UsedIsInt DEF Object
      <4> QED
        BY <3>2, <4>2, <4>8, <4>9, <4>10, CollectionAssumption
    <3> QED
      BY <3>1, <3>2
  <2>6. ASSUME q.block[x].owner = NoOwner PROVE q.block[x] = EmptyBlock(NoOwner)
    <3>1. r.block[x].owner = NoOwner
      BY <2>6 DEF CopyOf, OwnersSame
    <3>2. r.block[x] = EmptyBlock(NoOwner) /\ r.block[x].objects = <<>>
      BY <3>1 DEF Sound, BlocksFit, EmptyBlock
    <3>3. x # addr[1]
      BY <1>1, <3>2 DEF Objects
    <3>4. x # b
      BY <1>7, <3>1, AddressFacts DEF Spaces
    <3> QED
      BY <1>3, <3>2, <3>3, <3>4 DEF CopyOf
  <2> QED
    BY <2>2, <2>5, <2>6
<1>15. BlocksListed(q, spaces, olds)
  <2>1. /\ BlocksListed(r, spaces, olds) /\ OwnersSame(r, q) /\ ListsSame(r, q)
    BY DEF Sound, CopyOf
  <2> QED
    BY <1>1, <2>1, SameLists DEF OwnersSame
<1>16. WorkKept(q)
  <2> SUFFICES ASSUME NEW x \in Blocks, q.block[x].owner \in Generations,
                      q.block[x].scanned < Len(q.block[x].objects)
               PROVE  \/ x = q.scanning
                      \/ \E k \in Generations :
                           x = q.work[k].block \/ x \in ToSet(q.work[k].pending)
    BY DEF WorkKept
  <2>1. \A k \in Generations : /\ q.work[k].block = r.work[k].block
                               /\ q.work[k].pending = r.work[k].pending
    BY DEF CopyOf, ListsSame
  <2>2. CASE x = b
    BY <1>4, <2>1, <2>2
  <2>3. CASE x # b
    <3>1. r.block[x].owner \in Generations /\ r.block[x].scanned < Len(r.block[x].objects)
      BY <1>5, <2>3 DEF CopyOf, OwnersSame
    <3> QED
      BY <1>1, <2>1, <3>1 DEF Sound, WorkKept
  <2> QED
    BY <2>2, <2>3
<1>17. RefsValid(q)
  <2>1. Pointers(r) \subseteq Pointers(q)
    BY <1>8 DEF Pointers
  <2>2. \A a \in Objects(r) : Targets(r, a) \subseteq Pointers(r)
    BY DEF Sound, RefsValid
  <2> QED
    BY <1>1, <1>8, <1>10, <1>13, <2>1, <2>2 DEF RefsValid
<1>18. CopiesKept(q, olds)
  <2>1. ASSUME NEW c \in r.copies
        PROVE  /\ c \in Objects(q)
               /\ q.block[c[1]].owner \in Generations
               /\ \A k \in Generations : c[1] \notin ToSet(olds[k])
               /\ ObjectAt(q.block, c).moved = Null
    <3>1. /\ c \in Objects(r) /\ r.block[c[1]].owner \in Generations
          /\ \A k \in Generations : c[1] \notin ToSet(olds[k])
          /\ ObjectAt(r.block, c).moved = Null
      BY DEF Sound, CopiesKept
    <3>2. c # addr /\ c[1] \in Blocks
      BY <1>1, <3>1, ObjectFacts
    <3>3. q.block[c[1]].owner = r.block[c[1]].owner
      BY <3>2 DEF CopyOf, OwnersSame
    <3> QED
      BY <1>8, <1>11, <3>1, <3>2, <3>3
  <2>2. \A k \in Generations : b \notin ToSet(olds[k])
    BY <1>4, <1>7 DEF Sound, BlocksListed
  <2> QED
    BY <1>1, <1>3, <1>7, <1>8, <1>13, <2>1, <2>2 DEF CopiesKept
<1>19. MovedToCopies(q)
  <2>1. \A a \in Objects(r) : ObjectAt(r.block, a).moved \in r.copies \cup {Null}
    BY DEF Sound, MovedToCopies
  <2> QED
    BY <1>1, <1>8, <1>11, <1>13, <2>1 DEF MovedToCopies
<1>20. RefsForwarded(q)
  <2>1. \A a \in Objects(r) : new \notin Targets(r, a)
    <3>1. \A a \in Objects(r) : Targets(r, a) \subseteq Pointers(r)
      BY DEF Sound, RefsValid
    <3>2. new \notin {Null, EmptyMap}
      BY <1>2, AddressFacts
    <3> QED
      BY <1>9, <3>1, <3>2 DEF Pointers
  <2>2. ~Scanned(q, new)
    <3>1. q.block[b].scanned = r.block[b].scanned
      BY DEF CopyOf, OwnersSame
    <3>2. r.block[b].scanned <= Len(r.block[b].objects) /\ r.block[b].scanned \in Nat
      BY <1>1, StateFacts DEF Sound, BlocksFit
    <3>3. ~(m <= q.block[b].scanned)
      BY <1>4, <1>6, <3>1, <3>2
    <3> QED
      BY <1>3, <3>3 DEF Scanned
  <2>3. \A a \in Objects(r) :
          IF Scanned(r, a) THEN Targets(r, a) \subseteq r.copies \cup {Null, EmptyMap}
                           ELSE Targets(r, a) \cap r.copies = {}
    BY DEF Sound, RefsForwarded
  <2>4. Targets(r, addr) \cap r.copies = {}
    BY <1>1, <2>3 DEF Scanned
  <2>5. ASSUME NEW a \in Objects(r)
        PROVE  IF Scanned(q, a) THEN Targets(q, a) \subseteq q.copies \cup {Null, EmptyMap}
                                ELSE Targets(q, a) \cap q.copies = {}
    BY <1>1, <1>10, <1>12, <2>1, <2>3
  <2>6. Targets(q, new) \cap q.copies = {}
    BY <1>1, <1>13, <2>1, <2>4
  <2> QED
    BY <1>8, <2>2, <2>5, <2>6 DEF RefsForwarded
<1>21. UnscannedAreCopies(q)
  <2> SUFFICES ASSUME NEW x \in Blocks, q.block[x].owner \in Generations,
                      NEW k \in DOMAIN q.block[x].objects, k > q.block[x].scanned
               PROVE  <<x, k>> \in q.copies
    BY DEF UnscannedAreCopies
  <2>1. k \in Nat
    BY <1>1, StateFacts
  <2>2. <<x, k>> \in Objects(q)
    BY <2>1 DEF Objects
  <2>3. CASE <<x, k>> \in Objects(r)
    <3>1. k \in DOMAIN r.block[x].objects
      BY <2>3 DEF Objects
    <3>2. r.block[x].owner \in Generations /\ k > r.block[x].scanned
      BY DEF CopyOf, OwnersSame
    <3> QED
      BY <1>1, <3>1, <3>2 DEF Sound, UnscannedAreCopies
  <2> QED
    BY <1>1, <1>8, <2>2, <2>3
<1> QED
  BY <1>1, <1>8, <1>9, <1>14, <1>15, <1>16, <1>17, <1>18, <1>19, <1>20, <1>21 DEF Sound

-----------------------------------------------------------------------------
(* Evacuation *)

\* What evacuations keep: the references in objects, forwarding addresses, how
\* far blocks were scanned, who owns them, and what is no copy.
Onward(s, q) ==
    /\ q.scanning = s.scanning /\ s.copies \subseteq q.copies
    /\ Objects(s) \subseteq Objects(q)
    /\ \A a \in Objects(s) :
         /\ ObjectAt(q.block, a).refs = ObjectAt(s.block, a).refs
         /\ a \in q.copies => a \in s.copies
         /\ ObjectAt(s.block, a).moved # Null =>
              ObjectAt(q.block, a).moved = ObjectAt(s.block, a).moved
    /\ \A b \in Blocks :
         /\ q.block[b].scanned = s.block[b].scanned
         /\ s.block[b].owner # NoOwner => q.block[b].owner = s.block[b].owner

LEMMA OnwardReflexive ==
    ASSUME NEW s
    PROVE  Onward(s, s)
BY DEF Onward

LEMMA OnwardTransitive ==
    ASSUME NEW s, NEW q, NEW r, Onward(s, q), Onward(q, r)
    PROVE  Onward(s, r)
BY DEF Onward

LEMMA NextGenerationType ==
    ASSUME NEW owner \in Spaces
    PROVE  NextGeneration(owner) \in Generations
<1>1. 0 \in Generations
  BY CollectionAssumption DEF Generations
<1> QED
  BY <1>1 DEF NextGeneration, Spaces

LEMMA OwnerOfObject ==
    ASSUME NEW s \in StateType, BlocksFit(s), NEW a \in Objects(s)
    PROVE  s.block[a[1]].owner \in Spaces
<1>1. a[1] \in Blocks /\ s.block[a[1]].owner \in Spaces \cup {NoOwner}
      /\ a[2] \in 1..Len(s.block[a[1]].objects)
  BY ObjectFacts, StateFacts
<1>2. s.block[a[1]].owner # NoOwner
  <2> SUFFICES ASSUME s.block[a[1]].owner = NoOwner PROVE FALSE
    OBVIOUS
  <2>1. s.block[a[1]].objects = <<>>
    BY <1>1 DEF BlocksFit, EmptyBlock
  <2> QED
    BY <1>1, <2>1
<1> QED
  BY <1>1, <1>2

\* There is one more object, which is a copy of addr.
Duplicated(s, q, addr, new) ==
    /\ Objects(q) = Objects(s) \cup {new} /\ new \notin Objects(s)
    /\ q.copies = s.copies \cup {new} /\ ObjectAt(s.block, addr).moved = Null
    /\ \A a \in Objects(s) :
         /\ ObjectAt(q.block, a).name = ObjectAt(s.block, a).name
         /\ ObjectAt(q.block, a).refs = ObjectAt(s.block, a).refs
         /\ ObjectAt(q.block, a).moved = IF a = addr THEN new ELSE ObjectAt(s.block, a).moved
    /\ ObjectAt(q.block, new).name = ObjectAt(s.block, addr).name
    /\ ObjectAt(q.block, new).refs = ObjectAt(s.block, addr).refs
    /\ ObjectAt(q.block, new).moved = Null
    /\ \E g \in Generations : OneCounted(s, q, g)

LEMMA CopySound ==
    ASSUME NEW spaces \in SpacesType, NEW olds \in OldsType,
           NEW s, Sound(s, spaces, olds), ~s.failed,
           NEW addr \in Objects(s), addr \notin s.copies, ObjectAt(s.block, addr).moved = Null,
           NEW q, q = Copy(s, addr), ~q.failed
    PROVE  /\ Sound(q, spaces, olds) /\ Onward(s, q)
           /\ ObjectAt(q.block, addr).moved \in q.copies
           /\ \E new : Duplicated(s, q, addr, new)
<1> DEFINE object == ObjectAt(s.block, addr)
           g == NextGeneration(s.block[addr[1]].owner)
           size == 1 + Len(object.refs)
           r == EnsureAvailable(s, g, size)
           new == <<r.work[g].block, Len(r.block[r.work[g].block].objects) + 1>>
<1>1. s \in StateType /\ BlocksFit(s)
  BY DEF Sound
<1>2. object \in Object /\ addr[1] \in Blocks
  BY <1>1, ObjectFacts
<1>3. g \in Generations
  BY <1>1, OwnerOfObject, NextGenerationType
<1>4. size \in 1..BlockSize
  <2>1. Len(object.refs) \in Nat /\ Len(object.refs) <= MaxRefs
    <3> HIDE DEF object
    <3> QED
      BY <1>2 DEF Object
  <2> HIDE DEF object
  <2> QED
    BY <2>1, CollectionAssumption
<1>5. ~r.failed
  BY Zenon DEF Copy
<1>6. /\ Sound(r, spaces, olds) /\ SameObjects(s, r)
      /\ Available(r.block[r.work[g].block]) >= size
  <2>1. r = EnsureAvailable(s, g, size)
    OBVIOUS
  <2> HIDE DEF g, size, r
  <2> QED
    BY <1>3, <1>4, <1>5, <2>1, RoomSound
<1>a. Copy(s, addr) =
        IF r.failed THEN r
          ELSE [r EXCEPT !.block[r.work[g].block].objects = Append(@, object),
                         !.block[addr[1]].objects[addr[2]].moved = new,
                         !.work[g].count = @ + 1,
                         !.copies = @ \cup {new}]
  BY Zenon DEF Copy
<1>b. size = 1 + Len(object.refs)
  OBVIOUS
<1> HIDE DEF g, size, r
<1>7. /\ Objects(r) = Objects(s) /\ r.copies = s.copies /\ r.scanning = s.scanning
      /\ \A a \in Objects(s) : ObjectAt(r.block, a) = ObjectAt(s.block, a)
  <2>1. r.copies = s.copies /\ r.scanning = s.scanning
    BY <1>6 DEF SameObjects
  <2> QED
    BY <1>6, <2>1, SameObjectsFacts
<1>8. r \in StateType
  BY <1>6 DEF Sound
<1>9. /\ r.work[g].block \in Blocks
      /\ Len(r.block[r.work[g].block].objects) \in Nat
  BY <1>3, <1>8, StateFacts
<1>10. Ahead(r, g, new)
  <2>1. new \in Blocks \X Nat
    <3> DEFINE b == r.work[g].block
               m == Len(r.block[r.work[g].block].objects) + 1
    <3>1. b \in Blocks /\ m \in Nat
      <4>1. \A k \in Nat : k + 1 \in Nat
        OBVIOUS
      <4> QED
        BY <1>9, <4>1, Zenon
    <3>2. new = <<b, m>>
      OBVIOUS
    <3> HIDE DEF b, m, new
    <3> QED
      BY <3>1, <3>2
  <2>2. /\ new[1] = r.work[g].block
        /\ new[2] = Len(r.block[r.work[g].block].objects) + 1
    OBVIOUS
  <2> HIDE DEF new
  <2> QED
    BY <2>1, <2>2 DEF Ahead
<1>11. MayCopy(r, addr, new)
  <2>1. ObjectAt(r.block, addr) = object /\ new[1] = r.work[g].block
    BY <1>7
  <2> HIDE DEF object, new
  <2> QED
    BY <1>6, <1>7, <1>9, <1>b, <2>1 DEF MayCopy
<1>12. q = Copied(r, addr, g, new)
  <2> DEFINE b == r.work[g].block
             Done(c) == [r EXCEPT !.block[c].objects = Append(@, object),
                                  !.block[addr[1]].objects[addr[2]].moved = new,
                                  !.work[g].count = @ + 1,
                                  !.copies = @ \cup {new}]
  <2>a. q = Done(b) /\ new[1] = b
    BY <1>5, <1>a, Zenon
  <2>1. q = Done(new[1])
    <3> HIDE DEF Done, new, b
    <3> QED
      BY <2>a
  <2>2. object = ObjectAt(r.block, addr)
    BY <1>7
  <2> HIDE DEF object, new
  <2> QED
    BY <2>1, <2>2, Zenon DEF Copied, Appended, Forwarding, Counted
<1> HIDE DEF new, object
<1>13. CopyOf(r, q, addr, new) /\ OneCounted(r, q, g)
  BY <1>3, <1>7, <1>8, <1>10, <1>12, CopiedFacts
<1>14. Sound(q, spaces, olds) /\ Objects(q) = Objects(s) \cup {new} /\ new \notin Objects(s)
  BY <1>3, <1>6, <1>7, <1>10, <1>11, <1>13, CopiedSound
<1>15. q.copies = s.copies \cup {new} /\ q.scanning = s.scanning
  BY <1>7, <1>13 DEF CopyOf
<1>16. ASSUME NEW a \in Objects(s)
       PROVE  /\ ObjectAt(q.block, a).refs = ObjectAt(s.block, a).refs
              /\ ObjectAt(q.block, a).name = ObjectAt(s.block, a).name
              /\ ObjectAt(q.block, a).moved = IF a = addr THEN new ELSE ObjectAt(s.block, a).moved
  BY <1>7, <1>13 DEF CopyOf, RefsSame, NamesSame, OneMoved
<1>17. ASSUME NEW b \in Blocks
       PROVE  /\ q.block[b].scanned = s.block[b].scanned
              /\ s.block[b].owner # NoOwner => q.block[b].owner = s.block[b].owner
  BY <1>6, <1>13 DEF CopyOf, OwnersSame, SameObjects
<1>18. Onward(s, q)
  BY <1>14, <1>15, <1>16, <1>17 DEF Onward
<1>19. Duplicated(s, q, addr, new)
  <2>1. /\ ObjectAt(q.block, new).name = ObjectAt(s.block, addr).name
        /\ ObjectAt(q.block, new).refs = ObjectAt(s.block, addr).refs
        /\ ObjectAt(q.block, new).moved = Null
    BY <1>7, <1>13 DEF CopyOf
  <2>2. OneCounted(s, q, g)
    BY <1>6, <1>13 DEF OneCounted, SameObjects
  <2> QED
    BY <1>3, <1>14, <1>15, <1>16, <2>1, <2>2 DEF Duplicated
<1> QED
  BY <1>14, <1>15, <1>16, <1>18, <1>19

LEMMA EvacuateSound ==
    ASSUME NEW spaces \in SpacesType, NEW olds \in OldsType,
           NEW s, Sound(s, spaces, olds), ~s.failed,
           NEW addr \in Pointers(s), addr \notin s.copies,
           NEW q, q = Evacuate(s, addr), ~q.failed
    PROVE  /\ Sound(q, spaces, olds) /\ Onward(s, q)
           /\ Forwarded(q, addr) \in q.copies \cup {Null, EmptyMap}
           /\ addr \notin {Null, EmptyMap} => ObjectAt(q.block, addr).moved \in q.copies
           /\ q = s \/ (addr \in Objects(s) /\ \E new : Duplicated(s, q, addr, new))
<1>1. CASE addr \in {Null, EmptyMap}
  BY <1>1, OnwardReflexive DEF Evacuate, Forwarded
<1>2. CASE addr \notin {Null, EmptyMap}
  <2>1. addr \in Objects(s)
    BY <1>2 DEF Pointers
  <2>2. CASE ObjectAt(s.block, addr).moved # Null
    <3>1. q = s
      BY <2>2 DEF Evacuate
    <3>2. ObjectAt(s.block, addr).moved \in s.copies
      BY <2>1, <2>2 DEF Sound, MovedToCopies
    <3> QED
      BY <1>2, <3>1, <3>2, OnwardReflexive DEF Forwarded
  <2>3. CASE ObjectAt(s.block, addr).moved = Null
    <3>1. q = Copy(s, addr)
      BY <1>2, <2>3 DEF Evacuate
    <3>2. Sound(q, spaces, olds) /\ Onward(s, q) /\ ObjectAt(q.block, addr).moved \in q.copies
          /\ \E new : Duplicated(s, q, addr, new)
      BY <2>1, <2>3, <3>1, CopySound
    <3> QED
      BY <1>2, <2>1, <3>2 DEF Forwarded
  <2> QED
    BY <2>2, <2>3
<1> QED
  BY <1>1, <1>2

\* The function that EvacuateAll defines by recursion.
After(s, refs, f) ==
    \A n \in 0..Len(refs) : f[n] = IF n = 0 THEN s ELSE Evacuate(f[n - 1], refs[n])

LEMMA AfterExists ==
    ASSUME NEW s, NEW S, NEW refs \in Seq(S)
    PROVE  \E f : After(s, refs, f) /\ EvacuateAll(s, refs) = f[Len(refs)]
<1> DEFINE Exists(m) ==
             \E f : f = [n \in 0..m |-> IF n = 0 THEN s ELSE Evacuate(f[n - 1], refs[n])]
<1>1. Exists(0)
  <2>1. [n \in 0..0 |-> s]
          = [n \in 0..0 |-> IF n = 0 THEN s ELSE Evacuate([k \in 0..0 |-> s][n - 1], refs[n])]
    OBVIOUS
  <2> QED
    BY <2>1
<1>2. ASSUME NEW m \in Nat, Exists(m) PROVE Exists(m + 1)
  <2>1. PICK f : f = [n \in 0..m |-> IF n = 0 THEN s ELSE Evacuate(f[n - 1], refs[n])]
    BY <1>2
  <2> DEFINE g == [n \in 0..m + 1 |-> IF n = m + 1 THEN Evacuate(f[m], refs[m + 1]) ELSE f[n]]
  <2>2. \A n \in 0..m + 1 : g[n] = IF n = 0 THEN s ELSE Evacuate(g[n - 1], refs[n])
    <3> SUFFICES ASSUME NEW n \in 0..m + 1
                 PROVE  g[n] = IF n = 0 THEN s ELSE Evacuate(g[n - 1], refs[n])
      OBVIOUS
    <3>1. CASE n = m + 1
      <4>1. g[n] = Evacuate(f[m], refs[m + 1]) /\ g[m] = f[m] /\ n - 1 = m /\ n # 0
        BY <3>1
      <4> HIDE DEF g
      <4> QED
        BY <3>1, <4>1
    <3>2. CASE n # m + 1
      <4>1. n \in 0..m /\ g[n] = f[n] /\ (n # 0 => n - 1 \in 0..m /\ g[n - 1] = f[n - 1])
        BY <3>2
      <4>2. f[n] = IF n = 0 THEN s ELSE Evacuate(f[n - 1], refs[n])
        <5> DEFINE body == [k \in 0..m |-> IF k = 0 THEN s ELSE Evacuate(f[k - 1], refs[k])]
        <5>1. f[n] = body[n]
          BY <2>1
        <5> QED
          BY <4>1, <5>1
      <4> HIDE DEF g
      <4> QED
        BY <4>1, <4>2
    <3> QED
      BY <3>1, <3>2
  <2>3. g = [n \in 0..m + 1 |-> IF n = 0 THEN s ELSE Evacuate(g[n - 1], refs[n])]
    BY <2>2
  <2> QED
    BY <2>3
<1>3. Nat \subseteq {m \in Nat : Exists(m)}
  <2> HIDE DEF Exists
  <2>1. 0 \in {m \in Nat : Exists(m)}
    BY <1>1
  <2>2. \A n \in Nat : n \in {m \in Nat : Exists(m)} => n + 1 \in {m \in Nat : Exists(m)}
    BY <1>2
  <2> QED
    BY <2>1, <2>2, NatInductionOnSet
<1>4. PICK f : f = [n \in 0..Len(refs) |-> IF n = 0 THEN s ELSE Evacuate(f[n - 1], refs[n])]
  <2> HIDE DEF Exists
  <2>1. Exists(Len(refs))
    BY <1>3
  <2> QED
    BY <2>1 DEF Exists
<1> DEFINE F == CHOOSE h : h = [n \in 0..Len(refs) |->
                                 IF n = 0 THEN s ELSE Evacuate(h[n - 1], refs[n])]
<1>5. F = [n \in 0..Len(refs) |-> IF n = 0 THEN s ELSE Evacuate(F[n - 1], refs[n])]
  BY <1>4
<1>6. EvacuateAll(s, refs) = F[Len(refs)]
  BY DEF EvacuateAll
<1> HIDE DEF F
<1>7. After(s, refs, F)
  <2> SUFFICES ASSUME NEW n \in 0..Len(refs)
               PROVE  F[n] = IF n = 0 THEN s ELSE Evacuate(F[n - 1], refs[n])
    BY DEF After
  <2> DEFINE body == [k \in 0..Len(refs) |-> IF k = 0 THEN s ELSE Evacuate(F[k - 1], refs[k])]
  <2>1. F[n] = body[n]
    BY <1>5
  <2> QED
    BY <2>1
<1> QED
  BY <1>6, <1>7

\* What may be evacuated, and where that leaves it.
Evacuable(s, addr) == addr \in Pointers(s) /\ addr \notin s.copies

IsEvacuated(q, addr) == addr \in {Null, EmptyMap} \/ ObjectAt(q.block, addr).moved \in q.copies

LEMMA EvacuableOnward ==
    ASSUME NEW spaces, NEW olds, NEW s, NEW q, Sound(q, spaces, olds), Onward(s, q),
           NEW addr, Evacuable(s, addr)
    PROVE  Evacuable(q, addr)
<1>1. addr \in Pointers(q)
  BY DEF Evacuable, Pointers, Onward
<1>2. addr \notin q.copies
  <2>1. CASE addr \in Objects(s)
    BY <2>1 DEF Evacuable, Onward
  <2>2. CASE addr \in {Null, EmptyMap}
    <3>1. q.copies \subseteq Objects(q) /\ q \in StateType
      BY DEF Sound, CopiesKept
    <3> QED
      BY <2>2, <3>1, ObjectFacts
  <2> QED
    BY <2>1, <2>2 DEF Evacuable, Pointers
<1> QED
  BY <1>1, <1>2 DEF Evacuable

LEMMA EvacuatedOnward ==
    ASSUME NEW spaces, NEW olds, NEW s, NEW q, Sound(s, spaces, olds), Onward(s, q),
           NEW addr \in Pointers(s), IsEvacuated(s, addr)
    PROVE  IsEvacuated(q, addr)
<1>1. CASE addr \in {Null, EmptyMap}
  BY <1>1 DEF IsEvacuated
<1>2. CASE addr \in Objects(s) /\ ObjectAt(s.block, addr).moved \in s.copies
  <2>1. s.copies \subseteq Objects(s) /\ s \in StateType
    BY DEF Sound, CopiesKept
  <2>2. ObjectAt(s.block, addr).moved # Null
    BY <1>2, <2>1, ObjectFacts
  <2> QED
    BY <1>2, <2>2 DEF IsEvacuated, Onward
<1> QED
  BY <1>1, <1>2 DEF IsEvacuated, Pointers

\* The evacuation of one pointer after the other keeps what is invariant.
LEMMA EvacuateAllSound ==
    ASSUME NEW spaces \in SpacesType, NEW olds \in OldsType,
           NEW s, Sound(s, spaces, olds),
           NEW refs \in Seq(Addresses), \A i \in DOMAIN refs : Evacuable(s, refs[i]),
           NEW q, q = EvacuateAll(s, refs), ~q.failed
    PROVE  /\ Sound(q, spaces, olds) /\ Onward(s, q)
           /\ \A i \in DOMAIN refs : IsEvacuated(q, refs[i])
<1>1. PICK f : After(s, refs, f) /\ q = f[Len(refs)]
  BY AfterExists
<1> DEFINE Good(n) == /\ Sound(f[n], spaces, olds) /\ Onward(s, f[n])
                      /\ \A i \in 1..n : IsEvacuated(f[n], refs[i])
           S == {n \in Nat : n <= Len(refs) /\ ~f[n].failed => Good(n)}
<1>2. 0 \in S
  <2>1. f[0] = s
    BY <1>1 DEF After
  <2>2. Good(0)
    BY <2>1, OnwardReflexive
  <2> QED
    BY <2>2
<1>3. ASSUME NEW n \in Nat, n \in S PROVE n + 1 \in S
  <2> SUFFICES ASSUME n + 1 <= Len(refs), ~f[n + 1].failed PROVE Good(n + 1)
    OBVIOUS
  <2>1. /\ n + 1 \in DOMAIN refs /\ refs[n + 1] \in Addresses
        /\ \A i \in 1..n : i \in DOMAIN refs
    OBVIOUS
  <2>2. f[n + 1] = Evacuate(f[n], refs[n + 1])
    BY <1>1, <2>1 DEF After
  <2>3. ~f[n].failed
    BY <2>2 DEF Evacuate
  <2>4. Good(n)
    BY <1>3, <2>3
  <2>5. Evacuable(f[n], refs[n + 1])
    BY <2>1, <2>4, EvacuableOnward
  <2>6. Sound(f[n + 1], spaces, olds) /\ Onward(f[n], f[n + 1])
        /\ IsEvacuated(f[n + 1], refs[n + 1])
    BY <2>2, <2>3, <2>4, <2>5, EvacuateSound DEF Evacuable, IsEvacuated
  <2>7. Onward(s, f[n + 1])
    BY <2>4, <2>6, OnwardTransitive
  <2>8. ASSUME NEW i \in 1..n PROVE IsEvacuated(f[n + 1], refs[i])
    <3>1. refs[i] \in Pointers(f[n])
      BY <2>1, <2>4, EvacuableOnward DEF Evacuable
    <3> QED
      BY <2>4, <2>6, <3>1, EvacuatedOnward
  <2>9. \A i \in 1..n + 1 : i = n + 1 \/ i \in 1..n
    OBVIOUS
  <2> QED
    BY <2>6, <2>7, <2>8, <2>9
<1>4. Nat \subseteq S
  <2> HIDE DEF Good
  <2> QED
    BY <1>2, <1>3, NatInductionOnSet
<1>5. Good(Len(refs))
  <2> HIDE DEF Good
  <2> QED
    BY <1>1, <1>4
<1> QED
  BY <1>1, <1>5

-----------------------------------------------------------------------------
(* Scans *)

LEMMA RescannedFacts ==
    ASSUME NEW blocks \in [Blocks -> Block], NEW b \in Blocks,
           NEW k \in 1..Len(blocks[b].objects),
           NEW refs \in Seq(Addresses), Len(refs) <= MaxRefs,
           NEW q, q = Rescanned(blocks, b, k, refs)
    PROVE  /\ q \in [Blocks -> Block]
           /\ \A x \in Blocks :
                /\ q[x].owner = blocks[x].owner
                /\ x # b => q[x] = blocks[x]
           /\ q[b].scanned = k
           /\ Len(q[b].objects) = Len(blocks[b].objects)
           /\ \A j \in 1..Len(blocks[b].objects) :
                /\ q[b].objects[j].refs = IF j = k THEN refs ELSE blocks[b].objects[j].refs
                /\ q[b].objects[j].moved = blocks[b].objects[j].moved
                /\ q[b].objects[j].name = blocks[b].objects[j].name
<1>1. /\ blocks[b] \in Block /\ blocks[b].objects \in Seq(Object)
      /\ blocks[b].objects[k] \in Object /\ k \in Nat
  BY DEF Block
<1> DEFINE o == [blocks[b].objects[k] EXCEPT !.refs = refs]
           objects == [blocks[b].objects EXCEPT ![k] = o]
           record == [blocks[b] EXCEPT !.objects = objects, !.scanned = k]
<1>2. /\ o \in Object /\ o.refs = refs /\ o.moved = blocks[b].objects[k].moved
      /\ o.name = blocks[b].objects[k].name
  BY <1>1 DEF Object
<1> HIDE DEF o
<1>3. /\ objects \in Seq(Object) /\ Len(objects) = Len(blocks[b].objects)
      /\ \A j \in 1..Len(blocks[b].objects) :
           objects[j] = IF j = k THEN o ELSE blocks[b].objects[j]
  BY <1>1, <1>2
<1> HIDE DEF objects
<1>4. /\ record \in Block /\ record.objects = objects
      /\ record.owner = blocks[b].owner /\ record.scanned = k
  BY <1>1, <1>3 DEF Block
<1>5. q = [blocks EXCEPT ![b] = record]
  <2> DEFINE half == [blocks EXCEPT ![b].objects[k].refs = refs]
  <2>1. q = [half EXCEPT ![b].scanned = k]
    BY DEF Rescanned
  <2>2. half = [blocks EXCEPT ![b] = [blocks[b] EXCEPT !.objects = objects]]
    BY DEF o, objects
  <2>3. half[b] = [blocks[b] EXCEPT !.objects = objects]
    BY <2>2
  <2> HIDE DEF half
  <2>4. q = [half EXCEPT ![b] = [half[b] EXCEPT !.scanned = k]]
    BY <2>1
  <2>5. q = [half EXCEPT ![b] = record]
    BY <2>3, <2>4
  <2> QED
    BY <2>2, <2>5
<1> HIDE DEF record
<1>6. q \in [Blocks -> Block] /\ q[b] = record /\ \A x \in Blocks : x # b => q[x] = blocks[x]
  BY <1>4, <1>5
<1> QED
  BY <1>2, <1>3, <1>4, <1>6

\* What a scan does, address by address.
ScanOf(s, q, addr, refs) ==
    /\ q \in StateType /\ q.scanning = s.scanning /\ q.copies = s.copies
    /\ q.work = s.work
    /\ \A x \in Blocks :
         /\ q.block[x].owner = s.block[x].owner
         /\ Len(q.block[x].objects) = Len(s.block[x].objects)
         /\ x # addr[1] => q.block[x] = s.block[x]
    /\ q.block[addr[1]].scanned = addr[2]
    /\ \A a \in Objects(s) :
         /\ ObjectAt(q.block, a).moved = ObjectAt(s.block, a).moved
         /\ ObjectAt(q.block, a).name = ObjectAt(s.block, a).name
         /\ ObjectAt(q.block, a).refs = IF a = addr THEN refs ELSE ObjectAt(s.block, a).refs

LEMMA RescannedScan ==
    ASSUME NEW s \in StateType, NEW addr \in Objects(s),
           NEW refs \in Seq(Addresses), Len(refs) <= MaxRefs,
           NEW q, q = [s EXCEPT !.block = Rescanned(s.block, addr[1], addr[2], refs)]
    PROVE  ScanOf(s, q, addr, refs)
<1> DEFINE blocks == Rescanned(s.block, addr[1], addr[2], refs)
<1>1. s.block \in [Blocks -> Block]
  BY DEF StateType
<1>2. addr[1] \in Blocks /\ addr[2] \in 1..Len(s.block[addr[1]].objects)
  BY ObjectFacts
<1>3. /\ blocks \in [Blocks -> Block]
      /\ \A x \in Blocks :
           /\ blocks[x].owner = s.block[x].owner
           /\ x # addr[1] => blocks[x] = s.block[x]
      /\ blocks[addr[1]].scanned = addr[2]
      /\ Len(blocks[addr[1]].objects) = Len(s.block[addr[1]].objects)
      /\ \A j \in 1..Len(s.block[addr[1]].objects) :
           /\ blocks[addr[1]].objects[j].refs =
                IF j = addr[2] THEN refs ELSE s.block[addr[1]].objects[j].refs
           /\ blocks[addr[1]].objects[j].moved = s.block[addr[1]].objects[j].moved
           /\ blocks[addr[1]].objects[j].name = s.block[addr[1]].objects[j].name
  <2>1. PICK b \in Blocks, k \in Nat :
          addr[1] = b /\ addr[2] = k /\ k \in 1..Len(s.block[b].objects)
    BY <1>2
  <2>2. blocks = Rescanned(s.block, b, k, refs)
    BY <2>1
  <2> HIDE DEF blocks
  <2>3. /\ blocks \in [Blocks -> Block]
        /\ \A x \in Blocks :
             /\ blocks[x].owner = s.block[x].owner
             /\ x # b => blocks[x] = s.block[x]
        /\ blocks[b].scanned = k
        /\ Len(blocks[b].objects) = Len(s.block[b].objects)
        /\ \A j \in 1..Len(s.block[b].objects) :
             /\ blocks[b].objects[j].refs =
                  IF j = k THEN refs ELSE s.block[b].objects[j].refs
             /\ blocks[b].objects[j].moved = s.block[b].objects[j].moved
             /\ blocks[b].objects[j].name = s.block[b].objects[j].name
    BY <1>1, <2>1, <2>2, RescannedFacts, SMTT(30)
  <2> QED
    BY <2>1, <2>3
<1> HIDE DEF blocks
<1>4. /\ q \in StateType /\ q.block = blocks /\ q.scanning = s.scanning
      /\ q.copies = s.copies /\ q.work = s.work
  BY <1>3 DEF StateType, blocks
<1>5. ASSUME NEW a \in Objects(s)
      PROVE  /\ ObjectAt(q.block, a).moved = ObjectAt(s.block, a).moved
             /\ ObjectAt(q.block, a).name = ObjectAt(s.block, a).name
             /\ ObjectAt(q.block, a).refs =
                  IF a = addr THEN refs ELSE ObjectAt(s.block, a).refs
  <2>1. a[1] \in Blocks /\ a[2] \in 1..Len(s.block[a[1]].objects) /\ a = <<a[1], a[2]>>
    BY ObjectFacts
  <2>2. addr = <<addr[1], addr[2]>>
    BY ObjectFacts
  <2>3. a = addr <=> a[1] = addr[1] /\ a[2] = addr[2]
    BY <2>1, <2>2
  <2>4. CASE a[1] = addr[1]
    BY <1>3, <1>4, <2>1, <2>3, <2>4 DEF ObjectAt
  <2>5. CASE a[1] # addr[1]
    BY <1>3, <1>4, <2>1, <2>3, <2>5 DEF ObjectAt
  <2> QED
    BY <2>4, <2>5
<1> QED
  BY <1>3, <1>4, <1>5 DEF ScanOf

\* A scan of the next object keeps what is invariant, if its pointers become
\* pointers to copies.
LEMMA ScanSound ==
    ASSUME NEW spaces \in SpacesType, NEW olds \in OldsType, NEW s, NEW q, NEW addr, NEW refs,
           Sound(s, spaces, olds), ScanOf(s, q, addr, refs), addr \in Objects(s),
           addr[1] = s.scanning, s.block[addr[1]].owner \in Generations,
           addr[2] = s.block[addr[1]].scanned + 1,
           Len(refs) = Len(ObjectAt(s.block, addr).refs),
           ToSet(refs) \subseteq s.copies \cup {Null, EmptyMap}
    PROVE  Sound(q, spaces, olds) /\ Objects(q) = Objects(s)
<1>1. /\ s \in StateType /\ q \in StateType /\ q.scanning = s.scanning
      /\ q.copies = s.copies /\ q.work = s.work
  BY DEF Sound, ScanOf
<1>2. PICK b \in Blocks, k \in Nat : addr = <<b, k>> /\ addr[1] = b /\ addr[2] = k
  BY <1>1, ObjectFacts
<1>3. k = s.block[b].scanned + 1 /\ k \in 1..Len(s.block[b].objects) /\ b = s.scanning
  BY <1>1, <1>2, ObjectFacts
<1>4. \A x \in Blocks : /\ q.block[x].owner = s.block[x].owner
                        /\ Len(q.block[x].objects) = Len(s.block[x].objects)
                        /\ x # b => q.block[x] = s.block[x]
  BY <1>2 DEF ScanOf
<1>5. q.block[b].scanned = k
  BY <1>2 DEF ScanOf
<1>6. \A x \in Blocks :
        /\ DOMAIN q.block[x].objects = DOMAIN s.block[x].objects
        /\ DOMAIN s.block[x].objects = 1..Len(s.block[x].objects)
        /\ Len(s.block[x].objects) \in Nat /\ s.block[x].scanned \in Nat
  BY <1>1, <1>4, StateFacts
<1>7. Objects(q) = Objects(s)
  BY <1>6 DEF Objects
<1>8. \A a \in Objects(s) : ObjectAt(q.block, a).moved = ObjectAt(s.block, a).moved
  BY DEF ScanOf
<1>9. /\ Targets(q, addr) = ToSet(refs)
      /\ \A a \in Objects(s) : a # addr => Targets(q, a) = Targets(s, a)
  BY DEF ScanOf, Targets
<1>10. addr \in s.copies
  <2>1. k > s.block[b].scanned /\ k \in DOMAIN s.block[b].objects
    BY <1>3, <1>6
  <2> QED
    BY <1>2, <2>1 DEF Sound, UnscannedAreCopies
<1>11. Scanned(q, addr) /\ \A a \in Objects(s) : a # addr => (Scanned(q, a) <=> Scanned(s, a))
  <2>1. Scanned(q, addr)
    BY <1>1, <1>2, <1>5, <1>10 DEF Scanned
  <2>2. ASSUME NEW a \in Objects(s), a # addr PROVE Scanned(q, a) <=> Scanned(s, a)
    <3>1. a[1] \in Blocks /\ a[2] \in Nat /\ a = <<a[1], a[2]>>
      BY <1>1, ObjectFacts DEF Objects
    <3>2. CASE a[1] = b
      <4>1. a[2] # k
        BY <1>2, <2>2, <3>1, <3>2
      <4>2. a[2] <= k <=> a[2] <= s.block[b].scanned
        BY <1>3, <1>6, <3>1, <4>1
      <4> QED
        BY <1>1, <1>5, <3>2, <4>2 DEF Scanned
    <3>3. CASE a[1] # b
      BY <1>1, <1>4, <3>1, <3>3 DEF Scanned
    <3> QED
      BY <3>2, <3>3
  <2> QED
    BY <2>1, <2>2
<1>12. BlocksFit(q)
  <2> SUFFICES ASSUME NEW x \in Blocks
               PROVE  /\ q.block[x].scanned <= Len(q.block[x].objects)
                      /\ Used(q.block[x].objects) <= BlockSize
                      /\ q.block[x].owner = NoOwner => q.block[x] = EmptyBlock(NoOwner)
    BY DEF BlocksFit
  <2>1. /\ s.block[x].scanned <= Len(s.block[x].objects)
        /\ Used(s.block[x].objects) <= BlockSize
        /\ s.block[x].owner = NoOwner => s.block[x] = EmptyBlock(NoOwner)
    BY DEF Sound, BlocksFit
  <2>2. CASE x # b
    BY <1>4, <2>1, <2>2
  <2>3. CASE x = b
    <3>1. q.block[b].scanned <= Len(q.block[b].objects)
      BY <1>3, <1>4, <1>5, <1>6
    <3>2. q.block[b].owner # NoOwner
      BY <1>2, <1>4, AddressFacts DEF Spaces
    <3>3. s.block[b].objects \in Seq(Object) /\ q.block[b].objects \in Seq(Object)
      BY <1>1, StateFacts
    <3>4. ASSUME NEW j \in DOMAIN s.block[b].objects
          PROVE  Len(s.block[b].objects[j].refs) = Len(q.block[b].objects[j].refs)
      <4>1. <<b, j>> \in Objects(s)
        BY <1>6 DEF Objects
      <4>2. Len(ObjectAt(s.block, <<b, j>>).refs) = Len(ObjectAt(q.block, <<b, j>>).refs)
        BY <4>1 DEF ScanOf
      <4> QED
        BY <4>2 DEF ObjectAt
    <3>5. Used(s.block[b].objects) = Used(q.block[b].objects)
      BY <1>4, <3>3, <3>4, UsedOfSameSizes
    <3> QED
      BY <2>1, <2>3, <3>1, <3>2, <3>5
  <2> QED
    BY <2>2, <2>3
<1>13. BlocksListed(q, spaces, olds)
  <2>1. BlocksListed(s, spaces, olds) /\ ListsSame(s, q)
    BY <1>1 DEF Sound, ListsSame
  <2> QED
    BY <1>1, <1>4, <2>1, SameLists
<1>14. WorkKept(q)
  <2>1. WorkKept(s)
    BY DEF Sound
  <2> QED
    BY <1>1, <1>3, <1>4, <2>1 DEF WorkKept
<1>15. s.copies \subseteq Objects(s)
  BY DEF Sound, CopiesKept
<1>16. RefsValid(q)
  <2>1. \A a \in Objects(s) : Targets(s, a) \subseteq Pointers(s)
    BY DEF Sound, RefsValid
  <2> QED
    BY <1>7, <1>9, <1>15, <2>1 DEF RefsValid, Pointers
<1>17. CopiesKept(q, olds)
  <2>1. \A c \in s.copies : c[1] \in Blocks
    BY <1>1, <1>15, ObjectFacts
  <2> QED
    BY <1>1, <1>4, <1>7, <1>8, <2>1 DEF Sound, CopiesKept
<1>18. MovedToCopies(q)
  BY <1>1, <1>7, <1>8 DEF Sound, MovedToCopies
<1>19. RefsForwarded(q)
  <2>1. \A a \in Objects(s) :
          IF Scanned(s, a) THEN Targets(s, a) \subseteq s.copies \cup {Null, EmptyMap}
                           ELSE Targets(s, a) \cap s.copies = {}
    BY DEF Sound, RefsForwarded
  <2> QED
    BY <1>1, <1>7, <1>9, <1>11, <2>1 DEF RefsForwarded
<1>20. UnscannedAreCopies(q)
  <2> SUFFICES ASSUME NEW x \in Blocks, q.block[x].owner \in Generations,
                      NEW j \in DOMAIN q.block[x].objects, j > q.block[x].scanned
               PROVE  <<x, j>> \in q.copies
    BY DEF UnscannedAreCopies
  <2>1. s.block[x].owner \in Generations /\ j \in DOMAIN s.block[x].objects /\ j \in Nat
    BY <1>4, <1>6
  <2>2. j > s.block[x].scanned
    <3>1. CASE x = b
      BY <1>3, <1>5, <1>6, <2>1, <3>1
    <3>2. CASE x # b
      BY <1>4, <3>2
    <3> QED
      BY <3>1, <3>2
  <2> QED
    BY <1>1, <2>1, <2>2 DEF Sound, UnscannedAreCopies
<1> QED
  BY <1>1, <1>7, <1>12, <1>13, <1>14, <1>16, <1>17, <1>18, <1>19, <1>20 DEF Sound

-----------------------------------------------------------------------------
(* The steps of the collector *)

LEMMA StateFields ==
    /\ State.block = block /\ State.work = work /\ State.scanning = scanning
    /\ State.copies = copies /\ State.failed = FALSE
BY DEF State

\* The state that an action makes is one of the evacuation.
LEMMA BecomeState ==
    ASSUME NEW s \in StateType, Become(s), scanning' = s.scanning
    PROVE  State' = s
<1>1. s = [block |-> s.block, work |-> s.work, scanning |-> s.scanning,
           copies |-> s.copies, failed |-> s.failed]
  BY DEF StateType
<1>2. s.failed = FALSE
  BY DEF Become, StateType
<1>3. State' = [block |-> block', work |-> work', scanning |-> scanning',
                copies |-> copies', failed |-> FALSE]
  BY DEF State
<1> QED
  BY <1>1, <1>2, <1>3 DEF Become

LEMMA PointersType ==
    ASSUME NEW s \in StateType
    PROVE  Pointers(s) \subseteq Addresses /\ s.copies \cup {Null, EmptyMap} \subseteq Addresses
BY AddressFacts DEF Pointers, Objects, StateType

\* A handle follows its object.
LEMMA EvacuatedRoot ==
    ASSUME IInv, NEW h \in Handles, EvacuateRoot(h)
    PROVE  /\ Sound(State', space, old) /\ Onward(State, State')
           /\ State' = State \/ (State' = Evacuate(State, handle[h]) /\ ~State'.failed)
           /\ Evacuable(State, handle[h]) /\ IsEvacuated(State', handle[h])
           /\ handle' = [handle EXCEPT ![h] = Forwarded(State', handle[h])]
<1>1. VariablesType /\ Sound(State, space, old) /\ Phases /\ RootsValid
  BY DEF IInv
<1>2. space \in SpacesType /\ old \in OldsType /\ State \in StateType
  BY <1>1 DEF VariablesType, Sound
<1>3. h \in toVisit /\ collecting /\ UNCHANGED scanning
  BY <1>1 DEF EvacuateRoot, Phases, VariablesType
<1>4. handle[h] \in Pointers(State) /\ handle[h] \notin State.copies
  BY <1>1, <1>3, StateFields DEF RootsValid, Phases
<1>5. Evacuable(State, handle[h])
  BY <1>4 DEF Evacuable
<1>6. CASE handle[h] = Null
  <2>1. State' = State /\ handle' = handle
    BY <1>3, <1>6 DEF EvacuateRoot, State
  <2>2. Forwarded(State', handle[h]) = handle[h] /\ IsEvacuated(State', handle[h])
    BY <1>6 DEF Forwarded, IsEvacuated
  <2>3. handle' = [handle EXCEPT ![h] = handle[h]]
    BY <1>1, <2>1 DEF VariablesType
  <2> QED
    BY <1>1, <1>5, <2>1, <2>2, <2>3, OnwardReflexive
<1>7. CASE handle[h] # Null
  <2> DEFINE q == Evacuate(State, handle[h])
  <2>1. Become(q) /\ handle' = [handle EXCEPT ![h] = Forwarded(q, handle[h])]
    BY <1>7 DEF EvacuateRoot
  <2>2. ~State.failed /\ ~q.failed
    BY <2>1, StateFields DEF Become
  <2>3. /\ Sound(q, space, old) /\ Onward(State, q)
        /\ handle[h] \notin {Null, EmptyMap} => ObjectAt(q.block, handle[h]).moved \in q.copies
    BY <1>1, <1>2, <1>4, <2>2, EvacuateSound
  <2> HIDE DEF q
  <2>4. q \in StateType /\ q.scanning = scanning'
    BY <1>3, <2>3, StateFields DEF Sound, Onward
  <2>5. State' = q
    BY <2>1, <2>4, BecomeState
  <2>6. IsEvacuated(q, handle[h])
    BY <2>3 DEF IsEvacuated
  <2> QED
    BY <1>5, <2>1, <2>2, <2>3, <2>5, <2>6 DEF q
<1> QED
  BY <1>6, <1>7

LEMMA EvacuateRootKeepsIInv ==
    ASSUME IInv, NEW h \in Handles, EvacuateRoot(h)
    PROVE  IInv'
<1>1. VariablesType /\ Sound(State, space, old) /\ Phases /\ ScansGenerations /\ RootsValid
  BY DEF IInv
<1>2. space \in SpacesType /\ old \in OldsType /\ State \in StateType
  BY <1>1 DEF VariablesType, Sound
<1>3. h \in toVisit /\ collecting /\ toVisit' = toVisit \ {h}
  BY <1>1 DEF EvacuateRoot, Phases, VariablesType
<1>4. /\ UNCHANGED <<space, old, inUse, pointer, locked, collecting, scanning>>
  BY DEF EvacuateRoot, client
<1>5. PICK q : /\ State' = q /\ Sound(q, space, old) /\ Onward(State, q)
               /\ handle' = [handle EXCEPT ![h] = handle'[h]]
               /\ handle'[h] \in q.copies \cup {Null, EmptyMap}
  <2>1. /\ Sound(State', space, old) /\ Onward(State, State') /\ IsEvacuated(State', handle[h])
        /\ handle' = [handle EXCEPT ![h] = Forwarded(State', handle[h])]
    BY EvacuatedRoot
  <2>2. handle'[h] = Forwarded(State', handle[h])
    BY <1>1, <2>1 DEF VariablesType
  <2>3. Forwarded(State', handle[h]) \in State'.copies \cup {Null, EmptyMap}
    BY <2>1 DEF IsEvacuated, Forwarded
  <2> QED
    BY <2>1, <2>2, <2>3
<1>6. q \in StateType
  BY <1>5 DEF Sound
<1>7. \A k \in Handles : k # h => handle'[k] = handle[k]
  BY <1>1, <1>5 DEF VariablesType
<1>8. VariablesType'
  <2>1. handle' \in [Handles -> Addresses]
    <3>1. handle'[h] \in Addresses
      BY <1>5, <1>6, PointersType
    <3> QED
      BY <1>1, <1>5, <3>1 DEF VariablesType
  <2> QED
    BY <1>1, <1>3, <1>4, <2>1 DEF VariablesType
<1>9. Sound(State, space, old)'
  BY <1>4, <1>5
<1>10. copies' = q.copies /\ block' = q.block
  BY <1>5 DEF State
<1>11. Phases'
  <2>1. ASSUME NEW k \in Handles
        PROVE  IF k \in toVisit' THEN handle'[k] \notin copies'
               ELSE handle'[k] \in copies' \cup {Null, EmptyMap}
    <3>1. CASE k = h
      BY <1>3, <1>5, <1>10, <3>1
    <3>2. CASE k # h /\ k \in toVisit
      <4>1. Evacuable(State, handle[k])
        BY <1>1, <1>3, <3>2, StateFields DEF Phases, RootsValid, Evacuable
      <4>2. Evacuable(q, handle[k])
        BY <1>5, <4>1, EvacuableOnward
      <4> QED
        BY <1>3, <1>7, <1>10, <3>2, <4>2 DEF Evacuable
    <3>3. CASE k # h /\ k \notin toVisit
      <4>1. handle[k] \in copies \cup {Null, EmptyMap}
        BY <1>1, <1>3, <3>3 DEF Phases
      <4>2. copies \subseteq q.copies
        BY <1>5, StateFields DEF Onward
      <4> QED
        BY <1>3, <1>7, <1>10, <3>3, <4>1, <4>2
    <3> QED
      BY <3>1, <3>2, <3>3
  <2> QED
    BY <1>1, <1>3, <1>4, <2>1 DEF Phases
<1>12. ScansGenerations'
  <2>1. scanning \in Blocks \cup {NoBlock}
    BY <1>2, StateFields DEF StateType
  <2>2. scanning # NoBlock => q.block[scanning].owner = block[scanning].owner
    BY <1>1, <1>5, <2>1, StateFields, AddressFacts DEF Onward, ScansGenerations, Spaces
  <2> QED
    BY <1>1, <1>4, <1>10, <2>2 DEF ScansGenerations
<1>13. RootsValid'
  <2>1. Pointers(State) \subseteq Pointers(q)
    BY <1>5 DEF Onward, Pointers
  <2>2. q.copies \cup {Null, EmptyMap} \subseteq Pointers(q)
    BY <1>5 DEF Sound, CopiesKept, Pointers
  <2>3. \A k \in Handles : handle'[k] \in Pointers(q)
    BY <1>1, <1>5, <1>7, <2>1, <2>2 DEF RootsValid
  <2>4. \A t \in Threads : pointer'[t] \in Pointers(q)
    BY <1>1, <1>4, <2>1 DEF RootsValid
  <2> QED
    BY <1>5, <2>3, <2>4 DEF RootsValid
<1> QED
  BY <1>8, <1>9, <1>11, <1>12, <1>13 DEF IInv

\* What depends on the objects alone, and on which of them are copies.
LEMMA SameBlocks ==
    ASSUME NEW s, NEW r, r.block = s.block, r.copies = s.copies
    PROVE  /\ Objects(r) = Objects(s) /\ Pointers(r) = Pointers(s)
           /\ BlocksFit(s) => BlocksFit(r)
           /\ RefsValid(s) => RefsValid(r)
           /\ \A olds : CopiesKept(s, olds) => CopiesKept(r, olds)
           /\ MovedToCopies(s) => MovedToCopies(r)
           /\ RefsForwarded(s) => RefsForwarded(r)
           /\ UnscannedAreCopies(s) => UnscannedAreCopies(r)
<1>1. Objects(r) = Objects(s)
  BY DEF Objects
<1>2. Pointers(r) = Pointers(s) /\ \A a : Targets(r, a) = Targets(s, a)
  BY <1>1 DEF Pointers, Targets
<1>3. \A a : Scanned(r, a) <=> Scanned(s, a)
  BY DEF Scanned
<1> QED
  BY <1>1, <1>2, <1>3
     DEF BlocksFit, RefsValid, CopiesKept, MovedToCopies, RefsForwarded, UnscannedAreCopies

LEMMA FewerPending ==
    ASSUME NEW spaces, NEW olds, NEW s, NEW r, r.block = s.block,
           \A k \in Generations :
             /\ r.work[k].block = s.work[k].block
             /\ r.work[k].completed = s.work[k].completed
             /\ ToSet(r.work[k].pending) \subseteq ToSet(s.work[k].pending),
           BlocksListed(s, spaces, olds)
    PROVE  BlocksListed(r, spaces, olds)
<1> SUFFICES ASSUME NEW g \in Generations
             PROVE  LET alloc   == {r.work[g].block}
                        pending == ToSet(r.work[g].pending)
                        done    == r.work[g].completed
                        before  == ToSet(olds[g])
                        after   == ToSet(spaces[g].blocks)
                    IN  /\ \A b \in alloc \cup pending \cup done \cup before \cup after :
                             r.block[b].owner = g
                        /\ alloc \cap (pending \cup done \cup before \cup after) = {}
                        /\ pending \cap (done \cup before \cup after) = {}
                        /\ done \cap (before \cup after) = {}
                        /\ before \cap after = {}
  BY DEF BlocksListed
<1>1. /\ r.work[g].block = s.work[g].block
      /\ r.work[g].completed = s.work[g].completed
      /\ ToSet(r.work[g].pending) \subseteq ToSet(s.work[g].pending)
  OBVIOUS
<1> QED
  BY <1>1 DEF BlocksListed

\* Nothing but what is scanned, and what is still to scan, changes.
LEMMA StartBlockKeepsIInv ==
    ASSUME IInv, NEW g \in Generations, StartBlock(g)
    PROVE  IInv'
<1>1. VariablesType /\ Sound(State, space, old) /\ Phases /\ ScansGenerations /\ RootsValid
  BY DEF IInv
<1>2. space \in SpacesType /\ old \in OldsType /\ State \in StateType
  BY <1>1 DEF VariablesType, Sound
<1>3. /\ collecting /\ toVisit = {} /\ scanning = NoBlock
      /\ UNCHANGED <<space, inUse, pointer, locked, block, old, handle, collecting,
                     toVisit, copies>>
  BY DEF StartBlock, client
<1>4. work[g] \in Workspace /\ work \in [Generations -> Workspace]
  BY <1>2, StateFields DEF StateType
<1>5. /\ State'.block = block /\ State'.work = work' /\ State'.scanning = scanning'
      /\ State'.copies = copies /\ State'.failed = FALSE
  BY <1>3 DEF State
<1>6. /\ scanning' \in Blocks /\ work' \in [Generations -> Workspace]
      /\ scanning' = work[g].block \/ scanning' \in ToSet(work[g].pending)
      /\ \A k \in Generations :
           /\ work'[k].block = work[k].block
           /\ work'[k].completed = work[k].completed
           /\ ToSet(work'[k].pending) \subseteq ToSet(work[k].pending)
           /\ ToSet(work[k].pending) \subseteq ToSet(work'[k].pending) \cup {scanning'}
  <2>1. CASE HasUnscanned(work[g].block)
    BY <1>4, <2>1 DEF StartBlock, Workspace
  <2>2. CASE ~HasUnscanned(work[g].block)
    <3> DEFINE p == work[g].pending
               w == [work[g] EXCEPT !.pending = Tail(p)]
    <3>1. /\ p \in Seq(Blocks) /\ p # <<>> /\ scanning' = Head(p)
          /\ work' = [work EXCEPT ![g] = w]
      BY <1>4, <2>2 DEF StartBlock, HasWork, Workspace
    <3>2. Tail(p) \in Seq(Blocks) /\ Head(p) \in Blocks /\ Head(p) \in ToSet(p)
      BY <3>1 DEF ToSet
    <3>3. ToSet(Tail(p)) \subseteq ToSet(p)
      BY <3>1 DEF ToSet
    <3>4. ToSet(p) \subseteq ToSet(Tail(p)) \cup {Head(p)}
      <4> SUFFICES ASSUME NEW i \in 1..Len(p), i # 1 PROVE p[i] \in ToSet(Tail(p))
        BY <3>1 DEF ToSet
      <4>1. i - 1 \in DOMAIN Tail(p) /\ Tail(p)[i - 1] = p[i]
        BY <3>1
      <4> QED
        BY <4>1 DEF ToSet
    <3>5. /\ w \in Workspace /\ w.block = work[g].block
          /\ w.completed = work[g].completed /\ w.pending = Tail(p)
      BY <1>4, <3>2 DEF Workspace
    <3> HIDE DEF w
    <3>6. /\ work' \in [Generations -> Workspace]
          /\ \A k \in Generations : work'[k] = IF k = g THEN w ELSE work[k]
      BY <1>4, <3>1, <3>5
    <3> QED
      BY <3>1, <3>2, <3>3, <3>4, <3>5, <3>6
  <2> QED
    BY <2>1, <2>2
<1>7. State' \in StateType
  <2>1. State' = [block |-> block, work |-> work', scanning |-> scanning', copies |-> copies,
                  failed |-> FALSE]
    BY <1>3 DEF State
  <2>2. block \in [Blocks -> Block] /\ copies \in SUBSET (Blocks \X Nat)
    BY <1>2, StateFields DEF StateType
  <2> QED
    BY <1>6, <2>1, <2>2 DEF StateType
<1>8. BlocksListed(State', space, old)
  <2> DEFINE r == State'
  <2>1. /\ r.block = State.block
        /\ \A k \in Generations :
             /\ r.work[k].block = State.work[k].block
             /\ r.work[k].completed = State.work[k].completed
             /\ ToSet(r.work[k].pending) \subseteq ToSet(State.work[k].pending)
    BY <1>5, <1>6, StateFields
  <2> HIDE DEF r
  <2> QED
    BY <1>1, <2>1, FewerPending DEF Sound, r
<1>9. WorkKept(State')
  <2> SUFFICES ASSUME NEW x \in Blocks, block[x].scanned < Len(block[x].objects),
                      block[x].owner \in Generations
               PROVE  \/ x = scanning'
                      \/ \E k \in Generations :
                           x = work'[k].block \/ x \in ToSet(work'[k].pending)
    BY <1>5 DEF WorkKept
  <2>1. \E k \in Generations : x = work[k].block \/ x \in ToSet(work[k].pending)
    BY <1>1, <1>3, StateFields, AddressFacts DEF Sound, WorkKept
  <2> QED
    BY <1>6, <2>1
<1>10. Sound(State', space, old)
  <2>1. State'.block = State.block /\ State'.copies = State.copies
    BY <1>5, StateFields
  <2> QED
    BY <1>1, <1>7, <1>8, <1>9, <2>1, SameBlocks DEF Sound
<1>11. Pointers(State') = Pointers(State)
  BY <1>5, StateFields, SameBlocks
<1>12. block[scanning'].owner = g
  BY <1>1, <1>6, StateFields DEF Sound, BlocksListed
<1>13. VariablesType' /\ Phases' /\ RootsValid' /\ ScansGenerations'
  BY <1>1, <1>3, <1>11, <1>12 DEF VariablesType, Phases, RootsValid, ScansGenerations
<1>14. Sound(State, space, old)'
  BY <1>3, <1>10
<1> QED
  BY <1>13, <1>14 DEF IInv

\* Whether memory ran out is known of every state.
LEMMA EvacuateAllDomain ==
    ASSUME NEW s, NEW S, NEW refs \in Seq(S)
    PROVE  DOMAIN EvacuateAll(s, refs) = DOMAIN s
<1>1. PICK f : After(s, refs, f) /\ EvacuateAll(s, refs) = f[Len(refs)]
  BY AfterExists
<1>2. ASSUME NEW r, NEW addr PROVE DOMAIN Evacuate(r, addr) = DOMAIN r
  <2>1. ASSUME NEW u, NEW g PROVE DOMAIN AllocateBlock(u, g) = DOMAIN u
    BY DEF AllocateBlock
  <2>2. ASSUME NEW u, NEW g PROVE DOMAIN Retire(u, g) = DOMAIN u
    BY DEF Retire
  <2>3. ASSUME NEW u, NEW g, NEW size PROVE DOMAIN EnsureAvailable(u, g, size) = DOMAIN u
    <3>1. DOMAIN [u EXCEPT !.failed = TRUE] = DOMAIN u
      OBVIOUS
    <3> QED
      BY <2>1, <2>2, <3>1 DEF EnsureAvailable
  <2>4. DOMAIN Copy(r, addr) = DOMAIN r
    <3> DEFINE object == ObjectAt(r.block, addr)
               g == NextGeneration(r.block[addr[1]].owner)
               ready == EnsureAvailable(r, g, 1 + Len(object.refs))
    <3>1. DOMAIN ready = DOMAIN r
      BY <2>3
    <3> DEFINE b == ready.work[g].block
               new == <<b, Len(ready.block[b].objects) + 1>>
               done == [ready EXCEPT !.block[b].objects = Append(@, object),
                                     !.block[addr[1]].objects[addr[2]].moved = new,
                                     !.work[g].count = @ + 1,
                                     !.copies = @ \cup {new}]
    <3>2. Copy(r, addr) = IF ready.failed THEN ready ELSE done
      BY Zenon DEF Copy
    <3>3. DOMAIN done = DOMAIN ready
      <4> HIDE DEF ready, b, new, object, g
      <4> QED
        OBVIOUS
    <3> HIDE DEF ready, done
    <3> QED
      BY <3>1, <3>2, <3>3
  <2> QED
    BY <2>4 DEF Evacuate
<1> DEFINE T == {n \in Nat : n <= Len(refs) => DOMAIN f[n] = DOMAIN s}
<1>3. 0 \in T
  BY <1>1 DEF After
<1>4. ASSUME NEW n \in Nat, n \in T PROVE n + 1 \in T
  <2> SUFFICES ASSUME n + 1 <= Len(refs) PROVE DOMAIN f[n + 1] = DOMAIN s
    OBVIOUS
  <2>1. f[n + 1] = Evacuate(f[n], refs[n + 1])
    BY <1>1 DEF After
  <2> QED
    BY <1>2, <1>4, <2>1
<1>5. Nat \subseteq T
  <2> HIDE DEF T
  <2> QED
    BY <1>3, <1>4, NatInductionOnSet
<1> QED
  BY <1>1, <1>5

\* The scan of an object comes after the evacuation of what it refers to.
ScansTo(m, addr) ==
    LET refs == ObjectAt(State.block, addr).refs
    IN  /\ addr \in State.copies /\ refs \in Seq(Addresses)
        /\ \A i \in DOMAIN refs : Evacuable(State, refs[i]) /\ IsEvacuated(m, refs[i])
        /\ m = EvacuateAll(State, refs) /\ ~m.failed
        /\ Sound(m, space, old) /\ Onward(State, m)
        /\ ScanOf(m, State', addr, [i \in DOMAIN refs |-> Forwarded(m, refs[i])])
        /\ Objects(State') = Objects(m)

LEMMA ScanObjectKeepsIInv ==
    ASSUME IInv, ScanObject
    PROVE  IInv' /\ \E m : \E addr : ScansTo(m, addr)
<1>1. VariablesType /\ Sound(State, space, old) /\ Phases /\ ScansGenerations /\ RootsValid
  BY DEF IInv
<1>2. /\ space \in SpacesType /\ old \in OldsType /\ State \in StateType
      /\ BlocksFit(State) /\ RefsValid(State) /\ RefsForwarded(State)
  BY <1>1 DEF VariablesType, Sound
<1>3. /\ scanning # NoBlock /\ HasUnscanned(scanning)
      /\ UNCHANGED <<space, inUse, pointer, locked, old, handle, collecting, toVisit, scanning>>
  BY Zenon DEF ScanObject, client
<1>4. scanning \in Blocks /\ block[scanning].owner \in Generations /\ collecting
  BY <1>1, <1>2, <1>3, StateFields DEF ScansGenerations, Phases, VariablesType, StateType
<1> DEFINE k == block[scanning].scanned + 1
           refs == block[scanning].objects[k].refs
           s == EvacuateAll(State, refs)
           newrefs == [i \in DOMAIN refs |-> Forwarded(s, refs[i])]
           addr == <<scanning, k>>
           q == [s EXCEPT !.block = Rescanned(s.block, scanning, k, newrefs)]
<1>5. Become(q)
  BY Zenon DEF ScanObject
<1>6. /\ addr \in Objects(State) /\ ObjectAt(State.block, addr).refs = refs
      /\ k > State.block[scanning].scanned /\ k \in DOMAIN State.block[scanning].objects
      /\ addr \notin {Null, EmptyMap} /\ addr[1] = scanning /\ addr[2] = k
  <2>1. k \in DOMAIN State.block[scanning].objects /\ k \in Nat
        /\ k > State.block[scanning].scanned
    BY <1>2, <1>3, <1>4, StateFields, StateFacts DEF HasUnscanned
  <2>2. addr \in Objects(State)
    BY <1>4, <2>1 DEF Objects
  <2> QED
    BY <1>2, <2>1, <2>2, StateFields, ObjectFacts DEF ObjectAt
<1>7. refs \in Seq(Addresses) /\ Len(refs) <= MaxRefs /\ ToSet(refs) = Targets(State, addr)
  BY <1>2, <1>6, ObjectFacts DEF Object, Targets
<1>8. \A i \in DOMAIN refs : Evacuable(State, refs[i])
  <2>1. ~Scanned(State, addr)
    BY <1>2, <1>4, <1>6, StateFacts DEF Scanned
  <2>2. ToSet(refs) \subseteq Pointers(State) /\ ToSet(refs) \cap State.copies = {}
    BY <1>2, <1>6, <1>7, <2>1 DEF RefsValid, RefsForwarded
  <2> QED
    BY <2>2 DEF Evacuable, ToSet
<1>9. ~s.failed
  <2>1. DOMAIN s = DOMAIN State
    BY <1>7, EvacuateAllDomain
  <2> HIDE DEF s, newrefs, k
  <2>2. q.failed = s.failed
    BY <2>1 DEF State
  <2> QED
    BY <1>5, <2>2 DEF Become
<1>10. /\ Sound(s, space, old) /\ Onward(State, s)
       /\ \A i \in DOMAIN refs : IsEvacuated(s, refs[i])
  <2> HIDE DEF refs
  <2> QED
    BY <1>1, <1>2, <1>7, <1>8, <1>9, EvacuateAllSound
<1> HIDE DEF s
<1>11. \A i \in DOMAIN refs : Forwarded(s, refs[i]) \in s.copies \cup {Null, EmptyMap}
  BY <1>10 DEF IsEvacuated, Forwarded
<1>12. s \in StateType
  BY <1>10 DEF Sound
<1>13. /\ newrefs \in Seq(Addresses) /\ Len(newrefs) = Len(refs)
       /\ ToSet(newrefs) \subseteq s.copies \cup {Null, EmptyMap}
  <2>1. DOMAIN refs = 1..Len(refs) /\ Len(refs) \in Nat
    BY <1>7
  <2>2. s.copies \cup {Null, EmptyMap} \subseteq Addresses
    BY <1>12, PointersType
  <2> HIDE DEF refs
  <2>3. newrefs \in [1..Len(refs) -> Addresses]
    BY <1>11, <2>1, <2>2
  <2> QED
    BY <1>11, <2>1, <2>3 DEF ToSet
<1>14. /\ addr \in Objects(s) /\ ObjectAt(s.block, addr).refs = refs
       /\ s.scanning = scanning /\ s.block[scanning].scanned = State.block[scanning].scanned
       /\ s.block[scanning].owner = State.block[scanning].owner
  <2>1. State.block[scanning].owner # NoOwner
    BY <1>4, StateFields, AddressFacts DEF Spaces
  <2> QED
    BY <1>4, <1>6, <1>10, <2>1, StateFields DEF Onward
<1> HIDE DEF newrefs, refs
<1>15. ScanOf(s, q, addr, newrefs)
  BY <1>6, <1>7, <1>12, <1>13, <1>14, RescannedScan
<1>16. Sound(q, space, old) /\ Objects(q) = Objects(s) /\ q.copies = s.copies
       /\ q \in StateType /\ q.scanning = scanning
       /\ \A x \in Blocks : q.block[x].owner = s.block[x].owner
  <2>1. addr[1] = s.scanning /\ s.block[addr[1]].owner \in Generations
        /\ addr[2] = s.block[addr[1]].scanned + 1
        /\ Len(newrefs) = Len(ObjectAt(s.block, addr).refs)
    BY <1>4, <1>6, <1>13, <1>14, StateFields
  <2> HIDE DEF q, addr
  <2>2. Sound(q, space, old) /\ Objects(q) = Objects(s)
    BY <1>2, <1>10, <1>13, <1>14, <1>15, <2>1, ScanSound
  <2> QED
    BY <1>14, <1>15, <2>2 DEF ScanOf
<1> HIDE DEF q
<1>17. State' = q
  BY <1>3, <1>5, <1>16, BecomeState
<1>18. block' = q.block /\ copies' = q.copies /\ copies \subseteq copies'
  BY <1>10, <1>16, <1>17, StateFields DEF State, Onward
<1>19. Pointers(State) \subseteq Pointers(q)
  BY <1>10, <1>16 DEF Onward, Pointers
<1>20. VariablesType' /\ ScansGenerations'
  BY <1>1, <1>3, <1>4, <1>14, <1>16, <1>18, StateFields DEF VariablesType, ScansGenerations
<1>21. Phases'
  <2>1. \A h \in Handles : IF h \in toVisit' THEN handle'[h] \notin copies'
                           ELSE handle'[h] \in copies' \cup {Null, EmptyMap}
    <3> SUFFICES ASSUME NEW h \in Handles
                 PROVE  IF h \in toVisit THEN handle[h] \notin copies'
                        ELSE handle[h] \in copies' \cup {Null, EmptyMap}
      BY <1>3
    <3>1. CASE h \in toVisit
      <4>1. Evacuable(State, handle[h])
        BY <1>1, <1>4, <3>1, StateFields DEF Phases, RootsValid, Evacuable
      <4>2. Evacuable(s, handle[h])
        BY <1>10, <4>1, EvacuableOnward
      <4> QED
        BY <1>16, <1>18, <3>1, <4>2 DEF Evacuable
    <3>2. CASE h \notin toVisit
      BY <1>1, <1>4, <1>18, <3>2 DEF Phases
    <3> QED
      BY <3>1, <3>2
  <2> QED
    BY <1>1, <1>3, <1>4, <2>1 DEF Phases
<1>22. RootsValid'
  BY <1>1, <1>3, <1>17, <1>19 DEF RootsValid
<1>23. Sound(State, space, old)'
  BY <1>3, <1>16, <1>17
<1>24. ScansTo(s, addr)
  <2>1. addr \in State.copies
    <3>1. UnscannedAreCopies(State)
      BY <1>1 DEF Sound
    <3> QED
      BY <1>4, <1>6, <3>1, StateFields DEF UnscannedAreCopies
  <2>2. ScanOf(s, State', addr, newrefs) /\ Objects(State') = Objects(s)
    BY <1>15, <1>16, <1>17
  <2>3. s = EvacuateAll(State, refs)
    BY Zenon DEF s
  <2>4. newrefs = [i \in DOMAIN refs |-> Forwarded(s, refs[i])]
    BY Zenon DEF newrefs
  <2> HIDE DEF addr
  <2> QED
    BY <1>6, <1>7, <1>8, <1>9, <1>10, <2>1, <2>2, <2>3, <2>4 DEF ScansTo
<1>25. IInv'
  BY <1>20, <1>21, <1>22, <1>23 DEF IInv
<1> QED
  BY <1>24, <1>25

LEMMA EndBlockKeepsIInv ==
    ASSUME IInv, EndBlock
    PROVE  IInv'
<1>1. VariablesType /\ Sound(State, space, old) /\ Phases /\ RootsValid
  BY DEF IInv
<1>2. /\ scanning # NoBlock /\ ~HasUnscanned(scanning) /\ scanning' = NoBlock
      /\ UNCHANGED <<space, inUse, pointer, locked, block, work, old, handle, collecting,
                     toVisit, copies>>
  BY DEF EndBlock, client
<1>3. /\ State'.block = State.block /\ State'.work = State.work
      /\ State'.copies = State.copies /\ State'.scanning = NoBlock
  BY <1>2 DEF State
<1>4. State' \in StateType
  <2>1. State' = [block |-> block, work |-> work, scanning |-> NoBlock, copies |-> copies,
                  failed |-> FALSE]
    BY <1>2 DEF State
  <2>2. /\ block \in [Blocks -> Block] /\ copies \in SUBSET (Blocks \X Nat)
        /\ work \in [Generations -> Workspace]
    BY <1>1, StateFields DEF Sound, StateType
  <2> QED
    BY <2>1, <2>2 DEF StateType
<1>5. BlocksListed(State', space, old)
  BY <1>1, <1>3, FewerPending DEF Sound
<1>6. WorkKept(State')
  BY <1>1, <1>2, <1>3, StateFields DEF Sound, WorkKept, HasUnscanned
<1>7. Sound(State', space, old)
  BY <1>1, <1>3, <1>4, <1>5, <1>6, SameBlocks DEF Sound
<1>8. Pointers(State') = Pointers(State)
  BY <1>3, SameBlocks
<1>9. VariablesType' /\ Phases' /\ RootsValid' /\ ScansGenerations'
  BY <1>1, <1>2, <1>8 DEF VariablesType, Phases, RootsValid, ScansGenerations
<1>10. Sound(State, space, old)'
  BY <1>2, <1>7
<1> QED
  BY <1>9, <1>10 DEF IInv

-----------------------------------------------------------------------------
(* What is reachable, and forgetting the rest *)

\* The addresses that one more reference leads to.
Onwards(addrs) == UNION {{addr} \cup RefsAt(addr) : addr \in addrs}

\* The function that ReachableFrom defines by recursion.
Levels(roots, f) ==
    \A n \in 0..NameCount : f[n] = IF n = 0 THEN roots ELSE Onwards(f[n - 1])

LEMMA LevelsExist ==
    ASSUME NEW roots
    PROVE  \E f : Levels(roots, f) /\ ReachableFrom(roots) = f[NameCount] \ {Null, EmptyMap}
<1> DEFINE Exists(m) ==
             \E f : f = [n \in 0..m |-> IF n = 0 THEN roots ELSE Onwards(f[n - 1])]
<1>1. Exists(0)
  <2>1. [n \in 0..0 |-> roots]
          = [n \in 0..0 |-> IF n = 0 THEN roots ELSE Onwards([k \in 0..0 |-> roots][n - 1])]
    OBVIOUS
  <2> QED
    BY <2>1
<1>2. ASSUME NEW m \in Nat, Exists(m) PROVE Exists(m + 1)
  <2>1. PICK f : f = [n \in 0..m |-> IF n = 0 THEN roots ELSE Onwards(f[n - 1])]
    BY <1>2
  <2> DEFINE g == [n \in 0..m + 1 |-> IF n = m + 1 THEN Onwards(f[m]) ELSE f[n]]
  <2>2. \A n \in 0..m + 1 : g[n] = IF n = 0 THEN roots ELSE Onwards(g[n - 1])
    <3> SUFFICES ASSUME NEW n \in 0..m + 1
                 PROVE  g[n] = IF n = 0 THEN roots ELSE Onwards(g[n - 1])
      OBVIOUS
    <3>1. CASE n = m + 1
      <4>1. g[n] = Onwards(f[m]) /\ g[m] = f[m] /\ n - 1 = m /\ n # 0
        BY <3>1
      <4> HIDE DEF g
      <4> QED
        BY <3>1, <4>1
    <3>2. CASE n # m + 1
      <4>1. n \in 0..m /\ g[n] = f[n] /\ (n # 0 => n - 1 \in 0..m /\ g[n - 1] = f[n - 1])
        BY <3>2
      <4>2. f[n] = IF n = 0 THEN roots ELSE Onwards(f[n - 1])
        <5> DEFINE body == [k \in 0..m |-> IF k = 0 THEN roots ELSE Onwards(f[k - 1])]
        <5>1. f[n] = body[n]
          BY <2>1
        <5> QED
          BY <4>1, <5>1
      <4> HIDE DEF g
      <4> QED
        BY <4>1, <4>2
    <3> QED
      BY <3>1, <3>2
  <2>3. g = [n \in 0..m + 1 |-> IF n = 0 THEN roots ELSE Onwards(g[n - 1])]
    BY <2>2
  <2> QED
    BY <2>3
<1>3. Nat \subseteq {m \in Nat : Exists(m)}
  <2> HIDE DEF Exists
  <2>1. 0 \in {m \in Nat : Exists(m)}
    BY <1>1
  <2>2. \A n \in Nat : n \in {m \in Nat : Exists(m)} => n + 1 \in {m \in Nat : Exists(m)}
    BY <1>2
  <2> QED
    BY <2>1, <2>2, NatInductionOnSet
<1>4. PICK f : f = [n \in 0..NameCount |-> IF n = 0 THEN roots ELSE Onwards(f[n - 1])]
  <2> HIDE DEF Exists
  <2>1. Exists(NameCount)
    BY <1>3, CollectionAssumption
  <2> QED
    BY <2>1 DEF Exists
<1> DEFINE F == CHOOSE h : h = [n \in 0..NameCount |->
                                 IF n = 0 THEN roots ELSE Onwards(h[n - 1])]
<1>5. F = [n \in 0..NameCount |-> IF n = 0 THEN roots ELSE Onwards(F[n - 1])]
  BY <1>4
<1>6. ReachableFrom(roots) = F[NameCount] \ {Null, EmptyMap}
  BY DEF ReachableFrom, Onwards
<1> HIDE DEF F
<1>7. Levels(roots, F)
  <2> SUFFICES ASSUME NEW n \in 0..NameCount
               PROVE  F[n] = IF n = 0 THEN roots ELSE Onwards(F[n - 1])
    BY DEF Levels
  <2> DEFINE body == [k \in 0..NameCount |-> IF k = 0 THEN roots ELSE Onwards(F[k - 1])]
  <2>1. F[n] = body[n]
    BY <1>5
  <2> QED
    BY <2>1
<1> QED
  BY <1>6, <1>7

\* A set with the roots that is closed under references has all that is
\* reachable.
LEMMA ReachableWithin ==
    ASSUME NEW roots, NEW S, roots \subseteq S, \A a \in S : RefsAt(a) \subseteq S
    PROVE  ReachableFrom(roots) \subseteq S \ {Null, EmptyMap}
<1>1. PICK F : Levels(roots, F) /\ ReachableFrom(roots) = F[NameCount] \ {Null, EmptyMap}
  BY LevelsExist
<1>2. \A n \in 0..NameCount : F[n] = IF n = 0 THEN roots ELSE Onwards(F[n - 1])
  BY <1>1 DEF Levels
<1> DEFINE T == {n \in Nat : n <= NameCount => F[n] \subseteq S}
<1>3. 0 \in T
  BY <1>2, CollectionAssumption
<1>4. ASSUME NEW n \in Nat, n \in T PROVE n + 1 \in T
  <2> SUFFICES ASSUME n + 1 <= NameCount PROVE F[n + 1] \subseteq S
    OBVIOUS
  <2>1. F[n + 1] = Onwards(F[n]) /\ F[n] \subseteq S
    BY <1>2, <1>4, CollectionAssumption
  <2> QED
    BY <2>1 DEF Onwards
<1>5. Nat \subseteq T
  <2> HIDE DEF T
  <2> QED
    BY <1>3, <1>4, NatInductionOnSet
<1>6. F[NameCount] \subseteq S
  BY <1>5, CollectionAssumption
<1> QED
  BY <1>1, <1>6

\* The sequence of a set of blocks.
LEMMA SequenceOfBlocks ==
    ASSUME NEW S \in SUBSET Blocks
    PROVE  SetToSeq(S) \in Seq(S) /\ ToSet(SetToSeq(S)) \subseteq S
<1>1. IsFiniteSet(S)
  <2>1. IsFiniteSet(1..BlockCount)
    BY CollectionAssumption, FS_Interval
  <2> QED
    BY <2>1, FS_Subset DEF Blocks
<1>2. Cardinality(S) \in Nat /\ ExistsBijection(1..Cardinality(S), S)
  BY <1>1, FS_CardinalityType
<1>3. \E f \in [1..Cardinality(S) -> S] : IsInjective(f)
  BY <1>2 DEF ExistsBijection, Bijection, Injection
<1>4. SetToSeq(S) \in [1..Cardinality(S) -> S]
  BY <1>3 DEF SetToSeq
<1> QED
  BY <1>2, <1>4 DEF ToSet

\* Forget(blocks, roots), where live is what can be reached.
Forgotten(blocks, live) ==
    [b \in Blocks |-> [blocks[b] EXCEPT
       !.objects = [k \in DOMAIN @ |-> IF <<b, k>> \in live THEN @[k] ELSE Blank(@[k])]]]

LEMMA ForgottenFacts ==
    ASSUME NEW blocks \in [Blocks -> Block], NEW live,
           NEW q, q = Forgotten(blocks, live)
    PROVE  /\ q \in [Blocks -> Block]
           /\ \A b \in Blocks :
                /\ q[b].owner = blocks[b].owner /\ q[b].scanned = blocks[b].scanned
                /\ Len(q[b].objects) = Len(blocks[b].objects)
                /\ Used(q[b].objects) = Used(blocks[b].objects)
                /\ \A k \in 1..Len(blocks[b].objects) :
                     q[b].objects[k] = IF <<b, k>> \in live THEN blocks[b].objects[k]
                                       ELSE Blank(blocks[b].objects[k])
<1>1. ASSUME NEW b \in Blocks
      PROVE  /\ q[b] \in Block
             /\ q[b].owner = blocks[b].owner /\ q[b].scanned = blocks[b].scanned
             /\ Len(q[b].objects) = Len(blocks[b].objects)
             /\ Used(q[b].objects) = Used(blocks[b].objects)
             /\ \A k \in 1..Len(blocks[b].objects) :
                  q[b].objects[k] = IF <<b, k>> \in live THEN blocks[b].objects[k]
                                    ELSE Blank(blocks[b].objects[k])
  <2> DEFINE before == blocks[b].objects
             objects == [k \in DOMAIN before |-> IF <<b, k>> \in live THEN before[k]
                                                 ELSE Blank(before[k])]
  <2>1. q[b] = [blocks[b] EXCEPT !.objects = objects] /\ blocks[b] \in Block
    BY DEF Forgotten
  <2>2. before \in Seq(Object) /\ DOMAIN before = 1..Len(before) /\ Len(before) \in Nat
    BY <2>1 DEF Block
  <2>3. \A o \in Object : Blank(o) \in Object /\ Len(Blank(o).refs) = Len(o.refs)
    <3> SUFFICES ASSUME NEW o \in Object
                 PROVE  Blank(o) \in Object /\ Len(Blank(o).refs) = Len(o.refs)
      OBVIOUS
    <3> DEFINE nulls == [i \in DOMAIN o.refs |-> Null]
    <3>1. Null \in Addresses /\ o.refs \in Seq(Addresses) /\ Len(o.refs) <= MaxRefs
      BY AddressFacts DEF Object
    <3>2. nulls \in Seq(Addresses) /\ Len(nulls) = Len(o.refs)
      BY <3>1
    <3>3. Blank(o) = [name |-> 0, refs |-> nulls, moved |-> Null]
      BY DEF Blank
    <3> HIDE DEF nulls
    <3> QED
      BY <3>1, <3>2, <3>3 DEF Object
  <2>4. \A k \in 1..Len(before) :
          /\ objects[k] = IF <<b, k>> \in live THEN before[k] ELSE Blank(before[k])
          /\ objects[k] \in Object /\ Len(objects[k].refs) = Len(before[k].refs)
    BY <2>2, <2>3
  <2>5. objects \in Seq(Object) /\ Len(objects) = Len(before)
    <3>1. DOMAIN objects = 1..Len(before)
      BY <2>2
    <3>2. objects = [k \in DOMAIN objects |-> objects[k]]
      OBVIOUS
    <3> HIDE DEF objects
    <3>3. objects \in [1..Len(before) -> Object]
      BY <2>4, <3>1, <3>2
    <3> QED
      BY <2>2, <3>3
  <2>6. /\ q[b] \in Block /\ q[b].objects = objects
        /\ q[b].owner = blocks[b].owner /\ q[b].scanned = blocks[b].scanned
    <3> HIDE DEF objects
    <3> QED
      BY <2>1, <2>5 DEF Block
  <2>7. Used(objects) = Used(before)
    <3> HIDE DEF objects
    <3> QED
      BY <2>2, <2>4, <2>5, UsedOfSameSizes
  <2> QED
    BY <2>4, <2>5, <2>6, <2>7
<1>2. q \in [Blocks -> Block]
  <2>1. \A b \in Blocks : Forgotten(blocks, live)[b] \in Block
    BY <1>1
  <2> QED
    BY <2>1 DEF Forgotten
<1> QED
  BY <1>1, <1>2

\* Blocks are given back, and what is not live is forgotten.
Settles(s, q, gone, live) ==
    /\ q.copies = {}
    /\ \A b \in Blocks :
         IF b \in gone THEN q.block[b] = EmptyBlock(NoOwner)
         ELSE /\ q.block[b].owner = s.block[b].owner /\ q.block[b].scanned = s.block[b].scanned
              /\ Len(q.block[b].objects) = Len(s.block[b].objects)
              /\ Used(q.block[b].objects) = Used(s.block[b].objects)
              /\ \A k \in 1..Len(s.block[b].objects) :
                   q.block[b].objects[k] = IF <<b, k>> \in live THEN s.block[b].objects[k]
                                           ELSE Blank(s.block[b].objects[k])

\* That is sound if no copies are left, every copy was scanned, and what is live
\* refers to what is kept.
LEMMA SettledSound ==
    ASSUME NEW s \in StateType, NEW q \in StateType, NEW gone, NEW live,
           BlocksFit(s), Settles(s, q, gone, live),
           \A b \in Blocks : s.block[b].owner \in Generations =>
             s.block[b].scanned = Len(s.block[b].objects),
           \A a \in Objects(s) : a \in live =>
             /\ ObjectAt(s.block, a).moved = Null
             /\ Targets(s, a) \subseteq {x \in Objects(s) : x[1] \notin gone} \cup {Null, EmptyMap}
    PROVE  /\ Objects(q) = {x \in Objects(s) : x[1] \notin gone}
           /\ BlocksFit(q) /\ WorkKept(q) /\ RefsValid(q) /\ MovedToCopies(q)
           /\ \A olds : CopiesKept(q, olds)
           /\ RefsForwarded(q) /\ UnscannedAreCopies(q)
<1>1. q.copies = {}
  BY DEF Settles
<1>2. \A b \in Blocks : b \in gone => q.block[b] = EmptyBlock(NoOwner)
  BY DEF Settles
<1>3. \A b \in Blocks : b \notin gone =>
        /\ q.block[b].owner = s.block[b].owner /\ q.block[b].scanned = s.block[b].scanned
        /\ Len(q.block[b].objects) = Len(s.block[b].objects)
        /\ Used(q.block[b].objects) = Used(s.block[b].objects)
        /\ \A k \in 1..Len(s.block[b].objects) :
             q.block[b].objects[k] = IF <<b, k>> \in live THEN s.block[b].objects[k]
                                     ELSE Blank(s.block[b].objects[k])
  BY DEF Settles
<1>4. \A b \in Blocks :
        /\ DOMAIN q.block[b].objects = 1..Len(q.block[b].objects)
        /\ DOMAIN s.block[b].objects = 1..Len(s.block[b].objects)
        /\ Len(s.block[b].objects) \in Nat
        /\ q.block[b].objects \in Seq(Object) /\ s.block[b].objects \in Seq(Object)
  BY StateFacts
<1>5. Objects(q) = {x \in Objects(s) : x[1] \notin gone}
  <2>1. ASSUME NEW a \in Blocks \X Nat
        PROVE  a \in Objects(q) <=> a \in Objects(s) /\ a[1] \notin gone
    <3>1. a[1] \in Blocks
      OBVIOUS
    <3>2. CASE a[1] \in gone
      BY <1>2, <3>1, <3>2 DEF Objects, EmptyBlock
    <3>3. CASE a[1] \notin gone
      BY <1>3, <1>4, <3>1, <3>3 DEF Objects
    <3> QED
      BY <3>2, <3>3
  <2> QED
    BY <2>1 DEF Objects
<1>6. NoOwner \notin Generations
  BY AddressFacts DEF Spaces
<1>7. BlocksFit(q)
  <2> SUFFICES ASSUME NEW b \in Blocks
               PROVE  /\ q.block[b].scanned <= Len(q.block[b].objects)
                      /\ Used(q.block[b].objects) <= BlockSize
                      /\ q.block[b].owner = NoOwner => q.block[b] = EmptyBlock(NoOwner)
    BY DEF BlocksFit
  <2>1. CASE b \in gone
    BY <1>2, <2>1, UsedOfNothing, CollectionAssumption DEF EmptyBlock
  <2>2. CASE b \notin gone
    <3>1. q.block[b].scanned <= Len(q.block[b].objects)
          /\ Used(q.block[b].objects) <= BlockSize
      BY <1>3, <2>2 DEF BlocksFit
    <3>2. ASSUME q.block[b].owner = NoOwner PROVE q.block[b] = EmptyBlock(NoOwner)
      <4>1. s.block[b] = EmptyBlock(NoOwner)
        BY <1>3, <2>2, <3>2 DEF BlocksFit
      <4>2. q.block[b].scanned = 0 /\ Len(q.block[b].objects) = 0
        BY <1>3, <2>2, <4>1 DEF EmptyBlock
      <4>3. q.block[b].objects = <<>>
        BY <1>4, <4>2
      <4>4. q.block[b] \in Block
        BY DEF StateType
      <4>5. q.block[b] = [owner |-> q.block[b].owner, objects |-> q.block[b].objects,
                          scanned |-> q.block[b].scanned]
        BY <4>4 DEF Block
      <4> QED
        BY <3>2, <4>2, <4>3, <4>5 DEF EmptyBlock
    <3> QED
      BY <3>1, <3>2
  <2> QED
    BY <2>1, <2>2
<1>8. ASSUME NEW b \in Blocks, q.block[b].owner \in Generations
      PROVE  q.block[b].scanned = Len(q.block[b].objects)
  <2>1. b \notin gone
    BY <1>2, <1>6, <1>8 DEF EmptyBlock
  <2> QED
    BY <1>3, <1>8, <2>1
<1>9. WorkKept(q)
  BY <1>4, <1>8 DEF WorkKept
<1>10. UnscannedAreCopies(q)
  BY <1>4, <1>8 DEF UnscannedAreCopies
<1>11. ASSUME NEW a \in Objects(q)
       PROVE  /\ ObjectAt(q.block, a).moved = Null
              /\ Targets(q, a) \subseteq Pointers(q)
  <2>1. a \in Objects(s) /\ a[1] \in Blocks /\ a[1] \notin gone /\ a = <<a[1], a[2]>>
        /\ a[2] \in 1..Len(s.block[a[1]].objects)
    BY <1>5, ObjectFacts
  <2>2. ObjectAt(q.block, a) = IF a \in live THEN ObjectAt(s.block, a)
                               ELSE Blank(ObjectAt(s.block, a))
    BY <1>3, <2>1 DEF ObjectAt
  <2>3. CASE a \in live
    <3>1. Targets(q, a) = Targets(s, a)
      BY <2>2, <2>3 DEF Targets
    <3> QED
      BY <1>5, <2>1, <2>2, <2>3, <3>1 DEF Pointers
  <2>4. CASE a \notin live
    <3> DEFINE o == ObjectAt(s.block, a)
    <3>1. ObjectAt(q.block, a) = Blank(o)
      BY <2>2, <2>4
    <3>2. Blank(o).moved = Null /\ ToSet(Blank(o).refs) \subseteq {Null}
      BY DEF Blank, ToSet
    <3> HIDE DEF o
    <3> QED
      BY <3>1, <3>2 DEF Targets, Pointers
  <2> QED
    BY <2>3, <2>4
<1>12. MovedToCopies(q) /\ RefsValid(q) /\ RefsForwarded(q)
  BY <1>1, <1>11 DEF MovedToCopies, RefsValid, RefsForwarded, Scanned
<1>13. \A olds : CopiesKept(q, olds)
  BY <1>1 DEF CopiesKept
<1> QED
  BY <1>5, <1>7, <1>9, <1>10, <1>12, <1>13

-----------------------------------------------------------------------------
(* The end of a collection, and its beginning *)

LEMMA RefsAreTargets ==
    ASSUME NEW a
    PROVE  RefsAt(a) \subseteq Targets(State, a) /\ (a \in {Null, EmptyMap} => RefsAt(a) = {})
BY StateFields DEF RefsAt, Targets

\* When there is no work left, every copy has been scanned.
LEMMA NothingUnscanned ==
    ASSUME NEW s \in StateType, BlocksFit(s), WorkKept(s), s.scanning = NoBlock,
           \A g \in Generations : /\ s.work[g].pending = <<>>
                                  /\ ~(s.block[s.work[g].block].scanned
                                         < Len(s.block[s.work[g].block].objects)),
           NEW b \in Blocks, s.block[b].owner \in Generations
    PROVE  s.block[b].scanned = Len(s.block[b].objects)
<1>1. s.block[b].scanned \in Nat /\ Len(s.block[b].objects) \in Nat
      /\ s.block[b].scanned <= Len(s.block[b].objects)
  BY StateFacts DEF BlocksFit
<1> SUFFICES ASSUME s.block[b].scanned < Len(s.block[b].objects) PROVE FALSE
  BY <1>1
<1>2. b # s.scanning
  BY AddressFacts
<1>3. PICK g \in Generations : b = s.work[g].block \/ b \in ToSet(s.work[g].pending)
  BY <1>2 DEF WorkKept
<1>4. ToSet(s.work[g].pending) = {}
  BY DEF ToSet
<1> QED
  BY <1>3, <1>4

\* What is reachable at the end of a collection was copied, and is kept.
Survives(gone, live) ==
    /\ Settles(State, State', gone, live)
    /\ live \subseteq copies
    /\ Objects(State)' = {x \in Objects(State) : x[1] \notin gone}
    /\ \A c \in copies : c[1] \notin gone /\ Targets(State, c) \subseteq copies \cup {Null, EmptyMap}

LEMMA FinishKeepsIInv ==
    ASSUME IInv, Finish
    PROVE  IInv' /\ \E gone : Survives(gone, ReachableFrom(Roots))
<1>1. VariablesType /\ Sound(State, space, old) /\ Phases /\ ScansGenerations /\ RootsValid
  BY DEF IInv
<1>2. /\ space \in SpacesType /\ old \in OldsType /\ State \in StateType
      /\ BlocksFit(State) /\ BlocksListed(State, space, old) /\ WorkKept(State)
      /\ CopiesKept(State, old) /\ RefsForwarded(State)
  BY <1>1 DEF VariablesType, Sound
<1> DEFINE nurseries == UNION {ToSet(space[t].blocks) : t \in Threads}
           gone == UNION ({ToSet(old[g]) : g \in Generations}
                          \cup {ToSet(space[t].blocks) : t \in Threads})
           live == ReachableFrom(Roots)
           S == copies \cup {Null, EmptyMap}
<1>3. /\ collecting /\ toVisit = {} /\ scanning = NoBlock /\ collecting' = FALSE
      /\ \A g \in Generations : ~HasWork(g)
      /\ copies' = {} /\ old' = [g \in Generations |-> <<>>]
      /\ UNCHANGED <<handle, inUse, pointer, locked, toVisit, scanning>>
  BY Zenon DEF Finish
<1>4. block' = Deallocate(Forgotten(block, live), gone)
  BY Zenon DEF Finish, Forget, Forgotten
<1>5. /\ work' = [g \in Generations |-> [work[g] EXCEPT !.completed = {}, !.count = 0]]
      /\ space' = [s \in DOMAIN space |->
                     IF s \in Generations
                       THEN [blocks |-> space[s].blocks \o SetToSeq(work[s].completed),
                             count |-> space[s].count + work[s].count]
                       ELSE [blocks |-> <<>>, count |-> 0]]
  BY Zenon DEF Finish
<1> HIDE DEF gone, live
<1>6. ASSUME NEW b \in Blocks, block[b].owner \in Generations
      PROVE  block[b].scanned = Len(block[b].objects)
  <2>1. \A g \in Generations : /\ work[g].pending = <<>>
                               /\ ~(block[work[g].block].scanned
                                      < Len(block[work[g].block].objects))
    BY <1>3 DEF HasWork, HasUnscanned
  <2> QED
    BY <1>2, <1>3, <1>6, <2>1, StateFields, NothingUnscanned
<1>7. ASSUME NEW c \in copies
      PROVE  /\ c \in Objects(State) /\ c[1] \in Blocks /\ block[c[1]].owner \in Generations
             /\ ObjectAt(block, c).moved = Null /\ c[1] \notin gone
             /\ Targets(State, c) \subseteq S
  <2>1. /\ c \in Objects(State) /\ block[c[1]].owner \in Generations
        /\ ObjectAt(block, c).moved = Null
        /\ \A g \in Generations : c[1] \notin ToSet(old[g])
    BY <1>2, <1>7, StateFields DEF CopiesKept
  <2>2. c[1] \in Blocks /\ c[2] \in 1..Len(block[c[1]].objects)
    BY <1>2, <2>1, StateFields, ObjectFacts
  <2>3. \A t \in Threads : c[1] \notin ToSet(space[t].blocks)
    BY <1>2, <2>1, StateFields, AddressFacts DEF BlocksListed
  <2>4. Scanned(State, c)
    BY <1>6, <1>7, <2>1, <2>2, StateFields DEF Scanned
  <2>5. Targets(State, c) \subseteq S
    BY <1>2, <2>1, <2>4, StateFields DEF RefsForwarded
  <2> QED
    BY <2>1, <2>2, <2>3, <2>5 DEF gone
<1>8. live \subseteq copies
  <2>1. Roots \subseteq S
    BY <1>1, <1>3 DEF Roots, Phases
  <2>2. \A a \in S : RefsAt(a) \subseteq S
    BY <1>7, RefsAreTargets
  <2> HIDE DEF S
  <2>3. ReachableFrom(Roots) \subseteq S \ {Null, EmptyMap}
    BY <2>1, <2>2, ReachableWithin
  <2> QED
    BY <2>3 DEF live, S
<1> DEFINE half == Forgotten(block, live)
<1>9. /\ half \in [Blocks -> Block]
      /\ \A b \in Blocks :
           /\ half[b].owner = block[b].owner /\ half[b].scanned = block[b].scanned
           /\ Len(half[b].objects) = Len(block[b].objects)
           /\ Used(half[b].objects) = Used(block[b].objects)
           /\ \A k \in 1..Len(block[b].objects) :
                half[b].objects[k] = IF <<b, k>> \in live THEN block[b].objects[k]
                                     ELSE Blank(block[b].objects[k])
  <2>1. block \in [Blocks -> Block]
    BY <1>2, StateFields DEF StateType
  <2> QED
    BY <2>1, ForgottenFacts
<1> HIDE DEF half
<1>10. /\ \A b \in Blocks : block'[b] = IF b \in gone THEN EmptyBlock(NoOwner) ELSE half[b]
       /\ block' \in [Blocks -> Block]
  <2>1. EmptyBlock(NoOwner) \in Block
    BY DEF EmptyBlock, Block
  <2> QED
    BY <1>4, <1>9, <2>1 DEF Deallocate, half
<1>11. /\ work' \in [Generations -> Workspace]
       /\ \A g \in Generations : /\ work'[g].block = work[g].block
                                 /\ work'[g].pending = work[g].pending
                                 /\ work'[g].completed = {}
  <2>1. \A g \in Generations : work[g] \in Workspace
    BY <1>2, StateFields DEF StateType
  <2> DEFINE F(g) == [work[g] EXCEPT !.completed = {}, !.count = 0]
  <2>2. ASSUME NEW g \in Generations
        PROVE  /\ F(g) \in Workspace /\ F(g).block = work[g].block
               /\ F(g).pending = work[g].pending /\ F(g).completed = {}
    BY <2>1 DEF Workspace
  <2>3. work' = [g \in Generations |-> F(g)]
    BY <1>5, Zenon
  <2> HIDE DEF F
  <2> QED
    BY <2>2, <2>3
<1> DEFINE q == State'
<1>12. /\ q.block = block' /\ q.copies = {} /\ q.work = work' /\ q.scanning = NoBlock
       /\ q \in StateType
  <2>1. q = [block |-> block', work |-> work', scanning |-> NoBlock, copies |-> {},
             failed |-> FALSE]
    BY <1>3 DEF State
  <2> HIDE DEF q
  <2> QED
    BY <1>10, <1>11, <2>1 DEF StateType
<1> HIDE DEF q
<1>13. Settles(State, q, gone, live)
  BY <1>9, <1>10, <1>12, StateFields DEF Settles
<1>14. /\ Objects(q) = {x \in Objects(State) : x[1] \notin gone}
       /\ BlocksFit(q) /\ WorkKept(q) /\ RefsValid(q) /\ MovedToCopies(q)
       /\ \A olds : CopiesKept(q, olds)
       /\ RefsForwarded(q) /\ UnscannedAreCopies(q)
  <2>1. \A b \in Blocks : State.block[b].owner \in Generations =>
          State.block[b].scanned = Len(State.block[b].objects)
    BY <1>6, StateFields
  <2>2. S \subseteq {x \in Objects(State) : x[1] \notin gone} \cup {Null, EmptyMap}
    BY <1>7
  <2>3. \A a \in Objects(State) : a \in live =>
          /\ ObjectAt(State.block, a).moved = Null
          /\ Targets(State, a) \subseteq {x \in Objects(State) : x[1] \notin gone}
                                           \cup {Null, EmptyMap}
    BY <1>7, <1>8, <2>2, StateFields
  <2> QED
    BY <1>2, <1>12, <1>13, <2>1, <2>3, SettledSound
<1>15. /\ space' \in SpacesType /\ old' \in OldsType
       /\ \A t \in Threads : space'[t].blocks = <<>>
       /\ \A g \in Generations : ToSet(space'[g].blocks) \subseteq work[g].completed
                                 /\ old'[g] = <<>>
  <2> DEFINE F(s) == IF s \in Generations
                       THEN [blocks |-> space[s].blocks \o SetToSeq(work[s].completed),
                             count |-> space[s].count + work[s].count]
                       ELSE [blocks |-> <<>>, count |-> 0]
  <2>1. DOMAIN space = Spaces /\ \A s \in Spaces : space[s].count \in Nat
    BY <1>2 DEF SpacesType
  <2>2. space' = [s \in Spaces |-> F(s)]
    BY <1>5, <2>1, Zenon
  <2>3. ASSUME NEW g \in Generations
        PROVE  /\ F(g) \in [blocks : Seq(Blocks), count : Nat]
               /\ ToSet(F(g).blocks) \subseteq work[g].completed
    <3>1. work[g].completed \subseteq Blocks /\ work[g].count \in Nat
      BY <1>2, StateFields, StateFacts
    <3>2. /\ SetToSeq(work[g].completed) \in Seq(work[g].completed)
          /\ ToSet(SetToSeq(work[g].completed)) \subseteq work[g].completed
      BY <3>1, SequenceOfBlocks
    <3>3. space[g].blocks = <<>> /\ space[g].count \in Nat
      BY <1>1, <1>3, <2>1 DEF Phases, Spaces
    <3> DEFINE list == SetToSeq(work[g].completed)
    <3>4. F(g) = [blocks |-> <<>> \o list, count |-> space[g].count + work[g].count]
      BY <3>3
    <3> HIDE DEF list, F
    <3>5. list \in Seq(Blocks) /\ <<>> \o list = list
      BY <3>1, <3>2 DEF list
    <3> QED
      BY <3>1, <3>2, <3>3, <3>4, <3>5 DEF list
  <2>4. \A t \in Threads : F(t) = [blocks |-> <<>>, count |-> 0]
    BY AddressFacts
  <2> HIDE DEF F
  <2>5. \A t \in Threads : /\ F(t) \in [blocks : Seq(Blocks), count : Nat]
                           /\ F(t).blocks = <<>>
    <3>1. <<>> \in Seq(Blocks) /\ 0 \in Nat
      OBVIOUS
    <3>2. ASSUME NEW x, x = [blocks |-> <<>>, count |-> 0]
          PROVE  x \in [blocks : Seq(Blocks), count : Nat] /\ x.blocks = <<>>
      BY <3>1, <3>2
    <3> QED
      BY <2>4, <3>2
  <2>6. \A s \in Spaces : space'[s] = F(s)
    BY <2>2
  <2>7. \A s \in Spaces : F(s) \in [blocks : Seq(Blocks), count : Nat]
    BY <2>3, <2>5 DEF Spaces
  <2>8. space' \in SpacesType
    BY <2>2, <2>7 DEF SpacesType
  <2>9. old' \in OldsType /\ \A g \in Generations : old'[g] = <<>>
    BY <1>3 DEF OldsType
  <2> QED
    BY <2>3, <2>5, <2>6, <2>8, <2>9 DEF Spaces
<1>16. BlocksListed(q, space', old')
  <2>1. ASSUME NEW g \in Generations
        PROVE  LET alloc   == {q.work[g].block}
                   pending == ToSet(q.work[g].pending)
                   done    == q.work[g].completed
                   before  == ToSet(old'[g])
                   after   == ToSet(space'[g].blocks)
               IN  /\ \A b \in alloc \cup pending \cup done \cup before \cup after :
                        q.block[b].owner = g
                   /\ alloc \cap (pending \cup done \cup before \cup after) = {}
                   /\ pending \cap (done \cup before \cup after) = {}
                   /\ done \cap (before \cup after) = {}
                   /\ before \cap after = {}
    <3>1. q.work[g].completed = {} /\ ToSet(old'[g]) = {}
          /\ ToSet(space'[g].blocks) \subseteq work[g].completed
          /\ q.work[g].block = work[g].block /\ q.work[g].pending = work[g].pending
      BY <1>11, <1>12, <1>15 DEF ToSet
    <3> DEFINE all == {work[g].block} \cup ToSet(work[g].pending) \cup work[g].completed
    <3>2. /\ \A b \in all : block[b].owner = g
          /\ all \cap ToSet(old[g]) = {}
          /\ work[g].block \notin ToSet(work[g].pending) \cup work[g].completed
          /\ ToSet(work[g].pending) \cap work[g].completed = {}
      <4>1. BlocksListed(State, space, old)
        BY <1>2
      <4> QED
        BY <4>1, StateFields DEF BlocksListed
    <3>3. all \subseteq Blocks
      <4>1. work[g] \in Workspace
        BY <1>2, StateFields DEF StateType
      <4> QED
        BY <4>1 DEF Workspace, ToSet
    <3>4. ASSUME NEW b \in all PROVE b \notin gone
      <4>1. block[b].owner = g /\ b \notin ToSet(old[g])
        BY <3>2
      <4> HIDE DEF all
      <4>2. \A k \in Generations : b \in ToSet(old[k]) => block[b].owner = k
        BY <1>2, StateFields DEF BlocksListed
      <4>3. \A t \in Threads : b \in ToSet(space[t].blocks) => block[b].owner = t
        BY <1>2, StateFields DEF BlocksListed
      <4> QED
        BY <4>1, <4>2, <4>3, AddressFacts DEF gone
    <3>5. \A b \in all : q.block[b].owner = g
      BY <1>9, <1>10, <1>12, <3>2, <3>3, <3>4
    <3> QED
      BY <3>1, <3>2, <3>5
  <2>2. \A t \in Threads : \A b \in ToSet(space'[t].blocks) : q.block[b].owner = t
    BY <1>15 DEF ToSet
  <2> QED
    BY <2>1, <2>2 DEF BlocksListed
<1>17. Sound(q, space', old')
  BY <1>12, <1>14, <1>16 DEF Sound
<1>18. S \subseteq Pointers(q)
  BY <1>7, <1>14 DEF Pointers
<1>19. RootsValid'
  BY <1>1, <1>3, <1>18 DEF RootsValid, Phases, q
<1>20. VariablesType' /\ ScansGenerations'
  BY <1>1, <1>3, <1>15 DEF VariablesType, ScansGenerations
<1>21. Phases'
  BY <1>3, <1>15 DEF Phases
<1>22. Survives(gone, live)
  BY <1>7, <1>8, <1>13, <1>14 DEF Survives, q
<1>23. IInv'
  BY <1>17, <1>19, <1>20, <1>21 DEF IInv, q
<1> QED
  BY <1>22, <1>23 DEF live

\* Between collections there are no copies, and every object in a generation
\* has been scanned.
LEMMA RestFacts ==
    ASSUME IInv, ~collecting
    PROVE  /\ VariablesType /\ Sound(State, space, old) /\ RootsValid
           /\ space \in SpacesType /\ old \in OldsType /\ State \in StateType
           /\ BlocksFit(State) /\ BlocksListed(State, space, old)
           /\ copies = {} /\ scanning = NoBlock /\ toVisit = {}
           /\ \A g \in Generations : old[g] = <<>>
           /\ \A b \in Blocks : block[b].owner \in Generations =>
                block[b].scanned = Len(block[b].objects)
           /\ \A a \in Objects(State) : /\ ObjectAt(block, a).moved = Null
                                        /\ Targets(State, a) \subseteq Pointers(State)
<1>1. /\ VariablesType /\ Sound(State, space, old) /\ RootsValid
      /\ copies = {} /\ scanning = NoBlock /\ toVisit = {}
      /\ \A g \in Generations : old[g] = <<>>
  BY DEF IInv, Phases
<1>2. /\ State \in StateType /\ BlocksFit(State) /\ UnscannedAreCopies(State)
      /\ BlocksListed(State, space, old)
  BY <1>1 DEF Sound
<1>3. ASSUME NEW b \in Blocks, block[b].owner \in Generations
      PROVE  block[b].scanned = Len(block[b].objects)
  <2> DEFINE n == Len(block[b].objects)
  <2>1. /\ block[b].scanned \in Nat /\ n \in Nat /\ DOMAIN block[b].objects = 1..n
        /\ block[b].scanned <= n
    BY <1>2, StateFields, StateFacts DEF BlocksFit
  <2>2. \A k \in 1..n : ~(k > block[b].scanned)
    BY <1>1, <1>2, <1>3, <2>1, StateFields DEF UnscannedAreCopies
  <2> HIDE DEF n
  <2>3. n = 0 \/ n \in 1..n
    BY <2>1
  <2>4. block[b].scanned = n
    BY <2>1, <2>2, <2>3
  <2> QED
    BY <2>4 DEF n
<1>4. \A a \in Objects(State) : /\ ObjectAt(block, a).moved = Null
                                /\ Targets(State, a) \subseteq Pointers(State)
  BY <1>1, StateFields DEF Sound, MovedToCopies, RefsValid
<1> QED
  BY <1>1, <1>2, <1>3, <1>4 DEF VariablesType

LEMMA CollectKeepsIInv ==
    ASSUME IInv, ReadersRest, Collect
    PROVE  IInv'
<1>1. /\ ~collecting /\ collecting' = TRUE /\ \A t \in Threads : pointer[t] = Null
      /\ old' = [g \in Generations |-> space[g].blocks]
      /\ space' = [s \in DOMAIN space |->
                     IF s \in Generations THEN [blocks |-> <<>>, count |-> 0] ELSE space[s]]
      /\ toVisit' = Handles /\ copies' = {}
      /\ UNCHANGED <<block, work, handle, inUse, pointer, locked, scanning>>
  BY DEF Collect
<1>2. /\ VariablesType /\ Sound(State, space, old) /\ RootsValid
      /\ space \in SpacesType /\ State \in StateType /\ BlocksListed(State, space, old)
      /\ copies = {} /\ scanning = NoBlock
  BY <1>1, RestFacts
<1>3. State' = State
  BY <1>1, <1>2 DEF State
<1>4. /\ \A g \in Generations : space'[g].blocks = <<>> /\ old'[g] = space[g].blocks
      /\ \A t \in Threads : space'[t] = space[t]
      /\ space' \in SpacesType /\ old' \in OldsType
  <2>1. /\ DOMAIN space = Spaces
        /\ \A s \in Spaces : space[s] \in [blocks : Seq(Blocks), count : Nat]
    BY <1>2 DEF SpacesType
  <2>2. \A s \in Spaces : space[s].blocks \in Seq(Blocks)
    BY <2>1
  <2>3. [blocks |-> <<>>, count |-> 0] \in [blocks : Seq(Blocks), count : Nat]
    OBVIOUS
  <2>4. space' \in SpacesType
    BY <1>1, <2>1, <2>3 DEF SpacesType
  <2>5. old' \in OldsType /\ \A g \in Generations : old'[g] = space[g].blocks
    BY <1>1, <2>2 DEF OldsType, Spaces
  <2>6. /\ \A g \in Generations : space'[g].blocks = <<>>
        /\ \A t \in Threads : space'[t] = space[t]
    BY <1>1, <2>1, AddressFacts DEF Spaces
  <2> QED
    BY <2>4, <2>5, <2>6
<1>5. BlocksListed(State, space', old')
  <2>1. ASSUME NEW g \in Generations
        PROVE  LET alloc   == {State.work[g].block}
                   pending == ToSet(State.work[g].pending)
                   done    == State.work[g].completed
                   before  == ToSet(old'[g])
                   after   == ToSet(space'[g].blocks)
               IN  /\ \A b \in alloc \cup pending \cup done \cup before \cup after :
                        State.block[b].owner = g
                   /\ alloc \cap (pending \cup done \cup before \cup after) = {}
                   /\ pending \cap (done \cup before \cup after) = {}
                   /\ done \cap (before \cup after) = {}
                   /\ before \cap after = {}
    <3>1. ToSet(old'[g]) = ToSet(space[g].blocks) /\ ToSet(space'[g].blocks) = {}
      BY <1>4 DEF ToSet
    <3> QED
      BY <1>2, <3>1 DEF BlocksListed
  <2> QED
    BY <1>2, <1>4, <2>1 DEF BlocksListed
<1>6. CopiesKept(State, old')
  BY <1>2, StateFields DEF CopiesKept
<1>7. Sound(State, space', old')
  BY <1>2, <1>5, <1>6 DEF Sound
<1>8. VariablesType' /\ Phases' /\ ScansGenerations' /\ RootsValid'
  BY <1>1, <1>2, <1>3, <1>4 DEF VariablesType, Phases, ScansGenerations, RootsValid
<1> QED
  BY <1>3, <1>7, <1>8 DEF IInv

-----------------------------------------------------------------------------
(* The steps of clients *)

\* Nothing changes in memory, and handles and threads get pointers to objects.
LEMMA ReadingKeepsIInv ==
    ASSUME IInv, ~collecting, UNCHANGED <<block, space, collector>>,
           handle' \in [Handles -> Pointers(State)], pointer' \in [Threads -> Pointers(State)],
           inUse' \in [Threads -> Handles \cup {NoHandle}], locked' \in [Threads -> BOOLEAN]
    PROVE  IInv'
<1>1. UNCHANGED <<block, space, old, work, collecting, toVisit, scanning, copies>>
  BY DEF collector
<1>2. /\ VariablesType /\ Sound(State, space, old) /\ State \in StateType
      /\ copies = {} /\ scanning = NoBlock /\ toVisit = {}
      /\ \A g \in Generations : old[g] = <<>>
  BY RestFacts
<1>3. State' = State
  BY <1>1 DEF State
<1>4. Pointers(State) \subseteq Addresses
  BY <1>2, PointersType
<1>5. VariablesType'
  BY <1>1, <1>2, <1>4 DEF VariablesType
<1>6. Phases' /\ ScansGenerations' /\ RootsValid'
  BY <1>1, <1>2, <1>3 DEF Phases, ScansGenerations, RootsValid
<1>7. Sound(State, space, old)'
  BY <1>1, <1>2, <1>3
<1> QED
  BY <1>5, <1>6, <1>7 DEF IInv

LEMMA ClientTypes ==
    ASSUME IInv, ~collecting
    PROVE  /\ handle \in [Handles -> Pointers(State)] /\ pointer \in [Threads -> Pointers(State)]
           /\ inUse \in [Threads -> Handles \cup {NoHandle}] /\ locked \in [Threads -> BOOLEAN]
           /\ Null \in Pointers(State) /\ EmptyMap \in Pointers(State)
BY RestFacts DEF VariablesType, RootsValid, Pointers

LEMMA NewMapKeepsIInv ==
    ASSUME IInv, NEW h \in Handles, NewMap(h)
    PROVE  IInv'
<1>1. ~collecting /\ UNCHANGED <<block, space, collector, inUse, pointer, locked>>
      /\ handle' = [handle EXCEPT ![h] = EmptyMap]
  BY DEF NewMap, MayRun
<1>2. handle' \in [Handles -> Pointers(State)]
  BY <1>1, ClientTypes
<1> QED
  BY <1>1, <1>2, ClientTypes, ReadingKeepsIInv

LEMMA ReadersKeepIInv ==
    ASSUME IInv, NEW t \in Threads,
           Lock(t) \/ Leave(t) \/ \E h \in Handles : Read(t, h) \/ AddNothing(t, h)
    PROVE  IInv'
<1>1. ~collecting /\ UNCHANGED <<block, space, collector>>
  BY DEF Read, Lock, AddNothing, Leave, MayRun
<1>2. /\ handle \in [Handles -> Pointers(State)] /\ pointer \in [Threads -> Pointers(State)]
      /\ inUse \in [Threads -> Handles \cup {NoHandle}] /\ locked \in [Threads -> BOOLEAN]
      /\ Null \in Pointers(State)
  BY <1>1, ClientTypes
<1>3. ASSUME NEW h \in Handles, Read(t, h)
      PROVE  IInv'
  <2>1. /\ pointer' \in [Threads -> Pointers(State)]
        /\ inUse' \in [Threads -> Handles \cup {NoHandle}] /\ UNCHANGED <<handle, locked>>
    BY <1>2, <1>3 DEF Read
  <2> QED
    BY <1>1, <1>2, <2>1, ReadingKeepsIInv
<1>4. CASE Lock(t)
  <2>1. locked' \in [Threads -> BOOLEAN] /\ UNCHANGED <<handle, inUse, pointer>>
    BY <1>2, <1>4 DEF Lock
  <2> QED
    BY <1>1, <1>2, <2>1, ReadingKeepsIInv
<1>5. ASSUME Leave(t) \/ \E h \in Handles : AddNothing(t, h)
      PROVE  IInv'
  <2>1. Unlock(t)
    BY <1>5 DEF AddNothing, Leave
  <2>2. /\ pointer' \in [Threads -> Pointers(State)] /\ locked' \in [Threads -> BOOLEAN]
        /\ inUse' \in [Threads -> Handles \cup {NoHandle}]
    BY <1>2, <2>1 DEF Unlock
  <2>3. handle' \in [Handles -> Pointers(State)]
    BY <1>2, <1>5 DEF AddNothing, Leave
  <2> QED
    BY <1>1, <1>2, <2>2, <2>3, ReadingKeepsIInv
<1> QED
  BY <1>3, <1>4, <1>5

LEMMA ReleaseHandleKeepsIInv ==
    ASSUME IInv, NEW h \in Handles, ReleaseHandle(h)
    PROVE  /\ IInv' /\ Objects(State)' = Objects(State)
           /\ Settles(State, State', {}, ReachableFrom(Roots'))
<1> DEFINE live == ReachableFrom(Roots')
           half == Forgotten(block, live)
<1>1. /\ ~collecting /\ handle' = [handle EXCEPT ![h] = Null]
      /\ UNCHANGED <<space, old, work, inUse, pointer, locked, collecting, toVisit,
                     scanning, copies>>
  BY DEF ReleaseHandle, MayRun, collector
<1>2. block' = half
  BY Zenon DEF ReleaseHandle, Forget, Forgotten
<1>3. /\ VariablesType /\ RootsValid
      /\ space \in SpacesType /\ old \in OldsType /\ State \in StateType
      /\ BlocksFit(State) /\ BlocksListed(State, space, old)
      /\ copies = {} /\ scanning = NoBlock /\ toVisit = {}
      /\ \A g \in Generations : old[g] = <<>>
      /\ \A b \in Blocks : block[b].owner \in Generations =>
           block[b].scanned = Len(block[b].objects)
      /\ \A a \in Objects(State) : /\ ObjectAt(block, a).moved = Null
                                   /\ Targets(State, a) \subseteq Pointers(State)
  BY <1>1, RestFacts
<1> HIDE DEF live
<1>4. /\ half \in [Blocks -> Block]
      /\ \A b \in Blocks :
           /\ half[b].owner = block[b].owner /\ half[b].scanned = block[b].scanned
           /\ Len(half[b].objects) = Len(block[b].objects)
           /\ Used(half[b].objects) = Used(block[b].objects)
           /\ \A k \in 1..Len(block[b].objects) :
                half[b].objects[k] = IF <<b, k>> \in live THEN block[b].objects[k]
                                     ELSE Blank(block[b].objects[k])
  <2>1. block \in [Blocks -> Block]
    BY <1>3, StateFields DEF StateType
  <2> QED
    BY <2>1, ForgottenFacts
<1> HIDE DEF half
<1> DEFINE q == State'
<1>5. /\ q.block = half /\ q.copies = {} /\ q.work = work /\ q.scanning = NoBlock
      /\ q \in StateType
  <2>1. q = [block |-> half, work |-> work, scanning |-> NoBlock, copies |-> {},
             failed |-> FALSE]
    BY <1>1, <1>2, <1>3 DEF State
  <2>2. work \in [Generations -> Workspace]
    BY <1>3, StateFields DEF StateType
  <2> HIDE DEF q
  <2> QED
    BY <1>4, <2>1, <2>2 DEF StateType
<1> HIDE DEF q
<1>6. Settles(State, q, {}, live)
  BY <1>4, <1>5, StateFields DEF Settles
<1>7. /\ Objects(q) = {x \in Objects(State) : x[1] \notin {}}
      /\ BlocksFit(q) /\ WorkKept(q) /\ RefsValid(q) /\ MovedToCopies(q)
      /\ \A olds : CopiesKept(q, olds)
      /\ RefsForwarded(q) /\ UnscannedAreCopies(q)
  <2>1. \A b \in Blocks : State.block[b].owner \in Generations =>
          State.block[b].scanned = Len(State.block[b].objects)
    BY <1>3, StateFields
  <2>2. {x \in Objects(State) : x[1] \notin {}} \cup {Null, EmptyMap} = Pointers(State)
    BY DEF Pointers
  <2>3. \A a \in Objects(State) : a \in live =>
          /\ ObjectAt(State.block, a).moved = Null
          /\ Targets(State, a) \subseteq {x \in Objects(State) : x[1] \notin {}}
                                           \cup {Null, EmptyMap}
    BY <1>3, <2>2, StateFields
  <2> QED
    BY <1>3, <1>5, <1>6, <2>1, <2>3, SettledSound
<1>8. BlocksListed(q, space, old)
  <2>1. ListsSame(State, q)
    BY <1>5, StateFields DEF ListsSame
  <2>2. \A x \in Blocks : q.block[x].owner = State.block[x].owner
    BY <1>4, <1>5, StateFields
  <2> QED
    BY <1>3, <2>1, <2>2, SameLists
<1>9. Sound(q, space, old)
  BY <1>5, <1>7, <1>8 DEF Sound
<1>10. Pointers(q) = Pointers(State) /\ Null \in Pointers(q)
  BY <1>7 DEF Pointers
<1>11. RootsValid'
  <2>1. \A k \in Handles : handle'[k] \in Pointers(q)
    BY <1>1, <1>3, <1>10 DEF RootsValid, VariablesType
  <2>2. \A t \in Threads : pointer'[t] \in Pointers(q)
    BY <1>1, <1>3, <1>10 DEF RootsValid
  <2> QED
    BY <2>1, <2>2 DEF RootsValid, q
<1>12. VariablesType'
  BY <1>1, <1>3, AddressFacts DEF VariablesType
<1>13. Phases' /\ ScansGenerations'
  BY <1>1, <1>3 DEF Phases, ScansGenerations
<1>14. Sound(State, space, old)'
  BY <1>1, <1>9 DEF q
<1>15. IInv'
  BY <1>11, <1>12, <1>13, <1>14 DEF IInv
<1>16. Objects(State)' = Objects(State) /\ Settles(State, State', {}, live)
  BY <1>6, <1>7 DEF q
<1> QED
  BY <1>15, <1>16 DEF live

\* One more object in the block of a nursery, which may be new.
Constructed(s, q, t, b, objects, object) ==
    /\ q \in StateType /\ q.work = s.work /\ q.scanning = s.scanning /\ q.copies = {}
    /\ \A x \in Blocks : x # b => q.block[x] = s.block[x]
    /\ q.block[b].owner = t /\ q.block[b].objects = Append(objects, object)
    /\ objects = s.block[b].objects /\ object \in Object
    /\ s.block[b].owner \in {t, NoOwner} /\ q.block[b].scanned = s.block[b].scanned
    /\ Used(objects) + 1 + Len(object.refs) <= BlockSize

LEMMA ConstructedSound ==
    ASSUME NEW s \in StateType, NEW t \in Threads, NEW b \in Blocks, NEW objects, NEW object,
           NEW q, Constructed(s, q, t, b, objects, object),
           BlocksFit(s), WorkKept(s), s.copies = {}, UnscannedAreCopies(s),
           \A a \in Objects(s) : /\ ObjectAt(s.block, a).moved = Null
                                 /\ Targets(s, a) \subseteq Pointers(s),
           object.moved = Null, ToSet(object.refs) \subseteq Pointers(s)
    PROVE  /\ Objects(q) = Objects(s) \cup {<<b, Len(objects) + 1>>}
           /\ <<b, Len(objects) + 1>> \notin Objects(s)
           /\ ObjectAt(q.block, <<b, Len(objects) + 1>>) = object
           /\ \A a \in Objects(s) : ObjectAt(q.block, a) = ObjectAt(s.block, a)
           /\ BlocksFit(q) /\ WorkKept(q) /\ RefsValid(q) /\ MovedToCopies(q)
           /\ \A olds : CopiesKept(q, olds)
           /\ RefsForwarded(q) /\ UnscannedAreCopies(q)
<1> DEFINE n == Len(objects)
           new == <<b, n + 1>>
<1>1. /\ q \in StateType /\ q.work = s.work /\ q.scanning = s.scanning /\ q.copies = {}
      /\ \A x \in Blocks : x # b => q.block[x] = s.block[x]
      /\ q.block[b].owner = t /\ q.block[b].objects = Append(objects, object)
      /\ objects = s.block[b].objects /\ object \in Object
      /\ s.block[b].owner \in {t, NoOwner} /\ q.block[b].scanned = s.block[b].scanned
      /\ Used(objects) + 1 + Len(object.refs) <= BlockSize
  BY DEF Constructed
<1>2. /\ objects \in Seq(Object) /\ n \in Nat /\ DOMAIN s.block[b].objects = 1..n
      /\ s.block[b].scanned \in Nat
  BY <1>1, StateFacts
<1>3. /\ Len(q.block[b].objects) = n + 1 /\ DOMAIN q.block[b].objects = 1..n + 1
      /\ q.block[b].objects[n + 1] = object
      /\ \A k \in 1..n : q.block[b].objects[k] = s.block[b].objects[k]
  <2> DEFINE longer == Append(objects, object)
  <2>1. /\ Len(longer) = n + 1 /\ DOMAIN longer = 1..n + 1 /\ longer[n + 1] = object
        /\ \A k \in 1..n : longer[k] = objects[k]
    BY <1>1, <1>2
  <2> HIDE DEF longer
  <2>2. q.block[b].objects = longer
    BY <1>1 DEF longer
  <2> QED
    BY <1>1, <2>1, <2>2
<1>4. t \notin Generations /\ t # NoOwner
  BY AddressFacts DEF Spaces
<1>5. Objects(q) = Objects(s) \cup {new}
  <2>1. ASSUME NEW a \in Blocks \X Nat
        PROVE  a \in Objects(q) <=> a \in Objects(s) \/ a = new
    <3>1. a[1] \in Blocks /\ a[2] \in Nat /\ a = <<a[1], a[2]>>
      OBVIOUS
    <3>2. CASE a[1] = b
      <4>1. a \in Objects(q) <=> a[2] \in 1..n + 1
        BY <1>3, <3>2 DEF Objects
      <4>2. a \in Objects(s) <=> a[2] \in 1..n
        BY <1>2, <3>2 DEF Objects
      <4>3. a = new <=> a[2] = n + 1
        BY <3>1, <3>2
      <4> QED
        BY <1>2, <3>1, <4>1, <4>2, <4>3
    <3>3. CASE a[1] # b
      <4>1. a # new
        BY <3>3
      <4> QED
        BY <1>1, <3>1, <3>3, <4>1 DEF Objects
    <3> QED
      BY <3>2, <3>3
  <2>2. new \in Blocks \X Nat
    BY <1>2
  <2> QED
    BY <2>1, <2>2 DEF Objects
<1>6. ObjectAt(q.block, new) = object /\ new \notin Objects(s)
  <2>1. n + 1 \notin 1..n
    BY <1>2
  <2> QED
    BY <1>2, <1>3, <2>1 DEF ObjectAt, Objects
<1>7. ASSUME NEW a \in Objects(s) PROVE ObjectAt(q.block, a) = ObjectAt(s.block, a)
  <2>1. a[1] \in Blocks /\ a[2] \in 1..Len(s.block[a[1]].objects)
    BY ObjectFacts
  <2>2. CASE a[1] = b
    BY <1>1, <1>3, <2>1, <2>2 DEF ObjectAt
  <2>3. CASE a[1] # b
    BY <1>1, <2>1, <2>3 DEF ObjectAt
  <2> QED
    BY <2>2, <2>3
<1> HIDE DEF new, n
<1>8. ASSUME NEW a \in Objects(q)
      PROVE  ObjectAt(q.block, a).moved = Null /\ Targets(q, a) \subseteq Pointers(q)
  <2>1. Pointers(s) \subseteq Pointers(q)
    BY <1>5 DEF Pointers
  <2>2. CASE a = new
    BY <1>6, <2>1, <2>2 DEF Targets
  <2>3. CASE a \in Objects(s)
    BY <1>7, <2>1, <2>3 DEF Targets
  <2> QED
    BY <1>5, <2>2, <2>3
<1>9. MovedToCopies(q) /\ RefsValid(q) /\ RefsForwarded(q)
  BY <1>1, <1>8 DEF MovedToCopies, RefsValid, RefsForwarded, Scanned
<1>10. \A olds : CopiesKept(q, olds)
  BY <1>1 DEF CopiesKept
<1>11. BlocksFit(q)
  <2> SUFFICES ASSUME NEW x \in Blocks
               PROVE  /\ q.block[x].scanned <= Len(q.block[x].objects)
                      /\ Used(q.block[x].objects) <= BlockSize
                      /\ q.block[x].owner = NoOwner => q.block[x] = EmptyBlock(NoOwner)
    BY DEF BlocksFit
  <2>1. CASE x # b
    BY <1>1, <2>1 DEF BlocksFit
  <2>2. CASE x = b
    <3>1. s.block[b].scanned <= n
      BY <1>1 DEF BlocksFit, n
    <3>2. q.block[b].scanned <= n + 1
      BY <1>1, <1>2, <3>1
    <3>3. Used(q.block[b].objects) = Used(objects) + 1 + Len(object.refs)
      BY <1>1, <1>2, UsedOfAppend
    <3> QED
      BY <1>1, <1>3, <1>4, <2>2, <3>2, <3>3
  <2> QED
    BY <2>1, <2>2
<1>12. WorkKept(q)
  BY <1>1, <1>4 DEF WorkKept
<1>13. UnscannedAreCopies(q)
  <2> SUFFICES ASSUME NEW x \in Blocks, q.block[x].owner \in Generations,
                      NEW k \in DOMAIN q.block[x].objects, k > q.block[x].scanned
               PROVE  FALSE
    BY DEF UnscannedAreCopies
  <2>1. x # b
    BY <1>1, <1>4
  <2>2. q.block[x] = s.block[x]
    BY <1>1, <2>1
  <2>3. <<x, k>> \in s.copies
    BY <2>2 DEF UnscannedAreCopies
  <2> QED
    BY <2>3
<1> QED
  BY <1>5, <1>6, <1>7, <1>9, <1>10, <1>11, <1>12, <1>13 DEF new, n

LEMMA UsableIsValid ==
    ASSUME IInv, ~collecting, NEW t \in Threads
    PROVE  Usable(t) \subseteq Pointers(State)
<1>1. pointer[t] \in Pointers(State) /\ \A h \in Handles : handle[h] \in Pointers(State)
  BY RestFacts DEF RootsValid
<1>2. RefsAt(pointer[t]) \subseteq Pointers(State)
  <2>1. CASE pointer[t] \in {Null, EmptyMap}
    BY <2>1, RefsAreTargets
  <2>2. CASE pointer[t] \in Objects(State)
    <3>1. RefsAt(pointer[t]) \subseteq Targets(State, pointer[t])
      BY RefsAreTargets
    <3>2. Targets(State, pointer[t]) \subseteq Pointers(State)
      BY <2>2, RestFacts
    <3> QED
      BY <3>1, <3>2
  <2> QED
    BY <1>1, <2>1, <2>2 DEF Pointers
<1> QED
  BY <1>1, <1>2 DEF Usable

\* The block that gets an object, that block before, and the list it is in.
BlockForObject(t, size) ==
    IF HasRoom(t, size) THEN Head(space[t].blocks) ELSE FreshBlock(block)

BlockBefore(t, size) ==
    IF HasRoom(t, size) THEN block[BlockForObject(t, size)] ELSE EmptyBlock(t)

NurseryAfter(t, size) ==
    IF HasRoom(t, size) THEN space[t].blocks ELSE <<BlockForObject(t, size)>> \o space[t].blocks

LEMMA RoomForObject ==
    ASSUME IInv, ~collecting, NEW t \in Threads, NEW size \in 1..BlockSize,
           HasRoom(t, size) \/ Free(block) # {},
           NEW b, b = BlockForObject(t, size), NEW before, before = BlockBefore(t, size),
           NEW list, list = NurseryAfter(t, size)
    PROVE  /\ b \in Blocks /\ before \in Block
           /\ before.owner = t /\ before.objects = block[b].objects
           /\ before.scanned = block[b].scanned /\ block[b].owner \in {t, NoOwner}
           /\ Used(before.objects) + size <= BlockSize
           /\ list \in Seq(Blocks) /\ ToSet(list) \subseteq ToSet(space[t].blocks) \cup {b}
<1>1. /\ space \in SpacesType /\ State \in StateType /\ BlocksFit(State)
      /\ BlocksListed(State, space, old) /\ block \in [Blocks -> Block]
  BY RestFacts, StateFields DEF StateType
<1>2. space[t].blocks \in Seq(Blocks)
  BY <1>1 DEF SpacesType, Spaces
<1>3. CASE HasRoom(t, size)
  <2>1. b = Head(space[t].blocks) /\ before = block[b] /\ list = space[t].blocks
        /\ space[t].blocks # <<>> /\ Available(block[b]) >= size
    BY <1>3 DEF HasRoom, BlockForObject, BlockBefore, NurseryAfter
  <2>2. b \in Blocks /\ b \in ToSet(space[t].blocks)
    BY <1>2, <2>1 DEF ToSet
  <2>3. block[b].owner = t
    BY <1>1, <2>2, StateFields DEF BlocksListed
  <2>4. block[b] \in Block /\ block[b].objects \in Seq(Object)
    BY <1>1, <2>2 DEF Block
  <2>5. Used(block[b].objects) + size <= BlockSize
    <3>1. Used(block[b].objects) \in Int
      BY <2>4, UsedIsInt
    <3> QED
      BY <2>1, <3>1, CollectionAssumption DEF Available
  <2> QED
    BY <1>2, <2>1, <2>2, <2>3, <2>4, <2>5
<1>4. CASE ~HasRoom(t, size)
  <2>1. b \in Free(block)
    BY <1>4, FreshBlockIsFree DEF BlockForObject
  <2>2. b \in Blocks /\ block[b].owner = NoOwner
    BY <2>1 DEF Free
  <2>3. block[b] = EmptyBlock(NoOwner)
    BY <1>1, <2>2, StateFields DEF BlocksFit
  <2>4. before = EmptyBlock(t) /\ before \in Block
    BY <1>4 DEF BlockBefore, EmptyBlock, Block, Spaces
  <2>5. before.owner = t /\ before.objects = <<>> /\ before.scanned = 0
        /\ block[b].objects = <<>> /\ block[b].scanned = 0
    BY <2>3, <2>4 DEF EmptyBlock
  <2>6. Used(before.objects) + size <= BlockSize
    BY <2>5, UsedOfNothing
  <2>7. list = <<b>> \o space[t].blocks
    BY <1>4 DEF NurseryAfter
  <2>8. list \in Seq(Blocks) /\ ToSet(list) \subseteq ToSet(space[t].blocks) \cup {b}
    <3> DEFINE rest == space[t].blocks
               longer == <<b>> \o rest
    <3>1. /\ longer \in Seq(Blocks) /\ DOMAIN longer = 1..Len(rest) + 1 /\ Len(rest) \in Nat
          /\ longer[1] = b /\ \A i \in 2..Len(rest) + 1 : longer[i] = rest[i - 1]
      BY <1>2, <2>2
    <3>2. \A i \in 1..Len(rest) + 1 : i = 1 \/ (i \in 2..Len(rest) + 1 /\ i - 1 \in DOMAIN rest)
      BY <1>2, <3>1
    <3>3. list = longer
      BY <2>7
    <3> HIDE DEF longer
    <3>4. \A i \in 1..Len(rest) + 1 : longer[i] \in ToSet(rest) \cup {b}
      BY <3>1, <3>2 DEF ToSet
    <3>5. \A x \in ToSet(longer) : \E i \in 1..Len(rest) + 1 : x = longer[i]
      BY <3>1 DEF ToSet
    <3>6. ToSet(longer) \subseteq ToSet(rest) \cup {b}
      BY <3>4, <3>5
    <3> QED
      BY <3>1, <3>3, <3>6
  <2> QED
    BY <2>2, <2>4, <2>5, <2>6, <2>8
<1> QED
  BY <1>3, <1>4

\* A nursery gets a block that was free, or none.
LEMMA NurseryListed ==
    ASSUME NEW spaces \in SpacesType, NEW olds \in OldsType, NEW s \in StateType,
           BlocksListed(s, spaces, olds), NEW t \in Threads, NEW b \in Blocks,
           NEW q, q.work = s.work, \A x \in Blocks : x # b => q.block[x].owner = s.block[x].owner,
           q.block[b].owner = t, s.block[b].owner \in {t, NoOwner},
           NEW more, \A x \in Spaces : x # t => more[x].blocks = spaces[x].blocks,
           ToSet(more[t].blocks) \subseteq ToSet(spaces[t].blocks) \cup {b}
    PROVE  BlocksListed(q, more, olds)
<1>1. /\ \A u \in Threads : u \in Spaces /\ u \notin Generations /\ u # NoOwner
      /\ \A g \in Generations : g \in Spaces /\ g \notin Threads /\ g # NoOwner
  BY AddressFacts DEF Spaces
<1>2. \A u \in Threads : \A x \in ToSet(more[u].blocks) : q.block[x].owner = u
  <2> SUFFICES ASSUME NEW u \in Threads, NEW x \in ToSet(more[u].blocks)
               PROVE  q.block[x].owner = u
    OBVIOUS
  <2>1. CASE x = b /\ u = t
    BY <2>1
  <2>2. CASE x # b \/ u # t
    <3>1. x \in ToSet(spaces[u].blocks)
      BY <1>1, <2>2
    <3>2. x \in Blocks /\ s.block[x].owner = u
      BY <1>1, <3>1, ListedAreBlocks DEF BlocksListed
    <3>3. x # b \/ u = t
      BY <1>1, <3>2
    <3> QED
      BY <2>2, <3>2, <3>3
  <2> QED
    BY <2>1, <2>2
<1>3. ASSUME NEW g \in Generations
      PROVE  LET alloc   == {q.work[g].block}
                 pending == ToSet(q.work[g].pending)
                 done    == q.work[g].completed
                 before  == ToSet(olds[g])
                 after   == ToSet(more[g].blocks)
             IN  /\ \A x \in alloc \cup pending \cup done \cup before \cup after :
                      q.block[x].owner = g
                 /\ alloc \cap (pending \cup done \cup before \cup after) = {}
                 /\ pending \cap (done \cup before \cup after) = {}
                 /\ done \cap (before \cup after) = {}
                 /\ before \cap after = {}
  <2> DEFINE alloc   == {s.work[g].block}
             pending == ToSet(s.work[g].pending)
             done    == s.work[g].completed
             before  == ToSet(olds[g])
             after   == ToSet(spaces[g].blocks)
             all     == alloc \cup pending \cup done \cup before \cup after
  <2>1. q.work[g] = s.work[g] /\ more[g].blocks = spaces[g].blocks
    BY <1>1
  <2>2. /\ \A x \in all : s.block[x].owner = g
        /\ alloc \cap (pending \cup done \cup before \cup after) = {}
        /\ pending \cap (done \cup before \cup after) = {}
        /\ done \cap (before \cup after) = {}
        /\ before \cap after = {}
    BY DEF BlocksListed
  <2>3. all \subseteq Blocks
    BY <1>1, ListedAreBlocks
  <2>4. \A x \in all : x # b
    <3> HIDE DEF all
    <3> QED
      BY <1>1, <2>2
  <2>5. \A x \in all : q.block[x].owner = g
    <3> HIDE DEF all
    <3> QED
      BY <2>2, <2>3, <2>4
  <2> QED
    BY <2>1, <2>2, <2>5
<1> QED
  BY <1>2, <1>3 DEF BlocksListed

\* There is one more object, and nothing else changes in memory.
Adds(new, name, refs) ==
    /\ Objects(State)' = Objects(State) \cup {new} /\ new \notin Objects(State)
    /\ ObjectAt(block', new) = [name |-> name, refs |-> refs, moved |-> Null]
    /\ \A a \in Objects(State) : ObjectAt(block', a) = ObjectAt(block, a)
    /\ UNCHANGED <<work, copies, scanning>>

LEMMA ConstructKeepsIInv ==
    ASSUME IInv, NEW t \in Threads, NEW h \in Handles,
           NEW refs \in BoundedSeq(Usable(t), MaxRefs), Construct(t, h, refs)
    PROVE  /\ IInv'
           /\ \E new : \E name \in Names \ LiveNames :
                Adds(new, name, refs) /\ handle' = [handle EXCEPT ![h] = new]
<1> DEFINE size == 1 + Len(refs)
           b == BlockForObject(t, size)
           before == BlockBefore(t, size)
           list == NurseryAfter(t, size)
           object == [name |-> CHOOSE n \in Names \ LiveNames :
                                 \A m \in Names \ LiveNames : n <= m,
                      refs |-> refs, moved |-> Null]
           after == [before EXCEPT !.objects = Append(before.objects, object)]
           new == <<b, Len(before.objects) + 1>>
<1>1. /\ ~collecting /\ Unlock(t) /\ Names \ LiveNames # {}
      /\ HasRoom(t, size) \/ Free(block) # {}
      /\ UNCHANGED collector
  BY Zenon DEF Construct, MayRun
<1>2. block' = [block EXCEPT ![b] = after]
  BY Zenon DEF Construct, BlockForObject, BlockBefore
<1>3. space' = [space EXCEPT ![t].blocks = list, ![t].count = @ + 1]
  BY DEF Construct, BlockForObject, NurseryAfter
<1>4. handle' = [handle EXCEPT ![h] = new]
  BY DEF Construct, BlockForObject, BlockBefore
<1>5. UNCHANGED <<old, work, collecting, toVisit, scanning, copies>>
  BY <1>1 DEF collector
<1>6. /\ VariablesType /\ Sound(State, space, old) /\ RootsValid
      /\ space \in SpacesType /\ old \in OldsType /\ State \in StateType
      /\ BlocksFit(State) /\ BlocksListed(State, space, old)
      /\ copies = {} /\ scanning = NoBlock /\ toVisit = {}
      /\ \A g \in Generations : old[g] = <<>>
      /\ \A a \in Objects(State) : /\ ObjectAt(block, a).moved = Null
                                   /\ Targets(State, a) \subseteq Pointers(State)
  BY <1>1, RestFacts
<1>7. /\ refs \in Seq(Addresses) /\ Len(refs) \in 0..MaxRefs
      /\ ToSet(refs) \subseteq Pointers(State)
  <2>1. PICK m \in 0..MaxRefs : refs \in [1..m -> Usable(t)]
    BY DEF BoundedSeq, SeqOf
  <2>2. Usable(t) \subseteq Pointers(State) /\ Pointers(State) \subseteq Addresses
    BY <1>1, <1>6, UsableIsValid, PointersType
  <2>3. m \in Nat /\ refs \in [1..m -> Addresses]
    BY <2>1, <2>2, CollectionAssumption
  <2> QED
    BY <2>1, <2>2, <2>3 DEF ToSet
<1>8. /\ object \in Object /\ object.refs = refs /\ object.moved = Null
      /\ \E name \in Names \ LiveNames : object = [name |-> name, refs |-> refs, moved |-> Null]
  <2>1. Names \ LiveNames \in SUBSET Nat
    BY DEF Names
  <2>2. \E n \in Names \ LiveNames : \A m \in Names \ LiveNames : n <= m
    BY <1>1, <2>1, LeastNatural
  <2> DEFINE name == CHOOSE n \in Names \ LiveNames : \A m \in Names \ LiveNames : n <= m
  <2>3. name \in Nat /\ name \in Names \ LiveNames
    BY <2>1, <2>2
  <2>4. object = [name |-> name, refs |-> refs, moved |-> Null]
    OBVIOUS
  <2> HIDE DEF name, object
  <2> QED
    BY <1>7, <2>3, <2>4, AddressFacts, CollectionAssumption DEF Object
<1> HIDE DEF object
<1>9. size \in 1..BlockSize
  BY <1>7, CollectionAssumption
<1>10. /\ b \in Blocks /\ before \in Block
       /\ before.owner = t /\ before.objects = block[b].objects
       /\ before.scanned = block[b].scanned /\ block[b].owner \in {t, NoOwner}
       /\ Used(before.objects) + size <= BlockSize
       /\ list \in Seq(Blocks) /\ ToSet(list) \subseteq ToSet(space[t].blocks) \cup {b}
  <2>1. b = BlockForObject(t, size) /\ before = BlockBefore(t, size)
        /\ list = NurseryAfter(t, size)
    OBVIOUS
  <2> HIDE DEF size, b, before, list
  <2> QED
    BY <1>1, <1>9, <2>1, RoomForObject
<1> HIDE DEF b, before, list
<1>11. /\ after \in Block /\ after.owner = t /\ after.scanned = block[b].scanned
       /\ after.objects = Append(before.objects, object)
  <2>1. before.objects \in Seq(Object)
    BY <1>10 DEF Block
  <2>2. Append(before.objects, object) \in Seq(Object)
    BY <1>8, <2>1
  <2> QED
    BY <1>10, <2>2 DEF Block
<1> HIDE DEF after
<1>12. /\ block' \in [Blocks -> Block] /\ block'[b] = after
       /\ \A x \in Blocks : x # b => block'[x] = block[x]
  <2>1. block \in [Blocks -> Block]
    BY <1>6, StateFields DEF StateType
  <2> QED
    BY <1>2, <1>10, <1>11, <2>1
<1> DEFINE q == State'
<1>13. /\ q.block = block' /\ q.copies = {} /\ q.work = work /\ q.scanning = scanning
       /\ q \in StateType
  <2>1. q = [block |-> block', work |-> work, scanning |-> scanning, copies |-> {},
             failed |-> FALSE]
    BY <1>5, <1>6 DEF State
  <2>2. work \in [Generations -> Workspace] /\ scanning \in Blocks \cup {NoBlock}
    BY <1>6, StateFields DEF StateType
  <2> HIDE DEF q
  <2> QED
    BY <1>12, <2>1, <2>2 DEF StateType
<1> HIDE DEF q
<1>14. Constructed(State, q, t, b, before.objects, object)
  <2>1. Used(before.objects) \in Int /\ Len(refs) \in Int
    <3>1. before.objects \in Seq(Object)
      BY <1>10 DEF Block
    <3> QED
      BY <1>7, <3>1, UsedIsInt, CollectionAssumption
  <2>2. Used(before.objects) + 1 + Len(object.refs) <= BlockSize
    BY <1>8, <1>10, <2>1, CollectionAssumption
  <2> QED
    BY <1>8, <1>10, <1>11, <1>12, <1>13, <2>2, StateFields DEF Constructed
<1>15. /\ Objects(q) = Objects(State) \cup {new} /\ new \notin Objects(State)
       /\ ObjectAt(q.block, new) = object
       /\ \A a \in Objects(State) : ObjectAt(q.block, a) = ObjectAt(State.block, a)
       /\ BlocksFit(q) /\ WorkKept(q) /\ RefsValid(q) /\ MovedToCopies(q)
       /\ \A olds : CopiesKept(q, olds)
       /\ RefsForwarded(q) /\ UnscannedAreCopies(q)
  <2>1. WorkKept(State) /\ UnscannedAreCopies(State) /\ State.copies = {}
    BY <1>6, StateFields DEF Sound
  <2>2. \A a \in Objects(State) : /\ ObjectAt(State.block, a).moved = Null
                                  /\ Targets(State, a) \subseteq Pointers(State)
    BY <1>6, StateFields
  <2>3. object.moved = Null /\ ToSet(object.refs) \subseteq Pointers(State)
    BY <1>7, <1>8
  <2> DEFINE objects == before.objects
  <2>4. Constructed(State, q, t, b, objects, object)
    BY <1>14
  <2>5. new = <<b, Len(objects) + 1>>
    OBVIOUS
  <2> HIDE DEF new, objects
  <2> QED
    BY <1>6, <1>10, <2>1, <2>2, <2>3, <2>4, <2>5, ConstructedSound
<1>16. /\ space' \in SpacesType /\ space'[t].blocks = list
       /\ \A x \in Spaces : x # t => space'[x].blocks = space[x].blocks
  <2>1. space[t] \in [blocks : Seq(Blocks), count : Nat] /\ t \in Spaces
    BY <1>6 DEF SpacesType, Spaces
  <2> DEFINE entry == [blocks |-> list, count |-> space[t].count + 1]
  <2>2. entry \in [blocks : Seq(Blocks), count : Nat] /\ entry.blocks = list
    BY <1>10, <2>1
  <2>3. space' = [space EXCEPT ![t] = entry]
    <3>1. [[space[t] EXCEPT !.blocks = list] EXCEPT !.count = space[t].count + 1] = entry
      <4> DEFINE e == space[t]
      <4> DEFINE f == [e EXCEPT !.blocks = list]
      <4>1. f = [blocks |-> list, count |-> e.count]
        BY <2>1
      <4> HIDE DEF f
      <4>2. [f EXCEPT !.count = e.count + 1] = [blocks |-> list, count |-> e.count + 1]
        BY <4>1
      <4> QED
        BY <4>2, Zenon DEF f
    <3>2. space' = [space EXCEPT ![t] = [[space[t] EXCEPT !.blocks = list]
                                           EXCEPT !.count = space[t].count + 1]]
      BY <1>3, <1>6, <2>1 DEF SpacesType
    <3> QED
      BY <3>1, <3>2
  <2> HIDE DEF entry
  <2> QED
    BY <1>6, <2>1, <2>2, <2>3 DEF SpacesType
<1>17. BlocksListed(q, space', old)
  <2>1. /\ q.work = State.work /\ q.block[b].owner = t
        /\ State.block[b].owner \in {t, NoOwner}
        /\ \A x \in Blocks : x # b => q.block[x].owner = State.block[x].owner
    BY <1>10, <1>11, <1>12, <1>13, StateFields
  <2>2. /\ \A x \in Spaces : x # t => space'[x].blocks = space[x].blocks
        /\ ToSet(space'[t].blocks) \subseteq ToSet(space[t].blocks) \cup {b}
    BY <1>10, <1>16
  <2> DEFINE more == space'
  <2>3. /\ \A x \in Spaces : x # t => more[x].blocks = space[x].blocks
        /\ ToSet(more[t].blocks) \subseteq ToSet(space[t].blocks) \cup {b}
    BY <2>2
  <2> HIDE DEF more
  <2>4. BlocksListed(q, more, old)
    BY <1>6, <1>10, <2>1, <2>3, NurseryListed
  <2> QED
    BY <2>4 DEF more
<1>18. Sound(q, space', old)
  BY <1>13, <1>15, <1>17 DEF Sound
<1>19. /\ new \in Pointers(q) /\ Null \in Pointers(q) /\ Pointers(State) \subseteq Pointers(q)
       /\ Pointers(q) \subseteq Addresses
  BY <1>13, <1>15, PointersType DEF Pointers
<1> HIDE DEF new
<1>20. RootsValid' /\ VariablesType'
  <2>1. /\ pointer' = [pointer EXCEPT ![t] = Null] /\ locked' = [locked EXCEPT ![t] = FALSE]
        /\ inUse' = [inUse EXCEPT ![t] = NoHandle]
    BY <1>1 DEF Unlock
  <2>2. /\ handle' \in [Handles -> Pointers(q)] /\ pointer' \in [Threads -> Pointers(q)]
        /\ inUse' \in [Threads -> Handles \cup {NoHandle}] /\ locked' \in [Threads -> BOOLEAN]
    BY <1>4, <1>6, <1>19, <2>1 DEF VariablesType, RootsValid
  <2>3. RootsValid'
    BY <2>2 DEF RootsValid, q
  <2>4. handle' \in [Handles -> Addresses] /\ pointer' \in [Threads -> Addresses]
    BY <1>19, <2>2
  <2> QED
    BY <1>5, <1>6, <1>16, <2>2, <2>3, <2>4 DEF VariablesType
<1>21. Phases' /\ ScansGenerations'
  BY <1>1, <1>5, <1>6 DEF Phases, ScansGenerations
<1>22. Sound(State, space, old)'
  BY <1>5, <1>18 DEF q
<1>23. PICK name \in Names \ LiveNames :
         object = [name |-> name, refs |-> refs, moved |-> Null]
  BY <1>8
<1>24. Adds(new, name, refs)
  BY <1>5, <1>13, <1>15, <1>23, StateFields DEF Adds, q
<1>25. IInv'
  BY <1>20, <1>21, <1>22 DEF IInv
<1> QED
  BY <1>4, <1>24, <1>25

-----------------------------------------------------------------------------
(* The inductive invariant holds *)

LEMMA InitIInv ==
    ASSUME Init
    PROVE  IInv
<1>1. /\ space \in SpacesType /\ old \in OldsType
      /\ \A s \in Spaces : space[s].blocks = <<>>
      /\ \A g \in Generations : old[g] = <<>>
  <2>1. [blocks |-> <<>>, count |-> 0] \in [blocks : Seq(Blocks), count : Nat]
    OBVIOUS
  <2>2. /\ space = [s \in Spaces |-> [blocks |-> <<>>, count |-> 0]]
        /\ old = [g \in Generations |-> <<>>]
    BY DEF Init, Spaces
  <2> QED
    BY <2>1, <2>2 DEF SpacesType, OldsType
<1>2. /\ copies = {} /\ scanning = NoBlock /\ toVisit = {} /\ collecting = FALSE
      /\ handle = [h \in Handles |-> Null] /\ pointer = [t \in Threads |-> Null]
      /\ inUse = [t \in Threads |-> NoHandle] /\ locked = [t \in Threads |-> FALSE]
  BY DEF Init
<1>3. /\ \A g \in Generations : g + 1 \in Blocks /\ g \in Nat /\ g + 1 \in 1..GenerationCount
      /\ \A b \in 1..GenerationCount : b - 1 \in Generations
  BY CollectionAssumption DEF Blocks, Generations
<1>4. \A b \in Blocks : /\ block[b].objects = <<>> /\ block[b].scanned = 0
                        /\ block[b] = EmptyBlock(block[b].owner) /\ block[b] \in Block
                        /\ b \in 1..GenerationCount => block[b].owner = b - 1
  <2> SUFFICES ASSUME NEW b \in Blocks
               PROVE  /\ block[b].objects = <<>> /\ block[b].scanned = 0
                      /\ block[b] = EmptyBlock(block[b].owner) /\ block[b] \in Block
                      /\ b \in 1..GenerationCount => block[b].owner = b - 1
    OBVIOUS
  <2> DEFINE o == IF b \in 1..GenerationCount THEN b - 1 ELSE NoOwner
  <2>1. block[b] = EmptyBlock(o) /\ o \in Spaces \cup {NoOwner}
    BY <1>3 DEF Init, Spaces
  <2>2. b \in 1..GenerationCount => o = b - 1
    OBVIOUS
  <2> HIDE DEF o
  <2> QED
    BY <2>1, <2>2 DEF EmptyBlock, Block
<1>5. \A g \in Generations : /\ work[g] \in Workspace /\ work[g].block = g + 1
                             /\ work[g].pending = <<>> /\ work[g].completed = {}
  <2>1. \A g \in Generations : work[g] = [block |-> g + 1, pending |-> <<>>,
                                          completed |-> {}, count |-> 0]
    BY DEF Init
  <2>2. <<>> \in Seq(Blocks) /\ {} \in SUBSET Blocks /\ 0 \in Nat
    OBVIOUS
  <2> SUFFICES ASSUME NEW g \in Generations
               PROVE  /\ work[g] \in Workspace /\ work[g].block = g + 1
                      /\ work[g].pending = <<>> /\ work[g].completed = {}
    OBVIOUS
  <2>3. g + 1 \in Blocks
    BY <1>3
  <2> DEFINE b == g + 1
  <2>4. work[g] = [block |-> b, pending |-> <<>>, completed |-> {}, count |-> 0]
    BY <2>1
  <2> HIDE DEF b
  <2>5. b \in Blocks
    BY <2>3 DEF b
  <2>6. work[g] \in Workspace
    BY <2>2, <2>4, <2>5 DEF Workspace
  <2> QED
    BY <2>4, <2>6 DEF b
<1>6. State \in StateType
  <2>1. DOMAIN block = Blocks /\ block = [b \in DOMAIN block |-> block[b]]
        /\ DOMAIN work = Generations /\ work = [g \in DOMAIN work |-> work[g]]
    BY DEF Init
  <2>2. block \in [Blocks -> Block] /\ work \in [Generations -> Workspace]
    BY <1>4, <1>5, <2>1
  <2> QED
    BY <1>2, <2>2 DEF State, StateType
<1>7. Objects(State) = {}
  BY <1>4, StateFields DEF Objects
<1>8. BlocksListed(State, space, old)
  <2>1. ASSUME NEW t \in Threads, NEW b \in ToSet(space[t].blocks)
        PROVE  block[b].owner = t
    BY <1>1 DEF ToSet, Spaces
  <2>2. ASSUME NEW g \in Generations
        PROVE  /\ block[work[g].block].owner = g
               /\ ToSet(work[g].pending) = {} /\ work[g].completed = {}
               /\ ToSet(old[g]) = {} /\ ToSet(space[g].blocks) = {}
    BY <1>1, <1>3, <1>4, <1>5 DEF ToSet, Spaces
  <2> QED
    BY <2>1, <2>2, StateFields DEF BlocksListed
<1>9. BlocksFit(State)
  <2>1. 0 <= BlockSize /\ Len(<<>>) = 0
    BY CollectionAssumption
  <2> QED
    BY <1>4, <2>1, UsedOfNothing, StateFields DEF BlocksFit
<1>10. WorkKept(State) /\ UnscannedAreCopies(State)
  BY <1>4, StateFields DEF WorkKept, UnscannedAreCopies
<1>11. Sound(State, space, old)
  BY <1>2, <1>6, <1>7, <1>8, <1>9, <1>10, StateFields
     DEF Sound, RefsValid, CopiesKept, MovedToCopies, RefsForwarded
<1>12. VariablesType
  BY <1>1, <1>2, AddressFacts DEF VariablesType
<1>13. Phases /\ ScansGenerations /\ RootsValid
  BY <1>1, <1>2 DEF Phases, ScansGenerations, RootsValid, Pointers
<1> QED
  BY <1>11, <1>12, <1>13 DEF IInv

LEMMA NextKeepsIInv ==
    ASSUME ReadersRest, IInv, [Next]_vars
    PROVE  IInv'
<1>1. CASE UNCHANGED vars
  <2>1. UNCHANGED <<block, space, old, work, handle, inUse, pointer, locked, collecting,
                    toVisit, scanning, copies>>
    BY <1>1 DEF vars
  <2>2. State' = State
    BY <2>1 DEF State
  <2>3. VariablesType' /\ Phases' /\ ScansGenerations' /\ RootsValid'
    BY <2>1, <2>2 DEF IInv, VariablesType, Phases, ScansGenerations, RootsValid
  <2> QED
    BY <2>1, <2>2, <2>3 DEF IInv
<1>2. ASSUME NEW h \in Handles, NewMap(h)
      PROVE  IInv'
  BY <1>2, NewMapKeepsIInv
<1>3. ASSUME NEW t \in Threads, Lock(t) \/ Leave(t)
      PROVE  IInv'
  BY <1>3, ReadersKeepIInv
<1>4. ASSUME NEW t \in Threads, NEW h \in Handles, Read(t, h) \/ AddNothing(t, h)
      PROVE  IInv'
  BY <1>4, ReadersKeepIInv
<1>5. ASSUME NEW h \in Handles, ReleaseHandle(h)
      PROVE  IInv'
  BY <1>5, ReleaseHandleKeepsIInv
<1>6. ASSUME NEW t \in Threads, NEW h \in Handles,
             NEW refs \in BoundedSeq(Usable(t), MaxRefs), Construct(t, h, refs)
      PROVE  IInv'
  BY <1>6, ConstructKeepsIInv
<1>7. CASE Collect
  BY <1>7, CollectKeepsIInv
<1>8. CASE CollectorStep
  BY <1>8, EvacuateRootKeepsIInv, StartBlockKeepsIInv, ScanObjectKeepsIInv, EndBlockKeepsIInv,
     FinishKeepsIInv DEF CollectorStep
<1> QED
  BY <1>1, <1>2, <1>3, <1>4, <1>5, <1>6, <1>7, <1>8 DEF Next

THEOREM Invariance ==
    ASSUME ReadersRest
    PROVE  Spec => []IInv
<1>1. Init => IInv
  BY InitIInv
<1>2. IInv /\ [Next]_vars => IInv'
  BY NextKeepsIInv
<1> QED
  BY <1>1, <1>2, PTL DEF Spec

-----------------------------------------------------------------------------
(* Theorems *)

\* Every variable keeps a value of its type; in particular no block overflows
\* (GCWorkspace::ensureAvailable and Space::blockForAllocation).
THEOREM TypeCorrect ==
    ASSUME ReadersRest
    PROVE  Spec => []TypeOK
<1>1. IInv => TypeOK
  <2> SUFFICES ASSUME IInv PROVE TypeOK
    OBVIOUS
  <2>1. VariablesType /\ State \in StateType /\ BlocksFit(State)
    BY DEF IInv, Sound
  <2>2. \A b \in Blocks :
          /\ block[b].owner \in Threads \cup Generations \cup {NoOwner}
          /\ block[b].scanned \in 0..Len(block[b].objects)
          /\ Used(block[b].objects) <= BlockSize
    BY <2>1, StateFields, StateFacts DEF BlocksFit, Spaces
  <2>3. \A s \in DOMAIN space : space[s].blocks \in Seq(Blocks) /\ space[s].count \in Nat
    BY <2>1 DEF VariablesType, SpacesType
  <2>4. \A g \in Generations : old[g] \in Seq(Blocks) /\ work[g].block \in Blocks
    BY <2>1, StateFields, StateFacts DEF VariablesType, OldsType
  <2>5. scanning \in Blocks \cup {NoBlock}
    BY <2>1, StateFields DEF StateType
  <2> QED
    BY <2>1, <2>2, <2>3, <2>4, <2>5 DEF TypeOK, VariablesType
<1> QED
  BY <1>1, Invariance, PTL

\* What clients can reach is in memory that has not been given back, at all
\* times: the roots of the handles and of the threads that are reading.
THEOREM PointersStayValid ==
    ASSUME ReadersRest
    PROVE  Spec => []PointersAreValid
<1>1. IInv => PointersAreValid
  <2> SUFFICES ASSUME IInv PROVE PointersAreValid
    OBVIOUS
  <2>1. State \in StateType /\ BlocksFit(State) /\ RefsValid(State) /\ RootsValid
    BY DEF IInv, Sound
  <2>2. ASSUME NEW a \in Pointers(State) PROVE IsObject(a) /\ RefsAt(a) \subseteq Pointers(State)
    <3>1. CASE a \in {Null, EmptyMap}
      BY <3>1, RefsAreTargets DEF IsObject
    <3>2. CASE a \in Objects(State)
      <4>1. block[a[1]].owner # NoOwner
        BY <2>1, <3>2, StateFields, OwnerOfObject, AddressFacts
      <4>2. a[2] \in DOMAIN block[a[1]].objects
        BY <3>2, StateFields DEF Objects
      <4>3. RefsAt(a) \subseteq Pointers(State)
        BY <2>1, <3>2, RefsAreTargets DEF RefsValid
      <4> QED
        BY <4>1, <4>2, <4>3 DEF IsObject
    <3> QED
      BY <3>1, <3>2 DEF Pointers
  <2>3. Roots \subseteq Pointers(State)
    BY <2>1 DEF RootsValid, Roots
  <2>4. ReachableFrom(Roots) \subseteq Pointers(State)
    <3> DEFINE S == Pointers(State)
    <3>1. Roots \subseteq S /\ \A a \in S : RefsAt(a) \subseteq S
      BY <2>2, <2>3
    <3> HIDE DEF S
    <3>2. ReachableFrom(Roots) \subseteq S \ {Null, EmptyMap}
      BY <3>1, ReachableWithin
    <3> QED
      BY <3>2 DEF S
  <2> QED
    BY <2>2, <2>3, <2>4 DEF PointersAreValid
<1> QED
  BY <1>1, Invariance, PTL

\* No copy that has still to be scanned is forgotten by ensureAvailable,
\* scavengeAll or scavengeBlock.
THEOREM WorkIsKept ==
    ASSUME ReadersRest
    PROVE  Spec => []NoWorkIsLost
<1>1. IInv => NoWorkIsLost
  BY StateFields DEF IInv, Sound, WorkKept, NoWorkIsLost, HasUnscanned
<1> QED
  BY <1>1, Invariance, PTL

\* Copies are not copied again, and those that were scanned refer to copies.
THEOREM CopiesStay ==
    ASSUME ReadersRest
    PROVE  Spec => []CopiesAreFinal
<1>1. IInv => CopiesAreFinal
  <2> SUFFICES ASSUME IInv, NEW c \in copies
               PROVE  /\ ObjectAt(block, c).moved = Null
                      /\ c[2] <= block[c[1]].scanned => RefsAt(c) \subseteq copies \cup {Null, EmptyMap}
    BY DEF CopiesAreFinal
  <2>1. c \in Objects(State) /\ ObjectAt(block, c).moved = Null
    BY StateFields DEF IInv, Sound, CopiesKept
  <2>2. ASSUME c[2] <= block[c[1]].scanned
        PROVE  Targets(State, c) \subseteq copies \cup {Null, EmptyMap}
    <3>1. Scanned(State, c)
      BY <2>2, StateFields DEF Scanned
    <3> QED
      BY <2>1, <3>1, StateFields DEF IInv, Sound, RefsForwarded
  <2> QED
    BY <2>1, <2>2, RefsAreTargets
<1> QED
  BY <1>1, Invariance, PTL

\* No block is in two lists, nor in one after it was given back.
THEOREM BlocksHaveOnePlace ==
    ASSUME ReadersRest
    PROVE  Spec => []BlocksAreListedOnce
<1>1. IInv => BlocksAreListedOnce
  <2> SUFFICES ASSUME IInv, NEW b \in Blocks PROVE ~ListedTwice(b)
    BY DEF BlocksAreListedOnce
  <2>1. BlocksListed(State, space, old) /\ DOMAIN space = Spaces
    BY DEF IInv, Sound, VariablesType, SpacesType
  <2> DEFINE o == block[b].owner
             Kind(k, g) == \/ k = "old" /\ b \in ToSet(old[g])
                           \/ k = "alloc" /\ b = work[g].block
                           \/ k = "pending" /\ b \in ToSet(work[g].pending)
                           \/ k = "completed" /\ b \in work[g].completed
             Kinds == {"old", "alloc", "pending", "completed"}
             inSpaces == {<<"space", s>> : s \in {s \in DOMAIN space : b \in ToSet(space[s].blocks)}}
             inWork == UNION {{<<kind, g>> : kind \in {k \in Kinds : Kind(k, g)}} : g \in Generations}
             places == inSpaces \cup inWork
  <2>2. ASSUME NEW s \in Spaces, b \in ToSet(space[s].blocks)
        PROVE  o = s
    BY <2>1, <2>2, StateFields DEF BlocksListed, Spaces
  <2>3. ASSUME NEW g \in Generations, NEW k \in Kinds, Kind(k, g)
        PROVE  /\ o = g /\ b \notin ToSet(space[g].blocks)
               /\ \A l \in Kinds : Kind(l, g) => l = k
    <3> DEFINE alloc   == {work[g].block}
               pending == ToSet(work[g].pending)
               done    == work[g].completed
               before  == ToSet(old[g])
               after   == ToSet(space[g].blocks)
    <3>1. /\ \A x \in alloc \cup pending \cup done \cup before \cup after : block[x].owner = g
          /\ alloc \cap (pending \cup done \cup before \cup after) = {}
          /\ pending \cap (done \cup before \cup after) = {}
          /\ done \cap (before \cup after) = {}
          /\ before \cap after = {}
      BY <2>1, StateFields DEF BlocksListed
    <3> HIDE DEF pending, done, before, after
    <3> QED
      BY <2>3, <3>1 DEF pending, done, before, after
  <2>4. \A p \in inSpaces : p = <<"space", o>> /\ o \in Spaces /\ b \in ToSet(space[o].blocks)
    BY <2>1, <2>2
  <2>5. \A p \in inWork : \E k \in Kinds : /\ p = <<k, o>> /\ o \in Generations /\ Kind(k, o)
    BY <2>3
  <2>6. \A p, q \in places : p = q
    <3>1. \A p, q \in inSpaces : p = q
      BY <2>4
    <3>2. \A p, q \in inWork : p = q
      BY <2>3, <2>5
    <3>3. \A p \in inSpaces, q \in inWork : FALSE
      BY <2>3, <2>4, <2>5
    <3> QED
      BY <3>1, <3>2, <3>3
  <2>7. places # {} => o # NoOwner
    BY <2>4, <2>5, AddressFacts DEF Spaces
  <2>8. ListedTwice(b) <=> Cardinality(places) > 1 \/ (places # {} /\ o = NoOwner)
    BY Zenon DEF ListedTwice
  <2> HIDE DEF places, o
  <2>9. places = {} \/ \E p : places = {p}
    BY <2>6
  <2>10. ~(Cardinality(places) > 1)
    <3>1. CASE places = {}
      <4>1. Cardinality(places) = 0
        BY <3>1, FS_EmptySet
      <4> QED
        BY <4>1
    <3>2. ASSUME NEW p, places = {p} PROVE ~(Cardinality(places) > 1)
      <4>1. Cardinality(places) = 1
        BY <3>2, FS_Singleton
      <4> QED
        BY <4>1
    <3> QED
      BY <2>9, <3>1, <3>2
  <2> QED
    BY <2>7, <2>8, <2>10
<1> QED
  BY <1>1, Invariance, PTL

=============================================================================
