-------------------------- MODULE HandlePoolProofs --------------------------
(***************************************************************************)
(* For any threads, values, objects and size of the pool: handles count    *)
(* the values that have them and have objects while they do, and the pool  *)
(* implements SharedValues, if one thread at a time is in pop() and one in *)
(* emplace_back.                                                           *)
(***************************************************************************)
EXTENDS HandlePool, FiniteSetTheorems, TLAPS

\* What the callers of makeHandle have to see to.
Serialized == Serial = {"pop", "append"}

-----------------------------------------------------------------------------
(* The inductive invariant *)

\* Where a thread has a handle of its own.
Holding == {"fill", "construct", "retain", "push", "pushExchange"}

\* The handles that no value and no thread has: those on the stack.
Released ==
    {h \in 1..size : /\ \A v \in Values : value[v] # h
                     /\ \A t \in Threads : ~Has(t, h)}

\* Values and threads have handles of the pool, but for the thread that adds
\* the next one.
HandlesExist ==
    /\ \A v \in Values : value[v] # Null => value[v] \in 1..size
    /\ \A t \in Threads :
         /\ pc[t] \in Holding \ {"construct"} => item[t] \in 1..size
         /\ pc[t] = "construct" => size < MaxHandles /\ item[t] = size + 1

\* A handle that a thread has to itself is not another's or a value's.
HeldAlone ==
    \A t \in Threads : pc[t] \in Holding =>
      /\ \A u \in Threads \ {t} : pc[u] \in Holding => item[u] # item[t]
      /\ \A v \in Values : value[v] # item[t]

OneAtATime ==
    \A t, u \in Threads : t # u =>
      /\ {pc[t], pc[u]} \subseteq Popping => FALSE
      /\ {pc[t], pc[u]} \subseteq Appending => FALSE

\* The released handles are linked, each from at most one place.
ReleasedAreLinked ==
    /\ top \in Released \cup {Null}
    /\ \A h \in Released :
         /\ word[h] \in Released \cup {Null}
         /\ word[h] # Null =>
              word[h] # top /\ \A g \in Released \ {h} : word[g] # word[h]

\* There are no others than those one gets to from the top.
NoneIsLost == \A S \in SUBSET (1..size) : HasStack(S) => Released \subseteq S

\* Threads that have found the stack empty, and will add a handle.
Adders ==
    {t \in Threads : \/ pc[t] \in {"append", "construct"}
                     \/ pc[t] = "pop" /\ item[t] = Null}

\* The pool is within the bound with the handles that will be added.
AddedAreNeeded ==
    size + Cardinality(Adders) <= Cardinality(Values) + Cardinality(Threads) - 1

\* What the thread in pop() has read stays true, and the handle released.
PopperIsRight ==
    \A t \in Threads :
      /\ pc[t] = "pop" => item[t] \in Released \cup {Null}
      /\ pc[t] = "exchange" => item[t] \in Released /\ next[t] = word[item[t]]

\* A thread that makes a value has it to itself.
MakersHaveTargets ==
    \A t \in Threads : pc[t] \in Making =>
      /\ target[t] \in Values /\ object[t] \in Objects
      /\ value[target[t]] = Null
      /\ \A u \in Threads \ {t} : pc[u] \in Making => target[u] # target[t]

ObjectsInPlace ==
    /\ \A v \in Values : value[v] # Null => word[value[v]] \in Objects
    /\ \A t \in Threads : pc[t] = "retain" => word[item[t]] = object[t]

Inv ==
    /\ TypeOK /\ CountsMatch
    /\ HandlesExist /\ HeldAlone /\ OneAtATime
    /\ ReleasedAreLinked /\ NoneIsLost /\ PopperIsRight
    /\ AddedAreNeeded
    /\ MakersHaveTargets /\ ObjectsInPlace


LEMMA InitEstablishesInv == Init => Inv
<1> SUFFICES ASSUME Init PROVE Inv
  OBVIOUS
<1> USE HandlePoolAssumption DEF Init
<1>1. TypeOK
  BY DEF TypeOK, Handles, Null
<1>2. CountsMatch
  <2>1. \A h \in Handles : HoldersOf(h) = {}
    BY DEF HoldersOf, Handles, Null
  <2> QED
    BY <2>1, FS_EmptySet DEF CountsMatch
<1>3. HandlesExist /\ HeldAlone /\ OneAtATime /\ PopperIsRight
  BY DEF HandlesExist, HeldAlone, OneAtATime, PopperIsRight, Holding,
         Popping, Appending
<1>4. ReleasedAreLinked /\ MakersHaveTargets /\ ObjectsInPlace
  BY DEF ReleasedAreLinked, Released, MakersHaveTargets, Making, Popping,
         Appending, ObjectsInPlace
<1>5. NoneIsLost
  BY DEF NoneIsLost, Released
<1>6. AddedAreNeeded
  <2>1. Adders = {}
    BY DEF Adders
  <2>2. /\ Cardinality(Adders) = 0 /\ Cardinality(Values) \in Nat
        /\ Cardinality(Threads) \in Nat \ {0}
    BY <2>1, FS_EmptySet, FS_CardinalityType
  <2> QED
    BY <2>2 DEF AddedAreNeeded
<1> QED
  BY <1>1, <1>2, <1>3, <1>4, <1>5, <1>6 DEF Inv

-----------------------------------------------------------------------------
(* What a step finds *)

\* The count of a handle is the number of its values, 0 if it has none.
LEMMA HoldersAreCounted ==
    ASSUME TypeOK, CountsMatch, NEW h \in Handles
    PROVE  /\ IsFiniteSet(HoldersOf(h))
           /\ count[h] = Cardinality(HoldersOf(h))
           /\ count[h] \in Nat
           /\ count[h] = 0 <=> \A v \in Values : value[v] # h
<1>1. HoldersOf(h) \in SUBSET Values
  BY DEF HoldersOf
<1>2. IsFiniteSet(HoldersOf(h))
  BY <1>1, FS_Subset, HandlePoolAssumption
<1>3. count[h] = Cardinality(HoldersOf(h)) /\ count[h] \in Nat
  BY DEF CountsMatch, TypeOK
<1>4. count[h] = 0 <=> HoldersOf(h) = {}
  BY <1>2, <1>3, FS_EmptySet
<1> QED
  BY <1>2, <1>3, <1>4 DEF HoldersOf

\* When the last value gives up a handle its count is 1, and only then.
LEMMA LastHolder ==
    ASSUME TypeOK, CountsMatch, NEW v \in Values, value[v] # Null
    PROVE  /\ value[v] \in Handles
           /\ count[value[v]] \in Nat \ {0}
           /\ count[value[v]] = 1 <=>
                \A w \in Values \ {v} : value[w] # value[v]
<1> DEFINE h == value[v]
           others == HoldersOf(h) \ {v}
<1>1. h \in Handles
  BY DEF TypeOK
<1>2. /\ IsFiniteSet(HoldersOf(h)) /\ count[h] = Cardinality(HoldersOf(h))
      /\ count[h] \in Nat \ {0}
  BY <1>1, HoldersAreCounted
<1>3. v \in HoldersOf(h)
  BY DEF HoldersOf
<1>4. IsFiniteSet(others) /\ Cardinality(others) = count[h] - 1
  BY <1>2, <1>3, FS_RemoveElement
<1>5. count[h] = 1 <=> others = {}
  BY <1>2, <1>4, FS_EmptySet
<1>6. others = {} <=> \A w \in Values \ {v} : value[w] # h
  BY DEF HoldersOf
<1> QED
  BY <1>1, <1>2, <1>5, <1>6

-----------------------------------------------------------------------------
(* What a step preserves *)

LEMMA ReleasedType ==
    ASSUME TypeOK
    PROVE  Released \subseteq Handles /\ Null \notin Released
  BY HandlePoolAssumption DEF Released, TypeOK, Handles, Null

LEMMA StepTypes ==
    ASSUME Inv, NEW t \in Threads, Step(t)
    PROVE  TypeOK'
<1> USE DEF Goto, Return, pool, making
<1>1. TypeOK
  BY DEF Inv
<1>2. ASSUME NEW v \in Values, NEW o \in Objects, MakeHandle(t, v, o)
      PROVE  TypeOK'
  BY <1>1, <1>2 DEF TypeOK, MakeHandle, Making, Popping
<1>3. ASSUME NEW v \in Values, NEW w \in Values,
             Copy(t, v, w) \/ Move(t, v, w) \/ Swap(t, v, w)
      PROVE  TypeOK'
  <2>1. value[v] # Null => value[v] \in Handles
    BY <1>1 DEF TypeOK
  <2> QED
    BY <1>1, <1>3, <2>1 DEF TypeOK, Copy, Move, Swap
<1>4. ASSUME NEW v \in Values, Release(t, v)
      PROVE  TypeOK'
  <2>1. value[v] \in Handles /\ count[value[v]] - 1 \in Nat
    BY <1>4, LastHolder DEF Inv, Release
  <2> QED
    BY <1>1, <1>4, <2>1 DEF TypeOK, Release
<1>5. CASE PopEmpty(t) \/ ReadNext(t) \/ PopExchange(t) \/ PopRetry(t) \/ Fill(t)
  <2>1. CASE PopEmpty(t) \/ PopRetry(t)
    BY <1>1, <2>1 DEF TypeOK, PopEmpty, PopRetry, Making, Popping
  <2>2. CASE ReadNext(t)
    <3>1. word[item[t]] \in Handles \cup {Null}
      BY <2>2, ReleasedType DEF Inv, PopperIsRight, ReleasedAreLinked, ReadNext
    <3> QED
      BY <1>1, <2>2, <3>1 DEF TypeOK, ReadNext, Making, Popping
  <2>3. CASE PopExchange(t)
    BY <1>1, <2>3 DEF TypeOK, PopExchange, Making
  <2>4. CASE Fill(t)
    <3>1. object[t] \in Objects
      BY <2>4 DEF Inv, MakersHaveTargets, Fill, Making
    <3> QED
      BY <1>1, <2>4, <3>1 DEF TypeOK, Fill, Making
  <2> QED
    BY <1>5, <2>1, <2>2, <2>3, <2>4
<1>6. CASE FindSlot(t)
  BY <1>1, <1>6, HandlePoolAssumption
  DEF TypeOK, FindSlot, Making, Appending, Handles
<1>7. CASE Construct(t)
  <2>1. object[t] \in Objects /\ item[t] \in 1..MaxHandles
    BY <1>7, HandlePoolAssumption
    DEF Inv, MakersHaveTargets, HandlesExist, TypeOK, Construct, Making, Appending
  <2> QED
    BY <1>1, <1>7, <2>1, HandlePoolAssumption
    DEF TypeOK, Construct, Making, Appending, Handles
<1>8. CASE Retain(t)
  <2>1. target[t] \in Values /\ item[t] \in Handles
    BY <1>8, HandlePoolAssumption
    DEF Inv, MakersHaveTargets, HandlesExist, TypeOK, Retain, Making, Handles,
        Holding
  <2>2. count[item[t]] + 1 \in Nat
    BY <1>1, <2>1 DEF TypeOK
  <2> QED
    BY <1>1, <1>8, <2>1, <2>2 DEF TypeOK, Retain
<1>9. CASE Push(t) \/ PushExchange(t) \/ PushRetry(t)
  BY <1>1, <1>9 DEF TypeOK, Push, PushExchange, PushRetry
<1> QED
  BY <1>2, <1>3, <1>4, <1>5, <1>6, <1>7, <1>8, <1>9, Step(t) DEF Step

\* As many values have a handle when one takes the place of another.
LEMMA ReplacedElement ==
    ASSUME NEW S, IsFiniteSet(S), NEW x \in S, NEW y, y \notin S
    PROVE  Cardinality((S \cup {y}) \ {x}) = Cardinality(S)
<1> DEFINE more == S \cup {y}
<1>1. Cardinality(S) \in Nat
  BY FS_CardinalityType
<1>2. IsFiniteSet(more) /\ Cardinality(more) = Cardinality(S) + 1 /\ x \in more
  BY FS_AddElement
<1> HIDE DEF more
<1>3. Cardinality(more \ {x}) = Cardinality(more) - 1
  BY <1>2, FS_RemoveElement
<1>4. Cardinality(more \ {x}) = Cardinality(S)
  BY <1>1, <1>2, <1>3
<1> QED
  BY <1>4 DEF more

LEMMA StepCounts ==
    ASSUME Inv, NEW t \in Threads, Step(t)
    PROVE  CountsMatch'
<1> USE DEF Goto, Return, pool, making
<1> SUFFICES ASSUME NEW h \in Handles
             PROVE  count'[h] = Cardinality(HoldersOf(h)')
  BY DEF CountsMatch
<1>1. TypeOK /\ CountsMatch
  BY DEF Inv
<1>2. IsFiniteSet(HoldersOf(h)) /\ count[h] = Cardinality(HoldersOf(h))
      /\ count[h] \in Nat /\ (count[h] = 0 <=> \A v \in Values : value[v] # h)
  BY <1>1, HoldersAreCounted
<1>3. ASSUME HoldersOf(h)' = HoldersOf(h), count'[h] = count[h]
      PROVE  count'[h] = Cardinality(HoldersOf(h)')
  BY <1>2, <1>3
<1>4. ASSUME NEW v \in Values, NEW w \in Values, Copy(t, v, w)
      PROVE  count'[h] = Cardinality(HoldersOf(h)')
  <2>1. CASE h = value[v]
    <3>1. HoldersOf(h)' = HoldersOf(h) \cup {w} /\ w \notin HoldersOf(h)
      BY <1>1, <1>4, <2>1 DEF Copy, HoldersOf, TypeOK
    <3>2. Cardinality(HoldersOf(h)') = Cardinality(HoldersOf(h)) + 1
      BY <1>2, <3>1, FS_AddElement
    <3> QED
      BY <1>1, <1>2, <1>4, <2>1, <3>2 DEF Copy, TypeOK
  <2>2. CASE h # value[v]
    <3>1. HoldersOf(h)' = HoldersOf(h) /\ count'[h] = count[h]
      BY <1>1, <1>4, <2>2 DEF Copy, HoldersOf, TypeOK, Handles, Null
    <3> QED
      BY <3>1, <1>3
  <2> QED
    BY <2>1, <2>2
<1>5. ASSUME NEW v \in Values, NEW w \in Values, Move(t, v, w)
      PROVE  count'[h] = Cardinality(HoldersOf(h)')
  <2>1. CASE h = value[v]
    <3>1. /\ HoldersOf(h)' = (HoldersOf(h) \cup {w}) \ {v}
          /\ w \notin HoldersOf(h) /\ v \in HoldersOf(h) /\ v # w
      BY <1>1, <1>5, <2>1 DEF Move, HoldersOf, TypeOK, Handles, Null
    <3>2. Cardinality(HoldersOf(h)') = Cardinality(HoldersOf(h))
      BY <1>2, <3>1, ReplacedElement
    <3> QED
      BY <1>1, <1>2, <1>5, <3>2 DEF Move
  <2>2. CASE h # value[v]
    <3>1. HoldersOf(h)' = HoldersOf(h) /\ count'[h] = count[h]
      BY <1>1, <1>5, <2>2 DEF Move, HoldersOf, TypeOK, Handles, Null
    <3> QED
      BY <3>1, <1>3
  <2> QED
    BY <2>1, <2>2
<1>6. ASSUME NEW v \in Values, NEW w \in Values, Swap(t, v, w)
      PROVE  count'[h] = Cardinality(HoldersOf(h)')
  <2>1. CASE value[v] = value[w] \/ h \notin {value[v], value[w]}
    <3>1. HoldersOf(h)' = HoldersOf(h) /\ count'[h] = count[h]
      BY <1>1, <1>6, <2>1 DEF Swap, HoldersOf, TypeOK
    <3> QED
      BY <3>1, <1>3
  <2>2. ASSUME NEW x \in {v, w}, NEW y \in {v, w}, x # y,
               value[x] = h, value[y] # h
        PROVE  count'[h] = Cardinality(HoldersOf(h)')
    <3>1. /\ HoldersOf(h)' = (HoldersOf(h) \cup {y}) \ {x}
          /\ y \notin HoldersOf(h) /\ x \in HoldersOf(h)
      BY <1>1, <1>6, <2>2 DEF Swap, HoldersOf, TypeOK
    <3>2. Cardinality(HoldersOf(h)') = Cardinality(HoldersOf(h))
      BY <1>2, <2>2, <3>1, ReplacedElement
    <3> QED
      BY <1>1, <1>2, <1>6, <3>2 DEF Swap
  <2> QED
    BY <1>6, <2>1, <2>2 DEF Swap
<1>7. ASSUME NEW v \in Values, Release(t, v)
      PROVE  count'[h] = Cardinality(HoldersOf(h)')
  <2>1. CASE h = value[v]
    <3>1. HoldersOf(h)' = HoldersOf(h) \ {v} /\ v \in HoldersOf(h)
      BY <1>1, <1>7, <2>1 DEF Release, HoldersOf, TypeOK, Handles, Null
    <3>2. Cardinality(HoldersOf(h)') = Cardinality(HoldersOf(h)) - 1
      BY <1>2, <3>1, FS_RemoveElement
    <3> QED
      BY <1>1, <1>2, <1>7, <2>1, <3>2 DEF Release, TypeOK
  <2>2. CASE h # value[v]
    <3>1. HoldersOf(h)' = HoldersOf(h) /\ count'[h] = count[h]
      BY <1>1, <1>7, <2>2 DEF Release, HoldersOf, TypeOK, Handles, Null
    <3> QED
      BY <3>1, <1>3
  <2> QED
    BY <2>1, <2>2
<1>8. CASE Construct(t)
  <2>1. HoldersOf(h)' = HoldersOf(h)
    BY <1>8 DEF Construct, HoldersOf
  <2>2. CASE h = item[t]
    <3>1. \A v \in Values : value[v] # h
      BY <1>8, <2>2 DEF Inv, HeldAlone, Construct, Holding
    <3> QED
      BY <1>1, <1>2, <1>8, <2>1, <2>2, <3>1 DEF Construct, TypeOK
  <2>3. CASE h # item[t]
    BY <1>1, <1>3, <1>8, <2>1, <2>3 DEF Construct, TypeOK
  <2> QED
    BY <2>2, <2>3
<1>9. CASE Retain(t)
  <2>1. target[t] \in Values /\ value[target[t]] = Null
    BY <1>9 DEF Inv, MakersHaveTargets, Retain, Making
  <2>2. CASE h = item[t]
    <3>1. HoldersOf(h)' = HoldersOf(h) \cup {target[t]}
          /\ target[t] \notin HoldersOf(h)
      BY <1>1, <1>9, <2>1, <2>2 DEF Retain, HoldersOf, TypeOK, Handles, Null
    <3>2. Cardinality(HoldersOf(h)') = Cardinality(HoldersOf(h)) + 1
      BY <1>2, <3>1, FS_AddElement
    <3> QED
      BY <1>1, <1>2, <1>9, <2>2, <3>2 DEF Retain, TypeOK
  <2>3. CASE h # item[t]
    <3>1. HoldersOf(h)' = HoldersOf(h) /\ count'[h] = count[h]
      BY <1>1, <1>9, <2>1, <2>3 DEF Retain, HoldersOf, TypeOK, Handles, Null
    <3> QED
      BY <3>1, <1>3
  <2> QED
    BY <2>2, <2>3
<1>10. CASE UNCHANGED <<count, value>>
  BY <1>3, <1>10 DEF HoldersOf
<1>11. CASE (\E v \in Values, o \in Objects : MakeHandle(t, v, o))
            \/ PopEmpty(t) \/ ReadNext(t) \/ PopExchange(t) \/ PopRetry(t)
            \/ Fill(t) \/ FindSlot(t) \/ Push(t) \/ PushExchange(t) \/ PushRetry(t)
  <2>1. UNCHANGED <<count, value>>
    BY <1>11 DEF MakeHandle, PopEmpty, ReadNext, PopExchange, PopRetry, Fill,
       FindSlot, Push, PushExchange, PushRetry
  <2> QED
    BY <2>1, <1>10
<1> QED
  BY <1>4, <1>5, <1>6, <1>7, <1>8, <1>9, <1>11, Step(t) DEF Step

\* Which handles are released changes at the exchanges of the top, and in no
\* other step.
LEMMA StepReleased ==
    ASSUME Inv, NEW t \in Threads, Step(t)
    PROVE  /\ PopExchange(t) => Released' = Released \ {item[t]}
           /\ PushExchange(t) => Released' = Released \cup {item[t]}
           /\ ~PopExchange(t) /\ ~PushExchange(t) => Released' = Released
<1> USE DEF Goto, Return, pool, making, Released, Has, Holding
<1> DEFINE Taken(h) == \/ \E v \in Values : value[v] = h
                       \/ \E u \in Threads : pc[u] \in Holding /\ item[u] = h
<1>1. TypeOK /\ HandlesExist /\ HeldAlone
  BY DEF Inv
<1>2. Released = {h \in 1..size : ~Taken(h)}
  BY DEF Taken
<1>3. Released' = {h \in 1..size' : ~Taken(h)'}
  BY DEF Taken
<1>4. ASSUME size' = size, \A h \in 1..size : Taken(h) <=> Taken(h)'
      PROVE  Released' = Released
  BY <1>2, <1>3, <1>4
<1> HIDE DEF Taken
<1>5. ASSUME UNCHANGED <<size, value>>,
             \A u \in Threads : /\ pc'[u] \in Holding <=> pc[u] \in Holding
                                /\ pc[u] \in Holding => item'[u] = item[u]
      PROVE  Released' = Released
  BY <1>4, <1>5 DEF Taken
<1>6. ASSUME UNCHANGED <<size, pc, item>>,
             \A h \in 1..size :
               (\E v \in Values : value[v] = h) <=> \E v \in Values : value'[v] = h
      PROVE  Released' = Released
  BY <1>4, <1>6 DEF Taken
<1>7. CASE PopExchange(t)
  <2>1. size' = size /\ \A h \in 1..size : Taken(h)' <=> Taken(h) \/ h = item[t]
    BY <1>1, <1>7 DEF PopExchange, Taken, TypeOK
  <2> QED
    BY <1>2, <1>3, <1>7, <2>1 DEF PopExchange, PushExchange
<1>8. CASE PushExchange(t)
  <2>1. \A h \in 1..size : Taken(h)' => Taken(h) /\ h # item[t]
    BY <1>1, <1>8 DEF PushExchange, Taken, TypeOK, HeldAlone, Null
  <2>2. \A h \in 1..size : Taken(h) /\ h # item[t] => Taken(h)'
    BY <1>1, <1>8 DEF PushExchange, Taken, TypeOK
  <2>3. size' = size /\ item[t] \in 1..size
    BY <1>1, <1>8 DEF PushExchange, HandlesExist
  <2> QED
    BY <1>2, <1>3, <1>8, <2>1, <2>2, <2>3 DEF PopExchange, PushExchange
<1>9. CASE (\E v \in Values, o \in Objects : MakeHandle(t, v, o))
           \/ PopEmpty(t) \/ ReadNext(t) \/ PopRetry(t) \/ Fill(t)
           \/ Push(t) \/ PushRetry(t)
  BY <1>1, <1>5, <1>9 DEF TypeOK, MakeHandle, PopEmpty, ReadNext, PopRetry,
     Fill, Push, PushRetry, PopExchange, PushExchange
<1>10. CASE FindSlot(t)
  <2>1. size' = size /\ \A h \in 1..size : Taken(h) <=> Taken(h)'
    BY <1>1, <1>10 DEF FindSlot, Taken, TypeOK
  <2> QED
    BY <1>4, <1>10, <2>1 DEF FindSlot, PopExchange, PushExchange
<1>11. CASE Construct(t)
  <2>1. \A h : Taken(h) <=> Taken(h)'
    BY <1>1, <1>11 DEF Construct, Taken, TypeOK
  <2>2. size' = size + 1 /\ Taken(size + 1) /\ size \in Nat
    BY <1>1, <1>11, HandlePoolAssumption DEF Construct, Taken, TypeOK, HandlesExist
  <2> QED
    BY <1>2, <1>3, <1>11, <2>1, <2>2 DEF Construct, PopExchange, PushExchange
<1>12. CASE Retain(t)
  <2>1. target[t] \in Values /\ value[target[t]] = Null
    BY <1>12 DEF Inv, MakersHaveTargets, Retain, Making
  <2>2. size' = size /\ \A h \in 1..size : Taken(h) <=> Taken(h)'
    BY <1>1, <1>12, <2>1 DEF Retain, Taken, TypeOK, Null
  <2> QED
    BY <1>4, <1>12, <2>2 DEF Retain, PopExchange, PushExchange
<1>13. ASSUME NEW v \in Values, NEW w \in Values,
              Copy(t, v, w) \/ Move(t, v, w) \/ Swap(t, v, w)
       PROVE  Released' = Released /\ pc[t] = "idle"
  <2>1. UNCHANGED <<size, pc, item>> /\ pc[t] = "idle"
    BY <1>13 DEF Copy, Move, Swap
  <2>2. ASSUME NEW h \in 1..size
        PROVE  (\E x \in Values : value[x] = h) <=> \E x \in Values : value'[x] = h
    <3>1. CASE Copy(t, v, w)
      BY <1>1, <3>1 DEF Copy, TypeOK, Null
    <3>2. CASE Move(t, v, w)
      BY <1>1, <3>2 DEF Move, TypeOK, Null
    <3>3. CASE Swap(t, v, w)
      BY <1>1, <3>3 DEF Swap, TypeOK
    <3> QED
      BY <1>13, <3>1, <3>2, <3>3
  <2> QED
    BY <1>6, <2>1, <2>2
<1>14. ASSUME NEW v \in Values, Release(t, v)
       PROVE  Released' = Released /\ pc[t] = "idle"
  <2>1. count[value[v]] = 1 <=> \A w \in Values \ {v} : value[w] # value[v]
    BY <1>14, LastHolder DEF Inv, Release
  <2>2. size' = size /\ \A h \in 1..size : Taken(h) <=> Taken(h)'
    BY <1>1, <1>14, <2>1 DEF Release, Taken, TypeOK, Null
  <2> QED
    BY <1>4, <1>14, <2>2 DEF Release
<1> QED
  BY <1>7, <1>8, <1>9, <1>10, <1>11, <1>12, <1>13, <1>14, Step(t)
  DEF Step, PopExchange, PushExchange

LEMMA StepExists ==
    ASSUME Inv, NEW t \in Threads, Step(t)
    PROVE  HandlesExist'
<1> USE DEF Goto, Return, pool, making, Holding
<1>1. TypeOK /\ HandlesExist
  BY DEF Inv
<1>2. ASSUME NEW v \in Values, NEW o \in Objects, MakeHandle(t, v, o)
      PROVE  HandlesExist'
  BY <1>1, <1>2 DEF TypeOK, HandlesExist, MakeHandle
<1>3. ASSUME NEW v \in Values, NEW w \in Values,
             Copy(t, v, w) \/ Move(t, v, w) \/ Swap(t, v, w)
      PROVE  HandlesExist'
  BY <1>1, <1>3 DEF TypeOK, HandlesExist, Copy, Move, Swap
<1>4. ASSUME NEW v \in Values, Release(t, v)
      PROVE  HandlesExist'
  BY <1>1, <1>4 DEF TypeOK, HandlesExist, Release
<1>5. CASE PopEmpty(t) \/ ReadNext(t) \/ PopRetry(t) \/ Fill(t)
           \/ Push(t) \/ PushExchange(t) \/ PushRetry(t)
  BY <1>1, <1>5 DEF TypeOK, HandlesExist, PopEmpty, ReadNext, PopRetry, Fill,
     Push, PushExchange, PushRetry
<1>6. CASE PopExchange(t)
  BY <1>1, <1>6 DEF TypeOK, HandlesExist, PopExchange, Inv, PopperIsRight, Released
<1>7. CASE FindSlot(t)
  BY <1>1, <1>7 DEF TypeOK, HandlesExist, FindSlot
<1>8. CASE Construct(t)
  <2>1. size \in Nat /\ size' = size + 1 /\ item[t] = size + 1
    BY <1>1, <1>8, HandlePoolAssumption DEF TypeOK, HandlesExist, Construct
  <2>2. \A u \in Threads \ {t} : pc[u] # "construct"
    BY <1>8 DEF Inv, OneAtATime, Construct, Appending
  <2> QED
    BY <1>1, <1>8, <2>1, <2>2 DEF TypeOK, HandlesExist, Construct
<1>9. CASE Retain(t)
  BY <1>1, <1>9 DEF TypeOK, HandlesExist, Retain
<1> QED
  BY <1>2, <1>3, <1>4, <1>5, <1>6, <1>7, <1>8, <1>9, Step(t) DEF Step

LEMMA StepAlone ==
    ASSUME Serialized, Inv, NEW t \in Threads, Step(t)
    PROVE  HeldAlone'
<1> USE DEF Goto, Return, pool, making, Holding
<1>1. TypeOK /\ HandlesExist /\ HeldAlone
  BY DEF Inv
<1>2. ASSUME NEW v \in Values, NEW o \in Objects, MakeHandle(t, v, o)
      PROVE  HeldAlone'
  BY <1>1, <1>2 DEF TypeOK, HeldAlone, MakeHandle
<1>3. ASSUME NEW v \in Values, NEW w \in Values,
             Copy(t, v, w) \/ Move(t, v, w) \/ Swap(t, v, w)
      PROVE  HeldAlone'
  <2>1. \A u \in Threads : pc[u] \in Holding => item[u] # Null
    BY <1>1, HandlePoolAssumption DEF HandlesExist, TypeOK, Null
  <2> QED
    BY <1>1, <1>3, <2>1 DEF TypeOK, HeldAlone, Copy, Move, Swap
<1>4. ASSUME NEW v \in Values, Release(t, v)
      PROVE  HeldAlone'
  <2>1. count[value[v]] = 1 => \A w \in Values \ {v} : value[w] # value[v]
    BY <1>4, LastHolder DEF Inv, Release
  <2>2. \A u \in Threads : pc[u] \in Holding => item[u] # value[v]
    BY <1>1 DEF HeldAlone
  <2>3. \A u \in Threads : pc[u] \in Holding => item[u] # Null
    BY <1>1, HandlePoolAssumption DEF HandlesExist, TypeOK, Null
  <2> QED
    BY <1>1, <1>4, <2>1, <2>2, <2>3 DEF TypeOK, HeldAlone, Release
<1>5. CASE PopEmpty(t) \/ ReadNext(t) \/ PopRetry(t) \/ Fill(t)
           \/ Push(t) \/ PushExchange(t) \/ PushRetry(t)
  BY <1>1, <1>5 DEF TypeOK, HeldAlone, PopEmpty, ReadNext, PopRetry, Fill,
     Push, PushExchange, PushRetry
<1>6. CASE PopExchange(t)
  <2>1. /\ \A v \in Values : value[v] # item[t]
        /\ \A u \in Threads : pc[u] \in Holding => item[u] # item[t]
    BY <1>6 DEF PopExchange, Inv, PopperIsRight, Released, Has
  <2> QED
    BY <1>1, <1>6, <2>1 DEF TypeOK, HeldAlone, PopExchange
<1>7. CASE FindSlot(t)
  <2>1. /\ \A v \in Values : value[v] # size + 1
        /\ \A u \in Threads : pc[u] \in Holding \ {"construct"} => item[u] # size + 1
    BY <1>1, HandlePoolAssumption DEF HandlesExist, TypeOK, Null
  <2>2. \A u \in Threads : pc[u] # "construct"
    BY <1>7 DEF FindSlot, Serialized, Appending
  <2> QED
    BY <1>1, <1>7, <2>1, <2>2 DEF TypeOK, HeldAlone, FindSlot
<1>8. CASE Construct(t)
  BY <1>1, <1>8 DEF TypeOK, HeldAlone, Construct
<1>9. CASE Retain(t)
  BY <1>1, <1>9 DEF TypeOK, HeldAlone, Retain
<1> QED
  BY <1>2, <1>3, <1>4, <1>5, <1>6, <1>7, <1>8, <1>9, Step(t) DEF Step

LEMMA StepOneAtATime ==
    ASSUME Serialized, Inv, NEW t \in Threads, Step(t)
    PROVE  OneAtATime'
<1> USE DEF Goto, Return, pool, making, Popping, Appending
<1>1. TypeOK /\ OneAtATime
  BY DEF Inv
<1>2. \A u \in Threads \ {t} : pc'[u] = pc[u]
  BY <1>1, Step(t) DEF TypeOK, Step, MakeHandle, Copy, Move, Swap, Release,
     PopEmpty, ReadNext, PopExchange, PopRetry, Fill, FindSlot, Construct,
     Retain, Push, PushExchange, PushRetry
<1>3. pc'[t] \in Popping =>
        pc[t] \in Popping \/ \A u \in Threads : pc[u] \notin Popping
  BY <1>1, Step(t) DEF TypeOK, Serialized, Step, MakeHandle, Copy, Move, Swap,
     Release, PopEmpty, ReadNext, PopExchange, PopRetry, Fill, FindSlot,
     Construct, Retain, Push, PushExchange, PushRetry
<1>4. pc'[t] \in Appending =>
        pc[t] \in Appending \/ \A u \in Threads : pc[u] \notin Appending
  BY <1>1, Step(t) DEF TypeOK, Serialized, Step, MakeHandle, Copy, Move, Swap,
     Release, PopEmpty, ReadNext, PopExchange, PopRetry, Fill, FindSlot,
     Construct, Retain, Push, PushExchange, PushRetry
<1> QED
  BY <1>1, <1>2, <1>3, <1>4 DEF OneAtATime

\* A step writes to the words of handles that one thread has to itself.
LEMMA WordsStay ==
    ASSUME Inv, NEW t \in Threads, Step(t)
    PROVE  /\ \A h \in Released : word'[h] = word[h]
           /\ \A v \in Values : value[v] # Null => word'[value[v]] = word[value[v]]
           /\ \A u \in Threads \ {t} : pc[u] \in Holding => word'[item[u]] = word[item[u]]
<1> USE DEF Goto, Return, pool, making, Holding
<1>1. CASE Fill(t) \/ Construct(t) \/ Push(t) \/ PushRetry(t)
  <2>1. pc[t] \in Holding /\ \A h \in Handles : h # item[t] => word'[h] = word[h]
    BY <1>1 DEF Inv, TypeOK, Fill, Construct, Push, PushRetry
  <2>2. item[t] \notin Released
    BY <2>1 DEF Released, Has
  <2>3. \A v \in Values : value[v] # Null => value[v] \in Handles
    BY DEF Inv, TypeOK
  <2>4. \A u \in Threads : pc[u] \in Holding => item[u] \in Handles
    BY HandlePoolAssumption DEF Inv, HandlesExist, TypeOK, Handles
  <2> QED
    BY <2>1, <2>2, <2>3, <2>4, ReleasedType DEF Inv, HeldAlone
<1>2. CASE word' = word
  BY <1>2
<1> QED
  BY <1>1, <1>2, Step(t) DEF Step, MakeHandle, Copy, Move, Swap, Release,
     PopEmpty, ReadNext, PopExchange, PopRetry, FindSlot, Retain, PushExchange

LEMMA StepLinked ==
    ASSUME Inv, NEW t \in Threads, Step(t)
    PROVE  ReleasedAreLinked'
<1> USE DEF Goto, Return, pool, making, Holding
<1>1. ReleasedAreLinked /\ Null \notin Released /\ \A h \in Released : word'[h] = word[h]
  BY WordsStay, ReleasedType DEF Inv
<1>2. CASE PopExchange(t)
  <2>1. /\ top = item[t] /\ top \in Released
        /\ top' = word[top] /\ word' = word /\ Released' = Released \ {top}
    BY <1>2, StepReleased DEF PopExchange, Inv, PopperIsRight
  <2> QED
    BY <1>1, <2>1 DEF ReleasedAreLinked
<1>3. CASE PushExchange(t)
  <2>1. /\ top' = item[t] /\ word[item[t]] = top /\ word' = word
        /\ Released' = Released \cup {item[t]}
    BY <1>3, StepReleased DEF PushExchange
  <2>2. item[t] \notin Released \cup {Null}
    BY <1>3 DEF PushExchange, Released, Has, Inv, HandlesExist, Null
  <2> QED
    BY <1>1, <2>1, <2>2 DEF ReleasedAreLinked
<1>4. CASE ~PopExchange(t) /\ ~PushExchange(t)
  <2>1. top' = top /\ Released' = Released
    BY <1>4, Step(t), StepReleased DEF Step, MakeHandle, Copy, Move, Swap,
       Release, PopEmpty, ReadNext, PopRetry, Fill, FindSlot, Construct,
       Retain, Push, PushRetry
  <2> QED
    BY <1>1, <2>1 DEF ReleasedAreLinked
<1> QED
  BY <1>2, <1>3, <1>4

LEMMA StepPopper ==
    ASSUME Inv, NEW t \in Threads, Step(t)
    PROVE  PopperIsRight'
<1> USE DEF Goto, Return, pool, making
<1> SUFFICES ASSUME NEW u \in Threads
             PROVE  /\ pc'[u] = "pop" => item'[u] \in Released' \cup {Null}
                    /\ pc'[u] = "exchange" =>
                         item'[u] \in Released' /\ next'[u] = word'[item'[u]]
  BY DEF PopperIsRight
<1>1. TypeOK /\ PopperIsRight /\ top \in Released \cup {Null}
  BY DEF Inv, ReleasedAreLinked
<1>2. CASE u # t
  <2>1. pc'[u] = pc[u] /\ item'[u] = item[u] /\ next'[u] = next[u]
    BY <1>1, <1>2, Step(t) DEF TypeOK, Step, MakeHandle, Copy, Move, Swap,
       Release, PopEmpty, ReadNext, PopExchange, PopRetry, Fill, FindSlot,
       Construct, Retain, Push, PushExchange, PushRetry
  <2>2. pc[u] \in Popping => Released \subseteq Released'
    BY <1>2, StepReleased DEF Inv, OneAtATime, PopExchange, Popping
  <2> QED
    BY <1>1, <2>1, <2>2, WordsStay DEF PopperIsRight, Popping
<1>3. CASE u = t
  <2>1. ASSUME NEW v \in Values, NEW o \in Objects, MakeHandle(t, v, o)
        PROVE  pc'[t] = "pop" /\ item'[t] = top /\ Released' = Released
    BY <1>1, <2>1, StepReleased DEF TypeOK, MakeHandle, PopExchange, PushExchange
  <2>2. ASSUME PopRetry(t)
        PROVE  pc'[t] = "pop" /\ item'[t] = top /\ Released' = Released
    BY <1>1, <2>2, StepReleased DEF TypeOK, PopRetry, PopExchange, PushExchange
  <2>3. ASSUME ReadNext(t)
        PROVE  /\ pc'[t] = "exchange" /\ item'[t] = item[t]
               /\ item[t] \in Released /\ Released' = Released
               /\ next'[t] = word[item[t]] /\ word' = word
    BY <1>1, <2>3, StepReleased
    DEF TypeOK, PopperIsRight, ReadNext, PopExchange, PushExchange
  <2>4. ASSUME NEW v \in Values, NEW w \in Values,
               Copy(t, v, w) \/ Move(t, v, w) \/ Swap(t, v, w) \/ Release(t, v)
        PROVE  pc'[t] \notin Popping
    BY <1>1, <2>4 DEF TypeOK, Copy, Move, Swap, Release, Popping
  <2>5. ASSUME \/ PopEmpty(t) \/ PopExchange(t) \/ Fill(t) \/ FindSlot(t)
               \/ Construct(t) \/ Retain(t)
               \/ Push(t) \/ PushExchange(t) \/ PushRetry(t)
        PROVE  pc'[t] \notin Popping
    BY <1>1, <2>5 DEF TypeOK, PopEmpty, PopExchange, Fill, FindSlot, Construct,
       Retain, Push, PushExchange, PushRetry, Popping
  <2> QED
    BY <1>1, <1>3, <2>1, <2>2, <2>3, <2>4, <2>5, Step(t) DEF Step, Popping
<1> QED
  BY <1>2, <1>3

LEMMA StepTargets ==
    ASSUME Inv, NEW t \in Threads, Step(t)
    PROVE  MakersHaveTargets'
<1> USE DEF Goto, Return, pool, making, Making, Popping, Appending
<1>1. TypeOK /\ MakersHaveTargets
  BY DEF Inv
<1>2. ASSUME NEW v \in Values, NEW o \in Objects, MakeHandle(t, v, o)
      PROVE  MakersHaveTargets'
  BY <1>1, <1>2 DEF TypeOK, MakersHaveTargets, MakeHandle, InUse
<1>3. ASSUME NEW v \in Values, NEW w \in Values,
             Copy(t, v, w) \/ Move(t, v, w) \/ Swap(t, v, w)
      PROVE  MakersHaveTargets'
  <2>1. UNCHANGED <<pc, target, object>>
    BY <1>3 DEF Copy, Move, Swap
  <2>2. \A x \in Values : InUse(x) => value'[x] = value[x]
    BY <1>1, <1>3 DEF TypeOK, MakersHaveTargets, InUse, Copy, Move, Swap
  <2> QED
    BY <1>1, <2>1, <2>2 DEF MakersHaveTargets, InUse
<1>4. ASSUME NEW v \in Values, Release(t, v)
      PROVE  MakersHaveTargets'
  BY <1>1, <1>4 DEF TypeOK, MakersHaveTargets, Release
<1>5. CASE Retain(t)
  BY <1>1, <1>5 DEF TypeOK, MakersHaveTargets, Retain
<1>6. ASSUME UNCHANGED <<value, making>>,
             \A u \in Threads : pc'[u] \in Making => pc[u] \in Making
      PROVE  MakersHaveTargets'
  BY <1>1, <1>6 DEF MakersHaveTargets
<1>7. CASE PopEmpty(t) \/ ReadNext(t) \/ PopExchange(t) \/ PopRetry(t) \/ Fill(t)
           \/ FindSlot(t) \/ Construct(t)
           \/ Push(t) \/ PushExchange(t) \/ PushRetry(t)
  BY <1>1, <1>6, <1>7 DEF TypeOK, PopEmpty, ReadNext, PopExchange, PopRetry,
     Fill, FindSlot, Construct, Push, PushExchange, PushRetry
<1> QED
  BY <1>2, <1>3, <1>4, <1>5, <1>7, Step(t) DEF Step

LEMMA StepObjects ==
    ASSUME Inv, NEW t \in Threads, Step(t)
    PROVE  ObjectsInPlace'
<1> USE DEF Goto, Return, pool, making, Making
<1>1. TypeOK /\ ObjectsInPlace
  BY DEF Inv
<1>2. ASSUME NEW v \in Values, value'[v] # Null
      PROVE  word'[value'[v]] \in Objects
  <2>1. CASE Retain(t)
    BY <1>1, <1>2, <2>1
    DEF TypeOK, Retain, ObjectsInPlace, Inv, MakersHaveTargets
  <2>2. CASE ~Retain(t)
    <3>1. \E w \in Values : value'[v] = value[w]
      BY <1>1, <1>2, <2>2, Step(t) DEF TypeOK, Step, MakeHandle, Copy, Move,
         Swap, Release, PopEmpty, ReadNext, PopExchange, PopRetry, Fill,
         FindSlot, Construct, Push, PushExchange, PushRetry
    <3> QED
      BY <1>1, <1>2, <3>1, WordsStay DEF ObjectsInPlace
  <2> QED
    BY <2>1, <2>2
<1>3. ASSUME NEW u \in Threads, pc'[u] = "retain"
      PROVE  word'[item'[u]] = object'[u]
  <2>1. CASE u = t
    <3>1. Fill(t) \/ Construct(t)
      BY <1>1, <1>3, <2>1, Step(t) DEF TypeOK, Step, MakeHandle, Copy, Move,
         Swap, Release, PopEmpty, ReadNext, PopExchange, PopRetry,
         FindSlot, Retain, Push, PushExchange, PushRetry
    <3>2. item[t] \in Handles
      BY <3>1, HandlePoolAssumption
      DEF Inv, HandlesExist, Holding, TypeOK, Handles, Fill, Construct
    <3> QED
      BY <1>1, <2>1, <3>1, <3>2 DEF TypeOK, Fill, Construct
  <2>2. CASE u # t
    <3>1. pc'[u] = pc[u] /\ item'[u] = item[u] /\ object'[u] = object[u]
      BY <1>1, <2>2, Step(t) DEF TypeOK, Step, MakeHandle, Copy, Move, Swap,
         Release, PopEmpty, ReadNext, PopExchange, PopRetry, Fill, FindSlot,
         Construct, Retain, Push, PushExchange, PushRetry
    <3> QED
      BY <1>1, <1>3, <2>2, <3>1, WordsStay DEF ObjectsInPlace, Holding
  <2> QED
    BY <2>1, <2>2
<1> QED
  BY <1>2, <1>3 DEF ObjectsInPlace

LEMMA StepNoneIsLost ==
    ASSUME Inv, NEW t \in Threads, Step(t)
    PROVE  NoneIsLost'
<1> USE DEF Goto, Return, pool, making
<1> SUFFICES ASSUME NEW S \in SUBSET (1..size'), HasStack(S)'
             PROVE  Released' \subseteq S
  BY DEF NoneIsLost
<1>1. ReleasedAreLinked /\ NoneIsLost
  BY DEF Inv
<1>2. CASE PopExchange(t)
  <2>1. /\ top = item[t] /\ top \in Released /\ size' = size
        /\ top' = word[top] /\ word' = word /\ Released' = Released \ {top}
    BY <1>2, StepReleased DEF PopExchange, Inv, PopperIsRight
  <2>2. HasStack(S \cup {top}) /\ S \cup {top} \in SUBSET (1..size)
    BY <2>1 DEF HasStack, Released
  <2> QED
    BY <1>1, <2>1, <2>2 DEF NoneIsLost
<1>3. CASE PushExchange(t)
  <2>1. /\ top' = item[t] /\ word[item[t]] = top /\ word' = word /\ size' = size
        /\ Released' = Released \cup {item[t]}
    BY <1>3, StepReleased DEF PushExchange
  <2>2. item[t] # Null
    BY <1>3 DEF PushExchange, Inv, HandlesExist, Holding, Null
  <2>3. HasStack(S) /\ item[t] \in S
    BY <2>1, <2>2 DEF HasStack
  <2> QED
    BY <1>1, <2>1, <2>3 DEF NoneIsLost
<1>4. CASE ~PopExchange(t) /\ ~PushExchange(t)
  <2>1. top' = top /\ Released' = Released
    BY <1>4, Step(t), StepReleased DEF Step, MakeHandle, Copy, Move, Swap,
       Release, PopEmpty, ReadNext, PopRetry, Fill, FindSlot, Construct,
       Retain, Push, PushRetry
  <2>2. HasStack(S \cap Released) /\ S \cap Released \in SUBSET (1..size)
    BY <1>1, <2>1, WordsStay DEF HasStack, ReleasedAreLinked, Released
  <2> QED
    BY <1>1, <2>1, <2>2 DEF NoneIsLost
<1> QED
  BY <1>2, <1>3, <1>4

-----------------------------------------------------------------------------
(* The size of the pool *)

\* A function has no more values than arguments.
LEMMA ImageBound ==
    ASSUME NEW S, IsFiniteSet(S), NEW f, f = [x \in S |-> f[x]]
    PROVE  LET T == {f[x] : x \in S}
           IN  IsFiniteSet(T) /\ Cardinality(T) \in Nat
               /\ Cardinality(T) <= Cardinality(S)
<1> DEFINE T == {f[x] : x \in S}
<1>1. f \in Surjection(S, T)
  BY DEF Surjection
<1>2. IsFiniteSet(T) /\ Cardinality(T) <= Cardinality(S)
  BY <1>1, FS_Surjection
<1> QED
  BY <1>2, FS_CardinalityType

LEMMA UnionBound ==
    ASSUME NEW S, NEW T, IsFiniteSet(S), IsFiniteSet(T)
    PROVE  /\ IsFiniteSet(S \cup T)
           /\ Cardinality(S \cup T) <= Cardinality(S) + Cardinality(T)
<1>1. /\ Cardinality(S) \in Nat /\ Cardinality(T) \in Nat
      /\ IsFiniteSet(S \cap T)
  BY FS_CardinalityType, FS_Subset
<1>2. Cardinality(S \cap T) \in Nat
  BY <1>1, FS_CardinalityType
<1> QED
  BY <1>1, <1>2, FS_Union

\* A thread that finds the stack empty needs another handle: the values that
\* have handles, the targets of the other makers and its own are different
\* values, and at most the other threads are about to push handles.
LEMMA HandleIsNeeded ==
    ASSUME Inv, top = Null, NEW t \in Threads, pc[t] \in {"idle", "exchange"},
           NEW v \in Values, value[v] = Null,
           \A u \in Threads \ {t} : pc[u] \in Making => target[u] # v
    PROVE  size + Cardinality(Adders) + 1
             <= Cardinality(Values) + Cardinality(Threads) - 1
<1> DEFINE valued  == {x \in Values : value[x] # Null}
           fillers == {u \in Threads : pc[u] \in {"fill", "retain"}}
           pushers == {u \in Threads : pc[u] \in {"push", "pushExchange"}}
           makers  == fillers \cup Adders
           free    == (Values \ valued) \ {v}
           atValues  == {value[x] : x \in valued}
           atFillers == {item[u] : u \in fillers}
           atPushers == {item[u] : u \in pushers}
<1>1. TypeOK /\ IsFiniteSet(Values) /\ IsFiniteSet(Threads) /\ MaxHandles \in Nat
  BY HandlePoolAssumption DEF Inv
<1>2. /\ IsFiniteSet(valued) /\ IsFiniteSet(fillers) /\ IsFiniteSet(pushers)
      /\ IsFiniteSet(Adders) /\ IsFiniteSet(free) /\ IsFiniteSet(Values \ valued)
  <2>1. /\ valued \in SUBSET Values /\ free \in SUBSET Values
        /\ Values \ valued \in SUBSET Values
        /\ fillers \in SUBSET Threads /\ pushers \in SUBSET Threads
        /\ Adders \in SUBSET Threads
    BY DEF Adders
  <2> QED
    BY <1>1, <2>1, FS_Subset
<1>3. /\ Cardinality(valued) \in Nat /\ Cardinality(fillers) \in Nat
      /\ Cardinality(pushers) \in Nat /\ Cardinality(Adders) \in Nat
      /\ Cardinality(free) \in Nat /\ Cardinality(Values) \in Nat
      /\ Cardinality(Threads) \in Nat /\ size \in Nat
  BY <1>1, <1>2, FS_CardinalityType DEF TypeOK
<1>4. size <= Cardinality(valued) + Cardinality(fillers) + Cardinality(pushers)
  <2>1. Released = {}
    <3>1. HasStack({})
      BY DEF HasStack
    <3> QED
      BY <3>1 DEF Inv, NoneIsLost
  <2>2. 1..size \subseteq (atValues \cup atFillers) \cup atPushers
    <3> SUFFICES ASSUME NEW h \in 1..size
                 PROVE  h \in (atValues \cup atFillers) \cup atPushers
      OBVIOUS
    <3>1. (\E x \in Values : value[x] = h) \/ \E u \in Threads : Has(u, h)
      BY <2>1 DEF Released
    <3>2. h # Null /\ h # size + 1
      BY <1>3 DEF Null
    <3> QED
      BY <3>1, <3>2 DEF Has, Inv, HandlesExist
  <2>3. /\ IsFiniteSet(atValues) /\ Cardinality(atValues) \in Nat
        /\ Cardinality(atValues) <= Cardinality(valued)
    <3> DEFINE f == [x \in valued |-> value[x]]
    <3>1. f = [x \in valued |-> f[x]] /\ {f[x] : x \in valued} = atValues
      OBVIOUS
    <3> HIDE DEF f, valued, atValues
    <3> QED
      BY <1>2, <3>1, ImageBound
  <2>4. /\ IsFiniteSet(atFillers) /\ Cardinality(atFillers) \in Nat
        /\ Cardinality(atFillers) <= Cardinality(fillers)
    <3> DEFINE f == [x \in fillers |-> item[x]]
    <3>1. f = [x \in fillers |-> f[x]] /\ {f[x] : x \in fillers} = atFillers
      OBVIOUS
    <3> HIDE DEF f, fillers, atFillers
    <3> QED
      BY <1>2, <3>1, ImageBound
  <2>5. /\ IsFiniteSet(atPushers) /\ Cardinality(atPushers) \in Nat
        /\ Cardinality(atPushers) <= Cardinality(pushers)
    <3> DEFINE f == [x \in pushers |-> item[x]]
    <3>1. f = [x \in pushers |-> f[x]] /\ {f[x] : x \in pushers} = atPushers
      OBVIOUS
    <3> HIDE DEF f, pushers, atPushers
    <3> QED
      BY <1>2, <3>1, ImageBound
  <2> HIDE DEF atValues, atFillers, atPushers, valued, fillers, pushers
  <2>6. /\ IsFiniteSet(atValues \cup atFillers)
        /\ Cardinality(atValues \cup atFillers)
             <= Cardinality(atValues) + Cardinality(atFillers)
    BY <2>3, <2>4, UnionBound
  <2>7. /\ IsFiniteSet((atValues \cup atFillers) \cup atPushers)
        /\ Cardinality((atValues \cup atFillers) \cup atPushers)
             <= Cardinality(atValues \cup atFillers) + Cardinality(atPushers)
    BY <2>5, <2>6, UnionBound
  <2>8. /\ Cardinality(1..size) = size
        /\ Cardinality(1..size) <= Cardinality((atValues \cup atFillers) \cup atPushers)
    <3>1. Cardinality(1..size) = size
      BY <1>3, FS_Interval
    <3>2. 1..size \in SUBSET ((atValues \cup atFillers) \cup atPushers)
      BY <2>2
    <3> QED
      BY <2>7, <3>1, <3>2, FS_Subset
  <2>9. Cardinality(atValues \cup atFillers) \in Nat
        /\ Cardinality((atValues \cup atFillers) \cup atPushers) \in Nat
    BY <2>6, <2>7, FS_CardinalityType
  <2> QED
    BY <1>3, <2>3, <2>4, <2>5, <2>6, <2>7, <2>8, <2>9
<1>5. Cardinality(fillers) + Cardinality(Adders) <= Cardinality(free)
  <2>1. fillers \cap Adders = {}
    BY DEF Adders
  <2>2. \A u \in makers : pc[u] \in Making /\ u # t
    BY DEF Adders, Making, Appending, Popping
  <2>3. \A u \in makers : target[u] \in free
    BY <2>2 DEF Inv, MakersHaveTargets, Adders
  <2>4. \A u, w \in makers : target[u] = target[w] => u = w
    BY <2>2 DEF Inv, MakersHaveTargets, Adders
  <2> DEFINE f == [u \in makers |-> target[u]]
  <2>5. f \in Injection(makers, free)
    <3> HIDE DEF makers, free
    <3> QED
      BY <2>3, <2>4 DEF Injection, IsInjective
  <2> HIDE DEF fillers, free, f
  <2>6. Cardinality(makers) = Cardinality(fillers) + Cardinality(Adders)
    BY <1>2, <1>3, <2>1, FS_Union, FS_EmptySet
  <2>7. Cardinality(makers) <= Cardinality(free)
    BY <1>2, <2>5, FS_Injection
  <2> QED
    BY <2>6, <2>7
<1>6. Cardinality(free) = Cardinality(Values) - Cardinality(valued) - 1
  <2>1. v \in Values \ valued
    OBVIOUS
  <2>2. Cardinality(free) = Cardinality(Values \ valued) - 1
    BY <1>2, <2>1, FS_RemoveElement
  <2>3. Values \cap valued = valued
    OBVIOUS
  <2> HIDE DEF valued
  <2>4. Cardinality(Values \ valued) = Cardinality(Values) - Cardinality(valued)
    <3>1. Cardinality(Values \ valued)
            = Cardinality(Values) - Cardinality(Values \cap valued)
      BY <1>1, FS_Difference
    <3> QED
      BY <2>3, <3>1
  <2> QED
    BY <2>2, <2>4
<1>7. Cardinality(pushers) <= Cardinality(Threads) - 1
  <2>1. pushers \in SUBSET (Threads \ {t})
    OBVIOUS
  <2>2. IsFiniteSet(Threads \ {t}) /\ Cardinality(Threads \ {t}) = Cardinality(Threads) - 1
    BY <1>1, FS_RemoveElement
  <2> QED
    BY <2>1, <2>2, FS_Subset
<1> HIDE DEF valued, fillers, pushers, free
<1> QED
  BY <1>3, <1>4, <1>5, <1>6, <1>7

LEMMA StepAdded ==
    ASSUME Inv, NEW t \in Threads, Step(t)
    PROVE  AddedAreNeeded'
<1> USE DEF Goto, Return, pool, making
<1>1. TypeOK /\ AddedAreNeeded
  BY DEF Inv
<1>2. /\ IsFiniteSet(Adders) /\ Cardinality(Adders) \in Nat
      /\ Cardinality(Values) \in Nat /\ Cardinality(Threads) \in Nat /\ size \in Nat
  <2>1. IsFiniteSet(Adders)
    BY HandlePoolAssumption, FS_Subset DEF Adders
  <2> QED
    BY <1>1, <2>1, HandlePoolAssumption, FS_CardinalityType DEF TypeOK
<1>3. ASSUME size' = size, Adders' = Adders
      PROVE  AddedAreNeeded'
  BY <1>1, <1>3 DEF AddedAreNeeded
<1>4. ASSUME size' = size, Adders' = Adders \cup {t},
             size + Cardinality(Adders) + 1
               <= Cardinality(Values) + Cardinality(Threads) - 1
      PROVE  AddedAreNeeded'
  <2>1. Cardinality(Adders') <= Cardinality(Adders) + 1 /\ Cardinality(Adders') \in Nat
    BY <1>2, <1>4, FS_AddElement
  <2> QED
    BY <1>2, <1>4, <2>1 DEF AddedAreNeeded
<1>5. ASSUME NEW v \in Values, NEW o \in Objects, MakeHandle(t, v, o)
      PROVE  AddedAreNeeded'
  <2>1. CASE top = Null
    <3>1. Adders' = Adders \cup {t} /\ size' = size
      BY <1>1, <1>5, <2>1 DEF TypeOK, MakeHandle, Adders
    <3>2. size + Cardinality(Adders) + 1
            <= Cardinality(Values) + Cardinality(Threads) - 1
      BY <1>5, <2>1, HandleIsNeeded DEF MakeHandle, InUse
    <3> QED
      BY <1>4, <3>1, <3>2
  <2>2. CASE top # Null
    <3>1. Adders' = Adders /\ size' = size
      BY <1>1, <1>5, <2>2 DEF TypeOK, MakeHandle, Adders
    <3> QED
      BY <1>3, <3>1
  <2> QED
    BY <2>1, <2>2
<1>6. CASE PopRetry(t)
  <2>1. CASE top = Null
    <3>1. Adders' = Adders \cup {t} /\ size' = size
      BY <1>1, <1>6, <2>1 DEF TypeOK, PopRetry, Adders
    <3>2. /\ pc[t] = "exchange" /\ target[t] \in Values
          /\ value[target[t]] = Null
          /\ \A u \in Threads \ {t} : pc[u] \in Making => target[u] # target[t]
      BY <1>6 DEF PopRetry, Inv, MakersHaveTargets, Making, Popping
    <3>3. size + Cardinality(Adders) + 1
            <= Cardinality(Values) + Cardinality(Threads) - 1
      BY <2>1, <3>2, HandleIsNeeded
    <3> QED
      BY <1>4, <3>1, <3>3
  <2>2. CASE top # Null
    <3>1. Adders' = Adders /\ size' = size
      BY <1>1, <1>6, <2>2 DEF TypeOK, PopRetry, Adders
    <3> QED
      BY <1>3, <3>1
  <2> QED
    BY <2>1, <2>2
<1>7. CASE Construct(t)
  <2>1. Adders' = Adders \ {t} /\ t \in Adders /\ size' = size + 1
    BY <1>1, <1>7 DEF TypeOK, Construct, Adders, Inv, HandlesExist, Holding
  <2>2. Cardinality(Adders') = Cardinality(Adders) - 1
    BY <1>2, <2>1, FS_RemoveElement
  <2> QED
    BY <1>1, <1>2, <2>1, <2>2 DEF AddedAreNeeded
<1>8. CASE PopEmpty(t) \/ ReadNext(t) \/ PopExchange(t) \/ Fill(t) \/ FindSlot(t)
           \/ Retain(t) \/ Push(t) \/ PushExchange(t) \/ PushRetry(t)
  <2>1. Adders' = Adders /\ size' = size
    BY <1>1, <1>8 DEF TypeOK, PopEmpty, ReadNext, PopExchange, Fill, FindSlot,
       Retain, Push, PushExchange, PushRetry, Adders
  <2> QED
    BY <1>3, <2>1
<1>9. ASSUME NEW v \in Values, NEW w \in Values,
             Copy(t, v, w) \/ Move(t, v, w) \/ Swap(t, v, w) \/ Release(t, v)
      PROVE  AddedAreNeeded'
  <2>1. Adders' = Adders /\ size' = size
    BY <1>1, <1>9 DEF TypeOK, Copy, Move, Swap, Release, Adders
  <2> QED
    BY <1>3, <2>1
<1> QED
  BY <1>5, <1>6, <1>7, <1>8, <1>9, Step(t) DEF Step

-----------------------------------------------------------------------------
(* Theorems *)

LEMMA StepPreservesInv ==
    ASSUME Serialized, Inv, [Next]_vars
    PROVE  Inv'
<1>1. CASE UNCHANGED vars
  BY <1>1 DEF vars, pool, making, Inv, TypeOK, CountsMatch, HoldersOf,
     HandlesExist, HeldAlone, OneAtATime, ReleasedAreLinked, Released, Has,
     NoneIsLost, HasStack, AddedAreNeeded, Adders, PopperIsRight,
     MakersHaveTargets, ObjectsInPlace
<1>2. ASSUME NEW t \in Threads, Step(t)
      PROVE  Inv'
  BY <1>2, StepTypes, StepCounts, StepExists, StepAlone, StepOneAtATime,
     StepLinked, StepNoneIsLost, StepAdded, StepPopper, StepTargets, StepObjects
  DEF Inv
<1> QED
  BY <1>1, <1>2 DEF Next

LEMMA Invariance ==
    ASSUME Serialized
    PROVE  Spec => []Inv
<1>1. Init => Inv
  BY InitEstablishesInv
<1>2. Inv /\ [Next]_vars => Inv'
  BY StepPreservesInv
<1> QED
  BY <1>1, <1>2, PTL DEF Spec

\* Every variable keeps a value of its type, and no step reads a link from
\* what may be an object (makeHandle's pop).
THEOREM TypeCorrect ==
    ASSUME Serialized
    PROVE  Spec => []TypeOK
<1>1. Inv => TypeOK
  BY DEF Inv
<1> QED
  BY <1>1, Invariance, PTL

\* Retain and release keep the count of a handle that of its values.
THEOREM CountsAreRight ==
    ASSUME Serialized
    PROVE  Spec => []CountsMatch
<1>1. Inv => CountsMatch
  BY DEF Inv
<1> QED
  BY <1>1, Invariance, PTL

\* HandlePool::traverse visits objects only.
THEOREM TraversalFindsObjects ==
    ASSUME Serialized
    PROVE  Spec => []CountedHandlesHaveObjects
<1>1. Inv => CountedHandlesHaveObjects
  <2> SUFFICES ASSUME Inv, NEW h \in Handles, count[h] > 0
               PROVE  word[h] \in Objects
    BY DEF CountedHandlesHaveObjects
  <2>1. PICK v \in Values : value[v] = h
    BY HoldersAreCounted DEF Inv
  <2> QED
    BY <2>1 DEF Inv, ObjectsInPlace, Handles, Null
<1> QED
  BY <1>1, Invariance, PTL

\* No handle of the pool is lost, or in two places.
THEOREM OnePlace ==
    ASSUME Serialized
    PROVE  Spec => []HandlesHaveOnePlace
<1>1. Inv => HandlesHaveOnePlace
  <2> SUFFICES ASSUME Inv PROVE HandlesHaveOnePlace
    OBVIOUS
  <2>1. Stack = Released
    <3>1. HasStack(Released) /\ Released \in SUBSET (1..size)
      BY DEF Inv, ReleasedAreLinked, HasStack, Released
    <3>2. \A S \in SUBSET (1..size) : HasStack(S) => Released \subseteq S
      BY DEF Inv, NoneIsLost
    <3> QED
      BY <3>1, <3>2 DEF Stack
  <2>2. HasStack(Released)
    BY DEF Inv, ReleasedAreLinked, HasStack
  <2>3. ASSUME NEW h \in 1..size
        PROVE  Cardinality({t \in Threads : Has(t, h)})
                 + (IF h \in Released THEN 1 ELSE 0)
                 + (IF HoldersOf(h) # {} THEN 1 ELSE 0) = 1
    <3> DEFINE holders == {t \in Threads : Has(t, h)}
    <3>1. HoldersOf(h) # {} <=> \E v \in Values : value[v] = h
      BY DEF HoldersOf
    <3>2. CASE holders = {}
      <4>1. Cardinality(holders) = 0
        BY <3>2, FS_EmptySet
      <4>2. h \in Released <=> HoldersOf(h) = {}
        BY <3>1, <3>2 DEF Released
      <4> QED
        BY <4>1, <4>2
    <3>3. ASSUME NEW t \in holders
          PROVE  /\ Cardinality(holders) = 1
                 /\ h \notin Released /\ HoldersOf(h) = {}
      <4>1. holders = {t} /\ \A v \in Values : value[v] # h
        BY <3>3 DEF Has, Inv, HeldAlone, Holding
      <4> QED
        BY <3>1, <3>3, <4>1, FS_Singleton DEF Released
    <3> QED
      BY <3>2, <3>3
  <2> QED
    BY <2>1, <2>2, <2>3 DEF HandlesHaveOnePlace, Inv, ReleasedAreLinked
<1> QED
  BY <1>1, Invariance, PTL

\* The pool adds a handle only when all that it has are needed.
THEOREM PoolGrowsOnDemand ==
    ASSUME Serialized
    PROVE  Spec => []PoolIsBounded
<1>1. Inv => PoolIsBounded
  <2> SUFFICES ASSUME Inv PROVE PoolIsBounded
    OBVIOUS
  <2>1. Cardinality(Adders) \in Nat
    BY HandlePoolAssumption, FS_Subset, FS_CardinalityType DEF Adders
  <2>2. /\ Cardinality(Values) \in Nat /\ Cardinality(Threads) \in Nat
        /\ size \in Nat
    BY HandlePoolAssumption, FS_CardinalityType DEF Inv, TypeOK
  <2> QED
    BY <2>1, <2>2 DEF Inv, AddedAreNeeded, PoolIsBounded
<1> QED
  BY <1>1, Invariance, PTL

\* A handle stays with its object while a value has it, so what one value and
\* one thread do is not seen by the others.
THEOREM HandlesImplementSharedValues ==
    ASSUME Serialized
    PROVE  Spec => ImplementsSharedValues
<1> DEFINE refersTo == [v \in Values |-> IF value[v] = Null THEN Null ELSE word[value[v]]]
<1>1. Init => Shared!Init
  BY DEF Init, Shared!Init
<1>2. Inv /\ [Next]_vars => [Shared!Next]_refersTo
  <2> SUFFICES ASSUME Inv, [Next]_vars
               PROVE  Shared!Next \/ UNCHANGED refersTo
    OBVIOUS
  <2> USE DEF Goto, Return, pool, making
  <2>1. TypeOK /\ Null \notin Objects
    BY HandlePoolAssumption DEF Inv
  <2>2. CASE UNCHANGED vars
    BY <2>2 DEF vars
  <2>3. ASSUME NEW t \in Threads, Step(t)
        PROVE  Shared!Next \/ UNCHANGED refersTo
    <3>1. \A v \in Values :
            value[v] # Null => word[value[v]] \in Objects
                               /\ word'[value[v]] = word[value[v]]
      BY <2>3, WordsStay DEF Inv, ObjectsInPlace
    <3>2. CASE UNCHANGED value
      BY <3>1, <3>2
    <3>3. ASSUME NEW v \in Values, NEW w \in Values, Copy(t, v, w)
          PROVE  Shared!Next
      <4>1. refersTo' = [refersTo EXCEPT ![w] = refersTo[v]]
        BY <2>1, <3>1, <3>3 DEF TypeOK, Copy
      <4>2. refersTo[v] # Null /\ refersTo[w] = Null
        BY <2>1, <3>1, <3>3 DEF Copy
      <4>3. Shared!Copy(v, w)
        BY <4>1, <4>2 DEF Shared!Copy
      <4> QED
        BY <4>3 DEF Shared!Next
    <3>4. ASSUME NEW v \in Values, NEW w \in Values, Move(t, v, w)
          PROVE  Shared!Next
      <4>1. refersTo' = [refersTo EXCEPT ![w] = refersTo[v], ![v] = Null]
        BY <2>1, <3>1, <3>4 DEF TypeOK, Move
      <4>2. refersTo[v] # Null /\ refersTo[w] = Null
        BY <2>1, <3>1, <3>4 DEF Move
      <4>3. Shared!Move(v, w)
        BY <4>1, <4>2 DEF Shared!Move
      <4> QED
        BY <4>3 DEF Shared!Next
    <3>5. ASSUME NEW v \in Values, NEW w \in Values, Swap(t, v, w)
          PROVE  Shared!Next
      <4>1. refersTo' = [refersTo EXCEPT ![v] = refersTo[w], ![w] = refersTo[v]]
        BY <2>1, <3>1, <3>5 DEF TypeOK, Swap
      <4>2. Shared!Swap(v, w)
        BY <3>1, <3>5, <4>1 DEF Swap, Shared!Swap
      <4> QED
        BY <4>2 DEF Shared!Next
    <3>6. ASSUME NEW v \in Values, Release(t, v)
          PROVE  Shared!Next
      <4>1. refersTo' = [refersTo EXCEPT ![v] = Null]
        BY <2>1, <3>1, <3>6 DEF TypeOK, Release
      <4>2. refersTo[v] # Null
        BY <2>1, <3>1, <3>6 DEF Release
      <4>3. Shared!Drop(v)
        BY <4>1, <4>2 DEF Shared!Drop
      <4> QED
        BY <4>3 DEF Shared!Next
    <3>7. CASE Retain(t)
      <4>1. /\ target[t] \in Values /\ object[t] \in Objects
            /\ value[target[t]] = Null /\ word[item[t]] = object[t]
            /\ item[t] # Null
        BY <3>7 DEF Retain, Inv, MakersHaveTargets, ObjectsInPlace, Making,
           HandlesExist, Holding, Null
      <4>2. refersTo' = [refersTo EXCEPT ![target[t]] = object[t]]
        BY <2>1, <3>1, <3>7, <4>1 DEF TypeOK, Retain
      <4> QED
        BY <4>1, <4>2 DEF Shared!Next, Shared!Make
    <3>8. CASE (\E v \in Values, o \in Objects : MakeHandle(t, v, o))
               \/ PopEmpty(t) \/ ReadNext(t) \/ PopExchange(t) \/ PopRetry(t)
               \/ Fill(t) \/ FindSlot(t) \/ Construct(t)
               \/ Push(t) \/ PushExchange(t) \/ PushRetry(t)
      <4>1. UNCHANGED value
        BY <3>8 DEF MakeHandle, PopEmpty, ReadNext, PopExchange, PopRetry, Fill,
           FindSlot, Construct, Push, PushExchange, PushRetry
      <4> QED
        BY <3>2, <4>1
    <3> QED
      BY <2>3, <3>3, <3>4, <3>5, <3>6, <3>7, <3>8 DEF Step
  <2> QED
    BY <2>2, <2>3 DEF Next
<1> QED
  BY <1>1, <1>2, Invariance, PTL DEF Spec, ImplementsSharedValues, Shared!Spec

=============================================================================
