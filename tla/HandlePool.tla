----------------------------- MODULE HandlePool -----------------------------
(***************************************************************************)
(* The handles through which values refer to objects, their reference      *)
(* counts, and the lock-free stack of released handles.  A step is one     *)
(* access to memory that threads share; steps of a thread are in program   *)
(* order.                                                                  *)
(*                                                                         *)
(*   source                              here                              *)
(*   HandlePool::handles_                handles 1..size                   *)
(*   Handle::obj_ and next_ (a union)    word[h]                           *)
(*   Handle::ref_count_                  count[h]                          *)
(*   AtomicIntrusiveStack::top_          top                               *)
(*   AbstractValue::data_.handle         value[v]                          *)
(*   value in pop(), push()              item[t]                           *)
(*   next(value), as pop() has read it   next[t]                           *)
(*                                                                         *)
(* Clients do not use a value in two threads at once.  Serial names the    *)
(* parts of makeHandle that they, too, run in one thread at a time: with   *)
(* none, handles get lost and are shared.                                  *)
(***************************************************************************)
EXTENDS Integers, FiniteSets

CONSTANTS
    Threads,
    Values,         \* variables of clients
    Objects,        \* objects on the heap, in which a Handle cannot lie
    MaxHandles,     \* bound: handles in the pool
    Serial          \* the parts of makeHandle run by one thread at a time

Handles == 1..MaxHandles
Null == 0           \* nullptr

ASSUME HandlePoolAssumption ==
    /\ MaxHandles \in Nat
    /\ IsFiniteSet(Values) /\ IsFiniteSet(Threads) /\ Threads # {}
    /\ Null \notin Objects \cup Values /\ Objects \cap Handles = {}
    /\ Serial \subseteq {"pop", "append"}

VARIABLES
    size, word, count, top, value,
    pc,             \* pc[t]: what t does next
    item,
    next,
    target,         \* target[t]: the value that t makes
    object          \* object[t]: the object that t makes it with

pool == <<size, word, count, top>>
making == <<target, object>>
vars == <<pool, value, pc, item, next, making>>

Init ==
    /\ size = 0
    /\ word = [h \in Handles |-> Null]
    /\ count = [h \in Handles |-> 0]
    /\ top = Null
    /\ value = [v \in Values |-> Null]
    /\ pc = [t \in Threads |-> "idle"]
    /\ item = [t \in Threads |-> Null]
    /\ next = [t \in Threads |-> Null]
    /\ target = [t \in Threads |-> Null]
    /\ object = [t \in Threads |-> Null]

Goto(t, where) == pc' = [pc EXCEPT ![t] = where]

\* What a thread has no more use for is forgotten.
Return(t) ==
    /\ Goto(t, "idle")
    /\ item' = [item EXCEPT ![t] = Null]

Popping == {"pop", "exchange"}
Appending == {"construct"}
Making == Popping \cup Appending \cup {"fill", "append", "retain"}

InUse(v) == \E t \in Threads : pc[t] \in Making /\ target[t] = v

-----------------------------------------------------------------------------
(* HandlePool::makeHandle and the HandlePtr it returns *)

\* Mutant of MakeHandle: released handles are not used again.
MakeAnew(t, v, o) ==
    /\ pc[t] = "idle" /\ value[v] = Null /\ ~InUse(v)
    /\ Goto(t, "append")
    /\ target' = [target EXCEPT ![t] = v]
    /\ object' = [object EXCEPT ![t] = o]
    /\ UNCHANGED <<pool, value, item, next>>

\* The first access is pop()'s load of the top.
MakeHandle(t, v, o) ==
    /\ pc[t] = "idle" /\ value[v] = Null /\ ~InUse(v)
    /\ "pop" \in Serial => \A u \in Threads : pc[u] \notin Popping
    /\ Goto(t, "pop")
    /\ item' = [item EXCEPT ![t] = top]
    /\ target' = [target EXCEPT ![t] = v]
    /\ object' = [object EXCEPT ![t] = o]
    /\ UNCHANGED <<pool, value, next>>

PopEmpty(t) ==
    /\ pc[t] = "pop" /\ item[t] = Null
    /\ Goto(t, "append")
    /\ UNCHANGED <<pool, value, item, next, making>>

\* The next of the top is read for the exchange.
ReadNext(t) ==
    /\ pc[t] = "pop" /\ item[t] # Null
    /\ next' = [next EXCEPT ![t] = word[item[t]]]
    /\ Goto(t, "exchange")
    /\ UNCHANGED <<pool, value, item, making>>

PopExchange(t) ==
    /\ pc[t] = "exchange" /\ top = item[t]
    /\ top' = next[t]
    /\ next' = [next EXCEPT ![t] = Null]
    /\ Goto(t, "fill")
    /\ UNCHANGED <<size, word, count, value, item, making>>

\* compare_exchange_weak loads the top when it fails, and may always fail.
PopRetry(t) ==
    /\ pc[t] = "exchange"
    /\ item' = [item EXCEPT ![t] = top]
    /\ next' = [next EXCEPT ![t] = Null]
    /\ Goto(t, "pop")
    /\ UNCHANGED <<pool, value, making>>

\* The next of the handle is reset and its object set: the same memory.
Fill(t) ==
    /\ pc[t] = "fill"
    /\ word' = [word EXCEPT ![item[t]] = object[t]]
    /\ Goto(t, "retain")
    /\ UNCHANGED <<size, count, top, value, item, next, making>>

\* BlockedVector::emplace_back finds the slot...
FindSlot(t) ==
    /\ pc[t] = "append" /\ size < MaxHandles
    /\ "append" \in Serial => \A u \in Threads : pc[u] \notin Appending
    /\ item' = [item EXCEPT ![t] = size + 1]
    /\ Goto(t, "construct")
    /\ UNCHANGED <<pool, value, next, making>>

\* ... and makes it a handle.
Construct(t) ==
    /\ pc[t] = "construct"
    /\ size' = item[t]
    /\ word' = [word EXCEPT ![item[t]] = object[t]]
    /\ count' = [count EXCEPT ![item[t]] = 0]
    /\ Goto(t, "retain")
    /\ UNCHANGED <<top, value, item, next, making>>

Retain(t) ==
    /\ pc[t] = "retain"
    /\ count' = [count EXCEPT ![item[t]] = @ + 1]
    /\ value' = [value EXCEPT ![target[t]] = item[t]]
    /\ Return(t)
    /\ target' = [target EXCEPT ![t] = Null]
    /\ object' = [object EXCEPT ![t] = Null]
    /\ UNCHANGED <<size, word, top, next>>

-----------------------------------------------------------------------------
(* Values; an assignment is a release and a copy or a move *)

\* Mutant of Copy: the handle is not retained.
CopyHandle(t, v, w) ==
    /\ pc[t] = "idle"
    /\ value[v] # Null /\ value[w] = Null /\ ~InUse(w)
    /\ value' = [value EXCEPT ![w] = value[v]]
    /\ UNCHANGED <<pool, pc, item, next, making>>

\* Mutant of Move: the other value is not reset.
MoveWithoutReset(t, v, w) ==
    /\ pc[t] = "idle"
    /\ value[v] # Null /\ value[w] = Null /\ ~InUse(w)
    /\ value' = [value EXCEPT ![w] = value[v]]
    /\ UNCHANGED <<pool, pc, item, next, making>>

Copy(t, v, w) ==
    /\ pc[t] = "idle"
    /\ value[v] # Null /\ value[w] = Null /\ ~InUse(w)
    /\ count' = [count EXCEPT ![value[v]] = @ + 1]
    /\ value' = [value EXCEPT ![w] = value[v]]
    /\ UNCHANGED <<size, word, top, pc, item, next, making>>

Move(t, v, w) ==
    /\ pc[t] = "idle"
    /\ value[v] # Null /\ value[w] = Null /\ ~InUse(w)
    /\ value' = [value EXCEPT ![w] = value[v], ![v] = Null]
    /\ UNCHANGED <<pool, pc, item, next, making>>

Swap(t, v, w) ==
    /\ pc[t] = "idle"
    /\ v # w /\ ~InUse(v) /\ ~InUse(w)
    /\ value' = [value EXCEPT ![v] = value[w], ![w] = value[v]]
    /\ UNCHANGED <<pool, pc, item, next, making>>

\* Mutant of Release: a handle is reclaimed when one value still has it.
ReleaseEarly(t, v) ==
    /\ pc[t] = "idle" /\ value[v] # Null
    /\ value' = [value EXCEPT ![v] = Null]
    /\ count' = [count EXCEPT ![value[v]] = @ - 1]
    /\ Goto(t, "push")
    /\ item' = [item EXCEPT ![t] = value[v]]
    /\ UNCHANGED <<size, word, top, next, making>>

\* Handle::release, up to the decision to reclaim the handle.
Release(t, v) ==
    /\ pc[t] = "idle" /\ value[v] # Null
    /\ value' = [value EXCEPT ![v] = Null]
    /\ count' = [count EXCEPT ![value[v]] = @ - 1]
    /\ IF count[value[v]] = 1
         THEN /\ Goto(t, "push")
              /\ item' = [item EXCEPT ![t] = value[v]]
         ELSE UNCHANGED <<pc, item>>
    /\ UNCHANGED <<size, word, top, next, making>>

-----------------------------------------------------------------------------
(* HandlePool::reclaim: AtomicIntrusiveStack::push *)

Push(t) ==
    /\ pc[t] = "push"
    /\ word' = [word EXCEPT ![item[t]] = top]
    /\ Goto(t, "pushExchange")
    /\ UNCHANGED <<size, count, top, value, item, next, making>>

\* Mutant of PushExchange: the top is stored without a comparison.
PushStore(t) ==
    /\ pc[t] = "pushExchange"
    /\ top' = item[t]
    /\ Return(t)
    /\ UNCHANGED <<size, word, count, value, next, making>>

PushExchange(t) ==
    /\ pc[t] = "pushExchange" /\ top = word[item[t]]
    /\ top' = item[t]
    /\ Return(t)
    /\ UNCHANGED <<size, word, count, value, next, making>>

\* The failed exchange stores the top in the next of the item.
PushRetry(t) ==
    /\ pc[t] = "pushExchange"
    /\ word' = [word EXCEPT ![item[t]] = top]
    /\ UNCHANGED <<size, count, top, value, pc, item, next, making>>

Step(t) ==
    \/ \E v \in Values :
         \/ \E o \in Objects : MakeHandle(t, v, o)
         \/ \E w \in Values : Copy(t, v, w) \/ Move(t, v, w) \/ Swap(t, v, w)
         \/ Release(t, v)
    \/ PopEmpty(t) \/ ReadNext(t) \/ PopExchange(t) \/ PopRetry(t) \/ Fill(t)
    \/ FindSlot(t) \/ Construct(t) \/ Retain(t)
    \/ Push(t) \/ PushExchange(t) \/ PushRetry(t)

Next == \E t \in Threads : Step(t)

Spec == Init /\ [][Next]_vars

-----------------------------------------------------------------------------
(* Properties *)

TypeOK ==
    /\ size \in 0..MaxHandles
    /\ word \in [Handles -> Handles \cup {Null} \cup Objects]
    /\ count \in [Handles -> Nat]
    /\ top \in Handles \cup {Null}
    /\ value \in [Values -> Handles \cup {Null}]
    /\ pc \in [Threads -> Making \cup {"idle", "push", "pushExchange"}]
    /\ item \in [Threads -> Handles \cup {Null}]
    /\ next \in [Threads -> Handles \cup {Null}]
    /\ target \in [Threads -> Values \cup {Null}]
    /\ object \in [Threads -> Objects \cup {Null}]

HoldersOf(h) == {v \in Values : value[v] = h}

\* A handle counts the values that have it (Handle::retain, release).
CountsMatch == \A h \in Handles : count[h] = Cardinality(HoldersOf(h))

\* What thread t alone has: a handle it has popped, built or is to push.
Has(t, h) ==
    item[t] = h /\ pc[t] \in {"fill", "construct", "retain", "push", "pushExchange"}

\* The top and, with every handle, its next are in S.
HasStack(S) ==
    /\ top \in S \cup {Null}
    /\ \A h \in S : word[h] \in S \cup {Null}

\* Handles on the stack: those that one gets to from the top along next_.
Stack == {h \in 1..size : \A S \in SUBSET (1..size) : HasStack(S) => h \in S}

\* A handle of the pool is on the stack, or in the hands of one thread, or
\* with values, and never in two of these places: none is lost or handed out
\* twice.  Only one thing links to a handle on the stack, so the stack ends.
HandlesHaveOnePlace ==
    LET stack == Stack
    IN  /\ HasStack(stack)
        /\ \A h \in stack : word[h] # Null =>
             word[h] # top /\ \A g \in stack \ {h} : word[g] # word[h]
        /\ \A h \in 1..size :
             Cardinality({t \in Threads : Has(t, h)})
               + (IF h \in stack THEN 1 ELSE 0)
               + (IF HoldersOf(h) # {} THEN 1 ELSE 0) = 1

\* A handle with a count has an object, not a link of the stack, so the
\* collector visits only objects (HandlePool::traverse).
CountedHandlesHaveObjects == \A h \in Handles : count[h] > 0 => word[h] \in Objects

Shared ==
    INSTANCE SharedValues
      WITH Nothing <- Null,
           refersTo <- [v \in Values |-> IF value[v] = Null THEN Null ELSE word[value[v]]]

\* The object of a value does not depend on what other values and threads do.
ImplementsSharedValues == Shared!Spec

\* The pool grows no larger than the demand: a handle for each value, and one
\* for each other thread, which may be about to push it.
PoolIsBounded == size <= Cardinality(Values) + Cardinality(Threads) - 1

(* What a check says, and the code does not do. *)

\* A handle on the top of the stack is not in use: makeHandle and reclaim
\* check that its count is 0.
TopIsReleased == top # Null => top \in Handles /\ count[top] = 0

=============================================================================
