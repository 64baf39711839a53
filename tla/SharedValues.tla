---------------------------- MODULE SharedValues ----------------------------
(***************************************************************************)
(* What handles promise the values that share them: a value refers to the  *)
(* object it was made with or copied from until it is dropped, whatever    *)
(* becomes of the other values.                                            *)
(***************************************************************************)
CONSTANTS
    Values,     \* variables of clients
    Objects,    \* objects on the heap
    Nothing     \* what a value without an object refers to; not in Objects

VARIABLE refersTo       \* refersTo[v]: the object of value v, or Nothing

Init == refersTo = [v \in Values |-> Nothing]

Make(v, o) ==
    /\ refersTo[v] = Nothing
    /\ refersTo' = [refersTo EXCEPT ![v] = o]

Copy(v, w) ==
    /\ refersTo[v] # Nothing /\ refersTo[w] = Nothing
    /\ refersTo' = [refersTo EXCEPT ![w] = refersTo[v]]

Move(v, w) ==
    /\ refersTo[v] # Nothing /\ refersTo[w] = Nothing
    /\ refersTo' = [refersTo EXCEPT ![w] = refersTo[v], ![v] = Nothing]

Swap(v, w) ==
    refersTo' = [refersTo EXCEPT ![v] = refersTo[w], ![w] = refersTo[v]]

Drop(v) ==
    /\ refersTo[v] # Nothing
    /\ refersTo' = [refersTo EXCEPT ![v] = Nothing]

Next ==
    \E v \in Values :
      \/ \E o \in Objects : Make(v, o)
      \/ \E w \in Values : Copy(v, w) \/ Move(v, w) \/ Swap(v, w)
      \/ Drop(v)

Spec == Init /\ [][Next]_refersTo

=============================================================================
