--------------------------- MODULE FrameOwnership ---------------------------
(***************************************************************************)
(* What Heap::lock and Heap::unlock promise their callers: between the two *)
(* calls a thread has one frame (its nursery, where it allocates without   *)
(* synchronisation), and no other thread has that frame.  Which frame a    *)
(* thread gets, and how it waits for one, is left open.                    *)
(***************************************************************************)
EXTENDS Integers

CONSTANTS
    Threads,      \* the threads that use the heap
    MaxFrames     \* the most frames a heap ever has

VARIABLES
    has,          \* has[t]: the frame thread t has, or Nothing
    size          \* the number of frames that exist, 0 .. size - 1

vars == <<has, size>>

Nothing == -1

Taken == {has[t] : t \in Threads}

Init ==
    /\ has = [t \in Threads |-> Nothing]
    /\ size \in 1..MaxFrames

\* A thread without a frame gets one that nobody has.
Acquire(t) ==
    /\ has[t] = Nothing
    /\ \E f \in 0..size - 1 :
         /\ f \notin Taken
         /\ has' = [has EXCEPT ![t] = f]
    /\ UNCHANGED size

\* A thread gives its frame back.
Release(t) ==
    /\ has[t] # Nothing
    /\ has' = [has EXCEPT ![t] = Nothing]
    /\ UNCHANGED size

\* The heap adds a frame.
Grow ==
    /\ size < MaxFrames
    /\ size' = size + 1
    /\ UNCHANGED has

Next ==
    \/ Grow
    \/ \E t \in Threads : Acquire(t) \/ Release(t)

Spec == Init /\ [][Next]_vars

=============================================================================
