----------------------------- MODULE BlockExtents -----------------------------
(***************************************************************************)
(* What RootBlockAllocator promises its clients: every block it hands out  *)
(* is a stretch of memory at least as long as was asked for, and not much  *)
(* longer, that no other client has until it is given back.  An extent is  *)
(* a triple <<first, length, asked for>> in units of a block.              *)
(***************************************************************************)
EXTENDS Integers

CONSTANTS
    MemoryBlocks,     \* the size of the address space
    Slack,            \* how much longer than asked for an extent may be
    Requests          \* the lengths clients ask for

VARIABLE extents      \* the extents handed out and not given back

Disjoint(e, f) == e[1] + e[2] <= f[1] \/ f[1] + f[2] <= e[1]

Init == extents = {}

Allocate(n) ==
    \E first \in 0..MemoryBlocks - n, length \in n..n + Slack :
      /\ first + length <= MemoryBlocks
      /\ \A e \in extents : Disjoint(e, <<first, length>>)
      /\ extents' = extents \cup {<<first, length, n>>}

Deallocate(e) == extents' = extents \ {e}

Next ==
    \/ \E e \in extents : Deallocate(e)
    \/ \E n \in Requests : Allocate(n)

Spec == Init /\ [][Next]_extents

=============================================================================
