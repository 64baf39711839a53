----------------------------- MODULE ObjectGraph -----------------------------
(***************************************************************************)
(* What the garbage-collected heap promises its clients: immutable objects *)
(* that refer to older ones and stay as they are while a client can reach  *)
(* them.  Where objects are, and that they move, cannot be seen.           *)
(***************************************************************************)
EXTENDS Integers, Sequences, FiniteSets, SequencesExt

CONSTANTS
    Names,      \* names for objects; one that is no longer reachable is reused
    Clients,    \* what refers to objects from outside the heap
    MaxRefs     \* the most references in an object

VARIABLES
    root,       \* root[c]: the object client c refers to, or Nothing
    refs        \* refs[n]: what the reachable object n refers to

vars == <<root, refs>>

Nothing == -1
EmptyMap == 0       \* the object without references that is always there

Init ==
    /\ root = [c \in Clients |-> Nothing]
    /\ refs = <<>>

\* The names reachable from the roots r over the references g.
Reachable(r, g) ==
    LET Level[n \in 0..Cardinality(Names)] ==
          IF n = 0 THEN Range(r)
          ELSE UNION {{x} \cup IF x \in DOMAIN g THEN ToSet(g[x]) ELSE {} : x \in Level[n - 1]}
    IN  Level[Cardinality(Names)] \cap DOMAIN g

\* Client c refers to n.  With new objects g added to those there are, what no
\* client can reach any more is gone.
Become(c, n, g) ==
    /\ root' = [root EXCEPT ![c] = n]
    /\ refs' = Restrict(g, Reachable(root', g))

Known == DOMAIN refs \cup {EmptyMap}

\* A client refers to an object that some client can reach, or to nothing.
Refer(c, n) ==
    /\ Become(c, n, refs)
    /\ n \in Known \cup {Nothing}

\* The references with those of one more object.
With(n, r) == [x \in DOMAIN refs \cup {n} |-> IF x = n THEN r ELSE refs[x]]

\* A client gets a new object made of objects that are reachable.
Construct(c, n) ==
    /\ root' = [root EXCEPT ![c] = n] /\ n \in Names \ DOMAIN refs
    /\ \E r \in BoundedSeq(Known, MaxRefs) : Become(c, n, With(n, r))

Next == \E c \in Clients : \E n \in Names \cup {EmptyMap, Nothing} :
          Refer(c, n) \/ Construct(c, n)

Spec == Init /\ [][Next]_vars

=============================================================================
