------------------------------ MODULE FiniteMap ------------------------------
(***************************************************************************)
(* What a hash map promises: it is a finite function from keys to values,  *)
(* whatever the order of the calls that made it.                           *)
(***************************************************************************)
EXTENDS Functions, TLC

CONSTANTS Keys, Values

VARIABLE content

With(f, k, v) == (k :> v) @@ f

Without(f, k) == Restrict(f, DOMAIN f \ {k})

\* What one call makes of a map.
Changes(f) ==
    {With(f, k, v) : k \in Keys, v \in Values} \cup {Without(f, k) : k \in Keys}

Init == content = <<>>

Next == \E old \in {content} : content' \in Changes(old)

Spec == Init /\ [][Next]_content

=============================================================================
