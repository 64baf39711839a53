---------------------------- MODULE ValueSequence ----------------------------
(***************************************************************************)
(* What a blocked vector promises: a sequence that grows and shrinks at    *)
(* its end, and whose values can be assigned.                              *)
(***************************************************************************)
EXTENDS Naturals, SequencesExt

CONSTANT Values

VARIABLE content

Init == content = <<>>

Push(v) == content' = Append(content, v)

Pop == content # <<>> /\ content' = Front(content)

Clear == content' = <<>>

Assign(i, v) == content' = [content EXCEPT ![i] = v]

Next ==
    \/ \E v \in Values : Push(v) \/ \E i \in DOMAIN content : Assign(i, v)
    \/ Pop
    \/ Clear

Spec == Init /\ [][Next]_content

=============================================================================
