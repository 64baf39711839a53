-------------------------------- MODULE Totals --------------------------------
(* Sums and powers, as recursive functions. *)
EXTENDS Integers, Sequences

\* The sum of the numbers in a sequence.
Total(numbers) ==
    LET UpTo[n \in 0..Len(numbers)] == IF n = 0 THEN 0 ELSE UpTo[n - 1] + numbers[n]
    IN  UpTo[Len(numbers)]

PowerOfTwo[n \in Nat] == IF n = 0 THEN 1 ELSE 2 * PowerOfTwo[n - 1]

=============================================================================
