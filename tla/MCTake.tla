------------------------------- MODULE MCTake -------------------------------
(* Take on small instances.                                                 *)
EXTENDS TakeInv, TLC
CONSTANTS a1, a2, q1, o1, o2, r1, r2

\* A one-tick test and a two-tick test; o2 is no option of q1.
MCDuration == [a \in Attempts |-> IF a = a1 THEN 2 ELSE 1]
MCOffered == [a \in Attempts |-> [q \in Questions |-> {o1}]]

Symmetric == Permutations(Requests)
=============================================================================
