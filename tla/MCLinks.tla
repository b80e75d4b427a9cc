------------------------------- MODULE MCLinks -------------------------------
(* Links on small instances.                                                *)
EXTENDS LinksInv, TLC
CONSTANTS l1, l2, t1, t2, r1, r2

Symmetric == Permutations(Requests) \cup Permutations(Links)
=============================================================================
