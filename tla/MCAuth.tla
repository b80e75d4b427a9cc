------------------------------- MODULE MCAuth -------------------------------
(* Auth on a small instance.                                                *)
EXTENDS AuthInv, TLC
CONSTANTS u1, l1, l2, s1, s2, p1, p2, c1, c2

Symmetric ==
    Permutations(Calls) \cup Permutations(Passwords)
        \cup Permutations(Links) \cup Permutations(Sids)
=============================================================================
