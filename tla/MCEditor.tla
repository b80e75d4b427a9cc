------------------------------ MODULE MCEditor ------------------------------
(* Two requests on a small test; requests, questions, names and methods are *)
(* interchangeable.                                                         *)
EXTENDS EditorInv

Symmetry ==
    Permutations(Calls) \cup Permutations(Old) \cup Permutations(Names)
        \cup Permutations(Methods)

=============================================================================
