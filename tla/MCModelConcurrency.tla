------------------------ MODULE MCModelConcurrency ------------------------
(* ModelConcurrency on small instances. *)
EXTENDS ModelConcurrency, TLC

CONSTANTS r1, r2, r3

Symmetry == Permutations(Requests)
=============================================================================
