--------------------------- MODULE MCSettlement ---------------------------
(* Settlement on small instances. *)
EXTENDS Settlement, TLC

CONSTANTS r1, r2, w1, w2

Symmetry == Permutations(Requests) \cup Permutations(Workers)
=============================================================================
