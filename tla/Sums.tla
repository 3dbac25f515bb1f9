-------------------------------- MODULE Sums --------------------------------
(* Sums over finite sets, for the properties that add up money.            *)
EXTENDS Integers, FiniteSetsExt

(* The sum of w[x] for x in S. *)
SumOver(w, S) == MapThenSumSet(LAMBDA x : w[x], S)
=============================================================================
