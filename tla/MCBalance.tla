----------------------------- MODULE MCBalance -----------------------------
(* BalanceCache on small instances. *)
EXTENDS BalanceCache

CONSTANTS r1, r2, r3, v1, c1, c2, s1

(* The requests differ in cost and in the policy of their model. *)
CostOf == [r \in Requests |-> IF r = r3 THEN 1 ELSE 2]

MixedPolicy ==
  [r \in Requests |->
     IF r = r1 THEN "all" ELSE IF r = r2 THEN "grant_only" ELSE "cash_only"]

(* c1 tops up cash, c2 debits the grant pool. *)
CreditPoolOf == [c \in Credits |-> IF c = c1 THEN "cash" ELSE "grant"]

CreditDeltaOf == [c \in Credits |-> IF c = c1 THEN 2 ELSE -1]

OneEach == [p \in PoolNames |-> 1]
=============================================================================
