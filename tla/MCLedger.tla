------------------------------ MODULE MCLedger ------------------------------
(* A small instance of Ledger: a shop that sells top-ups and plans.        *)
EXTENDS Ledger

CONSTANTS refund, plan, renew, other

Order ==
  [kind |-> "order", cfg |-> "none", type |-> "", cfgPool |-> "",
   metaPool |-> "", dir |-> "", cfgAmount |-> 0, recharge |-> 0,
   productRecharge |-> 0, amount |-> 3, plan |-> FALSE]

Sub(s, g, x) == [kind |-> "apply", sub |-> s, grant |-> g, exp |-> x, tier |-> 1]

OneTopUp == {[pool |-> "cash", amount |-> 1]}

(* A plan, its renewal, a refund of 1 that the integration of an order     *)
(* asks for, and an order without a mapping.                               *)
MCPayload ==
  [e \in Events |->
     CASE e = refund -> [Order EXCEPT !.cfg = "on", !.type = "refund",
                           !.cfgPool = "cash", !.dir = "debit", !.cfgAmount = 1]
       [] e = plan -> Sub(1, 1, 1)
       [] e = renew -> Sub(1, 0, 3)
       [] OTHER -> Order]
=============================================================================
