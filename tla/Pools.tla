------------------------------- MODULE Pools -------------------------------
(***************************************************************************)
(* The arithmetic of the three balance pools: sub (paid subscription),    *)
(* grant (subscription gift) and cash (top-up).  Every operator below is  *)
(* the body of one Redis Lua script or of one pure Go function; nothing    *)
(* here has state.  Amounts are the integers of the code (money * 10^8).   *)
(***************************************************************************)
EXTENDS Integers

PoolNames == {"sub", "grant", "cash"}

Policies == {"all", "cash_only", "grant_only"}

(* A Deduction: how much a request took from each pool. *)
Deductions == [PoolNames -> Nat]

NoDeduction == [p \in PoolNames |-> 0]

Total(d) == d["sub"] + d["grant"] + d["cash"]

(* use_sub, use_grant and use_cash of the scripts. *)
Uses(policy, p) ==
  IF p = "cash" THEN policy # "grant_only" ELSE policy # "cash_only"

(* The balances a policy lets a script touch: the others count as empty. *)
Usable(b, policy) == [p \in PoolNames |-> IF Uses(policy, p) THEN b[p] ELSE 0]

(* take(): nothing from an empty or overdrawn pool, nothing once satisfied. *)
Take(bal, rem) ==
  IF bal <= 0 \/ rem <= 0 THEN 0 ELSE IF bal > rem THEN rem ELSE bal

(* amt taken out of b in the order of consumption, sub, grant, cash. *)
TakeInOrder(b, amt) ==
  LET s == Take(b["sub"], amt)
      g == Take(b["grant"], amt - s)
      c == Take(b["cash"], amt - s - g)
  IN  [p \in PoolNames |->
         IF p = "sub" THEN s ELSE IF p = "grant" THEN g ELSE c]

(* amt handed back in the reverse order, each pool at most its cap in d. *)
GiveInOrder(d, amt) ==
  LET c == Take(d["cash"], amt)
      g == Take(d["grant"], amt - c)
      s == Take(d["sub"], amt - c - g)
  IN  [p \in PoolNames |->
         IF p = "sub" THEN s ELSE IF p = "grant" THEN g ELSE c]

(* Mutant of Affordable: the policy is not applied to the check. *)
AffordableFromAny(b, policy, cost) == Total(b) >= cost

(* Mutant of PreDeductTake: the policy is not applied to the take. *)
PreDeductTakeAny(b, policy, cost) == TakeInOrder(b, cost)

(* pre_deduct.lua, all three keys present: is there enough, and what goes. *)
Affordable(b, policy, cost) == Total(Usable(b, policy)) >= cost

PreDeductTake(b, policy, cost) == TakeInOrder(Usable(b, policy), cost)

(* refund.lua: what goes back of the deduction d. *)
RefundGive(d, amt) == GiveInOrder(d, amt)

(* Mutant of CompensateTake: the last pool pays the rest, without a floor. *)
CompensateNoFloor(b, policy, amt) ==
  LET t == TakeInOrder(Usable(b, policy), amt)
  IN  [t EXCEPT !["cash"] = amt - t["sub"] - t["grant"]]

(* compensate.lua: what is taken on top, down to zero and no further. *)
CompensateTake(b, policy, amt) == TakeInOrder(Usable(b, policy), amt)

(* Mutants of splitActual3: from the tail; a cost above the deduction is   *)
(* charged to cash.                                                        *)
splitFromTail(actualCost, d) == GiveInOrder(d, actualCost)

splitRestToCash(actualCost, d) ==
  LET t == TakeInOrder(d, actualCost)
  IN  [t EXCEPT !["cash"] = actualCost - t["sub"] - t["grant"]]

(* splitActual3: the pools the worker charges in Postgres for actualCost. *)
splitActual3(actualCost, d) == TakeInOrder(d, actualCost)
=============================================================================
