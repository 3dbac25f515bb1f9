------------------------------ MODULE Pricing ------------------------------
(***************************************************************************)
(* What a request is charged: the estimate that AuthAndPreDeductMiddleware *)
(* holds before it runs and the actual cost that the proxy settles.  Both  *)
(* are int64 and wrap around; a multiplier is a float32 in the code and    *)
(* the exact fraction num/den here.  A price is per TokenUnit tokens.      *)
(***************************************************************************)
EXTENDS Integers

CONSTANTS TokenUnit,  \* 1000000 in the code
          HalfRange   \* 2^63: an int64 is below it and not below its negative

ASSUME PricingAssumption == TokenUnit \in Nat \ {0} /\ HalfRange \in Nat \ {0}

Int64 == -HalfRange .. HalfRange - 1

(* What int64 arithmetic makes of an exact result: two's complement. *)
Wrap(n) == ((n + HalfRange) % (2 * HalfRange)) - HalfRange

(* The conversion of a float64, which the Makefile builds for amd64: one   *)
(* that does not fit becomes the least int64.                              *)
ToInt64(x) == IF x \in Int64 THEN x ELSE -HalfRange

Ceil(num, den) == (num + den - 1) \div den

Round(num, den) == (2 * num + den) \div (2 * den)

ApplyMultiplier(baseAmount, mult, roundUp) ==
  LET scaled == baseAmount * mult.num
  IN  IF baseAmount <= 0 THEN 0
      ELSE ToInt64(IF roundUp THEN Ceil(scaled, mult.den) ELSE Round(scaled, mult.den))

(* An image request is charged for the images it asks for, a chat for one; *)
(* a request that names no number of images asks for one.                  *)
billingUnits(q) == IF q.type = "image_generation" /\ q.n > 0 THEN q.n ELSE 1

(* An image request reserves no output tokens; a chat that names no bound  *)
(* reserves the default.                                                   *)
maxOutputTokens(q) ==
  IF q.type = "image_generation" THEN 0
  ELSE IF q.max > 0 THEN q.max ELSE q.defaultMax

(* The exact amount, of which the code has what fits in an int64; the      *)
(* request chooses both n and max.                                         *)
estimatedTotal(m, q) ==
  IF m.mode = "request" THEN m.request * billingUnits(q)
  ELSE q.prompt * m.input + maxOutputTokens(q) * m.output

(* Division truncates in the code; a negative amount counts as zero anyway. *)
estimatedBaseCost(m, q) ==
  Wrap(estimatedTotal(m, q)) \div (IF m.mode = "request" THEN 1 ELSE TokenUnit)

(* Mutant of estimatedCost: the conversion to an integer truncates. *)
estimatedCostTruncated(m, q) ==
  LET cost == (estimatedBaseCost(m, q) * m.mult.num) \div m.mult.den
  IN  IF cost <= 0 THEN 1 ELSE cost

(* Rounded up, and never zero, so that an empty account is refused. *)
estimatedCost(m, q) ==
  LET cost == ApplyMultiplier(estimatedBaseCost(m, q), m.mult, TRUE)
  IN  IF cost = 0 THEN 1 ELSE cost

(* The prices settlement falls back to when it cannot find the model. *)
NoPrices == [mode |-> "token", input |-> 0, output |-> 0, hit |-> 0, miss |-> 0,
             request |-> 0, mult |-> [num |-> 1, den |-> 1]]

(* Prompt tokens by price; cached and missed ones count only if the        *)
(* upstream reports some of either.                                        *)
PromptTokens(u) ==
  LET rest == Wrap(u.prompt - u.hit - u.miss)
  IN  IF u.hit > 0 \/ u.miss > 0
      THEN [regular |-> IF rest < 0 THEN 0 ELSE rest, hit |-> u.hit, miss |-> u.miss]
      ELSE [regular |-> u.prompt, hit |-> 0, miss |-> 0]

ByRequest(m, q) == m.mode = "request" \/ q.type = "image_generation"

actualTotal(m, q, u) ==
  LET t == PromptTokens(u)
  IN  IF ByRequest(m, q) THEN m.request * billingUnits(q)
      ELSE t.regular * m.input + t.hit * m.hit
           + t.miss * (IF m.miss <= 0 THEN m.input ELSE m.miss)
           + u.completion * m.output

actualBaseCost(m, q, u) ==
  Wrap(actualTotal(m, q, u)) \div (IF ByRequest(m, q) THEN 1 ELSE TokenUnit)

(* An unset multiplier counts as one here, and as zero in the estimate. *)
settlementMultiplier(m) == IF m.mult.num <= 0 THEN [num |-> 1, den |-> 1] ELSE m.mult

computeActualCost(m, q, u) ==
  ApplyMultiplier(actualBaseCost(m, q, u), settlementMultiplier(m), FALSE)

=============================================================================
