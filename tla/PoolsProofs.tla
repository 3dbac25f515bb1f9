---------------------------- MODULE PoolsProofs ----------------------------
(***************************************************************************)
(* What the pool arithmetic guarantees for every balance and every amount. *)
(* Redis settles a request by giving back from the tail (cash first);      *)
(* Postgres charges it from the head (sub first).  SettlementAgrees is the *)
(* fact that makes the two ledgers agree pool by pool.  The second half    *)
(* is about the sums in which the properties add up money.                 *)
(***************************************************************************)
EXTENDS Pools, Sums, FiniteSetTheorems, WellFoundedInduction, TLAPS

(* TakeInOrder is a Deduction, and within what was there and what is asked. *)
LEMMA TakeInOrderBounds ==
  ASSUME NEW b \in [PoolNames -> Int], NEW n \in Nat
  PROVE  /\ TakeInOrder(b, n) \in Deductions
         /\ Total(TakeInOrder(b, n)) <= n
         /\ \A p \in PoolNames : b[p] >= 0 => TakeInOrder(b, n)[p] <= b[p]
  <1> DEFINE s == Take(b["sub"], n)
             g == Take(b["grant"], n - s)
             c == Take(b["cash"], n - s - g)
  <1>1. b["sub"] \in Int /\ b["grant"] \in Int /\ b["cash"] \in Int
    BY DEF PoolNames
  <1>2. s \in Nat /\ s <= n /\ (b["sub"] >= 0 => s <= b["sub"])
    BY <1>1 DEF Take
  <1>3. g \in Nat /\ g <= n - s /\ (b["grant"] >= 0 => g <= b["grant"])
    <2> HIDE DEF s
    <2> QED BY <1>1, <1>2 DEF Take
  <1>4. c \in Nat /\ c <= n - s - g /\ (b["cash"] >= 0 => c <= b["cash"])
    <2> HIDE DEF s, g
    <2> QED BY <1>1, <1>2, <1>3 DEF Take
  <1>5. TakeInOrder(b, n) = [p \in PoolNames |->
          IF p = "sub" THEN s ELSE IF p = "grant" THEN g ELSE c]
    BY DEF TakeInOrder
  <1> HIDE DEF s, g, c
  <1>6. QED
    BY <1>2, <1>3, <1>4, <1>5 DEF PoolNames, Deductions, Total

(* What is taken from a pool was there. *)
LEMMA TakeInOrderWithin ==
  ASSUME NEW b \in [PoolNames -> Int], NEW n \in Nat, NEW p \in PoolNames,
         TakeInOrder(b, n)[p] > 0
  PROVE  TakeInOrder(b, n)[p] <= b[p]
  <1> DEFINE s == Take(b["sub"], n)
             g == Take(b["grant"], n - s)
             c == Take(b["cash"], n - s - g)
  <1>1. b["sub"] \in Int /\ b["grant"] \in Int /\ b["cash"] \in Int
    BY DEF PoolNames
  <1>2. s \in Int /\ (s > 0 => s <= b["sub"])
    BY <1>1 DEF Take
  <1>3. g \in Int /\ (g > 0 => g <= b["grant"])
    <2> HIDE DEF s
    <2> QED BY <1>1, <1>2 DEF Take
  <1>4. c > 0 => c <= b["cash"]
    <2> HIDE DEF s, g
    <2> QED BY <1>1, <1>2, <1>3 DEF Take
  <1>5. TakeInOrder(b, n) = [q \in PoolNames |->
          IF q = "sub" THEN s ELSE IF q = "grant" THEN g ELSE c]
    BY DEF TakeInOrder
  <1> HIDE DEF s, g, c
  <1>6. QED
    BY <1>2, <1>3, <1>4, <1>5 DEF PoolNames

(* pre_deduct.lua and compensate.lua take from the pools of the policy     *)
(* only, and leave at least zero where they take.                          *)
LEMMA ScriptsTake ==
  ASSUME NEW b \in [PoolNames -> Int], NEW policy, NEW n \in Nat
  PROVE  /\ TakeInOrder(Usable(b, policy), n) \in Deductions
         /\ \A p \in PoolNames :
              TakeInOrder(Usable(b, policy), n)[p] > 0 =>
                /\ Uses(policy, p)
                /\ TakeInOrder(Usable(b, policy), n)[p] <= b[p]
  <1> DEFINE u == Usable(b, policy)
  <1>1. /\ u \in [PoolNames -> Int]
        /\ \A p \in PoolNames : u[p] = IF Uses(policy, p) THEN b[p] ELSE 0
    BY DEF Usable
  <1> HIDE DEF u
  <1>2. /\ TakeInOrder(u, n) \in Deductions
        /\ \A p \in PoolNames : TakeInOrder(u, n)[p] > 0 => TakeInOrder(u, n)[p] <= u[p]
    BY <1>1, TakeInOrderBounds, TakeInOrderWithin
  <1>3. ASSUME NEW p \in PoolNames, TakeInOrder(u, n)[p] > 0
        PROVE  Uses(policy, p) /\ TakeInOrder(u, n)[p] <= b[p]
    <2>1. TakeInOrder(u, n)[p] <= u[p] /\ TakeInOrder(u, n)[p] \in Nat
      BY <1>2, <1>3 DEF Deductions
    <2>2. QED
      BY <1>1, <1>3, <2>1
  <1>4. QED
    BY <1>2, <1>3 DEF u

(* refund.lua gives back a Deduction. *)
LEMMA RefundGiveType ==
  ASSUME NEW d \in Deductions, NEW n \in Nat
  PROVE  RefundGive(d, n) \in Deductions
  <1> DEFINE c == Take(d["cash"], n)
             g == Take(d["grant"], n - c)
             s == Take(d["sub"], n - c - g)
  <1>1. d["sub"] \in Nat /\ d["grant"] \in Nat /\ d["cash"] \in Nat
    BY DEF Deductions, PoolNames
  <1>2. c \in Nat /\ c <= n
    BY <1>1 DEF Take
  <1>3. g \in Nat /\ g <= n - c
    <2> HIDE DEF c
    <2> QED BY <1>1, <1>2 DEF Take
  <1>4. s \in Nat
    <2> HIDE DEF c, g
    <2> QED BY <1>1, <1>2, <1>3 DEF Take
  <1>5. RefundGive(d, n) = [q \in PoolNames |->
          IF q = "sub" THEN s ELSE IF q = "grant" THEN g ELSE c]
    BY DEF RefundGive, GiveInOrder
  <1> HIDE DEF c, g, s
  <1>6. QED
    BY <1>2, <1>3, <1>4, <1>5 DEF Deductions

(* Pre-deduction is exact: an affordable cost is taken in full, also when  *)
(* some pool is overdrawn (pre_deduct.lua: status 1 means the whole cost). *)
THEOREM PreDeductExact ==
  ASSUME NEW b \in [PoolNames -> Int], NEW policy, NEW cost \in Nat,
         Affordable(b, policy, cost)
  PROVE  Total(PreDeductTake(b, policy, cost)) = cost
  <1> DEFINE u == Usable(b, policy)
             s == Take(u["sub"], cost)
             g == Take(u["grant"], cost - s)
             c == Take(u["cash"], cost - s - g)
  <1>1. u["sub"] \in Int /\ u["grant"] \in Int /\ u["cash"] \in Int
    BY DEF Usable, PoolNames
  <1>2. u["sub"] + u["grant"] + u["cash"] >= cost
    BY DEF Affordable, Total
  <1>3. Total(PreDeductTake(b, policy, cost)) = s + g + c
    BY DEF PreDeductTake, TakeInOrder, Total, PoolNames
  <1> HIDE DEF u
  <1>4. QED
    BY <1>1, <1>2, <1>3 DEF Take

(* Settlement in Redis and in Postgres agrees: for an actual cost within   *)
(* the pre-deduction, what refund.lua leaves deducted in each pool is what *)
(* splitActual3 charges to the same pool.                                  *)
THEOREM SettlementAgrees ==
  ASSUME NEW d \in Deductions, NEW a \in Nat, a <= Total(d),
         NEW p \in PoolNames
  PROVE  d[p] - RefundGive(d, Total(d) - a)[p] = splitActual3(a, d)[p]
  <1> DEFINE x == d["sub"]
             y == d["grant"]
             z == d["cash"]
             n == x + y + z - a
             c == Take(z, n)
             g == Take(y, n - c)
             s == Take(x, n - c - g)
             cc == Take(z, a - Take(x, a) - Take(y, a - Take(x, a)))
             gg == Take(y, a - Take(x, a))
             ss == Take(x, a)
  <1>1. x \in Nat /\ y \in Nat /\ z \in Nat /\ a <= x + y + z
    BY DEF Deductions, PoolNames, Total
  <1>2. z - c = cc /\ y - g = gg /\ x - s = ss
    <2> HIDE DEF x, y, z
    <2>1. QED
      BY <1>1 DEF Take
  <1>3. RefundGive(d, Total(d) - a) = [q \in PoolNames |->
          IF q = "sub" THEN s ELSE IF q = "grant" THEN g ELSE c]
    <2>1. Total(d) - a = n
      BY <1>1 DEF Total
    <2> HIDE DEF n
    <2>2. RefundGive(d, n) = [q \in PoolNames |->
            IF q = "sub" THEN s ELSE IF q = "grant" THEN g ELSE c]
      BY DEF RefundGive, GiveInOrder
    <2>3. QED
      BY <2>1, <2>2
  <1>4. splitActual3(a, d) = [q \in PoolNames |->
          IF q = "sub" THEN ss ELSE IF q = "grant" THEN gg ELSE cc]
    BY DEF splitActual3, TakeInOrder
  <1> HIDE DEF c, g, s, cc, gg, ss
  <1>5. QED
    BY <1>2, <1>3, <1>4 DEF PoolNames

(* compensate.lua never takes a pool below zero. *)
THEOREM CompensateNeverNegative ==
  ASSUME NEW b \in [PoolNames -> Int], NEW policy, NEW amt \in Nat,
         NEW p \in PoolNames, b[p] >= 0
  PROVE  b[p] - CompensateTake(b, policy, amt)[p] >= 0
  <1>1. Usable(b, policy) \in [PoolNames -> Int]
    BY DEF Usable
  <1>2. Usable(b, policy)[p] >= 0 /\ Usable(b, policy)[p] <= b[p]
    BY DEF Usable
  <1>3. /\ TakeInOrder(Usable(b, policy), amt)[p] <= Usable(b, policy)[p]
        /\ TakeInOrder(Usable(b, policy), amt)[p] \in Nat
    BY <1>1, <1>2, TakeInOrderBounds DEF Deductions
  <1>4. QED
    BY <1>1, <1>2, <1>3 DEF CompensateTake

-----------------------------------------------------------------------------
(* Sums.  SumOver folds its set by taking out one arbitrary element after  *)
(* the other; here is that the order does not matter.  The induction over  *)
(* finite sets is by a minimal counterexample (Minimal).                   *)
(* The element the fold takes next. *)
Pick(s) == CHOOSE x \in s : TRUE

(* g is the function of the fold: the sum of every subset of S. *)
Adds(w, S, g) ==
  g = [s \in SUBSET S |-> IF s = {} THEN 0 ELSE w[Pick(s)] + g[s \ {Pick(s)}]]

(* SumOver is what such a function says of the whole set. *)
LEMMA SumDef == \A w, S : SumOver(w, S) = (CHOOSE g : Adds(w, S, g))[S]
  BY Zenon DEF SumOver, MapThenSumSet, MapThenFoldSet, Adds, Pick

(* Among subsets of a finite set there is always a minimal one. *)
LEMMA Minimal ==
  ASSUME NEW S, IsFiniteSet(S), NEW Bad, Bad \subseteq SUBSET S, Bad # {}
  PROVE  \E T \in Bad : \A U \in Bad : U \subseteq T => U = T
  <1>1. IsWellFoundedOn(StrictSubsetOrdering(S), SUBSET S)
    BY FS_StrictSubsetOrderingWellFounded, FS_FiniteSubsetsOfFinite
  <1>2. PICK T \in Bad : \A U \in Bad : ~(<<U, T>> \in StrictSubsetOrdering(S))
    BY <1>1, WFMin
  <1>3. ASSUME NEW U \in Bad, U \subseteq T, U # T PROVE FALSE
    <2>1. <<U, T>> \in (SUBSET S) \X (SUBSET S)
      OBVIOUS
    <2>2. <<U, T>> \in StrictSubsetOrdering(S)
      BY <1>3, <2>1 DEF StrictSubsetOrdering
    <2>3. QED
      BY <1>2, <2>2
  <1>4. QED
    BY <1>3

LEMMA Picked ==
  ASSUME NEW s, s # {}
  PROVE  Pick(s) \in s
  BY DEF Pick

LEMMA AddsAt ==
  ASSUME NEW w, NEW S, NEW g, Adds(w, S, g), NEW s \in SUBSET S
  PROVE  g[s] = IF s = {} THEN 0 ELSE w[Pick(s)] + g[s \ {Pick(s)}]
  BY DEF Adds

LEMMA AddsIsFunction ==
  ASSUME NEW w, NEW S, NEW g, Adds(w, S, g)
  PROVE  g = [s \in SUBSET S |-> g[s]]
  BY DEF Adds

(* There is at most one such function. *)
LEMMA AddsUnique ==
  ASSUME NEW w, NEW S, IsFiniteSet(S), NEW g, NEW h, Adds(w, S, g), Adds(w, S, h)
  PROVE  g = h
  <1> DEFINE Bad == {s \in SUBSET S : g[s] # h[s]}
  <1>1. ASSUME Bad # {} PROVE FALSE
    <2>0. Bad \subseteq SUBSET S
      OBVIOUS
    <2>1. PICK T \in Bad : \A U \in Bad : U \subseteq T => U = T
      <3> HIDE DEF Bad
      <3> QED BY <1>1, <2>0, Minimal
    <2>2. T \in SUBSET S /\ g[T] # h[T]
      BY <2>1
    <2>3. T # {}
      BY <2>2, AddsAt
    <2>4. T \ {Pick(T)} \in SUBSET S /\ T \ {Pick(T)} # T
      BY <2>2, <2>3, Picked
    <2>5. g[T \ {Pick(T)}] = h[T \ {Pick(T)}]
      BY <2>1, <2>4
    <2>6. QED
      BY <2>2, <2>3, <2>5, AddsAt
  <1>2. \A s \in SUBSET S : g[s] = h[s]
    BY <1>1
  <1>3. g = [s \in SUBSET S |-> g[s]] /\ h = [s \in SUBSET S |-> h[s]]
    BY AddsIsFunction
  <1>4. QED
    BY <1>2, <1>3

(* Its restriction to a smaller set is the function of that set. *)
LEMMA AddsWithin ==
  ASSUME NEW w, NEW S, NEW g, Adds(w, S, g), NEW T \in SUBSET S
  PROVE  Adds(w, T, [s \in SUBSET T |-> g[s]])
  <1> DEFINE h == [s \in SUBSET T |-> g[s]]
  <1>1. ASSUME NEW s \in SUBSET T
        PROVE  h[s] = IF s = {} THEN 0 ELSE w[Pick(s)] + h[s \ {Pick(s)}]
    <2>1. s \in SUBSET S /\ s \ {Pick(s)} \in SUBSET T
      OBVIOUS
    <2>2. h[s] = g[s] /\ h[s \ {Pick(s)}] = g[s \ {Pick(s)}]
      BY <2>1
    <2>3. QED
      BY <2>1, <2>2, AddsAt
  <1> DEFINE k == [s \in SUBSET T |-> IF s = {} THEN 0 ELSE w[Pick(s)] + h[s \ {Pick(s)}]]
  <1>2. h = k
    <2>1. h = [s \in SUBSET T |-> h[s]]
      OBVIOUS
    <2>2. QED
      BY <1>1, <2>1
  <1>3. QED
    BY <1>2 DEF Adds

(* And there is one, if the set is finite. *)
LEMMA AddsExists ==
  ASSUME NEW w, NEW S, IsFiniteSet(S)
  PROVE  \E g : Adds(w, S, g)
  <1> DEFINE Bad == {T \in SUBSET S : ~\E g : Adds(w, T, g)}
             G(T) == CHOOSE g : Adds(w, T, g)
  <1>1. SUFFICES ASSUME Bad # {} PROVE FALSE
    <2>1. S \notin Bad
      BY <1>1
    <2>2. QED
      BY <2>1
  <1>0. Bad \subseteq SUBSET S
    OBVIOUS
  <1>2. PICK T \in Bad : \A U \in Bad : U \subseteq T => U = T
    <2> HIDE DEF Bad
    <2> QED BY <1>0, <1>1, Minimal
  <1>3. \A U \in SUBSET T : U # T => Adds(w, U, G(U))
    <2>1. \A U \in SUBSET T : U # T => \E g : Adds(w, U, g)
      BY <1>2
    <2>2. QED
      BY <2>1
  <1>4. \A U \in SUBSET T : IsFiniteSet(U)
    BY <1>2, FS_Subset
  <1> DEFINE at(s) == IF s = {} THEN 0 ELSE w[Pick(s)] + G(s \ {Pick(s)})[s \ {Pick(s)}]
             h == [s \in SUBSET T |-> at(s)]
  <1> HIDE DEF G
  <1>5. ASSUME NEW s \in SUBSET T, s # T PROVE G(s)[s] = at(s)
    <2>1. CASE s = {}
      BY <1>3, <1>5, <2>1, AddsAt
    <2>2. CASE s # {}
      <3> DEFINE u == s \ {Pick(s)}
      <3>1. u \in SUBSET T /\ u # T /\ u \in SUBSET s /\ IsFiniteSet(u)
        BY <1>4, <2>2, Picked
      <3>2. Adds(w, s, G(s)) /\ Adds(w, u, G(u))
        BY <1>3, <1>5, <3>1
      <3>3. Adds(w, u, [t \in SUBSET u |-> G(s)[t]])
        BY <3>1, <3>2, AddsWithin
      <3>4. G(u) = [t \in SUBSET u |-> G(s)[t]]
        BY <3>1, <3>2, <3>3, AddsUnique
      <3>5. G(u)[u] = G(s)[u]
        BY <3>4
      <3>6. G(s)[s] = w[Pick(s)] + G(s)[u]
        BY <2>2, <3>2, AddsAt
      <3>7. QED
        BY <2>2, <3>5, <3>6
    <2>3. QED
      BY <2>1, <2>2
  <1>6. ASSUME NEW s \in SUBSET T
        PROVE  h[s] = IF s = {} THEN 0 ELSE w[Pick(s)] + h[s \ {Pick(s)}]
    <2>1. CASE s = {}
      BY <2>1
    <2>2. CASE s # {}
      <3> DEFINE u == s \ {Pick(s)}
      <3>1. u \in SUBSET T /\ u # T
        BY <2>2, Picked
      <3>2. h[s] = at(s) /\ h[u] = at(u)
        BY <3>1
      <3>3. at(u) = G(u)[u]
        BY <1>5, <3>1
      <3>4. QED
        BY <2>2, <3>2, <3>3
    <2>3. QED
      BY <2>1, <2>2
  <1> HIDE DEF at
  <1>7. Adds(w, T, h)
    <2>1. h = [s \in SUBSET T |-> h[s]]
      OBVIOUS
    <2>2. h = [s \in SUBSET T |-> IF s = {} THEN 0 ELSE w[Pick(s)] + h[s \ {Pick(s)}]]
      <3> HIDE DEF h
      <3> QED BY <1>6, <2>1
    <2>3. QED
      <3> HIDE DEF h
      <3> QED BY <2>2 DEF Adds
  <1>8. QED
    <2> HIDE DEF h
    <2> QED BY <1>2, <1>7

(* So the sum is what its recursion says. *)
LEMMA SumIs ==
  ASSUME NEW w, NEW S, IsFiniteSet(S)
  PROVE  SumOver(w, S) =
           IF S = {} THEN 0 ELSE w[Pick(S)] + SumOver(w, S \ {Pick(S)})
  <1> DEFINE G(T) == CHOOSE g : Adds(w, T, g)
             T == S \ {Pick(S)}
  <1>1. IsFiniteSet(T)
    BY FS_Subset
  <1>2. Adds(w, S, G(S)) /\ Adds(w, T, G(T))
    BY <1>1, AddsExists
  <1>3. SumOver(w, S) = G(S)[S] /\ SumOver(w, T) = G(T)[T]
    BY SumDef
  <1> HIDE DEF G
  <1>4. G(T) = [t \in SUBSET T |-> G(S)[t]]
    <2>1. Adds(w, T, [t \in SUBSET T |-> G(S)[t]])
      BY <1>2, AddsWithin
    <2>2. QED
      BY <1>1, <1>2, <2>1, AddsUnique
  <1>5. G(T)[T] = G(S)[T]
    BY <1>4
  <1>6. QED
    BY <1>2, <1>3, <1>5, AddsAt

(* Any element may be taken out first. *)
LEMMA SumRemove ==
  ASSUME NEW w, NEW S, IsFiniteSet(S), \A x \in S : w[x] \in Int
  PROVE  /\ SumOver(w, S) \in Int
         /\ \A e \in S : SumOver(w, S) = w[e] + SumOver(w, S \ {e})
  <1> DEFINE Good(T) == /\ SumOver(w, T) \in Int
                        /\ \A e \in T : SumOver(w, T) = w[e] + SumOver(w, T \ {e})
             Bad == {T \in SUBSET S : ~Good(T)}
  <1>1. SUFFICES ASSUME Bad # {} PROVE FALSE
    <2>1. S \notin Bad
      BY <1>1
    <2>2. QED
      BY <2>1
  <1>0. Bad \subseteq SUBSET S
    OBVIOUS
  <1>2. PICK T \in Bad : \A U \in Bad : U \subseteq T => U = T
    <2> HIDE DEF Bad
    <2> QED BY <1>0, <1>1, Minimal
  <1>3. \A U \in SUBSET T : U # T => Good(U)
    BY <1>2
  <1>4. \A U \in SUBSET T : IsFiniteSet(U)
    BY <1>2, FS_Subset
  <1> DEFINE x == Pick(T)
  <1>5. T # {}
    <2>1. SUFFICES ASSUME T = {} PROVE Good(T)
      BY <1>2
    <2>2. SumOver(w, T) = 0
      BY <1>4, <2>1, SumIs
    <2>3. QED
      BY <2>1, <2>2
  <1>6. x \in T /\ w[x] \in Int
    BY <1>2, <1>5, Picked
  <1>7. SumOver(w, T) = w[x] + SumOver(w, T \ {x})
    BY <1>4, <1>5, SumIs
  <1>8. SumOver(w, T \ {x}) \in Int
    BY <1>3, <1>6
  <1>9. ASSUME NEW e \in T PROVE SumOver(w, T) = w[e] + SumOver(w, T \ {e})
    <2>1. CASE e = x
      BY <1>7, <2>1
    <2>2. CASE e # x
      <3> DEFINE V == T \ {x, e}
      <3>1. (T \ {x}) \ {e} = V /\ (T \ {e}) \ {x} = V
        OBVIOUS
      <3>2. Good(T \ {x}) /\ e \in T \ {x}
        BY <1>3, <1>6, <2>2
      <3>3. Good(T \ {e}) /\ x \in T \ {e}
        BY <1>3, <1>6, <2>2
      <3>4. Good(V)
        BY <1>3, <1>6
      <3> HIDE DEF V, x
      <3>5. SumOver(w, T \ {x}) = w[e] + SumOver(w, V)
        BY <3>1, <3>2
      <3>6. SumOver(w, T \ {e}) = w[x] + SumOver(w, V)
        BY <3>1, <3>3
      <3>7. w[e] \in Int /\ SumOver(w, V) \in Int
        BY <1>2, <3>4
      <3>8. QED
        BY <1>6, <1>7, <3>5, <3>6, <3>7
    <2>3. QED
      BY <2>1, <2>2
  <1>10. Good(T)
    BY <1>6, <1>7, <1>8, <1>9
  <1>11. QED
    BY <1>2, <1>10

LEMMA SumEmpty == \A w : SumOver(w, {}) = 0
  BY SumIs, FS_EmptySet

LEMMA SumAdd ==
  ASSUME NEW w, NEW S, IsFiniteSet(S), NEW e, e \notin S, w[e] \in Int,
         \A x \in S : w[x] \in Int
  PROVE  SumOver(w, S \cup {e}) = SumOver(w, S) + w[e]
  <1> DEFINE T == S \cup {e}
  <1>1. IsFiniteSet(T) /\ e \in T /\ T \ {e} = S /\ \A x \in T : w[x] \in Int
    BY FS_AddElement
  <1>2. SumOver(w, S) \in Int
    BY SumRemove
  <1> HIDE DEF T
  <1>3. SumOver(w, T) = w[e] + SumOver(w, S)
    BY <1>1, SumRemove
  <1>4. QED
    BY <1>2, <1>3 DEF T

(* Functions that agree on a set have the same sum over it. *)
LEMMA SumSame ==
  ASSUME NEW w, NEW v, NEW S, IsFiniteSet(S), \A x \in S : v[x] = w[x]
  PROVE  SumOver(v, S) = SumOver(w, S)
  <1> DEFINE Bad == {T \in SUBSET S : SumOver(v, T) # SumOver(w, T)}
  <1>1. SUFFICES ASSUME Bad # {} PROVE FALSE
    <2>1. S \notin Bad
      BY <1>1
    <2>2. QED
      BY <2>1
  <1>2. Bad \subseteq SUBSET S
    OBVIOUS
  <1>3. PICK T \in Bad : \A U \in Bad : U \subseteq T => U = T
    <2> HIDE DEF Bad
    <2> QED BY <1>1, <1>2, Minimal
  <1> DEFINE u == T \ {Pick(T)}
  <1>4. T \in SUBSET S /\ SumOver(v, T) # SumOver(w, T) /\ IsFiniteSet(T)
    BY <1>3, FS_Subset
  <1>5. T # {}
    BY <1>4, SumEmpty
  <1>6. Pick(T) \in T /\ u \in SUBSET S /\ u # T /\ u \subseteq T
    BY <1>4, <1>5, Picked
  <1>7. SumOver(v, u) = SumOver(w, u)
    BY <1>3, <1>6
  <1>8. v[Pick(T)] = w[Pick(T)]
    BY <1>4, <1>6
  <1>9. /\ SumOver(v, T) = v[Pick(T)] + SumOver(v, u)
        /\ SumOver(w, T) = w[Pick(T)] + SumOver(w, u)
    BY <1>4, <1>5, SumIs
  <1>10. QED
    BY <1>4, <1>7, <1>8, <1>9

(* When one summand changes, the sum changes by as much. *)
LEMMA SumChange ==
  ASSUME NEW w, NEW v, NEW S, IsFiniteSet(S), NEW e \in S,
         \A x \in S : w[x] \in Int /\ v[x] \in Int,
         \A x \in S : x # e => v[x] = w[x]
  PROVE  /\ SumOver(v, S) = SumOver(w, S) + v[e] - w[e]
         /\ SumOver(v, S) \in Int /\ SumOver(w, S) \in Int
  <1> DEFINE T == S \ {e}
  <1>1. IsFiniteSet(T) /\ \A x \in T : v[x] = w[x] /\ w[x] \in Int
    BY FS_Subset
  <1>2. SumOver(v, T) = SumOver(w, T)
    BY <1>1, SumSame
  <1>3. SumOver(v, S) = v[e] + SumOver(v, T) /\ SumOver(v, S) \in Int
    BY SumRemove
  <1>4. SumOver(w, S) = w[e] + SumOver(w, T) /\ SumOver(w, S) \in Int
    BY SumRemove
  <1>5. SumOver(w, T) \in Int
    BY <1>1, SumRemove
  <1> HIDE DEF T
  <1>6. QED
    BY <1>2, <1>3, <1>4, <1>5

(* A sum of amounts that are not negative is not negative. *)
LEMMA SumNat ==
  ASSUME NEW w, NEW S, IsFiniteSet(S), \A x \in S : w[x] \in Nat
  PROVE  SumOver(w, S) \in Nat
  <1> DEFINE Bad == {T \in SUBSET S : SumOver(w, T) \notin Nat}
  <1>1. SUFFICES ASSUME Bad # {} PROVE FALSE
    <2>1. S \notin Bad
      BY <1>1
    <2>2. QED
      BY <2>1
  <1>2. Bad \subseteq SUBSET S
    OBVIOUS
  <1>3. PICK T \in Bad : \A U \in Bad : U \subseteq T => U = T
    <2> HIDE DEF Bad
    <2> QED BY <1>1, <1>2, Minimal
  <1> DEFINE u == T \ {Pick(T)}
  <1>4. T \in SUBSET S /\ SumOver(w, T) \notin Nat /\ IsFiniteSet(T)
    BY <1>3, FS_Subset
  <1>5. T # {}
    BY <1>4, SumEmpty
  <1>6. Pick(T) \in T /\ u \in SUBSET S /\ u # T /\ u \subseteq T
    BY <1>4, <1>5, Picked
  <1>7. SumOver(w, u) \in Nat /\ w[Pick(T)] \in Nat
    BY <1>3, <1>4, <1>6
  <1>8. SumOver(w, T) = w[Pick(T)] + SumOver(w, u)
    BY <1>4, <1>5, SumIs
  <1>9. QED
    BY <1>4, <1>7, <1>8

(* The sum of sums. *)
LEMMA SumPlus ==
  ASSUME NEW w, NEW v, NEW x, NEW S, IsFiniteSet(S),
         \A e \in S : w[e] \in Int /\ v[e] \in Int /\ x[e] = w[e] + v[e]
  PROVE  SumOver(x, S) = SumOver(w, S) + SumOver(v, S)
  <1> DEFINE Bad == {T \in SUBSET S : SumOver(x, T) # SumOver(w, T) + SumOver(v, T)}
  <1>1. SUFFICES ASSUME Bad # {} PROVE FALSE
    <2>1. S \notin Bad
      BY <1>1
    <2>2. QED
      BY <2>1
  <1>2. Bad \subseteq SUBSET S
    OBVIOUS
  <1>3. PICK T \in Bad : \A U \in Bad : U \subseteq T => U = T
    <2> HIDE DEF Bad
    <2> QED BY <1>1, <1>2, Minimal
  <1> DEFINE u == T \ {Pick(T)}
  <1>4. /\ T \in SUBSET S /\ SumOver(x, T) # SumOver(w, T) + SumOver(v, T)
        /\ IsFiniteSet(T)
    BY <1>3, FS_Subset
  <1>5. T # {}
    BY <1>4, SumEmpty
  <1>6. Pick(T) \in T /\ u \in SUBSET S /\ u # T /\ u \subseteq T /\ IsFiniteSet(u)
    BY <1>4, <1>5, Picked, FS_Subset
  <1>7. SumOver(x, u) = SumOver(w, u) + SumOver(v, u)
    BY <1>3, <1>6
  <1>8. SumOver(w, u) \in Int /\ SumOver(v, u) \in Int
    BY <1>6, SumRemove
  <1>9. /\ SumOver(x, T) = x[Pick(T)] + SumOver(x, u)
        /\ SumOver(w, T) = w[Pick(T)] + SumOver(w, u)
        /\ SumOver(v, T) = v[Pick(T)] + SumOver(v, u)
    BY <1>4, <1>5, SumIs
  <1>10. /\ w[Pick(T)] \in Int /\ v[Pick(T)] \in Int
         /\ x[Pick(T)] = w[Pick(T)] + v[Pick(T)]
    BY <1>4, <1>6
  <1> HIDE DEF u
  <1>11. QED
    BY <1>4, <1>7, <1>8, <1>9, <1>10

(* Smaller summands, smaller sum. *)
LEMMA SumLeq ==
  ASSUME NEW w, NEW v, NEW S, IsFiniteSet(S),
         \A e \in S : w[e] \in Int /\ v[e] \in Int /\ w[e] <= v[e]
  PROVE  SumOver(w, S) <= SumOver(v, S)
  <1> DEFINE d == [e \in S |-> v[e] - w[e]]
  <1>1. \A e \in S : d[e] \in Nat /\ v[e] = w[e] + d[e]
    OBVIOUS
  <1> HIDE DEF d
  <1>2. SumOver(v, S) = SumOver(w, S) + SumOver(d, S)
    BY <1>1, SumPlus
  <1>3. SumOver(d, S) \in Nat /\ SumOver(w, S) \in Int
    BY <1>1, SumNat, SumRemove
  <1>4. QED
    BY <1>2, <1>3

LEMMA SumZero ==
  ASSUME NEW w, NEW S, IsFiniteSet(S), \A e \in S : w[e] = 0
  PROVE  SumOver(w, S) = 0
  <1> DEFINE n == SumOver(w, S)
  <1>1. n = n + n
    BY SumPlus
  <1>2. n \in Int
    BY SumRemove
  <1>3. n = 0
    <2> HIDE DEF n
    <2> QED BY <1>1, <1>2
  <1>4. QED
    BY <1>3
=============================================================================
