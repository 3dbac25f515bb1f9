------------------------- MODULE BalanceCacheProofs -------------------------
(***************************************************************************)
(* Proofs about BalanceCache, for any number of requests, viewers, credits *)
(* and failures, and any amounts.  What is true of a cold cache too comes  *)
(* first; the agreement of the two ledgers is proved for a warm cache that *)
(* no subscription change invalidates, where it holds.                     *)
(***************************************************************************)
EXTENDS BalanceCache, PoolsProofs

LEMMA Constants ==
  /\ Requests \subseteq Loaders /\ Viewers \subseteq Loaders
  /\ Requests \cap Viewers = {} /\ Credits \cap Applies = {}
  /\ IsFiniteSet(Requests) /\ IsFiniteSet(Credits) /\ IsFiniteSet(Applies)
  /\ \A r \in Requests : Cost[r] \in Nat /\ Cost[r] > 0
  /\ Actuals \subseteq Nat
  /\ \A c \in Credits : /\ CreditPool[c] \in {"cash", "grant"}
                        /\ CreditPool[c] \in PoolNames
                        /\ CreditDelta[c] \in Int
  /\ NewSub \in Nat /\ NewGrant \in Nat
  /\ InitDb \in [PoolNames -> Nat]
  /\ MaxFaults \in Nat
  BY BalanceAssumption DEF Loaders, PoolNames

(* Balances stay numbers. *)
LEMMA PlusMinus ==
  ASSUME NEW b \in [PoolNames -> Int], NEW d \in Deductions
  PROVE  /\ Plus(b, d) \in [PoolNames -> Int] /\ Minus(b, d) \in [PoolNames -> Int]
         /\ \A p \in PoolNames : /\ d[p] \in Nat
                                 /\ Plus(b, d)[p] = b[p] + d[p]
                                 /\ Minus(b, d)[p] = b[p] - d[p]
  BY DEF Plus, Minus, Deductions

LEMMA NoDeductionType ==
  /\ NoDeduction \in Deductions
  /\ NoDeduction \in [PoolNames -> Int] /\ NoDeduction \in [PoolNames -> Nat]
  BY DEF NoDeduction, Deductions

LEMMA SplitType ==
  ASSUME NEW d \in Deductions, NEW a \in Nat
  PROVE  /\ splitActual3(a, d) \in Deductions
         /\ \A p \in PoolNames : splitActual3(a, d)[p] <= d[p]
  <1>1. d \in [PoolNames -> Int] /\ \A p \in PoolNames : d[p] >= 0
    BY DEF Deductions
  <1>2. QED
    BY <1>1, TakeInOrderBounds DEF splitActual3

-----------------------------------------------------------------------------
(* The steps of a request touch nobody else. *)
RunsAlone(r) ==
  /\ \A q \in Loaders : q # r => pc'[q] = pc[q]
  /\ \A q \in Requests : q # r => ded'[q] = ded[q] /\ actual'[q] = actual[q]
  /\ UNCHANGED <<snap, tx, undone>>

LEMMA RequestRunsAlone ==
  ASSUME TypeOK, NEW r \in Requests, RequestStep(r)
  PROVE  RunsAlone(r)
  <1> USE DEF TypeOK, RunsAlone, Goto
  <1>1. CASE PreDeduct(r)
    BY <1>1 DEF PreDeduct, RunPreDeduct
  <1>2. CASE RetryPreDeduct(r)
    BY <1>2 DEF RetryPreDeduct, RunPreDeduct
  <1>3. CASE PreDeductFails(r)
    BY <1>3 DEF PreDeductFails, RunPreDeduct
  <1>4. ASSUME NEW a \in Actuals, SettleExcess(r, a) \/ SettleShortfall(r, a)
        PROVE  RunsAlone(r)
    BY <1>4 DEF SettleExcess, SettleShortfall
  <1>5. CASE Refund(r) \/ Bill(r) \/ Lose(r)
    BY <1>5 DEF Refund, Bill, Lose
  <1>6. QED
    BY <1>1, <1>2, <1>3, <1>4, <1>5 DEF RequestStep

(* What the pre-deduction script takes and what it leaves. *)
LEMMA Took ==
  ASSUME TypeOK, NEW r \in Requests
  PROVE  LET take == PreDeductTake(cache, Policy[r], Cost[r]) IN
         /\ take \in Deductions
         /\ Affordable(cache, Policy[r], Cost[r]) => Total(take) = Cost[r]
         /\ \A p \in PoolNames :
              take[p] > 0 => Uses(Policy[r], p) /\ take[p] <= cache[p]
  BY Constants, ScriptsTake, PreDeductExact DEF TypeOK, PreDeductTake

LEMMA TookMore ==
  ASSUME TypeOK, NEW r \in Requests, NEW a \in Nat, a > Cost[r], NEW policy
  PROVE  LET take == CompensateTake(cache, policy, a - Cost[r]) IN
         /\ take \in Deductions
         /\ \A p \in PoolNames : take[p] > 0 => take[p] <= cache[p]
  <1>1. a - Cost[r] \in Nat
    BY Constants
  <1>2. QED
    BY <1>1, ScriptsTake DEF TypeOK, CompensateTake

LEMMA GaveBack ==
  ASSUME TypeOK, NEW r \in Requests, NEW a \in Nat, a <= Cost[r]
  PROVE  RefundGive(ded[r], Cost[r] - a) \in Deductions
  <1>1. Cost[r] - a \in Nat /\ ded[r] \in Deductions
    BY Constants DEF TypeOK
  <1>2. QED
    BY <1>1, RefundGiveType

-----------------------------------------------------------------------------
LEMMA TypeInit == Init => TypeOK
  <1> SUFFICES ASSUME Init PROVE TypeOK
    OBVIOUS
  <1>1. InitDb \in [PoolNames -> Int]
    BY Constants
  <1>2. cache \in [PoolNames -> Int] /\ present \subseteq PoolNames
    BY <1>1, NoDeductionType DEF Init
  <1>3. QED
    BY <1>1, <1>2, NoDeductionType, Constants DEF Init, TypeOK, PCs

LEMMA RequestType ==
  ASSUME TypeOK, NEW r \in Requests, RequestStep(r) PROVE TypeOK'
  <1>0. r \in Loaders /\ Cost[r] \in Nat /\ MaxFaults \in Nat /\ Actuals \subseteq Nat
    BY Constants
  <1>a. /\ pc \in [Loaders -> PCs] /\ ded \in [Requests -> Deductions]
        /\ cache \in [PoolNames -> Int] /\ db \in [PoolNames -> Int]
        /\ actual \in [Requests -> Nat] /\ present \subseteq PoolNames
        /\ faults \in 0 .. MaxFaults
    BY DEF TypeOK
  <1>b. ASSUME NEW k, Fault(k) PROVE faults' \in 0 .. MaxFaults
    BY <1>0, <1>a, <1>b DEF Fault
  <1>c. \A where \in PCs : Goto(r, where) => pc' \in [Loaders -> PCs]
    BY <1>0, <1>a DEF Goto
  <1>d. ASSUME NEW where \in PCs, RunPreDeduct(r, where)
        PROVE  /\ cache' \in [PoolNames -> Int] /\ pc' \in [Loaders -> PCs]
               /\ ded' \in [Requests -> Deductions]
    <2>1. "rejected" \in PCs
      BY DEF PCs
    <2> DEFINE take == PreDeductTake(cache, Policy[r], Cost[r])
    <2>2. take \in Deductions
      BY Took
    <2>3. \/ /\ cache' = Minus(cache, take) /\ ded' = [ded EXCEPT ![r] = take]
             /\ Goto(r, where)
          \/ Goto(r, "rejected") /\ UNCHANGED <<cache, ded>>
      BY <1>d DEF RunPreDeduct
    <2> HIDE DEF take
    <2>4. Minus(cache, take) \in [PoolNames -> Int]
      BY <1>a, <2>2, PlusMinus
    <2>5. QED
      BY <1>a, <1>c, <2>1, <2>2, <2>3, <2>4
  <1>1. CASE PreDeduct(r) \/ RetryPreDeduct(r) \/ PreDeductFails(r)
    <2>1. /\ cache' \in [PoolNames -> Int] /\ pc' \in [Loaders -> PCs]
          /\ ded' \in [Requests -> Deductions]
      <3>1. {"load", "serving", "rejected", "lost"} \subseteq PCs
        BY DEF PCs
      <3>2. QED
        BY <1>1, <1>a, <1>c, <1>d, <3>1 DEF PreDeduct, RetryPreDeduct, PreDeductFails
    <2>2. faults' \in 0 .. MaxFaults
      BY <1>1, <1>a, <1>b DEF PreDeduct, RetryPreDeduct, PreDeductFails
    <2>3. UNCHANGED <<present, db, snap, actual, tx, undone>>
      BY <1>1 DEF PreDeduct, RetryPreDeduct, PreDeductFails
    <2>4. QED
      BY <2>1, <2>2, <2>3 DEF TypeOK
  <1>2. ASSUME NEW a \in Actuals, SettleExcess(r, a) PROVE TypeOK'
    <2>1. a \in Nat /\ a <= Cost[r] /\ "owed" \in PCs
      BY <1>0, <1>2 DEF SettleExcess, PCs
    <2>2. cache' \in [PoolNames -> Int] /\ present' \subseteq PoolNames
      BY <1>2, <1>a, <2>1, GaveBack, PlusMinus DEF SettleExcess, Incr
    <2>3. faults' \in 0 .. MaxFaults
      BY <1>2, <1>a, <1>b DEF SettleExcess
    <2>4. pc' \in [Loaders -> PCs] /\ actual' \in [Requests -> Nat]
      BY <1>2, <1>a, <1>c, <2>1 DEF SettleExcess
    <2>5. QED
      BY <1>2, <2>2, <2>3, <2>4 DEF SettleExcess, TypeOK
  <1>3. ASSUME NEW a \in Actuals, SettleShortfall(r, a) PROVE TypeOK'
    <2>1. a \in Nat /\ a > Cost[r] /\ "owed" \in PCs
      BY <1>0, <1>3 DEF SettleShortfall, PCs
    <2>2. cache' \in [PoolNames -> Int]
      <3>1. \A policy : Minus(cache, CompensateTake(cache, policy, a - Cost[r]))
                          \in [PoolNames -> Int]
        BY <1>a, <2>1, TookMore, PlusMinus
      <3>2. QED
        BY <1>3, <1>a, <3>1 DEF SettleShortfall
    <2>3. faults' \in 0 .. MaxFaults
      BY <1>3, <1>a, <1>b DEF SettleShortfall
    <2>4. pc' \in [Loaders -> PCs] /\ actual' \in [Requests -> Nat]
      BY <1>3, <1>a, <1>c, <2>1 DEF SettleShortfall
    <2>5. QED
      BY <1>3, <2>2, <2>3, <2>4 DEF SettleShortfall, TypeOK
  <1>4. CASE Refund(r)
    <2>1. RefundGive(ded[r], Cost[r]) \in Deductions /\ "owed" \in PCs
      BY <1>0, <1>a, RefundGiveType DEF PCs
    <2>2. cache' \in [PoolNames -> Int] /\ present' \subseteq PoolNames
      BY <1>4, <1>a, <2>1, PlusMinus DEF Refund, Incr
    <2>3. faults' \in 0 .. MaxFaults
      BY <1>4, <1>a, <1>b DEF Refund
    <2>4. pc' \in [Loaders -> PCs] /\ actual' \in [Requests -> Nat]
      BY <1>4, <1>a, <1>c, <2>1 DEF Refund
    <2>5. QED
      BY <1>4, <2>2, <2>3, <2>4 DEF Refund, TypeOK
  <1>5. CASE Bill(r)
    <2>1. splitActual3(actual[r], ded[r]) \in Deductions /\ "billed" \in PCs
      BY <1>a, SplitType DEF PCs
    <2>2. db' \in [PoolNames -> Int] /\ pc' \in [Loaders -> PCs]
      BY <1>5, <1>a, <1>c, <2>1, PlusMinus DEF Bill
    <2>3. QED
      BY <1>5, <2>2 DEF Bill, TypeOK
  <1>6. CASE Lose(r)
    <2>1. "lost" \in PCs
      BY DEF PCs
    <2>2. pc' \in [Loaders -> PCs] /\ faults' \in 0 .. MaxFaults
      BY <1>6, <1>b, <1>c, <2>1 DEF Lose
    <2>3. QED
      BY <1>6, <2>2 DEF Lose, TypeOK
  <1>7. QED
    BY <1>1, <1>2, <1>3, <1>4, <1>5, <1>6 DEF RequestStep

LEMMA LoaderType ==
  ASSUME TypeOK, NEW x \in Loaders,
         \/ GetUserBalances(x)
         \/ SyncUserBalanceCache(x)
         \/ LoadFails(x)
         \/ x \in Viewers /\ GetUserBalance(x)
  PROVE  TypeOK'
  <1>a. /\ pc \in [Loaders -> PCs] /\ snap \in [Loaders -> [PoolNames -> Int]]
        /\ cache \in [PoolNames -> Int] /\ db \in [PoolNames -> Int]
        /\ present \subseteq PoolNames /\ faults \in 0 .. MaxFaults
        /\ MaxFaults \in Nat /\ undone \in [PoolNames -> Nat]
    BY Constants DEF TypeOK
  <1>b. {"load", "set_sub", "set_grant", "set_cash", "retry", "done", "rejected"}
          \subseteq PCs
    BY DEF PCs
  <1>c. \A where \in PCs : Goto(x, where) => pc' \in [Loaders -> PCs]
    BY <1>a DEF Goto
  <1>1. CASE GetUserBalances(x)
    <2>1. pc' \in [Loaders -> PCs] /\ snap' \in [Loaders -> [PoolNames -> Int]]
      BY <1>1, <1>a, <1>b, <1>c DEF GetUserBalances
    <2>2. QED
      BY <1>1, <2>1 DEF GetUserBalances, TypeOK
  <1>2. CASE SyncUserBalanceCache(x)
    <2>1. PICK p \in PoolNames :
            /\ cache' = [cache EXCEPT ![p] = snap[x][p]]
            /\ present' = present \cup {p}
            /\ undone' = IF p \in present /\ snap[x][p] > cache[p]
                           THEN [undone EXCEPT ![p] = @ + snap[x][p] - cache[p]]
                           ELSE undone
            /\ Goto(x, IF p = "sub" THEN "set_grant"
                       ELSE IF p = "grant" THEN "set_cash"
                       ELSE IF x \in Requests THEN "retry" ELSE "done")
      BY <1>2 DEF SyncUserBalanceCache
    <2>2. cache' \in [PoolNames -> Int] /\ present' \subseteq PoolNames
      BY <1>a, <2>1
    <2>6. undone' \in [PoolNames -> Nat]
      <3>1. snap[x][p] \in Int /\ cache[p] \in Int /\ undone[p] \in Nat
        BY <1>a, <2>1
      <3>2. snap[x][p] > cache[p] => undone[p] + snap[x][p] - cache[p] \in Nat
        BY <3>1
      <3>3. QED
        BY <1>a, <2>1, <3>2
    <2>3. pc' \in [Loaders -> PCs]
      BY <1>b, <1>c, <2>1
    <2>4. snap' \in [Loaders -> [PoolNames -> Int]]
      BY <1>2, <1>a, NoDeductionType DEF SyncUserBalanceCache
    <2>5. QED
      BY <1>2, <2>2, <2>3, <2>4, <2>6 DEF SyncUserBalanceCache, TypeOK
  <1>3. CASE LoadFails(x)
    <2>1. pc' \in [Loaders -> PCs] /\ snap' \in [Loaders -> [PoolNames -> Int]]
      BY <1>3, <1>a, <1>b, <1>c, NoDeductionType DEF LoadFails
    <2>2. faults' \in 0 .. MaxFaults
      BY <1>3, <1>a DEF LoadFails, Fault
    <2>3. QED
      BY <1>3, <2>1, <2>2 DEF LoadFails, TypeOK
  <1>4. CASE x \in Viewers /\ GetUserBalance(x)
    <2>1. pc' \in [Loaders -> PCs]
      BY <1>4, <1>b, <1>c DEF GetUserBalance
    <2>2. faults' \in 0 .. MaxFaults
      BY <1>4, <1>a DEF GetUserBalance, Fault
    <2>3. QED
      BY <1>4, <2>1, <2>2 DEF GetUserBalance, TypeOK
  <1>5. QED
    BY <1>1, <1>2, <1>3, <1>4

LEMMA EventType ==
  ASSUME TypeOK,
         \/ \E c \in Credits : CreditCommit(c) \/ CreditBalanceCache(c)
         \/ \E e \in Applies : ApplyCommit(e) \/ Invalidate(e)
  PROVE  TypeOK'
  <1>a. /\ cache \in [PoolNames -> Int] /\ db \in [PoolNames -> Int]
        /\ tx \in [Credits \cup Applies ->
                     {"start", "committed", "done", "stale", "refused"}]
        /\ faults \in 0 .. MaxFaults /\ MaxFaults \in Nat
    BY Constants DEF TypeOK
  <1>1. ASSUME NEW c \in Credits, CreditCommit(c) PROVE TypeOK'
    <2>1. CreditPool[c] \in PoolNames /\ CreditDelta[c] \in Int
      BY Constants
    <2>2. db' \in [PoolNames -> Int]
      BY <1>1, <1>a, <2>1 DEF CreditCommit
    <2>3. tx' \in [Credits \cup Applies ->
                     {"start", "committed", "done", "stale", "refused"}]
      BY <1>1, <1>a DEF CreditCommit
    <2>4. QED
      BY <1>1, <2>2, <2>3 DEF CreditCommit, TypeOK
  <1>2. ASSUME NEW c \in Credits, CreditBalanceCache(c) PROVE TypeOK'
    <2>1. CreditPool[c] \in PoolNames /\ CreditDelta[c] \in Int
      BY Constants
    <2>2. cache' \in [PoolNames -> Int]
      BY <1>2, <1>a, <2>1 DEF CreditBalanceCache
    <2>3. /\ tx' \in [Credits \cup Applies ->
                        {"start", "committed", "done", "stale", "refused"}]
          /\ faults' \in 0 .. MaxFaults
      BY <1>2, <1>a DEF CreditBalanceCache, Fault
    <2>4. QED
      BY <1>2, <2>2, <2>3 DEF CreditBalanceCache, TypeOK
  <1>3. ASSUME NEW e \in Applies, ApplyCommit(e) PROVE TypeOK'
    <2>1. db["cash"] + db["sub"] \in Int /\ NewSub \in Int /\ NewGrant \in Int
      BY <1>a, Constants DEF PoolNames
    <2>2. db' \in [PoolNames -> Int]
      BY <1>3, <2>1 DEF ApplyCommit
    <2>3. tx' \in [Credits \cup Applies ->
                     {"start", "committed", "done", "stale", "refused"}]
      BY <1>3, <1>a DEF ApplyCommit
    <2>4. QED
      BY <1>3, <2>2, <2>3 DEF ApplyCommit, TypeOK
  <1>4. ASSUME NEW e \in Applies, Invalidate(e) PROVE TypeOK'
    <2>1. cache' \in [PoolNames -> Int] /\ present' \subseteq PoolNames
      BY <1>4, NoDeductionType DEF Invalidate, TypeOK
    <2>2. /\ tx' \in [Credits \cup Applies ->
                        {"start", "committed", "done", "stale", "refused"}]
          /\ faults' \in 0 .. MaxFaults
      BY <1>4, <1>a DEF Invalidate, Fault
    <2>3. QED
      BY <1>4, <2>1, <2>2 DEF Invalidate, TypeOK
  <1>5. QED
    BY <1>1, <1>2, <1>3, <1>4

LEMMA TypeNext == TypeOK /\ [Next]_vars => TypeOK'
  <1> SUFFICES ASSUME TypeOK, [Next]_vars PROVE TypeOK'
    OBVIOUS
  <1>1. CASE UNCHANGED vars
    BY <1>1 DEF vars, TypeOK
  <1>2. CASE Next
    BY <1>2, RequestType, LoaderType, EventType, Constants DEF Next
  <1>3. QED
    BY <1>1, <1>2

(* Balances, Deductions and amounts stay numbers of their kind, on a cold  *)
(* cache too: in particular a Deduction never goes negative.               *)
THEOREM TypeCorrect == Spec => []TypeOK
  BY TypeInit, TypeNext, PTL DEF Spec

-----------------------------------------------------------------------------
(* The pre-deduction script, run for r: all of its cost or nothing. *)
LEMMA RunTakesAll ==
  ASSUME TypeOK, NEW r \in Requests, NEW where, RunPreDeduct(r, where)
  PROVE  \/ Total(ded'[r]) = Cost[r]
         \/ UNCHANGED ded
  <1>1. ded' = [ded EXCEPT ![r] = PreDeductTake(cache, Policy[r], Cost[r])]
          => ded'[r] = PreDeductTake(cache, Policy[r], Cost[r])
    BY DEF TypeOK
  <1>2. QED
    BY <1>1, Took DEF RunPreDeduct

(* PreDeduct takes the whole estimate or nothing, from any balances, also  *)
(* negative ones, and whatever fails.                                      *)
THEOREM AlwaysAllOrNothing == Spec => []AllOrNothing
  <1>1. Init => AllOrNothing
    BY DEF Init, AllOrNothing, Total, NoDeduction, PoolNames
  <1>2. TypeOK /\ AllOrNothing /\ [Next]_vars => AllOrNothing'
    <2> SUFFICES ASSUME TypeOK, AllOrNothing, [Next]_vars PROVE AllOrNothing'
      OBVIOUS
    <2>1. ASSUME UNCHANGED ded PROVE AllOrNothing'
      BY <2>1 DEF AllOrNothing
    <2>2. ASSUME NEW r \in Requests, RequestStep(r) PROVE AllOrNothing'
      <3>1. Total(ded'[r]) = Cost[r] \/ UNCHANGED ded
        <4>1. (\E where : RunPreDeduct(r, where)) \/ UNCHANGED ded
          BY <2>2 DEF RequestStep, PreDeduct, RetryPreDeduct, PreDeductFails,
                      SettleExcess, SettleShortfall, Refund, Bill, Lose
        <4>2. QED
          BY <4>1, RunTakesAll
      <3>2. \A q \in Requests : q # r => ded'[q] = ded[q]
        BY <2>2, RequestRunsAlone DEF RunsAlone
      <3>3. QED
        BY <2>1, <3>1, <3>2 DEF AllOrNothing
    <2>3. ASSUME NEW x \in Loaders,
                 \/ GetUserBalances(x)
                 \/ SyncUserBalanceCache(x)
                 \/ LoadFails(x)
                 \/ GetUserBalance(x)
          PROVE  UNCHANGED ded
      BY <2>3 DEF GetUserBalances, SyncUserBalanceCache, LoadFails, GetUserBalance
    <2>4. ASSUME \/ \E c \in Credits : CreditCommit(c) \/ CreditBalanceCache(c)
                 \/ \E e \in Applies : ApplyCommit(e) \/ Invalidate(e)
                 \/ UNCHANGED vars
          PROVE  UNCHANGED ded
      BY <2>4 DEF CreditCommit, CreditBalanceCache, ApplyCommit, Invalidate, vars
    <2>5. QED
      BY <2>1, <2>2, <2>3, <2>4, Constants DEF Next
  <1>3. QED
    BY <1>1, <1>2, TypeCorrect, PTL DEF Spec

-----------------------------------------------------------------------------
(* A script that takes money leaves at least zero where it takes. *)
LEMMA ScriptFloor ==
  ASSUME TypeOK, NEW r \in Requests, RequestStep(r), NEW p \in PoolNames,
         cache'[p] < cache[p]
  PROVE  cache'[p] >= 0
  <1>a. cache \in [PoolNames -> Int] /\ ded \in [Requests -> Deductions]
    BY DEF TypeOK
  <1>b. ASSUME NEW d \in Deductions, cache' = Minus(cache, d),
               \A q \in PoolNames : d[q] > 0 => d[q] <= cache[q]
        PROVE  cache'[p] >= 0
    <2>1. d[p] \in Nat /\ cache[p] \in Int /\ cache'[p] = cache[p] - d[p]
      BY <1>a, <1>b, PlusMinus
    <2>2. QED
      BY <1>b, <2>1
  <1>c. ASSUME NEW d \in Deductions, Incr(d) PROVE FALSE
    <2>1. d[p] \in Nat /\ cache[p] \in Int /\ cache'[p] = cache[p] + d[p]
      BY <1>a, <1>c, PlusMinus DEF Incr
    <2>2. QED
      BY <2>1
  <1>d. ~UNCHANGED cache
    BY <1>a
  <1>1. CASE \E where : RunPreDeduct(r, where)
    <2>1. cache' = Minus(cache, PreDeductTake(cache, Policy[r], Cost[r]))
      BY <1>1, <1>d DEF RunPreDeduct
    <2>2. QED
      BY <1>b, <2>1, Took
  <1>2. ASSUME NEW a \in Actuals, SettleExcess(r, a) PROVE cache'[p] >= 0
    <2>1. a \in Nat /\ a <= Cost[r]
      BY <1>2, Constants DEF SettleExcess
    <2>2. Incr(RefundGive(ded[r], Cost[r] - a))
      BY <1>2, <1>d DEF SettleExcess
    <2>3. QED
      BY <1>c, <2>1, <2>2, GaveBack
  <1>3. ASSUME NEW a \in Actuals, SettleShortfall(r, a) PROVE cache'[p] >= 0
    <2>1. a \in Nat /\ a > Cost[r]
      BY <1>3, Constants DEF SettleShortfall
    <2>2. \E policy : cache' = Minus(cache, CompensateTake(cache, policy, a - Cost[r]))
      BY <1>3, <1>d DEF SettleShortfall
    <2>3. QED
      BY <1>b, <2>1, <2>2, TookMore
  <1>4. CASE Refund(r)
    <2>1. RefundGive(ded[r], Cost[r]) \in Deductions
      BY <1>a, Constants, RefundGiveType
    <2>2. Incr(RefundGive(ded[r], Cost[r]))
      BY <1>4, <1>d DEF Refund
    <2>3. QED
      BY <1>c, <2>1, <2>2
  <1>5. QED
    BY <1>1, <1>2, <1>3, <1>4, <1>d
       DEF RequestStep, PreDeduct, RetryPreDeduct, PreDeductFails, Bill, Lose

(* No script leaves a pool overdrawn, cold cache or warm: a key can only   *)
(* become negative by a load or by a debit passed on to Redis.             *)
THEOREM ScriptsAlwaysStop == Spec => ScriptsNeverOverdraw
  <1> DEFINE Held ==
        \A p \in PoolNames :
          (cache'[p] < cache[p] /\ cache'[p] < 0) =>
            \/ \E x \in Loaders : pc[x] = SetStep[p] /\ pc'[x] # pc[x]
            \/ \E c \in Credits : tx[c] = "committed" /\ tx'[c] = "done"
  <1>1. TypeOK /\ [Next]_vars => [Held]_vars
    <2> SUFFICES ASSUME TypeOK, [Next]_vars, NEW p \in PoolNames,
                        cache'[p] < cache[p], cache'[p] < 0
                 PROVE  \/ \E x \in Loaders : pc[x] = SetStep[p] /\ pc'[x] # pc[x]
                        \/ \E c \in Credits : tx[c] = "committed" /\ tx'[c] = "done"
      OBVIOUS
    <2>0. /\ cache \in [PoolNames -> Int] /\ ~UNCHANGED cache
          /\ pc \in [Loaders -> PCs] /\ cache[p] \in Int
          /\ tx \in [Credits \cup Applies ->
                       {"start", "committed", "done", "stale", "refused"}]
      BY DEF TypeOK
    <2>1. ASSUME NEW r \in Requests, RequestStep(r) PROVE FALSE
      <3>1. cache'[p] >= 0
        BY <2>1, ScriptFloor
      <3>2. cache' \in [PoolNames -> Int]
        BY <2>1, RequestType DEF TypeOK
      <3>3. QED
        BY <3>1, <3>2
    <2>2. ASSUME NEW x \in Loaders, SyncUserBalanceCache(x)
          PROVE  pc[x] = SetStep[p] /\ pc'[x] # pc[x]
      <3>1. PICK q \in PoolNames :
              /\ pc[x] = SetStep[q]
              /\ cache' = [cache EXCEPT ![q] = snap[x][q]]
              /\ Goto(x, IF q = "sub" THEN "set_grant"
                         ELSE IF q = "grant" THEN "set_cash"
                         ELSE IF x \in Requests THEN "retry" ELSE "done")
        BY <2>2 DEF SyncUserBalanceCache
      <3>2. q = p
        BY <2>0, <3>1
      <3>3. pc'[x] # SetStep[q]
        BY <2>0, <3>1 DEF Goto, SetStep, PoolNames
      <3>4. QED
        BY <3>1, <3>2, <3>3
    <2>3. ASSUME NEW c \in Credits, CreditBalanceCache(c)
          PROVE  tx[c] = "committed" /\ tx'[c] = "done"
      BY <2>0, <2>3 DEF CreditBalanceCache
    <2>4. ASSUME NEW e \in Applies, Invalidate(e) PROVE FALSE
      BY <2>0, <2>4 DEF Invalidate, NoDeduction
    <2>5. ASSUME \/ \E x \in Loaders : \/ GetUserBalances(x)
                                       \/ LoadFails(x)
                                       \/ GetUserBalance(x)
                 \/ \E c \in Credits : CreditCommit(c)
                 \/ \E e \in Applies : ApplyCommit(e)
                 \/ UNCHANGED vars
          PROVE  FALSE
      BY <2>0, <2>5 DEF GetUserBalances, LoadFails, GetUserBalance, CreditCommit,
                        ApplyCommit, vars
    <2>6. QED
      BY <2>1, <2>2, <2>3, <2>4, <2>5, Constants DEF Next
  <1>2. QED
    BY <1>1, TypeCorrect, PTL DEF Spec, ScriptsNeverOverdraw

-----------------------------------------------------------------------------
(* The paid money in Postgres.                                             *)
Settled == {"committed", "done", "stale"}

CreditsIn == SumOver([c \in Credits |-> Credit(c, "cash", Settled)], Credits)

SubsIn == SumOver([e \in Applies |-> PaidIn(e)], Applies)

BillsOut == SumOver([r \in Requests |-> BilledPaid(r)], Requests)

LEMMA PaidDef ==
  PaidMoneyConserved <=>
    db["sub"] + db["cash"]
      = InitDb["sub"] + InitDb["cash"] + CreditsIn + SubsIn - BillsOut
  BY DEF PaidMoneyConserved, CreditsIn, SubsIn, BillsOut, Settled

LEMMA SummandsInt ==
  ASSUME TypeOK
  PROVE  /\ \A c \in Credits : \A p, S : Credit(c, p, S) \in Int
         /\ \A e \in Applies : PaidIn(e) \in Int
         /\ \A r \in Requests : BilledPaid(r) \in Int
  <1>1. \A c \in Credits : \A p, S : Credit(c, p, S) \in Int
    BY Constants DEF Credit
  <1>2. \A e \in Applies : PaidIn(e) \in Int
    BY Constants DEF PaidIn
  <1>3. ASSUME NEW r \in Requests PROVE BilledPaid(r) \in Int
    <2>1. splitActual3(actual[r], ded[r]) \in Deductions
      BY SplitType DEF TypeOK
    <2>2. QED
      BY <2>1 DEF BilledPaid, Deductions, PoolNames
  <1>4. QED
    BY <1>1, <1>2, <1>3

LEMMA PaidSumsInt ==
  ASSUME TypeOK
  PROVE  CreditsIn \in Int /\ SubsIn \in Int /\ BillsOut \in Int
  BY SummandsInt, SumRemove, Constants DEF CreditsIn, SubsIn, BillsOut

(* Steps that move no money in Postgres: they bill nobody. *)
LEMMA PaidStays ==
  ASSUME PaidMoneyConserved, UNCHANGED <<db, tx>>,
         \A r \in Requests : BilledPaid(r)' = BilledPaid(r)
  PROVE  PaidMoneyConserved'
  <1>1. CreditsIn' = CreditsIn /\ SubsIn' = SubsIn
    BY DEF CreditsIn, SubsIn, Credit, PaidIn
  <1>2. BillsOut' = BillsOut
    BY SumSame, Constants DEF BillsOut
  <1>3. db'["sub"] + db'["cash"]
          = InitDb["sub"] + InitDb["cash"] + CreditsIn' + SubsIn' - BillsOut'
    BY <1>1, <1>2, PaidDef
  <1>4. QED
    BY <1>3 DEF PaidMoneyConserved, CreditsIn, SubsIn, BillsOut, Settled

(* A request that is not billed, before and after, adds nothing. *)
LEMMA BillStays ==
  ASSUME NEW r \in Requests, RunsAlone(r), pc[r] # "billed", pc'[r] # "billed"
  PROVE  \A q \in Requests : BilledPaid(q)' = BilledPaid(q)
  <1> SUFFICES ASSUME NEW q \in Requests PROVE BilledPaid(q)' = BilledPaid(q)
    OBVIOUS
  <1>1. CASE q = r
    BY <1>1 DEF BilledPaid
  <1>2. CASE q # r
    BY <1>2, Constants DEF RunsAlone, BilledPaid
  <1>3. QED
    BY <1>1, <1>2

LEMMA PaidRequest ==
  ASSUME TypeOK, PaidMoneyConserved, NEW r \in Requests, RequestStep(r)
  PROVE  PaidMoneyConserved'
  <1>0. RunsAlone(r) /\ UNCHANGED tx
    BY RequestRunsAlone DEF RunsAlone
  <1>1. CASE Bill(r)
    <2> DEFINE split == splitActual3(actual[r], ded[r])
    <2>1. /\ pc[r] = "owed" /\ db' = Minus(db, split) /\ pc'[r] = "billed"
          /\ UNCHANGED <<ded, actual>>
      BY <1>1, Constants DEF Bill, Goto, TypeOK
    <2>2. BilledPaid(r) = 0 /\ BilledPaid(r)' = split["sub"] + split["cash"]
      BY <2>1 DEF BilledPaid
    <2>3. split \in Deductions /\ db \in [PoolNames -> Int]
      BY SplitType DEF TypeOK
    <2> HIDE DEF split
    <2>4. \A q \in Requests : q # r => BilledPaid(q)' = BilledPaid(q)
      BY <1>0, Constants DEF RunsAlone, BilledPaid
    <2>5. \A q \in Requests : BilledPaid(q) \in Int /\ BilledPaid(q)' \in Int
      BY <2>2, <2>3, <2>4, SummandsInt DEF Deductions, PoolNames
    <2>6. BillsOut' = BillsOut + BilledPaid(r)' - BilledPaid(r)
      BY <2>4, <2>5, SumChange, Constants DEF BillsOut
    <2>7. /\ db'["sub"] = db["sub"] - split["sub"]
          /\ db'["cash"] = db["cash"] - split["cash"]
          /\ db["sub"] \in Int /\ db["cash"] \in Int
          /\ split["sub"] \in Int /\ split["cash"] \in Int
          /\ InitDb["sub"] \in Int /\ InitDb["cash"] \in Int
      BY <2>1, <2>3, PlusMinus, Constants DEF PoolNames
    <2>8. CreditsIn' = CreditsIn /\ SubsIn' = SubsIn
      BY <1>0 DEF CreditsIn, SubsIn, Credit, PaidIn
    <2>9. db'["sub"] + db'["cash"]
            = InitDb["sub"] + InitDb["cash"] + CreditsIn' + SubsIn' - BillsOut'
      BY <2>2, <2>6, <2>7, <2>8, PaidDef, PaidSumsInt
    <2>10. QED
      BY <2>9 DEF PaidMoneyConserved, CreditsIn, SubsIn, BillsOut, Settled
  <1>2. CASE ~Bill(r)
    <2>1. /\ pc[r] # "billed" /\ pc'[r] # "billed" /\ UNCHANGED db
      BY <1>2, Constants
         DEF RequestStep, PreDeduct, RetryPreDeduct, PreDeductFails, RunPreDeduct,
             SettleExcess, SettleShortfall, Refund, Lose, Goto, TypeOK
    <2>2. QED
      BY <1>0, <2>1, BillStays, PaidStays
  <1>3. QED
    BY <1>1, <1>2

LEMMA PaidLoader ==
  ASSUME TypeOK, PaidMoneyConserved, NEW x \in Loaders,
         \/ GetUserBalances(x)
         \/ SyncUserBalanceCache(x)
         \/ LoadFails(x)
         \/ x \in Viewers /\ GetUserBalance(x)
  PROVE  PaidMoneyConserved'
  <1>1. UNCHANGED <<db, tx, ded, actual>>
    BY DEF GetUserBalances, SyncUserBalanceCache, LoadFails, GetUserBalance
  <1>2. pc[x] # "billed" /\ pc'[x] # "billed" /\ \A q \in Loaders : q # x => pc'[q] = pc[q]
    BY DEF GetUserBalances, SyncUserBalanceCache, LoadFails, GetUserBalance, Goto,
           TypeOK, SetStep, PoolNames
  <1>3. \A q \in Requests : BilledPaid(q)' = BilledPaid(q)
    BY <1>1, <1>2, Constants DEF BilledPaid
  <1>4. QED
    BY <1>1, <1>3, PaidStays

LEMMA PaidCredit ==
  ASSUME TypeOK, PaidMoneyConserved, NEW c \in Credits,
         CreditCommit(c) \/ CreditBalanceCache(c)
  PROVE  PaidMoneyConserved'
  <1>0. /\ tx \in [Credits \cup Applies ->
                     {"start", "committed", "done", "stale", "refused"}]
        /\ db \in [PoolNames -> Int]
    BY DEF TypeOK
  <1>1. /\ \A q \in Credits \cup Applies : q # c => tx'[q] = tx[q]
        /\ UNCHANGED <<pc, ded, actual>>
    BY <1>0 DEF CreditCommit, CreditBalanceCache
  <1>2. SubsIn' = SubsIn /\ BillsOut' = BillsOut
    <2>1. \A e \in Applies : PaidIn(e)' = PaidIn(e)
      BY <1>1, Constants DEF PaidIn
    <2>2. \A r \in Requests : BilledPaid(r)' = BilledPaid(r)
      BY <1>1 DEF BilledPaid
    <2>3. QED
      BY <2>1, <2>2, SumSame, Constants DEF SubsIn, BillsOut
  <1>3. \A q \in Credits : q # c => Credit(q, "cash", Settled)' = Credit(q, "cash", Settled)
    BY <1>1 DEF Credit
  <1>4. \A q \in Credits : /\ Credit(q, "cash", Settled) \in Int
                           /\ Credit(q, "cash", Settled)' \in Int
    BY Constants DEF Credit
  <1>5. CreditsIn' = CreditsIn + Credit(c, "cash", Settled)' - Credit(c, "cash", Settled)
    BY <1>3, <1>4, SumChange, Constants DEF CreditsIn
  <1>6. /\ CreditPool[c] \in {"cash", "grant"} /\ CreditDelta[c] \in Int
        /\ InitDb["sub"] \in Int /\ InitDb["cash"] \in Int
        /\ db["sub"] \in Int /\ db["cash"] \in Int
    BY <1>0, Constants DEF PoolNames
  <1>7. db'["sub"] = db["sub"] /\
        db'["cash"] = db["cash"] + Credit(c, "cash", Settled)' - Credit(c, "cash", Settled)
    <2>1. CASE CreditCommit(c)
      BY <1>0, <1>6, <2>1 DEF CreditCommit, Credit, Settled, PoolNames
    <2>2. CASE CreditBalanceCache(c)
      BY <1>0, <1>6, <2>2 DEF CreditBalanceCache, Credit, Settled
    <2>3. QED
      BY <2>1, <2>2
  <1>8. db'["sub"] + db'["cash"]
          = InitDb["sub"] + InitDb["cash"] + CreditsIn' + SubsIn' - BillsOut'
    BY <1>2, <1>4, <1>5, <1>6, <1>7, PaidDef, PaidSumsInt
  <1>9. QED
    BY <1>8 DEF PaidMoneyConserved, CreditsIn, SubsIn, BillsOut, Settled

LEMMA PaidApply ==
  ASSUME TypeOK, PaidMoneyConserved, NEW e \in Applies,
         ApplyCommit(e) \/ Invalidate(e)
  PROVE  PaidMoneyConserved'
  <1>0. /\ tx \in [Credits \cup Applies ->
                     {"start", "committed", "done", "stale", "refused"}]
        /\ db \in [PoolNames -> Int]
    BY DEF TypeOK
  <1>1. /\ \A q \in Credits \cup Applies : q # e => tx'[q] = tx[q]
        /\ UNCHANGED <<pc, ded, actual>>
    BY <1>0 DEF ApplyCommit, Invalidate
  <1>2. CreditsIn' = CreditsIn /\ BillsOut' = BillsOut
    <2>1. \A c \in Credits : Credit(c, "cash", Settled)' = Credit(c, "cash", Settled)
      BY <1>1, Constants DEF Credit
    <2>2. \A r \in Requests : BilledPaid(r)' = BilledPaid(r)
      BY <1>1 DEF BilledPaid
    <2>3. QED
      BY <2>1, <2>2, SumSame, Constants DEF CreditsIn, BillsOut
  <1>3. \A q \in Applies : q # e => PaidIn(q)' = PaidIn(q)
    BY <1>1 DEF PaidIn
  <1>4. \A q \in Applies : PaidIn(q) \in Int /\ PaidIn(q)' \in Int
    BY Constants DEF PaidIn
  <1>5. SubsIn' = SubsIn + PaidIn(e)' - PaidIn(e)
    BY <1>3, <1>4, SumChange, Constants DEF SubsIn
  <1>6. /\ NewSub \in Int /\ InitDb["sub"] \in Int /\ InitDb["cash"] \in Int
        /\ db["sub"] \in Int /\ db["cash"] \in Int
    BY <1>0, Constants DEF PoolNames
  <1>7. db'["sub"] + db'["cash"] = db["sub"] + db["cash"] + PaidIn(e)' - PaidIn(e)
    <2>1. CASE ApplyCommit(e)
      <3>1. db'["sub"] = NewSub /\ db'["cash"] = db["cash"] + db["sub"]
        BY <2>1 DEF ApplyCommit, PoolNames
      <3>2. PaidIn(e) = 0 /\ PaidIn(e)' = NewSub
        BY <1>0, <2>1 DEF ApplyCommit, PaidIn
      <3>3. QED
        BY <1>6, <3>1, <3>2
    <2>2. CASE Invalidate(e)
      BY <1>0, <1>6, <2>2 DEF Invalidate, PaidIn
    <2>3. QED
      BY <2>1, <2>2
  <1>8. db'["sub"] + db'["cash"]
          = InitDb["sub"] + InitDb["cash"] + CreditsIn' + SubsIn' - BillsOut'
    BY <1>2, <1>4, <1>5, <1>6, <1>7, PaidDef, PaidSumsInt
  <1>9. QED
    BY <1>8 DEF PaidMoneyConserved, CreditsIn, SubsIn, BillsOut, Settled

(* What the user paid is in sub or cash until a bill takes it: credits,    *)
(* subscription changes and bills move the two columns by exactly their    *)
(* amounts, cold cache or warm, in any interleaving and with any failure.  *)
THEOREM PaidMoneyAlwaysConserved == Spec => []PaidMoneyConserved
  <1>1. Init => PaidMoneyConserved
    <2> SUFFICES ASSUME Init PROVE PaidMoneyConserved
      OBVIOUS
    <2>1. \A c \in Credits : Credit(c, "cash", Settled) = 0
      BY DEF Init, Credit, Settled
    <2>2. \A e \in Applies : PaidIn(e) = 0
      BY DEF Init, PaidIn
    <2>3. \A r \in Requests : BilledPaid(r) = 0
      BY Constants DEF Init, BilledPaid
    <2>4. CreditsIn = 0 /\ SubsIn = 0 /\ BillsOut = 0
      BY <2>1, <2>2, <2>3, SumZero, Constants DEF CreditsIn, SubsIn, BillsOut
    <2>5. db["sub"] = InitDb["sub"] /\ InitDb["sub"] \in Int /\ InitDb["cash"] \in Int
          /\ db["cash"] = InitDb["cash"]
      BY Constants DEF Init, PoolNames
    <2>6. QED
      BY <2>4, <2>5, PaidDef
  <1>2. TypeOK /\ PaidMoneyConserved /\ [Next]_vars => PaidMoneyConserved'
    <2> SUFFICES ASSUME TypeOK, PaidMoneyConserved, [Next]_vars
                 PROVE  PaidMoneyConserved'
      OBVIOUS
    <2>1. CASE UNCHANGED vars
      <3>1. \A r \in Requests : BilledPaid(r)' = BilledPaid(r)
        BY <2>1 DEF vars, BilledPaid
      <3>2. QED
        BY <2>1, <3>1, PaidStays DEF vars
    <2>2. CASE Next
      BY <2>2, PaidRequest, PaidLoader, PaidCredit, PaidApply, Constants DEF Next
    <2>3. QED
      BY <2>1, <2>2
  <1>3. QED
    BY <1>1, <1>2, TypeCorrect, PTL DEF Spec

-----------------------------------------------------------------------------
(* A warm cache that no subscription change invalidates: every key is      *)
(* there, so no request loads, and a viewer only after a failure; a        *)
(* request that goes upstream holds its cost; its actual cost is not known *)
(* before it settles; and only a failure leaves a credit stale or puts     *)
(* spent money back.                                                       *)
Loading == {"load", "set_sub", "set_grant", "set_cash", "retry"}

WarmInv ==
  /\ present = PoolNames
  /\ \A r \in Requests : pc[r] \notin Loading
  /\ \A r \in Requests : pc[r] \in {"start", "serving"} => actual[r] = 0
  /\ faults = 0 => /\ \A c \in Credits : tx[c] # "stale"
                   /\ \A v \in Viewers : pc[v] \notin Loading
                   /\ undone = NoDeduction

(* What a credit or a debit will still do to the cache, and a debit that   *)
(* was never passed on.                                                    *)
Pending(c, p) == Credit(c, p, {"committed"}) - Debit(c, p, {"stale"})

Pendings(p) == SumOver([c \in Credits |-> Pending(c, p)], Credits)

(* What Postgres has in pool p beyond all that, not counting what a reload *)
(* wrote back to Redis.                                                    *)
Slack(p) == db[p] - cache[p] - Claims(p) - Pendings(p) + undone[p]

Calm == faults = 0 /\ \A r \in Requests : actual[r] <= Cost[r]

SlackInv == \A p \in PoolNames : Slack(p) >= 0 /\ (Calm => Slack(p) = 0)

(* But for debits that reached the cache, what Postgres has and a reload   *)
(* wrote back covers all claims on it.  A reload may leave a negative key, *)
(* so this is said of the cache and the slack together.                    *)
FloorInv == \A p \in PoolNames : cache[p] + Slack(p) + Debits(p, {"done"}) >= 0

LEMMA ClaimNat ==
  ASSUME TypeOK, NEW r \in Requests, NEW p \in PoolNames
  PROVE  Claim(r, p) \in Nat
  <1>1. ded[r] \in Deductions /\ splitActual3(actual[r], ded[r]) \in Deductions
    BY SplitType DEF TypeOK
  <1>2. QED
    BY <1>1 DEF Claim, Deductions

LEMMA CreditNumbers ==
  ASSUME NEW c \in Credits, NEW p
  PROVE  /\ Pending(c, p) \in Int
         /\ \A S : Debit(c, p, S) \in Nat
  BY Constants DEF Pending, Debit, Credit

LEMMA WarmSums ==
  ASSUME TypeOK, NEW p \in PoolNames
  PROVE  /\ Claims(p) \in Nat /\ Pendings(p) \in Int
         /\ \A S : Debits(p, S) \in Nat
         /\ db[p] \in Int /\ cache[p] \in Int /\ Slack(p) \in Int
         /\ undone[p] \in Nat
  <1>1. Claims(p) \in Nat
    BY ClaimNat, SumNat, Constants DEF Claims
  <1>2. Pendings(p) \in Int
    BY CreditNumbers, SumRemove, Constants DEF Pendings
  <1>3. \A S : Debits(p, S) \in Nat
    BY CreditNumbers, SumNat, Constants DEF Debits
  <1>4. db[p] \in Int /\ cache[p] \in Int /\ undone[p] \in Nat
    BY DEF TypeOK
  <1>5. QED
    BY <1>1, <1>2, <1>3, <1>4 DEF Slack

LEMMA WarmInit ==
  ASSUME WarmStart
  PROVE  Init => WarmInv /\ AdmittedIsHeld /\ SlackInv /\ FloorInv
  <1> SUFFICES ASSUME Init PROVE WarmInv /\ AdmittedIsHeld /\ SlackInv /\ FloorInv
    OBVIOUS
  <1>1. WarmInv /\ AdmittedIsHeld
    BY Constants DEF Init, WarmInv, Loading, AdmittedIsHeld
  <1>2. ASSUME NEW p \in PoolNames
        PROVE  Claims(p) = 0 /\ Pendings(p) = 0 /\ Debits(p, {"done"}) = 0
    <2>1. \A r \in Requests : Claim(r, p) = 0
      BY Constants DEF Init, Claim
    <2>2. \A c \in Credits : Pending(c, p) = 0 /\ Debit(c, p, {"done"}) = 0
      BY DEF Init, Pending, Debit, Credit
    <2>3. QED
      BY <2>1, <2>2, SumZero, Constants DEF Claims, Pendings, Debits
  <1>3. ASSUME NEW p \in PoolNames
        PROVE  Slack(p) = 0 /\ cache[p] + Slack(p) + Debits(p, {"done"}) >= 0
    <2>1. /\ db[p] = InitDb[p] /\ cache[p] = InitDb[p] /\ InitDb[p] \in Nat
          /\ undone[p] = 0
      BY Constants DEF Init, NoDeduction
    <2>2. QED
      BY <1>2, <2>1 DEF Slack
  <1>4. ASSUME NEW p \in PoolNames PROVE Slack(p) >= 0 /\ (Calm => Slack(p) = 0)
    BY <1>3
  <1>5. SlackInv
    BY <1>4 DEF SlackInv
  <1>6. FloorInv
    BY <1>3 DEF FloorInv
  <1>7. QED
    BY <1>1, <1>5, <1>6

-----------------------------------------------------------------------------
(* The steps of a warm cache. *)
LEMMA WarmRequest ==
  ASSUME TypeOK, WarmInv, AdmittedIsHeld, NEW r \in Requests, RequestStep(r)
  PROVE  WarmInv' /\ AdmittedIsHeld'
  <1>0. RunsAlone(r) /\ r \in Loaders
    BY RequestRunsAlone, Constants
  <1>a. /\ pc \in [Loaders -> PCs] /\ ded \in [Requests -> Deductions]
        /\ actual \in [Requests -> Nat] /\ present = PoolNames /\ faults \in Nat
    BY Constants DEF TypeOK, WarmInv
  <1>1. present' = PoolNames
    BY <1>a DEF RequestStep, PreDeduct, RetryPreDeduct, PreDeductFails, SettleExcess,
                SettleShortfall, Refund, Bill, Lose, Incr
  <1>2. pc[r] # "retry"
    BY <1>0 DEF WarmInv, Loading
  <1>3. pc'[r] \in {"serving", "rejected", "lost", "owed", "billed"}
    BY <1>0, <1>a, <1>2
       DEF RequestStep, PreDeduct, RetryPreDeduct, PreDeductFails, RunPreDeduct,
           SettleExcess, SettleShortfall, Refund, Bill, Lose, Goto
  <1>4. ASSUME pc'[r] = "serving"
        PROVE  /\ PreDeduct(r) /\ Affordable(cache, Policy[r], Cost[r])
               /\ ded'[r] = PreDeductTake(cache, Policy[r], Cost[r])
    BY <1>0, <1>a, <1>2, <1>4
       DEF RequestStep, PreDeduct, RetryPreDeduct, PreDeductFails, RunPreDeduct,
           SettleExcess, SettleShortfall, Refund, Bill, Lose, Goto
  <1>5. pc'[r] = "serving" => actual'[r] = 0
    BY <1>4 DEF PreDeduct, WarmInv
  <1>6. faults' = 0 => faults = 0
    BY <1>a DEF RequestStep, PreDeduct, RetryPreDeduct, PreDeductFails,
                SettleExcess, SettleShortfall, Refund, Bill, Lose, Fault
  <1>7. WarmInv'
    BY <1>0, <1>1, <1>3, <1>5, <1>6, Constants DEF WarmInv, Loading, RunsAlone
  <1>8. pc'[r] = "serving" =>
          /\ Total(ded'[r]) = Cost[r]
          /\ \A p \in PoolNames : ded'[r][p] > 0 => Uses(Policy[r], p)
    BY <1>4, Took
  <1>9. AdmittedIsHeld'
    BY <1>0, <1>8, Constants DEF AdmittedIsHeld, RunsAlone
  <1>10. QED
    BY <1>7, <1>9

(* A viewer reads, or loads after an error; it touches no request. *)
LEMMA WarmViewer ==
  ASSUME TypeOK, WarmInv, AdmittedIsHeld, NEW v \in Viewers,
         \/ GetUserBalance(v)
         \/ GetUserBalances(v)
         \/ SyncUserBalanceCache(v)
         \/ LoadFails(v)
  PROVE  /\ WarmInv' /\ AdmittedIsHeld'
         /\ UNCHANGED <<db, ded, actual, tx>> /\ \A r \in Requests : pc'[r] = pc[r]
         /\ faults' = 0 => faults = 0
         /\ SyncUserBalanceCache(v) \/ UNCHANGED <<cache, undone>>
         /\ SyncUserBalanceCache(v) => faults' # 0
  <1>a. /\ pc \in [Loaders -> PCs] /\ faults \in Nat /\ v \in Loaders
        /\ present = PoolNames
    BY Constants DEF TypeOK, WarmInv
  <1>1. /\ UNCHANGED <<db, ded, actual, tx>>
        /\ SyncUserBalanceCache(v) \/ UNCHANGED <<cache, undone>>
    BY DEF GetUserBalance, GetUserBalances, SyncUserBalanceCache, LoadFails
  <1>2. present' = PoolNames
    BY <1>a DEF GetUserBalance, GetUserBalances, SyncUserBalanceCache, LoadFails
  <1>3. \A x \in Loaders : x # v => pc'[x] = pc[x]
    BY <1>a DEF GetUserBalance, GetUserBalances, SyncUserBalanceCache, LoadFails, Goto
  <1>4. \A r \in Requests : pc'[r] = pc[r]
    BY <1>3, Constants
  <1>5. faults' = 0 => faults = 0
    BY <1>a DEF GetUserBalance, GetUserBalances, SyncUserBalanceCache, LoadFails, Fault
  <1>6. faults = 0 => ~GetUserBalances(v) /\ ~SyncUserBalanceCache(v) /\ ~LoadFails(v)
    BY DEF WarmInv, Loading, GetUserBalances, SyncUserBalanceCache, LoadFails, SetStep,
           PoolNames
  <1>7. SyncUserBalanceCache(v) => faults' # 0
    BY <1>6 DEF SyncUserBalanceCache
  <1>8. faults' = 0 => pc'[v] \notin Loading
    BY <1>a, <1>5, <1>6 DEF GetUserBalance, Goto, Fault, Loading
  <1>9. WarmInv'
    BY <1>1, <1>2, <1>3, <1>4, <1>5, <1>7, <1>8, Constants DEF WarmInv
  <1>10. AdmittedIsHeld'
    BY <1>1, <1>4 DEF AdmittedIsHeld
  <1>11. QED
    BY <1>1, <1>4, <1>5, <1>7, <1>9, <1>10

LEMMA WarmOther ==
  ASSUME TypeOK, WarmInv, AdmittedIsHeld, Applies = {},
         [Next]_vars, \A r \in Requests : ~RequestStep(r)
  PROVE  /\ WarmInv' /\ AdmittedIsHeld'
         /\ \/ \E c \in Credits : CreditCommit(c) \/ CreditBalanceCache(c)
            \/ \E v \in Viewers : SyncUserBalanceCache(v)
            \/ /\ UNCHANGED <<cache, undone, db, ded, actual, tx>>
               /\ \A r \in Requests : pc'[r] = pc[r]
               /\ faults' = 0 => faults = 0
  <1>a. /\ pc \in [Loaders -> PCs] /\ faults \in Nat
        /\ tx \in [Credits \cup Applies ->
                     {"start", "committed", "done", "stale", "refused"}]
    BY Constants DEF TypeOK
  <1>1. ASSUME NEW r \in Requests
        PROVE  ~GetUserBalances(r) /\ ~SyncUserBalanceCache(r) /\ ~LoadFails(r)
    BY <1>1 DEF WarmInv, Loading, GetUserBalances, SyncUserBalanceCache, LoadFails,
                SetStep, PoolNames
  <1>2. CASE \E v \in Viewers : \/ GetUserBalance(v)
                               \/ GetUserBalances(v)
                               \/ SyncUserBalanceCache(v)
                               \/ LoadFails(v)
    BY <1>2, WarmViewer
  <1>3. ASSUME NEW c \in Credits, CreditCommit(c) \/ CreditBalanceCache(c)
        PROVE  WarmInv' /\ AdmittedIsHeld'
    <2>1. UNCHANGED <<present, pc, ded, actual, undone>>
      BY <1>3 DEF CreditCommit, CreditBalanceCache
    <2>2. (faults' = 0 => \A q \in Credits : tx[q] # "stale" => tx'[q] # "stale")
          /\ (faults' = 0 => faults = 0)
      BY <1>3, <1>a DEF CreditCommit, CreditBalanceCache, Fault
    <2>3. QED
      BY <2>1, <2>2 DEF WarmInv, AdmittedIsHeld
  <1>4. CASE UNCHANGED vars
    BY <1>4 DEF vars, WarmInv, AdmittedIsHeld
  <1>5. QED
    BY <1>1, <1>2, <1>3, <1>4 DEF Next, Loaders

LEMMA WarmNext ==
  ASSUME Applies = {}
  PROVE  TypeOK /\ WarmInv /\ AdmittedIsHeld /\ [Next]_vars => WarmInv' /\ AdmittedIsHeld'
  BY WarmRequest, WarmOther

(* On a warm cache nothing goes upstream without its whole estimate held,  *)
(* in pools the policy of its model allows.                                *)
THEOREM AdmittedAlwaysHeld ==
  ASSUME WarmStart, Applies = {}
  PROVE  Spec => []AdmittedIsHeld
  BY WarmInit, WarmNext, TypeCorrect, PTL DEF Spec

-----------------------------------------------------------------------------
(* The balance of the two ledgers on a warm cache.                         *)

(* The part of the slack that request r, or credit c, has a hand in. *)
OwnSlack(r, p) == db[p] - cache[p] - Claim(r, p)

CreditSlack(c, p) == db[p] - cache[p] - Pending(c, p)

LEMMA RequestSlack ==
  ASSUME TypeOK, TypeOK', NEW r \in Requests, RunsAlone(r), NEW p \in PoolNames
  PROVE  /\ Slack(p)' = Slack(p) + OwnSlack(r, p)' - OwnSlack(r, p)
         /\ \A S : Debits(p, S)' = Debits(p, S)
  <1>1. \A q \in Requests : /\ Claim(q, p) \in Int /\ Claim(q, p)' \in Int
                            /\ q # r => Claim(q, p)' = Claim(q, p)
    <2>1. \A q \in Requests : Claim(q, p) \in Int
      BY ClaimNat
    <2>2. \A q \in Requests : q # r => Claim(q, p)' = Claim(q, p)
      BY Constants DEF RunsAlone, Claim
    <2>3. Claim(r, p)' \in Int
      <3>1. ded'[r] \in Deductions /\ splitActual3(actual'[r], ded'[r]) \in Deductions
        BY SplitType DEF TypeOK
      <3>2. QED
        BY <3>1 DEF Claim, Deductions
    <2>4. QED
      BY <2>1, <2>2, <2>3
  <1>2. Claims(p)' = Claims(p) + Claim(r, p)' - Claim(r, p)
    BY <1>1, SumChange, Constants DEF Claims
  <1>3. Pendings(p)' = Pendings(p) /\ \A S : Debits(p, S)' = Debits(p, S)
    BY DEF RunsAlone, Pendings, Pending, Debits, Debit, Credit
  <1>4. /\ db[p] \in Int /\ cache[p] \in Int /\ db'[p] \in Int /\ cache'[p] \in Int
        /\ Claims(p) \in Int /\ Pendings(p) \in Int
        /\ undone[p] \in Int /\ undone' = undone
    BY WarmSums DEF TypeOK, RunsAlone
  <1>5. QED
    BY <1>1, <1>2, <1>3, <1>4 DEF Slack, OwnSlack

LEMMA EventSlack ==
  ASSUME TypeOK, TypeOK', NEW c \in Credits, NEW p \in PoolNames,
         UNCHANGED <<pc, ded, actual, undone>>,
         \A q \in Credits : q # c => tx'[q] = tx[q]
  PROVE  /\ Slack(p)' = Slack(p) + CreditSlack(c, p)' - CreditSlack(c, p)
         /\ Debits(p, {"done"})'
              = Debits(p, {"done"}) + Debit(c, p, {"done"})' - Debit(c, p, {"done"})
  <1>1. \A q \in Credits :
          /\ Pending(q, p) \in Int /\ Pending(q, p)' \in Int
          /\ Debit(q, p, {"done"}) \in Int /\ Debit(q, p, {"done"})' \in Int
    BY Constants DEF Pending, Debit, Credit
  <1>2. \A q \in Credits : q # c => /\ Pending(q, p)' = Pending(q, p)
                                    /\ Debit(q, p, {"done"})' = Debit(q, p, {"done"})
    BY DEF Pending, Debit, Credit
  <1>3. Pendings(p)' = Pendings(p) + Pending(c, p)' - Pending(c, p)
    BY <1>1, <1>2, SumChange, Constants DEF Pendings
  <1>4. Debits(p, {"done"})'
          = Debits(p, {"done"}) + Debit(c, p, {"done"})' - Debit(c, p, {"done"})
    BY <1>1, <1>2, SumChange, Constants DEF Debits
  <1>5. Claims(p)' = Claims(p)
    BY DEF Claims, Claim
  <1>6. /\ db[p] \in Int /\ cache[p] \in Int /\ db'[p] \in Int /\ cache'[p] \in Int
        /\ Claims(p) \in Int /\ Pendings(p) \in Int /\ undone[p] \in Int
    BY WarmSums DEF TypeOK
  <1>7. QED
    BY <1>1, <1>3, <1>4, <1>5, <1>6 DEF Slack, CreditSlack

(* No step of a request takes from the slack, and only a failure or a cost *)
(* above its estimate adds to it.                                          *)
LEMMA OwnSlackStep ==
  ASSUME TypeOK, WarmInv, AdmittedIsHeld, NEW r \in Requests, RequestStep(r),
         NEW p \in PoolNames
  PROVE  /\ OwnSlack(r, p)' >= OwnSlack(r, p)
         /\ faults' = faults /\ actual'[r] <= Cost[r]
              => OwnSlack(r, p)' = OwnSlack(r, p)
  <1> DEFINE Goal == /\ OwnSlack(r, p)' >= OwnSlack(r, p)
                     /\ faults' = faults /\ actual'[r] <= Cost[r]
                          => OwnSlack(r, p)' = OwnSlack(r, p)
  <1>a. /\ pc \in [Loaders -> PCs] /\ ded \in [Requests -> Deductions]
        /\ cache \in [PoolNames -> Int] /\ db \in [PoolNames -> Int]
        /\ actual \in [Requests -> Nat] /\ present = PoolNames /\ faults \in Nat
        /\ r \in Loaders /\ Cost[r] \in Nat /\ pc[r] # "retry"
    BY Constants DEF TypeOK, WarmInv, Loading
  <1>b. ded[r] \in Deductions /\ ded[r][p] \in Nat /\ cache[p] \in Int /\ db[p] \in Int
    BY <1>a DEF Deductions
  <1>c. \A k : Fault(k) => faults' # faults
    BY <1>a DEF Fault
  <1>1. CASE PreDeduct(r)
    <2> DEFINE take == PreDeductTake(cache, Policy[r], Cost[r])
    <2>1. pc[r] = "start" /\ RunPreDeduct(r, "serving") /\ UNCHANGED db
      BY <1>1, <1>a DEF PreDeduct
    <2>2. Claim(r, p) = 0
      BY <2>1 DEF Claim
    <2>3. take \in Deductions
      BY Took
    <2>4. \/ cache' = Minus(cache, take) /\ ded'[r] = take /\ pc'[r] = "serving"
          \/ cache' = cache /\ pc'[r] = "rejected"
      BY <1>a, <2>1 DEF RunPreDeduct, Goto
    <2> HIDE DEF take
    <2>5. CASE cache' = Minus(cache, take) /\ ded'[r] = take /\ pc'[r] = "serving"
      <3>1. cache'[p] = cache[p] - take[p] /\ take[p] \in Nat /\ Claim(r, p)' = take[p]
        BY <1>a, <2>3, <2>5, PlusMinus DEF Claim
      <3>2. QED
        BY <1>b, <2>1, <2>2, <3>1 DEF OwnSlack
    <2>6. CASE cache' = cache /\ pc'[r] = "rejected"
      <3>1. Claim(r, p)' = 0
        BY <2>6 DEF Claim
      <3>2. QED
        BY <1>b, <2>1, <2>2, <2>6, <3>1 DEF OwnSlack
    <2>7. QED
      BY <2>4, <2>5, <2>6
  <1>2. CASE RetryPreDeduct(r)
    BY <1>2, <1>a DEF RetryPreDeduct
  <1>3. CASE PreDeductFails(r)
    <2> DEFINE take == PreDeductTake(cache, Policy[r], Cost[r])
    <2>1. pc[r] = "start" /\ UNCHANGED db /\ faults' # faults
      BY <1>3, <1>a, <1>c DEF PreDeductFails
    <2>2. take \in Deductions
      BY Took
    <2>3. (cache' = Minus(cache, take) \/ cache' = cache)
          /\ pc'[r] \in {"lost", "rejected"}
      BY <1>3, <1>a DEF PreDeductFails, RunPreDeduct, Goto
    <2> HIDE DEF take
    <2>4. cache'[p] <= cache[p] /\ cache'[p] \in Int
      <3>1. /\ Minus(cache, take)[p] = cache[p] - take[p] /\ take[p] \in Nat
            /\ cache'[p] \in {Minus(cache, take)[p], cache[p]}
        BY <1>a, <2>2, <2>3, PlusMinus
      <3>2. QED
        BY <1>b, <3>1
    <2>5. Claim(r, p) = 0 /\ Claim(r, p)' = 0
      BY <2>1, <2>3 DEF Claim
    <2>6. QED
      BY <1>b, <2>1, <2>4, <2>5 DEF OwnSlack
  (* Settling: what goes back to Redis is what Postgres will not charge. *)
  <1>d. ASSUME NEW a \in Nat, pc[r] = "serving", pc'[r] = "owed",
               actual' = [actual EXCEPT ![r] = a], UNCHANGED <<db, ded>>
        PROVE  /\ Claim(r, p) = ded[r][p]
               /\ Claim(r, p)' = splitActual3(a, ded[r])[p]
               /\ splitActual3(a, ded[r])[p] \in Nat
               /\ splitActual3(a, ded[r])[p] <= ded[r][p]
               /\ actual'[r] = a
    <2>1. actual'[r] = a
      BY <1>a, <1>d
    <2>2. QED
      BY <1>b, <1>d, <2>1, SplitType DEF Claim, Deductions
  <1>e. ASSUME NEW a \in Nat, a <= Cost[r], pc[r] = "serving", pc'[r] = "owed",
               actual' = [actual EXCEPT ![r] = a], UNCHANGED <<db, ded>>,
               \/ Incr(RefundGive(ded[r], Cost[r] - a))
               \/ cache' = cache /\ faults' # faults
        PROVE  Goal
    <2> DEFINE give == RefundGive(ded[r], Cost[r] - a)
               split == splitActual3(a, ded[r])
    <2>1. /\ Claim(r, p) = ded[r][p] /\ Claim(r, p)' = split[p]
          /\ split[p] \in Nat /\ split[p] <= ded[r][p]
      BY <1>d, <1>e
    <2>2. CASE Incr(give)
      <3>1. Total(ded[r]) = Cost[r]
        BY <1>e DEF AdmittedIsHeld
      <3>2. ded[r][p] - give[p] = split[p]
        BY <1>b, <1>e, <3>1, SettlementAgrees
      <3>3. give \in Deductions
        BY <1>e, GaveBack
      <3> HIDE DEF give, split
      <3>4. cache'[p] = cache[p] + give[p] /\ give[p] \in Nat
        BY <1>a, <2>2, <3>3, PlusMinus DEF Incr
      <3>5. QED
        BY <1>b, <1>e, <2>1, <3>2, <3>4 DEF OwnSlack
    <2>3. CASE cache' = cache /\ faults' # faults
      <3> HIDE DEF split
      <3> QED BY <1>b, <1>e, <2>1, <2>3 DEF OwnSlack
    <2>4. QED
      BY <1>e, <2>2, <2>3
  <1>4. ASSUME NEW a \in Actuals, SettleExcess(r, a) PROVE Goal
    <2>1. a \in Nat /\ pc'[r] = "owed"
      BY <1>4, <1>a, Constants DEF SettleExcess, Goto
    <2>2. QED
      BY <1>4, <1>c, <1>e, <2>1 DEF SettleExcess
  <1>5. ASSUME NEW a \in Actuals, SettleShortfall(r, a) PROVE Goal
    <2>1. /\ a \in Nat /\ a > Cost[r] /\ pc[r] = "serving" /\ pc'[r] = "owed"
          /\ actual' = [actual EXCEPT ![r] = a] /\ UNCHANGED <<db, ded>>
      BY <1>5, <1>a, Constants DEF SettleShortfall, Goto
    <2>2. cache'[p] <= cache[p] /\ cache'[p] \in Int
      <3>1. ASSUME NEW policy,
                   cache' = Minus(cache, CompensateTake(cache, policy, a - Cost[r]))
            PROVE  cache'[p] <= cache[p] /\ cache'[p] \in Int
        <4> DEFINE take == CompensateTake(cache, policy, a - Cost[r])
        <4>1. take \in Deductions
          BY <2>1, TookMore
        <4> HIDE DEF take
        <4>2. cache'[p] = cache[p] - take[p] /\ take[p] \in Nat
          BY <1>a, <3>1, <4>1, PlusMinus DEF take
        <4>3. QED
          BY <1>b, <4>2
      <3>2. QED
        BY <1>5, <1>b, <3>1 DEF SettleShortfall
    <2> DEFINE split == splitActual3(a, ded[r])
    <2>3. /\ Claim(r, p) = ded[r][p] /\ Claim(r, p)' = split[p] /\ actual'[r] = a
          /\ split[p] \in Nat /\ split[p] <= ded[r][p]
      BY <1>d, <2>1
    <2> HIDE DEF split
    <2>4. QED
      BY <1>a, <1>b, <2>1, <2>2, <2>3 DEF OwnSlack
  <1>6. CASE Refund(r)
    <2>1. 0 \in Nat /\ 0 <= Cost[r] /\ Cost[r] - 0 = Cost[r] /\ pc'[r] = "owed"
      BY <1>6, <1>a DEF Refund, Goto
    <2>2. QED
      BY <1>6, <1>c, <1>e, <2>1 DEF Refund
  <1>7. CASE Bill(r)
    <2> DEFINE split == splitActual3(actual[r], ded[r])
    <2>1. /\ pc[r] = "owed" /\ pc'[r] = "billed" /\ db' = Minus(db, split)
          /\ cache' = cache
      BY <1>7, <1>a DEF Bill, Goto
    <2>2. Claim(r, p) = split[p] /\ Claim(r, p)' = 0 /\ split \in Deductions
      BY <1>a, <2>1, SplitType DEF Claim
    <2> HIDE DEF split
    <2>3. db'[p] = db[p] - split[p] /\ split[p] \in Nat
      BY <1>a, <2>1, <2>2, PlusMinus
    <2>4. QED
      BY <1>b, <2>1, <2>2, <2>3 DEF OwnSlack
  <1>8. CASE Lose(r)
    <2>1. pc'[r] = "lost" /\ UNCHANGED <<cache, db>> /\ faults' # faults
      BY <1>8, <1>a, <1>c DEF Lose, Goto
    <2>2. Claim(r, p)' = 0 /\ Claim(r, p) \in Nat
      BY <2>1, ClaimNat DEF Claim
    <2>3. QED
      BY <1>b, <2>1, <2>2 DEF OwnSlack
  <1>9. QED
    BY <1>1, <1>2, <1>3, <1>4, <1>5, <1>6, <1>7, <1>8 DEF RequestStep

LEMMA SlackRequest ==
  ASSUME TypeOK, TypeOK', WarmInv, AdmittedIsHeld, SlackInv, FloorInv,
         NEW r \in Requests, RequestStep(r)
  PROVE  SlackInv' /\ FloorInv'
  <1>0. RunsAlone(r)
    BY RequestRunsAlone
  <1>1. ASSUME Calm' PROVE Calm /\ faults' = faults /\ actual'[r] <= Cost[r]
    <2>1. /\ actual \in [Requests -> Nat] /\ faults \in Nat
          /\ \A q \in Requests : Cost[q] \in Nat
      BY Constants DEF TypeOK
    <2>2. faults' = 0 => faults = 0 /\ faults' = faults
      BY <2>1 DEF RequestStep, PreDeduct, RetryPreDeduct, PreDeductFails,
                  SettleExcess, SettleShortfall, Refund, Bill, Lose, Fault
    <2>3. pc[r] = "serving" \/ actual'[r] = actual[r]
      BY DEF RequestStep, PreDeduct, RetryPreDeduct, PreDeductFails,
             SettleExcess, SettleShortfall, Refund, Bill, Lose
    <2>4. actual[r] <= Cost[r]
      BY <1>1, <2>1, <2>3 DEF WarmInv, Calm
    <2>5. QED
      BY <1>0, <1>1, <2>2, <2>4 DEF Calm, RunsAlone
  <1>2. ASSUME NEW p \in PoolNames
        PROVE  /\ Slack(p)' >= 0 /\ (Calm' => Slack(p)' = 0)
               /\ Slack(p)' >= Slack(p) /\ Slack(p) \in Int /\ Slack(p)' \in Int
    <2>1. Slack(p)' = Slack(p) + OwnSlack(r, p)' - OwnSlack(r, p)
      BY <1>0, RequestSlack
    <2>2. /\ OwnSlack(r, p)' >= OwnSlack(r, p)
          /\ Calm' => OwnSlack(r, p)' = OwnSlack(r, p)
      BY <1>1, OwnSlackStep
    <2>3. Slack(p) \in Int /\ OwnSlack(r, p) \in Int /\ OwnSlack(r, p)' \in Int
      <3>1. Slack(p) \in Int /\ OwnSlack(r, p) \in Int
        BY WarmSums, ClaimNat DEF OwnSlack
      <3>2. ded'[r] \in Deductions /\ splitActual3(actual'[r], ded'[r]) \in Deductions
        BY SplitType DEF TypeOK
      <3>3. Claim(r, p)' \in Int
        BY <3>2 DEF Claim, Deductions
      <3>4. db'[p] \in Int /\ cache'[p] \in Int
        BY DEF TypeOK
      <3>5. QED
        BY <3>1, <3>3, <3>4 DEF OwnSlack
    <2>4. Slack(p) >= 0 /\ (Calm => Slack(p) = 0)
      BY DEF SlackInv
    <2>5. Slack(p)' >= 0
      BY <2>1, <2>2, <2>3, <2>4
    <2>6. ASSUME Calm' PROVE Slack(p)' = 0
      BY <1>1, <2>1, <2>2, <2>3, <2>4, <2>6
    <2>7. Slack(p)' >= Slack(p) /\ Slack(p)' \in Int
      BY <2>1, <2>2, <2>3
    <2>8. QED
      BY <2>3, <2>5, <2>6, <2>7
  <1>3. ASSUME NEW p \in PoolNames
        PROVE  cache'[p] + Slack(p)' + Debits(p, {"done"})' >= 0
    <2>1. Debits(p, {"done"})' = Debits(p, {"done"}) /\ Debits(p, {"done"}) \in Nat
      BY <1>0, RequestSlack, WarmSums
    <2>2. /\ cache[p] \in Int /\ cache'[p] \in Int
          /\ cache[p] + Slack(p) + Debits(p, {"done"}) >= 0
      BY DEF TypeOK, FloorInv
    <2>3. cache'[p] < cache[p] => cache'[p] >= 0
      BY ScriptFloor
    <2>4. QED
      BY <1>2, <2>1, <2>2, <2>3
  <1>4. QED
    BY <1>2, <1>3 DEF SlackInv, FloorInv

LEMMA SlackCredit ==
  ASSUME TypeOK, TypeOK', WarmInv, SlackInv, FloorInv,
         NEW c \in Credits, CreditCommit(c) \/ CreditBalanceCache(c)
  PROVE  SlackInv' /\ FloorInv'
  <1>0. /\ tx \in [Credits \cup Applies ->
                     {"start", "committed", "done", "stale", "refused"}]
        /\ db \in [PoolNames -> Int] /\ cache \in [PoolNames -> Int]
        /\ present = PoolNames /\ faults \in Nat
        /\ CreditPool[c] \in PoolNames /\ CreditDelta[c] \in Int
    BY Constants DEF TypeOK, WarmInv
  <1>1. /\ UNCHANGED <<pc, ded, actual, undone>>
        /\ \A q \in Credits : q # c => tx'[q] = tx[q]
    BY <1>0 DEF CreditCommit, CreditBalanceCache
  <1>2. Calm' => Calm /\ faults' = faults
    BY <1>0, <1>1 DEF CreditCommit, CreditBalanceCache, Fault, Calm
  <1>3. ASSUME NEW p \in PoolNames
        PROVE  /\ CreditSlack(c, p)' >= CreditSlack(c, p)
               /\ faults' = faults => CreditSlack(c, p)' = CreditSlack(c, p)
               /\ CreditSlack(c, p) \in Int /\ CreditSlack(c, p)' \in Int
               /\ cache'[p] + Debit(c, p, {"done"})' >= cache[p] + Debit(c, p, {"done"})
    <2>0. db[p] \in Int /\ cache[p] \in Int
      BY <1>0
    <2>1. CASE CreditCommit(c)
      <3>1. /\ tx[c] = "start" /\ cache' = cache
            /\ \/ /\ tx'[c] = "committed"
                  /\ db'[p] = IF CreditPool[c] = p THEN db[p] + CreditDelta[c] ELSE db[p]
               \/ tx'[c] = "refused" /\ db'[p] = db[p]
        BY <1>0, <2>1 DEF CreditCommit
      <3>2. QED
        BY <1>0, <2>0, <3>1 DEF CreditSlack, Pending, Debit, Credit
    <2>2. CASE CreditBalanceCache(c)
      <3>1. /\ tx[c] = "committed" /\ db' = db
            /\ \/ /\ tx'[c] = "done"
                  /\ cache'[p] = IF CreditPool[c] = p THEN cache[p] + CreditDelta[c]
                                                      ELSE cache[p]
               \/ tx'[c] = "stale" /\ cache'[p] = cache[p] /\ faults' # faults
        BY <1>0, <2>2 DEF CreditBalanceCache, Fault
      <3>2. QED
        BY <1>0, <2>0, <3>1 DEF CreditSlack, Pending, Debit, Credit
    <2>3. QED
      BY <2>1, <2>2
  <1>4. ASSUME NEW p \in PoolNames
        PROVE  /\ Slack(p)' >= 0 /\ (Calm' => Slack(p)' = 0)
               /\ cache'[p] + Slack(p)' + Debits(p, {"done"})' >= 0
    <2>1. /\ Slack(p)' = Slack(p) + CreditSlack(c, p)' - CreditSlack(c, p)
          /\ Debits(p, {"done"})'
               = Debits(p, {"done"}) + Debit(c, p, {"done"})' - Debit(c, p, {"done"})
      BY <1>1, EventSlack
    <2>2. /\ Slack(p) \in Int /\ Debits(p, {"done"}) \in Int
          /\ cache[p] \in Int /\ cache'[p] \in Int
          /\ Debit(c, p, {"done"}) \in Int /\ Debit(c, p, {"done"})' \in Int
      BY WarmSums, <1>0 DEF TypeOK, Debit
    <2>3. /\ Slack(p) >= 0 /\ (Calm => Slack(p) = 0)
          /\ cache[p] + Slack(p) + Debits(p, {"done"}) >= 0
      BY DEF SlackInv, FloorInv
    <2>4. Slack(p)' >= 0
      BY <1>3, <2>1, <2>2, <2>3
    <2>5. ASSUME Calm' PROVE Slack(p)' = 0
      BY <1>2, <1>3, <2>1, <2>2, <2>3, <2>5
    <2>6. cache'[p] + Slack(p)' + Debits(p, {"done"})' >= 0
      BY <1>3, <2>1, <2>2, <2>3
    <2>7. QED
      BY <2>4, <2>5, <2>6
  <1>5. QED
    BY <1>4 DEF SlackInv, FloorInv

(* The SET of a reload: what it puts back is counted, what it takes away   *)
(* adds to the slack.                                                      *)
LEMMA SlackReload ==
  ASSUME TypeOK, TypeOK', WarmInv, AdmittedIsHeld, SlackInv, FloorInv,
         NEW v \in Viewers, SyncUserBalanceCache(v)
  PROVE  SlackInv' /\ FloorInv'
  <1>1. /\ UNCHANGED <<db, ded, actual, tx>> /\ \A r \in Requests : pc'[r] = pc[r]
        /\ faults' # 0 /\ present = PoolNames
    BY WarmViewer DEF WarmInv
  <1>2. PICK q \in PoolNames :
          /\ cache' = [cache EXCEPT ![q] = snap[v][q]]
          /\ undone' = IF q \in present /\ snap[v][q] > cache[q]
                         THEN [undone EXCEPT ![q] = @ + snap[v][q] - cache[q]]
                         ELSE undone
    BY DEF SyncUserBalanceCache
  <1>3. ASSUME NEW p \in PoolNames
        PROVE  /\ Claims(p)' = Claims(p) /\ Pendings(p)' = Pendings(p)
               /\ Debits(p, {"done"})' = Debits(p, {"done"})
    <2>1. \A r \in Requests : Claim(r, p)' = Claim(r, p)
      BY <1>1 DEF Claim
    <2>2. QED
      BY <1>1, <2>1, SumSame, Constants
         DEF Claims, Pendings, Pending, Debits, Debit, Credit
  <1>4. ASSUME NEW p \in PoolNames
        PROVE  /\ undone'[p] - cache'[p] >= undone[p] - cache[p]
               /\ undone'[p] >= undone[p]
    <2>1. /\ cache \in [PoolNames -> Int] /\ undone \in [PoolNames -> Nat]
          /\ snap[v][q] \in Int
      BY Constants DEF TypeOK
    <2>2. CASE p = q
      <3>1. /\ cache'[p] = snap[v][q]
            /\ undone'[p] = IF snap[v][q] > cache[q]
                              THEN undone[q] + snap[v][q] - cache[q] ELSE undone[q]
        BY <1>1, <1>2, <2>1, <2>2
      <3>2. cache[q] \in Int /\ undone[q] \in Int
        BY <2>1
      <3>3. QED
        BY <2>1, <2>2, <3>1, <3>2
    <2>3. CASE p # q
      <3>1. cache'[p] = cache[p] /\ undone'[p] = undone[p]
        BY <1>2, <2>1, <2>3
      <3>2. QED
        BY <2>1, <3>1
    <2>4. QED
      BY <2>2, <2>3
  <1>5. ASSUME NEW p \in PoolNames
        PROVE  /\ Slack(p)' >= 0 /\ cache'[p] + Slack(p)' + Debits(p, {"done"})' >= 0
    <2>1. /\ db[p] \in Int /\ cache[p] \in Int /\ cache'[p] \in Int
          /\ undone[p] \in Int /\ undone'[p] \in Int
          /\ Claims(p) \in Int /\ Pendings(p) \in Int /\ Debits(p, {"done"}) \in Int
      BY WarmSums DEF TypeOK
    <2>2. Slack(p) >= 0 /\ cache[p] + Slack(p) + Debits(p, {"done"}) >= 0
      BY DEF SlackInv, FloorInv
    <2>3. QED
      BY <1>1, <1>3, <1>4, <2>1, <2>2 DEF Slack
  <1>6. ~Calm'
    BY <1>1 DEF Calm
  <1>7. QED
    BY <1>5, <1>6 DEF SlackInv, FloorInv

LEMMA SlackNext ==
  ASSUME Applies = {}
  PROVE  TypeOK /\ TypeOK' /\ WarmInv /\ AdmittedIsHeld /\ SlackInv /\ FloorInv
           /\ [Next]_vars => SlackInv' /\ FloorInv'
  <1> SUFFICES ASSUME TypeOK, TypeOK', WarmInv, AdmittedIsHeld, SlackInv, FloorInv,
                      [Next]_vars
               PROVE  SlackInv' /\ FloorInv'
    OBVIOUS
  <1>1. CASE \E r \in Requests : RequestStep(r)
    BY <1>1, SlackRequest
  <1>2. CASE \E c \in Credits : CreditCommit(c) \/ CreditBalanceCache(c)
    BY <1>2, SlackCredit
  <1>3. CASE \E v \in Viewers : SyncUserBalanceCache(v)
    BY <1>3, SlackReload
  <1>4. CASE /\ UNCHANGED <<cache, undone, db, ded, actual, tx>>
             /\ \A r \in Requests : pc'[r] = pc[r]
             /\ faults' = 0 => faults = 0
    <2>1. \A p : Claims(p)' = Claims(p)
      <3>1. \A r \in Requests : \A p : Claim(r, p)' = Claim(r, p)
        BY <1>4 DEF Claim
      <3>2. QED
        BY <3>1, SumSame, Constants DEF Claims
    <2>2. \A p : Pendings(p)' = Pendings(p) /\ Debits(p, {"done"})' = Debits(p, {"done"})
      BY <1>4 DEF Pendings, Pending, Debits, Debit, Credit
    <2>3. QED
      BY <1>4, <2>1, <2>2 DEF SlackInv, FloorInv, Slack, Calm
  <1>5. QED
    BY <1>1, <1>2, <1>3, <1>4, WarmOther

LEMMA SlackAlways ==
  ASSUME WarmStart, Applies = {}
  PROVE  Spec => [](TypeOK /\ WarmInv /\ AdmittedIsHeld /\ SlackInv /\ FloorInv)
  <1>1. TypeOK /\ [Next]_vars => TypeOK'
    BY TypeNext
  <1>2. QED
    BY <1>1, TypeInit, WarmInit, WarmNext, SlackNext, PTL DEF Spec

-----------------------------------------------------------------------------
(* No overspend on a warm cache: in every pool, what Redis still offers    *)
(* and what running requests may be charged is covered by Postgres, but    *)
(* for debits Redis has not seen and what reloads wrote back over it.      *)
THEOREM CacheAlwaysBacked ==
  ASSUME WarmStart, Applies = {}
  PROVE  Spec => []CacheBacked
  <1>1. TypeOK /\ SlackInv => CacheBacked
    <2> SUFFICES ASSUME TypeOK, SlackInv, NEW p \in PoolNames
                 PROVE  cache[p] + Claims(p)
                          <= db[p] + Debits(p, {"committed", "stale"}) + undone[p]
      BY DEF CacheBacked
    <2> DEFINE w == [c \in Credits |-> Debit(c, p, {"committed", "stale"})]
               v == [c \in Credits |-> Pending(c, p)]
               x == [c \in Credits |-> w[c] + v[c]]
    <2>1. \A c \in Credits : w[c] \in Int /\ v[c] \in Int /\ x[c] \in Nat
      BY Constants DEF Debit, Pending, Credit
    <2>2. SumOver(x, Credits) = SumOver(w, Credits) + SumOver(v, Credits)
      <3>1. \A c \in Credits : x[c] = w[c] + v[c]
        OBVIOUS
      <3> HIDE DEF w, v, x
      <3>2. QED
        BY <2>1, <3>1, SumPlus, Constants
    <2>3. SumOver(x, Credits) \in Nat
      <3> HIDE DEF x
      <3> QED BY <2>1, SumNat, Constants
    <2>4. SumOver(w, Credits) = Debits(p, {"committed", "stale"})
          /\ SumOver(v, Credits) = Pendings(p)
      BY DEF Debits, Pendings
    <2>5. Slack(p) >= 0
      BY DEF SlackInv
    <2> HIDE DEF w, v, x
    <2>6. Pendings(p) + Debits(p, {"committed", "stale"}) >= 0
      BY <2>2, <2>3, <2>4, WarmSums
    <2>7. QED
      BY <2>5, <2>6, WarmSums DEF Slack
  <1>2. QED
    BY <1>1, SlackAlways, PTL

(* On a warm cache only a debit, or a reload that gave money back after a  *)
(* failed MGET, can overdraw an account, and by no more than its amount.   *)
THEOREM OverdrawnAlwaysByDebit ==
  ASSUME WarmStart, Applies = {}
  PROVE  Spec => []OverdrawnOnlyByDebit
  <1>1. TypeOK /\ SlackInv /\ FloorInv => OverdrawnOnlyByDebit
    <2> SUFFICES ASSUME TypeOK, SlackInv, FloorInv, NEW p \in PoolNames
                 PROVE  db[p] >= -Debits(p, {"committed", "done", "stale"}) - undone[p]
      BY DEF OverdrawnOnlyByDebit
    <2> DEFINE w == [c \in Credits |-> Debit(c, p, {"committed", "done", "stale"})]
               v == [c \in Credits |-> Pending(c, p)]
               x == [c \in Credits |-> w[c] + v[c]]
               y == [c \in Credits |-> Debit(c, p, {"done"})]
    <2>1. \A c \in Credits : /\ w[c] \in Int /\ v[c] \in Int /\ x[c] \in Int
                             /\ y[c] \in Int /\ y[c] <= x[c]
      BY Constants DEF Debit, Pending, Credit
    <2>2. SumOver(x, Credits) = SumOver(w, Credits) + SumOver(v, Credits)
      <3>1. \A c \in Credits : x[c] = w[c] + v[c]
        OBVIOUS
      <3> HIDE DEF w, v, x
      <3>2. QED
        BY <2>1, <3>1, SumPlus, Constants
    <2>3. SumOver(y, Credits) <= SumOver(x, Credits)
      <3> HIDE DEF x, y
      <3> QED BY <2>1, SumLeq, Constants
    <2>4. /\ SumOver(w, Credits) = Debits(p, {"committed", "done", "stale"})
          /\ SumOver(v, Credits) = Pendings(p) /\ SumOver(y, Credits) = Debits(p, {"done"})
      BY DEF Debits, Pendings
    <2>5. Slack(p) >= 0 /\ cache[p] + Slack(p) + Debits(p, {"done"}) >= 0
      BY DEF SlackInv, FloorInv
    <2> HIDE DEF w, v, x, y
    <2>6. Debits(p, {"done"}) <= Debits(p, {"committed", "done", "stale"}) + Pendings(p)
      BY <2>2, <2>3, <2>4
    <2>7. QED
      BY <2>5, <2>6, WarmSums DEF Slack
  <1>2. QED
    BY <1>1, SlackAlways, PTL

(* No leakage on a warm cache: without failures and costs above their      *)
(* estimates, the two ledgers differ by the running requests and the       *)
(* credits under way and nothing else.                                     *)
THEOREM LedgerAlwaysExact ==
  ASSUME WarmStart, Applies = {}
  PROVE  Spec => []LedgerExact
  <1>1. TypeOK /\ WarmInv /\ SlackInv => LedgerExact
    <2> SUFFICES ASSUME TypeOK, WarmInv, SlackInv, Calm, NEW p \in PoolNames
                 PROVE  cache[p] + Claims(p) + Uncached(p) = db[p]
      BY DEF LedgerExact, Calm
    <2>1. \A c \in Credits : Pending(c, p) = Credit(c, p, {"committed"})
      BY Constants DEF Pending, Debit, Credit, WarmInv, Calm
    <2>2. Pendings(p) = Uncached(p)
      BY <2>1, SumSame, Constants DEF Pendings, Uncached
    <2>3. Slack(p) = 0 /\ undone[p] = 0
      BY DEF SlackInv, WarmInv, Calm, NoDeduction
    <2>4. QED
      BY <2>2, <2>3, WarmSums DEF Slack
  <1>2. QED
    BY <1>1, SlackAlways, PTL
=============================================================================
