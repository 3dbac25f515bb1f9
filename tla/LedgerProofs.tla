---------------------------- MODULE LedgerProofs ----------------------------
(***************************************************************************)
(* Proofs about Ledger, for any events, any number of handlers, sweeps,    *)
(* deliveries and failures.                                                *)
(***************************************************************************)
EXTENDS Ledger, PoolsProofs

(* The changes an actor can have at hand. *)
OrderJobs ==
  {buildTransactionRequestFromOrderPaid(e) :
     e \in {d \in Events : Payload[d].kind = "order" /\ Valid(Payload[d])}}

SubscriptionJobs ==
  {subscriptionChange(e) : e \in {d \in Events : Payload[d].kind # "order"}}

AdjustJob(a) ==
  [Change("adjust", NoEvent) EXCEPT !.pool = a.pool, !.delta = a.amount]

AdjustJobs == {AdjustJob(a) : a \in Adjustments}

SweepJobs == {Change("apply", SweepId(t \div TicksPerDay)) : t \in 0 .. LastTick}

Jobs == {NoChange} \cup OrderJobs \cup SubscriptionJobs \cup AdjustJobs \cup SweepJobs

(* What each of them does to the paid money, and under which event_id. *)
OrderLike(j) ==
  /\ j.kind = "order" /\ j.id \in Events
  /\ j.pool \in {"cash", "grant"} /\ j.delta \in Int
  /\ Paid(j.id) = IF j.pool = "cash" THEN j.delta ELSE 0

AdjustLike(j) ==
  /\ j.kind = "adjust" /\ j.id = NoEvent
  /\ j.pool \in {"cash", "grant"} /\ j.delta \in Int

ApplyLike(j) ==
  /\ j.kind = "apply"
  /\ j.sub \in Int /\ j.grant \in Int /\ j.exp \in Int
  /\ IF j.id \in Events THEN Paid(j.id) = j.sub ELSE j.sub = 0

LEMMA AmountInt ==
  ASSUME NEW e \in Events, Payload[e].kind = "order"
  PROVE  Amount(Payload[e]) \in Int
  BY PayloadAssumption DEF Amount, firstPositive

LEMMA JobKinds ==
  ASSUME NEW j \in Jobs
  PROVE  j.kind = "none" \/ OrderLike(j) \/ AdjustLike(j) \/ ApplyLike(j)
  <1>1. CASE j = NoChange
    BY <1>1 DEF NoChange, Change
  <1>2. CASE j \in OrderJobs
    <2>1. PICK e \in Events : /\ Payload[e].kind = "order" /\ Valid(Payload[e])
                              /\ j = buildTransactionRequestFromOrderPaid(e)
      BY <1>2 DEF OrderJobs
    <2> DEFINE o == Payload[e]
               d == IF Direction(o) = "debit" THEN -Amount(o) ELSE Amount(o)
    <2>2. d \in Int
      BY <2>1, AmountInt
    <2>3. j.kind = "order" /\ j.id = e /\ j.pool = BalanceType(o) /\ j.delta = d
      BY <2>1 DEF buildTransactionRequestFromOrderPaid, Change
    <2>4. BalanceType(o) \in {"cash", "grant"}
      BY <2>1 DEF Valid
    <2> HIDE DEF d
    <2>5. Paid(e) = IF j.pool = "cash" THEN j.delta ELSE 0
      BY <2>1, <2>3 DEF Paid
    <2>6. QED
      BY <2>2, <2>3, <2>4, <2>5 DEF OrderLike
  <1>3. CASE j \in SubscriptionJobs
    <2>1. PICK e \in Events : Payload[e].kind # "order" /\ j = subscriptionChange(e)
      BY <1>3 DEF SubscriptionJobs
    <2>2. /\ j.kind = "apply" /\ j.id = e /\ j.sub = Payload[e].sub
          /\ j.grant = Payload[e].grant /\ j.exp = Payload[e].exp
      BY <2>1 DEF subscriptionChange, Change
    <2>3. /\ Payload[e].sub \in Int /\ Payload[e].grant \in Int
          /\ Payload[e].exp \in Int
      BY <2>1, PayloadAssumption
    <2>4. Paid(e) = j.sub
      BY <2>1 DEF Paid
    <2>5. QED
      BY <2>2, <2>3, <2>4 DEF ApplyLike
  <1>4. CASE j \in AdjustJobs
    <2>1. PICK a \in Adjustments : j = AdjustJob(a)
      BY <1>4 DEF AdjustJobs
    <2>2. a.pool \in {"cash", "grant"} /\ a.amount \in Int
      BY LedgerAssumption
    <2>3. j.kind = "adjust" /\ j.id = NoEvent /\ j.pool = a.pool /\ j.delta = a.amount
      BY <2>1 DEF AdjustJob, Change
    <2>4. QED
      BY <2>2, <2>3 DEF AdjustLike
  <1>5. CASE j \in SweepJobs
    <2>1. PICK t \in 0 .. LastTick : j = Change("apply", SweepId(t \div TicksPerDay))
      BY <1>5 DEF SweepJobs
    <2>2. j.id \notin Events
      BY <2>1, EventAssumption DEF Change
    <2>3. j.kind = "apply" /\ j.sub = 0 /\ j.grant = 0 /\ j.exp = 0
      BY <2>1 DEF Change
    <2>4. QED
      BY <2>2, <2>3 DEF ApplyLike
  <1>6. QED
    BY <1>1, <1>2, <1>3, <1>4, <1>5 DEF Jobs

-----------------------------------------------------------------------------
(* Where an actor is tells what kind of change it works on; an actor about *)
(* to commit holds the lock and has read what is there.                    *)
At(x) ==
  /\ pc[x] \in {"lock", "commit"} => job[x].kind \in {"order", "adjust"}
  /\ pc[x] \in {"read", "apply"} => job[x].kind = "apply"
  /\ pc[x] = "check" => job[x].kind \in {"order", "apply"}
  /\ pc[x] = "commit" => lock = x /\ before[x] = bal

TypeInv ==
  /\ bal \in [PoolNames -> Int]
  /\ exp \in Int /\ now \in 0 .. LastTick
  /\ pc \in [Actors -> {"idle", "check", "lock", "commit", "read", "apply"}]
  /\ job \in [Actors -> Jobs]
  /\ before \in [Actors -> [PoolNames -> Int]]
  /\ adjusted \in Int /\ billed \in Int
  /\ IsFiniteSet(txs)

FlowInv == \A x \in Actors : At(x)

LEMMA NewJobs ==
  /\ NoChange \in Jobs /\ NoChange.kind = "none"
  /\ NoDeduction \in [PoolNames -> Int]
  /\ \A e \in Events : /\ Payload[e].kind = "order" /\ Valid(Payload[e])
                            => /\ buildTransactionRequestFromOrderPaid(e) \in Jobs
                               /\ buildTransactionRequestFromOrderPaid(e).kind = "order"
                       /\ Payload[e].kind # "order"
                            => /\ subscriptionChange(e) \in Jobs
                               /\ subscriptionChange(e).kind = "apply"
  /\ \A a \in Adjustments : AdjustJob(a) \in Jobs /\ AdjustJob(a).kind = "adjust"
  /\ \A t \in 0 .. LastTick :
       /\ Change("apply", SweepId(t \div TicksPerDay)) \in Jobs
       /\ Change("apply", SweepId(t \div TicksPerDay)).kind = "apply"
  <1>1. NoChange \in Jobs /\ NoChange.kind = "none"
    BY DEF Jobs, NoChange, Change
  <1>2. NoDeduction \in [PoolNames -> Int]
    BY DEF NoDeduction
  <1>3. \A e \in Events : /\ Payload[e].kind = "order" /\ Valid(Payload[e])
                               => buildTransactionRequestFromOrderPaid(e) \in Jobs
                          /\ Payload[e].kind # "order" => subscriptionChange(e) \in Jobs
    BY DEF Jobs, OrderJobs, SubscriptionJobs
  <1>4. \A e \in Events : /\ buildTransactionRequestFromOrderPaid(e).kind = "order"
                          /\ subscriptionChange(e).kind = "apply"
    BY DEF buildTransactionRequestFromOrderPaid, subscriptionChange, Change
  <1>5. \A a \in Adjustments : AdjustJob(a) \in Jobs /\ AdjustJob(a).kind = "adjust"
    BY DEF Jobs, AdjustJobs, AdjustJob, Change
  <1>6. ASSUME NEW t \in 0 .. LastTick
        PROVE  /\ Change("apply", SweepId(t \div TicksPerDay)) \in Jobs
               /\ Change("apply", SweepId(t \div TicksPerDay)).kind = "apply"
    BY DEF Jobs, SweepJobs, Change
  <1>7. QED
    BY <1>1, <1>2, <1>3, <1>4, <1>5, <1>6

LEMMA TypeInit == Init => TypeInv /\ FlowInv
  <1> SUFFICES ASSUME Init PROVE TypeInv /\ FlowInv
    OBVIOUS
  <1>1. TypeInv
    BY NewJobs, FS_EmptySet, LedgerAssumption DEF Init, TypeInv
  <1>2. \A x \in Actors : pc[x] = "idle"
    BY DEF Init
  <1>3. QED
    BY <1>1, <1>2 DEF FlowInv, At

(* What the commits write. *)
LEMMA Recorded ==
  ASSUME NEW id, IsFiniteSet(txs), Record(id)
  PROVE  IsFiniteSet(txs') /\ txs' \subseteq txs \cup {id}
  BY FS_AddElement DEF Record

LEMMA TypeNext == TypeInv /\ FlowInv /\ [Next]_vars => TypeInv'
  <1> SUFFICES ASSUME TypeInv, FlowInv, [Next]_vars PROVE TypeInv'
    OBVIOUS
  <1>0. Procs \subseteq Actors /\ Sweepers \subseteq Actors
    BY DEF Actors
  <1>1. \A x \in Actors : job[x] \in Jobs /\ At(x) /\ before[x] \in [PoolNames -> Int]
    BY DEF TypeInv, FlowInv
  <1>2. \A x \in Actors : Finish(x) =>
          /\ pc' \in [Actors -> {"idle", "check", "lock", "commit", "read", "apply"}]
          /\ job' \in [Actors -> Jobs] /\ before' \in [Actors -> [PoolNames -> Int]]
    BY NewJobs DEF Finish, Goto, TypeInv
  <1>3. \A x \in Actors :
          pc[x] \in {"lock", "commit"} => /\ job[x].pool \in {"cash", "grant"}
                                          /\ job[x].delta \in Int
    BY <1>1, JobKinds DEF At, OrderLike, AdjustLike, ApplyLike
  <1>4. \A x \in Actors :
          pc[x] \in {"read", "apply"} => /\ job[x].sub \in Int /\ job[x].grant \in Int
                                         /\ job[x].exp \in Int
    BY <1>1, JobKinds DEF At, OrderLike, AdjustLike, ApplyLike
  <1> USE <1>0 DEF rowVars, workVars, histVars, envVars
  <1>5. ASSUME NEW p \in Procs, NEW e \in Events, HandleEvent(p, e) PROVE TypeInv'
    <2>1. job' \in [Actors -> Jobs]
      BY <1>5, NewJobs DEF HandleEvent, TypeInv
    <2>2. QED
      BY <1>5, <2>1 DEF HandleEvent, TypeInv, Goto
  <1>6. ASSUME NEW p \in Procs, NEW a \in Adjustments, AdjustUserBalance(p, a)
        PROVE  TypeInv'
    <2>1. job' \in [Actors -> Jobs]
      BY <1>6, NewJobs DEF AdjustUserBalance, AdjustJob, TypeInv
    <2>2. QED
      BY <1>6, <2>1 DEF AdjustUserBalance, TypeInv, Goto
  <1>7. ASSUME NEW x \in Sweepers, sweepExpiredSubscriptions(x) PROVE TypeInv'
    <2>1. Change("apply", SweepId(Day)) \in Jobs
      BY NewJobs DEF Day, TypeInv
    <2>2. job' \in [Actors -> Jobs]
      BY <1>7, <2>1 DEF sweepExpiredSubscriptions, TypeInv
    <2>3. QED
      BY <1>7, <2>2 DEF sweepExpiredSubscriptions, TypeInv, Goto
  <1>8. ASSUME NEW x \in Actors, GetTransactionByEventID(x) PROVE TypeInv'
    <2>1. /\ pc' \in [Actors -> {"idle", "check", "lock", "commit", "read", "apply"}]
          /\ job' \in [Actors -> Jobs] /\ before' \in [Actors -> [PoolNames -> Int]]
      BY <1>2, <1>8 DEF GetTransactionByEventID, TypeInv, Goto
    <2>2. QED
      BY <1>8, <2>1 DEF GetTransactionByEventID, TypeInv
  <1>9. ASSUME NEW x \in Actors, GetUserByIDForUpdate(x) PROVE TypeInv'
    <2>1. /\ pc' \in [Actors -> {"idle", "check", "lock", "commit", "read", "apply"}]
          /\ job' \in [Actors -> Jobs] /\ before' \in [Actors -> [PoolNames -> Int]]
      BY <1>2, <1>9 DEF GetUserByIDForUpdate, LockRow, TypeInv, Goto
    <2>2. QED
      BY <1>9, <2>1 DEF GetUserByIDForUpdate, TypeInv
  <1>10. ASSUME NEW x \in Actors, CommitTransaction(x) PROVE TypeInv'
    <2>1. job[x].pool \in PoolNames /\ job[x].delta \in Int
      BY <1>3, <1>10 DEF CommitTransaction, PoolNames
    <2>2. ASSUME MoveBalance(x)
          PROVE  /\ bal' \in [PoolNames -> Int] /\ adjusted' \in Int
                 /\ IsFiniteSet(txs')
      <3>1. bal' \in [PoolNames -> Int]
        BY <2>1, <2>2 DEF MoveBalance, TypeInv
      <3>2. adjusted' \in Int
        BY <2>1, <2>2 DEF MoveBalance, TypeInv
      <3>3. QED
        BY <2>2, <3>1, <3>2, Recorded DEF MoveBalance, TypeInv
    <2>3. bal' \in [PoolNames -> Int] /\ adjusted' \in Int /\ IsFiniteSet(txs')
      BY <1>10, <2>2 DEF CommitTransaction, TypeInv
    <2>4. QED
      BY <1>2, <1>10, <2>3 DEF CommitTransaction, TypeInv
  <1>11. ASSUME NEW x \in Actors, GetUserBalances(x) PROVE TypeInv'
    <2>1. /\ pc' \in [Actors -> {"idle", "check", "lock", "commit", "read", "apply"}]
          /\ job' \in [Actors -> Jobs] /\ before' \in [Actors -> [PoolNames -> Int]]
      BY <1>2, <1>11 DEF GetUserBalances, TypeInv, Goto
    <2>2. QED
      BY <1>11, <2>1 DEF GetUserBalances, TypeInv
  <1>12. ASSUME NEW x \in Actors, ApplySubscription(x) PROVE TypeInv'
    <2>1. job[x].sub \in Int /\ job[x].grant \in Int /\ job[x].exp \in Int
      BY <1>4, <1>12 DEF ApplySubscription
    <2>2. ASSUME ApplyIt(x)
          PROVE  bal' \in [PoolNames -> Int] /\ exp' \in Int /\ IsFiniteSet(txs')
      <3>1. bal["cash"] + bal["sub"] \in Int
        BY DEF TypeInv, PoolNames
      <3>2. bal' \in [PoolNames -> Int] /\ exp' \in Int
        BY <2>1, <2>2, <3>1 DEF ApplyIt, ApplySubscriptionDB
      <3>3. QED
        BY <2>2, <3>2, Recorded DEF ApplyIt, TypeInv
    <2>3. bal' \in [PoolNames -> Int] /\ exp' \in Int /\ IsFiniteSet(txs')
      BY <1>12, <2>2 DEF ApplySubscription, TypeInv
    <2>4. QED
      BY <1>2, <1>12, <2>3 DEF ApplySubscription, TypeInv
  <1>13. ASSUME NEW p \in PoolNames, Bill(p) PROVE TypeInv'
    <2>1. bal' \in [PoolNames -> Int] /\ billed' \in Int
      BY <1>13 DEF Bill, TypeInv
    <2>2. QED
      BY <1>13, <2>1 DEF Bill, TypeInv
  <1>14. ASSUME Tick PROVE TypeInv'
    <2>1. now' \in 0 .. LastTick
      BY <1>14, LedgerAssumption DEF Tick, TypeInv
    <2>2. QED
      BY <1>14, <2>1 DEF Tick, TypeInv
  <1>15. ASSUME UNCHANGED vars PROVE TypeInv'
    BY <1>15 DEF vars, TypeInv
  <1>16. QED
    BY <1>5, <1>6, <1>7, <1>8, <1>9, <1>10, <1>11, <1>12, <1>13, <1>14, <1>15
       DEF Next, ActorStep

LEMMA FlowNext == TypeInv /\ FlowInv /\ [Next]_vars => FlowInv'
  <1> SUFFICES ASSUME TypeInv, FlowInv, [Next]_vars PROVE FlowInv'
    OBVIOUS
  <1>0. Procs \subseteq Actors /\ Sweepers \subseteq Actors /\ NoOne \notin Actors
    BY LedgerAssumption DEF Actors
  <1>1. /\ pc \in [Actors -> {"idle", "check", "lock", "commit", "read", "apply"}]
        /\ job \in [Actors -> Jobs] /\ before \in [Actors -> [PoolNames -> Int]]
        /\ \A x \in Actors : At(x)
    BY DEF TypeInv, FlowInv
  <1> USE <1>0 DEF rowVars, workVars, histVars, envVars
  (* Whoever does not move keeps its place, if the row is not locked by it. *)
  <1>2. ASSUME NEW x \in Actors, At(x)',
               \A y \in Actors : y # x =>
                 /\ pc'[y] = pc[y] /\ job'[y] = job[y] /\ before'[y] = before[y]
                 /\ pc[y] = "commit" => lock' = lock /\ bal' = bal
        PROVE  FlowInv'
    BY <1>1, <1>2 DEF FlowInv, At
  <1>3. \A x \in Actors : Finish(x) =>
          /\ At(x)'
          /\ \A y \in Actors : y # x =>
               pc'[y] = pc[y] /\ job'[y] = job[y] /\ before'[y] = before[y]
    BY <1>1 DEF Finish, Goto, At
  <1>4. \A x, y \in Actors : pc[y] = "commit" /\ lock \in {NoOne, x} => y = x
    BY <1>1 DEF At
  <1>5. ASSUME NEW p \in Procs, NEW e \in Events, HandleEvent(p, e) PROVE FlowInv'
    <2>1. job'[p].kind \in {"order", "apply"} /\ pc'[p] = "check"
      BY <1>1, <1>5, NewJobs DEF HandleEvent, Goto
    <2>2. At(p)'
      BY <2>1 DEF At
    <2>3. QED
      BY <1>1, <1>2, <1>5, <2>2 DEF HandleEvent, Goto
  <1>6. ASSUME NEW p \in Procs, NEW a \in Adjustments, AdjustUserBalance(p, a)
        PROVE  FlowInv'
    <2>1. job'[p].kind = "adjust" /\ pc'[p] = "lock"
      BY <1>1, <1>6, NewJobs DEF AdjustUserBalance, AdjustJob, Goto
    <2>2. At(p)'
      BY <2>1 DEF At
    <2>3. QED
      BY <1>1, <1>2, <1>6, <2>2 DEF AdjustUserBalance, Goto
  <1>7. ASSUME NEW x \in Sweepers, sweepExpiredSubscriptions(x) PROVE FlowInv'
    <2>1. job'[x].kind = "apply" /\ pc'[x] = "check"
      BY <1>1, <1>7 DEF sweepExpiredSubscriptions, Goto, Change
    <2>2. At(x)'
      BY <2>1 DEF At
    <2>3. QED
      BY <1>1, <1>2, <1>7, <2>2 DEF sweepExpiredSubscriptions, Goto
  <1>8. ASSUME NEW x \in Actors, GetTransactionByEventID(x) PROVE FlowInv'
    <2>1. CASE Finish(x)
      BY <1>2, <1>3, <1>8, <2>1 DEF GetTransactionByEventID
    <2>2. CASE /\ Goto(x, IF job[x].kind = "apply" THEN "read" ELSE "lock")
               /\ UNCHANGED <<job, before>>
      <3>1. At(x)'
        BY <1>1, <1>8, <2>2 DEF GetTransactionByEventID, Goto, At
      <3>2. QED
        BY <1>1, <1>2, <1>8, <2>2, <3>1 DEF GetTransactionByEventID, Goto
    <2>3. QED
      BY <1>8, <2>1, <2>2 DEF GetTransactionByEventID
  <1>9. ASSUME NEW x \in Actors, GetUserByIDForUpdate(x) PROVE FlowInv'
    <2>1. CASE Finish(x) /\ UNCHANGED lock
      BY <1>2, <1>3, <1>9, <2>1 DEF GetUserByIDForUpdate
    <2>2. CASE LockRow(x) /\ Goto(x, "commit") /\ UNCHANGED job
      <3>1. At(x)'
        BY <1>1, <1>9, <2>2 DEF GetUserByIDForUpdate, LockRow, Goto, At
      <3>2. \A y \in Actors : y # x =>
              /\ pc'[y] = pc[y] /\ job'[y] = job[y] /\ before'[y] = before[y]
              /\ pc[y] # "commit"
        BY <1>1, <1>4, <2>2 DEF LockRow, Goto
      <3>3. QED
        BY <1>2, <3>1, <3>2
    <2>3. QED
      BY <1>9, <2>1, <2>2 DEF GetUserByIDForUpdate
  <1>10. ASSUME NEW x \in Actors, CommitTransaction(x) PROVE FlowInv'
    <2>1. lock = x /\ Finish(x)
      BY <1>1, <1>10 DEF CommitTransaction, At
    <2>2. QED
      BY <1>2, <1>3, <1>4, <2>1
  <1>11. ASSUME NEW x \in Actors, GetUserBalances(x) PROVE FlowInv'
    <2>1. CASE Finish(x)
      BY <1>2, <1>3, <1>11, <2>1 DEF GetUserBalances
    <2>2. CASE /\ before' = [before EXCEPT ![x] = bal] /\ Goto(x, "apply")
               /\ UNCHANGED job
      <3>1. At(x)'
        BY <1>1, <1>11, <2>2 DEF GetUserBalances, Goto, At
      <3>2. QED
        BY <1>1, <1>2, <1>11, <2>2, <3>1 DEF GetUserBalances, Goto
    <2>3. QED
      BY <1>11, <2>1, <2>2 DEF GetUserBalances
  <1>12. ASSUME NEW x \in Actors, ApplySubscription(x) PROVE FlowInv'
    BY <1>2, <1>3, <1>4, <1>12 DEF ApplySubscription
  <1>13. ASSUME NEW p \in PoolNames, Bill(p) PROVE FlowInv'
    <2>1. \A y \in Actors : pc[y] # "commit"
      BY <1>1, <1>13 DEF Bill, At
    <2>2. QED
      BY <1>1, <1>13, <2>1 DEF Bill, FlowInv, At
  <1>14. ASSUME Tick \/ UNCHANGED vars PROVE FlowInv'
    BY <1>1, <1>14 DEF Tick, vars, FlowInv, At
  <1>15. QED
    BY <1>5, <1>6, <1>7, <1>8, <1>9, <1>10, <1>11, <1>12, <1>13, <1>14
       DEF Next, ActorStep

(* Type correctness and the control flow of the handlers: an actor about   *)
(* to commit holds the lock of the row and read what is there now.         *)
THEOREM TypeCorrect == Spec => [](TypeInv /\ FlowInv)
  BY TypeInit, TypeNext, FlowNext, PTL DEF Spec

-----------------------------------------------------------------------------
(* The log rows of webhook transactions and adjustments tell the balances  *)
(* as they were: FlowInv says the committing actor read the row under the  *)
(* lock it still holds.                                                    *)
THEOREM AuditAlwaysExact == Spec => []AuditExact
  <1>1. Init => AuditExact
    BY DEF Init, AuditExact
  <1>2. TypeInv /\ FlowInv /\ AuditExact /\ [Next]_vars => AuditExact'
    <2> SUFFICES ASSUME TypeInv, FlowInv, AuditExact, [Next]_vars PROVE AuditExact'
      OBVIOUS
    <2> USE DEF rowVars, workVars, histVars, envVars
    <2>1. ASSUME NEW x \in Actors, CommitTransaction(x) PROVE UNCHANGED stale
      <3>1. before[x] = bal
        BY <2>1 DEF CommitTransaction, FlowInv, At
      <3>2. QED
        BY <2>1, <3>1 DEF CommitTransaction, MoveBalance, LogRows
    <2>2. ASSUME NEW x \in Actors, ApplySubscription(x) PROVE AuditExact'
      <3>1. job[x].kind = "apply"
        BY <2>2 DEF ApplySubscription, FlowInv, At
      <3>2. stale' \in {stale, stale \cup {"apply"}}
        BY <2>2, <3>1 DEF ApplySubscription, ApplyIt, LogRows
      <3>3. QED
        BY <3>2 DEF AuditExact
    <2>3. ASSUME NEW x \in Actors,
                 \/ GetTransactionByEventID(x)
                 \/ GetUserByIDForUpdate(x)
                 \/ GetUserBalances(x)
          PROVE  UNCHANGED stale
      BY <2>3 DEF GetTransactionByEventID, GetUserByIDForUpdate, GetUserBalances
    <2>4. ASSUME NEW p \in Procs, NEW e \in Events, HandleEvent(p, e)
          PROVE  UNCHANGED stale
      BY <2>4 DEF HandleEvent
    <2>5. ASSUME NEW p \in Procs, NEW a \in Adjustments, AdjustUserBalance(p, a)
          PROVE  UNCHANGED stale
      BY <2>5 DEF AdjustUserBalance
    <2>6. ASSUME NEW s \in Sweepers, sweepExpiredSubscriptions(s)
          PROVE  UNCHANGED stale
      BY <2>6 DEF sweepExpiredSubscriptions
    <2>7. ASSUME \/ \E p \in PoolNames : Bill(p)
                 \/ Tick
                 \/ UNCHANGED vars
          PROVE  UNCHANGED stale
      BY <2>7 DEF Bill, Tick, vars
    <2>8. QED
      BY <2>1, <2>2, <2>3, <2>4, <2>5, <2>6, <2>7 DEF Next, ActorStep, AuditExact
  <1>3. QED
    BY <1>1, <1>2, TypeCorrect, PTL DEF Spec

-----------------------------------------------------------------------------
(* A sweep under way works on a subscription that is overdue, or that was  *)
(* put there since the sweep listed the user.                              *)
SweepInv ==
  \A s \in Sweepers : pc[s] # "idle" => Overdue \/ s \in renewed

LEMMA SweepNext == TypeInv /\ SweepInv /\ [Next]_vars => SweepInv'
  <1> SUFFICES ASSUME TypeInv, SweepInv, [Next]_vars PROVE SweepInv'
    OBVIOUS
  <1>0. /\ Procs \subseteq Actors /\ Sweepers \subseteq Actors
        /\ Procs \cap Sweepers = {}
    BY LedgerAssumption DEF Actors
  <1>1. /\ pc \in [Actors -> {"idle", "check", "lock", "commit", "read", "apply"}]
        /\ exp \in Int /\ now \in Int
    BY DEF TypeInv
  <1> USE <1>0 DEF rowVars, workVars, histVars, envVars
  (* The subscription and the clock stand still and nobody sets out. *)
  <1>2. ASSUME UNCHANGED <<exp, now, renewed>>,
               \A s \in Sweepers : pc[s] = "idle" => pc'[s] = "idle"
        PROVE  SweepInv'
    BY <1>2 DEF SweepInv, Overdue
  <1>3. ASSUME NEW x \in Actors, NEW where, Goto(x, where), pc[x] # "idle"
        PROVE  \A s \in Sweepers : pc[s] = "idle" => pc'[s] = "idle"
    BY <1>1, <1>3 DEF Goto
  <1>4. ASSUME NEW p \in Procs, NEW e \in Events, HandleEvent(p, e) PROVE SweepInv'
    <2>1. \A s \in Sweepers : pc'[s] = pc[s]
      BY <1>1, <1>4 DEF HandleEvent, Goto
    <2>2. QED
      BY <1>2, <1>4, <2>1 DEF HandleEvent
  <1>5. ASSUME NEW p \in Procs, NEW a \in Adjustments, AdjustUserBalance(p, a)
        PROVE  SweepInv'
    <2>1. \A s \in Sweepers : pc'[s] = pc[s]
      BY <1>1, <1>5 DEF AdjustUserBalance, Goto
    <2>2. QED
      BY <1>2, <1>5, <2>1 DEF AdjustUserBalance
  <1>6. ASSUME NEW x \in Sweepers, sweepExpiredSubscriptions(x) PROVE SweepInv'
    <2>1. Overdue /\ Overdue' /\ renewed' = renewed \ {x}
      BY <1>6 DEF sweepExpiredSubscriptions, Expired, Overdue
    <2>2. QED
      BY <2>1 DEF SweepInv
  <1>7. ASSUME NEW x \in Actors,
               \/ GetTransactionByEventID(x)
               \/ GetUserByIDForUpdate(x)
               \/ CommitTransaction(x)
               \/ GetUserBalances(x)
        PROVE  SweepInv'
    <2>1. pc[x] # "idle" /\ \E where : Goto(x, where)
      BY <1>7 DEF GetTransactionByEventID, GetUserByIDForUpdate, CommitTransaction,
                  GetUserBalances, Finish
    <2>2. UNCHANGED <<exp, now, renewed>>
      BY <1>7 DEF GetTransactionByEventID, GetUserByIDForUpdate, CommitTransaction,
                  GetUserBalances
    <2>3. QED
      BY <1>2, <1>3, <2>1, <2>2
  <1>8. ASSUME NEW x \in Actors, ApplySubscription(x) PROVE SweepInv'
    <2>1. /\ pc[x] = "apply" /\ Goto(x, "idle") /\ UNCHANGED now
      BY <1>8 DEF ApplySubscription, Finish
    <2>2. CASE ApplyIt(x)
      <3>1. \A s \in Sweepers : pc'[s] # "idle" => s # x /\ pc[s] # "idle"
        BY <1>1, <2>1 DEF Goto
      <3>2. QED
        BY <2>2, <3>1 DEF ApplyIt, Overtake, SweepInv
    <2>3. CASE UNCHANGED <<rowVars, stale, renewed>>
      BY <1>2, <1>3, <2>1, <2>3
    <2>4. QED
      BY <1>8, <2>2, <2>3 DEF ApplySubscription
  <1>9. ASSUME NEW p \in PoolNames, Bill(p) PROVE SweepInv'
    BY <1>2, <1>9 DEF Bill
  <1>10. ASSUME Tick PROVE SweepInv'
    BY <1>1, <1>10 DEF Tick, SweepInv, Overdue
  <1>11. ASSUME UNCHANGED vars PROVE SweepInv'
    BY <1>2, <1>11 DEF vars
  <1>12. QED
    BY <1>4, <1>5, <1>6, <1>7, <1>8, <1>9, <1>10, <1>11 DEF Next, ActorStep

(* No sweep ends a subscription that still runs, unless it was put there   *)
(* while the sweep was under way: from when it lists the user until its    *)
(* COMMIT, the sweep's reason can only be taken away by a change that it   *)
(* would have to notice.                                                   *)
THEOREM SweepAlwaysSpares == Spec => SweepSparesValid
  <1>1. Init => SweepInv
    BY DEF Init, SweepInv, Actors
  <1>2. SweepInv =>
          \A s \in Sweepers :
            job[s].id \in txs' \ txs /\ pc[s] = "apply" /\ pc'[s] = "idle"
              => Overdue \/ s \in renewed
    BY DEF SweepInv
  <1>3. QED
    BY <1>1, <1>2, SweepNext, TypeCorrect, PTL DEF Spec, SweepSparesValid

-----------------------------------------------------------------------------
(* The paid money.                                                         *)

LEMMA PaidInt == \A e \in Events : Paid(e) \in Int
  <1> SUFFICES ASSUME NEW e \in Events PROVE Paid(e) \in Int
    OBVIOUS
  <1>1. CASE Payload[e].kind # "order"
    <2>1. subscriptionChange(e).sub = Payload[e].sub
      BY DEF subscriptionChange, Change
    <2>2. QED
      BY <1>1, <2>1, PayloadAssumption DEF Paid
  <1>2. CASE Payload[e].kind = "order"
    <2>1. buildTransactionRequestFromOrderPaid(e).delta
            = IF Direction(Payload[e]) = "debit" THEN -Amount(Payload[e])
                                                 ELSE Amount(Payload[e])
      BY DEF buildTransactionRequestFromOrderPaid, Change
    <2>2. QED
      BY <1>2, <2>1, AmountInt DEF Paid
  <1>3. QED
    BY <1>1, <1>2

(* The paid money of the events that counted. *)
PaidIn(T) == SumOver([e \in Events |-> Paid(e)], Events \cap T)

LEMMA PaidInBasics ==
  ASSUME NEW T, IsFiniteSet(T)
  PROVE  /\ PaidIn(T) \in Int
         /\ PaidIn({}) = 0
         /\ \A id : id \notin Events => PaidIn(T \cup {id}) = PaidIn(T)
         /\ \A e \in Events : e \notin T => PaidIn(T \cup {e}) = PaidIn(T) + Paid(e)
  <1> DEFINE w == [e \in Events |-> Paid(e)]
             S == Events \cap T
  <1>1. IsFiniteSet(S) /\ \A e \in S : w[e] \in Int
    BY FS_Subset, PaidInt
  <1>2. PaidIn(T) \in Int
    BY <1>1, SumRemove DEF PaidIn
  <1>3. PaidIn({}) = 0
    <2>1. Events \cap {} = {}
      OBVIOUS
    <2>2. QED
      BY <2>1, SumEmpty DEF PaidIn
  <1>4. ASSUME NEW id, id \notin Events PROVE PaidIn(T \cup {id}) = PaidIn(T)
    <2>1. Events \cap (T \cup {id}) = S
      BY <1>4
    <2>2. QED
      BY <2>1 DEF PaidIn
  <1>5. ASSUME NEW e \in Events, e \notin T
        PROVE  PaidIn(T \cup {e}) = PaidIn(T) + Paid(e)
    <2>1. Events \cap (T \cup {e}) = S \cup {e} /\ e \notin S /\ w[e] = Paid(e)
      BY <1>5
    <2>2. SumOver(w, S \cup {e}) = SumOver(w, S) + w[e]
      BY <1>1, <2>1, PaidInt, SumAdd
    <2>3. QED
      BY <2>1, <2>2 DEF PaidIn
  <1>6. QED
    BY <1>2, <1>3, <1>4, <1>5

(* A transaction adds what its event pays, an adjustment what it says. *)
LEMMA MoveKeepsPaid ==
  ASSUME TypeInv, FlowInv, PaidMoneyExact, NEW x \in Actors,
         pc[x] = "commit", MoveBalance(x), billed' = billed
  PROVE  PaidMoneyExact'
  <1> DEFINE j == job[x]
  <1>1. /\ bal \in [PoolNames -> Int] /\ IsFiniteSet(txs)
        /\ adjusted \in Int /\ billed \in Int
        /\ j \in Jobs /\ j.kind \in {"order", "adjust"}
    BY DEF TypeInv, FlowInv, At
  <1>2. OrderLike(j) \/ AdjustLike(j)
    BY <1>1, JobKinds DEF OrderLike, AdjustLike, ApplyLike
  <1>3. /\ j.pool \in {"cash", "grant"} /\ j.delta \in Int /\ j.id \notin txs
        /\ bal' = [bal EXCEPT ![j.pool] = @ + j.delta] /\ Record(j.id)
        /\ adjusted' = IF j.kind = "adjust" /\ j.pool = "cash"
                         THEN adjusted + j.delta ELSE adjusted
    BY <1>2 DEF OrderLike, AdjustLike, MoveBalance, Unseen
  <1>4. bal["sub"] + bal["cash"] = PaidIn(txs) + adjusted - billed
    BY DEF PaidMoneyExact, PaidIn
  <1>5. PaidIn(txs) \in Int
    BY <1>1, PaidInBasics
  <1>6. /\ bal'["sub"] = bal["sub"]
        /\ bal'["cash"] = IF j.pool = "cash" THEN bal["cash"] + j.delta ELSE bal["cash"]
        /\ bal["sub"] \in Int /\ bal["cash"] \in Int
    BY <1>1, <1>3 DEF PoolNames
  <1>7. CASE OrderLike(j)
    <2>1. j.kind = "order" /\ j.id \in Events /\ j.id # NoEvent
      BY <1>7, EventAssumption DEF OrderLike
    <2>2. txs' = txs \cup {j.id} /\ adjusted' = adjusted
      BY <1>3, <2>1 DEF Record
    <2>3. PaidIn(txs') = PaidIn(txs) + Paid(j.id)
      BY <1>1, <1>3, <2>1, <2>2, PaidInBasics
    <2>4. Paid(j.id) = IF j.pool = "cash" THEN j.delta ELSE 0
      BY <1>7 DEF OrderLike
    <2> HIDE DEF j
    <2>5. bal'["sub"] + bal'["cash"] = PaidIn(txs') + adjusted' - billed'
      BY <1>1, <1>3, <1>4, <1>5, <1>6, <2>2, <2>3, <2>4
    <2>6. QED
      BY <2>5 DEF PaidMoneyExact, PaidIn
  <1>8. CASE AdjustLike(j)
    <2>1. j.kind = "adjust" /\ j.id = NoEvent
      BY <1>8 DEF AdjustLike
    <2>2. txs' = txs
      BY <1>3, <2>1 DEF Record
    <2> HIDE DEF j
    <2>3. bal'["sub"] + bal'["cash"] = PaidIn(txs) + adjusted' - billed'
      BY <1>1, <1>3, <1>4, <1>5, <1>6, <2>1
    <2>4. QED
      BY <2>2, <2>3 DEF PaidMoneyExact, PaidIn
  <1>9. QED
    BY <1>2, <1>7, <1>8

(* A subscription change moves what is left of sub to cash and adds what   *)
(* the new subscription paid.                                              *)
LEMMA ApplyKeepsPaid ==
  ASSUME TypeInv, FlowInv, PaidMoneyExact, NEW x \in Actors,
         pc[x] = "apply", ApplyIt(x), UNCHANGED <<adjusted, billed>>
  PROVE  PaidMoneyExact'
  <1> DEFINE j == job[x]
  <1>1. /\ bal \in [PoolNames -> Int] /\ IsFiniteSet(txs)
        /\ adjusted \in Int /\ billed \in Int
        /\ j \in Jobs /\ j.kind = "apply"
    BY DEF TypeInv, FlowInv, At
  <1>2. ApplyLike(j)
    BY <1>1, JobKinds DEF OrderLike, AdjustLike, ApplyLike
  <1>3. /\ bal'["sub"] = j.sub /\ bal'["cash"] = bal["cash"] + bal["sub"]
        /\ bal["sub"] \in Int /\ bal["cash"] \in Int
        /\ j.sub \in Int /\ j.id \notin txs /\ Record(j.id)
    BY <1>1, <1>2 DEF ApplyLike, ApplyIt, ApplySubscriptionDB, Unseen, PoolNames
  <1>4. bal["sub"] + bal["cash"] = PaidIn(txs) + adjusted - billed
    BY DEF PaidMoneyExact, PaidIn
  <1>5. PaidIn(txs) \in Int
    BY <1>1, PaidInBasics
  <1>6. PaidIn(txs') = PaidIn(txs) + j.sub
    <2>1. CASE j.id \in Events
      <3>1. txs' = txs \cup {j.id} /\ Paid(j.id) = j.sub
        BY <1>2, <1>3, <2>1, EventAssumption DEF Record, ApplyLike
      <3>2. QED
        BY <1>1, <1>3, <2>1, <3>1, PaidInBasics
    <2>2. CASE j.id \notin Events
      <3>1. j.sub = 0 /\ txs' \in {txs, txs \cup {j.id}}
        BY <1>2, <1>3, <2>2 DEF Record, ApplyLike
      <3>2. PaidIn(txs') = PaidIn(txs)
        BY <1>1, <2>2, <3>1, PaidInBasics
      <3>3. QED
        BY <1>5, <3>1, <3>2
    <2>3. QED
      BY <2>1, <2>2
  <1> HIDE DEF j
  <1>7. bal'["sub"] + bal'["cash"] = PaidIn(txs') + adjusted - billed
    BY <1>1, <1>3, <1>4, <1>5, <1>6
  <1>8. QED
    BY <1>7 DEF PaidMoneyExact, PaidIn

LEMMA PaidNext ==
  TypeInv /\ FlowInv /\ PaidMoneyExact /\ [Next]_vars => PaidMoneyExact'
  <1> SUFFICES ASSUME TypeInv, FlowInv, PaidMoneyExact, [Next]_vars
               PROVE  PaidMoneyExact'
    OBVIOUS
  <1> USE DEF rowVars, workVars, histVars, envVars
  <1>1. ASSUME UNCHANGED <<bal, txs, adjusted, billed>> PROVE PaidMoneyExact'
    BY <1>1 DEF PaidMoneyExact
  <1>2. ASSUME NEW x \in Actors, CommitTransaction(x) PROVE PaidMoneyExact'
    <2>1. pc[x] = "commit" /\ billed' = billed
      BY <1>2 DEF CommitTransaction
    <2>2. MoveBalance(x) \/ UNCHANGED <<bal, txs, stale, adjusted>>
      BY <1>2 DEF CommitTransaction
    <2>3. QED
      BY <1>1, <2>1, <2>2, MoveKeepsPaid
  <1>3. ASSUME NEW x \in Actors, ApplySubscription(x) PROVE PaidMoneyExact'
    <2>1. pc[x] = "apply" /\ UNCHANGED <<adjusted, billed>>
      BY <1>3 DEF ApplySubscription
    <2>2. ApplyIt(x) \/ UNCHANGED <<rowVars, stale, renewed>>
      BY <1>3 DEF ApplySubscription
    <2>3. QED
      BY <1>1, <2>1, <2>2, ApplyKeepsPaid
  <1>4. ASSUME NEW p \in PoolNames, Bill(p) PROVE PaidMoneyExact'
    <2>1. /\ bal \in [PoolNames -> Int] /\ adjusted \in Int /\ billed \in Int
          /\ PaidIn(txs) \in Int
      BY PaidInBasics DEF TypeInv
    <2>2. bal["sub"] + bal["cash"] = PaidIn(txs) + adjusted - billed
      BY DEF PaidMoneyExact, PaidIn
    <2>3. /\ bal' = [bal EXCEPT ![p] = @ - 1] /\ UNCHANGED <<txs, adjusted>>
          /\ billed' = IF p = "grant" THEN billed ELSE billed + 1
      BY <1>4 DEF Bill
    <2>4. bal'["sub"] + bal'["cash"] = PaidIn(txs) + adjusted' - billed'
      BY <2>1, <2>2, <2>3 DEF PoolNames
    <2>5. QED
      BY <2>3, <2>4 DEF PaidMoneyExact, PaidIn
  <1>5. ASSUME NEW x \in Actors,
               \/ GetTransactionByEventID(x)
               \/ GetUserByIDForUpdate(x)
               \/ GetUserBalances(x)
        PROVE  PaidMoneyExact'
    BY <1>1, <1>5 DEF GetTransactionByEventID, GetUserByIDForUpdate, GetUserBalances
  <1>6. ASSUME NEW p \in Procs, NEW e \in Events, HandleEvent(p, e)
        PROVE  PaidMoneyExact'
    BY <1>1, <1>6 DEF HandleEvent
  <1>7. ASSUME NEW p \in Procs, NEW a \in Adjustments, AdjustUserBalance(p, a)
        PROVE  PaidMoneyExact'
    BY <1>1, <1>7 DEF AdjustUserBalance
  <1>8. ASSUME NEW s \in Sweepers, sweepExpiredSubscriptions(s)
        PROVE  PaidMoneyExact'
    BY <1>1, <1>8 DEF sweepExpiredSubscriptions
  <1>9. ASSUME Tick \/ UNCHANGED vars PROVE PaidMoneyExact'
    BY <1>1, <1>9 DEF Tick, vars
  <1>10. QED
    BY <1>2, <1>3, <1>4, <1>5, <1>6, <1>7, <1>8, <1>9 DEF Next, ActorStep

(* Every event counts exactly once in the paid money, whatever is          *)
(* delivered again, fails or interleaves: sub and cash together are the    *)
(* sum over the recorded events, plus adjustments, minus bills.            *)
THEOREM PaidMoneyAlwaysExact == Spec => []PaidMoneyExact
  <1>1. Init => PaidMoneyExact
    <2> SUFFICES ASSUME Init PROVE PaidMoneyExact
      OBVIOUS
    <2>1. PaidIn(txs) = 0
      BY PaidInBasics, FS_EmptySet DEF Init
    <2>2. bal["sub"] = 0 /\ bal["cash"] = 0 /\ adjusted = 0 /\ billed = 0
      BY DEF Init, NoDeduction, PoolNames
    <2>3. QED
      BY <2>1, <2>2 DEF PaidMoneyExact, PaidIn
  <1>2. QED
    BY <1>1, PaidNext, TypeCorrect, PTL DEF Spec
=============================================================================
