-------------------------- MODULE SettlementProofs --------------------------
(***************************************************************************)
(* Proofs about Settlement, for any number of requests and workers and any *)
(* budget of failures of every kind: its types, that a settlement handed   *)
(* over is never silently lost, that the quota is never ahead of the       *)
(* billing log, and that a request is debited no more often than workers   *)
(* were at its bill at once.  Where no two workers ever are, the whole     *)
(* pipeline implements BillOnce.                                           *)
(***************************************************************************)
EXTENDS Settlement, FiniteSetTheorems, TLAPS

(* A worker that is busy has a task. *)
WorkerHasTask == \A w \in Workers : wpc[w] # "idle" => wtask[w] \in Tasks

(* What a failed or abandoned task becomes is a task, or is archived. *)
LEMMA RetryType ==
  ASSUME NEW T \in SUBSET Tasks, queue \subseteq Tasks, archived \subseteq Tasks,
         Retry(T)
  PROVE  /\ queue' \subseteq Tasks
         /\ archived' \subseteq Tasks
         /\ queue \subseteq queue'
         /\ archived \subseteq archived'
         /\ \A t \in T : \/ \E u \in queue' : u.req = t.req
                         \/ \E u \in archived' : u.req = t.req
  <1>1. \A t \in {u \in T : u.retried < MaxRetry} :
           [t EXCEPT !.retried = @ + 1] \in Tasks
    BY SettlementAssumption DEF Tasks
  <1>2. \A t \in Tasks : [t EXCEPT !.retried = @ + 1].req = t.req
    BY DEF Tasks
  <1>3. \A t \in Tasks : t.retried < MaxRetry \/ t.retried >= MaxRetry
    BY SettlementAssumption DEF Tasks
  <1>4. QED
    BY <1>1, <1>2, <1>3, Zenon DEF Retry

(* Deliver adds one task of r to the queue. *)
LEMMA DeliverType ==
  ASSUME NEW r \in Requests, queue \subseteq Tasks,
         sent \in [Requests -> Nat], Deliver(r)
  PROVE  /\ queue' \subseteq Tasks
         /\ sent' \in [Requests -> Nat]
         /\ queue \subseteq queue'
         /\ \E t \in queue' : t.req = r
  <1> DEFINE t == [req |-> r, copy |-> sent[r] + 1, retried |-> 0]
  <1>1. t \in Tasks /\ t.req = r
    BY SettlementAssumption DEF Tasks
  <1>2. queue' = queue \cup {t}
    BY DEF Deliver
  <1>3. sent' \in [Requests -> Nat]
    BY DEF Deliver
  <1> HIDE DEF t
  <1>4. QED
    BY <1>1, <1>2, <1>3

LEMMA BillingFinite ==
  \A r : IsFiniteSet(Billing(r)) /\ Cardinality(Billing(r)) \in Nat
  <1>1. \A r : Billing(r) \in SUBSET Workers
    BY DEF Billing
  <1>2. QED
    BY <1>1, WorkersAssumption, FS_Subset, FS_CardinalityType

(* The exists-check of w finds no bill: w is one more worker at it. *)
LEMMA BeginTxIs ==
  ASSUME together \in [Requests -> Nat], NEW w \in Workers,
         wtask[w].req \in Requests, BeginTx(w)
  PROVE  /\ together' \in [Requests -> Nat]
         /\ \A q \in Requests : together'[q] >= together[q]
         /\ together'[wtask[w].req] >= Cardinality(Billing(wtask[w].req)) + 1
         /\ wpc' = [wpc EXCEPT ![w] = "tx"] /\ wtask' = wtask
  <1> DEFINE r == wtask[w].req
             n == Cardinality(Billing(r)) + 1
  <1>1. n \in Nat
    BY BillingFinite
  <1>2. /\ together' = [together EXCEPT ![r] = IF n > @ THEN n ELSE @]
        /\ wpc' = [wpc EXCEPT ![w] = "tx"] /\ wtask' = wtask
    BY DEF BeginTx
  <1> HIDE DEF n
  <1>3. /\ together' \in [Requests -> Nat] /\ together'[r] >= n
        /\ \A q \in Requests : together'[q] >= together[q]
    BY <1>1, <1>2
  <1>4. QED
    BY <1>2, <1>3 DEF n

-----------------------------------------------------------------------------
(* The part of the type invariant that needs more than reading the actions: *)
(* a busy worker has a task.                                                *)
TypeInv == TypeOK /\ WorkerHasTask

LEMMA TypeInit == Init => TypeInv
  BY SettlementAssumption DEF Init, TypeInv, TypeOK, WorkerHasTask, ClosePC

LEMMA TypeNext == TypeInv /\ [Next]_vars => TypeInv'
  <1> SUFFICES ASSUME TypeInv, [Next]_vars PROVE TypeInv'
    OBVIOUS
  <1> USE DEF TypeInv
  <1>1. ASSUME NEW r \in Requests, Close(r) PROVE TypeInv'
    BY <1>1 DEF Close, TypeOK, WorkerHasTask, ClosePC, relayVars, workerVars
  <1>2. ASSUME NEW r \in Requests, Enqueue(r) PROVE TypeInv'
    <2>1. queue' \subseteq Tasks /\ sent' \in [Requests -> Nat]
      BY <1>2, DeliverType DEF Enqueue, TypeOK
    <2>2. QED
      BY <1>2, <2>1 DEF Enqueue, TypeOK, WorkerHasTask, ClosePC, relayVars, workerVars
  <1>3. ASSUME NEW r \in Requests, EnqueueFails(r) PROVE TypeInv'
    <2>1. queue' \subseteq Tasks /\ sent' \in [Requests -> Nat]
      BY <1>3, DeliverType DEF EnqueueFails, TypeOK
    <2>2. faults' \in 0 .. MaxFaults
      BY <1>3, SettlementAssumption DEF EnqueueFails, Fault, TypeOK
    <2>3. QED
      BY <1>3, <2>1, <2>2
         DEF EnqueueFails, TypeOK, WorkerHasTask, ClosePC, relayVars, workerVars
  <1>4. ASSUME NEW r \in Requests, InsertSettlementOutbox(r) PROVE TypeInv'
    BY <1>4
       DEF InsertSettlementOutbox, TypeOK, WorkerHasTask, ClosePC, relayVars,
           workerVars
  <1>5. ASSUME NEW r \in Requests, OutboxFails(r) PROVE TypeInv'
    BY <1>5, SettlementAssumption
       DEF OutboxFails, Fault, TypeOK, WorkerHasTask, ClosePC, relayVars, workerVars
  <1>6. ASSUME ListPending PROVE TypeInv'
    BY <1>6 DEF ListPending, PendingRows, TypeOK, WorkerHasTask, workerVars
  <1>7. ASSUME NEW r \in Requests, RelayEnqueue(r) PROVE TypeInv'
    <2>1. queue' \subseteq Tasks /\ sent' \in [Requests -> Nat]
      BY <1>7, DeliverType DEF RelayEnqueue, TypeOK
    <2>2. QED
      BY <1>7, <2>1 DEF RelayEnqueue, TypeOK, WorkerHasTask, workerVars
  <1>8. ASSUME NEW r \in Requests, RelayEnqueueFails(r) PROVE TypeInv'
    <2>1. queue' \subseteq Tasks /\ sent' \in [Requests -> Nat]
      BY <1>8, DeliverType DEF RelayEnqueueFails, TypeOK
    <2>2. faults' \in 0 .. MaxFaults
      BY <1>8, SettlementAssumption DEF RelayEnqueueFails, Fault, TypeOK
    <2>3. QED
      BY <1>8, <2>1, <2>2 DEF RelayEnqueueFails, TypeOK, WorkerHasTask, workerVars
  <1>9. ASSUME NEW r \in Requests, MarkProcessed(r) PROVE TypeInv'
    BY <1>9 DEF MarkProcessed, TypeOK, WorkerHasTask, workerVars
  <1>10. ASSUME NEW r \in Requests, MarkFails(r) PROVE TypeInv'
    BY <1>10, SettlementAssumption
       DEF MarkFails, Fault, TypeOK, WorkerHasTask, workerVars
  <1>11. ASSUME NEW w \in Workers, Dequeue(w) PROVE TypeInv'
    BY <1>11 DEF Dequeue, TypeOK, WorkerHasTask, closeVars, relayVars
  <1>12. ASSUME NEW w \in Workers, CheckBillingLogExists(w) PROVE TypeInv'
    <2>1. wtask[w].req \in Requests
      BY <1>12 DEF CheckBillingLogExists, WorkerHasTask, Tasks
    <2>2. CASE BeginTx(w)
      <3>1. /\ together' \in [Requests -> Nat]
            /\ wpc' = [wpc EXCEPT ![w] = "tx"] /\ wtask' = wtask
        BY <2>1, <2>2, BeginTxIs DEF TypeOK
      <3>2. QED
        BY <1>12, <3>1
           DEF CheckBillingLogExists, TypeOK, WorkerHasTask, closeVars, relayVars
    <2>3. CASE Release(w) /\ UNCHANGED together
      BY <1>12, <2>3
         DEF CheckBillingLogExists, Release, TypeOK, WorkerHasTask, closeVars,
             relayVars
    <2>4. QED
      BY <1>12, <2>2, <2>3 DEF CheckBillingLogExists
  <1>13. ASSUME NEW w \in Workers, CommitTx(w) PROVE TypeInv'
    <2>1. wtask[w].req \in Requests
      BY <1>13 DEF CommitTx, WorkerHasTask, Tasks
    <2>2. QED
      BY <1>13, <2>1 DEF CommitTx, TypeOK, WorkerHasTask, closeVars, relayVars
  <1>14. ASSUME NEW w \in Workers, TxFails(w) PROVE TypeInv'
    <2>1. wtask[w] \in Tasks /\ wtask[w].req \in Requests
      BY <1>14 DEF TxFails, WorkerHasTask, Tasks
    <2>2. queue' \subseteq Tasks /\ archived' \subseteq Tasks
      BY <1>14, <2>1, RetryType DEF TxFails, TypeOK
    <2>3. logs' \in [Requests -> Nat]
      BY <1>14, <2>1 DEF TxFails, TypeOK
    <2>4. faults' \in 0 .. MaxFaults
      BY <1>14, SettlementAssumption DEF TxFails, Fault, TypeOK
    <2>5. QED
      BY <1>14, <2>2, <2>3, <2>4
         DEF TxFails, Release, TypeOK, WorkerHasTask, closeVars, relayVars
  <1>15. ASSUME NEW w \in Workers, IncrementAPIKeyQuotaUsed(w) PROVE TypeInv'
    <2>1. wtask[w].req \in Requests
      BY <1>15 DEF IncrementAPIKeyQuotaUsed, WorkerHasTask, Tasks
    <2>2. QED
      BY <1>15, <2>1
         DEF IncrementAPIKeyQuotaUsed, Release, TypeOK, WorkerHasTask, closeVars, relayVars
  <1>16. ASSUME NEW w \in Workers, QuotaFails(w) PROVE TypeInv'
    BY <1>16, SettlementAssumption
       DEF QuotaFails, Fault, Release, TypeOK, WorkerHasTask, closeVars, relayVars
  <1>17. ASSUME Crash PROVE TypeInv'
    <2> DEFINE T == {wtask[w] : w \in {v \in Workers : wpc[v] # "idle"}}
    <2>1. T \in SUBSET Tasks
      BY DEF WorkerHasTask
    <2>2. Retry(T)
      BY <1>17 DEF Crash
    <2>3. queue' \subseteq Tasks /\ archived' \subseteq Tasks
      BY <2>1, <2>2, RetryType DEF TypeOK
    <2>4. faults' \in 0 .. MaxFaults
      BY <1>17, SettlementAssumption DEF Crash, Fault, TypeOK
    <2>5. QED
      BY <1>17, <2>3, <2>4 DEF Crash, TypeOK, WorkerHasTask, ClosePC
  <1>18. ASSUME UNCHANGED vars PROVE TypeInv'
    BY <1>18 DEF vars, TypeOK, WorkerHasTask
  <1>19. QED
    BY <1>1, <1>2, <1>3, <1>4, <1>5, <1>6, <1>7, <1>8, <1>9, <1>10, <1>11,
       <1>12, <1>13, <1>14, <1>15, <1>16, <1>17, <1>18
       DEF Next, CloseStep, RelayStep, WorkerStep

(* The variables of the pipeline keep their types: in particular a task    *)
(* never exceeds its retries and failures never exceed their budget.       *)
THEOREM TypeCorrect == Spec => []TypeOK
  <1>1. TypeInv => TypeOK
    BY DEF TypeInv
  <1>2. QED
    BY <1>1, TypeInit, TypeNext, PTL DEF Spec

-----------------------------------------------------------------------------
(* Where the task of r can be once it was handed to asynq.                 *)

AtWorker(r) == \E w \in Workers : wpc[w] # "idle" /\ wtask[w].req = r

Handled(r) ==
  \/ logs[r] > 0
  \/ \E t \in queue : t.req = r
  \/ AtWorker(r)
  \/ \E t \in archived : t.req = r

(* A worker past its COMMIT works on a request that has its log row. *)
QuotaLogged == \A w \in Workers : wpc[w] = "quota" => logs[wtask[w].req] > 0

(* The strengthening of NoSilentLoss: the relay marks a row processed only *)
(* after a task of it reached asynq, and what reached asynq stays handled. *)
LossInv ==
  /\ QuotaLogged
  /\ \A r \in marking : Handled(r)
  /\ \A r \in Requests : outbox[r] = "processed" => Handled(r)
  /\ \A r \in Requests : pc[r] = "done" => Handled(r) \/ outbox[r] = "pending"

LEMMA QuotaLoggedNext ==
  TypeInv /\ QuotaLogged /\ [Next]_vars => QuotaLogged'
  <1> SUFFICES ASSUME TypeInv, QuotaLogged, [Next]_vars PROVE QuotaLogged'
    OBVIOUS
  <1> USE DEF TypeInv, TypeOK, QuotaLogged
  <1>1. CASE \E r \in Requests : CloseStep(r)
    BY <1>1 DEF CloseStep, Close, Enqueue, EnqueueFails, InsertSettlementOutbox,
                OutboxFails, workerVars
  <1>2. CASE \E r \in Requests : RelayStep(r)
    BY <1>2 DEF RelayStep, RelayEnqueue, RelayEnqueueFails, MarkProcessed,
                MarkFails, workerVars
  <1>3. CASE ListPending
    BY <1>3 DEF ListPending, workerVars
  <1>4. ASSUME NEW w \in Workers, Dequeue(w) PROVE QuotaLogged'
    BY <1>4 DEF Dequeue
  <1>5. ASSUME NEW w \in Workers, CheckBillingLogExists(w) PROVE QuotaLogged'
    BY <1>5 DEF CheckBillingLogExists, Release, BeginTx
  <1>6. ASSUME NEW w \in Workers, CommitTx(w) PROVE QuotaLogged'
    <2>1. \A v \in Workers : wpc[v] # "idle" => wtask[v].req \in Requests
      BY DEF WorkerHasTask, Tasks
    <2>2. QED
      BY <1>6, <2>1 DEF CommitTx
  <1>7. ASSUME NEW w \in Workers, TxFails(w) PROVE QuotaLogged'
    <2>1. \A v \in Workers : wpc[v] # "idle" => wtask[v].req \in Requests
      BY DEF WorkerHasTask, Tasks
    <2>2. \A r \in Requests : logs[r] > 0 => logs'[r] > 0
      BY <1>7, <2>1 DEF TxFails
    <2>3. QED
      BY <1>7, <2>1, <2>2 DEF TxFails, Release
  <1>8. ASSUME NEW w \in Workers, IncrementAPIKeyQuotaUsed(w) \/ QuotaFails(w)
        PROVE QuotaLogged'
    BY <1>8 DEF IncrementAPIKeyQuotaUsed, QuotaFails, Release
  <1>9. CASE Crash
    BY <1>9 DEF Crash
  <1>10. CASE UNCHANGED vars
    BY <1>10 DEF vars
  <1>11. QED
    BY <1>1, <1>2, <1>3, <1>4, <1>5, <1>6, <1>7, <1>8, <1>9, <1>10
       DEF Next, WorkerStep

(* No step takes a handled request back: a task leaves the queue only for  *)
(* a worker, and a worker only for the billing log, the queue or archive.  *)
LEMMA HandledStable ==
  ASSUME TypeInv, QuotaLogged, [Next]_vars, NEW q \in Requests, Handled(q)
  PROVE  Handled(q)'
  <1> USE DEF TypeInv, TypeOK
  <1>0. \A v \in Workers : wpc[v] # "idle" => wtask[v] \in Tasks /\ wtask[v].req \in Requests
    BY DEF WorkerHasTask, Tasks
  <1>1. ASSUME queue \subseteq queue', archived' = archived, logs' = logs,
               wpc' = wpc, wtask' = wtask
        PROVE  Handled(q)'
    BY <1>1, Zenon DEF Handled, AtWorker
  <1>2. ASSUME NEW r \in Requests, CloseStep(r) PROVE Handled(q)'
    <2>1. queue \subseteq queue'
      BY <1>2, DeliverType DEF CloseStep, Close, Enqueue, EnqueueFails,
            InsertSettlementOutbox, OutboxFails
    <2>2. QED
      BY <1>1, <1>2, <2>1 DEF CloseStep, Close, Enqueue, EnqueueFails,
            InsertSettlementOutbox, OutboxFails, workerVars
  <1>3. ASSUME NEW r \in Requests, RelayStep(r) PROVE Handled(q)'
    <2>1. queue \subseteq queue'
      BY <1>3, DeliverType DEF RelayStep, RelayEnqueue, RelayEnqueueFails,
            MarkProcessed, MarkFails
    <2>2. QED
      BY <1>1, <1>3, <2>1 DEF RelayStep, RelayEnqueue, RelayEnqueueFails,
            MarkProcessed, MarkFails, workerVars
  <1>4. CASE ListPending
    BY <1>1, <1>4 DEF ListPending, workerVars
  <1>5. ASSUME NEW w \in Workers, Dequeue(w) PROVE Handled(q)'
    <2>1. PICK t \in queue : queue' = queue \ {t} /\ wtask' = [wtask EXCEPT ![w] = t]
      BY <1>5 DEF Dequeue
    <2>2. wpc'[w] = "check" /\ wtask'[w] = t
      BY <1>5, <2>1 DEF Dequeue
    <2>3. \A v \in Workers : wpc[v] # "idle" => wpc'[v] = wpc[v] /\ wtask'[v] = wtask[v]
      BY <1>5, <2>1 DEF Dequeue
    <2>4. logs' = logs /\ archived' = archived
      BY <1>5 DEF Dequeue
    <2>5. QED
      BY <2>1, <2>2, <2>3, <2>4 DEF Handled, AtWorker
  <1>6. ASSUME NEW w \in Workers, CheckBillingLogExists(w) PROVE Handled(q)'
    <2>1. CASE logs[wtask[w].req] > 0
      <3>1. \A v \in Workers \ {w} : wpc'[v] = wpc[v] /\ wtask'[v] = wtask[v]
        BY <1>6, <2>1 DEF CheckBillingLogExists, Release
      <3>2. logs' = logs /\ archived' = archived /\ queue' = queue
        BY <1>6 DEF CheckBillingLogExists
      <3>3. QED
        BY <2>1, <3>1, <3>2 DEF Handled, AtWorker
    <2>2. CASE ~(logs[wtask[w].req] > 0)
      <3>1. \A v \in Workers : wpc[v] # "idle" => wpc'[v] # "idle" /\ wtask'[v] = wtask[v]
        BY <1>6, <2>2 DEF CheckBillingLogExists, BeginTx
      <3>2. logs' = logs /\ archived' = archived /\ queue' = queue
        BY <1>6 DEF CheckBillingLogExists
      <3>3. QED
        BY <3>1, <3>2 DEF Handled, AtWorker
    <2>3. QED
      BY <2>1, <2>2
  <1>7. ASSUME NEW w \in Workers, CommitTx(w) PROVE Handled(q)'
    <2>1. \A v \in Workers : wpc[v] # "idle" => wpc'[v] # "idle" /\ wtask'[v] = wtask[v]
      BY <1>7 DEF CommitTx
    <2>2. logs[q] > 0 => logs'[q] > 0
      BY <1>0, <1>7 DEF CommitTx
    <2>3. archived' = archived /\ queue' = queue
      BY <1>7 DEF CommitTx
    <2>4. QED
      BY <2>1, <2>2, <2>3, Zenon DEF Handled, AtWorker
  <1>8. ASSUME NEW w \in Workers, TxFails(w) PROVE Handled(q)'
    <2>1. logs[q] > 0 => logs'[q] > 0
      BY <1>0, <1>8 DEF TxFails
    <2>2. /\ queue \subseteq queue' /\ archived \subseteq archived'
          /\ \/ \E u \in queue' : u.req = wtask[w].req
             \/ \E u \in archived' : u.req = wtask[w].req
      BY <1>0, <1>8, RetryType DEF TxFails
    <2>3. \A v \in Workers \ {w} : wpc'[v] = wpc[v] /\ wtask'[v] = wtask[v]
      BY <1>8 DEF TxFails, Release
    <2>4. QED
      BY <2>1, <2>2, <2>3, Zenon DEF Handled, AtWorker
  <1>9. ASSUME NEW w \in Workers, IncrementAPIKeyQuotaUsed(w) \/ QuotaFails(w)
        PROVE Handled(q)'
    <2>1. logs[wtask[w].req] > 0
      BY <1>9 DEF IncrementAPIKeyQuotaUsed, QuotaFails, QuotaLogged
    <2>2. \A v \in Workers \ {w} : wpc'[v] = wpc[v] /\ wtask'[v] = wtask[v]
      BY <1>9 DEF IncrementAPIKeyQuotaUsed, QuotaFails, Release
    <2>3. logs' = logs /\ archived' = archived /\ queue' = queue
      BY <1>9 DEF IncrementAPIKeyQuotaUsed, QuotaFails
    <2>4. QED
      BY <2>1, <2>2, <2>3, Zenon DEF Handled, AtWorker
  <1>10. CASE Crash
    <2> DEFINE T == {wtask[w] : w \in {v \in Workers : wpc[v] # "idle"}}
    <2>1. T \in SUBSET Tasks
      BY DEF WorkerHasTask
    <2>2. Retry(T)
      BY <1>10 DEF Crash
    <2>3. /\ queue \subseteq queue' /\ archived \subseteq archived'
          /\ \A t \in T : \/ \E u \in queue' : u.req = t.req
                          \/ \E u \in archived' : u.req = t.req
      BY <2>1, <2>2, RetryType
    <2>4. AtWorker(q) => \E t \in T : t.req = q
      BY DEF AtWorker
    <2>5. logs' = logs
      BY <1>10 DEF Crash
    <2> HIDE DEF T
    <2>6. QED
      BY <2>3, <2>4, <2>5, Zenon DEF Handled
  <1>11. CASE UNCHANGED vars
    BY <1>1, <1>11 DEF vars
  <1>12. QED
    BY <1>2, <1>3, <1>4, <1>5, <1>6, <1>7, <1>8, <1>9, <1>10, <1>11
       DEF Next, WorkerStep

LEMMA LossInit == Init => LossInv
  BY DEF Init, LossInv, QuotaLogged

LEMMA LossNext == TypeInv /\ LossInv /\ [Next]_vars => LossInv'
  <1> SUFFICES ASSUME TypeInv, LossInv, [Next]_vars PROVE LossInv'
    OBVIOUS
  <1> USE DEF TypeInv
  <1>1. QuotaLogged'
    BY QuotaLoggedNext DEF LossInv
  <1>2. \A q \in Requests : Handled(q) => Handled(q)'
    BY HandledStable DEF LossInv
  <1>3. marking \subseteq Requests
    BY DEF TypeOK
  <1>4. ASSUME marking' \subseteq marking,
               \A q \in Requests : outbox'[q] = outbox[q] \/ (outbox'[q] = "pending"),
               \A q \in Requests : pc'[q] = "done" =>
                  \/ pc[q] = "done" \/ Handled(q)' \/ outbox'[q] = "pending"
        PROVE  LossInv'
    BY <1>1, <1>2, <1>3, <1>4, Zenon DEF LossInv
  <1>5. ASSUME NEW r \in Requests, CloseStep(r) PROVE LossInv'
    <2>1. CASE Close(r) \/ EnqueueFails(r) \/ OutboxFails(r)
      <3>1. marking' = marking /\ outbox' = outbox
        BY <2>1 DEF Close, EnqueueFails, OutboxFails, relayVars
      <3>2. \A q \in Requests : pc'[q] = "done" => pc[q] = "done"
        BY <2>1 DEF Close, EnqueueFails, OutboxFails, TypeOK
      <3>3. QED
        BY <1>4, <3>1, <3>2
    <2>2. CASE Enqueue(r)
      <3>1. marking' = marking /\ outbox' = outbox
        BY <2>2 DEF Enqueue, relayVars
      <3>2. \E t \in queue' : t.req = r
        BY <2>2, DeliverType DEF Enqueue, TypeOK
      <3>3. \A q \in Requests : q # r => pc'[q] = pc[q]
        BY <2>2 DEF Enqueue, TypeOK
      <3>4. Handled(r)'
        BY <3>2, Zenon DEF Handled
      <3>5. QED
        BY <1>4, <3>1, <3>3, <3>4
    <2>3. CASE InsertSettlementOutbox(r)
      <3>1. marking' = marking
        BY <2>3 DEF InsertSettlementOutbox, relayVars
      <3>2. \A q \in Requests : q # r => pc'[q] = pc[q] /\ outbox'[q] = outbox[q]
        BY <2>3 DEF InsertSettlementOutbox, TypeOK
      <3>3. outbox'[r] = IF outbox[r] = "none" THEN "pending" ELSE outbox[r]
        BY <2>3 DEF InsertSettlementOutbox, TypeOK
      <3>4. outbox'[r] = "pending" \/ outbox[r] = "processed"
        BY <3>3 DEF TypeOK
      <3>5. outbox'[r] = "pending" \/ Handled(r)'
        BY <1>2, <3>4 DEF LossInv
      <3>6. QED
        BY <1>4, <3>1, <3>2, <3>3, <3>5
    <2>4. QED
      BY <1>5, <2>1, <2>2, <2>3 DEF CloseStep
  <1>6. ASSUME NEW r \in Requests, RelayStep(r) PROVE LossInv'
    <2>1. CASE RelayEnqueue(r)
      <3>1. \E t \in queue' : t.req = r
        BY <2>1, DeliverType DEF RelayEnqueue, TypeOK
      <3>2. Handled(r)'
        BY <3>1, Zenon DEF Handled
      <3>3. marking' = {r} /\ outbox' = outbox /\ pc' = pc
        BY <2>1 DEF RelayEnqueue
      <3>4. QED
        BY <1>1, <1>2, <3>2, <3>3, Zenon DEF LossInv
    <2>2. CASE RelayEnqueueFails(r)
      BY <1>4, <2>2 DEF RelayEnqueueFails
    <2>3. CASE MarkProcessed(r)
      <3>1. Handled(r)'
        BY <1>2, <2>3 DEF MarkProcessed, LossInv
      <3>2. marking' = {} /\ pc' = pc
        BY <2>3 DEF MarkProcessed
      <3>3. \A q \in Requests : q # r => outbox'[q] = outbox[q]
        BY <2>3 DEF MarkProcessed, TypeOK
      <3>4. QED
        BY <1>1, <1>2, <3>1, <3>2, <3>3, Zenon DEF LossInv
    <2>4. CASE MarkFails(r)
      BY <1>4, <2>4 DEF MarkFails
    <2>5. QED
      BY <1>6, <2>1, <2>2, <2>3, <2>4 DEF RelayStep
  <1>7. CASE ListPending
    BY <1>4, <1>7 DEF ListPending
  <1>8. ASSUME NEW w \in Workers, WorkerStep(w) PROVE LossInv'
    <2>1. marking' = marking /\ outbox' = outbox /\ pc' = pc
      BY <1>8 DEF WorkerStep, Dequeue, CheckBillingLogExists, CommitTx, TxFails,
                  IncrementAPIKeyQuotaUsed, QuotaFails, closeVars, relayVars
    <2>2. QED
      BY <1>4, <2>1
  <1>9. CASE Crash
    <2>1. marking' = {} /\ outbox' = outbox
      BY <1>9 DEF Crash
    <2>2. \A q \in Requests : pc'[q] = "done" => pc[q] = "done"
      BY <1>9 DEF Crash, TypeOK
    <2>3. QED
      BY <1>4, <2>1, <2>2
  <1>10. CASE UNCHANGED vars
    BY <1>4, <1>10 DEF vars
  <1>11. QED
    BY <1>5, <1>6, <1>7, <1>8, <1>9, <1>10 DEF Next

(* Whatever fails and whenever the process dies, a settlement that Settle  *)
(* or Refund handed over is billed, still on its way, or in asynq's        *)
(* archive: for any number of requests and workers, any retry limit, any   *)
(* relay batch and any number of failures.                                 *)
THEOREM SettlementNeverLost == Spec => []NoSilentLoss
  <1>1. LossInv => NoSilentLoss
    <2>1. ASSUME NEW r \in Requests, AtWorker(r) PROVE Deliverable(r)
      BY <2>1 DEF AtWorker, Deliverable, Live
    <2>2. ASSUME NEW r \in Requests, \E t \in queue : t.req = r PROVE Deliverable(r)
      BY <2>2, Zenon DEF Deliverable, Live
    <2>3. QED
      BY <2>1, <2>2, Zenon DEF LossInv, NoSilentLoss, Handled, Deliverable
  <1>2. Init => TypeInv /\ LossInv
    BY TypeInit, LossInit
  <1>3. TypeInv /\ LossInv /\ [Next]_vars => (TypeInv /\ LossInv)'
    BY TypeNext, LossNext
  <1>4. QED
    BY <1>1, <1>2, <1>3, PTL DEF Spec

-----------------------------------------------------------------------------
(* How often a request is debited, for any number of workers.              *)

(* The strengthening of BilledOnlyTogether: once there is a bill, no other *)
(* worker gets past the exists-check, so the bills and the workers still   *)
(* at one are together no more than were at it at once.                    *)
TogetherInv ==
  \A r \in Requests :
    /\ Cardinality(Billing(r)) <= together[r]
    /\ logs[r] > 0 => logs[r] + Cardinality(Billing(r)) <= together[r]

LEMMA TogetherInit == Init => TogetherInv
  <1> SUFFICES ASSUME Init, NEW r \in Requests
               PROVE  Cardinality(Billing(r)) <= together[r] /\ ~(logs[r] > 0)
    BY DEF TogetherInv
  <1>1. Billing(r) = {}
    BY DEF Init, Billing
  <1>2. QED
    BY <1>1, FS_EmptySet DEF Init

LEMMA TogetherNext == TypeInv /\ TogetherInv /\ [Next]_vars => TogetherInv'
  <1> DEFINE P(q) == /\ Cardinality(Billing(q)) <= together[q]
                     /\ logs[q] > 0 => logs[q] + Cardinality(Billing(q)) <= together[q]
  <1> SUFFICES ASSUME TypeInv, TogetherInv, [Next]_vars, NEW q \in Requests
               PROVE  P(q)'
    BY DEF TogetherInv
  <1> USE DEF TypeInv, TypeOK
  <1>0. \A v \in Workers : wpc[v] # "idle" => wtask[v].req \in Requests
    BY DEF WorkerHasTask, Tasks
  <1>1. /\ together[q] \in Nat /\ logs[q] \in Nat
        /\ IsFiniteSet(Billing(q)) /\ Cardinality(Billing(q)) \in Nat
        /\ P(q)
    BY BillingFinite DEF TogetherInv
  <1>2. ASSUME UNCHANGED workerVars PROVE P(q)'
    BY <1>1, <1>2 DEF workerVars, Billing
  <1>3. ASSUME Billing(q)' \subseteq Billing(q), logs' = logs, together' = together
        PROVE  P(q)'
    <2>1. Cardinality(Billing(q)') \in Nat /\ Cardinality(Billing(q)') <= Cardinality(Billing(q))
      BY <1>1, <1>3, FS_Subset, FS_CardinalityType
    <2>2. QED
      BY <1>1, <1>3, <2>1
  <1>4. CASE \E r \in Requests : CloseStep(r) \/ RelayStep(r)
    BY <1>2, <1>4 DEF CloseStep, Close, Enqueue, EnqueueFails,
       InsertSettlementOutbox, OutboxFails, RelayStep, RelayEnqueue,
       RelayEnqueueFails, MarkProcessed, MarkFails
  <1>5. CASE ListPending
    BY <1>2, <1>5 DEF ListPending
  <1>6. ASSUME NEW w \in Workers,
               Dequeue(w) \/ IncrementAPIKeyQuotaUsed(w) \/ QuotaFails(w)
        PROVE  P(q)'
    <2>1. logs' = logs /\ together' = together
      BY <1>6 DEF Dequeue, IncrementAPIKeyQuotaUsed, QuotaFails
    <2>2. Billing(q)' \subseteq Billing(q)
      BY <1>6 DEF Dequeue, IncrementAPIKeyQuotaUsed, QuotaFails, Release, Billing
    <2>3. QED
      BY <1>3, <2>1, <2>2
  <1>7. ASSUME NEW w \in Workers, CheckBillingLogExists(w) PROVE P(q)'
    <2>1. wpc[w] = "check" /\ wtask[w].req \in Requests /\ logs' = logs
      BY <1>0, <1>7 DEF CheckBillingLogExists
    <2>2. CASE Release(w) /\ together' = together
      <3>1. Billing(q)' \subseteq Billing(q)
        BY <2>2 DEF Release, Billing
      <3>2. QED
        BY <1>3, <2>1, <2>2, <3>1
    <2>3. CASE BeginTx(w) /\ ~(logs[wtask[w].req] > 0)
      <3>1. /\ together'[q] \in Nat /\ together'[q] >= together[q]
            /\ together'[wtask[w].req] >= Cardinality(Billing(wtask[w].req)) + 1
            /\ wpc' = [wpc EXCEPT ![w] = "tx"] /\ wtask' = wtask
        BY <2>1, <2>3, BeginTxIs
      <3>2. CASE wtask[w].req = q
        <4>1. Billing(q)' = Billing(q) \cup {w} /\ w \notin Billing(q)
          BY <2>1, <3>1, <3>2 DEF Billing
        <4>2. Cardinality(Billing(q)') = Cardinality(Billing(q)) + 1
          BY <1>1, <4>1, FS_AddElement
        <4>3. QED
          BY <1>1, <2>1, <2>3, <3>1, <3>2, <4>2
      <3>3. CASE wtask[w].req # q
        <4>1. Billing(q)' = Billing(q)
          BY <3>1, <3>3 DEF Billing
        <4>2. QED
          BY <1>1, <2>1, <3>1, <4>1
      <3>4. QED
        BY <3>2, <3>3
    <2>4. QED
      BY <1>7, <2>2, <2>3 DEF CheckBillingLogExists
  <1>8. ASSUME NEW w \in Workers, CommitTx(w) \/ TxFails(w) PROVE P(q)'
    <2> DEFINE r == wtask[w].req
    <2>1. r \in Requests /\ together' = together
      BY <1>0, <1>8 DEF CommitTx, TxFails
    <2>2. Billing(q)' = Billing(q) \ {w}
      BY <1>8 DEF CommitTx, TxFails, Release, Billing
    <2>3. CASE logs' = logs
      BY <1>3, <2>1, <2>2, <2>3
    <2>4. CASE wpc[w] = "tx" /\ logs' = [logs EXCEPT ![r] = @ + 1] /\ r # q
      <3>1. logs'[q] = logs[q] /\ w \notin Billing(q)
        BY <1>1, <2>1, <2>4 DEF Billing
      <3>2. Billing(q)' = Billing(q)
        BY <2>2, <3>1
      <3>3. QED
        BY <1>1, <2>1, <3>1, <3>2
    <2>5. CASE wpc[w] = "tx" /\ logs' = [logs EXCEPT ![r] = @ + 1] /\ r = q
      <3>1. logs'[q] = logs[q] + 1 /\ w \in Billing(q)
        BY <1>1, <2>1, <2>5 DEF Billing
      <3>2. Cardinality(Billing(q)') = Cardinality(Billing(q)) - 1
        BY <1>1, <2>2, <3>1, FS_RemoveElement
      <3>3. QED
        BY <1>1, <2>1, <3>1, <3>2
    <2>6. QED
      BY <1>8, <2>3, <2>4, <2>5 DEF CommitTx, TxFails
  <1>9. CASE Crash
    <2>1. Billing(q)' = {} /\ logs' = logs /\ together' = together
      BY <1>9 DEF Crash, Billing
    <2>2. QED
      BY <1>3, <2>1
  <1>10. CASE UNCHANGED vars
    BY <1>2, <1>10 DEF vars, workerVars
  <1>11. QED
    BY <1>4, <1>5, <1>6, <1>7, <1>8, <1>9, <1>10 DEF Next, WorkerStep

(* Whatever the relay redelivers, asynq retries and crashes interrupt, and *)
(* however many workers there are, a request is debited no more often than *)
(* workers were between the exists-check and the COMMIT of it at once.     *)
THEOREM BilledNoMoreThanTogether == Spec => []BilledOnlyTogether
  <1>1. TypeInv /\ TogetherInv => BilledOnlyTogether
    <2> SUFFICES ASSUME TypeInv, TogetherInv, NEW r \in Requests
                 PROVE  logs[r] <= together[r]
      BY DEF BilledOnlyTogether
    <2>1. logs[r] \in Nat /\ together[r] \in Nat /\ Cardinality(Billing(r)) \in Nat
      BY BillingFinite DEF TypeInv, TypeOK
    <2>2. QED
      BY <2>1 DEF TogetherInv
  <1>2. TypeInv /\ TogetherInv /\ [Next]_vars => (TypeInv /\ TogetherInv)'
    BY TypeNext, TogetherNext
  <1>3. Init => TypeInv /\ TogetherInv
    BY TypeInit, TogetherInit
  <1>4. QED
    BY <1>1, <1>2, <1>3, PTL DEF Spec

(* In a behaviour in which no two workers are at the bill of one request   *)
(* at once, none is debited twice: the exists-check needs nothing more.    *)
THEOREM BilledOnceUnlessTogether == Spec => ([]Alone => []BilledAtMostOnce)
  <1>1. TypeInv /\ BilledOnlyTogether /\ Alone => BilledAtMostOnce
    BY DEF BilledOnlyTogether, Alone, BilledAtMostOnce, TypeInv, TypeOK
  <1>2. Spec => []TypeInv
    BY TypeInit, TypeNext, PTL DEF Spec
  <1>3. QED
    BY <1>1, <1>2, BilledNoMoreThanTogether, PTL

-----------------------------------------------------------------------------
(* The quota, for any number of workers.                                    *)

(* Workers that have committed a bill of r and not yet counted its cost. *)
Counting(r) == {w \in Workers : wpc[w] = "quota" /\ wtask[w].req = r}

(* The strengthening of QuotaBacked: every such worker has a log row of    *)
(* its own that no increment has used.                                     *)
QuotaInv == \A r \in Requests : quota[r] + Cardinality(Counting(r)) <= logs[r]

LEMMA CountingFinite ==
  \A r \in Requests : IsFiniteSet(Counting(r)) /\ Cardinality(Counting(r)) \in Nat
  <1>1. \A r \in Requests : Counting(r) \in SUBSET Workers
    BY DEF Counting
  <1>2. QED
    BY <1>1, WorkersAssumption, FS_Subset, FS_CardinalityType

LEMMA QuotaInit == Init => QuotaInv
  <1> SUFFICES ASSUME Init, NEW r \in Requests
               PROVE  quota[r] + Cardinality(Counting(r)) <= logs[r]
    BY DEF QuotaInv
  <1>1. Counting(r) = {}
    BY DEF Init, Counting
  <1>2. QED
    BY <1>1, FS_EmptySet DEF Init

LEMMA QuotaNext == TypeInv /\ QuotaInv /\ [Next]_vars => QuotaInv'
  <1> SUFFICES ASSUME TypeInv, QuotaInv, [Next]_vars, NEW q \in Requests
               PROVE  quota'[q] + Cardinality(Counting(q)') <= logs'[q]
    BY DEF QuotaInv
  <1> USE DEF TypeInv, TypeOK
  <1>0. \A v \in Workers : wpc[v] # "idle" => wtask[v].req \in Requests
    BY DEF WorkerHasTask, Tasks
  <1>1. /\ quota[q] \in Nat /\ logs[q] \in Nat
        /\ IsFiniteSet(Counting(q)) /\ Cardinality(Counting(q)) \in Nat
        /\ quota[q] + Cardinality(Counting(q)) <= logs[q]
    BY CountingFinite DEF QuotaInv
  <1>2. ASSUME Counting(q)' = Counting(q), quota' = quota, logs'[q] \in Nat,
               logs'[q] >= logs[q]
        PROVE  quota'[q] + Cardinality(Counting(q)') <= logs'[q]
    BY <1>1, <1>2
  <1>3. ASSUME UNCHANGED workerVars
        PROVE  quota'[q] + Cardinality(Counting(q)') <= logs'[q]
    BY <1>1, <1>2, <1>3 DEF workerVars, Counting
  <1>4. CASE \E r \in Requests : CloseStep(r) \/ RelayStep(r)
    BY <1>3, <1>4 DEF CloseStep, Close, Enqueue, EnqueueFails,
       InsertSettlementOutbox, OutboxFails, RelayStep, RelayEnqueue,
       RelayEnqueueFails, MarkProcessed, MarkFails
  <1>5. CASE ListPending
    BY <1>3, <1>5 DEF ListPending
  <1>6. ASSUME NEW w \in Workers, Dequeue(w) \/ CheckBillingLogExists(w)
        PROVE  quota'[q] + Cardinality(Counting(q)') <= logs'[q]
    <2>1. Counting(q)' = Counting(q)
      BY <1>6 DEF Dequeue, CheckBillingLogExists, Release, BeginTx, Counting
    <2>2. quota' = quota /\ logs' = logs
      BY <1>6 DEF Dequeue, CheckBillingLogExists
    <2>3. QED
      BY <1>1, <1>2, <2>1, <2>2
  <1>7. ASSUME NEW w \in Workers, CommitTx(w)
        PROVE  quota'[q] + Cardinality(Counting(q)') <= logs'[q]
    <2>1. wtask[w].req \in Requests /\ w \notin Counting(q)
      BY <1>0, <1>7 DEF CommitTx, Counting
    <2>2. CASE wtask[w].req = q
      <3>1. Counting(q)' = Counting(q) \cup {w}
        BY <1>7, <2>2 DEF CommitTx, Counting
      <3>2. Cardinality(Counting(q)') = Cardinality(Counting(q)) + 1
        BY <1>1, <2>1, <3>1, FS_AddElement
      <3>3. quota' = quota /\ logs'[q] = logs[q] + 1
        BY <1>7, <2>2 DEF CommitTx
      <3>4. QED
        BY <1>1, <3>2, <3>3
    <2>3. CASE wtask[w].req # q
      <3>1. Counting(q)' = Counting(q)
        BY <1>7, <2>3 DEF CommitTx, Counting
      <3>2. quota' = quota /\ logs'[q] = logs[q]
        BY <1>7, <2>1, <2>3 DEF CommitTx
      <3>3. QED
        BY <1>1, <1>2, <3>1, <3>2
    <2>4. QED
      BY <2>2, <2>3
  <1>8. ASSUME NEW w \in Workers, TxFails(w)
        PROVE  quota'[q] + Cardinality(Counting(q)') <= logs'[q]
    <2>1. Counting(q)' = Counting(q)
      BY <1>8 DEF TxFails, Release, Counting
    <2>2. quota' = quota /\ logs'[q] \in Nat /\ logs'[q] >= logs[q]
      BY <1>0, <1>1, <1>8 DEF TxFails
    <2>3. QED
      BY <1>2, <2>1, <2>2
  <1>9. ASSUME NEW w \in Workers, IncrementAPIKeyQuotaUsed(w) \/ QuotaFails(w)
        PROVE  quota'[q] + Cardinality(Counting(q)') <= logs'[q]
    <2>1. Counting(q)' = Counting(q) \ {w}
      BY <1>9 DEF IncrementAPIKeyQuotaUsed, QuotaFails, Release, Counting
    <2>2. /\ wtask[w].req \in Requests
          /\ w \in Counting(q) <=> wtask[w].req = q
      BY <1>0, <1>9 DEF IncrementAPIKeyQuotaUsed, QuotaFails, Counting
    <2>3. Cardinality(Counting(q)') =
            IF wtask[w].req = q THEN Cardinality(Counting(q)) - 1
                                ELSE Cardinality(Counting(q))
      BY <1>1, <2>1, <2>2, FS_RemoveElement
    <2>4. /\ logs' = logs
          /\ quota'[q] \in {quota[q], IF wtask[w].req = q THEN quota[q] + 1 ELSE quota[q]}
      BY <1>1, <1>9, <2>2 DEF IncrementAPIKeyQuotaUsed, QuotaFails
    <2>5. QED
      BY <1>1, <2>3, <2>4
  <1>10. CASE Crash
    <2>1. Counting(q)' = {}
      BY <1>10 DEF Crash, Counting
    <2>2. quota' = quota /\ logs' = logs
      BY <1>10 DEF Crash
    <2>3. QED
      BY <1>1, <2>1, <2>2, FS_EmptySet
  <1>11. CASE UNCHANGED vars
    BY <1>3, <1>11 DEF vars, workerVars
  <1>12. QED
    BY <1>4, <1>5, <1>6, <1>7, <1>8, <1>9, <1>10, <1>11 DEF Next, WorkerStep

(* quota_used never runs ahead of the billing log, also where two workers  *)
(* bill the same request twice: IncrementAPIKeyQuotaUsed comes after the   *)
(* COMMIT of its own log row, once.                                        *)
THEOREM QuotaAlwaysBacked == Spec => []QuotaBacked
  <1>1. TypeInv /\ QuotaInv => QuotaBacked
    <2>1. ASSUME TypeInv, QuotaInv, NEW r \in Requests PROVE quota[r] <= logs[r]
      BY <2>1, CountingFinite DEF QuotaInv, TypeInv, TypeOK
    <2>2. QED
      BY <2>1 DEF QuotaBacked
  <1>2. TypeInv /\ QuotaInv /\ [Next]_vars => (TypeInv /\ QuotaInv)'
    BY TypeNext, QuotaNext
  <1>3. Init => TypeInv /\ QuotaInv
    BY TypeInit, QuotaInit
  <1>4. QED
    BY <1>1, <1>2, <1>3, PTL DEF Spec

-----------------------------------------------------------------------------
(* The refinement of BillOnce, by one worker.                              *)

(* A bill of q is due: Settle or Refund is at work on it, or something     *)
(* will bring it to a worker.                                              *)
Owed(q) == pc[q] \in {"enqueue", "outbox"} \/ Deliverable(q)

(* What the refinement needs beyond OnceInv: nothing of a request that is  *)
(* not closed yet is on its way, and the relay works on pending rows only. *)
OpenInv ==
  /\ \A r \in Requests : pc[r] = "open" => logs[r] = 0 /\ ~Deliverable(r)
  /\ \A r \in rows \cup marking : outbox[r] = "pending"
  /\ rows \cap marking = {}

LEMMA DeliverableWhere ==
  \A r \in Requests :
    Deliverable(r) <=> \/ outbox[r] = "pending"
                       \/ \E t \in queue : t.req = r
                       \/ AtWorker(r)
  BY Zenon DEF Deliverable, Live, AtWorker

(* How a step moves what is deliverable: only a request that is owed a     *)
(* bill becomes deliverable.                                               *)
LEMMA DeliverableNext ==
  ASSUME TypeInv, OpenInv, [Next]_vars, NEW q \in Requests, Deliverable(q)'
  PROVE  Owed(q)
  <1> USE DEF TypeInv, TypeOK
  <1>0. \A v \in Workers : wpc[v] # "idle" => wtask[v] \in Tasks /\ wtask[v].req \in Requests
    BY DEF WorkerHasTask, Tasks
  <1>1. /\ outbox[q] = "pending" => Deliverable(q)
        /\ (\E t \in queue : t.req = q) => Deliverable(q)
        /\ AtWorker(q) => Deliverable(q)
    BY DeliverableWhere
  <1>2. \/ outbox'[q] = "pending"
        \/ \E t \in queue' : t.req = q
        \/ AtWorker(q)'
    BY Zenon DEF Deliverable, Live, AtWorker
  <1>3. ASSUME UNCHANGED <<wpc, wtask>> PROVE AtWorker(q)' => Deliverable(q)
    BY <1>1, <1>3 DEF AtWorker
  <1>4. ASSUME NEW r \in Requests, Deliver(r), NEW t \in queue', t.req = q
        PROVE  q = r \/ Deliverable(q)
    BY <1>1, <1>4 DEF Deliver
  <1>5. ASSUME NEW r \in Requests, CloseStep(r) PROVE Owed(q)
    <2>1. UNCHANGED <<wpc, wtask>>
      BY <1>5 DEF CloseStep, Close, Enqueue, EnqueueFails, InsertSettlementOutbox,
                  OutboxFails, workerVars
    <2>2. (queue' = queue) \/ (Deliver(r) /\ pc[r] \in {"enqueue", "outbox"})
      BY <1>5 DEF CloseStep, Close, Enqueue, EnqueueFails, InsertSettlementOutbox,
                  OutboxFails
    <2>3. outbox'[q] = outbox[q] \/ (q = r /\ pc[r] \in {"enqueue", "outbox"})
      BY <1>5 DEF CloseStep, Close, Enqueue, EnqueueFails, InsertSettlementOutbox,
                  OutboxFails
    <2>4. QED
      BY <1>1, <1>2, <1>3, <1>4, <2>1, <2>2, <2>3 DEF Owed
  <1>6. ASSUME NEW r \in Requests, RelayStep(r) PROVE Owed(q)
    <2>1. UNCHANGED <<wpc, wtask>>
      BY <1>6 DEF RelayStep, RelayEnqueue, RelayEnqueueFails, MarkProcessed,
                  MarkFails, workerVars
    <2>2. (queue' = queue) \/ (Deliver(r) /\ r \in rows)
      BY <1>6 DEF RelayStep, RelayEnqueue, RelayEnqueueFails, MarkProcessed,
                  MarkFails
    <2>3. outbox'[q] = "pending" => outbox[q] = "pending"
      BY <1>6 DEF RelayStep, RelayEnqueue, RelayEnqueueFails, MarkProcessed,
                  MarkFails
    <2>4. r \in rows => outbox[r] = "pending"
      BY DEF OpenInv
    <2>5. QED
      BY <1>1, <1>2, <1>3, <1>4, <2>1, <2>2, <2>3, <2>4 DEF Owed
  <1>7. CASE ListPending \/ UNCHANGED vars
    BY <1>1, <1>2, <1>3, <1>7 DEF ListPending, vars, workerVars, Owed
  <1>8. ASSUME NEW w \in Workers, WorkerStep(w) PROVE Owed(q)
    <2>1. outbox' = outbox
      BY <1>8 DEF WorkerStep, Dequeue, CheckBillingLogExists, CommitTx, TxFails,
                  IncrementAPIKeyQuotaUsed, QuotaFails, closeVars
    <2>2. ASSUME NEW t \in queue', t.req = q PROVE Deliverable(q)
      <3>1. CASE TxFails(w)
        <4>1. wtask[w] \in Tasks /\ wpc[w] # "idle"
          BY <1>0, <3>1 DEF TxFails
        <4>2. t \in queue \/ t = [wtask[w] EXCEPT !.retried = @ + 1]
          BY <2>2, <3>1 DEF TxFails, Retry
        <4>3. [wtask[w] EXCEPT !.retried = @ + 1].req = wtask[w].req
          BY <4>1 DEF Tasks
        <4>4. QED
          BY <1>1, <2>2, <4>1, <4>2, <4>3 DEF AtWorker
      <3>2. CASE ~TxFails(w)
        <4>1. queue' \subseteq queue
          BY <1>8, <3>2 DEF WorkerStep, Dequeue, CheckBillingLogExists, CommitTx,
                  IncrementAPIKeyQuotaUsed, QuotaFails
        <4>2. QED
          BY <1>1, <2>2, <4>1
      <3>3. QED
        BY <3>1, <3>2
    <2>3. ASSUME NEW v \in Workers, wpc'[v] # "idle", wtask'[v].req = q
          PROVE  Deliverable(q)
      <3>1. (wpc[v] # "idle" /\ wtask'[v] = wtask[v]) \/ wtask'[v] \in queue
        BY <1>8, <2>3 DEF WorkerStep, Dequeue, CheckBillingLogExists, BeginTx, CommitTx,
           TxFails, IncrementAPIKeyQuotaUsed, QuotaFails, Release
      <3>2. QED
        BY <1>1, <2>3, <3>1 DEF AtWorker
    <2>4. QED
      BY <1>1, <1>2, <2>1, <2>2, <2>3 DEF Owed, AtWorker
  <1>9. CASE Crash
    <2>1. outbox' = outbox /\ ~AtWorker(q)'
      BY <1>9 DEF Crash, AtWorker
    <2>2. ASSUME NEW t \in queue', t.req = q PROVE Deliverable(q)
      <3>1. CASE t \in queue
        BY <1>1, <2>2, <3>1
      <3>2. CASE t \notin queue
        <4>1. PICK v \in Workers :
                wpc[v] # "idle" /\ t = [wtask[v] EXCEPT !.retried = @ + 1]
          BY <1>9, <2>2, <3>2 DEF Crash, Retry
        <4>2. wtask[v].req = t.req
          BY <1>0, <4>1 DEF Tasks
        <4>3. QED
          BY <1>1, <2>2, <4>1, <4>2 DEF AtWorker
      <3>3. QED
        BY <3>1, <3>2
    <2>3. QED
      BY <1>1, <1>2, <2>1, <2>2 DEF Owed
  <1>10. QED
    BY <1>5, <1>6, <1>7, <1>8, <1>9 DEF Next

LEMMA OpenInit == Init => OpenInv
  BY DeliverableWhere DEF Init, OpenInv, AtWorker

LEMMA OpenNext == TypeInv /\ OpenInv /\ [Next]_vars => OpenInv'
  <1> SUFFICES ASSUME TypeInv, OpenInv, [Next]_vars PROVE OpenInv'
    OBVIOUS
  <1> USE DEF TypeInv, TypeOK
  <1>0. \A v \in Workers : wpc[v] # "idle" => wtask[v].req \in Requests
    BY DEF WorkerHasTask, Tasks
  <1>1. \A q \in Requests : pc[q] = "open" => logs[q] = 0 /\ ~Owed(q)
    BY DEF OpenInv, Owed
  <1>2. \A q \in Requests : pc'[q] = "open" => pc[q] = "open"
    <2>1. CASE \E r \in Requests : CloseStep(r)
      BY <2>1 DEF CloseStep, Close, Enqueue, EnqueueFails, InsertSettlementOutbox,
                  OutboxFails
    <2>2. CASE \E r \in Requests : RelayStep(r)
      BY <2>2 DEF RelayStep, RelayEnqueue, RelayEnqueueFails, MarkProcessed, MarkFails
    <2>3. CASE \E w \in Workers : WorkerStep(w)
      BY <2>3 DEF WorkerStep, Dequeue, CheckBillingLogExists, CommitTx, TxFails,
                  IncrementAPIKeyQuotaUsed, QuotaFails, closeVars
    <2>4. CASE ListPending \/ Crash \/ UNCHANGED vars
      BY <2>4 DEF ListPending, Crash, vars
    <2>5. QED
      BY <2>1, <2>2, <2>3, <2>4 DEF Next
  <1>3. \A q \in Requests : pc'[q] = "open" => ~Deliverable(q)'
    BY <1>1, <1>2, DeliverableNext
  <1>4. ASSUME NEW q \in Requests, pc'[q] = "open" PROVE logs'[q] = 0
    <2>1. logs[q] = 0 /\ ~Deliverable(q)
      BY <1>2, <1>4 DEF OpenInv
    <2>2. \A w \in Workers : wpc[w] # "idle" => wtask[w].req # q
      BY <2>1, DeliverableWhere DEF AtWorker
    <2>3. CASE \E r \in Requests : CloseStep(r) \/ RelayStep(r)
      BY <2>1, <2>3 DEF CloseStep, Close, Enqueue, EnqueueFails,
         InsertSettlementOutbox, OutboxFails, RelayStep, RelayEnqueue,
         RelayEnqueueFails, MarkProcessed, MarkFails, workerVars
    <2>4. CASE \E w \in Workers : WorkerStep(w)
      BY <1>0, <2>1, <2>2, <2>4 DEF WorkerStep, Dequeue, CheckBillingLogExists,
         CommitTx, TxFails, IncrementAPIKeyQuotaUsed, QuotaFails
    <2>5. CASE ListPending \/ Crash \/ UNCHANGED vars
      BY <2>1, <2>5 DEF ListPending, Crash, vars, workerVars
    <2>6. QED
      BY <2>3, <2>4, <2>5 DEF Next
  <1>5. /\ \A r \in rows' \cup marking' : outbox'[r] = "pending"
        /\ rows' \cap marking' = {}
    <2>1. CASE \E r \in Requests : CloseStep(r)
      BY <2>1 DEF CloseStep, Close, Enqueue, EnqueueFails, InsertSettlementOutbox,
                  OutboxFails, relayVars, OpenInv
    <2>2. CASE \E r \in Requests : RelayStep(r)
      BY <2>2 DEF RelayStep, RelayEnqueue, RelayEnqueueFails, MarkProcessed,
                  MarkFails, OpenInv
    <2>3. CASE \E w \in Workers : WorkerStep(w)
      BY <2>3 DEF WorkerStep, Dequeue, CheckBillingLogExists, CommitTx, TxFails,
                  IncrementAPIKeyQuotaUsed, QuotaFails, closeVars, relayVars, OpenInv
    <2>4. CASE ListPending
      BY <2>4 DEF ListPending, PendingRows
    <2>5. CASE Crash \/ UNCHANGED vars
      BY <2>5 DEF Crash, vars, OpenInv
    <2>6. QED
      BY <2>1, <2>2, <2>3, <2>4, <2>5 DEF Next
  <1>6. QED
    BY <1>3, <1>4, <1>5 DEF OpenInv

-----------------------------------------------------------------------------
(* The refinement mapping, case by case. *)
LEMMA StageIs ==
  ASSUME NEW r \in Requests, logs \in [Requests -> Nat]
  PROVE  stageOf[r] = IF logs[r] > 0 THEN "billed"
                      ELSE IF Owed(r) THEN "owed"
                      ELSE IF pc[r] = "open" THEN "open" ELSE "lost"
  <1>1. logs[r] \in Nat
    OBVIOUS
  <1>2. QED
    BY <1>1 DEF stageOf, Owed

LEMMA StageIsNext ==
  ASSUME NEW r \in Requests, logs' \in [Requests -> Nat]
  PROVE  stageOf'[r] = IF logs'[r] > 0 THEN "billed"
                       ELSE IF Owed(r)' THEN "owed"
                       ELSE IF pc'[r] = "open" THEN "open" ELSE "lost"
  <1>1. logs'[r] \in Nat
    OBVIOUS
  <1>2. QED
    BY <1>1 DEF stageOf, Owed

LEMMA StageDomain ==
  /\ stageOf = [r \in Requests |-> stageOf[r]]
  /\ stageOf' = [r \in Requests |-> stageOf'[r]]
  BY DEF stageOf

(* A step that neither closes nor charges: what it does to the requests    *)
(* BillOnce may see as losing some of them (none, for most steps).         *)
LEMMA LoseStep ==
  ASSUME TypeInv, TypeInv', OpenInv, logs' = logs,
         \A q \in Requests : Owed(q)' => Owed(q),
         \A q \in Requests : pc'[q] = "open" => pc[q] = "open"
  PROVE  Abstract!Lose
  <1> DEFINE L == {q \in Requests : stageOf[q] # "lost" /\ stageOf'[q] = "lost"}
  <1>0. logs \in [Requests -> Nat] /\ logs' \in [Requests -> Nat]
    BY DEF TypeInv, TypeOK
  <1>1. ASSUME NEW q \in Requests
        PROVE  \/ stageOf'[q] = stageOf[q]
               \/ stageOf[q] \in {"open", "owed"} /\ stageOf'[q] = "lost"
    <2>1. pc'[q] = "open" => ~Owed(q)
      BY DEF OpenInv, Owed
    <2>2. QED
      BY <1>0, <2>1, StageIs, StageIsNext
  <1>2. L \in SUBSET {r \in Requests : stageOf[r] \in {"open", "owed"}}
    BY <1>1
  <1>3. stageOf' = [r \in Requests |-> IF r \in L THEN "lost" ELSE stageOf[r]]
    <2>1. \A r \in Requests : stageOf'[r] = IF r \in L THEN "lost" ELSE stageOf[r]
      BY <1>1
    <2>2. QED
      BY <2>1, StageDomain, Zenon
  <1> HIDE DEF L
  <1>4. QED
    BY <1>2, <1>3, Zenon DEF Abstract!Lose

(* The COMMIT of the one bill. *)
LEMMA ChargeStep ==
  ASSUME TypeInv, TypeInv', NEW r \in Requests, logs[r] = 0, Owed(r),
         logs' = [logs EXCEPT ![r] = @ + 1], pc' = pc,
         \A q \in Requests \ {r} : Owed(q)' <=> Owed(q)
  PROVE  Abstract!Charge(r)
  <1>0. logs \in [Requests -> Nat] /\ logs' \in [Requests -> Nat]
    BY DEF TypeInv, TypeOK
  <1>1. stageOf[r] = "owed" /\ stageOf'[r] = "billed"
    <2>1. logs'[r] > 0
      BY <1>0
    <2>2. QED
      BY <1>0, <2>1, StageIs, StageIsNext
  <1>2. \A q \in Requests \ {r} : stageOf'[q] = stageOf[q]
    BY <1>0, StageIs, StageIsNext
  <1>3. stageOf' = [stageOf EXCEPT ![r] = "billed"]
    BY <1>1, <1>2, StageDomain
  <1>4. QED
    BY <1>1, <1>3, Zenon DEF Abstract!Charge

(* Every step of the pipeline is a step of BillOnce. *)
LEMMA RefinesNext ==
  ASSUME TypeInv, TypeInv', TogetherInv, Alone, OpenInv, [Next]_vars
  PROVE  Abstract!Next
  <1> USE DEF TypeInv, TypeOK
  <1>0. \A v \in Workers : wpc[v] # "idle" => wtask[v] \in Tasks /\ wtask[v].req \in Requests
    BY DEF WorkerHasTask, Tasks
  <1>1. \A q \in Requests : Deliverable(q)' => Owed(q)
    BY DeliverableNext
  <1>2. ASSUME logs' = logs,
               \A q \in Requests : pc'[q] \in {"enqueue", "outbox"} =>
                                     pc[q] \in {"enqueue", "outbox"},
               \A q \in Requests : pc'[q] = "open" => pc[q] = "open"
        PROVE  Abstract!Next
    <2>1. \A q \in Requests : Owed(q)' => Owed(q)
      BY <1>1, <1>2 DEF Owed
    <2>2. QED
      BY <1>2, <2>1, LoseStep DEF Abstract!Next
  <1>3. ASSUME NEW r \in Requests, Close(r) PROVE Abstract!Next
    <2>1. logs[r] = 0 /\ pc[r] = "open" /\ ~Owed(r)
      BY <1>3 DEF Close, OpenInv, Owed
    <2>2. /\ logs' = logs
          /\ pc' = [pc EXCEPT ![r] = "enqueue"]
          /\ UNCHANGED <<outbox, queue, wpc, wtask>>
      BY <1>3 DEF Close, workerVars
    <2>3. \A q \in Requests : Deliverable(q)' = Deliverable(q)
      BY <2>2, Zenon DEF Deliverable, Live
    <2>4. stageOf[r] = "open" /\ stageOf'[r] = "owed"
      <3>1. Owed(r)'
        BY <2>2 DEF Owed
      <3>2. QED
        BY <2>1, <2>2, <3>1, StageIs, StageIsNext
    <2>5. \A q \in Requests \ {r} : stageOf'[q] = stageOf[q]
      <3>1. \A q \in Requests \ {r} : pc'[q] = pc[q] /\ (Owed(q)' <=> Owed(q))
        BY <2>2, <2>3 DEF Owed
      <3>2. QED
        BY <2>2, <3>1, StageIs, StageIsNext
    <2>6. stageOf' = [stageOf EXCEPT ![r] = "owed"]
      BY <2>4, <2>5, StageDomain
    <2>7. Abstract!Close(r)
      BY <2>2, <2>4, <2>6, Zenon DEF Abstract!Close
    <2>8. QED
      BY <2>7 DEF Abstract!Next
  <1>4. ASSUME NEW r \in Requests, CloseStep(r), ~Close(r) PROVE Abstract!Next
    BY <1>2, <1>4 DEF CloseStep, Enqueue, EnqueueFails, InsertSettlementOutbox,
                  OutboxFails, workerVars
  <1>5. ASSUME NEW r \in Requests, RelayStep(r) PROVE Abstract!Next
    BY <1>2, <1>5 DEF RelayStep, RelayEnqueue, RelayEnqueueFails, MarkProcessed,
                  MarkFails, workerVars
  <1>6. CASE ListPending \/ Crash \/ UNCHANGED vars
    BY <1>2, <1>6 DEF ListPending, Crash, InSettle, vars, workerVars
  <1>7. ASSUME NEW w \in Workers, WorkerStep(w) PROVE Abstract!Next
    <2>0. pc' = pc /\ outbox' = outbox
      BY <1>7 DEF WorkerStep, Dequeue, CheckBillingLogExists, CommitTx, TxFails,
                  IncrementAPIKeyQuotaUsed, QuotaFails, closeVars
    <2>1. CASE logs' = logs
      BY <1>2, <2>0, <2>1
    <2>2. CASE logs' # logs
      <3> DEFINE r == wtask[w].req
      <3>1. /\ wpc[w] = "tx"
            /\ logs' = [logs EXCEPT ![r] = @ + 1]
            /\ CommitTx(w) \/ TxFails(w)
        BY <1>7, <2>2 DEF WorkerStep, Dequeue, CheckBillingLogExists, CommitTx, TxFails,
                  IncrementAPIKeyQuotaUsed, QuotaFails
      <3>2. r \in Requests /\ logs[r] = 0 /\ AtWorker(r)
        <4>1. r \in Requests /\ AtWorker(r) /\ w \in Billing(r)
          BY <1>0, <3>1 DEF AtWorker, Billing
        <4>2. Cardinality(Billing(r)) \in Nat /\ Cardinality(Billing(r)) # 0
          BY <4>1, BillingFinite, FS_EmptySet
        <4>3. /\ logs[r] > 0 => logs[r] + Cardinality(Billing(r)) <= together[r]
              /\ together[r] <= 1 /\ together[r] \in Nat /\ logs[r] \in Nat
          BY <4>1 DEF TogetherInv, Alone
        <4> HIDE DEF r
        <4>4. QED
          BY <4>1, <4>2, <4>3
      <3>3. Owed(r)
        BY <3>2, DeliverableWhere DEF Owed
      <3>4. queue \subseteq queue'
        BY <1>0, <3>1, RetryType DEF CommitTx, TxFails
      <3>5. \A v \in Workers \ {w} : wpc'[v] = wpc[v] /\ wtask'[v] = wtask[v]
        BY <3>1 DEF CommitTx, TxFails, Release
      <3>6. ASSUME NEW q \in Requests \ {r}, Deliverable(q) PROVE Deliverable(q)'
        <4>1. \/ outbox[q] = "pending"
              \/ \E t \in queue : t.req = q
              \/ \E v \in Workers \ {w} : wpc[v] # "idle" /\ wtask[v].req = q
          BY <3>6, DeliverableWhere DEF AtWorker
        <4>2. \/ outbox'[q] = "pending"
              \/ \E t \in queue' : t.req = q
              \/ \E v \in Workers : wpc'[v] # "idle" /\ wtask'[v].req = q
          BY <2>0, <3>4, <3>5, <4>1
        <4>3. QED
          BY <4>2, Zenon DEF Deliverable, Live
      <3>7. \A q \in Requests \ {r} : Owed(q)' <=> Owed(q)
        BY <1>1, <2>0, <3>6 DEF Owed
      <3> HIDE DEF r
      <3>8. Abstract!Charge(r)
        BY <2>0, <3>1, <3>2, <3>3, <3>7, ChargeStep
      <3>9. QED
        BY <3>2, <3>8 DEF Abstract!Next
    <2>3. QED
      BY <2>1, <2>2
  <1>8. QED
    BY <1>3, <1>4, <1>5, <1>6, <1>7 DEF Next

(* While no two workers are at the bill of one request at once, however    *)
(* many there are, the pipeline (enqueue, outbox, relay, queue, retries,   *)
(* exists-check, transaction, crashes) implements BillOnce: a bill is      *)
(* charged once, only after its request was closed, and never after it was *)
(* given up.                                                               *)
THEOREM PipelineBillsOnceUnlessTogether == Spec => ([]Alone => ImplementsBillOnce)
  <1> DEFINE IInv == TypeInv /\ TogetherInv /\ OpenInv
  <1>1. Init => IInv
    BY TypeInit, TogetherInit, OpenInit
  <1>2. IInv /\ [Next]_vars => IInv'
    BY TypeNext, TogetherNext, OpenNext
  <1>3. Init => Abstract!Init
    <2> SUFFICES ASSUME Init PROVE Abstract!Init
      OBVIOUS
    <2>1. TypeInv /\ OpenInv
      BY TypeInit, OpenInit
    <2>2. \A r \in Requests : stageOf[r] = "open"
      BY <2>1, StageIs DEF Init, TypeInv, TypeOK, OpenInv, Owed
    <2>3. stageOf = [r \in Requests |-> "open"]
      BY <2>2, StageDomain
    <2>4. QED
      BY <2>3 DEF Init, Abstract!Init
  <1>4. IInv /\ IInv' /\ Alone /\ [Next]_vars => [Abstract!Next]_(Abstract!vars)
    BY RefinesNext
  <1> HIDE DEF IInv
  <1>5. QED
    BY <1>1, <1>2, <1>3, <1>4, PTL DEF Spec, ImplementsBillOnce, Abstract!Spec
=============================================================================
