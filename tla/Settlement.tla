----------------------------- MODULE Settlement -----------------------------
(***************************************************************************)
(* How a closed request reaches Postgres: the tail of Settle and Refund    *)
(* (enqueue, else outbox), the asynq queue, the outbox relay and the       *)
(* billing workers.  Amounts are not modelled here (see Pools and          *)
(* BalanceCache); a task is known by the request_id it carries.            *)
(*                                                                         *)
(* The process holds the request goroutines, the relay and the workers, so *)
(* Crash takes all of them at once.  asynq is external: a queue that       *)
(* delivers at least once, retries a failed task MaxRetry times and then   *)
(* archives it, and gives the task of a dead worker back to the queue.     *)
(***************************************************************************)
EXTENDS Naturals, FiniteSets

CONSTANTS Requests,  \* request ids of pre-deducted requests
          Workers,   \* asynq worker goroutines
          MaxRetry,  \* asynq.MaxRetry of the billing task (5 in the code)
          RelayBatch,\* outboxRelayBatch (100 in the code)
          Faults,    \* the kinds of failure this instance is exposed to
          MaxFaults, \* how many failures may happen in one behaviour
          NoTask     \* the task of an idle worker

FaultKinds == {"enqueue", "late", "outbox", "mark", "db", "crash"}

ASSUME SettlementAssumption ==
  /\ MaxRetry \in Nat
  /\ RelayBatch \in Nat \ {0}
  /\ Faults \subseteq FaultKinds
  /\ MaxFaults \in Nat

(* asynq runs a configured number of workers. *)
ASSUME WorkersAssumption == IsFiniteSet(Workers)

VARIABLES pc,       \* pc[r]: where Settle or Refund of request r is
          sent,     \* sent[r]: copies of the task handed to asynq so far
          queue,    \* tasks waiting in asynq
          archived, \* tasks asynq gave up on
          outbox,   \* outbox[r]: the settlement_outbox row of r
          rows,     \* rows the relay's current pass has still to deliver
          marking,  \* the row just delivered and not yet marked
          wpc,      \* wpc[w]: where worker w is in HandleRecordBillingLog
          wtask,    \* wtask[w]: the task it works on
          logs,     \* logs[r]: billing_logs rows (one debit each) of r
          quota,    \* quota[r]: times quota_used grew by the cost of r
          together, \* history: most workers ever at the bill of r at once
          faults    \* failures so far

vars == <<pc, sent, queue, archived, outbox, rows, marking, wpc, wtask,
          logs, quota, together, faults>>

(* A task carries its request_id; copy tells the deliveries of one apart. *)
Tasks == [req : Requests, copy : Nat, retried : 0 .. MaxRetry]

ASSUME NoTaskAssumption == NoTask \notin Tasks

ClosePC == {"open", "enqueue", "outbox", "done", "lost", "crashed"}

InSettle == {"open", "enqueue", "outbox"}

TypeOK ==
  /\ pc \in [Requests -> ClosePC]
  /\ sent \in [Requests -> Nat]
  /\ queue \subseteq Tasks
  /\ archived \subseteq Tasks
  /\ outbox \in [Requests -> {"none", "pending", "processed"}]
  /\ rows \subseteq Requests
  /\ marking \subseteq Requests
  /\ wpc \in [Workers -> {"idle", "check", "tx", "quota"}]
  /\ wtask \in [Workers -> Tasks \cup {NoTask}]
  /\ logs \in [Requests -> Nat]
  /\ quota \in [Requests -> Nat]
  /\ together \in [Requests -> Nat]
  /\ faults \in 0 .. MaxFaults

Init ==
  /\ pc = [r \in Requests |-> "open"]
  /\ sent = [r \in Requests |-> 0]
  /\ queue = {}
  /\ archived = {}
  /\ outbox = [r \in Requests |-> "none"]
  /\ rows = {}
  /\ marking = {}
  /\ wpc = [w \in Workers |-> "idle"]
  /\ wtask = [w \in Workers |-> NoTask]
  /\ logs = [r \in Requests |-> 0]
  /\ quota = [r \in Requests |-> 0]
  /\ together = [r \in Requests |-> 0]
  /\ faults = 0

-----------------------------------------------------------------------------
Fault(kind) ==
  /\ kind \in Faults
  /\ faults < MaxFaults
  /\ faults' = faults + 1

(* AsynqClient.EnqueueContext of a fresh task for r. *)
Deliver(r) ==
  /\ queue' = queue \cup
                {[req |-> r, copy |-> sent[r] + 1, retried |-> 0]}
  /\ sent' = [sent EXCEPT ![r] = @ + 1]

(* Mutant of Retry: the retry limit is forgotten. *)
RetryForever(T) ==
  /\ queue' = queue \cup {[t EXCEPT !.retried = @ + 1] : t \in T}
  /\ UNCHANGED archived

(* A task that failed, or whose worker died: one retry less, or archived. *)
Retry(T) ==
  /\ queue' = queue \cup
                {[t EXCEPT !.retried = @ + 1] :
                    t \in {u \in T : u.retried < MaxRetry}}
  /\ archived' = archived \cup {t \in T : t.retried >= MaxRetry}

-----------------------------------------------------------------------------
(* Settle and Refund, after the Redis script ran.                          *)

relayVars  == <<rows, marking>>
workerVars == <<wpc, wtask, logs, quota, together>>

(* The request ends and Settle or Refund builds its task. *)
Close(r) ==
  /\ pc[r] = "open"
  /\ pc' = [pc EXCEPT ![r] = "enqueue"]
  /\ UNCHANGED <<sent, queue, archived, outbox, relayVars, workerVars, faults>>

Enqueue(r) ==
  /\ pc[r] = "enqueue"
  /\ Deliver(r)
  /\ pc' = [pc EXCEPT ![r] = "done"]
  /\ UNCHANGED <<archived, outbox, relayVars, workerVars, faults>>

(* asynq refuses the task, or takes it but the answer is lost ("late"). *)
EnqueueFails(r) ==
  /\ pc[r] = "enqueue"
  /\ \/ Fault("enqueue") /\ UNCHANGED <<queue, sent>>
     \/ Fault("late") /\ Deliver(r)
  /\ pc' = [pc EXCEPT ![r] = "outbox"]
  /\ UNCHANGED <<archived, outbox, relayVars, workerVars>>

(* INSERT ... ON CONFLICT (request_id) DO NOTHING. *)
InsertSettlementOutbox(r) ==
  /\ pc[r] = "outbox"
  /\ pc' = [pc EXCEPT ![r] = "done"]
  /\ outbox' = [outbox EXCEPT ![r] = IF @ = "none" THEN "pending" ELSE @]
  /\ UNCHANGED <<sent, queue, archived, relayVars, workerVars, faults>>

(* The insert fails too (Settle logs CRITICAL, Refund says nothing). *)
OutboxFails(r) ==
  /\ pc[r] = "outbox"
  /\ Fault("outbox")
  /\ pc' = [pc EXCEPT ![r] = "lost"]
  /\ UNCHANGED <<sent, queue, archived, outbox, relayVars, workerVars>>

-----------------------------------------------------------------------------
(* drainSettlementOutbox: list, then per row enqueue and mark.             *)

PendingRows == {r \in Requests : outbox[r] = "pending"}

(* Mutant of ListPending: a pass waits for more than one batch of rows. *)
ListPendingLate ==
  /\ rows = {} /\ marking = {}
  /\ Cardinality(PendingRows) > RelayBatch
  /\ \E R \in SUBSET PendingRows : Cardinality(R) = RelayBatch /\ rows' = R
  /\ UNCHANGED <<pc, sent, queue, archived, outbox, marking, workerVars, faults>>

(* ORDER BY created_at LIMIT RelayBatch, the order left open. *)
ListPending ==
  /\ rows = {} /\ marking = {}
  /\ PendingRows # {}
  /\ \E R \in SUBSET PendingRows :
        /\ \/ R = PendingRows /\ Cardinality(R) <= RelayBatch
           \/ Cardinality(R) = RelayBatch
        /\ rows' = R
  /\ UNCHANGED <<pc, sent, queue, archived, outbox, marking, workerVars, faults>>

RelayEnqueue(r) ==
  /\ r \in rows /\ marking = {}
  /\ Deliver(r)
  /\ rows' = rows \ {r}
  /\ marking' = {r}
  /\ UNCHANGED <<pc, archived, outbox, workerVars, faults>>

(* Mutant of RelayEnqueueFails: the loop goes on to the mark. *)
RelayEnqueueFailsMarks(r) ==
  /\ r \in rows /\ marking = {}
  /\ Fault("enqueue")
  /\ rows' = rows \ {r}
  /\ marking' = {r}
  /\ UNCHANGED <<pc, sent, queue, archived, outbox, workerVars>>

(* Re-enqueue fails: attempts is counted (nothing reads it), row kept. *)
RelayEnqueueFails(r) ==
  /\ r \in rows /\ marking = {}
  /\ \/ Fault("enqueue") /\ UNCHANGED <<queue, sent>>
     \/ Fault("late") /\ Deliver(r)
  /\ rows' = rows \ {r}
  /\ UNCHANGED <<pc, archived, outbox, marking, workerVars>>

MarkProcessed(r) ==
  /\ r \in marking
  /\ outbox' = [outbox EXCEPT ![r] = "processed"]
  /\ marking' = {}
  /\ UNCHANGED <<pc, sent, queue, archived, rows, workerVars, faults>>

MarkFails(r) ==
  /\ r \in marking
  /\ Fault("mark")
  /\ marking' = {}
  /\ UNCHANGED <<pc, sent, queue, archived, outbox, rows, workerVars>>

-----------------------------------------------------------------------------
(* HandleRecordBillingLog.                                                 *)

closeVars == <<pc, sent, outbox>>

Release(w) ==
  /\ wpc' = [wpc EXCEPT ![w] = "idle"]
  /\ wtask' = [wtask EXCEPT ![w] = NoTask]

Dequeue(w) ==
  /\ wpc[w] = "idle"
  /\ \E t \in queue :
        /\ queue' = queue \ {t}
        /\ wtask' = [wtask EXCEPT ![w] = t]
  /\ wpc' = [wpc EXCEPT ![w] = "check"]
  /\ UNCHANGED <<closeVars, archived, relayVars, logs, quota, together, faults>>

(* Workers that found no bill of r and have not committed one yet. *)
Billing(r) == {w \in Workers : wpc[w] = "tx" /\ wtask[w].req = r}

BeginTx(w) ==
  LET r == wtask[w].req
      n == Cardinality(Billing(r)) + 1
  IN  /\ wpc' = [wpc EXCEPT ![w] = "tx"]
      /\ together' = [together EXCEPT ![r] = IF n > @ THEN n ELSE @]
      /\ UNCHANGED wtask

(* Mutants of CheckBillingLogExists: no check at all; and a check that,    *)
(* finding the row, goes on to count the quota.                            *)
CheckSkipped(w) ==
  /\ wpc[w] = "check"
  /\ BeginTx(w)
  /\ UNCHANGED <<closeVars, queue, archived, relayVars, logs, quota, faults>>

CheckResumesQuota(w) ==
  /\ wpc[w] = "check"
  /\ IF logs[wtask[w].req] > 0
       THEN wpc' = [wpc EXCEPT ![w] = "quota"] /\ UNCHANGED <<wtask, together>>
       ELSE BeginTx(w)
  /\ UNCHANGED <<closeVars, queue, archived, relayVars, logs, quota, faults>>

(* CheckBillingLogExists, a plain SELECT: only committed rows are seen and *)
(* no lock is taken; a row found ends the task as done.                    *)
CheckBillingLogExists(w) ==
  /\ wpc[w] = "check"
  /\ IF logs[wtask[w].req] > 0 THEN Release(w) /\ UNCHANGED together ELSE BeginTx(w)
  /\ UNCHANGED <<closeVars, queue, archived, relayVars, logs, quota, faults>>

(* The three UPDATEs, CreateBillingLog and COMMIT of the transaction. *)
CommitTx(w) ==
  /\ wpc[w] = "tx"
  /\ logs' = [logs EXCEPT ![wtask[w].req] = @ + 1]
  /\ wpc' = [wpc EXCEPT ![w] = "quota"]
  /\ UNCHANGED <<closeVars, queue, archived, relayVars, wtask, quota, together, faults>>

(* A query or the COMMIT errors and the handler returns the error.  A      *)
(* COMMIT whose answer is lost has taken effect all the same.              *)
TxFails(w) ==
  /\ wpc[w] \in {"check", "tx"}
  /\ Fault("db")
  /\ \/ UNCHANGED logs
     \/ /\ wpc[w] = "tx"
        /\ logs' = [logs EXCEPT ![wtask[w].req] = @ + 1]
  /\ Retry({wtask[w]})
  /\ Release(w)
  /\ UNCHANGED <<closeVars, relayVars, quota, together>>

IncrementAPIKeyQuotaUsed(w) ==
  /\ wpc[w] = "quota"
  /\ quota' = [quota EXCEPT ![wtask[w].req] = @ + 1]
  /\ Release(w)
  /\ UNCHANGED <<closeVars, queue, archived, relayVars, logs, together, faults>>

(* The increment fails: logged, never retried. *)
QuotaFails(w) ==
  /\ wpc[w] = "quota"
  /\ Fault("db")
  /\ Release(w)
  /\ UNCHANGED <<closeVars, queue, archived, relayVars, logs, quota, together>>

-----------------------------------------------------------------------------
(* The process dies and is started again.  Requests in progress are gone;  *)
(* asynq hands the workers' tasks out again once their lease is over.      *)
Crash ==
  /\ Fault("crash")
  /\ pc' = [r \in Requests |-> IF pc[r] \in InSettle THEN "crashed" ELSE pc[r]]
  /\ rows' = {}
  /\ marking' = {}
  /\ Retry({wtask[w] : w \in {v \in Workers : wpc[v] # "idle"}})
  /\ wpc' = [w \in Workers |-> "idle"]
  /\ wtask' = [w \in Workers |-> NoTask]
  /\ UNCHANGED <<sent, outbox, logs, quota, together>>

-----------------------------------------------------------------------------
CloseStep(r) ==
  \/ Close(r) \/ Enqueue(r) \/ EnqueueFails(r)
  \/ InsertSettlementOutbox(r) \/ OutboxFails(r)

RelayStep(r) ==
  RelayEnqueue(r) \/ RelayEnqueueFails(r) \/ MarkProcessed(r) \/ MarkFails(r)

WorkerStep(w) ==
  \/ Dequeue(w) \/ CheckBillingLogExists(w) \/ CommitTx(w) \/ TxFails(w)
  \/ IncrementAPIKeyQuotaUsed(w) \/ QuotaFails(w)

Next ==
  \/ \E r \in Requests : CloseStep(r) \/ RelayStep(r)
  \/ ListPending
  \/ \E w \in Workers : WorkerStep(w)
  \/ Crash

Spec == Init /\ [][Next]_vars

(* The goroutine of a request runs on by itself, the relay's ticker fires  *)
(* for ever (SafeGo restarts it after a panic) and asynq serves its queue. *)
Fairness ==
  /\ \A r \in Requests :
       WF_vars(Enqueue(r) \/ InsertSettlementOutbox(r))
  /\ WF_vars(ListPending)
  /\ \A r \in Requests : WF_vars(RelayEnqueue(r) \/ MarkProcessed(r))
  /\ \A w \in Workers :
       WF_vars(\/ Dequeue(w) \/ CheckBillingLogExists(w)
               \/ CommitTx(w) \/ IncrementAPIKeyQuotaUsed(w))

FairSpec == Spec /\ Fairness

-----------------------------------------------------------------------------
(* Properties.                                                             *)

(* The tasks asynq still holds: waiting, or with a worker. *)
Live == queue \cup {wtask[w] : w \in {v \in Workers : wpc[v] # "idle"}}

(* Something is still going to bring r to a worker. *)
Deliverable(r) == outbox[r] = "pending" \/ \E t \in Live : t.req = r

(* A request is debited in Postgres at most once, across retries, crashes  *)
(* and redeliveries: what the exists-check of HandleRecordBillingLog is    *)
(* for (worker/billing.go, outbox_relay.go).                               *)
BilledAtMostOnce == \A r \in Requests : logs[r] <= 1

(* A request is debited no more often than workers were between the exists- *)
(* check and the COMMIT of it at the same time: redeliveries, retries, lost *)
(* answers and crashes debit nothing twice by themselves, only workers that *)
(* overlap do, and no more often than there were of them.                   *)
BilledOnlyTogether == \A r \in Requests : logs[r] <= together[r]

(* No two workers have been at the bill of one request at the same time. *)
Alone == \A r \in Requests : together[r] <= 1

(* quota_used of the API key grows only for a cost that is in the billing  *)
(* log, and at most once per log row.                                      *)
QuotaBacked == \A r \in Requests : quota[r] <= logs[r]

(* A settlement that Settle or Refund reported as handed over is billed,   *)
(* or is still on its way (queue, worker or pending outbox row), or asynq  *)
(* archived it: it never vanishes between the outbox, the relay's mark and *)
(* the queue.                                                              *)
NoSilentLoss ==
  \A r \in Requests :
    pc[r] = "done" =>
      logs[r] > 0 \/ Deliverable(r) \/ \E t \in archived : t.req = r

(* A settlement handed over does not lie about in the outbox or in the     *)
(* queue for ever: it is billed in the end, or asynq has used up the       *)
(* retries of one of its tasks and shows it to the operator as archived.   *)
EventuallyBilled ==
  \A r \in Requests :
    (pc[r] = "done") ~> (logs[r] > 0 \/ \E t \in archived : t.req = r)

(* The refinement mapping to BillOnce. *)
stageOf ==
  [r \in Requests |->
     CASE logs[r] > 0 -> "billed"
       [] logs[r] = 0 /\ (pc[r] \in {"enqueue", "outbox"} \/ Deliverable(r)) -> "owed"
       [] logs[r] = 0 /\ pc[r] = "open" /\ ~Deliverable(r) -> "open"
       [] OTHER -> "lost"]

Abstract == INSTANCE BillOnce WITH stage <- stageOf, charged <- logs

(* The pipeline implements BillOnce: closed once, charged at most once and *)
(* only after it was closed, never charged after it was given up.          *)
ImplementsBillOnce == Abstract!Spec
=============================================================================
