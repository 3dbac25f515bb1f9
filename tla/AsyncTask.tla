----------------------------- MODULE AsyncTask -----------------------------
(***************************************************************************)
(* One asynchronous video task: the request that creates it, the polls and *)
(* cancels that follow, the task at the upstream, and the pre-deduction    *)
(* that the middleware handed over (Hold).  The row of async_tasks is the  *)
(* only thing the handlers share; none of them locks it, and each writes   *)
(* what it computed from its own earlier read.                             *)
(*                                                                         *)
(* Every query, Redis call and upstream call runs on the context of the    *)
(* HTTP request: a client that hangs up makes the rest of them fail.       *)
(***************************************************************************)
EXTENDS Pools, FiniteSets

CONSTANTS FollowUps, \* requests to GET /v1/tasks/id or POST .../cancel
          Hold,      \* what the pre-deduction took from each pool
          Words,     \* Words[s]: how upstreams spell the state s
          MaxFaults  \* failures of a query or call in one behaviour

Creator == "create"

Handlers == FollowUps \cup {Creator}

UpStates == {"queued", "running", "succeeded", "failed", "canceled"}

ASSUME AsyncAssumption ==
  /\ Creator \notin FollowUps
  /\ Hold \in Deductions /\ Total(Hold) > 0
  /\ DOMAIN Words = UpStates
  /\ MaxFaults \in Nat

VARIABLES row,       \* the async_tasks row, NoRow before the INSERT
          up,        \* the task at the upstream, "none" before it is accepted
          pc,        \* pc[h]: where handler h is
          task,      \* task[h]: the task struct in the hands of h
          sub,       \* sub[h]: the sub_deducted h read back (subOf)
          gone,      \* handlers whose client hung up
          submitted, \* did MarkAsyncTaskSubmitted come back in order?
          settles,   \* calls of Settle
          refunds,   \* calls of Refund
          purse,     \* what the refund script gave back to each pool
          handed,    \* closings that reached the queue or the outbox
          cancels,   \* handlers that are cancels
          overlapped,\* history: have two handlers ever run at once?
          faults     \* failures so far

rowVars   == <<row, up>>
closeVars == <<settles, refunds, purse, handed>>
histVars  == <<submitted, cancels, overlapped>>
vars == <<rowVars, pc, task, sub, gone, closeVars, histVars, faults>>

NoRow == [status |-> "none", known |-> FALSE, cost |-> 0, sub |-> 0]

Statuses == UpStates \cup {"other"}

Rows == [status : Statuses \cup {"none"}, known : BOOLEAN,
         cost : {0, Total(Hold)}, sub : {0, Hold["sub"]}]

TypeOK ==
  /\ row \in Rows
  /\ up \in UpStates \cup {"none"}
  /\ pc \in [Handlers -> {"idle", "insert", "saveSub", "channel", "submit",
                          "markSubmitted", "markFailed", "lookup", "upstream",
                          "markPolled", "markCanceled", "finalize", "refund",
                          "script", "enqueue", "outbox", "markCost", "done",
                          "crashed"}]
  /\ task \in [Handlers -> Rows]
  /\ sub \in [Handlers -> {0, Hold["sub"]}]
  /\ gone \subseteq Handlers /\ cancels \subseteq FollowUps
  /\ submitted \in BOOLEAN /\ overlapped \in BOOLEAN
  /\ settles \in Nat /\ refunds \in Nat
  /\ purse \in [PoolNames -> Nat]
  /\ handed \subseteq {"settle", "refund"}
  /\ faults \in 0 .. MaxFaults

Init ==
  /\ row = NoRow /\ up = "none"
  /\ pc = [h \in Handlers |-> IF h = Creator THEN "insert" ELSE "idle"]
  /\ task = [h \in Handlers |-> NoRow]
  /\ sub = [h \in Handlers |-> 0]
  /\ gone = {} /\ cancels = {}
  /\ submitted = FALSE /\ overlapped = FALSE
  /\ settles = 0 /\ refunds = 0
  /\ purse = NoDeduction
  /\ handed = {}
  /\ faults = 0

-----------------------------------------------------------------------------
Goto(h, where) == pc' = [pc EXCEPT ![h] = where]

Busy(h) == pc[h] \notin {"idle", "done", "crashed"}

(* A call of h comes back in order, or with an error. *)
Ok(h) == h \notin gone /\ UNCHANGED faults

Err(h) ==
  \/ h \in gone /\ UNCHANGED faults
  \/ faults < MaxFaults /\ faults' = faults + 1

(* The client has the task id: it read the 202 of the creator. *)
Told == submitted /\ pc[Creator] = "done" /\ Creator \notin gone

Took(h, struct) == task' = [task EXCEPT ![h] = struct]

isTerminalTaskStatus(status) == status \in {"succeeded", "failed", "canceled"}

(* The statuses the code tells apart; every other word stays as it is and  *)
(* never ends a task.                                                      *)
NormalizeTaskStatus(word) ==
  CASE word \in {"", "submitted", "pending"} -> "queued"
    [] word \in {"processing", "in_progress"} -> "running"
    [] word \in {"completed", "success"} -> "succeeded"
    [] word = "cancelled" -> "canceled"
    [] word \in UpStates -> word
    [] OTHER -> "other"

-----------------------------------------------------------------------------
(* The statements on async_tasks.                                          *)

getAsyncTaskByIDAndUser(h) == Took(h, row)

NewTask == [NoRow EXCEPT !.status = "queued"]

(* Mutant of SubDeducted: the column is not written. *)
SubForgotten(r) == r

SubDeducted(r) == [r EXCEPT !.sub = Hold["sub"]]

MarkedSubmitted(r, t) == [r EXCEPT !.status = t.status, !.known = t.known]

(* UPDATE ... WHERE id = $1: whatever the status was, and the cost too. *)
MarkedStatus(r, status, cost) == [r EXCEPT !.status = status, !.cost = cost]

(* An UPDATE of h: done, with the row RETURNed; or an error, which the     *)
(* database may have met before or after it took effect.                   *)
Update(h, new, next, failed) ==
  \/ Ok(h) /\ row' = new /\ Took(h, new) /\ Goto(h, next)
  \/ Err(h) /\ row' \in {row, new} /\ UNCHANGED task /\ Goto(h, failed)

-----------------------------------------------------------------------------
(* CreateVideoGenerationTask.                                              *)

(* Without a row there is no task: 500, and the hold is not refunded. *)
CreateAsyncTask ==
  /\ pc[Creator] = "insert"
  /\ Update(Creator, NewTask,
            IF Hold["sub"] > 0 THEN "saveSub" ELSE "channel", "done")
  /\ UNCHANGED <<up, sub, gone, closeVars, histVars>>

(* A failure is only logged. *)
SetAsyncTaskSubDeducted ==
  /\ pc[Creator] = "saveSub"
  /\ \/ Ok(Creator) /\ row' = SubDeducted(row)
     \/ Err(Creator) /\ row' \in {row, SubDeducted(row)}
  /\ Goto(Creator, "channel")
  /\ UNCHANGED <<up, task, sub, gone, closeVars, histVars>>

(* GetNextChannelForCapabilities finds a channel whose driver can do it. *)
PickChannel ==
  /\ pc[Creator] = "channel"
  /\ Goto(Creator, "submit") \/ Goto(Creator, "markFailed")
  /\ UNCHANGED <<rowVars, task, sub, gone, closeVars, histVars, faults>>

(* Accepted, in any state and with or without an id; refused (400 and up); *)
(* or an error, in which case the upstream may have accepted it.           *)
SubmitTask ==
  /\ pc[Creator] = "submit"
  /\ \/ /\ Ok(Creator)
        /\ up' \in UpStates
        /\ \E word \in Words[up'], known \in BOOLEAN :
             Took(Creator, [task[Creator] EXCEPT
                              !.status = NormalizeTaskStatus(word),
                              !.known = known])
        /\ Goto(Creator, "markSubmitted")
     \/ /\ \/ Ok(Creator) /\ UNCHANGED up
           \/ Err(Creator) /\ up' \in {up, "queued"}
        /\ UNCHANGED task
        /\ Goto(Creator, "markFailed")
  /\ UNCHANGED <<row, sub, gone, closeVars, histVars>>

(* Mutant of MarkAsyncTaskSubmitted: answered without a look at the status. *)
MarkSubmittedOnly ==
  /\ pc[Creator] = "markSubmitted"
  /\ Ok(Creator) /\ row' = MarkedSubmitted(row, task[Creator])
  /\ Goto(Creator, "done") /\ submitted' = TRUE /\ UNCHANGED task
  /\ UNCHANGED <<up, sub, gone, closeVars, cancels, overlapped>>

(* 202 with the id, after the closing if the task is finished already; an  *)
(* error is a 500 and, again, no refund.                                   *)
MarkAsyncTaskSubmitted ==
  /\ pc[Creator] = "markSubmitted"
  /\ LET new == MarkedSubmitted(row, task[Creator]) IN
     \/ /\ Ok(Creator) /\ row' = new /\ Took(Creator, new)
        /\ submitted' = TRUE
        /\ Goto(Creator, IF isTerminalTaskStatus(new.status)
                           THEN "finalize" ELSE "done")
     \/ /\ Err(Creator) /\ row' \in {row, new}
        /\ Goto(Creator, "done") /\ UNCHANGED <<task, submitted>>
  /\ UNCHANGED <<up, sub, gone, closeVars, cancels, overlapped>>

(* failTaskAndRefund: the refund does not depend on the mark. *)
failTaskAndRefund ==
  /\ pc[Creator] = "markFailed"
  /\ Update(Creator, MarkedStatus(row, "failed", 0), "refund", "refund")
  /\ UNCHANGED <<up, sub, gone, closeVars, histVars>>

-----------------------------------------------------------------------------
(* GetTask and CancelTask.                                                 *)

(* Mutant of GetAsyncTaskByIDAndUser: the status is not looked at. *)
ReadTaskUnchecked(h) ==
  /\ pc[h] = "idle" /\ Told
  /\ cancels' \in {cancels, cancels \cup {h}}
  /\ overlapped' = (overlapped \/ \E g \in Handlers : Busy(g))
  /\ \/ /\ Ok(h)
        /\ getAsyncTaskByIDAndUser(h)
        /\ Goto(h, IF row.known THEN "lookup"
                   ELSE IF h \in cancels' THEN "markCanceled" ELSE "done")
     \/ Err(h) /\ Goto(h, "done") /\ UNCHANGED task
  /\ UNCHANGED <<rowVars, sub, gone, closeVars, submitted>>

(* The row as it is now; a finished task is only shown.  Without the ids   *)
(* of the upstream there is nobody to ask.                                 *)
GetAsyncTaskByIDAndUser(h) ==
  /\ pc[h] = "idle" /\ Told
  /\ cancels' \in {cancels, cancels \cup {h}}
  /\ overlapped' = (overlapped \/ \E g \in Handlers : Busy(g))
  /\ \/ /\ Ok(h)
        /\ getAsyncTaskByIDAndUser(h)
        /\ Goto(h, IF isTerminalTaskStatus(row.status) THEN "done"
                   ELSE IF row.known THEN "lookup"
                   ELSE IF h \in cancels' THEN "markCanceled" ELSE "done")
     \/ Err(h) /\ Goto(h, "done") /\ UNCHANGED task
  /\ UNCHANGED <<rowVars, sub, gone, closeVars, submitted>>

(* A channel that cannot do it any more ends the request; one that cannot  *)
(* be read ends a poll, while a cancel goes on without the upstream.       *)
GetChannelByID(h) ==
  /\ pc[h] = "lookup"
  /\ \/ Ok(h) /\ (Goto(h, "upstream") \/ Goto(h, "done"))
     \/ Err(h) /\ Goto(h, IF h \in cancels THEN "markCanceled" ELSE "done")
  /\ UNCHANGED <<rowVars, task, sub, gone, closeVars, histVars>>

(* The status of the task at the upstream, or a failure, which ends the    *)
(* poll with what the row said.                                            *)
PollUpstream(h) ==
  /\ pc[h] = "upstream" /\ h \notin cancels
  /\ \/ /\ Ok(h)
        /\ \E word \in Words[up] :
             Took(h, [task[h] EXCEPT !.status = NormalizeTaskStatus(word)])
        /\ Goto(h, "markPolled")
     \/ (Ok(h) \/ Err(h)) /\ Goto(h, "done") /\ UNCHANGED task
  /\ UNCHANGED <<rowVars, sub, gone, closeVars, histVars>>

(* The upstream agrees (and a finished task stays as it is), or not: 502. *)
CancelUpstream(h) ==
  /\ pc[h] = "upstream" /\ h \in cancels
  /\ \/ Ok(h) /\ Goto(h, "markCanceled")
             /\ up' = IF isTerminalTaskStatus(up) THEN up ELSE "canceled"
     \/ Ok(h) /\ Goto(h, "done") /\ UNCHANGED up
     \/ Err(h) /\ Goto(h, "done")
               /\ up' \in {up, IF isTerminalTaskStatus(up) THEN up ELSE "canceled"}
  /\ UNCHANGED <<row, task, sub, gone, closeVars, histVars>>

(* refreshTaskStatus writes what the upstream said, over whatever is there *)
(* by now, with the cost of its own first read.                            *)
MarkPolled(h) ==
  /\ pc[h] = "markPolled"
  /\ Update(h, MarkedStatus(row, task[h].status, task[h].cost),
            IF isTerminalTaskStatus(task[h].status) THEN "finalize" ELSE "done",
            "done")
  /\ UNCHANGED <<up, sub, gone, closeVars, histVars>>

(* CancelTask likewise; the refund only if no cost was charged. *)
MarkCanceled(h) ==
  /\ pc[h] = "markCanceled"
  /\ Update(h, MarkedStatus(row, "canceled", task[h].cost),
            IF task[h].cost = 0 THEN "refund" ELSE "done", "done")
  /\ UNCHANGED <<up, sub, gone, closeVars, histVars>>

-----------------------------------------------------------------------------
(* finalizeTerminalTask, Settle and Refund.                                *)

(* Mutant of Settling: every end but a cancel is paid for. *)
SettlingAnyEnd(h) == task[h].status \in {"succeeded", "failed"}

Settling(h) == task[h].status = "succeeded"

(* A finished task is settled for the whole hold or refunded (a struct      *)
(* that carries a cost is left alone).  The share of the sub pool is read   *)
(* back first; an error counts as none.  Settle has no difference to give   *)
(* back: it goes on to the queue.                                           *)
subOf(h) ==
  /\ pc[h] \in {"finalize", "refund"}
  /\ IF task[h].cost > 0
       THEN Goto(h, "done") /\ UNCHANGED <<sub, settles, refunds, faults>>
       ELSE /\ \/ Ok(h) /\ sub' = [sub EXCEPT ![h] = row.sub]
               \/ Err(h) /\ sub' = [sub EXCEPT ![h] = 0]
            /\ IF pc[h] = "finalize" /\ Settling(h)
                 THEN /\ settles' = settles + 1 /\ UNCHANGED refunds
                      /\ Goto(h, "enqueue")
                 ELSE /\ refunds' = refunds + 1 /\ UNCHANGED settles
                      /\ Goto(h, "script")
  /\ UNCHANGED <<rowVars, task, gone, purse, handed, histVars>>

Given(h) == RefundGive([Hold EXCEPT !["sub"] = sub[h]], Total(Hold))

Credited(h) == [p \in PoolNames |-> purse[p] + Given(h)[p]]

(* refund.lua; its error is logged and the rest goes on. *)
RefundScript(h) ==
  /\ pc[h] = "script"
  /\ \/ Ok(h) /\ purse' = Credited(h)
     \/ Err(h) /\ purse' \in {purse, Credited(h)}
  /\ Goto(h, "enqueue")
  /\ UNCHANGED <<rowVars, task, sub, gone, settles, refunds, handed, histVars>>

Kind(h) == IF Settling(h) THEN "settle" ELSE "refund"

(* What follows a closing that was handed over: a settled task gets its cost. *)
AfterClosing(h) == IF Settling(h) THEN "markCost" ELSE "done"

EnqueueBillingLog(h) ==
  /\ pc[h] = "enqueue"
  /\ \/ Ok(h) /\ handed' = handed \cup {Kind(h)} /\ Goto(h, AfterClosing(h))
     \/ /\ Err(h)
        /\ handed' \in {handed, handed \cup {Kind(h)}}
        /\ Goto(h, "outbox")
  /\ UNCHANGED <<rowVars, task, sub, gone, settles, refunds, purse, histVars>>

InsertSettlementOutbox(h) ==
  /\ pc[h] = "outbox"
  /\ \/ Ok(h) /\ handed' = handed \cup {Kind(h)} /\ Goto(h, AfterClosing(h))
     \/ /\ Err(h)
        /\ handed' \in {handed, handed \cup {Kind(h)}}
        /\ Goto(h, "done")
  /\ UNCHANGED <<rowVars, task, sub, gone, settles, refunds, purse, histVars>>

MarkCost(h) ==
  /\ pc[h] = "markCost"
  /\ Update(h, MarkedStatus(row, task[h].status, Total(Hold)), "done", "done")
  /\ UNCHANGED <<up, sub, gone, closeVars, histVars>>

-----------------------------------------------------------------------------
(* The world around.                                                       *)

(* The task makes progress at the upstream. *)
UpstreamWorks ==
  /\ \/ up = "queued" /\ up' = "running"
     \/ up = "running" /\ up' \in {"succeeded", "failed"}
  /\ UNCHANGED <<row, pc, task, sub, gone, closeVars, histVars, faults>>

(* The client of h hangs up, and its context is cancelled. *)
HangUp(h) ==
  /\ Busy(h) /\ h \notin gone
  /\ gone' = gone \cup {h}
  /\ UNCHANGED <<rowVars, pc, task, sub, closeVars, histVars, faults>>

(* The process dies with all its handlers. *)
Crash ==
  /\ \E h \in Handlers : Busy(h)
  /\ faults < MaxFaults /\ faults' = faults + 1
  /\ pc' = [h \in Handlers |-> IF Busy(h) THEN "crashed" ELSE pc[h]]
  /\ UNCHANGED <<rowVars, task, sub, gone, closeVars, histVars>>

HandlerStep(h) ==
  \/ GetChannelByID(h) \/ PollUpstream(h) \/ CancelUpstream(h)
  \/ MarkPolled(h) \/ MarkCanceled(h)
  \/ subOf(h) \/ RefundScript(h) \/ EnqueueBillingLog(h)
  \/ InsertSettlementOutbox(h) \/ MarkCost(h)

CreatorStep ==
  \/ CreateAsyncTask \/ SetAsyncTaskSubDeducted \/ PickChannel \/ SubmitTask
  \/ MarkAsyncTaskSubmitted \/ failTaskAndRefund

Next ==
  \/ CreatorStep
  \/ \E h \in Handlers : HandlerStep(h) \/ HangUp(h)
  \/ \E h \in FollowUps : GetAsyncTaskByIDAndUser(h)
  \/ UpstreamWorks
  \/ Crash

Spec == Init /\ [][Next]_vars

(* A handler goes on by itself; whether a client polls is up to the client, *)
(* and whether an upstream works is up to the upstream.                     *)
FairSpec ==
  Spec /\ WF_vars(CreatorStep) /\ \A h \in Handlers : WF_vars(HandlerStep(h))

-----------------------------------------------------------------------------
(* Properties.                                                             *)

(* A call failed, the process died or a client hung up. *)
Disturbed == faults > 0 \/ gone # {}

(* As long as no two handlers of the task have run at once, its hold is    *)
(* settled or refunded at most once, whatever failed on the way and        *)
(* however often the client polls or cancels: the mark in async_tasks      *)
(* comes before the closing.  (Two handlers at once may both close it.)    *)
ClosedOnceIfAlone == ~overlapped => settles + refunds <= 1

(* Likewise a finished task is never written over: its status stands. *)
FinishedStands ==
  [][isTerminalTaskStatus(row.status) /\ ~overlapped
       => row'.status = row.status]_vars

(* The client is charged only for a task that succeeded, and one that      *)
(* succeeded is given away only to a cancel or after a failure.            *)
PaidForResult ==
  /\ settles > 0 => up = "succeeded"
  /\ refunds > 0 /\ up = "succeeded" => cancels # {} \/ Disturbed

(* A refund puts every share back into the pool it came from: never more   *)
(* than was taken, and nothing is missing unless something failed.         *)
BackToItsPools ==
  ~overlapped =>
    /\ \A p \in PoolNames : purse[p] <= Hold[p]
    /\ "refund" \in handed /\ ~Disturbed => purse = Hold

(* A task that reached its end, or never got to the upstream, has its hold *)
(* settled or refunded in the end, unless something failed.                *)
FinishedIsClosed ==
  (isTerminalTaskStatus(row.status) \/ pc[Creator] = "markFailed")
     ~> (handed # {} \/ Disturbed)
=============================================================================
