------------------------------ MODULE Gateway ------------------------------
(***************************************************************************)
(* The life of a billed request, from the API key to its one settlement:   *)
(* AuthAndPreDeductMiddleware, RPMAndTPMMiddleware,                        *)
(* ModelConcurrencyMiddleware and the reverse proxy with its TallyReader.  *)
(*                                                                         *)
(* The balance and the limit counters are modules of their own            *)
(* (BalanceCache, Access, ModelConcurrency, Failover): here their          *)
(* answers are open.  What stays is who closes the pre-deduction (Settle   *)
(* or Refund), how often, and the quota of the API key the requests share. *)
(***************************************************************************)
EXTENDS Naturals

CONSTANTS Requests,   \* requests with one API key
          Upgrades,   \* those that may carry an Upgrade header
          Cost,       \* estimated cost of each
          QuotaLimit, \* quota_limit of the key, 0 for none
          MaxTokens,  \* tokens a stream may carry
          MaxWorkers, \* workers that may bill one request at a time
          Crashes     \* BOOLEAN: may the process die?

ASSUME GatewayAssumption ==
  /\ Upgrades \subseteq Requests
  /\ Cost \in Nat \ {0}
  /\ QuotaLimit \in Nat
  /\ MaxTokens \in Nat
  /\ MaxWorkers \in Nat \ {0}
  /\ Crashes \in BOOLEAN

VARIABLES pc,      \* pc[r]: where the goroutine of r is
          seen,    \* seen[r]: quota_used as read with the API key
          missed,  \* history: requests under way, not counted in seen[r]
          held,    \* requests whose pre-deduction was taken
          slot,    \* requests that hold a place of their model
          tokens,  \* tokens[r]: tokens counted in the answer so far
          once,    \* requests whose completeOnce has fired
          closes,  \* closes[r]: calls of Settle and Refund
          charge,  \* charge[r]: the actual cost it was closed with
          free,    \* requests whose prices could not be read any more
          txs,     \* txs[r]: workers about to commit a bill of r
          bills,   \* bills[r]: bills of r in Postgres
          incs,    \* incs[r]: bills whose charge is not in quota_used yet
          used,    \* quota_used of the key in Postgres
          spent,   \* history: the bills of the key
          lost,    \* history: what will never be in quota_used
          extra,   \* history: the bills beyond the first of a request
          switched \* history: requests the upstream answered with 101

workVars == <<pc, seen, missed, held, slot, tokens, once, closes, charge, free>>
billVars == <<txs, bills, incs, used, spent, lost, extra>>
vars == <<workVars, billVars, switched>>

Limits == {"rpm", "tpm", "model_rpm"}

PCs == Limits \cup {"start", "prededuct", "slot", "handler", "upstream",
                    "stream", "close", "copy", "switch", "done", "rejected", "crashed"}

TypeOK ==
  /\ pc \in [Requests -> PCs]
  /\ seen \in [Requests -> Nat]
  /\ missed \in [Requests -> SUBSET Requests]
  /\ held \subseteq Requests
  /\ slot \subseteq held
  /\ tokens \in [Requests -> 0 .. MaxTokens]
  /\ once \subseteq held
  /\ closes \in [Requests -> Nat]
  /\ charge \in [Requests -> 0 .. MaxTokens]
  /\ free \subseteq held
  /\ txs \in [Requests -> Nat] /\ bills \in [Requests -> Nat]
  /\ incs \in [Requests -> Nat]
  /\ used \in Nat /\ spent \in Nat /\ lost \in Nat /\ extra \in Nat
  /\ switched \subseteq held

Init ==
  /\ pc = [r \in Requests |-> "start"]
  /\ seen = [r \in Requests |-> 0]
  /\ missed = [r \in Requests |-> {}]
  /\ held = {}
  /\ slot = {}
  /\ tokens = [r \in Requests |-> 0]
  /\ once = {}
  /\ closes = [r \in Requests |-> 0]
  /\ charge = [r \in Requests |-> 0]
  /\ free = {}
  /\ txs = [r \in Requests |-> 0]
  /\ bills = [r \in Requests |-> 0]
  /\ incs = [r \in Requests |-> 0]
  /\ used = 0 /\ spent = 0 /\ lost = 0 /\ extra = 0
  /\ switched = {}

-----------------------------------------------------------------------------
Goto(r, where) == pc' = [pc EXCEPT ![r] = where]

(* Settle for a cost, or Refund (a cost of nothing). *)
CloseWith(r, cost) ==
  /\ closes' = [closes EXCEPT ![r] = @ + 1]
  /\ charge' = [charge EXCEPT ![r] = cost]

Refund(r) == CloseWith(r, 0)

KeepOpen == UNCHANGED <<closes, charge>>

(* The handler returns, or panics: the deferred release() runs. *)
Leave(r) == Goto(r, "done") /\ slot' = slot \ {r}

-----------------------------------------------------------------------------
(* AuthAndPreDeductMiddleware.                                             *)

Billed == {r \in Requests : bills[r] > 0}

(* Admitted or about to be, and not all there will be of it is counted. *)
UnderWay(q) ==
  /\ pc[q] \notin {"start", "rejected"}
  /\ bills[q] = 0 \/ txs[q] > 0 \/ incs[q] > 0

(* The API key is read, and with it the quota used so far. *)
ReadAPIKey(r) ==
  /\ pc[r] = "start"
  /\ seen' = [seen EXCEPT ![r] = used]
  /\ missed' = [missed EXCEPT ![r] = {q \in Requests : UnderWay(q)}]
  /\ Goto(r, "prededuct")
  /\ UNCHANGED <<held, slot, tokens, once, closes, charge, free, billVars, switched>>

(* Mutant of QuotaExceeded: the estimate is left out. *)
QuotaExceededUsed(r) == QuotaLimit > 0 /\ seen[r] > QuotaLimit

QuotaExceeded(r) == QuotaLimit > 0 /\ seen[r] + Cost > QuotaLimit

(* The quota of the key and then the balance decide; every refusal before   *)
(* (unknown model, wrong modality, bad body) is a refusal here.             *)
PreDeduct(r) ==
  /\ pc[r] = "prededuct"
  /\ \/ Goto(r, "rejected") /\ UNCHANGED held
     \/ ~QuotaExceeded(r) /\ Goto(r, "rpm") /\ held' = held \cup {r}
  /\ UNCHANGED <<seen, missed, slot, tokens, once, closes, charge, free, billVars, switched>>

-----------------------------------------------------------------------------
(* RPMAndTPMMiddleware and ModelConcurrencyMiddleware.                     *)

AfterLimit(l) ==
  IF l = "rpm" THEN "tpm" ELSE IF l = "tpm" THEN "model_rpm" ELSE "slot"

(* Under the limit, or Redis does not answer (the request is let through); *)
(* over it, refund and 429.                                                *)
CheckRateLimit(r) ==
  /\ pc[r] \in Limits
  /\ \/ Goto(r, AfterLimit(pc[r])) /\ KeepOpen
     \/ Goto(r, "done") /\ Refund(r)
  /\ UNCHANGED <<seen, missed, held, slot, tokens, once, free, billVars, switched>>

(* A place is taken, or Redis errs and none is needed; with no place left,  *)
(* or the model gone by now, refund.                                        *)
AcquireSlot(r) ==
  /\ pc[r] = "slot"
  /\ \/ Goto(r, "handler") /\ slot' \in {slot, slot \cup {r}} /\ KeepOpen
     \/ Goto(r, "done") /\ Refund(r) /\ UNCHANGED slot
  /\ UNCHANGED <<seen, missed, held, tokens, once, free, billVars, switched>>

-----------------------------------------------------------------------------
(* The handler mounted behind them.                                        *)

(* 501 for a protocol upgrade; nothing is refunded. *)
RejectUpgrade(r) ==
  /\ pc[r] = "handler" /\ r \in Upgrades
  /\ Leave(r)
  /\ UNCHANGED <<seen, missed, held, tokens, once, closes, charge, free, billVars, switched>>

Forward(r) ==
  /\ pc[r] = "handler"
  /\ Goto(r, "upstream")
  /\ UNCHANGED <<seen, missed, held, slot, tokens, once, closes, charge, free, billVars, switched>>

(* Mutant of RoundTripFails: the error handler only answers. *)
RoundTripFailsUnrefunded(r) ==
  /\ pc[r] = "upstream"
  /\ Leave(r)
  /\ UNCHANGED <<seen, missed, held, tokens, once, closes, charge, free, billVars, switched>>

(* RoundTrip returns an error: ErrorHandler refunds. *)
RoundTripFails(r) ==
  /\ pc[r] = "upstream"
  /\ Refund(r)
  /\ Leave(r)
  /\ UNCHANGED <<seen, missed, held, tokens, once, free, billVars, switched>>

(* modifyResponse of a status other than 200. *)
UpstreamRefuses(r) ==
  /\ pc[r] = "upstream"
  /\ Refund(r)
  /\ Goto(r, "copy")
  /\ UNCHANGED <<seen, missed, held, slot, tokens, once, free, billVars, switched>>

(* A 101 is refunded by modifyResponse like any other status but 200 ...  *)
UpstreamSwitches(r) ==
  /\ pc[r] = "upstream"
  /\ Refund(r)
  /\ Goto(r, "switch")
  /\ switched' = switched \cup {r}
  /\ UNCHANGED <<seen, missed, held, slot, tokens, once, free, billVars>>

(* ... and goes to the upgrade code of the standard proxy.  The request     *)
(* asked for no upgrade, so that ends in ErrorHandler, which refunds again  *)
(* (but not if the 101 names no protocol and its body could not be read).   *)
handleUpgradeResponse(r) ==
  /\ pc[r] = "switch"
  /\ Refund(r) \/ KeepOpen
  /\ Leave(r)
  /\ UNCHANGED <<seen, missed, held, tokens, once, free, billVars, switched>>

(* GetModel in modifyResponse: if it errs, every price is zero. *)
ReadPrices(r) == free' \in {free, free \cup {r}}

(* What onComplete settles for a usage of t, given who pays nothing. *)
ActualCost(r, t, unpriced) == IF r \in unpriced THEN 0 ELSE t

(* modifyResponse of a plain 200: settled for the usage in the body, or     *)
(* refunded if the body cannot be read to its end.                          *)
UpstreamBody(r) ==
  /\ pc[r] = "upstream"
  /\ ReadPrices(r)
  /\ \/ \E t \in 0 .. MaxTokens :
          /\ tokens' = [tokens EXCEPT ![r] = t]
          /\ CloseWith(r, ActualCost(r, t, free'))
     \/ Refund(r) /\ UNCHANGED tokens
  /\ Goto(r, "copy")
  /\ UNCHANGED <<seen, missed, held, slot, once, billVars, switched>>

(* modifyResponse of a 200 that is a stream: the TallyReader is put on. *)
UpstreamStreams(r) ==
  /\ pc[r] = "upstream"
  /\ ReadPrices(r)
  /\ Goto(r, "stream")
  /\ UNCHANGED <<seen, missed, held, slot, tokens, once, closes, charge, billVars, switched>>

CopyDone(r) ==
  /\ pc[r] = "copy"
  /\ Leave(r)
  /\ UNCHANGED <<seen, missed, held, tokens, once, closes, charge, free, billVars, switched>>

-----------------------------------------------------------------------------
(* TallyReader.                                                            *)

(* Mutant of triggerComplete: without the sync.Once. *)
triggerCompleteAgain(r) ==
  CloseWith(r, ActualCost(r, tokens[r], free)) /\ once' = once \cup {r}

triggerComplete(r) ==
  \/ r \in once /\ UNCHANGED <<once, closes, charge>>
  \/ r \notin once /\ once' = once \cup {r} /\ CloseWith(r, ActualCost(r, tokens[r], free))

(* A chunk of content adds what the local tokenizer counts; a chunk with a *)
(* usage field puts the count of the upstream in its place.                *)
ReadChunk(r) ==
  /\ pc[r] = "stream"
  /\ \/ tokens[r] < MaxTokens /\ tokens' = [tokens EXCEPT ![r] = @ + 1]
     \/ \E t \in 1 .. MaxTokens : tokens' = [tokens EXCEPT ![r] = t]
  /\ UNCHANGED <<pc, seen, missed, held, slot, once, closes, charge, free, billVars, switched>>

ReadEOF(r) ==
  /\ pc[r] = "stream"
  /\ triggerComplete(r)
  /\ Goto(r, "close")
  /\ UNCHANGED <<seen, missed, held, slot, tokens, free, billVars, switched>>

(* Mutant of StreamBreaks: a broken stream is refunded like a failed call. *)
StreamBreaksRefunds(r) ==
  /\ pc[r] = "stream"
  /\ Refund(r)
  /\ once' = once \cup {r}
  /\ Goto(r, "close")
  /\ UNCHANGED <<seen, missed, held, slot, tokens, free, billVars, switched>>

(* The upstream breaks off or falls silent, or the client hangs up: the    *)
(* copy ends without an EOF.                                               *)
StreamBreaks(r) ==
  /\ pc[r] = "stream"
  /\ Goto(r, "close")
  /\ UNCHANGED <<seen, missed, held, slot, tokens, once, closes, charge, free, billVars, switched>>

(* Mutant of CloseBody: only the body below is closed. *)
CloseBodyOnly(r) ==
  /\ pc[r] = "close"
  /\ Leave(r)
  /\ UNCHANGED <<seen, missed, held, tokens, once, closes, charge, free, billVars, switched>>

(* TallyReader.Close, which the reverse proxy defers. *)
CloseBody(r) ==
  /\ pc[r] = "close"
  /\ triggerComplete(r)
  /\ Leave(r)
  /\ UNCHANGED <<seen, missed, held, tokens, free, billVars, switched>>

-----------------------------------------------------------------------------
(* The worker's side of it (module Settlement has the queue).              *)

(* HandleRecordBillingLog, with the task of r for the first time or again,  *)
(* finds no row of r.  (If there is one it returns: no step.)               *)
CheckBillingLogExists(r) ==
  /\ closes[r] > 0 /\ bills[r] = 0 /\ txs[r] < MaxWorkers
  /\ txs' = [txs EXCEPT ![r] = @ + 1]
  /\ UNCHANGED <<workVars, bills, incs, used, spent, lost, extra, switched>>

(* The COMMIT: request_id is not UNIQUE, so a second worker gets through. *)
CommitBill(r) ==
  /\ txs[r] > 0
  /\ txs' = [txs EXCEPT ![r] = @ - 1]
  /\ bills' = [bills EXCEPT ![r] = @ + 1]
  /\ incs' = [incs EXCEPT ![r] = @ + 1]
  /\ spent' = spent + charge[r]
  /\ extra' = IF bills[r] > 0 THEN extra + charge[r] ELSE extra
  /\ UNCHANGED <<workVars, used, lost, switched>>

(* The transaction fails or its worker dies; the task comes back. *)
BillFails(r) ==
  /\ txs[r] > 0
  /\ txs' = [txs EXCEPT ![r] = @ - 1]
  /\ UNCHANGED <<workVars, bills, incs, used, spent, lost, extra, switched>>

(* After the COMMIT, outside the transaction; an error is logged and that  *)
(* is all, and a worker that dies here finds the row when it comes back.   *)
IncrementAPIKeyQuotaUsed(r) ==
  /\ incs[r] > 0
  /\ incs' = [incs EXCEPT ![r] = @ - 1]
  /\ \/ used' = used + charge[r] /\ UNCHANGED lost
     \/ lost' = lost + charge[r] /\ UNCHANGED used
  /\ UNCHANGED <<workVars, txs, bills, spent, extra, switched>>

BillStep(r) ==
  \/ CheckBillingLogExists(r) \/ CommitBill(r) \/ BillFails(r)
  \/ IncrementAPIKeyQuotaUsed(r)

Running(r) == pc[r] \notin {"start", "done", "rejected", "crashed"}

(* The process dies: no deferred call runs. *)
Crash ==
  /\ Crashes
  /\ \E r \in Requests : Running(r)
  /\ pc' = [r \in Requests |-> IF Running(r) THEN "crashed" ELSE pc[r]]
  /\ UNCHANGED <<seen, missed, held, slot, tokens, once, closes, charge, free, billVars, switched>>

RequestStep(r) ==
  \/ ReadAPIKey(r) \/ PreDeduct(r) \/ CheckRateLimit(r) \/ AcquireSlot(r)
  \/ RejectUpgrade(r) \/ Forward(r) \/ RoundTripFails(r) \/ UpstreamRefuses(r)
  \/ UpstreamSwitches(r) \/ handleUpgradeResponse(r)
  \/ UpstreamBody(r) \/ UpstreamStreams(r) \/ CopyDone(r)
  \/ ReadChunk(r) \/ ReadEOF(r) \/ StreamBreaks(r) \/ CloseBody(r)

Next == (\E r \in Requests : RequestStep(r) \/ BillStep(r)) \/ Crash

Spec == Init /\ [][Next]_vars

(* Every Redis call, every upstream read (upstreamIdleTimeout) and every   *)
(* retry loop ends, and an answer is finite (nothing in the code bounds a  *)
(* stream that keeps talking).  A client that neither reads nor hangs up   *)
(* could stall the copy (WriteTimeout is 0): it is assumed to do one.      *)
Fairness ==
  \A r \in Requests :
    /\ WF_vars(Running(r) /\ RequestStep(r))
    /\ WF_vars(ReadEOF(r) \/ StreamBreaks(r))

FairSpec == Spec /\ Fairness

-----------------------------------------------------------------------------
(* Properties.                                                             *)

(* A pre-deduction is settled or refunded at most once, whichever of the   *)
(* middlewares, modifyResponse, ErrorHandler, Read and Close gets to it.   *)
(* (An upstream that answers 101 to a plain request makes modifyResponse   *)
(* and ErrorHandler refund it both.)                                       *)
ClosedOnce ==
  \A r \in Requests : closes[r] <= 1 \/ (r \in switched /\ closes[r] <= 2)

(* A request that has been answered has had its pre-deduction settled or   *)
(* refunded and holds no place of its model any more.  (The 501 for a      *)
(* protocol upgrade is the one answer that keeps the money.)               *)
NothingStranded ==
  \A r \in Requests :
    pc[r] = "done" /\ r \in held =>
      /\ r \notin slot
      /\ closes[r] = 0 => r \in Upgrades

(* What was counted before the client or the upstream broke off is what    *)
(* the request is charged for (README, "Auto-stop on disconnect"), unless  *)
(* the prices of its model could not be read when the answer came.         *)
ChargedForUse ==
  \A r \in Requests :
    pc[r] = "done" => charge[r] = ActualCost(r, tokens[r], free)

(* Every pre-deduction is closed in the end, unless the process dies or    *)
(* the request is answered as an upgrade.                                  *)
EventuallyClosed ==
  \A r \in Requests \ Upgrades :
    (r \in held) ~> (closes[r] > 0 \/ pc[r] = "crashed")

(* An API key is billed more than its quota_limit ("cumulative spending    *)
(* limit over the life of the key", AuthAndPreDeductMiddleware) by no more *)
(* than the increments of quota_used that were lost and the bills that     *)
(* were made twice, unless requests ran side by side or one cost more than *)
(* was estimated.                                                          *)
QuotaPassedOnlyTogether ==
  QuotaLimit > 0 /\ spent > QuotaLimit + lost + extra =>
    \/ \E r \in Billed : charge[r] > Cost
    \/ \E r \in Billed : missed[r] \cap Billed # {}
=============================================================================
