------------------------------- MODULE Ledger -------------------------------
(***************************************************************************)
(* The account of one user in Postgres and everything that writes to it:   *)
(* the shop's events (order.paid, subscription.apply, subscription.cancel),*)
(* delivered again and again and to several handlers at once, the admin's  *)
(* adjustments, the hourly sweep of expired subscriptions, and the bills   *)
(* of module Settlement.  transactions.event_id, which is UNIQUE, is what  *)
(* makes an event count once.                                              *)
(*                                                                         *)
(* processTransaction and AdjustUserBalance lock the row (FOR UPDATE)      *)
(* before they read it; ApplySubscription reads it without a lock and      *)
(* locks it with its UPDATE.  What the commits do to the cache in Redis is *)
(* module BalanceCache.                                                    *)
(***************************************************************************)
EXTENDS Pools, Sums

CONSTANTS Events,        \* the shop's events, each with its event_id
          Payload,       \* Payload[e]: what the event says
          Procs,         \* handlers of the process
          Sweepers,      \* one expiry sweep per running instance
          MaxDeliveries, \* deliveries by the shop, repeated ones included
          Adjustments,   \* the admin's adjustments, [pool, amount], each once
          TicksPerDay,   \* the clock's grain: sub_expires_at is a tick
          LastTick,      \* bound of the clock
          Bills,         \* the pools a bill of one unit may still come for
          MaxFaults,     \* bound of the failures
          NoOne,         \* nobody holds the lock of the row
          NoEvent        \* event_id NULL

Actors == Procs \cup Sweepers

(* The event_id of the sweep of a day. *)
SweepId(day) == <<"sub:expire", day>>

LastDay == LastTick \div TicksPerDay

ASSUME LedgerAssumption ==
  /\ Procs \cap Sweepers = {} /\ NoOne \notin Actors
  /\ DOMAIN Payload = Events
  /\ MaxDeliveries \in Nat
  /\ Adjustments \subseteq [pool : {"cash", "grant"}, amount : Nat \ {0}]
  /\ TicksPerDay \in Nat \ {0} /\ LastTick \in Nat \ {0}
  /\ Bills \subseteq PoolNames /\ MaxFaults \in Nat

(* The shop's event_ids are its own: none is NULL or that of a sweep. *)
ASSUME EventAssumption ==
  /\ NoEvent \notin Events
  /\ \A t \in 0 .. LastTick : SweepId(t \div TicksPerDay) \notin Events

(* Amounts are numbers, and a date is a tick. *)
ASSUME PayloadAssumption ==
  \A e \in Events :
    LET o == Payload[e] IN
    IF o.kind = "order"
      THEN /\ o.cfgAmount \in Int /\ o.recharge \in Int
           /\ o.productRecharge \in Int /\ o.amount \in Int
      ELSE o.sub \in Int /\ o.grant \in Int /\ o.exp \in Nat

VARIABLES bal,      \* bal[p]: the balance columns of the user
          exp,      \* sub_expires_at, 0 for NULL
          tier,     \* tier_level
          txs,      \* event_ids in transactions
          lock,     \* who holds the row between two statements
          pc,       \* pc[x]: where actor x is
          job,      \* job[x]: the change x works on
          before,   \* before[x]: the balances x read for its log rows
          tries,    \* deliveries so far
          todo,     \* adjustments not made yet
          now,      \* the clock
          adjusted, \* history: paid money the admin added
          billed,   \* history: paid money bills took
          bills,    \* pools whose bill is still to come
          stale,    \* history: kinds of change whose log rows were wrong
          renewed,  \* history: sweeps overtaken by a subscription change
          faults    \* failures so far

rowVars  == <<bal, exp, tier, txs>>
workVars == <<pc, job, before>>
histVars == <<adjusted, stale, renewed>>
envVars  == <<tries, todo, now, billed, bills>>
vars == <<rowVars, lock, workVars, histVars, envVars, faults>>

(* A change of the account, whoever asks for it. *)
Change(kind, id) ==
  [kind |-> kind, id |-> id, pool |-> "cash", delta |-> 0,
   sub |-> 0, grant |-> 0, exp |-> 0, tier |-> 0]

NoChange == Change("none", NoEvent)

Init ==
  /\ bal = NoDeduction /\ exp = 0 /\ tier = 0
  /\ txs = {}
  /\ lock = NoOne
  /\ pc = [x \in Actors |-> "idle"]
  /\ job = [x \in Actors |-> NoChange]
  /\ before = [x \in Actors |-> NoDeduction]
  /\ tries = 0
  /\ todo = Adjustments
  /\ now = 1
  /\ adjusted = 0 /\ billed = 0 /\ bills = Bills
  /\ stale = {} /\ renewed = {}
  /\ faults = 0

-----------------------------------------------------------------------------
(* From the shop's payload to a change.                                    *)

firstPositive(a, b, c) == IF a > 0 THEN a ELSE IF b > 0 THEN b ELSE c

firstNonEmpty(s, t) == IF s # "" THEN s ELSE t

(* o.plan: plan ids in the metadata or a product of type subscription. *)
TxType(o) ==
  IF o.type # "" THEN o.type
  ELSE IF o.plan THEN "grant_issue"
  ELSE IF firstNonEmpty(o.cfgPool, o.metaPool) # "" THEN "topup" ELSE ""

BalanceType(o) ==
  LET named == firstNonEmpty(o.cfgPool, o.metaPool) IN
  IF named # "" THEN named
  ELSE IF TxType(o) = "grant_issue" \/ o.plan THEN "grant"
  ELSE IF TxType(o) = "topup" THEN "cash" ELSE ""

Amount(o) == IF o.cfgAmount > 0 THEN o.cfgAmount
             ELSE firstPositive(o.recharge, o.productRecharge, o.amount)

Direction(o) == firstNonEmpty(o.dir, "credit")

(* The order asks for a transaction: it is not switched off, something     *)
(* names a type or a pool, and there is an amount.                         *)
Mapped(o) ==
  /\ o.cfg # "off"
  /\ o.cfg = "on" \/ TxType(o) # "" \/ BalanceType(o) # ""
  /\ Amount(o) > 0

(* The checks at the head of processTransaction. *)
Valid(o) ==
  /\ TxType(o) # ""
  /\ BalanceType(o) \in {"cash", "grant"}
  /\ Direction(o) \in {"credit", "debit"}

buildTransactionRequestFromOrderPaid(e) ==
  LET o == Payload[e] IN
  [Change("order", e) EXCEPT
     !.pool = BalanceType(o),
     !.delta = IF Direction(o) = "debit" THEN -Amount(o) ELSE Amount(o)]

(* subscription.apply; subscription.cancel is one with nothing in it.  A   *)
(* date that cannot be read is NULL.                                       *)
subscriptionChange(e) ==
  LET s == Payload[e] IN
  [Change("apply", e) EXCEPT !.sub = s.sub, !.grant = s.grant,
                             !.exp = s.exp, !.tier = s.tier]

-----------------------------------------------------------------------------
Goto(x, where) == pc' = [pc EXCEPT ![x] = where]

(* x is through with its change. *)
Finish(x) ==
  /\ Goto(x, "idle")
  /\ job' = [job EXCEPT ![x] = NoChange]
  /\ before' = [before EXCEPT ![x] = NoDeduction]

Fault == faults < MaxFaults /\ faults' = faults + 1

Day == now \div TicksPerDay

Overdue == exp # 0 /\ exp < now

(* WHERE clause of ListExpiredSubscriptionUsers. *)
Expired == Overdue /\ (bal["sub"] > 0 \/ bal["grant"] > 0)

(* HandleEvent: the shop delivers e to p.  (An order that maps to nothing,  *)
(* or to something unsound, is answered and leaves no trace: no step.)      *)
HandleEvent(p, e) ==
  /\ pc[p] = "idle" /\ tries < MaxDeliveries
  /\ tries' = tries + 1
  /\ LET o == Payload[e] IN
     \/ /\ o.kind = "order" /\ Mapped(o) /\ Valid(o)
        /\ job' = [job EXCEPT ![p] = buildTransactionRequestFromOrderPaid(e)]
     \/ /\ o.kind # "order"
        /\ job' = [job EXCEPT ![p] = subscriptionChange(e)]
  /\ Goto(p, "check")
  /\ UNCHANGED <<rowVars, lock, before, histVars, todo, now, billed, bills, faults>>

(* AdjustUserBalance: no event_id, so no check. *)
AdjustUserBalance(p, a) ==
  /\ pc[p] = "idle" /\ a \in todo
  /\ todo' = todo \ {a}
  /\ job' = [job EXCEPT ![p] = [Change("adjust", NoEvent) EXCEPT
                                   !.pool = a.pool, !.delta = a.amount]]
  /\ Goto(p, "lock")
  /\ UNCHANGED <<rowVars, lock, before, histVars, tries, now, billed, bills, faults>>

(* Mutant of sweepExpiredSubscriptions: every dated subscription is swept. *)
sweepAllSubscriptions(s) ==
  /\ pc[s] = "idle" /\ exp # 0 /\ SweepId(Day) \notin txs
  /\ job' = [job EXCEPT ![s] = Change("apply", SweepId(Day))]
  /\ renewed' = renewed \ {s}
  /\ Goto(s, "check")
  /\ UNCHANGED <<rowVars, lock, before, adjusted, stale, envVars, faults>>

(* Mutant of sweepExpiredSubscriptions: a subscription of which only the   *)
(* grant is left is not listed.                                            *)
sweepPaidOnly(s) ==
  /\ pc[s] = "idle" /\ Expired /\ bal["sub"] > 0 /\ SweepId(Day) \notin txs
  /\ job' = [job EXCEPT ![s] = Change("apply", SweepId(Day))]
  /\ renewed' = renewed \ {s}
  /\ Goto(s, "check")
  /\ UNCHANGED <<rowVars, lock, before, adjusted, stale, envVars, faults>>

(* A pass of the sweep that lists the user.  (A pass whose event_id of the  *)
(* day is taken changes nothing: it is left out.)                           *)
sweepExpiredSubscriptions(s) ==
  /\ pc[s] = "idle" /\ Expired /\ SweepId(Day) \notin txs
  /\ job' = [job EXCEPT ![s] = Change("apply", SweepId(Day))]
  /\ renewed' = renewed \ {s}
  /\ Goto(s, "check")
  /\ UNCHANGED <<rowVars, lock, before, adjusted, stale, envVars, faults>>

Seen(id) == id \in txs

(* GetTransactionByEventID: seen before, or not; an error ends a            *)
(* transaction, while ApplySubscription goes on as if not seen.             *)
GetTransactionByEventID(x) ==
  /\ pc[x] = "check"
  /\ LET on == IF job[x].kind = "apply" THEN "read" ELSE "lock" IN
     \/ Seen(job[x].id) /\ Finish(x) /\ UNCHANGED faults
     \/ ~Seen(job[x].id) /\ Goto(x, on) /\ UNCHANGED <<job, before, faults>>
     \/ job[x].kind = "apply" /\ Goto(x, on) /\ Fault /\ UNCHANGED <<job, before>>
     \/ job[x].kind # "apply" /\ Finish(x) /\ Fault
  /\ UNCHANGED <<rowVars, lock, histVars, envVars>>

-----------------------------------------------------------------------------
(* processTransaction and AdjustUserBalance.                               *)

(* Mutant of GetUserByIDForUpdate: a plain SELECT. *)
GetUserByID(x) ==
  /\ pc[x] = "lock" /\ lock = NoOne
  /\ bal[job[x].pool] + job[x].delta >= 0
  /\ before' = [before EXCEPT ![x] = bal]
  /\ Goto(x, "commit")
  /\ UNCHANGED <<rowVars, lock, job, histVars, envVars, faults>>

(* SELECT ... FOR UPDATE: waits for the lock, and reads what is there then. *)
LockRow(x) ==
  lock = NoOne /\ lock' = x /\ before' = [before EXCEPT ![x] = bal]

(* The row is locked and read.  processTransaction refuses a balance that  *)
(* would be below zero, AdjustUserBalance, which only adds, does not look. *)
Refused(x) == job[x].kind # "adjust" /\ bal[job[x].pool] + job[x].delta < 0

GetUserByIDForUpdate(x) ==
  /\ pc[x] = "lock"
  /\ \/ /\ LockRow(x) /\ ~Refused(x)
        /\ Goto(x, "commit") /\ UNCHANGED <<job, faults>>
     \/ /\ lock = NoOne /\ Refused(x)
        /\ Finish(x) /\ UNCHANGED <<lock, faults>>
     \/ Finish(x) /\ Fault /\ UNCHANGED lock
  /\ UNCHANGED <<rowVars, histVars, envVars>>

(* Mutant of Unseen: event_id is a plain index. *)
UnseenNotUnique(id) == TRUE

(* The UNIQUE constraint on transactions.event_id; NULLs do not clash. *)
Unseen(id) == id \notin txs

Record(id) == txs' = IF id = NoEvent THEN txs ELSE txs \cup {id}

(* The log rows of x are wrong if the balances moved since it read them. *)
LogRows(x) ==
  stale' = IF before[x] = bal THEN stale ELSE stale \cup {job[x].kind}

MoveBalance(x) ==
  /\ Unseen(job[x].id)
  /\ bal' = [bal EXCEPT ![job[x].pool] = @ + job[x].delta]
  /\ Record(job[x].id)
  /\ LogRows(x)
  /\ adjusted' = IF job[x].kind = "adjust" /\ job[x].pool = "cash"
                   THEN adjusted + job[x].delta ELSE adjusted

(* UPDATE, both log rows and COMMIT: done; taken back because the event_id  *)
(* is there by now; or failed, before or after it took effect.              *)
CommitTransaction(x) ==
  /\ pc[x] = "commit"
  /\ \/ MoveBalance(x) /\ UNCHANGED faults
     \/ ~Unseen(job[x].id) /\ UNCHANGED <<bal, txs, stale, adjusted, faults>>
     \/ Fault /\ (MoveBalance(x) \/ UNCHANGED <<bal, txs, stale, adjusted>>)
  /\ lock' = NoOne
  /\ Finish(x)
  /\ UNCHANGED <<exp, tier, renewed, envVars>>

-----------------------------------------------------------------------------
(* ApplySubscription.                                                      *)

(* GetUserBalances and the SELECT of ApplySubscriptionDB: no lock. *)
GetUserBalances(x) ==
  /\ pc[x] = "read"
  /\ \/ before' = [before EXCEPT ![x] = bal] /\ Goto(x, "apply")
        /\ UNCHANGED <<job, faults>>
     \/ Finish(x) /\ Fault
  /\ UNCHANGED <<rowVars, lock, histVars, envVars>>

(* What is left of the old sub goes to cash, the rest is overwritten. *)
ApplySubscriptionDB(x) ==
  /\ bal' = [p \in PoolNames |-> IF p = "sub" THEN job[x].sub
                              ELSE IF p = "grant" THEN job[x].grant
                              ELSE bal["cash"] + bal["sub"]]
  /\ exp' = job[x].exp /\ tier' = job[x].tier

(* A sweep under way when a subscription changes works on old news. *)
Overtake(x) ==
  renewed' = renewed \cup {s \in Sweepers \ {x} : pc[s] # "idle"}

ApplyIt(x) ==
  /\ Unseen(job[x].id)
  /\ ApplySubscriptionDB(x)
  /\ Record(job[x].id)
  /\ LogRows(x)
  /\ Overtake(x)

(* The UPDATE waits for the lock; the rest as in CommitTransaction. *)
ApplySubscription(x) ==
  /\ pc[x] = "apply" /\ lock = NoOne
  /\ \/ ApplyIt(x) /\ UNCHANGED faults
     \/ ~Unseen(job[x].id) /\ UNCHANGED <<rowVars, stale, renewed, faults>>
     \/ Fault /\ (ApplyIt(x) \/ UNCHANGED <<rowVars, stale, renewed>>)
  /\ Finish(x)
  /\ UNCHANGED <<lock, adjusted, envVars>>

-----------------------------------------------------------------------------
(* The worker charges one unit to a pool, in a transaction of its own. *)
Bill(p) ==
  /\ lock = NoOne /\ p \in bills
  /\ bal' = [bal EXCEPT ![p] = @ - 1]
  /\ bills' = bills \ {p}
  /\ billed' = IF p = "grant" THEN billed ELSE billed + 1
  /\ UNCHANGED <<exp, tier, txs, lock, workVars, histVars, tries, todo, now, faults>>

Tick ==
  /\ now < LastTick
  /\ now' = now + 1
  /\ UNCHANGED <<rowVars, lock, workVars, histVars, tries, todo, billed, bills, faults>>

ActorStep(x) ==
  \/ GetTransactionByEventID(x)
  \/ GetUserByIDForUpdate(x) \/ CommitTransaction(x)
  \/ GetUserBalances(x) \/ ApplySubscription(x)

Next ==
  \/ \E p \in Procs, e \in Events : HandleEvent(p, e)
  \/ \E p \in Procs, a \in Adjustments : AdjustUserBalance(p, a)
  \/ \E s \in Sweepers : sweepExpiredSubscriptions(s)
  \/ \E x \in Actors : ActorStep(x)
  \/ \E p \in PoolNames : Bill(p)
  \/ Tick

Spec == Init /\ [][Next]_vars

(* Handlers finish, the hourly ticker of every sweep fires for ever (SafeGo *)
(* restarts it), and so does the clock.                                     *)
FairSpec ==
  /\ Spec
  /\ WF_vars(Tick)
  /\ \A s \in Sweepers : WF_vars(sweepExpiredSubscriptions(s))
  /\ \A x \in Actors : WF_vars(ActorStep(x))

-----------------------------------------------------------------------------
(* Properties.                                                             *)

(* What an event that counts adds to the paid pools, sub and cash. *)
Paid(e) ==
  IF Payload[e].kind # "order" THEN subscriptionChange(e).sub
  ELSE IF BalanceType(Payload[e]) # "cash" THEN 0
  ELSE buildTransactionRequestFromOrderPaid(e).delta

(* The money the user paid is in sub or cash, and every event counts once, *)
(* however often it is delivered, to whom and with which failures, and     *)
(* however the transactions, the sweeps and the bills interleave.          *)
PaidMoneyExact ==
  bal["sub"] + bal["cash"] =
    SumOver([e \in Events |-> Paid(e)], Events \cap txs) + adjusted - billed

(* The before and after balances in transactions and balance_logs are the  *)
(* real ones for webhook transactions and adjustments: that is what the    *)
(* row lock is for.  (Those of ApplySubscription may be stale.)            *)
AuditExact == stale \subseteq {"apply"}

(* The sweep ends a subscription that still runs only if it was put there  *)
(* while the sweep was under way.                                          *)
SweepSparesValid ==
  [][\A s \in Sweepers :
       job[s].id \in txs' \ txs /\ pc[s] = "apply" /\ pc'[s] = "idle"
         => Overdue \/ s \in renewed]_vars

(* Use it or lose it: an expired subscription that still has money is      *)
(* cleared, if not today then tomorrow (one sweep a day counts, by its     *)
(* event_id), with the last day of the clock as the bound.                 *)
ExpiredCleared == Expired ~> (~Expired \/ SweepId(LastDay) \in txs)
=============================================================================
