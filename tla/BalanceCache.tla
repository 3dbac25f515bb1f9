---------------------------- MODULE BalanceCache ----------------------------
(***************************************************************************)
(* The balances of one user, kept twice: live in Redis (where requests     *)
(* take and give back money through the Lua scripts) and in Postgres       *)
(* (where the billing worker, credits and subscriptions write).  Balances  *)
(* of different users share nothing, so one user is enough.                *)
(*                                                                         *)
(* A Redis script is one step, a database transaction is one step, and     *)
(* everything between two such steps interleaves: the load of a missing    *)
(* cache is one read and three SETs (a pipeline, not a transaction).       *)
(* How an owed bill reaches Postgres exactly once is module Settlement.    *)
(***************************************************************************)
EXTENDS Pools, Sums

CONSTANTS Requests,    \* requests of the user
          Cost,        \* Cost[r]: estimated cost, what PreDeduct asks for
          Policy,      \* Policy[r]: billing_policy of the model of r
          Actuals,     \* the actual costs a settlement may find
          Viewers,     \* callers of GetUserBalance
          Credits,     \* webhook transactions and admin top-ups
          CreditPool,  \* CreditPool[c]: "cash" or "grant"
          CreditDelta, \* CreditDelta[c]: positive, or negative for a debit
          Adjustments, \* the admin top-ups among them
          Applies,     \* ApplySubscription calls
          NewSub,      \* their NewPaid
          NewGrant,    \* their NewGrant
          InitDb,      \* balances in Postgres at the start
          WarmStart,   \* TRUE if Redis holds them too at the start
          Faults,      \* the kinds of failure this instance is exposed to
          MaxFaults    \* how many failures may happen in one behaviour

Loaders == Requests \cup Viewers

ASSUME BalanceAssumption ==
  /\ Requests \cap Viewers = {} /\ Credits \cap Applies = {}
  /\ IsFiniteSet(Requests) /\ IsFiniteSet(Credits) /\ IsFiniteSet(Applies)
  /\ Cost \in [Requests -> Nat \ {0}]
  /\ Policy \in [Requests -> Policies]
  /\ Actuals \subseteq Nat
  /\ CreditPool \in [Credits -> {"cash", "grant"}]
  /\ CreditDelta \in [Credits -> Int \ {0}]
  /\ Adjustments \subseteq {c \in Credits : CreditDelta[c] > 0}
  /\ NewSub \in Nat /\ NewGrant \in Nat
  /\ InitDb \in [PoolNames -> Nat]
  /\ WarmStart \in BOOLEAN
  /\ Faults \subseteq {"redis", "db", "crash"}
  /\ MaxFaults \in Nat

VARIABLES cache,   \* cache[p]: value of the Redis key of pool p, 0 if absent
          present, \* the pools whose key exists
          db,      \* db[p]: the column of pool p in users
          pc,      \* pc[x]: where request or viewer x is
          snap,    \* snap[x]: balances x read in order to load the cache
          ded,     \* ded[r]: the Deduction request r carries in its context
          actual,  \* actual[r]: its cost once known
          tx,      \* tx[e]: where credit or subscription event e is
          faults,  \* failures so far
          undone   \* history: undone[p], what loads wrote back over live keys

vars == <<cache, present, db, pc, snap, ded, actual, tx, faults, undone>>

SetStep == [p \in PoolNames |->
  IF p = "sub" THEN "set_sub" ELSE IF p = "grant" THEN "set_grant" ELSE "set_cash"]

PCs == {"start", "load", "set_sub", "set_grant", "set_cash", "retry",
        "serving", "owed", "billed", "rejected", "lost", "done"}

TypeOK ==
  /\ cache \in [PoolNames -> Int]
  /\ present \subseteq PoolNames
  /\ db \in [PoolNames -> Int]
  /\ pc \in [Loaders -> PCs]
  /\ snap \in [Loaders -> [PoolNames -> Int]]
  /\ ded \in [Requests -> Deductions]
  /\ actual \in [Requests -> Nat]
  /\ tx \in [Credits \cup Applies ->
               {"start", "committed", "done", "stale", "refused"}]
  /\ faults \in 0 .. MaxFaults
  /\ undone \in [PoolNames -> Nat]

Init ==
  /\ db = InitDb
  /\ cache = IF WarmStart THEN InitDb ELSE NoDeduction
  /\ present = IF WarmStart THEN PoolNames ELSE {}
  /\ pc = [x \in Loaders |-> "start"]
  /\ snap = [x \in Loaders |-> NoDeduction]
  /\ ded = [r \in Requests |-> NoDeduction]
  /\ actual = [r \in Requests |-> 0]
  /\ tx = [e \in Credits \cup Applies |-> "start"]
  /\ faults = 0
  /\ undone = NoDeduction

-----------------------------------------------------------------------------
Fault(kind) ==
  /\ kind \in Faults
  /\ faults < MaxFaults
  /\ faults' = faults + 1

Goto(x, where) == pc' = [pc EXCEPT ![x] = where]

Plus(b, d) == [p \in PoolNames |-> b[p] + d[p]]

Minus(b, d) == [p \in PoolNames |-> b[p] - d[p]]

(* INCRBY of every pool that gets something; it creates a missing key. *)
Incr(d) ==
  /\ cache' = Plus(cache, d)
  /\ present' = present \cup {p \in PoolNames : d[p] > 0}

-----------------------------------------------------------------------------
(* PreDeduct.                                                              *)

(* pre_deduct.lua on a complete cache; `where` is what the caller sees. *)
RunPreDeduct(r, where) ==
  LET take == PreDeductTake(cache, Policy[r], Cost[r]) IN
  \/ /\ Affordable(cache, Policy[r], Cost[r])
     /\ cache' = Minus(cache, take)
     /\ ded' = [ded EXCEPT ![r] = take]
     /\ Goto(r, where)
  \/ /\ ~Affordable(cache, Policy[r], Cost[r])
     /\ Goto(r, "rejected")
     /\ UNCHANGED <<cache, ded>>

(* First run of the script: a missing key sends the request to the DB. *)
PreDeduct(r) ==
  /\ pc[r] = "start"
  /\ \/ /\ present # PoolNames
        /\ Goto(r, "load")
        /\ UNCHANGED <<cache, ded>>
     \/ present = PoolNames /\ RunPreDeduct(r, "serving")
  /\ UNCHANGED <<present, db, snap, actual, tx, faults, undone>>

(* GetUserBalances of LoadBalanceToCache, and of GetUserBalance on a miss. *)
GetUserBalances(x) ==
  /\ pc[x] = "load"
  /\ snap' = [snap EXCEPT ![x] = db]
  /\ Goto(x, "set_sub")
  /\ UNCHANGED <<cache, present, db, ded, actual, tx, faults, undone>>

(* SyncUserBalanceCache: three absolute SETs, in this order.  A SET over a *)
(* key that is there takes back what was taken from it since the read.     *)
SyncUserBalanceCache(x) ==
  /\ \E p \in PoolNames :
       /\ pc[x] = SetStep[p]
       /\ cache' = [cache EXCEPT ![p] = snap[x][p]]
       /\ present' = present \cup {p}
       /\ undone' = IF p \in present /\ snap[x][p] > cache[p]
                      THEN [undone EXCEPT ![p] = @ + snap[x][p] - cache[p]]
                      ELSE undone
       /\ Goto(x, IF p = "sub" THEN "set_grant"
                  ELSE IF p = "grant" THEN "set_cash"
                  ELSE IF x \in Requests THEN "retry" ELSE "done")
  /\ snap' = [snap EXCEPT ![x] = IF pc[x] = "set_cash" THEN NoDeduction ELSE @]
  /\ UNCHANGED <<db, ded, actual, tx, faults>>

(* The read or the pipeline fails, some of the SETs done or none: PreDeduct *)
(* returns the error, GetUserBalance ignores that of the pipeline.          *)
LoadFails(x) ==
  /\ \/ pc[x] = "load" /\ Fault("db")
     \/ pc[x] \in {"set_sub", "set_grant", "set_cash"} /\ Fault("redis")
  /\ Goto(x, IF x \in Requests THEN "rejected" ELSE "done")
  /\ snap' = [snap EXCEPT ![x] = NoDeduction]
  /\ UNCHANGED <<cache, present, db, ded, actual, tx, undone>>

(* Second run of the script.  Only -1 is an error: a second miss (-2) falls *)
(* through and the request is served with an empty Deduction.               *)
RetryPreDeduct(r) ==
  /\ pc[r] = "retry"
  /\ \/ /\ present # PoolNames
        /\ Goto(r, "serving")
        /\ UNCHANGED <<cache, ded>>
     \/ present = PoolNames /\ RunPreDeduct(r, "serving")
  /\ UNCHANGED <<present, db, snap, actual, tx, faults, undone>>

(* The script's answer does not come: the request is refused, and what the *)
(* script took, if it ran, nobody knows of.                                *)
PreDeductFails(r) ==
  /\ pc[r] \in {"start", "retry"}
  /\ Fault("redis")
  /\ \/ Goto(r, "rejected") /\ UNCHANGED <<cache, ded>>
     \/ present = PoolNames /\ RunPreDeduct(r, "lost")
  /\ UNCHANGED <<present, db, snap, actual, tx, undone>>

-----------------------------------------------------------------------------
(* Settle and Refund.                                                      *)

(* Settle with diff >= 0: the excess goes back, each pool at most its share. *)
SettleExcess(r, a) ==
  /\ pc[r] = "serving"
  /\ a <= Cost[r]
  /\ \/ Incr(RefundGive(ded[r], Cost[r] - a)) /\ UNCHANGED faults
     \/ Fault("redis") /\ UNCHANGED <<cache, present>>
  /\ actual' = [actual EXCEPT ![r] = a]
  /\ Goto(r, "owed")
  /\ UNCHANGED <<db, snap, ded, tx, undone>>

(* Settle with diff < 0: the shortfall is taken from the cache under the   *)
(* policy of the model, or "all" if the model cannot be read.              *)
SettleShortfall(r, a) ==
  /\ pc[r] = "serving"
  /\ a > Cost[r]
  /\ \/ /\ cache' = Minus(cache, CompensateTake(cache, Policy[r], a - Cost[r]))
        /\ UNCHANGED faults
     \/ /\ Fault("db")
        /\ cache' = Minus(cache, CompensateTake(cache, "all", a - Cost[r]))
     \/ Fault("redis") /\ UNCHANGED cache
  /\ actual' = [actual EXCEPT ![r] = a]
  /\ Goto(r, "owed")
  /\ UNCHANGED <<present, db, snap, ded, tx, undone>>

(* Refund: all of the pre-deduction, capped by what each pool gave. *)
Refund(r) ==
  /\ pc[r] = "serving"
  /\ \/ Incr(RefundGive(ded[r], Cost[r])) /\ UNCHANGED faults
     \/ Fault("redis") /\ UNCHANGED <<cache, present>>
  /\ actual' = [actual EXCEPT ![r] = 0]
  /\ Goto(r, "owed")
  /\ UNCHANGED <<db, snap, ded, tx, undone>>

(* The transaction of HandleRecordBillingLog. *)
Bill(r) ==
  /\ pc[r] = "owed"
  /\ db' = Minus(db, splitActual3(actual[r], ded[r]))
  /\ Goto(r, "billed")
  /\ UNCHANGED <<cache, present, snap, ded, actual, tx, faults, undone>>

(* The process dies while it serves r, or before the bill is on its way. *)
Lose(r) ==
  /\ pc[r] \in {"serving", "owed"}
  /\ Fault("crash")
  /\ Goto(r, "lost")
  /\ UNCHANGED <<cache, present, db, snap, ded, actual, tx, undone>>

-----------------------------------------------------------------------------
(* GetUserBalance: MGET, and when a key is missing or the MGET itself      *)
(* fails the same load as PreDeduct's, live keys or not.                   *)
GetUserBalance(v) ==
  /\ pc[v] = "start"
  /\ \/ /\ Goto(v, IF present = PoolNames THEN "done" ELSE "load")
        /\ UNCHANGED faults
     \/ Fault("redis") /\ Goto(v, "load")
  /\ UNCHANGED <<cache, present, db, snap, ded, actual, tx, undone>>

-----------------------------------------------------------------------------
(* processTransaction and AdjustUserBalance: the row is locked and the     *)
(* column moves by delta; processTransaction refuses a result below zero.  *)
CreditCommit(c) ==
  /\ tx[c] = "start"
  /\ IF c \in Adjustments \/ db[CreditPool[c]] + CreditDelta[c] >= 0
       THEN /\ db' = [db EXCEPT ![CreditPool[c]] = @ + CreditDelta[c]]
            /\ tx' = [tx EXCEPT ![c] = "committed"]
       ELSE tx' = [tx EXCEPT ![c] = "refused"] /\ UNCHANGED db
  /\ UNCHANGED <<cache, present, pc, snap, ded, actual, faults, undone>>

(* Mutant of CreditBalanceCache: only credits are passed on. *)
CreditBalanceCacheUp(c) ==
  /\ tx[c] = "committed"
  /\ cache' = IF CreditPool[c] \in present /\ CreditDelta[c] > 0
                THEN [cache EXCEPT ![CreditPool[c]] = @ + CreditDelta[c]]
                ELSE cache
  /\ tx' = [tx EXCEPT ![c] = "done"]
  /\ UNCHANGED <<present, db, pc, snap, ded, actual, faults, undone>>

(* CreditBalanceCache: INCRBY only where the key exists.  If it fails the  *)
(* transaction is reported as processed with cacheSynced false ("stale").  *)
CreditBalanceCache(c) ==
  /\ tx[c] = "committed"
  /\ \/ /\ UNCHANGED faults
        /\ cache' = IF CreditPool[c] \in present
                      THEN [cache EXCEPT ![CreditPool[c]] = @ + CreditDelta[c]]
                      ELSE cache
        /\ tx' = [tx EXCEPT ![c] = "done"]
     \/ /\ Fault("redis") /\ UNCHANGED cache
        /\ tx' = [tx EXCEPT ![c] = "stale"]
  /\ UNCHANGED <<present, db, pc, snap, ded, actual, undone>>

(* Mutant of ApplyCommit: the old paid balance is overwritten, not moved. *)
ApplyCommitForfeits(e) ==
  /\ tx[e] = "start"
  /\ db' = [db EXCEPT !["sub"] = NewSub, !["grant"] = NewGrant]
  /\ tx' = [tx EXCEPT ![e] = "committed"]
  /\ UNCHANGED <<cache, present, pc, snap, ded, actual, faults, undone>>

(* ApplySubscription up to its COMMIT: ApplySubscriptionDB. *)
ApplyCommit(e) ==
  /\ tx[e] = "start"
  /\ db' = [p \in PoolNames |-> IF p = "sub" THEN NewSub
                                ELSE IF p = "grant" THEN NewGrant
                                ELSE db["cash"] + db["sub"]]
  /\ tx' = [tx EXCEPT ![e] = "committed"]
  /\ UNCHANGED <<cache, present, pc, snap, ded, actual, faults, undone>>

(* The DEL of the three keys after the COMMIT; its error is ignored. *)
Invalidate(e) ==
  /\ tx[e] = "committed"
  /\ \/ cache' = NoDeduction /\ present' = {} /\ UNCHANGED faults
     \/ Fault("redis") /\ UNCHANGED <<cache, present>>
  /\ tx' = [tx EXCEPT ![e] = "done"]
  /\ UNCHANGED <<db, pc, snap, ded, actual, undone>>

-----------------------------------------------------------------------------
RequestStep(r) ==
  \/ PreDeduct(r) \/ RetryPreDeduct(r) \/ PreDeductFails(r)
  \/ \E a \in Actuals : SettleExcess(r, a) \/ SettleShortfall(r, a)
  \/ Refund(r) \/ Bill(r) \/ Lose(r)

Next ==
  \/ \E r \in Requests : RequestStep(r)
  \/ \E v \in Viewers : GetUserBalance(v)
  \/ \E x \in Loaders :
       GetUserBalances(x) \/ SyncUserBalanceCache(x) \/ LoadFails(x)
  \/ \E c \in Credits : CreditCommit(c) \/ CreditBalanceCache(c)
  \/ \E e \in Applies : ApplyCommit(e) \/ Invalidate(e)

Spec == Init /\ [][Next]_vars

-----------------------------------------------------------------------------
(* Properties.                                                             *)

(* What Postgres may still be charged for r out of pool p. *)
Claim(r, p) ==
  IF pc[r] = "serving" THEN ded[r][p]
  ELSE IF pc[r] = "owed" THEN splitActual3(actual[r], ded[r])[p]
  ELSE 0

Claims(p) == SumOver([r \in Requests |-> Claim(r, p)], Requests)

(* What credit c has added to pool p in the states S, and as a debit taken. *)
Credit(c, p, S) == IF CreditPool[c] = p /\ tx[c] \in S THEN CreditDelta[c] ELSE 0

Debit(c, p, S) == IF Credit(c, p, S) < 0 THEN -CreditDelta[c] ELSE 0

(* Credits and debits of pool p that have not reached the cache yet. *)
Uncached(p) == SumOver([c \in Credits |-> Credit(c, p, {"committed"})], Credits)

(* The debits of pool p in one of the states S, as a positive amount. *)
Debits(p, S) == SumOver([c \in Credits |-> Debit(c, p, S)], Credits)

(* No overspend: what the cache still offers and what running requests may *)
(* be charged are together covered by Postgres, in every pool, however     *)
(* settlements, credits, crashes and Redis errors interleave, except for a *)
(* debit that Postgres has and the cache has not, and for what the reload  *)
(* after a failed MGET wrote back over deductions in the live keys.        *)
CacheBacked ==
  \A p \in PoolNames :
    cache[p] + Claims(p) <= db[p] + Debits(p, {"committed", "stale"}) + undone[p]

(* Nothing but a debit and such a reload can take a balance of the user    *)
(* below zero, and by no more than the one took and the other wrote back:  *)
(* processTransaction checks a debit against a column that does not know   *)
(* what running requests hold in Redis.                                    *)
OverdrawnOnlyByDebit ==
  \A p \in PoolNames :
    db[p] >= -Debits(p, {"committed", "done", "stale"}) - undone[p]

(* No leakage: while nothing failed and no cost exceeded its estimate,     *)
(* Redis and Postgres differ in every pool by exactly the running requests *)
(* and the credits under way, so at rest they agree.  It needs settlement  *)
(* in Redis (refund.lua, from the tail) and in Postgres (splitActual3,     *)
(* from the head) to split alike.                                          *)
LedgerExact ==
  (faults = 0 /\ \A r \in Requests : actual[r] <= Cost[r]) =>
    \A p \in PoolNames : cache[p] + Claims(p) + Uncached(p) = db[p]

(* A request goes upstream only with its whole estimated cost set aside in *)
(* pools its model's policy allows (README, "Pre-deduction").              *)
AdmittedIsHeld ==
  \A r \in Requests :
    pc[r] = "serving" =>
      /\ Total(ded[r]) = Cost[r]
      /\ \A p \in PoolNames : ded[r][p] > 0 => Uses(Policy[r], p)

(* PreDeduct is all or nothing, also on balances that a race or a debit    *)
(* left below zero.                                                        *)
AllOrNothing == \A r \in Requests : Total(ded[r]) \in {0, Cost[r]}

(* What subscription change e paid in, and what the bill of r took out. *)
PaidIn(e) == IF tx[e] # "start" THEN NewSub ELSE 0

BilledPaid(r) ==
  LET split == splitActual3(actual[r], ded[r]) IN
  IF pc[r] = "billed" THEN split["sub"] + split["cash"] ELSE 0

(* Money the user paid is never forfeited or invented in Postgres: the sum *)
(* of sub and cash moves only by cash credits, by what subscriptions pay   *)
(* in, and by what bills take out of the two pools.                        *)
PaidMoneyConserved ==
  LET settled == {"committed", "done", "stale"} IN
  db["sub"] + db["cash"] =
    InitDb["sub"] + InitDb["cash"]
    + SumOver([c \in Credits |-> Credit(c, "cash", settled)], Credits)
    + SumOver([e \in Applies |-> PaidIn(e)], Applies)
    - SumOver([r \in Requests |-> BilledPaid(r)], Requests)

(* The scripts never take a pool below zero: only a load (of a negative    *)
(* database value) or a debit can leave a negative key.                    *)
ScriptsNeverOverdraw ==
  [][\A p \in PoolNames :
       (cache'[p] < cache[p] /\ cache'[p] < 0) =>
         \/ \E x \in Loaders : pc[x] = SetStep[p] /\ pc'[x] # pc[x]
         \/ \E c \in Credits : tx[c] = "committed" /\ tx'[c] = "done"]_vars
=============================================================================
