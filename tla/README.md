# A TLA+ verification of ainode

ainode is a gateway in front of LLM providers. A request is authenticated by an
API key, its estimated cost is taken from the user's balance in Redis before it
is forwarded, and it is settled or refunded when it ends. The bill then travels
through a task queue (asynq) to a worker that debits Postgres. Upstream accounts
("channels") are chosen behind a circuit breaker, with retries on other channels.

This directory models the parts of the program in which money, limits and
breakers can go wrong: TLA+ modules translated from the Go and Lua sources, TLC
configurations that check them on small instances, and TLAPS proofs of the
results that matter for every instance. Paths below are relative to the
repository's root.

    tlc -config settle_redelivery.cfg MCSettlement     # one run
    tlapm SettlementProofs.tla                         # one module's proofs

`PROJECT.json` lists components, runs, the source lines of every definition, the
hazards and the findings.

## 1. Inventory

| Component | State | Operations | Hard because | Correct when |
|---|---|---|---|---|
| Three-pool arithmetic (`internal/billing/lua/*`, `worker/billing.go: splitActual3`) | none | take in order sub, grant, cash; give back in reverse; split of the actual cost | the same split is computed twice, in Lua from the tail and in Go from the head | both agree in every pool; nothing is overdrawn |
| Balance cache (`internal/billing/deduct.go, redis.go, credit_cache.go, settlement.go`) | three Redis keys and three columns per user | `PreDeduct`, load on a miss, `Settle`, `Refund`, credit, invalidate | Redis and Postgres change at different times; a load is one read and three SETs | no overspend, no leakage, an admitted request is paid for |
| Settlement pipeline (`billing/settlement.go, outbox_relay.go`, `worker/billing.go`) | asynq queue, `settlement_outbox`, `billing_logs` | enqueue, outbox insert, relay pass, handler transaction, quota increment | at-least-once delivery, lost answers, crashes between steps | every closed request is billed, and once |
| Channels and breaker (`internal/channel`, `proxy/reverse_proxy.go`) | state, failure count and probe flag of each channel | selection scan, mark failed/succeeded, retry loop, admin reset/probe/reload | the lock is taken anew for every channel of a scan; late reports | one probe at a time, always decided; alternatives are tried |
| Model concurrency (`middleware/model_concurrency.go`) | a Redis counter with expiry | INCR, EXPIRE, DECR, DEL | four commands, no transaction; crash; expiry | limit kept; no place lost for ever |
| API keys and rate limits (`api/site/api_keys.go`, `middleware/rate_limit.go`, `lua/rate_limit.lua`) | rows of `api_keys`; three Redis counters per user | create, enable, disable, rotate, delete; one script per counter | window boundaries; the tier changes under a running window; limits fail open | bounded rate; a refused user gets a new window; a withdrawn key lets nobody in |
| Request lifecycle (`middleware/auth.go`, the middlewares, `proxy/reverse_proxy.go, tally_reader.go`, `cmd/api/main.go`) | a goroutine per request, quota of the key | middlewares, proxy, stream reader | some ten places may close the pre-deduction | closed exactly once, for what was used |
| Subscriptions, webhooks, adjustments (`billing/subscription*.go`, `api/webhook`, `api/admin/users.go`) | the account row, `transactions`, `balance_logs` | order.paid, subscription.apply and cancel, hourly expiry sweep, admin adjustment | duplicated and concurrent events; a sweep working on an old list; some writers lock the row, some do not | an event counts once; paid money neither lost nor invented; expired money is cleared |
| Video tasks (`api/gateway/async_tasks.go`) | rows of `async_tasks`, the hold of the request | create, submit, poll, cancel, close | poll and cancel race; every call uses the client's context; partial failure | closed once, and paid for only if there is a result |
| Configuration (`internal/config`, `api/admin/model.go, channel.go`) | model and channel maps in memory | admin writes, two refresh loops, load of a model on a miss | lost messages, stale overwrites, a map emptied under a request | converges to the database; a request is priced |
| Pricing (`proxy/pricing.go`, `utils/*pricing.go`, `middleware/auth.go`) | none | estimate, actual cost | rounding, unset fields, cached tokens | what is held covers what is charged |
| Provider adapters, parsing, token counting, audit logs, metrics, partitions, lists and statistics | none of their own | translation, reading | nothing concurrent of their own | - |

Interactions. The middlewares call `PreDeduct` (balance cache) and the Redis
limiters; every refusal after the pre-deduction calls `Refund`. The proxy's
`RoundTrip` asks the channel manager and reports back to the breaker.
`modifyResponse`, `ErrorHandler` and `TallyReader` call `Settle` or `Refund`,
which run a script on the cache and then hand a task to asynq or, failing that,
to the outbox; the relay moves the outbox to asynq; the worker debits Postgres
and counts the key's quota, which the next request reads. Webhooks, admins and
subscriptions write Postgres first and adjust or delete the cache afterwards; the
tier they set is what the next request's limits follow. Models and channels are
read from memory, which the refresh loops and the requests themselves fill. A
video task takes its pre-deduction over from the request that created it; polls
and cancels, each a request of its own, settle or refund it.

## 2. Modules

| Module | Models | Run through | Proofs |
|---|---|---|---|
| `Pools` | the Lua scripts and `splitActual3` as operators | BalanceCache, AsyncTask, Ledger | `PoolsProofs` |
| `Sums` | sums over finite sets, for properties that add up money or counts | BalanceCache, Access | `PoolsProofs` |
| `BalanceCache` | Redis and Postgres balances of one user | `MCBalance` | `BalanceCacheProofs` |
| `BillOnce` | abstract: what the pipeline promises of a request | refined by Settlement | `SettlementProofs` |
| `Settlement` | from the end of a request to the committed bill | `MCSettlement` | `SettlementProofs` |
| `Failover` | channel selection, breaker, retry loop | `MCFailover` | `FailoverProofs` |
| `ModelConcurrency` | the concurrency counter | `MCModelConcurrency` | `LimitsProofs` |
| `Access` | the API keys of a user and the three rate counters | `MCAccess` | `LimitsProofs` |
| `Gateway` | the life of a request across middlewares and proxy | `MCGateway` | `GatewayProofs` |
| `AsyncTask` | a video task, its handlers and its hold | `MCAsyncTask` | `AsyncTaskProofs` |
| `Ledger` | the account row in Postgres and all its writers | `MCLedger` | `LedgerProofs` |
| `Pricing` | estimate and actual cost as operators | ConfigSync | `GatewayProofs` |
| `ConfigSync` | tables, memory, refresh loops, requests that look models up | `MCConfigSync` | `GatewayProofs` |

The components share little state, so they are not put into one product: each module
leaves the answers of the others open. `Gateway` lets every limiter and the balance
accept or refuse at will, and its worker has the exists-check, the COMMIT and the
quota increment of `Settlement`, with the queue left out: any closed request may be
billed at any time, by several workers at once; `BalanceCache` takes the bill as one
transaction, and `Settlement` shows when it happens once. `BalanceCache` and
`Ledger` see the same transactions from two sides: `Ledger` has the locks, the event
ids and the statements in Postgres, `BalanceCache` what a commit does to the keys in
Redis. `AsyncTask` uses the refund of `Pools` for its hold; what happens after a
closing is handed over is `Settlement`. `SetTier` of `Access` is the tier that
`Ledger` writes, and `ConfigSync` prices its requests with `Pricing`.

A `TypeOK` outside `Settlement` documents the shape of the state. It is proved, or
is a part of an invariant that is, and has been
model-checked on the instances below, but says nothing about the code and is not
listed among the properties.

Definitions that begin with "Mutant of" in their comment are deliberately wrong
versions of an action or operator. No specification uses them: they are there to
show that each property notices the mistake they make (`mutants` in
`PROJECT.json`).

### State and actions against the code

*Settlement.* `pc[r]` follows `Settle`/`Refund` after their script: `Close` builds
the task, `Enqueue` and `EnqueueFails` are `EnqueueContext` (refused, or accepted
with the answer lost), `InsertSettlementOutbox` and `OutboxFails` the fallback.
`ListPending`, `RelayEnqueue(Fails)`, `MarkProcessed`/`MarkFails` are one pass of
`drainSettlementOutbox`, one step per call. `Dequeue`, `CheckBillingLogExists`,
`CommitTx`, `TxFails`, `IncrementAPIKeyQuotaUsed`, `QuotaFails` are
`HandleRecordBillingLog`; the transaction is one step since Postgres makes it
one, and an error may hide a commit that took effect. asynq is external: it
delivers at least once, retries `MaxRetry` times, then archives. `Crash` ends
every goroutine of the process; the tasks of its workers go back to the queue.
`together[r]` is history: the most workers that were between the exists-check and
the COMMIT of r at one moment. `main.go` runs ten.

*BalanceCache.* `cache`/`present` are the Redis keys, `db` the columns. A script
is one step (`PreDeduct`, `RetryPreDeduct`, `SettleExcess`, `SettleShortfall`,
`Refund`, `CreditBalanceCache`), a database transaction is one step (`Bill`,
`CreditCommit`, `ApplyCommit`), and a load is `GetUserBalances` followed by the
three SETs of `SyncUserBalanceCache`. Each may fail where the code handles or
ignores the error, with the effect done or not. A viewer (`GetUserBalance`) loads
when a key is missing and also when its MGET errs, over keys that are live;
`undone[p]` is history: how much the SETs of loads raised keys of pool p that were
there. `Adjustments` are the credits of `AdjustUserBalance`, which may debit below
zero; a webhook's debit may not.

*Failover.* A call of `getNextChannel` is a scan: one `isCircuitBlocked` step per
channel (it may turn a cooled breaker half-open and claims the probe), then
`PickChannel`. The order of the scan and the weights are left open: every order
and every pick is a behaviour. `AttemptSucceeds`, `AttemptFails`, `Retry` and
`Abort` are `RoundTrip`; `SubmitAsync` the video handler, which reports nothing.
`failures` counts up to the threshold, beyond which the code does not tell counts
apart. The 30 s of cooldown are a flag that time raises. `dropped` is history: the
channels whose probe the claiming request let go in the present half-open spell.

*ModelConcurrency.* Each Redis command is a step; `Tick` lets the key expire
after two ticks without EXPIRE. `leaked` is history: places whose owner died or
was told of an error.

*Access.* The handlers of the site change rows of `api_keys`; authentication reads
the row every time and remembers nothing. A billed request runs the script once
per counter (`Admit`, `Refuse`); the counters are the user's, whatever the key,
and their limits follow the tier read at authentication. `AdmitUncounted` is a
Redis error, which lets the request pass. `recent` and `withdrawn` are history.

*Gateway.* `pc[r]` goes through auth, the three rate checks, the concurrency
middleware, the mounted handler and the proxy. `closes[r]` counts `Settle` and
`Refund` calls; `triggerComplete` is guarded by the `sync.Once`. Usage is a small
number of units, and the cost of a request is its usage, or nothing when its
prices could not be read. A 101 is refunded by `modifyResponse` (`UpstreamSwitches`)
and perhaps again by `ErrorHandler`, to which the standard library's upgrade code
comes (`handleUpgradeResponse`). The worker checks (`CheckBillingLogExists`),
commits (`CommitBill`) or fails (`BillFails`), and then counts the key's quota or
loses the count (`IncrementAPIKeyQuotaUsed`). `used` is the key's `quota_used`;
`spent`, `lost` and `extra` are history: the bills, the increments that were lost
and the bills made twice; `missed[r]` the requests under way, and not yet fully
counted, when r read its key.

*AsyncTask.* One task. `row` is its row, `task[h]` the struct handler h works on,
which is as old as its last read or write. The creator inserts the row, saves the
share of the sub pool, picks a channel, submits and marks; a poll or cancel reads
the row, asks the upstream and marks; whoever marks a terminal status closes the
hold (`subOf`, then `RefundScript`, `EnqueueBillingLog`, `InsertSettlementOutbox`,
`MarkCost`). Each database, Redis or upstream call is a step that may fail with its
effect done or not. `HangUp` cancels the context of a handler, after which all its
calls fail. The upstream is external: it accepts or refuses, works, and spells its
states in words that `NormalizeTaskStatus` reads.

*Ledger.* The row of one user (`bal`, `exp`, `tier`) and `transactions.event_id`
(`txs`). `HandleEvent` translates the shop's payload; `GetTransactionByEventID` is
the check that comes first, `Unseen` the UNIQUE constraint that comes last. An
order or an adjustment holds the row's lock from `GetUserByIDForUpdate` to
`CommitTransaction`; `ApplySubscription` reads without the lock and waits for it
only with its UPDATE. `sweepExpiredSubscriptions` is a pass of the sweep that lists
the user. `before[x]`, what an actor read for its log rows, is compared with the
balances at its commit (`stale`).

*ConfigSync.* `models`/`channels` are the tables, `modelCache`/`channelCache` the
maps in memory. A loop queries and stores in separate steps, since the lock is
taken after the query; so does `LoadModel`. A request looks its model up three
times: for its estimate, for its concurrency slot and when the upstream answers.
A refresh message may be lost, a query may fail, a loop may panic and be restarted
by `SafeGo`. *Pricing* keeps the order of the integer division and the rounding of
the code. Its integers are int64: sums and products wrap around (`Wrap`; taking the
remainder once at the end is the same), and a scaled amount that does not fit
becomes the least int64 (`ToInt64`: what amd64, which the Makefile builds for, does
where Go leaves it open). A float32 multiplier is an exact fraction.

## 3. What the runs check

Every passing run explores its whole state space. "States" are distinct states.

| Run | Instance | Shows | States |
|---|---|---|---|
| `settle_redelivery` | two requests, one worker, four failures of any kind, one retry, batches of one | `BilledAtMostOnce`, `QuotaBacked`, `NoSilentLoss` under redelivery, lost answers, retries and crashes; `EventuallyBilled`: billed or archived in the end; `ImplementsBillOnce`: refinement of the abstract specification | 624,854 |
| `balance_warm` | two requests of different cost and policy, a top-up by an administrator and a debit, a viewer, three failures; the keys stay in Redis | `CacheBacked` (no overspend but for what a reload after a failed MGET wrote back), `OverdrawnOnlyByDebit`, `LedgerExact` (no leakage without failures), `AdmittedIsHeld` | 428,760 |
| `balance_cold` | two requests on an empty cache, a top-up, a debit, a subscription change, one failure | `PaidMoneyConserved` in Postgres, `AllOrNothing`, `ScriptsNeverOverdraw`, also on balances that races left negative | 4,278,758 |
| `breaker_single` | one channel, two requests that always report | `OneProbe`, `ClosedStaysBelow`, `HalfOpenDecided` | 40,951 |
| `failover_pool` | two channels, one with a bad URL; a request and a video task; aborts; resets and manual probes | `TriedAlternatives`, `ProbeOwnedUnlessDropped` | 878,888 |
| `slots_no_leak` | three requests for two places, two failures, requests that outlive the key | `LimitRespected`, `NoLeakedSlot` | 545,510 |
| `rate_window` | two keys, two key strings, tiers with and without an entry, a window of two ticks, token counts below and above the limit | `AtMostTwoWindows`, `WindowEnds`, `WithdrawnKeyOut` | 171,074 |
| `gateway` | two requests of one key with a quota of 1, one that may ask for an upgrade, two workers, crashes | `ClosedOnce`, `ChargedForUse`, `NothingStranded`, `QuotaPassedOnlyTogether`, `EventuallyClosed` | 1,257,032 |
| `async_tasks` | one task holding money of all three pools, two follow-ups that poll or cancel, one failure, hang-ups | `ClosedOnceIfAlone`, `FinishedStands`, `PaidForResult`, `BackToItsPools`, `FinishedIsClosed` | 290,063 |
| `ledger` | a refund, a plan, its renewal and an order without a mapping in three deliveries, two handlers, one sweep, a top-up, a bill, one failure | `PaidMoneyExact`, `AuditExact`, `SweepSparesValid`, `ExpiredCleared` | 370,948 |
| `config_refresh` | one model (priced by token, switched off, or priced by request), one channel, two writes, both loops, one request of four kinds, two of which overflow | `Converges`, `PricedUnlessGone`, `EstimateCovers` | 501,930 |

One more run shows that the code does not do what its comments say; TLC's
counterexample is the evidence (the quoted lines are in `PROJECT.json`,
`findings`):

- `settle_duplicate`: the enqueue fails, the outbox row is delivered, the mark
  fails, the row is delivered again; two workers hold the two copies, both run
  the exists-check before either commits, and the request is debited twice.

### Deviations met while modelling

The modules contain these behaviours too. A property that excepts one says so in
its comment; the others show when the instance named is widened.

Balances and subscriptions:

- Two requests miss the cache: the first loads and deducts, then the SETs of the
  second load undo the deduction, both spend the same money and Postgres goes
  below zero (`CacheBacked` on a cold cache). `AGENT.md:463` forbids the absolute SET.
- An MGET that errs counts as a miss: the balance page then SETs the columns over
  live keys and undoes what running requests have deducted, who may spend it
  again. `CacheBacked` and `OverdrawnOnlyByDebit` allow for exactly what it wrote
  back; `AGENT.md:463` forbids this SET too.
- A load racing a credit counts the credit twice (`CacheBacked`, cold cache with
  a top-up): the load reads the committed credit, then `CreditBalanceCache` adds it.
- A cache invalidated between a load and the second script run lets a request
  through with nothing deducted (`AdmittedIsHeld`, cold cache with a subscription
  change): `deduct.go` treats only -1 as an error of the retry.
- A subscription change moves the `sub_balance` column to cash while running
  requests hold part of it (`OverdrawnOnlyByDebit`, warm cache with a subscription
  change); the design document asks for the live Redis value.
- A refund after the DEL of a subscription change recreates the keys with the
  refund alone; no load follows, although the comment at `subscription.go:135`
  says that the next request reloads.
- A debit is checked against Postgres alone, not against what running requests
  hold: `OverdrawnOnlyByDebit` bounds what it can take.
- A cost above the estimate is taken from Redis, never from Postgres:
  `splitActual3` is capped by the pre-deduction. `LedgerExact` says so in its
  hypothesis.
- `ApplySubscription` reads the balances of its log rows without a lock: they may be
  stale (`AuditExact` excepts it).
- A subscription renewed after the sweep listed its user is cleared all the same
  (`SweepSparesValid` excepts it); a subscription.apply delivered after the
  cancel of the same subscription establishes it again; the outcome of an
  order.paid that issues a grant and a subscription.apply depends on their order.
- An expiry date that cannot be parsed is stored as NULL and never swept. One
  event id per user and day means that a second expiry on the same day waits for
  the next (`ExpiredCleared` allows for it). A subscription with neither sub nor
  grant left is never listed, so its tier stays.

Requests and tasks:

- A billed request with an Upgrade header is answered 501 and keeps its
  pre-deduction; `NothingStranded` and `EventuallyClosed` except it by name.
- Two requests read the same `quota_used` and both pass: the hard quota of a key
  ("Key 级硬配额", `AGENT.md:22`) is exceeded by requests that run side by side. A
  quota increment that fails, or a worker that dies after the COMMIT, is never made
  up for, and a request billed twice is counted twice; `QuotaPassedOnlyTogether`
  bounds by how much the bills can pass the quota.
- An upstream that answers 101 to a request that asked for no upgrade has its
  pre-deduction refunded twice, by `modifyResponse` and by `ErrorHandler`
  (`ClosedOnce` excepts it).
- Two handlers of one task that run at once may both settle or refund it, and a
  late poll may write `running`, or a cost of 0, over a finished task. The
  properties of `AsyncTask` say "while no two have overlapped" for that reason.
- A status word that `NormalizeTaskStatus` does not know never ends a task. When the
  INSERT or the mark of a submitted task fails, the answer is 500 and nothing is
  refunded. Refunds run on the client's context, so a hang-up cancels them. A
  cancel that cannot read the channel refunds while the upstream goes on. The
  settlement of a task names no API key, so it does not count towards its quota.

Channels and limits:

- A scan turns a cooled channel half-open and claims its probe, and the request
  picks another channel: the claim is never released and every later scan skips
  the channel, until an administrator resets it.
  The same when the request is filtered out after the claim, gives up after the
  pick, or is a video submission. `ProbeOwnedUnlessDropped` says that nothing else
  loses a claim.
- After `ProbeChannel` every request passes the half-open breaker (`OneProbe` with
  `AdminOps = {"probe"}`): the half-open branch does not claim the probe.
- Between the DECR to zero and the DEL of a concurrency counter another INCR may be
  deleted, so the limit can be exceeded, and the counter may drift below zero; a
  Redis error lets requests run without a place. `LimitRespected` bounds by how
  much. Refused requests refresh the key's expiry, so a leaked place stays leaked
  while clients keep coming.
- The rate limiter is a fixed window (documented as sliding): twice the limit can
  pass in 60 s, which is what `AtMostTwoWindows` states. A request refused at the
  second or third counter keeps its increments of the earlier ones. `main.go`
  computes fallbacks for the limits and passes the configuration without them.
  `allowed_models` of a key is never read.

Prices and configuration:

- The hold need not cover the cost when the multiplier is unset (0 in the estimate,
  1 in the actual cost), when an image model is priced by token (estimated by token,
  charged per image), when a cached token costs more than an ordinary one, when a
  price is negative, when the amount does not fit in an int64, when the row changed
  while the request ran, or when the upstream used more than was reserved or reports
  cached tokens that do not add up. `EstimateCovers` has exactly these exceptions.
  Rounding up is not what makes it true (rounding to nearest would do), truncation
  would break it.
- A model that cannot be found at settlement makes the request free.
- `max_tokens` and `n` are the client's and multiplied in int64. A product that wraps
  around gives an estimate that has nothing to do with the cost, often 1; one that
  overflows with its multiplier is converted to the least int64, a negative hold,
  since only a cost of exactly zero is raised to one (`HoldBelowOneIsOverflow`), or
  a negative charge (`NegativeChargeIsOverflow`).
- A negative multiplier, which nothing forbids, makes the estimate negative as well.
  The actual cost takes such a multiplier for one.
- `LoadModel` may put a row back that a refresh removed, and two loops may store in
  the opposite order of their reads: memory is wrong until the next pass.

### Bounds

Failures are counted by `faults` and bounded by `MaxFaults`; administration by
`MaxAdmin`; tokens by `MaxTokens`; workers that bill one request at once by
`MaxWorkers`. Two requests and one worker suffice for a task
to be queued, in the outbox and at the worker at once; four failures let one
settlement be lost on the way, redelivered, retried and crashed. One retry
reaches the archive. A batch of one makes the relay leave rows behind. Balances
of 1 and 2 with costs of 1 to 3 make every request straddle pools, be refused and
exceed its estimate. A threshold of two separates "a failure" from "the failure
that opens". Three requests for two places have one refused while another is
between DECR and DEL. Two keys and two strings let a key be rotated, or deleted
beside a live one; a window of two ticks has a boundary in it, and token counts of
1 and 3 against limits of 2 are admitted, refused and larger than a window. Two
follow-ups give every pair of poll and cancel, in sequence and overlapping. Three
deliveries to two handlers repeat an event at the same time and later; four ticks
of two to a day let a subscription expire, be swept, and expire again on a day
whose event id is taken. Two writes change a model and change it back under one
request; three rows are on, off and differently priced, and the usages lie on the
estimate, split it by cache hits, exceed it, and do not add up. `HalfRange` is 32 for
2^63: one question wraps around in the product, one overflows with its multiplier,
the others fit. A quota of one is passed by any second unit. Symmetry is used only
in `slots_no_leak`, a safety run over interchangeable requests. Deadlock checking is on where the system never stops
(channels, concurrency counter, rate limits, configuration) and off where all
requests may be done.

### Fairness

- Settlement: the goroutine in `Settle` or `Refund` runs on; the relay's ticker
  fires for ever and `SafeGo` restarts it after a panic; asynq serves its queue.
  Nothing obliges a request to end or a failure to happen.
- Failover: a request that runs goes on (the scan does not block, upstream reads
  have an idle timeout, the backoff is a timer). No client has to send a request.
- Gateway: every call a request makes ends, an answer is finite, and a client
  reads or hangs up. The last two are assumptions about the environment: the code
  sets no write timeout and does not bound a stream that keeps sending.
- Access: time passes.
- AsyncTask: a handler that runs goes on, as its calls return or fail. No client
  has to poll, no upstream has to work.
- Ledger: handlers finish, the clock goes on and the sweep's ticker fires for ever.
  The shop need not deliver anything.
- ConfigSync: strong fairness of the four steps of the periodic loop: its ticker
  keeps firing, and neither a failing query nor a panic hits the same step for
  ever. Nothing is assumed of the subscription, of administrators or of requests.

## 4. What is proved

Every theorem holds for all values of the constants that satisfy the named
assumptions of its module: any set of requests, workers, handlers or channels,
any limits and amounts, any number of failures. Where a theorem needs more, that
is an ASSUME of the theorem itself, and given below. Each inductive invariant was
model-checked before it was proved.

`SettlementProofs` (`SettlementAssumption`, `NoTaskAssumption`, and
`WorkersAssumption`: finitely many workers):

- `TypeCorrect`: `Spec => []TypeOK`. Inductive with `WorkerHasTask`: a worker that
  is not idle holds a task. Lemmas `RetryType` and `DeliverType` say what a retry
  and a delivery do to the queue.
- `SettlementNeverLost`: `Spec => []NoSilentLoss`. `NoSilentLoss` is not inductive:
  it does not say why a row may be marked. `LossInv` adds that a row being marked,
  or marked, has been *handled*: billed, or a task of it is queued, archived or at
  a worker; and that a worker about to count the quota has committed. Lemma
  `HandledStable` shows that no step, a crash included, makes a handled request
  unhandled; the rest follows action by action.
- `QuotaAlwaysBacked`: `Spec => []QuotaBacked`, for any number of workers, so also
  where a request is billed twice. `QuotaInv` counts the workers between their
  COMMIT and `IncrementAPIKeyQuotaUsed`: quota plus these is at most the log rows.
- `BilledNoMoreThanTogether`: `Spec => []BilledOnlyTogether`, for any number of workers:
  a request is billed no more often than workers were in its transaction at once.
  `TogetherInv` adds the workers now in a transaction: once there is a row, the rows
  and these are at most `together`, since nobody passes the exists-check any more.
- `BilledOnceUnlessTogether`: `Spec => ([]Alone => []BilledAtMostOnce)`. `Alone` says
  that no two workers were between the check and the COMMIT of one request at one
  moment; it restricts the run, not the number of workers, and redelivery, retries
  and crashes stay. Without it the theorem is false (`settle_duplicate`).
- `PipelineBillsOnceUnlessTogether`: `Spec => ([]Alone => ImplementsBillOnce)`: every
  step of the pipeline is a step of the abstract `BillOnce` or leaves it as it is.
  `OpenInv` says that nothing of an open request is on its way and that the relay
  works on pending rows only; lemma `DeliverableNext` that only a request that is
  owed a bill becomes deliverable, so one given up never does.

`PoolsProofs` (all integer balances, policies and amounts):

- `PreDeductExact`: a pre-deduction found affordable takes exactly the cost, and
  only from usable pools that have it, overdrawn pools included.
- `SettlementAgrees`: what `refund.lua` leaves deducted in each pool is what
  `splitActual3` charges to it, for every actual cost up to the deduction. This is
  why `LedgerExact` can hold at all.
- `CompensateNeverNegative`: `compensate.lua` takes no pool that is not overdrawn
  below zero.
- Lemmas about sums (`SumRemove`, `SumChange`, `SumPlus`, ...): that the order in
  which `SumOver` adds does not matter, and what follows. The library's induction
  theorems cannot be used here; instead of induction these lemmas take a minimal
  counterexample among the subsets of a finite set (`Minimal`).

`BalanceCacheProofs` (`BalanceAssumption`, which asks for finitely many requests,
credits and subscription changes). For cold and warm caches alike:

- `TypeCorrect`; `AlwaysAllOrNothing`: a pre-deduction is the whole cost or nothing;
  `ScriptsAlwaysStop`: no script takes a key below zero.
- `PaidMoneyAlwaysConserved`: sub and cash in Postgres are what was paid in minus
  what was billed. Each action changes one summand of one sum by what it changes
  the columns by.

When the keys are in Redis from the start and stay there (`WarmStart`, and no
subscription change, whose DEL is what cools the cache: `Applies = {}`):

- `AdmittedAlwaysHeld`: nothing goes upstream without its estimate held. `WarmInv`
  says that all keys are present, so no request ever waits for a load, and a viewer
  only after a failure.
- `CacheAlwaysBacked`, `OverdrawnAlwaysByDebit`, `LedgerAlwaysExact`: no overspend,
  overdrafts only by debits, no leakage. All three rest on `SlackInv`: in every
  pool, Postgres minus Redis minus what running requests may be charged minus the
  credits under way plus what reloads wrote back (`undone`) is never negative, and
  zero as long as nothing failed and no cost exceeded its estimate. No step takes
  from that slack; for the settling steps this is `SettlementAgrees`, for a reload
  over live keys `SlackReload`. `FloorInv` bounds what debits have done to Redis.
  Section 3 tells how each of these fails on a cold cache.

`GatewayProofs`, `Gateway` (`GatewayAssumption`):

- `TypeCorrect`, `NeverClosedTwice`, `AlwaysChargedForUse`, `NothingLeftBehind`. One
  invariant, `LifeInv`, says for each place a request can be at what it holds there,
  whether it was closed and what it was charged; the four are read off it.
- `QuotaExactInSequence`: `Spec => []QuotaPassedOnlyTogether`. `QuotaInv` says that
  two requests not yet fully counted know of each other: the later one missed the
  earlier when it read the key. Else the bills are at most what the request had seen
  and its own, but for what was lost or billed twice; and at most `quota_used` once
  all that were billed are counted.

`GatewayProofs`, `ConfigSync` and `Pricing` (`ConfigAssumption`: rows, questions and
reports have the fields the code reads, all int64, and a multiplier has a positive
denominator; `PricingAssumption`). `HalfRange`, 2^63 in the code, is any number. A
price, a multiplier or a count may be negative, since neither a handler nor the
schema forbids it:

- `AlwaysPriced`: `ConfigSpec => []PricedUnlessGone`. `PriceInv` says of a request
  under way that if its model is not active *now*, the history has noted it. That is
  what a lookup needs when it finds no row: the map in memory may have been emptied
  by a reload, but the SELECT that follows sees the table as it is. Also that what
  the loops and `LoadModel` are about to store are rows they read, so that nothing
  but rows of the tables gets into memory. `ConfigTypeCorrect` is a part of it.
- `EstimateAlwaysCovers`: `ConfigSpec => []EstimateCovers`. From `PriceInv` the row
  of the estimate is a row of the table; the rest is arithmetic. `WrapIs` says that
  what fits does not wrap; `BaseCovers` compares the sums before the multiplier
  (each cached or missed token costs at most an ordinary one, the integer division
  is monotone: `DivMonotone`), and `MultiplierKeeps` is the order of the two
  roundings, which `TestApplyMultiplierCeilNeverUnderEstimates` tries on examples.
  The exceptions are conditions of the property, not assumptions.
- `NegativeChargeIsOverflow`: `computeActualCost` is an int64 for every row, every report
  of the upstream and for the prices of a model that is gone, and negative exactly
  when the amount with its multiplier does not fit: products that wrap around before
  that make a wrong charge, never a negative one. `BalanceCache` assumes of `Actuals`
  that they are not negative.
- `HoldBelowOneIsOverflow`: with a multiplier that is not negative, the estimate is
  below 1 exactly when it does not fit. At least 1 is what `Gateway` and
  `BalanceCache` assume of a cost.

`LimitsProofs`, `ModelConcurrency` (`ConcurrencyAssumption`):

- `NoPlaceLeaks` and `LimitKept`. `LimitRespected` counts the requests that run,
  those let through on a Redis error included, and is not inductive: a request that
  compared its INCR before the key was deleted still runs later. `SlotInv` counts
  all whose INCR answered within the limit.

`LimitsProofs`, `Access` (`AccessAssumption`, which asks for finitely many tiers and
token counts):

- `RateAlwaysBounded`: `AccessSpec => []AtMostTwoWindows`. `WindowInv` splits what is
  remembered at the creation of the present counter: the part since then is what
  the counter says, the part before is one earlier window, and each is at most
  `PerWindow`. Lemma `SumShift` is the passing of a tick, `MaxIs` that a finite set
  of limits has a greatest.
- `WithdrawnAlwaysOut`: `AccessSpec => WithdrawnKeyOut`. `KeyInv` says that no string
  is in two rows, and that every withdrawn one was given out before: so neither a
  new key nor a rotation brings one back.

`FailoverProofs` (`FailoverAssumption`):

- `TypeCorrect`; `ClosedAlwaysBelow`: a closed breaker is below the threshold.
- `OnlyOneProbe`, as long as no administrator probes (`"probe" \notin AdminOps`).
  `ProbeInv`: a half-open spell begins with a claim.
- `ClaimLostOnlyByClaimant`: `Spec => []ProbeOwnedUnlessDropped`, for any channels,
  aborts, video submissions and administration. Lemma `ClaimKept` covers the steps
  that leave the breaker alone, `ClaimNext` goes through the others: each either
  ends the half-open spell and with it the claim, or leaves the claimant at the
  channel or in the history.
- `AlternativesTried`, as long as the pool is not reloaded (`"load" \notin AdminOps`,
  which is what the run has). `LoopInv` counts the channels tried against the
  attempt number.

`AsyncTaskProofs` (`AsyncAssumption`):

- `TypeCorrect`; `ClosedOnceAlone` and `FinishedAlwaysStands`. `AloneInv`: while no two
  handlers have overlapped, at most one is busy, the hold was closed at most once,
  and only after a terminal status was written or nothing was submitted.
- `AlwaysPaidForResult`, if a word that `NormalizeTaskStatus` reads as the end of
  a task is said of a task that ended so (`HonestWords`). `TruthInv` ties the
  status a handler is about to write or close for to what the upstream did.
- `AlwaysBackToItsPools`. `PurseInv` follows a refund from the saved share of the sub
  pool to what the script gave back.

`LedgerProofs` (`LedgerAssumption`; `EventAssumption`: the shop's event ids are
neither NULL nor the ids that sweeps make up, which the code takes for granted;
`PayloadAssumption`: amounts are numbers, dates are ticks):

- `TypeCorrect`, with `FlowInv`: an actor that is about to commit holds the lock and
  what it read is what is there. `AuditAlwaysExact` follows.
- `SweepAlwaysSpares`: `Spec => SweepSparesValid`. `SweepInv` carries the reason of a
  sweep from the listing to its COMMIT.
- `PaidMoneyAlwaysExact`: `Spec => []PaidMoneyExact`: each recorded event counts once,
  because the UNIQUE event id lets the sum over `txs` grow by one event at a time.

Only model-checked: liveness (`EventuallyBilled`, `EventuallyClosed`, `WindowEnds`,
`ExpiredCleared`, `FinishedIsClosed`, `HalfOpenDecided`, `Converges`), which is out of
the prover's reach, as is ENABLED. Every invariant and action property that a
passing run checks is a theorem;
`BilledAtMostOnce` and `ImplementsBillOnce`, which `settle_redelivery` checks with one
worker, are proved for any number under `[]Alone`.

Two components are proved about in one module where it extends both; their
specifications then have names of their own (`AccessSpec`, `ConfigSpec`).

## 5. Not modelled

- Parsing and token counting: token counts, and in all modules but `ConfigSync`
  costs, are inputs. A cost is at least 1 (`HoldBelowOneIsOverflow`).
- One user at a time: users share no balance, and the code locks one row.
- int64 outside `Pricing`: balances, quotas and token counters are unbounded integers
  in the other modules, and a cost there is one that did not overflow
  (`HoldBelowOneIsOverflow` says when it does). So a hold that overflowed to a
  negative amount, and a sum of such amounts that wraps, are outside them. Nor is the
  rounding of a float64 above 2^53 modelled.
- Provider adapters (translation of bodies), audit logs, metrics (nothing reads
  them back), partitions (DDL at start-up and once a day): no protocol of their own.
- Handlers and queries that only read (lists, summaries, statistics), the name of
  an API key, and the status of a user, which nothing in this repository writes.
- Signatures and JSON of webhooks, the site's JWT: an event is one that was
  accepted, a site user one that was let in.
- Wiring, migrations, the mock upstream, and `LoadConfig`, whose result is an input.
- Redis persistence: its keys vanish only by expiry or DEL. A process that dies
  keeps neither goroutines nor deferred calls.

## 6. What remains

The parts of the system that have a protocol are modelled, and every safety
invariant and action property that the runs check is proved. Left to TLC are the liveness properties; their fairness assumptions are in
Section 3.
