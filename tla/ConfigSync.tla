----------------------------- MODULE ConfigSync ----------------------------
(***************************************************************************)
(* The models and channels of the database, their copies in a gateway's    *)
(* memory, and the requests priced from those copies.  Administrators      *)
(* change rows and publish a refresh that may be lost; two loops reload    *)
(* everything, one when a refresh arrives and one when its ticker fires.   *)
(* Reading a table and storing the result are separate steps, because the  *)
(* lock is taken after the query; so are LoadModel's.  A query may fail.   *)
(***************************************************************************)
EXTENDS Pricing, FiniteSets

CONSTANTS Models,       \* model names
          Channels,     \* channel ids
          ModelRows,    \* what an administrator may store for a model
          ChannelRows,  \* what an administrator may store for a channel
          PricedRequests,
          Asks,         \* what a request may ask: [model, type, n, prompt, max, defaultMax]
          Usages,       \* what the upstream may report as used
          None,         \* no such row
          MaxWrites     \* bound on the administrators' writes

(* Prices are BIGINT columns, counts 64-bit integers and multipliers       *)
(* finite floats; nothing keeps a price or a count from being negative.    *)
ASSUME ConfigAssumption ==
  /\ None \notin ModelRows \cup ChannelRows
  /\ ModelRows \subseteq
       [on : BOOLEAN, modality : STRING, mode : STRING, input : Int64, output : Int64,
        hit : Int64, miss : Int64, request : Int64, mult : [num : Int, den : Nat \ {0}]]
  /\ Asks \subseteq [model : Models, type : STRING, n : Int64, prompt : Int64,
                    max : Int64, defaultMax : Int64]
  /\ Usages \subseteq [prompt : Int64, completion : Int64, hit : Int64, miss : Int64]
  /\ MaxWrites \in Nat

VARIABLES
  models,        \* [Models -> row or None], the table
  channels,      \* [Channels -> row or None], the table
  modelCache,    \* ModelManager.models
  channelCache,  \* Manager.channels
  messages,      \* refresh messages the subscriber has not read
  loop,          \* [Loops -> [at, got]]
  req,           \* [PricedRequests -> record, see Fresh]
  writes         \* how many there were, for the bound

tables == <<models, channels>>
caches == <<modelCache, channelCache>>
configVars == <<models, channels, modelCache, channelCache, messages, loop, req,
                writes>>

Loops == {"pubsub", "periodic"}

(* The rows with status 1. *)
Active(table) ==
  [k \in DOMAIN table |-> IF table[k] = None \/ ~table[k].on THEN None ELSE table[k]]

listActiveModels == Active(models)
listActiveChannels == Active(channels)
getModelByName(m) == Active(models)[m]

Empty(keys) == [k \in keys |-> None]

Idle == [at |-> "idle", got |-> None]

(* `at` is where the request is, `ask` what it asks, `got` the row that    *)
(* LoadModel read, `est` and `act` the rows it is estimated and settled    *)
(* with.  History: `why` says what happened since it arrived that may      *)
(* leave it without a price, "gone" for a model that was not active and    *)
(* "error" for a failed query.                                             *)
Fresh == [at |-> "none", ask |-> None, got |-> None, est |-> None, act |-> None,
          why |-> {}]

(* The first load may fail; the gateway starts all the same. *)
StartBackgroundSync ==
  /\ modelCache \in {listActiveModels, Empty(Models)}
  /\ channelCache \in {listActiveChannels, Empty(Channels)}

ConfigInit ==
  /\ models \in [Models -> ModelRows \cup {None}]
  /\ channels \in [Channels -> ChannelRows \cup {None}]
  /\ StartBackgroundSync
  /\ messages = 0
  /\ loop = [l \in Loops |-> Idle]
  /\ req = [r \in PricedRequests |-> Fresh]
  /\ writes = 0

-----------------------------------------------------------------------------
(* Administrators.                                                         *)

(* The result of Publish is ignored: the message may be lost. *)
notifyConfigRefresh == messages' \in {messages, messages + 1}

(* Arrived, and neither settled nor turned away. *)
Under == {"admit", "admitRead", "admitStore", "slot", "slotRead", "slotStore",
          "sent", "settle", "settleRead", "settleStore"}

(* History: the model of a request under way is not active any more. *)
NoteGone ==
  req' = [r \in PricedRequests |->
            IF req[r].at \in Under /\ Active(models')[req[r].ask.model] = None
            THEN [req[r] EXCEPT !.why = @ \cup {"gone"}] ELSE req[r]]

Write ==
  /\ writes < MaxWrites
  /\ writes' = writes + 1
  /\ notifyConfigRefresh
  /\ NoteGone
  /\ UNCHANGED <<modelCache, channelCache, loop>>

(* The statements.  A name is unique, so that inserting it again fails; an *)
(* update RETURNs its row and fails without one; a delete never does.      *)
createModel(m, row) == models[m] = None /\ models' = [models EXCEPT ![m] = row]
updateModel(m, row) == models[m] # None /\ models' = [models EXCEPT ![m] = row]
deleteModel(m) == models' = [models EXCEPT ![m] = None]
createChannel(c, row) == channels[c] = None /\ channels' = [channels EXCEPT ![c] = row]
updateChannel(c, row) == channels[c] # None /\ channels' = [channels EXCEPT ![c] = row]
deleteChannel(c) == channels' = [channels EXCEPT ![c] = None]

(* The handlers: a statement that fails is answered and changes nothing. *)
CreateModel(m, row) == createModel(m, row) /\ UNCHANGED channels /\ Write
UpdateModel(m, row) == updateModel(m, row) /\ UNCHANGED channels /\ Write
DeleteModel(m) == deleteModel(m) /\ UNCHANGED channels /\ Write
CreateChannel(c, row) == createChannel(c, row) /\ UNCHANGED models /\ Write
UpdateChannel(c, row) == updateChannel(c, row) /\ UNCHANGED models /\ Write
DeleteChannel(c) == deleteChannel(c) /\ UNCHANGED models /\ Write

-----------------------------------------------------------------------------
(* The two loops.                                                          *)

Goes(l, at, got) == loop' = [loop EXCEPT ![l] = [at |-> at, got |-> got]]

(* The ticker fires, or a message is read: the first query follows. *)
Woken(l) ==
  /\ loop[l].at = "idle"
  /\ l = "pubsub" => messages > 0
  /\ messages' = IF l = "pubsub" THEN messages - 1 ELSE messages

ListActiveChannels(l) ==
  /\ Woken(l)
  /\ Goes(l, "storeChannels", listActiveChannels)
  /\ UNCHANGED <<tables, caches, req, writes>>

LoadChannels(l) ==
  /\ loop[l].at = "storeChannels"
  /\ channelCache' = loop[l].got
  /\ Goes(l, "models", None)
  /\ UNCHANGED <<tables, modelCache, messages, req, writes>>

ListActiveModels(l) ==
  /\ loop[l].at = "models"
  /\ Goes(l, "storeModels", listActiveModels)
  /\ UNCHANGED <<tables, caches, messages, req, writes>>

(* Mutant of LoadAllModels: what was read is merged into the map. *)
LoadAllModelsMerging(l) ==
  /\ loop[l].at = "storeModels"
  /\ modelCache' = [m \in Models |-> IF loop[l].got[m] = None THEN modelCache[m]
                                     ELSE loop[l].got[m]]
  /\ Goes(l, "idle", None)
  /\ UNCHANGED <<tables, channelCache, messages, req, writes>>

LoadAllModels(l) ==
  /\ loop[l].at = "storeModels"
  /\ modelCache' = loop[l].got
  /\ Goes(l, "idle", None)
  /\ UNCHANGED <<tables, channelCache, messages, req, writes>>

(* A query of the loop fails: that copy stays, the loop goes on. *)
QueryFails(l) ==
  /\ \/ Woken(l) /\ Goes(l, "models", None)
     \/ loop[l].at = "models" /\ Goes(l, "idle", None) /\ UNCHANGED messages
  /\ UNCHANGED <<tables, caches, req, writes>>

(* The loop panics and SafeGo starts it again; what reaches the subscriber *)
(* between its subscriptions is lost.                                      *)
SafeGo(l) ==
  /\ loop[l].at # "idle"
  /\ Goes(l, "idle", None)
  /\ messages' \in IF l = "pubsub" THEN 0 .. messages ELSE {messages}
  /\ UNCHANGED <<tables, caches, req, writes>>

-----------------------------------------------------------------------------
(* Requests.  A request looks its model up three times: to estimate, for   *)
(* its concurrency slot, and when the upstream has answered.               *)

Step(r, new) ==
  /\ req' = [req EXCEPT ![r] = new]
  /\ UNCHANGED <<tables, channelCache, messages, loop, writes>>

Arrive(r, q) ==
  /\ req[r].at = "none"
  /\ Step(r, [Fresh EXCEPT !.at = "admit", !.ask = q,
                !.why = IF Active(models)[q.model] = None THEN {"gone"} ELSE {}])
  /\ UNCHANGED modelCache

ModalityMatches(row, q) ==
  row.modality \in IF q.type = "image_generation" THEN {"image"} ELSE {"text", "vision"}

(* What each lookup does with the row it gets. *)
Found(r, at, row) ==
  LET R == req[r] IN
  CASE at = "admit" -> IF ModalityMatches(row, req[r].ask)
                       THEN [R EXCEPT !.at = "slot", !.got = None, !.est = row]
                       ELSE [R EXCEPT !.at = "mismatch", !.got = None]
    [] at = "slot" -> [R EXCEPT !.at = "sent", !.got = None]
    [] at = "settle" -> [R EXCEPT !.at = "priced", !.got = None, !.act = row]

(* Unsupported before it is sent, with the deduction given back if there   *)
(* was one; free of charge afterwards.                                     *)
NotFound(r, at, why) ==
  IF at = "settle"
  THEN [req[r] EXCEPT !.at = "priced", !.act = NoPrices, !.why = @ \cup why]
  ELSE [req[r] EXCEPT !.at = "unsupported", !.why = @ \cup why]

Lookups == {"admit", "slot", "settle"}
ReadAt == [admit |-> "admitRead", slot |-> "slotRead", settle |-> "settleRead"]
StoreAt == [admit |-> "admitStore", slot |-> "slotStore", settle |-> "settleStore"]

(* Mutant of GetModel: what is not in memory does not exist. *)
GetModelCached(r, at) ==
  /\ req[r].at = at
  /\ LET row == modelCache[req[r].ask.model] IN
     Step(r, IF row # None THEN Found(r, at, row) ELSE NotFound(r, at, {}))
  /\ UNCHANGED modelCache

(* A hit is used as it is; a miss goes to LoadModel. *)
GetModel(r, at) ==
  /\ req[r].at = at
  /\ LET row == modelCache[req[r].ask.model] IN
     Step(r, IF row # None THEN Found(r, at, row) ELSE [req[r] EXCEPT !.at = ReadAt[at]])
  /\ UNCHANGED modelCache

GetModelByName(r, at) ==
  /\ req[r].at = ReadAt[at]
  /\ LET row == getModelByName(req[r].ask.model) IN
     Step(r, IF row # None THEN [req[r] EXCEPT !.at = StoreAt[at], !.got = row]
             ELSE NotFound(r, at, {}))
  /\ UNCHANGED modelCache

GetModelFails(r, at) ==
  /\ req[r].at = ReadAt[at]
  /\ Step(r, NotFound(r, at, {"error"}))
  /\ UNCHANGED modelCache

(* The row read is put into the map and used, whatever the map holds now. *)
LoadModel(r, at) ==
  /\ req[r].at = StoreAt[at]
  /\ Step(r, Found(r, at, req[r].got))
  /\ modelCache' = [modelCache EXCEPT ![req[r].ask.model] = req[r].got]

(* The upstream answers, or does not and the deduction is given back. *)
Answer(r) ==
  /\ req[r].at = "sent"
  /\ Step(r, [req[r] EXCEPT !.at = "settle"])
  /\ UNCHANGED modelCache

NoAnswer(r) ==
  /\ req[r].at = "sent"
  /\ Step(r, [req[r] EXCEPT !.at = "refunded"])
  /\ UNCHANGED modelCache

(* The body has been read to its end and says what was used: the cost is   *)
(* computed from the row found before, and settled.                        *)
onComplete(r) ==
  /\ req[r].at = "priced"
  /\ Step(r, [Fresh EXCEPT !.at = "settled"])
  /\ UNCHANGED modelCache

-----------------------------------------------------------------------------
Admin ==
  \/ \E m \in Models, row \in ModelRows : CreateModel(m, row) \/ UpdateModel(m, row)
  \/ \E m \in Models : DeleteModel(m)
  \/ \E c \in Channels, row \in ChannelRows : CreateChannel(c, row) \/ UpdateChannel(c, row)
  \/ \E c \in Channels : DeleteChannel(c)

Refresh(l) ==
  \/ ListActiveChannels(l) \/ LoadChannels(l)
  \/ ListActiveModels(l) \/ LoadAllModels(l)
  \/ QueryFails(l)
  \/ SafeGo(l)

Serve(r) ==
  \/ \E q \in Asks : Arrive(r, q)
  \/ \E at \in Lookups : \/ GetModel(r, at) \/ LoadModel(r, at)
                         \/ GetModelByName(r, at) \/ GetModelFails(r, at)
  \/ Answer(r) \/ NoAnswer(r) \/ onComplete(r)

ConfigNext ==
  Admin \/ (\E l \in Loops : Refresh(l)) \/ (\E r \in PricedRequests : Serve(r))

(* The ticker keeps firing and the loop it wakes is scheduled; neither a    *)
(* failing query nor a panic hits the same step for ever.  Nothing is      *)
(* assumed of the subscription.                                            *)
ConfigFairness ==
  /\ SF_configVars(ListActiveChannels("periodic"))
  /\ SF_configVars(LoadChannels("periodic"))
  /\ SF_configVars(ListActiveModels("periodic"))
  /\ SF_configVars(LoadAllModels("periodic"))

ConfigSpec == ConfigInit /\ [][ConfigNext]_configVars /\ ConfigFairness

-----------------------------------------------------------------------------
(* Properties.                                                             *)

Records ==
  [at : Under \cup {"none", "mismatch", "unsupported", "refunded", "priced", "settled"},
   ask : Asks \cup {None}, got : ModelRows \cup {None}, est : ModelRows \cup {None},
   act : ModelRows \cup {None, NoPrices}, why : SUBSET {"gone", "error"}]

ConfigTypeOK ==
  /\ models \in [Models -> ModelRows \cup {None}]
  /\ channels \in [Channels -> ChannelRows \cup {None}]
  /\ modelCache \in [Models -> ModelRows \cup {None}]
  /\ channelCache \in [Channels -> ChannelRows \cup {None}]
  /\ messages \in 0 .. MaxWrites
  /\ \A l \in Loops : loop[l].at \in
       {"idle", "storeChannels", "models", "storeModels"}
  /\ req \in [PricedRequests -> Records]

(* Once the administrators stop, memory comes to hold exactly the active   *)
(* rows and stays so, with every refresh message lost, queries failing,    *)
(* the two loops storing in the opposite order of their reads, and         *)
(* requests putting back rows that are gone.                               *)
Converges ==
  <>[](modelCache = Active(models) /\ channelCache = Active(channels))

(* A request is turned away as unsupported, or settled free of charge,     *)
(* only if its model was not active at some moment since it arrived, or a  *)
(* query failed: a refresh that empties the map under it is no reason.     *)
PricedUnlessGone ==
  \A r \in PricedRequests :
    req[r].at = "unsupported" \/ (req[r].at = "priced" /\ req[r].act = NoPrices)
      => req[r].why # {}

(* The reasons for which the actual cost may exceed what was held.         *)
Within(q, u) ==
  /\ u.prompt <= q.prompt
  /\ u.completion <= maxOutputTokens(q)
  /\ u.hit >= 0 /\ u.miss >= 0 /\ u.hit + u.miss <= u.prompt
Consistent(q, row) ==
  /\ row.mult.num > 0
  /\ row.input >= 0 /\ row.output >= 0
  /\ row.hit <= row.input /\ row.miss <= row.input
  /\ q.type = "image_generation" => row.mode = "request"

Fits(row, q, u) ==
  /\ {estimatedTotal(row, q), actualTotal(row, q, u)} \subseteq Int64
  /\ Ceil(estimatedBaseCost(row, q) * row.mult.num, row.mult.den) \in Int64

(* What was held covers the actual cost, unless the row changed while the  *)
(* request ran, has no multiplier or a price below zero, prices cached     *)
(* tokens above others or images by token, the upstream used more than     *)
(* was estimated or reports cached tokens that do not add up, or an amount *)
(* does not fit in 64 bits, as n or max_tokens of the request may cause.   *)
EstimateCovers ==
  \A r \in PricedRequests : \A u \in Usages :
    LET R == req[r] IN
      /\ R.at = "priced" /\ R.act = R.est
      /\ Within(R.ask, u) /\ Consistent(R.ask, R.est) /\ Fits(R.est, R.ask, u)
      => computeActualCost(R.act, R.ask, u) <= estimatedCost(R.est, R.ask)
=============================================================================
