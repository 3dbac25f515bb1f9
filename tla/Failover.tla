------------------------------ MODULE Failover ------------------------------
(***************************************************************************)
(* The channel pool: selection of an upstream channel, the circuit breaker *)
(* of every channel, and the retry loop of FallbackTransport.RoundTrip.    *)
(*                                                                         *)
(* breakerMu is taken once per channel, so a selection is a scan of single *)
(* isCircuitBlocked steps that other requests interleave with; Manager.mu  *)
(* is read-locked for the whole scan.  The 30 s cooldown is a flag that    *)
(* time may raise at any moment after the last failure.  Weights decide    *)
(* only how often a channel is picked: the pick is any available one.      *)
(***************************************************************************)
EXTENDS Naturals, FiniteSets

CONSTANTS Channels,     \* channel ids
          Requests,     \* request goroutines, each used again and again
          Async,        \* those of CreateVideoGenerationTask
          Eligible,     \* Eligible[r]: channels with r's capabilities and model
          BadUrl,       \* channels whose base_url does not parse
          MaxRetries,   \* FallbackTransport.MaxRetries (2 in the code)
          Threshold,    \* failureThreshold (5 in the code)
          Aborts,       \* BOOLEAN: may a rewrite fail or a client hang up?
          AdminOps,     \* the admin operations this instance is exposed to
          MaxAdmin      \* how many of them may happen in one behaviour

ASSUME FailoverAssumption ==
  /\ Async \subseteq Requests
  /\ Eligible \in [Requests -> SUBSET Channels]
  /\ BadUrl \subseteq Channels
  /\ MaxRetries \in Nat
  /\ Threshold \in Nat \ {0}
  /\ Aborts \in BOOLEAN
  /\ AdminOps \subseteq {"reset", "probe", "load"}
  /\ MaxAdmin \in Nat

VARIABLES circuit,   \* circuit[c]: state of the breaker of c
          failures,  \* failures[c]: failureCount, counted up to Threshold
          cooled,    \* cooled[c]: cooldownDuration is over since the failure
          probe,     \* probe[c]: probeInFlight
          pool,      \* Manager.channels
          pc,        \* pc[r]: where request r is
          try,       \* try[r]: the loop counter i of RoundTrip
          attempted, \* attempted[r]: attemptedChannels
          first,     \* first[r]: still the pass that excludes attempted[r]
          todo,      \* todo[r]: channels its scan has still to look at
          avail,     \* avail[r]: availableChannels so far
          probers,   \* history: requests let through in this half-open spell
          dropped,   \* history: channels whose prober let go of them
          skipped,   \* history: channels r found blocked since it began
          admin      \* admin operations so far

circuits == <<circuit, failures, cooled, probe, probers>>
breakers == <<circuits, dropped>>
scans    == <<first, todo, avail, skipped>>
vars     == <<breakers, pool, pc, try, attempted, scans, admin>>

(* The channel that r sends to is the one element of avail[r] it kept. *)
Sending(r, c) == pc[r] = "send" /\ avail[r] = {c}

TypeOK ==
  /\ circuit \in [Channels -> {"closed", "half_open", "open"}]
  /\ failures \in [Channels -> 0 .. Threshold]
  /\ cooled \in [Channels -> BOOLEAN]
  /\ probe \in [Channels -> BOOLEAN]
  /\ pool \subseteq Channels
  /\ pc \in [Requests -> {"idle", "scan", "again", "send", "backoff",
                        "exhausted"}]
  /\ try \in [Requests -> 0 .. MaxRetries]
  /\ attempted \in [Requests -> SUBSET Channels]
  /\ first \in [Requests -> BOOLEAN]
  /\ todo \in [Requests -> SUBSET Channels]
  /\ avail \in [Requests -> SUBSET Channels]
  /\ probers \in [Channels -> SUBSET Requests]
  /\ dropped \subseteq Channels
  /\ skipped \in [Requests -> SUBSET Channels]
  /\ admin \in 0 .. MaxAdmin

Init ==
  /\ circuit = [c \in Channels |-> "closed"]
  /\ failures = [c \in Channels |-> 0]
  /\ cooled = [c \in Channels |-> FALSE]
  /\ probe = [c \in Channels |-> FALSE]
  /\ pool = Channels
  /\ pc = [r \in Requests |-> "idle"]
  /\ try = [r \in Requests |-> 0]
  /\ attempted = [r \in Requests |-> {}]
  /\ first = [r \in Requests |-> FALSE]
  /\ todo = [r \in Requests |-> {}]
  /\ avail = [r \in Requests |-> {}]
  /\ probers = [c \in Channels |-> {}]
  /\ dropped = {}
  /\ skipped = [r \in Requests |-> {}]
  /\ admin = 0

-----------------------------------------------------------------------------
(* Circuit breaker.                                                        *)

(* Mutants of MarkChannelFailed: the claim of the probe is kept; the       *)
(* threshold is compared with > instead of >=.                             *)
MarkFailedKeepsProbe(c) ==
  LET n == IF failures[c] < Threshold THEN failures[c] + 1 ELSE Threshold IN
  /\ failures' = [failures EXCEPT ![c] = n]
  /\ cooled' = [cooled EXCEPT ![c] = FALSE]
  /\ UNCHANGED probe
  /\ circuit' = [circuit EXCEPT ![c] =
                   IF @ = "half_open" \/ n >= Threshold THEN "open" ELSE @]
  /\ probers' = [probers EXCEPT ![c] =
                   IF circuit'[c] = circuit[c] THEN @ ELSE {}]
  /\ dropped' = dropped \ {c}

MarkFailedLate(c) ==
  LET n == IF failures[c] < Threshold THEN failures[c] + 1 ELSE Threshold IN
  /\ failures' = [failures EXCEPT ![c] = n]
  /\ cooled' = [cooled EXCEPT ![c] = FALSE]
  /\ probe' = [probe EXCEPT ![c] = FALSE]
  /\ circuit' = [circuit EXCEPT ![c] =
                   IF @ = "half_open" \/ failures[c] >= Threshold THEN "open" ELSE @]
  /\ probers' = [probers EXCEPT ![c] =
                   IF circuit'[c] = circuit[c] THEN @ ELSE {}]
  /\ dropped' = dropped \ {c}

(* Mutant of MarkChannelSucceeded: the counters are reset, the state not. *)
MarkSucceededKeepsState(c) ==
  /\ failures' = [failures EXCEPT ![c] = 0]
  /\ probe' = [probe EXCEPT ![c] = FALSE]
  /\ UNCHANGED <<circuit, probers, dropped, cooled>>

(* The breaker of c moves to state s; a half-open spell ends or begins. *)
SetCircuit(c, s) ==
  /\ circuit' = [circuit EXCEPT ![c] = s]
  /\ probers' = [probers EXCEPT ![c] = {}]
  /\ dropped' = dropped \ {c}

MarkChannelFailed(c) ==
  LET n == IF failures[c] < Threshold THEN failures[c] + 1 ELSE Threshold IN
  /\ failures' = [failures EXCEPT ![c] = n]
  /\ cooled' = [cooled EXCEPT ![c] = FALSE]
  /\ probe' = [probe EXCEPT ![c] = FALSE]
  /\ IF circuit[c] = "half_open" \/ n >= Threshold
       THEN SetCircuit(c, "open")
       ELSE UNCHANGED <<circuit, probers, dropped>>

MarkChannelSucceeded(c) ==
  /\ SetCircuit(c, "closed")
  /\ failures' = [failures EXCEPT ![c] = 0]
  /\ probe' = [probe EXCEPT ![c] = FALSE]
  /\ UNCHANGED cooled

(* Time passes. *)
Cooldown(c) ==
  /\ circuit[c] = "open" /\ ~cooled[c]
  /\ cooled' = [cooled EXCEPT ![c] = TRUE]
  /\ UNCHANGED <<circuit, failures, probe, probers, dropped, pool, pc, try,
                 attempted, scans, admin>>

-----------------------------------------------------------------------------
(* getNextChannel.                                                         *)

(* Mutant of StartScan: attemptedChannels is never consulted. *)
StartScanAll(r, excluding, tried) ==
  /\ pc' = [pc EXCEPT ![r] = "scan"]
  /\ first' = [first EXCEPT ![r] = excluding]
  /\ todo' = [todo EXCEPT ![r] = pool]
  /\ avail' = [avail EXCEPT ![r] = {}]

(* One call of getNextChannel: the read lock is taken, the range starts. *)
StartScan(r, excluding, tried) ==
  /\ pc' = [pc EXCEPT ![r] = "scan"]
  /\ first' = [first EXCEPT ![r] = excluding]
  /\ todo' = [todo EXCEPT ![r] = IF excluding THEN pool \ tried ELSE pool]
  /\ avail' = [avail EXCEPT ![r] = {}]

(* RoundTrip begins; the async handler asks once, excluding nothing. *)
Begin(r) ==
  /\ pc[r] \in {"idle", "exhausted"}
  /\ StartScan(r, r \notin Async, {})
  /\ try' = [try EXCEPT ![r] = 0]
  /\ attempted' = [attempted EXCEPT ![r] = {}]
  /\ skipped' = [skipped EXCEPT ![r] = {}]
  /\ UNCHANGED <<breakers, pool, admin>>

(* Mutant of Blocked: a half-open channel is not held back. *)
BlockedOnlyOpen(c) == circuit[c] = "open" /\ ~cooled[c]

Blocked(c) ==
  \/ circuit[c] = "open" /\ ~cooled[c]
  \/ circuit[c] = "half_open" /\ probe[c]

(* isCircuitBlocked of one channel (it turns a cooled breaker half-open    *)
(* and claims the probe), then the async, capability and model filters.    *)
isCircuitBlocked(r, c) ==
  /\ pc[r] = "scan" /\ c \in todo[r]
  /\ todo' = [todo EXCEPT ![r] = @ \ {c}]
  /\ \/ /\ Blocked(c)
        /\ skipped' = [skipped EXCEPT ![r] = @ \cup {c}]
        /\ UNCHANGED <<circuit, probe, probers, dropped, avail>>
     \/ /\ ~Blocked(c)
        /\ IF circuit[c] = "open"
             THEN /\ circuit' = [circuit EXCEPT ![c] = "half_open"]
                  /\ probe' = [probe EXCEPT ![c] = TRUE]
                  /\ probers' = [probers EXCEPT ![c] = {r}]
                  /\ dropped' = IF c \in Eligible[r] THEN dropped ELSE dropped \cup {c}
             ELSE /\ UNCHANGED <<circuit, probe, dropped>>
                  /\ probers' = IF circuit[c] = "half_open"
                                  THEN [probers EXCEPT ![c] = @ \cup {r}]
                                  ELSE probers
        /\ avail' = [avail EXCEPT ![r] =
                       IF c \in Eligible[r] THEN @ \cup {c} ELSE @]
        /\ UNCHANGED skipped
  /\ UNCHANGED <<failures, cooled, pool, pc, try, attempted, first, admin>>

(* r is done with the channels of S, whose probes it may have claimed. *)
LetGo(r, S) == dropped' = dropped \cup {c \in S : probe[c] /\ r \in probers[c]}

(* pickWeightedChannel, and the read lock is released.  With nothing       *)
(* available RoundTrip asks again without exclusions, and after that the   *)
(* request ends with "no available channels".                              *)
PickChannel(r) ==
  /\ pc[r] = "scan" /\ todo[r] = {}
  /\ \/ \E c \in avail[r] :
          /\ avail' = [avail EXCEPT ![r] = {c}]
          /\ LetGo(r, avail[r] \ {c})
          /\ pc' = [pc EXCEPT ![r] = "send"]
          /\ UNCHANGED <<first, todo>>
     \/ /\ avail[r] = {}
        /\ pc' = [pc EXCEPT ![r] = IF first[r] THEN "again" ELSE "idle"]
        /\ UNCHANGED <<first, todo, avail, dropped>>
  /\ UNCHANGED <<circuits, pool, try, attempted, skipped, admin>>

(* The second pass may land on a channel that already failed r. *)
ScanAgain(r) ==
  /\ pc[r] = "again"
  /\ StartScan(r, FALSE, {})
  /\ UNCHANGED <<breakers, pool, try, attempted, skipped, admin>>

-----------------------------------------------------------------------------
(* FallbackTransport.RoundTrip after a channel was picked.                 *)

Finish(r, where) ==
  /\ pc' = [pc EXCEPT ![r] = where]
  /\ avail' = [avail EXCEPT ![r] = {}]

(* The upstream answers with anything but 429 or 5xx. *)
AttemptSucceeds(r) ==
  /\ r \notin Async
  /\ \E c \in Channels \ BadUrl : Sending(r, c) /\ MarkChannelSucceeded(c)
  /\ Finish(r, "idle")
  /\ UNCHANGED <<pool, try, attempted, first, todo, skipped, admin>>

(* 429, 5xx, a transport error (a cancelled request is one too) or a bad   *)
(* base_url: the channel is marked and the loop goes on while it may.      *)
AttemptFails(r) ==
  /\ r \notin Async
  /\ \E c \in Channels :
       /\ Sending(r, c)
       /\ MarkChannelFailed(c)
       /\ attempted' = [attempted EXCEPT ![r] = @ \cup {c}]
  /\ Finish(r, IF try[r] < MaxRetries THEN "backoff" ELSE "exhausted")
  /\ UNCHANGED <<pool, try, first, todo, skipped, admin>>

Retry(r) ==
  /\ pc[r] = "backoff"
  /\ StartScan(r, TRUE, attempted[r])
  /\ try' = [try EXCEPT ![r] = @ + 1]
  /\ UNCHANGED <<breakers, pool, attempted, skipped, admin>>

(* RewriteRequest or the auth strategy fails after the pick, or the client *)
(* hangs up during the backoff: RoundTrip returns and marks nothing.       *)
Abort(r) ==
  /\ Aborts
  /\ r \notin Async
  /\ pc[r] \in {"send", "backoff"}
  /\ LetGo(r, avail[r])
  /\ Finish(r, "idle")
  /\ UNCHANGED <<circuits, pool, try, attempted, first, todo, skipped, admin>>

(* CreateVideoGenerationTask submits to the channel and marks nothing. *)
SubmitAsync(r) ==
  /\ r \in Async
  /\ pc[r] = "send"
  /\ LetGo(r, avail[r])
  /\ Finish(r, "idle")
  /\ UNCHANGED <<circuits, pool, try, attempted, first, todo, skipped, admin>>

-----------------------------------------------------------------------------
(* Admin operations.                                                       *)

AdminOp(op) ==
  /\ op \in AdminOps
  /\ admin < MaxAdmin
  /\ admin' = admin + 1
  /\ UNCHANGED <<pc, try, attempted, scans>>

ResetCircuitBreaker(c) ==
  /\ AdminOp("reset")
  /\ MarkChannelSucceeded(c)
  /\ UNCHANGED pool

ProbeChannel(c) ==
  /\ AdminOp("probe")
  /\ SetCircuit(c, "half_open")
  /\ failures' = [failures EXCEPT ![c] = 0]
  /\ probe' = [probe EXCEPT ![c] = FALSE]
  /\ UNCHANGED <<cooled, pool>>

(* LoadChannels takes Manager.mu, so not while a scan holds it for reading. *)
LoadChannels ==
  /\ AdminOp("load")
  /\ \A r \in Requests : pc[r] # "scan"
  /\ \E P \in SUBSET Channels : pool' = P
  /\ UNCHANGED breakers

-----------------------------------------------------------------------------
RequestStep(r) ==
  \/ Begin(r) \/ (\E c \in Channels : isCircuitBlocked(r, c)) \/ PickChannel(r)
  \/ ScanAgain(r)
  \/ AttemptSucceeds(r) \/ AttemptFails(r) \/ Retry(r) \/ Abort(r)
  \/ SubmitAsync(r)

Next ==
  \/ \E r \in Requests : RequestStep(r)
  \/ \E c \in Channels :
       Cooldown(c) \/ ResetCircuitBreaker(c) \/ ProbeChannel(c)
  \/ LoadChannels

Spec == Init /\ [][Next]_vars

(* A request that runs goes on: the scan does not block, every upstream    *)
(* read has an idle timeout, the backoff is a timer.  Nothing obliges a    *)
(* client to send another request.                                         *)
Fairness ==
  \A r \in Requests :
    WF_vars(/\ pc[r] \in {"scan", "again", "send", "backoff"}
            /\ RequestStep(r))

FairSpec == Spec /\ Fairness

-----------------------------------------------------------------------------
(* Properties.                                                             *)

(* Between turning half-open and the verdict, one request at most is let   *)
(* through to a channel ("only one probe request", isCircuitBlocked and    *)
(* ProbeChannel).                                                          *)
OneProbe ==
  \A c \in Channels :
    circuit[c] = "half_open" => Cardinality(probers[c]) <= 1

(* The request that claimed the probe of c still chooses c or sends to it. *)
HasProber(c) ==
  \E r \in probers[c] : pc[r] \in {"scan", "send"} /\ c \in avail[r]

(* A claimed probe that nobody will report on was let go by the request    *)
(* that claimed it: it was filtered out after the claim, took another      *)
(* channel, gave up after the pick or was a video submission.  No report   *)
(* of another request, reload, reset or manual probe leaves a claim behind. *)
ProbeOwnedUnlessDropped ==
  \A c \in Channels :
    probe[c] => circuit[c] = "half_open" /\ (HasProber(c) \/ c \in dropped)

(* A half-open breaker is decided: it opens or closes again. *)
HalfOpenDecided ==
  \A c \in Channels :
    (circuit[c] = "half_open") ~> (circuit[c] # "half_open")

(* A request that used up its attempts has tried every channel of the pool *)
(* that could serve it, save the ones it found blocked, unless it ran out  *)
(* of attempts on distinct channels.                                       *)
TriedAlternatives ==
  \A r \in Requests :
    pc[r] = "exhausted" =>
      \/ Cardinality(attempted[r]) = MaxRetries + 1
      \/ pool \cap Eligible[r] \subseteq attempted[r] \cup skipped[r]

(* No run of failures keeps a channel in circulation: a closed breaker has  *)
(* seen fewer than failureThreshold of them since the last success, reset   *)
(* or probe, whatever the order in which concurrent requests report.        *)
ClosedStaysBelow ==
  \A c \in Channels : circuit[c] = "closed" => failures[c] < Threshold
=============================================================================
