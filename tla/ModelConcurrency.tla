-------------------------- MODULE ModelConcurrency --------------------------
(***************************************************************************)
(* The global concurrency limit of one model: a counter in Redis that      *)
(* every gateway process increments before a request and decrements after  *)
(* it.  Each Redis command is one step; nothing ties INCR, EXPIRE, DECR    *)
(* and DEL of one request together.                                        *)
(*                                                                         *)
(* The 15 minutes of modelConcurrencyKeyTTL are two ticks without EXPIRE.  *)
(***************************************************************************)
EXTENDS Integers, FiniteSets

CONSTANTS Requests,  \* request goroutines of all processes, used again
          Limit,     \* models.max_concurrency, positive
          LongRuns,  \* BOOLEAN: may a request outlive the TTL of the key?
          Faults,    \* the kinds of failure this instance is exposed to
          MaxFaults  \* how many failures may happen in one behaviour

ASSUME ConcurrencyAssumption ==
  /\ IsFiniteSet(Requests)
  /\ Limit \in Nat \ {0}
  /\ LongRuns \in BOOLEAN
  /\ Faults \subseteq {"redis", "crash"}
  /\ MaxFaults \in Nat

VARIABLES count,   \* value of concurrency:model:<name>, 0 if absent
          ttl,     \* "absent", "none" (no expiry set), "fresh" or "old"
          pc,      \* pc[r]: where request r is
          current, \* current[r]: what its INCR returned
          leaked,  \* history: places whose owner died or never heard of it
          faults   \* failures so far

vars == <<count, ttl, pc, current, leaked, faults>>

PCs == {"idle", "expire", "undo", "holding", "unlimited", "del"}

TypeOK ==
  /\ count \in Int
  /\ ttl \in {"absent", "none", "fresh", "old"}
  /\ pc \in [Requests -> PCs]
  /\ current \in [Requests -> Int]
  /\ leaked \in Nat
  /\ faults \in 0 .. MaxFaults

Init ==
  /\ count = 0
  /\ ttl = "absent"
  /\ pc = [r \in Requests |-> "idle"]
  /\ current = [r \in Requests |-> 0]
  /\ leaked = 0
  /\ faults = 0

-----------------------------------------------------------------------------
Fault(kind) ==
  /\ kind \in Faults
  /\ faults < MaxFaults
  /\ faults' = faults + 1

Goto(r, where) == pc' = [pc EXCEPT ![r] = where]

(* INCR and DECR; both create a missing key, without an expiry. *)
Add(n) ==
  /\ count' = count + n
  /\ ttl' = IF ttl = "absent" THEN "none" ELSE ttl

-----------------------------------------------------------------------------
(* acquireModelConcurrencySlot.                                            *)

Incr(r) ==
  /\ pc[r] = "idle"
  /\ Add(1)
  /\ current' = [current EXCEPT ![r] = count + 1]
  /\ Goto(r, "expire")
  /\ UNCHANGED <<leaked, faults>>

(* INCR errs, done or not: the request goes on without a place.  Its        *)
(* context is the client's, so a client that hangs up is such an error.     *)
IncrFails(r) ==
  /\ pc[r] = "idle"
  /\ Fault("redis")
  /\ \/ UNCHANGED <<count, ttl, leaked>>
     \/ Add(1) /\ leaked' = leaked + 1
  /\ Goto(r, "unlimited")
  /\ UNCHANGED current

(* Mutant of Expire: one request too many. *)
ExpireOneMore(r) ==
  /\ pc[r] = "expire"
  /\ ttl' = IF ttl = "absent" THEN ttl ELSE "fresh"
  /\ Goto(r, IF current[r] > Limit + 1 THEN "undo" ELSE "holding")
  /\ UNCHANGED <<count, current, leaked, faults>>

(* EXPIRE, which a refused request does too, then the comparison. *)
Expire(r) ==
  /\ pc[r] = "expire"
  /\ ttl' = IF ttl = "absent" THEN ttl ELSE "fresh"
  /\ Goto(r, IF current[r] > Limit THEN "undo" ELSE "holding")
  /\ UNCHANGED <<count, current, leaked, faults>>

(* EXPIRE errs: the INCR is taken back, unless that errs too (its error is  *)
(* ignored), and the request goes on without a place.                       *)
ExpireFails(r) ==
  /\ pc[r] = "expire"
  /\ Fault("redis")
  /\ \/ Add(-1) /\ UNCHANGED leaked
     \/ leaked' = leaked + 1 /\ UNCHANGED <<count, ttl>>
  /\ Goto(r, "unlimited")
  /\ UNCHANGED current

(* Mutant of Undo: the refused request leaves its INCR behind. *)
UndoForgotten(r) ==
  /\ pc[r] = "undo"
  /\ Goto(r, "idle")
  /\ UNCHANGED <<count, ttl, current, leaked, faults>>

(* Over the limit: DECR (its error ignored), refund, 429. *)
Undo(r) ==
  /\ pc[r] = "undo"
  /\ \/ Add(-1) /\ UNCHANGED <<leaked, faults>>
     \/ Fault("redis") /\ leaked' = leaked + 1 /\ UNCHANGED <<count, ttl>>
  /\ Goto(r, "idle")
  /\ UNCHANGED current

-----------------------------------------------------------------------------
(* The deferred release().                                                 *)

Decr(r) ==
  /\ pc[r] = "holding"
  /\ Add(-1)
  /\ Goto(r, IF count - 1 <= 0 THEN "del" ELSE "idle")
  /\ UNCHANGED <<current, leaked, faults>>

DecrFails(r) ==
  /\ pc[r] = "holding"
  /\ Fault("redis")
  /\ \/ Add(-1) /\ UNCHANGED leaked
     \/ leaked' = leaked + 1 /\ UNCHANGED <<count, ttl>>
  /\ Goto(r, "idle")
  /\ UNCHANGED current

Del(r) ==
  /\ pc[r] = "del"
  /\ \/ count' = 0 /\ ttl' = "absent" /\ UNCHANGED faults
     \/ Fault("redis") /\ UNCHANGED <<count, ttl>>
  /\ Goto(r, "idle")
  /\ UNCHANGED <<current, leaked>>

(* A request let through without a place ends. *)
Finish(r) ==
  /\ pc[r] = "unlimited"
  /\ Goto(r, "idle")
  /\ UNCHANGED <<count, ttl, current, leaked, faults>>

-----------------------------------------------------------------------------
(* Requests whose INCR stands and has not been taken back. *)
Claiming == {r \in Requests : pc[r] \in {"expire", "undo", "holding"}}

(* A process dies with all of its requests; no deferred call runs. *)
Crash ==
  /\ Fault("crash")
  /\ \E S \in SUBSET Requests :
       /\ leaked' = leaked + Cardinality(S \cap Claiming)
       /\ pc' = [r \in Requests |-> IF r \in S THEN "idle" ELSE pc[r]]
  /\ UNCHANGED <<count, ttl, current>>

(* Time passes; a key that was not refreshed in time expires. *)
Tick ==
  /\ LongRuns \/ \A r \in Requests : pc[r] = "idle"
  /\ \/ ttl = "fresh" /\ ttl' = "old" /\ UNCHANGED count
     \/ ttl = "old" /\ ttl' = "absent" /\ count' = 0
  /\ UNCHANGED <<pc, current, leaked, faults>>

-----------------------------------------------------------------------------
RequestStep(r) ==
  \/ Incr(r) \/ IncrFails(r) \/ Expire(r) \/ ExpireFails(r) \/ Undo(r)
  \/ Decr(r) \/ DecrFails(r) \/ Del(r) \/ Finish(r)

Next == (\E r \in Requests : RequestStep(r)) \/ Crash \/ Tick

Spec == Init /\ [][Next]_vars

-----------------------------------------------------------------------------
(* Properties.                                                             *)

(* Requests of the model that run: with a place, or without one because    *)
(* Redis erred.                                                            *)
LetThrough == {r \in Requests : pc[r] = "unlimited"}
Running == {r \in Requests : pc[r] = "holding"} \cup LetThrough

(* More requests of the model than its max_concurrency run only by as many *)
(* as were let through on a Redis error and still run, and as many as the  *)
(* counter has forgotten (deleted or expired under their owners): while it *)
(* counts every place the limit is kept by all others, although each       *)
(* compares a value that is old by the time it runs.                       *)
LimitRespected ==
  LET forgotten == Cardinality(Claiming) + leaked - count
  IN  Cardinality(Running) <= Limit + forgotten + Cardinality(LetThrough)

(* No request is refused for a place nobody has: the counter never exceeds *)
(* the requests that are in it, but for places lost to crashes and errors, *)
(* however the INCR, DECR, DEL and expiry of different requests interleave. *)
NoLeakedSlot == count <= Cardinality(Claiming) + leaked
=============================================================================
