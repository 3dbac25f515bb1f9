--------------------------- MODULE FailoverProofs ---------------------------
(***************************************************************************)
(* Proofs about Failover, for any channels, requests, retries, threshold   *)
(* and number of admin operations.  What an admin operation may break is   *)
(* excluded by a hypothesis of the theorem that needs it.                  *)
(***************************************************************************)
EXTENDS Failover, FiniteSetTheorems, TLAPS

(* TypeOK needs one more fact to be inductive: RoundTrip backs off only    *)
(* when an attempt is left.                                                *)
TypeInv ==
  TypeOK /\ \A r \in Requests : pc[r] = "backoff" => try[r] < MaxRetries

LEMMA TypeInit == Init => TypeInv
  BY FailoverAssumption DEF Init, TypeInv, TypeOK

LEMMA TypeNext == TypeInv /\ [Next]_vars => TypeInv'
  <1> SUFFICES ASSUME TypeInv, [Next]_vars PROVE TypeInv'
    OBVIOUS
  <1> USE FailoverAssumption DEF TypeInv, TypeOK, circuits, breakers, scans
  <1>1. ASSUME NEW c \in Channels, MarkChannelFailed(c)
        PROVE  /\ circuit' \in [Channels -> {"closed", "half_open", "open"}]
               /\ failures' \in [Channels -> 0 .. Threshold]
               /\ cooled' \in [Channels -> BOOLEAN]
               /\ probe' \in [Channels -> BOOLEAN]
               /\ probers' \in [Channels -> SUBSET Requests]
               /\ dropped' \subseteq Channels
    BY <1>1 DEF MarkChannelFailed, SetCircuit
  <1>2. ASSUME NEW c \in Channels, MarkChannelSucceeded(c)
        PROVE  /\ circuit' \in [Channels -> {"closed", "half_open", "open"}]
               /\ failures' \in [Channels -> 0 .. Threshold]
               /\ cooled' \in [Channels -> BOOLEAN]
               /\ probe' \in [Channels -> BOOLEAN]
               /\ probers' \in [Channels -> SUBSET Requests]
               /\ dropped' \subseteq Channels
    BY <1>2 DEF MarkChannelSucceeded, SetCircuit
  <1>3. ASSUME NEW r \in Requests, Begin(r) \/ ScanAgain(r) \/ Retry(r) PROVE TypeInv'
    <2>1. try' \in [Requests -> 0 .. MaxRetries]
      <3>1. CASE Begin(r)
        BY <3>1 DEF Begin
      <3>2. CASE ScanAgain(r)
        BY <3>2 DEF ScanAgain
      <3>3. CASE Retry(r)
        <4>1. try[r] + 1 \in 0 .. MaxRetries
          BY <3>3 DEF Retry
        <4>2. QED
          BY <3>3, <4>1 DEF Retry
      <3>4. QED
        BY <1>3, <3>1, <3>2, <3>3
    <2>2. first' \in [Requests -> BOOLEAN]
      <3>1. \E b \in BOOLEAN : first' = [first EXCEPT ![r] = b]
        BY <1>3, Zenon DEF Begin, ScanAgain, Retry, StartScan
      <3>2. QED
        BY <3>1
    <2>3. todo' \in [Requests -> SUBSET Channels]
      BY <1>3 DEF Begin, ScanAgain, Retry, StartScan
    <2>4. pc' = [pc EXCEPT ![r] = "scan"]
      BY <1>3 DEF Begin, ScanAgain, Retry, StartScan
    <2>5. \A q \in Requests : pc'[q] = "backoff" => try'[q] < MaxRetries
      BY <1>3, <2>4 DEF Begin, ScanAgain, Retry
    <2>6. QED
      BY <1>3, <2>1, <2>2, <2>3, <2>4, <2>5 DEF Begin, ScanAgain, Retry, StartScan
  <1>4. ASSUME NEW r \in Requests, NEW c \in Channels, isCircuitBlocked(r, c) PROVE TypeInv'
    <2>1. circuit' \in [Channels -> {"closed", "half_open", "open"}]
      BY <1>4 DEF isCircuitBlocked
    <2>2. probe' \in [Channels -> BOOLEAN]
      BY <1>4 DEF isCircuitBlocked
    <2>3. probers' \in [Channels -> SUBSET Requests]
      BY <1>4 DEF isCircuitBlocked
    <2>4. avail' \in [Requests -> SUBSET Channels]
      BY <1>4 DEF isCircuitBlocked
    <2>5. skipped' \in [Requests -> SUBSET Channels]
      BY <1>4 DEF isCircuitBlocked
    <2>6. todo' \in [Requests -> SUBSET Channels]
      BY <1>4 DEF isCircuitBlocked
    <2>7. dropped' \subseteq Channels
      BY <1>4 DEF isCircuitBlocked
    <2>8. QED
      BY <1>4, <2>1, <2>2, <2>3, <2>4, <2>5, <2>6, <2>7 DEF isCircuitBlocked
  <1>5. ASSUME NEW r \in Requests, PickChannel(r) PROVE TypeInv'
    BY <1>5 DEF PickChannel, LetGo
  <1>6. ASSUME NEW r \in Requests, AttemptSucceeds(r) PROVE TypeInv'
    BY <1>2, <1>6 DEF AttemptSucceeds, Finish
  <1>7. ASSUME NEW r \in Requests, AttemptFails(r) PROVE TypeInv'
    BY <1>1, <1>7 DEF AttemptFails, Finish
  <1>8. ASSUME NEW r \in Requests, Abort(r) \/ SubmitAsync(r) PROVE TypeInv'
    BY <1>8 DEF Abort, SubmitAsync, Finish, LetGo
  <1>9. ASSUME NEW c \in Channels, Cooldown(c) PROVE TypeInv'
    BY <1>9 DEF Cooldown
  <1>10. ASSUME NEW c \in Channels, ResetCircuitBreaker(c) PROVE TypeInv'
    BY <1>2, <1>10 DEF ResetCircuitBreaker, AdminOp
  <1>11. ASSUME NEW c \in Channels, ProbeChannel(c) PROVE TypeInv'
    BY <1>11 DEF ProbeChannel, AdminOp, SetCircuit
  <1>12. CASE LoadChannels
    BY <1>12 DEF LoadChannels, AdminOp
  <1>13. CASE UNCHANGED vars
    BY <1>13 DEF vars
  <1>14. QED
    BY <1>3, <1>4, <1>5, <1>6, <1>7, <1>8, <1>9, <1>10, <1>11, <1>12, <1>13
       DEF Next, RequestStep

(* The variables keep their types; in particular RoundTrip's loop counter  *)
(* never passes MaxRetries.                                                *)
THEOREM TypeCorrect == Spec => []TypeOK
  <1>1. TypeInv => TypeOK
    BY DEF TypeInv
  <1>2. QED
    BY <1>1, TypeInit, TypeNext, PTL DEF Spec

-----------------------------------------------------------------------------
(* The breaker of one channel, and what a step can do to it.               *)

(* What the requests and admins do to the breaker of c. *)
BreakerStep(c) ==
  \/ UNCHANGED <<circuit[c], failures[c], probe[c], probers[c]>>
  \/ /\ failures'[c] = 0 /\ ~probe'[c] /\ circuit'[c] = "closed"
  \/ /\ ~probe'[c]
     /\ \/ circuit'[c] = "open"
        \/ /\ circuit[c] # "half_open" /\ circuit'[c] = circuit[c]
           /\ failures'[c] < Threshold
  \/ /\ circuit[c] = "open" /\ circuit'[c] = "half_open" /\ probe'[c]
     /\ \E r \in Requests : probers'[c] = {r}
  \/ /\ circuit[c] = "half_open" /\ ~probe[c] /\ circuit'[c] = "half_open"
  \/ /\ "probe" \in AdminOps /\ circuit'[c] = "half_open"

LEMMA BreakerNext ==
  ASSUME TypeInv, [Next]_vars, NEW c \in Channels
  PROVE  BreakerStep(c)
  <1> USE FailoverAssumption DEF TypeInv, TypeOK, circuits, breakers
  <1>1. ASSUME NEW d \in Channels, MarkChannelFailed(d) PROVE BreakerStep(c)
    <2>1. CASE c # d
      BY <1>1, <2>1 DEF MarkChannelFailed, SetCircuit, BreakerStep
    <2>2. CASE c = d
      <3>1. probe'[c] = FALSE
        BY <1>1, <2>2 DEF MarkChannelFailed
      <3>2. \/ circuit'[c] = "open"
            \/ /\ circuit[c] # "half_open" /\ circuit'[c] = circuit[c]
               /\ failures'[c] < Threshold
        BY <1>1, <2>2 DEF MarkChannelFailed, SetCircuit
      <3>3. QED
        BY <3>1, <3>2 DEF BreakerStep
    <2>3. QED
      BY <2>1, <2>2
  <1>2. ASSUME NEW d \in Channels, MarkChannelSucceeded(d) PROVE BreakerStep(c)
    BY <1>2 DEF MarkChannelSucceeded, SetCircuit, BreakerStep
  <1>3. ASSUME UNCHANGED <<circuit, failures, probe, probers>> PROVE BreakerStep(c)
    BY <1>3 DEF BreakerStep
  <1>4. ASSUME NEW r \in Requests, NEW d \in Channels, isCircuitBlocked(r, d)
        PROVE  BreakerStep(c)
    BY <1>4 DEF isCircuitBlocked, Blocked, BreakerStep
  <1>5. ASSUME NEW d \in Channels, ProbeChannel(d) PROVE BreakerStep(c)
    BY <1>5 DEF ProbeChannel, AdminOp, SetCircuit, BreakerStep
  <1>6. ASSUME NEW r \in Requests, RequestStep(r) PROVE BreakerStep(c)
    BY <1>1, <1>2, <1>3, <1>4, <1>6
       DEF RequestStep, Begin, ScanAgain, Retry, PickChannel,
       AttemptSucceeds, AttemptFails, Abort, SubmitAsync
  <1>7. ASSUME NEW d \in Channels, Cooldown(d) PROVE BreakerStep(c)
    BY <1>3, <1>7 DEF Cooldown
  <1>8. QED
    BY <1>2, <1>3, <1>5, <1>6, <1>7 DEF Next, ResetCircuitBreaker, LoadChannels, vars

(* Whatever the order in which concurrent requests report, a closed        *)
(* breaker has seen fewer than failureThreshold failures since the last    *)
(* success, reset or probe: no run of failures keeps a channel in use.     *)
THEOREM ClosedAlwaysBelow == Spec => []ClosedStaysBelow
  <1>1. Init => ClosedStaysBelow
    BY FailoverAssumption DEF Init, ClosedStaysBelow
  <1>2. TypeInv /\ ClosedStaysBelow /\ [Next]_vars => ClosedStaysBelow'
    BY BreakerNext, FailoverAssumption DEF BreakerStep, ClosedStaysBelow
  <1>3. QED
    BY <1>1, <1>2, TypeInit, TypeNext, PTL DEF Spec

(* The strengthening of OneProbe: a half-open spell begins with a claim. *)
ProbeInv ==
  \A c \in Channels :
    circuit[c] = "half_open" => probe[c] /\ \E r \in Requests : probers[c] = {r}

(* As long as no admin asks for a probe, a half-open channel lets exactly  *)
(* one request through until that one, or one sent earlier, reports.       *)
THEOREM OnlyOneProbe ==
  ASSUME "probe" \notin AdminOps
  PROVE  Spec => []OneProbe
  <1>1. Init => ProbeInv
    BY DEF Init, ProbeInv
  <1>2. TypeInv /\ ProbeInv /\ [Next]_vars => ProbeInv'
    BY BreakerNext DEF BreakerStep, ProbeInv
  <1>3. ProbeInv => OneProbe
    <2>1. ASSUME ProbeInv, NEW c \in Channels, circuit[c] = "half_open"
          PROVE  Cardinality(probers[c]) <= 1
      <3>1. PICK r \in Requests : probers[c] = {r}
        BY <2>1 DEF ProbeInv
      <3>2. Cardinality({r}) = 1
        BY FS_Singleton
      <3>3. QED
        BY <3>1, <3>2
    <2>2. QED
      BY <2>1 DEF OneProbe
  <1>4. QED
    BY <1>1, <1>2, <1>3, TypeInit, TypeNext, PTL DEF Spec

-----------------------------------------------------------------------------
(* Who answers for a claimed probe.                                        *)

(* The claim of c while a step does not take it away: kept by the request  *)
(* that has it, or let go.                                                 *)
LEMMA ClaimKept ==
  ASSUME TypeInv, NEW c \in Channels, UNCHANGED <<circuit, probe, probers>>,
         circuit[c] = "half_open", dropped \subseteq dropped',
         HasProber(c) \/ c \in dropped,
         \A r \in probers[c] :
           pc[r] \in {"scan", "send"} /\ c \in avail[r] =>
             \/ pc'[r] \in {"scan", "send"} /\ c \in avail'[r]
             \/ c \in dropped'
  PROVE  circuit'[c] = "half_open" /\ (HasProber(c)' \/ c \in dropped')
  BY DEF HasProber

LEMMA ClaimNext ==
  TypeInv /\ ProbeOwnedUnlessDropped /\ [Next]_vars => ProbeOwnedUnlessDropped'
  <1> SUFFICES ASSUME TypeInv, ProbeOwnedUnlessDropped, [Next]_vars,
                      NEW c \in Channels, probe'[c]
               PROVE  circuit'[c] = "half_open" /\ (HasProber(c)' \/ c \in dropped')
    BY DEF ProbeOwnedUnlessDropped
  <1> DEFINE Goal == circuit'[c] = "half_open" /\ (HasProber(c)' \/ c \in dropped')
  <1>0. probe[c] => circuit[c] = "half_open" /\ (HasProber(c) \/ c \in dropped)
    BY DEF ProbeOwnedUnlessDropped
  <1> USE FailoverAssumption DEF TypeInv, TypeOK, circuits, breakers, scans
  <1>1. ASSUME UNCHANGED <<circuit, probe, probers>>, dropped \subseteq dropped',
               \A r \in probers[c] :
                 pc[r] \in {"scan", "send"} /\ c \in avail[r] =>
                   \/ pc'[r] \in {"scan", "send"} /\ c \in avail'[r]
                   \/ c \in dropped'
        PROVE  Goal
    BY <1>0, <1>1, ClaimKept
  <1> HIDE DEF Goal
  <1>2. ASSUME NEW d \in Channels, MarkChannelFailed(d) \/ MarkChannelSucceeded(d),
               \A r \in Requests :
                 \/ pc'[r] = pc[r] /\ avail'[r] = avail[r]
                 \/ avail[r] = {d}
        PROVE  Goal
    <2>1. d # c
      <3>1. SUFFICES ASSUME d = c PROVE FALSE
        OBVIOUS
      <3>2. probe'[c] = FALSE
        BY <1>2, <3>1 DEF MarkChannelFailed, MarkChannelSucceeded
      <3>3. QED
        BY <3>2
    <2>2. /\ probe'[c] = probe[c] /\ circuit'[c] = circuit[c] /\ probers'[c] = probers[c]
          /\ c \in dropped => c \in dropped'
      <3>1. CASE MarkChannelSucceeded(d)
        BY <2>1, <3>1 DEF MarkChannelSucceeded, SetCircuit
      <3>2. CASE MarkChannelFailed(d)
        BY <2>1, <3>2 DEF MarkChannelFailed, SetCircuit
      <3>3. QED
        BY <1>2, <3>1, <3>2
    <2>3. HasProber(c) => HasProber(c)'
      <3>1. SUFFICES ASSUME NEW r \in probers[c], pc[r] \in {"scan", "send"}, c \in avail[r]
                     PROVE  pc'[r] \in {"scan", "send"} /\ c \in avail'[r]
        BY <2>2 DEF HasProber
      <3>2. r \in Requests /\ avail[r] # {d}
        BY <2>1, <3>1
      <3>3. QED
        BY <1>2, <3>1, <3>2
    <2>4. QED
      BY <1>0, <2>2, <2>3 DEF Goal
  <1>3. ASSUME NEW r \in Requests, Begin(r) \/ ScanAgain(r) \/ Retry(r) PROVE Goal
    <2>1. \A q \in Requests \ {r} : pc'[q] = pc[q] /\ avail'[q] = avail[q]
      BY <1>3 DEF Begin, ScanAgain, Retry, StartScan
    <2>2. /\ pc[r] \notin {"scan", "send"}
          /\ UNCHANGED <<circuit, probe, probers, dropped>>
      BY <1>3 DEF Begin, ScanAgain, Retry
    <2>3. QED
      BY <1>1, <2>1, <2>2
  <1>4. ASSUME NEW r \in Requests, NEW d \in Channels, isCircuitBlocked(r, d) PROVE Goal
    <2>1. /\ pc' = pc /\ pc[r] = "scan" /\ dropped \subseteq dropped'
          /\ \A q \in Requests : avail[q] \subseteq avail'[q]
      BY <1>4 DEF isCircuitBlocked
    <2>2. CASE UNCHANGED <<circuit, probe, probers>>
      BY <1>1, <2>1, <2>2
    <2>3. CASE ~Blocked(d) /\ circuit[d] = "open" /\ d = c
      <3>1. /\ circuit'[c] = "half_open" /\ probers'[c] = {r}
            /\ c \in avail'[r] \/ c \in dropped'
        BY <1>4, <2>3 DEF isCircuitBlocked
      <3>2. QED
        BY <2>1, <3>1 DEF Goal, HasProber
    <2>4. CASE d # c
      <3>1. probe'[c] = probe[c] /\ circuit'[c] = circuit[c] /\ probers'[c] = probers[c]
        BY <1>4, <2>4 DEF isCircuitBlocked
      <3>2. HasProber(c) => HasProber(c)'
        BY <2>1, <3>1 DEF HasProber
      <3>3. QED
        BY <1>0, <2>1, <3>1, <3>2 DEF Goal
    <2>5. CASE ~Blocked(d) /\ circuit[d] = "half_open" /\ d = c
      <3>1. probe'[c] = probe[c] /\ ~probe[c]
        BY <1>4, <2>5 DEF isCircuitBlocked, Blocked
      <3>2. QED
        BY <3>1
    <2>6. QED
      BY <1>4, <2>2, <2>3, <2>4, <2>5 DEF isCircuitBlocked
  <1>5. ASSUME NEW r \in Requests, PickChannel(r) PROVE Goal
    <2>1. /\ \A q \in Requests \ {r} : pc'[q] = pc[q] /\ avail'[q] = avail[q]
          /\ UNCHANGED <<circuit, probe, probers>> /\ dropped \subseteq dropped'
      BY <1>5 DEF PickChannel, LetGo
    <2>2. r \in probers[c] /\ c \in avail[r] =>
            (pc'[r] = "send" /\ c \in avail'[r]) \/ c \in dropped'
      BY <1>5, <2>1 DEF PickChannel, LetGo
    <2>3. QED
      BY <1>1, <2>1, <2>2
  <1>6. ASSUME NEW r \in Requests, AttemptSucceeds(r) \/ AttemptFails(r) PROVE Goal
    <2>1. PICK d \in Channels :
            avail[r] = {d} /\ (MarkChannelFailed(d) \/ MarkChannelSucceeded(d))
      BY <1>6 DEF AttemptSucceeds, AttemptFails, Sending
    <2>2. \A q \in Requests \ {r} : pc'[q] = pc[q] /\ avail'[q] = avail[q]
      BY <1>6 DEF AttemptSucceeds, AttemptFails, Finish
    <2>3. QED
      BY <1>2, <2>1, <2>2
  <1>7. ASSUME NEW r \in Requests, Abort(r) \/ SubmitAsync(r) PROVE Goal
    <2>1. /\ \A q \in Requests \ {r} : pc'[q] = pc[q] /\ avail'[q] = avail[q]
          /\ UNCHANGED <<circuit, probe, probers>> /\ dropped \subseteq dropped'
      BY <1>7 DEF Abort, SubmitAsync, Finish, LetGo
    <2>2. r \in probers[c] /\ c \in avail[r] => c \in dropped'
      BY <1>7, <2>1 DEF Abort, SubmitAsync, LetGo
    <2>3. QED
      BY <1>1, <2>1, <2>2
  <1>8. ASSUME UNCHANGED <<circuit, probe, probers, dropped, pc, avail>> PROVE Goal
    BY <1>1, <1>8
  <1>9. ASSUME NEW d \in Channels, Cooldown(d) PROVE Goal
    BY <1>8, <1>9 DEF Cooldown
  <1>10. ASSUME NEW d \in Channels, ResetCircuitBreaker(d) PROVE Goal
    BY <1>2, <1>10 DEF ResetCircuitBreaker, AdminOp
  <1>11. ASSUME NEW d \in Channels, ProbeChannel(d) PROVE Goal
    <2>1. /\ d # c
          /\ UNCHANGED <<pc, avail>>
      BY <1>11 DEF ProbeChannel, AdminOp
    <2>2. /\ probe'[c] = probe[c] /\ circuit'[c] = circuit[c] /\ probers'[c] = probers[c]
          /\ c \in dropped => c \in dropped'
      BY <1>11, <2>1 DEF ProbeChannel, SetCircuit
    <2>3. HasProber(c) => HasProber(c)'
      BY <2>1, <2>2 DEF HasProber
    <2>4. QED
      BY <1>0, <2>2, <2>3 DEF Goal
  <1>12. ASSUME LoadChannels \/ UNCHANGED vars PROVE Goal
    BY <1>8, <1>12 DEF LoadChannels, AdminOp, vars
  <1>13. Goal
    BY <1>3, <1>4, <1>5, <1>6, <1>7, <1>9, <1>10, <1>11, <1>12 DEF Next, RequestStep
  <1>14. QED
    BY <1>13 DEF Goal

(* In any pool, with aborts, video submissions, reloads, resets and manual *)
(* probes: a claimed probe that no request will report on was let go by    *)
(* the request that claimed it, and by nothing else.                       *)
THEOREM ClaimLostOnlyByClaimant == Spec => []ProbeOwnedUnlessDropped
  <1>1. Init => ProbeOwnedUnlessDropped
    BY DEF Init, ProbeOwnedUnlessDropped
  <1>2. QED
    BY <1>1, ClaimNext, TypeInit, TypeNext, PTL DEF Spec

-----------------------------------------------------------------------------
(* The retry loop of one request.                                          *)

(* Every channel that could serve r was tried or found blocked. *)
Covered(r) == pool \cap Eligible[r] \subseteq attempted[r] \cup skipped[r]

(* The strengthening of TriedAlternatives.  As long as the pass without    *)
(* exclusions was not needed every attempt went to a new channel; once it  *)
(* was, the pass before had found nothing but tried and blocked channels.  *)
LoopInv(r) ==
  /\ IsFiniteSet(attempted[r])
  /\ r \in Async => pc[r] \notin {"backoff", "exhausted"}
  /\ r \notin Async =>
       /\ pc[r] = "scan" /\ first[r] =>
            /\ Covered(r) \/ Cardinality(attempted[r]) = try[r]
            /\ (todo[r] \cup avail[r]) \cap attempted[r] = {}
            /\ pool \cap Eligible[r] \subseteq
                 attempted[r] \cup skipped[r] \cup todo[r] \cup avail[r]
       /\ pc[r] = "scan" /\ ~first[r] => Covered(r)
       /\ pc[r] = "again" => Covered(r)
       /\ pc[r] = "send" =>
            \/ Covered(r)
            \/ Cardinality(attempted[r]) = try[r] /\ avail[r] \cap attempted[r] = {}
       /\ pc[r] \in {"backoff", "exhausted"} =>
            Covered(r) \/ Cardinality(attempted[r]) = try[r] + 1
       /\ pc[r] = "exhausted" => try[r] = MaxRetries

LEMMA LoopFrame ==
  ASSUME NEW q \in Requests, LoopInv(q), pool' = pool, pc'[q] = pc[q],
         try'[q] = try[q], attempted'[q] = attempted[q], first'[q] = first[q],
         todo'[q] = todo[q], avail'[q] = avail[q], skipped'[q] = skipped[q]
  PROVE  LoopInv(q)'
  BY DEF LoopInv, Covered

LEMMA LoopNext ==
  ASSUME "load" \notin AdminOps, TypeInv, \A r \in Requests : LoopInv(r), [Next]_vars
  PROVE  \A r \in Requests : LoopInv(r)'
  <1> USE FailoverAssumption DEF TypeInv, TypeOK, circuits, breakers, scans
  <1>1. ASSUME NEW r \in Requests, Begin(r) PROVE \A q \in Requests : LoopInv(q)'
    <2>1. \A q \in Requests \ {r} : LoopInv(q)'
      BY <1>1, LoopFrame DEF Begin, StartScan
    <2>2. /\ pc'[r] = "scan" /\ try'[r] = 0 /\ attempted'[r] = {} /\ pool' = pool
          /\ r \notin Async => first'[r] = TRUE /\ todo'[r] = pool
      BY <1>1 DEF Begin, StartScan
    <2>3. IsFiniteSet({}) /\ Cardinality({}) = 0
      BY FS_EmptySet
    <2>4. LoopInv(r)'
      BY <2>2, <2>3 DEF LoopInv
    <2>5. QED
      BY <2>1, <2>4
  <1>2. ASSUME NEW r \in Requests, NEW c \in Channels, isCircuitBlocked(r, c)
        PROVE  \A q \in Requests : LoopInv(q)'
    <2>1. \A q \in Requests \ {r} : LoopInv(q)'
      BY <1>2, LoopFrame DEF isCircuitBlocked
    <2>2. /\ pc[r] = "scan" /\ c \in todo[r]
          /\ pc' = pc /\ try' = try /\ attempted' = attempted /\ first' = first
          /\ pool' = pool /\ todo'[r] = todo[r] \ {c}
      BY <1>2 DEF isCircuitBlocked
    <2>3. \/ skipped'[r] = skipped[r] \cup {c} /\ avail'[r] = avail[r]
          \/ /\ skipped'[r] = skipped[r]
             /\ avail'[r] = IF c \in Eligible[r] THEN avail[r] \cup {c} ELSE avail[r]
      BY <1>2 DEF isCircuitBlocked
    <2>4. LoopInv(r)'
      BY <2>2, <2>3 DEF LoopInv, Covered
    <2>5. QED
      BY <2>1, <2>4
  <1>3. ASSUME NEW r \in Requests, PickChannel(r) PROVE \A q \in Requests : LoopInv(q)'
    <2>1. \A q \in Requests \ {r} : LoopInv(q)'
      BY <1>3, LoopFrame DEF PickChannel
    <2>2. /\ pc[r] = "scan" /\ todo[r] = {}
          /\ try' = try /\ attempted' = attempted /\ skipped' = skipped /\ pool' = pool
          /\ \/ \E c \in avail[r] : avail'[r] = {c} /\ pc'[r] = "send"
             \/ avail[r] = {} /\ first[r] /\ pc'[r] = "again"
             \/ avail[r] = {} /\ pc'[r] = "idle"
      BY <1>3 DEF PickChannel
    <2>3. LoopInv(r)'
      BY <2>2 DEF LoopInv, Covered
    <2>4. QED
      BY <2>1, <2>3
  <1>4. ASSUME NEW r \in Requests, ScanAgain(r) PROVE \A q \in Requests : LoopInv(q)'
    <2>1. \A q \in Requests \ {r} : LoopInv(q)'
      BY <1>4, LoopFrame DEF ScanAgain, StartScan
    <2>2. /\ pc[r] = "again" /\ pc'[r] = "scan" /\ first'[r] = FALSE
          /\ try' = try /\ attempted' = attempted /\ skipped' = skipped /\ pool' = pool
      BY <1>4 DEF ScanAgain, StartScan
    <2>3. LoopInv(r)'
      BY <2>2 DEF LoopInv, Covered
    <2>4. QED
      BY <2>1, <2>3
  <1>5. ASSUME NEW r \in Requests, AttemptFails(r) PROVE \A q \in Requests : LoopInv(q)'
    <2>1. \A q \in Requests \ {r} : LoopInv(q)'
      BY <1>5, LoopFrame DEF AttemptFails, Finish
    <2>2. PICK c \in Channels :
            pc[r] = "send" /\ avail[r] = {c} /\ attempted'[r] = attempted[r] \cup {c}
      BY <1>5 DEF AttemptFails, Sending
    <2>3. /\ r \notin Async /\ try' = try /\ skipped' = skipped /\ pool' = pool
          /\ pc'[r] = IF try[r] < MaxRetries THEN "backoff" ELSE "exhausted"
      BY <1>5 DEF AttemptFails, Finish
    <2>4. /\ IsFiniteSet(attempted'[r])
          /\ c \notin attempted[r] =>
               Cardinality(attempted'[r]) = Cardinality(attempted[r]) + 1
      <3>1. IsFiniteSet(attempted[r])
        BY DEF LoopInv
      <3>2. /\ IsFiniteSet(attempted[r] \cup {c})
            /\ c \notin attempted[r] =>
                 Cardinality(attempted[r] \cup {c}) = Cardinality(attempted[r]) + 1
        BY <3>1, FS_AddElement, Zenon
      <3>3. QED
        BY <2>2, <3>2
    <2>5. Covered(r)' \/ Cardinality(attempted'[r]) = try'[r] + 1
      <3>1. CASE Covered(r)
        BY <2>2, <2>3, <3>1 DEF Covered
      <3>2. CASE Cardinality(attempted[r]) = try[r] /\ c \notin attempted[r]
        BY <2>3, <2>4, <3>2
      <3>3. QED
        BY <2>2, <2>3, <3>1, <3>2 DEF LoopInv
    <2>6. pc'[r] = "exhausted" => try'[r] = MaxRetries
      BY <2>3
    <2>7. LoopInv(r)'
      BY <2>3, <2>4, <2>5, <2>6 DEF LoopInv
    <2>8. QED
      BY <2>1, <2>7
  <1>6. ASSUME NEW r \in Requests, Retry(r) PROVE \A q \in Requests : LoopInv(q)'
    <2>1. \A q \in Requests \ {r} : LoopInv(q)'
      BY <1>6, LoopFrame DEF Retry, StartScan
    <2>2. /\ pc[r] = "backoff" /\ pc'[r] = "scan" /\ first'[r] = TRUE
          /\ try'[r] = try[r] + 1 /\ attempted' = attempted /\ skipped' = skipped
          /\ pool' = pool /\ todo'[r] = pool \ attempted[r] /\ avail'[r] = {}
      BY <1>6 DEF Retry, StartScan
    <2>3. LoopInv(r)'
      BY <2>2 DEF LoopInv, Covered
    <2>4. QED
      BY <2>1, <2>3
  <1>7. ASSUME NEW r \in Requests, AttemptSucceeds(r) \/ Abort(r) \/ SubmitAsync(r)
        PROVE  \A q \in Requests : LoopInv(q)'
    <2>1. \A q \in Requests \ {r} : LoopInv(q)'
      BY <1>7, LoopFrame DEF AttemptSucceeds, Abort, SubmitAsync, Finish
    <2>2. pc'[r] = "idle" /\ attempted' = attempted
      BY <1>7 DEF AttemptSucceeds, Abort, SubmitAsync, Finish
    <2>3. LoopInv(r)'
      BY <2>2 DEF LoopInv
    <2>4. QED
      BY <2>1, <2>3
  <1>8. ASSUME UNCHANGED <<pool, pc, try, attempted, scans>>
        PROVE  \A q \in Requests : LoopInv(q)'
    BY <1>8, LoopFrame
  <1>9. ASSUME NEW c \in Channels, Cooldown(c) \/ ResetCircuitBreaker(c) \/ ProbeChannel(c)
        PROVE  \A q \in Requests : LoopInv(q)'
    BY <1>8, <1>9 DEF Cooldown, ResetCircuitBreaker, ProbeChannel, AdminOp
  <1>10. ~LoadChannels
    BY DEF LoadChannels, AdminOp
  <1>11. CASE UNCHANGED vars
    BY <1>8, <1>11 DEF vars
  <1>12. QED
    BY <1>1, <1>2, <1>3, <1>4, <1>5, <1>6, <1>7, <1>9, <1>10, <1>11
       DEF Next, RequestStep

(* While the pool is not reloaded, a request gives up only after it tried  *)
(* MaxRetries + 1 different channels, or every channel that could serve it *)
(* and was not blocked when it looked.                                     *)
THEOREM AlternativesTried ==
  ASSUME "load" \notin AdminOps
  PROVE  Spec => []TriedAlternatives
  <1> DEFINE LInv == \A r \in Requests : LoopInv(r)
  <1>1. Init => LInv
    BY FS_EmptySet DEF Init, LoopInv
  <1>2. TypeInv /\ LInv /\ [Next]_vars => LInv'
    BY LoopNext
  <1>3. LInv => TriedAlternatives
    BY DEF LoopInv, Covered, TriedAlternatives
  <1> HIDE DEF LInv
  <1>4. QED
    BY <1>1, <1>2, <1>3, TypeInit, TypeNext, PTL DEF Spec
=============================================================================
