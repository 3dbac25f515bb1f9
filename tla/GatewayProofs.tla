---------------------------- MODULE GatewayProofs ----------------------------
(***************************************************************************)
(* Proofs about the life and the price of a request.                       *)
(*                                                                         *)
(* Gateway, for any number of requests of one API key, any cost and limit: *)
(* a pre-deduction is closed at most once, an answered request is charged  *)
(* for what was counted and leaves nothing behind, and a quota is passed   *)
(* only by requests side by side or over their estimate.                   *)
(*                                                                         *)
(* ConfigSync and Pricing, for any models, rows, requests and reports of   *)
(* the upstream: a request is priced unless its model was gone or a query  *)
(* failed, what was held covers the cost but for the reasons named, and no *)
(* charge is negative.                                                     *)
(***************************************************************************)
EXTENDS Gateway, ConfigSync, TLAPS

(* Before the money is taken, and between that and the first place that    *)
(* may close it. *)
Unheld == {"start", "prededuct", "rejected"}
Before == Limits \cup {"slot", "handler", "upstream", "stream"}

(* What was counted is what is charged. *)
Settled(r) == charge[r] = ActualCost(r, tokens[r], free)

(* The strengthening of ClosedOnce, ChargedForUse and NothingStranded:     *)
(* where a request is tells whether it is held, closed and counted.        *)
Life(r) ==
  /\ pc[r] \in Unheld => r \notin held
  /\ pc[r] \notin Unheld \cup {"crashed"} => r \in held
  /\ closes[r] > 0 => r \in held
  /\ bills[r] > 0 \/ txs[r] > 0 => closes[r] > 0
  /\ incs[r] <= bills[r]
  /\ pc[r] \in Unheld \cup Before =>
       closes[r] = 0 /\ charge[r] = 0 /\ r \notin once
  /\ pc[r] \in (Unheld \cup Before) \ {"stream"} => tokens[r] = 0
  /\ pc[r] = "close" =>
       IF r \in once THEN closes[r] = 1 /\ Settled(r)
                     ELSE closes[r] = 0
  /\ pc[r] = "copy" => closes[r] = 1 /\ Settled(r)
  /\ pc[r] = "switch" =>
       r \in switched /\ closes[r] = 1 /\ charge[r] = 0 /\ tokens[r] = 0
  /\ pc[r] = "done" =>
       /\ Settled(r)
       /\ closes[r] > 0 \/ r \in Upgrades
  /\ closes[r] <= 1 \/ (r \in switched /\ closes[r] <= 2)
  /\ r \in slot =>
       pc[r] \in {"handler", "upstream", "stream", "close", "copy", "switch",
                  "crashed"}

LifeInv == TypeOK /\ \A r \in Requests : Life(r)

LEMMA LifeInit == Init => LifeInv
  BY GatewayAssumption
     DEF Init, LifeInv, TypeOK, PCs, Limits, Life, Unheld, Before, Settled, ActualCost

LEMMA LifeNext == LifeInv /\ [Next]_vars => LifeInv'
  <1> SUFFICES ASSUME LifeInv, [Next]_vars PROVE LifeInv'
    OBVIOUS
  <1> USE GatewayAssumption
  <1> USE DEF LifeInv, TypeOK, PCs, Limits, Goto, Unheld, Before, Settled, ActualCost,
              workVars, billVars
  <1>1. ASSUME NEW r \in Requests, ReadAPIKey(r) PROVE LifeInv'
    BY <1>1 DEF ReadAPIKey, Life
  <1>2. ASSUME NEW r \in Requests, PreDeduct(r) PROVE LifeInv'
    BY <1>2 DEF PreDeduct, Life
  <1>3. ASSUME NEW r \in Requests, CheckRateLimit(r) PROVE LifeInv'
    BY <1>3 DEF CheckRateLimit, AfterLimit, Refund, CloseWith, KeepOpen, Life
  <1>4. ASSUME NEW r \in Requests, AcquireSlot(r) PROVE LifeInv'
    BY <1>4 DEF AcquireSlot, Refund, CloseWith, KeepOpen, Life
  <1>5. ASSUME NEW r \in Requests, RejectUpgrade(r) PROVE LifeInv'
    BY <1>5 DEF RejectUpgrade, Leave, Life
  <1>6. ASSUME NEW r \in Requests, Forward(r) PROVE LifeInv'
    BY <1>6 DEF Forward, Life
  <1>7. ASSUME NEW r \in Requests, RoundTripFails(r) PROVE LifeInv'
    BY <1>7 DEF RoundTripFails, Refund, CloseWith, Leave, Life
  <1>8. ASSUME NEW r \in Requests, UpstreamRefuses(r) PROVE LifeInv'
    BY <1>8 DEF UpstreamRefuses, Refund, CloseWith, Life
  <1>9. ASSUME NEW r \in Requests, UpstreamBody(r) PROVE LifeInv'
    BY <1>9 DEF UpstreamBody, ReadPrices, Refund, CloseWith, Life
  <1>10. ASSUME NEW r \in Requests, UpstreamStreams(r) PROVE LifeInv'
    BY <1>10 DEF UpstreamStreams, ReadPrices, Life
  <1>11. ASSUME NEW r \in Requests, CopyDone(r) PROVE LifeInv'
    BY <1>11 DEF CopyDone, Leave, Life
  <1>12. ASSUME NEW r \in Requests, ReadChunk(r) PROVE LifeInv'
    BY <1>12 DEF ReadChunk, Life
  <1>13. ASSUME NEW r \in Requests, ReadEOF(r) PROVE LifeInv'
    BY <1>13 DEF ReadEOF, triggerComplete, CloseWith, Life
  <1>14. ASSUME NEW r \in Requests, StreamBreaks(r) PROVE LifeInv'
    BY <1>14 DEF StreamBreaks, Life
  <1>15. ASSUME NEW r \in Requests, CloseBody(r) PROVE LifeInv'
    BY <1>15 DEF CloseBody, triggerComplete, CloseWith, Leave, Life
  <1>16. ASSUME NEW r \in Requests, BillStep(r) PROVE LifeInv'
    BY <1>16 DEF BillStep, CheckBillingLogExists, CommitBill, BillFails,
                 IncrementAPIKeyQuotaUsed, Life
  <1>20. ASSUME NEW r \in Requests, UpstreamSwitches(r) PROVE LifeInv'
    BY <1>20 DEF UpstreamSwitches, Refund, CloseWith, Life
  <1>21. ASSUME NEW r \in Requests, handleUpgradeResponse(r) PROVE LifeInv'
    BY <1>21 DEF handleUpgradeResponse, Refund, CloseWith, KeepOpen, Leave, Life
  <1>17. CASE Crash
    BY <1>17 DEF Crash, Running, Life
  <1>18. CASE UNCHANGED vars
    BY <1>18 DEF vars, Life
  <1>19. QED
    BY <1>1, <1>2, <1>3, <1>4, <1>5, <1>6, <1>7, <1>8, <1>9, <1>10, <1>11,
       <1>12, <1>13, <1>14, <1>15, <1>16, <1>17, <1>18, <1>20, <1>21
       DEF Next, RequestStep

(* The variables keep their types: only a held request holds a place, is   *)
(* closed or billed, and no charge exceeds what an answer may carry.       *)
THEOREM TypeCorrect == Spec => []TypeOK
  <1>1. LifeInv => TypeOK
    BY DEF LifeInv
  <1>2. QED
    BY <1>1, LifeInit, LifeNext, PTL DEF Spec

(* Whichever of the middlewares, modifyResponse, ErrorHandler, Read and    *)
(* Close gets to a pre-deduction, none closes it a second time, but for an *)
(* upstream's 101, which is refunded twice and never more often.           *)
THEOREM NeverClosedTwice == Spec => []ClosedOnce
  <1>1. LifeInv => ClosedOnce
    BY DEF LifeInv, Life, ClosedOnce
  <1>2. QED
    BY <1>1, LifeInit, LifeNext, PTL DEF Spec

(* A request that was answered is charged for exactly what was counted in  *)
(* its answer, however the stream ended.                                   *)
THEOREM AlwaysChargedForUse == Spec => []ChargedForUse
  <1>1. LifeInv => ChargedForUse
    BY DEF LifeInv, Life, Settled, ChargedForUse
  <1>2. QED
    BY <1>1, LifeInit, LifeNext, PTL DEF Spec

(* On every path to an answer the place of the model was given back and    *)
(* the pre-deduction closed, the 501 for an upgrade apart.                 *)
THEOREM NothingLeftBehind == Spec => []NothingStranded
  <1>1. LifeInv => NothingStranded
    BY DEF LifeInv, Life, NothingStranded
  <1>2. QED
    BY <1>1, LifeInit, LifeNext, PTL DEF Spec

-----------------------------------------------------------------------------
(* The quota of the key.                                                   *)

(* r and q were under way together: one of them read the key while the     *)
(* other was not counted yet.                                              *)
Overlap(r, q) == q \in missed[r] \/ r \in missed[q]

Overlapped(r) == \E q \in Billed : q # r /\ Overlap(r, q)

Clash == \E r \in Billed : Overlapped(r)

(* The bills of the key, once for each request and without the lost ones,  *)
(* are no more than n.                                                     *)
SpentAtMost(n) == spent <= n + lost + extra

(* The strengthening of QuotaPassedOnlyTogether: two requests that are     *)
(* both under way overlap, so the key was billed no more than what r read  *)
(* of quota_used and its own first bill, unless a request that overlaps r  *)
(* was billed meanwhile; and from the first increment for r on, no more    *)
(* than what quota_used is now.                                            *)
QuotaInv ==
  /\ \A r, q \in Requests : r # q /\ UnderWay(r) /\ UnderWay(q) => Overlap(r, q)
  /\ \A r \in Requests : UnderWay(r) =>
       \/ Clash \/ Overlapped(r)
       \/ SpentAtMost(seen[r] + (IF bills[r] > 0 THEN charge[r] ELSE 0))
  /\ \A r \in Requests : UnderWay(r) /\ incs[r] < bills[r] =>
       Clash \/ Overlapped(r) \/ SpentAtMost(used)
  /\ (\A r \in Billed : ~UnderWay(r)) => Clash \/ SpentAtMost(used)
  /\ \A r \in Requests : seen[r] <= used
  /\ \A r \in held : ~QuotaExceeded(r)
  /\ QuotaPassedOnlyTogether

LEMMA QuotaInit == Init => QuotaInv
  <1> SUFFICES ASSUME Init PROVE QuotaInv
    OBVIOUS
  <1>1. \A r \in Requests : ~UnderWay(r) /\ seen[r] = 0
    BY DEF Init, UnderWay
  <1>2. SpentAtMost(used) /\ QuotaPassedOnlyTogether
    BY GatewayAssumption DEF Init, SpentAtMost, QuotaPassedOnlyTogether
  <1>3. QED
    BY <1>1, <1>2 DEF QuotaInv, Init

(* Steps that leave the key, the bills and what was read of them alone. *)
LEMMA QuotaFrame ==
  ASSUME LifeInv, QuotaInv, UNCHANGED <<seen, missed, billVars>>,
         \A q \in Requests : UnderWay(q)' => UnderWay(q),
         \A q \in Billed : UnderWay(q) => UnderWay(q)',
         \A q \in held' : q \in held \/ ~QuotaExceeded(q),
         \A q \in Billed : charge'[q] = charge[q]
  PROVE  QuotaInv'
  <1>0. Billed' = Billed /\ UNCHANGED <<bills, incs, used, spent, lost, extra>>
    BY DEF billVars, Billed
  <1>1. QuotaPassedOnlyTogether'
    BY <1>0 DEF QuotaInv, QuotaPassedOnlyTogether
  <1>2. \A q \in held' : ~QuotaExceeded(q)'
    BY DEF QuotaInv, QuotaExceeded
  <1>3. /\ Clash' <=> Clash
        /\ \A q \in Requests : Overlapped(q)' <=> Overlapped(q)
        /\ \A n : SpentAtMost(n)' <=> SpentAtMost(n)
    BY <1>0 DEF Clash, Overlapped, Overlap, SpentAtMost
  <1>4. \A r, q \in Requests : r # q /\ UnderWay(r)' /\ UnderWay(q)' => Overlap(r, q)'
    BY DEF QuotaInv, Overlap
  <1>5. ASSUME NEW r \in Requests, UnderWay(r)'
        PROVE  \/ Clash' \/ Overlapped(r)'
               \/ SpentAtMost(seen[r] + (IF bills[r] > 0 THEN charge[r] ELSE 0))'
    <2>1. CASE bills[r] > 0
      <3>1. r \in Billed
        BY <2>1 DEF Billed
      <3>2. Clash \/ Overlapped(r) \/ SpentAtMost(seen[r] + charge[r])
        BY <1>5, <2>1 DEF QuotaInv
      <3>3. spent <= seen[r] + charge[r] + lost + extra
            => SpentAtMost(seen[r] + (IF bills[r] > 0 THEN charge[r] ELSE 0))'
        BY <1>0, <2>1, <3>1 DEF SpentAtMost
      <3>4. QED
        BY <1>3, <3>2, <3>3 DEF SpentAtMost
    <2>2. CASE ~(bills[r] > 0)
      <3>1. Clash \/ Overlapped(r) \/ SpentAtMost(seen[r] + 0)
        BY <1>5, <2>2 DEF QuotaInv
      <3>2. SpentAtMost(seen[r] + 0)
            => SpentAtMost(seen[r] + (IF bills[r] > 0 THEN charge[r] ELSE 0))'
        BY <1>0, <2>2 DEF SpentAtMost
      <3>3. QED
        BY <1>3, <3>1, <3>2
    <2>3. QED
      BY <2>1, <2>2
  <1>6. \A r \in Requests : UnderWay(r)' /\ incs'[r] < bills'[r] =>
          Clash' \/ Overlapped(r)' \/ SpentAtMost(used)'
    BY <1>0, <1>3 DEF QuotaInv, SpentAtMost
  <1>7. (\A r \in Billed' : ~UnderWay(r)') => Clash' \/ SpentAtMost(used)'
    BY <1>0, <1>3 DEF QuotaInv, SpentAtMost
  <1>8. \A r \in Requests : seen'[r] <= used'
    BY <1>0 DEF QuotaInv
  <1>9. QED
    BY <1>1, <1>2, <1>4, <1>5, <1>6, <1>7, <1>8 DEF QuotaInv

LEMMA BilledIs ==
  ASSUME LifeInv
  PROVE  \A q \in Billed : /\ q \in Requests /\ q \in held /\ closes[q] > 0
                           /\ pc[q] \notin Unheld
  BY DEF LifeInv, TypeOK, Life, Billed, Unheld

LEMMA QuotaRead ==
  ASSUME LifeInv, QuotaInv, NEW r \in Requests, ReadAPIKey(r) PROVE QuotaInv'
  <1> USE DEF LifeInv, TypeOK
  <1>1. /\ pc[r] = "start" /\ r \notin held /\ r \notin Billed /\ ~UnderWay(r)
        /\ missed' = [missed EXCEPT ![r] = {q \in Requests : UnderWay(q)}]
        /\ seen' = [seen EXCEPT ![r] = used]
        /\ UNCHANGED <<held, charge, billVars>>
    BY BilledIs DEF ReadAPIKey, Life, Unheld, UnderWay
  <1>2. \A q \in Requests \ {r} : UnderWay(q)' <=> UnderWay(q)
    BY DEF ReadAPIKey, Goto, UnderWay, billVars
  <1>3. \A q \in Requests \ {r} : missed'[q] = missed[q] /\ seen'[q] = seen[q]
    BY <1>1
  <1>4. seen'[r] = used /\ missed'[r] = {q \in Requests : UnderWay(q)}
    BY <1>1
  <1>5. Billed' = Billed /\ UNCHANGED <<bills, incs, txs, used, spent, lost, extra>>
    BY <1>1 DEF billVars, Billed
  <1>6. /\ Clash' <=> Clash
        /\ \A q \in Requests \ {r} : Overlapped(q)' <=> Overlapped(q)
    BY <1>1, <1>3, <1>5, BilledIs DEF Clash, Overlapped, Overlap
  <1>7. \A q, p \in Requests :
          q # p /\ UnderWay(q)' /\ UnderWay(p)' => Overlap(q, p)'
    BY <1>2, <1>3, <1>4 DEF QuotaInv, Overlap
  <1>8. bills[r] = 0 /\ bills[r] \in Nat /\ incs[r] \in Nat /\ incs'[r] = incs[r]
    BY <1>1, <1>5 DEF Billed
  <1>9. ASSUME NEW q \in Requests, UnderWay(q)'
        PROVE  \/ Clash' \/ Overlapped(q)'
               \/ SpentAtMost(seen[q] + (IF bills[q] > 0 THEN charge[q] ELSE 0))'
    <2>1. CASE q = r
      <3>1. CASE \E p \in Billed : UnderWay(p)
        BY <1>1, <1>4, <1>5, <2>1, <3>1, BilledIs DEF Overlapped, Overlap
      <3>2. CASE \A p \in Billed : ~UnderWay(p)
        <4>1. Clash \/ SpentAtMost(used)
          BY <3>2 DEF QuotaInv
        <4>2. SpentAtMost(used) => spent' <= seen'[r] + 0 + lost' + extra'
          BY <1>4, <1>5 DEF SpentAtMost
        <4>3. QED
          BY <1>5, <1>6, <1>8, <2>1, <4>1, <4>2 DEF SpentAtMost
      <3>3. QED
        BY <3>1, <3>2
    <2>2. CASE q # r
      <3>1. \/ Clash \/ Overlapped(q)
            \/ SpentAtMost(seen[q] + (IF bills[q] > 0 THEN charge[q] ELSE 0))
        BY <1>2, <1>9, <2>2 DEF QuotaInv
      <3>2. SpentAtMost(seen[q] + (IF bills[q] > 0 THEN charge[q] ELSE 0))
            => SpentAtMost(seen[q] + (IF bills[q] > 0 THEN charge[q] ELSE 0))'
        BY <1>1, <1>3, <1>5, <2>2 DEF SpentAtMost
      <3>3. QED
        BY <1>6, <2>2, <3>1, <3>2
    <2>3. QED
      BY <2>1, <2>2
  <1>10. \A q \in Requests : UnderWay(q)' /\ incs'[q] < bills'[q] =>
           Clash' \/ Overlapped(q)' \/ SpentAtMost(used)'
    BY <1>2, <1>5, <1>6, <1>8 DEF QuotaInv, SpentAtMost
  <1>11. (\A q \in Billed' : ~UnderWay(q)') => Clash' \/ SpentAtMost(used)'
    BY <1>1, <1>2, <1>5, <1>6, BilledIs DEF QuotaInv, SpentAtMost
  <1>12. \A q \in Requests : seen'[q] <= used'
    BY <1>3, <1>4, <1>5 DEF QuotaInv
  <1>13. \A q \in held' : ~QuotaExceeded(q)'
    BY <1>1, <1>3 DEF QuotaInv, QuotaExceeded
  <1>14. QuotaPassedOnlyTogether'
    BY <1>1, <1>3, <1>5, BilledIs DEF QuotaInv, QuotaPassedOnlyTogether
  <1>15. QED
    BY <1>7, <1>9, <1>10, <1>11, <1>12, <1>13, <1>14 DEF QuotaInv

(* The bills of a request: only it is touched, and it was under way. *)
LEMMA BillTouches ==
  ASSUME LifeInv, NEW r \in Requests, BillStep(r)
  PROVE  /\ UNCHANGED workVars /\ UnderWay(r)
         /\ \A q \in Requests : q # r =>
              /\ bills'[q] = bills[q] /\ incs'[q] = incs[q] /\ txs'[q] = txs[q]
              /\ UnderWay(q)' <=> UnderWay(q)
         /\ Billed \subseteq Billed' /\ Billed' \subseteq Billed \cup {r}
         /\ Clash => Clash'
         /\ \A q \in Requests : Overlapped(q) => Overlapped(q)'
         /\ \A q \in held' : QuotaExceeded(q)' <=> QuotaExceeded(q)
  <1> USE DEF LifeInv, TypeOK, BillStep, CheckBillingLogExists, CommitBill, BillFails,
              IncrementAPIKeyQuotaUsed
  <1>1. UNCHANGED workVars /\ UNCHANGED <<pc, missed, seen, held, charge>>
    BY DEF workVars
  <1>2. \A q \in Requests : q # r =>
          bills'[q] = bills[q] /\ incs'[q] = incs[q] /\ txs'[q] = txs[q]
    OBVIOUS
  <1>3. \A q \in Requests : q # r => (UnderWay(q)' <=> UnderWay(q))
    BY <1>1, <1>2 DEF UnderWay
  <1>4. UnderWay(r)
    <2>1. closes[r] > 0 /\ (bills[r] = 0 \/ txs[r] > 0 \/ incs[r] > 0)
      BY DEF Life
    <2>2. pc[r] \notin {"start", "rejected"}
      BY <2>1 DEF Life, Unheld
    <2>3. QED
      BY <2>1, <2>2 DEF UnderWay
  <1>5. bills'[r] >= bills[r] /\ bills[r] \in Nat /\ bills'[r] \in Nat
    OBVIOUS
  <1>6. Billed \subseteq Billed' /\ Billed' \subseteq Billed \cup {r}
    BY <1>2, <1>5 DEF Billed
  <1>7. \A q \in Requests : Overlapped(q) => Overlapped(q)'
    BY <1>1, <1>6 DEF Overlapped, Overlap
  <1>8. Clash => Clash'
    BY <1>6, <1>7 DEF Clash, Billed
  <1>9. \A q \in held' : QuotaExceeded(q)' <=> QuotaExceeded(q)
    BY <1>1 DEF QuotaExceeded
  <1>10. QED
    BY <1>1, <1>2, <1>3, <1>4, <1>6, <1>7, <1>8, <1>9

LEMMA QuotaCommit ==
  ASSUME LifeInv, QuotaInv, NEW r \in Requests, CommitBill(r) PROVE QuotaInv'
  <1> USE GatewayAssumption
  <1>0. BillStep(r)
    BY DEF BillStep
  <1>1. /\ UNCHANGED <<pc, seen, missed, held, charge, used, lost>>
        /\ bills[r] \in Nat /\ incs[r] \in Nat /\ seen[r] \in Nat /\ charge[r] \in Nat
        /\ spent \in Nat /\ lost \in Nat /\ extra \in Nat /\ used \in Nat
        /\ bills'[r] = bills[r] + 1 /\ incs'[r] = incs[r] + 1
        /\ spent' = spent + charge[r]
        /\ extra' = IF bills[r] > 0 THEN extra + charge[r] ELSE extra
    BY DEF CommitBill, workVars, LifeInv, TypeOK
  <1>2. r \in Billed' /\ r \in held /\ ~QuotaExceeded(r) /\ UnderWay(r)'
    <2>1. r \in Billed' /\ incs'[r] > 0
      BY <1>1 DEF Billed
    <2>2. r \in held
      BY <2>1 DEF LifeInv, Life, CommitBill
    <2>3. QED
      BY <1>0, <1>1, <2>1, <2>2, BillTouches DEF QuotaInv, UnderWay
  <1>3. \A q, p \in Requests :
          q # p /\ UnderWay(q)' /\ UnderWay(p)' => Overlap(q, p)'
    BY <1>0, <1>1, BillTouches DEF QuotaInv, Overlap
  <1>4. \A q \in Requests : q # r /\ UnderWay(q)' => Overlapped(q)'
    BY <1>0, <1>2, <1>3 DEF Overlapped
  <1>5. \/ Clash' \/ Overlapped(r)' \/ SpentAtMost(seen[r] + charge[r])'
    <2>1. CASE bills[r] > 0
      <3>1. Clash \/ Overlapped(r) \/ SpentAtMost(seen[r] + charge[r])
        BY <1>0, <2>1, BillTouches DEF QuotaInv
      <3>2. SpentAtMost(seen[r] + charge[r]) => SpentAtMost(seen[r] + charge[r])'
        BY <1>1, <2>1 DEF SpentAtMost
      <3>3. QED
        BY <1>0, <3>1, <3>2, BillTouches
    <2>2. CASE ~(bills[r] > 0)
      <3>1. Clash \/ Overlapped(r) \/ SpentAtMost(seen[r] + 0)
        BY <1>0, <2>2, BillTouches DEF QuotaInv
      <3>2. SpentAtMost(seen[r] + 0) => SpentAtMost(seen[r] + charge[r])'
        BY <1>1, <2>2 DEF SpentAtMost
      <3>3. QED
        BY <1>0, <3>1, <3>2, BillTouches
    <2>3. QED
      BY <2>1, <2>2
  <1>6. ASSUME NEW q \in Requests, UnderWay(q)'
        PROVE  \/ Clash' \/ Overlapped(q)'
               \/ SpentAtMost(seen[q] + (IF bills[q] > 0 THEN charge[q] ELSE 0))'
    <2>1. CASE q = r
      <3>1. bills'[r] > 0
        BY <1>1
      <3>2. QED
        BY <1>5, <2>1, <3>1
    <2>2. QED
      BY <1>4, <1>6, <2>1
  <1>7. ASSUME NEW q \in Requests, UnderWay(q)', incs'[q] < bills'[q]
        PROVE  Clash' \/ Overlapped(q)' \/ SpentAtMost(used)'
    <2>1. CASE q = r
      <3>1. incs[r] < bills[r] /\ bills[r] > 0
        BY <1>1, <1>7, <2>1
      <3>2. Clash \/ Overlapped(r) \/ SpentAtMost(used)
        BY <1>0, <3>1, BillTouches DEF QuotaInv
      <3>3. SpentAtMost(used) => SpentAtMost(used)'
        BY <1>1, <3>1 DEF SpentAtMost
      <3>4. QED
        BY <1>0, <2>1, <3>2, <3>3, BillTouches
    <2>2. QED
      BY <1>4, <1>7, <2>1
  <1>8. \A q \in Requests : seen'[q] <= used'
    BY <1>1 DEF QuotaInv
  <1>9. \A q \in held' : ~QuotaExceeded(q)'
    BY <1>0, <1>1, BillTouches DEF QuotaInv
  <1>10. QuotaPassedOnlyTogether'
    <2> SUFFICES ASSUME QuotaLimit > 0, spent' > QuotaLimit + lost' + extra'
                 PROVE  \/ \E q \in Billed' : charge'[q] > Cost
                        \/ \E q \in Billed' : missed'[q] \cap Billed' # {}
      BY DEF QuotaPassedOnlyTogether
    <2>1. ASSUME Clash' \/ Overlapped(r)'
          PROVE  \E q \in Billed' : missed'[q] \cap Billed' # {}
      BY <1>2, <2>1 DEF Clash, Overlapped, Overlap
    <2>2. CASE charge[r] > Cost
      BY <1>1, <1>2, <2>2
    <2>3. CASE ~(charge[r] > Cost) /\ SpentAtMost(seen[r] + charge[r])'
      <3>1. spent' <= seen[r] + charge[r] + lost' + extra'
        BY <1>1, <2>3 DEF SpentAtMost
      <3>2. seen[r] + Cost <= QuotaLimit
        BY <1>1, <1>2 DEF QuotaExceeded
      <3>3. lost' \in Nat /\ extra' \in Nat /\ spent' \in Nat
        BY <1>1
      <3>4. QED
        BY <1>1, <2>3, <3>1, <3>2, <3>3
    <2>4. QED
      BY <1>5, <2>1, <2>2, <2>3
  <1>11. QED
    BY <1>2, <1>3, <1>6, <1>7, <1>8, <1>9, <1>10 DEF QuotaInv

(* A worker starts on r or gives up: nothing is billed. *)
LEMMA QuotaWorker ==
  ASSUME LifeInv, QuotaInv, NEW r \in Requests,
         CheckBillingLogExists(r) \/ BillFails(r)
  PROVE  QuotaInv'
  <1>0. BillStep(r)
    BY DEF BillStep
  <1>1. UNCHANGED <<pc, seen, missed, held, charge, bills, incs, used, spent, lost, extra>>
    BY DEF CheckBillingLogExists, BillFails, workVars
  <1>2. Billed' = Billed
    BY <1>1 DEF Billed
  <1>3. /\ Clash' <=> Clash
        /\ \A q \in Requests : Overlapped(q)' <=> Overlapped(q)
        /\ \A n : SpentAtMost(n)' <=> SpentAtMost(n)
    BY <1>1, <1>2 DEF Clash, Overlapped, Overlap, SpentAtMost
  <1>4. \A q \in Requests : UnderWay(q)' => UnderWay(q)
    BY <1>0, BillTouches
  <1>5. (\A q \in Billed' : ~UnderWay(q)') => Clash' \/ SpentAtMost(used)'
    <2>1. CASE r \in Billed
      <3>1. bills[r] > 0 /\ bills[r] \in Nat /\ incs[r] \in Nat
        BY <2>1 DEF Billed, LifeInv, TypeOK
      <3>2. ~UnderWay(r)' => incs[r] = 0
        BY <1>0, <1>1, <3>1, BillTouches DEF UnderWay
      <3>3. ~UnderWay(r)' => Clash \/ Overlapped(r) \/ SpentAtMost(used)
        BY <1>0, <3>1, <3>2, BillTouches DEF QuotaInv
      <3>4. Overlapped(r) => Clash
        BY <2>1 DEF Clash
      <3>5. QED
        BY <1>1, <1>2, <1>3, <2>1, <3>3, <3>4 DEF SpentAtMost
    <2>2. CASE r \notin Billed
      BY <1>0, <1>1, <1>2, <1>3, <2>2, BillTouches, BilledIs DEF QuotaInv, SpentAtMost
    <2>3. QED
      BY <2>1, <2>2
  <1>6. \A q \in held' : ~QuotaExceeded(q)'
    BY <1>0, <1>1, BillTouches DEF QuotaInv
  <1>7. QuotaPassedOnlyTogether'
    BY <1>1, <1>2 DEF QuotaInv, QuotaPassedOnlyTogether
  <1>8. \A q, p \in Requests :
          q # p /\ UnderWay(q)' /\ UnderWay(p)' => Overlap(q, p)'
    BY <1>1, <1>4 DEF QuotaInv, Overlap
  <1>9. ASSUME NEW q \in Requests, UnderWay(q)'
        PROVE  \/ Clash' \/ Overlapped(q)'
               \/ SpentAtMost(seen[q] + (IF bills[q] > 0 THEN charge[q] ELSE 0))'
    <2>1. \/ Clash \/ Overlapped(q)
          \/ SpentAtMost(seen[q] + (IF bills[q] > 0 THEN charge[q] ELSE 0))
      BY <1>4, <1>9 DEF QuotaInv
    <2>2. QED
      BY <1>1, <1>3, <2>1 DEF SpentAtMost
  <1>10. \A q \in Requests : UnderWay(q)' /\ incs'[q] < bills'[q] =>
           Clash' \/ Overlapped(q)' \/ SpentAtMost(used)'
    BY <1>1, <1>3, <1>4 DEF QuotaInv, SpentAtMost
  <1>11. \A q \in Requests : seen'[q] <= used'
    BY <1>1 DEF QuotaInv
  <1>12. QED
    BY <1>5, <1>6, <1>7, <1>8, <1>9, <1>10, <1>11 DEF QuotaInv

(* The increment: counted or lost, it leaves the bills covered by what     *)
(* quota_used is now.                                                      *)
LEMMA QuotaIncrement ==
  ASSUME LifeInv, QuotaInv, NEW r \in Requests, IncrementAPIKeyQuotaUsed(r)
  PROVE  QuotaInv'
  <1>0. BillStep(r)
    BY DEF BillStep
  <1>1. /\ UNCHANGED <<pc, seen, missed, held, charge, bills, txs, spent, extra>>
        /\ \/ used' = used + charge[r] /\ lost' = lost
           \/ lost' = lost + charge[r] /\ used' = used
        /\ seen[r] \in Nat /\ charge[r] \in Nat /\ incs[r] > 0 /\ bills[r] \in Nat
        /\ spent \in Nat /\ lost \in Nat /\ extra \in Nat /\ used \in Nat
        /\ incs[r] \in Nat /\ incs[r] <= bills[r]
    BY DEF IncrementAPIKeyQuotaUsed, workVars, LifeInv, TypeOK, Life
  <1>2. Billed' = Billed /\ r \in Billed
    BY <1>1 DEF Billed
  <1>3. /\ Clash' <=> Clash
        /\ \A q \in Requests : Overlapped(q)' <=> Overlapped(q)
    BY <1>1, <1>2 DEF Clash, Overlapped, Overlap
  <1>4. used' >= used /\ lost' >= lost /\ used' \in Nat /\ lost' \in Nat
    BY <1>1
  <1>5. Overlapped(r) => Clash
    BY <1>2 DEF Clash
  <1>6. Clash \/ SpentAtMost(used)'
    <2>1. bills[r] > 0
      BY <1>1
    <2>2. Clash \/ SpentAtMost(seen[r] + charge[r])
      BY <1>0, <1>5, <2>1, BillTouches DEF QuotaInv
    <2>3. seen[r] <= used
      BY DEF QuotaInv
    <2>4. SpentAtMost(seen[r] + charge[r]) => SpentAtMost(used)'
      BY <1>1, <2>3 DEF SpentAtMost
    <2>5. QED
      BY <2>2, <2>4
  <1>7. \A q, p \in Requests :
          q # p /\ UnderWay(q)' /\ UnderWay(p)' => Overlap(q, p)'
    BY <1>0, <1>1, BillTouches DEF QuotaInv, Overlap
  <1>8. ASSUME NEW q \in Requests, UnderWay(q)'
        PROVE  \/ Clash' \/ Overlapped(q)'
               \/ SpentAtMost(seen[q] + (IF bills[q] > 0 THEN charge[q] ELSE 0))'
    <2>0. UnderWay(q)
      BY <1>0, <1>8, BillTouches
    <2> DEFINE n == seen[q] + (IF bills[q] > 0 THEN charge[q] ELSE 0)
    <2>1. Clash \/ Overlapped(q) \/ SpentAtMost(n)
      BY <2>0 DEF QuotaInv
    <2>2. n \in Nat /\ n' = n
      BY <1>1 DEF LifeInv, TypeOK
    <2> HIDE DEF n
    <2>3. SpentAtMost(n) => SpentAtMost(n)'
      BY <1>1, <1>4, <2>2 DEF SpentAtMost
    <2>4. QED
      BY <1>3, <2>1, <2>3 DEF n
  <1>9. \A q \in Requests : seen'[q] <= used'
    BY <1>1, <1>4 DEF QuotaInv, LifeInv, TypeOK
  <1>10. \A q \in held' : ~QuotaExceeded(q)'
    BY <1>0, <1>1, BillTouches DEF QuotaInv
  <1>11. QuotaPassedOnlyTogether'
    <2>0. /\ spent' = spent /\ extra' = extra /\ lost' >= lost
          /\ {spent, extra, lost, lost', QuotaLimit} \subseteq Int
      BY <1>1, <1>4, GatewayAssumption
    <2>1. spent' > QuotaLimit + lost' + extra'
            => spent > QuotaLimit + lost + extra
      BY <2>0
    <2>2. QED
      BY <1>1, <1>2, <2>1 DEF QuotaInv, QuotaPassedOnlyTogether
  <1>12. QED
    BY <1>3, <1>6, <1>7, <1>8, <1>9, <1>10, <1>11 DEF QuotaInv

LEMMA QuotaNext == LifeInv /\ QuotaInv /\ [Next]_vars => QuotaInv'
  <1> SUFFICES ASSUME LifeInv, QuotaInv, [Next]_vars PROVE QuotaInv'
    OBVIOUS
  <1>1. ASSUME NEW r \in Requests, BillStep(r) PROVE QuotaInv'
    BY <1>1, QuotaCommit, QuotaWorker, QuotaIncrement DEF BillStep
  <1>2. ASSUME NEW r \in Requests, ReadAPIKey(r) PROVE QuotaInv'
    BY <1>2, QuotaRead
  <1>4. ASSUME NEW r \in Requests, RequestStep(r), ~ReadAPIKey(r) PROVE QuotaInv'
    <2> USE DEF RequestStep, PreDeduct, CheckRateLimit, AcquireSlot, RejectUpgrade,
          Forward, RoundTripFails, UpstreamRefuses, UpstreamSwitches,
          handleUpgradeResponse, UpstreamBody, UpstreamStreams,
          CopyDone, ReadChunk, ReadEOF, StreamBreaks, CloseBody, triggerComplete,
          CloseWith, Refund, KeepOpen, Leave, Goto, ReadPrices
    <2>1. UNCHANGED <<seen, missed, billVars>>
      BY <1>4
    <2>a. UNCHANGED <<bills, txs, incs>>
      BY <2>1 DEF billVars
    <2>2. \A q \in Requests : UnderWay(q)' => UnderWay(q)
      BY <1>4, <2>a DEF UnderWay, AfterLimit, Limits, LifeInv, TypeOK
    <2>3. \A q \in held' : q \in held \/ ~QuotaExceeded(q)
      BY <1>4
    <2>4. \A q \in Requests : pc'[q] # pc[q] => pc'[q] # "start"
      BY <1>4 DEF AfterLimit, Limits, LifeInv, TypeOK
    <2>5. \A q \in Requests :
            closes[q] > 0 => charge'[q] = charge[q] /\ pc'[q] \notin {"start", "rejected"}
      <3> SUFFICES ASSUME NEW q \in Requests, closes[q] > 0
                   PROVE  charge'[q] = charge[q] /\ pc'[q] \notin {"start", "rejected"}
        OBVIOUS
      <3>1. q # r => charge'[q] = charge[q] /\ pc'[q] = pc[q]
        BY <1>4 DEF LifeInv, TypeOK
      <3>2. pc[q] \in PCs \ (Unheld \cup Before)
        BY DEF LifeInv, TypeOK, Life
      <3>3. q = r => charge'[q] = charge[q] /\ pc'[q] \notin {"start", "rejected"}
        <4>1. pc[r] \in {"close", "copy", "switch", "done", "crashed"} \/ q # r
          BY <3>2 DEF PCs, Limits, Unheld, Before
        <4>2. pc[r] = "close" => IF r \in once THEN TRUE ELSE closes[r] = 0
          BY DEF LifeInv, Life
        <4>3. pc[r] = "switch" => charge[r] = 0
          BY DEF LifeInv, Life
        <4>4. QED
          BY <1>4, <4>1, <4>2, <4>3 DEF Limits, ReadAPIKey, LifeInv, TypeOK
      <3>4. QED
        BY <3>1, <3>2, <3>3 DEF Unheld
    <2>6. \A q \in Billed : charge'[q] = charge[q] /\ (UnderWay(q) => UnderWay(q)')
      BY <2>a, <2>5, BilledIs DEF UnderWay
    <2>7. QED
      BY <2>1, <2>2, <2>3, <2>6, QuotaFrame
  <1>5. CASE Crash
    <2>0. UNCHANGED <<bills, txs, incs>>
      BY <1>5 DEF Crash, billVars
    <2>1. \A q \in Requests : UnderWay(q)' <=> UnderWay(q)
      BY <1>5, <2>0 DEF Crash, UnderWay, Running
    <2>2. QED
      BY <1>5, <2>1, QuotaFrame, BilledIs DEF Crash
  <1>6. CASE UNCHANGED vars
    BY <1>6, QuotaFrame DEF vars, workVars, billVars, UnderWay
  <1>7. QED
    BY <1>1, <1>2, <1>4, <1>5, <1>6 DEF Next

(* A key is billed past its quota_limit only through requests that         *)
(* overlapped or cost more than their estimate, but for increments of      *)
(* quota_used that were lost and bills made twice: the check against the   *)
(* quota_used read with the key is exact for requests one after the other. *)
THEOREM QuotaExactInSequence == Spec => []QuotaPassedOnlyTogether
  <1>1. QuotaInv => QuotaPassedOnlyTogether
    BY DEF QuotaInv
  <1>2. Init => LifeInv /\ QuotaInv
    BY LifeInit, QuotaInit
  <1>3. LifeInv /\ QuotaInv /\ [Next]_vars => (LifeInv /\ QuotaInv)'
    BY LifeNext, QuotaNext
  <1>4. QED
    BY <1>1, <1>2, <1>3, PTL DEF Spec

-----------------------------------------------------------------------------
(* The models in memory, and what requests are priced with.                *)

Tables == [Models -> ModelRows \cup {None}]
ChannelTables == [Channels -> ChannelRows \cup {None}]

(* What a loop has read is what it stores next. *)
LoopInv ==
  /\ writes \in 0 .. MaxWrites /\ messages <= writes
  /\ DOMAIN loop = Loops
  /\ \A l \in Loops :
       /\ loop[l].at = "storeChannels" => loop[l].got \in ChannelTables
       /\ loop[l].at = "storeModels" => loop[l].got \in Tables

(* Past the estimate, and with a row read from the table but not stored. *)
Estimated == {"slot", "slotRead", "slotStore", "sent", "settle", "settleRead",
              "settleStore", "priced"}
Read == {"admitStore", "slotStore", "settleStore"}

(* The strengthening of PricedUnlessGone and EstimateCovers: a request     *)
(* under way whose model is not active has a reason already, what it read  *)
(* is a row, and so is what it was estimated with.                         *)
Reasoned(R) ==
  /\ R.at \in Under \cup {"priced"} => R.ask \in Asks
  /\ R.at \in Under => (Active(models)[R.ask.model] = None => "gone" \in R.why)
  /\ R.at \in Read => R.got \in ModelRows
  /\ R.at \in Estimated => R.est \in ModelRows
  /\ R.at = "unsupported" => R.why # {}
  /\ R.at = "priced" /\ R.act = NoPrices => R.why # {}

PriceInv == ConfigTypeOK /\ LoopInv /\ \A r \in PricedRequests : Reasoned(req[r])

(* Listing the active rows of a table gives a table. *)
LEMMA ActiveIs ==
  /\ \A t \in Tables : Active(t) \in Tables
  /\ \A t \in ChannelTables : Active(t) \in ChannelTables
  BY DEF Active, Tables, ChannelTables

LEMMA PriceInit == ConfigInit => PriceInv
  <1> SUFFICES ASSUME ConfigInit PROVE PriceInv
    OBVIOUS
  <1>1. models \in Tables /\ channels \in ChannelTables
    BY DEF ConfigInit, Tables, ChannelTables
  <1>2. Empty(Models) \in Tables /\ Empty(Channels) \in ChannelTables
    BY DEF Empty, Tables, ChannelTables
  <1>3. modelCache \in Tables /\ channelCache \in ChannelTables
    BY <1>1, <1>2, ActiveIs
       DEF ConfigInit, StartBackgroundSync, listActiveModels, listActiveChannels
  <1>4. Fresh \in Records /\ Reasoned(Fresh)
    BY DEF Fresh, Records, Reasoned, Under, Read, Estimated
  <1>5. req \in [PricedRequests -> Records] /\ \A r \in PricedRequests : Reasoned(req[r])
    BY <1>4 DEF ConfigInit
  <1>6. LoopInv /\ messages = 0 /\ \A l \in Loops : loop[l].at = "idle"
    BY ConfigAssumption DEF ConfigInit, LoopInv, Idle
  <1>7. QED
    BY <1>1, <1>3, <1>5, <1>6, ConfigAssumption
       DEF PriceInv, ConfigTypeOK, Tables, ChannelTables

(* An administrator's write: whoever loses the model is told why. *)
LEMMA WriteKeeps ==
  ASSUME PriceInv, Write, models' \in Tables, channels' \in ChannelTables
  PROVE  PriceInv'
  <1> DEFINE Lost(r) == req[r].at \in Under /\ Active(models')[req[r].ask.model] = None
  <1>1. /\ req \in [PricedRequests -> Records] /\ messages \in Nat
        /\ \A r \in PricedRequests : req[r] \in Records /\ Reasoned(req[r])
    BY DEF PriceInv, ConfigTypeOK
  <1>2. ASSUME NEW r \in PricedRequests
        PROVE  /\ req'[r] \in Records /\ Reasoned(req[r])'
               /\ req'[r].at = req[r].at
    <2> DEFINE R == req[r]
               new == [at |-> R.at, ask |-> R.ask, got |-> R.got, est |-> R.est,
                       act |-> R.act, why |-> R.why \cup {"gone"}]
    <2>1. R \in Records /\ Reasoned(R)
      BY <1>1
    <2>2. CASE Lost(r)
      <3>1. [R EXCEPT !.why = @ \cup {"gone"}] = new
        BY <2>1 DEF Records
      <3>2. req'[r] = new
        BY <2>2, <3>1 DEF Write, NoteGone
      <3>3. new \in Records
        BY <2>1 DEF Records
      <3>4. QED
        BY <2>1, <3>2, <3>3 DEF Reasoned
    <2>3. CASE ~Lost(r)
      <3>1. req'[r] = R
        BY <2>3 DEF Write, NoteGone
      <3>2. QED
        BY <2>1, <2>3, <3>1 DEF Reasoned
    <2>4. QED
      BY <2>2, <2>3
  <1>3. req' \in [PricedRequests -> Records]
    BY <1>2 DEF Write, NoteGone
  <1>4. LoopInv' /\ messages' \in 0 .. MaxWrites
    <2>1. writes' = writes + 1 /\ writes < MaxWrites /\ messages' \in {messages, messages + 1}
      BY DEF Write, notifyConfigRefresh
    <2>2. loop' = loop
      BY DEF Write
    <2>3. /\ messages' \in Nat /\ messages' <= writes' /\ writes' \in 0 .. MaxWrites
          /\ messages' \in 0 .. MaxWrites
      BY <1>1, <2>1, ConfigAssumption DEF PriceInv, LoopInv
    <2>4. QED
      BY <2>2, <2>3 DEF PriceInv, LoopInv, Tables, ChannelTables
  <1>5. modelCache' = modelCache /\ channelCache' = channelCache /\ loop' = loop
    BY DEF Write
  <1>6. QED
    BY <1>2, <1>3, <1>4, <1>5
       DEF PriceInv, ConfigTypeOK, Tables, ChannelTables

LEMMA AdminKeeps == PriceInv /\ Admin => PriceInv'
  <1> SUFFICES ASSUME PriceInv, Admin PROVE PriceInv'
    OBVIOUS
  <1>1. models \in Tables /\ channels \in ChannelTables
    BY DEF PriceInv, ConfigTypeOK, Tables, ChannelTables
  <1>2. Write
    BY DEF Admin, CreateModel, UpdateModel, DeleteModel, CreateChannel, UpdateChannel,
           DeleteChannel
  <1>3. models' \in Tables /\ channels' \in ChannelTables
    <2>1. ASSUME NEW m \in Models, NEW row \in ModelRows,
                 CreateModel(m, row) \/ UpdateModel(m, row)
          PROVE  models' \in Tables /\ channels' \in ChannelTables
      BY <1>1, <2>1 DEF CreateModel, UpdateModel, createModel, updateModel, Tables
    <2>2. ASSUME NEW m \in Models, DeleteModel(m)
          PROVE  models' \in Tables /\ channels' \in ChannelTables
      BY <1>1, <2>2 DEF DeleteModel, deleteModel, Tables
    <2>3. ASSUME NEW c \in Channels, NEW row \in ChannelRows,
                 CreateChannel(c, row) \/ UpdateChannel(c, row)
          PROVE  models' \in Tables /\ channels' \in ChannelTables
      BY <1>1, <2>3 DEF CreateChannel, UpdateChannel, createChannel, updateChannel,
                        ChannelTables
    <2>4. ASSUME NEW c \in Channels, DeleteChannel(c)
          PROVE  models' \in Tables /\ channels' \in ChannelTables
      BY <1>1, <2>4 DEF DeleteChannel, deleteChannel, ChannelTables
    <2>5. QED
      BY <2>1, <2>2, <2>3, <2>4 DEF Admin
  <1>4. QED
    BY <1>2, <1>3, WriteKeeps

(* A loop: the copies it stores are tables it has read. *)
LEMMA RefreshKeeps ==
  ASSUME PriceInv, NEW l \in Loops, Refresh(l)
  PROVE  PriceInv'
  <1>1. /\ models \in Tables /\ channels \in ChannelTables
        /\ modelCache \in Tables /\ channelCache \in ChannelTables
        /\ messages \in Nat /\ messages <= writes /\ writes \in 0 .. MaxWrites
        /\ MaxWrites \in Nat
    BY ConfigAssumption DEF PriceInv, LoopInv, ConfigTypeOK, Tables, ChannelTables
  <1>2. models' = models /\ channels' = channels /\ req' = req /\ writes' = writes
    BY DEF Refresh, ListActiveChannels, LoadChannels, ListActiveModels, LoadAllModels,
           QueryFails, SafeGo, tables
  <1>3. messages' \in Nat /\ messages' <= messages
    BY <1>1 DEF Refresh, ListActiveChannels, LoadChannels, ListActiveModels,
                LoadAllModels, QueryFails, SafeGo, Woken
  <1>4. modelCache' \in Tables /\ channelCache' \in ChannelTables
    BY <1>1 DEF Refresh, ListActiveChannels, LoadChannels, ListActiveModels,
                LoadAllModels, QueryFails, SafeGo, caches, PriceInv, LoopInv
  <1>5. ASSUME NEW at \in {"idle", "storeChannels", "models", "storeModels"}, NEW got,
               Goes(l, at, got),
               at = "storeChannels" => got \in ChannelTables,
               at = "storeModels" => got \in Tables
        PROVE  /\ LoopInv'
               /\ \A k \in Loops :
                    loop'[k].at \in {"idle", "storeChannels", "models", "storeModels"}
    <2>1. DOMAIN loop' = Loops /\ \A k \in Loops :
            loop'[k] = IF k = l THEN [at |-> at, got |-> got] ELSE loop[k]
      BY <1>5 DEF PriceInv, LoopInv, Goes
    <2>2. QED
      BY <1>1, <1>2, <1>3, <1>5, <2>1
         DEF PriceInv, LoopInv, ConfigTypeOK, Tables, ChannelTables
  <1>6. /\ LoopInv'
        /\ \A k \in Loops :
             loop'[k].at \in {"idle", "storeChannels", "models", "storeModels"}
    <2>1. CASE ListActiveChannels(l)
      <3>1. listActiveChannels \in ChannelTables
        BY <1>1, ActiveIs DEF listActiveChannels
      <3>2. QED
        BY <1>5, <2>1, <3>1 DEF ListActiveChannels
    <2>2. CASE ListActiveModels(l)
      <3>1. listActiveModels \in Tables
        BY <1>1, ActiveIs DEF listActiveModels
      <3>2. QED
        BY <1>5, <2>2, <3>1 DEF ListActiveModels
    <2>3. CASE LoadChannels(l) \/ LoadAllModels(l) \/ QueryFails(l) \/ SafeGo(l)
      BY <1>5, <2>3 DEF LoadChannels, LoadAllModels, QueryFails, SafeGo
    <2>4. QED
      BY <2>1, <2>2, <2>3 DEF Refresh
  <1>7. \A r \in PricedRequests : Reasoned(req[r])'
    BY <1>2 DEF PriceInv, Reasoned
  <1>8. messages' \in 0 .. MaxWrites
    BY <1>1, <1>3
  <1>9. QED
    BY <1>1, <1>2, <1>4, <1>6, <1>7, <1>8
       DEF PriceInv, ConfigTypeOK, Tables, ChannelTables

(* A request: one record changes, and the new one keeps the invariant. *)
LEMMA StepKeeps ==
  ASSUME PriceInv, NEW r \in PricedRequests, NEW new \in Records, Reasoned(new),
         Step(r, new), modelCache' \in Tables
  PROVE  PriceInv'
  <1>1. /\ req' = [req EXCEPT ![r] = new] /\ models' = models /\ channels' = channels
        /\ channelCache' = channelCache /\ messages' = messages /\ loop' = loop
        /\ writes' = writes
    BY DEF Step, tables
  <1>2. req' \in [PricedRequests -> Records]
    BY <1>1 DEF PriceInv, ConfigTypeOK
  <1>3. \A q \in PricedRequests : req'[q] = IF q = r THEN new ELSE req[q]
    BY <1>1 DEF PriceInv, ConfigTypeOK
  <1>4. \A q \in PricedRequests : Reasoned(req[q])'
    BY <1>1, <1>3 DEF PriceInv, Reasoned
  <1>5. LoopInv'
    BY <1>1 DEF PriceInv, LoopInv, Tables, ChannelTables
  <1>6. QED
    BY <1>1, <1>2, <1>4, <1>5 DEF PriceInv, ConfigTypeOK, Tables

LEMMA RequestKnown ==
  ASSUME PriceInv, NEW r \in PricedRequests
  PROVE  req[r] \in Records /\ Reasoned(req[r]) /\ models \in Tables /\ modelCache \in Tables
  BY DEF PriceInv, ConfigTypeOK, Tables

(* A row that was found leaves the request priced, or turned away for its  *)
(* modality.                                                               *)
LEMMA FoundIs ==
  ASSUME PriceInv, NEW r \in PricedRequests, NEW at \in Lookups, NEW row \in ModelRows,
         req[r].at \in {at, StoreAt[at]}
  PROVE  Found(r, at, row) \in Records /\ Reasoned(Found(r, at, row))
  <1> DEFINE R == req[r]
  <1>1. R \in Records /\ Reasoned(R)
    BY RequestKnown
  <1>2. R.at \in Under /\ R.ask \in Asks
    BY <1>1 DEF Lookups, StoreAt, Under, Reasoned
  <1>3. row # NoPrices
    BY ConfigAssumption DEF NoPrices
  <1>4. CASE at = "admit"
    <2>1. Found(r, at, row) \in
            { [at |-> "slot", ask |-> R.ask, got |-> None, est |-> row, act |-> R.act,
               why |-> R.why],
              [at |-> "mismatch", ask |-> R.ask, got |-> None, est |-> R.est,
               act |-> R.act, why |-> R.why] }
      BY <1>1, <1>4 DEF Found, Records
    <2>2. QED
      BY <1>1, <1>2, <2>1 DEF Records, Reasoned, Under, Read, Estimated
  <1>5. CASE at = "slot"
    <2>1. Found(r, at, row) =
            [at |-> "sent", ask |-> R.ask, got |-> None, est |-> R.est, act |-> R.act,
             why |-> R.why]
      BY <1>1, <1>5 DEF Found, Records
    <2>2. R.est \in ModelRows
      BY <1>1, <1>5 DEF Reasoned, Estimated, StoreAt
    <2>3. QED
      BY <1>1, <1>2, <2>1, <2>2 DEF Records, Reasoned, Under, Read, Estimated
  <1>6. CASE at = "settle"
    <2>1. Found(r, at, row) =
            [at |-> "priced", ask |-> R.ask, got |-> None, est |-> R.est, act |-> row,
             why |-> R.why]
      BY <1>1, <1>6 DEF Found, Records
    <2>2. R.est \in ModelRows
      BY <1>1, <1>6 DEF Reasoned, Estimated, StoreAt
    <2>3. QED
      BY <1>1, <1>2, <1>3, <2>1, <2>2 DEF Records, Reasoned, Under, Read, Estimated
  <1>7. QED
    BY <1>4, <1>5, <1>6 DEF Lookups

(* A row that was not found leaves the request with its reason. *)
LEMMA NotFoundIs ==
  ASSUME PriceInv, NEW r \in PricedRequests, NEW at \in Lookups, NEW why \in SUBSET {"error"},
         req[r].at = ReadAt[at],
         why # {} \/ getModelByName(req[r].ask.model) = None
  PROVE  NotFound(r, at, why) \in Records /\ Reasoned(NotFound(r, at, why))
  <1> DEFINE R == req[r]
  <1>1. R \in Records /\ Reasoned(R)
    BY RequestKnown
  <1>2. R.at \in Under /\ R.ask \in Asks
    BY <1>1 DEF Lookups, ReadAt, Under, Reasoned
  <1>3. R.why \cup why # {} /\ R.why \cup why \in SUBSET {"gone", "error"}
    BY <1>1, <1>2 DEF Reasoned, getModelByName, Records
  <1>4. CASE at = "settle"
    <2>1. NotFound(r, at, why) =
            [at |-> "priced", ask |-> R.ask, got |-> R.got, est |-> R.est,
             act |-> NoPrices, why |-> R.why \cup why]
      BY <1>1, <1>4 DEF NotFound, Records
    <2>2. R.est \in ModelRows
      BY <1>1, <1>4 DEF Reasoned, Estimated, ReadAt
    <2>3. QED
      BY <1>1, <1>2, <1>3, <2>1, <2>2 DEF Records, Reasoned, Under, Read, Estimated
  <1>5. CASE at # "settle"
    <2>1. NotFound(r, at, why) =
            [at |-> "unsupported", ask |-> R.ask, got |-> R.got, est |-> R.est,
             act |-> R.act, why |-> R.why \cup why]
      BY <1>1, <1>5 DEF NotFound, Records
    <2>2. QED
      BY <1>1, <1>2, <1>3, <2>1 DEF Records, Reasoned, Under, Read, Estimated
  <1>6. QED
    BY <1>4, <1>5

LEMMA ServeKeeps ==
  ASSUME PriceInv, NEW r \in PricedRequests, Serve(r)
  PROVE  PriceInv'
  <1> DEFINE R == req[r]
             To(place) == [at |-> place, ask |-> R.ask, got |-> R.got, est |-> R.est,
                           act |-> R.act, why |-> R.why]
  <1>1. R \in Records /\ Reasoned(R) /\ models \in Tables /\ modelCache \in Tables
    BY RequestKnown
  <1>2. \A place : [R EXCEPT !.at = place] = To(place)
    BY <1>1 DEF Records
  <1>3. ASSUME NEW q \in Asks, Arrive(r, q) PROVE PriceInv'
    <2> DEFINE why == IF Active(models)[q.model] = None THEN {"gone"} ELSE {}
               new == [at |-> "admit", ask |-> q, got |-> None, est |-> None, act |-> None,
                       why |-> why]
    <2>1. [Fresh EXCEPT !.at = "admit", !.ask = q, !.why = why] = new
      <3> DEFINE one == [at |-> "admit", ask |-> None, got |-> None, est |-> None,
                         act |-> None, why |-> {}]
                 two == [at |-> "admit", ask |-> q, got |-> None, est |-> None,
                         act |-> None, why |-> {}]
      <3>1. [Fresh EXCEPT !.at = "admit"] = one
        BY DEF Fresh
      <3>2. [one EXCEPT !.ask = q] = two
        OBVIOUS
      <3> HIDE DEF why
      <3>3. [two EXCEPT !.why = why] = new
        OBVIOUS
      <3>4. QED
        BY <3>1, <3>2, <3>3, Zenon
    <2>2. Step(r, new) /\ modelCache' = modelCache
      BY <1>3, <2>1 DEF Arrive
    <2>3. new \in Records /\ Reasoned(new)
      BY DEF Records, Reasoned, Under, Read, Estimated
    <2> HIDE DEF new
    <2>4. QED
      BY <1>1, <2>2, <2>3, StepKeeps
  <1>4. ASSUME NEW at \in Lookups, GetModel(r, at) PROVE PriceInv'
    <2> DEFINE row == modelCache[R.ask.model]
    <2>1. R.at = at /\ R.ask \in Asks /\ R.ask.model \in Models
      BY <1>1, <1>4, ConfigAssumption DEF GetModel, Reasoned, Lookups, Under
    <2>2. row \in ModelRows \cup {None} /\ modelCache' = modelCache
      BY <1>1, <1>4, <2>1 DEF Tables, GetModel
    <2>3. CASE row # None
      <3>1. Step(r, Found(r, at, row))
        BY <1>4, <2>3 DEF GetModel
      <3>2. Found(r, at, row) \in Records /\ Reasoned(Found(r, at, row))
        BY <2>1, <2>2, <2>3, FoundIs
      <3>3. QED
        BY <1>1, <2>2, <3>1, <3>2, StepKeeps
    <2>4. CASE row = None
      <3>1. Step(r, To(ReadAt[at]))
        BY <1>2, <1>4, <2>4 DEF GetModel
      <3>2. To(ReadAt[at]) \in Records /\ Reasoned(To(ReadAt[at]))
        BY <1>1, <2>1 DEF Records, Reasoned, Under, Read, Estimated, Lookups, ReadAt
      <3> HIDE DEF To
      <3>3. QED
        BY <1>1, <2>2, <3>1, <3>2, StepKeeps
    <2>5. QED
      BY <2>3, <2>4
  <1>5. ASSUME NEW at \in Lookups, LoadModel(r, at) PROVE PriceInv'
    <2>1. R.at = StoreAt[at] /\ R.got \in ModelRows /\ R.ask.model \in Models
      BY <1>1, <1>5, ConfigAssumption
         DEF LoadModel, Reasoned, Lookups, Under, Read, StoreAt
    <2>2. Step(r, Found(r, at, R.got)) /\ modelCache' \in Tables
      BY <1>1, <1>5, <2>1 DEF LoadModel, Tables
    <2>3. Found(r, at, R.got) \in Records /\ Reasoned(Found(r, at, R.got))
      BY <2>1, FoundIs
    <2>4. QED
      BY <2>2, <2>3, StepKeeps
  <1>6. ASSUME NEW at \in Lookups, GetModelByName(r, at) PROVE PriceInv'
    <2> DEFINE row == getModelByName(R.ask.model)
    <2>1. R.at = ReadAt[at] /\ R.ask \in Asks /\ R.ask.model \in Models
      BY <1>1, <1>6, ConfigAssumption DEF GetModelByName, Reasoned, Lookups, Under, ReadAt
    <2>2. row \in ModelRows \cup {None} /\ modelCache' = modelCache
      <3>1. Active(models) \in Tables
        BY <1>1, ActiveIs
      <3>2. QED
        BY <1>6, <2>1, <3>1 DEF Tables, GetModelByName, getModelByName
    <2>3. CASE row # None
      <3> DEFINE new == [at |-> StoreAt[at], ask |-> R.ask, got |-> row, est |-> R.est,
                         act |-> R.act, why |-> R.why]
      <3>1. [R EXCEPT !.at = StoreAt[at], !.got = row] = new
        <4>1. [To(StoreAt[at]) EXCEPT !.got = row] = new
          OBVIOUS
        <4>2. QED
          BY <1>2, <4>1, Zenon
      <3>2. Step(r, new)
        BY <1>6, <2>3, <3>1 DEF GetModelByName
      <3>3. new \in Records /\ Reasoned(new)
        BY <1>1, <2>1, <2>2, <2>3
           DEF Records, Reasoned, Under, Read, Estimated, Lookups, ReadAt, StoreAt
      <3> HIDE DEF new
      <3>4. QED
        BY <1>1, <2>2, <3>2, <3>3, StepKeeps
    <2>4. CASE row = None
      <3>1. Step(r, NotFound(r, at, {}))
        BY <1>6, <2>4 DEF GetModelByName
      <3>2. NotFound(r, at, {}) \in Records /\ Reasoned(NotFound(r, at, {}))
        BY <2>1, <2>4, NotFoundIs
      <3>3. QED
        BY <1>1, <2>2, <3>1, <3>2, StepKeeps
    <2>5. QED
      BY <2>3, <2>4
  <1>7. ASSUME NEW at \in Lookups, GetModelFails(r, at) PROVE PriceInv'
    <2>1. /\ R.at = ReadAt[at] /\ Step(r, NotFound(r, at, {"error"}))
          /\ modelCache' = modelCache
      BY <1>7 DEF GetModelFails
    <2>2. NotFound(r, at, {"error"}) \in Records /\ Reasoned(NotFound(r, at, {"error"}))
      BY <2>1, NotFoundIs
    <2>3. QED
      BY <1>1, <2>1, <2>2, StepKeeps
  <1>8. CASE Answer(r) \/ NoAnswer(r)
    <2>1. PICK place \in {"settle", "refunded"} :
            R.at = "sent" /\ Step(r, To(place)) /\ modelCache' = modelCache
      BY <1>2, <1>8 DEF Answer, NoAnswer
    <2>2. To(place) \in Records /\ Reasoned(To(place))
      BY <1>1, <2>1 DEF Records, Reasoned, Under, Read, Estimated
    <2> HIDE DEF To
    <2>3. QED
      BY <1>1, <2>1, <2>2, StepKeeps
  <1>9. CASE onComplete(r)
    <2> DEFINE new == [at |-> "settled", ask |-> None, got |-> None, est |-> None,
                       act |-> None, why |-> {}]
    <2>1. Step(r, new) /\ modelCache' = modelCache
      BY <1>9 DEF onComplete, Fresh
    <2>2. new \in Records /\ Reasoned(new)
      BY DEF Records, Reasoned, Under, Read, Estimated
    <2> HIDE DEF new
    <2>3. QED
      BY <1>1, <2>1, <2>2, StepKeeps
  <1>10. QED
    BY <1>3, <1>4, <1>5, <1>6, <1>7, <1>8, <1>9 DEF Serve

LEMMA PriceNext == PriceInv /\ [ConfigNext]_configVars => PriceInv'
  <1> SUFFICES ASSUME PriceInv, [ConfigNext]_configVars PROVE PriceInv'
    OBVIOUS
  <1>1. CASE UNCHANGED configVars
    BY <1>1 DEF PriceInv, ConfigTypeOK, LoopInv, Reasoned, configVars
  <1>2. CASE ConfigNext
    BY <1>2, AdminKeeps, RefreshKeeps, ServeKeeps DEF ConfigNext
  <1>3. QED
    BY <1>1, <1>2

(* No request is turned away as unsupported or settled free of charge for  *)
(* a refresh that emptied the memory of GetModel under it: its model was   *)
(* not active at some moment since it arrived, or a query failed.          *)
THEOREM AlwaysPriced == ConfigSpec => []PricedUnlessGone
  <1>1. PriceInv => PricedUnlessGone
    BY DEF PriceInv, Reasoned, PricedUnlessGone
  <1>2. QED
    BY <1>1, PriceInit, PriceNext, PTL DEF ConfigSpec

-----------------------------------------------------------------------------
(* The estimate and the actual cost.                                       *)

LEMMA DivIs ==
  ASSUME NEW x \in Int, NEW d \in Nat \ {0}
  PROVE  x \div d \in Int /\ d * (x \div d) <= x /\ x < d * (x \div d) + d
  OBVIOUS

LEMMA Times ==
  ASSUME NEW a \in Int, NEW b \in Int, NEW c \in Nat, a <= b
  PROVE  a * c \in Int /\ b * c \in Int /\ a * c <= b * c
  OBVIOUS

(* The greatest multiple of d up to x is not below any other. *)
LEMMA DivBelow ==
  ASSUME NEW x \in Int, NEW d \in Nat \ {0}, NEW q \in Int, d * q <= x
  PROVE  q <= x \div d
  <1> DEFINE p == x \div d
  <1>1. p \in Int /\ x < d * p + d
    BY DivIs
  <1> HIDE DEF p
  <1>2. d * q < d * (p + 1)
    BY <1>1
  <1>3. q < p + 1
    BY <1>1, <1>2
  <1>4. QED
    BY <1>1, <1>3 DEF p

LEMMA DivMonotone ==
  ASSUME NEW x \in Int, NEW y \in Int, NEW d \in Nat \ {0}, x <= y
  PROVE  x \div d <= y \div d
  <1>1. x \div d \in Int /\ d * (x \div d) <= x
    BY DivIs
  <1>2. d * (x \div d) <= y
    BY <1>1
  <1>3. QED
    BY <1>1, <1>2, DivBelow

LEMMA Int64IsInt == Int64 \subseteq Int
  BY PricingAssumption DEF Int64

(* Arithmetic always ends in the range, and changes nothing in it. *)
LEMMA WrapIs ==
  ASSUME NEW n \in Int
  PROVE  Wrap(n) \in Int64 /\ (n \in Int64 => Wrap(n) = n)
  <1> DEFINE w == 2 * HalfRange
             r == (n + HalfRange) % w
  <1>1. HalfRange \in Nat \ {0} /\ w \in Nat \ {0}
    BY PricingAssumption
  <1>2. r \in 0 .. w - 1
    <2> HIDE DEF w
    <2>1. QED
      BY <1>1
  <1>3. ASSUME n \in Int64 PROVE r = n + HalfRange
    <2>1. n + HalfRange \in 0 .. w - 1
      BY <1>1, <1>3 DEF Int64
    <2> HIDE DEF w
    <2>2. QED
      BY <1>1, <2>1
  <1>4. Wrap(n) = r - HalfRange
    BY DEF Wrap
  <1> HIDE DEF r
  <1>5. QED
    BY <1>1, <1>2, <1>3, <1>4 DEF Int64

(* Rounding to the nearest, of less, is never above rounding up. *)
LEMMA RoundBelowCeil ==
  ASSUME NEW x \in Int, NEW y \in Int, NEW d \in Nat \ {0}, x <= y
  PROVE  Round(x, d) \in Int /\ Ceil(y, d) \in Int /\ Round(x, d) <= Ceil(y, d)
  <1> DEFINE q == (2 * x + d) \div (2 * d)
  <1>1. q \in Int /\ (2 * d) * q <= 2 * x + d
    <2>1. 2 * x + d \in Int /\ 2 * d \in Nat \ {0}
      OBVIOUS
    <2>2. QED
      BY <2>1, DivIs
  <1> HIDE DEF q
  <1>2. 2 * (d * q) <= 2 * x + d /\ d * q \in Int
    BY <1>1
  <1>3. d * q <= x + d - 1
    BY <1>2
  <1>4. d * q <= y + d - 1
    BY <1>2, <1>3
  <1>5. q <= (y + d - 1) \div d
    BY <1>1, <1>4, DivBelow
  <1>6. (y + d - 1) \div d \in Int
    BY DivIs
  <1>7. QED
    BY <1>1, <1>5, <1>6 DEF Round, Ceil, q

(* A multiplier above zero and rounding keep the order, which is what      *)
(* TestApplyMultiplierCeilNeverUnderEstimates tries on examples, while the *)
(* greater one fits.                                                       *)
LEMMA MultiplierKeeps ==
  ASSUME NEW a \in Int, NEW b \in Int, a <= b,
         NEW mult \in [num : Int, den : Nat \ {0}], mult.num > 0,
         Ceil(b * mult.num, mult.den) \in Int64
  PROVE  LET cost == ApplyMultiplier(b, mult, TRUE)
         IN  ApplyMultiplier(a, mult, FALSE) <= IF cost = 0 THEN 1 ELSE cost
  <1> DEFINE n == mult.num
             d == mult.den
             up == Ceil(b * n, d)
             near == Round(a * n, d)
  <1>1. n \in Nat /\ n > 0 /\ d \in Nat \ {0}
    OBVIOUS
  <1>2. a * n \in Int /\ b * n \in Int /\ a * n <= b * n
    BY <1>1, Times
  <1>3. near \in Int /\ up \in Int /\ near <= up
    BY <1>1, <1>2, RoundBelowCeil
  <1>4. b > 0 => up >= 0
    <2> SUFFICES ASSUME b > 0 PROVE up >= 0
      OBVIOUS
    <2>1. b * n >= 0
      BY <1>1
    <2>2. d * 0 <= b * n + d - 1
      BY <1>1, <1>2, <2>1
    <2>3. QED
      BY <1>1, <1>2, <2>2, DivBelow DEF Ceil
  <1>5. /\ ApplyMultiplier(b, mult, TRUE) = IF b <= 0 THEN 0 ELSE ToInt64(up)
        /\ ApplyMultiplier(a, mult, FALSE) = IF a <= 0 THEN 0 ELSE ToInt64(near)
    BY DEF ApplyMultiplier
  <1>a. a > 0 => near >= 0
    <2> SUFFICES ASSUME a > 0 PROVE near >= 0
      OBVIOUS
    <2>1. a * n >= 0
      BY <1>1
    <2> DEFINE x == a * n
    <2> HIDE DEF x
    <2>2. 2 * x + d \in Int /\ 2 * d \in Nat \ {0} /\ (2 * d) * 0 <= 2 * x + d
      BY <1>1, <1>2, <2>1 DEF x
    <2>3. 0 <= (2 * x + d) \div (2 * d)
      BY <2>2, DivBelow
    <2>4. QED
      BY <2>3 DEF Round, x
  <1>b. up \in Int64
    OBVIOUS
  <1> DEFINE cost == ApplyMultiplier(b, mult, TRUE)
             charged == ApplyMultiplier(a, mult, FALSE)
  <1> HIDE DEF up, near, cost, charged
  <1>c. a > 0 => near \in Int64
    BY <1>3, <1>a, <1>b, PricingAssumption DEF Int64
  <1>6. /\ cost = IF b <= 0 THEN 0 ELSE up
        /\ charged = IF a <= 0 THEN 0 ELSE near
    <2>1. /\ ToInt64(up) = up
          /\ a > 0 => ToInt64(near) = near
      BY <1>b, <1>c DEF ToInt64
    <2>2. cost = IF b <= 0 THEN 0 ELSE up
      BY <1>5, <2>1, Zenon DEF cost
    <2>3. charged = IF a <= 0 THEN 0 ELSE near
      <3>1. a <= 0 \/ ToInt64(near) = near
        BY <2>1
      <3>2. QED
        BY <1>5, <3>1, Zenon DEF charged
    <2>4. QED
      BY <2>2, <2>3
  <1>7. charged <= IF cost = 0 THEN 1 ELSE cost
    BY <1>3, <1>4, <1>6
  <1>8. QED
    BY <1>7 DEF cost, charged

(* Before the multiplier: what is used within the estimate, at prices that *)
(* are consistent, costs no more than was estimated.                       *)
LEMMA BaseCovers ==
  ASSUME NEW row \in ModelRows, NEW q \in Asks, NEW u \in Usages,
         Within(q, u), Consistent(q, row), Fits(row, q, u)
  PROVE  /\ actualBaseCost(row, q, u) \in Int /\ estimatedBaseCost(row, q) \in Int
         /\ actualBaseCost(row, q, u) <= estimatedBaseCost(row, q)
  <1>0. /\ row.input \in Int /\ row.output \in Int /\ row.hit \in Int /\ row.miss \in Int
        /\ row.request \in Int /\ q.prompt \in Int64 /\ q.n \in Int /\ q.max \in Int
        /\ q.defaultMax \in Int
        /\ u.prompt \in Int /\ u.completion \in Int /\ u.hit \in Int /\ u.miss \in Int
    BY ConfigAssumption, Int64IsInt
  <1>1. /\ row.input \in Nat /\ row.output \in Nat /\ row.hit \in Int /\ row.miss \in Int
        /\ row.request \in Int /\ row.hit <= row.input /\ row.miss <= row.input
    BY <1>0 DEF Consistent
  <1>2. q.prompt \in Int /\ q.n \in Int /\ maxOutputTokens(q) \in Int
    <2>1. q.prompt \in Int
      BY <1>0, Int64IsInt
    <2>2. QED
      BY <1>0, <2>1 DEF maxOutputTokens
  <1>3. /\ u.prompt \in Int /\ u.completion \in Int /\ u.hit \in Nat /\ u.miss \in Nat
        /\ u.prompt <= q.prompt /\ u.completion <= maxOutputTokens(q)
        /\ u.hit + u.miss <= u.prompt
    BY <1>0 DEF Within
  <1>4. TokenUnit \in Nat \ {0}
    BY PricingAssumption
  <1>5. CASE row.mode = "request"
    <2> DEFINE total == row.request * billingUnits(q)
    <2>1. billingUnits(q) \in Int
      BY <1>2 DEF billingUnits
    <2>2. total \in Int
      BY <1>1, <2>1
    <2>3. actualTotal(row, q, u) = total /\ estimatedTotal(row, q) = total
      BY <1>5, Zenon DEF actualTotal, estimatedTotal, ByRequest
    <2> HIDE DEF total
    <2>4. /\ actualBaseCost(row, q, u) = Wrap(total) \div 1
          /\ estimatedBaseCost(row, q) = Wrap(total) \div 1
      BY <1>5, <2>3, Zenon DEF actualBaseCost, estimatedBaseCost, ByRequest
    <2>5. Wrap(total) \in Int
      BY <2>2, WrapIs, Int64IsInt
    <2>6. QED
      BY <2>4, <2>5, DivIs
  <1>6. CASE row.mode # "request"
    <2> DEFINE t == PromptTokens(u)
               rest == u.prompt - u.hit - u.miss
               miss == IF row.miss <= 0 THEN row.input ELSE row.miss
               out == maxOutputTokens(q)
               actual == rest * row.input + u.hit * row.hit + u.miss * miss
                         + u.completion * row.output
               estimate == q.prompt * row.input + out * row.output
    <2>1. q.type # "image_generation"
      BY <1>6 DEF Consistent
    <2>3. t.regular = rest /\ t.hit = u.hit /\ t.miss = u.miss
      <3>1. rest \in Int64 /\ rest >= 0 /\ rest \in Int
        BY <1>0, <1>3, PricingAssumption DEF Int64
      <3> HIDE DEF rest
      <3>2. Wrap(rest) = rest
        BY <3>1, WrapIs
      <3>3. CASE u.hit > 0 \/ u.miss > 0
        <4>1. t = [regular |-> IF Wrap(rest) < 0 THEN 0 ELSE Wrap(rest),
                   hit |-> u.hit, miss |-> u.miss]
          BY <3>3, Zenon DEF PromptTokens, rest
        <4>2. QED
          BY <3>1, <3>2, <4>1
      <3>4. CASE ~(u.hit > 0 \/ u.miss > 0)
        <4>1. t = [regular |-> u.prompt, hit |-> 0, miss |-> 0]
          BY <3>4, Zenon DEF PromptTokens
        <4>2. u.hit = 0 /\ u.miss = 0
          BY <1>3, <3>4
        <4>3. QED
          BY <1>3, <4>1, <4>2 DEF rest
      <3>5. QED
        BY <3>3, <3>4
    <2>2. actualTotal(row, q, u) = actual /\ estimatedTotal(row, q) = estimate
      BY <1>6, <2>1, <2>3, Zenon DEF actualTotal, estimatedTotal, ByRequest
    <2>4. miss \in Int /\ miss <= row.input
      BY <1>1
    <2>5. actual \in Int /\ estimate \in Int /\ actual <= estimate
      <3> HIDE DEF miss, rest, out
      <3>1. out \in Int
        BY <1>2 DEF out
      <3>2. /\ u.hit * row.hit \in Int /\ u.hit * row.input \in Int
            /\ u.hit * row.hit <= u.hit * row.input
        BY <1>1, <1>3, Times
      <3>3. /\ u.miss * miss \in Int /\ u.miss * row.input \in Int
            /\ u.miss * miss <= u.miss * row.input
        BY <1>1, <1>3, <2>4, Times
      <3>4. /\ u.prompt * row.input \in Int /\ q.prompt * row.input \in Int
            /\ u.prompt * row.input <= q.prompt * row.input
        BY <1>1, <1>2, <1>3, Times
      <3>5. /\ u.completion * row.output \in Int /\ out * row.output \in Int
            /\ u.completion * row.output <= out * row.output
        BY <1>1, <1>2, <1>3, <3>1, Times DEF out
      <3>6. rest * row.input =
              u.prompt * row.input - u.hit * row.input - u.miss * row.input
        BY <1>1, <1>3 DEF rest
      <3> DEFINE hits == u.hit * row.hit
                 misses == u.miss * miss
                 hitsHeld == u.hit * row.input
                 missesHeld == u.miss * row.input
                 prompt == u.prompt * row.input
                 promptHeld == q.prompt * row.input
                 answer == u.completion * row.output
                 answerHeld == out * row.output
                 others == rest * row.input
      <3>7. actual = others + hits + misses + answer /\ estimate = promptHeld + answerHeld
        OBVIOUS
      <3>8. /\ hits \in Int /\ hitsHeld \in Int /\ hits <= hitsHeld
            /\ misses \in Int /\ missesHeld \in Int /\ misses <= missesHeld
            /\ prompt \in Int /\ promptHeld \in Int /\ prompt <= promptHeld
            /\ answer \in Int /\ answerHeld \in Int /\ answer <= answerHeld
            /\ others = prompt - hitsHeld - missesHeld
        BY <3>2, <3>3, <3>4, <3>5, <3>6
      <3> HIDE DEF hits, misses, hitsHeld, missesHeld, prompt, promptHeld, answer,
                   answerHeld, others, actual, estimate
      <3>9. QED
        BY <3>7, <3>8
    <2> HIDE DEF actual, estimate
    <2>6. /\ actual \div TokenUnit \in Int /\ estimate \div TokenUnit \in Int
          /\ actual \div TokenUnit <= estimate \div TokenUnit
      BY <1>4, <2>5, DivIs, DivMonotone
    <2>7. Wrap(actual) = actual /\ Wrap(estimate) = estimate
      BY <2>2, <2>5, WrapIs DEF Fits
    <2>8. /\ actualBaseCost(row, q, u) = actual \div TokenUnit
          /\ estimatedBaseCost(row, q) = estimate \div TokenUnit
      BY <1>6, <2>1, <2>2, <2>7, Zenon DEF actualBaseCost, estimatedBaseCost, ByRequest
    <2>9. QED
      BY <2>6, <2>8
  <1>7. QED
    BY <1>5, <1>6

LEMMA CostCovers ==
  ASSUME NEW row \in ModelRows, NEW q \in Asks, NEW u \in Usages,
         Within(q, u), Consistent(q, row), Fits(row, q, u)
  PROVE  computeActualCost(row, q, u) <= estimatedCost(row, q)
  <1>1. row.mult \in [num : Int, den : Nat \ {0}] /\ row.mult.num > 0
    BY ConfigAssumption DEF Consistent
  <1>2. computeActualCost(row, q, u) =
          ApplyMultiplier(actualBaseCost(row, q, u), row.mult, FALSE)
    <2>1. ~(row.mult.num <= 0)
      BY <1>1
    <2>2. QED
      BY <2>1, Zenon DEF computeActualCost, settlementMultiplier
  <1>3. QED
    BY <1>1, <1>2, BaseCovers, MultiplierKeeps DEF estimatedCost, Fits

(* The pre-deduction covers the settlement whatever the prices, multiplier *)
(* and token unit, except for the reasons that EstimateCovers names: the   *)
(* estimate rounds up and the actual cost to the nearest, and the estimate *)
(* prices every prompt token as one that was not cached.                   *)
THEOREM EstimateAlwaysCovers == ConfigSpec => []EstimateCovers
  <1>1. PriceInv => EstimateCovers
    <2> SUFFICES ASSUME PriceInv, NEW r \in PricedRequests, NEW u \in Usages,
                        req[r].at = "priced", req[r].act = req[r].est,
                        Within(req[r].ask, u), Consistent(req[r].ask, req[r].est),
                        Fits(req[r].est, req[r].ask, u)
                 PROVE  computeActualCost(req[r].act, req[r].ask, u)
                          <= estimatedCost(req[r].est, req[r].ask)
      BY DEF EstimateCovers
    <2>1. req[r].est \in ModelRows /\ req[r].ask \in Asks
      BY DEF PriceInv, Reasoned, Estimated
    <2>2. QED
      BY <2>1, CostCovers
  <1>2. QED
    BY <1>1, PriceInit, PriceNext, PTL DEF ConfigSpec

(* The tables, the copies in memory, the loops and the requests keep their *)
(* types, and no more refreshes wait than there were writes.               *)
THEOREM ConfigTypeCorrect == ConfigSpec => []ConfigTypeOK
  <1>1. PriceInv => ConfigTypeOK
    BY DEF PriceInv
  <1>2. QED
    BY <1>1, PriceInit, PriceNext, PTL DEF ConfigSpec

(* What ApplyMultiplier gives of an amount and a multiplier that is not    *)
(* negative: nothing, a rounded amount below HalfRange, or the least int64. *)
LEMMA MultiplierIs ==
  ASSUME NEW a \in Int, NEW n \in Nat, NEW d \in Nat \ {0}, NEW roundUp \in BOOLEAN,
         NEW rounded, rounded = IF roundUp THEN Ceil(a * n, d) ELSE Round(a * n, d)
  PROVE  /\ a > 0 => rounded \in Nat
         /\ ApplyMultiplier(a, [num |-> n, den |-> d], roundUp) =
              IF a <= 0 THEN 0 ELSE IF rounded < HalfRange THEN rounded ELSE -HalfRange
  <1> DEFINE x == a * n
  <1>1. CASE a > 0
    <2>1. x \in Int /\ x >= 0
      BY <1>1
    <2>0. ApplyMultiplier(a, [num |-> n, den |-> d], roundUp) = ToInt64(rounded)
      BY <1>1 DEF ApplyMultiplier
    <2>a. rounded = IF roundUp THEN Ceil(x, d) ELSE Round(x, d)
      OBVIOUS
    <2> HIDE DEF x
    <2>2. Ceil(x, d) \in Nat
      <3>1. x + d - 1 \in Int /\ d * 0 <= x + d - 1
        BY <2>1
      <3>2. QED
        BY <3>1, DivIs, DivBelow DEF Ceil
    <2>3. Round(x, d) \in Nat
      <3>1. 2 * x + d \in Int /\ 2 * d \in Nat \ {0} /\ (2 * d) * 0 <= 2 * x + d
        BY <2>1
      <3>2. QED
        BY <3>1, DivIs, DivBelow DEF Round
    <2>4. rounded \in Nat
      BY <2>a, <2>2, <2>3
    <2>5. ToInt64(rounded) = IF rounded < HalfRange THEN rounded ELSE -HalfRange
      BY <2>4, PricingAssumption DEF ToInt64, Int64
    <2>6. QED
      BY <1>1, <2>0, <2>4, <2>5
  <1>2. CASE ~(a > 0)
    BY <1>2 DEF ApplyMultiplier
  <1>3. QED
    BY <1>1, <1>2

(* Whatever the upstream reports, negative counts included, and whatever   *)
(* prices and multiplier are stored, computeActualCost charges less than   *)
(* nothing, which makes a settlement a credit, exactly if the amount with  *)
(* its multiplier does not fit in an int64: products that wrap around      *)
(* before that end in a wrong charge, never in a negative one.             *)
THEOREM NegativeChargeIsOverflow ==
  ASSUME NEW row \in ModelRows \cup {NoPrices}, NEW q \in Asks, NEW u \in Usages
  PROVE  LET base == actualBaseCost(row, q, u)
             mult == settlementMultiplier(row)
         IN  /\ computeActualCost(row, q, u) \in Int64
             /\ computeActualCost(row, q, u) < 0 <=>
                  base > 0 /\ Round(base * mult.num, mult.den) >= HalfRange
  <1> DEFINE base == actualBaseCost(row, q, u)
             n == settlementMultiplier(row).num
             d == settlementMultiplier(row).den
             cost == computeActualCost(row, q, u)
             amount == Round(base * n, d)
  <1>1. /\ row.input \in Int /\ row.output \in Int /\ row.hit \in Int /\ row.miss \in Int
        /\ row.request \in Int
    BY ConfigAssumption, Int64IsInt DEF NoPrices
  <1>2. row.mult \in [num : Int, den : Nat \ {0}]
    BY ConfigAssumption DEF NoPrices
  <1>3. /\ q.n \in Int /\ u.prompt \in Int /\ u.completion \in Int /\ u.hit \in Int
        /\ u.miss \in Int
    BY ConfigAssumption, Int64IsInt
  <1>4. base \in Int
    <2> DEFINE t == PromptTokens(u)
               miss == IF row.miss <= 0 THEN row.input ELSE row.miss
               total == t.regular * row.input + t.hit * row.hit + t.miss * miss
                          + u.completion * row.output
               unit == IF ByRequest(row, q) THEN 1 ELSE TokenUnit
    <2>0. t.regular \in Int /\ t.hit \in Int /\ t.miss \in Int
      <3>1. Wrap(u.prompt - u.hit - u.miss) \in Int
        <4>1. u.prompt - u.hit - u.miss \in Int
          BY <1>3
        <4>2. QED
          BY <4>1, WrapIs, Int64IsInt
      <3>2. QED
        BY <1>3, <3>1 DEF PromptTokens
    <2>1. billingUnits(q) \in Int /\ miss \in Int
      BY <1>1, <1>3 DEF billingUnits
    <2> HIDE DEF t, miss
    <2>2. row.request * billingUnits(q) \in Int /\ total \in Int
      BY <1>1, <1>3, <2>0, <2>1
    <2>3. actualTotal(row, q, u) \in {row.request * billingUnits(q), total}
      BY Zenon DEF actualTotal, t, miss
    <2> HIDE DEF total
    <2>4. Wrap(actualTotal(row, q, u)) \in Int
      BY <2>2, <2>3, WrapIs, Int64IsInt
    <2>5. unit \in Nat \ {0}
      BY PricingAssumption
    <2>6. base = Wrap(actualTotal(row, q, u)) \div unit
      BY DEF actualBaseCost
    <2> HIDE DEF base, unit
    <2>7. QED
      BY <2>4, <2>5, <2>6, DivIs
  <1>5. n \in Nat /\ d \in Nat \ {0}
    BY <1>2 DEF settlementMultiplier
  <1>6. settlementMultiplier(row) = [num |-> n, den |-> d]
    BY <1>2 DEF settlementMultiplier
  <1>7. cost = ApplyMultiplier(base, settlementMultiplier(row), FALSE)
    BY Zenon DEF computeActualCost, settlementMultiplier
  <1>8. cost = ApplyMultiplier(base, [num |-> n, den |-> d], FALSE)
    BY <1>6, <1>7, Zenon
  <1> HIDE DEF base, n, d, cost
  <1>9. /\ base > 0 => amount \in Nat
        /\ cost = IF base <= 0 THEN 0 ELSE IF amount < HalfRange THEN amount ELSE -HalfRange
    BY <1>4, <1>5, <1>8, MultiplierIs
  <1> HIDE DEF amount
  <1>10. /\ cost \in Int64
         /\ cost < 0 <=> base > 0 /\ amount >= HalfRange
    <2>1. CASE base > 0
      <3>1. amount \in Nat
        BY <1>9, <2>1
      <3>2. cost = IF amount < HalfRange THEN amount ELSE -HalfRange
        BY <1>4, <1>9, <2>1
      <3>3. QED
        BY <2>1, <3>1, <3>2, PricingAssumption DEF Int64
    <2>2. CASE ~(base > 0)
      <3>1. cost = 0
        BY <1>4, <1>9, <2>2
      <3>2. QED
        BY <2>2, <3>1, PricingAssumption DEF Int64
    <2>3. QED
      BY <2>1, <2>2
  <1>11. QED
    BY <1>10 DEF cost, base, amount, n, d

(* With a multiplier that is not negative AuthAndPreDeductMiddleware holds *)
(* at least one unit of money, as Gateway and BalanceCache assume of every *)
(* cost, unless the multiplier carries the estimate out of an int64, and   *)
(* then it never does: only a cost of zero is raised to one.               *)
THEOREM HoldBelowOneIsOverflow ==
  ASSUME NEW row \in ModelRows, NEW q \in Asks, row.mult.num >= 0
  PROVE  LET base == estimatedBaseCost(row, q)
         IN  /\ estimatedCost(row, q) \in Int64 \cup {1}
             /\ estimatedCost(row, q) < 1 <=>
                  base > 0 /\ Ceil(base * row.mult.num, row.mult.den) >= HalfRange
  <1> DEFINE base == estimatedBaseCost(row, q)
             n == row.mult.num
             d == row.mult.den
             cost == ApplyMultiplier(base, row.mult, TRUE)
             amount == Ceil(base * n, d)
  <1>1. /\ row.input \in Int /\ row.output \in Int /\ row.request \in Int
        /\ row.mult \in [num : Int, den : Nat \ {0}]
    BY ConfigAssumption, Int64IsInt
  <1>2. q.n \in Int /\ q.prompt \in Int /\ q.max \in Int /\ q.defaultMax \in Int
    BY ConfigAssumption, Int64IsInt
  <1>3. base \in Int
    <2> DEFINE unit == IF row.mode = "request" THEN 1 ELSE TokenUnit
    <2>1. billingUnits(q) \in Int /\ maxOutputTokens(q) \in Int
      BY <1>2 DEF billingUnits, maxOutputTokens
    <2>2. estimatedTotal(row, q) \in Int
      BY <1>1, <1>2, <2>1 DEF estimatedTotal
    <2>3. Wrap(estimatedTotal(row, q)) \in Int
      BY <2>2, WrapIs, Int64IsInt
    <2>4. unit \in Nat \ {0}
      BY PricingAssumption
    <2>5. base = Wrap(estimatedTotal(row, q)) \div unit
      BY DEF estimatedBaseCost
    <2> HIDE DEF base, unit
    <2>6. QED
      BY <2>3, <2>4, <2>5, DivIs
  <1>4. n \in Nat /\ d \in Nat \ {0} /\ row.mult = [num |-> n, den |-> d]
    BY <1>1
  <1>5. cost = ApplyMultiplier(base, [num |-> n, den |-> d], TRUE)
    BY <1>4, Zenon
  <1>6. estimatedCost(row, q) = IF cost = 0 THEN 1 ELSE cost
    BY DEF estimatedCost
  <1> HIDE DEF base, n, d, cost
  <1>7. /\ base > 0 => amount \in Nat
        /\ cost = IF base <= 0 THEN 0 ELSE IF amount < HalfRange THEN amount ELSE -HalfRange
    BY <1>3, <1>4, <1>5, MultiplierIs
  <1> HIDE DEF amount
  <1>8. /\ estimatedCost(row, q) \in Int64 \cup {1}
        /\ estimatedCost(row, q) < 1 <=> base > 0 /\ amount >= HalfRange
    BY <1>3, <1>6, <1>7, PricingAssumption DEF Int64
  <1>9. QED
    BY <1>8 DEF base, amount, n, d
=============================================================================
