-------------------------- MODULE AsyncTaskProofs --------------------------
(***************************************************************************)
(* Proofs about AsyncTask, for any hold, any number of polls and cancels   *)
(* and any number of failures.                                             *)
(***************************************************************************)
EXTENDS AsyncTask, TLAPS

(* What the statements on async_tasks do to the fields of a row. *)
LEMMA MarkedStatusIs ==
  ASSUME NEW r \in Rows, NEW s \in Statuses, NEW c \in {0, Total(Hold)}
  PROVE  /\ MarkedStatus(r, s, c) \in Rows
         /\ MarkedStatus(r, s, c).status = s
         /\ MarkedStatus(r, s, c).cost = c
         /\ MarkedStatus(r, s, c).sub = r.sub
  BY DEF Rows, MarkedStatus

LEMMA MarkedSubmittedIs ==
  ASSUME NEW r \in Rows, NEW t \in Rows
  PROVE  /\ MarkedSubmitted(r, t) \in Rows
         /\ MarkedSubmitted(r, t).status = t.status
         /\ MarkedSubmitted(r, t).sub = r.sub
  BY DEF Rows, MarkedSubmitted

LEMMA SubDeductedIs ==
  ASSUME NEW r \in Rows
  PROVE  /\ SubDeducted(r) \in Rows
         /\ SubDeducted(r).status = r.status
         /\ SubDeducted(r).sub = Hold["sub"]
  BY DEF Rows, SubDeducted

LEMMA RowFields ==
  ASSUME NEW r \in Rows
  PROVE  /\ r.status \in Statuses \cup {"none"}
         /\ r.cost \in {0, Total(Hold)}
         /\ r.sub \in {0, Hold["sub"]}
  BY DEF Rows

LEMMA NewRows ==
  /\ NoRow \in Rows /\ NoRow.status = "none" /\ NoRow.cost = 0
  /\ NewTask \in Rows /\ NewTask.status = "queued" /\ NewTask.sub = 0
  BY DEF NoRow, NewTask, Rows, Statuses, UpStates

LEMMA NormalizeType == \A w : NormalizeTaskStatus(w) \in Statuses
  BY DEF NormalizeTaskStatus, Statuses, UpStates

(* Who is who. *)
LEMMA Who == /\ Creator \in Handlers /\ Creator \notin FollowUps
             /\ FollowUps \subseteq Handlers
             /\ \A h \in Handlers : h # Creator => h \in FollowUps
  BY AsyncAssumption DEF Handlers

PCs == {"idle", "insert", "saveSub", "channel", "submit", "markSubmitted",
        "markFailed", "lookup", "upstream", "markPolled", "markCanceled",
        "finalize", "refund", "script", "enqueue", "outbox", "markCost", "done",
        "crashed"}

(* Which handler can be where: only the creator creates, only a follow-up  *)
(* polls or cancels, and none of those starts before the creator has       *)
(* answered with the id.                                                   *)
FlowInv ==
  /\ pc \in [Handlers -> PCs]
  /\ pc[Creator] \notin {"idle", "lookup", "upstream", "markPolled", "markCanceled"}
  /\ \A h \in FollowUps :
       /\ pc[h] \notin {"insert", "saveSub", "channel", "submit", "markSubmitted",
                        "markFailed"}
       /\ pc[h] # "idle" => submitted /\ pc[Creator] = "done"
       /\ pc[h] \in {"markCanceled", "refund"} => h \in cancels

LEMMA FlowInit == Init => FlowInv
  <1> SUFFICES ASSUME Init PROVE FlowInv
    OBVIOUS
  <1>1. \A h \in Handlers : pc[h] = IF h = Creator THEN "insert" ELSE "idle"
    BY DEF Init
  <1>2. pc \in [Handlers -> PCs]
    BY DEF Init, PCs
  <1>3. QED
    BY <1>1, <1>2, Who DEF FlowInv

LEMMA FlowNext == FlowInv /\ [Next]_vars => FlowInv'
  <1> SUFFICES ASSUME FlowInv, [Next]_vars PROVE FlowInv'
    OBVIOUS
  <1> USE Who DEF FlowInv, PCs, histVars, Goto
  <1>1. ASSUME CreateAsyncTask PROVE FlowInv'
    BY <1>1 DEF CreateAsyncTask, Update
  <1>2. ASSUME SetAsyncTaskSubDeducted PROVE FlowInv'
    BY <1>2 DEF SetAsyncTaskSubDeducted
  <1>3. ASSUME PickChannel PROVE FlowInv'
    BY <1>3 DEF PickChannel
  <1>4. ASSUME SubmitTask PROVE FlowInv'
    BY <1>4 DEF SubmitTask
  <1>5. ASSUME MarkAsyncTaskSubmitted PROVE FlowInv'
    BY <1>5 DEF MarkAsyncTaskSubmitted
  <1>6. ASSUME failTaskAndRefund PROVE FlowInv'
    BY <1>6 DEF failTaskAndRefund, Update
  <1>7. ASSUME NEW h \in Handlers, GetChannelByID(h) PROVE FlowInv'
    BY <1>7 DEF GetChannelByID
  <1>8. ASSUME NEW h \in Handlers, PollUpstream(h) PROVE FlowInv'
    BY <1>8 DEF PollUpstream
  <1>9. ASSUME NEW h \in Handlers, CancelUpstream(h) PROVE FlowInv'
    BY <1>9 DEF CancelUpstream
  <1>10. ASSUME NEW h \in Handlers, MarkPolled(h) PROVE FlowInv'
    BY <1>10 DEF MarkPolled, Update
  <1>11. ASSUME NEW h \in Handlers, MarkCanceled(h) PROVE FlowInv'
    BY <1>11 DEF MarkCanceled, Update
  <1>12. ASSUME NEW h \in Handlers, subOf(h) PROVE FlowInv'
    BY <1>12 DEF subOf
  <1>13. ASSUME NEW h \in Handlers, RefundScript(h) PROVE FlowInv'
    BY <1>13 DEF RefundScript
  <1>14. ASSUME NEW h \in Handlers, EnqueueBillingLog(h) PROVE FlowInv'
    BY <1>14 DEF EnqueueBillingLog, AfterClosing
  <1>15. ASSUME NEW h \in Handlers, InsertSettlementOutbox(h) PROVE FlowInv'
    BY <1>15 DEF InsertSettlementOutbox, AfterClosing
  <1>16. ASSUME NEW h \in Handlers, MarkCost(h) PROVE FlowInv'
    BY <1>16 DEF MarkCost, Update
  <1>17. ASSUME NEW h \in FollowUps, GetAsyncTaskByIDAndUser(h) PROVE FlowInv'
    BY <1>17 DEF GetAsyncTaskByIDAndUser, Told
  <1>18. ASSUME UpstreamWorks PROVE FlowInv'
    BY <1>18 DEF UpstreamWorks
  <1>19. ASSUME NEW h \in Handlers, HangUp(h) PROVE FlowInv'
    BY <1>19 DEF HangUp
  <1>20. ASSUME Crash PROVE FlowInv'
    BY <1>20 DEF Crash, Busy
  <1>21. ASSUME UNCHANGED vars PROVE FlowInv'
    BY <1>21 DEF vars
  <1>22. QED
    BY <1>1, <1>2, <1>3, <1>4, <1>5, <1>6, <1>7, <1>8, <1>9, <1>10, <1>11, <1>12,
       <1>13, <1>14, <1>15, <1>16, <1>17, <1>18, <1>19, <1>20, <1>21
       DEF Next, CreatorStep, HandlerStep

-----------------------------------------------------------------------------
(* Types.  TypeOK is inductive together with what a handler knows of the   *)
(* status it holds.                                                        *)
Knows(h) ==
  /\ pc[h] \in {"markPolled", "markSubmitted"} => task[h].status \in Statuses
  /\ pc[h] = "finalize" => isTerminalTaskStatus(task[h].status)
  /\ pc[h] = "markCost" => Settling(h)

TypeInv == TypeOK /\ \A h \in Handlers : Knows(h)

(* What a refund gives back is within the caps. *)
LEMMA GivenWithin ==
  ASSUME NEW d \in Deductions, NEW n \in Nat
  PROVE  /\ RefundGive(d, n) \in Deductions
         /\ \A p \in PoolNames : RefundGive(d, n)[p] <= d[p]
         /\ n = Total(d) => RefundGive(d, n) = d
  <1> DEFINE c == Take(d["cash"], n)
             g == Take(d["grant"], n - c)
             s == Take(d["sub"], n - c - g)
  <1>1. d["sub"] \in Nat /\ d["grant"] \in Nat /\ d["cash"] \in Nat
    BY DEF Deductions, PoolNames
  <1>2. c \in Nat /\ c <= n /\ c <= d["cash"]
    BY <1>1 DEF Take
  <1>3. g \in Nat /\ g <= n - c /\ g <= d["grant"]
    <2> HIDE DEF c
    <2> QED BY <1>1, <1>2 DEF Take
  <1>4. s \in Nat /\ s <= d["sub"]
    <2> HIDE DEF c, g
    <2> QED BY <1>1, <1>2, <1>3 DEF Take
  <1>5. n = Total(d) => c = d["cash"] /\ g = d["grant"] /\ s = d["sub"]
    <2> SUFFICES ASSUME n = Total(d) PROVE c = d["cash"] /\ g = d["grant"] /\ s = d["sub"]
      OBVIOUS
    <2>1. n = d["sub"] + d["grant"] + d["cash"]
      BY DEF Total
    <2>2. c = d["cash"]
      BY <1>1, <2>1 DEF Take
    <2>3. g = d["grant"]
      <3> HIDE DEF c
      <3> QED BY <1>1, <2>1, <2>2 DEF Take
    <2>4. s = d["sub"]
      <3> HIDE DEF c, g
      <3> QED BY <1>1, <2>1, <2>2, <2>3 DEF Take
    <2>5. QED
      BY <2>2, <2>3, <2>4
  <1>6. RefundGive(d, n) = [p \in PoolNames |->
          IF p = "sub" THEN s ELSE IF p = "grant" THEN g ELSE c]
    BY DEF RefundGive, GiveInOrder
  <1> HIDE DEF c, g, s
  <1>7. n = Total(d) => RefundGive(d, n) = d
    BY <1>1, <1>5, <1>6 DEF Deductions, PoolNames
  <1>8. QED
    BY <1>1, <1>2, <1>3, <1>4, <1>6, <1>7 DEF Deductions, PoolNames

LEMMA GivenIs ==
  ASSUME TypeOK, NEW h \in Handlers
  PROVE  /\ Given(h) \in Deductions
         /\ \A p \in PoolNames : Given(h)[p] <= Hold[p]
         /\ sub[h] = Hold["sub"] => Given(h) = Hold
         /\ Credited(h) \in [PoolNames -> Nat]
  <1> DEFINE d == [Hold EXCEPT !["sub"] = sub[h]]
  <1>1. Hold \in Deductions /\ Hold["sub"] \in Nat /\ Total(Hold) \in Nat
    BY AsyncAssumption DEF Deductions, PoolNames, Total
  <1>2. sub[h] \in {0, Hold["sub"]}
    BY DEF TypeOK
  <1>3. d \in Deductions /\ (\A p \in PoolNames : d[p] \in Nat /\ d[p] <= Hold[p])
    BY <1>1, <1>2 DEF Deductions, PoolNames
  <1>4. sub[h] = Hold["sub"] => d = Hold
    BY <1>1 DEF Deductions
  <1> HIDE DEF d
  <1>5. Given(h) = RefundGive(d, Total(Hold))
    BY DEF Given, d
  <1>6. Given(h) \in Deductions /\ \A p \in PoolNames : Given(h)[p] <= d[p]
    BY <1>1, <1>3, <1>5, GivenWithin
  <1>7. sub[h] = Hold["sub"] => Given(h) = Hold
    BY <1>1, <1>4, <1>5, GivenWithin
  <1>8. \A p \in PoolNames : Given(h)[p] \in Nat /\ Hold[p] \in Nat
    BY <1>1, <1>6 DEF Deductions
  <1>9. \A p \in PoolNames : Given(h)[p] <= Hold[p]
    <2> SUFFICES ASSUME NEW p \in PoolNames PROVE Given(h)[p] <= Hold[p]
      OBVIOUS
    <2>1. Given(h)[p] <= d[p] /\ d[p] <= Hold[p]
      BY <1>3, <1>6
    <2>2. Given(h)[p] \in Nat /\ d[p] \in Nat /\ Hold[p] \in Nat
      BY <1>3, <1>8
    <2>3. QED
      BY <2>1, <2>2
  <1>10. Credited(h) \in [PoolNames -> Nat]
    BY <1>8 DEF Credited, TypeOK
  <1>11. QED
    BY <1>6, <1>7, <1>9, <1>10

LEMMA TypeInit == Init => TypeInv
  <1> SUFFICES ASSUME Init PROVE TypeInv
    OBVIOUS
  <1>1. pc \in [Handlers -> PCs] /\ \A h \in Handlers : pc[h] \in {"insert", "idle"}
    BY FlowInit DEF FlowInv, Init
  <1>2. TypeOK
    <2>1. row \in Rows /\ task \in [Handlers -> Rows] /\ sub \in [Handlers -> {0, Hold["sub"]}]
      BY NewRows DEF Init
    <2>2. purse \in [PoolNames -> Nat] /\ faults \in 0 .. MaxFaults
      BY AsyncAssumption DEF Init, NoDeduction
    <2>3. QED
      BY <1>1, <2>1, <2>2 DEF Init, TypeOK, PCs
  <1>3. QED
    BY <1>1, <1>2 DEF TypeInv, Knows

LEMMA TypeNext == TypeInv /\ FlowInv /\ [Next]_vars => TypeInv'
  <1> SUFFICES ASSUME TypeInv, FlowInv, [Next]_vars PROVE TypeInv'
    OBVIOUS
  <1>0. pc' \in [Handlers -> PCs] /\ pc \in [Handlers -> PCs]
    BY FlowNext DEF FlowInv
  <1>1. /\ row \in Rows /\ task \in [Handlers -> Rows]
        /\ sub \in [Handlers -> {0, Hold["sub"]}]
        /\ \A h \in Handlers : task[h] \in Rows
    BY DEF TypeInv, TypeOK
  <1>2. \A h \in Handlers : Ok(h) \/ Err(h) => faults' \in 0 .. MaxFaults
    BY AsyncAssumption DEF Ok, Err, TypeInv, TypeOK
  <1>3. \A h \in Handlers : Knows(h)
    BY DEF TypeInv
  <1> USE Who DEF rowVars, closeVars, histVars, Goto, Took
  <1>4. ASSUME CreateAsyncTask PROVE TypeInv'
    <2>1. TypeOK'
      BY <1>0, <1>1, <1>2, <1>4, NewRows
         DEF TypeInv, TypeOK, PCs, CreateAsyncTask, Update
    <2>2. \A g \in Handlers : Knows(g)'
      BY <1>0, <1>1, <1>3, <1>4, NewRows DEF Knows, Settling, CreateAsyncTask, Update
    <2>3. QED
      BY <2>1, <2>2 DEF TypeInv
  <1>5. ASSUME SetAsyncTaskSubDeducted PROVE TypeInv'
    <2>0. SubDeducted(row) \in Rows
      BY <1>1, SubDeductedIs
    <2>1. TypeOK'
      BY <1>0, <1>1, <1>2, <1>5, <2>0 DEF TypeInv, TypeOK, PCs, SetAsyncTaskSubDeducted
    <2>2. \A g \in Handlers : Knows(g)'
      BY <1>0, <1>3, <1>5 DEF Knows, Settling, SetAsyncTaskSubDeducted
    <2>3. QED
      BY <2>1, <2>2 DEF TypeInv
  <1>6. ASSUME PickChannel PROVE TypeInv'
    <2>1. TypeOK'
      BY <1>0, <1>1, <1>2, <1>6 DEF TypeInv, TypeOK, PCs, PickChannel
    <2>2. \A g \in Handlers : Knows(g)'
      BY <1>0, <1>1, <1>3, <1>6 DEF Knows, Settling, PickChannel
    <2>3. QED
      BY <2>1, <2>2 DEF TypeInv
  <1>7. ASSUME SubmitTask PROVE TypeInv'
    <2>0. ASSUME NEW word, NEW known \in BOOLEAN
          PROVE  LET t == [task[Creator] EXCEPT !.status = NormalizeTaskStatus(word),
                                                !.known = known]
                 IN  t \in Rows /\ t.status \in Statuses
      <3>1. NormalizeTaskStatus(word) \in Statuses
        BY NormalizeType
      <3>2. QED
        BY <1>1, <3>1 DEF Rows
    <2>5. pc' \in [Handlers -> PCs] /\ faults' \in 0 .. MaxFaults /\ up' \in UpStates \cup {"none"}
      BY <1>0, <1>2, <1>7 DEF SubmitTask, TypeInv, TypeOK, UpStates
    <2>6. \/ task' = task /\ pc'[Creator] = "markFailed"
          \/ \E t \in Rows : t.status \in Statuses /\ task' = [task EXCEPT ![Creator] = t]
                               /\ pc'[Creator] = "markSubmitted"
      BY <1>0, <1>7, <2>0 DEF SubmitTask
    <2>7. \A g \in FollowUps : pc'[g] = pc[g]
      BY <1>0, <1>7 DEF SubmitTask
    <2>8. task' \in [Handlers -> Rows]
      BY <1>1, <2>6
    <2>1. TypeOK'
      BY <1>7, <2>5, <2>8 DEF TypeInv, TypeOK, PCs, SubmitTask
    <2>2. \A g \in Handlers : Knows(g)'
      BY <1>1, <1>3, <2>6, <2>7 DEF Knows, Settling
    <2>3. QED
      BY <2>1, <2>2 DEF TypeInv
  <1>8. ASSUME MarkAsyncTaskSubmitted PROVE TypeInv'
    <2>0. MarkedSubmitted(row, task[Creator]) \in Rows
      BY <1>1, MarkedSubmittedIs
    <2>5. row' \in Rows /\ task' \in [Handlers -> Rows] /\ faults' \in 0 .. MaxFaults
      BY <1>1, <1>2, <1>8, <2>0 DEF MarkAsyncTaskSubmitted
    <2>6. submitted' \in BOOLEAN
      BY <1>8 DEF MarkAsyncTaskSubmitted, TypeInv, TypeOK
    <2>1. TypeOK'
      BY <1>0, <1>8, <2>5, <2>6 DEF TypeInv, TypeOK, PCs, MarkAsyncTaskSubmitted
    <2>2. \A g \in Handlers : Knows(g)'
      BY <1>0, <1>1, <1>3, <1>8, <2>0 DEF Knows, Settling, MarkAsyncTaskSubmitted
    <2>3. QED
      BY <2>1, <2>2 DEF TypeInv
  <1>9. ASSUME failTaskAndRefund PROVE TypeInv'
    <2>0. MarkedStatus(row, "failed", 0) \in Rows
      BY <1>1, MarkedStatusIs DEF Statuses, UpStates
    <2>1. TypeOK'
      BY <1>0, <1>1, <1>2, <1>9, <2>0
         DEF TypeInv, TypeOK, PCs, failTaskAndRefund, Update
    <2>2. \A g \in Handlers : Knows(g)'
      BY <1>0, <1>1, <1>3, <1>9, <2>0 DEF Knows, Settling, failTaskAndRefund, Update
    <2>3. QED
      BY <2>1, <2>2 DEF TypeInv
  <1>10. ASSUME NEW h \in Handlers, GetChannelByID(h) PROVE TypeInv'
    <2>1. TypeOK'
      BY <1>0, <1>1, <1>2, <1>10 DEF TypeInv, TypeOK, PCs, GetChannelByID
    <2>2. \A g \in Handlers : Knows(g)'
      BY <1>0, <1>1, <1>3, <1>10 DEF Knows, Settling, GetChannelByID
    <2>3. QED
      BY <2>1, <2>2 DEF TypeInv
  <1>11. ASSUME NEW h \in Handlers, PollUpstream(h) PROVE TypeInv'
    <2>0. ASSUME NEW word
          PROVE  LET t == [task[h] EXCEPT !.status = NormalizeTaskStatus(word)]
                 IN  t \in Rows /\ t.status \in Statuses
      <3>1. NormalizeTaskStatus(word) \in Statuses
        BY NormalizeType
      <3>2. QED
        BY <1>1, <3>1 DEF Rows
    <2>5. /\ pc' \in [Handlers -> PCs] /\ faults' \in 0 .. MaxFaults
          /\ \A g \in Handlers \ {h} : pc'[g] = pc[g]
      BY <1>0, <1>2, <1>11 DEF PollUpstream
    <2>6. \/ task' = task /\ pc'[h] = "done"
          \/ \E t \in Rows : t.status \in Statuses /\ task' = [task EXCEPT ![h] = t]
                               /\ pc'[h] = "markPolled"
      BY <1>0, <1>11, <2>0 DEF PollUpstream
    <2>1. TypeOK'
      BY <1>1, <1>11, <2>5, <2>6 DEF TypeInv, TypeOK, PCs, PollUpstream
    <2>2. \A g \in Handlers : Knows(g)'
      BY <1>1, <1>3, <2>5, <2>6 DEF Knows, Settling
    <2>3. QED
      BY <2>1, <2>2 DEF TypeInv
  <1>12. ASSUME NEW h \in Handlers, CancelUpstream(h) PROVE TypeInv'
    <2>1. TypeOK'
      BY <1>0, <1>1, <1>2, <1>12 DEF TypeInv, TypeOK, PCs, CancelUpstream, UpStates
    <2>2. \A g \in Handlers : Knows(g)'
      BY <1>0, <1>1, <1>3, <1>12 DEF Knows, Settling, CancelUpstream, UpStates
    <2>3. QED
      BY <2>1, <2>2 DEF TypeInv
  <1>13. ASSUME NEW h \in Handlers, MarkPolled(h) PROVE TypeInv'
    <2>0. LET new == MarkedStatus(row, task[h].status, task[h].cost)
          IN  new \in Rows /\ new.status = task[h].status
      <3>1. task[h].status \in Statuses /\ task[h].cost \in {0, Total(Hold)}
        BY <1>1, <1>3, <1>13, RowFields DEF MarkPolled, Knows
      <3>2. QED
        BY <1>1, <3>1, MarkedStatusIs
    <2>1. TypeOK'
      BY <1>0, <1>1, <1>2, <1>13, <2>0 DEF TypeInv, TypeOK, PCs, MarkPolled, Update
    <2>2. \A g \in Handlers : Knows(g)'
      BY <1>0, <1>1, <1>3, <1>13, <2>0 DEF Knows, Settling, MarkPolled, Update
    <2>3. QED
      BY <2>1, <2>2 DEF TypeInv
  <1>14. ASSUME NEW h \in Handlers, MarkCanceled(h) PROVE TypeInv'
    <2>0. MarkedStatus(row, "canceled", task[h].cost) \in Rows
      <3>1. task[h].cost \in {0, Total(Hold)} /\ "canceled" \in Statuses
        BY <1>1, RowFields DEF Statuses, UpStates
      <3>2. QED
        BY <1>1, <3>1, MarkedStatusIs
    <2>1. TypeOK'
      BY <1>0, <1>1, <1>2, <1>14, <2>0 DEF TypeInv, TypeOK, PCs, MarkCanceled, Update
    <2>2. \A g \in Handlers : Knows(g)'
      BY <1>0, <1>1, <1>3, <1>14, <2>0 DEF Knows, Settling, MarkCanceled, Update
    <2>3. QED
      BY <2>1, <2>2 DEF TypeInv
  <1>15. ASSUME NEW h \in Handlers, subOf(h) PROVE TypeInv'
    <2>0. row.sub \in {0, Hold["sub"]}
      BY <1>1, RowFields
    <2>4. sub' \in [Handlers -> {0, Hold["sub"]}]
      BY <1>1, <1>15, <2>0 DEF subOf
    <2>5. settles' \in Nat /\ refunds' \in Nat
      BY <1>15 DEF subOf, TypeInv, TypeOK
    <2>6. faults' \in 0 .. MaxFaults
      BY <1>2, <1>15 DEF subOf, TypeInv, TypeOK
    <2>7. \A g \in Handlers : pc'[g] = pc[g] \/ pc'[g] \in {"done", "enqueue", "script"}
      BY <1>0, <1>15 DEF subOf
    <2>1. TypeOK'
      BY <1>0, <1>15, <2>4, <2>5, <2>6 DEF TypeInv, TypeOK, PCs, subOf
    <2>2. \A g \in Handlers : Knows(g)'
      BY <1>3, <1>15, <2>7 DEF Knows, Settling, subOf
    <2>3. QED
      BY <2>1, <2>2 DEF TypeInv
  <1>16. ASSUME NEW h \in Handlers, RefundScript(h) PROVE TypeInv'
    <2>1. TypeOK'
      BY <1>0, <1>1, <1>2, <1>16, GivenIs DEF TypeInv, TypeOK, PCs, RefundScript
    <2>2. \A g \in Handlers : Knows(g)'
      BY <1>0, <1>1, <1>3, <1>16, GivenIs DEF Knows, Settling, RefundScript
    <2>3. QED
      BY <2>1, <2>2 DEF TypeInv
  <1>17. ASSUME NEW h \in Handlers, EnqueueBillingLog(h) PROVE TypeInv'
    <2>1. TypeOK'
      BY <1>0, <1>1, <1>2, <1>17
         DEF TypeInv, TypeOK, PCs, EnqueueBillingLog, Kind, AfterClosing
    <2>2. \A g \in Handlers : Knows(g)'
      BY <1>0, <1>1, <1>3, <1>17
         DEF Knows, Settling, EnqueueBillingLog, Kind, AfterClosing
    <2>3. QED
      BY <2>1, <2>2 DEF TypeInv
  <1>18. ASSUME NEW h \in Handlers, InsertSettlementOutbox(h) PROVE TypeInv'
    <2>1. TypeOK'
      BY <1>0, <1>1, <1>2, <1>18
         DEF TypeInv, TypeOK, PCs, InsertSettlementOutbox, Kind, AfterClosing
    <2>2. \A g \in Handlers : Knows(g)'
      BY <1>0, <1>1, <1>3, <1>18
         DEF Knows, Settling, InsertSettlementOutbox, Kind, AfterClosing
    <2>3. QED
      BY <2>1, <2>2 DEF TypeInv
  <1>19. ASSUME NEW h \in Handlers, MarkCost(h) PROVE TypeInv'
    <2>0. MarkedStatus(row, task[h].status, Total(Hold)) \in Rows
      <3>1. task[h].status \in Statuses
        BY <1>3, <1>19 DEF MarkCost, Knows, Settling, Statuses, UpStates
      <3>2. QED
        BY <1>1, <3>1, MarkedStatusIs
    <2>1. TypeOK'
      BY <1>0, <1>1, <1>2, <1>19, <2>0 DEF TypeInv, TypeOK, PCs, MarkCost, Update
    <2>2. \A g \in Handlers : Knows(g)'
      BY <1>0, <1>1, <1>3, <1>19, <2>0 DEF Knows, Settling, MarkCost, Update
    <2>3. QED
      BY <2>1, <2>2 DEF TypeInv
  <1>20. ASSUME NEW h \in FollowUps, GetAsyncTaskByIDAndUser(h) PROVE TypeInv'
    <2>1. TypeOK'
      BY <1>0, <1>1, <1>2, <1>20
         DEF TypeInv, TypeOK, PCs, GetAsyncTaskByIDAndUser,
             getAsyncTaskByIDAndUser
    <2>2. \A g \in Handlers : Knows(g)'
      BY <1>0, <1>1, <1>3, <1>20
         DEF Knows, Settling, GetAsyncTaskByIDAndUser, getAsyncTaskByIDAndUser
    <2>3. QED
      BY <2>1, <2>2 DEF TypeInv
  <1>21. ASSUME UpstreamWorks PROVE TypeInv'
    <2>1. TypeOK'
      BY <1>0, <1>1, <1>2, <1>21 DEF TypeInv, TypeOK, PCs, UpstreamWorks, UpStates
    <2>2. \A g \in Handlers : Knows(g)'
      BY <1>0, <1>1, <1>3, <1>21 DEF Knows, Settling, UpstreamWorks, UpStates
    <2>3. QED
      BY <2>1, <2>2 DEF TypeInv
  <1>22. ASSUME NEW h \in Handlers, HangUp(h) PROVE TypeInv'
    <2>1. TypeOK'
      BY <1>0, <1>1, <1>2, <1>22 DEF TypeInv, TypeOK, PCs, HangUp
    <2>2. \A g \in Handlers : Knows(g)'
      BY <1>0, <1>1, <1>3, <1>22 DEF Knows, Settling, HangUp
    <2>3. QED
      BY <2>1, <2>2 DEF TypeInv
  <1>23. ASSUME Crash PROVE TypeInv'
    <2>0. faults' \in 0 .. MaxFaults
      BY <1>23, AsyncAssumption DEF Crash, TypeInv, TypeOK
    <2>1. TypeOK'
      BY <1>0, <1>23, <2>0 DEF TypeInv, TypeOK, PCs, Crash
    <2>2. \A g \in Handlers : Knows(g)'
      BY <1>0, <1>3, <1>23 DEF Knows, Settling, Crash
    <2>3. QED
      BY <2>1, <2>2 DEF TypeInv
  <1>24. ASSUME UNCHANGED vars PROVE TypeInv'
    BY <1>24 DEF vars, TypeInv, TypeOK, Knows, Settling
  <1>25. QED
    BY <1>4, <1>5, <1>6, <1>7, <1>8, <1>9, <1>10, <1>11, <1>12, <1>13, <1>14,
       <1>15, <1>16, <1>17, <1>18, <1>19, <1>20, <1>21, <1>22, <1>23, <1>24
       DEF Next, CreatorStep, HandlerStep
-----------------------------------------------------------------------------
(* One handler at a time.  As long as no two have overlapped, the row is   *)
(* the turn: a handler that may still write it has found it unfinished and *)
(* the hold open, one that is closing the hold holds what the row says, or *)
(* is the creator of a task that no client knows of.                       *)
Closes == settles + refunds

Turn(h) ==
  /\ pc[h] \in {"insert", "saveSub", "channel", "submit", "markSubmitted", "markFailed"}
       => Closes = 0 /\ ~submitted /\ ~isTerminalTaskStatus(row.status)
  /\ pc[h] \in {"insert", "saveSub", "channel", "submit", "markFailed"} => ~Settling(h)
  /\ pc[h] \in {"lookup", "upstream", "markPolled", "markCanceled"}
       => Closes = 0 /\ ~isTerminalTaskStatus(row.status)
  /\ pc[h] = "finalize" => Closes = 0 /\ task[h].status = row.status
  /\ pc[h] = "refund" => Closes = 0 /\ ~Settling(h)
  /\ pc[h] \in {"refund", "script", "enqueue", "outbox", "markCost"} =>
       \/ isTerminalTaskStatus(row.status) /\ task[h].status = row.status
       \/ ~submitted /\ ~Settling(h)
  /\ pc[h] \in {"script", "enqueue", "outbox", "markCost"} => Closes = 1
  /\ pc[h] = "script" => purse = NoDeduction /\ handed = {} /\ ~Settling(h)

Ledgered ==
  /\ Closes <= 1
  /\ Closes = 1 => isTerminalTaskStatus(row.status) \/ ~submitted
  /\ Closes = 0 => purse = NoDeduction /\ handed = {}

AloneInv ==
  ~overlapped =>
    /\ \A g, h \in Handlers : Busy(g) /\ Busy(h) => g = h
    /\ \A h \in Handlers : Turn(h)
    /\ Ledgered

LEMMA AloneInit == Init => AloneInv
  <1> SUFFICES ASSUME Init PROVE AloneInv
    OBVIOUS
  <1>1. \A h \in Handlers : pc[h] = IF h = Creator THEN "insert" ELSE "idle"
    BY DEF Init
  <1>2. settles = 0 /\ refunds = 0 /\ Closes = 0 /\ purse = NoDeduction /\ handed = {}
    BY DEF Init, Closes
  <1>3. /\ ~isTerminalTaskStatus(row.status) /\ ~submitted
        /\ \A h \in Handlers : ~Settling(h)
    BY NewRows DEF Init, isTerminalTaskStatus, Settling
  <1>4. \A h \in Handlers : Turn(h)
    BY <1>1, <1>2, <1>3 DEF Turn
  <1>5. QED
    BY <1>1, <1>2, <1>3, <1>4, Who DEF AloneInv, Ledgered, Busy

(* Only the handler that moves can disturb the invariant: the others are   *)
(* not busy.                                                               *)
LEMMA AloneMoves ==
  ASSUME AloneInv, ~overlapped, FlowInv, FlowInv', NEW h \in Handlers, Busy(h),
         \A g \in Handlers : g # h => pc'[g] = pc[g],
         Turn(h)', Ledgered'
  PROVE  AloneInv'
  <1>1. \A g \in Handlers : g # h => ~Busy(g) /\ ~Busy(g)'
    BY DEF AloneInv, Busy
  <1>2. \A g \in Handlers : g # h => Turn(g)'
    BY <1>1 DEF Busy, Turn
  <1>3. QED
    BY <1>1, <1>2 DEF AloneInv

LEMMA AloneNext == TypeInv /\ FlowInv /\ AloneInv /\ [Next]_vars => AloneInv'
  <1> SUFFICES ASSUME TypeInv, FlowInv, AloneInv, [Next]_vars PROVE AloneInv'
    OBVIOUS
  <1>0. FlowInv' /\ TypeInv'
    BY FlowNext, TypeNext
  <1>1. /\ row \in Rows /\ task \in [Handlers -> Rows] /\ pc \in [Handlers -> PCs]
        /\ \A h \in Handlers : task[h] \in Rows
    BY DEF TypeInv, TypeOK, FlowInv
  <1>2. UNCHANGED <<settles, refunds>> => Closes' = Closes
    BY DEF Closes
  <1>3. overlapped => overlapped'
    BY DEF Next, CreatorStep, HandlerStep, vars, histVars, CreateAsyncTask,
       SetAsyncTaskSubDeducted, PickChannel, SubmitTask, MarkAsyncTaskSubmitted,
       failTaskAndRefund, GetChannelByID, PollUpstream, CancelUpstream, MarkPolled,
       MarkCanceled, subOf, RefundScript, EnqueueBillingLog, InsertSettlementOutbox,
       MarkCost, GetAsyncTaskByIDAndUser, UpstreamWorks, HangUp, Crash
  <1>4. SUFFICES ASSUME ~overlapped' PROVE AloneInv'
    BY DEF AloneInv
  <1>5. ~overlapped /\ Ledgered /\ \A h \in Handlers : Turn(h) /\ Knows(h)
    BY <1>3, <1>4 DEF AloneInv, TypeInv
  <1> USE Who
  <1>6. ASSUME CreateAsyncTask PROVE AloneInv'
    <2>1. /\ ~isTerminalTaskStatus(row'.status)
          /\ task'[Creator].status = "queued" \/ task'[Creator] = task[Creator]
      BY <1>1, <1>5, <1>6, NewRows
         DEF CreateAsyncTask, Update, Turn, Took, isTerminalTaskStatus
    <2>7. Turn(Creator)'
      BY <1>1, <1>2, <1>5, <1>6, <2>1
         DEF Turn, Settling, CreateAsyncTask, Goto, Took, closeVars, histVars,
             isTerminalTaskStatus, Update
    <2>8. Ledgered'
      BY <1>2, <1>5, <1>6, <2>1 DEF Ledgered, Turn, CreateAsyncTask, closeVars, histVars
    <2>9. Busy(Creator) /\ \A g \in Handlers : g # Creator => pc'[g] = pc[g]
      BY <1>1, <1>6 DEF CreateAsyncTask, Goto, Busy, Update
    <2>10. QED
      BY <1>0, <1>5, <2>7, <2>8, <2>9, AloneMoves
  <1>7. ASSUME SetAsyncTaskSubDeducted PROVE AloneInv'
    <2>1. row'.status = row.status
      BY <1>1, <1>7, SubDeductedIs DEF SetAsyncTaskSubDeducted
    <2>7. Turn(Creator)'
      BY <1>1, <1>2, <1>5, <1>7, <2>1
         DEF Turn, Settling, SetAsyncTaskSubDeducted, Goto, Took, closeVars,
             histVars, isTerminalTaskStatus
    <2>8. Ledgered'
      BY <1>2, <1>5, <1>7, <2>1
         DEF Ledgered, Turn, SetAsyncTaskSubDeducted, closeVars, histVars
    <2>9. Busy(Creator) /\ \A g \in Handlers : g # Creator => pc'[g] = pc[g]
      BY <1>1, <1>7 DEF SetAsyncTaskSubDeducted, Goto, Busy
    <2>10. QED
      BY <1>0, <1>5, <2>7, <2>8, <2>9, AloneMoves
  <1>8. ASSUME PickChannel PROVE AloneInv'
    <2>1. row'.status = row.status
      BY <1>8 DEF PickChannel, rowVars
    <2>7. Turn(Creator)'
      BY <1>1, <1>2, <1>5, <1>8, <2>1
         DEF Turn, Settling, PickChannel, Goto, Took, closeVars, histVars,
             isTerminalTaskStatus
    <2>8. Ledgered'
      BY <1>2, <1>5, <1>8, <2>1 DEF Ledgered, Turn, PickChannel, closeVars, histVars
    <2>9. Busy(Creator) /\ \A g \in Handlers : g # Creator => pc'[g] = pc[g]
      BY <1>1, <1>8 DEF PickChannel, Goto, Busy
    <2>10. QED
      BY <1>0, <1>5, <2>7, <2>8, <2>9, AloneMoves
  <1>9. ASSUME SubmitTask PROVE AloneInv'
    <2>1. row'.status = row.status
      BY <1>9 DEF SubmitTask
    <2>7. Turn(Creator)'
      BY <1>1, <1>2, <1>5, <1>9, <2>1
         DEF Turn, Settling, SubmitTask, Goto, Took, closeVars, histVars,
             isTerminalTaskStatus
    <2>8. Ledgered'
      BY <1>2, <1>5, <1>9, <2>1 DEF Ledgered, Turn, SubmitTask, closeVars, histVars
    <2>9. Busy(Creator) /\ \A g \in Handlers : g # Creator => pc'[g] = pc[g]
      BY <1>1, <1>9 DEF SubmitTask, Goto, Busy
    <2>10. QED
      BY <1>0, <1>5, <2>7, <2>8, <2>9, AloneMoves
  <1>10. ASSUME MarkAsyncTaskSubmitted PROVE AloneInv'
    <2>1. \/ submitted' /\ row' = task'[Creator] /\ pc'[Creator] \in {"finalize", "done"}
          \/ UNCHANGED submitted /\ pc'[Creator] = "done"
      BY <1>1, <1>10 DEF MarkAsyncTaskSubmitted, Goto, Took
    <2>7. Turn(Creator)'
      BY <1>1, <1>2, <1>5, <1>10, <2>1
         DEF Turn, Settling, MarkAsyncTaskSubmitted, Goto, Took, closeVars,
             histVars, isTerminalTaskStatus
    <2>8. Ledgered'
      BY <1>2, <1>5, <1>10, <2>1
         DEF Ledgered, Turn, MarkAsyncTaskSubmitted, closeVars, histVars
    <2>9. Busy(Creator) /\ \A g \in Handlers : g # Creator => pc'[g] = pc[g]
      BY <1>1, <1>10 DEF MarkAsyncTaskSubmitted, Goto, Busy
    <2>10. QED
      BY <1>0, <1>5, <2>7, <2>8, <2>9, AloneMoves
  <1>11. ASSUME failTaskAndRefund PROVE AloneInv'
    <2>1. /\ row'.status = "failed" \/ row'.status = row.status
          /\ task'[Creator].status = "failed" \/ task'[Creator].status = task[Creator].status
      <3>1. MarkedStatus(row, "failed", 0).status = "failed"
        BY <1>1, MarkedStatusIs DEF Statuses, UpStates
      <3>2. QED
        BY <1>1, <1>11, <3>1 DEF failTaskAndRefund, Update, Took
    <2>7. Turn(Creator)'
      BY <1>1, <1>2, <1>5, <1>11, <2>1
         DEF Turn, Settling, failTaskAndRefund, Goto, Took, closeVars, histVars,
             isTerminalTaskStatus, Update
    <2>8. Ledgered'
      BY <1>2, <1>5, <1>11, <2>1
         DEF Ledgered, Turn, failTaskAndRefund, closeVars, histVars
    <2>9. Busy(Creator) /\ \A g \in Handlers : g # Creator => pc'[g] = pc[g]
      BY <1>1, <1>11 DEF failTaskAndRefund, Goto, Busy, Update
    <2>10. QED
      BY <1>0, <1>5, <2>7, <2>8, <2>9, AloneMoves
  <1>12. ASSUME NEW h \in Handlers, GetChannelByID(h) PROVE AloneInv'
    <2>1. row'.status = row.status
      BY <1>12 DEF GetChannelByID, rowVars
    <2>7. Turn(h)'
      BY <1>1, <1>2, <1>5, <1>12, <2>1
         DEF Turn, Settling, GetChannelByID, Goto, Took, closeVars, histVars,
             isTerminalTaskStatus
    <2>8. Ledgered'
      BY <1>2, <1>5, <1>12, <2>1 DEF Ledgered, Turn, GetChannelByID, closeVars, histVars
    <2>9. Busy(h) /\ \A g \in Handlers : g # h => pc'[g] = pc[g]
      BY <1>1, <1>12 DEF GetChannelByID, Goto, Busy
    <2>10. QED
      BY <1>0, <1>5, <2>7, <2>8, <2>9, AloneMoves
  <1>13. ASSUME NEW h \in Handlers, PollUpstream(h) PROVE AloneInv'
    <2>1. row'.status = row.status
      BY <1>13 DEF PollUpstream, rowVars
    <2>7. Turn(h)'
      BY <1>1, <1>2, <1>5, <1>13, <2>1
         DEF Turn, Settling, PollUpstream, Goto, Took, closeVars, histVars,
             isTerminalTaskStatus
    <2>8. Ledgered'
      BY <1>2, <1>5, <1>13, <2>1 DEF Ledgered, Turn, PollUpstream, closeVars, histVars
    <2>9. Busy(h) /\ \A g \in Handlers : g # h => pc'[g] = pc[g]
      BY <1>1, <1>13 DEF PollUpstream, Goto, Busy
    <2>10. QED
      BY <1>0, <1>5, <2>7, <2>8, <2>9, AloneMoves
  <1>14. ASSUME NEW h \in Handlers, CancelUpstream(h) PROVE AloneInv'
    <2>1. row'.status = row.status
      BY <1>14 DEF CancelUpstream
    <2>7. Turn(h)'
      BY <1>1, <1>2, <1>5, <1>14, <2>1
         DEF Turn, Settling, CancelUpstream, Goto, Took, closeVars, histVars,
             isTerminalTaskStatus
    <2>8. Ledgered'
      BY <1>2, <1>5, <1>14, <2>1 DEF Ledgered, Turn, CancelUpstream, closeVars, histVars
    <2>9. Busy(h) /\ \A g \in Handlers : g # h => pc'[g] = pc[g]
      BY <1>1, <1>14 DEF CancelUpstream, Goto, Busy
    <2>10. QED
      BY <1>0, <1>5, <2>7, <2>8, <2>9, AloneMoves
  <1>15. ASSUME NEW h \in Handlers, MarkPolled(h) PROVE AloneInv'
    <2>1. pc'[h] = "done" \/ (pc'[h] = "finalize" /\ row' = task'[h])
      <3>1. pc'[h] = "done" \/ pc'[h] = "finalize"
        BY <1>1, <1>15 DEF MarkPolled, Update, Goto
      <3>2. pc'[h] = "done" \/ row' = task'[h]
        BY <1>1, <1>15 DEF MarkPolled, Update, Goto, Took
      <3>3. QED
        BY <3>1, <3>2
    <2>7. Turn(h)'
      BY <1>1, <1>2, <1>5, <1>15, <2>1
         DEF Turn, Settling, MarkPolled, Goto, Took, closeVars, histVars,
             isTerminalTaskStatus, Update
    <2>8. Ledgered'
      BY <1>2, <1>5, <1>15, <2>1 DEF Ledgered, Turn, MarkPolled, closeVars, histVars
    <2>9. Busy(h) /\ \A g \in Handlers : g # h => pc'[g] = pc[g]
      BY <1>1, <1>15 DEF MarkPolled, Goto, Busy, Update
    <2>10. QED
      BY <1>0, <1>5, <2>7, <2>8, <2>9, AloneMoves
  <1>16. ASSUME NEW h \in Handlers, MarkCanceled(h) PROVE AloneInv'
    <2>1. \/ pc'[h] = "done"
          \/ pc'[h] = "refund" /\ task'[h] = row' /\ row'.status = "canceled"
      <3>1. MarkedStatus(row, "canceled", task[h].cost).status = "canceled"
        BY <1>1, RowFields, MarkedStatusIs DEF Statuses, UpStates
      <3>2. QED
        BY <1>1, <1>16, <3>1 DEF MarkCanceled, Update, Goto, Took
    <2>7. Turn(h)'
      BY <1>1, <1>2, <1>5, <1>16, <2>1
         DEF Turn, Settling, MarkCanceled, Goto, Took, closeVars, histVars,
             isTerminalTaskStatus, Update
    <2>8. Ledgered'
      BY <1>2, <1>5, <1>16, <2>1 DEF Ledgered, Turn, MarkCanceled, closeVars, histVars
    <2>9. Busy(h) /\ \A g \in Handlers : g # h => pc'[g] = pc[g]
      BY <1>1, <1>16 DEF MarkCanceled, Goto, Busy, Update
    <2>10. QED
      BY <1>0, <1>5, <2>7, <2>8, <2>9, AloneMoves
  <1>17. ASSUME NEW h \in Handlers, subOf(h) PROVE AloneInv'
    <2>1. /\ Closes = 0 /\ purse = NoDeduction /\ handed = {}
          /\ \/ isTerminalTaskStatus(row.status) /\ task[h].status = row.status
             \/ pc[h] = "refund" /\ ~submitted
      BY <1>5, <1>17 DEF subOf, Turn, Ledgered, Knows
    <2>2. pc[h] = "refund" => ~Settling(h)
      BY <1>5 DEF Turn
    <2>3. UNCHANGED <<row, task, purse, handed, submitted>>
      BY <1>17 DEF subOf, rowVars, histVars
    <2>4. \/ pc'[h] = "done" /\ UNCHANGED <<settles, refunds>>
          \/ pc'[h] = "enqueue" /\ pc[h] = "finalize" /\ settles' = settles + 1 /\ refunds' = refunds
          \/ pc'[h] = "script" /\ refunds' = refunds + 1 /\ settles' = settles
               /\ ~(pc[h] = "finalize" /\ Settling(h))
      BY <1>1, <1>17 DEF subOf, Goto
    <2>5. Closes' = 0 \/ Closes' = 1
      BY <2>1, <2>4 DEF Closes, TypeInv, TypeOK
    <2>6. pc[h] = "finalize" \/ pc[h] = "refund"
      BY <1>17 DEF subOf
    <2>7. Turn(h)'
      <3>1. pc'[h] # "done" => Closes' = 1
        BY <2>1, <2>4 DEF Closes, TypeInv, TypeOK
      <3>2. QED
        BY <2>1, <2>2, <2>3, <2>4, <2>6, <3>1 DEF Turn, Settling
    <2>8. Ledgered'
      BY <2>1, <2>3, <2>5 DEF Ledgered
    <2>9. Busy(h) /\ \A g \in Handlers : g # h => pc'[g] = pc[g]
      BY <1>1, <1>17 DEF subOf, Goto, Busy
    <2>10. QED
      BY <1>0, <1>5, <2>7, <2>8, <2>9, AloneMoves
  <1>18. ASSUME NEW h \in Handlers, RefundScript(h) PROVE AloneInv'
    <2>1. /\ UNCHANGED <<row, task, submitted, settles, refunds>>
          /\ Closes = 1
      BY <1>5, <1>18 DEF RefundScript, Turn, rowVars, histVars
    <2>7. Turn(h)'
      BY <1>1, <1>2, <1>5, <1>18, <2>1
         DEF Turn, Settling, RefundScript, Goto, AfterClosing
    <2>8. Ledgered'
      BY <1>2, <1>5, <2>1 DEF Ledgered
    <2>9. Busy(h) /\ \A g \in Handlers : g # h => pc'[g] = pc[g]
      BY <1>1, <1>18 DEF RefundScript, Goto, Busy
    <2>10. QED
      BY <1>0, <1>5, <2>7, <2>8, <2>9, AloneMoves
  <1>19. ASSUME NEW h \in Handlers, EnqueueBillingLog(h) PROVE AloneInv'
    <2>1. /\ UNCHANGED <<row, task, submitted, settles, refunds>>
          /\ Closes = 1
      BY <1>5, <1>19 DEF EnqueueBillingLog, Turn, rowVars, histVars
    <2>7. Turn(h)'
      BY <1>1, <1>2, <1>5, <1>19, <2>1
         DEF Turn, Settling, EnqueueBillingLog, Goto, AfterClosing
    <2>8. Ledgered'
      BY <1>2, <1>5, <2>1 DEF Ledgered
    <2>9. Busy(h) /\ \A g \in Handlers : g # h => pc'[g] = pc[g]
      BY <1>1, <1>19 DEF EnqueueBillingLog, Goto, Busy, AfterClosing
    <2>10. QED
      BY <1>0, <1>5, <2>7, <2>8, <2>9, AloneMoves
  <1>20. ASSUME NEW h \in Handlers, InsertSettlementOutbox(h) PROVE AloneInv'
    <2>1. /\ UNCHANGED <<row, task, submitted, settles, refunds>>
          /\ Closes = 1
      BY <1>5, <1>20 DEF InsertSettlementOutbox, Turn, rowVars, histVars
    <2>7. Turn(h)'
      BY <1>1, <1>2, <1>5, <1>20, <2>1
         DEF Turn, Settling, InsertSettlementOutbox, Goto, AfterClosing
    <2>8. Ledgered'
      BY <1>2, <1>5, <2>1 DEF Ledgered
    <2>9. Busy(h) /\ \A g \in Handlers : g # h => pc'[g] = pc[g]
      BY <1>1, <1>20 DEF InsertSettlementOutbox, Goto, Busy, AfterClosing
    <2>10. QED
      BY <1>0, <1>5, <2>7, <2>8, <2>9, AloneMoves
  <1>21. ASSUME NEW h \in Handlers, MarkCost(h) PROVE AloneInv'
    <2>1. row'.status = row.status /\ pc'[h] = "done"
      <3>1. row.status = task[h].status /\ task[h].status \in Statuses
        BY <1>5, <1>21 DEF MarkCost, Turn, Knows, Settling, Statuses, UpStates
      <3>2. MarkedStatus(row, task[h].status, Total(Hold)).status = row.status
        BY <1>1, <3>1, MarkedStatusIs
      <3>3. QED
        BY <1>1, <1>21, <3>2 DEF MarkCost, Update, Goto
    <2>7. Turn(h)'
      BY <2>1 DEF Turn
    <2>8. Ledgered'
      BY <1>2, <1>5, <1>21, <2>1 DEF Ledgered, MarkCost, closeVars, histVars
    <2>9. Busy(h) /\ \A g \in Handlers : g # h => pc'[g] = pc[g]
      BY <1>1, <1>21 DEF MarkCost, Goto, Busy, Update
    <2>10. QED
      BY <1>0, <1>5, <2>7, <2>8, <2>9, AloneMoves
  <1>22. ASSUME NEW h \in FollowUps, GetAsyncTaskByIDAndUser(h) PROVE AloneInv'
    <2>1. submitted /\ \A g \in Handlers : ~Busy(g)
      BY <1>4, <1>22 DEF GetAsyncTaskByIDAndUser, Told
    <2>2. /\ UNCHANGED <<row, settles, refunds, purse, handed, submitted>>
          /\ Closes' = Closes
      BY <1>2, <1>22 DEF GetAsyncTaskByIDAndUser, rowVars, closeVars
    <2>3. /\ \A g \in Handlers : g # h => pc'[g] = pc[g]
          /\ \/ pc'[h] = "done"
             \/ pc'[h] \in {"lookup", "markCanceled"} /\ ~isTerminalTaskStatus(row.status)
      BY <1>1, <1>22 DEF GetAsyncTaskByIDAndUser, Goto
    <2>4. \A g \in Handlers : g # h => ~Busy(g)'
      BY <2>1, <2>3 DEF Busy
    <2>5. Closes = 0 \/ Closes = 1
      BY <1>5 DEF Ledgered, Closes, TypeInv, TypeOK
    <2>6. Turn(h)'
      BY <1>5, <2>1, <2>2, <2>3, <2>5 DEF Ledgered, Turn
    <2>7. \A g \in Handlers : g # h => Turn(g)'
      BY <1>0, <2>4 DEF Turn, Busy
    <2>8. Ledgered'
      BY <1>5, <2>2 DEF Ledgered
    <2>9. QED
      BY <2>4, <2>6, <2>7, <2>8 DEF AloneInv
  <1>23. ASSUME UNCHANGED <<row, pc, task, closeVars, submitted>> PROVE AloneInv'
    BY <1>2, <1>5, <1>23 DEF AloneInv, Turn, Ledgered, Settling, Busy, closeVars
  <1>24. ASSUME UpstreamWorks PROVE AloneInv'
    BY <1>23, <1>24 DEF UpstreamWorks, histVars
  <1>25. ASSUME NEW h \in Handlers, HangUp(h) PROVE AloneInv'
    BY <1>23, <1>25 DEF HangUp, histVars, rowVars
  <1>26. ASSUME Crash PROVE AloneInv'
    <2>1. \A g \in Handlers : ~Busy(g)'
      BY <1>1, <1>26 DEF Crash, Busy
    <2>2. \A g \in Handlers : Turn(g)'
      BY <2>1 DEF Turn, Busy
    <2>3. Ledgered'
      BY <1>2, <1>5, <1>26 DEF Crash, Ledgered, rowVars, closeVars, histVars
    <2>4. QED
      BY <2>1, <2>2, <2>3 DEF AloneInv
  <1>27. ASSUME UNCHANGED vars PROVE AloneInv'
    BY <1>23, <1>27 DEF vars, histVars, rowVars
  <1>28. QED
    BY <1>6, <1>7, <1>8, <1>9, <1>10, <1>11, <1>12, <1>13, <1>14, <1>15, <1>16, <1>17,
       <1>18, <1>19, <1>20, <1>21, <1>22, <1>24, <1>25, <1>26, <1>27
       DEF Next, CreatorStep, HandlerStep

(* As long as no two handlers of a task overlap, its hold is settled or    *)
(* refunded at most once, whatever fails and however often the client asks. *)
THEOREM ClosedOnceAlone == Spec => []ClosedOnceIfAlone
  <1>1. AloneInv => ClosedOnceIfAlone
    BY DEF AloneInv, Ledgered, Closes, ClosedOnceIfAlone
  <1>2. QED
    BY <1>1, FlowInit, FlowNext, TypeInit, TypeNext, AloneInit, AloneNext, PTL DEF Spec

(* A finished task is never written over, as long as no two handlers       *)
(* overlap: whoever writes the row has found it unfinished, but for the    *)
(* cost of a settled task, which comes with the status that is there.      *)
THEOREM FinishedAlwaysStands == Spec => FinishedStands
  <1> DEFINE Stands == isTerminalTaskStatus(row.status) /\ ~overlapped
                         => row'.status = row.status
  <1>1. TypeInv /\ FlowInv /\ AloneInv /\ [Next]_vars => [Stands]_vars
    <2> SUFFICES ASSUME TypeInv, FlowInv, AloneInv, Next,
                        isTerminalTaskStatus(row.status), ~overlapped
                 PROVE  row'.status = row.status
      BY DEF vars, rowVars
    <2>1. \A h \in Handlers : Turn(h) /\ Knows(h) /\ task[h] \in Rows /\ row \in Rows
      BY DEF AloneInv, TypeInv, TypeOK
    <2>2. ASSUME CreatorStep PROVE row'.status = row.status
      BY <2>1, <2>2, Who DEF CreatorStep, CreateAsyncTask, SetAsyncTaskSubDeducted,
         PickChannel, SubmitTask, MarkAsyncTaskSubmitted, failTaskAndRefund, rowVars, Turn
    <2>3. ASSUME NEW h \in Handlers, MarkPolled(h) \/ MarkCanceled(h)
          PROVE  row'.status = row.status
      BY <2>1, <2>3 DEF MarkPolled, MarkCanceled, Turn
    <2>4. ASSUME NEW h \in Handlers, MarkCost(h) PROVE row'.status = row.status
      <3>1. row.status = task[h].status /\ task[h].status \in Statuses
        BY <2>1, <2>4 DEF MarkCost, Turn, Knows, Settling, Statuses, UpStates
      <3>2. MarkedStatus(row, task[h].status, Total(Hold)).status = row.status
        BY <2>1, <3>1, MarkedStatusIs
      <3>3. QED
        BY <2>4, <3>2 DEF MarkCost, Update
    <2>5. ASSUME NEW h \in Handlers,
                 \/ GetChannelByID(h) \/ PollUpstream(h) \/ CancelUpstream(h)
                 \/ subOf(h) \/ RefundScript(h) \/ EnqueueBillingLog(h)
                 \/ InsertSettlementOutbox(h) \/ HangUp(h)
          PROVE  row'.status = row.status
      BY <2>5 DEF GetChannelByID, PollUpstream, CancelUpstream, subOf, RefundScript,
         EnqueueBillingLog, InsertSettlementOutbox, HangUp, rowVars
    <2>6. ASSUME NEW h \in FollowUps, GetAsyncTaskByIDAndUser(h)
          PROVE  row'.status = row.status
      BY <2>6 DEF GetAsyncTaskByIDAndUser, rowVars
    <2>7. ASSUME UpstreamWorks \/ Crash PROVE row'.status = row.status
      BY <2>7 DEF UpstreamWorks, Crash, rowVars
    <2>8. QED
      BY <2>2, <2>3, <2>4, <2>5, <2>6, <2>7 DEF Next, HandlerStep
  <1>2. QED
    BY <1>1, FlowInit, FlowNext, TypeInit, TypeNext, AloneInit, AloneNext, PTL
       DEF Spec, FinishedStands

(* Every variable keeps its type. *)
THEOREM TypeCorrect == Spec => []TypeOK
  <1>1. TypeInv => TypeOK
    BY DEF TypeInv
  <1>2. QED
    BY <1>1, FlowInit, FlowNext, TypeInit, TypeNext, PTL DEF Spec

-----------------------------------------------------------------------------
(* What is paid for.  No two handlers need to keep apart here: what a      *)
(* handler closes for is what the upstream said to it, and an upstream     *)
(* does not take back an end.                                              *)
Says(h) ==
  /\ pc[h] \in {"markSubmitted", "markPolled", "finalize"}
  /\ isTerminalTaskStatus(task[h].status)
  => up = task[h].status

Begun ==
  /\ submitted \/ pc[Creator] = "markSubmitted" => up # "none"
  /\ pc[Creator] \in {"insert", "saveSub", "channel", "submit"}
       => up = "none" /\ settles = 0 /\ refunds = 0
  /\ pc[Creator] \in {"markFailed", "refund"} => up = "none" \/ Disturbed

Deserved ==
  /\ settles > 0 => up = "succeeded"
  /\ refunds > 0 => up \in {"none", "failed", "canceled"} \/ cancels # {} \/ Disturbed

TruthInv == (\A h \in Handlers : Says(h)) /\ Begun /\ Deserved

(* A disturbance and a cancel are never forgotten. *)
LEMMA Monotone ==
  ASSUME TypeInv, [Next]_vars
  PROVE  /\ Disturbed => Disturbed'
         /\ cancels # {} => cancels' # {}
         /\ \A h \in Handlers : Err(h) /\ UNCHANGED gone => Disturbed'
  <1>1. faults \in Nat
    BY DEF TypeInv, TypeOK
  <1>2. faults' = faults \/ faults' = faults + 1
    BY DEF Next, CreatorStep, HandlerStep, vars, CreateAsyncTask, Update, Ok, Err,
       SetAsyncTaskSubDeducted, PickChannel, SubmitTask, MarkAsyncTaskSubmitted,
       failTaskAndRefund, GetChannelByID, PollUpstream, CancelUpstream, MarkPolled,
       MarkCanceled, subOf, RefundScript, EnqueueBillingLog, InsertSettlementOutbox,
       MarkCost, GetAsyncTaskByIDAndUser, UpstreamWorks, HangUp, Crash
  <1>3. gone \subseteq gone' /\ cancels \subseteq cancels'
    BY DEF Next, CreatorStep, HandlerStep, vars, histVars, CreateAsyncTask,
       SetAsyncTaskSubDeducted, PickChannel, SubmitTask, MarkAsyncTaskSubmitted,
       failTaskAndRefund, GetChannelByID, PollUpstream, CancelUpstream, MarkPolled,
       MarkCanceled, subOf, RefundScript, EnqueueBillingLog, InsertSettlementOutbox,
       MarkCost, GetAsyncTaskByIDAndUser, UpstreamWorks, HangUp, Crash
  <1>4. \A h \in Handlers : Err(h) /\ UNCHANGED gone => Disturbed'
    BY <1>1 DEF Err, Disturbed
  <1>5. Disturbed => Disturbed'
    BY <1>1, <1>2, <1>3 DEF Disturbed
  <1>6. QED
    BY <1>3, <1>4, <1>5

(* The words of the upstream are honest: a word that the code reads as an  *)
(* end is said of that end.                                                *)
HonestWords ==
  \A s \in UpStates : \A word \in Words[s] :
    isTerminalTaskStatus(NormalizeTaskStatus(word)) => NormalizeTaskStatus(word) = s

LEMMA TruthInit == Init => TruthInv
  <1> SUFFICES ASSUME Init PROVE TruthInv
    OBVIOUS
  <1>1. \A h \in Handlers : pc[h] = IF h = Creator THEN "insert" ELSE "idle"
    BY DEF Init
  <1>2. QED
    BY <1>1, Who DEF Init, TruthInv, Says, Begun, Deserved

(* A step that leaves the upstream and the counts alone, and takes its     *)
(* handler to where it says nothing new.                                   *)
LEMMA TruthFrame ==
  ASSUME TruthInv, TypeInv, [Next]_vars, UNCHANGED <<up, settles, refunds>>,
         \A h \in Handlers : Says(h)', Begun'
  PROVE  TruthInv'
  <1>1. Deserved'
    BY Monotone DEF TruthInv, Deserved
  <1>2. QED
    BY <1>1 DEF TruthInv

LEMMA TruthNext ==
  ASSUME HonestWords, TypeInv, FlowInv, TruthInv, [Next]_vars
  PROVE  TruthInv'
  <1>0. FlowInv' /\ TypeInv'
    BY FlowNext, TypeNext
  <1>1. /\ row \in Rows /\ task \in [Handlers -> Rows] /\ pc \in [Handlers -> PCs]
        /\ \A h \in Handlers : task[h] \in Rows /\ Knows(h)
        /\ up \in UpStates \cup {"none"}
    BY DEF TypeInv, TypeOK, FlowInv
  <1>2. /\ Disturbed => Disturbed'
        /\ cancels # {} => cancels' # {}
        /\ \A h \in Handlers : Err(h) /\ UNCHANGED gone => Disturbed'
    BY Monotone
  <1>3. (\A h \in Handlers : Says(h)) /\ Begun /\ Deserved
    BY DEF TruthInv
  <1>4. \A h \in FollowUps : pc[h] # "idle" => up # "none" /\ pc[Creator] = "done"
    BY <1>3 DEF FlowInv, Begun
  <1> USE Who
  <1>5. ASSUME CreateAsyncTask PROVE TruthInv'
    <2>1. /\ pc'[Creator] \in {"saveSub", "channel", "done"}
          /\ \A g \in Handlers : g # Creator => pc'[g] = pc[g] /\ task'[g] = task[g]
      BY <1>1, <1>5 DEF CreateAsyncTask, Update, Goto, Took
    <2>2. UNCHANGED <<up, settles, refunds, submitted, gone>>
      BY <1>5 DEF CreateAsyncTask, closeVars, histVars
    <2>7. \A g \in Handlers : Says(g)'
      BY <1>3, <2>1, <2>2 DEF Says
    <2>8. Begun'
      BY <1>3, <1>5, <2>1, <2>2 DEF Begun, CreateAsyncTask
    <2>9. UNCHANGED <<up, settles, refunds>>
      BY <1>5 DEF CreateAsyncTask, rowVars, closeVars
    <2>10. QED
      BY <2>7, <2>8, <2>9, TruthFrame
  <1>6. ASSUME SetAsyncTaskSubDeducted PROVE TruthInv'
    <2>7. \A g \in Handlers : Says(g)'
      BY <1>1, <1>3, <1>6 DEF Says, SetAsyncTaskSubDeducted, Goto, rowVars
    <2>8. Begun'
      BY <1>1, <1>2, <1>3, <1>4, <1>6
         DEF Begun, FlowInv, SetAsyncTaskSubDeducted, Goto, rowVars, closeVars,
             histVars
    <2>9. UNCHANGED <<up, settles, refunds>>
      BY <1>6 DEF SetAsyncTaskSubDeducted, rowVars, closeVars
    <2>10. QED
      BY <2>7, <2>8, <2>9, TruthFrame
  <1>7. ASSUME PickChannel PROVE TruthInv'
    <2>7. \A g \in Handlers : Says(g)'
      BY <1>1, <1>3, <1>7 DEF Says, PickChannel, Goto, rowVars
    <2>8. Begun'
      BY <1>1, <1>2, <1>3, <1>4, <1>7
         DEF Begun, FlowInv, PickChannel, Goto, rowVars, closeVars, histVars
    <2>9. UNCHANGED <<up, settles, refunds>>
      BY <1>7 DEF PickChannel, rowVars, closeVars
    <2>10. QED
      BY <2>7, <2>8, <2>9, TruthFrame
  <1>8. ASSUME SubmitTask PROVE TruthInv'
    <2>1. up = "none" /\ settles = 0 /\ refunds = 0 /\ pc[Creator] # "done"
      BY <1>3, <1>8 DEF SubmitTask, Begun
    <2>2. ~submitted' /\ settles' = 0 /\ refunds' = 0
      BY <1>3, <1>8, <2>1 DEF Begun, SubmitTask, closeVars, histVars
    <2>3. \A g \in Handlers : g # Creator => pc'[g] = "idle"
      BY <1>1, <1>4, <1>8, <2>1 DEF SubmitTask, Goto
    <2>4. CASE pc'[Creator] = "markSubmitted"
      <3>1. PICK word \in Words[up'], known \in BOOLEAN :
              /\ up' \in UpStates
              /\ task' = [task EXCEPT ![Creator] =
                            [task[Creator] EXCEPT !.status = NormalizeTaskStatus(word),
                                                  !.known = known]]
        BY <1>1, <1>8, <2>4 DEF SubmitTask, Goto, Took
      <3>2. task'[Creator].status = NormalizeTaskStatus(word)
        BY <1>1, <3>1 DEF Rows
      <3>3. Says(Creator)'
        BY <3>1, <3>2 DEF HonestWords, Says
      <3>4. up' # "none"
        BY <3>1 DEF UpStates
      <3>5. Begun' /\ Deserved'
        BY <2>2, <2>4, <3>4 DEF Begun, Deserved
      <3>6. QED
        BY <2>3, <3>3, <3>5 DEF TruthInv, Says
    <2>5. CASE pc'[Creator] = "markFailed"
      <3>1. up' = "none" \/ Disturbed'
        BY <1>1, <1>2, <1>8, <2>1, <2>5 DEF SubmitTask, Goto
      <3>2. Begun' /\ Deserved'
        BY <2>2, <2>5, <3>1 DEF Begun, Deserved
      <3>3. QED
        BY <2>3, <2>5, <3>2 DEF TruthInv, Says
    <2>6. QED
      BY <1>1, <1>8, <2>4, <2>5 DEF SubmitTask, Goto
  <1>9. ASSUME MarkAsyncTaskSubmitted PROVE TruthInv'
    <2>1. MarkedSubmitted(row, task[Creator]).status = task[Creator].status
      BY <1>1, MarkedSubmittedIs
    <2>2. /\ pc'[Creator] \in {"finalize", "done"}
          /\ task'[Creator].status = task[Creator].status
          /\ \A g \in Handlers : g # Creator => pc'[g] = pc[g] /\ task'[g] = task[g]
      BY <1>1, <1>9, <2>1 DEF MarkAsyncTaskSubmitted, Goto, Took
    <2>3. up' = up /\ up # "none"
      BY <1>3, <1>9 DEF MarkAsyncTaskSubmitted, Begun
    <2>7. \A g \in Handlers : Says(g)'
      BY <1>3, <1>9, <2>2, <2>3 DEF Says, MarkAsyncTaskSubmitted
    <2>8. Begun'
      BY <2>2, <2>3 DEF Begun
    <2>9. UNCHANGED <<up, settles, refunds>>
      BY <1>9 DEF MarkAsyncTaskSubmitted, rowVars, closeVars
    <2>10. QED
      BY <2>7, <2>8, <2>9, TruthFrame
  <1>10. ASSUME failTaskAndRefund PROVE TruthInv'
    <2>1. /\ pc'[Creator] = "refund"
          /\ \A g \in Handlers : g # Creator => pc'[g] = pc[g] /\ task'[g] = task[g]
      BY <1>1, <1>10 DEF failTaskAndRefund, Update, Goto, Took
    <2>2. UNCHANGED <<up, submitted>>
      BY <1>10 DEF failTaskAndRefund, histVars
    <2>7. \A g \in Handlers : Says(g)'
      BY <1>3, <2>1, <2>2 DEF Says
    <2>8. Begun'
      BY <1>2, <1>3, <1>10, <2>1, <2>2 DEF Begun, failTaskAndRefund
    <2>9. UNCHANGED <<up, settles, refunds>>
      BY <1>10 DEF failTaskAndRefund, rowVars, closeVars
    <2>10. QED
      BY <2>7, <2>8, <2>9, TruthFrame
  <1>11. ASSUME NEW h \in Handlers, GetChannelByID(h) PROVE TruthInv'
    <2>7. \A g \in Handlers : Says(g)'
      BY <1>1, <1>3, <1>11 DEF Says, GetChannelByID, Goto, rowVars
    <2>8. Begun'
      BY <1>1, <1>2, <1>3, <1>4, <1>11
         DEF Begun, FlowInv, GetChannelByID, Goto, rowVars, closeVars, histVars
    <2>9. UNCHANGED <<up, settles, refunds>>
      BY <1>11 DEF GetChannelByID, rowVars, closeVars
    <2>10. QED
      BY <2>7, <2>8, <2>9, TruthFrame
  <1>12. ASSUME NEW h \in Handlers, PollUpstream(h) PROVE TruthInv'
    <2>1. h \in FollowUps /\ pc[h] = "upstream" /\ up \in UpStates
      BY <1>1, <1>4, <1>12 DEF PollUpstream, FlowInv
    <2>2. /\ pc'[Creator] = pc[Creator]
          /\ \A g \in Handlers : g # h => pc'[g] = pc[g] /\ task'[g] = task[g]
      BY <1>1, <1>12, <2>1 DEF PollUpstream, Goto, Took
    <2>3. UNCHANGED <<up, settles, refunds, submitted>>
      BY <1>12 DEF PollUpstream, rowVars, closeVars, histVars
    <2>4. Says(h)'
      <3>1. CASE pc'[h] = "done"
        BY <3>1 DEF Says
      <3>2. CASE pc'[h] # "done"
        <4>1. PICK word \in Words[up] :
                task' = [task EXCEPT ![h] =
                           [task[h] EXCEPT !.status = NormalizeTaskStatus(word)]]
          BY <1>1, <1>12, <3>2 DEF PollUpstream, Goto, Took
        <4>2. task'[h].status = NormalizeTaskStatus(word)
          BY <1>1, <4>1 DEF Rows
        <4>3. QED
          BY <2>1, <2>3, <4>1, <4>2 DEF HonestWords, Says
      <3>3. QED
        BY <3>1, <3>2
    <2>5. \A g \in Handlers : Says(g)'
      BY <1>3, <2>2, <2>3, <2>4 DEF Says
    <2>6. Begun'
      BY <1>2, <1>3, <2>2, <2>3 DEF Begun
    <2>7. QED
      BY <2>3, <2>5, <2>6, TruthFrame
  <1>13. ASSUME UNCHANGED <<task, settles, refunds, submitted>>, UNCHANGED pc,
                isTerminalTaskStatus(up) => up' = up, up # "none" => up' # "none",
                up = "none" => up' = "none"
         PROVE  TruthInv'
    <2>1. \A g \in Handlers : Says(g)'
      BY <1>3, <1>13 DEF Says
    <2>2. Begun'
      BY <1>2, <1>3, <1>13 DEF Begun
    <2>3. Deserved'
      BY <1>2, <1>3, <1>13 DEF Deserved, isTerminalTaskStatus
    <2>4. QED
      BY <2>1, <2>2, <2>3 DEF TruthInv
  <1>14. ASSUME NEW h \in Handlers, CancelUpstream(h) PROVE TruthInv'
    <2>1. h \in FollowUps /\ up # "none" /\ pc'[h] \in {"markCanceled", "done"}
      BY <1>1, <1>4, <1>14 DEF CancelUpstream, FlowInv, Goto
    <2>2. /\ pc'[Creator] = pc[Creator]
          /\ \A g \in Handlers : g # h => pc'[g] = pc[g]
          /\ UNCHANGED <<task, settles, refunds, submitted, cancels>>
      BY <1>1, <1>14, <2>1 DEF CancelUpstream, Goto, closeVars, histVars
    <2>3. (isTerminalTaskStatus(up) => up' = up) /\ up' # "none"
      BY <1>14, <2>1 DEF CancelUpstream
    <2>4. \A g \in Handlers : Says(g)'
      BY <1>3, <2>1, <2>2, <2>3 DEF Says
    <2>5. Begun'
      BY <1>2, <1>3, <2>1, <2>2, <2>3 DEF Begun
    <2>6. cancels' # {}
      BY <1>14, <2>2 DEF CancelUpstream
    <2>7. Deserved'
      BY <1>3, <2>2, <2>3, <2>6 DEF Deserved, isTerminalTaskStatus
    <2>8. QED
      BY <2>4, <2>5, <2>7 DEF TruthInv
  <1>15. ASSUME NEW h \in Handlers, MarkPolled(h) PROVE TruthInv'
    <2>1. MarkedStatus(row, task[h].status, task[h].cost).status = task[h].status
      <3>1. task[h].status \in Statuses /\ task[h].cost \in {0, Total(Hold)}
        BY <1>1, <1>15, RowFields DEF MarkPolled, Knows
      <3>2. QED
        BY <1>1, <3>1, MarkedStatusIs
    <2>2. /\ pc'[h] \in {"finalize", "done"}
          /\ task'[h].status = task[h].status
          /\ \A g \in Handlers : g # h => pc'[g] = pc[g] /\ task'[g] = task[g]
      BY <1>1, <1>15, <2>1 DEF MarkPolled, Update, Goto, Took
    <2>3. UNCHANGED <<up, settles, refunds, submitted>> /\ h # Creator
      BY <1>15 DEF MarkPolled, closeVars, histVars, FlowInv
    <2>7. \A g \in Handlers : Says(g)'
      BY <1>3, <1>15, <2>2, <2>3 DEF Says, MarkPolled
    <2>8. Begun'
      BY <1>2, <1>3, <2>2, <2>3 DEF Begun
    <2>9. UNCHANGED <<up, settles, refunds>>
      BY <1>15 DEF MarkPolled, rowVars, closeVars
    <2>10. QED
      BY <2>7, <2>8, <2>9, TruthFrame
  <1>16. ASSUME NEW h \in Handlers, MarkCanceled(h) PROVE TruthInv'
    <2>2. /\ pc'[h] \in {"refund", "done"}
          /\ \A g \in Handlers : g # h => pc'[g] = pc[g] /\ task'[g] = task[g]
      BY <1>1, <1>16 DEF MarkCanceled, Update, Goto, Took
    <2>3. UNCHANGED <<up, settles, refunds, submitted>> /\ h # Creator
      BY <1>16 DEF MarkCanceled, closeVars, histVars, FlowInv
    <2>7. \A g \in Handlers : Says(g)'
      BY <1>3, <2>2, <2>3 DEF Says
    <2>8. Begun'
      BY <1>2, <1>3, <2>2, <2>3 DEF Begun
    <2>9. UNCHANGED <<up, settles, refunds>>
      BY <1>16 DEF MarkCanceled, rowVars, closeVars
    <2>10. QED
      BY <2>7, <2>8, <2>9, TruthFrame
  <1>17. ASSUME NEW h \in Handlers, subOf(h) PROVE TruthInv'
    <2>1. UNCHANGED <<up, task, submitted>>
      BY <1>17 DEF subOf, rowVars, histVars
    <2>2. /\ pc'[h] \in {"done", "enqueue", "script"}
          /\ \A g \in Handlers : g # h => pc'[g] = pc[g]
      BY <1>1, <1>17 DEF subOf, Goto
    <2>3. \A g \in Handlers : Says(g)'
      BY <1>3, <2>1, <2>2 DEF Says
    <2>4. Begun'
      <3>1. h # Creator => UNCHANGED <<settles, refunds>> \/ pc'[Creator] = "done"
        BY <1>4, <1>17, <2>2 DEF subOf
      <3>2. QED
        BY <1>2, <1>3, <2>1, <2>2, <3>1 DEF Begun
    <2>5. \/ UNCHANGED <<settles, refunds>>
          \/ pc[h] = "finalize" /\ Settling(h) /\ refunds' = refunds
          \/ settles' = settles /\ pc[h] = "finalize" /\ ~Settling(h)
          \/ settles' = settles /\ pc[h] = "refund"
      BY <1>17 DEF subOf
    <2>6. pc[h] = "finalize" => up = task[h].status /\ isTerminalTaskStatus(up)
      BY <1>1, <1>3 DEF Knows, Says
    <2>7. pc[h] = "refund" => up = "none" \/ Disturbed \/ cancels # {}
      BY <1>3 DEF Begun, FlowInv
    <2>8. Deserved'
      BY <1>2, <1>3, <2>1, <2>5, <2>6, <2>7 DEF Deserved, Settling, isTerminalTaskStatus
    <2>9. QED
      BY <2>3, <2>4, <2>8 DEF TruthInv
  <1>18. ASSUME NEW h \in Handlers, RefundScript(h) PROVE TruthInv'
    <2>7. \A g \in Handlers : Says(g)'
      BY <1>1, <1>3, <1>18 DEF Says, RefundScript, Goto, rowVars
    <2>8. Begun'
      BY <1>1, <1>2, <1>3, <1>4, <1>18
         DEF Begun, FlowInv, RefundScript, Goto, rowVars, closeVars, histVars
    <2>9. UNCHANGED <<up, settles, refunds>>
      BY <1>18 DEF RefundScript, rowVars, closeVars
    <2>10. QED
      BY <2>7, <2>8, <2>9, TruthFrame
  <1>19. ASSUME NEW h \in Handlers, EnqueueBillingLog(h) PROVE TruthInv'
    <2>7. \A g \in Handlers : Says(g)'
      BY <1>1, <1>3, <1>19 DEF Says, EnqueueBillingLog, Goto, rowVars, AfterClosing
    <2>8. Begun'
      BY <1>1, <1>2, <1>3, <1>4, <1>19
         DEF Begun, FlowInv, EnqueueBillingLog, Goto, rowVars, closeVars,
             histVars, AfterClosing
    <2>9. UNCHANGED <<up, settles, refunds>>
      BY <1>19 DEF EnqueueBillingLog, rowVars, closeVars
    <2>10. QED
      BY <2>7, <2>8, <2>9, TruthFrame
  <1>20. ASSUME NEW h \in Handlers, InsertSettlementOutbox(h) PROVE TruthInv'
    <2>7. \A g \in Handlers : Says(g)'
      BY <1>1, <1>3, <1>20 DEF Says, InsertSettlementOutbox, Goto, rowVars, AfterClosing
    <2>8. Begun'
      BY <1>1, <1>2, <1>3, <1>4, <1>20
         DEF Begun, FlowInv, InsertSettlementOutbox, Goto, rowVars, closeVars,
             histVars, AfterClosing
    <2>9. UNCHANGED <<up, settles, refunds>>
      BY <1>20 DEF InsertSettlementOutbox, rowVars, closeVars
    <2>10. QED
      BY <2>7, <2>8, <2>9, TruthFrame
  <1>21. ASSUME NEW h \in Handlers, MarkCost(h) PROVE TruthInv'
    <2>2. /\ pc'[h] = "done"
          /\ \A g \in Handlers : g # h => pc'[g] = pc[g] /\ task'[g] = task[g]
      BY <1>1, <1>21 DEF MarkCost, Update, Goto, Took
    <2>3. UNCHANGED <<up, settles, refunds, submitted>>
      BY <1>21 DEF MarkCost, closeVars, histVars
    <2>7. \A g \in Handlers : Says(g)'
      BY <1>3, <2>2, <2>3 DEF Says
    <2>8. Begun'
      BY <1>2, <1>3, <2>2, <2>3 DEF Begun
    <2>9. UNCHANGED <<up, settles, refunds>>
      BY <1>21 DEF MarkCost, rowVars, closeVars
    <2>10. QED
      BY <2>7, <2>8, <2>9, TruthFrame
  <1>22. ASSUME NEW h \in FollowUps, GetAsyncTaskByIDAndUser(h) PROVE TruthInv'
    <2>2. /\ pc'[h] \in {"lookup", "markCanceled", "done"}
          /\ \A g \in Handlers : g # h => pc'[g] = pc[g] /\ task'[g] = task[g]
      BY <1>1, <1>22 DEF GetAsyncTaskByIDAndUser, getAsyncTaskByIDAndUser, Goto, Took
    <2>3. UNCHANGED <<up, settles, refunds, submitted>>
      BY <1>22 DEF GetAsyncTaskByIDAndUser, closeVars, rowVars
    <2>7. \A g \in Handlers : Says(g)'
      BY <1>3, <2>2, <2>3 DEF Says
    <2>8. Begun'
      BY <1>2, <1>3, <2>2, <2>3 DEF Begun
    <2>9. UNCHANGED <<up, settles, refunds>>
      BY <1>22 DEF GetAsyncTaskByIDAndUser, rowVars, closeVars
    <2>10. QED
      BY <2>7, <2>8, <2>9, TruthFrame
  <1>23. ASSUME UpstreamWorks PROVE TruthInv'
    <2>1. (isTerminalTaskStatus(up) => up' = up) /\ up # "none" /\ up' # "none"
      BY <1>23 DEF UpstreamWorks, isTerminalTaskStatus
    <2>2. QED
      BY <1>13, <1>23, <2>1 DEF UpstreamWorks, closeVars, histVars
  <1>24. ASSUME NEW h \in Handlers, HangUp(h) PROVE TruthInv'
    BY <1>13, <1>24 DEF HangUp, rowVars, closeVars, histVars
  <1>25. ASSUME Crash PROVE TruthInv'
    <2>1. \A g \in Handlers : pc'[g] = pc[g] \/ pc'[g] = "crashed"
      BY <1>1, <1>25 DEF Crash
    <2>2. UNCHANGED <<up, task, settles, refunds, submitted>>
      BY <1>25 DEF Crash, rowVars, closeVars, histVars
    <2>3. \A g \in Handlers : Says(g)'
      BY <1>3, <2>1, <2>2 DEF Says
    <2>4. Begun'
      BY <1>2, <1>3, <2>1, <2>2 DEF Begun
    <2>5. QED
      BY <2>2, <2>3, <2>4, TruthFrame
  <1>26. ASSUME UNCHANGED vars PROVE TruthInv'
    BY <1>13, <1>26 DEF vars, rowVars, closeVars, histVars
  <1>27. QED
    BY <1>5, <1>6, <1>7, <1>8, <1>9, <1>10, <1>11, <1>12, <1>14, <1>15, <1>16, <1>17,
       <1>18, <1>19, <1>20, <1>21, <1>22, <1>23, <1>24, <1>25, <1>26
       DEF Next, CreatorStep, HandlerStep

(* Where upstreams are honest, the client is charged only for a task that  *)
(* succeeded, and one that succeeded is given away only to a cancel or     *)
(* after a failure, with any number of handlers at once.                   *)
THEOREM AlwaysPaidForResult ==
  ASSUME HonestWords
  PROVE  Spec => []PaidForResult
  <1>1. TypeInv /\ FlowInv /\ TruthInv /\ [Next]_vars => TruthInv'
    BY TruthNext
  <1>2. TruthInv => PaidForResult
    BY DEF TruthInv, Deserved, PaidForResult
  <1>3. QED
    BY <1>1, <1>2, FlowInit, FlowNext, TypeInit, TypeNext, TruthInit, PTL DEF Spec

-----------------------------------------------------------------------------
(* Back to its pools.  As long as nothing failed, the sub share is in the  *)
(* row once the creator has written it, a refund reads it from there, and  *)
(* a closing that is handed over as a refund comes after a whole refund.   *)
Share(h) ==
  /\ pc[h] # "outbox"
  /\ pc[h] = "script" => sub[h] = Hold["sub"]
  /\ pc[h] = "enqueue" /\ ~Settling(h) => purse = Hold

Smooth ==
  /\ pc[Creator] \notin {"insert", "saveSub"} => row.sub = Hold["sub"]
  /\ \A h \in Handlers : Share(h)
  /\ "refund" \in handed => purse = Hold

PurseInv ==
  ~overlapped =>
    /\ \A p \in PoolNames : purse[p] <= Hold[p]
    /\ ~Disturbed => Smooth

LEMMA PurseInit == Init => PurseInv
  <1> SUFFICES ASSUME Init PROVE PurseInv
    OBVIOUS
  <1>1. \A h \in Handlers : pc[h] = IF h = Creator THEN "insert" ELSE "idle"
    BY DEF Init
  <1>2. \A p \in PoolNames : purse[p] <= Hold[p]
    <2>1. \A p \in PoolNames : Hold[p] \in Nat
      BY AsyncAssumption DEF Deductions
    <2>2. \A p \in PoolNames : purse[p] = 0
      BY DEF Init, NoDeduction
    <2>3. ASSUME NEW p \in PoolNames PROVE purse[p] <= Hold[p]
      <3>1. Hold[p] \in Nat /\ purse[p] = 0
        BY <2>1, <2>2
      <3>2. QED
        BY <3>1
    <2>4. QED
      BY <2>3
  <1>3. Smooth
    BY <1>1, Who DEF Init, Smooth, Share
  <1>4. QED
    BY <1>2, <1>3 DEF PurseInv

LEMMA PurseNext ==
  ASSUME TypeInv, FlowInv, AloneInv, PurseInv, [Next]_vars
  PROVE  PurseInv'
  <1>0. FlowInv' /\ TypeInv' /\ AloneInv'
    BY FlowNext, TypeNext, AloneNext
  <1>1. /\ row \in Rows /\ task \in [Handlers -> Rows] /\ pc \in [Handlers -> PCs]
        /\ sub \in [Handlers -> {0, Hold["sub"]}]
        /\ \A h \in Handlers : task[h] \in Rows
    BY DEF TypeInv, TypeOK, FlowInv
  <1>2. /\ Disturbed => Disturbed'
        /\ \A h \in Handlers : Err(h) /\ UNCHANGED gone => Disturbed'
    BY Monotone
  <1>3. SUFFICES ASSUME ~overlapped' PROVE PurseInv'
    BY DEF PurseInv
  <1>4. ~overlapped
    BY <1>3 DEF Next, CreatorStep, HandlerStep, vars, histVars, CreateAsyncTask,
       SetAsyncTaskSubDeducted, PickChannel, SubmitTask, MarkAsyncTaskSubmitted,
       failTaskAndRefund, GetChannelByID, PollUpstream, CancelUpstream, MarkPolled,
       MarkCanceled, subOf, RefundScript, EnqueueBillingLog, InsertSettlementOutbox,
       MarkCost, GetAsyncTaskByIDAndUser, UpstreamWorks, HangUp, Crash
  <1>5. /\ \A p \in PoolNames : purse[p] <= Hold[p]
        /\ ~Disturbed' => ~Disturbed /\ Smooth
    BY <1>2, <1>4 DEF PurseInv
  <1>6. \A h \in Handlers : Turn(h) /\ Knows(h)
    BY <1>4 DEF AloneInv, TypeInv
  <1> USE Who
  (* A step that leaves the purse alone need only keep the rest in order.   *)
  <1>7. ASSUME UNCHANGED purse, ~Disturbed' => Smooth' PROVE PurseInv'
    BY <1>5, <1>7 DEF PurseInv
  (* One that leaves the closing and the sub share alone does.              *)
  <1>8. ASSUME UNCHANGED <<purse, handed, sub>>, row'.sub = row.sub,
               pc[Creator] \in {"insert", "saveSub"} => pc'[Creator] = pc[Creator],
               \A h \in Handlers : \/ pc'[h] \notin {"script", "enqueue", "outbox"}
                                   \/ pc'[h] = pc[h] /\ task'[h] = task[h]
        PROVE  PurseInv'
    <2>1. ASSUME ~Disturbed' PROVE Smooth'
      <3>1. \A h \in Handlers : Share(h)'
        BY <1>5, <1>8, <2>1 DEF Smooth, Share, Settling
      <3>2. pc'[Creator] \notin {"insert", "saveSub"} => row'.sub = Hold["sub"]
        BY <1>5, <1>8, <2>1 DEF Smooth
      <3>3. QED
        BY <1>5, <1>8, <2>1, <3>1, <3>2 DEF Smooth
    <2>2. QED
      BY <1>7, <1>8, <2>1
  <1>9. ASSUME CreateAsyncTask PROVE PurseInv'
    <2>1. UNCHANGED <<purse, handed, gone>>
      BY <1>9 DEF CreateAsyncTask, closeVars
    <2>2. \A h \in Handlers : h # Creator => pc'[h] = "idle"
      BY <1>1, <1>9 DEF CreateAsyncTask, Update, Goto, FlowInv
    <2>3. ASSUME ~Disturbed' PROVE Smooth'
      <3>1. row' = NewTask /\ pc'[Creator] = IF Hold["sub"] > 0 THEN "saveSub" ELSE "channel"
        BY <1>1, <1>2, <1>9, <2>1, <2>3 DEF CreateAsyncTask, Update, Goto
      <3>2. Hold["sub"] \in Nat
        BY AsyncAssumption DEF Deductions, PoolNames
      <3>3. pc'[Creator] # "saveSub" => row'.sub = Hold["sub"]
        BY <3>1, <3>2, NewRows
      <3>4. \A h \in Handlers : Share(h)'
        BY <2>2, <3>1 DEF Share
      <3>5. QED
        BY <1>5, <2>1, <2>3, <3>3, <3>4 DEF Smooth
    <2>4. QED
      BY <1>7, <2>1, <2>3
  <1>10. ASSUME SetAsyncTaskSubDeducted PROVE PurseInv'
    <2>1. UNCHANGED <<purse, handed, gone>>
      BY <1>10 DEF SetAsyncTaskSubDeducted, closeVars
    <2>2. /\ pc'[Creator] = "channel"
          /\ \A h \in Handlers : h # Creator => pc'[h] = "idle"
      BY <1>1, <1>10 DEF SetAsyncTaskSubDeducted, Goto, FlowInv
    <2>3. ASSUME ~Disturbed' PROVE Smooth'
      <3>1. row' = SubDeducted(row)
        BY <1>2, <1>10, <2>1, <2>3 DEF SetAsyncTaskSubDeducted
      <3>2. row'.sub = Hold["sub"]
        BY <1>1, <3>1, SubDeductedIs
      <3>3. \A h \in Handlers : Share(h)'
        BY <2>2 DEF Share
      <3>4. QED
        BY <1>5, <2>1, <2>3, <3>2, <3>3 DEF Smooth
    <2>4. QED
      BY <1>7, <2>1, <2>3
  <1>11. ASSUME PickChannel PROVE PurseInv'
    <2>2. row'.sub = row.sub
      BY <1>11 DEF PickChannel, rowVars
    <2>3. UNCHANGED <<purse, handed, sub>>
      BY <1>11 DEF PickChannel, closeVars
    <2>4. /\ pc[Creator] \notin {"insert", "saveSub"}
          /\ pc'[Creator] \notin {"script", "enqueue", "outbox"}
          /\ \A g \in Handlers : g # Creator => pc'[g] = pc[g] /\ task'[g] = task[g]
      BY <1>1, <1>11 DEF PickChannel, Goto, Took
    <2>5. QED
      BY <1>8, <2>2, <2>3, <2>4
  <1>12. ASSUME SubmitTask PROVE PurseInv'
    <2>2. row'.sub = row.sub
      BY <1>12 DEF SubmitTask, rowVars
    <2>3. UNCHANGED <<purse, handed, sub>>
      BY <1>12 DEF SubmitTask, closeVars
    <2>4. /\ pc[Creator] \notin {"insert", "saveSub"}
          /\ pc'[Creator] \notin {"script", "enqueue", "outbox"}
          /\ \A g \in Handlers : g # Creator => pc'[g] = pc[g] /\ task'[g] = task[g]
      BY <1>1, <1>12 DEF SubmitTask, Goto, Took
    <2>5. QED
      BY <1>8, <2>2, <2>3, <2>4
  <1>13. ASSUME MarkAsyncTaskSubmitted PROVE PurseInv'
    <2>1. MarkedSubmitted(row, task[Creator]).sub = row.sub
      BY <1>1, MarkedSubmittedIs
    <2>2. row'.sub = row.sub
      BY <1>13, <2>1 DEF MarkAsyncTaskSubmitted
    <2>3. UNCHANGED <<purse, handed, sub>>
      BY <1>13 DEF MarkAsyncTaskSubmitted, closeVars
    <2>4. /\ pc[Creator] \notin {"insert", "saveSub"}
          /\ pc'[Creator] \notin {"script", "enqueue", "outbox"}
          /\ \A g \in Handlers : g # Creator => pc'[g] = pc[g] /\ task'[g] = task[g]
      BY <1>1, <1>13 DEF MarkAsyncTaskSubmitted, Goto, Took
    <2>5. QED
      BY <1>8, <2>2, <2>3, <2>4
  <1>14. ASSUME failTaskAndRefund PROVE PurseInv'
    <2>1. MarkedStatus(row, "failed", 0).sub = row.sub
      BY <1>1, MarkedStatusIs DEF Statuses, UpStates
    <2>2. row'.sub = row.sub
      BY <1>14, <2>1 DEF failTaskAndRefund, Update
    <2>3. UNCHANGED <<purse, handed, sub>>
      BY <1>14 DEF failTaskAndRefund, closeVars
    <2>4. /\ pc[Creator] \notin {"insert", "saveSub"}
          /\ pc'[Creator] \notin {"script", "enqueue", "outbox"}
          /\ \A g \in Handlers : g # Creator => pc'[g] = pc[g] /\ task'[g] = task[g]
      BY <1>1, <1>14 DEF failTaskAndRefund, Goto, Took, Update
    <2>5. QED
      BY <1>8, <2>2, <2>3, <2>4
  <1>15. ASSUME NEW h \in Handlers, GetChannelByID(h) PROVE PurseInv'
    <2>2. row'.sub = row.sub
      BY <1>15 DEF GetChannelByID, rowVars
    <2>3. UNCHANGED <<purse, handed, sub>>
      BY <1>15 DEF GetChannelByID, closeVars
    <2>4. /\ pc[h] \notin {"insert", "saveSub"}
          /\ pc'[h] \notin {"script", "enqueue", "outbox"}
          /\ \A g \in Handlers : g # h => pc'[g] = pc[g] /\ task'[g] = task[g]
      BY <1>1, <1>15 DEF GetChannelByID, Goto, Took
    <2>5. QED
      BY <1>8, <2>2, <2>3, <2>4
  <1>16. ASSUME NEW h \in Handlers, PollUpstream(h) PROVE PurseInv'
    <2>2. row'.sub = row.sub
      BY <1>16 DEF PollUpstream, rowVars
    <2>3. UNCHANGED <<purse, handed, sub>>
      BY <1>16 DEF PollUpstream, closeVars
    <2>4. /\ pc[h] \notin {"insert", "saveSub"}
          /\ pc'[h] \notin {"script", "enqueue", "outbox"}
          /\ \A g \in Handlers : g # h => pc'[g] = pc[g] /\ task'[g] = task[g]
      BY <1>1, <1>16 DEF PollUpstream, Goto, Took
    <2>5. QED
      BY <1>8, <2>2, <2>3, <2>4
  <1>17. ASSUME NEW h \in Handlers, CancelUpstream(h) PROVE PurseInv'
    <2>2. row'.sub = row.sub
      BY <1>17 DEF CancelUpstream, rowVars
    <2>3. UNCHANGED <<purse, handed, sub>>
      BY <1>17 DEF CancelUpstream, closeVars
    <2>4. /\ pc[h] \notin {"insert", "saveSub"}
          /\ pc'[h] \notin {"script", "enqueue", "outbox"}
          /\ \A g \in Handlers : g # h => pc'[g] = pc[g] /\ task'[g] = task[g]
      BY <1>1, <1>17 DEF CancelUpstream, Goto, Took
    <2>5. QED
      BY <1>8, <2>2, <2>3, <2>4
  <1>18. ASSUME NEW h \in Handlers, MarkPolled(h) PROVE PurseInv'
    <2>1. MarkedStatus(row, task[h].status, task[h].cost).sub = row.sub
      <3>1. task[h].status \in Statuses /\ task[h].cost \in {0, Total(Hold)}
        BY <1>1, <1>6, <1>18, RowFields DEF MarkPolled, Knows
      <3>2. QED
        BY <1>1, <3>1, MarkedStatusIs
    <2>2. row'.sub = row.sub
      BY <1>18, <2>1 DEF MarkPolled, Update
    <2>3. UNCHANGED <<purse, handed, sub>>
      BY <1>18 DEF MarkPolled, closeVars
    <2>4. /\ pc[h] \notin {"insert", "saveSub"}
          /\ pc'[h] \notin {"script", "enqueue", "outbox"}
          /\ \A g \in Handlers : g # h => pc'[g] = pc[g] /\ task'[g] = task[g]
      BY <1>1, <1>18 DEF MarkPolled, Goto, Took, Update
    <2>5. QED
      BY <1>8, <2>2, <2>3, <2>4
  <1>19. ASSUME NEW h \in Handlers, MarkCanceled(h) PROVE PurseInv'
    <2>1. MarkedStatus(row, "canceled", task[h].cost).sub = row.sub
      BY <1>1, RowFields, MarkedStatusIs DEF Statuses, UpStates
    <2>2. row'.sub = row.sub
      BY <1>19, <2>1 DEF MarkCanceled, Update
    <2>3. UNCHANGED <<purse, handed, sub>>
      BY <1>19 DEF MarkCanceled, closeVars
    <2>4. /\ pc[h] \notin {"insert", "saveSub"}
          /\ pc'[h] \notin {"script", "enqueue", "outbox"}
          /\ \A g \in Handlers : g # h => pc'[g] = pc[g] /\ task'[g] = task[g]
      BY <1>1, <1>19 DEF MarkCanceled, Goto, Took, Update
    <2>5. QED
      BY <1>8, <2>2, <2>3, <2>4
  <1>20. ASSUME NEW h \in Handlers, subOf(h) PROVE PurseInv'
    <2>1. UNCHANGED <<row, task, purse, handed, gone>>
      BY <1>20 DEF subOf, rowVars
    <2>2. /\ pc[Creator] \notin {"insert", "saveSub"}
          /\ \A g \in Handlers : g # h => pc'[g] = pc[g] /\ sub'[g] = sub[g]
      BY <1>1, <1>20 DEF subOf, Goto, FlowInv
    <2>3. ASSUME ~Disturbed' PROVE Smooth'
      <3>1. /\ pc'[h] \in {"done", "enqueue", "script"}
            /\ pc'[h] = "enqueue" => Settling(h)
            /\ pc'[h] = "script" => sub'[h] = row.sub
        BY <1>1, <1>2, <1>20, <2>1, <2>3 DEF subOf, Goto
      <3>2. row.sub = Hold["sub"]
        BY <1>5, <2>2, <2>3 DEF Smooth
      <3>3. \A g \in Handlers : Share(g)'
        BY <1>5, <2>1, <2>2, <2>3, <3>1, <3>2 DEF Smooth, Share, Settling
      <3>4. QED
        BY <1>5, <2>1, <2>2, <2>3, <3>2, <3>3 DEF Smooth
    <2>4. QED
      BY <1>7, <2>1, <2>3
  <1>21. ASSUME NEW h \in Handlers, RefundScript(h) PROVE PurseInv'
    <2>1. UNCHANGED <<row, task, sub, handed, gone>>
      BY <1>21 DEF RefundScript, rowVars
    <2>2. /\ purse = NoDeduction /\ handed = {} /\ pc[Creator] \notin {"insert", "saveSub"}
          /\ pc'[h] = "enqueue"
          /\ \A g \in Handlers : g # h => pc'[g] = pc[g]
      BY <1>1, <1>6, <1>21 DEF RefundScript, Turn, Goto, FlowInv
    <2>3. \A p \in PoolNames : Given(h)[p] \in Nat /\ Given(h)[p] <= Hold[p] /\ Hold[p] \in Nat
      BY GivenIs, AsyncAssumption DEF TypeInv, Deductions
    <2>4. \A p \in PoolNames : purse[p] = 0 /\ Credited(h)[p] = Given(h)[p]
      BY <2>2, <2>3 DEF NoDeduction, Credited
    <2>5. \A p \in PoolNames : purse'[p] <= Hold[p]
      BY <1>21, <2>3, <2>4 DEF RefundScript
    <2>6. ASSUME ~Disturbed' PROVE Smooth'
      <3>1. purse' = Credited(h) /\ sub[h] = Hold["sub"]
        BY <1>2, <1>5, <1>21, <2>1, <2>6 DEF RefundScript, Smooth, Share
      <3>2. Given(h) = Hold /\ Hold \in [PoolNames -> Nat]
        BY <3>1, GivenIs, AsyncAssumption DEF TypeInv, Deductions
      <3>3. Credited(h) = Hold
        BY <2>4, <3>2 DEF Credited
      <3>4. purse' = Hold
        BY <3>1, <3>3
      <3>5. \A g \in Handlers : Share(g)'
        BY <1>5, <2>1, <2>2, <2>6, <3>4 DEF Smooth, Share, Settling
      <3>6. QED
        BY <1>5, <2>1, <2>2, <2>6, <3>4, <3>5 DEF Smooth
    <2>7. QED
      BY <2>5, <2>6 DEF PurseInv
  <1>22. ASSUME NEW h \in Handlers, EnqueueBillingLog(h) PROVE PurseInv'
    <2>1. UNCHANGED <<row, task, sub, purse, gone>>
      BY <1>22 DEF EnqueueBillingLog, rowVars
    <2>2. /\ pc[h] = "enqueue" /\ pc[Creator] \notin {"insert", "saveSub"}
          /\ \A g \in Handlers : g # h => pc'[g] = pc[g]
      BY <1>1, <1>22 DEF EnqueueBillingLog, Goto, FlowInv
    <2>3. ASSUME ~Disturbed' PROVE Smooth'
      <3>1. handed' = handed \cup {Kind(h)} /\ pc'[h] \in {"markCost", "done"}
        BY <1>1, <1>2, <1>22, <2>1, <2>3 DEF EnqueueBillingLog, Goto, AfterClosing
      <3>2. Kind(h) = "refund" => purse = Hold
        BY <1>5, <2>2, <2>3 DEF Kind, Smooth, Share
      <3>3. \A g \in Handlers : Share(g)'
        BY <1>5, <2>1, <2>2, <2>3, <3>1 DEF Smooth, Share, Settling
      <3>4. QED
        BY <1>5, <2>1, <2>2, <2>3, <3>1, <3>2, <3>3 DEF Smooth
    <2>4. QED
      BY <1>7, <2>1, <2>3
  <1>23. ASSUME NEW h \in Handlers, InsertSettlementOutbox(h) PROVE PurseInv'
    <2>1. UNCHANGED <<row, task, sub, purse, gone>>
      BY <1>23 DEF InsertSettlementOutbox, rowVars
    <2>2. /\ pc[h] = "outbox" /\ pc[Creator] \notin {"insert", "saveSub"}
          /\ \A g \in Handlers : g # h => pc'[g] = pc[g]
      BY <1>1, <1>23 DEF InsertSettlementOutbox, Goto, FlowInv
    <2>3. ASSUME ~Disturbed' PROVE Smooth'
      BY <1>5, <2>2, <2>3 DEF Smooth, Share
    <2>4. QED
      BY <1>7, <2>1, <2>3
  <1>24. ASSUME NEW h \in Handlers, MarkCost(h) PROVE PurseInv'
    <2>1. MarkedStatus(row, task[h].status, Total(Hold)).sub = row.sub
      <3>1. task[h].status \in Statuses
        BY <1>6, <1>24 DEF MarkCost, Knows, Settling, Statuses, UpStates
      <3>2. QED
        BY <1>1, <3>1, MarkedStatusIs
    <2>2. row'.sub = row.sub
      BY <1>24, <2>1 DEF MarkCost, Update
    <2>3. UNCHANGED <<purse, handed, sub>>
      BY <1>24 DEF MarkCost, closeVars
    <2>4. /\ pc[h] \notin {"insert", "saveSub"}
          /\ pc'[h] \notin {"script", "enqueue", "outbox"}
          /\ \A g \in Handlers : g # h => pc'[g] = pc[g] /\ task'[g] = task[g]
      BY <1>1, <1>24 DEF MarkCost, Goto, Took, Update
    <2>5. QED
      BY <1>8, <2>2, <2>3, <2>4
  <1>25. ASSUME NEW h \in FollowUps, GetAsyncTaskByIDAndUser(h) PROVE PurseInv'
    <2>2. row'.sub = row.sub
      BY <1>25 DEF GetAsyncTaskByIDAndUser, rowVars
    <2>3. UNCHANGED <<purse, handed, sub>>
      BY <1>25 DEF GetAsyncTaskByIDAndUser, closeVars
    <2>4. /\ pc[h] \notin {"insert", "saveSub"}
          /\ pc'[h] \notin {"script", "enqueue", "outbox"}
          /\ \A g \in Handlers : g # h => pc'[g] = pc[g] /\ task'[g] = task[g]
      BY <1>1, <1>25 DEF GetAsyncTaskByIDAndUser, Goto, Took, getAsyncTaskByIDAndUser
    <2>5. QED
      BY <1>8, <2>2, <2>3, <2>4
  <1>26. ASSUME UpstreamWorks PROVE PurseInv'
    BY <1>8, <1>26 DEF UpstreamWorks, closeVars
  <1>27. ASSUME NEW h \in Handlers, HangUp(h) PROVE PurseInv'
    <2>1. Disturbed' /\ UNCHANGED purse
      BY <1>27 DEF HangUp, Disturbed, closeVars
    <2>2. QED
      BY <1>7, <2>1
  <1>28. ASSUME Crash PROVE PurseInv'
    <2>1. Disturbed' /\ UNCHANGED purse
      BY <1>28 DEF Crash, Disturbed, closeVars, TypeInv, TypeOK
    <2>2. QED
      BY <1>7, <2>1
  <1>29. ASSUME UNCHANGED vars PROVE PurseInv'
    BY <1>8, <1>29 DEF vars, rowVars, closeVars
  <1>30. QED
    BY <1>9, <1>10, <1>11, <1>12, <1>13, <1>14, <1>15, <1>16, <1>17, <1>18,
       <1>19, <1>20,
       <1>21, <1>22, <1>23, <1>24, <1>25, <1>26, <1>27, <1>28, <1>29
       DEF Next, CreatorStep, HandlerStep

(* As long as no two handlers overlap, a refund puts every share back into *)
(* the pool it came from: never more than was taken, and nothing is        *)
(* missing unless something failed.                                        *)
THEOREM AlwaysBackToItsPools == Spec => []BackToItsPools
  <1>1. TypeInv /\ FlowInv /\ AloneInv /\ PurseInv /\ [Next]_vars => PurseInv'
    BY PurseNext
  <1>2. PurseInv => BackToItsPools
    BY DEF PurseInv, Smooth, BackToItsPools
  <1>3. QED
    BY <1>1, <1>2, FlowInit, FlowNext, TypeInit, TypeNext, AloneInit, AloneNext,
       PurseInit, PTL DEF Spec
=============================================================================
