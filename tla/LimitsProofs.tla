---------------------------- MODULE LimitsProofs ----------------------------
(***************************************************************************)
(* Proofs about the two kinds of limit.                                    *)
(*                                                                         *)
(* ModelConcurrency, for any finite number of requests, any limit and any  *)
(* number of failures: the counter never holds a place for nobody, and the *)
(* limit is passed only by what the counter has forgotten and by requests  *)
(* that were let through on a Redis error.                                 *)
(*                                                                         *)
(* Access, for any tiers, limits, window and keys: any Window ticks count  *)
(* at most what two windows may, and a withdrawn key lets nobody in.       *)
(***************************************************************************)
EXTENDS ModelConcurrency, Access, PoolsProofs

-----------------------------------------------------------------------------
(* The concurrency limit.                                                  *)

(* Requests that hold a place, or will once they compared. *)
Under == {r \in Claiming : current[r] <= Limit}

(* The strengthening of LimitRespected: not only the running requests but  *)
(* all whose INCR answered within the limit are counted against it, since  *)
(* each of them will run whatever happens to the counter before.           *)
SlotInv ==
  /\ TypeOK
  /\ NoLeakedSlot
  /\ \A r \in Requests : pc[r] = "holding" => current[r] <= Limit
  /\ Cardinality(Under) - Limit <= Cardinality(Claiming) + leaked - count

LEMMA SlotSets ==
  /\ IsFiniteSet(Claiming) /\ Cardinality(Claiming) \in Nat
  /\ IsFiniteSet(Under) /\ Cardinality(Under) \in Nat
  /\ Cardinality(Under) <= Cardinality(Claiming)
  <1>1. Claiming \in SUBSET Requests /\ Under \in SUBSET Claiming
    BY DEF Claiming, Under
  <1>2. IsFiniteSet(Claiming)
    BY <1>1, ConcurrencyAssumption, FS_Subset
  <1>3. QED
    BY <1>1, <1>2, FS_Subset, FS_CardinalityType

LEMMA SlotInit == Init => SlotInv
  <1> SUFFICES ASSUME Init PROVE SlotInv
    OBVIOUS
  <1>1. Claiming = {} /\ Under = {}
    BY DEF Init, Claiming, Under
  <1>2. Cardinality(Claiming) = 0 /\ Cardinality(Under) = 0
    BY <1>1, FS_EmptySet
  <1>3. QED
    BY <1>2, ConcurrencyAssumption DEF Init, SlotInv, TypeOK, PCs, NoLeakedSlot

LEMMA SlotType == TypeOK /\ [Next]_vars => TypeOK'
  <1> SUFFICES ASSUME TypeOK, [Next]_vars PROVE TypeOK'
    OBVIOUS
  <1> USE ConcurrencyAssumption DEF TypeOK, PCs
  <1>1. ASSUME NEW r \in Requests, RequestStep(r) PROVE TypeOK'
    BY <1>1 DEF RequestStep, Incr, IncrFails, Expire, ExpireFails, Undo, Decr,
                DecrFails, Del, Finish, Add, Goto, Fault
  <1>2. CASE Crash
    <2>1. PICK S \in SUBSET Requests :
            /\ leaked' = leaked + Cardinality(S \cap Claiming)
            /\ pc' = [r \in Requests |-> IF r \in S THEN "idle" ELSE pc[r]]
      BY <1>2 DEF Crash
    <2>2. Cardinality(S \cap Claiming) \in Nat
      BY SlotSets, FS_Subset, FS_CardinalityType
    <2>3. QED
      BY <1>2, <2>1, <2>2 DEF Crash, Fault
  <1>3. CASE Tick \/ UNCHANGED vars
    BY <1>3 DEF Tick, vars
  <1>4. QED
    BY <1>1, <1>2, <1>3 DEF Next

(* A request leaves its place, and the counter goes down or the place is   *)
(* counted as lost.                                                        *)
LEMMA LeavePlace ==
  ASSUME SlotInv, TypeOK', NEW r \in Requests,
         pc[r] \in {"expire", "undo", "holding"}, current' = current,
         pc' \in {[pc EXCEPT ![r] = where] : where \in {"idle", "unlimited", "del"}},
         count' = count + leaked' - leaked - 1
  PROVE  SlotInv'
  <1> USE DEF SlotInv, TypeOK
  <1>1. r \in Claiming
    BY DEF Claiming
  <1>2. /\ Claiming' = Claiming \ {r}
        /\ Under' = Under \ {r}
    BY DEF Claiming, Under
  <1>3. Cardinality(Claiming') = Cardinality(Claiming) - 1
    BY <1>1, <1>2, SlotSets, FS_RemoveElement
  <1>4. Cardinality(Under') \in Nat /\ Cardinality(Under') <= Cardinality(Under)
    BY <1>2, SlotSets, FS_Subset, FS_CardinalityType
  <1>5. /\ Cardinality(Claiming) \in Nat /\ Cardinality(Under) \in Nat
        /\ Limit \in Nat
    BY SlotSets, ConcurrencyAssumption
  <1>6. NoLeakedSlot'
    BY <1>3, <1>5 DEF NoLeakedSlot
  <1>7. Cardinality(Under') - Limit <= Cardinality(Claiming') + leaked' - count'
    BY <1>3, <1>4, <1>5
  <1>8. \A q \in Requests : pc'[q] = "holding" => current'[q] <= Limit
    OBVIOUS
  <1>9. QED
    BY <1>6, <1>7, <1>8

(* No place changes hands. *)
LEMMA KeepPlaces ==
  ASSUME SlotInv, TypeOK', Claiming' = Claiming, current' = current,
         \A r \in Requests : pc'[r] = "holding" => current[r] <= Limit,
         count' = count + leaked' - leaked \/ (count' = 0 /\ leaked' = leaked)
  PROVE  SlotInv'
  <1> USE DEF SlotInv, TypeOK
  <1>1. Under' = Under
    BY DEF Under
  <1>2. /\ Cardinality(Claiming) \in Nat /\ Cardinality(Under) \in Nat
        /\ Cardinality(Under) <= Cardinality(Claiming)
        /\ Limit \in Nat
    BY SlotSets, ConcurrencyAssumption
  <1>3. /\ Cardinality(Claiming') = Cardinality(Claiming)
        /\ Cardinality(Under') = Cardinality(Under)
    BY <1>1
  <1>4. /\ count' <= Cardinality(Claiming') + leaked'
        /\ Cardinality(Under') - Limit <= Cardinality(Claiming') + leaked' - count'
    <2>1. /\ count <= Cardinality(Claiming) + leaked
          /\ count \in Int /\ count' \in Int /\ leaked \in Nat /\ leaked' \in Nat
      BY DEF NoLeakedSlot
    <2>2. CASE count' = count + leaked' - leaked
      BY <1>2, <1>3, <2>1, <2>2
    <2>3. CASE count' = 0 /\ leaked' = leaked
      BY <1>2, <1>3, <2>1, <2>3
    <2>4. QED
      BY <2>2, <2>3
  <1>5. QED
    BY <1>4 DEF NoLeakedSlot

LEMMA SlotNext == SlotInv /\ [Next]_vars => SlotInv'
  <1> SUFFICES ASSUME SlotInv, [Next]_vars PROVE SlotInv'
    OBVIOUS
  <1>0. TypeOK'
    BY SlotType DEF SlotInv
  <1> USE DEF SlotInv, TypeOK
  <1>1. ASSUME NEW r \in Requests, Incr(r) PROVE SlotInv'
    <2>1. r \notin Claiming /\ r \notin Under
      BY <1>1 DEF Incr, Claiming, Under
    <2>2. /\ Claiming' = Claiming \cup {r}
          /\ Under' = IF count + 1 <= Limit THEN Under \cup {r} ELSE Under
      BY <1>1, <2>1 DEF Incr, Goto, Claiming, Under
    <2>3. Cardinality(Claiming') = Cardinality(Claiming) + 1
      BY <2>1, <2>2, SlotSets, FS_AddElement
    <2>4. Cardinality(Under') = IF count + 1 <= Limit THEN Cardinality(Under) + 1
                                                      ELSE Cardinality(Under)
      BY <2>1, <2>2, SlotSets, FS_AddElement
    <2>5. count' = count + 1 /\ leaked' = leaked
      BY <1>1 DEF Incr, Add
    <2>6. /\ Cardinality(Claiming) \in Nat /\ Cardinality(Under) \in Nat
          /\ Cardinality(Under) <= Cardinality(Claiming)
          /\ Limit \in Nat
      BY SlotSets, ConcurrencyAssumption
    <2>7. NoLeakedSlot'
      BY <2>3, <2>5, <2>6 DEF NoLeakedSlot
    <2>8. Cardinality(Under') - Limit <= Cardinality(Claiming') + leaked' - count'
      BY <2>3, <2>4, <2>5, <2>6 DEF NoLeakedSlot
    <2>9. \A q \in Requests : pc'[q] = "holding" => current'[q] <= Limit
      BY <1>1 DEF Incr, Goto
    <2>10. QED
      BY <1>0, <2>7, <2>8, <2>9
  <1>2. ASSUME NEW r \in Requests, IncrFails(r) PROVE SlotInv'
    <2>1. Claiming' = Claiming
      BY <1>2 DEF IncrFails, Goto, Claiming
    <2>2. count' = count + leaked' - leaked
      <3>1. \/ count' = count /\ leaked' = leaked
            \/ count' = count + 1 /\ leaked' = leaked + 1
        BY <1>2 DEF IncrFails, Add
      <3>2. QED
        BY <3>1
    <2>3. \A q \in Requests : pc'[q] = "holding" => current[q] <= Limit
      BY <1>2 DEF IncrFails, Goto
    <2>4. QED
      BY <1>0, <1>2, <2>1, <2>2, <2>3, KeepPlaces DEF IncrFails
  <1>3. ASSUME NEW r \in Requests, Expire(r) PROVE SlotInv'
    <2>1. Claiming' = Claiming
      BY <1>3 DEF Expire, Goto, Claiming
    <2>2. \A q \in Requests : pc'[q] = "holding" => current[q] <= Limit
      BY <1>3, ConcurrencyAssumption DEF Expire, Goto
    <2>3. QED
      BY <1>0, <1>3, <2>1, <2>2, KeepPlaces DEF Expire
  <1>4. ASSUME NEW r \in Requests, ExpireFails(r) PROVE SlotInv'
    <2>1. pc[r] \in {"expire", "undo", "holding"} /\ current' = current
      BY <1>4 DEF ExpireFails
    <2>2. pc' \in {[pc EXCEPT ![r] = where] : where \in {"idle", "unlimited", "del"}}
      BY <1>4 DEF ExpireFails, Goto
    <2>3. count' = count + leaked' - leaked - 1
      BY <1>4 DEF ExpireFails, Add
    <2>4. QED
      BY <1>0, <2>1, <2>2, <2>3, LeavePlace
  <1>5. ASSUME NEW r \in Requests, Undo(r) PROVE SlotInv'
    <2>1. pc[r] \in {"expire", "undo", "holding"} /\ current' = current
      BY <1>5 DEF Undo
    <2>2. pc' \in {[pc EXCEPT ![r] = where] : where \in {"idle", "unlimited", "del"}}
      BY <1>5 DEF Undo, Goto
    <2>3. count' = count + leaked' - leaked - 1
      BY <1>5 DEF Undo, Add
    <2>4. QED
      BY <1>0, <2>1, <2>2, <2>3, LeavePlace
  <1>6. ASSUME NEW r \in Requests, Decr(r) PROVE SlotInv'
    <2>1. pc[r] \in {"expire", "undo", "holding"} /\ current' = current
      BY <1>6 DEF Decr
    <2>2. pc' \in {[pc EXCEPT ![r] = where] : where \in {"idle", "unlimited", "del"}}
      BY <1>6 DEF Decr, Goto
    <2>3. count' = count + leaked' - leaked - 1
      BY <1>6 DEF Decr, Add
    <2>4. QED
      BY <1>0, <2>1, <2>2, <2>3, LeavePlace
  <1>7. ASSUME NEW r \in Requests, DecrFails(r) PROVE SlotInv'
    <2>1. pc[r] \in {"expire", "undo", "holding"} /\ current' = current
      BY <1>7 DEF DecrFails
    <2>2. pc' \in {[pc EXCEPT ![r] = where] : where \in {"idle", "unlimited", "del"}}
      BY <1>7 DEF DecrFails, Goto
    <2>3. count' = count + leaked' - leaked - 1
      BY <1>7 DEF DecrFails, Add
    <2>4. QED
      BY <1>0, <2>1, <2>2, <2>3, LeavePlace
  <1>8. ASSUME NEW r \in Requests, Del(r) \/ Finish(r) PROVE SlotInv'
    <2>1. Claiming' = Claiming
      BY <1>8 DEF Del, Finish, Goto, Claiming
    <2>2. \/ count' = count + leaked' - leaked
          \/ count' = 0 /\ leaked' = leaked
      BY <1>8 DEF Del, Finish
    <2>3. \A q \in Requests : pc'[q] = "holding" => current[q] <= Limit
      BY <1>8 DEF Del, Finish, Goto
    <2>4. QED
      BY <1>0, <1>8, <2>1, <2>2, <2>3, KeepPlaces DEF Del, Finish
  <1>9. CASE Crash
    <2>1. PICK S \in SUBSET Requests :
            /\ leaked' = leaked + Cardinality(S \cap Claiming)
            /\ pc' = [r \in Requests |-> IF r \in S THEN "idle" ELSE pc[r]]
      BY <1>9 DEF Crash
    <2>2. count' = count /\ current' = current
      BY <1>9 DEF Crash
    <2>3. /\ Claiming' = Claiming \ (S \cap Claiming)
          /\ Under' = Under \ S
      BY <2>1, <2>2 DEF Claiming, Under
    <2>4. /\ IsFiniteSet(S \cap Claiming) /\ Cardinality(S \cap Claiming) \in Nat
          /\ Cardinality(Claiming') = Cardinality(Claiming) - Cardinality(S \cap Claiming)
      <3>1. (S \cap Claiming) \in SUBSET Claiming
        OBVIOUS
      <3>2. IsFiniteSet(S \cap Claiming) /\ Cardinality(S \cap Claiming) \in Nat
        BY <3>1, SlotSets, FS_Subset, FS_CardinalityType
      <3>3. Cardinality(Claiming \ (S \cap Claiming)) =
              Cardinality(Claiming) - Cardinality(Claiming \cap (S \cap Claiming))
        BY <3>2, SlotSets, FS_Difference
      <3>4. Claiming \cap (S \cap Claiming) = S \cap Claiming
        OBVIOUS
      <3>5. QED
        BY <2>3, <3>2, <3>3, <3>4
    <2>5. Cardinality(Under') \in Nat /\ Cardinality(Under') <= Cardinality(Under)
      BY <2>3, SlotSets, FS_Subset, FS_CardinalityType
    <2>6. /\ Cardinality(Claiming) \in Nat /\ Cardinality(Under) \in Nat
          /\ Limit \in Nat
      BY SlotSets, ConcurrencyAssumption
    <2>7. NoLeakedSlot'
      BY <2>1, <2>2, <2>4, <2>6 DEF NoLeakedSlot
    <2>8. Cardinality(Under') - Limit <= Cardinality(Claiming') + leaked' - count'
      BY <2>1, <2>2, <2>4, <2>5, <2>6
    <2>9. \A q \in Requests : pc'[q] = "holding" => current'[q] <= Limit
      BY <2>1, <2>2
    <2>10. QED
      BY <1>0, <2>7, <2>8, <2>9
  <1>10. CASE Tick
    BY <1>0, <1>10, KeepPlaces DEF Tick, Claiming
  <1>11. CASE UNCHANGED vars
    BY <1>0, <1>11, KeepPlaces DEF vars, Claiming
  <1>12. QED
    BY <1>1, <1>2, <1>3, <1>4, <1>5, <1>6, <1>7, <1>8, <1>9, <1>10, <1>11
       DEF Next, RequestStep

(* However INCR, EXPIRE, DECR, DEL and the expiry of the key interleave,   *)
(* the counter holds no more than the requests in it and the places lost   *)
(* to failures: no request is refused for a place nobody has.              *)
THEOREM NoPlaceLeaks == Spec => []NoLeakedSlot
  <1>1. SlotInv => NoLeakedSlot
    BY DEF SlotInv
  <1>2. QED
    BY <1>1, SlotInit, SlotNext, PTL DEF Spec

(* max_concurrency is exceeded by no more running requests than the counter *)
(* has forgotten and Redis errors let through, although each compares a     *)
(* value that is old when it runs.                                          *)
THEOREM LimitKept == Spec => []LimitRespected
  <1>1. SlotInv => LimitRespected
    <2> SUFFICES ASSUME SlotInv PROVE LimitRespected
      OBVIOUS
    <2> DEFINE H == {r \in Requests : pc[r] = "holding"}
    <2>1. H \in SUBSET Under
      BY DEF SlotInv, Under, Claiming
    <2>2. Cardinality(H) \in Nat /\ Cardinality(H) <= Cardinality(Under)
      BY <2>1, SlotSets, FS_Subset, FS_CardinalityType
    <2>3. /\ Cardinality(Claiming) \in Nat /\ Cardinality(Under) \in Nat
          /\ Limit \in Nat
      BY SlotSets, ConcurrencyAssumption
    <2> HIDE DEF H
    <2>4. Cardinality(H) - Limit <= Cardinality(Claiming) + leaked - count
      BY <2>2, <2>3 DEF SlotInv, TypeOK
    <2>5. /\ Cardinality(LetThrough) \in Nat
          /\ Cardinality(Running) = Cardinality(H) + Cardinality(LetThrough)
      <3>1. IsFiniteSet(H) /\ IsFiniteSet(LetThrough)
        <4>1. H \in SUBSET Requests /\ LetThrough \in SUBSET Requests
          BY DEF H, LetThrough
        <4>2. QED
          BY <4>1, ConcurrencyAssumption, FS_Subset
      <3>2. Running = H \cup LetThrough /\ H \cap LetThrough = {}
        BY DEF Running, LetThrough, H
      <3>3. Cardinality(H \cap LetThrough) = 0
        BY <3>2, FS_EmptySet
      <3>4. Cardinality(H \cup LetThrough) =
              Cardinality(H) + Cardinality(LetThrough) - Cardinality(H \cap LetThrough)
        BY <3>1, FS_Union
      <3>5. Cardinality(LetThrough) \in Nat
        BY <3>1, FS_CardinalityType
      <3>6. QED
        BY <2>2, <3>2, <3>3, <3>4, <3>5
    <2>6. QED
      BY <2>2, <2>3, <2>4, <2>5 DEF LimitRespected, SlotInv, TypeOK
  <1>2. QED
    BY <1>1, SlotInit, SlotNext, PTL DEF Spec

-----------------------------------------------------------------------------
(* Two facts about finite sets and sums that the rate limits need.         *)

(* A finite set of numbers has a greatest one. *)
LEMMA MaxIs ==
  ASSUME NEW S, IsFiniteSet(S)
  PROVE  S # {} /\ S \subseteq Int => Max(S) \in S /\ \A y \in S : Max(S) >= y
  <1> DEFINE Greatest(T) == \E x \in T : \A y \in T : x >= y
             Bad == {T \in SUBSET S : T # {} /\ T \subseteq Int /\ ~Greatest(T)}
  <1>1. SUFFICES ASSUME Bad # {} PROVE FALSE
    <2> SUFFICES ASSUME S # {}, S \subseteq Int
                 PROVE  Max(S) \in S /\ \A y \in S : Max(S) >= y
      OBVIOUS
    <2>1. S \notin Bad
      BY <1>1
    <2>2. \E x \in S : \A y \in S : x >= y
      BY <2>1
    <2>3. QED
      BY <2>2, Zenon DEF Max
  <1>2. Bad \subseteq SUBSET S
    OBVIOUS
  <1>3. PICK T \in Bad : \A U \in Bad : U \subseteq T => U = T
    <2> HIDE DEF Bad
    <2> QED BY <1>1, <1>2, Minimal
  <1>4. PICK e : e \in T
    OBVIOUS
  <1>5. T \ {e} \notin Bad
    BY <1>3, <1>4
  <1>6. CASE T \ {e} = {}
    BY <1>4, <1>6
  <1>7. CASE T \ {e} # {}
    <2>1. PICK x \in T \ {e} : \A y \in T \ {e} : x >= y
      BY <1>5, <1>7
    <2>2. x \in Int /\ e \in Int /\ T \subseteq Int
      BY <1>4, <2>1
    <2>3. \A y \in T : (IF x >= e THEN x ELSE e) >= y
      BY <2>1, <2>2
    <2>4. QED
      BY <1>4, <2>1, <2>3
  <1>8. QED
    BY <1>6, <1>7

(* Shifting weights by one place drops the last. *)
LEMMA SumShift ==
  ASSUME NEW W \in Nat \ {0}, NEW w, NEW v,
         \A i \in 0 .. W - 1 : w[i] \in Nat /\ v[i] = IF i = 0 THEN 0 ELSE w[i - 1]
  PROVE  /\ SumOver(v, 0 .. W - 1) = SumOver(w, 0 .. W - 1) - w[W - 1]
         /\ SumOver(v, 0 .. W - 1) <= SumOver(w, 0 .. W - 1)
  <1> DEFINE S == 0 .. W - 1
             To(n) == 0 .. n
             Good(n) == SumOver(v, To(n)) = SumOver(w, To(n)) - w[n]
             Bad == {T \in SUBSET S : \E n \in S : T = To(n) /\ ~Good(n)}
  <1>1. \A i \in S : w[i] \in Nat /\ v[i] \in Nat /\ w[i] \in Int /\ v[i] \in Int
    <2> SUFFICES ASSUME NEW i \in S PROVE w[i] \in Nat /\ v[i] \in Nat
      OBVIOUS
    <2>1. i # 0 => i - 1 \in S
      OBVIOUS
    <2>2. QED
      BY <2>1
  <1>2. \A i \in S : v[i] = IF i = 0 THEN 0 ELSE w[i - 1]
    OBVIOUS
  <1>3. IsFiniteSet(S) /\ \A n \in S : IsFiniteSet(To(n)) /\ To(n) \in SUBSET S
    BY FS_Interval
  <1>4. 0 \in S /\ To(0) = {0} /\ W - 1 \in S /\ S = To(W - 1)
    OBVIOUS
  <1>5. \A n \in S : n # 0 =>
          /\ n - 1 \in S /\ To(n) = To(n - 1) \cup {n} /\ n \notin To(n - 1)
          /\ To(n - 1) \subseteq To(n) /\ To(n - 1) # To(n)
    OBVIOUS
  <1> HIDE DEF S, To
  <1>6. Good(0)
    <2>1. v[0] = 0 /\ v[0] \in Int /\ w[0] \in Int /\ IsFiniteSet(To(0))
      BY <1>1, <1>2, <1>3, <1>4
    <2>2. To(0) \ {0} = {} /\ 0 \in To(0) /\ \A x \in To(0) : x = 0
      BY <1>4
    <2>3. /\ SumOver(v, To(0)) = v[0] + SumOver(v, To(0) \ {0})
          /\ SumOver(w, To(0)) = w[0] + SumOver(w, To(0) \ {0})
      BY <2>1, <2>2, SumRemove
    <2>4. QED
      BY <2>1, <2>2, <2>3, SumEmpty
  <1>7. ASSUME NEW n \in S, n # 0, Good(n - 1) PROVE Good(n)
    <2> DEFINE m == n - 1
               T == To(m)
    <2>1. /\ m \in S /\ To(n) = T \cup {n} /\ n \notin T /\ IsFiniteSet(T)
          /\ \A x \in T : x \in S
      BY <1>3, <1>5, <1>7
    <2>2. v[n] = w[m] /\ w[m] \in Int /\ w[n] \in Int /\ v[n] \in Int
      BY <1>1, <1>2, <1>7, <2>1
    <2>3. \A x \in T : w[x] \in Int /\ v[x] \in Int
      BY <1>1, <2>1
    <2>4. SumOver(v, T) = SumOver(w, T) - w[m]
      BY <1>7
    <2> HIDE DEF T, m
    <2>5. SumOver(v, T \cup {n}) = SumOver(v, T) + v[n]
      BY <2>1, <2>2, <2>3, SumAdd
    <2>6. SumOver(w, T \cup {n}) = SumOver(w, T) + w[n]
      BY <2>1, <2>2, <2>3, SumAdd
    <2>7. SumOver(v, T) \in Int /\ SumOver(w, T) \in Int
      BY <2>1, <2>3, SumRemove
    <2>8. SumOver(v, To(n)) = SumOver(w, To(n)) - w[n]
      BY <2>1, <2>2, <2>4, <2>5, <2>6, <2>7
    <2>9. QED
      BY <2>8
  <1> HIDE DEF Good
  <1>8. SUFFICES ASSUME Bad # {} PROVE FALSE
    <2>1. Good(W - 1)
      BY <1>3, <1>4, <1>8
    <2>2. SumOver(w, S) \in Int /\ SumOver(v, S) \in Int /\ w[W - 1] \in Nat
      BY <1>1, <1>3, <1>4, SumRemove
    <2>3. QED
      BY <1>4, <2>1, <2>2 DEF Good, S
  <1>9. Bad \subseteq SUBSET S
    OBVIOUS
  <1>10. PICK T \in Bad : \A U \in Bad : U \subseteq T => U = T
    <2> HIDE DEF Bad
    <2> QED BY <1>3, <1>8, <1>9, Minimal
  <1>11. PICK n \in S : T = To(n) /\ ~Good(n)
    BY <1>10
  <1>12. n # 0
    BY <1>6, <1>11
  <1>13. To(n - 1) \notin Bad
    BY <1>5, <1>10, <1>11, <1>12
  <1>14. Good(n - 1)
    BY <1>3, <1>5, <1>11, <1>12, <1>13
  <1>15. QED
    BY <1>7, <1>11, <1>12, <1>14

-----------------------------------------------------------------------------
(* The rate counters.                                                      *)

LimitedRequests ==
  [at : Counters, tier : Tiers, tokens : Tokens \cup {1}] \cup {Away}

RateType ==
  /\ tier \in Tiers
  /\ counter \in [Counters -> [value : Nat, left : 0 .. Window]]
  /\ recent \in [Counters -> [Ages -> Nat]]
  /\ req \in [UserRequests -> LimitedRequests]

(* What was counted since the counter c was created, and before that.  A   *)
(* counter that expired has all of its window behind it.                   *)
Young(c) == [i \in Ages |-> IF i <= Window - counter[c].left THEN recent[c][i] ELSE 0]
Old(c) == [i \in Ages |-> IF i <= Window - counter[c].left THEN 0 ELSE recent[c][i]]

(* The strengthening of AtMostTwoWindows: what is remembered falls into    *)
(* two windows, the present one is what the counter says, and after an     *)
(* expiry nothing has been counted yet.                                    *)
WindowOf(c) ==
  /\ SumOver(Young(c), Ages) <= PerWindow(c)
  /\ SumOver(Old(c), Ages) <= PerWindow(c)
  /\ counter[c].left > 0 => SumOver(Young(c), Ages) = counter[c].value
  /\ counter[c].left = 0 => counter[c].value = 0 /\ recent[c][0] = 0

WindowInv == \A c \in Counters : WindowOf(c)

(* The strengthening of WithdrawnKeyOut: no string is given out twice, so  *)
(* what happens to other rows cannot revive one.                           *)
KeyInv ==
  /\ strings \in Nat /\ withdrawn \subseteq 1 .. strings
  /\ keys \in [KeyIds -> [string : 0 .. strings, on : BOOLEAN]]
  /\ \A k \in KeyIds : keys[k].on => keys[k].string # 0 /\ keys[k].string \notin withdrawn
  /\ \A k \in KeyIds : keys[k] # NoKey => keys[k].string # 0
  /\ \A j, k \in KeyIds : j # k /\ keys[j].string # 0 => keys[j].string # keys[k].string

(* The limit of a window is a number no increment or tier limit exceeds. *)
LEMMA PerWindowIs ==
  ASSUME NEW c \in Counters
  PROVE  /\ PerWindow(c) \in Int /\ PerWindow(c) >= 1
         /\ \A t \in Tiers : /\ ResolveTierLimit(t)[c] \in Int
                            /\ ResolveTierLimit(t)[c] <= PerWindow(c)
         /\ c = "tpm" => \A n \in Tokens : n <= PerWindow(c)
  <1> DEFINE f == [t \in Tiers |-> ResolveTierLimit(t)[c]]
             L == {ResolveTierLimit(t)[c] : t \in Tiers}
             N == IF c = "tpm" THEN Tokens \cup {1} ELSE {1}
  <1>1. \A t \in Tiers : ResolveTierLimit(t)[c] \in Int
    BY AccessAssumption DEF ResolveTierLimit, Counters
  <1>2. IsFiniteSet(L)
    <2>1. f \in Surjection(Tiers, L)
      BY DEF Surjection
    <2>2. QED
      BY <2>1, FS_Surjection, AccessAssumption
  <1>3. IsFiniteSet(N) /\ N \subseteq Int /\ 1 \in N
    <2>1. IsFiniteSet(Tokens) /\ Tokens \subseteq Nat
      BY AccessAssumption
    <2>2. IsFiniteSet({1}) /\ IsFiniteSet(Tokens \cup {1})
      BY <2>1, FS_AddElement, FS_Singleton
    <2>3. QED
      BY <2>1, <2>2
  <1>4. IsFiniteSet(L \cup N)
    <2> HIDE DEF L, N
    <2>1. QED
      BY <1>2, <1>3, FS_Union
  <1>5. L \cup N # {} /\ L \cup N \subseteq Int
    BY <1>1, <1>3
  <1>6. PerWindow(c) = Max(L \cup N)
    BY DEF PerWindow
  <1>7. PerWindow(c) \in L \cup N /\ \A y \in L \cup N : PerWindow(c) >= y
    <2> HIDE DEF L, N
    <2>1. QED
      BY <1>4, <1>5, <1>6, MaxIs
  <1>8. QED
    BY <1>1, <1>3, <1>5, <1>7

LEMMA RateInit == AccessInit => RateType
  BY AccessAssumption DEF AccessInit, RateType, LimitedRequests, Counters, Ages

LEMMA RateNext ==
  ASSUME RateType, [AccessNext]_accessVars
  PROVE  RateType'
  <1>1. CASE UNCHANGED <<counter, req, recent>> /\ tier' \in Tiers
    BY <1>1 DEF RateType
  <1>2. ASSUME NEW r \in UserRequests, NEW n \in Tokens, NEW s, Authenticate(r, s, n)
        PROVE  RateType'
    <2>1. [at |-> "rpm", tier |-> tier, tokens |-> IF n <= 0 THEN 1 ELSE n]
            \in LimitedRequests
      BY DEF RateType, LimitedRequests, Counters
    <2>2. QED
      BY <1>2, <2>1 DEF RateType, Authenticate
  <1>3. ASSUME NEW r \in UserRequests, req[r] # Away, Passed(r)
        PROVE  req' \in [UserRequests -> LimitedRequests]
    <2>1. req[r] \in [at : Counters, tier : Tiers, tokens : Tokens \cup {1}]
      BY <1>3 DEF RateType, LimitedRequests
    <2>2. \A c \in Counters :
            [at |-> c, tier |-> req[r].tier, tokens |-> req[r].tokens] \in LimitedRequests
      BY <2>1 DEF LimitedRequests
    <2>3. "tpm" \in Counters /\ "model" \in Counters /\ Away \in LimitedRequests
      BY DEF Counters, LimitedRequests
    <2>4. QED
      BY <1>3, <2>2, <2>3 DEF Passed, RateType
  <1>4. ASSUME NEW r \in UserRequests, Admit(r) PROVE RateType'
    <2> DEFINE c == req[r].at
    <2>1. req[r] \in [at : Counters, tier : Tiers, tokens : Tokens \cup {1}]
      BY <1>4 DEF Admit, RateType, LimitedRequests
    <2>2. c \in Counters /\ req[r].tokens \in Nat /\ Increment(r) \in Nat
      <3>1. Tokens \cup {1} \subseteq Nat
        BY AccessAssumption
      <3>2. c \in Counters /\ req[r].tokens \in Nat
        BY <2>1, <3>1
      <3>3. QED
        BY <3>2 DEF Increment
    <2>3. counter' \in [Counters -> [value : Nat, left : 0 .. Window]]
      <3>1. counter[c].value \in Nat /\ counter[c].left \in 0 .. Window
        BY <2>2 DEF RateType
      <3>2. [value |-> counter[c].value + Increment(r),
             left |-> IF counter[c].left = 0 THEN Window ELSE counter[c].left]
              \in [value : Nat, left : 0 .. Window]
        BY <2>2, <3>1, AccessAssumption
      <3>3. QED
        BY <1>4, <2>2, <3>2 DEF Admit, RateType
    <2>4. recent' \in [Counters -> [Ages -> Nat]]
      <3>1. recent[c] \in [Ages -> Nat]
        BY <2>2 DEF RateType
      <3>2. [i \in Ages |->
               IF i = 0 THEN recent[c][i] + Increment(r) ELSE recent[c][i]]
              \in [Ages -> Nat]
        BY <2>2, <3>1
      <3>3. QED
        BY <1>4, <2>2, <3>2 DEF Admit, RateType
    <2>5. QED
      BY <1>3, <1>4, <2>3, <2>4 DEF Admit, RateType
  <1>5. ASSUME NEW r \in UserRequests, Refuse(r) PROVE RateType'
    BY <1>5 DEF Refuse, RateType, LimitedRequests
  <1>6. ASSUME NEW r \in UserRequests, AdmitUncounted(r) PROVE RateType'
    BY <1>3, <1>6 DEF AdmitUncounted, RateType
  <1>7. ASSUME AccessTick PROVE RateType'
    <2>1. counter' \in [Counters -> [value : Nat, left : 0 .. Window]]
      BY <1>7, AccessAssumption DEF AccessTick, RateType
    <2>2. recent' \in [Counters -> [Ages -> Nat]]
      <3>1. \A i \in Ages : i # 0 => i - 1 \in Ages
        BY AccessAssumption DEF Ages
      <3>2. QED
        BY <1>7, <3>1 DEF AccessTick, RateType
    <2>3. QED
      BY <1>7, <2>1, <2>2 DEF AccessTick, RateType
  <1>8. QED
    BY <1>1, <1>2, <1>4, <1>5, <1>6, <1>7
       DEF AccessNext, accessVars, CreateAPIKey, DeleteAPIKey, RotateAPIKey,
           UpdateAPIKeyStatus, SetTier, RateType

LEMMA AgesAre ==
  /\ Ages = 0 .. Window - 1 /\ IsFiniteSet(Ages) /\ 0 \in Ages
  /\ Window \in Nat \ {0} /\ Ages \subseteq Int
  BY FS_Interval, AccessAssumption DEF Ages

LEMMA WeightsAre ==
  ASSUME RateType, NEW c \in Counters
  PROVE  /\ counter[c].left \in 0 .. Window /\ counter[c].value \in Nat
         /\ recent[c] \in [Ages -> Nat]
         /\ Young(c) \in [Ages -> Nat] /\ Old(c) \in [Ages -> Nat]
         /\ SumOver(Young(c), Ages) \in Nat /\ SumOver(Old(c), Ages) \in Nat
  <1>1. /\ counter[c].left \in 0 .. Window /\ counter[c].value \in Nat
        /\ recent[c] \in [Ages -> Nat]
    BY DEF RateType
  <1>2. Young(c) \in [Ages -> Nat] /\ Old(c) \in [Ages -> Nat]
    BY <1>1 DEF Young, Old
  <1>3. /\ \A i \in Ages : Young(c)[i] \in Nat
        /\ \A i \in Ages : Old(c)[i] \in Nat
    BY <1>2
  <1>4. QED
    BY <1>1, <1>2, <1>3, AgesAre, SumNat

(* A request that is counted stays below the limit of its window, or opens *)
(* one.                                                                    *)
LEMMA AdmitWindow ==
  ASSUME RateType, RateType', WindowInv,
         NEW r \in UserRequests, Admit(r), NEW c \in Counters
  PROVE  WindowOf(c)'
  <1> DEFINE n == Increment(r)
             P == PerWindow(c)
             left == counter[c].left
  <1>0. req[r] \in [at : Counters, tier : Tiers, tokens : Tokens \cup {1}]
    BY DEF Admit, RateType, LimitedRequests
  <1>1. CASE c # req[r].at
    <2>1. counter'[c] = counter[c] /\ recent'[c] = recent[c]
      BY <1>0, <1>1 DEF Admit, RateType
    <2>2. Young(c)' = Young(c) /\ Old(c)' = Old(c)
      BY <2>1 DEF Young, Old
    <2>3. WindowOf(c)
      BY DEF WindowInv
    <2>4. QED
      BY <2>1, <2>2, <2>3 DEF WindowOf
  <1>2. CASE c = req[r].at
    <2>1. n \in Nat /\ n <= P /\ P \in Int /\ P >= 1
      <3>1. Tokens \cup {1} \subseteq Nat
        BY AccessAssumption
      <3>2. req[r].tokens \in Nat /\ req[r].tokens \in Tokens \cup {1}
        BY <1>0, <3>1
      <3>3. P \in Int /\ P >= 1 /\ (c = "tpm" => \A m \in Tokens : m <= P)
        BY PerWindowIs
      <3> HIDE DEF P
      <3>4. QED
        BY <1>2, <3>2, <3>3 DEF Increment
    <2>2. left > 0 => counter[c].value + n <= P
      <3>1. LimitOf(r) \in Int /\ LimitOf(r) <= P
        BY <1>0, <1>2, PerWindowIs DEF LimitOf
      <3>2. left > 0 => ~(counter[c].value + n > LimitOf(r))
        BY <1>2 DEF Admit, OverLimit
      <3>3. counter[c].value \in Nat
        BY WeightsAre
      <3> HIDE DEF P, n, left
      <3>4. QED
        BY <2>1, <3>1, <3>2, <3>3
    <2>3. /\ counter'[c].value = counter[c].value + n
          /\ counter'[c].left = IF left = 0 THEN Window ELSE left
          /\ \A i \in Ages :
               recent'[c][i] = IF i = 0 THEN recent[c][i] + n ELSE recent[c][i]
      BY <1>0, <1>2 DEF Admit, RateType
    <2>4. /\ left \in 0 .. Window /\ counter[c].value \in Nat
          /\ \A i \in Ages :
               recent[c][i] \in Nat /\ Young(c)[i] \in Int /\ Old(c)[i] \in Int
          /\ SumOver(Young(c), Ages) \in Nat /\ SumOver(Old(c), Ages) \in Nat
      BY WeightsAre
    <2>5. WindowOf(c)
      BY DEF WindowInv
    <2>6. /\ \A i \in Ages : Young(c)[i] = IF i <= Window - left THEN recent[c][i] ELSE 0
          /\ \A i \in Ages : Old(c)[i] = IF i <= Window - left THEN 0 ELSE recent[c][i]
      BY DEF Young, Old
    <2>7. /\ \A i \in Ages : Young(c)'[i] =
               IF i <= Window - counter'[c].left THEN recent'[c][i] ELSE 0
          /\ \A i \in Ages : Old(c)'[i] =
               IF i <= Window - counter'[c].left THEN 0 ELSE recent'[c][i]
      BY DEF Young, Old
    <2>8. /\ \A i \in Ages : i \in Int /\ i >= 0 /\ i < Window
          /\ Window \in Nat \ {0} /\ 0 \in Ages /\ IsFiniteSet(Ages)
      BY AgesAre
    <2> DEFINE y == Young(c)
               o == Old(c)
               yy == Young(c)'
               oo == Old(c)'
    <2> HIDE DEF y, o, yy, oo, n, P, left
    <2>9. CASE left > 0
      <3>1. \A i \in Ages : oo[i] = o[i]
        BY <2>3, <2>4, <2>6, <2>7, <2>8, <2>9 DEF o, oo
      <3>2. /\ \A i \in Ages : i # 0 => yy[i] = y[i]
            /\ yy[0] = y[0] + n
        BY <2>3, <2>4, <2>6, <2>7, <2>8, <2>9 DEF y, yy
      <3>3. \A i \in Ages : y[i] \in Int /\ yy[i] \in Int
        BY <2>1, <2>4, <3>2 DEF y
      <3>4. SumOver(oo, Ages) = SumOver(o, Ages)
        BY <2>8, <3>1, SumSame
      <3>5. SumOver(yy, Ages) = SumOver(y, Ages) + yy[0] - y[0]
        BY <2>8, <3>2, <3>3, SumChange
      <3>6. SumOver(yy, Ages) = SumOver(y, Ages) + n
        BY <2>1, <2>4, <2>8, <3>2, <3>3, <3>5 DEF y
      <3>7. SumOver(y, Ages) = counter[c].value /\ SumOver(o, Ages) <= P
        BY <2>5, <2>9 DEF WindowOf, y, o, P, left
      <3>8. /\ SumOver(yy, Ages) <= P /\ SumOver(oo, Ages) <= P
            /\ SumOver(yy, Ages) = counter'[c].value
            /\ counter'[c].left > 0
        BY <2>2, <2>3, <2>4, <2>9, <3>4, <3>6, <3>7
      <3>9. PerWindow(c)' = P
        BY DEF P, PerWindow, ResolveTierLimit
      <3>10. counter'[c].left # 0
        BY <2>3, <2>4, <2>9
      <3>11. QED
        BY <3>8, <3>9, <3>10 DEF WindowOf, yy, oo
    <2>10. CASE left = 0
      <3>1. recent[c][0] = 0 /\ counter[c].value = 0
        BY <2>5, <2>10 DEF WindowOf, left
      <3>2. counter'[c].left = Window
        BY <2>3, <2>10
      <3>3. \A i \in Ages : oo[i] = y[i]
        BY <2>3, <2>4, <2>6, <2>7, <2>8, <2>10, <3>1, <3>2 DEF y, oo
      <3>4. /\ \A i \in Ages : i # 0 => yy[i] = 0
            /\ yy[0] = n
        BY <2>1, <2>3, <2>7, <2>8, <3>1, <3>2 DEF yy
      <3>5. SumOver(oo, Ages) = SumOver(y, Ages)
        BY <2>8, <3>3, SumSame
      <3>6. SumOver(yy, Ages) = n
        <4> DEFINE z == [i \in Ages |-> 0]
        <4>1. \A i \in Ages : z[i] = 0 /\ z[i] \in Int
          OBVIOUS
        <4>2. \A i \in Ages : yy[i] \in Int
          BY <2>1, <3>4
        <4> HIDE DEF z
        <4>3. SumOver(z, Ages) = 0
          BY <2>8, <4>1, SumZero
        <4>4. \A i \in Ages : i # 0 => yy[i] = z[i]
          BY <3>4, <4>1
        <4>5. SumOver(yy, Ages) = SumOver(z, Ages) + yy[0] - z[0]
          BY <2>8, <4>1, <4>2, <4>4, SumChange
        <4>6. QED
          BY <2>1, <2>8, <3>4, <4>1, <4>3, <4>5
      <3>7. SumOver(y, Ages) <= P
        BY <2>5 DEF WindowOf, y, P
      <3>8. PerWindow(c)' = P
        BY DEF P, PerWindow, ResolveTierLimit
      <3>9. counter'[c].value = n /\ counter'[c].left # 0
        BY <2>1, <2>3, <2>8, <3>1, <3>2
      <3>10. QED
        BY <2>1, <3>5, <3>6, <3>7, <3>8, <3>9 DEF WindowOf, yy, oo
    <2>11. QED
      BY <2>4, <2>9, <2>10
  <1>3. QED
    BY <1>1, <1>2

(* Time moves both windows on by one place, and may drop the last. *)
LEMMA TickWindow ==
  ASSUME RateType, WindowInv, AccessTick, NEW c \in Counters
  PROVE  WindowOf(c)'
  <1> DEFINE P == PerWindow(c)
             left == counter[c].left
             y == Young(c)
             o == Old(c)
             yy == Young(c)'
             oo == Old(c)'
  <1>1. /\ left \in 0 .. Window /\ counter[c].value \in Nat
        /\ \A i \in Ages : recent[c][i] \in Nat /\ y[i] \in Nat /\ o[i] \in Nat
        /\ SumOver(y, Ages) \in Nat /\ SumOver(o, Ages) \in Nat
    BY WeightsAre
  <1>2. /\ \A i \in Ages : y[i] = IF i <= Window - left THEN recent[c][i] ELSE 0
        /\ \A i \in Ages : o[i] = IF i <= Window - left THEN 0 ELSE recent[c][i]
    BY DEF Young, Old
  <1>3. /\ \A i \in Ages : yy[i] =
             IF i <= Window - counter'[c].left THEN recent'[c][i] ELSE 0
        /\ \A i \in Ages : oo[i] =
             IF i <= Window - counter'[c].left THEN 0 ELSE recent'[c][i]
    BY DEF Young, Old
  <1>4. /\ counter'[c].left = IF left <= 1 THEN 0 ELSE left - 1
        /\ counter'[c].value = IF left <= 1 THEN 0 ELSE counter[c].value
        /\ \A i \in Ages : recent'[c][i] = IF i = 0 THEN 0 ELSE recent[c][i - 1]
    BY DEF AccessTick
  <1>5. /\ \A i \in Ages : i \in Int /\ i >= 0 /\ i < Window
        /\ \A i \in Ages : i # 0 => i - 1 \in Ages
        /\ Window \in Nat \ {0} /\ 0 \in Ages /\ IsFiniteSet(Ages)
        /\ Window - 1 \in Ages
    BY AgesAre
  <1>6. WindowOf(c)
    BY DEF WindowInv
  <1>7. /\ SumOver(y, Ages) <= P /\ SumOver(o, Ages) <= P
        /\ left > 0 => SumOver(y, Ages) = counter[c].value
    BY <1>6 DEF WindowOf
  <1>8. PerWindow(c)' = P /\ P \in Int
    BY PerWindowIs DEF PerWindow, ResolveTierLimit
  <1> HIDE DEF y, o, yy, oo, P, left
  <1>9. \A i \in Ages : yy[i] = IF i = 0 THEN 0 ELSE y[i - 1]
    BY <1>1, <1>2, <1>3, <1>4, <1>5
  <1>10. \A i \in Ages : oo[i] = IF i = 0 THEN 0 ELSE o[i - 1]
    BY <1>1, <1>2, <1>3, <1>4, <1>5
  <1>11. SumOver(oo, Ages) <= SumOver(o, Ages) /\ SumOver(oo, Ages) \in Int
    <2>1. SumOver(oo, Ages) <= SumOver(o, Ages)
      BY <1>1, <1>5, <1>10, AgesAre, SumShift
    <2>2. \A i \in Ages : oo[i] \in Int
      BY <1>1, <1>5, <1>10
    <2>3. QED
      BY <1>5, <2>1, <2>2, SumRemove
  <1>12. SumOver(yy, Ages) = SumOver(y, Ages) - y[Window - 1]
    BY <1>1, <1>5, <1>9, AgesAre, SumShift
  <1>13. left > 1 => y[Window - 1] = 0
    BY <1>1, <1>2, <1>5
  <1>14. recent'[c][0] = 0
    BY <1>4, <1>5
  <1>15. QED
    <2>1. y[Window - 1] \in Nat
      BY <1>1, <1>5
    <2>2. SumOver(yy, Ages) <= P /\ SumOver(oo, Ages) <= P
      BY <1>1, <1>7, <1>8, <1>11, <1>12, <2>1
    <2>3. counter'[c].left > 0 =>
            left > 1 /\ left > 0 /\ counter'[c].value = counter[c].value
      BY <1>1, <1>4
    <2>4. counter'[c].left > 0 => SumOver(yy, Ages) = counter'[c].value
      BY <1>1, <1>7, <1>12, <1>13, <2>3
    <2>5. counter'[c].left = 0 => counter'[c].value = 0
      BY <1>1, <1>4
    <2>6. QED
      BY <1>8, <1>14, <2>2, <2>4, <2>5 DEF WindowOf, yy, oo

LEMMA WindowInit == AccessInit => WindowInv
  <1> SUFFICES ASSUME AccessInit, NEW c \in Counters PROVE WindowOf(c)
    BY DEF WindowInv
  <1>1. /\ \A i \in Ages : Young(c)[i] = 0 /\ Old(c)[i] = 0
        /\ counter[c].left = 0 /\ counter[c].value = 0 /\ recent[c][0] = 0
    BY AgesAre DEF AccessInit, Young, Old
  <1>2. SumOver(Young(c), Ages) = 0 /\ SumOver(Old(c), Ages) = 0
    BY <1>1, AgesAre, SumZero
  <1>3. QED
    BY <1>1, <1>2, PerWindowIs DEF WindowOf

LEMMA WindowNext == RateType /\ WindowInv /\ [AccessNext]_accessVars => WindowInv'
  <1> SUFFICES ASSUME RateType, WindowInv, [AccessNext]_accessVars, NEW c \in Counters
               PROVE  WindowOf(c)'
    BY DEF WindowInv, Counters
  <1>1. CASE UNCHANGED <<counter, recent>>
    <2>1. WindowOf(c) /\ Young(c)' = Young(c) /\ Old(c)' = Old(c)
      BY <1>1 DEF WindowInv, Young, Old
    <2>2. PerWindow(c)' = PerWindow(c)
      BY DEF PerWindow, ResolveTierLimit
    <2>3. QED
      BY <1>1, <2>1, <2>2 DEF WindowOf
  <1>2. ASSUME NEW r \in UserRequests, Admit(r) PROVE WindowOf(c)'
    BY <1>2, AdmitWindow, RateNext
  <1>3. ASSUME AccessTick PROVE WindowOf(c)'
    BY <1>3, TickWindow
  <1>4. QED
    BY <1>1, <1>2, <1>3
       DEF AccessNext, accessVars, CreateAPIKey, DeleteAPIKey, RotateAPIKey,
           UpdateAPIKeyStatus, SetTier, Authenticate, Refuse, AdmitUncounted

(* Whatever keys the user makes, rotates and deletes, however the tier     *)
(* changes and whenever Redis is away, any Window ticks in a row count at  *)
(* most what two windows of rate_limit.lua may.                            *)
THEOREM RateAlwaysBounded == AccessSpec => []AtMostTwoWindows
  <1>1. RateType /\ WindowInv => AtMostTwoWindows
    <2> SUFFICES ASSUME RateType, WindowInv, NEW c \in Counters
                 PROVE  SumOver(recent[c], Ages) <= 2 * PerWindow(c)
      BY DEF AtMostTwoWindows
    <2>1. /\ \A i \in Ages : recent[c][i] \in Nat
          /\ \A i \in Ages : Young(c)[i] \in Int /\ Old(c)[i] \in Int
          /\ SumOver(Young(c), Ages) \in Nat /\ SumOver(Old(c), Ages) \in Nat
      BY WeightsAre
    <2>2. \A i \in Ages : recent[c][i] = Young(c)[i] + Old(c)[i]
      BY <2>1 DEF Young, Old
    <2>3. SumOver(recent[c], Ages) = SumOver(Young(c), Ages) + SumOver(Old(c), Ages)
      BY <2>1, <2>2, AgesAre, SumPlus
    <2>4. /\ SumOver(Young(c), Ages) <= PerWindow(c)
          /\ SumOver(Old(c), Ages) <= PerWindow(c) /\ PerWindow(c) \in Int
      BY PerWindowIs DEF WindowInv, WindowOf
    <2>5. QED
      BY <2>1, <2>3, <2>4
  <1>2. RateType /\ [AccessNext]_accessVars => RateType'
    BY RateNext
  <1>3. QED
    BY <1>1, <1>2, RateInit, WindowInit, WindowNext, PTL DEF AccessSpec

-----------------------------------------------------------------------------
(* The API keys.                                                           *)

LEMMA KeyInit == AccessInit => KeyInv
  BY DEF AccessInit, NoKey, KeyInv

LEMMA KeyNext == KeyInv /\ [AccessNext]_accessVars => KeyInv'
  <1> SUFFICES ASSUME KeyInv, [AccessNext]_accessVars PROVE KeyInv'
    OBVIOUS
  <1> DEFINE Rows == [string : 0 .. strings, on : BOOLEAN]
  <1>1. /\ strings \in Nat /\ withdrawn \subseteq 1 .. strings
        /\ keys \in [KeyIds -> Rows]
        /\ \A k \in KeyIds : keys[k].string \in 0 .. strings /\ keys[k].on \in BOOLEAN
    BY DEF KeyInv
  <1>2. ASSUME NEW k \in KeyIds, NEW s \in 0 .. strings', NEW on \in BOOLEAN,
               strings' \in Nat, strings <= strings', withdrawn' \subseteq 1 .. strings',
               keys' = [keys EXCEPT ![k] = [string |-> s, on |-> on]],
               on => s # 0 /\ s \notin withdrawn',
               s = 0 => [string |-> s, on |-> on] = NoKey,
               s # 0 => \A j \in KeyIds : j # k => keys[j].string # s,
               \A j \in KeyIds : j # k /\ keys[j].on => keys[j].string \notin withdrawn'
        PROVE  KeyInv'
    <2>1. /\ keys'[k].string = s /\ keys'[k].on = on
          /\ keys'[k] = [string |-> s, on |-> on]
          /\ \A j \in KeyIds : j # k => keys'[j] = keys[j]
      BY <1>1, <1>2
    <2>2. keys' \in [KeyIds -> [string : 0 .. strings', on : BOOLEAN]]
      <3>1. Rows \subseteq [string : 0 .. strings', on : BOOLEAN]
        BY <1>1, <1>2
      <3>2. [string |-> s, on |-> on] \in [string : 0 .. strings', on : BOOLEAN]
        BY <1>2
      <3> HIDE DEF Rows
      <3>3. QED
        BY <1>1, <1>2, <3>1, <3>2
    <2>3. \A j \in KeyIds :
            keys'[j].on => keys'[j].string # 0 /\ keys'[j].string \notin withdrawn'
      BY <1>2, <2>1 DEF KeyInv
    <2>4. \A j \in KeyIds : keys'[j] # NoKey => keys'[j].string # 0
      BY <1>2, <2>1 DEF KeyInv
    <2>5. \A i, j \in KeyIds :
            i # j /\ keys'[i].string # 0 => keys'[i].string # keys'[j].string
      <3>1. ASSUME NEW i \in KeyIds, NEW j \in KeyIds, i # j, keys'[i].string # 0
            PROVE  keys'[i].string # keys'[j].string
        BY <1>2, <2>1, <3>1 DEF KeyInv
      <3>2. QED
        BY <3>1
    <2>6. QED
      BY <1>2, <2>2, <2>3, <2>4, <2>5 DEF KeyInv
  <1>3. ASSUME NEW k \in KeyIds, CreateAPIKey(k) PROVE KeyInv'
    BY <1>1, <1>2, <1>3 DEF CreateAPIKey, createAPIKey, generateAPIKey, KeyInv
  <1>4. ASSUME NEW k \in KeyIds, RotateAPIKey(k) PROVE KeyInv'
    <2> DEFINE s == strings + 1
               on == keys[k].on
    <2>1. /\ strings' = s /\ keys' = [keys EXCEPT ![k] = [string |-> s, on |-> on]]
          /\ withdrawn' = withdrawn \cup {keys[k].string} /\ keys[k].string # 0
      BY <1>4 DEF RotateAPIKey, rotateAPIKey, generateAPIKey, KeyInv
    <2>2. s \in 0 .. strings' /\ on \in BOOLEAN /\ strings' \in Nat /\ strings <= strings'
      BY <1>1, <2>1
    <2>3. withdrawn' \subseteq 1 .. strings' /\ s # 0 /\ s \notin withdrawn'
      <3>1. keys[k].string \in Int /\ keys[k].string >= 1 /\ keys[k].string <= strings
        BY <1>1, <2>1
      <3>2. \A x \in withdrawn' : x \in Int /\ x >= 1 /\ x <= strings
        BY <1>1, <2>1, <3>1
      <3>3. withdrawn' \subseteq 1 .. strings'
        BY <1>1, <2>2, <3>2
      <3>4. QED
        BY <1>1, <3>2, <3>3
    <2>4. \A j \in KeyIds : j # k => keys[j].string # s
      BY <1>1
    <2>5. \A j \in KeyIds : j # k /\ keys[j].on => keys[j].string \notin withdrawn'
      BY <2>1 DEF KeyInv
    <2> HIDE DEF s, on
    <2>6. QED
      BY <1>2, <2>1, <2>2, <2>3, <2>4, <2>5
  <1>5. ASSUME NEW k \in KeyIds, DeleteAPIKey(k) PROVE KeyInv'
    <2>1. /\ keys' = [keys EXCEPT ![k] = [string |-> 0, on |-> FALSE]]
          /\ withdrawn' = withdrawn \cup {keys[k].string} /\ keys[k].string # 0
          /\ strings' = strings
      BY <1>5 DEF DeleteAPIKey, deleteAPIKey, NoKey, KeyInv
    <2>2. withdrawn' \subseteq 1 .. strings' /\ 0 \in 0 .. strings' /\ strings <= strings'
      <3>1. keys[k].string \in Int /\ keys[k].string >= 1 /\ keys[k].string <= strings
        BY <1>1, <2>1
      <3>2. \A x \in withdrawn' : x \in Int /\ x >= 1 /\ x <= strings
        BY <1>1, <2>1, <3>1
      <3>3. strings \in Nat /\ strings' = strings
        BY <1>1, <2>1
      <3>4. QED
        BY <3>2, <3>3
    <2>3. \A j \in KeyIds : j # k /\ keys[j].on => keys[j].string \notin withdrawn'
      BY <2>1 DEF KeyInv
    <2>4. [string |-> 0, on |-> FALSE] = NoKey
      BY DEF NoKey
    <2>5. QED
      BY <1>1, <1>2, <2>1, <2>2, <2>3, <2>4
  <1>6. ASSUME NEW k \in KeyIds, NEW on \in BOOLEAN, UpdateAPIKeyStatus(k, on)
        PROVE  KeyInv'
    <2> DEFINE s == keys[k].string
    <2>1. /\ keys' = [keys EXCEPT ![k] = [string |-> s, on |-> on]] /\ s # 0
          /\ withdrawn' = IF on THEN withdrawn \ {s} ELSE withdrawn \cup {s}
          /\ strings' = strings
      BY <1>6 DEF UpdateAPIKeyStatus, updateAPIKeyStatus, KeyInv
    <2>2. /\ withdrawn' \subseteq 1 .. strings' /\ s \in 0 .. strings'
          /\ strings <= strings' /\ (on => s \notin withdrawn')
      <3>1. s \in Int /\ s >= 1 /\ s <= strings
        BY <1>1, <2>1
      <3> HIDE DEF s
      <3>2. \A x \in withdrawn' : x \in Int /\ x >= 1 /\ x <= strings
        BY <1>1, <2>1, <3>1
      <3>3. QED
        BY <1>1, <2>1, <3>1, <3>2
    <2>3. \A j \in KeyIds : j # k => keys[j].string # s
      BY <2>1 DEF KeyInv
    <2>4. \A j \in KeyIds : j # k /\ keys[j].on => keys[j].string \notin withdrawn'
      BY <2>1, <2>3 DEF KeyInv
    <2>5. strings' \in Nat /\ on \in BOOLEAN
      BY <1>1, <1>6, <2>1
    <2> HIDE DEF s
    <2>6. QED
      BY <1>2, <2>1, <2>2, <2>3, <2>4, <2>5
  <1>7. CASE UNCHANGED <<keys, strings, withdrawn>>
    BY <1>7 DEF KeyInv
  <1>8. QED
    BY <1>3, <1>4, <1>5, <1>6, <1>7
       DEF AccessNext, accessVars, SetTier, Authenticate, Admit, Refuse,
           AdmitUncounted, AccessTick

(* No request is let in by a string that its owner rotated, deleted or     *)
(* disabled, whatever was done to that key and to others since.            *)
THEOREM WithdrawnAlwaysOut == AccessSpec => WithdrawnKeyOut
  <1>1. KeyInv => \A r \in UserRequests : \A s \in withdrawn, n \in Tokens :
                    ~Authenticate(r, s, n)
    BY DEF KeyInv, Authenticate, getUserByAPIKey
  <1>2. QED
    BY <1>1, KeyInit, KeyNext, PTL DEF AccessSpec, WithdrawnKeyOut
=============================================================================
