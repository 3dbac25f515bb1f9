------------------------------ MODULE BillOnce ------------------------------
(***************************************************************************)
(* What the billing pipeline promises of each pre-deducted request,       *)
(* whatever queues, workers and retries lie in between: the request is     *)
(* closed once (settled or refunded), after that it is owed a bill, and    *)
(* the bill is charged to Postgres at most once.  A request may be lost    *)
(* (its process dies, or its task exhausts its retries) but a lost request *)
(* is never charged, and a charged one never becomes owed again.           *)
(***************************************************************************)
EXTENDS Naturals

CONSTANT Requests

VARIABLES stage,   \* stage[r]: where request r stands
          charged  \* charged[r]: how many times Postgres was debited for r

vars == <<stage, charged>>

Stages == {"open", "owed", "billed", "lost"}

Init ==
  /\ stage = [r \in Requests |-> "open"]
  /\ charged = [r \in Requests |-> 0]

(* The request ends: a settlement or a refund now has to be recorded. *)
Close(r) ==
  /\ stage[r] = "open"
  /\ stage' = [stage EXCEPT ![r] = "owed"]
  /\ UNCHANGED charged

(* The one debit of the request, together with its billing log. *)
Charge(r) ==
  /\ stage[r] = "owed"
  /\ stage' = [stage EXCEPT ![r] = "billed"]
  /\ charged' = [charged EXCEPT ![r] = @ + 1]

(* A crash drops any number of requests that are not billed yet. *)
Lose ==
  /\ \E L \in SUBSET {r \in Requests : stage[r] \in {"open", "owed"}} :
        stage' = [r \in Requests |-> IF r \in L THEN "lost" ELSE stage[r]]
  /\ UNCHANGED charged

Next == Lose \/ \E r \in Requests : Close(r) \/ Charge(r)

Spec == Init /\ [][Next]_vars
=============================================================================
