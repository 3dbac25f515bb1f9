---------------------------- MODULE MCAsyncTask ----------------------------
(* A small instance of AsyncTask: a hold over all three pools.             *)
EXTENDS AsyncTask

MCHold == [p \in PoolNames |-> IF p = "sub" THEN 2 ELSE 1]

(* An answer without a status reads as queued, an unknown word as itself. *)
MCWords ==
  [s \in UpStates |->
     CASE s = "queued" -> {"pending", ""}
       [] s = "running" -> {"in_progress", "rendering"}
       [] s = "succeeded" -> {"completed"}
       [] s = "failed" -> {"failed"}
       [] OTHER -> {"cancelled"}]
============================================================================
