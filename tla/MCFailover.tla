---------------------------- MODULE MCFailover ----------------------------
(* Failover on small instances. *)
EXTENDS Failover

CONSTANTS c1, c2, r1, r2, a1

(* Every channel serves every request. *)
AllEligible == [r \in Requests |-> Channels]

(* The model of the video task a1 is not offered by channel c1. *)
NotC1 == [r \in Requests |-> IF r = a1 THEN Channels \ {c1} ELSE Channels]
=============================================================================
