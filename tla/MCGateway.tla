----------------------------- MODULE MCGateway -----------------------------
(* Gateway on small instances. *)
EXTENDS Gateway

CONSTANTS r1, r2
=============================================================================
