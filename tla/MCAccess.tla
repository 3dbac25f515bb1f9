------------------------------ MODULE MCAccess ------------------------------
(* Tier 0 has no entry; tier 1 leaves the token limit to the server.        *)
EXTENDS Access

MCTierLimits == [t \in {1} |-> [rpm |-> 2, tpm |-> 0, model |-> 1]]
=============================================================================
