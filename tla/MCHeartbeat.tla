----------------------------- MODULE MCHeartbeat -----------------------------
(* Instances of ZrpcHeartbeat for TLC.  The scaled instance keeps the ratio  *)
(* that matters: one round fits in the timeout, two do not.                  *)
EXTENDS ZrpcHeartbeat, TLC

Symmetry == Permutations(Services)
=============================================================================
