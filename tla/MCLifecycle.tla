----------------------------- MODULE MCLifecycle -----------------------------
(* Instances of HeartbeatLifecycle for TLC.                                  *)
EXTENDS HeartbeatLifecycle, TLC

Symmetry == Permutations(Threads)
=============================================================================
