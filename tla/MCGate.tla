------------------------------- MODULE MCGate -------------------------------
(* Instances of HeartbeatGate for TLC.                                       *)
EXTENDS HeartbeatGate, TLC

Symmetry == Permutations(Services)
=============================================================================
