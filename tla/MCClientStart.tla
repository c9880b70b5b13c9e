---------------------------- MODULE MCClientStart ----------------------------
(* Instances of ZkClientStart for TLC.                                       *)
EXTENDS ZkClientStart, TLC

Symmetry == Permutations(Threads)
=============================================================================
