----------------------------- MODULE MCRegistry -----------------------------
(* Instances of ZkRegistry for TLC.                                          *)
EXTENDS ZkRegistry, TLC

CONSTANTS p1, p2, svc1, svc2, m1, m2

\* Two services, as in Zserver, published by every provider in the same order.
OfService == (m1 :> svc1) @@ (m2 :> svc2)
SamePaths == [p \in Providers |-> <<svc1, m1, svc2, m2>>]

\* p1 is restarted once.
OneRestart == [p \in Providers |-> IF p = p1 THEN 2 ELSE 1]
=============================================================================
