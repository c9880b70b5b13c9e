------------------------------- MODULE MCCache -------------------------------
(* Instances of CacheService for TLC.                                        *)
EXTENDS CacheService, TLC

CONSTANTS c1, c2, k1, k2

TwoKeys == {<<k1, k2>>}
NoBatch == {}
Ttl == {-1, 0, 1}
TtlFinite == {1}
Symmetry == Permutations(Clients)
=============================================================================
