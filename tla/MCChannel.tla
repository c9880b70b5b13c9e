------------------------------ MODULE MCChannel ------------------------------
(* Instances of ZrpcChannel for TLC.                                         *)
EXTENDS ZrpcChannel

CONSTANTS t1, t2, w, h1, h2, m1, m2

\* t1 and t2 make calls, and w is the heartbeat's worker.
AllThreads == {t1, t2, w}
Worker == {w}
AllChannels == {h1, h2}
OwnChannels == [t \in Threads |-> CASE t = t1 -> {h1} [] t = t2 -> {h2} [] t = w -> {}]
Services == [h \in Channels |-> IF h = h1 THEN {m1, m2} ELSE {m1}]
CallBounds == [t \in Threads |-> IF t = t1 THEN 2 ELSE 1]
=============================================================================
