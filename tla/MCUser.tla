------------------------------- MODULE MCUser -------------------------------
(* Two callers make one call each of the four methods, on keys that two of   *)
(* them share.  Three register, which needs one cache call only: an answer   *)
(* that is written to another connection needs three callers.                *)
(* With two loops a cache call's connection goes to the other loop, or back  *)
(* to its own when another caller came in between, and both loops may wait   *)
(* for each other; with three, two may share a connection to the third.      *)
(* Five descriptors: three callers and the channel's pair.                   *)
(* 1 + ... + 5 is the largest sum that fits in an int of five bits.          *)
EXTENDS UserService

CONSTANTS c1, c2, c3

Two(r, s) == [c \in {c1, c2} |-> IF c = c1 THEN r ELSE s]

Share == Two(<<"Register", 1>>, <<"GetUserProfile", 1>>)

MCAsks == { Two(<<"SumtoN", 5>>, <<"Login", 1>>),
            Share,
            [c \in Clients |-> <<"Register", CASE c = c1 -> 1 [] c = c2 -> 2 [] c = c3 -> 3>>] }

MCThreadNum == [a \in MCAsks |-> IF a = Share THEN NumLoops ELSE 2]
=============================================================================
