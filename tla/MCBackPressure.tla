--------------------------- MODULE MCBackPressure ---------------------------
(* Small instances of BackPressure: two connections that share one gate,   *)
(* or a single connection.                                                 *)
EXTENDS BackPressure, TLC

CONSTANTS l1, l2, c1, c2, c3, c4, c5

OneListener    == {l1}
TwoListeners   == {l1, l2}
ThreeCalls     == {c1, c2, c3}
FourCalls      == {c1, c2, c3, c4}
FiveCalls      == {c1, c2, c3, c4, c5}
AllToFirst     == [c \in Calls |-> l1]
Alternating    == [c \in Calls |-> IF c \in {c2, c4} THEN l2 ELSE l1]
=============================================================================
