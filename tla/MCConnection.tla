---------------------------- MODULE MCConnection ----------------------------
(* pa makes the calls c1, c2 and the sends s1, s2, s3, pb the call d1 and  *)
(* the sends x1 to x4.                                                     *)
EXTENDS Connection, TLC

CONSTANTS pa, pb, c1, c2, s1, s2, s3, d1, x1, x2, x3, x4, echo

None       == {}
Both       == {pa, pb}
OnlyA      == {pa}
OnlyB      == {pb}
Joined     == pa :> pb @@ pb :> pa
Served     == pa :> {echo} @@ pb :> {echo}
OneSid     == {echo}
AllEcho    == [r \in Requests |-> echo]
Makers     == [r \in Requests |-> IF r \in {d1, x1, x2, x3, x4} THEN pb ELSE pa]
TwoAndOne  == {c1, c2, d1}
OneCall    == {c1}
ManySends  == {s1, s2, s3, x1, x2, x3, x4}
SpawnFails == {"Spawn"}
=============================================================================
