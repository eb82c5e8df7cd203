------------------------------- MODULE MCChat -------------------------------
(* me is the watched client, u is another one.  The valid nicks are        *)
(* interchangeable; with three of them a user can rename.                  *)
EXTENDS Chat, TLC

CONSTANTS me, u, ann, bob, cy, bad

Two      == {me, u}
OnlyMe   == {me}
AllNames == {ann, bob, cy, bad}
BadOnes  == {bad}
OneTwo   == me :> 1 @@ u :> 2
Alike    == Permutations(AllNames \ BadOnes)
=============================================================================
