-------------------------------- MODULE Gate --------------------------------
(***************************************************************************)
(* What the back pressure of thespis_remote promises to the peers that     *)
(* share it, without wakers, locks or polls: a call may be let in while a  *)
(* slot is free, takes a slot when its peer starts to process it, and      *)
(* gives the slot back when it is answered.  Passing the gate takes no     *)
(* slot.  BackPressure.tla implements this specification.                  *)
(***************************************************************************)
EXTENDS Integers

CONSTANTS Calls,   \* the incoming calls
          Slots    \* the slots the gate is created with

VARIABLES place,   \* where each call is
          free     \* the slots left, negative when the gate is overdrawn

gateVars == <<place, free>>

Places == {"wire", "waiting", "admitted", "running", "answered", "lost"}

Init == /\ place = [c \in Calls |-> "wire"]
        /\ free = Slots

Move(c, from, to) == /\ place[c] = from
                     /\ place' = [place EXCEPT ![c] = to]

Ask(c)    == Move(c, "wire", "waiting")     /\ UNCHANGED free
Admit(c)  == Move(c, "waiting", "admitted") /\ UNCHANGED free /\ free > 0
Start(c)  == Move(c, "admitted", "running") /\ free' = free - 1
Answer(c) == Move(c, "running", "answered") /\ free' = free + 1

(* The peer that read these calls shuts down: what it held is gone, and so *)
(* are the slots of the calls it was processing.                           *)
Lose(gone) == /\ \A c \in gone : place[c] \notin {"answered", "lost"}
              /\ place' = [c \in Calls |-> IF c \in gone THEN "lost" ELSE place[c]]
              /\ UNCHANGED free

Next == \/ \E c \in Calls : Ask(c) \/ Admit(c) \/ Start(c) \/ Answer(c)
        \/ \E gone \in SUBSET Calls : Lose(gone)

Spec == Init /\ [][Next]_gateVars

(* A free slot is not left unused while a call waits, and every call that  *)
(* was let in is answered unless its peer shuts down.                      *)
FairSpec == /\ Spec
            /\ \A c \in Calls : WF_gateVars(Ask(c) \/ Start(c) \/ Answer(c))
            /\ \A c \in Calls : SF_gateVars(Admit(c))
=============================================================================
