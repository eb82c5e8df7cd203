----------------------------- MODULE MCPeerAlone -----------------------------
(* Small instances of PeerAlone.  pa makes the requests c1, c2 and s1,     *)
(* ra makes d1, d2 and x1; each cfg says which of them occur.              *)
EXTENDS PeerAlone, TLC

CONSTANTS pa, ra,             \* a peer and the other end of its connection
          c1, c2, s1,         \* requests of pa
          d1, d2, x1,         \* requests of ra
          echo, other         \* services; other is not registered

None        == {}
OnePeer     == {pa}
ToOutside   == pa :> ra
TheOutside  == {ra}
Served      == pa :> {echo}
BothSids    == {echo, other}
OneSid      == {echo}
AllEcho     == [i \in Requests |-> echo]
OtherForD1  == [i \in Requests |-> IF i = d1 THEN other ELSE echo]
Makers      == [i \in Requests |-> IF i \in {c1, c2, s1} THEN pa ELSE ra]
OutsideCids == [i \in Requests |-> CASE i = d1 -> 1 [] i = d2 -> 2 [] OTHER -> 0]

TwoAndOne     == {c1, c2, d1}
IncomingTwo   == {d1, d2}
SendsBoth     == {s1, x1}

AllFaults     == FaultKinds
DeadHandler   == {"HandlerDead"}
=============================================================================
