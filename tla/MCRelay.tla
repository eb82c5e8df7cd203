------------------------------ MODULE MCRelay -------------------------------
(* d1 and x1 are requests of the client, l1 and y1 the ones made of Back   *)
(* for them.  The client gives d1 another id than Back gives to l1.        *)
EXTENDS Relay, TLC

CONSTANTS pa, pb, client, provider, echo, d1, x1, l1, y1

None       == {}
TwoPeers   == {pa, pb}
Ahead      == pa :> client @@ pb :> provider
BothEnds   == {client, provider}
OneSid     == {echo}
FrontOnly  == pa :> {echo} @@ pb :> {}
AllEcho    == [r \in Requests |-> echo]
Makers     == [r \in Requests |-> IF r \in {d1, x1} THEN client ELSE pb]
ClientCids == [r \in Requests |-> IF r = d1 THEN 2 ELSE 0]
LegAndSend == d1 :> l1 @@ x1 :> y1
OneCall    == {d1, l1}
OneSend    == {x1, y1}
=============================================================================
