-------------------------------- MODULE Relay --------------------------------
(***************************************************************************)
(* src/relay_map.rs and examples/relay: a program with two peers.  Front   *)
(* is connected to a client, Back to a provider.  The service map of Front *)
(* is a RelayMap whose handler is the address of Back: the task of each    *)
(* request makes the same request of Back, and returns what becomes of it. *)
(***************************************************************************)
EXTENDS PeerAlone

CONSTANTS Front, Back,
          Leg        \* the request made of Back for each request of the client

Relayed == {r \in Requests : Origin[r] = Remote[Front]}

ASSUME RelayAssumption ==
  /\ Front # Back /\ Peers = {Front, Back}
  /\ Leg \in [Relayed -> Requests]
  /\ \A r \in Relayed : Origin[Leg[r]] = Back /\ (Leg[r] \in Calls <=> r \in Calls)
  /\ \A r, q \in Relayed : Leg[r] = Leg[q] => r = q
  /\ Registered[Back] = {}

VARIABLES legCid,   \* the id on the answer the task of each call has received
          ended     \* whether the program has closed the connection to the provider

relayVars == <<aloneVars, legCid, ended>>

RelayInit == /\ AloneInit
             /\ legCid = [r \in Relayed |-> NullCid]
             /\ ended = FALSE

-----------------------------------------------------------------------------
(* make_call and the two arms of send_service: the message goes to the     *)
(* mailbox of Back.                                                        *)
Forward(t) ==
  /\ t.state = Running
  /\ UserCall(Back, Leg[t.frame.req]) \/ UserSend(Back, Leg[t.frame.req])
  /\ UNCHANGED <<asked, garbled, legCid, ended>>

(* How the task ends.  A send is done as soon as it is in the mailbox; a   *)
(* call when Back refuses it, or when its channel is used or dropped.      *)
Gone     == {"failed", "cancelled"}
Reported == {"error", "timeout"}

GoneOnTimeout(o) == CASE o = "ok" -> "done"
                      [] o = "error" -> "RelayedError"
                      [] o \in Gone \cup {"timeout"} -> "RelayGone"
AsTask(o)        == CASE o = "ok" -> "done"
                      [] o \in Reported -> "RelayedError"
                      [] o \in Gone -> "RelayGone"

AnswersOnly(r) == outcome[Leg[r]] \in {"ok", "error"}
LegIsOver(r)   == IF r \in Calls THEN outcome[Leg[r]] \in {"ok"} \cup Reported \cup Gone
                                 ELSE outcome[Leg[r]] # "unused"

(* resp.set_cid( cid ): the id of the client goes back on the answer.      *)
KeepCid(f)    == [f EXCEPT !.cid = IF outcome[Leg[f.req]] = "ok" THEN legCid[f.req] ELSE @]
RestoreCid(f) == f

Return(t) ==
  /\ t.state = Running
  /\ LegIsOver(t.frame.req)
  /\ LET end == IF t.frame.req \in Calls THEN AsTask(outcome[Leg[t.frame.req]]) ELSE "done"
     IN  requests' = [requests EXCEPT ![Front] =
                        (@ \ {t}) \cup {[frame |-> RestoreCid(t.frame), state |-> end]}]
  /\ UNCHANGED <<actorVars, listener, timers, results, wireVars, events, free, outcome,
                 handled, asked, garbled, legCid, ended>>

(* Everything else the two peers do.  When the answer of the provider is   *)
(* handed to a task, legCid is the id it carries.                          *)
OtherStep(p) == \/ ActorStep(p) \/ GraceOver(p) \/ ListenerStep(p) \/ DeliverResult(p)
                \/ \E t \in requests[p] : Collect(p, t)
                \/ \E t \in timers[p] : TimerFires(p, t)

Recorded(step) ==
  /\ step
  /\ legCid' = [r \in Relayed |->
                  IF r \in Calls /\ outcome[Leg[r]] = "pending" /\ outcome'[Leg[r]] = "ok"
                  THEN Incoming(Back).cid ELSE legCid[r]]
  /\ UNCHANGED <<asked, garbled, ended>>

(* examples/relay/src/relay.rs: once the actor of Front has ended, close   *)
(* the connection to the provider.  Its address is dropped by Close, so it *)
(* ends when its mailbox is empty.                                         *)
FrontHasEnded == results[Front].at = "dropped" /\ mailbox[Front] = <<>>

EndQuietly ==
  /\ FrontHasEnded /\ ~ended
  /\ ended' = TRUE
  /\ UNCHANGED <<aloneVars, legCid>>

EndProgram ==
  /\ FrontHasEnded /\ ~ended
  /\ HasRoom(Back)
  /\ Post(Back, CloseMsg(FALSE))
  /\ ended' = TRUE
  /\ UNCHANGED <<actor, closed, sink, responses, services, counter, taskVars, wireVars,
                 events, free, outcome, handled, asked, garbled, legCid>>

-----------------------------------------------------------------------------
RelayNext ==
  \/ \E t \in requests[Front] : Forward(t) \/ Return(t)
  \/ \E p \in Peers :
       \/ Recorded(OtherStep(p))
       \/ UserClose(p) /\ UNCHANGED <<asked, garbled, legCid, ended>>
       \/ EnvStep(p) /\ UNCHANGED <<legCid, ended>>
  \/ EndProgram

RelaySpec == RelayInit /\ [][RelayNext]_relayVars

(* The executor does not stop while a task can run, a delay can end, or    *)
(* either of the other programs has something to read; the provider may    *)
(* never answer.  Every step uses up some of the finite work there is, so  *)
(* that fairness towards each task would add nothing.                      *)
Polled(p)  == \/ Recorded(OtherStep(p))
              \/ EnvRead(p) /\ UNCHANGED <<legCid, ended>>
Progress ==
  \/ \E p \in Peers : Polled(p)
  \/ \E t \in requests[Front] : Forward(t) \/ Return(t)
  \/ EndProgram

FairRelay == RelaySpec /\ WF_relayVars(Progress)

-----------------------------------------------------------------------------
(* relay_map.rs:180-186: the client finds the call by the id it gave it,   *)
(* whatever ids Back has given to its legs.                                *)
CidsRestored ==
  \A i \in DOMAIN wire[Remote[Front]] :
    LET f == wire[Remote[Front]][i] IN f.cid = EnvCid[f.req]

(* relay_map.rs:139-196: what the client is told of a call is what became  *)
(* of it, and it is told once.                                             *)
RelayedFaithfully ==
  \A r \in Relayed \cap Calls :
    /\ outcome[r] = "ok" => outcome[Leg[r]] = "ok"
    /\ outcome[r] = "error" => outcome[Leg[r]] \in Reported \cup Gone
    /\ outcome[r] # "wrong"

(* relay_map.rs:127-174: RelayGone is reported only when the connection to *)
(* the provider is closed or broken.                                       *)
GoneIsGone == "RelayGone" \in events[Front] => closed[Back] \/ eof[Back]

(* relay_map.rs:127-196: every relayed call is answered, if only with an   *)
(* error, whatever the provider does, as long as Front is open.            *)
RelayedCallsEnd ==
  \A r \in Relayed \cap Calls :
    outcome[r] = "pending" ~> outcome[r] \in {"ok", "error"} \/ closed[Front]

(* relay.rs:78-81, "If the nodec closes the connection, close our          *)
(* connection to provider."                                                *)
ProviderToo == closed[Front] ~> closed[Back]
=============================================================================
