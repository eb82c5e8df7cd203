------------------------------ MODULE PeerAlone ------------------------------
(***************************************************************************)
(* Peers whose connections lead out of the model: the other end of each is *)
(* any program that speaks the protocol.  It sends requests, answers the   *)
(* calls it has read in any order, late or never, puts something on the    *)
(* connection the codec rejects, and closes the connection at any time.    *)
(***************************************************************************)
EXTENDS Peer

CONSTANTS EnvCid,       \* the connection id the environment gives each of its calls
          MayGarble,    \* ends whose bytes the codec may reject, once
          MayHangUp     \* ends that may close the connection

ASSUME PeerAloneAssumption ==
  /\ \A p \in Peers : Remote[p] \notin Peers
  /\ EnvCid \in [Requests -> Cids]
  /\ \A r \in Requests : Origin[r] \notin Peers => (EnvCid[r] = NullCid <=> r \in Sends)

VARIABLES asked,     \* calls the other end has read and not answered
          garbled    \* ends that have sent what the codec rejects

aloneVars == <<vars, asked, garbled>>
envFrame  == <<actorVars, taskVars, events, free, handled>>

Outside == {Remote[p] : p \in Peers}

AloneInit == /\ Init
             /\ asked = [e \in Outside |-> {}]
             /\ garbled = {}

Transmit(p, m) == /\ ~eof[p]
                  /\ Len(wire[p]) < WireRoom
                  /\ wire' = [wire EXCEPT ![p] = Append(@, m)]
                  /\ UNCHANGED <<eof, deaf>>

(* What the other end makes of an answer: a second one is "wrong".         *)
Told(r, o) == [outcome EXCEPT ![r] = IF @ = "pending" THEN o ELSE "wrong"]

(* Read a frame: remember a call, learn the outcome of one's own.          *)
EnvRead(p) ==
  LET e == Remote[p]
      f == Head(wire[e])
  IN  /\ wire[e] # <<>>
      /\ wire' = [wire EXCEPT ![e] = Tail(@)]
      /\ asked' = IF Kind(f) = "IncomingCall" THEN [asked EXCEPT ![e] = @ \cup {f}] ELSE asked
      /\ outcome' = CASE Kind(f) = "CallResponse"    -> Told(f.req, "ok")
                      [] Kind(f) = "ConnectionError" -> Told(f.req, "error")
                      [] OTHER                       -> outcome
      /\ UNCHANGED <<envFrame, eof, deaf, garbled>>

EnvAnswer(p) ==
  \E f \in asked[Remote[p]] :
    /\ \/ Transmit(p, ResponseFrame(f.req, f.cid))
       \/ Transmit(p, ErrorFrame(f.req, f.cid))
    /\ asked' = [asked EXCEPT ![Remote[p]] = @ \ {f}]
    /\ UNCHANGED <<envFrame, outcome, garbled>>

EnvRequest(p) ==
  \E r \in Requests :
    /\ Origin[r] = Remote[p]
    /\ outcome[r] = "unused"
    /\ Transmit(p, RequestFrame(r, EnvCid[r]))
    /\ Learn(r, IF r \in Calls THEN "pending" ELSE "sent")
    /\ UNCHANGED <<envFrame, asked, garbled>>

EnvGarble(p) ==
  /\ Remote[p] \in MayGarble \ garbled
  /\ Transmit(p, WireErr)
  /\ garbled' = garbled \cup {Remote[p]}
  /\ UNCHANGED <<envFrame, outcome, asked>>

EnvHangUp(p) ==
  LET e == Remote[p]
  IN  /\ e \in MayHangUp
      /\ ~deaf[e]
      /\ eof' = [eof EXCEPT ![p] = TRUE]
      /\ deaf' = [deaf EXCEPT ![e] = TRUE]
      /\ wire' = [wire EXCEPT ![e] = <<>>]
      /\ asked' = [asked EXCEPT ![e] = {}]
      /\ UNCHANGED <<envFrame, outcome, garbled>>

(* The other end sees that the peer has closed, and closes as well.        *)
EnvFollow(p) ==
  LET e == Remote[p]
  IN  /\ eof[e] /\ ~eof[p] /\ wire[e] = <<>>
      /\ eof' = [eof EXCEPT ![p] = TRUE]
      /\ deaf' = [deaf EXCEPT ![e] = TRUE]
      /\ asked' = [asked EXCEPT ![e] = {}]
      /\ UNCHANGED <<envFrame, wire, outcome, garbled>>

EnvStep(p) == \/ EnvRead(p) \/ EnvAnswer(p) \/ EnvRequest(p) \/ EnvGarble(p)
              \/ EnvHangUp(p) \/ EnvFollow(p)

AloneNext == \E p \in Peers : \/ PeerStep(p) /\ UNCHANGED <<asked, garbled>>
                              \/ UserStep(p) /\ UNCHANGED <<asked, garbled>>
                              \/ EnvStep(p)

Spec == AloneInit /\ [][AloneNext]_aloneVars

(* The executor does not stop while a task of a peer can go on or a delay  *)
(* can end, and the local actors get to the requests they are handed.      *)
(* Every step uses up some of the finite work there is, so that fairness   *)
(* towards each task would add nothing.                                    *)
PeerProgress == (\E p \in Peers : PeerStep(p)) /\ UNCHANGED <<asked, garbled>>

FairSpec == Spec /\ WF_aloneVars(PeerProgress)

(* The other end also keeps reading.                                       *)
ReadingSpec == FairSpec /\ \A p \in Peers : WF_aloneVars(EnvRead(p))

-----------------------------------------------------------------------------
(* close_connection.rs: a peer that closes gets rid of its tasks.          *)
CloseCompletes == \A p \in Peers : closed[p] ~> (closed[p] /\ results[p].at = "dropped")

(* close_connection.rs:18, "If the remote closes the connection, all of    *)
(* this will happen automatically."                                        *)
RemoteCloseNoticed == \A p \in Peers : eof[p] ~> closed[p]

(* tests/backpressure.rs:5, "do eventually process all requests": every    *)
(* request that was put on the connection is processed, and every call     *)
(* answered, unless the peer closes.                                       *)
RequestsProcessed ==
  \A p \in Peers : \A i \in Requests : Origin[i] = Remote[p] =>
    /\ outcome[i] \in {"sent", "pending"} ~> i \in handled \/ closed[p]
    /\ outcome[i] = "pending" ~> outcome[i] \in {"ok", "error"} \/ closed[p]
==============================================================================
