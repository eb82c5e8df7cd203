----------------------------- MODULE RelayProofs -----------------------------
(***************************************************************************)
(* Theorems about Relay.tla: a program that relays between two             *)
(* connections, for any requests, services, connection ids and slots, and  *)
(* whatever the programs at the other ends do.                             *)
(***************************************************************************)
EXTENDS Relay, PeerAloneProofs

USE WireFormatAssumption, PeerAssumption

-----------------------------------------------------------------------------
(* What the task of a relayed request does is not a step of a peer alone.  *)

(* relay_map.rs: the tasks of Front process requests of the client.        *)
LEMMA TaskOfClient ==
  ASSUME AloneInv, RelayAssumption, NEW t \in requests[Front]
  PROVE  /\ t \in Tasks /\ t.frame \in Frames /\ t.frame.req \in Relayed
         /\ t.frame.req \in Requests /\ ~Answers(t.frame)
         /\ t.frame.req \in Calls <=> t.frame.cid # NullCid
<1>1. Front \in Peers
  BY DEF RelayAssumption
<1>2. t \in Tasks
  BY <1>1 DEF AloneInv, AloneTyped, Typed, TypeOK
<1>3. t.frame \in Frames /\ t.frame.req \in Requests /\ t.frame # WireErr
  BY <1>2 DEF Tasks, Frames
<1>4. Origin[t.frame.req] = Remote[Front] /\ ~Answers(t.frame)
  BY <1>1 DEF AloneInv, Requesting, Traffic, TrafficAt
<1>5. PICK g \in Labels : Labelled(g)
  BY DEF AloneInv, Knowing, Identified
<1>6. Tagged(g, t.frame)
  BY <1>1, <1>5 DEF Labelled, LabelledAt, TaggedTask
<1> QED
  BY <1>2, <1>3, <1>4, <1>6 DEF Relayed, Tagged

(* relay_map.rs:139-196: how a task ends.                                  *)
LEMMA ReturnEnds ==
  ASSUME AloneInv, RelayAssumption, NEW t \in requests[Front], Return(t)
  PROVE  \E end \in {"done", "RelayedError", "RelayGone"} :
           LET u == [frame |-> t.frame, state |-> end]
               o == outcome[Leg[t.frame.req]]
           IN  /\ requests' = [requests EXCEPT ![Front] = (@ \ {t}) \cup {u}]
               /\ t.frame.req \in Calls => /\ end = "done" => o = "ok"
                                           /\ end = "RelayedError" => o \in Reported
                                           /\ end = "RelayGone" => o \in Gone
               /\ t.frame.req \notin Calls => end = "done"
<1>1. PICK end : end = IF t.frame.req \in Calls THEN AsTask(outcome[Leg[t.frame.req]]) ELSE "done"
  OBVIOUS
<1>2. requests' = [requests EXCEPT ![Front] =
                     (@ \ {t}) \cup {[frame |-> t.frame, state |-> end]}]
  BY <1>1 DEF Return, RestoreCid
<1>3. t.frame.req \in Calls => outcome[Leg[t.frame.req]] \in {"ok"} \cup Reported \cup Gone
  <2>1. LegIsOver(t.frame.req)
    BY DEF Return
  <2> QED
    BY <2>1 DEF LegIsOver
<1>4. ASSUME NEW o \in {"ok"} \cup Reported \cup Gone
      PROVE  /\ AsTask(o) \in {"done", "RelayedError", "RelayGone"}
             /\ AsTask(o) = "done" => o = "ok"
             /\ AsTask(o) = "RelayedError" => o \in Reported
             /\ AsTask(o) = "RelayGone" => o \in Gone
  BY <1>4 DEF AsTask, Reported, Gone
<1>5. PICK o : o = outcome[Leg[t.frame.req]]
  OBVIOUS
<1>6. /\ end \in {"done", "RelayedError", "RelayGone"}
      /\ t.frame.req \in Calls => /\ end = "done" => o = "ok"
                                  /\ end = "RelayedError" => o \in Reported
                                  /\ end = "RelayGone" => o \in Gone
      /\ t.frame.req \notin Calls => end = "done"
  BY <1>1, <1>3, <1>4, <1>5
<1> QED
  BY <1>2, <1>5, <1>6

(* relay_map.rs: a task that ends is the same request, and nothing else    *)
(* changes.                                                                *)
LEMMA ReturnKeepsAlone ==
  ASSUME AloneInv, RelayAssumption, NEW t \in requests[Front], Return(t)
  PROVE  AloneInv'
<1>1. PICK end \in {"done", "RelayedError", "RelayGone"} :
           /\ requests' = [requests EXCEPT ![Front] =
                             (@ \ {t}) \cup {[frame |-> t.frame, state |-> end]}]
           /\ t.frame.req \notin Calls => end = "done"
  BY ReturnEnds
<1>2. PICK u : u = [frame |-> t.frame, state |-> end]
  OBVIOUS
<1>3. /\ requests \in [Peers -> SUBSET Tasks] /\ Front \in Peers
      /\ u.frame = t.frame /\ u.state = end
      /\ requests' = [requests EXCEPT ![Front] = (@ \ {t}) \cup {u}]
  BY <1>1, <1>2 DEF RelayAssumption, AloneInv, AloneTyped, Typed, TypeOK
<1>4. u \in Tasks
  BY <1>2, TaskOfClient DEF Tasks, TaskStates, FaultKinds
<1>5. UNCHANGED <<actorVars, listener, timers, results, wireVars, events, free, outcome,
                  handled, asked>>
  BY DEF Return
<1>6. /\ requests'[Front] = (requests[Front] \ {t}) \cup {u}
      /\ \A q \in Peers \ {Front} : requests'[q] = requests[q]
      /\ requests' \in [Peers -> SUBSET Tasks]
  BY <1>3, <1>4
<1> USE <1>5 DEF actorVars, wireVars
<1>7. AloneTyped'
  BY <1>6 DEF AloneInv, AloneTyped, Typed, TypeOK, CallsWritten, WritingFor, FramesOnly
<1>8. Traffic'
  <2>1. ASSUME NEW p \in Peers, NEW x \in requests'[p]
        PROVE  \E y \in requests[p] : y.frame = x.frame
    BY <1>3, <1>6
  <2>2. ASSUME NEW p \in Peers PROVE TrafficAt(p)'
    <3>1. TrafficAt(p)
      BY DEF AloneInv, Requesting, Traffic
    <3>2. \A x \in requests'[p] : Origin[x.frame.req] = Remote[p] /\ ~Answers(x.frame)
      BY <2>1, <3>1 DEF TrafficAt
    <3> QED
      BY <3>1, <3>2 DEF TrafficAt
  <2> QED
    BY <2>2 DEF Traffic
<1>9. QueuedOnce' /\ AllMapped' /\ AllTimed'
  <2>1. QueuedOnce'
    BY DEF AloneInv, Requesting, QueuedOnce, QueuedAt, Makes
  <2>2. AllMapped'
    BY DEF AloneInv, Requesting, AllMapped, MapEntry
  <2>3. UNCHANGED <<outcome, responses, timers, mailbox>> /\ AllTimed
    BY DEF AloneInv
  <2>4. ASSUME NEW p \in Peers, NEW c \in Calls PROVE PendingAt(p, c)' <=> PendingAt(p, c)
    <3>1. \A x : Timed(p, x)' <=> Timed(p, x)
      BY <2>3 DEF Timed, InMailbox
    <3> QED
      BY <2>3, <3>1 DEF PendingAt
  <2>5. AllTimed'
    BY <2>3, <2>4 DEF AllTimed
  <2> QED
    BY <2>1, <2>2, <2>5
<1>10. AllHeld'
  <2>1. ASSUME NEW p \in Peers, NEW r \in Requests, Origin[r] = Remote[p]
        PROVE  Held(p, r)'
    <3>1. Held(p, r)
      BY <2>1 DEF AloneInv, AllHeld
    <3>2. OnlyTask(p, r)' /\ (InTask(p, r)' <=> InTask(p, r))
      BY <1>3, <1>6, <3>1 DEF Held, Single, OnlyTask, InTask
    <3>3. /\ ToRead(p, r)' <=> ToRead(p, r)
          /\ Answered(p, r)' <=> Answered(p, r)
          /\ Read(p, r)' <=> Read(p, r)
          /\ InQueue(p, r)' <=> InQueue(p, r)
          /\ Collected(p, r)' <=> Collected(p, r)
          /\ Written(p, r)' <=> Written(p, r)
      BY DEF ToRead, Answered, Read, InQueue, Collected, Written
    <3>4. Single(p, r)'
      BY <3>1, <3>2 DEF Held, Single
    <3>5. Apart(p, r)'
      BY <3>1, <3>2, <3>3 DEF Held, Apart
    <3>6. Around(p, r)' => Around(p, r)
      BY <3>2, <3>3 DEF Around
    <3> QED
      BY <3>1, <3>4, <3>5, <3>6 DEF Held
  <2> QED
    BY <2>1 DEF AllHeld
<1>11. PICK g \in Labels : Knowing(g)
  BY DEF AloneInv
<1>12. Labelled(g)'
  <2>1. ASSUME NEW p \in Peers PROVE LabelledAt(g, p)'
    <3>1. LabelledAt(g, p)
      BY <1>11 DEF Knowing, Identified, Labelled
    <3>2. p = Front => TaggedTask(g, u)
      BY <1>1, <1>3, <3>1, TaskOfClient DEF LabelledAt, TaggedTask
    <3>3. \A x \in requests'[p] : TaggedTask(g, x)
      BY <1>6, <3>1, <3>2 DEF LabelledAt
    <3> QED
      BY <3>1, <3>3 DEF LabelledAt
  <2> QED
    BY <1>11, <2>1 DEF Knowing, Identified, Labelled
<1>13. Knowing(g)'
  BY <1>11, <1>12 DEF Knowing, Identified, Ungiven, Waits, InMailbox, Counted, FixedIds,
     AskedRight
<1> QED
  BY <1>7, <1>8, <1>9, <1>10, <1>13 DEF AloneInv, Requesting

(* relay.rs: closing the connection to the provider is one more message    *)
(* for Back.                                                               *)
LEMMA EndKeepsAlone ==
  ASSUME AloneInv, RelayAssumption, EndProgram
  PROVE  AloneInv'
<1>1. UNCHANGED <<actor, closed, sink, responses, services, counter, taskVars, wireVars,
                  events, free, outcome, handled, asked>>
  BY DEF EndProgram
<1> USE <1>1 DEF taskVars, wireVars
<1>2. PICK x \in Messages : x = CloseMsg(FALSE)
  BY MessagesAreMessages
<1>3. x.type = "CloseConnection"
  BY <1>2 DEF CloseMsg
<1>4. /\ mailbox \in [Peers -> Seq(Messages)] /\ Back \in Peers
      /\ mailbox' = [mailbox EXCEPT ![Back] = Append(@, x)]
  BY <1>2 DEF RelayAssumption, AloneInv, AloneTyped, Typed, TypeOK, EndProgram, Post
<1>5. mailbox' \in [Peers -> Seq(Messages)]
  BY <1>4
<1>6. ASSUME NEW p \in Peers, NEW i \in DOMAIN mailbox'[p]
      PROVE  \/ i \in DOMAIN mailbox[p] /\ mailbox'[p][i] = mailbox[p][i]
             \/ i \notin DOMAIN mailbox[p] /\ mailbox'[p][i] = x
  BY <1>4, PutInto
<1>7. ASSUME NEW p \in Peers, NEW i \in DOMAIN mailbox[p]
      PROVE  i \in DOMAIN mailbox'[p] /\ mailbox'[p][i] = mailbox[p][i]
  BY <1>4
<1>8. ASSUME NEW p \in Peers, NEW m, m # x PROVE InMailbox(p, m)' <=> InMailbox(p, m)
  BY <1>6, <1>7, <1>8 DEF InMailbox
<1>9. AloneTyped'
  BY <1>5 DEF AloneInv, AloneTyped, Typed, TypeOK, CallsWritten, WritingFor, FramesOnly
<1>10. Traffic'
  <2>1. \A p \in Peers : Meant(p, x)
    BY <1>3 DEF Meant
  <2>2. ASSUME NEW p \in Peers PROVE TrafficAt(p)'
    <3>1. TrafficAt(p)
      BY DEF AloneInv, Requesting, Traffic
    <3>2. \A i \in DOMAIN mailbox'[p] : Meant(p, mailbox'[p][i])
      BY <1>6, <2>1, <3>1 DEF TrafficAt
    <3> QED
      BY <3>1, <3>2 DEF TrafficAt
  <2> QED
    BY <2>2 DEF Traffic
<1>11. QueuedOnce'
  <2>1. ASSUME NEW p \in Peers, NEW r \in Requests PROVE QueuedAt(p, r)'
    <3>1. QueuedAt(p, r) /\ ~Asks(p, x, r) /\ (Makes(p, r)' <=> Makes(p, r))
      BY <1>3 DEF AloneInv, Requesting, QueuedOnce, Asks, Makes
    <3>2. ASSUME NEW i \in DOMAIN mailbox'[p], Asks(p, mailbox'[p][i], r)
          PROVE  i \in DOMAIN mailbox[p] /\ Asks(p, mailbox[p][i], r)
      BY <1>6, <3>1, <3>2
    <3> QED
      BY <3>1, <3>2 DEF QueuedAt
  <2> QED
    BY <2>1 DEF QueuedOnce
<1>12. AllMapped' /\ AllTimed'
  <2>1. AllMapped'
    BY DEF AloneInv, Requesting, AllMapped, MapEntry
  <2>2. \A t : TimeoutMsg(t) # x
    BY <1>3 DEF TimeoutMsg
  <2>3. \A p \in Peers : \A c \in Calls : PendingAt(p, c)'
    BY <1>8, <2>2 DEF AloneInv, AllTimed, PendingAt, Timed
  <2> QED
    BY <2>1, <2>3 DEF AllTimed
<1>13. AllHeld'
  <2>1. ASSUME NEW p \in Peers, NEW r \in Requests, Origin[r] = Remote[p]
        PROVE  Held(p, r)'
    <3>1. Held(p, r) /\ x \notin Concerning(r)
      BY <1>3, <2>1 DEF AloneInv, AllHeld, Concerning
    <3>2. ASSUME NEW i \in DOMAIN mailbox'[p], mailbox'[p][i] \in Concerning(r)
          PROVE  i \in DOMAIN mailbox[p] /\ mailbox[p][i] \in Concerning(r)
      BY <1>6, <3>1, <3>2
    <3>3. OnlyOne(mailbox'[p], Concerning(r))
      BY <3>1, <3>2 DEF Held, Single, OnlyOne
    <3>4. InQueue(p, r)' => InQueue(p, r)
      BY <3>2 DEF InQueue, Has
    <3>5. /\ ToRead(p, r)' <=> ToRead(p, r)
          /\ Answered(p, r)' <=> Answered(p, r)
          /\ Read(p, r)' <=> Read(p, r)
          /\ InTask(p, r)' <=> InTask(p, r)
          /\ Collected(p, r)' <=> Collected(p, r)
          /\ Written(p, r)' <=> Written(p, r)
      BY DEF ToRead, Answered, Read, InTask, Collected, Written
    <3>6. Single(p, r)'
      BY <3>1, <3>3 DEF Held, Single, OnlyTask
    <3>7. Apart(p, r)'
      BY <3>1, <3>4, <3>5 DEF Held, Apart
    <3>8. Around(p, r)' => Around(p, r)
      BY <3>4, <3>5 DEF Around
    <3> QED
      BY <3>1, <3>6, <3>7, <3>8 DEF Held
  <2> QED
    BY <2>1 DEF AllHeld
<1>14. PICK g \in Labels : Knowing(g)
  BY DEF AloneInv
<1>15. Labelled(g)'
  <2>1. TaggedMsg(g, x)
    BY <1>3 DEF TaggedMsg
  <2>2. ASSUME NEW p \in Peers PROVE LabelledAt(g, p)'
    <3>1. LabelledAt(g, p)
      BY <1>14 DEF Knowing, Identified, Labelled
    <3>2. \A i \in DOMAIN mailbox'[p] : TaggedMsg(g, mailbox'[p][i])
      BY <1>6, <2>1, <3>1 DEF LabelledAt
    <3> QED
      BY <3>1, <3>2 DEF LabelledAt
  <2> QED
    BY <1>14, <2>2 DEF Knowing, Identified, Labelled
<1>16. Ungiven(g)'
  <2>1. \A c : CallMsg(c) # x
    BY <1>3 DEF CallMsg
  <2> QED
    BY <1>8, <1>14, <2>1 DEF Knowing, Identified, Ungiven, Waits
<1>17. Knowing(g)'
  BY <1>14, <1>15, <1>16 DEF Knowing, Identified, Counted, FixedIds, AskedRight
<1> QED
  BY <1>9, <1>10, <1>11, <1>12, <1>13, <1>17 DEF AloneInv, Requesting

-----------------------------------------------------------------------------
(* The other steps are those of the peers, of their users and of the other *)
(* programs.                                                               *)

(* address.rs: only users make requests.                                   *)
LEMMA PeersMakeNone ==
  ASSUME Typed, NEW p \in Peers, PeerStep(p), NEW r \in Requests
  PROVE  ~NewlyMade(r)
<1> USE DEF Typed, TypeOK
<1> SUFFICES ASSUME NewlyMade(r) PROVE FALSE
  OBVIOUS
<1> USE DEF NewlyMade
<1>1. ASSUME NEW x, NEW o, Learn(x, o) PROVE o = "queued"
  BY <1>1 DEF Learn
<1>2. ASSUME NEW w, DropEverything(p, w) PROVE FALSE
  BY <1>2 DEF DropEverything
<1>3. ASSUME NEW w, NEW c, Close(p, c, w) PROVE FALSE
  BY <1>2, <1>3 DEF Close
<1>4. ~HandleCloseConnection(p) /\ ~ErrorSentThenClose(p)
  BY <1>3, ClosingSteps
<1>5. ~GraceOver(p)
  BY <1>2 DEF GraceOver
<1>6. \A cid, x, o : Resolve(p, cid, x, o) => o = "queued"
  BY <1>1 DEF Resolve
<1>7. ~Resume(p)
  BY <1>1, <1>4 DEF Resume, CallSent, CallSentNoTimer, FrameSent, ResponseSent, ErrorSent,
     WriteFails
<1>8. ~Handle(p)
  BY <1>1, <1>4, <1>6 DEF Handle, HandleCall, RefuseCall, HandleWireFormat,
     RefuseWireFormat, HandleCallResponse, DropCallResponse, HandleRequestError,
     HandleTimeout, IgnoreIncoming, IncomingFailure, IncomingSend, IncomingCall,
     IncomingResponse, IncomingError
<1>9. CASE ListenerStep(p) \/ DeliverResult(p)
           \/ (\E t \in requests[p] : Serve(p, t) \/ Collect(p, t))
           \/ (\E t \in timers[p] : TimerFires(p, t))
  BY <1>9 DEF ListenerStep, ListenNext, PassGate, ListenSend, ListenEnd, Serve, Collect,
     DeliverResult, TimerFires
<1> QED
  BY <1>5, <1>7, <1>8, <1>9 DEF PeerStep, ActorStep

(* What Front and Back do as peers.  Only Back makes requests of its own,  *)
(* and no local actor ends a task.                                         *)
Moves(p) == /\ PeerStep(p) \/ UserStep(p)
            /\ UNCHANGED asked
            /\ \A r \in Requests : Origin[r] = Front => ~NewlyMade(r)
            /\ \A t \in requests'[p] : t \in requests[p] \/ t.state = Running

(* incoming.rs: the tasks of a peer, but for the local actors that end one.*)
LEMMA TasksStart ==
  ASSUME Typed, NEW p \in Peers, OtherStep(p) \/ UserStep(p), NEW t \in requests'[p]
  PROVE  t \in requests[p] \/ t.state = Running
<1> USE DEF Typed, TypeOK
<1>1. ASSUME NEW f, Nurse(p, f) PROVE t \in requests[p] \/ t.state = Running
  BY <1>1 DEF Nurse
<1>2. ASSUME NEW w, DropEverything(p, w) PROVE FALSE
  BY <1>2 DEF DropEverything
<1>3. ASSUME NEW w, NEW c, Close(p, c, w) PROVE t \in requests[p]
  BY <1>2, <1>3 DEF Close, taskVars
<1>4. CASE HandleCloseConnection(p) \/ ErrorSentThenClose(p)
  BY <1>3, <1>4, ClosingSteps
<1>5. CASE IncomingSend(p) \/ IncomingCall(p)
  BY <1>1, <1>5 DEF IncomingSend, IncomingCall
<1>6. CASE \E u \in requests[p] : Collect(p, u)
  BY <1>6 DEF Collect
<1>7. CASE GraceOver(p)
  BY <1>2, <1>7 DEF GraceOver
<1>8. CASE UNCHANGED requests
  BY <1>8
<1> QED
  BY <1>4, <1>5, <1>6, <1>7, <1>8 DEF OtherStep, ActorStep, Handle, Resume, HandleCall,
     RefuseCall, HandleWireFormat, RefuseWireFormat, HandleCallResponse, DropCallResponse,
     HandleRequestError, HandleTimeout, IgnoreIncoming, IncomingFailure, IncomingResponse,
     IncomingError, CallSent, CallSentNoTimer, FrameSent, ResponseSent, ErrorSent,
     WriteFails, ListenerStep, ListenNext, PassGate, ListenSend, ListenEnd, DeliverResult,
     TimerFires, UserStep, UserCall, UserSend, UserClose, taskVars

(* examples/relay: what the program and those around it do.                *)
LEMMA RelaySteps ==
  ASSUME AloneInv, RelayAssumption, RelayNext
  PROVE  \/ \E t \in requests[Front] : Return(t)
         \/ \E p \in Peers : Moves(p)
         \/ \E p \in Peers : EnvStep(p)
         \/ EndProgram
<1>1. Typed /\ Front \in Peers /\ Back \in Peers /\ Front # Back
  BY DEF AloneInv, AloneTyped, RelayAssumption
<1>2. ASSUME NEW t \in requests[Front], Forward(t) PROVE Moves(Back)
  <2>1. t.frame.req \in Relayed /\ Leg[t.frame.req] \in Requests
        /\ Origin[Leg[t.frame.req]] = Back
    BY TaskOfClient DEF RelayAssumption
  <2>2. UserStep(Back) /\ UNCHANGED asked
    BY <1>2, <2>1 DEF Forward, UserStep
  <2>3. ASSUME NEW r \in Requests, NewlyMade(r) PROVE r = Leg[t.frame.req]
    BY <1>1, <1>2, <2>3 DEF Forward, UserCall, UserSend, Learn, NewlyMade, Typed, TypeOK
  <2> QED
    BY <1>1, <2>1, <2>2, <2>3, TasksStart DEF Moves
<1>3. ASSUME NEW p \in Peers, Recorded(OtherStep(p)) PROVE Moves(p)
  <2>1. OtherStep(p) /\ PeerStep(p) /\ UNCHANGED asked
    BY <1>3 DEF Recorded, OtherStep, PeerStep
  <2> QED
    BY <1>1, <2>1, PeersMakeNone, TasksStart DEF Moves
<1>4. ASSUME NEW p \in Peers, UserClose(p), UNCHANGED asked PROVE Moves(p)
  <2>1. UserStep(p) /\ UNCHANGED outcome
    BY <1>4 DEF UserStep, UserClose
  <2> QED
    BY <1>1, <1>4, <2>1, TasksStart DEF Moves, NewlyMade
<1> QED
  BY <1>2, <1>3, <1>4 DEF RelayNext

(* What holds of peers and other ends holds of the program.                *)
LEMMA RelayKeepsAlone ==
  ASSUME AloneInv, RelayAssumption, PeerAloneAssumption, [RelayNext]_relayVars
  PROVE  AloneInv'
<1>1. ASSUME NEW p \in Peers, Moves(p) PROVE AloneInv'
  BY <1>1, PeersKeepAlone DEF Moves
<1>2. UNCHANGED relayVars => UNCHANGED <<vars, asked>>
  BY DEF relayVars, aloneVars
<1> QED
  BY <1>1, <1>2, RelaySteps, ReturnKeepsAlone, EndKeepsAlone, EnvKeepsAlone, NobodyMoves

(* src/peer.rs: the invariant of the peers is one of the program.          *)
LEMMA RelayAlwaysAlone == RelaySpec => []AloneInv
<1> USE PeerAloneAssumption, RelayAssumption
<1>1. RelayInit => AloneInv
  BY FirstAlone DEF RelayInit
<1>2. AloneInv /\ [RelayNext]_relayVars => AloneInv'
  BY RelayKeepsAlone
<1> QED
  BY <1>1, <1>2, PTL DEF RelaySpec

-----------------------------------------------------------------------------
(* Front only answers: it makes no requests of its own.                    *)
NoRequest(m) == /\ m.type # "Call"
                /\ m.type = "WireFormat" => Answers(m.frame)

FrontAnswers ==
  /\ \A i \in DOMAIN mailbox[Front] : NoRequest(mailbox[Front][i])
  /\ actor[Front].at = "write" => Answers(actor[Front].frame)
  /\ \A i \in DOMAIN wire[Remote[Front]] : Answers(wire[Remote[Front]][i])

Remains(w, s) == w = s \/ w = <<>> \/ (s # <<>> /\ w = Tail(s))
Within(w, s)  == \A i \in DOMAIN w : \E j \in DOMAIN s : w[i] = s[j]

(* What is left of a connection that ends or is read from was there.       *)
LEMMA WhatRemains ==
  ASSUME NEW S, NEW s \in Seq(S), NEW w, Remains(w, s)
  PROVE  Within(w, s)
<1> USE DEF Remains, Within
<1>1. CASE s # <<>> /\ w = Tail(s)
  <2>1. \A i \in DOMAIN Tail(s) : i + 1 \in DOMAIN s /\ Tail(s)[i] = s[i + 1]
    BY <1>1, TakenFrom
  <2> QED
    BY <1>1, <2>1
<1>2. CASE w = s \/ w = <<>>
  BY <1>2
<1> QED
  BY <1>1, <1>2

(* relay.rs, address.rs: nobody calls Front but the client.                *)
LEMMA FrontAnswersOnly ==
  ASSUME AloneInv, FrontAnswers, RelayAssumption, NEW p \in Peers, Moves(p)
  PROVE  FrontAnswers'
<1> DEFINE e == Remote[Front]
<1>1. /\ Typed /\ Requesting /\ Front \in Peers /\ mailbox[Front] \in Seq(Messages)
      /\ e \in Ends
  BY EndsOfPeer DEF AloneInv, AloneTyped, Typed, TypeOK, RelayAssumption
<1>2. PICK s \in Seq(Items) : s = wire[e]
  BY <1>1 DEF Typed, TypeOK, Items
<1>3. PeerStep(p) \/ UserStep(p)
  BY DEF Moves
<1>4. ASSUME p = Front, NEW m \in Messages, Arrives(Front, m) PROVE NoRequest(m)
  <2>1. \A r \in Requests : Origin[r] = Front => ~NewlyMade(r)
    BY DEF Moves
  <2>2. results[Front].at = "send" => Returned(Front, results[Front].msg)
    BY <1>1 DEF Requesting, Traffic, TrafficAt
  <2>3. results[Front].at = "send" => results[Front].msg \in Results
    BY <1>1 DEF Typed, TypeOK, Collectors, Collecting
  <2>4. \A x \in Results : x.type # "Call"
    BY DEF Results
  <2> QED
    BY <1>4, <2>1, <2>2, <2>3, <2>4
       DEF Arrives, NoRequest, Returned, IncomingMsg, CloseMsg, TimeoutMsg, Requests
<1>5. \A i \in DOMAIN mailbox'[Front] : NoRequest(mailbox'[Front][i])
  <2>1. CASE mailbox'[Front] = mailbox[Front]
    BY <2>1 DEF FrontAnswers
  <2>2. CASE Taken(Front)
    BY <1>1, <2>2, HeadOfMailbox DEF FrontAnswers
  <2>3. ASSUME p = Front, NEW m \in Messages, Arrives(Front, m),
               mailbox'[Front] = Append(mailbox[Front], m)
        PROVE  \A i \in DOMAIN mailbox'[Front] : NoRequest(mailbox'[Front][i])
    <3>1. PICK u \in Seq(Messages) : u = mailbox[Front]
      BY <1>1
    <3>2. \A i \in DOMAIN Append(u, m) : (i \in DOMAIN u /\ Append(u, m)[i] = u[i]) \/ Append(u, m)[i] = m
      BY PutInto
    <3>3. NoRequest(m)
      BY <1>4, <2>3
    <3> QED
      BY <2>3, <3>1, <3>2, <3>3 DEF FrontAnswers
  <2>4. p # Front => mailbox'[Front] = mailbox[Front]
    BY <1>1, <1>3, OthersUntouched
  <2> QED
    BY <1>1, <1>3, <2>1, <2>2, <2>3, <2>4, MailboxStep
<1>6. actor'[Front].at = "write" => Answers(actor'[Front].frame)
  <2>1. CASE actor'[Front] = actor[Front]
    BY <2>1 DEF FrontAnswers
  <2>2. ASSUME Taken(Front), NEW f, NEW then, ToWrite(Front, Head(mailbox[Front]), f, then)
        PROVE  Answers(f)
    <3>1. PICK m : m = Head(mailbox[Front])
      OBVIOUS
    <3>2. m \in Messages /\ NoRequest(m) /\ Meant(Front, m)
      BY <1>1, <2>2, <3>1, HeadOfMailbox DEF FrontAnswers, Requesting, Traffic, TrafficAt
    <3> QED
      BY <2>2, <3>1, <3>2 DEF ToWrite, NoRequest, Meant, Answers, ErrorFrame
  <2>3. \A f, then : Writing(f, then).frame = f
    BY DEF Writing
  <2>4. p # Front => actor'[Front] = actor[Front]
    BY <1>1, <1>3, OthersUntouched DEF OthersKept
  <2> QED
    BY <1>1, <1>3, <2>1, <2>2, <2>3, <2>4, ActorStepWrites
<1>7. \A i \in DOMAIN wire'[e] : Answers(wire'[e][i])
  <2>1. \A i \in DOMAIN s : Answers(s[i])
    BY <1>2 DEF FrontAnswers
  <2>2. CASE wire'[e] = s \/ wire'[e] = <<>> \/ (s # <<>> /\ wire'[e] = Tail(s))
    <3>1. Remains(wire'[e], s)
      BY <2>2 DEF Remains
    <3>2. Within(wire'[e], s)
      BY <3>1, WhatRemains
    <3> QED
      BY <2>1, <3>2 DEF Within
  <2>3. ASSUME actor[Front].at = "write", wire'[e] = Append(s, actor[Front].frame)
        PROVE  \A i \in DOMAIN wire'[e] : Answers(wire'[e][i])
    <3>1. PICK f : f = actor[Front].frame /\ Answers(f)
      BY <2>3 DEF FrontAnswers
    <3>2. f \in Items
      <4>1. actor[Front] \in Actors
        BY <1>1 DEF Typed, TypeOK
      <4> QED
        BY <2>3, <3>1, <4>1 DEF Actors, Idle, InGrace, Items
    <3>3. \A i \in DOMAIN Append(s, f) : (i \in DOMAIN s /\ Append(s, f)[i] = s[i]) \/ Append(s, f)[i] = f
      BY <3>2, PutInto
    <3> QED
      BY <2>1, <2>3, <3>1, <3>3
  <2>4. \/ wire'[e] = s \/ wire'[e] = <<>> \/ (s # <<>> /\ wire'[e] = Tail(s))
        \/ (actor[Front].at = "write" /\ wire'[e] = Append(s, actor[Front].frame))
    BY <1>1, <1>2, <1>3, WireStep
  <2> QED
    BY <2>2, <2>3, <2>4
<1> QED
  BY <1>5, <1>6, <1>7 DEF FrontAnswers

(* What the other ends and the tasks do to the connection of the client.   *)
LEMMA FrontUntouched ==
  ASSUME AloneInv, RelayAssumption, PeerAloneAssumption,
         \/ \E t \in requests[Front] : Return(t)
         \/ \E p \in Peers : EnvStep(p)
         \/ EndProgram \/ UNCHANGED relayVars
  PROVE  /\ mailbox'[Front] = mailbox[Front] /\ actor'[Front] = actor[Front]
         /\ results'[Front] = results[Front] /\ events'[Front] = events[Front]
         /\ closed' = closed /\ services' = services /\ listener' = listener
         /\ \/ wire'[Remote[Front]] = wire[Remote[Front]] \/ wire'[Remote[Front]] = <<>>
            \/ /\ EnvStep(Front) /\ wire[Remote[Front]] # <<>>
               /\ wire'[Remote[Front]] = Tail(wire[Remote[Front]])
<1>1. /\ Front \in Peers /\ Back \in Peers /\ Front # Back
      /\ mailbox \in [Peers -> Seq(Messages)]
  BY DEF RelayAssumption, AloneInv, AloneTyped, Typed, TypeOK
<1>2. ASSUME NEW p \in Peers, EnvStep(p)
      PROVE  /\ UNCHANGED envFrame
             /\ \/ wire'[Remote[Front]] = wire[Remote[Front]] \/ wire'[Remote[Front]] = <<>>
                \/ /\ EnvStep(Front) /\ wire[Remote[Front]] # <<>>
                   /\ wire'[Remote[Front]] = Tail(wire[Remote[Front]])
  <2>1. UNCHANGED envFrame
    BY <1>2 DEF EnvStep, EnvRead, EnvAnswer, EnvRequest, EnvGarble, EnvHangUp, EnvFollow
  <2>2. Remote[Front] \in Ends /\ Remote[Front] # p /\ (Remote[Front] = Remote[p] => p = Front)
    BY <1>1, EndsOfPeer, PeerAloneAssumption
  <2> QED
    BY <1>2, <2>1, <2>2, EnvMoves DEF AloneInv
<1>3. ASSUME NEW t \in requests[Front], Return(t)
      PROVE  UNCHANGED <<actorVars, listener, results, wireVars, events>>
  BY <1>3 DEF Return
<1>4. EndProgram => /\ UNCHANGED <<actor, closed, services, taskVars, wireVars, events>>
                    /\ mailbox'[Front] = mailbox[Front]
  BY <1>1 DEF EndProgram, Post
<1>5. UNCHANGED relayVars => UNCHANGED <<actorVars, taskVars, wireVars, events>>
  BY DEF relayVars, aloneVars, vars
<1> QED
  BY <1>2, <1>3, <1>4, <1>5 DEF envFrame, actorVars, taskVars, wireVars

(* Nobody else makes Front ask for anything.                               *)
LEMMA FrontAnswersStill ==
  ASSUME AloneInv, FrontAnswers, RelayAssumption, PeerAloneAssumption,
         \/ \E t \in requests[Front] : Return(t)
         \/ \E p \in Peers : EnvStep(p)
         \/ EndProgram \/ UNCHANGED relayVars
  PROVE  FrontAnswers'
<1> DEFINE e == Remote[Front]
<1>1. e \in Ends /\ wire \in [Ends -> Seq(Items)]
  BY EndsOfPeer DEF AloneInv, AloneTyped, Typed, TypeOK, Items, RelayAssumption
<1>2. PICK s \in Seq(Items) : s = wire[e]
  BY <1>1
<1>3. \/ wire'[e] = s \/ wire'[e] = <<>>
      \/ s # <<>> /\ wire'[e] = Tail(s)
  BY <1>2, FrontUntouched
<1>4. Within(wire'[e], s)
  <2>1. Remains(wire'[e], s)
    BY <1>3 DEF Remains
  <2> QED
    BY <2>1, WhatRemains
<1>5. \A i \in DOMAIN wire'[e] : Answers(wire'[e][i])
  BY <1>2, <1>4 DEF FrontAnswers, Within
<1>6. mailbox'[Front] = mailbox[Front] /\ actor'[Front] = actor[Front]
  BY FrontUntouched
<1> QED
  BY <1>5, <1>6 DEF FrontAnswers

(* relay_map.rs:180-186: the client finds the call by the id it gave it,   *)
(* whatever ids Back has given to its legs, and however often they wrap.   *)
THEOREM ClientFindsItsCalls == RelaySpec => []CidsRestored
<1> USE PeerAloneAssumption, RelayAssumption
<1>1. RelayInit => FrontAnswers
  BY EndsOfPeer DEF RelayInit, AloneInit, Init, FrontAnswers, Idle
<1>2. AloneInv /\ FrontAnswers /\ [RelayNext]_relayVars => FrontAnswers'
  <2> SUFFICES ASSUME AloneInv, FrontAnswers, [RelayNext]_relayVars PROVE FrontAnswers'
    OBVIOUS
  <2>1. CASE \E p \in Peers : Moves(p)
    BY <2>1, FrontAnswersOnly
  <2>2. CASE \/ \E t \in requests[Front] : Return(t)
             \/ \E p \in Peers : EnvStep(p)
             \/ EndProgram \/ UNCHANGED relayVars
    BY <2>2, FrontAnswersStill
  <2> QED
    BY <2>1, <2>2, RelaySteps
<1>3. AloneInv /\ FrontAnswers => CidsRestored
  <2> SUFFICES ASSUME AloneInv, FrontAnswers, NEW i \in DOMAIN wire[Remote[Front]]
               PROVE  wire[Remote[Front]][i].cid = EnvCid[wire[Remote[Front]][i].req]
    BY DEF CidsRestored
  <2>1. Front \in Peers /\ Remote[Front] \in Ends /\ Remote[Front] \in Outside
    BY EndsOfPeer DEF Outside
  <2>2. wire[Remote[Front]] \in Seq(Frames)
    BY <2>1 DEF AloneInv, AloneTyped, FramesOnly
  <2>3. PICK f \in Frames : f = wire[Remote[Front]][i]
    BY <2>2
  <2>4. f # WireErr /\ f.req \in Requests /\ Answers(f)
    BY <2>3 DEF Frames, FrontAnswers
  <2>5. Origin[f.req] = Remote[Front]
    BY <2>1, <2>3, <2>4 DEF AloneInv, Requesting, Traffic, TrafficAt, Own
  <2>6. PICK g \in Labels : Labelled(g) /\ FixedIds(g)
    BY DEF AloneInv, Knowing, Identified
  <2>7. Tagged(g, f)
    BY <2>1, <2>3, <2>6 DEF Labelled
  <2>8. f.cid = g[f.req] /\ g[f.req] = EnvCid[f.req]
    BY <2>1, <2>4, <2>5, <2>6, <2>7 DEF Tagged, FixedIds
  <2> QED
    BY <2>3, <2>8
<1> QED
  BY <1>1, <1>2, <1>3, RelayAlwaysAlone, PTL DEF RelaySpec

-----------------------------------------------------------------------------
(* What a peer has done stays done.                                        *)

(* close_connection.rs: a peer stays closed, and only then loses its       *)
(* services; no other peer touches the end it does not read.               *)
LEMMA WhatStays ==
  ASSUME Typed, AllShut, NEW p \in Peers, PeerStep(p) \/ UserStep(p)
  PROVE  /\ \A q \in Peers : /\ closed[q] => closed'[q]
                             /\ services'[q] = services[q] \/ closed'[q]
         /\ \A e \in Ends : /\ eof[e] => eof'[e]
                            /\ e # p => deaf'[e] = deaf[e]
<1> USE DEF Typed, TypeOK
<1>1. ASSUME NEW w, NEW r, Close(p, r, w) PROVE closed' = [closed EXCEPT ![p] = TRUE]
  BY <1>1 DEF Close
<1>2. ASSUME NEW w, DropEverything(p, w)
      PROVE  /\ \A q \in Peers \ {p} : services'[q] = services[q]
             /\ \A e \in Ends : /\ eof[e] => eof'[e]
                                /\ e # p => deaf'[e] = deaf[e]
  <2>1. \A q \in Peers \ {p} : services'[q] = services[q]
    BY <1>2 DEF DropEverything
  <2>2. eof' = [eof EXCEPT ![Remote[p]] = TRUE] /\ deaf' = [deaf EXCEPT ![p] = TRUE]
    BY <1>2 DEF DropEverything
  <2>3. \A e \in Ends : (eof[e] => eof'[e]) /\ (e # p => deaf'[e] = deaf[e])
    BY <2>2
  <2> QED
    BY <2>1, <2>3
<1>3. ASSUME NEW w, NEW r, Close(p, r, w)
      PROVE  /\ \A q \in Peers \ {p} : services'[q] = services[q]
             /\ \A e \in Ends : /\ eof[e] => eof'[e]
                                /\ e # p => deaf'[e] = deaf[e]
  <2>1. CASE DropEverything(p, w)
    BY <1>2, <2>1
  <2>2. CASE /\ eof' = [eof EXCEPT ![Remote[p]] = @ \/ deaf[p]]
             /\ UNCHANGED <<services, deaf>>
    BY <2>2
  <2> QED
    BY <1>3, <2>1, <2>2 DEF Close
<1>4. CASE HandleCloseConnection(p) \/ ErrorSentThenClose(p)
  BY <1>1, <1>3, <1>4, ClosingSteps
<1>5. CASE GraceOver(p)
  <2>1. closed[p] /\ UNCHANGED closed
    BY <1>5 DEF GraceOver, AllShut, Shut
  <2> QED
    BY <1>2, <1>5, <2>1 DEF GraceOver
<1>6. CASE ListenEnd(p)
  BY <1>6 DEF ListenEnd
<1>7. CASE UNCHANGED <<closed, services, eof, deaf>>
  BY <1>7
<1> QED
  BY <1>4, <1>5, <1>6, <1>7 DEF PeerStep, ActorStep, Handle, Resume, HandleCall,
     RefuseCall, HandleWireFormat, RefuseWireFormat, HandleCallResponse, DropCallResponse,
     HandleRequestError, HandleTimeout, IgnoreIncoming, IncomingFailure, IncomingSend,
     IncomingCall, IncomingResponse, IncomingError, CallSent, CallSentNoTimer, FrameSent,
     ResponseSent, ErrorSent, WriteFails, ListenerStep, ListenNext, PassGate, ListenSend,
     Serve, Collect, DeliverResult, TimerFires, UserStep, UserCall, UserSend, UserClose,
     actorVars, wireVars

(* The invariant of PeerAloneProofs, and that of a close.                  *)
RelayInv == AloneInv /\ AllShut

(* src/peer.rs: both are invariants of the program.                        *)
LEMMA RelayAlways == RelaySpec => []RelayInv
<1> USE PeerAloneAssumption, RelayAssumption
<1>1. RelayInit => AllShut
  BY FirstShut DEF RelayInit, AloneInit
<1>2. AloneInv /\ AllShut /\ [RelayNext]_relayVars => AllShut'
  <2> SUFFICES ASSUME AloneInv, AllShut, [RelayNext]_relayVars PROVE AllShut'
    OBVIOUS
  <2>1. Typed /\ requests \in [Peers -> SUBSET Tasks] /\ Front \in Peers
    BY DEF AloneInv, AloneTyped, Typed, TypeOK
  <2>2. ASSUME NEW p \in Peers, Moves(p) PROVE AllShut'
    BY <2>1, <2>2, PeerStepShuts, UserShuts DEF Moves
  <2>3. ASSUME NEW p \in Peers, EnvStep(p) PROVE AllShut'
    BY <2>1, <2>3, OutsideShuts
  <2>4. ASSUME NEW t \in requests[Front], Return(t) PROVE AllShut'
    <3>1. UNCHANGED <<closed, sink, actor, timers, services, responses, listener, results,
                      deaf, eof>>
      BY <2>4 DEF Return, actorVars, wireVars
    <3>2. \A q \in Peers \ {Front} : requests'[q] = requests[q]
      BY <2>1, <2>4 DEF Return
    <3>3. Shut(Front) /\ requests[Front] # {}
      BY <2>1, <2>4 DEF AllShut
    <3>4. Shut(Front)'
      BY <3>1, <3>3 DEF Shut, Clean
    <3>5. \A q \in Peers \ {Front} : Shut(q)'
      BY <3>1, <3>2 DEF AllShut, Shut, Clean
    <3> QED
      BY <3>4, <3>5 DEF AllShut
  <2>5. CASE EndProgram \/ UNCHANGED relayVars
    BY <2>5, ShutKept DEF EndProgram, relayVars, aloneVars, vars, actorVars, taskVars,
       wireVars, EndsLast
  <2> QED
    BY <2>2, <2>3, <2>4, <2>5, RelaySteps
<1> QED
  BY <1>1, <1>2, RelayAlwaysAlone, PTL DEF RelaySpec, RelayInv

-----------------------------------------------------------------------------
(* What the client asks for.                                               *)
Addressed(x) == x # WireErr /\ ~Answers(x) => x.sid = SidOf[x.req]

AllAddressed ==
  /\ \A i \in DOMAIN wire[Front] : Addressed(wire[Front][i])
  /\ listener[Front].at \in {"gate", "send"} => Addressed(listener[Front].msg)
  /\ \A i \in DOMAIN mailbox[Front] :
       mailbox[Front][i].type = "Incoming" => Addressed(mailbox[Front][i].msg)

(* Front offers what was registered with it for as long as it is open.     *)
Offering == closed[Front] \/ services[Front] = Registered[Front]

(* peer.rs, register_services: services go when the peer closes.           *)
LEMMA OfferingKept ==
  ASSUME RelayInv, Offering, RelayAssumption, PeerAloneAssumption, [RelayNext]_relayVars
  PROVE  Offering'
<1>1. Typed /\ Front \in Peers /\ AloneInv /\ AllShut
  BY DEF RelayInv, AloneInv, AloneTyped, RelayAssumption
<1>2. ASSUME NEW p \in Peers, Moves(p) PROVE Offering'
  BY <1>1, <1>2, WhatStays DEF Moves, Offering
<1>3. CASE \/ \E t \in requests[Front] : Return(t)
           \/ \E p \in Peers : EnvStep(p)
           \/ EndProgram \/ UNCHANGED relayVars
  BY <1>1, <1>3, FrontUntouched DEF Offering
<1> QED
  BY <1>1, <1>2, <1>3, RelaySteps

(* incoming.rs: a request is for the same service from the connection to   *)
(* the handler.                                                            *)
LEMMA AddressedKept ==
  ASSUME RelayInv, AllAddressed, RelayAssumption, PeerAloneAssumption, NEW p \in Peers,
         Moves(p)
  PROVE  AllAddressed'
<1>1. /\ Typed /\ Front \in Peers /\ Front \in Ends /\ Front # Remote[p]
      /\ (PeerStep(p) \/ UserStep(p))
  BY EndsOfPeer, PeerAloneAssumption DEF RelayInv, AloneInv, AloneTyped, RelayAssumption, Moves
<1>2. PICK s \in Seq(Items), u \in Seq(Messages) : s = wire[Front] /\ u = mailbox[Front]
  BY <1>1 DEF Typed, TypeOK, Items
<1>3. \/ wire'[Front] = s \/ wire'[Front] = <<>>
      \/ s # <<>> /\ wire'[Front] = Tail(s)
  BY <1>1, <1>2, WireStep
<1>4. Within(wire'[Front], s)
  <2>1. Remains(wire'[Front], s)
    BY <1>3 DEF Remains
  <2> QED
    BY <2>1, WhatRemains
<1>5. \A i \in DOMAIN wire'[Front] : Addressed(wire'[Front][i])
  BY <1>2, <1>4 DEF AllAddressed, Within
<1>6. listener'[Front].at \in {"gate", "send"} => Addressed(listener'[Front].msg)
  <2>1. s # <<>> => Head(s) = s[1] /\ 1 \in DOMAIN s
    OBVIOUS
  <2>2. p # Front => listener'[Front] = listener[Front]
    BY <1>1, OthersUntouched DEF OthersKept
  <2> QED
    BY <1>1, <1>2, <2>1, <2>2, ListenerSteps DEF AllAddressed
<1>7. \A i \in DOMAIN mailbox'[Front] :
        mailbox'[Front][i].type = "Incoming" => Addressed(mailbox'[Front][i].msg)
  <2>1. CASE mailbox'[Front] = mailbox[Front]
    BY <2>1 DEF AllAddressed
  <2>2. CASE Taken(Front)
    BY <1>1, <1>2, <2>2, HeadOfMailbox DEF AllAddressed
  <2>3. ASSUME NEW m \in Messages, Arrives(Front, m), mailbox'[Front] = Append(u, m)
        PROVE  \A i \in DOMAIN mailbox'[Front] :
                 mailbox'[Front][i].type = "Incoming" => Addressed(mailbox'[Front][i].msg)
    <3>1. \A i \in DOMAIN Append(u, m) : (i \in DOMAIN u /\ Append(u, m)[i] = u[i]) \/ Append(u, m)[i] = m
      BY PutInto
    <3>2. results[Front].at = "send" => results[Front].msg \in Results
      BY <1>1 DEF Typed, TypeOK, Collectors, Collecting
    <3>3. \A x \in Results : x.type # "Incoming"
      BY DEF Results
    <3>4. m.type = "Incoming" => Addressed(m.msg)
      BY <2>3, <3>2, <3>3 DEF Arrives, AllAddressed, IncomingMsg, CloseMsg, TimeoutMsg, CallMsg,
         WireFormatMsg
    <3> QED
      BY <1>2, <2>3, <3>1, <3>4 DEF AllAddressed
  <2>4. p # Front => mailbox'[Front] = mailbox[Front]
    BY <1>1, OthersUntouched
  <2> QED
    BY <1>1, <1>2, <2>1, <2>2, <2>3, <2>4, MailboxStep
<1> QED
  BY <1>5, <1>6, <1>7 DEF AllAddressed

(* The client asks for the service a request is for.                       *)
LEMMA AddressedStill ==
  ASSUME RelayInv, AllAddressed, RelayAssumption, PeerAloneAssumption,
         \/ \E t \in requests[Front] : Return(t)
         \/ \E p \in Peers : EnvStep(p)
         \/ EndProgram \/ UNCHANGED relayVars
  PROVE  AllAddressed'
<1>1. AloneInv /\ AloneTyped /\ Front \in Peers /\ Front \in Ends
  BY EndsOfPeer DEF RelayInv, AloneInv, RelayAssumption
<1>2. mailbox'[Front] = mailbox[Front] /\ listener' = listener
  BY <1>1, FrontUntouched
<1>3. PICK s \in Seq(Items) : s = wire[Front]
  BY <1>1 DEF AloneTyped, Typed, TypeOK, Items
<1>4. CASE ~(\E p \in Peers : EnvStep(p))
  <2>1. UNCHANGED wire
    BY <1>4 DEF Return, EndProgram, relayVars, aloneVars, vars, wireVars
  <2> QED
    BY <1>2, <2>1 DEF AllAddressed
<1>5. ASSUME NEW p \in Peers, EnvStep(p) PROVE AllAddressed'
  <2>1. CASE wire'[Front] = s \/ wire'[Front] = <<>> \/ (s # <<>> /\ wire'[Front] = Tail(s))
    <3>1. Remains(wire'[Front], s)
      BY <2>1 DEF Remains
    <3>2. Within(wire'[Front], s)
      BY <3>1, WhatRemains
    <3> QED
      BY <1>2, <1>3, <3>2 DEF AllAddressed, Within
  <2>2. ASSUME NEW m \in Items, Says(p, m), wire'[Front] = Append(s, m)
        PROVE  AllAddressed'
    <3>1. Addressed(m)
      <4>1. \A f : Answers(ResponseFrame(f.req, f.cid)) /\ Answers(ErrorFrame(f.req, f.cid))
        BY DEF Answers, ResponseFrame, ErrorFrame
      <4>2. \A r \in Requests : Addressed(RequestFrame(r, EnvCid[r]))
        BY DEF Addressed, RequestFrame
      <4> QED
        BY <2>2, <4>1, <4>2 DEF Says, Addressed
    <3>2. \A i \in DOMAIN Append(s, m) : (i \in DOMAIN s /\ Append(s, m)[i] = s[i]) \/ Append(s, m)[i] = m
      BY PutInto
    <3> QED
      BY <1>2, <1>3, <2>2, <3>1, <3>2 DEF AllAddressed
  <2> QED
    BY <1>1, <1>3, <1>5, <2>1, <2>2, EnvMoves
<1> QED
  BY <1>4, <1>5

-----------------------------------------------------------------------------
(* The truth about the calls of the client.  H are the calls whose leg was *)
(* answered, B those whose leg came to nothing; they only grow.            *)
Honest == {r \in Relayed \cap Calls : outcome[Leg[r]] = "ok"}
Broken == {r \in Relayed \cap Calls : outcome[Leg[r]] \in Reported \cup Gone}

TruthOf(H, B, f)   == f.req \in Calls => /\ f.sid = FullSid => f.req \in H
                                         /\ f.sid = NullSid => f.req \in B
TruthIn(H, B, m)   == /\ m.type \in {"WireFormat", "CallResponse"} => TruthOf(H, B, m.frame)
                      /\ m.type = "RequestError" /\ m.req \in Calls => m.req \in B
TruthFrom(H, B, t) == t.frame.req \in Calls =>
                        /\ t.state = "done" => t.frame.req \in H
                        /\ t.state \notin {Running, "done"} => t.frame.req \in B

(* Whatever Front is about to tell the client, and has told it, is true.   *)
Truthful(H, B) ==
  /\ \A i \in DOMAIN mailbox[Front] : TruthIn(H, B, mailbox[Front][i])
  /\ results[Front].at = "send" => TruthIn(H, B, results[Front].msg)
  /\ actor[Front].at = "write" => TruthOf(H, B, actor[Front].frame)
  /\ \A t \in requests[Front] : TruthFrom(H, B, t)
  /\ \A i \in DOMAIN wire[Remote[Front]] : TruthOf(H, B, wire[Remote[Front]][i])
  /\ \A r \in Relayed \cap Calls : /\ outcome[r] = "ok" => r \in H
                                   /\ outcome[r] = "error" => r \in B
                                   /\ outcome[r] # "wrong"

(* What is true of a set is true of a larger one.                          *)
LEMMA TruthLasts ==
  ASSUME NEW H, NEW B, Truthful(H, B)', H \subseteq Honest', B \subseteq Broken'
  PROVE  Truthful(Honest, Broken)'
<1>0. PICK H2, B2 : H2 = Honest' /\ B2 = Broken' /\ H \subseteq H2 /\ B \subseteq B2
  OBVIOUS
<1> USE DEF TruthOf, TruthIn, TruthFrom
<1>1. \A f : TruthOf(H, B, f) => TruthOf(H2, B2, f)
  BY <1>0
<1>2. \A m : TruthIn(H, B, m) => TruthIn(H2, B2, m)
  BY <1>0
<1>3. \A t : TruthFrom(H, B, t) => TruthFrom(H2, B2, t)
  BY <1>0
<1> HIDE DEF TruthOf, TruthIn, TruthFrom
<1>4. Truthful(H2, B2)'
  BY <1>0, <1>1, <1>2, <1>3 DEF Truthful
<1> QED
  BY <1>0, <1>4

(* peer.rs: what becomes of a leg is settled once.                         *)
LEMMA LegsSettle ==
  ASSUME AloneInv, RelayAssumption, PeerAloneAssumption, [RelayNext]_relayVars
  PROVE  Honest \subseteq Honest' /\ Broken \subseteq Broken'
<1>1. ASSUME NEW r \in Requests, Origin[r] \in Peers, outcome[r] \in Final
      PROVE  outcome'[r] = outcome[r]
  <2>1. Typed /\ Requesting /\ AloneTyped /\ Traffic
    BY DEF AloneInv, AloneTyped, Requesting
  <2>2. outcome[r] \notin {"unused", "queued", "pending"}
    BY <1>1 DEF Final
  <2>3. ASSUME NEW p \in Peers, Moves(p) PROVE outcome'[r] = outcome[r]
    BY <2>1, <2>2, <2>3, OutcomeStep DEF Moves, Advances, NewlyMade
  <2>4. ASSUME NEW p \in Peers, EnvStep(p) PROVE outcome'[r] = outcome[r]
    BY <1>1, <2>1, <2>4, EnvLearns DEF PeerAloneAssumption
  <2>5. CASE (\E t \in requests[Front] : Return(t)) \/ EndProgram \/ UNCHANGED relayVars
    BY <2>5 DEF Return, EndProgram, relayVars, aloneVars, vars
  <2> QED
    BY <2>3, <2>4, <2>5, RelaySteps
<1>2. \A r \in Relayed : Leg[r] \in Requests /\ Origin[Leg[r]] \in Peers
  BY DEF RelayAssumption
<1>3. "ok" \in Final /\ Reported \cup Gone \subseteq Final
  BY DEF Final, Reported, Gone
<1>4. \A r \in Relayed : outcome[Leg[r]] \in Final => outcome'[Leg[r]] = outcome[Leg[r]]
  BY <1>1, <1>2
<1> QED
  BY <1>3, <1>4 DEF Honest, Broken

(* relay_map.rs, peer.rs: the result of a task is what the task is.        *)
LEMMA TruthReturned ==
  ASSUME NEW H, NEW B, NEW t \in Tasks, TruthFrom(H, B, t), t.state # Running, ~Answers(t.frame),
         t.frame.req \in Calls <=> t.frame.cid # NullCid, NEW m \in ResultOf(t)
  PROVE  TruthIn(H, B, m)
<1>1. t.frame \in Frames /\ t.frame.req \in Requests
  BY DEF Tasks, Frames
<1>2. \/ t.state = "done" /\ m = CallResponseMsg(ResponseFrame(t.frame.req, t.frame.cid))
      \/ t.state # "done" /\ m = WireFormatMsg(ErrorFrame(t.frame.req, t.frame.cid))
      \/ t.state # "done" /\ m = RequestErrorMsg(t.state, t.frame)
  BY DEF ResultOf
<1>3. /\ ResponseFrame(t.frame.req, t.frame.cid).sid = FullSid
      /\ ResponseFrame(t.frame.req, t.frame.cid).req = t.frame.req
      /\ ErrorFrame(t.frame.req, t.frame.cid).sid = NullSid
      /\ ErrorFrame(t.frame.req, t.frame.cid).req = t.frame.req
      /\ NullSid # FullSid
  BY DEF ResponseFrame, ErrorFrame
<1>4. CASE t.state = "done" /\ m = CallResponseMsg(ResponseFrame(t.frame.req, t.frame.cid))
  BY <1>3, <1>4 DEF TruthFrom, TruthIn, TruthOf, CallResponseMsg
<1>5. CASE t.state # "done" /\ m = WireFormatMsg(ErrorFrame(t.frame.req, t.frame.cid))
  BY <1>3, <1>5 DEF TruthFrom, TruthIn, TruthOf, WireFormatMsg
<1>6. CASE t.state # "done" /\ m = RequestErrorMsg(t.state, t.frame)
  BY <1>6 DEF TruthFrom, TruthIn, TruthOf, RequestErrorMsg
<1> QED
  BY <1>2, <1>4, <1>5, <1>6


(* relay_map.rs: every request of the client is for a service the relay    *)
(* offers, and nothing else is wrong with it.                              *)
Relayable == /\ \A r \in Relayed : SidOf[r] \in Registered[Front]
             /\ Faults \cap {"NoHandler", "Deserialize", "PubSubNoCall", "Spawn"} = {}

(* incoming.rs: so that Front answers none of them with an error itself.   *)
LEMMA NothingRejected ==
  ASSUME AloneInv, AllAddressed, Offering, RelayAssumption, Relayable,
         IncomingCall(Front)
  PROVE  UNCHANGED actor
<1>1. Front \in Peers /\ Typed /\ mailbox[Front] \in Seq(Messages) /\ TrafficAt(Front)
  BY DEF RelayAssumption, AloneInv, AloneTyped, Typed, TypeOK, Requesting, Traffic
<1>2. PICK m : m = Head(mailbox[Front])
  OBVIOUS
<1>3. /\ Receive(Front, "Incoming") /\ ~closed[Front]
      /\ m.msg # WireErr /\ Kind(m.msg) = "IncomingCall"
  BY <1>2 DEF IncomingCall, ReceiveFrame, Incoming
<1>4. m \in Messages /\ m.type = "Incoming" /\ 1 \in DOMAIN mailbox[Front]
      /\ m = mailbox[Front][1]
  BY <1>1, <1>2, <1>3 DEF Receive
<1>5. m.msg \in Frames
  BY <1>3, <1>4, MessageFields DEF Items
<1>6. PICK f \in Frames : f = m.msg
  BY <1>5
<1>7. ~Answers(f) /\ Origin[f.req] = Remote[Front] /\ f.sid = SidOf[f.req]
  BY <1>1, <1>3, <1>4, <1>6, KindsOfFrames
     DEF TrafficAt, Meant, Inbound, AllAddressed, Addressed
<1>8. f.sid \in services[Front]
  BY <1>3, <1>6, <1>7 DEF Relayable, Relayed, Offering, Frames
<1>9. Rejections({"NoHandler", "Deserialize", "PubSubNoCall", "Spawn"}, f, Front) = {}
  BY <1>8 DEF Rejections, Relayable
<1> QED
  BY <1>2, <1>6, <1>9 DEF IncomingCall, Incoming

(* ... nor does it have an error to write because of what it reads.        *)
LEMMA NothingToRefuse ==
  ASSUME AloneInv, AllAddressed, Offering, RelayAssumption, Relayable,
         PeerStep(Front) \/ UserStep(Front), Taken(Front),
         Head(mailbox[Front]).type = "Incoming"
  PROVE  actor'[Front].at # "write"
<1>1. Front \in Peers /\ Typed /\ mailbox[Front] \in Seq(Messages)
  BY DEF RelayAssumption, AloneInv, AloneTyped, Typed, TypeOK
<1>2. Handle(Front)
  <2>1. PICK s \in Seq(Messages) : s = mailbox[Front]
    BY <1>1
  <2>2. ASSUME s # <<>> PROVE Tail(s) # s /\ \A x \in Messages : Tail(s) # Append(s, x)
    <3>1. PICK n \in Nat : n = Len(s) /\ Len(Tail(s)) = n - 1
      BY <2>2
    <3>2. \A x \in Messages : Len(Append(s, x)) = n + 1
      BY <3>1
    <3>3. n - 1 # n /\ n - 1 # n + 1
      OBVIOUS
    <3> QED
      BY <3>1, <3>2, <3>3
  <2>3. s # <<>> /\ mailbox'[Front] = Tail(s)
    BY <2>1 DEF Taken
  <2> QED
    BY <1>1, <2>1, <2>2, <2>3, MailboxStep
<1>3. actor[Front].at # "write"
  BY DEF Taken, Idle
<1>4. \A type : Receive(Front, type) => type = "Incoming"
  BY DEF Receive
<1>5. \/ IgnoreIncoming(Front) \/ IncomingFailure(Front) \/ IncomingSend(Front)
      \/ IncomingCall(Front) \/ IncomingResponse(Front) \/ IncomingError(Front)
  BY <1>2, <1>4 DEF Handle, HandleCall, RefuseCall, HandleWireFormat, RefuseWireFormat,
     HandleCallResponse, DropCallResponse, HandleRequestError, HandleTimeout,
     HandleCloseConnection
<1>6. UNCHANGED actor
  BY <1>5, NothingRejected DEF IgnoreIncoming, IncomingFailure, IncomingSend,
     IncomingResponse, IncomingError
<1> QED
  BY <1>3, <1>6


(* peer.rs: what a peer does changes nothing about the truth of what Front *)
(* tells the client: every message, result and answer comes from a task.   *)
LEMMA TruthKept ==
  ASSUME AloneInv, AllAddressed, Offering, FrontAnswers, RelayAssumption,
         PeerAloneAssumption, Relayable,
         NEW H, NEW B, Truthful(H, B), NEW p \in Peers, Moves(p)
  PROVE  Truthful(H, B)'
<1> DEFINE e == Remote[Front]
<1>1. /\ Typed /\ Requesting /\ Front \in Peers /\ mailbox[Front] \in Seq(Messages)
      /\ e \in Ends /\ e # p /\ (PeerStep(p) \/ UserStep(p))
  BY EndsOfPeer, PeerAloneAssumption
     DEF AloneInv, AloneTyped, Typed, TypeOK, RelayAssumption, Moves
<1>2. PICK s \in Seq(Items) : s = wire[e]
  BY <1>1 DEF Typed, TypeOK, Items
<1>3. CASE p # Front
  <2>1. /\ mailbox'[Front] = mailbox[Front] /\ results'[Front] = results[Front]
        /\ actor'[Front] = actor[Front] /\ requests'[Front] = requests[Front]
    BY <1>1, <1>3, OthersUntouched DEF OthersKept
  <2>2. wire'[e] = wire[e]
    <3>1. e # Remote[p]
      BY <1>1, <1>3
    <3> QED
      BY <1>1, <3>1, WireStep
  <2>3. \A r \in Relayed \cap Calls : outcome'[r] = outcome[r]
    BY <1>1, OutcomeStep, PeerAloneAssumption DEF Advances, Relayed, Requests
  <2> QED
    BY <2>1, <2>2, <2>3 DEF Truthful
<1>4. CASE p = Front
  <2>1. \A i \in DOMAIN mailbox'[Front] : TruthIn(H, B, mailbox'[Front][i])
    <3>1. CASE mailbox'[Front] = mailbox[Front]
      BY <3>1 DEF Truthful
    <3>2. CASE Taken(Front)
      BY <1>1, <3>2, HeadOfMailbox DEF Truthful
    <3>3. ASSUME NEW m \in Messages, Arrives(Front, m),
                 mailbox'[Front] = Append(mailbox[Front], m)
          PROVE  \A i \in DOMAIN mailbox'[Front] : TruthIn(H, B, mailbox'[Front][i])
      <4>1. PICK u \in Seq(Messages) : u = mailbox[Front]
        BY <1>1
      <4>2. \A i \in DOMAIN Append(u, m) : (i \in DOMAIN u /\ Append(u, m)[i] = u[i]) \/ Append(u, m)[i] = m
        BY PutInto
      <4>3. TruthIn(H, B, m)
        <5>1. \A r \in Requests : Origin[r] = Front => ~NewlyMade(r)
          BY <1>4 DEF Moves
        <5>2. results[Front].at = "send" => TruthIn(H, B, results[Front].msg)
          BY DEF Truthful
        <5> QED
          BY <3>3, <5>1, <5>2
             DEF Arrives, TruthIn, IncomingMsg, CloseMsg, TimeoutMsg, Requests
      <4> QED
        BY <3>3, <4>1, <4>2, <4>3 DEF Truthful
    <3> QED
      BY <1>1, <1>4, <3>1, <3>2, <3>3, MailboxStep
  <2>2. results'[Front].at = "send" => TruthIn(H, B, results'[Front].msg)
    <3>1. ASSUME NEW t \in requests[Front], t.state # Running, NEW m \in ResultOf(t)
          PROVE  TruthIn(H, B, m)
      BY <3>1, TaskOfClient, TruthReturned DEF Truthful
    <3> QED
      BY <1>1, <1>4, <3>1, ResultsStep DEF Truthful
  <2>3. actor'[Front].at = "write" => TruthOf(H, B, actor'[Front].frame)
    <3>1. CASE actor'[Front] = actor[Front]
      BY <3>1 DEF Truthful
    <3>2. ASSUME actor'[Front].at = "write", Taken(Front), NEW f, NEW then,
                 ToWrite(Front, Head(mailbox[Front]), f, then)
          PROVE  TruthOf(H, B, f)
      <4>1. PICK m : m = Head(mailbox[Front])
        OBVIOUS
      <4>2. m \in Messages /\ NoRequest(m) /\ TruthIn(H, B, m)
        BY <1>1, <3>2, <4>1, HeadOfMailbox DEF FrontAnswers, Truthful
      <4>3. m.type # "Incoming"
        BY <1>1, <1>4, <3>2, <4>1, NothingToRefuse
      <4>4. NullSid # FullSid
        OBVIOUS
      <4> QED
        BY <3>2, <4>1, <4>2, <4>3, <4>4 DEF ToWrite, NoRequest, TruthIn, TruthOf, ErrorFrame
    <3>3. \A f, then : Writing(f, then).frame = f
      BY DEF Writing
    <3> QED
      BY <1>1, <1>4, <3>1, <3>2, <3>3, ActorStepWrites
  <2>4. \A t \in requests'[Front] : TruthFrom(H, B, t)
    <3>1. \A t \in requests'[Front] : t \in requests[Front] \/ t.state = Running
      BY <1>4 DEF Moves
    <3>2. Running # "done"
      BY DEF Running
    <3> QED
      BY <3>1, <3>2 DEF Truthful, TruthFrom
  <2>5. \A i \in DOMAIN wire'[e] : TruthOf(H, B, wire'[e][i])
    <3>1. \A i \in DOMAIN s : TruthOf(H, B, s[i])
      BY <1>2 DEF Truthful
    <3>2. CASE wire'[e] = s
      BY <3>1, <3>2
    <3>3. ASSUME actor[Front].at = "write", wire'[e] = Append(s, actor[Front].frame)
          PROVE  \A i \in DOMAIN wire'[e] : TruthOf(H, B, wire'[e][i])
      <4>1. PICK f : f = actor[Front].frame /\ TruthOf(H, B, f)
        BY <3>3 DEF Truthful
      <4>2. f \in Items
        <5>1. actor[Front] \in Actors
          BY <1>1 DEF Typed, TypeOK
        <5> QED
          BY <3>3, <4>1, <5>1 DEF Actors, Idle, InGrace, Items
      <4>3. \A i \in DOMAIN Append(s, f) : (i \in DOMAIN s /\ Append(s, f)[i] = s[i]) \/ Append(s, f)[i] = f
        BY <4>2, PutInto
      <4> QED
        BY <3>1, <3>3, <4>1, <4>3
    <3> QED
      BY <1>1, <1>2, <1>4, <3>2, <3>3, WireStep
  <2>6. \A r \in Relayed \cap Calls : outcome'[r] = outcome[r]
    BY <1>1, OutcomeStep, PeerAloneAssumption DEF Advances, Relayed, Requests
  <2>7. \A r \in Relayed \cap Calls : /\ outcome'[r] = "ok" => r \in H
                                      /\ outcome'[r] = "error" => r \in B
                                      /\ outcome'[r] # "wrong"
    BY <2>6 DEF Truthful
  <2> QED
    BY <2>1, <2>2, <2>3, <2>4, <2>5, <2>7 DEF Truthful
<1> QED
  BY <1>3, <1>4


(* relay_map.rs:139-196: a task ends as its leg did.                       *)
LEMMA TruthOfTasks ==
  ASSUME AloneInv, RelayAssumption, NEW t \in requests[Front], Return(t),
         Truthful(Honest, Broken)
  PROVE  Truthful(Honest, Broken)'
<1> USE DEF Honest, Broken
<1>1. UNCHANGED <<mailbox, actor, results, wire, outcome>> /\ Honest' = Honest /\ Broken' = Broken
  BY DEF Return, actorVars, wireVars
<1>2. PICK end : LET u == [frame |-> t.frame, state |-> end]
                     o == outcome[Leg[t.frame.req]]
                 IN  /\ requests' = [requests EXCEPT ![Front] = (@ \ {t}) \cup {u}]
                     /\ end \in {"done", "RelayedError", "RelayGone"}
                     /\ t.frame.req \in Calls => /\ end = "done" => o = "ok"
                                                 /\ end = "RelayedError" => o \in Reported
                                                 /\ end = "RelayGone" => o \in Gone
  BY ReturnEnds
<1>3. PICK u : u = [frame |-> t.frame, state |-> end]
  OBVIOUS
<1>4. requests'[Front] = (requests[Front] \ {t}) \cup {u}
  <2>1. requests \in [Peers -> SUBSET Tasks] /\ Front \in Peers
    BY DEF RelayAssumption, AloneInv, AloneTyped, Typed, TypeOK
  <2> QED
    BY <1>2, <1>3, <2>1
<1>5. TruthFrom(Honest, Broken, u)
  <2>1. t.frame.req \in Relayed
    BY TaskOfClient
  <2> QED
    BY <1>2, <1>3, <2>1 DEF TruthFrom
<1>6. \A x \in requests'[Front] : TruthFrom(Honest, Broken, x)
  BY <1>4, <1>5 DEF Truthful
<1>7. PICK H, B : H = Honest /\ B = Broken
  OBVIOUS
<1>8. Truthful(H, B)'
  <2>1. Truthful(H, B) /\ \A x \in requests'[Front] : TruthFrom(H, B, x)
    BY <1>6, <1>7
  <2> QED
    BY <1>1, <2>1 DEF Truthful
<1> QED
  BY <1>1, <1>7, <1>8

(* The client reads what Front has put on the connection.                  *)
LEMMA TruthTold ==
  ASSUME AloneInv, RelayAssumption, PeerAloneAssumption,
         \/ \E p \in Peers : EnvStep(p)
         \/ EndProgram \/ UNCHANGED relayVars,
         NEW H, NEW B, Truthful(H, B)
  PROVE  Truthful(H, B)'
<1> DEFINE e == Remote[Front]
<1>1. /\ Front \in Peers /\ AloneTyped /\ Traffic /\ e \in Ends /\ e \in Outside
  BY EndsOfPeer DEF RelayAssumption, AloneInv, Requesting, Outside
<1>2. /\ mailbox'[Front] = mailbox[Front] /\ actor'[Front] = actor[Front]
      /\ results'[Front] = results[Front]
      /\ \/ wire'[e] = wire[e] \/ wire'[e] = <<>>
         \/ EnvStep(Front) /\ wire[e] # <<>> /\ wire'[e] = Tail(wire[e])
  BY FrontUntouched
<1>3. requests'[Front] = requests[Front]
  BY DEF EnvStep, EnvRead, EnvAnswer, EnvRequest, EnvGarble, EnvHangUp, EnvFollow, envFrame,
     EndProgram, relayVars, aloneVars, vars, taskVars
<1>4. PICK s \in Seq(Frames) : s = wire[e]
  BY <1>1 DEF AloneTyped, FramesOnly
<1>5. \A i \in DOMAIN wire'[e] : TruthOf(H, B, wire'[e][i])
  <2>1. Remains(wire'[e], s)
    BY <1>2, <1>4 DEF Remains
  <2>2. Within(wire'[e], s)
    BY <2>1, WhatRemains
  <2>3. \A i \in DOMAIN s : TruthOf(H, B, s[i])
    BY <1>4 DEF Truthful
  <2> QED
    BY <2>2, <2>3 DEF Within
<1>6. ASSUME NEW r \in Relayed \cap Calls
      PROVE  /\ outcome'[r] = "ok" => r \in H
             /\ outcome'[r] = "error" => r \in B
             /\ outcome'[r] # "wrong"
  <2>1. CASE outcome'[r] = outcome[r]
    BY <2>1 DEF Truthful
  <2>2. ASSUME NEW p \in Peers, EnvStep(p), outcome'[r] # outcome[r]
        PROVE  /\ outcome'[r] = "ok" => r \in H
               /\ outcome'[r] = "error" => r \in B
               /\ outcome'[r] # "wrong"
    <3>1. /\ Origin[r] = Remote[p] /\ p = Front /\ r \in Requests
      BY <1>1, <2>2, EnvLearns DEF Relayed
    <3>2. CASE outcome[r] = "unused" /\ outcome'[r] \in {"pending", "sent"}
      BY <3>2
    <3>3. CASE /\ EnvRead(p) /\ Head(wire[e]).req = r /\ Answers(Head(wire[e]))
               /\ outcome'[r] \in IF outcome[r] = "pending" THEN {"ok", "error"} ELSE {"wrong"}
      <4>1. PICK f : f = Head(wire[e])
        OBVIOUS
      <4>2. s # <<>> /\ f.req = r /\ Answers(f) /\ outcome \in [Requests -> Outcomes]
        BY <1>1, <1>4, <3>1, <3>3, <4>1 DEF EnvRead, AloneTyped, Typed, TypeOK
      <4>3. outcome[r] = "pending"
        BY <1>1, <1>4, <3>1, <3>3, <4>2, AnswersAwaited
      <4>4. f = s[1] /\ 1 \in DOMAIN s
        BY <1>4, <4>1, <4>2
      <4>5. TruthOf(H, B, f)
        BY <1>4, <4>4 DEF Truthful
      <4>6. /\ Kind(f) = "CallResponse" => outcome'[r] = "ok"
            /\ Kind(f) = "ConnectionError" => outcome'[r] = "error"
        BY <3>1, <3>3, <4>1, <4>2, <4>3 DEF EnvRead, Told
      <4>7. f.sid = NullSid \/ f.sid = FullSid
        BY <4>2 DEF Answers
      <4>8. /\ f.sid = FullSid => outcome'[r] = "ok"
            /\ f.sid = NullSid => outcome'[r] = "error"
        BY <4>6 DEF Kind
      <4> QED
        BY <4>2, <4>5, <4>7, <4>8 DEF TruthOf
    <3> QED
      BY <1>1, <2>2, <3>1, <3>2, <3>3, EnvLearns
  <2>3. CASE EndProgram \/ UNCHANGED relayVars
    BY <2>1, <2>3 DEF EndProgram, relayVars, aloneVars, vars
  <2> QED
    BY <2>1, <2>2, <2>3
<1> QED
  BY <1>2, <1>3, <1>5, <1>6 DEF Truthful


AllTrue == Truthful(Honest, Broken)

(* relay_map.rs:139-196: what the client is told of a call is what became  *)
(* of it, and it is told once; for any two connections, ids and slots, if  *)
(* the client asks for what the relay offers.                              *)
THEOREM ClientIsToldTheTruth == ASSUME Relayable PROVE RelaySpec => []RelayedFaithfully
<1> USE PeerAloneAssumption, RelayAssumption
<1> DEFINE Inv == AllAddressed /\ Offering /\ FrontAnswers /\ AllTrue
<1>1. RelayInit => Inv
  <2> SUFFICES ASSUME RelayInit PROVE Inv
    OBVIOUS
  <2>1. /\ Front \in Peers /\ Front \in Ends /\ Remote[Front] \in Ends
        /\ \A r \in Relayed : r \in Requests
    BY EndsOfPeer DEF Relayed
  <2>2. /\ wire[Front] = <<>> /\ wire[Remote[Front]] = <<>> /\ mailbox[Front] = <<>>
        /\ listener[Front] = Listening("next") /\ actor[Front] = Idle
        /\ results[Front] = Collecting("next") /\ requests[Front] = {}
        /\ services = Registered /\ \A r \in Relayed : outcome[r] = "unused"
    BY <2>1 DEF RelayInit, AloneInit, Init
  <2>3. AllAddressed /\ Offering /\ FrontAnswers
    BY <2>2 DEF AllAddressed, Offering, FrontAnswers, Listening, Idle
  <2>4. Truthful(Honest, Broken)
    BY <2>2 DEF Truthful, Collecting, Idle
  <2> QED
    BY <2>3, <2>4 DEF AllTrue
<1>2. RelayInv /\ Inv /\ [RelayNext]_relayVars => Inv'
  <2> SUFFICES ASSUME RelayInv, Inv, [RelayNext]_relayVars
               PROVE  AllAddressed' /\ Offering' /\ FrontAnswers' /\ AllTrue'
    OBVIOUS
  <2>1. AloneInv /\ Truthful(Honest, Broken)
    BY DEF RelayInv, AllTrue
  <2>2. Offering'
    BY OfferingKept
  <2>3. ASSUME NEW p \in Peers, Moves(p)
        PROVE  AllAddressed' /\ FrontAnswers' /\ AllTrue'
    <3>1. PICK H, B : H = Honest /\ B = Broken
      OBVIOUS
    <3>2. Truthful(H, B)'
      BY <2>1, <2>3, <3>1, TruthKept
    <3>3. H \subseteq Honest' /\ B \subseteq Broken'
      BY <2>1, <3>1, LegsSettle
    <3>4. Truthful(Honest, Broken)'
      BY <3>2, <3>3, TruthLasts
    <3> QED
      BY <2>1, <2>3, <3>4, AddressedKept, FrontAnswersOnly DEF AllTrue
  <2>4. CASE \/ \E t \in requests[Front] : Return(t)
             \/ \E p \in Peers : EnvStep(p)
             \/ EndProgram \/ UNCHANGED relayVars
    <3>0. AllTrue' <=> Truthful(Honest, Broken)'
      BY DEF AllTrue
    <3>1. AllAddressed' /\ FrontAnswers'
      BY <2>1, <2>4, AddressedStill, FrontAnswersStill
    <3>2. PICK H, B : H = Honest /\ B = Broken
      OBVIOUS
    <3>3. CASE \/ \E p \in Peers : EnvStep(p)
               \/ EndProgram \/ UNCHANGED relayVars
      <4>1. Truthful(H, B)'
        BY <2>1, <3>2, <3>3, TruthTold
      <4>2. H \subseteq Honest' /\ B \subseteq Broken'
        BY <2>1, <3>2, LegsSettle
      <4>3. Truthful(Honest, Broken)'
        BY <4>1, <4>2, TruthLasts
      <4> QED
        BY <2>2, <3>0, <3>1, <4>3
    <3>4. CASE \E t \in requests[Front] : Return(t)
      BY <2>1, <2>2, <3>0, <3>1, <3>4, TruthOfTasks
    <3> QED
      BY <2>4, <3>3, <3>4
  <2> QED
    BY <2>1, <2>2, <2>3, <2>4, RelaySteps
<1>3. Inv => RelayedFaithfully
  BY DEF AllTrue, Truthful, Honest, Broken, RelayedFaithfully
<1> QED
  BY <1>1, <1>2, <1>3, RelayAlways, PTL DEF RelaySpec


-----------------------------------------------------------------------------
(* When the provider is gone.                                              *)

(* peer.rs: a call of Back that nobody will answer was refused, written to *)
(* a connection nobody reads, or cut off by a close.  As long as there are *)
(* ids for all calls none is dropped for another.                          *)
LEMMA HowCallsFail ==
  ASSUME AloneInv, AllShut, EnoughIds, "Spawn" \notin Faults,
         NEW p \in Peers, deaf[Remote[p]] => eof[p], PeerStep(p) \/ UserStep(p),
         NEW r \in Calls, outcome[r] \notin Gone, outcome'[r] \in Gone
  PROVE  closed'[p] \/ eof'[p]
<1> USE DEF Typed, TypeOK
<1>1. /\ Typed /\ Requesting /\ r \in Requests /\ p \in Ends /\ Shut(p) /\ TrafficAt(p)
      /\ outcome'[r] # outcome[r]
  BY EndsOfPeer DEF AloneInv, AloneTyped, Requests, AllShut, Requesting, Traffic
<1>2. closed[p] => closed'[p]
  BY <1>1, WhatStays
<1>3. eof[p] => eof'[p]
  BY <1>1, WhatStays
<1>4. ASSUME NEW x, NEW o, Learn(x, o) PROVE r = x /\ outcome'[r] = o
  BY <1>1, <1>4 DEF Learn
<1>5. \A o \in {"queued", "sent", "pending", "ok", "error", "timeout", "wrong"} : o \notin Gone
  BY DEF Gone
<1>6. ASSUME NEW w, NEW c, Close(p, c, w) PROVE closed'[p]
  BY <1>1, <1>6 DEF Close
<1>7. CASE HandleCloseConnection(p) \/ ErrorSentThenClose(p)
  BY <1>1, <1>6, <1>7, ClosingSteps
<1>8. CASE GraceOver(p) \/ RefuseCall(p) \/ RefuseWireFormat(p)
  BY <1>1, <1>2, <1>8 DEF GraceOver, RefuseCall, RefuseWireFormat, CanSend, Shut
<1>9. CASE WriteFails(p)
  BY <1>3, <1>9 DEF WriteFails
<1>10. CASE UserStep(p)
  <2>1. ~(\E x \in Requests : UserCall(p, x) \/ UserSend(p, x))
    BY <1>4, <1>5 DEF UserCall, UserSend
  <2> QED
    BY <1>1, <1>10, <2>1 DEF UserStep, UserClose
<1>11. CASE HandleTimeout(p) \/ IncomingResponse(p) \/ IncomingError(p)
  BY <1>1, <1>4, <1>5, <1>11 DEF HandleTimeout, IncomingResponse, IncomingError, Resolve
<1>12. CASE FrameSent(p)
  BY <1>1, <1>4, <1>5, <1>12 DEF FrameSent
<1>13. CASE CallSent(p)
  <2>1. PICK f \in Frames : f = actor[p].frame /\ actor[p].at = "write"
    <3>1. actor[p] \in Actors /\ actor[p].at = "write"
      BY <1>1, <1>13 DEF CallSent, WritingFor
    <3> QED
      BY <3>1 DEF Actors, Idle, InGrace
  <2>2. f.req \in Calls /\ f.cid \in Cids
    BY <1>1, <1>13, <2>1 DEF CallSent, WritingFor, CallsWritten, Frames
  <2>3. r # f.req /\ r = responses[p][f.cid]
    BY <1>1, <1>5, <1>13, <2>1 DEF CallSent
  <2>4. PICK g \in Labels : Labelled(g) /\ Counted(g, p)
    BY DEF AloneInv, Knowing, Identified
  <2>5. f.cid = g[r] /\ f.cid = g[f.req]
    <3>1. r # NoCall /\ f # WireErr
      BY <1>1
    <3>2. LabelledAt(g, p)
      BY <2>4 DEF Labelled
    <3> QED
      BY <2>1, <2>2, <2>3, <3>1, <3>2 DEF LabelledAt, Tagged
  <2>6. Origin[r] = p /\ Origin[f.req] = p /\ f.cid # NullCid
    <3>1. Origin[r] = p
      BY <1>1, <2>2, <2>3 DEF Requesting, AllMapped, MapEntry
    <3>2. ToBeWritten(p, f, "call")
      BY <1>1, <1>13, <2>1 DEF TrafficAt, CallSent, WritingFor
    <3> QED
      BY <3>1, <3>2 DEF ToBeWritten, Own
  <2> QED
    BY <2>2, <2>3, <2>4, <2>5, <2>6 DEF Counted, Given
<1>14. CASE \/ HandleCall(p) \/ HandleWireFormat(p) \/ HandleCallResponse(p)
            \/ DropCallResponse(p) \/ HandleRequestError(p) \/ IgnoreIncoming(p)
            \/ IncomingFailure(p) \/ IncomingSend(p) \/ IncomingCall(p)
            \/ CallSentNoTimer(p) \/ ResponseSent(p) \/ ErrorSent(p)
  BY <1>1, <1>14 DEF HandleCall, HandleWireFormat, HandleCallResponse, DropCallResponse,
     HandleRequestError, IgnoreIncoming, IncomingFailure, IncomingSend, IncomingCall,
     CallSentNoTimer, ResponseSent, ErrorSent
<1>15. CASE ListenerStep(p) \/ DeliverResult(p)
            \/ (\E t \in requests[p] : Serve(p, t) \/ Collect(p, t))
            \/ (\E t \in timers[p] : TimerFires(p, t))
  BY <1>1, <1>15 DEF ListenerStep, ListenNext, PassGate, ListenSend, ListenEnd, Serve, Collect,
     DeliverResult, TimerFires
<1> QED
  BY <1>7, <1>8, <1>9, <1>10, <1>11, <1>12, <1>13, <1>14, <1>15
     DEF PeerStep, ActorStep, Handle, Resume

(* peer_event.rs: observers hear of RelayGone from a task only.            *)
LEMMA HowGoneIsReported ==
  ASSUME Typed, NEW p \in Peers, PeerStep(p) \/ UserStep(p), NEW q \in Peers,
         "RelayGone" \in events'[q]
  PROVE  \/ "RelayGone" \in events[q]
         \/ /\ q = p /\ Taken(p) /\ Head(mailbox[p]).type = "RequestError"
            /\ Head(mailbox[p]).err = "RelayGone"
<1> USE DEF Typed, TypeOK
<1>1. ASSUME NEW e, Emit(p, e), e # "RelayGone" PROVE "RelayGone" \in events[q]
  BY <1>1 DEF Emit
<1>2. ASSUME NEW e, NEW cid, NEW r, ReportError(p, e, cid, r), e # "RelayGone"
      PROVE  "RelayGone" \in events[q]
  BY <1>1, <1>2 DEF ReportError
<1>3. CASE UNCHANGED events
  BY <1>3
<1>4. ASSUME NEW w, NEW c, Close(p, c, w) PROVE "RelayGone" \in events[q]
  BY <1>4 DEF Close
<1>5. CASE HandleCloseConnection(p) \/ ErrorSentThenClose(p)
  BY <1>4, <1>5, ClosingSteps
<1>6. CASE HandleRequestError(p)
  <2>1. PICK m : m = Head(mailbox[p])
    OBVIOUS
  <2>2. Taken(p) /\ m.type = "RequestError" /\ ReportError(p, m.err, m.cid, m.req)
    BY <1>6, <2>1 DEF HandleRequestError, Receive, Taken
  <2> QED
    BY <1>3, <2>1, <2>2 DEF ReportError, Emit
<1>7. ASSUME NEW f, NEW kinds, "RelayGone" \notin kinds, NEW e \in Rejections(kinds, f, p)
      PROVE  e # "RelayGone"
  BY <1>7 DEF Rejections
<1>8. CASE IncomingSend(p)
  BY <1>1, <1>7, <1>8 DEF IncomingSend
<1>9. CASE IncomingCall(p)
  BY <1>2, <1>7, <1>9 DEF IncomingCall
<1>10. CASE IncomingFailure(p) \/ IncomingError(p)
  BY <1>1, <1>10 DEF IncomingFailure, IncomingError
<1> QED
  BY <1>3, <1>5, <1>6, <1>8, <1>9, <1>10 DEF PeerStep, ActorStep, Handle, Resume, HandleCall,
     RefuseCall, HandleWireFormat, RefuseWireFormat, HandleCallResponse, DropCallResponse,
     HandleTimeout, IgnoreIncoming, IncomingResponse, CallSent, CallSentNoTimer, FrameSent,
     ResponseSent, ErrorSent, WriteFails, GraceOver, ListenerStep, ListenNext, PassGate,
     ListenSend, ListenEnd, Serve, Collect, DeliverResult, TimerFires, UserStep, UserCall,
     UserSend, UserClose


(* The connection to the provider is closed, or the provider has left it.  *)
Down == closed[Back] \/ eof[Back]

(* Front has heard of nothing that is gone.                                *)
NotGone(m) == m.type = "RequestError" => m.err # "RelayGone"
Quiet ==
  /\ "RelayGone" \notin events[Front]
  /\ \A i \in DOMAIN mailbox[Front] : NotGone(mailbox[Front][i])
  /\ results[Front].at = "send" => NotGone(results[Front].msg)
  /\ \A t \in requests[Front] : t.state # "RelayGone"

(* A program that no longer reads has closed the connection; the calls of  *)
(* Back come to nothing, and Front hears of it, only when it is down.      *)
DeafHangUp  == \A p \in Peers : deaf[Remote[p]] => eof[p]
CallsOfBack == \A c \in Calls : Origin[c] = Back /\ outcome[c] \in Gone => Down
GoneInv     == DeafHangUp /\ CallsOfBack /\ (Down \/ Quiet)

(* peer.rs: what goes from the tasks of Front to its observers.            *)
LEMMA QuietKept ==
  ASSUME AloneInv, RelayAssumption, NEW p \in Peers, Moves(p), Quiet
  PROVE  Quiet'
<1>1. /\ Typed /\ Front \in Peers /\ mailbox[Front] \in Seq(Messages)
      /\ (PeerStep(p) \/ UserStep(p))
  BY DEF AloneInv, AloneTyped, Typed, TypeOK, RelayAssumption, Moves
<1>2. "RelayGone" \notin events'[Front]
  <2>1. Taken(Front) => NotGone(Head(mailbox[Front]))
    BY <1>1, HeadOfMailbox DEF Quiet
  <2> QED
    BY <1>1, <2>1, HowGoneIsReported DEF Quiet, NotGone
<1>3. CASE p # Front
  <2>1. /\ mailbox'[Front] = mailbox[Front] /\ results'[Front] = results[Front]
        /\ requests'[Front] = requests[Front]
    BY <1>1, <1>3, OthersUntouched DEF OthersKept
  <2> QED
    BY <1>2, <2>1 DEF Quiet
<1>4. CASE p = Front
  <2>1. \A i \in DOMAIN mailbox'[Front] : NotGone(mailbox'[Front][i])
    <3>1. CASE mailbox'[Front] = mailbox[Front]
      BY <3>1 DEF Quiet
    <3>2. CASE Taken(Front)
      BY <1>1, <3>2, HeadOfMailbox DEF Quiet
    <3>3. ASSUME NEW m \in Messages, Arrives(Front, m),
                 mailbox'[Front] = Append(mailbox[Front], m)
          PROVE  \A i \in DOMAIN mailbox'[Front] : NotGone(mailbox'[Front][i])
      <4>1. PICK u \in Seq(Messages) : u = mailbox[Front]
        BY <1>1
      <4>2. \A i \in DOMAIN Append(u, m) : (i \in DOMAIN u /\ Append(u, m)[i] = u[i]) \/ Append(u, m)[i] = m
        BY PutInto
      <4>3. results[Front].at = "send" => NotGone(results[Front].msg)
        BY DEF Quiet
      <4>4. NotGone(m)
        BY <3>3, <4>3 DEF Arrives, NotGone, IncomingMsg, CloseMsg, TimeoutMsg, CallMsg,
           WireFormatMsg
      <4> QED
        BY <3>3, <4>1, <4>2, <4>4 DEF Quiet
    <3> QED
      BY <1>1, <1>4, <3>1, <3>2, <3>3, MailboxStep
  <2>2. results'[Front].at = "send" => NotGone(results'[Front].msg)
    <3>1. ASSUME NEW t \in requests[Front], NEW m \in ResultOf(t) PROVE NotGone(m)
      <4>1. t.state # "RelayGone"
        BY DEF Quiet
      <4>2. \/ m = CallResponseMsg(ResponseFrame(t.frame.req, t.frame.cid))
            \/ m = WireFormatMsg(ErrorFrame(t.frame.req, t.frame.cid))
            \/ m = RequestErrorMsg(t.state, t.frame)
        BY <3>1 DEF ResultOf
      <4> QED
        BY <4>1, <4>2 DEF NotGone, CallResponseMsg, WireFormatMsg, RequestErrorMsg
    <3> QED
      BY <1>1, <1>4, <3>1, ResultsStep DEF Quiet
  <2>3. \A t \in requests'[Front] : t.state # "RelayGone"
    <3>1. \A t \in requests'[Front] : t \in requests[Front] \/ t.state = Running
      BY <1>4 DEF Moves
    <3> QED
      BY <3>1 DEF Quiet, Running
  <2> QED
    BY <1>2, <2>1, <2>2, <2>3 DEF Quiet
<1> QED
  BY <1>3, <1>4

(* relay_map.rs:139-196: a task reports RelayGone when its leg is gone.    *)
LEMMA QuietTasks ==
  ASSUME AloneInv, RelayAssumption, CallsOfBack, ~Down, Quiet,
         NEW t \in requests[Front], Return(t)
  PROVE  Quiet'
<1>1. UNCHANGED <<mailbox, results, events>>
  BY DEF Return, actorVars
<1>2. PICK end : /\ requests' = [requests EXCEPT ![Front] =
                                   (@ \ {t}) \cup {[frame |-> t.frame, state |-> end]}]
                 /\ end = "RelayGone" =>
                      t.frame.req \in Calls /\ outcome[Leg[t.frame.req]] \in Gone
  <2>1. \E end : /\ requests' = [requests EXCEPT ![Front] =
                                   (@ \ {t}) \cup {[frame |-> t.frame, state |-> end]}]
                 /\ t.frame.req \in Calls /\ end = "RelayGone" =>
                      outcome[Leg[t.frame.req]] \in Gone
                 /\ t.frame.req \notin Calls => end = "done"
    BY ReturnEnds
  <2> QED
    BY <2>1
<1>3. end # "RelayGone"
  <2>1. t.frame.req \in Relayed
    BY TaskOfClient
  <2>2. t.frame.req \in Calls => Leg[t.frame.req] \in Calls /\ Origin[Leg[t.frame.req]] = Back
    BY <2>1 DEF RelayAssumption
  <2> QED
    BY <1>2, <2>2 DEF CallsOfBack
<1>4. PICK u : u = [frame |-> t.frame, state |-> end]
  OBVIOUS
<1>5. requests'[Front] = (requests[Front] \ {t}) \cup {u} /\ u.state # "RelayGone"
  <2>1. requests \in [Peers -> SUBSET Tasks] /\ Front \in Peers
    BY DEF RelayAssumption, AloneInv, AloneTyped, Typed, TypeOK
  <2> QED
    BY <1>2, <1>3, <1>4, <2>1
<1> QED
  BY <1>1, <1>5 DEF Quiet

(* The other ends hang up, and never come back.                            *)
LEMMA OutsideHangsUp ==
  ASSUME AloneInv, RelayAssumption, PeerAloneAssumption, DeafHangUp,
         NEW p \in Peers, EnvStep(p)
  PROVE  /\ DeafHangUp' /\ closed' = closed
         /\ \A q \in Peers : eof[q] => eof'[q]
<1>1. /\ AloneTyped /\ Remote[p] \in Ends /\ p \in Ends
      /\ \A q \in Peers : q \in Ends /\ Remote[q] \in Ends /\ (Remote[q] = Remote[p] => q = p)
  BY EndsOfPeer DEF AloneInv
<1> USE DEF AloneTyped, Typed, TypeOK
<1>2. CASE UNCHANGED <<eof, deaf>>
  BY <1>2 DEF EnvStep, EnvRead, EnvAnswer, EnvRequest, EnvGarble, EnvHangUp, EnvFollow,
     envFrame, actorVars, DeafHangUp
<1>3. CASE /\ eof' = [eof EXCEPT ![p] = TRUE]
           /\ deaf' = [deaf EXCEPT ![Remote[p]] = TRUE]
           /\ UNCHANGED closed
  <2>1. \A q \in Peers : deaf'[Remote[q]] => eof'[q]
    BY <1>1, <1>3 DEF DeafHangUp
  <2>2. \A q \in Peers : eof[q] => eof'[q]
    BY <1>1, <1>3
  <2> QED
    BY <1>3, <2>1, <2>2 DEF DeafHangUp
<1> QED
  BY <1>2, <1>3 DEF EnvStep, EnvRead, EnvAnswer, EnvRequest, EnvGarble, EnvHangUp,
     EnvFollow, Transmit, envFrame, actorVars

(* relay_map.rs:127-174: RelayGone is reported only when the connection to *)
(* the provider is closed or broken, if ids do not wrap and the timers of  *)
(* calls can be spawned.                                                   *)
THEOREM GoneMeansGone ==
  ASSUME EnoughIds, "Spawn" \notin Faults
  PROVE  RelaySpec => []GoneIsGone
<1> USE PeerAloneAssumption, RelayAssumption
<1>1. RelayInit => GoneInv
  <2> SUFFICES ASSUME RelayInit PROVE GoneInv
    OBVIOUS
  <2>1. /\ Front \in Peers /\ Back \in Peers
        /\ \A p \in Peers : Remote[p] \in Ends
        /\ \A c \in Calls : c \in Requests
    BY EndsOfPeer DEF Requests
  <2>2. Quiet
    BY <2>1 DEF RelayInit, AloneInit, Init, Quiet, Collecting
  <2>3. DeafHangUp /\ CallsOfBack
    BY <2>1 DEF RelayInit, AloneInit, Init, DeafHangUp, CallsOfBack, Gone
  <2> QED
    BY <2>2, <2>3 DEF GoneInv
<1>2. RelayInv /\ GoneInv /\ [RelayNext]_relayVars => GoneInv'
  <2> SUFFICES ASSUME RelayInv, GoneInv, [RelayNext]_relayVars PROVE GoneInv'
    OBVIOUS
  <2>1. /\ AloneInv /\ AllShut /\ AloneTyped /\ Traffic /\ Typed /\ Requesting
        /\ DeafHangUp /\ CallsOfBack /\ (Down \/ Quiet)
        /\ Front \in Peers /\ Back \in Peers /\ Back \in Ends
    BY EndsOfPeer DEF RelayInv, GoneInv, AloneInv, AloneTyped, Requesting
  <2>2. ASSUME NEW p \in Peers, Moves(p) PROVE GoneInv'
    <3>1. PeerStep(p) \/ UserStep(p)
      BY <2>2 DEF Moves
    <3>2. /\ \A q \in Peers : closed[q] => closed'[q]
          /\ \A e \in Ends : /\ eof[e] => eof'[e]
                             /\ e # p => deaf'[e] = deaf[e]
      BY <2>1, <3>1, WhatStays
    <3>3. DeafHangUp'
      <4>1. \A q \in Peers : q \in Ends /\ Remote[q] \in Ends /\ Remote[q] # p
        BY EndsOfPeer
      <4> QED
        BY <2>1, <3>2, <4>1 DEF DeafHangUp
    <3>4. Down => Down'
      BY <2>1, <3>2 DEF Down
    <3>5. ASSUME NEW c \in Calls, Origin[c] = Back, outcome'[c] \in Gone PROVE Down'
      <4>1. CASE outcome[c] \in Gone
        BY <2>1, <3>4, <3>5, <4>1 DEF CallsOfBack
      <4>2. CASE outcome[c] \notin Gone
        <5>1. c \in Requests /\ outcome'[c] # outcome[c]
          BY <3>5, <4>2 DEF Requests
        <5>2. p = Back
          BY <2>1, <3>1, <3>5, <5>1, OutcomeStep DEF Advances
        <5>3. deaf[Remote[p]] => eof[p]
          BY <2>1 DEF DeafHangUp
        <5>4. closed'[p] \/ eof'[p]
          BY <2>1, <3>1, <3>5, <4>2, <5>3, HowCallsFail
        <5> QED
          BY <5>2, <5>4 DEF Down
      <4> QED
        BY <4>1, <4>2
    <3>6. Quiet => Quiet'
      BY <2>1, <2>2, QuietKept
    <3> QED
      BY <2>1, <3>3, <3>4, <3>5, <3>6 DEF GoneInv, CallsOfBack
  <2>3. ASSUME NEW t \in requests[Front], Return(t) PROVE GoneInv'
    <3>1. UNCHANGED <<closed, eof, deaf, outcome>>
      BY <2>3 DEF Return, actorVars, wireVars
    <3>2. DeafHangUp' /\ CallsOfBack' /\ (Down <=> Down')
      BY <2>1, <3>1 DEF DeafHangUp, CallsOfBack, Down
    <3>3. ~Down => Quiet'
      BY <2>1, <2>3, QuietTasks
    <3> QED
      BY <3>2, <3>3 DEF GoneInv
  <2>4. CASE \/ \E p \in Peers : EnvStep(p)
             \/ EndProgram \/ UNCHANGED relayVars
    <3>1. /\ mailbox'[Front] = mailbox[Front] /\ results'[Front] = results[Front]
          /\ events'[Front] = events[Front] /\ closed' = closed
      BY <2>1, <2>4, FrontUntouched
    <3>2. requests'[Front] = requests[Front]
      BY <2>4 DEF EnvStep, EnvRead, EnvAnswer, EnvRequest, EnvGarble, EnvHangUp, EnvFollow,
         envFrame, EndProgram, relayVars, aloneVars, vars, taskVars
    <3>3. Quiet => Quiet'
      BY <3>1, <3>2 DEF Quiet
    <3>4. DeafHangUp' /\ \A q \in Peers : eof[q] => eof'[q]
      <4>1. CASE EndProgram \/ UNCHANGED relayVars
        <5>1. UNCHANGED <<eof, deaf>>
          BY <4>1 DEF EndProgram, relayVars, aloneVars, vars, wireVars
        <5> QED
          BY <2>1, <5>1 DEF DeafHangUp
      <4> QED
        BY <2>1, <2>4, <4>1, OutsideHangsUp
    <3>5. Down => Down'
      BY <2>1, <3>1, <3>4 DEF Down
    <3>6. ASSUME NEW c \in Calls, Origin[c] = Back PROVE outcome'[c] = outcome[c]
      <4>1. CASE EndProgram \/ UNCHANGED relayVars
        BY <4>1 DEF EndProgram, relayVars, aloneVars, vars
      <4>2. ASSUME NEW p \in Peers, EnvStep(p) PROVE outcome'[c] = outcome[c]
        <5>1. c \in Requests /\ Origin[c] # Remote[p]
          BY <2>1, <3>6 DEF Requests, PeerAloneAssumption
        <5> QED
          BY <2>1, <4>2, <5>1, EnvLearns
      <4> QED
        BY <2>4, <4>1, <4>2
    <3> QED
      BY <2>1, <3>3, <3>4, <3>5, <3>6 DEF GoneInv, CallsOfBack
  <2> QED
    BY <2>1, <2>2, <2>3, <2>4, RelaySteps
<1>3. GoneInv => GoneIsGone
  BY DEF GoneInv, Down, Quiet, GoneIsGone
<1> QED
  BY <1>1, <1>2, <1>3, RelayAlways, PTL DEF RelaySpec
=============================================================================
