--------------------------- MODULE ConnectionProofs ---------------------------
(***************************************************************************)
(* Theorems about Connection.tla: two peers of this crate at the two ends  *)
(* of a connection, for any number of connections, requests, services, ids *)
(* and slots, and any faults.                                              *)
(***************************************************************************)
EXTENDS Connection, PeerProofs

USE WireFormatAssumption, PeerAssumption

-----------------------------------------------------------------------------
(* What the lemmas about one peer make of the whole.                       *)
ConnectionInv == Typed /\ Requesting /\ AllTimed /\ AllShut

(* Connection.tla: each step is that of one peer or of one of its users.   *)
LEMMA ConnectionSteps ==
  ASSUME ConnectionNext
  PROVE  \E p \in Peers : PeerStep(p) \/ UserStep(p)
BY DEF ConnectionNext

(* src/peer.rs: what each step of a peer preserves holds of both.          *)
LEMMA ConnectionInvAlways == ConnectionSpec => []ConnectionInv
<1>1. Init => ConnectionInv
  BY FirstTyped, FirstRequesting, FirstShut DEF ConnectionInv
<1>2. ConnectionInv /\ [ConnectionNext]_vars => ConnectionInv'
  <2> SUFFICES ASSUME ConnectionInv, [ConnectionNext]_vars PROVE ConnectionInv'
    OBVIOUS
  <2>1. ASSUME NEW p \in Peers, PeerStep(p) \/ UserStep(p) PROVE ConnectionInv'
    <3>1. Typed'
      BY <2>1, PeerStepType, UserType DEF ConnectionInv
    <3>2. Requesting' /\ AllTimed'
      BY <2>1, RequestingKept, TimedKept DEF ConnectionInv
    <3>3. AllShut'
      BY <2>1, PeerStepShuts, UserShuts DEF ConnectionInv
    <3> QED
      BY <3>1, <3>2, <3>3 DEF ConnectionInv
  <2>2. CASE UNCHANGED vars
    <3>1. Typed'
      BY <2>2 DEF ConnectionInv, Typed, TypeOK, CallsWritten, WritingFor, vars, actorVars,
         taskVars, wireVars
    <3>2. Requesting' /\ AllTimed'
      BY <2>2, NothingHappens DEF ConnectionInv
    <3>3. AllShut'
      BY <2>2, ShutKept DEF ConnectionInv, vars, actorVars, taskVars, wireVars, EndsLast
    <3> QED
      BY <3>1, <3>2, <3>3 DEF ConnectionInv
  <2> QED
    BY <2>1, <2>2, ConnectionSteps
<1> QED
  BY <1>1, <1>2, PTL DEF ConnectionSpec

(* src/peer.rs: two peers, whatever they send each other, stay within the  *)
(* states their types and their handlers' cases foresee.                   *)
THEOREM ConnectionTyped == ConnectionSpec => []TypeOK
<1>1. ConnectionInv => TypeOK
  BY DEF ConnectionInv, Typed
<1> QED
  BY <1>1, ConnectionInvAlways, PTL

(* call.rs:114-123, timeout.rs: a caller that waits has a channel in the   *)
(* map, and a timer that will take it out, whatever the remote does and    *)
(* however often the ids wrap.                                             *)
THEOREM ConnectionCallsAreTimed == ConnectionSpec => []PendingCallsAreTimed
<1>1. ConnectionInv => PendingCallsAreTimed
  BY TimedMeans DEF ConnectionInv
<1> QED
  BY <1>1, ConnectionInvAlways, PTL

(* A request is settled once: no late answer, timeout or shutdown changes  *)
(* what the caller was told.                                               *)
THEOREM ConnectionSettlesOnce == ConnectionSpec => SettledOnce
<1> DEFINE Settled == \A r \in Requests : outcome[r] \in Final => outcome'[r] = outcome[r]
<1>1. ConnectionInv /\ [ConnectionNext]_vars => [Settled]_outcome
  <2> SUFFICES ASSUME ConnectionInv, [ConnectionNext]_vars
               PROVE  Settled \/ UNCHANGED outcome
    OBVIOUS
  <2>1. ASSUME NEW p \in Peers, PeerStep(p) \/ UserStep(p), NEW r \in Requests,
               outcome'[r] # outcome[r]
        PROVE  outcome[r] \notin Final
    BY <2>1, OutcomeStep DEF ConnectionInv, Advances, NewlyMade, Final
  <2>2. UNCHANGED vars => UNCHANGED outcome
    BY DEF vars
  <2> QED
    BY <2>1, <2>2, ConnectionSteps
<1> QED
  BY <1>1, ConnectionInvAlways, PTL DEF ConnectionSpec, SettledOnce

(* incoming.rs:63-95, timeout.rs:33: a caller is only ever told of the     *)
(* answer, the error or the timeout of its own call, as long as the ids of *)
(* the connection do not wrap.                                             *)
THEOREM ConnectionAnswersNeverCross ==
  ASSUME EnoughIds
  PROVE  ConnectionSpec => []NoCrossedAnswers
<1> DEFINE AllKnown == \E g \in Labels : Identified(g)
<1>1. Init => AllKnown /\ NoCrossedAnswers
  <2> SUFFICES ASSUME Init PROVE AllKnown /\ NoCrossedAnswers
    OBVIOUS
  <2>1. PICK g : g = [r \in Requests |-> NullCid]
    OBVIOUS
  <2>2. g \in Labels
    BY <2>1 DEF Labels, NullCid, Cids
  <2>3. Identified(g)
    BY <2>1, <2>2, FirstIdentified DEF Requests
  <2> QED
    BY <2>2, <2>3 DEF Init, NoCrossedAnswers, Requests
<1>2. ConnectionInv /\ AllKnown /\ NoCrossedAnswers /\ [ConnectionNext]_vars
        => AllKnown' /\ NoCrossedAnswers'
  <2> SUFFICES ASSUME ConnectionInv, NEW g \in Labels, Identified(g), NoCrossedAnswers,
                      [ConnectionNext]_vars
               PROVE  AllKnown' /\ NoCrossedAnswers'
    OBVIOUS
  <2>1. ASSUME NEW p \in Peers, PeerStep(p) \/ UserStep(p)
        PROVE  AllKnown' /\ NoCrossedAnswers'
    <3>1. AllKnown'
      BY <2>1, IdentifiedKept DEF ConnectionInv
    <3>2. NoCrossedAnswers'
      BY <2>1, EnoughIds, NothingCrosses DEF ConnectionInv, NoCrossedAnswers, Requests
    <3> QED
      BY <3>1, <3>2
  <2>2. CASE UNCHANGED vars
    BY <2>2 DEF NoCrossedAnswers, Identified, Labelled, LabelledAt, Ungiven, Waits,
       InMailbox, Counted, vars, actorVars, taskVars, wireVars
  <2> QED
    BY <2>1, <2>2, ConnectionSteps
<1> QED
  BY <1>1, <1>2, ConnectionInvAlways, PTL DEF ConnectionSpec

-----------------------------------------------------------------------------
(* Answers.                                                                *)

(* A frame that says a call was processed says so of a call that was.      *)
Earned(H, x) == x # WireErr /\ x.sid = FullSid => x.req \in H

Says(H, m) == /\ m.type \in {"WireFormat", "CallResponse"} => Earned(H, m.frame)
              /\ m.type = "Incoming" => Earned(H, m.msg)

BackedAt(p) ==
  /\ \A i \in DOMAIN mailbox[p] : Says(handled, mailbox[p][i])
  /\ results[p].at = "send" => Says(handled, results[p].msg)
  /\ actor[p].at = "write" => Earned(handled, actor[p].frame)
  /\ listener[p].at \in {"gate", "send"} => Earned(handled, listener[p].msg)
  /\ \A t \in requests[p] : t.state = "done" => t.frame.req \in handled

Backed == /\ \A p \in Peers : BackedAt(p)
          /\ \A e \in Ends : \A i \in DOMAIN wire[e] : Earned(handled, wire[e][i])

(* incoming.rs:73-94: the only place where a caller is told of a response. *)
LEMMA OkIsAResponse ==
  ASSUME Typed, NEW p \in Peers, PeerStep(p) \/ UserStep(p), NEW r \in Requests,
         outcome'[r] = "ok", outcome[r] # "ok"
  PROVE  Taken(p) /\ Head(mailbox[p]).type = "Incoming" /\ Head(mailbox[p]).msg # WireErr
         /\ Head(mailbox[p]).msg.sid = FullSid /\ Head(mailbox[p]).msg.req = r
<1> USE DEF Typed, TypeOK
<1>1. ASSUME NEW x, NEW o, Learn(x, o) PROVE r = x /\ o = "ok"
  BY <1>1 DEF Learn
<1>2. ASSUME NEW w, DropEverything(p, w) PROVE FALSE
  BY <1>2 DEF DropEverything
<1>3. ASSUME NEW w, NEW c, Close(p, c, w) PROVE FALSE
  BY <1>2, <1>3 DEF Close
<1>4. ~HandleCloseConnection(p) /\ ~ErrorSentThenClose(p)
  BY <1>3, ClosingSteps
<1>5. ~GraceOver(p)
  BY <1>2 DEF GraceOver
<1>6. ~UserStep(p)
  BY <1>1 DEF UserStep, UserCall, UserSend, UserClose
<1>7. \A cid, x, o : Resolve(p, cid, x, o) => o = "ok" /\ r = responses[p][cid] /\ r = x
  BY <1>1 DEF Resolve
<1>8. ~Resume(p)
  BY <1>1, <1>4 DEF Resume, CallSent, CallSentNoTimer, FrameSent, ResponseSent, ErrorSent,
     WriteFails
<1>9. Handle(p) => IncomingResponse(p)
  BY <1>1, <1>4, <1>7 DEF Handle, HandleCall, RefuseCall, HandleWireFormat,
     RefuseWireFormat, HandleCallResponse, DropCallResponse, HandleRequestError,
     HandleTimeout, IgnoreIncoming, IncomingFailure, IncomingSend, IncomingCall,
     IncomingError
<1>10. CASE IncomingResponse(p)
  <2>1. /\ Taken(p) /\ Head(mailbox[p]).type = "Incoming" /\ Incoming(p) # WireErr
        /\ Kind(Incoming(p)) = "CallResponse"
    BY <1>10 DEF IncomingResponse, ReceiveFrame, Receive, Taken
  <2>2. r = Incoming(p).req
    BY <1>7, <1>10 DEF IncomingResponse
  <2> QED
    BY <2>1, <2>2, KindsOfFrames DEF Incoming
<1>11. CASE ListenerStep(p) \/ DeliverResult(p)
            \/ (\E t \in requests[p] : Serve(p, t) \/ Collect(p, t))
            \/ (\E t \in timers[p] : TimerFires(p, t))
  BY <1>11 DEF ListenerStep, ListenNext, PassGate, ListenSend, ListenEnd, Serve, Collect,
     DeliverResult, TimerFires
<1> QED
  BY <1>5, <1>6, <1>8, <1>9, <1>10, <1>11 DEF PeerStep, ActorStep

(* call_response.rs, incoming.rs: no answer is made up on its way.         *)
LEMMA BackedKept ==
  ASSUME Typed, Backed, NEW p \in Peers, PeerStep(p) \/ UserStep(p)
  PROVE  Backed'
<1>1. BackedAt(p) /\ handled \subseteq handled'
  BY HandledStays DEF Backed
<1>2. mailbox[p] \in Seq(Messages) /\ wire \in [Ends -> Seq(Items)] /\ requests[p] \subseteq Tasks
  BY DEF Typed, TypeOK, Items
<1>3. \A x : Earned(handled, x) => Earned(handled', x)
  BY <1>1 DEF Earned
<1>4. \A m : Says(handled, m) => Says(handled', m)
  BY <1>3 DEF Says
<1>5. \A i \in DOMAIN mailbox'[p] : Says(handled', mailbox'[p][i])
  <2>1. CASE mailbox'[p] = mailbox[p]
    BY <1>1, <1>4, <2>1 DEF BackedAt
  <2>2. CASE Taken(p)
    BY <1>1, <1>4, <2>2, HeadOfMailbox DEF BackedAt
  <2>3. ASSUME NEW m \in Messages, Arrives(p, m), mailbox'[p] = Append(mailbox[p], m)
        PROVE  \A i \in DOMAIN mailbox'[p] : Says(handled', mailbox'[p][i])
    <3>1. PICK s \in Seq(Messages) : s = mailbox[p]
      BY <1>2
    <3>2. \A i \in DOMAIN Append(s, m) : (i \in DOMAIN s /\ Append(s, m)[i] = s[i]) \/ Append(s, m)[i] = m
      BY PutInto
    <3>3. Says(handled, m)
      <4>1. ASSUME NEW r \in Sends, m = WireFormatMsg(RequestFrame(r, NullCid))
            PROVE  Says(handled, m)
        <5>1. r \in Requests
          BY DEF Requests
        <5> QED
          BY <4>1, <5>1, MadeFrames DEF Says, Earned, Answers, WireFormatMsg
      <4> QED
        BY <1>1, <2>3, <4>1
           DEF Arrives, BackedAt, Says, IncomingMsg, CloseMsg, TimeoutMsg, CallMsg
    <3> QED
      BY <1>1, <1>4, <2>3, <3>1, <3>2, <3>3 DEF BackedAt
  <2> QED
    BY <2>1, <2>2, <2>3, MailboxStep
<1>6. results'[p].at = "send" => Says(handled', results'[p].msg)
  <2>1. ASSUME NEW t \in requests[p], t.state # Running, NEW m \in ResultOf(t)
        PROVE  Says(handled, m)
    <3>1. t.frame.req \in Requests
      BY <1>2 DEF Tasks, Frames
    <3>2. \/ t.state = "done" /\ m = CallResponseMsg(ResponseFrame(t.frame.req, t.frame.cid))
          \/ m = WireFormatMsg(ErrorFrame(t.frame.req, t.frame.cid))
          \/ m = RequestErrorMsg(t.state, t.frame)
      BY <2>1 DEF ResultOf
    <3>3. t.state = "done" => t.frame.req \in handled
      BY <1>1 DEF BackedAt
    <3> QED
      BY <3>1, <3>2, <3>3, MadeFrames
         DEF Says, Earned, CallResponseMsg, WireFormatMsg, RequestErrorMsg
  <2> QED
    BY <1>1, <1>4, <2>1, ResultsStep DEF BackedAt
<1>7. actor'[p].at = "write" => Earned(handled', actor'[p].frame)
  <2>1. ASSUME NEW f, NEW then, Taken(p), ToWrite(p, Head(mailbox[p]), f, then)
        PROVE  Earned(handled, f)
    <3>1. PICK m \in Messages : m = Head(mailbox[p]) /\ Says(handled, m)
      BY <1>1, <2>1, HeadOfMailbox DEF BackedAt
    <3>2. m.type = "Call" => m.req \in Requests
      BY <3>1, MessageFields DEF Requests
    <3>3. m.type = "Call" => f.sid # FullSid
      BY <2>1, <3>1, <3>2, MadeFrames DEF ToWrite, Answers
    <3>4. m.type \in {"RequestError", "Incoming"} => f.sid # FullSid
      BY <2>1, <3>1 DEF ToWrite, ErrorFrame
    <3> QED
      BY <2>1, <3>1, <3>3, <3>4 DEF ToWrite, Earned, Says
  <2>2. \A f, then : Writing(f, then).frame = f
    BY DEF Writing
  <2> QED
    BY <1>1, <1>3, <2>1, <2>2, ActorStepWrites DEF BackedAt
<1>8. listener'[p].at \in {"gate", "send"} => Earned(handled', listener'[p].msg)
  <2>1. wire[p] # <<>> => 1 \in DOMAIN wire[p] /\ Head(wire[p]) = wire[p][1]
    BY <1>2, EndsOfPeer, TakenFrom
  <2>2. \A i \in DOMAIN wire[p] : Earned(handled, wire[p][i])
    BY EndsOfPeer DEF Backed
  <2> QED
    BY <1>1, <1>3, <2>1, <2>2, ListenerSteps DEF BackedAt
<1>9. \A t \in requests'[p] : t.state = "done" => t.frame.req \in handled'
  <2>1. Running # "done"
    BY DEF Running
  <2> QED
    BY <1>1, <2>1, TaskSteps DEF BackedAt
<1>10. ASSUME NEW e \in Ends PROVE \A i \in DOMAIN wire'[e] : Earned(handled', wire'[e][i])
  <2>1. PICK s \in Seq(Items) : s = wire[e]
    BY <1>2, <1>10
  <2>2. \A i \in DOMAIN s : Earned(handled', s[i])
    BY <1>3, <1>10, <2>1 DEF Backed
  <2>3. CASE wire'[e] = s \/ wire'[e] = <<>> \/ (s # <<>> /\ wire'[e] = Tail(s))
    <3>1. s # <<>> => \A i \in DOMAIN Tail(s) : i + 1 \in DOMAIN s /\ Tail(s)[i] = s[i + 1]
      BY TakenFrom
    <3> QED
      BY <2>2, <2>3, <3>1
  <2>4. ASSUME actor[p].at = "write", wire'[e] = Append(s, actor[p].frame)
        PROVE  \A i \in DOMAIN wire'[e] : Earned(handled', wire'[e][i])
    <3>1. PICK f : f = actor[p].frame /\ Earned(handled', f)
      BY <1>1, <1>3, <2>4 DEF BackedAt
    <3>2. actor[p] \in Actors
      BY DEF Typed, TypeOK
    <3>3. f \in Items
      BY <2>4, <3>1, <3>2 DEF Actors, Idle, InGrace, Items
    <3>4. \A i \in DOMAIN Append(s, f) : (i \in DOMAIN s /\ Append(s, f)[i] = s[i]) \/ Append(s, f)[i] = f
      BY <3>3, PutInto
    <3> QED
      BY <2>2, <2>4, <3>1, <3>4
  <2>5. \/ wire'[e] = s \/ wire'[e] = <<>> \/ (s # <<>> /\ wire'[e] = Tail(s))
        \/ (actor[p].at = "write" /\ wire'[e] = Append(s, actor[p].frame))
    BY <1>10, <2>1, WireStep
  <2> QED
    BY <2>3, <2>4, <2>5
<1>11. BackedAt(p)'
  BY <1>5, <1>6, <1>7, <1>8, <1>9 DEF BackedAt
<1>12. ASSUME NEW q \in Peers \ {p} PROVE BackedAt(q)'
  <2>1. /\ mailbox'[q] = mailbox[q] /\ results'[q] = results[q] /\ actor'[q] = actor[q]
        /\ listener'[q] = listener[q] /\ requests'[q] = requests[q]
    BY OthersUntouched DEF OthersKept
  <2>2. BackedAt(q)
    BY DEF Backed
  <2> QED
    BY <1>1, <1>3, <1>4, <2>1, <2>2 DEF BackedAt
<1> QED
  BY <1>10, <1>11, <1>12 DEF Backed

(* incoming.rs:73-94, service_map_macro.rs:366-407: a caller is told of a  *)
(* response only when an actor of the other process has handled the call.  *)
THEOREM ConnectionOkMeansHandled == ConnectionSpec => []OkMeansHandled
<1>1. Init => Backed /\ OkMeansHandled
  BY EndsOfPeer DEF Init, Backed, BackedAt, OkMeansHandled, Idle, Listening, Collecting,
     Requests
<1>2. ConnectionInv /\ Backed /\ OkMeansHandled /\ [ConnectionNext]_vars
        => Backed' /\ OkMeansHandled'
  <2> SUFFICES ASSUME ConnectionInv, Backed, OkMeansHandled, [ConnectionNext]_vars
               PROVE  Backed' /\ OkMeansHandled'
    OBVIOUS
  <2>1. ASSUME NEW p \in Peers, PeerStep(p) \/ UserStep(p) PROVE Backed' /\ OkMeansHandled'
    <3>1. Backed'
      BY <2>1, BackedKept DEF ConnectionInv
    <3>2. ASSUME NEW c \in Calls, outcome'[c] = "ok" PROVE c \in handled'
      <4>1. handled \subseteq handled'
        BY <2>1, HandledStays DEF ConnectionInv
      <4>2. CASE outcome[c] = "ok"
        BY <3>2, <4>1, <4>2 DEF OkMeansHandled
      <4>3. CASE outcome[c] # "ok"
        <5>1. c \in Requests
          BY DEF Requests
        <5>2. /\ Taken(p) /\ Head(mailbox[p]).type = "Incoming"
              /\ Head(mailbox[p]).msg # WireErr
              /\ Head(mailbox[p]).msg.sid = FullSid /\ Head(mailbox[p]).msg.req = c
          BY <2>1, <3>2, <4>3, <5>1, OkIsAResponse DEF ConnectionInv
        <5>3. Says(handled, Head(mailbox[p]))
          BY <5>2, HeadOfMailbox DEF Backed, BackedAt, ConnectionInv
        <5> QED
          BY <4>1, <5>2, <5>3 DEF Says, Earned
      <4> QED
        BY <4>2, <4>3
    <3> QED
      BY <3>1, <3>2 DEF OkMeansHandled
  <2>2. CASE UNCHANGED vars
    BY <2>2 DEF Backed, BackedAt, OkMeansHandled, vars, actorVars, taskVars, wireVars
  <2> QED
    BY <2>1, <2>2, ConnectionSteps
<1> QED
  BY <1>1, <1>2, ConnectionInvAlways, PTL DEF ConnectionSpec

(* close_connection.rs: of two peers joined to each other, too, whoever    *)
(* has closed keeps nothing alive.                                         *)
THEOREM ConnectionClosesClean == ConnectionSpec => []ClosedIsClean
<1>1. ConnectionInv => ClosedIsClean
  BY DEF ConnectionInv, AllShut, Shut, Clean, ClosedIsClean
<1> QED
  BY <1>1, ConnectionInvAlways, PTL

-----------------------------------------------------------------------------
(* Slots.                                                                  *)

(* A request is in one place of the peer that processes it, and not before *)
(* its maker has written it.                                               *)
Sole(p, r) == /\ Single(p, r) /\ Apart(p, r)
              /\ Around(p, r) => outcome[r] \notin {"unused", "queued"}

AllSole == \A p \in Peers : \A r \in Requests : Origin[r] = Remote[p] => Sole(p, r)

(* call.rs, wire_format.rs: a request that has been written is no longer   *)
(* queued, whatever its maker is told.                                     *)
LEMMA WrittenOut ==
  ASSUME ConnectionInv, NEW q \in Peers, PeerStep(q) \/ UserStep(q), NEW r \in Requests,
         actor[q].at = "write", actor'[q].at # "write", actor[q].frame.req = r, Origin[r] = q
  PROVE  outcome[r] = "queued" /\ outcome'[r] \notin {"unused", "queued"}
<1>1. outcome[r] = "queued"
  BY DEF ConnectionInv, Requesting, QueuedOnce, QueuedAt, Makes
<1>2. Resume(q)
  <2>1. actor[q] # Idle /\ actor[q] # InGrace
    BY DEF Idle, InGrace
  <2>2. ~Handle(q)
    BY <2>1 DEF Handle, HandleCall, RefuseCall, HandleWireFormat, RefuseWireFormat,
       HandleCallResponse, DropCallResponse, HandleRequestError, HandleTimeout,
       HandleCloseConnection, IgnoreIncoming, IncomingFailure, IncomingSend, IncomingCall,
       IncomingResponse, IncomingError, ReceiveFrame, Receive
  <2>3. ~GraceOver(q)
    BY <2>1 DEF GraceOver
  <2>4. actor' # actor
    OBVIOUS
  <2> QED
    BY <2>2, <2>3, <2>4
       DEF PeerStep, ActorStep, UserStep, UserCall, UserSend, UserClose, ListenerStep, ListenNext,
           PassGate, ListenSend, ListenEnd, Serve, Collect, DeliverResult, TimerFires, actorVars
<1>3. actor[q].then \in {"call", "send"}
  <2>1. ToBeWritten(q, actor[q].frame, actor[q].then)
    BY DEF ConnectionInv, Requesting, Traffic, TrafficAt
  <2> QED
    BY <2>1, EndsOfPeer DEF ToBeWritten, Own
<1>4. CASE CallSent(q)
  <2>1. outcome'[r] = "pending"
    BY <1>4 DEF CallSent
  <2> QED
    BY <1>1, <2>1
<1>5. CASE CallSentNoTimer(q) \/ FrameSent(q) \/ WriteFails(q)
  <2>1. outcome \in [Requests -> Outcomes]
    BY DEF ConnectionInv, Typed, TypeOK
  <2>2. \A o : Learn(r, o) => outcome'[r] = o
    BY <2>1 DEF Learn
  <2>3. Learn(r, "failed") \/ Learn(r, "sent")
    BY <1>5 DEF CallSentNoTimer, FrameSent, WriteFails
  <2> QED
    BY <1>1, <2>2, <2>3
<1> QED
  BY <1>1, <1>2, <1>3, <1>4, <1>5 DEF Resume, ResponseSent, ErrorSent, ErrorSentThenClose, WritingFor

(* A step of the maker of r writes it, once, or takes an answer to it.     *)
LEMMA MakerKeepsSole ==
  ASSUME ConnectionInv, NEW p \in Peers, NEW q \in Peers, q = Remote[p], p = Remote[q],
         PeerStep(q) \/ UserStep(q), NEW r \in Requests, Origin[r] = q, Sole(p, r)
  PROVE  Sole(p, r)'
<1>1. /\ mailbox'[p] = mailbox[p] /\ actor'[p] = actor[p] /\ listener'[p] = listener[p]
      /\ requests'[p] = requests[p] /\ results'[p] = results[p]
  BY OthersUntouched, EndsOfPeer DEF ConnectionInv, OthersKept
<1>2. /\ Read(p, r)' <=> Read(p, r)
      /\ InQueue(p, r)' <=> InQueue(p, r)
      /\ InTask(p, r)' <=> InTask(p, r)
      /\ Collected(p, r)' <=> Collected(p, r)
      /\ Written(p, r)' <=> Written(p, r)
      /\ OnlyOne(mailbox'[p], Concerning(r)) /\ OnlyTask(p, r)'
  BY <1>1 DEF Read, InQueue, InTask, Collected, Written, Sole, Single, OnlyTask
<1>3. PICK s, u \in Seq(Items) : s = wire[p] /\ u = wire[q]
  BY EndsOfPeer DEF ConnectionInv, Typed, TypeOK, Items
<1>4. OnlyOne(wire'[q], Bearing(r)) /\ (Answered(p, r)' => Answered(p, r))
  <2>1. wire'[q] = u \/ wire'[q] = <<>> \/ (u # <<>> /\ wire'[q] = Tail(u))
    BY <1>3, EndsOfPeer, WireStep DEF ConnectionInv
  <2>2. OnlyOne(<<>>, Bearing(r)) /\ ~Has(<<>>, Bearing(r))
    BY DEF OnlyOne, Has
  <2>3. OnlyOne(u, Bearing(r))
    BY <1>3 DEF Sole, Single
  <2>4. u # <<>> => OnlyOne(Tail(u), Bearing(r)) /\ (Has(Tail(u), Bearing(r)) => Has(u, Bearing(r)))
    BY <2>3, OneTaken
  <2>5. OnlyOne(wire'[q], Bearing(r)) /\ (Has(wire'[q], Bearing(r)) => Has(u, Bearing(r)))
    BY <2>1, <2>2, <2>3, <2>4
  <2> QED
    BY <1>3, <2>5 DEF Answered
<1>5. outcome[r] \notin {"unused", "queued"} => outcome'[r] \notin {"unused", "queued"}
  BY OutcomeStep DEF ConnectionInv, Advances, NewlyMade, Final
<1>6. CASE wire'[p] = s
  <2>1. ToRead(p, r)' <=> ToRead(p, r)
    BY <1>3, <1>6 DEF ToRead
  <2>2. Single(p, r)'
    BY <1>2, <1>3, <1>4, <1>6 DEF Sole, Single
  <2>3. Apart(p, r)
    BY DEF Sole
  <2>4. Apart(p, r)' /\ (Around(p, r)' => Around(p, r))
    BY <1>2, <1>4, <2>1, <2>3 DEF Apart, Around
  <2> QED
    BY <1>5, <2>2, <2>4 DEF Sole
<1>7. CASE wire'[p] # s
  <2>1. actor[q].at = "write" /\ actor'[q].at # "write" /\ wire'[p] = Append(s, actor[q].frame)
    BY <1>3, <1>7, EndsOfPeer, WireStep DEF ConnectionInv
  <2>2. actor[q] \in Actors
    BY DEF ConnectionInv, Typed, TypeOK
  <2>3. PICK f \in Items : f = actor[q].frame
    BY <2>1, <2>2 DEF Actors, Idle, InGrace, Items
  <2>4. f \in Bearing(r) => /\ outcome[r] = "queued" /\ outcome'[r] \notin {"unused", "queued"}
                            /\ ~Around(p, r)
    BY <2>1, <2>3, WrittenOut DEF Bearing, Sole
  <2>5. /\ OnlyOne(Append(s, f), Bearing(r))
        /\ Has(Append(s, f), Bearing(r)) => Has(s, Bearing(r)) \/ f \in Bearing(r)
    <3>1. OnlyOne(s, Bearing(r)) /\ (f \in Bearing(r) => ~Has(s, Bearing(r)))
      BY <1>3, <2>4 DEF Sole, Single, Around, ToRead
    <3> QED
      BY <3>1, OnePut
  <2>6. ToRead(p, r)' => ToRead(p, r) \/ f \in Bearing(r)
    BY <1>3, <2>1, <2>3, <2>5 DEF ToRead
  <2>7. Single(p, r)'
    BY <1>2, <1>4, <2>1, <2>3, <2>5 DEF Single
  <2>8. Apart(p, r)
    BY DEF Sole
  <2>9. Apart(p, r)' /\ (Around(p, r)' => Around(p, r) \/ f \in Bearing(r))
    BY <1>2, <1>4, <2>4, <2>6, <2>8 DEF Apart, Around
  <2> QED
    BY <1>5, <2>4, <2>7, <2>9 DEF Sole
<1> QED
  BY <1>6, <1>7

(* Every step.                                                             *)
LEMMA SoleKept ==
  ASSUME ConnectionInv, AllSole, NEW x \in Peers, PeerStep(x) \/ UserStep(x)
  PROVE  AllSole'
<1> SUFFICES ASSUME NEW p \in Peers, NEW r \in Requests, Origin[r] = Remote[p] PROVE Sole(p, r)'
  BY DEF AllSole
<1>1. Sole(p, r)
  BY DEF AllSole
<1>2. PICK q \in Peers : q = Remote[p] /\ p = Remote[q] /\ q # p
  BY ConnectionAssumption, EndsOfPeer
<1>3. CASE x = p
  <2>1. Single(p, r)' /\ Apart(p, r)' /\ (Around(p, r)' => Around(p, r))
    BY <1>1, <1>2, <1>3, PlacesKept DEF Sole, ConnectionInv, Requesting
  <2>2. outcome'[r] = outcome[r]
    BY <1>2, <1>3, OutcomeStep DEF ConnectionInv, Advances
  <2> QED
    BY <1>1, <2>1, <2>2 DEF Sole
<1>4. CASE x = q
  BY <1>1, <1>2, <1>4, MakerKeepsSole
<1>5. CASE x # p /\ x # q
  <2>1. /\ mailbox'[p] = mailbox[p] /\ actor'[p] = actor[p] /\ listener'[p] = listener[p]
        /\ requests'[p] = requests[p] /\ results'[p] = results[p]
    BY <1>5, OthersUntouched DEF OthersKept, ConnectionInv
  <2>2. wire'[p] = wire[p] /\ wire'[Remote[p]] = wire[Remote[p]]
    BY <1>2, <1>5, EndsOfPeer, WireStep DEF ConnectionInv
  <2>3. outcome'[r] = outcome[r]
    BY <1>2, <1>5, OutcomeStep DEF ConnectionInv, Advances
  <2> QED
    BY <1>1, <2>1, <2>2, <2>3
       DEF Sole, Single, Apart, Around, ToRead, Read, InQueue, InTask, OnlyTask, Collected, Written,
           Answered
<1> QED
  BY <1>3, <1>4, <1>5

(* Peer::new: nothing has been asked yet.                                  *)
LEMMA FirstSole ==
  ASSUME Init
  PROVE  AllSole
<1>1. ASSUME NEW p \in Peers, NEW r \in Requests PROVE Sole(p, r)
  <2>1. /\ mailbox[p] = <<>> /\ actor[p] = Idle /\ listener[p] = Listening("next")
        /\ requests[p] = {} /\ results[p] = Collecting("next")
        /\ wire[p] = <<>> /\ wire[Remote[p]] = <<>>
    BY EndsOfPeer DEF Init
  <2>2. \A B : OnlyOne(<<>>, B) /\ ~Has(<<>>, B)
    BY DEF OnlyOne, Has
  <2>3. Single(p, r)
    BY <2>1, <2>2 DEF Single, OnlyTask
  <2>4. ~Around(p, r)
    BY <2>1, <2>2 DEF Around, ToRead, Read, InQueue, InTask, Collected, Written, Answered,
       Listening, Collecting, Idle
  <2> QED
    BY <2>3, <2>4 DEF Sole, Apart, Around
<1> QED
  BY <1>1 DEF AllSole

(* incoming.rs:235-238, call_response.rs:47-52: across the tasks, the      *)
(* collector, the mailbox and the handler of the peer that was created     *)
(* with the back pressure, no call gives back more than the slot it took,  *)
(* however many calls there are; and as long as no request fails and the   *)
(* peer is open, none of its slots is lost.                                *)
THEOREM ConnectionSlotsBalance == ConnectionSpec => []SlotsBalanced
<1>1. Init => AllSole /\ AllFitting /\ SlotsBalanced
  BY FirstSole, FirstSlots
<1>2. ConnectionInv /\ AllSole /\ AllFitting /\ SlotsBalanced /\ [ConnectionNext]_vars
        => (AllSole /\ AllFitting /\ SlotsBalanced)'
  <2> SUFFICES ASSUME ConnectionInv, AllSole, AllFitting, SlotsBalanced, [ConnectionNext]_vars
               PROVE  (AllSole /\ AllFitting /\ SlotsBalanced)'
    OBVIOUS
  <2>0. Typed /\ Traffic /\ AllShut /\ AllApart
    BY DEF ConnectionInv, Requesting, AllSole, Sole, AllApart
  <2>1. ASSUME NEW x \in Peers, PeerStep(x) \/ UserStep(x)
        PROVE  (AllSole /\ AllFitting /\ SlotsBalanced)'
    <3>1. AllSole'
      BY <2>1, SoleKept
    <3>2. AllFitting' /\ SlotsBalanced'
      BY <2>0, <2>1, AllFittingKept, SlotsKept
    <3> QED
      BY <3>1, <3>2
  <2>2. CASE UNCHANGED vars
    <3>1. UNCHANGED <<mailbox, actor, listener, requests, results, wire, outcome, events,
                      closed, free>>
      BY <2>2 DEF vars, actorVars, taskVars, wireVars
    <3>2. AllSole'
      BY <3>1 DEF AllSole, Sole, Single, Apart, Around, ToRead, Read, InQueue, InTask,
         OnlyTask, Collected, Written, Answered
    <3>3. AllFitting' /\ SlotsBalanced'
      BY <3>1, SlotsUnmoved
    <3> QED
      BY <3>2, <3>3
  <2> QED
    BY <2>1, <2>2, ConnectionSteps
<1> QED
  BY <1>1, <1>2, ConnectionInvAlways, PTL DEF ConnectionSpec
=============================================================================
