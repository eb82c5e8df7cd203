----------------------------- MODULE PeerProofs -----------------------------
(***************************************************************************)
(* What every step of a peer preserves, whatever is at the other end of    *)
(* its connection: the lemmas PeerAloneProofs and ConnectionProofs build   *)
(* on, for any number of peers, requests, services, connection ids and     *)
(* slots, and any faults.                                                  *)
(***************************************************************************)
EXTENDS Peer, FiniteSetTheorems, TLAPS

Items == Frames \cup {WireErr}

(* call.rs: what Handler<Call> waits to write is a call, so that only      *)
(* calls get a channel in the map.                                         *)
CallsWritten == \A p \in Peers : WritingFor(p, "call") => actor[p].frame.req \in Calls

Typed == TypeOK /\ CallsWritten

USE WireFormatAssumption, PeerAssumption

-----------------------------------------------------------------------------
(* The data.                                                               *)

(* call.rs, AtomicU64: ids stay in range when the counter wraps.           *)
LEMMA CidsAreClosed ==
  ASSUME NEW n \in Cids
  PROVE  FreshCid(n) \in Cids /\ CounterAfter(n) \in Cids
<1>1. ASSUME NEW k \in Cids PROVE FetchAdd(k) \in Cids
  BY <1>1 DEF FetchAdd, Cids
<1>2. FreshCid(n) \in Cids
  BY <1>1 DEF FreshCid
<1> QED
  BY <1>1, <1>2 DEF CounterAfter

(* wire_format.rs: what the constructors of frames make are frames.        *)
LEMMA FramesAreFrames ==
  ASSUME NEW r \in Requests, NEW cid \in Cids
  PROVE  /\ RequestFrame(r, cid) \in Frames
         /\ ResponseFrame(r, cid) \in Frames
         /\ ErrorFrame(r, cid) \in Frames
BY DEF RequestFrame, ResponseFrame, ErrorFrame, Frames, Requests

(* peer.rs: the ends of a peer's connection.                               *)
LEMMA EndsOfPeer ==
  ASSUME NEW p \in Peers
  PROVE  p \in Ends /\ Remote[p] \in Ends /\ Remote[p] # p
BY DEF Ends

(* incoming.rs, call.rs and so on: what each kind of message carries.      *)
LEMMA MessageFields ==
  ASSUME NEW m \in Messages
  PROVE  /\ m.type = "Call" => m.req \in Calls
         /\ m.type = "WireFormat" => m.frame \in Frames
         /\ m.type = "CallResponse" => m.frame \in Frames
         /\ m.type = "Incoming" => m.msg \in Items
         /\ m.type = "RequestError" =>
              m.err \in Errors /\ m.cid \in Cids /\ m.req \in Requests
         /\ m.type = "Timeout" => m.timer.cid \in Cids /\ m.timer.call \in Calls
         /\ m.type = "CloseConnection" => m.remote \in BOOLEAN
BY DEF Messages, Results, Timers, Items

(* ... and how each of them is made.                                       *)
LEMMA MessagesAreMessages ==
  /\ \A c \in Calls : CallMsg(c) \in Messages
  /\ \A f \in Frames : WireFormatMsg(f) \in Results /\ CallResponseMsg(f) \in Results
  /\ \A i \in Items : IncomingMsg(i) \in Messages
  /\ \A e \in Errors, f \in Frames : RequestErrorMsg(e, f) \in Results
  /\ \A t \in Timers : TimeoutMsg(t) \in Messages
  /\ \A b \in BOOLEAN : CloseMsg(b) \in Messages
  /\ Results \subseteq Messages
BY DEF CallMsg, WireFormatMsg, CallResponseMsg, IncomingMsg, RequestErrorMsg, TimeoutMsg,
       CloseMsg, Messages, Results, Frames, Items

-----------------------------------------------------------------------------
(* The operators the actions are built from.                               *)

(* What the maker of a request learns is one of the outcomes.              *)
LEMMA LearnType ==
  ASSUME outcome \in [Requests -> Outcomes], NEW r, NEW o \in Outcomes, Learn(r, o)
  PROVE  outcome' \in [Requests -> Outcomes]
BY DEF Learn

(* ... and these are the outcomes the handlers tell.                       *)
LEMMA OutcomesTold ==
  /\ "sent" \in Outcomes /\ "failed" \in Outcomes /\ "pending" \in Outcomes
  /\ "cancelled" \in Outcomes
BY DEF Outcomes

(* The mailbox: taking a message out of it.                                *)
LEMMA ReceiveType ==
  ASSUME TypeOK, NEW p \in Peers, NEW type, Receive(p, type)
  PROVE  /\ mailbox' \in [Peers -> Seq(Messages)]
         /\ Head(mailbox[p]) \in Messages
         /\ Head(mailbox[p]).type = type
BY DEF TypeOK, Receive

(* The mailbox: putting a message into it.                                 *)
LEMMA PostType ==
  ASSUME TypeOK, NEW p \in Peers, NEW m \in Messages, Post(p, m)
  PROVE  mailbox' \in [Peers -> Seq(Messages)]
BY DEF TypeOK, Post

(* send_msg: a frame joins those on their way to the other end.            *)
LEMMA WireWithType ==
  ASSUME TypeOK, NEW p \in Peers, NEW f \in Frames
  PROVE  WireWith(p, f) \in [Ends -> Seq(Items)]
BY EndsOfPeer DEF TypeOK, WireWith, Items

(* request_error.rs: what the actor waits to write when it reports.        *)
LEMMA ReportErrorType ==
  ASSUME Typed, NEW p \in Peers, NEW e \in Errors, NEW cid \in Cids, NEW req \in Requests,
         ReportError(p, e, cid, req)
  PROVE  /\ actor' \in [Peers -> Actors] /\ CallsWritten'
         /\ events' \in [Peers -> SUBSET Events]
<1>1. events' \in [Peers -> SUBSET Events]
  BY DEF ReportError, Emit, Events, Typed, TypeOK
<1>2. CASE UNCHANGED actor
  BY <1>1, <1>2 DEF Typed, TypeOK, CallsWritten, WritingFor
<1>3. ASSUME NEW then \in {"error", "errorClose"},
             Await(p, Writing(ErrorFrame(req, cid), then))
      PROVE  actor' \in [Peers -> Actors] /\ CallsWritten'
  <2>1. Writing(ErrorFrame(req, cid), then) \in Actors
    BY FramesAreFrames DEF Writing, Actors
  <2> QED
    BY <1>3, <2>1 DEF Await, Writing, Typed, TypeOK, CallsWritten, WritingFor
<1> QED
  BY <1>1, <1>2, <1>3 DEF ReportError

(* incoming.rs, timeout.rs: answering on a channel of the map.             *)
LEMMA ResolveType ==
  ASSUME TypeOK, NEW p \in Peers, NEW cid \in Cids, NEW r, NEW o \in Outcomes,
         Resolve(p, cid, r, o)
  PROVE  /\ responses' \in [Peers -> [Cids -> Calls \cup {NoCall}]]
         /\ outcome' \in [Requests -> Outcomes]
BY DEF TypeOK, Resolve, Learn, Outcomes

(* close_connection.rs, the end: everything the peer kept is dropped.      *)
LEMMA DropEverythingType ==
  ASSUME Typed, NEW p \in Peers, NEW w \in [Ends -> Seq(Items)], DropEverything(p, w)
  PROVE  /\ requests' \in [Peers -> SUBSET Tasks] /\ timers' \in [Peers -> SUBSET Timers]
         /\ results' \in [Peers -> Collectors] /\ listener' \in [Peers -> Listeners]
         /\ services' \in [Peers -> SUBSET Services]
         /\ responses' \in [Peers -> [Cids -> Calls \cup {NoCall}]]
         /\ outcome' \in [Requests -> Outcomes]
         /\ wire' \in [Ends -> Seq(Items)]
         /\ deaf' \in [Ends -> BOOLEAN] /\ eof' \in [Ends -> BOOLEAN]
         /\ actor' \in [Peers -> Actors] /\ CallsWritten'
<1> USE EndsOfPeer DEF Typed, TypeOK, DropEverything
<1>1. requests' \in [Peers -> SUBSET Tasks] /\ timers' \in [Peers -> SUBSET Timers]
  OBVIOUS
<1>2. results' \in [Peers -> Collectors] /\ listener' \in [Peers -> Listeners]
  BY DEF Collecting, Listening, Collectors, Listeners
<1>3. /\ services' \in [Peers -> SUBSET Services]
      /\ responses' \in [Peers -> [Cids -> Calls \cup {NoCall}]]
  BY DEF NoChannels
<1>4. outcome' \in [Requests -> Outcomes]
  BY DEF Outcomes
<1>5. /\ wire' \in [Ends -> Seq(Items)]
      /\ deaf' \in [Ends -> BOOLEAN] /\ eof' \in [Ends -> BOOLEAN]
  OBVIOUS
<1>6. actor' \in [Peers -> Actors] /\ CallsWritten'
  BY DEF Await, Idle, Actors, CallsWritten, WritingFor
<1> QED
  BY <1>1, <1>2, <1>3, <1>4, <1>5, <1>6

(* close_connection.rs, from the start: flags, events, and then the grace  *)
(* period or the end.                                                      *)
LEMMA CloseType ==
  ASSUME Typed, NEW p \in Peers, NEW remote \in BOOLEAN, NEW w \in [Ends -> Seq(Items)],
         Close(p, remote, w), UNCHANGED <<counter, free, handled>>,
         mailbox' \in [Peers -> Seq(Messages)]
  PROVE  Typed'
<1>1. /\ closed' \in [Peers -> BOOLEAN] /\ sink' \in [Peers -> BOOLEAN]
      /\ events' \in [Peers -> SUBSET Events]
  BY DEF Close, Typed, TypeOK, Events, Errors
<1>2. CASE DropEverything(p, w)
  BY <1>1, <1>2, DropEverythingType DEF Typed, TypeOK, Items
<1>3. CASE /\ Await(p, InGrace)
           /\ eof' = [eof EXCEPT ![Remote[p]] = @ \/ deaf[p]]
           /\ wire' = w
           /\ UNCHANGED <<taskVars, services, responses, outcome, deaf>>
  <2>1. actor' \in [Peers -> Actors] /\ CallsWritten'
    BY <1>3 DEF Await, InGrace, Actors, CallsWritten, WritingFor, Typed, TypeOK
  <2>2. eof' \in [Ends -> BOOLEAN]
    BY <1>3, EndsOfPeer DEF Typed, TypeOK
  <2> QED
    BY <1>1, <1>3, <2>1, <2>2 DEF Typed, TypeOK, Items, taskVars
<1> QED
  BY <1>2, <1>3 DEF Close

-----------------------------------------------------------------------------
(* The handlers of the actor.                                              *)
LEMMA HandleType ==
  ASSUME Typed, NEW p \in Peers, Handle(p)
  PROVE  Typed'
<1> USE DEF Typed, TypeOK, taskVars, wireVars
<1> DEFINE m == Head(mailbox[p])
<1>1. CASE HandleCall(p)
  <2>1. /\ mailbox' \in [Peers -> Seq(Messages)]
        /\ m.req \in Calls
    BY <1>1, ReceiveType, MessageFields DEF HandleCall
  <2>2. FreshCid(counter[p]) \in Cids /\ CounterAfter(counter[p]) \in Cids
    BY CidsAreClosed
  <2>3. RequestFrame(m.req, FreshCid(counter[p])) \in Frames
        /\ RequestFrame(m.req, FreshCid(counter[p])).req = m.req
    BY <2>1, <2>2, FramesAreFrames DEF Requests, RequestFrame
  <2>4. counter' \in [Peers -> Cids]
    BY <1>1, <2>2 DEF HandleCall
  <2>5. actor' \in [Peers -> Actors] /\ CallsWritten'
    BY <1>1, <2>1, <2>3 DEF HandleCall, Await, Writing, Actors, CallsWritten, WritingFor
  <2> QED
    BY <1>1, <2>1, <2>4, <2>5 DEF HandleCall
<1>2. CASE RefuseCall(p)
  <2>1. mailbox' \in [Peers -> Seq(Messages)]
    BY <1>2, ReceiveType DEF RefuseCall
  <2>2. Learn(m.req, "failed")
    BY <1>2 DEF RefuseCall
  <2>3. outcome' \in [Requests -> Outcomes]
    BY <2>2, LearnType, OutcomesTold
  <2> QED
    BY <1>2, <2>1, <2>3 DEF RefuseCall, CallsWritten, WritingFor
<1>3. CASE HandleWireFormat(p)
  <2>1. mailbox' \in [Peers -> Seq(Messages)] /\ m.frame \in Frames
    BY <1>3, ReceiveType, MessageFields DEF HandleWireFormat
  <2>2. actor' \in [Peers -> Actors] /\ CallsWritten'
    BY <1>3, <2>1 DEF HandleWireFormat, Await, Writing, Actors, CallsWritten, WritingFor
  <2> QED
    BY <1>3, <2>1, <2>2 DEF HandleWireFormat
<1>4. CASE RefuseWireFormat(p)
  <2>1. mailbox' \in [Peers -> Seq(Messages)]
    BY <1>4, ReceiveType DEF RefuseWireFormat
  <2>2. Learn(m.frame.req, "failed") \/ UNCHANGED outcome
    BY <1>4 DEF RefuseWireFormat
  <2>3. outcome' \in [Requests -> Outcomes]
    BY <2>2, LearnType, OutcomesTold
  <2> QED
    BY <1>4, <2>1, <2>3 DEF RefuseWireFormat, CallsWritten, WritingFor
<1>5. CASE HandleCallResponse(p)
  <2>1. mailbox' \in [Peers -> Seq(Messages)] /\ m.frame \in Frames
    BY <1>5, ReceiveType, MessageFields DEF HandleCallResponse
  <2>2. actor' \in [Peers -> Actors] /\ CallsWritten'
    BY <1>5, <2>1 DEF HandleCallResponse, Await, Writing, Actors, CallsWritten, WritingFor
  <2> QED
    BY <1>5, <2>1, <2>2 DEF HandleCallResponse
<1>6. CASE DropCallResponse(p)
  <2>1. mailbox' \in [Peers -> Seq(Messages)] /\ free' \in Int
    BY <1>6, ReceiveType DEF DropCallResponse, AddSlots
  <2> QED
    BY <1>6, <2>1 DEF DropCallResponse, CallsWritten, WritingFor
<1>7. CASE HandleRequestError(p)
  <2>1. /\ mailbox' \in [Peers -> Seq(Messages)]
        /\ m.err \in Errors /\ m.cid \in Cids /\ m.req \in Requests
    BY <1>7, ReceiveType, MessageFields DEF HandleRequestError
  <2>2. /\ actor' \in [Peers -> Actors] /\ CallsWritten'
        /\ events' \in [Peers -> SUBSET Events]
    BY <1>7, <2>1, ReportErrorType DEF HandleRequestError
  <2> QED
    BY <1>7, <2>1, <2>2 DEF HandleRequestError
<1>8. CASE HandleTimeout(p)
  <2>1. mailbox' \in [Peers -> Seq(Messages)] /\ m.timer.cid \in Cids
    BY <1>8, ReceiveType, MessageFields DEF HandleTimeout
  <2>2. /\ responses' \in [Peers -> [Cids -> Calls \cup {NoCall}]]
        /\ outcome' \in [Requests -> Outcomes]
    BY <1>8, <2>1, ResolveType DEF HandleTimeout, Outcomes
  <2> QED
    BY <1>8, <2>1, <2>2 DEF HandleTimeout, CallsWritten, WritingFor
<1>9. CASE HandleCloseConnection(p)
  <2>1. mailbox' \in [Peers -> Seq(Messages)] /\ m.remote \in BOOLEAN
    BY <1>9, ReceiveType, MessageFields DEF HandleCloseConnection
  <2>2. wire \in [Ends -> Seq(Items)]
    BY DEF Items
  <2>3. PICK r \in BOOLEAN, w \in [Ends -> Seq(Items)] : r = m.remote /\ w = wire
    BY <2>1, <2>2
  <2>4. Close(p, r, w) /\ UNCHANGED <<counter, free, handled>>
    BY <1>9, <2>3 DEF HandleCloseConnection, Close, DropEverything
  <2> HIDE DEF Typed, TypeOK
  <2> QED
    BY <2>1, <2>4, CloseType
<1>10. CASE IgnoreIncoming(p)
  BY <1>10, ReceiveType DEF IgnoreIncoming, CallsWritten, WritingFor
<1>11. CASE IncomingFailure(p)
  <2>1. events' \in [Peers -> SUBSET Events]
    BY <1>11 DEF IncomingFailure, Emit, Events, Errors
  <2> QED
    BY <1>11, <2>1, ReceiveType DEF IncomingFailure, CallsWritten, WritingFor
<1>12. ASSUME NEW kind, ReceiveFrame(p, kind)
       PROVE  mailbox' \in [Peers -> Seq(Messages)] /\ Incoming(p) \in Frames
  BY <1>12, ReceiveType, MessageFields DEF ReceiveFrame, Incoming, Items
<1>13. ASSUME NEW f \in Frames, Nurse(p, f) PROVE requests' \in [Peers -> SUBSET Tasks]
  BY <1>13 DEF Nurse, Tasks, TaskStates
<1>14. ASSUME NEW kinds, NEW f PROVE Rejections(kinds, f, p) \subseteq Errors
  BY DEF Rejections, Errors
<1>15. CASE IncomingSend(p)
  <2>1. mailbox' \in [Peers -> Seq(Messages)] /\ Incoming(p) \in Frames
    BY <1>12, <1>15 DEF IncomingSend
  <2>2. requests' \in [Peers -> SUBSET Tasks]
    BY <1>13, <1>15, <2>1 DEF IncomingSend
  <2>3. ASSUME NEW e \in Errors, Emit(p, e) PROVE events' \in [Peers -> SUBSET Events]
    BY <2>3 DEF Emit, Events
  <2>4. \/ UNCHANGED events
        \/ \E e \in Errors : Emit(p, e)
    BY <1>14, <1>15 DEF IncomingSend
  <2>5. events' \in [Peers -> SUBSET Events]
    BY <2>3, <2>4
  <2> QED
    BY <1>15, <2>1, <2>2, <2>5 DEF IncomingSend, CallsWritten, WritingFor
<1>16. CASE IncomingCall(p)
  <2>1. mailbox' \in [Peers -> Seq(Messages)] /\ Incoming(p) \in Frames /\ free' \in Int
    BY <1>12, <1>16 DEF IncomingCall, AddSlots
  <2>2. Incoming(p).cid \in Cids /\ Incoming(p).req \in Requests
    BY <2>1 DEF Frames
  <2>3. CASE Nurse(p, Incoming(p)) /\ UNCHANGED <<actor, events>>
    BY <1>13, <1>16, <2>1, <2>3 DEF IncomingCall, CallsWritten, WritingFor
  <2>4. ASSUME NEW e \in Errors, ReportError(p, e, Incoming(p).cid, Incoming(p).req),
               UNCHANGED requests
        PROVE  Typed'
    BY <1>16, <2>1, <2>2, <2>4, ReportErrorType DEF IncomingCall
  <2> QED
    BY <1>14, <1>16, <2>3, <2>4 DEF IncomingCall
<1>17. CASE IncomingResponse(p)
  <2>1. mailbox' \in [Peers -> Seq(Messages)] /\ Incoming(p).cid \in Cids
    BY <1>12, <1>17 DEF IncomingResponse, Frames
  <2>2. /\ responses' \in [Peers -> [Cids -> Calls \cup {NoCall}]]
        /\ outcome' \in [Requests -> Outcomes]
    BY <1>17, <2>1, ResolveType DEF IncomingResponse, Outcomes
  <2> QED
    BY <1>17, <2>1, <2>2 DEF IncomingResponse, CallsWritten, WritingFor
<1>18. CASE IncomingError(p)
  <2>1. mailbox' \in [Peers -> Seq(Messages)] /\ Incoming(p).cid \in Cids
    BY <1>12, <1>18 DEF IncomingError, Frames
  <2>2. /\ responses' \in [Peers -> [Cids -> Calls \cup {NoCall}]]
        /\ outcome' \in [Requests -> Outcomes]
    BY <1>18, <2>1, ResolveType DEF IncomingError, Outcomes
  <2>3. events' \in [Peers -> SUBSET Events]
    <3>1. ASSUME NEW e \in {"RemoteError", "Deserialize"}, Emit(p, e)
          PROVE  events' \in [Peers -> SUBSET Events]
      BY <3>1 DEF Emit, Events, Errors, FaultKinds
    <3> QED
      BY <1>18, <3>1 DEF IncomingError
  <2> QED
    BY <1>18, <2>1, <2>2, <2>3 DEF IncomingError, CallsWritten, WritingFor
<1> QED
  BY <1>1, <1>2, <1>3, <1>4, <1>5, <1>6, <1>7, <1>8, <1>9, <1>10, <1>11, <1>15, <1>16,
     <1>17, <1>18 DEF Handle

-----------------------------------------------------------------------------
(* send_msg, send_err and what each handler does when the frame is out.    *)
LEMMA ResumeType ==
  ASSUME Typed, NEW p \in Peers, Resume(p)
  PROVE  Typed'
<1> USE DEF Typed, TypeOK, taskVars, wireVars
<1> DEFINE f == actor[p].frame
<1>1. ASSUME NEW then, WritingFor(p, then) PROVE f \in Frames /\ f.cid \in Cids /\ f.req \in Requests
  <2>1. actor[p].at = "write" /\ actor[p] \in Actors
    BY <1>1 DEF WritingFor
  <2>2. f \in Frames
    BY <2>1 DEF Actors, Idle, InGrace
  <2> QED
    BY <2>2 DEF Frames
<1>2. ASSUME NEW then, WritingFor(p, then), PutOnWire(p, f)
      PROVE  wire' \in [Ends -> Seq(Items)]
  <2>1. PICK g \in Frames : g = f
    BY <1>1, <1>2
  <2>2. wire' = WireWith(p, g)
    BY <1>2, <2>1 DEF PutOnWire, WireWith
  <2> QED
    BY <2>2, WireWithType
<1>3. ASSUME Await(p, Idle) PROVE actor' \in [Peers -> Actors] /\ CallsWritten'
  BY <1>3 DEF Await, Idle, Actors, CallsWritten, WritingFor
<1>4. CASE CallSent(p)
  <2>1. f \in Frames /\ f.cid \in Cids /\ f.req \in Calls
    BY <1>1, <1>4 DEF CallSent, CallsWritten
  <2>2. timers' \in [Peers -> SUBSET Timers]
    BY <1>4, <2>1 DEF CallSent, Timers
  <2>3. responses' \in [Peers -> [Cids -> Calls \cup {NoCall}]]
    BY <1>4, <2>1 DEF CallSent
  <2>4. outcome' \in [Requests -> Outcomes]
    BY <1>4 DEF CallSent, Outcomes
  <2> QED
    BY <1>2, <1>3, <1>4, <2>2, <2>3, <2>4 DEF CallSent, Items
<1>5. CASE CallSentNoTimer(p)
  <2>1. Learn(f.req, "failed") \/ UNCHANGED outcome
    BY <1>5 DEF CallSentNoTimer
  <2>2. outcome' \in [Requests -> Outcomes]
    BY <2>1, LearnType, OutcomesTold
  <2> QED
    BY <1>2, <1>3, <1>5, <2>2 DEF CallSentNoTimer, Items
<1>6. CASE FrameSent(p)
  <2>1. Learn(f.req, "sent") \/ UNCHANGED outcome
    BY <1>6 DEF FrameSent
  <2>2. outcome' \in [Requests -> Outcomes]
    BY <2>1, LearnType, OutcomesTold
  <2> QED
    BY <1>2, <1>3, <1>6, <2>2 DEF FrameSent, Items
<1>7. CASE ResponseSent(p)
  <2>1. free' \in Int
    BY <1>7 DEF ResponseSent, AddSlots
  <2> QED
    BY <1>2, <1>3, <1>7, <2>1 DEF ResponseSent, Items
<1>8. CASE ErrorSent(p)
  BY <1>2, <1>3, <1>8 DEF ErrorSent, Items
<1>9. CASE ErrorSentThenClose(p)
  <2>1. PICK g \in Frames : g = f
    BY <1>1, <1>9 DEF ErrorSentThenClose
  <2>2. PICK w \in [Ends -> Seq(Items)] : w = WireWith(p, g)
    BY WireWithType
  <2>3. Close(p, FALSE, w) /\ UNCHANGED <<mailbox, counter, free, handled>>
    BY <1>9, <2>1, <2>2 DEF ErrorSentThenClose, WireWith, Close, DropEverything
  <2>4. mailbox' \in [Peers -> Seq(Messages)]
    BY <2>3
  <2> HIDE DEF Typed, TypeOK
  <2> QED
    BY <2>3, <2>4, CloseType
<1>10. CASE WriteFails(p)
  <2>1. Learn(f.req, "failed") \/ UNCHANGED outcome
    BY <1>10 DEF WriteFails
  <2>2. outcome' \in [Requests -> Outcomes]
    BY <2>1, LearnType, OutcomesTold
  <2> QED
    BY <1>3, <1>10, <2>2 DEF WriteFails
<1> QED
  BY <1>4, <1>5, <1>6, <1>7, <1>8, <1>9, <1>10 DEF Resume

(* close_connection.rs: the end of the grace period.                       *)
LEMMA GraceOverType ==
  ASSUME Typed, NEW p \in Peers, GraceOver(p)
  PROVE  Typed'
<1>1. PICK w \in [Ends -> Seq(Items)] : w = wire
  BY DEF Typed, TypeOK, Items
<1>2. DropEverything(p, w)
  BY <1>1 DEF GraceOver, DropEverything
<1> QED
  BY <1>2, DropEverythingType DEF GraceOver, Typed, TypeOK, Items

-----------------------------------------------------------------------------
(* listen_incoming, the nursed tasks and listen_request_results.           *)
LEMMA ListenerType ==
  ASSUME Typed, NEW p \in Peers, ListenerStep(p)
  PROVE  Typed'
<1> USE EndsOfPeer DEF Typed, TypeOK, actorVars, CallsWritten, WritingFor
<1>1. CASE ListenNext(p)
  <2>1. Head(wire[p]) \in Items /\ wire' \in [Ends -> Seq(Items)]
    BY <1>1 DEF ListenNext, Items
  <2>2. listener' \in [Peers -> Listeners]
    BY <1>1, <2>1 DEF ListenNext, Holding, Listeners, Items
  <2> QED
    BY <1>1, <2>1, <2>2 DEF ListenNext, Items
<1>2. CASE PassGate(p)
  <2>1. listener[p] \in [at : {"gate", "send"}, msg : Items]
    BY <1>2 DEF PassGate, Listeners, Items
  <2>2. listener' \in [Peers -> Listeners]
    BY <1>2, <2>1 DEF PassGate, Listeners, Items
  <2> QED
    BY <1>2, <2>2, EndsOfPeer DEF PassGate, wireVars
<1>3. CASE ListenSend(p)
  <2>1. listener[p].msg \in Items
    BY <1>3 DEF ListenSend, Listeners, Items
  <2>2. PICK m \in Messages : m = IncomingMsg(listener[p].msg)
    BY <2>1, MessagesAreMessages
  <2>3. mailbox' \in [Peers -> Seq(Messages)]
    BY <1>3, <2>2 DEF ListenSend, Post
  <2>4. listener' \in [Peers -> Listeners]
    BY <1>3 DEF ListenSend, Listening, Listeners
  <2> QED
    BY <1>3, <2>3, <2>4 DEF ListenSend, wireVars
<1>4. CASE ListenEnd(p)
  <2>1. CloseMsg(TRUE) \in Messages
    BY MessagesAreMessages
  <2>2. mailbox' \in [Peers -> Seq(Messages)]
    BY <1>4, <2>1, PostType DEF ListenEnd, Post
  <2>3. listener' \in [Peers -> Listeners]
    BY <1>4 DEF ListenEnd, Listening, Listeners
  <2>4. deaf' \in [Ends -> BOOLEAN] /\ eof' \in [Ends -> BOOLEAN]
    BY <1>4 DEF ListenEnd
  <2> QED
    BY <1>4, <2>2, <2>3, <2>4 DEF ListenEnd
<1> QED
  BY <1>1, <1>2, <1>3, <1>4 DEF ListenerStep

(* call_service_gen, make_call, listen_request_results, the timers.        *)
LEMMA TaskType ==
  ASSUME Typed, NEW p \in Peers,
         \/ \E t \in requests[p] : Serve(p, t) \/ Collect(p, t)
         \/ DeliverResult(p)
         \/ \E t \in timers[p] : TimerFires(p, t)
  PROVE  Typed'
<1> USE DEF Typed, TypeOK, actorVars, wireVars, CallsWritten, WritingFor
<1>1. ASSUME NEW t \in requests[p], Serve(p, t) PROVE Typed'
  <2>1. t \in Tasks /\ Processed(t.frame) \subseteq TaskStates /\ t.frame.req \in Requests
    BY DEF Processed, Tasks, TaskStates, FaultKinds, Frames
  <2>2. \A s \in TaskStates : [t EXCEPT !.state = s] \in Tasks
    BY <2>1 DEF Tasks
  <2>3. requests' \in [Peers -> SUBSET Tasks]
    BY <1>1, <2>1, <2>2 DEF Serve
  <2>4. handled' \subseteq Requests
    BY <1>1, <2>1 DEF Serve
  <2> QED
    BY <1>1, <2>3, <2>4 DEF Serve
<1>2. ASSUME NEW t \in requests[p], Collect(p, t) PROVE Typed'
  <2>1. t \in Tasks /\ t.frame \in Frames /\ t.frame.cid \in Cids /\ t.frame.req \in Requests
    BY DEF Tasks, Frames
  <2>2. t.state \in {"done"} \cup FaultKinds
    BY <1>2, <2>1 DEF Collect, Tasks, TaskStates
  <2>3. ResultOf(t) \subseteq Results
    BY <2>1, <2>2, FramesAreFrames, MessagesAreMessages DEF ResultOf, Errors
  <2>4. ResultOf(t) # {} => Delivering(CHOOSE m \in ResultOf(t) : TRUE) \in Collectors
    BY <2>3 DEF Delivering, Collectors
  <2>5. results' \in [Peers -> Collectors]
    BY <1>2, <2>4 DEF Collect
  <2> QED
    BY <1>2, <2>5 DEF Collect
<1>3. CASE DeliverResult(p)
  <2>1. results[p].msg \in Messages
    BY <1>3, MessagesAreMessages DEF DeliverResult, Collectors
  <2>2. mailbox' \in [Peers -> Seq(Messages)]
    BY <1>3, <2>1 DEF DeliverResult, Post
  <2>3. results' \in [Peers -> Collectors]
    BY <1>3 DEF DeliverResult, Collecting, Collectors
  <2> QED
    BY <1>3, <2>2, <2>3 DEF DeliverResult
<1>4. ASSUME NEW t \in timers[p], TimerFires(p, t) PROVE Typed'
  <2>1. TimeoutMsg(t) \in Messages
    BY MessagesAreMessages
  <2>2. mailbox' \in [Peers -> Seq(Messages)]
    BY <1>4, <2>1 DEF TimerFires, Post
  <2> QED
    BY <1>4, <2>2 DEF TimerFires
<1> QED
  BY <1>1, <1>2, <1>3, <1>4

-----------------------------------------------------------------------------
(* Addresses and whoever closes the connection.                            *)
LEMMA UserType ==
  ASSUME Typed, NEW p \in Peers, UserStep(p)
  PROVE  Typed'
<1> USE DEF Typed, TypeOK, taskVars, wireVars, CallsWritten, WritingFor
<1>1. ASSUME NEW c \in Requests, UserCall(p, c) PROVE Typed'
  <2>1. CallMsg(c) \in Messages
    BY <1>1, MessagesAreMessages DEF UserCall
  <2>2. mailbox' \in [Peers -> Seq(Messages)]
    BY <1>1, <2>1 DEF UserCall, Post
  <2>3. outcome' \in [Requests -> Outcomes]
    BY <1>1 DEF UserCall, Learn, Outcomes
  <2> QED
    BY <1>1, <2>2, <2>3 DEF UserCall
<1>2. ASSUME NEW s \in Requests, UserSend(p, s) PROVE Typed'
  <2>1. NullCid \in Cids
    BY DEF NullCid, Cids
  <2>2. RequestFrame(s, NullCid) \in Frames
    BY <2>1, FramesAreFrames
  <2>3. WireFormatMsg(RequestFrame(s, NullCid)) \in Messages
    BY <2>2, MessagesAreMessages
  <2>4. mailbox' \in [Peers -> Seq(Messages)]
    BY <1>2, <2>3 DEF UserSend, Post
  <2>5. outcome' \in [Requests -> Outcomes]
    BY <1>2 DEF UserSend, Learn, Outcomes
  <2> QED
    BY <1>2, <2>4, <2>5 DEF UserSend
<1>3. CASE UserClose(p)
  <2>1. PICK m \in Messages : m = CloseMsg(FALSE)
    BY MessagesAreMessages
  <2>2. mailbox' \in [Peers -> Seq(Messages)]
    <3>1. Post(p, m)
      BY <1>3, <2>1 DEF UserClose, Post
    <3> HIDE DEF Typed, TypeOK
    <3> QED
      BY <3>1, PostType DEF Typed
  <2> QED
    BY <1>3, <2>2 DEF UserClose
<1> QED
  BY <1>1, <1>2, <1>3 DEF UserStep

(* peer.rs: every step of a peer keeps the types.                          *)
LEMMA PeerStepType ==
  ASSUME Typed, NEW p \in Peers, PeerStep(p)
  PROVE  Typed'
BY HandleType, ResumeType, GraceOverType, ListenerType, TaskType DEF PeerStep, ActorStep

-----------------------------------------------------------------------------
(* Closing.                                                               *)

(* close_connection.rs: what is true of each peer, closed or not.  Only a  *)
(* closed peer is in its grace period; that is what makes it inductive.    *)
Clean(p) == /\ actor[p] = Idle
            /\ requests[p] = {} /\ timers[p] = {} /\ services[p] = {}
            /\ responses[p] = NoChannels
            /\ listener[p].at = "dropped"
            /\ deaf[p] /\ eof[Remote[p]]

Shut(p) == /\ closed[p] <=> ~sink[p]
           /\ results[p].at = "dropped" <=> (closed[p] /\ actor[p] # InGrace)
           /\ actor[p] = InGrace => closed[p]
           /\ closed[p] => actor[p] = InGrace \/ Clean(p)

AllShut == \A p \in Peers : Shut(p)

-----------------------------------------------------------------------------
(* DropEverything and Close.                                               *)

(* close_connection.rs, the end: what is dropped leaves the peer clean and *)
(* the other peers as they were.                                           *)
LEMMA DropEverythingShuts ==
  ASSUME Typed, AllShut, NEW p \in Peers, NEW w, DropEverything(p, w),
         closed' \in [Peers -> BOOLEAN], sink' \in [Peers -> BOOLEAN],
         closed'[p], ~sink'[p],
         \A q \in Peers \ {p} : closed'[q] = closed[q] /\ sink'[q] = sink[q]
  PROVE  AllShut'
<1> USE EndsOfPeer DEF Typed, TypeOK, DropEverything, Await, Collecting, Listening, Idle, InGrace
<1>1. Shut(p)'
  BY DEF Shut, Clean
<1>2. ASSUME NEW q \in Peers \ {p} PROVE Shut(q)'
  <2>1. /\ actor'[q] = actor[q] /\ requests'[q] = requests[q] /\ timers'[q] = timers[q]
        /\ services'[q] = services[q] /\ responses'[q] = responses[q]
        /\ listener'[q] = listener[q] /\ results'[q] = results[q]
        /\ closed'[q] = closed[q] /\ sink'[q] = sink[q]
    OBVIOUS
  <2>2. (deaf[q] => deaf'[q]) /\ (eof[Remote[q]] => eof'[Remote[q]])
    OBVIOUS
  <2>3. Shut(q)
    BY DEF AllShut
  <2> HIDE DEF Typed, TypeOK, DropEverything, Await, Collecting, Listening, Idle, InGrace
  <2> QED
    BY <2>1, <2>2, <2>3 DEF Shut, Clean
<1> QED
  BY <1>1, <1>2 DEF AllShut

(* close_connection.rs: closing at once, or after a grace period.          *)
LEMMA CloseShuts ==
  ASSUME Typed, AllShut, NEW p \in Peers, NEW r, NEW w, Close(p, r, w)
  PROVE  AllShut'
<1>1. /\ closed' \in [Peers -> BOOLEAN] /\ sink' \in [Peers -> BOOLEAN]
      /\ closed'[p] /\ ~sink'[p]
      /\ \A q \in Peers \ {p} : closed'[q] = closed[q] /\ sink'[q] = sink[q]
  BY DEF Close, Typed, TypeOK
<1>2. CASE DropEverything(p, w)
  BY <1>1, <1>2, DropEverythingShuts
<1>3. CASE /\ results[p].at # "dropped"
           /\ Await(p, InGrace)
           /\ eof' = [eof EXCEPT ![Remote[p]] = @ \/ deaf[p]]
           /\ UNCHANGED <<taskVars, services, responses, deaf>>
  <2>1. actor'[p] = InGrace /\ \A q \in Peers \ {p} : actor'[q] = actor[q]
    BY <1>3 DEF Await, Typed, TypeOK
  <2>2. \A q \in Peers : eof[Remote[q]] => eof'[Remote[q]]
    BY <1>3, EndsOfPeer DEF Typed, TypeOK
  <2>3. Shut(p)'
    BY <1>1, <1>3, <2>1 DEF Shut, taskVars
  <2>4. ASSUME NEW q \in Peers \ {p} PROVE Shut(q)'
    BY <1>1, <1>3, <2>1, <2>2 DEF AllShut, Shut, Clean, taskVars
  <2> QED
    BY <2>3, <2>4 DEF AllShut
<1> QED
  BY <1>2, <1>3 DEF Close, GraceApplies

-----------------------------------------------------------------------------
(* All other steps.                                                        *)

(* What a step of p leaves alone, and what is never taken back.            *)
OthersKept(p) == \A q \in Peers \ {p} :
  /\ actor'[q] = actor[q] /\ requests'[q] = requests[q] /\ timers'[q] = timers[q]
  /\ services'[q] = services[q] /\ responses'[q] = responses[q]
  /\ listener'[q] = listener[q] /\ results'[q] = results[q]

EndsLast == \A e \in Ends : (deaf[e] => deaf'[e]) /\ (eof[e] => eof'[e])

(* Peer::closed changes in Handler<CloseConnection> only: other steps of a *)
(* peer that still has its nursery leave it open, or in its grace period.  *)
LEMMA NotShutYet ==
  ASSUME AllShut, NEW p \in Peers, results[p].at # "dropped",
         UNCHANGED <<closed, sink>>, EndsLast, OthersKept(p),
         results'[p].at # "dropped", actor'[p] = InGrace <=> actor[p] = InGrace
  PROVE  AllShut'
<1>1. Shut(p)'
  BY DEF AllShut, Shut
<1>2. ASSUME NEW q \in Peers \ {p} PROVE Shut(q)'
  <2>1. (deaf[q] => deaf'[q]) /\ (eof[Remote[q]] => eof'[Remote[q]])
    BY EndsOfPeer DEF EndsLast
  <2> QED
    BY <2>1 DEF AllShut, Shut, Clean, OthersKept
<1> QED
  BY <1>1, <1>2 DEF AllShut

(* Steps that do not concern closing at all.                               *)
LEMMA ShutKept ==
  ASSUME AllShut, EndsLast, UNCHANGED <<closed, sink, actor, requests, timers, services,
                                        responses, listener, results>>
  PROVE  AllShut'
<1> SUFFICES ASSUME NEW p \in Peers PROVE Shut(p)'
  BY DEF AllShut
<1>1. (deaf[p] => deaf'[p]) /\ (eof[Remote[p]] => eof'[Remote[p]])
  BY EndsOfPeer DEF EndsLast
<1> QED
  BY <1>1 DEF AllShut, Shut, Clean

(* The handlers of the actor.                                              *)
LEMMA HandleShuts ==
  ASSUME Typed, AllShut, NEW p \in Peers, Handle(p)
  PROVE  AllShut'
<1>1. CASE HandleCloseConnection(p)
  <2>1. PICK r, w : r = Head(mailbox[p]).remote /\ w = wire
    OBVIOUS
  <2>2. Close(p, r, w)
    BY <1>1, <2>1 DEF HandleCloseConnection, Close, DropEverything
  <2> QED
    BY <2>2, CloseShuts
<1>2. CASE ~HandleCloseConnection(p)
  <2>1. /\ UNCHANGED <<closed, sink, services, listener, timers, results, deaf, eof>>
        /\ actor[p] = Idle
    BY <1>2 DEF Handle, HandleCall, RefuseCall, HandleWireFormat, RefuseWireFormat,
       HandleCallResponse, DropCallResponse, HandleRequestError, HandleTimeout,
       IgnoreIncoming, IncomingFailure, IncomingSend, IncomingCall, IncomingResponse,
       IncomingError, ReceiveFrame, Receive, wireVars, taskVars
  <2>2. EndsLast
    BY <2>1 DEF EndsLast
  <2>3. CASE UNCHANGED <<actor, requests, responses>>
    BY <2>1, <2>2, <2>3, ShutKept
  <2>4. CASE ~UNCHANGED <<actor, requests, responses>>
    <3>1. \A a : Await(p, a) => actor'[p] = a /\ \A q \in Peers \ {p} : actor'[q] = actor[q]
      BY DEF Await, Typed, TypeOK
    <3>2. \A e, cid, req : ReportError(p, e, cid, req) =>
             \/ UNCHANGED actor
             \/ /\ sink[p] /\ actor'[p] # InGrace
                /\ \A q \in Peers \ {p} : actor'[q] = actor[q]
      BY <3>1 DEF ReportError, CanSend, Writing, InGrace
    <3>3. \A cid, r, o : Resolve(p, cid, r, o) =>
             \A q \in Peers \ {p} : responses'[q] = responses[q]
      BY DEF Resolve, Typed, TypeOK
    <3>4. \A f : Nurse(p, f) => \A q \in Peers \ {p} : requests'[q] = requests[q]
      BY DEF Nurse, Typed, TypeOK
    <3>5. /\ actor'[p] # InGrace
          /\ \A q \in Peers \ {p} : /\ actor'[q] = actor[q] /\ requests'[q] = requests[q]
                                    /\ responses'[q] = responses[q]
      BY <1>2, <2>1, <3>1, <3>2, <3>3, <3>4
         DEF Handle, HandleCall, RefuseCall, HandleWireFormat, RefuseWireFormat,
             HandleCallResponse, DropCallResponse, HandleRequestError, HandleTimeout,
             IgnoreIncoming, IncomingFailure, IncomingSend, IncomingCall,
             IncomingResponse, IncomingError, taskVars, Writing, Idle, InGrace
    <3>6. ~closed[p] \/ sink[p] \/ \E i \in Cids : responses[p][i] # NoCall
      <4>1. CASE HandleTimeout(p)
        <5>1. Head(mailbox[p]).timer.cid \in Cids
          BY <4>1, ReceiveType, MessageFields DEF HandleTimeout, Typed
        <5> QED
          BY <2>4, <4>1, <5>1 DEF HandleTimeout, taskVars
      <4>2. CASE ~HandleTimeout(p)
        BY <1>2, <2>4, <3>2, <4>2
           DEF Handle, HandleCall, RefuseCall, HandleWireFormat, RefuseWireFormat,
               HandleCallResponse, DropCallResponse, HandleRequestError, IgnoreIncoming,
               IncomingFailure, IncomingSend, IncomingCall, IncomingResponse,
               IncomingError, ReceiveFrame, CanSend, taskVars
      <4> QED
        BY <4>1, <4>2
    <3>7. results[p].at # "dropped"
      BY <2>1, <3>6 DEF AllShut, Shut, Clean, NoChannels, Idle, InGrace
    <3> QED
      BY <2>1, <2>2, <3>5, <3>7, NotShutYet DEF OthersKept, Idle, InGrace
  <2> QED
    BY <2>3, <2>4
<1> QED
  BY <1>1, <1>2

(* send_msg, send_err, and what each handler does when the frame is out.   *)
LEMMA ResumeShuts ==
  ASSUME Typed, AllShut, NEW p \in Peers, Resume(p)
  PROVE  AllShut'
<1>1. actor[p].at = "write"
  BY DEF Resume, CallSent, CallSentNoTimer, FrameSent, ResponseSent, ErrorSent,
     ErrorSentThenClose, WriteFails, WritingFor
<1>2. actor[p] # InGrace /\ results[p].at # "dropped"
  BY <1>1 DEF AllShut, Shut, Clean, Idle, InGrace
<1>3. CASE ErrorSentThenClose(p)
  <2>1. PICK w : w = WireWith(p, actor[p].frame)
    OBVIOUS
  <2>2. Close(p, FALSE, w)
    BY <1>3, <2>1 DEF ErrorSentThenClose, Close, DropEverything
  <2> QED
    BY <2>2, CloseShuts
<1>4. CASE ~ErrorSentThenClose(p)
  <2>1. /\ UNCHANGED <<closed, sink, services, listener, requests, results, deaf, eof>>
        /\ Await(p, Idle)
    BY <1>4 DEF Resume, CallSent, CallSentNoTimer, FrameSent, ResponseSent, ErrorSent,
       WriteFails, wireVars, taskVars
  <2>2. \A q \in Peers \ {p} : timers'[q] = timers[q] /\ responses'[q] = responses[q]
    BY <1>4 DEF Resume, CallSent, CallSentNoTimer, FrameSent, ResponseSent, ErrorSent,
       WriteFails, taskVars, Typed, TypeOK
  <2>3. actor'[p] # InGrace /\ \A q \in Peers \ {p} : actor'[q] = actor[q]
    BY <2>1 DEF Await, Idle, InGrace, Typed, TypeOK
  <2>4. EndsLast
    BY <2>1 DEF EndsLast
  <2> QED
    BY <1>2, <2>1, <2>2, <2>3, <2>4, NotShutYet DEF OthersKept
<1> QED
  BY <1>3, <1>4

(* The end of the grace period.                                            *)
LEMMA GraceOverShuts ==
  ASSUME Typed, AllShut, NEW p \in Peers, GraceOver(p)
  PROVE  AllShut'
<1>1. closed[p] /\ ~sink[p] /\ UNCHANGED <<closed, sink>>
  BY DEF GraceOver, AllShut, Shut
<1>2. PICK w : w = wire
  OBVIOUS
<1>3. DropEverything(p, w)
  BY <1>2 DEF GraceOver, DropEverything
<1>4. closed' \in [Peers -> BOOLEAN] /\ sink' \in [Peers -> BOOLEAN]
  BY <1>1 DEF Typed, TypeOK
<1> QED
  BY <1>1, <1>3, <1>4, DropEverythingShuts

(* listen_incoming, the nursed tasks and listen_request_results: none of   *)
(* them takes a step in a peer that is done closing.                       *)
LEMMA TasksShut ==
  ASSUME Typed, AllShut, NEW p \in Peers,
         \/ ListenerStep(p)
         \/ \E t \in requests[p] : Serve(p, t) \/ Collect(p, t)
         \/ DeliverResult(p)
         \/ \E t \in timers[p] : TimerFires(p, t)
  PROVE  AllShut'
<1>1. ListenerStep(p) => listener[p].at # "dropped"
  <2>1. ListenerStep(p) => \/ listener[p] = Listening("next")
                           \/ listener[p].at \in {"gate", "send"}
    BY DEF ListenerStep, ListenNext, PassGate, ListenSend, ListenEnd
  <2>2. Listening("next").at = "next"
    BY DEF Listening
  <2> QED
    BY <2>1, <2>2
<1> USE DEF Typed, TypeOK, OthersKept
<1>2. \/ listener[p].at # "dropped" \/ requests[p] # {} \/ timers[p] # {}
      \/ results[p].at = "send"
      => results[p].at # "dropped"
  BY DEF AllShut, Shut, Clean
<1>3. CASE ListenerStep(p)
  <2>1. results[p].at # "dropped"
    BY <1>1, <1>2, <1>3
  <2>2. UNCHANGED <<actor, closed, sink, services, responses, requests, timers, results>>
    BY <1>3 DEF ListenerStep, ListenNext, PassGate, ListenSend, ListenEnd, actorVars
  <2>3. \A q \in Peers \ {p} : listener'[q] = listener[q]
    <3>1. CASE ListenNext(p) \/ PassGate(p)
      BY <3>1 DEF ListenNext, PassGate
    <3>2. CASE ListenSend(p) \/ ListenEnd(p)
      BY <3>2 DEF ListenSend, ListenEnd
    <3> QED
      BY <1>3, <3>1, <3>2 DEF ListenerStep
  <2>4. EndsLast
    <3>1. CASE UNCHANGED <<eof, deaf>>
      BY <3>1 DEF EndsLast
    <3>2. CASE ListenEnd(p)
      BY <3>2, EndsOfPeer DEF ListenEnd, EndsLast
    <3> QED
      BY <1>3, <3>1, <3>2 DEF ListenerStep, ListenNext, PassGate, ListenSend, wireVars
  <2> QED
    BY <2>1, <2>2, <2>3, <2>4, NotShutYet
<1>4. ASSUME UNCHANGED <<actorVars, listener, wireVars>>
             \/ UNCHANGED <<actor, closed, sink, responses, services, listener, wireVars>>
      PROVE  /\ EndsLast
             /\ UNCHANGED <<actor, closed, sink, services, responses, listener>>
  BY <1>4 DEF actorVars, wireVars, EndsLast
<1>5. ASSUME NEW t \in requests[p], Serve(p, t) \/ Collect(p, t) PROVE AllShut'
  <2>1. /\ EndsLast
        /\ UNCHANGED <<actor, closed, sink, services, responses, listener, timers>>
    BY <1>4, <1>5 DEF Serve, Collect
  <2>2. \A q \in Peers \ {p} : requests'[q] = requests[q] /\ results'[q] = results[q]
    BY <1>5 DEF Serve, Collect
  <2>3. results[p].at # "dropped" /\ results'[p].at # "dropped"
    BY <1>2, <1>5 DEF Serve, Collect, Delivering
  <2> QED
    BY <2>1, <2>2, <2>3, NotShutYet
<1>6. CASE DeliverResult(p)
  <2>1. /\ EndsLast
        /\ UNCHANGED <<actor, closed, sink, services, responses, listener, requests, timers>>
    BY <1>4, <1>6 DEF DeliverResult
  <2>2. /\ results[p].at # "dropped" /\ results'[p].at # "dropped"
        /\ \A q \in Peers \ {p} : results'[q] = results[q]
    BY <1>6 DEF DeliverResult, Collecting
  <2> QED
    BY <2>1, <2>2, NotShutYet
<1>7. ASSUME NEW t \in timers[p], TimerFires(p, t) PROVE AllShut'
  <2>1. /\ EndsLast
        /\ UNCHANGED <<actor, closed, sink, services, responses, listener, requests, results>>
    BY <1>4, <1>7 DEF TimerFires
  <2>2. \A q \in Peers \ {p} : timers'[q] = timers[q]
    BY <1>7 DEF TimerFires
  <2>3. results[p].at # "dropped"
    BY <1>2, <1>7
  <2> QED
    BY <2>1, <2>2, <2>3, NotShutYet
<1> QED
  BY <1>3, <1>5, <1>6, <1>7

-----------------------------------------------------------------------------
(* peer_event.rs: observers are told once the peer has closed.             *)
SaysClosed(p) == events[p] \cap {"Closed", "ClosedByRemote"} # {}

ToldInTime == \A p \in Peers : SaysClosed(p) => closed[p]

(* close_connection.rs and Pharos: no handler but that of CloseConnection  *)
(* tells of a close, and it sets Peer::closed, which nothing resets.       *)
LEMMA ReportsAreTrue ==
  ASSUME Typed, ToldInTime, NEW p \in Peers, PeerStep(p)
  PROVE  ToldInTime'
<1>1. ASSUME NEW r, NEW w, Close(p, r, w) PROVE ToldInTime'
  BY <1>1 DEF Close, Typed, TypeOK, ToldInTime, SaysClosed
<1>2. ASSUME NEW e \in Errors \cup {"RemoteError"}, Emit(p, e), UNCHANGED closed PROVE ToldInTime'
  <2>1. e \notin {"Closed", "ClosedByRemote"}
    BY DEF Errors, FaultKinds
  <2> QED
    BY <1>2, <2>1 DEF Emit, Typed, TypeOK, ToldInTime, SaysClosed
<1>3. CASE UNCHANGED <<events, closed>>
  BY <1>3 DEF ToldInTime, SaysClosed
<1>4. ASSUME NEW e \in Errors, NEW cid, NEW req, ReportError(p, e, cid, req), UNCHANGED closed
      PROVE  ToldInTime'
  BY <1>2, <1>4 DEF ReportError
<1>5. CASE HandleCloseConnection(p)
  <2>1. PICK r, w : r = Head(mailbox[p]).remote /\ w = wire
    OBVIOUS
  <2>2. Close(p, r, w)
    BY <1>5, <2>1 DEF HandleCloseConnection, Close, DropEverything
  <2> QED
    BY <1>1, <2>2
<1>6. CASE ErrorSentThenClose(p)
  <2>1. PICK w : w = WireWith(p, actor[p].frame)
    OBVIOUS
  <2>2. Close(p, FALSE, w)
    BY <1>6, <2>1 DEF ErrorSentThenClose, Close, DropEverything
  <2> QED
    BY <1>1, <2>2
<1>7. CASE HandleRequestError(p)
  <2>1. PICK e \in Errors, cid \in Cids, req \in Requests :
             e = Head(mailbox[p]).err /\ cid = Head(mailbox[p]).cid /\ req = Head(mailbox[p]).req
    BY <1>7, ReceiveType, MessageFields DEF HandleRequestError, Typed
  <2>2. ReportError(p, e, cid, req) /\ UNCHANGED closed
    BY <1>7, <2>1 DEF HandleRequestError, ReportError
  <2> QED
    BY <1>4, <2>2
<1>8. \A kinds, f : Rejections(kinds, f, p) \subseteq Errors
  BY PeerAssumption DEF Rejections, Errors
<1>9. CASE IncomingFailure(p) \/ IncomingSend(p) \/ IncomingError(p)
  <2>1. UNCHANGED closed
    BY <1>9 DEF IncomingFailure, IncomingSend, IncomingError
  <2>2. UNCHANGED events \/ \E e \in Errors \cup {"RemoteError"} : Emit(p, e)
    BY <1>8, <1>9 DEF IncomingFailure, IncomingSend, IncomingError, Errors, FaultKinds
  <2> QED
    BY <1>2, <1>3, <2>1, <2>2
<1>10. CASE IncomingCall(p)
  <2>1. UNCHANGED closed
    BY <1>10 DEF IncomingCall
  <2>2. UNCHANGED events \/ \E e \in Errors : \E cid, req : ReportError(p, e, cid, req)
    BY <1>8, <1>10 DEF IncomingCall
  <2> QED
    BY <1>3, <1>4, <2>1, <2>2
<1>11. CASE HandleCall(p) \/ RefuseCall(p) \/ HandleWireFormat(p) \/ RefuseWireFormat(p)
            \/ HandleCallResponse(p) \/ DropCallResponse(p) \/ HandleTimeout(p)
            \/ IgnoreIncoming(p) \/ IncomingResponse(p)
  BY <1>3, <1>11 DEF HandleCall, RefuseCall, HandleWireFormat, RefuseWireFormat,
     HandleCallResponse, DropCallResponse, HandleTimeout, IgnoreIncoming, IncomingResponse
<1>12. CASE Resume(p) /\ ~ErrorSentThenClose(p)
  BY <1>3, <1>12 DEF Resume, CallSent, CallSentNoTimer, FrameSent, ResponseSent, ErrorSent,
     WriteFails
<1>13. CASE GraceOver(p) \/ ListenerStep(p) \/ DeliverResult(p)
            \/ (\E t \in requests[p] : Serve(p, t) \/ Collect(p, t))
            \/ (\E t \in timers[p] : TimerFires(p, t))
  BY <1>3, <1>13 DEF GraceOver, ListenerStep, ListenNext, PassGate, ListenSend, ListenEnd,
     Serve, Collect, DeliverResult, TimerFires, actorVars
<1> QED
  BY <1>5, <1>6, <1>7, <1>9, <1>10, <1>11, <1>12, <1>13 DEF PeerStep, ActorStep, Handle

-----------------------------------------------------------------------------
(* What a step of a peer does to each place a frame can be in: where all   *)
(* that is there afterwards has come from.                                 *)

(* Sequences: what is left when the first element is taken.                *)
LEMMA TakenFrom ==
  ASSUME NEW S, NEW s \in Seq(S), s # <<>>
  PROVE  /\ Head(s) \in S /\ Head(s) = s[1] /\ 1 \in DOMAIN s
         /\ Len(Tail(s)) <= Len(s)
         /\ \A i \in DOMAIN Tail(s) :
              i \in Nat /\ i + 1 \in DOMAIN s /\ Tail(s)[i] = s[i + 1]
OBVIOUS

(* ... and what there is when one is added.                                *)
LEMMA PutInto ==
  ASSUME NEW S, NEW s \in Seq(S), NEW m \in S
  PROVE  \A i \in DOMAIN Append(s, m) :
           \/ i \in DOMAIN s /\ Append(s, m)[i] = s[i]
           \/ i = Len(s) + 1 /\ i \notin DOMAIN s /\ Append(s, m)[i] = m
OBVIOUS

(* Handler<CloseConnection> by another name, for facts about any wire it   *)
(* may leave behind.                                                       *)
LEMMA ClosingSteps ==
  ASSUME Typed, NEW p \in Peers, HandleCloseConnection(p) \/ ErrorSentThenClose(p)
  PROVE  \E w \in [Ends -> Seq(Items)], r \in BOOLEAN :
           /\ Close(p, r, w)
           /\ w = wire \/ (WritingFor(p, "errorClose") /\ w = WireWith(p, actor[p].frame))
<1>1. CASE HandleCloseConnection(p)
  <2>1. PICK w \in [Ends -> Seq(Items)] : w = wire
    BY DEF Typed, TypeOK, Items
  <2>2. PICK r \in BOOLEAN : r = Head(mailbox[p]).remote
    BY <1>1, ReceiveType, MessageFields DEF HandleCloseConnection, Typed
  <2>3. Close(p, r, w)
    BY <1>1, <2>1, <2>2 DEF HandleCloseConnection, Close, DropEverything
  <2> QED
    BY <2>1, <2>3
<1>2. CASE ErrorSentThenClose(p)
  <2>1. actor[p].at = "write" /\ actor[p] \in Actors
    BY <1>2 DEF ErrorSentThenClose, WritingFor, Typed, TypeOK
  <2>2. PICK f \in Frames : f = actor[p].frame
    BY <2>1 DEF Actors, Idle, InGrace
  <2>3. PICK w \in [Ends -> Seq(Items)] : w = WireWith(p, f)
    BY WireWithType DEF Typed
  <2>4. Close(p, FALSE, w) /\ w = WireWith(p, actor[p].frame)
    BY <1>2, <2>2, <2>3 DEF ErrorSentThenClose, Close, DropEverything
  <2> QED
    BY <1>2, <2>4 DEF ErrorSentThenClose
<1> QED
  BY <1>1, <1>2

(* The peer's mailbox, actor, map and tasks are its own: no step of        *)
(* another one reaches them.                                               *)
LEMMA OthersUntouched ==
  ASSUME Typed, NEW p \in Peers, PeerStep(p) \/ UserStep(p)
  PROVE  OthersKept(p) /\ \A q \in Peers \ {p} : mailbox'[q] = mailbox[q]
<1> USE DEF Typed, TypeOK
<1>1. \A q \in Peers \ {p} : mailbox'[q] = mailbox[q]
  <2>1. \/ UNCHANGED mailbox
        \/ \E type : Receive(p, type)
        \/ \E m : Post(p, m)
    BY DEF PeerStep, ActorStep, Handle, Resume, HandleCall, RefuseCall, HandleWireFormat,
       RefuseWireFormat, HandleCallResponse, DropCallResponse, HandleRequestError,
       HandleTimeout, HandleCloseConnection, IgnoreIncoming, IncomingFailure, IncomingSend,
       IncomingCall, IncomingResponse, IncomingError, ReceiveFrame, CallSent,
       CallSentNoTimer, FrameSent, ResponseSent, ErrorSent, ErrorSentThenClose, WriteFails,
       GraceOver, ListenerStep, ListenNext, PassGate, ListenSend, ListenEnd, Serve, Collect,
       DeliverResult, TimerFires, UserStep, UserCall, UserSend, UserClose, actorVars
  <2>2. ASSUME NEW type, Receive(p, type) PROVE \A q \in Peers \ {p} : mailbox'[q] = mailbox[q]
    BY <2>2 DEF Receive
  <2>3. ASSUME NEW m, Post(p, m) PROVE \A q \in Peers \ {p} : mailbox'[q] = mailbox[q]
    BY <2>3 DEF Post
  <2> QED
    BY <2>1, <2>2, <2>3
<1>2. ASSUME NEW a, Await(p, a) PROVE \A q \in Peers \ {p} : actor'[q] = actor[q]
  BY <1>2 DEF Await
<1>3. ASSUME NEW w, DropEverything(p, w) PROVE OthersKept(p)
  BY <1>3, <1>2 DEF DropEverything, OthersKept
<1>4. ASSUME NEW w, NEW r, Close(p, r, w) PROVE OthersKept(p)
  BY <1>2, <1>3, <1>4 DEF Close, OthersKept, taskVars
<1>5. CASE HandleCloseConnection(p) \/ ErrorSentThenClose(p)
  BY <1>1, <1>4, <1>5, ClosingSteps
<1>6. CASE GraceOver(p)
  BY <1>1, <1>3, <1>6 DEF GraceOver
<1>7. CASE Handle(p) /\ ~HandleCloseConnection(p)
  <2>1. UNCHANGED <<services, listener, timers, results>>
    BY <1>7 DEF Handle, HandleCall, RefuseCall, HandleWireFormat, RefuseWireFormat,
       HandleCallResponse, DropCallResponse, HandleRequestError, HandleTimeout,
       IgnoreIncoming, IncomingFailure, IncomingSend, IncomingCall, IncomingResponse,
       IncomingError, taskVars
  <2>2. \A e, cid, req : ReportError(p, e, cid, req) => \A q \in Peers \ {p} : actor'[q] = actor[q]
    BY <1>2 DEF ReportError
  <2>3. \A cid, r, o : Resolve(p, cid, r, o) => \A q \in Peers \ {p} : responses'[q] = responses[q]
    BY DEF Resolve
  <2>4. \A f : Nurse(p, f) => \A q \in Peers \ {p} : requests'[q] = requests[q]
    BY DEF Nurse
  <2>5. \A q \in Peers \ {p} : /\ actor'[q] = actor[q] /\ requests'[q] = requests[q]
                               /\ responses'[q] = responses[q]
    BY <1>2, <1>7, <2>2, <2>3, <2>4
       DEF Handle, HandleCall, RefuseCall, HandleWireFormat, RefuseWireFormat,
           HandleCallResponse, DropCallResponse, HandleRequestError, HandleTimeout,
           IgnoreIncoming, IncomingFailure, IncomingSend, IncomingCall, IncomingResponse,
           IncomingError, taskVars
  <2> QED
    BY <1>1, <2>1, <2>5 DEF OthersKept
<1>8. CASE Resume(p) /\ ~ErrorSentThenClose(p)
  <2>1. UNCHANGED <<services, listener, requests, results>> /\ Await(p, Idle)
    BY <1>8 DEF Resume, CallSent, CallSentNoTimer, FrameSent, ResponseSent, ErrorSent,
       WriteFails, taskVars
  <2>2. \A q \in Peers \ {p} : timers'[q] = timers[q] /\ responses'[q] = responses[q]
    BY <1>8 DEF Resume, CallSent, CallSentNoTimer, FrameSent, ResponseSent, ErrorSent,
       WriteFails, taskVars
  <2> QED
    BY <1>1, <1>2, <2>1, <2>2 DEF OthersKept
<1>9. CASE ListenerStep(p)
  <2>1. UNCHANGED <<actor, requests, timers, services, responses, results>>
    BY <1>9 DEF ListenerStep, ListenNext, PassGate, ListenSend, ListenEnd, actorVars
  <2>2. \A q \in Peers \ {p} : listener'[q] = listener[q]
    BY <1>9 DEF ListenerStep, ListenNext, PassGate, ListenSend, ListenEnd
  <2> QED
    BY <1>1, <2>1, <2>2 DEF OthersKept
<1>10. CASE (\E t \in requests[p] : Serve(p, t) \/ Collect(p, t)) \/ DeliverResult(p)
            \/ (\E t \in timers[p] : TimerFires(p, t))
  <2>1. ASSUME NEW t, Serve(p, t) \/ Collect(p, t) PROVE OthersKept(p)
    BY <2>1 DEF Serve, Collect, OthersKept, actorVars
  <2>2. ASSUME NEW t, TimerFires(p, t) PROVE OthersKept(p)
    BY <2>2 DEF TimerFires, OthersKept
  <2>3. ASSUME DeliverResult(p) PROVE OthersKept(p)
    BY <2>3 DEF DeliverResult, OthersKept
  <2> QED
    BY <1>1, <1>10, <2>1, <2>2, <2>3
<1>11. CASE UserStep(p)
  BY <1>1, <1>11 DEF UserStep, UserCall, UserSend, UserClose, OthersKept, taskVars
<1> QED
  BY <1>5, <1>6, <1>7, <1>8, <1>9, <1>10, <1>11 DEF PeerStep, ActorStep

(* Address, listen_incoming, listen_request_results and the timers are all *)
(* that puts messages into the mailbox.                                    *)
NewlyMade(r) == outcome[r] = "unused" /\ outcome'[r] = "queued"

Arrives(p, m) ==
  \/ /\ listener[p].at = "send" /\ m = IncomingMsg(listener[p].msg)
     /\ listener'[p] = Listening("next")
  \/ m \in {CloseMsg(TRUE), CloseMsg(FALSE)}
  \/ /\ results[p].at = "send" /\ m = results[p].msg
     /\ results'[p] = Collecting("next")
  \/ \E t \in timers[p] : m = TimeoutMsg(t)
  \/ \E c \in Calls : Origin[c] = p /\ m = CallMsg(c) /\ NewlyMade(c)
  \/ \E r \in Sends : Origin[r] = p /\ m = WireFormatMsg(RequestFrame(r, NullCid)) /\ NewlyMade(r)

Taken(p) == /\ actor[p] = Idle /\ mailbox[p] # <<>>
            /\ mailbox'[p] = Tail(mailbox[p])

(* peer.rs: the mailbox changes when the actor takes a message or one      *)
(* arrives.                                                                *)
LEMMA MailboxStep ==
  ASSUME Typed, NEW p \in Peers, PeerStep(p) \/ UserStep(p)
  PROVE  \/ mailbox'[p] = mailbox[p]
         \/ Taken(p) /\ Handle(p)
         \/ \E m \in Messages : Arrives(p, m) /\ mailbox'[p] = Append(mailbox[p], m)
<1> DEFINE Goal == \/ mailbox'[p] = mailbox[p]
                   \/ Taken(p) /\ Handle(p)
                   \/ \E m \in Messages : Arrives(p, m) /\ mailbox'[p] = Append(mailbox[p], m)
<1> SUFFICES Goal
  OBVIOUS
<1>1. ASSUME NEW type, Receive(p, type), Handle(p) PROVE Goal
  BY <1>1 DEF Receive, Taken, Typed, TypeOK
<1>2. ASSUME NEW m \in Messages, Post(p, m), Arrives(p, m) PROVE Goal
  <2>1. mailbox'[p] = Append(mailbox[p], m)
    BY <1>2 DEF Post, Typed, TypeOK
  <2> QED
    BY <1>2, <2>1
<1>3. CASE UNCHANGED mailbox
  BY <1>3
<1>4. CASE Handle(p)
  <2>1. \E type : Receive(p, type)
    BY <1>4 DEF Handle, HandleCall, RefuseCall, HandleWireFormat,
       RefuseWireFormat, HandleCallResponse, DropCallResponse, HandleRequestError,
       HandleTimeout, HandleCloseConnection, IgnoreIncoming, IncomingFailure, IncomingSend,
       IncomingCall, IncomingResponse, IncomingError, ReceiveFrame
  <2> QED
    BY <1>1, <1>4, <2>1
<1>5. CASE Resume(p) \/ GraceOver(p)
  BY <1>3, <1>5 DEF Resume, CallSent, CallSentNoTimer, FrameSent, ResponseSent, ErrorSent,
     ErrorSentThenClose, WriteFails, GraceOver
<1>6. CASE ListenNext(p) \/ PassGate(p)
  BY <1>3, <1>6 DEF ListenNext, PassGate, actorVars
<1>7. CASE ListenSend(p)
  <2>1. listener[p].at = "send" /\ listener[p] \in Listeners
    BY <1>7 DEF ListenSend, Typed, TypeOK
  <2>2. listener[p].msg \in Items
    BY <2>1 DEF Listeners, Items
  <2>3. PICK m \in Messages : m = IncomingMsg(listener[p].msg)
    BY <2>2, MessagesAreMessages
  <2>4. Post(p, m) /\ Arrives(p, m)
    BY <1>7, <2>1, <2>3 DEF ListenSend, Post, Arrives, Typed, TypeOK
  <2> QED
    BY <1>2, <2>4
<1>8. ASSUME NEW b \in BOOLEAN, Post(p, CloseMsg(b)) PROVE Goal
  <2>1. PICK m \in Messages : m = CloseMsg(b)
    BY MessagesAreMessages
  <2>2. Post(p, m) /\ Arrives(p, m)
    BY <1>8, <2>1 DEF Post, Arrives
  <2> QED
    BY <1>2, <2>2
<1>9. CASE ListenEnd(p) \/ UserClose(p)
  BY <1>8, <1>9 DEF ListenEnd, UserClose
<1>10. ASSUME NEW t \in requests[p], Serve(p, t) \/ Collect(p, t) PROVE Goal
  BY <1>3, <1>10 DEF Serve, Collect, actorVars
<1>11. CASE DeliverResult(p)
  <2>1. results[p].at = "send" /\ results[p] \in Collectors
    BY <1>11 DEF DeliverResult, Typed, TypeOK
  <2>2. PICK m \in Messages : m = results[p].msg
    BY <2>1, MessagesAreMessages DEF Collectors
  <2>3. Post(p, m) /\ Arrives(p, m)
    BY <1>11, <2>1, <2>2 DEF DeliverResult, Post, Arrives, Typed, TypeOK
  <2> QED
    BY <1>2, <2>3
<1>12. ASSUME NEW t \in timers[p], TimerFires(p, t) PROVE Goal
  <2>1. t \in Timers
    BY DEF Typed, TypeOK
  <2>2. PICK m \in Messages : m = TimeoutMsg(t)
    BY <2>1, MessagesAreMessages
  <2>3. Post(p, m) /\ Arrives(p, m)
    BY <1>12, <2>2 DEF TimerFires, Post, Arrives
  <2> QED
    BY <1>2, <2>3
<1>13. ASSUME NEW c \in Requests, UserCall(p, c) PROVE Goal
  <2>1. PICK m \in Messages : m = CallMsg(c)
    BY <1>13, MessagesAreMessages DEF UserCall
  <2>2. Post(p, m) /\ Arrives(p, m)
    BY <1>13, <2>1 DEF UserCall, Post, Arrives, NewlyMade, Learn, Typed, TypeOK
  <2> QED
    BY <1>2, <2>2
<1>14. ASSUME NEW r \in Requests, UserSend(p, r) PROVE Goal
  <2>1. RequestFrame(r, NullCid) \in Frames
    BY FramesAreFrames DEF NullCid, Cids
  <2>2. PICK m \in Messages : m = WireFormatMsg(RequestFrame(r, NullCid))
    BY <2>1, MessagesAreMessages
  <2>3. Post(p, m) /\ Arrives(p, m)
    BY <1>14, <2>2 DEF UserSend, Post, Arrives, NewlyMade, Learn, Typed, TypeOK
  <2> QED
    BY <1>2, <2>3
<1> HIDE DEF Goal
<1> QED
  BY <1>4, <1>5, <1>6, <1>7, <1>9, <1>10, <1>11, <1>12, <1>13, <1>14
     DEF PeerStep, ActorStep, ListenerStep, UserStep

(* send_msg, send_err: a handler that waits to write has just taken the    *)
(* message that made it write, and writes nothing else.                    *)
ToWrite(p, m, f, then) ==
  \/ /\ m.type = "Call" /\ HandleCall(p) /\ then = "call"
     /\ f = RequestFrame(m.req, FreshCid(counter[p]))
  \/ m.type = "WireFormat" /\ then = "send" /\ f = m.frame
  \/ m.type = "CallResponse" /\ then = "callResponse" /\ f = m.frame
  \/ /\ m.type = "RequestError" /\ m.cid # NullCid
     /\ then \in {"error", "errorClose"} /\ f = ErrorFrame(m.req, m.cid)
  \/ /\ m.type = "Incoming" /\ m.msg # WireErr /\ Kind(m.msg) = "IncomingCall"
     /\ then \in {"error", "errorClose"} /\ f = ErrorFrame(m.msg.req, m.msg.cid)

(* peer.rs: what the actor waits to write.                                 *)
LEMMA ActorStepWrites ==
  ASSUME Typed, NEW p \in Peers, PeerStep(p) \/ UserStep(p), actor'[p].at = "write"
  PROVE  \/ actor'[p] = actor[p] /\ ~Taken(p)
         \/ /\ Taken(p)
            /\ \E f, then : /\ actor'[p] = Writing(f, then)
                            /\ ToWrite(p, Head(mailbox[p]), f, then)
<1> DEFINE m == Head(mailbox[p])
<1>1. \A a : Await(p, a) => actor'[p] = a
  BY DEF Await, Typed, TypeOK
<1>2. ASSUME Await(p, Idle) \/ Await(p, InGrace) PROVE FALSE
  BY <1>1, <1>2 DEF Idle, InGrace
<1>3. ASSUME NEW w, DropEverything(p, w) PROVE FALSE
  BY <1>2, <1>3 DEF DropEverything
<1>4. ASSUME HandleCloseConnection(p) \/ ErrorSentThenClose(p) PROVE FALSE
  BY <1>2, <1>3, <1>4, ClosingSteps DEF Close
<1>5. ASSUME Resume(p) \/ GraceOver(p) PROVE FALSE
  BY <1>2, <1>3, <1>4, <1>5 DEF Resume, CallSent, CallSentNoTimer, FrameSent, ResponseSent,
     ErrorSent, WriteFails, GraceOver
<1>6. CASE actor'[p] = actor[p]
  <2>1. actor[p] # Idle
    BY <1>6 DEF Idle
  <2> QED
    BY <1>6, <2>1 DEF Taken
<1>7. CASE Handle(p) /\ actor'[p] # actor[p]
  <2>1. Taken(p)
    BY <1>7 DEF Handle, HandleCall, RefuseCall, HandleWireFormat,
       RefuseWireFormat, HandleCallResponse, DropCallResponse, HandleRequestError,
       HandleTimeout, HandleCloseConnection, IgnoreIncoming, IncomingFailure, IncomingSend,
       IncomingCall, IncomingResponse, IncomingError, ReceiveFrame, Receive, Taken, Typed, TypeOK
  <2>2. ASSUME NEW e, NEW cid, NEW req, ReportError(p, e, cid, req)
        PROVE  cid # NullCid /\ \E then \in {"error", "errorClose"} :
                                   actor'[p] = Writing(ErrorFrame(req, cid), then)
    BY <1>1, <1>7, <2>2 DEF ReportError
  <2>3. \/ HandleCall(p) \/ HandleWireFormat(p) \/ HandleCallResponse(p)
        \/ HandleRequestError(p) \/ IncomingCall(p)
    BY <1>4, <1>7 DEF Handle, RefuseCall, RefuseWireFormat, DropCallResponse, HandleTimeout,
       IgnoreIncoming, IncomingFailure, IncomingSend, IncomingResponse, IncomingError
  <2>4. \E f, then : actor'[p] = Writing(f, then) /\ ToWrite(p, m, f, then)
    <3>1. CASE HandleCall(p) \/ HandleWireFormat(p) \/ HandleCallResponse(p)
      BY <1>1, <3>1 DEF HandleCall, HandleWireFormat, HandleCallResponse, ToWrite, Receive
    <3>2. CASE HandleRequestError(p)
      <4>1. m.type = "RequestError" /\ ReportError(p, m.err, m.cid, m.req)
        BY <3>2 DEF HandleRequestError, Receive
      <4> QED
        BY <2>2, <4>1 DEF ToWrite
    <3>3. CASE IncomingCall(p)
      <4>1. /\ m.type = "Incoming" /\ m.msg # WireErr /\ Kind(m.msg) = "IncomingCall"
            /\ \E e : ReportError(p, e, m.msg.cid, m.msg.req)
        BY <1>7, <3>3 DEF IncomingCall, ReceiveFrame, Receive, Incoming
      <4> QED
        BY <2>2, <4>1 DEF ToWrite
    <3> QED
      BY <2>3, <3>1, <3>2, <3>3
  <2> QED
    BY <2>1, <2>4
<1>8. CASE ListenerStep(p)
  BY <1>6, <1>8 DEF ListenerStep, ListenNext, PassGate, ListenSend, ListenEnd, actorVars
<1>9. CASE (\E t \in requests[p] : Serve(p, t) \/ Collect(p, t)) \/ DeliverResult(p)
           \/ (\E t \in timers[p] : TimerFires(p, t)) \/ UserStep(p)
  BY <1>6, <1>9 DEF Serve, Collect, DeliverResult, TimerFires, UserStep, UserCall, UserSend,
     UserClose, actorVars
<1> QED
  BY <1>5, <1>6, <1>7, <1>8, <1>9 DEF PeerStep, ActorStep

(* The request a message of the listener carries, if it carries one.       *)
Carries(m, f) == /\ m.type = "Incoming" /\ m.msg # WireErr /\ m.msg = f
                 /\ Kind(f) \in {"IncomingSend", "IncomingCall"}

(* incoming.rs: the tasks of a peer process requests it has just taken     *)
(* from its mailbox, and a task that is done has had an actor handle it.   *)
LEMMA TaskSteps ==
  ASSUME Typed, NEW p \in Peers, PeerStep(p) \/ UserStep(p), NEW t \in requests'[p]
  PROVE  \/ t \in requests[p]
         \/ \E u \in requests[p] : /\ u.frame = t.frame /\ u.state = Running
                                   /\ t.state \in Processed(t.frame)
                                   /\ t.state = "done" => t.frame.req \in handled'
                                   /\ requests'[p] = (requests[p] \ {u}) \cup {t}
                                   /\ UNCHANGED <<mailbox, actor, results>>
         \/ /\ Taken(p) /\ Carries(Head(mailbox[p]), t.frame) /\ t.state = Running
            /\ actor'[p] = actor[p]
<1> USE DEF Typed, TypeOK
<1>1. CASE UNCHANGED requests
  BY <1>1
<1>2. ASSUME NEW w, DropEverything(p, w) PROVE FALSE
  BY <1>2 DEF DropEverything
<1>3. ASSUME NEW w, NEW r, Close(p, r, w) PROVE UNCHANGED requests
  BY <1>2, <1>3 DEF Close, taskVars
<1>4. CASE HandleCloseConnection(p) \/ ErrorSentThenClose(p)
  BY <1>1, <1>3, <1>4, ClosingSteps
<1>5. CASE GraceOver(p)
  BY <1>2, <1>5 DEF GraceOver
<1>6. CASE IncomingSend(p) \/ IncomingCall(p)
  <2>1. /\ Taken(p) /\ Head(mailbox[p]).type = "Incoming" /\ Incoming(p) # WireErr
        /\ Kind(Incoming(p)) \in {"IncomingSend", "IncomingCall"}
        /\ (Nurse(p, Incoming(p)) /\ UNCHANGED actor) \/ UNCHANGED requests
    BY <1>6 DEF IncomingSend, IncomingCall, ReceiveFrame, Receive, Taken
  <2>2. CASE Nurse(p, Incoming(p)) /\ UNCHANGED actor
    <3>1. t \in requests[p] \/ (t.frame = Incoming(p) /\ t.state = Running)
      BY <2>2 DEF Nurse
    <3> QED
      BY <2>1, <2>2, <3>1 DEF Incoming, Carries
  <2> QED
    BY <1>1, <2>1, <2>2
<1>7. CASE Handle(p) /\ ~HandleCloseConnection(p) /\ ~IncomingSend(p) /\ ~IncomingCall(p)
  BY <1>1, <1>7 DEF Handle, HandleCall, RefuseCall, HandleWireFormat, RefuseWireFormat,
     HandleCallResponse, DropCallResponse, HandleRequestError, HandleTimeout,
     IgnoreIncoming, IncomingFailure, IncomingResponse, IncomingError, taskVars
<1>8. CASE Resume(p) /\ ~ErrorSentThenClose(p)
  BY <1>1, <1>8 DEF Resume, CallSent, CallSentNoTimer, FrameSent, ResponseSent, ErrorSent,
     WriteFails, taskVars
<1>9. CASE ListenerStep(p) \/ DeliverResult(p) \/ UserStep(p)
           \/ (\E u \in timers[p] : TimerFires(p, u))
  BY <1>1, <1>9 DEF ListenerStep, ListenNext, PassGate, ListenSend, ListenEnd,
     DeliverResult, TimerFires, UserStep, UserCall, UserSend, UserClose, taskVars
<1>10. ASSUME NEW u \in requests[p], Serve(p, u)
       PROVE  \/ t \in requests[p]
              \/ \E v \in requests[p] : /\ v.frame = t.frame /\ v.state = Running
                                        /\ t.state \in Processed(t.frame)
                                        /\ t.state = "done" => t.frame.req \in handled'
                                        /\ requests'[p] = (requests[p] \ {v}) \cup {t}
                                        /\ UNCHANGED <<mailbox, actor, results>>
  <2>1. PICK s \in Processed(u.frame) :
             /\ requests' = [requests EXCEPT ![p] = (@ \ {u}) \cup {[u EXCEPT !.state = s]}]
             /\ handled' = IF s \in {"done", "Serialize"} THEN handled \cup {u.frame.req} ELSE handled
    BY <1>10 DEF Serve
  <2>2. requests'[p] = (requests[p] \ {u}) \cup {[u EXCEPT !.state = s]}
    BY <2>1
  <2>3. [u EXCEPT !.state = s].frame = u.frame /\ [u EXCEPT !.state = s].state = s
    BY DEF Tasks
  <2>4. t \in requests[p] \/ t = [u EXCEPT !.state = s]
    BY <2>2
  <2>5. u.state = Running /\ UNCHANGED <<mailbox, actor, results>>
    BY <1>10 DEF Serve, actorVars
  <2>6. CASE t = [u EXCEPT !.state = s]
    <3>1. u.frame = t.frame /\ t.state = s /\ requests'[p] = (requests[p] \ {u}) \cup {t}
      BY <2>2, <2>3, <2>6
    <3>2. s \in Processed(t.frame)
      BY <3>1
    <3>3. s = "done" => t.frame.req \in handled'
      BY <2>1, <3>1
    <3> QED
      BY <2>5, <3>1, <3>2, <3>3
  <2> QED
    BY <2>4, <2>6
<1>11. ASSUME NEW u \in requests[p], Collect(p, u) PROVE t \in requests[p]
  BY <1>11 DEF Collect
<1> QED
  BY <1>4, <1>5, <1>6, <1>7, <1>8, <1>9, <1>10, <1>11 DEF PeerStep, ActorStep

(* listen_request_results: what it delivers is the result of a task that   *)
(* has ended and is gone.                                                  *)
LEMMA ResultsStep ==
  ASSUME Typed, NEW p \in Peers, PeerStep(p) \/ UserStep(p), results'[p].at = "send"
  PROVE  \/ results'[p] = results[p]
         \/ /\ results[p].at = "next" /\ UNCHANGED <<mailbox, actor>>
            /\ \E t \in requests[p] : /\ t.state # Running
                                      /\ results'[p].msg \in ResultOf(t)
                                      /\ requests'[p] = requests[p] \ {t}
<1> USE DEF Typed, TypeOK
<1>1. CASE UNCHANGED results
  BY <1>1
<1>2. ASSUME NEW w, DropEverything(p, w) PROVE FALSE
  BY <1>2 DEF DropEverything, Collecting
<1>3. ASSUME NEW w, NEW r, Close(p, r, w) PROVE UNCHANGED results
  BY <1>2, <1>3 DEF Close, taskVars
<1>4. CASE HandleCloseConnection(p) \/ ErrorSentThenClose(p)
  BY <1>1, <1>3, <1>4, ClosingSteps
<1>5. CASE GraceOver(p)
  BY <1>2, <1>5 DEF GraceOver
<1>6. CASE Handle(p) /\ ~HandleCloseConnection(p)
  BY <1>1, <1>6 DEF Handle, HandleCall, RefuseCall, HandleWireFormat, RefuseWireFormat,
     HandleCallResponse, DropCallResponse, HandleRequestError, HandleTimeout,
     IgnoreIncoming, IncomingFailure, IncomingSend, IncomingCall, IncomingResponse,
     IncomingError, taskVars
<1>7. CASE Resume(p) /\ ~ErrorSentThenClose(p)
  BY <1>1, <1>7 DEF Resume, CallSent, CallSentNoTimer, FrameSent, ResponseSent, ErrorSent,
     WriteFails, taskVars
<1>8. CASE ListenerStep(p) \/ UserStep(p) \/ (\E u \in timers[p] : TimerFires(p, u))
           \/ (\E u \in requests[p] : Serve(p, u))
  BY <1>1, <1>8 DEF ListenerStep, ListenNext, PassGate, ListenSend, ListenEnd,
     TimerFires, Serve, UserStep, UserCall, UserSend, UserClose, taskVars
<1>9. CASE DeliverResult(p)
  BY <1>9 DEF DeliverResult, Collecting
<1>10. ASSUME NEW t \in requests[p], Collect(p, t)
       PROVE  /\ results[p].at = "next" /\ UNCHANGED <<mailbox, actor>>
              /\ t.state # Running
              /\ results'[p].msg \in ResultOf(t)
              /\ requests'[p] = requests[p] \ {t}
  <2>1. results'[p] = IF ResultOf(t) = {} THEN results[p]
                      ELSE Delivering(CHOOSE m \in ResultOf(t) : TRUE)
    BY <1>10 DEF Collect
  <2>2. ResultOf(t) # {} /\ results'[p].msg = CHOOSE m \in ResultOf(t) : TRUE
    BY <1>10, <2>1 DEF Collect, Delivering
  <2> QED
    BY <1>10, <2>2 DEF Collect, actorVars
<1> QED
  BY <1>4, <1>5, <1>6, <1>7, <1>8, <1>9, <1>10 DEF PeerStep, ActorStep

(* call.rs:114-123: the only timer a handler starts.                       *)
LEMMA NewTimers ==
  ASSUME Typed, NEW p \in Peers, PeerStep(p) \/ UserStep(p), NEW t \in timers'[p]
  PROVE  \/ t \in timers[p]
         \/ CallSent(p) /\ t = [cid |-> actor[p].frame.cid, call |-> actor[p].frame.req]
<1> USE DEF Typed, TypeOK
<1>1. CASE UNCHANGED timers
  BY <1>1
<1>2. ASSUME NEW w, DropEverything(p, w) PROVE FALSE
  BY <1>2 DEF DropEverything
<1>3. ASSUME NEW w, NEW r, Close(p, r, w) PROVE UNCHANGED timers
  BY <1>2, <1>3 DEF Close, taskVars
<1>4. CASE HandleCloseConnection(p) \/ ErrorSentThenClose(p)
  BY <1>1, <1>3, <1>4, ClosingSteps
<1>5. CASE GraceOver(p)
  BY <1>2, <1>5 DEF GraceOver
<1>6. CASE CallSent(p)
  BY <1>6 DEF CallSent
<1>7. CASE Handle(p) /\ ~HandleCloseConnection(p)
  BY <1>1, <1>7 DEF Handle, HandleCall, RefuseCall, HandleWireFormat,
     RefuseWireFormat, HandleCallResponse, DropCallResponse, HandleRequestError,
     HandleTimeout, IgnoreIncoming, IncomingFailure, IncomingSend, IncomingCall,
     IncomingResponse, IncomingError, taskVars
<1>8. CASE Resume(p) /\ ~ErrorSentThenClose(p) /\ ~CallSent(p)
  BY <1>1, <1>8 DEF Resume, CallSentNoTimer, FrameSent, ResponseSent, ErrorSent, WriteFails,
     taskVars
<1>9. CASE ListenerStep(p) \/ DeliverResult(p) \/ UserStep(p)
           \/ (\E u \in requests[p] : Serve(p, u) \/ Collect(p, u))
  BY <1>1, <1>9 DEF ListenerStep, ListenNext, PassGate, ListenSend, ListenEnd, Serve,
     Collect, DeliverResult, UserStep, UserCall, UserSend, UserClose, taskVars
<1>10. ASSUME NEW u \in timers[p], TimerFires(p, u) PROVE t \in timers[p]
  BY <1>10 DEF TimerFires
<1> QED
  BY <1>4, <1>5, <1>6, <1>7, <1>8, <1>9, <1>10 DEF PeerStep, ActorStep

(* listen_incoming: what it holds was first on the connection.             *)
LEMMA ListenerSteps ==
  ASSUME Typed, NEW p \in Peers, PeerStep(p) \/ UserStep(p),
         listener'[p].at \in {"gate", "send"}
  PROVE  \/ listener[p].at \in {"gate", "send"} /\ listener'[p].msg = listener[p].msg
         \/ /\ wire[p] # <<>> /\ listener'[p].msg = Head(wire[p])
            /\ wire'[p] = Tail(wire[p]) /\ UNCHANGED <<mailbox, actor, requests, results>>
<1> USE DEF Typed, TypeOK
<1>1. CASE UNCHANGED listener
  BY <1>1
<1>2. ASSUME NEW w, DropEverything(p, w) PROVE FALSE
  BY <1>2 DEF DropEverything, Listening
<1>3. ASSUME NEW w, NEW r, Close(p, r, w) PROVE UNCHANGED listener
  BY <1>2, <1>3 DEF Close, taskVars
<1>4. CASE HandleCloseConnection(p) \/ ErrorSentThenClose(p)
  BY <1>1, <1>3, <1>4, ClosingSteps
<1>5. CASE GraceOver(p)
  BY <1>2, <1>5 DEF GraceOver
<1>6. CASE Handle(p) /\ ~HandleCloseConnection(p)
  BY <1>1, <1>6 DEF Handle, HandleCall, RefuseCall, HandleWireFormat, RefuseWireFormat,
     HandleCallResponse, DropCallResponse, HandleRequestError, HandleTimeout,
     IgnoreIncoming, IncomingFailure, IncomingSend, IncomingCall, IncomingResponse,
     IncomingError, taskVars
<1>7. CASE Resume(p) /\ ~ErrorSentThenClose(p)
  BY <1>1, <1>7 DEF Resume, CallSent, CallSentNoTimer, FrameSent, ResponseSent, ErrorSent,
     WriteFails, taskVars
<1>8. CASE UserStep(p) \/ (\E u \in timers[p] : TimerFires(p, u)) \/ DeliverResult(p)
           \/ (\E u \in requests[p] : Serve(p, u) \/ Collect(p, u))
  BY <1>1, <1>8 DEF TimerFires, Serve, Collect, DeliverResult, UserStep, UserCall, UserSend,
     UserClose, taskVars
<1>9. CASE ListenNext(p)
  BY <1>9, EndsOfPeer DEF ListenNext, Holding, actorVars
<1>10. CASE PassGate(p)
  <2>1. listener[p] \in [at : {"gate", "send"}, msg : Items]
    BY <1>10 DEF PassGate, Listeners, Items
  <2> QED
    BY <1>10, <2>1 DEF PassGate
<1>11. CASE ListenSend(p) \/ ListenEnd(p)
  <2>1. listener'[p] = Listening("next") \/ listener'[p] = Listening("done")
    BY <1>11 DEF ListenSend, ListenEnd
  <2> QED
    BY <2>1 DEF Listening
<1> QED
  BY <1>4, <1>5, <1>6, <1>7, <1>8, <1>9, <1>10, <1>11 DEF PeerStep, ActorStep, ListenerStep

(* peer.rs: a peer reads its own direction of the connection, and adds the *)
(* frame its handler holds to the other one.                               *)
LEMMA WireStep ==
  ASSUME Typed, NEW p \in Peers, PeerStep(p) \/ UserStep(p), NEW e \in Ends
  PROVE  \/ wire'[e] = wire[e]
         \/ e = p /\ wire[p] # <<>> /\ wire'[p] = Tail(wire[p])
         \/ e = p /\ wire'[p] = <<>>
         \/ /\ e = Remote[p] /\ actor[p].at = "write" /\ actor'[p].at # "write"
            /\ wire'[e] = Append(wire[e], actor[p].frame)
<1> USE EndsOfPeer DEF Typed, TypeOK
<1>1. CASE UNCHANGED wire
  BY <1>1
<1>2. wire \in [Ends -> Seq(Items)]
  BY DEF Items
<1>3. ASSUME NEW a, Await(p, a) PROVE actor'[p] = a
  BY <1>3 DEF Await
<1>4. Idle.at # "write" /\ InGrace.at # "write"
  BY DEF Idle, InGrace
<1>5. ASSUME NEW w \in [Ends -> Seq(Items)], DropEverything(p, w)
      PROVE  (wire'[e] = w[e] \/ (e = p /\ wire'[p] = <<>>)) /\ actor'[p].at # "write"
  BY <1>3, <1>4, <1>5 DEF DropEverything
<1>6. ASSUME NEW w \in [Ends -> Seq(Items)], NEW r, Close(p, r, w)
      PROVE  (wire'[e] = w[e] \/ (e = p /\ wire'[p] = <<>>)) /\ actor'[p].at # "write"
  BY <1>3, <1>4, <1>5, <1>6 DEF Close
<1>7. CASE HandleCloseConnection(p) \/ ErrorSentThenClose(p)
  <2>1. PICK w \in [Ends -> Seq(Items)], r \in BOOLEAN :
             /\ Close(p, r, w)
             /\ w = wire \/ (WritingFor(p, "errorClose") /\ w = WireWith(p, actor[p].frame))
    BY <1>7, ClosingSteps
  <2>2. (wire'[e] = w[e] \/ (e = p /\ wire'[p] = <<>>)) /\ actor'[p].at # "write"
    BY <1>6, <2>1
  <2>3. w[e] = wire[e] \/ (e = Remote[p] /\ w[e] = Append(wire[e], actor[p].frame)
                           /\ WritingFor(p, "errorClose"))
    BY <1>2, <2>1 DEF WireWith
  <2> QED
    BY <2>2, <2>3 DEF WritingFor
<1>8. CASE GraceOver(p)
  <2>1. PICK w \in [Ends -> Seq(Items)] : w = wire
    BY <1>2
  <2>2. DropEverything(p, w)
    BY <1>8, <2>1 DEF GraceOver, DropEverything
  <2> QED
    BY <1>5, <2>1, <2>2
<1>9. CASE ListenNext(p)
  BY <1>2, <1>9 DEF ListenNext
<1>10. CASE Resume(p) /\ ~ErrorSentThenClose(p)
  <2>1. actor[p].at = "write" /\ Await(p, Idle)
    BY <1>10 DEF Resume, CallSent, CallSentNoTimer, FrameSent, ResponseSent, ErrorSent,
       WriteFails, WritingFor
  <2>2. UNCHANGED wire \/ PutOnWire(p, actor[p].frame)
    BY <1>10 DEF Resume, CallSent, CallSentNoTimer, FrameSent, ResponseSent, ErrorSent,
       WriteFails, wireVars
  <2>3. ASSUME PutOnWire(p, actor[p].frame)
        PROVE  \/ wire'[e] = wire[e]
               \/ e = Remote[p] /\ wire'[e] = Append(wire[e], actor[p].frame)
    BY <1>2, <2>3 DEF PutOnWire, WireWith
  <2> QED
    BY <1>1, <1>3, <1>4, <2>1, <2>2, <2>3
<1>11. CASE Handle(p) /\ ~HandleCloseConnection(p)
  BY <1>1, <1>11 DEF Handle, HandleCall, RefuseCall, HandleWireFormat, RefuseWireFormat,
     HandleCallResponse, DropCallResponse, HandleRequestError, HandleTimeout,
     IgnoreIncoming, IncomingFailure, IncomingSend, IncomingCall, IncomingResponse,
     IncomingError, wireVars
<1>12. CASE PassGate(p) \/ ListenSend(p) \/ ListenEnd(p) \/ DeliverResult(p) \/ UserStep(p)
            \/ (\E t \in requests[p] : Serve(p, t) \/ Collect(p, t))
            \/ (\E t \in timers[p] : TimerFires(p, t))
  BY <1>1, <1>12 DEF PassGate, ListenSend, ListenEnd, Serve, Collect, DeliverResult,
     TimerFires, UserStep, UserCall, UserSend, UserClose, wireVars
<1> QED
  BY <1>7, <1>8, <1>9, <1>10, <1>11, <1>12 DEF PeerStep, ActorStep, ListenerStep

(* Actors that have handled a request have handled it.                     *)
LEMMA HandledStays ==
  ASSUME Typed, NEW p \in Peers, PeerStep(p) \/ UserStep(p)
  PROVE  handled \subseteq handled'
<1>1. CASE UNCHANGED handled
  BY <1>1
<1>2. ASSUME NEW t, Serve(p, t) PROVE handled \subseteq handled'
  BY <1>2 DEF Serve
<1> QED
  BY <1>1, <1>2 DEF PeerStep, ActorStep, Handle, Resume, HandleCall, RefuseCall,
     HandleWireFormat, RefuseWireFormat, HandleCallResponse, DropCallResponse,
     HandleRequestError, HandleTimeout, HandleCloseConnection, IgnoreIncoming,
     IncomingFailure, IncomingSend, IncomingCall, IncomingResponse, IncomingError, CallSent,
     CallSentNoTimer, FrameSent, ResponseSent, ErrorSent, ErrorSentThenClose, WriteFails,
     GraceOver, ListenerStep, ListenNext, PassGate, ListenSend, ListenEnd, Collect,
     DeliverResult, TimerFires, UserStep, UserCall, UserSend, UserClose

-----------------------------------------------------------------------------
(* Whose requests are where.  Everything a peer has to write is a request  *)
(* of its own or an answer to one of the remote, and everything it reads   *)
(* is a request of the remote or an answer to one of its own.              *)
Answers(f) == f.sid \in {NullSid, FullSid}

Own(p, f)     == Origin[f.req] = IF Answers(f) THEN Remote[p] ELSE p
Inbound(p, x) == x # WireErr => Origin[x.req] = IF Answers(x) THEN p ELSE Remote[p]

Meant(p, m) ==
  /\ m.type = "Call" => Origin[m.req] = p
  /\ m.type \in {"WireFormat", "CallResponse"} => Own(p, m.frame)
  /\ m.type = "WireFormat" /\ ~Answers(m.frame) => m.frame.req \in Sends
  /\ m.type = "CallResponse" => Answers(m.frame)
  /\ m.type = "RequestError" => Origin[m.req] = Remote[p]
  /\ m.type = "Incoming" => Inbound(p, m.msg)
  /\ m.type = "Timeout" => Origin[m.timer.call] = p

Returned(p, m) == Meant(p, m) /\ (m.type = "WireFormat" => Answers(m.frame))

ToBeWritten(p, f, then) ==
  /\ Own(p, f)
  /\ then = "call" => ~Answers(f) /\ f.cid # NullCid
  /\ then = "send" /\ ~Answers(f) => f.req \in Sends
  /\ then \notin {"call", "send"} => Answers(f)

TrafficAt(p) ==
  /\ \A i \in DOMAIN mailbox[p] : Meant(p, mailbox[p][i])
  /\ results[p].at = "send" => Returned(p, results[p].msg)
  /\ actor[p].at = "write" => ToBeWritten(p, actor[p].frame, actor[p].then)
  /\ listener[p].at \in {"gate", "send"} => Inbound(p, listener[p].msg)
  /\ \A t \in requests[p] : Origin[t.frame.req] = Remote[p] /\ ~Answers(t.frame)
  /\ \A t \in timers[p] : Origin[t.call] = p
  /\ \A i \in DOMAIN wire[p] : Inbound(p, wire[p][i])
  /\ \A i \in DOMAIN wire[Remote[p]] : Own(p, wire[Remote[p]][i])

Traffic == \A p \in Peers : TrafficAt(p)

(* WireFormat::kind: requests and answers.                                 *)
LEMMA KindsOfFrames ==
  ASSUME NEW f
  PROVE  /\ Kind(f) \in {"IncomingSend", "IncomingCall"} <=> ~Answers(f)
         /\ Kind(f) \in {"ConnectionError", "CallResponse"} <=> Answers(f)
         /\ Kind(f) = "CallResponse" <=> f.sid = FullSid
         /\ Kind(f) = "IncomingCall" => f.cid # NullCid
BY DEF Kind, Answers

(* ... and what the constructors of frames make.                           *)
LEMMA MadeFrames ==
  ASSUME NEW r \in Requests, NEW cid
  PROVE  /\ ~Answers(RequestFrame(r, cid)) /\ RequestFrame(r, cid).req = r
         /\ RequestFrame(r, cid).cid = cid
         /\ Answers(ResponseFrame(r, cid)) /\ ResponseFrame(r, cid).req = r
         /\ ResponseFrame(r, cid).sid = FullSid
         /\ Answers(ErrorFrame(r, cid)) /\ ErrorFrame(r, cid).req = r
         /\ ErrorFrame(r, cid).sid # FullSid
<1>1. SidOf[r] \in Services
  BY DEF Requests
<1> QED
  BY <1>1 DEF Answers, RequestFrame, ResponseFrame, ErrorFrame

(* call.rs: the id of a call is not the one that marks a send.             *)
LEMMA FreshIsNotNull ==
  ASSUME NEW n \in Cids
  PROVE  FreshCid(n) # NullCid
<1>1. (0 + 1) % CidValues = 1
  OBVIOUS
<1> QED
  BY <1>1 DEF FreshCid, FetchAdd, NullCid, Cids

(* peer.rs: what arrives in the mailbox of a peer is meant for it.         *)
LEMMA ArrivesMeant ==
  ASSUME Typed, NEW p \in Peers, TrafficAt(p), NEW m \in Messages, Arrives(p, m)
  PROVE  Meant(p, m)
<1>1. CASE listener[p].at = "send" /\ m = IncomingMsg(listener[p].msg)
  BY <1>1 DEF TrafficAt, Meant, IncomingMsg
<1>2. CASE m \in {CloseMsg(TRUE), CloseMsg(FALSE)} \/ \E t \in timers[p] : m = TimeoutMsg(t)
  BY <1>2 DEF TrafficAt, Meant, CloseMsg, TimeoutMsg
<1>3. CASE results[p].at = "send" /\ m = results[p].msg
  BY <1>3 DEF TrafficAt, Returned
<1>4. ASSUME NEW c \in Calls, Origin[c] = p, m = CallMsg(c) PROVE Meant(p, m)
  BY <1>4 DEF Meant, CallMsg
<1>5. ASSUME NEW r \in Sends, Origin[r] = p, m = WireFormatMsg(RequestFrame(r, NullCid))
      PROVE  Meant(p, m)
  <2>1. r \in Requests
    BY DEF Requests
  <2>2. m.type = "WireFormat" /\ m.frame = RequestFrame(r, NullCid)
    BY <1>5 DEF WireFormatMsg
  <2> QED
    BY <1>5, <2>1, <2>2, MadeFrames DEF Meant, Own
<1> QED
  BY <1>1, <1>2, <1>3, <1>4, <1>5 DEF Arrives

(* peer.rs: ... and so is the result of a task.                            *)
LEMMA ResultsMeant ==
  ASSUME NEW p \in Peers, NEW t \in Tasks, Origin[t.frame.req] = Remote[p], t.state # Running,
         NEW m \in ResultOf(t)
  PROVE  Returned(p, m)
<1>1. t.frame.req \in Requests
  BY DEF Tasks, Frames
<1>2. \/ m = CallResponseMsg(ResponseFrame(t.frame.req, t.frame.cid))
      \/ m = WireFormatMsg(ErrorFrame(t.frame.req, t.frame.cid))
      \/ m = RequestErrorMsg(t.state, t.frame)
  BY DEF ResultOf
<1> QED
  BY <1>1, <1>2, MadeFrames DEF Returned, Meant, Own, CallResponseMsg, WireFormatMsg, RequestErrorMsg

(* peer.rs: ... and what a handler writes because of it.                   *)
LEMMA WritesMeant ==
  ASSUME Typed, NEW p \in Peers, NEW m \in Messages, Meant(p, m), NEW f, NEW then,
         ToWrite(p, m, f, then)
  PROVE  ToBeWritten(p, f, then)
<1> USE DEF ToWrite, ToBeWritten
<1>1. CASE m.type = "Call"
  <2>1. m.req \in Requests /\ FreshCid(counter[p]) # NullCid
    BY <1>1, MessageFields, FreshIsNotNull DEF Requests, Typed, TypeOK
  <2> QED
    BY <1>1, <2>1, MadeFrames DEF Meant, Own
<1>2. CASE m.type = "WireFormat" \/ m.type = "CallResponse"
  BY <1>2 DEF Meant
<1>3. CASE m.type = "RequestError"
  <2>1. m.req \in Requests
    BY <1>3, MessageFields
  <2> QED
    BY <1>3, <2>1, MadeFrames DEF Meant, Own
<1>4. CASE m.type = "Incoming"
  <2>1. m.msg # WireErr /\ Kind(m.msg) = "IncomingCall" /\ m.msg \in Items
    BY <1>4, MessageFields
  <2>2. m.msg.req \in Requests /\ Origin[m.msg.req] = Remote[p]
    BY <1>4, <2>1, KindsOfFrames DEF Meant, Inbound, Items, Frames
  <2> QED
    BY <1>4, <2>2, MadeFrames DEF Own
<1> QED
  BY <1>1, <1>2, <1>3, <1>4

(* peer.rs: the first message of a mailbox, when it is taken.              *)
LEMMA HeadOfMailbox ==
  ASSUME Typed, NEW p \in Peers, Taken(p)
  PROVE  /\ Head(mailbox[p]) \in Messages
         /\ 1 \in DOMAIN mailbox[p] /\ Head(mailbox[p]) = mailbox[p][1]
         /\ \A i \in DOMAIN mailbox'[p] :
              /\ i \in Nat /\ i + 1 \in DOMAIN mailbox[p]
              /\ mailbox'[p][i] = mailbox[p][i + 1]
<1>1. PICK s \in Seq(Messages) : s = mailbox[p]
  BY DEF Typed, TypeOK
<1> QED
  BY <1>1, TakenFrom DEF Taken

(* Every step of a peer keeps to its own requests.                         *)
LEMMA TrafficKept ==
  ASSUME Typed, Traffic, NEW p \in Peers, PeerStep(p) \/ UserStep(p)
  PROVE  Traffic'
<1>1. TrafficAt(p)
  BY DEF Traffic
<1>2. mailbox[p] \in Seq(Messages) /\ wire \in [Ends -> Seq(Items)] /\ requests[p] \subseteq Tasks
  BY DEF Typed, TypeOK, Items
<1>3. \A i \in DOMAIN mailbox'[p] : Meant(p, mailbox'[p][i])
  <2>1. CASE mailbox'[p] = mailbox[p]
    BY <1>1, <2>1 DEF TrafficAt
  <2>2. CASE Taken(p)
    BY <1>1, <2>2, HeadOfMailbox DEF TrafficAt
  <2>3. ASSUME NEW m \in Messages, Arrives(p, m), mailbox'[p] = Append(mailbox[p], m)
        PROVE  \A i \in DOMAIN mailbox'[p] : Meant(p, mailbox'[p][i])
    <3>1. PICK s \in Seq(Messages) : s = mailbox[p]
      BY <1>2
    <3>2. \A i \in DOMAIN Append(s, m) : (i \in DOMAIN s /\ Append(s, m)[i] = s[i]) \/ Append(s, m)[i] = m
      BY PutInto
    <3>3. Meant(p, m)
      BY <1>1, <2>3, ArrivesMeant
    <3> QED
      BY <1>1, <2>3, <3>1, <3>2, <3>3 DEF TrafficAt
  <2> QED
    BY <2>1, <2>2, <2>3, MailboxStep
<1>4. results'[p].at = "send" => Returned(p, results'[p].msg)
  BY <1>1, <1>2, ResultsStep, ResultsMeant DEF TrafficAt
<1>5. actor'[p].at = "write" => ToBeWritten(p, actor'[p].frame, actor'[p].then)
  <2>1. ASSUME NEW f, NEW then, Taken(p), ToWrite(p, Head(mailbox[p]), f, then)
        PROVE  ToBeWritten(p, f, then)
    <3>1. PICK m \in Messages : m = Head(mailbox[p]) /\ Meant(p, m)
      BY <1>1, <2>1, HeadOfMailbox DEF TrafficAt
    <3>2. ToWrite(p, m, f, then)
      BY <2>1, <3>1
    <3> QED
      BY <3>1, <3>2, WritesMeant
  <2>2. \A f, then : Writing(f, then).frame = f /\ Writing(f, then).then = then
    BY DEF Writing
  <2> QED
    BY <1>1, <2>1, <2>2, ActorStepWrites DEF TrafficAt
<1>6. listener'[p].at \in {"gate", "send"} => Inbound(p, listener'[p].msg)
  <2>1. wire[p] # <<>> => 1 \in DOMAIN wire[p] /\ Head(wire[p]) = wire[p][1]
    BY <1>2, EndsOfPeer, TakenFrom
  <2> QED
    BY <1>1, <2>1, ListenerSteps DEF TrafficAt
<1>7. \A t \in requests'[p] : Origin[t.frame.req] = Remote[p] /\ ~Answers(t.frame)
  <2> SUFFICES ASSUME NEW t \in requests'[p]
               PROVE  Origin[t.frame.req] = Remote[p] /\ ~Answers(t.frame)
    OBVIOUS
  <2>1. CASE Taken(p) /\ Carries(Head(mailbox[p]), t.frame)
    <3>1. Meant(p, Head(mailbox[p]))
      BY <1>1, <2>1, HeadOfMailbox DEF TrafficAt
    <3> QED
      BY <2>1, <3>1, KindsOfFrames DEF Carries, Meant, Inbound
  <2> QED
    BY <1>1, <2>1, TaskSteps DEF TrafficAt
<1>8. ASSUME NEW q \in Peers PROVE \A i \in DOMAIN wire'[q] : Inbound(q, wire'[q][i])
  <2>1. PICK s \in Seq(Items) : s = wire[q]
    BY <1>2, <1>8, EndsOfPeer
  <2>2. \A i \in DOMAIN s : Inbound(q, s[i])
    BY <1>8, <2>1 DEF Traffic, TrafficAt
  <2>3. CASE wire'[q] = s \/ wire'[q] = <<>> \/ (s # <<>> /\ wire'[q] = Tail(s))
    <3>1. s # <<>> => \A i \in DOMAIN Tail(s) : i + 1 \in DOMAIN s /\ Tail(s)[i] = s[i + 1]
      BY TakenFrom
    <3> QED
      BY <2>2, <2>3, <3>1
  <2>4. ASSUME q = Remote[p], actor[p].at = "write", wire'[q] = Append(s, actor[p].frame)
        PROVE  \A i \in DOMAIN wire'[q] : Inbound(q, wire'[q][i])
    <3>1. q # p /\ Own(p, actor[p].frame)
      BY <1>1, <2>4, EndsOfPeer DEF TrafficAt, ToBeWritten
    <3>2. PICK f : f = actor[p].frame
      OBVIOUS
    <3>3. Inbound(q, f)
      BY <1>8, <2>4, <3>1, <3>2 DEF Inbound, Own
    <3>4. actor[p] \in Actors
      BY DEF Typed, TypeOK
    <3>5. f \in Items
      BY <2>4, <3>2, <3>4 DEF Actors, Idle, InGrace, Items
    <3>6. \A i \in DOMAIN Append(s, f) : (i \in DOMAIN s /\ Append(s, f)[i] = s[i]) \/ Append(s, f)[i] = f
      BY <3>5, PutInto
    <3> QED
      BY <2>2, <2>4, <3>2, <3>3, <3>6
  <2>5. \/ wire'[q] = s \/ wire'[q] = <<>> \/ (s # <<>> /\ wire'[q] = Tail(s))
        \/ (q = Remote[p] /\ actor[p].at = "write" /\ wire'[q] = Append(s, actor[p].frame))
    BY <1>8, <2>1, EndsOfPeer, WireStep
  <2> QED
    BY <2>3, <2>4, <2>5
<1>9. ASSUME NEW q \in Peers PROVE \A i \in DOMAIN wire'[Remote[q]] : Own(q, wire'[Remote[q]][i])
  <2> DEFINE e == Remote[q]
  <2>1. PICK s \in Seq(Items) : s = wire[e]
    BY <1>2, <1>9, EndsOfPeer
  <2>2. \A i \in DOMAIN s : Own(q, s[i])
    BY <1>9, <2>1 DEF Traffic, TrafficAt
  <2>3. CASE wire'[e] = s \/ wire'[e] = <<>> \/ (s # <<>> /\ wire'[e] = Tail(s))
    <3>1. s # <<>> => \A i \in DOMAIN Tail(s) : i + 1 \in DOMAIN s /\ Tail(s)[i] = s[i + 1]
      BY TakenFrom
    <3> QED
      BY <2>2, <2>3, <3>1
  <2>4. ASSUME q = p, actor[p].at = "write", wire'[e] = Append(s, actor[p].frame)
        PROVE  \A i \in DOMAIN wire'[e] : Own(q, wire'[e][i])
    <3>1. PICK f : f = actor[p].frame /\ Own(q, f)
      BY <1>1, <2>4 DEF TrafficAt, ToBeWritten
    <3>2. actor[p] \in Actors
      BY DEF Typed, TypeOK
    <3>3. f \in Items
      BY <2>4, <3>1, <3>2 DEF Actors, Idle, InGrace, Items
    <3>4. \A i \in DOMAIN Append(s, f) : (i \in DOMAIN s /\ Append(s, f)[i] = s[i]) \/ Append(s, f)[i] = f
      BY <3>3, PutInto
    <3> QED
      BY <2>2, <2>4, <3>1, <3>4
  <2>5. \/ wire'[e] = s \/ wire'[e] = <<>> \/ (s # <<>> /\ wire'[e] = Tail(s))
        \/ (q = p /\ actor[p].at = "write" /\ wire'[e] = Append(s, actor[p].frame))
    BY <1>9, <2>1, EndsOfPeer, WireStep
  <2> QED
    BY <2>3, <2>4, <2>5
<1>10. ASSUME NEW t \in timers'[p] PROVE Origin[t.call] = p
  BY <1>1, <1>10, NewTimers DEF TrafficAt, ToBeWritten, Own, CallSent, WritingFor
<1>11. TrafficAt(p)'
  BY <1>3, <1>4, <1>5, <1>6, <1>7, <1>8, <1>9, <1>10 DEF TrafficAt
<1>12. ASSUME NEW q \in Peers \ {p} PROVE TrafficAt(q)'
  <2>1. /\ mailbox'[q] = mailbox[q] /\ results'[q] = results[q] /\ actor'[q] = actor[q]
        /\ listener'[q] = listener[q] /\ requests'[q] = requests[q]
        /\ timers'[q] = timers[q]
    BY OthersUntouched DEF OthersKept
  <2>2. TrafficAt(q)
    BY DEF Traffic
  <2> QED
    BY <1>8, <1>9, <2>1, <2>2 DEF TrafficAt
<1> QED
  BY <1>11, <1>12 DEF Traffic

-----------------------------------------------------------------------------
(* The calls and sends of a peer, from the mailbox to the map.             *)

(* Handler<Call>, Handler<WireFormat>: a message that makes request r, and *)
(* the actor that is about to write it.                                    *)
Asks(p, m, r) == \/ m.type = "Call" /\ m.req = r
                 \/ m.type = "WireFormat" /\ m.frame.req = r /\ Origin[r] = p
Makes(p, r)   == actor[p].at = "write" /\ actor[p].frame.req = r /\ Origin[r] = p

(* A request that waits to be written is in one place, and its maker has   *)
(* been told nothing.                                                      *)
QueuedAt(p, r) ==
  /\ \A i \in DOMAIN mailbox[p] : Asks(p, mailbox[p][i], r) =>
       /\ outcome[r] = "queued" /\ ~Makes(p, r)
       /\ \A j \in DOMAIN mailbox[p] : Asks(p, mailbox[p][j], r) => i = j
  /\ Makes(p, r) => outcome[r] = "queued"

QueuedOnce == \A p \in Peers : \A r \in Requests : QueuedAt(p, r)

(* Peer::responses knows calls of the peer whose callers wait, each under  *)
(* one id.                                                                 *)
MapEntry(p, i) == responses[p][i] # NoCall =>
  /\ i # NullCid /\ Origin[responses[p][i]] = p
  /\ outcome[responses[p][i]] = "pending"
  /\ \A j \in Cids : responses[p][j] = responses[p][i] => i = j

AllMapped == \A p \in Peers : \A i \in Cids : MapEntry(p, i)

Requesting == Traffic /\ QueuedOnce /\ AllMapped

(* What a step may make of the outcome of a request, and of whose.         *)
Advances(p, r) ==
  /\ Origin[r] = p
  /\ \/ UserStep(p) /\ NewlyMade(r)
     \/ /\ Taken(p) /\ Asks(p, Head(mailbox[p]), r) /\ actor'[p].at # "write"
        /\ outcome[r] = "queued" /\ outcome'[r] \in Final
     \/ /\ Makes(p, r) /\ actor'[p].at # "write" /\ ~Taken(p) /\ outcome[r] = "queued"
        /\ outcome'[r] \in Final \/ (CallSent(p) /\ r = actor[p].frame.req)
     \/ /\ outcome[r] = "pending" /\ outcome'[r] \in Final
        /\ \E i \in Cids : responses[p][i] = r /\ responses'[p][i] # r

(* incoming.rs, timeout.rs: an answer to the call that waits under an id.  *)
LEMMA ResolveSettles ==
  ASSUME Typed, Requesting, NEW p \in Peers, NEW cid \in Cids, NEW x, NEW o \in Final,
         Resolve(p, cid, x, o), responses[p][cid] # NoCall
  PROVE  /\ outcome'[responses[p][cid]] \in Final
         /\ responses' = [responses EXCEPT ![p][cid] = NoCall]
         /\ \A r \in Requests : outcome'[r] # outcome[r] => Advances(p, r)
<1>1. MapEntry(p, cid) /\ responses[p][cid] \in Calls
  BY DEF Requesting, AllMapped, Typed, TypeOK
<1>2. responses' = [responses EXCEPT ![p][cid] = NoCall]
  BY DEF Resolve
<1>3. responses'[p][cid] = NoCall
  BY <1>2 DEF Typed, TypeOK
<1>4. \E v \in Final : outcome' = [outcome EXCEPT ![responses[p][cid]] = v]
  BY DEF Resolve, Learn, Final
<1>5. outcome'[responses[p][cid]] \in Final
  BY <1>1, <1>4 DEF Typed, TypeOK, Requests
<1>6. ASSUME NEW r \in Requests, outcome'[r] # outcome[r] PROVE Advances(p, r)
  <2>1. r = responses[p][cid]
    BY <1>4, <1>6 DEF Typed, TypeOK
  <2> QED
    BY <1>1, <1>3, <1>5, <2>1 DEF MapEntry, Advances
<1> QED
  BY <1>2, <1>5, <1>6

(* close_connection.rs, the end: whoever waits is told.                    *)
LEMMA DropSettles ==
  ASSUME Typed, Requesting, NEW p \in Peers, NEW w, DropEverything(p, w)
  PROVE  /\ \A i \in Cids : responses[p][i] # NoCall => outcome'[responses[p][i]] = "cancelled"
         /\ \A i \in Cids : responses'[p][i] = NoCall
         /\ \A r \in Requests : outcome'[r] # outcome[r] => Advances(p, r)
<1>1. \A i \in Cids : responses'[p][i] = NoCall
  BY DEF DropEverything, NoChannels, Typed, TypeOK
<1>2. \A r \in Requests : outcome'[r] = IF r \in Waiting(p) THEN "cancelled" ELSE outcome[r]
  BY DEF DropEverything
<1>3. ASSUME NEW i \in Cids, responses[p][i] # NoCall
      PROVE  outcome'[responses[p][i]] = "cancelled"
  BY <1>2, <1>3 DEF Waiting, Typed, TypeOK, Requests
<1>4. ASSUME NEW r \in Requests, outcome'[r] # outcome[r] PROVE Advances(p, r)
  <2>1. r \in Waiting(p) /\ outcome'[r] = "cancelled"
    BY <1>2, <1>4
  <2>2. PICK i \in Cids : responses[p][i] = r
    BY <2>1 DEF Waiting
  <2>3. MapEntry(p, i) /\ r # NoCall
    BY <2>2 DEF Requesting, AllMapped
  <2> QED
    BY <1>1, <2>1, <2>2, <2>3 DEF MapEntry, Advances, Final
<1> QED
  BY <1>1, <1>3, <1>4

(* call.rs, wire_format.rs and the rest of src/peer/: what becomes of a    *)
(* request is decided where it is, and only once.                          *)
LEMMA OutcomeStep ==
  ASSUME Typed, Requesting, NEW p \in Peers, PeerStep(p) \/ UserStep(p), NEW r \in Requests,
         outcome'[r] # outcome[r]
  PROVE  Advances(p, r)
<1> USE DEF Typed, TypeOK
<1>1. ASSUME NEW x, NEW o, Learn(x, o) PROVE r = x /\ outcome'[r] = o
  BY <1>1 DEF Learn
<1>2. /\ TrafficAt(p) /\ QueuedAt(p, r) /\ \A i \in Cids : MapEntry(p, i)
  BY DEF Requesting, Traffic, QueuedOnce, AllMapped
<1>3. ASSUME NEW w, NEW c, Close(p, c, w) PROVE Advances(p, r)
  BY <1>3, DropSettles DEF Close
<1>4. CASE HandleCloseConnection(p) \/ ErrorSentThenClose(p)
  BY <1>3, <1>4, ClosingSteps
<1>5. CASE GraceOver(p)
  BY <1>5, DropSettles DEF GraceOver
<1>6. CASE UserStep(p)
  <2>1. ASSUME NEW x \in Requests, UserCall(p, x) \/ UserSend(p, x)
        PROVE  Origin[r] = p /\ NewlyMade(r)
    BY <1>1, <2>1 DEF UserCall, UserSend, NewlyMade
  <2> QED
    BY <1>6, <2>1 DEF UserStep, UserClose, Advances
<1>7. CASE RefuseCall(p) \/ RefuseWireFormat(p)
  <2>1. Taken(p) /\ actor'[p].at # "write"
    BY <1>7 DEF RefuseCall, RefuseWireFormat, Receive, Taken, Idle
  <2>2. outcome'[r] = "failed"
    BY <1>1, <1>7 DEF RefuseCall, RefuseWireFormat
  <2>3. Asks(p, Head(mailbox[p]), r)
    BY <1>1, <1>7 DEF RefuseCall, RefuseWireFormat, Receive, Asks
  <2>4. Head(mailbox[p]) = mailbox[p][1] /\ 1 \in DOMAIN mailbox[p]
    BY <2>1, HeadOfMailbox
  <2>5. outcome[r] = "queued" /\ Origin[r] = p
    BY <1>2, <2>3, <2>4 DEF QueuedAt, TrafficAt, Meant, Asks
  <2> QED
    BY <2>1, <2>2, <2>3, <2>5 DEF Advances, Final
<1>8. ASSUME NEW cid \in Cids, NEW x, NEW o \in Final, responses[p][cid] # NoCall,
             Resolve(p, cid, x, o)
      PROVE  Advances(p, r)
  BY <1>8, ResolveSettles
<1>9. {"timeout", "ok", "error", "failed", "sent", "cancelled"} \subseteq Final
  BY DEF Final
<1>10. CASE HandleTimeout(p)
  <2>1. Head(mailbox[p]).timer.cid \in Cids
    BY <1>10, ReceiveType, MessageFields DEF HandleTimeout
  <2> QED
    BY <1>8, <1>9, <1>10, <2>1 DEF HandleTimeout
<1>11. CASE IncomingResponse(p) \/ IncomingError(p)
  <2>1. Incoming(p) \in Frames
    BY <1>11, ReceiveType, MessageFields DEF IncomingResponse, IncomingError, ReceiveFrame,
       Incoming, Items
  <2>2. Incoming(p).cid \in Cids
    BY <2>1 DEF Frames
  <2> QED
    BY <1>8, <1>9, <1>11, <2>2 DEF IncomingResponse, IncomingError
<1>12. CASE Handle(p) /\ ~HandleCloseConnection(p) /\ ~RefuseCall(p) /\ ~RefuseWireFormat(p)
            /\ ~HandleTimeout(p) /\ ~IncomingResponse(p) /\ ~IncomingError(p)
  BY <1>12 DEF Handle, HandleCall, HandleWireFormat, HandleCallResponse, DropCallResponse,
     HandleRequestError, IgnoreIncoming, IncomingFailure, IncomingSend, IncomingCall
<1>13. CASE Resume(p) /\ ~ErrorSentThenClose(p)
  <2>1. /\ actor[p].at = "write" /\ actor'[p].at # "write" /\ ~Taken(p)
        /\ ToBeWritten(p, actor[p].frame, actor[p].then)
    BY <1>2, <1>13 DEF Resume, CallSent, CallSentNoTimer, FrameSent, ResponseSent, ErrorSent,
       WriteFails, WritingFor, Await, Idle, Taken, TrafficAt
  <2>2. ASSUME r = actor[p].frame.req, Origin[r] = p,
               outcome'[r] \in Final \/ CallSent(p)
        PROVE  Advances(p, r)
    BY <1>2, <2>1, <2>2 DEF Advances, QueuedAt, Makes
  <2>3. CASE FrameSent(p) \/ WriteFails(p)
    BY <1>1, <1>9, <2>2, <2>3 DEF FrameSent, WriteFails
  <2>4. actor[p].then = "call" => Origin[actor[p].frame.req] = p
    BY <2>1 DEF ToBeWritten, Own
  <2>5. CASE CallSentNoTimer(p)
    BY <1>1, <1>9, <2>2, <2>4, <2>5 DEF CallSentNoTimer, WritingFor
  <2>6. CASE CallSent(p)
    <3>1. CASE r = actor[p].frame.req
      BY <2>2, <2>4, <2>6, <3>1 DEF CallSent, WritingFor
    <3>2. CASE r # actor[p].frame.req
      <4>1. actor[p].frame \in Frames
        <5>1. actor[p] \in Actors
          OBVIOUS
        <5> QED
          BY <2>1, <5>1 DEF Actors, Idle, InGrace
      <4>2. PICK cid \in Cids : cid = actor[p].frame.cid
        BY <4>1 DEF Frames
      <4>3. r = responses[p][cid] /\ outcome'[r] = "cancelled"
        BY <2>6, <3>2, <4>2 DEF CallSent
      <4>4. responses'[p][cid] = actor[p].frame.req
        BY <2>6, <4>2 DEF CallSent
      <4>5. r # NoCall
        BY DEF Requests
      <4> QED
        BY <1>2, <1>9, <3>2, <4>3, <4>4, <4>5 DEF Advances, MapEntry
    <3> QED
      BY <3>1, <3>2
  <2> QED
    BY <1>13, <2>3, <2>5, <2>6 DEF Resume, ResponseSent, ErrorSent
<1>14. CASE ListenerStep(p) \/ DeliverResult(p)
            \/ (\E t \in requests[p] : Serve(p, t) \/ Collect(p, t))
            \/ (\E t \in timers[p] : TimerFires(p, t))
  BY <1>14 DEF ListenerStep, ListenNext, PassGate, ListenSend, ListenEnd, Serve, Collect,
     DeliverResult, TimerFires
<1> QED
  BY <1>4, <1>5, <1>6, <1>7, <1>10, <1>11, <1>12, <1>13, <1>14 DEF PeerStep, ActorStep

(* call.rs: a handler that writes a request has just taken the message     *)
(* that makes it.                                                          *)
LEMMA MakingStarts ==
  ASSUME Typed, Traffic, NEW p \in Peers, PeerStep(p) \/ UserStep(p), NEW r, Makes(p, r)'
  PROVE  \/ ~Taken(p) /\ Makes(p, r)
         \/ Taken(p) /\ Asks(p, Head(mailbox[p]), r)
<1>1. CASE ~Taken(p)
  BY <1>1, ActorStepWrites DEF Makes
<1>2. CASE Taken(p)
  <2>1. PICK f, then : actor'[p] = Writing(f, then) /\ ToWrite(p, Head(mailbox[p]), f, then)
    BY <1>2, ActorStepWrites DEF Makes
  <2>2. f.req = r /\ Origin[r] = p
    BY <2>1 DEF Writing, Makes
  <2>3. PICK m \in Messages : m = Head(mailbox[p]) /\ Meant(p, m)
    BY <1>2, HeadOfMailbox DEF Traffic, TrafficAt
  <2>4. m.type \notin {"CallResponse", "RequestError", "Incoming"}
    <3>1. ToBeWritten(p, f, then)
      BY <2>1, <2>3, WritesMeant
    <3>2. m.type = "CallResponse" => Answers(f)
      BY <2>1, <2>3 DEF ToWrite, Meant
    <3>3. m.type \in {"RequestError", "Incoming"} => Answers(f)
      BY <2>1, <2>3 DEF ToWrite, Answers, ErrorFrame
    <3> QED
      BY <2>2, <3>1, <3>2, <3>3 DEF ToBeWritten, Own
  <2>5. m.type = "Call" => m.req = r
    BY <2>1, <2>2, <2>3 DEF ToWrite, RequestFrame
  <2>6. m.type = "WireFormat" => m.frame.req = r
    BY <2>1, <2>2, <2>3 DEF ToWrite
  <2>7. Asks(p, m, r)
    BY <2>1, <2>2, <2>3, <2>4, <2>5, <2>6 DEF Asks, ToWrite
  <2> QED
    BY <1>2, <2>3, <2>7
<1> QED
  BY <1>1, <1>2

(* ... and only its maker puts a request into the mailbox.                 *)
LEMMA ArrivalsAsk ==
  ASSUME Typed, Traffic, NEW p \in Peers, NEW m, Arrives(p, m), NEW r, Asks(p, m, r)
  PROVE  NewlyMade(r)
<1>1. ASSUME results[p].at = "send", m = results[p].msg PROVE FALSE
  <2>1. Returned(p, m)
    BY <1>1 DEF Traffic, TrafficAt
  <2>2. results[p] \in Collectors
    BY DEF Typed, TypeOK
  <2>3. m \in Results
    BY <1>1, <2>2 DEF Collectors
  <2>4. m.type # "Call"
    BY <2>3 DEF Results
  <2> QED
    BY <2>1, <2>4 DEF Asks, Returned, Meant, Own
<1> QED
  BY <1>1, MadeFrames DEF Arrives, Asks, IncomingMsg, CloseMsg, TimeoutMsg, CallMsg,
     WireFormatMsg, RequestFrame

(* Once in one place: no request is written twice, or after its maker was  *)
(* told what became of it.                                                 *)
LEMMA QueuedKept ==
  ASSUME Typed, Requesting, NEW p \in Peers, PeerStep(p) \/ UserStep(p)
  PROVE  QueuedOnce'
<1> SUFFICES ASSUME NEW q \in Peers, NEW r \in Requests PROVE QueuedAt(q, r)'
  BY DEF QueuedOnce
<1>1. QueuedAt(q, r) /\ Traffic /\ TrafficAt(p) /\ TrafficAt(q)
  BY DEF Requesting, QueuedOnce, Traffic
<1>2. outcome'[r] = outcome[r] \/ Advances(p, r)
  BY OutcomeStep
<1>3. CASE q # p
  <2>1. mailbox'[q] = mailbox[q] /\ actor'[q] = actor[q]
    BY <1>3, OthersUntouched DEF OthersKept
  <2>2. CASE Origin[r] = q
    BY <1>1, <1>2, <1>3, <2>1, <2>2 DEF QueuedAt, Makes, Advances
  <2>3. CASE Origin[r] # q
    <3>1. ~Makes(q, r)'
      BY <2>3 DEF Makes
    <3>2. \A j \in DOMAIN mailbox[q] : ~Asks(q, mailbox[q][j], r)
      BY <1>1, <2>3 DEF TrafficAt, Meant, Asks
    <3> QED
      BY <2>1, <3>1, <3>2 DEF QueuedAt
  <2> QED
    BY <2>2, <2>3
<1>4. CASE q = p /\ Taken(p)
  <2>1. /\ Head(mailbox[p]) = mailbox[p][1] /\ 1 \in DOMAIN mailbox[p]
        /\ \A i \in DOMAIN mailbox'[p] : /\ i \in Nat /\ i + 1 \in DOMAIN mailbox[p]
                                         /\ mailbox'[p][i] = mailbox[p][i + 1]
    BY <1>4, HeadOfMailbox
  <2>2. 0 \notin DOMAIN mailbox[p] /\ 0 \notin DOMAIN mailbox'[p]
    BY <1>4 DEF Taken, Typed, TypeOK
  <2>3. Makes(p, r)' => Asks(p, Head(mailbox[p]), r)
    BY <1>1, <1>4, MakingStarts
  <2>4. ~Makes(p, r)
    BY <1>4 DEF Taken, Makes, Idle
  <2>5. ASSUME NEW i \in DOMAIN mailbox'[p], Asks(p, mailbox'[p][i], r)
        PROVE  /\ ~Asks(p, Head(mailbox[p]), r) /\ outcome[r] = "queued"
               /\ \A j \in DOMAIN mailbox'[p] : Asks(p, mailbox'[p][j], r) => i = j
    <3>1. i \in Nat /\ i + 1 \in DOMAIN mailbox[p] /\ Asks(p, mailbox[p][i + 1], r)
      BY <2>1, <2>5
    <3>2. \A j \in DOMAIN mailbox[p] : Asks(p, mailbox[p][j], r) => i + 1 = j
      BY <1>1, <1>4, <3>1 DEF QueuedAt
    <3>3. i # 0
      BY <2>2
    <3>4. ~Asks(p, Head(mailbox[p]), r)
      BY <2>1, <3>1, <3>2, <3>3
    <3>5. ASSUME NEW j \in DOMAIN mailbox'[p], Asks(p, mailbox'[p][j], r) PROVE i = j
      <4>1. j \in Nat /\ j + 1 \in DOMAIN mailbox[p] /\ Asks(p, mailbox[p][j + 1], r)
        BY <2>1, <3>5
      <4>2. i + 1 = j + 1
        BY <3>2, <4>1
      <4> QED
        BY <3>1, <4>1, <4>2
    <3> QED
      BY <1>1, <1>4, <3>1, <3>4, <3>5 DEF QueuedAt
  <2>6. outcome[r] = "queued" /\ ~Asks(p, Head(mailbox[p]), r) => outcome'[r] = "queued"
    BY <1>2, <2>4 DEF Advances, NewlyMade
  <2>7. Makes(p, r)' => outcome'[r] = "queued"
    <3> SUFFICES ASSUME Makes(p, r)' PROVE outcome'[r] = "queued"
      OBVIOUS
    <3>1. outcome[r] = "queued"
      BY <1>1, <1>4, <2>1, <2>3 DEF QueuedAt
    <3>2. actor'[p].at = "write"
      BY DEF Makes
    <3> QED
      BY <1>2, <2>4, <3>1, <3>2 DEF Advances, NewlyMade
  <2> QED
    BY <1>4, <2>3, <2>5, <2>6, <2>7 DEF QueuedAt
<1>5. CASE q = p /\ ~Taken(p)
  <2>1. Makes(p, r)' => Makes(p, r) /\ actor'[p].at = "write"
    BY <1>1, <1>5, MakingStarts DEF Makes
  <2>2. outcome[r] = "queued" /\ outcome'[r] # "queued" => Makes(p, r) /\ actor'[p].at # "write"
    BY <1>2, <1>5 DEF Advances, NewlyMade
  <2>3. CASE mailbox'[p] = mailbox[p]
    BY <1>1, <1>5, <2>1, <2>2, <2>3 DEF QueuedAt
  <2>4. ASSUME NEW m \in Messages, Arrives(p, m), mailbox'[p] = Append(mailbox[p], m)
        PROVE  QueuedAt(p, r)'
    <3>1. PICK s \in Seq(Messages) : s = mailbox[p]
      BY DEF Typed, TypeOK
    <3>2. \A i \in DOMAIN Append(s, m) :
             \/ i \in DOMAIN s /\ Append(s, m)[i] = s[i]
             \/ i = Len(s) + 1 /\ i \notin DOMAIN s /\ Append(s, m)[i] = m
      BY PutInto
    <3>3. CASE ~Asks(p, m, r)
      <4>1. \A i \in DOMAIN mailbox'[p] : Asks(p, mailbox'[p][i], r) =>
               i \in DOMAIN mailbox[p] /\ mailbox'[p][i] = mailbox[p][i]
        BY <2>4, <3>1, <3>2, <3>3
      <4> QED
        BY <1>1, <1>5, <2>1, <2>2, <4>1 DEF QueuedAt
    <3>4. CASE Asks(p, m, r)
      <4>1. NewlyMade(r)
        BY <1>1, <2>4, <3>4, ArrivalsAsk
      <4>2. ~Makes(p, r) /\ \A i \in DOMAIN mailbox[p] : ~Asks(p, mailbox[p][i], r)
        BY <1>1, <1>5, <4>1 DEF QueuedAt, NewlyMade
      <4>3. \A i \in DOMAIN mailbox'[p] : Asks(p, mailbox'[p][i], r) => i = Len(s) + 1
        BY <2>4, <3>1, <3>2, <4>2
      <4> QED
        BY <2>1, <4>1, <4>2, <4>3 DEF QueuedAt, NewlyMade
    <3> QED
      BY <3>3, <3>4
  <2> QED
    BY <1>5, <2>3, <2>4, MailboxStep
<1> QED
  BY <1>3, <1>4, <1>5

(* Peer::responses: an id gets a channel from Handler<Call> only, and      *)
(* loses it to an answer, to a timeout, to a later call or to the end of   *)
(* the peer.                                                               *)
LEMMA MapStep ==
  ASSUME Typed, Requesting, NEW p \in Peers, PeerStep(p) \/ UserStep(p), NEW i \in Cids
  PROVE  \/ responses'[p][i] = responses[p][i]
         \/ /\ responses'[p][i] = NoCall
            /\ outcome'[responses[p][i]] \in Final
         \/ /\ CallSent(p) /\ i = actor[p].frame.cid /\ responses'[p][i] = actor[p].frame.req
            /\ responses[p][i] # NoCall => \/ responses[p][i] = actor[p].frame.req
                                           \/ outcome'[responses[p][i]] \in Final
<1> USE DEF Typed, TypeOK
<1>1. CASE UNCHANGED responses
  BY <1>1
<1>2. ASSUME NEW w, DropEverything(p, w), responses'[p][i] # responses[p][i]
      PROVE  responses'[p][i] = NoCall /\ outcome'[responses[p][i]] \in Final
  BY <1>2, DropSettles DEF Final
<1>3. ASSUME NEW w, NEW r, Close(p, r, w), responses'[p][i] # responses[p][i]
      PROVE  responses'[p][i] = NoCall /\ outcome'[responses[p][i]] \in Final
  BY <1>2, <1>3 DEF Close
<1>4. CASE HandleCloseConnection(p) \/ ErrorSentThenClose(p)
  BY <1>3, <1>4, ClosingSteps
<1>5. CASE GraceOver(p)
  BY <1>2, <1>5 DEF GraceOver
<1>6. ASSUME NEW cid \in Cids, NEW x, NEW o \in Final, responses[p][cid] # NoCall,
             Resolve(p, cid, x, o), responses'[p][i] # responses[p][i]
      PROVE  responses'[p][i] = NoCall /\ outcome'[responses[p][i]] \in Final
  BY <1>6, ResolveSettles
<1>7. {"timeout", "ok", "error"} \subseteq Final
  BY DEF Final
<1>8. CASE HandleTimeout(p)
  <2>1. Head(mailbox[p]).timer.cid \in Cids
    BY <1>8, ReceiveType, MessageFields DEF HandleTimeout
  <2> QED
    BY <1>6, <1>7, <1>8, <2>1 DEF HandleTimeout
<1>9. CASE IncomingResponse(p) \/ IncomingError(p)
  <2>1. Incoming(p) \in Frames
    BY <1>9, ReceiveType, MessageFields DEF IncomingResponse, IncomingError, ReceiveFrame,
       Incoming, Items
  <2>2. Incoming(p).cid \in Cids
    BY <2>1 DEF Frames
  <2> QED
    BY <1>6, <1>7, <1>9, <2>2 DEF IncomingResponse, IncomingError
<1>10. CASE CallSent(p)
  <2>1. responses'[p][i] = responses[p][i] \/ i = actor[p].frame.cid
    BY <1>10 DEF CallSent
  <2>2. CASE i = actor[p].frame.cid
    <3>1. responses'[p][i] = actor[p].frame.req
      BY <1>10, <2>2 DEF CallSent
    <3>2. responses[p][i] # NoCall /\ responses[p][i] # actor[p].frame.req =>
             outcome'[responses[p][i]] = "cancelled"
      <4>1. responses[p][i] # NoCall => responses[p][i] \in Requests
        BY DEF Requests
      <4> QED
        BY <1>10, <2>2, <4>1 DEF CallSent
    <3> QED
      BY <1>10, <2>2, <3>1, <3>2 DEF Final
  <2> QED
    BY <2>1, <2>2
<1>11. CASE Handle(p) /\ ~HandleCloseConnection(p) /\ ~HandleTimeout(p)
            /\ ~IncomingResponse(p) /\ ~IncomingError(p)
  BY <1>1, <1>11 DEF Handle, HandleCall, RefuseCall, HandleWireFormat, RefuseWireFormat,
     HandleCallResponse, DropCallResponse, HandleRequestError, IgnoreIncoming,
     IncomingFailure, IncomingSend, IncomingCall
<1>12. CASE Resume(p) /\ ~ErrorSentThenClose(p) /\ ~CallSent(p)
  BY <1>1, <1>12 DEF Resume, CallSentNoTimer, FrameSent, ResponseSent, ErrorSent, WriteFails
<1>13. CASE ListenerStep(p) \/ DeliverResult(p) \/ UserStep(p)
            \/ (\E t \in requests[p] : Serve(p, t) \/ Collect(p, t))
            \/ (\E t \in timers[p] : TimerFires(p, t))
  BY <1>1, <1>13 DEF ListenerStep, ListenNext, PassGate, ListenSend, ListenEnd, Serve,
     Collect, DeliverResult, TimerFires, UserStep, UserCall, UserSend, UserClose, actorVars
<1> QED
  BY <1>4, <1>5, <1>8, <1>9, <1>10, <1>11, <1>12, <1>13 DEF PeerStep, ActorStep

(* call.rs: what CallSent makes of the call it has written.                *)
LEMMA CallIsOut ==
  ASSUME Typed, Requesting, NEW p \in Peers, CallSent(p)
  PROVE  LET f == actor[p].frame
         IN  /\ f.cid \in Cids /\ f.cid # NullCid /\ f.req \in Calls
             /\ Origin[f.req] = p /\ outcome[f.req] = "queued"
             /\ outcome'[f.req] = "pending" /\ responses'[p][f.cid] = f.req
             /\ [cid |-> f.cid, call |-> f.req] \in timers'[p]
<1> USE DEF Typed, TypeOK
<1>1. PICK f : f = actor[p].frame
  OBVIOUS
<1>2. actor[p].at = "write" /\ actor[p].then = "call" /\ actor[p] \in Actors
  BY DEF CallSent, WritingFor
<1>3. f \in Frames /\ f.cid \in Cids /\ f.req \in Calls
  BY <1>1, <1>2 DEF Actors, Idle, InGrace, Frames, CallsWritten, WritingFor
<1>4. f.cid # NullCid /\ Origin[f.req] = p
  BY <1>1, <1>2 DEF Requesting, Traffic, TrafficAt, ToBeWritten, Own
<1>5. QueuedAt(p, f.req) /\ Makes(p, f.req)
  BY <1>1, <1>2, <1>3, <1>4 DEF Requesting, QueuedOnce, Requests, Makes
<1>6. outcome'[f.req] = "pending"
  BY <1>1, <1>3 DEF CallSent, Requests
<1>7. responses'[p][f.cid] = f.req /\ [cid |-> f.cid, call |-> f.req] \in timers'[p]
  BY <1>1, <1>3 DEF CallSent
<1> QED
  BY <1>1, <1>3, <1>4, <1>5, <1>6, <1>7 DEF QueuedAt

(* The map stays true.                                                     *)
LEMMA MappedKept ==
  ASSUME Typed, Requesting, NEW p \in Peers, PeerStep(p) \/ UserStep(p)
  PROVE  AllMapped'
<1> SUFFICES ASSUME NEW q \in Peers, NEW i \in Cids, responses'[q][i] # NoCall
             PROVE  MapEntry(q, i)'
  BY DEF AllMapped, MapEntry
<1>1. \A j \in Cids : MapEntry(q, j)
  BY DEF Requesting, AllMapped
<1>2. responses'[q][i] \in Requests
  <2>1. Typed'
    BY PeerStepType, UserType
  <2> QED
    BY <2>1 DEF Typed, TypeOK, Requests
<1>3. CASE q # p
  <2>1. responses'[q] = responses[q]
    BY <1>3, OthersUntouched DEF OthersKept
  <2>2. outcome'[responses[q][i]] = outcome[responses[q][i]]
    BY <1>1, <1>2, <1>3, <2>1, OutcomeStep DEF MapEntry, Advances
  <2> QED
    BY <1>1, <2>1, <2>2 DEF MapEntry
<1>4. CASE q = p /\ responses'[p][i] = responses[p][i]
  <2>1. PICK c \in Requests : c = responses[p][i]
    BY <1>2, <1>4
  <2>2. MapEntry(p, i) /\ c # NoCall /\ outcome[c] = "pending"
    BY <1>1, <1>4, <2>1 DEF MapEntry
  <2>3. outcome'[c] = "pending"
    BY <1>4, <2>1, <2>2, OutcomeStep DEF Advances, NewlyMade, MapEntry
  <2>4. ASSUME NEW j \in Cids, responses'[p][j] = c PROVE i = j
    <3>1. ASSUME CallSent(p), j = actor[p].frame.cid, responses'[p][j] = actor[p].frame.req
          PROVE  FALSE
      BY <2>2, <2>4, <3>1, CallIsOut
    <3> QED
      BY <2>1, <2>2, <2>4, <3>1, MapStep DEF MapEntry
  <2> QED
    BY <1>4, <2>1, <2>2, <2>3, <2>4 DEF MapEntry
<1>5. CASE q = p /\ responses'[p][i] # responses[p][i]
  <2>1. /\ CallSent(p) /\ i = actor[p].frame.cid /\ responses'[p][i] = actor[p].frame.req
    BY <1>5, MapStep
  <2>2. PICK c \in Requests : c = actor[p].frame.req
    BY <1>2, <1>5, <2>1
  <2>3. i # NullCid /\ Origin[c] = p /\ outcome[c] = "queued" /\ outcome'[c] = "pending"
    BY <2>1, <2>2, CallIsOut
  <2>4. ASSUME NEW j \in Cids, responses'[p][j] = c PROVE i = j
    <3>1. responses[p][j] # c
      BY <1>1, <1>5, <2>2, <2>3, <1>2, <2>1 DEF MapEntry
    <3> QED
      BY <1>5, <2>1, <2>2, <2>4, <3>1, MapStep
  <2> QED
    BY <1>5, <2>1, <2>2, <2>3, <2>4 DEF MapEntry
<1> QED
  BY <1>3, <1>4, <1>5

(* Where requests of a peer are, all together.                             *)
LEMMA RequestingKept ==
  ASSUME Typed, Requesting, NEW p \in Peers, PeerStep(p) \/ UserStep(p)
  PROVE  Requesting'
BY TrafficKept, QueuedKept, MappedKept DEF Requesting

-----------------------------------------------------------------------------
(* Timers.                                                                 *)

(* call.rs:114-123: who waits, waits in the map, and a timer runs for it.  *)
PendingAt(p, c) == Origin[c] = p /\ outcome[c] = "pending" =>
  \E i \in Cids : responses[p][i] = c /\ Timed(p, [cid |-> i, call |-> c])

AllTimed == \A p \in Peers : \A c \in Calls : PendingAt(p, c)

(* timeout.rs: a timer runs until it fires, its message stays until it is  *)
(* handled, and both end with the peer.                                    *)
LEMMA TimerStep ==
  ASSUME Typed, Requesting, NEW p \in Peers, PeerStep(p) \/ UserStep(p),
         NEW t \in Timers, Timed(p, t)
  PROVE  \/ Timed(p, t)'
         \/ Taken(p) /\ Head(mailbox[p]) = TimeoutMsg(t) /\ Handle(p)
         \/ \A i \in Cids : responses[p][i] # NoCall => outcome'[responses[p][i]] = "cancelled"
<1>1. mailbox[p] \in Seq(Messages)
  BY DEF Typed, TypeOK
<1>2. CASE InMailbox(p, TimeoutMsg(t))
  <2>1. PICK i \in DOMAIN mailbox[p] : mailbox[p][i] = TimeoutMsg(t)
    BY <1>2 DEF InMailbox
  <2>2. CASE mailbox'[p] = mailbox[p]
    BY <2>1, <2>2 DEF Timed, InMailbox
  <2>3. ASSUME NEW m \in Messages, mailbox'[p] = Append(mailbox[p], m) PROVE Timed(p, t)'
    <3>1. i \in DOMAIN mailbox'[p] /\ mailbox'[p][i] = TimeoutMsg(t)
      BY <1>1, <2>1, <2>3
    <3> QED
      BY <3>1 DEF Timed, InMailbox
  <2>4. CASE Taken(p) /\ Handle(p)
    <3>1. CASE i = 1
      BY <2>1, <2>4, <3>1, HeadOfMailbox
    <3>2. CASE i # 1
      <4>1. i - 1 \in DOMAIN mailbox'[p] /\ mailbox'[p][i - 1] = TimeoutMsg(t)
        BY <1>1, <2>1, <2>4, <3>2 DEF Taken
      <4> QED
        BY <4>1 DEF Timed, InMailbox
    <3> QED
      BY <3>1, <3>2
  <2> QED
    BY <2>2, <2>3, <2>4, MailboxStep
<1>3. CASE t \in timers[p]
  <2>1. CASE t \in timers'[p]
    BY <2>1 DEF Timed
  <2>2. ASSUME NEW w, DropEverything(p, w)
        PROVE  \A i \in Cids : responses[p][i] # NoCall => outcome'[responses[p][i]] = "cancelled"
    BY <2>2, DropSettles
  <2>3. ASSUME NEW w, NEW r, Close(p, r, w)
        PROVE  \/ \A i \in Cids : responses[p][i] # NoCall => outcome'[responses[p][i]] = "cancelled"
               \/ UNCHANGED timers
    BY <2>2, <2>3 DEF Close, taskVars
  <2>4. CASE HandleCloseConnection(p) \/ ErrorSentThenClose(p)
    BY <1>3, <2>1, <2>3, <2>4, ClosingSteps
  <2>5. CASE GraceOver(p)
    BY <2>2, <2>5 DEF GraceOver
  <2>6. CASE CallSent(p)
    BY <1>3, <2>1, <2>6 DEF CallSent, Typed, TypeOK
  <2>7. CASE Handle(p) /\ ~HandleCloseConnection(p)
    BY <1>3, <2>1, <2>7 DEF Handle, HandleCall, RefuseCall, HandleWireFormat,
       RefuseWireFormat, HandleCallResponse, DropCallResponse, HandleRequestError,
       HandleTimeout, IgnoreIncoming, IncomingFailure, IncomingSend, IncomingCall,
       IncomingResponse, IncomingError, taskVars
  <2>8. CASE Resume(p) /\ ~ErrorSentThenClose(p) /\ ~CallSent(p)
    BY <1>3, <2>1, <2>8 DEF Resume, CallSentNoTimer, FrameSent, ResponseSent, ErrorSent,
       WriteFails, taskVars
  <2>9. CASE ListenerStep(p) \/ DeliverResult(p) \/ UserStep(p)
             \/ (\E u \in requests[p] : Serve(p, u) \/ Collect(p, u))
    BY <1>3, <2>1, <2>9 DEF ListenerStep, ListenNext, PassGate, ListenSend, ListenEnd, Serve,
       Collect, DeliverResult, UserStep, UserCall, UserSend, UserClose, taskVars
  <2>10. ASSUME NEW u \in timers[p], TimerFires(p, u) PROVE Timed(p, t)'
    <3>1. CASE u # t
      BY <1>3, <2>10, <3>1 DEF TimerFires, Timed, Typed, TypeOK
    <3>2. CASE u = t
      <4>1. mailbox'[p] = Append(mailbox[p], TimeoutMsg(t))
        BY <2>10, <3>2 DEF TimerFires, Post, Typed, TypeOK
      <4>2. PICK m \in Messages : m = TimeoutMsg(t)
        BY MessagesAreMessages
      <4>3. Len(mailbox[p]) + 1 \in DOMAIN mailbox'[p]
            /\ mailbox'[p][Len(mailbox[p]) + 1] = TimeoutMsg(t)
        BY <1>1, <4>1, <4>2
      <4> QED
        BY <4>3 DEF Timed, InMailbox
    <3> QED
      BY <3>1, <3>2
  <2> QED
    BY <2>4, <2>5, <2>6, <2>7, <2>8, <2>9, <2>10 DEF PeerStep, ActorStep
<1> QED
  BY <1>2, <1>3 DEF Timed

(* call.rs, timeout.rs, incoming.rs: every caller that waits still has a   *)
(* timer, or the message of one, that will end its wait.                   *)
LEMMA TimedKept ==
  ASSUME Typed, Requesting, AllTimed, NEW p \in Peers, PeerStep(p) \/ UserStep(p)
  PROVE  AllTimed'
<1> SUFFICES ASSUME NEW q \in Peers, NEW c \in Calls, Origin[c] = q, outcome'[c] = "pending"
             PROVE  PendingAt(q, c)'
  BY DEF AllTimed, PendingAt
<1>1. c \in Requests /\ c # NoCall /\ "pending" \notin Final
  BY DEF Requests, Final
<1>2. PendingAt(q, c)
  BY DEF AllTimed
<1>3. CASE q # p
  <2>1. outcome[c] = "pending"
    BY <1>1, <1>3, OutcomeStep DEF Advances
  <2>2. mailbox'[q] = mailbox[q] /\ timers'[q] = timers[q] /\ responses'[q] = responses[q]
    BY <1>3, OthersUntouched DEF OthersKept
  <2> QED
    BY <1>2, <2>1, <2>2 DEF PendingAt, Timed, InMailbox
<1>4. CASE q = p /\ outcome[c] # "pending"
  <2>1. CallSent(p) /\ c = actor[p].frame.req
    BY <1>1, <1>4, OutcomeStep DEF Advances, NewlyMade
  <2> QED
    <3>1. PICK i \in Cids : responses'[p][i] = c /\ [cid |-> i, call |-> c] \in timers'[p]
      BY <2>1, CallIsOut
    <3>2. Timed(p, [cid |-> i, call |-> c])'
      BY <3>1 DEF Timed
    <3> QED
      BY <1>4, <3>1, <3>2 DEF PendingAt
<1>5. CASE q = p /\ outcome[c] = "pending"
  <2>1. PICK i \in Cids : responses[p][i] = c /\ Timed(p, [cid |-> i, call |-> c])
    BY <1>2, <1>5 DEF PendingAt
  <2>2. PICK t \in Timers : t = [cid |-> i, call |-> c]
    BY DEF Timers
  <2>3. responses'[p][i] = c
    <3>1. CASE responses'[p][i] # c
      BY <1>1, <2>1, <3>1, MapStep
    <3> QED
      BY <3>1
  <2>4. ~(Taken(p) /\ Head(mailbox[p]) = TimeoutMsg(t) /\ Handle(p))
    <3> SUFFICES ASSUME Taken(p), Head(mailbox[p]) = TimeoutMsg(t), Handle(p) PROVE FALSE
      OBVIOUS
    <3>1. Head(mailbox[p]).type = "Timeout" /\ Head(mailbox[p]).timer.cid = i
          /\ Head(mailbox[p]).timer.call = c
      BY <2>2 DEF TimeoutMsg
    <3>2. HandleTimeout(p)
      BY <3>1 DEF Handle, HandleCall, RefuseCall, HandleWireFormat, RefuseWireFormat,
         HandleCallResponse, DropCallResponse, HandleRequestError, HandleCloseConnection,
         IgnoreIncoming, IncomingFailure, IncomingSend, IncomingCall, IncomingResponse,
         IncomingError, ReceiveFrame, Receive
    <3>3. Resolve(p, i, c, "timeout")
      BY <1>1, <2>1, <3>1, <3>2 DEF HandleTimeout
    <3>4. outcome'[c] \in Final
      BY <1>1, <2>1, <3>3, ResolveSettles DEF Final
    <3> QED
      BY <1>1, <3>4
  <2>5. Timed(p, t)'
    BY <1>1, <2>1, <2>2, <2>4, TimerStep
  <2> QED
    BY <1>5, <2>2, <2>3, <2>5 DEF PendingAt
<1> QED
  BY <1>3, <1>4, <1>5

(* What an observer of a peer is promised.                                 *)
LEMMA TimedMeans == Requesting /\ AllTimed => PendingCallsAreTimed
BY DEF Requesting, AllMapped, AllTimed, PendingAt, MapEntry, PendingCallsAreTimed

(* In the beginning nobody waits.                                          *)
LEMMA FirstRequesting == Init => Requesting /\ AllTimed
<1> SUFFICES ASSUME Init PROVE Requesting /\ AllTimed
  OBVIOUS
<1> USE DEF Init
<1>1. Traffic
  BY EndsOfPeer DEF Traffic, TrafficAt, Idle, Listening, Collecting
<1>2. QueuedOnce
  BY DEF QueuedOnce, QueuedAt, Makes, Idle
<1>3. AllMapped
  BY DEF AllMapped, MapEntry, NoChannels
<1>4. AllTimed
  BY DEF AllTimed, PendingAt, Requests
<1> QED
  BY <1>1, <1>2, <1>3, <1>4 DEF Requesting

(* A step in which no variable of a peer changes.                          *)
LEMMA NothingHappens ==
  ASSUME Requesting, AllTimed, UNCHANGED vars
  PROVE  Requesting' /\ AllTimed'
<1> USE DEF vars, actorVars, taskVars, wireVars
<1>1. Traffic'
  BY DEF Requesting, Traffic, TrafficAt
<1>2. QueuedOnce'
  BY DEF Requesting, QueuedOnce, QueuedAt, Makes
<1>3. AllMapped'
  BY DEF Requesting, AllMapped, MapEntry
<1>4. AllTimed'
  BY DEF AllTimed, PendingAt, Timed, InMailbox
<1> QED
  BY <1>1, <1>2, <1>3, <1>4 DEF Requesting

-----------------------------------------------------------------------------
(* Connection ids.  g gives each request the id it goes under, no id if it *)
(* is a send or has not been given one.  All that is ever said of a        *)
(* request, by either end, is said under that id.                          *)
Tagged(g, x) == x # WireErr =>
  /\ x.cid = g[x.req]
  /\ x.req \in Calls <=> x.cid # NullCid
  /\ Answers(x) => x.cid # NullCid

TaggedMsg(g, m) ==
  /\ m.type \in {"WireFormat", "CallResponse"} => Tagged(g, m.frame)
  /\ m.type = "RequestError" => m.cid = g[m.req] /\ (m.req \in Calls <=> m.cid # NullCid)
  /\ m.type = "Incoming" => Tagged(g, m.msg)
  /\ m.type = "Timeout" => m.timer.cid = g[m.timer.call] /\ m.timer.cid # NullCid

TaggedTask(g, t) == /\ Tagged(g, t.frame)
                    /\ t.state = "RelayedError" => t.frame.cid # NullCid

TaggedTimer(g, t) == t.cid = g[t.call] /\ t.cid # NullCid

LabelledAt(g, p) ==
  /\ \A i \in DOMAIN mailbox[p] : TaggedMsg(g, mailbox[p][i])
  /\ results[p].at = "send" => TaggedMsg(g, results[p].msg)
  /\ actor[p].at = "write" => Tagged(g, actor[p].frame)
  /\ listener[p].at \in {"gate", "send"} => Tagged(g, listener[p].msg)
  /\ \A t \in requests[p] : TaggedTask(g, t)
  /\ \A t \in timers[p] : TaggedTimer(g, t)
  /\ \A i \in Cids : responses[p][i] # NoCall => i = g[responses[p][i]]

Labels   == [Requests -> Cids]
Labelled(g) == /\ \A s \in Sends : g[s] = NullCid
               /\ \A p \in Peers : LabelledAt(g, p)
               /\ \A e \in Ends : \A i \in DOMAIN wire[e] : Tagged(g, wire[e][i])

(* wire_format.rs: frames made of a request and its id.                    *)
LEMMA TaggedFrames ==
  ASSUME NEW g \in Labels, NEW r \in Requests, NEW cid \in Cids, cid = g[r],
         r \in Calls <=> cid # NullCid
  PROVE  /\ Tagged(g, RequestFrame(r, cid))
         /\ cid # NullCid => Tagged(g, ResponseFrame(r, cid)) /\ Tagged(g, ErrorFrame(r, cid))
BY MadeFrames DEF Tagged, RequestFrame, ResponseFrame, ErrorFrame

(* incoming.rs, relay_map.rs: what a task returns goes under the id of its *)
(* request.                                                                *)
LEMMA TaggedResults ==
  ASSUME NEW g \in Labels, NEW t \in Tasks, TaggedTask(g, t), t.state # Running,
         NEW m \in ResultOf(t)
  PROVE  TaggedMsg(g, m)
<1>1. t.frame \in Frames /\ t.frame # WireErr
  BY DEF Tasks
<1>2. PICK f \in Frames : f = t.frame
  BY <1>1
<1>3. f.req \in Requests /\ f.cid \in Cids /\ Tagged(g, f) /\ f # WireErr
  BY <1>1, <1>2 DEF Frames, TaggedTask
<1>4. CASE m = CallResponseMsg(ResponseFrame(f.req, f.cid)) /\ Kind(f) = "IncomingCall"
  <2>1. Tagged(g, ResponseFrame(f.req, f.cid))
    BY <1>3, <1>4, KindsOfFrames, TaggedFrames DEF Tagged
  <2> QED
    BY <1>4, <2>1 DEF TaggedMsg, CallResponseMsg
<1>5. CASE m = WireFormatMsg(ErrorFrame(f.req, f.cid)) /\ t.state = "RelayedError"
  <2>1. Tagged(g, ErrorFrame(f.req, f.cid))
    BY <1>2, <1>3, <1>5, TaggedFrames DEF Tagged, TaggedTask
  <2> QED
    BY <1>5, <2>1 DEF TaggedMsg, WireFormatMsg
<1>6. CASE m = RequestErrorMsg(t.state, f)
  BY <1>3, <1>6 DEF TaggedMsg, RequestErrorMsg, Tagged
<1> QED
  BY <1>2, <1>4, <1>5, <1>6 DEF ResultOf

(* peer.rs: what arrives in the mailbox is under the id it was under.      *)
LEMMA TaggedArrivals ==
  ASSUME NEW g \in Labels, Labelled(g), NEW p \in Peers, NEW m, Arrives(p, m)
  PROVE  TaggedMsg(g, m)
<1>1. LabelledAt(g, p)
  BY DEF Labelled
<1>2. CASE listener[p].at = "send" /\ m = IncomingMsg(listener[p].msg)
  BY <1>1, <1>2 DEF LabelledAt, TaggedMsg, IncomingMsg
<1>3. CASE m \in {CloseMsg(TRUE), CloseMsg(FALSE)} \/ \E c : m = CallMsg(c)
  BY <1>3 DEF TaggedMsg, CloseMsg, CallMsg
<1>4. CASE results[p].at = "send" /\ m = results[p].msg
  BY <1>1, <1>4 DEF LabelledAt
<1>5. CASE \E t \in timers[p] : m = TimeoutMsg(t)
  BY <1>1, <1>5 DEF LabelledAt, TaggedTimer, TaggedMsg, TimeoutMsg
<1>6. ASSUME NEW r \in Sends, m = WireFormatMsg(RequestFrame(r, NullCid)) PROVE TaggedMsg(g, m)
  <2>1. r \in Requests /\ r \notin Calls /\ NullCid \in Cids
    BY DEF Requests, NullCid, Cids
  <2>2. Tagged(g, RequestFrame(r, NullCid))
    BY <2>1, TaggedFrames DEF Labelled
  <2> QED
    BY <1>6, <2>2 DEF TaggedMsg, WireFormatMsg
<1> QED
  BY <1>2, <1>3, <1>4, <1>5, <1>6 DEF Arrives

(* src/peer/: a handler writes under the id of what it has taken, a call   *)
(* under the one it has just given it.                                     *)
LEMMA TaggedWrites ==
  ASSUME Typed, NEW g \in Labels, NEW p \in Peers, NEW m \in Messages, TaggedMsg(g, m),
         m.type = "Call" => g[m.req] = FreshCid(counter[p]),
         NEW f, NEW then, ToWrite(p, m, f, then)
  PROVE  Tagged(g, f)
<1>1. CASE m.type = "Call"
  <2>1. m.req \in Requests /\ m.req \in Calls
    BY <1>1, MessageFields DEF Requests
  <2>2. counter[p] \in Cids
    BY DEF Typed, TypeOK
  <2>3. FreshCid(counter[p]) \in Cids /\ FreshCid(counter[p]) # NullCid
    BY <2>2, FreshIsNotNull, CidsAreClosed
  <2> QED
    BY <1>1, <2>1, <2>3, TaggedFrames DEF ToWrite
<1>2. CASE m.type = "WireFormat" \/ m.type = "CallResponse"
  BY <1>2 DEF ToWrite, TaggedMsg
<1>3. CASE m.type = "RequestError"
  <2>1. m.req \in Requests /\ m.cid \in Cids
    BY <1>3, MessageFields
  <2> QED
    BY <1>3, <2>1, TaggedFrames DEF ToWrite, TaggedMsg
<1>4. CASE m.type = "Incoming"
  <2>1. m.msg # WireErr /\ Kind(m.msg) = "IncomingCall" /\ m.msg \in Items
    BY <1>4, MessageFields DEF ToWrite
  <2>2. m.msg.req \in Requests /\ m.msg.cid \in Cids /\ m.msg.cid # NullCid
    BY <2>1, KindsOfFrames DEF Items, Frames
  <2> QED
    BY <1>4, <2>1, <2>2, TaggedFrames DEF ToWrite, TaggedMsg, Tagged
<1> QED
  BY <1>1, <1>2, <1>3, <1>4 DEF ToWrite

(* src/peer/: no step puts a request under another id.                     *)
LEMMA LabelledKept ==
  ASSUME Typed, Requesting, NEW g \in Labels, Labelled(g), NEW p \in Peers,
         PeerStep(p) \/ UserStep(p),
         HandleCall(p) => g[Head(mailbox[p]).req] = FreshCid(counter[p])
  PROVE  Labelled(g)'
<1>1. LabelledAt(g, p) /\ TrafficAt(p)
  BY DEF Labelled, Requesting, Traffic
<1>2. /\ mailbox[p] \in Seq(Messages) /\ wire \in [Ends -> Seq(Items)]
      /\ requests[p] \subseteq Tasks /\ actor[p] \in Actors
  BY DEF Typed, TypeOK, Items
<1>3. actor[p].at = "write" => actor[p].frame \in Frames /\ actor[p].frame \in Items
  BY <1>2 DEF Actors, Idle, InGrace, Items
<1>4. \A i \in DOMAIN mailbox'[p] : TaggedMsg(g, mailbox'[p][i])
  <2>1. CASE mailbox'[p] = mailbox[p]
    BY <1>1, <2>1 DEF LabelledAt
  <2>2. CASE Taken(p)
    BY <1>1, <2>2, HeadOfMailbox DEF LabelledAt
  <2>3. ASSUME NEW m \in Messages, Arrives(p, m), mailbox'[p] = Append(mailbox[p], m)
        PROVE  \A i \in DOMAIN mailbox'[p] : TaggedMsg(g, mailbox'[p][i])
    <3>1. PICK s \in Seq(Messages) : s = mailbox[p]
      BY <1>2
    <3>2. \A i \in DOMAIN Append(s, m) : (i \in DOMAIN s /\ Append(s, m)[i] = s[i]) \/ Append(s, m)[i] = m
      BY PutInto
    <3>3. TaggedMsg(g, m)
      BY <2>3, TaggedArrivals
    <3> QED
      BY <1>1, <2>3, <3>1, <3>2, <3>3 DEF LabelledAt
  <2> QED
    BY <2>1, <2>2, <2>3, MailboxStep
<1>5. results'[p].at = "send" => TaggedMsg(g, results'[p].msg)
  BY <1>1, <1>2, ResultsStep, TaggedResults DEF LabelledAt
<1>6. actor'[p].at = "write" => Tagged(g, actor'[p].frame)
  <2>1. ASSUME NEW f, NEW then, Taken(p), ToWrite(p, Head(mailbox[p]), f, then)
        PROVE  Tagged(g, f)
    <3>1. PICK m \in Messages : m = Head(mailbox[p]) /\ TaggedMsg(g, m)
      BY <1>1, <2>1, HeadOfMailbox DEF LabelledAt
    <3>2. ToWrite(p, m, f, then)
      BY <2>1, <3>1
    <3>3. m.type = "Call" => g[m.req] = FreshCid(counter[p])
      BY <3>1, <3>2 DEF ToWrite
    <3> QED
      BY <3>1, <3>2, <3>3, TaggedWrites
  <2>2. \A f, then : Writing(f, then).frame = f
    BY DEF Writing
  <2> QED
    BY <1>1, <2>1, <2>2, ActorStepWrites DEF LabelledAt
<1>7. listener'[p].at \in {"gate", "send"} => Tagged(g, listener'[p].msg)
  <2>1. wire[p] # <<>> => 1 \in DOMAIN wire[p] /\ Head(wire[p]) = wire[p][1]
    BY <1>2, EndsOfPeer, TakenFrom
  <2> QED
    BY <1>1, <2>1, ListenerSteps, EndsOfPeer DEF LabelledAt, Labelled
<1>8. ASSUME NEW t \in requests'[p] PROVE TaggedTask(g, t)
  <2>1. CASE t \in requests[p]
    BY <1>1, <2>1 DEF LabelledAt
  <2>2. ASSUME NEW u \in requests[p], u.frame = t.frame, t.state \in Processed(t.frame)
        PROVE  TaggedTask(g, t)
    <3>1. TaggedTask(g, u) /\ ~Answers(t.frame)
      BY <1>1, <2>2 DEF LabelledAt, TrafficAt
    <3>2. t.state = "RelayedError" => Kind(t.frame) # "IncomingSend"
      BY <2>2 DEF Processed
    <3> QED
      BY <2>2, <3>1, <3>2, KindsOfFrames DEF TaggedTask
  <2>3. CASE Taken(p) /\ Carries(Head(mailbox[p]), t.frame) /\ t.state = Running
    <3>1. TaggedMsg(g, Head(mailbox[p]))
      BY <1>1, <2>3, HeadOfMailbox DEF LabelledAt
    <3> QED
      BY <2>3, <3>1 DEF Carries, TaggedMsg, TaggedTask, Running
  <2> QED
    BY <1>8, <2>1, <2>2, <2>3, TaskSteps
<1>9. ASSUME NEW t \in timers'[p] PROVE TaggedTimer(g, t)
  <2>1. CASE t \in timers[p]
    BY <1>1, <2>1 DEF LabelledAt
  <2>2. CASE CallSent(p) /\ t = [cid |-> actor[p].frame.cid, call |-> actor[p].frame.req]
    <3>1. Tagged(g, actor[p].frame) /\ actor[p].frame # WireErr
      BY <1>1, <1>3, <2>2 DEF LabelledAt, CallSent, WritingFor
    <3>2. actor[p].frame.req \in Calls
      BY <2>2, CallIsOut
    <3> QED
      BY <2>2, <3>1, <3>2 DEF Tagged, TaggedTimer
  <2> QED
    BY <1>9, <2>1, <2>2, NewTimers
<1>10. ASSUME NEW i \in Cids, responses'[p][i] # NoCall PROVE i = g[responses'[p][i]]
  <2>1. CASE responses'[p][i] = responses[p][i]
    BY <1>1, <1>10, <2>1 DEF LabelledAt
  <2>2. CASE CallSent(p) /\ i = actor[p].frame.cid /\ responses'[p][i] = actor[p].frame.req
    <3>1. Tagged(g, actor[p].frame) /\ actor[p].frame # WireErr
      BY <1>1, <1>3, <2>2 DEF LabelledAt, CallSent, WritingFor
    <3> QED
      BY <2>2, <3>1 DEF Tagged
  <2> QED
    BY <1>10, <2>1, <2>2, MapStep
<1>11. ASSUME NEW e \in Ends PROVE \A i \in DOMAIN wire'[e] : Tagged(g, wire'[e][i])
  <2>1. PICK s \in Seq(Items) : s = wire[e]
    BY <1>2, <1>11
  <2>2. \A i \in DOMAIN s : Tagged(g, s[i])
    BY <1>11, <2>1 DEF Labelled
  <2>3. CASE wire'[e] = s \/ wire'[e] = <<>> \/ (s # <<>> /\ wire'[e] = Tail(s))
    <3>1. s # <<>> => \A i \in DOMAIN Tail(s) : i + 1 \in DOMAIN s /\ Tail(s)[i] = s[i + 1]
      BY TakenFrom
    <3> QED
      BY <2>2, <2>3, <3>1
  <2>4. ASSUME actor[p].at = "write", wire'[e] = Append(s, actor[p].frame)
        PROVE  \A i \in DOMAIN wire'[e] : Tagged(g, wire'[e][i])
    <3>1. PICK f \in Items : f = actor[p].frame /\ Tagged(g, f)
      BY <1>1, <1>3, <2>4 DEF LabelledAt
    <3>2. \A i \in DOMAIN Append(s, f) : (i \in DOMAIN s /\ Append(s, f)[i] = s[i]) \/ Append(s, f)[i] = f
      BY PutInto
    <3> QED
      BY <2>2, <2>4, <3>1, <3>2
  <2> QED
    BY <1>11, <2>1, <2>3, <2>4, WireStep
<1>12. LabelledAt(g, p)'
  BY <1>4, <1>5, <1>6, <1>7, <1>8, <1>9, <1>10 DEF LabelledAt
<1>13. ASSUME NEW q \in Peers \ {p} PROVE LabelledAt(g, q)'
  <2>1. /\ mailbox'[q] = mailbox[q] /\ results'[q] = results[q] /\ actor'[q] = actor[q]
        /\ listener'[q] = listener[q] /\ requests'[q] = requests[q]
        /\ timers'[q] = timers[q] /\ responses'[q] = responses[q]
    BY OthersUntouched DEF OthersKept
  <2>2. LabelledAt(g, q)
    BY DEF Labelled
  <2> QED
    BY <2>1, <2>2 DEF LabelledAt
<1> QED
  BY <1>11, <1>12, <1>13 DEF Labelled

(* call.rs: nothing has been said of a call before it is given an id.      *)
LEMMA Relabel ==
  ASSUME Typed, Requesting, NEW g \in Labels, Labelled(g), NEW c \in Calls,
         g[c] = NullCid, NEW k \in Cids
  PROVE  Labelled([g EXCEPT ![c] = k]) /\ [g EXCEPT ![c] = k] \in Labels
<1>1. PICK h \in Labels : h = [g EXCEPT ![c] = k]
  BY DEF Labels
<1>2. \A r \in Requests : r # c => h[r] = g[r]
  BY <1>1 DEF Labels
<1>3. ASSUME NEW x \in Items, Tagged(g, x) PROVE Tagged(h, x)
  BY <1>2, <1>3 DEF Tagged, Items, Frames
<1>4. ASSUME NEW m \in Messages, TaggedMsg(g, m) PROVE TaggedMsg(h, m)
  <2>1. m.type \in {"WireFormat", "CallResponse"} => Tagged(h, m.frame)
    BY <1>3, <1>4, MessageFields DEF TaggedMsg, Items
  <2>2. m.type = "Incoming" => Tagged(h, m.msg)
    BY <1>3, <1>4, MessageFields DEF TaggedMsg
  <2>3. m.type = "RequestError" => m.cid = h[m.req] /\ (m.req \in Calls <=> m.cid # NullCid)
    BY <1>2, <1>4, MessageFields DEF TaggedMsg
  <2>4. m.type = "Timeout" => m.timer.cid = h[m.timer.call] /\ m.timer.cid # NullCid
    BY <1>2, <1>4, MessageFields DEF TaggedMsg, Requests
  <2> QED
    BY <2>1, <2>2, <2>3, <2>4 DEF TaggedMsg
<1>5. ASSUME NEW p \in Peers PROVE LabelledAt(h, p)
  <2>1. LabelledAt(g, p)
    BY DEF Labelled
  <2>2. \A i \in DOMAIN mailbox[p] : TaggedMsg(h, mailbox[p][i])
    <3>1. mailbox[p] \in Seq(Messages)
      BY DEF Typed, TypeOK
    <3>2. \A i \in DOMAIN mailbox[p] : mailbox[p][i] \in Messages
      BY <3>1
    <3> QED
      BY <1>4, <2>1, <3>2 DEF LabelledAt
  <2>3. results[p].at = "send" => TaggedMsg(h, results[p].msg)
    <3>1. results[p] \in Collectors
      BY DEF Typed, TypeOK
    <3>2. results[p].at = "send" => results[p].msg \in Messages
      BY <3>1, MessagesAreMessages DEF Collectors
    <3> QED
      BY <1>4, <2>1, <3>2 DEF LabelledAt
  <2>4. actor[p].at = "write" => Tagged(h, actor[p].frame)
    <3>1. actor[p] \in Actors
      BY DEF Typed, TypeOK
    <3>2. actor[p].at = "write" => actor[p].frame \in Items
      BY <3>1 DEF Actors, Idle, InGrace, Items
    <3> QED
      BY <1>3, <2>1, <3>2 DEF LabelledAt
  <2>5. listener[p].at \in {"gate", "send"} => Tagged(h, listener[p].msg)
    <3>1. listener[p] \in Listeners
      BY DEF Typed, TypeOK
    <3>2. listener[p].at \in {"gate", "send"} => listener[p].msg \in Items
      BY <3>1 DEF Listeners, Items
    <3> QED
      BY <1>3, <2>1, <3>2 DEF LabelledAt
  <2>6. \A t \in requests[p] : TaggedTask(h, t)
    <3>1. \A t \in requests[p] : t.frame \in Items
      BY DEF Typed, TypeOK, Tasks, Items
    <3> QED
      BY <1>3, <2>1, <3>1 DEF LabelledAt, TaggedTask
  <2>7. \A t \in timers[p] : TaggedTimer(h, t)
    <3>1. \A t \in timers[p] : t.call \in Requests
      BY DEF Typed, TypeOK, Timers, Requests
    <3>2. \A t \in timers[p] : TaggedTimer(g, t)
      BY <2>1 DEF LabelledAt
    <3> QED
      BY <1>2, <3>1, <3>2 DEF TaggedTimer
  <2>8. ASSUME NEW i \in Cids, responses[p][i] # NoCall PROVE i = h[responses[p][i]]
    <3>1. responses[p][i] \in Requests /\ i = g[responses[p][i]]
      BY <2>1, <2>8 DEF LabelledAt, Typed, TypeOK, Requests
    <3>2. CASE responses[p][i] # c
      BY <1>2, <3>1, <3>2
    <3>3. i # NullCid
      BY <2>8 DEF Requesting, AllMapped, MapEntry
    <3> QED
      BY <3>1, <3>2, <3>3
  <2> QED
    BY <2>2, <2>3, <2>4, <2>5, <2>6, <2>7, <2>8 DEF LabelledAt
<1>6. ASSUME NEW e \in Ends, NEW i \in DOMAIN wire[e] PROVE Tagged(h, wire[e][i])
  <2>1. wire[e] \in Seq(Items)
    BY DEF Typed, TypeOK, Items
  <2>2. wire[e][i] \in Items
    BY <2>1
  <2> QED
    BY <1>3, <2>2 DEF Labelled
<1>7. \A s \in Sends : h[s] = NullCid
  BY <1>2 DEF Labelled, Requests
<1> QED
  BY <1>1, <1>5, <1>6, <1>7 DEF Labelled

(* A call whose handler has not run yet has no id.                         *)
Waits(p, c)  == outcome[c] = "unused" \/ InMailbox(p, CallMsg(c))
Ungiven(g)   == \A p \in Peers : \A c \in Calls : Origin[c] = p /\ Waits(p, c) => g[c] = NullCid

(* The ids do not wrap: there is one for each call, besides the null id.   *)
EnoughIds    == IsFiniteSet(Calls) /\ Cardinality(Calls) < CidValues

(* The counter is how many ids have been given: the calls of a peer go     *)
(* under different ids, all of them below it.                              *)
Given(g, p)  == {c \in Calls : Origin[c] = p /\ g[c] # NullCid}
Counted(g, p) ==
  /\ counter[p] = (Cardinality(Given(g, p)) + 1) % CidValues
  /\ \A c \in Given(g, p) : g[c] <= Cardinality(Given(g, p))
  /\ \A c, d \in Given(g, p) : g[c] = g[d] => c = d

Identified(g) == /\ Labelled(g) /\ Ungiven(g)
                 /\ EnoughIds => \A p \in Peers : Counted(g, p)

(* atomic: only Handler<Call> takes an id.                                 *)
LEMMA CounterStep ==
  ASSUME NEW p \in Peers, PeerStep(p) \/ UserStep(p)
  PROVE  HandleCall(p) \/ UNCHANGED counter
BY DEF PeerStep, ActorStep, Handle, Resume, RefuseCall, HandleWireFormat,
   RefuseWireFormat, HandleCallResponse, DropCallResponse, HandleRequestError,
   HandleTimeout, HandleCloseConnection, IgnoreIncoming, IncomingFailure, IncomingSend,
   IncomingCall, IncomingResponse, IncomingError, CallSent, CallSentNoTimer, FrameSent,
   ResponseSent, ErrorSent, ErrorSentThenClose, WriteFails, GraceOver, ListenerStep,
   ListenNext, PassGate, ListenSend, ListenEnd, Serve, Collect, DeliverResult, TimerFires,
   UserStep, UserCall, UserSend, UserClose, actorVars

(* address: a call waits for its handler from the time it is made, and no  *)
(* longer than until then.                                                 *)
LEMMA WaitsStep ==
  ASSUME Typed, Requesting, NEW p \in Peers, PeerStep(p) \/ UserStep(p), NEW q \in Peers,
         NEW c \in Calls, Origin[c] = q, Waits(q, c)'
  PROVE  Waits(q, c) /\ (HandleCall(p) => c # Head(mailbox[p]).req)
<1>1. c \in Requests /\ CallMsg(c).type = "Call" /\ CallMsg(c).req = c
  BY DEF Requests, CallMsg
<1>2. outcome'[c] = outcome[c] \/ Advances(p, c)
  BY <1>1, OutcomeStep
<1>3. QueuedAt(q, c) /\ QueuedAt(q, c)'
  BY <1>1, QueuedKept DEF Requesting, QueuedOnce
<1>4. mailbox[q] \in Seq(Messages)
  BY DEF Typed, TypeOK
<1>5. CASE outcome'[c] = "unused"
  <2>1. outcome[c] = "unused"
    BY <1>2, <1>5, CallIsOut DEF Advances, NewlyMade, Final
  <2>2. ASSUME HandleCall(p), c = Head(mailbox[p]).req PROVE FALSE
    <3>1. Taken(p) /\ Asks(p, Head(mailbox[p]), c)
      BY <2>2 DEF HandleCall, Receive, Taken, Asks, Typed, TypeOK
    <3>2. 1 \in DOMAIN mailbox[p] /\ Asks(p, mailbox[p][1], c)
      BY <3>1, HeadOfMailbox
    <3>3. QueuedAt(p, c)
      BY <1>1 DEF Requesting, QueuedOnce
    <3> QED
      BY <2>1, <3>2, <3>3 DEF QueuedAt
  <2> QED
    BY <2>1, <2>2 DEF Waits
<1>6. CASE InMailbox(q, CallMsg(c))'
  <2>1. PICK i \in DOMAIN mailbox'[q] : mailbox'[q][i] = CallMsg(c)
    BY <1>6 DEF InMailbox
  <2>2. ASSUME NEW m \in Messages, Arrives(q, m), mailbox'[q] = Append(mailbox[q], m)
        PROVE  Waits(q, c)
    <3>1. PICK s \in Seq(Messages) : s = mailbox[q]
      BY <1>4
    <3>2. (i \in DOMAIN s /\ Append(s, m)[i] = s[i]) \/ Append(s, m)[i] = m
      BY <2>1, <2>2, <3>1, PutInto
    <3>3. CASE m = CallMsg(c)
      <4>1. Asks(q, m, c)
        BY <1>1, <3>3 DEF Asks
      <4> QED
        BY <2>2, <4>1, ArrivalsAsk DEF Requesting, NewlyMade, Waits
    <3> QED
      BY <2>1, <2>2, <3>1, <3>2, <3>3 DEF Waits, InMailbox
  <2>3. ASSUME mailbox'[q] = mailbox[q] PROVE Waits(q, c)
    BY <2>1, <2>3 DEF Waits, InMailbox
  <2>4. ASSUME q = p, Taken(p) PROVE Waits(q, c)
    BY <2>1, <2>4, HeadOfMailbox DEF Waits, InMailbox
  <2>5. mailbox'[q] = mailbox[q] \/ (q = p /\ Taken(p))
        \/ (q = p /\ \E m \in Messages : Arrives(p, m) /\ mailbox'[p] = Append(mailbox[p], m))
    BY OthersUntouched, MailboxStep
  <2>6. ASSUME HandleCall(p), c = Head(mailbox[p]).req PROVE FALSE
    <3>1. Taken(p) /\ Asks(p, Head(mailbox[p]), c) /\ Head(mailbox[p]).type = "Call"
      BY <2>6 DEF HandleCall, Receive, Taken, Asks, Typed, TypeOK
    <3>2. TrafficAt(p) /\ 1 \in DOMAIN mailbox[p] /\ Head(mailbox[p]) = mailbox[p][1]
      BY <3>1, HeadOfMailbox DEF Requesting, Traffic
    <3>3. Origin[c] = p
      BY <2>6, <3>1, <3>2 DEF TrafficAt, Meant
    <3>4. actor'[p] = Writing(RequestFrame(c, FreshCid(counter[p])), "call")
      BY <2>6 DEF HandleCall, Await, Typed, TypeOK
    <3>5. Makes(p, c)'
      BY <1>1, <3>3, <3>4, MadeFrames DEF Makes, Writing
    <3>6. Asks(p, mailbox'[p][i], c)
      BY <1>1, <2>1, <3>3 DEF Asks
    <3> QED
      BY <1>3, <2>1, <3>3, <3>5, <3>6 DEF QueuedAt
  <2> QED
    BY <2>2, <2>3, <2>4, <2>5, <2>6
<1> QED
  BY <1>5, <1>6 DEF Waits

(* call.rs: ids are given in order, one to each call.                      *)
LEMMA IdentifiedKept ==
  ASSUME Typed, Requesting, NEW g \in Labels, Identified(g), NEW p \in Peers,
         PeerStep(p) \/ UserStep(p)
  PROVE  \E h \in Labels : /\ Identified(h)'
                           /\ \A r \in Requests : \/ h[r] = g[r]
                                                  \/ Origin[r] = p /\ g[r] = NullCid
<1>1. CASE ~HandleCall(p)
  <2>1. Labelled(g)'
    BY <1>1, LabelledKept DEF Identified
  <2>2. Ungiven(g)'
    BY <1>1, WaitsStep DEF Identified, Ungiven
  <2>3. UNCHANGED counter
    BY <1>1, CounterStep
  <2>4. Identified(g)'
    BY <2>1, <2>2, <2>3 DEF Identified, Counted
  <2> QED
    BY <2>4
<1>2. CASE HandleCall(p)
  <2> DEFINE n == counter[p]
  <2>1. n \in Cids /\ FreshCid(n) \in Cids /\ FreshCid(n) # NullCid
    BY CidsAreClosed, FreshIsNotNull DEF Typed, TypeOK
  <2>2. Taken(p) /\ Head(mailbox[p]).type = "Call"
    BY <1>2 DEF HandleCall, Receive, Taken, Typed, TypeOK
  <2>3. /\ Head(mailbox[p]) \in Messages /\ 1 \in DOMAIN mailbox[p]
        /\ Head(mailbox[p]) = mailbox[p][1]
    BY <2>2, HeadOfMailbox
  <2>4. PICK c \in Calls : c = Head(mailbox[p]).req
    BY <2>2, <2>3, MessageFields
  <2>5. Origin[c] = p
    BY <2>2, <2>3, <2>4 DEF Requesting, Traffic, TrafficAt, Meant
  <2>6. Head(mailbox[p]) = CallMsg(c)
    BY <2>2, <2>3, <2>4 DEF Messages, Results, CallMsg
  <2>7. g[c] = NullCid
    BY <2>3, <2>5, <2>6 DEF Identified, Ungiven, Waits, InMailbox
  <2>8. PICK h \in Labels : h = [g EXCEPT ![c] = FreshCid(n)]
    BY <2>1 DEF Labels
  <2>9. h[c] = FreshCid(n) /\ \A r \in Requests : r # c => h[r] = g[r]
    BY <2>8 DEF Labels, Requests
  <2>10. Labelled(h)
    BY <2>1, <2>7, <2>8, Relabel DEF Identified
  <2>11. Labelled(h)'
    BY <2>4, <2>9, <2>10, LabelledKept
  <2>12. Ungiven(h)'
    BY <1>2, <2>4, <2>9, WaitsStep DEF Identified, Ungiven, Requests
  <2>13. ASSUME EnoughIds, NEW q \in Peers PROVE Counted(h, q)'
    <3>1. Counted(g, q) /\ Counted(g, p)
      BY <2>13 DEF Identified
    <3>2. /\ counter'[p] = CounterAfter(n)
          /\ q # p => counter'[q] = counter[q]
      BY <1>2 DEF HandleCall, Typed, TypeOK
    <3>3. CASE q # p
      <4>1. Given(h, q) = Given(g, q) /\ \A d \in Given(g, q) : h[d] = g[d]
        BY <2>5, <2>9, <3>3 DEF Given, Requests
      <4> QED
        BY <3>1, <3>2, <3>3, <4>1 DEF Counted
    <3>4. CASE q = p
      <4> DEFINE G == Given(g, p)
                 k == Cardinality(G)
      <4>1. Given(h, p) = G \cup {c} /\ c \notin G /\ \A d \in G : h[d] = g[d]
        BY <2>1, <2>5, <2>7, <2>9 DEF Given, Requests
      <4>2. /\ G \cup {c} \subseteq Calls /\ IsFiniteSet(G) /\ k \in Nat
            /\ Cardinality(G \cup {c}) = k + 1 /\ k + 1 <= Cardinality(Calls)
            /\ Cardinality(Calls) \in Nat
        <5>1. G \cup {c} \subseteq Calls /\ IsFiniteSet(Calls)
          BY <2>13 DEF Given, EnoughIds
        <5>2. IsFiniteSet(G) /\ IsFiniteSet(G \cup {c}) /\ k \in Nat
              /\ Cardinality(Calls) \in Nat
          BY <5>1, FS_Subset, FS_CardinalityType
        <5>3. Cardinality(G \cup {c}) = k + 1
          BY <4>1, <5>2, FS_AddElement
        <5>4. Cardinality(G \cup {c}) <= Cardinality(Calls)
          BY <5>1, FS_Subset
        <5> QED
          BY <5>1, <5>2, <5>3, <5>4
      <4> HIDE DEF k, G
      <4>3. k + 1 < CidValues /\ n = (k + 1) % CidValues
        BY <2>13, <3>1, <4>2 DEF EnoughIds, Counted, k, G
      <4>4. n = k + 1
        BY <4>2, <4>3
      <4>5. FreshCid(n) = k + 1 /\ CounterAfter(n) = (k + 1 + 1) % CidValues
        BY <4>2, <4>4 DEF FreshCid, CounterAfter, FetchAdd, NullCid
      <4>6. \A d \in G : g[d] <= k /\ g[d] \in Nat
        BY <3>1, <4>2 DEF Counted, k, G, Labels, Cids, Given, Requests
      <4>7. \A d \in Given(h, p) : h[d] <= k + 1
        BY <2>9, <4>1, <4>2, <4>5, <4>6
      <4>8. ASSUME NEW d \in Given(h, p), NEW e \in Given(h, p), h[d] = h[e] PROVE d = e
        <5>1. \A d1, d2 \in G : g[d1] = g[d2] => d1 = d2
          BY <3>1 DEF Counted, G
        <5>2. \A d1 \in G : h[d1] # h[c]
          BY <2>9, <4>1, <4>2, <4>5, <4>6
        <5> QED
          BY <4>1, <4>8, <5>1, <5>2
      <4>9. Cardinality(Given(h, p)) = k + 1
        BY <4>1, <4>2
      <4> QED
        BY <3>2, <3>4, <4>5, <4>7, <4>8, <4>9 DEF Counted
    <3> QED
      BY <3>3, <3>4
  <2>14. Identified(h)'
    BY <2>11, <2>12, <2>13 DEF Identified
  <2> QED
    BY <2>5, <2>7, <2>9, <2>14
<1> QED
  BY <1>1, <1>2

(* incoming.rs:63-95, timeout.rs:33: the channel an answer or a timeout    *)
(* finds under its id is that of the call it is about.                     *)
LEMMA NothingCrosses ==
  ASSUME Typed, Requesting, EnoughIds, NEW g \in Labels, Identified(g), NEW p \in Peers,
         PeerStep(p) \/ UserStep(p), NEW r \in Requests, outcome'[r] = "wrong"
  PROVE  outcome[r] = "wrong"
<1> SUFFICES ASSUME outcome[r] # "wrong" PROVE FALSE
  OBVIOUS
<1> USE DEF Typed, TypeOK
<1>1. ASSUME NEW x, NEW o, Learn(x, o) PROVE o = "wrong"
  BY <1>1 DEF Learn
<1>2. ASSUME NEW w, DropEverything(p, w) PROVE FALSE
  BY <1>2 DEF DropEverything
<1>3. ASSUME NEW w, NEW c, Close(p, c, w) PROVE FALSE
  BY <1>2, <1>3 DEF Close
<1>4. ~HandleCloseConnection(p) /\ ~ErrorSentThenClose(p)
  BY <1>3, ClosingSteps
<1>5. ~GraceOver(p) /\ ~UserStep(p)
  BY <1>1, <1>2 DEF GraceOver, UserStep, UserCall, UserSend, UserClose
<1>6. ~Resume(p)
  BY <1>1, <1>4 DEF Resume, CallSent, CallSentNoTimer, FrameSent, ResponseSent, ErrorSent,
     WriteFails
<1>7. ASSUME NEW cid \in Cids, NEW c \in Requests, NEW o \in {"timeout", "ok", "error"},
             Resolve(p, cid, c, o), responses[p][cid] # NoCall,
             Origin[c] = p, cid = g[c]
      PROVE  FALSE
  <2>1. responses[p][cid] # c
    BY <1>1, <1>7 DEF Resolve
  <2>2. PICK d \in Calls : d = responses[p][cid]
    BY <1>7
  <2>3. cid = g[d] /\ cid # NullCid /\ Origin[d] = p
    BY <1>7, <2>2 DEF Identified, Labelled, LabelledAt, Requesting, AllMapped, MapEntry
  <2>4. c \in Calls
    BY <1>7, <2>3 DEF Identified, Labelled, Requests
  <2>5. c \in Given(g, p) /\ d \in Given(g, p)
    BY <1>7, <2>3, <2>4 DEF Given
  <2> QED
    BY <1>7, <2>1, <2>2, <2>3, <2>5 DEF Identified, Counted
<1>8. ASSUME Taken(p)
      PROVE  LET m == Head(mailbox[p])
             IN  Meant(p, m) /\ TaggedMsg(g, m) /\ m \in Messages
  BY <1>8, HeadOfMailbox DEF Requesting, Traffic, TrafficAt, Identified, Labelled, LabelledAt
<1>9. ASSUME HandleTimeout(p) PROVE FALSE
  <2>1. Taken(p) /\ Head(mailbox[p]).type = "Timeout"
    BY <1>9 DEF HandleTimeout, Receive, Taken
  <2>2. PICK t : t = Head(mailbox[p]).timer
    OBVIOUS
  <2>3. t.cid \in Cids /\ t.call \in Requests /\ Origin[t.call] = p /\ t.cid = g[t.call]
    BY <1>8, <2>1, <2>2, MessageFields DEF Meant, TaggedMsg, Requests
  <2> QED
    BY <1>7, <1>9, <2>2, <2>3 DEF HandleTimeout
<1>10. ASSUME IncomingResponse(p) \/ IncomingError(p) PROVE FALSE
  <2>1. /\ Taken(p) /\ Head(mailbox[p]).type = "Incoming" /\ Incoming(p) # WireErr
        /\ Kind(Incoming(p)) \in {"CallResponse", "ConnectionError"}
    BY <1>10 DEF IncomingResponse, IncomingError, ReceiveFrame, Receive, Taken
  <2>2. PICK f : f = Incoming(p)
    OBVIOUS
  <2>3. f \in Frames /\ Answers(f) /\ Inbound(p, f) /\ Tagged(g, f) /\ f # WireErr
    BY <1>8, <2>1, <2>2, MessageFields, KindsOfFrames DEF Incoming, Meant, TaggedMsg, Items
  <2>4. f.cid \in Cids /\ f.req \in Requests /\ Origin[f.req] = p /\ f.cid = g[f.req]
    BY <2>3 DEF Frames, Inbound, Tagged
  <2> QED
    BY <1>7, <1>10, <2>2, <2>4 DEF IncomingResponse, IncomingError
<1>11. ~Handle(p)
  BY <1>1, <1>4, <1>9, <1>10 DEF Handle, HandleCall, RefuseCall, HandleWireFormat,
     RefuseWireFormat, HandleCallResponse, DropCallResponse, HandleRequestError,
     IgnoreIncoming, IncomingFailure, IncomingSend, IncomingCall
<1>12. CASE ListenerStep(p) \/ DeliverResult(p)
            \/ (\E t \in requests[p] : Serve(p, t) \/ Collect(p, t))
            \/ (\E t \in timers[p] : TimerFires(p, t))
  BY <1>12 DEF ListenerStep, ListenNext, PassGate, ListenSend, ListenEnd, Serve, Collect,
     DeliverResult, TimerFires
<1> QED
  BY <1>5, <1>6, <1>11, <1>12 DEF PeerStep, ActorStep

(* Peer::new: at the start no peer has given an id.                        *)
LEMMA FirstIdentified ==
  ASSUME Init, NEW g \in Labels, \A s \in Sends : g[s] = NullCid,
         \A c \in Calls : Origin[c] \in Peers => g[c] = NullCid
  PROVE  Identified(g)
<1> USE DEF Init
<1>1. Labelled(g)
  <2>1. \A p \in Peers : LabelledAt(g, p)
    BY DEF LabelledAt, Collecting, Listening, Idle, NoChannels
  <2> QED
    BY <2>1 DEF Labelled
<1>2. Ungiven(g)
  BY DEF Ungiven
<1>3. ASSUME NEW p \in Peers PROVE Counted(g, p)
  <2>1. Given(g, p) = {}
    BY DEF Given
  <2>2. Cardinality({}) = 0 /\ (0 + 1) % CidValues = 1
    BY FS_EmptySet
  <2> QED
    BY <2>1, <2>2 DEF Counted
<1> QED
  BY <1>1, <1>2, <1>3 DEF Identified

-----------------------------------------------------------------------------
(* Requests of a program at the other end, from the connection through the *)
(* listener, the mailbox, a task, the collector and the mailbox again to   *)
(* the handler that writes the answer.                                     *)
Has(s, B)     == \E i \in DOMAIN s : s[i] \in B
OnlyOne(s, B) == \A i, j \in DOMAIN s : s[i] \in B /\ s[j] \in B => i = j

(* Sequences with at most one of a kind: when the first element is taken,  *)
(* and when one is added.                                                  *)
LEMMA OneTaken ==
  ASSUME NEW S, NEW B, NEW s \in Seq(S), s # <<>>, OnlyOne(s, B)
  PROVE  /\ OnlyOne(Tail(s), B)
         /\ Has(Tail(s), B) => Has(s, B)
         /\ Head(s) \in B => Has(s, B) /\ ~Has(Tail(s), B)
<1>1. /\ Head(s) = s[1] /\ 1 \in DOMAIN s
      /\ \A i \in DOMAIN Tail(s) : i \in Nat /\ i # 0 /\ i + 1 \in DOMAIN s /\ Tail(s)[i] = s[i + 1]
  OBVIOUS
<1>2. ASSUME NEW i \in DOMAIN Tail(s), NEW j \in DOMAIN Tail(s), Tail(s)[i] \in B,
             Tail(s)[j] \in B
      PROVE  i = j
  <2>1. i + 1 = j + 1
    BY <1>1, <1>2 DEF OnlyOne
  <2> QED
    BY <1>1, <2>1
<1>3. ASSUME NEW i \in DOMAIN Tail(s), Tail(s)[i] \in B, Head(s) \in B PROVE FALSE
  <2>1. i + 1 = 1
    BY <1>1, <1>3 DEF OnlyOne
  <2> QED
    BY <1>1, <2>1
<1> QED
  BY <1>1, <1>2, <1>3 DEF OnlyOne, Has

(* ... and what is added is the only one, if there was none.               *)
LEMMA OnePut ==
  ASSUME NEW S, NEW B, NEW s \in Seq(S), NEW m \in S, OnlyOne(s, B), m \in B => ~Has(s, B)
  PROVE  /\ OnlyOne(Append(s, m), B)
         /\ Has(Append(s, m), B) => Has(s, B) \/ m \in B
<1>1. \A i \in DOMAIN Append(s, m) :
           \/ i \in DOMAIN s /\ Append(s, m)[i] = s[i]
           \/ i = Len(s) + 1 /\ Append(s, m)[i] = m
  BY PutInto
<1> QED
  BY <1>1 DEF OnlyOne, Has

(* What is about request r: frames, and messages of the mailbox.           *)
Bearing(r)    == {f \in Frames : f.req = r}
Concerning(r) == {m \in Messages :
  \/ m.type \in {"WireFormat", "CallResponse"} /\ m.frame \in Bearing(r)
  \/ m.type = "RequestError" /\ m.req = r
  \/ m.type = "Incoming" /\ m.msg \in Bearing(r)}

ToRead(p, r)    == Has(wire[p], Bearing(r))
Read(p, r)      == listener[p].at \in {"gate", "send"} /\ listener[p].msg \in Bearing(r)
InQueue(p, r)   == Has(mailbox[p], Concerning(r))
InTask(p, r)    == \E t \in requests[p] : t.frame.req = r
Collected(p, r) == results[p].at = "send" /\ results[p].msg \in Concerning(r)
Written(p, r)   == actor[p].at = "write" /\ actor[p].frame.req = r
Answered(p, r)  == Has(wire[Remote[p]], Bearing(r))

OnlyTask(p, r)  == \A t, u \in requests[p] : t.frame.req = r /\ u.frame.req = r => t = u

Single(p, r) == /\ OnlyOne(wire[p], Bearing(r)) /\ OnlyOne(mailbox[p], Concerning(r))
                /\ OnlyTask(p, r) /\ OnlyOne(wire[Remote[p]], Bearing(r))

Apart(p, r) ==
  /\ ToRead(p, r) => ~(\/ Read(p, r) \/ InQueue(p, r) \/ InTask(p, r) \/ Collected(p, r)
                       \/ Written(p, r) \/ Answered(p, r))
  /\ Read(p, r) => ~(\/ InQueue(p, r) \/ InTask(p, r) \/ Collected(p, r) \/ Written(p, r)
                     \/ Answered(p, r))
  /\ InQueue(p, r) => ~(\/ InTask(p, r) \/ Collected(p, r) \/ Written(p, r) \/ Answered(p, r))
  /\ InTask(p, r) => ~(Collected(p, r) \/ Written(p, r) \/ Answered(p, r))
  /\ Collected(p, r) => ~(Written(p, r) \/ Answered(p, r))
  /\ Written(p, r) => ~Answered(p, r)

Around(p, r) == \/ ToRead(p, r) \/ Read(p, r) \/ InQueue(p, r) \/ InTask(p, r)
                \/ Collected(p, r) \/ Written(p, r) \/ Answered(p, r)

(* A request is in one place only, and who made it waits if it is a call.  *)
Held(p, r) == /\ Single(p, r) /\ Apart(p, r)
              /\ Around(p, r) => outcome[r] = IF r \in Calls THEN "pending" ELSE "sent"

(* listen_incoming: off the connection.                                    *)
LEMMA ReadStep ==
  ASSUME Typed, NEW p \in Peers, PeerStep(p) \/ UserStep(p), NEW r, Single(p, r), Apart(p, r)
  PROVE  /\ OnlyOne(wire'[p], Bearing(r))
         /\ ToRead(p, r)' => ToRead(p, r)
         /\ Read(p, r)' => Read(p, r) \/ (ToRead(p, r) /\ ~ToRead(p, r)')
<1> DEFINE B == Bearing(r)
<1>1. PICK s \in Seq(Items) : s = wire[p]
  BY EndsOfPeer DEF Typed, TypeOK, Items
<1>2. OnlyOne(s, B)
  BY <1>1 DEF Single
<1>3. wire'[p] = s \/ wire'[p] = <<>> \/ (s # <<>> /\ wire'[p] = Tail(s))
  BY <1>1, EndsOfPeer, WireStep
<1>4. s # <<>> => OnlyOne(Tail(s), B) /\ (Has(Tail(s), B) => Has(s, B))
                  /\ (Head(s) \in B => Has(s, B) /\ ~Has(Tail(s), B))
  BY <1>2, OneTaken
<1>5. OnlyOne(<<>>, B) /\ ~Has(<<>>, B)
  BY DEF OnlyOne, Has
<1>6. OnlyOne(wire'[p], B) /\ (ToRead(p, r)' => ToRead(p, r))
  BY <1>1, <1>2, <1>3, <1>4, <1>5 DEF ToRead
<1>7. Read(p, r)' => Read(p, r) \/ (ToRead(p, r) /\ ~ToRead(p, r)')
  <2> SUFFICES ASSUME Read(p, r)', ~Read(p, r) PROVE ToRead(p, r) /\ ~ToRead(p, r)'
    OBVIOUS
  <2>1. wire[p] # <<>> /\ listener'[p].msg = Head(wire[p]) /\ wire'[p] = Tail(wire[p])
    BY ListenerSteps DEF Read
  <2>2. Head(s) \in B
    BY <1>1, <2>1 DEF Read
  <2> QED
    BY <1>1, <1>4, <2>1, <2>2 DEF ToRead
<1> QED
  BY <1>6, <1>7

(* peer.rs: into the mailbox and out of it.                                *)
LEMMA QueueStep ==
  ASSUME Typed, NEW p \in Peers, PeerStep(p) \/ UserStep(p), NEW r \in Requests,
         Origin[r] # p, Single(p, r), Apart(p, r)
  PROVE  /\ OnlyOne(mailbox'[p], Concerning(r))
         /\ InQueue(p, r)' => \/ InQueue(p, r)
                              \/ Read(p, r) /\ ~Read(p, r)'
                              \/ Collected(p, r) /\ ~Collected(p, r)'
         /\ Taken(p) /\ Head(mailbox[p]) \in Concerning(r) => InQueue(p, r) /\ ~InQueue(p, r)'
<1> DEFINE B == Concerning(r)
<1>1. PICK s \in Seq(Messages) : s = mailbox[p]
  BY DEF Typed, TypeOK
<1>2. OnlyOne(s, B)
  BY <1>1 DEF Single
<1>3. s # <<>> => OnlyOne(Tail(s), B) /\ (Has(Tail(s), B) => Has(s, B))
                  /\ (Head(s) \in B => Has(s, B) /\ ~Has(Tail(s), B))
  BY <1>2, OneTaken
<1>4. Taken(p) => s # <<>> /\ mailbox'[p] = Tail(s)
  BY <1>1 DEF Taken
<1>5. Taken(p) /\ Head(mailbox[p]) \in B => InQueue(p, r) /\ ~InQueue(p, r)'
  BY <1>1, <1>3, <1>4 DEF InQueue
<1>6. CASE mailbox'[p] = mailbox[p] \/ Taken(p)
  BY <1>1, <1>2, <1>3, <1>4, <1>5, <1>6 DEF InQueue
<1>7. ASSUME NEW m \in Messages, Arrives(p, m), mailbox'[p] = Append(mailbox[p], m)
      PROVE  /\ OnlyOne(mailbox'[p], B)
             /\ InQueue(p, r)' => \/ InQueue(p, r)
                                  \/ Read(p, r) /\ ~Read(p, r)'
                                  \/ Collected(p, r) /\ ~Collected(p, r)'
  <2>1. ASSUME m \in B
        PROVE  (Read(p, r) /\ ~Read(p, r)') \/ (Collected(p, r) /\ ~Collected(p, r)')
    <3>1. CASE listener[p].at = "send" /\ m = IncomingMsg(listener[p].msg)
               /\ listener'[p] = Listening("next")
      BY <2>1, <3>1 DEF Concerning, IncomingMsg, Read, Listening
    <3>2. CASE results[p].at = "send" /\ m = results[p].msg /\ results'[p] = Collecting("next")
      BY <2>1, <3>2 DEF Collected, Collecting
    <3>3. ASSUME NEW x \in Sends, Origin[x] = p, m = WireFormatMsg(RequestFrame(x, NullCid))
          PROVE  FALSE
      <4>1. x \in Requests /\ m.frame.req = x /\ m.type = "WireFormat"
        BY <3>3, MadeFrames DEF Requests, WireFormatMsg
      <4> QED
        BY <2>1, <3>3, <4>1 DEF Concerning, Bearing
    <3> QED
      BY <1>7, <2>1, <3>1, <3>2, <3>3 DEF Arrives, Concerning, CloseMsg, TimeoutMsg, CallMsg
  <2>2. m \in B => ~Has(s, B)
    BY <1>1, <2>1 DEF Apart, InQueue
  <2>3. OnlyOne(Append(s, m), B) /\ (Has(Append(s, m), B) => Has(s, B) \/ m \in B)
    BY <1>2, <2>2, OnePut
  <2> QED
    BY <1>1, <1>7, <2>1, <2>3 DEF InQueue
<1>8. CASE ~(mailbox'[p] = mailbox[p] \/ Taken(p))
  <2>1. PICK m \in Messages : Arrives(p, m) /\ mailbox'[p] = Append(mailbox[p], m)
    BY <1>8, MailboxStep
  <2> QED
    BY <1>5, <1>7, <2>1
<1> QED
  BY <1>6, <1>8

(* incoming.rs: one task for each request, ...                             *)
LEMMA OneTask ==
  ASSUME Typed, NEW p \in Peers, PeerStep(p) \/ UserStep(p), NEW r \in Requests,
         Origin[r] # p, Single(p, r), Apart(p, r)
  PROVE  /\ OnlyTask(p, r)'
         /\ InTask(p, r)' => \/ InTask(p, r)
                             \/ InQueue(p, r) /\ ~InQueue(p, r)' /\ ~Written(p, r)'
<1>1. Typed'
  BY PeerStepType, UserType
<1>2. requests[p] \subseteq Tasks /\ requests'[p] \subseteq Tasks
  BY <1>1 DEF Typed, TypeOK
<1> DEFINE Stays(t) == t \in requests[p]
           Finishes(t) == \E u \in requests[p] : /\ u.frame = t.frame
                                              /\ requests'[p] = (requests[p] \ {u}) \cup {t}
           Begins(t) == /\ Taken(p) /\ Carries(Head(mailbox[p]), t.frame) /\ t.state = Running
                        /\ actor'[p] = actor[p]
<1>3. \A t \in requests'[p] : Stays(t) \/ Finishes(t) \/ Begins(t)
  BY TaskSteps
<1>4. ASSUME NEW t \in requests'[p], t.frame.req = r, Begins(t)
      PROVE  InQueue(p, r) /\ ~InQueue(p, r)' /\ ~Written(p, r)' /\ ~InTask(p, r)
  <2>1. t.frame \in Bearing(r) /\ Head(mailbox[p]) \in Messages
    BY <1>2, <1>4, HeadOfMailbox DEF Bearing, Tasks
  <2>2. Head(mailbox[p]) \in Concerning(r)
    BY <1>4, <2>1 DEF Concerning, Carries
  <2>3. actor'[p].at # "write"
    BY <1>4 DEF Taken, Idle
  <2> QED
    BY <1>4, <2>2, <2>3, QueueStep DEF Written, Apart
<1>5. ASSUME NEW t \in requests'[p], t.frame.req = r, Stays(t) \/ Finishes(t) PROVE InTask(p, r)
  BY <1>5 DEF InTask
<1>6. ASSUME NEW t \in requests'[p], NEW u \in requests'[p], t.frame.req = r, u.frame.req = r
      PROVE  t = u
  <2>1. \A v, w \in requests[p] : v.frame.req = r /\ w.frame.req = r => v = w
    BY DEF Single, OnlyTask
  <2>2. CASE Begins(t) /\ Begins(u)
    <3>1. t.frame = u.frame /\ t.state = u.state
      BY <2>2 DEF Carries
    <3> QED
      BY <1>2, <3>1 DEF Tasks
  <2>3. CASE Stays(t) /\ Stays(u)
    BY <1>6, <2>1, <2>3
  <2>4. CASE Finishes(t)
    <3>1. PICK v \in requests[p] : v.frame = t.frame /\ requests'[p] = (requests[p] \ {v}) \cup {t}
      BY <2>4
    <3>2. u # t => u \in requests[p] /\ u # v
      BY <3>1
    <3> QED
      BY <1>6, <2>1, <3>1, <3>2
  <2>5. CASE Finishes(u)
    <3>1. PICK v \in requests[p] : v.frame = u.frame /\ requests'[p] = (requests[p] \ {v}) \cup {u}
      BY <2>5
    <3>2. u # t => t \in requests[p] /\ t # v
      BY <3>1
    <3> QED
      BY <1>6, <2>1, <3>1, <3>2
  <2> HIDE DEF Stays, Finishes, Begins
  <2> QED
    BY <1>3, <1>4, <1>5, <1>6, <2>2, <2>3, <2>4, <2>5
<1> HIDE DEF Stays, Finishes, Begins
<1> QED
  BY <1>3, <1>4, <1>5, <1>6 DEF OnlyTask, InTask

(* ... one result for each task, ...                                       *)
LEMMA OneResult ==
  ASSUME Typed, NEW p \in Peers, PeerStep(p) \/ UserStep(p), NEW r \in Requests, Single(p, r), Apart(p, r)
  PROVE  Collected(p, r)' => Collected(p, r) \/ (InTask(p, r) /\ ~InTask(p, r)')
<1> SUFFICES ASSUME Collected(p, r)', ~Collected(p, r) PROVE InTask(p, r) /\ ~InTask(p, r)'
  OBVIOUS
<1>1. PICK t \in requests[p] : /\ results'[p].msg \in ResultOf(t)
                               /\ requests'[p] = requests[p] \ {t}
  BY ResultsStep DEF Collected
<1>2. t.frame.req \in Requests
  BY DEF Typed, TypeOK, Tasks, Frames
<1>3. PICK m : m = results'[p].msg
  OBVIOUS
<1>4. \/ m = CallResponseMsg(ResponseFrame(t.frame.req, t.frame.cid))
      \/ m = WireFormatMsg(ErrorFrame(t.frame.req, t.frame.cid))
      \/ m = RequestErrorMsg(t.state, t.frame)
  BY <1>1, <1>3 DEF ResultOf
<1>5. m \in Concerning(r)
  BY <1>3 DEF Collected
<1>6. t.frame.req = r
  BY <1>2, <1>4, <1>5, MadeFrames
     DEF Concerning, Bearing, CallResponseMsg, WireFormatMsg, RequestErrorMsg
<1> QED
  BY <1>1, <1>6 DEF InTask, Single, OnlyTask

(* ... one answer for each result, ...                                     *)
LEMMA OneAnswer ==
  ASSUME Typed, Traffic, NEW p \in Peers, PeerStep(p) \/ UserStep(p), NEW r \in Requests,
         Origin[r] # p, Single(p, r), Apart(p, r)
  PROVE  Written(p, r)' => Written(p, r) \/ (InQueue(p, r) /\ ~InQueue(p, r)')
<1> SUFFICES ASSUME Written(p, r)', ~Written(p, r) PROVE InQueue(p, r) /\ ~InQueue(p, r)'
  OBVIOUS
<1>1. PICK f, then : /\ Taken(p) /\ actor'[p] = Writing(f, then)
                     /\ ToWrite(p, Head(mailbox[p]), f, then)
  BY ActorStepWrites DEF Written
<1>2. f.req = r
  BY <1>1 DEF Written, Writing
<1>3. PICK m \in Messages : m = Head(mailbox[p]) /\ Meant(p, m)
  BY <1>1, HeadOfMailbox DEF Traffic, TrafficAt
<1>4. ToWrite(p, m, f, then)
  BY <1>1, <1>3
<1>5. m \in Concerning(r)
  <2>1. CASE m.type = "Call"
    BY <1>2, <1>3, <1>4, <2>1, MadeFrames, MessageFields DEF ToWrite, Meant, Requests
  <2>2. CASE m.type \in {"WireFormat", "CallResponse"}
    BY <1>2, <1>4, <2>2, MessageFields DEF ToWrite, Concerning, Bearing
  <2>3. CASE m.type = "RequestError"
    BY <1>2, <1>4, <2>3 DEF ToWrite, Concerning, ErrorFrame
  <2>4. CASE m.type = "Incoming"
    BY <1>2, <1>4, <2>4, MessageFields DEF ToWrite, Concerning, Bearing, ErrorFrame, Items
  <2> QED
    BY <1>4, <2>1, <2>2, <2>3, <2>4 DEF ToWrite
<1> QED
  BY <1>1, <1>3, <1>5, QueueStep

(* ... written once.                                                       *)
LEMMA AnswerStep ==
  ASSUME Typed, NEW p \in Peers, PeerStep(p) \/ UserStep(p), NEW r \in Requests, Single(p, r), Apart(p, r)
  PROVE  /\ OnlyOne(wire'[Remote[p]], Bearing(r))
         /\ Answered(p, r)' => Answered(p, r) \/ (Written(p, r) /\ ~Written(p, r)')
<1> DEFINE B == Bearing(r)
           e == Remote[p]
<1>1. PICK s \in Seq(Items) : s = wire[e]
  BY EndsOfPeer DEF Typed, TypeOK, Items
<1>2. OnlyOne(s, B)
  BY <1>1 DEF Single
<1>3. CASE wire'[e] = s
  BY <1>1, <1>2, <1>3 DEF Answered
<1>4. CASE wire'[e] # s
  <2>1. actor[p].at = "write" /\ actor'[p].at # "write" /\ wire'[e] = Append(s, actor[p].frame)
    BY <1>1, <1>4, EndsOfPeer, WireStep
  <2>2. actor[p] \in Actors
    BY DEF Typed, TypeOK
  <2>3. PICK f \in Items : f = actor[p].frame
    BY <2>1, <2>2 DEF Actors, Idle, InGrace, Items
  <2>4. f \in B => Written(p, r) /\ ~Written(p, r)'
    BY <2>1, <2>3 DEF Bearing, Written
  <2>5. f \in B => ~Has(s, B)
    BY <1>1, <2>4 DEF Apart, Answered
  <2>6. OnlyOne(Append(s, f), B) /\ (Has(Append(s, f), B) => Has(s, B) \/ f \in B)
    BY <1>2, <2>5, OnePut
  <2> QED
    BY <1>1, <2>1, <2>3, <2>4, <2>6 DEF Answered
<1> QED
  BY <1>3, <1>4

(* incoming.rs to call_response.rs: a request moves from one place to the  *)
(* next, whatever becomes of it.                                           *)
LEMMA PlacesKept ==
  ASSUME Typed, Traffic, NEW p \in Peers, PeerStep(p) \/ UserStep(p), NEW r \in Requests,
         Origin[r] # p, Single(p, r), Apart(p, r)
  PROVE  Single(p, r)' /\ Apart(p, r)' /\ (Around(p, r)' => Around(p, r))
<1>1. Single(p, r)'
  BY ReadStep, QueueStep, OneTask, AnswerStep DEF Single
<1>2. Apart(p, r)' /\ (Around(p, r)' => Around(p, r))
  <2>1. /\ ToRead(p, r)' => ToRead(p, r)
        /\ Read(p, r)' => Read(p, r) \/ (ToRead(p, r) /\ ~ToRead(p, r)')
    BY ReadStep
  <2>2. InQueue(p, r)' => \/ InQueue(p, r)
                          \/ Read(p, r) /\ ~Read(p, r)'
                          \/ Collected(p, r) /\ ~Collected(p, r)'
    BY QueueStep
  <2>3. InTask(p, r)' => \/ InTask(p, r)
                         \/ InQueue(p, r) /\ ~InQueue(p, r)' /\ ~Written(p, r)'
    BY OneTask
  <2>4. Collected(p, r)' => Collected(p, r) \/ (InTask(p, r) /\ ~InTask(p, r)')
    BY OneResult
  <2>5. Written(p, r)' => Written(p, r) \/ (InQueue(p, r) /\ ~InQueue(p, r)')
    BY OneAnswer
  <2>6. Answered(p, r)' => Answered(p, r) \/ (Written(p, r) /\ ~Written(p, r)')
    BY AnswerStep
  <2> QED
    BY <2>1, <2>2, <2>3, <2>4, <2>5, <2>6 DEF Apart, Around
<1> QED
  BY <1>1, <1>2

(* ... so that none is answered twice.                                     *)
LEMMA HeldKept ==
  ASSUME Typed, Requesting, NEW p \in Peers, PeerStep(p) \/ UserStep(p), NEW r \in Requests,
         Origin[r] = Remote[p], Held(p, r)
  PROVE  Held(p, r)'
<1>1. Origin[r] # p /\ Traffic
  BY EndsOfPeer DEF Requesting
<1>2. outcome'[r] = outcome[r]
  BY <1>1, OutcomeStep DEF Advances
<1>3. Single(p, r)' /\ Apart(p, r)' /\ (Around(p, r)' => Around(p, r))
  BY <1>1, PlacesKept DEF Held
<1> QED
  BY <1>2, <1>3 DEF Held

-----------------------------------------------------------------------------
(* The slots of the gate.                                                  *)

(* The parts of Owing: the tasks of calls, what the collector holds, what  *)
(* is in the mailbox, and the answer the actor writes.                     *)
CallTasks(R)  == {t \in R : Kind(t.frame) = "IncomingCall"}
Slotted(q)    == {i \in DOMAIN q : HoldsSlot(q[i])}
Weight(m)     == IF HoldsSlot(m) THEN 1 ELSE 0
Due(c)        == IF c.at = "send" THEN Weight(c.msg) ELSE 0
Answering(a)  == IF a.at = "write" /\ a.then = "callResponse" THEN 1 ELSE 0
Owed(R, c, q, a) == Cardinality(CallTasks(R)) + Due(c) + Cardinality(Slotted(q)) + Answering(a)

LEMMA OwingIs ==
  ASSUME NEW p
  PROVE  Owing(p) = Owed(requests[p], results[p], mailbox[p], actor[p])
BY DEF Owing, Owed, CallTasks, Slotted, Due, Weight, Answering, WritingFor

(* Mailboxes are finite.                                                   *)
LEMMA SlottedFinite ==
  ASSUME NEW S, NEW q \in Seq(S)
  PROVE  IsFiniteSet(Slotted(q)) /\ Cardinality(Slotted(q)) \in Nat
<1>1. DOMAIN q = 1..Len(q) /\ Len(q) \in Nat
  OBVIOUS
<1>2. IsFiniteSet(1..Len(q))
  BY <1>1, FS_Interval
<1>3. Slotted(q) \in SUBSET (1..Len(q))
  BY <1>1 DEF Slotted
<1> QED
  BY <1>2, <1>3, FS_Subset, FS_CardinalityType

(* A message is put into the mailbox.                                      *)
LEMMA SlottedMore ==
  ASSUME NEW S, NEW q \in Seq(S), NEW m \in S
  PROVE  Cardinality(Slotted(Append(q, m))) = Cardinality(Slotted(q)) + Weight(m)
<1>1. /\ DOMAIN q = 1..Len(q) /\ Len(q) \in Nat /\ DOMAIN Append(q, m) = 1..(Len(q) + 1)
      /\ \A i \in 1..Len(q) : Append(q, m)[i] = q[i]
      /\ Append(q, m)[Len(q) + 1] = m
  OBVIOUS
<1>2. 1..(Len(q) + 1) = (1..Len(q)) \cup {Len(q) + 1} /\ Len(q) + 1 \notin 1..Len(q)
  BY <1>1
<1>3. IsFiniteSet(Slotted(q)) /\ Cardinality(Slotted(q)) \in Nat /\ Len(q) + 1 \notin Slotted(q)
  <2>1. Len(q) + 1 \notin Slotted(q)
    BY <1>1, <1>2 DEF Slotted
  <2> QED
    BY <2>1, SlottedFinite
<1>4. CASE HoldsSlot(m)
  <2>1. Slotted(Append(q, m)) = Slotted(q) \cup {Len(q) + 1}
    BY <1>1, <1>2, <1>4 DEF Slotted
  <2> QED
    BY <1>3, <1>4, <2>1, FS_AddElement DEF Weight
<1>5. CASE ~HoldsSlot(m)
  <2>1. Slotted(Append(q, m)) = Slotted(q)
    BY <1>1, <1>2, <1>5 DEF Slotted
  <2> QED
    BY <1>3, <1>5, <2>1 DEF Weight
<1> QED
  BY <1>4, <1>5

(* ... or taken out of it.                                                 *)
LEMMA SlottedLess ==
  ASSUME NEW S, NEW q \in Seq(S), q # <<>>
  PROVE  Cardinality(Slotted(q)) = Cardinality(Slotted(Tail(q))) + Weight(Head(q))
<1> DEFINE A == Slotted(Tail(q))
           B == Slotted(q) \ {1}
           f == [i \in A |-> i + 1]
<1>1. /\ 1 \in DOMAIN q /\ Head(q) = q[1] /\ Tail(q) \in Seq(S)
      /\ \A i \in DOMAIN Tail(q) : i \in Nat /\ i # 0 /\ i + 1 \in DOMAIN q /\ Tail(q)[i] = q[i + 1]
      /\ \A i \in DOMAIN q : i # 1 => i - 1 \in DOMAIN Tail(q) /\ (i - 1) + 1 = i
  OBVIOUS
<1>2. IsFiniteSet(A) /\ IsFiniteSet(Slotted(q)) /\ Cardinality(Slotted(q)) \in Nat
  BY <1>1, SlottedFinite
<1>3. \A i \in A : i \in Nat /\ i + 1 \in B
  BY <1>1 DEF Slotted
<1>4. \A j \in B : j - 1 \in A /\ (j - 1) + 1 = j
  <2> SUFFICES ASSUME NEW j \in B PROVE j - 1 \in A /\ (j - 1) + 1 = j
    OBVIOUS
  <2>1. j - 1 \in DOMAIN Tail(q) /\ (j - 1) + 1 = j
    BY <1>1 DEF Slotted
  <2>2. Tail(q)[j - 1] = q[j]
    BY <1>1, <2>1
  <2> QED
    BY <2>1, <2>2 DEF Slotted
<1> HIDE DEF A, B
<1>5. Cardinality(B) = Cardinality(A)
  <2>1. f \in [A -> B]
    BY <1>3
  <2>2. \A a, b \in A : f[a] = f[b] => a = b
    BY <1>3
  <2>3. \A t \in B : \E s \in A : f[s] = t
    BY <1>4
  <2> HIDE DEF f
  <2>4. f \in Bijection(A, B)
    BY <2>1, <2>2, <2>3 DEF Bijection, Injection, Surjection, IsInjective
  <2>5. ExistsBijection(A, B)
    BY <2>4 DEF ExistsBijection
  <2> QED
    BY <1>2, <2>5, FS_Bijection
<1>6. Cardinality(B) = IF 1 \in Slotted(q) THEN Cardinality(Slotted(q)) - 1 ELSE Cardinality(Slotted(q))
  BY <1>2, FS_RemoveElement DEF B
<1>7. 1 \in Slotted(q) <=> HoldsSlot(Head(q))
  BY <1>1 DEF Slotted
<1> QED
  BY <1>2, <1>5, <1>6, <1>7 DEF A, Weight

(* The parts are numbers.                                                  *)
LEMMA OwedParts ==
  ASSUME NEW R, IsFiniteSet(R), NEW S, NEW q \in Seq(S), NEW c, NEW a, NEW m
  PROVE  /\ Cardinality(CallTasks(R)) \in Nat /\ IsFiniteSet(CallTasks(R))
         /\ Cardinality(Slotted(q)) \in Nat
         /\ Due(c) \in {0, 1} /\ Answering(a) \in {0, 1} /\ Weight(m) \in {0, 1}
<1>1. CallTasks(R) \in SUBSET R
  BY DEF CallTasks
<1>2. IsFiniteSet(CallTasks(R)) /\ Cardinality(CallTasks(R)) \in Nat
  BY <1>1, FS_Subset, FS_CardinalityType
<1> QED
  BY <1>2, SlottedFinite DEF Due, Answering, Weight


(* incoming.rs:105-160, relay_map.rs: a task comes to an error that is     *)
(* passed on only if it relays a call, and only then is an error in the    *)
(* mailbox that is sent as it is.                                          *)
NoneRelayed(m) == m.type = "WireFormat" /\ m.frame.sid = NullSid => "RelayedError" \in Faults

Fitting(p) ==
  /\ IsFiniteSet(requests[p])
  /\ \A t \in requests[p] : t.state = "RelayedError" => /\ Kind(t.frame) = "IncomingCall"
                                                        /\ "RelayedError" \in Faults
  /\ results[p].at = "send" => NoneRelayed(results[p].msg)
  /\ \A i \in DOMAIN mailbox[p] : NoneRelayed(mailbox[p][i])

(* incoming.rs, peer.rs: tasks come and go one by one, or all at once.     *)
LEMMA RequestsStep ==
  ASSUME Typed, NEW p \in Peers, PeerStep(p) \/ UserStep(p)
  PROVE  \/ requests'[p] = requests[p] \/ requests'[p] = {}
         \/ \E t : requests'[p] = requests[p] \cup {t}
         \/ \E t : requests'[p] = requests[p] \ {t}
         \/ \E t, u : requests'[p] = (requests[p] \ {t}) \cup {u}
<1>0. requests \in [Peers -> SUBSET Tasks]
  BY DEF Typed, TypeOK
<1>1. ASSUME NEW w, DropEverything(p, w) PROVE requests'[p] = {}
  BY <1>0, <1>1 DEF DropEverything
<1>2. ASSUME NEW w, NEW c, Close(p, c, w) PROVE requests'[p] = {} \/ UNCHANGED requests
  BY <1>1, <1>2 DEF Close, taskVars
<1>3. CASE HandleCloseConnection(p) \/ ErrorSentThenClose(p)
  BY <1>2, <1>3, ClosingSteps
<1>4. CASE GraceOver(p)
  BY <1>1, <1>4 DEF GraceOver
<1>5. \A f : Nurse(p, f) => \E t : requests'[p] = requests[p] \cup {t}
  BY <1>0 DEF Nurse
<1>6. CASE IncomingSend(p) \/ IncomingCall(p)
  <2>1. UNCHANGED requests \/ \E f : Nurse(p, f)
    BY <1>6 DEF IncomingSend, IncomingCall
  <2> QED
    BY <1>5, <2>1
<1>7. ASSUME NEW t \in requests[p], Serve(p, t)
      PROVE  \E u, v : requests'[p] = (requests[p] \ {u}) \cup {v}
  <2>1. PICK s : requests' = [requests EXCEPT ![p] = (@ \ {t}) \cup {[t EXCEPT !.state = s]}]
    BY <1>7 DEF Serve
  <2>2. requests'[p] = (requests[p] \ {t}) \cup {[t EXCEPT !.state = s]}
    BY <1>0, <2>1
  <2> QED
    BY <2>2
<1>8. ASSUME NEW t \in requests[p], Collect(p, t) PROVE \E u : requests'[p] = requests[p] \ {u}
  BY <1>0, <1>8 DEF Collect
<1>9. CASE Resume(p) /\ ~ErrorSentThenClose(p)
  BY <1>9 DEF Resume, CallSent, CallSentNoTimer, FrameSent, ResponseSent, ErrorSent, WriteFails,
     taskVars
<1>10. CASE Handle(p) /\ ~HandleCloseConnection(p) /\ ~IncomingSend(p) /\ ~IncomingCall(p)
  BY <1>10 DEF Handle, HandleCall, RefuseCall, HandleWireFormat, RefuseWireFormat,
     HandleCallResponse, DropCallResponse, HandleRequestError, HandleTimeout, IgnoreIncoming,
     IncomingFailure, IncomingResponse, IncomingError, taskVars
<1>11. CASE ListenerStep(p) \/ DeliverResult(p) \/ \E t \in timers[p] : TimerFires(p, t)
  BY <1>11 DEF ListenerStep, ListenNext, PassGate, ListenSend, ListenEnd, DeliverResult, TimerFires
<1>12. CASE UserStep(p)
  BY <1>12 DEF UserStep, UserCall, UserSend, UserClose, taskVars
<1> QED
  BY <1>3, <1>4, <1>6, <1>7, <1>8, <1>9, <1>10, <1>11, <1>12 DEF PeerStep, ActorStep

(* Every step of the peer keeps to it.                                     *)
LEMMA FittingKept ==
  ASSUME Typed, Traffic, NEW p \in Peers, PeerStep(p) \/ UserStep(p), Fitting(p)
  PROVE  Fitting(p)'
<1>1. IsFiniteSet(requests'[p])
  <2>1. IsFiniteSet(requests[p])
    BY DEF Fitting
  <2>2. \A S, t : IsFiniteSet(S) => IsFiniteSet(S \cup {t}) /\ IsFiniteSet(S \ {t})
    BY FS_AddElement, FS_RemoveElement
  <2>3. CASE requests'[p] = requests[p] \/ requests'[p] = {}
    BY <2>1, <2>3, FS_EmptySet
  <2>4. ASSUME NEW t, requests'[p] = requests[p] \cup {t} \/ requests'[p] = requests[p] \ {t}
        PROVE  IsFiniteSet(requests'[p])
    <3>1. IsFiniteSet(requests[p] \cup {t}) /\ IsFiniteSet(requests[p] \ {t})
      BY <2>1, <2>2
    <3> QED
      BY <2>4, <3>1
  <2>5. ASSUME NEW t, NEW u, requests'[p] = (requests[p] \ {t}) \cup {u}
        PROVE  IsFiniteSet(requests'[p])
    <3>1. IsFiniteSet(requests[p] \ {t})
      BY <2>1, <2>2
    <3>2. IsFiniteSet((requests[p] \ {t}) \cup {u})
      BY <2>2, <3>1
    <3> QED
      BY <2>5, <3>2
  <2> QED
    BY <2>3, <2>4, <2>5, RequestsStep
<1>2. ASSUME NEW t \in requests'[p], t.state = "RelayedError"
      PROVE  Kind(t.frame) = "IncomingCall" /\ "RelayedError" \in Faults
  <2>1. CASE t \in requests[p]
    BY <1>2, <2>1 DEF Fitting
  <2>2. ASSUME NEW u \in requests[p], u.frame = t.frame, t.state \in Processed(t.frame)
        PROVE  Kind(t.frame) = "IncomingCall" /\ "RelayedError" \in Faults
    <3>1. Kind(t.frame) # "IncomingSend" /\ "RelayedError" \in Faults
      BY <1>2, <2>2 DEF Processed
    <3>2. ~Answers(t.frame)
      BY <2>2 DEF Traffic, TrafficAt
    <3> QED
      BY <3>1, <3>2, KindsOfFrames
  <2>3. t.state # Running
    BY <1>2 DEF Running
  <2> QED
    BY <2>1, <2>2, <2>3, TaskSteps
<1>3. results'[p].at = "send" => NoneRelayed(results'[p].msg)
  <2>1. ASSUME NEW t \in requests[p], t.state # Running, NEW m, m \in ResultOf(t)
        PROVE  NoneRelayed(m)
    <3>1. t.state = "RelayedError" => "RelayedError" \in Faults
      BY DEF Fitting
    <3>2. \/ t.state = "RelayedError" \/ m = RequestErrorMsg(t.state, t.frame)
          \/ m = CallResponseMsg(ResponseFrame(t.frame.req, t.frame.cid))
      BY <2>1 DEF ResultOf
    <3> QED
      BY <3>1, <3>2 DEF NoneRelayed, RequestErrorMsg, CallResponseMsg
  <2> QED
    BY <2>1, ResultsStep DEF Fitting
<1>4. \A i \in DOMAIN mailbox'[p] : NoneRelayed(mailbox'[p][i])
  <2>1. PICK s \in Seq(Messages) : s = mailbox[p]
    BY DEF Typed, TypeOK
  <2>2. \A i \in DOMAIN s : NoneRelayed(s[i])
    BY <2>1 DEF Fitting
  <2>3. CASE mailbox'[p] = mailbox[p]
    BY <2>1, <2>2, <2>3
  <2>4. CASE Taken(p)
    <3>1. s # <<>> /\ mailbox'[p] = Tail(s)
      BY <2>1, <2>4 DEF Taken
    <3>2. \A i \in DOMAIN Tail(s) : i + 1 \in DOMAIN s /\ Tail(s)[i] = s[i + 1]
      BY <3>1, TakenFrom
    <3> QED
      BY <2>2, <3>1, <3>2
  <2>5. ASSUME NEW m \in Messages, Arrives(p, m), mailbox'[p] = Append(s, m)
        PROVE  \A i \in DOMAIN mailbox'[p] : NoneRelayed(mailbox'[p][i])
    <3>1. NoneRelayed(m)
      <4>1. ASSUME NEW r \in Sends, m = WireFormatMsg(RequestFrame(r, NullCid)) PROVE NoneRelayed(m)
        <5>1. ~Answers(m.frame)
          BY <4>1, MadeFrames DEF WireFormatMsg, Requests
        <5> QED
          BY <5>1 DEF Answers, NoneRelayed
      <4>2. \A x : NoneRelayed(IncomingMsg(x)) /\ NoneRelayed(CloseMsg(x)) /\ NoneRelayed(TimeoutMsg(x))
                   /\ NoneRelayed(CallMsg(x))
        BY DEF NoneRelayed, IncomingMsg, CloseMsg, TimeoutMsg, CallMsg
      <4>3. results[p].at = "send" => NoneRelayed(results[p].msg)
        BY DEF Fitting
      <4>4. \/ \E x : m \in {IncomingMsg(x), CloseMsg(x), TimeoutMsg(x), CallMsg(x)}
            \/ results[p].at = "send" /\ m = results[p].msg
            \/ \E r \in Sends : m = WireFormatMsg(RequestFrame(r, NullCid))
        BY <2>5 DEF Arrives
      <4> QED
        BY <4>1, <4>2, <4>3, <4>4
    <3>2. \A i \in DOMAIN Append(s, m) : (i \in DOMAIN s /\ Append(s, m)[i] = s[i]) \/ Append(s, m)[i] = m
      BY PutInto
    <3> QED
      BY <2>2, <2>5, <3>1, <3>2
  <2> QED
    BY <2>1, <2>3, <2>4, <2>5, MailboxStep
<1> QED
  BY <1>1, <1>2, <1>3, <1>4 DEF Fitting


(* What a step does to the slots of p: none appears, and if one is lost, a *)
(* request has failed, the peer has closed, or an error was passed on.     *)
Excused(p) == events'[p] \cap Errors # {} \/ closed'[p] \/ "RelayedError" \in Faults
Ledger(p)  == /\ free' + Owing(p)' <= free + Owing(p)
              /\ Excused(p) \/ free' + Owing(p)' = free + Owing(p)

Ready(p) == /\ Typed /\ Traffic /\ Fitting(p) /\ p \in Gated
            /\ \A r \in Requests : Origin[r] = Remote[p] => Single(p, r) /\ Apart(p, r)

LEMMA OwingBecomes ==
  ASSUME NEW p
  PROVE  Owing(p)' = Owed(requests'[p], results'[p], mailbox'[p], actor'[p])
BY DEF Owing, Owed, CallTasks, Slotted, Due, Weight, Answering, WritingFor

(* The four parts of what p owes, before the step and after it.            *)
LEMMA Parts ==
  ASSUME Typed, Typed', NEW p \in Peers, IsFiniteSet(requests[p]), IsFiniteSet(requests'[p])
  PROVE  \E t, tt, q, qq \in Nat, d, dd, a, aa \in {0, 1} :
           /\ t = Cardinality(CallTasks(requests[p])) /\ tt = Cardinality(CallTasks(requests'[p]))
           /\ q = Cardinality(Slotted(mailbox[p])) /\ qq = Cardinality(Slotted(mailbox'[p]))
           /\ d = Due(results[p]) /\ dd = Due(results'[p])
           /\ a = Answering(actor[p]) /\ aa = Answering(actor'[p])
           /\ Owing(p) = t + d + q + a /\ Owing(p)' = tt + dd + qq + aa
           /\ free \in Int /\ free' \in Int
<1>1. mailbox[p] \in Seq(Messages) /\ mailbox'[p] \in Seq(Messages) /\ free \in Int /\ free' \in Int
  BY DEF Typed, TypeOK
<1>2. /\ Cardinality(CallTasks(requests[p])) \in Nat /\ Cardinality(CallTasks(requests'[p])) \in Nat
      /\ Cardinality(Slotted(mailbox[p])) \in Nat /\ Cardinality(Slotted(mailbox'[p])) \in Nat
      /\ Due(results[p]) \in {0, 1} /\ Due(results'[p]) \in {0, 1}
      /\ Answering(actor[p]) \in {0, 1} /\ Answering(actor'[p]) \in {0, 1}
  BY <1>1, OwedParts
<1> QED
  BY <1>1, <1>2, OwingIs, OwingBecomes DEF Owed

(* A handler takes a message out of the mailbox.                           *)
LEMMA Received ==
  ASSUME Typed, NEW p \in Peers, NEW type, Receive(p, type)
  PROVE  /\ actor[p] = Idle /\ Answering(actor[p]) = 0
         /\ Head(mailbox[p]) \in Messages /\ Head(mailbox[p]).type = type
         /\ Cardinality(Slotted(mailbox[p]))
              = Cardinality(Slotted(mailbox'[p])) + Weight(Head(mailbox[p]))
         /\ Fitting(p) => NoneRelayed(Head(mailbox[p]))
<1>1. PICK s \in Seq(Messages) : s = mailbox[p]
  BY DEF Typed, TypeOK
<1>2. s # <<>> /\ mailbox'[p] = Tail(s) /\ actor[p] = Idle /\ Head(s).type = type
  BY <1>1 DEF Receive, Typed, TypeOK
<1>3. Head(s) \in Messages /\ Head(s) = s[1] /\ 1 \in DOMAIN s
  BY <1>2, TakenFrom
<1>4. Cardinality(Slotted(s)) = Cardinality(Slotted(Tail(s))) + Weight(Head(s))
  BY <1>2, SlottedLess
<1> QED
  BY <1>1, <1>2, <1>3, <1>4 DEF Answering, Idle, Fitting

(* Handlers of messages no slot was taken for, and of those for which one  *)
(* is given back.                                                          *)
LEMMA HandlerLedger ==
  ASSUME NEW p \in Peers, Ready(p), Typed', Fitting(p)',
         Handle(p), ~HandleCloseConnection(p), ~IncomingCall(p)
  PROVE  Ledger(p)
<1> USE DEF Ready
<1>0. /\ requests \in [Peers -> SUBSET Tasks] /\ actor \in [Peers -> Actors]
      /\ events \in [Peers -> SUBSET Events]
  BY DEF Typed, TypeOK
<1>1. PICK t \in Nat, tt \in Nat, q \in Nat, qq \in Nat,
           d \in {0, 1}, dd \in {0, 1}, a \in {0, 1}, aa \in {0, 1} :
           /\ t = Cardinality(CallTasks(requests[p])) /\ tt = Cardinality(CallTasks(requests'[p]))
           /\ q = Cardinality(Slotted(mailbox[p])) /\ qq = Cardinality(Slotted(mailbox'[p]))
           /\ d = Due(results[p]) /\ dd = Due(results'[p])
           /\ a = Answering(actor[p]) /\ aa = Answering(actor'[p])
           /\ Owing(p) = t + d + q + a /\ Owing(p)' = tt + dd + qq + aa
           /\ free \in Int /\ free' \in Int
  BY Parts DEF Fitting
<1>2. PICK m : m = Head(mailbox[p])
  OBVIOUS
<1>3. \A type : Receive(p, type) => /\ a = 0 /\ q = qq + Weight(m) /\ m \in Messages
                                    /\ m.type = type /\ NoneRelayed(m) /\ actor[p] = Idle
  BY <1>1, <1>2, Received
<1>4. \A f, then : Answering(Writing(f, then)) = IF then = "callResponse" THEN 1 ELSE 0
  BY DEF Answering, Writing
<1>5. \A f, then : Await(p, Writing(f, then)) => aa = IF then = "callResponse" THEN 1 ELSE 0
  BY <1>0, <1>1, <1>4 DEF Await
<1>6. UNCHANGED actor => aa = a
  BY <1>1
<1>7. UNCHANGED requests => tt = t
  BY <1>1
<1>8. UNCHANGED results => dd = d
  BY <1>1
<1>9. CASE HandleCall(p) \/ RefuseCall(p) \/ HandleTimeout(p) \/ IgnoreIncoming(p)
           \/ IncomingFailure(p) \/ IncomingResponse(p) \/ IncomingError(p)
  <2>1. m.type \in {"Call", "Timeout", "Incoming"} /\ a = 0 /\ q = qq + Weight(m)
    BY <1>3, <1>9 DEF HandleCall, RefuseCall, HandleTimeout, IgnoreIncoming, IncomingFailure,
       IncomingResponse, IncomingError, ReceiveFrame
  <2>2. Weight(m) = 0
    BY <2>1 DEF Weight, HoldsSlot
  <2>3. aa = 0
    BY <1>5, <1>6, <1>9, <2>1 DEF HandleCall, RefuseCall, HandleTimeout, IgnoreIncoming,
       IncomingFailure, IncomingResponse, IncomingError
  <2>4. UNCHANGED <<requests, results, free>>
    BY <1>9 DEF HandleCall, RefuseCall, HandleTimeout, IgnoreIncoming, IncomingFailure,
       IncomingResponse, IncomingError, taskVars
  <2> QED
    BY <1>1, <1>7, <1>8, <2>1, <2>2, <2>3, <2>4 DEF Ledger
<1>10. CASE HandleWireFormat(p) \/ RefuseWireFormat(p)
  <2>1. m.type = "WireFormat" /\ a = 0 /\ q = qq + Weight(m) /\ NoneRelayed(m)
    BY <1>3, <1>10 DEF HandleWireFormat, RefuseWireFormat
  <2>2. Weight(m) = 0 \/ (Weight(m) = 1 /\ Excused(p))
    BY <2>1 DEF Weight, HoldsSlot, NoneRelayed, Excused
  <2>3. aa = 0
    BY <1>5, <1>6, <1>10, <2>1 DEF HandleWireFormat, RefuseWireFormat
  <2>4. UNCHANGED <<requests, results, free>>
    BY <1>10 DEF HandleWireFormat, RefuseWireFormat, taskVars
  <2> QED
    BY <1>1, <1>7, <1>8, <2>1, <2>2, <2>3, <2>4 DEF Ledger
<1>11. CASE HandleCallResponse(p) \/ DropCallResponse(p)
  <2>1. m.type = "CallResponse" /\ a = 0 /\ q = qq + Weight(m)
    BY <1>3, <1>11 DEF HandleCallResponse, DropCallResponse
  <2>2. Weight(m) = 1
    BY <2>1 DEF Weight, HoldsSlot
  <2>3. (aa = 1 /\ free' = free) \/ (aa = 0 /\ free' = free + 1)
    BY <1>5, <1>6, <1>11, <2>1 DEF HandleCallResponse, DropCallResponse, AddSlots
  <2>4. UNCHANGED <<requests, results>>
    BY <1>11 DEF HandleCallResponse, DropCallResponse, taskVars
  <2> QED
    BY <1>1, <1>7, <1>8, <2>1, <2>2, <2>3, <2>4 DEF Ledger
<1>12. CASE HandleRequestError(p)
  <2>1. m.type = "RequestError" /\ a = 0 /\ q = qq + Weight(m) /\ m \in Messages
    BY <1>3, <1>12 DEF HandleRequestError
  <2>2. Weight(m) \in {0, 1}
    BY DEF Weight
  <2>3. ReportError(p, m.err, m.cid, m.req)
    BY <1>2, <1>12 DEF HandleRequestError
  <2>4. aa = 0
    BY <1>5, <1>6, <2>1, <2>3 DEF ReportError
  <2>5. m.err \in Errors /\ m.err \in events'[p]
    BY <1>0, <2>1, <2>3, MessageFields DEF ReportError, Emit
  <2>6. Excused(p)
    BY <2>5 DEF Excused
  <2>7. UNCHANGED <<requests, results, free>>
    BY <1>12 DEF HandleRequestError, taskVars
  <2> QED
    BY <1>1, <1>7, <1>8, <2>1, <2>2, <2>4, <2>6, <2>7 DEF Ledger
<1>13. CASE IncomingSend(p)
  <2>1. m.type = "Incoming" /\ a = 0 /\ q = qq + Weight(m) /\ Kind(m.msg) = "IncomingSend"
    BY <1>2, <1>3, <1>13 DEF IncomingSend, ReceiveFrame, Incoming
  <2>2. Weight(m) = 0
    BY <2>1 DEF Weight, HoldsSlot
  <2>3. CallTasks(requests'[p]) = CallTasks(requests[p])
    <3>1. UNCHANGED requests \/ Nurse(p, m.msg)
      BY <1>2, <1>13 DEF IncomingSend, Incoming
    <3>2. Nurse(p, m.msg) => requests'[p] = requests[p] \cup {[frame |-> m.msg, state |-> Running]}
      BY <1>0 DEF Nurse
    <3> QED
      BY <2>1, <3>1, <3>2 DEF CallTasks
  <2>4. UNCHANGED <<actor, results, free>>
    BY <1>13 DEF IncomingSend
  <2> QED
    BY <1>1, <1>6, <1>8, <2>1, <2>2, <2>3, <2>4 DEF Ledger
<1> QED
  BY <1>9, <1>10, <1>11, <1>12, <1>13 DEF Handle


(* Peer::incoming_call takes a slot, for a task or for an error.           *)
LEMMA CallLedger ==
  ASSUME NEW p \in Peers, Ready(p), Typed', Fitting(p)', IncomingCall(p)
  PROVE  Ledger(p)
<1> USE DEF Ready
<1>0. /\ requests \in [Peers -> SUBSET Tasks] /\ actor \in [Peers -> Actors]
      /\ events \in [Peers -> SUBSET Events]
  BY DEF Typed, TypeOK
<1>1. PICK t \in Nat, tt \in Nat, q \in Nat, qq \in Nat,
           d \in {0, 1}, dd \in {0, 1}, a \in {0, 1}, aa \in {0, 1} :
           /\ t = Cardinality(CallTasks(requests[p])) /\ tt = Cardinality(CallTasks(requests'[p]))
           /\ q = Cardinality(Slotted(mailbox[p])) /\ qq = Cardinality(Slotted(mailbox'[p]))
           /\ d = Due(results[p]) /\ dd = Due(results'[p])
           /\ a = Answering(actor[p]) /\ aa = Answering(actor'[p])
           /\ Owing(p) = t + d + q + a /\ Owing(p)' = tt + dd + qq + aa
           /\ free \in Int /\ free' \in Int
  BY Parts DEF Fitting
<1>2. PICK m : m = Head(mailbox[p])
  OBVIOUS
<1>3. /\ Receive(p, "Incoming") /\ m.msg # WireErr /\ Kind(m.msg) = "IncomingCall"
  BY <1>2 DEF IncomingCall, ReceiveFrame, Incoming
<1>4. a = 0 /\ q = qq + Weight(m) /\ m \in Messages /\ m.type = "Incoming" /\ actor[p] = Idle
  BY <1>1, <1>2, <1>3, Received
<1>5. Weight(m) = 0
  BY <1>4 DEF Weight, HoldsSlot
<1>6. free' = free - 1
  <2>1. free' = free + (-1)
    BY DEF IncomingCall, AddSlots
  <2> QED
    BY <1>1, <2>1
<1>7. dd = d
  BY <1>1 DEF IncomingCall
<1>8. PICK f \in Frames : f = m.msg
  BY <1>3, <1>4, MessageFields DEF Items
<1>9. ASSUME Nurse(p, f), UNCHANGED actor PROVE Ledger(p)
  <2>1. PICK u : u = [frame |-> f, state |-> Running]
    OBVIOUS
  <2>2. requests'[p] = requests[p] \cup {u}
    BY <1>0, <1>9, <2>1 DEF Nurse
  <2>3. u \notin requests[p]
    <3>1. Taken(p)
      BY <1>0, <1>3 DEF Receive, Taken, Typed, TypeOK
    <3>2. 1 \in DOMAIN mailbox[p] /\ m = mailbox[p][1]
      BY <1>2, <3>1, HeadOfMailbox
    <3>3. Origin[f.req] = Remote[p]
      <4>1. Inbound(p, f)
        BY <1>4, <1>8, <3>2 DEF Traffic, TrafficAt, Meant
      <4>2. ~Answers(f)
        BY <1>3, <1>8, KindsOfFrames
      <4> QED
        BY <1>3, <1>8, <4>1, <4>2 DEF Inbound
    <3>4. PICK r \in Requests : r = f.req
      BY DEF Frames
    <3>5. m \in Concerning(r)
      BY <1>4, <1>8, <3>4 DEF Concerning, Bearing
    <3>6. InQueue(p, r)
      BY <3>2, <3>5 DEF InQueue, Has
    <3>7. ~InTask(p, r)
      BY <3>3, <3>4, <3>6 DEF Apart
    <3> QED
      BY <2>1, <3>4, <3>7 DEF InTask
  <2>4. /\ CallTasks(requests'[p]) = CallTasks(requests[p]) \cup {u}
        /\ u \notin CallTasks(requests[p])
    BY <1>3, <1>8, <2>1, <2>2, <2>3 DEF CallTasks
  <2>5. IsFiniteSet(CallTasks(requests[p]))
    <3>1. CallTasks(requests[p]) \in SUBSET requests[p]
      BY DEF CallTasks
    <3> QED
      BY <3>1, FS_Subset DEF Fitting
  <2>6. tt = t + 1
    <3>1. PICK C : C = CallTasks(requests[p])
      OBVIOUS
    <3>2. Cardinality(C \cup {u}) = Cardinality(C) + 1
      BY <2>4, <2>5, <3>1, FS_AddElement
    <3> QED
      BY <1>1, <2>4, <3>1, <3>2
  <2>7. aa = a
    BY <1>1, <1>9
  <2> QED
    BY <1>1, <1>4, <1>5, <1>6, <1>7, <2>6, <2>7 DEF Ledger
<1>10. ASSUME NEW e \in Errors, ReportError(p, e, f.cid, f.req), UNCHANGED requests
       PROVE  Ledger(p)
  <2>1. aa = 0
    <3>1. \A g, then : Answering(Writing(g, then)) = IF then = "callResponse" THEN 1 ELSE 0
      BY DEF Answering, Writing
    <3>2. \A g, then : Await(p, Writing(g, then)) => aa = IF then = "callResponse" THEN 1 ELSE 0
      BY <1>0, <1>1, <3>1 DEF Await
    <3>3. UNCHANGED actor => aa = a
      BY <1>1
    <3> QED
      BY <1>4, <1>10, <3>2, <3>3 DEF ReportError
  <2>2. e \in events'[p]
    BY <1>0, <1>10 DEF ReportError, Emit
  <2>3. Excused(p)
    BY <2>2 DEF Excused
  <2>4. tt = t
    BY <1>1, <1>10
  <2> QED
    BY <1>1, <1>4, <1>5, <1>6, <1>7, <2>1, <2>3, <2>4 DEF Ledger
<1>11. \A kinds : Rejections(kinds, f, p) \subseteq Errors
  BY PeerAssumption DEF Rejections, Errors
<1> QED
  BY <1>2, <1>8, <1>9, <1>10, <1>11 DEF IncomingCall, Incoming

(* incoming.rs:112-156: what the tasks of calls return stands for a slot,  *)
(* what those of sends return does not.                                    *)
LEMMA ResultWeighs ==
  ASSUME Traffic, NEW p \in Peers, Fitting(p), NEW t \in requests[p], t.state # Running
  PROVE  /\ Kind(t.frame) = "IncomingCall" => ResultOf(t) # {}
         /\ \A m \in ResultOf(t) : Weight(m) = IF Kind(t.frame) = "IncomingCall" THEN 1 ELSE 0
<1>1. PICK f : f = t.frame
  OBVIOUS
<1>2. Kind(f) \in {"IncomingSend", "IncomingCall"}
  <2>1. ~Answers(f)
    BY <1>1 DEF Traffic, TrafficAt
  <2> QED
    BY <2>1, KindsOfFrames
<1>3. /\ Kind(f) = "IncomingCall" => f.cid # NullCid
      /\ Kind(f) = "IncomingSend" => f.cid = NullCid
  BY <1>2 DEF Kind
<1>4. t.state = "RelayedError" => Kind(f) = "IncomingCall"
  BY <1>1 DEF Fitting
<1>5. /\ \A g : HoldsSlot(CallResponseMsg(g))
      /\ HoldsSlot(WireFormatMsg(ErrorFrame(f.req, f.cid)))
      /\ HoldsSlot(RequestErrorMsg(t.state, f)) <=> f.cid # NullCid
  BY DEF HoldsSlot, CallResponseMsg, WireFormatMsg, RequestErrorMsg, ErrorFrame
<1>6. CASE Kind(f) = "IncomingCall"
  <2>1. \/ ResultOf(t) = {CallResponseMsg(ResponseFrame(f.req, f.cid))}
        \/ ResultOf(t) = {WireFormatMsg(ErrorFrame(f.req, f.cid))}
        \/ ResultOf(t) = {RequestErrorMsg(t.state, f)}
    BY <1>1, <1>6 DEF ResultOf
  <2> QED
    BY <1>1, <1>3, <1>5, <1>6, <2>1 DEF Weight
<1>7. CASE Kind(f) = "IncomingSend"
  <2>1. ResultOf(t) = {} \/ ResultOf(t) = {RequestErrorMsg(t.state, f)}
    BY <1>1, <1>4, <1>7 DEF ResultOf
  <2> QED
    BY <1>1, <1>3, <1>5, <1>7, <2>1 DEF Weight
<1> QED
  BY <1>2, <1>6, <1>7

(* incoming.rs: a task is served, or ends and its result is collected.     *)
LEMMA TaskLedger ==
  ASSUME NEW p \in Peers, Ready(p), Typed', Fitting(p)', NEW x \in requests[p],
         Serve(p, x) \/ Collect(p, x)
  PROVE  Ledger(p)
<1> USE DEF Ready
<1>0. requests \in [Peers -> SUBSET Tasks] /\ results \in [Peers -> Collectors]
  BY DEF Typed, TypeOK
<1>1. PICK t \in Nat, tt \in Nat, q \in Nat, qq \in Nat,
           d \in {0, 1}, dd \in {0, 1}, a \in {0, 1}, aa \in {0, 1} :
           /\ t = Cardinality(CallTasks(requests[p])) /\ tt = Cardinality(CallTasks(requests'[p]))
           /\ q = Cardinality(Slotted(mailbox[p])) /\ qq = Cardinality(Slotted(mailbox'[p]))
           /\ d = Due(results[p]) /\ dd = Due(results'[p])
           /\ a = Answering(actor[p]) /\ aa = Answering(actor'[p])
           /\ Owing(p) = t + d + q + a /\ Owing(p)' = tt + dd + qq + aa
           /\ free \in Int /\ free' \in Int
  BY Parts DEF Fitting
<1>2. PICK C : C = CallTasks(requests[p])
  OBVIOUS
<1>3. IsFiniteSet(C) /\ (x \in C <=> Kind(x.frame) = "IncomingCall")
  <2>1. C \in SUBSET requests[p]
    BY <1>2 DEF CallTasks
  <2>2. IsFiniteSet(C)
    BY <2>1, FS_Subset DEF Fitting
  <2> QED
    BY <1>2, <2>2 DEF CallTasks
<1>4. IsFiniteSet(C \ {x}) /\ t = Cardinality(C \ {x}) + (IF x \in C THEN 1 ELSE 0)
      /\ Cardinality(C \ {x}) \in Nat
  <2>1. /\ IsFiniteSet(C \ {x})
        /\ Cardinality(C \ {x}) = IF x \in C THEN Cardinality(C) - 1 ELSE Cardinality(C)
    BY <1>3, FS_RemoveElement
  <2>2. Cardinality(C \ {x}) \in Nat
    BY <2>1, FS_CardinalityType
  <2> QED
    BY <1>1, <1>2, <2>1, <2>2
<1>5. ASSUME Serve(p, x) PROVE Ledger(p)
  <2>1. PICK s : requests' = [requests EXCEPT ![p] = (@ \ {x}) \cup {[x EXCEPT !.state = s]}]
    BY <1>5 DEF Serve
  <2>2. PICK u : u = [x EXCEPT !.state = s]
    OBVIOUS
  <2>3. requests'[p] = (requests[p] \ {x}) \cup {u} /\ u.frame = x.frame
    BY <1>0, <2>1, <2>2 DEF Tasks
  <2>4. PICK r \in Requests : r = x.frame.req /\ Origin[r] = Remote[p]
    BY <1>0 DEF Tasks, Frames, Traffic, TrafficAt
  <2>5. u \in requests[p] => u = x
    BY <2>3, <2>4 DEF Single, OnlyTask
  <2>6. CallTasks(requests'[p]) = IF x \in C THEN (C \ {x}) \cup {u} ELSE C
    BY <1>2, <1>3, <2>3 DEF CallTasks
  <2>7. u \notin C \ {x}
    BY <1>2, <2>5 DEF CallTasks
  <2>8. Cardinality((C \ {x}) \cup {u}) = Cardinality(C \ {x}) + 1
    BY <1>4, <2>7, FS_AddElement
  <2>9. tt = t
    BY <1>1, <1>2, <1>4, <2>6, <2>8
  <2>10. UNCHANGED <<mailbox, actor, results, free>>
    BY <1>5 DEF Serve, actorVars
  <2>11. qq = q /\ aa = a /\ dd = d
    BY <1>1, <2>10
  <2> QED
    BY <1>1, <2>9, <2>10, <2>11 DEF Ledger
<1>6. ASSUME Collect(p, x) PROVE Ledger(p)
  <2>1. requests'[p] = requests[p] \ {x} /\ x.state # Running /\ results[p].at = "next"
    BY <1>0, <1>6 DEF Collect
  <2>2. CallTasks(requests'[p]) = C \ {x}
    BY <1>2, <2>1 DEF CallTasks
  <2>3. UNCHANGED <<mailbox, actor, free>>
    BY <1>6 DEF Collect, actorVars
  <2>4. qq = q /\ aa = a
    BY <1>1, <2>3
  <2>5. d = 0
    BY <1>1, <2>1 DEF Due
  <2>6. dd = IF x \in C THEN 1 ELSE 0
    <3>1. results'[p] = IF ResultOf(x) = {} THEN results[p]
                        ELSE Delivering(CHOOSE m \in ResultOf(x) : TRUE)
      BY <1>0, <1>6 DEF Collect
    <3>2. CASE ResultOf(x) = {}
      BY <1>1, <1>3, <2>1, <2>5, <3>1, <3>2, ResultWeighs
    <3>3. CASE ResultOf(x) # {}
      <4>1. PICK m \in ResultOf(x) : m = CHOOSE n \in ResultOf(x) : TRUE
        BY <3>3
      <4>2. dd = Weight(m)
        BY <1>1, <3>1, <3>3, <4>1 DEF Due, Delivering
      <4>3. Weight(m) = IF Kind(x.frame) = "IncomingCall" THEN 1 ELSE 0
        BY <2>1, ResultWeighs
      <4> QED
        BY <1>3, <4>2, <4>3
    <3> QED
      BY <3>2, <3>3
  <2> QED
    BY <1>1, <1>4, <2>2, <2>3, <2>4, <2>5, <2>6 DEF Ledger
<1> QED
  BY <1>5, <1>6


(* close_connection.rs: whatever the tasks owed is lost when they are.     *)
LEMMA ClosingLedger ==
  ASSUME NEW p \in Peers, Ready(p), Shut(p), Typed', Fitting(p)',
         HandleCloseConnection(p) \/ ErrorSentThenClose(p) \/ GraceOver(p)
  PROVE  Ledger(p)
<1> USE DEF Ready
<1>0. /\ requests \in [Peers -> SUBSET Tasks] /\ actor \in [Peers -> Actors]
      /\ results \in [Peers -> Collectors] /\ closed \in [Peers -> BOOLEAN]
  BY DEF Typed, TypeOK
<1>1. PICK t \in Nat, tt \in Nat, q \in Nat, qq \in Nat,
           d \in {0, 1}, dd \in {0, 1}, a \in {0, 1}, aa \in {0, 1} :
           /\ t = Cardinality(CallTasks(requests[p])) /\ tt = Cardinality(CallTasks(requests'[p]))
           /\ q = Cardinality(Slotted(mailbox[p])) /\ qq = Cardinality(Slotted(mailbox'[p]))
           /\ d = Due(results[p]) /\ dd = Due(results'[p])
           /\ a = Answering(actor[p]) /\ aa = Answering(actor'[p])
           /\ Owing(p) = t + d + q + a /\ Owing(p)' = tt + dd + qq + aa
           /\ free \in Int /\ free' \in Int
  BY Parts DEF Fitting
<1>2. qq = q
  <2>1. ASSUME HandleCloseConnection(p) PROVE qq = q
    <3>1. PICK m : m = Head(mailbox[p])
      OBVIOUS
    <3>2. Receive(p, "CloseConnection")
      BY <2>1 DEF HandleCloseConnection
    <3>3. m.type = "CloseConnection" /\ q = qq + Weight(m)
      BY <1>1, <3>1, <3>2, Received
    <3>4. Weight(m) = 0
      BY <3>3 DEF Weight, HoldsSlot
    <3> QED
      BY <3>3, <3>4
  <2>2. ASSUME ErrorSentThenClose(p) \/ GraceOver(p) PROVE qq = q
    BY <1>1, <2>2 DEF ErrorSentThenClose, GraceOver
  <2> QED
    BY <2>1, <2>2
<1>3. \A w : DropEverything(p, w) => tt = 0 /\ dd = 0 /\ aa = 0
  <2>1. CallTasks({}) = {} /\ Cardinality({}) = 0
    BY FS_EmptySet DEF CallTasks
  <2>2. Due(Collecting("dropped")) = 0 /\ Answering(Idle) = 0
    BY DEF Due, Answering, Collecting, Idle
  <2> SUFFICES ASSUME NEW w, DropEverything(p, w) PROVE tt = 0 /\ dd = 0 /\ aa = 0
    OBVIOUS
  <2>3. requests'[p] = {} /\ results'[p] = Collecting("dropped") /\ actor'[p] = Idle
    BY <1>0 DEF DropEverything, Await
  <2> QED
    BY <1>1, <2>1, <2>2, <2>3
<1>4. \A w, r : Close(p, r, w) => tt <= t /\ dd <= d /\ aa <= a /\ closed'[p]
  <2> SUFFICES ASSUME NEW w, NEW r, Close(p, r, w)
               PROVE  tt <= t /\ dd <= d /\ aa <= a /\ closed'[p]
    OBVIOUS
  <2>1. closed'[p]
    BY <1>0 DEF Close
  <2>2. CASE DropEverything(p, w)
    <3>1. tt = 0 /\ dd = 0 /\ aa = 0
      BY <1>3, <2>2
    <3> QED
      BY <1>1, <2>1, <3>1
  <2>3. CASE Await(p, InGrace) /\ UNCHANGED taskVars
    <3>1. requests'[p] = requests[p] /\ results'[p] = results[p] /\ actor'[p] = InGrace
      BY <1>0, <2>3 DEF Await, taskVars
    <3>2. aa = 0
      BY <1>1, <3>1 DEF Answering, InGrace
    <3> QED
      BY <1>1, <2>1, <3>1, <3>2
  <2> QED
    BY <2>2, <2>3 DEF Close
<1>5. tt <= t /\ dd <= d /\ aa <= a /\ closed'[p]
  <2>1. CASE HandleCloseConnection(p) \/ ErrorSentThenClose(p)
    BY <1>4, <2>1, ClosingSteps
  <2>2. ASSUME GraceOver(p) PROVE tt <= t /\ dd <= d /\ aa <= a /\ closed'[p]
    <3>1. tt = 0 /\ dd = 0 /\ aa = 0
      BY <1>3, <2>2 DEF GraceOver
    <3>2. closed'[p]
      BY <2>2 DEF GraceOver, Shut
    <3> QED
      BY <1>1, <3>1, <3>2
  <2> QED
    BY <2>1, <2>2
<1>6. free' = free
  BY DEF HandleCloseConnection, ErrorSentThenClose, GraceOver
<1> QED
  BY <1>1, <1>2, <1>5, <1>6 DEF Ledger, Excused

(* call_response.rs:47-52: the slot of a call is given back when its       *)
(* answer has been written, and no other write gives one back.             *)
LEMMA ResumeLedger ==
  ASSUME NEW p \in Peers, Ready(p), Typed', Fitting(p)', Resume(p), ~ErrorSentThenClose(p)
  PROVE  Ledger(p)
<1> USE DEF Ready
<1>0. actor \in [Peers -> Actors]
  BY DEF Typed, TypeOK
<1>1. PICK t \in Nat, tt \in Nat, q \in Nat, qq \in Nat,
           d \in {0, 1}, dd \in {0, 1}, a \in {0, 1}, aa \in {0, 1} :
           /\ t = Cardinality(CallTasks(requests[p])) /\ tt = Cardinality(CallTasks(requests'[p]))
           /\ q = Cardinality(Slotted(mailbox[p])) /\ qq = Cardinality(Slotted(mailbox'[p]))
           /\ d = Due(results[p]) /\ dd = Due(results'[p])
           /\ a = Answering(actor[p]) /\ aa = Answering(actor'[p])
           /\ Owing(p) = t + d + q + a /\ Owing(p)' = tt + dd + qq + aa
           /\ free \in Int /\ free' \in Int
  BY Parts DEF Fitting
<1>2. UNCHANGED <<mailbox, requests, results>> /\ Await(p, Idle)
  BY DEF Resume, CallSent, CallSentNoTimer, FrameSent, ResponseSent, ErrorSent, WriteFails, taskVars
<1>3. tt = t /\ qq = q /\ dd = d
  BY <1>1, <1>2
<1>4. aa = 0
  BY <1>0, <1>1, <1>2 DEF Await, Answering, Idle
<1>5. CASE ResponseSent(p)
  <2>1. a = 1 /\ free' = free + 1
    BY <1>1, <1>5 DEF ResponseSent, WritingFor, Answering, AddSlots
  <2> QED
    BY <1>1, <1>3, <1>4, <2>1 DEF Ledger
<1>6. CASE ~ResponseSent(p)
  <2>1. a = 0 /\ free' = free
    BY <1>1, <1>6 DEF Resume, CallSent, CallSentNoTimer, FrameSent, ErrorSent, WriteFails,
       WritingFor, Answering
  <2> QED
    BY <1>1, <1>3, <1>4, <2>1 DEF Ledger
<1> QED
  BY <1>5, <1>6

(* listen_incoming, the timers and the users put messages into the mailbox *)
(* for which no slot was taken, listen_request_results what it holds.      *)
LEMMA PostLedger ==
  ASSUME NEW p \in Peers, Ready(p), Typed', Fitting(p)',
         \/ ListenerStep(p) \/ DeliverResult(p) \/ UserStep(p)
         \/ \E t \in timers[p] : TimerFires(p, t)
  PROVE  Ledger(p)
<1> USE DEF Ready
<1>0. /\ mailbox \in [Peers -> Seq(Messages)] /\ results \in [Peers -> Collectors]
      /\ listener \in [Peers -> Listeners] /\ timers \in [Peers -> SUBSET Timers]
  BY DEF Typed, TypeOK
<1>1. PICK t \in Nat, tt \in Nat, q \in Nat, qq \in Nat,
           d \in {0, 1}, dd \in {0, 1}, a \in {0, 1}, aa \in {0, 1} :
           /\ t = Cardinality(CallTasks(requests[p])) /\ tt = Cardinality(CallTasks(requests'[p]))
           /\ q = Cardinality(Slotted(mailbox[p])) /\ qq = Cardinality(Slotted(mailbox'[p]))
           /\ d = Due(results[p]) /\ dd = Due(results'[p])
           /\ a = Answering(actor[p]) /\ aa = Answering(actor'[p])
           /\ Owing(p) = t + d + q + a /\ Owing(p)' = tt + dd + qq + aa
           /\ free \in Int /\ free' \in Int
  BY Parts DEF Fitting
<1>2. UNCHANGED <<actor, requests, free>>
  BY DEF ListenerStep, ListenNext, PassGate, ListenSend, ListenEnd, DeliverResult, TimerFires,
     UserStep, UserCall, UserSend, UserClose, actorVars, taskVars
<1>3. tt = t /\ aa = a
  BY <1>1, <1>2
<1>4. \A m \in Messages : Post(p, m) => qq = q + Weight(m)
  <2> SUFFICES ASSUME NEW m \in Messages, Post(p, m) PROVE qq = q + Weight(m)
    OBVIOUS
  <2>1. PICK s \in Seq(Messages) : s = mailbox[p]
    BY <1>0
  <2>2. mailbox'[p] = Append(s, m)
    BY <1>0, <2>1 DEF Post
  <2>3. Cardinality(Slotted(Append(s, m))) = Cardinality(Slotted(s)) + Weight(m)
    BY SlottedMore
  <2> QED
    BY <1>1, <2>1, <2>2, <2>3
<1>5. CASE DeliverResult(p)
  <2>1. PICK m \in Messages : m = results[p].msg /\ results[p].at = "send"
    BY <1>0, <1>5, MessagesAreMessages DEF DeliverResult, Collectors
  <2>2. d = Weight(m)
    BY <1>1, <2>1 DEF Due
  <2>3. qq = q + Weight(m)
    BY <1>4, <1>5, <2>1 DEF DeliverResult
  <2>4. dd = 0
    BY <1>0, <1>1, <1>5 DEF DeliverResult, Due, Collecting
  <2> QED
    BY <1>1, <1>2, <1>3, <2>2, <2>3, <2>4 DEF Ledger
<1>6. CASE ~DeliverResult(p)
  <2>1. dd = d
    <3>1. UNCHANGED results
      BY <1>6 DEF ListenerStep, ListenNext, PassGate, ListenSend, ListenEnd, TimerFires,
         UserStep, UserCall, UserSend, UserClose, taskVars
    <3> QED
      BY <1>1, <3>1
  <2>2. \A m \in Messages : m.type \in {"Incoming", "CloseConnection", "Timeout", "Call"} /\ Post(p, m)
          => qq = q
    <3>1. \A m : m.type \in {"Incoming", "CloseConnection", "Timeout", "Call"} => Weight(m) = 0
      BY DEF Weight, HoldsSlot
    <3> QED
      BY <1>1, <1>4, <3>1
  <2>3. CASE ListenerStep(p)
    <3>1. ASSUME ListenSend(p) PROVE qq = q
      <4>1. PICK i \in Items : i = listener[p].msg
        BY <1>0, <3>1 DEF ListenSend, Listeners, Items
      <4>2. IncomingMsg(i) \in Messages /\ IncomingMsg(i).type = "Incoming" /\ Post(p, IncomingMsg(i))
        BY <3>1, <4>1, MessagesAreMessages DEF ListenSend, IncomingMsg
      <4> QED
        BY <2>2, <4>2
    <3>2. ASSUME ListenEnd(p) PROVE qq = q
      <4>1. /\ CloseMsg(TRUE) \in Messages /\ CloseMsg(TRUE).type = "CloseConnection"
            /\ Post(p, CloseMsg(TRUE))
        BY <3>2, MessagesAreMessages DEF ListenEnd, CloseMsg
      <4> QED
        BY <2>2, <4>1
    <3>3. ASSUME ListenNext(p) \/ PassGate(p) PROVE qq = q
      BY <1>1, <3>3 DEF ListenNext, PassGate, actorVars
    <3>4. qq = q
      BY <2>3, <3>1, <3>2, <3>3 DEF ListenerStep
    <3> QED
      BY <1>1, <1>2, <1>3, <2>1, <3>4 DEF Ledger
  <2>4. CASE \E x \in timers[p] : TimerFires(p, x)
    <3>1. PICK x \in timers[p] : TimerFires(p, x)
      BY <2>4
    <3>2. /\ TimeoutMsg(x) \in Messages /\ TimeoutMsg(x).type = "Timeout"
          /\ Post(p, TimeoutMsg(x))
      BY <1>0, <3>1, MessagesAreMessages DEF TimerFires, TimeoutMsg
    <3>3. qq = q
      BY <2>2, <3>2
    <3> QED
      BY <1>1, <1>2, <1>3, <2>1, <3>3 DEF Ledger
  <2>5. CASE UserStep(p)
    <3>1. ASSUME NEW c, UserCall(p, c) PROVE qq = q
      <4>1. CallMsg(c) \in Messages /\ CallMsg(c).type = "Call" /\ Post(p, CallMsg(c))
        BY <3>1, MessagesAreMessages DEF UserCall, CallMsg
      <4> QED
        BY <2>2, <4>1
    <3>2. ASSUME NEW s, UserSend(p, s) PROVE qq = q
      <4>1. PICK m : m = WireFormatMsg(RequestFrame(s, NullCid))
        OBVIOUS
      <4>2. s \in Sends /\ s \in Requests
        BY <3>2 DEF UserSend, Requests
      <4>3. m \in Messages
        <5>1. NullCid \in Cids
          BY DEF Cids, NullCid
        <5>2. PICK f \in Frames : f = RequestFrame(s, NullCid)
          BY <4>2, <5>1, FramesAreFrames
        <5> QED
          BY <4>1, <5>2, MessagesAreMessages
      <4>4. ~Answers(m.frame) /\ m.type = "WireFormat"
        BY <4>1, <4>2, MadeFrames DEF WireFormatMsg
      <4>5. Weight(m) = 0
        BY <4>4 DEF Weight, HoldsSlot, Answers
      <4> QED
        BY <1>1, <1>4, <3>2, <4>1, <4>3, <4>5 DEF UserSend
    <3>3. ASSUME UserClose(p) PROVE qq = q
      <4>1. /\ CloseMsg(FALSE) \in Messages /\ CloseMsg(FALSE).type = "CloseConnection"
            /\ Post(p, CloseMsg(FALSE))
        BY <3>3, MessagesAreMessages DEF UserClose, CloseMsg
      <4> QED
        BY <2>2, <4>1
    <3>4. qq = q
      BY <2>5, <3>1, <3>2, <3>3 DEF UserStep
    <3> QED
      BY <1>1, <1>2, <1>3, <2>1, <3>4 DEF Ledger
  <2> QED
    BY <1>6, <2>3, <2>4, <2>5
<1> QED
  BY <1>5, <1>6

(* Every step of the peer.                                                 *)
LEMMA PeerLedger ==
  ASSUME NEW p \in Peers, Ready(p), Shut(p), PeerStep(p) \/ UserStep(p)
  PROVE  Ledger(p)
<1>1. Typed' /\ Fitting(p)'
  BY PeerStepType, UserType, FittingKept DEF Ready
<1>2. CASE ActorStep(p)
  BY <1>1, <1>2, HandlerLedger, CallLedger, ClosingLedger, ResumeLedger DEF ActorStep
<1>3. CASE GraceOver(p)
  BY <1>1, <1>3, ClosingLedger
<1>4. CASE \E t \in requests[p] : Serve(p, t) \/ Collect(p, t)
  BY <1>1, <1>4, TaskLedger
<1>5. CASE \/ ListenerStep(p) \/ DeliverResult(p) \/ UserStep(p)
           \/ \E t \in timers[p] : TimerFires(p, t)
  BY <1>1, <1>5, PostLedger
<1> QED
  BY <1>2, <1>3, <1>4, <1>5 DEF PeerStep


(* peer.rs: what was reported stays reported, no peer opens again, and     *)
(* only the peer itself reports, closes, or moves its slots.               *)
LEMMA ReportsStep ==
  ASSUME Typed, NEW x \in Peers, PeerStep(x) \/ UserStep(x)
  PROVE  /\ \A p \in Peers : events[p] \subseteq events'[p] /\ (closed[p] => closed'[p])
         /\ \A p \in Peers \ {x} : events'[p] = events[p] /\ closed'[p] = closed[p]
         /\ x \notin Gated => free' = free
<1> DEFINE Goal == /\ \A p \in Peers : events[p] \subseteq events'[p] /\ (closed[p] => closed'[p])
                   /\ \A p \in Peers \ {x} : events'[p] = events[p] /\ closed'[p] = closed[p]
                   /\ x \notin Gated => free' = free
<1>0. /\ events \in [Peers -> SUBSET Events] /\ closed \in [Peers -> BOOLEAN]
  BY DEF Typed, TypeOK
<1>1. ASSUME NEW e, Emit(x, e), UNCHANGED closed, x \notin Gated => free' = free PROVE Goal
  BY <1>0, <1>1 DEF Emit
<1>2. ASSUME UNCHANGED <<events, closed>>, x \notin Gated => free' = free PROVE Goal
  BY <1>2
<1>3. ASSUME NEW w, NEW r, Close(x, r, w), UNCHANGED free PROVE Goal
  BY <1>0, <1>3 DEF Close
<1>4. CASE HandleCloseConnection(x) \/ ErrorSentThenClose(x)
  <2>1. UNCHANGED free
    BY <1>4 DEF HandleCloseConnection, ErrorSentThenClose
  <2> QED
    BY <1>3, <1>4, <2>1, ClosingSteps
<1>5. ASSUME NEW n, AddSlots(x, n) PROVE x \notin Gated => free' = free
  BY <1>5 DEF AddSlots
<1>6. CASE HandleRequestError(x) \/ IncomingFailure(x) \/ IncomingSend(x) \/ IncomingCall(x)
           \/ IncomingError(x)
  <2>1. UNCHANGED closed /\ (x \notin Gated => free' = free)
    BY <1>5, <1>6 DEF HandleRequestError, IncomingFailure, IncomingSend, IncomingCall, IncomingError
  <2>2. UNCHANGED events \/ \E e : Emit(x, e)
    BY <1>6 DEF HandleRequestError, IncomingFailure, IncomingSend, IncomingCall, IncomingError,
       ReportError
  <2> QED
    BY <1>1, <1>2, <2>1, <2>2
<1>7. CASE HandleCall(x) \/ RefuseCall(x) \/ HandleWireFormat(x) \/ RefuseWireFormat(x)
           \/ HandleCallResponse(x) \/ DropCallResponse(x) \/ HandleTimeout(x)
           \/ IgnoreIncoming(x) \/ IncomingResponse(x)
  BY <1>2, <1>5, <1>7 DEF HandleCall, RefuseCall, HandleWireFormat, RefuseWireFormat,
     HandleCallResponse, DropCallResponse, HandleTimeout, IgnoreIncoming, IncomingResponse
<1>8. CASE Resume(x) /\ ~ErrorSentThenClose(x)
  BY <1>2, <1>5, <1>8 DEF Resume, CallSent, CallSentNoTimer, FrameSent, ResponseSent, ErrorSent,
     WriteFails
<1>9. CASE \/ GraceOver(x) \/ ListenerStep(x) \/ DeliverResult(x) \/ UserStep(x)
           \/ (\E t \in requests[x] : Serve(x, t) \/ Collect(x, t))
           \/ (\E t \in timers[x] : TimerFires(x, t))
  BY <1>2, <1>9 DEF GraceOver, ListenerStep, ListenNext, PassGate, ListenSend, ListenEnd,
     Serve, Collect, DeliverResult, TimerFires, actorVars, UserStep, UserCall, UserSend, UserClose
<1> QED
  BY <1>4, <1>6, <1>7, <1>8, <1>9 DEF PeerStep, ActorStep, Handle

(* Each request is in one place of the peer that processes it.             *)
AllApart == \A p \in Peers : \A r \in Requests :
              Origin[r] = Remote[p] => Single(p, r) /\ Apart(p, r)

AllFitting == \A p \in Peers : Fitting(p)

(* incoming.rs:235-238, call_response.rs:47-52: a step of the one peer     *)
(* that was created with the slots, or of another one.                     *)
LEMMA SlotsKept ==
  ASSUME Typed, Traffic, AllShut, AllApart, AllFitting, SlotsBalanced,
         NEW x \in Peers, PeerStep(x) \/ UserStep(x)
  PROVE  SlotsBalanced'
<1> SUFFICES ASSUME NEW p \in Gated, Gated = {p}
             PROVE  /\ free' + Owing(p)' <= Slots
                    /\ events'[p] \cap Errors = {} /\ ~closed'[p] /\ "RelayedError" \notin Faults =>
                         free' + Owing(p)' = Slots
  BY DEF SlotsBalanced
<1>0. p \in Peers /\ Typed'
  BY PeerStepType, UserType
<1>1. /\ free + Owing(p) <= Slots
      /\ events[p] \cap Errors = {} /\ ~closed[p] /\ "RelayedError" \notin Faults =>
           free + Owing(p) = Slots
  BY DEF SlotsBalanced
<1>2. events[p] \subseteq events'[p] /\ (closed[p] => closed'[p])
  BY <1>0, ReportsStep
<1>3. CASE x = p
  <2>1. Ready(p) /\ Shut(p)
    BY <1>0 DEF AllApart, AllFitting, AllShut, Ready
  <2>2. Ledger(p)
    BY <1>0, <1>3, <2>1, PeerLedger
  <2>3. Fitting(p) /\ Fitting(p)'
    BY <1>0, <1>3, FittingKept DEF AllFitting
  <2>4. PICK n \in Int, nn \in Int : n = free + Owing(p) /\ nn = free' + Owing(p)'
    BY <1>0, <2>3, Parts DEF Fitting
  <2>5. nn <= n /\ n <= Slots /\ Slots \in Int
    BY <1>1, <2>2, <2>4 DEF Ledger
  <2>6. events'[p] \cap Errors = {} /\ ~closed'[p] /\ "RelayedError" \notin Faults =>
          nn = n /\ n = Slots
    BY <1>1, <1>2, <2>2, <2>4 DEF Ledger, Excused
  <2> QED
    BY <2>4, <2>5, <2>6
<1>4. CASE x # p
  <2>1. /\ mailbox'[p] = mailbox[p] /\ actor'[p] = actor[p] /\ requests'[p] = requests[p]
        /\ results'[p] = results[p]
    BY <1>0, <1>4, OthersUntouched DEF OthersKept
  <2>2. free' = free
    BY <1>0, <1>4, ReportsStep
  <2>3. Owing(p)' = Owing(p)
    BY <2>1, OwingIs, OwingBecomes
  <2> QED
    BY <1>1, <1>2, <2>2, <2>3
<1> QED
  BY <1>3, <1>4

(* The other end's steps leave what a peer holds alone.                    *)
LEMMA AllFittingKept ==
  ASSUME Typed, Traffic, AllFitting, NEW x \in Peers, PeerStep(x) \/ UserStep(x)
  PROVE  AllFitting'
<1> SUFFICES ASSUME NEW p \in Peers PROVE Fitting(p)'
  BY DEF AllFitting
<1>1. Fitting(p)
  BY DEF AllFitting
<1>2. CASE x = p
  BY <1>1, <1>2, FittingKept
<1>3. CASE x # p
  <2>1. mailbox'[p] = mailbox[p] /\ requests'[p] = requests[p] /\ results'[p] = results[p]
    BY <1>1, <1>3, OthersUntouched DEF OthersKept
  <2> QED
    BY <1>1, <2>1 DEF Fitting
<1> QED
  BY <1>2, <1>3

(* Peer::new: nothing is owed yet.                                         *)
LEMMA FirstSlots ==
  ASSUME Init
  PROVE  AllFitting /\ SlotsBalanced
<1>1. ASSUME NEW p \in Peers
      PROVE  Fitting(p) /\ Owing(p) = 0 /\ free = Slots
  <2>1. /\ mailbox[p] = <<>> /\ actor[p] = Idle /\ requests[p] = {}
        /\ results[p] = Collecting("next") /\ free = Slots
    BY DEF Init
  <2>2. Fitting(p)
    BY <2>1, FS_EmptySet DEF Fitting, Collecting
  <2>3. Cardinality(CallTasks({})) = 0 /\ Cardinality(Slotted(<<>>)) = 0
    <3>1. CallTasks({}) = {} /\ Slotted(<<>>) = {}
      BY DEF CallTasks, Slotted
    <3> QED
      BY <3>1, FS_EmptySet, Zenon
  <2>4. Due(Collecting("next")) = 0 /\ Answering(Idle) = 0
    BY DEF Due, Answering, Collecting, Idle
  <2>5. Owing(p) = 0
    <3>1. Owing(p) = Owed({}, Collecting("next"), <<>>, Idle)
      BY <2>1, OwingIs
    <3> QED
      BY <2>3, <2>4, <3>1 DEF Owed
  <2> QED
    BY <2>1, <2>2, <2>5
<1>2. SlotsBalanced
  BY <1>1 DEF SlotsBalanced
<1> QED
  BY <1>1, <1>2 DEF AllFitting

(* What keeps to itself keeps its slots.                                   *)
LEMMA SlotsUnmoved ==
  ASSUME UNCHANGED <<mailbox, actor, requests, results, events, closed, free>>
  PROVE  /\ AllFitting => AllFitting'
         /\ SlotsBalanced => SlotsBalanced'
<1>1. AllFitting => AllFitting'
  BY DEF AllFitting, Fitting
<1>2. \A p : Owing(p)' = Owing(p)
  BY DEF Owing, WritingFor
<1> QED
  BY <1>1, <1>2 DEF SlotsBalanced

-----------------------------------------------------------------------------
(* Peer::new, register_services: the states peers start in.                *)
LEMMA FirstTyped == Init => Typed
<1> SUFFICES ASSUME Init PROVE Typed
  OBVIOUS
<1>1. 1 \in Cids /\ NoChannels \in [Cids -> Calls \cup {NoCall}]
  BY DEF Cids, NoChannels
<1>2. TypeOK
  BY <1>1 DEF Init, TypeOK, Idle, Actors, Listening, Listeners, Collecting, Collectors,
     Outcomes
<1>3. CallsWritten
  BY DEF Init, Idle, CallsWritten, WritingFor
<1> QED
  BY <1>2, <1>3 DEF Typed

(* ... in which nothing has been closed.                                   *)
LEMMA FirstShut == Init => AllShut
BY DEF Init, AllShut, Shut, Idle, InGrace, Collecting

(* src/peer/: the steps of a peer, closing.                                *)
LEMMA PeerStepShuts ==
  ASSUME Typed, AllShut, NEW p \in Peers, PeerStep(p)
  PROVE  AllShut'
BY HandleShuts, ResumeShuts, GraceOverShuts, TasksShut DEF PeerStep, ActorStep

(* ... and of its users, who may close but never open a connection.        *)
LEMMA UserShuts ==
  ASSUME Typed, AllShut, NEW p \in Peers, UserStep(p)
  PROVE  AllShut'
<1>1. UNCHANGED <<closed, sink, actor, requests, timers, services, responses, listener,
                  results, eof, deaf>>
  BY DEF UserStep, UserCall, UserSend, UserClose, taskVars, wireVars
<1>2. EndsLast
  BY <1>1 DEF EndsLast
<1> QED
  BY <1>1, <1>2, ShutKept
=============================================================================
