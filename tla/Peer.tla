-------------------------------- MODULE Peer --------------------------------
(***************************************************************************)
(* src/peer.rs and src/peer/: the actor at one end of a connection, with   *)
(* the tasks it spawns: the one that reads the connection, the one that    *)
(* collects the results of the others, one per incoming request and one    *)
(* timer per outgoing call.                                                *)
(*                                                                         *)
(* The actor takes one message at a time from its mailbox and is exclusive *)
(* for as long as the handler runs.  A handler is one action up to the     *)
(* first place where it waits for something outside the peer, and another  *)
(* one from there: waiting for room on the connection ("write") and for    *)
(* the grace period ("grace").  Everything else of it is one step.         *)
(*                                                                         *)
(* Every variable is a function of the peer, so that this module models a  *)
(* peer alone as well as several peers joined to each other.  A peer reads *)
(* the channel wire[p] and writes to wire[Remote[p]].                      *)
(***************************************************************************)
EXTENDS WireFormat, Integers, Sequences, FiniteSets

CONSTANTS
  Peers,        \* the peers
  Remote,       \* the other end of each peer's connection
  Origin,       \* the end that makes each request
  Registered,   \* services registered with each peer before it is started
  Grace,        \* peers created with a grace period
  Gated,        \* peers created with the (one, shared) back pressure
  Slots,        \* its slots
  Faults,       \* what may go wrong while a request is processed
  Closers,      \* peers that are sent a CloseConnection by their users
  Mailbox,      \* capacity of a mailbox
  WireRoom,     \* frames that fit in the buffers of one direction of a connection
  NoCall,       \* no channel is waiting
  WireErr       \* an Err(WireErr) item of the incoming stream

Ends == Peers \cup {Remote[p] : p \in Peers}

FaultKinds == {"NoHandler", "Deserialize", "PubSubNoCall", "Spawn",
               "HandlerDead", "Serialize", "RelayGone", "RelayedError"}

ASSUME PeerAssumption ==
  /\ Remote \in [Peers -> Ends]
  /\ \A p, q \in Peers : Remote[p] # p /\ (Remote[p] = Remote[q] => p = q)
  /\ \A p \in Peers : Remote[p] \in Peers => Remote[Remote[p]] = p
  /\ Origin \in [Requests -> Ends]
  /\ Registered \in [Peers -> SUBSET Services]
  /\ Grace \subseteq Peers /\ Gated \subseteq Peers /\ Closers \subseteq Peers
  /\ Slots \in Int
  /\ Faults \subseteq FaultKinds
  /\ Mailbox \in Nat \ {0} /\ WireRoom \in Nat \ {0}
  /\ NoCall \notin Requests
  /\ WireErr \notin Frames

VARIABLES
  mailbox,    \* messages waiting for the actor, oldest first
  actor,      \* what its handler waits for
  closed,     \* Peer::closed
  sink,       \* whether Peer::outgoing is Some
  responses,  \* Peer::responses, the call that waits for each ConnID
  services,   \* Peer::services
  counter,    \* Peer::conn_id_counter
  listener,   \* the task listen_incoming and the message it holds
  requests,   \* nursed tasks that process an incoming request
  timers,     \* nursed tasks that will time out an outgoing call
  results,    \* the task listen_request_results and the message it holds
  events,     \* kinds of PeerEvent the observers have seen
  free,       \* BackPressure::available
  wire,       \* frames on their way to each end
  eof,        \* ends to which nothing will be written any more
  deaf,       \* ends that have stopped reading
  outcome,    \* what the maker of each request knows of it
  handled     \* requests a local actor has processed

actorVars == <<mailbox, actor, closed, sink, responses, services, counter>>
taskVars  == <<listener, requests, timers, results>>
wireVars  == <<wire, eof, deaf>>
vars == <<actorVars, taskVars, wireVars, events, free, outcome, handled>>

-----------------------------------------------------------------------------
(* The messages a peer handles.                                            *)
CallMsg(c)           == [type |-> "Call", req |-> c]
WireFormatMsg(f)     == [type |-> "WireFormat", frame |-> f]
CallResponseMsg(f)   == [type |-> "CallResponse", frame |-> f]
IncomingMsg(m)       == [type |-> "Incoming", msg |-> m]
RequestErrorMsg(e,f) == [type |-> "RequestError", err |-> e, cid |-> f.cid, req |-> f.req]
TimeoutMsg(t)        == [type |-> "Timeout", timer |-> t]
CloseMsg(remote)     == [type |-> "CloseConnection", remote |-> remote]

Errors == {"WireFormat", "UnknownService"} \cup FaultKinds
Events == Errors \cup {"RemoteError", "Closed", "ClosedByRemote"}
Timers == [cid : Cids, call : Calls]

Results  == [type : {"WireFormat", "CallResponse"}, frame : Frames]
            \cup [type : {"RequestError"}, err : Errors, cid : Cids, req : Requests]
Messages == Results
            \cup [type : {"Call"}, req : Calls]
            \cup [type : {"Incoming"}, msg : Frames \cup {WireErr}]
            \cup [type : {"Timeout"}, timer : Timers]
            \cup [type : {"CloseConnection"}, remote : BOOLEAN]

Idle            == [at |-> "idle"]
InGrace         == [at |-> "grace"]
Writing(f,then) == [at |-> "write", frame |-> f, then |-> then]
Actors == {Idle, InGrace}
          \cup [at : {"write"}, frame : Frames,
                then : {"call", "send", "callResponse", "error", "errorClose"}]

Listening(at)      == [at |-> at]
Holding(at, m)     == [at |-> at, msg |-> m]
Listeners == [at : {"next", "end", "done", "dropped"}]
             \cup [at : {"gate", "send"}, msg : Frames \cup {WireErr}]

Collecting(at)     == [at |-> at]
Delivering(m)      == [at |-> "send", msg |-> m]
Collectors == [at : {"next", "dropped"}] \cup [at : {"send"}, msg : Results]

Running    == "running"
TaskStates == {Running, "done"} \cup FaultKinds
Tasks      == [frame : Frames, state : TaskStates]

Outcomes == {"unused", "queued", "pending", "sent", "ok", "error", "timeout",
             "cancelled", "failed", "wrong"}

NoChannels == [i \in Cids |-> NoCall]

(* Peer::new, register_services: the listener and the collector run, the   *)
(* ids start at one.                                                       *)
Init ==
  /\ mailbox   = [p \in Peers |-> <<>>]
  /\ actor     = [p \in Peers |-> Idle]
  /\ closed    = [p \in Peers |-> FALSE]
  /\ sink      = [p \in Peers |-> TRUE]
  /\ responses = [p \in Peers |-> NoChannels]
  /\ services  = Registered
  /\ counter   = [p \in Peers |-> 1]
  /\ listener  = [p \in Peers |-> Listening("next")]
  /\ requests  = [p \in Peers |-> {}]
  /\ timers    = [p \in Peers |-> {}]
  /\ results   = [p \in Peers |-> Collecting("next")]
  /\ events    = [p \in Peers |-> {}]
  /\ free      = Slots
  /\ wire      = [e \in Ends |-> <<>>]
  /\ eof       = [e \in Ends |-> FALSE]
  /\ deaf      = [e \in Ends |-> FALSE]
  /\ outcome   = [r \in Requests |-> "unused"]
  /\ handled   = {}

-----------------------------------------------------------------------------
HasRoom(p) == Len(mailbox[p]) < Mailbox
Post(p, m) == mailbox' = [mailbox EXCEPT ![p] = Append(@, m)]

(* The actor is free and takes the first message of its mailbox.           *)
Receive(p, type) == /\ actor[p] = Idle
                    /\ mailbox[p] # <<>>
                    /\ Head(mailbox[p]).type = type
                    /\ mailbox' = [mailbox EXCEPT ![p] = Tail(@)]

Await(p, a) == actor' = [actor EXCEPT ![p] = a]
Emit(p, e)  == events' = [events EXCEPT ![p] = @ \cup {e}]
Learn(r, o) == outcome' = [outcome EXCEPT ![r] = o]

(* Peer::send_msg and send_err can send while outgoing is Some; the slots  *)
(* of the gate; whether Handler<CloseConnection> waits; whether the gate   *)
(* is open.  Each follows a slip the checks are shown to notice.           *)
AlwaysSend(p)    == TRUE
CanSend(p)       == sink[p]

TakeSlots(p, n)  == free' = IF p \in Gated /\ n < 0 THEN free + n ELSE free
AddSlots(p, n)   == free' = IF p \in Gated THEN free + n ELSE free

GraceAgain(p)    == p \in Grace
GraceApplies(p)  == p \in Grace /\ results[p].at # "dropped"

GateOpenAboveOne == free > 1
GateOpen         == free > 0

Waiting(p) == {responses[p][i] : i \in Cids} \ {NoCall}

(* Peer::handle(RequestError): tell the observers, and the remote if it is *)
(* a call.  When the frame is out, some errors close the connection.       *)
ReportError(p, e, cid, req) ==
  /\ Emit(p, e)
  /\ IF cid = NullCid \/ ~CanSend(p)
     THEN UNCHANGED actor
     ELSE Await(p, Writing(ErrorFrame(req, cid),
                           IF e \in {"WireFormat", "Spawn"} THEN "errorClose" ELSE "error"))

(* The end of Handler<CloseConnection>: dropping the nursery's collector   *)
(* cancels every task in it.  The listener takes its half of the           *)
(* connection with it, and what it has not read is lost.  w is the wire    *)
(* with what the handler wrote before it closed.                           *)
DropEverything(p, w) ==
  /\ requests'  = [requests EXCEPT ![p] = {}]
  /\ timers'    = [timers EXCEPT ![p] = {}]
  /\ results'   = [results EXCEPT ![p] = Collecting("dropped")]
  /\ listener'  = [listener EXCEPT ![p] = Listening("dropped")]
  /\ services'  = [services EXCEPT ![p] = {}]
  /\ responses' = [responses EXCEPT ![p] = NoChannels]
  /\ outcome'   = [r \in Requests |-> IF r \in Waiting(p) THEN "cancelled" ELSE outcome[r]]
  /\ wire'      = [w EXCEPT ![p] = <<>>]
  /\ deaf'      = [deaf EXCEPT ![p] = TRUE]
  /\ eof'       = [eof EXCEPT ![Remote[p]] = TRUE]
  /\ Await(p, Idle)

(* Handler<CloseConnection>.  It returns at the first opportunity, or when *)
(* the grace period is over.  Closing the sink may itself fail.            *)
Close(p, remote, w) ==
  /\ closed' = [closed EXCEPT ![p] = TRUE]
  /\ sink' = [sink EXCEPT ![p] = FALSE]
  /\ \E failure \in IF sink[p] /\ deaf[Remote[p]] THEN {{}, {"WireFormat"}} ELSE {{}} :
       events' = [events EXCEPT ![p] =
                    @ \cup {IF remote THEN "ClosedByRemote" ELSE "Closed"} \cup failure]
  /\ IF GraceApplies(p)
     THEN /\ Await(p, InGrace)
          /\ eof' = [eof EXCEPT ![Remote[p]] = @ \/ deaf[p]]
          /\ wire' = w
          /\ UNCHANGED <<taskVars, services, responses, outcome, deaf>>
     ELSE DropEverything(p, w)

-----------------------------------------------------------------------------
(* Handler<Call>, up to where it waits for the connection.                 *)
HandleCall(p) ==
  /\ Receive(p, "Call")
  /\ ~closed[p]
  /\ LET frame == RequestFrame(Head(mailbox[p]).req, FreshCid(counter[p]))
     IN  Await(p, Writing(frame, "call"))
  /\ counter' = [counter EXCEPT ![p] = CounterAfter(@)]
  /\ UNCHANGED <<closed, sink, responses, services, taskVars, wireVars, events, free,
                 outcome, handled>>

RefuseCallSilently(p) ==
  /\ Receive(p, "Call")
  /\ closed[p]
  /\ UNCHANGED <<actor, closed, sink, responses, services, counter, taskVars, wireVars,
                 events, free, outcome, handled>>

(* Handler<Call> on a closed peer: Err( PeerErr::ConnectionClosed ).       *)
RefuseCall(p) ==
  /\ Receive(p, "Call")
  /\ closed[p]
  /\ Learn(Head(mailbox[p]).req, "failed")
  /\ UNCHANGED <<actor, closed, sink, responses, services, counter, taskVars, wireVars,
                 events, free, handled>>

(* Handler<WireFormat>: a send of a user, or an error passed on by a relay.*)
HandleWireFormat(p) ==
  /\ Receive(p, "WireFormat")
  /\ CanSend(p)
  /\ Await(p, Writing(Head(mailbox[p]).frame, "send"))
  /\ UNCHANGED <<closed, sink, responses, services, counter, taskVars, wireVars, events,
                 free, outcome, handled>>

(* Without a sink it returns an error, which a send discards.              *)
RefuseWireFormat(p) ==
  /\ Receive(p, "WireFormat")
  /\ ~CanSend(p)
  /\ LET r == Head(mailbox[p]).frame.req
     IN  IF Origin[r] = p THEN Learn(r, "failed") ELSE UNCHANGED outcome
  /\ UNCHANGED <<actor, closed, sink, responses, services, counter, taskVars, wireVars,
                 events, free, handled>>

(* Handler<CallResponse>.  The slot is given back even if nothing is sent. *)
HandleCallResponse(p) ==
  /\ Receive(p, "CallResponse")
  /\ CanSend(p)
  /\ Await(p, Writing(Head(mailbox[p]).frame, "callResponse"))
  /\ UNCHANGED <<closed, sink, responses, services, counter, taskVars, wireVars, events,
                 free, outcome, handled>>

DropCallResponse(p) ==
  /\ Receive(p, "CallResponse")
  /\ ~CanSend(p)
  /\ AddSlots(p, 1)
  /\ UNCHANGED <<actor, closed, sink, responses, services, counter, taskVars, wireVars,
                 events, outcome, handled>>

(* Handler<RequestError>: an error that a request task returned.           *)
HandleRequestError(p) ==
  /\ Receive(p, "RequestError")
  /\ LET m == Head(mailbox[p]) IN ReportError(p, m.err, m.cid, m.req)
  /\ UNCHANGED <<closed, sink, responses, services, counter, taskVars, wireVars, free,
                 outcome, handled>>

ResolveAndKeep(p, cid, r, o) ==
  /\ Learn(responses[p][cid], IF responses[p][cid] = r THEN o ELSE "wrong")
  /\ UNCHANGED responses

(* Take the channel that waits for cid out of the map and answer on it.  A *)
(* channel answered on behalf of another call is "wrong".                  *)
Resolve(p, cid, r, o) ==
  /\ responses' = [responses EXCEPT ![p][cid] = NoCall]
  /\ Learn(responses[p][cid], IF responses[p][cid] = r THEN o ELSE "wrong")

(* Handler<Timeout>                                                        *)
HandleTimeout(p) ==
  /\ Receive(p, "Timeout")
  /\ LET t == Head(mailbox[p]).timer
     IN  IF responses[p][t.cid] # NoCall
         THEN Resolve(p, t.cid, t.call, "timeout")
         ELSE UNCHANGED <<responses, outcome>>
  /\ UNCHANGED <<actor, closed, sink, services, counter, taskVars, wireVars, events, free,
                 handled>>

HandleCloseConnection(p) ==
  /\ Receive(p, "CloseConnection")
  /\ Close(p, Head(mailbox[p]).remote, wire)
  /\ UNCHANGED <<counter, free, handled>>

GraceUntilAllEnd(p) ==
  /\ actor[p] = InGrace
  /\ requests[p] = {} /\ timers[p] = {} /\ listener[p].at = "done"
  /\ DropEverything(p, wire)
  /\ UNCHANGED <<mailbox, closed, sink, counter, events, free, handled>>

(* The grace period is over, or every task in the nursery has ended.       *)
GraceOver(p) ==
  /\ actor[p] = InGrace
  /\ DropEverything(p, wire)
  /\ UNCHANGED <<mailbox, closed, sink, counter, events, free, handled>>

-----------------------------------------------------------------------------
(* Handler<Incoming>: a message the listener read off the connection.      *)
Incoming(p) == Head(mailbox[p]).msg

IgnoreIncoming(p) ==
  /\ Receive(p, "Incoming")
  /\ closed[p]
  /\ UNCHANGED <<actor, closed, sink, responses, services, counter, taskVars, wireVars,
                 events, free, outcome, handled>>

(* The codec or the connection failed: a RequestError without cid.         *)
IncomingFailure(p) ==
  /\ Receive(p, "Incoming")
  /\ ~closed[p]
  /\ Incoming(p) = WireErr
  /\ Emit(p, "WireFormat")
  /\ UNCHANGED <<actor, closed, sink, responses, services, counter, taskVars, wireVars,
                 free, outcome, handled>>

ReceiveFrame(p, kind) == /\ Receive(p, "Incoming")
                         /\ ~closed[p]
                         /\ Incoming(p) # WireErr
                         /\ Kind(Incoming(p)) = kind

Nurse(p, f) == requests' = [requests EXCEPT ![p] = @ \cup {[frame |-> f, state |-> Running]}]

(* Errors that call_service, send_service and the nursery return at once.  *)
Rejections(kinds, f, p) ==
  IF f.sid \in services[p] THEN Faults \cap kinds ELSE {"UnknownService"}

(* Peer::incoming_send.  Its errors are for the observers only.            *)
IncomingSend(p) ==
  /\ ReceiveFrame(p, "IncomingSend")
  /\ LET f == Incoming(p)
     IN  \/ f.sid \in services[p] /\ Nurse(p, f) /\ UNCHANGED events
         \/ /\ \E e \in Rejections({"NoHandler", "Deserialize", "Spawn"}, f, p) : Emit(p, e)
            /\ UNCHANGED requests
  /\ UNCHANGED <<actor, closed, sink, responses, services, counter, listener, timers,
                 results, wireVars, free, outcome, handled>>

(* Peer::incoming_call.  It takes a slot whatever becomes of the call.     *)
IncomingCall(p) ==
  /\ ReceiveFrame(p, "IncomingCall")
  /\ AddSlots(p, -1)
  /\ LET f == Incoming(p)
     IN  \/ f.sid \in services[p] /\ Nurse(p, f) /\ UNCHANGED <<actor, events>>
         \/ /\ \E e \in Rejections({"NoHandler", "Deserialize", "PubSubNoCall", "Spawn"}, f, p) :
                 ReportError(p, e, f.cid, f.req)
            /\ UNCHANGED requests
  /\ UNCHANGED <<closed, sink, responses, services, counter, listener, timers, results,
                 wireVars, outcome, handled>>

(* The answer to a call, dropped if nobody waits for it any more.          *)
IncomingResponse(p) ==
  /\ ReceiveFrame(p, "CallResponse")
  /\ LET f == Incoming(p)
     IN  IF responses[p][f.cid] # NoCall
         THEN Resolve(p, f.cid, f.req, "ok")
         ELSE UNCHANGED <<responses, outcome>>
  /\ UNCHANGED <<actor, closed, sink, services, counter, taskVars, wireVars, events, free,
                 handled>>

(* Peer::remote_conn_err: an error for the caller if one waits for it, for *)
(* the observers otherwise; unreadable, it is for the observers only.      *)
IncomingError(p) ==
  /\ ReceiveFrame(p, "ConnectionError")
  /\ LET f == Incoming(p)
     IN  \/ responses[p][f.cid] # NoCall /\ Resolve(p, f.cid, f.req, "error") /\ UNCHANGED events
         \/ /\ \/ responses[p][f.cid] = NoCall /\ Emit(p, "RemoteError")
               \/ "Deserialize" \in Faults /\ Emit(p, "Deserialize")
            /\ UNCHANGED <<responses, outcome>>
  /\ UNCHANGED <<actor, closed, sink, services, counter, taskVars, wireVars, free, handled>>

-----------------------------------------------------------------------------
(* Peer::send_msg and send_err: the sink takes the frame when there is     *)
(* room, or loses it to a connection nobody reads any more.                *)
Writable(p) == deaf[Remote[p]] \/ Len(wire[Remote[p]]) < WireRoom

WireWith(p, f) ==
  [wire EXCEPT ![Remote[p]] = IF deaf[Remote[p]] THEN @ ELSE Append(@, f)]

PutOnWire(p, f) == Writable(p) /\ wire' = WireWith(p, f)

WritingFor(p, then) == actor[p].at = "write" /\ actor[p].then = then

(* The rest of Handler<Call>: spawn the timer and store the channel, which *)
(* drops one that was stored under the same id.                            *)
CallSent(p) ==
  /\ WritingFor(p, "call")
  /\ LET f == actor[p].frame
     IN  /\ PutOnWire(p, f)
         /\ timers' = [timers EXCEPT ![p] = @ \cup {[cid |-> f.cid, call |-> f.req]}]
         /\ responses' = [responses EXCEPT ![p][f.cid] = f.req]
         /\ outcome' = [r \in Requests |->
                          CASE r = f.req -> "pending"
                            [] r # f.req /\ r = responses[p][f.cid] -> "cancelled"
                            [] OTHER -> outcome[r]]
  /\ Await(p, Idle)
  /\ UNCHANGED <<mailbox, closed, sink, services, counter, listener, requests, results,
                 eof, deaf, events, free, handled>>

CallKeptWithoutTimer(p) ==
  /\ WritingFor(p, "call")
  /\ "Spawn" \in Faults
  /\ PutOnWire(p, actor[p].frame)
  /\ responses' = [responses EXCEPT ![p][actor[p].frame.cid] = actor[p].frame.req]
  /\ Learn(actor[p].frame.req, "pending")
  /\ Await(p, Idle)
  /\ UNCHANGED <<mailbox, closed, sink, services, counter, taskVars, eof, deaf, events,
                 free, handled>>

(* Handler<Call> when the timer cannot be spawned.  The call has been sent.*)
CallSentNoTimer(p) ==
  /\ WritingFor(p, "call")
  /\ "Spawn" \in Faults
  /\ PutOnWire(p, actor[p].frame)
  /\ Learn(actor[p].frame.req, "failed")
  /\ Await(p, Idle)
  /\ UNCHANGED <<mailbox, closed, sink, responses, services, counter, taskVars, eof, deaf,
                 events, free, handled>>

FrameSent(p) ==
  /\ WritingFor(p, "send")
  /\ LET f == actor[p].frame
     IN  /\ PutOnWire(p, f)
         /\ IF Origin[f.req] = p THEN Learn(f.req, "sent") ELSE UNCHANGED outcome
  /\ Await(p, Idle)
  /\ UNCHANGED <<mailbox, closed, sink, responses, services, counter, taskVars, eof, deaf,
                 events, free, handled>>

ResponseSent(p) ==
  /\ WritingFor(p, "callResponse")
  /\ PutOnWire(p, actor[p].frame)
  /\ AddSlots(p, 1)
  /\ Await(p, Idle)
  /\ UNCHANGED <<mailbox, closed, sink, responses, services, counter, taskVars, eof, deaf,
                 events, outcome, handled>>

ErrorSent(p) ==
  /\ WritingFor(p, "error")
  /\ PutOnWire(p, actor[p].frame)
  /\ Await(p, Idle)
  /\ UNCHANGED <<mailbox, closed, sink, responses, services, counter, taskVars, eof, deaf,
                 events, free, outcome, handled>>

(* send_err with close: the frame first, then Handler<CloseConnection>.    *)
ErrorSentThenClose(p) ==
  /\ WritingFor(p, "errorClose")
  /\ Writable(p)
  /\ Close(p, FALSE, WireWith(p, actor[p].frame))
  /\ UNCHANGED <<mailbox, counter, free, handled>>

(* The connection is broken: Handler<Call> and Handler<WireFormat> return  *)
(* an error to whoever made the request.                                   *)
WriteFails(p) ==
  /\ WritingFor(p, "call") \/ WritingFor(p, "send")
  /\ deaf[Remote[p]]
  /\ LET r == actor[p].frame.req
     IN  IF Origin[r] = p THEN Learn(r, "failed") ELSE UNCHANGED outcome
  /\ Await(p, Idle)
  /\ UNCHANGED <<mailbox, closed, sink, responses, services, counter, taskVars, wireVars,
                 events, free, handled>>

-----------------------------------------------------------------------------
(* Peer::listen_incoming.  The gate holds up every message, whatever it is.*)
ListenNext(p) ==
  /\ listener[p] = Listening("next")
  /\ wire[p] # <<>>
  /\ listener' = [listener EXCEPT ![p] =
                    Holding(IF p \in Gated THEN "gate" ELSE "send", Head(wire[p]))]
  /\ wire' = [wire EXCEPT ![p] = Tail(@)]
  /\ UNCHANGED <<actorVars, requests, timers, results, eof, deaf, events, free, outcome,
                 handled>>

(* bp.wait(), as Gate.tla has it.                                          *)
PassGate(p) ==
  /\ listener[p].at = "gate"
  /\ GateOpen
  /\ listener' = [listener EXCEPT ![p].at = "send"]
  /\ UNCHANGED <<actorVars, requests, timers, results, wireVars, events, free, outcome,
                 handled>>

ListenSend(p) ==
  /\ listener[p].at = "send"
  /\ HasRoom(p)
  /\ Post(p, IncomingMsg(listener[p].msg))
  /\ listener' = [listener EXCEPT ![p] = Listening("next")]
  /\ UNCHANGED <<actor, closed, sink, responses, services, counter, requests, timers,
                 results, wireVars, events, free, outcome, handled>>

ListenEndSilently(p) ==
  /\ listener[p] = Listening("next")
  /\ wire[p] = <<>>
  /\ eof[p]
  /\ listener' = [listener EXCEPT ![p] = Listening("done")]
  /\ deaf' = [deaf EXCEPT ![p] = TRUE]
  /\ UNCHANGED <<actorVars, requests, timers, results, wire, eof, events, free, outcome,
                 handled>>

(* The stream ends: tell the peer, then drop the reading half.             *)
ListenEnd(p) ==
  /\ listener[p] = Listening("next")
  /\ wire[p] = <<>>
  /\ eof[p]
  /\ HasRoom(p)
  /\ Post(p, CloseMsg(TRUE))
  /\ listener' = [listener EXCEPT ![p] = Listening("done")]
  /\ deaf' = [deaf EXCEPT ![p] = TRUE]
  /\ eof' = [eof EXCEPT ![Remote[p]] = @ \/ ~sink[p]]
  /\ UNCHANGED <<actor, closed, sink, responses, services, counter, requests, timers,
                 results, wire, events, free, outcome, handled>>

ListenerStep(p) == ListenNext(p) \/ PassGate(p) \/ ListenSend(p) \/ ListenEnd(p)

-----------------------------------------------------------------------------
(* The nursed tasks.  A task that processes a request has the local actor, *)
(* or the peer it relays to, handle it, and then returns a result.         *)
Processed(f) == IF Kind(f) = "IncomingSend"
                THEN {"done"} \cup (Faults \cap {"HandlerDead"})
                ELSE {"done"} \cup (Faults \cap {"HandlerDead", "Serialize", "RelayGone",
                                                 "RelayedError"})

Serve(p, t) ==
  /\ t.state = Running
  /\ \E s \in Processed(t.frame) :
       /\ requests' = [requests EXCEPT ![p] = (@ \ {t}) \cup {[t EXCEPT !.state = s]}]
       /\ handled' = IF s \in {"done", "Serialize"} THEN handled \cup {t.frame.req} ELSE handled
  /\ UNCHANGED <<actorVars, listener, timers, results, wireVars, events, free, outcome>>

(* The Result<Response, PeerErr> of a finished task, none for a send that  *)
(* was processed.                                                          *)
ResultOf(t) ==
  LET f == t.frame
  IN  CASE t.state = "done" /\ Kind(f) = "IncomingCall" ->
             {CallResponseMsg(ResponseFrame(f.req, f.cid))}
        [] t.state = "done" /\ Kind(f) # "IncomingCall" -> {}
        [] t.state = "RelayedError" -> {WireFormatMsg(ErrorFrame(f.req, f.cid))}
        [] OTHER -> {RequestErrorMsg(t.state, f)}

CollectAgain(p, t) ==
  /\ results[p].at = "next"
  /\ t.state # Running
  /\ ResultOf(t) # {}
  /\ results' = [results EXCEPT ![p] = Delivering(CHOOSE m \in ResultOf(t) : TRUE)]
  /\ UNCHANGED <<actorVars, listener, requests, timers, wireVars, events, free, outcome,
                 handled>>

(* Peer::listen_request_results takes results as tasks end, in any order.  *)
Collect(p, t) ==
  /\ results[p].at = "next"
  /\ t.state # Running
  /\ requests' = [requests EXCEPT ![p] = @ \ {t}]
  /\ results' = [results EXCEPT ![p] =
                   IF ResultOf(t) = {} THEN @ ELSE Delivering(CHOOSE m \in ResultOf(t) : TRUE)]
  /\ UNCHANGED <<actorVars, listener, timers, wireVars, events, free, outcome, handled>>

DeliverResult(p) ==
  /\ results[p].at = "send"
  /\ HasRoom(p)
  /\ Post(p, results[p].msg)
  /\ results' = [results EXCEPT ![p] = Collecting("next")]
  /\ UNCHANGED <<actor, closed, sink, responses, services, counter, listener, requests,
                 timers, wireVars, events, free, outcome, handled>>

(* The delay of a call is over.  Timers run on after the call is answered. *)
TimerFires(p, t) ==
  /\ HasRoom(p)
  /\ Post(p, TimeoutMsg(t))
  /\ timers' = [timers EXCEPT ![p] = @ \ {t}]
  /\ UNCHANGED <<actor, closed, sink, responses, services, counter, listener, requests,
                 results, wireVars, events, free, outcome, handled>>

-----------------------------------------------------------------------------
(* The users of the peer: addresses of remote services, and whoever closes *)
(* the connection.                                                         *)
UserCall(p, c) ==
  /\ c \in Calls /\ Origin[c] = p
  /\ outcome[c] = "unused"
  /\ HasRoom(p)
  /\ Post(p, CallMsg(c))
  /\ Learn(c, "queued")
  /\ UNCHANGED <<actor, closed, sink, responses, services, counter, taskVars, wireVars,
                 events, free, handled>>

UserSend(p, s) ==
  /\ s \in Sends /\ Origin[s] = p
  /\ outcome[s] = "unused"
  /\ HasRoom(p)
  /\ Post(p, WireFormatMsg(RequestFrame(s, NullCid)))
  /\ Learn(s, "queued")
  /\ UNCHANGED <<actor, closed, sink, responses, services, counter, taskVars, wireVars,
                 events, free, handled>>

UserClose(p) ==
  /\ p \in Closers
  /\ ~closed[p]
  /\ \A i \in DOMAIN mailbox[p] : mailbox[p][i] # CloseMsg(FALSE)
  /\ HasRoom(p)
  /\ Post(p, CloseMsg(FALSE))
  /\ UNCHANGED <<actor, closed, sink, responses, services, counter, taskVars, wireVars,
                 events, free, outcome, handled>>

-----------------------------------------------------------------------------
Handle(p) ==
  \/ HandleCall(p)         \/ RefuseCall(p)
  \/ HandleWireFormat(p)   \/ RefuseWireFormat(p)
  \/ HandleCallResponse(p) \/ DropCallResponse(p)
  \/ HandleRequestError(p) \/ HandleTimeout(p)
  \/ HandleCloseConnection(p)
  \/ IgnoreIncoming(p)     \/ IncomingFailure(p)
  \/ IncomingSend(p)       \/ IncomingCall(p)
  \/ IncomingResponse(p)   \/ IncomingError(p)

Resume(p) ==
  \/ CallSent(p)  \/ CallSentNoTimer(p) \/ FrameSent(p)  \/ ResponseSent(p)
  \/ ErrorSent(p) \/ ErrorSentThenClose(p) \/ WriteFails(p)

ActorStep(p) == Handle(p) \/ Resume(p)

PeerStep(p) ==
  \/ ActorStep(p) \/ GraceOver(p)
  \/ ListenerStep(p)
  \/ \E t \in requests[p] : Serve(p, t) \/ Collect(p, t)
  \/ DeliverResult(p)
  \/ \E t \in timers[p] : TimerFires(p, t)

UserStep(p) == \/ \E r \in Requests : UserCall(p, r) \/ UserSend(p, r)
               \/ UserClose(p)

-----------------------------------------------------------------------------
(* Shape of the state.                                                     *)
TypeOK ==
  /\ mailbox   \in [Peers -> Seq(Messages)]
  /\ actor     \in [Peers -> Actors]
  /\ closed    \in [Peers -> BOOLEAN]
  /\ sink      \in [Peers -> BOOLEAN]
  /\ responses \in [Peers -> [Cids -> Calls \cup {NoCall}]]
  /\ services  \in [Peers -> SUBSET Services]
  /\ counter   \in [Peers -> Cids]
  /\ listener  \in [Peers -> Listeners]
  /\ requests  \in [Peers -> SUBSET Tasks]
  /\ timers    \in [Peers -> SUBSET Timers]
  /\ results   \in [Peers -> Collectors]
  /\ events    \in [Peers -> SUBSET Events]
  /\ free      \in Int
  /\ wire      \in [Ends -> Seq(Frames \cup {WireErr})]
  /\ eof       \in [Ends -> BOOLEAN]
  /\ deaf      \in [Ends -> BOOLEAN]
  /\ outcome   \in [Requests -> Outcomes]
  /\ handled   \subseteq Requests

Final == {"sent", "ok", "error", "timeout", "cancelled", "failed", "wrong"}

InMailbox(p, m) == \E i \in DOMAIN mailbox[p] : mailbox[p][i] = m
Timed(p, t)     == t \in timers[p] \/ InMailbox(p, TimeoutMsg(t))

(* call.rs:114-123, timeout.rs: the caller of a call that is out holds a   *)
(* channel that the map still knows, under one id, and that a timer, or    *)
(* the message of a timer, will take out of the map whatever the remote    *)
(* does; and the map knows no other channel.                               *)
PendingCallsAreTimed ==
  \A p \in Peers :
    /\ \A c \in Calls : Origin[c] = p /\ outcome[c] = "pending" =>
         \E i \in Cids : responses[p][i] = c /\ Timed(p, [cid |-> i, call |-> c])
    /\ \A i \in Cids : responses[p][i] # NoCall =>
         /\ i # NullCid
         /\ Origin[responses[p][i]] = p
         /\ outcome[responses[p][i]] = "pending"
         /\ \A j \in Cids : responses[p][j] = responses[p][i] => i = j

(* incoming.rs:63-95, timeout.rs:33: a caller is only ever told of the     *)
(* answer, the error or the timeout of its own call.                       *)
NoCrossedAnswers == \A c \in Calls : outcome[c] # "wrong"

(* A request is settled once: no late answer, timeout or shutdown changes  *)
(* what the caller was told.                                               *)
SettledOnce ==
  [][\A r \in Requests : outcome[r] \in Final => outcome'[r] = outcome[r]]_outcome

(* call.rs, timeout.rs, peer.rs:347-350: whoever calls is told something,  *)
(* if only that the call timed out.                                        *)
CallsSettle ==
  \A c \in Calls : Origin[c] \in Peers =>
    (outcome[c] = "queued" ~> outcome[c] \in Final)

(* close_connection.rs: a peer that is open has its sink, and one that has *)
(* closed, once its grace period is over, keeps nothing alive: no task, no *)
(* caller, no service that could hold its address.                         *)
ClosedIsClean ==
  \A p \in Peers :
    /\ closed[p] <=> ~sink[p]
    /\ results[p].at = "dropped" <=> (closed[p] /\ actor[p] # InGrace)
    /\ closed[p] => \/ actor[p] = InGrace
                    \/ /\ actor[p] = Idle
                       /\ requests[p] = {} /\ timers[p] = {} /\ services[p] = {}
                       /\ responses[p] = NoChannels
                       /\ listener[p].at = "dropped"
                       /\ deaf[p] /\ eof[Remote[p]]

(* peer_event.rs:6-8: nothing is sent over the connection after Closed or  *)
(* ClosedByRemote was reported.                                            *)
SilentAfterClose ==
  [][\A p \in Peers : events[p] \cap {"Closed", "ClosedByRemote"} # {} =>
       Len(wire'[Remote[p]]) <= Len(wire[Remote[p]])]_<<events, wire>>

(* The calls p took a slot for and has not finished with: being processed, *)
(* processed but not collected, and answers and errors on their way out.   *)
HoldsSlot(m) == \/ m.type = "CallResponse"
                \/ m.type = "RequestError" /\ m.cid # NullCid
                \/ m.type = "WireFormat" /\ m.frame.sid = NullSid

Owing(p) ==
    Cardinality({t \in requests[p] : Kind(t.frame) = "IncomingCall"})
  + (IF results[p].at = "send" /\ HoldsSlot(results[p].msg) THEN 1 ELSE 0)
  + Cardinality({i \in DOMAIN mailbox[p] : HoldsSlot(mailbox[p][i])})
  + (IF WritingFor(p, "callResponse") THEN 1 ELSE 0)

(* incoming.rs:235-238, call_response.rs:47-52: across tasks, collector,   *)
(* mailbox and handler no call gives back more than the slot it took, and  *)
(* none is lost as long as no request fails and the peer does not close.   *)
SlotsBalanced ==
  \A p \in Gated : Gated = {p} =>
    /\ free + Owing(p) <= Slots
    /\ events[p] \cap Errors = {} /\ ~closed[p] /\ "RelayedError" \notin Faults =>
         free + Owing(p) = Slots
=============================================================================
