# A TLA+ development of thespis_remote

`thespis_remote` lets actors of one process send messages to actors of another.
A connection has a *peer* at each end. A peer is itself an actor: it puts
requests of local users on the connection, hands requests that come in to local
actors, and matches the answers with the calls that wait for them. Paths below
are relative to `src/`, the root of the repository (so the crate's sources are
`src/src/...`).

## 1. Inventory

| component | state | operations | modelled in |
|---|---|---|---|
| Peer actor (`src/peer.rs`, `src/peer/*.rs`) | `closed`, `outgoing`, `responses` (the channel waiting for each `ConnID`), `services`, `conn_id_counter`, `nursery_stream`, the mailbox | handlers for `Call`, `Wf`, `CallResponse`, `Incoming`, `RequestError`, `Timeout`, `CloseConnection` | `Peer` |
| Tasks of a peer | the nursery: `listen_incoming`, one task per incoming request, one timer per outgoing call; `listen_request_results` outside it | read, pass the gate, forward; process; collect results; time out | `Peer`, `BackPressure` |
| Back pressure (`src/peer/backpressure.rs`) | an atomic counter, a queue of wakers, an async mutex | `wait`, `add_slots`, `remove_slots` | `Gate`, `BackPressure` |
| Wire format (`src/wire_format.rs`, `src/wire_format/`) | none; the `ConnID` counter is the peer's | the kind of a frame, the special ids | `WireFormat` |
| Service map macro, `RemoteAddr` (`src/service_map_macro.rs`, `src/service_map.rs`) | registered handlers | `send_service`, `call_service`; `RemoteAddr`'s send and call | in part: the request tasks and users of `Peer` |
| `RelayMap` (`src/relay_map.rs`, `src/service_handler.rs`) | services and how to reach their peer | relays a request to another peer | `Relay` |
| `PubSub` (`src/pub_sub.rs`) | subscribers, two channels of run time changes | subscribe, unsubscribe, fan-out of a send | `PubSub` |
| Codec (`src/thes_wf.rs`, `src/thes_wf/`) | partial frames, the buffers | decode and encode over reads and writes of any size | `Encoder`, `Codec`, `FrameChannel` |
| Error types (`peer_err.rs`, `connection_error.rs`, `wire_err.rs`) | none | conversion from local to remote errors | in part: the kinds that take different paths |
| Relay program (`examples/relay/src/relay.rs`) | two peers | serves until its client is gone, then closes the provider | `Relay` |
| Chat server (`examples/chat/chat_server/src/`, `chat_format`) | `Server::users`; `User::addr`, `peer_addr` for each connection | join, rename, talk, close; broadcasts | `ChatServer` |
| Chat client (`examples/chat/chat_client/src/`) | `App::connection`, `UserList::users`, `ChatWindow::users`, which form is shown | what the user submits, what the server tells | `Chat` |

How they interact. `listen_incoming` takes a frame off the connection, waits for
the gate if the peer has one, and sends it to the peer's mailbox as `Incoming`.
The handler looks at the kind of the frame. A request becomes a nursed task; the
result of the task goes through `listen_request_results` back into the same
mailbox as `CallResponse`, `Wf` or `RequestError`, whose handlers write to the
connection. An answer resolves the channel in `responses`. A timer puts a
`Timeout` into the mailbox. The end of the stream puts a
`CloseConnection{ remote: true }` there. The gate may be shared by several peers
and then couples them. The peer is exclusive while one of its handlers runs, also
while that handler waits for room on the connection or for the grace period.

What is hard. The mailbox is the meeting point of five kinds of senders, in any
order: late answers, early timeouts, and everything queued behind a close. A slot
of the gate is *checked* in one task, *taken* in another, with a mailbox between,
and *given back* in a third. The gate's counter and its waker queue are not
changed together. A close cancels tasks at whatever point they are. Ids wrap. A
handler that waits for the connection stops everything else in the peer. The codec
may be left inside a message by any read or write. `PubSub`, the relay and the chat
send along several paths at once, of which one may overtake another.
`PROJECT.json` lists these under `hazards`, each at its line.

What makes each component correct: 

- *gate*: slots are conserved; a slot that is free is not left unused while
  somebody waits; no more is admitted than the mailboxes can hold; whoever waits
  gets through.
- *peer, as a caller*: a call is settled once, with its own answer, its own
  error, its own timeout or a cancellation; always eventually; and nothing stays
  in `responses` that no timer will clear.
- *peer, as a callee*: a request is processed, a call is answered once at most
  and, unless something fails, it is answered.
- *peer, closing*: nothing is written after the close was reported; no task, no
  channel and no service outlives the close and its grace period; a connection
  that the remote has closed is noticed.
- *codec*: what is decoded is what was encoded, however it is cut up; the end of
  the connection is told from a message cut short by nothing lost; no frame is made
  of a stream that has lost step.
- *relay*: the answer reaches the client that asked, under its id, and says what
  became of the call; every relayed call ends; the two connections end together.
- *PubSub*: whoever was subscribed gets the message whatever becomes of the others;
  messages that do not overlap stay in order; who left stays out.
- *chat*: nicks are unique; the server survives every client that waits for its
  welcome before it asks for another nick; the page shows the users of the server and
  knows whoever leaves.

## 2. Modules

In the order in which they depend on each other:

- `Gate` - the abstract gate. Every call is in one place (`wire`, `waiting`,
  `admitted`, `running`, `answered`, `lost`), and `free` counts slots.
- `BackPressure` - `backpressure.rs` at the grain of its atomic operations, with
  the listeners that wait and the peers that take and give slots. It INSTANCEs
  `Gate` (`Abstract`) and implements it.
- `WireFormat` - frames, their kinds, the special ids, the id counter with its
  wrap-around. It has no state.
- `Peer` - the handlers and tasks of a peer. All variables are functions of the
  peer, so that the module serves for one peer and for several joined together.
- `PeerAlone` - `Peer` with an environment at the other end of each connection:
  any program that speaks the protocol.
- `Connection` - two `Peer`s at the two ends of one connection: a peer reads
  `wire[p]` and writes `wire[Remote[p]]`, and here `Remote` leads back.
- `Relay` - `PeerAlone` with two peers, of which the request tasks of one
  (`Front`) make requests of the other (`Back`).
- `FrameChannel` - the abstract channel of frames that two peers rely on.
- `Encoder`, `Codec` - the sink, and the two decoders reading what it writes, byte
  by byte. `Codec` INSTANCEs `FrameChannel` (`Channel`) and implements it.
- `PubSub` - the service map that fans out, its two channels, its subscribers.
- `ChatServer` - the server, with the clients that are not watched.
- `Chat` - `ChatServer` with the page of one client.
- `MCBackPressure`, `MCPeerAlone`, `MCConnection`, `MCRelay`, `MCCodec`,
  `MCPubSub`, `MCChat` - small instances for TLC.
- `BackPressureProofs` - theorems about `BackPressure`.
- `PeerProofs` - lemmas about `Peer`: what a step of a peer preserves, whatever is
  at the other end of its connection.
- `PeerAloneProofs`, `ConnectionProofs`, `RelayProofs` - theorems about `PeerAlone`,
  `Connection` and `Relay`, which rest on those lemmas.
- `PubSubProofs`, `ChatProofs`, `CodecProofs` - theorems about `PubSub`, `Chat` and
  `Codec`.

Every safety property that a run checks is stated by a theorem. What is left to the
model checker alone is liveness (end of section 6).

## 3. State and actions against the code

### BackPressure

`available`, `wakers`, `lock` are the fields of `BackPressure`; a waker is named
by the task it wakes. `pc` is where each `listen_incoming` task stands: at
`incoming.next()` (`listen`), at the mutex (`lock`), in `BPInner::poll` before
and after the load (`poll`, `read`), suspended (`pending`), at `addr.send`
(`send`), dropped (`gone`). `seen` is `old` in `poll`. `woken` are tasks whose
waker was called and which the executor has not polled yet. `waking` counts
threads in `add_slots` between the `fetch_add` and the `pop_front`. `stage` is
where each incoming call is; `leaked` marks one whose task was cancelled while
it held a slot.

`Arrive`, `Lock`, `Load`, `Ready`, `Register`, `Repoll`, `Deliver` are the
listener; a poll is two steps because another thread may run in between.
`RemoveSlot` is `incoming_call`, `AddSlot` and `Wake` are the two halves of
`add_slots`, `ShutDown` drops a listener with its peer. With `SingleThread` a
poll and `add_slots` are atomic towards other tasks.

### Peer

| model | code |
|---|---|
| `actor[p]` | `Idle`, or where the current handler waits: in `send_msg`/`send_err` (`write`), in the grace period (`grace`) |
| `closed`, `responses`, `services`, `counter` | the fields of `Peer` |
| `sink[p]` | `outgoing.is_some()` |
| `listener[p]` | `listen_incoming`: at the stream, at the gate, at the mailbox, ended, dropped |
| `requests[p]` | nursed tasks of incoming requests, running or with their result |
| `timers[p]` | nursed timer tasks; they keep running after the answer, as in the code |
| `results[p]` | `listen_request_results`; `dropped` is `nursery_stream == None` |
| `events[p]` | kinds of `PeerEvent` reported so far |
| `free` | `BackPressure::available` |
| `wire`, `eof`, `deaf` | the two directions of the connection: frames under way, write side closed, read side dropped |
| `outcome`, `handled` | ghost: what the maker of each request knows, and which requests an actor has processed |

A handler is one action up to its first wait for the outside, and one from
there: `HandleCall`/`CallSent`, `HandleCallResponse`/`ResponseSent`,
`HandleRequestError`/`ErrorSent` or `ErrorSentThenClose`,
`HandleCloseConnection`/`GraceOver`. Early returns are actions of their own:
`RefuseCall`, `RefuseWireFormat`, `DropCallResponse`, `IgnoreIncoming`,
`CallSentNoTimer`, `WriteFails`. `Incoming` has one action per kind of frame.
Request errors carry their kind only (`Errors`); `Faults` says which of them
may occur in an instance. Handlers that the code calls directly
(`self.handle( RequestError )`, `CloseConnection` from `send_err`) are part of
the calling action.

The gate inside `Peer` is that of `Gate`: `PassGate` needs `free > 0`,
`IncomingCall` takes a slot, the handling of `CallResponse` gives it back.
`BackPressure` shows where the code is this gate (its safety always, its
liveness on one thread while no peer closes).

### Encoder and Codec

A byte is the message it belongs to and its place in it. `buffer` is
`Encoder::buffer` with the position written so far; `at`, `got` and `goal` are the
state of the decoder: what it reads, how much of it, and how much that must be.
`kind` chooses `Decoder` or `DecoderNoHeap`, whose states are the same and whose
failures are not. `line` is the transport: up, broken or ended. `Write` is one
`poll_write`, `ReadPart`, `ReadLength`, `ReadMessage` one `poll_read` and what
`poll_next` makes of it. Bytes that are no length field are read as any number in
`Garbage`. The states `panicked` (an `unwrap` or assertion that fails), `spinning`
(a poll that never returns) and `lost` (the transport was given away) are in the
code and therefore in the model.

### Connection and Relay

`Connection` adds no state. `Relay` adds `legCid`, the id under which the task of
a relayed call got its answer, and `ended`, whether the program has asked its
provider's peer to close. `Forward` is the call of `RelayMap` on the address it
holds, `Return` the end of `make_call`; the rest are actions of `Peer` and
`PeerAlone`.

### PubSub

`subs` is `PubSub::subscribers`, `subCh` and `unsubCh` the channels of
`rt_subscribe` and `rt_unsubscribe`. A message `m` has the subscribers it found
(`snap`), those its task has still to send to (`left`), and a task as long as it is
`running`. `settled`, `lastOp` and `since` are ghosts: which tasks had ended when
`m` came, what each subscriber last asked for and when. `inbox`, `taken`, `state`
are the subscribers, as actors with bounded mailboxes.

### ChatServer and Chat

Every actor has a variable for its mailbox (`serverBox`, `appBox`, `listBox`,
`winBox`) and one for what it keeps. A handler that awaits another actor is two
actions, with `waiting` or `app` in between; a handler that does not is one. What a
client asks is a set (`asks`), since each request is a task of the peer; answers
(`replies`) are a set for the same reason, and broadcasts (`out`) a queue, since
they go straight to the peer. `crash` and `culprit` record an `expect` that failed,
with its reason. `early` is a ghost: something of the server reached the page
before it was welcomed.

The page asks what its forms let it ask. A client that is not watched may be any
program that speaks the protocol: while its connection is open, `ClientAsks` asks to
join, for a nick or to talk at any time, joined or not, refused or not, without
waiting for an answer. The ghosts `admitted` and `rash` tell which of them have had their
`Welcome`, and which have asked for a nick before that.

### Slips

Some definitions come in pairs, such as `AlwaysSend` and `CanSend`. The first of
a pair is a plausible slip in the code that the second models: a dropped guard,
a swapped sign, a forgotten reset. No specification uses it. Replacing the second
by the first must break the property `mutants` in `PROJECT.json` names, which
shows that the property says something about that piece of code.

## 4. Runs

Deadlock checking is off everywhere: all instances have finitely many requests,
and when they are done the system rests.

| run | instance | what it shows |
|---|---|---|
| `gate_threads` | 2 peers, 5 calls, 1 slot, several threads, peers may close | `TypeOK`, `SlotsConserved`, `OnlyHolderRegisters`, `OverdraftBounded`, `ImplementsGate` |
| `gate_single` | 2 peers, 4 calls, 1 slot, one thread, no closing, fairness | `WokenWhenFree`, `AllProcessed`, `ImplementsFairGate` |
| `peer_requests` | 2 calls and a send in, a send out, every fault, garbled bytes, both ends closing | `ClosedIsClean`, `SettledOnce`, `SilentAfterClose` |
| `peer_live` | 2 calls out, 1 in, gate with 1 slot, both ends closing, a remote that reads | `NoCrossedAnswers`, `CallsSettle`, `CloseCompletes`, `RemoteCloseNoticed`, `RequestsProcessed` |
| `connection` | two peers, 2 calls one way and 1 the other, 2 ids, a gate with 1 slot, a grace period, failing spawns | `TypeOK`, `PendingCallsAreTimed`, `SlotsBalanced`, `OkMeansHandled`, `ClosesTogether` |
| `codec` | 3 messages of 4, 5 and 6 bytes over a connection that holds 3, at most 5 accepted, both decoders | `EndMeansAll`, `NothingAfterError`, `ImplementsChannel`, `FramesArrive`, `EndIsNoticed` |
| `pubsub` | 2 subscribers, 2 messages, mailboxes and channels of 1 | `TypeOK`, `OrderKept`, `LeavesForGood`, `EveryReaderReached` |
| `relay` | 1 call and 1 send relayed, provider and client of any kind, both peers closing | `CidsRestored`, `RelayedFaithfully`, `GoneIsGone`, `RelayedCallsEnd`, `ProviderToo` |
| `chat` | 2 sessions, 4 nicks of which 1 is invalid; the page joins and then talks or renames once, the other client makes any 2 requests at any time | `TypeOK`, `NicksUnique`, `ServerSurvives`, `LeaverIsKnown`, `ListAgrees` |
| `gate_lost_wakeup` | 1 peer, several threads | `WokenWhenFree` fails |
| `slot_leak` | 2 calls in, the handler is dead, gate with 1 slot | `RequestsProcessed` fails |
| `both_write` | two peers, 1 call and 7 sends that cross, buffers and mailboxes of 1 | `CallsSettle` fails |

Bounds. `Calls` and `Sends` bound the requests. Two are enough for every race
between two of them; five at the gate fill one mailbox slot and one listener on
each of two connections and leave one to wait. `Mailbox` is 1 or 2: with 1 each
queue is full at once, with 2 a message can be queued behind a close. `WireRoom`
is 1: a second write waits. `CidValues` is 2 in `connection`, so that the counter
passes zero and a second call takes the id of the first, and 4 elsewhere, where
ids are not reused, as with the 2^64 of the code. The environment garbles once.
`Slots` is 1, where the gate closes at once. The seven sends of `both_write` are
what fills both wires, both mailboxes and both listeners and leaves each peer with
a frame to write.

In `codec` the fields have 2, 1 and 1 bytes for the 8, 8 and 8 of the code, so that
each can be cut; a message may have no payload, a payload, or one too long; the
connection holds less than a header, so that every message takes several writes and
reads, and two messages can be in it at once. `MaxMsgs` 2 in `pubsub` is the
least at which tasks overlap; an `Inbox` of 1 is full after one. In `chat` one
session is a page with its four mailboxes and the other one stands for the rest:
the properties relate the page to one other user, and the server's races are
between two sessions. Two requests (`MaxAsks`) let the other client join and rename,
ask twice to join, or ask for a nick it has no right to. The CONSTRAINTs name states
whose successors are not looked at: `NoPanic` where the page or the server has
panicked, `NotGone` where the page has disconnected and its list or window been
cleared. The server meets a closed connection of the page without that too, and no
property about the page says anything after it.

Fairness. `BackPressure` has weak fairness of each listener and of each slot that
is taken and given back. `FairSpec` of `PeerAlone` asks that the executor does not
stop while a task of a peer can go on or a delay can end. One condition for all of
them is enough: each request is made, sent, processed and timed once, so every
step brings the system nearer to a state in which no task can go on, and a task
that is never polled would be one that can. `ReadingSpec` adds that the other
end keeps reading; nothing is assumed about its answers. `FairConnection` and
`FairRelay` are the same for two peers; in `FairRelay` the client and the provider
keep reading. `FairCodec`: the peer that writes and the listener that reads are
polled; the transport may break or end at any time. `FairSpec` of `PubSub`:
the futures of a fan-out are polled, and the actors of `Readers` run.
`Chat` states no fairness and has no liveness property; `ListAgrees` says what the
page must show when it has come to rest.

## 5. Where the code departs from what it says

Each of these is a run that TLC finds violated; `findings` quotes the line.

- A slot given back between the load and the push in `BPInner::poll` wakes nobody
  (`gate_lost_wakeup`). On one thread and while no peer closes there is no such
  loss (`gate_single`).
- A call that fails keeps its slot (`slot_leak`).
- Two peers that write to each other over full buffers wait for ever, and the
  timeouts that should tell them so are never handled (`both_write`).

Seen while modelling, without a run of their own. In the crate:

- the waker of a peer that closed while it waited stays at the front of the queue and
  takes the wake-up of the next, on one thread too (`src/src/peer/backpressure.rs:51`):
  with `MayShutDown` TRUE `WokenWhenFree` fails on the instance of `gate_single`;
- passing the gate takes no slot, so that more calls than slots are processed at
  once (`src/tests/backpressure.rs:3` says they are not; `OverdraftBounded` is what
  holds), and the listener waits at the gate with sends and answers too
  (`src/tests/backpressure.rs:6`), and with the end of the stream behind them;
- a codec error carries no connection id, so that `RequestError` returns before it
  closes the connection, unlike what `src/src/peer.rs:133` says; a call that cannot be
  deserialized is answered with an error and the connection stays open, although
  the comment beside it says it is closed (`src/src/peer/request_error.rs:97`);
- closing without a grace period cancels sends that had arrived
  (`src/src/peer/close_connection.rs:10` says they are still processed), and a closed
  peer drops an incoming call without an answer (`close_connection.rs:13`);
- after `MessageSizeExceeded` the next poll of `Decoder` unwraps a `None`
  (`src/src/thes_wf/decoder.rs:177`); `Encoder` does not look at `max_size`, which
  `src/src/peer.rs:237` says is also used for outgoing messages; `DecoderNoHeap` goes on
  inside a message it refused and takes what is there for a length, which its
  assertion may then stop (`src/src/thes_wf/decoder_noheap.rs:123`), and at the end of
  the stream reads for ever (`src/src/thes_wf/decoder_noheap.rs:100`);
- a subscribe to a `PubSub` and the unsubscribe that follows it at once may be applied in
  the other order, and the subscriber stays in (`src/src/pub_sub.rs:129`): `LeavesForGood`
  is stated for those that have had a message in between.

In the chat example:

- a session that closes before it joined is announced by `UserLeft`, and every page
  panics (`chat_window.rs:186`); a `ChatMsg` may reach the window before the user it is
  from (`chat_window.rs:127`);
- a broadcast may overtake the `Welcome` it should follow, and the page then forgets
  the user it was told of, or panics at `user_list.rs` and `chat_window.rs:186`;
- the page never learns its own new nick (`server.rs:158` tells the others only);
- a client that sends `SetNick` before it has joined, or after its `Join` was refused,
  makes the server panic at `server.rs:151` (`expect( "join first" )`): `User` passes on
  what it is asked without a look at whether it joined. `ServerSurvives` leaves out
  such clients (`rash`);
- the report of a closed connection may overtake the last `SetNick` or `Join` of it
  (`main.rs:181`): the server panics at `server.rs:151` too, although the user had joined,
  or a user without a connection stays in the map. `ServerSurvives` therefore asks that the
  connection is still open;
- requests handled after `Disconnect`, and a connection that goes while `Join` or
  `SetNick` is awaited, fail an `expect` (`app.rs:252`, `app.rs:273`,
  `connect_form.rs:132`); so does a `Disconnect` when the connection is already closed
  (`app.rs:298`).

## 6. Proofs

### Back pressure

`BackPressureProofs` holds for every set of listeners, every finite set of calls,
any number of slots, one thread or several, with peers that close or not. Except
for the last theorem it rests on `ConstantsAssumption` alone.

- `TypeCorrect`: `Spec => []TypeOK`.
- `SlotsAreConserved`: `Spec => []SlotsConserved`. The invariant is not inductive
  alone: closing a peer that had lost a call already would turn a `leaked` call
  into a `lost` one and forget its slot. `StageInv` says that calls are lost only
  with their listener, which closes once.
- `HolderAloneRegisters`: `Spec => []OnlyHolderRegisters`. `Repoll` would leave
  the waker of a polling task in the queue. `WakerInv` says that a live task has
  one waker at most and none once it was woken.
- `GateIsImplemented`: `Spec => ImplementsGate`. A call is admitted when a poll
  *loads* a positive counter, not when the poll returns; by `StageInv` a listener
  holds one call, so one call is admitted. Every step is a step of `Gate` or a
  stutter (`GateStep`).
- `OverdraftIsBounded`: `Spec => []OverdraftBounded`, for finitely many listeners and
  a gate that starts with a slot. What is in flight is bounded by what was
  *admitted*: calls a poll has let pass, calls in the mailboxes, and calls in
  progress. `RoomInv` bounds those. A call is admitted only when the counter is
  positive, so when fewer than `Slots` are in progress; at that moment each
  mailbox is at most full and each other listener holds at most one call that has
  passed. The other steps move admitted calls along or take them away. A gate made
  with no slot or with fewer is closed until somebody adds one, which none does: the
  bound then is a negative number or not reached at all, and the theorem leaves
  this out.

TLC found `StageInv` and `WakerInv` to hold on the instance of `gate_threads`
before they were proved.

### Peers

The theorems hold for any number of peers, requests, services, ids and slots, any
capacities and any faults, under the assumptions of `WireFormat` and `Peer`.
`PeerAloneProofs` is about peers that talk to any other end, under the assumption
of `PeerAlone`; `ConnectionProofs` about peers joined to each other. `PeerProofs` has the
lemmas about one step of one peer (`PeerStep` or `UserStep`) that both need; it
says nothing of the other end but that it does not step at the same time.

The inductive invariant comes in parts, each of which rests on those before it.

- `Typed`: `TypeOK`, and what `Handler<Call>` waits to write is a call; otherwise a
  send could get a channel in the map of responses.
- `Traffic`: whose requests are where. All a peer has to write is a request of its
  own or an answer to one of the remote; all it reads is the reverse.
- `QueuedOnce`: a request that its peer has not written is in one place, the mailbox
  or the handler, and its maker has been told nothing. Without it a send could be
  reported as failed after it was reported as sent.
- `AllMapped`: the map of responses has channels of callers that wait, each under one
  id. A new call may replace an old one when ids wrap; the old caller is then told that it
  was cancelled, and the map loses its only entry.
- `AllTimed`: who waits has an entry and a timer that runs or whose message is in the
  mailbox, under the same id. With `AllMapped` it is `PendingCallsAreTimed`.
- `Identified(g)`: some `g` gives each request the id it goes under, and every frame,
  message, timer and entry about a request bears that id (`Labelled`). While ids do
  not wrap (`EnoughIds`: fewer calls than ids, as with the 2^64 ids of the code), the
  counter is the number of ids given out (`Counted`), so that two calls of a peer have two
  ids. `g` is quantified: no variable of the model remembers it.
- `AllHeld`, for `PeerAlone` only: a request of the other end is in one place on its way
  from the connection to the answer, and its maker waits for as long. It is what
  keeps it from being told two different things.

Results for peers with any other end:

- `PeerTypeCorrect`: `Spec => []TypeOK`. `AloneTyped` adds that a peer puts only
  frames on the connection (`FramesOnly`), and that the other end remembers the
  calls it reads and answers them with their ids.
- `PeerCallsAreTimed`: `Spec => []PendingCallsAreTimed`, from `AllMapped` and `AllTimed`: the
  new caller gets its entry and its timer in one step (`CallIsOut`), a timer ends only by
  putting its message into the mailbox, and the message empties the entry.
- `PeerSettlesOnce`: `Spec => SettledOnce`. An outcome changes when a request is made, when
  its message is handled or its frame written, and when its entry is taken from the
  map; in each case the invariant says that nothing was told before,
  and `AllHeld` says it for the requests of the other end.
- `PeerAnswersNeverCross`: `Spec => []NoCrossedAnswers`, if `EnoughIds`. The entry that an
  answer or a timeout finds bears the id of the call it is about, and two calls have
  two ids. When ids wrap it is false, as `hazards` lists for timers.
- `PeerSlotsBalance`: `Spec => []SlotsBalanced`. For each step of the peer with the gate,
  `Ledger` says what it does to the slots that are free and those that are owed
  (`Owing`: tasks of calls, the collector, answers and errors in the mailbox, the answer
  being written): the sum never grows, and it shrinks only when a request has
  failed, the peer has closed or an error was relayed (`Excused`). There is one lemma for each
  kind of step: `CallLedger` takes a slot for a task or for an error, `TaskLedger` passes
  it from the task to the collector, `PostLedger` from there to the mailbox,
  `HandlerLedger` from there to the handler or back to the gate, `ResumeLedger` from the
  handler to the gate, and `ClosingLedger` has what was owed lost with the tasks. `AllApart`
  (each request of the other end is in one place) is needed: two tasks of one request would
  be one member of `requests[p]`, and a slot would be lost. `Fitting` is needed too: tasks are
  finitely many, and only a relayed call comes to an error that is passed on as it is.
- `PeerClosesClean`: `Spec => []ClosedIsClean`. `Shut` adds that only a closed
  peer is in its grace period. The argument is that a peer without a nursery
  (`results[p].at = "dropped"`) has nothing left to take a step with: the
  listener, the collector and the tasks are gone, and the handlers that still
  drain the mailbox find no sink, no service and no channel. All other steps keep
  the nursery (`NotShutYet`). `DropEverythingShuts` and `CloseShuts` are the
  steps that matter.
- `PeerSilentAfterClose`: `Spec => SilentAfterClose`. Observers are told only of a
  close that has happened (`ToldInTime`), and only a handler that waits for the
  connection writes to it (`PeerWritesFrames`), which by `Shut` a closed peer has
  none of. The other end only takes frames away.

Results for peers joined to each other (`ConnectionSpec`): `ConnectionTyped`,
`ConnectionCallsAreTimed`, `ConnectionSettlesOnce`, `ConnectionAnswersNeverCross` (if
`EnoughIds`) and `ConnectionClosesClean` state the same of `Connection`, and

- `ConnectionOkMeansHandled`: `ConnectionSpec => []OkMeansHandled`. `Backed` says that
  whatever claims a call was processed is about a call that was: tasks that are done,
  messages and frames with `FullSid`, in either peer and on the connection. With
  any other end it is false, since that end may answer what it likes.
- `ConnectionSlotsBalance`: `ConnectionSpec => []SlotsBalanced`, by the same lemmas. Here
  `AllApart` comes from `AllSole`: no place of a peer holds a request that its maker, the
  other peer, has not written. It needs `QueuedOnce` of the maker, so that
  what is written is written once (`MakerKeepsSole`).

### Codec

`CodecProofs` holds for any messages and payloads, any sizes of the three fields, any
capacity of the connection, any limit and either decoder, under `EncoderAssumption` and
`CodecAssumption`.

- `CodecTypeCorrect`: `CodecSpec => []TypeOK`; a decoder that reads always wants at
  least one byte more.
- `SilentAfterError`: `CodecSpec => []NothingAfterError`, by `StoppedInv`: a
  `Decoder` that has returned an error reads no more.
- `BytesStayInStep`: `CodecSpec => []Tracked`, the heart of it. There are offsets
  `off`, the number of bytes sent before each message, and `w`, the number written,
  such that byte `p` of those on the connection is byte `p - off[k]` of the message `k`
  it falls in (`OnTheWire`), the encoder stands at `w` (`Written`), and a decoder without
  an error has read `off[Len(received) + 1] + Len(got)` bytes, the last `Len(got)` of
  them the first of the message that is due (`InStep`). The offsets are quantified
  rather than computed, since the prover has no induction. A length that was read
  is then that of the message that is due (`LengthRead`), and so is a whole message
  (`MessageRead`).
- `NothingIsCutOff`: `CodecSpec => []EndMeansAll`. With no byte left, `Written` and
  `InStep` give the same number in two ways (`NothingLeft`).
- `ChannelIsImplemented`: `CodecSpec => ImplementsChannel`. `StartSend` is `Accept`,
  `ReadMessage` of a decoder that is in step is `Deliver`, an error or an end is
  `Finish`, all else stutters (`ChannelStep`). What came before the first error stays
  as it is when more is returned (`FaultlessKept`).

### PubSub and chat

`PubSubProofs` holds for any subscribers, messages and capacities.

- `PubSubTypeCorrect`: `Spec => []TypeOK`; no mailbox is overfilled.
- `OrderIsKept`: `Spec => []OrderKept`. `TasksInv` says that a message that has been
  settled, or whose task has ended, has nobody left to reach; `InOrder`, that of two
  messages a subscriber has handled or holds in its mailbox the later one had not been
  settled when the earlier one was published; `SentOnce`, that none of them is still to
  be sent to it.
- `LeaversStayOut`: `Spec => []LeavesForGood`. `CarefulInv` follows a subscriber that
  asks in, waits for a message and then asks out: it asks in once, nothing reaches it
  before that is applied, and once its request to leave has been taken out of the
  channel it is not subscribed.

`ChatProofs` holds for any sessions, nicks and bounds, under `ChatServerAssumption` and that
of `Chat`.

- `NicksStayUnique`: `Spec => []NicksUnique`. A new nick is inserted only when no user
  has it. `UsersInv` adds that the map has an entry for sessions only, and `LetIn` is
  the step in which a nick enters it, for who joins and for who changes its nick,
  whose own entry is out of the map meanwhile.
- `ChatTyped`: `Spec => []TypeOK`, which includes that a `User` waits for the server
  exactly while the server has its call or has died of it. `WaitsForOne` adds that
  the mailbox of the server has one call of each `User` at most; otherwise handling one
  would leave another behind whose `User` does not wait. `AskedAbout` adds what App
  may ask `UserList` about while it waits.
- `ServerIsSafe`: `Spec => []ServerSurvives`. A `ChangeNick` of a session that is not a user
  kills the server, and any client can bring one about; the theorem is about those that
  wait for their `Welcome` first (the page always, the others unless they are `rash`),
  whatever the clients of the other sessions ask. `EnteredInv` says that whatever shows
  such a session to be in (`Entered`: its client has been welcomed, it has asked for
  another nick, that request is in the mailbox) belongs to a user as long as its
  connection is open, and that the server is told of a closed connection only when
  it is closed. Who has been rash stays so (`OnceRash`). The page is let in by a
  longer way, from the reply of the server over `App` and the form to the
  address it keeps (`PageEntered`).
- `LeaverStaysKnown`: `Spec => []LeaverIsKnown`, and `ListFollows`: `Spec => []ListAgrees`. Both
  follow one session at a time. Its entry is a nick or `NoNick`; `Turns` says
  what the handling of a message makes of an entry, and which entries the message may
  meet (who renames has one, and so has a member who leaves), and `Flow` what the
  messages of a mailbox make of it one after the other. `Follows` chains the places the
  page keeps it in: the list with the mailbox of `UserList` comes to the entry that
  `App` has accounted for (`Upto`), that with the mailbox of `App` to what has
  reached the page (`Reached`), and that with what is on its way to the entry in
  `Server::users` (`Sent`). A message that is taken shortens one of these, a message that is
  sent lengthens the next, and a broadcast lengthens the last by just what it changes on
  the server. `WindowKnows` does the same for what `ChatWindow` knows.

  The chain needs to know how the page and the server take turns. `AllOnce`: the page
  has one join and one change of nick under way at most, from the form or `App` to the
  server and back (`OneRound`), and `App` gets one `Connected`. `JoinsOnce`: who has yet to
  join is no user. `RemovingInv`: while `App` waits for a removal `UserList` has nothing
  else to do, so that the window hears of a user before it hears that the user left;
  without the wait (`app.rs:196`) the window could miss one, as the slip `AtOnce` shows. `Cut` and `Untold`: nothing is on its way to a closed page, nor
  news to one that is no user. The chain holds only until the user leaves
  (`StayInv`) or a broadcast comes before the welcome (`FollowInv`), as the properties say:
  `Ahead` and `Overtaken` are the moments before the page notes such a broadcast, during which
  the links they concern are not claimed. What may go wrong afterwards is said under
  "In the chat example" above.

### Relay

`RelayProofs` holds for any two connections that `RelayAssumption` allows. Most steps of the
relay are steps of `PeerAlone`, whose invariant `AloneInv` they keep. The others are the end of
a relayed request's task, which depends on what became of its leg, and the close of the
provider's connection; `ReturnKeepsAlone` and `EndKeepsAlone` say that they keep it too.

- `ClientFindsItsCalls`: `RelaySpec => []CidsRestored`, without a condition on ids.
  `FrontAnswers` says that `Front`, which makes no requests of its own, writes answers
  only; by `Traffic` these are about requests of the client, and by `Labelled` bear the ids
  the client gave them.
- `ClientIsToldTheTruth`: `RelaySpec => []RelayedFaithfully`, if `Relayable`: what the client
  asks for is registered with `Front`, and none of the faults `NoHandler`, `Deserialize`,
  `PubSubNoCall` and `Spawn` occurs in it. Otherwise `Front` answers with an error of its own
  and makes no call of `Back` at all, so that the property says too much: what
  happens then is that of a peer alone. `AllTrue` says that each task, message and
  frame of `Front` that reports a success is about a call whose leg has come back
  with one (`Honest`), and each that reports an error about one whose leg has failed
  or been cut off (`Broken`). What became of a leg is settled once (`LegsSettle`), so that
  neither set loses a member.
- `GoneMeansGone`: `RelaySpec => []GoneIsGone`, if `EnoughIds` and no spawn fails. `GoneInv` says
  that calls of `Back` come to nothing only when it is closed or its connection has
  ended, and that until then nothing in `Front` says `RelayGone`. Both conditions are
  needed: when ids wrap a call is cancelled by the one that takes its id, and when the
  timer of a call cannot be spawned the call fails, and in both cases the relay says `RelayGone`
  over a connection that is up.

The run `relay` satisfies all these conditions.

### Model-checked only

All liveness (`WokenWhenFree`, `AllProcessed`, `ImplementsFairGate`, `CallsSettle`, `CloseCompletes`,
`RemoteCloseNoticed`, `RequestsProcessed`, `ClosesTogether`, `FramesArrive`,
`EndIsNoticed`, `EveryReaderReached`, `RelayedCallsEnd`, `ProviderToo`): progress under
fairness is out of the prover's reach.

## 7. Left out

- Payloads, serialization of actor messages, texts, names, tracing.
- Observers (pharos) never hold a peer up; the code says so of a slow observer
  as an open question (`src/src/peer/incoming.rs:27`).
- Panics: of a handler, of `unreachable!` in `request_error.rs`, of the mailbox.
- The peer as a value: dropping it, and the strong and weak addresses of it.
- `ConnID` and `ServiceID` as numbers: `ServiceID` is a model value, a `ConnID`
  one of `CidValues` numbers. Collisions of random ids are not considered.
- `ThesWF` as a value: the bytes of its fields are opaque, only their places count.
- The actor of a subscriber of `PubSub` and the mailboxes of bounded channels are
  modelled from how they are used, not from the thespis crates.
- The chat: HTTP and WebSocket handshakes, the document object model, colours, texts
  and times; the client's `entrypoint.rs`, which starts `App` and is otherwise commented
  out or display; the server's `clients.rs`, `connection.rs` and `error.rs`, which are
  not compiled; the `.bak` files. Reconnecting after a disconnect is a
  new session, which the page of `Chat` does not begin.
- The wasm example, a single call, and the tests, which are read as statements about
  the program only.
