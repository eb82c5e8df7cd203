---------------------------- MODULE BackPressure ----------------------------
(***************************************************************************)
(* src/peer/backpressure.rs: the counter of free slots, its queue of       *)
(* wakers and the async mutex around the future that waits for a slot,     *)
(* with the peers that use it.  Every peer has a task that reads its       *)
(* connection (peer.rs, listen_incoming) and waits for the gate before it  *)
(* hands a message to the peer's mailbox; the peer takes a slot when it    *)
(* handles a call (incoming.rs) and gives it back when it sends the answer *)
(* (call_response.rs).  One gate may serve several peers.                  *)
(*                                                                         *)
(* A poll and add_slots are split where another thread can come between:   *)
(* between the load of the counter and the access to the waker queue.      *)
(* With SingleThread the executor runs one poll at a time, and a step that *)
(* was begun is finished before another task runs.                         *)
(***************************************************************************)
EXTENDS Integers, Sequences, FiniteSets

CONSTANTS Listeners,     \* the listen_incoming tasks, one per peer
          NoListener,    \* the mutex is not held
          Calls,         \* the incoming calls
          Owner,         \* the listener that reads each call off its connection
          Slots,         \* the argument of BackPressure::new, an i64
          Mailbox,       \* bound: calls that fit in the mailbox of a peer
          SingleThread,  \* whether all tasks run on one thread
          MayShutDown    \* whether peers may close and drop their tasks

ASSUME ConstantsAssumption ==
  /\ NoListener \notin Listeners
  /\ IsFiniteSet(Calls)
  /\ Owner \in [Calls -> Listeners]
  /\ Slots \in Int
  /\ Mailbox \in Nat \ {0}
  /\ SingleThread \in BOOLEAN
  /\ MayShutDown \in BOOLEAN

VARIABLES
  available,  \* BackPressure::available
  wakers,     \* BackPressure::wakers, each named by the task it wakes
  lock,       \* the task holding the FutMutex, or NoListener
  pc,         \* where each listener task is
  seen,       \* the value a poll loaded from the counter
  woken,      \* tasks with a wake-up the executor has not served yet
  waking,     \* threads in add_slots between the fetch_add and the pop_front
  stage       \* where each call is

vars == <<available, wakers, lock, pc, seen, woken, waking, stage>>

InPoll == {"poll", "read"}
Stages == {"wire", "gated", "mailbox", "running", "answered", "lost", "leaked"}

AtStage(l, s) == {c \in Calls : Owner[c] = l /\ stage[c] = s}

(* On one thread nothing runs while a task is being polled or add_slots is *)
(* on its way.  l is the task that wants to go on.                         *)
MayRun(l) == SingleThread => /\ waking = 0
                             /\ \A m \in Listeners \ {l} : pc[m] \notin InPoll

Init == /\ available = Slots
        /\ wakers = <<>>
        /\ lock = NoListener
        /\ pc = [l \in Listeners |-> "listen"]
        /\ seen = [l \in Listeners |-> 0]
        /\ woken = {}
        /\ waking = 0
        /\ stage = [c \in Calls |-> "wire"]

(* The conditions and the arithmetic of backpressure.rs, each preceded by  *)
(* a slip the checks are shown to notice.                                  *)
FreeSlotOrZero(n)    == n >= 0
FreeSlot(n)          == n > 0

RisesFromBelow(n)    == n < 0 /\ n + 1 > 0
RisesAboveZero(n)    == n <= 0 /\ n + 1 > 0

LessOneIfPositive(n) == IF n > 0 THEN n - 1 ELSE n
LessOne(n)           == n - 1

MailboxUnbounded(l)  == TRUE
MailboxRoom(l)       == Cardinality(AtStage(l, "mailbox")) < Mailbox

HoldLock             == UNCHANGED lock
ReleaseLock          == lock' = NoListener

(* incoming.next() yields a message: the task goes to wait for the gate.   *)
Arrive(l) ==
  /\ MayRun(l)
  /\ pc[l] = "listen"
  /\ \E c \in AtStage(l, "wire") : stage' = [stage EXCEPT ![c] = "gated"]
  /\ pc' = [pc EXCEPT ![l] = "lock"]
  /\ UNCHANGED <<available, wakers, lock, seen, woken, waking>>

(* BackPressure::wait: self.future.lock().await                            *)
Lock(l) ==
  /\ MayRun(l)
  /\ pc[l] = "lock"
  /\ lock = NoListener
  /\ lock' = l
  /\ pc' = [pc EXCEPT ![l] = "poll"]
  /\ UNCHANGED <<available, wakers, seen, woken, waking, stage>>

(* BPInner::poll loads the counter.                                        *)
Load(l) ==
  /\ MayRun(l)
  /\ pc[l] = "poll"
  /\ seen' = [seen EXCEPT ![l] = available]
  /\ pc' = [pc EXCEPT ![l] = "read"]
  /\ UNCHANGED <<available, wakers, lock, woken, waking, stage>>

PopFirst ==
  /\ wakers' = IF wakers = <<>> THEN wakers ELSE Tail(wakers)
  /\ UNCHANGED woken

(* Pop the waker that waits longest and wake its task.                     *)
WakeFirst ==
  /\ wakers' = IF wakers = <<>> THEN wakers ELSE Tail(wakers)
  /\ woken' = IF wakers = <<>> THEN woken ELSE woken \cup {Head(wakers)}

(* BPInner::poll, a slot was free: wake an extra task when there was more  *)
(* than one, and return Ready, which releases the mutex.                   *)
Ready(l) ==
  /\ MayRun(l)
  /\ pc[l] = "read"
  /\ FreeSlot(seen[l])
  /\ IF seen[l] > 1 THEN WakeFirst ELSE UNCHANGED <<wakers, woken>>
  /\ ReleaseLock
  /\ pc' = [pc EXCEPT ![l] = "send"]
  /\ UNCHANGED <<available, seen, waking, stage>>

RegisterUnlocked(l) ==
  /\ MayRun(l)
  /\ pc[l] = "read"
  /\ ~FreeSlot(seen[l])
  /\ wakers' = Append(wakers, l)
  /\ ReleaseLock
  /\ pc' = [pc EXCEPT ![l] = "pending"]
  /\ UNCHANGED <<available, seen, woken, waking, stage>>

(* BPInner::poll, no slot was free: leave a waker and return Pending.      *)
Register(l) ==
  /\ MayRun(l)
  /\ pc[l] = "read"
  /\ ~FreeSlot(seen[l])
  /\ wakers' = Append(wakers, l)
  /\ pc' = [pc EXCEPT ![l] = "pending"]
  /\ UNCHANGED <<available, lock, seen, woken, waking, stage>>

(* The executor polls a task that was woken.                               *)
Repoll(l) ==
  /\ MayRun(l)
  /\ pc[l] = "pending"
  /\ l \in woken
  /\ woken' = woken \ {l}
  /\ pc' = [pc EXCEPT ![l] = "poll"]
  /\ UNCHANGED <<available, wakers, lock, seen, waking, stage>>

(* addr.send( Incoming{ msg } ): waits while the mailbox is full.          *)
Deliver(l) ==
  /\ MayRun(l)
  /\ pc[l] = "send"
  /\ MailboxRoom(l)
  /\ \E c \in AtStage(l, "gated") : stage' = [stage EXCEPT ![c] = "mailbox"]
  /\ pc' = [pc EXCEPT ![l] = "listen"]
  /\ UNCHANGED <<available, wakers, lock, seen, woken, waking>>

(* Peer::incoming_call: bp.remove_slots(1), then the handler is spawned.   *)
RemoveSlot(c) ==
  /\ MayRun(NoListener)
  /\ stage[c] = "mailbox"
  /\ stage' = [stage EXCEPT ![c] = "running"]
  /\ available' = LessOne(available)
  /\ UNCHANGED <<wakers, lock, pc, seen, woken, waking>>

(* Handler<CallResponse>: bp.add_slots(1), up to and with the fetch_add.   *)
AddSlot(c) ==
  /\ MayRun(NoListener)
  /\ stage[c] = "running"
  /\ stage' = [stage EXCEPT ![c] = "answered"]
  /\ available' = available + 1
  /\ waking' = IF RisesAboveZero(available) THEN waking + 1 ELSE waking
  /\ UNCHANGED <<wakers, lock, pc, seen, woken>>

WakeUnasked ==
  /\ waking' = waking - 1
  /\ WakeFirst
  /\ UNCHANGED <<available, lock, pc, seen, stage>>

(* The rest of add_slots: the counter rose above zero, wake one task.      *)
Wake ==
  /\ waking > 0
  /\ waking' = waking - 1
  /\ WakeFirst
  /\ UNCHANGED <<available, lock, pc, seen, stage>>

(* CloseConnection drops the nursery and in it the listener, between two   *)
(* polls: the mutex guard goes, the waker in the queue stays, what the     *)
(* peer was processing is cancelled without an answer.                     *)
ShutDown(l) ==
  /\ MayShutDown
  /\ MayRun(l)
  /\ pc[l] \notin InPoll \cup {"gone"}
  /\ pc' = [pc EXCEPT ![l] = "gone"]
  /\ lock' = IF lock = l THEN NoListener ELSE lock
  /\ woken' = woken \ {l}
  /\ stage' = [c \in Calls |->
                 IF Owner[c] # l THEN stage[c]
                 ELSE IF stage[c] = "running" THEN "leaked"
                 ELSE IF stage[c] = "answered" THEN "answered" ELSE "lost"]
  /\ UNCHANGED <<available, wakers, seen, waking>>

ListenerStep(l) == \/ Arrive(l) \/ Lock(l) \/ Load(l) \/ Ready(l)
                   \/ Register(l) \/ Repoll(l) \/ Deliver(l)

Next == \/ \E l \in Listeners : ListenerStep(l) \/ ShutDown(l)
        \/ \E c \in Calls : RemoveSlot(c) \/ AddSlot(c)
        \/ Wake

Spec == Init /\ [][Next]_vars

(* The executor keeps polling tasks that are ready, the peers keep         *)
(* handling their mailboxes and the local actors answer every call.        *)
FairSpec == /\ Spec
            /\ \A l \in Listeners : WF_vars(ListenerStep(l))
            /\ \A c \in Calls : WF_vars(RemoveSlot(c)) /\ WF_vars(AddSlot(c))
            /\ WF_vars(Wake)

-----------------------------------------------------------------------------
(* Shape of the state.                                                     *)
TypeOK ==
  /\ available \in Int
  /\ wakers \in Seq(Listeners)
  /\ lock \in Listeners \cup {NoListener}
  /\ pc \in [Listeners -> {"listen", "lock", "poll", "read", "pending", "send", "gone"}]
  /\ seen \in [Listeners -> Int]
  /\ woken \subseteq Listeners
  /\ waking \in Nat
  /\ stage \in [Calls -> Stages]

Charged == {c \in Calls : stage[c] \in {"running", "leaked"}}

(* The counter is the slots the gate was made with, less one for each call *)
(* that is processed or was cut short by a peer that closed: remove_slots  *)
(* in incoming.rs and add_slots in call_response.rs stay in balance in     *)
(* every interleaving of the peers that share the gate.                    *)
SlotsConserved == available = Slots - Cardinality(Charged)

(* The FutMutex keeps all but one task away from the waker queue: a waker  *)
(* in it that can still wake somebody is the one of the task that holds    *)
(* the mutex and is pending; the others belong to peers that have closed.  *)
OnlyHolderRegisters ==
  /\ \A l \in Listeners : pc[l] \in InPoll \cup {"pending"} => lock = l
  /\ \A i \in DOMAIN wakers : pc[wakers[i]] # "gone" =>
        wakers[i] = lock /\ pc[lock] = "pending"

InFlight == {c \in Calls : \/ stage[c] \in {"mailbox", "running", "leaked"}
                           \/ stage[c] = "gated" /\ pc[Owner[c]] = "send"}

(* The gate takes no slot when it lets a message pass, so it is overdrawn  *)
(* by what the peers have not handled yet, and by no more: the messages in *)
(* their mailboxes and the one each listener holds.                        *)
OverdraftBounded ==
  Cardinality(InFlight) <= Slots - 1 + Cardinality(Listeners) * (Mailbox + 1)

(* backpressure.rs:5-7: when the counter becomes >= 1 the waker that       *)
(* awaits it is woken up.  A pending task does not stay pending while      *)
(* there are slots.                                                        *)
WokenWhenFree ==
  \A l \in Listeners :
    (pc[l] = "pending" /\ available > 0) ~> (pc[l] # "pending" \/ available <= 0)

(* tests/backpressure.rs:5, "do eventually process all requests": a call   *)
(* that waits for the gate is answered, unless its peer closes.            *)
AllProcessed ==
  \A c \in Calls : stage[c] = "gated" ~> stage[c] \in {"answered", "lost", "leaked"}

-----------------------------------------------------------------------------
(* What this mechanism implements: a call is admitted at the moment a poll *)
(* loads a positive counter.                                               *)
placeOf(c) ==
  CASE stage[c] = "gated" ->
         IF pc[Owner[c]] = "send" \/ (pc[Owner[c]] = "read" /\ seen[Owner[c]] > 0)
         THEN "admitted" ELSE "waiting"
    [] stage[c] = "mailbox" -> "admitted"
    [] stage[c] = "leaked"  -> "lost"
    [] OTHER                -> stage[c]

Abstract == INSTANCE Gate WITH place <- [c \in Calls |-> placeOf(c)],
                               free <- available

(* backpressure.rs implements the gate of Gate.tla step by step: a call    *)
(* passes only while a slot is free, starts, is answered and is lost once. *)
ImplementsGate == Abstract!Spec

(* On one thread, and while no peer closes, it also keeps the promise that *)
(* a waiting call gets through.                                            *)
ImplementsFairGate == Abstract!FairSpec
=============================================================================
