------------------------------- MODULE PubSub -------------------------------
(***************************************************************************)
(* src/pub_sub.rs: a service map that passes every message a peer is sent  *)
(* on to all its subscribers, and whose subscribers change at run time     *)
(* through two channels, each emptied by a task of its own.                *)
(*                                                                         *)
(* A subscriber is the address of an actor, a peer in general.  A message  *)
(* is its number in the order in which Peer::incoming_send handed it to    *)
(* send_service; the tasks that fan messages out run concurrently.         *)
(***************************************************************************)
EXTENDS Integers, Sequences

CONSTANTS
  Subscribers,
  Careful,     \* those who unsubscribe only once, and when they know they are subscribed
  Readers,     \* those whose actor keeps taking messages from its mailbox
  MayClose,    \* those whose connection may close
  MayPanic,    \* those whose actor may panic
  Inbox,       \* capacity of a subscriber's mailbox
  MaxMsgs,     \* bound: messages published in one behaviour
  MaxOps       \* bound: messages that wait in each of the two channels

ASSUME PubSubAssumption ==
  /\ {Careful, Readers, MayClose, MayPanic} \subseteq SUBSET Subscribers
  /\ {Inbox, MaxMsgs, MaxOps} \subseteq Nat \ {0}

VARIABLES
  owner,      \* "user" while it is set up, then "peer", "nobody" once it is dropped
  subs,       \* PubSub::subscribers
  channels,   \* which of rt_subscribe and rt_unsubscribe have been called
  subCh,      \* subscribers on their way to the task of rt_subscribe
  unsubCh,    \* ids on their way to the task of rt_unsubscribe
  published,  \* number of messages handed to send_service
  snap,       \* the subscribers each message found
  left,       \* those its task has yet to send it to
  running,    \* messages whose task has not ended
  settled,    \* messages whose task had ended when each message was published
  inbox,      \* mailbox of each subscriber
  taken,      \* messages its actor has handled
  state,      \* "open", "closed" or "panicked"
  lastOp,     \* what each subscriber, or its user, last asked for
  since       \* number of messages published by then

setupVars == <<owner, channels>>
chanVars  == <<subCh, unsubCh>>
taskVars  == <<published, snap, left, running, settled>>
subVars   == <<inbox, taken, state>>
askVars   == <<lastOp, since>>
vars == <<setupVars, subs, chanVars, taskVars, subVars, askVars>>

Messages == 1..MaxMsgs

Init ==
  /\ owner     = "user"
  /\ subs      = {}
  /\ channels  = {}
  /\ subCh     = <<>>
  /\ unsubCh   = <<>>
  /\ published = 0
  /\ snap      = [m \in Messages |-> {}]
  /\ left      = [m \in Messages |-> {}]
  /\ running   = {}
  /\ settled   = [m \in Messages |-> {}]
  /\ inbox     = [s \in Subscribers |-> <<>>]
  /\ taken     = [s \in Subscribers |-> <<>>]
  /\ state     = [s \in Subscribers |-> "open"]
  /\ lastOp    = [s \in Subscribers |-> "none"]
  /\ since     = [s \in Subscribers |-> 0]

Ask(s, op) == /\ lastOp' = [lastOp EXCEPT ![s] = op]
              /\ since'  = [since EXCEPT ![s] = published]

-----------------------------------------------------------------------------
(* Before it is handed to a peer.                                          *)
Subscribe(s) ==
  /\ owner = "user"
  /\ lastOp[s] = "none"
  /\ subs' = subs \cup {s}
  /\ Ask(s, "sub")
  /\ UNCHANGED <<setupVars, chanVars, taskVars, subVars>>

Unsubscribe(s) ==
  /\ owner = "user"
  /\ lastOp[s] = "sub" /\ s \notin Careful
  /\ subs' = subs \ {s}
  /\ Ask(s, "unsub")
  /\ UNCHANGED <<setupVars, chanVars, taskVars, subVars>>

(* Once each.  A task that cannot be spawned leaves things as they were.   *)
RtChannel(c) ==
  /\ owner = "user"
  /\ c \notin channels
  /\ channels' = channels \cup {c}
  /\ UNCHANGED <<owner, subs, chanVars, taskVars, subVars, askVars>>

HandOff ==
  /\ owner = "user"
  /\ owner' = "peer"
  /\ UNCHANGED <<channels, subs, chanVars, taskVars, subVars, askVars>>

-----------------------------------------------------------------------------
(* Users of the two senders.  What they know: a careful one unsubscribes   *)
(* when a message published since it subscribed has reached it.            *)
KnowsItIsIn(s) == \E i \in DOMAIN taken[s] : taken[s][i] > since[s]

AskIn(s) ==
  /\ "subscribe" \in channels /\ owner # "nobody"
  /\ lastOp[s] = "none" \/ (lastOp[s] = "unsub" /\ s \notin Careful)
  /\ Len(subCh) < MaxOps
  /\ subCh' = Append(subCh, s)
  /\ Ask(s, "sub")
  /\ UNCHANGED <<setupVars, subs, unsubCh, taskVars, subVars>>

AskOut(s) ==
  /\ "unsubscribe" \in channels /\ owner # "nobody"
  /\ lastOp[s] = "sub"
  /\ s \in Careful => KnowsItIsIn(s)
  /\ Len(unsubCh) < MaxOps
  /\ unsubCh' = Append(unsubCh, s)
  /\ Ask(s, "unsub")
  /\ UNCHANGED <<setupVars, subs, subCh, taskVars, subVars>>

(* The tasks of rt_subscribe and rt_unsubscribe.                           *)
Insert ==
  /\ subCh # <<>>
  /\ subs'  = subs \cup {Head(subCh)}
  /\ subCh' = Tail(subCh)
  /\ UNCHANGED <<setupVars, unsubCh, taskVars, subVars, askVars>>

RemoveForgotten ==
  /\ unsubCh # <<>>
  /\ unsubCh' = Tail(unsubCh)
  /\ UNCHANGED <<setupVars, subs, subCh, taskVars, subVars, askVars>>

Remove ==
  /\ unsubCh # <<>>
  /\ subs'    = subs \ {Head(unsubCh)}
  /\ unsubCh' = Tail(unsubCh)
  /\ UNCHANGED <<setupVars, subCh, taskVars, subVars, askVars>>

-----------------------------------------------------------------------------
(* send_service, called by the peer's handler: who is sent the message is  *)
(* settled here, under the lock.                                           *)
Publish ==
  /\ owner = "peer"
  /\ published < MaxMsgs
  /\ LET m == published + 1
     IN  /\ published' = m
         /\ snap'      = [snap EXCEPT ![m] = subs]
         /\ left'      = [left EXCEPT ![m] = subs]
         /\ running'   = running \cup {m}
         /\ settled'   = [settled EXCEPT ![m] = (1..published) \ running]
  /\ UNCHANGED <<setupVars, subs, chanVars, subVars, askVars>>

(* The futures in FuturesUnordered: each one waits for room on its own.    *)
RoomAtLimit(s) == Len(inbox[s]) <= Inbox
HasRoom(s)     == Len(inbox[s]) < Inbox

WhenAllHaveRoom(m) == {s \in left[m] : \A r \in left[m] : HasRoom(r)}
Polled(m)          == left[m]

Send(m, s) ==
  /\ s \in Polled(m)
  /\ \/ /\ state[s] # "panicked"
        /\ HasRoom(s)
        /\ inbox' = [inbox EXCEPT ![s] = Append(@, m)]
     \/ /\ state[s] = "panicked"
        /\ UNCHANGED inbox
  /\ left' = [left EXCEPT ![m] = @ \ {s}]
  /\ UNCHANGED <<setupVars, subs, chanVars, published, snap, running, settled, taken, state,
                 askVars>>

(* The task returns Response::Nothing when the last of them is done.       *)
AtOnce(m)   == TRUE
Complete(m) == left[m] = {}

TaskEnds(m) ==
  /\ m \in running
  /\ Complete(m)
  /\ running' = running \ {m}
  /\ UNCHANGED <<setupVars, subs, chanVars, published, snap, left, settled, subVars, askVars>>

(* The peer closes: its services and its tasks are dropped, and with them  *)
(* the tasks of the two channels.                                          *)
Drop ==
  /\ owner = "peer"
  /\ owner'   = "nobody"
  /\ subs'    = {}
  /\ subCh'   = <<>>
  /\ unsubCh' = <<>>
  /\ running' = {}
  /\ left'    = [m \in Messages |-> {}]
  /\ UNCHANGED <<channels, published, snap, settled, subVars, askVars>>

-----------------------------------------------------------------------------
(* The subscribers.  A peer whose connection has closed still handles what *)
(* is in its mailbox, to no effect.                                        *)
Handle(s) ==
  /\ state[s] # "panicked"
  /\ inbox[s] # <<>>
  /\ inbox' = [inbox EXCEPT ![s] = Tail(@)]
  /\ taken' = [taken EXCEPT ![s] = IF state[s] = "open" THEN Append(@, Head(inbox[s])) ELSE @]
  /\ UNCHANGED <<setupVars, subs, chanVars, taskVars, state, askVars>>

Close(s) ==
  /\ s \in MayClose /\ state[s] = "open"
  /\ state' = [state EXCEPT ![s] = "closed"]
  /\ UNCHANGED <<setupVars, subs, chanVars, taskVars, inbox, taken, askVars>>

Panic(s) ==
  /\ s \in MayPanic /\ state[s] # "panicked"
  /\ state' = [state EXCEPT ![s] = "panicked"]
  /\ inbox' = [inbox EXCEPT ![s] = <<>>]
  /\ UNCHANGED <<setupVars, subs, chanVars, taskVars, taken, askVars>>

-----------------------------------------------------------------------------
Next ==
  \/ \E s \in Subscribers :
       \/ Subscribe(s) \/ Unsubscribe(s) \/ AskIn(s) \/ AskOut(s)
       \/ Handle(s) \/ Close(s) \/ Panic(s)
  \/ \E c \in {"subscribe", "unsubscribe"} : RtChannel(c)
  \/ HandOff \/ Insert \/ Remove \/ Publish \/ Drop
  \/ \E m \in Messages : TaskEnds(m) \/ \E s \in Subscribers : Send(m, s)

Spec == Init /\ [][Next]_vars

(* The executor runs the tasks, and the actors of the readers run.         *)
FairSpec ==
  /\ Spec
  /\ \A m \in Messages, s \in Subscribers : WF_vars(Send(m, s))
  /\ \A s \in Readers : WF_vars(Handle(s))

-----------------------------------------------------------------------------
TypeOK ==
  /\ owner \in {"user", "peer", "nobody"}
  /\ subs \subseteq Subscribers
  /\ channels \subseteq {"subscribe", "unsubscribe"}
  /\ subCh \in Seq(Subscribers) /\ unsubCh \in Seq(Subscribers)
  /\ published \in 0..MaxMsgs
  /\ snap \in [Messages -> SUBSET Subscribers]
  /\ left \in [Messages -> SUBSET Subscribers]
  /\ running \subseteq Messages
  /\ settled \in [Messages -> SUBSET Messages]
  /\ inbox \in [Subscribers -> Seq(Messages)]
  /\ \A s \in Subscribers : Len(inbox[s]) <= Inbox
  /\ taken \in [Subscribers -> Seq(Messages)]
  /\ state \in [Subscribers -> {"open", "closed", "panicked"}]
  /\ lastOp \in [Subscribers -> {"none", "sub", "unsub"}]
  /\ since \in [Subscribers -> 0..MaxMsgs]

(* pub_sub.rs:158-184: a subscriber handles a message once at most, and    *)
(* two messages in the order they were published, provided that the task   *)
(* of the first had ended when the second came.  Tasks that overlap may    *)
(* overtake each other.                                                    *)
OrderKept ==
  \A s \in Subscribers : \A i, j \in DOMAIN taken[s] :
    i < j => /\ taken[s][i] # taken[s][j]
             /\ taken[s][j] \notin settled[taken[s][i]]

(* pub_sub.rs:82-135: subscribing and unsubscribing go through different   *)
(* channels and may be applied in either order; one who unsubscribes only  *)
(* after a message has reached it stays out once that is applied.          *)
LeavesForGood ==
  \A s \in Careful :
    lastOp[s] = "unsub" /\ (\A i \in DOMAIN unsubCh : unsubCh[i] # s) => s \notin subs

(* pub_sub.rs:155-156: whoever was subscribed when a message came gets it, *)
(* however full the mailboxes of the others are, and whoever panics or     *)
(* closes, as long as it is open and the PubSub is not dropped.            *)
Reaches(m, s) ==
  s \in snap[m] ~> \/ \E i \in DOMAIN taken[s] : taken[s][i] = m
                   \/ state[s] # "open"
                   \/ owner = "nobody"
EveryReaderReached == \A m \in Messages, s \in Readers : Reaches(m, s)

=============================================================================
