---------------------------- MODULE PubSubProofs ----------------------------
(***************************************************************************)
(* Theorems about PubSub.tla, for any subscribers, any number of messages  *)
(* and mailboxes and channels of any capacity.                             *)
(***************************************************************************)
EXTENDS PubSub, TLAPS

(* A queue that is appended to keeps its elements in their places, and one *)
(* that is taken from has them one place further to the front.             *)
LEMMA AppendKeeps ==
  ASSUME NEW S, NEW q \in Seq(S), NEW e \in S
  PROVE  /\ Append(q, e) \in Seq(S)
         /\ Len(Append(q, e)) = Len(q) + 1
         /\ DOMAIN Append(q, e) = DOMAIN q \cup {Len(q) + 1}
         /\ DOMAIN q = 1..Len(q) /\ Len(q) \in Nat
         /\ \A i \in DOMAIN q : Append(q, e)[i] = q[i]
         /\ Append(q, e)[Len(q) + 1] = e
OBVIOUS

(* Sequences: what is left without the first.                              *)
LEMMA TailShifts ==
  ASSUME NEW S, NEW q \in Seq(S), q # <<>>
  PROVE  /\ Tail(q) \in Seq(S)
         /\ Len(Tail(q)) = Len(q) - 1 /\ Len(q) \in Nat
         /\ Head(q) \in S
         /\ Head(q) = q[1] /\ 1 \in DOMAIN q
         /\ \A i \in DOMAIN Tail(q) :
              i \in Nat \ {0} /\ i + 1 \in DOMAIN q /\ Tail(q)[i] = q[i + 1]
         /\ \A i \in DOMAIN q : i \in Nat /\ (i # 1 => i - 1 \in DOMAIN Tail(q))
OBVIOUS

-----------------------------------------------------------------------------
(* PubSub, its tasks and its subscribers keep their shape: no mailbox is   *)
(* ever filled beyond its capacity.                                        *)
LEMMA TypeStep == ASSUME TypeOK, [Next]_vars PROVE TypeOK'
<1>1. CASE UNCHANGED vars
  BY <1>1 DEF TypeOK, vars, setupVars, chanVars, taskVars, subVars, askVars
<1>2. ASSUME NEW s \in Subscribers, Subscribe(s) PROVE TypeOK'
  BY <1>2 DEF TypeOK, Subscribe, Ask, setupVars, chanVars, taskVars, subVars
<1>3. ASSUME NEW s \in Subscribers, Unsubscribe(s) PROVE TypeOK'
  BY <1>3 DEF TypeOK, Unsubscribe, Ask, setupVars, chanVars, taskVars, subVars
<1>4. ASSUME NEW s \in Subscribers, AskIn(s) PROVE TypeOK'
  BY <1>4, AppendKeeps DEF TypeOK, AskIn, Ask, setupVars, taskVars, subVars
<1>5. ASSUME NEW s \in Subscribers, AskOut(s) PROVE TypeOK'
  BY <1>5, AppendKeeps DEF TypeOK, AskOut, Ask, setupVars, taskVars, subVars
<1>6. ASSUME NEW s \in Subscribers, Handle(s) PROVE TypeOK'
  <2>1. inbox' \in [Subscribers -> Seq(Messages)] /\ \A r \in Subscribers : Len(inbox'[r]) <= Inbox
    <3>1. inbox[s] \in Seq(Messages) /\ inbox[s] # <<>> /\ Len(inbox[s]) <= Inbox
      BY <1>6 DEF TypeOK, Handle
    <3>2. Tail(inbox[s]) \in Seq(Messages) /\ Len(Tail(inbox[s])) <= Inbox
      BY <3>1, TailShifts, PubSubAssumption DEF PubSubAssumption
    <3> QED
      BY <1>6, <3>2 DEF TypeOK, Handle
  <2>2. taken' \in [Subscribers -> Seq(Messages)]
    BY <1>6, TailShifts, AppendKeeps DEF TypeOK, Handle
  <2>3. UNCHANGED <<owner, channels, subs, subCh, unsubCh, published, snap, left, running, settled,
                    state, lastOp, since>>
    BY <1>6 DEF Handle, setupVars, chanVars, taskVars, askVars
  <2> QED
    BY <2>1, <2>2, <2>3 DEF TypeOK
<1>7. ASSUME NEW s \in Subscribers, Close(s) PROVE TypeOK'
  BY <1>7 DEF TypeOK, Close, setupVars, chanVars, taskVars, askVars
<1>8. ASSUME NEW s \in Subscribers, Panic(s) PROVE TypeOK'
  <2>1. \A r \in Subscribers : Len(inbox'[r]) <= Inbox
    BY <1>8, PubSubAssumption DEF TypeOK, Panic, PubSubAssumption
  <2> QED
    BY <1>8, <2>1 DEF TypeOK, Panic, setupVars, chanVars, taskVars, askVars
<1>9. ASSUME NEW c \in {"subscribe", "unsubscribe"}, RtChannel(c) PROVE TypeOK'
  BY <1>9 DEF TypeOK, RtChannel, chanVars, taskVars, subVars, askVars
<1>10. CASE HandOff
  BY <1>10 DEF TypeOK, HandOff, chanVars, taskVars, subVars, askVars
<1>11. CASE Insert
  BY <1>11, TailShifts DEF TypeOK, Insert, setupVars, taskVars, subVars, askVars
<1>12. CASE Remove
  BY <1>12, TailShifts DEF TypeOK, Remove, setupVars, taskVars, subVars, askVars
<1>13. CASE Publish
  <2>1. published' \in 0..MaxMsgs /\ published' \in Messages
    BY <1>13, PubSubAssumption DEF TypeOK, Publish, Messages, PubSubAssumption
  <2>2. /\ running' \subseteq Messages
        /\ snap' \in [Messages -> SUBSET Subscribers]
        /\ left' \in [Messages -> SUBSET Subscribers]
    BY <1>13, <2>1 DEF TypeOK, Publish
  <2>3. (1..published) \ running \subseteq Messages
    BY <1>13, PubSubAssumption DEF TypeOK, Publish, Messages, PubSubAssumption
  <2>4. settled' \in [Messages -> SUBSET Messages]
    BY <1>13, <2>3 DEF TypeOK, Publish
  <2>5. UNCHANGED <<owner, channels, subs, subCh, unsubCh, inbox, taken, state, lastOp, since>>
    BY <1>13 DEF Publish, setupVars, chanVars, subVars, askVars
  <2> QED
    BY <2>1, <2>2, <2>4, <2>5 DEF TypeOK
<1>14. CASE Drop
  <2>1. /\ owner' = "nobody" /\ subs' = {} /\ subCh' = <<>> /\ unsubCh' = <<>>
        /\ running' = {} /\ left' = [m \in Messages |-> {}]
        /\ UNCHANGED <<channels, published, snap, settled, inbox, taken, state, lastOp, since>>
    BY <1>14 DEF Drop, subVars, askVars
  <2>2. left' \in [Messages -> SUBSET Subscribers]
    BY <2>1
  <2>3. subs' \subseteq Subscribers /\ subCh' \in Seq(Subscribers) /\ unsubCh' \in Seq(Subscribers)
    BY <2>1
  <2> QED
    BY <2>1, <2>2, <2>3 DEF TypeOK
<1>15. ASSUME NEW m \in Messages, TaskEnds(m) PROVE TypeOK'
  BY <1>15 DEF TypeOK, TaskEnds, setupVars, chanVars, subVars, askVars
<1>16. ASSUME NEW m \in Messages, NEW s \in Subscribers, Send(m, s) PROVE TypeOK'
  <2>1. inbox' \in [Subscribers -> Seq(Messages)] /\ \A r \in Subscribers : Len(inbox'[r]) <= Inbox
    <3>1. CASE inbox' = inbox
      BY <3>1 DEF TypeOK
    <3>2. CASE HasRoom(s) /\ inbox' = [inbox EXCEPT ![s] = Append(@, m)]
      <4>1. inbox[s] \in Seq(Messages) /\ Len(inbox[s]) < Inbox
        BY <3>2 DEF TypeOK, HasRoom
      <4>2. Append(inbox[s], m) \in Seq(Messages) /\ Len(Append(inbox[s], m)) <= Inbox
        BY <4>1, AppendKeeps, PubSubAssumption DEF PubSubAssumption
      <4> QED
        BY <3>2, <4>2 DEF TypeOK
    <3> QED
      BY <1>16, <3>1, <3>2 DEF Send
  <2>2. left' \in [Messages -> SUBSET Subscribers]
    BY <1>16 DEF TypeOK, Send
  <2>3. UNCHANGED <<owner, channels, subs, subCh, unsubCh, published, snap, running, settled,
                    taken, state, lastOp, since>>
    BY <1>16 DEF Send, setupVars, chanVars, askVars
  <2> QED
    BY <2>1, <2>2, <2>3 DEF TypeOK
<1> QED
  BY <1>1, <1>2, <1>3, <1>4, <1>5, <1>6, <1>7, <1>8, <1>9, <1>10, <1>11, <1>12, <1>13, <1>14,
     <1>15, <1>16 DEF Next

(* pub_sub.rs: every reachable state has its shape, and no mailbox of a    *)
(* subscriber holds more than it has room for.                             *)
THEOREM PubSubTypeCorrect == Spec => []TypeOK
<1>1. Init => TypeOK
  BY PubSubAssumption DEF Init, TypeOK, PubSubAssumption
<1> QED
  BY <1>1, TypeStep, PTL DEF Spec

-----------------------------------------------------------------------------
OnWayIn(s)  == \E i \in DOMAIN subCh : subCh[i] = s
OnWayOut(s) == \E i \in DOMAIN unsubCh : unsubCh[i] = s

(* No message has been meant for s yet.                                    *)
Untouched(s) ==
  /\ s \notin subs
  /\ taken[s] = <<>> /\ inbox[s] = <<>>
  /\ \A m \in Messages : s \notin left[m]

(* A careful subscriber asks to be let in once, and nothing has reached it *)
(* before that is applied; so it does not ask to leave before either.      *)
Patient(s) ==
  /\ lastOp[s] = "none" => ~OnWayIn(s) /\ Untouched(s)
  /\ OnWayIn(s) => lastOp[s] = "sub" /\ Untouched(s)
  /\ \A i, j \in DOMAIN subCh : subCh[i] = s /\ subCh[j] = s => i = j
  /\ lastOp[s] = "unsub" /\ ~OnWayOut(s) => s \notin subs

CarefulInv == \A s \in Careful : Patient(s)

(* A step that does not change what a subscriber has asked for, lets it    *)
(* into nothing and sends it nothing new.                                  *)
LEMMA Undisturbed ==
  ASSUME NEW s, Patient(s), UNCHANGED <<subCh, unsubCh>>, lastOp'[s] = lastOp[s],
         s \in subs' => s \in subs, Untouched(s) => Untouched(s)'
  PROVE  Patient(s)'
<1>1. OnWayIn(s)' = OnWayIn(s) /\ OnWayOut(s)' = OnWayOut(s)
  BY DEF OnWayIn, OnWayOut
<1> QED
  BY <1>1 DEF Patient

(* pub_sub.rs: every step keeps a careful subscriber patient.              *)
LEMMA PatientStep ==
  ASSUME TypeOK, CarefulInv, [Next]_vars, NEW s \in Careful
  PROVE  Patient(s)'
<1>1. Patient(s) /\ s \in Subscribers
  BY PubSubAssumption DEF CarefulInv, PubSubAssumption
<1>2. CASE UNCHANGED vars
  BY <1>1, <1>2, Undisturbed DEF vars, setupVars, chanVars, taskVars, subVars, askVars, Untouched
<1>3. ASSUME NEW r \in Subscribers, Subscribe(r) PROVE Patient(s)'
  <2>1. CASE r = s
    <3>1. ~OnWayIn(s)' /\ lastOp'[s] = "sub" /\ UNCHANGED subCh
      BY <1>1, <1>3, <2>1 DEF TypeOK, Patient, Subscribe, Ask, OnWayIn, chanVars
    <3> QED
      BY <1>1, <3>1 DEF Patient, OnWayIn
  <2>2. CASE r # s
    BY <1>1, <1>3, <2>2, Undisturbed
       DEF TypeOK, Subscribe, Ask, Untouched, setupVars, chanVars, taskVars, subVars
  <2> QED BY <2>1, <2>2
<1>4. ASSUME NEW r \in Subscribers, Unsubscribe(r) PROVE Patient(s)'
  BY <1>1, <1>4, Undisturbed
     DEF TypeOK, Unsubscribe, Ask, Untouched, setupVars, chanVars, taskVars, subVars
<1>5. ASSUME NEW r \in Subscribers, AskIn(r) PROVE Patient(s)'
  <2>1. /\ Untouched(s)' = Untouched(s)
        /\ OnWayOut(s)' = OnWayOut(s)
        /\ subs' = subs
    BY <1>5 DEF AskIn, Untouched, OnWayOut, taskVars, subVars
  <2>2. /\ DOMAIN subCh' = DOMAIN subCh \cup {Len(subCh) + 1}
        /\ \A i \in DOMAIN subCh : subCh'[i] = subCh[i]
        /\ subCh'[Len(subCh) + 1] = r
    BY <1>5, AppendKeeps DEF TypeOK, AskIn
  <2>3. CASE r = s
    <3>1. lastOp[s] = "none" /\ lastOp'[s] = "sub"
      BY <1>1, <1>5, <2>3 DEF TypeOK, AskIn, Ask
    <3>2. ~OnWayIn(s) /\ Untouched(s)
      BY <1>1, <3>1 DEF Patient
    <3>3. \A i, j \in DOMAIN subCh' : subCh'[i] = s /\ subCh'[j] = s => i = j
      BY <2>2, <3>2 DEF OnWayIn
    <3> QED
      BY <2>1, <3>1, <3>2, <3>3 DEF Patient
  <2>4. CASE r # s
    <3>1. lastOp'[s] = lastOp[s]
      BY <1>1, <1>5, <2>4 DEF TypeOK, AskIn, Ask
    <3>2. OnWayIn(s)' = OnWayIn(s)
      BY <2>2, <2>4 DEF OnWayIn
    <3>3. \A i, j \in DOMAIN subCh' : subCh'[i] = s /\ subCh'[j] = s => i = j
      BY <1>1, <2>2, <2>4 DEF Patient
    <3> QED
      BY <1>1, <2>1, <3>1, <3>2, <3>3 DEF Patient
  <2> QED BY <2>3, <2>4
<1>6. ASSUME NEW r \in Subscribers, AskOut(r) PROVE Patient(s)'
  <2>1. /\ Untouched(s)' = Untouched(s)
        /\ OnWayIn(s)' = OnWayIn(s)
        /\ UNCHANGED <<subs, subCh>>
    BY <1>6 DEF AskOut, Untouched, OnWayIn, taskVars, subVars
  <2>2. /\ DOMAIN unsubCh' = DOMAIN unsubCh \cup {Len(unsubCh) + 1}
        /\ \A i \in DOMAIN unsubCh : unsubCh'[i] = unsubCh[i]
        /\ unsubCh'[Len(unsubCh) + 1] = r
    BY <1>6, AppendKeeps DEF TypeOK, AskOut
  <2>3. CASE r = s
    <3>1. lastOp'[s] = "unsub" /\ taken[s] # <<>>
      BY <1>1, <1>6, <2>3 DEF TypeOK, AskOut, Ask, KnowsItIsIn
    <3>2. ~OnWayIn(s)
      BY <1>1, <3>1 DEF Patient, Untouched
    <3>3. OnWayOut(s)'
      BY <2>2, <2>3 DEF OnWayOut
    <3> QED
      BY <1>1, <2>1, <3>1, <3>2, <3>3 DEF Patient
  <2>4. CASE r # s
    <3>1. lastOp'[s] = lastOp[s]
      BY <1>1, <1>6, <2>4 DEF TypeOK, AskOut, Ask
    <3>2. OnWayOut(s) => OnWayOut(s)'
      BY <2>2 DEF OnWayOut
    <3> QED
      BY <1>1, <2>1, <3>1, <3>2 DEF Patient
  <2> QED BY <2>3, <2>4
<1>7. ASSUME NEW r \in Subscribers, Handle(r) PROVE Patient(s)'
  BY <1>1, <1>7, Undisturbed
     DEF TypeOK, Handle, Untouched, setupVars, chanVars, taskVars, askVars
<1>8. ASSUME NEW r \in Subscribers, Close(r) PROVE Patient(s)'
  BY <1>1, <1>8, Undisturbed DEF Close, Untouched, setupVars, chanVars, taskVars, askVars
<1>9. ASSUME NEW r \in Subscribers, Panic(r) PROVE Patient(s)'
  BY <1>1, <1>9, Undisturbed
     DEF TypeOK, Panic, Untouched, setupVars, chanVars, taskVars, askVars
<1>10. ASSUME NEW c \in {"subscribe", "unsubscribe"}, RtChannel(c) PROVE Patient(s)'
  BY <1>1, <1>10, Undisturbed DEF RtChannel, Untouched, chanVars, taskVars, subVars, askVars
<1>11. CASE HandOff
  BY <1>1, <1>11, Undisturbed DEF HandOff, Untouched, chanVars, taskVars, subVars, askVars
<1>12. CASE Insert
  <2>1. /\ lastOp' = lastOp /\ OnWayOut(s)' = OnWayOut(s)
        /\ subs' = subs \cup {Head(subCh)}
    BY <1>12 DEF Insert, OnWayOut, askVars
  <2>2. /\ Head(subCh) = subCh[1] /\ 1 \in DOMAIN subCh
        /\ \A i \in DOMAIN subCh' :
             i \in Nat \ {0} /\ i + 1 \in DOMAIN subCh /\ subCh'[i] = subCh[i + 1]
    BY <1>12, TailShifts DEF TypeOK, Insert
  <2>3. \A i, j \in DOMAIN subCh' : subCh'[i] = s /\ subCh'[j] = s => i = j
    BY <1>1, <2>2 DEF Patient
  <2>4. OnWayIn(s)' => OnWayIn(s)
    BY <2>2 DEF OnWayIn
  <2>5. CASE Head(subCh) = s
    <3>1. lastOp[s] = "sub"
      BY <1>1, <2>2, <2>5 DEF Patient, OnWayIn
    <3>2. \A i \in DOMAIN subCh' : i \in Nat /\ i + 1 # 1
      BY <2>2
    <3>3. ~OnWayIn(s)'
      BY <1>1, <2>2, <2>5, <3>2 DEF Patient, OnWayIn
    <3> QED
      BY <2>1, <2>3, <3>1, <3>3 DEF Patient
  <2>6. CASE Head(subCh) # s
    <3>1. Untouched(s)' = Untouched(s) /\ (s \in subs' <=> s \in subs)
      BY <1>12, <2>1, <2>6 DEF Insert, Untouched, taskVars, subVars
    <3> QED
      BY <1>1, <2>1, <2>3, <2>4, <3>1 DEF Patient
  <2> QED BY <2>5, <2>6
<1>13. CASE Remove
  <2>1. /\ UNCHANGED <<lastOp, subCh>> /\ OnWayIn(s)' = OnWayIn(s)
        /\ subs' = subs \ {Head(unsubCh)}
    BY <1>13 DEF Remove, OnWayIn, askVars
  <2>2. Untouched(s) => Untouched(s)'
    BY <1>13 DEF Remove, Untouched, taskVars, subVars
  <2>3. /\ Head(unsubCh) = unsubCh[1]
        /\ \A i \in DOMAIN unsubCh' : i \in Nat /\ unsubCh'[i] = unsubCh[i + 1]
        /\ \A i \in DOMAIN unsubCh : i \in Nat /\ (i # 1 => i - 1 \in DOMAIN unsubCh')
    BY <1>13, TailShifts DEF TypeOK, Remove
  <2>4. OnWayOut(s) /\ Head(unsubCh) # s => OnWayOut(s)'
    <3> SUFFICES ASSUME NEW i \in DOMAIN unsubCh, unsubCh[i] = s, Head(unsubCh) # s
                 PROVE  OnWayOut(s)'
      BY DEF OnWayOut
    <3>1. i \in Nat /\ i # 1 /\ i - 1 \in DOMAIN unsubCh' /\ (i - 1) + 1 = i
      BY <2>3
    <3>2. unsubCh'[i - 1] = s
      BY <2>3, <3>1
    <3> QED
      BY <3>1, <3>2 DEF OnWayOut
  <2> QED
    BY <1>1, <2>1, <2>2, <2>4 DEF Patient
<1>14. CASE Publish
  <2>1. Untouched(s) => Untouched(s)'
    BY <1>14 DEF TypeOK, Publish, Untouched, subVars
  <2> QED
    BY <1>1, <1>14, <2>1, Undisturbed DEF Publish, chanVars, askVars
<1>15. CASE Drop
  <2>1. ~OnWayIn(s)' /\ subs' = {} /\ subCh' = <<>> /\ lastOp' = lastOp
    BY <1>15 DEF Drop, OnWayIn, askVars
  <2>2. Untouched(s) => Untouched(s)'
    BY <1>15 DEF Drop, Untouched, subVars
  <2> QED
    BY <1>1, <2>1, <2>2 DEF Patient
<1>16. ASSUME NEW m \in Messages, TaskEnds(m) PROVE Patient(s)'
  BY <1>1, <1>16, Undisturbed DEF TaskEnds, Untouched, setupVars, chanVars, subVars, askVars
<1>17. ASSUME NEW m \in Messages, NEW r \in Subscribers, Send(m, r) PROVE Patient(s)'
  <2>1. Untouched(s) => Untouched(s)'
    BY <1>1, <1>17 DEF TypeOK, Send, Polled, Untouched
  <2> QED
    BY <1>1, <1>17, <2>1, Undisturbed DEF Send, setupVars, chanVars, askVars
<1> QED
  BY <1>2, <1>3, <1>4, <1>5, <1>6, <1>7, <1>8, <1>9, <1>10, <1>11, <1>12, <1>13, <1>14,
     <1>15, <1>16, <1>17 DEF Next

(* pub_sub.rs:82-135: whatever order the two tasks apply subscriptions and *)
(* unsubscriptions in, one who unsubscribes after a message has reached it *)
(* is not sent another once that is applied.                               *)
THEOREM LeaversStayOut == Spec => []LeavesForGood
<1>1. Init => CarefulInv
  <2> SUFFICES ASSUME Init, NEW s \in Careful PROVE Patient(s)
    BY DEF CarefulInv
  <2>1. s \in Subscribers
    BY PubSubAssumption DEF PubSubAssumption
  <2>2. ~OnWayIn(s) /\ lastOp[s] = "none" /\ Untouched(s) /\ subCh = <<>>
    BY <2>1 DEF Init, OnWayIn, Untouched
  <2> QED
    BY <2>2 DEF Patient
<1>2. TypeOK /\ CarefulInv /\ [Next]_vars => CarefulInv'
  BY PatientStep DEF CarefulInv
<1>3. CarefulInv => LeavesForGood
  BY DEF CarefulInv, Patient, LeavesForGood, OnWayOut
<1> QED
  BY <1>1, <1>2, <1>3, PubSubTypeCorrect, PTL DEF Spec

-----------------------------------------------------------------------------
(* What is settled for good when a message comes: tasks that have ended    *)
(* have nothing left to send.                                              *)
TasksInv ==
  /\ running \subseteq 1..published
  /\ \A m \in Messages : settled[m] \subseteq 1..published
  /\ \A m \in Messages : \A k \in settled[m] : left[k] = {}
  /\ \A m \in Messages : m \notin running => left[m] = {}

MayPrecede(x, y) == x # y /\ y \notin settled[x]

(* The messages a subscriber has handled, and behind them the ones that    *)
(* wait in its mailbox.                                                    *)
InOrder(s) ==
  /\ \A i, j \in DOMAIN taken[s] : i < j => MayPrecede(taken[s][i], taken[s][j])
  /\ \A i \in DOMAIN taken[s], j \in DOMAIN inbox[s] : MayPrecede(taken[s][i], inbox[s][j])
  /\ \A i, j \in DOMAIN inbox[s] : i < j => MayPrecede(inbox[s][i], inbox[s][j])

(* None of them is still to be sent to it.                                 *)
SentOnce(s) ==
  /\ \A i \in DOMAIN taken[s] : taken[s][i] <= published /\ s \notin left[taken[s][i]]
  /\ \A i \in DOMAIN inbox[s] : inbox[s][i] <= published /\ s \notin left[inbox[s][i]]

OrderInv == TasksInv /\ \A s \in Subscribers : InOrder(s) /\ SentOnce(s)

(* What tasks and subscribers have left to do never grows but by Publish.  *)
LEMMA TasksStep ==
  ASSUME TypeOK, TasksInv, [Next]_vars
  PROVE  TasksInv'
<1>1. CASE UNCHANGED <<published, left, running, settled>>
  BY <1>1 DEF TasksInv
<1>2. CASE Publish
  <2> DEFINE new == published + 1
  <2>1. /\ new \in Messages /\ published \in Nat
        /\ published' = new /\ running' = running \cup {new}
        /\ left' = [left EXCEPT ![new] = subs]
        /\ settled' = [settled EXCEPT ![new] = (1..published) \ running]
    BY <1>2, PubSubAssumption DEF TypeOK, Publish, Messages, PubSubAssumption
  <2> HIDE DEF new
  <2>2. new = published + 1
    BY DEF new
  <2>3. (1..published) \subseteq 1..new /\ new \notin 1..published /\ new \in 1..new
        /\ 1..published \subseteq Messages
    BY <2>1, <2>2, PubSubAssumption DEF Messages, PubSubAssumption
  <2>4. running' \subseteq 1..published' /\ \A m \in Messages : settled'[m] \subseteq 1..published'
    BY <2>1, <2>3 DEF TypeOK, TasksInv
  <2>5. ASSUME NEW m \in Messages, NEW k \in settled'[m] PROVE left'[k] = {}
    <3>1. k \in 1..published /\ k \in Messages
      BY <2>1, <2>3, <2>5 DEF TypeOK, TasksInv
    <3>2. left[k] = {}
      BY <2>1, <2>5, <3>1 DEF TypeOK, TasksInv
    <3> QED
      BY <2>1, <2>3, <3>1, <3>2 DEF TypeOK
  <2>6. ASSUME NEW m \in Messages, m \notin running' PROVE left'[m] = {}
    BY <2>1, <2>6 DEF TypeOK, TasksInv
  <2> QED
    BY <2>4, <2>5, <2>6 DEF TasksInv
<1>3. CASE Drop
  BY <1>3 DEF TypeOK, Drop, TasksInv
<1>4. ASSUME NEW m \in Messages, TaskEnds(m) PROVE TasksInv'
  BY <1>4 DEF TypeOK, TaskEnds, Complete, TasksInv
<1>5. ASSUME NEW m \in Messages, NEW s \in Subscribers, Send(m, s) PROVE TasksInv'
  <2>1. /\ UNCHANGED <<published, running, settled>>
        /\ left' = [left EXCEPT ![m] = @ \ {s}]
    BY <1>5 DEF Send
  <2>2. \A k \in Messages : left[k] = {} => left'[k] = {}
    BY <2>1 DEF TypeOK
  <2> QED
    BY <2>1, <2>2 DEF TypeOK, TasksInv
<1> QED
  BY <1>1, <1>2, <1>3, <1>4, <1>5
     DEF Next, vars, taskVars, Subscribe, Unsubscribe, AskIn, AskOut, Handle, Close, Panic,
         RtChannel, HandOff, Insert, Remove

(* A step that hands a subscriber nothing new keeps the order of what it   *)
(* has been handed.                                                        *)
LEMMA NothingNew ==
  ASSUME NEW s, InOrder(s), SentOnce(s), TypeOK, s \in Subscribers,
         taken'[s] = taken[s], inbox'[s] = inbox[s], settled' = settled,
         published' = published, \A m \in Messages : s \in left'[m] => s \in left[m]
  PROVE  InOrder(s)' /\ SentOnce(s)'
<1>1. InOrder(s)'
  BY DEF InOrder, MayPrecede
<1>2. \A i \in DOMAIN taken[s] : taken[s][i] \in Messages
  BY DEF TypeOK
<1>3. \A i \in DOMAIN inbox[s] : inbox[s][i] \in Messages
  BY DEF TypeOK
<1> QED
  BY <1>1, <1>2, <1>3 DEF SentOnce

(* pub_sub.rs: every step keeps the order.                                 *)
LEMMA OrderStep ==
  ASSUME TypeOK, OrderInv, [Next]_vars, NEW s \in Subscribers
  PROVE  InOrder(s)' /\ SentOnce(s)'
<1>1. InOrder(s) /\ SentOnce(s) /\ TasksInv
  BY DEF OrderInv
<1>2. /\ \A i \in DOMAIN taken[s] : taken[s][i] \in Messages
      /\ \A i \in DOMAIN inbox[s] : inbox[s][i] \in Messages
      /\ taken[s] \in Seq(Messages) /\ inbox[s] \in Seq(Messages)
  BY DEF TypeOK
<1>3. CASE UNCHANGED <<published, left, settled, inbox, taken>>
  BY <1>1, <1>3, NothingNew
<1>4. ASSUME NEW r \in Subscribers, Handle(r) PROVE InOrder(s)' /\ SentOnce(s)'
  <2>1. UNCHANGED <<published, left, settled>>
    BY <1>4 DEF Handle, taskVars
  <2>2. CASE r # s
    <3>1. taken'[s] = taken[s] /\ inbox'[s] = inbox[s]
      BY <1>4, <2>2 DEF TypeOK, Handle
    <3> QED
      BY <1>1, <2>1, <3>1, NothingNew
  <2>3. CASE r = s
    <3>1. /\ inbox[s] # <<>> /\ inbox'[s] = Tail(inbox[s])
          /\ taken'[s] = taken[s] \/ taken'[s] = Append(taken[s], Head(inbox[s]))
      BY <1>4, <2>3 DEF TypeOK, Handle
    <3>2. /\ Head(inbox[s]) = inbox[s][1] /\ 1 \in DOMAIN inbox[s]
          /\ \A i \in DOMAIN inbox'[s] :
               i \in Nat \ {0} /\ i + 1 \in DOMAIN inbox[s] /\ inbox'[s][i] = inbox[s][i + 1]
      BY <1>2, <3>1, TailShifts
    <3>3. /\ \A i, j \in DOMAIN inbox'[s] : i < j => MayPrecede(inbox'[s][i], inbox'[s][j])
          /\ \A i \in DOMAIN inbox'[s] : inbox'[s][i] <= published /\ s \notin left[inbox'[s][i]]
      BY <1>1, <3>2 DEF InOrder, SentOnce
    <3>4. CASE taken'[s] = taken[s]
      <4>1. \A i \in DOMAIN taken[s], j \in DOMAIN inbox'[s] : MayPrecede(taken[s][i], inbox'[s][j])
        BY <1>1, <3>2 DEF InOrder
      <4> QED
        BY <1>1, <2>1, <3>3, <3>4, <4>1 DEF InOrder, SentOnce, MayPrecede
    <3>5. CASE taken'[s] = Append(taken[s], Head(inbox[s]))
      <4> DEFINE h == inbox[s][1]
                 n == Len(taken[s]) + 1
      <4>1. /\ DOMAIN taken'[s] = DOMAIN taken[s] \cup {n}
            /\ DOMAIN taken[s] = 1..Len(taken[s]) /\ Len(taken[s]) \in Nat
            /\ \A i \in DOMAIN taken[s] : taken'[s][i] = taken[s][i]
            /\ taken'[s][n] = h
        BY <1>2, <3>2, <3>5, AppendKeeps
      <4>2. /\ h <= published /\ s \notin left[h]
            /\ \A i \in DOMAIN taken[s] : MayPrecede(taken[s][i], h)
            /\ \A j \in DOMAIN inbox'[s] : MayPrecede(h, inbox'[s][j])
            /\ \A i \in DOMAIN taken[s], j \in DOMAIN inbox'[s] : MayPrecede(taken[s][i], inbox'[s][j])
        <5>1. \A j \in DOMAIN inbox'[s] : 1 < j + 1
          BY <3>2
        <5> QED
          BY <1>1, <3>2, <5>1 DEF InOrder, SentOnce
      <4>3. \A i \in DOMAIN taken'[s] : i # n => i \in DOMAIN taken[s] /\ i < n
        BY <4>1
      <4> HIDE DEF n, h
      <4>4. \A i, j \in DOMAIN taken'[s] : i < j => MayPrecede(taken'[s][i], taken'[s][j])
        <5> SUFFICES ASSUME NEW i \in DOMAIN taken'[s], NEW j \in DOMAIN taken'[s], i < j
                     PROVE  MayPrecede(taken'[s][i], taken'[s][j])
          OBVIOUS
        <5>1. i # n
          BY <4>1, <4>3 DEF n
        <5>2. i \in DOMAIN taken[s] /\ taken'[s][i] = taken[s][i]
          BY <4>1, <4>3, <5>1
        <5>3. CASE j = n
          BY <4>1, <4>2, <5>2, <5>3
        <5>4. CASE j # n
          BY <1>1, <4>1, <4>3, <5>2, <5>4 DEF InOrder
        <5> QED BY <5>3, <5>4
      <4>5. \A i \in DOMAIN taken'[s], j \in DOMAIN inbox'[s] :
              MayPrecede(taken'[s][i], inbox'[s][j])
        BY <4>1, <4>2
      <4>6. \A i \in DOMAIN taken'[s] : taken'[s][i] <= published /\ s \notin left[taken'[s][i]]
        BY <1>1, <4>1, <4>2 DEF SentOnce
      <4> QED
        BY <2>1, <3>3, <4>4, <4>5, <4>6 DEF InOrder, SentOnce, MayPrecede
    <3> QED BY <3>1, <3>4, <3>5
  <2> QED BY <2>2, <2>3
<1>5. ASSUME NEW r \in Subscribers, Panic(r) PROVE InOrder(s)' /\ SentOnce(s)'
  <2>1. UNCHANGED <<published, left, settled, taken>>
    BY <1>5 DEF Panic, taskVars
  <2>2. inbox'[s] = inbox[s] \/ inbox'[s] = <<>>
    BY <1>5 DEF TypeOK, Panic
  <2>3. CASE inbox'[s] = <<>>
    BY <1>1, <2>1, <2>3 DEF InOrder, SentOnce, MayPrecede
  <2> QED
    BY <1>1, <2>1, <2>2, <2>3, NothingNew
<1>6. CASE Publish
  <2> DEFINE new == published + 1
  <2>1. /\ new \in Messages /\ published \in Nat /\ published' = new
        /\ left' = [left EXCEPT ![new] = subs]
        /\ settled' = [settled EXCEPT ![new] = (1..published) \ running]
        /\ UNCHANGED <<inbox, taken>>
    BY <1>6, PubSubAssumption DEF TypeOK, Publish, Messages, PubSubAssumption, subVars
  <2>2. \A m \in Messages : m <= published => m # new /\ m <= published'
    BY <2>1 DEF Messages
  <2> HIDE DEF new
  <2>3. \A m \in Messages : m <= published => settled'[m] = settled[m] /\ left'[m] = left[m]
    BY <2>1, <2>2 DEF TypeOK
  <2>4. SentOnce(s)'
    BY <1>1, <1>2, <2>1, <2>2, <2>3 DEF SentOnce
  <2>5. \A x, y \in Messages : x <= published /\ MayPrecede(x, y) => MayPrecede(x, y)'
    BY <2>3 DEF MayPrecede
  <2>6. InOrder(s)'
    BY <1>1, <1>2, <2>1, <2>5 DEF InOrder, SentOnce
  <2> QED BY <2>4, <2>6
<1>7. CASE Drop
  <2>1. UNCHANGED <<published, settled, inbox, taken>> /\ \A m \in Messages : left'[m] = {}
    BY <1>7 DEF Drop, subVars
  <2> QED
    BY <1>1, <2>1, NothingNew
<1>8. ASSUME NEW m \in Messages, NEW r \in Subscribers, Send(m, r)
      PROVE  InOrder(s)' /\ SentOnce(s)'
  <2>1. /\ UNCHANGED <<published, settled, taken>>
        /\ left' = [left EXCEPT ![m] = @ \ {r}] /\ r \in left[m]
    BY <1>8 DEF Send, Polled
  <2>2. \A k \in Messages : s \in left'[k] => s \in left[k]
    BY <2>1 DEF TypeOK
  <2>3. CASE inbox'[s] = inbox[s]
    BY <1>1, <2>1, <2>2, <2>3, NothingNew
  <2>4. CASE r = s /\ inbox'[s] = Append(inbox[s], m)
    <3> DEFINE n == Len(inbox[s]) + 1
    <3>1. /\ DOMAIN inbox'[s] = DOMAIN inbox[s] \cup {n}
          /\ DOMAIN inbox[s] = 1..Len(inbox[s]) /\ Len(inbox[s]) \in Nat
          /\ \A i \in DOMAIN inbox[s] : inbox'[s][i] = inbox[s][i]
          /\ inbox'[s][n] = m
      BY <1>2, <2>4, AppendKeeps
    <3>2. \A i \in DOMAIN inbox'[s] : i # n => i \in DOMAIN inbox[s] /\ i < n
      BY <3>1
    <3>3. m \in running /\ m <= published
      BY <1>1, <2>1, <2>4 DEF TypeOK, TasksInv, Messages
    <3>4. \A x \in Messages : s \notin left[x] => MayPrecede(x, m)
      BY <1>1, <2>1, <2>4 DEF TasksInv, MayPrecede
    <3>5. s \notin left'[m]
      BY <2>1, <2>4 DEF TypeOK
    <3>6. \A i \in DOMAIN inbox[s] : MayPrecede(inbox[s][i], m)
      BY <1>1, <1>2, <3>4 DEF SentOnce
    <3>7. \A i \in DOMAIN taken[s] : MayPrecede(taken[s][i], m)
      BY <1>1, <1>2, <3>4 DEF SentOnce
    <3> HIDE DEF n
    <3>8. \A i, j \in DOMAIN inbox'[s] : i < j => MayPrecede(inbox'[s][i], inbox'[s][j])
      <4> SUFFICES ASSUME NEW i \in DOMAIN inbox'[s], NEW j \in DOMAIN inbox'[s], i < j
                   PROVE  MayPrecede(inbox'[s][i], inbox'[s][j])
        OBVIOUS
      <4>1. i # n
        BY <3>1, <3>2 DEF n
      <4>2. i \in DOMAIN inbox[s] /\ inbox'[s][i] = inbox[s][i]
        BY <3>1, <3>2, <4>1
      <4>3. CASE j = n
        BY <3>1, <3>6, <4>2, <4>3
      <4>4. CASE j # n
        BY <1>1, <3>1, <3>2, <4>2, <4>4 DEF InOrder
      <4> QED BY <4>3, <4>4
    <3>9. \A i \in DOMAIN taken[s], j \in DOMAIN inbox'[s] : MayPrecede(taken[s][i], inbox'[s][j])
      BY <1>1, <3>1, <3>7 DEF InOrder
    <3>10. InOrder(s)'
      BY <1>1, <2>1, <3>8, <3>9 DEF InOrder, MayPrecede
    <3>11. \A i \in DOMAIN taken[s] : taken[s][i] <= published /\ s \notin left'[taken[s][i]]
      BY <1>1, <1>2, <2>2 DEF SentOnce
    <3>12. \A i \in DOMAIN inbox'[s] : inbox'[s][i] <= published /\ s \notin left'[inbox'[s][i]]
      BY <1>1, <1>2, <2>2, <3>1, <3>3, <3>5 DEF SentOnce
    <3> QED
      BY <2>1, <3>10, <3>11, <3>12 DEF SentOnce
  <2> QED
    BY <1>8, <2>3, <2>4 DEF TypeOK, Send
<1>9. ASSUME NEW m \in Messages, TaskEnds(m) PROVE InOrder(s)' /\ SentOnce(s)'
  BY <1>3, <1>9 DEF TaskEnds, subVars
<1> QED
  BY <1>3, <1>4, <1>5, <1>6, <1>7, <1>8, <1>9
     DEF Next, vars, taskVars, subVars, Subscribe, Unsubscribe, AskIn, AskOut, Close,
         RtChannel, HandOff, Insert, Remove

(* pub_sub.rs:158-184: no subscriber handles a message twice, or after one *)
(* that was published when the task of the first had ended, however many   *)
(* tasks fan out at once and whoever joins, leaves, closes or panics.      *)
THEOREM OrderIsKept == Spec => []OrderKept
<1>1. Init => OrderInv
  BY DEF Init, OrderInv, TasksInv, InOrder, SentOnce
<1>2. TypeOK /\ OrderInv /\ [Next]_vars => OrderInv'
  BY OrderStep, TasksStep DEF OrderInv
<1>3. OrderInv => OrderKept
  BY DEF OrderInv, InOrder, MayPrecede, OrderKept
<1> QED
  BY <1>1, <1>2, <1>3, PubSubTypeCorrect, PTL DEF Spec
=============================================================================
