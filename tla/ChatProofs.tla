----------------------------- MODULE ChatProofs -----------------------------
(***************************************************************************)
(* Theorems about Chat.tla, for any sessions, nicks and numbers of         *)
(* requests, with the page of one client: its shape and that of the        *)
(* server, which users the server has and whether it survives, and at the  *)
(* end that the page follows the server, mailbox by mailbox.               *)
(***************************************************************************)
EXTENDS Chat, TLAPS

(* Server::users has an entry for sessions only, under distinct nicks.     *)
UsersInv == users = [s \in Sessions |-> users[s]] /\ NicksUnique

(* server.rs:49-53, 101-118: whoever is let in has a nick nobody else has. *)
LEMMA LetIn ==
  ASSUME UsersInv, NEW s, NEW n, NEW us, ValidateNick(us, n),
         us = users \/ us = [users EXCEPT ![s] = NoNick],
         users' = [users EXCEPT ![s] = n]
  PROVE  UsersInv'
<1>1. users' = [r \in Sessions |-> IF r = s THEN n ELSE users[r]]
  BY DEF UsersInv
<1>2. \A r \in Sessions \ {s} : users[r] # n
  BY DEF UsersInv, ValidateNick
<1> QED
  BY <1>1, <1>2 DEF UsersInv, NicksUnique, Present

(* server.rs, user.rs: nobody takes a nick that is taken.                  *)
LEMMA UsersStep == ASSUME UsersInv, [Next]_vars PROVE UsersInv'
<1>1. CASE UNCHANGED users
  BY <1>1 DEF UsersInv, NicksUnique, Present
<1>2. CASE HandleUserData
  BY <1>1, <1>2, LetIn DEF HandleUserData
<1>3. CASE HandleChangeNick
  BY <1>1, <1>3, LetIn DEF HandleChangeNick
<1>4. CASE HandleConnectionClosed
  <2>1. users' = [users EXCEPT ![Head(serverBox).sid] = NoNick]
    BY <1>4 DEF HandleConnectionClosed
  <2>2. users' = [r \in Sessions |-> IF r = Head(serverBox).sid THEN NoNick ELSE users[r]]
    BY <2>1 DEF UsersInv
  <2> QED
    BY <2>2 DEF UsersInv, NicksUnique, Present
<1>5. ASSUME ServerStep PROVE UNCHANGED users \/ HandleUserData \/ HandleChangeNick
                              \/ HandleConnectionClosed
  BY <1>5 DEF ServerStep, HandleChatMsgIn, Report, UserJoins, UserSetsNick, UserTalks, ReplyArrives
<1>6. ASSUME PageStep PROVE UNCHANGED users
  <2>1. CASE AppDisconnects
    BY <2>1 DEF AppDisconnects, PeerCloses, serverVars
  <2>2. CASE \E s \in Watched : Read(s)
    BY <2>2 DEF Read
  <2> QED
    BY <1>6, <2>1, <2>2
       DEF PageStep, FormConnects, CallCancelled, AppConnects, AppFills, AppLinks, AppUserJoined,
           AppUserLeft, AppTellsWindow, AppNickChanged, AppRenames, AppChatMsg, AppAsks, ListStep,
           WindowStep, serverVars
<1>7. ASSUME Visit PROVE UNCHANGED users
  BY <1>7 DEF Visit, SubmitConnect, ChatSubmit
<1>8. ASSUME NEW s \in Sessions, PeerCloses(s) \/ ClientStep(s) PROVE UNCHANGED users
  BY <1>8 DEF PeerCloses, ClientStep, ClientAsks
<1>9. CASE UNCHANGED vars
  BY <1>1, <1>9 DEF vars, serverVars
<1> QED
  BY <1>1, <1>2, <1>3, <1>4, <1>5, <1>6, <1>7, <1>8, <1>9 DEF Next

(* server.rs:35-69, 151-180: however joins, changes of nick, refusals and  *)
(* departures follow each other, two users never go by the same nick.      *)
THEOREM NicksStayUnique == Spec => []NicksUnique
<1>1. Init => UsersInv
  BY DEF Init, ServerInit, UsersInv, NicksUnique, Present
<1>2. UsersInv => NicksUnique
  BY DEF UsersInv
<1> QED
  BY <1>1, <1>2, UsersStep, PTL DEF Spec

-----------------------------------------------------------------------------
(* The mailboxes of the actors: what is in one after a message was taken   *)
(* from its front or put at its end.                                       *)
LEMMA TakenFrom ==
  ASSUME NEW S, NEW q \in Seq(S), q # <<>>
  PROVE  /\ Tail(q) \in Seq(S)
         /\ Head(q) \in S
         /\ Head(q) = q[1] /\ 1 \in DOMAIN q
         /\ \A i \in DOMAIN Tail(q) :
              i \in Nat /\ i + 1 # 1 /\ i + 1 \in DOMAIN q /\ Tail(q)[i] = q[i + 1]
         /\ \A i \in DOMAIN q : i \in Nat /\ (i # 1 => i - 1 \in DOMAIN Tail(q) /\ Tail(q)[i - 1] = q[i])
OBVIOUS

(* ... and what there is when something is added at its end.               *)
LEMMA PutInto ==
  ASSUME NEW S, NEW q \in Seq(S), NEW e \in S
  PROVE  /\ Append(q, e) \in Seq(S)
         /\ \E n \in Nat : n \notin DOMAIN q /\ DOMAIN Append(q, e) = DOMAIN q \cup {n}
                           /\ Append(q, e)[n] = e
         /\ \A i \in DOMAIN q : Append(q, e)[i] = q[i]
<1>1. Len(q) + 1 \notin DOMAIN q /\ DOMAIN Append(q, e) = DOMAIN q \cup {Len(q) + 1}
  OBVIOUS
<1> QED
  BY <1>1

-----------------------------------------------------------------------------
(* The mailbox of the server.                                              *)
InBox(s) == \E i \in DOMAIN serverBox : serverBox[i] \in Calls /\ serverBox[i].sid = s

Shapes ==
  /\ conn \in [Sessions -> {"open", "shut"}]
  /\ reported \subseteq Sessions
  /\ asks \in [Sessions -> SUBSET Asks]
  /\ mayJoin \in [Sessions -> BOOLEAN]
  /\ waiting \in [Sessions -> BOOLEAN]
  /\ serverBox \in Seq(ServerInbox)
  /\ users \in UserMaps
  /\ culprit \in Sessions \cup {NoOne}
  /\ replies \in [Sessions -> SUBSET Replies]
  /\ out \in [Sessions -> Seq(ServerMsgs \cup Replies)]
  /\ admitted \subseteq Sessions /\ rash \subseteq Sessions
  /\ \A s \in Sessions : spent[s] \in 0..MaxAsks[s]

(* user.rs: a User that waits has one call in the mailbox of the server,   *)
(* and no more.                                                            *)
WaitsForOne ==
  /\ \A s \in Sessions : waiting[s] <=> culprit = s \/ InBox(s)
  /\ \A i, j \in DOMAIN serverBox :
       /\ serverBox[i] \in Calls /\ serverBox[j] \in Calls
       /\ serverBox[i].sid = serverBox[j].sid
       => i = j

(* The type invariant of the server, in two parts.                         *)
LEMMA ServerTypeOKIs == ServerTypeOK <=> Shapes /\ \A s \in Sessions : waiting[s] <=> culprit = s \/ InBox(s)
BY DEF ServerTypeOK, Shapes, InBox

(* server.rs, user.rs: the messages of the server are of its inbox.        *)
LEMMA Messages ==
  /\ \A s \in Sessions : ConnectionClosed(s) \in ServerInbox /\ ChatMsgIn(s) \in ServerInbox
  /\ \A s \in Sessions : ConnectionClosed(s) \notin Calls /\ ChatMsgIn(s) \notin Calls
  /\ \A s \in Sessions, n \in Nicks : /\ UserData(s, n) \in Calls /\ UserData(s, n).sid = s
                                      /\ ChangeNick(s, n) \in Calls /\ ChangeNick(s, n).sid = s
  /\ Calls \subseteq ServerInbox
  /\ \A m \in ServerInbox : m.sid \in Sessions
  /\ \A m \in ServerInbox : m.type \in {"UserData", "ChangeNick"} => m \in Calls
  /\ \A m \in Calls : m.type \in {"UserData", "ChangeNick"} /\ m.nick \in Nicks
  /\ \A a \in Asks : a.type \in {"Join", "SetNick"} => a.nick \in Nicks
  /\ \A n \in Nicks : Join(n) \in Asks /\ SetNick(n) \in Asks
  /\ NewChatMsg \in Asks
BY DEF ConnectionClosed, ChatMsgIn, UserData, ChangeNick, ServerInbox, Calls, Asks, Join, SetNick, NewChatMsg

(* server.rs: what the server sends is what clients receive.               *)
LEMMA Broadcasts ==
  /\ \A s \in Sessions, n \in Nicks : UserJoined(s, n) \in ServerMsgs /\ NickChanged(s, n) \in ServerMsgs
  /\ \A s \in Sessions, b \in BOOLEAN : UserLeft(s, b) \in ServerMsgs
  /\ \A s \in Sessions : ChatMsg(s) \in ServerMsgs
  /\ \A us \in UserMaps : Welcome(us) \in Replies
  /\ Refused \in Replies
  /\ \A b \in BOOLEAN : NickAnswer(b) \in Replies
BY DEF UserJoined, NickChanged, UserLeft, ChatMsg, Welcome, Refused, NickAnswer, ServerMsgs, Replies

(* Server::broadcast, and an answer on its way back to the client.         *)
LEMMA BroadcastType ==
  ASSUME Shapes, NEW us, NEW m \in ServerMsgs, Broadcast(us, m)
  PROVE  out' \in [Sessions -> Seq(ServerMsgs \cup Replies)]
BY DEF Shapes, Broadcast

(* user.rs: an answer is one the client can take.                          *)
LEMMA AnswerType ==
  ASSUME Shapes, NEW s \in Sessions, NEW r \in Replies, Answer(s, r)
  PROVE  /\ replies' \in [Sessions -> SUBSET Replies]
         /\ admitted' \subseteq Sessions
<1>1. CASE s \in Watched
  <2>1. replies[s] \cup {r} \in SUBSET Replies /\ replies[s] \in SUBSET Replies
    BY DEF Shapes
  <2> QED
    BY <1>1, <2>1 DEF Shapes, Answer
<1>2. CASE s \notin Watched
  BY <1>2 DEF Shapes, Answer
<1> QED
  BY <1>1, <1>2

(* What the server takes from its mailbox.                                 *)
LEMMA HandlingTakes ==
  ASSUME Shapes, WaitsForOne, NEW t, Handling(t)
  PROVE  /\ serverBox' \in Seq(ServerInbox)
         /\ Head(serverBox) \in ServerInbox /\ Head(serverBox).type = t
         /\ culprit = NoOne
         /\ \A i, j \in DOMAIN serverBox' :
              /\ serverBox'[i] \in Calls /\ serverBox'[j] \in Calls
              /\ serverBox'[i].sid = serverBox'[j].sid
              => i = j
         /\ Head(serverBox) \in Calls =>
              \A s \in Sessions : InBox(s)' <=> InBox(s) /\ s # Head(serverBox).sid
         /\ Head(serverBox) \notin Calls => \A s \in Sessions : InBox(s)' <=> InBox(s)
<1>1. serverBox \in Seq(ServerInbox) /\ serverBox # <<>> /\ serverBox' = Tail(serverBox)
  BY DEF Shapes, Handling
<1>2. /\ serverBox' \in Seq(ServerInbox)
      /\ Head(serverBox) \in ServerInbox
      /\ Head(serverBox) = serverBox[1] /\ 1 \in DOMAIN serverBox
      /\ \A i \in DOMAIN serverBox' : /\ i \in Nat /\ i + 1 # 1 /\ i + 1 \in DOMAIN serverBox
                                      /\ serverBox'[i] = serverBox[i + 1]
      /\ \A i \in DOMAIN serverBox : /\ i \in Nat
                                     /\ i # 1 => /\ i - 1 \in DOMAIN serverBox'
                                                 /\ serverBox'[i - 1] = serverBox[i]
  BY <1>1, TakenFrom
<1>3. Head(serverBox).type = t /\ culprit = NoOne
  BY DEF Handling
<1>4. ASSUME NEW i \in DOMAIN serverBox', NEW j \in DOMAIN serverBox',
             serverBox'[i] \in Calls, serverBox'[j] \in Calls, serverBox'[i].sid = serverBox'[j].sid
      PROVE  i = j
  <2>1. i + 1 = j + 1
    BY <1>2, <1>4 DEF WaitsForOne
  <2> QED
    BY <1>2, <2>1
<1>5. ASSUME Head(serverBox) \in Calls, NEW s \in Sessions
      PROVE  InBox(s)' <=> InBox(s) /\ s # Head(serverBox).sid
  <2>1. ASSUME InBox(s)' PROVE InBox(s) /\ s # Head(serverBox).sid
    <3>1. PICK i \in DOMAIN serverBox' : serverBox'[i] \in Calls /\ serverBox'[i].sid = s
      BY <2>1 DEF InBox
    <3>2. i + 1 \in DOMAIN serverBox /\ serverBox[i + 1] = serverBox'[i] /\ i + 1 # 1
      BY <1>2
    <3> QED
      BY <1>2, <1>5, <3>1, <3>2 DEF InBox, WaitsForOne
  <2>2. ASSUME InBox(s), s # Head(serverBox).sid PROVE InBox(s)'
    <3>1. PICK i \in DOMAIN serverBox : serverBox[i] \in Calls /\ serverBox[i].sid = s
      BY <2>2 DEF InBox
    <3>2. i - 1 \in DOMAIN serverBox' /\ serverBox'[i - 1] = serverBox[i]
      BY <1>2, <2>2, <3>1
    <3> QED
      BY <3>1, <3>2 DEF InBox
  <2> QED
    BY <2>1, <2>2
<1>6. ASSUME Head(serverBox) \notin Calls, NEW s \in Sessions
      PROVE  InBox(s)' <=> InBox(s)
  BY <1>2, <1>6 DEF InBox
<1> QED
  BY <1>2, <1>3, <1>4, <1>5, <1>6

(* A message that is no call, and one of a User that does not wait yet.    *)
LEMMA NoteSent ==
  ASSUME Shapes, WaitsForOne, NEW m \in ServerInbox, m \notin Calls,
         serverBox' = Append(serverBox, m), UNCHANGED <<waiting, culprit>>
  PROVE  serverBox' \in Seq(ServerInbox) /\ WaitsForOne'
<1>1. serverBox' \in Seq(ServerInbox)
  BY PutInto DEF Shapes
<1>2. PICK n \in Nat : /\ n \notin DOMAIN serverBox /\ DOMAIN serverBox' = DOMAIN serverBox \cup {n}
                       /\ serverBox'[n] = m
                       /\ \A i \in DOMAIN serverBox : serverBox'[i] = serverBox[i]
  <2>1. serverBox \in Seq(ServerInbox) /\ m \in ServerInbox
    BY DEF Shapes
  <2>2. /\ \E n \in Nat : /\ n \notin DOMAIN serverBox
                         /\ DOMAIN Append(serverBox, m) = DOMAIN serverBox \cup {n}
                         /\ Append(serverBox, m)[n] = m
        /\ \A i \in DOMAIN serverBox : Append(serverBox, m)[i] = serverBox[i]
    BY <2>1, PutInto
  <2> QED
    BY <2>2
<1>3. \A s \in Sessions : InBox(s)' <=> InBox(s)
  BY <1>2 DEF InBox
<1> QED
  BY <1>1, <1>2, <1>3 DEF WaitsForOne

(* user.rs: a session that calls the server has one call in its mailbox.   *)
LEMMA CallSent ==
  ASSUME Shapes, WaitsForOne, NEW m \in Calls, ~waiting[m.sid], m.sid \in Sessions,
         serverBox' = Append(serverBox, m),
         waiting' = [waiting EXCEPT ![m.sid] = TRUE], UNCHANGED culprit
  PROVE  serverBox' \in Seq(ServerInbox) /\ WaitsForOne'
<1>1. serverBox' \in Seq(ServerInbox)
  BY PutInto, Messages DEF Shapes
<1>2. PICK n \in Nat : /\ n \notin DOMAIN serverBox /\ DOMAIN serverBox' = DOMAIN serverBox \cup {n}
                       /\ serverBox'[n] = m
                       /\ \A i \in DOMAIN serverBox : serverBox'[i] = serverBox[i]
  <2>1. serverBox \in Seq(ServerInbox) /\ m \in ServerInbox
    BY Messages DEF Shapes
  <2>2. /\ \E n \in Nat : /\ n \notin DOMAIN serverBox
                         /\ DOMAIN Append(serverBox, m) = DOMAIN serverBox \cup {n}
                         /\ Append(serverBox, m)[n] = m
        /\ \A i \in DOMAIN serverBox : Append(serverBox, m)[i] = serverBox[i]
    BY <2>1, PutInto
  <2> QED
    BY <2>2
<1>3. \A s \in Sessions : InBox(s)' <=> InBox(s) \/ s = m.sid
  BY <1>2 DEF InBox
<1>4. ~InBox(m.sid)
  BY DEF WaitsForOne
<1>5. \A s \in Sessions : waiting'[s] <=> waiting[s] \/ s = m.sid
  BY DEF Shapes
<1>6. \A i \in DOMAIN serverBox : serverBox[i] \in Calls => serverBox[i].sid # m.sid
  BY <1>4 DEF InBox
<1>7. \A s \in Sessions : waiting'[s] <=> culprit' = s \/ InBox(s)'
  BY <1>3, <1>5 DEF WaitsForOne
<1> QED
  BY <1>1, <1>2, <1>6, <1>7 DEF WaitsForOne

(* The actors of the server, its connections and the clients that are not  *)
(* watched keep the shape of its state.                                    *)
ServerInv == Shapes /\ WaitsForOne

(* server.rs: ... and none when the server has handled it.                 *)
LEMMA CallAnswered ==
  ASSUME ServerInv, NEW t \in {"UserData", "ChangeNick"}, Handling(t), Done(Head(serverBox).sid), UNCHANGED culprit
  PROVE  /\ serverBox' \in Seq(ServerInbox) /\ waiting' \in [Sessions -> BOOLEAN]
         /\ WaitsForOne'
<1>1. /\ serverBox' \in Seq(ServerInbox)
      /\ Head(serverBox) \in ServerInbox /\ Head(serverBox).type = t
      /\ culprit = NoOne
      /\ \A i, j \in DOMAIN serverBox' :
           /\ serverBox'[i] \in Calls /\ serverBox'[j] \in Calls
           /\ serverBox'[i].sid = serverBox'[j].sid
           => i = j
      /\ Head(serverBox) \in Calls =>
           \A s \in Sessions : InBox(s)' <=> InBox(s) /\ s # Head(serverBox).sid
  BY HandlingTakes DEF ServerInv
<1>2. Head(serverBox) \in Calls /\ Head(serverBox).sid \in Sessions
  BY <1>1, Messages
<1>3. culprit \notin Sessions
  BY <1>1, ChatServerAssumption
<1>4. \A s \in Sessions : waiting'[s] <=> waiting[s] /\ s # Head(serverBox).sid
  BY DEF Done, ServerInv, Shapes
<1>5. waiting' \in [Sessions -> BOOLEAN]
  BY DEF Done, ServerInv, Shapes
<1>6. \A s \in Sessions : waiting'[s] <=> culprit' = s \/ InBox(s)'
  BY <1>1, <1>2, <1>3, <1>4 DEF ServerInv, WaitsForOne
<1> QED
  BY <1>1, <1>5, <1>6 DEF WaitsForOne

(* server.rs: a message nobody waits for ends nobody's wait.               *)
LEMMA NoteTaken ==
  ASSUME ServerInv, NEW t \in {"ChatMsgIn", "ConnectionClosed"}, Handling(t),
         UNCHANGED <<waiting, culprit>>
  PROVE  serverBox' \in Seq(ServerInbox) /\ WaitsForOne' /\ Head(serverBox).sid \in Sessions
<1>1. /\ serverBox' \in Seq(ServerInbox)
      /\ Head(serverBox) \in ServerInbox /\ Head(serverBox).type = t
      /\ \A i, j \in DOMAIN serverBox' :
           /\ serverBox'[i] \in Calls /\ serverBox'[j] \in Calls
           /\ serverBox'[i].sid = serverBox'[j].sid
           => i = j
      /\ Head(serverBox) \notin Calls => \A s \in Sessions : InBox(s)' <=> InBox(s)
  BY HandlingTakes DEF ServerInv
<1>2. Head(serverBox) \notin Calls /\ Head(serverBox).sid \in Sessions
  BY <1>1, Messages
<1> QED
  BY <1>1, <1>2 DEF ServerInv, WaitsForOne

(* user.rs: nobody waits for something else.                               *)
LEMMA BoxUnchanged ==
  ASSUME WaitsForOne, UNCHANGED <<serverBox, waiting, culprit>>
  PROVE  WaitsForOne'
BY DEF WaitsForOne, InBox

(* server.rs, user.rs: every step of the actors of the server.             *)
LEMMA ServerStepType == ASSUME ServerInv, ServerStep PROVE ServerInv'
<1> USE DEF connVars, userVars, clientVars
<1>1. CASE HandleUserData
  <2> DEFINE m == Head(serverBox)
             joined == [users EXCEPT ![m.sid] = m.nick]
  <2>1. m \in ServerInbox /\ m.type = "UserData"
    BY <1>1, HandlingTakes DEF HandleUserData, ServerInv
  <2>2. m.sid \in Sessions /\ m.nick \in Nicks
    BY <2>1, Messages
  <2>3. users \in UserMaps /\ joined \in UserMaps
    BY <2>2 DEF ServerInv, Shapes, UserMaps
  <2>4. /\ serverBox' \in Seq(ServerInbox) /\ waiting' \in [Sessions -> BOOLEAN]
        /\ WaitsForOne'
    BY <1>1, CallAnswered DEF HandleUserData
  <2>5. UNCHANGED <<connVars, asks, mayJoin, culprit, rash, spent>>
    BY <1>1 DEF HandleUserData
  <2>6. CASE ValidateNick(users, m.nick)
    <3>1. Broadcast(users, UserJoined(m.sid, m.nick)) /\ users' = joined /\ Answer(m.sid, Welcome(joined))
      BY <1>1, <2>6 DEF HandleUserData, UsersNow
    <3>2. out' \in [Sessions -> Seq(ServerMsgs \cup Replies)]
      BY <2>2, <3>1, BroadcastType, Broadcasts DEF ServerInv
    <3>3. /\ replies' \in [Sessions -> SUBSET Replies]
          /\ admitted' \subseteq Sessions
      BY <2>2, <2>3, <3>1, AnswerType, Broadcasts DEF ServerInv
    <3> QED
      BY <2>3, <2>4, <2>5, <3>1, <3>2, <3>3 DEF ServerInv, Shapes
  <2>7. CASE ~ValidateNick(users, m.nick)
    <3>1. Answer(m.sid, Refused) /\ UNCHANGED <<users, out>>
      BY <1>1, <2>7 DEF HandleUserData
    <3>2. /\ replies' \in [Sessions -> SUBSET Replies]
          /\ admitted' \subseteq Sessions
      BY <2>2, <3>1, AnswerType, Broadcasts DEF ServerInv
    <3> QED
      BY <2>4, <2>5, <3>1, <3>2 DEF ServerInv, Shapes
  <2> QED
    BY <2>6, <2>7
<1>2. CASE HandleChangeNick
  <2> DEFINE m == Head(serverBox)
  <2>1. /\ m \in ServerInbox /\ m.type = "ChangeNick" /\ culprit = NoOne
        /\ serverBox' \in Seq(ServerInbox)
        /\ \A i, j \in DOMAIN serverBox' :
             /\ serverBox'[i] \in Calls /\ serverBox'[j] \in Calls
             /\ serverBox'[i].sid = serverBox'[j].sid
             => i = j
        /\ m \in Calls => \A s \in Sessions : InBox(s)' <=> InBox(s) /\ s # m.sid
    BY <1>2, HandlingTakes DEF HandleChangeNick, ServerInv
  <2>2. m \in Calls /\ m.sid \in Sessions /\ m.nick \in Nicks
    BY <2>1, Messages
  <2>3. UNCHANGED <<connVars, asks, mayJoin, rash, spent>>
    BY <1>2 DEF HandleChangeNick
  <2>4. CASE users[m.sid] = NoNick
    <3>1. culprit' = m.sid /\ UNCHANGED <<waiting, users, replies, out, admitted>>
      BY <1>2, <2>4 DEF HandleChangeNick
    <3>2. InBox(m.sid)
      <4>1. m = serverBox[1] /\ 1 \in DOMAIN serverBox
        BY <1>2, TakenFrom DEF HandleChangeNick, Handling, ServerInv, Shapes
      <4> QED
        BY <2>2, <4>1 DEF InBox
    <3>3. \A s \in Sessions : waiting'[s] <=> culprit' = s \/ InBox(s)'
      BY <2>1, <2>2, <3>1, <3>2, ChatServerAssumption DEF ServerInv, WaitsForOne
    <3>4. WaitsForOne'
      BY <2>1, <3>3 DEF WaitsForOne
    <3> QED
      BY <2>1, <2>2, <2>3, <3>1, <3>4 DEF ServerInv, Shapes
  <2>5. CASE users[m.sid] # NoNick
    <3>1. /\ serverBox' \in Seq(ServerInbox) /\ waiting' \in [Sessions -> BOOLEAN]
          /\ WaitsForOne' /\ UNCHANGED culprit
      BY <1>2, <2>5, CallAnswered DEF HandleChangeNick
    <3>2. CASE \E us : /\ Broadcast(us, NickChanged(m.sid, m.nick))
                       /\ users' = [users EXCEPT ![m.sid] = m.nick]
                       /\ Answer(m.sid, NickAnswer(TRUE))
      <4>1. users' \in UserMaps
        BY <2>2, <3>2 DEF ServerInv, Shapes, UserMaps
      <4>2. out' \in [Sessions -> Seq(ServerMsgs \cup Replies)]
        BY <2>2, <3>2, BroadcastType, Broadcasts DEF ServerInv
      <4>3. /\ replies' \in [Sessions -> SUBSET Replies]
            /\ admitted' \subseteq Sessions
        BY <2>2, <3>2, AnswerType, Broadcasts DEF ServerInv
      <4> QED
        BY <2>3, <3>1, <4>1, <4>2, <4>3 DEF ServerInv, Shapes
    <3>3. CASE Answer(m.sid, NickAnswer(FALSE)) /\ UNCHANGED <<users, out>>
      <4>1. /\ replies' \in [Sessions -> SUBSET Replies]
            /\ admitted' \subseteq Sessions
        BY <2>2, <3>3, AnswerType, Broadcasts DEF ServerInv
      <4> QED
        BY <2>3, <3>1, <3>3, <4>1 DEF ServerInv, Shapes
    <3> QED
      BY <1>2, <2>5, <3>2, <3>3 DEF HandleChangeNick
  <2> QED
    BY <2>4, <2>5
<1>3. CASE HandleChatMsgIn
  <2>1. /\ serverBox' \in Seq(ServerInbox) /\ WaitsForOne'
        /\ Head(serverBox).sid \in Sessions
    BY <1>3, NoteTaken DEF HandleChatMsgIn
  <2>2. out' \in [Sessions -> Seq(ServerMsgs \cup Replies)]
    BY <1>3, <2>1, BroadcastType, Broadcasts DEF HandleChatMsgIn, ServerInv
  <2> QED
    BY <1>3, <2>1, <2>2 DEF HandleChatMsgIn, ServerInv, Shapes
<1>4. CASE HandleConnectionClosed
  <2>1. /\ serverBox' \in Seq(ServerInbox) /\ WaitsForOne'
        /\ Head(serverBox).sid \in Sessions
    BY <1>4, NoteTaken DEF HandleConnectionClosed
  <2>2. out' \in [Sessions -> Seq(ServerMsgs \cup Replies)]
    <3>1. \A b \in BOOLEAN : UserLeft(Head(serverBox).sid, b) \in ServerMsgs
      BY <2>1, Broadcasts
    <3> QED
      BY <1>4, <3>1, BroadcastType DEF HandleConnectionClosed, ServerInv
  <2>3. users' \in UserMaps
    BY <1>4, <2>1 DEF HandleConnectionClosed, ServerInv, Shapes, UserMaps
  <2> QED
    BY <1>4, <2>1, <2>2, <2>3 DEF HandleConnectionClosed, ServerInv, Shapes
<1>5. ASSUME NEW s \in Sessions, Report(s) PROVE ServerInv'
  <2>1. serverBox' \in Seq(ServerInbox) /\ WaitsForOne'
    BY <1>5, NoteSent, Messages DEF Report, ServerInv
  <2> QED
    BY <1>5, <2>1 DEF Report, ServerInv, Shapes
<1>6. ASSUME NEW s \in Sessions, NEW a \in asks[s], UserJoins(s, a) \/ UserSetsNick(s, a) \/ UserTalks(s, a)
      PROVE  ServerInv'
  <2>1. a \in Asks /\ asks' \in [Sessions -> SUBSET Asks] /\ culprit = NoOne /\ ~waiting[s]
    BY <1>6 DEF UserJoins, UserSetsNick, UserTalks, Take, ServerInv, Shapes
  <2>2. CASE UserJoins(s, a)
    <3>1. a.nick \in Nicks
      BY <2>1, <2>2, Messages DEF UserJoins
    <3>2. CASE mayJoin[s]
      <4>1. serverBox' \in Seq(ServerInbox) /\ WaitsForOne'
        BY <2>1, <2>2, <3>1, <3>2, CallSent, Messages DEF UserJoins, ServerInv
      <4> QED
        BY <2>1, <2>2, <3>2, <4>1 DEF UserJoins, ServerInv, Shapes
    <3>3. CASE ~mayJoin[s]
      <4>1. /\ replies' \in [Sessions -> SUBSET Replies]
            /\ admitted' \subseteq Sessions
        BY <2>2, <3>3, AnswerType, Broadcasts DEF UserJoins, ServerInv
      <4> QED
        BY <2>1, <2>2, <3>3, <4>1, BoxUnchanged DEF UserJoins, ServerInv, Shapes
    <3> QED
      BY <3>2, <3>3
  <2>3. CASE UserSetsNick(s, a)
    <3>1. a.nick \in Nicks
      BY <2>1, <2>3, Messages DEF UserSetsNick
    <3> DEFINE m == ChangeNick(s, a.nick)
    <3>4. m \in Calls /\ m.sid = s
      BY <3>1, Messages
    <3>5. /\ serverBox' = Append(serverBox, m) /\ UNCHANGED culprit
          /\ waiting' = [waiting EXCEPT ![s] = TRUE]
      BY <2>3 DEF UserSetsNick
    <3>2. serverBox' \in Seq(ServerInbox) /\ WaitsForOne'
      <4> HIDE DEF m
      <4> QED
        BY <2>1, <3>4, <3>5, CallSent DEF ServerInv
    <3> QED
      BY <2>1, <2>3, <3>2 DEF UserSetsNick, ServerInv, Shapes
  <2>4. CASE UserTalks(s, a)
    <3>1. serverBox' \in Seq(ServerInbox) /\ WaitsForOne'
      BY <2>4, NoteSent, Messages DEF UserTalks, ServerInv
    <3> QED
      BY <2>1, <2>4, <3>1 DEF UserTalks, ServerInv, Shapes
  <2> QED
    BY <1>6, <2>2, <2>3, <2>4
<1>7. ASSUME NEW s \in Sessions, NEW r \in replies[s], ReplyArrives(s, r) PROVE ServerInv'
  <2>1. r \in Replies /\ out[s] \in Seq(ServerMsgs \cup Replies)
    BY DEF ServerInv, Shapes
  <2>2. Append(out[s], r) \in Seq(ServerMsgs \cup Replies)
    BY <2>1
  <2>3. out' \in [Sessions -> Seq(ServerMsgs \cup Replies)]
    BY <1>7, <2>2 DEF ReplyArrives, ServerInv, Shapes
  <2>4. replies' \in [Sessions -> SUBSET Replies]
    BY <1>7 DEF ReplyArrives, ServerInv, Shapes
  <2> QED
    BY <1>7, <2>3, <2>4, BoxUnchanged DEF ReplyArrives, ServerInv, Shapes
<1> QED
  BY <1>1, <1>2, <1>3, <1>4, <1>5, <1>6, <1>7 DEF ServerStep

(* peer.rs, chat_client: a connection that closes, and clients that ask.   *)
LEMMA PeerClosesType == ASSUME ServerInv, NEW s \in Sessions, PeerCloses(s) PROVE ServerInv'
<1>1. /\ conn' \in [Sessions -> {"open", "shut"}]
      /\ asks' \in [Sessions -> SUBSET Asks]
      /\ replies' \in [Sessions -> SUBSET Replies]
      /\ out' \in [Sessions -> Seq(ServerMsgs \cup Replies)]
  BY DEF PeerCloses, ServerInv, Shapes
<1> QED
  BY <1>1, BoxUnchanged DEF PeerCloses, ServerInv, Shapes, clientVars

(* user.rs: what clients other than the page do.                           *)
LEMMA ClientStepType == ASSUME ServerInv, NEW s \in Sessions, ClientStep(s) PROVE ServerInv'
<1>1. ASSUME NEW a \in Asks, ClientAsks(s, a) PROVE ServerInv'
  <2>1. \A r \in Sessions : spent'[r] \in 0..MaxAsks[r]
    BY <1>1, ChatServerAssumption DEF ClientAsks, ServerInv, Shapes
  <2>2. admitted' \subseteq Sessions /\ rash' \subseteq Sessions
    BY <1>1 DEF ClientAsks, ServerInv, Shapes
  <2> QED
    BY <1>1, <2>1, <2>2, BoxUnchanged DEF ClientAsks, Ask, ServerInv, Shapes, connVars
<1> QED
  BY <1>1, Messages DEF ClientStep

(* app.rs: the page asks for something.                                    *)
LEMMA AskType ==
  ASSUME ServerInv, NEW s \in Sessions, NEW a \in Asks, Ask(s, a),
         UNCHANGED <<connVars, mayJoin, waiting, serverBox, users, culprit, replies, out, clientVars>>
  PROVE  ServerInv'
BY BoxUnchanged DEF Ask, ServerInv, Shapes, connVars, clientVars

(* server.rs: nothing happens at the server.                               *)
LEMMA ServerUnchanged == ASSUME ServerInv, UNCHANGED serverVars PROVE ServerInv'
BY BoxUnchanged DEF ServerInv, Shapes, serverVars, connVars, userVars, clientVars

-----------------------------------------------------------------------------
(* The page.                                                               *)
AppMsgs  == ServerMsgs \cup Asks \cup {Connected, Disconnect}
ListMsgs == [type : {"Insert"}, users : UserMaps] \cup {Clear}
            \cup [type : {"Remove", "GetUser"}, sid : Sessions]
WinMsgs  == ServerMsgs \cup {Greeting, Disconnect} \cup [type : {"NewUser"}, users : UserMaps]

PageShapes ==
  /\ form \in {"shown", "joining", "welcomed", "refused", "hidden"}
  /\ welcome \in UserMaps
  /\ appBox \in Seq(AppMsgs)
  /\ app \in AppStates
  /\ linked \in BOOLEAN /\ early \in BOOLEAN /\ left \in BOOLEAN
  /\ listBox \in Seq(ListMsgs)
  /\ listed \in UserMaps
  /\ winBox \in Seq(WinMsgs)
  /\ known \subseteq Sessions

(* app.rs:186: App asks UserList for a user only to change its nick.       *)
AskedAbout == app.at = "asking" => app.msg.type = "NickChanged"

(* The type invariant, in two parts.                                       *)
LEMMA TypeOKIs == TypeOK <=> ServerTypeOK /\ PageShapes
BY DEF TypeOK, PageShapes, AppMsgs, ListMsgs, WinMsgs

(* app.rs, user_list.rs, chat_window.rs: what the messages carry.          *)
LEMMA PageMessages ==
  /\ \A m \in ServerMsgs : /\ m.type \in {"UserJoined", "NickChanged", "UserLeft", "ChatMsg"}
                           /\ m.sid \in Sessions
                           /\ m.type \in {"UserJoined", "NickChanged"} => m.nick \in Nicks
                           /\ m.type = "UserLeft" => m.member \in BOOLEAN
  /\ \A m \in Replies : /\ m.type \in {"Welcome", "Refused", "NickAnswer"}
                        /\ m.type = "Welcome" => m.users \in UserMaps
  /\ \A m \in Asks : m.type \in {"Join", "SetNick", "NewChatMsg"}
  /\ \A m \in AppMsgs :
       /\ m.type \in {"UserJoined", "NickChanged", "UserLeft", "ChatMsg"} <=> m \in ServerMsgs
       /\ m.type \in {"Join", "SetNick", "NewChatMsg"} <=> m \in Asks
  /\ Connected.type = "Connected" /\ Disconnect.type = "Disconnect"
  /\ \A m \in ListMsgs : /\ m.type \in {"Insert", "Clear", "Remove", "GetUser"}
                         /\ m.type = "Insert" => m.users \in UserMaps
                         /\ m.type \in {"Remove", "GetUser"} => m.sid \in Sessions
  /\ \A m \in WinMsgs : /\ m.type = "NewUser" => m.users \in UserMaps
                        /\ m.type \in {"UserLeft", "ChatMsg"} => m \in ServerMsgs
  /\ \A a \in AppStates : /\ a.at \in {"idle", "clearing", "greeting", "renaming", "removing", "asking"}
                          /\ a.at \in {"removing", "asking"} => a.msg \in ServerMsgs
BY DEF ServerMsgs, Replies, Refused, Asks, NewChatMsg, AppMsgs, ListMsgs, WinMsgs, AppStates,
       Connected, Disconnect, Clear, Greeting, Idle

(* app.rs, user_list.rs, chat_window.rs: the messages the page makes.      *)
LEMMA PageMade ==
  /\ Connected \in AppMsgs /\ Disconnect \in AppMsgs /\ ServerMsgs \subseteq AppMsgs
  /\ Asks \subseteq AppMsgs
  /\ Clear \in ListMsgs
  /\ \A us \in UserMaps : Insert(us) \in ListMsgs /\ NewUser(us) \in WinMsgs
  /\ \A s \in Sessions : Remove(s) \in ListMsgs /\ GetUser(s) \in ListMsgs
  /\ Greeting \in WinMsgs /\ Disconnect \in WinMsgs /\ ServerMsgs \subseteq WinMsgs
  /\ Idle \in AppStates /\ [at |-> "clearing"] \in AppStates /\ [at |-> "greeting"] \in AppStates
  /\ [at |-> "renaming"] \in AppStates
  /\ \A m \in ServerMsgs : /\ [at |-> "removing", msg |-> m] \in AppStates
                           /\ [at |-> "asking", msg |-> m] \in AppStates
  /\ Nobody \in UserMaps
  /\ \A s \in Sessions, n \in Nicks : Only(s, n) \in UserMaps
BY DEF AppMsgs, ListMsgs, WinMsgs, Insert, NewUser, Remove, GetUser, AppStates, UserMaps, Nobody, Only

(* user_list.rs: users are added to the users that are shown.              *)
LEMMA MapsMerged ==
  ASSUME NEW a \in UserMaps, NEW b \in UserMaps, listed \in UserMaps
  PROVE  Merge(a, b) \in UserMaps /\ Unseen(a) \in UserMaps
BY DEF Merge, Unseen, UserMaps

(* app.rs: the message App handles.                                        *)
LEMMA AppTakesType ==
  ASSUME PageShapes, NEW t, AppTakes(t)
  PROVE  /\ Head(appBox) \in AppMsgs /\ Head(appBox).type = t /\ appBox' \in Seq(AppMsgs)
         /\ app = Idle
         /\ t \in {"UserJoined", "NickChanged", "UserLeft", "ChatMsg"} =>
              Head(appBox) \in ServerMsgs /\ Head(appBox).sid \in Sessions
         /\ t \in {"UserJoined", "NickChanged"} => Head(appBox).nick \in Nicks
         /\ t \in {"SetNick", "NewChatMsg"} => Head(appBox) \in Asks
<1>1. Head(appBox) \in AppMsgs /\ appBox' \in Seq(AppMsgs)
  BY TakenFrom DEF AppTakes, PageShapes
<1>2. Head(appBox).type = t /\ app = Idle
  BY DEF AppTakes
<1> QED
  BY <1>1, <1>2, PageMessages

(* app.rs: a message for UserList.                                         *)
LEMMA ToListType ==
  ASSUME PageShapes, NEW m \in ListMsgs, ToList(m) PROVE listBox' \in Seq(ListMsgs)
BY PutInto DEF ToList, PageShapes

(* app.rs, user_list.rs: a message for ChatWindow.                         *)
LEMMA ToWindowType ==
  ASSUME PageShapes, NEW m \in WinMsgs, ToWindow(m) PROVE winBox' \in Seq(WinMsgs)
BY PutInto DEF ToWindow, PageShapes

(* The page is one of the clients.                                         *)
LEMMA MeIsASession == Me \in Sessions /\ Watched = {Me}
BY ChatServerAssumption, ChatAssumption

ChatInv == ServerInv /\ PageShapes /\ AskedAbout

(* connect_form.rs, app.rs, user_list.rs, chat_window.rs: each handler.    *)
LEMMA PageStepType == ASSUME ChatInv, PageStep PROVE ChatInv'
<1> USE DEF ChatInv
<1> DEFINE Goal == ServerInv' /\ PageShapes' /\ AskedAbout'
<1>1. CASE FormConnects
  <2>1. appBox' \in Seq(AppMsgs)
    BY <1>1, PutInto, PageMade DEF FormConnects, PageShapes
  <2> QED
    BY <1>1, <2>1, ServerUnchanged DEF FormConnects, PageShapes, AskedAbout
<1>2. CASE CallCancelled
  BY <1>2, ServerUnchanged DEF CallCancelled, PageShapes, AskedAbout
<1>3. CASE AppConnects
  <2>1. appBox' \in Seq(AppMsgs) /\ listBox' \in Seq(ListMsgs)
    BY <1>3, AppTakesType, ToListType, PageMade DEF AppConnects
  <2>2. app' \in AppStates /\ app'.at = "clearing"
    BY <1>3, PageMade DEF AppConnects, Await
  <2> QED
    BY <1>3, <2>1, <2>2, ServerUnchanged DEF AppConnects, PageShapes, AskedAbout, AppFrame
<1>4. CASE AppFills
  <2>1. listBox' \in Seq(ListMsgs)
    BY <1>4, ToListType, PageMade DEF AppFills, PageShapes
  <2>2. winBox' \in Seq(WinMsgs)
    BY <1>4, ToWindowType, PageMade DEF AppFills
  <2>3. app' \in AppStates /\ app'.at = "greeting"
    BY <1>4, PageMade DEF AppFills, Await
  <2> QED
    BY <1>4, <2>1, <2>2, <2>3, ServerUnchanged DEF AppFills, PageShapes, AskedAbout, AppFrame
<1>5. CASE AppLinks
  <2>1. app' \in AppStates /\ app'.at = "idle"
    BY <1>5, PageMade DEF AppLinks, Await, Idle
  <2> QED
    BY <1>5, <2>1, ServerUnchanged DEF AppLinks, PageShapes, AskedAbout, AppFrame
<1>6. CASE AppUserJoined
  <2>1. /\ appBox' \in Seq(AppMsgs) /\ Head(appBox).sid \in Sessions /\ Head(appBox).nick \in Nicks
    BY <1>6, AppTakesType DEF AppUserJoined
  <2>2. listBox' \in Seq(ListMsgs)
    BY <1>6, <2>1, ToListType, PageMade DEF AppUserJoined
  <2>3. early' \in BOOLEAN
    BY <1>6 DEF AppUserJoined, Noted
  <2> QED
    BY <1>6, <2>1, <2>2, <2>3, ServerUnchanged DEF AppUserJoined, PageShapes, AskedAbout, AppFrame
<1>7. CASE AppUserLeft
  <2>1. /\ appBox' \in Seq(AppMsgs) /\ Head(appBox).sid \in Sessions /\ Head(appBox) \in ServerMsgs
    BY <1>7, AppTakesType DEF AppUserLeft
  <2>2. listBox' \in Seq(ListMsgs)
    BY <1>7, <2>1, ToListType, PageMade DEF AppUserLeft
  <2>3. early' \in BOOLEAN
    BY <1>7 DEF AppUserLeft, Noted
  <2>4. app' \in AppStates /\ app'.at = "removing"
    BY <1>7, <2>1, PageMade DEF AppUserLeft, Await
  <2> QED
    BY <1>7, <2>1, <2>2, <2>3, <2>4, ServerUnchanged DEF AppUserLeft, PageShapes, AskedAbout, AppFrame
<1>8. CASE AppTellsWindow
  <2>1. app.msg \in ServerMsgs
    BY <1>8, PageMessages DEF AppTellsWindow, PageShapes
  <2>2. winBox' \in Seq(WinMsgs)
    BY <1>8, <2>1, ToWindowType, PageMade DEF AppTellsWindow
  <2>3. app' \in AppStates /\ app'.at = "idle"
    BY <1>8, PageMade DEF AppTellsWindow, Await, Idle
  <2> QED
    BY <1>8, <2>2, <2>3, ServerUnchanged DEF AppTellsWindow, PageShapes, AskedAbout, AppFrame
<1>9. CASE AppNickChanged
  <2>1. /\ appBox' \in Seq(AppMsgs) /\ Head(appBox).sid \in Sessions /\ Head(appBox) \in ServerMsgs
        /\ Head(appBox).type = "NickChanged"
    BY <1>9, AppTakesType DEF AppNickChanged
  <2>2. listBox' \in Seq(ListMsgs)
    BY <1>9, <2>1, ToListType, PageMade DEF AppNickChanged
  <2>3. early' \in BOOLEAN
    BY <1>9 DEF AppNickChanged, Noted
  <2>4. app' \in AppStates /\ app'.msg.type = "NickChanged"
    BY <1>9, <2>1, PageMade DEF AppNickChanged, Await
  <2> QED
    BY <1>9, <2>1, <2>2, <2>3, <2>4, ServerUnchanged DEF AppNickChanged, PageShapes, AskedAbout, AppFrame
<1>10. CASE AppRenames
  <2>1. app.msg.sid \in Sessions /\ app.msg.nick \in Nicks
    BY <1>10, PageMessages DEF AppRenames, PageShapes, AskedAbout
  <2>2. listed' \in UserMaps
    BY <1>10, <2>1 DEF AppRenames, PageShapes, UserMaps
  <2>3. app' \in AppStates /\ app'.at = "idle"
    BY <1>10, PageMade DEF AppRenames, Await, Idle
  <2> QED
    BY <1>10, <2>2, <2>3, ServerUnchanged DEF AppRenames, PageShapes, AskedAbout
<1>11. CASE AppChatMsg
  <2>1. appBox' \in Seq(AppMsgs) /\ Head(appBox) \in ServerMsgs
    BY <1>11, AppTakesType DEF AppChatMsg
  <2>2. winBox' \in Seq(WinMsgs)
    BY <1>11, <2>1, ToWindowType, PageMade DEF AppChatMsg
  <2>3. early' \in BOOLEAN
    BY <1>11 DEF AppChatMsg, Noted
  <2> QED
    BY <1>11, <2>1, <2>2, <2>3, ServerUnchanged DEF AppChatMsg, PageShapes, AskedAbout, AppFrame
<1>12. CASE AppAsks
  <2>1. appBox' \in Seq(AppMsgs) /\ Head(appBox) \in Asks
    BY <1>12, AppTakesType DEF AppAsks
  <2>2. app' \in AppStates /\ (app'.at = "renaming" \/ app' = app)
    BY <1>12, PageMade DEF AppAsks, Await, PageShapes
  <2>3. ServerInv'
    <3>1. CASE linked
      BY <1>12, <2>1, <3>1, AskType, MeIsASession DEF AppAsks
    <3>2. CASE ~linked
      BY <1>12, <3>2, ServerUnchanged DEF AppAsks, serverVars, userVars
    <3> QED
      BY <3>1, <3>2
  <2> QED
    BY <1>12, <2>1, <2>2, <2>3 DEF AppAsks, PageShapes, AskedAbout, AppFrame
<1>13. CASE AppDisconnects
  <2>1. appBox' \in Seq(AppMsgs) /\ app = Idle
    BY <1>13, AppTakesType DEF AppDisconnects
  <2>2. listBox' \in Seq(ListMsgs)
    BY <1>13, ToListType, PageMade DEF AppDisconnects, PageShapes
  <2>3. winBox' \in Seq(WinMsgs)
    BY <1>13, ToWindowType, PageMade DEF AppDisconnects, PageShapes
  <2>4. ServerInv'
    BY <1>13, PeerClosesType, ServerUnchanged, MeIsASession DEF AppDisconnects
  <2> QED
    BY <1>13, <2>1, <2>2, <2>3, <2>4 DEF AppDisconnects, PageShapes, AskedAbout
<1>14. CASE ListStep
  <2> DEFINE m == Head(listBox)
  <2>1. m \in ListMsgs /\ listBox' \in Seq(ListMsgs)
    BY <1>14, TakenFrom DEF ListStep, PageShapes
  <2>2. /\ m.type \in {"Insert", "Clear", "Remove", "GetUser"}
        /\ m.type = "Insert" => m.users \in UserMaps
        /\ m.type \in {"Remove", "GetUser"} => m.sid \in Sessions
    BY <2>1, PageMessages
  <2>3. CASE m.type = "Insert"
    <3>1. m.users \in UserMaps /\ listed \in UserMaps
      BY <2>2, <2>3 DEF PageShapes
    <3>2. listed' = Merge(listed, m.users) /\ ToWindow(NewUser(Unseen(m.users)))
      BY <1>14, <2>3 DEF ListStep
    <3>3. listed' \in UserMaps /\ NewUser(Unseen(m.users)) \in WinMsgs
      BY <3>1, <3>2, MapsMerged, PageMade
    <3>4. winBox' \in Seq(WinMsgs)
      BY <3>2, <3>3, ToWindowType
    <3> QED
      BY <1>14, <2>1, <3>3, <3>4, ServerUnchanged DEF ListStep, PageShapes, AskedAbout
  <2>4. CASE m.type # "Insert"
    <3>1. listed' \in UserMaps /\ UNCHANGED winBox
      BY <1>14, <2>2, <2>4, PageMade DEF ListStep, PageShapes, UserMaps
    <3> QED
      BY <1>14, <2>1, <3>1, ServerUnchanged DEF ListStep, PageShapes, AskedAbout
  <2> QED
    BY <2>3, <2>4
<1>15. CASE WindowStep
  <2> DEFINE m == Head(winBox)
  <2>1. m \in WinMsgs /\ winBox' \in Seq(WinMsgs)
    BY <1>15, TakenFrom DEF WindowStep, PageShapes
  <2>2. known' \subseteq Sessions
    BY <1>15 DEF WindowStep, PageShapes, Present
  <2> QED
    BY <1>15, <2>1, <2>2, ServerUnchanged DEF WindowStep, PageShapes, AskedAbout
<1>16. ASSUME NEW s \in Watched, Read(s) PROVE Goal
  <2> DEFINE m == Head(out[s])
  <2>1. s \in Sessions /\ out[s] \in Seq(ServerMsgs \cup Replies)
    BY <1>16, MeIsASession DEF ServerInv, Shapes
  <2>2. m \in ServerMsgs \cup Replies /\ Tail(out[s]) \in Seq(ServerMsgs \cup Replies)
    BY <1>16, <2>1, TakenFrom DEF Read
  <2>3. out' \in [Sessions -> Seq(ServerMsgs \cup Replies)]
    BY <1>16, <2>1, <2>2 DEF Read, ServerInv, Shapes
  <2>4. ServerInv'
    BY <1>16, <2>3, BoxUnchanged DEF Read, ServerInv, Shapes, connVars, userVars, clientVars
  <2>5. CASE m.type = "Welcome"
    <3>1. m.users \in UserMaps
      BY <2>2, <2>5, PageMessages
    <3> QED
      BY <1>16, <2>4, <2>5, <3>1 DEF Read, PageShapes, AskedAbout
  <2>6. CASE m.type = "Refused"
    BY <1>16, <2>4, <2>6 DEF Read, PageShapes, AskedAbout
  <2>7. CASE m.type = "NickAnswer"
    <3>1. app' = Idle /\ UNCHANGED <<form, welcome, appBox>>
      BY <1>16, <2>7 DEF Read
    <3>2. app' \in AppStates /\ app'.at = "idle"
      BY <3>1, PageMade DEF Idle
    <3> QED
      BY <1>16, <2>4, <3>1, <3>2 DEF Read, PageShapes, AskedAbout
  <2>8. CASE m.type \notin {"Welcome", "Refused", "NickAnswer"}
    <3>1. m \in AppMsgs
      BY <2>2, <2>8, PageMessages, PageMade
    <3>2. appBox' = Append(appBox, m) /\ UNCHANGED <<form, welcome, app>>
      BY <1>16, <2>8 DEF Read
    <3>3. appBox' \in Seq(AppMsgs)
      BY <3>1, <3>2, PutInto DEF PageShapes
    <3> QED
      BY <1>16, <2>4, <3>2, <3>3 DEF Read, PageShapes, AskedAbout
  <2> QED
    BY <2>5, <2>6, <2>7, <2>8
<1> QED
  BY <1>1, <1>2, <1>3, <1>4, <1>5, <1>6, <1>7, <1>8, <1>9, <1>10, <1>11, <1>12, <1>13, <1>14,
     <1>15, <1>16 DEF PageStep

(* connect_form.rs, app.rs: the user of the page does something.           *)
LEMMA VisitType == ASSUME ChatInv, Visit PROVE ChatInv'
<1> USE DEF ChatInv
<1>1. ASSUME NEW n \in Nicks, SubmitConnect(n) PROVE ChatInv'
  <2>1. ServerInv'
    BY <1>1, AskType, MeIsASession, Messages DEF SubmitConnect
  <2> QED
    BY <1>1, <2>1 DEF SubmitConnect, PageShapes, AskedAbout
<1>2. ASSUME NEW m \in Asks \cup {Disconnect}, ChatSubmit(m) PROVE ChatInv'
  <2>1. appBox' \in Seq(AppMsgs)
    BY <1>2, PutInto, PageMade DEF ChatSubmit, PageShapes
  <2>2. \A s \in Sessions : spent'[s] \in 0..MaxAsks[s]
    <3>1. \A s \in Sessions : spent[s] \in 0..MaxAsks[s] /\ MaxAsks[s] \in Nat
      BY ChatServerAssumption DEF ServerInv, Shapes
    <3>2. CASE UNCHANGED spent
      BY <3>1, <3>2
    <3>3. CASE spent[Me] < MaxAsks[Me] /\ spent' = [spent EXCEPT ![Me] = @ + 1]
      <4>1. spent[Me] + 1 \in 0..MaxAsks[Me]
        BY <3>1, <3>3, MeIsASession
      <4>2. \A s \in Sessions : spent'[s] = spent[s] \/ (s = Me /\ spent'[s] = spent[Me] + 1)
        BY <3>3
      <4> QED
        BY <3>1, <4>1, <4>2
    <3> QED
      BY <1>2, <3>2, <3>3 DEF ChatSubmit
  <2>3. ServerInv'
    BY <1>2, <2>2, BoxUnchanged DEF ChatSubmit, ServerInv, Shapes, connVars, userVars
  <2>4. left' \in BOOLEAN
    BY <1>2 DEF ChatSubmit, PageShapes
  <2> QED
    BY <1>2, <2>1, <2>3, <2>4 DEF ChatSubmit, PageShapes, AskedAbout
<1> QED
  BY <1>1, <1>2, Messages DEF Visit

(* Every step keeps the types.                                             *)
LEMMA ChatStepType == ASSUME ChatInv, [Next]_vars PROVE ChatInv'
<1>1. ASSUME ServerInv', UNCHANGED pageVars PROVE ChatInv'
  BY <1>1 DEF ChatInv, PageShapes, AskedAbout, pageVars
<1>2. CASE ServerStep /\ UNCHANGED pageVars
  BY <1>1, <1>2, ServerStepType DEF ChatInv
<1>3. ASSUME NEW s \in Sessions, PeerCloses(s) \/ ClientStep(s), UNCHANGED pageVars PROVE ChatInv'
  BY <1>1, <1>3, PeerClosesType, ClientStepType DEF ChatInv
<1>4. CASE UNCHANGED vars
  BY <1>1, <1>4, ServerUnchanged DEF ChatInv, vars
<1> QED
  BY <1>2, <1>3, <1>4, PageStepType, VisitType DEF Next

(* They hold at the start.                                                 *)
LEMMA ChatInit == Init => ChatInv
<1> SUFFICES ASSUME Init PROVE ChatInv
  OBVIOUS
<1>1. Shapes
  BY ChatServerAssumption DEF Init, ServerInit, Shapes, UserMaps
<1>2. WaitsForOne
  BY ChatServerAssumption DEF Init, ServerInit, WaitsForOne, InBox
<1>3. PageShapes
  <2>1. Idle \in AppStates /\ Nobody \in UserMaps
    BY PageMade
  <2>2. form \in {"shown", "joining", "welcomed", "refused", "hidden"}
    BY DEF Init
  <2>3. appBox \in Seq(AppMsgs) /\ listBox \in Seq(ListMsgs) /\ winBox \in Seq(WinMsgs)
    BY DEF Init
  <2>4. linked \in BOOLEAN /\ early \in BOOLEAN /\ left \in BOOLEAN /\ known \subseteq Sessions
    BY DEF Init
  <2>5. welcome \in UserMaps /\ listed \in UserMaps /\ app \in AppStates
    BY <2>1 DEF Init
  <2> QED
    BY <2>2, <2>3, <2>4, <2>5 DEF PageShapes
<1> QED
  BY <1>1, <1>2, <1>3 DEF ChatInv, ServerInv, AskedAbout, Init, Idle

(* chat_server, chat_client: the state of the actors keeps its shape, and  *)
(* a User waits for the server exactly while the server has its call or    *)
(* has died of it.                                                         *)
THEOREM ChatTyped == Spec => []TypeOK
<1>1. ChatInv => TypeOK
  BY ServerTypeOKIs, TypeOKIs DEF ChatInv, ServerInv, WaitsForOne
<1> QED
  BY <1>1, ChatInit, ChatStepType, PTL DEF Spec

-----------------------------------------------------------------------------
(* What shows that the server has let a session in, whose client asks for  *)
(* a nick only after its Welcome: that its client knows, that it has asked *)
(* for one, and for the page what is on its way to the moment where App    *)
(* keeps the address of the server.                                        *)
MsgIn(q, t) == \E i \in DOMAIN q : q[i].type = t

Entered(s) ==
  /\ s \notin rash
  /\ \/ s \in admitted
     \/ \E a \in asks[s] : a.type = "SetNick"
     \/ \E i \in DOMAIN serverBox : serverBox[i].type = "ChangeNick" /\ serverBox[i].sid = s

PageEntered ==
  \/ \E r \in replies[Me] : r.type = "Welcome"
  \/ MsgIn(out[Me], "Welcome")
  \/ form \in {"welcomed", "hidden"}
  \/ MsgIn(appBox, "Connected")
  \/ app.at \in {"clearing", "greeting"}
  \/ linked

(* Who was let in is a user until its connection has closed: the server is *)
(* told that a session has left once that is so, and not before.           *)
EnteredInv ==
  /\ \A s \in Sessions : Entered(s) /\ conn[s] = "open" => users[s] # NoNick
  /\ PageEntered /\ conn[Me] = "open" => users[Me] # NoNick
  /\ \A i \in DOMAIN serverBox :
       serverBox[i].type = "ConnectionClosed" => conn[serverBox[i].sid] = "shut"

(* What a step has to show to keep EnteredInv.                             *)
LEMMA EnteredFrom ==
  ASSUME EnteredInv,
         \A s \in Sessions : conn'[s] = "open" => conn[s] = "open",
         \A s \in Sessions : conn[s] = "open" /\ users[s] # NoNick => users'[s] # NoNick,
         \A s \in Sessions : Entered(s)' /\ conn[s] = "open" =>
                               Entered(s) \/ users'[s] # NoNick \/ (s = Me /\ PageEntered),
         PageEntered' /\ conn[Me] = "open" => PageEntered \/ users'[Me] # NoNick,
         \A i \in DOMAIN serverBox' : serverBox'[i].type = "ConnectionClosed" =>
           conn'[serverBox'[i].sid] = "shut"
  PROVE  EnteredInv'
BY MeIsASession DEF EnteredInv

(* The steps that leave the users, the connections and the mailbox of the  *)
(* server as they are.                                                     *)
LEMMA NobodyMoves ==
  ASSUME EnteredInv, UNCHANGED <<conn, users, serverBox>>,
         \A s \in Sessions : Entered(s)' => Entered(s) \/ (s = Me /\ PageEntered),
         PageEntered' => PageEntered
  PROVE  EnteredInv'
BY MeIsASession DEF EnteredInv

(* The mailbox of the server, when it takes a message.                     *)
LEMMA BoxShrinks ==
  ASSUME Shapes, NEW t, Handling(t)
  PROVE  \A i \in DOMAIN serverBox' : \E j \in DOMAIN serverBox : serverBox'[i] = serverBox[j]
<1>1. serverBox \in Seq(ServerInbox) /\ serverBox # <<>> /\ serverBox' = Tail(serverBox)
  BY DEF Shapes, Handling
<1> QED
  BY <1>1, TakenFrom

(* ... and when it gets one.                                               *)
LEMMA BoxGrows ==
  ASSUME Shapes, NEW m \in ServerInbox, serverBox' = Append(serverBox, m)
  PROVE  \A i \in DOMAIN serverBox' : \/ \E j \in DOMAIN serverBox : serverBox'[i] = serverBox[j]
                                      \/ serverBox'[i] = m
BY PutInto DEF Shapes

(* server.rs: no broadcast is a welcome.                                   *)
LEMMA BroadcastAdds ==
  ASSUME Shapes, NEW us, NEW m \in ServerMsgs, Broadcast(us, m), MsgIn(out'[Me], "Welcome")
  PROVE  MsgIn(out[Me], "Welcome")
<1>1. out[Me] \in Seq(ServerMsgs \cup Replies)
  BY MeIsASession DEF Shapes
<1>2. out'[Me] = out[Me] \/ out'[Me] = Append(out[Me], m)
  BY MeIsASession DEF Broadcast
<1>3. m.type # "Welcome"
  BY PageMessages
<1>4. m \in ServerMsgs \cup Replies
  OBVIOUS
<1>5. \A i \in DOMAIN Append(out[Me], m) :
         \/ i \in DOMAIN out[Me] /\ Append(out[Me], m)[i] = out[Me][i]
         \/ Append(out[Me], m)[i] = m
  <2>1. PICK S : S = ServerMsgs \cup Replies
    OBVIOUS
  <2>2. out[Me] \in Seq(S) /\ m \in S
    BY <1>1, <1>4, <2>1
  <2>3. /\ \E n \in Nat : /\ n \notin DOMAIN out[Me]
                         /\ DOMAIN Append(out[Me], m) = DOMAIN out[Me] \cup {n}
                         /\ Append(out[Me], m)[n] = m
        /\ \A i \in DOMAIN out[Me] : Append(out[Me], m)[i] = out[Me][i]
    BY <2>2, PutInto
  <2> QED
    BY <2>3
<1> QED
  BY <1>2, <1>3, <1>5 DEF MsgIn

(* server.rs, user.rs: who enters is let in by the step that shows it.     *)
LEMMA EnteredServer ==
  ASSUME ChatInv, EnteredInv, ServerStep, UNCHANGED pageVars
  PROVE  EnteredInv'
<1> USE MeIsASession DEF ChatInv, ServerInv, connVars, userVars, clientVars, pageVars
<1>0. NoNick \notin Nicks
  BY ChatServerAssumption
<1>1. CASE HandleUserData
  <2> DEFINE m == Head(serverBox)
  <2>1. m.sid \in Sessions /\ m.nick \in Nicks
    <3>1. m \in ServerInbox /\ m.type = "UserData"
      BY <1>1, HandlingTakes DEF HandleUserData
    <3> QED
      BY <3>1, Messages
  <2>2. \A i \in DOMAIN serverBox' : \E j \in DOMAIN serverBox : serverBox'[i] = serverBox[j]
    BY <1>1, BoxShrinks DEF HandleUserData
  <2>3. UNCHANGED <<conn, asks, rash>>
    BY <1>1 DEF HandleUserData
  <2>4. CASE ValidateNick(users, m.nick)
    <3>1. /\ Broadcast(users, UserJoined(m.sid, m.nick)) /\ users' = [users EXCEPT ![m.sid] = m.nick]
          /\ \E r \in Replies : Answer(m.sid, r)
      <4>1. [users EXCEPT ![m.sid] = m.nick] \in UserMaps
        BY <2>1 DEF Shapes, UserMaps
      <4> QED
        BY <1>1, <2>4, <4>1, Broadcasts DEF HandleUserData, UsersNow
    <3>2. users'[m.sid] # NoNick /\ \A s \in Sessions \ {m.sid} : users'[s] = users[s]
      BY <1>0, <2>1, <3>1 DEF Shapes, UserMaps
    <3>3. MsgIn(out'[Me], "Welcome") => MsgIn(out[Me], "Welcome")
      BY <2>1, <3>1, BroadcastAdds, Broadcasts
    <3>4. \A s \in Sessions \ {m.sid} : (s \in admitted' => s \in admitted) /\ replies'[s] = replies[s]
      BY <2>1, <3>1 DEF Answer, Shapes
    <3> QED
      BY <2>2, <2>3, <3>2, <3>3, <3>4, EnteredFrom DEF Entered, PageEntered, EnteredInv
  <2>5. CASE ~ValidateNick(users, m.nick)
    <3>1. Answer(m.sid, Refused) /\ UNCHANGED <<users, out>>
      BY <1>1, <2>5 DEF HandleUserData
    <3>2. UNCHANGED admitted
      BY <3>1 DEF Answer, Refused
    <3>3. \A r \in replies'[Me] : r \in replies[Me] \/ r.type = "Refused"
      BY <2>1, <3>1 DEF Answer, Shapes, Refused
    <3> QED
      BY <2>2, <2>3, <3>1, <3>2, <3>3, EnteredFrom DEF Entered, PageEntered, EnteredInv
  <2> QED
    BY <2>4, <2>5
<1>2. CASE HandleChangeNick
  <2> DEFINE m == Head(serverBox)
  <2>1. m.sid \in Sessions /\ m.nick \in Nicks
    <3>1. m \in ServerInbox /\ m.type = "ChangeNick"
      BY <1>2, HandlingTakes DEF HandleChangeNick
    <3> QED
      BY <3>1, Messages
  <2>2. \A i \in DOMAIN serverBox' : \E j \in DOMAIN serverBox : serverBox'[i] = serverBox[j]
    BY <1>2, BoxShrinks DEF HandleChangeNick
  <2>3. UNCHANGED <<conn, asks, rash>>
    BY <1>2 DEF HandleChangeNick
  <2>4. CASE users[m.sid] = NoNick
    <3>1. UNCHANGED <<users, replies, out, admitted>>
      BY <1>2, <2>4 DEF HandleChangeNick
    <3> QED
      BY <2>2, <2>3, <3>1, EnteredFrom DEF Entered, PageEntered, EnteredInv
  <2>5. CASE users[m.sid] # NoNick
    <3>1. PICK b \in BOOLEAN : Answer(m.sid, NickAnswer(b))
      BY <1>2, <2>5 DEF HandleChangeNick
    <3>2. \/ UNCHANGED <<users, out>>
          \/ /\ \E us : Broadcast(us, NickChanged(m.sid, m.nick))
             /\ users' = [users EXCEPT ![m.sid] = m.nick]
      BY <1>2, <2>5 DEF HandleChangeNick
    <3>3. users'[m.sid] # NoNick /\ \A s \in Sessions \ {m.sid} : users'[s] = users[s]
      BY <1>0, <2>1, <2>5, <3>2 DEF Shapes, UserMaps
    <3>4. MsgIn(out'[Me], "Welcome") => MsgIn(out[Me], "Welcome")
      BY <2>1, <3>2, BroadcastAdds, Broadcasts
    <3>5. UNCHANGED admitted
      BY <3>1 DEF Answer, NickAnswer
    <3>6. \A r \in replies'[Me] : r \in replies[Me] \/ r.type = "NickAnswer"
      BY <2>1, <3>1 DEF Answer, Shapes, NickAnswer
    <3> QED
      BY <2>2, <2>3, <3>3, <3>4, <3>5, <3>6, EnteredFrom DEF Entered, PageEntered, EnteredInv
  <2> QED
    BY <2>4, <2>5
<1>3. CASE HandleChatMsgIn
  <2>1. Head(serverBox).sid \in Sessions
    BY <1>3, NoteTaken DEF HandleChatMsgIn
  <2>2. \A i \in DOMAIN serverBox' : \E j \in DOMAIN serverBox : serverBox'[i] = serverBox[j]
    BY <1>3, BoxShrinks DEF HandleChatMsgIn
  <2>3. MsgIn(out'[Me], "Welcome") => MsgIn(out[Me], "Welcome")
    BY <1>3, <2>1, BroadcastAdds, Broadcasts DEF HandleChatMsgIn
  <2> QED
    BY <1>3, <2>2, <2>3, EnteredFrom DEF HandleChatMsgIn, Entered, PageEntered, EnteredInv
<1>4. CASE HandleConnectionClosed
  <2> DEFINE s == Head(serverBox).sid
  <2>1. s \in Sessions
    BY <1>4, NoteTaken DEF HandleConnectionClosed
  <2>2. \A i \in DOMAIN serverBox' : \E j \in DOMAIN serverBox : serverBox'[i] = serverBox[j]
    BY <1>4, BoxShrinks DEF HandleConnectionClosed
  <2>3. conn[s] = "shut"
    <3>1. /\ Head(serverBox) = serverBox[1] /\ 1 \in DOMAIN serverBox
          /\ Head(serverBox).type = "ConnectionClosed"
      BY <1>4, TakenFrom DEF HandleConnectionClosed, Handling, Shapes
    <3> QED
      BY <3>1 DEF EnteredInv
  <2>4. MsgIn(out'[Me], "Welcome") => MsgIn(out[Me], "Welcome")
    <3>1. \A b \in BOOLEAN : UserLeft(s, b) \in ServerMsgs
      BY <2>1, Broadcasts
    <3> QED
      BY <1>4, <3>1, BroadcastAdds DEF HandleConnectionClosed
  <2>5. \A r \in Sessions \ {s} : users'[r] = users[r]
    BY <1>4, <2>1 DEF HandleConnectionClosed, Shapes, UserMaps
  <2> QED
    BY <1>4, <2>2, <2>3, <2>4, <2>5, EnteredFrom DEF HandleConnectionClosed, Entered, PageEntered, EnteredInv
<1>5. ASSUME NEW s \in Sessions, Report(s) PROVE EnteredInv'
  <2>1. \A i \in DOMAIN serverBox' : \/ \E j \in DOMAIN serverBox : serverBox'[i] = serverBox[j]
                                     \/ serverBox'[i] = ConnectionClosed(s)
    BY <1>5, BoxGrows, Messages DEF Report
  <2>2. conn[s] = "shut"
    BY <1>5 DEF Report, CloseEvent
  <2> QED
    BY <1>5, <2>1, <2>2, EnteredFrom DEF Report, Entered, PageEntered, EnteredInv, ConnectionClosed
<1>6. ASSUME NEW s \in Sessions, NEW a \in asks[s], UserJoins(s, a) \/ UserSetsNick(s, a) \/ UserTalks(s, a)
      PROVE  EnteredInv'
  <2>1. a \in Asks /\ \A r \in Sessions : asks'[r] \subseteq asks[r]
    BY <1>6 DEF UserJoins, UserSetsNick, UserTalks, Take, Shapes
  <2>2. CASE UserJoins(s, a)
    <3>1. a.nick \in Nicks
      BY <2>1, <2>2, Messages DEF UserJoins
    <3>2. CASE mayJoin[s]
      <4>1. \A i \in DOMAIN serverBox' : \/ \E j \in DOMAIN serverBox : serverBox'[i] = serverBox[j]
                                         \/ serverBox'[i] = UserData(s, a.nick)
        BY <2>2, <3>1, <3>2, BoxGrows, Messages DEF UserJoins
      <4> QED
        BY <2>1, <2>2, <3>2, <4>1, EnteredFrom DEF UserJoins, UserData, Entered, PageEntered, EnteredInv
    <3>3. CASE ~mayJoin[s]
      <4>1. UNCHANGED admitted
        BY <2>2, <3>3 DEF UserJoins, Answer, Refused
      <4>2. \A r \in replies'[Me] : r \in replies[Me] \/ r.type = "Refused"
        BY <2>2, <3>3 DEF UserJoins, Answer, Shapes, Refused
      <4> QED
        BY <2>1, <2>2, <3>3, <4>1, <4>2, EnteredFrom DEF UserJoins, Entered, PageEntered, EnteredInv
    <3> QED
      BY <3>2, <3>3
  <2>3. CASE UserSetsNick(s, a)
    <3>1. a.nick \in Nicks /\ a.type = "SetNick"
      BY <2>1, <2>3, Messages DEF UserSetsNick
    <3>2. serverBox' = Append(serverBox, ChangeNick(s, a.nick)) /\ ChangeNick(s, a.nick) \in ServerInbox
      BY <2>3, <3>1, Messages DEF UserSetsNick
    <3>3. \A i \in DOMAIN serverBox' : \/ \E j \in DOMAIN serverBox : serverBox'[i] = serverBox[j]
                                       \/ serverBox'[i] = ChangeNick(s, a.nick)
      BY <3>2, BoxGrows
    <3> QED
      BY <2>1, <2>3, <3>1, <3>3, EnteredFrom DEF UserSetsNick, ChangeNick, Entered, PageEntered, EnteredInv
  <2>4. CASE UserTalks(s, a)
    <3>1. \A i \in DOMAIN serverBox' : \/ \E j \in DOMAIN serverBox : serverBox'[i] = serverBox[j]
                                       \/ serverBox'[i] = ChatMsgIn(s)
      BY <2>4, BoxGrows, Messages DEF UserTalks
    <3> QED
      BY <2>1, <2>4, <3>1, EnteredFrom DEF UserTalks, ChatMsgIn, Entered, PageEntered, EnteredInv
  <2> QED
    BY <1>6, <2>2, <2>3, <2>4
<1>7. ASSUME NEW s \in Sessions, NEW r \in replies[s], ReplyArrives(s, r) PROVE EnteredInv'
  <2>1. r \in Replies /\ out[s] \in Seq(ServerMsgs \cup Replies)
    BY DEF Shapes
  <2>2. MsgIn(Append(out[s], r), "Welcome") => MsgIn(out[s], "Welcome") \/ r.type = "Welcome"
    BY <2>1, PutInto DEF MsgIn
  <2>3. out'[Me] = IF s = Me THEN Append(out[s], r) ELSE out[Me]
    BY <1>7 DEF ReplyArrives, Shapes
  <2>4. replies'[Me] \subseteq replies[Me]
    BY <1>7 DEF ReplyArrives, Shapes
  <2> QED
    BY <1>7, <2>2, <2>3, <2>4, NobodyMoves DEF ReplyArrives, Entered, PageEntered
<1> QED
  BY <1>1, <1>2, <1>3, <1>4, <1>5, <1>6, <1>7 DEF ServerStep

(* app.rs, connect_form.rs: the page gets no further than what the server  *)
(* has answered takes it.                                                  *)
LEMMA EnteredPage ==
  ASSUME ChatInv, EnteredInv, PageStep
  PROVE  EnteredInv'
<1> USE MeIsASession DEF ChatInv, ServerInv, connVars, userVars, clientVars, serverVars
<1>1. ASSUME UNCHANGED serverVars, PageEntered' => PageEntered PROVE EnteredInv'
  BY <1>1, NobodyMoves DEF Entered
<1>2. ASSUME NEW t, AppTakes(t), MsgIn(appBox', "Connected") PROVE MsgIn(appBox, "Connected")
  BY <1>2, TakenFrom DEF AppTakes, MsgIn, PageShapes
<1>3. CASE FormConnects
  BY <1>1, <1>3 DEF FormConnects, PageEntered
<1>4. CASE CallCancelled
  BY <1>1, <1>4 DEF CallCancelled, PageEntered
<1>5. CASE AppConnects
  <2>1. MsgIn(appBox, "Connected")
    BY <1>5, TakenFrom DEF AppConnects, AppTakes, MsgIn, PageShapes
  <2> QED
    BY <1>1, <1>5, <2>1 DEF AppConnects, PageEntered
<1>6. CASE AppFills \/ AppLinks \/ AppTellsWindow \/ AppRenames
  BY <1>1, <1>6 DEF AppFills, AppLinks, AppTellsWindow, AppRenames, Await, Idle, AppFrame, PageEntered
<1>7. CASE AppUserJoined \/ AppUserLeft \/ AppNickChanged \/ AppChatMsg
  BY <1>1, <1>2, <1>7 DEF AppUserJoined, AppUserLeft, AppNickChanged, AppChatMsg, Await, AppFrame, PageEntered
<1>8. CASE AppAsks
  <2>1. PageEntered' => PageEntered
    BY <1>2, <1>8 DEF AppAsks, Await, AppFrame, PageEntered
  <2>2. \A s \in Sessions : Entered(s)' => Entered(s) \/ (s = Me /\ PageEntered)
    <3>1. CASE linked
      <4>1. \A s \in Sessions \ {Me} : asks'[s] = asks[s]
        BY <1>8, <3>1 DEF AppAsks, Ask, Shapes
      <4> QED
        BY <1>8, <3>1, <4>1 DEF AppAsks, Entered, PageEntered
    <3>2. CASE ~linked
      BY <1>8, <3>2 DEF AppAsks, Entered
    <3> QED
      BY <3>1, <3>2
  <2> QED
    BY <1>8, <2>1, <2>2, NobodyMoves DEF AppAsks
<1>9. CASE AppDisconnects
  <2>1. PageEntered' => PageEntered \/ conn'[Me] # "open"
    BY <1>2, <1>9 DEF AppDisconnects, PageEntered, PeerCloses, Shapes
  <2>2. CASE UNCHANGED serverVars
    <3>1. PageEntered' => PageEntered
      BY <1>2, <1>9, <2>2 DEF AppDisconnects, PageEntered
    <3> QED
      BY <1>1, <2>2, <3>1
  <2>3. CASE PeerCloses(Me) /\ linked
    <3>1. \A s \in Sessions : conn'[s] = "open" => s # Me /\ conn[s] = "open"
      BY <2>3 DEF PeerCloses, Shapes
    <3>2. \A s \in Sessions \ {Me} : asks'[s] = asks[s]
      BY <2>3 DEF PeerCloses, Shapes
    <3>3. UNCHANGED <<users, serverBox, admitted, rash>>
      BY <2>3 DEF PeerCloses
    <3>4. \A s \in Sessions : conn[s] = "shut" => conn'[s] = "shut"
      BY <2>3 DEF PeerCloses, Shapes
    <3>5. \A s \in Sessions \ {Me} : Entered(s)' => Entered(s)
      BY <3>2, <3>3 DEF Entered
    <3>6. \A i \in DOMAIN serverBox : serverBox[i].type = "ConnectionClosed" =>
            conn'[serverBox[i].sid] = "shut"
      <4>1. \A i \in DOMAIN serverBox : serverBox[i].sid \in Sessions
        BY Messages DEF Shapes
      <4> QED
        BY <3>4, <4>1 DEF EnteredInv
    <3> QED
      BY <3>1, <3>3, <3>5, <3>6 DEF EnteredInv
  <2> QED
    BY <1>9, <2>2, <2>3 DEF AppDisconnects
<1>10. CASE ListStep
  BY <1>1, <1>10 DEF ListStep, PageEntered
<1>11. CASE WindowStep
  BY <1>1, <1>11 DEF WindowStep, PageEntered
<1>12. ASSUME NEW s \in Watched, Read(s) PROVE EnteredInv'
  <2> DEFINE m == Head(out[Me])
  <2>1. s = Me /\ out[Me] \in Seq(ServerMsgs \cup Replies) /\ out[Me] # <<>>
    BY <1>12 DEF Read, Shapes
  <2>2. /\ m \in ServerMsgs \cup Replies
        /\ m = out[Me][1] /\ 1 \in DOMAIN out[Me]
        /\ MsgIn(Tail(out[Me]), "Welcome") => MsgIn(out[Me], "Welcome")
    BY <2>1, TakenFrom DEF MsgIn
  <2>3. out'[Me] = Tail(out[Me])
    BY <1>12, <2>1 DEF Read, Shapes
  <2>4. \A r \in Sessions : Entered(r)' => Entered(r)
    BY <1>12 DEF Read, Entered
  <2>5. CASE m.type = "Welcome"
    <3>1. PageEntered
      BY <2>2, <2>5 DEF PageEntered, MsgIn
    <3> QED
      BY <1>12, <2>4, <3>1, NobodyMoves DEF Read
  <2>6. CASE m.type \in {"Refused", "NickAnswer"}
    <3>1. PageEntered' => PageEntered
      BY <1>12, <2>1, <2>2, <2>3, <2>6 DEF Read, PageEntered, Idle
    <3> QED
      BY <1>12, <2>4, <3>1, NobodyMoves DEF Read
  <2>7. CASE m.type \notin {"Welcome", "Refused", "NickAnswer"}
    <3>1. m \in ServerMsgs
      BY <2>2, <2>7, PageMessages
    <3>2. appBox' = Append(appBox, m) /\ UNCHANGED <<form, welcome, app>>
      BY <1>12, <2>1, <2>7 DEF Read
    <3>3. MsgIn(appBox', "Connected") => MsgIn(appBox, "Connected")
      <4>1. m.type # "Connected" /\ m \in AppMsgs
        BY <3>1, PageMessages, PageMade
      <4> QED
        BY <3>2, <4>1, PutInto DEF MsgIn, PageShapes
    <3>4. PageEntered' => PageEntered
      BY <1>12, <2>2, <2>3, <3>2, <3>3 DEF Read, PageEntered
    <3> QED
      BY <1>12, <2>4, <3>4, NobodyMoves DEF Read
  <2> QED
    BY <2>5, <2>6, <2>7
<1> QED
  BY <1>3, <1>4, <1>5, <1>6, <1>7, <1>8, <1>9, <1>10, <1>11, <1>12 DEF PageStep

(* connect_form.rs, app.rs: the user of the page lets nobody in.           *)
LEMMA EnteredVisit ==
  ASSUME ChatInv, EnteredInv, Visit
  PROVE  EnteredInv'
<1> USE MeIsASession DEF ChatInv, ServerInv, connVars, userVars, clientVars
<1>1. ASSUME NEW n \in Nicks, SubmitConnect(n) PROVE EnteredInv'
  <2>1. \A s \in Sessions : \A a \in asks'[s] : a \in asks[s] \/ a.type = "Join"
    BY <1>1 DEF SubmitConnect, Ask, Join, Shapes
  <2>2. \A s \in Sessions : Entered(s)' => Entered(s)
    BY <1>1, <2>1 DEF SubmitConnect, Entered
  <2>3. PageEntered' => PageEntered
    BY <1>1 DEF SubmitConnect, PageEntered
  <2> QED
    BY <1>1, <2>2, <2>3, NobodyMoves DEF SubmitConnect
<1>2. ASSUME NEW m \in Asks \cup {Disconnect}, ChatSubmit(m) PROVE EnteredInv'
  <2>1. PageEntered
    BY <1>2 DEF ChatSubmit, PageEntered
  <2> QED
    BY <1>2, <2>1, NobodyMoves DEF ChatSubmit, Entered
<1> QED
  BY <1>1, <1>2, Messages DEF Visit

(* peer.rs, user.rs: neither does another client, or a close.              *)
LEMMA EnteredOthers ==
  ASSUME ChatInv, EnteredInv, NEW s \in Sessions,
         PeerCloses(s) \/ (s \notin Watched /\ ClientStep(s)), UNCHANGED pageVars
  PROVE  EnteredInv'
<1> USE MeIsASession DEF ChatInv, ServerInv, connVars, userVars, clientVars, pageVars
<1>1. CASE PeerCloses(s)
  <2>1. /\ \A r \in Sessions : conn'[r] = "open" => r # s /\ conn[r] = "open"
        /\ \A r \in Sessions : conn[r] = "shut" => conn'[r] = "shut"
        /\ \A r \in Sessions \ {s} : asks'[r] = asks[r] /\ replies'[r] = replies[r] /\ out'[r] = out[r]
    BY <1>1 DEF PeerCloses, Shapes
  <2>2. UNCHANGED <<users, serverBox, admitted, rash>>
    BY <1>1 DEF PeerCloses
  <2>3. \A r \in Sessions \ {s} : Entered(r)' => Entered(r)
    BY <2>1, <2>2 DEF Entered
  <2>4. s # Me => (PageEntered' => PageEntered)
    BY <2>1 DEF PageEntered
  <2>5. \A i \in DOMAIN serverBox : serverBox[i].type = "ConnectionClosed" =>
          conn'[serverBox[i].sid] = "shut"
    <3>1. \A i \in DOMAIN serverBox : serverBox[i].sid \in Sessions
      BY Messages DEF Shapes
    <3> QED
      BY <2>1, <3>1 DEF EnteredInv
  <2> QED
    BY <2>1, <2>2, <2>3, <2>4, <2>5 DEF EnteredInv
<1>2. ASSUME NEW a, ClientAsks(s, a) PROVE EnteredInv'
  <2>1. /\ rash \subseteq rash' /\ UNCHANGED admitted
        /\ s \in Sessions /\ asks'[s] = asks[s] \cup {a}
        /\ \A r \in Sessions \ {s} : asks'[r] = asks[r]
    BY <1>2 DEF ClientAsks, Ask, Shapes
  <2>2. a.type = "SetNick" => s \in admitted \/ s \in rash'
    BY <1>2 DEF ClientAsks
  <2>3. UNCHANGED <<conn, users, serverBox>> /\ (PageEntered' => PageEntered)
    BY <1>2 DEF ClientAsks, PageEntered
  <2>4. \A r \in Sessions : Entered(r)' => Entered(r)
    BY <2>1, <2>2, <2>3 DEF Entered
  <2> QED
    BY <2>3, <2>4, NobodyMoves
<1> QED
  BY <1>1, <1>2 DEF ClientStep

(* Every step keeps EnteredInv.                                            *)
LEMMA EnteredStep == ASSUME ChatInv, EnteredInv, [Next]_vars PROVE EnteredInv'
<1>1. CASE UNCHANGED vars
  BY <1>1, NobodyMoves DEF vars, serverVars, connVars, userVars, clientVars, pageVars, Entered, PageEntered
<1> QED
  BY <1>1, EnteredServer, EnteredPage, EnteredVisit, EnteredOthers DEF Next

(* server.rs: only a change of nick can panic.                             *)
LEMMA WhoStopsTheServer ==
  ASSUME [Next]_vars
  PROVE  UNCHANGED <<conn, culprit>> \/ HandleChangeNick \/ \E s \in Sessions : PeerCloses(s)
<1> USE DEF connVars, serverVars
<1>1. ASSUME ServerStep PROVE UNCHANGED <<conn, culprit>> \/ HandleChangeNick
  BY <1>1 DEF ServerStep, HandleUserData, HandleChatMsgIn, HandleConnectionClosed, Report, UserJoins,
              UserSetsNick, UserTalks, Take, ReplyArrives
<1>2. ASSUME PageStep PROVE UNCHANGED <<conn, culprit>> \/ PeerCloses(Me)
  <2>1. CASE AppDisconnects
    BY <2>1 DEF AppDisconnects
  <2>2. CASE \E s \in Watched : Read(s)
    BY <2>2 DEF Read
  <2> QED
    BY <1>2, <2>1, <2>2
       DEF PageStep, FormConnects, CallCancelled, AppConnects, AppFills, AppLinks, AppUserJoined,
           AppUserLeft, AppTellsWindow, AppNickChanged, AppRenames, AppChatMsg, AppAsks, ListStep,
           WindowStep
<1>3. ASSUME Visit PROVE UNCHANGED <<conn, culprit>>
  BY <1>3 DEF Visit, SubmitConnect, ChatSubmit
<1>4. ASSUME NEW s \in Sessions, ClientStep(s) PROVE UNCHANGED <<conn, culprit>>
  BY <1>4 DEF ClientStep, ClientAsks
<1>5. CASE UNCHANGED vars
  BY <1>5 DEF vars
<1> QED
  BY <1>1, <1>2, <1>3, <1>4, <1>5, MeIsASession DEF Next

(* user.rs: that a client has asked too early is not undone.               *)
LEMMA OnceRash == ASSUME [Next]_vars PROVE rash \subseteq rash'
<1> USE DEF clientVars, serverVars
<1>1. ASSUME ServerStep PROVE UNCHANGED rash
  BY <1>1 DEF ServerStep, HandleUserData, HandleChangeNick, HandleChatMsgIn, HandleConnectionClosed, Report,
              UserJoins, UserSetsNick, UserTalks, ReplyArrives
<1>2. ASSUME PageStep PROVE UNCHANGED rash
  <2>1. CASE AppDisconnects
    BY <2>1 DEF AppDisconnects, PeerCloses
  <2>2. CASE \E s \in Watched : Read(s)
    BY <2>2 DEF Read
  <2> QED
    BY <1>2, <2>1, <2>2
       DEF PageStep, FormConnects, CallCancelled, AppConnects, AppFills, AppLinks, AppUserJoined,
           AppUserLeft, AppTellsWindow, AppNickChanged, AppRenames, AppChatMsg, AppAsks, ListStep,
           WindowStep
<1>3. ASSUME Visit PROVE UNCHANGED rash
  BY <1>3 DEF Visit, SubmitConnect, ChatSubmit
<1>4. ASSUME NEW s \in Sessions, PeerCloses(s) \/ ClientStep(s) PROVE rash \subseteq rash'
  BY <1>4 DEF PeerCloses, ClientStep, ClientAsks
<1>5. CASE UNCHANGED vars
  BY <1>5 DEF vars
<1> QED
  BY <1>1, <1>2, <1>3, <1>4, <1>5 DEF Next

(* At the start nobody has asked for anything.                             *)
LEMMA EnteredInit == ASSUME Init PROVE EnteredInv
<1>1. \A s \in Sessions : ~Entered(s)
  <2>1. /\ \A s \in Sessions : s \notin admitted /\ asks[s] = {}
        /\ DOMAIN serverBox = {}
    BY DEF Init, ServerInit
  <2> QED
    BY <2>1 DEF Entered
<1>2. ~PageEntered
  BY MeIsASession DEF Init, ServerInit, PageEntered, MsgIn, Idle
<1> QED
  BY <1>1, <1>2 DEF Init, ServerInit, EnteredInv

(* server.rs:151, expect( "join first" ): a client that asks for a nick    *)
(* only after its Welcome, and stays connected, does not bring the server  *)
(* down, in any number of sessions, whatever the others ask and when.      *)
THEOREM ServerIsSafe == Spec => []ServerSurvives
<1>1. Init => EnteredInv /\ ServerSurvives
  BY EnteredInit DEF Init, ServerInit, ServerSurvives
<1>2. ASSUME ChatInv, EnteredInv, ServerSurvives, [Next]_vars PROVE ServerSurvives'
  <2>1. CASE UNCHANGED <<conn, culprit>>
    BY <1>2, <2>1, OnceRash DEF ServerSurvives
  <2>2. CASE \E s \in Sessions : PeerCloses(s)
    BY <1>2, <2>2, OnceRash DEF ServerSurvives, PeerCloses, ChatInv, ServerInv, Shapes
  <2>3. CASE HandleChangeNick
    <3> DEFINE m == Head(serverBox)
    <3>1. m = serverBox[1] /\ 1 \in DOMAIN serverBox /\ m \in ServerInbox /\ m.type = "ChangeNick"
      BY <1>2, <2>3, TakenFrom DEF HandleChangeNick, Handling, ChatInv, ServerInv, Shapes
    <3>2. m.sid \in Sessions
      BY <3>1, Messages
    <3>3. m.sid \in rash \/ Entered(m.sid)
      BY <3>1 DEF Entered
    <3>4. users[m.sid] = NoNick => conn[m.sid] # "open" \/ m.sid \in rash
      BY <1>2, <3>2, <3>3 DEF EnteredInv
    <3> QED
      BY <1>2, <2>3, <3>4, OnceRash DEF ServerSurvives, HandleChangeNick, connVars
  <2> QED
    BY <1>2, <2>1, <2>2, <2>3, WhoStopsTheServer
<1> QED
  BY <1>1, <1>2, ChatInit, ChatStepType, EnteredStep, PTL DEF Spec

-----------------------------------------------------------------------------
(***************************************************************************)
(* What the page shows.  The entry of one session, its nick or NoNick, is  *)
(* followed from the state of one actor to the next through the messages   *)
(* between them.  Turns says what the handling of a message makes of it:   *)
(* w is the nick the welcome of the page gave, and k says that whom a      *)
(* Remove names was a user.                                                *)
(***************************************************************************)
Entries == Nicks \cup {NoNick}

Turns(m, s, w, k, a, b) ==
  CASE m.type = "Clear"                    -> b = NoNick
    [] m.type \in {"Insert", "NewUser"}    -> b = IF m.users[s] # NoNick THEN m.users[s] ELSE a
    [] m.type = "Welcome"                  -> b = m.users[s]
    [] m.type = "Connected"                -> b = w
    [] m.type = "UserJoined" /\ m.sid = s  -> b = m.nick
    [] m.type = "NickChanged" /\ m.sid = s -> a # NoNick /\ b = m.nick
    [] m.type = "UserLeft" /\ m.sid = s    -> (m.member => a # NoNick) /\ b = NoNick
    [] m.type = "Remove" /\ m.sid = s      -> (k => a # NoNick) /\ b = NoNick
    [] m.type = "GetUser" /\ m.sid = s     -> a # NoNick /\ b = a
    [] OTHER                               -> b = a

(* f is what the messages of q, handled in order, make of f[0].            *)
Course(f, q, s, w, k) == /\ f \in [0..Len(q) -> Entries]
                         /\ \A i \in 1..Len(q) : Turns(q[i], s, w, k, f[i - 1], f[i])

Flow(q, s, w, k, a, b) == \E f : Course(f, q, s, w, k) /\ f[0] = a /\ f[Len(q)] = b

(* app.rs, user_list.rs: nothing to handle changes nothing.                *)
LEMMA FlowOfNone ==
  ASSUME NEW s, NEW w, NEW k, NEW a \in Entries, NEW b \in Entries
  PROVE  Flow(<<>>, s, w, k, a, b) <=> a = b
<1>1. ASSUME a = b PROVE Flow(<<>>, s, w, k, a, b)
  <2>1. Course([i \in 0..0 |-> a], <<>>, s, w, k)
    BY DEF Course
  <2> QED
    BY <1>1, <2>1 DEF Flow
<1> QED
  BY <1>1 DEF Flow, Course

(* A message more is handled after those that were there.                  *)
LEMMA FlowOfMore ==
  ASSUME NEW S, NEW q \in Seq(S), NEW m \in S, NEW s, NEW w, NEW k,
         NEW a, NEW b, NEW c \in Entries, Flow(q, s, w, k, a, b), Turns(m, s, w, k, b, c)
  PROVE  Flow(Append(q, m), s, w, k, a, c)
<1> DEFINE n == Len(q)
           r == Append(q, m)
<1>1. PICK f : Course(f, q, s, w, k) /\ f[0] = a /\ f[n] = b
  BY DEF Flow
<1> DEFINE g == [i \in 0..(n + 1) |-> IF i = n + 1 THEN c ELSE f[i]]
<1>2. n \in Nat /\ Len(r) = n + 1 /\ r[n + 1] = m /\ \A i \in 1..n : r[i] = q[i]
  OBVIOUS
<1>3. f \in [0..n -> Entries] /\ \A i \in 1..n : Turns(q[i], s, w, k, f[i - 1], f[i])
  BY <1>1 DEF Course
<1>4. g \in [0..(n + 1) -> Entries] /\ g[0] = a /\ g[n] = b /\ g[n + 1] = c
  BY <1>1, <1>2, <1>3
<1>5. ASSUME NEW i \in 1..(n + 1) PROVE Turns(r[i], s, w, k, g[i - 1], g[i])
  <2>1. CASE i = n + 1
    <3>1. g[i - 1] = b /\ g[i] = c /\ r[i] = m
      BY <1>2, <1>4, <2>1
    <3> QED
      BY <3>1
  <2>2. CASE i # n + 1
    <3>1. i \in 1..n /\ i - 1 \in 0..n
      BY <1>2, <2>2
    <3>2. g[i - 1] = f[i - 1] /\ g[i] = f[i] /\ r[i] = q[i]
      BY <1>2, <3>1
    <3> QED
      BY <1>3, <3>1, <3>2
  <2> QED
    BY <2>1, <2>2
<1>6. Course(g, r, s, w, k)
  BY <1>2, <1>4, <1>5 DEF Course
<1> QED
  BY <1>2, <1>4, <1>6 DEF Flow

(* The first message is handled before the others.                         *)
LEMMA FlowOfHead ==
  ASSUME NEW S, NEW q \in Seq(S), q # <<>>, NEW s, NEW w, NEW k, NEW a, NEW b,
         Flow(q, s, w, k, a, b)
  PROVE  \E c \in Entries : Turns(Head(q), s, w, k, a, c) /\ Flow(Tail(q), s, w, k, c, b)
<1> DEFINE n == Len(q)
           r == Tail(q)
<1>1. PICK f : Course(f, q, s, w, k) /\ f[0] = a /\ f[n] = b
  BY DEF Flow
<1> DEFINE g == [i \in 0..(n - 1) |-> f[i + 1]]
<1>2. /\ n \in Nat /\ n >= 1 /\ Len(r) = n - 1 /\ Head(q) = q[1]
      /\ \A i \in 1..(n - 1) : r[i] = q[i + 1]
  OBVIOUS
<1>3. f \in [0..n -> Entries] /\ \A i \in 1..n : Turns(q[i], s, w, k, f[i - 1], f[i])
  BY <1>1 DEF Course
<1>4. g \in [0..(n - 1) -> Entries] /\ g[0] = f[1] /\ g[n - 1] = b
  BY <1>1, <1>2, <1>3
<1>5. ASSUME NEW i \in 1..(n - 1) PROVE Turns(r[i], s, w, k, g[i - 1], g[i])
  <2>1. i + 1 \in 1..n /\ i - 1 \in 0..(n - 1) /\ i \in 0..(n - 1) /\ (i + 1) - 1 = i /\ (i - 1) + 1 = i
    BY <1>2
  <2>2. g[i - 1] = f[i] /\ g[i] = f[i + 1] /\ r[i] = q[i + 1]
    BY <1>2, <2>1
  <2>3. Turns(q[i + 1], s, w, k, f[(i + 1) - 1], f[i + 1])
    BY <1>3, <2>1
  <2> QED
    BY <2>1, <2>2, <2>3
<1>6. Course(g, r, s, w, k)
  BY <1>2, <1>4, <1>5 DEF Course
<1>7. Flow(r, s, w, k, f[1], b)
  BY <1>2, <1>4, <1>6 DEF Flow
<1>8. 1 \in 1..n /\ 1 - 1 = 0
  BY <1>2
<1>9. Turns(Head(q), s, w, k, a, f[1])
  BY <1>1, <1>2, <1>3, <1>8
<1> QED
  BY <1>2, <1>3, <1>7, <1>9

(* Messages that name no user change nothing.                              *)
LEMMA FlowOfIdle ==
  ASSUME NEW S, NEW q \in Seq(S), NEW s, NEW w, NEW k, NEW a \in Entries,
         \A i \in DOMAIN q : Turns(q[i], s, w, k, a, a)
  PROVE  Flow(q, s, w, k, a, a)
<1> DEFINE g == [i \in 0..Len(q) |-> a]
<1>1. Len(q) \in Nat /\ DOMAIN q = 1..Len(q)
  OBVIOUS
<1>2. g \in [0..Len(q) -> Entries] /\ g[0] = a /\ g[Len(q)] = a
  BY <1>1
<1>3. ASSUME NEW i \in 1..Len(q) PROVE Turns(q[i], s, w, k, g[i - 1], g[i])
  <2>1. g[i - 1] = a /\ g[i] = a
    BY <1>1
  <2> QED
    BY <1>1, <2>1
<1>4. Course(g, q, s, w, k)
  BY <1>2, <1>3 DEF Course
<1> QED
  BY <1>2, <1>4 DEF Flow

(* What no message of q depends on may change.                             *)
LEMMA FlowKept ==
  ASSUME NEW S, NEW q \in Seq(S), NEW s, NEW w, NEW v, NEW k, NEW l, NEW a, NEW b,
         Flow(q, s, w, k, a, b),
         \A i \in DOMAIN q : /\ q[i].type = "Connected" => v = w
                             /\ q[i].type = "Remove" /\ q[i].sid = s => l = k
  PROVE  Flow(q, s, v, l, a, b)
<1>1. PICK f : Course(f, q, s, w, k) /\ f[0] = a /\ f[Len(q)] = b
  BY DEF Flow
<1>2. ASSUME NEW i \in 1..Len(q), NEW x, NEW y, Turns(q[i], s, w, k, x, y)
      PROVE  Turns(q[i], s, v, l, x, y)
  <2>1. i \in DOMAIN q
    OBVIOUS
  <2>2. q[i].type = "Connected" => v = w
    BY <2>1
  <2>3. q[i].type = "Remove" /\ q[i].sid = s => l = k
    BY <2>1
  <2> QED
    BY <1>2, <2>2, <2>3 DEF Turns
<1>3. Course(f, q, s, v, l)
  BY <1>1, <1>2 DEF Course
<1> QED
  BY <1>1, <1>3 DEF Flow

-----------------------------------------------------------------------------
(* Which messages are in a mailbox, and in which order.                    *)
News(m) == m \in ServerMsgs

MsgsIn(q, T)     == \E i \in DOMAIN q : q[i].type \in T
Once(q, T)       == \A i, j \in DOMAIN q : q[i].type \in T /\ q[j].type \in T => i = j
NewsIn(q)        == \E i \in DOMAIN q : News(q[i])
NewsBefore(q, t) == \E i, j \in DOMAIN q : i < j /\ News(q[i]) /\ q[j].type = t

(* app.rs: a message is put at the end of a mailbox.                       *)
LEMMA MsgsOfMore ==
  ASSUME NEW S, NEW q \in Seq(S), NEW m \in S
  PROVE  /\ \A t : MsgIn(Append(q, m), t) <=> MsgIn(q, t) \/ m.type = t
         /\ \A T : MsgsIn(Append(q, m), T) <=> MsgsIn(q, T) \/ m.type \in T
         /\ \A T : Once(q, T) /\ (m.type \in T => ~MsgsIn(q, T)) => Once(Append(q, m), T)
         /\ NewsIn(Append(q, m)) <=> NewsIn(q) \/ News(m)
         /\ \A t : NewsBefore(Append(q, m), t) <=> NewsBefore(q, t) \/ (NewsIn(q) /\ m.type = t)
<1> DEFINE n == Len(q)
           r == Append(q, m)
<1>1. /\ n \in Nat /\ DOMAIN q = 1..n /\ DOMAIN r = 1..(n + 1) /\ r[n + 1] = m
      /\ \A i \in 1..n : r[i] = q[i] /\ i # n + 1 /\ i < n + 1
      /\ \A i \in 1..(n + 1) : i = n + 1 \/ i \in 1..n
      /\ \A i \in 1..n : i \in 1..(n + 1)
      /\ n + 1 \in 1..(n + 1)
  OBVIOUS
<1> HIDE DEF n, r
<1>2. /\ \A t : MsgIn(r, t) <=> MsgIn(q, t) \/ m.type = t
      /\ \A T : MsgsIn(r, T) <=> MsgsIn(q, T) \/ m.type \in T
  BY <1>1 DEF MsgIn, MsgsIn
<1>3. \A T : Once(q, T) /\ (m.type \in T => ~MsgsIn(q, T)) => Once(r, T)
  BY <1>1 DEF MsgsIn, Once
<1>4. NewsIn(r) <=> NewsIn(q) \/ News(m)
  BY <1>1 DEF NewsIn
<1>5. ASSUME NEW t, NewsBefore(r, t) PROVE NewsBefore(q, t) \/ (NewsIn(q) /\ m.type = t)
  <2>1. PICK i, j \in 1..(n + 1) : i < j /\ News(r[i]) /\ r[j].type = t
    BY <1>1, <1>5 DEF NewsBefore
  <2>2. i \in 1..n /\ r[i] = q[i]
    BY <1>1, <2>1
  <2> QED
    BY <1>1, <2>1, <2>2 DEF NewsBefore, NewsIn
<1>6. ASSUME NEW t, NewsBefore(q, t) \/ (NewsIn(q) /\ m.type = t) PROVE NewsBefore(r, t)
  BY <1>1, <1>6 DEF NewsBefore, NewsIn
<1> QED
  BY <1>2, <1>3, <1>4, <1>5, <1>6 DEF r

(* ... and the first one is taken.                                         *)
LEMMA MsgsOfHead ==
  ASSUME NEW S, NEW q \in Seq(S), q # <<>>
  PROVE  /\ \A t : MsgIn(q, t) <=> Head(q).type = t \/ MsgIn(Tail(q), t)
         /\ \A T : MsgsIn(q, T) <=> Head(q).type \in T \/ MsgsIn(Tail(q), T)
         /\ \A T : Once(q, T) => Once(Tail(q), T) /\ (Head(q).type \in T => ~MsgsIn(Tail(q), T))
         /\ NewsIn(q) <=> News(Head(q)) \/ NewsIn(Tail(q))
         /\ \A t : NewsBefore(q, t) <=> NewsBefore(Tail(q), t) \/ (News(Head(q)) /\ MsgIn(Tail(q), t))
<1> DEFINE n == Len(q) - 1
           r == Tail(q)
           m == Head(q)
<1>1. /\ n \in Nat /\ DOMAIN q = 1..(n + 1) /\ DOMAIN r = 1..n /\ q[1] = m
      /\ \A i \in 1..n : r[i] = q[i + 1] /\ i + 1 # 1 /\ 1 < i + 1 /\ i + 1 \in 1..(n + 1) /\ i \in Nat
      /\ \A i \in 1..(n + 1) : i = 1 \/ \E j \in 1..n : i = j + 1
      /\ 1 \in 1..(n + 1)
      /\ \A i \in 1..(n + 1) : ~(i < 1)
  <2>1. /\ n \in Nat /\ DOMAIN q = 1..(n + 1) /\ DOMAIN r = 1..n /\ q[1] = m
        /\ \A i \in 1..n : r[i] = q[i + 1]
    OBVIOUS
  <2>2. \A i \in 1..(n + 1) : i = 1 \/ (i - 1 \in 1..n /\ i = (i - 1) + 1)
    BY <2>1
  <2> QED
    BY <2>1, <2>2
<1> HIDE DEF n, r, m
<1>2. ASSUME NEW T PROVE MsgsIn(q, T) <=> m.type \in T \/ MsgsIn(r, T)
  <2>1. ASSUME MsgsIn(q, T) PROVE m.type \in T \/ MsgsIn(r, T)
    <3>1. PICK i \in 1..(n + 1) : q[i].type \in T
      BY <1>1, <2>1 DEF MsgsIn
    <3>2. CASE i = 1
      BY <1>1, <3>1, <3>2
    <3>3. CASE i # 1
      <4>1. PICK j \in 1..n : i = j + 1
        BY <1>1, <3>3
      <4>2. r[j].type \in T /\ j \in DOMAIN r
        BY <1>1, <3>1, <4>1
      <4> QED
        BY <4>2 DEF MsgsIn
    <3> QED
      BY <3>2, <3>3
  <2>2. m.type \in T => MsgsIn(q, T)
    BY <1>1 DEF MsgsIn
  <2>3. ASSUME MsgsIn(r, T) PROVE MsgsIn(q, T)
    <3>1. PICK j \in 1..n : r[j].type \in T
      BY <1>1, <2>3 DEF MsgsIn
    <3>2. q[j + 1].type \in T /\ j + 1 \in DOMAIN q
      BY <1>1, <3>1
    <3> QED
      BY <3>2 DEF MsgsIn
  <2> QED
    BY <2>1, <2>2, <2>3
<1>3. ASSUME NEW t PROVE MsgIn(q, t) <=> m.type = t \/ MsgIn(r, t)
  <2>1. MsgsIn(q, {t}) <=> m.type \in {t} \/ MsgsIn(r, {t})
    BY <1>2
  <2> QED
    BY <2>1 DEF MsgsIn, MsgIn
<1>4. ASSUME NEW T, Once(q, T) PROVE Once(r, T) /\ (m.type \in T => ~MsgsIn(r, T))
  <2>1. \A i, j \in 1..n : r[i].type \in T /\ r[j].type \in T => i + 1 = j + 1
    BY <1>1, <1>4 DEF Once
  <2>2. \A i, j \in 1..n : i + 1 = j + 1 => i = j
    BY <1>1
  <2>3. Once(r, T)
    BY <1>1, <2>1, <2>2 DEF Once
  <2>4. m.type \in T => ~MsgsIn(r, T)
    BY <1>1, <1>4 DEF Once, MsgsIn
  <2> QED
    BY <2>3, <2>4
<1>5. NewsIn(q) <=> News(m) \/ NewsIn(r)
  BY <1>1 DEF NewsIn
<1>6. ASSUME NEW t, NewsBefore(q, t) PROVE NewsBefore(r, t) \/ (News(m) /\ MsgIn(r, t))
  <2>1. PICK i, j \in 1..(n + 1) : i < j /\ News(q[i]) /\ q[j].type = t
    BY <1>1, <1>6 DEF NewsBefore
  <2>2. PICK v \in 1..n : j = v + 1
    BY <1>1, <2>1
  <2>3. CASE i = 1
    BY <1>1, <2>1, <2>2, <2>3 DEF MsgIn
  <2>4. CASE i # 1
    <3>1. PICK u \in 1..n : i = u + 1
      BY <1>1, <2>4
    <3>2. u < v
      BY <2>1, <2>2, <3>1
    <3> QED
      BY <1>1, <2>1, <2>2, <3>1, <3>2 DEF NewsBefore
  <2> QED
    BY <2>3, <2>4
<1>7. ASSUME NEW t, NewsBefore(r, t) PROVE NewsBefore(q, t)
  <2>1. PICK i, j \in 1..n : i < j /\ News(r[i]) /\ r[j].type = t
    BY <1>1, <1>7 DEF NewsBefore
  <2>2. i + 1 < j + 1
    BY <2>1
  <2> QED
    BY <1>1, <2>1, <2>2 DEF NewsBefore
<1>8. ASSUME NEW t, News(m), MsgIn(r, t) PROVE NewsBefore(q, t)
  <2>1. PICK i \in 1..n : r[i].type = t
    BY <1>1, <1>8 DEF MsgIn
  <2>2. q[i + 1].type = t /\ 1 < i + 1 /\ i + 1 \in DOMAIN q /\ 1 \in DOMAIN q
    BY <1>1, <2>1
  <2> QED
    BY <1>1, <1>8, <2>2 DEF NewsBefore
<1> QED
  BY <1>2, <1>3, <1>4, <1>5, <1>6, <1>7, <1>8 DEF r, m

(* An empty mailbox.                                                       *)
LEMMA MsgsOfNone ==
  ASSUME NEW t, NEW T
  PROVE  ~MsgIn(<<>>, t) /\ ~MsgsIn(<<>>, T) /\ Once(<<>>, T) /\ ~NewsIn(<<>>) /\ ~NewsBefore(<<>>, t)
BY DEF MsgIn, MsgsIn, Once, NewsIn, NewsBefore

-----------------------------------------------------------------------------
(* What a step of the server means to the page: nothing, a broadcast, its  *)
(* welcome, or an answer that leaves for it.                               *)
Agrees(s, d) == IF s = Me THEN d # NoNick ELSE d = users[s]
Welcomed     == \E r \in replies[Me] : r.type = "Welcome"
SameWelcome  == \A r : r.type = "Welcome" => (r \in replies'[Me] <=> r \in replies[Me])

Silent == /\ out'[Me] = out[Me]
          /\ SameWelcome
          /\ conn[Me] = "open" =>
               /\ users'[Me] # NoNick <=> users[Me] # NoNick
               /\ users[Me] # NoNick => \A s \in Sessions \ {Me} : users'[s] = users[s]

Told(m) == /\ m \in ServerMsgs
           /\ out'[Me] = Append(out[Me], m)
           /\ SameWelcome
           /\ users[Me] # NoNick /\ users'[Me] # NoNick
           /\ \A s \in Sessions, d \in Entries :
                Agrees(s, d) => \E e \in Entries : Turns(m, s, NoNick, FALSE, d, e) /\ Agrees(s, e)'

LetMeIn == /\ out'[Me] = out[Me]
           /\ users[Me] = NoNick /\ users'[Me] # NoNick
           /\ replies'[Me] = replies[Me] \cup {Welcome(users')}

AnswersMe(r) == /\ r \in replies[Me]
                /\ out'[Me] = Append(out[Me], r)
                /\ replies'[Me] = replies[Me] \ {r}
                /\ UNCHANGED users

(* server.rs: the entry of a session in Server::users.                     *)
LEMMA UsersAre ==
  ASSUME Shapes
  PROVE  /\ \A s \in Sessions : users[s] \in Entries
         /\ \A s, r \in Sessions : \A n : [users EXCEPT ![s] = n][r] = IF r = s THEN n ELSE users[r]
         /\ NoNick \in Entries /\ \A n \in Nicks : n \in Entries /\ n # NoNick
BY ChatServerAssumption DEF Shapes, UserMaps, Entries

(* server.rs: what a broadcast to us puts on the way to the page.          *)
LEMMA BroadcastToMe ==
  ASSUME Shapes, NEW us, NEW m, Broadcast(us, m)
  PROVE  out'[Me] = IF us[Me] # NoNick /\ conn[Me] = "open" THEN Append(out[Me], m) ELSE out[Me]
BY MeIsASession DEF Broadcast, Present, Shapes

(* user.rs: an answer to s is one for the page if s is the page.           *)
LEMMA AnswerToMe ==
  ASSUME Shapes, NEW s \in Sessions, NEW r, Answer(s, r)
  PROVE  replies'[Me] = IF s = Me /\ conn[Me] = "open" THEN replies[Me] \cup {r} ELSE replies[Me]
BY MeIsASession DEF Answer, Shapes

(* user.rs: another answer is no welcome.                                  *)
LEMMA AnotherAnswer ==
  ASSUME Shapes, NEW s \in Sessions, NEW r, Answer(s, r), r.type # "Welcome"
  PROVE  SameWelcome
<1>1. replies'[Me] = replies[Me] \cup {r} \/ replies'[Me] = replies[Me]
  BY AnswerToMe
<1> QED
  BY <1>1 DEF SameWelcome

(* server.rs: Server::handle for UserData.                                 *)
LEMMA UserDataForMe ==
  ASSUME ChatInv, HandleUserData, Head(serverBox).sid = Me => users[Me] = NoNick
  PROVE  Silent \/ (\E m : Told(m)) \/ LetMeIn
<1> USE MeIsASession DEF ChatInv, ServerInv
<1> DEFINE m == Head(serverBox)
           t == UserJoined(m.sid, m.nick)
<1>1. m.sid \in Sessions /\ m.nick \in Nicks
  <2>1. m \in ServerInbox /\ m.type = "UserData"
    BY HandlingTakes DEF HandleUserData
  <2> QED
    BY <2>1, Messages
<1>2. UNCHANGED conn
  BY DEF HandleUserData, connVars
<1>3. CASE ~ValidateNick(users, m.nick)
  <2>1. Answer(m.sid, Refused) /\ UNCHANGED <<users, out>>
    BY <1>3 DEF HandleUserData
  <2>2. SameWelcome
    BY <1>1, <2>1, AnotherAnswer DEF Refused
  <2> QED
    BY <2>1, <2>2 DEF Silent
<1>4. CASE ValidateNick(users, m.nick)
  <2>1. /\ Broadcast(users, t)
        /\ users' = [users EXCEPT ![m.sid] = m.nick]
        /\ Answer(m.sid, Welcome(users'))
    BY <1>4 DEF HandleUserData, UsersNow
  <2>2. \A r \in Sessions : users'[r] = IF r = m.sid THEN m.nick ELSE users[r]
    BY <1>1, <2>1, UsersAre
  <2>3. m.nick \in Entries /\ m.nick # NoNick /\ NoNick \in Entries
    BY <1>1, UsersAre
  <2>4. out'[Me] = IF users[Me] # NoNick /\ conn[Me] = "open" THEN Append(out[Me], t) ELSE out[Me]
    BY <2>1, BroadcastToMe
  <2>5. replies'[Me] = IF m.sid = Me /\ conn[Me] = "open"
                       THEN replies[Me] \cup {Welcome(users')} ELSE replies[Me]
    BY <1>1, <2>1, AnswerToMe
  <2>6. CASE conn[Me] # "open"
    BY <2>4, <2>5, <2>6 DEF Silent, SameWelcome
  <2>7. CASE conn[Me] = "open" /\ users[Me] = NoNick /\ m.sid = Me
    BY <1>1, <2>2, <2>3, <2>4, <2>5, <2>7 DEF LetMeIn
  <2>8. CASE conn[Me] = "open" /\ users[Me] = NoNick /\ m.sid # Me
    BY <1>1, <2>2, <2>4, <2>5, <2>8 DEF Silent, SameWelcome
  <2>9. CASE conn[Me] = "open" /\ users[Me] # NoNick /\ m.sid # Me
    <3>1. t \in ServerMsgs
      BY <1>1, Broadcasts
    <3>2. ASSUME NEW s \in Sessions, NEW d \in Entries, Agrees(s, d)
          PROVE  \E e \in Entries : Turns(t, s, NoNick, FALSE, d, e) /\ Agrees(s, e)'
      <4>1. CASE s = m.sid
        <5>1. Turns(t, s, NoNick, FALSE, d, m.nick)
          BY <4>1 DEF Turns, UserJoined
        <5> QED
          BY <2>2, <2>3, <2>9, <4>1, <5>1 DEF Agrees
      <4>2. CASE s # m.sid
        <5>1. Turns(t, s, NoNick, FALSE, d, d)
          BY <4>2 DEF Turns, UserJoined
        <5>2. Agrees(s, d)'
          BY <2>2, <3>2, <4>2 DEF Agrees
        <5> QED
          BY <5>1, <5>2
      <4> QED
        BY <4>1, <4>2
    <3>3. users'[Me] # NoNick
      BY <2>2, <2>9
    <3>4. SameWelcome
      BY <2>5, <2>9 DEF SameWelcome
    <3> QED
      BY <2>4, <2>9, <3>1, <3>2, <3>3, <3>4 DEF Told
  <2> QED
    BY <2>6, <2>7, <2>8, <2>9
<1> QED
  BY <1>3, <1>4

(* server.rs: ... for ChangeNick.                                          *)
LEMMA ChangeNickForMe ==
  ASSUME ChatInv, HandleChangeNick
  PROVE  Silent \/ \E m : Told(m)
<1> USE MeIsASession DEF ChatInv, ServerInv
<1> DEFINE m == Head(serverBox)
           t == NickChanged(m.sid, m.nick)
           others == [users EXCEPT ![m.sid] = NoNick]
<1>1. m.sid \in Sessions /\ m.nick \in Nicks
  <2>1. m \in ServerInbox /\ m.type = "ChangeNick"
    BY HandlingTakes DEF HandleChangeNick
  <2> QED
    BY <2>1, Messages
<1>2. CASE users[m.sid] = NoNick
  BY <1>2 DEF HandleChangeNick, Silent, SameWelcome
<1>3. CASE users[m.sid] # NoNick /\ ~(m.nick # users[m.sid] /\ ValidateNick(others, m.nick))
  <2>1. Answer(m.sid, NickAnswer(FALSE)) /\ UNCHANGED <<users, out>>
    BY <1>3 DEF HandleChangeNick
  <2>2. SameWelcome
    BY <1>1, <2>1, AnotherAnswer DEF NickAnswer
  <2> QED
    BY <2>1, <2>2 DEF Silent
<1>4. CASE users[m.sid] # NoNick /\ m.nick # users[m.sid] /\ ValidateNick(others, m.nick)
  <2>1. /\ Broadcast(others, t)
        /\ users' = [users EXCEPT ![m.sid] = m.nick]
        /\ Answer(m.sid, NickAnswer(TRUE))
    BY <1>4 DEF HandleChangeNick
  <2>2. \A r \in Sessions : users'[r] = IF r = m.sid THEN m.nick ELSE users[r]
    BY <1>1, <2>1, UsersAre
  <2>3. m.nick \in Entries /\ m.nick # NoNick /\ NoNick \in Entries
    BY <1>1, UsersAre
  <2>4. out'[Me] = IF others[Me] # NoNick /\ conn[Me] = "open" THEN Append(out[Me], t) ELSE out[Me]
    BY <2>1, BroadcastToMe
  <2>5. SameWelcome
    BY <1>1, <2>1, AnotherAnswer DEF NickAnswer
  <2>6. others[Me] = IF Me = m.sid THEN NoNick ELSE users[Me]
    BY UsersAre
  <2>7. CASE conn[Me] # "open" \/ users[Me] = NoNick \/ m.sid = Me
    BY <1>1, <1>4, <2>2, <2>3, <2>4, <2>5, <2>6, <2>7 DEF Silent
  <2>8. CASE conn[Me] = "open" /\ users[Me] # NoNick /\ m.sid # Me
    <3>1. t \in ServerMsgs
      BY <1>1, Broadcasts
    <3>2. ASSUME NEW s \in Sessions, NEW d \in Entries, Agrees(s, d)
          PROVE  \E e \in Entries : Turns(t, s, NoNick, FALSE, d, e) /\ Agrees(s, e)'
      <4>1. CASE s = m.sid
        <5>1. d # NoNick
          BY <1>4, <2>8, <3>2, <4>1 DEF Agrees
        <5>2. Turns(t, s, NoNick, FALSE, d, m.nick)
          BY <4>1, <5>1 DEF Turns, NickChanged
        <5> QED
          BY <2>2, <2>3, <2>8, <4>1, <5>2 DEF Agrees
      <4>2. CASE s # m.sid
        <5>1. Turns(t, s, NoNick, FALSE, d, d)
          BY <4>2 DEF Turns, NickChanged
        <5>2. Agrees(s, d)'
          BY <2>2, <3>2, <4>2 DEF Agrees
        <5> QED
          BY <5>1, <5>2
      <4> QED
        BY <4>1, <4>2
    <3>3. users'[Me] # NoNick
      BY <2>2, <2>8
    <3> QED
      BY <2>4, <2>5, <2>6, <2>8, <3>1, <3>2, <3>3 DEF Told
  <2> QED
    BY <2>7, <2>8
<1> QED
  BY <1>2, <1>3, <1>4

(* server.rs: ... for NewChatMsg.                                          *)
LEMMA ChatMsgForMe ==
  ASSUME ChatInv, HandleChatMsgIn
  PROVE  Silent \/ \E m : Told(m)
<1> USE MeIsASession DEF ChatInv, ServerInv
<1> DEFINE t == ChatMsg(Head(serverBox).sid)
<1>1. t \in ServerMsgs
  BY NoteTaken, Broadcasts DEF HandleChatMsgIn, userVars
<1>2. out'[Me] = IF users[Me] # NoNick /\ conn[Me] = "open" THEN Append(out[Me], t) ELSE out[Me]
  BY BroadcastToMe DEF HandleChatMsgIn
<1>3. UNCHANGED <<users, replies>> /\ SameWelcome
  BY DEF HandleChatMsgIn, SameWelcome
<1>4. ASSUME NEW s \in Sessions, NEW d \in Entries, Agrees(s, d)
      PROVE  \E e \in Entries : Turns(t, s, NoNick, FALSE, d, e) /\ Agrees(s, e)'
  <2>1. Turns(t, s, NoNick, FALSE, d, d)
    BY DEF Turns, ChatMsg
  <2>2. Agrees(s, d)'
    BY <1>3, <1>4 DEF Agrees
  <2> QED
    BY <2>1, <2>2
<1> QED
  BY <1>1, <1>2, <1>3, <1>4 DEF Silent, Told

(* server.rs: ... for ConnectionClosed.                                    *)
LEMMA ConnectionClosedForMe ==
  ASSUME ChatInv, EnteredInv, HandleConnectionClosed
  PROVE  Silent \/ \E m : Told(m)
<1> USE MeIsASession DEF ChatInv, ServerInv
<1> DEFINE r == Head(serverBox).sid
           t == UserLeft(r, users[r] # NoNick)
           others == [users EXCEPT ![r] = NoNick]
<1>1. r \in Sessions
  BY NoteTaken DEF HandleConnectionClosed, userVars
<1>2. conn[r] = "shut"
  <2>1. /\ Head(serverBox) = serverBox[1] /\ 1 \in DOMAIN serverBox
        /\ Head(serverBox).type = "ConnectionClosed"
    BY TakenFrom DEF HandleConnectionClosed, Handling, Shapes
  <2> QED
    BY <2>1 DEF EnteredInv
<1>3. users' = others /\ Broadcast(others, t) /\ UNCHANGED replies
  BY DEF HandleConnectionClosed
<1>4. \A s \in Sessions : others[s] = IF s = r THEN NoNick ELSE users[s]
  BY <1>1, UsersAre
<1>5. out'[Me] = IF others[Me] # NoNick /\ conn[Me] = "open" THEN Append(out[Me], t) ELSE out[Me]
  BY <1>3, BroadcastToMe
<1>6. SameWelcome
  BY <1>3 DEF SameWelcome
<1>7. CASE conn[Me] # "open" \/ users[Me] = NoNick
  BY <1>3, <1>4, <1>5, <1>6, <1>7 DEF Silent
<1>8. CASE conn[Me] = "open" /\ users[Me] # NoNick
  <2>1. t \in ServerMsgs
    BY <1>1, Broadcasts
  <2>2. r # Me
    BY <1>2, <1>8
  <2>3. ASSUME NEW s \in Sessions, NEW d \in Entries, Agrees(s, d)
        PROVE  \E e \in Entries : Turns(t, s, NoNick, FALSE, d, e) /\ Agrees(s, e)'
    <3>1. CASE s = r
      <4>1. d = users[r]
        BY <2>2, <2>3, <3>1 DEF Agrees
      <4>2. Turns(t, s, NoNick, FALSE, d, NoNick)
        BY <3>1, <4>1 DEF Turns, UserLeft
      <4> QED
        BY <1>3, <1>4, <2>2, <3>1, <4>2, UsersAre DEF Agrees
    <3>2. CASE s # r
      <4>1. Turns(t, s, NoNick, FALSE, d, d)
        BY <3>2 DEF Turns, UserLeft
      <4>2. Agrees(s, d)'
        BY <1>3, <1>4, <2>3, <3>2 DEF Agrees
      <4> QED
        BY <4>1, <4>2
    <3> QED
      BY <3>1, <3>2
  <2>4. others[Me] # NoNick
    BY <1>4, <1>8, <2>2
  <2> QED
    BY <1>3, <1>5, <1>6, <1>8, <2>1, <2>3, <2>4 DEF Told
<1> QED
  BY <1>7, <1>8

-----------------------------------------------------------------------------
(* The page asks to join once, and for one nick after the other: of what   *)
(* it asks, with type t, the call of type u its User makes of it and the   *)
(* answers of types T there is one at a time.                              *)
AskOf(t)        == \E a \in asks[Me] : a.type = t
BoxOf(u)        == \E i \in DOMAIN serverBox : serverBox[i].type = u /\ serverBox[i].sid = Me
ReplyOf(T)      == \E r \in replies[Me] : r.type \in T
Asked(t, u)     == AskOf(t) \/ BoxOf(u)
Awaits(t, u, T) == Asked(t, u) \/ ReplyOf(T) \/ MsgsIn(out[Me], T)

OneRound(t, u, T) ==
  /\ \A a, b \in asks[Me] : a.type = t /\ b.type = t => a = b
  /\ AskOf(t) => ~BoxOf(u)
  /\ Asked(t, u) => ~ReplyOf(T) /\ ~MsgsIn(out[Me], T)
  /\ ReplyOf(T) => ~MsgsIn(out[Me], T)
  /\ \A r, x \in replies[Me] : r.type \in T /\ x.type \in T => r = x
  /\ Once(out[Me], T)

IsRound(t, u, T) == \/ t = "Join" /\ u = "UserData" /\ T = {"Welcome", "Refused"}
                    \/ t = "SetNick" /\ u = "ChangeNick" /\ T = {"NickAnswer"}

(* While User::addr is Some, or the join of the page is in the mailbox of  *)
(* the server, it is no user.                                              *)
JoinsOnce == /\ mayJoin[Me] \/ BoxOf("UserData") => users[Me] = NoNick
             /\ BoxOf("UserData") => ~mayJoin[Me]

(* server.rs: whoever takes a message of its mailbox adds none to it.      *)
LEMMA CallTaken ==
  ASSUME Shapes, NEW t, Handling(t), NEW u
  PROVE  BoxOf(u)' => BoxOf(u)
BY BoxShrinks DEF BoxOf

(* user.rs: a User sends a call at a time.                                 *)
LEMMA CallNotAdded ==
  ASSUME Shapes, NEW m \in ServerInbox, serverBox' = Append(serverBox, m), NEW u,
         ~(m.type = u /\ m.sid = Me)
  PROVE  BoxOf(u)' => BoxOf(u)
BY BoxGrows DEF BoxOf

(* server.rs: the call of the page is the only one in the mailbox.         *)
LEMMA CallHandled ==
  ASSUME ServerInv, NEW u \in {"UserData", "ChangeNick"}, Handling(u), Head(serverBox).sid = Me
  PROVE  BoxOf(u) /\ ~BoxOf(u)'
<1>1. /\ Head(serverBox) \in ServerInbox /\ Head(serverBox).type = u
      /\ Head(serverBox) \in Calls => \A s \in Sessions : InBox(s)' <=> InBox(s) /\ s # Head(serverBox).sid
      /\ serverBox' \in Seq(ServerInbox)
  BY HandlingTakes DEF ServerInv
<1>2. Head(serverBox) = serverBox[1] /\ 1 \in DOMAIN serverBox
  BY TakenFrom DEF Handling, ServerInv, Shapes
<1>3. ~InBox(Me)'
  BY <1>1, Messages, MeIsASession
<1>4. ASSUME BoxOf(u)' PROVE InBox(Me)'
  <2>1. PICK i \in DOMAIN serverBox' : serverBox'[i].type = u /\ serverBox'[i].sid = Me
    BY <1>4 DEF BoxOf
  <2>2. serverBox'[i] \in ServerInbox
    BY <1>1
  <2> QED
    BY <2>1, <2>2, Messages DEF InBox
<1> QED
  BY <1>1, <1>2, <1>3, <1>4 DEF BoxOf

(* What a step of the server means to the page.                            *)
LEMMA ServerForMe ==
  ASSUME ChatInv, EnteredInv, JoinsOnce, ServerStep
  PROVE  UNCHANGED conn /\ (Silent \/ (\E m : Told(m)) \/ LetMeIn \/ \E r : AnswersMe(r))
<1> USE MeIsASession DEF connVars, userVars, clientVars
<1>1. CASE HandleUserData
  <2>1. Head(serverBox).sid = Me => users[Me] = NoNick
    BY <1>1, CallHandled DEF HandleUserData, ChatInv, JoinsOnce
  <2> QED
    BY <1>1, <2>1, UserDataForMe DEF HandleUserData
<1>2. CASE HandleChangeNick
  BY <1>2, ChangeNickForMe DEF HandleChangeNick
<1>3. CASE HandleChatMsgIn
  BY <1>3, ChatMsgForMe DEF HandleChatMsgIn
<1>4. CASE HandleConnectionClosed
  BY <1>4, ConnectionClosedForMe DEF HandleConnectionClosed
<1>5. ASSUME NEW s \in Sessions, Report(s) PROVE UNCHANGED conn /\ Silent
  BY <1>5 DEF Report, Silent, SameWelcome
<1>6. ASSUME NEW s \in Sessions, NEW a \in asks[s], UserSetsNick(s, a) \/ UserTalks(s, a)
      PROVE  UNCHANGED conn /\ Silent
  BY <1>6 DEF UserSetsNick, UserTalks, Silent, SameWelcome
<1>7. ASSUME NEW s \in Sessions, NEW a \in asks[s], UserJoins(s, a) PROVE UNCHANGED conn /\ Silent
  <2>1. UNCHANGED <<conn, users, out>>
    BY <1>7 DEF UserJoins
  <2>2. SameWelcome
    <3>1. CASE mayJoin[s]
      BY <1>7, <3>1 DEF UserJoins, SameWelcome
    <3>2. CASE ~mayJoin[s]
      <4>1. Answer(s, Refused) /\ Refused.type # "Welcome"
        BY <1>7, <3>2 DEF UserJoins, Refused
      <4> QED
        BY <4>1, AnotherAnswer DEF ChatInv, ServerInv
    <3> QED
      BY <3>1, <3>2
  <2> QED
    BY <2>1, <2>2 DEF Silent
<1>8. ASSUME NEW s \in Sessions, NEW r \in replies[s], ReplyArrives(s, r)
      PROVE  UNCHANGED conn /\ (Silent \/ AnswersMe(r))
  <2>1. UNCHANGED <<conn, users>>
    BY <1>8 DEF ReplyArrives
  <2>2. CASE s = Me
    BY <1>8, <2>1, <2>2 DEF ReplyArrives, AnswersMe, ChatInv, ServerInv, Shapes
  <2>3. CASE s # Me
    BY <1>8, <2>1, <2>3 DEF ReplyArrives, Silent, SameWelcome, ChatInv, ServerInv, Shapes
  <2> QED
    BY <2>1, <2>2, <2>3
<1> QED
  BY <1>1, <1>2, <1>3, <1>4, <1>5, <1>6, <1>7, <1>8 DEF ServerStep

(* user.rs, server.rs: User::addr is taken before the server is called.    *)
LEMMA JoinsOnceStep == ASSUME ChatInv, JoinsOnce, [Next]_vars PROVE JoinsOnce'
<1> USE MeIsASession DEF ChatInv, ServerInv, connVars, userVars, clientVars
<1>1. ASSUME UNCHANGED <<mayJoin, users, serverBox>> PROVE JoinsOnce'
  BY <1>1 DEF JoinsOnce, BoxOf
<1>2. CASE HandleUserData
  <2> DEFINE m == Head(serverBox)
  <2>1. UNCHANGED mayJoin /\ (BoxOf("UserData")' => BoxOf("UserData"))
    BY <1>2, CallTaken DEF HandleUserData
  <2>2. m.sid \in Sessions
    BY <1>2, HandlingTakes, Messages DEF HandleUserData
  <2>3. users' = users \/ users' = [users EXCEPT ![m.sid] = m.nick]
    BY <1>2 DEF HandleUserData
  <2>4. m.sid # Me => users'[Me] = users[Me]
    BY <2>2, <2>3, UsersAre
  <2>5. m.sid = Me => BoxOf("UserData") /\ ~BoxOf("UserData")'
    BY <1>2, CallHandled DEF HandleUserData
  <2> QED
    BY <2>1, <2>4, <2>5 DEF JoinsOnce
<1>3. CASE HandleChangeNick \/ HandleConnectionClosed
  <2> DEFINE m == Head(serverBox)
  <2>1. UNCHANGED mayJoin /\ (BoxOf("UserData")' => BoxOf("UserData"))
    BY <1>3, CallTaken DEF HandleChangeNick, HandleConnectionClosed
  <2>2. users[Me] = NoNick => users'[Me] = NoNick
    <3>1. CASE HandleChangeNick
      <4>1. m.sid \in Sessions
        BY <3>1, HandlingTakes, Messages DEF HandleChangeNick
      <4>2. users' = users \/ (users[m.sid] # NoNick /\ users' = [users EXCEPT ![m.sid] = m.nick])
        BY <3>1 DEF HandleChangeNick
      <4> QED
        BY <4>1, <4>2, UsersAre
    <3>2. CASE HandleConnectionClosed
      <4>1. m.sid \in Sessions
        BY <3>2, HandlingTakes, Messages DEF HandleConnectionClosed
      <4> QED
        BY <3>2, <4>1, UsersAre DEF HandleConnectionClosed
    <3> QED
      BY <1>3, <3>1, <3>2
  <2> QED
    BY <2>1, <2>2 DEF JoinsOnce
<1>4. CASE HandleChatMsgIn
  BY <1>4, CallTaken DEF HandleChatMsgIn, JoinsOnce
<1>5. ASSUME NEW s \in Sessions, Report(s) PROVE JoinsOnce'
  BY <1>5, CallNotAdded, Messages DEF Report, JoinsOnce, ConnectionClosed
<1>6. ASSUME NEW s \in Sessions, NEW a \in asks[s], UserSetsNick(s, a) \/ UserTalks(s, a)
      PROVE  JoinsOnce'
  <2>1. a \in Asks
    BY DEF Shapes
  <2>2. CASE UserSetsNick(s, a)
    <3>1. ChangeNick(s, a.nick) \in ServerInbox /\ ChangeNick(s, a.nick).type # "UserData"
      BY <2>1, <2>2, Messages DEF UserSetsNick, ChangeNick
    <3> QED
      BY <2>2, <3>1, CallNotAdded DEF UserSetsNick, JoinsOnce
  <2>3. CASE UserTalks(s, a)
    <3>1. ChatMsgIn(s) \in ServerInbox /\ ChatMsgIn(s).type # "UserData"
      BY Messages DEF ChatMsgIn
    <3> QED
      BY <2>3, <3>1, CallNotAdded DEF UserTalks, JoinsOnce
  <2> QED
    BY <1>6, <2>2, <2>3
<1>7. ASSUME NEW s \in Sessions, NEW a \in asks[s], UserJoins(s, a) PROVE JoinsOnce'
  <2>1. a \in Asks /\ a.nick \in Nicks
    BY <1>7, Messages DEF Shapes, UserJoins
  <2>2. UNCHANGED users
    BY <1>7 DEF UserJoins
  <2>3. CASE mayJoin[s]
    <3>1. /\ mayJoin' = [mayJoin EXCEPT ![s] = FALSE]
          /\ serverBox' = Append(serverBox, UserData(s, a.nick))
      BY <1>7, <2>3 DEF UserJoins
    <3>2. UserData(s, a.nick) \in ServerInbox /\ UserData(s, a.nick).sid = s
      BY <2>1, Messages
    <3>3. s # Me => (BoxOf("UserData")' => BoxOf("UserData"))
      BY <3>1, <3>2, CallNotAdded
    <3>4. mayJoin'[Me] = IF s = Me THEN FALSE ELSE mayJoin[Me]
      BY <3>1 DEF Shapes
    <3> QED
      BY <2>2, <2>3, <3>3, <3>4 DEF JoinsOnce
  <2>4. CASE ~mayJoin[s]
    BY <1>1, <1>7, <2>2, <2>4 DEF UserJoins
  <2> QED
    BY <2>3, <2>4
<1>8. ASSUME NEW s \in Sessions, NEW r, ReplyArrives(s, r) PROVE JoinsOnce'
  BY <1>1, <1>8 DEF ReplyArrives
<1>9. CASE ServerStep
  BY <1>2, <1>3, <1>4, <1>5, <1>6, <1>7, <1>8, <1>9 DEF ServerStep
<1>10. ASSUME PageStep PROVE UNCHANGED <<mayJoin, users, serverBox>>
  <2>1. CASE AppDisconnects
    BY <2>1 DEF AppDisconnects, PeerCloses, serverVars
  <2>2. CASE \E s \in Watched : Read(s)
    BY <2>2 DEF Read
  <2> QED
    BY <1>10, <2>1, <2>2
       DEF PageStep, FormConnects, CallCancelled, AppConnects, AppFills, AppLinks, AppUserJoined,
           AppUserLeft, AppTellsWindow, AppNickChanged, AppRenames, AppChatMsg, AppAsks, ListStep,
           WindowStep, serverVars
<1>11. ASSUME Visit PROVE UNCHANGED <<mayJoin, users, serverBox>>
  BY <1>11 DEF Visit, SubmitConnect, ChatSubmit
<1>12. ASSUME NEW s \in Sessions, PeerCloses(s) \/ ClientStep(s)
       PROVE  UNCHANGED <<mayJoin, users, serverBox>>
  BY <1>12 DEF PeerCloses, ClientStep, ClientAsks
<1>13. CASE UNCHANGED vars
  BY <1>1, <1>13 DEF vars, serverVars
<1> QED
  BY <1>1, <1>9, <1>10, <1>11, <1>12, <1>13 DEF Next

(* chat_client, user.rs: what adds nothing to a round keeps it.            *)
LEMMA RoundLess ==
  ASSUME NEW t, NEW u, NEW T, OneRound(t, u, T),
         \A a \in asks'[Me] : a.type = t => a \in asks[Me],
         BoxOf(u)' => BoxOf(u),
         \A r \in replies'[Me] : r.type \in T => r \in replies[Me],
         MsgsIn(out'[Me], T) => MsgsIn(out[Me], T),
         Once(out[Me], T) => Once(out'[Me], T)
  PROVE  OneRound(t, u, T)' /\ (Awaits(t, u, T)' => Awaits(t, u, T))
<1>1. AskOf(t)' => AskOf(t)
  BY DEF AskOf
<1>2. ReplyOf(T)' => ReplyOf(T)
  BY DEF ReplyOf
<1>3. Asked(t, u)' => Asked(t, u)
  BY <1>1 DEF Asked
<1>4. Awaits(t, u, T)' => Awaits(t, u, T)
  BY <1>2, <1>3 DEF Awaits
<1> QED
  BY <1>1, <1>2, <1>3, <1>4 DEF OneRound

(* server.rs, user.rs: what the page has asked is answered.                *)
LEMMA RoundAnswered ==
  ASSUME NEW t, NEW u, NEW T, OneRound(t, u, T), Asked(t, u), ~Asked(t, u)',
         NEW r, replies'[Me] \subseteq replies[Me] \cup {r},
         MsgsIn(out'[Me], T) => MsgsIn(out[Me], T),
         Once(out[Me], T) => Once(out'[Me], T)
  PROVE  OneRound(t, u, T)' /\ (Awaits(t, u, T)' => Awaits(t, u, T))
<1>1. ~ReplyOf(T) /\ ~MsgsIn(out[Me], T) /\ ~MsgsIn(out'[Me], T)
  BY DEF OneRound
<1>2. \A x \in replies'[Me] : x.type \in T => x = r
  BY <1>1 DEF ReplyOf
<1>3. ~AskOf(t)' /\ \A a, b \in asks'[Me] : ~(a.type = t /\ b.type = t)
  BY DEF Asked, AskOf
<1> QED
  BY <1>1, <1>2, <1>3 DEF OneRound, Awaits

(* server.rs: what else is sent to the page is no answer.                  *)
LEMMA SentNoAnswer ==
  ASSUME Shapes, NEW m \in ServerMsgs \cup Replies, out'[Me] = out[Me] \/ out'[Me] = Append(out[Me], m),
         NEW T, m.type \notin T
  PROVE  /\ MsgsIn(out'[Me], T) => MsgsIn(out[Me], T)
         /\ Once(out[Me], T) => Once(out'[Me], T)
<1>1. out[Me] \in Seq(ServerMsgs \cup Replies)
  BY MeIsASession DEF Shapes
<1>2. CASE out'[Me] = out[Me]
  BY <1>2
<1>3. CASE out'[Me] = Append(out[Me], m)
  BY <1>1, <1>3, MsgsOfMore
<1> QED
  BY <1>2, <1>3

(* server.rs: a broadcast is no answer.                                    *)
LEMMA NewsIsNoAnswer ==
  ASSUME Shapes, NEW us, NEW m \in ServerMsgs, Broadcast(us, m), NEW t, NEW u, NEW T, IsRound(t, u, T)
  PROVE  /\ MsgsIn(out'[Me], T) => MsgsIn(out[Me], T)
         /\ Once(out[Me], T) => Once(out'[Me], T)
<1>1. m \in ServerMsgs \cup Replies /\ m.type \notin T
  BY PageMessages DEF IsRound
<1> QED
  BY <1>1, BroadcastToMe, SentNoAnswer

(* server.rs, user.rs: each step of the server.                            *)
LEMMA RoundServer ==
  ASSUME ChatInv, ServerStep, NEW t, NEW u, NEW T, IsRound(t, u, T), OneRound(t, u, T)
  PROVE  OneRound(t, u, T)' /\ (Awaits(t, u, T)' => Awaits(t, u, T))
<1> DEFINE Goal == OneRound(t, u, T)' /\ (Awaits(t, u, T)' => Awaits(t, u, T))
<1> USE MeIsASession DEF ChatInv, ServerInv, connVars, userVars, clientVars
<1>1. CASE HandleUserData \/ HandleChangeNick
  <2> DEFINE m == Head(serverBox)
             v == m.type
  <2>1. /\ m.sid \in Sessions /\ m.nick \in Nicks /\ v \in {"UserData", "ChangeNick"} /\ Handling(v)
        /\ HandleUserData => v = "UserData"
        /\ HandleChangeNick => v = "ChangeNick"
    <3>1. \E w \in {"UserData", "ChangeNick"} : /\ Handling(w)
                                                /\ HandleUserData => w = "UserData"
                                                /\ HandleChangeNick => w = "ChangeNick"
      BY <1>1 DEF HandleUserData, HandleChangeNick, Handling
    <3>2. m \in ServerInbox
      BY <3>1, HandlingTakes
    <3> QED
      BY <3>1, <3>2, Messages DEF Handling
  <2>2. PICK r \in Replies :
             /\ replies'[Me] = replies[Me] \/ (m.sid = Me /\ replies'[Me] = replies[Me] \cup {r})
             /\ r.type \in T => v = u
    <3>1. CASE HandleUserData
      <4>1. Refused \in Replies /\ (Refused.type \in T => v = u)
        BY <2>1, <3>1, Broadcasts DEF IsRound, Refused
      <4>2. [users EXCEPT ![m.sid] = m.nick] \in UserMaps
        BY <2>1 DEF Shapes, UserMaps
      <4>3. ASSUME NEW us \in UserMaps PROVE Welcome(us) \in Replies /\ (Welcome(us).type \in T => v = u)
        BY <2>1, <3>1, Broadcasts DEF IsRound, Welcome
      <4>4. \E r \in Replies : Answer(m.sid, r) /\ (r.type \in T => v = u)
        BY <3>1, <4>1, <4>2, <4>3 DEF HandleUserData, UsersNow
      <4> QED
        BY <2>1, <4>4, AnswerToMe
    <3>2. CASE HandleChangeNick
      <4>1. \A b \in BOOLEAN : NickAnswer(b) \in Replies /\ (NickAnswer(b).type \in T => v = u)
        BY <2>1, <3>2, Broadcasts DEF IsRound, NickAnswer
      <4>2. UNCHANGED replies \/ \E b \in BOOLEAN : Answer(m.sid, NickAnswer(b))
        BY <3>2 DEF HandleChangeNick
      <4>3. \E r \in Replies : (UNCHANGED replies \/ Answer(m.sid, r)) /\ (r.type \in T => v = u)
        BY <4>1, <4>2
      <4> QED
        BY <2>1, <4>3, AnswerToMe
    <3> QED
      BY <1>1, <3>1, <3>2
  <2>3. MsgsIn(out'[Me], T) => MsgsIn(out[Me], T)
    <3>1. out' = out \/ \E us : \E n \in ServerMsgs : Broadcast(us, n)
      BY <1>1, <2>1, Broadcasts DEF HandleUserData, HandleChangeNick
    <3> QED
      BY <3>1, NewsIsNoAnswer
  <2>4. Once(out[Me], T) => Once(out'[Me], T)
    <3>1. out' = out \/ \E us : \E n \in ServerMsgs : Broadcast(us, n)
      BY <1>1, <2>1, Broadcasts DEF HandleUserData, HandleChangeNick
    <3> QED
      BY <3>1, NewsIsNoAnswer
  <2>5. UNCHANGED asks /\ (BoxOf(u)' => BoxOf(u))
    BY <1>1, <2>1, CallTaken DEF HandleUserData, HandleChangeNick
  <2>6. CASE m.sid = Me /\ v = u
    <3>1. BoxOf(u) /\ ~BoxOf(u)'
      BY <2>1, <2>6, CallHandled
    <3>2. ~AskOf(t)
      BY <3>1 DEF OneRound
    <3>3. Asked(t, u) /\ ~Asked(t, u)'
      BY <2>5, <3>1, <3>2 DEF Asked, AskOf
    <3> QED
      BY <2>2, <2>3, <2>4, <3>3, RoundAnswered
  <2>7. CASE m.sid # Me \/ v # u
    BY <2>2, <2>3, <2>4, <2>5, <2>7, RoundLess
  <2> QED
    BY <2>6, <2>7
<1>2. CASE HandleChatMsgIn \/ HandleConnectionClosed
  <2>1. \E us : \E n \in ServerMsgs : Broadcast(us, n)
    <3>1. Head(serverBox).sid \in Sessions
      BY <1>2, NoteTaken DEF HandleChatMsgIn, HandleConnectionClosed
    <3> QED
      BY <1>2, <3>1, Broadcasts DEF HandleChatMsgIn, HandleConnectionClosed
  <2>2. (MsgsIn(out'[Me], T) => MsgsIn(out[Me], T)) /\ (Once(out[Me], T) => Once(out'[Me], T))
    BY <2>1, NewsIsNoAnswer
  <2>3. UNCHANGED <<asks, replies>> /\ (BoxOf(u)' => BoxOf(u))
    BY <1>2, CallTaken DEF HandleChatMsgIn, HandleConnectionClosed
  <2> QED
    BY <2>2, <2>3, RoundLess
<1>3. ASSUME NEW s \in Sessions, Report(s) PROVE Goal
  <2>1. ConnectionClosed(s) \in ServerInbox /\ ConnectionClosed(s).type # u
    BY Messages DEF ConnectionClosed, IsRound
  <2> QED
    BY <1>3, <2>1, CallNotAdded, RoundLess DEF Report
<1>4. ASSUME NEW s \in Sessions, NEW a \in asks[s], UserJoins(s, a) \/ UserSetsNick(s, a) \/ UserTalks(s, a)
      PROVE  Goal
  <2>1. /\ a \in Asks /\ UNCHANGED out
        /\ asks'[Me] = IF s = Me THEN asks[Me] \ {a} ELSE asks[Me]
    BY <1>4 DEF UserJoins, UserSetsNick, UserTalks, Take, Shapes
  <2>2. \/ UNCHANGED replies /\ \E n \in ServerInbox : /\ serverBox' = Append(serverBox, n) /\ n.sid = s
                                                       /\ n.type = u => a.type = t
        \/ /\ UNCHANGED serverBox /\ Answer(s, Refused)
           /\ a.type = "Join"
    <3>1. CASE UserJoins(s, a)
      <4>1. UserData(s, a.nick) \in ServerInbox /\ UserData(s, a.nick).sid = s
        BY <2>1, <3>1, Messages DEF UserJoins
      <4>2. UserData(s, a.nick).type = u => a.type = t
        BY <3>1 DEF UserJoins, UserData, IsRound
      <4> QED
        BY <3>1, <4>1, <4>2 DEF UserJoins
    <3>2. CASE UserSetsNick(s, a)
      <4>1. ChangeNick(s, a.nick) \in ServerInbox /\ ChangeNick(s, a.nick).sid = s
        BY <2>1, <3>2, Messages DEF UserSetsNick
      <4>2. ChangeNick(s, a.nick).type = u => a.type = t
        BY <3>2 DEF UserSetsNick, ChangeNick, IsRound
      <4> QED
        BY <3>2, <4>1, <4>2 DEF UserSetsNick
    <3>3. CASE UserTalks(s, a)
      <4>1. ChatMsgIn(s) \in ServerInbox /\ ChatMsgIn(s).sid = s /\ ChatMsgIn(s).type # u
        BY Messages DEF ChatMsgIn, IsRound
      <4> QED
        BY <3>3, <4>1 DEF UserTalks
    <3> QED
      BY <1>4, <3>1, <3>2, <3>3
  <2>3. CASE s # Me
    <3>1. BoxOf(u)' => BoxOf(u)
      BY <2>2, <2>3, CallNotAdded DEF BoxOf
    <3>2. replies'[Me] = replies[Me]
      BY <2>2, <2>3, AnswerToMe
    <3> QED
      BY <2>1, <2>3, <3>1, <3>2, RoundLess
  <2>4. CASE s = Me /\ a.type # t
    <3>1. BoxOf(u)' => BoxOf(u)
      BY <2>2, <2>4, CallNotAdded DEF BoxOf
    <3>2. replies'[Me] = replies[Me] \/ (replies'[Me] = replies[Me] \cup {Refused} /\ a.type = "Join")
      BY <2>2, <2>4, AnswerToMe
    <3>3. a.type = "Join" => Refused.type \notin T
      BY <2>4 DEF IsRound, Refused
    <3> QED
      BY <2>1, <2>4, <3>1, <3>2, <3>3, RoundLess
  <2>5. CASE s = Me /\ a.type = t
    <3>1. AskOf(t) /\ Asked(t, u) /\ Awaits(t, u, T)
      BY <2>5 DEF AskOf, Asked, Awaits
    <3>2. \A b \in asks'[Me] : b.type # t
      BY <2>1, <2>5 DEF OneRound
    <3>3. ~AskOf(t)' /\ ~BoxOf(u)
      BY <3>1, <3>2 DEF AskOf, OneRound
    <3>4. CASE UNCHANGED replies
      <4>1. ~ReplyOf(T)' /\ ~MsgsIn(out'[Me], T) /\ Once(out'[Me], T)
        BY <2>1, <3>1, <3>4 DEF OneRound, ReplyOf
      <4> QED
        BY <3>1, <3>2, <3>3, <3>4, <4>1 DEF OneRound, ReplyOf
    <3>5. CASE UNCHANGED serverBox /\ Answer(s, Refused)
      <4>1. replies'[Me] \subseteq replies[Me] \cup {Refused}
        BY <3>5, AnswerToMe
      <4>2. ~Asked(t, u)'
        BY <3>3, <3>5 DEF Asked, BoxOf
      <4> QED
        BY <2>1, <3>1, <4>1, <4>2, RoundAnswered
    <3> QED
      BY <2>2, <3>4, <3>5
  <2> QED
    BY <2>3, <2>4, <2>5
<1>5. ASSUME NEW s \in Sessions, NEW r \in replies[s], ReplyArrives(s, r) PROVE Goal
  <2>1. UNCHANGED <<asks, serverBox>> /\ r \in Replies
    BY <1>5 DEF ReplyArrives, Shapes
  <2>2. (BoxOf(u)' <=> BoxOf(u)) /\ (AskOf(t)' <=> AskOf(t)) /\ (Asked(t, u)' <=> Asked(t, u))
    BY <2>1 DEF BoxOf, AskOf, Asked
  <2>3. CASE s # Me
    <3>1. out'[Me] = out[Me] /\ replies'[Me] = replies[Me]
      BY <1>5, <2>3 DEF ReplyArrives, Shapes
    <3> QED
      BY <2>1, <2>2, <3>1, RoundLess
  <2>4. CASE s = Me
    <3>1. out'[Me] = Append(out[Me], r) /\ replies'[Me] = replies[Me] \ {r}
      BY <1>5, <2>4 DEF ReplyArrives, Shapes
    <3>2. out[Me] \in Seq(ServerMsgs \cup Replies) /\ r \in ServerMsgs \cup Replies
      BY <2>1 DEF Shapes
    <3>3. CASE r.type \in T
      <4>1. ReplyOf(T) /\ ~ReplyOf(T)' /\ ~MsgsIn(out[Me], T) /\ ~Asked(t, u)
        BY <2>4, <3>1, <3>3 DEF ReplyOf, OneRound
      <4>2. Once(out'[Me], T)
        BY <3>1, <3>2, <4>1, MsgsOfMore DEF OneRound
      <4> QED
        BY <2>1, <2>2, <3>1, <4>1, <4>2 DEF OneRound, Awaits
    <3>4. CASE r.type \notin T
      BY <2>1, <2>2, <3>1, <3>2, <3>4, SentNoAnswer, RoundLess
    <3> QED
      BY <3>3, <3>4
  <2> QED
    BY <2>3, <2>4
<1> QED
  BY <1>1, <1>2, <1>3, <1>4, <1>5 DEF ServerStep

(* peer.rs, user.rs: a connection that closes, and what other clients do.  *)
LEMMA RoundOthers ==
  ASSUME ChatInv, NEW s \in Sessions, PeerCloses(s) \/ (s \notin Watched /\ ClientStep(s)),
         NEW t, NEW u, NEW T, OneRound(t, u, T)
  PROVE  OneRound(t, u, T)' /\ (Awaits(t, u, T)' => Awaits(t, u, T))
<1> USE MeIsASession DEF ChatInv, ServerInv
<1>1. CASE PeerCloses(s)
  <2>1. asks'[Me] \subseteq asks[Me] /\ replies'[Me] \subseteq replies[Me] /\ UNCHANGED serverBox
    BY <1>1 DEF PeerCloses, Shapes
  <2>2. out'[Me] = out[Me] \/ out'[Me] = <<>>
    BY <1>1 DEF PeerCloses, Shapes
  <2>3. (MsgsIn(out'[Me], T) => MsgsIn(out[Me], T)) /\ (Once(out[Me], T) => Once(out'[Me], T))
    BY <2>2, MsgsOfNone
  <2> QED
    BY <2>1, <2>3, RoundLess DEF BoxOf
<1>2. CASE s \notin Watched /\ ClientStep(s)
  <2>1. UNCHANGED <<serverBox, replies, out>> /\ asks'[Me] = asks[Me]
    BY <1>2 DEF ClientStep, ClientAsks, Ask, Shapes
  <2> QED
    BY <2>1, RoundLess DEF BoxOf
<1> QED
  BY <1>1, <1>2

(* The page takes an answer, and the round is over.                        *)
LEMMA RoundEnds ==
  ASSUME ChatInv, NEW t, NEW u, NEW T, OneRound(t, u, T), out[Me] # <<>>, out'[Me] = Tail(out[Me]),
         UNCHANGED <<asks, replies, serverBox>>
  PROVE  /\ OneRound(t, u, T)' /\ (Awaits(t, u, T)' => Awaits(t, u, T))
         /\ Head(out[Me]).type \in T => Awaits(t, u, T) /\ ~Awaits(t, u, T)'
<1>1. out[Me] \in Seq(ServerMsgs \cup Replies)
  BY MeIsASession DEF ChatInv, ServerInv, Shapes
<1>2. /\ MsgsIn(out[Me], T) <=> Head(out[Me]).type \in T \/ MsgsIn(out'[Me], T)
      /\ Once(out[Me], T) => Once(out'[Me], T) /\ (Head(out[Me]).type \in T => ~MsgsIn(out'[Me], T))
  BY <1>1, MsgsOfHead
<1>3. (BoxOf(u)' <=> BoxOf(u)) /\ (Asked(t, u)' <=> Asked(t, u)) /\ (ReplyOf(T)' <=> ReplyOf(T))
  BY DEF BoxOf, AskOf, Asked, ReplyOf
<1> QED
  BY <1>2, <1>3, RoundLess DEF OneRound, Awaits

-----------------------------------------------------------------------------
(* connect_form.rs, app.rs: ConnectForm waits while its join is in         *)
(* progress, App while a nick is.  App gets one Connected and links to the *)
(* server when it has handled it, and gets a Disconnect only from the user.*)
JoinRound   == OneRound("Join", "UserData", {"Welcome", "Refused"})
Joining     == Awaits("Join", "UserData", {"Welcome", "Refused"})
RenameRound == OneRound("SetNick", "ChangeNick", {"NickAnswer"})
Renaming    == Awaits("SetNick", "ChangeNick", {"NickAnswer"})

AnsweredOnce == JoinRound /\ (Joining => form = "joining")
RenamedOnce  == RenameRound /\ (Renaming => app.at = "renaming")

Linking == MsgIn(appBox, "Connected") \/ app.at \in {"clearing", "greeting"} \/ linked

LinkedOnce ==
  /\ Linking => form = "hidden"
  /\ MsgIn(appBox, "Connected") => app.at \notin {"clearing", "greeting"} /\ ~linked
  /\ Once(appBox, {"Connected"})

AllOnce == AnsweredOnce /\ RenamedOnce /\ LinkedOnce

OnlyOnLeave == MsgIn(appBox, "Disconnect") \/ MsgIn(winBox, "Disconnect") => left

(* What adds nothing to it.                                                *)
LEMMA LinksLess ==
  ASSUME LinkedOnce,
         MsgIn(appBox', "Connected") => MsgIn(appBox, "Connected"),
         Once(appBox, {"Connected"}) => Once(appBox', {"Connected"}),
         app'.at \in {"clearing", "greeting"} => app.at \in {"clearing", "greeting"},
         linked' => linked, UNCHANGED form
  PROVE  LinkedOnce'
BY DEF LinkedOnce, Linking

(* The two rounds, when nothing is asked and nothing answered.             *)
LEMMA RoundsSame ==
  ASSUME JoinRound, RenameRound, UNCHANGED <<asks, serverBox, replies, out>>
  PROVE  JoinRound' /\ RenameRound' /\ (Joining' => Joining) /\ (Renaming' => Renaming)
BY RoundLess DEF JoinRound, RenameRound, Joining, Renaming, BoxOf

(* app.rs: App takes a message.                                            *)
LEMMA AppBoxTaken ==
  ASSUME PageShapes, NEW t, AppTakes(t)
  PROVE  /\ appBox \in Seq(AppMsgs) /\ appBox # <<>> /\ appBox' = Tail(appBox)
         /\ Head(appBox).type = t /\ app = Idle
         /\ \A u : MsgIn(appBox, u) <=> t = u \/ MsgIn(appBox', u)
         /\ Once(appBox, {"Connected"}) => /\ Once(appBox', {"Connected"})
                                           /\ t = "Connected" => ~MsgIn(appBox', "Connected")
<1>1. /\ appBox \in Seq(AppMsgs) /\ appBox # <<>> /\ appBox' = Tail(appBox) /\ Head(appBox).type = t
      /\ app = Idle
  BY DEF AppTakes, PageShapes
<1>2. \A u : MsgsIn(appBox', {u}) <=> MsgIn(appBox', u)
  BY DEF MsgsIn, MsgIn
<1> QED
  BY <1>1, <1>2, MsgsOfHead

(* ... or gets one.                                                        *)
LEMMA AppBoxGrows ==
  ASSUME PageShapes, NEW m \in AppMsgs, appBox' = Append(appBox, m)
  PROVE  /\ appBox \in Seq(AppMsgs)
         /\ \A u : MsgIn(appBox', u) <=> MsgIn(appBox, u) \/ m.type = u
         /\ Once(appBox, {"Connected"}) /\ (m.type = "Connected" => ~MsgIn(appBox, "Connected"))
              => Once(appBox', {"Connected"})
<1>1. \A u : MsgsIn(appBox, {u}) <=> MsgIn(appBox, u)
  BY DEF MsgsIn, MsgIn
<1> QED
  BY <1>1, MsgsOfMore DEF PageShapes

(* user_list.rs, chat_window.rs: their mailboxes.                          *)
LEMMA ListBoxGrows ==
  ASSUME PageShapes, NEW m \in ListMsgs, ToList(m)
  PROVE  /\ listBox \in Seq(ListMsgs) /\ listBox' = Append(listBox, m) /\ listBox' # <<>>
         /\ \A u : MsgIn(listBox', u) <=> MsgIn(listBox, u) \/ m.type = u
         /\ listBox'[Len(listBox')] = m
<1>1. listBox \in Seq(ListMsgs) /\ listBox' = Append(listBox, m)
  BY DEF PageShapes, ToList
<1> QED
  BY <1>1, MsgsOfMore

(* UserList takes a message.                                               *)
LEMMA ListBoxTaken ==
  ASSUME PageShapes, listBox # <<>>, listBox' = Tail(listBox)
  PROVE  /\ listBox \in Seq(ListMsgs) /\ Head(listBox) \in ListMsgs
         /\ \A u : MsgIn(listBox, u) <=> Head(listBox).type = u \/ MsgIn(listBox', u)
         /\ listBox' = <<>> => listBox[Len(listBox)] = Head(listBox)
         /\ listBox' # <<>> => listBox'[Len(listBox')] = listBox[Len(listBox)]
<1>1. listBox \in Seq(ListMsgs)
  BY DEF PageShapes
<1>2. Head(listBox) \in ListMsgs /\ \A u : MsgIn(listBox, u) <=> Head(listBox).type = u \/ MsgIn(listBox', u)
  BY <1>1, MsgsOfHead, TakenFrom
<1> QED
  BY <1>1, <1>2

(* ChatWindow is sent a message.                                           *)
LEMMA WinBoxGrows ==
  ASSUME PageShapes, NEW m \in WinMsgs, ToWindow(m)
  PROVE  /\ winBox \in Seq(WinMsgs) /\ winBox' = Append(winBox, m)
         /\ \A u : MsgIn(winBox', u) <=> MsgIn(winBox, u) \/ m.type = u
<1>1. winBox \in Seq(WinMsgs) /\ winBox' = Append(winBox, m)
  BY DEF PageShapes, ToWindow
<1> QED
  BY <1>1, MsgsOfMore

(* ChatWindow takes a message.                                             *)
LEMMA WinBoxTaken ==
  ASSUME PageShapes, winBox # <<>>, winBox' = Tail(winBox)
  PROVE  /\ winBox \in Seq(WinMsgs) /\ Head(winBox) \in WinMsgs
         /\ \A u : MsgIn(winBox, u) <=> Head(winBox).type = u \/ MsgIn(winBox', u)
<1>1. winBox \in Seq(WinMsgs)
  BY DEF PageShapes
<1> QED
  BY <1>1, MsgsOfHead, TakenFrom

(* The client's peer hands the page what the server has sent.              *)
LEMMA PageReads ==
  ASSUME ChatInv, Read(Me)
  PROVE  /\ out[Me] \in Seq(ServerMsgs \cup Replies) /\ out[Me] # <<>> /\ out'[Me] = Tail(out[Me])
         /\ Head(out[Me]) \in ServerMsgs \cup Replies
         /\ Head(out[Me]).type \notin {"Welcome", "Refused", "NickAnswer"} <=> Head(out[Me]) \in ServerMsgs
         /\ UNCHANGED <<conn, users, asks, replies, serverBox, linked, listBox, listed, winBox, known,
                        early, left, crash>>
<1>1. out[Me] \in Seq(ServerMsgs \cup Replies) /\ out[Me] # <<>> /\ out'[Me] = Tail(out[Me])
  BY MeIsASession DEF Read, ChatInv, ServerInv, Shapes
<1>2. Head(out[Me]) \in ServerMsgs \cup Replies
  BY <1>1, TakenFrom
<1> QED
  BY <1>1, <1>2, PageMessages DEF Read, connVars, userVars

(* connect_form.rs, app.rs: ... and it goes on.                            *)
LEMMA ReadOnce ==
  ASSUME ChatInv, AllOnce, Read(Me)
  PROVE  AllOnce'
<1> USE DEF ChatInv, AllOnce
<1> DEFINE m == Head(out[Me])
<1>1. /\ out[Me] # <<>> /\ out'[Me] = Tail(out[Me]) /\ UNCHANGED <<asks, replies, serverBox, linked>>
      /\ m.type \notin {"Welcome", "Refused", "NickAnswer"} <=> m \in ServerMsgs
  BY PageReads
<1>2. /\ JoinRound' /\ (Joining' => Joining)
      /\ m.type \in {"Welcome", "Refused"} => Joining /\ ~Joining'
  BY <1>1, RoundEnds DEF AnsweredOnce, JoinRound, Joining
<1>3. /\ RenameRound' /\ (Renaming' => Renaming)
      /\ m.type \in {"NickAnswer"} => Renaming /\ ~Renaming'
  BY <1>1, RoundEnds DEF RenamedOnce, RenameRound, Renaming
<1>4. CASE m.type \in {"Welcome", "Refused"}
  <2>1. form' \in {"welcomed", "refused"} /\ UNCHANGED <<appBox, app>>
    BY <1>4 DEF Read
  <2>2. form = "joining" /\ ~Joining'
    BY <1>2, <1>4 DEF AnsweredOnce
  <2>3. AnsweredOnce' /\ RenamedOnce'
    BY <1>2, <1>3, <2>1, <2>2 DEF AnsweredOnce, RenamedOnce
  <2>4. LinkedOnce'
    BY <1>1, <2>1, <2>2 DEF LinkedOnce, Linking
  <2> QED
    BY <2>3, <2>4
<1>5. CASE m.type = "NickAnswer"
  <2>1. UNCHANGED <<form, appBox>> /\ app' = Idle
    BY <1>5 DEF Read
  <2>2. ~Renaming'
    BY <1>3, <1>5
  <2>3. AnsweredOnce' /\ RenamedOnce'
    BY <1>2, <1>3, <2>1, <2>2 DEF AnsweredOnce, RenamedOnce
  <2>4. LinkedOnce'
    BY <1>1, <2>1, LinksLess DEF Idle
  <2> QED
    BY <2>3, <2>4
<1>6. CASE m.type \notin {"Welcome", "Refused", "NickAnswer"}
  <2>1. UNCHANGED <<form, app>> /\ appBox' = Append(appBox, m)
    BY <1>6 DEF Read
  <2>2. AnsweredOnce' /\ RenamedOnce'
    BY <1>2, <1>3, <2>1 DEF AnsweredOnce, RenamedOnce
  <2>3. m \in AppMsgs /\ m.type # "Connected"
    BY <1>1, <1>6, PageMessages, PageMade
  <2>4. LinkedOnce'
    BY <1>1, <2>1, <2>3, AppBoxGrows, LinksLess
  <2> QED
    BY <2>2, <2>4
<1> QED
  BY <1>4, <1>5, <1>6

(* What the page does without the server.                                  *)
LEMMA PageAlone ==
  ASSUME AllOnce, UNCHANGED <<asks, serverBox, replies, out, form>>, LinkedOnce',
         UNCHANGED app \/ app.at # "renaming"
  PROVE  AllOnce'
BY RoundsSame DEF AllOnce, AnsweredOnce, RenamedOnce

(* ... and each handler of the page.                                       *)
LEMMA OncePage ==
  ASSUME ChatInv, OnlyOnLeave, ~left, AllOnce, PageStep
  PROVE  AllOnce'
<1> USE MeIsASession DEF ChatInv
<1>0. LinkedOnce /\ JoinRound /\ RenameRound
  BY DEF AllOnce, AnsweredOnce, RenamedOnce
<1>1. CASE FormConnects
  <2>1. UNCHANGED <<asks, replies, out, serverBox, app, linked>> /\ form = "welcomed" /\ form' = "hidden"
    BY <1>1 DEF FormConnects, serverVars, userVars
  <2>2. ~Joining /\ ~Linking
    BY <2>1 DEF AllOnce, AnsweredOnce, LinkedOnce
  <2>3. AnsweredOnce' /\ RenamedOnce'
    BY <1>0, <2>1, <2>2, RoundsSame DEF AllOnce, AnsweredOnce, RenamedOnce
  <2>4. LinkedOnce'
    <3>1. appBox' = Append(appBox, Connected) /\ Connected \in AppMsgs
      BY <1>1, PageMade DEF FormConnects
    <3>2. Once(appBox', {"Connected"})
      BY <1>0, <2>2, <3>1, AppBoxGrows DEF LinkedOnce, Linking
    <3> QED
      BY <2>1, <2>2, <3>1, <3>2 DEF LinkedOnce, Linking
  <2> QED
    BY <2>3, <2>4 DEF AllOnce
<1>2. CASE \E s \in Watched : Read(s)
  BY <1>2, ReadOnce
<1>3. ASSUME UNCHANGED <<serverVars, form>>, LinkedOnce', UNCHANGED app \/ app.at # "renaming" PROVE AllOnce'
  BY <1>3, PageAlone DEF serverVars, userVars
<1>4. CASE CallCancelled \/ ListStep \/ WindowStep
  <2>1. UNCHANGED <<serverVars, form, appBox, app, linked>>
    BY <1>4 DEF CallCancelled, ListStep, WindowStep
  <2> QED
    BY <1>0, <1>3, <2>1, LinksLess
<1>5. CASE AppConnects
  <2>1. UNCHANGED <<serverVars, form, linked>> /\ AppTakes("Connected") /\ app' = [at |-> "clearing"]
    BY <1>5 DEF AppConnects, AppFrame, Await
  <2>2. app.at # "renaming"
    BY <2>1, AppBoxTaken DEF Idle
  <2>3. MsgIn(appBox, "Connected") /\ Once(appBox', {"Connected"}) /\ ~MsgIn(appBox', "Connected")
    BY <1>0, <2>1, AppBoxTaken DEF LinkedOnce
  <2>4. LinkedOnce'
    BY <1>0, <2>1, <2>3 DEF LinkedOnce, Linking
  <2> QED
    BY <1>3, <2>1, <2>2, <2>4
<1>6. CASE AppFills
  <2>1. UNCHANGED <<serverVars, form, appBox, linked>> /\ app.at = "clearing"
    BY <1>6 DEF AppFills, AppFrame
  <2> QED
    BY <1>0, <1>3, <2>1, LinksLess
<1>7. CASE AppLinks
  <2>1. UNCHANGED <<serverVars, form, appBox>> /\ app.at = "greeting" /\ app' = Idle
    BY <1>7 DEF AppLinks, AppFrame, Await
  <2>2. LinkedOnce'
    BY <1>0, <2>1 DEF LinkedOnce, Linking, Idle
  <2> QED
    BY <1>3, <2>1, <2>2
<1>8. CASE AppTellsWindow \/ AppRenames
  <2>1. UNCHANGED <<serverVars, form, appBox, linked>> /\ app' = Idle /\ app.at # "renaming"
    BY <1>8 DEF AppTellsWindow, AppRenames, AppFrame, Await
  <2> QED
    BY <1>0, <1>3, <2>1, LinksLess DEF Idle
<1>9. CASE AppUserJoined \/ AppUserLeft \/ AppNickChanged \/ AppChatMsg
  <2>1. UNCHANGED <<serverVars, form, linked>>
    BY <1>9 DEF AppUserJoined, AppUserLeft, AppNickChanged, AppChatMsg, AppFrame
  <2>2. PICK t : AppTakes(t)
    BY <1>9 DEF AppUserJoined, AppUserLeft, AppNickChanged, AppChatMsg
  <2>3. app'.at \notin {"clearing", "greeting"} /\ app.at # "renaming"
    <3>1. app = Idle
      BY <2>2, AppBoxTaken
    <3> QED
      BY <1>9, <3>1 DEF AppUserJoined, AppUserLeft, AppNickChanged, AppChatMsg, Await, Idle
  <2> QED
    BY <1>0, <1>3, <2>1, <2>2, <2>3, AppBoxTaken, LinksLess
<1>10. CASE AppAsks
  <2> DEFINE m == Head(appBox)
  <2>1. UNCHANGED <<replies, out, serverBox, form, linked>>
    BY <1>10 DEF AppAsks, AppFrame
  <2>2. PICK t \in {"NewChatMsg", "SetNick"} : AppTakes(t)
    BY <1>10 DEF AppAsks
  <2>3. m.type = t /\ app = Idle
    BY <2>2, AppBoxTaken
  <2>4. app.at = "idle"
    BY <2>3 DEF Idle
  <2>5. \/ asks' = asks /\ app' = app
        \/ Ask(Me, m) /\ app' = IF t = "SetNick" THEN [at |-> "renaming"] ELSE app
    BY <1>10, <2>3 DEF AppAsks, Await
  <2>6. asks'[Me] = asks[Me] \/ asks'[Me] = asks[Me] \cup {m}
    BY <2>5 DEF Ask, ServerInv, Shapes
  <2>7. LinkedOnce'
    BY <1>0, <2>1, <2>2, <2>4, <2>5, AppBoxTaken, LinksLess
  <2>8. AnsweredOnce'
    <3>1. \A a \in asks'[Me] : a.type = "Join" => a \in asks[Me]
      BY <2>3, <2>6
    <3>2. JoinRound' /\ (Joining' => Joining)
      BY <1>0, <2>1, <3>1, RoundLess DEF JoinRound, Joining, BoxOf
    <3> QED
      BY <2>1, <3>2 DEF AllOnce, AnsweredOnce
  <2>9. ~Renaming
    BY <2>4 DEF AllOnce, RenamedOnce
  <2>10. CASE asks'[Me] = asks[Me] \/ t # "SetNick"
    <3>1. \A a \in asks'[Me] : a.type = "SetNick" => a \in asks[Me]
      BY <2>3, <2>6, <2>10
    <3>2. RenameRound' /\ (Renaming' => Renaming)
      BY <1>0, <2>1, <3>1, RoundLess DEF RenameRound, Renaming, BoxOf
    <3> QED
      BY <2>7, <2>8, <2>9, <3>2 DEF AllOnce, RenamedOnce
  <2>11. CASE asks'[Me] = asks[Me] \cup {m} /\ asks'[Me] # asks[Me] /\ t = "SetNick"
    <3>1. app'.at = "renaming"
      BY <2>5, <2>11
    <3>2. \A a \in asks[Me] : a.type # "SetNick"
      BY <2>9 DEF Renaming, Awaits, Asked, AskOf
    <3>3. \A a, b \in asks'[Me] : a.type = "SetNick" /\ b.type = "SetNick" => a = b
      BY <2>11, <3>2
    <3>4. ~BoxOf("ChangeNick")' /\ ~ReplyOf({"NickAnswer"})' /\ ~MsgsIn(out'[Me], {"NickAnswer"})
      BY <2>1, <2>9 DEF Renaming, Awaits, Asked, BoxOf, ReplyOf
    <3> QED
      BY <2>1, <2>7, <2>8, <3>1, <3>3, <3>4 DEF AllOnce, RenamedOnce, RenameRound, OneRound
  <2> QED
    BY <2>6, <2>10, <2>11
<1>11. CASE AppDisconnects
  <2>1. AppTakes("Disconnect")
    BY <1>11 DEF AppDisconnects
  <2> QED
    BY <2>1, AppBoxTaken DEF OnlyOnLeave
<1> QED
  BY <1>1, <1>2, <1>4, <1>5, <1>6, <1>7, <1>8, <1>9, <1>10, <1>11 DEF PageStep

(* connect_form.rs: the user submits the form once.                        *)
LEMMA OnceVisit ==
  ASSUME ChatInv, AllOnce, Visit
  PROVE  AllOnce'
<1> USE MeIsASession DEF ChatInv
<1>0. LinkedOnce /\ JoinRound /\ RenameRound
  BY DEF AllOnce, AnsweredOnce, RenamedOnce
<1>1. ASSUME NEW n \in Nicks, SubmitConnect(n) PROVE AllOnce'
  <2>1. /\ UNCHANGED <<serverBox, replies, out, appBox, app, linked>>
        /\ form = "shown" /\ form' = "joining" /\ asks[Me] = {} /\ Ask(Me, Join(n))
    BY <1>1 DEF SubmitConnect
  <2>2. ~Joining /\ ~Linking
    BY <2>1 DEF AllOnce, AnsweredOnce, LinkedOnce
  <2>3. asks'[Me] = {Join(n)} /\ Join(n).type = "Join"
    BY <2>1 DEF Ask, ServerInv, Shapes, Join
  <2>4. ~BoxOf("UserData")' /\ ~ReplyOf({"Welcome", "Refused"})' /\ ~MsgsIn(out'[Me], {"Welcome", "Refused"})
    BY <2>1, <2>2 DEF Joining, Awaits, Asked, BoxOf, ReplyOf
  <2>5. AnsweredOnce'
    BY <1>0, <2>1, <2>3, <2>4 DEF AnsweredOnce, JoinRound, OneRound
  <2>6. RenameRound' /\ (Renaming' => Renaming)
    <3>1. \A a \in asks'[Me] : a.type = "SetNick" => a \in asks[Me]
      BY <2>3
    <3> QED
      BY <1>0, <2>1, <3>1, RoundLess DEF RenameRound, Renaming, BoxOf
  <2>7. LinkedOnce'
    BY <1>0, <2>1, <2>2 DEF LinkedOnce, Linking
  <2> QED
    BY <2>1, <2>5, <2>6, <2>7 DEF AllOnce, RenamedOnce
<1>2. ASSUME NEW m \in AppMsgs, m.type # "Connected", ChatSubmit(m) PROVE AllOnce'
  <2>1. /\ UNCHANGED <<serverBox, asks, replies, out, form, app, linked>>
        /\ appBox' = Append(appBox, m)
    BY <1>2 DEF ChatSubmit, userVars
  <2>2. LinkedOnce'
    BY <1>0, <1>2, <2>1, AppBoxGrows, LinksLess
  <2> QED
    BY <2>1, <2>2, PageAlone
<1> QED
  BY <1>1, <1>2, Messages, PageMade DEF Visit, SetNick, NewChatMsg, Disconnect

(* Every step of a page whose user stays.                                  *)
LEMMA OnceStep ==
  ASSUME ChatInv, OnlyOnLeave, ~left, AllOnce, [Next]_vars
  PROVE  AllOnce'
<1>1. ASSUME UNCHANGED pageVars, JoinRound', RenameRound', Joining' => Joining, Renaming' => Renaming
      PROVE  AllOnce'
  <2>1. UNCHANGED <<form, appBox, app, linked>>
    BY <1>1 DEF pageVars
  <2>2. LinkedOnce'
    BY <2>1, LinksLess DEF AllOnce
  <2> QED
    BY <1>1, <2>1, <2>2 DEF AllOnce, AnsweredOnce, RenamedOnce
<1>2. JoinRound /\ RenameRound
  BY DEF AllOnce, AnsweredOnce, RenamedOnce
<1>3. CASE UNCHANGED vars
  <2>1. UNCHANGED <<asks, replies, out, serverBox, pageVars>>
    BY <1>3 DEF vars, serverVars, userVars
  <2> QED
    BY <1>1, <1>2, <2>1, RoundsSame
<1>4. ASSUME ServerStep, UNCHANGED pageVars PROVE AllOnce'
  <2>1. JoinRound' /\ (Joining' => Joining)
    BY <1>2, <1>4, RoundServer DEF JoinRound, Joining, IsRound
  <2>2. RenameRound' /\ (Renaming' => Renaming)
    BY <1>2, <1>4, RoundServer DEF RenameRound, Renaming, IsRound
  <2> QED
    BY <1>1, <1>4, <2>1, <2>2
<1>5. ASSUME NEW s \in Sessions, PeerCloses(s) \/ (s \notin Watched /\ ClientStep(s)), UNCHANGED pageVars
      PROVE  AllOnce'
  <2>1. JoinRound' /\ (Joining' => Joining)
    BY <1>2, <1>5, RoundOthers DEF JoinRound, Joining
  <2>2. RenameRound' /\ (Renaming' => Renaming)
    BY <1>2, <1>5, RoundOthers DEF RenameRound, Renaming
  <2> QED
    BY <1>1, <1>5, <2>1, <2>2
<1> QED
  BY <1>3, <1>4, <1>5, OncePage, OnceVisit DEF Next

-----------------------------------------------------------------------------
(* app.rs:196, user_list.rs: App waits until UserList has removed whom it  *)
(* asked it to remove, and nothing else is asked of UserList meanwhile.    *)
RemovingInv ==
  /\ MsgIn(listBox, "Remove") => app.at = "removing"
  /\ app.at = "removing" =>
       /\ app.msg.type = "UserLeft"
       /\ IF listBox = <<>> THEN listed[app.msg.sid] = NoNick
          ELSE listBox[Len(listBox)] = Remove(app.msg.sid)

(* ... which other steps of App do not touch.                              *)
LEMMA RemovingKept ==
  ASSUME RemovingInv, UNCHANGED <<listBox, listed>>,
         UNCHANGED app \/ (app.at # "removing" /\ app'.at # "removing")
  PROVE  RemovingInv'
BY DEF RemovingInv

(* The handlers that ask UserList for something else.                      *)
LEMMA NothingRemoved ==
  ASSUME PageShapes, RemovingInv, NEW m \in ListMsgs, m.type # "Remove", ToList(m),
         app.at # "removing", app'.at # "removing"
  PROVE  RemovingInv'
BY ListBoxGrows DEF RemovingInv

(* Each handler of the page.                                               *)
LEMMA RemovingPage ==
  ASSUME ChatInv, OnlyOnLeave, ~left, AllOnce, RemovingInv, PageStep
  PROVE  RemovingInv'
<1> USE MeIsASession DEF ChatInv
<1>0. /\ Idle.at = "idle" /\ [at |-> "clearing"].at = "clearing" /\ [at |-> "greeting"].at = "greeting"
      /\ [at |-> "renaming"].at = "renaming"
  BY DEF Idle
<1>1. CASE FormConnects \/ CallCancelled \/ WindowStep
  <2>1. UNCHANGED <<listBox, listed, app>>
    BY <1>1 DEF FormConnects, CallCancelled, WindowStep
  <2> QED
    BY <2>1, RemovingKept
<1>2. CASE \E s \in Watched : Read(s)
  <2>1. UNCHANGED <<listBox, listed>>
    BY <1>2, PageReads
  <2>2. CASE Head(out[Me]).type = "NickAnswer"
    <3>1. out[Me] # <<>> /\ out[Me] \in Seq(ServerMsgs \cup Replies)
      BY <1>2, PageReads
    <3>2. Renaming
      BY <2>2, <3>1, MsgsOfHead DEF Renaming, Awaits
    <3>3. app.at = "renaming"
      BY <3>2 DEF AllOnce, RenamedOnce
    <3>4. app' = Idle
      BY <1>2, <2>2 DEF Read
    <3> QED
      BY <1>0, <2>1, <3>3, <3>4, RemovingKept
  <2>3. CASE Head(out[Me]).type # "NickAnswer"
    <3>1. UNCHANGED app
      BY <1>2, <2>3 DEF Read
    <3> QED
      BY <2>1, <3>1, RemovingKept
  <2> QED
    BY <2>2, <2>3
<1>3. CASE AppConnects
  <2>1. AppTakes("Connected") /\ ToList(Clear) /\ app' = [at |-> "clearing"]
    BY <1>3 DEF AppConnects, Await
  <2>2. app = Idle /\ Clear \in ListMsgs /\ Clear.type # "Remove"
    BY <2>1, AppBoxTaken, PageMade DEF Clear
  <2> QED
    BY <1>0, <2>1, <2>2, NothingRemoved
<1>4. CASE AppFills
  <2>1. app.at = "clearing" /\ ToList(Insert(welcome)) /\ app' = [at |-> "greeting"]
    BY <1>4 DEF AppFills, Await
  <2>2. Insert(welcome) \in ListMsgs /\ Insert(welcome).type # "Remove"
    BY PageMade DEF Insert, PageShapes
  <2> QED
    BY <1>0, <2>1, <2>2, NothingRemoved
<1>5. CASE AppLinks
  <2>1. app.at = "greeting" /\ app' = Idle /\ UNCHANGED <<listBox, listed>>
    BY <1>5 DEF AppLinks, Await, AppFrame
  <2> QED
    BY <1>0, <2>1, RemovingKept
<1>6. CASE AppUserJoined
  <2> DEFINE m == Insert(Only(Head(appBox).sid, Head(appBox).nick))
  <2>1. AppTakes("UserJoined") /\ ToList(m) /\ UNCHANGED app
    BY <1>6 DEF AppUserJoined
  <2>2. app = Idle /\ m \in ListMsgs /\ m.type # "Remove"
    BY <2>1, AppTakesType, PageMade DEF Insert
  <2> QED
    BY <1>0, <2>1, <2>2, NothingRemoved
<1>7. CASE AppUserLeft
  <2> DEFINE m == Head(appBox)
  <2>1. AppTakes("UserLeft") /\ ToList(Remove(m.sid)) /\ app' = [at |-> "removing", msg |-> m]
    BY <1>7 DEF AppUserLeft, Await
  <2>2. m.type = "UserLeft" /\ Remove(m.sid) \in ListMsgs
    BY <2>1, AppTakesType, PageMade
  <2>3. app'.at = "removing" /\ app'.msg = m
    BY <2>1
  <2> QED
    BY <2>1, <2>2, <2>3, ListBoxGrows DEF RemovingInv
<1>8. CASE AppTellsWindow
  <2>1. app.at = "removing" /\ listBox = <<>> /\ app' = Idle /\ UNCHANGED listBox
    BY <1>8 DEF AppTellsWindow, ListHasAnswered, Await
  <2>2. ~MsgIn(listBox', "Remove")
    BY <2>1, MsgsOfNone
  <2> QED
    BY <1>0, <2>1, <2>2 DEF RemovingInv
<1>9. CASE AppNickChanged
  <2> DEFINE m == Head(appBox)
  <2>1. AppTakes("NickChanged") /\ ToList(GetUser(m.sid)) /\ app' = [at |-> "asking", msg |-> m]
    BY <1>9 DEF AppNickChanged, Await
  <2>2. app = Idle /\ GetUser(m.sid) \in ListMsgs /\ GetUser(m.sid).type # "Remove"
    BY <2>1, AppTakesType, PageMade DEF GetUser
  <2>3. app'.at = "asking"
    BY <2>1
  <2> QED
    BY <1>0, <2>1, <2>2, <2>3, NothingRemoved
<1>10. CASE AppRenames
  <2>1. app.at = "asking" /\ app' = Idle /\ UNCHANGED listBox
    BY <1>10 DEF AppRenames, Await
  <2> QED
    BY <1>0, <2>1 DEF RemovingInv
<1>11. CASE AppChatMsg \/ AppAsks
  <2>1. app = Idle /\ UNCHANGED <<listBox, listed>> /\ (app' = app \/ app' = [at |-> "renaming"])
    BY <1>11 DEF AppChatMsg, AppAsks, AppFrame, AppTakes, Await
  <2> QED
    BY <1>0, <2>1, RemovingKept
<1>12. CASE AppDisconnects
  <2>1. AppTakes("Disconnect")
    BY <1>12 DEF AppDisconnects
  <2> QED
    BY <2>1, AppBoxTaken DEF OnlyOnLeave
<1>13. CASE ListStep
  <2> DEFINE m == Head(listBox)
  <2>1. listBox # <<>> /\ listBox' = Tail(listBox) /\ UNCHANGED app
    BY <1>13 DEF ListStep
  <2>2. MsgIn(listBox', "Remove") => app'.at = "removing"
    BY <2>1, ListBoxTaken DEF RemovingInv
  <2>3. ASSUME app.at = "removing"
        PROVE  IF listBox' = <<>> THEN listed'[app.msg.sid] = NoNick
               ELSE listBox'[Len(listBox')] = Remove(app.msg.sid)
    <3>1. listBox[Len(listBox)] = Remove(app.msg.sid)
      BY <2>1, <2>3 DEF RemovingInv
    <3>2. CASE listBox' # <<>>
      BY <2>1, <3>1, <3>2, ListBoxTaken
    <3>3. CASE listBox' = <<>>
      <4>1. m = Remove(app.msg.sid)
        BY <2>1, <3>1, <3>3, ListBoxTaken
      <4>0. m.type = "Remove" /\ m.sid = app.msg.sid
        BY <4>1 DEF Remove
      <4>2. listed' = [listed EXCEPT ![app.msg.sid] = NoNick]
        BY <1>13, <4>0 DEF ListStep
      <4>3. app.msg.sid \in Sessions
        BY <2>3, PageMessages DEF PageShapes
      <4> QED
        BY <3>3, <4>2, <4>3 DEF PageShapes, UserMaps
    <3> QED
      BY <3>2, <3>3
  <2> QED
    BY <2>1, <2>2, <2>3 DEF RemovingInv
<1> QED
  BY <1>1, <1>2, <1>3, <1>4, <1>5, <1>6, <1>7, <1>8, <1>9, <1>10, <1>11, <1>12, <1>13 DEF PageStep

(* app.rs: App is told to disconnect by the user alone, and ChatWindow by  *)
(* App alone.                                                              *)
LEMMA LeaveKept ==
  ASSUME OnlyOnLeave, left => left',
         MsgIn(appBox', "Disconnect") => MsgIn(appBox, "Disconnect"),
         MsgIn(winBox', "Disconnect") => MsgIn(winBox, "Disconnect") \/ left
  PROVE  OnlyOnLeave'
BY DEF OnlyOnLeave

(* app.rs, chat_window.rs: each handler of the page.                       *)
LEMMA LeavePage == ASSUME ChatInv, OnlyOnLeave, PageStep PROVE OnlyOnLeave'
<1> USE MeIsASession DEF ChatInv
<1>1. CASE FormConnects
  <2>1. appBox' = Append(appBox, Connected) /\ Connected \in AppMsgs /\ Connected.type # "Disconnect"
    BY <1>1, PageMade, PageMessages DEF FormConnects
  <2> QED
    BY <1>1, <2>1, AppBoxGrows, LeaveKept DEF FormConnects
<1>2. CASE \E s \in Watched : Read(s)
  <2> DEFINE m == Head(out[Me])
  <2>1. /\ UNCHANGED <<left, winBox>>
        /\ m.type \notin {"Welcome", "Refused", "NickAnswer"} <=> m \in ServerMsgs
    BY <1>2, PageReads
  <2>2. appBox' = appBox \/ (m \in ServerMsgs /\ appBox' = Append(appBox, m))
    BY <1>2, <2>1 DEF Read
  <2>3. MsgIn(appBox', "Disconnect") => MsgIn(appBox, "Disconnect")
    <3>1. m \in ServerMsgs => m \in AppMsgs /\ m.type # "Disconnect"
      BY PageMade, PageMessages
    <3> QED
      BY <2>2, <3>1, AppBoxGrows
  <2> QED
    BY <2>1, <2>3, LeaveKept
<1>3. CASE CallCancelled
  BY <1>3, LeaveKept DEF CallCancelled
<1>4. CASE AppConnects \/ AppUserJoined \/ AppUserLeft \/ AppNickChanged
  <2>1. UNCHANGED <<left, winBox>>
    BY <1>4 DEF AppConnects, AppUserJoined, AppUserLeft, AppNickChanged, AppFrame
  <2>2. \E t : AppTakes(t)
    BY <1>4 DEF AppConnects, AppUserJoined, AppUserLeft, AppNickChanged
  <2> QED
    BY <2>1, <2>2, AppBoxTaken, LeaveKept
<1>5. CASE AppFills
  <2>1. UNCHANGED <<left, appBox>> /\ ToWindow(Greeting) /\ Greeting \in WinMsgs /\ Greeting.type # "Disconnect"
    BY <1>5, PageMade DEF AppFills, AppFrame, Greeting
  <2> QED
    BY <2>1, WinBoxGrows, LeaveKept
<1>6. CASE AppLinks \/ AppRenames
  <2>1. UNCHANGED <<left, appBox, winBox>>
    BY <1>6 DEF AppLinks, AppRenames, AppFrame
  <2> QED
    BY <2>1, LeaveKept
<1>7. CASE AppTellsWindow
  <2>1. UNCHANGED <<left, appBox>> /\ ToWindow(app.msg) /\ app.at = "removing"
    BY <1>7 DEF AppTellsWindow, AppFrame
  <2>2. app.msg \in WinMsgs /\ app.msg.type # "Disconnect"
    BY <2>1, PageMessages, PageMade DEF PageShapes
  <2> QED
    BY <2>1, <2>2, WinBoxGrows, LeaveKept
<1>8. CASE AppChatMsg
  <2>1. UNCHANGED left /\ AppTakes("ChatMsg") /\ ToWindow(Head(appBox))
    BY <1>8 DEF AppChatMsg, AppFrame
  <2>2. Head(appBox) \in WinMsgs /\ Head(appBox).type # "Disconnect"
    BY <2>1, AppTakesType, PageMade
  <2> QED
    BY <2>1, <2>2, AppBoxTaken, WinBoxGrows, LeaveKept
<1>9. CASE AppAsks
  <2>1. UNCHANGED <<left, winBox>> /\ \E t : AppTakes(t)
    BY <1>9 DEF AppAsks, AppFrame
  <2> QED
    BY <2>1, AppBoxTaken, LeaveKept
<1>10. CASE AppDisconnects
  <2>1. UNCHANGED left /\ AppTakes("Disconnect")
    BY <1>10 DEF AppDisconnects
  <2>2. left
    BY <2>1, AppBoxTaken DEF OnlyOnLeave
  <2> QED
    BY <2>1, <2>2 DEF OnlyOnLeave
<1>11. CASE ListStep
  <2>1. UNCHANGED <<left, appBox>>
    BY <1>11 DEF ListStep
  <2>2. winBox' = winBox \/ \E m \in WinMsgs : m.type # "Disconnect" /\ ToWindow(m)
    <3>1. CASE Head(listBox).type # "Insert"
      BY <1>11, <3>1, ListBoxTaken, PageMessages DEF ListStep
    <3>2. CASE Head(listBox).type = "Insert"
      <4>1. ToWindow(NewUser(Unseen(Head(listBox).users)))
        BY <1>11, <3>2 DEF ListStep
      <4>2. Head(listBox).users \in UserMaps
        BY <1>11, <3>2, ListBoxTaken, PageMessages DEF ListStep
      <4>3. NewUser(Unseen(Head(listBox).users)) \in WinMsgs
        BY <4>2, MapsMerged, PageMade DEF PageShapes
      <4> QED
        BY <4>1, <4>3 DEF NewUser
    <3> QED
      BY <3>1, <3>2
  <2> QED
    BY <2>1, <2>2, WinBoxGrows, LeaveKept
<1>12. CASE WindowStep
  <2>1. UNCHANGED <<left, appBox>> /\ winBox # <<>> /\ winBox' = Tail(winBox)
    BY <1>12 DEF WindowStep
  <2> QED
    BY <2>1, WinBoxTaken, LeaveKept
<1> QED
  BY <1>1, <1>2, <1>3, <1>4, <1>5, <1>6, <1>7, <1>8, <1>9, <1>10, <1>11, <1>12 DEF PageStep

(* Every step: a Disconnect in a mailbox of the page is the user's.        *)
LEMMA LeaveStep == ASSUME ChatInv, OnlyOnLeave, [Next]_vars PROVE OnlyOnLeave'
<1>1. ASSUME UNCHANGED pageVars PROVE OnlyOnLeave'
  BY <1>1 DEF pageVars, OnlyOnLeave
<1>2. ASSUME Visit PROVE OnlyOnLeave'
  <2>1. ASSUME NEW n, SubmitConnect(n) PROVE OnlyOnLeave'
    BY <2>1 DEF SubmitConnect, OnlyOnLeave
  <2>2. ASSUME NEW m \in AppMsgs, m.type # "Disconnect", ChatSubmit(m) PROVE OnlyOnLeave'
    <3>1. appBox' = Append(appBox, m) /\ UNCHANGED winBox /\ (left => left')
      BY <2>2 DEF ChatSubmit
    <3> QED
      BY <2>2, <3>1, AppBoxGrows, LeaveKept DEF ChatInv
  <2>3. ASSUME ChatSubmit(Disconnect) PROVE OnlyOnLeave'
    BY <2>3 DEF ChatSubmit, OnlyOnLeave
  <2>4. /\ \A n \in Nicks : SetNick(n) \in AppMsgs /\ SetNick(n).type # "Disconnect"
        /\ NewChatMsg \in AppMsgs /\ NewChatMsg.type # "Disconnect"
    BY Messages, PageMade DEF SetNick, NewChatMsg
  <2> QED
    BY <1>2, <2>1, <2>2, <2>3, <2>4 DEF Visit
<1> QED
  BY <1>1, <1>2, LeavePage DEF Next, vars

(* Every step, while the user stays.                                       *)
LEMMA RemovingStep ==
  ASSUME ChatInv, OnlyOnLeave, ~left, AllOnce, RemovingInv, [Next]_vars
  PROVE  RemovingInv'
<1>1. ASSUME UNCHANGED pageVars PROVE RemovingInv'
  BY <1>1, RemovingKept DEF pageVars
<1>2. ASSUME Visit PROVE RemovingInv'
  BY <1>2, RemovingKept DEF Visit, SubmitConnect, ChatSubmit
<1> QED
  BY <1>1, <1>2, RemovingPage DEF Next, vars

-----------------------------------------------------------------------------
(* peer.rs: nothing is on its way to a page whose connection is closed;    *)
(* server.rs: a page that is no user is told of nobody.                    *)
Cut    == conn[Me] # "open" => out[Me] = <<>> /\ replies[Me] = {}
Untold == conn[Me] = "open" /\ users[Me] = NoNick => ~NewsIn(out[Me])

(* The steps that change what the server and the connection hold for it.   *)
LEMMA WhoReachesMe ==
  ASSUME ChatInv, OnlyOnLeave, ~left, [Next]_vars
  PROVE  \/ UNCHANGED <<conn, users, replies, out>>
         \/ Read(Me)
         \/ UNCHANGED pageVars /\ (ServerStep \/ \E s \in Sessions : PeerCloses(s))
<1> USE MeIsASession DEF serverVars, connVars, userVars, clientVars
<1>1. CASE PageStep
  <2>1. CASE AppDisconnects
    <3>1. AppTakes("Disconnect")
      BY <2>1 DEF AppDisconnects
    <3> QED
      BY <3>1, AppBoxTaken DEF OnlyOnLeave, ChatInv
  <2>2. CASE \E s \in Watched : Read(s)
    BY <2>2
  <2> QED
    BY <1>1, <2>1, <2>2
       DEF PageStep, FormConnects, CallCancelled, AppConnects, AppFills, AppLinks, AppUserJoined,
           AppUserLeft, AppTellsWindow, AppNickChanged, AppRenames, AppChatMsg, AppAsks, ListStep,
           WindowStep
<1>2. CASE Visit
  BY <1>2 DEF Visit, SubmitConnect, ChatSubmit
<1>3. ASSUME NEW s \in Sessions, ClientStep(s) PROVE UNCHANGED <<conn, users, replies, out>>
  BY <1>3 DEF ClientStep, ClientAsks
<1>4. CASE UNCHANGED vars
  BY <1>4 DEF vars
<1> QED
  BY <1>1, <1>2, <1>3, <1>4 DEF Next

(* server.rs, user.rs: nothing is sent to a peer that has closed.          *)
LEMMA CutServer ==
  ASSUME ChatInv, Cut, ServerStep
  PROVE  Cut'
<1> USE MeIsASession DEF connVars, userVars, clientVars, ChatInv, ServerInv
<1>0. ASSUME UNCHANGED conn, conn[Me] # "open" => out'[Me] = out[Me] /\ replies'[Me] = replies[Me]
      PROVE  Cut'
  BY <1>0 DEF Cut
<1>1. CASE HandleUserData \/ HandleChangeNick \/ HandleChatMsgIn \/ HandleConnectionClosed
  <2> DEFINE m == Head(serverBox)
  <2>1. UNCHANGED conn /\ m.sid \in Sessions
    <3>1. \E t : Handling(t)
      BY <1>1 DEF HandleUserData, HandleChangeNick, HandleChatMsgIn, HandleConnectionClosed
    <3>2. m.sid \in Sessions
      BY <3>1, HandlingTakes, Messages
    <3> QED
      BY <1>1, <3>2 DEF HandleUserData, HandleChangeNick, HandleChatMsgIn, HandleConnectionClosed
  <2>2. UNCHANGED out \/ \E us, t : Broadcast(us, t)
    BY <1>1 DEF HandleUserData, HandleChangeNick, HandleChatMsgIn, HandleConnectionClosed
  <2>3. UNCHANGED replies \/ \E r : Answer(m.sid, r)
    BY <1>1 DEF HandleUserData, HandleChangeNick, HandleChatMsgIn, HandleConnectionClosed
  <2>4. conn[Me] # "open" => out'[Me] = out[Me]
    BY <2>2, BroadcastToMe
  <2>5. conn[Me] # "open" => replies'[Me] = replies[Me]
    BY <2>1, <2>3, AnswerToMe
  <2> QED
    BY <1>0, <2>1, <2>4, <2>5
<1>2. ASSUME NEW s \in Sessions, Report(s) PROVE Cut'
  BY <1>0, <1>2 DEF Report
<1>3. ASSUME NEW s \in Sessions, NEW a \in asks[s], UserJoins(s, a) \/ UserSetsNick(s, a) \/ UserTalks(s, a)
      PROVE  Cut'
  <2>1. UNCHANGED <<conn, out>> /\ (UNCHANGED replies \/ Answer(s, Refused))
    BY <1>3 DEF UserJoins, UserSetsNick, UserTalks
  <2> QED
    BY <1>0, <2>1, AnswerToMe
<1>4. ASSUME NEW s \in Sessions, NEW r \in replies[s], ReplyArrives(s, r) PROVE Cut'
  <2>1. UNCHANGED conn /\ (s # Me => out'[Me] = out[Me] /\ replies'[Me] = replies[Me])
    BY <1>4 DEF ReplyArrives, Shapes
  <2>2. s = Me => conn[Me] = "open"
    BY <1>4 DEF Cut
  <2> QED
    BY <1>0, <2>1, <2>2
<1> QED
  BY <1>1, <1>2, <1>3, <1>4 DEF ServerStep

(* peer.rs: closing drops what was on its way, and nothing is sent after.  *)
LEMMA CutStep == ASSUME ChatInv, OnlyOnLeave, ~left, Cut, [Next]_vars PROVE Cut'
<1>1. ASSUME Read(Me) PROVE Cut'
  BY <1>1, PageReads DEF Cut
<1>2. ASSUME NEW s \in Sessions, PeerCloses(s) PROVE Cut'
  BY <1>2, MeIsASession DEF Cut, PeerCloses, ChatInv, ServerInv, Shapes
<1>3. ASSUME UNCHANGED <<conn, users, replies, out>> PROVE Cut'
  BY <1>3 DEF Cut
<1> QED
  BY <1>1, <1>2, <1>3, WhoReachesMe, CutServer

(* server.rs:84-115: the broadcasts go to those who are users.             *)
LEMMA UntoldStep ==
  ASSUME ChatInv, EnteredInv, JoinsOnce, OnlyOnLeave, ~left, Untold, [Next]_vars
  PROVE  Untold'
<1>1. ASSUME Read(Me) PROVE Untold'
  <2>1. NewsIn(out'[Me]) => NewsIn(out[Me])
    BY <1>1, PageReads, MsgsOfHead
  <2> QED
    BY <1>1, <2>1, PageReads DEF Untold
<1>2. ASSUME NEW s \in Sessions, PeerCloses(s) PROVE Untold'
  BY <1>2, MeIsASession DEF Untold, PeerCloses, ChatInv, ServerInv, Shapes
<1>3. ASSUME UNCHANGED <<conn, users, replies, out>> PROVE Untold'
  BY <1>3 DEF Untold
<1>4. ASSUME ServerStep PROVE Untold'
  <2>1. UNCHANGED conn
    BY <1>4, ServerForMe
  <2>2. CASE Silent
    BY <2>1, <2>2 DEF Untold, Silent
  <2>3. CASE (\E m : Told(m)) \/ LetMeIn
    BY <2>3 DEF Untold, Told, LetMeIn
  <2>4. ASSUME NEW r, AnswersMe(r) PROVE Untold'
    <3>1. r \in Replies /\ out[Me] \in Seq(ServerMsgs \cup Replies)
      BY <2>4, MeIsASession DEF AnswersMe, ChatInv, ServerInv, Shapes
    <3>2. ~News(r)
      BY <3>1, PageMessages DEF News
    <3>3. NewsIn(out'[Me]) => NewsIn(out[Me])
      BY <2>4, <3>1, <3>2, MsgsOfMore DEF AnswersMe
    <3> QED
      BY <2>1, <2>4, <3>3 DEF Untold, AnswersMe
  <2> QED
    BY <1>4, <2>2, <2>3, <2>4, ServerForMe
<1> QED
  BY <1>1, <1>2, <1>3, <1>4, WhoReachesMe

-----------------------------------------------------------------------------
(* What App makes of an entry when it gets what it waits for.              *)
AppTurns(p, s, w, a, b) ==
  CASE p.at = "clearing"                -> a = NoNick /\ b = w
    [] p.at = "asking" /\ p.msg.sid = s -> a # NoNick /\ b = p.msg.nick
    [] OTHER                            -> b = a

Leaves == app.at = "removing" /\ app.msg.member

(* The entry b that the list of the page comes to with what App has        *)
(* handled, the entry c it comes to with what has reached the page, and    *)
(* that what is on its way makes of c what the server has.                 *)
Upto(s, b)       == \E a \in Entries : /\ Flow(listBox, s, NoNick, Leaves, listed[s], a)
                                       /\ AppTurns(app, s, welcome[s], a, b)
Reached(s, b, c) == \E d \in Entries : /\ Flow(appBox, s, welcome[s], FALSE, b, d)
                                       /\ c = IF form = "welcomed" THEN welcome[s] ELSE d
Sent(s, c)       == /\ \E d \in Entries : /\ Flow(out[Me], s, NoNick, FALSE, c, d)
                                          /\ ~Welcomed => Agrees(s, d)
                    /\ \A r \in replies[Me] : r.type = "Welcome" => Agrees(s, r.users[s])

(* A broadcast that is ahead of the welcome, in the page or on its way.    *)
Ahead     == (form # "hidden" /\ NewsIn(appBox)) \/ NewsBefore(appBox, "Connected")
Overtaken == (Welcomed /\ NewsIn(out[Me])) \/ NewsBefore(out[Me], "Welcome")
InTouch   == conn[Me] = "open" /\ users[Me] # NoNick /\ ~Overtaken

(* A page to which no broadcast came ahead of its welcome follows the      *)
(* server, session by session.                                             *)
Arrives(s, b) == \E c \in Entries : Reached(s, b, c) /\ (InTouch => Sent(s, c))
Follows(s)    == \E b \in Entries : Upto(s, b) /\ (Ahead \/ Arrives(s, b))

(* The connection and the page, seen by what they hold for each other.     *)
AtServer == <<conn, users, replies, out>>
AtPage   == <<form, welcome, appBox>>
AtList   == <<app, listBox, listed>>

(* A step that leaves the connection and the mailbox of App as they were.  *)
LEMMA ArrivesSame ==
  ASSUME UNCHANGED <<AtServer, AtPage>>
  PROVE  /\ Ahead' <=> Ahead
         /\ \A s, b : Arrives(s, b)' <=> Arrives(s, b)
BY DEF AtServer, AtPage, Ahead, Arrives, Reached, Sent, InTouch, Overtaken, Welcomed, Agrees

(* ... and what App has asked of UserList.                                 *)
LEMMA FollowsSame ==
  ASSUME NEW s, Follows(s), UNCHANGED <<AtServer, AtPage>>,
         \A b \in Entries : Upto(s, b) => Upto(s, b)'
  PROVE  Follows(s)'
BY ArrivesSame DEF Follows

(* user_list.rs: a step that leaves App and UserList as they were.         *)
LEMMA UptoSame ==
  ASSUME UNCHANGED <<AtList, welcome>>
  PROVE  \A s, b : Upto(s, b)' <=> Upto(s, b)
BY DEF AtList, Upto, Leaves

(* app.rs: an App that waits for nothing has handled what it took.         *)
LEMMA UptoIdle ==
  ASSUME app.at \in {"idle", "renaming"}, NEW s \in Sessions, NEW b \in Entries, Upto(s, b)
  PROVE  Flow(listBox, s, NoNick, FALSE, listed[s], b)
<1>1. Leaves = FALSE
  BY DEF Leaves
<1>2. PICK a \in Entries : Flow(listBox, s, NoNick, FALSE, listed[s], a) /\ AppTurns(app, s, welcome[s], a, b)
  BY <1>1 DEF Upto
<1> QED
  BY <1>2 DEF AppTurns

(* ... and asks UserList for what follows from it.                         *)
LEMMA ListTold ==
  ASSUME ChatInv, RemovingInv, app.at = "idle", NEW s \in Sessions,
         NEW b \in Entries, NEW e \in Entries, NEW n \in Entries,
         Flow(listBox, s, NoNick, FALSE, listed[s], b),
         NEW m \in ListMsgs, ToList(m), UNCHANGED listed,
         Turns(m, s, NoNick, Leaves', b, e), AppTurns(app', s, welcome'[s], e, n)
  PROVE  Upto(s, n)'
<1>1. listBox \in Seq(ListMsgs) /\ listBox' = Append(listBox, m)
  BY ListBoxGrows DEF ChatInv
<1>2. \A i \in DOMAIN listBox : listBox[i].type # "Remove" /\ listBox[i].type # "Connected"
  <2>1. \A i \in DOMAIN listBox : listBox[i].type # "Remove"
    BY DEF RemovingInv, MsgIn
  <2> QED
    BY <1>1, <2>1, PageMessages
<1>3. Flow(listBox, s, NoNick, Leaves', listed[s], b)
  BY <1>1, <1>2, FlowKept
<1>4. Flow(listBox', s, NoNick, Leaves', listed'[s], e)
  BY <1>1, <1>3, FlowOfMore
<1> QED
  BY <1>4 DEF Upto

(* app.rs: App takes a message; the page has had what reached it.          *)
LEMMA AppHandles ==
  ASSUME ChatInv, NEW t, AppTakes(t), NEW s \in Sessions, Follows(s), ~Ahead,
         UNCHANGED <<AtServer, form, welcome>>
  PROVE  \E b, n \in Entries : /\ Flow(listBox, s, NoNick, FALSE, listed[s], b)
                               /\ Turns(Head(appBox), s, welcome[s], FALSE, b, n)
                               /\ Upto(s, n)' => Follows(s)'
<1>1. PICK b \in Entries : Upto(s, b) /\ Arrives(s, b)
  BY DEF Follows
<1>2. PICK c \in Entries : Reached(s, b, c) /\ (InTouch => Sent(s, c))
  BY <1>1 DEF Arrives
<1>3. PICK d \in Entries : /\ Flow(appBox, s, welcome[s], FALSE, b, d)
                           /\ c = IF form = "welcomed" THEN welcome[s] ELSE d
  BY <1>2 DEF Reached
<1>4. appBox \in Seq(AppMsgs) /\ appBox # <<>> /\ appBox' = Tail(appBox) /\ app = Idle
  BY AppBoxTaken DEF ChatInv
<1>5. PICK n \in Entries : /\ Turns(Head(appBox), s, welcome[s], FALSE, b, n)
                           /\ Flow(Tail(appBox), s, welcome[s], FALSE, n, d)
  BY <1>3, <1>4, FlowOfHead
<1>6. Reached(s, n, c)'
  BY <1>3, <1>4, <1>5 DEF Reached
<1>7. InTouch' => Sent(s, c)'
  BY <1>2 DEF AtServer, Sent, InTouch, Overtaken, Welcomed, Agrees
<1>8. Upto(s, n)' => Follows(s)'
  BY <1>6, <1>7 DEF Follows, Arrives
<1>9. Flow(listBox, s, NoNick, FALSE, listed[s], b)
  BY <1>1, <1>4, UptoIdle DEF Idle
<1> QED
  BY <1>5, <1>8, <1>9

(* app.rs: nothing is ahead of the welcome when App has its connection, or *)
(* is given it.                                                            *)
LEMMA NothingAhead ==
  ASSUME ChatInv, AllOnce, linked \/ (\E t : AppTakes(t) /\ t = "Connected")
  PROVE  ~Ahead
<1>1. appBox \in Seq(AppMsgs)
  BY DEF ChatInv, PageShapes
<1>2. NewsBefore(appBox, "Connected") => MsgIn(appBox, "Connected")
  BY DEF NewsBefore, MsgIn
<1>3. CASE linked
  BY <1>2, <1>3 DEF Ahead, AllOnce, LinkedOnce, Linking
<1>4. CASE AppTakes("Connected")
  <2>1. /\ MsgIn(appBox, "Connected") /\ ~MsgIn(Tail(appBox), "Connected")
        /\ appBox # <<>> /\ Head(appBox).type = "Connected"
    BY <1>4, AppBoxTaken DEF ChatInv, AllOnce, LinkedOnce
  <2>2. ~News(Head(appBox))
    BY <2>1, PageMessages DEF News
  <2>3. ~NewsBefore(appBox, "Connected")
    BY <1>1, <2>1, <2>2, MsgsOfHead DEF NewsBefore, MsgIn
  <2> QED
    BY <2>1, <2>3 DEF Ahead, AllOnce, LinkedOnce, Linking
<1> QED
  BY <1>3, <1>4

(* connect_form.rs: the page hands App the welcome.                        *)
LEMMA FollowsConnected ==
  ASSUME ChatInv, NEW s \in Sessions, Follows(s), FormConnects
  PROVE  Follows(s)'
<1>1. /\ UNCHANGED <<AtServer, AtList, welcome>>
      /\ form = "welcomed" /\ form' = "hidden" /\ appBox' = Append(appBox, Connected)
  BY DEF FormConnects, serverVars, connVars, AtServer, AtList
<1>2. appBox \in Seq(AppMsgs) /\ Connected \in AppMsgs /\ Connected.type = "Connected"
  BY PageMade, PageMessages DEF ChatInv, PageShapes
<1>3. Ahead => Ahead'
  BY <1>1, <1>2, MsgsOfMore DEF Ahead
<1>4. PICK b \in Entries : Upto(s, b) /\ (Ahead \/ Arrives(s, b))
  BY DEF Follows
<1>5. Upto(s, b)'
  BY <1>1, <1>4, UptoSame
<1>6. ASSUME Arrives(s, b) PROVE Arrives(s, b)'
  <2>1. PICK c \in Entries : Reached(s, b, c) /\ (InTouch => Sent(s, c))
    BY <1>6 DEF Arrives
  <2>2. PICK d \in Entries : Flow(appBox, s, welcome[s], FALSE, b, d) /\ c = welcome[s]
    BY <1>1, <2>1 DEF Reached
  <2>3. Turns(Connected, s, welcome[s], FALSE, d, c)
    BY <1>2, <2>2 DEF Turns
  <2>4. Flow(appBox', s, welcome[s], FALSE, b, c)
    BY <1>1, <1>2, <2>2, <2>3, FlowOfMore
  <2>5. Reached(s, b, c)'
    BY <1>1, <2>4 DEF Reached
  <2>6. InTouch' => Sent(s, c)'
    BY <1>1, <2>1 DEF AtServer, Sent, InTouch, Overtaken, Welcomed, Agrees
  <2> QED
    BY <2>5, <2>6 DEF Arrives
<1> QED
  BY <1>3, <1>4, <1>5, <1>6 DEF Follows

(* user_list.rs: UserList handles a message.                               *)
LEMMA FollowsList ==
  ASSUME ChatInv, NEW s \in Sessions, Follows(s), ListStep
  PROVE  Follows(s)'
<1> DEFINE m == Head(listBox)
<1>1. /\ UNCHANGED <<AtServer, AtPage, app>> /\ listBox # <<>> /\ listBox' = Tail(listBox)
  BY DEF ListStep, serverVars, connVars, AtServer, AtPage
<1>2. listBox \in Seq(ListMsgs) /\ m \in ListMsgs
  BY <1>1, ListBoxTaken DEF ChatInv
<1>3. UNCHANGED Leaves /\ UNCHANGED welcome
  BY <1>1 DEF Leaves, AtPage
<1>4. /\ m.type \in {"Clear", "Insert", "Remove", "GetUser"}
      /\ m.type = "Insert" => m.users \in UserMaps
      /\ m.type \in {"Remove", "GetUser"} => m.sid \in Sessions
  BY <1>2, PageMessages
<1>5. listed \in [Sessions -> Entries]
  BY DEF ChatInv, PageShapes, UserMaps, Entries
<1>6. ASSUME NEW c \in Entries, Turns(m, s, NoNick, Leaves, listed[s], c) PROVE c = listed'[s]
  <2>1. CASE m.type = "Clear"
    BY <1>6, <2>1 DEF ListStep, Turns, Nobody
  <2>2. CASE m.type = "Insert"
    <3>1. listed' = Merge(listed, m.users)
      BY <2>2 DEF ListStep
    <3>2. c = IF m.users[s] # NoNick THEN m.users[s] ELSE listed[s]
      BY <1>6, <2>2 DEF Turns
    <3> QED
      BY <3>1, <3>2 DEF Merge
  <2>3. CASE m.type = "Remove"
    <3>1. listed' = [listed EXCEPT ![m.sid] = NoNick]
      BY <2>3 DEF ListStep
    <3>2. c = IF m.sid = s THEN NoNick ELSE listed[s]
      BY <1>6, <2>3 DEF Turns
    <3> QED
      BY <1>5, <3>1, <3>2
  <2>4. CASE m.type = "GetUser"
    <3>1. listed' = listed
      BY <2>4 DEF ListStep
    <3>2. c = listed[s]
      BY <1>6, <2>4 DEF Turns
    <3> QED
      BY <3>1, <3>2
  <2> QED
    BY <1>4, <2>1, <2>2, <2>3, <2>4
<1>7. ASSUME NEW b \in Entries, Upto(s, b) PROVE Upto(s, b)'
  <2>1. PICK a \in Entries : Flow(listBox, s, NoNick, Leaves, listed[s], a) /\ AppTurns(app, s, welcome[s], a, b)
    BY <1>7 DEF Upto
  <2>2. PICK c \in Entries : Turns(m, s, NoNick, Leaves, listed[s], c) /\ Flow(Tail(listBox), s, NoNick, Leaves, c, a)
    BY <1>1, <1>2, <2>1, FlowOfHead
  <2>3. c = listed'[s]
    BY <1>6, <2>2
  <2>4. Flow(listBox', s, NoNick, Leaves', listed'[s], a)
    BY <1>1, <1>3, <2>2, <2>3
  <2>5. AppTurns(app', s, welcome'[s], a, b)
    BY <1>1, <1>3, <2>1
  <2> QED
    BY <2>4, <2>5 DEF Upto
<1> QED
  BY <1>1, <1>7, FollowsSame

(* app.rs: App handles a message of the server, or its welcome.            *)
LEMMA FollowsHandled ==
  ASSUME ChatInv, AllOnce, RemovingInv, NEW s \in Sessions, Follows(s), ~early',
         AppConnects \/ AppUserJoined \/ AppUserLeft \/ AppNickChanged \/ AppChatMsg
  PROVE  Follows(s)'
<1> DEFINE m == Head(appBox)
<1>1. UNCHANGED <<AtServer, form, welcome, listed>>
  BY DEF AppConnects, AppUserJoined, AppUserLeft, AppNickChanged, AppChatMsg, AppFrame, AtServer, serverVars, connVars
<1>2. PICK t : /\ AppTakes(t)
               /\ t = "Connected" \/ (t \in {"UserJoined", "UserLeft", "NickChanged", "ChatMsg"} /\ linked)
  BY DEF AppConnects, AppUserJoined, AppUserLeft, AppNickChanged, AppChatMsg, Noted
<1>3. m.type = t /\ app = Idle /\ app.at = "idle"
  BY <1>2, AppBoxTaken DEF ChatInv, Idle
<1>4. t # "Connected" => m \in ServerMsgs /\ m.sid \in Sessions
  BY <1>2, AppTakesType DEF ChatInv
<1>5. PICK b, n \in Entries : /\ Flow(listBox, s, NoNick, FALSE, listed[s], b)
                              /\ Turns(m, s, welcome[s], FALSE, b, n)
                              /\ Upto(s, n)' => Follows(s)'
  BY <1>1, <1>2, NothingAhead, AppHandles
<1>6. NoNick \in Entries
  BY DEF Entries
<1>7. ASSUME NEW e \in Entries, NEW l \in ListMsgs, ToList(l),
             Turns(l, s, NoNick, Leaves', b, e), AppTurns(app', s, welcome'[s], e, n)
      PROVE  Follows(s)'
  <2>1. UNCHANGED listed
    BY <1>1
  <2>2. Upto(s, n)'
    BY <1>3, <1>5, <1>7, <2>1, ListTold
  <2> QED
    BY <1>5, <2>2
<1>8. CASE AppConnects
  <2>1. ToList(Clear) /\ app' = [at |-> "clearing"] /\ Clear \in ListMsgs /\ m.type = "Connected"
    BY <1>3, <1>8, PageMade DEF AppConnects, Await, AppTakes
  <2>2. Turns(Clear, s, NoNick, Leaves', b, NoNick)
    BY DEF Turns, Clear
  <2>3. n = welcome[s]
    BY <1>5, <2>1 DEF Turns
  <2>4. AppTurns(app', s, welcome'[s], NoNick, n)
    <3>1. welcome' = welcome /\ app'.at = "clearing"
      BY <1>1, <2>1
    <3> QED
      BY <2>3, <3>1 DEF AppTurns
  <2> QED
    BY <1>6, <1>7, <2>1, <2>2, <2>4
<1>9. CASE AppUserJoined
  <2> DEFINE l == Insert(Only(m.sid, m.nick))
  <2>1. ToList(l) /\ app' = app /\ m.type = "UserJoined"
    BY <1>9 DEF AppUserJoined, AppTakes
  <2>2. m.sid \in Sessions /\ m.nick \in Nicks
    BY <1>9, AppTakesType DEF AppUserJoined, ChatInv
  <2>3. l \in ListMsgs /\ l.type = "Insert" /\ l.users = Only(m.sid, m.nick)
    BY <2>2, PageMade DEF Insert
  <2>4. Only(m.sid, m.nick)[s] = IF s = m.sid THEN m.nick ELSE NoNick
    BY <2>2 DEF Only, Nobody
  <2>5. n = IF s = m.sid THEN m.nick ELSE b
    BY <1>5, <2>1 DEF Turns
  <2>6. Turns(l, s, NoNick, Leaves', b, n)
    <3>1. m.nick # NoNick
      BY <2>2, ChatServerAssumption
    <3> HIDE DEF l
    <3> QED
      BY <2>3, <2>4, <2>5, <3>1 DEF Turns
  <2>7. AppTurns(app', s, welcome'[s], n, n)
    BY <1>3, <2>1 DEF AppTurns
  <2> QED
    BY <1>7, <2>1, <2>3, <2>6, <2>7
<1>10. CASE AppUserLeft
  <2>1. ToList(Remove(m.sid)) /\ app' = [at |-> "removing", msg |-> m] /\ m.type = "UserLeft"
    BY <1>10 DEF AppUserLeft, Await, AppTakes
  <2>2. m.sid \in Sessions /\ Remove(m.sid) \in ListMsgs
    BY <1>3, <1>4, <2>1, PageMade
  <2>3. Leaves' => m.member
    BY <2>1 DEF Leaves
  <2>4. IF m.sid = s THEN (m.member => b # NoNick) /\ n = NoNick ELSE n = b
    BY <1>5, <2>1 DEF Turns
  <2>5. Turns(Remove(m.sid), s, NoNick, Leaves', b, n)
    <3>1. Remove(m.sid).type = "Remove" /\ Remove(m.sid).sid = m.sid
      BY DEF Remove
    <3>2. CASE m.sid = s
      <4>1. Leaves' => b # NoNick
        BY <2>3, <2>4, <3>2
      <4>2. n = NoNick
        BY <2>4, <3>2
      <4> QED
        BY <3>1, <3>2, <4>1, <4>2 DEF Turns
    <3>3. CASE m.sid # s
      BY <2>4, <3>1, <3>3 DEF Turns
    <3> QED
      BY <3>2, <3>3
  <2>6. AppTurns(app', s, welcome'[s], n, n)
    <3>1. app'.at = "removing"
      BY <2>1
    <3> QED
      BY <3>1 DEF AppTurns
  <2> QED
    BY <1>7, <2>1, <2>2, <2>5, <2>6
<1>11. CASE AppNickChanged
  <2>1. ToList(GetUser(m.sid)) /\ app' = [at |-> "asking", msg |-> m] /\ m.type = "NickChanged"
    BY <1>11 DEF AppNickChanged, Await, AppTakes
  <2>2. m.sid \in Sessions /\ GetUser(m.sid) \in ListMsgs
    BY <1>3, <1>4, <2>1, PageMade
  <2>3. IF m.sid = s THEN b # NoNick /\ n = m.nick ELSE n = b
    BY <1>5, <2>1 DEF Turns
  <2>4. Turns(GetUser(m.sid), s, NoNick, Leaves', b, b)
    BY <2>3 DEF Turns, GetUser
  <2>5. AppTurns(app', s, welcome'[s], b, n)
    <3>1. app'.at = "asking" /\ app'.msg = m
      BY <2>1
    <3> QED
      BY <2>3, <3>1 DEF AppTurns
  <2> QED
    BY <1>7, <2>1, <2>2, <2>4, <2>5
<1>12. CASE AppChatMsg
  <2>1. UNCHANGED <<app, listBox>> /\ m.type = "ChatMsg"
    BY <1>12 DEF AppChatMsg, AppTakes
  <2>2. n = b
    BY <1>5, <2>1 DEF Turns
  <2>3. Leaves' = FALSE
    BY <1>3, <2>1 DEF Leaves
  <2>4. Flow(listBox', s, NoNick, Leaves', listed'[s], n)
    BY <1>1, <1>5, <2>1, <2>2, <2>3
  <2>5. AppTurns(app', s, welcome'[s], n, n)
    BY <1>3, <2>1 DEF AppTurns
  <2>6. Upto(s, n)'
    BY <2>4, <2>5 DEF Upto
  <2> QED
    BY <1>5, <2>6
<1> QED
  BY <1>8, <1>9, <1>10, <1>11, <1>12

(* app.rs: App goes on with what it waited for.                            *)
LEMMA FollowsAwaited ==
  ASSUME ChatInv, NEW s \in Sessions, Follows(s), AppFills \/ AppLinks \/ AppTellsWindow \/ AppRenames
  PROVE  Follows(s)'
<1> USE DEF ChatInv
<1>1. UNCHANGED <<AtServer, AtPage>> /\ UNCHANGED welcome
  BY DEF AppFills, AppLinks, AppTellsWindow, AppRenames, AppFrame, AtServer, AtPage, serverVars, connVars
<1>2. SUFFICES ASSUME NEW b \in Entries, Upto(s, b) PROVE Upto(s, b)'
  BY <1>1, FollowsSame
<1>3. PICK a \in Entries : Flow(listBox, s, NoNick, Leaves, listed[s], a) /\ AppTurns(app, s, welcome[s], a, b)
  BY <1>2 DEF Upto
<1>4. listed \in [Sessions -> Entries] /\ NoNick \in Entries
  BY DEF PageShapes, UserMaps, Entries
<1>5. ASSUME listBox = <<>> PROVE a = listed[s]
  <2>1. Flow(<<>>, s, NoNick, Leaves, listed[s], a)
    BY <1>3, <1>5
  <2> QED
    BY <1>4, <2>1, FlowOfNone
<1>6. CASE AppFills
  <2>1. /\ app.at = "clearing" /\ listBox = <<>> /\ UNCHANGED listed
        /\ ToList(Insert(welcome)) /\ app' = [at |-> "greeting"]
    BY <1>6 DEF AppFills, AppFrame, Await
  <2>2. listed[s] = NoNick /\ b = welcome[s]
    BY <1>3, <1>5, <2>1 DEF AppTurns
  <2>3. Insert(welcome) \in ListMsgs /\ Insert(welcome).type = "Insert" /\ Insert(welcome).users = welcome
    BY PageMade DEF PageShapes, Insert
  <2>4. Turns(Insert(welcome), s, NoNick, Leaves', NoNick, b)
    BY <2>2, <2>3 DEF Turns
  <2>5. Flow(<<>>, s, NoNick, Leaves', NoNick, NoNick)
    BY <1>4, FlowOfNone
  <2>6. <<>> \in Seq(ListMsgs) /\ listBox' = Append(<<>>, Insert(welcome))
    BY <2>1 DEF ToList
  <2>7. Flow(listBox', s, NoNick, Leaves', NoNick, b)
    BY <2>3, <2>4, <2>5, <2>6, FlowOfMore
  <2>8. AppTurns(app', s, welcome'[s], b, b)
    <3>1. app'.at = "greeting"
      BY <2>1
    <3> QED
      BY <3>1 DEF AppTurns
  <2> QED
    BY <2>1, <2>2, <2>7, <2>8 DEF Upto
<1>7. CASE AppLinks
  <2>1. app.at = "greeting" /\ app' = Idle /\ UNCHANGED <<listBox, listed>>
    BY <1>7 DEF AppLinks, AppFrame, Await
  <2>2. app'.at = "idle"
    BY <2>1 DEF Idle
  <2>3. Leaves = FALSE /\ Leaves' = FALSE
    BY <2>1, <2>2 DEF Leaves
  <2>4. Flow(listBox', s, NoNick, Leaves', listed'[s], a)
    BY <1>3, <2>1, <2>3
  <2>5. AppTurns(app', s, welcome'[s], a, b)
    BY <1>3, <2>1, <2>2 DEF AppTurns
  <2> QED
    BY <2>4, <2>5 DEF Upto
<1>8. CASE AppTellsWindow \/ AppRenames
  <2>1. app.at \in {"removing", "asking"} /\ listBox = <<>> /\ app' = Idle /\ UNCHANGED listBox
    BY <1>8 DEF AppTellsWindow, AppRenames, ListHasAnswered, Await
  <2>2. app'.at = "idle"
    BY <2>1 DEF Idle
  <2>3. b = listed'[s]
    <3>1. CASE AppTellsWindow
      <4>1. app.at = "removing" /\ UNCHANGED listed
        BY <3>1 DEF AppTellsWindow, AppFrame
      <4> QED
        BY <1>3, <1>5, <2>1, <4>1 DEF AppTurns
    <3>2. CASE AppRenames
      <4>1. app.at = "asking" /\ listed' = [listed EXCEPT ![app.msg.sid] = app.msg.nick]
        BY <3>2 DEF AppRenames
      <4>2. b = IF app.msg.sid = s THEN app.msg.nick ELSE listed[s]
        BY <1>3, <1>5, <2>1, <4>1 DEF AppTurns
      <4> QED
        BY <1>4, <4>1, <4>2
    <3> QED
      BY <1>8, <3>1, <3>2
  <2>4. Flow(<<>>, s, NoNick, Leaves', b, b)
    BY FlowOfNone
  <2>5. Flow(listBox', s, NoNick, Leaves', listed'[s], b)
    BY <2>1, <2>3, <2>4
  <2>6. AppTurns(app', s, welcome'[s], b, b)
    BY <2>2 DEF AppTurns
  <2> QED
    BY <2>5, <2>6 DEF Upto
<1> QED
  BY <1>6, <1>7, <1>8

(* app.rs, chat_form.rs: what the user asks of App is not about anyone.    *)
LEMMA FollowsAsked ==
  ASSUME ChatInv, NEW s \in Sessions, Follows(s), AppAsks
  PROVE  Follows(s)'
<1> DEFINE m == Head(appBox)
<1>1. UNCHANGED <<AtServer, form, welcome, listBox, listed>> /\ (app' = app \/ app' = [at |-> "renaming"])
  BY DEF AppAsks, AppFrame, AtServer, connVars, Await
<1>2. PICK t \in {"NewChatMsg", "SetNick"} : AppTakes(t)
  BY DEF AppAsks
<1>3. /\ m.type = t /\ app = Idle /\ appBox' = Tail(appBox) /\ appBox \in Seq(AppMsgs) /\ appBox # <<>>
  BY <1>2, AppBoxTaken DEF ChatInv
<1>4. app.at = "idle" /\ app'.at \in {"idle", "renaming"}
  BY <1>1, <1>3 DEF Idle
<1>5. ~News(m)
  BY <1>3, PageMessages DEF News
<1>6. Ahead => Ahead'
  BY <1>1, <1>3, <1>5, MsgsOfHead DEF Ahead
<1>7. ASSUME NEW b \in Entries, Flow(listBox, s, NoNick, FALSE, listed[s], b) PROVE Upto(s, b)'
  <2>1. Leaves' = FALSE
    BY <1>4 DEF Leaves
  <2>2. Flow(listBox', s, NoNick, Leaves', listed'[s], b)
    BY <1>1, <1>7, <2>1
  <2>3. AppTurns(app', s, welcome'[s], b, b)
    BY <1>4 DEF AppTurns
  <2> QED
    BY <2>2, <2>3 DEF Upto
<1>8. CASE Ahead
  <2>1. PICK b \in Entries : Upto(s, b)
    BY DEF Follows
  <2>2. Upto(s, b)'
    BY <1>4, <1>7, <2>1, UptoIdle
  <2> QED
    BY <1>6, <1>8, <2>2 DEF Follows
<1>9. CASE ~Ahead
  <2>1. UNCHANGED <<AtServer, form, welcome>>
    BY <1>1
  <2>2. PICK b, n \in Entries : /\ Flow(listBox, s, NoNick, FALSE, listed[s], b)
                                /\ Turns(m, s, welcome[s], FALSE, b, n)
                                /\ Upto(s, n)' => Follows(s)'
    BY <1>2, <1>9, <2>1, AppHandles
  <2>3. n = b
    BY <1>3, <2>2 DEF Turns
  <2> QED
    BY <1>7, <2>2, <2>3
<1> QED
  BY <1>8, <1>9

(* ConnectForm, ChatForm.                                                  *)
LEMMA FollowsVisit ==
  ASSUME ChatInv, NEW s \in Sessions, Follows(s), Visit, ~left'
  PROVE  Follows(s)'
<1>1. ASSUME NEW n, SubmitConnect(n) PROVE Follows(s)'
  <2>1. /\ UNCHANGED <<AtServer, AtList, welcome, appBox>> /\ form = "shown" /\ form' = "joining"
    BY <1>1 DEF SubmitConnect, AtServer, AtList, connVars
  <2>2. Ahead' <=> Ahead
    BY <2>1 DEF Ahead
  <2>3. \A b : Arrives(s, b) => Arrives(s, b)'
    BY <2>1 DEF AtServer, Arrives, Reached, Sent, InTouch, Overtaken, Welcomed, Agrees
  <2>4. \A b : Upto(s, b)' <=> Upto(s, b)
    BY <2>1, UptoSame
  <2> QED
    BY <2>2, <2>3, <2>4 DEF Follows
<1>2. ASSUME NEW m \in Asks, ChatSubmit(m) PROVE Follows(s)'
  <2>1. /\ UNCHANGED <<AtServer, AtList, welcome, form>> /\ appBox' = Append(appBox, m)
    BY <1>2 DEF ChatSubmit, AtServer, AtList, connVars
  <2>2. /\ appBox \in Seq(AppMsgs) /\ m \in AppMsgs
        /\ m.type \in {"Join", "SetNick", "NewChatMsg"}
    BY PageMade, PageMessages DEF ChatInv, PageShapes
  <2>3. Ahead => Ahead'
    BY <2>1, <2>2, MsgsOfMore DEF Ahead
  <2>4. ASSUME NEW b \in Entries, Arrives(s, b) PROVE Arrives(s, b)'
    <3>1. PICK c \in Entries : Reached(s, b, c) /\ (InTouch => Sent(s, c))
      BY <2>4 DEF Arrives
    <3>2. PICK d \in Entries : /\ Flow(appBox, s, welcome[s], FALSE, b, d)
                               /\ c = IF form = "welcomed" THEN welcome[s] ELSE d
      BY <3>1 DEF Reached
    <3>3. Turns(m, s, welcome[s], FALSE, d, d)
      BY <2>2 DEF Turns
    <3>4. Flow(Append(appBox, m), s, welcome[s], FALSE, b, d)
      BY <2>2, <3>2, <3>3, FlowOfMore
    <3>5. Reached(s, b, c)'
      BY <2>1, <3>2, <3>4 DEF Reached
    <3>6. InTouch' => Sent(s, c)'
      BY <2>1, <3>1 DEF AtServer, Sent, InTouch, Overtaken, Welcomed, Agrees
    <3> QED
      BY <3>5, <3>6 DEF Arrives
  <2>5. \A b : Upto(s, b)' <=> Upto(s, b)
    BY <2>1, UptoSame
  <2> QED
    BY <2>3, <2>4, <2>5 DEF Follows
<1>3. ~ChatSubmit(Disconnect)
  BY DEF ChatSubmit
<1>4. NewChatMsg \in Asks /\ \A n \in Nicks : SetNick(n) \in Asks
  BY Messages
<1> QED
  BY <1>1, <1>2, <1>3, <1>4 DEF Visit

(* The client's peer hands the page an answer, or a broadcast.             *)
LEMMA FollowsRead ==
  ASSUME ChatInv, AllOnce, Cut, Untold, NEW s \in Sessions, Follows(s), Read(Me)
  PROVE  Follows(s)'
<1> USE DEF ChatInv
<1> DEFINE m == Head(out[Me])
<1>1. /\ out[Me] \in Seq(ServerMsgs \cup Replies) /\ out[Me] # <<>> /\ out'[Me] = Tail(out[Me])
      /\ m \in ServerMsgs \cup Replies
      /\ m.type \notin {"Welcome", "Refused", "NickAnswer"} <=> m \in ServerMsgs
      /\ UNCHANGED <<conn, users, replies, listBox, listed>>
  BY PageReads
<1>2. conn[Me] = "open"
  BY <1>1 DEF Cut
<1>3. appBox \in Seq(AppMsgs) /\ welcome[s] \in Entries
  BY DEF PageShapes, UserMaps, Entries
<1>4. PICK b \in Entries : Upto(s, b) /\ (Ahead \/ Arrives(s, b))
  BY DEF Follows
<1>5. /\ \A t : MsgIn(out[Me], t) <=> m.type = t \/ MsgIn(out'[Me], t)
      /\ NewsIn(out[Me]) <=> News(m) \/ NewsIn(out'[Me])
      /\ \A t : NewsBefore(out[Me], t) <=> NewsBefore(out'[Me], t) \/ (News(m) /\ MsgIn(out'[Me], t))
  BY <1>1, MsgsOfHead
<1>6. UNCHANGED Welcomed /\ \A d : Agrees(s, d)' <=> Agrees(s, d)
  BY <1>1 DEF Welcomed, Agrees
<1>7. ASSUME NEW c \in Entries, Sent(s, c)
      PROVE  \E e \in Entries : Turns(m, s, NoNick, FALSE, c, e) /\ Sent(s, e)'
  <2>1. PICK d \in Entries : Flow(out[Me], s, NoNick, FALSE, c, d) /\ (~Welcomed => Agrees(s, d))
    BY <1>7 DEF Sent
  <2>2. PICK e \in Entries : /\ Turns(m, s, NoNick, FALSE, c, e)
                             /\ Flow(Tail(out[Me]), s, NoNick, FALSE, e, d)
    BY <1>1, <2>1, FlowOfHead
  <2>3. Sent(s, e)'
    <3>1. Flow(out'[Me], s, NoNick, FALSE, e, d) /\ (~Welcomed' => Agrees(s, d)')
      BY <1>1, <1>6, <2>1, <2>2
    <3>2. \A r \in replies'[Me] : r.type = "Welcome" => Agrees(s, r.users[s])'
      BY <1>1, <1>6, <1>7 DEF Sent
    <3> QED
      BY <3>1, <3>2 DEF Sent
  <2> QED
    BY <2>2, <2>3
<1>8. CASE m.type = "Welcome"
  <2>1. form' = "welcomed" /\ welcome' = m.users /\ UNCHANGED <<appBox, app>>
    BY <1>8 DEF Read
  <2>2. /\ ~Welcomed /\ ~MsgIn(out'[Me], "Welcome") /\ form = "joining"
    <3>1. MsgsIn(out[Me], {"Welcome", "Refused"})
      BY <1>1, <1>8, MsgsOfHead
    <3>2. ~ReplyOf({"Welcome", "Refused"}) /\ Once(out[Me], {"Welcome", "Refused"}) /\ form = "joining"
      BY <3>1 DEF AllOnce, AnsweredOnce, JoinRound, OneRound, Joining, Awaits
    <3>3. ~MsgsIn(out'[Me], {"Welcome", "Refused"})
      BY <1>1, <1>8, <3>2, MsgsOfHead
    <3> QED
      BY <3>2, <3>3 DEF ReplyOf, Welcomed, MsgsIn, MsgIn
  <2>3. ~MsgIn(appBox, "Connected") /\ app.at # "clearing"
    BY <2>2 DEF AllOnce, LinkedOnce, Linking
  <2>4. Upto(s, b)'
    <3>1. PICK a \in Entries : /\ Flow(listBox, s, NoNick, Leaves, listed[s], a)
                               /\ AppTurns(app, s, welcome[s], a, b)
      BY <1>4 DEF Upto
    <3>2. AppTurns(app', s, welcome'[s], a, b)
      BY <2>1, <2>3, <3>1 DEF AppTurns
    <3>3. UNCHANGED Leaves
      BY <2>1 DEF Leaves
    <3>4. Flow(listBox', s, NoNick, Leaves', listed'[s], a)
      BY <1>1, <3>1, <3>3
    <3> QED
      BY <3>2, <3>4 DEF Upto
  <2>5. Ahead' <=> Ahead
    BY <2>1, <2>2 DEF Ahead
  <2>6. ASSUME Arrives(s, b) PROVE Arrives(s, b)'
    <3>1. PICK c \in Entries : Reached(s, b, c) /\ (InTouch => Sent(s, c))
      BY <2>6 DEF Arrives
    <3>2. PICK d \in Entries : Flow(appBox, s, welcome[s], FALSE, b, d)
      BY <3>1 DEF Reached
    <3>3. \A i \in DOMAIN appBox : appBox[i].type # "Connected"
      BY <2>3 DEF MsgIn
    <3>4. Flow(appBox, s, welcome'[s], FALSE, b, d)
      BY <1>3, <3>2, <3>3, FlowKept
    <3>5. PICK n \in Entries : n = m.users[s]
      BY <1>1, <1>8, PageMessages DEF UserMaps, Entries
    <3>6. Reached(s, b, n)'
      BY <2>1, <3>4, <3>5 DEF Reached
    <3>7. ASSUME InTouch' PROVE Sent(s, n)'
      <4>1. ~Overtaken
        <5>1. ~News(m)
          BY <1>8, PageMessages DEF News
        <5>2. NewsBefore(out'[Me], "Welcome") => MsgIn(out'[Me], "Welcome")
          BY DEF NewsBefore, MsgIn
        <5> QED
          BY <1>5, <2>2, <5>1, <5>2 DEF Overtaken
      <4>2. Sent(s, c)
        BY <1>1, <1>2, <3>1, <3>7, <4>1 DEF InTouch
      <4>3. PICK e \in Entries : Turns(m, s, NoNick, FALSE, c, e) /\ Sent(s, e)'
        BY <1>7, <4>2
      <4>4. e = n
        BY <1>8, <3>5, <4>3 DEF Turns
      <4> QED
        BY <4>3, <4>4
    <3> QED
      BY <3>5, <3>6, <3>7 DEF Arrives
  <2> QED
    BY <1>4, <2>4, <2>5, <2>6 DEF Follows
<1>9. CASE m.type \in {"Refused", "NickAnswer"}
  <2>1. UNCHANGED <<appBox, welcome>>
    BY <1>9 DEF Read
  <2>2. \/ UNCHANGED form
        \/ form # "hidden" /\ form # "welcomed" /\ form' # "hidden" /\ form' # "welcomed"
    <3>1. CASE m.type = "NickAnswer"
      BY <3>1 DEF Read
    <3>2. CASE m.type = "Refused"
      <4>1. MsgsIn(out[Me], {"Welcome", "Refused"})
        BY <1>1, <3>2, MsgsOfHead
      <4>2. form = "joining"
        BY <4>1 DEF AllOnce, AnsweredOnce, Joining, Awaits
      <4> QED
        BY <3>2, <4>2 DEF Read
    <3> QED
      BY <1>9, <3>1, <3>2
  <2>3. \/ UNCHANGED app
        \/ app.at = "renaming" /\ app'.at = "idle"
    <3>1. CASE m.type = "Refused"
      BY <3>1 DEF Read
    <3>2. CASE m.type = "NickAnswer"
      <4>1. MsgsIn(out[Me], {"NickAnswer"})
        BY <1>1, <3>2, MsgsOfHead
      <4>2. app.at = "renaming"
        BY <4>1 DEF AllOnce, RenamedOnce, Renaming, Awaits
      <4> QED
        BY <3>2, <4>2 DEF Read, Idle
    <3> QED
      BY <1>9, <3>1, <3>2
  <2>4. Upto(s, b)'
    <3>1. PICK a \in Entries : /\ Flow(listBox, s, NoNick, Leaves, listed[s], a)
                               /\ AppTurns(app, s, welcome[s], a, b)
      BY <1>4 DEF Upto
    <3>2. AppTurns(app', s, welcome'[s], a, b)
      BY <2>1, <2>3, <3>1 DEF AppTurns
    <3>3. UNCHANGED Leaves
      BY <2>3 DEF Leaves
    <3>4. Flow(listBox', s, NoNick, Leaves', listed'[s], a)
      BY <1>1, <3>1, <3>3
    <3> QED
      BY <3>2, <3>4 DEF Upto
  <2>5. Ahead' <=> Ahead
    BY <2>1, <2>2 DEF Ahead
  <2>6. ASSUME Arrives(s, b) PROVE Arrives(s, b)'
    <3>1. PICK c \in Entries : Reached(s, b, c) /\ (InTouch => Sent(s, c))
      BY <2>6 DEF Arrives
    <3>2. Reached(s, b, c)'
      BY <2>1, <2>2, <3>1 DEF Reached
    <3>3. ASSUME InTouch' PROVE Sent(s, c)'
      <4>1. ~News(m)
        BY <1>9, PageMessages DEF News
      <4>2. m.type # "Welcome"
        BY <1>9
      <4>3. Overtaken <=> Overtaken'
        BY <1>5, <1>6, <4>1, <4>2 DEF Overtaken
      <4>4. Sent(s, c)
        BY <1>1, <1>2, <3>1, <3>3, <4>3 DEF InTouch
      <4>5. PICK e \in Entries : Turns(m, s, NoNick, FALSE, c, e) /\ Sent(s, e)'
        BY <1>7, <4>4
      <4>6. e = c
        BY <1>9, <4>5 DEF Turns
      <4> QED
        BY <4>5, <4>6
    <3> QED
      BY <3>2, <3>3 DEF Arrives
  <2> QED
    BY <1>4, <2>4, <2>5, <2>6 DEF Follows
<1>10. CASE m \in ServerMsgs
  <2>1. appBox' = Append(appBox, m) /\ UNCHANGED <<form, welcome, app>>
    BY <1>1, <1>10 DEF Read
  <2>2. m \in AppMsgs /\ News(m) /\ m.type # "Welcome" /\ m.type # "Connected"
    BY <1>10, PageMade, PageMessages DEF News
  <2>3. Upto(s, b)'
    BY <1>1, <1>4, <2>1, UptoSame DEF AtList
  <2>4. Ahead \/ form # "hidden" => Ahead'
    BY <1>3, <2>1, <2>2, MsgsOfMore DEF Ahead
  <2>5. ASSUME Arrives(s, b), form = "hidden" PROVE Arrives(s, b)'
    <3>1. PICK c \in Entries : Reached(s, b, c) /\ (InTouch => Sent(s, c))
      BY <2>5 DEF Arrives
    <3>2. users[Me] # NoNick
      BY <1>2, <1>5, <2>2 DEF Untold
    <3>3. ~Overtaken
      <4>1. ~ReplyOf({"Welcome", "Refused"}) /\ ~MsgsIn(out[Me], {"Welcome", "Refused"})
        BY <2>5 DEF AllOnce, AnsweredOnce, Joining, Awaits
      <4> QED
        BY <4>1 DEF Overtaken, ReplyOf, Welcomed, MsgsIn, NewsBefore
    <3>4. Sent(s, c)
      BY <1>2, <3>1, <3>2, <3>3 DEF InTouch
    <3>5. PICK e \in Entries : Turns(m, s, NoNick, FALSE, c, e) /\ Sent(s, e)'
      BY <1>7, <3>4
    <3>6. Turns(m, s, welcome[s], FALSE, c, e)
      BY <2>2, <3>5 DEF Turns
    <3>7. Flow(appBox, s, welcome[s], FALSE, b, c)
      BY <2>5, <3>1 DEF Reached
    <3>8. Flow(appBox', s, welcome[s], FALSE, b, e)
      BY <1>3, <2>1, <2>2, <3>6, <3>7, FlowOfMore
    <3>9. Reached(s, b, e)'
      BY <2>1, <2>5, <3>8 DEF Reached
    <3> QED
      BY <3>5, <3>9 DEF Arrives
  <2> QED
    BY <1>4, <2>3, <2>4, <2>5 DEF Follows
<1> QED
  BY <1>1, <1>8, <1>9, <1>10

(* server.rs: what the server sends, and to whom, keeps the page with it.  *)
LEMMA FollowsServer ==
  ASSUME ChatInv, EnteredInv, JoinsOnce, Untold, NEW s \in Sessions, Follows(s), ServerStep,
         UNCHANGED pageVars
  PROVE  Follows(s)'
<1> USE DEF ChatInv, ServerInv
<1>1. UNCHANGED <<conn, form, welcome, appBox, app, listBox, listed>>
  BY ServerForMe DEF pageVars
<1>2. PICK b \in Entries : Upto(s, b) /\ (Ahead \/ Arrives(s, b))
  BY DEF Follows
<1>3. Upto(s, b)' /\ (Ahead => Ahead')
  BY <1>1, <1>2, UptoSame DEF AtList, Ahead
<1>4. SUFFICES ASSUME NEW c \in Entries, InTouch => Sent(s, c), InTouch' PROVE Sent(s, c)'
  <2>1. ASSUME NEW c \in Entries, Reached(s, b, c) PROVE Reached(s, b, c)'
    BY <1>1, <2>1 DEF Reached
  <2> QED
    BY <1>2, <1>3, <2>1 DEF Follows, Arrives
<1>5. out[Me] \in Seq(ServerMsgs \cup Replies)
  BY MeIsASession DEF Shapes
<1>6. /\ conn[Me] = "open" /\ users'[Me] # NoNick /\ ~Overtaken'
  BY <1>1, <1>4 DEF InTouch
<1>7. CASE Silent
  <2>1. Welcomed' <=> Welcomed
    BY <1>7 DEF Silent, SameWelcome, Welcomed
  <2>2. users[Me] # NoNick /\ \A r \in Sessions \ {Me} : users'[r] = users[r]
    BY <1>6, <1>7 DEF Silent
  <2>3. Overtaken' <=> Overtaken
    BY <1>7, <2>1 DEF Silent, Overtaken
  <2>4. Sent(s, c)
    BY <1>4, <1>6, <2>2, <2>3 DEF InTouch
  <2>5. \A d : Agrees(s, d)' <=> Agrees(s, d)
    BY <2>2 DEF Agrees
  <2>6. PICK d \in Entries : Flow(out[Me], s, NoNick, FALSE, c, d) /\ (~Welcomed => Agrees(s, d))
    BY <2>4 DEF Sent
  <2>7. Flow(out'[Me], s, NoNick, FALSE, c, d) /\ (~Welcomed' => Agrees(s, d)')
    BY <1>7, <2>1, <2>5, <2>6 DEF Silent
  <2>8. \A r \in replies'[Me] : r.type = "Welcome" => Agrees(s, r.users[s])'
    BY <1>7, <2>4, <2>5 DEF Silent, SameWelcome, Sent
  <2> QED
    BY <2>7, <2>8 DEF Sent
<1>8. ASSUME NEW m, Told(m) PROVE Sent(s, c)'
  <2>1. m \in ServerMsgs \cup Replies /\ News(m) /\ m.type # "Welcome"
    BY <1>8, PageMessages DEF Told, News
  <2>2. out'[Me] = Append(out[Me], m) /\ SameWelcome
    BY <1>8 DEF Told
  <2>3. NewsIn(out'[Me]) /\ (NewsBefore(out'[Me], "Welcome") <=> NewsBefore(out[Me], "Welcome"))
    BY <1>5, <2>1, <2>2, MsgsOfMore
  <2>4. Welcomed' <=> Welcomed
    BY <2>2 DEF SameWelcome, Welcomed
  <2>5. ~Welcomed /\ ~Overtaken
    BY <1>6, <2>3, <2>4 DEF Overtaken
  <2>6. Sent(s, c)
    BY <1>4, <1>6, <1>8, <2>5 DEF InTouch, Told
  <2>7. PICK d \in Entries : Flow(out[Me], s, NoNick, FALSE, c, d) /\ Agrees(s, d)
    BY <2>5, <2>6 DEF Sent
  <2>8. PICK e \in Entries : Turns(m, s, NoNick, FALSE, d, e) /\ Agrees(s, e)'
    BY <1>8, <2>7 DEF Told
  <2>9. Flow(Append(out[Me], m), s, NoNick, FALSE, c, e)
    BY <1>5, <2>1, <2>7, <2>8, FlowOfMore
  <2>10. Flow(out'[Me], s, NoNick, FALSE, c, e)
    BY <2>2, <2>9
  <2>11. \A r \in replies'[Me] : r.type # "Welcome"
    BY <2>4, <2>5 DEF Welcomed
  <2> QED
    BY <2>8, <2>10, <2>11 DEF Sent
<1>9. CASE LetMeIn
  <2>1. ~NewsIn(out[Me]) /\ ~Welcomed /\ ~MsgIn(out[Me], "Welcome")
    BY <1>6, <1>9 DEF LetMeIn, Untold, EnteredInv, PageEntered, Welcomed
  <2>2. ASSUME NEW i \in DOMAIN out[Me] PROVE Turns(out[Me][i], s, NoNick, FALSE, c, c)
    <3>1. out[Me][i] \in Replies /\ out[Me][i].type # "Welcome"
      BY <1>5, <2>1 DEF NewsIn, News, MsgIn
    <3>2. out[Me][i].type \in {"Refused", "NickAnswer"}
      BY <3>1, PageMessages
    <3> QED
      BY <3>2 DEF Turns
  <2>3. Flow(out[Me], s, NoNick, FALSE, c, c)
    BY <1>5, <2>2, FlowOfIdle
  <2>4. out'[Me] = out[Me] /\ replies'[Me] = replies[Me] \cup {Welcome(users')}
    BY <1>9 DEF LetMeIn
  <2>5. Welcomed'
    <3>1. Welcome(users').type = "Welcome" /\ Welcome(users') \in replies'[Me]
      BY <2>4 DEF Welcome
    <3> QED
      BY <3>1 DEF Welcomed
  <2>6. \A r \in replies'[Me] : r.type = "Welcome" => r.users = users'
    BY <2>1, <2>4 DEF Welcomed, Welcome
  <2>7. \A r \in replies'[Me] : r.type = "Welcome" => Agrees(s, r.users[s])'
    BY <1>6, <2>6 DEF Agrees
  <2>8. Flow(out'[Me], s, NoNick, FALSE, c, c)
    BY <2>3, <2>4
  <2> QED
    BY <2>5, <2>7, <2>8 DEF Sent
<1>10. ASSUME NEW r, AnswersMe(r) PROVE Sent(s, c)'
  <2>1. /\ r \in replies[Me] /\ out'[Me] = Append(out[Me], r) /\ replies'[Me] = replies[Me] \ {r}
        /\ UNCHANGED users
    BY <1>10 DEF AnswersMe
  <2>2. r \in Replies
    BY <2>1, MeIsASession DEF Shapes
  <2>3. ~News(r) /\ r.type \in {"Welcome", "Refused", "NickAnswer"}
    BY <2>2, PageMessages DEF News
  <2>4. /\ NewsIn(out'[Me]) <=> NewsIn(out[Me])
        /\ NewsBefore(out'[Me], "Welcome") <=>
             NewsBefore(out[Me], "Welcome") \/ (NewsIn(out[Me]) /\ r.type = "Welcome")
    BY <1>5, <2>1, <2>2, <2>3, MsgsOfMore
  <2>5. Welcomed => r.type = "Welcome" \/ Welcomed'
    BY <2>1 DEF Welcomed
  <2>6. ~Overtaken
    BY <1>6, <2>4, <2>5 DEF Overtaken
  <2>7. Sent(s, c)
    BY <1>4, <1>6, <2>1, <2>6 DEF InTouch
  <2>8. \A d : Agrees(s, d)' <=> Agrees(s, d)
    BY <2>1 DEF Agrees
  <2>9. \A x \in replies'[Me] : x.type = "Welcome" => Agrees(s, x.users[s])'
    BY <2>1, <2>7, <2>8 DEF Sent
  <2>10. PICK d \in Entries : Flow(out[Me], s, NoNick, FALSE, c, d) /\ (~Welcomed => Agrees(s, d))
    BY <2>7 DEF Sent
  <2>11. \E e \in Entries : Turns(r, s, NoNick, FALSE, d, e) /\ (~Welcomed' => Agrees(s, e))
    <3>1. CASE r.type = "Welcome"
      <4>1. r.users[s] \in Entries
        BY <2>2, <3>1, PageMessages DEF UserMaps, Entries
      <4>2. Agrees(s, r.users[s])
        BY <2>1, <2>7, <3>1 DEF Sent
      <4>3. Turns(r, s, NoNick, FALSE, d, r.users[s])
        BY <3>1 DEF Turns
      <4> QED
        BY <4>1, <4>2, <4>3
    <3>2. CASE r.type # "Welcome"
      <4>1. Turns(r, s, NoNick, FALSE, d, d)
        BY <2>3, <3>2 DEF Turns
      <4>2. Welcomed' <=> Welcomed
        BY <2>1, <3>2 DEF Welcomed
      <4> QED
        BY <2>10, <4>1, <4>2
    <3> QED
      BY <3>1, <3>2
  <2>12. PICK e \in Entries : Turns(r, s, NoNick, FALSE, d, e) /\ (~Welcomed' => Agrees(s, e))
    BY <2>11
  <2>13. Flow(Append(out[Me], r), s, NoNick, FALSE, c, e)
    BY <1>5, <2>2, <2>10, <2>12, FlowOfMore
  <2>14. Flow(out'[Me], s, NoNick, FALSE, c, e) /\ (~Welcomed' => Agrees(s, e)')
    BY <2>1, <2>8, <2>12, <2>13
  <2> QED
    BY <2>9, <2>14 DEF Sent
<1> QED
  BY <1>7, <1>8, <1>9, <1>10, ServerForMe

(* Every step of a page that no broadcast was early for and whose user     *)
(* stays.                                                                  *)
LEMMA FollowsStep ==
  ASSUME ChatInv, EnteredInv, JoinsOnce, OnlyOnLeave, AllOnce, RemovingInv, Cut, Untold,
         ~left, ~left', ~early', NEW s \in Sessions, Follows(s), [Next]_vars
  PROVE  Follows(s)'
<1> USE MeIsASession
<1>1. ASSUME UNCHANGED <<AtServer, AtPage, AtList>> PROVE Follows(s)'
  <2>1. \A b : Upto(s, b)' <=> Upto(s, b)
    BY <1>1, UptoSame DEF AtPage
  <2> QED
    BY <1>1, <2>1, FollowsSame
<1>2. CASE PageStep
  <2>1. CASE CallCancelled \/ WindowStep
    BY <1>1, <2>1 DEF CallCancelled, WindowStep, AtServer, AtPage, AtList, serverVars, connVars
  <2>2. CASE AppDisconnects
    <3>1. AppTakes("Disconnect")
      BY <2>2 DEF AppDisconnects
    <3> QED
      BY <3>1, AppBoxTaken DEF OnlyOnLeave, ChatInv
  <2>3. CASE \E r \in Watched : Read(r)
    BY <2>3, FollowsRead
  <2> QED
    BY <1>2, <2>1, <2>2, <2>3, FollowsConnected, FollowsList, FollowsHandled, FollowsAwaited,
       FollowsAsked DEF PageStep
<1>3. ASSUME NEW r \in Sessions, PeerCloses(r), UNCHANGED pageVars PROVE Follows(s)'
  <2>1. UNCHANGED <<AtPage, AtList, welcome>>
    BY <1>3 DEF pageVars, AtPage, AtList
  <2>2. CASE r # Me
    <3>1. /\ conn'[Me] = conn[Me] /\ out'[Me] = out[Me] /\ replies'[Me] = replies[Me]
          /\ UNCHANGED users
      BY <1>3, <2>2 DEF PeerCloses, ChatInv, ServerInv, Shapes
    <3>2. /\ Ahead' <=> Ahead
          /\ \A b : Arrives(s, b)' <=> Arrives(s, b)
      BY <2>1, <3>1 DEF AtPage, Ahead, Arrives, Reached, Sent, InTouch, Overtaken, Welcomed, Agrees
    <3> QED
      BY <2>1, <3>2, UptoSame DEF Follows
  <2>3. CASE r = Me
    <3>1. ~InTouch'
      BY <1>3, <2>3 DEF PeerCloses, ChatInv, ServerInv, Shapes, InTouch
    <3>2. /\ Ahead' <=> Ahead
          /\ \A b : Arrives(s, b) => Arrives(s, b)'
      BY <2>1, <3>1 DEF AtPage, Ahead, Arrives, Reached
    <3> QED
      BY <2>1, <3>2, UptoSame DEF Follows
  <2> QED
    BY <2>2, <2>3
<1>4. ASSUME NEW r \in Sessions, ClientStep(r), UNCHANGED pageVars PROVE Follows(s)'
  BY <1>1, <1>4 DEF ClientStep, ClientAsks, connVars, AtServer, AtPage, AtList, pageVars
<1>5. CASE UNCHANGED vars
  BY <1>1, <1>5 DEF vars, serverVars, connVars, pageVars, AtServer, AtPage, AtList
<1> QED
  BY <1>2, <1>3, <1>4, <1>5, FollowsVisit, FollowsServer DEF Next

-----------------------------------------------------------------------------
(* chat_window.rs: ChatWindow hears of whoever the list shows, and of whom *)
(* App has had removed from it, before it is told that they left.          *)
Shows(s, b) == /\ listed[s] # NoNick => b # NoNick
               /\ Leaves /\ app.msg.sid = s /\ listBox = <<>> => b # NoNick

WindowKnows(s) == \E a, b \in Entries : /\ a # NoNick <=> s \in known
                                        /\ Flow(winBox, s, NoNick, FALSE, a, b)
                                        /\ Shows(s, b)

(* app.rs: App tells it of no one who joined or has another nick.          *)
OnlyLeavers == ~MsgsIn(winBox, {"UserJoined", "NickChanged"})

(* chat_window.rs: a step that ChatWindow does not see.                    *)
LEMMA WindowSame ==
  ASSUME NEW s, WindowKnows(s), OnlyLeavers, UNCHANGED <<winBox, known>>,
         \A b \in Entries : Shows(s, b) => Shows(s, b)'
  PROVE  WindowKnows(s)' /\ OnlyLeavers'
BY DEF WindowKnows, OnlyLeavers

(* app.rs, user_list.rs: ChatWindow is sent a message.                     *)
LEMMA WindowTold ==
  ASSUME PageShapes, NEW s, WindowKnows(s), OnlyLeavers, NEW m \in WinMsgs, ToWindow(m), UNCHANGED known,
         m.type \notin {"UserJoined", "NickChanged"},
         \A b \in Entries : Shows(s, b) =>
           \E e \in Entries : Turns(m, s, NoNick, FALSE, b, e) /\ Shows(s, e)'
  PROVE  WindowKnows(s)' /\ OnlyLeavers'
<1>1. winBox \in Seq(WinMsgs) /\ winBox' = Append(winBox, m)
  BY WinBoxGrows
<1>2. PICK a, b \in Entries : (a # NoNick <=> s \in known) /\ Flow(winBox, s, NoNick, FALSE, a, b) /\ Shows(s, b)
  BY DEF WindowKnows
<1>3. PICK e \in Entries : Turns(m, s, NoNick, FALSE, b, e) /\ Shows(s, e)'
  BY <1>2
<1>4. Flow(winBox', s, NoNick, FALSE, a, e)
  BY <1>1, <1>2, <1>3, FlowOfMore
<1>5. WindowKnows(s)'
  BY <1>2, <1>3, <1>4 DEF WindowKnows
<1>6. OnlyLeavers'
  BY <1>1, MsgsOfMore DEF OnlyLeavers
<1> QED
  BY <1>5, <1>6

(* app.rs: an App that does not come to wait for a removal.                *)
LEMMA ShowsSame ==
  ASSUME NEW s, UNCHANGED listed,
         Leaves' /\ listBox' = <<>> => Leaves /\ app'.msg = app.msg /\ listBox = <<>>
  PROVE  \A b : Shows(s, b) => Shows(s, b)'
BY DEF Shows

(* chat_window.rs: ChatWindow handles a message.                           *)
LEMMA WindowHandles ==
  ASSUME PageShapes, OnlyOnLeave, ~left, NEW s \in Sessions, WindowKnows(s), OnlyLeavers, WindowStep
  PROVE  /\ WindowKnows(s)' /\ OnlyLeavers'
         /\ Head(winBox).type = "UserLeft" /\ Head(winBox).sid = s /\ s \notin known => ~Head(winBox).member
<1> DEFINE m == Head(winBox)
<1>1. /\ winBox # <<>> /\ winBox' = Tail(winBox) /\ UNCHANGED <<listed, listBox, app>>
      /\ known' = CASE m.type = "NewUser"    -> known \cup Present(m.users)
                    [] m.type = "UserLeft"   -> known \ {m.sid}
                    [] m.type = "Disconnect" -> {}
                    [] OTHER                 -> known
  BY DEF WindowStep
<1>2. /\ winBox \in Seq(WinMsgs) /\ m \in WinMsgs
      /\ \A u : MsgIn(winBox, u) <=> m.type = u \/ MsgIn(winBox', u)
  BY <1>1, WinBoxTaken
<1>3. PICK a, b \in Entries : (a # NoNick <=> s \in known) /\ Flow(winBox, s, NoNick, FALSE, a, b) /\ Shows(s, b)
  BY DEF WindowKnows
<1>4. PICK c \in Entries : Turns(m, s, NoNick, FALSE, a, c) /\ Flow(Tail(winBox), s, NoNick, FALSE, c, b)
  BY <1>1, <1>2, <1>3, FlowOfHead
<1>5. MsgsIn(winBox, {"UserJoined", "NickChanged"}) <=>
        m.type \in {"UserJoined", "NickChanged"} \/ MsgsIn(winBox', {"UserJoined", "NickChanged"})
  BY <1>1, <1>2, MsgsOfHead
<1>6. m.type \in {"NewUser", "UserLeft", "ChatMsg", "Greeting"}
  <2>1. m.type # "Disconnect"
    BY <1>2 DEF OnlyOnLeave
  <2>2. m.type \in {"NewUser", "UserLeft", "ChatMsg", "Greeting", "Disconnect", "UserJoined", "NickChanged"}
    BY <1>2, PageMessages DEF WinMsgs, Greeting
  <2> QED
    BY <1>5, <2>1, <2>2 DEF OnlyLeavers
<1>7. c # NoNick <=> s \in known'
  <2>1. CASE m.type = "NewUser"
    <3>1. known' = known \cup Present(m.users)
      BY <1>1, <2>1
    <3>2. c = IF m.users[s] # NoNick THEN m.users[s] ELSE a
      BY <1>4, <2>1 DEF Turns
    <3> QED
      BY <1>3, <3>1, <3>2 DEF Present
  <2>2. CASE m.type = "UserLeft"
    <3>1. known' = known \ {m.sid}
      BY <1>1, <2>2
    <3>2. c = IF m.sid = s THEN NoNick ELSE a
      BY <1>4, <2>2 DEF Turns
    <3> QED
      BY <1>3, <3>1, <3>2
  <2>3. CASE m.type \in {"ChatMsg", "Greeting"}
    <3>1. known' = known
      BY <1>1, <2>3
    <3>2. c = a
      BY <1>4, <2>3 DEF Turns
    <3> QED
      BY <1>3, <3>1, <3>2
  <2> QED
    BY <1>6, <2>1, <2>2, <2>3
<1>8. Shows(s, b)'
  BY <1>1, <1>3, ShowsSame DEF Leaves
<1>9. WindowKnows(s)'
  BY <1>1, <1>4, <1>7, <1>8 DEF WindowKnows
<1>10. OnlyLeavers'
  BY <1>5 DEF OnlyLeavers
<1>11. m.type = "UserLeft" /\ m.sid = s /\ s \notin known => ~m.member
  BY <1>3, <1>4 DEF Turns
<1> QED
  BY <1>9, <1>10, <1>11

(* user_list.rs: UserList changes what it shows, and tells ChatWindow.     *)
LEMMA WindowList ==
  ASSUME ChatInv, RemovingInv, NEW s \in Sessions, Follows(s), WindowKnows(s), OnlyLeavers, ListStep
  PROVE  /\ WindowKnows(s)' /\ OnlyLeavers'
         /\ Head(listBox).type = "GetUser" /\ Head(listBox).sid = s => listed[s] # NoNick
<1> USE DEF ChatInv
<1> DEFINE m == Head(listBox)
<1>1. UNCHANGED <<app, known>> /\ listBox # <<>> /\ listBox' = Tail(listBox)
  BY DEF ListStep
<1>2. /\ listBox \in Seq(ListMsgs) /\ m \in ListMsgs
      /\ listBox' = <<>> => listBox[Len(listBox)] = m
  BY <1>1, ListBoxTaken
<1>3. /\ m.type \in {"Clear", "Insert", "Remove", "GetUser"}
      /\ m.type = "Insert" => m.users \in UserMaps
      /\ m.type \in {"Remove", "GetUser"} => m.sid \in Sessions
  BY <1>2, PageMessages
<1>4. listed \in [Sessions -> Entries] /\ NoNick \in Entries
  BY DEF PageShapes, UserMaps, Entries
<1>5. UNCHANGED Leaves
  BY <1>1 DEF Leaves
<1>6. Leaves /\ listBox' = <<>> => m.type = "Remove" /\ m.sid = app.msg.sid
  BY <1>1, <1>2 DEF RemovingInv, Leaves, Remove
<1>7. PICK a \in Entries, c \in Entries : Turns(m, s, NoNick, Leaves, listed[s], c)
  <2>1. PICK a, b \in Entries : Flow(listBox, s, NoNick, Leaves, listed[s], a)
    BY DEF Follows, Upto
  <2> QED
    BY <1>1, <1>2, <2>1, FlowOfHead
<1>8. m.type = "Remove" /\ m.sid = s /\ Leaves => listed[s] # NoNick
  BY <1>7 DEF Turns
<1>9. m.type = "GetUser" /\ m.sid = s => listed[s] # NoNick
  BY <1>7 DEF Turns
<1>10. CASE m.type # "Insert"
  <2>1. UNCHANGED winBox /\ (listed'[s] = listed[s] \/ listed'[s] = NoNick)
    <3>1. CASE m.type = "Clear"
      BY <1>10, <3>1 DEF ListStep, Nobody
    <3>2. CASE m.type = "GetUser"
      BY <1>10, <3>2 DEF ListStep
    <3>3. CASE m.type = "Remove"
      <4>1. listed' = [listed EXCEPT ![m.sid] = NoNick] /\ UNCHANGED winBox
        BY <3>3 DEF ListStep
      <4> QED
        BY <1>4, <4>1
    <3> QED
      BY <1>3, <1>10, <3>1, <3>2, <3>3
  <2>2. \A b \in Entries : Shows(s, b) => Shows(s, b)'
    BY <1>1, <1>5, <1>6, <1>8, <2>1 DEF Shows
  <2>3. UNCHANGED <<winBox, known>>
    BY <1>1, <2>1
  <2> QED
    BY <1>9, <2>2, <2>3, WindowSame
<1>11. CASE m.type = "Insert"
  <2> DEFINE t == NewUser(Unseen(m.users))
  <2>1. listed' = Merge(listed, m.users) /\ ToWindow(t)
    BY <1>11 DEF ListStep
  <2>2. t \in WinMsgs /\ t.type = "NewUser" /\ t.users = Unseen(m.users)
    BY <1>3, <1>11, MapsMerged, PageMade DEF PageShapes, NewUser
  <2>3. Unseen(m.users)[s] = IF listed[s] = NoNick THEN m.users[s] ELSE NoNick
    BY DEF Unseen
  <2>4. listed'[s] = IF m.users[s] # NoNick THEN m.users[s] ELSE listed[s]
    BY <2>1 DEF Merge
  <2>5. m.users[s] \in Entries
    BY <1>3, <1>11 DEF UserMaps, Entries
  <2>6. ~(Leaves' /\ listBox' = <<>>)
    BY <1>5, <1>6, <1>11
  <2>7. ASSUME NEW b \in Entries, Shows(s, b)
        PROVE  \E e \in Entries : Turns(t, s, NoNick, FALSE, b, e) /\ Shows(s, e)'
    <3> DEFINE e == IF t.users[s] # NoNick THEN t.users[s] ELSE b
    <3>1. PICK n \in Entries : n = e
      BY <2>2, <2>3, <2>5, <1>4
    <3>2. Turns(t, s, NoNick, FALSE, b, n)
      BY <2>2, <3>1 DEF Turns
    <3>3. listed'[s] # NoNick => n # NoNick
      BY <2>2, <2>3, <2>4, <2>7, <3>1 DEF Shows
    <3>4. Shows(s, n)'
      BY <2>6, <3>3 DEF Shows
    <3> QED
      BY <3>2, <3>4
  <2> HIDE DEF t
  <2>8. WindowKnows(s)' /\ OnlyLeavers'
    BY <1>1, <2>1, <2>2, <2>7, WindowTold
  <2> QED
    BY <1>11, <2>8
<1> QED
  BY <1>10, <1>11

(* app.rs: App tells ChatWindow something, or nothing.                     *)
LEMMA WindowApp ==
  ASSUME ChatInv, RemovingInv, NEW s \in Sessions, Follows(s), WindowKnows(s), OnlyLeavers,
         AppFills \/ AppTellsWindow \/ AppChatMsg \/ AppRenames
  PROVE  WindowKnows(s)' /\ OnlyLeavers'
<1> USE DEF ChatInv
<1>1. UNCHANGED known /\ (~AppRenames => UNCHANGED listed)
  BY DEF AppFills, AppTellsWindow, AppChatMsg, AppRenames, AppFrame
<1>2. listed \in [Sessions -> Entries] /\ NoNick \in Entries
  BY DEF PageShapes, UserMaps, Entries
<1>3. CASE AppFills
  <2>1. ToWindow(Greeting) /\ Greeting.type = "Greeting" /\ Greeting \in WinMsgs
    BY <1>3, PageMade DEF AppFills, Greeting
  <2>2. ~Leaves' /\ UNCHANGED listed
    BY <1>3 DEF AppFills, AppFrame, Await, Leaves
  <2>3. \A b \in Entries : Shows(s, b) => Turns(Greeting, s, NoNick, FALSE, b, b) /\ Shows(s, b)'
    BY <2>1, <2>2, ShowsSame DEF Turns
  <2> QED
    BY <1>1, <2>1, <2>3, WindowTold
<1>4. CASE AppChatMsg
  <2>1. PICK m : m = Head(appBox)
    OBVIOUS
  <2>2. ToWindow(m) /\ m.type = "ChatMsg" /\ m \in WinMsgs
    BY <1>4, <2>1, AppTakesType, PageMade DEF AppChatMsg
  <2>3. UNCHANGED <<app, listed, listBox>>
    BY <1>4 DEF AppChatMsg, AppFrame
  <2>4. \A b \in Entries : Shows(s, b) => Shows(s, b)'
    BY <2>3, ShowsSame DEF Leaves
  <2>5. \A b \in Entries : Turns(m, s, NoNick, FALSE, b, b)
    BY <2>2 DEF Turns
  <2> QED
    BY <1>1, <2>2, <2>4, <2>5, WindowTold
<1>5. CASE AppTellsWindow
  <2>1. PICK m : m = app.msg
    OBVIOUS
  <2>2. /\ app.at = "removing" /\ listBox = <<>> /\ ToWindow(m)
        /\ app' = Idle /\ UNCHANGED listed
    BY <1>5, <2>1 DEF AppTellsWindow, AppFrame, Await, ListHasAnswered
  <2>3. m \in ServerMsgs /\ m.type = "UserLeft" /\ m \in WinMsgs /\ listed[m.sid] = NoNick
    BY <2>1, <2>2, PageMessages, PageMade DEF PageShapes, RemovingInv
  <2>4. ~Leaves'
    BY <2>2 DEF Leaves, Idle
  <2>5. ASSUME NEW b \in Entries, Shows(s, b)
        PROVE  \E e \in Entries : Turns(m, s, NoNick, FALSE, b, e) /\ Shows(s, e)'
    <3>1. CASE m.sid = s
      <4>1. m.member => b # NoNick
        BY <2>1, <2>2, <2>5, <3>1 DEF Shows, Leaves
      <4>2. Turns(m, s, NoNick, FALSE, b, NoNick)
        BY <2>3, <3>1, <4>1 DEF Turns
      <4>3. Shows(s, NoNick)'
        BY <2>2, <2>3, <2>4, <3>1 DEF Shows
      <4> QED
        BY <1>2, <4>2, <4>3
    <3>2. CASE m.sid # s
      <4>1. Turns(m, s, NoNick, FALSE, b, b)
        BY <2>3, <3>2 DEF Turns
      <4>2. Shows(s, b)'
        BY <2>2, <2>4, <2>5 DEF Shows
      <4> QED
        BY <4>1, <4>2
    <3> QED
      BY <3>1, <3>2
  <2> QED
    BY <1>1, <2>2, <2>3, <2>5, WindowTold
<1>6. CASE AppRenames
  <2>1. /\ app.at = "asking" /\ listBox = <<>> /\ UNCHANGED winBox /\ app' = Idle
        /\ listed' = [listed EXCEPT ![app.msg.sid] = app.msg.nick]
    BY <1>6 DEF AppRenames, Await
  <2>2. PICK a, b \in Entries : Flow(listBox, s, NoNick, Leaves, listed[s], a) /\ AppTurns(app, s, welcome[s], a, b)
    BY DEF Follows, Upto
  <2>3. a = listed[s]
    <3>1. Flow(<<>>, s, NoNick, Leaves, listed[s], a)
      BY <2>1, <2>2
    <3> QED
      BY <1>2, <3>1, FlowOfNone
  <2>4. app.msg.sid = s => listed[s] # NoNick
    BY <2>1, <2>2, <2>3 DEF AppTurns
  <2>5. listed'[s] = NoNick \/ listed[s] # NoNick
    BY <1>2, <2>1, <2>4
  <2>6. ~Leaves'
    BY <2>1 DEF Leaves, Idle
  <2>7. \A b_1 \in Entries : Shows(s, b_1) => Shows(s, b_1)'
    BY <2>5, <2>6 DEF Shows
  <2>8. UNCHANGED <<winBox, known>>
    BY <1>1, <2>1
  <2> QED
    BY <2>7, <2>8, WindowSame
<1> QED
  BY <1>3, <1>4, <1>5, <1>6

(* Every step: what ChatWindow knows, and that neither it nor UserList     *)
(* misses a user.                                                          *)
LEMMA WindowNext ==
  ASSUME ChatInv, RemovingInv, OnlyOnLeave, ~left, NEW s \in Sessions, Follows(s), WindowKnows(s),
         OnlyLeavers, [Next]_vars
  PROVE  WindowKnows(s)' /\ OnlyLeavers'
<1> USE MeIsASession DEF ChatInv
<1>1. ASSUME UNCHANGED <<winBox, known, listed>>,
             Leaves' /\ listBox' = <<>> => Leaves /\ app'.msg = app.msg /\ listBox = <<>>
      PROVE  WindowKnows(s)' /\ OnlyLeavers'
  BY <1>1, ShowsSame, WindowSame
<1>2. ASSUME UNCHANGED <<winBox, known, listed, app, listBox>> PROVE WindowKnows(s)' /\ OnlyLeavers'
  BY <1>1, <1>2 DEF Leaves
<1>3. CASE PageStep
  <2>1. CASE FormConnects \/ CallCancelled
    BY <1>2, <2>1 DEF FormConnects, CallCancelled
  <2>2. CASE AppConnects \/ AppUserJoined \/ AppUserLeft \/ AppNickChanged
    <3>1. PICK m : ToList(m)
      BY <2>2 DEF AppConnects, AppUserJoined, AppUserLeft, AppNickChanged
    <3>2. listBox' # <<>>
      BY <3>1 DEF ToList, PageShapes
    <3>3. UNCHANGED <<winBox, known, listed>>
      BY <2>2 DEF AppConnects, AppUserJoined, AppUserLeft, AppNickChanged, AppFrame
    <3> QED
      BY <1>1, <3>2, <3>3
  <2>3. CASE AppLinks
    <3>1. UNCHANGED <<winBox, known, listed>> /\ app' = Idle
      BY <2>3 DEF AppLinks, AppFrame, Await
    <3> QED
      BY <1>1, <3>1 DEF Leaves, Idle
  <2>4. CASE AppAsks
    <3>1. /\ UNCHANGED <<winBox, known, listed, listBox>>
          /\ app' = app \/ app' = [at |-> "renaming"]
      BY <2>4 DEF AppAsks, AppFrame, Await
    <3> QED
      BY <1>1, <3>1 DEF Leaves
  <2>5. CASE AppDisconnects
    <3>1. AppTakes("Disconnect")
      BY <2>5 DEF AppDisconnects
    <3> QED
      BY <3>1, AppBoxTaken DEF OnlyOnLeave
  <2>6. CASE \E r \in Watched : Read(r)
    <3>1. UNCHANGED <<winBox, known, listed, listBox>>
      BY <2>6, PageReads
    <3>2. app' = app \/ app' = Idle
      BY <2>6 DEF Read
    <3> QED
      BY <1>1, <3>1, <3>2 DEF Leaves, Idle
  <2> QED
    BY <1>3, <2>1, <2>2, <2>3, <2>4, <2>5, <2>6, WindowApp, WindowList, WindowHandles DEF PageStep
<1>4. CASE Visit
  BY <1>2, <1>4 DEF Visit, SubmitConnect, ChatSubmit
<1>5. CASE UNCHANGED pageVars
  BY <1>2, <1>5 DEF pageVars
<1> QED
  BY <1>3, <1>4, <1>5 DEF Next, vars

(* chat_window.rs:205, user_list.rs:172: ChatWindow looks up, and UserList *)
(* is asked for, users the page has had only.                              *)
LEMMA KnownStep ==
  ASSUME ChatInv, RemovingInv, OnlyOnLeave, ~left, ~early, OnlyLeavers, LeaverIsKnown, [Next]_vars,
         \A s \in Sessions : Follows(s) /\ WindowKnows(s)
  PROVE  LeaverIsKnown'
<1> USE MeIsASession DEF ChatInv
<1>1. ASSUME UNCHANGED crash PROVE LeaverIsKnown'
  BY <1>1 DEF LeaverIsKnown
<1>2. CASE CallCancelled \/ AppAsks
  BY <1>1, <1>2 DEF CallCancelled, AppAsks, Fails, LeaverIsKnown
<1>3. CASE ListStep
  <2>1. CASE Head(listBox).type = "GetUser"
    <3>1. Head(listBox).sid \in Sessions
      BY <1>3, <2>1, ListBoxTaken, PageMessages DEF ListStep
    <3>2. listed[Head(listBox).sid] # NoNick
      BY <1>3, <2>1, <3>1, WindowList
    <3>3. UNCHANGED crash
      BY <1>3, <2>1, <3>2 DEF ListStep
    <3> QED
      BY <1>1, <3>3
  <2>2. CASE Head(listBox).type # "GetUser"
    <3>1. Head(listBox).type \in {"Clear", "Insert", "Remove"}
      BY <1>3, <2>2, ListBoxTaken, PageMessages DEF ListStep
    <3>2. UNCHANGED crash
      BY <1>3, <3>1 DEF ListStep
    <3> QED
      BY <1>1, <3>2
  <2> QED
    BY <2>1, <2>2
<1>4. CASE WindowStep
  <2>1. CASE UNCHANGED crash
    BY <1>1, <2>1
  <2>2. CASE ~UNCHANGED crash
    <3>1. PICK m : m = Head(winBox)
      OBVIOUS
    <3>2. /\ m.type \in {"UserLeft", "ChatMsg"} /\ m.sid \notin known
          /\ crash' = [why |-> m.type, msg |-> m]
      BY <1>4, <2>2, <3>1 DEF WindowStep
    <3>3. m.sid \in Sessions
      <4>1. m \in ServerMsgs
        BY <1>4, <3>1, <3>2, WinBoxTaken, PageMessages DEF WindowStep
      <4> QED
        BY <4>1, PageMessages
    <3>4. m.type = "UserLeft" => ~m.member
      BY <1>4, <3>1, <3>2, <3>3, WindowHandles
    <3> QED
      BY <3>2, <3>4 DEF LeaverIsKnown
  <2> QED
    BY <2>1, <2>2
<1>5. CASE AppDisconnects \/ \E r \in Watched : Read(r)
  <2>1. CASE AppDisconnects
    <3>1. UNCHANGED crash \/ crash' = [why |-> "Close"]
      BY <2>1 DEF AppDisconnects, Fails
    <3> QED
      BY <1>1, <3>1 DEF LeaverIsKnown
  <2> QED
    BY <1>1, <1>5, <2>1 DEF Read
<1>6. CASE PageStep
  BY <1>1, <1>2, <1>3, <1>4, <1>5, <1>6
     DEF PageStep, FormConnects, AppConnects, AppFills, AppLinks, AppUserJoined, AppUserLeft,
         AppTellsWindow, AppNickChanged, AppRenames, AppChatMsg
<1>7. CASE Visit
  BY <1>1, <1>7 DEF Visit, SubmitConnect, ChatSubmit
<1>8. CASE UNCHANGED pageVars
  BY <1>1, <1>8 DEF pageVars
<1> QED
  BY <1>6, <1>7, <1>8 DEF Next, vars

-----------------------------------------------------------------------------
(* What a user who leaves, or a broadcast that comes early, undoes stays   *)
(* undone.                                                                 *)
LEMMA NoWayBack == ASSUME [Next]_vars PROVE (left => left') /\ (early => early')
<1>1. CASE PageStep
  <2>1. CASE \E s \in Watched : Read(s)
    BY <2>1 DEF Read
  <2>2. CASE AppUserJoined \/ AppUserLeft \/ AppNickChanged \/ AppChatMsg
    <3>1. UNCHANGED left
      BY <2>2 DEF AppUserJoined, AppUserLeft, AppNickChanged, AppChatMsg, AppFrame
    <3>2. Noted
      BY <2>2 DEF AppUserJoined, AppUserLeft, AppNickChanged, AppChatMsg
    <3> QED
      BY <3>1, <3>2 DEF Noted
  <2>3. CASE ListStep \/ WindowStep
    <3>1. ListStep => UNCHANGED <<early, left>>
      BY DEF ListStep
    <3>2. WindowStep => UNCHANGED <<early, left>>
      BY DEF WindowStep
    <3> QED
      BY <2>3, <3>1, <3>2
  <2>4. CASE AppConnects \/ AppFills \/ AppLinks \/ AppTellsWindow \/ AppRenames \/ AppAsks \/ AppDisconnects
    BY <2>4 DEF AppConnects, AppFills, AppLinks, AppTellsWindow, AppRenames, AppAsks, AppDisconnects,
                AppFrame
  <2>5. CASE FormConnects \/ CallCancelled
    BY <2>5 DEF FormConnects, CallCancelled
  <2> QED
    BY <1>1, <2>1, <2>2, <2>3, <2>4, <2>5 DEF PageStep
<1>2. CASE Visit
  BY <1>2 DEF Visit, SubmitConnect, ChatSubmit
<1>3. CASE UNCHANGED pageVars
  BY <1>3 DEF pageVars
<1> QED
  BY <1>1, <1>2, <1>3 DEF Next, vars

(* The state of a page whose user has not left.                            *)
StayInv == left \/ (AllOnce /\ RemovingInv /\ Cut /\ Untold)

(* ... and to which no broadcast came before its welcome.                  *)
FollowInv == left \/ early \/ (OnlyLeavers /\ \A s \in Sessions : Follows(s) /\ WindowKnows(s))

(* The inductive invariant of the page.                                    *)
ChatInvs == ChatInv /\ EnteredInv /\ JoinsOnce /\ OnlyOnLeave /\ StayInv /\ FollowInv /\ LeaverIsKnown

(* Every step keeps all of it.                                             *)
LEMMA FollowInvStep == ASSUME ChatInvs, [Next]_vars PROVE ChatInvs'
<1> USE DEF ChatInvs
<1>1. ChatInv' /\ EnteredInv' /\ JoinsOnce' /\ OnlyOnLeave'
  BY ChatStepType, EnteredStep, JoinsOnceStep, LeaveStep
<1>2. StayInv'
  BY OnceStep, RemovingStep, CutStep, UntoldStep, NoWayBack DEF StayInv
<1>3. CASE left \/ early \/ left' \/ early'
  BY <1>1, <1>2, <1>3, NoWayBack DEF FollowInv, LeaverIsKnown
<1>4. CASE ~left /\ ~early /\ ~left' /\ ~early'
  <2>1. AllOnce /\ RemovingInv /\ Cut /\ Untold
    BY <1>4 DEF StayInv
  <2>2. OnlyLeavers /\ \A s \in Sessions : Follows(s) /\ WindowKnows(s)
    BY <1>4 DEF FollowInv
  <2>3. \A s \in Sessions : Follows(s)'
    BY <1>4, <2>1, <2>2, FollowsStep
  <2>4. \A s \in Sessions : WindowKnows(s)' /\ OnlyLeavers'
    BY <1>4, <2>1, <2>2, WindowNext
  <2>5. FollowInv'
    BY <2>3, <2>4, MeIsASession DEF FollowInv
  <2>6. LeaverIsKnown'
    BY <1>4, <2>1, <2>2, KnownStep
  <2> QED
    BY <1>1, <1>2, <2>5, <2>6
<1> QED
  BY <1>3, <1>4

(* At the start nothing has been asked or sent.                            *)
LEMMA FollowInvInit == ASSUME Init PROVE ChatInvs
<1>0. /\ serverBox = <<>> /\ appBox = <<>> /\ listBox = <<>> /\ winBox = <<>>
      /\ replies[Me] = {} /\ asks[Me] = {} /\ out[Me] = <<>> /\ users[Me] = NoNick
      /\ conn[Me] = "open" /\ mayJoin[Me]
      /\ form = "shown" /\ app.at = "idle" /\ ~linked /\ known = {}
      /\ \A s \in Sessions : listed[s] = NoNick /\ welcome[s] = NoNick
      /\ NoNick \in Entries
  BY MeIsASession DEF Init, ServerInit, Idle, Nobody, Entries
<1>1. ChatInv /\ LeaverIsKnown
  BY ChatInit DEF Init, LeaverIsKnown, Fine
<1>2. EnteredInv
  BY EnteredInit
<1>3. JoinsOnce /\ OnlyOnLeave /\ OnlyLeavers
  BY <1>0, MsgsOfNone DEF JoinsOnce, BoxOf, OnlyOnLeave, OnlyLeavers
<1>4. StayInv
  <2>1. \A t, u, T : OneRound(t, u, T) /\ ~Awaits(t, u, T)
    BY <1>0, MsgsOfNone DEF OneRound, Awaits, Asked, AskOf, BoxOf, ReplyOf
  <2>2. AnsweredOnce /\ RenamedOnce
    BY <2>1 DEF AnsweredOnce, JoinRound, Joining, RenamedOnce, RenameRound, Renaming
  <2>3. LinkedOnce
    BY <1>0, MsgsOfNone DEF LinkedOnce, Linking
  <2>4. RemovingInv
    BY <1>0, MsgsOfNone DEF RemovingInv
  <2>5. Cut /\ Untold
    BY <1>0, MsgsOfNone DEF Cut, Untold
  <2> QED
    BY <2>2, <2>3, <2>4, <2>5 DEF StayInv, AllOnce
<1>5. ASSUME NEW s \in Sessions PROVE Follows(s) /\ WindowKnows(s)
  <2>1. \A w, k : Flow(<<>>, s, w, k, NoNick, NoNick)
    BY <1>0, FlowOfNone
  <2>2. Upto(s, NoNick)
    <3>1. Flow(listBox, s, NoNick, Leaves, listed[s], NoNick)
      BY <1>0, <2>1
    <3>2. AppTurns(app, s, welcome[s], NoNick, NoNick)
      BY <1>0 DEF AppTurns
    <3> QED
      BY <1>0, <3>1, <3>2 DEF Upto
  <2>3. Reached(s, NoNick, NoNick)
    <3>1. Flow(appBox, s, welcome[s], FALSE, NoNick, NoNick)
      BY <1>0, <2>1
    <3> QED
      BY <1>0, <3>1 DEF Reached
  <2>4. ~InTouch
    BY <1>0 DEF InTouch
  <2>5. Follows(s)
    BY <1>0, <2>2, <2>3, <2>4 DEF Follows, Arrives
  <2>6. WindowKnows(s)
    <3>1. Flow(winBox, s, NoNick, FALSE, NoNick, NoNick)
      BY <1>0, <2>1
    <3>2. Shows(s, NoNick)
      BY <1>0 DEF Shows, Leaves
    <3> QED
      BY <1>0, <3>1, <3>2 DEF WindowKnows
  <2> QED
    BY <2>5, <2>6
<1> QED
  BY <1>1, <1>2, <1>3, <1>4, <1>5 DEF ChatInvs, FollowInv

(* app.rs:190-215, chat_window.rs:205, user_list.rs:172: no user of the    *)
(* chat leaves or renames unknown to the page, however the mailboxes of    *)
(* its actors fill, unless a broadcast came before its welcome.            *)
THEOREM LeaverStaysKnown == Spec => []LeaverIsKnown
<1>1. ChatInvs => LeaverIsKnown
  BY DEF ChatInvs
<1> QED
  BY <1>1, FollowInvInit, FollowInvStep, PTL DEF Spec

(* app.rs:160-230, server.rs:84-115, 151-180: a page that has handled all  *)
(* that was sent to it shows the users the server has, for any number of   *)
(* sessions that join, rename, talk and leave meanwhile.                   *)
THEOREM ListFollows == Spec => []ListAgrees
<1>1. ASSUME ChatInvs, Settled, ~early, ~left
      PROVE  /\ listed[Me] # NoNick
             /\ \A s \in Sessions \ {Me} : listed[s] = users[s]
  <2>1. /\ linked /\ conn[Me] = "open" /\ app.at = "idle"
        /\ appBox = <<>> /\ listBox = <<>> /\ out[Me] = <<>>
    BY <1>1 DEF Settled, Idle
  <2>2. AllOnce
    BY <1>1 DEF ChatInvs, StayInv
  <2>3. form = "hidden" /\ ~Welcomed
    <3>1. form = "hidden"
      BY <2>1, <2>2 DEF AllOnce, LinkedOnce, Linking
    <3>2. ~ReplyOf({"Welcome", "Refused"})
      BY <2>2, <3>1 DEF AllOnce, AnsweredOnce, Joining, Awaits
    <3> QED
      BY <3>1, <3>2 DEF ReplyOf, Welcomed
  <2>4. ~Ahead /\ ~Overtaken
    BY <2>1, <2>3, MsgsOfNone DEF Ahead, Overtaken
  <2>5. users[Me] # NoNick
    BY <1>1, <2>1 DEF ChatInvs, EnteredInv, PageEntered
  <2>6. ASSUME NEW s \in Sessions PROVE Agrees(s, listed[s])
    <3>1. PICK b \in Entries : Upto(s, b) /\ Arrives(s, b)
      BY <1>1, <2>4, <2>6 DEF ChatInvs, FollowInv, Follows
    <3>2. listed[s] \in Entries
      BY <1>1 DEF ChatInvs, ChatInv, PageShapes, UserMaps, Entries
    <3>3. Flow(<<>>, s, NoNick, FALSE, listed[s], b)
      BY <2>1, <3>1, UptoIdle
    <3>4. b = listed[s]
      BY <3>2, <3>3, FlowOfNone
    <3>5. PICK c \in Entries : Reached(s, b, c) /\ Sent(s, c)
      BY <2>1, <2>4, <2>5, <3>1 DEF Arrives, InTouch
    <3>6. Flow(<<>>, s, welcome[s], FALSE, b, c)
      BY <2>1, <2>3, <3>5 DEF Reached
    <3>7. c = b
      BY <3>6, FlowOfNone
    <3>8. PICK d \in Entries : Flow(<<>>, s, NoNick, FALSE, c, d) /\ Agrees(s, d)
      BY <2>1, <2>3, <3>5 DEF Sent
    <3>9. d = c
      BY <3>8, FlowOfNone
    <3> QED
      BY <3>4, <3>7, <3>8, <3>9
  <2> QED
    BY <2>6, MeIsASession DEF Agrees
<1>2. ChatInvs => ListAgrees
  BY <1>1 DEF ListAgrees
<1> QED
  BY <1>2, FollowInvInit, FollowInvStep, PTL DEF Spec
=============================================================================
