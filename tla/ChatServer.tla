----------------------------- MODULE ChatServer -----------------------------
(***************************************************************************)
(* examples/chat/chat_server: one actor that keeps the users and           *)
(* broadcasts, one User actor per connection that handles what the client  *)
(* asks, and the task that reports when the connection has closed.  Every  *)
(* actor has an unbounded mailbox and handles one message at a time.       *)
(*                                                                         *)
(* A session is one connection.  What a client asks runs as tasks of its   *)
(* peer and reaches the User in any order.  An answer goes back through    *)
(* these tasks; a broadcast goes straight to the peer, and may overtake it.*)
(***************************************************************************)
EXTENDS Integers, Sequences

CONSTANTS
  Sessions,
  Nicks,
  Invalid,    \* those that do not match ^\w{1,15}$
  NoNick,
  Watched,    \* sessions whose client is modelled in Chat.tla
  MaxAsks     \* bound: requests the client of each session makes, after the Join of a page

NoOne == "none"

ASSUME ChatServerAssumption ==
  /\ NoOne \notin Sessions
  /\ Invalid \subseteq Nicks /\ NoNick \notin Nicks
  /\ Watched \subseteq Sessions
  /\ MaxAsks \in [Sessions -> Nat]

VARIABLES
  conn,       \* "open" or "shut"
  reported,   \* sessions whose handle_conn has told the server they closed
  asks,       \* what the client has asked and the User not yet taken
  mayJoin,    \* User::addr and User::peer_addr are Some
  waiting,    \* whether the User waits for an answer of the server
  serverBox,  \* mailbox of the server
  users,      \* Server::users, the nick of each session that is in it
  culprit,    \* the session whose message made the server panic
  replies,    \* answers on their way to the peer of the session
  out,        \* what the peer has sent to a watched client
  admitted,   \* sessions whose client, not watched, has been answered with a Welcome
  rash,       \* those whose client asked for a nick before it was
  spent       \* requests the client has made

connVars   == <<conn, reported>>
userVars   == <<asks, mayJoin, waiting>>
clientVars == <<admitted, rash, spent>>
serverVars == <<connVars, userVars, serverBox, users, culprit, replies, out, clientVars>>

(* Messages of the client, of the server's mailbox, and ServerMsg.         *)
Join(n)    == [type |-> "Join", nick |-> n]
SetNick(n) == [type |-> "SetNick", nick |-> n]
NewChatMsg == [type |-> "NewChatMsg"]

UserData(s, n)      == [type |-> "UserData", sid |-> s, nick |-> n]
ChangeNick(s, n)    == [type |-> "ChangeNick", sid |-> s, nick |-> n]
ChatMsgIn(s)        == [type |-> "ChatMsgIn", sid |-> s]
ConnectionClosed(s) == [type |-> "ConnectionClosed", sid |-> s]

UserJoined(s, n)  == [type |-> "UserJoined", sid |-> s, nick |-> n]
UserLeft(s, m)    == [type |-> "UserLeft", sid |-> s, member |-> m]  \* m: was it a user
NickChanged(s, n) == [type |-> "NickChanged", sid |-> s, nick |-> n]
ChatMsg(s)        == [type |-> "ChatMsg", sid |-> s]

Welcome(us)    == [type |-> "Welcome", users |-> us]
Refused        == [type |-> "Refused"]
NickAnswer(ok) == [type |-> "NickAnswer", ok |-> ok]

(* accept_ws and the first half of handle_conn, for every session.         *)
ServerInit ==
  /\ conn      = [s \in Sessions |-> "open"]
  /\ reported  = {}
  /\ asks      = [s \in Sessions |-> {}]
  /\ mayJoin   = [s \in Sessions |-> TRUE]
  /\ waiting   = [s \in Sessions |-> FALSE]
  /\ serverBox = <<>>
  /\ users     = [s \in Sessions |-> NoNick]
  /\ culprit   = NoOne
  /\ replies   = [s \in Sessions |-> {}]
  /\ out       = [s \in Sessions |-> <<>>]
  /\ admitted  = {}
  /\ rash      = {}
  /\ spent     = [s \in Sessions |-> 0]

-----------------------------------------------------------------------------
(* The peer closes: its tasks are dropped, and with them the requests that *)
(* have not reached the User and the answers on their way back.            *)
PeerCloses(s) ==
  /\ conn[s] = "open"
  /\ conn' = [conn EXCEPT ![s] = "shut"]
  /\ \E queued \in SUBSET asks[s] : asks' = [asks EXCEPT ![s] = queued]
  /\ replies' = [replies EXCEPT ![s] = {}]
  /\ out' = [out EXCEPT ![s] = <<>>]
  /\ UNCHANGED <<reported, mayJoin, waiting, serverBox, users, culprit, clientVars>>

(* The second half of handle_conn: it waits for Closed or ClosedByRemote.  *)
AnyEvent(s)   == TRUE
CloseEvent(s) == conn[s] = "shut"

Report(s) ==
  /\ s \notin reported /\ CloseEvent(s)
  /\ reported' = reported \cup {s}
  /\ serverBox' = Append(serverBox, ConnectionClosed(s))
  /\ UNCHANGED <<conn, userVars, users, culprit, replies, out, clientVars>>

-----------------------------------------------------------------------------
(* The User.  Its handlers of Join and SetNick wait for the server.        *)
Answer(s, r) ==
  IF s \in Watched
  THEN /\ replies' = [replies EXCEPT ![s] = IF conn[s] = "open" THEN @ \cup {r} ELSE @]
       /\ UNCHANGED admitted
  ELSE /\ admitted' = IF r.type = "Welcome" THEN admitted \cup {s} ELSE admitted
       /\ UNCHANGED replies

Take(s, a) ==
  /\ culprit = NoOne
  /\ ~waiting[s]
  /\ a \in asks[s]
  /\ asks' = [asks EXCEPT ![s] = @ \ {a}]

UserJoins(s, a) ==
  /\ a.type = "Join"
  /\ Take(s, a)
  /\ IF mayJoin[s]
     THEN /\ mayJoin'   = [mayJoin EXCEPT ![s] = FALSE]
          /\ waiting'   = [waiting EXCEPT ![s] = TRUE]
          /\ serverBox' = Append(serverBox, UserData(s, a.nick))
          /\ UNCHANGED <<replies, admitted>>
     ELSE /\ Answer(s, Refused)
          /\ UNCHANGED <<mayJoin, waiting, serverBox>>
  /\ UNCHANGED <<connVars, users, culprit, out, rash, spent>>

UserSetsNick(s, a) ==
  /\ a.type = "SetNick"
  /\ Take(s, a)
  /\ waiting'   = [waiting EXCEPT ![s] = TRUE]
  /\ serverBox' = Append(serverBox, ChangeNick(s, a.nick))
  /\ UNCHANGED <<connVars, mayJoin, users, culprit, replies, out, clientVars>>

UserTalks(s, a) ==
  /\ a = NewChatMsg
  /\ Take(s, a)
  /\ serverBox' = Append(serverBox, ChatMsgIn(s))
  /\ UNCHANGED <<connVars, mayJoin, waiting, users, culprit, replies, out, clientVars>>

-----------------------------------------------------------------------------
(* The server.                                                             *)
Handling(type) == /\ culprit = NoOne
                  /\ serverBox # <<>>
                  /\ Head(serverBox).type = type
                  /\ serverBox' = Tail(serverBox)

Present(us)        == {s \in Sessions : us[s] # NoNick}
Broadcast(us, m) ==
  out' = [s \in Sessions |-> IF s \in Present(us) \cap Watched /\ conn[s] = "open"
                             THEN Append(out[s], m) ELSE out[s]]
NotDone(s) == UNCHANGED waiting
Done(s)    == waiting' = [waiting EXCEPT ![s] = FALSE]

(* Welcome lists the users after the new one was inserted.                 *)
UsersBefore(before, after) == before
UsersNow(before, after)    == after

ValidOnly(us, new)    == new \notin Invalid
ValidateNick(us, new) == /\ new \notin Invalid
                         /\ \A s \in Sessions : us[s] # new

HandleUserData ==
  LET m == Head(serverBox)
      joined == [users EXCEPT ![m.sid] = m.nick]
  IN  /\ Handling("UserData")
      /\ Done(m.sid)
      /\ IF ValidateNick(users, m.nick)
         THEN /\ Broadcast(users, UserJoined(m.sid, m.nick))
              /\ users' = joined
              /\ Answer(m.sid, Welcome(UsersNow(users, joined)))
         ELSE /\ Answer(m.sid, Refused)
              /\ UNCHANGED <<users, out>>
      /\ UNCHANGED <<connVars, asks, mayJoin, culprit, rash, spent>>

(* The user is out of the map while the others are told, and back in it    *)
(* afterwards, with or without the new nick.                               *)
HandleChangeNick ==
  LET m == Head(serverBox)
      others == [users EXCEPT ![m.sid] = NoNick]
  IN  /\ Handling("ChangeNick")
      /\ IF users[m.sid] = NoNick
         THEN /\ culprit' = m.sid                     \* expect( "join first" )
              /\ UNCHANGED <<waiting, users, replies, out, admitted>>
         ELSE /\ Done(m.sid)
              /\ IF m.nick # users[m.sid] /\ ValidateNick(others, m.nick)
                 THEN /\ Broadcast(others, NickChanged(m.sid, m.nick))
                      /\ users' = [users EXCEPT ![m.sid] = m.nick]
                      /\ Answer(m.sid, NickAnswer(TRUE))
                 ELSE /\ Answer(m.sid, NickAnswer(FALSE))
                      /\ UNCHANGED <<users, out>>
              /\ UNCHANGED culprit
      /\ UNCHANGED <<connVars, asks, mayJoin, rash, spent>>

HandleChatMsgIn ==
  /\ Handling("ChatMsgIn")
  /\ Broadcast(users, ChatMsg(Head(serverBox).sid))
  /\ UNCHANGED <<connVars, userVars, users, culprit, replies, clientVars>>

(* Whether or not the session had joined.                                  *)
HandleConnectionClosed ==
  LET s == Head(serverBox).sid
      others == [users EXCEPT ![s] = NoNick]
  IN  /\ Handling("ConnectionClosed")
      /\ users' = others
      /\ Broadcast(others, UserLeft(s, users[s] # NoNick))
      /\ UNCHANGED <<connVars, userVars, culprit, replies, clientVars>>

-----------------------------------------------------------------------------
(* The clients that are not watched: any program that speaks the protocol. *)
(* It asks what it likes when it likes, without waiting for an answer, and *)
(* takes note of every answer at once.                                     *)
Ask(s, a) == asks' = [asks EXCEPT ![s] = @ \cup {a}]

ClientAsks(s, a) ==
  /\ conn[s] = "open" /\ a \notin asks[s]
  /\ spent[s] < MaxAsks[s]
  /\ Ask(s, a)
  /\ spent' = [spent EXCEPT ![s] = @ + 1]
  /\ rash' = IF a.type = "SetNick" /\ s \notin admitted THEN rash \cup {s} ELSE rash
  /\ UNCHANGED <<connVars, mayJoin, waiting, serverBox, users, culprit, replies, out, admitted>>

ReplyArrives(s, r) ==
  /\ r \in replies[s]
  /\ replies' = [replies EXCEPT ![s] = @ \ {r}]
  /\ out' = [out EXCEPT ![s] = Append(@, r)]
  /\ UNCHANGED <<connVars, userVars, serverBox, users, culprit, clientVars>>

ServerStep ==
  \/ HandleUserData \/ HandleChangeNick \/ HandleChatMsgIn \/ HandleConnectionClosed
  \/ \E s \in Sessions :
       \/ Report(s)
       \/ \E a \in asks[s] : UserJoins(s, a) \/ UserSetsNick(s, a) \/ UserTalks(s, a)
       \/ \E r \in replies[s] : ReplyArrives(s, r)

ClientStep(s) ==
  \/ \E n \in Nicks : ClientAsks(s, Join(n)) \/ ClientAsks(s, SetNick(n))
  \/ ClientAsks(s, NewChatMsg)

-----------------------------------------------------------------------------
UserMaps    == [Sessions -> Nicks \cup {NoNick}]
Asks        == [type : {"Join", "SetNick"}, nick : Nicks] \cup {NewChatMsg}
Calls       == [type : {"UserData", "ChangeNick"}, sid : Sessions, nick : Nicks]
ServerInbox == Calls \cup [type : {"ChatMsgIn", "ConnectionClosed"}, sid : Sessions]
ServerMsgs  == [type : {"UserJoined", "NickChanged"}, sid : Sessions, nick : Nicks]
               \cup [type : {"UserLeft"}, sid : Sessions, member : BOOLEAN]
               \cup [type : {"ChatMsg"}, sid : Sessions]
Replies     == [type : {"Welcome"}, users : UserMaps] \cup {Refused}
               \cup [type : {"NickAnswer"}, ok : BOOLEAN]

(* Shape of the state; a User waits exactly while its call is in the       *)
(* mailbox of the server, or has brought it down.                          *)
ServerTypeOK ==
  /\ conn \in [Sessions -> {"open", "shut"}]
  /\ reported \subseteq Sessions
  /\ asks \in [Sessions -> SUBSET Asks]
  /\ mayJoin \in [Sessions -> BOOLEAN]
  /\ waiting \in [Sessions -> BOOLEAN]
  /\ serverBox \in Seq(ServerInbox)
  /\ users \in UserMaps
  /\ culprit \in Sessions \cup {NoOne}
  /\ replies \in [Sessions -> SUBSET Replies]
  /\ out \in [Sessions -> Seq(ServerMsgs \cup Replies)]
  /\ admitted \subseteq Sessions /\ rash \subseteq Sessions
  /\ \A s \in Sessions : spent[s] \in 0..MaxAsks[s]
  /\ \A s \in Sessions :
       waiting[s] <=> \/ culprit = s
                      \/ \E i \in DOMAIN serverBox : serverBox[i] \in Calls /\ serverBox[i].sid = s

(* server.rs:49-53, 151-180: two users never go by the same nick, whoever  *)
(* joins, renames, fails to rename and leaves in between.                  *)
NicksUnique ==
  \A s, r \in Present(users) : users[s] = users[r] => s = r

(* server.rs:151, expect( "join first" ): a client that waits for its      *)
(* Welcome before it asks for another nick, and stays connected, does not  *)
(* bring the server down, whatever the clients of other sessions do.       *)
ServerSurvives ==
  culprit # NoOne => conn[culprit] # "open" \/ culprit \in rash
=============================================================================
