-------------------------------- MODULE Chat --------------------------------
(***************************************************************************)
(* examples/chat: the server of ChatServer.tla, with the client program of *)
(* one of its sessions, Me.  In the browser the actors App, UserList and   *)
(* ChatWindow each have a mailbox; the peer of the client hands what the   *)
(* server broadcasts to App, and answers to whoever waits for them.        *)
(***************************************************************************)
EXTENDS ChatServer

CONSTANT Me

ASSUME ChatAssumption == Watched = {Me}

VARIABLES
  form,     \* ConnectForm: "shown", "joining", "welcomed" or "hidden"
  welcome,  \* the users of the Welcome it was answered with
  appBox,   \* mailbox of App
  app,      \* what its handler waits for
  linked,   \* App::connection is Some
  listBox,  \* mailbox of UserList
  listed,   \* UserList::users, with the nick of each
  winBox,   \* mailbox of ChatWindow
  known,    \* ChatWindow::users
  early,    \* App was handed something of the server before Connected
  left,     \* the user has asked to disconnect
  crash     \* the expect that failed, if one has

pageVars == <<form, welcome, appBox, app, linked, listBox, listed, winBox, known, early, left,
              crash>>
vars == <<serverVars, pageVars>>

Nobody     == [s \in Sessions |-> NoNick]
Only(s, n) == [Nobody EXCEPT ![s] = n]

(* Messages of App, UserList and ChatWindow.  Insert and NewUser stand for *)
(* as many messages as there are users in them.                            *)
Connected  == [type |-> "Connected"]
Disconnect == [type |-> "Disconnect"]
Clear      == [type |-> "Clear"]
Insert(us) == [type |-> "Insert", users |-> us]
Remove(s)  == [type |-> "Remove", sid |-> s]
GetUser(s) == [type |-> "GetUser", sid |-> s]
NewUser(us)== [type |-> "NewUser", users |-> us]
Greeting   == [type |-> "Greeting"]

Idle    == [at |-> "idle"]
Fine    == [why |-> "none"]
Running == crash = Fine

Init ==
  /\ ServerInit
  /\ form    = "shown"
  /\ welcome = Nobody
  /\ appBox  = <<>>
  /\ app     = Idle
  /\ linked  = FALSE
  /\ listBox = <<>>
  /\ listed  = Nobody
  /\ winBox  = <<>>
  /\ known   = {}
  /\ early   = FALSE
  /\ left    = FALSE
  /\ crash   = Fine

-----------------------------------------------------------------------------
(* The user of the page: ConnectForm and ChatForm.                         *)
SubmitConnect(n) ==
  /\ Running /\ form = "shown" /\ conn[Me] = "open" /\ mayJoin[Me] /\ asks[Me] = {}
  /\ Ask(Me, Join(n))
  /\ form' = "joining"
  /\ UNCHANGED <<connVars, mayJoin, waiting, serverBox, users, culprit, replies, out, clientVars,
                 welcome, appBox, app, linked, listBox, listed, winBox, known, early, left,
                 crash>>

ChatSubmit(m) ==
  /\ Running /\ form = "hidden"
  /\ IF m = Disconnect THEN ~left /\ left' = TRUE /\ UNCHANGED spent
     ELSE /\ spent[Me] < MaxAsks[Me]
          /\ spent' = [spent EXCEPT ![Me] = @ + 1]
          /\ UNCHANGED left
  /\ appBox' = Append(appBox, m)
  /\ UNCHANGED <<connVars, userVars, serverBox, users, culprit, replies, out, admitted, rash,
                 form, welcome, app, linked, listBox, listed, winBox, known, early, crash>>

(* The client's peer reads the connection.                                 *)
Read(s) ==
  LET m == Head(out[s])
  IN  /\ Running /\ s = Me /\ out[s] # <<>>
      /\ out' = [out EXCEPT ![s] = Tail(@)]
      /\ CASE m.type = "Welcome" ->
                form' = "welcomed" /\ welcome' = m.users /\ UNCHANGED <<appBox, app>>
           [] m.type = "Refused" ->
                form' = "refused" /\ UNCHANGED <<welcome, appBox, app>>
           [] m.type = "NickAnswer" ->
                app' = Idle /\ UNCHANGED <<form, welcome, appBox>>
           [] OTHER ->
                appBox' = Append(appBox, m) /\ UNCHANGED <<form, welcome, app>>
      /\ UNCHANGED <<connVars, userVars, serverBox, users, culprit, replies, clientVars,
                     linked, listBox, listed, winBox, known, early, left, crash>>

(* ConnectForm goes on with the answer to its Join.                        *)
FormConnects ==
  /\ Running /\ form = "welcomed"
  /\ form' = "hidden"
  /\ appBox' = Append(appBox, Connected)
  /\ UNCHANGED <<serverVars, welcome, app, linked, listBox, listed, winBox, known, early, left,
                 crash>>

(* The connection is gone while an answer is awaited: the channel is       *)
(* dropped, expect( "contact server" ) or expect( "forward SetNick" ).     *)
CallCancelled ==
  /\ Running /\ conn[Me] # "open"
  /\ form = "joining" \/ app.at = "renaming"
  /\ crash' = [why |-> "Call"]
  /\ UNCHANGED <<serverVars, form, welcome, appBox, app, linked, listBox, listed, winBox, known,
                 early, left>>

-----------------------------------------------------------------------------
(* App.                                                                    *)
AppTakes(type) == /\ Running /\ app = Idle
                  /\ appBox # <<>> /\ Head(appBox).type = type
                  /\ appBox' = Tail(appBox)
Await(a)    == app' = a
ToList(m)   == listBox' = Append(listBox, m)
ToWindow(m) == winBox' = Append(winBox, m)
Fails(c)    == crash' = c

AppFrame == <<form, welcome, listed, known, left>>

AppConnects ==
  /\ AppTakes("Connected")
  /\ ToList(Clear)
  /\ Await([at |-> "clearing"])
  /\ UNCHANGED <<serverVars, AppFrame, linked, winBox, early, crash>>

AppFills ==
  /\ Running /\ app.at = "clearing" /\ listBox = <<>>
  /\ ToList(Insert(welcome))
  /\ ToWindow(Greeting)
  /\ Await([at |-> "greeting"])
  /\ UNCHANGED <<serverVars, AppFrame, appBox, linked, early, crash>>

AppLinks ==
  /\ Running /\ app.at = "greeting"
  /\ \A i \in DOMAIN winBox : winBox[i] # Greeting
  /\ linked' = TRUE
  /\ Await(Idle)
  /\ UNCHANGED <<serverVars, AppFrame, appBox, listBox, winBox, early, crash>>

Noted == early' = (early \/ ~linked)

AppUserJoined ==
  /\ AppTakes("UserJoined")
  /\ ToList(Insert(Only(Head(appBox).sid, Head(appBox).nick)))
  /\ Noted
  /\ UNCHANGED <<serverVars, AppFrame, app, linked, winBox, crash>>

(* It waits for UserList: whatever UserList still had to tell the window   *)
(* is in the mailbox of the window before UserLeft.                        *)
AppUserLeft ==
  /\ AppTakes("UserLeft")
  /\ ToList(Remove(Head(appBox).sid))
  /\ Await([at |-> "removing", msg |-> Head(appBox)])
  /\ Noted
  /\ UNCHANGED <<serverVars, AppFrame, linked, winBox, crash>>

AtOnce  == TRUE
ListHasAnswered == listBox = <<>>

AppTellsWindow ==
  /\ Running /\ app.at = "removing" /\ ListHasAnswered
  /\ ToWindow(app.msg)
  /\ Await(Idle)
  /\ UNCHANGED <<serverVars, AppFrame, appBox, linked, listBox, early, crash>>

AppNickChanged ==
  /\ AppTakes("NickChanged")
  /\ ToList(GetUser(Head(appBox).sid))
  /\ Await([at |-> "asking", msg |-> Head(appBox)])
  /\ Noted
  /\ UNCHANGED <<serverVars, AppFrame, linked, winBox, crash>>

AppRenames ==
  /\ Running /\ app.at = "asking" /\ listBox = <<>>
  /\ listed' = [listed EXCEPT ![app.msg.sid] = app.msg.nick]
  /\ Await(Idle)
  /\ UNCHANGED <<serverVars, form, welcome, known, left, appBox, linked, listBox, winBox, early,
                 crash>>

AppChatMsg ==
  /\ AppTakes("ChatMsg")
  /\ ToWindow(Head(appBox))
  /\ Noted
  /\ UNCHANGED <<serverVars, AppFrame, app, linked, listBox, crash>>

(* NewChatMsg and SetNick of the user: expect( "be connected" ).           *)
AppAsks ==
  LET m == Head(appBox)
  IN  /\ AppTakes("NewChatMsg") \/ AppTakes("SetNick")
      /\ IF linked
         THEN /\ Ask(Me, m)
              /\ IF m.type = "SetNick" THEN Await([at |-> "renaming"]) ELSE UNCHANGED app
              /\ UNCHANGED crash
         ELSE Fails([why |-> "Unconnected"]) /\ UNCHANGED <<asks, app>>
      /\ UNCHANGED <<connVars, mayJoin, waiting, serverBox, users, culprit, replies, out, clientVars,
                     AppFrame, linked, listBox, winBox, early>>

(* expect( "close connection" ): it fails on a connection that the browser *)
(* knows to be closed, which it may not yet of one the server has closed.  *)
AppDisconnects ==
  /\ AppTakes("Disconnect")
  /\ \/ /\ IF linked /\ conn[Me] = "open" THEN PeerCloses(Me) ELSE UNCHANGED serverVars
        /\ linked' = FALSE
        /\ form' = "shown"
        /\ ToList(Clear)
        /\ ToWindow(Disconnect)
        /\ UNCHANGED crash
     \/ /\ linked /\ conn[Me] # "open"
        /\ Fails([why |-> "Close"])
        /\ UNCHANGED <<serverVars, linked, form, listBox, winBox>>
  /\ UNCHANGED <<welcome, listed, known, left, app, early>>

-----------------------------------------------------------------------------
(* UserList.                                                               *)
Merge(old, new) == [s \in Sessions |-> IF new[s] # NoNick THEN new[s] ELSE old[s]]
Unseen(us)      == [s \in Sessions |-> IF listed[s] = NoNick THEN us[s] ELSE NoNick]

ListStep ==
  LET m == Head(listBox)
  IN  /\ Running /\ listBox # <<>>
      /\ listBox' = Tail(listBox)
      /\ CASE m.type = "Clear" ->
                listed' = Nobody /\ UNCHANGED <<winBox, crash>>
           [] m.type = "Insert" ->
                listed' = Merge(listed, m.users) /\ ToWindow(NewUser(Unseen(m.users)))
                /\ UNCHANGED crash
           [] m.type = "Remove" ->
                listed' = [listed EXCEPT ![m.sid] = NoNick] /\ UNCHANGED <<winBox, crash>>
           [] m.type = "GetUser" ->
                /\ crash' = IF listed[m.sid] = NoNick THEN [why |-> "GetUser"] ELSE crash
                /\ UNCHANGED <<listed, winBox>>
      /\ UNCHANGED <<serverVars, form, welcome, appBox, app, linked, known, early, left>>

(* ChatWindow: expect( "Couldn't find user" ).                             *)
WindowStep ==
  LET m == Head(winBox)
  IN  /\ Running /\ winBox # <<>>
      /\ winBox' = Tail(winBox)
      /\ known' = CASE m.type = "NewUser"    -> known \cup Present(m.users)
                    [] m.type = "UserLeft"   -> known \ {m.sid}
                    [] m.type = "Disconnect" -> {}
                    [] OTHER                 -> known
      /\ crash' = IF m.type \in {"UserLeft", "ChatMsg"} /\ m.sid \notin known
                  THEN [why |-> m.type, msg |-> m] ELSE crash
      /\ UNCHANGED <<serverVars, form, welcome, appBox, app, linked, listBox, listed, early, left>>

-----------------------------------------------------------------------------
PageStep ==
  \/ FormConnects \/ CallCancelled
  \/ AppConnects \/ AppFills \/ AppLinks
  \/ AppUserJoined \/ AppUserLeft \/ AppTellsWindow
  \/ AppNickChanged \/ AppRenames \/ AppChatMsg
  \/ AppAsks \/ AppDisconnects
  \/ ListStep \/ WindowStep
  \/ \E s \in Watched : Read(s)

(* ChatForm takes a nick out of the text that the server will find valid.  *)
Visit ==
  \/ \E n \in Nicks : SubmitConnect(n)
  \/ \E n \in Nicks \ Invalid : ChatSubmit(SetNick(n))
  \/ ChatSubmit(NewChatMsg) \/ ChatSubmit(Disconnect)

Next ==
  \/ PageStep \/ Visit
  \/ ServerStep /\ UNCHANGED pageVars
  \/ \E s \in Sessions :
       \/ PeerCloses(s) /\ UNCHANGED pageVars
       \/ s \notin Watched /\ ClientStep(s) /\ UNCHANGED pageVars

Spec == Init /\ [][Next]_vars

(* Bound: nothing is looked at after the page or the server has panicked.  *)
NoPanic == Running /\ culprit = NoOne

(* Bound: nor after the page has disconnected and its list or window been  *)
(* cleared.  It does nothing more, and to the server it is a session with  *)
(* a closed connection, which PeerCloses leads to without it.              *)
NotGone ==
  left /\ ~linked => /\ \E i \in DOMAIN listBox : listBox[i] = Clear
                    /\ \E i \in DOMAIN winBox : winBox[i] = Disconnect
-----------------------------------------------------------------------------
AppStates == {Idle} \cup [at : {"clearing", "greeting", "renaming"}]
             \cup [at : {"removing", "asking"}, msg : ServerMsgs]

TypeOK ==
  /\ ServerTypeOK
  /\ form \in {"shown", "joining", "welcomed", "refused", "hidden"}
  /\ welcome \in UserMaps
  /\ appBox \in Seq(ServerMsgs \cup Asks \cup {Connected, Disconnect})
  /\ app \in AppStates
  /\ linked \in BOOLEAN /\ early \in BOOLEAN /\ left \in BOOLEAN
  /\ listBox \in Seq([type : {"Insert"}, users : UserMaps] \cup {Clear}
                     \cup [type : {"Remove", "GetUser"}, sid : Sessions])
  /\ listed \in UserMaps
  /\ winBox \in Seq(ServerMsgs \cup {Greeting, Disconnect}
                    \cup [type : {"NewUser"}, users : UserMaps])
  /\ known \subseteq Sessions

(* app.rs:190-215, chat_window.rs:205, user_list.rs:172: App waits for     *)
(* UserList before it tells ChatWindow, so that the page knows everyone    *)
(* who was a user and leaves or renames, unless the broadcasts of the      *)
(* server overtook its welcome, or it has disconnected meanwhile.          *)
LeaverIsKnown ==
  \/ early \/ left
  \/ /\ crash.why # "GetUser"
     /\ crash.why = "UserLeft" => ~crash.msg.member

(* app.rs:160-230, server.rs:84-115, 151-180: when all that was sent has   *)
(* been handled, the list the user sees is the one of the server.  The     *)
(* client is not told of its own new nick, and a broadcast that overtakes  *)
(* the welcome is wiped out by it.                                         *)
Settled == /\ Running /\ linked /\ conn[Me] = "open" /\ app = Idle
           /\ appBox = <<>> /\ listBox = <<>> /\ out[Me] = <<>>

ListAgrees ==
  Settled /\ ~early /\ ~left =>
    /\ listed[Me] # NoNick
    /\ \A s \in Sessions \ {Me} : listed[s] = users[s]
=============================================================================
