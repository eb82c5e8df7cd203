--------------------------- MODULE PeerAloneProofs ---------------------------
(***************************************************************************)
(* Theorems about PeerAlone.tla: peers whose other ends do whatever the    *)
(* protocol lets them do, for any number of peers, requests, services,     *)
(* connection ids and slots, and any faults.                               *)
(***************************************************************************)
EXTENDS PeerAlone, PeerProofs

USE WireFormatAssumption, PeerAssumption

-----------------------------------------------------------------------------
(* What a peer writes.  The other end, which acts on what it reads, is     *)
(* only well behaved in return for frames.                                 *)

(* peer.rs, send_msg and send_err: all a peer does to the connection of    *)
(* another program is to add frames to its own, when a handler is there.   *)
LEMMA PeerWritesFrames ==
  ASSUME Typed, PeerAloneAssumption, NEW p \in Peers, PeerStep(p) \/ UserStep(p),
         NEW e \in Outside
  PROVE  \/ wire'[e] = wire[e]
         \/ /\ e = Remote[p] /\ actor[p].at = "write"
            /\ \E f \in Frames : wire'[e] = Append(wire[e], f)
<1>1. e \in Ends /\ e # p
  BY DEF Outside, Ends, PeerAloneAssumption
<1>2. actor[p].at = "write" => actor[p].frame \in Frames
  <2>1. actor[p] \in Actors
    BY DEF Typed, TypeOK
  <2> QED
    BY <2>1 DEF Actors, Idle, InGrace
<1> QED
  BY <1>1, <1>2, WireStep

(* The other end has only been sent frames and keeps only frames.          *)
FramesOnly == /\ \A e \in Outside : wire[e] \in Seq(Frames)
              /\ asked \in [Outside -> SUBSET Frames]

(* The inductive invariant.                                                *)
AloneTyped == Typed /\ FramesOnly

(* wire_format.rs: what the environment puts on the connection and learns. *)
LEMMA EnvType ==
  ASSUME AloneTyped, PeerAloneAssumption, NEW p \in Peers, EnvStep(p)
  PROVE  AloneTyped'
<1> USE DEF AloneTyped, Typed, TypeOK, envFrame, actorVars, taskVars, CallsWritten, WritingFor
<1>1. /\ p \in Ends /\ Remote[p] \in Ends /\ Remote[p] \in Outside
      /\ \A e \in Outside : e \in Ends /\ e # p
  BY EndsOfPeer DEF Outside, Ends, PeerAloneAssumption
<1>2. ASSUME NEW m \in Items, Transmit(p, m)
      PROVE  /\ wire' \in [Ends -> Seq(Items)]
             /\ \A e \in Outside : wire'[e] = wire[e]
             /\ UNCHANGED <<eof, deaf>>
  BY <1>1, <1>2 DEF Transmit, Items
<1>3. ASSUME NEW r, NEW o \in {"ok", "error"}, outcome' = Told(r, o)
      PROVE  outcome' \in [Requests -> Outcomes]
  BY <1>3 DEF Told, Outcomes
<1>4. CASE EnvRead(p)
  <2>1. Head(wire[Remote[p]]) \in Frames
    BY <1>1, <1>4 DEF EnvRead, FramesOnly
  <2>2. wire' \in [Ends -> Seq(Items)] /\ \A e \in Outside : wire'[e] \in Seq(Frames)
    BY <1>1, <1>4 DEF EnvRead, FramesOnly, Items
  <2>3. asked' \in [Outside -> SUBSET Frames]
    BY <1>1, <1>4, <2>1 DEF EnvRead, FramesOnly
  <2>4. outcome' \in [Requests -> Outcomes]
    BY <1>3, <1>4 DEF EnvRead
  <2> QED
    BY <1>4, <2>2, <2>3, <2>4 DEF EnvRead, FramesOnly, Items
<1>5. CASE EnvAnswer(p)
  <2>1. PICK f \in asked[Remote[p]] :
             /\ \/ Transmit(p, ResponseFrame(f.req, f.cid))
                \/ Transmit(p, ErrorFrame(f.req, f.cid))
             /\ asked' = [asked EXCEPT ![Remote[p]] = @ \ {f}]
             /\ UNCHANGED <<envFrame, outcome, garbled>>
    BY <1>5 DEF EnvAnswer
  <2>2. f.req \in Requests /\ f.cid \in Cids
    BY <1>1 DEF FramesOnly, Frames
  <2>3. PICK m \in Items : Transmit(p, m)
    BY <2>1, <2>2, FramesAreFrames DEF Items
  <2>4. asked' \in [Outside -> SUBSET Frames]
    BY <1>1, <2>1 DEF FramesOnly
  <2> QED
    BY <1>2, <2>1, <2>3, <2>4 DEF FramesOnly, Items
<1>6. CASE EnvRequest(p)
  <2>1. PICK r \in Requests :
             /\ Transmit(p, RequestFrame(r, EnvCid[r]))
             /\ Learn(r, IF r \in Calls THEN "pending" ELSE "sent")
             /\ UNCHANGED <<envFrame, asked, garbled>>
    BY <1>6 DEF EnvRequest
  <2>2. EnvCid[r] \in Cids
    BY DEF PeerAloneAssumption
  <2>3. PICK m \in Items : Transmit(p, m)
    BY <2>1, <2>2, FramesAreFrames DEF Items
  <2>4. outcome' \in [Requests -> Outcomes]
    BY <2>1 DEF Learn, Outcomes
  <2> QED
    BY <1>2, <2>1, <2>3, <2>4 DEF FramesOnly, Items
<1>7. CASE EnvGarble(p)
  <2>1. WireErr \in Items
    BY DEF Items
  <2> QED
    BY <1>2, <1>7, <2>1 DEF EnvGarble, FramesOnly, Items
<1>8. CASE EnvHangUp(p)
  BY <1>1, <1>8 DEF EnvHangUp, FramesOnly, Items
<1>9. CASE EnvFollow(p)
  BY <1>1, <1>9 DEF EnvFollow, FramesOnly, Items
<1> QED
  BY <1>4, <1>5, <1>6, <1>7, <1>8, <1>9 DEF EnvStep

(* ... and what the peers and their users do to it.                        *)
LEMMA PeersType ==
  ASSUME AloneTyped, PeerAloneAssumption, NEW p \in Peers, PeerStep(p) \/ UserStep(p),
         UNCHANGED asked
  PROVE  AloneTyped'
<1>1. Typed'
  BY PeerStepType, UserType DEF AloneTyped
<1>2. ASSUME NEW e \in Outside PROVE wire'[e] \in Seq(Frames)
  <2>1. wire'[e] = wire[e] \/ \E f \in Frames : wire'[e] = Append(wire[e], f)
    BY <1>2, PeerWritesFrames DEF AloneTyped
  <2>2. wire[e] \in Seq(Frames)
    BY <1>2 DEF AloneTyped, FramesOnly
  <2>3. ASSUME NEW s \in Seq(Frames), NEW f \in Frames PROVE Append(s, f) \in Seq(Frames)
    BY <2>3
  <2>4. PICK s \in Seq(Frames) : s = wire[e]
    BY <2>2
  <2>5. wire'[e] = s \/ \E f \in Frames : wire'[e] = Append(s, f)
    BY <2>1, <2>4
  <2>6. CASE wire'[e] = s
    BY <2>6
  <2>7. ASSUME NEW f \in Frames, wire'[e] = Append(s, f) PROVE wire'[e] \in Seq(Frames)
    <3>1. Append(s, f) \in Seq(Frames)
      BY <2>3
    <3> QED
      BY <2>7, <3>1
  <2> QED
    BY <2>5, <2>6, <2>7
<1> QED
  BY <1>1, <1>2 DEF AloneTyped, FramesOnly

-----------------------------------------------------------------------------
(* The inductive invariant holds of every step of peers, their users and   *)
(* the other ends.                                                         *)
LEMMA AloneTypedAlways == Spec => []AloneTyped
<1> USE PeerAloneAssumption
<1>1. AloneInit => AloneTyped
  <2> SUFFICES ASSUME AloneInit PROVE AloneTyped
    OBVIOUS
  <2>1. Typed
    BY FirstTyped DEF AloneInit
  <2>2. FramesOnly
    BY DEF AloneInit, Init, FramesOnly, Outside, Ends
  <2> QED
    BY <2>1, <2>2 DEF AloneTyped
<1>2. AloneTyped /\ [AloneNext]_aloneVars => AloneTyped'
  <2> SUFFICES ASSUME AloneTyped, [AloneNext]_aloneVars PROVE AloneTyped'
    OBVIOUS
  <2>1. ASSUME NEW p \in Peers, PeerStep(p) \/ UserStep(p), UNCHANGED asked
        PROVE  AloneTyped'
    BY <2>1, PeersType
  <2>2. ASSUME NEW p \in Peers, EnvStep(p) PROVE AloneTyped'
    BY <2>2, EnvType
  <2>3. CASE UNCHANGED aloneVars
    BY <2>3 DEF AloneTyped, Typed, TypeOK, CallsWritten, WritingFor, FramesOnly, aloneVars,
       vars, actorVars, taskVars, wireVars
  <2> QED
    BY <2>1, <2>2, <2>3 DEF AloneNext
<1> QED
  BY <1>1, <1>2, PTL DEF Spec

(* src/peer.rs: a peer, whatever the other end sends it, stays within the  *)
(* states its types and its handlers' cases foresee.                       *)
THEOREM PeerTypeCorrect == Spec => []TypeOK
<1>1. AloneTyped => TypeOK
  BY DEF AloneTyped, Typed
<1> QED
  BY <1>1, AloneTypedAlways, PTL

-----------------------------------------------------------------------------
(* What the other end does to the connection, and what it knows.           *)
Says(p, m) ==
  \/ m = WireErr /\ UNCHANGED outcome
  \/ \E f \in asked[Remote[p]] :
       /\ m \in {ResponseFrame(f.req, f.cid), ErrorFrame(f.req, f.cid)}
       /\ UNCHANGED outcome
  \/ \E r \in Requests : /\ Origin[r] = Remote[p] /\ outcome[r] = "unused"
                         /\ m = RequestFrame(r, EnvCid[r])
                         /\ Learn(r, IF r \in Calls THEN "pending" ELSE "sent")

(* The environment reads what it was sent, in order, or puts one more item *)
(* on the connection, or closes it.                                        *)
LEMMA EnvWires ==
  ASSUME AloneTyped, PeerAloneAssumption, NEW p \in Peers, EnvStep(p)
  PROVE  \/ EnvRead(p)
         \/ /\ \A e \in Ends : wire'[e] = wire[e] \/ wire'[e] = <<>>
            /\ UNCHANGED outcome
         \/ \E m \in Items : /\ wire' = [wire EXCEPT ![p] = Append(@, m)]
                             /\ Says(p, m)
<1> USE DEF AloneTyped, Typed, TypeOK
<1>1. ASSUME NEW m \in Items, Transmit(p, m), Says(p, m)
      PROVE  \E x \in Items : wire' = [wire EXCEPT ![p] = Append(@, x)] /\ Says(p, x)
  BY <1>1 DEF Transmit
<1>2. CASE EnvAnswer(p)
  <2>1. PICK f \in asked[Remote[p]] :
             /\ \/ Transmit(p, ResponseFrame(f.req, f.cid))
                \/ Transmit(p, ErrorFrame(f.req, f.cid))
             /\ UNCHANGED outcome
    BY <1>2 DEF EnvAnswer
  <2>2. Remote[p] \in Outside /\ asked \in [Outside -> SUBSET Frames]
    BY DEF FramesOnly, Outside
  <2>3. f.req \in Requests /\ f.cid \in Cids
    <3>1. f \in Frames
      BY <2>2
    <3> QED
      BY <3>1 DEF Frames
  <2>4. PICK m \in Items : /\ m \in {ResponseFrame(f.req, f.cid), ErrorFrame(f.req, f.cid)}
                           /\ Transmit(p, m)
    BY <2>1, <2>3, FramesAreFrames DEF Items
  <2> QED
    BY <1>1, <2>1, <2>4 DEF Says
<1>3. CASE EnvRequest(p)
  <2>1. PICK r \in Requests : /\ Origin[r] = Remote[p] /\ outcome[r] = "unused"
                              /\ Transmit(p, RequestFrame(r, EnvCid[r]))
                              /\ Learn(r, IF r \in Calls THEN "pending" ELSE "sent")
    BY <1>3 DEF EnvRequest
  <2>2. EnvCid[r] \in Cids
    BY DEF PeerAloneAssumption
  <2>3. PICK m \in Items : m = RequestFrame(r, EnvCid[r])
    BY <2>2, FramesAreFrames DEF Items
  <2> QED
    BY <1>1, <2>1, <2>3 DEF Says
<1>4. CASE EnvGarble(p)
  BY <1>1, <1>4 DEF EnvGarble, Items, Says
<1>5. CASE EnvHangUp(p) \/ EnvFollow(p)
  BY <1>5 DEF EnvHangUp, EnvFollow
<1> QED
  BY <1>2, <1>3, <1>4, <1>5 DEF EnvStep

(* What the other end has read and not answered are calls it was sent.     *)
AskedRight(g) == \A p \in Peers : \A f \in asked[Remote[p]] :
  /\ ~Answers(f) /\ Origin[f.req] = p
  /\ Tagged(g, f) /\ f.cid # NullCid

(* It chooses the ids of its own calls.                                    *)
FixedIds(g) == \A r \in Requests : Origin[r] \notin Peers => g[r] = EnvCid[r]

(* What it sends is sent to the peer, under the ids of g.                  *)
LEMMA SentToPeer ==
  ASSUME AloneTyped, PeerAloneAssumption, NEW g \in Labels, FixedIds(g), AskedRight(g),
         NEW p \in Peers, NEW m \in Items, Says(p, m)
  PROVE  Inbound(p, m) /\ Tagged(g, m)
<1>1. CASE m = WireErr
  BY <1>1 DEF Inbound, Tagged
<1>2. ASSUME NEW f \in asked[Remote[p]],
             m \in {ResponseFrame(f.req, f.cid), ErrorFrame(f.req, f.cid)}
      PROVE  Inbound(p, m) /\ Tagged(g, m)
  <2>1. f \in Frames /\ f # WireErr /\ f.req \in Requests /\ f.cid \in Cids
    BY DEF AloneTyped, FramesOnly, Frames, Outside
  <2>2. Origin[f.req] = p /\ f.cid # NullCid /\ Tagged(g, f)
    BY DEF AskedRight
  <2>3. f.cid = g[f.req] /\ (f.req \in Calls <=> f.cid # NullCid)
    BY <2>1, <2>2 DEF Tagged
  <2>4. Tagged(g, m)
    BY <1>2, <2>1, <2>2, <2>3, TaggedFrames
  <2> QED
    BY <1>2, <2>1, <2>2, <2>4, MadeFrames DEF Inbound
<1>3. ASSUME NEW r \in Requests, Origin[r] = Remote[p], m = RequestFrame(r, EnvCid[r])
      PROVE  Inbound(p, m) /\ Tagged(g, m)
  <2>1. EnvCid[r] \in Cids /\ EnvCid[r] = g[r] /\ (EnvCid[r] = NullCid <=> r \in Sends)
    BY <1>3 DEF FixedIds, PeerAloneAssumption
  <2>2. r \in Calls <=> EnvCid[r] # NullCid
    BY <2>1 DEF Requests
  <2> QED
    BY <1>3, <2>1, <2>2, MadeFrames, TaggedFrames DEF Inbound
<1> QED
  BY <1>1, <1>2, <1>3 DEF Says

(* The other end learns what becomes of its own requests only.             *)
LEMMA EnvLearns ==
  ASSUME AloneTyped, PeerAloneAssumption, Traffic, NEW p \in Peers, EnvStep(p),
         NEW r \in Requests, outcome'[r] # outcome[r]
  PROVE  /\ Origin[r] = Remote[p]
         /\ \/ outcome[r] = "unused" /\ outcome'[r] \in {"pending", "sent"}
            \/ /\ EnvRead(p) /\ Head(wire[Remote[p]]).req = r /\ Answers(Head(wire[Remote[p]]))
               /\ outcome'[r] \in IF outcome[r] = "pending" THEN {"ok", "error"} ELSE {"wrong"}
<1> USE DEF AloneTyped, Typed, TypeOK
<1>1. ASSUME NEW m, Says(p, m)
      PROVE  /\ Origin[r] = Remote[p] /\ outcome[r] = "unused"
             /\ outcome'[r] \in {"pending", "sent"}
  BY <1>1 DEF Says, Learn
<1>2. CASE EnvRead(p)
  <2>1. PICK f : f = Head(wire[Remote[p]])
    OBVIOUS
  <2>2. r = f.req /\ Answers(f)
        /\ outcome'[r] \in IF outcome[r] = "pending" THEN {"ok", "error"} ELSE {"wrong"}
    BY <1>2, <2>1, KindsOfFrames DEF EnvRead, Told
  <2>3. wire[Remote[p]] \in Seq(Frames) /\ wire[Remote[p]] # <<>>
    BY <1>2 DEF EnvRead, FramesOnly, Outside
  <2>4. 1 \in DOMAIN wire[Remote[p]] /\ f = wire[Remote[p]][1]
    BY <2>1, <2>3
  <2>5. Own(p, f)
    BY <2>4 DEF Traffic, TrafficAt
  <2> QED
    BY <1>2, <2>1, <2>2, <2>5 DEF Own
<1> QED
  BY <1>1, <1>2, EnvWires

-----------------------------------------------------------------------------
(* A step of the other end moves the connection only.                      *)
LEMMA EnvMoves ==
  ASSUME AloneTyped, PeerAloneAssumption, NEW p \in Peers, EnvStep(p), NEW e \in Ends
  PROVE  \/ wire'[e] = wire[e] \/ wire'[e] = <<>>
         \/ EnvRead(p) /\ e = Remote[p] /\ wire[e] # <<>> /\ wire'[e] = Tail(wire[e])
         \/ e = p /\ \E m \in Items : Says(p, m) /\ wire'[e] = Append(wire[e], m)
<1>1. wire \in [Ends -> Seq(Items)]
  BY DEF AloneTyped, Typed, TypeOK, Items
<1>2. CASE EnvRead(p)
  BY <1>1, <1>2 DEF EnvRead
<1>3. ASSUME NEW m \in Items, wire' = [wire EXCEPT ![p] = Append(@, m)], Says(p, m)
      PROVE  wire'[e] = wire[e] \/ (e = p /\ wire'[e] = Append(wire[e], m))
  BY <1>1, <1>3
<1> QED
  BY <1>2, <1>3, EnvWires

(* What was on the connection stays in order, and what is new is sent to   *)
(* the peer.                                                               *)
LEMMA EnvItems ==
  ASSUME AloneTyped, PeerAloneAssumption, NEW g \in Labels, FixedIds(g), AskedRight(g),
         NEW p \in Peers, EnvStep(p), NEW e \in Ends, NEW i \in DOMAIN wire'[e]
  PROVE  \/ \E j \in DOMAIN wire[e] : wire'[e][i] = wire[e][j]
         \/ e = p /\ Inbound(p, wire'[e][i]) /\ Tagged(g, wire'[e][i])
<1>1. PICK s \in Seq(Items) : s = wire[e]
  BY DEF AloneTyped, Typed, TypeOK, Items
<1>2. CASE wire'[e] = s \/ wire'[e] = <<>>
  BY <1>1, <1>2
<1>3. CASE s # <<>> /\ wire'[e] = Tail(s)
  <2>1. i + 1 \in DOMAIN s /\ Tail(s)[i] = s[i + 1]
    BY <1>3, TakenFrom
  <2> QED
    BY <1>1, <1>3, <2>1
<1>4. ASSUME e = p, NEW m \in Items, Says(p, m), wire'[e] = Append(s, m)
      PROVE  \/ \E j \in DOMAIN wire[e] : wire'[e][i] = wire[e][j]
             \/ e = p /\ Inbound(p, wire'[e][i]) /\ Tagged(g, wire'[e][i])
  <2>1. (i \in DOMAIN s /\ Append(s, m)[i] = s[i]) \/ Append(s, m)[i] = m
    BY <1>4, PutInto
  <2>2. Inbound(p, m) /\ Tagged(g, m)
    BY <1>4, SentToPeer
  <2>3. CASE Append(s, m)[i] = m
    <3>1. wire'[e][i] = m
      BY <1>4, <2>3
    <3> QED
      BY <1>4, <2>2, <3>1
  <2>4. CASE i \in DOMAIN s /\ Append(s, m)[i] = s[i]
    BY <1>1, <1>4, <2>4
  <2> QED
    BY <2>1, <2>3, <2>4
<1> QED
  BY <1>1, <1>2, <1>3, <1>4, EnvMoves

(* The requests and answers on the connection are the right ones still,    *)
(* and no peer notices.                                                    *)
LEMMA EnvKeepsRequesting ==
  ASSUME AloneTyped, PeerAloneAssumption, Requesting, AllTimed, NEW g \in Labels,
         FixedIds(g), AskedRight(g), NEW p \in Peers, EnvStep(p)
  PROVE  Requesting' /\ AllTimed'
<1>1. UNCHANGED envFrame
  BY DEF EnvStep, EnvRead, EnvAnswer, EnvRequest, EnvGarble, EnvHangUp, EnvFollow
<1>2. ASSUME NEW r \in Requests, Origin[r] \in Peers PROVE outcome'[r] = outcome[r]
  BY <1>2, EnvLearns, PeerAloneAssumption DEF Requesting
<1>3. ASSUME NEW q \in Peers PROVE TrafficAt(q)'
  <2>1. q \in Ends /\ Remote[q] \in Ends /\ Remote[q] # p
    BY EndsOfPeer, PeerAloneAssumption
  <2>2. TrafficAt(q)
    BY DEF Requesting, Traffic
  <2>3. \A i \in DOMAIN wire'[q] : Inbound(q, wire'[q][i])
    BY <2>1, <2>2, EnvItems DEF TrafficAt
  <2>4. \A i \in DOMAIN wire'[Remote[q]] : Own(q, wire'[Remote[q]][i])
    BY <2>1, <2>2, EnvItems DEF TrafficAt
  <2>5. UNCHANGED <<mailbox, results, actor, listener, requests, timers>>
    BY <1>1 DEF envFrame, actorVars, taskVars
  <2> QED
    BY <2>2, <2>3, <2>4, <2>5 DEF TrafficAt
<1>4. ASSUME NEW q \in Peers, NEW r \in Requests PROVE QueuedAt(q, r)'
  <2>1. QueuedAt(q, r)
    BY DEF Requesting, QueuedOnce
  <2>2. UNCHANGED <<mailbox, actor>>
    BY <1>1 DEF envFrame, actorVars
  <2>3. ASSUME NEW i \in DOMAIN mailbox[q], Asks(q, mailbox[q][i], r) PROVE Origin[r] = q
    BY <2>3 DEF Asks, Requesting, Traffic, TrafficAt, Meant
  <2>4. Makes(q, r) => Origin[r] = q
    BY DEF Makes
  <2>5. Origin[r] = q => outcome'[r] = outcome[r]
    BY <1>2
  <2>6. Makes(q, r)' <=> Makes(q, r)
    BY <2>2 DEF Makes
  <2> QED
    BY <2>1, <2>2, <2>3, <2>4, <2>5, <2>6 DEF QueuedAt
<1>5. ASSUME NEW q \in Peers, NEW i \in Cids PROVE MapEntry(q, i)'
  <2>1. MapEntry(q, i) /\ (responses[q][i] = NoCall \/ responses[q][i] \in Requests)
    BY DEF Requesting, AllMapped, AloneTyped, Typed, TypeOK, Requests
  <2>2. UNCHANGED responses
    BY <1>1 DEF envFrame, actorVars
  <2> QED
    BY <1>2, <2>1, <2>2 DEF MapEntry
<1>6. ASSUME NEW q \in Peers, NEW c \in Calls PROVE PendingAt(q, c)'
  <2>1. PendingAt(q, c) /\ c \in Requests
    BY DEF AllTimed, Requests
  <2>2. UNCHANGED <<responses, mailbox, timers>>
    BY <1>1 DEF envFrame, actorVars, taskVars
  <2>3. Origin[c] = q => outcome'[c] = outcome[c]
    BY <1>2, <2>1
  <2> QED
    BY <2>1, <2>2, <2>3 DEF PendingAt, Timed, InMailbox
<1> QED
  BY <1>3, <1>4, <1>5, <1>6 DEF Requesting, Traffic, QueuedOnce, AllMapped, AllTimed

(* Nor do the ids change: the other end answers under the id of the call.  *)
LEMMA EnvKeepsIds ==
  ASSUME AloneTyped, PeerAloneAssumption, Requesting, NEW g \in Labels, Identified(g),
         FixedIds(g), AskedRight(g), NEW p \in Peers, EnvStep(p)
  PROVE  Identified(g)' /\ AskedRight(g)'
<1>1. UNCHANGED envFrame
  BY DEF EnvStep, EnvRead, EnvAnswer, EnvRequest, EnvGarble, EnvHangUp, EnvFollow
<1>2. ASSUME NEW e \in Ends, NEW i \in DOMAIN wire'[e] PROVE Tagged(g, wire'[e][i])
  BY <1>2, EnvItems DEF Identified, Labelled
<1>3. Labelled(g)'
  <2>1. \A q \in Peers : LabelledAt(g, q)
    BY DEF Identified, Labelled
  <2>2. \A q \in Peers : LabelledAt(g, q)'
    BY <1>1, <2>1 DEF LabelledAt, envFrame, actorVars, taskVars
  <2> QED
    BY <1>2, <2>2 DEF Identified, Labelled
<1>4. Ungiven(g)'
  <2>1. ASSUME NEW q \in Peers, NEW c \in Calls, Origin[c] = q, Waits(q, c)'
        PROVE  Waits(q, c)
    <3>1. c \in Requests /\ Remote[p] # q
      BY PeerAloneAssumption DEF Requests
    <3>2. outcome'[c] = outcome[c]
      BY <2>1, <3>1, EnvLearns DEF Requesting
    <3> QED
      BY <1>1, <2>1, <3>2 DEF Waits, InMailbox, envFrame, actorVars
  <2> QED
    BY <2>1 DEF Ungiven, Identified
<1>5. EnoughIds => \A q \in Peers : Counted(g, q)'
  BY <1>1 DEF Identified, Counted, envFrame, actorVars
<1>6. AskedRight(g)'
  <2>1. ASSUME NEW q \in Peers, NEW f \in asked'[Remote[q]]
        PROVE  /\ ~Answers(f) /\ Origin[f.req] = q
               /\ Tagged(g, f) /\ f.cid # NullCid
    <3>1. asked \in [Outside -> SUBSET Frames] /\ Remote[q] \in Outside /\ Remote[p] \in Outside
      BY DEF AloneTyped, FramesOnly, Outside
    <3>2. CASE f \in asked[Remote[q]]
      BY <3>2 DEF AskedRight
    <3>3. CASE f \notin asked[Remote[q]]
      <4>1. EnvRead(p) /\ q = p /\ f = Head(wire[Remote[p]]) /\ Kind(f) = "IncomingCall"
        BY <2>1, <3>1, <3>3
           DEF EnvStep, EnvRead, EnvAnswer, EnvRequest, EnvGarble, EnvHangUp, EnvFollow
      <4>2. wire[Remote[p]] \in Seq(Frames) /\ wire[Remote[p]] # <<>>
        BY <3>1, <4>1 DEF EnvRead, AloneTyped, FramesOnly
      <4>3. 1 \in DOMAIN wire[Remote[p]] /\ f = wire[Remote[p]][1] /\ f \in Frames
        BY <4>1, <4>2
      <4>4. Own(p, f) /\ Tagged(g, f)
        BY <4>3, EndsOfPeer
           DEF Requesting, Traffic, TrafficAt, Identified, Labelled
      <4> QED
        BY <4>1, <4>4, KindsOfFrames DEF Own
    <3> QED
      BY <3>2, <3>3
  <2> QED
    BY <2>1 DEF AskedRight
<1> QED
  BY <1>3, <1>4, <1>5, <1>6 DEF Identified

-----------------------------------------------------------------------------
(* The requests of the other end, each of which is in one place.           *)
AllHeld == \A p \in Peers : \A r \in Requests : Origin[r] = Remote[p] => Held(p, r)

(* What leaves the connection leaves at most one of each behind.           *)
LEMMA FewerHeld ==
  ASSUME NEW p \in Peers, NEW r \in Requests, Held(p, r), UNCHANGED envFrame,
         OnlyOne(wire'[p], Bearing(r)), ToRead(p, r)' => ToRead(p, r),
         OnlyOne(wire'[Remote[p]], Bearing(r)), Answered(p, r)' => Answered(p, r),
         outcome'[r] = outcome[r] \/ (Answered(p, r) /\ ~Answered(p, r)')
  PROVE  Held(p, r)'
<1>1. /\ OnlyTask(p, r)' <=> OnlyTask(p, r)
      /\ Read(p, r)' <=> Read(p, r)
      /\ InQueue(p, r)' <=> InQueue(p, r)
      /\ InTask(p, r)' <=> InTask(p, r)
      /\ Collected(p, r)' <=> Collected(p, r)
      /\ Written(p, r)' <=> Written(p, r)
  BY DEF OnlyTask, Read, InQueue, InTask, Collected, Written, envFrame, actorVars, taskVars
<1>2. mailbox' = mailbox
  BY DEF envFrame, actorVars
<1>3. Single(p, r)'
  BY <1>1, <1>2 DEF Held, Single
<1>4. Apart(p, r)'
  BY <1>1 DEF Held, Apart
<1>5. Around(p, r)' => Around(p, r) /\ outcome'[r] = outcome[r]
  BY <1>1 DEF Around, Held, Apart
<1> QED
  BY <1>3, <1>4, <1>5 DEF Held

(* A connection that ends, or is read from.                                *)
LEMMA FewerItems ==
  ASSUME NEW S, NEW B, NEW s \in Seq(S), OnlyOne(s, B), NEW w,
         w = s \/ w = <<>> \/ (s # <<>> /\ w = Tail(s))
  PROVE  OnlyOne(w, B) /\ (Has(w, B) => Has(s, B))
<1>1. CASE w = s
  BY <1>1
<1>2. CASE w = <<>>
  BY <1>2 DEF OnlyOne, Has
<1>3. CASE s # <<>> /\ w = Tail(s)
  BY <1>3, OneTaken
<1> QED
  BY <1>1, <1>2, <1>3

(* The other end makes each of its requests once and has nothing to do     *)
(* with those of the peer.                                                 *)
LEMMA EnvKeepsHeld ==
  ASSUME AloneTyped, PeerAloneAssumption, Requesting, NEW g \in Labels, FixedIds(g),
         AskedRight(g), AllHeld, NEW p \in Peers, EnvStep(p)
  PROVE  AllHeld'
<1>1. UNCHANGED envFrame
  BY DEF EnvStep, EnvRead, EnvAnswer, EnvRequest, EnvGarble, EnvHangUp, EnvFollow
<1>2. SUFFICES ASSUME NEW q \in Peers, NEW r \in Requests, Origin[r] = Remote[q]
               PROVE  Held(q, r)'
  BY DEF AllHeld
<1>3. Held(q, r)
  BY <1>2 DEF AllHeld
<1>4. /\ q \in Ends /\ Remote[q] \in Ends /\ Remote[q] # p /\ q # Remote[p] /\ Remote[q] # q
      /\ Remote[q] = Remote[p] => p = q
  BY EndsOfPeer, PeerAloneAssumption
<1>5. PICK s \in Seq(Items), u \in Seq(Items) : s = wire[q] /\ u = wire[Remote[q]]
  BY <1>4 DEF AloneTyped, Typed, TypeOK, Items
<1>6. OnlyOne(s, Bearing(r)) /\ OnlyOne(u, Bearing(r))
  BY <1>3, <1>5 DEF Held, Single
<1>7. \/ wire'[Remote[q]] = u \/ wire'[Remote[q]] = <<>>
      \/ EnvRead(p) /\ q = p /\ u # <<>> /\ wire'[Remote[q]] = Tail(u)
  BY <1>4, <1>5, EnvMoves
<1>8. OnlyOne(wire'[Remote[q]], Bearing(r)) /\ (Answered(q, r)' => Answered(q, r))
  BY <1>5, <1>6, <1>7, FewerItems DEF Answered
<1>9. CASE wire'[q] = s \/ wire'[q] = <<>> \/ (s # <<>> /\ wire'[q] = Tail(s))
  <2>1. OnlyOne(wire'[q], Bearing(r)) /\ (ToRead(q, r)' => ToRead(q, r))
    BY <1>5, <1>6, <1>9, FewerItems DEF ToRead
  <2>2. CASE outcome'[r] = outcome[r]
    BY <1>1, <1>3, <1>8, <2>1, <2>2, FewerHeld
  <2>3. CASE outcome'[r] # outcome[r] /\ outcome[r] = "unused"
    <3>1. ~Around(q, r)
      BY <1>3, <2>3 DEF Held
    <3>2. ~Around(q, r)'
      BY <1>1, <1>8, <2>1, <3>1 DEF Around, Read, InQueue, InTask, Collected, Written,
         envFrame, actorVars, taskVars
    <3>3. Single(q, r)'
      BY <1>1, <1>3, <1>8, <2>1 DEF Held, Single, OnlyTask, envFrame, actorVars, taskVars
    <3> QED
      BY <3>2, <3>3 DEF Held, Apart, Around
  <2>4. CASE outcome'[r] # outcome[r] /\ outcome[r] # "unused"
    <3>1. /\ Origin[r] = Remote[p] /\ EnvRead(p)
          /\ Head(wire[Remote[p]]).req = r
      BY <2>4, EnvLearns DEF Requesting
    <3>2. p = q /\ wire'[Remote[q]] = Tail(u) /\ u # <<>>
      BY <1>2, <1>4, <1>5, <3>1 DEF EnvRead, AloneTyped, Typed, TypeOK
    <3>3. u \in Seq(Frames)
      BY <1>5 DEF AloneTyped, FramesOnly, Outside
    <3>4. Head(u) \in Bearing(r)
      BY <1>5, <3>1, <3>2, <3>3 DEF Bearing
    <3>5. Answered(q, r) /\ ~Answered(q, r)'
      <4>1. Has(u, Bearing(r)) /\ ~Has(Tail(u), Bearing(r))
        BY <1>6, <3>2, <3>4, OneTaken
      <4> QED
        BY <1>5, <3>2, <4>1 DEF Answered
    <3> QED
      BY <1>1, <1>3, <1>8, <2>1, <3>5, FewerHeld
  <2> QED
    BY <2>2, <2>3, <2>4
<1>10. ASSUME q = p, NEW m \in Items, Says(p, m), wire'[q] = Append(s, m)
       PROVE  Held(q, r)'
  <2>1. CASE m \notin Bearing(r)
    <3>1. OnlyOne(wire'[q], Bearing(r)) /\ (ToRead(q, r)' => ToRead(q, r))
      BY <1>5, <1>6, <1>10, <2>1, OnePut DEF ToRead
    <3>2. outcome'[r] = outcome[r]
      <4>1. ASSUME NEW x \in Requests, m = RequestFrame(x, EnvCid[x]) PROVE x # r
        <5>1. EnvCid[x] \in Cids
          BY DEF PeerAloneAssumption
        <5> QED
          BY <2>1, <4>1, <5>1, FramesAreFrames, MadeFrames DEF Bearing
      <4> QED
        BY <1>10, <4>1 DEF Says, Learn, AloneTyped, Typed, TypeOK
    <3> QED
      BY <1>1, <1>3, <1>8, <3>1, <3>2, FewerHeld
  <2>2. CASE m \in Bearing(r)
    <3>1. m.req = r /\ m # WireErr
      BY <2>2 DEF Bearing
    <3>2. Inbound(p, m)
      BY <1>10, SentToPeer
    <3>3. ~Answers(m)
      BY <1>2, <1>4, <1>10, <3>1, <3>2 DEF Inbound
    <3>4. ASSUME NEW f \in asked[Remote[p]],
                 m \in {ResponseFrame(f.req, f.cid), ErrorFrame(f.req, f.cid)}
          PROVE  FALSE
      BY <3>3, <3>4 DEF Answers, ResponseFrame, ErrorFrame
    <3>5. PICK x \in Requests : /\ outcome[x] = "unused" /\ m = RequestFrame(x, EnvCid[x])
                                /\ Learn(x, IF x \in Calls THEN "pending" ELSE "sent")
      BY <1>10, <3>1, <3>4 DEF Says
    <3>6. x = r
      BY <3>1, <3>5 DEF RequestFrame
    <3>7. outcome'[r] = IF r \in Calls THEN "pending" ELSE "sent"
      BY <3>5, <3>6 DEF Learn, AloneTyped, Typed, TypeOK
    <3>8. ~Around(q, r)
      BY <1>3, <3>5, <3>6 DEF Held
    <3>9. OnlyOne(wire'[q], Bearing(r))
      BY <1>5, <1>6, <1>10, <3>8, OnePut DEF Around, ToRead
    <3>10. ~(\/ Read(q, r) \/ InQueue(q, r) \/ InTask(q, r) \/ Collected(q, r)
             \/ Written(q, r) \/ Answered(q, r))'
      BY <1>1, <1>8, <3>8 DEF Around, Read, InQueue, InTask, Collected, Written, envFrame,
         actorVars, taskVars
    <3>11. Single(q, r)'
      BY <1>1, <1>3, <1>8, <3>9 DEF Held, Single, OnlyTask, envFrame, actorVars, taskVars
    <3>12. Apart(q, r)'
      BY <3>10 DEF Apart
    <3> QED
      BY <3>7, <3>11, <3>12 DEF Held
  <2> QED
    BY <2>1, <2>2
<1> QED
  BY <1>4, <1>5, <1>9, <1>10, EnvMoves

-----------------------------------------------------------------------------
(* What holds of peers and other ends together.                            *)
Knowing(g) == Identified(g) /\ FixedIds(g) /\ AskedRight(g)

AloneInv == /\ AloneTyped /\ Requesting /\ AllTimed /\ AllHeld
            /\ \E g \in Labels : Knowing(g)

(* src/peer.rs: a peer touches no connection but its own.                  *)
LEMMA ElsewhereHeld ==
  ASSUME Typed, Requesting, PeerAloneAssumption, AllHeld, NEW p \in Peers,
         PeerStep(p) \/ UserStep(p)
  PROVE  AllHeld'
<1>1. SUFFICES ASSUME NEW q \in Peers, NEW r \in Requests, Origin[r] = Remote[q]
               PROVE  Held(q, r)'
  BY DEF AllHeld
<1>2. Held(q, r)
  BY <1>1 DEF AllHeld
<1>3. CASE q = p
  BY <1>1, <1>2, <1>3, HeldKept
<1>4. CASE q # p
  <2>1. /\ q \in Ends /\ Remote[q] \in Ends /\ q # Remote[p] /\ Remote[q] # p
        /\ Remote[q] # Remote[p]
    BY <1>4, EndsOfPeer, PeerAloneAssumption
  <2>2. wire'[q] = wire[q] /\ wire'[Remote[q]] = wire[Remote[q]]
    BY <1>4, <2>1, WireStep
  <2>3. /\ mailbox'[q] = mailbox[q] /\ results'[q] = results[q] /\ actor'[q] = actor[q]
        /\ listener'[q] = listener[q] /\ requests'[q] = requests[q]
    BY <1>4, OthersUntouched DEF OthersKept
  <2>4. Origin[r] # p
    BY <1>1, <2>1
  <2>5. outcome'[r] = outcome[r]
    BY <2>4, OutcomeStep DEF Advances
  <2>6. Single(q, r)'
    BY <1>2, <2>2, <2>3 DEF Held, Single, OnlyTask
  <2>7. /\ ToRead(q, r)' <=> ToRead(q, r)
        /\ Answered(q, r)' <=> Answered(q, r)
        /\ Read(q, r)' <=> Read(q, r)
        /\ InQueue(q, r)' <=> InQueue(q, r)
        /\ InTask(q, r)' <=> InTask(q, r)
        /\ Collected(q, r)' <=> Collected(q, r)
        /\ Written(q, r)' <=> Written(q, r)
    BY <2>2, <2>3 DEF ToRead, Answered, Read, InQueue, InTask, Collected, Written
  <2>8. Apart(q, r)'
    BY <1>2, <2>7 DEF Held, Apart
  <2>9. Around(q, r)' => Around(q, r)
    BY <2>7 DEF Around
  <2> QED
    BY <1>2, <2>5, <2>6, <2>8, <2>9 DEF Held
<1> QED
  BY <1>3, <1>4

(* src/peer.rs: what the steps of the peers and of their users keep.       *)
LEMMA PeersKeepAlone ==
  ASSUME AloneInv, PeerAloneAssumption, NEW p \in Peers, PeerStep(p) \/ UserStep(p),
         UNCHANGED asked
  PROVE  AloneInv'
<1>1. Typed /\ Requesting /\ AllTimed /\ AllHeld
  BY DEF AloneInv, AloneTyped
<1>2. Requesting' /\ AllTimed'
  BY <1>1, RequestingKept, TimedKept
<1>3. AllHeld'
  BY <1>1, ElsewhereHeld
<1>4. PICK g \in Labels : Knowing(g)
  BY DEF AloneInv
<1>5. PICK h \in Labels : /\ Identified(h)'
                          /\ \A r \in Requests : \/ h[r] = g[r]
                                                 \/ Origin[r] = p /\ g[r] = NullCid
  BY <1>1, <1>4, IdentifiedKept DEF Knowing
<1>6. FixedIds(h)
  BY <1>4, <1>5 DEF Knowing, FixedIds
<1>7. AskedRight(h)'
  <2>1. ASSUME NEW q \in Peers, NEW f \in asked[Remote[q]]
        PROVE  ~Answers(f) /\ Origin[f.req] = q /\ Tagged(h, f) /\ f.cid # NullCid
    <3>1. f \in Frames /\ f # WireErr
      BY DEF AloneInv, AloneTyped, FramesOnly, Outside
    <3>2. ~Answers(f) /\ Origin[f.req] = q /\ Tagged(g, f) /\ f.cid # NullCid
      BY <1>4 DEF Knowing, AskedRight
    <3>3. f.req \in Requests /\ f.cid = g[f.req]
      BY <3>1, <3>2 DEF Frames, Tagged
    <3>4. h[f.req] = f.cid
      BY <1>5, <3>2, <3>3
    <3> QED
      BY <3>2, <3>4 DEF Tagged
  <2> QED
    BY <2>1 DEF AskedRight
<1>8. AloneTyped'
  BY PeersType DEF AloneInv
<1> QED
  BY <1>2, <1>3, <1>5, <1>6, <1>7, <1>8 DEF AloneInv, Knowing, FixedIds

(* ... and the steps of the other ends.                                    *)
LEMMA EnvKeepsAlone ==
  ASSUME AloneInv, PeerAloneAssumption, NEW p \in Peers, EnvStep(p)
  PROVE  AloneInv'
<1>1. AloneTyped /\ Requesting /\ AllTimed /\ AllHeld
  BY DEF AloneInv
<1>2. PICK g \in Labels : Knowing(g)
  BY DEF AloneInv
<1>3. AloneTyped'
  BY <1>1, EnvType
<1>4. Requesting' /\ AllTimed'
  BY <1>1, <1>2, EnvKeepsRequesting DEF Knowing
<1>5. Identified(g)' /\ AskedRight(g)'
  BY <1>1, <1>2, EnvKeepsIds DEF Knowing
<1>6. AllHeld'
  BY <1>1, <1>2, EnvKeepsHeld DEF Knowing
<1> QED
  BY <1>2, <1>3, <1>4, <1>5, <1>6 DEF AloneInv, Knowing, FixedIds

(* A step in which neither moves.                                          *)
LEMMA NobodyMoves ==
  ASSUME AloneInv, UNCHANGED <<vars, asked>>
  PROVE  AloneInv'
<1> USE DEF AloneInv
<1>1. Requesting' /\ AllTimed'
  BY NothingHappens
<1> USE DEF vars, actorVars, taskVars, wireVars
<1>2. AloneTyped'
  BY DEF AloneTyped, Typed, TypeOK, CallsWritten, WritingFor, FramesOnly
<1>3. AllHeld'
  BY DEF AllHeld, Held, Single, OnlyTask, Apart, Around, ToRead, Read, InQueue, InTask,
     Collected, Written, Answered
<1>4. PICK g \in Labels : Knowing(g)
  OBVIOUS
<1>5. Knowing(g)'
  BY <1>4 DEF Knowing, Identified, Labelled, LabelledAt, Ungiven, Waits, InMailbox, Counted,
     FixedIds, AskedRight
<1> QED
  BY <1>1, <1>2, <1>3, <1>5

(* Peer::new: at the start nothing is anywhere, and the only ids given are *)
(* those of the other ends.                                                *)
LEMMA FirstAlone ==
  ASSUME AloneInit, PeerAloneAssumption
  PROVE  AloneInv
<1> USE DEF AloneInit, Init
<1>1. AloneTyped
  <2>1. Typed
    BY FirstTyped
  <2>2. FramesOnly
    BY DEF FramesOnly, Outside, Ends
  <2> QED
    BY <2>1, <2>2 DEF AloneTyped
<1>2. Requesting /\ AllTimed
  BY FirstRequesting
<1>3. AllHeld
  <2>1. ASSUME NEW p \in Peers, NEW r \in Requests PROVE Held(p, r)
    <3>1. /\ wire[p] = <<>> /\ wire[Remote[p]] = <<>> /\ mailbox[p] = <<>>
          /\ requests[p] = {} /\ results[p].at = "next" /\ listener[p].at = "next"
          /\ actor[p].at = "idle"
      BY EndsOfPeer DEF Collecting, Listening, Idle
    <3>2. ~Around(p, r)
      BY <3>1 DEF Around, ToRead, Read, InQueue, InTask, Collected, Written, Answered, Has
    <3>3. Single(p, r)
      BY <3>1 DEF Single, OnlyOne, OnlyTask
    <3> QED
      BY <3>2, <3>3 DEF Held, Apart, Around
  <2> QED
    BY <2>1 DEF AllHeld
<1>4. PICK g : g = [r \in Requests |-> IF Origin[r] \in Peers THEN NullCid ELSE EnvCid[r]]
  OBVIOUS
<1>5. g \in Labels /\ FixedIds(g) /\ AskedRight(g)
  BY <1>4 DEF Labels, FixedIds, AskedRight, PeerAloneAssumption, NullCid, Cids, Outside
<1>6. Identified(g)
  <2>1. \A s \in Sends : g[s] = NullCid
    BY <1>4 DEF PeerAloneAssumption, Requests
  <2>2. \A c \in Calls : Origin[c] \in Peers => g[c] = NullCid
    BY <1>4 DEF Requests
  <2> QED
    BY <1>5, <2>1, <2>2, FirstIdentified
<1> QED
  BY <1>1, <1>2, <1>3, <1>5, <1>6 DEF AloneInv, Knowing

(* What a step of any of them does.                                        *)
LEMMA AloneInvAlways == Spec => []AloneInv
<1> USE PeerAloneAssumption
<1>1. AloneInit => AloneInv
  BY FirstAlone
<1>2. AloneInv /\ [AloneNext]_aloneVars => AloneInv'
  BY PeersKeepAlone, EnvKeepsAlone, NobodyMoves DEF AloneNext, aloneVars
<1> QED
  BY <1>1, <1>2, PTL DEF Spec

(* call.rs:114-123, timeout.rs: whatever program is at the other end, a    *)
(* caller that waits has a channel in the map, and a timer that will take  *)
(* it out; and the map knows no other channel.                             *)
THEOREM PeerCallsAreTimed == Spec => []PendingCallsAreTimed
<1>1. AloneInv => PendingCallsAreTimed
  BY TimedMeans DEF AloneInv
<1> QED
  BY <1>1, AloneInvAlways, PTL

(* call_response.rs: the other end reads an answer to a call that waits.   *)
LEMMA AnswersAwaited ==
  ASSUME AloneInv, PeerAloneAssumption, NEW p \in Peers, wire[Remote[p]] # <<>>,
         NEW r \in Requests, Head(wire[Remote[p]]).req = r, Answers(Head(wire[Remote[p]]))
  PROVE  r \in Calls /\ outcome[r] = "pending" /\ Origin[r] = Remote[p]
<1>1. PICK f : f = Head(wire[Remote[p]])
  OBVIOUS
<1>2. Remote[p] \in Ends /\ Remote[p] \in Outside
  BY EndsOfPeer DEF Outside
<1>3. wire[Remote[p]] \in Seq(Frames)
  BY <1>2 DEF AloneInv, AloneTyped, FramesOnly
<1>4. f \in Frames /\ f # WireErr /\ 1 \in DOMAIN wire[Remote[p]] /\ f = wire[Remote[p]][1]
  BY <1>1, <1>3
<1>5. PICK g \in Labels : Labelled(g)
  BY DEF AloneInv, Knowing, Identified
<1>6. Tagged(g, f)
  BY <1>2, <1>4, <1>5 DEF Labelled
<1>7. r \in Calls
  BY <1>1, <1>4, <1>6 DEF Tagged
<1>8. Origin[r] = Remote[p]
  BY <1>1, <1>4 DEF AloneInv, Requesting, Traffic, TrafficAt, Own
<1>9. Answered(p, r) /\ Held(p, r)
  BY <1>1, <1>4, <1>8 DEF Answered, Has, Bearing, AloneInv, AllHeld
<1> QED
  BY <1>7, <1>8, <1>9 DEF Held, Around

(* A request is settled once: no late answer, timeout or shutdown changes  *)
(* what the maker was told, at either end of the connection.               *)
THEOREM PeerSettlesOnce == Spec => SettledOnce
<1> DEFINE Settled == \A r \in Requests : outcome[r] \in Final => outcome'[r] = outcome[r]
<1> USE PeerAloneAssumption
<1>1. AloneInv /\ [AloneNext]_aloneVars => [Settled]_outcome
  <2> SUFFICES ASSUME AloneInv, [AloneNext]_aloneVars
               PROVE  Settled \/ UNCHANGED outcome
    OBVIOUS
  <2>1. ASSUME NEW p \in Peers, PeerStep(p) \/ UserStep(p), NEW r \in Requests,
               outcome'[r] # outcome[r]
        PROVE  outcome[r] \notin Final
    BY <2>1, OutcomeStep DEF AloneInv, AloneTyped, Advances, NewlyMade, Final
  <2>2. ASSUME NEW p \in Peers, EnvStep(p), NEW r \in Requests, outcome'[r] # outcome[r]
        PROVE  outcome[r] \notin Final
    <3>1. \/ outcome[r] = "unused"
          \/ EnvRead(p) /\ Head(wire[Remote[p]]).req = r /\ Answers(Head(wire[Remote[p]]))
      BY <2>2, EnvLearns DEF AloneInv, Requesting
    <3>2. EnvRead(p) => wire[Remote[p]] # <<>>
      BY DEF EnvRead
    <3> QED
      BY <3>1, <3>2, AnswersAwaited DEF Final
  <2>3. UNCHANGED aloneVars => UNCHANGED outcome
    BY DEF aloneVars, vars
  <2> QED
    BY <2>1, <2>2, <2>3 DEF AloneNext
<1> QED
  BY <1>1, AloneInvAlways, PTL DEF Spec, SettledOnce

(* incoming.rs:63-95, timeout.rs:33: a caller is only ever told of the     *)
(* answer, the error or the timeout of its own call, as long as the ids of *)
(* the connection do not wrap.                                             *)
THEOREM PeerAnswersNeverCross ==
  ASSUME EnoughIds
  PROVE  Spec => []NoCrossedAnswers
<1> USE PeerAloneAssumption
<1>1. AloneInit => NoCrossedAnswers
  BY DEF AloneInit, Init, NoCrossedAnswers, Requests
<1>2. AloneInv /\ NoCrossedAnswers /\ [AloneNext]_aloneVars => NoCrossedAnswers'
  <2> SUFFICES ASSUME AloneInv, NoCrossedAnswers, [AloneNext]_aloneVars,
                      NEW c \in Calls, outcome'[c] = "wrong"
               PROVE  FALSE
    BY DEF NoCrossedAnswers
  <2>1. c \in Requests /\ outcome[c] # "wrong"
    BY DEF NoCrossedAnswers, Requests
  <2>2. ASSUME NEW p \in Peers, PeerStep(p) \/ UserStep(p) PROVE FALSE
    <3>1. PICK g \in Labels : Identified(g)
      BY DEF AloneInv, Knowing
    <3> QED
      BY <2>1, <2>2, <3>1, EnoughIds, NothingCrosses DEF AloneInv, AloneTyped
  <2>3. ASSUME NEW p \in Peers, EnvStep(p) PROVE FALSE
    <3>1. \/ /\ EnvRead(p) /\ Head(wire[Remote[p]]).req = c
             /\ Answers(Head(wire[Remote[p]]))
             /\ outcome'[c] \in IF outcome[c] = "pending" THEN {"ok", "error"} ELSE {"wrong"}
      BY <2>1, <2>3, EnvLearns DEF AloneInv, Requesting
    <3>2. EnvRead(p) => wire[Remote[p]] # <<>>
      BY DEF EnvRead
    <3> QED
      BY <2>1, <3>1, <3>2, AnswersAwaited
  <2>4. UNCHANGED aloneVars => outcome' = outcome
    BY DEF aloneVars, vars
  <2> QED
    BY <2>1, <2>2, <2>3, <2>4 DEF AloneNext
<1> QED
  BY <1>1, <1>2, AloneInvAlways, PTL DEF Spec

-----------------------------------------------------------------------------
(* The other end, which may close but never opens a connection.            *)
LEMMA OutsideShuts ==
  ASSUME Typed, AllShut, NEW p \in Peers, EnvStep(p)
  PROVE  AllShut'
<1>1. UNCHANGED <<closed, sink, actor, requests, timers, services, responses, listener,
                  results>>
  BY DEF EnvStep, EnvRead, EnvAnswer, EnvRequest, EnvGarble, EnvHangUp, EnvFollow, envFrame,
     actorVars, taskVars
<1>2. EndsLast
  <2>1. CASE UNCHANGED <<eof, deaf>>
    BY <2>1 DEF EndsLast
  <2>2. CASE /\ eof' = [eof EXCEPT ![p] = TRUE]
             /\ deaf' = [deaf EXCEPT ![Remote[p]] = TRUE]
    BY <2>2 DEF EndsLast, Typed, TypeOK
  <2> QED
    BY <2>1, <2>2 DEF EnvStep, EnvRead, EnvAnswer, EnvRequest, EnvGarble, EnvHangUp,
       EnvFollow, Transmit
<1> QED
  BY <1>1, <1>2, ShutKept

-----------------------------------------------------------------------------
(* The inductive invariant holds.                                          *)
LEMMA AllShutAlways == Spec => []AllShut
<1>1. AloneInit => AllShut
  BY FirstShut DEF AloneInit
<1>2. AloneTyped /\ AllShut /\ [AloneNext]_aloneVars => AllShut'
  <2> SUFFICES ASSUME AloneTyped, AllShut, [AloneNext]_aloneVars PROVE AllShut'
    OBVIOUS
  <2>1. Typed
    BY DEF AloneTyped
  <2>2. ASSUME NEW p \in Peers, PeerStep(p) \/ UserStep(p) PROVE AllShut'
    BY <2>1, <2>2, PeerStepShuts, UserShuts
  <2>3. ASSUME NEW p \in Peers, EnvStep(p) PROVE AllShut'
    BY <2>1, <2>3, OutsideShuts
  <2>4. CASE UNCHANGED aloneVars
    BY <2>4, ShutKept DEF aloneVars, vars, actorVars, taskVars, wireVars, EndsLast
  <2> QED
    BY <2>2, <2>3, <2>4 DEF AloneNext
<1> QED
  BY <1>1, <1>2, AloneTypedAlways, PTL DEF Spec

(* close_connection.rs: once a peer has closed and its grace period is     *)
(* over, it keeps no task, no caller and no service, ever again.           *)
THEOREM PeerClosesClean == Spec => []ClosedIsClean
<1>1. AllShut => ClosedIsClean
  BY DEF AllShut, Shut, Clean, ClosedIsClean
<1> QED
  BY <1>1, AllShutAlways, PTL

-----------------------------------------------------------------------------
(* Peer::outgoing, which the close took: only the handlers write, and they *)
(* do not wait for the connection of a closed peer.                        *)
LEMMA ClosedIsSilent ==
  ASSUME AloneTyped, AllShut, PeerAloneAssumption, NEW p \in Peers, NEW q \in Peers,
         PeerStep(p) \/ UserStep(p) \/ EnvStep(p), closed[q]
  PROVE  Len(wire'[Remote[q]]) <= Len(wire[Remote[q]])
<1> DEFINE e == Remote[q]
<1>1. /\ e \in Ends /\ e \in Outside /\ e # p
      /\ Remote[p] \in Ends /\ (e = Remote[p] => p = q)
  BY PeerAssumption, PeerAloneAssumption DEF Outside, Ends
<1>2. wire \in [Ends -> Seq(Items)]
  BY DEF AloneTyped, Typed, TypeOK, Items
<1>3. Len(wire[e]) \in Nat
  BY <1>1, <1>2
<1>4. CASE wire'[e] = wire[e]
  BY <1>3, <1>4
<1>5. CASE PeerStep(p) \/ UserStep(p)
  <2>1. actor[q].at # "write"
    BY DEF AllShut, Shut, Clean, Idle, InGrace
  <2>2. wire'[e] = wire[e]
    BY <1>1, <1>5, <2>1, PeerWritesFrames DEF AloneTyped
  <2> QED
    BY <1>4, <2>2
<1>6. CASE EnvRead(p)
  <2>1. \/ wire'[e] = wire[e]
        \/ wire[e] # <<>> /\ wire'[e] = Tail(wire[e])
    BY <1>1, <1>2, <1>6 DEF EnvRead
  <2>2. ASSUME NEW s \in Seq(Items), s # <<>> PROVE Len(Tail(s)) <= Len(s)
    BY <2>2
  <2>3. wire[e] \in Seq(Items)
    BY <1>1, <1>2
  <2> HIDE DEF e
  <2> QED
    BY <1>4, <2>1, <2>2, <2>3 DEF e
<1>7. CASE EnvHangUp(p)
  <2>1. wire'[e] = wire[e] \/ wire'[e] = <<>>
    BY <1>1, <1>2, <1>7 DEF EnvHangUp
  <2> QED
    BY <1>3, <1>4, <2>1
<1>8. CASE EnvAnswer(p) \/ EnvRequest(p) \/ EnvGarble(p) \/ EnvFollow(p)
  <2>1. wire'[e] = wire[e]
    BY <1>1, <1>2, <1>8 DEF EnvAnswer, EnvRequest, EnvGarble, EnvFollow, Transmit
  <2> QED
    BY <1>4, <2>1
<1> QED
  BY <1>5, <1>6, <1>7, <1>8 DEF EnvStep

(* peer_event.rs:6-8: nothing is sent over the connection after Closed or  *)
(* ClosedByRemote was reported.                                            *)
THEOREM PeerSilentAfterClose == Spec => SilentAfterClose
<1>1. AloneInit => ToldInTime
  BY DEF AloneInit, Init, ToldInTime, SaysClosed
<1>2. AloneTyped /\ ToldInTime /\ [AloneNext]_aloneVars => ToldInTime'
  <2> SUFFICES ASSUME AloneTyped, ToldInTime, [AloneNext]_aloneVars PROVE ToldInTime'
    OBVIOUS
  <2>1. ASSUME NEW p \in Peers, PeerStep(p) PROVE ToldInTime'
    BY <2>1, ReportsAreTrue DEF AloneTyped
  <2>2. ASSUME NEW p \in Peers, UserStep(p) \/ EnvStep(p) PROVE UNCHANGED <<events, closed>>
    BY <2>2 DEF UserStep, UserCall, UserSend, UserClose, EnvStep, EnvRead, EnvAnswer,
       EnvRequest, EnvGarble, EnvHangUp, EnvFollow, envFrame, actorVars
  <2>3. UNCHANGED <<events, closed>> => ToldInTime'
    BY DEF ToldInTime, SaysClosed
  <2>4. UNCHANGED aloneVars => UNCHANGED <<events, closed>>
    BY DEF aloneVars, vars, actorVars
  <2> QED
    BY <2>1, <2>2, <2>3, <2>4 DEF AloneNext
<1> DEFINE Silent == \A p \in Peers : events[p] \cap {"Closed", "ClosedByRemote"} # {} =>
                       Len(wire'[Remote[p]]) <= Len(wire[Remote[p]])
<1>3. AloneTyped /\ AllShut /\ ToldInTime /\ [AloneNext]_aloneVars => [Silent]_<<events, wire>>
  <2> SUFFICES ASSUME AloneTyped, AllShut, ToldInTime, [AloneNext]_aloneVars
               PROVE  [Silent]_<<events, wire>>
    OBVIOUS
  <2>1. CASE UNCHANGED aloneVars
    BY <2>1 DEF aloneVars, vars, wireVars
  <2>2. ASSUME NEW p \in Peers, PeerStep(p) \/ UserStep(p) \/ EnvStep(p) PROVE Silent
    BY <2>2, ClosedIsSilent, PeerAloneAssumption DEF ToldInTime, SaysClosed
  <2> QED
    BY <2>1, <2>2 DEF AloneNext
<1> QED
  BY <1>1, <1>2, <1>3, AloneTypedAlways, AllShutAlways, PTL DEF Spec, SilentAfterClose

-----------------------------------------------------------------------------
(* incoming.rs:235-238, call_response.rs:47-52: whatever the other end     *)
(* sends, and however many calls it makes, the peer with the back pressure *)
(* never gives back more slots than its calls took, and loses none as long *)
(* as no request fails and it is open.                                     *)
THEOREM PeerSlotsBalance == Spec => []SlotsBalanced
<1>1. AloneInit => AllFitting /\ SlotsBalanced
  BY FirstSlots DEF AloneInit
<1>2. AloneInv /\ AllShut /\ AllFitting /\ SlotsBalanced /\ [AloneNext]_aloneVars
        => (AllFitting /\ SlotsBalanced)'
  <2> SUFFICES ASSUME AloneInv, AllShut, AllFitting, SlotsBalanced, [AloneNext]_aloneVars
               PROVE  AllFitting' /\ SlotsBalanced'
    OBVIOUS
  <2>1. Typed /\ Traffic /\ AllApart
    BY DEF AloneInv, AloneTyped, Requesting, AllHeld, Held, AllApart
  <2>2. ASSUME NEW p \in Peers, PeerStep(p) \/ UserStep(p)
        PROVE  AllFitting' /\ SlotsBalanced'
    BY <2>1, <2>2, AllFittingKept, SlotsKept
  <2>3. ASSUME NEW p \in Peers, EnvStep(p)
        PROVE  UNCHANGED <<mailbox, actor, requests, results, events, closed, free>>
    BY <2>3 DEF EnvStep, EnvRead, EnvAnswer, EnvRequest, EnvGarble, EnvHangUp, EnvFollow,
       envFrame, actorVars, taskVars
  <2>4. UNCHANGED aloneVars
          => UNCHANGED <<mailbox, actor, requests, results, events, closed, free>>
    BY DEF aloneVars, vars, actorVars, taskVars
  <2> QED
    BY <2>2, <2>3, <2>4, SlotsUnmoved DEF AloneNext
<1> QED
  BY <1>1, <1>2, AloneInvAlways, AllShutAlways, PTL DEF Spec
==============================================================================
