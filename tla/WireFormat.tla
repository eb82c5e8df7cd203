----------------------------- MODULE WireFormat -----------------------------
(***************************************************************************)
(* The frames thespis_remote puts on a connection (src/wire_format.rs).    *)
(* A frame is the service id and connection id of its header; req names    *)
(* the request it is, or the request it answers, and stands for the        *)
(* serialized payload, which nothing but the actors at both ends reads.    *)
(***************************************************************************)
EXTENDS Naturals

CONSTANTS Services,   \* service ids of actors
          NullSid,    \* ServiceID::null(), marks an error
          FullSid,    \* ServiceID::full(), marks the answer to a call
          Calls,      \* requests that want an answer
          Sends,      \* requests that do not
          SidOf,      \* the service each request is for
          CidValues   \* number of values of a ConnID; 2^64 in the code

ASSUME WireFormatAssumption ==
  /\ NullSid # FullSid
  /\ {NullSid, FullSid} \cap Services = {}
  /\ Calls \cap Sends = {}
  /\ SidOf \in [Calls \cup Sends -> Services]
  /\ CidValues \in Nat \ {0, 1}

Requests == Calls \cup Sends
Cids     == 0 .. CidValues - 1
NullCid  == 0

Frames == [sid : Services \cup {NullSid, FullSid}, cid : Cids, req : Requests]

RequestFrame(r, cid)  == [sid |-> SidOf[r], cid |-> cid, req |-> r]
ResponseFrame(r, cid) == [sid |-> FullSid,  cid |-> cid, req |-> r]

(* Peer::prep_error                                                        *)
ErrorFrame(r, cid)    == [sid |-> NullSid,  cid |-> cid, req |-> r]

(* WireFormat::kind                                                        *)
Kind(f) == CASE f.sid = NullSid -> "ConnectionError"
             [] f.sid = FullSid -> "CallResponse"
             [] f.sid \notin {NullSid, FullSid} /\ f.cid = NullCid -> "IncomingSend"
             [] f.sid \notin {NullSid, FullSid} /\ f.cid # NullCid -> "IncomingCall"

(* AtomicU64::fetch_add(1): the counter wraps.  Each definition below      *)
(* follows a slip the checks are shown to notice.                          *)
AddOne(n)   == n + 1
FetchAdd(n) == (n + 1) % CidValues

CounterStuck(n) == IF n = NullCid THEN FetchAdd(n) ELSE n

(* The connection id Handler<Call> takes when the counter is n: zero means *)
(* a send, so it is skipped.                                               *)
FreshCid(n)     == IF n = NullCid THEN FetchAdd(n) ELSE n
CounterAfter(n) == FetchAdd(FreshCid(n))
=============================================================================
