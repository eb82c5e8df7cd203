------------------------------ MODULE Encoder -------------------------------
(***************************************************************************)
(* src/thes_wf.rs and src/thes_wf/encoder.rs: the bytes of a ThesWF, and   *)
(* the sink that writes them to a byte stream that takes as many bytes at  *)
(* a time as it likes.                                                     *)
(*                                                                         *)
(* A byte is known by the message it belongs to and its place in it, so    *)
(* that a byte that is lost, repeated or read as part of another message   *)
(* is told from the right one.                                             *)
(***************************************************************************)
EXTENDS Integers, Sequences

CONSTANTS
  Msgs,       \* the messages a peer may send
  Payload,    \* bytes of the serialized payload of each
  LenLen, LenSid, LenCid,   \* bytes of the header's fields; eight each in the code
  Room,       \* bytes the connection buffers between the two ends
  MaxSends,   \* bound: messages sent in one behaviour
  MayBreak    \* whether the connection may fail, as opposed to end

ASSUME EncoderAssumption ==
  /\ Payload \in [Msgs -> Nat]
  /\ {LenLen, LenSid, LenCid, Room, MaxSends} \subseteq Nat \ {0}
  /\ MayBreak \in BOOLEAN

VARIABLES
  sent,     \* messages start_send took, oldest first
  buffer,   \* Encoder::buffer: the message being written and the position in it
  stream,   \* bytes written and not yet read
  line      \* "up", "broken" when writes and reads fail, "ended" once the writer is gone

encoderVars == <<sent, buffer, stream, line>>

-----------------------------------------------------------------------------
(* The layout of a message.                                                *)
IdxSid    == LenLen
IdxCid    == IdxSid + LenSid
IdxMsg    == IdxCid + LenCid
LenHeader == IdxMsg

(* ThesWF::with_capacity and io::Write: the length field counts the header *)
(* and whatever payload has been appended.                                 *)
LenField(m) == LenHeader + Payload[m]

Bytes(m) == [i \in 1..LenField(m) |-> <<m, i>>]

(* The accessors look at fixed windows of the bytes of a message.          *)
Field(data, first, len) == SubSeq(data, first + 1, first + len)

View(data) == [sid |-> Field(data, IdxSid, LenSid),
               cid |-> Field(data, IdxCid, LenCid),
               msg |-> Field(data, IdxMsg, Len(data) - IdxMsg)]

NoBuffer        == [at |-> "none"]
Holding(m, pos) == [at |-> "some", msg |-> m, pos |-> pos]

-----------------------------------------------------------------------------
EncoderInit ==
  /\ sent   = <<>>
  /\ buffer = NoBuffer
  /\ stream = <<>>
  /\ line   = "up"

(* SinkExt::send: poll_ready has flushed what was there, start_send takes  *)
(* the message.                                                            *)
StartSend(m) ==
  /\ line # "ended"
  /\ buffer = NoBuffer
  /\ Len(sent) < MaxSends
  /\ buffer' = Holding(m, 0)
  /\ sent'   = Append(sent, m)
  /\ UNCHANGED <<stream, line>>

(* poll_flush: one poll_write.  Pending, when there is no room, keeps the  *)
(* buffer.                                                                 *)
AfterAnyWrite(m, pos) == NoBuffer
After(m, pos)         == IF pos = LenField(m) THEN NoBuffer ELSE Holding(m, pos)

AllAtOnce(left)  == {left}
WriteSizes(left) == 1..left

Write ==
  /\ buffer # NoBuffer
  /\ line = "up"
  /\ \E n \in WriteSizes(LenField(buffer.msg) - buffer.pos) :
       /\ Len(stream) + n <= Room
       /\ stream' = stream \o SubSeq(Bytes(buffer.msg), buffer.pos + 1, buffer.pos + n)
       /\ buffer' = After(buffer.msg, buffer.pos + n)
  /\ UNCHANGED <<sent, line>>

(* A write that fails or writes nothing: the message is dropped, the peer  *)
(* keeps its sink.                                                         *)
WriteFails ==
  /\ buffer # NoBuffer
  /\ line = "broken"
  /\ buffer' = NoBuffer
  /\ UNCHANGED <<sent, stream, line>>

(* The connection is reset.                                                *)
Break ==
  /\ MayBreak
  /\ line = "up"
  /\ line' = "broken"
  /\ UNCHANGED <<sent, buffer, stream>>

(* The sink is dropped: at rest, after poll_close, or with its process in  *)
(* the middle of a message.                                                *)
HangUp ==
  /\ line = "up"
  /\ line' = "ended"
  /\ UNCHANGED <<sent, buffer, stream>>

EncoderStep ==
  \/ \E m \in Msgs : StartSend(m)
  \/ Write \/ WriteFails \/ Break \/ HangUp
=============================================================================
