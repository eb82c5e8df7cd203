------------------------------- MODULE Codec --------------------------------
(***************************************************************************)
(* src/thes_wf/decoder.rs and decoder_noheap.rs at the other end of the    *)
(* bytes that Encoder.tla writes, polled by Peer::listen_incoming until    *)
(* they return None.  Which of the two decoders it is is chosen at the     *)
(* start.  One action is one poll_read of the transport and what poll_next *)
(* makes of the bytes; a read that finds none is Pending and keeps what    *)
(* was read so far.                                                        *)
(***************************************************************************)
EXTENDS Encoder

CONSTANTS
  MaxSize,      \* Decoder::max_size
  Garbage,      \* lengths that bytes which are no length field may stand for
  Decoders      \* which decoders: "heap" is Decoder, "noheap" DecoderNoHeap

ASSUME CodecAssumption ==
  /\ MaxSize \in Nat
  /\ Garbage \subseteq Nat
  /\ Decoders \subseteq {"heap", "noheap"}

VARIABLES
  kind,       \* the decoder
  at,         \* what it reads, or how it stopped
  got,        \* bytes of the current item read so far
  goal,       \* size of the buffer they are read into
  received    \* what it has returned: frames and errors

codecVars == <<encoderVars, kind, at, got, goal, received>>

CodecInit ==
  /\ EncoderInit
  /\ kind \in Decoders
  /\ at       = "length"
  /\ got      = <<>>
  /\ goal     = LenLen
  /\ received = <<>>

Frame(data)  == [ok |-> TRUE, data |-> View(data)]
Failure(err) == [ok |-> FALSE, err |-> err]

Return(item) == received' = Append(received, item)

(* Start over with the length field of the next message.                   *)
NextItem == at' = "length" /\ got' = <<>> /\ goal' = LenLen

-----------------------------------------------------------------------------
(* One read_exact or poll_read: some of the bytes that are there, never    *)
(* more than the buffer has room for.                                      *)
Wanted    == goal - Len(got)
ReadSizes == 1..(IF Wanted <= Len(stream) THEN Wanted ELSE Len(stream))

Take(n) == stream' = SubSeq(stream, n + 1, Len(stream))

ReadInto(n) == got \o SubSeq(stream, 1, n)

(* The buffer is not full yet.                                             *)
ReadPart ==
  /\ at \in {"length", "message"}
  /\ \E n \in ReadSizes :
       /\ n < Wanted
       /\ Take(n)
       /\ got' = ReadInto(n)
  /\ UNCHANGED <<sent, buffer, line, kind, at, goal, received>>

(* What the bytes of a length field stand for.                             *)
Lengths(data) ==
  LET whole == {m \in Msgs : data = SubSeq(Bytes(m), 1, LenLen)}
  IN  IF whole = {} THEN Garbage ELSE {LenField(m) : m \in whole}

TooLong(len) == len > MaxSize

(* MessageSizeExceeded: Decoder keeps nothing to read from, DecoderNoHeap  *)
(* starts over at whatever comes next.                                     *)
RefuseAndGoOn == Return(Failure("MessageSizeExceeded")) /\ NextItem

Refuse ==
  /\ Return(Failure("MessageSizeExceeded"))
  /\ IF kind = "heap"
     THEN at' = "lost" /\ UNCHANGED <<got, goal>>
     ELSE NextItem

(* The length is complete.  A length below that of a header trips the      *)
(* assertion of DecoderNoHeap, and in Decoder that of debug builds.        *)
ReadLength ==
  /\ at = "length"
  /\ Wanted <= Len(stream)
  /\ Take(Wanted)
  /\ \E len \in Lengths(ReadInto(Wanted)) :
       \/ TooLong(len) /\ Refuse
       \/ /\ ~TooLong(len) /\ len >= LenHeader
          /\ at'   = "message"
          /\ got'  = ReadInto(Wanted)
          /\ goal' = len
          /\ UNCHANGED received
       \/ /\ ~TooLong(len) /\ len < LenHeader
          /\ at' = "panicked"
          /\ UNCHANGED <<got, goal, received>>
  /\ UNCHANGED <<sent, buffer, line, kind>>

(* A whole message.  One without payload is complete with its header.      *)
ReadMessage ==
  /\ at = "message"
  /\ Wanted \in ReadSizes
  /\ Take(Wanted)
  /\ Return(Frame(ReadInto(Wanted)))
  /\ NextItem
  /\ UNCHANGED <<sent, buffer, line, kind>>

ReadOnForEver ==
  /\ at \in {"length", "message"}
  /\ stream = <<>> /\ line = "ended"
  /\ at' = "spinning"
  /\ UNCHANGED <<encoderVars, kind, got, goal, received>>

EarlyEnd ==
  /\ at \in {"length", "message"}
  /\ line = "ended"
  /\ at' = IF kind = "heap" THEN "done" ELSE "spinning"
  /\ UNCHANGED <<encoderVars, kind, got, goal, received>>

(* The transport has ended.  For Decoder a message cut short is the end of *)
(* the stream like any other; DecoderNoHeap takes a read of no bytes for   *)
(* progress and reads again without ever returning.                        *)
ReadEnd ==
  /\ at \in {"length", "message"}
  /\ stream = <<>> /\ line = "ended"
  /\ at' = IF kind = "heap" THEN "done" ELSE "spinning"
  /\ UNCHANGED <<encoderVars, kind, got, goal, received>>

(* A read fails; bytes that were not read are lost.  DecoderNoHeap expects *)
(* no failure within a message.                                            *)
ReadFails ==
  /\ at \in {"length", "message"}
  /\ line = "broken"
  /\ IF kind = "noheap" /\ at = "message"
     THEN at' = "panicked" /\ UNCHANGED received
     ELSE at' = "closed" /\ Return(Failure("Io"))
  /\ UNCHANGED <<encoderVars, kind, got, goal>>

(* poll_next of a closed decoder.                                          *)
ReturnNone ==
  /\ at = "closed"
  /\ at' = "done"
  /\ UNCHANGED <<encoderVars, kind, got, goal, received>>

(* poll_next of a Decoder that gave its transport away.                    *)
PollLost ==
  /\ at = "lost"
  /\ at' = "panicked"
  /\ UNCHANGED <<encoderVars, kind, got, goal, received>>

Read == ReadPart \/ ReadLength \/ ReadMessage \/ ReadEnd \/ ReadFails \/ ReturnNone \/ PollLost

CodecNext ==
  \/ EncoderStep /\ UNCHANGED <<kind, at, got, goal, received>>
  \/ Read

CodecSpec == CodecInit /\ [][CodecNext]_codecVars

(* The peer awaits its write, and listen_incoming polls the decoder, as    *)
(* long as the executor runs them.                                         *)
FairCodec ==
  /\ CodecSpec
  /\ WF_codecVars((Write \/ WriteFails) /\ UNCHANGED <<kind, at, got, goal, received>>)
  /\ WF_codecVars(Read)

-----------------------------------------------------------------------------
Errs == {i \in DOMAIN received : ~received[i].ok}

Byte   == Msgs \X Nat
Fields == [sid : Seq(Byte), cid : Seq(Byte), msg : Seq(Byte)]
Item   == [ok : {TRUE}, data : Fields]
          \cup [ok : {FALSE}, err : {"MessageSizeExceeded", "Io"}]

(* Shape of the state; a decoder that reads waits for one more byte.       *)
TypeOK ==
  /\ sent \in Seq(Msgs)
  /\ buffer \in {NoBuffer} \cup [at : {"some"}, msg : Msgs, pos : Nat]
  /\ buffer # NoBuffer => buffer.pos < LenField(buffer.msg)
  /\ stream \in Seq(Byte)
  /\ line \in {"up", "broken", "ended"}
  /\ kind \in Decoders
  /\ at \in {"length", "message", "lost", "closed", "done", "spinning", "panicked"}
  /\ got \in Seq(Byte) /\ goal \in Nat
  /\ at = "length" => goal = LenLen
  /\ at = "message" => goal >= LenHeader
  /\ at \in {"length", "message"} => Len(got) < goal
  /\ received \in Seq(Item)

(* The frames returned before anything went wrong.                         *)
Faultless == IF Errs = {} THEN received
             ELSE SubSeq(received, 1, (CHOOSE i \in Errs : \A j \in Errs : i <= j) - 1)

(* encoder.rs, decoder.rs, decoder_noheap.rs: however writes and reads cut *)
(* the bytes up, and whenever the connection breaks or ends, the frames    *)
(* read before the first error are the first ones that were sent, whole,   *)
(* once and in order: FrameChannel.                                        *)
Channel == INSTANCE FrameChannel
             WITH Messages  <- {Frame(Bytes(m)) : m \in Msgs},
                  accepted  <- [i \in DOMAIN sent |-> Frame(Bytes(sent[i]))],
                  delivered <- Faultless,
                  over      <- Errs # {} \/ at \notin {"length", "message"}
ImplementsChannel == Channel!ChannelSpec

(* decoder.rs:86-93, 121-128: when Decoder reports the end of the stream   *)
(* without an error, every message that was written to its last byte has   *)
(* been returned.                                                          *)
EndMeansAll ==
  kind = "heap" /\ at = "done" /\ Errs = {} =>
    Len(received) = Len(sent) - (IF buffer = NoBuffer THEN 0 ELSE 1)

(* peer.rs:506-526, request_error.rs:68-72: the connection stays open      *)
(* after an error of the codec and is read on, and Decoder makes no frame  *)
(* out of a stream that has lost step.                                     *)
NothingAfterError ==
  kind = "heap" => \A i \in Errs : i = Len(received)

(* decoder.rs, decoder_noheap.rs: a message that fits is read even if the  *)
(* connection buffers less than one message, unless the connection fails,  *)
(* ends or carried a message that does not fit.                            *)
FramesArrive ==
  \A k \in 1..MaxSends :
    Len(sent) >= k ~> Len(received) >= k \/ line # "up" \/ Errs # {} \/ at = "panicked"

(* decoder.rs:93, 128, peer.rs:525-529: when the connection is over the    *)
(* listener is told, by None or by an error first, so that it can close    *)
(* the peer.  DecoderNoHeap does not do that.                              *)
EndIsNoticed ==
  kind = "heap" /\ line # "up" ~> at \in {"done", "panicked"}
=============================================================================
