---------------------------- MODULE CodecProofs -----------------------------
(***************************************************************************)
(* Theorems about Codec.tla, for any messages, any sizes of the fields of  *)
(* a message, any capacity of the connection and any limit, however writes *)
(* and reads cut the bytes up and whenever the connection breaks or ends.  *)
(***************************************************************************)
EXTENDS Codec, SequenceTheorems, TLAPS

-----------------------------------------------------------------------------
(* poll_read, poll_write: a part of a sequence, and a sequence behind      *)
(* another one, element by element.                                        *)
LEMMA Part ==
  ASSUME NEW S, NEW q \in Seq(S), NEW m \in 0..Len(q), NEW n \in m..Len(q)
  PROVE  /\ SubSeq(q, m + 1, n) \in Seq(S)
         /\ Len(SubSeq(q, m + 1, n)) = n - m
         /\ \A i \in 1..(n - m) : SubSeq(q, m + 1, n)[i] = q[m + i]
<1>1. /\ m + 1 \in 1..Len(q) + 1 /\ n \in (m + 1) - 1 .. Len(q)
      /\ n - (m + 1) + 1 = n - m
      /\ \A i \in 1..(n - m) : (m + 1) + i - 1 = m + i
  OBVIOUS
<1> QED
  BY <1>1, SubSeqProperties

(* Sequences: what is one after the other.                                 *)
LEMMA Joined ==
  ASSUME NEW S, NEW p \in Seq(S), NEW q \in Seq(S)
  PROVE  /\ p \o q \in Seq(S)
         /\ Len(p \o q) = Len(p) + Len(q)
         /\ \A i \in 1..Len(p) : (p \o q)[i] = p[i]
         /\ \A i \in 1..Len(q) : (p \o q)[Len(p) + i] = q[i]
<1>1. \A i \in 1..Len(q) :
        /\ Len(p) + i \in 1..(Len(p) + Len(q)) /\ ~(Len(p) + i <= Len(p))
        /\ Len(p) + i - Len(p) = i
  OBVIOUS
<1>2. \A i \in 1..Len(p) : i \in 1..(Len(p) + Len(q)) /\ i <= Len(p)
  OBVIOUS
<1> QED
  BY <1>1, <1>2, ConcatProperties

(* Sequences: what is added at the end.                                    *)
LEMMA Appended ==
  ASSUME NEW S, NEW q \in Seq(S), NEW e \in S
  PROVE  /\ Append(q, e) \in Seq(S)
         /\ Len(Append(q, e)) = Len(q) + 1
         /\ DOMAIN q = 1..Len(q) /\ DOMAIN Append(q, e) = DOMAIN q \cup {Len(q) + 1}
         /\ \A i \in DOMAIN q : Append(q, e)[i] = q[i]
         /\ Append(q, e)[Len(q) + 1] = e
OBVIOUS

(* thes_wf.rs: a message has at least its header, and the header more than *)
(* the length field.                                                       *)
LEMMA Sizes ==
  /\ LenLen \in Nat \ {0} /\ LenHeader \in Nat /\ LenLen < LenHeader
  /\ \A m \in Msgs : LenField(m) \in Nat /\ LenField(m) >= LenHeader
BY EncoderAssumption DEF EncoderAssumption, LenField, LenHeader, IdxMsg, IdxCid, IdxSid

(* thes_wf.rs: the bytes of a message and the fields cut out of them.      *)
LEMMA BytesAreBytes ==
  ASSUME NEW m \in Msgs
  PROVE  /\ Bytes(m) \in Seq(Byte) /\ Len(Bytes(m)) = LenField(m)
         /\ \A i \in 1..LenField(m) : Bytes(m)[i] = <<m, i>>
<1>1. LenField(m) \in Nat
  BY Sizes
<1>2. \A i \in 1..LenField(m) : <<m, i>> \in Byte
  BY <1>1 DEF Byte
<1> QED
  BY <1>1, <1>2 DEF Bytes

(* codec.rs: a decoded frame is an item of the stream.                     *)
LEMMA FramesAreItems ==
  ASSUME NEW data \in Seq(Byte), Len(data) >= LenHeader
  PROVE  Frame(data) \in Item /\ Frame(data).ok = TRUE
<1>1. /\ IdxSid \in Nat /\ IdxCid \in Nat /\ IdxMsg \in Nat /\ LenSid \in Nat /\ LenCid \in Nat
      /\ IdxSid + LenSid <= LenHeader /\ IdxCid + LenCid <= LenHeader /\ IdxMsg = LenHeader
  BY EncoderAssumption DEF EncoderAssumption, LenHeader, IdxMsg, IdxCid, IdxSid
<1>2. Len(data) \in Nat
  OBVIOUS
<1>3. ASSUME NEW f \in Nat, NEW l \in Nat, f + l <= Len(data)
      PROVE  Field(data, f, l) \in Seq(Byte)
  <2>1. f \in 0..Len(data) /\ f + l \in f..Len(data)
    BY <1>2, <1>3
  <2> QED
    BY <2>1, Part DEF Field
<1>4. Field(data, IdxSid, LenSid) \in Seq(Byte) /\ Field(data, IdxCid, LenCid) \in Seq(Byte)
  BY <1>1, <1>2, <1>3
<1>5. Field(data, IdxMsg, Len(data) - IdxMsg) \in Seq(Byte)
  <2>1. Len(data) - IdxMsg \in Nat /\ IdxMsg + (Len(data) - IdxMsg) <= Len(data)
    BY <1>1, <1>2
  <2> QED
    BY <1>1, <1>3, <2>1
<1> QED
  BY <1>4, <1>5 DEF Frame, View, Item, Fields

-----------------------------------------------------------------------------
(* The state at a transport error, and after it: Decoder reads nothing     *)
(* more, and either decoder has returned an error before it is closed or   *)
(* has lost its transport.                                                 *)
StoppedInv ==
  /\ at \in {"lost", "closed"} => Errs # {}
  /\ kind = "heap" /\ Errs # {} =>
       Errs = {Len(received)} /\ at \in {"lost", "closed", "done", "panicked"}

(* Where the bytes are: off[k] bytes were sent before message k, and w is  *)
(* the number of bytes that were written.                                  *)
Offsets(off) ==
  /\ off \in [1..(Len(sent) + 1) -> Nat]
  /\ off[1] = 0
  /\ \A k \in 1..Len(sent) : off[k + 1] = off[k] + LenField(sent[k])
  /\ \A j, k \in 1..(Len(sent) + 1) : j <= k => off[j] <= off[k]

(* The encoder writes the messages in the order they were sent, the last   *)
(* one from where its buffer stands.                                       *)
Written(off, w) ==
  /\ w \in Nat /\ Len(stream) <= w /\ w <= off[Len(sent) + 1]
  /\ buffer # NoBuffer => Len(sent) > 0 /\ buffer.msg = sent[Len(sent)]
  /\ line # "broken" =>
       w = IF buffer = NoBuffer THEN off[Len(sent) + 1] ELSE off[Len(sent)] + buffer.pos

(* Byte p that was written is byte p - off[k] of the message k it falls in.*)
Holds(off, k, p, byte) ==
  off[k] < p /\ p <= off[k + 1] => byte = <<sent[k], p - off[k]>>

OnTheWire(off, w) ==
  \A i \in 1..Len(stream) : \A k \in 1..Len(sent) :
    Holds(off, k, w - Len(stream) + i, stream[i])

(* A decoder that has returned no error has read the messages it returned  *)
(* and the first bytes of the next one.                                    *)
Current == Len(received) + 1

InStep(off, w) ==
  /\ Current <= Len(sent) + 1
  /\ off[Current] + Len(got) + Len(stream) = w
  /\ Len(got) > 0 => Current <= Len(sent)
  /\ \A i \in 1..Len(got) : got[i] = <<sent[Current], i>>
  /\ at = "message" => Current <= Len(sent) /\ goal = LenField(sent[Current])

Reading == Errs = {} /\ at \in {"length", "message"}

Tracks(off, w) ==
  /\ Offsets(off) /\ Written(off, w) /\ OnTheWire(off, w)
  /\ Reading => InStep(off, w)

Tracked == \E off, w : Tracks(off, w)

-----------------------------------------------------------------------------
(* Write: the bytes one poll_write adds.                                   *)
LEMMA PartOfMessage ==
  ASSUME NEW m \in Msgs, NEW pos \in Nat, NEW n \in 1..(LenField(m) - pos)
  PROVE  /\ SubSeq(Bytes(m), pos + 1, pos + n) \in Seq(Byte)
         /\ Len(SubSeq(Bytes(m), pos + 1, pos + n)) = n
         /\ \A i \in 1..n : SubSeq(Bytes(m), pos + 1, pos + n)[i] = <<m, pos + i>>
<1>1. /\ LenField(m) \in Nat
      /\ Bytes(m) \in Seq(Byte) /\ Len(Bytes(m)) = LenField(m)
      /\ \A i \in 1..LenField(m) : Bytes(m)[i] = <<m, i>>
  BY BytesAreBytes, Sizes
<1>2. /\ pos \in 0..Len(Bytes(m)) /\ pos + n \in pos..Len(Bytes(m)) /\ (pos + n) - pos = n
      /\ \A i \in 1..n : pos + i \in 1..LenField(m)
  BY <1>1
<1>3. /\ SubSeq(Bytes(m), pos + 1, pos + n) \in Seq(Byte)
      /\ Len(SubSeq(Bytes(m), pos + 1, pos + n)) = (pos + n) - pos
      /\ \A i \in 1..((pos + n) - pos) : SubSeq(Bytes(m), pos + 1, pos + n)[i] = Bytes(m)[pos + i]
  BY <1>1, <1>2, Part
<1> QED
  BY <1>1, <1>2, <1>3

(* codec.rs: what is in the stream after some bytes of a message.          *)
LEMMA BytesWritten ==
  ASSUME stream \in Seq(Byte), NEW m \in Msgs, NEW pos \in Nat,
         NEW n \in 1..(LenField(m) - pos),
         stream' = stream \o SubSeq(Bytes(m), pos + 1, pos + n)
  PROVE  /\ stream' \in Seq(Byte) /\ Len(stream') = Len(stream) + n
         /\ \A i \in 1..Len(stream) : stream'[i] = stream[i]
         /\ \A i \in 1..n : stream'[Len(stream) + i] = <<m, pos + i>>
<1> DEFINE new == SubSeq(Bytes(m), pos + 1, pos + n)
<1>1. new \in Seq(Byte) /\ Len(new) = n /\ \A i \in 1..n : new[i] = <<m, pos + i>>
  BY PartOfMessage
<1>2. stream' = stream \o new
  OBVIOUS
<1> HIDE DEF new
<1>3. /\ stream \o new \in Seq(Byte) /\ Len(stream \o new) = Len(stream) + Len(new)
      /\ \A i \in 1..Len(stream) : (stream \o new)[i] = stream[i]
      /\ \A i \in 1..Len(new) : (stream \o new)[Len(stream) + i] = new[i]
  BY <1>1, Joined
<1> QED
  BY <1>1, <1>2, <1>3

(* Take, ReadInto: the bytes one poll_read moves.                          *)
LEMMA BytesRead ==
  ASSUME TypeOK, NEW n \in 1..Len(stream)
  PROVE  /\ ReadInto(n) \in Seq(Byte) /\ Len(ReadInto(n)) = Len(got) + n
         /\ \A i \in 1..Len(got) : ReadInto(n)[i] = got[i]
         /\ \A i \in 1..n : ReadInto(n)[Len(got) + i] = stream[i]
         /\ LET left == SubSeq(stream, n + 1, Len(stream))
            IN  /\ left \in Seq(Byte) /\ Len(left) = Len(stream) - n
                /\ \A i \in 1..(Len(stream) - n) : left[i] = stream[n + i]
<1>1. stream \in Seq(Byte) /\ got \in Seq(Byte) /\ Len(stream) \in Nat
  BY DEF TypeOK
<1>2. /\ 0 \in 0..Len(stream) /\ n \in 0..Len(stream) /\ n - 0 = n
      /\ Len(stream) \in n..Len(stream)
      /\ \A i \in 1..n : 0 + i = i
  BY <1>1
<1>3. /\ SubSeq(stream, 0 + 1, n) \in Seq(Byte) /\ Len(SubSeq(stream, 0 + 1, n)) = n
      /\ \A i \in 1..n : SubSeq(stream, 0 + 1, n)[i] = stream[i]
  BY <1>1, <1>2, Part
<1>4. SubSeq(stream, 0 + 1, n) = SubSeq(stream, 1, n)
  OBVIOUS
<1>5. /\ SubSeq(stream, n + 1, Len(stream)) \in Seq(Byte)
      /\ Len(SubSeq(stream, n + 1, Len(stream))) = Len(stream) - n
      /\ \A i \in 1..(Len(stream) - n) : SubSeq(stream, n + 1, Len(stream))[i] = stream[n + i]
  BY <1>1, <1>2, Part
<1> QED
  BY <1>1, <1>3, <1>4, <1>5, Joined DEF ReadInto

(* A decoder that reads wants at least one byte more.                      *)
LEMMA MoreWanted ==
  ASSUME TypeOK, at \in {"length", "message"}
  PROVE  /\ Wanted \in Nat \ {0} /\ Len(got) + Wanted = goal /\ Len(stream) \in Nat
         /\ ReadSizes \subseteq 1..Len(stream)
         /\ Wanted <= Len(stream) => Wanted \in 1..Len(stream)
BY DEF TypeOK, Wanted, ReadSizes

(* What a decoder returns.                                                 *)
LEMMA Returned ==
  ASSUME received \in Seq(Item), NEW item \in Item, Return(item)
  PROVE  /\ received' \in Seq(Item)
         /\ Len(received') = Len(received) + 1 /\ Len(received) \in Nat
         /\ Errs' = IF item.ok THEN Errs ELSE Errs \cup {Len(received) + 1}
<1>1. /\ received' \in Seq(Item) /\ Len(received') = Len(received) + 1 /\ Len(received) \in Nat
      /\ DOMAIN received' = DOMAIN received \cup {Len(received) + 1}
      /\ \A i \in DOMAIN received : received'[i] = received[i]
      /\ received'[Len(received) + 1] = item
  BY Appended DEF Return
<1>2. Len(received) + 1 \notin DOMAIN received
  OBVIOUS
<1> QED
  BY <1>1, <1>2 DEF Errs

-----------------------------------------------------------------------------
(* The shape of the state.                                                 *)
LEMMA EncoderTypeStep ==
  ASSUME TypeOK, EncoderStep, UNCHANGED <<kind, at, got, goal, received>>
  PROVE  TypeOK'
<1>1. ASSUME NEW m \in Msgs, StartSend(m) PROVE TypeOK'
  <2>1. sent' \in Seq(Msgs) /\ buffer' = [at |-> "some", msg |-> m, pos |-> 0]
    BY <1>1 DEF StartSend, TypeOK, Holding
  <2>2. LenField(m) \in Nat /\ 0 < LenField(m)
    BY Sizes
  <2> QED
    BY <1>1, <2>1, <2>2 DEF StartSend, TypeOK
<1>2. CASE Write
  <2>1. PICK n \in WriteSizes(LenField(buffer.msg) - buffer.pos) :
          /\ stream' = stream \o SubSeq(Bytes(buffer.msg), buffer.pos + 1, buffer.pos + n)
          /\ buffer' = After(buffer.msg, buffer.pos + n)
    BY <1>2 DEF Write
  <2>2. /\ buffer # NoBuffer /\ buffer.msg \in Msgs /\ buffer.pos \in Nat
        /\ LenField(buffer.msg) \in Nat
    BY <1>2, Sizes DEF Write, TypeOK
  <2>3. stream' \in Seq(Byte)
    BY <2>1, <2>2, BytesWritten DEF WriteSizes, TypeOK
  <2>4. buffer' = IF buffer.pos + n = LenField(buffer.msg) THEN NoBuffer
                  ELSE [at |-> "some", msg |-> buffer.msg, pos |-> buffer.pos + n]
    BY <2>1 DEF After, Holding
  <2>5. n \in Nat /\ buffer.pos + n <= LenField(buffer.msg)
    BY <2>1, <2>2 DEF WriteSizes
  <2>6. /\ buffer' \in {NoBuffer} \cup [at : {"some"}, msg : Msgs, pos : Nat]
        /\ buffer' # NoBuffer => buffer'.pos < LenField(buffer'.msg)
    BY <2>2, <2>4, <2>5
  <2> QED
    BY <1>2, <2>3, <2>6 DEF Write, TypeOK
<1>3. CASE WriteFails \/ Break \/ HangUp
  BY <1>3 DEF WriteFails, Break, HangUp, TypeOK
<1> QED
  BY <1>1, <1>2, <1>3 DEF EncoderStep

(* codec.rs: reading keeps the types.                                      *)
LEMMA ReadTypeStep ==
  ASSUME TypeOK, Read
  PROVE  TypeOK'
<1>1. LenLen \in Nat /\ 0 < LenLen /\ LenHeader \in Nat /\ LenLen < LenHeader
  BY Sizes
<1>2. CASE ReadPart
  <2>1. PICK n \in ReadSizes : n < Wanted /\ Take(n) /\ got' = ReadInto(n)
    BY <1>2 DEF ReadPart
  <2>2. /\ n \in 1..Len(stream) /\ Wanted \in Nat \ {0} /\ Len(got) + Wanted = goal
        /\ Len(got) \in Nat
    BY <1>2, <2>1, MoreWanted DEF ReadPart, TypeOK
  <2>3. /\ stream' \in Seq(Byte) /\ got' \in Seq(Byte) /\ Len(got') < goal
    BY <2>1, <2>2, BytesRead DEF Take
  <2> QED
    BY <1>2, <2>3 DEF ReadPart, TypeOK
<1>3. CASE ReadLength
  <2>1. Wanted \in 1..Len(stream) /\ Len(got) + Wanted = goal
    BY <1>3, MoreWanted DEF ReadLength
  <2>2. /\ stream' \in Seq(Byte) /\ ReadInto(Wanted) \in Seq(Byte)
        /\ Len(ReadInto(Wanted)) = LenLen
    BY <1>3, <2>1, BytesRead DEF ReadLength, Take, TypeOK
  <2>3. Failure("MessageSizeExceeded") \in Item
    BY DEF Failure, Item
  <2>4. PICK len \in Lengths(ReadInto(Wanted)) :
          \/ TooLong(len) /\ Refuse
          \/ /\ ~TooLong(len) /\ len >= LenHeader
             /\ at' = "message" /\ got' = ReadInto(Wanted) /\ goal' = len
             /\ UNCHANGED received
          \/ /\ ~TooLong(len) /\ len < LenHeader
             /\ at' = "panicked"
             /\ UNCHANGED <<got, goal, received>>
    BY <1>3 DEF ReadLength
  <2>5. len \in Nat
    BY CodecAssumption, Sizes DEF CodecAssumption, Lengths
  <2>6. /\ received' \in Seq(Item) /\ got' \in Seq(Byte) /\ goal' \in Nat
        /\ at' \in {"length", "message", "lost", "panicked"}
        /\ at' = "length" => goal' = LenLen /\ got' = <<>>
        /\ at' = "message" => goal' >= LenHeader /\ Len(got') = LenLen
    <3>1. CASE TooLong(len) /\ Refuse
      <4>1. received' \in Seq(Item)
        BY <2>3, <3>1, Returned DEF Refuse, TypeOK
      <4>2. CASE at' = "lost" /\ UNCHANGED <<got, goal>>
        BY <4>1, <4>2 DEF TypeOK
      <4>3. CASE NextItem
        BY <1>1, <4>1, <4>3 DEF NextItem
      <4> QED
        BY <3>1, <4>2, <4>3 DEF Refuse
    <3>2. CASE /\ ~TooLong(len) /\ len >= LenHeader
               /\ at' = "message" /\ got' = ReadInto(Wanted) /\ goal' = len
               /\ UNCHANGED received
      BY <2>2, <2>5, <3>2 DEF TypeOK
    <3>3. CASE at' = "panicked" /\ UNCHANGED <<got, goal, received>>
      BY <3>3 DEF TypeOK
    <3> QED BY <2>4, <3>1, <3>2, <3>3
  <2> QED
    BY <1>1, <1>3, <2>2, <2>6 DEF ReadLength, TypeOK
<1>4. CASE ReadMessage
  <2>1. Wanted \in 1..Len(stream) /\ Len(got) + Wanted = goal
    BY <1>4, MoreWanted DEF ReadMessage
  <2>2. /\ stream' \in Seq(Byte) /\ ReadInto(Wanted) \in Seq(Byte)
        /\ Len(ReadInto(Wanted)) >= LenHeader
    BY <1>4, <2>1, BytesRead DEF ReadMessage, Take, TypeOK
  <2>3. received' \in Seq(Item)
    BY <1>4, <2>2, FramesAreItems, Returned DEF ReadMessage, TypeOK
  <2> QED
    BY <1>1, <1>4, <2>2, <2>3 DEF ReadMessage, NextItem, TypeOK
<1>5. CASE ReadFails
  <2>1. Failure("Io") \in Item
    BY DEF Failure, Item
  <2>2. received' \in Seq(Item)
    BY <1>5, <2>1, Returned DEF ReadFails, TypeOK
  <2> QED
    BY <1>5, <2>2 DEF ReadFails, TypeOK, encoderVars
<1>6. CASE ReadEnd \/ ReturnNone \/ PollLost
  BY <1>6 DEF ReadEnd, ReturnNone, PollLost, TypeOK, encoderVars
<1> QED
  BY <1>2, <1>3, <1>4, <1>5, <1>6 DEF Read

(* decoder.rs, encoder.rs: for any messages, sizes and limits the two ends *)
(* keep their shape; no read is ever asked to fill a full buffer.          *)
THEOREM CodecTypeCorrect == CodecSpec => []TypeOK
<1>1. CodecInit => TypeOK
  BY Sizes DEF CodecInit, EncoderInit, TypeOK
<1>2. TypeOK /\ [CodecNext]_codecVars => TypeOK'
  <2>1. TypeOK /\ UNCHANGED codecVars => TypeOK'
    BY DEF codecVars, encoderVars, TypeOK
  <2> QED
    BY <2>1, EncoderTypeStep, ReadTypeStep DEF CodecNext
<1> QED
  BY <1>1, <1>2, PTL DEF CodecSpec

-----------------------------------------------------------------------------
(* After an error.                                                         *)
LEMMA ReturnedFailure ==
  ASSUME TypeOK, NEW err \in {"MessageSizeExceeded", "Io"}, Return(Failure(err))
  PROVE  Errs' = Errs \cup {Len(received) + 1} /\ Len(received') = Len(received) + 1
<1>1. Failure(err) \in Item /\ Failure(err).ok = FALSE
  BY DEF Failure, Item
<1> QED
  BY <1>1, Returned DEF TypeOK

(* codec.rs: reading a message returns one frame, no error.                *)
LEMMA ReturnedFrame ==
  ASSUME TypeOK, ReadMessage
  PROVE  /\ Errs' = Errs /\ Len(received') = Len(received) + 1
         /\ Wanted \in 1..Len(stream) /\ Len(ReadInto(Wanted)) = goal
<1>1. Wanted \in 1..Len(stream) /\ Len(got) + Wanted = goal
  BY MoreWanted DEF ReadMessage
<1>2. /\ ReadInto(Wanted) \in Seq(Byte) /\ Len(ReadInto(Wanted)) = goal
      /\ goal >= LenHeader
  BY <1>1, BytesRead DEF ReadMessage, TypeOK
<1>3. Frame(ReadInto(Wanted)) \in Item /\ Frame(ReadInto(Wanted)).ok = TRUE
  BY <1>2, FramesAreItems
<1> QED
  BY <1>1, <1>2, <1>3, Returned DEF ReadMessage, TypeOK

(* codec.rs: every step keeps StoppedInv.                                  *)
LEMMA StoppedStep ==
  ASSUME TypeOK, StoppedInv, [CodecNext]_codecVars
  PROVE  StoppedInv'
<1>1. CASE UNCHANGED <<kind, at, received>>
  BY <1>1 DEF StoppedInv, Errs
<1>2. CASE ReadLength
  <2>1. kind' = kind /\ (kind = "heap" => Errs = {})
    BY <1>2 DEF ReadLength, StoppedInv
  <2>2. CASE Refuse
    <3>1. Errs' = Errs \cup {Len(received) + 1} /\ Len(received') = Len(received) + 1
      BY <2>2, ReturnedFailure DEF Refuse
    <3>2. kind = "heap" => at' = "lost"
      BY <2>2 DEF Refuse
    <3> QED
      BY <2>1, <3>1, <3>2 DEF StoppedInv
  <2>3. CASE at' \in {"message", "panicked"} /\ UNCHANGED received
    BY <2>1, <2>3 DEF StoppedInv, Errs
  <2> QED
    BY <1>2, <2>2, <2>3 DEF ReadLength
<1>3. CASE ReadMessage
  <2>1. Errs' = Errs /\ kind' = kind /\ at' = "length"
    BY <1>3, ReturnedFrame DEF ReadMessage, NextItem
  <2>2. kind = "heap" => Errs = {}
    BY <1>3 DEF ReadMessage, StoppedInv
  <2> QED
    BY <2>1, <2>2 DEF StoppedInv
<1>4. CASE ReadFails
  <2>1. kind' = kind /\ (kind = "heap" => Errs = {})
    BY <1>4 DEF ReadFails, StoppedInv
  <2>2. CASE at' = "panicked" /\ UNCHANGED received
    BY <2>1, <2>2 DEF StoppedInv, Errs
  <2>3. CASE at' = "closed" /\ Return(Failure("Io"))
    <3>1. Errs' = Errs \cup {Len(received) + 1} /\ Len(received') = Len(received) + 1
      BY <2>3, ReturnedFailure
    <3> QED
      BY <2>1, <2>3, <3>1 DEF StoppedInv
  <2> QED
    BY <1>4, <2>2, <2>3 DEF ReadFails
<1>5. CASE ReadEnd
  <2>1. kind = "heap" => Errs = {}
    BY <1>5 DEF ReadEnd, StoppedInv
  <2>2. UNCHANGED <<kind, received>> /\ at' \in {"done", "spinning"}
    BY <1>5 DEF ReadEnd
  <2> QED
    BY <2>1, <2>2 DEF StoppedInv, Errs
<1>6. CASE ReturnNone \/ PollLost
  <2>1. UNCHANGED <<kind, received>> /\ at' \in {"done", "panicked"}
    BY <1>6 DEF ReturnNone, PollLost
  <2> QED
    BY <2>1 DEF StoppedInv, Errs
<1> QED
  BY <1>1, <1>2, <1>3, <1>4, <1>5, <1>6 DEF CodecNext, codecVars, Read, ReadPart

(* decoder.rs:79-156: once Decoder has returned an error it returns no     *)
(* frame, however the bytes that follow it arrive.                         *)
THEOREM SilentAfterError == CodecSpec => []NothingAfterError
<1>1. CodecInit => StoppedInv
  BY DEF CodecInit, StoppedInv, Errs
<1>2. TypeOK /\ StoppedInv /\ [CodecNext]_codecVars => StoppedInv'
  BY StoppedStep
<1>3. StoppedInv => NothingAfterError
  BY DEF StoppedInv, NothingAfterError
<1> QED
  BY <1>1, <1>2, <1>3, CodecTypeCorrect, PTL DEF CodecSpec

-----------------------------------------------------------------------------
(* Where the bytes are, when the encoder moves.                            *)
LEMMA OffsetsFacts ==
  ASSUME TypeOK, NEW off, Offsets(off)
  PROVE  /\ Len(sent) \in Nat /\ Len(sent) + 1 \in 1..(Len(sent) + 1)
         /\ \A k \in 1..(Len(sent) + 1) : off[k] \in Nat
         /\ \A k \in 1..Len(sent) :
              /\ k \in 1..(Len(sent) + 1) /\ k + 1 \in 1..(Len(sent) + 1)
              /\ sent[k] \in Msgs /\ LenField(sent[k]) \in Nat
              /\ LenField(sent[k]) >= LenHeader
              /\ off[k + 1] = off[k] + LenField(sent[k])
         /\ \A j, k \in 1..(Len(sent) + 1) : j <= k => off[j] <= off[k]
<1>1. Len(sent) \in Nat /\ \A k \in 1..Len(sent) : sent[k] \in Msgs
  BY DEF TypeOK
<1> QED
  BY <1>1, Sizes DEF Offsets

(* codec.rs: a message that is to be sent is the next one.                 *)
LEMMA SendTracks ==
  ASSUME TypeOK, NEW off, NEW w, Tracks(off, w), NEW m \in Msgs, StartSend(m),
         UNCHANGED <<kind, at, got, goal, received>>
  PROVE  Tracked'
<1> DEFINE n == Len(sent)
<1>1. Offsets(off)
  BY DEF Tracks
<1>2. /\ n \in Nat /\ n + 1 \in 1..(n + 1)
      /\ \A k \in 1..(n + 1) : off[k] \in Nat
      /\ \A k \in 1..n : off[k + 1] = off[k] + LenField(sent[k])
      /\ \A j, k \in 1..(n + 1) : j <= k => off[j] <= off[k]
      /\ off[1] = 0
  BY <1>1, OffsetsFacts DEF Offsets
<1>3. LenField(m) \in Nat /\ LenField(m) > 0
  BY Sizes
<1>4. /\ Len(sent') = n + 1 /\ sent'[n + 1] = m
      /\ \A k \in 1..n : sent'[k] = sent[k]
      /\ buffer' = [at |-> "some", msg |-> m, pos |-> 0] /\ UNCHANGED <<stream, line>>
      /\ buffer = NoBuffer
  BY Appended DEF StartSend, TypeOK, Holding
<1>5. PICK next : /\ next \in [1..(n + 2) -> Nat]
                  /\ \A k \in 1..(n + 1) : next[k] = off[k] /\ k \in 1..(n + 2)
                  /\ next[n + 2] = off[n + 1] + LenField(m)
  <2> DEFINE more == [k \in 1..(n + 2) |->
                        IF k <= n + 1 THEN off[k] ELSE off[n + 1] + LenField(m)]
  <2>1. /\ more \in [1..(n + 2) -> Nat]
        /\ \A k \in 1..(n + 1) : more[k] = off[k] /\ k \in 1..(n + 2)
        /\ more[n + 2] = off[n + 1] + LenField(m)
    BY <1>2, <1>3
  <2> QED BY <2>1
<1>6. Offsets(next)'
  <2>1. /\ next \in [1..(Len(sent') + 1) -> Nat] /\ next[1] = 0
    BY <1>2, <1>4, <1>5
  <2>2. ASSUME NEW k \in 1..(n + 1) PROVE next[k + 1] = next[k] + LenField(sent'[k])
    <3>1. CASE k = n + 1
      BY <1>2, <1>4, <1>5, <3>1
    <3>2. CASE k # n + 1
      <4>1. k \in 1..n /\ k + 1 \in 1..(n + 1)
        BY <1>2, <3>2
      <4> QED
        BY <1>2, <1>4, <1>5, <4>1
    <3> QED BY <3>1, <3>2
  <2>3. ASSUME NEW j \in 1..(n + 2), NEW k \in 1..(n + 2), j <= k
        PROVE  next[j] <= next[k]
    <3>1. CASE k <= n + 1
      BY <1>2, <1>5, <2>3, <3>1
    <3>2. CASE j <= n + 1 /\ k = n + 2
      BY <1>2, <1>3, <1>5, <3>2
    <3>3. CASE j = n + 2 /\ k = n + 2
      BY <1>2, <1>3, <1>5, <3>3
    <3> QED BY <1>2, <2>3, <3>1, <3>2, <3>3
  <2>4. Len(sent') = n + 1 /\ (n + 1) + 1 = n + 2
    BY <1>2, <1>4
  <2> QED
    BY <2>1, <2>2, <2>3, <2>4 DEF Offsets
<1>7. Written(next, w)'
  <2>1. /\ w \in Nat /\ Len(stream) <= w /\ w <= off[n + 1]
        /\ line # "broken" => w = off[n + 1]
    BY <1>4 DEF Tracks, Written
  <2>2. next[n + 2] = off[n + 1] + LenField(m) /\ next[n + 1] = off[n + 1] /\ off[n + 1] \in Nat
    BY <1>2, <1>5
  <2>3. Len(sent') = n + 1 /\ (n + 1) + 1 = n + 2 /\ n + 1 > 0
    BY <1>2, <1>4
  <2>4. buffer' # NoBuffer /\ buffer'.msg = sent'[n + 1] /\ buffer'.pos = 0
    BY <1>4 DEF NoBuffer
  <2> QED
    BY <1>3, <1>4, <2>1, <2>2, <2>3, <2>4 DEF Written
<1>8. OnTheWire(next, w)'
  <2>1. ASSUME NEW i \in 1..Len(stream), NEW k \in 1..(n + 1)
        PROVE  next[k] < w - Len(stream) + i /\ w - Len(stream) + i <= next[k + 1]
                 => stream[i] = <<sent'[k], w - Len(stream) + i - next[k]>>
    <3>1. CASE k = n + 1
      <4>1. w \in Nat /\ Len(stream) \in Nat /\ w <= off[n + 1] /\ off[n + 1] \in Nat
        BY <1>2 DEF Tracks, Written, TypeOK
      <4>2. next[k] = off[n + 1]
        BY <1>2, <1>5, <3>1
      <4>3. ~(next[k] < w - Len(stream) + i)
        BY <4>1, <4>2
      <4> QED
        BY <4>3
    <3>2. CASE k # n + 1
      <4>1. k \in 1..n /\ k \in 1..(n + 1) /\ k + 1 \in 1..(n + 1)
        BY <1>2, <3>2
      <4>2. next[k] = off[k] /\ next[k + 1] = off[k + 1] /\ sent'[k] = sent[k]
        BY <1>4, <1>5, <4>1
      <4>3. Holds(off, k, w - Len(stream) + i, stream[i])
        BY <4>1 DEF Tracks, OnTheWire
      <4>4. /\ w \in Nat /\ Len(stream) \in Nat /\ i \in Nat
            /\ off[k] \in Nat /\ off[k + 1] \in Nat
        BY <1>2, <4>1 DEF Tracks, Written, TypeOK
      <4> QED
        BY <4>2, <4>3, <4>4 DEF Holds
    <3> QED BY <3>1, <3>2
  <2>2. stream' = stream /\ Len(sent') = n + 1
    BY <1>4
  <2>3. ASSUME NEW i \in 1..Len(stream), NEW k \in 1..(n + 1)
        PROVE  Holds(next, k, w - Len(stream) + i, stream[i])'
    <3>1. w \in Nat /\ Len(stream) \in Nat /\ i \in Nat
      BY DEF Tracks, Written, TypeOK
    <3>2. k \in 1..(n + 2) /\ k + 1 \in 1..(n + 2)
      BY <1>2
    <3>3. next[k] \in Nat /\ next[k + 1] \in Nat
      BY <1>5, <3>2
    <3>4. next[k] < w - Len(stream) + i /\ w - Len(stream) + i <= next[k + 1]
            => stream[i] = <<sent'[k], w - Len(stream) + i - next[k]>>
      BY <2>1
    <3>5. next[k] < w - Len(stream') + i /\ w - Len(stream') + i <= next[k + 1]
            => stream'[i] = <<sent'[k], w - Len(stream') + i - next[k]>>
      BY <3>4, <2>2
    <3> QED
      BY <2>2, <3>1, <3>3, <3>5 DEF Holds
  <2> QED
    BY <2>2, <2>3 DEF OnTheWire
<1>9. Reading' => InStep(next, w)'
  <2> SUFFICES ASSUME Reading PROVE InStep(next, w)'
    BY DEF Reading, Errs
  <2>1. /\ InStep(off, w) /\ Current \in Nat \ {0} /\ Current' = Current
        /\ Current \in 1..(n + 1)
    BY <1>2 DEF Tracks, InStep, Current, TypeOK
  <2>2. next[Current] = off[Current]
    BY <1>5, <2>1
  <2>3. Len(got) > 0 \/ at = "message" => Current \in 1..n /\ sent'[Current] = sent[Current]
    BY <1>2, <1>4, <2>1 DEF InStep
  <2>4. \A i \in 1..Len(got) : Len(got) > 0
    BY DEF TypeOK
  <2> QED
    BY <1>2, <1>4, <2>1, <2>2, <2>3, <2>4 DEF InStep
<1> QED
  BY <1>6, <1>7, <1>8, <1>9 DEF Tracks, Tracked

(* codec.rs: some of its bytes go into the stream.                         *)
LEMMA WriteTracks ==
  ASSUME TypeOK, NEW off, NEW w, Tracks(off, w), Write,
         UNCHANGED <<kind, at, got, goal, received>>
  PROVE  Tracked'
<1> DEFINE n == Len(sent)
<1>1. Offsets(off) /\ Offsets(off)'
  BY DEF Tracks, Write, Offsets
<1>2. /\ n \in Nat /\ n + 1 \in 1..(n + 1)
      /\ \A k \in 1..n : off[k] \in Nat /\ off[k + 1] \in Nat
      /\ \A j, k \in 1..(n + 1) : j <= k => off[j] <= off[k]
      /\ \A k \in 1..n : k \in 1..(n + 1) /\ k + 1 \in 1..(n + 1)
      /\ n > 0 => n \in 1..n /\ off[n + 1] = off[n] + LenField(sent[n])
  BY <1>1, OffsetsFacts
<1>3. /\ n > 0 /\ buffer.msg = sent[n] /\ buffer.msg \in Msgs
      /\ buffer.pos \in Nat /\ buffer.pos < LenField(buffer.msg)
      /\ LenField(buffer.msg) \in Nat
      /\ w = off[n] + buffer.pos /\ w \in Nat /\ Len(stream) <= w /\ Len(stream) \in Nat
  BY Sizes DEF Write, Tracks, Written, TypeOK
<1>4. PICK b \in 1..(LenField(buffer.msg) - buffer.pos) :
        /\ stream' = stream \o SubSeq(Bytes(buffer.msg), buffer.pos + 1, buffer.pos + b)
        /\ buffer' = After(buffer.msg, buffer.pos + b)
  BY DEF Write, WriteSizes
<1>5. /\ Len(stream') = Len(stream) + b
      /\ \A i \in 1..Len(stream) : stream'[i] = stream[i]
      /\ \A i \in 1..b : stream'[Len(stream) + i] = <<buffer.msg, buffer.pos + i>>
  <2>1. /\ stream \in Seq(Byte) /\ buffer.msg \in Msgs /\ buffer.pos \in Nat
        /\ stream' = stream \o SubSeq(Bytes(buffer.msg), buffer.pos + 1, buffer.pos + b)
    BY <1>3, <1>4 DEF TypeOK
  <2> QED
    BY <2>1, BytesWritten
<1>6. /\ b \in Nat /\ buffer.pos + b <= LenField(buffer.msg)
      /\ w + b = off[n] + (buffer.pos + b) /\ off[n] \in Nat
      /\ off[n + 1] = off[n] + LenField(buffer.msg)
  <2>1. off[n] \in Nat /\ off[n + 1] = off[n] + LenField(buffer.msg)
    BY <1>2, <1>3
  <2>2. b \in Nat /\ buffer.pos + b <= LenField(buffer.msg)
    BY <1>3
  <2>3. w = off[n] + buffer.pos /\ buffer.pos \in Nat
    BY <1>3
  <2>4. w + b = off[n] + (buffer.pos + b)
    BY <2>1, <2>2, <2>3
  <2> QED
    BY <2>1, <2>2, <2>4
<1>7. Written(off, w + b)'
  <2>1. w + b \in Nat /\ Len(stream) + b <= w + b /\ w + b <= off[n + 1]
    <3>1. /\ w \in Nat /\ Len(stream) <= w /\ Len(stream) \in Nat
          /\ buffer.pos \in Nat /\ LenField(buffer.msg) \in Nat
      BY <1>3
    <3> QED
      BY <1>6, <3>1
  <2>2. CASE buffer.pos + b = LenField(buffer.msg)
    <3>1. buffer' = NoBuffer /\ w + b = off[n + 1]
      BY <1>4, <1>6, <2>2 DEF After
    <3> QED
      BY <1>5, <2>1, <3>1 DEF Written, Write
  <2>3. CASE buffer.pos + b # LenField(buffer.msg)
    <3>1. /\ buffer' # NoBuffer /\ buffer'.msg = buffer.msg /\ buffer'.pos = buffer.pos + b
      BY <1>4, <2>3 DEF After, Holding, NoBuffer
    <3> QED
      BY <1>3, <1>5, <1>6, <2>1, <3>1 DEF Written, Write
  <2> QED BY <2>2, <2>3
<1>8. OnTheWire(off, w + b)'
  <2>1. ASSUME NEW i \in 1..(Len(stream) + b), NEW k \in 1..n
        PROVE  Holds(off, k, (w + b) - (Len(stream) + b) + i, stream'[i])
    <3> DEFINE p == (w + b) - (Len(stream) + b) + i
    <3>0. /\ w \in Nat /\ b \in Nat /\ Len(stream) \in Nat /\ off[n] \in Nat
          /\ buffer.pos \in Nat /\ w = off[n] + buffer.pos
      BY <1>3, <1>6
    <3>1. /\ i \in Nat /\ p \in Int /\ p = w - Len(stream) + i
          /\ 1 <= i /\ i <= Len(stream) + b
      BY <3>0
    <3>4. k \in Nat /\ k <= n /\ off[k] \in Nat /\ off[k + 1] \in Nat
      BY <1>2
    <3> HIDE DEF p
    <3>2. CASE i <= Len(stream)
      <4>2. i \in 1..Len(stream)
        BY <3>0, <3>1, <3>2
      <4>1. stream'[i] = stream[i]
        BY <1>5, <4>2
      <4> QED
        BY <3>1, <4>1, <4>2 DEF Tracks, OnTheWire, p
    <3>3. CASE i > Len(stream)
      <4>1. PICK j \in 1..b : i = Len(stream) + j
        <5>1. i - Len(stream) \in 1..b /\ i = Len(stream) + (i - Len(stream))
          BY <3>0, <3>1, <3>3
        <5> QED BY <5>1
      <4>2. stream'[i] = <<buffer.msg, buffer.pos + j>>
        BY <1>5, <4>1
      <4>3. p = w + j
        BY <3>0, <3>1, <4>1
      <4>4. ASSUME k < n PROVE off[k + 1] <= off[n]
        <5>1. n \in 1..(n + 1) /\ k + 1 \in 1..(n + 1) /\ k + 1 <= n
          BY <1>2, <3>4, <4>4
        <5> QED BY <1>2, <5>1
      <4>5. p <= off[k + 1] => k = n
        <5>1. off[n] < p
          BY <3>0, <4>3
        <5>2. k < n => off[k + 1] < p
          BY <3>0, <3>1, <3>4, <4>4, <5>1
        <5>3. p <= off[k + 1] => ~(k < n)
          BY <3>1, <3>4, <5>2
        <5>4. n \in Nat
          BY <1>2
        <5> QED BY <3>4, <5>3, <5>4
      <4>6. p - off[n] = buffer.pos + j
        <5>1. j \in Nat
          BY <3>0
        <5>2. p = off[n] + (buffer.pos + j)
          BY <3>0, <4>3, <5>1
        <5> QED
          BY <3>0, <5>1, <5>2
      <4>7. Holds(off, k, p, stream'[i])
        <5> SUFFICES ASSUME p <= off[k + 1] PROVE stream'[i] = <<sent[k], p - off[k]>>
          BY DEF Holds
        <5>1. k = n /\ buffer.msg = sent[n]
          BY <1>3, <4>5
        <5> QED
          BY <4>2, <4>6, <5>1
      <4> QED
        BY <4>7 DEF p
    <3> QED BY <3>0, <3>1, <3>2, <3>3 DEF p
  <2>2. UNCHANGED sent
    BY DEF Write
  <2> QED
    BY <1>5, <2>1, <2>2 DEF OnTheWire, Holds
<1>9. Reading' => InStep(off, w + b)'
  <2> SUFFICES ASSUME Reading PROVE InStep(off, w + b)'
    BY DEF Reading, Errs
  <2>1. InStep(off, w) /\ Current' = Current
    BY DEF Tracks, Current
  <2>2. /\ Current \in 1..(n + 1) /\ off[Current] \in Nat /\ Len(got) \in Nat
    BY <1>1, <1>2, <2>1, OffsetsFacts DEF InStep, Current, TypeOK
  <2>3. off[Current] + Len(got) + (Len(stream) + b) = w + b
    BY <1>3, <1>6, <2>1, <2>2 DEF InStep
  <2> QED
    BY <1>5, <2>1, <2>3 DEF InStep, Write
<1> QED
  BY <1>1, <1>7, <1>8, <1>9 DEF Tracks, Tracked

(* codec.rs: so the writing half stays in step.                            *)
LEMMA EncoderTracks ==
  ASSUME TypeOK, Tracked, EncoderStep, UNCHANGED <<kind, at, got, goal, received>>
  PROVE  Tracked'
<1>1. PICK off, w : Tracks(off, w)
  BY DEF Tracked
<1>2. ASSUME NEW m \in Msgs, StartSend(m) PROVE Tracked'
  BY <1>1, <1>2, SendTracks
<1>3. CASE Write
  BY <1>1, <1>3, WriteTracks
<1>4. CASE WriteFails \/ Break \/ HangUp
  <2>1. UNCHANGED <<sent, stream>>
    BY <1>4 DEF WriteFails, Break, HangUp
  <2>2. Offsets(off)' /\ OnTheWire(off, w)' /\ (Reading' => InStep(off, w)')
    BY <1>1, <2>1 DEF Tracks, Offsets, OnTheWire, Holds, Reading, InStep, Errs, Current
  <2>3. /\ buffer' = NoBuffer \/ buffer' = buffer
        /\ line' # "broken" => line # "broken" /\ buffer' = buffer
    BY <1>4 DEF WriteFails, Break, HangUp
  <2>4. Written(off, w)'
    BY <1>1, <2>1, <2>3 DEF Tracks, Written
  <2> QED
    BY <2>2, <2>4 DEF Tracks, Tracked
<1> QED
  BY <1>2, <1>3, <1>4 DEF EncoderStep

-----------------------------------------------------------------------------
(* Where the bytes are, when the decoder reads.                            *)
LEMMA TakeTracks ==
  ASSUME TypeOK, NEW off, NEW w, Tracks(off, w), NEW n \in 1..Len(stream), Take(n),
         UNCHANGED <<sent, buffer, line>>
  PROVE  (Offsets(off) /\ Written(off, w) /\ OnTheWire(off, w))'
<1>1. /\ Len(stream) \in Nat /\ n \in Nat /\ n <= Len(stream)
      /\ Len(stream') = Len(stream) - n
      /\ \A i \in 1..(Len(stream) - n) : stream'[i] = stream[n + i]
  BY BytesRead DEF Take, TypeOK
<1>2. Offsets(off)'
  BY DEF Tracks, Offsets
<1>3. w \in Nat /\ Len(stream) <= w
  BY DEF Tracks, Written
<1>4. Len(stream') <= w
  BY <1>1, <1>3
<1>5. Written(off, w)'
  BY <1>4 DEF Tracks, Written
<1>6. OnTheWire(off, w)'
  <2>1. ASSUME NEW i \in 1..(Len(stream) - n), NEW k \in 1..Len(sent)
        PROVE  Holds(off, k, w - Len(stream') + i, stream'[i])
    <3>1. n + i \in 1..Len(stream) /\ i \in Nat
      BY <1>1
    <3>2. Holds(off, k, w - Len(stream) + (n + i), stream[n + i])
      BY <3>1 DEF Tracks, OnTheWire
    <3>3. w - Len(stream) + (n + i) = w - Len(stream') + i
      BY <1>1, <1>3, <3>1
    <3> QED
      BY <1>1, <3>2, <3>3
  <2>2. ASSUME NEW i \in 1..(Len(stream) - n), NEW k \in 1..Len(sent)
        PROVE  Holds(off, k, w - Len(stream) + i, stream[i])'
    <3>1. k \in 1..(Len(sent) + 1) /\ k + 1 \in 1..(Len(sent) + 1)
      BY DEF TypeOK
    <3>2. /\ w \in Nat /\ Len(stream') \in Nat /\ i \in Nat
          /\ off[k] \in Nat /\ off[k + 1] \in Nat
      BY <1>1, <1>3, <3>1 DEF Tracks, Offsets
    <3> QED
      BY <2>1, <3>2 DEF Holds
  <2>3. \A i \in 1..Len(stream') : i \in 1..(Len(stream) - n)
    BY <1>1
  <2> QED
    BY <2>2, <2>3 DEF OnTheWire
<1> QED
  BY <1>2, <1>5, <1>6

(* The bytes read are the next ones of the current message.                *)
LEMMA TakeInStep ==
  ASSUME TypeOK, NEW off, NEW w, Tracks(off, w), Reading,
         NEW n \in 1..Len(stream), n <= Wanted
  PROVE  /\ Current \in 1..Len(sent) /\ goal <= LenField(sent[Current])
         /\ off[Current] + (Len(got) + n) + (Len(stream) - n) = w
         /\ \A i \in 1..(Len(got) + n) : ReadInto(n)[i] = <<sent[Current], i>>
<1> DEFINE r == Current
<1>1. /\ r \in Nat \ {0} /\ r <= Len(sent) + 1 /\ Len(sent) \in Nat
      /\ off[r] + Len(got) + Len(stream) = w
      /\ \A i \in 1..Len(got) : got[i] = <<sent[r], i>>
      /\ at = "message" => r <= Len(sent) /\ goal = LenField(sent[r])
      /\ at \in {"length", "message"}
  BY DEF Tracks, Reading, InStep, Current, TypeOK
<1>2. /\ w \in Nat /\ w <= off[Len(sent) + 1] /\ Len(stream) \in Nat /\ Len(got) \in Nat
      /\ n \in Nat /\ 1 <= n /\ n <= Len(stream) /\ Len(got) + n <= goal /\ goal \in Nat
  BY <1>1, MoreWanted DEF Tracks, Written, TypeOK
<1>3. /\ r \in 1..(Len(sent) + 1) /\ off[r] \in Nat
  BY <1>1, OffsetsFacts DEF Tracks
<1> HIDE DEF r
<1>4. r # Len(sent) + 1
  BY <1>1, <1>2, <1>3
<1>5. r \in 1..Len(sent)
  BY <1>1, <1>3, <1>4
<1>6. /\ off[r + 1] = off[r] + LenField(sent[r]) /\ LenField(sent[r]) \in Nat
      /\ LenField(sent[r]) >= LenHeader /\ off[r + 1] \in Nat
  BY <1>5, OffsetsFacts DEF Tracks
<1>7. goal <= LenField(sent[r])
  BY <1>1, <1>6, Sizes DEF TypeOK
<1>8. /\ \A i \in 1..Len(got) : ReadInto(n)[i] = got[i]
      /\ \A i \in 1..n : ReadInto(n)[Len(got) + i] = stream[i]
  BY BytesRead
<1>9. ASSUME NEW i \in 1..n PROVE stream[i] = <<sent[r], Len(got) + i>>
  <2>1. i \in 1..Len(stream) /\ i \in Nat /\ 1 <= i /\ i <= n
    BY <1>2
  <2>2. Holds(off, r, w - Len(stream) + i, stream[i])
    BY <1>5, <2>1 DEF Tracks, OnTheWire
  <2>3. w - Len(stream) + i = off[r] + (Len(got) + i)
    <3>1. off[r] + Len(got) + Len(stream) = w
      BY <1>1
    <3>2. off[r] \in Nat /\ Len(got) \in Nat /\ Len(stream) \in Nat
      BY <1>2, <1>3
    <3> QED
      BY <2>1, <3>1, <3>2
  <2>4. /\ off[r] < off[r] + (Len(got) + i) /\ off[r] + (Len(got) + i) <= off[r + 1]
        /\ off[r] + (Len(got) + i) - off[r] = Len(got) + i
    <3>1. Len(got) + i <= LenField(sent[r]) /\ off[r + 1] = off[r] + LenField(sent[r])
      <4>1. Len(got) + n <= goal /\ goal <= LenField(sent[r]) /\ i <= n
        BY <1>2, <1>7, <2>1
      <4>2. /\ Len(got) \in Nat /\ n \in Nat /\ goal \in Nat /\ LenField(sent[r]) \in Nat
            /\ i \in Nat
        BY <1>2, <1>6, <2>1
      <4> QED
        BY <1>6, <4>1, <4>2
    <3>2. off[r] \in Nat /\ Len(got) \in Nat /\ LenField(sent[r]) \in Nat
      BY <1>2, <1>3, <1>6
    <3> QED
      BY <2>1, <3>1, <3>2
  <2>5. Holds(off, r, off[r] + (Len(got) + i), stream[i])
    BY <2>2, <2>3
  <2> QED
    <3>1. off[r] \in Nat /\ off[r + 1] \in Nat /\ Len(got) \in Nat /\ i \in Nat
      BY <1>2, <1>3, <1>6, <2>1
    <3> QED
      BY <2>4, <2>5, <3>1 DEF Holds
<1>10. ASSUME NEW i \in 1..(Len(got) + n) PROVE ReadInto(n)[i] = <<sent[r], i>>
  <2>1. CASE i <= Len(got)
    <3>1. i \in 1..Len(got)
      BY <1>2, <2>1
    <3> QED BY <1>1, <1>8, <3>1
  <2>2. CASE i > Len(got)
    <3>1. i - Len(got) \in 1..n /\ Len(got) + (i - Len(got)) = i
      BY <1>2, <2>2
    <3> QED BY <1>8, <1>9, <3>1
  <2> QED BY <1>2, <2>1, <2>2
<1>11. off[r] + (Len(got) + n) + (Len(stream) - n) = w
  BY <1>1, <1>2, <1>3
<1> QED
  BY <1>5, <1>7, <1>10, <1>11 DEF r

(* codec.rs: fewer bytes are read than are wanted.                         *)
LEMMA ReadPartTracks ==
  ASSUME TypeOK, NEW off, NEW w, Tracks(off, w), ReadPart
  PROVE  Tracks(off, w)'
<1>1. PICK n \in ReadSizes : n < Wanted /\ Take(n) /\ got' = ReadInto(n)
  BY DEF ReadPart
<1>2. n \in 1..Len(stream) /\ Wanted \in Nat /\ n <= Wanted
  BY <1>1, MoreWanted DEF ReadPart
<1>3. (Offsets(off) /\ Written(off, w) /\ OnTheWire(off, w))'
  BY <1>1, <1>2, TakeTracks DEF ReadPart
<1>4. Reading' => InStep(off, w)'
  <2> SUFFICES ASSUME Reading PROVE InStep(off, w)'
    BY DEF ReadPart, Reading, Errs
  <2>1. /\ Current \in 1..Len(sent) /\ Current' = Current
        /\ off[Current] + (Len(got) + n) + (Len(stream) - n) = w
        /\ \A i \in 1..(Len(got) + n) : ReadInto(n)[i] = <<sent[Current], i>>
    BY <1>2, TakeInStep DEF ReadPart, Current
  <2>2. /\ Len(got') = Len(got) + n /\ Len(stream') = Len(stream) - n /\ Len(got) \in Nat
    BY <1>1, <1>2, BytesRead DEF Take, TypeOK
  <2>3. at = "message" => goal = LenField(sent[Current])
    BY DEF Tracks, InStep
  <2>4. /\ Current <= Len(sent) + 1 /\ Current <= Len(sent)
    BY <2>1 DEF TypeOK
  <2> QED
    BY <1>1, <2>1, <2>2, <2>3, <2>4 DEF InStep, ReadPart
<1> QED
  BY <1>3, <1>4 DEF Tracks

(* The length field of a message is known by its first bytes.              *)
LEMMA LengthRead ==
  ASSUME NEW data \in Seq(Byte), NEW m \in Msgs, Len(data) = LenLen,
         \A i \in 1..LenLen : data[i] = <<m, i>>
  PROVE  Lengths(data) = {LenField(m)}
<1>1. ASSUME NEW k \in Msgs
      PROVE  /\ SubSeq(Bytes(k), 1, LenLen) \in Seq(Byte)
             /\ Len(SubSeq(Bytes(k), 1, LenLen)) = LenLen
             /\ \A i \in 1..LenLen : SubSeq(Bytes(k), 1, LenLen)[i] = <<k, i>>
  <2>1. LenLen \in 1..(LenField(k) - 0) /\ 0 \in Nat /\ 0 + 1 = 1 /\ 0 + LenLen = LenLen
    BY Sizes
  <2>2. \A i \in 1..LenLen : 0 + i = i
    BY Sizes
  <2>3. /\ SubSeq(Bytes(k), 0 + 1, 0 + LenLen) \in Seq(Byte)
        /\ Len(SubSeq(Bytes(k), 0 + 1, 0 + LenLen)) = LenLen
        /\ \A i \in 1..LenLen : SubSeq(Bytes(k), 0 + 1, 0 + LenLen)[i] = <<k, 0 + i>>
    BY <2>1, PartOfMessage
  <2> QED
    BY <2>1, <2>2, <2>3
<1>2. data = SubSeq(Bytes(m), 1, LenLen)
  BY <1>1, SeqEqual
<1>3. ASSUME NEW k \in Msgs, data = SubSeq(Bytes(k), 1, LenLen) PROVE k = m
  <2>1. 1 \in 1..LenLen
    BY Sizes
  <2>2. data[1] = <<m, 1>> /\ data[1] = <<k, 1>>
    BY <1>1, <1>3, <2>1
  <2> QED BY <2>2
<1>4. {k \in Msgs : data = SubSeq(Bytes(k), 1, LenLen)} = {m}
  BY <1>2, <1>3
<1> QED
  BY <1>4 DEF Lengths

(* codec.rs: the length is read, of the message whose turn it is.          *)
LEMMA ReadLengthTracks ==
  ASSUME TypeOK, NEW off, NEW w, Tracks(off, w), ReadLength
  PROVE  Tracks(off, w)'
<1>1. /\ Wanted \in 1..Len(stream) /\ Wanted <= Wanted /\ Len(got) + Wanted = goal
      /\ goal = LenLen /\ Take(Wanted) /\ UNCHANGED <<sent, buffer, line, kind>>
      /\ Len(got) \in Nat /\ Wanted \in Nat
  BY MoreWanted DEF ReadLength, TypeOK
<1>2. (Offsets(off) /\ Written(off, w) /\ OnTheWire(off, w))'
  BY <1>1, TakeTracks
<1>3. /\ ReadInto(Wanted) \in Seq(Byte) /\ Len(ReadInto(Wanted)) = LenLen
      /\ Len(stream') = Len(stream) - Wanted
  BY <1>1, BytesRead DEF Take
<1>4. PICK len \in Lengths(ReadInto(Wanted)) :
        \/ Return(Failure("MessageSizeExceeded"))
        \/ /\ len >= LenHeader
           /\ at' = "message" /\ got' = ReadInto(Wanted) /\ goal' = len
           /\ UNCHANGED received
        \/ /\ len < LenHeader /\ at' = "panicked" /\ UNCHANGED received
  BY DEF ReadLength, Refuse
<1>5. CASE Return(Failure("MessageSizeExceeded"))
  <2>1. Errs' # {}
    BY <1>5, ReturnedFailure
  <2> QED
    BY <1>2, <2>1 DEF Tracks, Reading
<1>6. CASE at' = "panicked"
  BY <1>2, <1>6 DEF Tracks, Reading
<1>7. CASE /\ at' = "message" /\ got' = ReadInto(Wanted) /\ goal' = len
           /\ UNCHANGED received
  <2> SUFFICES ASSUME Reading PROVE InStep(off, w)'
    BY <1>2, <1>7 DEF Tracks, Reading, Errs, ReadLength
  <2> DEFINE m == sent[Current]
  <2>1. /\ Current \in 1..Len(sent) /\ off[Current] + LenLen + Len(stream') = w
        /\ \A i \in 1..LenLen : ReadInto(Wanted)[i] = <<m, i>>
    <3>1. /\ Current \in 1..Len(sent)
          /\ off[Current] + (Len(got) + Wanted) + (Len(stream) - Wanted) = w
          /\ \A i \in 1..(Len(got) + Wanted) : ReadInto(Wanted)[i] = <<m, i>>
      BY <1>1, TakeInStep
    <3>2. Len(got) + Wanted = LenLen /\ Len(stream') = Len(stream) - Wanted
      BY <1>1, <1>3
    <3> QED
      BY <3>1, <3>2
  <2>2. len = LenField(m)
    <3>1. m \in Msgs
      BY <2>1 DEF TypeOK
    <3>2. Lengths(ReadInto(Wanted)) = {LenField(m)}
      BY <1>3, <2>1, <3>1, LengthRead
    <3> QED BY <1>4, <3>2
  <2>3. /\ Current' = Current /\ Len(got') = LenLen /\ sent' = sent
        /\ Current <= Len(sent) /\ Current <= Len(sent) + 1
    BY <1>1, <1>3, <1>7, <2>1 DEF Current, TypeOK
  <2> QED
    BY <1>7, <2>1, <2>2, <2>3 DEF InStep
<1> QED
  BY <1>4, <1>5, <1>6, <1>7

(* A whole message is the one that is due.                                 *)
LEMMA MessageRead ==
  ASSUME TypeOK, NEW off, NEW w, Tracks(off, w), ReadMessage, Reading
  PROVE  /\ Current \in 1..Len(sent)
         /\ received' = Append(received, Frame(Bytes(sent[Current])))
<1>1. /\ Wanted \in 1..Len(stream) /\ Wanted <= Wanted /\ Len(got) + Wanted = goal
      /\ Len(ReadInto(Wanted)) = goal /\ ReadInto(Wanted) \in Seq(Byte)
  BY MoreWanted, ReturnedFrame, BytesRead DEF ReadMessage, TypeOK
<1>2. /\ Current \in 1..Len(sent) /\ goal = LenField(sent[Current])
      /\ \A i \in 1..goal : ReadInto(Wanted)[i] = <<sent[Current], i>>
  <2>1. goal = LenField(sent[Current])
    BY DEF Tracks, InStep, ReadMessage
  <2> QED
    BY <1>1, <2>1, TakeInStep
<1>3. sent[Current] \in Msgs
  BY <1>2 DEF TypeOK
<1>4. ReadInto(Wanted) = Bytes(sent[Current])
  BY <1>1, <1>2, <1>3, BytesAreBytes, SeqEqual
<1> QED
  BY <1>2, <1>4 DEF ReadMessage, Return

(* codec.rs: the message is read, the one that was sent.                   *)
LEMMA ReadMessageTracks ==
  ASSUME TypeOK, NEW off, NEW w, Tracks(off, w), ReadMessage
  PROVE  Tracks(off, w)'
<1>1. /\ Wanted \in 1..Len(stream) /\ Wanted <= Wanted /\ Len(got) + Wanted = goal
      /\ Take(Wanted) /\ UNCHANGED <<sent, buffer, line, kind>>
      /\ Errs' = Errs /\ Len(received') = Len(received) + 1
  BY MoreWanted, ReturnedFrame DEF ReadMessage
<1>2. (Offsets(off) /\ Written(off, w) /\ OnTheWire(off, w))'
  BY <1>1, TakeTracks
<1>3. ASSUME Reading' PROVE InStep(off, w)'
  <2>1. Reading
    BY <1>1, <1>3 DEF Reading, ReadMessage
  <2>2. Len(stream') = Len(stream) - Wanted
    BY <1>1, BytesRead DEF Take
  <2>3. /\ Current \in 1..Len(sent) /\ off[Current] + goal + Len(stream') = w
    BY <1>1, <2>1, <2>2, TakeInStep
  <2>4. goal = LenField(sent[Current])
    BY <2>1 DEF Tracks, InStep, ReadMessage
  <2>5. off[Current + 1] = off[Current] + goal
    BY <2>3, <2>4, OffsetsFacts DEF Tracks
  <2>6. Current' = Current + 1 /\ Current' <= Len(sent) + 1
    BY <1>1, <2>3 DEF Current, TypeOK
  <2>7. got' = <<>> /\ at' = "length" /\ off[Current'] + 0 + Len(stream') = w
    <3>1. off[Current] + goal \in Nat
      BY <2>3, OffsetsFacts DEF Tracks, TypeOK
    <3> QED
      BY <2>3, <2>5, <2>6, <3>1 DEF ReadMessage, NextItem
  <2>8. Len(got') = 0 /\ sent' = sent
    BY <1>1, <2>7
  <2> QED
    BY <2>6, <2>7, <2>8 DEF InStep
<1> QED
  BY <1>2, <1>3 DEF Tracks

(* codec.rs: so the reading half stays in step.                            *)
LEMMA ReadTracks ==
  ASSUME TypeOK, Tracked, Read
  PROVE  Tracked'
<1>1. PICK off, w : Tracks(off, w)
  BY DEF Tracked
<1>2. CASE ReadPart \/ ReadLength \/ ReadMessage
  BY <1>1, <1>2, ReadPartTracks, ReadLengthTracks, ReadMessageTracks DEF Tracked
<1>3. CASE ReadEnd \/ ReadFails \/ ReturnNone \/ PollLost
  <2>1. UNCHANGED <<sent, buffer, stream, line>> /\ at' \notin {"length", "message"}
    BY <1>3 DEF ReadEnd, ReadFails, ReturnNone, PollLost, encoderVars
  <2>2. Tracks(off, w)'
    BY <1>1, <2>1 DEF Tracks, Offsets, Written, OnTheWire, Holds, Reading
  <2> QED BY <2>2 DEF Tracked
<1> QED
  BY <1>2, <1>3 DEF Read

(* codec.rs: both halves stay in step, at every byte.                      *)
THEOREM BytesStayInStep == CodecSpec => []Tracked
<1>1. CodecInit => Tracked
  <2> SUFFICES ASSUME CodecInit PROVE Tracked
    OBVIOUS
  <2> DEFINE off == [k \in 1..1 |-> 0]
  <2>1. /\ sent = <<>> /\ stream = <<>> /\ got = <<>> /\ received = <<>>
        /\ buffer = NoBuffer /\ line = "up" /\ at = "length"
    BY DEF CodecInit, EncoderInit
  <2>2. Offsets(off) /\ Written(off, 0) /\ OnTheWire(off, 0)
    BY <2>1 DEF Offsets, Written, OnTheWire
  <2>3. InStep(off, 0)
    BY <2>1 DEF InStep, Current
  <2> QED
    BY <2>2, <2>3 DEF Tracks, Tracked
<1>2. TypeOK /\ Tracked /\ [CodecNext]_codecVars => Tracked'
  <2>1. Tracked /\ UNCHANGED codecVars => Tracked'
    <3> SUFFICES ASSUME Tracked, UNCHANGED codecVars PROVE Tracked'
      OBVIOUS
    <3>1. PICK off, w : Tracks(off, w)
      BY DEF Tracked
    <3>2. Tracks(off, w)'
      BY <3>1 DEF Tracks, Offsets, Written, OnTheWire, Holds, Reading, InStep, Errs,
                  Current, codecVars, encoderVars
    <3> QED BY <3>2 DEF Tracked
  <2> QED
    BY <2>1, EncoderTracks, ReadTracks DEF CodecNext
<1> QED
  BY <1>1, <1>2, CodecTypeCorrect, PTL DEF CodecSpec

-----------------------------------------------------------------------------
(* The end of the stream.                                                  *)
EndInv ==
  kind = "heap" /\ at = "done" /\ Errs = {} => line = "ended" /\ EndMeansAll

(* Nothing is under way when the transport of a decoder that is in step    *)
(* ends, except the message the encoder was writing.                       *)
LEMMA NothingLeft ==
  ASSUME TypeOK, Tracked, Reading, stream = <<>>, line = "ended"
  PROVE  Len(received) = Len(sent) - (IF buffer = NoBuffer THEN 0 ELSE 1)
<1>1. PICK off, w : Tracks(off, w)
  BY DEF Tracked
<1> DEFINE n == Len(sent)
           r == Current
<1>2. /\ n \in Nat /\ r \in Nat \ {0} /\ r <= n + 1 /\ Len(got) \in Nat /\ Len(received) = r - 1
      /\ off[r] + Len(got) = w /\ goal \in Nat /\ Len(got) < goal
      /\ goal = LenLen \/ (r <= n /\ goal = LenField(sent[r]))
  <2>1. /\ n \in Nat /\ r \in Nat \ {0} /\ Len(received) = r - 1
        /\ Len(got) \in Nat /\ goal \in Nat /\ Len(got) < goal
        /\ at = "message" \/ goal = LenLen
    BY DEF Current, Reading, TypeOK
  <2>2. /\ r <= n + 1 /\ off[r] + Len(got) + 0 = w
        /\ at = "message" => r <= n /\ goal = LenField(sent[r])
    BY <1>1 DEF Tracks, InStep
  <2>3. r \in 1..(n + 1) /\ off[r] \in Nat
    BY <1>1, <2>1, <2>2, OffsetsFacts DEF Tracks
  <2> HIDE DEF r
  <2>4. off[r] + Len(got) = w
    BY <2>1, <2>2, <2>3
  <2>5. goal = LenLen \/ (r <= n /\ goal = LenField(sent[r]))
    BY <2>1, <2>2
  <2> QED
    BY <2>1, <2>2, <2>4, <2>5
<1>3. /\ \A k \in 1..(n + 1) : off[k] \in Nat
      /\ \A j, k \in 1..(n + 1) : j <= k => off[j] <= off[k]
  BY <1>1, OffsetsFacts DEF Tracks
<1>4. r <= n => off[r + 1] \in Nat /\ off[r] \in Nat /\ w < off[r + 1] /\ r \in 1..n
  <2> SUFFICES ASSUME r <= n
               PROVE  off[r + 1] \in Nat /\ off[r] \in Nat /\ w < off[r + 1] /\ r \in 1..n
    OBVIOUS
  <2>1. r \in 1..n /\ r \in 1..(n + 1) /\ r + 1 \in 1..(n + 1)
    BY <1>2
  <2>2. off[r + 1] = off[r] + LenField(sent[r]) /\ LenField(sent[r]) >= LenHeader
        /\ LenField(sent[r]) \in Nat
    BY <1>1, <2>1, OffsetsFacts DEF Tracks
  <2>3. off[r] \in Nat /\ off[r + 1] \in Nat
    BY <1>3, <2>1
  <2>4. Len(got) < LenField(sent[r])
    BY <1>2, <2>2, Sizes
  <2> QED
    BY <1>2, <2>1, <2>2, <2>3, <2>4
<1>5. CASE buffer = NoBuffer
  <2>1. w = off[n + 1]
    BY <1>1, <1>5 DEF Tracks, Written
  <2>2. ~(r <= n)
    <3> SUFFICES ASSUME r <= n PROVE FALSE
      OBVIOUS
    <3>1. r + 1 \in 1..(n + 1) /\ n + 1 \in 1..(n + 1) /\ r + 1 <= n + 1
      BY <1>2
    <3>2. off[r + 1] <= off[n + 1] /\ off[n + 1] \in Nat
      BY <1>3, <3>1
    <3> QED
      BY <1>4, <2>1, <3>2
  <2> QED
    BY <1>2, <1>5, <2>2
<1>6. CASE buffer # NoBuffer
  <2>1. /\ n > 0 /\ buffer.msg = sent[n] /\ w = off[n] + buffer.pos
        /\ buffer.pos \in Nat /\ buffer.pos < LenField(sent[n])
    BY <1>1, <1>6 DEF Tracks, Written, TypeOK
  <2>2. n \in 1..n /\ n \in 1..(n + 1) /\ n + 1 \in 1..(n + 1)
    BY <1>2, <2>1
  <2>3. /\ off[n + 1] = off[n] + LenField(sent[n]) /\ LenField(sent[n]) \in Nat
        /\ off[n] \in Nat /\ off[n + 1] \in Nat
    BY <1>1, <1>3, <2>2, OffsetsFacts DEF Tracks
  <2>4. off[n] <= w /\ w < off[n + 1] /\ w \in Nat
    BY <2>1, <2>3
  <2>5. r # n + 1
    BY <1>2, <2>3, <2>4
  <2>6. ~(r < n)
    <3> SUFFICES ASSUME r < n PROVE FALSE
      OBVIOUS
    <3>1. r + 1 \in 1..(n + 1) /\ r + 1 <= n /\ r <= n
      BY <1>2
    <3>2. off[r + 1] <= off[n]
      BY <1>3, <2>2, <3>1
    <3> QED
      BY <1>4, <2>3, <2>4, <3>1, <3>2
  <2> QED
    BY <1>2, <1>6, <2>5, <2>6
<1> QED BY <1>5, <1>6

(* codec.rs: the stream ends without an error at the end of a message.     *)
LEMMA EndStep ==
  ASSUME TypeOK, StoppedInv, Tracked, EndInv, [CodecNext]_codecVars
  PROVE  EndInv'
<1> SUFFICES ASSUME kind' = "heap", at' = "done", Errs' = {}
             PROVE  line' = "ended" /\ EndMeansAll'
  BY DEF EndInv
<1>1. CASE UNCHANGED <<kind, at, received>>
  <2>1. kind = "heap" /\ at = "done" /\ Errs = {}
    BY <1>1 DEF Errs
  <2>2. line = "ended" /\ EndMeansAll
    BY <2>1 DEF EndInv
  <2>3. ~EncoderStep
    BY <2>2 DEF EncoderStep, StartSend, Write, WriteFails, Break, HangUp
  <2>4. ~Read
    BY <2>1 DEF Read, ReadPart, ReadLength, ReadMessage, ReadEnd, ReadFails, ReturnNone, PollLost
  <2>5. UNCHANGED codecVars
    BY <2>3, <2>4 DEF CodecNext
  <2> QED
    BY <2>2, <2>5 DEF codecVars, encoderVars, EndMeansAll, Errs
<1>2. CASE ReadEnd
  <2>1. Reading /\ stream = <<>> /\ line = "ended" /\ UNCHANGED <<sent, buffer, line, received>>
    BY <1>2 DEF ReadEnd, Reading, Errs, encoderVars
  <2> QED
    BY <2>1, NothingLeft DEF EndMeansAll
<1>3. CASE ReturnNone
  BY <1>3 DEF ReturnNone, StoppedInv, Errs
<1>4. CASE ReadLength
  BY <1>4 DEF ReadLength, Refuse, NextItem
<1>5. CASE ReadMessage \/ ReadFails \/ PollLost
  BY <1>5 DEF ReadMessage, ReadFails, PollLost, NextItem
<1> QED
  BY <1>1, <1>2, <1>3, <1>4, <1>5 DEF CodecNext, codecVars, Read, ReadPart

(* decoder.rs:86-93, 121-128: when Decoder reports the end of the stream   *)
(* without an error it has returned every message that was written to its  *)
(* last byte.                                                              *)
THEOREM NothingIsCutOff == CodecSpec => []EndMeansAll
<1>1. CodecInit => StoppedInv /\ EndInv
  BY DEF CodecInit, StoppedInv, EndInv, Errs
<1>2. TypeOK /\ Tracked /\ StoppedInv /\ EndInv /\ [CodecNext]_codecVars => StoppedInv' /\ EndInv'
  BY StoppedStep, EndStep
<1>3. EndInv => EndMeansAll
  BY DEF EndInv, EndMeansAll
<1> QED
  BY <1>1, <1>2, <1>3, CodecTypeCorrect, BytesStayInStep, PTL DEF CodecSpec

-----------------------------------------------------------------------------
(* The refinement of FrameChannel.tla: what was returned before the first  *)
(* error stays what it is.                                                 *)
IsFirst(i) == i \in Errs /\ \A j \in Errs : i <= j

FirstInv == Errs = {} \/ \E i \in Errs : IsFirst(i)

(* The items before the first error.                                       *)
LEMMA FaultlessIs ==
  ASSUME TypeOK, NEW f, IsFirst(f)
  PROVE  Faultless = SubSeq(received, 1, f - 1)
<1>1. Errs \subseteq Nat /\ Errs # {}
  BY DEF IsFirst, Errs, TypeOK
<1>2. (CHOOSE i \in Errs : \A j \in Errs : i <= j) = f
  <2>1. \A i \in Errs : (\A j \in Errs : i <= j) => i = f
    BY <1>1 DEF IsFirst
  <2> QED
    BY <2>1 DEF IsFirst
<1> QED
  BY <1>1, <1>2 DEF Faultless

(* Sequences: what is added leaves what was there.                         *)
LEMMA PrefixKept ==
  ASSUME NEW S, NEW q \in Seq(S), NEW e \in S, NEW k \in 0..Len(q)
  PROVE  SubSeq(Append(q, e), 1, k) = SubSeq(q, 1, k)
<1>1. /\ Append(q, e) \in Seq(S) /\ Len(Append(q, e)) = Len(q) + 1 /\ Len(q) \in Nat
      /\ \A i \in 1..Len(q) : Append(q, e)[i] = q[i]
  BY Appended
<1>2. /\ 0 \in 0..Len(q) /\ 0 \in 0..Len(Append(q, e)) /\ 0 + 1 = 1 /\ k - 0 = k
      /\ k \in 0..Len(Append(q, e)) /\ \A i \in 1..k : 0 + i = i /\ i \in 1..Len(q)
  BY <1>1
<1>3. /\ SubSeq(q, 0 + 1, k) \in Seq(S) /\ Len(SubSeq(q, 0 + 1, k)) = k
      /\ \A i \in 1..k : SubSeq(q, 0 + 1, k)[i] = q[i]
  BY <1>2, Part
<1>4. /\ SubSeq(Append(q, e), 0 + 1, k) \in Seq(S) /\ Len(SubSeq(Append(q, e), 0 + 1, k)) = k
      /\ \A i \in 1..k : SubSeq(Append(q, e), 0 + 1, k)[i] = Append(q, e)[i]
  BY <1>1, <1>2, Part
<1>5. \A i \in 1..k : SubSeq(Append(q, e), 0 + 1, k)[i] = SubSeq(q, 0 + 1, k)[i]
  BY <1>1, <1>2, <1>3, <1>4
<1>6. SubSeq(Append(q, e), 0 + 1, k) = SubSeq(q, 0 + 1, k)
  BY <1>3, <1>4, <1>5, SeqEqual
<1> QED
  BY <1>2, <1>6

(* codec.rs: after an error nothing more counts.                           *)
LEMMA FaultlessKept ==
  ASSUME TypeOK, FirstInv, NEW item \in Item, Return(item), Errs # {} \/ ~item.ok
  PROVE  FirstInv' /\ Errs' # {} /\ Faultless' = Faultless
<1>1. /\ received' \in Seq(Item) /\ Len(received) \in Nat
      /\ Errs' = IF item.ok THEN Errs ELSE Errs \cup {Len(received) + 1}
      /\ received \in Seq(Item)
  BY Returned DEF TypeOK
<1>2. PICK f \in 1..(Len(received) + 1) :
        /\ Errs = {} => f = Len(received) + 1
        /\ Errs # {} => IsFirst(f)
        /\ f \in Errs' /\ \A j \in Errs' : f <= j
  <2>1. CASE Errs = {}
    BY <1>1, <2>1
  <2>2. CASE Errs # {}
    <3>1. PICK f \in Errs : IsFirst(f)
      BY <2>2 DEF FirstInv
    <3>2. f \in 1..Len(received) /\ f <= Len(received) + 1
      BY <1>1, <3>1 DEF Errs
    <3> QED
      BY <1>1, <2>2, <3>1, <3>2 DEF IsFirst
  <2> QED BY <2>1, <2>2
<1>3. IsFirst(f)' /\ FirstInv' /\ Errs' # {}
  BY <1>2 DEF IsFirst, FirstInv
<1>4. Faultless' = SubSeq(received', 1, f - 1)
  <2>1. /\ Errs' \subseteq Nat
        /\ (CHOOSE i \in Errs' : \A j \in Errs' : i <= j) = f
    <3>1. Errs' \subseteq Nat
      BY <1>1 DEF Errs
    <3>2. \A i \in Errs' : (\A j \in Errs' : i <= j) => i = f
      BY <1>2, <3>1
    <3> QED
      BY <1>2, <3>1, <3>2
  <2> QED
    BY <1>3, <2>1 DEF Faultless
<1>5. SubSeq(received', 1, f - 1) = SubSeq(received, 1, f - 1)
  <2>1. f - 1 \in 0..Len(received)
    BY <1>1, <1>2
  <2> QED
    BY <1>1, <2>1, PrefixKept DEF Return
<1>6. CASE Errs = {}
  <2>1. f - 1 = Len(received)
    BY <1>1, <1>2, <1>6
  <2>2. SubSeq(received, 1, Len(received)) = received
    BY <1>1, SubSeqFull
  <2> QED
    BY <1>3, <1>4, <1>5, <1>6, <2>1, <2>2 DEF Faultless
<1>7. CASE Errs # {}
  BY <1>2, <1>3, <1>4, <1>5, <1>7, FaultlessIs
<1> QED BY <1>6, <1>7

(* A step that ends the stream or stutters.                                *)
LEMMA Over ==
  ASSUME UNCHANGED sent, Faultless' = Faultless,
         Errs' # {} \/ at' \notin {"length", "message"}
  PROVE  Channel!Finish
BY DEF Channel!Finish

(* codec.rs: every step keeps FirstInv.                                    *)
LEMMA FirstStep ==
  ASSUME TypeOK, FirstInv, [CodecNext]_codecVars
  PROVE  FirstInv'
<1>1. CASE UNCHANGED received
  BY <1>1 DEF FirstInv, IsFirst, Errs
<1>2. ASSUME NEW err \in {"MessageSizeExceeded", "Io"}, Return(Failure(err)) PROVE FirstInv'
  BY <1>2, FaultlessKept DEF Failure, Item
<1>3. CASE ReadMessage
  <2>1. Errs' = Errs
    BY <1>3, ReturnedFrame
  <2> QED BY <2>1 DEF FirstInv, IsFirst
<1> QED
  BY <1>1, <1>2, <1>3
  DEF CodecNext, codecVars, Read, ReadPart, ReadLength, Refuse, ReadEnd, ReadFails,
      ReturnNone, PollLost

(* codec.rs: every step is one of the channel, or none.                    *)
LEMMA ChannelStep ==
  ASSUME TypeOK, Tracked, FirstInv, [CodecNext]_codecVars
  PROVE  [Channel!ChannelNext]_(Channel!channelVars)
<1> DEFINE Goal == [Channel!ChannelNext]_(Channel!channelVars)
<1>1. ASSUME NEW err \in {"MessageSizeExceeded", "Io"}, Return(Failure(err)), UNCHANGED sent
      PROVE  Goal
  <2>1. Errs' # {} /\ Faultless' = Faultless
    BY <1>1, FaultlessKept DEF Failure, Item
  <2> QED
    BY <1>1, <2>1, Over DEF Channel!ChannelNext
<1>2. CASE UNCHANGED received
  <2>1. Faultless' = Faultless /\ Errs' = Errs
    BY <1>2 DEF Faultless, Errs
  <2>2. ASSUME NEW m \in Msgs, StartSend(m), UNCHANGED at PROVE Goal
    <3> DEFINE accepted == [i \in DOMAIN sent |-> Frame(Bytes(sent[i]))]
    <3>1. /\ DOMAIN sent = 1..Len(sent) /\ DOMAIN sent' = 1..(Len(sent) + 1)
          /\ \A i \in 1..Len(sent) : sent'[i] = sent[i]
          /\ sent'[Len(sent) + 1] = m /\ Len(sent) \in Nat
      BY <2>2, Appended DEF StartSend, TypeOK
    <3>2. accepted' = Append(accepted, Frame(Bytes(m)))
      <4>1. /\ accepted \in [1..Len(sent) -> {Frame(Bytes(sent[i])) : i \in 1..Len(sent)}]
            /\ Len(accepted) = Len(sent)
        BY <3>1
      <4>2. accepted' = [i \in 1..(Len(sent) + 1) |-> Frame(Bytes(sent'[i]))]
        BY <3>1
      <4>3. Append(accepted, Frame(Bytes(m)))
              = [i \in 1..(Len(sent) + 1) |->
                   IF i = Len(sent) + 1 THEN Frame(Bytes(m)) ELSE accepted[i]]
        BY <3>1, <4>1
      <4>4. \A i \in 1..(Len(sent) + 1) :
              Frame(Bytes(sent'[i]))
                = IF i = Len(sent) + 1 THEN Frame(Bytes(m)) ELSE accepted[i]
        BY <3>1
      <4> QED
        BY <4>2, <4>3, <4>4
    <3>3. Channel!Accept(Frame(Bytes(m)))
      BY <2>1, <2>2, <3>2 DEF Channel!Accept
    <3> QED
      BY <3>3 DEF Channel!ChannelNext
  <2>3. CASE UNCHANGED <<sent, at>>
    BY <2>1, <2>3 DEF Channel!channelVars
  <2>4. CASE UNCHANGED sent /\ at' \notin {"length", "message"}
    BY <2>1, <2>4, Over DEF Channel!ChannelNext
  <2>5. CASE /\ UNCHANGED sent
             /\ at \in {"length", "message"} /\ at' \in {"length", "message"}
    BY <2>1, <2>5 DEF Channel!channelVars
  <2>6. CASE EncoderStep /\ UNCHANGED at
    BY <2>2, <2>3, <2>6 DEF EncoderStep, Write, WriteFails, Break, HangUp
  <2>7. CASE Read
    BY <1>2, <2>3, <2>4, <2>5, <2>7
    DEF Read, ReadPart, ReadLength, ReadMessage, ReadEnd, ReadFails, ReturnNone, PollLost,
        encoderVars, NextItem, Refuse
  <2> QED
    BY <2>3, <2>6, <2>7 DEF CodecNext, codecVars, encoderVars
<1>3. CASE ReadMessage
  <2>1. UNCHANGED sent /\ at \in {"length", "message"} /\ at' \in {"length", "message"}
    BY <1>3 DEF ReadMessage, NextItem
  <2>2. CASE Reading
    <3>1. PICK off, w : Tracks(off, w)
      BY DEF Tracked
    <3>2. /\ Current \in 1..Len(sent)
          /\ received' = Append(received, Frame(Bytes(sent[Current])))
      BY <1>3, <2>2, <3>1, MessageRead
    <3>3. Errs = {} /\ Errs' = {}
      BY <1>3, <2>2, ReturnedFrame DEF Reading
    <3>4. Faultless = received /\ Faultless' = received'
      BY <3>3 DEF Faultless
    <3>5. Len(received) < Len(sent) /\ Current = Len(received) + 1 /\ Current \in DOMAIN sent
      BY <3>2 DEF Current, TypeOK
    <3>6. Len([i \in DOMAIN sent |-> Frame(Bytes(sent[i]))]) = Len(sent)
      BY DEF TypeOK
    <3> QED
      BY <2>1, <3>2, <3>3, <3>4, <3>5, <3>6 DEF Channel!Deliver, Channel!ChannelNext
  <2>3. CASE ~Reading
    <3>1. Errs # {}
      BY <2>1, <2>3 DEF Reading
    <3>2. Frame(ReadInto(Wanted)) \in Item
      <4>1. Wanted \in 1..Len(stream) /\ goal >= LenHeader
        BY <1>3, ReturnedFrame DEF ReadMessage, TypeOK
      <4>2. ReadInto(Wanted) \in Seq(Byte) /\ Len(ReadInto(Wanted)) = goal
        BY <1>3, <4>1, BytesRead, ReturnedFrame
      <4> QED
        BY <4>1, <4>2, FramesAreItems
    <3>3. Errs' # {} /\ Faultless' = Faultless
      BY <1>3, <3>1, <3>2, FaultlessKept DEF ReadMessage
    <3> QED
      BY <2>1, <3>3, Over DEF Channel!ChannelNext
  <2> QED BY <2>2, <2>3
<1> QED
  BY <1>1, <1>2, <1>3
  DEF CodecNext, codecVars, Read, ReadPart, ReadLength, Refuse, ReadEnd, ReadFails,
      ReturnNone, PollLost, encoderVars

(* encoder.rs, decoder.rs, decoder_noheap.rs: the two ends of a byte       *)
(* stream implement FrameChannel.tla: frames arrive whole, once and in the *)
(* order they were sent, until the first error or the end.                 *)
THEOREM ChannelIsImplemented == CodecSpec => ImplementsChannel
<1>1. CodecInit => FirstInv /\ Channel!ChannelInit
  BY DEF CodecInit, EncoderInit, FirstInv, Errs, Faultless, Channel!ChannelInit
<1>2. TypeOK /\ Tracked /\ FirstInv /\ [CodecNext]_codecVars
        => FirstInv' /\ [Channel!ChannelNext]_(Channel!channelVars)
  BY FirstStep, ChannelStep
<1> QED
  BY <1>1, <1>2, CodecTypeCorrect, BytesStayInStep, PTL
  DEF CodecSpec, ImplementsChannel, Channel!ChannelSpec
=============================================================================
