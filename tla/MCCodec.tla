------------------------------ MODULE MCCodec -------------------------------
(* Two kinds of messages that fit, one of them without payload, and one    *)
(* that exceeds the limit; a connection that buffers less than a header.   *)
EXTENDS Codec, TLC

CONSTANTS empty, short, long

AllMsgs    == {empty, short, long}
Lens       == empty :> 0 @@ short :> 1 @@ long :> 2
Mistaken   == {1, 4, 6}
Both       == {"heap", "noheap"}
=============================================================================
