---------------------------- MODULE FrameChannel ----------------------------
(***************************************************************************)
(* What an encoder and a decoder at the two ends of a byte stream promise  *)
(* the peers that use them: frames arrive whole, once, and in the order    *)
(* they were sent, and none arrives after the decoder reported an error or *)
(* the end of the stream.                                                  *)
(***************************************************************************)
EXTENDS Naturals, Sequences

CONSTANT Messages   \* the frames the peer may send

VARIABLES
  accepted,    \* frames handed to the encoder, oldest first
  delivered,   \* frames the decoder has returned
  over         \* whether it has returned an error or the end of the stream

channelVars == <<accepted, delivered, over>>

ChannelInit == accepted = <<>> /\ delivered = <<>> /\ over = FALSE

Accept(m) ==
  /\ accepted' = Append(accepted, m)
  /\ UNCHANGED <<delivered, over>>

Deliver ==
  /\ ~over
  /\ Len(delivered) < Len(accepted)
  /\ delivered' = Append(delivered, accepted[Len(delivered) + 1])
  /\ UNCHANGED <<accepted, over>>

Finish ==
  /\ over' = TRUE
  /\ UNCHANGED <<accepted, delivered>>

ChannelNext == (\E m \in Messages : Accept(m)) \/ Deliver \/ Finish

ChannelSpec == ChannelInit /\ [][ChannelNext]_channelVars
=============================================================================
