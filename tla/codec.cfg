SPECIFICATION FairCodec
CONSTANTS
  empty = empty
  short = short
  long = long
  Msgs <- AllMsgs
  Payload <- Lens
  LenLen = 2
  LenSid = 1
  LenCid = 1
  Room = 3
  MaxSends = 3
  MayBreak = TRUE
  MaxSize = 5
  Garbage <- Mistaken
  Decoders <- Both
INVARIANTS EndMeansAll NothingAfterError
PROPERTIES ImplementsChannel FramesArrive EndIsNoticed
CHECK_DEADLOCK FALSE
