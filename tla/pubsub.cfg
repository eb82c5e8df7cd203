SPECIFICATION FairSpec
CONSTANTS
  a = a
  b = b
  Subscribers <- Two
  Careful <- OnlyA
  Readers <- OnlyA
  MayClose <- OnlyB
  MayPanic <- OnlyB
  Inbox = 1
  MaxMsgs = 2
  MaxOps = 1
INVARIANTS TypeOK OrderKept LeavesForGood
PROPERTIES EveryReaderReached
CHECK_DEADLOCK FALSE
