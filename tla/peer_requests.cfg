SPECIFICATION Spec
CONSTANTS
  pa = pa
  ra = ra
  c1 = c1
  c2 = c2
  s1 = s1
  d1 = d1
  d2 = d2
  x1 = x1
  echo = echo
  other = other
  NullSid = NullSid
  FullSid = FullSid
  NoCall = NoCall
  WireErr = WireErr
  Peers <- OnePeer
  Remote <- ToOutside
  Services <- BothSids
  SidOf <- OtherForD1
  Calls <- IncomingTwo
  Sends <- SendsBoth
  CidValues = 4
  Origin <- Makers
  Registered <- Served
  Grace <- OnePeer
  Gated <- None
  Slots = 1
  Faults <- AllFaults
  Closers <- OnePeer
  Mailbox = 2
  WireRoom = 1
  EnvCid <- OutsideCids
  MayGarble <- TheOutside
  MayHangUp <- TheOutside
INVARIANT ClosedIsClean
PROPERTIES SettledOnce SilentAfterClose
CHECK_DEADLOCK FALSE
