SPECIFICATION ReadingSpec
CONSTANTS
  pa = pa
  ra = ra
  c1 = c1
  c2 = c2
  s1 = s1
  d1 = d1
  d2 = d2
  x1 = x1
  echo = echo
  other = other
  NullSid = NullSid
  FullSid = FullSid
  NoCall = NoCall
  WireErr = WireErr
  Peers <- OnePeer
  Remote <- ToOutside
  Services <- OneSid
  SidOf <- AllEcho
  Calls <- TwoAndOne
  Sends <- None
  CidValues = 4
  Origin <- Makers
  Registered <- Served
  Grace <- OnePeer
  Gated <- OnePeer
  Slots = 1
  Faults <- None
  Closers <- OnePeer
  Mailbox = 2
  WireRoom = 1
  EnvCid <- OutsideCids
  MayGarble <- None
  MayHangUp <- TheOutside
INVARIANT NoCrossedAnswers
PROPERTIES CallsSettle CloseCompletes RemoteCloseNoticed RequestsProcessed
CHECK_DEADLOCK FALSE
