SPECIFICATION FairConnection
CONSTANTS
  pa = pa
  pb = pb
  c1 = c1
  c2 = c2
  s1 = s1
  s2 = s2
  s3 = s3
  d1 = d1
  x1 = x1
  x2 = x2
  x3 = x3
  x4 = x4
  echo = echo
  NullSid = NullSid
  FullSid = FullSid
  NoCall = NoCall
  WireErr = WireErr
  Peers <- Both
  Remote <- Joined
  Services <- OneSid
  SidOf <- AllEcho
  Calls <- OneCall
  Sends <- ManySends
  CidValues = 2
  Origin <- Makers
  Registered <- Served
  Grace <- None
  Gated <- None
  Slots = 1
  Faults <- None
  Closers <- None
  Mailbox = 1
  WireRoom = 1
PROPERTY CallsSettle
CHECK_DEADLOCK FALSE
