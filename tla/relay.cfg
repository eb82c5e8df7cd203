SPECIFICATION FairRelay
CONSTANTS
  pa = pa
  pb = pb
  client = client
  provider = provider
  echo = echo
  d1 = d1
  x1 = x1
  l1 = l1
  y1 = y1
  NullSid = NullSid
  FullSid = FullSid
  NoCall = NoCall
  WireErr = WireErr
  Peers <- TwoPeers
  Remote <- Ahead
  Services <- OneSid
  SidOf <- AllEcho
  Calls <- OneCall
  Sends <- OneSend
  CidValues = 4
  Origin <- Makers
  Registered <- FrontOnly
  Grace <- None
  Gated <- None
  Slots = 1
  Faults <- None
  Closers <- TwoPeers
  Mailbox = 1
  WireRoom = 1
  EnvCid <- ClientCids
  MayGarble <- None
  MayHangUp <- BothEnds
  Front = pa
  Back = pb
  Leg <- LegAndSend
INVARIANTS CidsRestored RelayedFaithfully GoneIsGone
PROPERTIES RelayedCallsEnd ProviderToo
CHECK_DEADLOCK FALSE
