SPECIFICATION Spec
CONSTANTS
  l1 = l1
  l2 = l2
  c1 = c1
  c2 = c2
  c3 = c3
  c4 = c4
  c5 = c5
  NoListener = NoListener
  Listeners <- TwoListeners
  Calls <- FiveCalls
  Owner <- Alternating
  Slots = 1
  Mailbox = 1
  SingleThread = FALSE
  MayShutDown = TRUE
INVARIANTS TypeOK SlotsConserved OnlyHolderRegisters OverdraftBounded
PROPERTY ImplementsGate
CHECK_DEADLOCK FALSE
