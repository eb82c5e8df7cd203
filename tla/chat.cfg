SPECIFICATION Spec
CONSTANTS
  me = me
  u = u
  ann = ann
  bob = bob
  cy = cy
  bad = bad
  NoNick = NoNick
  Sessions <- Two
  Nicks <- AllNames
  Invalid <- BadOnes
  Watched <- OnlyMe
  MaxAsks <- OneTwo
  Me = me
SYMMETRY Alike
CONSTRAINTS NoPanic NotGone
INVARIANTS TypeOK NicksUnique ServerSurvives LeaverIsKnown ListAgrees
CHECK_DEADLOCK FALSE
