SPECIFICATION UseSpec
CONSTANTS
  Scops <- MCScops
  IntMax = 7
  Holder = {"result", "scop", "other"}
  Context = {"this", "earlier"}
  ThisCall = "this"
  EarlierCall = "earlier"
  None = None
  NoScop = NoScop
INVARIANTS
  TypeOK
  RoundTrip
  DamageIsReported
  NothingLeft
  ScopIsWhole
  FreedWithScop
CHECK_DEADLOCK FALSE
