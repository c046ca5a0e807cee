SPECIFICATION UseSpec
CONSTANTS
  Scops <- MCScops
  IntMax = 7
  Holder = {"result"}
  Context = {"this", "earlier"}
  ThisCall = "this"
  EarlierCall = "earlier"
  None = None
  NoScop = NoScop
INVARIANT ImportsExported
CHECK_DEADLOCK FALSE
