SPECIFICATION Spec
CONSTANTS
  Scop <- TwinScop
  FunctionOf <- TwinFunctionOf
  ScopNameOf <- TwinScopNameOf
  NamesOf <- TwinNamesOf
  ValuesOf <- TwinValuesOf
  TscModulus = 7
  TscOrigin = 5
  NsecPerSec = 3
  Event = {"TOT_CYC"}
  MaxDepth = 1
  MaxNow = 4
  MaxRuns = 2
INVARIANTS
  TypeOK
  FlatInv
PROPERTY ImplementsLog
CHECK_DEADLOCK FALSE
