SPECIFICATION Spec
CONSTANTS
  Scop <- PairScop
  FunctionOf <- PairFunctionOf
  ScopNameOf <- PairScopNameOf
  NamesOf <- PairNamesOf
  ValuesOf <- PairValuesOf
  TscModulus = 7
  TscOrigin = 5
  NsecPerSec = 3
  Event = {"TOT_CYC"}
  MaxDepth = 3
  MaxNow = 5
  MaxRuns = 2
INVARIANTS
  CountsAgree
  NestInv
PROPERTY StopNeverOvermeasures
CHECK_DEADLOCK FALSE
