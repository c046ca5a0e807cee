SPECIFICATION ProcessSpec
CONSTANTS
  Scop <- MCScop
  FunctionOf <- MCFunctionOf
  ScopNameOf <- MCScopNameOf
  NamesOf <- MCNamesOf
  ValuesOf <- MCValuesOf
  TscModulus = 7
  TscOrigin = 5
  NsecPerSec = 3
  Event = {"TOT_CYC"}
  MaxDepth = 1
  MaxNow = 2
  MaxRuns = 2
  NumImages = 1
  ImageOf <- OneExecutable
  Configs <- GoodConfigs
  CacheSizes <- MCCacheSizes
  DoublesPerTick = 2
  KB = 4
  Double = 2
  IntModulus = 16
  SizeModulus = 64
  PapiReadMayFail = TRUE
  AssertsEnabled = TRUE
INVARIANT AssertionHolds
