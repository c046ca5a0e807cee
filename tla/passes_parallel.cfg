SPECIFICATION Spec
CONSTANTS
  Module <- FiveModules
  Process <- MCProcess
  CompiledBy <- Parallel
  PollyMLProfiler <- SomeProfiled
  Scop <- MCScop
  ModuleOf <- MCModuleOf
  Name <- MCName
  NameOf <- MCNameOf
INVARIANTS
  TypeOK
  ProfilerIsSetUp
  EachScopOnce
  TimedIsDescribed
  NoHalfFiles
CHECK_DEADLOCK FALSE
