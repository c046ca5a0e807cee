SPECIFICATION Spec
CONSTANTS
  Module <- FiveModules
  Process <- MCProcess
  CompiledBy <- Together
  PollyMLProfiler <- SomeProfiled
  Scop <- MCScop
  ModuleOf <- MCModuleOf
  Name <- MCName
  NameOf <- MCNameOf
INVARIANT FunctionsDeclared
CHECK_DEADLOCK FALSE
