SPECIFICATION Spec
CONSTANTS
  Block <- OneBlock
  Start = "pre"
  Scop <- OneScop
  EntryOf <- OneEntryOf
  ExitOf <- OneExitOf
  BlocksOf <- OneBlocksOf
  DefinedIn <- LoadedDefinedIn
  Argument = "arg"
  Graphs <- StraightGraphs
INVARIANT ParametersComputed
CHECK_DEADLOCK FALSE
