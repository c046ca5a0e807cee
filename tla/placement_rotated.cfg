SPECIFICATION Spec
CONSTANTS
  Block <- OneBlock
  Start = "pre"
  Scop <- OneScop
  EntryOf <- OneEntryOf
  ExitOf <- OneExitOf
  BlocksOf <- OneBlocksOf
  DefinedIn <- OneDefinedIn
  Argument = "arg"
  Graphs <- RotatedGraphs
INVARIANT Alternate
CHECK_DEADLOCK FALSE
