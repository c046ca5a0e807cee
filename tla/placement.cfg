SPECIFICATION Spec
CONSTANTS
  Block <- TwoBlock
  Start = "pre"
  Scop <- TwoScop
  EntryOf <- TwoEntryOf
  ExitOf <- TwoExitOf
  BlocksOf <- TwoBlocksOf
  DefinedIn <- TwoDefinedIn
  Argument = "arg"
  Graphs <- TwoGraphs
INVARIANTS
  TypeOK
  Alternate
  TimersFollowControl
  OneAtATime
PROPERTY
  CallsAsAssumed
CHECK_DEADLOCK FALSE
