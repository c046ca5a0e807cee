------------------------- MODULE ScopInstrumentation -------------------------
(***************************************************************************)
(* Where the plugin puts the calls of start_scop and stop_scop             *)
(* (lib/ScopProfiling.cpp, lib/ProfilingCodegen.cpp), and which calls a run *)
(* of the instrumented function then makes.                                *)
(*                                                                         *)
(* A function is a graph of basic blocks.  A SCoP is a region of it: a set *)
(* of blocks entered only through its entry and left only for its exit,    *)
(* which is not one of them.  The pass sees the SCoPs of the function one  *)
(* after another, in an order that is LLVM's.  A run walks the graph; in   *)
(* each block it makes the calls at the front, then does the rest of the   *)
(* block, then branches.                                                   *)
(***************************************************************************)
EXTENDS Naturals, Integers, Sequences

CONSTANTS
  Block,
  Start,       \* the entry block of the function
  Scop,
  EntryOf,     \* [Scop -> Block], S.getEntry()
  ExitOf,      \* [Scop -> Block], S.getExit()
  BlocksOf,    \* [Scop -> SUBSET Block], the blocks of the region
  DefinedIn,   \* [Scop -> the block that computes its parameters, or Argument]
  Argument,    \* parameters that are arguments of the function
  Graphs       \* the functions considered: [Block -> SUBSET Block], successors

Predecessors(g, b) == {a \in Block : b \in g[a]}

EnteringBlocks(g, s) == Predecessors(g, EntryOf[s]) \ BlocksOf[s]
ExitingBlocks(g, s) == Predecessors(g, ExitOf[s]) \cap BlocksOf[s]

IsRegion(g, s) ==
  /\ EntryOf[s] \in BlocksOf[s]
  /\ ExitOf[s] \notin BlocksOf[s]
  /\ Start \notin BlocksOf[s]      \* Polly's code preparation splits the entry
  /\ \A b \in BlocksOf[s] : g[b] \subseteq BlocksOf[s] \cup {ExitOf[s]}
  /\ \A b \in Block \ BlocksOf[s] : g[b] \cap BlocksOf[s] \subseteq {EntryOf[s]}

ASSUME InstrumentationAssumption ==
  /\ Start \in Block
  /\ EntryOf \in [Scop -> Block] /\ ExitOf \in [Scop -> Block]
  /\ BlocksOf \in [Scop -> SUBSET Block]
  /\ Argument \notin Block
  /\ DefinedIn \in [Scop -> Block \cup {Argument}]
  /\ Graphs \subseteq [Block -> SUBSET Block]
  /\ \A g \in Graphs, s \in Scop : IsRegion(g, s)

VARIABLES
  succ,        \* the function: the successors of each block
  code,        \* [Block -> the calls at its front, in order]
  todo,        \* the SCoPs the pass has not seen yet
  at,          \* the block a run is in
  pc,          \* the position in that block's calls, one past them in the rest
  balance,     \* [Scop -> starts minus stops so far]
  known        \* the places of definition in DefinedIn that the run has passed

vars == <<succ, code, todo, at, pc, balance, known>>

-----------------------------------------------------------------------------
(* The pass. *)

\* The entering block, or the entry if there is no single one.
ScopEntry(g, s) ==
  IF \E b \in Block : EnteringBlocks(g, s) = {b}
  THEN CHOOSE b \in Block : EnteringBlocks(g, s) = {b}
  ELSE EntryOf[s]

\* The exiting block, or the exit if there is no single one.
ScopExit(g, s) ==
  IF \E b \in Block : ExitingBlocks(g, s) = {b}
  THEN CHOOSE b \in Block : ExitingBlocks(g, s) = {b}
  ELSE ExitOf[s]

\* SetInsertPoint(block.getFirstInsertionPt()): before everything in the block.
Prepend(c, b, call) == [c EXCEPT ![b] = <<call>> \o @]

\* Wrong: the call goes to another function of the library.
createStartProfilingCallMisnamed(c, s) ==
  Prepend(c, ScopEntry(succ, s), <<"init_profiling", s>>)

\* Wrong: always into the entry, also when it heads a loop.
createStartProfilingCallAtEntry(c, s) ==
  Prepend(c, EntryOf[s], <<"start_scop", s>>)

createStartProfilingCall(c, s) ==
  Prepend(c, ScopEntry(succ, s), <<"start_scop", s>>)

\* Wrong: always into the exit, also when it can be reached otherwise.
createStopProfilingCallAtExit(c, s) ==
  Prepend(c, ExitOf[s], <<"stop_scop", s>>)

\* Wrong: left out when there is a single exiting block.
createStopProfilingCallOmitted(c, s) ==
  IF ScopExit(succ, s) = ExitOf[s]
  THEN Prepend(c, ExitOf[s], <<"stop_scop", s>>)
  ELSE c

createStopProfilingCall(c, s) ==
  Prepend(c, ScopExit(succ, s), <<"stop_scop", s>>)

runOnScop(s) ==
  /\ s \in todo
  /\ code' = createStopProfilingCall(createStartProfilingCall(code, s), s)
  /\ todo' = todo \ {s}
  /\ UNCHANGED <<succ, at, pc, balance, known>>

-----------------------------------------------------------------------------
(* A run of the function. *)

Compiled == todo = {}
AtCall == Compiled /\ pc <= Len(code[at])
InBody == Compiled /\ pc = Len(code[at]) + 1

Call ==
  /\ AtCall
  /\ LET s == code[at][pc][2]
         d == IF code[at][pc][1] = "start_scop" THEN 1 ELSE -1
     IN  balance' = [balance EXCEPT ![s] = @ + d]
  /\ pc' = pc + 1
  /\ UNCHANGED <<succ, code, todo, at, known>>

Branch ==
  /\ InBody
  /\ at' \in succ[at]
  /\ pc' = 1
  /\ known' = known \cup ({at} \cap {DefinedIn[s] : s \in Scop})
  /\ UNCHANGED <<succ, code, todo, balance>>

Init ==
  /\ succ \in Graphs
  /\ code = [b \in Block |-> <<>>]
  /\ todo = Scop
  /\ at = Start
  /\ pc = 1
  /\ balance = [s \in Scop |-> 0]
  /\ known = {Argument}

Next ==
  \/ \E s \in Scop : runOnScop(s)
  \/ Call
  \/ Branch

Spec == Init /\ [][Next]_vars

-----------------------------------------------------------------------------
(* The functions the placement is right for. *)

\* Control passes the place of the start call exactly when it enters the SCoP.
StartsOnEntry(g, s) ==
  LET E == ScopEntry(g, s)
  IN  IF E = EntryOf[s]
      THEN Predecessors(g, E) \cap BlocksOf[s] = {}   \* not a loop header
      ELSE g[E] = {EntryOf[s]}                        \* not a guard

\* Control passes the place of the stop call exactly when it leaves the SCoP.
StopsOnExit(g, s) ==
  LET X == ScopExit(g, s)
  IN  IF X = ExitOf[s]
      THEN X # Start /\ Predecessors(g, X) \subseteq BlocksOf[s]
      ELSE g[X] = {ExitOf[s]}                         \* not a loop latch

\* No two calls meet in one block, and none is in the region of another SCoP.
Apart(g) ==
  \A s, t \in Scop :
    /\ ScopEntry(g, s) # ScopExit(g, t)
    /\ s # t => /\ ScopEntry(g, s) # ScopEntry(g, t)
                /\ ScopExit(g, s) # ScopExit(g, t)
                /\ {ScopEntry(g, s), ScopExit(g, s)} \cap BlocksOf[t] = {}
                /\ BlocksOf[s] \cap BlocksOf[t] = {}

Straight(g) ==
  Apart(g) /\ \A s \in Scop : StartsOnEntry(g, s) /\ StopsOnExit(g, s)

-----------------------------------------------------------------------------
(* Properties. *)

\* The types of the variables.
TypeOK ==
  /\ succ \in [Block -> SUBSET Block]
  /\ code \in [Block -> Seq({"start_scop", "stop_scop"} \X Scop)]
  /\ todo \in SUBSET Scop
  /\ at \in Block
  /\ pc \in 1 .. Len(code[at]) + 1
  /\ balance \in [Scop -> Int]
  /\ known \in SUBSET (Block \cup {Argument})

\* The starts and stops of a SCoP alternate, beginning with a start: what
\* the vectors of class Statistics and its assertion rely on.
Alternate == \A s \in Scop : balance[s] \in {0, 1}

\* A SCoP's timers run while control is in the SCoP, up to the block that
\* leaves it, and never elsewhere except in the block that leads into it.
TimersFollowControl ==
  InBody => \A s \in Scop :
    /\ at \in BlocksOf[s] \ {ScopExit(succ, s)} => balance[s] = 1
    /\ at \notin BlocksOf[s] \cup {ScopEntry(succ, s)} => balance[s] = 0

\* No two SCoPs of a function are timed at once, whatever the order in which
\* the pass saw them: class Statistics has one slot for the last timepoints.
OneAtATime ==
  \A s, t \in Scop : balance[s] = 1 /\ balance[t] = 1 => s = t

\* The calls a run makes are those that class Statistics assumes.
Calls == INSTANCE ScopCalls

CallsAsAssumed == Calls!Spec

\* The parameter values that start_scop is called with have been computed.
ParametersComputed ==
  AtCall /\ code[at][pc][1] = "start_scop" => DefinedIn[code[at][pc][2]] \in known
=============================================================================
