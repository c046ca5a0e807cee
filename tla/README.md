# A formal model of pollyML

pollyML instruments the SCoPs (static control parts, loop nests that Polly can
analyse) of a program, measures each of their executions, and exports their
polyhedral description for an optimizer.  This directory holds TLA+ modules of
its core, TLC configurations that check them on small instances, and theorems
that TLAPS proves for every value of the constants.

    tlc -workers 2 -config stats_flat.cfg MCStatistics.tla
    tlapm StatisticsProofs.tla

## 1. The system

| component | source | state it keeps | operations |
|---|---|---|---|
| class Statistics | `profiler/include/scop_profiler/Statistics.h` | one tuple of last timepoints; per region a vector of parameters and a vector of durations | `startProfiling`, `stopProfiling`, `serializeToJson` |
| timers | `profiler/.../Timers.h`, `Timers.cpp` | none (PAPI: an event set) | `now`, `operator-`, `to_json` of RDTSC, Clock, PAPI |
| profiling runtime | `profiler/lib/profiling.cpp`, `Papi.cpp` | one `unique_ptr<ProfilingContext>`; `flush_cache` | `init_profiling`, `start_scop`, `stop_scop`, `finish_profiling`, the context's constructor and destructor, `init_papi` |
| cache flush | `profiler/lib/Utils.cpp` | none | `flush_cache` |
| SCoP instrumentation | `lib/ScopProfiling.cpp`, `lib/ProfilingCodegen.cpp` | the module being compiled; `scopCount` | `runOnScop`, `createStartProfilingCall`, `createStopProfilingCall` |
| initialiser pass | `lib/ProfilingInitializer.cpp`, `lib/ProfilingCodegen.cpp` | static `initialized_profiler` | `runOnModule`: constructor, destructor, declarations |
| pipeline | `lib/RegisterPasses.cpp` | options | `registerPollyMLPasses` |
| exporter | `lib/JsonExporter.cpp` | files in the export directory | `runOnScop`, `exportScopson` |
| graph info | `lib/ScopGraphInfo.cpp` | a pointer to Polly's dependences while it prints | `runOnScop`, `printScop` |
| optimizer import | `optimizer/lib/exchange/json_exchange.cpp` | an isl context under construction | `from_scopson` |
| optimizer model | `optimizer/lib/scop.cpp`, `scop.hpp` | a `Scop` that owns its isl context | constructors, moves |
| registration, options, build | `lib/PollyML.cpp`, headers, CMake | none | - |

How they interact.  The compiler plugin runs the initialiser pass on a module,
which puts a call of `init_profiling` among its global constructors, a call of
`finish_profiling` among its destructors, and declares `start_scop` and
`stop_scop`.  Then, SCoP by SCoP, the exporter writes `function___scop.scopson`
and ScopProfiling puts a `start_scop` call before and a `stop_scop` call after
the SCoP.  The linked program calls into the shared profiling library: the
constructors create the context from a configuration file, the SCoPs report
their executions to the one Statistics object in it, and a destructor (or the
unloading of the library) writes the results.  The exported description and the
results meet under the same name, and the optimizer reads the description back.

What is hard about it:

- the start and the stop of an execution are two calls, placed by a compiler
  pass in blocks of a control-flow graph it does not shape; whether they
  alternate at run time depends on guards, loops and joins around the SCoP;
- the runtime pairs them by position, in vectors that are zipped at the end of
  the process, and through a single slot of last timepoints;
- the life of the context is driven by constructors and destructors of several
  images, and by `exit()`, which the library itself calls from constructors,
  from the middle of `start_scop` and `stop_scop`, and from a destructor that
  `exit()` is running;
- static state in the compiler (`initialized_profiler`) does not have the life
  of what it stands for (a program), and compilers run in parallel;
- differences of wrapping counters and of second/nanosecond pairs;
- results and descriptions are files that may fail to open or to be written.

What makes each part correct:

- Statistics: one row per finished execution, with its own parameters, under
  its own names, with exact times; vectors that match when it is serialised;
- timers: differences within their types and equal to the time elapsed;
- runtime: code finds a context; results written once, complete, and before the
  process ends with success;
- instrumentation: starts and stops of a SCoP alternate, no two SCoPs are timed
  at once, the parameters passed have been computed;
- passes: every linkable program that times SCoPs sets the library up, times
  each SCoP once and has its description;
- export and import: what is exported can be imported, and means the same.

## 2. The modules

| module | models |
|---|---|
| `ScopNames` | region names and parameter vectors, as `runOnScop` computes them |
| `Timers` | the three timers as operators on a tick count |
| `ExecutionLog` | abstract: what the profiler promises |
| `ResultsFile` | abstract: what the library promises a process; extends `ExecutionLog` |
| `Statistics` | the class and a program that calls it; instantiates `ExecutionLog` |
| `ProfilerRuntime` | the library in a process; extends `Statistics`, instantiates `ResultsFile` |
| `ScopInstrumentation` | where the calls go in a control-flow graph, and a run of it |
| `ProfilingPasses` | concurrent compiler processes, their modules and files |
| `ScopCalls` | abstract: the calls that class Statistics assumes |
| `CacheFlush` | the size of a cache flush, in the widths of C++ |
| `ScopsonExchange` | what the exporter writes, and `from_scopson` reading it |
| `ScopOwnership` | who owns the isl context of a Scop that is moved about |
| `ScopUse` | `from_scopson` and its caller: composes the two modules above |
| `StatisticsProofs`, `RuntimeProofs`, `ResultsProofs`, `InstrumentationProofs`, `PassesProofs`, `ExchangeProofs` | theorems |
| `MCStatistics`, `MCRuntime`, `MCInstrumentation`, `MCPasses`, `MCExchange` | constants for TLC |

`ProfilerRuntime` composes with `Statistics` by using its operations
`startProfiling`, `stopProfiling` and `serializeToJson` and its variables.
`ScopInstrumentation` justifies what `Statistics` assumes of its caller: that
assumption is a specification of its own, `ScopCalls` (a start of a SCoP when
none is under way, then the stop of the same SCoP), and a run of an instrumented
function implements it (`CallsAsAssumed`).  `ProfilingPasses` justifies what
`ProfilerRuntime` assumes of an image (a constructor and a destructor in every
image that times SCoPs).

Each module with definitions named `...Without...`, `...Wrong...` or otherwise
commented "Wrong:" keeps them as test material: replacing the definition next
to them by the wrong one must make a property fail, which shows that the
property can fail at all.  No specification uses them.

### Statistics

`now` is the time in ticks; `open` is the stack of executions under way, which
the code does not keep.  `last_times`, `parameters` and `durations` are the
members of the class.  `startProfiling` and `stopProfiling` are operators on
them; `Start` and `Stop` are the inserted calls.  A region is a pair of function
and SCoP name, the concatenation `function___scop` in the code.  A StringMap
with no entry is an empty sequence; the loop of `serializeToJson` visits only
regions with a duration (`Finished`).  `last_times` starts with any earlier
timepoint, being uninitialised.

`MaxDepth` is the assumption of the class: 1 for "SCoPs cannot contain calls to
functions with other SCoPs" (`Statistics.h:44`).  With a larger depth the module
shows what remains when a SCoP does call a function that contains one.

### Timers

RDTSC is a counter modulo `TscModulus`, with any origin.  The clock counts
nanoseconds in a pair, with `NsecPerSec` for 10^9.  Every PAPI event counts one
per tick: the code treats events alike, and a model in which they differ only
renames them.  All three are read at one tick; in the code they are read one
after another, so that a duration is exact up to the cost of the timers, which
the EMPTY region exists to measure.

### ProfilerRuntime

`phase` is where the process is: `init` (an image calls `init_profiling`),
`ctors` (its other constructors), `main`, `dtors`, `fini` (an image calls
`finish_profiling`), `unload` (the library's own static `ctx` is destroyed), and
the three ends `dead`, `aborted`, `crashed`.  Images are initialised in order
and finalised in reverse; the calls have priority 0, so they enclose the image's
other constructors and destructors.  `exit` is the C runtime's: it goes on with
the handlers that have not run, from wherever it is called.  A configuration
file is one of the cases the constructor tells apart (`ConfigFile`).  `saved`
is what was handed to the output stream, whose state the code does not look at
afterwards; `executed` is a history variable for the properties.

The constructor, init_papi and the five runs of the EMPTY region are one action:
nothing else of the process runs meanwhile.  `exit(1)` from the middle of a
timer reading is an action of its own (`StartFails`, `StopFails`) that leaves
the vectors as they are at that moment.

`ResultsFile` is what all this is for: a log is opened once, executions enter it
while it is open, and it is closed either into the one results file, whole, or
into a failure of the process that its caller can see.  The process is mapped
to it as follows.  The log is open while there is a context (`LogStage`), its
rows are those `executed`, the executions under way are those on the stack
(`UnderWay`), the files are the rows of `saved` without the EMPTY region
(`Written`), and the process has failed when its status is 1 or it is aborted or
crashed (`Failed`).  Creating the context is `Open`, a start `BeginLater`
(because of the flush), a stop `Finish`, a `PAPI_read` that fails in a stop
`Abandon`, the destructor of the context `Publish` or `Lose`; an exit in which
nothing is written is `Lose` or `Fail`; the rest of the process is not seen
there.

A start first flushes the cache, if it is configured to (`Flushes`): `CacheFlush`
computes how many doubles are read, from an int product that may overflow (it
wraps around, or is computed wider: both are allowed), a quotient of `size_t`
and a conversion back to int.  So many doubles take their time (`Later`), before
the timers are read; a negative number makes the array allocation throw through
code that has no handler (`StartThrows`).  `FlushIsWhole` says for which sizes
none of this goes wrong.

### ScopInstrumentation

A function is a set of blocks with successors.  `ScopEntry` and `ScopExit` are
the choices of `runOnScop`: the entering block, or the entry if there is not
exactly one; the exiting block, or the exit.  `Prepend` is the insertion at
`getFirstInsertionPt()`.  A run executes the calls in front of a block, then its
body, then branches; `balance` counts starts minus stops per SCoP.

The placement is right for some shapes only, and `Straight` says for which: the
entering block leads only into the SCoP, or the entry is no loop header; the
exiting block leads only out, or the exit is reached only from the SCoP; calls of
different SCoPs do not meet in a block.  The runs check that for such functions
everything `Statistics` assumes holds, and one shape outside shows what happens
otherwise.  A consequence of inserting at the front is part of
`TimersFollowControl`: the body of the entering block is measured, the body of
the exiting block is not.

### ProfilingPasses

Each compiler process has its own `initialized_profiler` and `scopCount`, and
takes its modules one after another, in any order.  `runOnModule` is the module
pass of a pipeline that exists only with `-pollyML-profiler`.  Export of a SCoP
has a step that opens and truncates the file and one that writes and keeps, or
drops, it, so that other compilers may run between them.  SCoPs may have one
file name, within a process or in two; `OpenOthers` are the processes that
have the file open at once.  `NoHalfFiles` is about what is left then.  `runOnScop` inserts
both calls, or ends the process when the functions are not declared: with
assertions by the assertion, without them by the null callee.  `scopCount` starts
at 0 in every module: `doFinalization` resets it, and a driver makes the passes
anew for each module, so it does even where LLVM's manager of region passes does
not hand `doFinalization` on.

### ScopsonExchange

A JSON object is a function on the names of its fields, and the text of an isl
object the tuple of the names in it.  `getJson` and its helpers write the file of
a SCoP; `Damaged` is what may have happened to it since.  `Parse` is one of the
five parts of `from_scopson`, which read `name`, `context`, `arrays`,
`statements` and `dependences` in this order; the operators `...End` tell how such
a part ends, `PartValue` what it contributes.  `locals` are the objects in the
function's frame, which `DestroyLocal` takes down from the last, at whatever
return: isl refuses to free a context that an object still refers to
(`FreeContext`).

The constructor of class Statement compares the statements that its domain,
schedule and accesses speak of in assertions (`scop.cpp:101`); `assertions` is
whether the build has them: the run and the theorems cover both builds.  A size is
the text that `std::stoi` gets: a number, an expression in parameters, or, in a
damaged file, a text that does not begin with a number (`NoNumber`).  `std::stoi`
reads the number that a text begins with, so a number with garbage behind it is
that number and no damage of the model.

`RoundTrip` compares what was imported with `Meaning`, the SCoP read without a
file between.  Two losses go unnoticed, and the property says for each what is
imported instead: an array without `sizes` becomes a scalar (`Flattened`); and in a
build without assertions the text of another statement stays in the domain, the
schedule or the access where it was put (`Misattributed`).  `DamageIsReported` says
how the import of a damaged file ends: with a message, but for three damages.
Lost `sizes` are not noticed (`json_exchange.cpp:41`); a size that is no number
makes `std::stoi` throw (`json_exchange.cpp:46`), through a function that reports
all else by value; and text of another statement fails an assertion, or is
imported where there are none.

### ScopOwnership and ScopUse

A Scop is a record of the contexts its members own or refer to: `isl_ctxt` is the
`unique_ptr`, `context`, `lists` and `deps` hold isl objects.  The moves of class
Scop are defaulted, so they go member by member; `unique_ptr` and vectors hand
over what they have, but the C++ classes of isl copy, and a Scop that was moved
from still refers to the context (`MovedFrom`).  `isl_ctx_free` refuses while
anything refers to the context; the deleter has given its pointer up by then, and
the context is lost.  The members of a Scop are destroyed from the last, so
`Destroy` is safe unless another variable has been moved out of; `MoveAssign`
frees the old context first, and loses it always.  `careless` records when
either happened, and `FreedWithScop` says that nothing else loses a context.

In `ScopUse` the Scop that `from_scopson` returns, once its frame is left with the
context handed over, arrives in a variable of the caller, and so may one of an
earlier call; the variables are then moved and destroyed in any order.

## 3. The runs

| run | instance | checks |
|---|---|---|
| `stats_flat` | 3 SCoPs, two in one region, depth 1, 4 ticks, 2 executions per region | `TypeOK`, `FlatInv`, `ImplementsLog` |
| `stats_nested` | 2 SCoPs, depth 3 (recursion included), 5 ticks | `CountsAgree`, `NestInv`, `StopNeverOvermeasures` |
| `runtime` | a library and an executable, all 144 configuration files with five sizes of caches, PAPI failures, assertions on | `ProcessTypeOK`, `ContextLive`, `SavedOnce`, `SavedIsComplete`, `SuccessMeansSaved`, `ContextInv`, `FlushIsWhole`, `ExitSaves`, `ImplementsResults` |
| `placement` | 110 functions of 7 blocks with 2 SCoPs | `TypeOK`, `Alternate`, `TimersFollowControl`, `OneAtATime`, `CallsAsAssumed` |
| `passes_parallel` | 3 compilers, 5 modules, 6 SCoPs | `TypeOK`, `ProfilerIsSetUp`, `EachScopOnce`, `TimedIsDescribed`, `NoHalfFiles` |
| `exchange` | 5 SCoPs, each as written and with 34 damages; 3 variables, 2 contexts; builds with and without assertions | `TypeOK`, `RoundTrip`, `DamageIsReported`, `NothingLeft`, `ScopIsWhole`, `FreedWithScop` |

Why the bounds suffice.  The counter has 7 values and starts at 5 and a second
has 3 nanoseconds, so that within 4 ticks executions cross a wrap-around and a
second boundary, and both at once.  Two executions per region are needed for a row to
be paired with the parameters of another, and two SCoPs in a region for names to
be mixed.  Depth 3 has an execution with both an outer and an inner one.  Two
images are the least for which init and finish calls meet a context that is not
theirs; a third repeats the middle one, and the theorems cover any number.  The
functions of `placement` have every way into and out of a SCoP: single entering
block, several, guard; single exiting block, several; loops through the entry,
around the SCoP and around both.  In `passes_parallel` one process has three modules, one of
them without SCoPs, which is enough for the static flag to be met set, and file
names are shared within a process and between two.
In `exchange` every field of every kind of object is missing once; what the
importer does to an object does not depend on its neighbours, except that the
first that fails ends the loop, for which two arrays and two statements are
enough.  `IntMax` is 7 and a size of 9 lies beyond it.  Three variables let a Scop
be moved out of one, into another, and over a third.  An int of `CacheFlush` has 4
bits and a KB 4 bytes, so that of the sizes -1, 0, 1, 2 and 4 the last two overflow,
one to a negative number and one to zero.
`MaxNow`, `MaxRuns` and `MaxDepth` appear in guards of the caller only, never of
the code.

Deadlock is checked in the runs of `ProfilerRuntime`, whose `Terminated` is the end of the process.  The
others stop when their bounds are reached or the function returns, hence
`CHECK_DEADLOCK FALSE`.

Fairness (`ProcessFairSpec`): weak fairness of the library's calls, of `StopScop`
and of `Advance`, that is, SCoPs terminate (they are loops with static control)
and constructors and destructors return.  There is none on `Exit`: a program may run
forever, and `ExitSaves` promises results only once it exits.

### Disagreements found

Each of these runs ends with a counterexample to something the repository says.
The last column says when the statement does hold: under that assumption a theorem
of section 4 proves it, for every value of the constants.

| run | what happens | what it contradicts | holds if |
|---|---|---|---|
| `runtime_library_exit` | a SCoP in a library's destructor runs after the executable's `finish_profiling`: null context | `profiler/lib/profiling.cpp:11` | only the executable has SCoPs (`NeverCrashesInExecutable`) |
| `runtime_papi_error` | `PAPI_read` fails inside `stop_scop`; `exit(1)` serialises an open execution | the assertion of `Statistics.h:120` | `PAPI_read` does not fail (`AssertionAlwaysHolds`) |
| `placement_rotated` | in a rotated loop the exiting block is the latch: a stop per iteration | the assertion of `Statistics.h:120` | all SCoPs are `Straight` (`AlternateCorrect`) |
| `placement_parameters` | a parameter loaded in the entering block is stored before the load | `profiler/lib/profiling.cpp:118` | parameters come from blocks before that one (`ParametersCorrect`) |
| `passes_one_process` | the second module of a process lacks the declarations | the assertion of `lib/ProfilingCodegen.cpp:169` | a process compiles one module (`DeclaredCorrect`) |
| `exchange_exported` | parametric or large array sizes make `std::stoi` throw; `i32` and `i64` are unknown types | `optimizer/unittests/exchange/test_json_exchange.cpp:31` | all SCoPs are `Importable` (`ImportsCorrect`), and only then (`ImportableIsExact`) |

## 4. What is proved

For all SCoPs, names, parameter values, counter widths, bounds and images:

- `TypeCorrect`: `TypeOK`.  Uses `TimersAssumption` and `StatisticsAssumption`.
- `FlatCorrect`: `FlatInv`, assuming `MaxDepth = 1` and `NamesIdentify` (SCoPs
  of one region have one list of parameter names).
- `Implementation`: `Statistics` implements `ExecutionLog` under the same two
  assumptions: `Init` maps to `Init`, `Start` to `Begin`, `Stop` to `End`, `Tick`
  to `Tick`.
- `CountsCorrect`, `NestCorrect`, `OvermeasureCorrect`: what holds at any depth.
- `LifeCorrect` and from it `ContextAlwaysLive`, `SavedAtMostOnce`,
  `SuccessIsSaved`, `ContextCorrect`; `ProcessTypeCorrect`; and `FlushCorrect`,
  for any number of images, any configurations and any widths of the integers.
- `SavedCorrect`: `SavedIsComplete`, assuming `MaxDepth = 1`, `NamesIdentify`, and
  that assertions are on or `PAPI_read` does not fail; its inductive invariant is
  `SavedInvCorrect`.
- `ResultsImplementation`: `ProfilerRuntime` implements `ResultsFile`, under the
  assumptions of `SavedCorrect`, for any number of images; it also uses
  `StatusCorrect`, that the status is 0 until the process exits.
- `AssertionAlwaysHolds`: the assertion of `serializeToJson`, assuming that
  `PAPI_read` does not fail, at any depth of nesting.
- `NeverCrashesInExecutable`: `NeverCrashes`, assuming that only the executable has
  SCoPs and, if it is the only image, that the library does not exit over its
  configuration (its destructors would then run without a context).
- `AlternateCorrect`, `TimersCorrect`, `OneAtATimeCorrect`, `TypeCorrect` and
  `ImplementsCalls` of the placement, for any functions, of any size and with any
  number of SCoPs, all of whose SCoPs are `Straight`.
- `ParametersCorrect`: `ParametersComputed`, for any functions, of whatever shape,
  in which a parameter is an argument or computed in a block that strictly
  dominates the SCoP's entry and is not the one the start call is put in
  (`DefinedAhead`).
- `SetUpCorrect`, `DescribedCorrect`, `FilesCorrect` and `TypeCorrect` of the
  passes, for any processes, modules, SCoPs and file names; `OnceCorrect`, that is
  `EachScopOnce`, if a module has finitely many SCoPs under different names.
- `FlagCorrect`: of the modules that a process compiles, the first has the
  declarations and no other; hence `DeclaredCorrect`, that is `FunctionsDeclared`,
  and `NoneAborts`, that no compiler aborts, if every process compiles one module.
- `WholeCorrect` and `FreedCorrect`, for any variables; `NothingLeftCorrect`,
  `RoundTripCorrect`, `DamageCorrect` and `TypeCorrect` of the exchange, for any
  SCoP that Polly may hand over (`ScopAssumption`), each of the damages, and builds
  with and without assertions.  What they promise of damaged files has the
  exceptions of section 2: lost sizes, sizes that are no number, and text of
  another statement.
- `ImportableIsExact`: an undamaged file is imported if and only if its SCoP is
  `Importable`; `ImportsCorrect`, that is `ImportsExported`, if all are.

The argument for `Statistics`.  `FlatInv` is inductive as it stands, given the
types: at most one execution is open (`OneAtATime`), its region alone has one
parameter vector more than durations (`OneStartAhead`), and the slot and the
last vector are its own (`SlotIsOwn`); `NamesOfRegion` adds that names agree
along a region.  Then `Stop` appends a row that pairs the last duration with the
last parameters, and `ElapsedExact` makes its times exact: `RDTSCExact` is
modular arithmetic, using that an execution is shorter than the counter's
period (`MaxNow < TscModulus`: 2^64 cycles outlive the process), and
`ClockExact` is division with remainder plus the borrow.  With nesting the slot
is no longer the execution's own; `NestInv` keeps that it was filled not before
the innermost execution began, which bounds what is recorded.

The argument for the runtime.  None of `ContextLive`, `SavedOnce`,
`SuccessMeansSaved` is inductive: each needs to know where the results are.
`ContextInv` says that: later images find a context, nothing is saved while
there is one or before the process exits, and with status 0 the results are
in the context or in the file.  `exit` from every place preserves it
(`ExitKeepsLifeInv`), which uses that the code passes 1 wherever results
may not exist yet.

No instrumented code crashes (`CrashFree`) as long as it runs in the executable,
because the executable is finalised first: its destructors are the only ones that
run before any `finish_profiling`.

The argument for complete results.  The statistics of a process need not stay
matched: `StopFails` leaves a start without its stop.  `SavedInv` therefore says,
region by region, that either its rows so far are those of the finished
executions, its last start being the open one's (matched), or it has a start in
excess, left behind by an exit (spoiled).  SCoPs may go on running in
destructors, and add to a spoiled region as well, but its vectors stay of
different length: with assertions `serializeToJson` does not get past it, unless
it has no duration at all, and then it has no row to report either.
`CountedIsExact` is why the numbers of starts and stops tell which.  If
`PAPI_read` does not fail, nothing is ever spoiled: `CountsAgree` is an invariant
of the process, whatever the nesting, and nothing is open at a point where the
context may be destroyed (`Settled`).

The argument for the refinement.  One lemma per action of the process says which
step of `ResultsFile` it is, by the mapping of section 2.  `LifeInv` tells where the log is
(a second image finds it open, a second destructor finds it closed), `SavedInv`
that `Publish` hands over the whole log with nothing under way, and `StatusInv`
that a program which exits by itself has not failed before, so that its exit is a
stutter.  That `Publish` is of the whole log rests on `SavedInv` of the next state
too: what was written are the rows of what was executed.

The argument for the placement.  `Alternate` is not inductive: it speaks of the
balance alone.  The invariant ties it to control: for each SCoP, the timers run
exactly from the place of its start call to that of its stop call, and `Straight`
makes every edge of the graph respect these places.  That starts come before
stops within a block is a property of the order in which the pass prepends them.
Parameters need no shape.  `KnownInv` says, for every set of blocks that holds the
function's entry, not the definition, and is left only through the definition, that a run is still in it or
at the definition, or knows the value; the start call stands outside the
set of blocks that the definition does not dominate, which is such a set.

The argument for the passes.  The invariant says, for each module of each
process, what its objects declare and call as a function of how far it is, and
for each SCoP where it is on its way from file to calls; a file that is open is
held open by a process that is at its export, so a truncated one has someone
who will write or remove it.  `CountInv` adds the numbers: a process is at one
module at a time, its counter is how many of that module's SCoPs are done, and is
0 between modules, which is what resetting it at the end of a module is for.
`FlagInv` is about the flag that is never reset: it is set from the first module
on, that one has the declarations, and all others of the process do without.

The argument for the exchange.  `FrameInv` keeps the context at the bottom of the
frame, whence `NothingLeft`; `ReadInv` says that what has been read is
`PartValue` of the file and that all of its parts passed.  That a damaged file
does not pass (`DamageNoticed`), unless it has lost sizes or has text of another
statement that nothing asserts against, and how it ends (`DamagedEnds`, `Fault`), is
by cases of the damage; a loop ends as its first bad element (`LoopEnds`), which is
the one that was damaged.  `ExportedMeaning` then is the round trip: the importer's
operators undo the exporter's; `FlattenedMeaning` and `MisattributedMeaning` are
what it is for the two damages that pass.  `OwnInv` of ownership is the conjunction of the
two properties and the types: a context that is live has one owner, whose
objects are in it.

Only model-checked: `ExitSaves`, being liveness.

## 5. Not modelled, and what comes next

Not modelled: debug output and `printScop`; `BoostUserTimer`, which no program
instantiates; threads (the class documents a single-threaded environment);
`dlopen`/`dlclose`; LLVM's and Polly's own passes, options and registration; the
build files; the stream operators of the optimizer, and `is_array`, which nothing
calls and which answers whether a MemRef is a scalar.  `ScopGraphInfo` draws
dependences: its one pointer is set and read within one call, and what it points
to is kept alive by `addRequiredTransitive`.  Whether an optimising compiler keeps
the loop of `flush_cache`, whose sum nobody uses, is not a question of the source.  A file whose
values are of another JSON kind than the fields want ends in the json library
(`json_exchange.cpp:152`), not in an error; the damages modelled are missing,
unreadable and foreign values and words, and sizes that are no number.  Of the results file, what the disk takes of the text that is
written: the code checks only that the file opens (`profiling.cpp:157`).  Two
SCoPs of one region have the same parameter names in the runs and theorems
(`NamesIdentify`); static functions of one name in two files could break that, and
`serializeToJson` would then publish rows under the names of the first
(`Statistics.h:126`).

What could be added is threads: `start_scop` and `stop_scop` take no lock, so that
two threads in SCoPs share the slot and the vectors, which the class excludes.
