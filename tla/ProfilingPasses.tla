--------------------------- MODULE ProfilingPasses ---------------------------
(***************************************************************************)
(* The plugin inside the compiler: what its passes leave in each module    *)
(* (lib/RegisterPasses.cpp, ProfilingInitializer.cpp, ProfilingCodegen.cpp, *)
(* ScopProfiling.cpp) and in the export directory (lib/JsonExporter.cpp).   *)
(*                                                                         *)
(* Compiler processes run at the same time and share the export directory. *)
(* A process compiles the modules it is given one after another; it runs   *)
(* the module pass first and then, SCoP by SCoP, the exporter and the      *)
(* profiler.  The static members of the passes live as long as the process. *)
(***************************************************************************)
EXTENDS Naturals, Sequences, FiniteSets

CONSTANTS
  Module,
  Process,
  CompiledBy,      \* [Module -> Process]
  PollyMLProfiler, \* the processes started with -pollyML-profiler
  Scop,
  ModuleOf,        \* [Scop -> Module]
  Name,
  NameOf           \* [Scop -> Name], function___scop, for the file and the calls

ASSUME PassesAssumption ==
  /\ CompiledBy \in [Module -> Process]
  /\ PollyMLProfiler \subseteq Process
  /\ ModuleOf \in [Scop -> Module]
  /\ NameOf \in [Scop -> Name]
  /\ {"missing", "empty", "mixed"} \cap Scop = {}

Missing == "missing"
Empty == "empty"           \* opened and truncated, not yet written
Mixed == "mixed"           \* written by two processes, one over the other
ScopFunctions == {"start_scop", "stop_scop"}

VARIABLES
  status,               \* [Process -> "running" / "aborted"]
  initialized_profiler, \* [Process -> BOOLEAN], a static member
  scopCount,            \* [Process -> Nat], a member of the process's pass
  stage,                \* [Module -> "source" / "scops" / "object"]
  left,                 \* [Module -> SUBSET Scop], not processed yet
  exporting,            \* [Process -> the SCoPs whose file it has open]
  exported,             \* SCoPs the exporter is done with
  lost,                 \* those of them it printed an error for
  unlinked,             \* those of the open files that another has removed
  files,                \* [Name -> Missing, Empty, Mixed or the SCoP described]
  ctors, dtors,         \* [Module -> Seq], llvm.global_ctors and global_dtors
  declared,             \* [Module -> SUBSET ScopFunctions]
  calls                 \* [Module -> the calls inserted, in order]

vars == <<status, initialized_profiler, scopCount, stage, left, exporting,
          exported, lost, unlinked, files, ctors, dtors, declared, calls>>

moduleVars == <<ctors, dtors, declared, initialized_profiler>>
exportVars == <<exporting, exported, lost, unlinked, files>>
profileVars == <<calls, scopCount, left, status>>

ScopsOf(m) == {s \in Scop : ModuleOf[s] = m}

Idle(p) ==
  /\ status[p] = "running"
  /\ \A m \in Module : CompiledBy[m] = p => stage[m] # "scops"

Compiling(p, m) ==
  /\ status[p] = "running"
  /\ CompiledBy[m] = p
  /\ stage[m] = "scops"

-----------------------------------------------------------------------------
(* ProfilingInitializer: the module pass. *)

createInitProfilingCall(m) ==
  ctors' = [ctors EXCEPT ![m] = Append(@, "init_profiling")]

\* Wrong: the destructors call the function of the constructors.
createFinishProfilingCallCopied(m) ==
  dtors' = [dtors EXCEPT ![m] = Append(@, "init_profiling")]

createFinishProfilingCall(m) ==
  dtors' = [dtors EXCEPT ![m] = Append(@, "finish_profiling")]

createStartAndStopProfilingDeclarations(m) ==
  declared' = [declared EXCEPT ![m] = @ \cup ScopFunctions]

Inject(p, m) ==
  /\ ~initialized_profiler[p]
  /\ createInitProfilingCall(m)
  /\ createFinishProfilingCall(m)
  /\ createStartAndStopProfilingDeclarations(m)
  /\ initialized_profiler' = [initialized_profiler EXCEPT ![p] = TRUE]

AlreadyInitialized(p) ==
  initialized_profiler[p] /\ UNCHANGED moduleVars

\* registerPollyMLPasses: without the flag no pass is added.
runOnModule(p, m) ==
  /\ Idle(p)
  /\ CompiledBy[m] = p
  /\ stage[m] = "source"
  /\ \/ /\ p \in PollyMLProfiler
        /\ Inject(p, m) \/ AlreadyInitialized(p)
        /\ stage' = [stage EXCEPT ![m] = "scops"]
     \/ /\ p \notin PollyMLProfiler
        /\ stage' = [stage EXCEPT ![m] = "object"]
        /\ UNCHANGED moduleVars
  /\ UNCHANGED <<exportVars, profileVars>>

-----------------------------------------------------------------------------
(* ScopJsonExporter: a file per SCoP, opened, then written and kept.  Two    *)
(* processes that export one name work on one file, or, when the first has  *)
(* removed it, the second on a file that no name leads to.                  *)

NextToExport(p, s) ==
  /\ Compiling(p, ModuleOf[s])
  /\ exporting[p] = {}
  /\ s \in left[ModuleOf[s]] \ exported
  /\ \A t \in left[ModuleOf[s]] : t \notin exported   \* SCoP after SCoP

OpenOthers(s) ==
  {t \in (UNION {exporting[q] : q \in Process}) \ {s} : NameOf[t] = NameOf[s]}

OpenScopson(p, s) ==
  /\ NextToExport(p, s)
  /\ exporting' = [exporting EXCEPT ![p] = {s}]
  /\ files' = [files EXCEPT ![NameOf[s]] = Empty]
  /\ UNCHANGED <<exported, lost, unlinked, stage, moduleVars, profileVars>>

\* What is there once s is written: what another process wrote in the
\* meantime stays behind where it was longer.
Written(s) ==
  IF s \in unlinked THEN {files[NameOf[s]]}
  ELSE IF files[NameOf[s]] = Empty THEN {s}
  ELSE {s, Mixed}

Close(p, s) ==
  /\ status[p] = "running"
  /\ s \in exporting[p]
  /\ exporting' = [exporting EXCEPT ![p] = {}]
  /\ exported' = exported \cup {s}
  /\ UNCHANGED <<stage, moduleVars, profileVars>>

Remove(s) ==
  /\ files' = [files EXCEPT ![NameOf[s]] = Missing]
  /\ unlinked' = (unlinked \cup OpenOthers(s)) \ {s}

\* Wrong: F.keep() is forgotten and the destructor removes the file.
KeepScopsonForgotten(p, s) ==
  Close(p, s) /\ Remove(s) /\ UNCHANGED lost

\* The whole text is written, the stream has no error, the file is kept.
KeepScopson(p, s) ==
  /\ Close(p, s)
  /\ \E f \in Written(s) : files' = [files EXCEPT ![NameOf[s]] = f]
  /\ unlinked' = unlinked \ {s}
  /\ UNCHANGED lost

\* Wrong: the file is kept before the stream is asked for its errors.
DropScopsonKept(p, s) ==
  /\ Close(p, s)
  /\ lost' = lost \cup {s}
  /\ unlinked' = unlinked \ {s}
  /\ UNCHANGED files

\* The stream has an error; the destructor removes what is not kept.
DropScopson(p, s) ==
  Close(p, s) /\ Remove(s) /\ lost' = lost \cup {s}

\* The file cannot be opened.
ScopsonUnopened(p, s) ==
  /\ NextToExport(p, s)
  /\ exported' = exported \cup {s}
  /\ lost' = lost \cup {s}
  /\ UNCHANGED <<exporting, unlinked, files, stage, moduleVars, profileVars>>

-----------------------------------------------------------------------------
(* ScopProfiling: the calls around a SCoP. *)

\* Wrong: getOrInsertFunction declares the functions on demand.
FoundOrInserted(m) == m \in Module

\* M.getFunction(...) is asserted to be there.
Found(m) == ScopFunctions \subseteq declared[m]

createCalls(m, s, n) ==
  calls' = [calls EXCEPT ![m] = @ \o <<<<"start_scop", NameOf[s], n>>,
                                       <<"stop_scop", NameOf[s], n>>>>]

\* Wrong: the SCoPs are not counted.
ScopProfiledUncounted(p, s) ==
  LET m == ModuleOf[s] IN
  /\ Found(m)
  /\ createCalls(m, s, scopCount[p])
  /\ left' = [left EXCEPT ![m] = @ \ {s}]
  /\ UNCHANGED <<status, scopCount>>

ScopProfiled(p, s) ==
  LET m == ModuleOf[s] IN
  /\ Found(m)
  /\ createCalls(m, s, scopCount[p])
  /\ scopCount' = [scopCount EXCEPT ![p] = @ + 1]
  /\ left' = [left EXCEPT ![m] = @ \ {s}]
  /\ UNCHANGED status

AssertionFails(p, s) ==
  /\ ~Found(ModuleOf[s])
  /\ status' = [status EXCEPT ![p] = "aborted"]
  /\ UNCHANGED <<calls, scopCount, left>>

runOnScop(p, s) ==
  /\ Compiling(p, ModuleOf[s])
  /\ s \in left[ModuleOf[s]] \cap exported
  /\ ScopProfiled(p, s) \/ AssertionFails(p, s)
  /\ UNCHANGED <<stage, moduleVars, exportVars>>

\* The end of the module; the next one is counted from zero, by this reset or
\* because its pass is new.
doFinalization(p, m) ==
  /\ Compiling(p, m)
  /\ left[m] = {}
  /\ stage' = [stage EXCEPT ![m] = "object"]
  /\ scopCount' = [scopCount EXCEPT ![p] = 0]
  /\ UNCHANGED <<status, calls, left, moduleVars, exportVars>>

-----------------------------------------------------------------------------
Init ==
  /\ status = [p \in Process |-> "running"]
  /\ initialized_profiler = [p \in Process |-> FALSE]
  /\ scopCount = [p \in Process |-> 0]
  /\ stage = [m \in Module |-> "source"]
  /\ left = [m \in Module |-> ScopsOf(m)]
  /\ exporting = [p \in Process |-> {}]
  /\ exported = {} /\ lost = {} /\ unlinked = {}
  /\ files = [n \in Name |-> Missing]
  /\ ctors = [m \in Module |-> <<>>]
  /\ dtors = [m \in Module |-> <<>>]
  /\ declared = [m \in Module |-> {}]
  /\ calls = [m \in Module |-> <<>>]

Next ==
  \E p \in Process :
    \/ \E m \in Module : runOnModule(p, m) \/ doFinalization(p, m)
    \/ \E s \in Scop : \/ OpenScopson(p, s)
                       \/ KeepScopson(p, s)
                       \/ DropScopson(p, s)
                       \/ ScopsonUnopened(p, s)
                       \/ runOnScop(p, s)

Spec == Init /\ [][Next]_vars

-----------------------------------------------------------------------------
(* Properties. *)

\* The types of the variables.
TypeOK ==
  /\ status \in [Process -> {"running", "aborted"}]
  /\ initialized_profiler \in [Process -> BOOLEAN]
  /\ scopCount \in [Process -> Nat]
  /\ stage \in [Module -> {"source", "scops", "object"}]
  /\ left \in [Module -> SUBSET Scop]
  /\ exporting \in [Process -> SUBSET Scop]
  /\ exported \in SUBSET Scop /\ lost \in SUBSET exported
  /\ unlinked \in SUBSET Scop
  /\ files \in [Name -> Scop \cup {Missing, Empty, Mixed}]
  /\ ctors \in [Module -> Seq({"init_profiling"})]
  /\ dtors \in [Module -> Seq({"finish_profiling"})]
  /\ declared \in [Module -> SUBSET ScopFunctions]
  /\ calls \in [Module -> Seq(ScopFunctions \X Name \X Nat)]

\* A program linked from objects, one of which calls start_scop, sets the
\* profiler up and finishes it: the module passes have run where it matters.
ProfilerIsSetUp ==
  \A L \in SUBSET {m \in Module : stage[m] = "object"} :
    (\E m \in L : calls[m] # <<>>) =>
      /\ \E m \in L : "init_profiling" \in {ctors[m][i] : i \in DOMAIN ctors[m]}
      /\ \E m \in L : "finish_profiling" \in {dtors[m][i] : i \in DOMAIN dtors[m]}

\* An object compiled for profiling starts and stops each of its SCoPs once,
\* and no two of its SCoPs share a number, from which the globals that hold
\* their parameter names and values are named.
EachScopOnce ==
  \A m \in Module :
    stage[m] = "object" /\ CompiledBy[m] \in PollyMLProfiler =>
      /\ Len(calls[m]) = 2 * Cardinality(ScopsOf(m))
      /\ {calls[m][i][2] : i \in DOMAIN calls[m]} = {NameOf[s] : s \in ScopsOf(m)}
      /\ \A i, j \in DOMAIN calls[m] :
           calls[m][i][3] = calls[m][j][3] <=> calls[m][i][2] = calls[m][j][2]

\* One process alone exports SCoPs of that name.
Private(n) ==
  \E p \in Process : \A s \in Scop : NameOf[s] = n => CompiledBy[ModuleOf[s]] = p

\* A SCoP that is timed has a description in the export directory, under the
\* name of its timings, unless the exporter reported an error: that of a SCoP
\* of that name, its own if no other has it.  (Processes that share a name
\* may leave a description of neither.)
TimedIsDescribed ==
  \A s \in Scop :
    /\ stage[ModuleOf[s]] = "object"
    /\ CompiledBy[ModuleOf[s]] \in PollyMLProfiler
    /\ Private(NameOf[s])
    => \E t \in Scop :
         /\ NameOf[t] = NameOf[s]
         /\ \/ files[NameOf[s]] = t
            \/ t \in lost \cup (UNION {exporting[p] : p \in Process})

\* Whatever the processes that share a name do in each other's way, a file is
\* empty only while one of them has it open, and is a mixture only if two
\* have written it.
NoHalfFiles ==
  \A n \in Name :
    /\ files[n] = Empty =>
         \E p \in Process : \E s \in exporting[p] \ unlinked : NameOf[s] = n
    /\ files[n] = Mixed => ~Private(n)

\* The assertion of createStartProfilingCall and createStopProfilingCall:
\* the functions called are declared in the module.
FunctionsDeclared ==
  \A p \in Process, s \in Scop :
    Compiling(p, ModuleOf[s]) /\ s \in left[ModuleOf[s]] \cap exported =>
      Found(ModuleOf[s])
=============================================================================
