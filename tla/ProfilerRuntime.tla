--------------------------- MODULE ProfilerRuntime ---------------------------
(***************************************************************************)
(* The profiling library (profiler/lib/profiling.cpp) in a process: the    *)
(* one ProfilingContext, created and destroyed by calls that the compiler  *)
(* plugin puts among the constructors and destructors of every             *)
(* instrumented image (the executable and the shared libraries), and used  *)
(* by the start_scop and stop_scop calls in their code.                    *)
(*                                                                         *)
(* The images are initialised in the order 1 .. NumImages, the executable  *)
(* last, and finalised in the reverse order.  Within an image the calls of *)
(* the library have priority 0: init_profiling runs before every other     *)
(* constructor and finish_profiling after every other destructor.          *)
(***************************************************************************)
EXTENDS Statistics, CacheFlush

CONSTANTS
  NumImages,        \* the instrumented images, the executable being the last
  ImageOf,          \* [Scop -> the image whose code holds the SCoP]
  Configs,          \* the configuration files the process may be started with
  CacheSizes,       \* the sizes of caches, in KB, that a configuration names
  DoublesPerTick,   \* how many doubles flush_cache reads in a tick
  PapiReadMayFail,  \* whether PAPI_read may return an error
  AssertsEnabled    \* whether the library is built without NDEBUG

ConfigFile ==
  [file : {"missing", "malformed", "json"},
   flush_cache : BOOLEAN,    \* the field is there and true
   cache_size  : {<<>>} \cup {<<n>> : n \in CacheSizes},   \* absent or a number
   papi_events : BOOLEAN,    \* the field is there
   papi_works  : BOOLEAN]    \* init_papi succeeds with those events

ASSUME RuntimeAssumption ==
  /\ NumImages \in Nat \ {0}
  /\ ImageOf \in [Scop -> 1 .. NumImages]
  /\ Configs \subseteq ConfigFile
  /\ CacheSizes \subseteq IntRange
  /\ DoublesPerTick \in Nat \ {0}
  /\ PapiReadMayFail \in BOOLEAN
  /\ AssertsEnabled \in BOOLEAN

VARIABLES
  phase,        \* what the process is doing
  img,          \* the image whose constructors or destructors run
  ctx,          \* what the unique_ptr ctx holds: "null" or "context"
  flush_cache,  \* a member of the context, and
  cache_size,   \* another
  status,       \* the exit status
  saved,        \* the results written to the output file, one after another
  executed      \* history: [Region -> the rows of the finished executions]

process == <<phase, img, status>>
context == <<ctx, flush_cache, cache_size>>
allVars == <<now, open, stats, process, context, saved, executed>>

Live == ctx # "null"
UserCode == phase \in {"ctors", "main", "dtors"}
Ended == {"dead", "aborted", "crashed"}

-----------------------------------------------------------------------------
(* exit(): which phase the C runtime continues with.  Handlers of the       *)
(* executable run only once its own start-up code has been reached; exit()  *)
(* inside a handler goes on with the handlers that have not run.  Loaded    *)
(* libraries are finalised by one handler, so an exit() from there skips    *)
(* the rest of them.  The profiling library is the last to be unloaded.     *)

AfterExit ==
  IF phase \in {"init", "ctors", "main"} /\ img = NumImages THEN {"dtors"}
  ELSE IF phase = "dtors" /\ img = NumImages THEN {"fini", "unload"}
  ELSE IF phase = "unload" THEN {"dead"}
  ELSE {"unload"}

exit(code) ==
  /\ phase' \in AfterExit
  /\ status' = code
  /\ UNCHANGED img

-----------------------------------------------------------------------------
(* init_profiling and the constructor of ProfilingContext. *)

\* std::ifstream fails, a field is missing or PAPI refuses: exit(1).
Refused(c) ==
  \/ c.file = "missing"
  \/ c.file = "json" /\ (c.flush_cache => c.cache_size # <<>>)
       /\ ~(c.papi_events /\ c.papi_works)

\* The JSON library, built without exceptions, aborts: on bad JSON, and when
\* the missing cache_size is read after all.
Unreadable(c) ==
  \/ c.file = "malformed"
  \/ c.file = "json" /\ c.flush_cache /\ c.cache_size = <<>>

Usable(c) == ~Refused(c) /\ ~Unreadable(c)

InitSkip ==
  /\ phase = "init"
  /\ Live
  /\ phase' = "ctors"
  /\ UNCHANGED <<now, open, stats, img, status, context, saved, executed>>

\* The cost of the timers alone is measured five times.
InitContext(c) ==
  /\ phase = "init"
  /\ ~Live
  /\ Usable(c)
  /\ ctx' = "context"
  /\ flush_cache' = c.flush_cache
  /\ cache_size' = IF c.flush_cache THEN c.cache_size[1] ELSE 0
  /\ last_times' = Timepoints(now)
  /\ parameters' = [parameters EXCEPT ![EMPTY] = [i \in 1 .. 5 |-> NoParams]]
  /\ durations' = [durations EXCEPT ![EMPTY] =
                     [i \in 1 .. 5 |-> Elapsed(Timepoints(now), Timepoints(now))]]
  /\ phase' = "ctors"
  /\ UNCHANGED <<now, open, img, status, saved, executed>>

\* Wrong: the error is reported and the constructor returns.
InitExitReturns(c) ==
  /\ phase = "init"
  /\ ~Live
  /\ Refused(c)
  /\ phase' = "ctors"
  /\ status' = 1
  /\ UNCHANGED <<now, open, stats, img, context, saved, executed>>

InitExit(c) ==
  /\ phase = "init"
  /\ ~Live
  /\ Refused(c)
  /\ exit(1)
  /\ UNCHANGED <<now, open, stats, context, saved, executed>>

InitAbort(c) ==
  /\ phase = "init"
  /\ ~Live
  /\ Unreadable(c)
  /\ phase' = "aborted"
  /\ UNCHANGED <<now, open, stats, img, status, context, saved, executed>>

init_profiling ==
  \/ InitSkip
  \/ \E c \in Configs : InitContext(c) \/ InitExit(c) \/ InitAbort(c)

-----------------------------------------------------------------------------
(* start_scop and stop_scop, called by instrumented code. *)

CanRun(s) ==
  /\ UserCode
  /\ ImageOf[s] <= img
  /\ Len(open) < MaxDepth
  /\ Len(parameters[RegionName(s)]) < MaxRuns

\* How many doubles a start reads before the timers.
Flushes == IF flush_cache THEN to_flush(cache_size) ELSE {0}

Later(n) == now + n \div DoublesPerTick

\* Wrong: the timers are read before the cache is flushed.
StartScopTimesFlush(s, v) ==
  /\ CanRun(s)
  /\ Live
  /\ \E n \in Flushes : n >= 0 /\ now' = Later(n)
  /\ now' <= MaxNow
  /\ startProfiling(RegionName(s), ParamVector(s, v), now)
  /\ open' = Append(open, Frame(s, v, now'))
  /\ UNCHANGED <<process, context, saved, executed>>

StartScop(s, v) ==
  /\ CanRun(s)
  /\ Live
  /\ \E n \in Flushes : n >= 0 /\ now' = Later(n)
  /\ now' <= MaxNow
  /\ startProfiling(RegionName(s), ParamVector(s, v), now')
  /\ open' = Append(open, Frame(s, v, now'))
  /\ UNCHANGED <<process, context, saved, executed>>

\* flush_cache throws, through code that has no handler.
StartThrows(s) ==
  /\ CanRun(s)
  /\ Live
  /\ \E n \in Flushes : n < 0
  /\ phase' = "aborted"
  /\ UNCHANGED <<now, open, stats, img, status, context, saved, executed>>

\* PAPITimer::now() exits before anything is stored; the call never returns.
StartFails(s) ==
  /\ PapiReadMayFail
  /\ CanRun(s)
  /\ Live
  /\ open' = <<>>
  /\ exit(1)
  /\ UNCHANGED <<now, stats, context, saved, executed>>

\* ctx-> dereferences a null pointer.
StartCrashes(s) ==
  /\ CanRun(s)
  /\ ~Live
  /\ phase' = "crashed"
  /\ UNCHANGED <<now, open, stats, img, status, context, saved, executed>>

StopScop ==
  /\ UserCode
  /\ open # <<>>
  /\ stopProfiling(RegionName(Innermost.scop), now)
  /\ open' = SubSeq(open, 1, Len(open) - 1)
  /\ executed' = [executed EXCEPT ![RegionName(Innermost.scop)] =
                    Append(@, Log!Row(Innermost, now))]
  /\ UNCHANGED <<now, process, context, saved>>

\* Wrong: the error is reported and the call returns, without a duration.
StopFailsReturns ==
  /\ PapiReadMayFail
  /\ UserCode
  /\ open # <<>>
  /\ open' = SubSeq(open, 1, Len(open) - 1)
  /\ UNCHANGED <<now, stats, process, context, saved, executed>>

\* The parameters stay behind without a duration.
StopFails ==
  /\ PapiReadMayFail
  /\ UserCode
  /\ open # <<>>
  /\ open' = <<>>
  /\ exit(1)
  /\ UNCHANGED <<now, stats, context, saved, executed>>

-----------------------------------------------------------------------------
(* finish_profiling and the destructor of ProfilingContext. *)

\* The handler returns: on to the next image, then to the library itself.
Return ==
  /\ IF phase = "unload" THEN phase' = "dead" /\ UNCHANGED img
     ELSE IF img > 1     THEN phase' = "dtors" /\ img' = img - 1
                         ELSE phase' = "unload" /\ UNCHANGED img
  /\ UNCHANGED status

\* Wrong: a plain pointer, deleted and not cleared.
DestroyContextDangling ==
  /\ parameters' = [r \in Region |-> <<>>]
  /\ durations' = [r \in Region |-> <<>>]
  /\ UNCHANGED <<now, open, last_times, context, executed>>

\* unique_ptr clears itself before it runs the destructor.
DestroyContext ==
  /\ ctx' = "null"
  /\ parameters' = [r \in Region |-> <<>>]
  /\ durations' = [r \in Region |-> <<>>]
  /\ UNCHANGED <<now, open, last_times, flush_cache, cache_size, executed>>

\* Wrong: the context goes before its results are written.
SaveResultsDropped ==
  /\ AssertsEnabled => StartsMatchStops
  /\ DestroyContext
  /\ UNCHANGED saved
  /\ Return

\* The results are handed to the stream; its state is not looked at afterwards.
SaveResults ==
  /\ AssertsEnabled => StartsMatchStops
  /\ DestroyContext
  /\ saved' = Append(saved, serializeToJson)
  /\ Return

\* Wrong: the failure is reported and the destructor returns.
SaveFailsQuietly ==
  /\ AssertsEnabled => StartsMatchStops
  /\ DestroyContext
  /\ Return
  /\ UNCHANGED saved

\* The output file cannot be opened.
SaveFails ==
  /\ AssertsEnabled => StartsMatchStops
  /\ DestroyContext
  /\ exit(1)
  /\ UNCHANGED saved

SaveAborts ==
  /\ AssertsEnabled /\ ~StartsMatchStops
  /\ DestroyContext
  /\ phase' = "aborted"
  /\ UNCHANGED <<img, status, saved>>

NothingToFinish ==
  /\ Return
  /\ UNCHANGED <<now, open, stats, context, saved, executed>>

\* Called by the last destructor of an image.
finish_profiling ==
  /\ phase = "fini"
  /\ IF Live THEN SaveResults \/ SaveFails \/ SaveAborts ELSE NothingToFinish

\* The static ctx is destroyed with the library.
Unload ==
  /\ phase = "unload"
  /\ IF Live THEN SaveResults \/ SaveFails \/ SaveAborts ELSE NothingToFinish

-----------------------------------------------------------------------------
(* The process around the library. *)

ProcessInit ==
  /\ Init
  /\ phase = "init"
  /\ img = 1
  /\ ctx = "null"
  /\ flush_cache = FALSE
  /\ cache_size = 0
  /\ status = 0
  /\ saved = <<>>
  /\ executed = [r \in Region |-> <<>>]

Work ==
  /\ UserCode
  /\ Tick
  /\ UNCHANGED <<process, context, saved, executed>>

\* The constructors or the destructors of an image are done.
Advance ==
  /\ open = <<>>
  /\ \/ /\ phase = "ctors" /\ img < NumImages
        /\ phase' = "init" /\ img' = img + 1
     \/ /\ phase = "ctors" /\ img = NumImages
        /\ phase' = "main" /\ UNCHANGED img
     \/ /\ phase = "dtors"
        /\ phase' = "fini" /\ UNCHANGED img
  /\ UNCHANGED <<now, open, stats, status, context, saved, executed>>

\* A constructor or main calls exit(0), or main returns.
Exit ==
  /\ phase \in {"ctors", "main"}
  /\ open = <<>>
  /\ exit(0)
  /\ UNCHANGED <<now, open, stats, context, saved, executed>>

Terminated == phase \in Ended /\ UNCHANGED allVars

ProcessNext ==
  \/ init_profiling
  \/ \E s \in Scop : StartFails(s) \/ StartCrashes(s) \/ StartThrows(s)
  \/ \E s \in Scop : \E v \in ValuesOf[s] : StartScop(s, v)
  \/ StopScop
  \/ StopFails
  \/ finish_profiling
  \/ Unload
  \/ Work
  \/ Advance
  \/ Exit
  \/ Terminated

ProcessSpec == ProcessInit /\ [][ProcessNext]_allVars

\* SCoPs, constructors and destructors return.  The process need not exit.
ProcessFairSpec ==
  /\ ProcessSpec
  /\ WF_allVars(init_profiling \/ StopScop \/ Advance \/ finish_profiling \/ Unload)

-----------------------------------------------------------------------------
(* Properties. *)

\* The types of the variables of the process and of the library.
ProcessTypeOK ==
  /\ TypeOK
  /\ phase \in {"init", "ctors", "main", "dtors", "fini", "unload"} \cup Ended
  /\ img \in 1 .. NumImages
  /\ ctx \in {"null", "context"}
  /\ flush_cache \in BOOLEAN
  /\ cache_size \in CacheSizes \cup {0}
  /\ status \in {0, 1}

\* Until the process exits, instrumented code of every image finds a context,
\* constructors included: init_profiling has run before any of them, and an
\* image that is initialised later does not replace the context.
ContextLive == phase \in {"ctors", "main"} => Live

\* The output file is written at most once, however many images call
\* finish_profiling and wherever exit() is called: no later result overwrites
\* an earlier one, and the destructor of ctx does not run twice.
SavedOnce == Len(saved) + (IF Live THEN 1 ELSE 0) <= 1

RowsIn(results, r) == IF r \in DOMAIN results THEN results[r] ELSE <<>>

\* What is written is what was executed: for each region one row for each
\* execution that finished, with its parameters and its own length, without
\* the time spent flushing the cache, and five for the cost of the timers.
SavedIsComplete ==
  saved # <<>> =>
    /\ \A r \in Region \ {EMPTY} : RowsIn(saved[1], r) = executed[r]
    /\ Len(RowsIn(saved[1], EMPTY)) = 5

\* A cache whose bytes an int can count is read whole between the start call and
\* the timers, and its size ends no process.
FlushIsWhole ==
  [][flush_cache /\ Counted(cache_size) =>
       /\ Len(open') > Len(open) => now' = Later((KB * cache_size) \div Double)
       /\ Live /\ UserCode => phase' # "aborted"]_allVars

\* A process that ends with status 0 has gone through writing its results.
SuccessMeansSaved == phase = "dead" /\ status = 0 => saved # <<>>

\* What makes those inductive.  Every image after the first is initialised
\* with a context; nothing is saved before the process exits, nor while there
\* is a context; and as long as the exit status is 0, the results are still in
\* the context or in the file.
ContextInv ==
  /\ Live => saved = <<>>
  /\ phase = "init" /\ img > 1 => Live
  /\ phase \in {"init", "ctors", "main"} => saved = <<>>
  /\ phase = "dead" => ~Live
  /\ status = 0 /\ phase \in {"dtors", "fini", "unload", "dead"} =>
       Live \/ saved # <<>>

\* Once the process exits with a context, results are written or the process
\* ends in a way its caller can tell from success.
ExitSaves ==
  phase = "dtors" /\ Live
    ~> saved # <<>> \/ phase \in {"aborted", "crashed"} \/ status = 1

\* The process in the words of ResultsFile: a context is an open log, and a
\* status of 1 or an abnormal end tells the caller.
UnderWay == {open[i] : i \in DOMAIN open}

LogStage ==
  IF Live THEN "open" ELSE IF phase = "init" THEN "before" ELSE "closed"

Written ==
  [i \in DOMAIN saved |-> [r \in Region \ {EMPTY} |-> RowsIn(saved[i], r)]]

Failed == status = 1 \/ phase \in {"aborted", "crashed"}

\* However many images there are and wherever the process exits, the library
\* keeps the promise of ResultsFile: executions run while the log is open, the
\* file is written once, with all of them, and whenever it is not, or when an
\* execution is left out, the process fails.
Results == INSTANCE ResultsFile
             WITH running <- UnderWay, log <- executed, stage <- LogStage,
                  results <- Written, failed <- Failed

ImplementsResults == Results!ResultsSpec

\* Instrumented code never calls a library without a context.
NeverCrashes == phase # "crashed"

\* When results are serialised, each start has been followed by its stop.
AssertionHolds == Live /\ phase \in {"fini", "unload"} => StartsMatchStops
=============================================================================
