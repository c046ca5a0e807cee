---------------------------- MODULE RuntimeProofs ----------------------------
(***************************************************************************)
(* Theorems about the life of the ProfilingContext, for any number of      *)
(* images, any configuration files and any program.                        *)
(***************************************************************************)
EXTENDS ProfilerRuntime, StatisticsProofs

Phases == {"init", "ctors", "main", "dtors", "fini", "unload"} \cup Ended

\* What ProcessTypeOK says of the life of the process alone.
LifeTypeOK ==
  /\ phase \in Phases
  /\ img \in 1 .. NumImages
  /\ ctx \in {"null", "context"}
  /\ status \in {0, 1}
  /\ saved = <<>> \/ Len(saved) = 1

LifeInv ==
  /\ LifeTypeOK
  /\ ContextLive
  /\ ContextInv

\* Calling exit() without touching the context, before any result is saved.
LEMMA ExitKeepsLifeInv ==
  ASSUME LifeInv, NEW code \in {0, 1}, exit(code), UNCHANGED <<ctx, saved>>,
         phase \in {"init", "ctors", "main", "dtors"},
         phase \in {"init", "dtors"} => code = 1
  PROVE  LifeInv'
<1> USE DEF LifeInv, LifeTypeOK, Phases, Ended, Live, exit, AfterExit
<1>1. phase' \in {"dtors", "fini", "unload"} /\ img' = img /\ status' = code
  OBVIOUS
<1>2. LifeTypeOK' /\ ContextLive'
  BY <1>1 DEF ContextLive
<1>3. ASSUME code = 0, phase \in {"ctors", "main"}
      PROVE  Live
  BY <1>3 DEF ContextLive
<1>4. ASSUME status' = 0
      PROVE  Live' \/ saved' # <<>>
  BY <1>1, <1>3, <1>4
<1>5. ContextInv'
  BY <1>1, <1>4 DEF ContextInv
<1> QED
  BY <1>2, <1>5

\* Writing the results: the only step that saves, and it gives up the context.
LEMMA SaveKeepsLifeInv ==
  ASSUME LifeInv, Live, phase \in {"fini", "unload"}, SaveResults
  PROVE  LifeInv'
<1>1. ctx' = "null" /\ saved' = Append(<<>>, serializeToJson)
  BY DEF LifeInv, ContextInv, SaveResults, DestroyContext, Live
<1>2. Len(saved') = 1 /\ saved' # <<>>
  BY <1>1
<1>3. Return
  BY DEF SaveResults
<1> QED
  BY <1>1, <1>2, <1>3, RuntimeAssumption
     DEF LifeInv, LifeTypeOK, ContextLive, ContextInv, Return, Phases, Ended, Live

\* Failing to write them, or aborting over them, saves nothing.
LEMMA LossKeepsLifeInv ==
  ASSUME LifeInv, Live, phase \in {"fini", "unload"}, SaveFails \/ SaveAborts
  PROVE  LifeInv'
  BY RuntimeAssumption
     DEF LifeInv, LifeTypeOK, ContextLive, ContextInv, SaveFails,
         SaveAborts, DestroyContext, exit, AfterExit, Phases, Ended, Live

\* A later image has nothing left to finish.
LEMMA NothingKeepsLifeInv ==
  ASSUME LifeInv, ~Live, phase \in {"fini", "unload"}, NothingToFinish
  PROVE  LifeInv'
  BY RuntimeAssumption
     DEF LifeInv, LifeTypeOK, ContextLive, ContextInv, context,
         NothingToFinish, Return, Phases, Ended, Live

\* For every number of images: code of every image finds a context until the
\* process exits, and the results are in one place, the context or the file,
\* unless the process ends with an error.
THEOREM LifeCorrect == ProcessSpec => []LifeInv
<1>1. ProcessInit => LifeInv
  BY RuntimeAssumption
     DEF ProcessInit, LifeInv, LifeTypeOK, ContextLive, ContextInv, Phases, Ended, Live
<1>2. LifeInv /\ [ProcessNext]_allVars => LifeInv'
  <2> SUFFICES ASSUME LifeInv, [ProcessNext]_allVars PROVE LifeInv'
    OBVIOUS
  <2> USE DEF LifeInv, LifeTypeOK, ContextLive, ContextInv, Live
  <2>1. CASE InitSkip
    BY <2>1 DEF InitSkip, context, Phases, Ended
  <2>2. ASSUME NEW c \in Configs, InitContext(c)
        PROVE  LifeInv'
    BY <2>2 DEF InitContext, Phases, Ended
  <2>3. ASSUME NEW c \in Configs, InitExit(c)
        PROVE  LifeInv'
    BY <2>3, ExitKeepsLifeInv DEF InitExit, context
  <2>4. ASSUME NEW c \in Configs, InitAbort(c)
        PROVE  LifeInv'
    BY <2>4 DEF InitAbort, context, Phases, Ended
  <2>5. ASSUME NEW s \in Scop, StartFails(s)
        PROVE  LifeInv'
    BY <2>5, ExitKeepsLifeInv DEF StartFails, CanRun, UserCode, context
  <2>6. ASSUME NEW s \in Scop, StartCrashes(s)
        PROVE  LifeInv'
    BY <2>6 DEF StartCrashes, context, Phases, Ended
  <2>7. ASSUME NEW s \in Scop, NEW v \in ValuesOf[s], StartScop(s, v)
        PROVE  LifeInv'
    BY <2>7 DEF StartScop, context, process
  <2>7a. ASSUME NEW s \in Scop, StartThrows(s)
         PROVE  LifeInv'
    BY <2>7a DEF StartThrows, context, Phases, Ended
  <2>8. CASE StopScop
    BY <2>8 DEF StopScop, context, process
  <2>9. CASE StopFails
    BY <2>9, ExitKeepsLifeInv DEF StopFails, UserCode, context
  <2>10. CASE finish_profiling
    BY <2>10, SaveKeepsLifeInv, LossKeepsLifeInv, NothingKeepsLifeInv
       DEF finish_profiling
  <2>11. CASE Unload
    BY <2>11, SaveKeepsLifeInv, LossKeepsLifeInv, NothingKeepsLifeInv
       DEF Unload
  <2>12. CASE Work
    BY <2>12 DEF Work, context, process
  <2>13. CASE Advance
    BY <2>13, RuntimeAssumption DEF Advance, context, Phases, Ended
  <2>14. CASE Exit
    BY <2>14, ExitKeepsLifeInv DEF Exit, context
  <2>15. CASE UNCHANGED allVars
    BY <2>15 DEF allVars, context, process
  <2> QED
    BY <2>1, <2>2, <2>3, <2>4, <2>5, <2>6, <2>7, <2>7a, <2>8, <2>9, <2>10, <2>11,
       <2>12, <2>13, <2>14, <2>15
       DEF ProcessNext, init_profiling, Terminated
<1> QED
  BY <1>1, <1>2, PTL DEF ProcessSpec

\* Until the process exits, instrumented code of every image finds a context.
THEOREM ContextAlwaysLive == ProcessSpec => []ContextLive
  BY LifeCorrect, PTL DEF LifeInv

\* The output file is written at most once.
THEOREM SavedAtMostOnce == ProcessSpec => []SavedOnce
<1>1. LifeInv => SavedOnce
  <2>1. ASSUME LifeInv, Live PROVE SavedOnce
    BY <2>1 DEF LifeInv, ContextInv, SavedOnce
  <2>2. ASSUME LifeInv, ~Live PROVE SavedOnce
    BY <2>2 DEF LifeInv, LifeTypeOK, SavedOnce
  <2> QED
    BY <2>1, <2>2
<1> QED
  BY <1>1, LifeCorrect, PTL

\* A process that ends with status 0 has gone through writing its results.
THEOREM SuccessIsSaved == ProcessSpec => []SuccessMeansSaved
<1>1. LifeInv => SuccessMeansSaved
  BY DEF LifeInv, ContextInv, SuccessMeansSaved, Live
<1> QED
  BY <1>1, LifeCorrect, PTL

\* The results are in one place, the context or the file, whatever happens.
THEOREM ContextCorrect == ProcessSpec => []ContextInv
  BY LifeCorrect, PTL DEF LifeInv

-----------------------------------------------------------------------------
(* The size of the cache. *)

\* For any width of int, the number of doubles is the quotient if the number of
\* bytes is an int.
LEMMA CountedIsExact ==
  ASSUME NEW size \in Int, Counted(size)
  PROVE  to_flush(size) = {(KB * size) \div Double} /\ (KB * size) \div Double >= 0
<1> DEFINE p == KB * size
           q == p \div Double
<1>1. /\ KB \in Nat \ {0} /\ Double \in Nat \ {0} /\ IntModulus \in Nat \ {0}
      /\ SizeModulus \in Nat \ {0} /\ IntModulus <= SizeModulus
      /\ IntModulus % 2 = 0
  BY CacheFlushAssumption
<1>2. Half \in Int /\ IntModulus = 2 * Half
  BY <1>1, DivMod DEF Half
<1>3. p \in Int /\ p >= 0 /\ p <= Half - 1
  <2>1. p \in Int /\ size >= 0
    BY <1>1 DEF Counted
  <2>2. p >= 0
    BY <1>1, <2>1, SMTT(30)
  <2>3. QED
    BY <2>1, <2>2, <1>2 DEF Counted, IntRange
<1>4. Product(size) = {p}
  BY DEF Product, Counted
<1> HIDE DEF p
<1>5. ToSize(p) = p
  BY <1>1, <1>2, <1>3, ModUnique, p = SizeModulus * 0 + p DEF ToSize
<1>6. q \in Int /\ q >= 0 /\ q <= p
  <2>1. q \in Int /\ p % Double \in 0 .. Double - 1 /\ p = Double * q + (p % Double)
    BY <1>1, <1>3, DivMod
  <2> HIDE DEF q
  <2>2. Double * q > -Double
    BY <1>1, <1>3, <2>1
  <2>3. q >= 0
    BY <1>1, <2>1, <2>2, SMTT(30)
  <2>4. Double * q >= q
    BY <1>1, <2>1, <2>3, SMTT(30)
  <2>5. QED
    BY <1>1, <2>1, <2>3, <2>4
<1> HIDE DEF q
<1>7. ToInt(q) = q
  <2>1. q + Half \in 0 .. IntModulus - 1
    BY <1>2, <1>3, <1>6
  <2>2. q + Half = IntModulus * 0 + (q + Half)
    BY <1>1, <1>2, <1>6
  <2>3. (q + Half) % IntModulus = q + Half
    BY <1>1, <1>2, <1>6, <2>1, <2>2, ModUnique
  <2>4. QED
    BY <1>2, <1>6, <2>3 DEF ToInt
<1>8. to_flush(size) = {ToInt(ToSize(p) \div Double)}
  BY <1>4 DEF to_flush
<1>9. QED
  BY <1>5, <1>6, <1>7, <1>8 DEF p, q

-----------------------------------------------------------------------------
(* The types of the library's variables. *)

\* A configuration that the constructor accepts names a cache size if it asks
\* for the cache to be flushed.
LEMMA UsableSize ==
  ASSUME NEW c \in Configs, Usable(c), c.flush_cache
  PROVE  c.cache_size[1] \in CacheSizes
<1>1. c \in ConfigFile
  BY RuntimeAssumption
<1>2. c.cache_size \in {<<>>} \cup {<<n>> : n \in CacheSizes} /\ c.cache_size # <<>>
  BY <1>1 DEF ConfigFile, Usable, Refused, Unreadable
<1>3. PICK n \in CacheSizes : c.cache_size = <<n>>
  BY <1>2
<1> QED
  BY <1>3

\* The constructor fills the EMPTY region with durations of the timers alone.
LEMMA InitContextType ==
  ASSUME TypeOK, NEW c \in Configs, InitContext(c)
  PROVE  TypeOK'
<1> USE DEF TypeOK
<1> DEFINE d == Elapsed(Timepoints(now), Timepoints(now))
           p == [i \in 1 .. 5 |-> NoParams]
           q == [i \in 1 .. 5 |-> d]
<1>1. Timepoints(now) \in Timepoint
  BY TimepointsType, StatisticsAssumption
<1>2. d \in Duration
  BY <1>1, ElapsedType
<1> HIDE DEF d
<1>3. EMPTY \in Region /\ NoParams \in Params
  BY DEF Region, Params
<1>4. p \in Seq(Params) /\ q \in Seq(Duration)
  BY <1>2, <1>3
<1>5. /\ parameters' = [parameters EXCEPT ![EMPTY] = p]
      /\ durations' = [durations EXCEPT ![EMPTY] = q]
      /\ last_times' = Timepoints(now)
      /\ now' = now /\ open' = open
  BY DEF InitContext, d
<1> HIDE DEF p, q
<1> QED
  BY <1>1, <1>3, <1>4, <1>5

\* A start called after a flush has the type of any start.
LEMMA StartScopType ==
  ASSUME TypeOK, NEW s \in Scop, NEW v \in ValuesOf[s], StartScop(s, v),
         flush_cache \in BOOLEAN, cache_size \in Int
  PROVE  TypeOK' /\ now <= now'
<1> USE DEF TypeOK
<1>1. PICK n \in Flushes : n >= 0 /\ now' = Later(n)
  BY DEF StartScop
<1>2. /\ MaxNow \in Nat /\ now \in Nat /\ DoublesPerTick \in Nat \ {0}
      /\ KB \in Int /\ Double \in Nat \ {0} /\ IntModulus \in Nat \ {0}
      /\ SizeModulus \in Nat \ {0}
  BY StatisticsAssumption, RuntimeAssumption, CacheFlushAssumption
<1>3. n \in Int
  <2>1. CASE ~flush_cache
    BY <1>1, <2>1 DEF Flushes
  <2>2. CASE flush_cache
    <3>1. Half \in Int
      BY <1>2, DivMod DEF Half
    <3>2. \A k \in Int : ToInt(k) \in Int
      <4> TAKE k \in Int
      <4>1. (k + Half) % IntModulus \in Int
        BY <1>2, <3>1, DivMod, k + Half \in Int
      <4> QED
        BY <3>1, <4>1 DEF ToInt
    <3>3. KB * cache_size \in Int
      BY <1>2
    <3>4. \A p \in Product(cache_size) : p \in Int
      BY <3>2, <3>3 DEF Product
    <3>5. PICK p \in Product(cache_size) : n = ToInt(ToSize(p) \div Double)
      BY <1>1, <2>2 DEF Flushes, to_flush
    <3>6. ToSize(p) \in Int
      BY <1>2, <3>4, DivMod DEF ToSize
    <3>7. ToSize(p) \div Double \in Int
      BY <1>2, <3>6, DivMod
    <3> QED
      BY <3>2, <3>5, <3>7
  <2> QED
    BY <2>1, <2>2
<1>4. n \div DoublesPerTick \in Nat
  BY <1>1, <1>2, <1>3, SMTT(30)
<1>5. now' \in 0 .. MaxNow /\ now <= now'
  BY <1>1, <1>2, <1>4 DEF Later, StartScop
<1>6. Timepoints(now') \in Timepoint
  BY <1>2, <1>5, TimepointsType
<1>7. RegionName(s) \in Region /\ ParamVector(s, v) \in Params
  BY NamesType
<1>8. Frame(s, v, now') \in Execution
  BY <1>5 DEF Frame, Execution
<1> QED
  BY <1>5, <1>6, <1>7, <1>8 DEF StartScop, startProfiling

\* A stop has the type of any stop.
LEMMA StopScopType ==
  ASSUME TypeOK, StopScop
  PROVE  TypeOK'
<1> USE DEF TypeOK
<1>1. Elapsed(Timepoints(now), last_times) \in Duration
  BY TimepointsType, ElapsedType, StatisticsAssumption
<1>2. /\ SubSeq(open, 1, Len(open) - 1) \in Seq(Execution)
      /\ Innermost \in Execution
  BY FrontType DEF StopScop, Innermost
<1>3. RegionName(Innermost.scop) \in Region
  BY <1>2, NamesType DEF Execution
<1>4. durations' \in [Region -> Seq(Duration)]
  BY <1>1, <1>3, AppendAt DEF StopScop, stopProfiling
<1> QED
  BY <1>2, <1>4 DEF StopScop, stopProfiling

\* Destroying the context empties the vectors.
LEMMA FinishType ==
  ASSUME TypeOK, flush_cache \in BOOLEAN, cache_size \in CacheSizes \cup {0},
         finish_profiling \/ Unload
  PROVE  TypeOK' /\ flush_cache' = flush_cache /\ cache_size' = cache_size
<1>1. CASE DestroyContext
  BY <1>1 DEF TypeOK, DestroyContext
<1>2. CASE NothingToFinish
  BY <1>2 DEF TypeOK, NothingToFinish, stats, context
<1> QED
  BY <1>1, <1>2 DEF finish_profiling, Unload, SaveResults, SaveFails, SaveAborts

\* For any program and any configuration files: times, vectors and the members
\* of the context keep their types.
THEOREM ProcessTypeCorrect == ProcessSpec => []ProcessTypeOK
<1> DEFINE Members ==
      /\ TypeOK
      /\ flush_cache \in BOOLEAN
      /\ cache_size \in CacheSizes \cup {0}
<1>1. ProcessInit => Members
  <2> SUFFICES ASSUME ProcessInit PROVE Members
    OBVIOUS
  <2>1. last_times \in Timepoint
    BY TimepointsType, StatisticsAssumption DEF ProcessInit, Init
  <2>2. TypeOK
    BY <2>1, StatisticsAssumption DEF ProcessInit, Init, TypeOK
  <2> QED
    BY <2>2 DEF ProcessInit
<1>2. Members /\ [ProcessNext]_allVars => Members'
  <2> SUFFICES ASSUME Members, [ProcessNext]_allVars PROVE Members'
    OBVIOUS
  <2>0. cache_size \in Int
    BY RuntimeAssumption, CacheFlushAssumption DEF IntRange, Half
  <2>1. CASE UNCHANGED <<now, open, stats, context>>
    BY <2>1 DEF TypeOK, stats, context
  <2>2. ASSUME NEW c \in Configs, InitContext(c)
        PROVE  Members'
    <3>1. c.flush_cache \in BOOLEAN
      BY RuntimeAssumption DEF ConfigFile
    <3>2. cache_size' \in CacheSizes \cup {0} /\ flush_cache' \in BOOLEAN
      BY <2>2, <3>1, UsableSize DEF InitContext
    <3> QED
      BY <2>2, <3>2, InitContextType
  <2>3. ASSUME NEW s \in Scop, NEW v \in ValuesOf[s], StartScop(s, v)
        PROVE  Members'
    BY <2>0, <2>3, StartScopType DEF StartScop, context
  <2>4. CASE StopScop
    BY <2>4, StopScopType DEF StopScop, context
  <2>5. CASE finish_profiling \/ Unload
    BY <2>5, FinishType
  <2>6. CASE Work
    BY <2>6, StatisticsAssumption DEF Work, Tick, TypeOK, stats, context
  <2>7. ASSUME NEW s \in Scop, StartFails(s)
        PROVE  Members'
    BY <2>7 DEF StartFails, TypeOK, stats, context
  <2>8. CASE StopFails
    BY <2>8, EmptySeq DEF StopFails, TypeOK, stats, context
  <2>9. ASSUME NEW s \in Scop, StartCrashes(s) \/ StartThrows(s)
        PROVE  UNCHANGED <<now, open, stats, context>>
    BY <2>9 DEF StartCrashes, StartThrows
  <2>10. ASSUME NEW c \in Configs, InitExit(c) \/ InitAbort(c)
         PROVE  UNCHANGED <<now, open, stats, context>>
    BY <2>10 DEF InitExit, InitAbort
  <2>11. ASSUME InitSkip \/ Advance \/ Exit \/ UNCHANGED allVars
         PROVE  UNCHANGED <<now, open, stats, context>>
    BY <2>11 DEF InitSkip, Advance, Exit, allVars
  <2> QED
    BY <2>1, <2>2, <2>3, <2>4, <2>5, <2>6, <2>7, <2>8, <2>9, <2>10, <2>11
       DEF ProcessNext, init_profiling, Terminated
<1>3. LifeInv /\ Members => ProcessTypeOK
  BY DEF LifeInv, LifeTypeOK, Phases, ProcessTypeOK
<1> QED
  BY <1>1, <1>2, <1>3, LifeCorrect, PTL DEF ProcessSpec

\* For any widths of int and size_t: a cache whose bytes an int can count is
\* read whole between the start call and the timers, and ends no process.
THEOREM FlushCorrect == ProcessSpec => FlushIsWhole
<1> DEFINE Whole ==
      flush_cache /\ Counted(cache_size) =>
        /\ Len(open') > Len(open) => now' = Later((KB * cache_size) \div Double)
        /\ Live /\ UserCode => phase' # "aborted"
<1>1. ProcessTypeOK /\ [ProcessNext]_allVars => [Whole]_allVars
  <2> SUFFICES ASSUME ProcessTypeOK, ProcessNext,
                      flush_cache, Counted(cache_size)
               PROVE  /\ Len(open') > Len(open) =>
                           now' = Later((KB * cache_size) \div Double)
                      /\ Live /\ UserCode => phase' # "aborted"
    OBVIOUS
  <2>1. cache_size \in Int
    BY RuntimeAssumption, CacheFlushAssumption DEF ProcessTypeOK, IntRange, Half
  <2>2. /\ Flushes = {(KB * cache_size) \div Double}
        /\ (KB * cache_size) \div Double >= 0
    BY <2>1, CountedIsExact DEF Flushes
  <2>3. open \in Seq(Execution) /\ Len(open) \in Nat
    BY LenProperties DEF ProcessTypeOK, TypeOK
  <2>4. ASSUME NEW s \in Scop, NEW v \in ValuesOf[s], StartScop(s, v)
        PROVE  /\ now' = Later((KB * cache_size) \div Double)
               /\ Live /\ UserCode => phase' # "aborted"
    BY <2>2, <2>4 DEF StartScop, process, UserCode
  <2>5. ASSUME NEW s \in Scop, StartThrows(s)
        PROVE  FALSE
    BY <2>2, <2>5 DEF StartThrows
  <2>6. CASE open' = open /\ phase' # "aborted"
    BY <2>3, <2>6
  <2>7. CASE StopScop
    <3>1. Len(open') = Len(open) - 1 /\ phase' = phase
      BY <2>3, <2>7, FrontType DEF StopScop, process
    <3> QED
      BY <2>3, <3>1 DEF UserCode
  <2>8. ASSUME StopFails \/ \E s \in Scop : StartFails(s)
        PROVE  ~(Len(open') > Len(open)) /\ phase' # "aborted"
    <3>1. open' = <<>> /\ phase' # "aborted"
      BY <2>8 DEF StartFails, StopFails, exit, AfterExit
    <3> QED
      BY <2>3, <3>1
  <2>9. ASSUME NEW s \in Scop, StartCrashes(s)
        PROVE  open' = open /\ phase' # "aborted"
    BY <2>9 DEF StartCrashes
  <2>10. ASSUME init_profiling \/ finish_profiling \/ Unload
         PROVE  open' = open /\ ~UserCode
    BY <2>10 DEF init_profiling, InitSkip, InitContext, InitExit, InitAbort,
        finish_profiling, Unload, SaveResults, SaveFails, SaveAborts,
        NothingToFinish, DestroyContext, UserCode
  <2>11. ASSUME Work \/ Advance \/ Exit
         PROVE  open' = open /\ phase' # "aborted"
    BY <2>11 DEF Work, Tick, Advance, Exit, exit, AfterExit, process, UserCode
  <2>12. ASSUME Terminated
         PROVE  open' = open /\ ~UserCode
    BY <2>12 DEF Terminated, allVars, Ended, UserCode
  <2> QED
    BY <2>3, <2>4, <2>5, <2>6, <2>7, <2>8, <2>9, <2>10, <2>11, <2>12
       DEF ProcessNext
<1> QED
  BY <1>1, ProcessTypeCorrect, PTL DEF ProcessSpec, FlushIsWhole

-----------------------------------------------------------------------------
(* The results written, for programs without nesting. *)

\* A region has a duration for each finished execution.  Either its starts and
\* stops match, and then its rows are its executions; or a failing PAPI has
\* left parameters without a duration, for good.
Matched(r) ==
  LET ahead == IF Running(r) THEN 1 ELSE 0
  IN  /\ Len(executed[r]) = Len(durations[r])
      /\ \/ Len(parameters[r]) = Len(durations[r]) + ahead /\ Rows(r) = executed[r]
         \/ PapiReadMayFail /\ Len(parameters[r]) > Len(durations[r]) + ahead

AnyRow == {Log!Row(f, t) : f \in Execution, t \in 0 .. MaxNow}

\* A context has five durations of its own, and every region matched; without
\* one nothing is under way, and before the first nothing has been executed.
SavedInv ==
  /\ OneAtATime
  /\ SlotIsOwn
  /\ NamesOfRegion
  /\ executed \in [Region -> Seq(AnyRow)]
  /\ ~(UserCode /\ Live) => open = <<>>
  /\ Live => Len(durations[EMPTY]) = 5
  /\ Live => \A r \in Region \ {EMPTY} : Matched(r)
  /\ ~Live => \A r \in Region : parameters[r] = <<>> /\ durations[r] = <<>>
  /\ phase = "init" /\ ~Live => \A r \in Region : executed[r] = <<>>
  /\ SavedIsComplete

\* No SCoP reports under the region of the context's own measurements.
LEMMA OwnRegion ==
  ASSUME NEW s \in Scop
  PROVE  RegionName(s) \in Region \ {EMPTY}
<1>1. Len(<<FunctionOf[s], ScopNameOf[s]>>) = 2 /\ Len(<<"EMPTY">>) = 1
  OBVIOUS
<1> QED
  BY <1>1 DEF Region, RegionName, EMPTY

\* Creating the context.
LEMMA SavedInit ==
  ASSUME LifeInv, TypeOK, SavedInv, NEW c \in Configs, InitContext(c)
  PROVE  SavedInv'
<1> DEFINE d == Elapsed(Timepoints(now), Timepoints(now))
<1>1. /\ open = <<>> /\ open' = <<>>
      /\ \A r \in Region : parameters[r] = <<>> /\ durations[r] = <<>>
      /\ \A r \in Region : executed[r] = <<>>
      /\ executed' = executed /\ saved' = saved /\ Live'
  BY DEF SavedInv, InitContext, Live
<1>2. /\ parameters' = [parameters EXCEPT ![EMPTY] = [i \in 1 .. 5 |-> NoParams]]
      /\ durations' = [durations EXCEPT ![EMPTY] = [i \in 1 .. 5 |-> d]]
      /\ parameters \in [Region -> Seq(Params)]
      /\ durations \in [Region -> Seq(Duration)]
      /\ EMPTY \in Region
  BY DEF InitContext, TypeOK, Region
<1> HIDE DEF d
<1>3. Len(durations'[EMPTY]) = 5
  <2>1. durations'[EMPTY] = [i \in 1 .. 5 |-> d]
    BY <1>2
  <2> QED
    BY <2>1
<1>4. \A r \in Region \ {EMPTY} : parameters'[r] = <<>> /\ durations'[r] = <<>>
  BY <1>1, <1>2
<1>5. NamesOfRegion'
  BY <1>4, OwnRegion DEF NamesOfRegion
<1>6. \A r \in Region \ {EMPTY} : Matched(r)'
  <2> SUFFICES ASSUME NEW r \in Region \ {EMPTY} PROVE Matched(r)'
    OBVIOUS
  <2>1. Rows(r)' = <<>>
    BY <1>4 DEF Rows
  <2>2. ~Running(r)'
    BY <1>1 DEF Running
  <2> QED
    BY <1>1, <1>4, <2>1, <2>2 DEF Matched
<1>7. saved' = <<>>
  BY <1>1 DEF InitContext, LifeInv, ContextInv
<1> QED
  BY <1>1, <1>3, <1>5, <1>6, <1>7
     DEF SavedInv, OneAtATime, SlotIsOwn, SavedIsComplete, InitContext

\* Entering a SCoP.
LEMMA SavedStart ==
  ASSUME MaxDepth = 1, NamesIdentify, TypeOK, TypeOK', LifeInv, SavedInv,
         NEW s \in Scop, NEW v \in ValuesOf[s], StartScop(s, v)
  PROVE  SavedInv'
<1> DEFINE k == RegionName(s)
<1>1. open = <<>> /\ open' = <<Frame(s, v, now')>>
  <2>1. Len(open) < 1 /\ open' = Append(open, Frame(s, v, now'))
    BY MaxDepth = 1 DEF StartScop, CanRun
  <2>2. open = <<>>
    BY <2>1, EmptySeq DEF TypeOK
  <2> QED
    BY <2>1, <2>2
<1>2. /\ startProfiling(k, ParamVector(s, v), now')
      /\ durations' = durations /\ executed' = executed /\ saved' = saved
      /\ Live /\ Live' /\ UserCode /\ UserCode' /\ phase' = phase
  BY DEF StartScop, startProfiling, CanRun, process, context, Live, UserCode
<1>3. k \in Region \ {EMPTY}
  BY OwnRegion
<1>4. SlotIsOwn' /\ NamesOfRegion'
  <2>1. now' \in Nat
    BY StatisticsAssumption DEF TypeOK
  <2> QED
    BY <1>1, <1>2, <2>1, StartIsOwn DEF SavedInv
<1>5. \A r \in Region \ {EMPTY} : Matched(r)'
  <2> SUFFICES ASSUME NEW r \in Region \ {EMPTY} PROVE Matched(r)'
    OBVIOUS
  <2>1. Len(parameters[r]) \in Nat /\ Len(durations[r]) \in Nat
    BY LenProperties DEF TypeOK
  <2>2. Matched(r) /\ ~Running(r)
    BY <1>1, <1>2 DEF SavedInv, Running
  <2>3. Len(parameters[r]) >= Len(durations[r])
    BY <2>1, <2>2 DEF Matched
  <2>4. Rows(r)' = Rows(r)
    BY <1>2, <2>3, StartKeepsRows
  <2>5. Len(parameters'[r]) = Len(parameters[r]) + (IF r = k THEN 1 ELSE 0)
    BY <1>2, StartLengthens
  <2>6. Running(r)' <=> r = k
    BY <1>1 DEF Running, Frame
  <2>7. /\ Len(executed'[r]) = Len(durations'[r]) /\ Len(durations'[r]) = Len(durations[r])
        /\ Rows(r)' = executed'[r] <=> Rows(r) = executed[r]
    BY <1>2, <2>2, <2>4 DEF Matched
  <2> HIDE DEF k
  <2>8. CASE r = k
    BY <2>1, <2>2, <2>5, <2>6, <2>7, <2>8 DEF Matched
  <2>9. CASE r # k
    <3>1. Len(parameters'[r]) = Len(parameters[r]) /\ ~Running(r)'
      BY <2>1, <2>5, <2>6, <2>9
    <3>2. CASE Len(parameters[r]) = Len(durations[r]) /\ Rows(r) = executed[r]
      BY <2>1, <2>7, <3>1, <3>2 DEF Matched
    <3>3. CASE PapiReadMayFail /\ Len(parameters[r]) > Len(durations[r])
      BY <2>1, <2>7, <3>1, <3>3 DEF Matched
    <3>4. \/ Len(parameters[r]) = Len(durations[r]) + 0 /\ Rows(r) = executed[r]
          \/ PapiReadMayFail /\ Len(parameters[r]) > Len(durations[r]) + 0
      BY <2>2 DEF Matched
    <3> HIDE DEF Matched
    <3>5. Len(durations[r]) + 0 = Len(durations[r])
      BY <2>1
    <3> QED
      BY <3>2, <3>3, <3>4, <3>5
  <2> QED
    BY <2>8, <2>9
<1>6. OneAtATime'
  BY <1>1 DEF OneAtATime
<1>7. saved' = <<>>
  BY <1>2 DEF LifeInv, ContextInv
<1> QED
  BY <1>2, <1>4, <1>5, <1>6, <1>7 DEF SavedInv, SavedIsComplete

\* Leaving it.
LEMMA SavedStop ==
  ASSUME TypeOK, LifeInv, SavedInv, StopScop
  PROVE  SavedInv'
<1>0. /\ open # <<>> /\ Len(open) = 1
      /\ open[1] \in Execution /\ open \in Seq(Execution)
  BY FrontType DEF StopScop, SavedInv, OneAtATime, TypeOK
<1>1. PICK f \in Execution : open = <<f>>
  BY <1>0, LenProperties
<1>2. open # <<>> /\ Innermost = f /\ open[1] = f /\ open' = <<>>
  BY <1>1 DEF StopScop, Innermost
<1> DEFINE k == RegionName(f.scop)
<1>3. /\ stopProfiling(k, now) /\ now' = now
      /\ parameters' = parameters /\ saved' = saved
      /\ executed' = [executed EXCEPT ![k] = Append(@, Log!Row(f, now))]
      /\ phase' = phase /\ (Live' <=> Live)
  BY <1>2 DEF StopScop, stopProfiling, process, context, Live
<1>4. Live /\ UserCode
  BY <1>2 DEF SavedInv
<1>5. f.scop \in Scop /\ k \in Region \ {EMPTY}
  BY OwnRegion DEF Execution
<1>6. /\ \A x \in Region \ {k} : Rows(x)' = Rows(x)
      /\ Len(parameters[k]) = Len(durations[k]) + 1 =>
           Rows(k)' = Append(Rows(k), Log!Row(f, now))
      /\ \A x \in Region :
           Len(durations'[x]) = Len(durations[x]) + (IF x = k THEN 1 ELSE 0)
  BY <1>1, <1>3, StopRow DEF SavedInv
<1>7. Log!Row(f, now) \in AnyRow
  BY DEF AnyRow, TypeOK
<1>8. /\ executed' \in [Region -> Seq(AnyRow)]
      /\ \A x \in Region :
           executed'[x] = IF x = k THEN Append(executed[x], Log!Row(f, now))
                                   ELSE executed[x]
  BY <1>3, <1>5, <1>7, AppendAt DEF SavedInv
<1>9. \A r \in Region \ {EMPTY} : Matched(r)'
  <2> SUFFICES ASSUME NEW r \in Region \ {EMPTY} PROVE Matched(r)'
    OBVIOUS
  <2>1. /\ Len(parameters[r]) \in Nat /\ Len(durations[r]) \in Nat
        /\ executed[r] \in Seq(AnyRow)
    BY LenProperties DEF TypeOK, SavedInv
  <2>2. Matched(r) /\ (Running(r) <=> r = k) /\ ~Running(r)'
    BY <1>2, <1>4 DEF SavedInv, Running
  <2>3. Len(executed'[r]) = Len(executed[r]) + (IF r = k THEN 1 ELSE 0)
    <3>1. Len(Append(executed[r], Log!Row(f, now))) = Len(executed[r]) + 1
      BY <1>7, <2>1, AppendProperties
    <3>2. Len(executed[r]) \in Nat
      BY <2>1, LenProperties
    <3>3. executed'[r] = IF r = k THEN Append(executed[r], Log!Row(f, now))
                                  ELSE executed[r]
      BY <1>8
    <3> HIDE DEF k
    <3>4. CASE r = k
      BY <3>1, <3>3, <3>4
    <3>5. CASE r # k
      BY <3>2, <3>3, <3>5
    <3> QED
      BY <3>4, <3>5
  <2>4. Len(durations'[r]) = Len(durations[r]) + (IF r = k THEN 1 ELSE 0)
    BY <1>6
  <2> HIDE DEF k
  <2>5. CASE r = k
    <3>1. Len(executed'[r]) = Len(durations'[r])
      BY <2>2, <2>3, <2>4 DEF Matched
    <3>2. CASE Len(parameters[r]) = Len(durations[r]) + 1 /\ Rows(r) = executed[r]
      <4>1. Rows(r)' = executed'[r]
        BY <1>6, <1>8, <2>5, <3>2
      <4>2. Len(parameters'[r]) = Len(durations'[r])
        BY <1>3, <2>4, <2>5, <3>2
      <4> QED
        BY <2>1, <2>2, <2>4, <3>1, <4>1, <4>2 DEF Matched
    <3>3. CASE PapiReadMayFail /\ Len(parameters[r]) > Len(durations[r]) + 1
      <4>1. Len(parameters'[r]) > Len(durations'[r])
        BY <1>3, <2>1, <2>4, <2>5, <3>3
      <4>2. Len(durations'[r]) \in Nat /\ Len(parameters'[r]) \in Nat
        BY <1>3, <2>1, <2>4, <2>5
      <4> QED
        BY <2>2, <3>1, <3>3, <4>1, <4>2 DEF Matched
    <3> QED
      BY <2>2, <2>5, <3>2, <3>3 DEF Matched
  <2>6. CASE r # k
    BY <1>3, <1>6, <1>8, <2>1, <2>2, <2>3, <2>4, <2>6 DEF Matched
  <2> QED
    BY <2>5, <2>6
<1>10. Len(durations'[EMPTY]) = 5
  <2>1. EMPTY \in Region /\ Len(durations[EMPTY]) = 5 /\ EMPTY # k
    BY <1>4, <1>5 DEF SavedInv, Region
  <2> HIDE DEF k
  <2>2. Len(durations'[EMPTY]) = Len(durations[EMPTY]) + 0
    BY <1>6, <2>1
  <2> QED
    BY <2>1, <2>2
<1>11. NamesOfRegion' /\ SlotIsOwn' /\ OneAtATime'
  BY <1>2, <1>3 DEF SavedInv, NamesOfRegion, SlotIsOwn, OneAtATime
<1>12. saved' = <<>> /\ UserCode' /\ Live'
  BY <1>3, <1>4 DEF LifeInv, ContextInv, UserCode
<1> QED
  BY <1>8, <1>9, <1>10, <1>11, <1>12 DEF SavedInv, SavedIsComplete

\* A failing PAPI leaves the execution under way behind.
LEMMA SavedStopFails ==
  ASSUME TypeOK, LifeInv, SavedInv, StopFails
  PROVE  SavedInv'
<1>1. /\ open # <<>> /\ open' = <<>> /\ Live /\ Live' /\ PapiReadMayFail
      /\ UNCHANGED <<last_times, parameters, durations, saved, executed>>
  BY DEF StopFails, SavedInv, stats, context, Live
<1>2. saved' = <<>>
  BY <1>1 DEF LifeInv, ContextInv
<1>3. \A r \in Region \ {EMPTY} : Matched(r)'
  <2> SUFFICES ASSUME NEW r \in Region \ {EMPTY} PROVE Matched(r)'
    OBVIOUS
  <2>1. Len(parameters[r]) \in Nat /\ Len(durations[r]) \in Nat
    BY LenProperties DEF TypeOK
  <2>2. Matched(r) /\ ~Running(r)' /\ Rows(r)' = Rows(r)
    BY <1>1 DEF SavedInv, Running, Rows
  <2>3. CASE Running(r)
    BY <1>1, <2>1, <2>2, <2>3 DEF Matched
  <2>4. CASE ~Running(r)
    BY <1>1, <2>1, <2>2, <2>4 DEF Matched
  <2> QED
    BY <2>3, <2>4
<1> QED
  BY <1>1, <1>2, <1>3
     DEF SavedInv, NamesOfRegion, SlotIsOwn, OneAtATime, SavedIsComplete

\* The rows that the destructor writes are the executions: its assertion, or a
\* PAPI that never fails, leaves no region with parameters in excess.
LEMMA SavedResults ==
  ASSUME AssertsEnabled \/ ~PapiReadMayFail,
         TypeOK, LifeInv, SavedInv, Live, phase \in {"fini", "unload"}, SaveResults
  PROVE  SavedInv'
<1>1. /\ ~Live' /\ open = <<>> /\ open' = <<>>
      /\ phase' # "init"
      /\ executed' = executed
      /\ \A r \in Region : parameters'[r] = <<>> /\ durations'[r] = <<>>
  BY DEF SaveResults, DestroyContext, Return, Live, SavedInv, UserCode
<1>2. saved'[1] = serializeToJson
  BY DEF SaveResults, LifeInv, ContextInv
<1>3. ASSUME NEW r \in Region \ {EMPTY}
      PROVE  RowsIn(serializeToJson, r) = executed[r]
  <2>1. /\ Matched(r) /\ ~Running(r)
        /\ durations[r] \in Seq(Duration) /\ executed[r] \in Seq(AnyRow)
        /\ Len(durations[r]) \in Nat /\ Len(parameters[r]) \in Nat
    BY <1>1, LenProperties DEF SavedInv, Running, TypeOK
  <2>2. CASE durations[r] # <<>>
    <3>1. r \in Finished
      BY <2>2 DEF Finished
    <3>2. AssertsEnabled => Len(parameters[r]) = Len(durations[r])
      BY <3>1 DEF SaveResults, StartsMatchStops
    <3>3. Rows(r) = executed[r]
      BY <2>1, <3>2, RuntimeAssumption DEF Matched
    <3> QED
      BY <3>1, <3>3 DEF RowsIn, serializeToJson
  <2>3. CASE durations[r] = <<>>
    <3>1. executed[r] = <<>>
      BY <2>1, <2>3, EmptySeq DEF Matched
    <3> QED
      BY <2>3, <3>1 DEF RowsIn, serializeToJson, Finished
  <2> QED
    BY <2>2, <2>3
<1>4. Len(RowsIn(serializeToJson, EMPTY)) = 5
  <2>1. /\ EMPTY \in Region /\ Len(durations[EMPTY]) = 5
        /\ durations[EMPTY] \in Seq(Duration)
    BY DEF SavedInv, Region, TypeOK
  <2>2. durations[EMPTY] # <<>> /\ DOMAIN durations[EMPTY] = 1 .. 5
    <3> HIDE DEF EMPTY
    <3> QED
      BY <2>1, LenProperties
  <2>3. RowsIn(serializeToJson, EMPTY) = Rows(EMPTY)
    BY <2>1, <2>2 DEF RowsIn, serializeToJson, Finished
  <2> QED
    BY <2>2, <2>3 DEF Rows
<1>5. SavedIsComplete'
  BY <1>1, <1>2, <1>3, <1>4 DEF SavedIsComplete, RowsIn
<1> QED
  BY <1>1, <1>5, OwnRegion DEF SavedInv, OneAtATime, SlotIsOwn, NamesOfRegion

\* Losing them writes nothing, and a later image has nothing to write.
LEMMA SavedLoss ==
  ASSUME TypeOK, LifeInv, SavedInv, phase \in {"fini", "unload"},
         (Live /\ (SaveFails \/ SaveAborts)) \/ (~Live /\ NothingToFinish)
  PROVE  SavedInv'
<1>1. /\ ~Live' /\ open = <<>> /\ open' = <<>>
      /\ phase' # "init"
      /\ executed' = executed /\ saved' = saved
      /\ \A r \in Region : parameters'[r] = <<>> /\ durations'[r] = <<>>
  BY DEF SaveFails, SaveAborts, NothingToFinish, DestroyContext, Return, exit,
         AfterExit, Live, SavedInv, UserCode, stats, context
<1> QED
  BY <1>1, OwnRegion
     DEF SavedInv, OneAtATime, SlotIsOwn, NamesOfRegion, SavedIsComplete

\* What the other steps leave alone.
Untouched ==
  /\ UNCHANGED <<last_times, parameters, durations, ctx, saved, executed>>
  /\ open' = open
  /\ now <= now'
  /\ phase' = "init" /\ ~Live => phase = "init"
  /\ UserCode /\ Live /\ open # <<>> => UserCode'

\* A step that leaves the context, the vectors and the stack alone.
LEMMA SavedUntouched ==
  ASSUME TypeOK, TypeOK', SavedInv, Untouched
  PROVE  SavedInv'
<1> USE DEF Untouched
<1>1. SlotIsOwn'
  <2> SUFFICES ASSUME open # <<>>
               PROVE  open[1].begin <= now'
    BY DEF SavedInv, SlotIsOwn
  <2>1. open[1] \in Execution
    BY EmptySeq, ElementOfSeq, FrontType DEF TypeOK
  <2>2. open[1].begin \in Nat /\ now \in Nat /\ now' \in Nat
    BY <2>1, StatisticsAssumption DEF TypeOK, Execution
  <2> QED
    BY <2>2 DEF SavedInv, SlotIsOwn
<1>2. \A r \in Region \ {EMPTY} : Matched(r)' <=> Matched(r)
  BY DEF Matched, Running, Rows
<1>3. OneAtATime' /\ NamesOfRegion' /\ SavedIsComplete'
  BY DEF SavedInv, OneAtATime, NamesOfRegion, SavedIsComplete, RowsIn
<1> QED
  BY <1>1, <1>2, <1>3 DEF SavedInv, Live

\* For programs without nesting whose region names identify the parameter
\* names, and as long as PAPI does not fail or assertions are compiled in: a
\* region's rows are its executions, or a start in excess keeps them unwritten.
THEOREM SavedInvCorrect ==
  ASSUME MaxDepth = 1, NamesIdentify, AssertsEnabled \/ ~PapiReadMayFail
  PROVE  ProcessSpec => []SavedInv
<1>1. ProcessInit => SavedInv
  <2> SUFFICES ASSUME ProcessInit PROVE SavedInv
    OBVIOUS
  <2>1. NamesOfRegion
    BY OwnRegion DEF ProcessInit, Init, NamesOfRegion
  <2> QED
    BY <2>1
       DEF ProcessInit, Init, SavedInv, OneAtATime, SlotIsOwn, Live, SavedIsComplete
<1>2. LifeInv /\ ProcessTypeOK /\ ProcessTypeOK' /\ SavedInv /\ [ProcessNext]_allVars
        => SavedInv'
  <2> SUFFICES ASSUME LifeInv, ProcessTypeOK, ProcessTypeOK', SavedInv,
                      [ProcessNext]_allVars
               PROVE  SavedInv'
    OBVIOUS
  <2>0. TypeOK /\ TypeOK' /\ now \in Nat
    BY StatisticsAssumption DEF ProcessTypeOK, TypeOK
  <2>1. ASSUME NEW c \in Configs, InitContext(c)
        PROVE  SavedInv'
    BY <2>0, <2>1, SavedInit
  <2>2. ASSUME NEW s \in Scop, NEW v \in ValuesOf[s], StartScop(s, v)
        PROVE  SavedInv'
    BY <2>0, <2>2, SavedStart, MaxDepth = 1, NamesIdentify
  <2>3. CASE StopScop
    BY <2>0, <2>3, SavedStop
  <2>4. CASE StopFails
    BY <2>0, <2>4, SavedStopFails
  <2>5. CASE finish_profiling \/ Unload
    BY <2>0, <2>5, SavedResults, SavedLoss, AssertsEnabled \/ ~PapiReadMayFail
       DEF finish_profiling, Unload
  <2>6. ASSUME NEW c \in Configs, InitExit(c) \/ InitAbort(c)
        PROVE  SavedInv'
    <3>1. Untouched
      BY <2>0, <2>6 DEF InitExit, InitAbort, Untouched, exit, AfterExit, stats,
         context, Live, UserCode
    <3> QED
      BY <2>0, <3>1, SavedUntouched
  <2>7. ASSUME NEW s \in Scop, StartFails(s)
        PROVE  SavedInv'
    <3>1. Untouched
      BY <2>0, <2>7 DEF StartFails, Untouched, exit, AfterExit, stats,
         context, Live, UserCode, CanRun
    <3> QED
      BY <2>0, <3>1, SavedUntouched
  <2>8. ASSUME NEW s \in Scop, StartThrows(s) \/ StartCrashes(s)
        PROVE  SavedInv'
    <3>1. open = <<>>
      <4>1. Len(open) < 1 /\ open \in Seq(Execution)
        BY <2>0, <2>8, MaxDepth = 1 DEF StartThrows, StartCrashes, CanRun, TypeOK
      <4> QED
        BY <4>1, EmptySeq
    <3>2. Untouched
      BY <2>0, <2>8, <3>1 DEF StartThrows, StartCrashes, Untouched, stats,
         context, Live, UserCode
    <3> QED
      BY <2>0, <3>2, SavedUntouched
  <2>9. CASE InitSkip \/ Advance \/ Exit
    <3>1. open = <<>> /\ (phase = "ctors" => Live)
      BY <2>9 DEF InitSkip, Advance, Exit, SavedInv, UserCode, LifeInv, ContextLive
    <3>2. Untouched
      BY <2>0, <2>9, <3>1 DEF InitSkip, Advance, Exit, Untouched, exit, AfterExit,
         stats, context, Live, UserCode
    <3> QED
      BY <2>0, <3>2, SavedUntouched
  <2>10. CASE Work
    <3>1. Untouched
      BY <2>0, <2>10 DEF Work, Tick, Untouched, stats, process, context, Live, UserCode
    <3> QED
      BY <2>0, <3>1, SavedUntouched
  <2>11. CASE UNCHANGED allVars
    <3>1. Untouched
      BY <2>0, <2>11 DEF allVars, Untouched, stats, process, context, Live, UserCode
    <3> QED
      BY <2>0, <3>1, SavedUntouched
  <2> QED
    BY <2>1, <2>2, <2>3, <2>4, <2>5, <2>6, <2>7, <2>8, <2>9, <2>10, <2>11
       DEF ProcessNext, init_profiling, Terminated
<1> QED
  BY <1>1, <1>2, LifeCorrect, ProcessTypeCorrect, PTL DEF ProcessSpec

\* So what is written is complete: one row for each execution that finished.
THEOREM SavedCorrect ==
  ASSUME MaxDepth = 1, NamesIdentify, AssertsEnabled \/ ~PapiReadMayFail
  PROVE  ProcessSpec => []SavedIsComplete
<1>1. SavedInv => SavedIsComplete
  BY DEF SavedInv
<1> QED
  BY <1>1, SavedInvCorrect, PTL
-----------------------------------------------------------------------------
(* What runtime_library_exit refutes, where it does hold. *)

\* Only the executable has SCoPs; and if it is the only image, the library
\* accepts its configuration.
ScopsInExecutable ==
  /\ \A s \in Scop : ImageOf[s] = NumImages
  /\ NumImages = 1 => \A c \in Configs : ~Refused(c)

\* The destructors of the executable still find the context.
CrashFree ==
  /\ phase # "crashed"
  /\ phase = "dtors" /\ img = NumImages => Live

\* For any number of images and however the process exits: if only the
\* executable has SCoPs, no instrumented code calls a library without a context,
\* its destructors included.
THEOREM NeverCrashesInExecutable ==
  ASSUME ScopsInExecutable PROVE ProcessSpec => []NeverCrashes
<1>1. ProcessInit => CrashFree
  BY DEF ProcessInit, CrashFree
<1>2. LifeInv /\ CrashFree /\ [ProcessNext]_allVars => CrashFree'
  <2> SUFFICES ASSUME LifeInv, CrashFree, [ProcessNext]_allVars PROVE CrashFree'
    OBVIOUS
  <2> USE DEF LifeInv, LifeTypeOK, ContextLive, ContextInv, CrashFree, Live
  <2>0. NumImages \in Nat \ {0} /\ img \in 1 .. NumImages
    BY RuntimeAssumption
  <2>1. ASSUME NEW c \in Configs, InitExit(c)
        PROVE  CrashFree'
    <3>1. NumImages # 1 /\ img = 1
      BY <2>0, <2>1, ScopsInExecutable DEF InitExit, ScopsInExecutable
    <3> QED
      BY <2>1, <3>1 DEF InitExit, exit, AfterExit
  <2>2. ASSUME NEW c \in Configs, InitContext(c) \/ InitAbort(c)
        PROVE  CrashFree'
    BY <2>2 DEF InitContext, InitAbort
  <2>3. ASSUME NEW s \in Scop, StartCrashes(s)
        PROVE  CrashFree'
    <3>1. UserCode /\ ~Live /\ img = NumImages
      BY <2>0, <2>3, ScopsInExecutable DEF StartCrashes, CanRun, ScopsInExecutable
    <3> QED
      BY <3>1 DEF UserCode
  <2>4. ASSUME NEW s \in Scop, StartFails(s) \/ StartThrows(s)
        PROVE  CrashFree'
    BY <2>4 DEF StartFails, StartThrows, CanRun, UserCode, exit, AfterExit, context
  <2>5. ASSUME NEW s \in Scop, NEW v \in ValuesOf[s], StartScop(s, v)
        PROVE  CrashFree'
    BY <2>5 DEF StartScop, process, context
  <2>6. CASE StopScop \/ Work
    BY <2>6 DEF StopScop, Work, process, context
  <2>7. CASE StopFails
    BY <2>7 DEF StopFails, UserCode, exit, AfterExit, context
  <2>8. CASE finish_profiling \/ Unload
    <3>1. phase' # "crashed" /\ (phase' = "dtors" => img' # NumImages)
      BY <2>0, <2>8
         DEF finish_profiling, Unload, SaveResults, SaveFails, SaveAborts,
             NothingToFinish, Return, exit, AfterExit
    <3> QED
      BY <3>1
  <2>9. CASE InitSkip \/ Advance
    BY <2>9 DEF InitSkip, Advance, context
  <2>10. CASE Exit
    BY <2>10 DEF Exit, exit, AfterExit, context
  <2>11. CASE UNCHANGED allVars
    BY <2>11 DEF allVars, process, context
  <2> QED
    BY <2>1, <2>2, <2>3, <2>4, <2>5, <2>6, <2>7, <2>8, <2>9, <2>10, <2>11
       DEF ProcessNext, init_profiling, Terminated
<1>3. CrashFree => NeverCrashes
  BY DEF CrashFree, NeverCrashes
<1> QED
  BY <1>1, <1>2, <1>3, LifeCorrect, PTL DEF ProcessSpec

-----------------------------------------------------------------------------
(* What runtime_papi_error refutes, where it does hold. *)

\* No SCoP is under way while an image is initialised or finalised.
Settled == phase \in {"init", "fini", "unload"} => open = <<>>

\* The five measurements of the constructor are one parameter vector and one
\* duration each.
LEMMA CountsContext ==
  ASSUME TypeOK, CountsAgree, open = <<>>, NEW c \in Configs, InitContext(c)
  PROVE  CountsAgree'
<1> SUFFICES ASSUME NEW r \in Region
             PROVE  Len(parameters'[r]) = Len(durations'[r]) + Cardinality(OpenIn(r)')
  BY DEF CountsAgree
<1> DEFINE d == Elapsed(Timepoints(now), Timepoints(now))
<1>1. /\ Len(parameters[r]) = Len(durations[r]) + Cardinality(OpenIn(r))
      /\ OpenIn(r)' = OpenIn(r) /\ OpenIn(r) = {}
  BY DEF CountsAgree, InitContext, OpenIn
<1>2. /\ parameters' = [parameters EXCEPT ![EMPTY] = [i \in 1 .. 5 |-> NoParams]]
      /\ durations' = [durations EXCEPT ![EMPTY] = [i \in 1 .. 5 |-> d]]
      /\ parameters \in [Region -> Seq(Params)]
      /\ durations \in [Region -> Seq(Duration)]
  BY DEF InitContext, TypeOK
<1> HIDE DEF d
<1>3. CASE r = EMPTY
  <2>1. /\ parameters'[r] = [i \in 1 .. 5 |-> NoParams]
        /\ durations'[r] = [i \in 1 .. 5 |-> d]
    BY <1>2, <1>3
  <2>2. Len(parameters'[r]) = 5 /\ Len(durations'[r]) = 5
    BY <2>1
  <2> QED
    BY <1>1, <2>2, FS_EmptySet
<1>4. CASE r # EMPTY
  BY <1>1, <1>2, <1>4
<1> QED
  BY <1>3, <1>4

\* The destructor leaves nothing to count.
LEMMA CountsFinish ==
  ASSUME TypeOK, CountsAgree, open = <<>>, finish_profiling \/ Unload
  PROVE  CountsAgree' /\ open' = <<>>
<1>1. open' = <<>> /\ \/ UNCHANGED <<parameters, durations>>
                      \/ \A r \in Region : parameters'[r] = <<>> /\ durations'[r] = <<>>
  BY DEF finish_profiling, Unload, SaveResults, SaveFails, SaveAborts,
         DestroyContext, NothingToFinish, stats
<1>2. ASSUME NEW r \in Region
      PROVE  Len(parameters'[r]) = Len(durations'[r]) + Cardinality(OpenIn(r)')
  <2>1. OpenIn(r)' = {} /\ OpenIn(r) = {} /\ Cardinality({}) = 0
    BY <1>1, FS_EmptySet DEF OpenIn
  <2>2. Len(parameters[r]) = Len(durations[r]) + 0
    BY <2>1 DEF CountsAgree
  <2>3. Len(parameters'[r]) = Len(durations'[r]) + 0
    <3>1. CASE UNCHANGED <<parameters, durations>>
      BY <2>2, <3>1
    <3>2. CASE \A x \in Region : parameters'[x] = <<>> /\ durations'[x] = <<>>
      BY <3>2
    <3> QED
      BY <1>1, <3>1, <3>2
  <2> QED
    BY <2>1, <2>3
<1> QED
  BY <1>1, <1>2 DEF CountsAgree

\* However SCoPs nest and wherever the process exits: unless PAPI fails while a
\* SCoP runs, each start has been followed by its stop when the destructor of
\* the context serialises the results, so its assertion holds.
THEOREM AssertionAlwaysHolds ==
  ASSUME ~PapiReadMayFail PROVE ProcessSpec => []AssertionHolds
<1>1. ProcessInit => CountsAgree /\ Settled
  <2> SUFFICES ASSUME ProcessInit PROVE CountsAgree /\ Settled
    OBVIOUS
  <2>1. open = <<>> /\ \A r \in Region : parameters[r] = <<>> /\ durations[r] = <<>>
    BY DEF ProcessInit, Init
  <2>2. ASSUME NEW r \in Region
        PROVE  Len(parameters[r]) = Len(durations[r]) + Cardinality(OpenIn(r))
    <3>1. OpenIn(r) = {}
      BY <2>1 DEF OpenIn
    <3> QED
      BY <2>1, <3>1, FS_EmptySet
  <2> QED
    BY <2>1, <2>2 DEF CountsAgree, Settled
<1>2. /\ ProcessTypeOK /\ ProcessTypeOK' /\ CountsAgree /\ Settled
      /\ [ProcessNext]_allVars
      => CountsAgree' /\ Settled'
  <2> SUFFICES ASSUME ProcessTypeOK, ProcessTypeOK', CountsAgree, Settled,
                      [ProcessNext]_allVars
               PROVE  CountsAgree' /\ Settled'
    OBVIOUS
  <2>0. TypeOK /\ now' \in 0 .. MaxNow
    BY DEF ProcessTypeOK, TypeOK
  <2>1. ASSUME UNCHANGED <<open, parameters, durations>>
        PROVE  CountsAgree'
    BY <2>1 DEF CountsAgree, OpenIn
  <2>2. ASSUME NEW c \in Configs, InitContext(c)
        PROVE  CountsAgree' /\ Settled'
    BY <2>0, <2>2, CountsContext DEF InitContext, Settled
  <2>3. ASSUME NEW s \in Scop, NEW v \in ValuesOf[s], StartScop(s, v)
        PROVE  CountsAgree' /\ Settled'
    <3>1. CountsAgree'
      BY <2>0, <2>3, CountsStart DEF StartScop
    <3> QED
      BY <2>3, <3>1 DEF StartScop, CanRun, UserCode, process, Settled
  <2>4. CASE StopScop
    <3>1. CountsAgree'
      BY <2>0, <2>4, CountsStop DEF StopScop
    <3> QED
      BY <2>4, <3>1 DEF StopScop, UserCode, process, Settled
  <2>5. CASE finish_profiling \/ Unload
    <3>1. open = <<>>
      BY <2>5 DEF finish_profiling, Unload, Settled
    <3> QED
      BY <2>0, <2>5, <3>1, CountsFinish DEF Settled
  <2>6. ASSUME StopFails \/ \E s \in Scop : StartFails(s)
        PROVE  FALSE
    BY <2>6, ~PapiReadMayFail DEF StopFails, StartFails
  <2>7. ASSUME NEW s \in Scop, StartThrows(s) \/ StartCrashes(s)
        PROVE  CountsAgree' /\ Settled'
    BY <2>1, <2>7 DEF StartThrows, StartCrashes, stats, Settled
  <2>8. ASSUME NEW c \in Configs, InitExit(c) \/ InitAbort(c)
        PROVE  CountsAgree' /\ Settled'
    BY <2>1, <2>8 DEF InitExit, InitAbort, stats, Settled
  <2>9. CASE InitSkip \/ Advance \/ Exit
    BY <2>1, <2>9 DEF InitSkip, Advance, Exit, stats, Settled
  <2>10. CASE Work
    BY <2>1, <2>10 DEF Work, Tick, stats, process, Settled
  <2>11. CASE UNCHANGED allVars
    BY <2>1, <2>11 DEF allVars, stats, process, Settled
  <2> QED
    BY <2>2, <2>3, <2>4, <2>5, <2>6, <2>7, <2>8, <2>9, <2>10, <2>11
       DEF ProcessNext, init_profiling, Terminated
<1>3. ProcessTypeOK /\ CountsAgree /\ Settled => AssertionHolds
  <2> SUFFICES ASSUME ProcessTypeOK, CountsAgree, Settled,
                      Live, phase \in {"fini", "unload"}
               PROVE  StartsMatchStops
    BY DEF AssertionHolds
  <2>1. \A r \in Region : OpenIn(r) = {} /\ Len(durations[r]) \in Nat
    BY LenProperties DEF Settled, OpenIn, ProcessTypeOK, TypeOK
  <2> QED
    BY <2>1, FS_EmptySet DEF CountsAgree, StartsMatchStops, Finished
<1> QED
  BY <1>1, <1>2, <1>3, ProcessTypeCorrect, PTL DEF ProcessSpec
=============================================================================
