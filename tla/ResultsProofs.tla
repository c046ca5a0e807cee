---------------------------- MODULE ResultsProofs ----------------------------
(***************************************************************************)
(* The profiling library implements ResultsFile, for any number of images, *)
(* any configuration files and any program without nesting.                *)
(***************************************************************************)
EXTENDS RuntimeProofs

\* Until it exits, a process has not failed.
StatusInv == phase \in {"init", "ctors", "main"} => status = 0

\* What the steps below are taken from.
ResultsInv ==
  /\ LifeInv
  /\ ProcessTypeOK
  /\ SavedInv
  /\ StatusInv

\* Nothing that ResultsFile speaks of changes.
Idle ==
  /\ UNCHANGED <<now, open, executed, saved>>
  /\ LogStage' = LogStage
  /\ Failed' = Failed

-----------------------------------------------------------------------------
\* exit(0) is called only from code that runs before the process exits.
THEOREM StatusCorrect == ProcessSpec => []StatusInv
<1>1. ProcessInit => StatusInv
  BY DEF ProcessInit, StatusInv
<1>2. StatusInv /\ [ProcessNext]_allVars => StatusInv'
  <2> SUFFICES ASSUME StatusInv, [ProcessNext]_allVars PROVE StatusInv'
    OBVIOUS
  <2> USE DEF StatusInv
  <2>1. CASE init_profiling
    BY <2>1 DEF init_profiling, InitSkip, InitContext, InitExit, InitAbort, exit, AfterExit
  <2>2. ASSUME NEW s \in Scop, StartFails(s) \/ StartCrashes(s) \/ StartThrows(s)
        PROVE  StatusInv'
    BY <2>2 DEF StartFails, StartCrashes, StartThrows, CanRun, UserCode, exit, AfterExit
  <2>3. ASSUME NEW s \in Scop, NEW v \in ValuesOf[s], StartScop(s, v)
        PROVE  StatusInv'
    BY <2>3 DEF StartScop, process
  <2>4. CASE StopScop \/ Work
    BY <2>4 DEF StopScop, Work, process
  <2>5. CASE StopFails
    BY <2>5 DEF StopFails, UserCode, exit, AfterExit
  <2>6. CASE finish_profiling \/ Unload
    BY <2>6 DEF finish_profiling, Unload, SaveResults, SaveFails, SaveAborts,
       NothingToFinish, Return, exit, AfterExit
  <2>7. CASE Advance
    BY <2>7 DEF Advance
  <2>8. CASE Exit
    BY <2>8 DEF Exit, exit, AfterExit
  <2>9. CASE UNCHANGED allVars
    BY <2>9 DEF allVars, process
  <2> QED
    BY <2>1, <2>2, <2>3, <2>4, <2>5, <2>6, <2>7, <2>8, <2>9
       DEF ProcessNext, Terminated
<1> QED
  BY <1>1, <1>2, PTL DEF ProcessSpec

\* The names of ResultsFile are those of this specification.
LEMMA ResultsNames ==
  /\ \A s : Results!RegionName(s) = RegionName(s)
  /\ Results!Region = Region /\ Results!EMPTY = EMPTY
  BY DEF Results!RegionName, RegionName, Results!Region, Region, Results!EMPTY, EMPTY

\* A step that changes nothing of it stutters.
LEMMA IdleStutters ==
  ASSUME Idle
  PROVE  UNCHANGED Results!resultsVars
<1>1. UnderWay' = UnderWay /\ Written' = Written
  BY DEF Idle, UnderWay, Written, RowsIn
<1> QED
  BY <1>1 DEF Idle, Results!resultsVars

\* Without an execution under way, there is none in ResultsFile.
LEMMA NoneUnderWay ==
  /\ open = <<>> => UnderWay = {}
  /\ open' = <<>> => UnderWay' = {}
  BY DEF UnderWay

\* Creating the context opens the log.
LEMMA ContextOpens ==
  ASSUME ResultsInv, NEW c \in Configs, InitContext(c)
  PROVE  Results!Open
<1>1. LogStage = "before" /\ LogStage' = "open"
  BY DEF InitContext, LogStage, Live
<1>2. UNCHANGED <<now, open, executed, saved, status>>
      /\ phase = "init" /\ phase' = "ctors"
  BY DEF InitContext
<1>3. UnderWay' = UnderWay /\ Written' = Written /\ Failed' = Failed
  BY <1>2 DEF UnderWay, Written, Failed, RowsIn
<1> QED
  BY <1>1, <1>2, <1>3 DEF Results!Open

\* A configuration that is refused or unreadable loses it.
LEMMA RefusalLoses ==
  ASSUME ResultsInv, NEW c \in Configs, InitExit(c) \/ InitAbort(c)
  PROVE  Results!Lose
<1>1. /\ phase = "init" /\ ~Live /\ ~Live'
      /\ UNCHANGED <<now, open, executed, saved>>
      /\ phase' # "init" /\ Failed'
  BY DEF InitExit, InitAbort, exit, AfterExit, context, Live, Failed
<1>2. LogStage = "before" /\ LogStage' = "closed"
  BY <1>1 DEF LogStage
<1>3. open = <<>>
  BY <1>1 DEF ResultsInv, SavedInv
<1>4. UnderWay = {} /\ UnderWay' = {} /\ Written' = Written
  BY <1>1, <1>3, NoneUnderWay DEF Written, RowsIn
<1> QED
  BY <1>1, <1>2, <1>4 DEF Results!Lose, Failed

\* Entering a SCoP begins an execution, once the cache is flushed.
LEMMA StartScopBegins ==
  ASSUME MaxDepth = 1, ResultsInv,
         NEW s \in Scop, NEW v \in ValuesOf[s], StartScop(s, v)
  PROVE  Results!BeginLater(s, v)
<1>1. open = <<>> /\ open' = <<Frame(s, v, now')>>
  <2>1. Len(open) < 1 /\ open' = Append(open, Frame(s, v, now'))
    BY MaxDepth = 1 DEF StartScop, CanRun
  <2>2. open = <<>>
    BY <2>1, EmptySeq DEF ResultsInv, ProcessTypeOK, TypeOK
  <2> QED
    BY <2>1, <2>2
<1>2. UnderWay = {} /\ UnderWay' = {Frame(s, v, now')}
  BY <1>1, NoneUnderWay DEF UnderWay
<1>3. Live /\ Live' /\ UNCHANGED <<phase, status, executed, saved>>
  BY DEF StartScop, process, context, Live
<1>4. /\ LogStage = "open" /\ LogStage' = LogStage
      /\ Written' = Written /\ Failed' = Failed
  BY <1>3 DEF LogStage, Written, RowsIn, Failed
<1>5. now' >= now
  <2>1. cache_size \in Int /\ flush_cache \in BOOLEAN /\ TypeOK
    BY RuntimeAssumption, CacheFlushAssumption
       DEF ResultsInv, ProcessTypeOK, IntRange, Half
  <2>2. TypeOK' /\ now <= now'
    BY <2>1, StartScopType
  <2> QED
    BY <2>1, <2>2, StatisticsAssumption DEF TypeOK
<1> QED
  BY <1>2, <1>3, <1>4, <1>5 DEF Results!BeginLater, Frame

\* Leaving it ends the execution with its row.
LEMMA StopScopFinishes ==
  ASSUME ResultsInv, StopScop
  PROVE  \E f \in UnderWay : Results!Finish(f)
<1>1. PICK f \in Execution : open = <<f>>
  <2>1. /\ open \in Seq(Execution) /\ open # <<>> /\ Len(open) = 1
        /\ open[1] \in Execution
    BY FrontType DEF StopScop, ResultsInv, ProcessTypeOK, TypeOK, SavedInv, OneAtATime
  <2> QED
    BY <2>1, LenProperties
<1>2. Innermost = f /\ open' = <<>>
  BY <1>1 DEF StopScop, Innermost
<1>3. UnderWay = {f} /\ UnderWay' = {}
  BY <1>1, <1>2, NoneUnderWay DEF UnderWay
<1>4. /\ now' = now /\ UNCHANGED <<phase, status, saved, ctx>>
      /\ executed' = [executed EXCEPT ![RegionName(f.scop)] = Append(@, Log!Row(f, now))]
  BY <1>2 DEF StopScop, process, context
<1>5. Live
  BY <1>1 DEF ResultsInv, SavedInv
<1>6. /\ LogStage = "open" /\ LogStage' = LogStage
      /\ Written' = Written /\ Failed' = Failed
  BY <1>4, <1>5 DEF LogStage, Live, Written, RowsIn, Failed
<1>7. Results!Row(f, now) = Log!Row(f, now)
  BY DEF Results!Row, Log!Row, Results!Exactly, Log!Exactly
<1>8. Results!End(f)
  BY <1>3, <1>4, <1>7, ResultsNames DEF Results!End
<1> QED
  BY <1>3, <1>6, <1>8 DEF Results!Finish

\* A failing PAPI leaves an execution without a row.
LEMMA StopFailsAbandons ==
  ASSUME ResultsInv, StopFails
  PROVE  \E f \in UnderWay : Results!Abandon(f)
<1>1. PICK f \in Execution : open = <<f>>
  <2>1. /\ open \in Seq(Execution) /\ open # <<>> /\ Len(open) = 1
        /\ open[1] \in Execution
    BY FrontType DEF StopFails, ResultsInv, ProcessTypeOK, TypeOK, SavedInv, OneAtATime
  <2> QED
    BY <2>1, LenProperties
<1>2. UnderWay = {f} /\ UnderWay' = {}
  BY <1>1, NoneUnderWay DEF UnderWay, StopFails
<1>3. UNCHANGED <<now, saved, executed, ctx>> /\ status' = 1
  BY DEF StopFails, exit, context
<1>4. Live
  BY <1>1 DEF ResultsInv, SavedInv
<1>5. LogStage' = LogStage /\ Written' = Written /\ Failed'
  BY <1>3, <1>4 DEF LogStage, Live, Written, RowsIn, Failed
<1> QED
  BY <1>2, <1>3, <1>5 DEF Results!Abandon, Failed

\* Writing the results publishes the whole log.
LEMMA SavePublishes ==
  ASSUME ResultsInv, SavedInv', Live, phase \in {"fini", "unload"}, SaveResults
  PROVE  Results!Publish
<1>1. /\ ~Live' /\ UNCHANGED <<now, open, executed>>
      /\ saved' = Append(saved, serializeToJson)
  BY DEF SaveResults, DestroyContext, Live
<1>2. phase' # "init" /\ status' = status
      /\ phase' \notin {"aborted", "crashed"} /\ phase \notin {"aborted", "crashed"}
  BY DEF SaveResults, Return
<1>3. saved = <<>> /\ open = <<>>
  BY DEF ResultsInv, LifeInv, ContextInv, SavedInv, UserCode
<1>4. saved' = <<serializeToJson>>
  BY <1>1, <1>3
<1>5. Written = <<>>
  BY <1>3 DEF Written
<1>6. Written' = <<Results!Published(executed)>>
  <2>1. \A r \in Region \ {EMPTY} : RowsIn(saved'[1], r) = executed[r]
    BY <1>1, <1>4 DEF SavedInv, SavedIsComplete, RowsIn
  <2>2. [r \in Region \ {EMPTY} |-> RowsIn(saved'[1], r)]
          = [r \in Region \ {EMPTY} |-> executed[r]]
    BY <2>1
  <2>3. DOMAIN saved' = 1 .. 1
    BY <1>4
  <2>4. Written' = [i \in 1 .. 1 |-> [r \in Region \ {EMPTY} |-> RowsIn(saved'[i], r)]]
    BY <2>3 DEF Written, RowsIn
  <2>5. Written' = <<[r \in Region \ {EMPTY} |-> executed[r]]>>
    BY <2>2, <2>4
  <2> QED
    BY <2>5, ResultsNames DEF Results!Published
<1>7. LogStage = "open" /\ LogStage' = "closed"
  BY <1>1, <1>2 DEF LogStage
<1>8. UnderWay = {} /\ UnderWay' = {} /\ Failed' = Failed
  BY <1>1, <1>2, <1>3, NoneUnderWay DEF Failed
<1> QED
  BY <1>1, <1>5, <1>6, <1>7, <1>8 DEF Results!Publish

\* Not writing them loses it.
LEMMA LossLoses ==
  ASSUME ResultsInv, Live, phase \in {"fini", "unload"}, SaveFails \/ SaveAborts
  PROVE  Results!Lose
<1>1. /\ ~Live' /\ UNCHANGED <<now, open, executed, saved>>
      /\ phase' # "init" /\ Failed'
  BY DEF SaveFails, SaveAborts, DestroyContext, exit, AfterExit, Live, Failed
<1>2. open = <<>>
  BY DEF ResultsInv, SavedInv, UserCode
<1>3. LogStage = "open" /\ LogStage' = "closed"
  BY <1>1 DEF LogStage
<1>4. UnderWay = {} /\ UnderWay' = {} /\ Written' = Written
  BY <1>1, <1>2, NoneUnderWay DEF Written, RowsIn
<1> QED
  BY <1>1, <1>3, <1>4 DEF Results!Lose, Failed

\* A start that does not return fails the process.
LEMMA StartLostFails ==
  ASSUME MaxDepth = 1, ResultsInv, NEW s \in Scop,
         StartFails(s) \/ StartThrows(s) \/ StartCrashes(s)
  PROVE  Results!Fail
<1>1. open = <<>>
  <2>1. Len(open) < 1 /\ open \in Seq(Execution)
    BY MaxDepth = 1
       DEF StartFails, StartThrows, StartCrashes, CanRun, ResultsInv, ProcessTypeOK, TypeOK
  <2> QED
    BY <2>1, EmptySeq
<1>2. UNCHANGED <<now, open, executed, saved, ctx>>
  BY <1>1 DEF StartFails, StartThrows, StartCrashes, context
<1>3. Failed' /\ phase # "init" /\ phase' # "init"
  BY DEF StartFails, StartThrows, StartCrashes, CanRun, UserCode, exit, AfterExit, Failed
<1>4. UnderWay' = UnderWay /\ Written' = Written /\ LogStage' = LogStage
  BY <1>2, <1>3 DEF UnderWay, Written, RowsIn, LogStage, Live
<1> QED
  BY <1>2, <1>3, <1>4 DEF Results!Fail, Failed

\* Time passes in both.
LEMMA WorkPasses ==
  ASSUME ResultsInv, Work
  PROVE  Results!Pass
<1>1. /\ now' = now + 1
      /\ UNCHANGED <<open, executed, saved, ctx, phase, status>>
  BY DEF Work, Tick, process, context
<1>2. /\ UnderWay' = UnderWay /\ Written' = Written /\ LogStage' = LogStage
      /\ Failed' = Failed
  BY <1>1 DEF UnderWay, Written, RowsIn, LogStage, Live, Failed
<1> QED
  BY <1>1, <1>2 DEF Results!Pass, Results!Tick

\* The other steps only move the process on.
LEMMA OthersIdle ==
  ASSUME ResultsInv,
         \/ InitSkip
         \/ Advance
         \/ Exit
         \/ phase \in {"fini", "unload"} /\ ~Live /\ NothingToFinish
         \/ UNCHANGED allVars
  PROVE  Idle
<1>1. CASE InitSkip
  BY <1>1 DEF InitSkip, context, Idle, LogStage, Live, Failed
<1>2. CASE Advance
  <2>1. phase = "ctors" => Live
    BY DEF ResultsInv, LifeInv, ContextLive
  <2> QED
    BY <1>2, <2>1 DEF Advance, context, Idle, LogStage, Live, Failed
<1>3. CASE Exit
  <2>1. Live /\ status = 0
    BY <1>3 DEF Exit, ResultsInv, LifeInv, ContextLive, StatusInv
  <2> QED
    BY <1>3, <2>1 DEF Exit, exit, AfterExit, context, Idle, LogStage, Live, Failed
<1>4. CASE phase \in {"fini", "unload"} /\ ~Live /\ NothingToFinish
  BY <1>4 DEF NothingToFinish, Return, context, Idle, LogStage, Live, Failed
<1>5. CASE UNCHANGED allVars
  BY <1>5 DEF allVars, process, context, Idle, LogStage, Live, Failed
<1> QED
  BY <1>1, <1>2, <1>3, <1>4, <1>5

-----------------------------------------------------------------------------
\* For any number of images, any configuration files and any program without
\* nesting whose region names identify the parameter names, as long as PAPI does
\* not fail or assertions are compiled in: every step of the process is one of
\* ResultsFile or leaves it alone.
THEOREM ResultsImplementation ==
  ASSUME MaxDepth = 1, NamesIdentify, AssertsEnabled \/ ~PapiReadMayFail
  PROVE  ProcessSpec => ImplementsResults
<1>1. ProcessInit => Results!ResultsInit
  <2> SUFFICES ASSUME ProcessInit PROVE Results!ResultsInit
    OBVIOUS
  <2>1. /\ now = 0 /\ open = <<>> /\ saved = <<>> /\ executed = [r \in Region |-> <<>>]
        /\ ~Live /\ phase = "init" /\ status = 0
    BY DEF ProcessInit, Init, Live
  <2>2. UnderWay = {} /\ Written = <<>> /\ LogStage = "before" /\ Failed = FALSE
    BY <2>1, NoneUnderWay DEF Written, LogStage, Failed
  <2> QED
    BY <2>1, <2>2, ResultsNames DEF Results!ResultsInit, Results!Init
<1>2. ResultsInv /\ ResultsInv' /\ [ProcessNext]_allVars
        => [Results!ResultsNext]_Results!resultsVars
  <2> SUFFICES ASSUME ResultsInv, ResultsInv', [ProcessNext]_allVars
               PROVE  Results!ResultsNext \/ UNCHANGED Results!resultsVars
    OBVIOUS
  <2>1. ASSUME NEW c \in Configs, InitContext(c)
        PROVE  Results!ResultsNext
    BY <2>1, ContextOpens DEF Results!ResultsNext
  <2>2. ASSUME NEW c \in Configs, InitExit(c) \/ InitAbort(c)
        PROVE  Results!ResultsNext
    BY <2>2, RefusalLoses DEF Results!ResultsNext
  <2>3. ASSUME NEW s \in Scop, NEW v \in ValuesOf[s], StartScop(s, v)
        PROVE  Results!ResultsNext
    BY <2>3, StartScopBegins, MaxDepth = 1 DEF Results!ResultsNext
  <2>4. ASSUME NEW s \in Scop, StartFails(s) \/ StartThrows(s) \/ StartCrashes(s)
        PROVE  Results!ResultsNext
    BY <2>4, StartLostFails, MaxDepth = 1 DEF Results!ResultsNext
  <2>5. CASE StopScop
    BY <2>5, StopScopFinishes DEF Results!ResultsNext
  <2>6. CASE StopFails
    BY <2>6, StopFailsAbandons DEF Results!ResultsNext
  <2>7. CASE finish_profiling \/ Unload
    <3>1. phase \in {"fini", "unload"} /\ SavedInv'
      BY <2>7 DEF finish_profiling, Unload, ResultsInv
    <3>2. CASE Live /\ SaveResults
      BY <3>1, <3>2, SavePublishes DEF Results!ResultsNext
    <3>3. CASE Live /\ (SaveFails \/ SaveAborts)
      BY <3>1, <3>3, LossLoses DEF Results!ResultsNext
    <3>4. CASE ~Live /\ NothingToFinish
      BY <3>1, <3>4, OthersIdle, IdleStutters
    <3> QED
      BY <2>7, <3>2, <3>3, <3>4 DEF finish_profiling, Unload
  <2>8. CASE Work
    BY <2>8, WorkPasses DEF Results!ResultsNext
  <2>9. CASE InitSkip \/ Advance \/ Exit \/ UNCHANGED allVars
    BY <2>9, OthersIdle, IdleStutters
  <2> QED
    BY <2>1, <2>2, <2>3, <2>4, <2>5, <2>6, <2>7, <2>8, <2>9
       DEF ProcessNext, init_profiling, Terminated
<1> QED
  BY <1>1, <1>2, LifeCorrect, ProcessTypeCorrect, StatusCorrect, SavedInvCorrect,
     MaxDepth = 1, NamesIdentify, AssertsEnabled \/ ~PapiReadMayFail, PTL
     DEF ProcessSpec, ImplementsResults, Results!ResultsSpec, ResultsInv
=============================================================================
