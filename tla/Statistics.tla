------------------------------ MODULE Statistics ------------------------------
(***************************************************************************)
(* Class Statistics (profiler/include/scop_profiler/Statistics.h) under a  *)
(* program that calls it: every execution of an instrumented SCoP calls    *)
(* startProfiling on entry and stopProfiling on exit, in one thread.  The  *)
(* class keeps one slot for the last timepoints, and per region a vector   *)
(* of parameters and a vector of durations that serializeToJson zips.      *)
(*                                                                         *)
(* The variables now and open are the program's: the time, and the stack   *)
(* of the executions under way.  MaxDepth is 1 for the programs the class  *)
(* is written for ("SCoPs cannot contain calls to functions with other     *)
(* SCoPs"); with a larger one a SCoP may enter another, or itself.         *)
(***************************************************************************)
EXTENDS ScopNames, Timers, Sequences, FiniteSets

CONSTANTS
  MaxDepth,    \* how many executions may be under way at once
  MaxNow,      \* bound: the last tick
  MaxRuns      \* bound: the executions per region

ASSUME StatisticsAssumption ==
  /\ MaxDepth \in Nat
  /\ MaxNow \in Nat
  /\ MaxNow < TscModulus     \* 2^64 cycles outlive the process
  /\ MaxRuns \in Nat

VARIABLES
  now,         \* ticks since the process started
  open,        \* the executions under way, the innermost last
  last_times,  \* the timepoints of the last start
  parameters,  \* [Region -> sequence of parameter vectors]
  durations    \* [Region -> sequence of durations]

stats == <<last_times, parameters, durations>>
vars == <<now, open, last_times, parameters, durations>>

Frame(s, v, t) == [scop |-> s, values |-> v, begin |-> t]

Innermost == open[Len(open)]

-----------------------------------------------------------------------------
(* The member functions, called at time t. *)

\* Wrong: the timers are not read.
startProfilingKeepsTimes(region, scop_params, t) ==
  /\ parameters' = [parameters EXCEPT ![region] = Append(@, scop_params)]
  /\ UNCHANGED <<last_times, durations>>

\* Wrong: the parameters replace those of the executions before.
startProfilingReplaces(region, scop_params, t) ==
  /\ last_times' = Timepoints(t)
  /\ parameters' = [parameters EXCEPT ![region] = <<scop_params>>]
  /\ UNCHANGED durations

\* The timers are read before the parameters are stored.
startProfiling(region, scop_params, t) ==
  /\ last_times' = Timepoints(t)
  /\ parameters' = [parameters EXCEPT ![region] = Append(@, scop_params)]
  /\ UNCHANGED durations

stopProfiling(region, t) ==
  /\ durations' = [durations EXCEPT ![region] =
                     Append(@, Elapsed(Timepoints(t), last_times))]
  /\ UNCHANGED <<last_times, parameters>>

\* Wrong: every row shows the values of the first.
RowsOfFirst(region) ==
  [i \in DOMAIN durations[region] |->
     [names  |-> parameters[region][1].names,
      values |-> parameters[region][1].values,
      timers |-> TimersToJson(durations[region][i])]]

\* The results of one region: the i-th duration beside the i-th parameters,
\* under the names that came with the first.
Rows(region) ==
  [i \in DOMAIN durations[region] |->
     [names  |-> parameters[region][1].names,
      values |-> parameters[region][i].values,
      timers |-> TimersToJson(durations[region][i])]]

\* The regions that serializeToJson visits are those with a duration.
Finished == {r \in Region : durations[r] # <<>>}

serializeToJson == [r \in Finished |-> Rows(r)]

\* "The number of Scop Starts and Stops should be the same!"
StartsMatchStops ==
  \A r \in Finished : Len(parameters[r]) = Len(durations[r])

-----------------------------------------------------------------------------
(* The program. *)

Init ==
  /\ now = 0
  /\ open = <<>>
  /\ last_times \in {Timepoints(t) : t \in 0 .. MaxNow}   \* not initialised
  /\ parameters = [r \in Region |-> <<>>]
  /\ durations = [r \in Region |-> <<>>]

Tick ==
  /\ now < MaxNow
  /\ now' = now + 1
  /\ UNCHANGED <<open, stats>>

\* Control enters SCoP s: the inserted call reports it.
Start(s, v) ==
  /\ Len(open) < MaxDepth
  /\ Len(parameters[RegionName(s)]) < MaxRuns
  /\ startProfiling(RegionName(s), ParamVector(s, v), now)
  /\ open' = Append(open, Frame(s, v, now))
  /\ UNCHANGED now

\* Control leaves the innermost SCoP.
Stop ==
  /\ open # <<>>
  /\ stopProfiling(RegionName(Innermost.scop), now)
  /\ open' = SubSeq(open, 1, Len(open) - 1)
  /\ UNCHANGED now

Next ==
  \/ Tick
  \/ \E s \in Scop : \E v \in ValuesOf[s] : Start(s, v)
  \/ Stop

Spec == Init /\ [][Next]_vars

-----------------------------------------------------------------------------
(* Properties. *)

Execution ==
  UNION {[scop : {s}, values : ValuesOf[s], begin : 0 .. MaxNow] : s \in Scop}

\* The types of the variables of class Statistics and of its caller.
TypeOK ==
  /\ now \in 0 .. MaxNow
  /\ open \in Seq(Execution)
  /\ last_times \in Timepoint
  /\ parameters \in [Region -> Seq(Params)]
  /\ durations \in [Region -> Seq(Duration)]

OpenIn(r) == {i \in DOMAIN open : RegionName(open[i].scop) = r}

\* However SCoPs nest, a region has as many parameter vectors as durations,
\* and one more for each of its executions under way; so the assertion of
\* serializeToJson holds whenever none is.
CountsAgree ==
  \A r \in Region :
    Len(parameters[r]) = Len(durations[r]) + Cardinality(OpenIn(r))

\* However SCoPs nest, the slot of last timepoints was filled after the
\* innermost execution began, and that one began last.
NestInv ==
  /\ \A i, j \in DOMAIN open : i <= j => open[i].begin <= open[j].begin
  /\ \A i \in DOMAIN open : open[i].begin <= now
  /\ open # <<>> =>
       \E b \in Innermost.begin .. now : last_times = Timepoints(b)

\* However SCoPs nest, the single slot of last timepoints only ever makes a
\* recorded duration too short: no timer shows more than the execution that
\* stops has lasted, and none shows a negative time.
StopNeverOvermeasures ==
  [][\A r \in Region : Len(durations'[r]) > Len(durations[r]) =>
       LET shown  == TimersToJson(durations'[r][Len(durations'[r])])
           lasted == 0 .. now - Innermost.begin
       IN  /\ shown.RDTSC \in lasted
           /\ shown.Clock \in lasted
           /\ \A e \in Event : shown.PAPI[e] \in lasted]_vars

\* One execution at a time.
OneAtATime == Len(open) <= 1

Running(r) == open # <<>> /\ RegionName(open[1].scop) = r

\* The region of the execution under way has a parameter vector in excess.
OneStartAhead ==
  \A r \in Region :
    Len(parameters[r]) = Len(durations[r]) + (IF Running(r) THEN 1 ELSE 0)

\* The slot of last timepoints and the last parameter vector of its region
\* are those of the execution under way.
SlotIsOwn ==
  open # <<>> =>
    LET f == open[1]
        r == RegionName(f.scop)
    IN  /\ f.begin <= now
        /\ last_times = Timepoints(f.begin)
        /\ parameters[r][Len(parameters[r])] = ParamVector(f.scop, f.values)

\* The vectors stored under a region have the names its SCoPs report.
NamesOfRegion ==
  \A s \in Scop : \A i \in DOMAIN parameters[RegionName(s)] :
    parameters[RegionName(s)][i].names = NamesOf[s]

\* Without nesting, an execution finds its own timepoints in the slot and its
\* own parameters at the end of its region, so that the push of its duration
\* pairs them.
FlatInv ==
  /\ OneAtATime
  /\ OneStartAhead
  /\ SlotIsOwn
  /\ NamesOfRegion

\* Without nesting, the published rows are those of ExecutionLog: one row per
\* finished execution, in order, with its own parameters and exact times.
Log == INSTANCE ExecutionLog
         WITH running <- {open[i] : i \in DOMAIN open},
              log     <- [r \in Region |-> Rows(r)]

ImplementsLog == Log!Spec
=============================================================================
