----------------------------- MODULE ExecutionLog -----------------------------
(***************************************************************************)
(* What the profiler promises: a log that holds, for every region, one row *)
(* per finished execution of a SCoP of that region, in the order the       *)
(* executions finished, each with the names and values of the parameters   *)
(* it ran with and the time between its start and its end.                 *)
(***************************************************************************)
EXTENDS ScopNames, Integers, Sequences

CONSTANT
  Event        \* the hardware events counted during an execution

VARIABLES
  now,         \* ticks since the process started
  running,     \* the executions under way: at most one
  log          \* [Region -> sequence of rows]

vars == <<now, running, log>>

\* Every timer of an execution of d ticks shows d.
Exactly(d) == [RDTSC |-> d, Clock |-> d, PAPI |-> [e \in Event |-> d]]

Row(f, end) ==
  [names  |-> NamesOf[f.scop],
   values |-> f.values,
   timers |-> Exactly(end - f.begin)]

Init ==
  /\ now = 0
  /\ running = {}
  /\ log = [r \in Region |-> <<>>]

Tick ==
  /\ now' = now + 1
  /\ UNCHANGED <<running, log>>

Begin(s, v) ==
  /\ running = {}
  /\ running' = {[scop |-> s, values |-> v, begin |-> now]}
  /\ UNCHANGED <<now, log>>

End(f) ==
  /\ running = {f}
  /\ running' = {}
  /\ log' = [log EXCEPT ![RegionName(f.scop)] = Append(@, Row(f, now))]
  /\ UNCHANGED now

Next ==
  \/ Tick
  \/ \E s \in Scop : \E v \in ValuesOf[s] : Begin(s, v)
  \/ \E f \in running : End(f)

Spec == Init /\ [][Next]_vars
=============================================================================
