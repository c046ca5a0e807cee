----------------------------- MODULE ResultsFile -----------------------------
(***************************************************************************)
(* What the profiling library promises a process: while the log is open,   *)
(* executions enter it as in ExecutionLog; it is closed once, and then     *)
(* either the whole log goes into the results file, or the process ends    *)
(* in a way that its caller can tell from success.                         *)
(***************************************************************************)
EXTENDS ExecutionLog

VARIABLES
  stage,       \* of the log: "before", "open", "closed"
  results,     \* the results files written, one after another
  failed       \* the caller of the process learns that something went wrong

resultsVars == <<now, running, log, stage, results, failed>>

\* The rows of the SCoPs; the cost of the timers is reported beside them.
Published(l) == [r \in Region \ {EMPTY} |-> l[r]]

ResultsInit ==
  /\ Init
  /\ stage = "before"
  /\ results = <<>>
  /\ failed = FALSE

Open ==
  /\ stage = "before"
  /\ stage' = "open"
  /\ UNCHANGED <<now, running, log, results, failed>>

\* An execution begins, some time after it was asked for.
BeginLater(s, v) ==
  /\ stage = "open"
  /\ running = {}
  /\ now' >= now
  /\ running' = {[scop |-> s, values |-> v, begin |-> now']}
  /\ UNCHANGED <<log, stage, results, failed>>

Finish(f) ==
  /\ stage = "open"
  /\ End(f)
  /\ UNCHANGED <<stage, results, failed>>

\* An execution ends without a row.
Abandon(f) ==
  /\ running = {f}
  /\ running' = {}
  /\ failed' = TRUE
  /\ UNCHANGED <<now, log, stage, results>>

Publish ==
  /\ stage = "open"
  /\ running = {}
  /\ results = <<>>
  /\ results' = <<Published(log)>>
  /\ stage' = "closed"
  /\ UNCHANGED <<now, running, log, failed>>

\* The log is never opened, or closed without its file.
Lose ==
  /\ stage \in {"before", "open"}
  /\ running = {}
  /\ stage' = "closed"
  /\ failed' = TRUE
  /\ UNCHANGED <<now, running, log, results>>

Fail ==
  /\ failed' = TRUE
  /\ UNCHANGED <<now, running, log, stage, results>>

Pass == Tick /\ UNCHANGED <<stage, results, failed>>

ResultsNext ==
  \/ Open
  \/ \E s \in Scop : \E v \in ValuesOf[s] : BeginLater(s, v)
  \/ \E f \in running : Finish(f) \/ Abandon(f)
  \/ Publish
  \/ Lose
  \/ Fail
  \/ Pass

ResultsSpec == ResultsInit /\ [][ResultsNext]_resultsVars
=============================================================================
