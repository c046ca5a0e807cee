------------------------------ MODULE ScopCalls ------------------------------
(***************************************************************************)
(* What class Statistics assumes of the code that calls it                 *)
(* (profiler/include/scop_profiler/Statistics.h): a SCoP is started only   *)
(* when none is under way, and the next call stops that one.  Statistics   *)
(* with MaxDepth = 1 is driven in this way; the plugin must place its calls *)
(* so that an instrumented function keeps to it.                           *)
(***************************************************************************)
EXTENDS Integers

CONSTANT Scop

VARIABLE balance    \* [Scop -> starts minus stops so far]

Quiet == balance = [s \in Scop |-> 0]
Under(s) == balance = [t \in Scop |-> IF t = s THEN 1 ELSE 0]

Init == Quiet

start_scop(s) == Quiet /\ Under(s)'
stop_scop(s) == Under(s) /\ Quiet'

Next == \E s \in Scop : start_scop(s) \/ stop_scop(s)

Spec == Init /\ [][Next]_balance
=============================================================================
