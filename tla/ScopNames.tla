------------------------------ MODULE ScopNames ------------------------------
(***************************************************************************)
(* What an instrumented SCoP tells the profiler about itself: the region   *)
(* name it reports under and the parameter vector it hands over.           *)
(* lib/ScopProfiling.cpp computes both at compile time and bakes them into *)
(* the calls of start_scop and stop_scop.                                  *)
(***************************************************************************)

CONSTANTS
  Scop,        \* the SCoPs instrumented in the linked program
  FunctionOf,  \* [Scop -> name], S.getFunction().getName()
  ScopNameOf,  \* [Scop -> name], S.getName(): "entry block---exit block"
  NamesOf,     \* [Scop -> names], the names of the parameters passed on
  ValuesOf     \* [Scop -> the vectors of parameter values it may run with]

\* formatv("{0}___{1}", function name, scop name)
RegionName(s) == <<FunctionOf[s], ScopNameOf[s]>>

\* The region under which the context measures the cost of its own timers.
\* No SCoP reports under it: every RegionName holds the separator "___".
EMPTY == <<"EMPTY">>

Region == {EMPTY} \cup {RegionName(s) : s \in Scop}

\* The names and values start_scop pairs up into a params_t.
ParamVector(s, v) == [names |-> NamesOf[s], values |-> v]

\* The pair of braces passed as the parameters of the EMPTY region.
NoParams == [names |-> <<>>, values |-> <<>>]

Params ==
  {NoParams} \cup UNION {{ParamVector(s, v) : v \in ValuesOf[s]} : s \in Scop}

(***************************************************************************)
(* SCoPs that report under one region name have the same parameter names.  *)
(* The code does not enforce it: two static functions of one name in two   *)
(* source files break it.                                                  *)
(***************************************************************************)
NamesIdentify ==
  \A s, t \in Scop : RegionName(s) = RegionName(t) => NamesOf[s] = NamesOf[t]
=============================================================================
