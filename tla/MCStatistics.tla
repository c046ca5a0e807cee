----------------------------- MODULE MCStatistics -----------------------------
(***************************************************************************)
(* Small programs for class Statistics.  f and g are two functions; two    *)
(* SCoPs of the program may have the same function name and blocks, as two *)
(* static functions of one name in two source files do.                    *)
(***************************************************************************)
EXTENDS Statistics

\* Three SCoPs, two of them in one region, with the same parameter names.
TwinScop == {"s1", "s2", "s3"}
TwinFunctionOf == [s1 |-> "f", s2 |-> "f", s3 |-> "g"]
TwinScopNameOf == [s1 |-> "entry---exit", s2 |-> "entry---exit", s3 |-> "entry---exit"]
TwinNamesOf == [s1 |-> <<"n">>, s2 |-> <<"n">>, s3 |-> <<>>]
TwinValuesOf == [s1 |-> {<<4>>, <<7>>}, s2 |-> {<<7>>}, s3 |-> {<<>>}]

\* Two SCoPs in regions of their own.
PairScop == {"s1", "s2"}
PairFunctionOf == [s1 |-> "f", s2 |-> "g"]
PairScopNameOf == [s1 |-> "entry---exit", s2 |-> "entry---exit"]
PairNamesOf == [s1 |-> <<"n">>, s2 |-> <<"m">>]
PairValuesOf == [s1 |-> {<<4>>}, s2 |-> {<<4>>}]
=============================================================================
