------------------------------ MODULE MCRuntime ------------------------------
(***************************************************************************)
(* Small processes for ProfilerRuntime: SCoP s1 in a shared library, SCoP  *)
(* s2 in the executable, or both in the executable.                        *)
(***************************************************************************)
EXTENDS ProfilerRuntime

MCScop == {"s1", "s2"}
MCFunctionOf == [s1 |-> "f", s2 |-> "g"]
MCScopNameOf == [s1 |-> "entry---exit", s2 |-> "entry---exit"]
MCNamesOf == [s1 |-> <<"n">>, s2 |-> <<>>]
MCValuesOf == [s1 |-> {<<4>>, <<7>>}, s2 |-> {<<>>}]

LibraryAndExecutable == [s1 |-> 1, s2 |-> 2]
OneExecutable == [s1 |-> 1, s2 |-> 1]

\* With ints of four bits and a KB of two doubles: a negative size, an empty
\* cache, one that is flushed, and two whose bytes are too many for an int.
MCCacheSizes == {-1, 0, 1, 2, 4}

Good == [file |-> "json", flush_cache |-> FALSE, cache_size |-> <<>>,
         papi_events |-> TRUE, papi_works |-> TRUE]
Flushing == [Good EXCEPT !.flush_cache = TRUE, !.cache_size = <<1>>]
GoodConfigs == {Good, Flushing}
=============================================================================
