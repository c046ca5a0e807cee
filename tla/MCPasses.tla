------------------------------ MODULE MCPasses ------------------------------
(***************************************************************************)
(* Small builds for ProfilingPasses.                                       *)
(***************************************************************************)
EXTENDS ProfilingPasses

\* Three compilers at the same time, as under make -j.  p1 is given three
\* modules, one of them without SCoPs; p3 has no profiler flag.  SCoPs s1, s3
\* and s5, of static functions of one name, are exported under one name by p1
\* and p2, and s2 and s6 by p1.
MCProcess == {"p1", "p2", "p3"}
SomeProfiled == {"p1", "p2"}
MCScop == {"s1", "s2", "s3", "s4", "s5", "s6"}
MCModuleOf == [s1 |-> "m1", s2 |-> "m1", s3 |-> "m2", s4 |-> "m3", s5 |-> "m5",
               s6 |-> "m5"]
MCName == {"n1", "n2", "n4"}
MCNameOf == [s1 |-> "n1", s2 |-> "n2", s3 |-> "n1", s4 |-> "n4", s5 |-> "n1",
             s6 |-> "n2"]
FiveModules == {"m1", "m2", "m3", "m4", "m5"}
Parallel == [m1 |-> "p1", m2 |-> "p2", m3 |-> "p3", m4 |-> "p1", m5 |-> "p1"]

\* One compiler process for every module, as an optimizer or a JIT may be.
Together == [m \in FiveModules |-> "p1"]
=============================================================================
