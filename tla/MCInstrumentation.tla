-------------------------- MODULE MCInstrumentation --------------------------
(***************************************************************************)
(* Small functions for ScopInstrumentation: graphs around two regions, and *)
(* single graphs for what goes wrong.                                      *)
(***************************************************************************)
EXTENDS ScopInstrumentation, FiniteSets

Reached(g) ==
  LET step[n \in 0 .. Cardinality(Block)] ==
        IF n = 0 THEN {Start}
        ELSE step[n - 1] \cup UNION {g[b] : b \in step[n - 1]}
  IN  step[Cardinality(Block)]

\* The functions with no dead block that the placement is right for.
StraightIn(G) ==
  {g \in G : /\ \A s \in Scop : IsRegion(g, s)
             /\ Straight(g)
             /\ Reached(g) = Block}

-----------------------------------------------------------------------------
\* SCoP s of blocks a and b, left for join, and SCoP t of block c, left for
\* post.  Around and inside them: guards, loops, joins, several exits.
TwoScop == {"s", "t"}
TwoBlock == {"pre", "a", "b", "join", "mid", "c", "post"}
TwoEntryOf == [s |-> "a", t |-> "c"]
TwoExitOf == [s |-> "join", t |-> "post"]
TwoBlocksOf == [s |-> {"a", "b"}, t |-> {"c"}]
TwoDefinedIn == [s |-> "arg", t |-> "arg"]
TwoGraphs ==
  StraightIn({[pre |-> p, a |-> a, b |-> b, join |-> j, mid |-> m, c |-> c,
               post |-> x] :
                p \in {{"a"}, {"mid"}, {"a", "mid"}, {"a", "post"}},
                a \in {{"b"}, {"b", "join"}, {"a", "b"}},
                b \in {{"a"}, {"join"}, {"a", "join"}, {"b", "join"}},
                j \in {{"mid"}, {"mid", "post"}, {"a", "mid"}, {"c"}},
                m \in {{"c"}, {"a"}, {"a", "c"}, {"c", "post"}},
                c \in {{"post"}, {"c", "post"}},
                x \in {{}, {"pre"}, {"a"}, {"mid"}}})

-----------------------------------------------------------------------------
\* One SCoP, of blocks a and b.
OneScop == {"s"}
OneBlock == {"pre", "alt", "a", "b", "post"}
OneEntryOf == [s |-> "a"]
OneExitOf == [s |-> "post"]
OneBlocksOf == [s |-> {"a", "b"}]
OneDefinedIn == [s |-> "arg"]

\* A rotated loop: the latch b goes back to the header a or leaves.
RotatedGraphs ==
  {[pre |-> {"alt"}, alt |-> {"a"}, a |-> {"b"}, b |-> {"a", "post"},
    post |-> {}]}

\* A straight function whose SCoP has a parameter loaded in the block before.
LoadedDefinedIn == [s |-> "alt"]
StraightGraphs ==
  {[pre |-> {"alt"}, alt |-> {"a"}, a |-> {"b"}, b |-> {"post"}, post |-> {}]}
=============================================================================
