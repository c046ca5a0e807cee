------------------------ MODULE InstrumentationProofs ------------------------
(***************************************************************************)
(* Theorems about the placement of the calls, for all functions of any size *)
(* with any number of SCoPs: where the calls stand, in functions that meet *)
(* the conditions of Straight, and what they are called with, in all.      *)
(***************************************************************************)
EXTENDS ScopInstrumentation, TLAPS

\* The functions of all runs are ones the placement is meant for.
AllStraight == \A g \in Graphs : Straight(g)

\* What stands at the front of block b, once the SCoPs not in todo are done.
CodeAt(b) ==
  \/ /\ code[b] = <<>>
     /\ \A s \in Scop \ todo : ScopEntry(succ, s) # b /\ ScopExit(succ, s) # b
  \/ \E s \in Scop \ todo :
       ScopEntry(succ, s) = b /\ code[b] = <<<<"start_scop", s>>>>
  \/ \E s \in Scop \ todo :
       ScopExit(succ, s) = b /\ code[b] = <<<<"stop_scop", s>>>>

\* Control is past the start call of s and not past its stop call.
Timed(g, b, p, s) ==
  \/ b = ScopEntry(g, s) /\ p = 2
  \/ b \in BlocksOf[s] \ {ScopEntry(g, s), ScopExit(g, s)}
  \/ b = ScopExit(g, s) /\ p = 1

PlacementInv ==
  /\ TypeOK
  /\ succ \in Graphs
  /\ \A b \in Block : CodeAt(b)
  /\ todo # {} => at = Start /\ pc = 1
  /\ \A s \in Scop : balance[s] = IF Timed(succ, at, pc, s) THEN 1 ELSE 0

-----------------------------------------------------------------------------
\* The block of the start call: the entry, or the one block that leads there.
LEMMA EntryFact ==
  ASSUME NEW g \in Graphs, NEW s \in Scop
  PROVE  /\ ScopEntry(g, s) \in Block
         /\ \/ ScopEntry(g, s) = EntryOf[s]
            \/ /\ EnteringBlocks(g, s) = {ScopEntry(g, s)}
               /\ ScopEntry(g, s) \notin BlocksOf[s]
<1>1. CASE \E b \in Block : EnteringBlocks(g, s) = {b}
  <2>1. ScopEntry(g, s) \in Block /\ EnteringBlocks(g, s) = {ScopEntry(g, s)}
    BY <1>1 DEF ScopEntry
  <2> QED
    BY <2>1 DEF EnteringBlocks
<1>2. CASE ~ \E b \in Block : EnteringBlocks(g, s) = {b}
  BY <1>2, InstrumentationAssumption DEF ScopEntry
<1> QED
  BY <1>1, <1>2

\* The block of the stop call: the exit, or the one block that leads there
\* from inside.
LEMMA ExitFact ==
  ASSUME NEW g \in Graphs, NEW s \in Scop
  PROVE  /\ ScopExit(g, s) \in Block
         /\ \/ ScopExit(g, s) = ExitOf[s] /\ ExitOf[s] \notin BlocksOf[s]
            \/ /\ ExitingBlocks(g, s) = {ScopExit(g, s)}
               /\ ScopExit(g, s) \in BlocksOf[s]
<1>1. CASE \E b \in Block : ExitingBlocks(g, s) = {b}
  <2>1. ScopExit(g, s) \in Block /\ ExitingBlocks(g, s) = {ScopExit(g, s)}
    BY <1>1 DEF ScopExit
  <2> QED
    BY <2>1 DEF ExitingBlocks
<1>2. CASE ~ \E b \in Block : ExitingBlocks(g, s) = {b}
  BY <1>2, InstrumentationAssumption DEF ScopExit, IsRegion
<1> QED
  BY <1>1, <1>2

\* The shape of the function around one SCoP, in the words of the proofs below.
LEMMA Shape ==
  ASSUME AllStraight, NEW g \in Graphs, NEW s \in Scop
  PROVE  LET E == ScopEntry(g, s)
             X == ScopExit(g, s)
         IN  /\ E # X
             /\ Start \notin BlocksOf[s]
             /\ X # Start
             /\ E \in BlocksOf[s] =>
                  \A a \in BlocksOf[s] : E \notin g[a]
             /\ E \notin BlocksOf[s] => g[E] = {EntryOf[s]}
             /\ X \in BlocksOf[s] => g[X] = {ExitOf[s]}
             /\ X \notin BlocksOf[s] =>
                  X = ExitOf[s] /\ \A a \in Block : X \in g[a] => a \in BlocksOf[s]
<1> DEFINE E == ScopEntry(g, s)
           X == ScopExit(g, s)
<1>1. IsRegion(g, s)
  BY InstrumentationAssumption
<1>2. Straight(g)
  BY DEF AllStraight
<1>3. E # X
  BY <1>2 DEF Straight, Apart
<1>4. StartsOnEntry(g, s) /\ StopsOnExit(g, s)
  BY <1>2 DEF Straight
<1>5. BlocksOf[s] \subseteq Block
  BY InstrumentationAssumption
<1>6. E \in BlocksOf[s] => \A a \in BlocksOf[s] : E \notin g[a]
  <2>1. ASSUME E \in BlocksOf[s] PROVE E = EntryOf[s]
    BY <2>1, EntryFact
  <2> QED
    BY <2>1, <1>4, <1>5 DEF StartsOnEntry, Predecessors
<1>7. E \notin BlocksOf[s] => g[E] = {EntryOf[s]}
  BY <1>1, <1>4 DEF StartsOnEntry, IsRegion
<1>8. X \in BlocksOf[s] => g[X] = {ExitOf[s]}
  BY <1>1, <1>4 DEF StopsOnExit, IsRegion
<1>9. X \notin BlocksOf[s] =>
        X = ExitOf[s] /\ \A a \in Block : X \in g[a] => a \in BlocksOf[s]
  <2>1. ASSUME X \notin BlocksOf[s] PROVE X = ExitOf[s]
    BY <2>1, ExitFact
  <2> QED
    BY <2>1, <1>4 DEF StopsOnExit, Predecessors
<1>10. X # Start
  <2>1. CASE X \in BlocksOf[s]
    BY <2>1, <1>1 DEF IsRegion
  <2>2. CASE X \notin BlocksOf[s]
    BY <2>2, <1>4, <1>9 DEF StopsOnExit
  <2> QED
    BY <2>1, <2>2
<1> QED
  BY <1>1, <1>3, <1>6, <1>7, <1>8, <1>9, <1>10 DEF IsRegion

\* Along a branch, the end of one block and the front of the next are both
\* timed or both not.
LEMMA EdgeKeeps ==
  ASSUME AllStraight, NEW g \in Graphs, NEW s \in Scop,
         NEW a \in Block, NEW b \in g[a], NEW p \in Nat,
         a \in {ScopEntry(g, s), ScopExit(g, s)} => p = 2
  PROVE  Timed(g, a, p, s) <=> Timed(g, b, 1, s)
<1> DEFINE E == ScopEntry(g, s)
           X == ScopExit(g, s)
           B == BlocksOf[s]
<1>1. IsRegion(g, s) /\ b \in Block
  BY InstrumentationAssumption
<1>2. /\ EntryOf[s] \in B /\ ExitOf[s] \notin B
      /\ a \in B => b \in B \/ b = ExitOf[s]
      /\ a \notin B /\ b \in B => b = EntryOf[s]
  BY <1>1 DEF IsRegion
<1>3. /\ E # X
      /\ E \in B => \A c \in B : E \notin g[c]
      /\ E \notin B => g[E] = {EntryOf[s]}
      /\ X \in B => g[X] = {ExitOf[s]}
      /\ X \notin B => X = ExitOf[s] /\ \A c \in Block : X \in g[c] => c \in B
  BY Shape
<1>4. E = EntryOf[s] \/ (EnteringBlocks(g, s) = {E} /\ E \notin B)
  BY EntryFact
<1>5. X = ExitOf[s] \/ ExitingBlocks(g, s) = {X}
  BY ExitFact
<1>6. ASSUME a \in B, b = ExitOf[s] PROVE b = X \/ a = X
  <2>1. a \in ExitingBlocks(g, s)
    BY <1>6 DEF ExitingBlocks, Predecessors
  <2> QED
    BY <2>1, <1>5, <1>6
<1>7. ASSUME a \notin B, b = EntryOf[s] PROVE b = E \/ a = E
  <2>1. a \in EnteringBlocks(g, s)
    BY <1>7 DEF EnteringBlocks, Predecessors
  <2> QED
    BY <2>1, <1>4, <1>7
<1>8. Timed(g, a, p, s) <=> a = E \/ a \in B \ {E, X}
  BY <1>3 DEF Timed
<1>9. Timed(g, b, 1, s) <=> b \in B \ {E, X} \/ b = X
  BY DEF Timed
<1>10. ASSUME a = E PROVE b \in B \ {E, X} \/ b = X
  <2>1. CASE E \in B
    BY <2>1, <1>2, <1>3, <1>6, <1>10
  <2>2. CASE E \notin B
    BY <2>2, <1>2, <1>3, <1>10
  <2> QED
    BY <2>1, <2>2
<1>11. ASSUME a \in B \ {E, X} PROVE b \in B \ {E, X} \/ b = X
  <2>1. CASE b \in B
    <3>1. b # E
      BY <2>1, <1>3, <1>11
    <3> QED
      BY <3>1, <2>1
  <2>2. CASE b = ExitOf[s]
    BY <2>2, <1>6, <1>11
  <2> QED
    BY <2>1, <2>2, <1>2, <1>11
<1>12. ASSUME b = X PROVE a = E \/ a \in B \ {E, X}
  <2>1. CASE X \notin B
    BY <2>1, <1>3, <1>12
  <2>2. CASE X \in B
    <3>1. a # X
      BY <2>2, <1>2, <1>3, <1>12
    <3>2. CASE a \in B
      BY <3>1, <3>2
    <3>3. CASE a \notin B
      BY <3>3, <2>2, <1>2, <1>3, <1>7, <1>12
    <3> QED
      BY <3>2, <3>3
  <2> QED
    BY <2>1, <2>2
<1>13. ASSUME b \in B \ {E, X} PROVE a = E \/ a \in B \ {E, X}
  <2>1. CASE a \in B
    <3>1. a # X
      BY <2>1, <1>2, <1>3, <1>13
    <3> QED
      BY <3>1, <2>1
  <2>2. CASE a \notin B
    BY <2>2, <1>2, <1>7, <1>13
  <2> QED
    BY <2>1, <2>2
<1> QED
  BY <1>8, <1>9, <1>10, <1>11, <1>12, <1>13

-----------------------------------------------------------------------------
\* Two SCoPs' calls stand in different blocks, none in the other's region.
LEMMA Separate ==
  ASSUME AllStraight, NEW g \in Graphs, NEW s \in Scop, NEW t \in Scop
  PROVE  /\ ScopEntry(g, s) # ScopExit(g, t)
         /\ s # t => /\ ScopEntry(g, s) # ScopEntry(g, t)
                     /\ ScopExit(g, s) # ScopExit(g, t)
                     /\ {ScopEntry(g, s), ScopExit(g, s)} \cap BlocksOf[t] = {}
                     /\ BlocksOf[s] \cap BlocksOf[t] = {}
  BY DEF AllStraight, Straight, Apart

\* No run begins timed.
LEMMA StartUntimed ==
  ASSUME AllStraight, NEW g \in Graphs, NEW s \in Scop
  PROVE  ~Timed(g, Start, 1, s)
  BY Shape DEF Timed

\* A block with a call of s has no other.
LEMMA CallsOf ==
  ASSUME AllStraight, PlacementInv, NEW b \in Block, NEW s \in Scop \ todo
  PROVE  /\ b = ScopEntry(succ, s) => code[b] = <<<<"start_scop", s>>>>
         /\ b = ScopExit(succ, s) => code[b] = <<<<"stop_scop", s>>>>
<1>1. CodeAt(b) /\ succ \in Graphs
  BY DEF PlacementInv
<1> QED
  BY <1>1, Separate DEF CodeAt

\* In the rest of a block with a call of s that call has been made.
LEMMA BodyPosition ==
  ASSUME AllStraight, PlacementInv, InBody, NEW s \in Scop,
         at \in {ScopEntry(succ, s), ScopExit(succ, s)}
  PROVE  pc = 2
<1>1. at \in Block /\ s \in Scop \ todo /\ pc = Len(code[at]) + 1
  BY DEF PlacementInv, TypeOK, InBody, Compiled
<1>2. \/ code[at] = <<<<"start_scop", s>>>>
      \/ code[at] = <<<<"stop_scop", s>>>>
  BY <1>1, CallsOf
<1>3. Len(code[at]) = 1
  BY <1>2
<1> QED
  BY <1>1, <1>3

\* The pass puts the two calls of a SCoP into blocks that have none yet.
LEMMA PassKeeps ==
  ASSUME AllStraight, PlacementInv, NEW s \in Scop, runOnScop(s)
  PROVE  PlacementInv'
<1> DEFINE E == ScopEntry(succ, s)
           X == ScopExit(succ, s)
<1>1. /\ succ \in Graphs /\ s \in todo /\ todo \subseteq Scop
      /\ todo' = todo \ {s}
      /\ succ' = succ /\ at' = at /\ pc' = pc
      /\ balance' = balance /\ known' = known
      /\ at = Start /\ pc = 1
      /\ code' = createStopProfilingCall(createStartProfilingCall(code, s), s)
  BY DEF PlacementInv, TypeOK, runOnScop
<1>2. /\ code \in [Block -> Seq({"start_scop", "stop_scop"} \X Scop)]
      /\ Start \in Block
  BY <1>1 DEF PlacementInv, TypeOK
<1>3. E \in Block /\ X \in Block /\ E # X
  BY <1>1, EntryFact, ExitFact, Separate
<1>4. code[E] = <<>> /\ code[X] = <<>>
  <2>1. CodeAt(E) /\ CodeAt(X)
    BY <1>3 DEF PlacementInv
  <2>2. \A t \in Scop \ todo :
          /\ ScopEntry(succ, t) # E /\ ScopExit(succ, t) # E
          /\ ScopEntry(succ, t) # X /\ ScopExit(succ, t) # X
    <3> TAKE t \in Scop \ todo
    <3>1. t # s /\ t \in Scop
      BY <1>1
    <3>2. ScopExit(succ, t) # E
      BY <1>1, Separate
    <3> QED
      BY <1>1, <3>1, <3>2, Separate
  <2> QED
    BY <2>1, <2>2 DEF CodeAt
<1>5. code' = [code EXCEPT ![E] = <<<<"start_scop", s>>>>,
                           ![X] = <<<<"stop_scop", s>>>>]
  <2>1. createStartProfilingCall(code, s) =
          [code EXCEPT ![E] = <<<<"start_scop", s>>>> \o code[E]]
    BY <1>2, <1>3 DEF createStartProfilingCall, Prepend
  <2>2. <<<<"start_scop", s>>>> \o code[E] = <<<<"start_scop", s>>>>
    BY <1>4
  <2>3. code' = [[code EXCEPT ![E] = <<<<"start_scop", s>>>>] EXCEPT
                   ![X] = <<<<"stop_scop", s>>>> \o @]
    BY <1>1, <2>1, <2>2 DEF createStopProfilingCall, Prepend
  <2>4. [code EXCEPT ![E] = <<<<"start_scop", s>>>>][X] = <<>>
    BY <1>2, <1>3, <1>4
  <2>5. <<<<"stop_scop", s>>>> \o <<>> = <<<<"stop_scop", s>>>>
    OBVIOUS
  <2> QED
    BY <2>3, <2>4, <2>5, <1>2, <1>3
<1>6. /\ code'[E] = <<<<"start_scop", s>>>>
      /\ code'[X] = <<<<"stop_scop", s>>>>
      /\ \A b \in Block \ {E, X} : code'[b] = code[b]
  BY <1>2, <1>3, <1>5
<1>7. code' \in [Block -> Seq({"start_scop", "stop_scop"} \X Scop)]
  <2>1. <<<<"start_scop", s>>>> \in Seq({"start_scop", "stop_scop"} \X Scop)
    OBVIOUS
  <2>2. <<<<"stop_scop", s>>>> \in Seq({"start_scop", "stop_scop"} \X Scop)
    OBVIOUS
  <2> QED
    BY <2>1, <2>2, <1>2, <1>5
<1>8. pc' \in 1 .. Len(code'[at']) + 1
  <2>1. Len(code'[Start]) \in Nat
    BY <1>2, <1>7
  <2> QED
    BY <1>1, <2>1
<1>9. TypeOK'
  BY <1>1, <1>7, <1>8 DEF PlacementInv, TypeOK
<1>10. ASSUME NEW b \in Block PROVE CodeAt(b)'
  <2>1. CASE b = E
    BY <2>1, <1>1, <1>6 DEF CodeAt
  <2>2. CASE b = X
    BY <2>2, <1>1, <1>6 DEF CodeAt
  <2>3. CASE b \in Block \ {E, X}
    <3>1. CodeAt(b)
      BY DEF PlacementInv
    <3>2. code'[b] = code[b]
      BY <2>3, <1>6
    <3> QED
      BY <3>1, <3>2, <2>3, <1>1 DEF CodeAt
  <2> QED
    BY <2>1, <2>2, <2>3
<1> QED
  BY <1>1, <1>9, <1>10 DEF PlacementInv

\* A call changes the balance of its own SCoP, as its position says.
LEMMA CallKeeps ==
  ASSUME AllStraight, PlacementInv, Call
  PROVE  /\ PlacementInv'
         /\ [Calls!Next]_balance
<1>1. /\ succ \in Graphs /\ at \in Block /\ todo = {}
      /\ succ' = succ /\ code' = code /\ todo' = todo /\ at' = at /\ known' = known
      /\ pc' = pc + 1 /\ pc \in Nat /\ pc >= 1 /\ pc <= Len(code[at])
      /\ balance \in [Scop -> Int]
      /\ code \in [Block -> Seq({"start_scop", "stop_scop"} \X Scop)]
  BY DEF PlacementInv, TypeOK, Call, AtCall, Compiled
<1>2. \A s \in Scop : balance[s] = IF Timed(succ, at, pc, s) THEN 1 ELSE 0
  BY DEF PlacementInv
<1>3. PICK s \in Scop :
        \/ at = ScopEntry(succ, s) /\ code[at] = <<<<"start_scop", s>>>>
        \/ at = ScopExit(succ, s) /\ code[at] = <<<<"stop_scop", s>>>>
  <2>1. CodeAt(at)
    BY <1>1 DEF PlacementInv
  <2>2. code[at] # <<>>
    BY <1>1
  <2> QED
    BY <2>1, <2>2 DEF CodeAt
<1>4. pc = 1 /\ pc' = 2 /\ pc' \in 1 .. Len(code'[at']) + 1
  <2>1. Len(code[at]) = 1
    BY <1>3
  <2>2. pc = 1 /\ pc' = 2
    BY <2>1, <1>1
  <2>3. Len(code'[at']) = 1
    BY <2>1, <1>1
  <2> QED
    BY <2>2, <2>3
<1>5. \A t \in Scop : balance[t] = IF t = s /\ at = ScopExit(succ, s) THEN 1 ELSE 0
  <2> SUFFICES ASSUME NEW t \in Scop
               PROVE  balance[t] = IF t = s /\ at = ScopExit(succ, s) THEN 1 ELSE 0
    OBVIOUS
  <2>1. CASE at = ScopEntry(succ, s)
    <3>1. ~Timed(succ, at, 1, t)
      BY <2>1, <1>1, Separate DEF Timed
    <3>2. at # ScopExit(succ, s)
      BY <2>1, <1>1, Separate
    <3> QED
      BY <3>1, <3>2, <1>2, <1>4
  <2>2. CASE at = ScopExit(succ, s)
    <3>1. Timed(succ, at, 1, t) <=> t = s
      BY <2>2, <1>1, Separate DEF Timed
    <3> QED
      BY <3>1, <2>2, <1>2, <1>4
  <2> QED
    BY <2>1, <2>2, <1>3
<1>6. \A t \in Scop :
        Timed(succ, at, 2, t) <=> t = s /\ at = ScopEntry(succ, s)
  <2> SUFFICES ASSUME NEW t \in Scop
               PROVE  Timed(succ, at, 2, t) <=> t = s /\ at = ScopEntry(succ, s)
    OBVIOUS
  <2>1. CASE at = ScopEntry(succ, s)
    BY <2>1, <1>1, Separate DEF Timed
  <2>2. CASE at = ScopExit(succ, s)
    BY <2>2, <1>1, Separate DEF Timed
  <2> QED
    BY <2>1, <2>2, <1>3
<1>7. balance' = [t \in Scop |-> IF t = s /\ at = ScopEntry(succ, s) THEN 1 ELSE 0]
  <2>1. CASE at = ScopEntry(succ, s) /\ code[at] = <<<<"start_scop", s>>>>
    <3>1. balance' = [balance EXCEPT ![s] = @ + 1]
      BY <2>1, <1>4 DEF Call
    <3>2. at # ScopExit(succ, s)
      BY <2>1, <1>1, Separate
    <3>3. \A t \in Scop : balance'[t] = IF t = s THEN 1 ELSE 0
      BY <3>1, <3>2, <1>1, <1>5
    <3> QED
      BY <3>1, <3>3, <2>1, <1>1
  <2>2. CASE at = ScopExit(succ, s) /\ code[at] = <<<<"stop_scop", s>>>>
    <3>1. balance' = [balance EXCEPT ![s] = @ + (-1)]
      BY <2>2, <1>4 DEF Call
    <3>2. at # ScopEntry(succ, s)
      BY <2>2, <1>1, Separate
    <3>3. \A t \in Scop : balance'[t] = 0
      BY <3>1, <2>2, <1>1, <1>5
    <3> QED
      BY <3>1, <3>2, <3>3, <1>1
  <2> QED
    BY <2>1, <2>2, <1>3
<1>8. PlacementInv'
  <2>1. TypeOK'
    BY <1>1, <1>4, <1>7 DEF PlacementInv, TypeOK
  <2>2. \A b \in Block : CodeAt(b)'
    BY <1>1 DEF PlacementInv, CodeAt
  <2>3. \A t \in Scop : balance'[t] = IF Timed(succ', at', pc', t) THEN 1 ELSE 0
    BY <1>1, <1>4, <1>6, <1>7
  <2> QED
    BY <2>1, <2>2, <2>3, <1>1 DEF PlacementInv
<1>9. Calls!Next
  <2>1. CASE at = ScopEntry(succ, s)
    <3>1. at # ScopExit(succ, s)
      BY <2>1, <1>1, Separate
    <3>2. Calls!Quiet
      BY <3>1, <1>1, <1>5 DEF Calls!Quiet
    <3>3. Calls!Under(s)'
      BY <2>1, <1>7 DEF Calls!Under
    <3> QED
      BY <3>2, <3>3 DEF Calls!Next, Calls!start_scop
  <2>2. CASE at = ScopExit(succ, s)
    <3>1. at # ScopEntry(succ, s)
      BY <2>2, <1>1, Separate
    <3>2. Calls!Under(s)
      BY <2>2, <1>1, <1>5 DEF Calls!Under
    <3>3. Calls!Quiet'
      BY <3>1, <1>7 DEF Calls!Quiet
    <3> QED
      BY <3>2, <3>3 DEF Calls!Next, Calls!stop_scop
  <2> QED
    BY <2>1, <2>2, <1>3
<1> QED
  BY <1>8, <1>9

\* A branch leaves the calls of its block behind and meets those of the next.
LEMMA BranchKeeps ==
  ASSUME AllStraight, PlacementInv, Branch
  PROVE  PlacementInv'
<1>1. /\ succ \in Graphs /\ at \in Block /\ todo = {}
      /\ succ' = succ /\ code' = code /\ todo' = todo /\ balance' = balance
      /\ at' \in succ[at] /\ pc' = 1 /\ pc = Len(code[at]) + 1
      /\ known' \in SUBSET (Block \cup {Argument})
      /\ code \in [Block -> Seq({"start_scop", "stop_scop"} \X Scop)]
  BY DEF PlacementInv, TypeOK, Branch, InBody, Compiled
<1>2. at' \in Block
  BY <1>1, InstrumentationAssumption
<1>3. pc' \in 1 .. Len(code'[at']) + 1 /\ pc \in Nat
  <2>1. Len(code[at']) \in Nat /\ Len(code[at]) \in Nat
    BY <1>1, <1>2
  <2> QED
    BY <2>1, <1>1
<1>4. TypeOK'
  BY <1>1, <1>2, <1>3 DEF PlacementInv, TypeOK
<1>5. \A b \in Block : CodeAt(b)'
  BY <1>1 DEF PlacementInv, CodeAt
<1>6. ASSUME NEW s \in Scop
      PROVE  balance'[s] = IF Timed(succ', at', pc', s) THEN 1 ELSE 0
  <2>1. at \in {ScopEntry(succ, s), ScopExit(succ, s)} => pc = 2
    BY BodyPosition DEF Branch
  <2>2. Timed(succ, at, pc, s) <=> Timed(succ, at', 1, s)
    BY <2>1, <1>1, <1>3, EdgeKeeps
  <2> QED
    BY <2>2, <1>1 DEF PlacementInv
<1> QED
  BY <1>1, <1>4, <1>5, <1>6 DEF PlacementInv

\* Before the pass runs, no call is anywhere.
LEMMA InitPlaces ==
  ASSUME AllStraight, Init
  PROVE  PlacementInv /\ Calls!Init
<1>1. /\ succ \in Graphs /\ Graphs \subseteq [Block -> SUBSET Block]
      /\ at = Start /\ Start \in Block /\ pc = 1 /\ todo = Scop
      /\ code = [b \in Block |-> <<>>]
      /\ balance = [s \in Scop |-> 0] /\ known = {Argument}
  BY InstrumentationAssumption DEF Init
<1>2. TypeOK
  BY <1>1 DEF TypeOK
<1>3. \A b \in Block : CodeAt(b)
  BY <1>1 DEF CodeAt
<1>4. \A s \in Scop : balance[s] = IF Timed(succ, at, pc, s) THEN 1 ELSE 0
  BY <1>1, StartUntimed
<1> QED
  BY <1>1, <1>2, <1>3, <1>4 DEF PlacementInv, Calls!Init, Calls!Quiet

-----------------------------------------------------------------------------
\* In every function whose SCoPs are entered and left along the edges that
\* the pass looks for, the timers of a SCoP run exactly between the places of
\* its two calls, wherever control is and in whatever order the pass saw the
\* SCoPs (lib/ProfilingCodegen.cpp).
THEOREM PlacementCorrect == ASSUME AllStraight PROVE Spec => []PlacementInv
<1>1. Init => PlacementInv
  BY InitPlaces
<1>2. PlacementInv /\ [Next]_vars => PlacementInv'
  <2> SUFFICES ASSUME PlacementInv, [Next]_vars PROVE PlacementInv'
    OBVIOUS
  <2>1. CASE \E s \in Scop : runOnScop(s)
    BY <2>1, PassKeeps
  <2>2. CASE Call
    BY <2>2, CallKeeps
  <2>3. CASE Branch
    BY <2>3, BranchKeeps
  <2>4. CASE UNCHANGED vars
    BY <2>4 DEF vars, PlacementInv, TypeOK, CodeAt
  <2> QED
    BY <2>1, <2>2, <2>3, <2>4 DEF Next
<1> QED
  BY <1>1, <1>2, PTL DEF Spec

\* The variables keep their types.
THEOREM TypeCorrect == ASSUME AllStraight PROVE Spec => []TypeOK
<1>1. PlacementInv => TypeOK
  BY DEF PlacementInv
<1> QED
  BY <1>1, PlacementCorrect, PTL

\* A SCoP is never started twice nor stopped before it was started.
THEOREM AlternateCorrect == ASSUME AllStraight PROVE Spec => []Alternate
<1>1. PlacementInv => Alternate
  BY DEF PlacementInv, Alternate
<1> QED
  BY <1>1, PlacementCorrect, PTL

\* The timers of a SCoP run while control is in it and not elsewhere.
THEOREM TimersCorrect == ASSUME AllStraight PROVE Spec => []TimersFollowControl
<1>1. ASSUME PlacementInv PROVE TimersFollowControl
  <2> SUFFICES ASSUME InBody, NEW s \in Scop
               PROVE  /\ at \in BlocksOf[s] \ {ScopExit(succ, s)} => balance[s] = 1
                      /\ at \notin BlocksOf[s] \cup {ScopEntry(succ, s)}
                           => balance[s] = 0
    BY DEF TimersFollowControl
  <2>1. at \in Block /\ succ \in Graphs /\ todo = {} /\ pc = Len(code[at]) + 1
    BY <1>1 DEF PlacementInv, TypeOK, InBody, Compiled
  <2>2. at \in {ScopEntry(succ, s), ScopExit(succ, s)} => pc = 2
    BY <1>1, BodyPosition
  <2>3. balance[s] = IF Timed(succ, at, pc, s) THEN 1 ELSE 0
    BY <1>1 DEF PlacementInv
  <2>4. ScopEntry(succ, s) # ScopExit(succ, s)
    BY <2>1, Separate
  <2> QED
    BY <2>2, <2>3, <2>4 DEF Timed
<1> QED
  BY <1>1, PlacementCorrect, PTL

\* No two SCoPs are timed at once.
THEOREM OneAtATimeCorrect == ASSUME AllStraight PROVE Spec => []OneAtATime
<1>1. ASSUME PlacementInv PROVE OneAtATime
  <2> SUFFICES ASSUME NEW s \in Scop, NEW t \in Scop,
                      balance[s] = 1, balance[t] = 1
               PROVE  s = t
    BY DEF OneAtATime
  <2>1. succ \in Graphs /\ Timed(succ, at, pc, s) /\ Timed(succ, at, pc, t)
    BY <1>1 DEF PlacementInv
  <2> QED
    BY <2>1, Separate DEF Timed
<1> QED
  BY <1>1, PlacementCorrect, PTL

\* The calls that a run makes are those class Statistics was written for.
THEOREM ImplementsCalls == ASSUME AllStraight PROVE Spec => CallsAsAssumed
<1>1. Init => Calls!Init
  BY InitPlaces
<1>2. PlacementInv /\ [Next]_vars => [Calls!Next]_balance
  <2> SUFFICES ASSUME PlacementInv, [Next]_vars PROVE [Calls!Next]_balance
    OBVIOUS
  <2>1. CASE Call
    BY <2>1, CallKeeps
  <2>2. CASE UNCHANGED balance
    BY <2>2
  <2> QED
    BY <2>1, <2>2 DEF Next, runOnScop, Branch, vars
<1> QED
  BY <1>1, <1>2, PlacementCorrect, PTL DEF Spec, CallsAsAssumed, Calls!Spec
-----------------------------------------------------------------------------
(* The parameters of the start call, in functions of any shape. *)

\* The blocks of U can only be left through d, and a run begins there or in d.
Before(g, d, U) ==
  /\ d \notin U
  /\ Start \in U \cup {d}
  /\ \A a \in U : g[a] \subseteq U \cup {d}

\* Every run passes d before it reaches b.
StrictlyDominates(g, d, b) ==
  b # d /\ \E U \in SUBSET Block : Before(g, d, U) /\ b \notin U

\* The parameters are arguments, or are computed by a block that dominates the
\* entry of the SCoP, as SSA form asks, and is not the one of the start call.
DefinedAhead ==
  \A g \in Graphs, s \in Scop :
    \/ DefinedIn[s] = Argument
    \/ /\ StrictlyDominates(g, DefinedIn[s], EntryOf[s])
       /\ DefinedIn[s] # ScopEntry(g, s)

\* Each start call stands where ScopEntry says.
StartsPlaced ==
  \A b \in Block : \A i \in DOMAIN code[b] :
    code[b][i][1] = "start_scop" => b = ScopEntry(succ, code[b][i][2])

\* A run that has left the blocks before a definition has passed it.
KnownInv ==
  /\ succ \in Graphs
  /\ at \in Block
  /\ pc \in Nat \ {0}
  /\ code \in [Block -> Seq({"start_scop", "stop_scop"} \X Scop)]
  /\ todo \subseteq Scop
  /\ StartsPlaced
  /\ Argument \in known
  /\ \A s \in Scop : \A U \in SUBSET Block :
       Before(succ, DefinedIn[s], U) =>
         at \in U \cup {DefinedIn[s]} \/ DefinedIn[s] \in known

\* What the pass puts into a block.
AnyCall == {"start_scop", "stop_scop"} \X Scop

\* A call put in front of block b: the others move back by one.
LEMMA PrependFact ==
  ASSUME NEW c \in [Block -> Seq(AnyCall)], NEW b \in Block, NEW call \in AnyCall,
         NEW n, n = Prepend(c, b, call)
  PROVE  /\ n \in [Block -> Seq(AnyCall)]
         /\ \A x \in Block : \A i \in DOMAIN n[x] :
              \/ x = b /\ n[x][i] = call
              \/ \E j \in DOMAIN c[x] : n[x][i] = c[x][j]
<1> DEFINE m == <<call>> \o c[b]
<1>1. m \in Seq(AnyCall) /\ n = [c EXCEPT ![b] = m]
  <2>1. <<call>> \in Seq(AnyCall) /\ c[b] \in Seq(AnyCall)
    OBVIOUS
  <2> QED
    BY <2>1 DEF Prepend
<1>2. ASSUME NEW i \in DOMAIN m
      PROVE  m[i] = call \/ \E j \in DOMAIN c[b] : m[i] = c[b][j]
  <2>1. c[b] \in Seq(AnyCall) /\ Len(c[b]) \in Nat
    OBVIOUS
  <2>2. i \in 1 .. Len(c[b]) + 1
    BY <2>1
  <2>3. CASE i = 1
    BY <2>1, <2>3
  <2>4. CASE i # 1
    <3>1. i - 1 \in DOMAIN c[b] /\ m[i] = c[b][i - 1]
      BY <2>1, <2>2, <2>4
    <3> QED
      BY <3>1
  <2> QED
    BY <2>3, <2>4
<1> HIDE DEF m
<1>3. n[b] = m /\ \A x \in Block \ {b} : n[x] = c[x]
  BY <1>1
<1> QED
  BY <1>1, <1>2, <1>3

\* The pass puts each start call where ScopEntry says.
LEMMA PassPlaces ==
  ASSUME KnownInv, NEW s \in Scop, runOnScop(s)
  PROVE  KnownInv'
<1> DEFINE b == ScopEntry(succ, s)
           c == createStartProfilingCall(code, s)
<1>1. /\ b \in Block /\ ScopExit(succ, s) \in Block
      /\ code \in [Block -> Seq(AnyCall)]
      /\ <<"start_scop", s>> \in AnyCall /\ <<"stop_scop", s>> \in AnyCall
  BY EntryFact, ExitFact DEF KnownInv, AnyCall
<1>2. /\ c \in [Block -> Seq(AnyCall)]
      /\ \A x \in Block : \A i \in DOMAIN c[x] :
           \/ x = b /\ c[x][i] = <<"start_scop", s>>
           \/ \E j \in DOMAIN code[x] : c[x][i] = code[x][j]
  <2> DEFINE call == <<"start_scop", s>>
  <2>1. c = Prepend(code, b, call)
    BY DEF createStartProfilingCall
  <2>2. b \in Block /\ code \in [Block -> Seq(AnyCall)] /\ call \in AnyCall
    BY <1>1
  <2> HIDE DEF b, c, call
  <2>3. /\ c \in [Block -> Seq(AnyCall)]
        /\ \A x \in Block : \A i \in DOMAIN c[x] :
             \/ x = b /\ c[x][i] = call
             \/ \E j \in DOMAIN code[x] : c[x][i] = code[x][j]
    BY <2>1, <2>2, PrependFact
  <2> QED
    BY <2>3 DEF call
<1> HIDE DEF c
<1>3. /\ code' \in [Block -> Seq(AnyCall)]
      /\ \A x \in Block : \A i \in DOMAIN code'[x] :
           \/ x = ScopExit(succ, s) /\ code'[x][i] = <<"stop_scop", s>>
           \/ \E j \in DOMAIN c[x] : code'[x][i] = c[x][j]
  <2> DEFINE X == ScopExit(succ, s)
             call == <<"stop_scop", s>>
  <2>1. code' = Prepend(c, X, call)
    BY DEF runOnScop, createStopProfilingCall, c
  <2>2. X \in Block /\ c \in [Block -> Seq(AnyCall)] /\ call \in AnyCall
    BY <1>1, <1>2
  <2> HIDE DEF X, call
  <2>3. /\ code' \in [Block -> Seq(AnyCall)]
        /\ \A x \in Block : \A i \in DOMAIN code'[x] :
             \/ x = X /\ code'[x][i] = call
             \/ \E j \in DOMAIN c[x] : code'[x][i] = c[x][j]
    BY <2>1, <2>2, PrependFact
  <2> QED
    BY <2>3 DEF X, call
<1>4. succ' = succ
  BY DEF runOnScop
<1>5. StartsPlaced'
  <2> SUFFICES ASSUME NEW x \in Block, NEW i \in DOMAIN code'[x],
                      code'[x][i][1] = "start_scop"
               PROVE  x = ScopEntry(succ, code'[x][i][2])
    BY <1>4 DEF StartsPlaced
  <2>1. PICK j \in DOMAIN c[x] : code'[x][i] = c[x][j]
    BY <1>3
  <2>2. CASE x = b /\ c[x][j] = <<"start_scop", s>>
    BY <2>1, <2>2
  <2>3. CASE \E k \in DOMAIN code[x] : c[x][j] = code[x][k]
    BY <2>1, <2>3 DEF KnownInv, StartsPlaced
  <2> QED
    BY <1>2, <2>2, <2>3
<1> QED
  BY <1>3, <1>4, <1>5 DEF KnownInv, runOnScop, AnyCall

\* A branch out of the blocks before a definition leads to it, and one out of
\* the definition leaves it known.
LEMMA BranchKnows ==
  ASSUME KnownInv, Branch
  PROVE  KnownInv'
<1>1. /\ succ \in Graphs /\ succ' = succ /\ code' = code /\ todo' = todo
      /\ at \in Block /\ at' \in succ[at] /\ pc' = 1
      /\ known' = known \cup ({at} \cap {DefinedIn[s] : s \in Scop})
  BY DEF KnownInv, Branch
<1>2. at' \in Block
  BY <1>1, InstrumentationAssumption
<1>3. ASSUME NEW s \in Scop, NEW U \in SUBSET Block,
             Before(succ, DefinedIn[s], U)
      PROVE  at' \in U \cup {DefinedIn[s]} \/ DefinedIn[s] \in known'
  <2>1. at \in U \cup {DefinedIn[s]} \/ DefinedIn[s] \in known
    BY <1>3 DEF KnownInv
  <2>2. CASE at \in U
    BY <1>1, <1>3, <2>2 DEF Before
  <2>3. CASE at = DefinedIn[s]
    BY <1>1, <2>3
  <2>4. CASE DefinedIn[s] \in known
    BY <1>1, <2>4
  <2> QED
    BY <2>1, <2>2, <2>3, <2>4
<1> QED
  BY <1>1, <1>2, <1>3 DEF KnownInv, StartsPlaced

\* What is defined ahead of the entry of a SCoP is defined ahead of its start
\* call, which stands in the entry or in the one block that leads there.
LEMMA AheadOfCall ==
  ASSUME DefinedAhead, NEW g \in Graphs, NEW s \in Scop, DefinedIn[s] # Argument
  PROVE  \E U \in SUBSET Block :
           /\ Before(g, DefinedIn[s], U)
           /\ ScopEntry(g, s) \notin U \cup {DefinedIn[s]}
<1> DEFINE d == DefinedIn[s]
           E == ScopEntry(g, s)
<1>1. StrictlyDominates(g, d, EntryOf[s]) /\ d # E
  BY DEF DefinedAhead
<1>2. PICK U \in SUBSET Block : Before(g, d, U) /\ EntryOf[s] \notin U
  BY <1>1 DEF StrictlyDominates
<1>3. EntryOf[s] # d
  BY <1>1 DEF StrictlyDominates
<1>4. E \notin U
  <2>1. CASE E = EntryOf[s]
    BY <1>2, <2>1
  <2>2. CASE EnteringBlocks(g, s) = {E}
    <3>1. EntryOf[s] \in g[E]
      BY <2>2 DEF EnteringBlocks, Predecessors
    <3> QED
      BY <1>2, <1>3, <3>1 DEF Before
  <2> QED
    BY <2>1, <2>2, EntryFact
<1> QED
  BY <1>1, <1>2, <1>4

\* In functions of any shape, with any number of SCoPs: if no parameter is
\* computed in the very block that the start call is put in front of, every
\* start_scop is called with values that have been computed.
THEOREM ParametersCorrect ==
  ASSUME DefinedAhead PROVE Spec => []ParametersComputed
<1>1. Init => KnownInv
  <2> SUFFICES ASSUME Init PROVE KnownInv
    OBVIOUS
  <2>1. /\ succ \in Graphs /\ at = Start /\ Start \in Block /\ pc = 1
        /\ todo = Scop /\ code = [b \in Block |-> <<>>] /\ known = {Argument}
    BY InstrumentationAssumption DEF Init
  <2>2. StartsPlaced
    BY <2>1 DEF StartsPlaced
  <2> QED
    BY <2>1, <2>2 DEF KnownInv, Before
<1>2. KnownInv /\ [Next]_vars => KnownInv'
  <2> SUFFICES ASSUME KnownInv, [Next]_vars PROVE KnownInv'
    OBVIOUS
  <2>1. CASE \E s \in Scop : runOnScop(s)
    BY <2>1, PassPlaces
  <2>2. CASE Call
    BY <2>2 DEF Call, KnownInv, StartsPlaced
  <2>3. CASE Branch
    BY <2>3, BranchKnows
  <2>4. CASE UNCHANGED vars
    BY <2>4 DEF vars, KnownInv, StartsPlaced
  <2> QED
    BY <2>1, <2>2, <2>3, <2>4 DEF Next
<1>3. KnownInv => ParametersComputed
  <2> SUFFICES ASSUME KnownInv, AtCall, code[at][pc][1] = "start_scop"
               PROVE  DefinedIn[code[at][pc][2]] \in known
    BY DEF ParametersComputed
  <2> DEFINE s == code[at][pc][2]
  <2>1. code[at] \in Seq({"start_scop", "stop_scop"} \X Scop) /\ at \in Block
    BY DEF KnownInv
  <2>2. pc \in DOMAIN code[at] /\ Len(code[at]) \in Nat
    BY <2>1 DEF KnownInv, AtCall
  <2>3. s \in Scop
    BY <2>1, <2>2
  <2>4. at = ScopEntry(succ, s)
    BY <2>1, <2>2 DEF KnownInv, StartsPlaced
  <2> HIDE DEF s
  <2>5. CASE DefinedIn[s] = Argument
    BY <2>5 DEF KnownInv, s
  <2>6. CASE DefinedIn[s] # Argument
    <3>1. succ \in Graphs
      BY DEF KnownInv
    <3>2. PICK U \in SUBSET Block :
            Before(succ, DefinedIn[s], U) /\ at \notin U \cup {DefinedIn[s]}
      BY <2>3, <2>4, <2>6, <3>1, AheadOfCall
    <3>3. DefinedIn[s] \in known
      BY <2>3, <3>2 DEF KnownInv
    <3> QED
      BY <3>3 DEF s
  <2> QED
    BY <2>5, <2>6
<1> QED
  BY <1>1, <1>2, <1>3, PTL DEF Spec
=============================================================================
