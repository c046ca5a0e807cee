--------------------------- MODULE StatisticsProofs ---------------------------
(***************************************************************************)
(* Theorems about class Statistics for every program and every bound.      *)
(***************************************************************************)
EXTENDS Statistics, FiniteSetTheorems, SequenceTheorems, TLAPS

-----------------------------------------------------------------------------
(* The timers. *)

\* Division by a positive integer leaves a remainder below it.
LEMMA DivMod ==
  ASSUME NEW n \in Nat \ {0}, NEW a \in Int
  PROVE  /\ a \div n \in Int
         /\ a % n \in 0 .. n - 1
         /\ a = n * (a \div n) + (a % n)
  BY SMTT(30)

\* That remainder is the only one.
LEMMA ModUnique ==
  ASSUME NEW n \in Nat \ {0}, NEW a \in Int,
         NEW q \in Int, NEW r \in 0 .. n - 1, a = n * q + r
  PROVE  a % n = r
  BY SMTT(30)

\* A difference of remainders is the difference itself up to a multiple.
LEMMA DiffMod ==
  ASSUME NEW n \in Nat \ {0}, NEW a \in Int, NEW b \in Int
  PROVE  (b % n) - (a % n) = n * ((a \div n) - (b \div n)) + (b - a)
<1>1. a = n * (a \div n) + (a % n) /\ a \div n \in Int /\ a % n \in Int
  BY DivMod
<1>2. b = n * (b \div n) + (b % n) /\ b \div n \in Int /\ b % n \in Int
  BY DivMod
<1> QED
  BY <1>1, <1>2, SMTT(30)

\* RDTSCTimer: the unsigned subtraction is exact, wherever the counter wraps
\* around (Timers.h, lines 54 to 58).
LEMMA RDTSCExact ==
  ASSUME NEW b \in 0 .. MaxNow, NEW t \in b .. MaxNow
  PROVE  RDTSCSub(RDTSCNow(t), RDTSCNow(b)) = t - b
<1>1. /\ TscModulus \in Nat \ {0}
      /\ TscOrigin \in Int
      /\ MaxNow \in Nat
      /\ MaxNow < TscModulus
  BY TimersAssumption, StatisticsAssumption
<1> DEFINE x == TscOrigin + b
           y == TscOrigin + t
<1>2. x \in Int /\ y \in Int /\ y - x = t - b /\ t - b \in 0 .. TscModulus - 1
  BY <1>1
<1>3. /\ x \div TscModulus \in Int
      /\ y \div TscModulus \in Int
      /\ x % TscModulus \in Int
      /\ y % TscModulus \in Int
  BY <1>1, <1>2, DivMod
<1>4. (y % TscModulus) - (x % TscModulus)
        = TscModulus * ((x \div TscModulus) - (y \div TscModulus)) + (y - x)
  BY <1>1, <1>2, DiffMod
<1> HIDE DEF x, y
<1>5. ((y % TscModulus) - (x % TscModulus)) % TscModulus = y - x
  BY <1>1, <1>2, <1>3, <1>4, ModUnique
<1> QED
  BY <1>2, <1>5 DEF RDTSCSub, RDTSCNow, x, y

\* ClockTimer: subtracting the fields and borrowing a second is exact, and
\* the borrow leaves less than a second of nanoseconds (Timers.cpp, lines 30
\* to 42 and 50).
LEMMA ClockExact ==
  ASSUME NEW b \in Int, NEW t \in Int
  PROVE  ClockToJson(ClockSub(ClockNow(t), ClockNow(b))) = t - b
<1>1. NsecPerSec \in Nat \ {0}
  BY TimersAssumption
<1> DEFINE bs == b \div NsecPerSec
           bn == b % NsecPerSec
           ts == t \div NsecPerSec
           tn == t % NsecPerSec
<1>2. /\ bs \in Int /\ bn \in Int /\ b = NsecPerSec * bs + bn
      /\ ts \in Int /\ tn \in Int /\ t = NsecPerSec * ts + tn
  BY <1>1, DivMod
<1>3. ClockNow(b) = [tv_sec |-> bs, tv_nsec |-> bn]
      /\ ClockNow(t) = [tv_sec |-> ts, tv_nsec |-> tn]
  BY DEF ClockNow
<1> HIDE DEF bs, bn, ts, tn
<1>4. /\ NsecPerSec * (ts - bs) + (tn - bn) = t - b
      /\ NsecPerSec * (ts - bs - 1) + (tn - bn + NsecPerSec) = t - b
  BY <1>1, <1>2, SMTT(30)
<1>5. CASE tn - bn < 0
  BY <1>3, <1>4, <1>5 DEF ClockSub, ClockToJson
<1>6. CASE ~(tn - bn < 0)
  BY <1>3, <1>4, <1>6 DEF ClockSub, ClockToJson
<1> QED
  BY <1>5, <1>6

\* All timers of an execution show its exact length.
LEMMA ElapsedExact ==
  ASSUME NEW b \in 0 .. MaxNow, NEW t \in b .. MaxNow
  PROVE  TimersToJson(Elapsed(Timepoints(t), Timepoints(b))) = Log!Exactly(t - b)
<1>1. MaxNow \in Nat /\ b \in Int /\ t \in Int
  BY StatisticsAssumption
<1>2. RDTSCSub(RDTSCNow(t), RDTSCNow(b)) = t - b
  BY RDTSCExact
<1>3. ClockToJson(ClockSub(ClockNow(t), ClockNow(b))) = t - b
  BY <1>1, ClockExact
<1>4. PAPISub(PAPINow(t), PAPINow(b)) = [e \in Event |-> t - b]
  BY DEF PAPISub, PAPINow
<1> QED
  BY <1>2, <1>3, <1>4 DEF TimersToJson, Elapsed, Timepoints, Log!Exactly

\* Reading the timers at any moment yields well-formed timepoints.
LEMMA TimepointsType ==
  ASSUME NEW t \in Nat
  PROVE  Timepoints(t) \in Timepoint
<1>1. TscModulus \in Nat \ {0} /\ TscOrigin \in Int /\ NsecPerSec \in Nat \ {0}
  BY TimersAssumption
<1>2. RDTSCNow(t) \in 0 .. TscModulus - 1
  BY <1>1, DivMod, TscOrigin + t \in Int DEF RDTSCNow
<1>3. t \div NsecPerSec \in Nat
  BY <1>1, SMTT(30)
<1>4. ClockNow(t) \in Timespec
  BY <1>1, <1>3, DivMod DEF ClockNow, Timespec
<1>5. PAPINow(t) \in [Event -> Nat]
  BY DEF PAPINow
<1> QED
  BY <1>2, <1>4, <1>5 DEF Timepoints, Timepoint

\* Subtracting any two timepoints yields a well-formed duration.
LEMMA ElapsedType ==
  ASSUME NEW x \in Timepoint, NEW y \in Timepoint
  PROVE  Elapsed(x, y) \in Duration
<1>1. TscModulus \in Nat \ {0} /\ NsecPerSec \in Nat \ {0}
  BY TimersAssumption
<1>2. /\ x.RDTSC \in Int /\ y.RDTSC \in Int
      /\ x.Clock \in Timespec /\ y.Clock \in Timespec
      /\ x.PAPI \in [Event -> Nat] /\ y.PAPI \in [Event -> Nat]
  BY DEF Timepoint
<1>3. RDTSCSub(x.RDTSC, y.RDTSC) \in 0 .. TscModulus - 1
  BY <1>1, <1>2, DivMod, x.RDTSC - y.RDTSC \in Int DEF RDTSCSub
<1>4. ClockSub(x.Clock, y.Clock)
        \in [tv_sec : Int, tv_nsec : 0 .. NsecPerSec - 1]
  BY <1>1, <1>2 DEF ClockSub, Timespec
<1>5. PAPISub(x.PAPI, y.PAPI) \in [Event -> Int]
  BY <1>2 DEF PAPISub
<1> QED
  BY <1>3, <1>4, <1>5 DEF Elapsed, Duration

-----------------------------------------------------------------------------
(* Type correctness. *)

\* A SCoP's region and its parameter vectors are among those declared.
LEMMA NamesType ==
  ASSUME NEW s \in Scop, NEW v \in ValuesOf[s]
  PROVE  RegionName(s) \in Region /\ ParamVector(s, v) \in Params
  BY DEF Region, Params

\* Popping a stack of executions leaves a stack of executions.
LEMMA FrontType ==
  ASSUME NEW S, NEW q \in Seq(S), q # <<>>
  PROVE  /\ SubSeq(q, 1, Len(q) - 1) \in Seq(S)
         /\ Len(SubSeq(q, 1, Len(q) - 1)) = Len(q) - 1
         /\ \A i \in 1 .. Len(q) - 1 : SubSeq(q, 1, Len(q) - 1)[i] = q[i]
         /\ q[Len(q)] \in S
         /\ Len(q) \in Nat \ {0}
<1>1. Len(q) \in Nat \ {0} /\ \A i \in 1 .. Len(q) : q[i] \in S
  BY EmptySeq, ElementOfSeq
<1> DEFINE n == Len(q) - 1
<1>2. n \in Nat /\ n <= Len(q)
  BY <1>1
<1> HIDE DEF n
<1>3. /\ SubSeq(q, 1, n) \in Seq(S)
      /\ Len(SubSeq(q, 1, n)) = n
      /\ \A i \in 1 .. n : SubSeq(q, 1, n)[i] = q[i]
  BY <1>2
<1> QED
  BY <1>1, <1>3 DEF n

\* Appending to one sequence of a family extends that one only.
LEMMA AppendAt ==
  ASSUME NEW S, NEW R, NEW f \in [R -> Seq(S)], NEW r \in R, NEW e \in S
  PROVE  /\ [f EXCEPT ![r] = Append(@, e)] \in [R -> Seq(S)]
         /\ \A x \in R : [f EXCEPT ![r] = Append(@, e)][x]
                           = IF x = r THEN Append(f[x], e) ELSE f[x]
  BY AppendProperties

\* The types hold initially and every operation keeps them.
THEOREM TypeCorrect == Spec => []TypeOK
<1>1. Init => TypeOK
  <2> SUFFICES ASSUME Init PROVE TypeOK
    OBVIOUS
  <2>1. last_times \in Timepoint
    BY TimepointsType, StatisticsAssumption DEF Init
  <2> QED
    BY <2>1, StatisticsAssumption DEF Init, TypeOK
<1>2. TypeOK /\ [Next]_vars => TypeOK'
  <2> SUFFICES ASSUME TypeOK, [Next]_vars PROVE TypeOK'
    OBVIOUS
  <2> USE DEF TypeOK
  <2>1. now \in Nat /\ MaxNow \in Nat /\ Timepoints(now) \in Timepoint
    BY TimepointsType, StatisticsAssumption
  <2>2. CASE Tick
    BY <2>1, <2>2 DEF Tick, stats
  <2>3. ASSUME NEW s \in Scop, NEW v \in ValuesOf[s], Start(s, v)
        PROVE  TypeOK'
    <3>1. RegionName(s) \in Region /\ ParamVector(s, v) \in Params
      BY NamesType
    <3>2. Frame(s, v, now) \in Execution
      BY DEF Frame, Execution
    <3> QED
      BY <2>1, <2>3, <3>1, <3>2 DEF Start, startProfiling
  <2>4. CASE Stop
    <3>1. Elapsed(Timepoints(now), last_times) \in Duration
      BY <2>1, ElapsedType
    <3>2. SubSeq(open, 1, Len(open) - 1) \in Seq(Execution)
      BY <2>4, FrontType DEF Stop
    <3>3. Innermost \in Execution
      BY <2>4, FrontType DEF Stop, Innermost
    <3>4. RegionName(Innermost.scop) \in Region
      BY <3>3, NamesType DEF Execution
    <3>5. durations' \in [Region -> Seq(Duration)]
      BY <2>4, <3>1, <3>4, AppendAt DEF Stop, stopProfiling
    <3> QED
      BY <2>4, <3>2, <3>5 DEF Stop, stopProfiling
  <2>5. CASE UNCHANGED vars
    BY <2>5 DEF vars
  <2> QED
    BY <2>2, <2>3, <2>4, <2>5 DEF Next
<1> QED
  BY <1>1, <1>2, PTL DEF Spec

-----------------------------------------------------------------------------
(* Programs whose SCoPs do not nest. *)

\* A start adds its parameters to its region, and to no other.
LEMMA StartLengthens ==
  ASSUME TypeOK, NEW s \in Scop, NEW v \in ValuesOf[s], NEW t,
         startProfiling(RegionName(s), ParamVector(s, v), t)
  PROVE  \A x \in Region :
           /\ Len(parameters'[x])
                = Len(parameters[x]) + (IF x = RegionName(s) THEN 1 ELSE 0)
           /\ \A i \in 1 .. Len(parameters[x]) : parameters'[x][i] = parameters[x][i]
           /\ x = RegionName(s) =>
                parameters'[x][Len(parameters[x]) + 1] = ParamVector(s, v)
           /\ DOMAIN parameters'[x] = 1 .. Len(parameters'[x])
           /\ Len(parameters[x]) \in Nat
<1> USE DEF TypeOK
<1> DEFINE r == RegionName(s)
           p == ParamVector(s, v)
<1> SUFFICES ASSUME NEW x \in Region
             PROVE  /\ Len(parameters'[x]) = Len(parameters[x]) + (IF x = r THEN 1 ELSE 0)
                    /\ \A i \in 1 .. Len(parameters[x]) :
                         parameters'[x][i] = parameters[x][i]
                    /\ x = r => parameters'[x][Len(parameters[x]) + 1] = p
                    /\ DOMAIN parameters'[x] = 1 .. Len(parameters'[x])
                    /\ Len(parameters[x]) \in Nat
  OBVIOUS
<1>1. r \in Region /\ p \in Params
  BY NamesType
<1>2. parameters' = [parameters EXCEPT ![r] = Append(@, p)]
  BY DEF startProfiling
<1>3. parameters'[x] = IF x = r THEN Append(parameters[x], p) ELSE parameters[x]
  BY <1>1, <1>2, AppendAt
<1>4. /\ Len(Append(parameters[x], p)) = Len(parameters[x]) + 1
      /\ Append(parameters[x], p)[Len(parameters[x]) + 1] = p
      /\ \A i \in 1 .. Len(parameters[x]) :
           Append(parameters[x], p)[i] = parameters[x][i]
      /\ DOMAIN Append(parameters[x], p) = 1 .. Len(parameters[x]) + 1
      /\ DOMAIN parameters[x] = 1 .. Len(parameters[x])
      /\ Len(parameters[x]) \in Nat
  BY <1>1, AppendProperties, LenProperties
<1> HIDE DEF r, p
<1> QED
  BY <1>3, <1>4

\* Entering a SCoP when none is under way: its timepoints and its parameters
\* become the last ones, under the names of its region.
LEMMA StartIsOwn ==
  ASSUME NamesIdentify, TypeOK, NamesOfRegion,
         NEW s \in Scop, NEW v \in ValuesOf[s],
         startProfiling(RegionName(s), ParamVector(s, v), now'),
         open' = <<Frame(s, v, now')>>, now' \in Nat
  PROVE  SlotIsOwn' /\ NamesOfRegion'
<1> DEFINE r == RegionName(s)
           p == ParamVector(s, v)
<1>1. r \in Region
  BY NamesType
<1>2. last_times' = Timepoints(now')
  BY DEF startProfiling
<1>3. /\ Len(parameters'[r]) = Len(parameters[r]) + 1
      /\ parameters'[r][Len(parameters[r]) + 1] = p
  BY <1>1, StartLengthens
<1>4. SlotIsOwn'
  BY <1>2, <1>3 DEF SlotIsOwn, Frame
<1>5. NamesOfRegion'
  <2> SUFFICES ASSUME NEW t \in Scop, NEW i \in DOMAIN parameters'[RegionName(t)]
               PROVE  parameters'[RegionName(t)][i].names = NamesOf[t]
    BY DEF NamesOfRegion
  <2> DEFINE x == RegionName(t)
  <2>1. x \in Region
    BY DEF Region
  <2>2. /\ Len(parameters'[x]) = Len(parameters[x]) + (IF x = r THEN 1 ELSE 0)
        /\ \A k \in 1 .. Len(parameters[x]) : parameters'[x][k] = parameters[x][k]
        /\ x = r => parameters'[x][Len(parameters[x]) + 1] = p
        /\ DOMAIN parameters'[x] = 1 .. Len(parameters'[x])
        /\ Len(parameters[x]) \in Nat
    BY <2>1, StartLengthens
  <2>3. \A k \in 1 .. Len(parameters[x]) : parameters[x][k].names = NamesOf[t]
    BY <2>1, LenProperties DEF NamesOfRegion, TypeOK
  <2>4. x = r => p.names = NamesOf[t]
    BY DEF NamesIdentify, ParamVector
  <2> HIDE DEF x, r, p
  <2>5. parameters'[x][i].names = NamesOf[t]
    <3>0. i \in 1 .. Len(parameters'[x])
      BY <2>2 DEF x
    <3>1. CASE i \in 1 .. Len(parameters[x])
      BY <2>2, <2>3, <3>1
    <3>2. CASE x = r /\ i = Len(parameters[x]) + 1
      BY <2>2, <2>4, <3>2
    <3>3. i \in 1 .. Len(parameters[x]) \/ (x = r /\ i = Len(parameters[x]) + 1)
      <4> DEFINE k == Len(parameters[x])
                 l == Len(parameters'[x])
      <4>1. k \in Nat /\ l = k + (IF x = r THEN 1 ELSE 0) /\ i \in 1 .. l
        BY <2>2, <3>0
      <4> HIDE DEF k, l
      <4>2. CASE x = r
        BY <4>1, <4>2 DEF k
      <4>3. CASE x # r
        BY <4>1, <4>3 DEF k
      <4> QED
        BY <4>2, <4>3
    <3> QED
      BY <3>1, <3>2, <3>3
  <2> QED
    BY <2>5 DEF x
<1> QED
  BY <1>4, <1>5

\* Entering a SCoP keeps the invariant.
LEMMA FlatStart ==
  ASSUME MaxDepth = 1, NamesIdentify, TypeOK, FlatInv,
         NEW s \in Scop, NEW v \in ValuesOf[s], Start(s, v)
  PROVE  FlatInv'
<1> USE DEF TypeOK
<1> DEFINE r == RegionName(s)
<1>1. open = <<>> /\ open' = <<Frame(s, v, now)>> /\ now' = now
  <2>1. Len(open) < 1 /\ open' = Append(open, Frame(s, v, now)) /\ now' = now
    BY MaxDepth = 1 DEF Start
  <2>2. open = <<>>
    BY <2>1, EmptySeq
  <2> QED
    BY <2>1, <2>2
<1>2. /\ startProfiling(r, ParamVector(s, v), now')
      /\ durations' = durations
  BY <1>1 DEF Start, startProfiling
<1>3. OneAtATime'
  BY <1>1 DEF OneAtATime
<1>4. OneStartAhead'
  <2> SUFFICES ASSUME NEW x \in Region
               PROVE  Len(parameters'[x])
                        = Len(durations'[x]) + (IF x = r THEN 1 ELSE 0)
    BY <1>1 DEF OneStartAhead, Running, Frame
  <2>1. Len(parameters[x]) = Len(durations[x]) /\ Len(durations[x]) \in Nat
    BY <1>1, LenProperties DEF FlatInv, OneStartAhead, Running
  <2> QED
    BY <1>2, <2>1, StartLengthens
<1>5. SlotIsOwn' /\ NamesOfRegion'
  <2>1. now' \in Nat
    BY <1>1, StatisticsAssumption
  <2> QED
    BY <1>1, <1>2, <2>1, StartIsOwn DEF FlatInv
<1> QED
  BY <1>3, <1>4, <1>5 DEF FlatInv

\* Leaving a SCoP: the region catches up.
LEMMA FlatStop ==
  ASSUME TypeOK, FlatInv, Stop
  PROVE  /\ FlatInv'
         /\ open = <<open[1]>> /\ open' = <<>>
         /\ open[1] \in Execution
<1> USE DEF TypeOK
<1> DEFINE r == RegionName(open[1].scop)
           d == Elapsed(Timepoints(now), last_times)
<1>1. open # <<>> /\ Len(open) = 1 /\ Innermost = open[1]
  BY FrontType DEF Stop, FlatInv, OneAtATime, Innermost
<1>2. open = <<open[1]>>
  BY <1>1, LenProperties
<1>3. open' = <<>>
  BY <1>1 DEF Stop
<1>4. open[1] \in Execution /\ r \in Region
  <2>1. open[1] \in Execution
    BY <1>1, ElementOfSeq
  <2>2. open[1].scop \in Scop
    BY <2>1 DEF Execution
  <2> QED
    BY <2>1, <2>2 DEF Region
<1>5. d \in Duration
  BY ElapsedType, TimepointsType, StatisticsAssumption
<1>6. /\ durations' = [durations EXCEPT ![r] = Append(@, d)]
      /\ parameters' = parameters
  BY <1>1 DEF Stop, stopProfiling
<1> HIDE DEF d
<1>7. \A x \in Region :
        durations'[x] = IF x = r THEN Append(durations[x], d) ELSE durations[x]
  BY <1>4, <1>5, <1>6, AppendAt
<1>8. OneAtATime' /\ SlotIsOwn' /\ NamesOfRegion'
  BY <1>3, <1>6 DEF FlatInv, OneAtATime, SlotIsOwn, NamesOfRegion
<1>9. OneStartAhead'
  <2> SUFFICES ASSUME NEW x \in Region
               PROVE  Len(parameters'[x]) = Len(durations'[x]) + 0
    BY <1>3 DEF OneStartAhead, Running
  <2>1. Len(parameters[x]) = Len(durations[x]) + (IF x = r THEN 1 ELSE 0)
    BY <1>1 DEF FlatInv, OneStartAhead, Running
  <2>2. Len(durations[x]) \in Nat /\ durations[x] \in Seq(Duration)
    BY LenProperties
  <2> QED
    BY <1>5, <1>6, <1>7, <2>1, <2>2, AppendProperties
<1> QED
  BY <1>2, <1>3, <1>4, <1>8, <1>9 DEF FlatInv

\* FlatInv for every program without nesting whose region names identify the
\* parameter names.
THEOREM FlatCorrect ==
  ASSUME MaxDepth = 1, NamesIdentify
  PROVE  Spec => []FlatInv
<1>1. Init => FlatInv
  <2> SUFFICES ASSUME Init PROVE FlatInv
    OBVIOUS
  <2>1. open = <<>> /\ Len(open) = 0
    BY DEF Init
  <2>2. \A r \in Region : parameters[r] = <<>> /\ durations[r] = <<>>
    BY DEF Init
  <2>3. OneAtATime /\ SlotIsOwn
    BY <2>1 DEF OneAtATime, SlotIsOwn
  <2>4. OneStartAhead
    BY <2>1, <2>2 DEF OneStartAhead, Running
  <2>5. NamesOfRegion
    BY <2>2 DEF NamesOfRegion, Region
  <2> QED
    BY <2>3, <2>4, <2>5 DEF FlatInv
<1>2. TypeOK /\ FlatInv /\ [Next]_vars => FlatInv'
  <2> SUFFICES ASSUME TypeOK, FlatInv, [Next]_vars PROVE FlatInv'
    OBVIOUS
  <2>1. CASE Tick
    BY <2>1 DEF Tick, stats, TypeOK, FlatInv, OneAtATime, OneStartAhead,
                SlotIsOwn, NamesOfRegion, Running, Execution
  <2>2. ASSUME NEW s \in Scop, NEW v \in ValuesOf[s], Start(s, v)
        PROVE  FlatInv'
    BY <2>2, FlatStart, MaxDepth = 1, NamesIdentify
  <2>3. CASE Stop
    BY <2>3, FlatStop
  <2>4. CASE UNCHANGED vars
    BY <2>4 DEF vars, FlatInv, OneAtATime, OneStartAhead, SlotIsOwn,
                NamesOfRegion, Running
  <2> QED
    BY <2>1, <2>2, <2>3, <2>4 DEF Next
<1> QED
  BY <1>1, <1>2, TypeCorrect, PTL DEF Spec

-----------------------------------------------------------------------------
(* The refinement. *)

\* A sequence is its front followed by its last element.
LEMMA FrontAndLast ==
  ASSUME NEW n \in Nat, NEW g, g = [i \in 1 .. n + 1 |-> g[i]]
  PROVE  g = Append([i \in 1 .. n |-> g[i]], g[n + 1])
<1> DEFINE S == {g[i] : i \in 1 .. n + 1}
           h == [i \in 1 .. n |-> g[i]]
<1>1. \A i \in 1 .. n + 1 : g[i] \in S
  OBVIOUS
<1>2. n + 1 \in 1 .. n + 1 /\ \A i \in 1 .. n : i \in 1 .. n + 1
  OBVIOUS
<1> HIDE DEF S
<1>3. h \in Seq(S) /\ Len(h) = n /\ g[n + 1] \in S
  BY <1>1, <1>2
<1>4. /\ Append(h, g[n + 1]) \in Seq(S)
      /\ Len(Append(h, g[n + 1])) = n + 1
      /\ \A i \in 1 .. n : Append(h, g[n + 1])[i] = h[i]
      /\ Append(h, g[n + 1])[n + 1] = g[n + 1]
  BY <1>3, AppendProperties
<1>5. g \in Seq(S) /\ Len(g) = n + 1
  BY <1>1
<1>6. \A i \in 1 .. n + 1 : Append(h, g[n + 1])[i] = g[i]
  BY <1>4
<1> QED
  BY <1>4, <1>5, <1>6, SeqEqual

\* A start leaves the rows of every region as they are.
LEMMA StartKeepsRows ==
  ASSUME TypeOK, NEW s \in Scop, NEW v \in ValuesOf[s], NEW t,
         startProfiling(RegionName(s), ParamVector(s, v), t),
         NEW x \in Region, Len(parameters[x]) >= Len(durations[x])
  PROVE  Rows(x)' = Rows(x)
<1>1. durations' = durations /\ DOMAIN durations[x] = 1 .. Len(durations[x])
  BY LenProperties DEF startProfiling, TypeOK
<1>2. Len(parameters[x]) \in Nat /\ Len(durations[x]) \in Nat
  BY LenProperties DEF TypeOK
<1>3. \A i \in 1 .. Len(parameters[x]) : parameters'[x][i] = parameters[x][i]
  BY StartLengthens
<1>4. \A i \in DOMAIN durations[x] :
        parameters'[x][1] = parameters[x][1] /\ parameters'[x][i] = parameters[x][i]
  BY <1>1, <1>2, <1>3
<1> QED
  BY <1>1, <1>4 DEF Rows

\* The names of ExecutionLog are those of this specification.
LEMMA SameNames ==
  /\ \A s : Log!RegionName(s) = RegionName(s)
  /\ Log!Region = Region
  BY DEF Log!RegionName, RegionName, Log!Region, Region, Log!EMPTY, EMPTY

\* Entering a SCoP begins an execution and publishes nothing.
LEMMA StartBegins ==
  ASSUME MaxDepth = 1, TypeOK, FlatInv,
         NEW s \in Scop, NEW v \in ValuesOf[s], Start(s, v)
  PROVE  Log!Begin(s, v)
<1> USE DEF TypeOK
<1>1. Len(open) < 1 /\ open' = Append(open, Frame(s, v, now)) /\ now' = now
  BY MaxDepth = 1 DEF Start
<1>2. open = <<>> /\ open' = <<Frame(s, v, now)>>
  <2>1. open = <<>>
    BY <1>1, EmptySeq
  <2> QED
    BY <1>1, <2>1
<1>3. {open[i] : i \in DOMAIN open} = {}
      /\ {open'[i] : i \in DOMAIN open'} = {Frame(s, v, now)}
  BY <1>2
<1>6. \A x \in Region : Len(parameters[x]) >= Len(durations[x])
  BY <1>2, LenProperties DEF FlatInv, OneStartAhead, Running
<1>7. \A x \in Region : Rows(x)' = Rows(x)
  BY <1>6, StartKeepsRows DEF Start
<1>8. [x \in Log!Region |-> Rows(x)]' = [x \in Region |-> Rows(x)]
  BY <1>7, SameNames
<1> QED
  BY <1>1, <1>3, <1>7, Zenon DEF Log!Begin, Frame

\* A stop adds the row of the execution it ends to its region, and leaves the
\* rows of every other as they are.
LEMMA StopRow ==
  ASSUME TypeOK, SlotIsOwn, NamesOfRegion,
         NEW f \in Execution, open = <<f>>,
         stopProfiling(RegionName(f.scop), now)
  PROVE  /\ \A x \in Region \ {RegionName(f.scop)} : Rows(x)' = Rows(x)
         /\ Len(parameters[RegionName(f.scop)])
              = Len(durations[RegionName(f.scop)]) + 1 =>
              Rows(RegionName(f.scop))' = Append(Rows(RegionName(f.scop)), Log!Row(f, now))
         /\ \A x \in Region :
              Len(durations'[x])
                = Len(durations[x]) + (IF x = RegionName(f.scop) THEN 1 ELSE 0)
<1> USE DEF TypeOK
<1> DEFINE r == RegionName(f.scop)
           d == Elapsed(Timepoints(now), last_times)
           n == Len(durations[r])
<1>3. f.scop \in Scop /\ f.begin \in 0 .. MaxNow
  BY DEF Execution
<1>4. r \in Region
  BY <1>3 DEF Region
<1>5. /\ durations' = [durations EXCEPT ![r] = Append(@, d)]
      /\ parameters' = parameters
  BY DEF stopProfiling
<1>6. d \in Duration
  BY ElapsedType, TimepointsType, StatisticsAssumption
<1>7. TimersToJson(d) = Log!Exactly(now - f.begin)
  <2>1. last_times = Timepoints(f.begin) /\ f.begin <= now
    BY open = <<f>> DEF SlotIsOwn
  <2>2. now \in f.begin .. MaxNow
    BY <1>3, <2>1, StatisticsAssumption
  <2> QED
    BY <1>3, <2>1, <2>2, ElapsedExact
<1> HIDE DEF d
<1>8. /\ parameters[r] \in Seq(Params) /\ n \in Nat
      /\ durations[r] \in Seq(Duration) /\ DOMAIN durations[r] = 1 .. n
  BY <1>4, LenProperties
<1>9. ASSUME Len(parameters[r]) = n + 1
      PROVE  /\ parameters[r][n + 1] = ParamVector(f.scop, f.values)
             /\ parameters[r][1].names = NamesOf[f.scop]
  <2>1. parameters[r][n + 1] = ParamVector(f.scop, f.values)
    BY <1>9, open = <<f>> DEF SlotIsOwn
  <2>2. 1 \in DOMAIN parameters[r]
    BY <1>8, <1>9, LenProperties
  <2>3. parameters[r][1].names = NamesOf[f.scop]
    BY <1>3, <2>2 DEF NamesOfRegion
  <2> QED
    BY <2>1, <2>3
<1>10. \A x \in Region \ {r} : Rows(x)' = Rows(x)
  BY <1>4, <1>5, <1>6, AppendAt DEF Rows
<1>11. ASSUME Len(parameters[r]) = n + 1
       PROVE  Rows(r)' = Append(Rows(r), Log!Row(f, now))
  <2> DEFINE g == [i \in 1 .. n + 1 |->
                     [names  |-> parameters[r][1].names,
                      values |-> parameters[r][i].values,
                      timers |-> TimersToJson(IF i <= n THEN durations[r][i] ELSE d)]]
  <2>1. /\ durations'[r] = Append(durations[r], d)
        /\ DOMAIN durations'[r] = 1 .. n + 1
        /\ \A i \in 1 .. n : durations'[r][i] = durations[r][i]
        /\ durations'[r][n + 1] = d
    BY <1>4, <1>5, <1>6, <1>8, AppendAt, AppendProperties, LenProperties
  <2>2. [i \in DOMAIN durations'[r] |->
           [names  |-> parameters'[r][1].names,
            values |-> parameters'[r][i].values,
            timers |-> TimersToJson(durations'[r][i])]] = g
    BY <1>5, <1>8, <2>1
  <2>3. Rows(r) = [i \in 1 .. n |-> g[i]]
    BY <1>8 DEF Rows
  <2>4. g[n + 1] = Log!Row(f, now)
    BY <1>7, <1>8, <1>9, <1>11 DEF Log!Row, ParamVector
  <2>5. g = [i \in 1 .. n + 1 |-> g[i]]
    OBVIOUS
  <2> HIDE DEF g
  <2>6. g = Append([i \in 1 .. n |-> g[i]], g[n + 1])
    BY <1>8, <2>5, FrontAndLast
  <2> QED
    BY <2>2, <2>3, <2>4, <2>6 DEF Rows
<1>12. \A x \in Region : Len(durations'[x]) = Len(durations[x]) + (IF x = r THEN 1 ELSE 0)
  <2> TAKE x \in Region
  <2>1. durations'[x] = IF x = r THEN Append(durations[x], d) ELSE durations[x]
    BY <1>4, <1>5, <1>6, AppendAt
  <2>2. Len(Append(durations[x], d)) = Len(durations[x]) + 1 /\ Len(durations[x]) \in Nat
    BY <1>6, AppendProperties, LenProperties
  <2> QED
    BY <2>1, <2>2
<1> HIDE DEF n, r
<1> QED
  BY <1>10, <1>11, <1>12 DEF n, r

\* Leaving a SCoP publishes the row of the execution it ends.
LEMMA StopEnds ==
  ASSUME TypeOK, FlatInv, Stop, NEW f \in Execution, open = <<f>>
  PROVE  \E x \in {open[i] : i \in DOMAIN open} : Log!End(x)
<1> DEFINE r == RegionName(f.scop)
<1>1. open' = <<>>
  BY FlatStop
<1>2. Innermost = f /\ Running(r)
  BY open = <<f>> DEF Innermost, Running
<1>3. r \in Region
  BY DEF Execution, Region
<1>4. stopProfiling(r, now) /\ now' = now
  BY <1>2 DEF Stop
<1>5. Len(parameters[r]) = Len(durations[r]) + 1
  BY <1>2, <1>3 DEF FlatInv, OneStartAhead
<1>6. /\ \A x \in Region \ {r} : Rows(x)' = Rows(x)
      /\ Rows(r)' = Append(Rows(r), Log!Row(f, now))
  BY <1>4, <1>5, StopRow DEF FlatInv
<1>7. {open[i] : i \in DOMAIN open} = {f} /\ {open'[i] : i \in DOMAIN open'} = {}
  BY <1>1, open = <<f>>
<1>8. [x \in Region |-> Rows(x)]'
         = [[x \in Region |-> Rows(x)] EXCEPT ![r] = Append(@, Log!Row(f, now))]
  BY <1>3, <1>6
<1>9. Log!End(f)
  BY <1>4, <1>7, <1>8, SameNames DEF Log!End
<1> QED
  BY <1>7, <1>9

\* For every program without nesting whose region names identify the
\* parameter names, the profiler publishes exactly one row per finished
\* execution, with that execution's parameters and its exact length.
THEOREM Implementation ==
  ASSUME MaxDepth = 1, NamesIdentify
  PROVE  Spec => ImplementsLog
<1>1. Init => Log!Init
  <2> SUFFICES ASSUME Init PROVE Log!Init
    OBVIOUS
  <2>1. {open[i] : i \in DOMAIN open} = {}
    BY DEF Init
  <2>2. \A r \in Region : Rows(r) = <<>>
    BY DEF Init, Rows
  <2> QED
    BY <2>1, <2>2, SameNames DEF Init, Log!Init
<1>2. TypeOK /\ FlatInv /\ [Next]_vars => [Log!Next]_Log!vars
  <2> SUFFICES ASSUME TypeOK, FlatInv, [Next]_vars
               PROVE  Log!Next \/ UNCHANGED Log!vars
    BY DEF Log!vars
  <2>1. CASE Tick
    BY <2>1 DEF Tick, stats, Log!Next, Log!Tick, Rows
  <2>2. ASSUME NEW s \in Scop, NEW v \in ValuesOf[s], Start(s, v)
        PROVE  Log!Next
    BY <2>2, StartBegins, MaxDepth = 1 DEF Log!Next
  <2>3. CASE Stop
    <3>1. PICK f \in Execution : open = <<f>>
      BY <2>3, FlatStop
    <3>2. \E x \in {open[i] : i \in DOMAIN open} : Log!End(x)
      BY <2>3, <3>1, StopEnds
    <3> QED
      BY <3>2 DEF Log!Next
  <2>4. CASE UNCHANGED vars
    BY <2>4 DEF vars, Log!vars, Rows
  <2> QED
    BY <2>1, <2>2, <2>3, <2>4 DEF Next
<1> QED
  BY <1>1, <1>2, TypeCorrect, FlatCorrect, MaxDepth = 1, NamesIdentify, PTL
     DEF Spec, ImplementsLog, Log!Spec

-----------------------------------------------------------------------------
(* Programs whose SCoPs nest to any depth. *)

\* The executions under way in a region are finitely many.
LEMMA OpenInFinite ==
  ASSUME TypeOK, NEW r
  PROVE  /\ IsFiniteSet(OpenIn(r))
         /\ Cardinality(OpenIn(r)) \in Nat
         /\ OpenIn(r) \subseteq 1 .. Len(open)
<1>1. OpenIn(r) \in SUBSET (1 .. Len(open)) /\ Len(open) \in Nat
  BY LenProperties DEF OpenIn, TypeOK
<1>2. IsFiniteSet(1 .. Len(open))
  BY <1>1, FS_Interval
<1> QED
  BY <1>1, <1>2, FS_Subset, FS_CardinalityType

\* An entry adds the new frame to its region, and to no other.
LEMMA OpenInStart ==
  ASSUME TypeOK, NEW r, NEW s \in Scop, NEW v \in ValuesOf[s], NEW t \in 0 .. MaxNow,
         open' = Append(open, Frame(s, v, t))
  PROVE  Cardinality(OpenIn(r)')
           = Cardinality(OpenIn(r)) + (IF RegionName(s) = r THEN 1 ELSE 0)
<1> DEFINE n == Len(open)
<1>1. /\ n \in Nat
      /\ DOMAIN open = 1 .. n
      /\ DOMAIN open' = 1 .. n + 1
      /\ open'[n + 1].scop = s
      /\ \A i \in 1 .. n : open'[i] = open[i]
  <2>1. open \in Seq(Execution) /\ Frame(s, v, t) \in Execution
    BY DEF TypeOK, Frame, Execution
  <2> QED
    BY <2>1, AppendProperties, LenProperties DEF Frame
<1>2. n + 1 \notin OpenIn(r)
  BY <1>1 DEF OpenIn
<1>3. CASE RegionName(s) = r
  <2>1. OpenIn(r)' = OpenIn(r) \cup {n + 1}
    BY <1>1, <1>3 DEF OpenIn
  <2> QED
    BY <1>2, <1>3, <2>1, OpenInFinite, FS_AddElement
<1>4. CASE RegionName(s) # r
  <2>1. OpenIn(r)' = OpenIn(r)
    BY <1>1, <1>4 DEF OpenIn
  <2> QED
    BY <1>4, <2>1, OpenInFinite
<1> QED
  BY <1>3, <1>4

\* An exit removes the innermost frame from its region, and from no other.
LEMMA OpenInStop ==
  ASSUME TypeOK, NEW r, open # <<>>, open' = SubSeq(open, 1, Len(open) - 1)
  PROVE  Cardinality(OpenIn(r)')
           = Cardinality(OpenIn(r))
               - (IF RegionName(Innermost.scop) = r THEN 1 ELSE 0)
<1> DEFINE n == Len(open)
<1>1. /\ n \in Nat \ {0}
      /\ DOMAIN open = 1 .. n
      /\ DOMAIN open' = 1 .. n - 1
      /\ \A i \in 1 .. n - 1 : open'[i] = open[i]
  <2>1. open \in Seq(Execution)
    BY DEF TypeOK
  <2> QED
    BY <2>1, FrontType, LenProperties
<1>2. OpenIn(r)' = OpenIn(r) \ {n}
  BY <1>1 DEF OpenIn
<1>3. n \in OpenIn(r) <=> RegionName(Innermost.scop) = r
  BY <1>1 DEF OpenIn, Innermost
<1>4. Cardinality(OpenIn(r) \ {n})
        = IF n \in OpenIn(r) THEN Cardinality(OpenIn(r)) - 1
                             ELSE Cardinality(OpenIn(r))
  BY OpenInFinite, FS_RemoveElement
<1>5. Cardinality(OpenIn(r)) \in Nat
  BY OpenInFinite
<1> HIDE DEF n
<1> QED
  BY <1>2, <1>3, <1>4, <1>5

\* A start and the entry it reports keep the counts in step.
LEMMA CountsStart ==
  ASSUME TypeOK, CountsAgree,
         NEW s \in Scop, NEW v \in ValuesOf[s], NEW t \in 0 .. MaxNow,
         startProfiling(RegionName(s), ParamVector(s, v), t),
         open' = Append(open, Frame(s, v, t))
  PROVE  CountsAgree'
<1> SUFFICES ASSUME NEW r \in Region
             PROVE  Len(parameters'[r]) = Len(durations'[r]) + Cardinality(OpenIn(r)')
  BY DEF CountsAgree
<1> DEFINE k == RegionName(s)
           p == ParamVector(s, v)
<1>1. /\ Len(parameters[r]) = Len(durations[r]) + Cardinality(OpenIn(r))
      /\ parameters[r] \in Seq(Params) /\ Len(parameters[r]) \in Nat
      /\ Len(durations[r]) \in Nat /\ Cardinality(OpenIn(r)) \in Nat
  BY OpenInFinite, LenProperties DEF CountsAgree, TypeOK
<1>2. k \in Region /\ p \in Params
  BY NamesType
<1>3. parameters' = [parameters EXCEPT ![k] = Append(@, p)]
      /\ durations' = durations
  BY DEF startProfiling
<1>4. parameters'[r] = IF r = k THEN Append(parameters[r], p) ELSE parameters[r]
  BY <1>2, <1>3, AppendAt DEF TypeOK
<1>5. Len(Append(parameters[r], p)) = Len(parameters[r]) + 1
  BY <1>1, <1>2, AppendProperties
<1>6. Len(parameters'[r]) = Len(parameters[r]) + (IF r = k THEN 1 ELSE 0)
  BY <1>1, <1>4, <1>5
<1>7. Cardinality(OpenIn(r)') = Cardinality(OpenIn(r)) + (IF k = r THEN 1 ELSE 0)
  BY OpenInStart
<1> QED
  BY <1>1, <1>3, <1>6, <1>7

\* So do a stop and the exit it reports.
LEMMA CountsStop ==
  ASSUME TypeOK, CountsAgree,
         open # <<>>, stopProfiling(RegionName(Innermost.scop), now),
         open' = SubSeq(open, 1, Len(open) - 1)
  PROVE  CountsAgree'
<1> SUFFICES ASSUME NEW r \in Region
             PROVE  Len(parameters'[r]) = Len(durations'[r]) + Cardinality(OpenIn(r)')
  BY DEF CountsAgree
<1> DEFINE k == RegionName(Innermost.scop)
           d == Elapsed(Timepoints(now), last_times)
<1>1. /\ Len(parameters[r]) = Len(durations[r]) + Cardinality(OpenIn(r))
      /\ Len(parameters[r]) \in Nat
      /\ durations[r] \in Seq(Duration) /\ Len(durations[r]) \in Nat
      /\ Cardinality(OpenIn(r)) \in Nat
  BY OpenInFinite, LenProperties DEF CountsAgree, TypeOK
<1>2. k \in Region
  <2>1. Innermost \in Execution
    BY FrontType DEF Innermost, TypeOK
  <2> QED
    BY <2>1, NamesType DEF Execution
<1>3. d \in Duration
  BY ElapsedType, TimepointsType, StatisticsAssumption DEF TypeOK
<1>4. durations' = [durations EXCEPT ![k] = Append(@, d)]
      /\ parameters' = parameters
  BY DEF stopProfiling
<1>5. Cardinality(OpenIn(r)') = Cardinality(OpenIn(r)) - (IF k = r THEN 1 ELSE 0)
  BY OpenInStop
<1> HIDE DEF d, k
<1>6. durations'[r] = IF r = k THEN Append(durations[r], d) ELSE durations[r]
  BY <1>2, <1>3, <1>4, AppendAt DEF TypeOK
<1>7. CASE k = r
  <2>1. Len(durations'[r]) = Len(durations[r]) + 1
    BY <1>1, <1>3, <1>6, <1>7, AppendProperties
  <2> QED
    BY <1>1, <1>4, <1>5, <1>7, <2>1
<1>8. CASE k # r
  BY <1>1, <1>4, <1>5, <1>6, <1>8
<1> QED
  BY <1>7, <1>8

\* Starts exceed stops by the executions under way, for every program; so a
\* program that leaves each SCoP it enters passes serializeToJson's assertion.
THEOREM CountsCorrect == Spec => []CountsAgree
<1>1. Init => CountsAgree
  <2> SUFFICES ASSUME Init, NEW r \in Region
               PROVE  Len(parameters[r])
                        = Len(durations[r]) + Cardinality(OpenIn(r))
    BY DEF CountsAgree
  <2>1. OpenIn(r) = {} /\ parameters[r] = <<>> /\ durations[r] = <<>>
    BY DEF Init, OpenIn
  <2> QED
    BY <2>1, FS_EmptySet
<1>2. TypeOK /\ CountsAgree /\ [Next]_vars => CountsAgree'
  <2> SUFFICES ASSUME TypeOK, CountsAgree, [Next]_vars PROVE CountsAgree'
    OBVIOUS
  <2>1. CASE Tick
    BY <2>1 DEF Tick, stats, CountsAgree, OpenIn
  <2>2. ASSUME NEW s \in Scop, NEW v \in ValuesOf[s], Start(s, v)
        PROVE  CountsAgree'
    BY <2>2, CountsStart DEF Start, TypeOK
  <2>3. CASE Stop
    BY <2>3, CountsStop DEF Stop
  <2>4. CASE UNCHANGED vars
    BY <2>4 DEF vars, CountsAgree, OpenIn
  <2> QED
    BY <2>1, <2>2, <2>3, <2>4 DEF Next
<1> QED
  BY <1>1, <1>2, TypeCorrect, PTL DEF Spec

\* Executions begin in the order of the stack, and the slot of last timepoints
\* is never older than the innermost of them.
THEOREM NestCorrect == Spec => []NestInv
<1>1. Init => NestInv
  BY DEF Init, NestInv
<1>2. TypeOK /\ NestInv /\ [Next]_vars => NestInv'
  <2> SUFFICES ASSUME TypeOK, NestInv, [Next]_vars PROVE NestInv'
    OBVIOUS
  <2> DEFINE n == Len(open)
  <2>1. /\ n \in Nat /\ DOMAIN open = 1 .. n
        /\ open \in Seq(Execution)
        /\ \A i \in 1 .. n : open[i] \in Execution
    BY LenProperties, ElementOfSeq DEF TypeOK
  <2>2. now \in Nat /\ \A i \in 1 .. n : open[i].begin \in Nat
    BY <2>1, StatisticsAssumption DEF TypeOK, Execution
  <2>3. open # <<>> => n \in 1 .. n
    BY <2>1, EmptySeq
  <2>4. CASE Tick
    <3>1. now' = now + 1 /\ open' = open /\ last_times' = last_times
      BY <2>4 DEF Tick, stats
    <3>2. ASSUME open # <<>>
          PROVE  \E b \in Innermost.begin .. now + 1 : last_times = Timepoints(b)
      <4>1. PICK b \in Innermost.begin .. now : last_times = Timepoints(b)
        BY <3>2 DEF NestInv
      <4>2. b \in Innermost.begin .. now + 1
        BY <2>2, <2>3, <3>2 DEF Innermost
      <4> QED
        BY <4>1, <4>2
    <3> QED
      BY <2>1, <2>2, <3>1, <3>2 DEF NestInv, Innermost
  <2>5. ASSUME NEW s \in Scop, NEW v \in ValuesOf[s], Start(s, v)
        PROVE  NestInv'
    <3> DEFINE f == Frame(s, v, now)
    <3>1. f \in Execution /\ f.begin = now
      BY DEF TypeOK, Frame, Execution
    <3>2. open' = Append(open, f) /\ now' = now /\ last_times' = Timepoints(now)
      BY <2>5 DEF Start, startProfiling
    <3> HIDE DEF f
    <3>3. /\ DOMAIN open' = 1 .. n + 1 /\ Len(open') = n + 1
          /\ open'[n + 1] = f
          /\ \A i \in 1 .. n : open'[i] = open[i]
      BY <2>1, <3>1, <3>2, AppendProperties, LenProperties
    <3>4. \A i \in DOMAIN open' : open'[i].begin <= now
      BY <2>1, <2>2, <3>1, <3>3 DEF NestInv
    <3>5. \A i, j \in DOMAIN open' : i <= j => open'[i].begin <= open'[j].begin
      BY <2>1, <2>2, <3>1, <3>3, <3>4 DEF NestInv
    <3>6. \E b \in Innermost'.begin .. now' : last_times' = Timepoints(b)
      BY <2>2, <3>1, <3>2, <3>3 DEF Innermost
    <3> QED
      BY <3>2, <3>4, <3>5, <3>6 DEF NestInv
  <2>6. CASE Stop
    <3>1. open # <<>> /\ now' = now /\ last_times' = last_times
          /\ open' = SubSeq(open, 1, n - 1)
      BY <2>6 DEF Stop, stopProfiling
    <3>2. /\ n \in Nat \ {0}
          /\ DOMAIN open' = 1 .. n - 1 /\ Len(open') = n - 1
          /\ \A i \in 1 .. n - 1 : open'[i] = open[i]
      BY <2>1, <3>1, FrontType, LenProperties
    <3>3. ASSUME open' # <<>>
          PROVE  \E b \in Innermost'.begin .. now' : last_times' = Timepoints(b)
      <4>1. PICK b \in open[n].begin .. now : last_times = Timepoints(b)
        BY <3>1 DEF NestInv, Innermost
      <4>2. n - 1 \in 1 .. n - 1
        BY <3>2, <3>3, EmptySeq, FrontType, <2>1, <3>1
      <4>3. Innermost' = open[n - 1] /\ open[n - 1].begin <= open[n].begin
        BY <2>1, <3>2, <4>2 DEF NestInv, Innermost
      <4>4. b \in open[n - 1].begin .. now
        BY <2>2, <3>2, <4>2, <4>3
      <4> QED
        BY <3>1, <4>1, <4>3, <4>4
    <3>4. \A i \in DOMAIN open' : i \in DOMAIN open /\ open'[i] = open[i]
      BY <2>1, <3>2
    <3> QED
      BY <3>1, <3>3, <3>4 DEF NestInv
  <2>7. CASE UNCHANGED vars
    BY <2>7 DEF vars, NestInv, Innermost
  <2> QED
    BY <2>4, <2>5, <2>6, <2>7 DEF Next
<1> QED
  BY <1>1, <1>2, TypeCorrect, PTL DEF Spec

\* For every program, nested or not: a stop never records more time than the
\* execution it ends has lasted, on any timer, nor a negative time.
THEOREM OvermeasureCorrect == Spec => StopNeverOvermeasures
<1> DEFINE Bounded ==
      \A r \in Region : Len(durations'[r]) > Len(durations[r]) =>
        LET shown  == TimersToJson(durations'[r][Len(durations'[r])])
            lasted == 0 .. now - Innermost.begin
        IN  /\ shown.RDTSC \in lasted
            /\ shown.Clock \in lasted
            /\ \A e \in Event : shown.PAPI[e] \in lasted
<1>1. TypeOK /\ NestInv /\ [Next]_vars => [Bounded]_vars
  <2> SUFFICES ASSUME TypeOK, NestInv, Next,
                      NEW r \in Region, Len(durations'[r]) > Len(durations[r])
               PROVE  LET shown  == TimersToJson(durations'[r][Len(durations'[r])])
                          lasted == 0 .. now - Innermost.begin
                      IN  /\ shown.RDTSC \in lasted
                          /\ shown.Clock \in lasted
                          /\ \A e \in Event : shown.PAPI[e] \in lasted
    OBVIOUS
  <2> DEFINE d == Elapsed(Timepoints(now), last_times)
             k == RegionName(Innermost.scop)
  <2>1. durations[r] \in Seq(Duration) /\ Len(durations[r]) \in Nat
    BY LenProperties DEF TypeOK
  <2>2. Stop
    BY <2>1 DEF Next, Tick, Start, startProfiling, stats
  <2>3. Innermost \in Execution
    BY <2>2, FrontType DEF Stop, Innermost, TypeOK
  <2>4. d \in Duration /\ k \in Region
    BY <2>3, ElapsedType, TimepointsType, NamesType, StatisticsAssumption
       DEF TypeOK, Execution
  <2>5. durations' = [durations EXCEPT ![k] = Append(@, d)]
    BY <2>2 DEF Stop, stopProfiling
  <2> HIDE DEF d, k
  <2>6. durations'[r] = IF r = k THEN Append(durations[r], d) ELSE durations[r]
    BY <2>4, <2>5, AppendAt DEF TypeOK
  <2>7. durations'[r] = Append(durations[r], d)
    BY <2>1, <2>6
  <2>8. durations'[r][Len(durations'[r])] = d
    BY <2>1, <2>4, <2>7, AppendProperties
  <2>9. PICK b \in Innermost.begin .. now : last_times = Timepoints(b)
    BY <2>2 DEF Stop, NestInv
  <2>10. /\ MaxNow \in Nat /\ now \in 0 .. MaxNow
         /\ Innermost.begin \in 0 .. MaxNow /\ b \in Int
    BY <2>3, <2>9, StatisticsAssumption DEF TypeOK, Execution
  <2>11. b \in 0 .. MaxNow /\ now \in b .. MaxNow
    BY <2>9, <2>10
  <2>12. TimersToJson(d) = Log!Exactly(now - b)
    BY <2>9, <2>11, ElapsedExact DEF d
  <2>13. now - b \in 0 .. now - Innermost.begin
    BY <2>9, <2>10
  <2> QED
    BY <2>8, <2>12, <2>13 DEF Log!Exactly
<1> QED
  BY <1>1, TypeCorrect, NestCorrect, PTL DEF Spec, StopNeverOvermeasures
=============================================================================
