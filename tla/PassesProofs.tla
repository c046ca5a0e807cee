----------------------------- MODULE PassesProofs -----------------------------
(***************************************************************************)
(* Theorems about the plugin in the compiler, for any build: any number of *)
(* processes, modules and SCoPs, and any sharing of names.                 *)
(***************************************************************************)
EXTENDS ProfilingPasses, SequenceTheorems, FiniteSetTheorems, TLAPS

Open == UNION {exporting[p] : p \in Process}

\* A module with calls has what the module pass puts into it.
SetUpInv ==
  \A m \in Module :
    /\ calls[m] # <<>> => ScopFunctions \subseteq declared[m]
    /\ declared[m] # {} =>
         /\ \E i \in DOMAIN ctors[m] : ctors[m][i] = "init_profiling"
         /\ \E i \in DOMAIN dtors[m] : dtors[m][i] = "finish_profiling"

\* Where a SCoP is on its way through the passes.
StageInv ==
  /\ \A p \in Process : \A s \in exporting[p] :
       /\ exporting[p] = {s}
       /\ CompiledBy[ModuleOf[s]] = p
       /\ stage[ModuleOf[s]] = "scops"
       /\ s \in left[ModuleOf[s]] /\ s \notin exported
  /\ \A s \in Scop :
       /\ stage[ModuleOf[s]] = "source" => s \in left[ModuleOf[s]]
       /\ s \notin left[ModuleOf[s]] => s \in exported
  /\ \A m \in Module :
       stage[m] = "object" /\ CompiledBy[m] \in PollyMLProfiler => left[m] = {}

\* The files that one process alone writes.
FileInv ==
  /\ unlinked \subseteq Open
  /\ \A s \in Scop : Private(NameOf[s]) =>
       /\ s \notin unlinked
       /\ s \in Open => files[NameOf[s]] = Empty
       /\ s \in exported =>
            \E t \in Scop : /\ NameOf[t] = NameOf[s]
                            /\ files[NameOf[s]] = t \/ t \in lost \cup Open

PassesInv == TypeOK /\ SetUpInv /\ StageInv /\ FileInv /\ NoHalfFiles

-----------------------------------------------------------------------------
\* What an element appended to a sequence leaves in place.
LEMMA AppendKeeps ==
  ASSUME NEW S, NEW q \in Seq(S), NEW e \in S
  PROVE  /\ Append(q, e) \in Seq(S)
         /\ \E i \in DOMAIN Append(q, e) : Append(q, e)[i] = e
         /\ \A x : (\E i \in DOMAIN q : q[i] = x)
                  => \E i \in DOMAIN Append(q, e) : Append(q, e)[i] = x
<1>1. /\ Append(q, e) \in Seq(S)
      /\ Len(Append(q, e)) = Len(q) + 1
      /\ Append(q, e)[Len(q) + 1] = e
      /\ \A i \in 1 .. Len(q) : Append(q, e)[i] = q[i]
      /\ Len(q) \in Nat
      /\ DOMAIN q = 1 .. Len(q)
      /\ DOMAIN Append(q, e) = 1 .. Len(q) + 1
  OBVIOUS
<1>2. Len(q) + 1 \in DOMAIN Append(q, e)
  BY <1>1
<1>3. DOMAIN q \subseteq DOMAIN Append(q, e)
  BY <1>1
<1> QED
  BY <1>1, <1>2, <1>3

\* What does not export keeps the files as they are.
LEMMA FilesUntouched ==
  ASSUME PassesInv, UNCHANGED exportVars
  PROVE  FileInv' /\ NoHalfFiles'
<1> USE DEF PassesInv, exportVars
<1>1. Open' = Open
  BY DEF Open
<1>2. FileInv'
  BY <1>1 DEF FileInv
<1> QED
  BY <1>2 DEF NoHalfFiles

\* The module pass.
LEMMA ModulePassKeeps ==
  ASSUME PassesInv, NEW p \in Process, NEW m \in Module, runOnModule(p, m)
  PROVE  PassesInv'
<1>1. /\ UNCHANGED <<exportVars, profileVars>>
      /\ stage[m] = "source" /\ CompiledBy[m] = p
      /\ \/ stage' = [stage EXCEPT ![m] = "scops"]
         \/ p \notin PollyMLProfiler /\ stage' = [stage EXCEPT ![m] = "object"]
      /\ Inject(p, m) \/ UNCHANGED moduleVars
  BY DEF runOnModule, AlreadyInitialized
<1>2. TypeOK /\ SetUpInv /\ StageInv
  BY DEF PassesInv
<1>3. StageInv'
  <2>1. UNCHANGED <<exporting, exported, left>>
    BY <1>1 DEF exportVars, profileVars
  <2>2. \A n \in Module : n # m => stage'[n] = stage[n]
    BY <1>1, <1>2 DEF TypeOK
  <2>3. /\ stage'[m] # "source"
        /\ stage'[m] = "object" => CompiledBy[m] \notin PollyMLProfiler
    BY <1>1, <1>2 DEF TypeOK
  <2>4. \A q \in Process : \A s \in exporting[q] : s \in Scop /\ ModuleOf[s] \in Module
    BY <1>2, PassesAssumption DEF TypeOK
  <2>5. \A q \in Process : \A s \in exporting[q] : stage'[ModuleOf[s]] = "scops"
    BY <1>1, <1>2, <2>2, <2>4 DEF StageInv
  <2>6. \A s \in Scop : stage'[ModuleOf[s]] = "source" => s \in left[ModuleOf[s]]
    BY <1>2, <2>2, <2>3, PassesAssumption DEF StageInv
  <2>7. \A n \in Module :
          stage'[n] = "object" /\ CompiledBy[n] \in PollyMLProfiler => left[n] = {}
    BY <1>2, <2>2, <2>3 DEF StageInv
  <2> QED
    BY <1>2, <2>1, <2>5, <2>6, <2>7 DEF StageInv
<1>4. FileInv' /\ NoHalfFiles'
  BY <1>1, FilesUntouched
<1>5. CASE Inject(p, m)
  <2> DEFINE c == Append(ctors[m], "init_profiling")
             d == Append(dtors[m], "finish_profiling")
  <2>1. /\ ctors' = [ctors EXCEPT ![m] = c]
        /\ dtors' = [dtors EXCEPT ![m] = d]
        /\ declared' = [declared EXCEPT ![m] = @ \cup ScopFunctions]
        /\ initialized_profiler' = [initialized_profiler EXCEPT ![p] = TRUE]
    BY <1>5 DEF Inject, createInitProfilingCall, createFinishProfilingCall,
        createStartAndStopProfilingDeclarations
  <2>2. /\ c \in Seq({"init_profiling"})
        /\ \E i \in DOMAIN c : c[i] = "init_profiling"
    <3>1. ctors[m] \in Seq({"init_profiling"})
      BY <1>2 DEF TypeOK
    <3> QED
      BY <3>1, AppendKeeps
  <2>3. /\ d \in Seq({"finish_profiling"})
        /\ \E i \in DOMAIN d : d[i] = "finish_profiling"
    <3>1. dtors[m] \in Seq({"finish_profiling"})
      BY <1>2 DEF TypeOK
    <3> QED
      BY <3>1, AppendKeeps
  <2> HIDE DEF c, d
  <2>4. TypeOK'
    BY <1>1, <1>2, <2>1, <2>2, <2>3 DEF TypeOK, exportVars, profileVars
  <2>5. SetUpInv'
    <3> SUFFICES ASSUME NEW n \in Module
                 PROVE  /\ calls'[n] # <<>> => ScopFunctions \subseteq declared'[n]
                        /\ declared'[n] # {} =>
                             /\ \E i \in DOMAIN ctors'[n] : ctors'[n][i] = "init_profiling"
                             /\ \E i \in DOMAIN dtors'[n] : dtors'[n][i] = "finish_profiling"
      BY DEF SetUpInv
    <3>1. CASE n = m
      <4>1. /\ ctors'[m] = c /\ dtors'[m] = d
            /\ ScopFunctions \subseteq declared'[m]
        BY <1>2, <2>1 DEF TypeOK
      <4>2. QED
        BY <3>1, <4>1, <2>2, <2>3
    <3>2. CASE n # m
      BY <3>2, <1>1, <1>2, <2>1, ZenonT(30) DEF TypeOK, SetUpInv, profileVars
    <3> QED
      BY <3>1, <3>2
  <2> QED
    BY <1>3, <1>4, <2>4, <2>5 DEF PassesInv
<1>6. CASE UNCHANGED moduleVars
  <2>1. TypeOK'
    BY <1>1, <1>2, <1>6 DEF TypeOK, exportVars, profileVars, moduleVars
  <2>2. SetUpInv'
    BY <1>1, <1>2, <1>6 DEF SetUpInv, profileVars, moduleVars
  <2> QED
    BY <1>3, <1>4, <2>1, <2>2 DEF PassesInv
<1> QED
  BY <1>1, <1>5, <1>6

\* The profiler pass on a SCoP.
LEMMA ScopPassKeeps ==
  ASSUME PassesInv, NEW p \in Process, NEW s \in Scop, runOnScop(p, s)
  PROVE  PassesInv'
<1> DEFINE m == ModuleOf[s]
<1>1. /\ UNCHANGED <<stage, moduleVars, exportVars>>
      /\ m \in Module /\ s \in exported /\ NameOf[s] \in Name
      /\ ScopProfiled(p, s) \/ AssertionFails(p, s)
  BY PassesAssumption DEF runOnScop
<1>2. TypeOK /\ SetUpInv /\ StageInv
  BY DEF PassesInv
<1>3. FileInv' /\ NoHalfFiles'
  BY <1>1, FilesUntouched
<1>4. CASE ScopProfiled(p, s)
  <2> DEFINE new == <<<<"start_scop", NameOf[s], scopCount[p]>>,
                      <<"stop_scop", NameOf[s], scopCount[p]>>>>
  <2>1. /\ ScopFunctions \subseteq declared[m]
        /\ calls' = [calls EXCEPT ![m] = @ \o new]
        /\ left' = [left EXCEPT ![m] = @ \ {s}]
        /\ scopCount' = [scopCount EXCEPT ![p] = @ + 1]
        /\ UNCHANGED status
    BY <1>4 DEF ScopProfiled, createCalls, Found
  <2>2. new \in Seq(ScopFunctions \X Name \X Nat)
    BY <1>1, <1>2 DEF ScopFunctions, TypeOK
  <2> HIDE DEF new
  <2>3. TypeOK'
    <3>1. calls[m] \o new \in Seq(ScopFunctions \X Name \X Nat)
      BY <1>1, <1>2, <2>2 DEF TypeOK
    <3>2. calls \in [Module -> Seq(ScopFunctions \X Name \X Nat)]
      BY <1>2 DEF TypeOK
    <3>3. calls' \in [Module -> Seq(ScopFunctions \X Name \X Nat)]
      BY <1>1, <2>1, <3>1, <3>2
    <3>4. /\ left' \in [Module -> SUBSET Scop]
          /\ scopCount' \in [Process -> Nat]
      BY <1>1, <1>2, <2>1 DEF TypeOK
    <3> QED
      BY <1>1, <1>2, <2>1, <3>3, <3>4 DEF TypeOK, moduleVars, exportVars
  <2>4. SetUpInv'
    BY <1>1, <1>2, <2>1 DEF TypeOK, SetUpInv, moduleVars
  <2>5. StageInv'
    <3>1. \A q \in Process : \A t \in exporting[q] : t \in left'[ModuleOf[t]]
      BY <1>1, <1>2, <2>1 DEF TypeOK, StageInv
    <3>2. \A t \in Scop :
            /\ stage[ModuleOf[t]] = "source" => t \in left'[ModuleOf[t]]
            /\ t \notin left'[ModuleOf[t]] => t \in exported
      <4> SUFFICES ASSUME NEW t \in Scop
                   PROVE  /\ stage[ModuleOf[t]] = "source" => t \in left'[ModuleOf[t]]
                          /\ t \notin left'[ModuleOf[t]] => t \in exported
        OBVIOUS
      <4>1. stage[m] # "source"
        BY DEF runOnScop, Compiling
      <4>2. ModuleOf[t] \in Module
        BY PassesAssumption
      <4> QED
        BY <4>1, <4>2, <1>1, <1>2, <2>1 DEF TypeOK, StageInv
    <3>3. \A n \in Module : left[n] = {} => left'[n] = {}
      BY <1>2, <2>1 DEF TypeOK
    <3> QED
      BY <1>1, <1>2, <3>1, <3>2, <3>3 DEF StageInv, exportVars
  <2> QED
    BY <1>3, <2>3, <2>4, <2>5 DEF PassesInv
<1>5. CASE AssertionFails(p, s)
  <2>1. status' = [status EXCEPT ![p] = "aborted"] /\ UNCHANGED <<calls, scopCount, left>>
    BY <1>5 DEF AssertionFails
  <2>2. TypeOK'
    BY <1>1, <1>2, <2>1 DEF TypeOK, moduleVars, exportVars
  <2>3. SetUpInv' /\ StageInv'
    BY <1>1, <1>2, <2>1 DEF SetUpInv, StageInv, moduleVars, exportVars
  <2> QED
    BY <1>3, <2>2, <2>3 DEF PassesInv
<1> QED
  BY <1>1, <1>4, <1>5

\* The end of a module.
LEMMA FinalizationKeeps ==
  ASSUME PassesInv, NEW p \in Process, NEW m \in Module, doFinalization(p, m)
  PROVE  PassesInv'
<1>1. /\ UNCHANGED <<status, calls, left, moduleVars, exportVars>>
      /\ stage' = [stage EXCEPT ![m] = "object"]
      /\ scopCount' = [scopCount EXCEPT ![p] = 0]
      /\ stage[m] = "scops" /\ left[m] = {}
  BY DEF doFinalization, Compiling
<1>2. TypeOK /\ SetUpInv /\ StageInv
  BY DEF PassesInv
<1>3. TypeOK'
  BY <1>1, <1>2 DEF TypeOK, moduleVars, exportVars
<1>4. SetUpInv'
  BY <1>1, <1>2 DEF SetUpInv, moduleVars
<1>5. StageInv'
  BY <1>1, <1>2, PassesAssumption DEF TypeOK, StageInv, exportVars
<1> QED
  BY <1>1, <1>3, <1>4, <1>5, FilesUntouched DEF PassesInv

-----------------------------------------------------------------------------
\* What opening and closing a file have in common: the module passes' part.
LEMMA ExportFrame ==
  ASSUME PassesInv, UNCHANGED <<stage, moduleVars, profileVars>>
  PROVE  SetUpInv'
  BY DEF PassesInv, SetUpInv, moduleVars, profileVars

\* No other process exports a SCoP whose name is this one's own.
LEMMA Alone ==
  ASSUME PassesInv, NEW p \in Process, NEW s \in Scop, CompiledBy[ModuleOf[s]] = p,
         Private(NameOf[s]), NEW t \in Open, NameOf[t] = NameOf[s]
  PROVE  t \in exporting[p] /\ exporting[p] = {t}
<1>1. PICK q \in Process : t \in exporting[q]
  BY DEF Open
<1>2. t \in Scop /\ CompiledBy[ModuleOf[t]] = q /\ exporting[q] = {t}
  BY <1>1 DEF PassesInv, TypeOK, StageInv
<1>3. q = p
  BY <1>2 DEF Private
<1> QED
  BY <1>1, <1>2, <1>3

\* Opening a file truncates it under an exporter that has it open.
LEMMA OpenKeeps ==
  ASSUME PassesInv, NEW p \in Process, NEW s \in Scop, OpenScopson(p, s)
  PROVE  PassesInv'
<1> DEFINE n == NameOf[s]
<1>1. /\ exporting' = [exporting EXCEPT ![p] = {s}]
      /\ files' = [files EXCEPT ![n] = Empty]
      /\ UNCHANGED <<exported, lost, unlinked, stage, moduleVars, profileVars>>
      /\ exporting[p] = {} /\ s \in left[ModuleOf[s]] /\ s \notin exported
      /\ CompiledBy[ModuleOf[s]] = p /\ stage[ModuleOf[s]] = "scops" /\ n \in Name
  BY PassesAssumption DEF OpenScopson, NextToExport, Compiling
<1>2. TypeOK /\ StageInv /\ FileInv /\ NoHalfFiles
  BY DEF PassesInv
<1>3. TypeOK'
  BY <1>1, <1>2 DEF TypeOK, moduleVars, profileVars
<1>4. StageInv'
  BY <1>1, <1>2 DEF TypeOK, StageInv, profileVars
<1>5. Open' = Open \cup {s} /\ s \notin Open /\ s \notin unlinked
  <2>1. Open' = Open \cup {s}
    BY <1>1, <1>2 DEF Open, TypeOK
  <2>2. s \notin Open
    BY <1>1, <1>2 DEF Open, StageInv
  <2> QED
    BY <1>2, <2>1, <2>2 DEF FileInv
<1>6. FileInv'
  <2>1. unlinked' \subseteq Open'
    BY <1>1, <1>2, <1>5 DEF FileInv
  <2>2. ASSUME NEW t \in Scop, Private(NameOf[t])
        PROVE  /\ t \notin unlinked'
               /\ t \in Open' => files'[NameOf[t]] = Empty
               /\ t \in exported' =>
                    \E u \in Scop : /\ NameOf[u] = NameOf[t]
                                    /\ files'[NameOf[t]] = u \/ u \in lost' \cup Open'
    <3>1. NameOf[t] \in Name
      BY PassesAssumption
    <3>2. CASE NameOf[t] = n
      BY <3>2, <2>2, <1>1, <1>2, <1>5 DEF TypeOK, FileInv
    <3>3. CASE NameOf[t] # n
      <4>1. files'[NameOf[t]] = files[NameOf[t]]
        BY <3>1, <3>3, <1>1, <1>2 DEF TypeOK
      <4> QED
        BY <3>3, <4>1, <2>2, <1>1, <1>2, <1>5 DEF FileInv
    <3> QED
      BY <3>2, <3>3
  <2> QED
    BY <2>1, <2>2 DEF FileInv
<1>7. NoHalfFiles'
  <2> SUFFICES ASSUME NEW k \in Name
               PROVE  /\ files'[k] = Empty =>
                           \E q \in Process : \E t \in exporting'[q] \ unlinked' :
                             NameOf[t] = k
                      /\ files'[k] = Mixed => ~Private(k)
    BY DEF NoHalfFiles
  <2>1. CASE k = n
    <3>1. s \in exporting'[p] \ unlinked' /\ files'[k] = Empty
      BY <2>1, <1>1, <1>2, <1>5 DEF TypeOK
    <3> QED
      BY <2>1, <3>1 DEF Empty, Mixed
  <2>2. CASE k # n
    <3>1. files'[k] = files[k]
      BY <2>2, <1>1, <1>2 DEF TypeOK
    <3>2. \A q \in Process : exporting[q] \subseteq exporting'[q]
      BY <1>1, <1>2 DEF TypeOK
    <3> QED
      BY <3>1, <3>2, <1>1, <1>2 DEF NoHalfFiles
  <2> QED
    BY <2>1, <2>2
<1> QED
  BY <1>1, <1>3, <1>4, <1>6, <1>7, ExportFrame DEF PassesInv

\* A file that cannot be opened counts as lost.
LEMMA UnopenedKeeps ==
  ASSUME PassesInv, NEW p \in Process, NEW s \in Scop, ScopsonUnopened(p, s)
  PROVE  PassesInv'
<1>1. /\ exported' = exported \cup {s} /\ lost' = lost \cup {s}
      /\ UNCHANGED <<exporting, unlinked, files, stage, moduleVars, profileVars>>
      /\ exporting[p] = {} /\ CompiledBy[ModuleOf[s]] = p
  BY DEF ScopsonUnopened, NextToExport, Compiling
<1>2. TypeOK /\ StageInv /\ FileInv /\ NoHalfFiles
  BY DEF PassesInv
<1>3. TypeOK'
  BY <1>1, <1>2 DEF TypeOK, moduleVars, profileVars
<1>4. \A q \in Process : s \notin exporting[q]
  BY <1>1, <1>2 DEF StageInv
<1>5. StageInv'
  BY <1>1, <1>2, <1>4 DEF StageInv, profileVars
<1>6. FileInv'
  BY <1>1, <1>2 DEF FileInv, Open
<1>7. NoHalfFiles'
  BY <1>1, <1>2 DEF NoHalfFiles
<1> QED
  BY <1>1, <1>3, <1>5, <1>6, <1>7, ExportFrame DEF PassesInv

\* What every way of closing a file does.
LEMMA CloseFacts ==
  ASSUME PassesInv, NEW p \in Process, NEW s \in Scop, Close(p, s)
  PROVE  /\ exporting' = [exporting EXCEPT ![p] = {}]
         /\ exported' = exported \cup {s}
         /\ UNCHANGED <<stage, moduleVars, profileVars>>
         /\ exporting[p] = {s} /\ CompiledBy[ModuleOf[s]] = p
         /\ s \in Open /\ Open' = Open \ {s}
         /\ NameOf[s] \in Name
         /\ StageInv'
<1>1. /\ exporting' = [exporting EXCEPT ![p] = {}]
      /\ exported' = exported \cup {s}
      /\ UNCHANGED <<stage, moduleVars, profileVars>>
      /\ s \in exporting[p]
  BY DEF Close
<1>2. TypeOK /\ StageInv
  BY DEF PassesInv
<1>3. exporting[p] = {s} /\ CompiledBy[ModuleOf[s]] = p
  BY <1>1, <1>2 DEF StageInv
<1>4. \A q \in Process : q # p => exporting'[q] = exporting[q] /\ s \notin exporting[q]
  BY <1>1, <1>2, <1>3 DEF TypeOK, StageInv
<1>5. exporting'[p] = {}
  BY <1>1, <1>2 DEF TypeOK
<1>6. s \in Open /\ Open' = Open \ {s}
  <2>1. s \in Open
    BY <1>1 DEF Open
  <2>2. ASSUME NEW t \in Open' PROVE t \in Open \ {s}
    BY <1>4, <1>5 DEF Open
  <2>3. ASSUME NEW t \in Open \ {s} PROVE t \in Open'
    BY <1>3, <1>4 DEF Open
  <2> QED
    BY <2>1, <2>2, <2>3
<1>7. StageInv'
  <2>1. ASSUME NEW q \in Process, NEW t \in exporting'[q]
        PROVE  /\ exporting'[q] = {t}
               /\ CompiledBy[ModuleOf[t]] = q
               /\ stage'[ModuleOf[t]] = "scops"
               /\ t \in left'[ModuleOf[t]] /\ t \notin exported'
    <3>1. q # p
      BY <1>5, <2>1
    <3> QED
      BY <3>1, <2>1, <1>1, <1>2, <1>4 DEF StageInv, profileVars
  <2> QED
    BY <2>1, <1>1, <1>2 DEF StageInv, profileVars
<1> QED
  BY <1>1, <1>3, <1>6, <1>7, PassesAssumption

\* With the other files as they were, only the files of the name closed matter.
LEMMA OtherNames ==
  ASSUME PassesInv, NEW p \in Process, NEW s \in Scop, Close(p, s),
         NEW f, files' = [files EXCEPT ![NameOf[s]] = f],
         unlinked' \subseteq Open \ {s},
         lost \subseteq lost',
         \A t \in unlinked' \ unlinked : NameOf[t] = NameOf[s] /\ ~Private(NameOf[t]),
         f = Empty => /\ ~Private(NameOf[s])
                      /\ \E t \in Open \ {s} : t \notin unlinked' /\ NameOf[t] = NameOf[s],
         f = Mixed => ~Private(NameOf[s]),
         Private(NameOf[s]) => f = s \/ s \in lost'
  PROVE  FileInv' /\ NoHalfFiles'
<1> DEFINE n == NameOf[s]
<1>1. TypeOK /\ StageInv /\ FileInv /\ NoHalfFiles
  BY DEF PassesInv
<1>2. /\ exported' = exported \cup {s} /\ Open' = Open \ {s}
      /\ CompiledBy[ModuleOf[s]] = p /\ exporting[p] = {s} /\ n \in Name
      /\ exporting' = [exporting EXCEPT ![p] = {}]
  BY CloseFacts
<1>3. files'[n] = f /\ \A k \in Name \ {n} : files'[k] = files[k]
  BY <1>1, <1>2 DEF TypeOK
<1>4. Private(n) => \A t \in Open' : NameOf[t] # n
  BY <1>2, Alone
<1>5. FileInv'
  <2>1. ASSUME NEW t \in Scop, Private(NameOf[t])
        PROVE  /\ t \notin unlinked'
               /\ t \in Open' => files'[NameOf[t]] = Empty
               /\ t \in exported' =>
                    \E u \in Scop : /\ NameOf[u] = NameOf[t]
                                    /\ files'[NameOf[t]] = u \/ u \in lost' \cup Open'
    <3>1. t \notin unlinked'
      BY <1>1, <2>1 DEF FileInv
    <3>2. NameOf[t] \in Name
      BY PassesAssumption
    <3>3. CASE NameOf[t] = n
      BY <3>1, <3>3, <2>1, <1>3, <1>4
    <3>4. CASE NameOf[t] # n
      <4>1. files'[NameOf[t]] = files[NameOf[t]] /\ t # s
        BY <3>2, <3>4, <1>3
      <4>2. t \in Open' => files'[NameOf[t]] = Empty
        BY <4>1, <2>1, <1>1, <1>2 DEF FileInv
      <4>3. ASSUME t \in exported'
            PROVE  \E u \in Scop : /\ NameOf[u] = NameOf[t]
                                   /\ files'[NameOf[t]] = u \/ u \in lost' \cup Open'
        <5>1. t \in exported
          BY <4>1, <4>3, <1>2
        <5>2. PICK u \in Scop : /\ NameOf[u] = NameOf[t]
                                /\ files[NameOf[t]] = u \/ u \in lost \cup Open
          BY <5>1, <2>1, <1>1 DEF FileInv
        <5>3. u # s
          BY <5>2, <3>4
        <5> QED
          BY <5>2, <5>3, <4>1, <1>2
      <4> QED
        BY <3>1, <4>2, <4>3
    <3> QED
      BY <3>3, <3>4
  <2> QED
    BY <2>1, <1>2 DEF FileInv
<1>6. NoHalfFiles'
  <2> SUFFICES ASSUME NEW k \in Name
               PROVE  /\ files'[k] = Empty =>
                           \E q \in Process : \E t \in exporting'[q] \ unlinked' :
                             NameOf[t] = k
                      /\ files'[k] = Mixed => ~Private(k)
    BY DEF NoHalfFiles
  <2>1. \A t \in Open' : \E q \in Process : t \in exporting'[q]
    BY DEF Open
  <2>2. CASE k = n
    BY <2>1, <2>2, <1>2, <1>3
  <2>3. CASE k # n
    <3>1. files'[k] = files[k]
      BY <2>3, <1>3
    <3>2. ASSUME files[k] = Empty
          PROVE  \E q \in Process : \E t \in exporting'[q] \ unlinked' : NameOf[t] = k
      <4>1. PICK q \in Process : \E t \in exporting[q] \ unlinked : NameOf[t] = k
        BY <3>2, <1>1 DEF NoHalfFiles
      <4>2. PICK t \in exporting[q] \ unlinked : NameOf[t] = k
        BY <4>1
      <4>3. t \in Open' /\ t \notin unlinked'
        BY <4>1, <4>2, <2>3, <1>2 DEF Open
      <4> QED
        BY <4>2, <4>3, <2>1
    <3> QED
      BY <3>1, <3>2, <1>1 DEF NoHalfFiles
  <2> QED
    BY <2>2, <2>3
<1> QED
  BY <1>5, <1>6

\* An export that succeeds leaves its SCoP in the file, or a mixture.
LEMMA KeepKeeps ==
  ASSUME PassesInv, NEW p \in Process, NEW s \in Scop, KeepScopson(p, s)
  PROVE  PassesInv'
<1> DEFINE n == NameOf[s]
<1>1. TypeOK /\ StageInv /\ FileInv /\ NoHalfFiles
  BY DEF PassesInv
<1>2. Close(p, s) /\ unlinked' = unlinked \ {s} /\ lost' = lost
  BY DEF KeepScopson
<1>3. /\ exporting' = [exporting EXCEPT ![p] = {}]
      /\ exported' = exported \cup {s}
      /\ UNCHANGED <<stage, moduleVars, profileVars>>
      /\ s \in Open /\ Open' = Open \ {s} /\ n \in Name /\ StageInv'
  BY <1>2, CloseFacts
<1>4. PICK f \in Written(s) : files' = [files EXCEPT ![n] = f]
  BY DEF KeepScopson
<1>5. s # Empty /\ s # Mixed /\ s # Missing
  BY PassesAssumption DEF Empty, Mixed, Missing
<1>6. f \in Scop \cup {Missing, Empty, Mixed}
  BY <1>1, <1>3, <1>4 DEF Written, TypeOK
<1>7. TypeOK'
  BY <1>1, <1>2, <1>3, <1>4, <1>6 DEF TypeOK, moduleVars, profileVars
<1>8. Private(n) => s \notin unlinked /\ files[n] = Empty
  BY <1>1, <1>3 DEF FileInv
<1>9. f = Empty => /\ ~Private(n)
                   /\ \E t \in Open \ {s} : t \notin unlinked' /\ NameOf[t] = n
  <2> SUFFICES ASSUME f = Empty
               PROVE  /\ ~Private(n)
                      /\ \E t \in Open \ {s} : t \notin unlinked' /\ NameOf[t] = n
    OBVIOUS
  <2>1. s \in unlinked /\ files[n] = Empty
    BY <1>4, <1>5 DEF Written, Empty, Mixed
  <2>2. PICK q \in Process : \E t \in exporting[q] \ unlinked : NameOf[t] = n
    BY <2>1, <1>1, <1>3 DEF NoHalfFiles
  <2> QED
    BY <2>1, <2>2, <1>2, <1>8 DEF Open
<1>10. f = Mixed => ~Private(n)
  BY <1>4, <1>5, <1>8 DEF Written
<1>11. Private(n) => f = s
  BY <1>4, <1>8 DEF Written
<1>12. unlinked' \subseteq Open \ {s}
  BY <1>1, <1>2 DEF FileInv
<1>13. FileInv' /\ NoHalfFiles'
  BY <1>2, <1>4, <1>9, <1>10, <1>11, <1>12, OtherNames
<1> QED
  BY <1>3, <1>7, <1>13, ExportFrame DEF PassesInv

\* An export that fails removes its file, under the others that have it open.
LEMMA DropKeeps ==
  ASSUME PassesInv, NEW p \in Process, NEW s \in Scop, DropScopson(p, s)
  PROVE  PassesInv'
<1> DEFINE n == NameOf[s]
<1>1. TypeOK /\ StageInv /\ FileInv /\ NoHalfFiles
  BY DEF PassesInv
<1>2. /\ Close(p, s)
      /\ unlinked' = (unlinked \cup OpenOthers(s)) \ {s}
      /\ lost' = lost \cup {s}
      /\ files' = [files EXCEPT ![n] = Missing]
  BY DEF DropScopson, Remove
<1>3. /\ exporting' = [exporting EXCEPT ![p] = {}]
      /\ exported' = exported \cup {s}
      /\ UNCHANGED <<stage, moduleVars, profileVars>>
      /\ exporting[p] = {s} /\ CompiledBy[ModuleOf[s]] = p
      /\ Open' = Open \ {s} /\ StageInv'
  BY <1>2, CloseFacts
<1>4. OpenOthers(s) = {t \in Open \ {s} : NameOf[t] = n}
  BY DEF OpenOthers, Open
<1>5. Open \subseteq Scop
  BY <1>1 DEF TypeOK, Open
<1>6. TypeOK'
  BY <1>1, <1>2, <1>3, <1>4, <1>5 DEF TypeOK, moduleVars, profileVars
<1>7. \A t \in unlinked' \ unlinked : NameOf[t] = n /\ ~Private(NameOf[t])
  BY <1>2, <1>3, <1>4, Alone
<1>8. unlinked' \subseteq Open \ {s}
  BY <1>1, <1>2, <1>4 DEF FileInv
<1>9. Missing # Empty /\ Missing # Mixed
  BY DEF Missing, Empty, Mixed
<1>10. FileInv' /\ NoHalfFiles'
  BY <1>2, <1>7, <1>8, <1>9, OtherNames
<1> QED
  BY <1>3, <1>6, <1>10, ExportFrame DEF PassesInv

-----------------------------------------------------------------------------
\* For any build, the inductive invariant of the passes.
THEOREM PassesCorrect == Spec => []PassesInv
<1>1. Init => PassesInv
  <2> SUFFICES ASSUME Init PROVE PassesInv
    OBVIOUS
  <2>1. TypeOK /\ SetUpInv
    BY DEF Init, TypeOK, SetUpInv, ScopsOf
  <2>2. Open = {}
    BY DEF Init, Open
  <2>3. StageInv
    BY PassesAssumption DEF Init, StageInv, ScopsOf
  <2>4. FileInv
    BY <2>2 DEF Init, FileInv
  <2>5. NoHalfFiles
    BY DEF Init, NoHalfFiles, Missing, Empty, Mixed
  <2> QED
    BY <2>1, <2>3, <2>4, <2>5 DEF PassesInv
<1>2. PassesInv /\ [Next]_vars => PassesInv'
  <2> SUFFICES ASSUME PassesInv, [Next]_vars PROVE PassesInv'
    OBVIOUS
  <2>1. CASE UNCHANGED vars
    <3>1. TypeOK'
      BY <2>1 DEF vars, PassesInv, TypeOK
    <3>2. SetUpInv' /\ StageInv'
      BY <2>1 DEF vars, PassesInv, SetUpInv, StageInv
    <3> QED
      BY <2>1, <3>1, <3>2, FilesUntouched DEF vars, exportVars, PassesInv
  <2>2. ASSUME NEW p \in Process, NEW m \in Module,
               runOnModule(p, m) \/ doFinalization(p, m)
        PROVE  PassesInv'
    BY <2>2, ModulePassKeeps, FinalizationKeeps
  <2>3. ASSUME NEW p \in Process, NEW s \in Scop,
               OpenScopson(p, s) \/ KeepScopson(p, s) \/ DropScopson(p, s)
                 \/ ScopsonUnopened(p, s) \/ runOnScop(p, s)
        PROVE  PassesInv'
    BY <2>3, OpenKeeps, KeepKeeps, DropKeeps, UnopenedKeeps, ScopPassKeeps
  <2> QED
    BY <2>1, <2>2, <2>3 DEF Next
<1> QED
  BY <1>1, <1>2, PTL DEF Spec

\* The variables keep their types.
THEOREM TypeCorrect == Spec => []TypeOK
  BY PassesCorrect, PTL DEF PassesInv

\* Every program that times SCoPs sets the profiler up and finishes it, from
\* whatever modules it is linked.
THEOREM SetUpCorrect == Spec => []ProfilerIsSetUp
<1>1. ASSUME PassesInv PROVE ProfilerIsSetUp
  <2> SUFFICES ASSUME NEW m \in Module, calls[m] # <<>>
               PROVE  /\ "init_profiling" \in {ctors[m][i] : i \in DOMAIN ctors[m]}
                      /\ "finish_profiling" \in {dtors[m][i] : i \in DOMAIN dtors[m]}
    BY DEF ProfilerIsSetUp
  <2>1. declared[m] # {}
    BY <1>1 DEF PassesInv, SetUpInv, ScopFunctions
  <2> QED
    BY <1>1, <2>1 DEF PassesInv, SetUpInv
<1> QED
  BY <1>1, PassesCorrect, PTL

\* Every SCoP that is timed has a description or a reported error, under a
\* name that one process alone exports.
THEOREM DescribedCorrect == Spec => []TimedIsDescribed
<1>1. ASSUME PassesInv PROVE TimedIsDescribed
  <2> SUFFICES ASSUME NEW s \in Scop,
                      stage[ModuleOf[s]] = "object",
                      CompiledBy[ModuleOf[s]] \in PollyMLProfiler,
                      Private(NameOf[s])
               PROVE  \E t \in Scop :
                        /\ NameOf[t] = NameOf[s]
                        /\ \/ files[NameOf[s]] = t
                           \/ t \in lost \cup (UNION {exporting[p] : p \in Process})
    BY DEF TimedIsDescribed
  <2>1. s \in exported
    BY <1>1, PassesAssumption DEF PassesInv, StageInv
  <2> QED
    BY <1>1, <2>1 DEF PassesInv, FileInv, Open
<1> QED
  BY <1>1, PassesCorrect, PTL

\* However names are shared, no file is left truncated.
THEOREM FilesCorrect == Spec => []NoHalfFiles
  BY PassesCorrect, PTL DEF PassesInv

-----------------------------------------------------------------------------
(* The numbers of the calls.                                                *)

\* A module has finitely many SCoPs, and its functions have names of their own.
NamesInModule ==
  /\ \A m \in Module : IsFiniteSet(ScopsOf(m))
  /\ \A s, t \in Scop : ModuleOf[s] = ModuleOf[t] /\ NameOf[s] = NameOf[t] => s = t

DoneOf(m) == ScopsOf(m) \ left[m]

\* The calls c are those of the SCoPs in D, numbered from 0.
Numbered(c, D) ==
  /\ Len(c) = 2 * Cardinality(D)
  /\ \A i \in DOMAIN c : \E s \in D : c[i][2] = NameOf[s]
  /\ \A s \in D : \E i \in DOMAIN c : c[i][2] = NameOf[s]
  /\ \A i \in DOMAIN c : c[i][3] < Cardinality(D)
  /\ \A i, j \in DOMAIN c : c[i][3] = c[j][3] <=> c[i][2] = c[j][2]

\* The counter of a process is that of the one module it is at.
CountInv ==
  /\ \A m \in Module : left[m] \subseteq ScopsOf(m) /\ Numbered(calls[m], DoneOf(m))
  /\ \A m \in Module : stage[m] = "scops" =>
       /\ scopCount[CompiledBy[m]] = Cardinality(DoneOf(m))
       /\ \A n \in Module : CompiledBy[n] = CompiledBy[m] /\ stage[n] = "scops" => n = m
  /\ \A p \in Process :
       (\A m \in Module : CompiledBy[m] = p => stage[m] # "scops") => scopCount[p] = 0

\* Two more calls, with the next number and a name that is new.
LEMMA NumberedNext ==
  ASSUME NEW c \in Seq(ScopFunctions \X Name \X Nat),
         NEW D, IsFiniteSet(D), NEW s, s \notin D, NameOf[s] \in Name,
         \A t \in D : NameOf[t] # NameOf[s],
         Numbered(c, D)
  PROVE  Numbered(c \o <<<<"start_scop", NameOf[s], Cardinality(D)>>,
                         <<"stop_scop", NameOf[s], Cardinality(D)>>>>, D \cup {s})
<1> DEFINE k == Cardinality(D)
           n == Len(c)
           Calls == ScopFunctions \X Name \X Nat
           new == <<<<"start_scop", NameOf[s], k>>, <<"stop_scop", NameOf[s], k>>>>
           e == c \o new
<1>1. k \in Nat /\ Cardinality(D \cup {s}) = k + 1
  BY FS_CardinalityType, FS_AddElement
<1>2. /\ n \in Nat /\ n = 2 * k /\ DOMAIN c = 1 .. n
      /\ c \in Seq(Calls)
  BY DEF Numbered
<1>3. \A i \in 1 .. n : c[i] \in Calls
  BY <1>2
<1>4. /\ \A i \in 1 .. n : c[i][3] \in Nat /\ c[i][3] < k
      /\ \A i \in 1 .. n : \E t \in D : c[i][2] = NameOf[t]
      /\ \A t \in D : \E i \in 1 .. n : c[i][2] = NameOf[t]
      /\ \A i, j \in 1 .. n : c[i][3] = c[j][3] <=> c[i][2] = c[j][2]
  BY <1>2, <1>3 DEF Numbered
<1>5. /\ new \in Seq(Calls) /\ Len(new) = 2
      /\ new[1][2] = NameOf[s] /\ new[1][3] = k
      /\ new[2][2] = NameOf[s] /\ new[2][3] = k
  BY <1>1 DEF ScopFunctions
<1> HIDE DEF new, Calls, n
<1>6. /\ Len(e) = n + 2 /\ DOMAIN e = 1 .. n + 2
      /\ \A i \in 1 .. n : e[i] = c[i]
      /\ e[n + 1] = new[1] /\ e[n + 2] = new[2]
  <2>1. /\ Len(c) = n
        /\ Len(e) = Len(c) + Len(new)
        /\ \A i \in 1 .. Len(c) + Len(new) :
             e[i] = IF i <= Len(c) THEN c[i] ELSE new[i - Len(c)]
        /\ e \in Seq(Calls)
    <3>1. c \in Seq(Calls) /\ new \in Seq(Calls)
      BY <1>2, <1>5
    <3>2. QED
      BY <3>1, ConcatProperties, Zenon DEF n
  <2> HIDE DEF e
  <2>2. Len(e) = n + 2 /\ DOMAIN e = 1 .. n + 2
    BY <1>2, <1>5, <2>1
  <2>3. \A i \in 1 .. n : e[i] = c[i]
    BY <1>2, <1>5, <2>1
  <2>4. e[n + 1] = new[1] /\ e[n + 2] = new[2]
    <3>1. /\ n + 1 \in 1 .. n + 2 /\ n + 2 \in 1 .. n + 2
          /\ ~(n + 1 <= n) /\ ~(n + 2 <= n)
          /\ (n + 1) - n = 1 /\ (n + 2) - n = 2
      BY <1>2
    <3>2. QED
      BY <1>5, <2>1, <3>1
  <2>5. QED
    BY <2>2, <2>3, <2>4
<1> HIDE DEF e, k
<1>7. /\ \A i \in 1 .. n : i \in DOMAIN e /\ e[i][2] = c[i][2] /\ e[i][3] = c[i][3]
      /\ \A i \in {n + 1, n + 2} : i \in DOMAIN e /\ e[i][2] = NameOf[s] /\ e[i][3] = k
      /\ \A i \in DOMAIN e : i \in 1 .. n \/ i \in {n + 1, n + 2}
  <2>1. \A i \in 1 .. n : i \in DOMAIN e
    BY <1>2, <1>6
  <2>2. /\ n + 1 \in DOMAIN e /\ n + 2 \in DOMAIN e
        /\ \A i \in DOMAIN e : i \in 1 .. n \/ i \in {n + 1, n + 2}
    BY <1>2, <1>6
  <2>3. QED
    BY <1>5, <1>6, <2>1, <2>2
<1>8. /\ \A i \in DOMAIN e : \E t \in D \cup {s} : e[i][2] = NameOf[t]
      /\ \A t \in D \cup {s} : \E i \in DOMAIN e : e[i][2] = NameOf[t]
  BY <1>4, <1>7
<1>9. \A i \in DOMAIN e : e[i][3] < k + 1
  <2>1. ASSUME NEW i \in DOMAIN e PROVE e[i][3] < k + 1
    <3>1. CASE i \in 1 .. n
      <4>1. e[i][3] = c[i][3] /\ c[i][3] \in Nat /\ c[i][3] < k
        BY <1>4, <1>7, <3>1
      <4>2. QED
        BY <1>1, <4>1
    <3>2. CASE i \in {n + 1, n + 2}
      BY <1>1, <1>7, <3>2
    <3>3. QED
      BY <1>7, <3>1, <3>2
  <2>2. QED
    BY <2>1
<1>10. \A i, j \in DOMAIN e : e[i][3] = e[j][3] <=> e[i][2] = e[j][2]
  <2>1. \A i \in 1 .. n : c[i][3] # k /\ c[i][2] # NameOf[s]
    BY <1>1, <1>4
  <2>2. TAKE i, j \in DOMAIN e
  <2>3. CASE i \in 1 .. n /\ j \in 1 .. n
    BY <1>4, <1>7, <2>3
  <2>4. CASE i \in 1 .. n /\ j \in {n + 1, n + 2}
    BY <1>7, <2>1, <2>4
  <2>5. CASE i \in {n + 1, n + 2} /\ j \in 1 .. n
    BY <1>7, <2>1, <2>5
  <2>6. CASE i \in {n + 1, n + 2} /\ j \in {n + 1, n + 2}
    BY <1>7, <2>6
  <2>7. QED
    BY <1>7, <2>3, <2>4, <2>5, <2>6
<1>11. Len(e) = 2 * Cardinality(D \cup {s})
  BY <1>1, <1>2, <1>6
<1>12. QED
  BY <1>1, <1>8, <1>9, <1>10, <1>11 DEF Numbered, e, new, k

\* A step of the profiler pass numbers the calls of one SCoP more.
LEMMA CountScop ==
  ASSUME NamesInModule, PassesInv, CountInv,
         NEW p \in Process, NEW s \in Scop, runOnScop(p, s)
  PROVE  CountInv'
<1> DEFINE m == ModuleOf[s]
<1>1. /\ m \in Module /\ CompiledBy[m] = p /\ stage[m] = "scops"
      /\ s \in left[m] /\ UNCHANGED stage
      /\ ScopProfiled(p, s) \/ AssertionFails(p, s)
  BY PassesAssumption DEF runOnScop, Compiling
<1>2. CASE AssertionFails(p, s)
  BY <1>1, <1>2 DEF AssertionFails, CountInv, DoneOf
<1>3. CASE ScopProfiled(p, s)
  <2> DEFINE D == DoneOf(m)
             new == <<<<"start_scop", NameOf[s], Cardinality(D)>>,
                      <<"stop_scop", NameOf[s], Cardinality(D)>>>>
  <2>1. /\ scopCount[p] = Cardinality(D) /\ Numbered(calls[m], D)
        /\ \A n \in Module : CompiledBy[n] = p /\ stage[n] = "scops" => n = m
        /\ \A n \in Module : left[n] \subseteq ScopsOf(n)
    BY <1>1 DEF CountInv
  <2>2. /\ calls' = [calls EXCEPT ![m] = @ \o new]
        /\ left' = [left EXCEPT ![m] = @ \ {s}]
        /\ scopCount' = [scopCount EXCEPT ![p] = @ + 1]
    BY <1>3, <2>1 DEF ScopProfiled, createCalls
  <2>3. TypeOK
    BY DEF PassesInv
  <2>4. /\ IsFiniteSet(D) /\ Cardinality(D) \in Nat /\ s \notin D
        /\ NameOf[s] \in Name /\ \A t \in D : NameOf[t] # NameOf[s]
    <3>1. IsFiniteSet(D)
      BY <1>1, FS_Subset DEF NamesInModule, DoneOf
    <3>2. s \notin D /\ D \subseteq ScopsOf(m)
      BY <1>1 DEF DoneOf
    <3>3. NameOf[s] \in Name /\ \A t \in D : NameOf[t] # NameOf[s]
      BY <3>2, PassesAssumption DEF NamesInModule, ScopsOf
    <3>4. QED
      BY <3>1, <3>2, <3>3, FS_CardinalityType
  <2>5. Numbered(calls[m] \o new, D \cup {s})
    BY <1>1, <2>1, <2>3, <2>4, NumberedNext DEF TypeOK
  <2>6. /\ DoneOf(m)' = D \cup {s}
        /\ \A n \in Module : n # m => DoneOf(n)' = DoneOf(n) /\ calls'[n] = calls[n]
        /\ calls'[m] = calls[m] \o new
        /\ \A n \in Module : left'[n] \subseteq ScopsOf(n)
    <3>1. /\ left'[m] = left[m] \ {s}
          /\ \A n \in Module : n # m => left'[n] = left[n]
      BY <1>1, <2>2, <2>3 DEF TypeOK
    <3>2. calls'[m] = calls[m] \o new
      BY <1>1, <2>2, <2>3 DEF TypeOK
    <3>3. \A n \in Module : n # m => calls'[n] = calls[n]
      BY <1>1, <2>2, <2>3 DEF TypeOK
    <3>4. s \in ScopsOf(m) /\ left[m] \subseteq ScopsOf(m)
      BY <1>1, <2>1
    <3> HIDE DEF new, m
    <3>5. DoneOf(m)' = D \cup {s}
      BY <1>1, <3>1, <3>4 DEF DoneOf
    <3>6. \A n \in Module : n # m => DoneOf(n)' = DoneOf(n)
      BY <3>1 DEF DoneOf
    <3>7. QED
      BY <2>1, <3>1, <3>2, <3>3, <3>5, <3>6
  <2>7. /\ Cardinality(D \cup {s}) = Cardinality(D) + 1
        /\ scopCount'[p] = Cardinality(D) + 1
        /\ \A q \in Process : q # p => scopCount'[q] = scopCount[q]
    <3>1. Cardinality(D \cup {s}) = Cardinality(D) + 1
      BY <2>4, FS_AddElement
    <3> HIDE DEF D
    <3>2. QED
      BY <2>1, <2>2, <2>3, <3>1 DEF TypeOK
  <2> HIDE DEF new, D, m
  <2>8. \A n \in Module : left'[n] \subseteq ScopsOf(n) /\ Numbered(calls'[n], DoneOf(n)')
    <3> SUFFICES ASSUME NEW n \in Module PROVE Numbered(calls'[n], DoneOf(n)')
      BY <2>6
    <3>1. CASE n = m
      BY <2>5, <2>6, <3>1
    <3>2. CASE n # m
      BY <2>6, <3>2 DEF CountInv
    <3>3. QED
      BY <3>1, <3>2
  <2>9. \A n \in Module : stage'[n] = "scops" =>
          /\ scopCount'[CompiledBy[n]] = Cardinality(DoneOf(n)')
          /\ \A o \in Module : CompiledBy[o] = CompiledBy[n] /\ stage'[o] = "scops" => o = n
    <3> TAKE n \in Module
    <3>1. CASE n = m
      BY <1>1, <2>1, <2>6, <2>7, <3>1 DEF CountInv
    <3>2. CASE n # m /\ stage[n] = "scops"
      <4>1. CompiledBy[n] \in Process /\ CompiledBy[n] # p
        BY <2>1, <3>2, PassesAssumption
      <4>2. QED
        BY <1>1, <2>6, <2>7, <3>2, <4>1 DEF CountInv
    <3>3. QED
      BY <1>1, <3>1, <3>2
  <2>10. \A q \in Process :
           (\A n \in Module : CompiledBy[n] = q => stage'[n] # "scops") => scopCount'[q] = 0
    BY <1>1, <2>7 DEF CountInv
  <2>11. QED
    BY <2>8, <2>9, <2>10 DEF CountInv
<1>4. QED
  BY <1>1, <1>2, <1>3

\* The module pass finds the counter at 0, and a module without calls.
LEMMA CountModule ==
  ASSUME PassesInv, CountInv, NEW p \in Process, NEW m \in Module, runOnModule(p, m)
  PROVE  CountInv'
<1>1. /\ UNCHANGED <<calls, left, scopCount>>
      /\ stage[m] = "source" /\ CompiledBy[m] = p
      /\ \A n \in Module : CompiledBy[n] = p => stage[n] # "scops"
      /\ stage' \in {[stage EXCEPT ![m] = "scops"], [stage EXCEPT ![m] = "object"]}
  BY DEF runOnModule, Idle, profileVars
<1>2. TypeOK /\ StageInv
  BY DEF PassesInv
<1>3. /\ stage'[m] # "source"
      /\ \A n \in Module : n # m => stage'[n] = stage[n]
  BY <1>1, <1>2 DEF TypeOK
<1>4. DoneOf(m) = {} /\ scopCount[p] = 0 /\ Cardinality({}) = 0
  <2>1. DoneOf(m) = {}
    BY <1>1, <1>2 DEF DoneOf, ScopsOf, StageInv
  <2>2. QED
    BY <1>1, <2>1, FS_EmptySet DEF CountInv
<1>5. \A n \in Module : DoneOf(n)' = DoneOf(n)
  BY <1>1 DEF DoneOf
<1>6. \A n \in Module : stage'[n] = "scops" =>
        /\ scopCount'[CompiledBy[n]] = Cardinality(DoneOf(n)')
        /\ \A o \in Module : CompiledBy[o] = CompiledBy[n] /\ stage'[o] = "scops" => o = n
  <2> TAKE n \in Module
  <2>1. CASE n = m
    BY <1>1, <1>3, <1>4, <1>5, <2>1
  <2>2. CASE n # m /\ stage[n] = "scops"
    BY <1>1, <1>3, <1>5, <2>2 DEF CountInv
  <2>3. QED
    BY <1>3, <2>1, <2>2
<1>7. \A q \in Process :
        (\A n \in Module : CompiledBy[n] = q => stage'[n] # "scops") => scopCount'[q] = 0
  BY <1>1, <1>3, <1>4 DEF CountInv
<1>8. QED
  BY <1>1, <1>5, <1>6, <1>7 DEF CountInv

\* The end of a module sets the counter back.
LEMMA CountFinalization ==
  ASSUME PassesInv, CountInv, NEW p \in Process, NEW m \in Module, doFinalization(p, m)
  PROVE  CountInv'
<1>1. /\ UNCHANGED <<calls, left>>
      /\ stage' = [stage EXCEPT ![m] = "object"]
      /\ scopCount' = [scopCount EXCEPT ![p] = 0]
      /\ stage[m] = "scops" /\ CompiledBy[m] = p
  BY DEF doFinalization, Compiling
<1>2. TypeOK
  BY DEF PassesInv
<1>3. /\ \A n \in Module : stage'[n] = "scops" => n # m /\ stage[n] = "scops"
      /\ \A n \in Module : n # m => stage'[n] = stage[n]
      /\ scopCount'[p] = 0
      /\ \A q \in Process : q # p => scopCount'[q] = scopCount[q]
  BY <1>1, <1>2 DEF TypeOK
<1>4. \A n \in Module : DoneOf(n)' = DoneOf(n)
  BY <1>1 DEF DoneOf
<1>5. \A n \in Module : stage'[n] = "scops" =>
        /\ scopCount'[CompiledBy[n]] = Cardinality(DoneOf(n)')
        /\ \A o \in Module : CompiledBy[o] = CompiledBy[n] /\ stage'[o] = "scops" => o = n
  <2> TAKE n \in Module
  <2> HAVE stage'[n] = "scops"
  <2>1. CompiledBy[n] \in Process /\ CompiledBy[n] # p
    BY <1>1, <1>3, PassesAssumption DEF CountInv
  <2>2. QED
    BY <1>3, <1>4, <2>1 DEF CountInv
<1>6. \A q \in Process :
        (\A n \in Module : CompiledBy[n] = q => stage'[n] # "scops") => scopCount'[q] = 0
  BY <1>1, <1>3 DEF CountInv
<1>7. QED
  BY <1>1, <1>4, <1>5, <1>6 DEF CountInv

\* Each SCoP of an object compiled for profiling is started and stopped once,
\* under a number that no other SCoP of the object has.
THEOREM OnceCorrect ==
  ASSUME NamesInModule
  PROVE  Spec => []EachScopOnce
<1>1. Init => CountInv
  <2> SUFFICES ASSUME Init PROVE CountInv
    OBVIOUS
  <2>1. \A m \in Module : DoneOf(m) = {} /\ calls[m] = <<>> /\ left[m] = ScopsOf(m)
    BY DEF Init, DoneOf
  <2>2. Numbered(<<>>, {})
    BY FS_EmptySet DEF Numbered
  <2>3. QED
    BY <2>1, <2>2 DEF Init, CountInv
<1>2. PassesInv /\ CountInv /\ [Next]_vars => CountInv'
  <2> SUFFICES ASSUME PassesInv, CountInv, [Next]_vars PROVE CountInv'
    OBVIOUS
  <2>1. ASSUME UNCHANGED <<stage, calls, left, scopCount>> PROVE CountInv'
    BY <2>1 DEF CountInv, DoneOf
  <2>2. CASE UNCHANGED vars
    BY <2>1, <2>2 DEF vars
  <2>3. ASSUME NEW p \in Process, NEW m \in Module,
               runOnModule(p, m) \/ doFinalization(p, m)
        PROVE  CountInv'
    BY <2>3, CountModule, CountFinalization
  <2>4. ASSUME NEW p \in Process, NEW s \in Scop,
               OpenScopson(p, s) \/ KeepScopson(p, s) \/ DropScopson(p, s)
                 \/ ScopsonUnopened(p, s)
        PROVE  CountInv'
    BY <2>1, <2>4 DEF OpenScopson, KeepScopson, DropScopson, ScopsonUnopened, Close,
       profileVars
  <2>5. ASSUME NEW p \in Process, NEW s \in Scop, runOnScop(p, s)
        PROVE  CountInv'
    BY <2>5, CountScop
  <2>6. QED
    BY <2>2, <2>3, <2>4, <2>5 DEF Next
<1>3. ASSUME PassesInv, CountInv PROVE EachScopOnce
  <2> SUFFICES ASSUME NEW m \in Module, stage[m] = "object",
                      CompiledBy[m] \in PollyMLProfiler
               PROVE  /\ Len(calls[m]) = 2 * Cardinality(ScopsOf(m))
                      /\ {calls[m][i][2] : i \in DOMAIN calls[m]} =
                           {NameOf[s] : s \in ScopsOf(m)}
                      /\ \A i, j \in DOMAIN calls[m] :
                           calls[m][i][3] = calls[m][j][3] <=> calls[m][i][2] = calls[m][j][2]
    BY DEF EachScopOnce
  <2>1. DoneOf(m) = ScopsOf(m)
    BY <1>3 DEF PassesInv, StageInv, DoneOf
  <2>2. Numbered(calls[m], ScopsOf(m))
    BY <1>3, <2>1 DEF CountInv
  <2>3. {calls[m][i][2] : i \in DOMAIN calls[m]} = {NameOf[s] : s \in ScopsOf(m)}
    BY <2>2 DEF Numbered
  <2>4. QED
    BY <2>2, <2>3 DEF Numbered
<1>4. QED
  BY <1>1, <1>2, <1>3, PassesCorrect, PTL DEF Spec

-----------------------------------------------------------------------------
(* Which modules get the declarations.                                      *)

Profiled(m) == CompiledBy[m] \in PollyMLProfiler

\* The static flag of a process stands for the one of its modules that was
\* given the declarations; with the flag down there is no such module yet.
FlagInv ==
  /\ \A m \in Module : stage[m] = "scops" => Profiled(m)
  /\ \A p \in PollyMLProfiler :
       IF initialized_profiler[p]
       THEN \E m \in Module :
              /\ CompiledBy[m] = p /\ stage[m] # "source" /\ Found(m)
              /\ \A n \in Module : CompiledBy[n] = p /\ n # m => declared[n] = {}
       ELSE \A m \in Module :
              CompiledBy[m] = p => stage[m] = "source" /\ declared[m] = {}

\* The module pass.
LEMMA ModulePassKeepsFlag ==
  ASSUME TypeOK, FlagInv, NEW p \in Process, NEW m \in Module, runOnModule(p, m)
  PROVE  FlagInv'
<1>1. /\ stage[m] = "source" /\ CompiledBy[m] = p
      /\ \A n \in Module : n # m => stage'[n] = stage[n]
      /\ stage'[m] # "source"
  BY DEF runOnModule, TypeOK
<1>2. CASE p \notin PollyMLProfiler
  <2>1. UNCHANGED <<declared, initialized_profiler>> /\ stage'[m] = "object"
    BY <1>2 DEF runOnModule, moduleVars, TypeOK
  <2>2. \A n \in Module : stage'[n] = "scops" => Profiled(n)
    BY <1>1, <2>1 DEF FlagInv
  <2>3. \A n \in Module : Profiled(n) => stage'[n] = stage[n]
    BY <1>1, <1>2 DEF Profiled
  <2>4. QED
    BY <2>1, <2>2, <2>3 DEF FlagInv, Found, Profiled
<1>3. CASE p \in PollyMLProfiler
  <2>1. \A n \in Module : stage'[n] = "scops" => Profiled(n)
    BY <1>1, <1>3 DEF FlagInv, Profiled
  <2>2. CASE AlreadyInitialized(p)
    <3>1. UNCHANGED <<declared, initialized_profiler>> /\ initialized_profiler[p]
      BY <2>2 DEF AlreadyInitialized, moduleVars
    <3>2. \A q \in PollyMLProfiler : ~initialized_profiler[q] =>
            \A n \in Module : CompiledBy[n] = q => stage'[n] = stage[n]
      BY <1>1, <3>1
    <3>3. \A n \in Module : stage[n] # "source" => stage'[n] # "source"
      BY <1>1
    <3>4. QED
      BY <2>1, <3>1, <3>2, <3>3 DEF FlagInv, Found
  <2>3. CASE Inject(p, m)
    <3>1. /\ ~initialized_profiler[p]
          /\ declared' = [declared EXCEPT ![m] = @ \cup ScopFunctions]
          /\ initialized_profiler' = [initialized_profiler EXCEPT ![p] = TRUE]
      BY <2>3 DEF Inject, createStartAndStopProfilingDeclarations
    <3>2. /\ initialized_profiler'[p]
          /\ \A q \in Process : q # p => initialized_profiler'[q] = initialized_profiler[q]
          /\ ScopFunctions \subseteq declared'[m]
          /\ \A n \in Module : n # m => declared'[n] = declared[n]
      BY <3>1 DEF TypeOK
    <3>3. \A n \in Module : CompiledBy[n] = p /\ n # m => declared'[n] = {}
      BY <1>3, <3>1, <3>2 DEF FlagInv
    <3>4. ASSUME NEW q \in PollyMLProfiler, q # p, NEW n \in Module, CompiledBy[n] = q
          PROVE  declared'[n] = declared[n] /\ stage'[n] = stage[n]
      BY <1>1, <3>2, <3>4
    <3>5. \A q \in PollyMLProfiler : q # p =>
            initialized_profiler'[q] = initialized_profiler[q]
      BY <3>2, PassesAssumption
    <3>6. QED
      BY <1>1, <2>1, <3>2, <3>3, <3>4, <3>5 DEF FlagInv, Found
  <2>4. QED
    BY <1>3, <2>2, <2>3 DEF runOnModule
<1>4. QED
  BY <1>2, <1>3

\* For any build: of the modules that one process compiles, the first has the
\* declarations, and no other.
THEOREM FlagCorrect == Spec => []FlagInv
<1>1. Init => FlagInv
  BY PassesAssumption DEF Init, FlagInv
<1>2. TypeOK /\ FlagInv /\ [Next]_vars => FlagInv'
  <2> SUFFICES ASSUME TypeOK, FlagInv, [Next]_vars PROVE FlagInv'
    OBVIOUS
  <2>1. ASSUME UNCHANGED <<stage, declared, initialized_profiler>>
        PROVE  FlagInv'
    BY <2>1 DEF FlagInv, Found
  <2>2. ASSUME NEW p \in Process, NEW m \in Module, runOnModule(p, m)
        PROVE  FlagInv'
    BY <2>2, ModulePassKeepsFlag
  <2>3. ASSUME NEW p \in Process, NEW m \in Module, doFinalization(p, m)
        PROVE  FlagInv'
    <3>1. /\ UNCHANGED <<declared, initialized_profiler>>
          /\ stage[m] = "scops" /\ stage'[m] = "object"
          /\ \A n \in Module : n # m => stage'[n] = stage[n]
      BY <2>3 DEF doFinalization, Compiling, moduleVars, TypeOK
    <3>2. \A n \in Module : stage[n] = "source" <=> stage'[n] = "source"
      BY <3>1
    <3>3. \A n \in Module : stage'[n] = "scops" => stage[n] = "scops"
      BY <3>1
    <3>4. QED
      BY <3>1, <3>2, <3>3 DEF FlagInv, Found
  <2>4. ASSUME NEW p \in Process, NEW s \in Scop,
               OpenScopson(p, s) \/ KeepScopson(p, s) \/ DropScopson(p, s)
                 \/ ScopsonUnopened(p, s) \/ runOnScop(p, s)
        PROVE  UNCHANGED <<stage, declared, initialized_profiler>>
    BY <2>4 DEF OpenScopson, KeepScopson, DropScopson, ScopsonUnopened, Close,
       runOnScop, moduleVars
  <2>5. QED
    BY <2>1, <2>2, <2>3, <2>4 DEF Next, vars
<1>3. QED
  BY <1>1, <1>2, TypeCorrect, PTL DEF Spec

\* A process started with -pollyML-profiler compiles one module, as a compiler
\* driver does.
OneModuleEach ==
  \A m, n \in Module : Profiled(m) /\ CompiledBy[m] = CompiledBy[n] => m = n

\* Then the functions that the calls go to are declared: the assertion of
\* createStartProfilingCall and createStopProfilingCall holds.  Without it the
\* run passes_one_process has the counterexample.
THEOREM DeclaredCorrect ==
  ASSUME OneModuleEach
  PROVE  Spec => []FunctionsDeclared
<1>1. ASSUME FlagInv PROVE FunctionsDeclared
  <2> SUFFICES ASSUME NEW m \in Module, stage[m] = "scops" PROVE Found(m)
    BY PassesAssumption DEF FunctionsDeclared, Compiling
  <2>1. Profiled(m) /\ CompiledBy[m] \in PollyMLProfiler
    BY <1>1 DEF FlagInv, Profiled
  <2>2. initialized_profiler[CompiledBy[m]]
    BY <1>1, <2>1 DEF FlagInv
  <2>3. PICK n \in Module : CompiledBy[n] = CompiledBy[m] /\ Found(n)
    BY <1>1, <2>1, <2>2 DEF FlagInv
  <2>4. QED
    BY <2>1, <2>3, OneModuleEach DEF OneModuleEach
<1>2. QED
  BY <1>1, FlagCorrect, PTL

\* And no compiler process ends in that assertion.
THEOREM NoneAborts ==
  ASSUME OneModuleEach
  PROVE  Spec => [](\A p \in Process : status[p] = "running")
<1> DEFINE Alive == \A p \in Process : status[p] = "running"
<1>1. Init => Alive
  BY DEF Init
<1>2. TypeOK /\ FunctionsDeclared /\ Alive /\ [Next]_vars => Alive'
  <2> SUFFICES ASSUME TypeOK, FunctionsDeclared, Alive, [Next]_vars PROVE Alive'
    OBVIOUS
  <2>1. ASSUME NEW p \in Process, NEW s \in Scop, runOnScop(p, s)
        PROVE  status' = status
    <3>1. Found(ModuleOf[s])
      BY <2>1 DEF FunctionsDeclared, runOnScop
    <3>2. QED
      BY <2>1, <3>1 DEF runOnScop, ScopProfiled, AssertionFails
  <2>2. ASSUME NEW p \in Process, NEW m \in Module,
               runOnModule(p, m) \/ doFinalization(p, m)
        PROVE  status' = status
    BY <2>2 DEF runOnModule, doFinalization, profileVars
  <2>3. ASSUME NEW p \in Process, NEW s \in Scop,
               OpenScopson(p, s) \/ KeepScopson(p, s) \/ DropScopson(p, s)
                 \/ ScopsonUnopened(p, s)
        PROVE  status' = status
    BY <2>3 DEF OpenScopson, KeepScopson, DropScopson, ScopsonUnopened, Close,
       profileVars
  <2>4. QED
    BY <2>1, <2>2, <2>3 DEF Next, vars
<1>3. QED
  BY <1>1, <1>2, TypeCorrect, DeclaredCorrect, PTL DEF Spec
=============================================================================
