---------------------------- MODULE ExchangeProofs ----------------------------
(***************************************************************************)
(* Theorems of ScopUse: whatever the SCoPs, the damages, the variables of  *)
(* the caller and the order in which it moves and destroys Scops.          *)
(***************************************************************************)
EXTENDS ScopUse, SequenceTheorems, WellFoundedInduction, TLAPS

-----------------------------------------------------------------------------
(* Moving and destroying Scops.                                            *)

OwnInv == O!OwnershipTypeOK /\ ScopIsWhole /\ FreedWithScop

\* A move leaves a Scop behind that owns nothing, with objects where they were.
LEMMA MovedIsScop ==
  ASSUME NEW s \in O!ScopType
  PROVE  /\ O!MovedFrom(s) \in O!ScopType
         /\ O!MovedFrom(s).isl_ctxt = None
         /\ O!MovedFrom(s).lists = None
         /\ O!MovedFrom(s).context = s.context
         /\ O!MovedFrom(s).deps = s.deps
BY DEF O!MovedFrom, O!ScopType

\* Importing puts a new context, whole, into a variable that was empty.
LEMMA ImportPreserves ==
  ASSUME OwnInv, NEW h \in Holder, NEW c \in Context, O!Import(h, c)
  PROVE  OwnInv'
<1>1. O!OwnershipTypeOK'
  BY DEF OwnInv, O!OwnershipTypeOK, O!Import, O!ScopType
<1>2. /\ \A k \in Holder : scops'[k] = IF k = h
               THEN [isl_ctxt |-> c, context |-> c, lists |-> c, deps |-> c]
               ELSE scops[k]
      /\ \A d \in Context : heap'[d] = IF d = c THEN "live" ELSE heap[d]
      /\ heap[c] = "unused" /\ careless' = careless /\ ~O!Holds(h)
  BY DEF OwnInv, O!OwnershipTypeOK, O!Import
<1>3. \A k \in Holder : ~O!Owns(k, c) /\ ~O!Refers(k, c)
  BY <1>2, HolderAssumption
     DEF OwnInv, ScopIsWhole, O!ScopIsWhole, O!Owns, O!Refers
<1>4. ScopIsWhole'
  BY <1>1, <1>2, <1>3, HolderAssumption
     DEF OwnInv, ScopIsWhole, O!ScopIsWhole, O!Owns, O!Refers, O!Holds, O!OwnershipTypeOK,
         O!ScopType
<1>5. FreedWithScop'
  BY <1>1, <1>2, <1>3, HolderAssumption
     DEF OwnInv, FreedWithScop, O!FreedWithScop, O!Owns, O!Holds, O!OwnershipTypeOK,
         O!ScopType
<1>6. QED
  BY <1>1, <1>4, <1>5 DEF OwnInv

\* A move into a new variable takes the context and the lists along.
LEMMA MoveConstructPreserves ==
  ASSUME OwnInv, NEW h \in Holder, NEW k \in Holder, O!MoveConstruct(h, k)
  PROVE  OwnInv'
<1>1. scops[h] \in O!ScopType /\ h # k
  BY DEF OwnInv, O!OwnershipTypeOK, O!MoveConstruct, O!Holds
<1>2. /\ \A i \in Holder : scops'[i] = IF i = k THEN scops[h]
                                       ELSE IF i = h THEN O!MovedFrom(scops[h])
                                       ELSE scops[i]
      /\ heap' = heap /\ careless' = careless
      /\ O!Holds(h) /\ ~O!Holds(k)
  BY <1>1 DEF OwnInv, O!OwnershipTypeOK, O!MoveConstruct
<1>3. O!OwnershipTypeOK'
  BY <1>1, <1>2, MovedIsScop DEF OwnInv, O!OwnershipTypeOK, O!MoveConstruct
<1>4. \A i \in Holder, c \in Context :
        /\ O!Owns(i, c)' <=> (i = k /\ O!Owns(h, c)) \/ (i \notin {h, k} /\ O!Owns(i, c))
        /\ O!Refers(i, c)' => O!Refers(h, c) \/ (i \notin {h, k} /\ O!Refers(i, c))
  BY <1>1, <1>2, MovedIsScop, HolderAssumption DEF O!Owns, O!Refers, O!Holds
<1>5. ScopIsWhole'
  BY <1>1, <1>2, <1>3, <1>4, MovedIsScop, HolderAssumption
     DEF OwnInv, ScopIsWhole, O!ScopIsWhole, O!Owns, O!Refers, O!Holds,
         O!OwnershipTypeOK, O!ScopType
<1>6. FreedWithScop'
  <2>1. ASSUME NEW c \in Context, heap'[c] = "live"
        PROVE  \E i \in Holder : O!Owns(i, c)'
    <3>1. PICK i \in Holder : O!Owns(i, c)
      BY <1>2, <2>1 DEF OwnInv, FreedWithScop, O!FreedWithScop
    <3>2. CASE i = h
      BY <1>4, <3>1, <3>2
    <3>3. CASE i # h
      BY <1>2, <1>4, <3>1, <3>3 DEF O!Owns
    <3>4. QED
      BY <3>2, <3>3
  <2>2. QED
    BY <1>2, <2>1 DEF OwnInv, FreedWithScop, O!FreedWithScop
<1>7. QED
  BY <1>3, <1>5, <1>6 DEF OwnInv

\* The context of the Scop that is assigned over is lost, and is not freed: its
\* own objects still refer to it.
LEMMA MoveAssignPreserves ==
  ASSUME OwnInv, NEW h \in Holder, NEW k \in Holder, O!MoveAssign(h, k)
  PROVE  OwnInv'
<1> DEFINE c0 == scops[k].isl_ctxt
<1>1. scops[h] \in O!ScopType /\ scops[k] \in O!ScopType /\ h # k
  BY DEF OwnInv, O!OwnershipTypeOK, O!MoveAssign, O!Holds
<1>2. /\ \A i \in Holder : scops'[i] = IF i = k THEN scops[h]
                                       ELSE IF i = h THEN O!MovedFrom(scops[h])
                                       ELSE scops[i]
      /\ O!Holds(h) /\ O!Holds(k)
      /\ careless' = careless \cup ({c0} \ {None})
  BY <1>1 DEF OwnInv, O!OwnershipTypeOK, O!MoveAssign
<1>3. c0 # None => c0 \in Context /\ O!Owns(k, c0) /\ O!Refers(k, c0)
  BY <1>1, <1>2 DEF OwnInv, ScopIsWhole, O!ScopIsWhole, O!Refers, O!Owns, O!ScopType
<1>4. /\ heap' \in [Context -> {"unused", "live", "freed", "leaked"}]
      /\ \A c \in Context : heap'[c] = IF c = c0 THEN "leaked" ELSE heap[c]
  BY <1>3, HolderAssumption
     DEF OwnInv, O!OwnershipTypeOK, O!MoveAssign, O!isl_ctx_free
<1>5. O!OwnershipTypeOK'
  <2>1. scops' \in [Holder -> O!ScopType \cup {NoScop}]
    BY <1>1, <1>2, MovedIsScop DEF OwnInv, O!OwnershipTypeOK, O!MoveAssign
  <2>2. careless' \in SUBSET Context
    BY <1>2, <1>3 DEF OwnInv, O!OwnershipTypeOK
  <2>3. QED
    BY <1>4, <2>1, <2>2 DEF O!OwnershipTypeOK
<1>6. \A i \in Holder, c \in Context :
        /\ O!Owns(i, c)' <=> (i = k /\ O!Owns(h, c)) \/ (i \notin {h, k} /\ O!Owns(i, c))
        /\ O!Refers(i, c)' => O!Refers(h, c) \/ (i \notin {h, k} /\ O!Refers(i, c))
  BY <1>1, <1>2, MovedIsScop, HolderAssumption DEF O!Owns, O!Refers, O!Holds
<1>7. \A i \in Holder, c \in Context :
        O!Owns(i, c) => c # c0 \/ i = k
  BY <1>3, HolderAssumption DEF OwnInv, ScopIsWhole, O!ScopIsWhole, O!Owns
<1>8. ScopIsWhole'
  BY <1>1, <1>2, <1>4, <1>5, <1>6, <1>7, MovedIsScop, HolderAssumption
     DEF OwnInv, ScopIsWhole, O!ScopIsWhole, O!Owns, O!Refers, O!Holds,
         O!OwnershipTypeOK, O!ScopType
<1>9. FreedWithScop'
  <2>1. ASSUME NEW c \in Context, heap'[c] = "live"
        PROVE  \E i \in Holder : O!Owns(i, c)'
    BY <1>4, <1>6, <1>3, <2>1 DEF OwnInv, FreedWithScop, O!FreedWithScop, O!Owns
  <2>2. ASSUME NEW c \in Context, heap'[c] = "leaked" PROVE c \in careless'
    BY <1>2, <1>4, <2>2, HolderAssumption DEF OwnInv, FreedWithScop, O!FreedWithScop
  <2>3. QED
    BY <2>1, <2>2 DEF FreedWithScop, O!FreedWithScop
<1>10. QED
  BY <1>5, <1>8, <1>9 DEF OwnInv

\* Destroying an owner frees its context, unless one moved from refers to it.
LEMMA DestroyPreserves ==
  ASSUME OwnInv, NEW h \in Holder, O!Destroy(h)
  PROVE  OwnInv'
<1> DEFINE c0 == scops[h].isl_ctxt
           referred == \E i \in Holder \ {h} : O!Refers(i, c0)
<1>1. scops[h] \in O!ScopType
  BY DEF OwnInv, O!OwnershipTypeOK, O!Destroy, O!Holds
<1>2. /\ \A i \in Holder : scops'[i] = IF i = h THEN NoScop ELSE scops[i]
      /\ O!Holds(h)
      /\ careless' = careless \cup
           {c \in Context : O!Owns(h, c) /\ \E i \in Holder \ {h} : O!Refers(i, c)}
  BY DEF OwnInv, O!OwnershipTypeOK, O!Destroy
<1>3. c0 # None => c0 \in Context /\ O!Owns(h, c0)
  BY <1>1, <1>2 DEF O!Owns, O!ScopType
<1>4. /\ heap' \in [Context -> {"unused", "live", "freed", "leaked"}]
      /\ \A c \in Context : heap'[c] = IF c = c0
                              THEN IF referred THEN "leaked" ELSE "freed"
                              ELSE heap[c]
  BY <1>3, HolderAssumption DEF OwnInv, O!OwnershipTypeOK, O!Destroy, O!isl_ctx_free
<1>5. O!OwnershipTypeOK'
  BY <1>2, <1>4 DEF OwnInv, O!OwnershipTypeOK, O!Destroy
<1>6. \A i \in Holder, c \in Context :
        /\ O!Owns(i, c)' <=> i # h /\ O!Owns(i, c)
        /\ O!Refers(i, c)' <=> i # h /\ O!Refers(i, c)
  BY <1>2, HolderAssumption DEF O!Owns, O!Refers, O!Holds
<1>7. \A i \in Holder, c \in Context : O!Owns(i, c) => c # c0 \/ i = h
  BY <1>3, HolderAssumption DEF OwnInv, ScopIsWhole, O!ScopIsWhole, O!Owns
<1>8. ScopIsWhole'
  BY <1>1, <1>2, <1>4, <1>5, <1>6, <1>7, HolderAssumption
     DEF OwnInv, ScopIsWhole, O!ScopIsWhole, O!Owns, O!Refers, O!Holds,
         O!OwnershipTypeOK, O!ScopType
<1>9. FreedWithScop'
  <2>1. ASSUME NEW c \in Context, heap'[c] = "live"
        PROVE  \E i \in Holder : O!Owns(i, c)'
    BY <1>2, <1>4, <1>6, <2>1 DEF OwnInv, FreedWithScop, O!FreedWithScop, O!Owns
  <2>2. ASSUME NEW c \in Context, heap'[c] = "leaked" PROVE c \in careless'
    BY <1>2, <1>3, <1>4, <2>2, HolderAssumption
       DEF OwnInv, FreedWithScop, O!FreedWithScop
  <2>3. QED
    BY <2>1, <2>2 DEF FreedWithScop, O!FreedWithScop
<1>10. QED
  BY <1>5, <1>8, <1>9 DEF OwnInv

\* Every step of the caller keeps the invariant; from_scopson does not touch it.
LEMMA OwnStep ==
  ASSUME OwnInv, [UseNext]_<<vars, scops, heap, careless>>
  PROVE  OwnInv'
<1>1. CASE UNCHANGED <<scops, heap, careless>>
  BY <1>1 DEF OwnInv, O!OwnershipTypeOK, ScopIsWhole, O!ScopIsWhole, FreedWithScop,
              O!FreedWithScop, O!Owns, O!Refers, O!Holds
<1>2. ASSUME NEW h \in Holder, Receive(h) \/ ReceiveEarlier(h) PROVE OwnInv'
  BY <1>2, ImportPreserves, UseAssumption DEF Receive, ReceiveEarlier
<1>3. CASE O!Use
  BY <1>3, MoveConstructPreserves, MoveAssignPreserves, DestroyPreserves DEF O!Use
<1>4. QED
  BY <1>1, <1>2, <1>3 DEF UseNext

\* For any variables and any order of moves, assignments and destructions: the
\* inductive invariant of who owns which context.
THEOREM OwnCorrect == UseSpec => []OwnInv
<1>1. UseInit => OwnInv
  BY DEF UseInit, O!Init, OwnInv, O!OwnershipTypeOK, ScopIsWhole, O!ScopIsWhole,
         FreedWithScop, O!FreedWithScop, O!Owns, O!Refers, O!Holds
<1>2. QED
  BY <1>1, OwnStep, PTL DEF UseSpec

\* A Scop is whole, however Scops are moved about.
THEOREM WholeCorrect == UseSpec => []ScopIsWhole
<1>1. OwnInv => ScopIsWhole
  BY DEF OwnInv
<1>2. QED
  BY <1>1, OwnCorrect, PTL

\* A context is freed with its Scop, unless the program was careless.
THEOREM FreedCorrect == UseSpec => []FreedWithScop
<1>1. OwnInv => FreedWithScop
  BY DEF OwnInv
<1>2. QED
  BY <1>1, OwnCorrect, PTL

-----------------------------------------------------------------------------
(* from_scopson and its isl context.                                       *)

Fields == {"name", "context", "arrays", "statements", "dependences"}

DocOK(d) ==
  \A f \in {"arrays", "statements"} : Has(d, f) => DOMAIN d[f] \subseteq Nat

\* A list is a function on an interval.
LEMMA ListIsFunction ==
  ASSUME NEW l, IsList(l)
  PROVE  /\ DOMAIN l \subseteq Nat
         /\ l # <<>> => 1 \in DOMAIN l
         /\ l = <<>> <=> DOMAIN l = {}
<1>1. l \in Seq(Range(l))
  BY DEF IsList
<1>2. Len(l) \in Nat /\ DOMAIN l = 1 .. Len(l) /\ (l = <<>> <=> Len(l) = 0)
  BY <1>1
<1>3. QED
  BY <1>2

\* What an exported file is made of.
LEMMA Exported ==
  ASSUME NEW S \in Scops
  PROVE  LET j == getJson(S)
         IN  /\ DOMAIN j = Fields
             /\ DOMAIN j.arrays \subseteq Nat
             /\ j.arrays = <<>> <=> S.arrays = <<>>
             /\ j.arrays # <<>> => 1 \in DOMAIN j.arrays
             /\ DOMAIN j.statements \subseteq Nat
             /\ j.statements = <<>> <=> S.statements = <<>>
             /\ j.statements # <<>> => 1 \in DOMAIN j.statements
             /\ DOMAIN j.dependences = DependenceKinds
<1> DEFINE j == getJson(S)
<1>1. IsList(S.arrays) /\ IsList(S.statements)
  BY ScopAssumption
<1>2. DOMAIN S.dependences = DependenceKinds
  BY ScopAssumption
<1>3. /\ DOMAIN j = Fields
      /\ j.arrays = exportArrays(S)
      /\ j.statements = [k \in DOMAIN S.statements |-> exportStatement(S.statements[k])]
      /\ j.dependences = S.dependences
  BY DEF getJson, Fields
<1> HIDE DEF j
<1>4. DOMAIN j.arrays = DOMAIN S.arrays /\ (j.arrays = <<>> <=> DOMAIN S.arrays = {})
  BY <1>3 DEF exportArrays
<1>5. DOMAIN j.statements = DOMAIN S.statements /\ (j.statements = <<>> <=> DOMAIN S.statements = {})
  BY <1>3
<1>6. QED
  BY <1>1, <1>2, <1>3, <1>4, <1>5, ListIsFunction DEF j

\* The damages, by place.
LEMMA DamageCases ==
  ASSUME NEW d \in Damages
  PROVE  \/ d.place = "nowhere" /\ d.how = ""
         \/ d.place = "scop" /\ d.how = "missing" /\ d.field \in Fields
         \/ d.place = "scop" /\ d.how = "garbled" /\ d.field = "context"
         \/ d.place = "array" /\ d.how = "missing" /\ d.field \in {"name", "sizes", "type"}
         \/ d.place = "array" /\ d.how = "unknown" /\ d.field = "type"
         \/ d.place = "array" /\ d.how = "no number" /\ d.field = "sizes"
         \/ d.place = "statement" /\ d.how = "missing"
              /\ d.field \in {"name", "domain", "schedule", "accesses"}
         \/ d.place = "statement" /\ d.how \in {"garbled", "foreign"}
              /\ d.field \in {"domain", "schedule"}
         \/ d.place = "access" /\ d.how = "missing" /\ d.field \in {"kind", "relation"}
         \/ d.place = "access" /\ d.how = "unknown" /\ d.field = "kind"
         \/ d.place = "access" /\ d.how \in {"garbled", "foreign"} /\ d.field = "relation"
         \/ d.place = "dependences" /\ d.how \in {"missing", "garbled"}
              /\ d.field \in DependenceKinds
<1>1. CASE d = Damage("nowhere", "", "")
  BY <1>1 DEF Damage
<1>2. ASSUME NEW t \in AnyField, d = Damage(t[1], t[2], "missing")
      PROVE  /\ d.place \in {"scop", "array", "statement", "access", "dependences"}
             /\ d.place = "scop" => d.field \in Fields
             /\ d.place = "array" => d.field \in {"name", "sizes", "type"}
             /\ d.place = "statement" => d.field \in {"name", "domain", "schedule", "accesses"}
             /\ d.place = "access" => d.field \in {"kind", "relation"}
             /\ d.place = "dependences" => d.field \in DependenceKinds
             /\ d.how = "missing"
  <2>1. PICK q \in DOMAIN FieldsOf : t \in {q} \X FieldsOf[q]
    BY DEF AnyField
  <2>2. d.place = q /\ d.field \in FieldsOf[q] /\ d.how = "missing"
    BY <1>2, <2>1 DEF Damage
  <2>3. QED
    BY <2>2 DEF FieldsOf, Fields
<1>3. ASSUME NEW t \in IslTexts, d = Damage(t[1], t[2], "garbled")
      PROVE  /\ d.how = "garbled"
             /\ \/ d.place = "scop" /\ d.field = "context"
                \/ d.place = "statement" /\ d.field \in {"domain", "schedule"}
                \/ d.place = "access" /\ d.field = "relation"
                \/ d.place = "dependences" /\ d.field \in DependenceKinds
  BY <1>3 DEF Damage, IslTexts
<1>4. ASSUME NEW t \in StatementTexts, d = Damage(t[1], t[2], "foreign")
      PROVE  /\ d.how = "foreign"
             /\ \/ d.place = "statement" /\ d.field \in {"domain", "schedule"}
                \/ d.place = "access" /\ d.field = "relation"
  BY <1>4 DEF Damage, StatementTexts
<1>5. ASSUME NEW t \in Words, d = Damage(t[1], t[2], "unknown")
      PROVE  /\ d.how = "unknown"
             /\ \/ d.place = "array" /\ d.field = "type"
                \/ d.place = "access" /\ d.field = "kind"
  BY <1>5 DEF Damage, Words
<1>6. \/ d = Damage("nowhere", "", "")
      \/ d \in Done("missing", AnyField) \/ d \in Done("garbled", IslTexts)
      \/ d \in Done("foreign", StatementTexts) \/ d \in Done("unknown", Words)
      \/ d \in Done("no number", {<<"array", "sizes">>})
  BY DEF Damages
<1>7. ASSUME d \in Done("no number", {<<"array", "sizes">>})
      PROVE  d.place = "array" /\ d.how = "no number" /\ d.field = "sizes"
  <2>1. d = Damage("array", "sizes", "no number")
    <3>1. PICK t \in {<<"array", "sizes">>} : d = Damage(t[1], t[2], "no number")
      BY <1>7 DEF Done
    <3>2. t[1] = "array" /\ t[2] = "sizes"
      OBVIOUS
    <3>3. QED
      BY <3>1, <3>2
  <2>2. QED
    BY <2>1 DEF Damage
<1>8. QED
  BY <1>1, <1>2, <1>3, <1>4, <1>5, <1>6, <1>7 DEF Done

\* The places of a text of another statement, and of lost sizes.
LEMMA UnnoticedCases ==
  ASSUME NEW d \in Damages
  PROVE  /\ d.how = "foreign" =>
              \/ d.place = "statement" /\ d.field \in {"domain", "schedule"}
              \/ d.place = "access" /\ d.field = "relation"
         /\ d.how = "missing" /\ d.field = "sizes" => d.place = "array"
<1>1. "sizes" \notin Fields /\ "sizes" \notin DependenceKinds
  BY DEF Fields, DependenceKinds
<1>2. ASSUME d.how = "foreign"
      PROVE  \/ d.place = "statement" /\ d.field \in {"domain", "schedule"}
             \/ d.place = "access" /\ d.field = "relation"
  BY <1>2, DamageCases
<1>3. ASSUME d.how = "missing", d.field = "sizes"
      PROVE  d.place = "array"
  BY <1>1, <1>3, DamageCases
<1>4. QED
  BY <1>2, <1>3

\* The file has lists where the parsers loop, whatever happened to it.
LEMMA DocIsRead ==
  ASSUME NEW S \in Scops, NEW d \in Damages
  PROVE  DocOK(Damaged(getJson(S), d))
<1> DEFINE j == getJson(S)
<1>1. /\ DOMAIN j = Fields
      /\ DOMAIN j.arrays \subseteq Nat
      /\ DOMAIN j.statements \subseteq Nat
  BY Exported
<1>2. \A list : DOMAIN list \subseteq Nat => DOMAIN FirstOf(list, d) \subseteq Nat
  BY DEF FirstOf
<1> HIDE DEF j
<1>3. DocOK(j)
  BY <1>1 DEF DocOK, Has
<1>4. CASE d.place = "nowhere"
  BY <1>3, <1>4 DEF Damaged, j
<1>5. CASE d.place = "scop"
  <2>1. Damaged(j, d) = Hurt(j, d)
    BY <1>5 DEF Damaged
  <2>2. CASE d.how = "missing"
    BY <1>1, <2>1, <2>2 DEF Hurt, Restrict, DocOK, Has, j
  <2>3. CASE d.how # "missing"
    <3>1. d.field = "context"
      BY <1>5, <2>3, DamageCases
    <3>2. QED
      BY <1>1, <2>1, <2>3, <3>1 DEF Hurt, DocOK, Has, j
  <2>4. QED
    BY <2>2, <2>3
<1>6. CASE d.place = "array"
  <2>1. Damaged(j, d) = [j EXCEPT !.arrays = FirstOf(@, d)]
    BY <1>6 DEF Damaged
  <2>2. QED
    BY <1>1, <1>2, <2>1 DEF DocOK, Has, j
<1>7. CASE d.place = "statement"
  <2>1. Damaged(j, d) = [j EXCEPT !.statements = FirstOf(@, d)]
    BY <1>7 DEF Damaged
  <2>2. QED
    BY <1>1, <1>2, <2>1 DEF DocOK, Has, j
<1>8. CASE d.place = "access"
  <2>1. Damaged(j, d) = [j EXCEPT !.statements = FirstAccessOf(@, d)]
    BY <1>8 DEF Damaged
  <2>2. DOMAIN FirstAccessOf(j.statements, d) = DOMAIN j.statements
    BY DEF FirstAccessOf
  <2>3. QED
    BY <1>1, <2>1, <2>2 DEF DocOK, Has, j
<1>9. CASE d.place = "dependences"
  <2>1. Damaged(j, d) = [j EXCEPT !.dependences = Hurt(@, d)]
    BY <1>9 DEF Damaged
  <2>2. QED
    BY <1>1, <2>1 DEF DocOK, Has, j
<1>10. QED
  BY <1>4, <1>5, <1>6, <1>7, <1>8, <1>9, DamageCases

\* A set of numbers has a least one.
LEMMA LeastIsMember ==
  ASSUME NEW T \in SUBSET Nat, T # {}
  PROVE  Min(T) \in T
<1> DEFINE less == {ss \in Nat \X Nat : ss[1] < ss[2]}
<1>1. IsWellFoundedOn(less, Nat)
  BY NatLessThanWellFounded, Zenon DEF OpToRel
<1>2. PICK x \in T : \A y \in T : ~ (<<y, x>> \in less)
  <2> HIDE DEF less
  <2>1. QED
    BY <1>1, WFMin
<1>3. ASSUME NEW y \in T PROVE x <= y
  <2>1. x \in Nat /\ y \in Nat /\ <<y, x>> \in Nat \X Nat
    OBVIOUS
  <2>2. ~ (y < x)
    BY <1>2, <2>1
  <2>3. QED
    BY <2>1, <2>2
<1>4. QED
  BY <1>3 DEF Min

\* A loop ends as one of its elements, or well.
LEMMA LoopEnds ==
  ASSUME NEW ends, DOMAIN ends \subseteq Nat
  PROVE  LoopEnd(ends) = "ok" \/ \E i \in DOMAIN ends : LoopEnd(ends) = ends[i]
BY LeastIsMember DEF LoopEnd

\* A build keeps its assertions, so a file is read in the same way in every step.
LEMMA SameEnds ==
  ASSUME assertions' = assertions, doc' = doc
  PROVE  \A f : PartEnd(doc, f)' = PartEnd(doc, f)
<1>1. \A st : statementEnd(st)' = statementEnd(st)
  BY DEF statementEnd
<1>2. QED
  BY <1>1 DEF PartEnd

Ends == {"ok", "error", "throws", "asserts"}

\* The parsers have no other ways to end.
LEMMA PartEnds ==
  ASSUME NEW d, DocOK(d), NEW f \in Fields
  PROVE  PartEnd(d, f) \in Ends
<1>1. \A a : memRefEnd(a) \in Ends
  BY DEF memRefEnd, Ends
<1>2. \A st : statementEnd(st) \in Ends
  BY DEF statementEnd, Ends
<1>3. CASE ~Has(d, f)
  BY <1>3 DEF PartEnd, Ends
<1>4. CASE Has(d, f) /\ f = "arrays"
  <2> DEFINE ends == [k \in DOMAIN d.arrays |-> memRefEnd(d.arrays[k])]
  <2>1. PartEnd(d, f) = LoopEnd(ends)
    BY <1>4 DEF PartEnd
  <2>2. DOMAIN ends \subseteq Nat
    BY <1>4 DEF DocOK
  <2>3. \A k \in DOMAIN ends : ends[k] \in Ends
    BY <1>1
  <2> HIDE DEF ends
  <2>4. QED
    BY <2>1, <2>2, <2>3, LoopEnds DEF Ends
<1>5. CASE Has(d, f) /\ f = "statements"
  <2> DEFINE ends == [k \in DOMAIN d.statements |-> statementEnd(d.statements[k])]
  <2>1. PartEnd(d, f) = LoopEnd(ends)
    BY <1>5 DEF PartEnd
  <2>2. DOMAIN ends \subseteq Nat
    BY <1>5 DEF DocOK
  <2>3. \A k \in DOMAIN ends : ends[k] \in Ends
    BY <1>2
  <2> HIDE DEF ends
  <2>4. QED
    BY <2>1, <2>2, <2>3, LoopEnds DEF Ends
<1>6. CASE Has(d, f) /\ f \in {"name", "context", "dependences"}
  BY <1>6 DEF PartEnd, dependencesEnd, Ends
<1>7. QED
  BY <1>3, <1>4, <1>5, <1>6 DEF Fields

Locals == Fields \cup {"ctxt"}

\* Only the first of the locals is the context's owner; the rest follows from
\* how the frame is left.
FrameInv ==
  /\ DocOK(doc)
  /\ todo \in Seq(Fields)
  /\ locals \in Seq(Locals)
  /\ \A i \in 1 .. Len(locals) : locals[i] = "ctxt" <=> i = 1
  /\ outcome \in {"none", "scop"} \cup (Ends \ {"ok"})
  /\ outcome \in {"none", "asserts"} => isl_ctxt = "frame" /\ locals # <<>>
  /\ outcome = "scop" => isl_ctxt = "scop"
  /\ outcome \in {"error", "throws"} =>
       isl_ctxt = IF locals = <<>> THEN "freed" ELSE "frame"

\* from_scopson starts with a context and nothing else.
LEMMA FrameInit ==
  ASSUME Init
  PROVE  FrameInv
<1>1. DocOK(doc)
  BY DocIsRead DEF Init
<1>2. todo \in Seq(Fields)
  BY DEF Init, Parts, Fields
<1>3. locals = <<"ctxt">> /\ outcome = "none" /\ isl_ctxt = "frame"
  BY DEF Init
<1>4. QED
  BY <1>1, <1>2, <1>3 DEF FrameInv, Locals

\* One more local, which is a field.
LEMMA PushLocal ==
  ASSUME FrameInv, locals # <<>>, NEW f \in Fields
  PROVE  /\ Append(locals, f) \in Seq(Locals)
         /\ Append(locals, f) # <<>>
         /\ \A i \in 1 .. Len(Append(locals, f)) : Append(locals, f)[i] = "ctxt" <=> i = 1
<1>1. f \in Locals /\ f # "ctxt"
  BY DEF Locals, Fields
<1>2. Len(locals) \in Nat \ {0}
  BY DEF FrameInv
<1>3. QED
  BY <1>1, <1>2, AppendProperties DEF FrameInv

\* What is to be read next is a field.
LEMMA HeadIsField ==
  ASSUME FrameInv, todo # <<>>
  PROVE  Head(todo) \in Fields /\ Tail(todo) \in Seq(Fields)
BY HeadTailProperties DEF FrameInv

\* Reading, failing, returning and destroying locals keep the context the first.
LEMMA FrameStep ==
  ASSUME FrameInv, [Next]_vars
  PROVE  FrameInv'
<1>1. CASE Parse
  <2>1. /\ outcome = "none" /\ todo # <<>> /\ locals # <<>> /\ isl_ctxt = "frame"
        /\ todo' = Tail(todo) /\ locals' = Append(locals, Head(todo))
        /\ UNCHANGED <<doc, isl_ctxt, outcome>>
    BY <1>1 DEF Parse, FrameInv
  <2>2. QED
    BY <2>1, HeadIsField, PushLocal DEF FrameInv
<1>2. CASE ParseFails
  <2>1. /\ outcome = "none" /\ todo # <<>> /\ locals # <<>> /\ isl_ctxt = "frame"
        /\ outcome' = PartEnd(doc, Head(todo)) /\ outcome' # "ok"
        /\ locals' = Append(locals, Head(todo))
        /\ UNCHANGED <<doc, todo, isl_ctxt>>
    BY <1>2 DEF ParseFails, FrameInv
  <2>2. outcome' \in Ends \ {"ok"}
    BY <2>1, HeadIsField, PartEnds DEF FrameInv
  <2>3. QED
    BY <2>1, <2>2, HeadIsField, PushLocal DEF FrameInv, Ends
<1>3. CASE ReturnScop
  BY <1>3 DEF ReturnScop, FrameInv, Ends
<1>4. CASE DestroyLocal
  <2> DEFINE n == Len(locals)
  <2>1. /\ outcome \in {"scop", "error", "throws"} /\ locals # <<>>
        /\ locals' = SubSeq(locals, 1, n - 1)
        /\ UNCHANGED <<doc, todo, outcome>>
    BY <1>4 DEF DestroyLocal
  <2>2. locals \in Seq(Locals) /\ n \in Nat \ {0} /\ \A i \in 1 .. n : locals[i] \in Locals
    BY <2>1 DEF FrameInv
  <2>3. /\ locals' \in Seq(Locals)
        /\ Len(locals') = n - 1
        /\ \A i \in 1 .. n - 1 : locals'[i] = locals[i]
    <3>1. \A i \in 1 .. n - 1 : locals[i] \in Locals
      BY <2>2
    <3>2. 1 \in Int /\ n - 1 \in Int
      BY <2>2
    <3>3. /\ SubSeq(locals, 1, n - 1) \in Seq(Locals)
          /\ Len(SubSeq(locals, 1, n - 1)) = IF 1 <= n - 1 THEN n - 1 - 1 + 1 ELSE 0
          /\ \A i \in 1 .. n - 1 - 1 + 1 : SubSeq(locals, 1, n - 1)[i] = locals[1 + i - 1]
      BY <3>1, <3>2, SubSeqProperties
    <3>4. n \in Nat \ {0} /\ locals' = SubSeq(locals, 1, n - 1)
      BY <2>1, <2>2
    <3>5. n - 1 - 1 + 1 = n - 1 /\ \A i \in 1 .. n - 1 : 1 + i - 1 = i
      BY <3>4
    <3> HIDE DEF n
    <3>6. \A i \in 1 .. n - 1 : locals'[i] = locals[i]
      BY <3>3, <3>4, <3>5
    <3>7. Len(locals') = n - 1
      BY <3>3, <3>4
    <3>8. QED
      BY <3>3, <3>4, <3>6, <3>7
  <2>4. \A i \in 1 .. Len(locals') : locals'[i] = "ctxt" <=> i = 1
    BY <2>2, <2>3 DEF FrameInv
  <2>5. CASE n = 1
    <3>1. locals[n] = "ctxt" /\ \A i \in DOMAIN locals : locals[i] \notin IslLocals
      BY <2>2, <2>5 DEF FrameInv, IslLocals
    <3>2. locals' = <<>>
      BY <2>3, <2>5
    <3>3. isl_ctxt' = IF outcome = "scop" THEN "scop" ELSE "freed"
      BY <1>4, <2>1, <3>1 DEF DestroyLocal, FreeContext, FrameInv
    <3>4. QED
      BY <2>1, <2>3, <2>4, <3>2, <3>3 DEF FrameInv, Ends
  <2>6. CASE n # 1
    <3>1. locals[n] # "ctxt" /\ locals' # <<>>
      BY <2>2, <2>3, <2>6 DEF FrameInv
    <3>2. isl_ctxt' = isl_ctxt
      BY <1>4, <3>1 DEF DestroyLocal
    <3>3. QED
      BY <2>1, <2>3, <2>4, <3>1, <3>2 DEF FrameInv
  <2>7. QED
    BY <2>5, <2>6
<1>5. CASE UNCHANGED vars
  BY <1>5 DEF vars, FrameInv
<1>6. QED
  BY <1>1, <1>2, <1>3, <1>4, <1>5 DEF Next

\* For any file: the inductive invariant of the frame of from_scopson, which the
\* context enters first and leaves last.
THEOREM FrameCorrect == UseSpec => []FrameInv
<1>1. UseInit => FrameInv
  BY FrameInit DEF UseInit
<1>2. FrameInv /\ [UseNext]_<<vars, scops, heap, careless>> => FrameInv'
  <2>1. ASSUME [UseNext]_<<vars, scops, heap, careless>> PROVE [Next]_vars
    BY <2>1 DEF UseNext, Receive, ReceiveEarlier
  <2>2. QED
    BY <2>1, FrameStep
<1>3. QED
  BY <1>1, <1>2, PTL DEF UseSpec

\* An import that fails has freed its context, one that succeeds has left it.
THEOREM NothingLeftCorrect == UseSpec => []NothingLeft
<1>1. FrameInv => NothingLeft
  BY DEF FrameInv, NothingLeft, Ends
<1>2. QED
  BY <1>1, FrameCorrect, PTL

-----------------------------------------------------------------------------
(* What is imported means what was exported.                               *)

\* A loop that ends well has passed every element.
LEMMA LoopIsThorough ==
  ASSUME NEW ends, DOMAIN ends \subseteq Nat, LoopEnd(ends) = "ok", NEW i \in DOMAIN ends
  PROVE  ends[i] = "ok"
BY LeastIsMember DEF LoopEnd

\* If the arrays were read, every array was.
LEMMA ArraysPassed ==
  ASSUME NEW d, DocOK(d), Has(d, "arrays"), PartEnd(d, "arrays") = "ok",
         NEW k \in DOMAIN d.arrays
  PROVE  memRefEnd(d.arrays[k]) = "ok"
<1> DEFINE ends == [i \in DOMAIN d.arrays |-> memRefEnd(d.arrays[i])]
<1>1. LoopEnd(ends) = "ok"
  BY DEF PartEnd
<1>2. DOMAIN ends = DOMAIN d.arrays /\ DOMAIN ends \subseteq Nat
      /\ ends[k] = memRefEnd(d.arrays[k])
  BY DEF DocOK
<1> HIDE DEF ends
<1>3. QED
  BY <1>1, <1>2, LoopIsThorough

\* If the statements were read, every statement was.
LEMMA StatementsPassed ==
  ASSUME NEW d, DocOK(d), Has(d, "statements"), PartEnd(d, "statements") = "ok",
         NEW k \in DOMAIN d.statements
  PROVE  statementEnd(d.statements[k]) = "ok"
<1> DEFINE ends == [i \in DOMAIN d.statements |-> statementEnd(d.statements[i])]
<1>1. LoopEnd(ends) = "ok"
  BY DEF PartEnd
<1>2. DOMAIN ends = DOMAIN d.statements /\ DOMAIN ends \subseteq Nat
      /\ ends[k] = statementEnd(d.statements[k])
  BY DEF DocOK
<1> HIDE DEF ends
<1>3. QED
  BY <1>1, <1>2, LoopIsThorough

AllPassed(d) == \A f \in Fields : PartEnd(d, f) = "ok"

\* A missing or garbled field of the file itself is noticed.
LEMMA DamageNoticedScop ==
  ASSUME NEW S \in Scops, NEW d \in Damages, d.place = "scop"
  PROVE  ~AllPassed(Damaged(getJson(S), d))
<1> DEFINE j == getJson(S)
<1>1. DOMAIN j = Fields
  BY Exported
<1>2. Damaged(j, d) = Hurt(j, d)
  BY DEF Damaged
<1> HIDE DEF j
<1>3. CASE d.how = "missing" /\ d.field \in Fields
  <2>1. ~Has(Hurt(j, d), d.field)
    BY <1>3 DEF Hurt, Restrict, Has
  <2>2. PartEnd(Hurt(j, d), d.field) = "error"
    BY <2>1 DEF PartEnd
  <2>3. QED
    BY <1>2, <1>3, <2>2 DEF AllPassed, j
<1>4. CASE d.how = "garbled" /\ d.field = "context"
  <2>1. Hurt(j, d) = [j EXCEPT !.context = Garbled]
    BY <1>4 DEF Hurt
  <2>2. PartEnd(Hurt(j, d), "context") = "error"
    BY <1>1, <2>1 DEF PartEnd, Has, Fields
  <2>3. QED
    BY <1>2, <2>2 DEF AllPassed, Fields, j
<1>5. QED
  BY <1>3, <1>4, DamageCases

\* A size that is no number is an exception, if there is a size.
LEMMA NoNumberThrows ==
  ASSUME NEW r, DOMAIN r = {"name", "sizes", "type"}, IsList(r.sizes),
         r = [f \in DOMAIN r |-> r[f]],
         NEW d, d.how = "no number", d.field = "sizes"
  PROVE  Hurt(r, d) = r \/ memRefEnd(Hurt(r, d)) # "ok"
<1>1. Hurt(r, d) = [r EXCEPT !.sizes = FirstNoNumber(@)]
  BY DEF Hurt
<1>2. CASE r.sizes = <<>>
  BY <1>1, <1>2 DEF FirstNoNumber
<1>3. CASE r.sizes # <<>>
  <2> DEFINE h == Hurt(r, d)
  <2>1. 1 \in DOMAIN r.sizes
    BY <1>3, ListIsFunction
  <2>2. h.sizes = [r.sizes EXCEPT ![1] = NoNumber] /\ Has(h, "sizes")
    BY <1>1, <1>3 DEF FirstNoNumber, Has
  <2>3. 1 \in DOMAIN h.sizes /\ h.sizes[1] = NoNumber
    BY <2>1, <2>2
  <2>4. NoNumber # Star /\ ~stoi_ok(NoNumber)
    BY DEF NoNumber, Star, stoi_ok
  <2> HIDE DEF h
  <2>5. memRefEnd(h) # "ok"
    BY <2>2, <2>3, <2>4 DEF memRefEnd
  <2>6. QED
    BY <2>5 DEF h
<1>4. QED
  BY <1>2, <1>3

\* The sizes written are a list.
LEMMA SizesAreList ==
  ASSUME NEW S \in Scops, NEW k \in DOMAIN S.arrays
  PROVE  IsList(exportSizes(S.arrays[k]))
<1> DEFINE a == S.arrays[k]
           e == exportSizes(a)
           T == Range(a.dims) \cup {Star}
<1>1. CASE ~a.isArrayKind
  <2>1. e = <<>>
    BY <1>1 DEF exportSizes
  <2>2. QED
    BY <2>1 DEF IsList
<1>2. CASE a.isArrayKind
  <2>1. a.dims \in Seq(Range(a.dims)) /\ a.dims # <<>>
    BY <1>2, ScopAssumption DEF IsList
  <2>2. a.dims \in Seq(T) /\ <<Star>> \in Seq(T)
    BY <2>1
  <2>3. Tail(a.dims) \in Seq(T)
    BY <2>1, <2>2
  <2>4. e \in Seq(T)
    <3>1. e = <<Star>> \o Tail(a.dims) \/ e = a.dims
      BY <1>2 DEF exportSizes
    <3> HIDE DEF e, T, a
    <3>2. <<Star>> \o Tail(a.dims) \in Seq(T)
      BY <2>2, <2>3, ConcatProperties
    <3>3. QED
      BY <2>2, <3>1, <3>2
  <2> HIDE DEF e, T
  <2>5. e \in Seq(Range(e))
    BY <2>4 DEF Range
  <2>6. QED
    BY <2>5 DEF IsList, e
<1>3. QED
  BY <1>1, <1>2

\* A damaged array is noticed, unless it has lost its sizes.
LEMMA DamageNoticedArray ==
  ASSUME NEW S \in Scops, NEW d \in Damages, d.place = "array",
         ~(d.how = "missing" /\ d.field = "sizes"),
         AllPassed(Damaged(getJson(S), d))
  PROVE  Damaged(getJson(S), d) = getJson(S)
<1> DEFINE j == getJson(S)
           D == Damaged(j, d)
<1>1. /\ DOMAIN j = Fields /\ j = [f \in Fields |-> j[f]]
      /\ j.arrays # <<>> => 1 \in DOMAIN j.arrays
      /\ j.arrays = [k \in DOMAIN j.arrays |-> j.arrays[k]]
      /\ \A k \in DOMAIN j.arrays :
           /\ DOMAIN j.arrays[k] = {"name", "sizes", "type"}
           /\ j.arrays[k] = [f \in DOMAIN j.arrays[k] |-> j.arrays[k][f]]
           /\ IsList(j.arrays[k].sizes)
  <2>1. /\ j.arrays = [k \in DOMAIN j.arrays |-> j.arrays[k]]
        /\ \A k \in DOMAIN j.arrays :
             /\ DOMAIN j.arrays[k] = {"name", "sizes", "type"}
             /\ j.arrays[k] = [f \in DOMAIN j.arrays[k] |-> j.arrays[k][f]]
             /\ IsList(j.arrays[k].sizes)
    BY SizesAreList DEF getJson, exportArrays
  <2>2. j = [f \in Fields |-> j[f]]
    BY DEF getJson, Fields
  <2>3. QED
    BY <2>1, <2>2, Exported
<1>2. D = [j EXCEPT !.arrays = FirstOf(@, d)]
  BY DEF Damaged
<1>3. DocOK(D)
  BY DocIsRead
<1> HIDE DEF j
<1>4. CASE j.arrays = <<>>
  BY <1>1, <1>2, <1>4 DEF FirstOf, j
<1>5. CASE j.arrays # <<>>
  <2>1. D.arrays = [j.arrays EXCEPT ![1] = Hurt(@, d)] /\ Has(D, "arrays")
    BY <1>1, <1>2, <1>5 DEF FirstOf, Fields, Has
  <2>2. 1 \in DOMAIN D.arrays /\ D.arrays[1] = Hurt(j.arrays[1], d)
    BY <1>1, <1>5, <2>1
  <2>3. PartEnd(D, "arrays") = "ok"
    BY DEF AllPassed, Fields, j
  <2> HIDE DEF D
  <2>4. memRefEnd(Hurt(j.arrays[1], d)) = "ok"
    BY <1>3, <2>1, <2>2, <2>3, ArraysPassed
  <2>5. CASE d.how = "missing" /\ d.field \in {"name", "type"}
    <3>1. ~Has(Hurt(j.arrays[1], d), d.field)
      BY <2>5 DEF Hurt, Restrict, Has
    <3>2. QED
      BY <2>4, <2>5, <3>1 DEF memRefEnd
  <2>6. CASE d.how = "unknown" /\ d.field = "type"
    <3>1. Hurt(j.arrays[1], d) = [j.arrays[1] EXCEPT !.type = "unknown"]
      BY <2>6 DEF Hurt
    <3>2. Hurt(j.arrays[1], d).type = "unknown"
      BY <1>1, <1>5, <3>1
    <3>3. "unknown" \notin DOMAIN string_to_MemType
      BY DEF string_to_MemType
    <3>4. QED
      BY <2>4, <3>2, <3>3 DEF memRefEnd
  <2>7. CASE d.how = "no number" /\ d.field = "sizes"
    <3> DEFINE r == j.arrays[1]
    <3>0. /\ DOMAIN r = {"name", "sizes", "type"} /\ IsList(r.sizes)
          /\ r = [f \in DOMAIN r |-> r[f]]
      BY <1>1, <1>5
    <3>1. Hurt(r, d) = r
      <4> HIDE DEF r
      <4>1. Hurt(r, d) = r \/ memRefEnd(Hurt(r, d)) # "ok"
        BY <2>7, <3>0, NoNumberThrows
      <4>2. QED
        BY <2>4, <4>1 DEF r
    <3>2. D.arrays = j.arrays
      <4>1. [j.arrays EXCEPT ![1] = j.arrays[1]] = j.arrays
        BY <1>1, <1>5
      <4>2. QED
        BY <2>1, <3>1, <4>1
    <3>3. D = [j EXCEPT !.arrays = D.arrays]
      BY <1>2, <2>1 DEF D
    <3>4. QED
      BY <1>1, <3>2, <3>3 DEF D, j
  <2>8. QED
    BY <2>5, <2>6, <2>7, DamageCases
<1>6. QED
  BY <1>4, <1>5 DEF j

\* The fields of a statement, and of an access, of an exported file.
LEMMA ExportedStatement ==
  ASSUME NEW S \in Scops, NEW k \in DOMAIN getJson(S).statements
  PROVE  LET st == getJson(S).statements[k]
         IN  /\ DOMAIN st = {"name", "domain", "schedule", "accesses"}
             /\ st.domain[1] # "foreign" /\ st.schedule[1] # "foreign"
             /\ 1 \in DOMAIN st.domain /\ 1 \in DOMAIN st.schedule
             /\ st.accesses # <<>> => 1 \in DOMAIN st.accesses
             /\ DOMAIN st.accesses \subseteq Nat
             /\ \A i \in DOMAIN st.accesses :
                  /\ DOMAIN st.accesses[i] = {"kind", "relation"}
                  /\ 1 \in DOMAIN st.accesses[i].relation
<1> DEFINE from == S.statements[k]
<1>1. k \in DOMAIN S.statements /\ getJson(S).statements[k] = exportStatement(from)
  BY DEF getJson
<1>2. IsList(from.accesses) /\ from.name # "foreign"
  BY <1>1, ScopAssumption
<1> HIDE DEF from
<1>3. /\ DOMAIN exportStatement(from) = {"name", "domain", "schedule", "accesses"}
      /\ exportStatement(from).domain[1] = from.name
      /\ exportStatement(from).schedule[1] = from.name
      /\ 1 \in DOMAIN exportStatement(from).domain
      /\ 1 \in DOMAIN exportStatement(from).schedule
      /\ DOMAIN exportStatement(from).accesses = DOMAIN from.accesses
      /\ \A i \in DOMAIN from.accesses :
           /\ DOMAIN exportStatement(from).accesses[i] = {"kind", "relation"}
           /\ 1 \in DOMAIN exportStatement(from).accesses[i].relation
  BY DEF exportStatement
<1>4. exportStatement(from).accesses = <<>> <=> DOMAIN from.accesses = {}
  BY DEF exportStatement
<1>5. /\ DOMAIN from.accesses \subseteq Nat
      /\ from.accesses # <<>> => 1 \in DOMAIN from.accesses
      /\ from.accesses = <<>> <=> DOMAIN from.accesses = {}
  BY <1>2, ListIsFunction
<1>6. QED
  BY <1>1, <1>2, <1>3, <1>4, <1>5

\* A damaged statement is noticed, if need be by an assertion.
LEMMA DamageNoticedStatement ==
  ASSUME NEW S \in Scops, NEW d \in Damages, d.place = "statement",
         d.how = "foreign" => assertions,
         AllPassed(Damaged(getJson(S), d))
  PROVE  Damaged(getJson(S), d) = getJson(S)
<1> DEFINE j == getJson(S)
           D == Damaged(j, d)
<1>1. /\ DOMAIN j = Fields /\ j = [f \in Fields |-> j[f]]
      /\ j.statements # <<>> => 1 \in DOMAIN j.statements
  <2>1. j = [f \in Fields |-> j[f]]
    BY DEF getJson, Fields
  <2>2. QED
    BY <2>1, Exported
<1>2. D = [j EXCEPT !.statements = FirstOf(@, d)]
  BY DEF Damaged
<1>3. DocOK(D)
  BY DocIsRead
<1>4. \A k \in DOMAIN j.statements :
        /\ DOMAIN j.statements[k] = {"name", "domain", "schedule", "accesses"}
        /\ j.statements[k].domain[1] # "foreign" /\ j.statements[k].schedule[1] # "foreign"
        /\ 1 \in DOMAIN j.statements[k].domain /\ 1 \in DOMAIN j.statements[k].schedule
  BY ExportedStatement
<1> HIDE DEF j
<1>5. CASE j.statements = <<>>
  BY <1>1, <1>2, <1>5 DEF FirstOf, j
<1>6. CASE j.statements # <<>>
  <2> DEFINE st == j.statements[1]
  <2>1. D.statements = [j.statements EXCEPT ![1] = Hurt(@, d)] /\ Has(D, "statements")
    BY <1>1, <1>2, <1>6 DEF FirstOf, Fields, Has
  <2>2. 1 \in DOMAIN D.statements /\ D.statements[1] = Hurt(st, d)
    BY <1>1, <1>6, <2>1
  <2>3. PartEnd(D, "statements") = "ok"
    BY DEF AllPassed, Fields, j
  <2> HIDE DEF D
  <2>4. statementEnd(Hurt(st, d)) = "ok"
    BY <1>3, <2>1, <2>2, <2>3, StatementsPassed
  <2>5. /\ DOMAIN st = {"name", "domain", "schedule", "accesses"}
        /\ st.domain[1] # "foreign" /\ st.schedule[1] # "foreign"
        /\ 1 \in DOMAIN st.domain /\ 1 \in DOMAIN st.schedule
    BY <1>1, <1>4, <1>6
  <2> HIDE DEF st
  <2>6. CASE d.how = "missing" /\ d.field \in {"name", "domain", "schedule", "accesses"}
    <3>1. ~Has(Hurt(st, d), d.field)
      BY <2>6 DEF Hurt, Restrict, Has
    <3>2. QED
      BY <2>4, <2>6, <3>1 DEF statementEnd
  <2>7. CASE d.how = "garbled" /\ d.field \in {"domain", "schedule"}
    <3>1. Hurt(st, d) = [st EXCEPT ![d.field] = Garbled]
      BY <2>7 DEF Hurt
    <3>2. Hurt(st, d).domain = Garbled \/ Hurt(st, d).schedule = Garbled
      BY <2>5, <2>7, <3>1
    <3>3. QED
      BY <2>4, <3>2 DEF statementEnd
  <2>8. CASE d.how = "foreign" /\ d.field \in {"domain", "schedule"}
    <3>1. /\ Hurt(st, d) = [st EXCEPT ![d.field] = [@ EXCEPT ![1] = "foreign"]]
          /\ assertions
      BY <2>8 DEF Hurt
    <3>2. Hurt(st, d).schedule[1] # Hurt(st, d).domain[1]
      <4>1. CASE d.field = "domain"
        <5>1. Hurt(st, d).domain[1] = "foreign" /\ Hurt(st, d).schedule = st.schedule
          BY <2>5, <3>1, <4>1
        <5>2. QED
          BY <2>5, <5>1
      <4>2. CASE d.field = "schedule"
        <5>1. Hurt(st, d).schedule[1] = "foreign" /\ Hurt(st, d).domain = st.domain
          BY <2>5, <3>1, <4>2
        <5>2. QED
          BY <2>5, <5>1
      <4>3. QED
        BY <2>8, <4>1, <4>2
    <3>3. QED
      BY <2>4, <3>1, <3>2 DEF statementEnd
  <2>9. QED
    BY <2>6, <2>7, <2>8, DamageCases
<1>7. QED
  BY <1>5, <1>6 DEF j

\* If a statement was read, every access of it was, and is its own if that is
\* asserted.
LEMMA AccessesPassed ==
  ASSUME NEW st, statementEnd(st) = "ok", DOMAIN st.accesses \subseteq Nat,
         NEW i \in DOMAIN st.accesses
  PROVE  /\ accessEnd(st.accesses[i]) = "ok"
         /\ assertions => st.accesses[i].relation[1] = st.domain[1]
<1> DEFINE ends == [n \in DOMAIN st.accesses |-> accessEnd(st.accesses[n])]
<1>1. /\ LoopEnd(ends) = "ok"
      /\ assertions => st.accesses[i].relation[1] = st.domain[1]
  BY DEF statementEnd
<1>2. DOMAIN ends = DOMAIN st.accesses /\ ends[i] = accessEnd(st.accesses[i])
  OBVIOUS
<1> HIDE DEF ends
<1>3. QED
  BY <1>1, <1>2, LoopIsThorough

\* A damaged access is noticed, if need be by an assertion.
LEMMA DamageNoticedAccess ==
  ASSUME NEW S \in Scops, NEW d \in Damages, d.place = "access",
         d.how = "foreign" => assertions,
         AllPassed(Damaged(getJson(S), d))
  PROVE  Damaged(getJson(S), d) = getJson(S)
<1> DEFINE j == getJson(S)
           D == Damaged(j, d)
           st == j.statements[1]
           hurt == HurtAccess(st, d)
<1>1. /\ DOMAIN j = Fields /\ j = [f \in Fields |-> j[f]]
      /\ j.statements # <<>> => 1 \in DOMAIN j.statements
      /\ j.statements = [k \in DOMAIN j.statements |-> j.statements[k]]
      /\ \A k \in DOMAIN j.statements :
           j.statements[k] = [f \in DOMAIN j.statements[k] |-> j.statements[k][f]]
  <2>1. /\ j = [f \in Fields |-> j[f]]
        /\ j.statements = [k \in DOMAIN j.statements |-> j.statements[k]]
        /\ \A k \in DOMAIN j.statements :
             j.statements[k] = [f \in DOMAIN j.statements[k] |-> j.statements[k][f]]
    BY DEF getJson, exportStatement, Fields
  <2>2. QED
    BY <2>1, Exported
<1>2. /\ D = [j EXCEPT !.statements = FirstAccessOf(@, d)]
      /\ FirstAccessOf(j.statements, d) = IF j.statements = <<>> THEN j.statements
                                          ELSE [j.statements EXCEPT ![1] = hurt]
  BY DEF Damaged, FirstAccessOf
<1>3. DocOK(D)
  BY DocIsRead
<1>4. j.statements # <<>> =>
        /\ DOMAIN st = {"name", "domain", "schedule", "accesses"}
        /\ st.domain[1] # "foreign"
        /\ DOMAIN st.accesses \subseteq Nat
        /\ st.accesses # <<>> => 1 \in DOMAIN st.accesses
        /\ \A i \in DOMAIN st.accesses :
             /\ DOMAIN st.accesses[i] = {"kind", "relation"}
             /\ 1 \in DOMAIN st.accesses[i].relation
  BY <1>1, ExportedStatement
<1> HIDE DEF j
<1>5. CASE j.statements = <<>>
  BY <1>1, <1>2, <1>5 DEF j
<1>6. CASE j.statements # <<>> /\ st.accesses = <<>>
  <2>1. hurt = st
    BY <1>1, <1>6 DEF HurtAccess, FirstOf
  <2>2. [j.statements EXCEPT ![1] = hurt] = j.statements
    BY <1>1, <1>6, <2>1
  <2>3. D = [j EXCEPT !.statements = [j.statements EXCEPT ![1] = hurt]]
    BY <1>2, <1>6
  <2>4. [j EXCEPT !.statements = j.statements] = j
    BY <1>1 DEF Fields
  <2>5. D = j
    BY <2>2, <2>3, <2>4
  <2>6. QED
    BY <2>5 DEF j
<1>7. CASE j.statements # <<>> /\ st.accesses # <<>>
  <2> DEFINE acc == Hurt(st.accesses[1], d)
  <2>1. /\ Has(D, "statements") /\ 1 \in DOMAIN D.statements /\ D.statements[1] = hurt
    BY <1>1, <1>2, <1>7 DEF Fields, Has
  <2>2. PartEnd(D, "statements") = "ok"
    BY DEF AllPassed, Fields, j
  <2>3. /\ DOMAIN hurt.accesses = DOMAIN st.accesses
        /\ 1 \in DOMAIN hurt.accesses
        /\ hurt.accesses[1] = acc
        /\ hurt.domain = st.domain
    BY <1>4, <1>7 DEF HurtAccess, FirstOf
  <2> HIDE DEF D, hurt
  <2>4. statementEnd(hurt) = "ok"
    BY <1>3, <2>1, <2>2, StatementsPassed
  <2>5. accessEnd(acc) = "ok" /\ (assertions => acc.relation[1] # "foreign")
    BY <1>4, <1>7, <2>3, <2>4, AccessesPassed
  <2>6. /\ DOMAIN st.accesses[1] = {"kind", "relation"}
        /\ 1 \in DOMAIN st.accesses[1].relation
    BY <1>4, <1>7
  <2> HIDE DEF st
  <2>7. CASE d.how = "missing" /\ d.field \in {"kind", "relation"}
    <3>1. ~Has(acc, d.field)
      BY <2>7 DEF Hurt, Restrict, Has
    <3>2. QED
      BY <2>5, <2>7, <3>1 DEF accessEnd
  <2>8. CASE d.how = "unknown" /\ d.field = "kind"
    <3>1. acc = [st.accesses[1] EXCEPT !.kind = "unknown"]
      BY <2>8 DEF Hurt
    <3>2. acc.kind = "unknown"
      BY <2>6, <3>1
    <3>3. "unknown" \notin DOMAIN string_to_AccessType
      BY DEF string_to_AccessType
    <3>4. QED
      BY <2>5, <3>2, <3>3 DEF accessEnd
  <2>9. CASE d.how = "garbled" /\ d.field = "relation"
    <3>1. acc = [st.accesses[1] EXCEPT !.relation = Garbled]
      BY <2>9 DEF Hurt
    <3>2. QED
      BY <2>5, <2>6, <3>1 DEF accessEnd
  <2>10. CASE d.how = "foreign" /\ d.field = "relation"
    <3>1. acc = [st.accesses[1] EXCEPT !.relation = [@ EXCEPT ![1] = "foreign"]]
      BY <2>10 DEF Hurt
    <3>2. acc.relation[1] = "foreign"
      BY <2>6, <3>1
    <3>3. QED
      BY <2>5, <2>10, <3>2
  <2>11. QED
    BY <2>7, <2>8, <2>9, <2>10, DamageCases
<1>8. QED
  BY <1>5, <1>6, <1>7 DEF j

\* Damaged dependences are noticed.
LEMMA DamageNoticedDependences ==
  ASSUME NEW S \in Scops, NEW d \in Damages, d.place = "dependences"
  PROVE  ~AllPassed(Damaged(getJson(S), d))
<1> DEFINE j == getJson(S)
           D == Damaged(j, d)
<1>1. DOMAIN j = Fields /\ DOMAIN j.dependences = DependenceKinds
  BY Exported
<1>2. D = [j EXCEPT !.dependences = Hurt(@, d)]
  BY DEF Damaged
<1> HIDE DEF j
<1>3. Has(D, "dependences") /\ D.dependences = Hurt(j.dependences, d)
  BY <1>1, <1>2 DEF Has, Fields
<1> HIDE DEF D
<1>4. PartEnd(D, "dependences") = dependencesEnd(Hurt(j.dependences, d))
  BY <1>3 DEF PartEnd
<1>5. CASE d.how = "missing" /\ d.field \in DependenceKinds
  <2>1. ~Has(Hurt(j.dependences, d), d.field)
    BY <1>5 DEF Hurt, Restrict, Has
  <2>2. QED
    BY <1>4, <1>5, <2>1 DEF dependencesEnd, AllPassed, Fields, D, j
<1>6. CASE d.how = "garbled" /\ d.field \in DependenceKinds
  <2>1. Hurt(j.dependences, d) = [j.dependences EXCEPT ![d.field] = Garbled]
    BY <1>6 DEF Hurt
  <2>2. Hurt(j.dependences, d)[d.field] = Garbled
    BY <1>1, <1>6, <2>1
  <2>3. QED
    BY <1>4, <1>6, <2>2 DEF dependencesEnd, AllPassed, Fields, D, j
<1>7. QED
  BY <1>5, <1>6, DamageCases

\* A file that is read to the end, has not lost its sizes, and has no text of
\* another statement that nothing asserts against, is undamaged.
LEMMA DamageNoticed ==
  ASSUME NEW S \in Scops, NEW d \in Damages,
         ~(d.how = "missing" /\ d.field = "sizes"), d.how = "foreign" => assertions,
         AllPassed(Damaged(getJson(S), d))
  PROVE  Damaged(getJson(S), d) = getJson(S)
<1>1. CASE d.place = "nowhere"
  BY <1>1 DEF Damaged
<1>2. QED
  BY <1>1, DamageNoticedScop, DamageNoticedArray, DamageNoticedStatement,
     DamageNoticedAccess, DamageNoticedDependences, DamageCases

\* The sizes written are the dimensions, with a star for an unknown one.
LEMMA SizesOfExported ==
  ASSUME NEW S \in Scops, NEW k \in DOMAIN S.arrays, S.arrays[k].isArrayKind
  PROVE  LET dims == S.arrays[k].dims
             e    == exportSizes(S.arrays[k])
         IN  /\ DOMAIN e = 1 .. Len(dims)
             /\ dims = [i \in 1 .. Len(dims) |-> dims[i]]
             /\ \A i \in 1 .. Len(dims) :
                  /\ dims[i] # Star
                  /\ e[i] = IF i = 1 /\ dims[1] = Unknown THEN Star ELSE dims[i]
<1> DEFINE a == S.arrays[k]
           e == exportSizes(a)
<1>1. /\ a.dims \in Seq(Range(a.dims)) /\ a.dims # <<>>
      /\ Star \notin Range(a.dims)
  BY ScopAssumption DEF IsList
<1>2. /\ DOMAIN a.dims = 1 .. Len(a.dims) /\ Len(a.dims) \in Nat \ {0}
      /\ a.dims = [i \in 1 .. Len(a.dims) |-> a.dims[i]]
      /\ \A i \in 1 .. Len(a.dims) : a.dims[i] # Star
  BY <1>1 DEF Range
<1>3. CASE a.dims[1] = Unknown
  <2>1. e = <<Star>> \o Tail(a.dims)
    BY <1>3 DEF exportSizes
  <2>2. /\ Tail(a.dims) \in Seq(Range(a.dims))
        /\ Len(Tail(a.dims)) = Len(a.dims) - 1
        /\ \A i \in 1 .. Len(Tail(a.dims)) : Tail(a.dims)[i] = a.dims[i + 1]
    BY <1>1, HeadTailProperties
  <2> HIDE DEF e, a
  <2>3. /\ DOMAIN e = 1 .. Len(a.dims)
        /\ \A i \in 1 .. Len(a.dims) : e[i] = IF i = 1 THEN Star ELSE a.dims[i]
    BY <1>2, <2>1, <2>2
  <2>4. QED
    BY <1>2, <1>3, <2>3 DEF e, a
<1>4. CASE a.dims[1] # Unknown
  <2>1. e = a.dims
    BY <1>4 DEF exportSizes
  <2>2. QED
    BY <1>2, <1>4, <2>1
<1>5. QED
  BY <1>3, <1>4

\* The sizes are read back as Polly knew them.
LEMMA ShapeOfExported ==
  ASSUME NEW S \in Scops, NEW k \in DOMAIN S.arrays
  PROVE  Shape(exportArrays(S)[k]) =
           IF S.arrays[k].isArrayKind THEN S.arrays[k].dims ELSE <<>>
<1> DEFINE a == S.arrays[k]
           e == exportSizes(a)
           r == exportArrays(S)[k]
<1>1. r = [name |-> a.name, sizes |-> e, type |-> a.type]
  BY DEF exportArrays
<1>2. Has(r, "sizes") /\ r.sizes = e
  BY <1>1 DEF Has
<1>3. CASE ~a.isArrayKind
  <2>1. e = <<>>
    BY <1>3 DEF exportSizes
  <2> HIDE DEF e, r
  <2>2. Shape(r) = <<>>
    BY <1>2, <2>1 DEF Shape
  <2>3. QED
    BY <1>3, <2>2 DEF r
<1>4. CASE a.isArrayKind
  <2>1. /\ DOMAIN e = 1 .. Len(a.dims)
        /\ a.dims = [i \in 1 .. Len(a.dims) |-> a.dims[i]]
        /\ \A i \in 1 .. Len(a.dims) :
             /\ a.dims[i] # Star
             /\ e[i] = IF i = 1 /\ a.dims[1] = Unknown THEN Star ELSE a.dims[i]
    BY <1>4, SizesOfExported
  <2> HIDE DEF e, r, a
  <2>4. Shape(r) = [i \in DOMAIN e |-> IF e[i] = Star THEN Unknown ELSE e[i]]
    BY <1>2 DEF Shape
  <2>5. Shape(r) = [i \in 1 .. Len(a.dims) |-> a.dims[i]]
    BY <2>1, <2>4
  <2>6. QED
    BY <1>4, <2>1, <2>5 DEF r, a
<1>5. QED
  BY <1>3, <1>4

MadeOf(d) == [f \in Fields |-> PartValue(d, f)]

\* The name, the context and the dependences, which are read as they are.
LEMMA OtherValues ==
  ASSUME NEW S \in Scops, NEW d,
         d.name = S.name, d.context = S.context, d.dependences = S.dependences
  PROVE  /\ PartValue(d, "name") = Meaning(S).name
         /\ PartValue(d, "context") = Meaning(S).context
         /\ PartValue(d, "dependences") = Meaning(S).dependences
<1>1. PartValue(d, "name") = S.name /\ PartValue(d, "context") = S.context
  BY DEF PartValue
<1>2. PartValue(d, "dependences") = S.dependences
  BY ScopAssumption DEF PartValue
<1>3. QED
  BY <1>1, <1>2 DEF Meaning

\* A statement is read back as Polly knew it.
LEMMA StatementOfExported ==
  ASSUME NEW st
  PROVE  StatementOf(exportStatement(st)) = MeaningOf(st)
<1> DEFINE e == exportStatement(st)
<1>1. /\ e.domain[1] = st.name /\ e.schedule[1] = st.name
      /\ DOMAIN e.accesses = DOMAIN st.accesses
      /\ \A i \in DOMAIN st.accesses :
           e.accesses[i] = [kind |-> st.accesses[i].kind,
                            relation |-> <<st.name, st.accesses[i].array>>]
  BY DEF exportStatement
<1> HIDE DEF e
<1>2. \A i \in DOMAIN st.accesses :
        MemoryAccessOf(e.accesses[i]) =
          [acc_type  |-> string_to_AccessType[st.accesses[i].kind],
           statement |-> st.name,
           array     |-> st.accesses[i].array]
  <2> TAKE i \in DOMAIN st.accesses
  <2> DEFINE acc == e.accesses[i]
  <2>1. /\ acc.kind = st.accesses[i].kind
        /\ acc.relation[1] = st.name /\ acc.relation[2] = st.accesses[i].array
    <3>1. acc = [kind |-> st.accesses[i].kind,
                 relation |-> <<st.name, st.accesses[i].array>>]
      BY <1>1
    <3>2. QED
      BY <3>1
  <2> HIDE DEF acc
  <2>2. MemoryAccessOf(acc) =
          [acc_type  |-> string_to_AccessType[st.accesses[i].kind],
           statement |-> st.name,
           array     |-> st.accesses[i].array]
    BY <2>1 DEF MemoryAccessOf
  <2>3. QED
    BY <2>2 DEF acc
<1>3. QED
  BY <1>1, <1>2 DEF StatementOf, MeaningOf, e

\* So are all of them; a file without the sizes of an array has them too.
LEMMA StatementsValue ==
  ASSUME NEW S \in Scops, NEW d, d.statements = getJson(S).statements
  PROVE  PartValue(d, "statements") = Meaning(S).statements
<1> DEFINE js == getJson(S).statements
<1>1. /\ DOMAIN js = DOMAIN S.statements
      /\ \A k \in DOMAIN js : js[k] = exportStatement(S.statements[k])
  BY DEF getJson
<1>2. PartValue(d, "statements") = [k \in DOMAIN js |-> StatementOf(js[k])]
  BY DEF PartValue
<1>3. Meaning(S).statements = [k \in DOMAIN S.statements |-> MeaningOf(S.statements[k])]
  BY DEF Meaning
<1> HIDE DEF js
<1>4. \A k \in DOMAIN js : StatementOf(js[k]) = MeaningOf(S.statements[k])
  BY <1>1, StatementOfExported
<1>5. QED
  BY <1>1, <1>2, <1>3, <1>4

\* What is read from an undamaged file is the meaning of its SCoP.
LEMMA ExportedMeaning ==
  ASSUME NEW S \in Scops
  PROVE  MadeOf(getJson(S)) = Meaning(S)
<1> DEFINE j == getJson(S)
<1>1. j.name = S.name /\ j.context = S.context /\ j.dependences = S.dependences
      /\ j.arrays = exportArrays(S)
  BY DEF getJson
<1>2. PartValue(j, "arrays") = Meaning(S).arrays
  <2>1. PartValue(j, "arrays") =
          [k \in DOMAIN j.arrays |->
            [name     |-> j.arrays[k].name,
             mem_type |-> string_to_MemType[j.arrays[k].type],
             shape    |-> Shape(j.arrays[k])]]
    BY DEF PartValue
  <2>2. /\ DOMAIN j.arrays = DOMAIN S.arrays
        /\ \A k \in DOMAIN S.arrays :
             /\ j.arrays[k].name = S.arrays[k].name
             /\ j.arrays[k].type = S.arrays[k].type
             /\ Shape(j.arrays[k]) = IF S.arrays[k].isArrayKind THEN S.arrays[k].dims ELSE <<>>
    <3> HIDE DEF j
    <3>1. DOMAIN j.arrays = DOMAIN S.arrays
      BY <1>1 DEF exportArrays
    <3>2. ASSUME NEW k \in DOMAIN S.arrays
          PROVE  j.arrays[k].name = S.arrays[k].name /\ j.arrays[k].type = S.arrays[k].type
      BY <1>1 DEF exportArrays
    <3>3. QED
      BY <1>1, <3>1, <3>2, ShapeOfExported
  <2> HIDE DEF j
  <2>3. QED
    BY <2>1, <2>2 DEF Meaning
<1>3. /\ PartValue(j, "name") = Meaning(S).name
      /\ PartValue(j, "context") = Meaning(S).context
      /\ PartValue(j, "statements") = Meaning(S).statements
      /\ PartValue(j, "dependences") = Meaning(S).dependences
  BY <1>1, OtherValues, StatementsValue
<1>4. Meaning(S) = [f \in Fields |-> Meaning(S)[f]]
  BY DEF Meaning, Fields
<1> HIDE DEF j
<1>5. QED
  BY <1>2, <1>3, <1>4 DEF MadeOf, Fields, j

\* Without its sizes, the first array is a scalar, and nothing else changes.
LEMMA FlattenedMeaning ==
  ASSUME NEW S \in Scops, NEW d \in Damages, d.how = "missing", d.field = "sizes"
  PROVE  MadeOf(Damaged(getJson(S), d)) = Flattened(Meaning(S))
<1> DEFINE j == getJson(S)
           D == Damaged(j, d)
           M == Meaning(S)
           read(a) == [name     |-> a.name,
                       mem_type |-> string_to_MemType[a.type],
                       shape    |-> Shape(a)]
<1>1. d.place = "array"
  BY UnnoticedCases
<1>2. /\ D = [j EXCEPT !.arrays = FirstOf(@, d)]
      /\ \A o : Hurt(o, d) = Restrict(o, DOMAIN o \ {"sizes"})
  BY <1>1 DEF Damaged, Hurt
<1>3. /\ j.name = S.name /\ j.context = S.context /\ j.dependences = S.dependences
      /\ DOMAIN j = Fields
      /\ j.arrays # <<>> => 1 \in DOMAIN j.arrays
      /\ \A k \in DOMAIN j.arrays : DOMAIN j.arrays[k] = {"name", "sizes", "type"}
  BY Exported DEF getJson, exportArrays
<1>4. /\ DOMAIN M = Fields
      /\ M = [f \in Fields |-> M[f]]
      /\ M.arrays = [k \in DOMAIN j.arrays |-> read(j.arrays[k])]
  <2>1. M.arrays = PartValue(j, "arrays")
    <3>1. MadeOf(j) = M
      BY ExportedMeaning
    <3>2. QED
      BY <3>1 DEF MadeOf, Fields
  <2>2. PartValue(j, "arrays") = [k \in DOMAIN j.arrays |-> read(j.arrays[k])]
    BY DEF PartValue
  <2>3. DOMAIN M = Fields /\ M = [f \in Fields |-> M[f]]
    BY DEF Meaning, Fields
  <2>4. QED
    BY <2>1, <2>2, <2>3
<1>5. PartValue(D, "arrays") = [k \in DOMAIN D.arrays |-> read(D.arrays[k])]
  BY DEF PartValue
<1>6. \A a : /\ read(a).name = a.name /\ read(a).mem_type = string_to_MemType[a.type]
             /\ read(a).shape = Shape(a)
             /\ read(a) = [f \in {"name", "mem_type", "shape"} |-> read(a)[f]]
  OBVIOUS
<1>7. /\ D.name = S.name /\ D.context = S.context /\ D.dependences = S.dependences
      /\ D.statements = j.statements /\ D.arrays = FirstOf(j.arrays, d)
  BY <1>2, <1>3 DEF Fields
<1> HIDE DEF j, D, M
<1>8. [k \in DOMAIN D.arrays |-> read(D.arrays[k])] = FirstAsScalar(M.arrays)
  <2>1. CASE j.arrays = <<>>
    <3>1. D.arrays = <<>> /\ M.arrays = <<>>
      BY <1>4, <1>7, <2>1 DEF FirstOf
    <3>2. QED
      BY <3>1 DEF FirstAsScalar
  <2>2. CASE j.arrays # <<>>
    <3> DEFINE a == j.arrays[1]
               h == Hurt(a, d)
    <3>1. 1 \in DOMAIN j.arrays /\ D.arrays = [j.arrays EXCEPT ![1] = h]
      BY <1>3, <1>7, <2>2 DEF FirstOf
    <3>2. h.name = a.name /\ h.type = a.type /\ ~Has(h, "sizes")
      <4>1. DOMAIN a = {"name", "sizes", "type"}
        BY <1>3, <3>1
      <4>2. h = Restrict(a, DOMAIN a \ {"sizes"})
        BY <1>2
      <4> HIDE DEF a, h
      <4>3. h = [f \in {"name", "type"} |-> a[f]]
        BY <4>1, <4>2 DEF Restrict
      <4>4. QED
        BY <4>3 DEF Has
    <3> HIDE DEF h, a
    <3>3. Shape(h) = <<>>
      BY <3>2 DEF Shape
    <3>4. read(h) = [read(a) EXCEPT !.shape = <<>>]
      BY <3>2, <3>3
    <3>5. M.arrays # <<>>
      BY <1>4, <3>1
    <3>6. FirstAsScalar(M.arrays) = [M.arrays EXCEPT ![1].shape = <<>>]
      BY <3>5 DEF FirstAsScalar
    <3> HIDE DEF read
    <3>7. FirstAsScalar(M.arrays) = [M.arrays EXCEPT ![1] = read(h)]
      BY <1>4, <3>1, <3>4, <3>6 DEF a
    <3>8. QED
      BY <1>4, <3>1, <3>7
  <2>3. QED
    BY <2>1, <2>2
<1>9. /\ PartValue(D, "name") = M.name /\ PartValue(D, "context") = M.context
      /\ PartValue(D, "statements") = M.statements
      /\ PartValue(D, "dependences") = M.dependences
  BY <1>7, OtherValues, StatementsValue DEF j, M
<1>10. \A f \in Fields : PartValue(D, f) =
         IF f = "arrays" THEN FirstAsScalar(M.arrays) ELSE M[f]
  BY <1>5, <1>8, <1>9 DEF Fields
<1>11. Flattened(M) = [f \in Fields |-> IF f = "arrays" THEN FirstAsScalar(M.arrays) ELSE M[f]]
  BY <1>4 DEF Flattened
<1>12. QED
  BY <1>10, <1>11 DEF MadeOf, D, M, j

\* The text of another statement is read in the one place that it was put.
LEMMA ForeignStatement ==
  ASSUME NEW S \in Scops, NEW k \in DOMAIN S.statements,
         NEW d \in Damages, d.how = "foreign"
  PROVE  LET e == exportStatement(S.statements[k])
             h == IF d.place = "access" THEN HurtAccess(e, d) ELSE Hurt(e, d)
         IN  StatementOf(h) = AsForeign(MeaningOf(S.statements[k]), d.field)
<1> DEFINE st == S.statements[k]
           e == exportStatement(st)
           m == MeaningOf(st)
           h == IF d.place = "access" THEN HurtAccess(e, d) ELSE Hurt(e, d)
<1>1. /\ e = [name |-> st.name, domain |-> <<st.name>>, schedule |-> <<st.name>>,
              accesses |-> e.accesses]
      /\ DOMAIN e.accesses = DOMAIN st.accesses
      /\ \A i \in DOMAIN st.accesses :
           e.accesses[i] = [kind |-> st.accesses[i].kind,
                            relation |-> <<st.name, st.accesses[i].array>>]
  BY DEF exportStatement
<1>2. /\ m = [name |-> st.name, schedule |-> st.name, mem_accs |-> m.mem_accs]
      /\ m.mem_accs = [i \in DOMAIN e.accesses |-> MemoryAccessOf(e.accesses[i])]
  <2>1. StatementOf(e) = m
    BY StatementOfExported
  <2>2. m = [name |-> st.name, schedule |-> st.name, mem_accs |-> m.mem_accs]
    BY DEF MeaningOf
  <2>3. StatementOf(e).mem_accs = [i \in DOMAIN e.accesses |-> MemoryAccessOf(e.accesses[i])]
    BY DEF StatementOf
  <2>4. QED
    BY <2>1, <2>2, <2>3
<1>3. IsList(st.accesses)
  BY ScopAssumption
<1> HIDE DEF e, m, st
<1>4. CASE d.place = "statement" /\ d.field = "domain"
  <2>1. h = [e EXCEPT !.domain = [@ EXCEPT ![1] = "foreign"]]
    BY <1>4 DEF Hurt
  <2>2. h.domain[1] = "foreign" /\ h.schedule[1] = st.name /\ h.accesses = e.accesses
    BY <1>1, <2>1
  <2> HIDE DEF h
  <2>3. StatementOf(h) =
          [name |-> "foreign", schedule |-> st.name, mem_accs |-> m.mem_accs]
    BY <1>2, <2>2 DEF StatementOf
  <2>4. AsForeign(m, "domain") = [m EXCEPT !.name = "foreign"]
    BY DEF AsForeign
  <2>5. QED
    BY <1>2, <1>4, <2>3, <2>4 DEF h, e, m, st
<1>5. CASE d.place = "statement" /\ d.field = "schedule"
  <2>1. h = [e EXCEPT !.schedule = [@ EXCEPT ![1] = "foreign"]]
    BY <1>5 DEF Hurt
  <2>2. h.domain[1] = st.name /\ h.schedule[1] = "foreign" /\ h.accesses = e.accesses
    BY <1>1, <2>1
  <2> HIDE DEF h
  <2>3. StatementOf(h) =
          [name |-> st.name, schedule |-> "foreign", mem_accs |-> m.mem_accs]
    BY <1>2, <2>2 DEF StatementOf
  <2>4. AsForeign(m, "schedule") = [m EXCEPT !.schedule = "foreign"]
    BY DEF AsForeign
  <2>5. QED
    BY <1>2, <1>5, <2>3, <2>4 DEF h, e, m, st
<1>6. CASE d.place = "access" /\ d.field = "relation"
  <2> DEFINE accs == [i \in DOMAIN h.accesses |-> MemoryAccessOf(h.accesses[i])]
  <2>1. h = [e EXCEPT !.accesses = FirstOf(@, d)]
    BY <1>6 DEF HurtAccess
  <2>2. /\ h.domain[1] = st.name /\ h.schedule[1] = st.name
        /\ h.accesses = FirstOf(e.accesses, d)
    BY <1>1, <2>1
  <2> HIDE DEF h
  <2>3. StatementOf(h) = [name |-> st.name, schedule |-> st.name, mem_accs |-> accs]
    BY <2>2 DEF StatementOf
  <2>4. AsForeign(m, "relation") = [m EXCEPT !.mem_accs = AccessAsForeign(@)]
    BY DEF AsForeign
  <2>5. accs = AccessAsForeign(m.mem_accs)
    <3>1. CASE e.accesses = <<>>
      <4>1. h.accesses = e.accesses
        BY <2>2, <3>1 DEF FirstOf
      <4>2. accs = m.mem_accs
        BY <1>2, <4>1
      <4>3. m.mem_accs = <<>>
        BY <1>2, <3>1
      <4>4. QED
        BY <4>2, <4>3 DEF AccessAsForeign
    <3>2. CASE e.accesses # <<>>
      <4> DEFINE acc == e.accesses[1]
                 bad == [acc EXCEPT !.relation = [@ EXCEPT ![1] = "foreign"]]
      <4>1. /\ 1 \in DOMAIN e.accesses
            /\ acc = [kind |-> st.accesses[1].kind,
                      relation |-> <<st.name, st.accesses[1].array>>]
        <5>1. 1 \in DOMAIN e.accesses
          <6>1. e.accesses = [i \in DOMAIN st.accesses |-> e.accesses[i]]
            BY <1>1 DEF e, exportStatement
          <6>2. st.accesses # <<>>
            BY <1>3, <3>2, <6>1, ListIsFunction
          <6>3. QED
            BY <1>1, <1>3, <6>2, ListIsFunction
        <5>2. QED
          BY <1>1, <5>1
      <4>2. Hurt(acc, d) = bad
        BY <1>6 DEF Hurt
      <4>3. h.accesses = [e.accesses EXCEPT ![1] = bad]
        BY <2>2, <3>2, <4>2 DEF FirstOf
      <4>4. MemoryAccessOf(bad) = [MemoryAccessOf(acc) EXCEPT !.statement = "foreign"]
        BY <4>1 DEF MemoryAccessOf
      <4> HIDE DEF acc, bad
      <4>5. m.mem_accs # <<>> /\ m.mem_accs[1] = MemoryAccessOf(acc)
        BY <1>2, <4>1 DEF acc
      <4>6. AccessAsForeign(m.mem_accs) = [m.mem_accs EXCEPT ![1] = MemoryAccessOf(bad)]
        BY <4>4, <4>5 DEF AccessAsForeign
      <4>7. accs = [m.mem_accs EXCEPT ![1] = MemoryAccessOf(bad)]
        BY <1>2, <4>1, <4>3
      <4>8. QED
        BY <4>6, <4>7
    <3>3. QED
      BY <3>1, <3>2
  <2> HIDE DEF accs
  <2>6. QED
    BY <1>2, <1>6, <2>3, <2>4, <2>5 DEF h, e, m, st
<1>7. QED
  BY <1>4, <1>5, <1>6, UnnoticedCases

\* A build without assertions reads that text, and nothing else changes.
LEMMA MisattributedMeaning ==
  ASSUME NEW S \in Scops, NEW d \in Damages, d.how = "foreign"
  PROVE  MadeOf(Damaged(getJson(S), d)) =
           [Meaning(S) EXCEPT !.statements = FirstAsForeign(@, d.field)]
<1> DEFINE j == getJson(S)
           D == Damaged(j, d)
           M == Meaning(S)
           hurt(st) == IF d.place = "access" THEN HurtAccess(st, d) ELSE Hurt(st, d)
<1>1. /\ D = [j EXCEPT !.statements = D.statements]
      /\ D.statements = IF j.statements = <<>> THEN j.statements
                        ELSE [j.statements EXCEPT ![1] = hurt(@)]
  <2>1. DOMAIN j = Fields /\ d.place \in {"statement", "access"}
    BY Exported, UnnoticedCases
  <2> HIDE DEF j
  <2>2. D = [j EXCEPT !.statements = IF j.statements = <<>> THEN j.statements
                                     ELSE [j.statements EXCEPT ![1] = hurt(@)]]
    BY <2>1 DEF Damaged, FirstOf, FirstAccessOf
  <2>3. QED
    BY <2>1, <2>2 DEF Fields
<1>2. /\ j.name = S.name /\ j.context = S.context /\ j.dependences = S.dependences
      /\ DOMAIN j.statements = DOMAIN S.statements
      /\ \A k \in DOMAIN S.statements : j.statements[k] = exportStatement(S.statements[k])
      /\ DOMAIN j = Fields
      /\ j.statements # <<>> => 1 \in DOMAIN j.statements
  BY Exported DEF getJson
<1>3. /\ M = [f \in Fields |-> M[f]]
      /\ M.statements = [k \in DOMAIN S.statements |-> MeaningOf(S.statements[k])]
  BY DEF Meaning, Fields
<1>4. \A k \in DOMAIN S.statements :
        /\ StatementOf(exportStatement(S.statements[k])) = MeaningOf(S.statements[k])
        /\ StatementOf(hurt(exportStatement(S.statements[k]))) =
             AsForeign(MeaningOf(S.statements[k]), d.field)
  BY ForeignStatement, StatementOfExported
<1>5. MadeOf(j) = M
  BY ExportedMeaning
<1> HIDE DEF j, D, M, hurt
<1>6. /\ D.name = S.name /\ D.context = S.context /\ D.dependences = S.dependences
      /\ D.arrays = j.arrays
  <2>1. \A f \in Fields \ {"statements"} : D[f] = j[f]
    BY <1>1, <1>2
  <2>2. QED
    BY <1>2, <2>1 DEF Fields
<1>7. PartValue(D, "statements") = FirstAsForeign(M.statements, d.field)
  <2>1. PartValue(D, "statements") =
          [k \in DOMAIN D.statements |-> StatementOf(D.statements[k])]
    BY DEF PartValue
  <2>2. CASE j.statements = <<>>
    <3>1. M.statements = <<>>
      <4>1. DOMAIN S.statements = {}
        BY <1>2, <2>2
      <4>2. QED
        BY <1>3, <4>1
    <3>2. PartValue(D, "statements") = <<>>
      BY <1>1, <2>1, <2>2
    <3>3. QED
      BY <3>1, <3>2 DEF FirstAsForeign
  <2>3. CASE j.statements # <<>>
    <3>1. /\ 1 \in DOMAIN S.statements
          /\ D.statements = [j.statements EXCEPT ![1] = hurt(j.statements[1])]
      BY <1>1, <1>2, <2>3
    <3>2. M.statements # <<>> /\ M.statements[1] = MeaningOf(S.statements[1])
      BY <1>3, <3>1
    <3>3. StatementOf(hurt(j.statements[1])) = AsForeign(M.statements[1], d.field)
      BY <1>2, <1>4, <3>1, <3>2
    <3>4. PartValue(D, "statements") =
            [M.statements EXCEPT ![1] = StatementOf(hurt(j.statements[1]))]
      BY <1>2, <1>3, <1>4, <2>1, <3>1
    <3>5. FirstAsForeign(M.statements, d.field) =
            [M.statements EXCEPT ![1] = AsForeign(M.statements[1], d.field)]
      BY <3>2 DEF FirstAsForeign
    <3>6. QED
      BY <3>3, <3>4, <3>5
  <2>4. QED
    BY <2>2, <2>3
<1>8. PartValue(D, "arrays") = M.arrays
  <2>1. PartValue(j, "arrays") = M.arrays
    BY <1>5 DEF MadeOf, Fields
  <2>2. PartValue(D, "arrays") = PartValue(j, "arrays")
    BY <1>6 DEF PartValue
  <2>3. QED
    BY <2>1, <2>2
<1>9. \A f \in Fields : PartValue(D, f) =
        IF f = "statements" THEN FirstAsForeign(M.statements, d.field) ELSE M[f]
  BY <1>6, <1>7, <1>8, OtherValues DEF Fields, M
<1>10. QED
  BY <1>3, <1>9 DEF MadeOf, D, M, j

\* What has been read so far.
ReadInv ==
  /\ assertions \in BOOLEAN
  /\ source \in Scops /\ damage \in Damages
  /\ doc = Damaged(getJson(source), damage)
  /\ todo \in Seq(Fields)
  /\ \A f \in Fields : f \in DOMAIN made \/ \E i \in 1 .. Len(todo) : todo[i] = f
  /\ made = [f \in DOMAIN made |-> PartValue(doc, f)]
  /\ \A f \in DOMAIN made : f \in Fields /\ PartEnd(doc, f) = "ok"
  /\ outcome = "scop" => todo = <<>>

\* Every part that is read adds its value to the ones before.
LEMMA ReadStep ==
  ASSUME ReadInv, FrameInv, [Next]_vars
  PROVE  ReadInv'
<1>1. UNCHANGED <<assertions, source, damage, doc>>
  BY DEF Next, Parse, ParseFails, ReturnScop, DestroyLocal, vars
<1>2. \A f : PartEnd(doc, f)' = PartEnd(doc, f)
  BY <1>1, SameEnds
<1>3. CASE Parse
  <2> DEFINE f0 == Head(todo)
  <2>1. /\ outcome = "none" /\ todo # <<>> /\ todo' = Tail(todo)
        /\ PartEnd(doc, f0) = "ok"
        /\ made' = [f \in DOMAIN made \cup {f0} |->
                      IF f = f0 THEN PartValue(doc, f) ELSE made[f]]
        /\ UNCHANGED <<source, damage, doc, outcome>>
    BY <1>3 DEF Parse
  <2>2. /\ f0 \in Fields /\ todo' \in Seq(Fields)
        /\ Len(todo) \in Nat \ {0} /\ Len(todo') = Len(todo) - 1
        /\ \A i \in 1 .. Len(todo') : todo'[i] = todo[i + 1]
        /\ f0 = todo[1]
    BY <2>1, HeadTailProperties DEF ReadInv
  <2> HIDE DEF f0
  <2>3. \A f \in Fields : f \in DOMAIN made' \/ \E i \in 1 .. Len(todo') : todo'[i] = f
    <3>1. SUFFICES ASSUME NEW f \in Fields, f \notin DOMAIN made'
                   PROVE  \E i \in 1 .. Len(todo') : todo'[i] = f
      OBVIOUS
    <3>2. f \notin DOMAIN made /\ f # f0
      BY <2>1, <3>1
    <3>3. PICK i \in 1 .. Len(todo) : todo[i] = f
      BY <3>2 DEF ReadInv
    <3>4. i - 1 \in 1 .. Len(todo') /\ todo'[i - 1] = f
      BY <2>2, <3>2, <3>3
    <3>5. QED
      BY <3>4
  <2>4. /\ DOMAIN made' = DOMAIN made \cup {f0}
        /\ made' = [f \in DOMAIN made' |-> PartValue(doc, f)]
    BY <2>1 DEF ReadInv
  <2>5. QED
    BY <1>1, <1>2, <2>1, <2>2, <2>3, <2>4 DEF ReadInv
<1>4. CASE ParseFails
  <2>1. outcome' # "scop"
    BY <1>4, HeadIsField, PartEnds DEF ParseFails, FrameInv, Ends
  <2>2. QED
    BY <1>1, <1>2, <1>4, <2>1 DEF ParseFails, ReadInv
<1>5. CASE ReturnScop
  BY <1>1, <1>2, <1>5 DEF ReturnScop, ReadInv
<1>6. CASE DestroyLocal
  BY <1>1, <1>2, <1>6 DEF DestroyLocal, ReadInv
<1>7. CASE UNCHANGED vars
  BY <1>1, <1>2, <1>7 DEF vars, ReadInv
<1>8. QED
  BY <1>3, <1>4, <1>5, <1>6, <1>7 DEF Next

\* For any file: what has been made is what the parts read so far say, and all of
\* them passed; the inductive invariant of RoundTrip.
THEOREM ReadCorrect == UseSpec => []ReadInv
<1>1. UseInit => ReadInv
  <2>1. Init => todo \in Seq(Fields)
          /\ \A f \in Fields : \E i \in 1 .. Len(todo) : todo[i] = f
    BY DEF Init, Parts, Fields
  <2>2. Init => made = [f \in DOMAIN made |-> PartValue(doc, f)] /\ DOMAIN made = {}
    BY DEF Init
  <2>3. QED
    BY <2>1, <2>2 DEF UseInit, Init, ReadInv
<1>2. ReadInv /\ FrameInv /\ [UseNext]_<<vars, scops, heap, careless>> => ReadInv'
  <2>1. ASSUME [UseNext]_<<vars, scops, heap, careless>> PROVE [Next]_vars
    BY <2>1 DEF UseNext, Receive, ReceiveEarlier
  <2>2. QED
    BY <2>1, ReadStep
<1>3. QED
  BY <1>1, <1>2, FrameCorrect, PTL DEF UseSpec

\* Whatever Polly hands over and whatever is done to a field of the file, a
\* Scop that is imported means what the SCoP meant, but for the two losses that
\* nothing notices: an array without its sizes is a scalar, and in a build
\* without assertions the text of another statement stays where it was put.
THEOREM RoundTripCorrect == UseSpec => []RoundTrip
<1>1. ASSUME ReadInv, outcome = "scop"
      PROVE  made = MadeOf(doc) /\ AllPassed(doc)
  <2>1. todo = <<>> /\ 1 .. Len(todo) = {}
    BY <1>1 DEF ReadInv
  <2>2. DOMAIN made = Fields
    BY <1>1, <2>1 DEF ReadInv
  <2>3. QED
    BY <1>1, <2>2 DEF ReadInv, MadeOf, AllPassed
<1>2. ASSUME ReadInv, outcome = "scop", ~SizesLost, ForeignText => assertions
      PROVE  made = Meaning(source)
  <2>1. doc = getJson(source)
    BY <1>1, <1>2, DamageNoticed DEF ReadInv, SizesLost, ForeignText
  <2>2. QED
    BY <1>1, <1>2, <2>1, ExportedMeaning DEF ReadInv
<1>3. ASSUME ReadInv, outcome = "scop", SizesLost
      PROVE  made = Flattened(Meaning(source))
  BY <1>1, <1>3, FlattenedMeaning DEF ReadInv, SizesLost
<1>4. ASSUME ReadInv, outcome = "scop", ForeignText
      PROVE  made = Misattributed(Meaning(source))
  BY <1>1, <1>4, MisattributedMeaning DEF ReadInv, ForeignText, Misattributed
<1>5. ReadInv => RoundTrip
  BY <1>2, <1>3, <1>4 DEF RoundTrip
<1>6. QED
  BY <1>5, ReadCorrect, PTL

-----------------------------------------------------------------------------
(* Types.                                                                  *)

Frame == <<"ctxt">> \o Parts

\* The parts before i have been read, and their locals are declared.
TypeInv ==
  \E i \in 1 .. 6 :
    /\ todo = SubSeq(Parts, i, 5)
    /\ DOMAIN made = {Parts[k] : k \in 1 .. i - 1}
    /\ outcome = "none" => locals = SubSeq(Frame, 1, i)
    /\ \E n \in 0 .. 6 : locals = SubSeq(Frame, 1, n)

\* The parts of the file and the locals of the frame, in order.
LEMMA FrameFacts ==
  /\ Parts \in Seq(Fields) /\ Len(Parts) = 5
  /\ Frame \in Seq(Locals) /\ Len(Frame) = 6
  /\ \A i \in 1 .. 5 : Frame[i + 1] = Parts[i] /\ Parts[i] \in Fields
  /\ \A i \in 1 .. 6 : Frame[i] \in Locals
<1>1. Parts \in Seq(Fields) /\ Len(Parts) = 5
  BY DEF Parts, Fields
<1>2. <<"ctxt">> \in Seq(Locals) /\ Parts \in Seq(Locals)
  BY DEF Parts, Fields, Locals
<1>3. /\ Frame \in Seq(Locals)
      /\ Len(Frame) = Len(<<"ctxt">>) + Len(Parts)
      /\ \A i \in 1 .. Len(<<"ctxt">>) + Len(Parts) :
           Frame[i] = IF i <= Len(<<"ctxt">>) THEN <<"ctxt">>[i]
                      ELSE Parts[i - Len(<<"ctxt">>)]
  <2> HIDE <1>1
  <2>1. QED
    BY <1>2, ConcatProperties DEF Frame
<1>4. Len(<<"ctxt">>) = 1
  OBVIOUS
<1>5. Len(Frame) = 6 /\ \A i \in 1 .. 5 : Frame[i + 1] = Parts[i]
  <2>1. \A i \in 1 .. 5 : i + 1 \in 1 .. 6 /\ ~(i + 1 <= 1) /\ i + 1 - 1 = i
    OBVIOUS
  <2>2. QED
    BY <1>1, <1>3, <1>4, <2>1
<1>6. \A i \in 1 .. 6 : Frame[i] \in Locals
  BY <1>3, <1>5, ElementOfSeq
<1>7. \A i \in 1 .. 5 : Parts[i] \in Fields
  BY <1>1, ElementOfSeq
<1>8. QED
  BY <1>1, <1>3, <1>5, <1>6, <1>7

\* Reading a part shortens the list of those to come by its head.
LEMMA NextPart ==
  ASSUME NEW i \in 1 .. 5
  PROVE  /\ Head(SubSeq(Parts, i, 5)) = Parts[i]
         /\ Tail(SubSeq(Parts, i, 5)) = SubSeq(Parts, i + 1, 5)
         /\ Append(SubSeq(Frame, 1, i), Parts[i]) = SubSeq(Frame, 1, i + 1)
<1>1. /\ Head(SubSeq(Parts, i, 5)) = Parts[i]
      /\ Tail(SubSeq(Parts, i, 5)) = SubSeq(Parts, i + 1, 5)
  BY FrameFacts, HeadTailOfSubSeq
<1>2. SubSeq(Frame, 1, i + 1) = SubSeq(Frame, 1, i + 1 - 1) \o <<Frame[i + 1]>>
  BY FrameFacts, SubSeqRecursiveSecond
<1>3. i + 1 - 1 = i
  OBVIOUS
<1>4. SubSeq(Frame, 1, i) \in Seq(Locals) /\ Frame[i + 1] \in Locals
  <2>1. 1 \in Int /\ i \in Int /\ \A k \in 1 .. i : Frame[k] \in Locals
    BY FrameFacts
  <2>2. QED
    BY <2>1, FrameFacts, SubSeqProperties
<1>5. Append(SubSeq(Frame, 1, i), Frame[i + 1]) = SubSeq(Frame, 1, i) \o <<Frame[i + 1]>>
  BY <1>4, AppendIsConcat
<1>6. QED
  BY <1>1, <1>2, <1>3, <1>5, FrameFacts

\* Every step of from_scopson advances in that order.
LEMMA TypeStep ==
  ASSUME TypeInv, FrameInv, [Next]_vars
  PROVE  TypeInv'
<1> PICK i \in 1 .. 6 : /\ todo = SubSeq(Parts, i, 5)
                        /\ DOMAIN made = {Parts[k] : k \in 1 .. i - 1}
                        /\ outcome = "none" => locals = SubSeq(Frame, 1, i)
                        /\ \E n \in 0 .. 6 : locals = SubSeq(Frame, 1, n)
  BY DEF TypeInv
<1>1. todo # <<>> => i \in 1 .. 5
  BY FrameFacts, SubSeqEmpty
<1>2. CASE Parse
  <2>1. i \in 1 .. 5 /\ i + 1 \in 1 .. 6
    BY <1>1, <1>2 DEF Parse
  <2>2. todo' = SubSeq(Parts, i + 1, 5) /\ locals' = SubSeq(Frame, 1, i + 1)
    BY <1>2, <2>1, NextPart DEF Parse
  <2>3. DOMAIN made' = {Parts[k] : k \in 1 .. i + 1 - 1}
    <3>1. DOMAIN made' = DOMAIN made \cup {Parts[i]}
      BY <1>2, <2>1, NextPart DEF Parse
    <3>2. 1 .. i + 1 - 1 = (1 .. i - 1) \cup {i}
      BY <2>1
    <3>3. QED
      BY <3>1, <3>2
  <2>4. outcome' = "none"
    BY <1>2 DEF Parse
  <2>5. i + 1 \in 0 .. 6
    BY <2>1
  <2> DEFINE n == i + 1
  <2>6. /\ todo' = SubSeq(Parts, n, 5) /\ locals' = SubSeq(Frame, 1, n)
        /\ DOMAIN made' = {Parts[k] : k \in 1 .. n - 1}
        /\ n \in 1 .. 6 /\ n \in 0 .. 6
    BY <2>1, <2>2, <2>3, <2>5
  <2> HIDE DEF n
  <2>7. QED
    BY <2>4, <2>6 DEF TypeInv
<1>3. CASE ParseFails
  <2>1. i \in 1 .. 5 /\ i + 1 \in 0 .. 6
    BY <1>1, <1>3 DEF ParseFails
  <2>2. locals' = SubSeq(Frame, 1, i + 1)
    BY <1>3, <2>1, NextPart DEF ParseFails
  <2>3. outcome' # "none"
    BY <1>3, HeadIsField, PartEnds DEF ParseFails, FrameInv, Ends
  <2>4. todo' = todo /\ made' = made
    BY <1>3 DEF ParseFails
  <2>5. QED
    BY <2>1, <2>2, <2>3, <2>4 DEF TypeInv
<1>4. CASE ReturnScop
  <2>1. outcome' = "scop" /\ todo' = todo /\ made' = made /\ locals' = locals
    BY <1>4 DEF ReturnScop
  <2>2. QED
    BY <2>1 DEF TypeInv
<1>5. CASE DestroyLocal
  <2>1. PICK n \in 0 .. 6 : locals = SubSeq(Frame, 1, n)
    OBVIOUS
  <2>2. /\ \A k \in 1 .. n : Frame[k] \in Locals
        /\ SubSeq(Frame, 1, n) \in Seq(Locals)
        /\ Len(SubSeq(Frame, 1, n)) = n
    <3>1. 1 \in Int /\ n \in Int /\ \A k \in 1 .. n : Frame[k] \in Locals
      BY FrameFacts
    <3>2. /\ SubSeq(Frame, 1, n) \in Seq(Locals)
          /\ Len(SubSeq(Frame, 1, n)) = IF 1 <= n THEN n - 1 + 1 ELSE 0
      BY <3>1, SubSeqProperties
    <3>3. (IF 1 <= n THEN n - 1 + 1 ELSE 0) = n
      OBVIOUS
    <3>4. QED
      BY <3>1, <3>2, <3>3
  <2>3. n \in 1 .. 6 /\ locals' = SubSeq(SubSeq(Frame, 1, n), 1, n - 1)
    BY <1>5, <2>1, <2>2 DEF DestroyLocal
  <2>4. SubSeq(SubSeq(Frame, 1, n), 1, n - 1) = SubSeq(Frame, 1, n - 1)
    <3>1. CASE n = 1
      BY <2>2, <3>1, FrameFacts, SubSeqEmpty
    <3>2. CASE n # 1
      <4>1. SubSeq(Frame, 1, n) = SubSeq(Frame, 1, n - 1) \o <<Frame[n]>>
        BY <2>3, FrameFacts, SubSeqRecursiveSecond
      <4>2. /\ SubSeq(Frame, 1, n - 1) \in Seq(Locals)
            /\ Len(SubSeq(Frame, 1, n - 1)) = n - 1
            /\ <<Frame[n]>> \in Seq(Locals)
        BY <2>2, <2>3, <3>2, FrameFacts, SubSeqProperties
      <4> DEFINE s == SubSeq(Frame, 1, n - 1)
                 t == <<Frame[n]>>
      <4>3. SubSeq(s \o t, 1, n - 1) = SubSeq(s, 1, n - 1)
        <5> HIDE DEF s, t
        <5>1. 1 \in 1 .. Len(s) /\ n - 1 \in 1 .. Len(s)
          BY <2>3, <3>2, <4>2 DEF s
        <5>2. QED
          BY <4>2, <5>1, SubSeqOfConcat1 DEF s, t
      <4>4. SubSeq(s, 1, Len(s)) = s
        BY <4>2, SubSeqFull
      <4>5. QED
        BY <4>1, <4>2, <4>3, <4>4
    <3>3. QED
      BY <3>1, <3>2
  <2>5. n - 1 \in 0 .. 6
    BY <2>3
  <2>6. outcome' # "none" /\ todo' = todo /\ made' = made
    BY <1>5 DEF DestroyLocal
  <2>7. QED
    BY <2>3, <2>4, <2>5, <2>6 DEF TypeInv
<1>6. CASE UNCHANGED vars
  BY <1>6 DEF vars, TypeInv
<1>7. QED
  BY <1>2, <1>3, <1>4, <1>5, <1>6 DEF Next

\* The types are those the invariants give.
LEMMA TypeImplied ==
  ASSUME TypeInv, FrameInv, ReadInv
  PROVE  TypeOK
<1> PICK i \in 1 .. 6 : /\ todo = SubSeq(Parts, i, 5)
                        /\ DOMAIN made = {Parts[k] : k \in 1 .. i - 1}
                        /\ \E n \in 0 .. 6 : locals = SubSeq(Frame, 1, n)
  BY DEF TypeInv
<1>1. \A k \in i .. 5 : Parts[k] \in Fields
  <2>1. \A k \in 1 .. 5 : Parts[k] \in Fields
    BY FrameFacts
  <2>2. \A k \in i .. 5 : k \in 1 .. 5
    OBVIOUS
  <2>3. QED
    BY <2>1, <2>2
<1>2. Len(SubSeq(Parts, i, 5)) = IF i <= 5 THEN 5 - i + 1 ELSE 0
  BY <1>1, SubSeqProperties
<1>3. Len(Parts) = 5 /\ Len(Parts) - Len(todo) = i - 1
  <2>1. Len(todo) = IF i <= 5 THEN 5 - i + 1 ELSE 0
    BY <1>2
  <2>2. Len(Parts) = 5
    BY FrameFacts
  <2>3. QED
    BY <2>1, <2>2
<1>4. todo \in {SubSeq(Parts, k, Len(Parts)) : k \in 1 .. Len(Parts) + 1}
  <2>1. todo = SubSeq(Parts, i, Len(Parts)) /\ Len(Parts) + 1 = 6
    BY <1>3
  <2>2. QED
    BY <2>1
<1>5. locals \in {SubSeq(<<"ctxt">> \o Parts, 1, k) : k \in 0 .. Len(Parts) + 1}
  <2>1. Len(Parts) + 1 = 6
    BY <1>3
  <2>2. \E n \in 0 .. 6 : locals = SubSeq(<<"ctxt">> \o Parts, 1, n)
    BY DEF Frame
  <2>3. QED
    BY <2>1, <2>2
<1>6. QED
  BY <1>3, <1>4, <1>5 DEF TypeOK, FrameInv, ReadInv, Ends

\* from_scopson declares its locals in the order of its parts.
THEOREM TypeCorrect == UseSpec => []TypeOK
<1>1. UseInit => TypeInv
  <2>1. SubSeq(Parts, 1, 5) = Parts
    BY FrameFacts, SubSeqFull
  <2>2. SubSeq(Frame, 1, 1) = <<"ctxt">>
    <3>1. <<"ctxt">> \in Seq(Locals) /\ Parts \in Seq(Locals)
      BY DEF Parts, Fields, Locals
    <3>2. SubSeq(Frame, 1, 1) = SubSeq(<<"ctxt">>, 1, 1)
      BY <3>1, SubSeqOfConcat1 DEF Frame
    <3>3. SubSeq(<<"ctxt">>, 1, 1) = <<"ctxt">>
      BY <3>1, SubSeqFull
    <3>4. QED
      BY <3>2, <3>3
  <2>3. UseInit => /\ todo = SubSeq(Parts, 1, 5) /\ DOMAIN made = {}
                   /\ locals = SubSeq(Frame, 1, 1)
    BY <2>1, <2>2 DEF UseInit, Init
  <2>4. {Parts[k] : k \in 1 .. 1 - 1} = {} /\ 1 \in 1 .. 6 /\ 1 \in 0 .. 6
    OBVIOUS
  <2>5. QED
    BY <2>3, <2>4 DEF TypeInv
<1>2. TypeInv /\ FrameInv /\ [UseNext]_<<vars, scops, heap, careless>> => TypeInv'
  <2>1. ASSUME [UseNext]_<<vars, scops, heap, careless>> PROVE [Next]_vars
    BY <2>1 DEF UseNext, Receive, ReceiveEarlier
  <2>2. QED
    BY <2>1, TypeStep
<1>3. QED
  BY <1>1, <1>2, TypeImplied, FrameCorrect, ReadCorrect, PTL DEF UseSpec
-----------------------------------------------------------------------------
(* Damage is reported.                                                      *)

\* A loop over elements that are ok or end in one way ends so itself.
LEMMA LoopEndsSo ==
  ASSUME NEW ends, DOMAIN ends \subseteq Nat, NEW e,
         \A i \in DOMAIN ends : ends[i] \in {"ok", e}
  PROVE  LoopEnd(ends) \in {"ok", e}
BY LoopEnds

\* The arrays of a SCoP that both sides agree on are read.
LEMMA ArrayEnd ==
  ASSUME NEW S \in Scops, Importable(S), NEW k \in DOMAIN S.arrays
  PROVE  memRefEnd(exportArrays(S)[k]) = "ok"
<1> DEFINE a == S.arrays[k]
           e == exportSizes(a)
           r == exportArrays(S)[k]
<1>1. r = [name |-> a.name, sizes |-> e, type |-> a.type]
  BY DEF exportArrays
<1>2. /\ Has(r, "name") /\ Has(r, "type") /\ r.sizes = e
      /\ r.type \in DOMAIN string_to_MemType
  BY <1>1 DEF Has, Importable
<1>3. \A i \in DOMAIN e : e[i] = Star \/ stoi_ok(e[i])
  <2>1. CASE ~a.isArrayKind
    BY <2>1 DEF exportSizes
  <2>2. CASE a.isArrayKind
    <3>1. /\ DOMAIN e = 1 .. Len(a.dims)
          /\ \A i \in 1 .. Len(a.dims) :
               e[i] = IF i = 1 /\ a.dims[1] = Unknown THEN Star ELSE a.dims[i]
      BY <2>2, SizesOfExported
    <3>2. DOMAIN a.dims = 1 .. Len(a.dims)
      <4>1. a.dims \in Seq(Range(a.dims))
        BY <2>2, ScopAssumption DEF IsList
      <4> HIDE DEF a
      <4>2. QED
        BY <4>1
    <3>3. \A i \in DOMAIN a.dims : a.dims[i] = Unknown => i = 1
      BY <2>2, ScopAssumption
    <3>4. \A i \in DOMAIN a.dims : a.dims[i] = Unknown \/ stoi_ok(a.dims[i])
      BY <2>2 DEF Importable
    <3> HIDE DEF e, a
    <3>5. QED
      BY <3>1, <3>3, <3>4, <3>2
  <2>3. QED
    BY <2>1, <2>2
<1> HIDE DEF r, e
<1>4. QED
  BY <1>2, <1>3 DEF memRefEnd, r

\* The statements of any SCoP are read.
LEMMA StatementEnd ==
  ASSUME NEW S \in Scops, NEW k \in DOMAIN S.statements
  PROVE  LET st == exportStatement(S.statements[k])
         IN  /\ statementEnd(st) = "ok"
             /\ st.domain = <<S.statements[k].name>>
             /\ st.schedule = <<S.statements[k].name>>
             /\ \A i \in DOMAIN st.accesses :
                  /\ accessEnd(st.accesses[i]) = "ok"
                  /\ st.accesses[i].relation[1] = S.statements[k].name
<1> DEFINE from == S.statements[k]
           st == exportStatement(from)
           ends == [i \in DOMAIN st.accesses |-> accessEnd(st.accesses[i])]
<1>1. /\ IsList(from.accesses)
      /\ \A i \in DOMAIN from.accesses : from.accesses[i].kind \in {"read", "write"}
  BY ScopAssumption
<1> HIDE DEF from
<1>2. /\ \A f \in {"name", "domain", "schedule", "accesses"} : Has(st, f)
      /\ st.domain = <<from.name>> /\ st.schedule = <<from.name>>
      /\ DOMAIN st.accesses = DOMAIN from.accesses
      /\ \A i \in DOMAIN from.accesses :
           st.accesses[i] = [kind     |-> from.accesses[i].kind,
                             relation |-> <<from.name, from.accesses[i].array>>]
  BY DEF exportStatement, Has
<1> HIDE DEF st
<1>3. /\ st.domain # Garbled /\ st.schedule # Garbled
      /\ st.domain[1] = from.name /\ st.schedule[1] = from.name
  BY <1>2 DEF Garbled
<1>4. \A i \in DOMAIN st.accesses :
        accessEnd(st.accesses[i]) = "ok" /\ st.accesses[i].relation[1] = from.name
  <2> TAKE i \in DOMAIN st.accesses
  <2>1. /\ from.accesses[i].kind \in {"read", "write"}
        /\ st.accesses[i] = [kind     |-> from.accesses[i].kind,
                             relation |-> <<from.name, from.accesses[i].array>>]
    BY <1>1, <1>2
  <2>2. /\ st.accesses[i].kind = from.accesses[i].kind
        /\ st.accesses[i].relation = <<from.name, from.accesses[i].array>>
        /\ DOMAIN st.accesses[i] = {"kind", "relation"}
    BY <2>1
  <2>3. /\ st.accesses[i].kind \in {"read", "write"}
        /\ st.accesses[i].relation = <<from.name, from.accesses[i].array>>
        /\ Has(st.accesses[i], "kind") /\ Has(st.accesses[i], "relation")
    BY <2>1, <2>2 DEF Has
  <2>4. /\ st.accesses[i].relation # Garbled
        /\ st.accesses[i].relation[1] = from.name
    BY <2>3 DEF Garbled
  <2>5. {"read", "write"} = DOMAIN string_to_AccessType
    BY DEF string_to_AccessType
  <2>6. QED
    BY <2>3, <2>4, <2>5 DEF accessEnd
<1>5. LoopEnd(ends) = "ok"
  <2>1. DOMAIN ends \subseteq Nat /\ \A i \in DOMAIN ends : ends[i] \in {"ok", "ok"}
    BY <1>1, <1>2, <1>4, ListIsFunction
  <2> HIDE DEF ends
  <2>2. QED
    BY <2>1, LoopEndsSo
<1>6. statementEnd(st) = "ok"
  BY <1>2, <1>3, <1>4, <1>5 DEF statementEnd
<1>7. QED
  BY <1>2, <1>4, <1>6 DEF st, from

\* How the parsers end for a damage, if they come upon it.
Fault(d) ==
  IF d.how = "missing" /\ d.field = "sizes" THEN "ok"
  ELSE IF d.how = "foreign" THEN IF assertions THEN "asserts" ELSE "ok"
  ELSE IF d.how = "no number" THEN "throws"
  ELSE "error"

\* A damaged array is an error, but without its sizes it is read, and a size that
\* is no number throws.
LEMMA HurtArrayEnd ==
  ASSUME NEW S \in Scops, Importable(S), NEW k \in DOMAIN S.arrays,
         NEW d \in Damages, d.place = "array"
  PROVE  memRefEnd(Hurt(exportArrays(S)[k], d)) \in {"ok", Fault(d)}
<1> DEFINE r == exportArrays(S)[k]
           h == Hurt(r, d)
<1>1. memRefEnd(r) = "ok" /\ DOMAIN r = {"name", "sizes", "type"}
  BY ArrayEnd DEF exportArrays
<1> HIDE DEF r
<1>2. CASE d.how = "missing" /\ d.field \in {"name", "type"}
  <2>1. ~Has(h, d.field)
    BY <1>2 DEF Hurt, Restrict, Has
  <2> HIDE DEF h
  <2>2. memRefEnd(h) = "error"
    BY <1>2, <2>1 DEF memRefEnd
  <2>3. QED
    BY <1>2, <2>2 DEF Fault, h, r
<1>3. CASE d.how = "missing" /\ d.field = "sizes"
  <2>1. h = [f \in {"name", "type"} |-> r[f]]
    BY <1>1, <1>3 DEF Hurt, Restrict
  <2>2. /\ Has(h, "name") /\ Has(h, "type") /\ ~Has(h, "sizes")
        /\ h.type = r.type
    BY <2>1 DEF Has
  <2>3. r.type \in DOMAIN string_to_MemType
    BY <1>1 DEF memRefEnd
  <2> HIDE DEF h
  <2>4. memRefEnd(h) = "ok"
    BY <2>2, <2>3 DEF memRefEnd
  <2>5. QED
    BY <2>4 DEF h, r
<1>4. CASE d.how = "unknown" /\ d.field = "type"
  <2>1. h = [r EXCEPT !.type = "unknown"]
    BY <1>4 DEF Hurt
  <2>2. /\ Has(h, "name") /\ Has(h, "type") /\ h.type = "unknown"
    BY <1>1, <2>1 DEF Has
  <2>3. "unknown" \notin DOMAIN string_to_MemType
    BY DEF string_to_MemType
  <2> HIDE DEF h
  <2>4. memRefEnd(h) = "error"
    BY <2>2, <2>3 DEF memRefEnd
  <2>5. QED
    BY <1>4, <2>4 DEF Fault, h, r
<1>5. CASE d.how = "no number" /\ d.field = "sizes"
  <2>1. h = [r EXCEPT !.sizes = FirstNoNumber(@)]
    BY <1>5 DEF Hurt
  <2>2. Has(h, "name") /\ Has(h, "type") /\ h.type = r.type
    BY <1>1, <2>1 DEF Has
  <2>3. r.type \in DOMAIN string_to_MemType
    BY <1>1 DEF memRefEnd
  <2> HIDE DEF h
  <2>4. memRefEnd(h) \in {"ok", "throws"}
    BY <2>2, <2>3 DEF memRefEnd
  <2>5. QED
    BY <1>5, <2>4 DEF Fault, h, r
<1>6. QED
  BY <1>2, <1>3, <1>4, <1>5, DamageCases

\* A damaged statement is an error, or fails an assertion if there are any.
LEMMA HurtStatementEnd ==
  ASSUME NEW S \in Scops, NEW k \in DOMAIN S.statements,
         NEW d \in Damages, d.place = "statement"
  PROVE  statementEnd(Hurt(exportStatement(S.statements[k]), d)) \in {"ok", Fault(d)}
<1> DEFINE st == exportStatement(S.statements[k])
           h == Hurt(st, d)
<1>1. /\ statementEnd(st) = "ok"
      /\ DOMAIN st = {"name", "domain", "schedule", "accesses"}
  <2>1. DOMAIN st = {"name", "domain", "schedule", "accesses"}
    BY DEF exportStatement
  <2>2. QED
    BY <2>1, StatementEnd
<1> HIDE DEF st
<1>2. CASE d.how = "missing" /\ d.field \in {"name", "domain", "schedule", "accesses"}
  <2>1. ~Has(h, d.field)
    BY <1>2 DEF Hurt, Restrict, Has
  <2> HIDE DEF h
  <2>2. statementEnd(h) = "error"
    BY <1>2, <2>1 DEF statementEnd
  <2>3. QED
    BY <1>2, <2>2 DEF Fault, h, st
<1>3. CASE d.how = "garbled" /\ d.field \in {"domain", "schedule"}
  <2>1. h = [st EXCEPT ![d.field] = Garbled]
    BY <1>3 DEF Hurt
  <2>2. h.domain = Garbled \/ h.schedule = Garbled
    BY <1>1, <1>3, <2>1
  <2> HIDE DEF h
  <2>3. statementEnd(h) = "error"
    BY <2>2 DEF statementEnd
  <2>4. QED
    BY <1>3, <2>3 DEF Fault, h, st
<1>4. CASE d.how = "foreign" /\ d.field \in {"domain", "schedule"}
  <2>1. h = [st EXCEPT ![d.field] = [@ EXCEPT ![1] = "foreign"]]
    BY <1>4 DEF Hurt
  <2>2. 1 \in DOMAIN st.domain /\ 1 \in DOMAIN st.schedule
    <3>1. st.domain = <<S.statements[k].name>> /\ st.schedule = <<S.statements[k].name>>
      BY StatementEnd DEF st
    <3>2. QED
      BY <3>1
  <2>3. DOMAIN Garbled = {}
    BY DEF Garbled
  <2>4. /\ DOMAIN h = DOMAIN st /\ h.accesses = st.accesses
        /\ 1 \in DOMAIN h.domain /\ 1 \in DOMAIN h.schedule
    BY <1>1, <1>4, <2>1, <2>2
  <2>5. LoopEnd([i \in DOMAIN st.accesses |-> accessEnd(st.accesses[i])]) = "ok"
    BY <1>1 DEF statementEnd
  <2>6. LoopEnd([i \in DOMAIN h.accesses |-> accessEnd(h.accesses[i])]) = "ok"
    BY <2>4, <2>5
  <2> HIDE DEF h
  <2>7. \A f \in {"name", "domain", "schedule", "accesses"} : Has(h, f)
    BY <1>1, <2>4 DEF Has
  <2>8. /\ statementEnd(h) \in {"ok", "asserts"}
        /\ ~assertions => statementEnd(h) = "ok"
    BY <2>3, <2>4, <2>6, <2>7 DEF statementEnd
  <2>9. QED
    BY <1>4, <2>8 DEF Fault, h, st
<1>5. QED
  BY <1>2, <1>3, <1>4, DamageCases

\* So is a statement with a damaged access.
LEMMA HurtAccessEnd ==
  ASSUME NEW S \in Scops, NEW k \in DOMAIN S.statements,
         NEW d \in Damages, d.place = "access"
  PROVE  statementEnd(HurtAccess(exportStatement(S.statements[k]), d)) \in {"ok", Fault(d)}
<1> DEFINE st == exportStatement(S.statements[k])
           h == HurtAccess(st, d)
           acc == Hurt(st.accesses[1], d)
           ends == [i \in DOMAIN h.accesses |-> accessEnd(h.accesses[i])]
<1>1. /\ DOMAIN st = {"name", "domain", "schedule", "accesses"}
      /\ statementEnd(st) = "ok"
      /\ \A i \in DOMAIN st.accesses :
           /\ accessEnd(st.accesses[i]) = "ok"
           /\ DOMAIN st.accesses[i] = {"kind", "relation"}
           /\ 1 \in DOMAIN st.accesses[i].relation
      /\ DOMAIN st.accesses \subseteq Nat
      /\ st.accesses # <<>> => 1 \in DOMAIN st.accesses
  <2>1. k \in DOMAIN getJson(S).statements /\ getJson(S).statements[k] = st
    BY DEF getJson
  <2> HIDE DEF st
  <2>2. /\ DOMAIN st = {"name", "domain", "schedule", "accesses"}
        /\ st.accesses # <<>> => 1 \in DOMAIN st.accesses
        /\ DOMAIN st.accesses \subseteq Nat
        /\ \A i \in DOMAIN st.accesses :
             /\ DOMAIN st.accesses[i] = {"kind", "relation"}
             /\ 1 \in DOMAIN st.accesses[i].relation
    <3>1. LET x == getJson(S).statements[k]
          IN  /\ DOMAIN x = {"name", "domain", "schedule", "accesses"}
              /\ x.accesses # <<>> => 1 \in DOMAIN x.accesses
              /\ DOMAIN x.accesses \subseteq Nat
              /\ \A i \in DOMAIN x.accesses :
                   /\ DOMAIN x.accesses[i] = {"kind", "relation"}
                   /\ 1 \in DOMAIN x.accesses[i].relation
      BY <2>1, ExportedStatement, Zenon
    <3>2. QED
      BY <2>1, <3>1
  <2>3. /\ statementEnd(st) = "ok"
        /\ \A i \in DOMAIN st.accesses : accessEnd(st.accesses[i]) = "ok"
    BY StatementEnd DEF st
  <2>4. QED
    BY <2>2, <2>3
<1>2. /\ \A f \in {"name", "domain", "schedule", "accesses"} : Has(st, f)
      /\ st.domain # Garbled /\ st.schedule # Garbled
  BY <1>1 DEF statementEnd
<1> HIDE DEF st
<1>3. /\ \A f \in {"name", "domain", "schedule", "accesses"} : Has(h, f)
      /\ h.domain = st.domain /\ h.schedule = st.schedule
      /\ h.accesses = FirstOf(st.accesses, d)
  BY <1>1, <1>2 DEF HurtAccess, Has
<1> HIDE DEF h
<1>4. CASE st.accesses = <<>>
  <2>1. h.accesses = st.accesses
    BY <1>3, <1>4 DEF FirstOf
  <2>2. statementEnd(h) = statementEnd(st)
    BY <1>2, <1>3, <2>1 DEF statementEnd
  <2>3. QED
    BY <1>1, <2>2 DEF h, st
<1>5. CASE st.accesses # <<>>
  <2>1. /\ DOMAIN h.accesses = DOMAIN st.accesses /\ 1 \in DOMAIN h.accesses
        /\ h.accesses[1] = acc
        /\ \A i \in DOMAIN h.accesses : i # 1 => h.accesses[i] = st.accesses[i]
    BY <1>1, <1>3, <1>5 DEF FirstOf
  <2>2. /\ DOMAIN ends = DOMAIN h.accesses /\ DOMAIN ends \subseteq Nat
        /\ ends[1] = accessEnd(acc)
        /\ \A i \in DOMAIN ends : i # 1 => ends[i] = "ok"
    BY <1>1, <2>1
  <2>3. /\ accessEnd(st.accesses[1]) = "ok"
        /\ DOMAIN st.accesses[1] = {"kind", "relation"}
        /\ 1 \in DOMAIN st.accesses[1].relation
    BY <1>1, <1>5
  <2> HIDE DEF ends
  <2>4. ASSUME accessEnd(acc) = "error", d.how # "foreign", d.how # "no number",
               d.field # "sizes"
        PROVE  statementEnd(h) \in {"ok", Fault(d)}
    <3>1. LoopEnd(ends) # "ok"
      <4>1. 1 \in DOMAIN ends /\ ends[1] # "ok" /\ DOMAIN ends \subseteq Nat
        BY <2>1, <2>2, <2>4
      <4>2. QED
        BY <4>1, LoopIsThorough
    <3>2. statementEnd(h) = "error"
      BY <3>1 DEF statementEnd, ends
    <3>3. QED
      BY <2>4, <3>2 DEF Fault
  <2>5. CASE d.how = "missing" /\ d.field \in {"kind", "relation"}
    <3>1. ~Has(acc, d.field)
      BY <2>5 DEF Hurt, Restrict, Has
    <3>2. accessEnd(acc) = "error"
      BY <2>5, <3>1 DEF accessEnd
    <3>3. QED
      BY <2>4, <2>5, <3>2 DEF h, st
  <2>6. CASE d.how = "unknown" /\ d.field = "kind"
    <3>1. acc = [st.accesses[1] EXCEPT !.kind = "unknown"]
      BY <2>6 DEF Hurt
    <3>2. acc.kind = "unknown"
      BY <2>3, <3>1
    <3>3. "unknown" \notin DOMAIN string_to_AccessType
      BY DEF string_to_AccessType
    <3>4. accessEnd(acc) = "error"
      BY <3>2, <3>3 DEF accessEnd
    <3>5. QED
      BY <2>4, <2>6, <3>4 DEF h, st
  <2>7. CASE d.how = "garbled" /\ d.field = "relation"
    <3>1. acc = [st.accesses[1] EXCEPT !.relation = Garbled]
      BY <2>7 DEF Hurt
    <3>2. accessEnd(acc) = "error"
      BY <2>3, <3>1 DEF accessEnd
    <3>3. QED
      BY <2>4, <2>7, <3>2 DEF h, st
  <2>8. CASE d.how = "foreign" /\ d.field = "relation"
    <3>1. acc = [st.accesses[1] EXCEPT !.relation = [@ EXCEPT ![1] = "foreign"]]
      BY <2>8 DEF Hurt
    <3>2. /\ DOMAIN acc = {"kind", "relation"} /\ 1 \in DOMAIN acc.relation
          /\ acc.kind = st.accesses[1].kind
      BY <2>3, <3>1
    <3>3. acc.kind \in DOMAIN string_to_AccessType
      BY <2>3, <3>2 DEF accessEnd
    <3> HIDE DEF acc
    <3>4. accessEnd(acc) = "ok"
      BY <3>2, <3>3 DEF accessEnd, Has, Garbled
    <3>5. LoopEnd(ends) = "ok"
      <4>1. \A i \in DOMAIN ends : ends[i] \in {"ok", "ok"}
        BY <2>2, <3>4
      <4>2. QED
        BY <2>2, <4>1, LoopEndsSo
    <3>6. /\ statementEnd(h) \in {"ok", "asserts"}
          /\ ~assertions => statementEnd(h) = "ok"
      BY <1>2, <1>3, <3>5 DEF statementEnd, ends
    <3>7. QED
      BY <2>8, <3>6 DEF Fault, h, st
  <2>9. QED
    BY <2>5, <2>6, <2>7, <2>8, DamageCases
<1>6. QED
  BY <1>4, <1>5

\* Damaged dependences are an error.
LEMMA HurtDependencesEnd ==
  ASSUME NEW deps, NEW d \in Damages, d.place = "dependences"
  PROVE  dependencesEnd(Hurt(deps, d)) \in {"ok", Fault(d)}
<1>1. d.how \in {"missing", "garbled"} /\ d.field # "sizes"
  BY DamageCases DEF DependenceKinds
<1>2. QED
  BY <1>1 DEF dependencesEnd, Fault

\* The parts of a file whose arrays, statements and dependences end in some way.
LEMMA PartsEndSo ==
  ASSUME NEW d, DocOK(d), NEW e,
         Has(d, "context") => d.context # Garbled \/ e = "error",
         \A f \in Fields : Has(d, f) \/ e = "error",
         Has(d, "arrays") =>
           \A k \in DOMAIN d.arrays : memRefEnd(d.arrays[k]) \in {"ok", e},
         Has(d, "statements") =>
           \A k \in DOMAIN d.statements : statementEnd(d.statements[k]) \in {"ok", e},
         Has(d, "dependences") => dependencesEnd(d.dependences) \in {"ok", e},
         NEW f \in Fields
  PROVE  PartEnd(d, f) \in {"ok", e}
<1>1. CASE ~Has(d, f)
  BY <1>1 DEF PartEnd
<1>2. CASE Has(d, f) /\ f = "arrays"
  <2> DEFINE ends == [k \in DOMAIN d.arrays |-> memRefEnd(d.arrays[k])]
  <2>1. PartEnd(d, f) = LoopEnd(ends)
    BY <1>2 DEF PartEnd
  <2>2. DOMAIN ends \subseteq Nat /\ \A k \in DOMAIN ends : ends[k] \in {"ok", e}
    BY <1>2 DEF DocOK
  <2> HIDE DEF ends
  <2>3. QED
    BY <2>1, <2>2, LoopEndsSo
<1>3. CASE Has(d, f) /\ f = "statements"
  <2> DEFINE ends == [k \in DOMAIN d.statements |-> statementEnd(d.statements[k])]
  <2>1. PartEnd(d, f) = LoopEnd(ends)
    BY <1>3 DEF PartEnd
  <2>2. DOMAIN ends \subseteq Nat /\ \A k \in DOMAIN ends : ends[k] \in {"ok", e}
    BY <1>3 DEF DocOK
  <2> HIDE DEF ends
  <2>3. QED
    BY <2>1, <2>2, LoopEndsSo
<1>4. CASE Has(d, f) /\ f \in {"name", "context", "dependences"}
  BY <1>4 DEF PartEnd
<1>5. QED
  BY <1>1, <1>2, <1>3, <1>4 DEF Fields

\* The elements and the other fields of an undamaged file.
LEMMA ExportedEnds ==
  ASSUME NEW S \in Scops, Importable(S)
  PROVE  LET j == getJson(S)
         IN  /\ DOMAIN j = Fields
             /\ j.context # Garbled
             /\ \A k \in DOMAIN j.arrays : memRefEnd(j.arrays[k]) = "ok"
             /\ \A k \in DOMAIN j.statements : statementEnd(j.statements[k]) = "ok"
             /\ dependencesEnd(j.dependences) = "ok"
<1> DEFINE j == getJson(S)
<1>1. /\ DOMAIN j = Fields /\ j.context = S.context /\ j.arrays = exportArrays(S)
      /\ DOMAIN j.arrays = DOMAIN S.arrays /\ DOMAIN j.statements = DOMAIN S.statements
      /\ \A k \in DOMAIN S.statements : j.statements[k] = exportStatement(S.statements[k])
      /\ j.dependences = S.dependences
  BY DEF getJson, Fields, exportArrays
<1>2. j.context # Garbled
  BY <1>1, ScopAssumption
<1>3. dependencesEnd(j.dependences) = "ok"
  BY <1>1, ScopAssumption DEF dependencesEnd, Has
<1>4. \A k \in DOMAIN j.arrays : memRefEnd(j.arrays[k]) = "ok"
  BY <1>1, ArrayEnd
<1>5. \A k \in DOMAIN j.statements : statementEnd(j.statements[k]) = "ok"
  BY <1>1, StatementEnd
<1>6. QED
  BY <1>1, <1>2, <1>3, <1>4, <1>5

\* A part of a damaged file is read, or fails as the damage makes it; none fails
\* of a file that is as it was written.
LEMMA DamagedEnds ==
  ASSUME NEW S \in Scops, Importable(S), NEW d \in Damages, NEW f \in Fields
  PROVE  LET D == Damaged(getJson(S), d)
         IN  /\ PartEnd(D, f) \in {"ok", Fault(d)}
             /\ D = getJson(S) => PartEnd(D, f) = "ok"
<1> DEFINE j == getJson(S)
           D == Damaged(j, d)
<1>1. /\ DOMAIN j = Fields /\ j.context # Garbled
      /\ \A k \in DOMAIN j.arrays : memRefEnd(j.arrays[k]) = "ok"
      /\ \A k \in DOMAIN j.statements : statementEnd(j.statements[k]) = "ok"
      /\ dependencesEnd(j.dependences) = "ok"
      /\ j.arrays # <<>> => 1 \in DOMAIN j.arrays
      /\ j.statements # <<>> => 1 \in DOMAIN j.statements
  BY ExportedEnds, Exported
<1>2. DocOK(D)
  BY DocIsRead
<1>3. /\ DOMAIN j.arrays = DOMAIN S.arrays /\ DOMAIN j.statements = DOMAIN S.statements
      /\ \A k \in DOMAIN S.arrays : j.arrays[k] = exportArrays(S)[k]
      /\ \A k \in DOMAIN S.statements : j.statements[k] = exportStatement(S.statements[k])
  BY DEF getJson, exportArrays
<1> HIDE DEF j
<1>4. ASSUME D = j
      PROVE  PartEnd(D, f) = "ok"
  <2>1. PartEnd(D, f) \in {"ok", "ok"}
    BY <1>1, <1>2, <1>4, PartsEndSo DEF Has
  <2>2. QED
    BY <2>1
<1>5. CASE d.place = "nowhere"
  BY <1>4, <1>5 DEF Damaged, j
<1>6. CASE d.place = "scop"
  <2>1. D = Hurt(j, d) /\ Fault(d) = "error"
    BY <1>6, DamageCases DEF Damaged, Fault, Fields, j
  <2>2. CASE d.how = "missing"
    <3>1. D = [g \in Fields \cap (Fields \ {d.field}) |-> j[g]]
      BY <1>1, <2>1, <2>2 DEF Hurt, Restrict
    <3>2. \A g \in Fields : Has(D, g) => D[g] = j[g]
      BY <3>1 DEF Has
    <3> HIDE DEF D
    <3>3. PartEnd(D, f) \in {"ok", "error"}
      BY <1>1, <1>2, <3>2, PartsEndSo DEF Fields
    <3>4. QED
      BY <1>4, <1>6, <2>1, <3>3 DEF D, j
  <2>3. CASE d.how # "missing"
    <3>1. d.how = "garbled" /\ d.field = "context"
      BY <1>6, <2>3, DamageCases
    <3>2. D = [j EXCEPT !.context = Garbled]
      BY <2>1, <3>1 DEF Hurt
    <3>3. DOMAIN D = Fields /\ \A g \in Fields \ {"context"} : D[g] = j[g]
      BY <1>1, <3>2
    <3> HIDE DEF D
    <3>4. PartEnd(D, f) \in {"ok", "error"}
      BY <1>1, <1>2, <3>3, PartsEndSo, ZenonT(30) DEF Fields, Has
    <3>5. QED
      BY <1>4, <1>6, <2>1, <3>4 DEF D, j
  <2>4. QED
    BY <2>2, <2>3
<1>7. CASE d.place = "array"
  <2>1. D = [j EXCEPT !.arrays = FirstOf(@, d)]
    BY <1>7 DEF Damaged, j
  <2>2. /\ DOMAIN D = Fields /\ D.arrays = FirstOf(j.arrays, d)
        /\ \A g \in Fields \ {"arrays"} : D[g] = j[g]
    BY <1>1, <2>1 DEF Fields
  <2>3. ASSUME NEW k \in DOMAIN D.arrays
        PROVE  memRefEnd(D.arrays[k]) \in {"ok", Fault(d)}
    <3>1. CASE j.arrays = <<>>
      BY <1>1, <2>2, <2>3, <3>1 DEF FirstOf
    <3>2. CASE j.arrays # <<>>
      <4>1. /\ k \in DOMAIN j.arrays
            /\ D.arrays[k] = IF k = 1 THEN Hurt(j.arrays[1], d) ELSE j.arrays[k]
        BY <2>2, <2>3, <3>2 DEF FirstOf
      <4>2. CASE k = 1
        BY <1>3, <1>7, <4>1, <4>2, HurtArrayEnd
      <4>3. CASE k # 1
        BY <1>1, <4>1, <4>3
      <4>4. QED
        BY <4>2, <4>3
    <3>3. QED
      BY <3>1, <3>2
  <2> HIDE DEF D
  <2>4. /\ D.context # Garbled /\ \A g \in Fields : Has(D, g)
        /\ \A k \in DOMAIN D.statements : statementEnd(D.statements[k]) = "ok"
        /\ dependencesEnd(D.dependences) = "ok"
    BY <1>1, <2>2 DEF Fields, Has
  <2>5. PartEnd(D, f) \in {"ok", Fault(d)}
    BY <1>2, <2>3, <2>4, PartsEndSo
  <2>6. QED
    BY <1>4, <2>5 DEF D, j
<1>8. CASE d.place \in {"statement", "access"}
  <2> DEFINE h(st) == IF d.place = "access" THEN HurtAccess(st, d) ELSE Hurt(st, d)
  <2>1. D = [j EXCEPT !.statements = IF j.statements = <<>> THEN j.statements
                                     ELSE [j.statements EXCEPT ![1] = h(@)]]
    BY <1>8 DEF Damaged, FirstOf, FirstAccessOf, j
  <2>2. /\ DOMAIN D = Fields
        /\ D.statements = IF j.statements = <<>> THEN j.statements
                          ELSE [j.statements EXCEPT ![1] = h(@)]
        /\ \A g \in Fields \ {"statements"} : D[g] = j[g]
    BY <1>1, <2>1 DEF Fields
  <2>3. \A k \in DOMAIN S.statements :
          statementEnd(h(exportStatement(S.statements[k]))) \in {"ok", Fault(d)}
    BY <1>8, HurtAccessEnd, HurtStatementEnd
  <2> HIDE DEF h, D
  <2>4. ASSUME NEW k \in DOMAIN D.statements
        PROVE  statementEnd(D.statements[k]) \in {"ok", Fault(d)}
    <3>1. CASE j.statements = <<>>
      BY <1>1, <2>2, <2>4, <3>1
    <3>2. CASE j.statements # <<>>
      <4>1. /\ k \in DOMAIN j.statements
            /\ D.statements[k] = IF k = 1 THEN h(j.statements[1]) ELSE j.statements[k]
        BY <2>2, <2>4, <3>2
      <4>2. CASE k = 1
        BY <1>3, <2>3, <4>1, <4>2
      <4>3. CASE k # 1
        BY <1>1, <4>1, <4>3
      <4>4. QED
        BY <4>2, <4>3
    <3>3. QED
      BY <3>1, <3>2
  <2>5. PartEnd(D, f) \in {"ok", Fault(d)}
    BY <1>1, <1>2, <2>2, <2>4, PartsEndSo, SMTT(30) DEF Fields, Has
  <2>6. QED
    BY <1>4, <1>8, <2>5 DEF D, j
<1>9. CASE d.place = "dependences"
  <2>1. D = [j EXCEPT !.dependences = Hurt(@, d)]
    BY <1>9 DEF Damaged, j
  <2>2. /\ DOMAIN D = Fields /\ D.dependences = Hurt(j.dependences, d)
        /\ \A g \in Fields \ {"dependences"} : D[g] = j[g]
    BY <1>1, <2>1 DEF Fields
  <2>3. dependencesEnd(D.dependences) \in {"ok", Fault(d)}
    BY <1>9, <2>2, HurtDependencesEnd
  <2> HIDE DEF D
  <2>4. PartEnd(D, f) \in {"ok", Fault(d)}
    BY <1>1, <1>2, <2>2, <2>3, PartsEndSo, SMTT(30) DEF Fields, Has
  <2>5. QED
    BY <1>4, <1>9, <2>4 DEF D, j
<1>10. QED
  BY <1>5, <1>6, <1>7, <1>8, <1>9, DamageCases

\* An import that failed did so with a part of its file.
FailedInv ==
  outcome \notin {"none", "scop"} =>
    \E f \in Fields : outcome = PartEnd(doc, f) /\ outcome # "ok"

\* For every SCoP both sides agree on and every damage: a file as written is
\* imported, and of a damaged one a message tells, save for three damages.  An
\* array without its sizes is imported; a size that is no number makes std::stoi
\* throw; and text of another statement fails an assertion, or is imported in a
\* build without them.
THEOREM DamageCorrect == UseSpec => []DamageIsReported
<1>1. UseInit => FailedInv
  BY DEF UseInit, Init, FailedInv
<1>2. FailedInv /\ FrameInv /\ [UseNext]_<<vars, scops, heap, careless>> => FailedInv'
  <2> SUFFICES ASSUME FailedInv, FrameInv, [UseNext]_<<vars, scops, heap, careless>>
               PROVE  FailedInv'
    OBVIOUS
  <2>1. [Next]_vars
    BY DEF UseNext, Receive, ReceiveEarlier
  <2>2. \A f : PartEnd(doc, f)' = PartEnd(doc, f)
    <3>1. UNCHANGED <<assertions, doc>>
      BY <2>1 DEF Next, Parse, ParseFails, ReturnScop, DestroyLocal, vars
    <3>2. QED
      BY <3>1, SameEnds
  <2>3. CASE ParseFails
    BY <2>2, <2>3, HeadIsField DEF ParseFails, FailedInv
  <2>4. CASE ReturnScop
    BY <2>4 DEF ReturnScop, FailedInv
  <2>5. CASE Parse \/ DestroyLocal \/ UNCHANGED vars
    BY <2>2, <2>5 DEF Parse, DestroyLocal, vars, FailedInv
  <2>6. QED
    BY <2>1, <2>3, <2>4, <2>5 DEF Next
<1>3. ASSUME FailedInv, FrameInv, ReadInv
      PROVE  DamageIsReported
  <2> SUFFICES ASSUME Importable(source), outcome # "none"
               PROVE  /\ outcome \in {"scop", Fault(damage)}
                      /\ outcome = "scop" => Undamaged \/ Fault(damage) = "ok"
                      /\ outcome # "scop" => ~Undamaged /\ Fault(damage) # "ok"
    BY DEF DamageIsReported, SizesLost, SizeNoNumber, ForeignText, Fault
  <2>1. /\ source \in Scops /\ damage \in Damages
        /\ doc = Damaged(getJson(source), damage)
    BY <1>3 DEF ReadInv
  <2>2. CASE outcome = "scop"
    <3>1. AllPassed(doc)
      <4>1. todo = <<>> /\ 1 .. Len(todo) = {}
        BY <1>3, <2>2 DEF ReadInv
      <4>2. QED
        BY <1>3, <4>1 DEF ReadInv, AllPassed
    <3>2. Undamaged \/ Fault(damage) = "ok"
      BY <2>1, <3>1, DamageNoticed DEF Undamaged, Fault
    <3>3. QED
      BY <2>2, <3>2
  <2>3. CASE outcome # "scop"
    <3>1. PICK f \in Fields : outcome = PartEnd(doc, f) /\ outcome # "ok"
      BY <1>3, <2>3 DEF FailedInv
    <3>2. outcome = Fault(damage) /\ ~Undamaged
      BY <2>1, <3>1, DamagedEnds DEF Undamaged
    <3>3. QED
      BY <2>3, <3>1, <3>2
  <2>4. QED
    BY <2>2, <2>3
<1>4. QED
  BY <1>1, <1>2, <1>3, FrameCorrect, ReadCorrect, PTL DEF UseSpec

-----------------------------------------------------------------------------
(* Which SCoPs come through undamaged.                                     *)

\* A file as written that passes every parser is one both sides agree on: each
\* type has a meaning and each size that is known is a number an int holds.
LEMMA PassedIsImportable ==
  ASSUME NEW S \in Scops, AllPassed(getJson(S))
  PROVE  Importable(S)
<1> DEFINE j == getJson(S)
<1>1. /\ DocOK(j) /\ Has(j, "arrays") /\ PartEnd(j, "arrays") = "ok"
      /\ DOMAIN j.arrays = DOMAIN S.arrays
  <2>1. Damage("nowhere", "", "") \in Damages
    BY DEF Damages
  <2>2. Damaged(j, Damage("nowhere", "", "")) = j
    BY DEF Damaged, Damage
  <2>3. DocOK(j)
    BY <2>1, <2>2, DocIsRead
  <2>4. QED
    BY <2>3 DEF getJson, exportArrays, Has, AllPassed, Fields
<1>2. ASSUME NEW k \in DOMAIN S.arrays
      PROVE  /\ S.arrays[k].type \in DOMAIN string_to_MemType
             /\ S.arrays[k].isArrayKind =>
                  \A i \in DOMAIN S.arrays[k].dims :
                    S.arrays[k].dims[i] = Unknown \/ stoi_ok(S.arrays[k].dims[i])
  <2> DEFINE a == S.arrays[k]
             r == j.arrays[k]
             e == exportSizes(a)
  <2>1. r = [name |-> a.name, sizes |-> e, type |-> a.type]
    BY DEF getJson, exportArrays
  <2>2. memRefEnd(r) = "ok"
    BY <1>1, ArraysPassed
  <2>3. Has(r, "sizes") /\ r.sizes = e /\ r.type = a.type
    BY <2>1 DEF Has
  <2> HIDE DEF e, r, j
  <2>4. /\ a.type \in DOMAIN string_to_MemType
        /\ \A i \in DOMAIN e : e[i] = Star \/ stoi_ok(e[i])
    BY <2>2, <2>3 DEF memRefEnd
  <2>5. ASSUME a.isArrayKind, NEW i \in DOMAIN a.dims
        PROVE  a.dims[i] = Unknown \/ stoi_ok(a.dims[i])
    <3>1. /\ DOMAIN e = 1 .. Len(a.dims)
          /\ a.dims = [n \in 1 .. Len(a.dims) |-> a.dims[n]]
          /\ \A n \in 1 .. Len(a.dims) :
               /\ a.dims[n] # Star
               /\ e[n] = IF n = 1 /\ a.dims[1] = Unknown THEN Star ELSE a.dims[n]
      BY <2>5, SizesOfExported DEF e
    <3>2. i \in DOMAIN e
      BY <2>5, <3>1
    <3>3. CASE i = 1 /\ a.dims[1] = Unknown
      BY <3>3
    <3>4. CASE ~(i = 1 /\ a.dims[1] = Unknown)
      BY <2>4, <3>1, <3>2, <3>4
    <3>5. QED
      BY <3>3, <3>4
  <2>6. QED
    BY <2>4, <2>5
<1>3. QED
  BY <1>2 DEF Importable

\* Of the files that nobody has damaged, those are imported that both sides
\* agree on, and no others.
ImportsImportable ==
  damage.place = "nowhere" /\ outcome # "none" =>
    (outcome = "scop" <=> Importable(source))

\* For every SCoP Polly may hand over: Importable is the exact condition under
\* which from_scopson reads back what the exporter has written.
THEOREM ImportableIsExact == UseSpec => []ImportsImportable
<1>1. ASSUME ReadInv, DamageIsReported
      PROVE  ImportsImportable
  <2> SUFFICES ASSUME damage.place = "nowhere", outcome # "none"
               PROVE  outcome = "scop" <=> Importable(source)
    BY DEF ImportsImportable
  <2>1. source \in Scops /\ doc = getJson(source)
    BY <1>1 DEF ReadInv, Damaged
  <2>2. ASSUME outcome = "scop"
        PROVE  Importable(source)
    <3>1. todo = <<>> /\ 1 .. Len(todo) = {}
      BY <1>1, <2>2 DEF ReadInv
    <3>2. AllPassed(getJson(source))
      BY <1>1, <2>1, <3>1 DEF ReadInv, AllPassed
    <3>3. QED
      BY <2>1, <3>2, PassedIsImportable
  <2>3. ASSUME Importable(source)
        PROVE  outcome = "scop"
    BY <1>1, <2>1, <2>3 DEF DamageIsReported, Undamaged
  <2>4. QED
    BY <2>2, <2>3
<1>2. QED
  BY <1>1, ReadCorrect, DamageCorrect, PTL

\* What the unit test asserts holds of a program all of whose SCoPs are such;
\* for others the run exchange_exported has the counterexample.
THEOREM ImportsCorrect ==
  ASSUME \A S \in Scops : Importable(S)
  PROVE  UseSpec => []ImportsExported
<1>1. ReadInv /\ ImportsImportable => ImportsExported
  BY DEF ReadInv, ImportsImportable, ImportsExported
<1>2. QED
  BY <1>1, ReadCorrect, ImportableIsExact, PTL
=============================================================================
