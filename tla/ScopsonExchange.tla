--------------------------- MODULE ScopsonExchange ---------------------------
(***************************************************************************)
(* The scopson file between the compiler and the optimizer: what           *)
(* lib/JsonExporter.cpp writes of a SCoP, and how from_scopson             *)
(* (optimizer/lib/exchange/json_exchange.cpp) reads it into a Scop, field  *)
(* after field, inside an isl context that it allocates first.             *)
(*                                                                         *)
(* A JSON object is a function on the names of its fields.  The text of an *)
(* isl object is the tuple of the names in it, or Garbled.  A file that is *)
(* read may lack a field or hold garbled text: from_scopson reports most   *)
(* of that, and leaves nothing behind.                                     *)
(***************************************************************************)
EXTENDS Naturals, Sequences, Functions, FiniteSetsExt

CONSTANTS
  Scops,       \* the SCoPs that Polly hands to the exporter
  IntMax       \* 2^31 - 1 in the code

Garbled == <<>>
Star == <<"*">>
Number(n) == <<"number", n>>
Symbol == <<"symbol">>       \* a size that is an expression in parameters
Unknown == <<"unknown">>     \* the outermost size that nobody knows
NoNumber == <<"no number">>  \* a size that does not begin with a number

DependenceKinds == {"RAW", "WAR", "WAW", "RED", "TC_RED"}

IsList(l) == l \in Seq(Range(l))

\* What Polly makes of a region: an array has at least one size, unknown only if
\* outermost, and never the text that stands for an unknown one; accesses read or
\* write; and no isl object prints as something that isl cannot parse.
ASSUME ScopAssumption ==
  \A S \in Scops :
    /\ S.context # Garbled
    /\ IsList(S.arrays) /\ IsList(S.statements)
    /\ \A k \in DOMAIN S.arrays : S.arrays[k].isArrayKind =>
         /\ IsList(S.arrays[k].dims) /\ S.arrays[k].dims # <<>>
         /\ Star \notin Range(S.arrays[k].dims)
         /\ \A i \in DOMAIN S.arrays[k].dims : S.arrays[k].dims[i] = Unknown => i = 1
    /\ \A k \in DOMAIN S.statements :
         /\ IsList(S.statements[k].accesses)
         /\ \A i \in DOMAIN S.statements[k].accesses :
              S.statements[k].accesses[i].kind \in {"read", "write"}
         /\ S.statements[k].name # "foreign"
    /\ S.dependences \in [DependenceKinds -> Range(S.dependences) \ {Garbled}]

-----------------------------------------------------------------------------
(* The exporter.  A SCoP is a record with name, context, arrays, statements *)
(* and dependences; its arrays have a kind and dims, its statements their   *)
(* accesses as pairs of a kind and an array.                                *)

\* Polly knows all sizes of an array except, perhaps, the outermost.
exportSizes(a) ==
  IF a.isArrayKind
  THEN IF a.dims[1] = Unknown THEN <<Star>> \o Tail(a.dims) ELSE a.dims
  ELSE <<>>

exportArrays(S) ==
  [k \in DOMAIN S.arrays |->
     [name  |-> S.arrays[k].name,
      sizes |-> exportSizes(S.arrays[k]),
      type  |-> S.arrays[k].type]]

exportStatement(st) ==
  [name     |-> st.name,
   domain   |-> <<st.name>>,
   schedule |-> <<st.name>>,
   accesses |-> [i \in DOMAIN st.accesses |->
                   [kind     |-> st.accesses[i].kind,
                    relation |-> <<st.name, st.accesses[i].array>>]]]

getJson(S) ==
  [name        |-> S.name,
   context     |-> S.context,
   arrays      |-> exportArrays(S),
   statements  |-> [k \in DOMAIN S.statements |-> exportStatement(S.statements[k])],
   dependences |-> S.dependences]

-----------------------------------------------------------------------------
(* What may have happened to the file: a field is gone, its isl text is     *)
(* garbled or another statement's, its word is one the importer does not    *)
(* know, or the first of its sizes is no number.  A damage names an object  *)
(* by its place, a field, and what is done.                                 *)

Damage(place, field, how) == [place |-> place, field |-> field, how |-> how]

FieldsOf ==
  [scop        |-> {"name", "context", "arrays", "statements", "dependences"},
   array       |-> {"name", "sizes", "type"},
   statement   |-> {"name", "domain", "schedule", "accesses"},
   access      |-> {"kind", "relation"},
   dependences |-> DependenceKinds]

\* The fields that isl parses, those of them whose statement is checked, and
\* the words of a fixed vocabulary.
IslTexts ==
  {<<"scop", "context">>, <<"statement", "domain">>,
   <<"statement", "schedule">>, <<"access", "relation">>}
  \cup ({"dependences"} \X DependenceKinds)

StatementTexts ==
  {<<"statement", "domain">>, <<"statement", "schedule">>, <<"access", "relation">>}

Words == {<<"array", "type">>, <<"access", "kind">>}

AnyField == UNION {{p} \X FieldsOf[p] : p \in DOMAIN FieldsOf}

Done(how, fields) == {Damage(t[1], t[2], how) : t \in fields}

Damages ==
  {Damage("nowhere", "", "")} \cup Done("missing", AnyField)
    \cup Done("garbled", IslTexts) \cup Done("foreign", StatementTexts)
    \cup Done("unknown", Words) \cup Done("no number", {<<"array", "sizes">>})

FirstNoNumber(sizes) ==
  IF sizes = <<>> THEN sizes ELSE [sizes EXCEPT ![1] = NoNumber]

Hurt(object, d) ==
  IF d.how = "missing" THEN Restrict(object, DOMAIN object \ {d.field})
  ELSE [object EXCEPT ![d.field] =
          CASE d.how = "garbled"   -> Garbled
            [] d.how = "foreign"   -> [@ EXCEPT ![1] = "foreign"]
            [] d.how = "unknown"   -> "unknown"
            [] d.how = "no number" -> FirstNoNumber(@)]

FirstOf(list, d) ==
  IF list = <<>> THEN list ELSE [list EXCEPT ![1] = Hurt(@, d)]

HurtAccess(statement, d) == [statement EXCEPT !.accesses = FirstOf(@, d)]

FirstAccessOf(statements, d) ==
  IF statements = <<>> THEN statements
  ELSE [statements EXCEPT ![1] = HurtAccess(@, d)]

Damaged(doc, d) ==
  CASE d.place = "nowhere"     -> doc
    [] d.place = "scop"        -> Hurt(doc, d)
    [] d.place = "array"       -> [doc EXCEPT !.arrays = FirstOf(@, d)]
    [] d.place = "statement"   -> [doc EXCEPT !.statements = FirstOf(@, d)]
    [] d.place = "access"      -> [doc EXCEPT !.statements = FirstAccessOf(@, d)]
    [] d.place = "dependences" -> [doc EXCEPT !.dependences = Hurt(@, d)]

-----------------------------------------------------------------------------
(* The importer's parsers.  Each tells how it ends: "ok", "error" (a string *)
(* is returned), "throws" (std::stoi does) or "asserts".                    *)

VARIABLE assertions  \* whether the optimizer was built with them, without NDEBUG

string_to_MemType ==
  [float |-> "FLOAT", double |-> "DOUBLE", int |-> "INT", long |-> "LONG"]

string_to_AccessType == [read |-> "READ", write |-> "WRITE"]

Has(object, field) == field \in DOMAIN object

\* A loop over a list ends as its first element that is not ok does.
LoopEnd(ends) ==
  LET bad == {i \in DOMAIN ends : ends[i] # "ok"}
  IN  IF bad = {} THEN "ok" ELSE ends[Min(bad)]

\* Wrong: as std::atoi, which reads a text that is no number as zero.
stoi_okAtoi(text) == text[1] = "number" => text[2] <= IntMax

stoi_ok(text) == text[1] = "number" /\ text[2] <= IntMax

memRefEnd(a) ==
  IF ~(Has(a, "name") /\ Has(a, "type")) THEN "error"
  ELSE IF a.type \notin DOMAIN string_to_MemType THEN "error"
  ELSE IF Has(a, "sizes") /\ \E i \in DOMAIN a.sizes :
            a.sizes[i] # Star /\ ~stoi_ok(a.sizes[i]) THEN "throws"
  ELSE "ok"

accessEnd(acc) ==
  IF /\ Has(acc, "kind") /\ Has(acc, "relation")
     /\ acc.kind \in DOMAIN string_to_AccessType
     /\ acc.relation # Garbled
  THEN "ok" ELSE "error"

\* The constructor of Statement asserts that one tuple id runs through it; a
\* build without assertions takes the texts as they are.
statementEnd(st) ==
  IF ~(/\ \A f \in {"name", "domain", "schedule", "accesses"} : Has(st, f)
       /\ st.domain # Garbled /\ st.schedule # Garbled) THEN "error"
  ELSE IF LoopEnd([i \in DOMAIN st.accesses |-> accessEnd(st.accesses[i])]) # "ok" THEN "error"
  ELSE IF /\ assertions
          /\ \/ st.schedule[1] # st.domain[1]
             \/ \E i \in DOMAIN st.accesses :
                  st.accesses[i].relation[1] # st.domain[1] THEN "asserts"
  ELSE "ok"

dependencesEnd(deps) ==
  IF \A k \in DependenceKinds : Has(deps, k) /\ deps[k] # Garbled
  THEN "ok" ELSE "error"

\* How the part of from_scopson that reads a field ends.
PartEnd(doc, field) ==
  IF ~Has(doc, field) THEN "error"
  ELSE CASE field = "name"        -> "ok"
         [] field = "context"     -> IF doc.context # Garbled THEN "ok" ELSE "error"
         [] field = "arrays"      -> LoopEnd([k \in DOMAIN doc.arrays |-> memRefEnd(doc.arrays[k])])
         [] field = "statements"  -> LoopEnd([k \in DOMAIN doc.statements |-> statementEnd(doc.statements[k])])
         [] field = "dependences" -> dependencesEnd(doc.dependences)

Shape(a) ==
  IF Has(a, "sizes")
  THEN [i \in DOMAIN a.sizes |-> IF a.sizes[i] = Star THEN Unknown ELSE a.sizes[i]]
  ELSE <<>>

MemoryAccessOf(acc) ==
  [acc_type  |-> string_to_AccessType[acc.kind],
   statement |-> acc.relation[1],
   array     |-> acc.relation[2]]

\* Wrong: the statement has the name of the field, not that of its domain.
StatementOfField(st) ==
  [name     |-> st.name,
   schedule |-> st.schedule[1],
   mem_accs |-> [i \in DOMAIN st.accesses |-> MemoryAccessOf(st.accesses[i])]]

\* A Statement, with the statements that its domain, its schedule and its
\* accesses speak of.
StatementOf(st) ==
  [name     |-> st.domain[1],
   schedule |-> st.schedule[1],
   mem_accs |-> [i \in DOMAIN st.accesses |-> MemoryAccessOf(st.accesses[i])]]

\* The value that part contributes to the Scop.
PartValue(doc, field) ==
  CASE field \in {"name", "context"} -> doc[field]
    [] field = "arrays" ->
         [k \in DOMAIN doc.arrays |->
            [name     |-> doc.arrays[k].name,
             mem_type |-> string_to_MemType[doc.arrays[k].type],
             shape    |-> Shape(doc.arrays[k])]]
    [] field = "statements" ->
         [k \in DOMAIN doc.statements |-> StatementOf(doc.statements[k])]
    [] field = "dependences" ->
         [k \in DependenceKinds |-> doc.dependences[k]]

-----------------------------------------------------------------------------
VARIABLES
  source,      \* the SCoP that was exported
  damage,      \* what happened to its file
  doc,         \* the JSON value that is read
  todo,        \* the parts of from_scopson still to come
  made,        \* the values read so far, a function on fields
  locals,      \* the objects in from_scopson's frame, in order of declaration
  isl_ctxt,    \* who owns the isl context: "frame", "scop", "freed", "leaked"
  outcome      \* "none", then "scop", "error", "throws" or "asserts"

vars == <<assertions, source, damage, doc, todo, made, locals, isl_ctxt, outcome>>

Parts == <<"name", "context", "arrays", "statements", "dependences">>

\* The locals that hold isl objects; the name is a plain string.
IslLocals == {"context", "arrays", "statements", "dependences"}

\* isl_ctx_alloc() comes before anything is read.
Init ==
  /\ assertions \in BOOLEAN
  /\ source \in Scops
  /\ damage \in Damages
  /\ doc = Damaged(getJson(source), damage)
  /\ todo = Parts
  /\ made = [f \in {} |-> {}]
  /\ locals = <<"ctxt">>
  /\ isl_ctxt = "frame"
  /\ outcome = "none"

\* Wrong: the value that was read is not kept.
ParseWithoutPushBack ==
  /\ outcome = "none"
  /\ todo # <<>>
  /\ PartEnd(doc, Head(todo)) = "ok"
  /\ locals' = Append(locals, Head(todo))
  /\ todo' = Tail(todo)
  /\ UNCHANGED <<assertions, source, damage, doc, made, isl_ctxt, outcome>>

Parse ==
  /\ outcome = "none"
  /\ todo # <<>>
  /\ PartEnd(doc, Head(todo)) = "ok"
  /\ made' = [f \in DOMAIN made \cup {Head(todo)} |->
                IF f = Head(todo) THEN PartValue(doc, f) ELSE made[f]]
  /\ locals' = Append(locals, Head(todo))
  /\ todo' = Tail(todo)
  /\ UNCHANGED <<assertions, source, damage, doc, isl_ctxt, outcome>>

\* A string is returned, or an exception leaves the function.  The object to
\* be read into is declared by then, and may hold a part of the value.
ParseFails ==
  /\ outcome = "none"
  /\ todo # <<>>
  /\ PartEnd(doc, Head(todo)) # "ok"
  /\ outcome' = PartEnd(doc, Head(todo))
  /\ locals' = Append(locals, Head(todo))
  /\ UNCHANGED <<assertions, source, damage, doc, todo, made, isl_ctxt>>

\* The Scop takes the isl context over.
ReturnScop ==
  /\ outcome = "none"
  /\ todo = <<>>
  /\ outcome' = "scop"
  /\ isl_ctxt' = "scop"
  /\ UNCHANGED <<assertions, source, damage, doc, todo, made, locals>>

\* isl_ctx_free refuses while an object refers to the context.
FreeContext ==
  isl_ctxt' = IF \E i \in DOMAIN locals : locals[i] \in IslLocals
             THEN "leaked" ELSE "freed"

\* Wrong: the context goes first, as if it were declared last.
DestroyLocalFirst ==
  /\ outcome \in {"scop", "error", "throws"}
  /\ locals # <<>>
  /\ locals' = Tail(locals)
  /\ IF Head(locals) = "ctxt" /\ isl_ctxt = "frame"
     THEN FreeContext
     ELSE UNCHANGED isl_ctxt
  /\ UNCHANGED <<assertions, source, damage, doc, todo, made, outcome>>

\* The frame is left, by a caller's handler if an exception was thrown: the
\* locals are destroyed, the last first.  A failed assertion ends it as it is.
DestroyLocal ==
  /\ outcome \in {"scop", "error", "throws"}
  /\ locals # <<>>
  /\ locals' = SubSeq(locals, 1, Len(locals) - 1)
  /\ IF locals[Len(locals)] = "ctxt" /\ isl_ctxt = "frame"
     THEN FreeContext
     ELSE UNCHANGED isl_ctxt
  /\ UNCHANGED <<assertions, source, damage, doc, todo, made, outcome>>

Next == Parse \/ ParseFails \/ ReturnScop \/ DestroyLocal

Spec == Init /\ [][Next]_vars
-----------------------------------------------------------------------------
(* Properties. *)

\* The types of the variables.
TypeOK ==
  /\ assertions \in BOOLEAN
  /\ source \in Scops
  /\ damage \in Damages
  /\ todo \in {SubSeq(Parts, i, Len(Parts)) : i \in 1 .. Len(Parts) + 1}
  /\ DOMAIN made = {Parts[i] : i \in 1 .. Len(Parts) - Len(todo)}
  /\ locals \in {SubSeq(<<"ctxt">> \o Parts, 1, i) : i \in 0 .. Len(Parts) + 1}
  /\ isl_ctxt \in {"frame", "scop", "freed", "leaked"}
  /\ outcome \in {"none", "scop", "error", "throws", "asserts"}

MeaningOf(st) ==
  [name     |-> st.name,
   schedule |-> st.name,
   mem_accs |-> [i \in DOMAIN st.accesses |->
                   [acc_type  |-> string_to_AccessType[st.accesses[i].kind],
                    statement |-> st.name,
                    array     |-> st.accesses[i].array]]]

\* What a SCoP of Polly means to the optimizer, whatever the file between.
Meaning(S) ==
  [name        |-> S.name,
   context     |-> S.context,
   arrays      |-> [k \in DOMAIN S.arrays |->
                      [name     |-> S.arrays[k].name,
                       mem_type |-> string_to_MemType[S.arrays[k].type],
                       shape    |-> IF S.arrays[k].isArrayKind
                                    THEN S.arrays[k].dims ELSE <<>>]],
   statements  |-> [k \in DOMAIN S.statements |-> MeaningOf(S.statements[k])],
   dependences |-> S.dependences]

\* Without its sizes, an array is read as a scalar.
FirstAsScalar(arrays) ==
  IF arrays = <<>> THEN arrays ELSE [arrays EXCEPT ![1].shape = <<>>]

Flattened(meaning) == [meaning EXCEPT !.arrays = FirstAsScalar(@)]

\* The damaged text of a statement speaks of another one.
AccessAsForeign(mem_accs) ==
  IF mem_accs = <<>> THEN mem_accs
  ELSE [mem_accs EXCEPT ![1].statement = "foreign"]

AsForeign(statement, field) ==
  CASE field = "domain"   -> [statement EXCEPT !.name = "foreign"]
    [] field = "schedule" -> [statement EXCEPT !.schedule = "foreign"]
    [] field = "relation" -> [statement EXCEPT !.mem_accs = AccessAsForeign(@)]

FirstAsForeign(statements, field) ==
  IF statements = <<>> THEN statements
  ELSE [statements EXCEPT ![1] = AsForeign(@, field)]

Misattributed(meaning) ==
  [meaning EXCEPT !.statements = FirstAsForeign(@, damage.field)]

\* The damages that the importer has no message for.
Undamaged == doc = getJson(source)
SizesLost == damage.how = "missing" /\ damage.field = "sizes"
SizeNoNumber == damage.how = "no number"
ForeignText == damage.how = "foreign"

\* A Scop that is imported means what the exported SCoP meant, also when its
\* file was damaged, but for two losses that go unnoticed: without its sizes an
\* array is a scalar, and in a build without assertions a statement keeps, in
\* the one place that was damaged, the text of another statement.
RoundTrip ==
  outcome = "scop" =>
    /\ ~SizesLost /\ (ForeignText => assertions) => made = Meaning(source)
    /\ SizesLost => made = Flattened(Meaning(source))
    /\ ForeignText /\ ~assertions => made = Misattributed(Meaning(source))

\* The SCoPs both sides agree on.
Importable(S) ==
  \A k \in DOMAIN S.arrays :
    /\ S.arrays[k].type \in DOMAIN string_to_MemType
    /\ S.arrays[k].isArrayKind =>
         \A i \in DOMAIN S.arrays[k].dims :
           S.arrays[k].dims[i] = Unknown \/ stoi_ok(S.arrays[k].dims[i])

\* For those, a file as written is imported, and of a damaged one the returned
\* message tells, but for three damages: without its sizes an array is imported
\* silently; a size that is no number makes std::stoi throw; and text of another
\* statement fails an assertion or, in a build without them, is imported.
DamageIsReported ==
  Importable(source) /\ outcome # "none" =>
    /\ Undamaged \/ SizesLost => outcome = "scop"
    /\ ~Undamaged /\ SizeNoNumber => outcome = "throws"
    /\ ~Undamaged /\ ForeignText =>
         outcome = IF assertions THEN "asserts" ELSE "scop"
    /\ ~(Undamaged \/ SizesLost \/ SizeNoNumber \/ ForeignText) => outcome = "error"

\* An import that fails, at whatever field, has freed its isl context after
\* everything in it; one that succeeds has left it to the Scop.
NothingLeft ==
  /\ isl_ctxt # "leaked"
  /\ locals = <<>> => isl_ctxt = (IF outcome = "scop" THEN "scop" ELSE "freed")

\* What the unit test of from_scopson asserts of an exported file: it gives a
\* Scop.
ImportsExported ==
  damage.place = "nowhere" => outcome \in {"none", "scop"}
=============================================================================
