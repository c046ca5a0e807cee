---------------------------- MODULE ScopOwnership ----------------------------
(***************************************************************************)
(* Who owns the isl context of a Scop (optimizer/include/polly_ml_optimizer/ *)
(* scop.hpp), while a program moves, assigns and destroys Scops.           *)
(*                                                                         *)
(* A Scop owns its context through a unique_ptr and holds isl objects that *)
(* live in it.  Its moves are the defaulted ones, member by member.  A      *)
(* unique_ptr and the vectors of MemRefs and Statements hand over what they *)
(* have; the C++ classes of isl have no moves and copy, so that a Scop that *)
(* has been moved from still holds a set and five maps of the context.     *)
(***************************************************************************)
CONSTANTS
  Holder,      \* the variables of a program that may hold a Scop
  Context,     \* the isl contexts that from_scopson may allocate
  None,        \* a unique_ptr or a vector with nothing in it
  NoScop       \* a variable that has no Scop yet, or no more

\* Each member by the context that it owns or that its objects live in.
ScopType ==
  [isl_ctxt : Context \cup {None},
   context  : Context,
   lists    : Context \cup {None},   \* memory_refs and stmts
   deps     : Context]

VARIABLES
  scops,       \* [Holder -> NoScop or a Scop]
  heap,        \* [Context -> "unused", "live", "freed" or "leaked"]
  careless     \* history: contexts whose owner went before one moved from

vars == <<scops, heap, careless>>

Holds(h) == scops[h] # NoScop
Owns(h, c) == Holds(h) /\ scops[h].isl_ctxt = c

\* An object of h refers to the context.
Refers(h, c) ==
  Holds(h) /\ c \in {scops[h].context, scops[h].lists, scops[h].deps}

\* isl_ctx_free() warns and does nothing while an object refers to the context;
\* IslCtxDeleter has given its pointer up all the same.
isl_ctx_free(c, referred) ==
  heap' = IF c = None THEN heap
          ELSE [heap EXCEPT ![c] = IF referred THEN "leaked" ELSE "freed"]

-----------------------------------------------------------------------------
\* Wrong: isl_ctxt is a plain pointer.
MovedFromPlain(s) == [s EXCEPT !.lists = None]

\* What a move leaves behind.
MovedFrom(s) == [s EXCEPT !.isl_ctxt = None, !.lists = None]

\* from_scopson returns a Scop.
Import(h, c) ==
  /\ ~Holds(h)
  /\ heap[c] = "unused"
  /\ scops' = [scops EXCEPT ![h] = [isl_ctxt |-> c, context |-> c,
                                    lists |-> c, deps |-> c]]
  /\ heap' = [heap EXCEPT ![c] = "live"]
  /\ UNCHANGED careless

\* Scop k = std::move(h);
MoveConstruct(h, k) ==
  /\ Holds(h) /\ ~Holds(k)
  /\ scops' = [scops EXCEPT ![k] = scops[h], ![h] = MovedFrom(@)]
  /\ UNCHANGED <<heap, careless>>

\* k = std::move(h);  The context of k is freed first, being the first member.
MoveAssign(h, k) ==
  /\ Holds(h) /\ Holds(k) /\ h # k
  /\ isl_ctx_free(scops[k].isl_ctxt, \E i \in Holder : Refers(i, scops[k].isl_ctxt))
  /\ scops' = [scops EXCEPT ![k] = scops[h], ![h] = MovedFrom(@)]
  /\ careless' = careless \cup ({scops[k].isl_ctxt} \ {None})

\* Wrong: isl_ctxt is the last member, and is destroyed first.
DestroyContextFirst(h) ==
  /\ Holds(h)
  /\ isl_ctx_free(scops[h].isl_ctxt, \E i \in Holder : Refers(i, scops[h].isl_ctxt))
  /\ scops' = [scops EXCEPT ![h] = NoScop]
  /\ careless' = careless \cup
       {c \in Context : Owns(h, c) /\ \E i \in Holder \ {h} : Refers(i, c)}

\* The members are destroyed from the last to the first: isl_ctxt.
Destroy(h) ==
  /\ Holds(h)
  /\ isl_ctx_free(scops[h].isl_ctxt,
                  \E i \in Holder \ {h} : Refers(i, scops[h].isl_ctxt))
  /\ scops' = [scops EXCEPT ![h] = NoScop]
  /\ careless' = careless \cup
       {c \in Context : Owns(h, c) /\ \E i \in Holder \ {h} : Refers(i, c)}

Init ==
  /\ scops = [h \in Holder |-> NoScop]
  /\ heap = [c \in Context |-> "unused"]
  /\ careless = {}

Use ==
  \/ \E h, k \in Holder : MoveConstruct(h, k) \/ MoveAssign(h, k)
  \/ \E h \in Holder : Destroy(h)

Next == Use \/ \E h \in Holder, c \in Context : Import(h, c)

Spec == Init /\ [][Next]_vars

-----------------------------------------------------------------------------
\* The types of the variables.
OwnershipTypeOK ==
  /\ scops \in [Holder -> ScopType \cup {NoScop}]
  /\ heap \in [Context -> {"unused", "live", "freed", "leaked"}]
  /\ careless \in SUBSET Context

\* However Scops are moved about, one of them owns a context, it has all its
\* objects in that context, and no object, of a Scop moved from either, is in
\* a context that has been freed.
ScopIsWhole ==
  \A h \in Holder : Holds(h) =>
    /\ scops[h].isl_ctxt # None =>
         /\ heap[scops[h].isl_ctxt] = "live"
         /\ \A c \in {scops[h].context, scops[h].lists, scops[h].deps} :
              c = scops[h].isl_ctxt
         /\ \A k \in Holder \ {h} : ~Owns(k, scops[h].isl_ctxt)
    /\ scops[h].isl_ctxt = None => scops[h].lists = None
    /\ \A c \in Context : Refers(h, c) => heap[c] \in {"live", "leaked"}

\* A context that is allocated is freed with its Scop.  It is lost only if a
\* Scop was assigned over, or destroyed before one that it was moved out of.
FreedWithScop ==
  \A c \in Context :
    /\ heap[c] = "live" => \E h \in Holder : Owns(h, c)
    /\ heap[c] = "leaked" => c \in careless
=============================================================================
