------------------------------- MODULE ScopUse -------------------------------
(***************************************************************************)
(* from_scopson and its caller: the Scop that is returned, once the frame  *)
(* of from_scopson has been left, is moved about and destroyed together     *)
(* with one from an earlier call.                                          *)
(***************************************************************************)
EXTENDS ScopsonExchange

CONSTANTS Holder, Context, None, NoScop, ThisCall, EarlierCall

ASSUME UseAssumption ==
  Context = {ThisCall, EarlierCall} /\ ThisCall # EarlierCall

VARIABLES scops, heap, careless

O == INSTANCE ScopOwnership

\* None is no context, NoScop no Scop.
ASSUME HolderAssumption == None \notin Context /\ NoScop \notin O!ScopType

Returned == outcome = "scop" /\ locals = <<>>

UseInit == Init /\ O!Init

\* The caller has the Scop of this call when the context was left to it.
Receive(h) ==
  /\ Returned /\ isl_ctxt = "scop"
  /\ O!Import(h, ThisCall)
  /\ UNCHANGED vars

ReceiveEarlier(h) ==
  /\ Returned
  /\ O!Import(h, EarlierCall)
  /\ UNCHANGED vars

UseNext ==
  \/ Next /\ UNCHANGED <<scops, heap, careless>>
  \/ \E h \in Holder : Receive(h) \/ ReceiveEarlier(h)
  \/ O!Use /\ UNCHANGED vars

UseSpec == UseInit /\ [][UseNext]_<<vars, scops, heap, careless>>

-----------------------------------------------------------------------------
(* Properties. *)

\* However the Scops that from_scopson returned are moved about, one variable
\* owns each context, has all its objects in it, and no object left behind in a
\* Scop that was moved from outlives the context it refers to.
ScopIsWhole == O!ScopIsWhole

\* A context lives as long as a Scop owns it and is freed with it; it is lost
\* only if its Scop was assigned over or destroyed before one moved from.
FreedWithScop == O!FreedWithScop
=============================================================================
