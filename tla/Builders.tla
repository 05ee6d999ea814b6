------------------------------ MODULE Builders ------------------------------
(***************************************************************************)
(* A client that builds one disruptor of either kind: the two builders     *)
(* over the same context (builder/mod.rs).                                 *)
(***************************************************************************)
EXTENDS Builder

VARIABLE kind   \* what the chain was begun with, build_uni_producer or the other

Uni == INSTANCE UPBuilder

Multi == INSTANCE MPBuilder

InitEither ==
  /\ Init
  /\ kind \in {"uni", "multi"}

Next ==
  /\ \/ kind = "uni" /\ Uni!Next
     \/ kind = "multi" /\ Multi!Next
  /\ UNCHANGED kind

Spec == InitEither /\ [][Next]_<<vars, kind>>

FairSpec == Spec /\ Fairness
=============================================================================
