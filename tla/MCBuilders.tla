---------------------------- MODULE MCBuilders ----------------------------
(* Chains of up to three consumers, of sizes that are accepted and refused; *)
(* threads may be named and pinned, to a core there is and to one there is  *)
(* not.                                                                     *)
EXTENDS Builders
===========================================================================
