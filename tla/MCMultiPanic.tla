---------------------------- MODULE MCMultiPanic ----------------------------
(* One producer whose update may panic, one consumer thread. *)
EXTENDS MultiDisruptor

const_Stage == <<1>>
=============================================================================
