---------------------------- MODULE MCMultiWords ----------------------------
(* Batches and scans that run over two words of two bits each. *)
EXTENDS MultiDisruptor

const_Stage == <<1>>
=============================================================================
