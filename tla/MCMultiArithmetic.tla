------------------------- MODULE MCMultiArithmetic -------------------------
(* Rings of one and of two words of four bits, integers of six bits. *)
EXTENDS MultiArithmetic
=============================================================================
