-------------------------- MODULE MCMultiOrdering --------------------------
(* Two producers whose bits share a word, one of which has updates that    *)
(* panic, and one consumer thread whose handler may panic.                 *)
EXTENDS MultiOrdering

const_Stage == <<1>>
=============================================================================
