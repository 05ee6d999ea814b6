-------------------------- MODULE MCMultiLiveness ---------------------------
(* Two producers and two consumer threads in stages, none of them failing. *)
EXTENDS MultiDisruptor

const_Stage == <<1, 2>>
=============================================================================
