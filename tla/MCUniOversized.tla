--------------------------- MODULE MCUniOversized ---------------------------
(* One consumer thread, and a client that asks for more than the ring holds. *)
EXTENDS UniDisruptor

const_Stage == <<1>>
=============================================================================
