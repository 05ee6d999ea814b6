--------------------------- MODULE MCUniLiveness ---------------------------
(* A thread, a poller whose client keeps polling one event at a time, and a *)
(* thread after both.                                                       *)
EXTENDS UniDisruptor

const_Stage == <<1, 1, 2>>
=============================================================================
