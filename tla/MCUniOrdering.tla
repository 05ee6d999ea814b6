--------------------------- MODULE MCUniOrdering ---------------------------
(* A thread and a poller in parallel, and a thread after both of them. *)
EXTENDS UniOrdering

const_Stage == <<1, 1, 2>>
=============================================================================
