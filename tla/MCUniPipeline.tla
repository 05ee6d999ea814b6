--------------------------- MODULE MCUniPipeline ---------------------------
(* A consumer thread whose handler may panic beside a poller, and a thread *)
(* and a poller after both of them.                                        *)
EXTENDS UniDisruptor

const_Stage == <<1, 1, 2, 2>>
=============================================================================
