-------------------------- MODULE MCMultiPipeline ---------------------------
(* Two producers, one of which has updates that panic, a consumer thread    *)
(* whose handler may panic, and a poller after it.                          *)
EXTENDS MultiDisruptor

const_Stage == <<1, 2>>
=============================================================================
