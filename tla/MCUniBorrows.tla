---------------------------- MODULE MCUniBorrows ----------------------------
(* One consumer thread beside a client that keeps what it was lent. *)
EXTENDS UniBorrows

const_Stage == <<1>>
=============================================================================
