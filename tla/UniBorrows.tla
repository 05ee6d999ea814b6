----------------------------- MODULE UniBorrows -----------------------------
(***************************************************************************)
(* UniDisruptor with the references a batch iterator yields: MutBatchIter  *)
(* of producer/mod.rs gives them the lifetime of the producer's borrow     *)
(* ('a of batch_publish), so that an update may put them where they        *)
(* outlive it.  As long as one of them is alive, the producer is borrowed  *)
(* and the client can neither call nor drop it.                            *)
(***************************************************************************)
EXTENDS UniDisruptor

VARIABLE kept  \* sequences the client still has exclusive references to

BorrowsInit == Init /\ kept = {}

\* The update of a batch has kept any of the references, or none.
PublishKeeping ==
  /\ Publish
  /\ kept' \in SUBSET (sequence .. Upper)

\* The client lets go of them.
LetGo ==
  /\ kept # {}
  /\ kept' = {}
  /\ UNCHANGED vars

BorrowsNext ==
  \/ PublishKeeping
  \/ LetGo
  \/ Client /\ kept = {} /\ UNCHANGED kept
  \/ LoadRear /\ UNCHANGED kept
  \/ WriteEvent /\ UNCHANGED kept
  \/ \E c \in Managed : Join(c) /\ UNCHANGED kept
  \/ DropReturns /\ UNCHANGED kept
  \/ \E c \in Consumers : Advance(c) /\ UNCHANGED kept
  \/ Terminated /\ UNCHANGED kept

BorrowsSpec == BorrowsInit /\ [][BorrowsNext]_<<vars, kept>>

-----------------------------------------------------------------------------

\* "You can't hold onto them after the batch is published"
\* (producer/mod.rs:98-99): no consumer is handed an event a client can still
\* write to.
KeptNotRead ==
  \A c \in Consumers : \A s \in kept, t \in ReadSet(c) : SlotOf(s) # SlotOf(t)
=============================================================================
