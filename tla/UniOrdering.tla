---------------------------- MODULE UniOrdering ----------------------------
(***************************************************************************)
(* The single-producer disruptor on WeakMemory: UniDisruptor with the      *)
(* orderings of producer/uni.rs, over the consumers of ConsumerOrdering.   *)
(***************************************************************************)
EXTENDS UniDisruptor, ConsumerOrdering

ASSUME WritersAssumption == Writers = {0} /\ Words = {}

P == ProducerThread(0)

OrderedInit ==
  /\ Init
  /\ InitMemory([x \in AllLocations |-> NONE])
  /\ writer = <<>>

-----------------------------------------------------------------------------

\* Mutant: a claim made on the slow path is not fenced.
HavingClaimedUnfenced(views, rear) == views

\* next_sequences fences before it goes on with a claim.
HavingClaimed(views, rear) ==
  IF FreeSlots(sequence - 1, rear) >= request.n THEN AcquireFence(views) ELSE views

\* LoadRear with any message still visible to the producer.
LoadRearOrdered ==
  /\ ppc = "claim"
  /\ \E c \in rear_unread : \E i \in Visible(P, ConsumerCursor(c)) :
       LET minimum == MinOf(memory[ConsumerCursor(c)][i].value, rear_lowest)
           views == Loaded(ViewsOf(P), ConsumerCursor(c), i)
       IN
       /\ IsFirst(c, rear_unread)
       /\ \/ /\ rear_unread = {c}
             /\ ClaimAgainst(minimum)
             /\ SetViews(P, HavingClaimed(views, minimum))
          \/ /\ rear_unread # {c}
             /\ rear_unread' = rear_unread \ {c}
             /\ rear_lowest' = minimum
             /\ SetViews(P, views)
             /\ UNCHANGED <<ppc, sequence_clear_of_consumers, position>>
  /\ UNCHANGED <<slots, consumerVars, shutdown_at_sequence, producer_cursor,
                 sequence, request, joined, memory, writer>>

WriteEventOrdered ==
  /\ WriteEvent
  /\ SetViews(P, Accessed(ViewsOf(P), P, position))
  /\ writer' = [s \in DOMAIN writer \cup {position} |-> 0]
  /\ UNCHANGED memory

PublishOrdered ==
  /\ Publish
  /\ StoreAs(P, ViewsOf(P), ProducerCursor, producer_cursor', CursorOrdering(ProducerCursor))
  /\ UNCHANGED writer

\* The shutdown word takes nothing along.
DropOrdered ==
  /\ Drop
  /\ StoreAs(P, ViewsOf(P), ShutdownWord, shutdown_at_sequence', "Relaxed")
  /\ UNCHANGED writer

\* LoadProducerBarrier with any message still visible to c.
LoadProducerBarrierOrdered(c) ==
  /\ cpc[c] = "load"
  /\ WaitsForProducer(c)
  /\ \E i \in Visible(ConsumerThread(c), ProducerCursor) :
       LET highest == memory[ProducerCursor][i].value
           views == Loaded(ViewsOf(ConsumerThread(c)), ProducerCursor, i)
       IN
       /\ Observed(c, highest)
       /\ SetViews(ConsumerThread(c), HavingObtained(c, views, highest))
  /\ UNCHANGED <<slots, consumer_cursor, consumer_sequence, shutdown_at_sequence,
                 producerVars, memory, writer>>

\* Steps that touch no shared word: a claim on the cached bound, an update that
\* unwinds, a thread that is joined.  Calls for no event at all, each of which
\* would store the cursor once more as it is, are left to UniDisruptor.
LocalStep ==
  /\ \/ \E n \in 1 .. MaxBatch, blocking \in BOOLEAN : Call(n, blocking)
     \/ UpdatePanics
     \/ \E c \in Managed : Join(c)
     \/ DropReturns
     \/ Terminated
  /\ UNCHANGED orderVars

OrderedNext ==
  \/ LoadRearOrdered
  \/ WriteEventOrdered
  \/ PublishOrdered
  \/ DropOrdered
  \/ LocalStep
  \/ \E c \in Consumers :
       \/ LoadProducerBarrierOrdered(c)
       \/ ConsumerStepOrdered(c) /\ UNCHANGED producerVars
       \/ ConsumerFailure(c) /\ UNCHANGED <<producerVars, orderVars>>

OrderedSpec == OrderedInit /\ [][OrderedNext]_<<vars, orderVars>>

-----------------------------------------------------------------------------

\* No access of an event races with another: uni.rs:212-214 and 233-234 on the
\* producer's side, the acquire fences of uni.rs:187, managed.rs:186 and
\* unmanaged.rs:233 and the release stores of cursor.rs:50 between them.
RaceFree == RaceFreeAgainst([p \in Writers |-> WriteSet])

(***************************************************************************)
(* The inductive invariant.                                                *)
(***************************************************************************)

OrderedTypeOK == TypeOK /\ OrderTypeOK

\* The same of the producer's cursor as of the consumers'.
ProducerMessageInv ==
  \A i \in DOMAIN memory[ProducerCursor] :
    LET message == memory[ProducerCursor][i] IN
    /\ message.value \in Int /\ message.value <= producer_cursor
    /\ Written(message.view, message.value)

\* The cached bound is good for as long as it lasts: what it was computed from
\* has been fenced.  An update that starts over knows its earlier writes.
ProducerViewInv ==
  /\ Written(cur[P], producer_cursor)
  /\ ppc = "write" => Written(cur[P], position - 1)
  /\ \A u \in LastStage \ rear_unread : Passed(acq[P], u, rear_lowest)
  /\ \A c \in Consumers :
       cur[P].done[ConsumerThread(c)] >= sequence_clear_of_consumers - Size

\* Everything published has been written by somebody.
WriterInv ==
  /\ 0 .. producer_cursor \subseteq DOMAIN writer
  /\ ppc = "write" => sequence .. position - 1 \subseteq DOMAIN writer

\* The inductive invariant behind RaceFree: every message a thread may still
\* load, and every view it has, covers what the loads of next_sequences and
\* get_after rely on, beside what IInv says of the newest values.
OrderedIInv ==
  /\ OrderedTypeOK
  /\ IInv
  /\ CursorMessageInv /\ ConsumerViewInv /\ AcquireInv /\ ShutdownMessageInv
  /\ ProducerMessageInv /\ ProducerViewInv /\ WriterInv
=============================================================================
