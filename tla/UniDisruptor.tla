---------------------------- MODULE UniDisruptor ----------------------------
(***************************************************************************)
(* The single-producer disruptor: UniProducer and UniProducerBarrier of    *)
(* producer/uni.rs, over the consumers of Consumers.                       *)
(*                                                                         *)
(* A call of try_publish, publish, try_batch_publish or batch_publish is   *)
(* taken apart into the steps other threads can see: the decision on the   *)
(* cached bound, one load per gating cursor, the write of each event and   *)
(* the store of the producer cursor.                                       *)
(***************************************************************************)
EXTENDS Consumers

CONSTANTS
  MaxBatch,    \* bound: events a client asks for in one call
  MaxSequence  \* bound: no call asks for a sequence beyond this one

\* Sequences stay clear of i64::MAX.
ASSUME BoundsAssumption ==
  /\ MaxBatch \in Nat
  /\ MaxSequence \in Nat
  /\ MaxSequence <= I64Max

VARIABLES
  producer_cursor,              \* UniProducerBarrier.cursor
  sequence,                     \* UniProducer.sequence, the next to publish
  sequence_clear_of_consumers,  \* the cached bound of the fast path
  ppc,                          \* what the producer is doing
  request,                      \* the call in progress: n events, may it spin
  rear_unread, rear_lowest,     \* the fold over the gating cursors
  position,                     \* next event the update will write
  joined                        \* consumer threads joined by drop()

callVars == <<request, rear_unread, rear_lowest, position>>
producerVars == <<producer_cursor, sequence, sequence_clear_of_consumers, ppc,
                  callVars, joined>>
vars == <<slots, consumerVars, shutdown_at_sequence, producerVars>>

Requests == [n : Nat, blocking : BOOLEAN]

\* Highest sequence of the call in progress.
Upper == sequence + request.n - 1

TypeOK ==
  /\ SlotsTypeOK
  /\ ConsumersTypeOK
  /\ producer_cursor \in Int
  /\ sequence \in Nat
  /\ sequence_clear_of_consumers \in Int
  /\ ppc \in {"idle", "claim", "write", "join", "dropped", "failed"}
  /\ request \in Requests
  /\ rear_unread \in SUBSET LastStage
  /\ rear_lowest \in Int
  /\ position \in Int
  /\ joined \in SUBSET Managed

Init ==
  /\ InitSlots
  /\ InitConsumers
  /\ producer_cursor = NONE
  /\ sequence = 0
  /\ sequence_clear_of_consumers = Size - 1
  /\ ppc = "idle"
  /\ request = [n |-> 0, blocking |-> FALSE]
  /\ rear_unread = LastStage
  /\ rear_lowest = I64Max
  /\ position = 0
  /\ joined = {}

-----------------------------------------------------------------------------

\* Mutant: the iterator over the batch starts one event late.
ClaimedLate ==
  /\ ppc' = "write"
  /\ position' = sequence + 1

\* next_sequences returned Ok: the update starts at the first event.
Claimed ==
  /\ ppc' = "write"
  /\ position' = sequence

\* A call for n events; blocking is publish() and batch_publish().  The cached
\* bound decides without a load whenever it can.
Call(n, blocking) ==
  /\ ppc = "idle"
  /\ sequence - 1 + n <= MaxSequence
  /\ request' = [n |-> n, blocking |-> blocking]
  /\ \/ /\ sequence_clear_of_consumers >= sequence - 1 + n
        /\ Claimed
     \/ /\ sequence_clear_of_consumers < sequence - 1 + n
        /\ ppc' = "claim"
        /\ UNCHANGED position
  /\ UNCHANGED <<slots, consumerVars, shutdown_at_sequence, producer_cursor,
                 sequence, sequence_clear_of_consumers, rear_unread, rear_lowest, joined>>

\* The slow path of next_sequences with the slowest gating cursor at hand.  A
\* call that may not spin returns the error; one that may asks again.
ClaimAgainst(rear) ==
  LET last_published == sequence - 1
      free_slots == FreeSlots(last_published, rear)
  IN
  /\ rear_unread' = LastStage
  /\ rear_lowest' = I64Max
  /\ \/ /\ free_slots < request.n
        /\ ppc' = IF request.blocking THEN "claim" ELSE "idle"
        /\ UNCHANGED <<sequence_clear_of_consumers, position>>
     \/ /\ free_slots >= request.n
        /\ sequence_clear_of_consumers' = last_published + free_slots
        /\ Claimed

\* One load of the consumer barrier's fold.
LoadRear ==
  /\ ppc = "claim"
  /\ \E c \in rear_unread :
       LET minimum == MinOf(consumer_cursor[c], rear_lowest) IN
       /\ IsFirst(c, rear_unread)
       /\ \/ /\ rear_unread = {c}
             /\ ClaimAgainst(minimum)
          \/ /\ rear_unread # {c}
             /\ rear_unread' = rear_unread \ {c}
             /\ rear_lowest' = minimum
             /\ UNCHANGED <<ppc, sequence_clear_of_consumers, position>>
  /\ UNCHANGED <<slots, consumerVars, shutdown_at_sequence, producer_cursor,
                 sequence, request, joined>>

\* The update writes the next event it claimed.
WriteEvent ==
  /\ ppc = "write"
  /\ position <= Upper
  /\ WriteSlot(position)
  /\ position' = position + 1
  /\ UNCHANGED <<consumerVars, shutdown_at_sequence, producer_cursor, sequence,
                 sequence_clear_of_consumers, ppc, request, rear_unread, rear_lowest, joined>>

\* Mutant: `sequence` is taken for the last one published.
PublishStale ==
  /\ ppc = "write"
  /\ position > Upper
  /\ producer_cursor' = Upper
  /\ sequence' = Upper
  /\ ppc' = "idle"
  /\ UNCHANGED <<slots, consumerVars, shutdown_at_sequence,
                 sequence_clear_of_consumers, callVars, joined>>

\* The update is done: one store makes the whole batch visible.
Publish ==
  /\ ppc = "write"
  /\ position > Upper
  /\ producer_cursor' = Upper
  /\ sequence' = sequence + request.n
  /\ ppc' = "idle"
  /\ UNCHANGED <<slots, consumerVars, shutdown_at_sequence,
                 sequence_clear_of_consumers, callVars, joined>>

\* The update unwinds and the client keeps the producer (or drops it): neither
\* the cursor nor `sequence` has moved, what was written stays in the slots.
UpdatePanics ==
  /\ ppc = "write"
  /\ ppc' = "idle"
  /\ UNCHANGED <<slots, consumerVars, shutdown_at_sequence, producer_cursor, sequence,
                 sequence_clear_of_consumers, callVars, joined>>

\* Mutant: the last sequence is announced, not the one after it.
DropAtLast ==
  /\ ppc = "idle"
  /\ shutdown_at_sequence' = sequence - 1
  /\ ppc' = "join"
  /\ UNCHANGED <<slots, consumerVars, producer_cursor, sequence,
                 sequence_clear_of_consumers, callVars, joined>>

\* drop(): announce where the stream ends, then join.
Drop ==
  /\ ppc = "idle"
  /\ shutdown_at_sequence' = sequence
  /\ ppc' = "join"
  /\ UNCHANGED <<slots, consumerVars, producer_cursor, sequence,
                 sequence_clear_of_consumers, callVars, joined>>

\* Join the next consumer thread.  One that panicked makes join() panic, and
\* the threads after it are never joined.
Join(c) ==
  /\ ppc = "join"
  /\ IsFirst(c, Managed \ joined)
  /\ \/ /\ cpc[c] = "exited"
        /\ joined' = joined \cup {c}
        /\ UNCHANGED ppc
     \/ /\ cpc[c] = "panicked"
        /\ ppc' = "failed"
        /\ UNCHANGED joined
  /\ UNCHANGED <<slots, consumerVars, shutdown_at_sequence, producer_cursor, sequence,
                 sequence_clear_of_consumers, callVars>>

DropReturns ==
  /\ ppc = "join"
  /\ joined = Managed
  /\ ppc' = "dropped"
  /\ UNCHANGED <<slots, consumerVars, shutdown_at_sequence, producer_cursor, sequence,
                 sequence_clear_of_consumers, callVars, joined>>

\* A consumer of stage 1 loads the producer's cursor.
LoadProducerBarrier(c) ==
  /\ cpc[c] = "load"
  /\ WaitsForProducer(c)
  /\ Observed(c, producer_cursor)
  /\ UNCHANGED <<slots, consumer_cursor, consumer_sequence, shutdown_at_sequence, producerVars>>

\* Everybody has stopped for good.
Terminated ==
  /\ ppc \in {"dropped", "failed"}
  /\ \A c \in Consumers : cpc[c] \in {"exited", "panicked"}
  /\ UNCHANGED vars

ProducerStep ==
  LoadRear \/ WriteEvent \/ Publish \/ DropReturns \/ \E c \in Managed : Join(c)

Client ==
  \/ \E n \in 0 .. MaxBatch, blocking \in BOOLEAN : Call(n, blocking)
  \/ UpdatePanics
  \/ Drop

Advance(c) == LoadProducerBarrier(c) \/ (ConsumerStep(c) /\ UNCHANGED producerVars)

Next ==
  \/ Client
  \/ ProducerStep
  \/ \E c \in Consumers : Advance(c)
  \/ \E c \in Consumers : ConsumerFailure(c) /\ UNCHANGED producerVars
  \/ Terminated

Spec == Init /\ [][Next]_vars

\* Threads keep running, a call once made is carried through, and a client
\* keeps polling; nobody has to make a call, panic or drop the producer.
Fairness ==
  /\ WF_vars(ProducerStep)
  /\ \A c \in Consumers : WF_vars(Advance(c))

FairSpec == Spec /\ Fairness

-----------------------------------------------------------------------------

(***************************************************************************)
(* Safety.                                                                 *)
(***************************************************************************)

\* Sequences whose events the running update has exclusive references to.
WriteSet == IF ppc = "write" THEN sequence .. Upper ELSE {}

\* The `SAFE:` comments of apply_update(s) (uni.rs:212-214, 233-234): nobody
\* holds a reference to a slot the producer may be writing.
NoDataRace ==
  \A c \in Consumers : \A s \in WriteSet, t \in ReadSet(c) : SlotOf(s) # SlotOf(t)

\* Backpressure (uni.rs:176-192): an event is overwritten only after every
\* consumer of every stage has given it back.
NoEventLost ==
  [][\A i \in Slots : slots'[i] # slots[i] =>
        \A c \in Consumers : consumer_cursor[c] >= slots[i]]_vars

\* The disruptor is a broadcast channel (lib.rs:66-68, consumer/mod.rs:13-16).
Promise == INSTANCE Broadcast WITH
  published <- producer_cursor + 1,
  released <- [c \in Consumers |-> consumer_cursor[c] + 1],
  closed <- shutdown_at_sequence # NONE,
  finished <- {c \in Consumers : cpc[c] = "exited"}

KeepsPromise == Promise!Spec

(***************************************************************************)
(* The inductive invariant.                                                *)
(***************************************************************************)

\* The producer's own bookkeeping.
ProducerInv ==
  /\ producer_cursor = sequence - 1
  /\ producer_cursor <= MaxSequence
  /\ sequence_clear_of_consumers >= sequence - 1
  /\ ppc \in {"claim", "write"} => Upper <= MaxSequence
  /\ ppc = "claim" => sequence_clear_of_consumers < Upper
  /\ ppc = "write" => /\ Upper <= sequence_clear_of_consumers
                      /\ sequence <= position /\ position <= Upper + 1
  /\ ppc \in {"join", "dropped", "failed"} => shutdown_at_sequence = sequence
  /\ ppc \in {"idle", "claim", "write"} => shutdown_at_sequence = NONE

\* The cached bound, and what the producer's fold has seen so far, are behind
\* the cursors of every consumer that counts.
ClearInv ==
  /\ \A c \in Consumers : sequence_clear_of_consumers <= consumer_cursor[c] + Size
  /\ \A c \in LastStage \ rear_unread : rear_lowest <= consumer_cursor[c]

\* Published events some consumer may still come back to are where they belong,
\* and so is what an update has written; nothing is beyond the cached bound.
SlotInv ==
  /\ \A s \in 0 .. producer_cursor :
       sequence_clear_of_consumers < s + Size => slots[SlotOf(s)] = s
  /\ ppc = "write" => \A s \in sequence .. position - 1 : slots[SlotOf(s)] = s
  /\ \A i \in Slots : slots[i] # NONE => /\ SlotOf(slots[i]) = i
                                       /\ slots[i] <= sequence_clear_of_consumers

IInv == ProducerInv /\ ClearInv /\ ConsumerInv(producer_cursor) /\ SlotInv

(***************************************************************************)
(* Liveness, under FairSpec.                                               *)
(***************************************************************************)

\* publish() never fails (uni.rs:87-89): a call that may spin gets its slots.
PublishGetsSlots == ppc = "claim" /\ request.blocking ~> ppc = "write"

\* Every published event reaches every consumer (lib.rs:66-68).
EventuallyReleased ==
  \A c \in Consumers, s \in 0 .. MaxSequence :
    producer_cursor >= s ~> consumer_cursor[c] >= s

\* drop() comes back once everything is processed (uni.rs:125-132).
DropCompletes == ppc = "join" ~> ppc = "dropped"
=============================================================================
