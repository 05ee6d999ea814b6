----------------------------- MODULE Consumers -----------------------------
(***************************************************************************)
(* The consumer side of a disruptor, shared by the single- and the         *)
(* multi-producer one: managed consumer threads (consumer/managed.rs),     *)
(* event pollers (consumer/unmanaged.rs) and the barriers that chain them  *)
(* (consumer/mod.rs).                                                      *)
(*                                                                         *)
(* Consumers are numbered in the order the builder created them.  Stage[c] *)
(* is the number of and_then() calls before c, plus one: stage 1 waits for *)
(* the producer barrier, a later stage for the consumer barrier over the   *)
(* cursors of the stage before it.  A consumer barrier is a fold of one    *)
(* relaxed load per cursor, each of them a step of its own here.           *)
(*                                                                         *)
(* How stage 1 loads the producer barrier is left to the modules that      *)
(* extend this one: they end that load with Observed(c, highest).          *)
(***************************************************************************)
EXTENDS RingBuffer

CONSTANTS
  ConsumerCount,  \* consumers of all stages
  Pollers,        \* those driven by poll() from a client thread
  Depth,          \* number of stages
  Stage,          \* the stage of each consumer
  Faulty,         \* managed consumers whose event handler may panic
  Limits,         \* arguments a client passes to poll_take()
  I64Max          \* i64::MAX: where folds start and additions saturate

Consumers == 1 .. ConsumerCount
Managed == Consumers \ Pollers

ASSUME ConsumersAssumption ==
  /\ ConsumerCount \in Nat
  /\ Pollers \subseteq Consumers
  /\ Depth \in Nat \ {0}
  /\ Stage \in [Consumers -> 1 .. Depth]
  /\ \A i \in 1 .. Depth : \E c \in Consumers : Stage[c] = i
  /\ \A c, d \in Consumers : c < d => Stage[c] <= Stage[d]
  /\ Faulty \subseteq Managed
  /\ Limits \subseteq Nat
  /\ I64Max \in Nat

VARIABLES
  consumer_cursor,      \* cursor of each consumer: the last sequence it gave back
  cpc,                  \* what each consumer is about to do
  consumer_sequence,    \* its local `sequence`
  available,            \* its local `available`: end of the batch it is in
  unread,               \* cursors its barrier fold has still to load
  lowest,               \* minimum of those the fold has loaded
  shutdown_at_sequence  \* written once, when the last producer is dropped

consumerVars == <<consumer_cursor, cpc, consumer_sequence, available, unread, lowest>>

-----------------------------------------------------------------------------

\* Mutant: and_then() leaves the dependent barrier as it was.
WaitsForProducerAlways(c) == c \in Consumers

\* Stage 1 is built with the producer barrier as its dependent barrier.
WaitsForProducer(c) == Stage[c] = 1

\* Mutant: and_then() after several consumers takes the first cursor only.
UpstreamFirst(c) ==
  {u \in Consumers : /\ Stage[u] = Stage[c] - 1
                     /\ \A d \in Consumers : Stage[d] = Stage[u] => u <= d}

\* The cursors the barrier of c is built over: none of them for stage 1.
Upstream(c) == {u \in Consumers : Stage[u] = Stage[c] - 1}

\* Mutant: the producer is gated by the first stage.
LastStageFirst == {c \in Consumers : Stage[c] = 1}

\* The cursors that gate the producer: build() takes the current stage only.
LastStage == {c \in Consumers : Stage[c] = Depth}

\* Everything that must be done with an event before c may see it.
Before(c) == {u \in Consumers : Stage[u] < Stage[c]}

\* The element of a set of consumers a Vec of them is iterated at first.
IsFirst(c, set) == c \in set /\ \A d \in set : c <= d

\* Mutant: max instead of min.
MinOfMax(a, b) == IF a <= b THEN b ELSE a

MinOf(a, b) == IF a <= b THEN a ELSE b

\* Mutant: the addition wraps around.
SaturatingAddWraps(a, b) == IF a + b > I64Max THEN a + b - 2 * (I64Max + 1) ELSE a + b

SaturatingAdd(a, b) == MinOf(a + b, I64Max)

\* Sequences whose events c may hold references to.  A handler borrows one
\* event; the references of a guard live until the guard is dropped.
ReadSet(c) ==
  CASE cpc[c] = "handle" /\ consumer_sequence[c] <= available[c]
         -> {consumer_sequence[c]}
    [] cpc[c] = "guard" -> consumer_cursor[c] + 1 .. available[c]
    [] OTHER -> {}

-----------------------------------------------------------------------------

ConsumersTypeOK ==
  /\ consumer_cursor \in [Consumers -> Int]
  /\ cpc \in [Consumers -> {"idle", "load", "check", "handle", "guard",
                           "exited", "panicked"}]
  /\ consumer_sequence \in [Consumers -> Int]
  /\ available \in [Consumers -> Int]
  /\ unread \in [Consumers -> SUBSET Consumers]
  /\ lowest \in [Consumers -> Int]
  /\ shutdown_at_sequence \in Int

InitConsumers ==
  /\ consumer_cursor = [c \in Consumers |-> NONE]
  /\ cpc = [c \in Consumers |-> IF c \in Pollers THEN "idle" ELSE "load"]
  /\ consumer_sequence = [c \in Consumers |-> 0]
  /\ available = [c \in Consumers |-> NONE]
  /\ unread = [c \in Consumers |-> Upstream(c)]
  /\ lowest = [c \in Consumers |-> I64Max]
  /\ shutdown_at_sequence = NONE

-----------------------------------------------------------------------------

\* get_after returned at least the sequence waited for: a thread takes the
\* whole batch, a poller at most `limit` events of it.
Obtained(c, highest) ==
  /\ highest >= consumer_sequence[c]
  /\ \/ /\ c \in Managed
        /\ available' = [available EXCEPT ![c] = highest]
        /\ cpc' = [cpc EXCEPT ![c] = "handle"]
     \/ /\ c \in Pollers
        /\ \E limit \in Limits :
             available' = [available EXCEPT ![c] =
                             MinOf(highest, SaturatingAdd(consumer_cursor[c], limit))]
        /\ cpc' = [cpc EXCEPT ![c] = "guard"]

\* Nothing new: a thread goes on to the shutdown word, poll() returns NoEvents.
NothingNew(c, highest) ==
  /\ highest < consumer_sequence[c]
  /\ cpc' = [cpc EXCEPT ![c] = IF c \in Pollers THEN "idle" ELSE "check"]
  /\ UNCHANGED available

\* The barrier of c returned highest; the fold starts afresh next time.
Observed(c, highest) ==
  /\ Obtained(c, highest) \/ NothingNew(c, highest)
  /\ unread' = [unread EXCEPT ![c] = Upstream(c)]
  /\ lowest' = [lowest EXCEPT ![c] = I64Max]

\* One load of the fold of MultiConsumerBarrier::get_after, in Vec order; the
\* fold over one cursor is the plain load of UniConsumerBarrier.
LoadUpstream(c) ==
  /\ cpc[c] = "load"
  /\ \E u \in unread[c] :
       LET minimum == MinOf(consumer_cursor[u], lowest[c]) IN
       /\ IsFirst(u, unread[c])
       /\ \/ /\ unread[c] = {u}
             /\ Observed(c, minimum)
          \/ /\ unread[c] # {u}
             /\ unread' = [unread EXCEPT ![c] = @ \ {u}]
             /\ lowest' = [lowest EXCEPT ![c] = minimum]
             /\ UNCHANGED <<cpc, available>>
  /\ UNCHANGED <<consumer_cursor, consumer_sequence>>

\* Mutant: leave as soon as a shutdown is announced.
LoadShutdownAny(c) ==
  /\ cpc[c] = "check"
  /\ cpc' = [cpc EXCEPT ![c] = IF shutdown_at_sequence # NONE THEN "exited" ELSE "load"]
  /\ UNCHANGED <<consumer_cursor, consumer_sequence, available, unread, lowest>>

\* wait_for_events, barrier behind: leave the loop if the producers are done
\* at exactly this sequence, load the barrier again otherwise.
LoadShutdown(c) ==
  /\ cpc[c] = "check"
  /\ cpc' = [cpc EXCEPT ![c] =
               IF shutdown_at_sequence = consumer_sequence[c] THEN "exited" ELSE "load"]
  /\ UNCHANGED <<consumer_cursor, consumer_sequence, available, unread, lowest>>

\* The event handler returns from one event of the batch.
Handle(c) ==
  /\ cpc[c] = "handle"
  /\ consumer_sequence[c] <= available[c]
  /\ consumer_sequence' = [consumer_sequence EXCEPT ![c] = @ + 1]
  /\ UNCHANGED <<consumer_cursor, cpc, available, unread, lowest>>

\* The event handler unwinds: the thread is gone, its cursor stays behind.
HandlerPanics(c) ==
  /\ cpc[c] = "handle"
  /\ c \in Faulty
  /\ consumer_sequence[c] <= available[c]
  /\ cpc' = [cpc EXCEPT ![c] = "panicked"]
  /\ UNCHANGED <<consumer_cursor, consumer_sequence, available, unread, lowest>>

\* Mutant: the cursor is stored as the sequence waited for next.
ReleaseNext(c) ==
  /\ cpc[c] = "handle"
  /\ consumer_sequence[c] > available[c]
  /\ consumer_cursor' = [consumer_cursor EXCEPT ![c] = consumer_sequence[c]]
  /\ cpc' = [cpc EXCEPT ![c] = "load"]
  /\ UNCHANGED <<consumer_sequence, available, unread, lowest>>

\* End of the batch: give its slots back and wait for the next one.
Release(c) ==
  /\ cpc[c] = "handle"
  /\ consumer_sequence[c] > available[c]
  /\ consumer_cursor' = [consumer_cursor EXCEPT ![c] = consumer_sequence[c] - 1]
  /\ cpc' = [cpc EXCEPT ![c] = "load"]
  /\ UNCHANGED <<consumer_sequence, available, unread, lowest>>

\* Mutant: the shutdown word is compared with the cursor.
PollAtCursor(c) ==
  /\ cpc[c] = "idle"
  /\ consumer_sequence' = [consumer_sequence EXCEPT ![c] = consumer_cursor[c] + 1]
  /\ cpc' = [cpc EXCEPT ![c] =
               IF consumer_cursor[c] = shutdown_at_sequence THEN "exited" ELSE "load"]
  /\ UNCHANGED <<consumer_cursor, available, unread, lowest>>

\* poll_take up to its get_after: Shutdown once everything has been read.
\* "exited" is a client that has been told so.
Poll(c) ==
  /\ cpc[c] = "idle"
  /\ consumer_sequence' = [consumer_sequence EXCEPT ![c] = consumer_cursor[c] + 1]
  /\ cpc' = [cpc EXCEPT ![c] =
               IF consumer_cursor[c] + 1 = shutdown_at_sequence THEN "exited" ELSE "load"]
  /\ UNCHANGED <<consumer_cursor, available, unread, lowest>>

\* The client takes one more event from the guard.
GuardNext(c) ==
  /\ cpc[c] = "guard"
  /\ consumer_sequence[c] <= available[c]
  /\ consumer_sequence' = [consumer_sequence EXCEPT ![c] = @ + 1]
  /\ UNCHANGED <<consumer_cursor, cpc, available, unread, lowest>>

\* The guard is dropped, with events left or not: all of them are given back.
GuardDrop(c) ==
  /\ cpc[c] = "guard"
  /\ consumer_cursor' = [consumer_cursor EXCEPT ![c] = available[c]]
  /\ cpc' = [cpc EXCEPT ![c] = "idle"]
  /\ UNCHANGED <<consumer_sequence, available, unread, lowest>>

\* A step of consumer c that neither loads the producer barrier nor fails.
ConsumerStep(c) ==
  /\ \/ LoadUpstream(c)
     \/ LoadShutdown(c)
     \/ Handle(c)
     \/ Release(c)
     \/ Poll(c)
     \/ GuardNext(c)
     \/ GuardDrop(c)
  /\ UNCHANGED <<shutdown_at_sequence, slots>>

ConsumerFailure(c) ==
  /\ HandlerPanics(c)
  /\ UNCHANGED <<shutdown_at_sequence, slots>>

-----------------------------------------------------------------------------

(***************************************************************************)
(* What holds of the consumers of either disruptor.                        *)
(***************************************************************************)

\* An event a consumer holds a reference to is the one published under the
\* sequence the consumer counts (managed.rs:77-85, unmanaged.rs:98-109): no
\* producer has lapped it, nothing unwritten has been handed out.
EventsIntact == \A c \in Consumers : \A s \in ReadSet(c) : slots[SlotOf(s)] = s

\* A stage never holds, nor gives back, an event an earlier stage has not given
\* back yet (builder and_then, MultiConsumerBarrier::get_after): producers
\* check the last stage only and rely on this.
StagesOrdered ==
  \A c \in Consumers : \A u \in Before(c) :
    /\ consumer_cursor[c] <= consumer_cursor[u]
    /\ \A s \in ReadSet(c) : s <= consumer_cursor[u]

(***************************************************************************)
(* The consumers' part of the inductive invariant, given that everything   *)
(* up to and including sequence top has been published.                    *)
(***************************************************************************)

\* Cursors go down from the producer through the stages.
CursorInv(top) ==
  \A c \in Consumers :
    /\ NONE <= consumer_cursor[c]
    /\ consumer_cursor[c] <= top
    /\ \A u \in Before(c) : consumer_cursor[c] <= consumer_cursor[u]

\* What a fold over the stage before has seen so far is behind that stage.
FoldInv ==
  \A c \in Consumers :
    /\ unread[c] \subseteq Upstream(c)
    /\ \A u \in Upstream(c) \ unread[c] : lowest[c] <= consumer_cursor[u]

\* Where each consumer stands in its batch.
BatchInv(top) ==
  \A c \in Consumers :
    /\ cpc[c] \in {"load", "check", "exited"} =>
         consumer_sequence[c] = consumer_cursor[c] + 1
    /\ cpc[c] \in {"handle", "panicked", "guard"} =>
         /\ consumer_cursor[c] <= available[c]
         /\ available[c] <= top
         /\ \A u \in Before(c) : available[c] <= consumer_cursor[u]
    /\ cpc[c] \in {"handle", "panicked"} =>
         /\ consumer_cursor[c] < consumer_sequence[c]
         /\ consumer_sequence[c] <= available[c] + 1
    /\ cpc[c] \in {"check", "handle", "panicked"} => c \in Managed
    /\ cpc[c] \in {"idle", "guard"} => c \in Pollers

\* Whoever has left has been told so by the shutdown word.
ExitInv ==
  \A c \in Consumers : cpc[c] = "exited" =>
    shutdown_at_sequence = consumer_sequence[c]

ConsumerInv(top) == CursorInv(top) /\ FoldInv /\ BatchInv(top) /\ ExitInv
=============================================================================
