--------------------------- MODULE MultiDisruptor ---------------------------
(***************************************************************************)
(* The multi-producer disruptor: MultiProducer and MultiProducerBarrier of *)
(* producer/multi.rs, over the consumers of Consumers.                     *)
(*                                                                         *)
(* Producers claim sequences by compare-and-exchange on a shared cursor,   *)
(* write their events in any order and publish each of them by flipping    *)
(* one bit of a bit field, word by word.  A consumer of stage 1 finds out  *)
(* what it may read by scanning the bit field, again word by word.         *)
(***************************************************************************)
EXTENDS Consumers, FiniteSets

CONSTANTS
  Producers,      \* producer handles there may ever be
  FirstProducer,  \* the one build() returns; the others are clones
  FaultyUpdates,  \* producers whose update closures may panic
  WordBits,       \* bits in a word of the bit field: 64 in the code
  MaxBatch,       \* bound: events a client asks for in one call
  MaxCalls        \* bound: calls that succeed in claiming

ASSUME ProducersAssumption ==
  /\ IsFiniteSet(Producers)
  /\ FirstProducer \in Producers
  /\ FaultyUpdates \subseteq Producers
  /\ WordBits \in Nat \ {0}
  /\ Size % WordBits = 0
  /\ MaxBatch \in Nat
  /\ MaxCalls \in Nat
  /\ MaxBatch * MaxCalls <= I64Max

VARIABLES
  cursor,                       \* MultiProducerBarrier.cursor: last sequence claimed
  bits,                         \* MultiProducerBarrier.available, slot by slot
  counter,                      \* SharedProducerCtx.counter: handles alive
  claimed_sequence,             \* MultiProducer.claimed_sequence of each handle
  sequence_clear_of_consumers,  \* MultiProducer.sequence_clear_of_consumers
  ppc,                          \* what each handle is doing
  request,                      \* its call in progress: n events, may it spin
  current,                      \* local of next_sequences: the cursor as last seen
  rear_unread, rear_lowest,     \* its fold over the gating cursors
  position,                     \* next event its update will write
  unpublished,                  \* next sequence of its batch to publish
  scanned,                      \* sequences a consumer's scan has found published
  joined,                       \* consumer threads joined by the last drop
  claims,                       \* history: calls that succeeded in claiming
  abandoned                     \* history: sequences whose update panicked

barrierVars == <<cursor, bits>>
claimVars == <<current, rear_unread, rear_lowest>>
updateVars == <<position, unpublished>>
lifeVars == <<counter, joined>>
historyVars == <<claims, abandoned>>
producerVars == <<barrierVars, claimed_sequence, sequence_clear_of_consumers, ppc,
                  request, claimVars, updateVars, lifeVars, historyVars>>
vars == <<slots, consumerVars, shutdown_at_sequence, scanned, producerVars>>

\* First and last sequence of the batch p has claimed.
Lower(p) == claimed_sequence[p] - request[p].n + 1
Upper(p) == claimed_sequence[p]

\* Mutant: every round is taken for an even one.
ParityFixed(sequence) == (sequence - sequence) % 2

\* Mutant: the round number is shifted by one bit too many.
ParityShifted(sequence) == (sequence \div (2 * Size)) % 2

\* Rounds of the ring are even or odd; a slot's bit tells which of the two it
\* was last published in.
Parity(sequence) == (sequence \div Size) % 2

Available(sequence) == bits[SlotOf(sequence)] = Parity(sequence)

\* The last sequence whose bit shares a word with that of sequence.
WordEnd(sequence) == sequence - (sequence % WordBits) + WordBits - 1

\* Between calls.
NoRequest == [n |-> 0, blocking |-> FALSE]

TypeOK ==
  /\ SlotsTypeOK
  /\ ConsumersTypeOK
  /\ cursor \in Int
  /\ bits \in [Slots -> {0, 1}]
  /\ counter \in Nat
  /\ claimed_sequence \in [Producers -> Int]
  /\ sequence_clear_of_consumers \in [Producers -> Int]
  /\ ppc \in [Producers -> {"unborn", "idle", "start", "claim", "cas", "write",
                            "join", "gone", "failed"}]
  /\ request \in [Producers -> [n : Nat, blocking : BOOLEAN]]
  /\ current \in [Producers -> Int]
  /\ rear_unread \in [Producers -> SUBSET LastStage]
  /\ rear_lowest \in [Producers -> Int]
  /\ position \in [Producers -> Int]
  /\ unpublished \in [Producers -> Int]
  /\ scanned \in [Consumers -> Nat]
  /\ joined \in SUBSET Managed
  /\ claims \in Nat
  /\ abandoned \in SUBSET Nat

\* Nothing is claimed, and no slot has been published in round 0, an even one.
InitBarrier ==
  /\ cursor = NONE
  /\ bits = [i \in Slots |-> 1]

Init ==
  /\ InitSlots
  /\ InitConsumers
  /\ InitBarrier
  /\ counter = 1
  /\ claimed_sequence = [p \in Producers |-> NONE]
  /\ sequence_clear_of_consumers =
       [p \in Producers |-> IF p = FirstProducer THEN Size - 1 ELSE 0]
  /\ ppc = [p \in Producers |-> IF p = FirstProducer THEN "idle" ELSE "unborn"]
  /\ request = [p \in Producers |-> NoRequest]
  /\ current = [p \in Producers |-> NONE]
  /\ rear_unread = [p \in Producers |-> LastStage]
  /\ rear_lowest = [p \in Producers |-> I64Max]
  /\ position = [p \in Producers |-> 0]
  /\ unpublished = [p \in Producers |-> 0]
  /\ scanned = [c \in Consumers |-> 0]
  /\ joined = {}
  /\ claims = 0
  /\ abandoned = {}

-----------------------------------------------------------------------------

(***************************************************************************)
(* Claiming: next_sequences.                                               *)
(***************************************************************************)

Undecided == {p \in Producers : ppc[p] \in {"start", "claim", "cas"}}

\* try_publish, publish, try_batch_publish or batch_publish is called.
Call(p, n, blocking) ==
  /\ ppc[p] = "idle"
  /\ claims + Cardinality(Undecided) < MaxCalls
  /\ ppc' = [ppc EXCEPT ![p] = "start"]
  /\ request' = [request EXCEPT ![p] = [n |-> n, blocking |-> blocking]]
  /\ UNCHANGED <<slots, consumerVars, shutdown_at_sequence, scanned, barrierVars,
                 claimed_sequence, sequence_clear_of_consumers, claimVars, updateVars,
                 lifeVars, historyVars>>

\* The call is over, with a result or with an error.
Return(p) ==
  /\ ppc' = [ppc EXCEPT ![p] = "idle"]
  /\ request' = [request EXCEPT ![p] = NoRequest]

\* Mutant: the cached bound is compared with the sequence before the last.
AttemptEarly(p, seen) ==
  /\ current' = [current EXCEPT ![p] = seen]
  /\ ppc' = [ppc EXCEPT ![p] =
               IF sequence_clear_of_consumers[p] < seen + request[p].n - 1
               THEN "claim" ELSE "cas"]

\* Top of the loop with the cursor as p has just seen it: the cached bound
\* decides whether the gating cursors have to be looked at.
Attempt(p, seen) ==
  /\ current' = [current EXCEPT ![p] = seen]
  /\ ppc' = [ppc EXCEPT ![p] =
               IF sequence_clear_of_consumers[p] < seen + request[p].n
               THEN "claim" ELSE "cas"]

LoadCurrent(p) ==
  /\ ppc[p] = "start"
  /\ Attempt(p, cursor)
  /\ UNCHANGED <<slots, consumerVars, shutdown_at_sequence, scanned, barrierVars,
                 claimed_sequence, sequence_clear_of_consumers, request, rear_unread,
                 rear_lowest, updateVars, lifeVars, historyVars>>

\* The slowest gating cursor is known.  An error ends a call that may not spin
\* and makes one that may start over, with a fresh load of the cursor.
ClaimAgainst(p, rear) ==
  LET free_slots == FreeSlots(current[p], rear) IN
  /\ rear_unread' = [rear_unread EXCEPT ![p] = LastStage]
  /\ rear_lowest' = [rear_lowest EXCEPT ![p] = I64Max]
  /\ \/ /\ free_slots < request[p].n
        /\ current' = [current EXCEPT ![p] = NONE]
        /\ \/ /\ request[p].blocking
              /\ ppc' = [ppc EXCEPT ![p] = "start"]
              /\ UNCHANGED request
           \/ /\ ~request[p].blocking
              /\ Return(p)
        /\ UNCHANGED sequence_clear_of_consumers
     \/ /\ free_slots >= request[p].n
        /\ sequence_clear_of_consumers' =
             [sequence_clear_of_consumers EXCEPT ![p] = current[p] + free_slots]
        /\ ppc' = [ppc EXCEPT ![p] = "cas"]
        /\ UNCHANGED <<current, request>>

\* One load of the consumer barrier's fold.
LoadRear(p) ==
  /\ ppc[p] = "claim"
  /\ \E c \in rear_unread[p] :
       LET minimum == MinOf(consumer_cursor[c], rear_lowest[p]) IN
       /\ IsFirst(c, rear_unread[p])
       /\ \/ /\ rear_unread[p] = {c}
             /\ ClaimAgainst(p, minimum)
          \/ /\ rear_unread[p] # {c}
             /\ rear_unread' = [rear_unread EXCEPT ![p] = @ \ {c}]
             /\ rear_lowest' = [rear_lowest EXCEPT ![p] = minimum]
             /\ UNCHANGED <<ppc, request, current, sequence_clear_of_consumers>>
  /\ UNCHANGED <<slots, consumerVars, shutdown_at_sequence, scanned, barrierVars,
                 claimed_sequence, updateVars, lifeVars, historyVars>>

\* Mutant: the cursor is stored without a comparison.
NobodyClaimedAssumed(p) == p \in Producers

\* The exchange finds the cursor as p last saw it.
NobodyClaimed(p) == cursor = current[p]

\* Nobody has claimed since: everything up to current + n is p's.
ClaimSucceeds(p) ==
  LET n_next == current[p] + request[p].n IN
  /\ ppc[p] = "cas"
  /\ NobodyClaimed(p)
  /\ cursor' = n_next
  /\ claimed_sequence' = [claimed_sequence EXCEPT ![p] = n_next]
  /\ position' = [position EXCEPT ![p] = current[p] + 1]
  /\ unpublished' = [unpublished EXCEPT ![p] = current[p] + 1]
  /\ current' = [current EXCEPT ![p] = NONE]
  /\ claims' = claims + 1
  /\ ppc' = [ppc EXCEPT ![p] = "write"]
  /\ UNCHANGED <<slots, consumerVars, shutdown_at_sequence, scanned, bits,
                 sequence_clear_of_consumers, request, rear_unread, rear_lowest, lifeVars,
                 abandoned>>

\* Somebody has: go round with the cursor the exchange found.
ClaimFails(p) ==
  /\ ppc[p] = "cas"
  /\ ~NobodyClaimed(p)
  /\ Attempt(p, cursor)
  /\ UNCHANGED <<slots, consumerVars, shutdown_at_sequence, scanned, barrierVars,
                 claimed_sequence, sequence_clear_of_consumers, request, rear_unread,
                 rear_lowest, updateVars, lifeVars, historyVars>>

-----------------------------------------------------------------------------

(***************************************************************************)
(* Updating and publishing: apply_update and apply_updates.                *)
(***************************************************************************)

WriteEvent(p) ==
  /\ ppc[p] = "write"
  /\ position[p] <= Upper(p)
  /\ WriteSlot(position[p])
  /\ position' = [position EXCEPT ![p] = @ + 1]
  /\ UNCHANGED <<consumerVars, shutdown_at_sequence, scanned, barrierVars,
                 claimed_sequence, sequence_clear_of_consumers, ppc, request, claimVars,
                 unpublished, lifeVars, historyVars>>

\* One fetch_xor: the bits of the batch that lie in one word are flipped, and
\* the call returns after the last of them.
PublishWord(p) ==
  LET last == MinOf(Upper(p), WordEnd(unpublished[p]))
      flip_mask == Window(unpublished[p], last)
  IN
  /\ ppc[p] = "write"
  /\ position[p] > Upper(p)
  /\ bits' = [i \in Slots |-> IF i \in flip_mask THEN 1 - bits[i] ELSE bits[i]]
  /\ unpublished' = [unpublished EXCEPT ![p] = last + 1]
  /\ \/ last = Upper(p) /\ Return(p)
     \/ last # Upper(p) /\ UNCHANGED <<ppc, request>>
  /\ UNCHANGED <<slots, consumerVars, shutdown_at_sequence, scanned, cursor,
                 claimed_sequence, sequence_clear_of_consumers, claimVars, position,
                 lifeVars, historyVars>>

\* The update unwinds: what it claimed stays claimed and is never published.
UpdatePanics(p) ==
  /\ ppc[p] = "write"
  /\ p \in FaultyUpdates
  /\ unpublished[p] = Lower(p)
  /\ Return(p)
  /\ abandoned' = abandoned \cup (Lower(p) .. Upper(p))
  /\ UNCHANGED <<slots, consumerVars, shutdown_at_sequence, scanned, barrierVars,
                 claimed_sequence, sequence_clear_of_consumers, claimVars, updateVars,
                 lifeVars, claims>>

-----------------------------------------------------------------------------

(***************************************************************************)
(* The life of a handle: Clone and Drop, each under the mutex.             *)
(***************************************************************************)

\* Mutant: the clone is not counted.
CloneUncounted(p, q) ==
  /\ ppc[p] = "idle"
  /\ ppc[q] = "unborn"
  /\ ppc' = [ppc EXCEPT ![q] = "idle"]
  /\ UNCHANGED <<slots, consumerVars, shutdown_at_sequence, scanned, barrierVars,
                 claimed_sequence, sequence_clear_of_consumers, request, claimVars,
                 updateVars, lifeVars, historyVars>>

\* A client holding p makes q of it.
Clone(p, q) ==
  /\ ppc[p] = "idle"
  /\ ppc[q] = "unborn"
  /\ counter' = counter + 1
  /\ ppc' = [ppc EXCEPT ![q] = "idle"]
  /\ UNCHANGED <<slots, consumerVars, shutdown_at_sequence, scanned, barrierVars,
                 claimed_sequence, sequence_clear_of_consumers, request, claimVars,
                 updateVars, joined, historyVars>>

\* Mutant: the last sequence claimed is announced, not the one after it.
DropAtLast(p) ==
  /\ ppc[p] = "idle"
  /\ counter' = counter - 1
  /\ \/ /\ counter = 1
        /\ shutdown_at_sequence' = cursor
        /\ ppc' = [ppc EXCEPT ![p] = "join"]
     \/ /\ counter # 1
        /\ ppc' = [ppc EXCEPT ![p] = "gone"]
        /\ UNCHANGED shutdown_at_sequence
  /\ UNCHANGED <<slots, consumerVars, scanned, barrierVars, claimed_sequence,
                 sequence_clear_of_consumers, request, claimVars, updateVars, joined,
                 historyVars>>

\* The last handle to go announces where the stream ends, then joins.
Drop(p) ==
  /\ ppc[p] = "idle"
  /\ counter' = counter - 1
  /\ \/ /\ counter = 1
        /\ shutdown_at_sequence' = cursor + 1
        /\ ppc' = [ppc EXCEPT ![p] = "join"]
     \/ /\ counter # 1
        /\ ppc' = [ppc EXCEPT ![p] = "gone"]
        /\ UNCHANGED shutdown_at_sequence
  /\ UNCHANGED <<slots, consumerVars, scanned, barrierVars, claimed_sequence,
                 sequence_clear_of_consumers, request, claimVars, updateVars, joined,
                 historyVars>>

\* Join the next consumer thread; one that panicked makes join() panic.
Join(p, c) ==
  /\ ppc[p] = "join"
  /\ IsFirst(c, Managed \ joined)
  /\ \/ /\ cpc[c] = "exited"
        /\ joined' = joined \cup {c}
        /\ UNCHANGED ppc
     \/ /\ cpc[c] = "panicked"
        /\ ppc' = [ppc EXCEPT ![p] = "failed"]
        /\ UNCHANGED joined
  /\ UNCHANGED <<slots, consumerVars, shutdown_at_sequence, scanned, barrierVars,
                 claimed_sequence, sequence_clear_of_consumers, request, claimVars,
                 updateVars, counter, historyVars>>

DropReturns(p) ==
  /\ ppc[p] = "join"
  /\ joined = Managed
  /\ ppc' = [ppc EXCEPT ![p] = "gone"]
  /\ UNCHANGED <<slots, consumerVars, shutdown_at_sequence, scanned, barrierVars,
                 claimed_sequence, sequence_clear_of_consumers, request, claimVars,
                 updateVars, lifeVars, historyVars>>

-----------------------------------------------------------------------------

(***************************************************************************)
(* get_after, as a consumer of stage 1 calls it: with the sequence it      *)
(* waits for.  One load per word; the bits of a word are looked at in the  *)
(* value loaded.                                                           *)
(***************************************************************************)

ScanWord(c) ==
  LET highest_available == consumer_sequence[c] + scanned[c]
      word == highest_available .. WordEnd(highest_available)
  IN
  /\ cpc[c] = "load"
  /\ WaitsForProducer(c)
  /\ \/ \E missing \in word :
          /\ ~Available(missing)
          /\ \A s \in word : s < missing => Available(s)
          /\ Observed(c, missing - 1)
          /\ scanned' = [scanned EXCEPT ![c] = 0]
     \/ /\ \A s \in word : Available(s)
        /\ scanned' = [scanned EXCEPT ![c] = WordEnd(highest_available) + 1 - consumer_sequence[c]]
        /\ UNCHANGED <<cpc, available, unread, lowest>>
  /\ UNCHANGED <<slots, consumer_cursor, consumer_sequence, shutdown_at_sequence, producerVars>>

-----------------------------------------------------------------------------

\* Everybody has stopped for good.
Terminated ==
  /\ \A p \in Producers : ppc[p] \in {"unborn", "gone", "failed"}
  /\ \A c \in Consumers : cpc[c] \in {"exited", "panicked"}
  /\ UNCHANGED vars

ProducerStep(p) ==
  \/ LoadCurrent(p)
  \/ LoadRear(p)
  \/ ClaimSucceeds(p)
  \/ ClaimFails(p)
  \/ WriteEvent(p)
  \/ PublishWord(p)
  \/ \E c \in Managed : Join(p, c)
  \/ DropReturns(p)

Client(p) ==
  \/ \E n \in 0 .. MaxBatch, blocking \in BOOLEAN : Call(p, n, blocking)
  \/ UpdatePanics(p)
  \/ \E q \in Producers : Clone(p, q)
  \/ Drop(p)

Advance(c) == ScanWord(c) \/ (ConsumerStep(c) /\ UNCHANGED <<scanned, producerVars>>)

Next ==
  \/ \E p \in Producers : Client(p) \/ ProducerStep(p)
  \/ \E c \in Consumers : Advance(c)
  \/ \E c \in Consumers : ConsumerFailure(c) /\ UNCHANGED <<scanned, producerVars>>
  \/ Terminated

Spec == Init /\ [][Next]_vars

\* Threads keep running, a call once made is carried through, and a client
\* keeps polling; nobody has to make a call, clone, panic or drop.
Fairness ==
  /\ \A p \in Producers : WF_vars(ProducerStep(p))
  /\ \A c \in Consumers : WF_vars(Advance(c))

FairSpec == Spec /\ Fairness

-----------------------------------------------------------------------------

(***************************************************************************)
(* Safety.                                                                 *)
(***************************************************************************)

\* Sequences p has claimed and not yet published.
Pending(p) == IF ppc[p] = "write" THEN unpublished[p] .. Upper(p) ELSE {}

\* Sequences whose events the running update of p has exclusive references to.
WriteSet(p) ==
  IF ppc[p] = "write" /\ unpublished[p] = Lower(p) THEN Lower(p) .. Upper(p) ELSE {}

\* The SAFETY comments of apply_update(s) (multi.rs:241-242, 261-262): an update
\* has exclusive access to its slots, against consumers and other producers.
NoDataRace ==
  \A p \in Producers : \A s \in WriteSet(p) :
    /\ \A c \in Consumers : \A t \in ReadSet(c) : SlotOf(s) # SlotOf(t)
    /\ \A q \in Producers \ {p} : \A t \in WriteSet(q) : SlotOf(s) # SlotOf(t)

\* Backpressure (multi.rs:203-217): an event is overwritten only after every
\* consumer of every stage has given it back.
NoEventLost ==
  [][\A i \in Slots : slots'[i] # slots[i] =>
        \A c \in Consumers : consumer_cursor[c] >= slots[i]]_vars

\* The round bits tell published from unpublished for one whole lap, however
\* the producers finish (multi.rs:272-290): of the sequences from one lap behind
\* the cursor to one lap ahead of the slowest consumer, exactly those claimed
\* and neither pending nor abandoned count as published.
BitsTellPublished ==
  \A s \in 0 .. cursor + Size :
    /\ cursor - Size < s
    /\ \A c \in Consumers : s <= consumer_cursor[c] + Size
    => (Available(s) <=> /\ s <= cursor
                         /\ s \notin abandoned
                         /\ \A p \in Producers : s \notin Pending(p))

\* The number of sequences published without a gap: what lies a lap behind
\* the cursor has been published long ago.
Published(s) == s <= cursor - Size \/ Available(s)

PublishedPrefix ==
  CHOOSE k \in 0 .. cursor + 1 :
    /\ \A s \in 0 .. k - 1 : Published(s)
    /\ k = cursor + 1 \/ ~Published(k)

\* The disruptor is a broadcast channel (lib.rs:66-68, consumer/mod.rs:13-16):
\* one flip may complete the gap-free prefix by events of several producers.
Promise == INSTANCE Broadcast WITH
  published <- PublishedPrefix,
  released <- [c \in Consumers |-> consumer_cursor[c] + 1],
  closed <- shutdown_at_sequence # NONE,
  finished <- {c \in Consumers : cpc[c] = "exited"}

KeepsPromise == Promise!Spec

(***************************************************************************)
(* The inductive invariant.                                                *)
(***************************************************************************)

\* Claimed, and neither waiting to be published nor lost with a panicked update.
IsPublished(s) ==
  /\ s <= cursor
  /\ s \notin abandoned
  /\ \A p \in Producers : s \notin Pending(p)

\* Handles that may still claim or publish.
Alive == {p \in Producers : ppc[p] \in {"idle", "start", "claim", "cas", "write"}}

\* The mutex-protected count is that of the handles there are, and the stream
\* ends where the last of them left the cursor.
LifeInv ==
  /\ counter = Cardinality(Alive)
  /\ shutdown_at_sequence # NONE => Alive = {} /\ shutdown_at_sequence = cursor + 1

\* Sequences stay below i64::MAX.
BoundInv ==
  /\ NONE <= cursor
  /\ claims + Cardinality(Undecided) <= MaxCalls
  /\ cursor + 1 <= claims * MaxBatch
  /\ \A p \in Producers : request[p].n <= MaxBatch

\* The batch p writes is claimed and disjoint from all others; it is published
\* from the front once it is written, and nothing of it has been abandoned.
OwnBatch(p) ==
  /\ 0 <= Lower(p) /\ Upper(p) <= cursor
  /\ Lower(p) <= unpublished[p] /\ unpublished[p] <= Upper(p) + 1
  /\ Lower(p) <= position[p] /\ position[p] <= Upper(p) + 1
  /\ position[p] <= Upper(p) => unpublished[p] = Lower(p)
  /\ \A s \in Lower(p) .. Upper(p) : s \notin abandoned
  /\ \A q \in Producers \ {p} :
       ppc[q] = "write" => Upper(p) < Lower(q) \/ Upper(q) < Lower(p)

ClaimInv ==
  /\ \A s \in abandoned : s <= cursor
  /\ \A p \in Producers : ppc[p] = "write" => OwnBatch(p)

\* Nobody claims more than a lap ahead of any consumer.  The cached bound holds
\* whatever cursor it was computed from, so that an exchange that succeeds
\* is within it even if current was out of date when the fold was made.
ClearInv ==
  /\ \A c \in Consumers : cursor <= consumer_cursor[c] + Size
  /\ \A p \in Producers :
       /\ \A c \in Consumers : sequence_clear_of_consumers[p] <= consumer_cursor[c] + Size
       /\ \A c \in LastStage \ rear_unread[p] : rear_lowest[p] <= consumer_cursor[c]
       /\ ppc[p] = "cas" => current[p] + request[p].n <= sequence_clear_of_consumers[p]

\* The bits of the last lap say what is published, and a scan has been over
\* nothing else, even if it went on while producers kept flipping bits.
BitsInv ==
  /\ \A s \in cursor - Size + 1 .. cursor : Available(s) <=> IsPublished(s)
  /\ \A c \in Consumers :
       /\ scanned[c] # 0 => cpc[c] = "load" /\ WaitsForProducer(c)
       /\ \A s \in consumer_sequence[c] .. consumer_sequence[c] + scanned[c] - 1 :
            IsPublished(s)

\* Consumers never got beyond a gap.
GaplessInv ==
  \E k \in NONE .. cursor :
    /\ \A s \in 0 .. k : IsPublished(s)
    /\ ConsumerInv(k)

\* What is published in the last lap is in its slot, and so is what the updates
\* in progress have written; nothing is beyond the cursor.
SlotInv ==
  /\ \A s \in 0 .. cursor : cursor < s + Size /\ IsPublished(s) => slots[SlotOf(s)] = s
  /\ \A p \in Producers : ppc[p] = "write" =>
       \A s \in unpublished[p] .. position[p] - 1 : slots[SlotOf(s)] = s
  /\ \A i \in Slots : slots[i] # NONE => SlotOf(slots[i]) = i /\ slots[i] <= cursor

IInv == LifeInv /\ BoundInv /\ ClaimInv /\ ClearInv /\ BitsInv /\ GaplessInv /\ SlotInv

(***************************************************************************)
(* Liveness, under FairSpec.                                               *)
(***************************************************************************)

\* publish() never fails (mod.rs:65-67): a call that may spin gets its slots.
PublishGetsSlots ==
  \A p \in Producers :
    ppc[p] \in {"start", "claim", "cas"} /\ request[p].blocking ~> ppc[p] = "write"

\* Every published event reaches every consumer (lib.rs:66-68), whatever the
\* producers before and after it are doing.
EventuallyReleased ==
  \A c \in Consumers, s \in 0 .. MaxBatch * MaxCalls - 1 :
    cursor >= s ~> consumer_cursor[c] >= s

\* The last drop() comes back once everything is processed (multi.rs:149-163).
DropCompletes == \A p \in Producers : ppc[p] = "join" ~> ppc[p] = "gone"
=============================================================================
