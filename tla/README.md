# Verification of calvera

calvera is a disruptor: producers publish events into a fixed ring of slots and
consumers, in stages, each see every event.  All coordination is by sequence
numbers in atomics; the only lock is taken when a multi-producer handle is
cloned or dropped.  This directory models the protocol of the code under `src/`
(paths below are relative to that crate's `src/`), checks it with TLC on small
rings and proves both disruptors correct with TLAPS for rings of any size and any
number of producers and consumers in any arrangement, also with no more order than
their atomics and fences give, and what the builders make of chains of any length.

## 1. Inventory

| Component | State it keeps | Operations | Talks to |
|---|---|---|---|
| Ring buffer, `ring_buffer.rs` | slots | `get`, `get_ref`, `free_slots`, `wrap_point` | written by producers, read by consumers, without a lock |
| Cursors and barriers, `_periphery/cursor.rs`, `_periphery/barrier.rs`, `consumer/mod.rs` | one atomic sequence each; a barrier owns one or more cursors | load, store, compare-and-exchange; `get_after` | consumers wait for the barrier in front of them, producers for the one over the last stage |
| Single producer, `producer/uni.rs` | `sequence`, `sequence_clear_of_consumers`, the cursor of its barrier | `try_publish`, `publish`, `try_batch_publish`, `batch_publish`, `drop` | consumer barrier, producer barrier, shutdown word, join handles |
| Multi producer, `producer/multi.rs` | per handle `claimed_sequence` and `sequence_clear_of_consumers`; shared the claim cursor, the availability bit field and the handle count | the same four, `clone`, `drop` | as above; handles compete for the cursor |
| Managed consumer, `consumer/managed.rs` | its cursor, `sequence`, the batch it is in | `wait_for_events`, the batch loop | its barrier, the shutdown word |
| Event poller, `consumer/unmanaged.rs` | its cursor; in a guard `sequence` and `available` | `poll`, `poll_take`, the guard's iterator and `drop` | the same |
| Builders, `builder/` | cursors of the current stage, join handles, the dependent barrier | `handle_events_with`, `event_poller`, `and_then`, `build` | spawn the threads, decide who waits for whom |
| Sizes, `disruptor.rs` | none | a trait bound | the compiler |
| Wait strategies, affinity, `sync.rs`, `errors.rs` | none | no-ops, re-exports, values | |

What is hard about it:

* **Concurrency without locks.**  A producer decides from relaxed loads of
  cursors that move while it looks; a fold over several cursors is not a
  snapshot; a bound computed once is trusted for a whole lap.
* **Ordering.**  Multi producers finish out of order and publish a batch word
  by word; one parity bit per slot has to tell two laps apart.
* **Indirect protection.**  The producer looks at the last stage only.  That it
  does not lap the first one follows from the order of the stages.
* **Shutdown.**  One word, written once, compared for equality by consumers
  that load it after another atomic.
* **Failure.**  User closures run inside the protocol: event handlers and
  updates may panic, pollers may stop polling, guards may be dropped early.
* **Boundaries.**  Full rings, empty batches, limits of zero and `u64::MAX`.

What makes each part correct is stated in section 4; section 7 has what is not
covered.

## 2. Modules

```
RingBuffer              slots, sequence arithmetic
  Consumers             threads, pollers, consumer barriers, stages
    UniDisruptor        + single producer           --implements-->  Broadcast
      UniBorrows        + references an update keeps
    MultiDisruptor      + multi producers, bits     --implements-->  Broadcast
WeakMemory              messages and views
  ConsumerOrdering      Consumers on it
    UniOrdering         UniDisruptor on it          --implements-->  Broadcast
    MultiOrdering       MultiDisruptor on it        --implements-->  Broadcast
MultiClaims             claims of producer/multi.rs in i64s
  MultiArithmetic       + masks, shifts and flags     --implements-->  MultiClaims
Builder                 the context, the threads and the end of a chain
  UPBuilder, MPBuilder  the typestate builders
    Builders            a client that uses either
ConsumersProofs, UniDisruptorProofs, MultiDisruptorProofs, ConsumerOrderingProofs,
UniOrderingProofs, MultiOrderingProofs, MultiClaimsProofs, BuilderProofs
MC*                     instances for TLC
```

**RingBuffer.**  A slot holds the sequence of the event last written to it,
`NONE` before the first.  That is all the properties need of an event: a slot
that holds the sequence its reader counts holds the right event.  The code masks
with `size - 1`; the module takes the remainder, and so needs no power of two.

**Consumers.**  A consumer has a kind (thread or poller) and a stage.
`cpc[c]` says where it is:

| `cpc` | in the code |
|---|---|
| `load` | in `get_after` of its barrier (`managed.rs:177,184`, `unmanaged.rs:229`); `unread`/`lowest` are the fold over several cursors, one step per cursor |
| `check` | about to load the shutdown word (`managed.rs:180`) |
| `handle` | in the batch loop (`managed.rs:77-87`): `Handle` is one call of the handler, `Release` the store of the cursor |
| `idle`, `guard` | a poller between polls, and one whose client holds an `EventGuard` |
| `exited`, `panicked` | the thread returned, or the client was told `Shutdown`; the handler unwound |

`poll_take` loads its own cursor (which nobody else writes) and the shutdown word
in `Poll`, the barrier in later steps.  The client of a guard may take any number
of events and drop it at any time.  The two spawning functions, with and without
state, have the same loop.  `WaitsForProducer`, `Upstream` and `LastStage` are
what the builders wire up: the barrier of stage 1 is the producer's, that of a
later stage the fold over the stage before it, and `build()` takes the cursors of
the current stage only.

**UniDisruptor.**  A call for n events is `Call` (the decision on the cached
bound), `LoadRear` (one load per gating cursor; the last one decides), `WriteEvent`
per event, `Publish`.  `try_` calls that find too few slots return, the others ask
again.  `publish` is a batch of one: the only differences in the code are the
wording of the error and who runs the iterator.  n = 0 is allowed, as in the code.
`UpdatePanics` may happen at any point of an update; the client may go on using the
producer or drop it.  `Drop`, `Join`, `DropReturns` are `drop()`, with a join per
thread in the order of the handles and the panic of `expect` when one of them has
panicked.

**MultiDisruptor.**  `LoadCurrent`, `LoadRear`, `ClaimSucceeds` and `ClaimFails`
are the loop of `next_sequences`, with the local `current` that may be out of date
by the time it is used.  `PublishWord` is one `fetch_xor`; a batch needs one per
word it touches.  `ScanWord` is one load of a word by `get_after`, which looks at
all bits of the value loaded.  The word has `WordBits` bits instead of 64 so that
boundaries are reached.  `Clone` and `Drop` are single steps because the code holds
the mutex throughout and nobody else can take it while the last handle joins.
`claims` and `abandoned` are history variables: they bound the model and say which
sequences a panicked update took with it; no guard of the code's steps reads
`abandoned`.

**Broadcast.**  What the crate documentation promises, with no slots, cursors or
threads: a stream that is published in order, at most a ring ahead of the slowest
consumer, that every consumer releases in order, that is closed once, and that a
consumer leaves only when it is closed and fully read.  Under the multi-producer
mapping `published` is the gap-free prefix of the bit field: one flip may complete
it by events of several producers at once.

**WeakMemory** is the part of the language's memory model this code uses: every
location keeps all messages stored to it, every thread has a view of how far it has
been made to look, a relaxed load returns any message from there on, a message
carries a view, and an acquire fence collects the views of what was loaded.  A
release fence, release sequences through read-modify-writes and the relaxed failure
of a compare-and-exchange are in it.  For the events, which are not atomic, a view
says how far each thread is known to be done with them.

**ConsumerOrdering, UniOrdering, MultiOrdering** put the program on that memory.
Stores, and everything that is local, are the actions of the modules above with what
they do to the views beside them, so that the two levels cannot drift apart; loads
are restated, because here they choose a message.  The clone of a handle is handed
to its thread in a way that orders the two (`CloneOrdered`), as any safe way of
sending it does.  The mutex around the handle count is folded into the count: each
critical section starts with a read-modify-write of it.  A call for no events is left
out here only, since each would append one more message with the value there is.

**MultiClaims** and **MultiArithmetic** have the numbers that `MultiDisruptor` takes for
granted.  `MultiClaims` has requests, sequences and free slots as integers that wrap at
`Half`.  Handles claim in one step, without competition, and publish in another, so that
they finish out of order; consumers give back what is published without a gap.
`MultiArithmetic` adds what they find that out by: the word and bit of a sequence by mask
and shift, the mask a batch accumulates and commits word by word, the scan over shifted
words with its flag.  How a batch looks half way is `MultiDisruptor`'s subject.

**Builder, UPBuilder, MPBuilder.**  The state is the `BuilderContext`, the dependent
barrier of the typestate, and the threads that run already while the chain goes on;
the actions are the methods of the three typestates, written out per builder as they
are in the code.  Cursors are numbered, a barrier is the list of those it folds over.
A chain ends in `build()`, in a drop, or in a panic of `pin_at_core`, of `spawn` or
of a constructor.  What is built is taken to its `drop()` without publishing: threads
wait for sequence 0, or have died in `initialize_state`.  `stage` and `asked` are
history: what the client called, to be compared with what came of it.

**UniBorrows** adds to the single producer a client that moves references out of its
update, as long as the borrow checker lets it: it cannot use the producer meanwhile.

Definitions whose comment starts with "Mutant:" are plausible mistakes in the
definition that follows them.  Nothing uses them; they show, one property at a
time, that the property would notice (PROJECT.json pairs them up).

## 3. Runs

| Run | Instance | What it asks |
|---|---|---|
| `uni_pipeline` | a thread whose handler may panic beside a poller, then a thread and a poller; limits 0, 1 and one past the end; ring of 2, batches up to 2, sequences up to 3 | all safety properties and the inductive invariant of the single-producer disruptor, with all its clients can do |
| `uni_liveness` | a thread and a poller, then a thread; limit 1; fairness | blocking calls, delivery, `drop()` |
| `uni_oversized` | batches up to 3 in a ring of 2; fairness | finding 1 |
| `uni_ordering` | a thread whose handler may panic and a poller, then a thread; sequences up to 2 | races and the promise with old values of every atomic; the inductive invariant of the single producer on weak memory |
| `uni_borrows` | 1 consumer | finding 3 |
| `multi_pipeline` | 2 producers (one a clone), one with updates that panic; a thread that may panic, then a poller; ring of 2, one bit per word, 3 claims | all safety properties and the inductive invariant of the multi-producer disruptor |
| `multi_words` | 2 producers, 1 consumer, ring of 4 in words of 2, batches up to 3 | word boundaries, partial batches, wrap-around of scans |
| `multi_liveness` | 2 producers, 1 + 1 consumer threads, 2 claims; fairness | blocking calls, delivery, last `drop()` |
| `multi_panic` | 1 producer whose update may panic, 1 consumer; fairness | finding 2 |
| `multi_ordering` | 2 producers, 1 consumer, ring of 2 in one word, 3 claims; an update and the handler may panic | races and the promise with old values of every atomic; the inductive invariant of several producers on weak memory |
| `multi_arithmetic` | rings of 4 and of 8 in words of 4, integers of 6 bits, requests up to 10, sequences up to 28 | the bit field's arithmetic, which lets consumers do what `MultiClaims` says and no more; claims in fixed width, with their inductive invariant |
| `builders` | both builders, up to 3 consumers, sizes 0, 3, 64 and 96; a name, a core there is and one there is not; fairness of threads and of `drop()` | what a chain builds, and what becomes of its threads; the inductive invariant of both builders |

**Bounds.**  `MaxBatch` and, in the single-producer module, `MaxSequence` limit what
clients ask for; `MaxCalls` limits how many multi-producer calls claim something
(counting calls under way, so that two of them can still be in flight at the last
claim).  `I64Max` is a number the sequences stay below, except that a poller's
limit reaches it: there the addition has to saturate.  In the safety runs the ring
goes round two or three times: slots are overwritten while consumers of both stages are in
the middle of a batch, the cached bound is used, missed and refreshed, parity
bits take both values and come back.  Two producers suffice for every race of the
exchange, since a producer cannot tell one competitor from several; two consumers
in a stage are enough to make a fold see two different moments. The liveness
runs need one lap only: a full ring, and somebody waiting for it.  The ordering runs
need the ring to be lapped once by sequence 2, so that a slot is written, read and
written again: that is every conflict two accesses can have; in `multi_ordering`
three claims of up to two events go further, so that a word of one lap can be mistaken
for one of two laps ago.  In `multi_arithmetic` the smallest ring goes round seven
times and the larger one three times.  A chain of three consumers visits
each typestate and each way out of it, and has up to three stages; a builder's
methods do not depend on how many consumers an earlier stage had beyond one or several.  Deadlock is
checked in every run: `Terminated` stutters only when everybody has stopped.

**Fairness** (`FairSpec` of the disruptors) is weak fairness of each producer's own steps and of each
consumer's.  The code spins and never blocks on anything but `join`, so a thread that
the operating system keeps scheduling takes its next step; a client is assumed to
carry on with a call it made, to finish its handlers and updates, and to keep
polling (a poller that stops is documented to hold everybody up).  Nobody is made to
call, to clone, to panic or to drop.  In `Builders` the steps of `drop()` and the exit
of each thread are fair, for the same reason; a chain is not made to go on.

A multi producer that keeps losing the exchange to others may in principle lose it for
ever: the loop is lock-free, not wait-free.  `PublishGetsSlots` of `multi_liveness` does
not claim otherwise, since `MaxCalls` leaves a claim finitely many competitors; what it
shows is that nothing else holds a claim up.

## 4. Properties

| Property | About |
|---|---|
| `NoDataRace` | the `SAFETY` comments: no slot is being written that somebody else writes or holds a reference to |
| `EventsIntact` | an event held by a consumer is the one published under the sequence it counts |
| `StagesOrdered` | a stage never gets at, nor gives back, what an earlier one still needs |
| `NoEventLost` | an overwrite of an event comes after every consumer, of every stage, has released it |
| `BitsTellPublished` | within a lap of the slowest consumer the bit field says exactly what is published |
| `KeepsPromise` | refinement of `Broadcast`: order, backpressure, no publishing after the end, nobody leaves early |
| `PublishGetsSlots`, `EventuallyReleased`, `DropCompletes` | liveness of blocking calls, of delivery, of shutdown (also of what a builder has built) |
| `RaceFree` | the same comments in terms of the language: every access of a slot happens after each conflicting one, by the fences and orderings the code has and no others |
| `FindsPublished` | `get_after` finds the gap-free prefix from wherever a consumer asks, across words and around the ring |
| `PublishesWhatFits` | a claim goes through exactly if the slots are free, and the error says how many are missing |
| `ImplementsClaims` | going by the bit field, consumers give back only sequences that are published up to there |
| `BuildsPipeline` | a chain of calls ends in an arrangement that `ConsumersAssumption`, `Upstream` and `LastStage` describe: no cursor lost, taken twice or ungated |
| `SettingsApplyOnce` | names and cores reach the next thread, and only that one |
| `ThreadsOwned` | whoever may join or stop a running thread still can, unless the chain was given up |
| `IInv`, `OrderedIInv`, `ClaimsInv` | the inductive invariants of section 5: of each disruptor, of the builders, of each disruptor on weak memory, and of claims that wrap |
| `TypeOK` | types |

**Findings.**  These are disagreements between what the code does and what it says.

1. `batch_publish(n, ..)` with n larger than the ring spins for ever, even when every
   consumer has read everything (`producer/uni.rs:120`, the same loop at
   `producer/multi.rs:114`).  The documentation of the trait says "Never fails, but
   blocks under backpressure" (`producer/mod.rs:83-84`).  Run `uni_oversized`.
2. A multi-producer update that panics has already moved the shared cursor; its
   sequences are never published (`producer/multi.rs:245,264`), consumers wait for
   them for ever, and so does the last `drop()`, although "all remaining events are
   processed, consumer threads are joined, and the disruptor is torn down"
   (`lib.rs:66-68`).  The single producer moves nothing before the update returns
   and recovers from the same panic, which `uni_pipeline` shows.  Run `multi_panic`.
3. The references a batch iterator yields live as long as the borrow of the producer
   (`producer/mod.rs:91-133`, `producer/uni.rs:225`), not as long as the update: a
   closure can move them out, and the client then has exclusive references to events
   consumers read.  "You can't hold onto them after the batch is published"
   (`producer/mod.rs:98-99`).  Run `uni_borrows`; `NoDataRace` and `RaceFree` are about
   updates that let go of what they were given.

Noticed on the way, and not worth a run of their own:

* `Disruptor::with_capacity::<N>().build_multi_producer(..)` accepts every verified N
  and panics for N below 64 (`producer/multi.rs:310`, `BarrierAccepts`);
  `disruptor.rs:24-26` promises "no runtime panic".
* A request beyond `i64::MAX` is negative once narrowed (`producer/uni.rs:167`,
  `producer/multi.rs:196`) and passes both comparisons.  `PublishesWhatFits` is about the
  requests that fit.  In a debug build some of the sums overflow and panic instead.
* The threads of a chain that is given up before `build()` are detached and spin for
  ever; `ThreadsOwned` names that case.  No document says otherwise.

## 5. What is proved

`UniDisruptorProofs` and `MultiDisruptorProofs` prove of the two specifications, for
every ring size, number of consumers, arrangement in stages, choice of pollers, of
faulty handlers and updates and of limits, and for all values of the bounds, the same
list of theorems: `TypeCorrect`, `Invariance`, `RaceFreedom`, `Integrity`,
`StageOrder`, `NothingLost` and `Refinement`; for the multi producer, whatever the
number of handles and the width of a word, also `BitsTell`.  The assumptions are those
of the modules: the ring has a slot; every stage has a consumer and stages are numbered
in the order they were built; sequences stay below `I64Max`; and for the multi producer
handles are finitely many and words divide the ring evenly, which powers of two do.
`ConsumersProofs` has what both need of slots, folds and stages.

### The single producer

None of the safety properties is inductive.  `UniDisruptor!IInv` is, and has four parts:

* `ProducerInv`: the producer's `sequence` is one more than its cursor, a claim is
  covered by the cached bound while it is written, and the shutdown word is
  announced exactly when the producer is gone.
* `ClearInv`: the cached bound is at most a ring ahead of the cursor of **every**
  consumer, and what the producer's fold has seen so far is behind the cursors it
  has loaded.  Cursors only grow (`CursorsGrow`), so a minimum over loads made at
  different times stays a lower bound (`FoldResult`); cursors of earlier stages are
  not behind the last stage's, so gating on the last stage is enough
  (`RearBehindAll`).
* `ConsumerInv`: cursors descend from the producer through the stages, folds in
  progress are behind what they loaded, a batch ends where the stage before has
  been, and who has exited was told so.
* `SlotInv`: what lies between the cached bound less a ring and the cursor is in its
  slot.  Two sequences less than a ring apart have different slots
  (`DistinctSlots`), so a write within the cached bound disturbs none of it.

From `IInv`: what the producer writes lies within a ring of every consumer's cursor
but beyond the published sequences, what a consumer reads lies between its cursor
and the published sequence, so the slots differ (`ReadWriteApart`); `EventsIntact`
is `SlotInv` on what is read.  `Refinement` maps `Publish`, `Release`, `GuardDrop`,
`Drop` and the two exits to the actions of `Broadcast` and everything else to a
stutter.

### The multi producer

`cursor` is the last sequence **claimed**, so "published" is a notion of the proof:
`IsPublished(s)` says that s is claimed, that nobody is still to publish it, and that no
panicked update took it along.  `MultiDisruptor!IInv` relates it to what the code has:

* `LifeInv`: the counter is the number of handles that may still claim or publish, so
  the handle that finds itself the last announces the end of the stream when nobody can
  move the cursor any more.
* `ClaimInv`: batches being written are claimed, disjoint, and not given up; a batch is
  written before any of it is published, from the front.
* `ClearInv`: `cursor` is within a ring of every consumer.  A claim may be computed from
  a `current` that is out of date, and consumers may be past it, so that more slots look
  free than the ring has.  What holds of such a claim is only that current + n is within
  the cached bound; the exchange goes through if `current` is the cursor after all, and
  then the bound is about the cursor (`ClaimSucceedsInv`).
* `BitsInv`: within the last lap a bit has the parity of its round exactly if its
  sequence is published, and everything a scan has been over is.  A flip for a sequence
  a lap later would make the bit mean two things (`OneLapBack`, `ParityFacts`); it
  cannot come before every consumer has released the earlier one.  A scan takes several
  loads while producers go on flipping: published stays published, so what it found at
  its first word still holds at its last (`ScanSoFar`, `AvailableRun`).
* `GaplessInv`: there is a k such that everything up to k is published and `ConsumerInv(k)`
  holds of the consumers.  Which k does not matter; for the step of one consumer it is
  taken to be the end of the run its scan found.
* `SlotInv`: what is published in the last lap is in its slot, and so is what updates in
  progress have written.  `BoundInv` keeps sequences below `I64Max`.

Two writers are in different slots because their batches are disjoint and both within a
lap (`WrittenTo`); a writer and a reader because what is read is published and within a
lap of the cursor (`ReferredTo`).  For `Refinement`, `published` is the end of the
gap-free prefix, which the refinement mapping names with `CHOOSE`.  That there is one to
choose follows from the least unpublished number, by well-foundedness of the natural
numbers (`PrefixExists`); one flip may move it over batches of several producers, or not
at all (`PublishPromise`), and a claim leaves it alone (`ClaimKeepsPrefix`), as does a
panicked update (`SamePrefix`): it stays at the hole for good, which is finding 2.

### The single producer on weak memory

`UniOrderingProofs` proves of `UniOrdering!OrderedSpec`, for the same values of the
constants, `OrderedInvariance`, `OrderedRaceFreedom`, `OrderedIntegrity`,
`OrderedNothingLost` and `OrderedRefinement`.  `WritersAssumption`, that there is one
producer and no bit field, is what makes this the instance of `WeakMemory` for `uni.rs`;
the proof needs no other.  What it needs of views, messages and consumers whatever the
producer is in `ConsumerOrderingProofs`.

A step of `UniOrdering` that loads is not a step of `UniDisruptor`: it may see a cursor of
long ago.  So `IInv` is proved again, with `StaleCursor` and `StaleProducerCursor` for the
loads (an old cursor is a smaller one, and every bound in `IInv` is a lower bound) and the
lemmas of `UniDisruptorProofs` for everything else.  `OrderedIInv` adds what views know:

* `CursorMessageInv`, `ProducerMessageInv`: the message that says c is at s carries a view
  that covers what c and everybody before c did with the events up to s, and that they
  were written (`Passed`).  The release store makes it so (`ReleasedMessage`,
  `AppendEffect`).  It is about every message there has been, for any may be loaded.
  The shutdown word, stored relaxed, carries nothing and needs nothing.
* `ConsumerViewInv`: a consumer's fold collects those views in `acq` as it collects the
  minimum (`FoldKnown`); the fence makes them part of `cur` before the batch is touched
  (`BatchKnown`).  What is known stays known (`KnownStays`), unless the producer
  writes another event, and that is beyond anything a consumer was told of (`PassedElsewhere`).
* `ProducerViewInv`: the producer has fenced for the bound it caches, so that it comes after
  all that any consumer did with events up to the bound less a ring
  (`ProducerKnowsMore`).  This has to be part of the invariant: a claim that is granted on the
  cached bound loads nothing and fences nothing (`uni.rs:176`).
* `AcquireInv`, `WriterInv`: a fence takes nothing back; what is published has a writer.

`AccessesOrdered` gets `RaceFree` from it.  A write at s conflicts with what was done to
s - Size and earlier in the slot, which the cached bound covers for each consumer of each
stage (earlier writes are the same thread's); a read of s with the write of s, which the
batch in hand covers.

`OrderedRefinement` maps a stale load to a stutter, and an exit on the shutdown
word to the exit of `Broadcast`: the word is compared with the consumer's own position, so that
a consumer that has seen it has everything (`ShutdownStep`).

### The multi producer on weak memory

`MultiOrderingProofs` proves the same five theorems of `MultiOrdering!OrderedSpec`, for any
number of handles, ring and word size; `OrderedIntegrity` includes `BitsTellPublished`.
`WritersAssumption` says that the handles are the writers and which words there are.  The
clone of a handle, its drop, failed exchanges, panicked updates and several producers
flipping bits of one word are all in it.

Consumers and stages are those of `ConsumerOrderingProofs` again.  What is new is that a
cursor only grows and a bit does not: a message of a word says of a slot "even" or
"odd", and two laps apart that looks the same.  `OrderedIInv` therefore says which sequence
a bit of a message **stands for**: `Latest(x, j, i)` counts the flips of slot i up to message
j, and each takes the slot a lap further.

* `WordInv`: the bit has the parity of that sequence, the sequence is published, and the
  message carries a view that covers its write, for each slot of each message there has
  been, whoever stored it.  A flip of another producer continues the release sequence of
  the message it finds and so brings the earlier views along (`NewFlipMessage`); its own
  batch is covered by the one release fence before the first flip, or by the releasing
  flip of a batch of one (`PublishWordViews`).  That the fence covers the second and later
  words of a batch is the conjunct of `ProducerKnows` about `rel`.
* `ScanInv`: what a consumer may still load says no less of a slot than what it has once
  seen of it.  Since no producer gets a lap ahead of any consumer, a bit of the right parity
  is then of this round (`ShownPublished`), and what a scan finds is published although
  the words it has looked at are of different moments (`ScanShowsPublished`).  This is where
  the code relies on each consumer of stage 1 looking at every bit once per lap.
* `ProducerViewInv`: each handle has fenced for the bound it caches, with a fold that may
  have seen different ages of the gating cursors.  Its bound also orders it after
  the **writers** of the slot a lap ago, who may be other handles: consumers came after those
  writes, and the cursor of a consumer carries that along (`Passed` includes `Written`).
  Nothing the producers tell each other is needed for it.
* `HandleInv`: the newest message of the handle count knows the newest message of the
  cursor, unless some living handle does.  An exchange makes its thread know the cursor it
  stored, a drop hands that to the count (`CounterKnows`), and whoever reads a count of one
  has it from there (`LastKnowsCursor`).  So the relaxed `current()` of the last `drop()`
  returns the newest cursor (`DropLastStep`): without the read-modify-writes of the count,
  or the mutex, the stream could be declared to end before its last events.

`AccessesOrdered` gets `RaceFree` from these as above.  In `OrderedRefinement` stale loads
are stutters, a last drop is `Drop` of `MultiDisruptor`, and a flip moves the prefix exactly
as it does there, since the bit field is the newest message of each word.

TLC found `OrderedIInv` true in `multi_ordering` before it was proved; there it is checked in
727675 states.

### Claims in fixed width

`MultiClaimsProofs` proves `ClaimsInvariance` and `ClaimsFit` of `MultiClaims!ClaimsSpec`,
for integers of any width and rings of any size smaller than `Half`
(`ClaimsAssumption`).  `ClaimsInv` says that what is claimed and not given back fits in
the ring (`LapInv`), that a cached bound is at most a ring ahead of what consumers gave
back (`BoundInv`), and that this is behind every batch still to be published
(`BatchesAhead`).  With the first, every difference `next_sequences` forms is within range
and wraps to itself (`I64Facts`).  One sum is not: near the end of the range
`current + free_slots` wraps.  It gets smaller by that, so the bound is still below what may
be claimed, and a handle with a bound too low only looks again (`ClaimDecides`).

A request of exactly `Half` fits together with the sequence -1 a disruptor begins with, and
still turns negative: `Fits` is about the request by itself, too.  That consumers of the bit
field take only the steps `MultiClaims` allows is `ImplementsClaims`, which TLC checks.

### The builders

`BuilderProofs` proves `TypeCorrect`, `Invariance`, `Pipeline`, `SettingsOnce` and
`ThreadsHeld` of `Builders!Spec`, for chains of any length with any number of consumers in
a stage.  The two builders are written out separately in the code and in the model; the
first lemmas (`UniIsBuilder`, `MultiIsBuilder`) show that they take the same steps, because
`remove(0)` from the one cursor of SC leaves what the other typestates replace by an empty
`Vec` (`OneCursor`).  `Builder!IInv` is the three properties, which support each other, and

* `NothingYet`: a chain is constructed without consumers;
* `SettingsKept`: the settings kept are those asked for since the last thread, and the
  counter is the number of threads nobody named (so that made-up names are in order);
* `HandlesKept`: the handles kept are exactly those of the threads that are not pollers, the
  shutdown word is written before the first join, and what has been joined has left.  Hence
  nothing runs when all handles are joined.

The only assumption is that names, cores and sizes are what they stand for
(`BuilderAssumption`).

### What stays with TLC

Liveness rests on fairness and `ENABLED`, which the prover does not handle.
`MultiArithmetic` is recursive over words and uses bitwise operators, which it does not
handle either; `FindsPublished` and `ImplementsClaims` are what the proofs assume of
`MultiDisruptor`'s bits and of the consumers of `MultiClaims`.

## 6. Plan

All modules of section 2 are written, their runs pass, and every safety property that is
not about bitwise arithmetic is proved.  What is left:

* calls for no events on weak memory, which append one message per call and would need
  `Latest` to skip messages that flip nothing;
* the masks and scans of `MultiArithmetic` for every word size, for which a prover
  with induction is needed.

## 7. Only model-checked, and not modelled

Only model-checked: the arithmetic of words and their bits, and liveness
(section 5 says why).

Not modelled, and why:

* Liveness with old values: a relaxed load may return an old message any number of times
  and the language only says that it should not for ever.  The liveness runs use the
  newest values.
* Sequences beyond `i64::MAX`, which take centuries; requests beyond it (section 4);
  the abort of `clone()` at 2^62 handles.
* Orderings inside `join`, `spawn`, `Arc` and the mutex, taken from their documentation.
* A client that leaks a guard or a producer (`mem::forget`), which only stops
  progress; one that panics inside `drop()` of something else.
* `end_of_batch`, the text of errors and panics, wait strategies (`wait_for` is told
  nothing and returns nothing): no influence on the protocol.
* The type-level encoding of sizes in `disruptor.rs`, decided by the compiler; `sync.rs`
  and the error types: no behaviour of their own.
* `lib.rs` is documentation, examples and tests but for the list of modules; what it
  promises is `Broadcast`.
