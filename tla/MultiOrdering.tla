--------------------------- MODULE MultiOrdering ---------------------------
(***************************************************************************)
(* The multi-producer disruptor on WeakMemory: MultiDisruptor with the     *)
(* orderings of producer/multi.rs, over the consumers of ConsumerOrdering. *)
(*                                                                         *)
(* A message of a word of the bit field is the bits of its slots.  The     *)
(* mutex around the life of a handle is part of HandleCounter: every       *)
(* critical section begins with a read-modify-write of it.                 *)
(***************************************************************************)
EXTENDS MultiDisruptor, ConsumerOrdering

WordOf(slot) == slot \div WordBits
SlotsOf(w) == {i \in Slots : WordOf(i) = w}

ASSUME WritersAssumption ==
  /\ Writers = Producers
  /\ Words = {WordOf(i) : i \in Slots}

InitialValue(x) ==
  CASE x = HandleCounter -> 1
    [] x \in {WordAt(w) : w \in Words} -> [i \in SlotsOf(x[2]) |-> 1]
    [] OTHER -> NONE

OrderedInit ==
  /\ Init
  /\ InitMemory([x \in AllLocations |-> InitialValue(x)])
  /\ writer = <<>>

-----------------------------------------------------------------------------

(***************************************************************************)
(* Claiming.                                                               *)
(***************************************************************************)

Views(p) == ViewsOf(ProducerThread(p))

\* current(), or a compare_exchange that fails: a relaxed load of the cursor.
LoadCursorOrdered(p) ==
  /\ \E i \in Visible(ProducerThread(p), ProducerCursor) :
       LET seen == memory[ProducerCursor][i].value IN
       /\ \/ ppc[p] = "start"
          \/ ppc[p] = "cas" /\ seen # current[p]
       /\ Attempt(p, seen)
       /\ SetViews(ProducerThread(p), Loaded(Views(p), ProducerCursor, i))
  /\ UNCHANGED <<slots, consumerVars, shutdown_at_sequence, scanned, barrierVars,
                 claimed_sequence, sequence_clear_of_consumers, request, rear_unread,
                 rear_lowest, updateVars, lifeVars, historyVars, memory, writer>>

\* Mutant: a claim made on the slow path is not fenced.
HavingClaimedUnfenced(p, views, rear) == views

\* next_sequences fences before it goes on with a claim.
HavingClaimed(p, views, rear) ==
  IF FreeSlots(current[p], rear) >= request[p].n THEN AcquireFence(views) ELSE views

LoadRearOrdered(p) ==
  /\ ppc[p] = "claim"
  /\ \E c \in rear_unread[p] : \E i \in Visible(ProducerThread(p), ConsumerCursor(c)) :
       LET minimum == MinOf(memory[ConsumerCursor(c)][i].value, rear_lowest[p])
           views == Loaded(Views(p), ConsumerCursor(c), i)
       IN
       /\ IsFirst(c, rear_unread[p])
       /\ \/ /\ rear_unread[p] = {c}
             /\ ClaimAgainst(p, minimum)
             /\ SetViews(ProducerThread(p), HavingClaimed(p, views, minimum))
          \/ /\ rear_unread[p] # {c}
             /\ rear_unread' = [rear_unread EXCEPT ![p] = @ \ {c}]
             /\ rear_lowest' = [rear_lowest EXCEPT ![p] = minimum]
             /\ SetViews(ProducerThread(p), views)
             /\ UNCHANGED <<ppc, request, current, sequence_clear_of_consumers>>
  /\ UNCHANGED <<slots, consumerVars, shutdown_at_sequence, scanned, barrierVars,
                 claimed_sequence, updateVars, lifeVars, historyVars, memory, writer>>

\* Mutant: the handle counter is relaxed, and there is no mutex around it.
ExchangeRelaxed(p, x, v) ==
  LET views == IF x = HandleCounter THEN Loaded(Views(p), x, Len(memory[x]))
               ELSE LoadedAcquire(Views(p), x, Len(memory[x]))
  IN /\ Append1(x, ExchangeMessage(views, x, v,
                      IF x = HandleCounter THEN "Relaxed" ELSE "Release"))
     /\ SetViews(ProducerThread(p), Stored(views, x))

\* A read-modify-write of p with Ordering::AcqRel.
Exchange(p, x, v) ==
  LET views == LoadedAcquire(Views(p), x, Len(memory[x])) IN
  /\ Append1(x, ExchangeMessage(views, x, v, "Release"))
  /\ SetViews(ProducerThread(p), Stored(views, x))

ClaimSucceedsOrdered(p) ==
  /\ ClaimSucceeds(p)
  /\ Exchange(p, ProducerCursor, cursor')
  /\ UNCHANGED writer

-----------------------------------------------------------------------------

(***************************************************************************)
(* Updating and publishing.                                                *)
(***************************************************************************)

WriteEventOrdered(p) ==
  /\ WriteEvent(p)
  /\ SetViews(ProducerThread(p), Accessed(Views(p), ProducerThread(p), position[p]))
  /\ writer' = [s \in DOMAIN writer \cup {position[p]} |->
                  IF s = position[p] THEN p ELSE writer[s]]
  /\ UNCHANGED memory

\* Mutant: no release fence before the flips of a batch.
FencedNever(p) == Views(p)

\* apply_updates fences once, before the first flip.
Fenced(p) ==
  IF unpublished[p] = Lower(p) THEN ReleaseFence(Views(p)) ELSE Views(p)

\* Flips of a batch are relaxed, that of publish() and try_publish() releases.
PublishWordOrdered(p) ==
  LET w == WordOf(SlotOf(unpublished[p]))
      newest == Len(memory[WordAt(w)])
      flipped == [i \in SlotsOf(w) |-> bits'[i]]
  IN
  /\ PublishWord(p)
  /\ \/ LET views == Loaded(Fenced(p), WordAt(w), newest) IN
        /\ Append1(WordAt(w), ExchangeMessage(views, WordAt(w), flipped, "Relaxed"))
        /\ SetViews(ProducerThread(p), Stored(views, WordAt(w)))
     \/ LET views == Loaded(Views(p), WordAt(w), newest) IN
        /\ request[p].n = 1
        /\ Append1(WordAt(w), ExchangeMessage(views, WordAt(w), flipped, "Release"))
        /\ SetViews(ProducerThread(p), Stored(views, WordAt(w)))
  /\ UNCHANGED writer

-----------------------------------------------------------------------------

(***************************************************************************)
(* The life of a handle.                                                   *)
(***************************************************************************)

\* The clone is given to the thread of q, which sees what p had.
CloneOrdered(p, q) ==
  LET views == LoadedAcquire(Views(p), HandleCounter, Len(memory[HandleCounter]))
      after == Stored(views, HandleCounter)
      threads == {ProducerThread(p), ProducerThread(q)}
  IN
  /\ Clone(p, q)
  /\ Append1(HandleCounter, ExchangeMessage(views, HandleCounter, counter', "Release"))
  /\ cur' = [t \in AllThreads |-> IF t \in threads THEN after.cur ELSE cur[t]]
  /\ acq' = [t \in AllThreads |-> IF t \in threads THEN after.acq ELSE acq[t]]
  /\ UNCHANGED <<rel, writer>>

\* Not the last handle.
DropOrdered(p) ==
  /\ counter # 1
  /\ Drop(p)
  /\ Exchange(p, HandleCounter, counter')
  /\ UNCHANGED writer

\* The last one: current() is a relaxed load, which must not be a stale one.
DropLastOrdered(p) ==
  LET entered == LoadedAcquire(Views(p), HandleCounter, Len(memory[HandleCounter])) IN
  /\ ppc[p] = "idle"
  /\ counter = 1
  /\ counter' = 0
  /\ ppc' = [ppc EXCEPT ![p] = "join"]
  /\ \E i \in entered.cur.loc[ProducerCursor] .. Len(memory[ProducerCursor]) :
       LET views == Loaded(entered, ProducerCursor, i) IN
       /\ shutdown_at_sequence' = memory[ProducerCursor][i].value + 1
       /\ Append1(ShutdownWord, Message(views, ShutdownWord, shutdown_at_sequence', "Relaxed"))
       /\ SetViews(ProducerThread(p), Stored(views, ShutdownWord))
  /\ UNCHANGED <<slots, consumerVars, scanned, barrierVars, claimed_sequence,
                 sequence_clear_of_consumers, request, claimVars, updateVars, joined,
                 historyVars, writer>>

-----------------------------------------------------------------------------

\* ScanWord on any value of the word c may still be shown.
ScanWordOrdered(c) ==
  LET highest_available == consumer_sequence[c] + scanned[c]
      word == highest_available .. WordEnd(highest_available)
      x == WordAt(WordOf(SlotOf(highest_available)))
  IN
  /\ cpc[c] = "load"
  /\ WaitsForProducer(c)
  /\ \E i \in Visible(ConsumerThread(c), x) :
       LET Shown(s) == memory[x][i].value[SlotOf(s)] = Parity(s)
           views == Loaded(ViewsOf(ConsumerThread(c)), x, i)
       IN
       \/ \E missing \in word :
            /\ ~Shown(missing)
            /\ \A s \in word : s < missing => Shown(s)
            /\ Observed(c, missing - 1)
            /\ SetViews(ConsumerThread(c), HavingObtained(c, views, missing - 1))
            /\ scanned' = [scanned EXCEPT ![c] = 0]
       \/ /\ \A s \in word : Shown(s)
          /\ scanned' = [scanned EXCEPT ![c] = WordEnd(highest_available) + 1 - consumer_sequence[c]]
          /\ SetViews(ConsumerThread(c), views)
          /\ UNCHANGED <<cpc, available, unread, lowest>>
  /\ UNCHANGED <<slots, consumer_cursor, consumer_sequence, shutdown_at_sequence,
                 producerVars, memory, writer>>

\* Steps that touch no shared word.  Calls for no event at all are left to
\* MultiDisruptor.
LocalStep ==
  /\ \/ \E p \in Producers, n \in 1 .. MaxBatch, blocking \in BOOLEAN : Call(p, n, blocking)
     \/ \E p \in Producers : UpdatePanics(p) \/ DropReturns(p)
     \/ \E p \in Producers, c \in Managed : Join(p, c)
     \/ Terminated
  /\ UNCHANGED orderVars

OrderedNext ==
  \/ LocalStep
  \/ \E p \in Producers :
       \/ LoadCursorOrdered(p)
       \/ LoadRearOrdered(p)
       \/ ClaimSucceedsOrdered(p)
       \/ WriteEventOrdered(p)
       \/ PublishWordOrdered(p)
       \/ \E q \in Producers : CloneOrdered(p, q)
       \/ DropOrdered(p)
       \/ DropLastOrdered(p)
  \/ \E c \in Consumers :
       \/ ScanWordOrdered(c)
       \/ ConsumerStepOrdered(c) /\ UNCHANGED <<scanned, producerVars>>
       \/ ConsumerFailure(c) /\ UNCHANGED <<scanned, producerVars, orderVars>>

OrderedSpec == OrderedInit /\ [][OrderedNext]_<<vars, orderVars>>

-----------------------------------------------------------------------------

\* No access of an event races with another: multi.rs:241-242 and 261-262 on
\* the producers' side, the acquire fences of multi.rs:211 and managed.rs:186,
\* the release fence of multi.rs:266 and the releasing flip of multi.rs:455
\* between them, and the relaxed flips of others in the same word.
RaceFree == RaceFreeAgainst([p \in Writers |-> WriteSet(p)])

(***************************************************************************)
(* The inductive invariant.                                                *)
(***************************************************************************)

OrderedTypeOK == TypeOK /\ OrderTypeOK

\* A word changes the bit of slot i with these messages, up to message j.
Flips(x, j, i) ==
  {k \in 2 .. j : memory[x][k].value[i] # memory[x][k - 1].value[i]}

\* The sequence that was the last to be published in slot i as of message j:
\* a lap behind the first one at the beginning, a lap further with each flip.
Latest(x, j, i) == i + Size * (Cardinality(Flips(x, j, i)) - 1)

WordFor(s) == WordAt(WordOf(SlotOf(s)))

\* From message j of its word on, the publication of s can be seen.
Shows(j, s) == Latest(WordFor(s), j, SlotOf(s)) >= s

\* A bit of a message, however old, stands for a sequence that is published, and
\* the message has the write of its event in tow.  The newest message is the
\* bit field as it is.
WordInv ==
  /\ \A w \in Words :
       /\ Newest(WordAt(w)).value = [i \in SlotsOf(w) |-> bits[i]]
       /\ \A j \in DOMAIN memory[WordAt(w)], i \in SlotsOf(w) :
            LET message == memory[WordAt(w)][j]
                s == Latest(WordAt(w), j, i)
            IN
            /\ message.value \in [SlotsOf(w) -> {0, 1}]
            /\ message.value[i] = Parity(s)
            /\ IsPublished(s)
            /\ s >= 0 => message.view.done[ProducerThread(writer[s])] >= s
  /\ \A s \in -Size .. cursor :
       IsPublished(s) => Shows(Len(memory[WordFor(s)]), s)

\* How far c has looked into the bit field.
Scanned(c) ==
  IF cpc[c] \in {"handle", "guard"} THEN available[c] ELSE consumer_cursor[c] + scanned[c]

\* A scan gathers what an acquire fence will need, and what c has once seen of a
\* slot it is not shown otherwise again: a bit it may still load is of this
\* round or of the one before.
ScanInv ==
  \A c \in Consumers : WaitsForProducer(c) =>
    /\ Written(acq[ConsumerThread(c)], Scanned(c))
    /\ \A s \in -Size .. Scanned(c) :
         \A j \in Visible(ConsumerThread(c), WordFor(s)) : Shows(j, s)

\* What the cached bound of p was computed from has been fenced, and so has
\* what a claim on it relies on; the first flip of a batch finds it written.
ProducerKnows(p) ==
  LET t == ProducerThread(p) IN
  /\ \A c \in Consumers : Passed(cur[t], c, sequence_clear_of_consumers[p] - Size)
  /\ \A u \in LastStage \ rear_unread[p] : Passed(acq[t], u, rear_lowest[p])
  /\ ppc[p] = "write" =>
       /\ Upper(p) <= sequence_clear_of_consumers[p]
       /\ position[p] > Lower(p) => cur[t].done[t] >= position[p] - 1
       /\ unpublished[p] > Lower(p) => rel[t].done[t] >= Upper(p)
  /\ ppc[p] = "unborn" =>
       /\ sequence_clear_of_consumers[p] = 0
       /\ rear_unread[p] = LastStage
  /\ \A u \in AllThreads : cur[t].done[u] >= -1

ProducerViewInv == \A p \in Producers : ProducerKnows(p)

\* Everything published has been written, and what p has of its batch so far by p.
WriterInv ==
  /\ \A s \in 0 .. cursor : IsPublished(s) => s \in DOMAIN writer
  /\ \A p \in Producers : ppc[p] = "write" =>
       \A s \in Lower(p) .. position[p] - 1 : s \in DOMAIN writer /\ writer[s] = p

KnowsCursor(view) == view.loc[ProducerCursor] >= Len(memory[ProducerCursor])

\* Whoever is the last to drop its handle gets to know the newest cursor with the
\* count: from itself, or from those who have gone before.
HandleInv ==
  /\ \A i \in DOMAIN memory[ProducerCursor] : memory[ProducerCursor][i].value \in Int
  /\ Newest(ProducerCursor).value = cursor
  /\ Alive # {} =>
       \/ KnowsCursor(Newest(HandleCounter).view)
       \/ \E p \in Alive : KnowsCursor(cur[ProducerThread(p)])

\* The inductive invariant behind RaceFree: whatever messages the relaxed loads
\* of next_sequences, get_after and drop() return, they stand for something that
\* is published or given back, and the fences after them order it before.
OrderedIInv ==
  /\ OrderedTypeOK
  /\ IInv
  /\ CursorMessageInv /\ ConsumerViewInv /\ AcquireInv /\ ShutdownMessageInv
  /\ WordInv /\ ScanInv
  /\ ProducerViewInv /\ WriterInv /\ HandleInv
=============================================================================
