-------------------------- MODULE ConsumerOrdering --------------------------
(***************************************************************************)
(* The consumers of Consumers on WeakMemory: the same program with the     *)
(* orderings it gives its atomics, so that a load may return a cursor as   *)
(* it was some time ago.                                                   *)
(*                                                                         *)
(* The variables of Consumers keep the newest value of each cursor and the *)
(* threads' own variables.  An action that stores a cursor is the one of   *)
(* Consumers with what it does to the views beside it; the loads are       *)
(* restated, because here they pick a message.                             *)
(***************************************************************************)
EXTENDS Consumers, Sequences

CONSTANTS
  Writers,  \* producer handles
  Words     \* words of the bit field, in a disruptor that has one

ProducerThread(p) == <<"producer", p>>
ConsumerThread(c) == <<"consumer", c>>

ProducerCursor == <<"cursor", 0>>
ConsumerCursor(c) == <<"cursor", c>>
WordAt(w) == <<"word", w>>
ShutdownWord == <<"shutdown", 0>>
HandleCounter == <<"counter", 0>>

ConsumerThreads == {ConsumerThread(c) : c \in Consumers}
ProducerThreads == {ProducerThread(p) : p \in Writers}

AllThreads == ProducerThreads \cup ConsumerThreads

AllLocations ==
  {ProducerCursor, ShutdownWord, HandleCounter}
    \cup {ConsumerCursor(c) : c \in Consumers} \cup {WordAt(w) : w \in Words}

VARIABLES
  memory, cur, acq, rel,  \* see WeakMemory
  writer                  \* history: who wrote the event of each sequence

INSTANCE WeakMemory WITH Threads <- AllThreads, Locations <- AllLocations

orderVars == <<memory, cur, acq, rel, writer>>

-----------------------------------------------------------------------------

\* Mutant: wait_for_events returns without the acquire fence.
HavingObtainedPollers(c, views, highest) ==
  IF c \in Pollers /\ highest >= consumer_sequence[c] THEN AcquireFence(views) ELSE views

\* wait_for_events and poll_take fence once the barrier has shown something.
HavingObtained(c, views, highest) ==
  IF highest >= consumer_sequence[c] THEN AcquireFence(views) ELSE views

\* Mutant: the cursor of a consumer is stored relaxed.
CursorOrderingRelaxed(x) == IF x = ProducerCursor THEN "Release" ELSE "Relaxed"

\* Cursor::store.
CursorOrdering(x) == "Release"

\* store(v, ordering) by t once it has these views.
StoreAs(t, views, x, v, ordering) ==
  /\ Append1(x, Message(views, x, v, ordering))
  /\ SetViews(t, Stored(views, x))

\* LoadUpstream with any message that is still visible.
LoadUpstreamOrdered(c) ==
  /\ cpc[c] = "load"
  /\ \E u \in unread[c] : \E i \in Visible(ConsumerThread(c), ConsumerCursor(u)) :
       LET minimum == MinOf(memory[ConsumerCursor(u)][i].value, lowest[c])
           views == Loaded(ViewsOf(ConsumerThread(c)), ConsumerCursor(u), i)
       IN
       /\ IsFirst(u, unread[c])
       /\ \/ /\ unread[c] = {u}
             /\ Observed(c, minimum)
             /\ SetViews(ConsumerThread(c), HavingObtained(c, views, minimum))
          \/ /\ unread[c] # {u}
             /\ unread' = [unread EXCEPT ![c] = @ \ {u}]
             /\ lowest' = [lowest EXCEPT ![c] = minimum]
             /\ SetViews(ConsumerThread(c), views)
             /\ UNCHANGED <<cpc, available>>
  /\ UNCHANGED <<consumer_cursor, consumer_sequence, memory>>

\* Mutant: whoever sees nothing new and then a shutdown leaves.
ShutdownSeenAny(c, waited) ==
  \E i \in Visible(ConsumerThread(c), ShutdownWord) :
    /\ cpc' = [cpc EXCEPT ![c] =
                 IF memory[ShutdownWord][i].value # NONE THEN "exited" ELSE "load"]
    /\ SetViews(ConsumerThread(c), Loaded(ViewsOf(ConsumerThread(c)), ShutdownWord, i))

\* The relaxed load of the shutdown word by a consumer that waits for `waited`.
\* It may be seen before the last events are.
ShutdownSeen(c, waited) ==
  \E i \in Visible(ConsumerThread(c), ShutdownWord) :
    /\ cpc' = [cpc EXCEPT ![c] =
                 IF memory[ShutdownWord][i].value = waited THEN "exited" ELSE "load"]
    /\ SetViews(ConsumerThread(c), Loaded(ViewsOf(ConsumerThread(c)), ShutdownWord, i))

LoadShutdownOrdered(c) ==
  /\ cpc[c] = "check"
  /\ ShutdownSeen(c, consumer_sequence[c])
  /\ UNCHANGED <<consumer_cursor, consumer_sequence, available, unread, lowest, memory>>

PollOrdered(c) ==
  /\ cpc[c] = "idle"
  /\ consumer_sequence' = [consumer_sequence EXCEPT ![c] = consumer_cursor[c] + 1]
  /\ ShutdownSeen(c, consumer_cursor[c] + 1)
  /\ UNCHANGED <<consumer_cursor, available, unread, lowest, memory>>

\* The handler has read its event.
HandleOrdered(c) ==
  /\ Handle(c)
  /\ SetViews(ConsumerThread(c),
              Accessed(ViewsOf(ConsumerThread(c)), ConsumerThread(c), consumer_sequence[c]))
  /\ UNCHANGED memory

ReleaseOrdered(c) ==
  /\ Release(c)
  /\ StoreAs(ConsumerThread(c), ViewsOf(ConsumerThread(c)), ConsumerCursor(c),
             consumer_cursor'[c], CursorOrdering(ConsumerCursor(c)))

\* Up to now the client may have been reading any event of the guard.
GuardDropOrdered(c) ==
  LET t == ConsumerThread(c) IN
  /\ GuardDrop(c)
  /\ StoreAs(t, Accessed(ViewsOf(t), t, available[c]), ConsumerCursor(c),
             consumer_cursor'[c], CursorOrdering(ConsumerCursor(c)))

\* What ConsumerStep is here.  Taking events from a guard is part of having it.
ConsumerStepOrdered(c) ==
  /\ \/ LoadUpstreamOrdered(c)
     \/ LoadShutdownOrdered(c)
     \/ PollOrdered(c)
     \/ HandleOrdered(c)
     \/ ReleaseOrdered(c)
     \/ GuardDropOrdered(c)
  /\ UNCHANGED <<shutdown_at_sequence, slots, writer>>

-----------------------------------------------------------------------------

\* t knows that u is done with sequence s: an access of t comes after it.
Ordered(t, u, s) == cur[t].done[u] >= s

\* Whoever was at the slot of s a lap ago.
PreviousWriter(s) ==
  IF s - Size \in DOMAIN writer THEN {ProducerThread(writer[s - Size])} ELSE {}

\* The language's data races (`SAFE:` and `SAFETY:` comments of uni.rs:212-214,
\* multi.rs:241-242, managed.rs:79-80 and unmanaged.rs:103-104): nobody gets at
\* an event unless it happens after every conflicting access to its slot.
\* WriteSets[p] is what p has exclusive references to.
RaceFreeAgainst(WriteSets) ==
  /\ \A c \in Consumers : \A s \in ReadSet(c) :
       /\ s \in DOMAIN writer
       /\ Ordered(ConsumerThread(c), ProducerThread(writer[s]), s)
  /\ \A p \in Writers : \A s \in WriteSets[p] :
       \A u \in ConsumerThreads \cup (PreviousWriter(s) \ {ProducerThread(p)}) :
         Ordered(ProducerThread(p), u, s - Size)

(***************************************************************************)
(* The consumers' part of the inductive invariant.                         *)
(***************************************************************************)

OrderTypeOK ==
  /\ MemoryTypeOK
  /\ \A s \in DOMAIN writer : s \in Nat /\ writer[s] \in Writers

\* Whoever has w knows of everything whoever has v knows of.
Precedes(v, w) == \A u \in AllThreads : v.done[u] <= w.done[u]

\* Whoever has w has looked as far into every location as whoever has v.
Sees(v, w) == \A x \in AllLocations : v.loc[x] <= w.loc[x]

\* Whoever has this view comes after the writes of all events up to s.
Written(view, s) ==
  \A e \in DOMAIN writer : e <= s => view.done[ProducerThread(writer[e])] >= e

\* Whoever has this view comes after all that c and everybody before c did with
\* the events up to s, and after their writes.
Passed(view, c, s) ==
  /\ Written(view, s)
  /\ \A u \in Before(c) \cup {c} : view.done[ConsumerThread(u)] >= s

\* A cursor, however old the message it is read from, is not ahead of the
\* consumer, and has what the consumer did before it in tow.
CursorMessageInv ==
  \A c \in Consumers : \A i \in DOMAIN memory[ConsumerCursor(c)] :
    LET message == memory[ConsumerCursor(c)][i] IN
    /\ message.value \in Int /\ message.value <= consumer_cursor[c]
    /\ Passed(message.view, c, message.value)

\* A fold gathers what an acquire fence will need; the batch in hand has had it.
ConsumerKnows(c) ==
  LET t == ConsumerThread(c) IN
  /\ Passed(cur[t], c, consumer_cursor[c])
  /\ \A u \in Upstream(c) \ unread[c] : Passed(acq[t], u, lowest[c])
  /\ cpc[c] = "handle" => cur[t].done[t] >= consumer_sequence[c] - 1
  /\ cpc[c] \in {"handle", "guard"} =>
       /\ Written(cur[t], available[c])
       /\ \A u \in Before(c) : cur[t].done[ConsumerThread(u)] >= available[c]

ConsumerViewInv == \A c \in Consumers : ConsumerKnows(c)

\* An acquire fence takes nothing back.
AcquireInv == \A t \in AllThreads : Precedes(cur[t], acq[t]) /\ Sees(cur[t], acq[t])

\* The shutdown word is stored once.
ShutdownMessageInv ==
  \A i \in DOMAIN memory[ShutdownWord] :
    memory[ShutdownWord][i].value \in {NONE, shutdown_at_sequence}
=============================================================================
