----------------------------- MODULE UPBuilder -----------------------------
(***************************************************************************)
(* The builder of single-producer disruptors (builder/uni.rs): one impl    *)
(* block per typestate, NC, SC and MC, and one action per thing its        *)
(* methods do to the chain.                                                *)
(***************************************************************************)
EXTENDS Builder

\* build_uni_producer(_unchecked): the ring is all that may refuse a size.
New == Construct(RingAccepts(size))

\* The methods of UPBuilder<NC>: the first consumer of a stage.
FirstConsumer ==
  /\ state = "NC"
  /\ state' = "SC"
  /\ GetEventPoller \/ AddEventHandler(FALSE) \/ AddEventHandler(TRUE)

SecondPoller ==
  /\ state = "SC"
  /\ state' = "MC"
  /\ GetEventPoller

SecondHandler ==
  /\ state = "SC"
  /\ state' = "MC"
  /\ AddEventHandler(FALSE) \/ AddEventHandler(TRUE)

\* UPBuilder<MC> stays one.
FurtherConsumer ==
  /\ state = "MC"
  /\ GetEventPoller \/ AddEventHandler(FALSE) \/ AddEventHandler(TRUE)
  /\ UNCHANGED state

\* Mutant: the cursor is read instead of removed.
AndThenSinglePeeks ==
  /\ state = "SC"
  /\ state' = "NC"
  /\ NextStage(<<Head(current_consumer_cursors)>>, current_consumer_cursors)

\* and_then() of SC removes the one cursor from the Vec it leaves in place.
AndThenSingle ==
  /\ state = "SC"
  /\ state' = "NC"
  /\ NextStage(<<Head(current_consumer_cursors)>>, Tail(current_consumer_cursors))

\* and_then() of MC replaces the Vec by an empty one.
AndThenMany ==
  /\ state = "MC"
  /\ state' = "NC"
  /\ NextStage(current_consumer_cursors, <<>>)

BuildSingle ==
  /\ state = "SC"
  /\ Build(<<Head(current_consumer_cursors)>>)

\* Mutant: build() of MC is that of SC.
BuildManyFirst ==
  /\ state = "MC"
  /\ Build(<<Head(current_consumer_cursors)>>)

BuildMany ==
  /\ state = "MC"
  /\ Build(current_consumer_cursors)

Next ==
  \/ New
  \/ FirstConsumer \/ SecondPoller \/ SecondHandler \/ FurtherConsumer
  \/ AndThenSingle \/ AndThenMany
  \/ BuildSingle \/ BuildMany
  \/ SharedStep
  \/ Terminated

Spec == Init /\ [][Next]_vars

FairSpec == Spec /\ Fairness
=============================================================================
