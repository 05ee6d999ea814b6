----------------------------- MODULE MPBuilder -----------------------------
(***************************************************************************)
(* The builder of multi-producer disruptors (builder/multi.rs), written    *)
(* out once more in the code with its own impl block per typestate.        *)
(***************************************************************************)
EXTENDS Builder

\* MultiProducerBarrier::new, called before the ring exists, does not panic.
BarrierAccepts(n) == n >= 64

\* build_multi_producer(_unchecked): two constructors may refuse a size.
New == Construct(BarrierAccepts(size) /\ RingAccepts(size))

\* The methods of MPBuilder<NC>: the first consumer of a stage.
FirstConsumer ==
  /\ state = "NC"
  /\ state' = "SC"
  /\ GetEventPoller \/ AddEventHandler(FALSE) \/ AddEventHandler(TRUE)

\* The adding methods of MPBuilder<SC>.
SecondConsumer ==
  /\ state = "SC"
  /\ state' = "MC"
  /\ GetEventPoller \/ AddEventHandler(FALSE) \/ AddEventHandler(TRUE)

\* MPBuilder<MC> stays one.
FurtherConsumer ==
  /\ state = "MC"
  /\ GetEventPoller \/ AddEventHandler(FALSE) \/ AddEventHandler(TRUE)
  /\ UNCHANGED state

AndThenSingle ==
  /\ state = "SC"
  /\ state' = "NC"
  /\ NextStage(<<Head(current_consumer_cursors)>>, Tail(current_consumer_cursors))

\* Mutant: the barrier takes a copy and the Vec is not replaced.
AndThenManyCopies ==
  /\ state = "MC"
  /\ state' = "NC"
  /\ NextStage(current_consumer_cursors, current_consumer_cursors)

AndThenMany ==
  /\ state = "MC"
  /\ state' = "NC"
  /\ NextStage(current_consumer_cursors, <<>>)

\* Mutant: the producer is given the barrier its last stage waits for.
BuildSingleDependent ==
  /\ state = "SC"
  /\ Build(dependent_barrier)

BuildSingle ==
  /\ state = "SC"
  /\ Build(<<Head(current_consumer_cursors)>>)

BuildMany ==
  /\ state = "MC"
  /\ Build(current_consumer_cursors)

Next ==
  \/ New
  \/ FirstConsumer \/ SecondConsumer \/ FurtherConsumer
  \/ AndThenSingle \/ AndThenMany
  \/ BuildSingle \/ BuildMany
  \/ SharedStep
  \/ Terminated

Spec == Init /\ [][Next]_vars

FairSpec == Spec /\ Fairness
=============================================================================
