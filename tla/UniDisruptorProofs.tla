------------------------- MODULE UniDisruptorProofs -------------------------
(***************************************************************************)
(* The single-producer disruptor is correct for every ring buffer size,    *)
(* every arrangement of consumers in stages, every choice of pollers and   *)
(* of handlers that may panic, and every bound.                            *)
(***************************************************************************)
EXTENDS UniDisruptor, ConsumersProofs

LEMMA InitType == Init => TypeOK
  <1> SUFFICES ASSUME Init PROVE TypeOK
    OBVIOUS
  <1>1. SlotsTypeOK
    BY DEF Init, InitSlots, SlotsTypeOK, NONE
  <1>2. ConsumersTypeOK
    BY InitConsumersType DEF Init
  <1>3. QED
    BY <1>1, <1>2, SizeAssumption, ConsumersAssumption, LastStageFacts
    DEF Init, TypeOK, Requests, NONE

\* What a decision on the slow path leaves behind is well typed.
LEMMA ClaimAgainstType ==
  ASSUME TypeOK, NEW rear \in Int, ClaimAgainst(rear)
  PROVE  /\ sequence_clear_of_consumers' \in Int
         /\ ppc' \in {"idle", "claim", "write"}
         /\ rear_unread' \in SUBSET LastStage
         /\ rear_lowest' \in Int
         /\ position' \in Int
  BY SizeAssumption, ConsumersAssumption
  DEF TypeOK, ClaimAgainst, Claimed, FreeSlots, WrapPoint, Requests

\* One load of the producer's fold is well typed, whatever it returned.
LEMMA RearStepType ==
  ASSUME TypeOK, NEW c \in rear_unread, NEW minimum \in Int,
         \/ ClaimAgainst(minimum)
         \/ /\ rear_unread' = rear_unread \ {c}
            /\ rear_lowest' = minimum
            /\ UNCHANGED <<ppc, sequence_clear_of_consumers, position>>,
         UNCHANGED <<slots, consumerVars, shutdown_at_sequence, producer_cursor,
                     sequence, request, joined>>
  PROVE  TypeOK'
  <1>1. SlotsTypeOK' /\ ConsumersTypeOK'
    BY DEF TypeOK, SlotsTypeOK, ConsumersTypeOK, consumerVars
  <1>2. CASE ClaimAgainst(minimum)
    BY <1>1, <1>2, ClaimAgainstType DEF TypeOK
  <1>3. CASE ~ClaimAgainst(minimum)
    BY <1>1, <1>3 DEF TypeOK
  <1>4. QED
    BY <1>2, <1>3

LEMMA NextType == TypeOK /\ [Next]_vars => TypeOK'
  <1> SUFFICES ASSUME TypeOK, [Next]_vars PROVE TypeOK'
    OBVIOUS
  <1> USE DEF TypeOK
  <1>1. ASSUME NEW n \in 0 .. MaxBatch, NEW blocking \in BOOLEAN, Call(n, blocking)
        PROVE  TypeOK'
    BY <1>1, BoundsAssumption
    DEF Call, Claimed, Requests, SlotsTypeOK, ConsumersTypeOK, consumerVars
  <1>2. CASE LoadRear
    <2>1. PICK c \in rear_unread :
            LET minimum == MinOf(consumer_cursor[c], rear_lowest) IN
            \/ ClaimAgainst(minimum)
            \/ /\ rear_unread' = rear_unread \ {c}
               /\ rear_lowest' = minimum
               /\ UNCHANGED <<ppc, sequence_clear_of_consumers, position>>
      BY <1>2 DEF LoadRear
    <2>2. MinOf(consumer_cursor[c], rear_lowest) \in Int
      BY LastStageFacts DEF MinOf, ConsumersTypeOK
    <2>3. UNCHANGED <<slots, consumerVars, shutdown_at_sequence, producer_cursor,
                      sequence, request, joined>>
      BY <1>2 DEF LoadRear
    <2>4. QED
      BY <2>1, <2>2, <2>3, RearStepType
  <1>3. CASE WriteEvent
    <2>1. SlotsTypeOK'
      BY <1>3, WriteSlotEffect DEF WriteEvent
    <2>2. QED
      BY <1>3, <2>1 DEF WriteEvent, ConsumersTypeOK, consumerVars
  <1>4. CASE Publish
    BY <1>4 DEF Publish, Upper, Requests, SlotsTypeOK, ConsumersTypeOK, consumerVars, callVars
  <1>5. CASE UpdatePanics
    BY <1>5 DEF UpdatePanics, SlotsTypeOK, ConsumersTypeOK, consumerVars, callVars
  <1>6. CASE Drop
    BY <1>6 DEF Drop, SlotsTypeOK, ConsumersTypeOK, consumerVars, callVars
  <1>7. ASSUME NEW c \in Managed, Join(c)
        PROVE  TypeOK'
    BY <1>7 DEF Join, SlotsTypeOK, ConsumersTypeOK, consumerVars, callVars
  <1>8. CASE DropReturns
    BY <1>8 DEF DropReturns, SlotsTypeOK, ConsumersTypeOK, consumerVars, callVars
  <1>9. ASSUME NEW c \in Consumers, LoadProducerBarrier(c)
        PROVE  TypeOK'
    BY <1>9, ObservedType
    DEF LoadProducerBarrier, SlotsTypeOK, ConsumersTypeOK, producerVars, callVars
  <1>10. ASSUME NEW c \in Consumers, ConsumerStep(c) \/ ConsumerFailure(c),
                UNCHANGED producerVars
         PROVE  TypeOK'
    <2>1. UNCHANGED slots
      BY <1>10 DEF ConsumerStep, ConsumerFailure
    <2>2. QED
      BY <1>10, <2>1, ConsumerStepType DEF SlotsTypeOK, producerVars, callVars
  <1>11. CASE UNCHANGED vars
    BY <1>11 DEF vars, SlotsTypeOK, ConsumersTypeOK, consumerVars, producerVars, callVars
  <1>12. QED
    BY <1>1, <1>2, <1>3, <1>4, <1>5, <1>6, <1>7, <1>8, <1>9, <1>10, <1>11
    DEF Next, Client, ProducerStep, Advance, Terminated

\* Every variable of the single-producer disruptor keeps its type.
THEOREM TypeCorrect == Spec => []TypeOK
  BY InitType, NextType, PTL DEF Spec

-----------------------------------------------------------------------------

(***************************************************************************)
(* The inductive invariant.                                                *)
(***************************************************************************)

LEMMA InitInv == Init => IInv
  <1> SUFFICES ASSUME Init PROVE IInv
    OBVIOUS
  <1>1. ProducerInv
    BY SizeAssumption, BoundsAssumption DEF Init, InitConsumers, ProducerInv, NONE
  <1>2. ClearInv
    BY SizeAssumption DEF Init, InitConsumers, ClearInv, NONE
  <1>3. ConsumerInv(producer_cursor)
    BY InitConsumerInv DEF Init
  <1>4. SlotInv
    BY DEF Init, InitSlots, SlotInv, NONE
  <1>5. QED
    BY <1>1, <1>2, <1>3, <1>4 DEF IInv

\* The claimed sequences lie within one lap of every consumer's cursor.
LEMMA ClaimWithinLap ==
  ASSUME TypeOK, IInv, ppc = "write", NEW c \in Consumers
  PROVE  /\ Upper \in Int
         /\ Upper <= consumer_cursor[c] + Size
         /\ consumer_cursor[c] < sequence
         /\ Upper < sequence + Size
         /\ request.n <= Size
  BY SizeAssumption
  DEF TypeOK, ConsumersTypeOK, Requests, IInv, ProducerInv, ClearInv, ConsumerInv,
      CursorInv, Upper

\* A cursor every gating consumer has passed has been passed by every consumer.
LEMMA RearBehindAll ==
  ASSUME TypeOK, IInv, NEW rear \in Int,
         \A d \in LastStage : rear <= consumer_cursor[d]
  PROVE  \A c \in Consumers : rear <= consumer_cursor[c]
  <1> TAKE c \in Consumers
  <1>1. PICK d \in LastStage : c \in LastStage \/ c \in Before(d)
    BY LastStageFacts
  <1>2. d \in Consumers
    BY LastStageFacts
  <1>3. c \in Before(d) => consumer_cursor[d] <= consumer_cursor[c]
    BY <1>2 DEF IInv, ConsumerInv, CursorInv
  <1>4. QED
    BY <1>1, <1>2, <1>3 DEF TypeOK, ConsumersTypeOK

\* A step of the producer that publishes, or leaves its cursor alone.
LEMMA ConsumersUntouched ==
  ASSUME TypeOK, IInv, UNCHANGED <<consumerVars, shutdown_at_sequence>>,
         producer_cursor' \in Int, producer_cursor <= producer_cursor'
  PROVE  ConsumerInv(producer_cursor)'
  <1>1. PICK top \in Int, more \in Int : top = producer_cursor /\ more = producer_cursor'
    BY DEF TypeOK
  <1>2. ConsumerInv(top)
    BY <1>1 DEF IInv
  <1>3. ConsumerInv(more)'
    BY <1>1, <1>2, PublishedMore DEF TypeOK
  <1>4. QED
    BY <1>1, <1>3 DEF ConsumerInv, CursorInv, BatchInv

\* The slots' part of the invariant survives a larger cached bound.
LEMMA LargerBoundSlots ==
  ASSUME TypeOK, SlotInv, sequence_clear_of_consumers' \in Int,
         sequence_clear_of_consumers <= sequence_clear_of_consumers',
         UNCHANGED <<slots, producer_cursor, sequence>>,
         ppc' = "write" => position' = sequence
  PROVE  SlotInv'
  <1>1. ASSUME NEW s \in 0 .. producer_cursor, sequence_clear_of_consumers' < s + Size
        PROVE  slots[SlotOf(s)] = s
    <2>1. sequence_clear_of_consumers < s + Size
      BY <1>1, SizeAssumption DEF TypeOK
    <2>2. QED
      BY <2>1 DEF SlotInv
  <1>2. \A i \in Slots : slots[i] # NONE => /\ SlotOf(slots[i]) = i
                                           /\ slots[i] <= sequence_clear_of_consumers'
    BY DEF TypeOK, SlotsTypeOK, SlotInv
  <1>3. ppc' = "write" => \A s \in sequence .. position' - 1 : FALSE
    BY DEF TypeOK
  <1>4. QED
    BY <1>1, <1>2, <1>3 DEF SlotInv

\* The decision on the slow path.
LEMMA ClaimAgainstInv ==
  ASSUME TypeOK, IInv, ppc = "claim", NEW rear \in Int, ClaimAgainst(rear),
         \A d \in LastStage : rear <= consumer_cursor[d],
         UNCHANGED <<slots, consumerVars, shutdown_at_sequence, producer_cursor,
                     sequence, request, joined>>
  PROVE  IInv'
  <1>1. /\ sequence_clear_of_consumers' \in Int
        /\ sequence_clear_of_consumers <= sequence_clear_of_consumers'
        /\ \/ sequence_clear_of_consumers' = sequence_clear_of_consumers
           \/ sequence_clear_of_consumers' = rear + Size
        /\ ppc' \in {"idle", "claim", "write"}
        /\ ppc' = "claim" => sequence_clear_of_consumers' = sequence_clear_of_consumers
        /\ ppc' = "write" => /\ position' = sequence
                             /\ Upper <= sequence_clear_of_consumers'
    BY SizeAssumption
    DEF TypeOK, Requests, IInv, ProducerInv, ClaimAgainst, Claimed, FreeSlots, WrapPoint, Upper
  <1>2. ProducerInv'
    BY <1>1 DEF TypeOK, Requests, IInv, ProducerInv, Upper, ClaimAgainst
  <1>3. ClearInv'
    <2>1. \A c \in Consumers : rear <= consumer_cursor[c]
      BY RearBehindAll
    <2>2. rear_unread' = LastStage
      BY DEF ClaimAgainst
    <2>3. QED
      BY <1>1, <2>1, <2>2, SizeAssumption
      DEF TypeOK, ConsumersTypeOK, IInv, ClearInv, consumerVars
  <1>4. ConsumerInv(producer_cursor)'
    <2>1. /\ UNCHANGED <<consumerVars, shutdown_at_sequence>>
          /\ producer_cursor' \in Int
          /\ producer_cursor <= producer_cursor'
      BY DEF TypeOK
    <2>2. QED
      BY <2>1, ConsumersUntouched
  <1>5. SlotInv'
    BY <1>1, LargerBoundSlots DEF IInv
  <1>6. QED
    BY <1>2, <1>3, <1>4, <1>5 DEF IInv

\* Writing a claimed event disturbs no event a consumer may still come back to.
LEMMA WriteEventSlots ==
  ASSUME TypeOK, IInv, WriteEvent
  PROVE  SlotInv'
  <1>1. /\ ppc = "write"
        /\ position \in Int
        /\ sequence <= position
        /\ position <= Upper
        /\ Upper <= sequence_clear_of_consumers
        /\ Upper \in Int /\ sequence \in Nat
        /\ producer_cursor = sequence - 1
        /\ position' = position + 1
        /\ UNCHANGED <<producer_cursor, sequence, sequence_clear_of_consumers, ppc, request>>
    BY DEF WriteEvent, TypeOK, IInv, ProducerInv, Upper, Requests
  <1>2. /\ slots' \in [Slots -> Int]
        /\ slots'[SlotOf(position)] = position
        /\ \A i \in Slots : i # SlotOf(position) => slots'[i] = slots[i]
    BY <1>1, WriteSlotEffect DEF WriteEvent, TypeOK, SlotsTypeOK
  <1>3. ASSUME NEW s \in Int, s < position, position - s < Size, slots[SlotOf(s)] = s
        PROVE  slots'[SlotOf(s)] = s
    BY <1>1, <1>2, <1>3, DistinctSlots, SlotOfInSlots
  <1>4. ASSUME NEW s \in 0 .. producer_cursor, sequence_clear_of_consumers < s + Size
        PROVE  slots'[SlotOf(s)] = s
    <2>1. s \in Int /\ s < position /\ position - s < Size
      BY <1>1, <1>4, SizeAssumption DEF TypeOK
    <2>2. slots[SlotOf(s)] = s
      BY <1>4 DEF IInv, SlotInv
    <2>3. QED
      BY <1>3, <2>1, <2>2
  <1>5. ASSUME NEW s \in sequence .. position
        PROVE  slots'[SlotOf(s)] = s
    <2>1. CASE s = position
      BY <1>2, <2>1
    <2>2. CASE s # position
      <3>1. s \in sequence .. position - 1
        BY <1>1, <2>2
      <3>2. slots[SlotOf(s)] = s
        BY <1>1, <3>1 DEF IInv, SlotInv
      <3>3. PICK c \in Consumers : TRUE
        BY LastStageFacts
      <3>4. Upper < sequence + Size
        BY <1>1, <3>3, ClaimWithinLap
      <3>5. s \in Int /\ s < position /\ position - s < Size
        BY <1>1, <3>1, <3>4, SizeAssumption
      <3>6. QED
        BY <1>3, <3>2, <3>5
    <2>3. QED
      BY <2>1, <2>2
  <1>6. ASSUME NEW i \in Slots, slots'[i] # NONE
        PROVE  SlotOf(slots'[i]) = i /\ slots'[i] <= sequence_clear_of_consumers
    <2>1. CASE i = SlotOf(position)
      BY <1>1, <1>2, <2>1 DEF TypeOK
    <2>2. CASE i # SlotOf(position)
      BY <1>2, <1>6, <2>2 DEF IInv, SlotInv
    <2>3. QED
      BY <2>1, <2>2
  <1>7. position' - 1 = position
    BY <1>1
  <1>8. QED
    BY <1>1, <1>4, <1>5, <1>6, <1>7 DEF SlotInv

\* One load of the producer's fold, of a cursor as it is or as it was.
LEMMA RearStepInv ==
  ASSUME TypeOK, IInv, ppc = "claim", NEW c \in rear_unread,
         NEW value \in Int, value <= consumer_cursor[c],
         NEW minimum, minimum = MinOf(value, rear_lowest),
         \/ /\ rear_unread = {c}
            /\ ClaimAgainst(minimum)
         \/ /\ rear_unread' = rear_unread \ {c}
            /\ rear_lowest' = minimum
            /\ UNCHANGED <<ppc, sequence_clear_of_consumers, position>>,
         UNCHANGED <<slots, consumerVars, shutdown_at_sequence, producer_cursor,
                     sequence, request, joined>>
  PROVE  IInv'
  <1>1. c \in Consumers
    BY LastStageFacts DEF TypeOK
  <1>2. /\ minimum \in Int
        /\ minimum <= consumer_cursor[c]
        /\ minimum <= rear_lowest
    BY <1>1 DEF TypeOK, ConsumersTypeOK, MinOf
  <1>3. \A d \in LastStage \ (rear_unread \ {c}) : minimum <= consumer_cursor[d]
    BY <1>1, <1>2, LastStageFacts DEF TypeOK, ConsumersTypeOK, IInv, ClearInv
  <1>4. CASE rear_unread = {c} /\ ClaimAgainst(minimum)
    <2>1. \A d \in LastStage : minimum <= consumer_cursor[d]
      BY <1>3, <1>4
    <2>2. QED
      BY <1>2, <1>4, <2>1, ClaimAgainstInv
  <1>5. CASE /\ rear_unread' = rear_unread \ {c}
             /\ rear_lowest' = minimum
             /\ UNCHANGED <<ppc, sequence_clear_of_consumers, position>>
    <2>1. ProducerInv'
      BY <1>5 DEF IInv, ProducerInv, Upper
    <2>2. ClearInv'
      BY <1>3, <1>5 DEF IInv, ClearInv, consumerVars
    <2>3. ConsumerInv(producer_cursor)'
      <3>1. producer_cursor' \in Int /\ producer_cursor <= producer_cursor'
        BY DEF TypeOK
      <3>2. QED
        BY <3>1, ConsumersUntouched
    <2>4. SlotInv'
      BY <1>5 DEF IInv, SlotInv
    <2>5. QED
      BY <2>1, <2>2, <2>3, <2>4 DEF IInv
  <1>6. QED
    BY <1>4, <1>5

LEMMA NextInv == TypeOK /\ IInv /\ [Next]_vars => IInv'
  <1> SUFFICES ASSUME TypeOK, IInv, [Next]_vars PROVE IInv'
    OBVIOUS
  <1>1. ASSUME NEW n \in 0 .. MaxBatch, NEW blocking \in BOOLEAN, Call(n, blocking)
        PROVE  IInv'
    <2>1. ProducerInv'
      BY <1>1, BoundsAssumption
      DEF Call, Claimed, TypeOK, Requests, IInv, ProducerInv, Upper
    <2>2. ClearInv'
      BY <1>1 DEF Call, IInv, ClearInv, consumerVars
    <2>3. ConsumerInv(producer_cursor)'
      <3>1. /\ UNCHANGED <<consumerVars, shutdown_at_sequence>>
            /\ producer_cursor' \in Int
            /\ producer_cursor <= producer_cursor'
        BY <1>1 DEF Call, TypeOK
      <3>2. QED
        BY <3>1, ConsumersUntouched
    <2>4. SlotInv'
      BY <1>1 DEF Call, Claimed, TypeOK, IInv, SlotInv
    <2>5. QED
      BY <2>1, <2>2, <2>3, <2>4 DEF IInv
  <1>2. CASE LoadRear
    <2>1. PICK c \in rear_unread :
            LET minimum == MinOf(consumer_cursor[c], rear_lowest) IN
            \/ /\ rear_unread = {c}
               /\ ClaimAgainst(minimum)
            \/ /\ rear_unread' = rear_unread \ {c}
               /\ rear_lowest' = minimum
               /\ UNCHANGED <<ppc, sequence_clear_of_consumers, position>>
      BY <1>2 DEF LoadRear
    <2>2. consumer_cursor[c] \in Int
      BY LastStageFacts DEF TypeOK, ConsumersTypeOK
    <2>3. /\ ppc = "claim"
          /\ UNCHANGED <<slots, consumerVars, shutdown_at_sequence, producer_cursor,
                         sequence, request, joined>>
      BY <1>2 DEF LoadRear
    <2>4. QED
      BY <2>1, <2>2, <2>3, RearStepInv
  <1>3. CASE WriteEvent
    <2>1. ProducerInv'
      BY <1>3 DEF WriteEvent, TypeOK, Requests, IInv, ProducerInv, Upper
    <2>2. ClearInv'
      BY <1>3 DEF WriteEvent, IInv, ClearInv, consumerVars
    <2>3. ConsumerInv(producer_cursor)'
      <3>1. /\ UNCHANGED <<consumerVars, shutdown_at_sequence>>
            /\ producer_cursor' \in Int
            /\ producer_cursor <= producer_cursor'
        BY <1>3 DEF WriteEvent, TypeOK
      <3>2. QED
        BY <3>1, ConsumersUntouched
    <2>4. SlotInv'
      BY <1>3, WriteEventSlots
    <2>5. QED
      BY <2>1, <2>2, <2>3, <2>4 DEF IInv
  <1>4. CASE Publish
    <2>1. ProducerInv'
      BY <1>4 DEF Publish, TypeOK, Requests, IInv, ProducerInv, Upper
    <2>2. ClearInv'
      BY <1>4 DEF Publish, callVars, IInv, ClearInv, consumerVars
    <2>3. ConsumerInv(producer_cursor)'
      <3>1. /\ UNCHANGED <<consumerVars, shutdown_at_sequence>>
            /\ producer_cursor' \in Int
            /\ producer_cursor <= producer_cursor'
        BY <1>4 DEF Publish, TypeOK, Requests, IInv, ProducerInv, Upper
      <3>2. QED
        BY <3>1, ConsumersUntouched
    <2>4. SlotInv'
      <3>1. \A s \in 0 .. producer_cursor' :
              s \in 0 .. producer_cursor \/ s \in sequence .. position - 1
        BY <1>4 DEF Publish, TypeOK, Requests, IInv, ProducerInv, Upper
      <3>2. QED
        BY <1>4, <3>1 DEF Publish, IInv, SlotInv
    <2>5. QED
      BY <2>1, <2>2, <2>3, <2>4 DEF IInv
  <1>5. CASE UpdatePanics
    <2>1. ProducerInv'
      BY <1>5 DEF UpdatePanics, callVars, IInv, ProducerInv, Upper
    <2>2. ClearInv'
      BY <1>5 DEF UpdatePanics, callVars, IInv, ClearInv, consumerVars
    <2>3. ConsumerInv(producer_cursor)'
      <3>1. /\ UNCHANGED <<consumerVars, shutdown_at_sequence>>
            /\ producer_cursor' \in Int
            /\ producer_cursor <= producer_cursor'
        BY <1>5 DEF UpdatePanics, TypeOK
      <3>2. QED
        BY <3>1, ConsumersUntouched
    <2>4. SlotInv'
      BY <1>5 DEF UpdatePanics, IInv, SlotInv
    <2>5. QED
      BY <2>1, <2>2, <2>3, <2>4 DEF IInv
  <1>6. CASE Drop
    <2>1. ProducerInv'
      BY <1>6 DEF Drop, callVars, IInv, ProducerInv, Upper
    <2>2. ClearInv'
      BY <1>6 DEF Drop, callVars, IInv, ClearInv, consumerVars
    <2>3. ConsumerInv(producer_cursor)'
      <3>1. \A c \in Consumers : cpc[c] # "exited"
        BY <1>6 DEF Drop, TypeOK, ConsumersTypeOK, IInv, ProducerInv, ConsumerInv,
                    CursorInv, BatchInv, ExitInv, NONE
      <3>2. ExitInv'
        BY <1>6, <3>1 DEF Drop, ExitInv, consumerVars
      <3>3. QED
        BY <1>6, <3>2
        DEF Drop, consumerVars, IInv, ConsumerInv, CursorInv, FoldInv, BatchInv
    <2>4. SlotInv'
      BY <1>6 DEF Drop, IInv, SlotInv
    <2>5. QED
      BY <2>1, <2>2, <2>3, <2>4 DEF IInv
  <1>7. CASE DropReturns \/ \E c \in Managed : Join(c)
    <2>1. /\ ppc = "join"
          /\ ppc' \in {"join", "dropped", "failed"}
          /\ UNCHANGED <<slots, consumerVars, shutdown_at_sequence, producer_cursor, sequence,
                         sequence_clear_of_consumers, callVars>>
      BY <1>7 DEF DropReturns, Join
    <2>2. ProducerInv'
      BY <2>1 DEF callVars, IInv, ProducerInv, Upper
    <2>3. ClearInv'
      BY <2>1 DEF callVars, IInv, ClearInv, consumerVars
    <2>4. ConsumerInv(producer_cursor)'
      <3>1. /\ UNCHANGED <<consumerVars, shutdown_at_sequence>>
            /\ producer_cursor' \in Int
            /\ producer_cursor <= producer_cursor'
        BY <2>1 DEF TypeOK
      <3>2. QED
        BY <3>1, ConsumersUntouched
    <2>5. SlotInv'
      BY <2>1 DEF IInv, SlotInv
    <2>6. QED
      BY <2>2, <2>3, <2>4, <2>5 DEF IInv
  <1>8. ASSUME NEW c \in Consumers, LoadProducerBarrier(c)
        PROVE  IInv'
    <2>1. PICK top \in Int : top = producer_cursor /\ top <= I64Max
      BY ConsumersAssumption, BoundsAssumption DEF TypeOK, IInv, ProducerInv
    <2>2. /\ ConsumerInv(top)
          /\ ConsumersTypeOK
          /\ \A u \in Before(c) : top <= consumer_cursor[u]
          /\ UNCHANGED <<consumer_cursor, consumer_sequence, shutdown_at_sequence>>
          /\ cpc[c] = "load"
          /\ Observed(c, top)
      BY <1>8, <2>1, UpstreamFacts DEF LoadProducerBarrier, WaitsForProducer, TypeOK, IInv
    <2>3. ConsumerInv(top)'
      BY <2>1, <2>2, ObservedInv
    <2>4. ConsumerInv(producer_cursor)'
      BY <1>8, <2>1, <2>3
      DEF LoadProducerBarrier, producerVars, ConsumerInv, CursorInv, BatchInv
    <2>5. ProducerInv' /\ ClearInv' /\ SlotInv'
      BY <1>8
      DEF LoadProducerBarrier, producerVars, callVars, IInv, ProducerInv, ClearInv, SlotInv, Upper
    <2>6. QED
      BY <2>4, <2>5 DEF IInv
  <1>9. ASSUME NEW c \in Consumers, ConsumerStep(c) \/ ConsumerFailure(c),
               UNCHANGED producerVars
        PROVE  IInv'
    <2>1. PICK top \in Int : top = producer_cursor /\ top <= I64Max
      BY ConsumersAssumption, BoundsAssumption DEF TypeOK, IInv, ProducerInv
    <2>2. ConsumerInv(top) /\ ConsumersTypeOK
      BY <2>1 DEF TypeOK, IInv
    <2>3. ConsumerInv(top)'
      BY <1>9, <2>1, <2>2, ConsumerStepInv
    <2>4. \A d \in Consumers : consumer_cursor[d] <= consumer_cursor'[d]
      BY <1>9, <2>2, CursorsGrow
    <2>5. ConsumerInv(producer_cursor)'
      BY <1>9, <2>1, <2>3 DEF producerVars, ConsumerInv, CursorInv, BatchInv
    <2>6. UNCHANGED <<slots, shutdown_at_sequence>>
      BY <1>9 DEF ConsumerStep, ConsumerFailure
    <2>7. ProducerInv' /\ SlotInv'
      BY <1>9, <2>6 DEF producerVars, callVars, IInv, ProducerInv, SlotInv, Upper
    <2>8. ClearInv'
      <3>1. consumer_cursor' \in [Consumers -> Int]
        BY <1>9, <2>2, ConsumerStepType DEF ConsumersTypeOK
      <3>2. QED
        BY <1>9, <2>4, <3>1, LastStageFacts, SizeAssumption
        DEF producerVars, callVars, TypeOK, ConsumersTypeOK, IInv, ClearInv
    <2>9. QED
      BY <2>5, <2>7, <2>8 DEF IInv
  <1>10. CASE UNCHANGED vars
    BY <1>10
    DEF vars, consumerVars, producerVars, callVars, IInv, ProducerInv, ClearInv, SlotInv,
        ConsumerInv, CursorInv, FoldInv, BatchInv, ExitInv, Upper
  <1>11. QED
    BY <1>1, <1>2, <1>3, <1>4, <1>5, <1>6, <1>7, <1>8, <1>9, <1>10
    DEF Next, Client, ProducerStep, Advance, Terminated

\* The invariant all the results below follow from.
THEOREM Invariance == Spec => []IInv
  BY InitType, InitInv, NextType, NextInv, PTL DEF Spec

-----------------------------------------------------------------------------

(***************************************************************************)
(* The safety properties.                                                  *)
(***************************************************************************)

\* An event some consumer refers to is out of reach of the running update.
LEMMA ReadWriteApart ==
  ASSUME TypeOK, IInv, NEW c \in Consumers, NEW s \in WriteSet, NEW t \in ReadSet(c)
  PROVE  SlotOf(s) # SlotOf(t)
  <1>1. /\ ppc = "write"
        /\ s \in Int /\ sequence <= s /\ s <= Upper
        /\ sequence \in Nat
    BY DEF WriteSet, TypeOK, Requests, Upper
  <1>2. /\ t \in Int
        /\ consumer_cursor[c] < t
        /\ t <= producer_cursor
    <2>1. PICK top \in Int : top = producer_cursor
      BY DEF TypeOK
    <2>2. ConsumersTypeOK /\ ConsumerInv(top)
      BY <2>1 DEF TypeOK, IInv
    <2>3. QED
      BY <2>1, <2>2, ReadSetFacts
  <1>3. t < s
    BY <1>1, <1>2 DEF IInv, ProducerInv
  <1>4. s - t < Size
    <2>1. Upper \in Int /\ Upper <= consumer_cursor[c] + Size /\ consumer_cursor[c] \in Int
      BY <1>1, ClaimWithinLap DEF TypeOK, ConsumersTypeOK
    <2>2. QED
      BY <1>1, <1>2, <2>1, SizeAssumption
  <1>5. QED
    BY <1>1, <1>2, <1>3, <1>4, DistinctSlots

\* No update ever writes a slot while a consumer holds a reference to it.
THEOREM RaceFreedom == Spec => []NoDataRace
  <1>1. TypeOK /\ IInv => NoDataRace
    BY ReadWriteApart DEF NoDataRace
  <1>2. QED
    BY <1>1, TypeCorrect, Invariance, PTL

\* What consumers refer to is as it was published and done with by earlier stages.
LEMMA ReadersServed ==
  ASSUME TypeOK, IInv
  PROVE  EventsIntact /\ StagesOrdered
  <1>1. ASSUME NEW c \in Consumers, NEW s \in ReadSet(c)
        PROVE  slots[SlotOf(s)] = s
    <2>1. PICK top \in Int : top = producer_cursor
      BY DEF TypeOK
    <2>2. ConsumersTypeOK /\ ConsumerInv(top)
      BY <2>1 DEF TypeOK, IInv
    <2>3. s \in Int /\ consumer_cursor[c] < s /\ s <= producer_cursor
      BY <2>1, <2>2, ReadSetFacts
    <2>4. /\ sequence_clear_of_consumers <= consumer_cursor[c] + Size
          /\ consumer_cursor[c] \in Int /\ NONE <= consumer_cursor[c]
      BY DEF TypeOK, ConsumersTypeOK, IInv, ClearInv, ConsumerInv, CursorInv
    <2>5. s \in 0 .. producer_cursor /\ sequence_clear_of_consumers < s + Size
      BY <2>3, <2>4, SizeAssumption DEF TypeOK, NONE
    <2>6. QED
      BY <2>5 DEF IInv, SlotInv
  <1>2. ASSUME NEW c \in Consumers, NEW u \in Before(c)
        PROVE  /\ consumer_cursor[c] <= consumer_cursor[u]
               /\ \A s \in ReadSet(c) : s <= consumer_cursor[u]
    <2>1. PICK top \in Int : top = producer_cursor
      BY DEF TypeOK
    <2>2. ConsumersTypeOK /\ ConsumerInv(top)
      BY <2>1 DEF TypeOK, IInv
    <2>3. QED
      BY <2>2, ReadSetFacts DEF ConsumerInv, CursorInv
  <1>3. QED
    BY <1>1, <1>2 DEF EventsIntact, StagesOrdered

\* Consumers see every event as it was published, in sequence order.
THEOREM Integrity == Spec => []EventsIntact
  BY ReadersServed, TypeCorrect, Invariance, PTL

\* No stage gets ahead of the stages before it.
THEOREM StageOrder == Spec => []StagesOrdered
  BY ReadersServed, TypeCorrect, Invariance, PTL

\* A write changes the slot of an event a lap back, which every consumer is past.
LEMMA OverwriteReleased ==
  ASSUME TypeOK, IInv, WriteEvent, NEW i \in Slots, slots'[i] # slots[i],
         NEW c \in Consumers
  PROVE  consumer_cursor[c] >= slots[i]
  <1>1. /\ ppc = "write" /\ position \in Int /\ slots[i] \in Int
        /\ sequence <= position /\ position <= Upper /\ sequence \in Nat
        /\ consumer_cursor[c] \in Int /\ NONE <= consumer_cursor[c]
        /\ sequence_clear_of_consumers \in Int
        /\ sequence_clear_of_consumers <= consumer_cursor[c] + Size
        /\ consumer_cursor[c] < sequence
    BY ClaimWithinLap
    DEF WriteEvent, TypeOK, SlotsTypeOK, ConsumersTypeOK, IInv, ProducerInv, ClearInv,
        ConsumerInv, CursorInv
  <1>2. i = SlotOf(position) /\ slots'[i] = position
    BY <1>1, WriteSlotEffect DEF WriteEvent, TypeOK
  <1>3. CASE slots[i] = NONE
    BY <1>1, <1>3
  <1>4. CASE slots[i] # NONE
    <2>1. SlotOf(slots[i]) = SlotOf(position) /\ slots[i] <= sequence_clear_of_consumers
      BY <1>2, <1>4 DEF IInv, SlotInv
    <2>2. slots[i] # position
      BY <1>2
    <2>3. ~(slots[i] > position)
      BY <1>1, <2>1, DistinctSlots, SizeAssumption
    <2>4. position - slots[i] >= Size
      BY <1>1, <2>1, <2>2, <2>3, DistinctSlots, SizeAssumption
    <2>5. Upper \in Int /\ Upper <= consumer_cursor[c] + Size
      BY <1>1, ClaimWithinLap
    <2>6. QED
      BY <1>1, <2>4, <2>5, SizeAssumption
  <1>5. QED
    BY <1>3, <1>4

\* An event is overwritten only after every consumer has given it back: one
\* lap separates it from the event that takes its slot.
THEOREM NothingLost == Spec => NoEventLost
  <1>1. ASSUME TypeOK, IInv, [Next]_vars, NEW i \in Slots, slots'[i] # slots[i],
               NEW c \in Consumers
        PROVE  consumer_cursor[c] >= slots[i]
    <2>1. WriteEvent
      BY <1>1
      DEF Next, Client, ProducerStep, Advance, Terminated, Call, LoadRear, Publish,
          UpdatePanics, Drop, Join, DropReturns, LoadProducerBarrier, ConsumerStep,
          ConsumerFailure, vars
    <2>2. QED
      BY <1>1, <2>1, OverwriteReleased
  <1>2. ASSUME TypeOK, IInv, [Next]_vars
        PROVE  [\A i \in Slots : slots'[i] # slots[i] =>
                  \A c \in Consumers : consumer_cursor[c] >= slots[i]]_vars
    BY <1>1, <1>2
  <1>3. QED
    BY <1>2, TypeCorrect, Invariance, PTL DEF Spec, NoEventLost

-----------------------------------------------------------------------------

(***************************************************************************)
(* The disruptor implements the broadcast channel.                         *)
(***************************************************************************)

PromisedReleased == [c \in Consumers |-> consumer_cursor[c] + 1]
PromisedFinished == {c \in Consumers : cpc[c] = "exited"}

LEMMA PromiseInit == Init => Promise!Init
  BY DEF Init, InitConsumers, Promise!Init, Promise!Consumers, Consumers, NONE

\* Steps that move no cursor, write no shutdown word and end no consumer.
LEMMA Stutters ==
  ASSUME UNCHANGED <<producer_cursor, consumer_cursor, shutdown_at_sequence>>,
         \A c \in Consumers : cpc'[c] = "exited" <=> cpc[c] = "exited"
  PROVE  UNCHANGED Promise!vars
  BY DEF Promise!vars

LEMMA PublishPromise ==
  ASSUME TypeOK, IInv, Publish
  PROVE  Promise!Publish(request.n) /\ request.n \in 0 .. Size
  <1>1. /\ ppc = "write" /\ shutdown_at_sequence = NONE
        /\ producer_cursor' = Upper /\ producer_cursor = sequence - 1
        /\ request.n \in Nat /\ sequence \in Nat
        /\ UNCHANGED <<consumer_cursor, cpc, shutdown_at_sequence>>
    BY DEF Publish, TypeOK, Requests, IInv, ProducerInv, consumerVars
  <1>2. \A c \in Consumers : /\ Upper <= consumer_cursor[c] + Size
                            /\ request.n <= Size
                            /\ consumer_cursor[c] \in Int
    BY <1>1, ClaimWithinLap DEF TypeOK, ConsumersTypeOK
  <1>3. request.n \in 0 .. Size
    BY <1>1, <1>2, LastStageFacts, SizeAssumption
  <1>4. producer_cursor' + 1 = producer_cursor + 1 + request.n
    BY <1>1 DEF Upper
  <1>5. \A c \in Consumers :
          producer_cursor + 1 + request.n - PromisedReleased[c] <= Size
    BY <1>1, <1>2, SizeAssumption DEF PromisedReleased, Upper
  <1>6. QED
    BY <1>1, <1>3, <1>4, <1>5
    DEF Promise!Publish, Promise!Consumers, Consumers, PromisedReleased

LEMMA ReleasePromise ==
  ASSUME TypeOK, IInv, NEW c \in Consumers, Release(c) \/ GuardDrop(c),
         UNCHANGED <<producer_cursor, shutdown_at_sequence>>
  PROVE  \E k \in 0 .. producer_cursor + 1 : Promise!Release(c, k)
  <1>1. /\ cpc[c] \in {"handle", "guard"}
        /\ consumer_cursor' = [consumer_cursor EXCEPT ![c] = available[c]]
        /\ cpc' \in {[cpc EXCEPT ![c] = "load"], [cpc EXCEPT ![c] = "idle"]}
    BY DEF Release, GuardDrop, TypeOK, ConsumersTypeOK, IInv, ConsumerInv, BatchInv
  <1>2. /\ consumer_cursor[c] <= available[c]
        /\ available[c] <= producer_cursor
        /\ \A u \in Before(c) : available[c] <= consumer_cursor[u]
        /\ NONE <= consumer_cursor[c]
        /\ available[c] \in Int /\ producer_cursor \in Int
        /\ consumer_cursor \in [Consumers -> Int]
    BY <1>1 DEF TypeOK, ConsumersTypeOK, IInv, ConsumerInv, CursorInv, BatchInv
  <1>3. PICK k \in 0 .. producer_cursor + 1 : k = available[c] + 1
    <2>1. available[c] \in Int /\ producer_cursor \in Int /\ consumer_cursor[c] \in Int
      BY <1>2
    <2>2. NONE <= available[c] /\ available[c] <= producer_cursor
      BY <1>2, <2>1 DEF NONE
    <2>3. QED
      BY <2>1, <2>2 DEF NONE
  <1>4. c \notin PromisedFinished
    BY <1>1 DEF PromisedFinished
  <1>5. PromisedFinished' = PromisedFinished
    BY <1>1 DEF PromisedFinished, TypeOK, ConsumersTypeOK
  <1>6. PromisedReleased' = [PromisedReleased EXCEPT ![c] = k]
    BY <1>1, <1>2, <1>3 DEF PromisedReleased
  <1>7. PromisedReleased[c] <= k /\ k <= producer_cursor + 1
    BY <1>2, <1>3 DEF PromisedReleased
  <1>8. \A u \in Consumers : Stage[u] < Stage[c] => k <= PromisedReleased[u]
    BY <1>2, <1>3 DEF PromisedReleased, Before
  <1>9. Promise!Release(c, k)
    BY <1>4, <1>5, <1>6, <1>7, <1>8
    DEF Promise!Release, Promise!Consumers, Consumers, PromisedReleased, PromisedFinished
  <1>10. QED
    BY <1>9

\* A consumer that is told that the stream has ended has released all of it.
LEMMA FinishPromise ==
  ASSUME TypeOK, IInv, NEW c \in Consumers,
         shutdown_at_sequence = consumer_cursor[c] + 1,
         cpc' = [cpc EXCEPT ![c] = "exited"],
         UNCHANGED <<producer_cursor, consumer_cursor, shutdown_at_sequence>>
  PROVE  Promise!Finish(c)
  <1>1. NONE <= consumer_cursor[c] /\ consumer_cursor \in [Consumers -> Int]
    BY DEF TypeOK, ConsumersTypeOK, IInv, ConsumerInv, CursorInv
  <1>2. shutdown_at_sequence # NONE
    BY <1>1 DEF NONE
  <1>3. shutdown_at_sequence = sequence /\ producer_cursor = sequence - 1
    BY <1>2 DEF TypeOK, IInv, ProducerInv
  <1>4. PromisedReleased[c] = producer_cursor + 1
    BY <1>1, <1>3 DEF PromisedReleased, TypeOK
  <1>5. PromisedFinished' = PromisedFinished \cup {c}
    BY DEF PromisedFinished, TypeOK, ConsumersTypeOK
  <1>6. QED
    BY <1>2, <1>4, <1>5
    DEF Promise!Finish, Promise!Consumers, Consumers, PromisedReleased, PromisedFinished

LEMMA ConsumerStepPromise ==
  ASSUME TypeOK, IInv, NEW c \in Consumers, ConsumerStep(c) \/ ConsumerFailure(c),
         UNCHANGED producerVars
  PROVE  [Promise!Next]_(Promise!vars)
  <1>1. UNCHANGED <<producer_cursor, shutdown_at_sequence>>
    BY DEF ConsumerStep, ConsumerFailure, producerVars
  <1>2. CASE Release(c) \/ GuardDrop(c)
    <2>1. PICK k \in 0 .. producer_cursor + 1 : Promise!Release(c, k)
      BY <1>1, <1>2, ReleasePromise
    <2>2. QED
      BY <2>1 DEF Promise!Next, Promise!Consumers, Consumers
  <1>3. CASE LoadShutdown(c) \/ Poll(c)
    <2>1. UNCHANGED consumer_cursor
      BY <1>3 DEF LoadShutdown, Poll
    <2>2. CASE shutdown_at_sequence = consumer_cursor[c] + 1
      <3>1. cpc' = [cpc EXCEPT ![c] = "exited"]
        BY <1>3, <2>2
        DEF LoadShutdown, Poll, IInv, ConsumerInv, BatchInv, TypeOK, ConsumersTypeOK
      <3>2. Promise!Finish(c)
        BY <1>1, <2>1, <2>2, <3>1, FinishPromise
      <3>3. QED
        BY <3>2 DEF Promise!Next, Promise!Consumers, Consumers
    <2>3. CASE shutdown_at_sequence # consumer_cursor[c] + 1
      <3>1. cpc' = [cpc EXCEPT ![c] = "load"] /\ cpc[c] \in {"check", "idle"}
        BY <1>3, <2>3
        DEF LoadShutdown, Poll, IInv, ConsumerInv, BatchInv, TypeOK, ConsumersTypeOK
      <3>2. \A d \in Consumers : cpc'[d] = "exited" <=> cpc[d] = "exited"
        BY <3>1 DEF TypeOK, ConsumersTypeOK
      <3>3. QED
        BY <1>1, <2>1, <3>2, Stutters
    <2>4. QED
      BY <2>2, <2>3
  <1>4. CASE LoadUpstream(c) \/ Handle(c) \/ GuardNext(c) \/ HandlerPanics(c)
    <2>1. UNCHANGED consumer_cursor
      BY <1>4 DEF LoadUpstream, Handle, GuardNext, HandlerPanics
    <2>2. \A d \in Consumers : cpc'[d] = "exited" <=> cpc[d] = "exited"
      BY <1>4
      DEF LoadUpstream, Observed, Obtained, NothingNew, Handle, GuardNext, HandlerPanics,
          TypeOK, ConsumersTypeOK
    <2>3. QED
      BY <1>1, <2>1, <2>2, Stutters
  <1>5. QED
    BY <1>2, <1>3, <1>4 DEF ConsumerStep, ConsumerFailure

LEMMA NextPromise ==
  ASSUME TypeOK, IInv, [Next]_vars
  PROVE  [Promise!Next]_(Promise!vars)
  <1>1. CASE Publish
    BY <1>1, PublishPromise DEF Promise!Next
  <1>2. CASE Drop
    <2>1. /\ shutdown_at_sequence = NONE
          /\ shutdown_at_sequence' # NONE
          /\ UNCHANGED <<producer_cursor, consumer_cursor, cpc>>
      BY <1>2 DEF Drop, TypeOK, IInv, ProducerInv, consumerVars, NONE
    <2>2. Promise!Close
      BY <2>1 DEF Promise!Close
    <2>3. QED
      BY <2>2 DEF Promise!Next
  <1>3. ASSUME NEW c \in Consumers, ConsumerStep(c) \/ ConsumerFailure(c),
               UNCHANGED producerVars
        PROVE  [Promise!Next]_(Promise!vars)
    BY <1>3, ConsumerStepPromise
  <1>4. ASSUME NEW c \in Consumers, LoadProducerBarrier(c)
        PROVE  [Promise!Next]_(Promise!vars)
    <2>1. UNCHANGED <<producer_cursor, consumer_cursor, shutdown_at_sequence>>
      BY <1>4 DEF LoadProducerBarrier, producerVars
    <2>2. \A d \in Consumers : cpc'[d] = "exited" <=> cpc[d] = "exited"
      BY <1>4
      DEF LoadProducerBarrier, Observed, Obtained, NothingNew, TypeOK, ConsumersTypeOK
    <2>3. QED
      BY <2>1, <2>2, Stutters
  <1>5. CASE UNCHANGED <<consumerVars, shutdown_at_sequence, producer_cursor>>
    BY <1>5, Stutters DEF consumerVars
  <1>6. QED
    BY <1>1, <1>2, <1>3, <1>4, <1>5
    DEF Next, Client, ProducerStep, Advance, Terminated, Call, LoadRear, WriteEvent,
        UpdatePanics, Join, DropReturns, vars, producerVars

\* Publishing needs room at every consumer, consumers release events in order
\* and stage by stage, and leave only when everything published is released.
THEOREM Refinement == Spec => KeepsPromise
  <1>1. TypeOK /\ IInv /\ [Next]_vars => [Promise!Next]_(Promise!vars)
    BY NextPromise
  <1>2. QED
    BY <1>1, PromiseInit, TypeCorrect, Invariance, PTL
    DEF Spec, KeepsPromise, Promise!Spec
=============================================================================
