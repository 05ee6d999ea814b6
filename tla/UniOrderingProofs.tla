------------------------- MODULE UniOrderingProofs -------------------------
(***************************************************************************)
(* The orderings the single-producer disruptor gives its atomics are       *)
(* enough: whatever stale values its relaxed loads return, its accesses of *)
(* events are ordered and it still implements the broadcast channel.       *)
(***************************************************************************)
EXTENDS UniOrdering, UniDisruptorProofs, ConsumerOrderingProofs

LEMMA Names ==
  /\ P \in AllThreads
  /\ \A c \in Consumers : ConsumerThread(c) \in AllThreads \ {P}
  /\ \A p \in Writers : ProducerThread(p) = P
  /\ ProducerCursor \in AllLocations /\ ShutdownWord \in AllLocations
  /\ ShutdownWord # ProducerCursor
  /\ \A c \in Consumers : /\ ConsumerCursor(c) \in AllLocations
                         /\ ConsumerCursor(c) # ProducerCursor
                         /\ ConsumerCursor(c) # ShutdownWord
  BY ThreadNames, LocationNames, WritersAssumption DEF P

\* The invariant in its parts.
LEMMA Parts ==
  ASSUME OrderedIInv
  PROVE  /\ TypeOK /\ ConsumersTypeOK /\ OrderTypeOK /\ MemoryTypeOK /\ IInv
         /\ ConsumerOrderInv
         /\ CursorMessageInv /\ ConsumerViewInv /\ AcquireInv /\ ShutdownMessageInv
         /\ ProducerMessageInv /\ ProducerViewInv /\ WriterInv
         /\ producer_cursor \in Int /\ producer_cursor <= I64Max
         /\ ConsumerInv(producer_cursor)
  <1>1. /\ TypeOK /\ ConsumersTypeOK /\ OrderTypeOK /\ MemoryTypeOK /\ IInv
        /\ CursorMessageInv /\ ConsumerViewInv /\ AcquireInv /\ ShutdownMessageInv
        /\ ProducerMessageInv /\ ProducerViewInv /\ WriterInv
    BY DEF OrderedIInv, OrderedTypeOK, OrderTypeOK, TypeOK
  <1>2. /\ producer_cursor \in Int /\ producer_cursor <= I64Max
        /\ ConsumerInv(producer_cursor)
    BY <1>1, BoundsAssumption, ConsumersAssumption DEF TypeOK, IInv, ProducerInv
  <1>3. ConsumerOrderInv
    BY <1>1 DEF ConsumerOrderInv
  <1>4. QED
    BY <1>1, <1>2, <1>3

-----------------------------------------------------------------------------

(***************************************************************************)
(* Steps of the consumers.                                                 *)
(***************************************************************************)

\* A step that leaves the producer its claim, or has it start over.
LEMMA ProducerKnowsMore ==
  ASSUME TypeOK, OrderTypeOK, MemoryTypeOK', ProducerViewInv,
         UNCHANGED <<writer, producer_cursor, sequence_clear_of_consumers>>,
         Precedes(cur[P], cur'[P]), Precedes(acq[P], acq'[P]),
         ppc' = "write" => \/ position' = producer_cursor + 1
                           \/ ppc = "write" /\ position' = position,
         \/ rear_unread' = LastStage
         \/ UNCHANGED <<rear_unread, rear_lowest>>
  PROVE  ProducerViewInv'
  <1>1. PICK k \in View, m \in View : k = cur'[P] /\ m = acq'[P]
    BY Names DEF MemoryTypeOK
  <1>2. /\ cur[P] \in View /\ acq[P] \in View
        /\ producer_cursor \in Int /\ position \in Int /\ rear_lowest \in Int
        /\ sequence_clear_of_consumers \in Int
        /\ Precedes(cur[P], k) /\ Precedes(acq[P], m)
    BY <1>1, Names DEF OrderTypeOK, MemoryTypeOK, TypeOK
  <1>3. Written(k, producer_cursor)
    BY <1>2, WrittenLess DEF ProducerViewInv
  <1>4. ASSUME ppc' = "write"
        PROVE  Written(k, position' - 1)
    <2>1. CASE position' = producer_cursor + 1
      <3>1. position' - 1 = producer_cursor
        BY <1>2, <2>1
      <3>2. QED
        BY <1>3, <3>1
    <2>2. CASE ppc = "write" /\ position' = position
      <3>1. Written(cur[P], position - 1) /\ position - 1 \in Int
        BY <1>2, <2>2 DEF ProducerViewInv
      <3>2. Written(k, position - 1)
        BY <1>2, <3>1, WrittenLess
      <3>3. QED
        BY <2>2, <3>2
    <2>3. QED
      BY <1>4, <2>1, <2>2
  <1>5. ASSUME NEW u \in LastStage \ rear_unread'
        PROVE  Passed(m, u, rear_lowest')
    <2>1. u \in LastStage \ rear_unread /\ rear_lowest' = rear_lowest /\ u \in Consumers
      BY LastStageFacts
    <2>2. Passed(acq[P], u, rear_lowest)
      BY <2>1 DEF ProducerViewInv
    <2>3. QED
      BY <1>2, <2>1, <2>2, PassedLess
  <1>6. \A c \in Consumers : k.done[ConsumerThread(c)] >= sequence_clear_of_consumers - Size
    BY <1>2, Names, SizeAssumption DEF ProducerViewInv, Precedes, View
  <1>7. QED
    <2>1. PICK low : low = rear_lowest'
      OBVIOUS
    <2>2. PICK top : top = producer_cursor
      OBVIOUS
    <2>3. PICK last : last = position' - 1
      OBVIOUS
    <2>4. /\ Written(k, top)'
          /\ ppc' = "write" => Written(k, last)'
          /\ \A u \in LastStage \ rear_unread' : Passed(m, u, low)'
      BY <1>3, <1>4, <1>5, <2>1, <2>2, <2>3, KnownStays, LastStageFacts
    <2>5. LastStage' = LastStage
      BY DEF LastStage
    <2>6. QED
      BY <1>1, <1>6, <2>1, <2>2, <2>3, <2>4, <2>5 DEF ProducerViewInv

\* A step of a consumer leaves the producer where it is.
LEMMA ConsumerMoves ==
  ASSUME OrderedIInv, NEW c \in Consumers,
         ConsumerInv(producer_cursor)', ConsumerOrderInv', ConsumerEffect(c),
         \A d \in Consumers : consumer_cursor[d] <= consumer_cursor'[d],
         UNCHANGED <<slots, producerVars, shutdown_at_sequence, writer>>
  PROVE  OrderedIInv'
  <1>1. /\ TypeOK /\ OrderTypeOK /\ MemoryTypeOK /\ IInv
        /\ ProducerMessageInv /\ ProducerViewInv /\ WriterInv
    BY Parts
  <1>2. TypeOK'
    BY <1>1 DEF TypeOK, SlotsTypeOK, producerVars, callVars, ConsumerOrderInv
  <1>3. IInv'
    <2>1. ProducerInv' /\ SlotInv'
      BY <1>1 DEF IInv, ProducerInv, SlotInv, Upper, producerVars, callVars
    <2>2. ClearInv'
      <3>1. \A d \in Consumers : consumer_cursor[d] \in Int /\ consumer_cursor'[d] \in Int
        BY <1>1, <1>2 DEF TypeOK, ConsumersTypeOK
      <3>2. UNCHANGED <<sequence_clear_of_consumers, rear_unread, rear_lowest>>
        BY DEF producerVars, callVars
      <3>3. LastStage' = LastStage
        BY DEF LastStage
      <3>4. sequence_clear_of_consumers \in Int /\ rear_lowest \in Int
        BY <1>1 DEF TypeOK
      <3>5. ClearInv
        BY <1>1 DEF IInv
      <3>6. \A d \in Consumers : sequence_clear_of_consumers <= consumer_cursor'[d] + Size
        BY <3>1, <3>4, <3>5, SizeAssumption DEF ClearInv
      <3>7. \A d \in LastStage \ rear_unread : rear_lowest <= consumer_cursor'[d]
        BY <3>1, <3>4, <3>5, LastStageFacts DEF ClearInv
      <3>8. QED
        BY <3>2, <3>3, <3>6, <3>7 DEF ClearInv
    <2>3. QED
      BY <2>1, <2>2 DEF IInv
  <1>4. ProducerMessageInv'
    <2>1. /\ memory'[ProducerCursor] = memory[ProducerCursor]
          /\ producer_cursor' = producer_cursor
      BY Names DEF ConsumerEffect, producerVars
    <2>2. QED
      BY <1>1, <2>1 DEF ProducerMessageInv, Written
  <1>5. ProducerViewInv'
    <2>1. UNCHANGED <<producer_cursor, sequence_clear_of_consumers, ppc, position,
                      rear_unread, rear_lowest>>
      BY DEF producerVars, callVars
    <2>2. cur'[P] = cur[P] /\ acq'[P] = acq[P]
      BY Names DEF ConsumerEffect
    <2>3. Precedes(cur[P], cur'[P]) /\ Precedes(acq[P], acq'[P])
      BY <1>1, <2>2, Names, SameDone DEF MemoryTypeOK
    <2>4. MemoryTypeOK'
      BY DEF ConsumerOrderInv, OrderTypeOK
    <2>5. QED
      BY <1>1, <2>1, <2>3, <2>4, ProducerKnowsMore
  <1>6. WriterInv'
    BY <1>1 DEF WriterInv, producerVars, callVars
  <1>7. QED
    BY <1>2, <1>3, <1>4, <1>5, <1>6 DEF OrderedIInv, OrderedTypeOK, ConsumerOrderInv

LEMMA ConsumerStepInvOrdered ==
  ASSUME OrderedIInv, NEW c \in Consumers, ConsumerStepOrdered(c), UNCHANGED producerVars
  PROVE  OrderedIInv'
  <1>1. PICK top \in Int : /\ top = producer_cursor /\ top <= I64Max /\ top = producer_cursor'
                           /\ ConsumerInv(top)
    BY Parts DEF producerVars
  <1>2. ConsumerInv(top)' /\ ConsumerOrderInv' /\ ConsumerEffect(c)
    BY <1>1, Parts, ConsumerStepOrderedInv
  <1>3. \A d \in Consumers : consumer_cursor[d] <= consumer_cursor'[d]
    BY <1>1, Parts, OrderedCursorsGrow
  <1>4. ConsumerInv(producer_cursor)'
    BY <1>1, <1>2 DEF ConsumerInv, CursorInv, BatchInv
  <1>5. UNCHANGED <<slots, producerVars, shutdown_at_sequence, writer>>
    BY DEF ConsumerStepOrdered
  <1>6. QED
    BY <1>2, <1>3, <1>4, <1>5, ConsumerMoves

LEMMA LoadProducerBarrierOrderedInv ==
  ASSUME OrderedIInv, NEW c \in Consumers, LoadProducerBarrierOrdered(c)
  PROVE  OrderedIInv'
  <1>1. PICK t \in AllThreads : t = ConsumerThread(c)
    BY Names
  <1>2. PICK i \in Visible(t, ProducerCursor) :
          /\ Observed(c, memory[ProducerCursor][i].value)
          /\ SetViews(t, HavingObtained(c, Loaded(ViewsOf(t), ProducerCursor, i),
                                        memory[ProducerCursor][i].value))
    BY <1>1 DEF LoadProducerBarrierOrdered
  <1>3. PICK top \in Int : top = producer_cursor /\ top <= I64Max /\ ConsumerInv(top)
    BY Parts
  <1>4. PICK highest \in Int, message \in View :
          /\ highest = memory[ProducerCursor][i].value
          /\ message = memory[ProducerCursor][i].view
          /\ highest <= top
          /\ Written(message, highest)
    BY <1>3, Names, Parts, VisibleMessage DEF ProducerMessageInv
  <1>5. PICK views : views = HavingObtained(c, Loaded(ViewsOf(t), ProducerCursor, i), highest)
    OBVIOUS
  <1>6. /\ cpc[c] = "load" /\ WaitsForProducer(c)
        /\ UNCHANGED <<slots, consumer_cursor, consumer_sequence, shutdown_at_sequence,
                       producerVars, memory, writer>>
    BY DEF LoadProducerBarrierOrdered
  <1>7. /\ SetViews(t, views)
        /\ \/ views = Loaded(ViewsOf(t), ProducerCursor, i)
           \/ views = AcquireFence(Loaded(ViewsOf(t), ProducerCursor, i))
        /\ highest >= consumer_sequence[c] =>
             views = AcquireFence(Loaded(ViewsOf(t), ProducerCursor, i))
    BY <1>2, <1>4, <1>5 DEF HavingObtained
  <1>8. /\ MemoryTypeOK'
        /\ AcquireInv'
        /\ \A u \in AllThreads : /\ Below(cur[u], cur'[u]) /\ Below(acq[u], acq'[u])
                                /\ rel'[u] = rel[u]
        /\ \A u \in AllThreads \ {t} : cur'[u] = cur[u] /\ acq'[u] = acq[u]
        /\ Below(message, acq'[t])
        /\ highest >= consumer_sequence[c] => cur'[t] = acq'[t]
    BY <1>4, <1>6, <1>7, Names, Parts, LoadStep
  <1>9. PICK k \in View : k = cur'[t]
    BY <1>8 DEF MemoryTypeOK
  <1>10. Before(c) = {}
    BY <1>6, UpstreamFacts DEF WaitsForProducer
  <1>11. highest >= consumer_sequence[c] =>
           /\ Written(k, highest)
           /\ \A u \in Before(c) : k.done[ConsumerThread(u)] >= highest
    <2>1. highest >= consumer_sequence[c] => Precedes(message, k)
      BY <1>8, <1>9 DEF Below
    <2>2. QED
      BY <1>4, <1>10, <2>1, WrittenLess, Parts
  <1>12. OrderTypeOK /\ ConsumersTypeOK /\ ConsumerKnows(c) /\ Observed(c, highest)
    BY <1>2, <1>4, Parts DEF ConsumerViewInv
  <1>13. ConsumerKnows(c)'
    <2>1. Precedes(cur[t], cur'[t]) /\ Precedes(acq[t], acq'[t])
      BY <1>8 DEF Below
    <2>2. QED
      BY <1>1, <1>3, <1>6, <1>8, <1>9, <1>11, <1>12, <2>1, BatchKnown
  <1>14. \A d \in Consumers \ {c} :
           /\ cpc'[d] = cpc[d] /\ consumer_sequence'[d] = consumer_sequence[d]
           /\ available'[d] = available[d]
           /\ unread'[d] = unread[d] /\ lowest'[d] = lowest[d]
    BY <1>6, <1>12 DEF Observed, Obtained, NothingNew, ConsumersTypeOK
  <1>15. ConsumersTypeOK'
    BY <1>6, <1>12, ObservedType DEF ConsumersTypeOK
  <1>16. ConsumerOrderInv' /\ ConsumerEffect(c)
    BY <1>1, <1>6, <1>8, <1>13, <1>14, <1>15, Parts, ConsumerLoads
  <1>17. ConsumerInv(top)'
    <2>1. \A u \in Before(c) : highest <= consumer_cursor[u]
      BY <1>10
    <2>2. QED
      BY <1>3, <1>4, <1>6, <1>12, <2>1, ObservedInv
  <1>18. ConsumerInv(producer_cursor)'
    BY <1>3, <1>6, <1>17 DEF ConsumerInv, CursorInv, BatchInv, producerVars
  <1>19. \A d \in Consumers : consumer_cursor[d] <= consumer_cursor'[d]
    BY <1>6, <1>12 DEF ConsumersTypeOK
  <1>20. QED
    BY <1>6, <1>16, <1>18, <1>19, ConsumerMoves

-----------------------------------------------------------------------------

(***************************************************************************)
(* Steps of the producer.                                                  *)
(***************************************************************************)

\* One load of the producer's fold: the fence at its end covers the new bound.
LEMMA RearKnown ==
  ASSUME OrderedIInv, MemoryTypeOK', NEW c \in rear_unread,
         NEW value \in Int, NEW message \in View, Passed(message, c, value),
         NEW minimum \in Int, minimum = MinOf(value, rear_lowest),
         UNCHANGED <<writer, producer_cursor, sequence, request>>,
         Precedes(cur[P], cur'[P]), Precedes(acq[P], acq'[P]), Precedes(message, acq'[P]),
         \/ /\ rear_unread = {c}
            /\ ClaimAgainst(minimum)
            /\ FreeSlots(sequence - 1, minimum) >= request.n => cur'[P] = acq'[P]
         \/ /\ rear_unread' = rear_unread \ {c}
            /\ rear_lowest' = minimum
            /\ ppc = "claim"
            /\ UNCHANGED <<ppc, sequence_clear_of_consumers, position>>
  PROVE  ProducerViewInv'
  <1>1. PICK k \in View, m \in View : k = cur'[P] /\ m = acq'[P]
    BY Names DEF MemoryTypeOK
  <1>2. /\ cur[P] \in View /\ acq[P] \in View
        /\ producer_cursor \in Int /\ sequence \in Int /\ rear_lowest \in Int
        /\ sequence_clear_of_consumers \in Int
        /\ producer_cursor = sequence - 1
        /\ Precedes(cur[P], k) /\ Precedes(acq[P], m) /\ Precedes(message, m)
        /\ minimum <= value /\ minimum <= rear_lowest
        /\ c \in LastStage /\ c \in Consumers
        /\ ProducerViewInv
        /\ TypeOK /\ OrderTypeOK
    <2>1. /\ ProducerViewInv /\ OrderTypeOK
          /\ TypeOK /\ MemoryTypeOK /\ ProducerInv
      BY Parts DEF IInv
    <2>2. cur[P] \in View /\ acq[P] \in View
      BY <2>1, Names DEF MemoryTypeOK
    <2>3. /\ producer_cursor \in Int /\ sequence \in Int /\ rear_lowest \in Int
          /\ sequence_clear_of_consumers \in Int
          /\ producer_cursor = sequence - 1
          /\ c \in LastStage
      BY <2>1 DEF TypeOK, ProducerInv
    <2>4. minimum <= value /\ minimum <= rear_lowest
      BY <2>3 DEF MinOf
    <2>5. QED
      BY <1>1, <2>1, <2>2, <2>3, <2>4, LastStageFacts
  <1>3. \A w \in LastStage \ (rear_unread \ {c}) : Passed(m, w, minimum)
    <2>1. TAKE w \in LastStage \ (rear_unread \ {c})
    <2>2. w \in Consumers
      BY LastStageFacts
    <2>3. CASE w = c
      BY <1>2, <2>3, PassedLess
    <2>4. CASE w # c
      <3>1. Passed(acq[P], w, rear_lowest)
        BY <1>2, <2>4 DEF ProducerViewInv
      <3>2. QED
        BY <1>2, <2>2, <3>1, PassedLess
    <2>5. QED
      BY <2>3, <2>4
  <1>4. Written(k, producer_cursor)
    BY <1>2, WrittenLess DEF ProducerViewInv
  <1>5. CASE rear_unread = {c} /\ ClaimAgainst(minimum)
               /\ (FreeSlots(sequence - 1, minimum) >= request.n => k = m)
    <2>1. /\ rear_unread' = LastStage
          /\ ppc' = "write" => position' = sequence
      BY <1>5 DEF ClaimAgainst, Claimed
    <2>2. CASE UNCHANGED sequence_clear_of_consumers
      <3>1. ppc' = "write" => position' = producer_cursor + 1
        BY <1>2, <2>1
      <3>2. QED
        BY <1>2, <2>1, <2>2, <3>1, ProducerKnowsMore
    <2>3. CASE FreeSlots(sequence - 1, minimum) >= request.n
                 /\ sequence_clear_of_consumers' =
                      sequence - 1 + FreeSlots(sequence - 1, minimum)
      <3>1. k = m
        BY <1>5, <2>3
      <3>2. \A w \in LastStage : Passed(k, w, minimum)
        BY <1>3, <1>5, <3>1
      <3>3. PICK clear \in Int : /\ clear = sequence_clear_of_consumers'
                                 /\ clear - Size = minimum
        BY <1>2, <2>3, SizeAssumption DEF FreeSlots, WrapPoint
      <3>4. ASSUME NEW d \in Consumers
            PROVE  k.done[ConsumerThread(d)] >= clear - Size
        <4>1. PICK w \in LastStage : d \in LastStage \/ d \in Before(w)
          BY LastStageFacts
        <4>2. QED
          BY <3>2, <3>3, <4>1 DEF Passed
      <3>5. PICK top, last : top = producer_cursor /\ last = position' - 1
        OBVIOUS
      <3>6. Written(k, top)' /\ (ppc' = "write" => Written(k, last)')
        <4>1. ppc' = "write" => last = top
          BY <1>2, <2>1, <3>5
        <4>2. QED
          BY <1>4, <3>5, <4>1, KnownStays
      <3>7. LastStage' = LastStage
        BY DEF LastStage
      <3>8. QED
        BY <1>1, <1>2, <2>1, <3>3, <3>4, <3>5, <3>6, <3>7 DEF ProducerViewInv
    <2>4. QED
      BY <1>5, <2>2, <2>3 DEF ClaimAgainst
  <1>6. CASE /\ rear_unread' = rear_unread \ {c}
             /\ rear_lowest' = minimum
             /\ ppc = "claim"
             /\ UNCHANGED <<ppc, sequence_clear_of_consumers, position>>
    <2>1. PICK top : top = producer_cursor
      OBVIOUS
    <2>2. Written(k, top)'
      BY <1>4, <2>1, KnownStays
    <2>3. \A u \in LastStage \ rear_unread' : Passed(m, u, minimum)'
      BY <1>3, <1>6, KnownStays, LastStageFacts
    <2>4. \A d \in Consumers :
            k.done[ConsumerThread(d)] >= sequence_clear_of_consumers - Size
      BY <1>2, Names, SizeAssumption DEF ProducerViewInv, Precedes, View
    <2>5. LastStage' = LastStage
      BY DEF LastStage
    <2>6. QED
      BY <1>1, <1>6, <2>1, <2>2, <2>3, <2>4, <2>5 DEF ProducerViewInv
  <1>7. QED
    BY <1>1, <1>5, <1>6

\* A step of the producer that neither stores nor writes.
LEMMA QuietProducer ==
  ASSUME OrderedIInv, TypeOK', IInv',
         UNCHANGED <<memory, writer, consumer_cursor, shutdown_at_sequence, producer_cursor,
                     sequence, consumer_sequence, available, unread, lowest>>,
         MemoryTypeOK', AcquireInv', ProducerViewInv',
         \A u \in AllThreads \ {P} : cur'[u] = cur[u] /\ acq'[u] = acq[u],
         \A d \in Consumers : cpc'[d] \in {"handle", "guard"} => cpc'[d] = cpc[d],
         ppc' = "write" => \/ position' = sequence
                           \/ ppc = "write" /\ position' = position
  PROVE  OrderedIInv'
  <1>1. OrderTypeOK'
    BY Parts DEF OrderTypeOK
  <1>2. CursorMessageInv' /\ ConsumerViewInv'
    <2>1. PICK top \in Int : top = producer_cursor /\ ConsumerInv(top)
      BY Parts
    <2>2. WritesOnly(top + 1)
      BY DEF WritesOnly
    <2>3. top + 1 \in Int /\ top < top + 1
      OBVIOUS
    <2>4. QED
      BY <2>1, <2>2, <2>3, Names, Parts, ConsumersAside
  <1>3. ProducerMessageInv' /\ ShutdownMessageInv'
    <2>1. NONE' = NONE
      BY DEF NONE
    <2>2. QED
      BY <2>1, Parts DEF ProducerMessageInv, ShutdownMessageInv, Written
  <1>4. WriterInv'
    <2>1. sequence \in Nat
      BY Parts DEF TypeOK
    <2>2. position' = sequence => sequence .. position' - 1 = {}
      BY <2>1
    <2>3. QED
      BY <2>2, Parts DEF WriterInv
  <1>5. QED
    BY <1>1, <1>2, <1>3, <1>4 DEF OrderedIInv, OrderedTypeOK

LEMMA LoadRearOrderedInv ==
  ASSUME OrderedIInv, LoadRearOrdered
  PROVE  OrderedIInv'
  <1>1. PICK c \in rear_unread : \E i \in Visible(P, ConsumerCursor(c)) :
          LET minimum == MinOf(memory[ConsumerCursor(c)][i].value, rear_lowest)
              views == Loaded(ViewsOf(P), ConsumerCursor(c), i)
          IN
          \/ /\ rear_unread = {c}
             /\ ClaimAgainst(minimum)
             /\ SetViews(P, HavingClaimed(views, minimum))
          \/ /\ rear_unread' = rear_unread \ {c}
             /\ rear_lowest' = minimum
             /\ SetViews(P, views)
             /\ UNCHANGED <<ppc, sequence_clear_of_consumers, position>>
    BY DEF LoadRearOrdered
  <1>2. PICK i \in Visible(P, ConsumerCursor(c)) :
          LET minimum == MinOf(memory[ConsumerCursor(c)][i].value, rear_lowest)
              views == Loaded(ViewsOf(P), ConsumerCursor(c), i)
          IN
          \/ /\ rear_unread = {c}
             /\ ClaimAgainst(minimum)
             /\ SetViews(P, HavingClaimed(views, minimum))
          \/ /\ rear_unread' = rear_unread \ {c}
             /\ rear_lowest' = minimum
             /\ SetViews(P, views)
             /\ UNCHANGED <<ppc, sequence_clear_of_consumers, position>>
    BY <1>1
  <1>3. /\ ppc = "claim"
        /\ UNCHANGED <<slots, consumerVars, shutdown_at_sequence, producer_cursor,
                       sequence, request, joined, memory, writer>>
    BY DEF LoadRearOrdered
  <1>4. /\ TypeOK /\ IInv /\ MemoryTypeOK /\ AcquireInv /\ CursorMessageInv
    BY Parts
  <1>5. c \in Consumers /\ rear_lowest \in Int
    BY <1>4, LastStageFacts DEF TypeOK
  <1>6. PICK value \in Int, message \in View :
          /\ value = memory[ConsumerCursor(c)][i].value
          /\ message = memory[ConsumerCursor(c)][i].view
          /\ value <= consumer_cursor[c]
          /\ Passed(message, c, value)
    BY <1>4, <1>5, Names, StaleCursor
  <1>7. PICK minimum \in Int : minimum = MinOf(value, rear_lowest)
    BY <1>5 DEF MinOf
  <1>8. PICK loaded : loaded = Loaded(ViewsOf(P), ConsumerCursor(c), i)
    OBVIOUS
  <1>9. \/ /\ rear_unread = {c}
           /\ ClaimAgainst(minimum)
           /\ SetViews(P, HavingClaimed(loaded, minimum))
        \/ /\ rear_unread' = rear_unread \ {c}
           /\ rear_lowest' = minimum
           /\ SetViews(P, loaded)
           /\ UNCHANGED <<ppc, sequence_clear_of_consumers, position>>
    BY <1>2, <1>6, <1>7, <1>8
  <1>10. PICK views :
           /\ SetViews(P, views)
           /\ views = loaded \/ views = AcquireFence(loaded)
           /\ \/ /\ rear_unread = {c}
                 /\ ClaimAgainst(minimum)
                 /\ FreeSlots(sequence - 1, minimum) >= request.n =>
                      views = AcquireFence(loaded)
              \/ /\ rear_unread' = rear_unread \ {c}
                 /\ rear_lowest' = minimum
                 /\ UNCHANGED <<ppc, sequence_clear_of_consumers, position>>
    BY <1>9 DEF HavingClaimed
  <1>11. /\ MemoryTypeOK'
         /\ AcquireInv'
         /\ Below(cur[P], cur'[P]) /\ Below(acq[P], acq'[P])
         /\ \A w \in AllThreads \ {P} : cur'[w] = cur[w] /\ acq'[w] = acq[w]
         /\ Below(message, acq'[P])
         /\ views = AcquireFence(loaded) => cur'[P] = acq'[P]
    BY <1>3, <1>4, <1>5, <1>6, <1>8, <1>10, Names, LoadStep
  <1>12. ProducerViewInv'
    BY <1>3, <1>6, <1>7, <1>10, <1>11, RearKnown DEF Below
  <1>13. ppc' = "write" => position' = sequence
    BY <1>3, <1>10 DEF ClaimAgainst, Claimed
  <1>14. TypeOK'
    BY <1>3, <1>4, <1>10, RearStepType
  <1>15. IInv'
    BY <1>3, <1>4, <1>6, <1>7, <1>10, RearStepInv
  <1>16. QED
    BY <1>3, <1>11, <1>12, <1>13, <1>14, <1>15, QuietProducer DEF consumerVars

LEMMA LocalInv ==
  ASSUME OrderedIInv, TypeOK', IInv', UNCHANGED orderVars,
         \/ LocalStep
         \/ \E c \in Consumers : ConsumerFailure(c) /\ UNCHANGED producerVars
         \/ UNCHANGED vars
  PROVE  OrderedIInv'
  <1>1. /\ OrderTypeOK /\ TypeOK /\ MemoryTypeOK /\ AcquireInv /\ ProducerViewInv
        /\ producer_cursor = sequence - 1 /\ sequence \in Nat
    BY Parts DEF IInv, ProducerInv, TypeOK
  <1>2. UNCHANGED <<memory, cur, acq, rel, writer>>
    BY DEF orderVars
  <1>3. MemoryTypeOK' /\ AcquireInv'
    <2>1. MemoryTypeOK'
      BY <1>1, <1>2, SameMemory DEF MemoryTypeOK
    <2>2. QED
      BY <1>1, <1>2, <2>1 DEF AcquireInv, Precedes, Sees
  <1>4. \A u \in AllThreads : Precedes(cur[u], cur'[u]) /\ Precedes(acq[u], acq'[u])
    BY <1>1, <1>2 DEF MemoryTypeOK, View, Precedes
  <1> DEFINE Quiet ==
               /\ UNCHANGED <<consumer_cursor, shutdown_at_sequence, producer_cursor, sequence,
                              consumer_sequence, available, unread, lowest,
                              sequence_clear_of_consumers, rear_unread, rear_lowest>>
               /\ ppc' = "write" => \/ position' = sequence
                                    \/ ppc = "write" /\ position' = position
               /\ \A d \in Consumers : cpc'[d] \in {"handle", "guard"} => cpc'[d] = cpc[d]
  <1>5. Quiet
    <2>1. ASSUME NEW n \in 1 .. MaxBatch, NEW blocking \in BOOLEAN, Call(n, blocking)
          PROVE  Quiet
      BY <2>1 DEF Call, Claimed, consumerVars
    <2>2. CASE UpdatePanics \/ DropReturns
      BY <2>2 DEF UpdatePanics, DropReturns, consumerVars, callVars
    <2>3. ASSUME NEW d \in Managed, Join(d)
          PROVE  Quiet
      BY <2>3 DEF Join, consumerVars, callVars
    <2>4. ASSUME NEW d \in Consumers, ConsumerFailure(d), UNCHANGED producerVars
          PROVE  Quiet
      BY <1>1, <2>4
      DEF ConsumerFailure, HandlerPanics, producerVars, callVars, TypeOK, ConsumersTypeOK
    <2>5. CASE UNCHANGED vars
      BY <2>5 DEF vars, consumerVars, producerVars, callVars
    <2>6. QED
      BY <2>1, <2>2, <2>3, <2>4, <2>5 DEF LocalStep, Terminated
  <1>6. ProducerViewInv'
    <2>1. ppc' = "write" => \/ position' = producer_cursor + 1
                            \/ ppc = "write" /\ position' = position
      BY <1>1, <1>5
    <2>2. QED
      BY <1>1, <1>2, <1>3, <1>4, <1>5, <2>1, Names, ProducerKnowsMore
  <1>7. QED
    BY <1>2, <1>3, <1>4, <1>5, <1>6, QuietProducer

\* The producer stores a word of its own: nobody's view of the events changes.
LEMMA ProducerStore ==
  ASSUME OrderedIInv, NEW x \in {ProducerCursor, ShutdownWord}, NEW v \in Int,
         NEW ordering, StoreAs(P, ViewsOf(P), x, v, ordering),
         UNCHANGED <<consumerVars, writer>>
  PROVE  /\ MemoryTypeOK' /\ OrderTypeOK'
         /\ AcquireInv' /\ CursorMessageInv' /\ ConsumerViewInv'
         /\ cur'[P].done = cur[P].done
         /\ acq'[P].done = acq[P].done
         /\ \A y \in AllLocations \ {x} : memory'[y] = memory[y]
         /\ \A i \in DOMAIN memory'[x] :
              \/ i \in DOMAIN memory[x] /\ memory'[x][i] = memory[x][i]
              \/ /\ memory'[x][i].value = v
                 /\ ordering = "Release" => memory'[x][i].view.done = cur[P].done
  <1>1. /\ OrderTypeOK /\ MemoryTypeOK /\ AcquireInv /\ P \in AllThreads /\ x \in AllLocations
    BY Names, Parts
  <1>2. PICK views \in Triple : /\ views = ViewsOf(P)
                                /\ views.cur = cur[P] /\ views.acq = acq[P]
    BY <1>1, ViewsOfType
  <1>3. StoreAs(P, views, x, v, ordering)
    BY <1>2
  <1>4. /\ MemoryTypeOK'
        /\ cur'[P].done = views.cur.done
        /\ acq'[P].done = views.acq.done
        /\ Below(views.cur, views.acq) => Below(cur'[P], acq'[P])
        /\ \A u \in AllThreads \ {P} : cur'[u] = cur[u] /\ acq'[u] = acq[u]
        /\ \A y \in AllLocations \ {x} : memory'[y] = memory[y]
        /\ \A i \in DOMAIN memory'[x] :
             \/ i \in DOMAIN memory[x] /\ memory'[x][i] = memory[x][i]
             \/ /\ memory'[x][i].value = v
                /\ ordering = "Release" => memory'[x][i].view.done = views.cur.done
    BY <1>1, <1>3, StoreStep
  <1>5. AcquireInv'
    <2>1. Below(views.cur, views.acq)
      BY <1>1, <1>2 DEF AcquireInv, Below
    <2>2. QED
      BY <1>1, <1>4, <2>1, AcquireKept
  <1>6. CursorMessageInv' /\ ConsumerViewInv'
    <2>1. \A c \in Consumers : memory'[ConsumerCursor(c)] = memory[ConsumerCursor(c)]
      BY <1>4, Names
    <2>2. PICK top \in Int : top = producer_cursor /\ ConsumerInv(top)
      BY Parts
    <2>3. WritesOnly(top + 1) /\ top + 1 \in Int /\ top < top + 1
      BY DEF WritesOnly
    <2>4. QED
      BY <1>4, <2>1, <2>2, <2>3, Names, Parts, ConsumersAside DEF consumerVars
  <1>7. OrderTypeOK'
    BY <1>1, <1>4 DEF OrderTypeOK
  <1>8. QED
    BY <1>2, <1>4, <1>5, <1>6, <1>7

\* Publishing: the cursor takes the writes of the batch along.
LEMMA PublishOrderedInv ==
  ASSUME OrderedIInv, TypeOK', IInv', PublishOrdered
  PROVE  OrderedIInv'
  <1>1. /\ ppc = "write" /\ position > Upper /\ producer_cursor' = Upper /\ ppc' = "idle"
        /\ UNCHANGED <<consumerVars, shutdown_at_sequence, sequence_clear_of_consumers,
                       rear_unread, rear_lowest, writer>>
    BY DEF PublishOrdered, Publish, callVars
  <1>2. /\ OrderTypeOK /\ MemoryTypeOK /\ ProducerMessageInv /\ ProducerViewInv
        /\ WriterInv /\ ShutdownMessageInv
    BY Parts
  <1>3. PICK v \in Int : /\ v = Upper /\ v = position - 1
                         /\ producer_cursor <= v /\ producer_cursor \in Int
                         /\ producer_cursor = sequence - 1 /\ sequence \in Nat
    BY <1>1, Parts DEF TypeOK, Requests, IInv, ProducerInv, Upper
  <1>4. StoreAs(P, ViewsOf(P), ProducerCursor, v, "Release")
    BY <1>1, <1>3 DEF PublishOrdered, CursorOrdering
  <1>5. /\ MemoryTypeOK'
        /\ OrderTypeOK' /\ AcquireInv' /\ CursorMessageInv' /\ ConsumerViewInv'
        /\ cur'[P].done = cur[P].done
        /\ acq'[P].done = acq[P].done
        /\ \A y \in AllLocations \ {ProducerCursor} : memory'[y] = memory[y]
        /\ \A i \in DOMAIN memory'[ProducerCursor] :
             \/ /\ i \in DOMAIN memory[ProducerCursor]
                /\ memory'[ProducerCursor][i] = memory[ProducerCursor][i]
             \/ /\ memory'[ProducerCursor][i].value = v
                /\ memory'[ProducerCursor][i].view.done = cur[P].done
    BY <1>1, <1>4, ProducerStore
  <1>6. ASSUME NEW w, w.done = cur[P].done
        PROVE  Written(w, v)
    BY <1>1, <1>2, <1>3, <1>6 DEF ProducerViewInv, Written
  <1>7. ProducerMessageInv'
    <2>1. ASSUME NEW i \in DOMAIN memory'[ProducerCursor]
          PROVE  /\ memory'[ProducerCursor][i].value \in Int
                 /\ memory'[ProducerCursor][i].value <= producer_cursor'
                 /\ Written(memory[ProducerCursor][i].view, memory[ProducerCursor][i].value)'
      <3>1. PICK n, w : /\ n = memory'[ProducerCursor][i].value
                        /\ w = memory'[ProducerCursor][i].view
        OBVIOUS
      <3>2. producer_cursor' = v
        BY <1>1, <1>3
      <3>3. CASE /\ i \in DOMAIN memory[ProducerCursor]
                 /\ memory'[ProducerCursor][i] = memory[ProducerCursor][i]
        <4>1. n \in Int /\ n <= producer_cursor /\ Written(w, n)
          BY <1>2, <3>1, <3>3 DEF ProducerMessageInv
        <4>2. n <= v
          BY <1>3, <4>1
        <4>3. Written(w, n)'
          BY <1>1, <4>1, KnownStays
        <4>4. QED
          BY <3>1, <3>2, <4>1, <4>2, <4>3
      <3>4. CASE n = v /\ w.done = cur[P].done
        <4>1. Written(w, n)'
          BY <1>1, <1>6, <3>4, KnownStays
        <4>2. QED
          BY <3>1, <3>2, <3>4, <4>1
      <3>5. QED
        BY <1>5, <3>1, <3>3, <3>4
    <2>2. QED
      BY <2>1 DEF ProducerMessageInv
  <1>8. ProducerViewInv'
    <2>1. PICK k, m : k = cur'[P] /\ m = acq'[P]
      OBVIOUS
    <2>2. Written(k, v)'
      BY <1>1, <1>5, <1>6, <2>1, KnownStays
    <2>3. PICK low : low = rear_lowest
      OBVIOUS
    <2>4. \A u \in LastStage \ rear_unread : Passed(m, u, low)
      BY <1>2, <1>5, <2>1, <2>3 DEF ProducerViewInv, Passed, Written
    <2>5. \A u \in LastStage \ rear_unread : Passed(m, u, low)'
      BY <1>1, <2>4, KnownStays, LastStageFacts
    <2>6. LastStage' = LastStage
      BY DEF LastStage
    <2>7. \A c \in Consumers :
            k.done[ConsumerThread(c)] >= sequence_clear_of_consumers - Size
      BY <1>2, <1>5, <2>1 DEF ProducerViewInv
    <2>8. QED
      BY <1>1, <1>3, <2>1, <2>2, <2>3, <2>5, <2>6, <2>7 DEF ProducerViewInv
  <1>9. WriterInv'
    <2>1. 0 .. v \subseteq DOMAIN writer
      <3>1. \A s \in 0 .. v : s \in 0 .. producer_cursor \/ s \in sequence .. position - 1
        BY <1>3
      <3>2. QED
        BY <1>1, <1>2, <3>1 DEF WriterInv
    <2>2. QED
      BY <1>1, <1>3, <2>1 DEF WriterInv
  <1>10. ShutdownMessageInv'
    <2>1. memory'[ShutdownWord] = memory[ShutdownWord]
      BY <1>5, Names
    <2>2. NONE' = NONE
      BY DEF NONE
    <2>3. QED
      BY <1>1, <1>2, <2>1, <2>2 DEF ShutdownMessageInv
  <1>11. QED
    BY <1>5, <1>7, <1>8, <1>9, <1>10 DEF OrderedIInv, OrderedTypeOK

\* The shutdown word is stored once, and takes nothing along.
LEMMA DropOrderedInv ==
  ASSUME OrderedIInv, TypeOK', IInv', DropOrdered
  PROVE  OrderedIInv'
  <1>1. /\ ppc = "idle" /\ shutdown_at_sequence' = sequence /\ ppc' = "join"
        /\ UNCHANGED <<consumerVars, producer_cursor, sequence, sequence_clear_of_consumers,
                       rear_unread, rear_lowest, position, writer>>
    BY DEF DropOrdered, Drop, callVars
  <1>2. /\ TypeOK /\ OrderTypeOK /\ MemoryTypeOK /\ ProducerMessageInv /\ ProducerViewInv
        /\ WriterInv /\ ShutdownMessageInv /\ shutdown_at_sequence = NONE
    BY <1>1, Parts DEF IInv, ProducerInv
  <1>3. PICK v \in Int : v = sequence
    BY <1>2 DEF TypeOK
  <1>4. StoreAs(P, ViewsOf(P), ShutdownWord, v, "Relaxed")
    BY <1>1, <1>3 DEF DropOrdered
  <1>5. /\ MemoryTypeOK'
        /\ OrderTypeOK' /\ AcquireInv' /\ CursorMessageInv' /\ ConsumerViewInv'
        /\ cur'[P].done = cur[P].done
        /\ acq'[P].done = acq[P].done
        /\ \A y \in AllLocations \ {ShutdownWord} : memory'[y] = memory[y]
        /\ \A i \in DOMAIN memory'[ShutdownWord] :
             \/ /\ i \in DOMAIN memory[ShutdownWord]
                /\ memory'[ShutdownWord][i] = memory[ShutdownWord][i]
             \/ memory'[ShutdownWord][i].value = v
    BY <1>1, <1>4, ProducerStore
  <1>6. ProducerMessageInv'
    <2>1. memory'[ProducerCursor] = memory[ProducerCursor]
      BY <1>5, Names
    <2>2. QED
      BY <1>1, <1>2, <2>1 DEF ProducerMessageInv, Written
  <1>7. ProducerViewInv'
    <2>1. Precedes(cur[P], cur'[P]) /\ Precedes(acq[P], acq'[P])
      BY <1>2, <1>5, Names, SameDone DEF MemoryTypeOK
    <2>2. QED
      BY <1>1, <1>2, <1>5, <2>1, ProducerKnowsMore
  <1>8. WriterInv'
    BY <1>1, <1>2 DEF WriterInv
  <1>9. ShutdownMessageInv'
    <2>1. NONE' = NONE
      BY DEF NONE
    <2>2. QED
      BY <1>1, <1>2, <1>3, <1>5, <2>1 DEF ShutdownMessageInv
  <1>10. QED
    BY <1>5, <1>6, <1>7, <1>8, <1>9 DEF OrderedIInv, OrderedTypeOK

\* Whoever has done p knows of all writes up to p, if they knew of those before.
LEMMA OwnWrite ==
  ASSUME OrderTypeOK, NEW p \in Int, writer' = [s \in DOMAIN writer \cup {p} |-> 0],
         NEW v, v.done[P] = p, NEW s \in Int, s <= p
  PROVE  Written(v, s)'
  <1> SUFFICES ASSUME NEW e \in DOMAIN writer', e <= s
               PROVE  v.done[ProducerThread(writer'[e])] >= e
    BY DEF Written
  <1>1. e \in Int /\ writer'[e] = 0
    BY DEF OrderTypeOK
  <1>2. v.done[ProducerThread(writer'[e])] = p
    BY <1>1 DEF P
  <1>3. QED
    BY <1>1, <1>2

LEMMA WriteEventOrderedInv ==
  ASSUME OrderedIInv, TypeOK', IInv', WriteEventOrdered
  PROVE  OrderedIInv'
  <1>1. /\ ppc = "write" /\ ppc' = "write" /\ position' = position + 1
        /\ UNCHANGED <<consumerVars, shutdown_at_sequence, producer_cursor, sequence,
                       sequence_clear_of_consumers, rear_unread, rear_lowest, memory>>
    BY DEF WriteEventOrdered, WriteEvent
  <1>2. /\ OrderTypeOK /\ TypeOK /\ ConsumersTypeOK /\ MemoryTypeOK /\ AcquireInv
        /\ CursorMessageInv /\ ProducerMessageInv /\ ConsumerViewInv /\ ProducerViewInv
        /\ WriterInv /\ ShutdownMessageInv
        /\ ConsumerInv(producer_cursor) /\ CursorInv(producer_cursor) /\ ClearInv
    BY Parts DEF IInv, ConsumerInv
  <1>3. PICK p \in Int : /\ p = position
                         /\ producer_cursor \in Int /\ producer_cursor < p
                         /\ sequence \in Nat /\ sequence <= p
    BY <1>1, Parts DEF TypeOK, IInv, ProducerInv
  <1>4. writer' = [s \in DOMAIN writer \cup {p} |-> 0]
    BY <1>3 DEF WriteEventOrdered
  <1>5. PICK views \in Triple :
          /\ views = Accessed(ViewsOf(P), P, p)
          /\ views.cur.done[P] = p
          /\ views.acq.done[P] = p
          /\ \A u \in AllThreads \ {P} : /\ views.cur.done[u] = cur[P].done[u]
                                         /\ views.acq.done[u] = acq[P].done[u]
    BY <1>2, Names, ViewsOfType, AccessedViews 
  <1>6. SetViews(P, views)
    BY <1>3, <1>5 DEF WriteEventOrdered
  <1>7. /\ cur' \in [AllThreads -> View]
        /\ acq' \in [AllThreads -> View]
        /\ rel' \in [AllThreads -> View]
        /\ cur'[P] = views.cur
        /\ acq'[P] = views.acq
        /\ \A u \in AllThreads \ {P} : cur'[u] = cur[u] /\ acq'[u] = acq[u]
    BY <1>2, <1>6, Names, SetViewsEffect
  <1>8. OrderTypeOK'
    <2>1. MemoryTypeOK'
      BY <1>1, <1>2, <1>7, SameMemory
    <2>2. \A s \in DOMAIN writer' : s \in Nat /\ writer'[s] \in Writers
      BY <1>2, <1>3, <1>4, WritersAssumption DEF OrderTypeOK
    <2>3. QED
      BY <2>1, <2>2 DEF OrderTypeOK
  <1>9. AcquireInv'
    <2>1. Below(views.cur, views.acq)
      BY <1>2, <1>3, <1>5, Names, AccessedBelow
    <2>2. QED
      BY <1>2, <1>7, <2>1, Names, AcquireKept
  <1>10. WritesOnly(p)
    BY <1>2, <1>4, WritersAssumption DEF WritesOnly, OrderTypeOK
  <1>11. ProducerMessageInv'
    <2>1. ASSUME NEW i \in DOMAIN memory[ProducerCursor]
          PROVE  /\ memory[ProducerCursor][i].value \in Int
                 /\ memory[ProducerCursor][i].value <= producer_cursor
                 /\ Written(memory[ProducerCursor][i].view, memory[ProducerCursor][i].value)'
      <3>1. PICK n, w : /\ n = memory[ProducerCursor][i].value
                        /\ w = memory[ProducerCursor][i].view
        OBVIOUS
      <3>2. n \in Int /\ n <= producer_cursor /\ Written(w, n)
        BY <1>2, <3>1 DEF ProducerMessageInv
      <3>3. n < p
        BY <1>3, <3>2
      <3>4. Written(w, n)'
        BY <1>10, <3>2, <3>3, KnownBefore
      <3>5. QED
        BY <1>1, <3>1, <3>2, <3>4
    <2>2. QED
      BY <1>1, <2>1 DEF ProducerMessageInv
  <1>12. CursorMessageInv' /\ ConsumerViewInv' /\ ShutdownMessageInv'
    <2>1. CursorMessageInv' /\ ConsumerViewInv'
      <3>1. PICK top \in Int : top = producer_cursor /\ top < p /\ ConsumerInv(top)
        BY <1>2, <1>3
      <3>2. QED
        BY <1>1, <1>2, <1>7, <1>10, <3>1, Names, ConsumersAside DEF consumerVars
    <2>2. NONE' = NONE
      BY DEF NONE
    <2>3. ShutdownMessageInv'
      BY <1>1, <1>2, <2>2 DEF ShutdownMessageInv
    <2>4. QED
      BY <2>1, <2>3
  <1>13. ProducerViewInv'
    <2>1. PICK k, m : k = cur'[P] /\ m = acq'[P]
      OBVIOUS
    <2>2. PICK top, low : top = producer_cursor /\ low = rear_lowest
      OBVIOUS
    <2>3. Written(k, top)' /\ Written(k, p)'
      BY <1>2, <1>3, <1>4, <1>5, <1>7, <2>1, <2>2, OwnWrite
    <2>4. ASSUME NEW u \in LastStage \ rear_unread
          PROVE  Passed(m, u, low)'
      <3>1. u \in Consumers
        BY LastStageFacts
      <3>2. /\ low \in Int /\ low <= consumer_cursor[u] /\ Passed(acq[P], u, low)
            /\ consumer_cursor[u] \in Int /\ consumer_cursor[u] <= producer_cursor
        BY <1>2, <2>2, <3>1
        DEF TypeOK, ConsumersTypeOK, CursorInv, ClearInv, ProducerViewInv
      <3>3. low <= p
        BY <1>3, <3>2
      <3>4. Written(m, low)'
        BY <1>2, <1>4, <1>5, <1>7, <2>1, <3>2, <3>3, OwnWrite
      <3>5. \A w \in Before(u) \cup {u} : m.done[ConsumerThread(w)] >= low
        <4>1. \A w \in Before(u) \cup {u} : ConsumerThread(w) \in AllThreads \ {P}
          BY <3>1, UpstreamFacts, Names
        <4>2. QED
          BY <1>5, <1>7, <2>1, <3>2, <4>1 DEF Passed
      <3>6. Before(u)' = Before(u)
        BY DEF Before
      <3>7. QED
        BY <3>4, <3>5, <3>6 DEF Passed
    <2>5. \A c \in Consumers :
            k.done[ConsumerThread(c)] >= sequence_clear_of_consumers - Size
      BY <1>2, <1>5, <1>7, <2>1, Names DEF ProducerViewInv
    <2>6. LastStage' = LastStage
      BY DEF LastStage
    <2>7. position' - 1 = p
      BY <1>1, <1>3
    <2>8. QED
      BY <1>1, <2>1, <2>2, <2>3, <2>4, <2>5, <2>6, <2>7 DEF ProducerViewInv
  <1>14. WriterInv'
    <2>1. \A s \in sequence .. p : s \in sequence .. p - 1 \/ s = p
      BY <1>3
    <2>2. position' - 1 = p
      BY <1>1, <1>3
    <2>3. QED
      BY <1>1, <1>2, <1>3, <1>4, <2>1, <2>2 DEF WriterInv
  <1>15. QED
    BY <1>8, <1>9, <1>11, <1>12, <1>13, <1>14 DEF OrderedIInv, OrderedTypeOK

-----------------------------------------------------------------------------

(***************************************************************************)
(* The inductive invariant.                                                *)
(***************************************************************************)

LEMMA OrderedInitInv == OrderedInit => OrderedIInv
  <1> SUFFICES ASSUME OrderedInit PROVE OrderedIInv
    OBVIOUS
  <1>1. TypeOK /\ IInv
    BY InitType, InitInv DEF OrderedInit
  <1>2. PICK value : /\ InitMemory(value) /\ writer = <<>>
                     /\ \A x \in AllLocations : value[x] = NONE
    BY DEF OrderedInit
  <1>3. InitConsumers
    BY DEF OrderedInit, Init
  <1>4. /\ ConsumerOrderInv
        /\ FirstView \in View
        /\ \A t \in AllThreads : FirstView.done[t] = -1
        /\ \A x \in AllLocations : memory[x] = <<[value |-> NONE, view |-> FirstView]>>
        /\ \A t \in AllThreads : cur[t] = FirstView /\ acq[t] = FirstView
        /\ \A s : Written(FirstView, s)
    BY <1>2, <1>3, Names, InitOrder
  <1>5. \A i \in DOMAIN memory[ProducerCursor] :
          memory[ProducerCursor][i].value = NONE /\ memory[ProducerCursor][i].view = FirstView
    BY <1>4, Names
  <1>6. /\ producer_cursor = NONE /\ ppc = "idle"
        /\ rear_unread = LastStage
        /\ sequence_clear_of_consumers = Size - 1
    BY DEF OrderedInit, Init
  <1>7. ProducerMessageInv
    BY <1>4, <1>5, <1>6 DEF ProducerMessageInv, NONE
  <1>8. ProducerViewInv
    <2>1. \A c \in Consumers :
            cur[P].done[ConsumerThread(c)] >= sequence_clear_of_consumers - Size
      BY <1>4, <1>6, Names, SizeAssumption
    <2>2. QED
      BY <1>4, <1>6, <2>1, Names DEF ProducerViewInv
  <1>9. WriterInv
    BY <1>6 DEF WriterInv, NONE
  <1>10. QED
    BY <1>1, <1>4, <1>7, <1>8, <1>9 DEF OrderedIInv, OrderedTypeOK, ConsumerOrderInv

LEMMA OrderedNextInv ==
  ASSUME OrderedIInv, [OrderedNext]_<<vars, orderVars>>
  PROVE  OrderedIInv'
  <1>1. TypeOK /\ IInv
    BY Parts
  <1>2. ASSUME [Next]_vars PROVE TypeOK' /\ IInv'
    BY <1>1, <1>2, NextType, NextInv
  <1>3. CASE UNCHANGED <<vars, orderVars>>
    BY <1>2, <1>3, LocalInv
  <1>4. CASE LoadRearOrdered
    BY <1>4, LoadRearOrderedInv
  <1>5. CASE WriteEventOrdered
    <2>1. Next
      BY <1>5 DEF WriteEventOrdered, Next, Client, ProducerStep
    <2>2. QED
      BY <1>2, <1>5, <2>1, WriteEventOrderedInv
  <1>6. CASE PublishOrdered
    <2>1. Next
      BY <1>6 DEF PublishOrdered, Next, Client, ProducerStep
    <2>2. QED
      BY <1>2, <1>6, <2>1, PublishOrderedInv
  <1>7. CASE DropOrdered
    <2>1. Next
      BY <1>7 DEF DropOrdered, Next, Client, ProducerStep
    <2>2. QED
      BY <1>2, <1>7, <2>1, DropOrderedInv
  <1>8. CASE LocalStep
    <2>1. [Next]_vars
      BY <1>8, BoundsAssumption DEF LocalStep, Next, Client, ProducerStep
    <2>2. QED
      BY <1>2, <1>8, <2>1, LocalInv DEF LocalStep
  <1>9. ASSUME NEW c \in Consumers, LoadProducerBarrierOrdered(c)
        PROVE  OrderedIInv'
    BY <1>9, LoadProducerBarrierOrderedInv
  <1>10. ASSUME NEW c \in Consumers, ConsumerStepOrdered(c), UNCHANGED producerVars
         PROVE  OrderedIInv'
    BY <1>10, ConsumerStepInvOrdered
  <1>11. ASSUME NEW c \in Consumers, ConsumerFailure(c), UNCHANGED <<producerVars, orderVars>>
         PROVE  OrderedIInv'
    <2>1. Next
      BY <1>11 DEF Next
    <2>2. QED
      BY <1>2, <1>11, <2>1, LocalInv
  <1>12. QED
    BY <1>3, <1>4, <1>5, <1>6, <1>7, <1>8, <1>9, <1>10, <1>11 DEF OrderedNext

\* What the messages and views say of the events, whatever stale values are read.
THEOREM OrderedInvariance == OrderedSpec => []OrderedIInv
  BY OrderedInitInv, OrderedNextInv, PTL DEF OrderedSpec

-----------------------------------------------------------------------------

(***************************************************************************)
(* What follows.                                                           *)
(***************************************************************************)

LEMMA AccessesOrdered == OrderedIInv => RaceFree
  <1> SUFFICES ASSUME OrderedIInv PROVE RaceFree
    OBVIOUS
  <1>1. /\ OrderTypeOK /\ MemoryTypeOK /\ TypeOK /\ ConsumersTypeOK /\ IInv
        /\ ConsumerViewInv /\ ProducerViewInv /\ WriterInv
    BY Parts
  <1>2. ASSUME NEW c \in Consumers, NEW s \in ReadSet(c)
        PROVE  /\ s \in DOMAIN writer
               /\ Ordered(ConsumerThread(c), ProducerThread(writer[s]), s)
    <2>1. PICK top \in Int : top = producer_cursor
      BY <1>1 DEF TypeOK
    <2>2. ConsumerInv(top) /\ CursorInv(top)
      BY <1>1, <2>1 DEF IInv, ConsumerInv
    <2>3. s \in Int /\ consumer_cursor[c] < s /\ s <= top
      BY <1>1, <2>2, ReadSetFacts
    <2>4. s \in 0 .. producer_cursor
      BY <1>1, <2>1, <2>2, <2>3 DEF CursorInv, ConsumersTypeOK, NONE
    <2>5. s \in DOMAIN writer
      BY <1>1, <2>4 DEF WriterInv
    <2>6. Written(cur[ConsumerThread(c)], available[c]) /\ s <= available[c]
      BY <1>1 DEF ReadSet, ConsumerViewInv, ConsumerKnows, ConsumersTypeOK
    <2>7. QED
      BY <2>5, <2>6 DEF Written, Ordered
  <1>3. ASSUME NEW p \in Writers, NEW s \in WriteSet,
               NEW u \in ConsumerThreads \cup (PreviousWriter(s) \ {ProducerThread(p)})
        PROVE  Ordered(ProducerThread(p), u, s - Size)
    <2>1. /\ s \in Int /\ s <= sequence_clear_of_consumers
          /\ sequence_clear_of_consumers \in Int
      BY <1>1 DEF WriteSet, TypeOK, Requests, IInv, ProducerInv, Upper
    <2>2. ProducerThread(p) = P
      BY Names
    <2>3. PreviousWriter(s) \ {P} = {}
      BY <1>1, Names DEF PreviousWriter, OrderTypeOK
    <2>4. PICK c \in Consumers : u = ConsumerThread(c)
      BY <2>2, <2>3 DEF ConsumerThreads
    <2>5. /\ cur[P].done[u] >= sequence_clear_of_consumers - Size
          /\ cur[P].done[u] \in Int
      BY <1>1, <2>4, Names DEF ProducerViewInv, MemoryTypeOK, View
    <2>6. QED
      BY <2>1, <2>2, <2>5, SizeAssumption DEF Ordered
  <1>4. QED
    BY <1>2, <1>3 DEF RaceFree, RaceFreeAgainst

\* The release stores and acquire fences of the code order all conflicting accesses.
THEOREM OrderedRaceFreedom == OrderedSpec => []RaceFree
  BY AccessesOrdered, OrderedInvariance, PTL

\* Reading stale cursors costs nothing but time: events are still seen as they
\* were published, and no slot is written while somebody refers to it.
THEOREM OrderedIntegrity == OrderedSpec => [](EventsIntact /\ StagesOrdered /\ NoDataRace)
  <1>1. OrderedIInv => EventsIntact /\ StagesOrdered /\ NoDataRace
    BY Parts, ReadersServed, ReadWriteApart DEF NoDataRace
  <1>2. QED
    BY <1>1, OrderedInvariance, PTL

\* A producer that goes by stale cursors overwrites no event a consumer of any stage
\* has not given back.
THEOREM OrderedNothingLost == OrderedSpec => NoEventLost
  <1>1. ASSUME OrderedIInv, [OrderedNext]_<<vars, orderVars>>, NEW i \in Slots,
               slots'[i] # slots[i], NEW c \in Consumers
        PROVE  consumer_cursor[c] >= slots[i]
    <2>1. WriteEvent
      BY <1>1
      DEF OrderedNext, LocalStep, Call, UpdatePanics, DropReturns, Join, Terminated,
          LoadRearOrdered, WriteEventOrdered, PublishOrdered, Publish, DropOrdered, Drop,
          LoadProducerBarrierOrdered, ConsumerStepOrdered, ConsumerFailure, vars
    <2>2. QED
      BY <1>1, <2>1, Parts, OverwriteReleased
  <1>2. ASSUME OrderedIInv, [OrderedNext]_<<vars, orderVars>>
        PROVE  [\A i \in Slots : slots'[i] # slots[i] =>
                  \A c \in Consumers : consumer_cursor[c] >= slots[i]]_vars
    BY <1>1, <1>2
  <1>3. QED
    BY <1>2, OrderedInvariance, PTL DEF OrderedSpec, NoEventLost

LEMMA OrderedNextPromise ==
  ASSUME OrderedIInv, [OrderedNext]_<<vars, orderVars>>
  PROVE  [Promise!Next]_(Promise!vars)
  <1>1. TypeOK /\ IInv /\ ConsumersTypeOK
    BY Parts
  <1>2. CASE [Next]_vars
    BY <1>1, <1>2, NextPromise
  <1>3. CASE LoadRearOrdered
    BY <1>3, Stutters DEF LoadRearOrdered, consumerVars
  <1>4. ASSUME NEW c \in Consumers, LoadProducerBarrierOrdered(c) \/ LoadUpstreamOrdered(c),
               UNCHANGED <<producerVars, shutdown_at_sequence>>
        PROVE  [Promise!Next]_(Promise!vars)
    <2>1. UNCHANGED <<producer_cursor, consumer_cursor, shutdown_at_sequence>>
      BY <1>4 DEF LoadProducerBarrierOrdered, LoadUpstreamOrdered, producerVars
    <2>2. \A d \in Consumers : cpc'[d] = "exited" <=> cpc[d] = "exited"
      <3>1. cpc[c] = "load"
        BY <1>4 DEF LoadProducerBarrierOrdered, LoadUpstreamOrdered
      <3>2. CASE UNCHANGED cpc
        BY <3>2
      <3>3. CASE \E highest : Observed(c, highest)
        BY <1>1, <3>1, <3>3 DEF Observed, Obtained, NothingNew, ConsumersTypeOK
      <3>4. QED
        BY <1>4, <3>2, <3>3 DEF LoadProducerBarrierOrdered, LoadUpstreamOrdered
    <2>3. QED
      BY <2>1, <2>2, Stutters
  <1>5. ASSUME NEW c \in Consumers, LoadShutdownOrdered(c) \/ PollOrdered(c),
               UNCHANGED <<producerVars, shutdown_at_sequence>>
        PROVE  [Promise!Next]_(Promise!vars)
    <2>1. PICK next \in {"exited", "load"} :
            /\ cpc' = [cpc EXCEPT ![c] = next]
            /\ next = "exited" => shutdown_at_sequence = consumer_cursor[c] + 1
      BY <1>5, Parts, ShutdownStep
    <2>2. /\ cpc[c] \in {"check", "idle"}
          /\ UNCHANGED <<producer_cursor, consumer_cursor, shutdown_at_sequence>>
      BY <1>5, Parts, ShutdownStep DEF producerVars
    <2>3. CASE next = "exited"
      <3>1. Promise!Finish(c)
        BY <1>1, <2>1, <2>2, <2>3, FinishPromise
      <3>2. QED
        BY <3>1 DEF Promise!Next, Promise!Consumers, Consumers
    <2>4. CASE next = "load"
      <3>1. \A d \in Consumers : cpc'[d] = "exited" <=> cpc[d] = "exited"
        BY <1>1, <2>1, <2>2, <2>4 DEF ConsumersTypeOK
      <3>2. QED
        BY <2>2, <3>1, Stutters
    <2>5. QED
      BY <2>3, <2>4
  <1>6. ASSUME NEW c \in Consumers, HandleOrdered(c) \/ ReleaseOrdered(c) \/ GuardDropOrdered(c),
               UNCHANGED <<producerVars, shutdown_at_sequence, slots>>
        PROVE  [Promise!Next]_(Promise!vars)
    BY <1>1, <1>6, ConsumerStepPromise
    DEF HandleOrdered, ReleaseOrdered, GuardDropOrdered, ConsumerStep
  <1>7. CASE WriteEventOrdered \/ PublishOrdered \/ DropOrdered
    BY <1>2, <1>7 DEF WriteEventOrdered, PublishOrdered, DropOrdered, Next, Client, ProducerStep
  <1>8. CASE LocalStep
    BY <1>2, <1>8, BoundsAssumption DEF LocalStep, Next, Client, ProducerStep
  <1>9. ASSUME NEW c \in Consumers, ConsumerFailure(c), UNCHANGED producerVars
        PROVE  [Promise!Next]_(Promise!vars)
    BY <1>1, <1>9, ConsumerStepPromise
  <1>10. ASSUME NEW c \in Consumers, LoadProducerBarrierOrdered(c)
         PROVE  UNCHANGED <<producerVars, shutdown_at_sequence>>
    BY <1>10 DEF LoadProducerBarrierOrdered
  <1>11. ASSUME NEW c \in Consumers, ConsumerStepOrdered(c)
         PROVE  UNCHANGED <<shutdown_at_sequence, slots>>
    BY <1>11 DEF ConsumerStepOrdered
  <1>12. QED
    BY <1>2, <1>3, <1>4, <1>5, <1>6, <1>7, <1>8, <1>9, <1>10, <1>11
    DEF OrderedNext, ConsumerStepOrdered

\* The disruptor on weak memory keeps the promise of the broadcast channel.
THEOREM OrderedRefinement == OrderedSpec => KeepsPromise
  <1>1. OrderedInit => Promise!Init
    BY PromiseInit DEF OrderedInit
  <1>2. OrderedIInv /\ [OrderedNext]_<<vars, orderVars>> => [Promise!Next]_(Promise!vars)
    BY OrderedNextPromise
  <1>3. QED
    BY <1>1, <1>2, OrderedInvariance, PTL DEF OrderedSpec, KeepsPromise, Promise!Spec
=============================================================================
