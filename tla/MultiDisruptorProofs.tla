------------------------ MODULE MultiDisruptorProofs ------------------------
(***************************************************************************)
(* The multi-producer disruptor is correct for every number of handles,    *)
(* every ring buffer and word size, every arrangement of consumers in      *)
(* stages, every choice of pollers, of handlers and of updates that may    *)
(* panic, and every bound.                                                 *)
(***************************************************************************)
EXTENDS MultiDisruptor, ConsumersProofs, FiniteSetTheorems, WellFoundedInduction

-----------------------------------------------------------------------------

(***************************************************************************)
(* Rounds, bits and words.                                                 *)
(***************************************************************************)

\* One lap back is the same slot in the round before.
LEMMA OneLapBack ==
  ASSUME NEW s \in Int
  PROVE  /\ SlotOf(s - Size) = SlotOf(s)
         /\ (s - Size) \div Size = s \div Size - 1
  <1> DEFINE q == s \div Size
             r == (s - Size) \div Size
             i == SlotOf(s)
             j == SlotOf(s - Size)
             k == q - 1 - r
  <1>1. s - Size \in Int /\ Size \in Nat \ {0}
    BY SizeAssumption
  <1>2. q \in Int /\ i \in 0 .. Size - 1 /\ s = Size * q + i
    BY LapAndSlot, SlotOfInSlots DEF Slots
  <1>3. r \in Int /\ j \in 0 .. Size - 1 /\ s - Size = Size * r + j
    BY <1>1, LapAndSlot, SlotOfInSlots DEF Slots
  <1> HIDE DEF q, r, i, j
  <1>4. k \in Int /\ Size * k = j - i
    <2>1. Size * k = Size * q - Size - Size * r
      BY <1>1, <1>2, <1>3
    <2>2. Size * q \in Int /\ Size * r \in Int
      BY <1>1, <1>2, <1>3
    <2>3. QED
      BY <1>1, <1>2, <1>3, <2>1, <2>2
  <1>5. k = 0
    <2> HIDE DEF k
    <2>1. ~(k >= 1)
      BY <1>1, <1>2, <1>3, <1>4, MultipleOfSize
    <2>2. ~(-k >= 1)
      <3>1. -k \in Int /\ Size * (-k) = -(Size * k)
        BY <1>1, <1>4
      <3>2. -k >= 1 => Size * (-k) >= Size
        BY <3>1, MultipleOfSize
      <3>3. QED
        BY <1>1, <1>2, <1>3, <1>4, <3>1, <3>2
    <2>3. QED
      BY <1>4, <2>1, <2>2
  <1>6. r = q - 1
    BY <1>2, <1>3, <1>5
  <1>7. j = i
    <2> HIDE DEF k
    <2>1. QED
      BY <1>1, <1>2, <1>3, <1>4, <1>5
  <1>8. QED
    BY <1>6, <1>7 DEF q, r, i, j

LEMMA ParityFacts ==
  ASSUME NEW s \in Int
  PROVE  /\ Parity(s) \in {0, 1}
         /\ Parity(s - Size) = 1 - Parity(s)
  <1>1. s \div Size \in Int
    BY LapAndSlot
  <1>2. Parity(s) \in {0, 1}
    BY <1>1 DEF Parity
  <1>3. \A q \in Int : (q - 1) % 2 = 1 - (q % 2)
    OBVIOUS
  <1>4. QED
    BY <1>1, <1>2, <1>3, OneLapBack DEF Parity

\* The bit of a slot cannot say that two rounds in succession are published.
LEMMA BitOfOneRound ==
  ASSUME bits \in [Slots -> {0, 1}], NEW s \in Int
  PROVE  Available(s) <=> ~Available(s - Size)
  BY SlotOfInSlots, OneLapBack, ParityFacts DEF Available

LEMMA WordEndFacts ==
  ASSUME NEW s \in Int
  PROVE  WordEnd(s) \in Int /\ s <= WordEnd(s) /\ WordEnd(s) < s + Size
  <1> DEFINE bit == s % WordBits
  <1>1. bit \in 0 .. WordBits - 1
    BY ProducersAssumption
  <1>2. WordBits \in Nat \ {0} /\ WordBits <= Size
    <2>1. WordBits \in Nat \ {0} /\ Size \in Nat \ {0} /\ Size % WordBits = 0
      BY ProducersAssumption, SizeAssumption
    <2> DEFINE words == Size \div WordBits
    <2>2. words \in Int
      BY <2>1
    <2>3. Size = WordBits * words + (Size % WordBits)
      BY <2>1, <2>2
    <2>4. words >= 1 => WordBits * words >= WordBits
      BY <2>1
    <2>5. words <= 0 => WordBits * words <= 0
      BY <2>1
    <2>6. QED
      BY <2>1, <2>2, <2>3, <2>4, <2>5
  <1>3. WordEnd(s) = s - bit + WordBits - 1
    BY DEF WordEnd
  <1> HIDE DEF bit
  <1>4. QED
    BY <1>1, <1>2, <1>3, SizeAssumption

-----------------------------------------------------------------------------

(***************************************************************************)
(* Handles, counted.                                                       *)
(***************************************************************************)

LEMMA FiniteSubsets ==
  ASSUME NEW set \in SUBSET Producers
  PROVE  IsFiniteSet(set) /\ Cardinality(set) \in Nat
  BY ProducersAssumption, FS_Subset, FS_CardinalityType

\* Drop sees a count of one exactly if it is the last one.
LEMMA LastOne ==
  ASSUME NEW set \in SUBSET Producers, NEW p \in set
  PROVE  /\ Cardinality(set) >= 1
         /\ Cardinality(set \ {p}) = Cardinality(set) - 1
         /\ Cardinality(set) = 1 <=> set = {p}
  <1>1. IsFiniteSet(set) /\ Cardinality(set) \in Nat
    BY FiniteSubsets
  <1>2. /\ IsFiniteSet(set \ {p})
        /\ Cardinality(set \ {p}) = Cardinality(set) - 1
    BY <1>1, FS_RemoveElement
  <1>3. Cardinality(set \ {p}) \in Nat
    BY <1>2, FS_CardinalityType
  <1>4. Cardinality(set \ {p}) = 0 <=> set \ {p} = {}
    BY <1>2, FS_EmptySet
  <1>5. QED
    BY <1>1, <1>2, <1>3, <1>4

LEMMA OneMore ==
  ASSUME NEW set \in SUBSET Producers, NEW p \in Producers \ set
  PROVE  Cardinality(set \cup {p}) = Cardinality(set) + 1
  BY FiniteSubsets, FS_AddElement

-----------------------------------------------------------------------------

(***************************************************************************)
(* Types.                                                                  *)
(***************************************************************************)

LEMMA InitType == Init => TypeOK
  <1> SUFFICES ASSUME Init PROVE TypeOK
    OBVIOUS
  <1>1. SlotsTypeOK
    BY DEF Init, InitSlots, SlotsTypeOK, NONE
  <1>2. ConsumersTypeOK
    BY InitConsumersType DEF Init
  <1>3. QED
    BY <1>1, <1>2, SizeAssumption, ConsumersAssumption, ProducersAssumption, LastStageFacts
    DEF Init, InitBarrier, TypeOK, NoRequest, NONE

LEMMA ReturnType ==
  ASSUME TypeOK, NEW p \in Producers, Return(p)
  PROVE  /\ ppc' \in [Producers -> {"unborn", "idle", "start", "claim", "cas", "write",
                                    "join", "gone", "failed"}]
         /\ request' \in [Producers -> [n : Nat, blocking : BOOLEAN]]
  <1>1. NoRequest \in [n : Nat, blocking : BOOLEAN]
    BY DEF NoRequest
  <1>2. QED
    BY <1>1 DEF TypeOK, Return

\* What a decision on the slow path leaves behind is well typed.
LEMMA ClaimAgainstType ==
  ASSUME TypeOK, NEW p \in Producers, NEW rear \in Int, ClaimAgainst(p, rear)
  PROVE  /\ rear_unread' \in [Producers -> SUBSET LastStage]
         /\ rear_lowest' \in [Producers -> Int]
         /\ current' \in [Producers -> Int]
         /\ sequence_clear_of_consumers' \in [Producers -> Int]
         /\ ppc' \in [Producers -> {"unborn", "idle", "start", "claim", "cas", "write",
                                    "join", "gone", "failed"}]
         /\ request' \in [Producers -> [n : Nat, blocking : BOOLEAN]]
  <1>1. /\ rear_unread' \in [Producers -> SUBSET LastStage]
        /\ rear_lowest' \in [Producers -> Int]
    BY ConsumersAssumption DEF TypeOK, ClaimAgainst
  <1>2. CASE FreeSlots(current[p], rear) < request[p].n
    <2>1. /\ current' = [current EXCEPT ![p] = NONE]
          /\ UNCHANGED sequence_clear_of_consumers
          /\ \/ ppc' = [ppc EXCEPT ![p] = "start"] /\ UNCHANGED request
             \/ Return(p)
      BY <1>2, SizeAssumption DEF TypeOK, ClaimAgainst, FreeSlots, WrapPoint
    <2>2. NONE \in Int
      BY DEF NONE
    <2>3. QED
      BY <1>1, <2>1, <2>2, ReturnType DEF TypeOK
  <1>3. CASE ~(FreeSlots(current[p], rear) < request[p].n)
    <2>1. /\ UNCHANGED <<current, request>>
          /\ ppc' = [ppc EXCEPT ![p] = "cas"]
          /\ sequence_clear_of_consumers' = [sequence_clear_of_consumers EXCEPT
                ![p] = current[p] + FreeSlots(current[p], rear)]
      BY <1>3 DEF ClaimAgainst
    <2>2. current[p] + FreeSlots(current[p], rear) \in Int
      BY SizeAssumption DEF TypeOK, FreeSlots, WrapPoint
    <2>3. QED
      BY <1>1, <2>1, <2>2 DEF TypeOK
  <1>4. QED
    BY <1>2, <1>3

\* Sequences that are being written or published are natural numbers.
LEMMA BatchType ==
  ASSUME TypeOK, IInv, NEW p \in Producers
  PROVE  /\ Lower(p) \in Int /\ Upper(p) \in Int
         /\ unpublished[p] \in Int /\ position[p] \in Int /\ cursor \in Int
         /\ ppc[p] = "write" => Lower(p) .. Upper(p) \in SUBSET Nat
         /\ ppc[p] = "write" => unpublished[p] \in Nat /\ position[p] \in Nat
  BY DEF TypeOK, IInv, ClaimInv, OwnBatch, Lower, Upper

\* A round of the fold over the gating cursors that has come to this minimum.
RearStep(p, c, minimum) ==
  /\ \/ rear_unread[p] = {c} /\ ClaimAgainst(p, minimum)
     \/ /\ rear_unread' = [rear_unread EXCEPT ![p] = @ \ {c}]
        /\ rear_lowest' = [rear_lowest EXCEPT ![p] = minimum]
        /\ UNCHANGED <<ppc, request, current, sequence_clear_of_consumers>>
  /\ UNCHANGED <<slots, consumerVars, shutdown_at_sequence, scanned, barrierVars,
                 claimed_sequence, updateVars, lifeVars, historyVars>>

LEMMA RearStepType ==
  ASSUME TypeOK, NEW p \in Producers, NEW c \in rear_unread[p], NEW minimum \in Int,
         RearStep(p, c, minimum)
  PROVE  TypeOK'
  <1> USE DEF TypeOK, SlotsTypeOK, ConsumersTypeOK, consumerVars, barrierVars, updateVars,
              lifeVars, historyVars
  <1>1. CASE ClaimAgainst(p, minimum)
    <2>1. /\ rear_unread' \in [Producers -> SUBSET LastStage]
          /\ rear_lowest' \in [Producers -> Int]
          /\ current' \in [Producers -> Int]
          /\ sequence_clear_of_consumers' \in [Producers -> Int]
          /\ ppc' \in [Producers -> {"unborn", "idle", "start", "claim", "cas", "write",
                                     "join", "gone", "failed"}]
          /\ request' \in [Producers -> [n : Nat, blocking : BOOLEAN]]
      BY <1>1, ClaimAgainstType
    <2>2. QED
      BY <2>1 DEF RearStep
  <1>2. CASE ~ClaimAgainst(p, minimum)
    <2>1. rear_unread[p] \ {c} \in SUBSET LastStage
      OBVIOUS
    <2>2. /\ rear_unread' = [rear_unread EXCEPT ![p] = rear_unread[p] \ {c}]
          /\ rear_lowest' = [rear_lowest EXCEPT ![p] = minimum]
          /\ UNCHANGED <<ppc, request, current, sequence_clear_of_consumers>>
      BY <1>2 DEF RearStep
    <2>3. QED
      BY <2>1, <2>2 DEF RearStep
  <1>3. QED
    BY <1>1, <1>2

\* A scan that has come to its end, and one that goes on with the next word.
ScanEnds(c, highest) == Observed(c, highest) /\ scanned' = [scanned EXCEPT ![c] = 0]

ScanGoesOn(c, high) ==
  /\ scanned' = [scanned EXCEPT ![c] = WordEnd(high) + 1 - consumer_sequence[c]]
  /\ UNCHANGED <<cpc, available, unread, lowest>>

LEMMA ScanStepType ==
  ASSUME TypeOK, NEW c \in Consumers, NEW high \in Int, high = consumer_sequence[c] + scanned[c],
         (\E highest \in Int : ScanEnds(c, highest)) \/ ScanGoesOn(c, high),
         UNCHANGED <<slots, consumer_cursor, consumer_sequence, shutdown_at_sequence,
                     producerVars>>
  PROVE  TypeOK'
  <1> USE DEF TypeOK, SlotsTypeOK, ConsumersTypeOK, barrierVars, claimVars, updateVars,
              lifeVars, historyVars
  <1>1. CASE \E highest \in Int : ScanEnds(c, highest)
    <2>1. PICK highest \in Int : ScanEnds(c, highest)
      BY <1>1
    <2>2. /\ cpc' \in [Consumers -> {"idle", "load", "check", "handle", "guard",
                                     "exited", "panicked"}]
          /\ available' \in [Consumers -> Int]
          /\ unread' \in [Consumers -> SUBSET Consumers]
          /\ lowest' \in [Consumers -> Int]
      BY <2>1, ObservedType DEF ScanEnds
    <2>3. scanned' \in [Consumers -> Nat]
      BY <2>1 DEF ScanEnds
    <2>4. QED
      BY <2>2, <2>3 DEF producerVars
  <1>2. CASE ScanGoesOn(c, high)
    <2>1. WordEnd(high) \in Int /\ high <= WordEnd(high)
      BY WordEndFacts
    <2>2. WordEnd(high) + 1 - consumer_sequence[c] \in Nat
      BY <2>1
    <2>3. QED
      BY <1>2, <2>2 DEF ScanGoesOn, producerVars
  <1>3. QED
    BY <1>1, <1>2

LEMMA NextType == TypeOK /\ IInv /\ [Next]_vars => TypeOK'
  <1> SUFFICES ASSUME TypeOK, IInv, [Next]_vars PROVE TypeOK'
    OBVIOUS
  <1> USE DEF TypeOK, SlotsTypeOK, ConsumersTypeOK, consumerVars, barrierVars, claimVars,
              updateVars, lifeVars, historyVars
  <1>1. ASSUME NEW p \in Producers, NEW n \in 0 .. MaxBatch, NEW blocking \in BOOLEAN,
               Call(p, n, blocking)
        PROVE  TypeOK'
    BY <1>1, ProducersAssumption DEF Call
  <1>2. ASSUME NEW p \in Producers, LoadCurrent(p)
        PROVE  TypeOK'
    BY <1>2 DEF LoadCurrent, Attempt
  <1>3. ASSUME NEW p \in Producers, LoadRear(p)
        PROVE  TypeOK'
    <2>1. PICK c \in rear_unread[p] :
            RearStep(p, c, MinOf(consumer_cursor[c], rear_lowest[p]))
      BY <1>3 DEF LoadRear, RearStep
    <2>2. MinOf(consumer_cursor[c], rear_lowest[p]) \in Int
      BY LastStageFacts DEF MinOf
    <2>3. QED
      BY <2>1, <2>2, RearStepType
  <1>4. ASSUME NEW p \in Producers, ClaimSucceeds(p)
        PROVE  TypeOK'
    BY <1>4 DEF ClaimSucceeds, NONE
  <1>5. ASSUME NEW p \in Producers, ClaimFails(p)
        PROVE  TypeOK'
    BY <1>5 DEF ClaimFails, Attempt
  <1>6. ASSUME NEW p \in Producers, WriteEvent(p)
        PROVE  TypeOK'
    <2>1. SlotsTypeOK'
      BY <1>6, WriteSlotEffect DEF WriteEvent
    <2>2. QED
      BY <1>6, <2>1 DEF WriteEvent
  <1>7. ASSUME NEW p \in Producers, PublishWord(p)
        PROVE  TypeOK'
    <2>1. MinOf(Upper(p), WordEnd(unpublished[p])) \in Int
      BY BatchType, WordEndFacts DEF MinOf
    <2>2. bits' \in [Slots -> {0, 1}]
      BY <1>7 DEF PublishWord
    <2>3. unpublished' \in [Producers -> Int]
      BY <1>7, <2>1 DEF PublishWord
    <2>4. Return(p) \/ UNCHANGED <<ppc, request>>
      BY <1>7 DEF PublishWord
    <2>5. /\ ppc' \in [Producers -> {"unborn", "idle", "start", "claim", "cas", "write",
                                     "join", "gone", "failed"}]
          /\ request' \in [Producers -> [n : Nat, blocking : BOOLEAN]]
      BY <2>4, ReturnType
    <2>6. QED
      BY <1>7, <2>2, <2>3, <2>5 DEF PublishWord
  <1>8. ASSUME NEW p \in Producers, UpdatePanics(p)
        PROVE  TypeOK'
    <2>1. Lower(p) .. Upper(p) \in SUBSET Nat
      BY <1>8, BatchType DEF UpdatePanics
    <2>2. QED
      BY <1>8, <2>1 DEF UpdatePanics, Return, NoRequest
  <1>9. ASSUME NEW p \in Producers, NEW q \in Producers, Clone(p, q)
        PROVE  TypeOK'
    BY <1>9 DEF Clone
  <1>10. ASSUME NEW p \in Producers, Drop(p)
         PROVE  TypeOK'
    <2>1. counter - 1 \in Nat
      <3>1. Alive \in SUBSET Producers /\ p \in Alive
        BY <1>10 DEF Drop, Alive
      <3>2. counter >= 1
        BY <3>1, LastOne DEF IInv, LifeInv
      <3>3. QED
        BY <3>2
    <2>2. ppc' \in [Producers -> {"unborn", "idle", "start", "claim", "cas", "write",
                                  "join", "gone", "failed"}]
      BY <1>10 DEF Drop
    <2>3. shutdown_at_sequence' \in Int
      BY <1>10 DEF Drop
    <2>4. QED
      BY <1>10, <2>1, <2>2, <2>3 DEF Drop
  <1>11. ASSUME NEW p \in Producers, NEW c \in Managed, Join(p, c)
         PROVE  TypeOK'
    BY <1>11 DEF Join
  <1>12. ASSUME NEW p \in Producers, DropReturns(p)
         PROVE  TypeOK'
    BY <1>12 DEF DropReturns
  <1>13. ASSUME NEW c \in Consumers, ScanWord(c)
         PROVE  TypeOK'
    <2>1. PICK high \in Int : high = consumer_sequence[c] + scanned[c]
      OBVIOUS
    <2>2. WordEnd(high) \in Int
      BY WordEndFacts
    <2>3. /\ UNCHANGED <<slots, consumer_cursor, consumer_sequence, shutdown_at_sequence,
                         producerVars>>
          /\ \/ \E missing \in high .. WordEnd(high) : ScanEnds(c, missing - 1)
             \/ ScanGoesOn(c, high)
      BY <1>13, <2>1 DEF ScanWord, ScanEnds, ScanGoesOn
    <2>4. \A missing \in high .. WordEnd(high) : missing - 1 \in Int
      BY <2>2
    <2>5. (\E highest \in Int : ScanEnds(c, highest)) \/ ScanGoesOn(c, high)
      BY <2>3, <2>4
    <2>6. QED
      BY <2>1, <2>3, <2>5, ScanStepType
  <1>14. ASSUME NEW c \in Consumers, ConsumerStep(c) \/ ConsumerFailure(c),
                UNCHANGED <<scanned, producerVars>>
         PROVE  TypeOK'
    <2>1. UNCHANGED slots
      BY <1>14 DEF ConsumerStep, ConsumerFailure
    <2>2. ConsumersTypeOK'
      BY <1>14, ConsumerStepType
    <2>3. QED
      BY <1>14, <2>1, <2>2 DEF producerVars
  <1>15. CASE UNCHANGED vars
    BY <1>15 DEF vars, producerVars
  <1>16. ASSUME NEW p \in Producers, Client(p)
         PROVE  TypeOK'
    BY <1>1, <1>8, <1>9, <1>10, <1>16 DEF Client
  <1>17. ASSUME NEW p \in Producers, ProducerStep(p)
         PROVE  TypeOK'
    BY <1>2, <1>3, <1>4, <1>5, <1>6, <1>7, <1>11, <1>12, <1>17 DEF ProducerStep
  <1>18. ASSUME NEW c \in Consumers, Advance(c)
         PROVE  TypeOK'
    BY <1>13, <1>14, <1>18 DEF Advance
  <1>19. QED
    BY <1>14, <1>15, <1>16, <1>17, <1>18 DEF Next, Terminated

-----------------------------------------------------------------------------

(***************************************************************************)
(* What the invariant says of a state.                                     *)
(***************************************************************************)

LEMMA SomeConsumer == \E c \in Consumers : TRUE
  BY LastStageFacts

\* All arithmetic on sequences stays below i64::MAX.
LEMMA CursorBound ==
  ASSUME TypeOK, IInv
  PROVE  cursor \in Int /\ cursor < I64Max /\ claims <= MaxCalls
  <1>1. /\ claims \in Nat /\ MaxBatch \in Nat /\ MaxCalls \in Nat /\ cursor \in Int
        /\ I64Max \in Nat /\ MaxBatch * MaxCalls <= I64Max
    BY ProducersAssumption, ConsumersAssumption DEF TypeOK
  <1>2. claims <= MaxCalls
    <2>1. Cardinality(Undecided) \in Nat
      BY FiniteSubsets DEF Undecided
    <2>2. QED
      BY <1>1, <2>1 DEF IInv, BoundInv
  <1>3. claims * MaxBatch <= MaxBatch * MaxCalls
    <2>1. PICK left \in Nat : MaxCalls = claims + left
      BY <1>1, <1>2
    <2>2. MaxBatch * MaxCalls = claims * MaxBatch + MaxBatch * left
      BY <1>1, <2>1
    <2>3. MaxBatch * left \in Nat /\ claims * MaxBatch \in Nat
      BY <1>1
    <2>4. QED
      BY <1>1, <2>2, <2>3
  <1>4. cursor + 1 <= claims * MaxBatch
    BY DEF IInv, BoundInv
  <1>5. claims * MaxBatch \in Nat
    BY <1>1
  <1>6. QED
    BY <1>1, <1>2, <1>3, <1>4, <1>5

\* How far the stream has no gap, as far as consumers know.
LEMMA Gapless ==
  ASSUME TypeOK, IInv
  PROVE  \E k \in Int : /\ NONE <= k /\ k <= cursor /\ k <= I64Max
                        /\ \A s \in 0 .. k : IsPublished(s)
                        /\ ConsumerInv(k)
  <1>1. PICK k \in NONE .. cursor : /\ \A s \in 0 .. k : IsPublished(s)
                                    /\ ConsumerInv(k)
    BY DEF IInv, GaplessInv
  <1>2. cursor \in Int /\ cursor < I64Max /\ I64Max \in Nat
    BY CursorBound, ConsumersAssumption
  <1>3. k \in Int /\ NONE <= k /\ k <= cursor /\ k <= I64Max
    BY <1>1, <1>2 DEF NONE
  <1>4. QED
    BY <1>1, <1>3

\* Every consumer's cursor is behind the claimed sequences and at most a lap.
LEMMA CursorFacts ==
  ASSUME TypeOK, IInv, NEW c \in Consumers
  PROVE  /\ consumer_cursor[c] \in Int /\ cursor \in Int
         /\ NONE <= consumer_cursor[c]
         /\ consumer_cursor[c] <= cursor
         /\ cursor <= consumer_cursor[c] + Size
  <1>1. PICK k \in Int : k <= cursor /\ ConsumerInv(k)
    BY Gapless
  <1>2. QED
    BY <1>1 DEF TypeOK, ConsumersTypeOK, ConsumerInv, CursorInv, IInv, ClearInv, NONE

\* Nothing before the first sequence is pending or abandoned.
LEMMA BeforeTheFirst ==
  ASSUME TypeOK, IInv, NEW s \in Int, s < 0
  PROVE  s <= cursor /\ IsPublished(s)
  <1>1. s <= cursor
    BY DEF TypeOK, IInv, BoundInv, NONE
  <1>2. s \notin abandoned
    BY DEF TypeOK
  <1>3. ASSUME NEW p \in Producers
        PROVE  s \notin Pending(p)
    BY BatchType DEF Pending
  <1>4. QED
    BY <1>1, <1>2, <1>3 DEF IsPublished

\* What some consumer has given back was published.
LEMMA GivenBack ==
  ASSUME TypeOK, IInv, NEW c \in Consumers, NEW s \in Int, s <= consumer_cursor[c]
  PROVE  IsPublished(s)
  <1>1. PICK k \in Int : (\A t \in 0 .. k : IsPublished(t)) /\ ConsumerInv(k)
    BY Gapless
  <1>2. s <= k
    BY <1>1 DEF ConsumerInv, CursorInv, TypeOK, ConsumersTypeOK
  <1>3. CASE s < 0
    BY <1>3, BeforeTheFirst
  <1>4. CASE s >= 0
    BY <1>1, <1>2, <1>4
  <1>5. QED
    BY <1>3, <1>4

\* A claimed sequence that is not published is ahead of every consumer, and
\* less than a lap behind the cursor.
LEMMA NotYetPublished ==
  ASSUME TypeOK, IInv, NEW s \in Int, s <= cursor, ~IsPublished(s)
  PROVE  /\ \A c \in Consumers : consumer_cursor[c] < s
         /\ cursor < s + Size
         /\ s \in cursor - Size + 1 .. cursor
  <1>1. ASSUME NEW c \in Consumers
        PROVE  consumer_cursor[c] < s
    BY GivenBack, CursorFacts
  <1>2. PICK c \in Consumers : TRUE
    BY SomeConsumer
  <1>3. cursor < s + Size
    BY <1>1, <1>2, CursorFacts, SizeAssumption
  <1>4. QED
    BY <1>1, <1>3, SizeAssumption DEF TypeOK

LEMMA PendingFacts ==
  ASSUME TypeOK, IInv, NEW p \in Producers, NEW s \in Pending(p)
  PROVE  /\ s \in Nat /\ s <= cursor /\ ~IsPublished(s)
         /\ Lower(p) <= s /\ s <= Upper(p)
         /\ ppc[p] = "write"
         /\ s \notin abandoned
         /\ \A q \in Producers \ {p} : s \notin Pending(q)
  <1>1. /\ ppc[p] = "write"
        /\ s \in unpublished[p] .. Upper(p)
    BY DEF Pending
  <1>2. /\ s \in Nat /\ s <= cursor
        /\ Lower(p) <= s /\ s <= Upper(p)
    BY <1>1, BatchType DEF IInv, ClaimInv, OwnBatch
  <1>3. ~IsPublished(s)
    BY DEF IsPublished
  <1>4. s \notin abandoned
    BY <1>1, <1>2, BatchType DEF IInv, ClaimInv, OwnBatch
  <1>5. ASSUME NEW q \in Producers \ {p}, s \in Pending(q)
        PROVE  FALSE
    <2>1. ppc[q] = "write" /\ s \in unpublished[q] .. Upper(q)
      BY <1>5 DEF Pending
    <2>2. Lower(q) <= s /\ s <= Upper(q)
      BY <2>1, BatchType DEF IInv, ClaimInv, OwnBatch
    <2>3. Upper(p) < Lower(q) \/ Upper(q) < Lower(p)
      BY <1>1, <2>1 DEF IInv, ClaimInv, OwnBatch
    <2>4. QED
      BY <1>2, <2>2, <2>3, BatchType
  <1>6. QED
    BY <1>1, <1>2, <1>3, <1>4, <1>5

\* The bits of sequences not claimed yet still say that the round before was
\* the last to be published, as far as a claim may reach.
LEMMA AheadNotAvailable ==
  ASSUME TypeOK, IInv, NEW s \in Int, cursor < s,
         \A c \in Consumers : s <= consumer_cursor[c] + Size
  PROVE  ~Available(s)
  <1>1. PICK c \in Consumers : TRUE
    BY SomeConsumer
  <1>2. /\ s - Size \in Int
        /\ s - Size <= consumer_cursor[c]
        /\ s - Size \in cursor - Size + 1 .. cursor
    BY <1>1, CursorFacts, SizeAssumption
  <1>3. IsPublished(s - Size)
    BY <1>2, GivenBack
  <1>4. Available(s - Size)
    BY <1>2, <1>3 DEF IInv, BitsInv
  <1>5. QED
    BY <1>4, BitOfOneRound DEF TypeOK

\* Two sequences of the last lap do not share a slot.
LEMMA SameLap ==
  ASSUME TypeOK, NEW s \in Int, NEW t \in Int, s # t,
         cursor < s + Size, s <= cursor, cursor < t + Size, t <= cursor
  PROVE  SlotOf(s) # SlotOf(t)
  <1>1. CASE s < t
    BY <1>1, DistinctSlots, SizeAssumption DEF TypeOK
  <1>2. CASE t < s
    BY <1>2, DistinctSlots, SizeAssumption DEF TypeOK
  <1>3. QED
    BY <1>1, <1>2

-----------------------------------------------------------------------------

LEMMA InitInv == Init => IInv
  <1> SUFFICES ASSUME Init PROVE IInv
    OBVIOUS
  <1>1. LifeInv
    <2>1. Alive = {FirstProducer}
      BY ProducersAssumption DEF Init, Alive
    <2>2. Cardinality({FirstProducer}) = 1
      BY FS_Singleton
    <2>3. QED
      BY <2>1, <2>2 DEF Init, InitConsumers, LifeInv, NONE
  <1>2. BoundInv
    <2>1. Undecided = {}
      BY DEF Init, Undecided
    <2>2. Cardinality({}) = 0
      BY FS_EmptySet
    <2>3. QED
      BY <2>1, <2>2, ProducersAssumption DEF Init, InitBarrier, BoundInv, NoRequest, NONE
  <1>3. ClaimInv
    BY DEF Init, ClaimInv
  <1>4. ClearInv
    BY SizeAssumption DEF Init, InitConsumers, InitBarrier, ClearInv, NONE
  <1>5. \A s \in Int : IsPublished(s) <=> s <= NONE
    BY DEF Init, InitBarrier, IsPublished, Pending
  <1>6. BitsInv
    <2>1. ASSUME NEW s \in NONE - Size + 1 .. NONE
          PROVE  Available(s)
      <3>1. s \in Int /\ -Size <= s /\ s < 0 /\ SlotOf(s) \in Slots
        BY SlotOfInSlots, SizeAssumption DEF NONE
      <3>2. s \div Size = -1
        <4> DEFINE q == s \div Size
        <4>1. q \in Int /\ s = Size * q + SlotOf(s)
          BY <3>1, LapAndSlot
        <4>2. SlotOf(s) \in Int /\ 0 <= SlotOf(s) /\ SlotOf(s) < Size /\ Size \in Nat \ {0}
          BY <3>1, SizeAssumption DEF Slots
        <4> HIDE DEF q
        <4>3. Size * q < 0 /\ Size * q > -(2 * Size)
          BY <3>1, <4>1, <4>2
        <4>4. ~(q >= 0)
          BY <4>1, <4>2, <4>3
        <4>5. ~(q <= -2)
          BY <4>1, <4>2, <4>3
        <4>6. QED
          BY <4>1, <4>4, <4>5 DEF q
      <3>3. Parity(s) = 1
        BY <3>2 DEF Parity
      <3>4. QED
        BY <3>1, <3>3 DEF Available, Init, InitBarrier
    <2>2. \A c \in Consumers : scanned[c] = 0 /\ consumer_sequence[c] = 0
      BY DEF Init, InitConsumers
    <2>3. cursor = NONE
      BY DEF Init, InitBarrier
    <2>4. QED
      BY <1>5, <2>1, <2>2, <2>3, SizeAssumption DEF BitsInv, NONE
  <1>7. GaplessInv
    BY <1>5, InitConsumerInv DEF Init, InitBarrier, GaplessInv, NONE
  <1>8. SlotInv
    BY DEF Init, InitSlots, InitBarrier, SlotInv, NONE
  <1>9. QED
    BY <1>1, <1>2, <1>3, <1>4, <1>6, <1>7, <1>8 DEF IInv

-----------------------------------------------------------------------------

(***************************************************************************)
(* Steps that neither claim, write nor publish.                            *)
(***************************************************************************)

\* A step of a producer after which the same batches are in progress.
LEMMA QuietStep ==
  ASSUME TypeOK, IInv,
         UNCHANGED <<slots, consumerVars, scanned, barrierVars, claimed_sequence,
                     updateVars, abandoned>>,
         \A p \in Producers : /\ ppc'[p] = "write" <=> ppc[p] = "write"
                              /\ ppc[p] = "write" => request'[p] = request[p]
  PROVE  /\ \A s : IsPublished(s)' <=> IsPublished(s)
         /\ ClaimInv' /\ BitsInv' /\ SlotInv'
         /\ UNCHANGED shutdown_at_sequence => GaplessInv'
  <1> USE DEF consumerVars, barrierVars, updateVars
  <1>1. \A p \in Producers : ppc[p] = "write" => Upper(p)' = Upper(p) /\ Lower(p)' = Lower(p)
    BY DEF Upper, Lower
  <1>2. \A p \in Producers : Pending(p)' = Pending(p)
    BY <1>1 DEF Pending
  <1>3. ASSUME NEW s
        PROVE  IsPublished(s)' <=> IsPublished(s)
    BY <1>2 DEF IsPublished
  <1>4. ClaimInv'
    BY <1>1 DEF IInv, ClaimInv, OwnBatch
  <1>5. BitsInv'
    <2>1. \A s \in cursor - Size + 1 .. cursor : Available(s)' <=> Available(s)
      BY DEF Available
    <2>2. QED
      BY <1>3, <2>1 DEF IInv, BitsInv
  <1>6. SlotInv'
    BY <1>3 DEF IInv, SlotInv
  <1>7. ASSUME UNCHANGED shutdown_at_sequence
        PROVE  GaplessInv'
    <2>1. PICK k \in NONE .. cursor : (\A s \in 0 .. k : IsPublished(s)) /\ ConsumerInv(k)
      BY DEF IInv, GaplessInv
    <2>2. ConsumerInv(k)'
      BY <1>7, <2>1
      DEF ConsumerInv, CursorInv, FoldInv, BatchInv, ExitInv
    <2>3. \A s \in 0 .. k : IsPublished(s)'
      BY <1>3, <2>1
    <2>4. QED
      BY <2>1, <2>2, <2>3 DEF GaplessInv
  <1>8. QED
    BY <1>3, <1>4, <1>5, <1>6, <1>7

\* The handles there are, and those whose call is undecided, stay the same.
LEMMA SameHandles ==
  ASSUME IInv,
         UNCHANGED <<cursor, counter, claims, shutdown_at_sequence>>,
         Alive' = Alive, Undecided' = Undecided,
         \A p \in Producers : request'[p].n <= MaxBatch
  PROVE  LifeInv' /\ BoundInv'
  BY DEF IInv, LifeInv, BoundInv

LEMMA CallInv ==
  ASSUME TypeOK, IInv, NEW p \in Producers, NEW n \in 0 .. MaxBatch,
         NEW blocking \in BOOLEAN, Call(p, n, blocking)
  PROVE  IInv'
  <1>1. /\ ppc[p] = "idle"
        /\ ppc' = [ppc EXCEPT ![p] = "start"]
        /\ request' = [request EXCEPT ![p] = [n |-> n, blocking |-> blocking]]
        /\ claims + Cardinality(Undecided) < MaxCalls
        /\ ppc \in [Producers -> {"unborn", "idle", "start", "claim", "cas", "write",
                                  "join", "gone", "failed"}]
        /\ request \in [Producers -> [n : Nat, blocking : BOOLEAN]]
        /\ UNCHANGED <<slots, consumerVars, shutdown_at_sequence, scanned, barrierVars,
                       claimed_sequence, sequence_clear_of_consumers, claimVars, updateVars,
                       lifeVars, historyVars>>
    BY DEF Call, TypeOK
  <1>2. ClaimInv' /\ BitsInv' /\ SlotInv' /\ GaplessInv'
    BY <1>1, QuietStep DEF historyVars
  <1>3. LifeInv'
    <2>1. Alive' = Alive
      BY <1>1 DEF Alive
    <2>2. QED
      BY <1>1, <2>1 DEF IInv, LifeInv, barrierVars, lifeVars
  <1>4. BoundInv'
    <2>1. p \in Producers \ Undecided /\ Undecided \in SUBSET Producers
      BY <1>1 DEF Undecided
    <2>2. Undecided' = Undecided \cup {p}
      BY <1>1 DEF Undecided
    <2>3. claims \in Nat /\ MaxCalls \in Nat /\ Cardinality(Undecided) \in Nat
      BY <2>1, FiniteSubsets, ProducersAssumption DEF TypeOK
    <2>4. claims + Cardinality(Undecided') <= MaxCalls
      BY <1>1, <2>1, <2>2, <2>3, OneMore
    <2>5. \A q \in Producers : request'[q].n <= MaxBatch
      BY <1>1, ProducersAssumption DEF IInv, BoundInv
    <2>6. QED
      BY <1>1, <2>4, <2>5 DEF IInv, BoundInv, barrierVars, historyVars
  <1>5. ClearInv'
    BY <1>1 DEF IInv, ClearInv, consumerVars, barrierVars, claimVars
  <1>6. QED
    BY <1>2, <1>3, <1>4, <1>5 DEF IInv

\* A round of the loop begins, for the first time or after a lost exchange.
LEMMA AttemptInv ==
  ASSUME TypeOK, IInv, NEW p \in Producers, ppc[p] \in {"start", "cas"},
         NEW seen \in Int, Attempt(p, seen),
         UNCHANGED <<slots, consumerVars, shutdown_at_sequence, scanned, barrierVars,
                     claimed_sequence, sequence_clear_of_consumers, request, rear_unread,
                     rear_lowest, updateVars, lifeVars, historyVars>>
  PROVE  TypeOK' /\ IInv'
  <1>1. /\ \/ ppc' = [ppc EXCEPT ![p] = "claim"]
           \/ /\ ppc' = [ppc EXCEPT ![p] = "cas"]
              /\ seen + request[p].n <= sequence_clear_of_consumers[p]
        /\ current' = [current EXCEPT ![p] = seen]
        /\ ppc \in [Producers -> {"unborn", "idle", "start", "claim", "cas", "write",
                                  "join", "gone", "failed"}]
    <2>1. seen + request[p].n \in Int /\ sequence_clear_of_consumers[p] \in Int
      BY DEF TypeOK
    <2>2. CASE sequence_clear_of_consumers[p] < seen + request[p].n
      BY <2>1, <2>2 DEF Attempt, TypeOK
    <2>3. CASE ~(sequence_clear_of_consumers[p] < seen + request[p].n)
      <3>1. seen + request[p].n <= sequence_clear_of_consumers[p]
        BY <2>1, <2>3
      <3>2. QED
        BY <2>3, <3>1 DEF Attempt, TypeOK
    <2>4. QED
      BY <2>2, <2>3
  <1>2. ClaimInv' /\ BitsInv' /\ SlotInv' /\ GaplessInv'
    BY <1>1, QuietStep DEF historyVars
  <1>3. Alive' = Alive /\ Undecided' = Undecided
    BY <1>1 DEF Alive, Undecided
  <1>4. LifeInv' /\ BoundInv'
    BY <1>3, SameHandles DEF barrierVars, lifeVars, historyVars, IInv, BoundInv
  <1>5. ClearInv'
    BY <1>1 DEF TypeOK, IInv, ClearInv, consumerVars, barrierVars
  <1>6. TypeOK'
    BY <1>1 DEF TypeOK, SlotsTypeOK, ConsumersTypeOK, consumerVars, barrierVars, updateVars,
                lifeVars, historyVars
  <1>7. QED
    BY <1>2, <1>4, <1>5, <1>6 DEF IInv

\* A cursor every gating consumer has passed has been passed by every consumer.
LEMMA RearBehindAll ==
  ASSUME TypeOK, IInv, NEW rear \in Int,
         \A d \in LastStage : rear <= consumer_cursor[d]
  PROVE  \A c \in Consumers : rear <= consumer_cursor[c]
  <1> TAKE c \in Consumers
  <1>1. PICK d \in LastStage : c \in LastStage \/ c \in Before(d)
    BY LastStageFacts
  <1>2. d \in Consumers
    BY LastStageFacts
  <1>3. PICK k \in Int : ConsumerInv(k)
    BY Gapless
  <1>4. c \in Before(d) => consumer_cursor[d] <= consumer_cursor[c]
    BY <1>2, <1>3 DEF ConsumerInv, CursorInv
  <1>5. QED
    BY <1>1, <1>2, <1>4 DEF TypeOK, ConsumersTypeOK

\* The decision on the slow path.
LEMMA ClaimAgainstInv ==
  ASSUME TypeOK, IInv, NEW p \in Producers, ppc[p] = "claim", NEW rear \in Int,
         ClaimAgainst(p, rear),
         \A d \in LastStage : rear <= consumer_cursor[d],
         UNCHANGED <<slots, consumerVars, shutdown_at_sequence, scanned, barrierVars,
                     claimed_sequence, updateVars, lifeVars, historyVars>>
  PROVE  IInv'
  <1>1. /\ ppc \in [Producers -> {"unborn", "idle", "start", "claim", "cas", "write",
                                  "join", "gone", "failed"}]
        /\ request \in [Producers -> [n : Nat, blocking : BOOLEAN]]
        /\ current \in [Producers -> Int]
        /\ rear_unread' = [rear_unread EXCEPT ![p] = LastStage]
        /\ rear_unread \in [Producers -> SUBSET LastStage]
    BY DEF TypeOK, ClaimAgainst
  <1>2. \A c \in Consumers : rear <= consumer_cursor[c] /\ consumer_cursor[c] \in Int
    BY RearBehindAll, CursorFacts
  <1>3. UNCHANGED <<cursor, counter, claims, abandoned, consumer_cursor>>
    BY DEF barrierVars, lifeVars, historyVars, consumerVars
  <1>4. rear_lowest' = [rear_lowest EXCEPT ![p] = I64Max]
    BY DEF ClaimAgainst
  <1>5. \A q \in Producers : \A c \in LastStage \ rear_unread'[q] :
          rear_lowest'[q] <= consumer_cursor[c]
    BY <1>1, <1>4 DEF TypeOK, IInv, ClearInv
  <1>6. CASE FreeSlots(current[p], rear) < request[p].n
    <2>1. /\ current' = [current EXCEPT ![p] = NONE]
          /\ UNCHANGED sequence_clear_of_consumers
          /\ \/ ppc' = [ppc EXCEPT ![p] = "start"] /\ UNCHANGED request
             \/ /\ ppc' = [ppc EXCEPT ![p] = "idle"]
                /\ request' = [request EXCEPT ![p] = NoRequest]
      BY <1>1, <1>6, SizeAssumption DEF ClaimAgainst, Return, FreeSlots, WrapPoint
    <2>2. ClaimInv' /\ BitsInv' /\ SlotInv' /\ GaplessInv'
      <3>1. \A q \in Producers : /\ ppc'[q] = "write" <=> ppc[q] = "write"
                                 /\ ppc[q] = "write" => request'[q] = request[q]
        BY <1>1, <2>1
      <3>2. /\ UNCHANGED <<slots, consumerVars, scanned, barrierVars, claimed_sequence,
                           updateVars, abandoned>>
            /\ UNCHANGED shutdown_at_sequence
        BY <1>3
      <3>3. QED
        BY <3>1, <3>2, QuietStep
    <2>3. LifeInv'
      <3>1. Alive' = Alive
        BY <1>1, <2>1 DEF Alive
      <3>2. QED
        BY <1>3, <3>1 DEF IInv, LifeInv
    <2>4. BoundInv'
      <3>1. p \in Undecided /\ Undecided \in SUBSET Producers
        BY DEF Undecided
      <3>2. Undecided' = Undecided \/ Undecided' = Undecided \ {p}
        BY <1>1, <2>1 DEF Undecided
      <3>3. claims \in Nat /\ MaxCalls \in Nat /\ Cardinality(Undecided) \in Nat
        BY <3>1, FiniteSubsets, ProducersAssumption DEF TypeOK
      <3>4. claims + Cardinality(Undecided') <= MaxCalls
        BY <3>1, <3>2, <3>3, LastOne DEF IInv, BoundInv
      <3>5. \A q \in Producers : request'[q].n <= MaxBatch
        BY <1>1, <2>1, ProducersAssumption DEF IInv, BoundInv, NoRequest
      <3>6. QED
        BY <1>3, <3>4, <3>5 DEF IInv, BoundInv
    <2>5. ClearInv'
      BY <1>1, <1>3, <1>5, <2>1 DEF IInv, ClearInv
    <2>6. QED
      BY <2>2, <2>3, <2>4, <2>5 DEF IInv
  <1>7. CASE ~(FreeSlots(current[p], rear) < request[p].n)
    <2>1. /\ UNCHANGED <<current, request>>
          /\ ppc' = [ppc EXCEPT ![p] = "cas"]
          /\ sequence_clear_of_consumers' =
               [sequence_clear_of_consumers EXCEPT ![p] = rear + Size]
          /\ current[p] + request[p].n <= rear + Size
          /\ sequence_clear_of_consumers \in [Producers -> Int]
      BY <1>1, <1>7, SizeAssumption DEF ClaimAgainst, FreeSlots, WrapPoint, TypeOK
    <2>2. ClaimInv' /\ BitsInv' /\ SlotInv' /\ GaplessInv'
      BY <1>1, <1>3, <2>1, QuietStep
    <2>3. Alive' = Alive /\ Undecided' = Undecided
      BY <1>1, <2>1 DEF Alive, Undecided
    <2>4. LifeInv' /\ BoundInv'
      BY <1>3, <2>1, <2>3, SameHandles DEF IInv, BoundInv
    <2>5. ClearInv'
      <3>1. \A c \in Consumers : rear + Size <= consumer_cursor[c] + Size
        BY <1>2, SizeAssumption
      <3>2. QED
        BY <1>1, <1>3, <1>5, <2>1, <3>1 DEF IInv, ClearInv
    <2>6. QED
      BY <2>2, <2>4, <2>5 DEF IInv
  <1>8. QED
    BY <1>6, <1>7

\* One load of the fold over the gating cursors, which may return any value its
\* consumer has passed.
LEMMA RearStepInv ==
  ASSUME TypeOK, IInv, NEW p \in Producers, ppc[p] = "claim", NEW c \in rear_unread[p],
         NEW value \in Int, value <= consumer_cursor[c],
         RearStep(p, c, MinOf(value, rear_lowest[p]))
  PROVE  TypeOK' /\ IInv'
  <1>1. PICK minimum \in Int : minimum = MinOf(value, rear_lowest[p])
    BY DEF TypeOK, MinOf
  <1> SUFFICES IInv'
    BY <1>1, RearStepType
  <1>2. UNCHANGED <<slots, consumerVars, shutdown_at_sequence, scanned, barrierVars,
                    claimed_sequence, updateVars, lifeVars, historyVars>>
    BY DEF RearStep
  <1>3. c \in Consumers
    BY LastStageFacts DEF TypeOK
  <1>4. /\ minimum \in Int
        /\ minimum <= consumer_cursor[c]
        /\ minimum <= rear_lowest[p]
    BY <1>1, <1>3 DEF TypeOK, ConsumersTypeOK, MinOf
  <1>5. \A d \in LastStage \ (rear_unread[p] \ {c}) : minimum <= consumer_cursor[d]
    <2>1. TAKE d \in LastStage \ (rear_unread[p] \ {c})
    <2>2. d \in Consumers /\ consumer_cursor[d] \in Int /\ rear_lowest[p] \in Int
      BY LastStageFacts DEF TypeOK, ConsumersTypeOK
    <2>3. d # c => rear_lowest[p] <= consumer_cursor[d]
      BY DEF IInv, ClearInv
    <2>4. QED
      BY <1>4, <2>2, <2>3
  <1>6. CASE rear_unread[p] = {c} /\ ClaimAgainst(p, minimum)
    <2>1. \A d \in LastStage : minimum <= consumer_cursor[d]
      BY <1>5, <1>6
    <2>2. QED
      BY <1>2, <1>4, <1>6, <2>1, ClaimAgainstInv
  <1>7. CASE /\ rear_unread' = [rear_unread EXCEPT ![p] = @ \ {c}]
             /\ rear_lowest' = [rear_lowest EXCEPT ![p] = minimum]
             /\ UNCHANGED <<ppc, request, current, sequence_clear_of_consumers>>
    <2>1. ClaimInv' /\ BitsInv' /\ SlotInv' /\ GaplessInv'
      BY <1>2, <1>7, QuietStep DEF historyVars
    <2>2. LifeInv' /\ BoundInv'
      <3>1. Alive' = Alive /\ Undecided' = Undecided
        BY <1>7 DEF Alive, Undecided
      <3>2. QED
        BY <1>2, <1>7, <3>1, SameHandles
        DEF barrierVars, lifeVars, historyVars, IInv, BoundInv
    <2>3. ClearInv'
      <3>1. rear_unread' = [rear_unread EXCEPT ![p] = rear_unread[p] \ {c}]
        BY <1>7
      <3>2. \A q \in Producers : \A d \in LastStage \ rear_unread'[q] :
              rear_lowest'[q] <= consumer_cursor[d]
        <4>1. TAKE q \in Producers
        <4>2. CASE q = p
          BY <1>5, <1>7, <3>1, <4>2 DEF TypeOK
        <4>3. CASE q # p
          BY <1>7, <3>1, <4>3 DEF TypeOK, IInv, ClearInv
        <4>4. QED
          BY <4>2, <4>3
      <3>3. QED
        BY <1>2, <1>7, <3>2 DEF IInv, ClearInv, consumerVars, barrierVars
    <2>4. QED
      BY <2>1, <2>2, <2>3 DEF IInv
  <1>8. QED
    BY <1>1, <1>6, <1>7 DEF RearStep

LEMMA LoadRearInv ==
  ASSUME TypeOK, IInv, NEW p \in Producers, LoadRear(p)
  PROVE  IInv'
  <1>1. PICK c \in rear_unread[p] :
          RearStep(p, c, MinOf(consumer_cursor[c], rear_lowest[p]))
    BY DEF LoadRear, RearStep
  <1>2. c \in Consumers
    BY LastStageFacts DEF TypeOK
  <1>3. consumer_cursor[c] \in Int /\ ppc[p] = "claim"
    BY <1>2 DEF TypeOK, ConsumersTypeOK, LoadRear
  <1>4. consumer_cursor[c] <= consumer_cursor[c]
    BY <1>3
  <1>5. QED
    BY <1>1, <1>3, <1>4, RearStepInv

LEMMA CloneInv ==
  ASSUME TypeOK, IInv, NEW p \in Producers, NEW q \in Producers, Clone(p, q)
  PROVE  IInv'
  <1>1. /\ ppc[p] = "idle" /\ ppc[q] = "unborn"
        /\ ppc' = [ppc EXCEPT ![q] = "idle"]
        /\ counter' = counter + 1
        /\ ppc \in [Producers -> {"unborn", "idle", "start", "claim", "cas", "write",
                                  "join", "gone", "failed"}]
        /\ UNCHANGED <<slots, consumerVars, shutdown_at_sequence, scanned, barrierVars,
                       claimed_sequence, sequence_clear_of_consumers, request, claimVars,
                       updateVars, joined, historyVars>>
    BY DEF Clone, TypeOK
  <1>2. ClaimInv' /\ BitsInv' /\ SlotInv' /\ GaplessInv'
    BY <1>1, QuietStep DEF historyVars
  <1>3. LifeInv'
    <2>1. Alive \in SUBSET Producers /\ p \in Alive /\ q \in Producers \ Alive
      BY <1>1 DEF Alive
    <2>2. Alive' = Alive \cup {q}
      BY <1>1 DEF Alive
    <2>3. Cardinality(Alive') = Cardinality(Alive) + 1
      BY <2>1, <2>2, OneMore
    <2>4. shutdown_at_sequence' = NONE
      BY <1>1, <2>1 DEF IInv, LifeInv
    <2>5. QED
      BY <1>1, <2>3, <2>4 DEF IInv, LifeInv
  <1>4. BoundInv'
    <2>1. Undecided' = Undecided
      BY <1>1 DEF Undecided
    <2>2. QED
      BY <1>1, <2>1 DEF IInv, BoundInv, barrierVars, historyVars
  <1>5. ClearInv'
    BY <1>1 DEF IInv, ClearInv, consumerVars, barrierVars, claimVars
  <1>6. QED
    BY <1>2, <1>3, <1>4, <1>5 DEF IInv

LEMMA DropInv ==
  ASSUME TypeOK, IInv, NEW p \in Producers, Drop(p)
  PROVE  /\ IInv'
         /\ shutdown_at_sequence = NONE
  <1>1. /\ ppc[p] = "idle"
        /\ \/ ppc' = [ppc EXCEPT ![p] = "join"]
           \/ ppc' = [ppc EXCEPT ![p] = "gone"]
        /\ counter' = counter - 1
        /\ counter = 1 => shutdown_at_sequence' = cursor + 1
        /\ counter # 1 => UNCHANGED shutdown_at_sequence
        /\ ppc \in [Producers -> {"unborn", "idle", "start", "claim", "cas", "write",
                                  "join", "gone", "failed"}]
        /\ UNCHANGED <<slots, consumerVars, scanned, barrierVars, claimed_sequence,
                       sequence_clear_of_consumers, request, claimVars, updateVars, joined,
                       historyVars>>
    BY DEF Drop, TypeOK
  <1>2. Alive \in SUBSET Producers /\ p \in Alive
    BY <1>1 DEF Alive
  <1>3. Alive' = Alive \ {p}
    BY <1>1 DEF Alive
  <1>4. shutdown_at_sequence = NONE
    BY <1>2 DEF IInv, LifeInv
  <1>5. ClaimInv' /\ BitsInv' /\ SlotInv'
    <2>1. UNCHANGED <<slots, consumerVars, scanned, barrierVars, claimed_sequence,
                      updateVars, abandoned>>
      BY <1>1 DEF historyVars
    <2>2. \A q \in Producers : /\ ppc'[q] = "write" <=> ppc[q] = "write"
                               /\ ppc[q] = "write" => request'[q] = request[q]
      BY <1>1
    <2>3. QED
      BY <2>1, <2>2, QuietStep
  <1>6. LifeInv'
    <2>1. Cardinality(Alive') = counter'
      BY <1>1, <1>2, <1>3, LastOne DEF IInv, LifeInv
    <2>2. CASE counter = 1
      <3>1. Alive' = {}
        BY <1>2, <1>3, <2>2, LastOne DEF IInv, LifeInv
      <3>2. QED
        BY <1>1, <2>1, <2>2, <3>1 DEF LifeInv, barrierVars
    <2>3. CASE counter # 1
      BY <1>1, <1>4, <2>1, <2>3 DEF LifeInv
    <2>4. QED
      BY <2>2, <2>3
  <1>7. BoundInv'
    <2>1. Undecided' = Undecided
      BY <1>1 DEF Undecided
    <2>2. QED
      BY <1>1, <2>1 DEF IInv, BoundInv, barrierVars, historyVars
  <1>8. ClearInv'
    BY <1>1 DEF IInv, ClearInv, consumerVars, barrierVars, claimVars
  <1>9. GaplessInv'
    <2>1. PICK k \in NONE .. cursor : (\A s \in 0 .. k : IsPublished(s)) /\ ConsumerInv(k)
      BY DEF IInv, GaplessInv
    <2>2. \A s \in 0 .. k : IsPublished(s)'
      <3>1. \A q \in Producers : Pending(q)' = Pending(q)
        BY <1>1 DEF Pending, Upper, updateVars
      <3>2. QED
        BY <1>1, <2>1, <3>1 DEF IsPublished, barrierVars, historyVars
    <2>3. \A c \in Consumers : cpc[c] # "exited"
      BY <1>4, <2>1 DEF TypeOK, ConsumersTypeOK, ConsumerInv, CursorInv, BatchInv, ExitInv, NONE
    <2>4. ConsumerInv(k)'
      BY <1>1, <2>1, <2>3
      DEF consumerVars, ConsumerInv, CursorInv, FoldInv, BatchInv, ExitInv
    <2>5. QED
      BY <1>1, <2>1, <2>2, <2>4 DEF GaplessInv, barrierVars
  <1>10. QED
    BY <1>4, <1>5, <1>6, <1>7, <1>8, <1>9 DEF IInv

\* Joining threads concerns nobody, and stuttering even less.
LEMMA JoinInv ==
  ASSUME TypeOK, IInv,
         UNCHANGED <<slots, consumerVars, shutdown_at_sequence, scanned, barrierVars,
                     claimed_sequence, sequence_clear_of_consumers, request, claimVars,
                     updateVars, counter, historyVars>>,
         \/ UNCHANGED ppc
         \/ \E p \in Producers : /\ ppc[p] = "join"
                                 /\ ppc' \in {[ppc EXCEPT ![p] = "gone"],
                                              [ppc EXCEPT ![p] = "failed"]}
  PROVE  IInv'
  <1>1. \A q \in Producers :
          /\ \/ ppc'[q] = ppc[q]
             \/ ppc[q] = "join" /\ ppc'[q] \in {"gone", "failed"}
          /\ request'[q] = request[q]
    <2>1. CASE UNCHANGED ppc
      BY <2>1
    <2>2. CASE ~UNCHANGED ppc
      <3>1. PICK p \in Producers : /\ ppc[p] = "join"
                                   /\ \/ ppc' = [ppc EXCEPT ![p] = "gone"]
                                      \/ ppc' = [ppc EXCEPT ![p] = "failed"]
        BY <2>2
      <3>2. QED
        BY <3>1 DEF TypeOK
    <2>3. QED
      BY <2>1, <2>2
  <1>2. ClaimInv' /\ BitsInv' /\ SlotInv' /\ GaplessInv'
    <2>1. UNCHANGED <<slots, consumerVars, scanned, barrierVars, claimed_sequence,
                      updateVars, abandoned>>
      BY DEF historyVars
    <2>2. \A q \in Producers : /\ ppc'[q] = "write" <=> ppc[q] = "write"
                               /\ ppc[q] = "write" => request'[q] = request[q]
      BY <1>1
    <2>3. QED
      BY <2>1, <2>2, QuietStep
  <1>3. LifeInv' /\ BoundInv'
    <2>1. Alive' = Alive /\ Undecided' = Undecided
      BY <1>1 DEF Alive, Undecided
    <2>2. QED
      BY <2>1, SameHandles DEF barrierVars, historyVars, IInv, BoundInv
  <1>4. ClearInv'
    BY <1>1 DEF IInv, ClearInv, consumerVars, barrierVars, claimVars
  <1>5. QED
    BY <1>2, <1>3, <1>4 DEF IInv

-----------------------------------------------------------------------------

(***************************************************************************)
(* Claiming, writing, publishing, panicking.                               *)
(***************************************************************************)

\* A consumer's invariant survives a step that leaves consumers alone.
LEMMA ConsumersUntouched ==
  ASSUME NEW k \in Int, ConsumerInv(k), UNCHANGED <<consumerVars, shutdown_at_sequence>>
  PROVE  ConsumerInv(k)'
  BY DEF consumerVars, ConsumerInv, CursorInv, FoldInv, BatchInv, ExitInv

\* Gaps only close, unless new ones open beyond the cursor.
LEMMA GaplessKept ==
  ASSUME TypeOK, IInv, cursor' \in Int, cursor <= cursor',
         \A s \in Int : IsPublished(s) => IsPublished(s)',
         UNCHANGED <<consumerVars, shutdown_at_sequence>>
  PROVE  GaplessInv'
  <1>1. PICK k \in Int : /\ NONE <= k /\ k <= cursor
                         /\ \A s \in 0 .. k : IsPublished(s)
                         /\ ConsumerInv(k)
    BY Gapless
  <1>2. ConsumerInv(k)'
    BY <1>1, ConsumersUntouched
  <1>3. k \in NONE .. cursor'
    BY <1>1 DEF TypeOK, NONE
  <1>4. \A s \in 0 .. k : IsPublished(s)'
    BY <1>1
  <1>5. QED
    BY <1>2, <1>3, <1>4 DEF GaplessInv

LEMMA ClaimSucceedsInv ==
  ASSUME TypeOK, IInv, NEW p \in Producers, ClaimSucceeds(p)
  PROVE  IInv' /\ \A s \in Int : IsPublished(s)' <=> IsPublished(s)
  <1>1. PICK n \in Nat : n = request[p].n
    BY DEF TypeOK
  <1>2. /\ ppc[p] = "cas"
        /\ cursor \in Int /\ cursor' = cursor + n
        /\ claimed_sequence' = [claimed_sequence EXCEPT ![p] = cursor + n]
        /\ position' = [position EXCEPT ![p] = cursor + 1]
        /\ unpublished' = [unpublished EXCEPT ![p] = cursor + 1]
        /\ ppc' = [ppc EXCEPT ![p] = "write"]
        /\ claims' = claims + 1
        /\ cursor + n <= sequence_clear_of_consumers[p]
        /\ UNCHANGED <<slots, consumerVars, shutdown_at_sequence, scanned, bits, request,
                       sequence_clear_of_consumers, rear_unread, rear_lowest, lifeVars,
                       abandoned>>
    BY <1>1 DEF ClaimSucceeds, NobodyClaimed, TypeOK, IInv, ClearInv
  <1>3. \A q \in Producers : q # p => /\ Upper(q)' = Upper(q) /\ Lower(q)' = Lower(q)
                                      /\ ppc'[q] = ppc[q]
                                      /\ position'[q] = position[q]
                                      /\ unpublished'[q] = unpublished[q]
                                      /\ current'[q] = current[q]
    BY <1>2 DEF TypeOK, Upper, Lower, ClaimSucceeds
  <1>4. /\ Upper(p)' = cursor + n /\ Lower(p)' = cursor + 1
        /\ ppc'[p] = "write"
        /\ position'[p] = cursor + 1 /\ unpublished'[p] = cursor + 1
    BY <1>1, <1>2 DEF TypeOK, Upper, Lower
  <1>5. ASSUME NEW s \in Int
        PROVE  IsPublished(s)' <=> IsPublished(s)
    <2>1. \A q \in Producers : q # p => Pending(q)' = Pending(q)
      BY <1>3 DEF Pending
    <2>2. Pending(p) = {} /\ Pending(p)' = cursor + 1 .. cursor + n
      BY <1>2, <1>4 DEF Pending
    <2>3. QED
      BY <1>2, <2>1, <2>2 DEF IsPublished
  <1>6. LifeInv'
    <2>1. Alive' = Alive /\ p \in Alive
      BY <1>2 DEF Alive, TypeOK
    <2>2. shutdown_at_sequence = NONE
      BY <2>1 DEF IInv, LifeInv
    <2>3. QED
      BY <1>2, <2>1, <2>2 DEF IInv, LifeInv, lifeVars
  <1>7. BoundInv'
    <2>1. p \in Undecided /\ Undecided \in SUBSET Producers /\ Undecided' = Undecided \ {p}
      BY <1>2 DEF Undecided, TypeOK
    <2>2. claims \in Nat /\ MaxCalls \in Nat /\ MaxBatch \in Nat /\ Cardinality(Undecided) \in Nat
      BY <2>1, FiniteSubsets, ProducersAssumption DEF TypeOK
    <2>3. claims' + Cardinality(Undecided') <= MaxCalls
      BY <1>2, <2>1, <2>2, LastOne DEF IInv, BoundInv
    <2>4. cursor' + 1 <= claims' * MaxBatch
      <3>1. n <= MaxBatch /\ cursor + 1 <= claims * MaxBatch
        BY <1>1 DEF IInv, BoundInv
      <3>2. (claims + 1) * MaxBatch = claims * MaxBatch + MaxBatch
        BY <2>2
      <3>3. claims * MaxBatch \in Nat
        BY <2>2
      <3>4. QED
        BY <1>2, <2>2, <3>1, <3>2, <3>3
    <2>5. NONE <= cursor'
      BY <1>2 DEF IInv, BoundInv, NONE
    <2>6. QED
      BY <1>2, <2>3, <2>4, <2>5 DEF IInv, BoundInv
  <1>8. ClaimInv'
    <2>1. \A s \in abandoned : s <= cursor'
      BY <1>2 DEF TypeOK, IInv, ClaimInv
    <2>2. \A q \in Producers : q # p /\ ppc[q] = "write" =>
            /\ Upper(q) \in Int /\ Lower(q) \in Int
            /\ Upper(q) <= cursor
      BY BatchType DEF IInv, ClaimInv, OwnBatch
    <2>3. ASSUME NEW q \in Producers, ppc'[q] = "write"
          PROVE  OwnBatch(q)'
      <3>1. CASE q = p
        <4>1. 0 <= cursor + 1
          BY <1>2 DEF IInv, BoundInv, NONE
        <4>2. \A s \in cursor + 1 .. cursor + n : s \notin abandoned
          BY <1>2 DEF TypeOK, IInv, ClaimInv
        <4>3. \A r \in Producers \ {p} : ppc'[r] = "write" =>
                Upper(r)' < cursor + 1
          BY <1>2, <1>3, <2>2
        <4>4. QED
          BY <1>2, <1>4, <3>1, <4>1, <4>2, <4>3 DEF OwnBatch
      <3>2. CASE q # p
        <4>1. ppc[q] = "write"
          BY <1>3, <2>3, <3>2
        <4>2. OwnBatch(q)
          BY <4>1 DEF IInv, ClaimInv
        <4>3. /\ 0 <= Lower(q)' /\ Upper(q)' <= cursor'
              /\ Lower(q)' <= unpublished'[q] /\ unpublished'[q] <= Upper(q)' + 1
              /\ Lower(q)' <= position'[q] /\ position'[q] <= Upper(q)' + 1
              /\ position'[q] <= Upper(q)' => unpublished'[q] = Lower(q)'
              /\ \A s \in Lower(q)' .. Upper(q)' : s \notin abandoned'
          BY <1>2, <1>3, <2>2, <3>2, <4>1, <4>2 DEF OwnBatch
        <4>4. \A r \in Producers \ {q} : ppc'[r] = "write" =>
                Upper(q)' < Lower(r)' \/ Upper(r)' < Lower(q)'
          BY <1>2, <1>3, <1>4, <2>2, <3>2, <4>1, <4>2 DEF OwnBatch
        <4>5. QED
          BY <4>3, <4>4 DEF OwnBatch
      <3>3. QED
        BY <3>1, <3>2
    <2>4. QED
      BY <1>2, <2>1, <2>3 DEF ClaimInv
  <1>9. ClearInv'
    <2>1. \A c \in Consumers : cursor' <= consumer_cursor[c] + Size
      <3>1. TAKE c \in Consumers
      <3>2. sequence_clear_of_consumers[p] <= consumer_cursor[c] + Size
        BY DEF IInv, ClearInv
      <3>3. QED
        BY <1>2, <3>2, CursorFacts, SizeAssumption DEF TypeOK
    <2>2. \A q \in Producers : ppc'[q] = "cas" => ppc[q] = "cas" /\ q # p
      BY <1>3, <1>4
    <2>3. QED
      BY <1>2, <1>3, <2>1, <2>2 DEF IInv, ClearInv, consumerVars
  <1>10. BitsInv'
    <2>1. ASSUME NEW s \in cursor' - Size + 1 .. cursor'
          PROVE  Available(s)' <=> IsPublished(s)'
      <3>1. Available(s)' <=> Available(s)
        <4>1. bits' = bits
          BY <1>2
        <4>2. QED
          BY <4>1 DEF Available
      <3>2. CASE s <= cursor
        <4>1. s \in cursor - Size + 1 .. cursor
          BY <1>2, <3>2, SizeAssumption
        <4>2. QED
          BY <1>2, <1>5, <2>1, <3>1, <4>1, SizeAssumption DEF IInv, BitsInv
      <3>3. CASE cursor < s
        <4>1. s \in Int
          BY <1>2, SizeAssumption
        <4>2. \A c \in Consumers : s <= consumer_cursor[c] + Size
          <5>1. TAKE c \in Consumers
          <5>2. /\ sequence_clear_of_consumers[p] <= consumer_cursor[c] + Size
                /\ sequence_clear_of_consumers[p] \in Int
            BY DEF IInv, ClearInv, TypeOK
          <5>3. QED
            BY <1>2, <4>1, <5>2, CursorFacts, SizeAssumption
        <4>3. ~Available(s)
          BY <3>3, <4>1, <4>2, AheadNotAvailable
        <4>4. ~IsPublished(s)
          BY <1>2, <3>3, <4>1 DEF IsPublished
        <4>5. QED
          BY <1>5, <3>1, <4>1, <4>3, <4>4
      <3>4. QED
        BY <1>2, <3>2, <3>3, SizeAssumption
    <2>2. ASSUME NEW c \in Consumers
          PROVE  /\ scanned'[c] # 0 => cpc'[c] = "load" /\ WaitsForProducer(c)
                 /\ \A s \in consumer_sequence'[c] .. consumer_sequence'[c] + scanned'[c] - 1 :
                      IsPublished(s)'
      BY <1>2, <1>5 DEF IInv, BitsInv, consumerVars, TypeOK, ConsumersTypeOK
    <2>3. QED
      BY <2>1, <2>2 DEF BitsInv, WaitsForProducer
  <1>11. GaplessInv'
    BY <1>2, <1>5, GaplessKept
  <1>12. SlotInv'
    <2>1. ASSUME NEW s \in 0 .. cursor', cursor' < s + Size, IsPublished(s)'
          PROVE  slots[SlotOf(s)] = s
      <3>1. s \in Int /\ IsPublished(s)
        BY <1>2, <1>5, <2>1
      <3>2. s \in 0 .. cursor /\ cursor < s + Size
        BY <1>2, <2>1, <3>1, SizeAssumption DEF IsPublished
      <3>3. QED
        BY <3>1, <3>2 DEF IInv, SlotInv
    <2>2. ASSUME NEW q \in Producers, ppc'[q] = "write",
                 NEW s \in unpublished'[q] .. position'[q] - 1
          PROVE  slots[SlotOf(s)] = s
      BY <1>2, <1>3, <1>4, <2>2 DEF IInv, SlotInv
    <2>3. \A i \in Slots : slots[i] # NONE => SlotOf(slots[i]) = i /\ slots[i] <= cursor'
      BY <1>2 DEF TypeOK, SlotsTypeOK, IInv, SlotInv
    <2>4. QED
      BY <1>2, <2>1, <2>2, <2>3 DEF SlotInv
  <1>13. QED
    BY <1>5, <1>6, <1>7, <1>8, <1>9, <1>10, <1>11, <1>12 DEF IInv

\* The sequence an update is about to write is claimed by nobody else, less
\* than a lap behind the cursor, and ahead of every consumer.
LEMMA WritePosition ==
  ASSUME TypeOK, IInv, NEW p \in Producers, WriteEvent(p)
  PROVE  /\ position[p] \in Nat
         /\ position[p] <= cursor /\ cursor < position[p] + Size
         /\ ~IsPublished(position[p])
         /\ \A c \in Consumers : consumer_cursor[c] < position[p]
         /\ unpublished[p] = Lower(p)
         /\ \A q \in Producers \ {p} : position[p] \notin Pending(q)
         /\ position[p] \in Pending(p)
  <1>1. /\ ppc[p] = "write" /\ position[p] <= Upper(p)
        /\ unpublished[p] = Lower(p)
        /\ Lower(p) <= position[p]
    BY DEF WriteEvent, IInv, ClaimInv, OwnBatch
  <1>2. position[p] \in Pending(p)
    BY <1>1, BatchType DEF Pending
  <1>3. /\ position[p] \in Nat /\ position[p] <= cursor
        /\ ~IsPublished(position[p])
        /\ \A q \in Producers \ {p} : position[p] \notin Pending(q)
    BY <1>2, PendingFacts
  <1>4. QED
    BY <1>1, <1>2, <1>3, NotYetPublished

\* Writing a claimed event disturbs no event that is published in the last lap,
\* and none that somebody has written and not yet published.
LEMMA WriteEventSlots ==
  ASSUME TypeOK, IInv, NEW p \in Producers, WriteEvent(p)
  PROVE  SlotInv'
  <1>1. PICK x \in Nat : x = position[p]
    BY WritePosition
  <1>2. /\ x <= cursor /\ cursor < x + Size /\ ~IsPublished(x)
        /\ \A q \in Producers \ {p} : x \notin Pending(q)
        /\ unpublished[p] = Lower(p)
        /\ cursor \in Int
    BY <1>1, WritePosition DEF TypeOK
  <1>3. /\ slots' \in [Slots -> Int]
        /\ slots'[SlotOf(x)] = x
        /\ \A i \in Slots : i # SlotOf(x) => slots'[i] = slots[i]
    BY <1>1, WriteSlotEffect DEF WriteEvent, TypeOK, SlotsTypeOK
  <1>4. /\ position' = [position EXCEPT ![p] = x + 1]
        /\ UNCHANGED <<cursor, ppc, unpublished, request, claimed_sequence, abandoned>>
    BY <1>1 DEF WriteEvent, barrierVars, historyVars
  <1>5. ASSUME NEW s \in Int, s # x, s <= cursor, cursor < s + Size, slots[SlotOf(s)] = s
        PROVE  slots'[SlotOf(s)] = s
    <2>1. SlotOf(s) # SlotOf(x) /\ SlotOf(s) \in Slots
      BY <1>2, <1>5, SameLap, SlotOfInSlots
    <2>2. QED
      BY <1>3, <1>5, <2>1
  <1>6. ASSUME NEW s \in 0 .. cursor, cursor < s + Size, IsPublished(s)'
        PROVE  slots'[SlotOf(s)] = s
    <2>1. IsPublished(s)
      BY <1>4, <1>6 DEF IsPublished, Pending, Upper
    <2>2. slots[SlotOf(s)] = s
      BY <1>6, <2>1 DEF IInv, SlotInv
    <2>3. QED
      BY <1>2, <1>5, <1>6, <2>1, <2>2
  <1>7. ASSUME NEW q \in Producers, ppc[q] = "write",
               NEW s \in unpublished[q] .. position'[q] - 1
        PROVE  slots'[SlotOf(s)] = s
    <2>1. CASE s = x
      BY <1>3, <2>1
    <2>2. CASE s # x
      <3>1. s \in unpublished[q] .. position[q] - 1
        <4>1. unpublished[q] \in Int /\ position[q] \in Int
          BY BatchType
        <4>2. position \in [Producers -> Int]
          BY DEF TypeOK
        <4>3. CASE q = p
          <5>1. position'[q] = x + 1 /\ position[q] = x
            BY <1>1, <1>4, <4>2, <4>3
          <5>2. QED
            BY <1>7, <2>2, <4>1, <5>1
        <4>4. CASE q # p
          <5>1. position'[q] = position[q]
            BY <1>4, <4>2, <4>4
          <5>2. QED
            BY <1>7, <5>1
        <4>5. QED
          BY <4>3, <4>4
      <3>2. slots[SlotOf(s)] = s
        BY <1>7, <3>1 DEF IInv, SlotInv
      <3>3. s \in Pending(q)
        BY <1>7, <3>1, BatchType DEF Pending, IInv, ClaimInv, OwnBatch
      <3>4. s \in Int /\ s <= cursor /\ cursor < s + Size
        <4>1. s \in Nat /\ s <= cursor /\ ~IsPublished(s)
          BY <3>3, PendingFacts
        <4>2. QED
          BY <4>1, NotYetPublished
      <3>5. QED
        BY <1>5, <2>2, <3>2, <3>4
    <2>3. QED
      BY <2>1, <2>2
  <1>8. ASSUME NEW i \in Slots, slots'[i] # NONE
        PROVE  SlotOf(slots'[i]) = i /\ slots'[i] <= cursor
    <2>1. CASE i = SlotOf(x)
      BY <1>2, <1>3, <2>1
    <2>2. CASE i # SlotOf(x)
      BY <1>3, <1>8, <2>2 DEF IInv, SlotInv
    <2>3. QED
      BY <2>1, <2>2
  <1>9. QED
    BY <1>4, <1>6, <1>7, <1>8 DEF SlotInv

LEMMA WriteEventInv ==
  ASSUME TypeOK, IInv, NEW p \in Producers, WriteEvent(p)
  PROVE  IInv' /\ \A s : IsPublished(s)' <=> IsPublished(s)
  <1>1. /\ ppc[p] = "write" /\ position[p] <= Upper(p) /\ position[p] \in Int
        /\ position' = [position EXCEPT ![p] = position[p] + 1]
        /\ position \in [Producers -> Int]
        /\ UNCHANGED <<consumerVars, shutdown_at_sequence, scanned, cursor, bits,
                       claimed_sequence, sequence_clear_of_consumers, ppc, request, claimVars,
                       unpublished, counter, claims, abandoned>>
    BY DEF WriteEvent, TypeOK, barrierVars, lifeVars, historyVars
  <1>2. \A q \in Producers : Upper(q)' = Upper(q) /\ Lower(q)' = Lower(q)
    BY <1>1 DEF Upper, Lower
  <1>3. ASSUME NEW s
        PROVE  IsPublished(s)' <=> IsPublished(s)
    BY <1>1, <1>2 DEF IsPublished, Pending
  <1>4. LifeInv' /\ BoundInv'
    <2>1. Alive' = Alive /\ Undecided' = Undecided
      BY <1>1 DEF Alive, Undecided
    <2>2. QED
      BY <1>1, <2>1, SameHandles DEF IInv, BoundInv
  <1>5. ClaimInv'
    <2>1. ASSUME NEW q \in Producers, ppc[q] = "write"
          PROVE  OwnBatch(q)'
      <3>1. OwnBatch(q)
        BY <2>1 DEF IInv, ClaimInv
      <3>2. CASE q = p
        <4>1. unpublished[p] = Lower(p) /\ position'[p] = position[p] + 1
          BY <1>1, <3>1, <3>2 DEF OwnBatch
        <4>2. Lower(p) <= position'[p] /\ position'[p] <= Upper(p) + 1
          BY <1>1, <3>1, <3>2, <4>1, BatchType DEF OwnBatch
        <4>3. QED
          BY <1>1, <1>2, <3>1, <3>2, <4>1, <4>2 DEF OwnBatch
      <3>3. CASE q # p
        <4>1. position'[q] = position[q]
          BY <1>1, <3>3
        <4>2. QED
          BY <1>1, <1>2, <3>1, <4>1 DEF OwnBatch
      <3>4. QED
        BY <3>2, <3>3
    <2>2. QED
      BY <1>1, <2>1 DEF IInv, ClaimInv
  <1>6. ClearInv'
    BY <1>1 DEF IInv, ClearInv, consumerVars, claimVars
  <1>7. BitsInv'
    <2>1. \A s \in cursor - Size + 1 .. cursor : Available(s)' <=> Available(s)
      BY <1>1 DEF Available
    <2>2. QED
      BY <1>1, <1>3, <2>1 DEF IInv, BitsInv, consumerVars
  <1>8. GaplessInv'
    BY <1>1, <1>3, GaplessKept DEF TypeOK
  <1>9. SlotInv'
    BY WriteEventSlots
  <1>10. QED
    BY <1>3, <1>4, <1>5, <1>6, <1>7, <1>8, <1>9 DEF IInv

\* What a panicked update leaves behind was not published and never will be.
LEMMA UpdatePanicsInv ==
  ASSUME TypeOK, IInv, NEW p \in Producers, UpdatePanics(p)
  PROVE  IInv' /\ \A s : IsPublished(s)' <=> IsPublished(s)
  <1>1. /\ ppc[p] = "write" /\ unpublished[p] = Lower(p)
        /\ ppc' = [ppc EXCEPT ![p] = "idle"]
        /\ request' = [request EXCEPT ![p] = NoRequest]
        /\ abandoned' = abandoned \cup (Lower(p) .. Upper(p))
        /\ ppc \in [Producers -> {"unborn", "idle", "start", "claim", "cas", "write",
                                  "join", "gone", "failed"}]
        /\ request \in [Producers -> [n : Nat, blocking : BOOLEAN]]
        /\ UNCHANGED <<slots, consumerVars, shutdown_at_sequence, scanned, cursor, bits,
                       claimed_sequence, sequence_clear_of_consumers, claimVars, position,
                       unpublished, counter, claims>>
    BY DEF UpdatePanics, Return, TypeOK, barrierVars, updateVars, lifeVars
  <1>2. \A q \in Producers : q # p => /\ Upper(q)' = Upper(q) /\ Lower(q)' = Lower(q)
                                      /\ ppc'[q] = ppc[q] /\ request'[q] = request[q]
    BY <1>1 DEF Upper, Lower
  <1>3. ppc'[p] = "idle" /\ request'[p] = NoRequest
    BY <1>1
  <1>4. OwnBatch(p)
    BY <1>1 DEF IInv, ClaimInv
  <1>5. ASSUME NEW s
        PROVE  IsPublished(s)' <=> IsPublished(s)
    <2>1. \A q \in Producers : q # p => Pending(q)' = Pending(q)
      BY <1>1, <1>2 DEF Pending
    <2>2. Pending(p) = Lower(p) .. Upper(p) /\ Pending(p)' = {}
      BY <1>1, <1>3 DEF Pending
    <2>3. QED
      BY <1>1, <2>1, <2>2 DEF IsPublished
  <1>6. LifeInv' /\ BoundInv'
    <2>1. Alive' = Alive /\ Undecided' = Undecided
      BY <1>1 DEF Alive, Undecided
    <2>2. \A q \in Producers : request'[q].n <= MaxBatch
      BY <1>2, <1>3, ProducersAssumption DEF NoRequest, IInv, BoundInv
    <2>3. QED
      BY <1>1, <2>1, <2>2, SameHandles
  <1>7. ClaimInv'
    <2>1. \A s \in abandoned' : s <= cursor
      <3>1. \A s \in Lower(p) .. Upper(p) : s <= cursor
        BY <1>4, BatchType DEF OwnBatch
      <3>2. QED
        BY <1>1, <3>1 DEF IInv, ClaimInv
    <2>2. ASSUME NEW q \in Producers, ppc'[q] = "write"
          PROVE  OwnBatch(q)'
      <3>1. q # p /\ ppc[q] = "write" /\ OwnBatch(q)
        BY <1>2, <1>3, <2>2 DEF IInv, ClaimInv
      <3>2. Upper(p) < Lower(q) \/ Upper(q) < Lower(p)
        BY <1>1, <3>1 DEF OwnBatch
      <3>3. \A s \in Lower(q) .. Upper(q) : s \notin abandoned'
        BY <1>1, <3>1, <3>2, BatchType DEF OwnBatch
      <3>4. \A r \in Producers : ppc'[r] = "write" => r # p
        BY <1>3
      <3>5. QED
        BY <1>1, <1>2, <3>1, <3>3, <3>4 DEF OwnBatch
    <2>3. QED
      BY <1>1, <2>1, <2>2 DEF ClaimInv
  <1>8. ClearInv'
    BY <1>1, <1>2, <1>3 DEF IInv, ClearInv, consumerVars, claimVars
  <1>9. BitsInv'
    <2>1. \A s \in cursor - Size + 1 .. cursor : Available(s)' <=> Available(s)
      BY <1>1 DEF Available
    <2>2. QED
      BY <1>1, <1>5, <2>1 DEF IInv, BitsInv, consumerVars
  <1>10. GaplessInv'
    BY <1>1, <1>5, GaplessKept DEF TypeOK
  <1>11. SlotInv'
    BY <1>1, <1>2, <1>3, <1>5 DEF IInv, SlotInv
  <1>12. QED
    BY <1>5, <1>6, <1>7, <1>8, <1>9, <1>10, <1>11 DEF IInv

\* One fetch_xor: exactly the sequences from the batch's next one to last
\* become published.
LEMMA PublishWordFacts ==
  ASSUME TypeOK, IInv, NEW p \in Producers, PublishWord(p)
  PROVE  \E last \in Int :
           /\ unpublished[p] - 1 <= last /\ last <= Upper(p)
           /\ last <= WordEnd(unpublished[p])
           /\ last < unpublished[p] => last = Upper(p)
           /\ bits' = [i \in Slots |-> IF i \in Window(unpublished[p], last)
                                       THEN 1 - bits[i] ELSE bits[i]]
           /\ unpublished' = [unpublished EXCEPT ![p] = last + 1]
           /\ last = Upper(p) => Return(p)
           /\ last # Upper(p) => UNCHANGED <<ppc, request>>
  <1> DEFINE last == MinOf(Upper(p), WordEnd(unpublished[p]))
  <1>1. ppc[p] = "write"
    BY DEF PublishWord
  <1>2. /\ unpublished[p] \in Int /\ Upper(p) \in Int
        /\ unpublished[p] <= Upper(p) + 1
    BY <1>1, BatchType DEF IInv, ClaimInv, OwnBatch
  <1>3. WordEnd(unpublished[p]) \in Int /\ unpublished[p] <= WordEnd(unpublished[p])
    BY <1>2, WordEndFacts
  <1>4. /\ last \in Int /\ unpublished[p] - 1 <= last /\ last <= Upper(p)
        /\ last <= WordEnd(unpublished[p])
        /\ last < unpublished[p] => last = Upper(p)
    BY <1>2, <1>3 DEF MinOf
  <1>5. /\ bits' = [i \in Slots |-> IF i \in Window(unpublished[p], last)
                                    THEN 1 - bits[i] ELSE bits[i]]
        /\ unpublished' = [unpublished EXCEPT ![p] = last + 1]
        /\ last = Upper(p) => Return(p)
        /\ last # Upper(p) => UNCHANGED <<ppc, request>>
    BY DEF PublishWord
  <1> HIDE DEF last
  <1>6. QED
    BY <1>4, <1>5

\* What a flip makes of the batch it is part of, and of what is published.
LEMMA PublishWordEffect ==
  ASSUME TypeOK, IInv, NEW p \in Producers, PublishWord(p)
  PROVE  \E last \in Int :
           /\ unpublished[p] - 1 <= last /\ last <= Upper(p)
           /\ last <= WordEnd(unpublished[p])
           /\ last < unpublished[p] => last = Upper(p)
           /\ bits' = [i \in Slots |-> IF i \in Window(unpublished[p], last)
                                       THEN 1 - bits[i] ELSE bits[i]]
           /\ unpublished' = [unpublished EXCEPT ![p] = last + 1]
           /\ last = Upper(p) => Return(p)
           /\ last # Upper(p) => UNCHANGED <<ppc, request>>
           /\ \A q \in Producers : q # p =>
                /\ ppc'[q] = ppc[q] /\ request'[q] = request[q]
                /\ unpublished'[q] = unpublished[q]
                /\ Upper(q)' = Upper(q) /\ Lower(q)' = Lower(q)
                /\ Pending(q)' = Pending(q)
           /\ Upper(p)' = Upper(p)
           /\ unpublished'[p] = last + 1
           /\ last = Upper(p) => ppc'[p] = "idle" /\ request'[p] = NoRequest
           /\ last # Upper(p) => /\ ppc'[p] = "write" /\ request'[p] = request[p]
                                 /\ Lower(p)' = Lower(p)
           /\ Pending(p) = unpublished[p] .. Upper(p) /\ Pending(p)' = last + 1 .. Upper(p)
           /\ \A s \in unpublished[p] .. last :
                /\ s \in Nat /\ s <= cursor /\ cursor < s + Size
                /\ s \in cursor - Size + 1 .. cursor
                /\ ~IsPublished(s) /\ IsPublished(s)'
           /\ \A s \in Int : s \notin unpublished[p] .. last => (IsPublished(s)' <=> IsPublished(s))
  <1>1. PICK last \in Int :
          /\ unpublished[p] - 1 <= last /\ last <= Upper(p)
          /\ last <= WordEnd(unpublished[p])
          /\ last < unpublished[p] => last = Upper(p)
          /\ bits' = [i \in Slots |-> IF i \in Window(unpublished[p], last)
                                      THEN 1 - bits[i] ELSE bits[i]]
          /\ unpublished' = [unpublished EXCEPT ![p] = last + 1]
          /\ last = Upper(p) => Return(p)
          /\ last # Upper(p) => UNCHANGED <<ppc, request>>
    BY PublishWordFacts
  <1>2. /\ ppc[p] = "write" /\ position[p] > Upper(p)
        /\ ppc \in [Producers -> {"unborn", "idle", "start", "claim", "cas", "write",
                                  "join", "gone", "failed"}]
        /\ request \in [Producers -> [n : Nat, blocking : BOOLEAN]]
        /\ UNCHANGED <<slots, consumerVars, shutdown_at_sequence, scanned, cursor,
                       claimed_sequence, sequence_clear_of_consumers, claimVars, position,
                       counter, claims, abandoned>>
    BY DEF PublishWord, TypeOK, lifeVars, historyVars
  <1>3. OwnBatch(p) /\ Upper(p) \in Int /\ Lower(p) \in Int /\ unpublished[p] \in Int
    BY <1>2, BatchType DEF IInv, ClaimInv
  <1>4. \A q \in Producers : q # p => /\ ppc'[q] = ppc[q] /\ request'[q] = request[q]
                                      /\ unpublished'[q] = unpublished[q]
    BY <1>1, <1>2 DEF Return
  <1>5. \A q \in Producers : q # p => /\ Upper(q)' = Upper(q) /\ Lower(q)' = Lower(q)
                                      /\ Pending(q)' = Pending(q)
    BY <1>2, <1>4 DEF Upper, Lower, Pending
  <1>6. /\ Upper(p)' = Upper(p)
        /\ unpublished'[p] = last + 1
        /\ last = Upper(p) => ppc'[p] = "idle" /\ request'[p] = NoRequest
        /\ last # Upper(p) => /\ ppc'[p] = "write" /\ request'[p] = request[p]
                              /\ Lower(p)' = Lower(p)
    BY <1>1, <1>2 DEF Return, Upper, Lower, TypeOK
  <1>7. Pending(p) = unpublished[p] .. Upper(p) /\ Pending(p)' = last + 1 .. Upper(p)
    <2>1. CASE last = Upper(p)
      BY <1>2, <1>3, <1>6, <2>1 DEF Pending
    <2>2. CASE last # Upper(p)
      BY <1>2, <1>6, <2>2 DEF Pending
    <2>3. QED
      BY <2>1, <2>2
  <1>8. ASSUME NEW s \in unpublished[p] .. last
        PROVE  /\ s \in Nat /\ s <= cursor /\ cursor < s + Size
               /\ s \in cursor - Size + 1 .. cursor
               /\ ~IsPublished(s) /\ IsPublished(s)'
    <2>1. s \in Int /\ s \in Pending(p) /\ s \notin Pending(p)'
      BY <1>1, <1>3, <1>7
    <2>2. /\ s \in Nat /\ s <= cursor /\ ~IsPublished(s) /\ s \notin abandoned
          /\ \A q \in Producers \ {p} : s \notin Pending(q)
      BY <2>1, PendingFacts
    <2>3. IsPublished(s)'
      BY <1>2, <1>5, <2>1, <2>2 DEF IsPublished
    <2>4. QED
      BY <2>2, <2>3, NotYetPublished
  <1>9. ASSUME NEW s \in Int, s \notin unpublished[p] .. last
        PROVE  IsPublished(s)' <=> IsPublished(s)
    <2>1. s \in Pending(p)' <=> s \in Pending(p)
      BY <1>1, <1>3, <1>7, <1>9
    <2>2. QED
      BY <1>2, <1>5, <2>1 DEF IsPublished
  <1>10. QED
    BY <1>1, <1>4, <1>5, <1>6, <1>7, <1>8, <1>9

LEMMA PublishWordInv ==
  ASSUME TypeOK, IInv, NEW p \in Producers, PublishWord(p)
  PROVE  IInv' /\ \A s \in Int : IsPublished(s) => IsPublished(s)'
  <1>1. PICK last \in Int :
          /\ unpublished[p] - 1 <= last /\ last <= Upper(p)
          /\ last <= WordEnd(unpublished[p])
          /\ last < unpublished[p] => last = Upper(p)
          /\ bits' = [i \in Slots |-> IF i \in Window(unpublished[p], last)
                                      THEN 1 - bits[i] ELSE bits[i]]
          /\ unpublished' = [unpublished EXCEPT ![p] = last + 1]
          /\ last = Upper(p) => Return(p)
          /\ last # Upper(p) => UNCHANGED <<ppc, request>>
          /\ \A q \in Producers : q # p =>
               /\ ppc'[q] = ppc[q] /\ request'[q] = request[q]
               /\ unpublished'[q] = unpublished[q]
               /\ Upper(q)' = Upper(q) /\ Lower(q)' = Lower(q)
               /\ Pending(q)' = Pending(q)
          /\ Upper(p)' = Upper(p)
          /\ unpublished'[p] = last + 1
          /\ last = Upper(p) => ppc'[p] = "idle" /\ request'[p] = NoRequest
          /\ last # Upper(p) => /\ ppc'[p] = "write" /\ request'[p] = request[p]
                                /\ Lower(p)' = Lower(p)
          /\ Pending(p) = unpublished[p] .. Upper(p) /\ Pending(p)' = last + 1 .. Upper(p)
          /\ \A s \in unpublished[p] .. last :
               /\ s \in Nat /\ s <= cursor /\ cursor < s + Size
               /\ s \in cursor - Size + 1 .. cursor
               /\ ~IsPublished(s) /\ IsPublished(s)'
          /\ \A s \in Int : s \notin unpublished[p] .. last => (IsPublished(s)' <=> IsPublished(s))
    BY PublishWordEffect
  <1>2. /\ ppc[p] = "write" /\ position[p] > Upper(p)
        /\ ppc \in [Producers -> {"unborn", "idle", "start", "claim", "cas", "write",
                                  "join", "gone", "failed"}]
        /\ request \in [Producers -> [n : Nat, blocking : BOOLEAN]]
        /\ UNCHANGED <<slots, consumerVars, shutdown_at_sequence, scanned, cursor,
                       claimed_sequence, sequence_clear_of_consumers, claimVars, position,
                       counter, claims, abandoned>>
    BY DEF PublishWord, TypeOK, lifeVars, historyVars
  <1>3. OwnBatch(p) /\ Upper(p) \in Int /\ Lower(p) \in Int /\ unpublished[p] \in Int
    BY <1>2, BatchType DEF IInv, ClaimInv
  <1>4. \A q \in Producers : q # p => /\ ppc'[q] = ppc[q] /\ request'[q] = request[q]
                                      /\ unpublished'[q] = unpublished[q]
    BY <1>1
  <1>5. \A q \in Producers : q # p => /\ Upper(q)' = Upper(q) /\ Lower(q)' = Lower(q)
                                      /\ Pending(q)' = Pending(q)
    BY <1>1
  <1>6. /\ Upper(p)' = Upper(p)
        /\ unpublished'[p] = last + 1
        /\ last = Upper(p) => ppc'[p] = "idle" /\ request'[p] = NoRequest
        /\ last # Upper(p) => /\ ppc'[p] = "write" /\ request'[p] = request[p]
                              /\ Lower(p)' = Lower(p)
    BY <1>1
  <1>7. Pending(p) = unpublished[p] .. Upper(p) /\ Pending(p)' = last + 1 .. Upper(p)
    BY <1>1
  <1>8. \A s \in unpublished[p] .. last :
          /\ s \in Nat /\ s <= cursor /\ cursor < s + Size
          /\ s \in cursor - Size + 1 .. cursor
          /\ ~IsPublished(s) /\ IsPublished(s)'
    BY <1>1
  <1>9. \A s \in Int : s \notin unpublished[p] .. last => (IsPublished(s)' <=> IsPublished(s))
    BY <1>1
  <1>10. \A s \in Int : IsPublished(s) => IsPublished(s)'
    BY <1>8, <1>9
  <1>11. LifeInv' /\ BoundInv'
    <2>1. \A q \in Producers : ppc'[q] = ppc[q] \/ (ppc[q] = "write" /\ ppc'[q] = "idle")
      BY <1>2, <1>4, <1>6
    <2>2. Alive' = Alive /\ Undecided' = Undecided
      BY <2>1 DEF Alive, Undecided
    <2>3. \A q \in Producers : request'[q].n <= MaxBatch
      BY <1>4, <1>6, ProducersAssumption DEF NoRequest, IInv, BoundInv
    <2>4. QED
      BY <1>2, <2>2, <2>3, SameHandles
  <1>12. ClaimInv'
    <2>1. ASSUME NEW q \in Producers, ppc'[q] = "write"
          PROVE  OwnBatch(q)'
      <3>1. ppc[q] = "write" /\ OwnBatch(q) /\ Upper(q)' = Upper(q) /\ Lower(q)' = Lower(q)
        BY <1>2, <1>4, <1>5, <1>6, <2>1 DEF IInv, ClaimInv
      <3>2. \A r \in Producers \ {q} : ppc'[r] = "write" =>
              Upper(q)' < Lower(r)' \/ Upper(r)' < Lower(q)'
        <4>1. \A r \in Producers : ppc'[r] = "write" =>
                ppc[r] = "write" /\ Upper(r)' = Upper(r) /\ Lower(r)' = Lower(r)
          BY <1>2, <1>4, <1>5, <1>6
        <4>2. QED
          BY <3>1, <4>1 DEF OwnBatch
      <3>3. /\ Lower(q) <= unpublished'[q] /\ unpublished'[q] <= Upper(q) + 1
            /\ position[q] <= Upper(q) => unpublished'[q] = Lower(q)
        <4>1. CASE q = p
          BY <1>1, <1>2, <1>3, <1>6, <4>1 DEF OwnBatch, TypeOK
        <4>2. CASE q # p
          BY <1>4, <3>1, <4>2 DEF OwnBatch
        <4>3. QED
          BY <4>1, <4>2
      <3>4. QED
        BY <1>2, <3>1, <3>2, <3>3 DEF OwnBatch
    <2>2. QED
      BY <1>2, <2>1 DEF IInv, ClaimInv
  <1>13. ClearInv'
    <2>1. \A q \in Producers : ppc'[q] = "cas" => ppc[q] = "cas" /\ request'[q] = request[q]
      BY <1>2, <1>4, <1>6
    <2>2. QED
      BY <1>2, <2>1 DEF IInv, ClearInv, consumerVars, claimVars
  <1>14. BitsInv'
    <2>1. ASSUME NEW s \in unpublished[p] .. last
          PROVE  Available(s)'
      <3>1. ~Available(s)
        BY <1>8 DEF IInv, BitsInv
      <3>2. SlotOf(s) \in Slots /\ SlotOf(s) \in Window(unpublished[p], last)
        BY <1>8, SlotOfInSlots DEF Window
      <3>3. bits'[SlotOf(s)] = 1 - bits[SlotOf(s)]
        BY <1>1, <3>2
      <3>4. s \in Int /\ bits[SlotOf(s)] \in {0, 1} /\ Parity(s) \in {0, 1}
        BY <1>8, <3>2, ParityFacts DEF TypeOK
      <3>5. QED
        BY <3>1, <3>3, <3>4 DEF Available
    <2>2. ASSUME NEW s \in cursor - Size + 1 .. cursor, s \notin unpublished[p] .. last
          PROVE  Available(s)' <=> Available(s)
      <3>1. s \in Int /\ s <= cursor /\ cursor < s + Size
        BY SizeAssumption DEF TypeOK
      <3>2. SlotOf(s) \notin Window(unpublished[p], last)
        <4>1. SUFFICES ASSUME NEW t \in unpublished[p] .. last, SlotOf(s) = SlotOf(t)
                       PROVE  FALSE
          BY DEF Window
        <4>2. t \in Int /\ t # s /\ t <= cursor /\ cursor < t + Size
          BY <1>8, <2>2
        <4>3. QED
          BY <3>1, <4>1, <4>2, SameLap
      <3>3. bits'[SlotOf(s)] = bits[SlotOf(s)]
        BY <1>1, <3>1, <3>2, SlotOfInSlots
      <3>4. QED
        BY <3>3 DEF Available
    <2>3. \A s \in cursor - Size + 1 .. cursor : Available(s)' <=> IsPublished(s)'
      <3>1. TAKE s \in cursor - Size + 1 .. cursor
      <3>2. s \in Int
        BY SizeAssumption DEF TypeOK
      <3>3. CASE s \in unpublished[p] .. last
        BY <1>8, <2>1, <3>3
      <3>4. CASE s \notin unpublished[p] .. last
        BY <1>9, <2>2, <3>2, <3>4 DEF IInv, BitsInv
      <3>5. QED
        BY <3>3, <3>4
    <2>4. ASSUME NEW c \in Consumers
          PROVE  /\ scanned[c] # 0 => cpc[c] = "load" /\ WaitsForProducer(c)
                 /\ \A s \in consumer_sequence[c] .. consumer_sequence[c] + scanned[c] - 1 :
                      IsPublished(s)'
      BY <1>10 DEF IInv, BitsInv, TypeOK, ConsumersTypeOK
    <2>5. QED
      BY <1>2, <2>3, <2>4 DEF BitsInv, WaitsForProducer, consumerVars
  <1>15. GaplessInv'
    BY <1>2, <1>10, GaplessKept DEF TypeOK
  <1>16. SlotInv'
    <2>1. ASSUME NEW s \in 0 .. cursor, cursor < s + Size, IsPublished(s)'
          PROVE  slots[SlotOf(s)] = s
      <3>1. CASE s \in unpublished[p] .. last
        <4>1. s \in unpublished[p] .. position[p] - 1
          BY <1>1, <1>2, <1>3, <3>1 DEF TypeOK
        <4>2. QED
          BY <1>2, <4>1 DEF IInv, SlotInv
      <3>2. CASE s \notin unpublished[p] .. last
        BY <1>9, <2>1, <3>2 DEF IInv, SlotInv
      <3>3. QED
        BY <3>1, <3>2
    <2>2. ASSUME NEW q \in Producers, ppc'[q] = "write",
                 NEW s \in unpublished'[q] .. position[q] - 1
          PROVE  slots[SlotOf(s)] = s
      <3>1. ppc[q] = "write"
        BY <1>2, <1>4, <2>2
      <3>2. s \in unpublished[q] .. position[q] - 1
        BY <1>1, <1>3, <1>4, <1>6, BatchType
      <3>3. QED
        BY <3>1, <3>2 DEF IInv, SlotInv
    <2>3. QED
      BY <1>2, <2>1, <2>2 DEF IInv, SlotInv
  <1>17. QED
    BY <1>10, <1>11, <1>12, <1>13, <1>14, <1>15, <1>16 DEF IInv

-----------------------------------------------------------------------------

(***************************************************************************)
(* Consumers.                                                              *)
(***************************************************************************)

\* A scan in progress has been over published sequences only.
LEMMA ScanSoFar ==
  ASSUME TypeOK, IInv, NEW c \in Consumers, cpc[c] = "load"
  PROVE  /\ consumer_sequence[c] = consumer_cursor[c] + 1
         /\ consumer_cursor[c] \in Int /\ scanned[c] \in Nat
         /\ consumer_sequence[c] + scanned[c] - 1 <= cursor
         /\ \A s \in Int : s < consumer_sequence[c] + scanned[c] => IsPublished(s)
  <1>1. PICK k \in Int : ConsumerInv(k)
    BY Gapless
  <1>2. /\ consumer_sequence[c] = consumer_cursor[c] + 1
        /\ consumer_cursor[c] \in Int /\ scanned[c] \in Nat
    BY <1>1 DEF TypeOK, ConsumersTypeOK, ConsumerInv, BatchInv
  <1>3. ASSUME NEW s \in Int, s < consumer_sequence[c] + scanned[c]
        PROVE  IsPublished(s)
    <2>1. CASE s <= consumer_cursor[c]
      BY <2>1, GivenBack
    <2>2. CASE s > consumer_cursor[c]
      <3>1. s \in consumer_sequence[c] .. consumer_sequence[c] + scanned[c] - 1
        BY <1>2, <1>3, <2>2
      <3>2. QED
        BY <3>1 DEF IInv, BitsInv
    <2>3. QED
      BY <1>2, <2>1, <2>2
  <1>4. consumer_sequence[c] + scanned[c] - 1 <= cursor
    BY <1>2, <1>3 DEF IsPublished
  <1>5. QED
    BY <1>2, <1>3, <1>4

\* A run of bits that starts where the scan has got to and ends in the same
\* word is a run of published sequences: a run beyond the cursor would have to
\* cover a slot that was published in the round before.
LEMMA AvailableRun ==
  ASSUME TypeOK, IInv, NEW c \in Consumers, cpc[c] = "load",
         NEW s \in Int,
         consumer_sequence[c] + scanned[c] <= s,
         s <= WordEnd(consumer_sequence[c] + scanned[c]),
         \A t \in consumer_sequence[c] + scanned[c] .. s : Available(t)
  PROVE  IsPublished(s)
  <1>1. PICK high \in Int : high = consumer_sequence[c] + scanned[c]
    BY ScanSoFar
  <1>2. /\ consumer_cursor[c] < high /\ high - 1 <= cursor
        /\ \A t \in Int : t < high => IsPublished(t)
        /\ consumer_cursor[c] \in Int /\ cursor \in Int
        /\ cursor <= consumer_cursor[c] + Size
    BY <1>1, ScanSoFar, CursorFacts
  <1>3. s < high + Size /\ high <= s
    BY <1>1, WordEndFacts, SizeAssumption
  <1>4. s <= cursor
    <2>1. SUFFICES ASSUME cursor < s PROVE FALSE
      BY <1>2
    <2>2. PICK next \in Int : next = cursor + 1
      BY <1>2
    <2>3. Available(next)
      <3>1. next \in high .. s
        BY <1>2, <2>1, <2>2
      <3>2. QED
        BY <1>1, <3>1
    <2>4. /\ next - Size \in cursor - Size + 1 .. cursor
          /\ next - Size \in Int /\ next - Size < high
      BY <1>2, <1>3, <2>1, <2>2, SizeAssumption
    <2>5. IsPublished(next - Size)
      BY <1>2, <2>4
    <2>6. Available(next - Size)
      BY <2>4, <2>5 DEF IInv, BitsInv
    <2>7. bits \in [Slots -> {0, 1}]
      BY DEF TypeOK
    <2>8. Available(next) <=> ~Available(next - Size)
      BY <2>7, BitOfOneRound
    <2>9. QED
      BY <2>3, <2>6, <2>8
  <1>5. s \in cursor - Size + 1 .. cursor
    BY <1>2, <1>3, <1>4, SizeAssumption
  <1>6. Available(s)
    BY <1>1, <1>3
  <1>7. QED
    BY <1>5, <1>6 DEF IInv, BitsInv

\* Steps of consumers leave the producers' part of the invariant alone.
LEMMA ConsumerLeavesProducers ==
  ASSUME TypeOK, IInv, UNCHANGED <<slots, producerVars>>
  PROVE  /\ \A s : IsPublished(s)' <=> IsPublished(s)
         /\ BoundInv' /\ ClaimInv' /\ SlotInv'
         /\ UNCHANGED shutdown_at_sequence => LifeInv'
         /\ \A s \in cursor' - Size + 1 .. cursor' : Available(s)' <=> IsPublished(s)'
  <1> USE DEF producerVars, barrierVars, claimVars, updateVars, lifeVars, historyVars
  <1>1. ASSUME NEW s
        PROVE  IsPublished(s)' <=> IsPublished(s)
    BY DEF IsPublished, Pending, Upper
  <1>2. BoundInv' /\ ClaimInv'
    BY DEF IInv, BoundInv, Undecided, ClaimInv, OwnBatch, Upper, Lower
  <1>3. UNCHANGED shutdown_at_sequence => LifeInv'
    BY DEF IInv, LifeInv, Alive
  <1>4. \A s \in cursor' - Size + 1 .. cursor' : Available(s)' <=> IsPublished(s)'
    BY <1>1 DEF IInv, BitsInv, Available
  <1>5. SlotInv'
    BY <1>1 DEF IInv, SlotInv
  <1>6. QED
    BY <1>1, <1>2, <1>3, <1>4, <1>5

\* A look at one word of the bit field that has shown nothing but published
\* sequences.
LEMMA ScanStepInv ==
  ASSUME TypeOK, IInv, NEW c \in Consumers, cpc[c] = "load", WaitsForProducer(c),
         NEW high \in Int, high = consumer_sequence[c] + scanned[c],
         \/ \E highest \in Int :
              /\ \A s \in high .. highest : IsPublished(s)
              /\ ScanEnds(c, highest)
         \/ /\ \A s \in high .. WordEnd(high) : IsPublished(s)
            /\ ScanGoesOn(c, high),
         UNCHANGED <<slots, consumer_cursor, consumer_sequence, shutdown_at_sequence,
                     producerVars>>
  PROVE  TypeOK' /\ IInv'
  <1>1. TypeOK'
    BY ScanStepType
  <1> SUFFICES IInv'
    BY <1>1
  <1>2. UNCHANGED cursor
    BY DEF producerVars, barrierVars
  <1>3. /\ high - 1 <= cursor
        /\ \A s \in Int : s < high => IsPublished(s)
        /\ consumer_sequence[c] \in Int /\ cursor \in Int
    BY <1>1, <1>2, ScanSoFar DEF TypeOK, ConsumersTypeOK
  <1>4. WordEnd(high) \in Int /\ high <= WordEnd(high)
    BY WordEndFacts
  <1>5. /\ \A s : IsPublished(s)' <=> IsPublished(s)
        /\ BoundInv' /\ ClaimInv' /\ SlotInv' /\ LifeInv'
        /\ \A s \in cursor' - Size + 1 .. cursor' : Available(s)' <=> IsPublished(s)'
    BY <1>2, ConsumerLeavesProducers
  <1>6. ClearInv'
    BY <1>2 DEF IInv, ClearInv, producerVars, barrierVars, claimVars
  <1>7. PICK k \in Int : /\ NONE <= k /\ k <= cursor /\ k <= I64Max
                         /\ \A s \in 0 .. k : IsPublished(s)
                         /\ ConsumerInv(k)
    BY Gapless
  <1>8. CASE \E highest \in Int : /\ \A s \in high .. highest : IsPublished(s)
                                  /\ ScanEnds(c, highest)
    <2>1. PICK highest \in Int : /\ \A s \in high .. highest : IsPublished(s)
                                 /\ ScanEnds(c, highest)
      BY <1>8
    <2>2. /\ Observed(c, highest)
          /\ scanned' = [scanned EXCEPT ![c] = 0]
      BY <2>1 DEF ScanEnds
    <2>3. ASSUME NEW s \in Int, s <= highest
          PROVE  IsPublished(s)
      BY <1>3, <2>1, <2>3
    <2>4. highest <= cursor
      BY <2>3 DEF IsPublished
    <2>5. PICK top \in Int : top = IF highest <= k THEN k ELSE highest
      OBVIOUS
    <2>6. /\ k <= top /\ highest <= top /\ top <= cursor /\ top <= I64Max
          /\ \A s \in 0 .. top : IsPublished(s)
      <3>1. cursor < I64Max /\ I64Max \in Int
        BY CursorBound, ConsumersAssumption
      <3>2. QED
        BY <1>3, <1>7, <2>3, <2>4, <2>5, <3>1
    <2>7. ConsumersTypeOK /\ ConsumerInv(top)
      BY <1>7, <2>6, HigherTop DEF TypeOK
    <2>8. \A u \in Before(c) : highest <= consumer_cursor[u]
      BY <1>2, UpstreamFacts DEF WaitsForProducer
    <2>9. ConsumerInv(top)'
      BY <1>2, <2>2, <2>6, <2>7, <2>8, ObservedInv
    <2>10. GaplessInv'
      <3>1. top \in NONE .. cursor'
        BY <1>2, <1>3, <1>7, <2>6 DEF NONE
      <3>2. \A s \in 0 .. top : IsPublished(s)'
        BY <1>5, <2>6
      <3>3. QED
        BY <2>9, <3>1, <3>2 DEF GaplessInv
    <2>11. BitsInv'
      <3>1. ASSUME NEW d \in Consumers
            PROVE  /\ scanned'[d] # 0 => cpc'[d] = "load" /\ WaitsForProducer(d)
                   /\ \A s \in consumer_sequence'[d] .. consumer_sequence'[d] + scanned'[d] - 1 :
                        IsPublished(s)'
        <4>1. CASE d = c
          <5>1. scanned'[d] = 0
            BY <2>2, <4>1 DEF TypeOK
          <5>2. consumer_sequence'[d] .. consumer_sequence'[d] + scanned'[d] - 1 = {}
            BY <1>2, <1>3, <4>1, <5>1
          <5>3. QED
            BY <5>1, <5>2
        <4>2. CASE d # c
          <5>1. scanned'[d] = scanned[d] /\ cpc'[d] = cpc[d]
            BY <2>2, <4>2 DEF TypeOK, ConsumersTypeOK, Observed, Obtained, NothingNew
          <5>2. QED
            BY <1>2, <1>5, <5>1 DEF IInv, BitsInv
        <4>3. QED
          BY <4>1, <4>2
      <3>2. QED
        BY <1>5, <3>1 DEF BitsInv, WaitsForProducer
    <2>12. QED
      BY <1>5, <1>6, <2>10, <2>11 DEF IInv
  <1>9. CASE /\ \A s \in high .. WordEnd(high) : IsPublished(s)
             /\ ScanGoesOn(c, high)
    <2>1. UNCHANGED <<consumerVars, shutdown_at_sequence>>
      BY <1>9 DEF ScanGoesOn, consumerVars
    <2>2. GaplessInv'
      BY <1>2, <1>3, <1>5, <2>1, GaplessKept
    <2>3. ASSUME NEW s \in Int, s <= WordEnd(high)
          PROVE  IsPublished(s)
      BY <1>3, <1>4, <1>9, <2>3
    <2>4. ASSUME NEW d \in Consumers
          PROVE  /\ scanned'[d] # 0 => cpc'[d] = "load" /\ WaitsForProducer(d)
                 /\ \A s \in consumer_sequence'[d] .. consumer_sequence'[d] + scanned'[d] - 1 :
                      IsPublished(s)'
      <3>1. CASE d = c
        <4>1. /\ consumer_sequence'[d] = consumer_sequence[c]
              /\ scanned'[d] = WordEnd(high) + 1 - consumer_sequence[c]
          BY <1>9, <3>1 DEF TypeOK, ScanGoesOn
        <4>2. \A s \in consumer_sequence'[d] .. consumer_sequence'[d] + scanned'[d] - 1 :
                IsPublished(s)'
          BY <1>3, <1>4, <1>5, <2>3, <4>1
        <4>3. QED
          BY <1>2, <2>1, <3>1, <4>2 DEF consumerVars
      <3>2. CASE d # c
        <4>1. scanned'[d] = scanned[d] /\ cpc'[d] = cpc[d]
          BY <1>9, <3>2 DEF ScanGoesOn
        <4>2. QED
          BY <1>2, <1>5, <4>1 DEF IInv, BitsInv
      <3>3. QED
        BY <3>1, <3>2
    <2>5. BitsInv'
      BY <1>5, <2>4 DEF BitsInv, WaitsForProducer
    <2>6. QED
      BY <1>5, <1>6, <2>2, <2>5 DEF IInv
  <1>10. QED
    BY <1>1, <1>8, <1>9

LEMMA ScanWordInv ==
  ASSUME TypeOK, IInv, NEW c \in Consumers, ScanWord(c)
  PROVE  IInv'
  <1>1. PICK high \in Int : high = consumer_sequence[c] + scanned[c]
    BY DEF TypeOK, ConsumersTypeOK
  <1>2. /\ cpc[c] = "load" /\ WaitsForProducer(c)
        /\ UNCHANGED <<slots, consumer_cursor, consumer_sequence, shutdown_at_sequence,
                       producerVars>>
    BY DEF ScanWord
  <1>3. WordEnd(high) \in Int /\ high <= WordEnd(high)
    BY WordEndFacts
  <1>4. ASSUME NEW highest \in Int, highest <= WordEnd(high),
               \A s \in high .. highest : Available(s)
        PROVE  \A s \in high .. highest : IsPublished(s)
    <2> TAKE s \in high .. highest
    <2>1. s \in Int /\ high <= s /\ s <= WordEnd(high) /\ \A t \in high .. s : Available(t)
      BY <1>3, <1>4
    <2>2. QED
      BY <1>1, <1>2, <2>1, AvailableRun
  <1>5. CASE \E missing \in high .. WordEnd(high) :
               /\ \A s \in high .. WordEnd(high) : s < missing => Available(s)
               /\ ScanEnds(c, missing - 1)
    <2>1. PICK missing \in high .. WordEnd(high) :
            /\ \A s \in high .. WordEnd(high) : s < missing => Available(s)
            /\ ScanEnds(c, missing - 1)
      BY <1>5
    <2>2. PICK highest \in Int : highest = missing - 1 /\ highest <= WordEnd(high)
      BY <1>3
    <2>3. \A s \in high .. highest : Available(s)
      BY <1>3, <2>1, <2>2
    <2>4. \A s \in high .. highest : IsPublished(s)
      BY <1>4, <2>2, <2>3
    <2>5. ScanEnds(c, highest)
      BY <2>1, <2>2
    <2>6. QED
      BY <1>1, <1>2, <2>4, <2>5, ScanStepInv
  <1>6. CASE /\ \A s \in high .. WordEnd(high) : Available(s)
             /\ ScanGoesOn(c, high)
    <2>1. \A s \in high .. WordEnd(high) : IsPublished(s)
      BY <1>3, <1>4, <1>6
    <2>2. QED
      BY <1>1, <1>2, <1>6, <2>1, ScanStepInv
  <1>7. QED
    BY <1>1, <1>5, <1>6 DEF ScanWord, ScanEnds, ScanGoesOn

LEMMA ConsumerInvStep ==
  ASSUME TypeOK, IInv, NEW c \in Consumers, ConsumerStep(c) \/ ConsumerFailure(c),
         UNCHANGED <<scanned, producerVars>>
  PROVE  IInv'
  <1>1. UNCHANGED <<slots, shutdown_at_sequence, cursor>>
    BY DEF ConsumerStep, ConsumerFailure, producerVars, barrierVars
  <1>2. /\ \A s : IsPublished(s)' <=> IsPublished(s)
        /\ BoundInv' /\ ClaimInv' /\ SlotInv' /\ LifeInv'
        /\ \A s \in cursor' - Size + 1 .. cursor' : Available(s)' <=> IsPublished(s)'
    BY <1>1, ConsumerLeavesProducers
  <1>3. PICK k \in Int : /\ NONE <= k /\ k <= cursor /\ k <= I64Max
                         /\ \A s \in 0 .. k : IsPublished(s)
                         /\ ConsumerInv(k)
    BY Gapless
  <1>4. ConsumersTypeOK /\ ConsumersTypeOK'
    BY ConsumerStepType DEF TypeOK
  <1>5. ConsumerInv(k)'
    BY <1>3, <1>4, ConsumerStepInv
  <1>6. \A d \in Consumers : consumer_cursor[d] <= consumer_cursor'[d]
    BY <1>3, <1>4, CursorsGrow
  <1>7. GaplessInv'
    <2>1. k \in NONE .. cursor'
      BY <1>1, <1>3 DEF TypeOK, NONE
    <2>2. \A s \in 0 .. k : IsPublished(s)'
      BY <1>2, <1>3
    <2>3. QED
      BY <1>5, <2>1, <2>2 DEF GaplessInv
  <1>8. ClearInv'
    <2>1. \A d \in Consumers :
            /\ consumer_cursor[d] \in Int /\ consumer_cursor'[d] \in Int
            /\ \A x \in Int : x <= consumer_cursor[d] => x <= consumer_cursor'[d]
            /\ \A x \in Int : x <= consumer_cursor[d] + Size => x <= consumer_cursor'[d] + Size
      BY <1>4, <1>6, SizeAssumption DEF ConsumersTypeOK
    <2>2. LastStage \in SUBSET Consumers
      BY LastStageFacts
    <2>3. cursor \in Int /\ \A p \in Producers :
            rear_lowest[p] \in Int /\ sequence_clear_of_consumers[p] \in Int
      BY DEF TypeOK
    <2>4. QED
      BY <2>1, <2>2, <2>3 DEF IInv, ClearInv, producerVars, barrierVars, claimVars
  <1>9. ASSUME NEW d \in Consumers, scanned[d] # 0
        PROVE  cpc'[d] = cpc[d] /\ consumer_sequence'[d] = consumer_sequence[d]
    <2>1. cpc[d] = "load" /\ Stage[d] = 1
      BY <1>9 DEF IInv, BitsInv, WaitsForProducer
    <2>2. d # c
      <3>1. SUFFICES ASSUME d = c PROVE FALSE
        OBVIOUS
      <3>2. unread[c] = {}
        BY <1>3, <2>1, <3>1, UpstreamFacts DEF ConsumerInv, FoldInv
      <3>3. QED
        BY <2>1, <3>1, <3>2
        DEF ConsumerStep, ConsumerFailure, LoadUpstream, LoadShutdown, Handle, Release,
            Poll, GuardNext, GuardDrop, HandlerPanics
    <2>3. QED
      BY <1>4, <2>2
      DEF ConsumersTypeOK, ConsumerStep, ConsumerFailure, LoadUpstream, Observed, Obtained,
          NothingNew, LoadShutdown, Handle, Release, Poll, GuardNext, GuardDrop, HandlerPanics
  <1>10. BitsInv'
    <2>1. ASSUME NEW d \in Consumers
          PROVE  /\ scanned[d] # 0 => cpc'[d] = "load" /\ WaitsForProducer(d)
                 /\ \A s \in consumer_sequence'[d] .. consumer_sequence'[d] + scanned[d] - 1 :
                      IsPublished(s)'
      <3>1. CASE scanned[d] = 0
        BY <1>4, <3>1 DEF ConsumersTypeOK
      <3>2. CASE scanned[d] # 0
        BY <1>2, <1>9, <3>2 DEF IInv, BitsInv
      <3>3. QED
        BY <3>1, <3>2
    <2>2. QED
      BY <1>2, <2>1 DEF BitsInv, WaitsForProducer
  <1>11. QED
    BY <1>2, <1>7, <1>8, <1>10 DEF IInv

LEMMA NextInv == TypeOK /\ IInv /\ [Next]_vars => IInv'
  <1> SUFFICES ASSUME TypeOK, IInv, [Next]_vars PROVE IInv'
    OBVIOUS
  <1>1. ASSUME NEW p \in Producers, LoadCurrent(p) \/ ClaimFails(p)
        PROVE  IInv'
    <2>1. cursor \in Int
      BY DEF TypeOK
    <2>2. QED
      BY <1>1, <2>1, AttemptInv DEF LoadCurrent, ClaimFails
  <1>2. ASSUME NEW p \in Producers, \/ DropReturns(p)
                                    \/ \E c \in Managed : Join(p, c)
        PROVE  IInv'
    <2>1. /\ ppc[p] = "join"
          /\ \/ UNCHANGED ppc
             \/ ppc' \in {[ppc EXCEPT ![p] = "gone"], [ppc EXCEPT ![p] = "failed"]}
          /\ UNCHANGED <<slots, consumerVars, shutdown_at_sequence, scanned, barrierVars,
                         claimed_sequence, sequence_clear_of_consumers, request, claimVars,
                         updateVars, counter, historyVars>>
      BY <1>2 DEF DropReturns, Join, lifeVars
    <2>2. QED
      BY <2>1, JoinInv
  <1>3. CASE UNCHANGED vars
    <2>1. UNCHANGED <<slots, consumerVars, shutdown_at_sequence, scanned, barrierVars,
                      claimed_sequence, sequence_clear_of_consumers, request, claimVars,
                      updateVars, counter, historyVars, ppc>>
      BY <1>3 DEF vars, producerVars, lifeVars
    <2>2. QED
      BY <2>1, JoinInv
  <1>4. QED
    BY <1>1, <1>2, <1>3, CallInv, LoadRearInv, ClaimSucceedsInv, WriteEventInv,
       PublishWordInv, UpdatePanicsInv, CloneInv, DropInv, ScanWordInv, ConsumerInvStep
    DEF Next, Client, ProducerStep, Advance, Terminated

LEMMA TypeAndInvariance == Spec => [](TypeOK /\ IInv)
  <1>1. Init => TypeOK /\ IInv
    BY InitType, InitInv
  <1>2. TypeOK /\ IInv /\ [Next]_vars => (TypeOK /\ IInv)'
    BY NextType, NextInv
  <1>3. QED
    BY <1>1, <1>2, PTL DEF Spec

\* Every variable keeps its type: no handle is counted below zero, nothing but
\* claimed sequences is ever published or abandoned.
THEOREM TypeCorrect == Spec => []TypeOK
  BY TypeAndInvariance, PTL

\* The invariant all the results below follow from.
THEOREM Invariance == Spec => []IInv
  BY TypeAndInvariance, PTL

-----------------------------------------------------------------------------

(***************************************************************************)
(* The safety properties.                                                  *)
(***************************************************************************)

\* What a consumer refers to is published, in the last lap, and not given back.
LEMMA ReferredTo ==
  ASSUME TypeOK, IInv, NEW c \in Consumers, NEW t \in ReadSet(c)
  PROVE  /\ t \in Nat /\ t <= cursor /\ cursor < t + Size
         /\ IsPublished(t)
         /\ consumer_cursor[c] < t
         /\ \A u \in Before(c) : t <= consumer_cursor[u]
  <1>1. PICK k \in Int : /\ NONE <= k /\ k <= cursor
                         /\ \A s \in 0 .. k : IsPublished(s)
                         /\ ConsumerInv(k)
    BY Gapless
  <1>2. /\ t \in Int /\ consumer_cursor[c] < t /\ t <= k
        /\ \A u \in Before(c) : t <= consumer_cursor[u]
    BY <1>1, ReadSetFacts DEF TypeOK
  <1>3. /\ consumer_cursor[c] \in Int /\ NONE <= consumer_cursor[c] /\ cursor \in Int
        /\ cursor <= consumer_cursor[c] + Size
    BY CursorFacts
  <1>4. t \in Nat /\ t <= cursor /\ cursor < t + Size
    BY <1>1, <1>2, <1>3, SizeAssumption DEF NONE
  <1>5. IsPublished(t)
    BY <1>1, <1>2, <1>4
  <1>6. QED
    BY <1>2, <1>4, <1>5

\* What an update writes is claimed, pending and in the last lap.
LEMMA WrittenTo ==
  ASSUME TypeOK, IInv, NEW p \in Producers, NEW s \in WriteSet(p)
  PROVE  /\ s \in Nat /\ s <= cursor /\ cursor < s + Size
         /\ ~IsPublished(s)
         /\ s \in Pending(p)
  <1>1. s \in Pending(p)
    BY DEF WriteSet, Pending
  <1>2. QED
    BY <1>1, PendingFacts, NotYetPublished

\* Two references to one slot would be to sequences of one lap, which differ.
LEMMA UpdatesApart == TypeOK /\ IInv => NoDataRace
  <1>1. ASSUME TypeOK, IInv, NEW p \in Producers, NEW s \in WriteSet(p)
        PROVE  /\ \A c \in Consumers : \A t \in ReadSet(c) : SlotOf(s) # SlotOf(t)
               /\ \A q \in Producers \ {p} : \A t \in WriteSet(q) : SlotOf(s) # SlotOf(t)
    <2>1. ASSUME NEW c \in Consumers, NEW t \in ReadSet(c)
          PROVE  SlotOf(s) # SlotOf(t)
      <3>1. s # t
        BY <1>1, ReferredTo, WrittenTo
      <3>2. QED
        BY <1>1, <3>1, ReferredTo, WrittenTo, SameLap
    <2>2. ASSUME NEW q \in Producers \ {p}, NEW t \in WriteSet(q)
          PROVE  SlotOf(s) # SlotOf(t)
      <3>1. s # t
        BY <1>1, WrittenTo, PendingFacts
      <3>2. QED
        BY <1>1, <3>1, WrittenTo, SameLap
    <2>3. QED
      BY <2>1, <2>2
  <1>2. QED
    BY <1>1 DEF NoDataRace

\* No update ever writes a slot while a consumer or another update refers to it.
THEOREM RaceFreedom == Spec => []NoDataRace
  BY UpdatesApart, TypeAndInvariance, PTL

\* What is published in the last lap is still in its slot.
LEMMA ReadersServed == TypeOK /\ IInv => EventsIntact
  <1>1. ASSUME TypeOK, IInv, NEW c \in Consumers, NEW s \in ReadSet(c)
        PROVE  slots[SlotOf(s)] = s
    <2>1. s \in 0 .. cursor /\ cursor < s + Size /\ IsPublished(s)
      BY <1>1, ReferredTo DEF TypeOK
    <2>2. QED
      BY <1>1, <2>1 DEF IInv, SlotInv
  <1>2. QED
    BY <1>1 DEF EventsIntact

\* Consumers see every event as it was published, in sequence order, whichever
\* producers published it and its neighbours.
THEOREM Integrity == Spec => []EventsIntact
  BY ReadersServed, TypeAndInvariance, PTL

\* Batches end where the stages before have given everything back.
LEMMA StagesInOrder == TypeOK /\ IInv => StagesOrdered
  <1>1. ASSUME TypeOK, IInv, NEW c \in Consumers, NEW u \in Before(c)
        PROVE  /\ consumer_cursor[c] <= consumer_cursor[u]
               /\ \A s \in ReadSet(c) : s <= consumer_cursor[u]
    <2>1. PICK k \in Int : ConsumerInv(k)
      BY <1>1, Gapless
    <2>2. QED
      BY <1>1, <2>1, ReferredTo DEF ConsumerInv, CursorInv
  <1>2. QED
    BY <1>1 DEF StagesOrdered

\* No stage gets ahead of the stages before it.
THEOREM StageOrder == Spec => []StagesOrdered
  BY StagesInOrder, TypeAndInvariance, PTL

\* Behind the cursor the bits are those of the lap; ahead of it, of the one before.
LEMMA BitsOfTheLap == TypeOK /\ IInv => BitsTellPublished
  <1>1. ASSUME TypeOK, IInv, NEW s \in 0 .. cursor + Size, cursor - Size < s,
               \A c \in Consumers : s <= consumer_cursor[c] + Size
        PROVE  Available(s) <=> IsPublished(s)
    <2>1. s \in Int /\ cursor \in Int
      BY <1>1, SizeAssumption DEF TypeOK
    <2>2. CASE s <= cursor
      <3>1. s \in cursor - Size + 1 .. cursor
        BY <1>1, <2>1, <2>2, SizeAssumption
      <3>2. QED
        BY <1>1, <3>1 DEF IInv, BitsInv
    <2>3. CASE cursor < s
      <3>1. ~Available(s)
        BY <1>1, <2>1, <2>3, AheadNotAvailable
      <3>2. QED
        BY <2>1, <2>3, <3>1 DEF IsPublished
    <2>4. QED
      BY <2>1, <2>2, <2>3
  <1>2. QED
    BY <1>1 DEF BitsTellPublished, IsPublished

\* One bit per slot tells published from unpublished, on both sides of the
\* cursor, in whatever order producers finish and whichever of them panic.
THEOREM BitsTell == Spec => []BitsTellPublished
  BY BitsOfTheLap, TypeAndInvariance, PTL

\* A write changes the slot of an event a lap back, which every consumer is past.
LEMMA OverwriteReleased ==
  ASSUME TypeOK, IInv, NEW p \in Producers, WriteEvent(p), NEW i \in Slots, slots'[i] # slots[i],
         NEW c \in Consumers
  PROVE  consumer_cursor[c] >= slots[i]
  <1>1. PICK x \in Nat : x = position[p]
    BY WritePosition
  <1>2. /\ x <= cursor /\ cursor < x + Size
        /\ cursor \in Int /\ slots[i] \in Int
        /\ consumer_cursor[c] \in Int /\ NONE <= consumer_cursor[c]
        /\ cursor <= consumer_cursor[c] + Size
    BY <1>1, WritePosition, CursorFacts DEF TypeOK, SlotsTypeOK
  <1>3. i = SlotOf(x) /\ slots'[i] = x
    BY <1>1, WriteSlotEffect DEF WriteEvent, TypeOK
  <1>4. CASE slots[i] = NONE
    BY <1>2, <1>4
  <1>5. CASE slots[i] # NONE
    <2>1. SlotOf(slots[i]) = SlotOf(x) /\ slots[i] <= cursor /\ slots[i] # x
      BY <1>3, <1>5 DEF IInv, SlotInv
    <2>2. cursor >= slots[i] + Size
      <3>1. ~(cursor < slots[i] + Size)
        BY <1>2, <2>1, SameLap
      <3>2. QED
        BY <1>2, <3>1, SizeAssumption
    <2>3. QED
      BY <1>2, <2>2, SizeAssumption
  <1>6. QED
    BY <1>4, <1>5

\* An event is overwritten only after every consumer has given it back: one
\* lap separates it from the event that takes its slot, even if the producer
\* that writes it checked the consumers before others claimed sequences.
THEOREM NothingLost == Spec => NoEventLost
  <1>1. ASSUME TypeOK, IInv, [Next]_vars, NEW i \in Slots, slots'[i] # slots[i],
               NEW c \in Consumers
        PROVE  consumer_cursor[c] >= slots[i]
    <2>1. PICK p \in Producers : WriteEvent(p)
      BY <1>1
      DEF Next, Client, ProducerStep, Advance, Terminated, Call, LoadCurrent, LoadRear,
          ClaimSucceeds, ClaimFails, PublishWord, UpdatePanics, Clone, Drop, Join,
          DropReturns, ScanWord, ConsumerStep, ConsumerFailure, vars
    <2>2. QED
      BY <1>1, <2>1, OverwriteReleased
  <1>2. ASSUME TypeOK, IInv, [Next]_vars
        PROVE  [\A i \in Slots : slots'[i] # slots[i] =>
                  \A c \in Consumers : consumer_cursor[c] >= slots[i]]_vars
    BY <1>1, <1>2
  <1>3. QED
    BY <1>2, TypeAndInvariance, PTL DEF Spec, NoEventLost

-----------------------------------------------------------------------------

(***************************************************************************)
(* The disruptor implements the broadcast channel.                         *)
(***************************************************************************)

\* As far as it has been claimed, what the bits and the distance from the
\* cursor tell is what is published.
LEMMA PublishedFacts ==
  ASSUME TypeOK, IInv, NEW s \in 0 .. cursor
  PROVE  Published(s) <=> IsPublished(s)
  <1>1. s \in Int /\ s <= cursor /\ cursor \in Int
    BY DEF TypeOK
  <1>2. CASE s <= cursor - Size
    <2>1. PICK c \in Consumers : TRUE
      BY SomeConsumer
    <2>2. s <= consumer_cursor[c]
      BY <1>1, <1>2, CursorFacts, SizeAssumption
    <2>3. QED
      BY <1>1, <1>2, <2>2, GivenBack DEF Published
  <1>3. CASE ~(s <= cursor - Size)
    <2>1. s \in cursor - Size + 1 .. cursor
      BY <1>1, <1>3, SizeAssumption
    <2>2. QED
      BY <1>3, <2>1 DEF Published, IInv, BitsInv
  <1>4. QED
    BY <1>2, <1>3

\* What the published prefix is meant to be.
PrefixIsMaximal ==
  /\ PublishedPrefix \in 0 .. cursor + 1
  /\ \A s \in 0 .. PublishedPrefix - 1 : IsPublished(s)
  /\ PublishedPrefix = cursor + 1 \/ ~IsPublished(PublishedPrefix)

\* There is such a prefix: it ends at the least number not published.
LEMMA PrefixExists == TypeOK /\ IInv => PrefixIsMaximal
  <1> SUFFICES ASSUME TypeOK, IInv PROVE PrefixIsMaximal
    OBVIOUS
  <1> DEFINE unpublishable == {s \in Nat : s = cursor + 1 \/ ~IsPublished(s)}
             below == OpToRel(<, Nat)
  <1>1. cursor \in Int /\ cursor + 1 \in Nat
    BY DEF TypeOK, IInv, BoundInv, NONE
  <1>2. unpublishable \subseteq Nat /\ unpublishable # {}
    BY <1>1
  <1>3. PICK least \in unpublishable : \A s \in unpublishable : ~(<<s, least>> \in below)
    <2> HIDE DEF unpublishable, below
    <2>1. IsWellFoundedOn(below, Nat)
      BY NatLessThanWellFounded DEF below
    <2>2. QED
      BY <1>2, <2>1, WFMin
  <1>4. \A s \in unpublishable : ~(s < least)
    BY <1>2, <1>3 DEF OpToRel
  <1>5. least \in 0 .. cursor + 1
    BY <1>1, <1>2, <1>4
  <1>6. \A s \in 0 .. least - 1 : s \in 0 .. cursor /\ IsPublished(s)
    BY <1>1, <1>2, <1>4, <1>5
  <1>7. least = cursor + 1 \/ (least \in 0 .. cursor /\ ~IsPublished(least))
    <2>1. least = cursor + 1 \/ ~IsPublished(least)
      BY <1>3
    <2>2. least = cursor + 1 \/ least \in 0 .. cursor
      BY <1>1, <1>5
    <2>3. QED
      BY <2>1, <2>2
  <1> HIDE DEF unpublishable
  <1>8. \E k \in 0 .. cursor + 1 : /\ \A s \in 0 .. k - 1 : Published(s)
                                   /\ k = cursor + 1 \/ ~Published(k)
    BY <1>5, <1>6, <1>7, PublishedFacts
  <1>9. /\ PublishedPrefix \in 0 .. cursor + 1
        /\ \A s \in 0 .. PublishedPrefix - 1 : Published(s)
        /\ PublishedPrefix = cursor + 1 \/ ~Published(PublishedPrefix)
    BY <1>8 DEF PublishedPrefix
  <1> HIDE DEF below
  <1>10. \A s \in 0 .. PublishedPrefix - 1 : s \in 0 .. cursor
    BY <1>1, <1>9
  <1>11. PublishedPrefix = cursor + 1 \/ PublishedPrefix \in 0 .. cursor
    BY <1>1, <1>9
  <1>12. QED
    BY <1>9, <1>10, <1>11, PublishedFacts DEF PrefixIsMaximal

LEMMA PrefixCovers ==
  ASSUME TypeOK, IInv, NEW k \in Int, k <= cursor, \A s \in 0 .. k : IsPublished(s)
  PROVE  k + 1 <= PublishedPrefix /\ PublishedPrefix <= cursor + 1 /\ PublishedPrefix \in Nat
  <1>1. /\ PublishedPrefix \in 0 .. cursor + 1
        /\ PublishedPrefix = cursor + 1 \/ ~IsPublished(PublishedPrefix)
        /\ cursor \in Int
    BY PrefixExists DEF PrefixIsMaximal, TypeOK
  <1>2. QED
    BY <1>1

\* The prefix covers what any consumer has given back.
LEMMA PrefixAhead ==
  ASSUME TypeOK, IInv, NEW c \in Consumers
  PROVE  /\ consumer_cursor[c] + 1 <= PublishedPrefix
         /\ PublishedPrefix <= cursor + 1 /\ PublishedPrefix \in Nat
  <1>1. /\ consumer_cursor[c] \in Int /\ consumer_cursor[c] <= cursor
        /\ \A s \in 0 .. consumer_cursor[c] : IsPublished(s)
    BY CursorFacts, GivenBack
  <1>2. QED
    BY <1>1, PrefixCovers

\* Claiming does not change what is published without a gap.
LEMMA ClaimKeepsPrefix ==
  ASSUME TypeOK, IInv, TypeOK', IInv', NEW p \in Producers, ClaimSucceeds(p)
  PROVE  UNCHANGED PublishedPrefix
  <1>1. PrefixIsMaximal /\ PrefixIsMaximal'
    BY PrefixExists, PTL
  <1>2. \A s \in Int : IsPublished(s)' <=> IsPublished(s)
    BY ClaimSucceedsInv
  <1>3. PICK end \in Int : end = cursor' /\ cursor \in Int /\ cursor <= end
    BY DEF TypeOK, ClaimSucceeds, NobodyClaimed
  <1>4. PICK k \in Int : k = PublishedPrefix
    BY <1>1, <1>3 DEF PrefixIsMaximal
  <1>5. PICK l \in Int : l = PublishedPrefix'
    BY <1>1, <1>3 DEF PrefixIsMaximal
  <1>6. /\ k \in 0 .. cursor + 1
        /\ \A s \in 0 .. k - 1 : IsPublished(s)
        /\ k = cursor + 1 \/ ~IsPublished(k)
    BY <1>1, <1>4 DEF PrefixIsMaximal
  <1>7. /\ l \in 0 .. end + 1
        /\ \A s \in 0 .. l - 1 : IsPublished(s)'
        /\ l = end + 1 \/ ~IsPublished(l)'
    BY <1>1, <1>3, <1>5 DEF PrefixIsMaximal
  <1>8. ~IsPublished(k)
    BY <1>3, <1>6 DEF IsPublished
  <1>9. ~(k < l)
    BY <1>2, <1>6, <1>7, <1>8
  <1>10. ~(l < k)
    <2>1. SUFFICES ASSUME l < k PROVE FALSE
      OBVIOUS
    <2>2. 0 <= l /\ k <= cursor + 1
      BY <1>3, <1>6, <1>7
    <2>3. cursor \in Int /\ cursor <= end
      BY <1>3
    <2>4. l \in 0 .. k - 1
      BY <2>1, <2>2
    <2>5. l # end + 1
      BY <2>1, <2>2, <2>3
    <2>6. QED
      BY <1>2, <1>6, <1>7, <2>4, <2>5
  <1>11. QED
    BY <1>4, <1>5, <1>9, <1>10

LEMMA SamePrefix ==
  ASSUME UNCHANGED barrierVars
  PROVE  UNCHANGED PublishedPrefix
  BY DEF PublishedPrefix, Published, Available, barrierVars

PromisedReleased == [c \in Consumers |-> consumer_cursor[c] + 1]
PromisedFinished == {c \in Consumers : cpc[c] = "exited"}

LEMMA PromiseInit == Init => Promise!Init
  <1> SUFFICES ASSUME Init PROVE Promise!Init
    OBVIOUS
  <1>1. PublishedPrefix \in 0 .. cursor + 1 /\ cursor = NONE
    BY InitType, InitInv, PrefixExists DEF PrefixIsMaximal, Init, InitBarrier
  <1>2. PublishedPrefix = 0
    BY <1>1 DEF NONE
  <1>3. QED
    BY <1>2 DEF Init, InitConsumers, Promise!Init, Promise!Consumers, Consumers, NONE

\* Steps that publish nothing, move no cursor of a consumer, write no shutdown
\* word and end no consumer.
LEMMA Stutters ==
  ASSUME UNCHANGED <<PublishedPrefix, consumer_cursor, shutdown_at_sequence>>,
         \A c \in Consumers : cpc'[c] = "exited" <=> cpc[c] = "exited"
  PROVE  UNCHANGED Promise!vars
  BY DEF Promise!vars

\* One flip publishes as many events as it adds to the prefix: none if there is
\* a gap before them, and events of other producers too if it closes one.
LEMMA PublishPromise ==
  ASSUME TypeOK, IInv, TypeOK', IInv', NEW p \in Producers, PublishWord(p)
  PROVE  \E n \in 0 .. Size : Promise!Publish(n)
  <1>1. PrefixIsMaximal /\ PrefixIsMaximal'
    BY PrefixExists, PTL
  <1>2. /\ \A s \in Int : IsPublished(s) => IsPublished(s)'
        /\ cursor' = cursor /\ cursor \in Int
        /\ UNCHANGED <<consumer_cursor, cpc, shutdown_at_sequence>>
    BY PublishWordInv DEF PublishWord, TypeOK, consumerVars
  <1>3. PICK k \in Int : k = PublishedPrefix
    BY <1>1, <1>2 DEF PrefixIsMaximal
  <1>4. PICK l \in Int : l = PublishedPrefix'
    BY <1>1, <1>2 DEF PrefixIsMaximal
  <1>5. /\ k \in 0 .. cursor + 1
        /\ \A s \in 0 .. k - 1 : IsPublished(s)
    BY <1>1, <1>3 DEF PrefixIsMaximal
  <1>6. /\ l \in 0 .. cursor + 1
        /\ l = cursor + 1 \/ ~IsPublished(l)'
    BY <1>1, <1>2, <1>4 DEF PrefixIsMaximal
  <1>7. k <= l
    BY <1>2, <1>5, <1>6
  <1>8. PICK n \in Int : n = l - k
    OBVIOUS
  <1>9. \A c \in Consumers : k + n - PromisedReleased[c] <= Size /\ n <= Size
    <2>1. TAKE c \in Consumers
    <2>2. /\ consumer_cursor[c] \in Int /\ consumer_cursor[c] + 1 <= k
          /\ cursor <= consumer_cursor[c] + Size
      BY <1>3, PrefixAhead, CursorFacts
    <2>3. QED
      BY <1>2, <1>5, <1>6, <1>8, <2>2, SizeAssumption DEF PromisedReleased
  <1>10. n \in 0 .. Size
    <2>1. PICK c \in Consumers : TRUE
      BY SomeConsumer
    <2>2. QED
      BY <1>7, <1>8, <1>9, <2>1, SizeAssumption
  <1>11. shutdown_at_sequence = NONE
    <2>1. p \in Alive
      BY DEF PublishWord, Alive
    <2>2. QED
      BY <2>1 DEF IInv, LifeInv
  <1>12. PublishedPrefix' = PublishedPrefix + n
    <2>1. l = k + n
      BY <1>8
    <2>2. QED
      BY <1>3, <1>4, <2>1
  <1>13. Promise!Publish(n)
    BY <1>2, <1>3, <1>9, <1>11, <1>12
    DEF Promise!Publish, Promise!Consumers, Consumers, PromisedReleased
  <1>14. QED
    BY <1>10, <1>13

LEMMA ReleasePromise ==
  ASSUME TypeOK, IInv, NEW c \in Consumers, Release(c) \/ GuardDrop(c),
         UNCHANGED <<PublishedPrefix, shutdown_at_sequence>>
  PROVE  \E k \in 0 .. PublishedPrefix : Promise!Release(c, k)
  <1>1. PICK top \in Int : /\ top <= cursor
                           /\ \A s \in 0 .. top : IsPublished(s)
                           /\ ConsumerInv(top)
    BY Gapless
  <1>2. /\ cpc[c] \in {"handle", "guard"}
        /\ consumer_cursor' = [consumer_cursor EXCEPT ![c] = available[c]]
        /\ \/ cpc' = [cpc EXCEPT ![c] = "load"]
           \/ cpc' = [cpc EXCEPT ![c] = "idle"]
    <2>1. CASE Release(c)
      <3>1. /\ cpc[c] = "handle"
            /\ consumer_sequence[c] > available[c]
            /\ consumer_sequence[c] <= available[c] + 1
            /\ consumer_sequence[c] \in Int /\ available[c] \in Int
        BY <1>1, <2>1 DEF Release, TypeOK, ConsumersTypeOK, ConsumerInv, BatchInv
      <3>2. consumer_sequence[c] - 1 = available[c]
        BY <3>1
      <3>3. QED
        BY <2>1, <3>1, <3>2 DEF Release
    <2>2. CASE GuardDrop(c)
      BY <2>2 DEF GuardDrop
    <2>3. QED
      BY <2>1, <2>2
  <1>3. /\ consumer_cursor[c] <= available[c]
        /\ available[c] <= top
        /\ \A u \in Before(c) : available[c] <= consumer_cursor[u]
        /\ NONE <= consumer_cursor[c]
        /\ available[c] \in Int
        /\ consumer_cursor \in [Consumers -> Int]
    BY <1>1, <1>2 DEF TypeOK, ConsumersTypeOK, ConsumerInv, CursorInv, BatchInv
  <1>4. top + 1 <= PublishedPrefix /\ PublishedPrefix \in Nat
    BY <1>1, PrefixCovers
  <1>5. PICK k \in 0 .. PublishedPrefix : k = available[c] + 1
    <2>1. consumer_cursor[c] \in Int
      BY <1>3
    <2>2. QED
      BY <1>3, <1>4, <2>1 DEF NONE
  <1>6. c \notin PromisedFinished
    BY <1>2 DEF PromisedFinished
  <1>7. PromisedFinished' = PromisedFinished
    BY <1>2 DEF PromisedFinished, TypeOK, ConsumersTypeOK
  <1>8. PromisedReleased' = [PromisedReleased EXCEPT ![c] = k]
    BY <1>2, <1>3, <1>5 DEF PromisedReleased
  <1>9. PromisedReleased[c] <= k /\ k <= PublishedPrefix
    BY <1>3, <1>4, <1>5 DEF PromisedReleased
  <1>10. \A u \in Consumers : Stage[u] < Stage[c] => k <= PromisedReleased[u]
    BY <1>3, <1>5 DEF PromisedReleased, Before
  <1>11. Promise!Release(c, k)
    BY <1>6, <1>7, <1>8, <1>9, <1>10
    DEF Promise!Release, Promise!Consumers, Consumers, PromisedReleased, PromisedFinished
  <1>12. QED
    BY <1>11

\* A consumer that is told that the stream has ended has released all of it:
\* there is neither a gap nor a pending event left below the shutdown word.
LEMMA FinishPromise ==
  ASSUME TypeOK, IInv, NEW c \in Consumers,
         shutdown_at_sequence = consumer_cursor[c] + 1,
         cpc' = [cpc EXCEPT ![c] = "exited"],
         UNCHANGED <<PublishedPrefix, consumer_cursor, shutdown_at_sequence>>
  PROVE  Promise!Finish(c)
  <1>1. NONE <= consumer_cursor[c] /\ consumer_cursor[c] \in Int /\ cursor \in Int
    BY CursorFacts
  <1>2. shutdown_at_sequence # NONE
    BY <1>1 DEF NONE
  <1>3. shutdown_at_sequence = cursor + 1
    BY <1>2 DEF IInv, LifeInv
  <1>4. PromisedReleased[c] = PublishedPrefix
    BY <1>1, <1>3, PrefixAhead DEF PromisedReleased
  <1>5. PromisedFinished' = PromisedFinished \cup {c}
    BY DEF PromisedFinished, TypeOK, ConsumersTypeOK
  <1>6. QED
    BY <1>2, <1>4, <1>5
    DEF Promise!Finish, Promise!Consumers, Consumers, PromisedReleased, PromisedFinished

LEMMA ConsumerStepPromise ==
  ASSUME TypeOK, IInv, NEW c \in Consumers, ConsumerStep(c) \/ ConsumerFailure(c),
         UNCHANGED producerVars
  PROVE  [Promise!Next]_(Promise!vars)
  <1>1. UNCHANGED <<PublishedPrefix, shutdown_at_sequence>>
    BY SamePrefix DEF ConsumerStep, ConsumerFailure, producerVars
  <1>2. CASE Release(c) \/ GuardDrop(c)
    <2>1. PICK k \in 0 .. PublishedPrefix : Promise!Release(c, k)
      BY <1>1, <1>2, ReleasePromise
    <2>2. QED
      BY <2>1 DEF Promise!Next, Promise!Consumers, Consumers
  <1>3. CASE LoadShutdown(c) \/ Poll(c)
    <2>1. UNCHANGED consumer_cursor
      BY <1>3 DEF LoadShutdown, Poll
    <2>2. PICK top \in Int : ConsumerInv(top)
      BY Gapless
    <2>3. CASE shutdown_at_sequence = consumer_cursor[c] + 1
      <3>1. cpc' = [cpc EXCEPT ![c] = "exited"]
        BY <1>3, <2>2, <2>3
        DEF LoadShutdown, Poll, ConsumerInv, BatchInv, TypeOK, ConsumersTypeOK
      <3>2. Promise!Finish(c)
        BY <1>1, <2>1, <2>3, <3>1, FinishPromise
      <3>3. QED
        BY <3>2 DEF Promise!Next, Promise!Consumers, Consumers
    <2>4. CASE shutdown_at_sequence # consumer_cursor[c] + 1
      <3>1. cpc' = [cpc EXCEPT ![c] = "load"] /\ cpc[c] \in {"check", "idle"}
        BY <1>3, <2>2, <2>4
        DEF LoadShutdown, Poll, ConsumerInv, BatchInv, TypeOK, ConsumersTypeOK
      <3>2. \A d \in Consumers : cpc'[d] = "exited" <=> cpc[d] = "exited"
        BY <3>1 DEF TypeOK, ConsumersTypeOK
      <3>3. QED
        BY <1>1, <2>1, <3>2, Stutters
    <2>5. QED
      BY <2>3, <2>4
  <1>4. CASE LoadUpstream(c) \/ Handle(c) \/ GuardNext(c) \/ HandlerPanics(c)
    <2>1. UNCHANGED consumer_cursor
      BY <1>4 DEF LoadUpstream, Handle, GuardNext, HandlerPanics
    <2>2. \A d \in Consumers : cpc'[d] = "exited" <=> cpc[d] = "exited"
      BY <1>4
      DEF LoadUpstream, Observed, Obtained, NothingNew, Handle, GuardNext, HandlerPanics,
          TypeOK, ConsumersTypeOK
    <2>3. QED
      BY <1>1, <2>1, <2>2, Stutters
  <1>5. QED
    BY <1>2, <1>3, <1>4 DEF ConsumerStep, ConsumerFailure

LEMMA NextPromise ==
  ASSUME TypeOK, IInv, [Next]_vars
  PROVE  [Promise!Next]_(Promise!vars)
  <1>1. TypeOK' /\ IInv'
    BY NextType, NextInv
  <1>2. ASSUME NEW p \in Producers, PublishWord(p)
        PROVE  [Promise!Next]_(Promise!vars)
    BY <1>1, <1>2, PublishPromise DEF Promise!Next
  <1>3. ASSUME NEW p \in Producers, ClaimSucceeds(p)
        PROVE  [Promise!Next]_(Promise!vars)
    <2>1. UNCHANGED PublishedPrefix
      BY <1>1, <1>3, ClaimKeepsPrefix
    <2>2. UNCHANGED <<consumer_cursor, cpc, shutdown_at_sequence>>
      BY <1>3 DEF ClaimSucceeds, consumerVars
    <2>3. QED
      BY <2>1, <2>2, Stutters
  <1>4. ASSUME NEW p \in Producers, Drop(p)
        PROVE  [Promise!Next]_(Promise!vars)
    <2>1. UNCHANGED <<PublishedPrefix, consumer_cursor, cpc>>
      BY <1>4, SamePrefix DEF Drop, consumerVars
    <2>2. CASE counter = 1
      <3>1. shutdown_at_sequence = NONE /\ shutdown_at_sequence' # NONE
        BY <1>4, <2>2, DropInv DEF Drop, TypeOK, IInv, BoundInv, NONE
      <3>2. Promise!Close
        BY <2>1, <3>1 DEF Promise!Close
      <3>3. QED
        BY <3>2 DEF Promise!Next
    <2>3. CASE counter # 1
      BY <1>4, <2>1, <2>3, Stutters DEF Drop
    <2>4. QED
      BY <2>2, <2>3
  <1>5. ASSUME NEW c \in Consumers, ConsumerStep(c) \/ ConsumerFailure(c),
               UNCHANGED producerVars
        PROVE  [Promise!Next]_(Promise!vars)
    BY <1>5, ConsumerStepPromise
  <1>6. ASSUME NEW c \in Consumers, ScanWord(c)
        PROVE  [Promise!Next]_(Promise!vars)
    <2>1. UNCHANGED <<PublishedPrefix, consumer_cursor, shutdown_at_sequence>>
      BY <1>6, SamePrefix DEF ScanWord, producerVars
    <2>2. \A d \in Consumers : cpc'[d] = "exited" <=> cpc[d] = "exited"
      BY <1>6 DEF ScanWord, Observed, Obtained, NothingNew, TypeOK, ConsumersTypeOK
    <2>3. QED
      BY <2>1, <2>2, Stutters
  <1>7. CASE UNCHANGED <<consumerVars, shutdown_at_sequence, barrierVars>>
    BY <1>7, SamePrefix, Stutters DEF consumerVars
  <1>8. QED
    BY <1>2, <1>3, <1>4, <1>5, <1>6, <1>7
    DEF Next, Client, ProducerStep, Advance, Terminated, Call, LoadCurrent, LoadRear,
        ClaimFails, WriteEvent, UpdatePanics, Clone, Join, DropReturns, vars, producerVars

\* However the producers interleave, the disruptor is a broadcast channel:
\* publishing needs room at every consumer, consumers release events in order
\* and stage by stage, and leave only when everything published is released.
THEOREM Refinement == Spec => KeepsPromise
  <1>1. TypeOK /\ IInv /\ [Next]_vars => [Promise!Next]_(Promise!vars)
    BY NextPromise
  <1>2. QED
    BY <1>1, PromiseInit, TypeAndInvariance, PTL
    DEF Spec, KeepsPromise, Promise!Spec
=============================================================================
