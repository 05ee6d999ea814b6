-------------------------- MODULE ConsumersProofs --------------------------
(***************************************************************************)
(* The slots of a ring, and what the steps of a consumer preserve,         *)
(* whatever the producers do.  The lemmas about consumers take the highest *)
(* published sequence as a constant, top: no consumer step changes it.     *)
(***************************************************************************)
EXTENDS Consumers, TLAPS

(***************************************************************************)
(* Slots of a ring buffer of any size.                                     *)
(***************************************************************************)

LEMMA MultipleOfSize ==
  ASSUME NEW k \in Int
  PROVE  /\ k >= 1 => Size * k >= Size
         /\ k <= 0 => Size * k <= 0
  <1>1. k >= 1 => Size * k >= Size
    BY SizeAssumption, SMT
  <1>2. k <= 0 => Size * k <= 0
    BY SizeAssumption, SMT
  <1>3. QED
    BY <1>1, <1>2

\* RingBuffer::get never leaves the slots.
LEMMA SlotOfInSlots ==
  ASSUME NEW s \in Int
  PROVE  SlotOf(s) \in Slots
  BY SizeAssumption, SMT DEF SlotOf, Slots

LEMMA LapAndSlot ==
  ASSUME NEW s \in Int
  PROVE  /\ s \div Size \in Int
         /\ s = Size * (s \div Size) + SlotOf(s)
  BY SizeAssumption, SMT DEF SlotOf

\* Sequences less than one lap apart never share a slot.  This is what makes
\* a window of at most Size sequences safe to write while it is not read.
LEMMA DistinctSlots ==
  ASSUME NEW s \in Int, NEW t \in Int, s < t, t - s < Size
  PROVE  SlotOf(s) # SlotOf(t)
  <1> SUFFICES ASSUME SlotOf(s) = SlotOf(t) PROVE FALSE
    OBVIOUS
  <1> DEFINE k == t \div Size - s \div Size
  <1>1. k \in Int
    BY LapAndSlot
  <1>2. t - s = Size * k
    <2>1. /\ s = Size * (s \div Size) + SlotOf(s)
          /\ t = Size * (t \div Size) + SlotOf(t)
      BY LapAndSlot
    <2>2. SlotOf(s) \in Int
      BY SlotOfInSlots DEF Slots
    <2>3. Size * k = Size * (t \div Size) - Size * (s \div Size)
      BY LapAndSlot, SizeAssumption
    <2>4. Size * (t \div Size) \in Int /\ Size * (s \div Size) \in Int
      BY LapAndSlot, SizeAssumption
    <2>5. QED
      BY <2>1, <2>2, <2>3, <2>4
  <1> HIDE DEF k
  <1>3. CASE k >= 1
    BY <1>1, <1>2, <1>3, MultipleOfSize, SizeAssumption
  <1>4. CASE k <= 0
    BY <1>1, <1>2, <1>4, MultipleOfSize, SizeAssumption
  <1>5. QED
    BY <1>1, <1>3, <1>4

\* A write changes the slot of its sequence and no other.
LEMMA WriteSlotEffect ==
  ASSUME SlotsTypeOK, NEW s \in Int, WriteSlot(s)
  PROVE  /\ SlotsTypeOK'
         /\ slots'[SlotOf(s)] = s
         /\ \A i \in Slots : i # SlotOf(s) => slots'[i] = slots[i]
  BY SlotOfInSlots DEF SlotsTypeOK, WriteSlot

-----------------------------------------------------------------------------

(***************************************************************************)
(* Stages, folds and the steps of a consumer.                              *)
(***************************************************************************)

\* Every stage after the first has one before it.
LEMMA UpstreamFacts ==
  ASSUME NEW c \in Consumers
  PROVE  /\ Upstream(c) \in SUBSET Consumers
         /\ Before(c) \in SUBSET Consumers
         /\ Stage[c] = 1 => Before(c) = {} /\ Upstream(c) = {}
         /\ Stage[c] # 1 => \E u \in Upstream(c) : TRUE
         /\ \A u \in Upstream(c) : \A w \in Before(c) : w \in Upstream(c) \/ w \in Before(u)
  <1>1. /\ Stage \in [Consumers -> 1 .. Depth]
        /\ Depth \in Nat
        /\ \A i \in 1 .. Depth : \E d \in Consumers : Stage[d] = i
    BY ConsumersAssumption
  <1>2. /\ Upstream(c) \in SUBSET Consumers
        /\ Before(c) \in SUBSET Consumers
    BY DEF Upstream, Before
  <1>3. Stage[c] = 1 => Before(c) = {} /\ Upstream(c) = {}
    BY <1>1 DEF Upstream, Before
  <1>4. Stage[c] # 1 => \E u \in Upstream(c) : TRUE
    <2>1. SUFFICES ASSUME Stage[c] # 1
                   PROVE  \E u \in Consumers : Stage[u] = Stage[c] - 1
      BY DEF Upstream
    <2>2. Stage[c] - 1 \in 1 .. Depth
      BY <1>1, <2>1
    <2>3. QED
      BY <1>1, <2>2
  <1>5. ASSUME NEW u \in Upstream(c), NEW w \in Before(c)
        PROVE  w \in Upstream(c) \/ w \in Before(u)
    BY <1>1 DEF Upstream, Before
  <1>6. QED
    BY <1>2, <1>3, <1>4, <1>5

\* Gating on the last stage covers everybody: there is one, and all others are
\* before it.
LEMMA LastStageFacts ==
  /\ LastStage \in SUBSET Consumers
  /\ \E d \in LastStage : TRUE
  /\ \A c \in Consumers, d \in LastStage : c \in LastStage \/ c \in Before(d)
  BY ConsumersAssumption DEF LastStage, Before

LEMMA InitConsumersType == InitConsumers => ConsumersTypeOK
  BY ConsumersAssumption DEF InitConsumers, ConsumersTypeOK, Upstream, NONE

\* The initial state satisfies the consumers' invariant with nothing published.
LEMMA InitConsumerInv == InitConsumers => ConsumerInv(NONE)
  BY ConsumersAssumption
  DEF InitConsumers, ConsumerInv, CursorInv, FoldInv, BatchInv, ExitInv, Before,
      Managed, NONE

LEMMA ObservedType ==
  ASSUME ConsumersTypeOK, NEW c \in Consumers, NEW highest \in Int, Observed(c, highest)
  PROVE  /\ cpc' \in [Consumers -> {"idle", "load", "check", "handle", "guard",
                                    "exited", "panicked"}]
         /\ available' \in [Consumers -> Int]
         /\ unread' \in [Consumers -> SUBSET Consumers]
         /\ lowest' \in [Consumers -> Int]
  <1>1. Limits \subseteq Nat /\ I64Max \in Nat
    BY ConsumersAssumption
  <1>2. Upstream(c) \in SUBSET Consumers
    BY UpstreamFacts
  <1>3. unread' \in [Consumers -> SUBSET Consumers] /\ lowest' \in [Consumers -> Int]
    BY <1>1, <1>2 DEF ConsumersTypeOK, Observed
  <1>4. CASE Obtained(c, highest)
    BY <1>1, <1>3, <1>4 DEF ConsumersTypeOK, Obtained, MinOf, SaturatingAdd
  <1>5. CASE NothingNew(c, highest)
    BY <1>3, <1>5 DEF ConsumersTypeOK, NothingNew
  <1>6. QED
    BY <1>4, <1>5 DEF Observed

\* One load of a fold is well typed, whatever it returned.
LEMMA FoldStepType ==
  ASSUME ConsumersTypeOK, NEW c \in Consumers, NEW u \in unread[c], NEW minimum \in Int,
         \/ Observed(c, minimum)
         \/ /\ unread' = [unread EXCEPT ![c] = @ \ {u}]
            /\ lowest' = [lowest EXCEPT ![c] = minimum]
            /\ UNCHANGED <<cpc, available>>,
         UNCHANGED <<consumer_cursor, consumer_sequence, shutdown_at_sequence>>
  PROVE  ConsumersTypeOK'
  <1>1. CASE Observed(c, minimum)
    BY <1>1, ObservedType DEF ConsumersTypeOK
  <1>2. CASE ~Observed(c, minimum)
    BY <1>2 DEF ConsumersTypeOK
  <1>3. QED
    BY <1>1, <1>2

\* Type correctness of every step of a consumer.
LEMMA ConsumerStepType ==
  ASSUME ConsumersTypeOK, NEW c \in Consumers, ConsumerStep(c) \/ ConsumerFailure(c)
  PROVE  ConsumersTypeOK'
  <1>1. CASE LoadUpstream(c) /\ UNCHANGED shutdown_at_sequence
    <2>1. PICK u \in unread[c] :
            LET minimum == MinOf(consumer_cursor[u], lowest[c]) IN
            \/ Observed(c, minimum)
            \/ /\ unread' = [unread EXCEPT ![c] = @ \ {u}]
               /\ lowest' = [lowest EXCEPT ![c] = minimum]
               /\ UNCHANGED <<cpc, available>>
      BY <1>1 DEF LoadUpstream
    <2>2. MinOf(consumer_cursor[u], lowest[c]) \in Int
      BY DEF ConsumersTypeOK, MinOf
    <2>3. UNCHANGED <<consumer_cursor, consumer_sequence, shutdown_at_sequence>>
      BY <1>1 DEF LoadUpstream
    <2>4. QED
      BY <2>1, <2>2, <2>3, FoldStepType
  <1>2. CASE LoadShutdown(c) /\ UNCHANGED shutdown_at_sequence
    BY <1>2 DEF ConsumersTypeOK, LoadShutdown
  <1>3. CASE Handle(c) /\ UNCHANGED shutdown_at_sequence
    BY <1>3 DEF ConsumersTypeOK, Handle
  <1>4. CASE Release(c) /\ UNCHANGED shutdown_at_sequence
    BY <1>4 DEF ConsumersTypeOK, Release
  <1>5. CASE Poll(c) /\ UNCHANGED shutdown_at_sequence
    BY <1>5 DEF ConsumersTypeOK, Poll
  <1>6. CASE GuardNext(c) /\ UNCHANGED shutdown_at_sequence
    BY <1>6 DEF ConsumersTypeOK, GuardNext
  <1>7. CASE GuardDrop(c) /\ UNCHANGED shutdown_at_sequence
    BY <1>7 DEF ConsumersTypeOK, GuardDrop
  <1>8. CASE HandlerPanics(c) /\ UNCHANGED shutdown_at_sequence
    BY <1>8 DEF ConsumersTypeOK, HandlerPanics
  <1>9. QED
    BY <1>1, <1>2, <1>3, <1>4, <1>5, <1>6, <1>7, <1>8 DEF ConsumerStep, ConsumerFailure

-----------------------------------------------------------------------------

\* What the invariant says of the events a consumer holds references to: they
\* are published, not given back, and done with by all earlier stages.
LEMMA ReadSetFacts ==
  ASSUME ConsumersTypeOK, NEW top \in Int, ConsumerInv(top),
         NEW c \in Consumers, NEW s \in ReadSet(c)
  PROVE  /\ s \in Int
         /\ consumer_cursor[c] < s
         /\ s <= top
         /\ \A u \in Before(c) : s <= consumer_cursor[u]
  <1>1. Before(c) \in SUBSET Consumers
    BY UpstreamFacts
  <1>2. CASE cpc[c] = "handle"
    BY <1>1, <1>2 DEF ReadSet, ConsumerInv, BatchInv, ConsumersTypeOK
  <1>3. CASE cpc[c] = "guard"
    BY <1>1, <1>3 DEF ReadSet, ConsumerInv, BatchInv, ConsumersTypeOK
  <1>4. QED
    BY <1>2, <1>3 DEF ReadSet

\* A consumer step never moves a cursor back.
LEMMA CursorsGrow ==
  ASSUME ConsumersTypeOK, NEW top \in Int, ConsumerInv(top), NEW c \in Consumers,
         ConsumerStep(c) \/ ConsumerFailure(c)
  PROVE  \A d \in Consumers : consumer_cursor[d] <= consumer_cursor'[d]
  <1>1. CASE Release(c)
    BY <1>1 DEF Release, ConsumerInv, BatchInv, ConsumersTypeOK
  <1>2. CASE GuardDrop(c)
    BY <1>2 DEF GuardDrop, ConsumerInv, BatchInv, ConsumersTypeOK
  <1>3. CASE UNCHANGED consumer_cursor
    BY <1>3 DEF ConsumersTypeOK
  <1>4. QED
    BY <1>1, <1>2, <1>3
    DEF ConsumerStep, ConsumerFailure, LoadUpstream, LoadShutdown, Handle, Poll,
        GuardNext, HandlerPanics

\* A load of the whole barrier keeps the invariant when what it returned is
\* published and done with by every earlier stage.
LEMMA ObservedInv ==
  ASSUME ConsumersTypeOK, NEW top \in Int, top <= I64Max, ConsumerInv(top),
         NEW c \in Consumers, cpc[c] = "load",
         NEW highest \in Int, highest <= top,
         \A u \in Before(c) : highest <= consumer_cursor[u],
         Observed(c, highest),
         UNCHANGED <<consumer_cursor, consumer_sequence, shutdown_at_sequence>>
  PROVE  ConsumerInv(top)'
  <1>1. Limits \subseteq Nat /\ I64Max \in Nat /\ Pollers \subseteq Consumers
    BY ConsumersAssumption
  <1>2. Before(c) \in SUBSET Consumers /\ Upstream(c) \in SUBSET Consumers
    BY UpstreamFacts
  <1>3. CursorInv(top)'
    BY DEF ConsumerInv, CursorInv, Before
  <1>4. FoldInv'
    BY <1>2 DEF ConsumerInv, FoldInv, Observed, ConsumersTypeOK, Upstream
  <1>5. /\ cpc'[c] = "handle" => c \in Managed /\ available'[c] = highest
        /\ cpc'[c] = "guard" => /\ c \in Pollers
                                /\ \E limit \in Limits : available'[c] =
                                      MinOf(highest, SaturatingAdd(consumer_cursor[c], limit))
        /\ cpc'[c] \in {"handle", "guard"} => highest >= consumer_sequence[c]
        /\ cpc'[c] = "check" => c \in Managed
        /\ cpc'[c] = "idle" => c \in Pollers
        /\ cpc'[c] \in {"handle", "guard", "check", "idle"}
        /\ \A d \in Consumers : d # c => cpc'[d] = cpc[d] /\ available'[d] = available[d]
    <2>1. CASE Obtained(c, highest)
      BY <2>1 DEF Obtained, ConsumersTypeOK
    <2>2. CASE NothingNew(c, highest)
      BY <2>2 DEF NothingNew, ConsumersTypeOK, Managed
    <2>3. QED
      BY <2>1, <2>2 DEF Observed
  <1>6. /\ consumer_sequence[c] = consumer_cursor[c] + 1
        /\ NONE <= consumer_cursor[c]
        /\ consumer_cursor[c] <= top
    BY DEF ConsumerInv, BatchInv, CursorInv
  <1>7. cpc'[c] \in {"handle", "guard"} =>
          available'[c] \in Int /\ consumer_cursor[c] <= available'[c] /\ available'[c] <= highest
    BY <1>1, <1>5, <1>6 DEF MinOf, SaturatingAdd, ConsumersTypeOK
  <1>8. BatchInv(top)'
    <2> SUFFICES ASSUME NEW d \in Consumers
                 PROVE  BatchInv(top)!(d)'
      BY DEF BatchInv
    <2>1. CASE d = c
      BY <1>2, <1>5, <1>6, <1>7, <2>1 DEF ConsumersTypeOK, Before
    <2>2. CASE d # c
      BY <1>5, <2>2 DEF ConsumerInv, BatchInv, Before
    <2>3. QED
      BY <2>1, <2>2
  <1>9. ExitInv'
    BY <1>5 DEF ConsumerInv, ExitInv
  <1>10. QED
    BY <1>3, <1>4, <1>8, <1>9 DEF ConsumerInv

\* The minimum a completed fold returns is behind every earlier stage, whether
\* the last load saw the cursor as it is or as it was.
LEMMA FoldResult ==
  ASSUME ConsumersTypeOK, NEW top \in Int, ConsumerInv(top),
         NEW c \in Consumers, NEW u \in unread[c], unread[c] = {u},
         NEW value \in Int, value <= consumer_cursor[u]
  PROVE  LET minimum == MinOf(value, lowest[c]) IN
         /\ minimum \in Int
         /\ minimum <= top
         /\ \A w \in Before(c) : minimum <= consumer_cursor[w]
  <1> DEFINE minimum == MinOf(value, lowest[c])
  <1>1. /\ u \in Consumers
        /\ Before(c) \in SUBSET Consumers
        /\ Upstream(c) \in SUBSET Consumers
        /\ u \in Upstream(c)
    BY UpstreamFacts DEF ConsumerInv, FoldInv
  <1>2. /\ minimum \in Int
        /\ minimum <= consumer_cursor[u]
        /\ minimum <= lowest[c]
    BY <1>1 DEF ConsumersTypeOK, MinOf
  <1>3. \A w \in Upstream(c) : minimum <= consumer_cursor[w]
    BY <1>1, <1>2 DEF ConsumerInv, FoldInv, ConsumersTypeOK
  <1>4. minimum <= top
    BY <1>1, <1>2 DEF ConsumerInv, CursorInv, ConsumersTypeOK
  <1>5. ASSUME NEW w \in Before(c), w \in Before(u)
        PROVE  minimum <= consumer_cursor[w]
    BY <1>1, <1>2, <1>5 DEF ConsumerInv, CursorInv, ConsumersTypeOK
  <1>6. \A w \in Before(c) : w \in Upstream(c) \/ w \in Before(u)
    BY <1>1, UpstreamFacts
  <1>7. QED
    BY <1>2, <1>3, <1>4, <1>5, <1>6

\* One load of a fold over the stage before.
LEMMA FoldStepInv ==
  ASSUME ConsumersTypeOK, NEW top \in Int, top <= I64Max, ConsumerInv(top),
         NEW c \in Consumers, cpc[c] = "load", NEW u \in unread[c],
         NEW value \in Int, value <= consumer_cursor[u],
         NEW minimum, minimum = MinOf(value, lowest[c]),
         \/ unread[c] = {u} /\ Observed(c, minimum)
         \/ /\ unread' = [unread EXCEPT ![c] = @ \ {u}]
            /\ lowest' = [lowest EXCEPT ![c] = minimum]
            /\ UNCHANGED <<cpc, available>>,
         UNCHANGED <<consumer_cursor, consumer_sequence, shutdown_at_sequence>>
  PROVE  ConsumerInv(top)'
  <1>1. \A d \in Consumers : Before(d) \in SUBSET Consumers /\ Upstream(d) \in SUBSET Consumers
    BY UpstreamFacts
  <1>2. CASE unread[c] = {u} /\ Observed(c, minimum)
    <2>1. /\ minimum \in Int
          /\ minimum <= top
          /\ \A w \in Before(c) : minimum <= consumer_cursor[w]
      BY <1>2, FoldResult
    <2>2. QED
      BY <1>2, <2>1, ObservedInv
  <1>3. CASE /\ unread' = [unread EXCEPT ![c] = @ \ {u}]
             /\ lowest' = [lowest EXCEPT ![c] = minimum]
             /\ UNCHANGED <<cpc, available>>
    <2>1. FoldInv'
      BY <1>1, <1>3 DEF ConsumerInv, FoldInv, ConsumersTypeOK, MinOf, Upstream
    <2>2. QED
      BY <1>3, <2>1 DEF ConsumerInv, CursorInv, BatchInv, ExitInv, Before
  <1>4. QED
    BY <1>2, <1>3

\* Every step of a consumer keeps the consumers' invariant.
LEMMA ConsumerStepInv ==
  ASSUME ConsumersTypeOK, NEW top \in Int, top <= I64Max, ConsumerInv(top),
         NEW c \in Consumers, ConsumerStep(c) \/ ConsumerFailure(c)
  PROVE  ConsumerInv(top)'
  <1>1. Before(c) \in SUBSET Consumers /\ Upstream(c) \in SUBSET Consumers
    BY UpstreamFacts
  <1>2. \A d \in Consumers : Before(d) \in SUBSET Consumers /\ Upstream(d) \in SUBSET Consumers
    BY UpstreamFacts
  <1>3. CASE LoadUpstream(c) /\ UNCHANGED shutdown_at_sequence
    <2>1. PICK u \in unread[c] :
            LET minimum == MinOf(consumer_cursor[u], lowest[c]) IN
            \/ unread[c] = {u} /\ Observed(c, minimum)
            \/ /\ unread' = [unread EXCEPT ![c] = @ \ {u}]
               /\ lowest' = [lowest EXCEPT ![c] = minimum]
               /\ UNCHANGED <<cpc, available>>
      BY <1>3 DEF LoadUpstream
    <2>2. consumer_cursor[u] \in Int
      BY DEF ConsumersTypeOK
    <2>3. /\ cpc[c] = "load"
          /\ UNCHANGED <<consumer_cursor, consumer_sequence, shutdown_at_sequence>>
      BY <1>3 DEF LoadUpstream
    <2>4. QED
      BY <2>1, <2>2, <2>3, FoldStepInv
  <1>4. CASE LoadShutdown(c) /\ UNCHANGED shutdown_at_sequence
    BY <1>4 DEF LoadShutdown, ConsumerInv, CursorInv, FoldInv, BatchInv, ExitInv,
                Before, Upstream, ConsumersTypeOK
  <1>5. CASE Handle(c) /\ UNCHANGED shutdown_at_sequence
    BY <1>5 DEF Handle, ConsumerInv, CursorInv, FoldInv, BatchInv, ExitInv,
                Before, Upstream, ConsumersTypeOK
  <1>6. CASE HandlerPanics(c) /\ UNCHANGED shutdown_at_sequence
    BY <1>6 DEF HandlerPanics, ConsumerInv, CursorInv, FoldInv, BatchInv, ExitInv,
                Before, Upstream, ConsumersTypeOK
  <1>7. CASE Poll(c) /\ UNCHANGED shutdown_at_sequence
    BY <1>7 DEF Poll, ConsumerInv, CursorInv, FoldInv, BatchInv, ExitInv,
                Before, Upstream, ConsumersTypeOK
  <1>8. CASE GuardNext(c) /\ UNCHANGED shutdown_at_sequence
    BY <1>8 DEF GuardNext, ConsumerInv, CursorInv, FoldInv, BatchInv, ExitInv,
                Before, Upstream, ConsumersTypeOK
  <1>9. CASE (Release(c) \/ GuardDrop(c)) /\ UNCHANGED shutdown_at_sequence
    <2>1. /\ consumer_cursor' = [consumer_cursor EXCEPT ![c] = available[c]]
          /\ cpc[c] \in {"handle", "guard"}
          /\ UNCHANGED <<consumer_sequence, available, unread, lowest>>
      BY <1>9 DEF Release, GuardDrop, ConsumerInv, BatchInv, ConsumersTypeOK
    <2>2. /\ consumer_cursor[c] <= available[c]
          /\ available[c] <= top
          /\ \A u \in Before(c) : available[c] <= consumer_cursor[u]
      BY <2>1 DEF ConsumerInv, BatchInv
    <2>3. \A d \in Consumers : consumer_cursor[d] <= consumer_cursor'[d]
      BY <2>1, <2>2 DEF ConsumersTypeOK
    <2>4. CursorInv(top)'
      BY <1>2, <2>1, <2>2, <2>3 DEF ConsumerInv, CursorInv, Before, ConsumersTypeOK, NONE
    <2>5. FoldInv'
      BY <1>2, <2>1, <2>3 DEF ConsumerInv, FoldInv, Upstream, ConsumersTypeOK
    <2>6. BatchInv(top)'
      <3> SUFFICES ASSUME NEW d \in Consumers
                   PROVE  BatchInv(top)!(d)'
        BY DEF BatchInv
      <3>1. CASE d = c
        BY <1>9, <2>1, <3>1
        DEF Release, GuardDrop, ConsumerInv, BatchInv, ConsumersTypeOK
      <3>2. CASE d # c
        BY <1>2, <1>9, <2>1, <2>3, <3>2
        DEF Release, GuardDrop, ConsumerInv, BatchInv, ConsumersTypeOK, Before
      <3>3. QED
        BY <3>1, <3>2
    <2>7. ExitInv'
      BY <1>9, <2>1 DEF Release, GuardDrop, ConsumerInv, ExitInv, ConsumersTypeOK
    <2>8. QED
      BY <2>4, <2>5, <2>6, <2>7 DEF ConsumerInv
  <1>10. QED
    BY <1>3, <1>4, <1>5, <1>6, <1>7, <1>8, <1>9 DEF ConsumerStep, ConsumerFailure

\* The invariant allows for more to be published than it speaks of.
LEMMA HigherTop ==
  ASSUME ConsumersTypeOK, NEW top \in Int, NEW more \in Int, top <= more, ConsumerInv(top)
  PROVE  ConsumerInv(more)
  BY DEF ConsumersTypeOK, ConsumerInv, CursorInv, BatchInv

\* Publishing more disturbs nothing on the consumers' side.
LEMMA PublishedMore ==
  ASSUME ConsumersTypeOK, NEW top \in Int, NEW more \in Int, top <= more, ConsumerInv(top),
         UNCHANGED <<consumerVars, shutdown_at_sequence>>
  PROVE  ConsumerInv(more)'
  BY DEF ConsumersTypeOK, ConsumerInv, CursorInv, FoldInv, BatchInv, ExitInv,
         Before, Upstream, consumerVars
=============================================================================
