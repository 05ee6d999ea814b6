---------------------------- MODULE BuilderProofs ----------------------------
(***************************************************************************)
(* Proofs about the builders, for chains of any length: whatever the       *)
(* client calls, the arrangement built is one the running disruptor may    *)
(* start from, settings reach the thread they were meant for, and somebody *)
(* can join every thread.                                                  *)
(***************************************************************************)
EXTENDS Builders, FiniteSetTheorems, SequenceTheorems, TLAPS

(***************************************************************************)
(* The two builders take the same steps.                                   *)
(***************************************************************************)

\* The constructor returns or panics.
Constructed ==
  /\ state = "new"
  /\ state' \in {"NC", "rejected"}
  /\ UNCHANGED <<size, chainVars, threadVars, lifeVars>>

\* One consumer more, and a typestate that counts to two.
Added ==
  /\ state \in Typestates
  /\ state' = IF state = "NC" THEN "SC" ELSE "MC"
  /\ GetEventPoller \/ \E stateful \in BOOLEAN : AddEventHandler(stateful)

\* and_then(), as if there were one implementation of it.
StageEnded ==
  /\ state \in {"SC", "MC"}
  /\ state' = "NC"
  /\ NextStage(current_consumer_cursors, <<>>)

\* build(), likewise.
Built ==
  /\ state \in {"SC", "MC"}
  /\ Build(current_consumer_cursors)

BuilderStep ==
  Constructed \/ Added \/ StageEnded \/ Built \/ SharedStep \/ UNCHANGED vars

\* remove(0) from a Vec of one leaves it empty, so that the and_then() and
\* build() of SC do what those of MC do.
LEMMA OneCursor ==
  ASSUME TypeOK, TypestateCounts, state = "SC"
  PROVE  /\ <<Head(current_consumer_cursors)>> = current_consumer_cursors
         /\ Tail(current_consumer_cursors) = <<>>
  <1> DEFINE s == current_consumer_cursors
  <1>1. s \in Seq(Nat) /\ Len(s) = 1
    BY DEF TypeOK, TypestateCounts
  <1>2. Head(s) = s[1] /\ Tail(s) \in Seq(Nat) /\ Len(Tail(s)) = 0
    BY <1>1, HeadTailProperties
  <1> HIDE DEF s
  <1>3. <<Head(s)>> = s
    BY <1>1, <1>2, SMT
  <1>4. Tail(s) = <<>>
    BY <1>2, EmptySeq
  <1>5. QED
    BY <1>3, <1>4 DEF s

LEMMA UniIsBuilder == TypeOK /\ TypestateCounts /\ Uni!Next => BuilderStep
  <1> SUFFICES ASSUME TypeOK, TypestateCounts, Uni!Next PROVE BuilderStep
    OBVIOUS
  <1>1. Uni!New => Constructed
    BY DEF Uni!New, Uni!Construct, Constructed, Uni!chainVars, Uni!contextVars,
           Uni!threadVars, Uni!lifeVars, chainVars, contextVars, threadVars, lifeVars
  <1>2. Uni!GetEventPoller <=> GetEventPoller
    BY DEF Uni!GetEventPoller, GetEventPoller, Uni!AddCursor, AddCursor,
           Uni!NoSettings, NoSettings, Uni!threadVars, Uni!lifeVars, threadVars, lifeVars
  <1>3. ASSUME NEW b \in BOOLEAN PROVE Uni!AddEventHandler(b) <=> AddEventHandler(b)
    BY DEF Uni!AddEventHandler, AddEventHandler, Uni!AddCursor, AddCursor,
           Uni!AddHandle, AddHandle, Uni!AfterSpawn, AfterSpawn, Uni!PopName, PopName,
           Uni!NoSettings, NoSettings, Uni!lifeVars, lifeVars
  <1>4. Uni!FirstConsumer \/ Uni!SecondPoller \/ Uni!SecondHandler \/ Uni!FurtherConsumer => Added
    BY <1>2, <1>3 DEF Uni!FirstConsumer, Uni!SecondPoller, Uni!SecondHandler,
                      Uni!FurtherConsumer, Added, Typestates
  <1>5. Uni!AndThenSingle \/ Uni!AndThenMany => StageEnded
    BY OneCursor DEF Uni!AndThenSingle, Uni!AndThenMany, Uni!NextStage, NextStage,
                     StageEnded, Uni!threadVars, Uni!lifeVars, threadVars, lifeVars
  <1>6. Uni!BuildSingle \/ Uni!BuildMany => Built
    BY OneCursor DEF Uni!BuildSingle, Uni!BuildMany, Uni!Build, Build, Built,
                     Uni!threadVars, threadVars
  <1>7. Uni!SharedStep => SharedStep
    BY DEF SharedStep, Uni!SharedStep, ThreadName, Uni!ThreadName, PinAtCore,
           Uni!PinAtCore, PinPanics, Uni!PinPanics, SpawnPanics, Uni!SpawnPanics,
           DropBuilder, Uni!DropBuilder, Abandon, Uni!Abandon, Thread, Uni!Thread,
           InitializerPanics, Uni!InitializerPanics, Exit, Uni!Exit, Consumers,
           Uni!Consumers, Drop, Uni!Drop, Teardown, Uni!Teardown, Join, Uni!Join,
           DropReturns, Uni!DropReturns, Typestates, Uni!Typestates, chainVars,
           Uni!chainVars, contextVars, Uni!contextVars, threadVars,
           Uni!threadVars, lifeVars, Uni!lifeVars
  <1>8. Uni!Terminated => UNCHANGED vars
    BY DEF Uni!Terminated, Uni!vars, Uni!chainVars, Uni!contextVars, Uni!threadVars,
           Uni!lifeVars, vars, chainVars, contextVars, threadVars, lifeVars
  <1>9. QED
    BY <1>1, <1>4, <1>5, <1>6, <1>7, <1>8 DEF Uni!Next, BuilderStep

LEMMA MultiIsBuilder == TypeOK /\ TypestateCounts /\ Multi!Next => BuilderStep
  <1> SUFFICES ASSUME TypeOK, TypestateCounts, Multi!Next PROVE BuilderStep
    OBVIOUS
  <1>1. Multi!New => Constructed
    BY DEF Multi!New, Multi!Construct, Constructed, Multi!chainVars, Multi!contextVars,
           Multi!threadVars, Multi!lifeVars, chainVars, contextVars, threadVars, lifeVars
  <1>2. Multi!GetEventPoller <=> GetEventPoller
    BY DEF Multi!GetEventPoller, GetEventPoller, Multi!AddCursor, AddCursor,
           Multi!NoSettings, NoSettings, Multi!threadVars, Multi!lifeVars, threadVars, lifeVars
  <1>3. ASSUME NEW b \in BOOLEAN PROVE Multi!AddEventHandler(b) <=> AddEventHandler(b)
    BY DEF Multi!AddEventHandler, AddEventHandler, Multi!AddCursor, AddCursor,
           Multi!AddHandle, AddHandle, Multi!AfterSpawn, AfterSpawn, Multi!PopName, PopName,
           Multi!NoSettings, NoSettings, Multi!lifeVars, lifeVars
  <1>4. Multi!FirstConsumer \/ Multi!SecondConsumer \/ Multi!FurtherConsumer => Added
    BY <1>2, <1>3 DEF Multi!FirstConsumer, Multi!SecondConsumer,
                      Multi!FurtherConsumer, Added, Typestates
  <1>5. Multi!AndThenSingle \/ Multi!AndThenMany => StageEnded
    BY OneCursor DEF Multi!AndThenSingle, Multi!AndThenMany, Multi!NextStage, NextStage,
                     StageEnded, Multi!threadVars, Multi!lifeVars, threadVars, lifeVars
  <1>6. Multi!BuildSingle \/ Multi!BuildMany => Built
    BY OneCursor DEF Multi!BuildSingle, Multi!BuildMany, Multi!Build, Build, Built,
                     Multi!threadVars, threadVars
  <1>7. Multi!SharedStep => SharedStep
    BY DEF SharedStep, Multi!SharedStep, ThreadName, Multi!ThreadName, PinAtCore,
           Multi!PinAtCore, PinPanics, Multi!PinPanics, SpawnPanics,
           Multi!SpawnPanics, DropBuilder, Multi!DropBuilder, Abandon,
           Multi!Abandon, Thread, Multi!Thread, InitializerPanics,
           Multi!InitializerPanics, Exit, Multi!Exit, Consumers, Multi!Consumers,
           Drop, Multi!Drop, Teardown, Multi!Teardown, Join, Multi!Join,
           DropReturns, Multi!DropReturns, Typestates, Multi!Typestates,
           chainVars, Multi!chainVars, contextVars, Multi!contextVars, threadVars,
           Multi!threadVars, lifeVars, Multi!lifeVars
  <1>8. Multi!Terminated => UNCHANGED vars
    BY DEF Multi!Terminated, Multi!vars, Multi!chainVars, Multi!contextVars, Multi!threadVars,
           Multi!lifeVars, vars, chainVars, contextVars, threadVars, lifeVars
  <1>9. QED
    BY <1>1, <1>4, <1>5, <1>6, <1>7, <1>8 DEF Multi!Next, BuilderStep

(***************************************************************************)
(* Sequences of cursors, and of consumers.                                 *)
(***************************************************************************)

LEMMA AppendFacts ==
  ASSUME NEW S, NEW s \in Seq(S), NEW x \in S
  PROVE  /\ Append(s, x) \in Seq(S)
         /\ DOMAIN Append(s, x) = DOMAIN s \cup {Len(s) + 1}
         /\ Len(s) + 1 \notin DOMAIN s
         /\ Len(Append(s, x)) = Len(s) + 1
         /\ \A i \in DOMAIN s : Append(s, x)[i] = s[i]
         /\ Append(s, x)[Len(s) + 1] = x
         /\ Elements(Append(s, x)) = Elements(s) \cup {x}
  <1> DEFINE t == Append(s, x)
  <1>1. /\ t \in Seq(S) /\ Len(t) = Len(s) + 1
        /\ \A i \in 1 .. Len(s) : t[i] = s[i]
        /\ t[Len(s) + 1] = x
    BY AppendProperties
  <1>2. Len(s) \in Nat /\ DOMAIN s = 1 .. Len(s) /\ DOMAIN t = 1 .. Len(t)
    BY <1>1, LenProperties
  <1> HIDE DEF t
  <1>3. DOMAIN t = DOMAIN s \cup {Len(s) + 1} /\ Len(s) + 1 \notin DOMAIN s
    BY <1>1, <1>2
  <1>4. Elements(t) = Elements(s) \cup {x}
    BY <1>1, <1>2, <1>3 DEF Elements
  <1>5. QED
    BY <1>1, <1>2, <1>3, <1>4 DEF t

\* What is known of one consumer.
Descriptions ==
  [polled : BOOLEAN, stateful : BOOLEAN, barrier : Seq(Nat),
   name : Names \cup {NoName} \cup Nat, affinity : CoreIds \cup {NoCore},
   stage : Nat, asked : Settings]

\* The description of the consumer a step adds.
NewHandler(stateful) ==
  [polled |-> FALSE, stateful |-> stateful, barrier |-> dependent_barrier,
   name |-> PopName(thread_context), affinity |-> thread_context.affinity,
   stage |-> stage, asked |-> asked]

NewPoller ==
  [polled |-> TRUE, stateful |-> FALSE, barrier |-> dependent_barrier,
   name |-> NoName, affinity |-> NoCore, stage |-> stage, asked |-> NoSettings]

LEMMA NewDescriptions ==
  ASSUME TypeOK
  PROVE  NewPoller \in Descriptions /\ \A b \in BOOLEAN : NewHandler(b) \in Descriptions
  <1>1. PopName(thread_context) \in Names \cup {NoName} \cup Nat
    BY DEF TypeOK, PopName
  <1>2. QED
    BY <1>1 DEF TypeOK, Descriptions, NewPoller, NewHandler, NoSettings, Settings

\* Consumers keep their numbers, and the next one is added to the current stage.
LEMMA OneConsumerMore ==
  ASSUME TypeOK, NEW r \in Descriptions, consumers' = Append(consumers, r),
         NEW n, n = Len(consumers) + 1
  PROVE  /\ n \in Nat \ {0} /\ Len(consumers)' = n
         /\ Consumers = 1 .. (n - 1) /\ Consumers' = 1 .. n
         /\ consumers' \in Seq(Descriptions)
         /\ \A c \in Consumers : consumers'[c] = consumers[c]
         /\ consumers'[n] = r
         /\ \A k : StageMembers(k)' =
                     StageMembers(k) \cup (IF r.stage = k THEN {n} ELSE {})
  <1>1. consumers \in Seq(Descriptions)
    BY DEF TypeOK, Descriptions
  <1>2. Len(consumers) \in Nat /\ Consumers = 1 .. Len(consumers)
    BY <1>1, LenProperties DEF Consumers
  <1>3. /\ consumers' \in Seq(Descriptions) /\ Len(consumers') = n
        /\ Consumers' = Consumers \cup {n} /\ n \notin Consumers
        /\ \A c \in Consumers : consumers'[c] = consumers[c]
        /\ consumers'[n] = r
    BY <1>1, AppendFacts DEF Consumers
  <1>4. \A k : StageMembers(k)' =
                 StageMembers(k) \cup (IF r.stage = k THEN {n} ELSE {})
    BY <1>3 DEF StageMembers
  <1>5. QED
    BY <1>2, <1>3, <1>4

(***************************************************************************)
(* Types.                                                                  *)
(***************************************************************************)

LEMMA InitType == InitEither => TypeOK
  <1> SUFFICES ASSUME InitEither PROVE TypeOK
    OBVIOUS
  <1> USE DEF InitEither, Init, InitRequest, InitContext, TypeOK
  <1>1. /\ <<>> \in Seq(Nat)
        /\ consumers \in Seq([polled : BOOLEAN, stateful : BOOLEAN, barrier : Seq(Nat),
                        name : Names \cup {NoName} \cup Nat,
                        affinity : CoreIds \cup {NoCore}, stage : Nat, asked : Settings])
    BY EmptySeq
  <1>2. <<ProducerCursor>> \in Seq(Nat)
    BY DEF ProducerCursor
  <1>3. size \in Nat
    BY BuilderAssumption
  <1>4. QED
    BY <1>1, <1>2, <1>3 DEF NoSettings, Settings, NONE, Typestates, Consumers

LEMMA AddedType == TypeOK /\ Added => TypeOK'
  <1> SUFFICES ASSUME TypeOK, Added PROVE TypeOK'
    OBVIOUS
  <1> DEFINE n == Len(consumers) + 1
  <1>1. PICK r \in Descriptions : consumers' = Append(consumers, r)
    BY NewDescriptions DEF Added, GetEventPoller, AddEventHandler, NewPoller, NewHandler
  <1>2. n \in Nat /\ Consumers' = Consumers \cup {n} /\ n \notin Consumers
    BY <1>1, OneConsumerMore
  <1>3. consumers' \in Seq(Descriptions)
    BY <1>1, OneConsumerMore
  <1> HIDE DEF n
  <1>4. state' \in {"SC", "MC"}
    BY DEF Added
  <1>5. current_consumer_cursors' \in Seq(Nat)
    <2>1. current_consumer_cursors' = Append(current_consumer_cursors, n)
      BY DEF Added, GetEventPoller, AddEventHandler, AddCursor, n
    <2>2. current_consumer_cursors \in Seq(Nat)
      BY DEF TypeOK
    <2>3. QED
      BY <1>2, <2>1, <2>2, AppendProperties
  <1>6. CASE GetEventPoller
    BY <1>2, <1>3, <1>4, <1>5, <1>6
       DEF TypeOK, GetEventPoller, threadVars, lifeVars, Typestates, Descriptions
  <1>7. CASE \E stateful \in BOOLEAN : AddEventHandler(stateful)
    <2>1. consumer_handles' \in Seq(Nat)
      BY <1>2, <1>7, AppendProperties DEF TypeOK, AddEventHandler, AddHandle, n
    <2>2. thread_context' \in [name : Names \cup {NoName}, affinity : CoreIds \cup {NoCore},
                               id : Nat]
      BY <1>7 DEF TypeOK, AddEventHandler, AfterSpawn
    <2>3. running' = running \cup {n} /\ panicked' = panicked
      BY <1>7 DEF AddEventHandler, n
    <2>4. running' \subseteq Consumers' /\ panicked' \subseteq Consumers' \ running'
      BY <1>2, <2>3 DEF TypeOK
    <2>5. asked' \in Settings
      BY <1>7 DEF AddEventHandler, NoSettings, Settings
    <2>6. QED
      BY <1>3, <1>4, <1>5, <1>7, <2>1, <2>2, <2>4, <2>5
         DEF TypeOK, AddEventHandler, lifeVars, Typestates, Descriptions
  <1>8. QED
    BY <1>6, <1>7 DEF Added

LEMMA SharedType == TypeOK /\ SharedStep => TypeOK'
  <1> SUFFICES ASSUME TypeOK, SharedStep PROVE TypeOK'
    OBVIOUS
  <1> USE DEF chainVars, contextVars, threadVars, lifeVars, Consumers, Typestates
  <1>1. ASSUME NEW name \in Names, ThreadName(name) PROVE TypeOK'
    BY <1>1 DEF ThreadName, TypeOK, Settings
  <1>2. ASSUME NEW id \in CoreIds, PinAtCore(id) PROVE TypeOK'
    BY <1>2 DEF PinAtCore, TypeOK, Settings
  <1>3. ASSUME Abandon PROVE TypeOK'
    BY <1>3, EmptySeq DEF Abandon, TypeOK
  <1>4. ASSUME NEW c \in Consumers, Thread(c) PROVE TypeOK'
    BY <1>4 DEF Thread, InitializerPanics, Exit, TypeOK
  <1>5. ASSUME Drop PROVE TypeOK'
    BY <1>5 DEF Drop, TypeOK
  <1>6. ASSUME Teardown PROVE TypeOK'
    <2>1. ASSUME Join PROVE TypeOK'
      <3>1. /\ UNCHANGED <<size, chainVars, threadVars, gating, shutdown_at_sequence>>
            /\ state' \in {state, "failed"} /\ joined' \in {joined, joined + 1}
        BY <2>1 DEF Join
      <3>2. joined' \in Nat
        BY <3>1 DEF TypeOK
      <3>3. QED
        BY <3>1, <3>2 DEF TypeOK
    <2>2. ASSUME DropReturns PROVE TypeOK'
      BY <2>2 DEF DropReturns, TypeOK
    <2>3. QED
      BY <1>6, <2>1, <2>2 DEF Teardown
  <1>7. QED
    BY <1>1, <1>2, <1>3, <1>4, <1>5, <1>6
       DEF SharedStep, PinPanics, SpawnPanics, DropBuilder

LEMMA StepType == TypeOK /\ BuilderStep => TypeOK'
  <1> SUFFICES ASSUME TypeOK, BuilderStep PROVE TypeOK'
    OBVIOUS
  <1> USE DEF chainVars, contextVars, threadVars, lifeVars, Consumers, Typestates
  <1>1. CASE Constructed
    BY <1>1 DEF Constructed, TypeOK
  <1>2. CASE Added
    BY <1>2, AddedType
  <1>3. CASE StageEnded
    BY <1>3, EmptySeq DEF StageEnded, NextStage, TypeOK
  <1>4. CASE Built
    BY <1>4, EmptySeq DEF Built, Build, TypeOK
  <1>5. CASE SharedStep
    BY <1>5, SharedType
  <1>6. CASE UNCHANGED vars
    BY <1>6 DEF vars, TypeOK
  <1>7. QED
    BY <1>1, <1>2, <1>3, <1>4, <1>5, <1>6 DEF BuilderStep
(***************************************************************************)
(* The arrangement.                                                        *)
(***************************************************************************)

LEMMA InitPipeline == InitEither => BuildsPipeline
  <1> SUFFICES ASSUME InitEither PROVE BuildsPipeline
    OBVIOUS
  <1> USE DEF InitEither, Init, InitRequest, InitContext
  <1>1. Consumers = {} /\ \A k : StageMembers(k) = {}
    BY DEF Consumers, StageMembers
  <1>2. Elements(dependent_barrier) = {ProducerCursor}
    BY DEF Elements
  <1>3. QED
    BY <1>1, <1>2 DEF BuildsPipeline, TypestateCounts, StagesChained, StagesFilled,
                      LastStageGates, Before, Typestates

\* What an added consumer does to the chain, whichever kind it is.
LEMMA AddedFacts ==
  ASSUME TypeOK, Added
  PROVE  \E r \in Descriptions, n \in Nat \ {0} :
           /\ n = Len(consumers) + 1
           /\ consumers' = Append(consumers, r)
           /\ \/ r = NewPoller /\ GetEventPoller
              \/ \E b \in BOOLEAN : r = NewHandler(b) /\ AddEventHandler(b)
           /\ r.stage = stage /\ r.barrier = dependent_barrier
           /\ stage' = stage /\ dependent_barrier' = dependent_barrier
           /\ Len(current_consumer_cursors') = Len(current_consumer_cursors) + 1
           /\ Elements(current_consumer_cursors)' =
                Elements(current_consumer_cursors) \cup {n}
  <1> DEFINE n == Len(consumers) + 1
  <1>1. PICK r \in Descriptions :
          /\ consumers' = Append(consumers, r)
          /\ \/ r = NewPoller /\ GetEventPoller
             \/ \E b \in BOOLEAN : r = NewHandler(b) /\ AddEventHandler(b)
    BY NewDescriptions DEF Added, GetEventPoller, AddEventHandler, NewPoller, NewHandler
  <1>2. n \in Nat \ {0}
    BY <1>1, OneConsumerMore
  <1>3. r.stage = stage /\ r.barrier = dependent_barrier
    BY <1>1 DEF NewPoller, NewHandler
  <1>4. stage' = stage /\ dependent_barrier' = dependent_barrier
    BY DEF Added, GetEventPoller, AddEventHandler
  <1>5. current_consumer_cursors' = Append(current_consumer_cursors, n)
    BY DEF Added, GetEventPoller, AddEventHandler, AddCursor
  <1>6. current_consumer_cursors \in Seq(Nat)
    BY DEF TypeOK
  <1> HIDE DEF n
  <1>7. /\ Len(current_consumer_cursors') = Len(current_consumer_cursors) + 1
        /\ Elements(Append(current_consumer_cursors, n)) =
             Elements(current_consumer_cursors) \cup {n}
    BY <1>2, <1>5, <1>6, AppendFacts
  <1>8. Elements(current_consumer_cursors)' = Elements(current_consumer_cursors) \cup {n}
    BY <1>5, <1>7 DEF Elements
  <1>9. QED
    BY <1>1, <1>2, <1>3, <1>4, <1>7, <1>8 DEF n

LEMMA AddedPipeline == TypeOK /\ IInv /\ Added => BuildsPipeline'
  <1> SUFFICES ASSUME TypeOK, IInv, Added PROVE BuildsPipeline'
    OBVIOUS
  <1>1. PICK r \in Descriptions, n \in Nat \ {0} :
          /\ n = Len(consumers) + 1
          /\ consumers' = Append(consumers, r)
          /\ r.stage = stage /\ r.barrier = dependent_barrier
          /\ stage' = stage /\ dependent_barrier' = dependent_barrier
          /\ Len(current_consumer_cursors') = Len(current_consumer_cursors) + 1
          /\ Elements(current_consumer_cursors)' =
               Elements(current_consumer_cursors) \cup {n}
    BY AddedFacts
  <1>2. /\ Consumers = 1 .. (n - 1) /\ Consumers' = 1 .. n
        /\ \A c \in Consumers : consumers'[c] = consumers[c]
        /\ consumers'[n] = r
        /\ \A k : StageMembers(k)' =
                    StageMembers(k) \cup (IF r.stage = k THEN {n} ELSE {})
    BY <1>1, OneConsumerMore
  <1>3. stage \in Nat \ {0}
    BY DEF TypeOK
  <1>4. ASSUME NEW k \in 1 .. stage PROVE Before(k)' = Before(k)
    <2>1. k - 1 # stage
      BY <1>3
    <2>2. StageMembers(k - 1)' = StageMembers(k - 1)
      BY <1>1, <1>2, <2>1
    <2>3. QED
      BY <2>2 DEF Before
  <1>5. TypestateCounts'
    <2>1. state \in Typestates /\ state' = IF state = "NC" THEN "SC" ELSE "MC"
      BY DEF Added
    <2>2. Elements(current_consumer_cursors)' = StageMembers(stage)'
      BY <1>1, <1>2, <2>1 DEF IInv, BuildsPipeline, TypestateCounts
    <2>3. Len(current_consumer_cursors) \in Nat
      BY LenProperties DEF TypeOK
    <2>4. CASE state = "NC"
      BY <1>1, <2>1, <2>2, <2>4 DEF IInv, BuildsPipeline, TypestateCounts
    <2>5. CASE state # "NC"
      <3>1. Len(current_consumer_cursors) >= 1
        BY <2>1, <2>3, <2>5 DEF IInv, BuildsPipeline, TypestateCounts, Typestates
      <3>2. QED
        BY <1>1, <2>1, <2>2, <2>3, <2>5, <3>1 DEF TypestateCounts
    <2>6. QED
      BY <2>4, <2>5
  <1>6. StagesChained'
    <2>1. Elements(dependent_barrier)' = Before(stage)
      BY <1>1 DEF IInv, BuildsPipeline, StagesChained, Elements
    <2>2. Before(stage)' = Before(stage)
      BY <1>1, <1>3, <1>4 DEF Before
    <2>3. ASSUME NEW c \in Consumers
          PROVE  Elements(consumers[c].barrier)' = Before(consumers[c].stage)'
      <3>1. consumers[c].stage \in 1 .. stage
        BY DEF IInv, BuildsPipeline, StagesFilled
      <3>2. Before(consumers[c].stage)' = Before(consumers[c].stage)
        BY <1>2, <1>4, <3>1 DEF Before
      <3>3. QED
        BY <1>2, <3>2 DEF IInv, BuildsPipeline, StagesChained, Elements
    <2>4. Elements(consumers[n].barrier)' = Before(consumers[n].stage)'
      <3>1. consumers'[n].stage = stage' /\ consumers'[n].barrier = dependent_barrier'
        BY <1>1, <1>2
      <3>2. Elements(consumers[n].barrier)' = Elements(dependent_barrier)'
        BY <3>1 DEF Elements
      <3>3. Before(consumers[n].stage)' = Before(stage)'
        BY <3>1 DEF Before, StageMembers
      <3>4. QED
        BY <2>1, <2>2, <3>2, <3>3
    <2>5. QED
      BY <1>2, <2>1, <2>2, <2>3, <2>4 DEF StagesChained
  <1>7. StagesFilled'
    <2>1. StagesFilled
      BY DEF IInv, BuildsPipeline
    <2>2. /\ \A c \in Consumers' : consumers'[c].stage \in 1 .. stage
          /\ \A c, d \in Consumers' : c < d => consumers'[c].stage <= consumers'[d].stage
      <3>1. \A c \in Consumers : consumers'[c].stage \in 1 .. stage
        BY <1>2, <2>1 DEF StagesFilled
      <3>2. consumers'[n].stage = stage /\ stage \in 1 .. stage
        BY <1>1, <1>2, <1>3
      <3>3. \A c, d \in Consumers : c < d => consumers'[c].stage <= consumers'[d].stage
        BY <1>2, <2>1 DEF StagesFilled
      <3>4. QED
        BY <1>2, <1>3, <3>1, <3>2, <3>3
    <2>3. \A k \in 1 .. stage - 1 : StageMembers(k)' # {}
      BY <1>1, <1>2, <1>3, <2>1 DEF StagesFilled
    <2>4. QED
      BY <1>1, <1>2, <1>3, <2>2, <2>3 DEF StagesFilled
  <1>8. LastStageGates'
    BY DEF Added, LastStageGates
  <1>9. QED
    BY <1>5, <1>6, <1>7, <1>8 DEF BuildsPipeline

LEMMA StageEndedPipeline == TypeOK /\ IInv /\ StageEnded => BuildsPipeline'
  <1> SUFFICES ASSUME TypeOK, IInv, StageEnded PROVE BuildsPipeline'
    OBVIOUS
  <1> USE DEF StageEnded, NextStage
  <1>1. stage \in Nat \ {0} /\ stage' = stage + 1
    BY DEF TypeOK
  <1>2. Consumers' = Consumers /\ \A k : StageMembers(k)' = StageMembers(k)
    BY DEF Consumers, StageMembers
  <1>3. StageMembers(stage + 1) = {}
    BY <1>1 DEF IInv, BuildsPipeline, StagesFilled, StageMembers
  <1>4. Elements(current_consumer_cursors) = StageMembers(stage)
    BY DEF IInv, BuildsPipeline, TypestateCounts, Typestates
  <1>5. StageMembers(stage) # {}
    <2>1. /\ current_consumer_cursors \in Seq(Nat)
          /\ Len(current_consumer_cursors) = 1 \/ Len(current_consumer_cursors) >= 2
      BY DEF TypeOK, IInv, BuildsPipeline, TypestateCounts
    <2>2. /\ Len(current_consumer_cursors) \in Nat
          /\ DOMAIN current_consumer_cursors = 1 .. Len(current_consumer_cursors)
      BY <2>1, LenProperties
    <2>3. 1 \in DOMAIN current_consumer_cursors
      BY <2>1, <2>2
    <2>4. QED
      BY <1>4, <2>3 DEF Elements
  <1>6. TypestateCounts'
    <2>1. Elements(current_consumer_cursors)' = {}
      BY DEF Elements
    <2>2. StageMembers(stage)' = StageMembers(stage + 1)
      BY <1>1, <1>2 DEF StageMembers
    <2>3. QED
      BY <1>3, <2>1, <2>2 DEF TypestateCounts
  <1>7. StagesChained'
    <2>1. Elements(dependent_barrier)' = StageMembers(stage)
      BY <1>4 DEF Elements
    <2>2. Before(stage)' = StageMembers(stage)
      BY <1>1, <1>2 DEF Before, StageMembers
    <2>3. ASSUME NEW c \in Consumers
          PROVE  Elements(consumers[c].barrier)' = Before(consumers[c].stage)'
      <3>1. Before(consumers[c].stage)' = Before(consumers[c].stage)
        BY DEF Before, StageMembers, Consumers
      <3>2. Elements(consumers[c].barrier)' = Elements(consumers[c].barrier)
        BY DEF Elements
      <3>3. QED
        BY <3>1, <3>2 DEF IInv, BuildsPipeline, StagesChained
    <2>4. QED
      BY <1>2, <2>1, <2>2, <2>3 DEF StagesChained
  <1>8. StagesFilled'
    BY <1>1, <1>2, <1>5 DEF IInv, BuildsPipeline, StagesFilled
  <1>9. LastStageGates'
    BY DEF LastStageGates
  <1>10. QED
    BY <1>6, <1>7, <1>8, <1>9 DEF BuildsPipeline

\* A step that leaves the chain alone leaves the arrangement alone.
LEMMA QuietPipeline ==
  ASSUME TypeOK, BuildsPipeline,
         UNCHANGED dependent_barrier, UNCHANGED consumers, UNCHANGED stage,
         state' \in Typestates =>
           \/ state' = state /\ UNCHANGED current_consumer_cursors
           \/ /\ state = "new" /\ state' = "NC"
              /\ current_consumer_cursors' = <<>> /\ consumers = <<>>,
         state' \in {"built", "joining", "dropped", "failed"} =>
           \/ state \in {"built", "joining", "dropped", "failed"} /\ UNCHANGED gating
           \/ state \in {"SC", "MC"} /\ gating' = current_consumer_cursors
  PROVE  BuildsPipeline'
  <1>1. Consumers' = Consumers /\ \A k : StageMembers(k)' = StageMembers(k)
    BY DEF Consumers, StageMembers
  <1>2. StageMembers(stage)' = StageMembers(stage)
    BY <1>1 DEF StageMembers
  <1>3. TypestateCounts'
    <2>1. CASE state' = state /\ UNCHANGED current_consumer_cursors
      BY <1>2, <2>1 DEF BuildsPipeline, TypestateCounts, Elements
    <2>2. CASE state' = "NC" /\ current_consumer_cursors' = <<>> /\ consumers = <<>>
      BY <1>2, <2>2 DEF TypestateCounts, Elements, StageMembers, Consumers
    <2>3. CASE state' \notin Typestates
      BY <2>3 DEF TypestateCounts, Typestates
    <2>4. QED
      BY <2>1, <2>2, <2>3
  <1>4. StagesChained' /\ StagesFilled'
    <2>1. UNCHANGED Elements(dependent_barrier) /\ UNCHANGED Before(stage)
      BY DEF Elements, Before, StageMembers, Consumers
    <2>2. ASSUME NEW c \in Consumers
          PROVE  Elements(consumers[c].barrier)' = Before(consumers[c].stage)'
      <3>1. UNCHANGED Elements(consumers[c].barrier) /\ UNCHANGED Before(consumers[c].stage)
        BY DEF Elements, Before, StageMembers, Consumers
      <3>2. QED
        BY <3>1 DEF BuildsPipeline, StagesChained
    <2>3. StagesChained'
      BY <1>1, <2>1, <2>2 DEF BuildsPipeline, StagesChained
    <2>4. StagesFilled'
      BY <1>1 DEF BuildsPipeline, StagesFilled
    <2>5. QED
      BY <2>3, <2>4
  <1>5. LastStageGates'
    <2>1. CASE state \in {"built", "joining", "dropped", "failed"} /\ UNCHANGED gating
      BY <1>2, <2>1 DEF BuildsPipeline, LastStageGates, Elements
    <2>2. CASE state \in {"SC", "MC"} /\ gating' = current_consumer_cursors
      <3>1. current_consumer_cursors # <<>>
        BY <2>2, Len(<<>>) = 0 DEF BuildsPipeline, TypestateCounts
      <3>2. Elements(gating)' = StageMembers(stage)'
        BY <1>2, <2>2 DEF BuildsPipeline, TypestateCounts, Elements, Typestates
      <3>3. QED
        BY <2>2, <3>1, <3>2 DEF LastStageGates
    <2>3. CASE state' \notin {"built", "joining", "dropped", "failed"}
      BY <2>3 DEF LastStageGates
    <2>4. QED
      BY <2>1, <2>2, <2>3
  <1>6. QED
    BY <1>3, <1>4, <1>5 DEF BuildsPipeline

LEMMA StepPipeline == TypeOK /\ IInv /\ BuilderStep => BuildsPipeline'
  <1> SUFFICES ASSUME TypeOK, IInv, BuilderStep PROVE BuildsPipeline'
    OBVIOUS
  <1> USE DEF chainVars, contextVars, threadVars, lifeVars, Typestates
  <1>1. CASE Constructed
    BY <1>1, QuietPipeline DEF Constructed, IInv, NothingYet
  <1>2. CASE Added
    BY <1>2, AddedPipeline
  <1>3. CASE StageEnded
    BY <1>3, StageEndedPipeline
  <1>4. CASE Built
    BY <1>4, QuietPipeline DEF Built, Build, IInv
  <1>5. CASE SharedStep
    <2>1. BuildsPipeline
      BY DEF IInv
    <2>2. /\ UNCHANGED dependent_barrier /\ UNCHANGED consumers /\ UNCHANGED stage
          /\ UNCHANGED current_consumer_cursors /\ UNCHANGED gating
      BY <1>5 DEF SharedStep, ThreadName, PinAtCore, PinPanics, SpawnPanics,
                  DropBuilder, Abandon, Thread, InitializerPanics, Exit, Drop,
                  Teardown, Join, DropReturns
    <2>3. \/ state' = state
          \/ state' = "abandoned"
          \/ /\ state \in {"built", "joining"}
             /\ state' \in {"joining", "dropped", "failed"}
      BY <1>5 DEF SharedStep, ThreadName, PinAtCore, PinPanics, SpawnPanics,
                  DropBuilder, Abandon, Thread, InitializerPanics, Exit, Drop,
                  Teardown, Join, DropReturns
    <2>4. state' \in Typestates => state' = state /\ UNCHANGED current_consumer_cursors
      BY <2>2, <2>3
    <2>5. state' \in {"built", "joining", "dropped", "failed"} =>
            state \in {"built", "joining", "dropped", "failed"} /\ UNCHANGED gating
      BY <2>2, <2>3
    <2>6. QED
      BY <2>1, <2>2, <2>4, <2>5, QuietPipeline
  <1>6. CASE UNCHANGED vars
    <2>1. /\ UNCHANGED dependent_barrier /\ UNCHANGED consumers /\ UNCHANGED stage
          /\ UNCHANGED state /\ UNCHANGED current_consumer_cursors /\ UNCHANGED gating
      BY <1>6 DEF vars
    <2>2. BuildsPipeline
      BY DEF IInv
    <2>3. state' \in Typestates => state' = state /\ UNCHANGED current_consumer_cursors
      BY <2>1
    <2>4. state' \in {"built", "joining", "dropped", "failed"} =>
            state \in {"built", "joining", "dropped", "failed"} /\ UNCHANGED gating
      BY <2>1
    <2>5. QED
      BY <2>1, <2>2, <2>3, <2>4, QuietPipeline
  <1>7. QED
    BY <1>1, <1>2, <1>3, <1>4, <1>5, <1>6 DEF BuilderStep
(***************************************************************************)
(* The settings.                                                           *)
(***************************************************************************)

LEMMA UnnamedFinite ==
  ASSUME NEW n \in Nat
  PROVE  IsFiniteSet(Unnamed(n)) /\ Cardinality(Unnamed(n)) \in Nat
  <1>1. IsFiniteSet(1 .. n)
    BY FS_Interval
  <1>2. Unnamed(n) \in SUBSET (1 .. n)
    BY DEF Unnamed
  <1>3. IsFiniteSet(Unnamed(n))
    BY <1>1, <1>2, FS_Subset
  <1>4. QED
    BY <1>3, FS_CardinalityType

\* The number of unnamed threads once a consumer is added.
LEMMA OneUnnamedMore ==
  ASSUME TypeOK, NEW r \in Descriptions, consumers' = Append(consumers, r),
         NEW n, n = Len(consumers) + 1
  PROVE  /\ \A c \in Consumers : Unnamed(c)' = Unnamed(c)
         /\ Cardinality(Unnamed(n)') = Cardinality(Unnamed(n - 1)) +
              (IF ~r.polled /\ r.asked.name = NoName THEN 1 ELSE 0)
  <1>1. /\ n \in Nat \ {0}
        /\ Consumers = 1 .. (n - 1) /\ Consumers' = 1 .. n
        /\ \A c \in Consumers : consumers'[c] = consumers[c]
        /\ consumers'[n] = r
    BY OneConsumerMore
  <1>2. \A c \in Consumers : Unnamed(c)' = Unnamed(c)
    BY <1>1 DEF Unnamed
  <1>3. IsFiniteSet(Unnamed(n - 1)) /\ Cardinality(Unnamed(n - 1)) \in Nat
    BY <1>1, UnnamedFinite
  <1>4. n \notin Unnamed(n - 1)
    BY <1>1 DEF Unnamed
  <1>5. CASE ~r.polled /\ r.asked.name = NoName
    <2>1. Unnamed(n)' = Unnamed(n - 1) \cup {n}
      BY <1>1, <1>5 DEF Unnamed
    <2>2. QED
      BY <1>2, <1>3, <1>4, <1>5, <2>1, FS_AddElement
  <1>6. CASE ~(~r.polled /\ r.asked.name = NoName)
    <2>1. Unnamed(n)' = Unnamed(n - 1)
      BY <1>1, <1>6 DEF Unnamed
    <2>2. QED
      BY <1>2, <1>3, <1>6, <2>1
  <1>7. QED
    BY <1>5, <1>6

LEMMA AddedSettings == TypeOK /\ IInv /\ Added => SettingsApplyOnce' /\ SettingsKept'
  <1> SUFFICES ASSUME TypeOK, IInv, Added PROVE SettingsApplyOnce' /\ SettingsKept'
    OBVIOUS
  <1>1. PICK r \in Descriptions, n \in Nat \ {0} :
          /\ n = Len(consumers) + 1
          /\ consumers' = Append(consumers, r)
          /\ \/ r = NewPoller /\ GetEventPoller
             \/ \E b \in BOOLEAN : r = NewHandler(b) /\ AddEventHandler(b)
    BY AddedFacts
  <1>2. /\ Consumers = 1 .. (n - 1) /\ Consumers' = 1 .. n
        /\ Len(consumers)' = n
        /\ \A c \in Consumers : consumers'[c] = consumers[c]
        /\ consumers'[n] = r
    BY <1>1, OneConsumerMore
  <1>3. /\ \A c \in Consumers : Unnamed(c)' = Unnamed(c)
        /\ Cardinality(Unnamed(n)') = Cardinality(Unnamed(n - 1)) +
             (IF ~r.polled /\ r.asked.name = NoName THEN 1 ELSE 0)
    BY <1>1, OneUnnamedMore
  <1>4. thread_context.id = Cardinality(Unnamed(n - 1)) /\ thread_context.id \in Nat
    <2>1. Len(consumers) = n - 1
      BY <1>1, LenProperties DEF TypeOK
    <2>2. QED
      BY <2>1 DEF IInv, SettingsKept, TypeOK
  <1>5. thread_context.name = asked.name /\ thread_context.affinity = asked.affinity
    BY DEF IInv, SettingsKept
  <1>6. ASSUME NEW c \in Consumers
        PROVE  ~consumers'[c].polled =>
                 /\ consumers'[c].affinity = consumers'[c].asked.affinity
                 /\ consumers'[c].name =
                      IF consumers'[c].asked.name # NoName THEN consumers'[c].asked.name
                      ELSE Cardinality(Unnamed(c)')
    BY <1>2, <1>3 DEF IInv, SettingsApplyOnce
  <1>7. CASE r = NewPoller /\ GetEventPoller
    <2>1. r.polled
      BY <1>7 DEF NewPoller
    <2>2. SettingsApplyOnce'
      BY <1>2, <1>6, <2>1 DEF SettingsApplyOnce
    <2>3. UNCHANGED thread_context /\ UNCHANGED asked
      BY <1>7 DEF GetEventPoller
    <2>4. Cardinality(Unnamed(n)') = thread_context.id
      BY <1>3, <1>4, <2>1
    <2>5. SettingsKept'
      BY <1>2, <1>5, <2>3, <2>4 DEF SettingsKept, Unnamed
    <2>6. QED
      BY <2>2, <2>5
  <1>8. ASSUME NEW b \in BOOLEAN, r = NewHandler(b), AddEventHandler(b)
        PROVE  SettingsApplyOnce' /\ SettingsKept'
    <2>1. /\ ~r.polled /\ r.asked = asked
          /\ r.name = PopName(thread_context)
          /\ r.affinity = thread_context.affinity
      BY <1>8 DEF NewHandler
    <2>2. thread_context' = AfterSpawn(thread_context) /\ asked' = NoSettings
      BY <1>8 DEF AddEventHandler
    <2>3. r.name = IF r.asked.name # NoName THEN r.asked.name ELSE Cardinality(Unnamed(n)')
      BY <1>3, <1>4, <1>5, <2>1 DEF PopName
    <2>4. SettingsApplyOnce'
      BY <1>2, <1>5, <1>6, <2>1, <2>3 DEF SettingsApplyOnce
    <2>5. thread_context'.id = Cardinality(Unnamed(n)')
      BY <1>3, <1>4, <1>5, <2>1, <2>2 DEF AfterSpawn
    <2>6. SettingsKept'
      BY <1>2, <2>2, <2>5 DEF SettingsKept, AfterSpawn, NoSettings, Unnamed
    <2>7. QED
      BY <2>4, <2>6
  <1>9. QED
    BY <1>1, <1>7, <1>8

\* Nobody else touches what a thread was started with, and thread_name() and
\* pin_at_core() note down what was asked for.
LEMMA StepSettings ==
  TypeOK /\ IInv /\ BuilderStep => SettingsApplyOnce' /\ SettingsKept'
  <1> SUFFICES ASSUME TypeOK, IInv, BuilderStep PROVE SettingsApplyOnce' /\ SettingsKept'
    OBVIOUS
  <1>1. CASE Added
    BY <1>1, AddedSettings
  <1>2. ASSUME UNCHANGED consumers
        PROVE  SettingsApplyOnce' /\ Cardinality(Unnamed(Len(consumers)))' =
                                     Cardinality(Unnamed(Len(consumers)))
    BY <1>2 DEF IInv, SettingsApplyOnce, Unnamed, Consumers
  <1>3. ASSUME UNCHANGED consumers, UNCHANGED thread_context, UNCHANGED asked
        PROVE  SettingsApplyOnce' /\ SettingsKept'
    BY <1>2, <1>3 DEF IInv, SettingsKept
  <1>4. CASE Constructed
    BY <1>3, <1>4 DEF Constructed, chainVars, contextVars
  <1>5. CASE StageEnded
    BY <1>3, <1>5 DEF StageEnded, NextStage
  <1>6. CASE Built
    BY <1>3, <1>6 DEF Built, Build
  <1>7. CASE SharedStep
    <2>1. ASSUME NEW name \in Names, ThreadName(name)
          PROVE  SettingsApplyOnce' /\ SettingsKept'
      BY <1>2, <2>1 DEF ThreadName, TypeOK, IInv, SettingsKept, Settings
    <2>2. ASSUME NEW id \in CoreIds, PinAtCore(id)
          PROVE  SettingsApplyOnce' /\ SettingsKept'
      BY <1>2, <2>2 DEF PinAtCore, TypeOK, IInv, SettingsKept, Settings
    <2>3. QED
      BY <1>3, <1>7, <2>1, <2>2
         DEF SharedStep, PinPanics, SpawnPanics, DropBuilder, Abandon, Thread,
             InitializerPanics, Exit, Drop, Teardown, Join, DropReturns,
             chainVars, contextVars
  <1>8. CASE UNCHANGED vars
    BY <1>3, <1>8 DEF vars, chainVars, contextVars
  <1>9. QED
    BY <1>1, <1>4, <1>5, <1>6, <1>7, <1>8 DEF BuilderStep

(***************************************************************************)
(* The threads.                                                            *)
(***************************************************************************)

LEMMA AddedThreads == TypeOK /\ IInv /\ Added => ThreadsOwned' /\ HandlesKept'
  <1> SUFFICES ASSUME TypeOK, IInv, Added PROVE ThreadsOwned' /\ HandlesKept'
    OBVIOUS
  <1>1. PICK r \in Descriptions, n \in Nat \ {0} :
          /\ n = Len(consumers) + 1
          /\ consumers' = Append(consumers, r)
          /\ \/ r = NewPoller /\ GetEventPoller
             \/ \E b \in BOOLEAN : r = NewHandler(b) /\ AddEventHandler(b)
    BY AddedFacts
  <1>2. /\ Consumers = 1 .. (n - 1) /\ Consumers' = 1 .. n
        /\ \A c \in Consumers : consumers'[c] = consumers[c]
        /\ consumers'[n] = r
    BY <1>1, OneConsumerMore
  <1>3. /\ state \in Typestates /\ state' \in {"SC", "MC"}
        /\ UNCHANGED joined
    BY DEF Added, Typestates, GetEventPoller, AddEventHandler, lifeVars
  <1>4. /\ joined = 0
        /\ Elements(consumer_handles) = {c \in Consumers : ~consumers[c].polled}
        /\ running \subseteq Elements(consumer_handles)
    BY <1>3 DEF IInv, HandlesKept, ThreadsOwned, Typestates, TypeOK
  <1>5. /\ consumer_handles \in Seq(Nat)
        /\ Len(consumer_handles') \in Nat
        /\ Elements(consumer_handles)' = {c \in Consumers' : ~consumers'[c].polled}
        /\ running' \subseteq Elements(consumer_handles)'
    <2>1. consumer_handles \in Seq(Nat) /\ Len(consumer_handles) \in Nat
      BY LenProperties DEF TypeOK
    <2>2. CASE r = NewPoller /\ GetEventPoller
      <3>1. r.polled /\ UNCHANGED consumer_handles /\ UNCHANGED running
        BY <2>2 DEF NewPoller, GetEventPoller, threadVars
      <3>2. Elements(consumer_handles)' = Elements(consumer_handles)
        BY <3>1 DEF Elements
      <3>3. {c \in Consumers' : ~consumers'[c].polled} = {c \in Consumers : ~consumers[c].polled}
        BY <1>2, <3>1
      <3>4. QED
        BY <1>4, <2>1, <3>1, <3>2, <3>3
    <2>3. ASSUME NEW b \in BOOLEAN, r = NewHandler(b), AddEventHandler(b)
          PROVE  /\ Len(consumer_handles') \in Nat
                 /\ Elements(consumer_handles)' = {c \in Consumers' : ~consumers'[c].polled}
                 /\ running' \subseteq Elements(consumer_handles)'
      <3>1. /\ ~r.polled /\ consumer_handles' = Append(consumer_handles, n)
            /\ running' = running \cup {n}
        BY <1>1, <2>3 DEF NewHandler, AddEventHandler, AddHandle
      <3>2. /\ Len(consumer_handles') = Len(consumer_handles) + 1
            /\ Elements(Append(consumer_handles, n)) = Elements(consumer_handles) \cup {n}
        BY <2>1, <3>1, AppendFacts
      <3>3. Elements(consumer_handles)' = Elements(consumer_handles) \cup {n}
        BY <3>1, <3>2 DEF Elements
      <3>4. {c \in Consumers' : ~consumers'[c].polled} =
              {c \in Consumers : ~consumers[c].polled} \cup {n}
        BY <1>2, <3>1
      <3>5. QED
        BY <1>4, <2>1, <3>1, <3>2, <3>3, <3>4
    <2>4. QED
      BY <1>1, <2>1, <2>2, <2>3
  <1>6. ThreadsOwned'
    BY <1>3, <1>5 DEF ThreadsOwned, Typestates
  <1>7. HandlesKept'
    BY <1>3, <1>4, <1>5 DEF HandlesKept
  <1>8. QED
    BY <1>6, <1>7
\* Threads may leave; nothing else is done to them or to their handles.
LEMMA QuietThreads ==
  ASSUME TypeOK, ThreadsOwned, HandlesKept,
         UNCHANGED consumers, UNCHANGED consumer_handles, UNCHANGED joined,
         UNCHANGED shutdown_at_sequence, running' \subseteq running,
         \/ state' = state
         \/ state = "new" /\ state' \in {"NC", "rejected"}
         \/ state \in Typestates /\ state' \in Typestates \cup {"built"}
  PROVE  ThreadsOwned' /\ HandlesKept'
  <1>1. UNCHANGED Elements(consumer_handles) /\ UNCHANGED Consumers
    BY DEF Elements, Consumers
  <1>2. ThreadsOwned'
    BY <1>1 DEF ThreadsOwned, Typestates
  <1>3. HandlesKept'
    BY <1>1 DEF HandlesKept, Typestates, TypeOK
  <1>4. QED
    BY <1>2, <1>3

LEMMA JoinThreads == TypeOK /\ IInv /\ Join => ThreadsOwned' /\ HandlesKept'
  <1> SUFFICES ASSUME TypeOK, IInv, Join PROVE ThreadsOwned' /\ HandlesKept'
    OBVIOUS
  <1>1. /\ state = "joining" /\ joined < Len(consumer_handles)
        /\ consumer_handles[joined + 1] \notin running
        /\ UNCHANGED consumers /\ UNCHANGED consumer_handles /\ UNCHANGED running
        /\ UNCHANGED shutdown_at_sequence
        /\ \/ state' = "failed" /\ UNCHANGED joined
           \/ state' = state /\ joined' = joined + 1
    BY DEF Join, chainVars, contextVars, threadVars
  <1>2. UNCHANGED Elements(consumer_handles) /\ UNCHANGED Consumers
    BY <1>1 DEF Elements, Consumers
  <1>3. shutdown_at_sequence = 0
    BY <1>1 DEF IInv, HandlesKept
  <1>4. ThreadsOwned'
    BY <1>1, <1>2, <1>3 DEF IInv, ThreadsOwned, Typestates, NONE
  <1>5. joined \in Nat /\ Len(consumer_handles) \in Nat
    BY LenProperties DEF TypeOK
  <1>6. \A i \in 1 .. joined' : consumer_handles[i] \notin running
    BY <1>1, <1>5 DEF IInv, HandlesKept
  <1>7. HandlesKept'
    BY <1>1, <1>2, <1>3, <1>5, <1>6 DEF IInv, HandlesKept
  <1>8. QED
    BY <1>4, <1>7

\* Whoever has joined all handles has seen all threads leave.
LEMMA DropReturnsThreads == TypeOK /\ IInv /\ DropReturns => ThreadsOwned' /\ HandlesKept'
  <1> SUFFICES ASSUME TypeOK, IInv, DropReturns PROVE ThreadsOwned' /\ HandlesKept'
    OBVIOUS
  <1>1. /\ state = "joining" /\ joined = Len(consumer_handles)
        /\ UNCHANGED consumers /\ UNCHANGED consumer_handles /\ UNCHANGED running
        /\ UNCHANGED shutdown_at_sequence /\ UNCHANGED joined /\ state' = "dropped"
    BY DEF DropReturns, chainVars, contextVars, threadVars, lifeVars
  <1>2. UNCHANGED Elements(consumer_handles) /\ UNCHANGED Consumers
    BY <1>1 DEF Elements, Consumers
  <1>3. running = {}
    <2>1. SUFFICES ASSUME NEW c \in running PROVE FALSE
      OBVIOUS
    <2>2. c \in Elements(consumer_handles)
      BY <1>1 DEF IInv, ThreadsOwned
    <2>3. DOMAIN consumer_handles = 1 .. joined
      BY <1>1, LenProperties DEF TypeOK
    <2>4. QED
      BY <2>2, <2>3 DEF IInv, HandlesKept, Elements
  <1>4. ThreadsOwned'
    BY <1>1, <1>3 DEF ThreadsOwned
  <1>5. HandlesKept'
    BY <1>1, <1>2, <1>3 DEF IInv, HandlesKept
  <1>6. QED
    BY <1>4, <1>5

LEMMA StepThreads == TypeOK /\ IInv /\ BuilderStep => ThreadsOwned' /\ HandlesKept'
  <1> SUFFICES ASSUME TypeOK, IInv, BuilderStep PROVE ThreadsOwned' /\ HandlesKept'
    OBVIOUS
  <1> USE DEF chainVars, contextVars, threadVars, lifeVars
  <1>1. ThreadsOwned /\ HandlesKept
    BY DEF IInv
  <1>2. CASE Constructed
    BY <1>1, <1>2, QuietThreads DEF Constructed
  <1>3. CASE Added
    BY <1>3, AddedThreads
  <1>4. CASE StageEnded
    BY <1>1, <1>4, QuietThreads DEF StageEnded, NextStage, Typestates
  <1>5. CASE Built
    BY <1>1, <1>5, QuietThreads DEF Built, Build, Typestates
  <1>6. CASE SharedStep
    <2>1. CASE \E name \in Names : ThreadName(name)
      BY <1>1, <2>1, QuietThreads DEF ThreadName
    <2>2. CASE \E id \in CoreIds : PinAtCore(id)
      BY <1>1, <2>2, QuietThreads DEF PinAtCore
    <2>3. CASE Abandon
      <3>1. Len(<<>>) = 0 /\ joined = 0
        BY <1>1, <2>3 DEF Abandon, HandlesKept, Typestates, TypeOK
      <3>2. QED
        BY <1>1, <2>3, <3>1 DEF Abandon, ThreadsOwned, HandlesKept
    <2>4. CASE \E c \in Consumers : Thread(c)
      BY <1>1, <2>4, QuietThreads DEF Thread, InitializerPanics, Exit
    <2>5. CASE Drop
      <3>1. UNCHANGED Elements(consumer_handles) /\ UNCHANGED Consumers
        BY <2>5 DEF Drop, Elements, Consumers
      <3>2. QED
        BY <1>1, <2>5, <3>1 DEF Drop, ThreadsOwned, HandlesKept, Typestates
    <2>6. CASE Teardown
      BY <2>6, JoinThreads, DropReturnsThreads DEF Teardown
    <2>7. QED
      BY <1>6, <2>1, <2>2, <2>3, <2>4, <2>5, <2>6
         DEF SharedStep, PinPanics, SpawnPanics, DropBuilder
  <1>7. CASE UNCHANGED vars
    BY <1>1, <1>7, QuietThreads DEF vars
  <1>8. QED
    BY <1>2, <1>3, <1>4, <1>5, <1>6, <1>7 DEF BuilderStep

(***************************************************************************)
(* The theorems.                                                           *)
(***************************************************************************)

LEMMA InitInv == InitEither => IInv
  <1> SUFFICES ASSUME InitEither PROVE IInv
    OBVIOUS
  <1> USE DEF InitEither, Init, InitRequest, InitContext
  <1>1. Consumers = {} /\ Len(consumers) = 0 /\ Len(consumer_handles) = 0
    BY DEF Consumers
  <1>2. Unnamed(Len(consumers)) = {}
    BY <1>1 DEF Unnamed
  <1>3. SettingsKept
    BY <1>2, FS_EmptySet DEF SettingsKept, NoSettings
  <1>4. SettingsApplyOnce /\ ThreadsOwned /\ NothingYet
    BY <1>1 DEF SettingsApplyOnce, ThreadsOwned, NothingYet
  <1>5. HandlesKept
    BY <1>1 DEF HandlesKept, Elements
  <1>6. QED
    BY <1>3, <1>4, <1>5, InitPipeline DEF IInv

LEMMA StepInv == TypeOK /\ IInv /\ BuilderStep => IInv'
  <1> SUFFICES ASSUME TypeOK, IInv, BuilderStep PROVE IInv'
    OBVIOUS
  <1>1. NothingYet'
    BY DEF BuilderStep, Constructed, Added, StageEnded, Built, Build, SharedStep,
           ThreadName, PinAtCore, PinPanics, SpawnPanics, DropBuilder, Abandon, Thread,
           InitializerPanics, Exit, Drop, Teardown, Join, DropReturns, Typestates,
           vars, chainVars, contextVars, IInv, NothingYet
  <1>2. QED
    BY <1>1, StepPipeline, StepSettings, StepThreads DEF IInv

LEMMA TypeAndInvariance == Spec => [](TypeOK /\ IInv)
  <1>1. InitEither => TypeOK /\ IInv
    BY InitType, InitInv
  <1>2. TypeOK /\ IInv /\ [Next]_<<vars, kind>> => (TypeOK /\ IInv)'
    <2> SUFFICES ASSUME TypeOK, IInv, [Next]_<<vars, kind>> PROVE (TypeOK /\ IInv)'
      OBVIOUS
    <2>1. TypestateCounts
      BY DEF IInv, BuildsPipeline
    <2>2. BuilderStep
      BY <2>1, UniIsBuilder, MultiIsBuilder DEF Next, BuilderStep
    <2>3. QED
      BY <2>2, StepType, StepInv
  <1>3. QED
    BY <1>1, <1>2, PTL DEF Spec

\* The chain of calls, its threads and what it built are well typed in every
\* reachable state: remove(0) never meets an empty Vec, whichever builder is used
\* (builder/uni.rs, builder/multi.rs).
THEOREM TypeCorrect == Spec => []TypeOK
  BY TypeAndInvariance, PTL

\* The inductive invariant of both builders.
THEOREM Invariance == Spec => []IInv
  BY TypeAndInvariance, PTL

\* Chains of any length, with any number of consumers in a stage, build an
\* arrangement the disruptor may start from: every consumer waits for all of the
\* stage before it, the last stage gates the producer, and it is not empty
\* (and_then() and build(), builder/uni.rs, builder/multi.rs).
THEOREM Pipeline == Spec => []BuildsPipeline
  <1>1. IInv => BuildsPipeline
    BY DEF IInv
  <1>2. QED
    BY <1>1, Invariance, PTL

\* A name or a core reaches the thread that is started next and no other, across
\* pollers and stages, and made-up names number the threads nobody named
\* (pop_thread_name, builder/mod.rs).
THEOREM SettingsOnce == Spec => []SettingsApplyOnce
  <1>1. IInv => SettingsApplyOnce
    BY DEF IInv
  <1>2. QED
    BY <1>1, Invariance, PTL

\* However a chain ends, every thread that runs can be joined by whoever holds the
\* producer, has been told to leave, or belongs to a chain that was given up; once
\* drop() has returned there is none (builder/mod.rs, consumer/managed.rs).
THEOREM ThreadsHeld == Spec => []ThreadsOwned
  <1>1. IInv => ThreadsOwned
    BY DEF IInv
  <1>2. QED
    BY <1>1, Invariance, PTL
=============================================================================
