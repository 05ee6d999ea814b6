------------------------------ MODULE Builder ------------------------------
(***************************************************************************)
(* What the two builders share (builder/mod.rs): the context a chain of    *)
(* calls accumulates, the threads it starts on the way, and what becomes   *)
(* of them when the chain ends in build(), is dropped, or panics.          *)
(*                                                                         *)
(* Consumers are numbered in the order they are added, and so are their    *)
(* cursors; cursor 0 stands for the producer barrier.  Nothing is          *)
(* published here, so a thread that has started waits for sequence 0.      *)
(***************************************************************************)
EXTENDS Integers, Sequences, FiniteSets

CONSTANTS
  Sizes,         \* capacities a client may ask for
  Names,         \* arguments of thread_name()
  NoName,        \* no name set
  Cores,         \* cores this machine has
  CoreIds,       \* arguments of pin_at_core()
  NoCore,        \* no core set
  MaxConsumers   \* bound: consumers in a chain

\* Numbers are the names the builder makes up: k stands for "processor-k".
ASSUME BuilderAssumption ==
  /\ Sizes \subseteq Nat
  /\ NoName \notin Names
  /\ Names \cap Nat = {}
  /\ NoName \notin Nat
  /\ Cores \subseteq CoreIds
  /\ NoCore \notin CoreIds
  /\ MaxConsumers \in Nat

VARIABLES
  state,                     \* typestate of the chain, then life of what it built
  size,                      \* capacity asked for
  current_consumer_cursors,  \* cursors of the stage being filled
  consumer_handles,          \* threads whose JoinHandle is kept, in order
  thread_context,            \* settings for the next thread
  dependent_barrier,         \* cursors the next consumer will wait for
  consumers,                 \* every consumer added so far
  gating,                    \* cursors of the barrier build() gives the producer
  shutdown_at_sequence,
  running, panicked,         \* threads that have not returned; that unwound
  joined,                    \* how many handles drop() has joined
  stage, asked               \* history: and_then() calls so far, plus one;
                             \* settings asked for since the last thread

contextVars == <<current_consumer_cursors, consumer_handles, thread_context>>
chainVars == <<contextVars, dependent_barrier, consumers, stage, asked>>
threadVars == <<running, panicked>>
lifeVars == <<gating, shutdown_at_sequence, joined>>
vars == <<state, size, chainVars, threadVars, lifeVars>>

NONE == -1

\* The producer barrier's cursor among the cursors.
ProducerCursor == 0

Consumers == DOMAIN consumers

\* The cursors in a Vec of them.
Elements(s) == {s[i] : i \in DOMAIN s}

Settings == [name : Names \cup {NoName}, affinity : CoreIds \cup {NoCore}]

NoSettings == [name |-> NoName, affinity |-> NoCore]

Typestates == {"NC", "SC", "MC"}

TypeOK ==
  /\ state \in Typestates \cup {"new", "rejected", "abandoned", "built", "joining",
                               "dropped", "failed"}
  /\ size \in Nat
  /\ current_consumer_cursors \in Seq(Nat)
  /\ consumer_handles \in Seq(Nat)
  /\ thread_context \in [name : Names \cup {NoName}, affinity : CoreIds \cup {NoCore},
                         id : Nat]
  /\ dependent_barrier \in Seq(Nat)
  /\ consumers \in Seq([polled : BOOLEAN, stateful : BOOLEAN, barrier : Seq(Nat),
                        name : Names \cup {NoName} \cup Nat,
                        affinity : CoreIds \cup {NoCore}, stage : Nat, asked : Settings])
  /\ gating \in Seq(Nat)
  /\ shutdown_at_sequence \in Int
  /\ running \subseteq Consumers
  /\ panicked \subseteq Consumers \ running
  /\ joined \in Nat
  /\ stage \in Nat \ {0}
  /\ asked \in Settings

-----------------------------------------------------------------------------

(***************************************************************************)
(* Construction.                                                           *)
(***************************************************************************)

\* A chain is about to be constructed: Disruptor::with_capacity() lets powers of
\* two through only, the build functions that are "unchecked" any number.
InitRequest ==
  /\ state = "new"
  /\ size \in Sizes

\* BuilderContext::new; the first consumers depend on the producer barrier.
InitContext ==
  /\ current_consumer_cursors = <<>>
  /\ consumer_handles = <<>>
  /\ thread_context = [name |-> NoName, affinity |-> NoCore, id |-> 0]
  /\ dependent_barrier = <<ProducerCursor>>
  /\ consumers = <<>>
  /\ gating = <<>>
  /\ shutdown_at_sequence = NONE
  /\ running = {}
  /\ panicked = {}
  /\ joined = 0
  /\ stage = 1
  /\ asked = NoSettings

Init == InitRequest /\ InitContext

\* RingBuffer::new does not panic: no odd number but 1 divides a power of two.
RingAccepts(n) == n > 0 /\ \A d \in 1 .. n : n % d = 0 => d = 1 \/ d % 2 = 0

\* The constructor of the chain returns, or panics.
Construct(accepted) ==
  /\ state = "new"
  /\ state' = IF accepted THEN "NC" ELSE "rejected"
  /\ UNCHANGED <<size, chainVars, threadVars, lifeVars>>

-----------------------------------------------------------------------------

(***************************************************************************)
(* Settings of the next thread.                                            *)
(***************************************************************************)

\* thread_name(): remembered until the next thread is started.
ThreadName(name) ==
  /\ state \in Typestates
  /\ thread_context' = [thread_context EXCEPT !.name = name]
  /\ asked' = [asked EXCEPT !.name = name]
  /\ UNCHANGED <<state, size, current_consumer_cursors, consumer_handles,
                 dependent_barrier, consumers, stage, threadVars, lifeVars>>

\* pin_at_core() with a core of this machine.
PinAtCore(id) ==
  /\ state \in Typestates
  /\ id \in Cores
  /\ thread_context' = [thread_context EXCEPT !.affinity = id]
  /\ asked' = [asked EXCEPT !.affinity = id]
  /\ UNCHANGED <<state, size, current_consumer_cursors, consumer_handles,
                 dependent_barrier, consumers, stage, threadVars, lifeVars>>

\* The chain is gone and with it the handles of the threads it has started:
\* they are detached, and nobody will write their shutdown word.
Abandon ==
  /\ state \in Typestates
  /\ state' = "abandoned"
  /\ consumer_handles' = <<>>
  /\ UNCHANGED <<size, current_consumer_cursors, thread_context,
                 dependent_barrier, consumers, stage, asked, threadVars, lifeVars>>

\* pin_at_core() with any other core panics and unwinds through the chain.
PinPanics(id) == id \notin Cores /\ Abandon

\* spawn() fails and its expect() unwinds through the chain.
SpawnPanics == Abandon

\* The client lets go of a chain it does not build.
DropBuilder == Abandon

-----------------------------------------------------------------------------

(***************************************************************************)
(* Adding consumers.  The callers change `state`.                          *)
(***************************************************************************)

\* Mutant: the cursor of a poller is not registered.
AddCursorUnlessPolled(polled) ==
  IF polled THEN current_consumer_cursors
  ELSE Append(current_consumer_cursors, Len(consumers) + 1)

\* The cursors of the stage once a consumer is added.
AddCursor(polled) == Append(current_consumer_cursors, Len(consumers) + 1)

\* Mutant: a made-up name is numbered by the consumer, not by the counter.
PopNamePosition(context) == IF context.name = NoName THEN Len(consumers) + 1 ELSE context.name

\* The name asked for, or else the next made-up one.
PopName(context) == IF context.name = NoName THEN context.id + 1 ELSE context.name

\* Mutant: the settings stay for the threads that follow.
AfterSpawnKept(context) ==
  IF context.name = NoName THEN [context EXCEPT !.id = @ + 1] ELSE context

\* What a thread leaves of the settings: they are taken, not copied.
AfterSpawn(context) ==
  [name |-> NoName, affinity |-> NoCore,
   id |-> IF context.name = NoName THEN context.id + 1 ELSE context.id]

\* Mutant: the handle is dropped, which detaches the thread.
AddHandleDetached == consumer_handles

AddHandle == Append(consumer_handles, Len(consumers) + 1)

\* start_processor and start_processor_with_state: the thread runs at once.
AddEventHandler(stateful) ==
  /\ Len(consumers) < MaxConsumers
  /\ consumers' = Append(consumers,
       [polled |-> FALSE, stateful |-> stateful, barrier |-> dependent_barrier,
        name |-> PopName(thread_context), affinity |-> thread_context.affinity,
        stage |-> stage, asked |-> asked])
  /\ current_consumer_cursors' = AddCursor(FALSE)
  /\ consumer_handles' = AddHandle
  /\ thread_context' = AfterSpawn(thread_context)
  /\ asked' = NoSettings
  /\ running' = running \cup {Len(consumers) + 1}
  /\ UNCHANGED <<size, dependent_barrier, stage, panicked, lifeVars>>

\* The poller goes to the client; only its cursor stays.  Settings do not
\* apply to it and wait for the next thread.
GetEventPoller ==
  /\ Len(consumers) < MaxConsumers
  /\ consumers' = Append(consumers,
       [polled |-> TRUE, stateful |-> FALSE, barrier |-> dependent_barrier,
        name |-> NoName, affinity |-> NoCore, stage |-> stage, asked |-> NoSettings])
  /\ current_consumer_cursors' = AddCursor(TRUE)
  /\ UNCHANGED <<size, consumer_handles, thread_context, dependent_barrier,
                 stage, asked, threadVars, lifeVars>>

\* and_then() is called: whoever is added from now on waits for barrier.
NextStage(barrier, cursors) ==
  /\ dependent_barrier' = barrier
  /\ current_consumer_cursors' = cursors
  /\ stage' = stage + 1
  /\ UNCHANGED <<size, consumer_handles, thread_context, consumers, asked,
                 threadVars, lifeVars>>

\* build(): the producer gets the handles, and its barrier.
Build(barrier) ==
  /\ gating' = barrier
  /\ current_consumer_cursors' = <<>>
  /\ state' = "built"
  /\ UNCHANGED <<size, consumer_handles, thread_context, dependent_barrier,
                 consumers, stage, asked, threadVars, shutdown_at_sequence, joined>>

-----------------------------------------------------------------------------

(***************************************************************************)
(* The threads, and the end of the producer.                               *)
(***************************************************************************)

\* Mutant: a thread that has unwound is taken for one that still runs.
InitializerPanicsRuns(c) ==
  /\ c \in running
  /\ consumers[c].stateful
  /\ panicked' = panicked \cup {c}
  /\ UNCHANGED <<state, size, chainVars, running, lifeVars>>

\* initialize_state() unwinds before the thread's first wait.
InitializerPanics(c) ==
  /\ c \in running
  /\ consumers[c].stateful
  /\ running' = running \ {c}
  /\ panicked' = panicked \cup {c}
  /\ UNCHANGED <<state, size, chainVars, lifeVars>>

\* Mutant: the thread waits for the producers to be done with sequence 0.
ExitAfterFirst(c) ==
  /\ c \in running
  /\ shutdown_at_sequence = 1
  /\ running' = running \ {c}
  /\ UNCHANGED <<state, size, chainVars, panicked, lifeVars>>

\* wait_for_events: nothing is published, so a thread waits for sequence 0,
\* and leaves when that is where the stream ends.
Exit(c) ==
  /\ c \in running
  /\ shutdown_at_sequence = 0
  /\ running' = running \ {c}
  /\ UNCHANGED <<state, size, chainVars, panicked, lifeVars>>

\* The producer (the last one) is dropped without having published.
Drop ==
  /\ state = "built"
  /\ shutdown_at_sequence' = 0
  /\ state' = "joining"
  /\ UNCHANGED <<size, chainVars, threadVars, gating, joined>>

\* Mutant: the handle is let go of, which detaches the thread.
JoinDetached ==
  /\ state = "joining"
  /\ joined < Len(consumer_handles)
  /\ joined' = joined + 1
  /\ UNCHANGED <<state, size, chainVars, threadVars, gating, shutdown_at_sequence>>

\* The next handle is joined; a thread that unwound makes join() panic.
Join ==
  /\ state = "joining"
  /\ joined < Len(consumer_handles)
  /\ consumer_handles[joined + 1] \notin running
  /\ \/ /\ consumer_handles[joined + 1] \in panicked
        /\ state' = "failed"
        /\ UNCHANGED joined
     \/ /\ consumer_handles[joined + 1] \notin panicked
        /\ joined' = joined + 1
        /\ UNCHANGED state
  /\ UNCHANGED <<size, chainVars, threadVars, gating, shutdown_at_sequence>>

DropReturns ==
  /\ state = "joining"
  /\ joined = Len(consumer_handles)
  /\ state' = "dropped"
  /\ UNCHANGED <<size, chainVars, threadVars, lifeVars>>

Thread(c) == InitializerPanics(c) \/ Exit(c)

Teardown == Join \/ DropReturns

SharedStep ==
  \/ \E name \in Names : ThreadName(name)
  \/ \E id \in CoreIds : PinAtCore(id) \/ PinPanics(id)
  \/ SpawnPanics
  \/ DropBuilder
  \/ \E c \in Consumers : Thread(c)
  \/ Drop
  \/ Teardown

\* Threads that wait keep loading what they wait for; without any, the chain
\* has come to nothing or what it built is gone.
Terminated ==
  /\ running # {} \/ state \in {"rejected", "abandoned", "dropped", "failed"}
  /\ UNCHANGED vars

Fairness ==
  /\ WF_vars(Teardown)
  /\ \A c \in 1 .. MaxConsumers : WF_vars(Exit(c))

-----------------------------------------------------------------------------

(***************************************************************************)
(* Safety.                                                                 *)
(***************************************************************************)

StageMembers(k) == {c \in Consumers : consumers[c].stage = k}

\* The typestate says how many cursors the stage being filled has, and they are
\* those of its consumers: remove(0) finds one and forgets none.
TypestateCounts ==
  /\ state = "NC" => current_consumer_cursors = <<>>
  /\ state = "SC" => Len(current_consumer_cursors) = 1
  /\ state = "MC" => Len(current_consumer_cursors) >= 2
  /\ state \in Typestates => Elements(current_consumer_cursors) = StageMembers(stage)

\* What a consumer of a stage waits for.
Before(k) == IF k = 1 THEN {ProducerCursor} ELSE StageMembers(k - 1)

\* A consumer waits for every consumer of the stage before its own and for
\* nobody else, the first stage for the producer.
StagesChained ==
  /\ Elements(dependent_barrier) = Before(stage)
  /\ \A c \in Consumers : Elements(consumers[c].barrier) = Before(consumers[c].stage)

\* Stages are numbered in the order of their consumers; all but the one being
\* filled have some.
StagesFilled ==
  /\ \A c \in Consumers : consumers[c].stage \in 1 .. stage
  /\ \A c, d \in Consumers : c < d => consumers[c].stage <= consumers[d].stage
  /\ \A k \in 1 .. stage - 1 : StageMembers(k) # {}

\* The last stage gates the producer, and there is one.
LastStageGates ==
  state \in {"built", "joining", "dropped", "failed"} =>
    /\ Elements(gating) = StageMembers(stage)
    /\ gating # <<>>

\* Whatever the chain of calls, what it builds is an arrangement the running
\* disruptor may start from (ConsumersAssumption, Upstream and LastStage of
\* Consumers): the typestates guarantee it "by construction" (uni.rs:137, 169,
\* multi.rs:181, 196), and_then() hands the cursors on (uni.rs:28-32, 163-167).
BuildsPipeline == TypestateCounts /\ StagesChained /\ StagesFilled /\ LastStageGates

\* The threads among the first c consumers that nobody has named.
Unnamed(c) == {d \in 1 .. c : ~consumers[d].polled /\ consumers[d].asked.name = NoName}

\* Settings apply to the next thread and to that one only (builder/mod.rs:138-141,
\* 209-212), also across pollers and stages; threads nobody named are counted.
SettingsApplyOnce ==
  \A c \in Consumers : ~consumers[c].polled =>
    /\ consumers[c].affinity = consumers[c].asked.affinity
    /\ consumers[c].name =
         IF consumers[c].asked.name # NoName THEN consumers[c].asked.name
         ELSE Cardinality(Unnamed(c))

\* A thread that runs is joined by whoever keeps its handle, or has been told
\* to leave because join() panicked before its turn; only a chain given up before
\* build() leaves threads to themselves.  When drop() of the producer returns, no
\* consumer thread runs (lib.rs:66-68, builder/mod.rs:240-246).
ThreadsOwned ==
  \A c \in running :
    \/ state \in Typestates \cup {"built", "joining"} /\ c \in Elements(consumer_handles)
    \/ state = "failed" /\ shutdown_at_sequence # NONE
    \/ state = "abandoned"

(***************************************************************************)
(* The inductive invariant.                                                *)
(***************************************************************************)

\* A chain is constructed without consumers.
NothingYet == state = "new" => consumers = <<>> /\ current_consumer_cursors = <<>>

\* The settings kept are those asked for since the last thread, and made-up
\* names are numbered by the threads that had one.
SettingsKept ==
  /\ thread_context.name = asked.name
  /\ thread_context.affinity = asked.affinity
  /\ thread_context.id = Cardinality(Unnamed(Len(consumers)))

\* Somebody keeps the handle of every thread until the chain is given up; drop()
\* tells the threads to leave before it joins the first, and has seen those
\* leave that it has joined.
HandlesKept ==
  /\ state # "abandoned" =>
       Elements(consumer_handles) = {c \in Consumers : ~consumers[c].polled}
  /\ state \in {"joining", "dropped", "failed"} => shutdown_at_sequence = 0
  /\ joined > 0 => state \in {"joining", "dropped", "failed"}
  /\ joined <= Len(consumer_handles)
  /\ \A i \in 1 .. joined : consumer_handles[i] \notin running

IInv ==
  /\ BuildsPipeline /\ SettingsApplyOnce /\ ThreadsOwned
  /\ NothingYet /\ SettingsKept /\ HandlesKept

(***************************************************************************)
(* Liveness.                                                               *)
(***************************************************************************)

\* drop() ends, whoever has panicked, and every thread ends with it.
DropCompletes == state = "joining" ~> state \in {"dropped", "failed"} /\ running = {}
=============================================================================
