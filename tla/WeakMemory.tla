----------------------------- MODULE WeakMemory -----------------------------
(***************************************************************************)
(* The memory the atomics live in, as the language defines it: release     *)
(* stores, relaxed loads and acquire fences, and no more order than they   *)
(* make.                                                                   *)
(*                                                                         *)
(* Each location holds every message ever stored to it, in modification    *)
(* order.  A thread has a view of how far into each location it has been   *)
(* made to look, and a relaxed load may return any message from there on.  *)
(* Messages carry a view along; an acquire fence lets a thread have the    *)
(* views of all the messages it has loaded.                                *)
(*                                                                         *)
(* Events themselves are not atomic.  What a view says of them is how far  *)
(* each thread is known to be done with them: an access is ordered after   *)
(* another thread's if the view of the thread that makes it covers it.     *)
(***************************************************************************)
EXTENDS Integers, Sequences

CONSTANTS
  Threads,
  Locations

VARIABLES
  memory,   \* messages of each location
  cur,      \* view of each thread
  acq,      \* what an acquire fence would make of it
  rel       \* what it was at the last release fence

memoryVars == <<memory, cur, acq, rel>>

Higher(a, b) == IF a >= b THEN a ELSE b

\* Two views together.
Union(v, w) ==
  [loc |-> [x \in Locations |-> Higher(v.loc[x], w.loc[x])],
   done |-> [t \in Threads |-> Higher(v.done[t], w.done[t])]]

\* Before anything: one message per location, no event touched.
FirstView == [loc |-> [x \in Locations |-> 1], done |-> [t \in Threads |-> -1]]

View == [loc : [Locations -> Nat \ {0}], done : [Threads -> Int]]

\* A message of x carries what it may carry, whatever that is, and a view.
MessagesAt(x) == [value : {memory[x][i].value : i \in DOMAIN memory[x]}, view : View]

MemoryTypeOK ==
  /\ memory = [x \in Locations |-> memory[x]]
  /\ \A x \in Locations : memory[x] # <<>> /\ memory[x] \in Seq(MessagesAt(x))
  /\ cur \in [Threads -> View]
  /\ acq \in [Threads -> View]
  /\ rel \in [Threads -> View]

InitMemory(value) ==
  /\ memory = [x \in Locations |-> <<[value |-> value[x], view |-> FirstView]>>]
  /\ cur = [t \in Threads |-> FirstView]
  /\ acq = cur
  /\ rel = cur

\* The messages t may still load from x.
Visible(t, x) == cur[t].loc[x] .. Len(memory[x])

Newest(x) == memory[x][Len(memory[x])]

-----------------------------------------------------------------------------

(***************************************************************************)
(* What one access makes of the views.  A step of a thread applies one or  *)
(* more of them to the thread's triple of views and stores the result.     *)
(***************************************************************************)

ViewsOf(t) == [cur |-> cur[t], acq |-> acq[t], rel |-> rel[t]]

\* load(Relaxed) of message i of x: never an older one from now on.
Loaded(views, x, i) ==
  LET here == [views.cur EXCEPT !.loc[x] = i] IN
  [views EXCEPT !.cur = here,
                !.acq = Union(Union(@, memory[x][i].view), here)]

\* The load of an acquiring read-modify-write has the view of its message.
LoadedAcquire(views, x, i) ==
  [Loaded(views, x, i) EXCEPT !.cur = Union(@, memory[x][i].view)]

\* fence(Acquire).
AcquireFence(views) == [views EXCEPT !.cur = views.acq]

\* fence(Release).
ReleaseFence(views) == [views EXCEPT !.rel = views.cur]

\* A plain access of t to the events up to s.
Accessed(views, t, s) ==
  [views EXCEPT !.cur.done[t] = s, !.acq.done[t] = s]

\* The view a message takes along.
Carried(views, ordering) == IF ordering = "Release" THEN views.cur ELSE views.rel

\* store(v, ordering) to a location only one thread stores to.
Stored(views, x) ==
  LET n == Len(memory[x]) + 1 IN
  [views EXCEPT !.cur.loc[x] = n, !.acq.loc[x] = n]

Message(views, x, v, ordering) ==
  LET n == Len(memory[x]) + 1 IN
  [value |-> v, view |-> [Carried(views, ordering) EXCEPT !.loc[x] = n]]

\* A read-modify-write continues the release sequence of the message it finds,
\* the newest: its own takes along what that one did.
ExchangeMessage(views, x, v, ordering) ==
  [Message(views, x, v, ordering) EXCEPT !.view = Union(@, Newest(x).view)]

\* t goes on with these views.
SetViews(t, views) ==
  /\ cur' = [cur EXCEPT ![t] = views.cur]
  /\ acq' = [acq EXCEPT ![t] = views.acq]
  /\ rel' = [rel EXCEPT ![t] = views.rel]

Append1(x, message) == memory' = [memory EXCEPT ![x] = Append(@, message)]
=============================================================================
