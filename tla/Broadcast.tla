----------------------------- MODULE Broadcast -----------------------------
(***************************************************************************)
(* What a disruptor promises, whatever its producers and barriers look     *)
(* like: a broadcast channel that holds at most Size events some consumer  *)
(* still needs, hands every event to every consumer in order and to a      *)
(* later stage only after all earlier ones are done with it, and lets a    *)
(* consumer finish only once the channel is closed and it has released     *)
(* everything that was ever published.                                     *)
(***************************************************************************)
EXTENDS Integers

CONSTANTS Size, ConsumerCount, Stage

VARIABLES
  published,  \* number of events published, in sequence order
  released,   \* number of events each consumer is done with
  closed,     \* the last producer is gone
  finished    \* consumers that have been told that nothing more will come

vars == <<published, released, closed, finished>>

Consumers == 1 .. ConsumerCount

Init ==
  /\ published = 0
  /\ released = [c \in Consumers |-> 0]
  /\ closed = FALSE
  /\ finished = {}

\* n events appear at once, if every consumer has made room for them.
Publish(n) ==
  /\ ~closed
  /\ \A c \in Consumers : published + n - released[c] <= Size
  /\ published' = published + n
  /\ UNCHANGED <<released, closed, finished>>

\* c gives back all events below k, all of which earlier stages gave back.
Release(c, k) ==
  /\ c \notin finished
  /\ released[c] <= k
  /\ k <= published
  /\ \A u \in Consumers : Stage[u] < Stage[c] => k <= released[u]
  /\ released' = [released EXCEPT ![c] = k]
  /\ UNCHANGED <<published, closed, finished>>

Close ==
  /\ ~closed
  /\ closed' = TRUE
  /\ UNCHANGED <<published, released, finished>>

Finish(c) ==
  /\ closed
  /\ released[c] = published
  /\ finished' = finished \cup {c}
  /\ UNCHANGED <<published, released, closed>>

Next ==
  \/ \E n \in 0 .. Size : Publish(n)
  \/ Close
  \/ \E c \in Consumers : Finish(c) \/ \E k \in 0 .. published : Release(c, k)

Spec == Init /\ [][Next]_vars
=============================================================================
