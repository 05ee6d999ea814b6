---------------------------- MODULE MultiClaims ----------------------------
(***************************************************************************)
(* Claims of producer/multi.rs in the integers the machine has: requests   *)
(* are a usize, sequences and free slots an i64.  MultiDisruptor counts    *)
(* without bounds; this module shows what that rests on.                   *)
(*                                                                         *)
(* A call claims in one step and publishes in another, so that handles     *)
(* publish out of order; consumers give back any part of what is published *)
(* without a gap.  How they find that out is MultiArithmetic's subject.    *)
(***************************************************************************)
EXTENDS Integers, FiniteSets

CONSTANTS
  Handles,      \* producer handles
  FirstHandle,  \* the one build() returns; the others are clones
  Sizes,        \* slots of the rings
  Half,         \* integers wrap from Half - 1 to -Half: 2^63 in the code
  MaxRequest,   \* bound: events a client asks for in one call
  MaxSequence   \* bound: no call is made from this sequence on

ASSUME ClaimsAssumption ==
  /\ FirstHandle \in Handles
  /\ Half \in Nat
  /\ Sizes \subseteq 1 .. Half - 1
  /\ {MaxRequest, MaxSequence} \subseteq Nat

VARIABLES
  size,                         \* of the ring the disruptor was built with
  cursor,                       \* last sequence claimed
  sequence_clear_of_consumers,  \* the cached bound of each handle
  batch,                        \* sequences each handle has claimed and not published
  consumed                      \* last sequence the slowest consumer gave back

claimsVars == <<size, cursor, sequence_clear_of_consumers, batch, consumed>>

-----------------------------------------------------------------------------

\* What is left of x in an i64: `as i64`, and any sum in a release build.
I64(x) == ((x + Half) % (2 * Half)) - Half

\* `as u64`.
U64(x) == x % (2 * Half)

free_slots(producer, highest_read) == I64(highest_read - I64(producer - size))

\* Mutant: what is free less what was asked for.
MissingSwapped(n, free) == U64(I64(free - n))

\* EMissingFreeSlots.
MissingFreeSlots(n, free) == U64(I64(n - free))

\* Mutant: the bound is counted from the claim on.
BoundFromClaim(free, n_next) == I64(n_next + free)

\* The bound a handle keeps for its next calls.
Bound(free, n_next) == I64(cursor + free)

\* What next_sequences decides on a request of h that nobody interferes with.
next_sequences(h, asked) ==
  LET n == I64(asked)
      n_next == I64(cursor + n)
      clear == sequence_clear_of_consumers[h]
      free == free_slots(cursor, consumed)
  IN
  CASE clear >= n_next ->
         [ok |-> TRUE, n_next |-> n_next, clear |-> clear, missing |-> 0]
    [] clear < n_next /\ free >= n ->
         [ok |-> TRUE, n_next |-> n_next, clear |-> Bound(free, n_next), missing |-> 0]
    [] OTHER ->
         [ok |-> FALSE, n_next |-> cursor, clear |-> clear, missing |-> MissingFreeSlots(n, free)]

\* The request fits in an i64, and so does the sequence it asks for.
Fits(asked) == asked < Half /\ cursor + asked < Half

-----------------------------------------------------------------------------

ClaimsInit ==
  /\ size \in Sizes
  /\ cursor = -1
  /\ sequence_clear_of_consumers =
       [h \in Handles |-> IF h = FirstHandle THEN size - 1 ELSE 0]
  /\ batch = [h \in Handles |-> {}]
  /\ consumed = -1

\* A call of h that gets its sequences.  Nothing happens in one that does not.
Claim(h, asked) ==
  LET claim == next_sequences(h, asked) IN
  /\ batch[h] = {}
  /\ cursor < MaxSequence /\ Fits(asked)
  /\ claim.ok
  /\ cursor' = claim.n_next
  /\ sequence_clear_of_consumers' = [sequence_clear_of_consumers EXCEPT ![h] = claim.clear]
  /\ batch' = [batch EXCEPT ![h] = cursor + 1 .. claim.n_next]
  /\ UNCHANGED <<size, consumed>>

\* h has published its batch.
Published(h) ==
  /\ batch[h] # {}
  /\ batch' = [batch EXCEPT ![h] = {}]
  /\ UNCHANGED <<size, cursor, sequence_clear_of_consumers, consumed>>

\* The slowest consumer gives back sequences that are all published.
GiveBack ==
  /\ consumed' \in consumed + 1 .. cursor
  /\ \A h \in Handles : \A t \in batch[h] : consumed' < t
  /\ UNCHANGED <<size, cursor, sequence_clear_of_consumers, batch>>

ClaimsNext ==
  \/ \E h \in Handles, asked \in 0 .. MaxRequest : Claim(h, asked)
  \/ \E h \in Handles : Published(h)
  \/ GiveBack

ClaimsSpec == ClaimsInit /\ [][ClaimsNext]_claimsVars

-----------------------------------------------------------------------------

ClaimsTypeOK ==
  /\ size \in Sizes
  /\ cursor \in -1 .. Half - 1
  /\ sequence_clear_of_consumers \in [Handles -> -Half .. Half - 1]
  /\ batch \in [Handles -> SUBSET Int]
  /\ consumed \in -1 .. cursor

\* What is claimed and not given back fits in the ring.
LapInv == cursor - consumed <= size

\* A bound is of what consumers have given back, however old it is and even if
\* it wrapped when it was computed.
BoundInv ==
  \A h \in Handles : sequence_clear_of_consumers[h] <= consumed + size

\* What is given back has been published.
BatchesAhead ==
  \A h \in Handles : \A t \in batch[h] : consumed < t /\ t <= cursor

\* What next_sequences (multi.rs:194-232) needs of the state it meets for its
\* comparisons of wrapped integers to say what they seem to say.
ClaimsInv == ClaimsTypeOK /\ LapInv /\ BoundInv /\ BatchesAhead

\* try_batch_publish publishes what it was asked for or fails "if not enough
\* contiguous slots are available" (producer/mod.rs:71-73), and then says how
\* many were missing (errors.rs:11), whatever its cached bound has become; of
\* every call whose request and sequence fit in an i64.
PublishesWhatFits ==
  \A h \in Handles, asked \in 0 .. MaxRequest : Fits(asked) =>
    LET claim == next_sequences(h, asked)
        free == consumed + size - cursor
    IN IF claim.ok THEN asked <= free /\ claim.n_next = cursor + asked
       ELSE asked = free + claim.missing
=============================================================================
