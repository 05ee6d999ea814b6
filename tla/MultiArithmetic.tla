-------------------------- MODULE MultiArithmetic --------------------------
(***************************************************************************)
(* The bit field of producer/multi.rs with its words, masks and shifts,    *)
(* under the claims of MultiClaims.  MultiDisruptor has one bit per slot;  *)
(* this module shows what that rests on.                                   *)
(*                                                                         *)
(* Loops are RECURSIVE operators, so this module is for TLC only.          *)
(***************************************************************************)
EXTENDS MultiClaims, Bitwise

CONSTANTS
  WordShift     \* 6 in the code: a word has 2^WordShift bits

ASSUME ArithmeticAssumption ==
  /\ WordShift \in Nat
  /\ \A s \in Sizes : \E k \in WordShift .. s : s = 2 ^ k

WordBits == 2 ^ WordShift

VARIABLES
  available     \* the words

vars == <<available, claimsVars>>

-----------------------------------------------------------------------------

(***************************************************************************)
(* Indices and flags.                                                      *)
(***************************************************************************)

i64_needed == size \div WordBits

all_ones == 2 ^ WordBits - 1

index_mask == size - 1

index_shift == CHOOSE k \in 0 .. size : 2 ^ k = size

slot_index(sequence) == sequence & index_mask

\* The word and the bit in it.
calculate_availability_indices(sequence) ==
  LET availability_index == slot_index(sequence) \div (2 ^ WordShift) IN
  [word |-> availability_index,
   bit |-> slot_index(sequence) - availability_index * WordBits]

calculate_availability_flag(sequence) == (sequence \div (2 ^ index_shift)) & 1

-----------------------------------------------------------------------------

(***************************************************************************)
(* Publishing.                                                             *)
(***************************************************************************)

\* fetch_xor on one word.
Flipped(field, word, mask) == [field EXCEPT ![word] = @ ^^ mask]

\* The loop of publish_range_relaxed from its i-th round on.
RECURSIVE FlipFrom(_, _, _, _, _, _, _)
FlipFrom(field, from, n, i, word, bit, flip_mask) ==
  LET mask == flip_mask | 2 ^ bit IN
  CASE i = n -> IF flip_mask > 0 THEN Flipped(field, word, flip_mask) ELSE field
    [] i < n /\ bit < WordBits - 1 -> FlipFrom(field, from, n, i + 1, word, bit + 1, mask)
    [] OTHER ->
         FlipFrom(Flipped(field, word, mask), from, n, i + 1,
                  calculate_availability_indices(from + i + 1).word, 0, 0)

\* Mutant: the mask is not reset after a word has been committed.
RECURSIVE FlipOn(_, _, _, _, _, _, _)
FlipOn(field, from, n, i, word, bit, flip_mask) ==
  LET mask == flip_mask | 2 ^ bit IN
  CASE i = n -> IF flip_mask > 0 THEN Flipped(field, word, flip_mask) ELSE field
    [] i < n /\ bit < WordBits - 1 -> FlipOn(field, from, n, i + 1, word, bit + 1, mask)
    [] OTHER ->
         FlipOn(Flipped(field, word, mask), from, n, i + 1,
                calculate_availability_indices(from + i + 1).word, 0, mask)

publish_range_relaxed_on(from, n) ==
  LET at == calculate_availability_indices(from) IN
  FlipOn(available, from, n, 0, at.word, at.bit, 0)

publish_range_relaxed(from, n) ==
  LET at == calculate_availability_indices(from) IN
  FlipFrom(available, from, n, 0, at.word, at.bit, 0)

publish_with_ordering(sequence) ==
  LET at == calculate_availability_indices(sequence) IN
  Flipped(available, at.word, 2 ^ at.bit)

-----------------------------------------------------------------------------

(***************************************************************************)
(* Looking up what is published.                                           *)
(***************************************************************************)

\* The loop of get_after: `availability` is the loaded word, shifted so that
\* its lowest bit is the one to look at.
RECURSIVE ScanFrom(_, _, _, _)
ScanFrom(highest_available, availability, bit, flag) ==
  LET next == highest_available + 1
      word == calculate_availability_indices(next).word
  IN
  CASE (availability & 1) # flag -> highest_available - 1
    [] (availability & 1) = flag /\ bit < WordBits - 1 ->
         ScanFrom(next, availability \div 2, bit + 1, flag)
    [] OTHER ->
         ScanFrom(next, available[word], 0, IF word = 0 THEN flag ^^ 1 ELSE flag)

\* Mutant: the flag stays what it is when the scan comes round to word 0.
RECURSIVE ScanOn(_, _, _, _)
ScanOn(highest_available, availability, bit, flag) ==
  LET next == highest_available + 1
      word == calculate_availability_indices(next).word
  IN
  CASE (availability & 1) # flag -> highest_available - 1
    [] (availability & 1) = flag /\ bit < WordBits - 1 ->
         ScanOn(next, availability \div 2, bit + 1, flag)
    [] (availability & 1) = flag /\ highest_available > MaxSequence + 2 * size -> highest_available
    [] OTHER -> ScanOn(next, available[word], 0, flag)

get_after_on(prev) ==
  LET at == calculate_availability_indices(prev) IN
  ScanOn(prev, available[at.word] \div (2 ^ at.bit), at.bit, calculate_availability_flag(prev))

get_after(prev) ==
  LET at == calculate_availability_indices(prev) IN
  ScanFrom(prev, available[at.word] \div (2 ^ at.bit), at.bit,
           calculate_availability_flag(prev))

-----------------------------------------------------------------------------

Init ==
  /\ ClaimsInit
  /\ available = [i \in 0 .. i64_needed - 1 |-> all_ones]

\* apply_updates publishes a range, apply_update a sequence.
Publish(h) ==
  LET from == CHOOSE s \in batch[h] : \A t \in batch[h] : s <= t IN
  /\ Published(h)
  /\ \/ available' = publish_range_relaxed(from, Cardinality(batch[h]))
     \/ Cardinality(batch[h]) = 1 /\ available' = publish_with_ordering(from)

\* The slowest consumer gives back up to s of what get_after returned.
Consume(s) ==
  /\ s > consumed
  /\ s <= get_after(consumed + 1)
  /\ consumed' = s
  /\ UNCHANGED <<size, available, cursor, sequence_clear_of_consumers, batch>>

\* The bound is reached and everything consumed.
Finished ==
  /\ cursor >= MaxSequence
  /\ consumed = cursor
  /\ UNCHANGED vars

Next ==
  \/ \E h \in Handles, asked \in 0 .. MaxRequest : Claim(h, asked) /\ UNCHANGED available
  \/ \E h \in Handles : Publish(h)
  \/ \E s \in 0 .. MaxSequence + size : Consume(s)
  \/ Finished

Spec == Init /\ [][Next]_vars

-----------------------------------------------------------------------------

\* get_after (multi.rs:285-286) returns the last sequence published without a
\* gap, from whichever sequence a consumer asks, across words and across the
\* end of the ring: no bit of a batch is missed, none of another is touched.
\* A consumer asks from a sequence all of whose predecessors are published.
FindsPublished ==
  LET claimed == UNION {batch[h] : h \in Handles}
      missing == {s \in consumed + 1 .. cursor + 1 : s = cursor + 1 \/ s \in claimed}
      first_missing == CHOOSE s \in missing : \A t \in missing : s <= t
  IN \A prev \in consumed + 1 .. first_missing : get_after(prev) = first_missing - 1

\* Consumers that look at the bit field (multi.rs:412-451) give back only what
\* MultiClaims lets them: every step of this module is one of a claim, of a
\* batch published, or of published sequences given back.
ImplementsClaims == ClaimsSpec
=============================================================================
