------------------------- MODULE MultiClaimsProofs -------------------------
(***************************************************************************)
(* Claims in wrapping integers are the claims of the unbounded ones, for   *)
(* rings and integers of any size.                                         *)
(***************************************************************************)
EXTENDS MultiClaims, TLAPS

(***************************************************************************)
(* Wrapping.                                                               *)
(***************************************************************************)

LEMMA MultipleOfModulus ==
  ASSUME NEW m \in Nat \ {0}, NEW k \in Int
  PROVE  /\ k >= 1 => m * k >= m
         /\ k >= 0 => m * k >= 0
         /\ k <= -1 => m * k <= -m
  <1>1. k >= 1 => m * k >= m
    BY SMT
  <1>2. k >= 0 => m * k >= 0
    BY SMT
  <1>3. k <= -1 => m * k <= -m
    BY SMT
  <1>4. QED
    BY <1>1, <1>2, <1>3

\* The remainder leaves what is in range alone, and never adds anything.
LEMMA Remainder ==
  ASSUME NEW m \in Nat \ {0}, NEW x \in Int
  PROVE  /\ x % m \in 0 .. m - 1
         /\ x \in 0 .. m - 1 => x % m = x
         /\ x >= 0 => x % m <= x
  <1>1. PICK r \in 0 .. m - 1, k \in Int : r = x % m /\ k = x \div m
    OBVIOUS
  <1>2. PICK p \in Int : p = m * k
    OBVIOUS
  <1>3. x = p + r
    BY <1>1, <1>2
  <1>4. /\ k >= 1 => p >= m
        /\ k >= 0 => p >= 0
        /\ k <= -1 => p <= -m
    BY <1>2, MultipleOfModulus
  <1>5. CASE k >= 1
    BY <1>1, <1>3, <1>4, <1>5
  <1>6. CASE k = 0
    <2>1. p = 0
      BY <1>2, <1>6
    <2>2. QED
      BY <1>1, <1>3, <2>1
  <1>7. CASE k <= -1
    BY <1>1, <1>3, <1>4, <1>7
  <1>8. QED
    BY <1>5, <1>6, <1>7

\* An i64 holds what fits in it; what does not wraps, and what is too large
\* becomes smaller.
LEMMA I64Facts ==
  ASSUME Half > 0, NEW x \in Int
  PROVE  /\ I64(x) \in -Half .. Half - 1
         /\ x \in -Half .. Half - 1 => I64(x) = x
         /\ x >= -Half => I64(x) <= x
  <1>1. Half \in Nat /\ 2 * Half \in Nat \ {0} /\ x + Half \in Int
    BY ClaimsAssumption
  <1>2. PICK m \in Nat \ {0}, y \in Int : m = 2 * Half /\ y = x + Half
    BY <1>1
  <1>3. /\ y % m \in 0 .. m - 1
        /\ y \in 0 .. m - 1 => y % m = y
        /\ y >= 0 => y % m <= y
    BY Remainder
  <1>4. PICK r \in 0 .. m - 1 : r = y % m
    BY <1>3
  <1>5. I64(x) = r - Half
    BY <1>2, <1>4 DEF I64
  <1>6. QED
    BY <1>1, <1>2, <1>3, <1>4, <1>5

LEMMA U64Facts ==
  ASSUME Half > 0, NEW x \in 0 .. Half - 1
  PROVE  U64(x) = x
  <1>1. Half \in Nat
    BY ClaimsAssumption
  <1>2. PICK m \in Nat \ {0} : m = 2 * Half
    BY <1>1
  <1>3. x \in Int /\ x \in 0 .. m - 1
    BY <1>1, <1>2
  <1>4. x % m = x
    BY <1>3, Remainder
  <1>5. QED
    BY <1>2, <1>4 DEF U64

-----------------------------------------------------------------------------

(***************************************************************************)
(* What a call decides.                                                    *)
(***************************************************************************)

\* The outcome of a call for which there are so many free slots.
DecidesBy(h, asked, free) ==
  \/ /\ asked <= free
     /\ \E clear \in -Half .. Half - 1 :
          /\ clear <= consumed + size
          /\ next_sequences(h, asked) =
               [ok |-> TRUE, n_next |-> cursor + asked, clear |-> clear, missing |-> 0]
  \/ /\ asked > free
     /\ next_sequences(h, asked) =
          [ok |-> FALSE, n_next |-> cursor, clear |-> sequence_clear_of_consumers[h],
           missing |-> asked - free]

\* The free slots are what they seem to be, and every call decides by them,
\* whether it looks at them or trusts the bound it has cached.
LEMMA ClaimDecides ==
  ASSUME ClaimsInv, NEW h \in Handles, NEW asked \in Nat, Fits(asked)
  PROVE  \E free \in 0 .. size :
           free = consumed + size - cursor /\ DecidesBy(h, asked, free)
  <1>1. /\ Half \in Nat /\ Half > 0 /\ size \in 1 .. Half - 1
        /\ cursor \in -1 .. Half - 1 /\ consumed \in -1 .. cursor
        /\ cursor - consumed <= size
    BY ClaimsAssumption DEF ClaimsInv, ClaimsTypeOK, LapInv
  <1>2. PICK clear \in -Half .. Half - 1 :
          clear = sequence_clear_of_consumers[h] /\ clear <= consumed + size
    BY DEF ClaimsInv, ClaimsTypeOK, BoundInv
  <1>3. asked < Half /\ cursor + asked < Half
    BY DEF Fits
  <1>4. PICK free \in 0 .. size : free = consumed + size - cursor
    BY <1>1
  <1>5. I64(asked) = asked /\ I64(cursor + asked) = cursor + asked
    BY <1>1, <1>3, I64Facts
  <1>6. free_slots(cursor, consumed) = free
    <2>1. I64(cursor - size) = cursor - size
      BY <1>1, I64Facts
    <2>2. I64(consumed - (cursor - size)) = consumed - (cursor - size)
      BY <1>1, <1>4, I64Facts
    <2>3. QED
      BY <1>1, <1>4, <2>1, <2>2 DEF free_slots
  <1>7. PICK bound \in -Half .. Half - 1 :
          bound = Bound(free, cursor + asked) /\ bound <= consumed + size
    <2>1. cursor + free \in Int /\ cursor + free >= -Half /\ cursor + free = consumed + size
      BY <1>1, <1>4
    <2>2. QED
      BY <1>1, <2>1, I64Facts DEF Bound
  <1>8. CASE clear >= cursor + asked
    <2>1. ~(clear < cursor + asked)
      BY <1>1, <1>2, <1>8
    <2>2. next_sequences(h, asked) =
            [ok |-> TRUE, n_next |-> cursor + asked, clear |-> clear, missing |-> 0]
      BY <1>2, <1>5, <1>8, <2>1 DEF next_sequences
    <2>3. asked <= free
      BY <1>1, <1>2, <1>4, <1>8
    <2>4. QED
      BY <1>2, <1>4, <2>2, <2>3 DEF DecidesBy
  <1>9. CASE clear < cursor + asked /\ free >= asked
    <2>1. ~(clear >= cursor + asked)
      BY <1>1, <1>2, <1>9
    <2>2. next_sequences(h, asked) =
            [ok |-> TRUE, n_next |-> cursor + asked, clear |-> bound, missing |-> 0]
      BY <1>2, <1>5, <1>6, <1>7, <1>9, <2>1 DEF next_sequences
    <2>3. QED
      BY <1>4, <1>7, <1>9, <2>2 DEF DecidesBy
  <1>10. CASE clear < cursor + asked /\ free < asked
    <2>1. ~(clear >= cursor + asked) /\ ~(free >= asked)
      BY <1>1, <1>2, <1>10
    <2>2. MissingFreeSlots(asked, free) = asked - free
      <3>1. asked - free \in 0 .. Half - 1
        BY <1>1, <1>3, <1>10
      <3>2. I64(asked - free) = asked - free /\ U64(asked - free) = asked - free
        BY <1>1, <3>1, I64Facts, U64Facts
      <3>3. QED
        BY <3>2 DEF MissingFreeSlots
    <2>3. next_sequences(h, asked) =
            [ok |-> FALSE, n_next |-> cursor, clear |-> clear, missing |-> asked - free]
      BY <1>2, <1>5, <1>6, <1>10, <2>1, <2>2 DEF next_sequences
    <2>4. QED
      BY <1>2, <1>4, <1>10, <2>3 DEF DecidesBy
  <1>11. QED
    BY <1>1, <1>2, <1>4, <1>8, <1>9, <1>10

LEMMA DecidesByWhatFits == ClaimsInv => PublishesWhatFits
  <1> SUFFICES ASSUME ClaimsInv, NEW h \in Handles, NEW asked \in 0 .. MaxRequest, Fits(asked)
               PROVE  LET claim == next_sequences(h, asked)
                          free == consumed + size - cursor
                      IN IF claim.ok THEN asked <= free /\ claim.n_next = cursor + asked
                         ELSE asked = free + claim.missing
    BY DEF PublishesWhatFits
  <1>1. asked \in Nat
    BY ClaimsAssumption
  <1>2. PICK free \in 0 .. size :
          free = consumed + size - cursor /\ DecidesBy(h, asked, free)
    BY <1>1, ClaimDecides
  <1>3. CASE asked > free
    <2>1. ~next_sequences(h, asked).ok /\ next_sequences(h, asked).missing = asked - free
      BY <1>1, <1>2, <1>3 DEF DecidesBy
    <2>2. asked = free + (asked - free)
      BY <1>1
    <2>3. QED
      BY <1>2, <2>1, <2>2
  <1>4. CASE asked <= free
    BY <1>1, <1>2, <1>4 DEF DecidesBy
  <1>5. QED
    BY <1>1, <1>2, <1>3, <1>4

-----------------------------------------------------------------------------

LEMMA ClaimsInitInv == ClaimsInit => ClaimsInv
  <1> SUFFICES ASSUME ClaimsInit PROVE ClaimsInv
    OBVIOUS
  <1>1. Half \in Nat /\ size \in Sizes /\ size \in 1 .. Half - 1
    BY ClaimsAssumption DEF ClaimsInit
  <1>2. ClaimsTypeOK
    BY <1>1 DEF ClaimsInit, ClaimsTypeOK
  <1>3. LapInv /\ BoundInv /\ BatchesAhead
    BY <1>1 DEF ClaimsInit, LapInv, BoundInv, BatchesAhead
  <1>4. QED
    BY <1>2, <1>3 DEF ClaimsInv

LEMMA ClaimsNextInv == ClaimsInv /\ [ClaimsNext]_claimsVars => ClaimsInv'
  <1> SUFFICES ASSUME ClaimsInv, [ClaimsNext]_claimsVars PROVE ClaimsInv'
    OBVIOUS
  <1>1. /\ Half \in Nat /\ Half > 0 /\ size \in Sizes /\ size \in 1 .. Half - 1
        /\ cursor \in -1 .. Half - 1 /\ consumed \in -1 .. cursor
    BY ClaimsAssumption DEF ClaimsInv, ClaimsTypeOK
  <1>2. ASSUME NEW h \in Handles, NEW asked \in 0 .. MaxRequest, Claim(h, asked)
        PROVE  ClaimsInv'
    <2>1. asked \in Nat /\ Fits(asked)
      BY <1>2, ClaimsAssumption DEF Claim
    <2>2. PICK free \in 0 .. size, clear \in -Half .. Half - 1 :
            /\ free = consumed + size - cursor /\ asked <= free
            /\ clear <= consumed + size
            /\ next_sequences(h, asked) =
                 [ok |-> TRUE, n_next |-> cursor + asked, clear |-> clear, missing |-> 0]
      <3>1. next_sequences(h, asked).ok
        BY <1>2 DEF Claim
      <3>2. PICK free \in 0 .. size :
          free = consumed + size - cursor /\ DecidesBy(h, asked, free)
        BY <2>1, ClaimDecides
      <3>3. QED
        BY <3>1, <3>2 DEF DecidesBy
    <2>3. /\ cursor' = cursor + asked
          /\ sequence_clear_of_consumers' = [sequence_clear_of_consumers EXCEPT ![h] = clear]
          /\ batch' = [batch EXCEPT ![h] = cursor + 1 .. cursor + asked]
          /\ UNCHANGED <<size, consumed>>
      BY <1>2, <2>2 DEF Claim
    <2>4. cursor + asked < Half
      BY <2>1 DEF Fits
    <2>5. ClaimsTypeOK'
      <3>1. cursor' \in -1 .. Half - 1 /\ consumed' \in -1 .. cursor'
        BY <1>1, <2>1, <2>3, <2>4
      <3>2. cursor + 1 .. cursor + asked \in SUBSET Int
        BY <1>1, <2>1
      <3>3. QED
        BY <2>2, <2>3, <3>1, <3>2 DEF ClaimsInv, ClaimsTypeOK
    <2>6. LapInv'
      BY <1>1, <2>1, <2>2, <2>3 DEF LapInv
    <2>7. BoundInv'
      BY <2>2, <2>3 DEF ClaimsInv, ClaimsTypeOK, BoundInv
    <2>8. BatchesAhead'
      <3>1. ASSUME NEW k \in Handles, NEW t \in batch'[k]
            PROVE  consumed < t /\ t <= cursor + asked
        <4>1. CASE k = h
          <5>1. t \in cursor + 1 .. cursor + asked
            BY <2>3, <3>1, <4>1 DEF ClaimsInv, ClaimsTypeOK
          <5>2. QED
            BY <1>1, <2>1, <5>1
        <4>2. CASE k # h
          <5>1. t \in batch[k] /\ t \in Int
            BY <2>3, <3>1, <4>2 DEF ClaimsInv, ClaimsTypeOK
          <5>2. consumed < t /\ t <= cursor
            BY <5>1 DEF ClaimsInv, BatchesAhead
          <5>3. QED
            BY <1>1, <2>1, <5>1, <5>2
        <4>3. QED
          BY <4>1, <4>2
      <3>2. QED
        BY <2>3, <3>1 DEF BatchesAhead
    <2>9. QED
      BY <2>5, <2>6, <2>7, <2>8 DEF ClaimsInv
  <1>3. ASSUME NEW h \in Handles, Published(h)
        PROVE  ClaimsInv'
    <2>1. ClaimsTypeOK'
      BY <1>3 DEF Published, ClaimsInv, ClaimsTypeOK
    <2>2. LapInv' /\ BoundInv'
      BY <1>3 DEF Published, ClaimsInv, LapInv, BoundInv
    <2>3. BatchesAhead'
      BY <1>3 DEF Published, ClaimsInv, ClaimsTypeOK, BatchesAhead
    <2>4. QED
      BY <2>1, <2>2, <2>3 DEF ClaimsInv
  <1>4. ASSUME GiveBack
        PROVE  ClaimsInv'
    <2>1. /\ consumed' \in consumed + 1 .. cursor
          /\ UNCHANGED <<size, cursor, sequence_clear_of_consumers, batch>>
          /\ \A h \in Handles : \A t \in batch[h] : consumed' < t
      BY <1>4 DEF GiveBack
    <2>2. consumed' \in -1 .. cursor /\ consumed' > consumed
      BY <1>1, <2>1
    <2>3. ClaimsTypeOK'
      BY <2>1, <2>2 DEF ClaimsInv, ClaimsTypeOK
    <2>4. LapInv'
      BY <1>1, <2>1, <2>2 DEF ClaimsInv, LapInv
    <2>5. BoundInv'
      <3>1. ASSUME NEW h \in Handles
            PROVE  sequence_clear_of_consumers[h] <= consumed' + size
        <4>1. PICK clear \in Int :
                clear = sequence_clear_of_consumers[h] /\ clear <= consumed + size
          BY DEF ClaimsInv, ClaimsTypeOK, BoundInv
        <4>2. QED
          BY <1>1, <2>2, <4>1
      <3>2. QED
        BY <2>1, <3>1 DEF BoundInv
    <2>6. BatchesAhead'
      BY <2>1 DEF ClaimsInv, BatchesAhead
    <2>7. QED
      BY <2>3, <2>4, <2>5, <2>6 DEF ClaimsInv
  <1>5. CASE UNCHANGED claimsVars
    BY <1>5 DEF claimsVars, ClaimsInv, ClaimsTypeOK, LapInv, BoundInv, BatchesAhead
  <1>6. QED
    BY <1>2, <1>3, <1>4, <1>5 DEF ClaimsNext

\* The numbers a producer compares are what they stand for in every state a
\* disruptor reaches: at most a ring is claimed and not given back, and the bound
\* a handle has cached, which may have wrapped, is never above what it may claim.
THEOREM ClaimsInvariance == ClaimsSpec => []ClaimsInv
  <1>1. ClaimsInit => ClaimsInv
    BY ClaimsInitInv
  <1>2. ClaimsInv /\ [ClaimsNext]_claimsVars => ClaimsInv'
    BY ClaimsNextInv
  <1>3. QED
    BY <1>1, <1>2, PTL DEF ClaimsSpec

\* A call publishes exactly what it was asked for if that fits beside what is
\* not given back, and otherwise says how many slots are missing: `as i64`, the
\* sums of a release build and `as u64` (multi.rs:196-215) lose nothing.
THEOREM ClaimsFit == ClaimsSpec => []PublishesWhatFits
  <1>1. ClaimsInv => PublishesWhatFits
    BY DecidesByWhatFits
  <1>2. QED
    BY <1>1, ClaimsInvariance, PTL
=============================================================================
