------------------------ MODULE MultiOrderingProofs ------------------------
(***************************************************************************)
(* The orderings the multi-producer disruptor gives its atomics are        *)
(* enough: although the bits of many producers share a word, flips of a    *)
(* batch are relaxed and a scan may be shown words as they were laps ago,  *)
(* its accesses of events are ordered and it still implements the          *)
(* broadcast channel.                                                      *)
(***************************************************************************)
EXTENDS MultiOrdering, MultiDisruptorProofs, ConsumerOrderingProofs

-----------------------------------------------------------------------------

(***************************************************************************)
(* Words of the bit field.                                                 *)
(***************************************************************************)

LEMMA Quotient ==
  ASSUME NEW n \in Nat \ {0}, NEW q \in Int, NEW r \in 0 .. n - 1, NEW x \in Int,
         x = n * q + r
  PROVE  x \div n = q /\ x % n = r
  <1>1. PICK d \in Int, e \in 0 .. n - 1 : /\ d = x \div n /\ e = x % n
                                           /\ x = n * d + e
    OBVIOUS
  <1>2. PICK k \in Int : k = q - d
    OBVIOUS
  <1>3. n * k = e - r
    <2>1. n * k = n * q - n * d
      BY <1>2
    <2>2. n * q \in Int /\ n * d \in Int
      OBVIOUS
    <2>3. QED
      BY <1>1, <2>1, <2>2
  <1>4. ~(k >= 1)
    <2>1. k >= 1 => n * k >= n
      OBVIOUS
    <2>2. QED
      BY <1>3, <2>1
  <1>5. ~(k <= -1)
    <2>1. k <= -1 => n * k <= -n
      OBVIOUS
    <2>2. QED
      BY <1>3, <2>1
  <1>6. k = 0
    BY <1>4, <1>5
  <1>7. QED
    BY <1>1, <1>2, <1>3, <1>6

\* The sequences a scan looks at in one load have their bits in one word.
LEMMA OneWord ==
  ASSUME NEW u \in Int, NEW s \in Int, u <= s, s <= WordEnd(u)
  PROVE  WordFor(s) = WordFor(u)
  <1>1. WordBits \in Nat \ {0} /\ Size \in Nat \ {0}
    BY ProducersAssumption, SizeAssumption
  <1>2. PICK k \in Int : Size = WordBits * k
    <2>1. Size % WordBits = 0
      BY ProducersAssumption
    <2>2. Size \div WordBits \in Int
      BY <1>1
    <2>3. Size = WordBits * (Size \div WordBits) + (Size % WordBits)
      BY <1>1, <2>2
    <2>4. PICK k \in Int : k = Size \div WordBits
      BY <2>2
    <2>5. WordBits * k \in Int
      BY <1>1
    <2>6. WordBits * (Size \div WordBits) = WordBits * k
      BY <2>4
    <2>7. PICK m \in Int : m = WordBits * k
      BY <2>5
    <2>8. Size = m
      BY <2>1, <2>3, <2>6, <2>7
    <2>9. QED
      BY <2>7, <2>8
  <1>3. PICK q \in Int, r \in 0 .. Size - 1 : u = Size * q + r /\ r = SlotOf(u)
    BY LapAndSlot, SlotOfInSlots DEF Slots
  <1>4. PICK a \in Int, b \in 0 .. WordBits - 1 : r = WordBits * a + b /\ a = r \div WordBits
    BY <1>1
  <1>5. u % WordBits = b
    <2>1. PICK n \in Int, m \in Int : n = k * q /\ m = n + a
      OBVIOUS
    <2>2. WordBits * m = WordBits * n + WordBits * a
      BY <1>1, <2>1
    <2>3. u = WordBits * m + b
      <3>1. Size * q = WordBits * n
        <4>1. (WordBits * k) * q = WordBits * (k * q)
          BY <1>1
        <4>2. QED
          BY <1>2, <2>1, <4>1
      <3>2. Size * q \in Int /\ WordBits * n \in Int /\ WordBits * a \in Int
        BY <1>1
      <3>3. u = (WordBits * n) + ((WordBits * a) + b)
        BY <1>3, <1>4, <3>1
      <3>4. QED
        BY <2>2, <3>2, <3>3
    <2>4. QED
      BY <1>1, <2>1, <2>3, Quotient
  <1>6. PICK e \in Int : e = b + (s - u)
    OBVIOUS
  <1>7. e \in 0 .. WordBits - 1
    BY <1>1, <1>5, <1>6 DEF WordEnd
  <1>8. PICK f \in Int : f = WordBits * a + e
    BY <1>1
  <1>9. f \in 0 .. Size - 1
    <2>1. a <= k - 1
      <3>1. a >= k => WordBits * a >= WordBits * k
        BY <1>1
      <3>2. QED
        BY <1>1, <1>2, <1>3, <1>4, <3>1
    <2>2. WordBits * a <= WordBits * (k - 1)
      BY <1>1, <2>1
    <2>3. WordBits * (k - 1) = Size - WordBits
      BY <1>1, <1>2
    <2>4. a >= 0
      <3>1. a <= -1 => WordBits * a <= -WordBits
        BY <1>1
      <3>2. QED
        BY <1>1, <1>3, <1>4, <3>1
    <2>5. WordBits * a >= 0
      BY <1>1, <2>4
    <2>6. WordBits * a \in Int
      BY <1>1
    <2>7. QED
      BY <1>1, <1>7, <1>8, <2>2, <2>3, <2>5, <2>6
  <1>10. s = Size * q + f
    <2>1. Size * q \in Int /\ WordBits * a \in Int
      BY <1>1
    <2>2. QED
      BY <1>3, <1>4, <1>6, <1>8, <2>1
  <1>11. SlotOf(s) = f
    <2>1. f \in 0 .. Size - 1 /\ Size \in Nat \ {0} /\ s \in Int /\ q \in Int /\ s = Size * q + f
      BY <1>1, <1>9, <1>10
    <2>2. s % Size = f
      BY ONLY <2>1, Quotient
    <2>3. QED
      BY <2>2 DEF SlotOf
  <1>12. f \div WordBits = a
    BY <1>1, <1>7, <1>8, Quotient
  <1>13. QED
    BY <1>3, <1>4, <1>11, <1>12 DEF WordFor, WordOf

\* A sequence has its bit in a word.
LEMMA WordsOfSlots ==
  /\ \A i \in Slots : WordOf(i) \in Words /\ i \in SlotsOf(WordOf(i))
  /\ \A s \in Int : /\ WordOf(SlotOf(s)) \in Words
                    /\ SlotOf(s) \in Slots
                    /\ SlotOf(s) \in SlotsOf(WordOf(SlotOf(s)))
  /\ \A w \in Words : \A i \in SlotsOf(w) : i \in Slots /\ WordOf(i) = w
  BY WritersAssumption, SlotOfInSlots DEF SlotsOf

LEMMA NextInLap ==
  ASSUME NEW l \in Int, NEW s \in Int, SlotOf(l) = SlotOf(s), s - Size <= l, l < s + Size
  PROVE  l = s - Size \/ l = s
  <1>1. CASE l < s /\ s - l < Size
    BY <1>1, DistinctSlots
  <1>2. CASE s < l /\ l - s < Size
    BY <1>2, DistinctSlots, SizeAssumption
  <1>3. QED
    BY <1>1, <1>2, SizeAssumption

-----------------------------------------------------------------------------

(***************************************************************************)
(* What a message of a word says of a slot.                                *)
(***************************************************************************)

LEMMA FlipsFacts ==
  ASSUME NEW x, NEW j \in Nat, NEW i
  PROVE  /\ IsFiniteSet(Flips(x, j, i))
         /\ Cardinality(Flips(x, j, i)) \in Nat
         /\ \A k \in Nat : k <= j => Flips(x, k, i) \subseteq Flips(x, j, i)
         /\ j <= 1 => Flips(x, j, i) = {}
  <1>1. IsFiniteSet(2 .. j) /\ Flips(x, j, i) \in SUBSET (2 .. j)
    BY FS_Interval DEF Flips
  <1>2. IsFiniteSet(Flips(x, j, i))
    BY <1>1, FS_Subset
  <1>3. Cardinality(Flips(x, j, i)) \in Nat
    BY <1>2, FS_CardinalityType
  <1>4. ASSUME NEW k \in Nat, k <= j
        PROVE  Flips(x, k, i) \subseteq Flips(x, j, i)
    BY <1>4 DEF Flips
  <1>5. j <= 1 => Flips(x, j, i) = {}
    BY DEF Flips
  <1>6. QED
    BY <1>2, <1>3, <1>4, <1>5

\* It is a sequence of the slot, and later messages say no less.
LEMMA LatestFacts ==
  ASSUME NEW x, NEW j \in Nat, NEW i \in Slots
  PROVE  /\ Latest(x, j, i) \in Int
         /\ SlotOf(Latest(x, j, i)) = i
         /\ i - Size <= Latest(x, j, i)
         /\ \A k \in Nat : k <= j => Latest(x, k, i) <= Latest(x, j, i)
         /\ j <= 1 => Latest(x, j, i) = i - Size
  <1>1. Size \in Nat \ {0} /\ i \in 0 .. Size - 1
    BY SizeAssumption DEF Slots
  <1>2. PICK m \in Int : m = Cardinality(Flips(x, j, i)) - 1 /\ -1 <= m
    BY FlipsFacts
  <1>3. Latest(x, j, i) = i + Size * m
    BY <1>2 DEF Latest
  <1>4. PICK l \in Int : l = Size * m + i
    BY <1>1
  <1>5. l = Latest(x, j, i)
    BY <1>1, <1>3, <1>4
  <1>6. SlotOf(l) = i
    BY <1>1, <1>4, Quotient DEF SlotOf
  <1>7. Size * m >= -Size
    BY <1>1, <1>2
  <1>8. ASSUME NEW k \in Nat, k <= j
        PROVE  Latest(x, k, i) <= Latest(x, j, i)
    <2>1. Flips(x, k, i) \in SUBSET Flips(x, j, i)
      BY <1>8, FlipsFacts
    <2>2. Cardinality(Flips(x, k, i)) <= Cardinality(Flips(x, j, i))
      BY <2>1, FlipsFacts, FS_Subset
    <2>3. PICK n \in Int : n = Cardinality(Flips(x, k, i)) - 1 /\ n <= m
      <3>1. Cardinality(Flips(x, k, i)) \in Nat /\ Cardinality(Flips(x, j, i)) \in Nat
        BY FlipsFacts
      <3>2. QED
        BY <1>2, <2>2, <3>1
    <2>4. Size * n <= Size * m
      BY <1>1, <2>3
    <2>5. Latest(x, k, i) = i + Size * n
      BY <2>3 DEF Latest
    <2>6. QED
      BY <1>1, <1>3, <2>4, <2>5
  <1>9. ASSUME j <= 1
        PROVE  Latest(x, j, i) = i - Size
    <2>1. m = -1
      BY <1>2, <1>9, FlipsFacts, FS_EmptySet
    <2>2. QED
      BY <1>1, <1>3, <2>1
  <1>10. QED
    BY <1>1, <1>4, <1>5, <1>6, <1>7, <1>8, <1>9

\* The flips of a word that has not changed are what they were.
LEMMA SameLatest ==
  ASSUME NEW x, memory'[x] = memory[x], NEW j, NEW i
  PROVE  Latest(x, j, i)' = Latest(x, j, i)
  BY DEF Latest, Flips

-----------------------------------------------------------------------------

(***************************************************************************)
(* What the invariant says of a state.                                     *)
(***************************************************************************)

\* The invariant in its parts.
LEMMA Parts ==
  ASSUME OrderedIInv
  PROVE  /\ TypeOK /\ ConsumersTypeOK /\ OrderTypeOK /\ MemoryTypeOK /\ IInv
         /\ ConsumerOrderInv
         /\ CursorMessageInv /\ ConsumerViewInv /\ AcquireInv /\ ShutdownMessageInv
         /\ WordInv /\ ScanInv /\ ProducerViewInv /\ WriterInv /\ HandleInv
         /\ cursor \in Int
  BY DEF OrderedIInv, OrderedTypeOK, OrderTypeOK, TypeOK, ConsumerOrderInv

LEMMA Whole ==
  ASSUME TypeOK, IInv, ConsumerOrderInv, WordInv, ScanInv, ProducerViewInv, WriterInv, HandleInv
  PROVE  OrderedIInv
  BY DEF OrderedIInv, OrderedTypeOK, ConsumerOrderInv

LEMMA Names ==
  /\ \A p \in Producers : /\ ProducerThread(p) \in AllThreads
                          /\ \A c \in Consumers : ConsumerThread(c) # ProducerThread(p)
                          /\ \A q \in Producers \ {p} : ProducerThread(q) # ProducerThread(p)
  /\ \A c \in Consumers : ConsumerThread(c) \in AllThreads
  /\ {ProducerCursor, ShutdownWord, HandleCounter} \subseteq AllLocations
  /\ \A w \in Words : WordAt(w) \in AllLocations
  /\ \A s \in Int : WordFor(s) \in AllLocations
  /\ \A c \in Consumers : ConsumerCursor(c) \in AllLocations
  BY ThreadNames, LocationNames, WritersAssumption, WordsOfSlots DEF WordFor

\* What a message of a word says of one of its slots.
LEMMA MessageOfWord ==
  ASSUME WordInv, NEW w \in Words, NEW j \in DOMAIN memory[WordAt(w)], NEW i \in SlotsOf(w),
         NEW l, l = Latest(WordAt(w), j, i)
  PROVE  /\ memory[WordAt(w)][j].value \in [SlotsOf(w) -> {0, 1}]
         /\ memory[WordAt(w)][j].value[i] = Parity(l)
         /\ IsPublished(l)
         /\ l >= 0 => memory[WordAt(w)][j].view.done[ProducerThread(writer[l])] >= l
  BY DEF WordInv

\* What a message says of the slot of s, however old it is.
LEMMA WordMessage ==
  ASSUME OrderedIInv, NEW s \in Int, NEW j \in DOMAIN memory[WordFor(s)]
  PROVE  \E l \in Int :
           /\ l = Latest(WordFor(s), j, SlotOf(s))
           /\ SlotOf(l) = SlotOf(s)
           /\ memory[WordFor(s)][j].value[SlotOf(s)] = Parity(l)
           /\ IsPublished(l) /\ l <= cursor
           /\ l >= 0 => memory[WordFor(s)][j].view.done[ProducerThread(writer[l])] >= l
  <1>1. /\ MemoryTypeOK /\ WordInv
        /\ WordOf(SlotOf(s)) \in Words /\ SlotOf(s) \in Slots
        /\ SlotOf(s) \in SlotsOf(WordOf(SlotOf(s)))
    BY Parts, WordsOfSlots
  <1>2. j \in Nat
    BY <1>1, Names, MessageType
  <1>3. PICK l \in Int : l = Latest(WordFor(s), j, SlotOf(s)) /\ SlotOf(l) = SlotOf(s)
    BY <1>1, <1>2, LatestFacts
  <1>4. /\ memory[WordFor(s)][j].value[SlotOf(s)] = Parity(l)
        /\ IsPublished(l)
        /\ l >= 0 => memory[WordFor(s)][j].view.done[ProducerThread(writer[l])] >= l
    BY <1>1, <1>3 DEF WordInv, WordFor
  <1>5. QED
    BY <1>3, <1>4 DEF IsPublished

\* A scan has been over published sequences only.
LEMMA ScannedPublished ==
  ASSUME OrderedIInv, NEW c \in Consumers
  PROVE  /\ Scanned(c) \in Int
         /\ consumer_cursor[c] <= Scanned(c)
         /\ Scanned(c) <= cursor
         /\ \A s \in Int : s <= Scanned(c) => IsPublished(s)
  <1>1. /\ TypeOK /\ IInv /\ ConsumersTypeOK /\ cursor \in Int
        /\ consumer_cursor[c] \in Int /\ available[c] \in Int /\ scanned[c] \in Nat
    BY Parts DEF TypeOK, ConsumersTypeOK
  <1>2. PICK k \in Int : /\ k <= cursor
                         /\ \A s \in 0 .. k : IsPublished(s)
                         /\ ConsumerInv(k)
    BY <1>1, Gapless
  <1>3. CASE cpc[c] \in {"handle", "guard"}
    <2>1. /\ Scanned(c) = available[c]
          /\ consumer_cursor[c] <= available[c] /\ available[c] <= k
      BY <1>2, <1>3 DEF Scanned, ConsumerInv, BatchInv
    <2>2. \A s \in Int : s <= k => IsPublished(s)
      BY <1>1, <1>2, BeforeTheFirst
    <2>3. QED
      BY <1>1, <1>2, <2>1, <2>2
  <1>4. CASE cpc[c] \notin {"handle", "guard"}
    <2>1. Scanned(c) = consumer_cursor[c] + scanned[c]
      BY <1>4 DEF Scanned
    <2>2. CASE scanned[c] = 0
      <3>1. \A s \in Int : s <= consumer_cursor[c] => IsPublished(s)
        BY <1>1, GivenBack
      <3>2. consumer_cursor[c] <= cursor
        BY <1>1, CursorFacts
      <3>3. QED
        BY <1>1, <2>1, <2>2, <3>1, <3>2
    <2>3. CASE scanned[c] # 0
      <3>1. cpc[c] = "load"
        BY <1>1, <2>3 DEF IInv, BitsInv
      <3>2. /\ consumer_sequence[c] = consumer_cursor[c] + 1
            /\ consumer_sequence[c] + scanned[c] - 1 <= cursor
            /\ \A s \in Int : s < consumer_sequence[c] + scanned[c] => IsPublished(s)
        BY <1>1, <3>1, ScanSoFar
      <3>3. QED
        BY <1>1, <2>1, <3>2
    <2>4. QED
      BY <2>2, <2>3
  <1>5. QED
    BY <1>3, <1>4

\* A bit that c may be shown and that says "published" is of this round: c has
\* seen the round before, and nobody is a lap further.
LEMMA ShownPublished ==
  ASSUME OrderedIInv, NEW c \in Consumers, WaitsForProducer(c),
         NEW s \in Int, consumer_cursor[c] < s, s - Size <= Scanned(c),
         NEW j \in Visible(ConsumerThread(c), WordFor(s)),
         memory[WordFor(s)][j].value[SlotOf(s)] = Parity(s)
  PROVE  /\ IsPublished(s) /\ Shows(j, s)
         /\ memory[WordFor(s)][j].view.done[ProducerThread(writer[s])] >= s
  <1>1. /\ TypeOK /\ IInv /\ MemoryTypeOK /\ ScanInv
        /\ consumer_cursor[c] \in Int /\ cursor \in Int /\ NONE <= consumer_cursor[c]
        /\ cursor <= consumer_cursor[c] + Size
        /\ Scanned(c) \in Int /\ Size \in Nat \ {0}
    BY Parts, CursorFacts, ScannedPublished, SizeAssumption
  <1>2. 0 <= s
    BY <1>1 DEF NONE
  <1>3. j \in DOMAIN memory[WordFor(s)]
    BY <1>1, Names, VisibleMessage
  <1>4. PICK l \in Int : /\ l = Latest(WordFor(s), j, SlotOf(s))
                         /\ SlotOf(l) = SlotOf(s)
                         /\ memory[WordFor(s)][j].value[SlotOf(s)] = Parity(l)
                         /\ IsPublished(l) /\ l <= cursor
                         /\ l >= 0 => memory[WordFor(s)][j].view.done[ProducerThread(writer[l])] >= l
    BY <1>3, WordMessage
  <1>5. PICK r \in Int : r = s - Size
    BY <1>1
  <1>6. SlotOf(r) = SlotOf(s) /\ WordFor(r) = WordFor(s) /\ Parity(r) # Parity(s)
    BY <1>5, OneLapBack, ParityFacts DEF WordFor
  <1>7. Shows(j, r)
    <2>1. r \in -Size .. Scanned(c)
      BY <1>1, <1>2, <1>5
    <2>2. QED
      BY <1>1, <1>6, <2>1 DEF ScanInv
  <1>8. r <= l /\ l < s + Size
    BY <1>1, <1>4, <1>6, <1>7 DEF Shows
  <1>9. l = s
    BY <1>4, <1>5, <1>6, <1>8, NextInLap
  <1>10. QED
    BY <1>2, <1>4, <1>9 DEF Shows

-----------------------------------------------------------------------------

(***************************************************************************)
(* What a step that leaves something alone leaves true.                    *)
(***************************************************************************)

LEMMA WordsKept ==
  ASSUME OrderedIInv, UNCHANGED bits, cursor' \in Int,
         \A s \in Int : IsPublished(s)' <=> IsPublished(s),
         \A w \in Words : memory'[WordAt(w)] = memory[WordAt(w)],
         \A s \in Nat : IsPublished(s) => writer'[s] = writer[s]
  PROVE  WordInv'
  <1>1. WordInv /\ MemoryTypeOK /\ cursor \in Int
    BY Parts
  <1>2. ASSUME NEW w \in Words
        PROVE  /\ Newest(WordAt(w))' = Newest(WordAt(w))
               /\ Newest(WordAt(w)).value = [i \in SlotsOf(w) |-> bits[i]]
    BY <1>1 DEF WordInv, Newest
  <1>3. ASSUME NEW w \in Words, NEW j \in DOMAIN memory[WordAt(w)], NEW i \in SlotsOf(w)
        PROVE  \E l \in Int :
                 /\ l = Latest(WordAt(w), j, i)'
                 /\ memory[WordAt(w)][j].value \in [SlotsOf(w) -> {0, 1}]
                 /\ memory[WordAt(w)][j].value[i] = Parity(l)
                 /\ IsPublished(l)'
                 /\ l >= 0 => memory[WordAt(w)][j].view.done[ProducerThread(writer'[l])] >= l
    <2>1. j \in Nat
      BY <1>1, Names, MessageType
    <2>2. i \in Slots
      BY WordsOfSlots
    <2>3. PICK l \in Int : l = Latest(WordAt(w), j, i) /\ l = Latest(WordAt(w), j, i)'
      BY <2>1, <2>2, LatestFacts, SameLatest
    <2>4. /\ memory[WordAt(w)][j].value \in [SlotsOf(w) -> {0, 1}]
          /\ memory[WordAt(w)][j].value[i] = Parity(l)
          /\ IsPublished(l)
          /\ l >= 0 => memory[WordAt(w)][j].view.done[ProducerThread(writer[l])] >= l
      BY <1>1, <2>3, MessageOfWord
    <2>5. IsPublished(l)'
      BY <2>4
    <2>6. l >= 0 => writer'[l] = writer[l]
      BY <2>4
    <2>7. QED
      BY <2>3, <2>4, <2>5, <2>6
  <1>4. ASSUME NEW s \in -Size .. cursor', IsPublished(s)'
        PROVE  \E n : n = Len(memory'[WordFor(s)]) /\ Shows(n, s)'
    <2>1. s \in Int /\ IsPublished(s) /\ s \in -Size .. cursor
      BY <1>1, <1>4, SizeAssumption DEF IsPublished
    <2>2. memory'[WordFor(s)] = memory[WordFor(s)]
      BY <2>1, WordsOfSlots DEF WordFor
    <2>3. Shows(Len(memory[WordFor(s)]), s)
      BY <1>1, <2>1 DEF WordInv
    <2>4. PICK n : n = Len(memory[WordFor(s)])
      OBVIOUS
    <2>5. n = Len(memory'[WordFor(s)])
      BY <2>2, <2>4
    <2>6. Latest(WordFor(s), n, SlotOf(s))' = Latest(WordFor(s), n, SlotOf(s))
      BY <2>2, SameLatest DEF WordFor
    <2>7. Shows(n, s)'
      BY <2>3, <2>4, <2>6 DEF Shows
    <2>8. QED
      BY <2>5, <2>7
  <1>5. \A s \in -Size .. cursor' :
          IsPublished(s)' => Shows(Len(memory[WordFor(s)]), s)'
    BY <1>4 DEF Shows
  <1>6. QED
    BY <1>2, <1>3, <1>5 DEF WordInv, Newest

ScanKnows(c) ==
  WaitsForProducer(c) =>
    /\ Written(acq[ConsumerThread(c)], Scanned(c))
    /\ \A s \in -Size .. Scanned(c) :
         \A j \in Visible(ConsumerThread(c), WordFor(s)) : Shows(j, s)

\* A message of a word shows what it showed, and a new one all that is published.
WordsShow ==
  \A s \in Int : -Size <= s /\ IsPublished(s) =>
    \A j \in DOMAIN memory'[WordFor(s)] :
      \/ j \in DOMAIN memory[WordFor(s)] /\ (Shows(j, s) => Shows(j, s)')
      \/ Shows(j, s)'

LEMMA SameWordsShow ==
  ASSUME \A w \in Words : memory'[WordAt(w)] = memory[WordAt(w)]
  PROVE  WordsShow
  <1> SUFFICES ASSUME NEW s \in Int, NEW j \in DOMAIN memory'[WordFor(s)]
               PROVE  /\ j \in DOMAIN memory[WordFor(s)]
                      /\ Shows(j, s) => Shows(j, s)'
    BY DEF WordsShow
  <1>1. memory'[WordFor(s)] = memory[WordFor(s)]
    BY WordsOfSlots DEF WordFor
  <1>2. QED
    BY <1>1, SameLatest DEF Shows

\* A consumer that scans nothing further keeps what it knows.
LEMMA ScanKept ==
  ASSUME OrderedIInv, MemoryTypeOK', WordsShow, NEW c \in Consumers,
         Scanned(c)' \in Int, Scanned(c)' <= Scanned(c),
         \A e \in DOMAIN writer' : e \in Int /\
           (e <= Scanned(c) => e \in DOMAIN writer /\ writer'[e] = writer[e]),
         \A p \in Producers : acq[ConsumerThread(c)].done[ProducerThread(p)]
                                <= acq'[ConsumerThread(c)].done[ProducerThread(p)],
         \A w \in Words : cur[ConsumerThread(c)].loc[WordAt(w)]
                            <= cur'[ConsumerThread(c)].loc[WordAt(w)]
  PROVE  ScanKnows(c)'
  <1> SUFFICES ASSUME WaitsForProducer(c)
               PROVE  /\ Written(acq[ConsumerThread(c)], Scanned(c))'
                      /\ \A s \in -Size .. Scanned(c)' :
                           \A j \in Visible(ConsumerThread(c), WordFor(s))' : Shows(j, s)'
    BY DEF ScanKnows, WaitsForProducer
  <1> DEFINE t == ConsumerThread(c)
  <1>1. /\ OrderTypeOK /\ MemoryTypeOK /\ ScanInv /\ Scanned(c) \in Int
        /\ t \in AllThreads
    BY Parts, ScannedPublished, Names
  <1>2. PICK old \in View, new \in View, before \in View, after \in View :
          old = acq[t] /\ new = acq'[t] /\ before = cur[t] /\ after = cur'[t]
    BY <1>1 DEF MemoryTypeOK
  <1>3. PICK h \in Int, g \in Int : h = Scanned(c) /\ g = Scanned(c)' /\ g <= h
    BY <1>1
  <1>4. Written(old, h)
    BY <1>1, <1>2, <1>3 DEF ScanInv
  <1>5. ASSUME NEW e \in DOMAIN writer', e <= g
        PROVE  new.done[ProducerThread(writer'[e])] >= e
    <2>1. e \in Int /\ e \in DOMAIN writer /\ writer'[e] = writer[e] /\ e <= h
      BY <1>3, <1>5
    <2>2. writer[e] \in Producers
      BY <1>1, <2>1, WritersAssumption DEF OrderTypeOK
    <2>3. old.done[ProducerThread(writer[e])] >= e
      BY <1>4, <2>1 DEF Written
    <2>4. old.done[ProducerThread(writer[e])] <= new.done[ProducerThread(writer[e])]
      BY <1>2, <2>2
    <2>5. /\ old.done[ProducerThread(writer[e])] \in Int
          /\ new.done[ProducerThread(writer[e])] \in Int
      BY <2>2, Names DEF View
    <2>6. QED
      BY <2>1, <2>3, <2>4, <2>5
  <1>6. Written(acq[t], Scanned(c))'
    BY <1>2, <1>3, <1>5 DEF Written
  <1>7. ASSUME NEW s \in -Size .. g, NEW j \in Visible(t, WordFor(s))'
        PROVE  Shows(j, s)'
    <2>1. s \in Int /\ -Size <= s /\ s \in -Size .. h
      BY <1>3, SizeAssumption
    <2>2. IsPublished(s)
      BY <1>3, <2>1, ScannedPublished
    <2>3. WordFor(s) \in AllLocations /\ WordOf(SlotOf(s)) \in Words
      BY <2>1, Names, WordsOfSlots
    <2>4. /\ DOMAIN memory'[WordFor(s)] = 1 .. Len(memory'[WordFor(s)])
          /\ Len(memory'[WordFor(s)]) \in Nat
      <3>1. PICK new_messages : new_messages = memory'[WordFor(s)]
        OBVIOUS
      <3>2. PICK set : new_messages \in Seq(set)
        BY <2>3, <3>1 DEF MemoryTypeOK, WordFor
      <3>3. QED
        BY <3>1, <3>2, LenProperties
    <2>5. /\ before.loc[WordFor(s)] \in Nat \ {0} /\ after.loc[WordFor(s)] \in Nat \ {0}
          /\ before.loc[WordFor(s)] <= after.loc[WordFor(s)]
      BY <1>2, <2>3 DEF View, WordFor
    <2>6. j \in Int /\ after.loc[WordFor(s)] <= j /\ j <= Len(memory'[WordFor(s)])
      BY <1>2, <2>4, <2>5 DEF Visible, WordFor
    <2>7. j \in DOMAIN memory'[WordFor(s)]
      BY <2>4, <2>5, <2>6
    <2>8. CASE j \in DOMAIN memory[WordFor(s)] /\ (Shows(j, s) => Shows(j, s)')
      <3>1. /\ DOMAIN memory[WordFor(s)] = 1 .. Len(memory[WordFor(s)])
            /\ Len(memory[WordFor(s)]) \in Nat
        BY <1>1, <2>3, MessageType
      <3>2. j \in before.loc[WordFor(s)] .. Len(memory[WordFor(s)])
        BY <2>5, <2>6, <2>8, <3>1
      <3>3. j \in Visible(t, WordFor(s))
        BY <1>2, <3>2 DEF Visible
      <3>4. Shows(j, s)
        BY <1>1, <1>3, <2>1, <3>3 DEF ScanInv
      <3>5. QED
        BY <2>8, <3>4
    <2>9. QED
      BY <2>1, <2>2, <2>7, <2>8 DEF WordsShow
  <1>8. QED
    BY <1>3, <1>6, <1>7

LEMMA ScanOfAll ==
  ASSUME \A c \in Consumers : ScanKnows(c)'
  PROVE  ScanInv'
  BY DEF ScanKnows, ScanInv

\* The bounds p has computed are of events written long ago.
KeptBounds(p) ==
  \/ UNCHANGED writer
  \/ \E w \in Int : /\ WritesOnly(w)
                    /\ sequence_clear_of_consumers[p] - Size < w
                    /\ rear_unread[p] # LastStage => rear_lowest[p] < w

\* A producer that computes no bound keeps the ones it has, and what it knows of
\* the events before them.
LEMMA BoundsKept ==
  ASSUME TypeOK, OrderTypeOK, MemoryTypeOK', NEW p \in Producers, ProducerKnows(p),
         KeptBounds(p),
         NEW t, t = ProducerThread(p),
         Precedes(cur[t], cur'[t]), Precedes(acq[t], acq'[t]),
         sequence_clear_of_consumers'[p] = sequence_clear_of_consumers[p],
         \/ rear_unread'[p] = LastStage
         \/ rear_unread'[p] = rear_unread[p] /\ rear_lowest'[p] = rear_lowest[p]
  PROVE  /\ \A c \in Consumers : Passed(cur[t], c, sequence_clear_of_consumers[p] - Size)'
         /\ \A u \in LastStage' \ rear_unread'[p] : Passed(acq[t], u, rear_lowest[p])'
         /\ \A u \in AllThreads : cur'[t].done[u] >= -1
  <1>1. t \in AllThreads
    BY Names
  <1>2. PICK old \in View, k \in View, m \in View, n \in View :
          old = cur[t] /\ k = cur'[t] /\ m = acq'[t] /\ n = acq[t]
    BY <1>1 DEF OrderTypeOK, MemoryTypeOK
  <1>3. PICK clear \in Int, low \in Int :
          clear = sequence_clear_of_consumers[p] - Size /\ low = rear_lowest[p]
    BY SizeAssumption DEF TypeOK
  <1>4. Precedes(old, k) /\ Precedes(n, m) /\ \A u \in AllThreads : old.done[u] \in Int /\ k.done[u] \in Int
    BY <1>2 DEF View
  <1>5. /\ \A c \in Consumers : Passed(k, c, clear)
        /\ \A u \in LastStage \ rear_unread[p] : Passed(m, u, low)
    <2>1. ASSUME NEW c \in Consumers
          PROVE  Passed(k, c, clear)
      BY <1>2, <1>3, <1>4, PassedLess DEF ProducerKnows
    <2>2. ASSUME NEW u \in LastStage \ rear_unread[p]
          PROVE  Passed(m, u, low)
      <3>1. u \in Consumers /\ Passed(n, u, low)
        BY <1>2, <1>3, LastStageFacts DEF ProducerKnows
      <3>2. QED
        BY <1>4, <3>1, PassedLess
    <2>3. QED
      BY <2>1, <2>2
  <1>6. /\ \A c \in Consumers : Passed(k, c, clear)'
        /\ \A u \in LastStage \ rear_unread[p] : Passed(m, u, low)'
    <2>1. CASE UNCHANGED writer
      BY <1>5, <2>1, KnownStays, LastStageFacts
    <2>2. ASSUME NEW w \in Int, WritesOnly(w), clear < w, rear_unread[p] # LastStage => low < w
          PROVE  /\ \A c \in Consumers : Passed(k, c, clear)'
                 /\ \A u \in LastStage \ rear_unread[p] : Passed(m, u, low)'
      <3>1. \A c \in Consumers : Passed(k, c, clear)'
        BY <1>5, <2>2, KnownBefore
      <3>2. ASSUME NEW u \in LastStage \ rear_unread[p]
            PROVE  Passed(m, u, low)'
        <4>1. low < w /\ u \in Consumers /\ Passed(m, u, low)
          BY <1>5, <2>2, LastStageFacts
        <4>2. QED
          BY <2>2, <4>1, KnownBefore
      <3>3. QED
        BY <3>1, <3>2
    <2>3. QED
      BY <1>3, <2>1, <2>2 DEF KeptBounds
  <1>7. \A u \in LastStage \ rear_unread'[p] : Passed(m, u, low)' /\ rear_lowest'[p] = low
    BY <1>3, <1>6
  <1>8. \A u \in AllThreads : k.done[u] >= old.done[u]
    BY <1>4 DEF Precedes
  <1>9. \A u \in AllThreads : k.done[u] >= -1
    BY <1>2, <1>4, <1>8 DEF ProducerKnows
  <1>10. LastStage' = LastStage
    BY DEF LastStage
  <1>11. PICK bound : bound = sequence_clear_of_consumers'[p] - Size /\ bound = clear
    BY <1>3
  <1>12. \A c \in Consumers : Passed(cur[t], c, sequence_clear_of_consumers[p] - Size)'
    BY <1>2, <1>6, <1>11
  <1>13. \A u \in LastStage \ rear_unread'[p] : Passed(acq[t], u, rear_lowest[p])'
    BY <1>2, <1>7
  <1>14. QED
    BY <1>2, <1>9, <1>10, <1>12, <1>13

\* A producer that claims, writes and publishes nothing can only know more.
LEMMA ProducerKnowsMore ==
  ASSUME TypeOK, OrderTypeOK, MemoryTypeOK', NEW p \in Producers, ProducerKnows(p),
         KeptBounds(p),
         NEW t, t = ProducerThread(p),
         Precedes(cur[t], cur'[t]), Precedes(acq[t], acq'[t]), rel'[t] = rel[t],
         sequence_clear_of_consumers'[p] = sequence_clear_of_consumers[p],
         \/ rear_unread'[p] = LastStage
         \/ rear_unread'[p] = rear_unread[p] /\ rear_lowest'[p] = rear_lowest[p],
         ppc'[p] = "write" =>
           /\ ppc[p] = "write" /\ request'[p] = request[p]
           /\ claimed_sequence'[p] = claimed_sequence[p]
           /\ position'[p] = position[p] /\ unpublished'[p] = unpublished[p],
         ppc'[p] = "unborn" => ppc[p] = "unborn"
  PROVE  ProducerKnows(p)'
  <1>1. /\ \A c \in Consumers : Passed(cur[t], c, sequence_clear_of_consumers[p] - Size)'
        /\ \A u \in LastStage' \ rear_unread'[p] : Passed(acq[t], u, rear_lowest[p])'
        /\ \A u \in AllThreads : cur'[t].done[u] >= -1
    BY BoundsKept
  <1>2. t \in AllThreads
    BY Names
  <1>3. PICK old \in View, k \in View : old = cur[t] /\ k = cur'[t]
    BY <1>2 DEF OrderTypeOK, MemoryTypeOK
  <1>4. old.done[t] <= k.done[t] /\ old.done[t] \in Int /\ k.done[t] \in Int
    BY <1>2, <1>3 DEF Precedes, View
  <1>5. ppc'[p] = "unborn" => /\ sequence_clear_of_consumers'[p] = 0
                              /\ rear_unread'[p] = LastStage'
    BY DEF ProducerKnows, LastStage
  <1>6. ppc'[p] = "write" =>
          /\ Upper(p)' = Upper(p) /\ Lower(p)' = Lower(p)
          /\ Upper(p) <= sequence_clear_of_consumers[p]
          /\ position[p] > Lower(p) => old.done[t] >= position[p] - 1
          /\ unpublished[p] > Lower(p) => rel[t].done[t] >= Upper(p)
    BY <1>3 DEF ProducerKnows, Upper, Lower
  <1>7. position[p] \in Int /\ position[p] > Lower(p) /\ old.done[t] >= position[p] - 1
          => k.done[t] >= position[p] - 1
    BY <1>4
  <1>8. ppc'[p] = "write" =>
          /\ Upper(p)' <= sequence_clear_of_consumers'[p]
          /\ position'[p] > Lower(p)' => k.done[t] >= position'[p] - 1
          /\ unpublished'[p] > Lower(p)' => rel'[t].done[t] >= Upper(p)'
    BY <1>6, <1>7 DEF TypeOK
  <1>9. QED
    BY <1>1, <1>3, <1>5, <1>8 DEF ProducerKnows

-----------------------------------------------------------------------------

(***************************************************************************)
(* Steps of the consumers.                                                 *)
(***************************************************************************)

\* Nothing of it is about what consumers do.
LEMMA SamePublished ==
  ASSUME UNCHANGED producerVars, NEW s
  PROVE  IsPublished(s)' <=> IsPublished(s)
  BY DEF IsPublished, Pending, Upper, producerVars, barrierVars, updateVars, historyVars

\* A step of a consumer leaves the producers where they are.
LEMMA ConsumerMoves ==
  ASSUME OrderedIInv, TypeOK', IInv', ConsumerOrderInv', NEW c \in Consumers,
         UNCHANGED <<producerVars, writer>>,
         \A u \in AllThreads \ {ConsumerThread(c)} : /\ cur'[u] = cur[u]
                                                     /\ acq'[u] = acq[u]
                                                     /\ rel'[u] = rel[u],
         \A w \in Words : memory'[WordAt(w)] = memory[WordAt(w)],
         memory'[ProducerCursor] = memory[ProducerCursor],
         memory'[HandleCounter] = memory[HandleCounter],
         \A d \in Consumers : ScanKnows(d)'
  PROVE  OrderedIInv'
  <1>1. /\ TypeOK /\ OrderTypeOK /\ MemoryTypeOK
        /\ ProducerViewInv /\ WriterInv /\ HandleInv
        /\ OrderTypeOK' /\ MemoryTypeOK'
    BY Parts DEF ConsumerOrderInv, OrderTypeOK
  <1>2. UNCHANGED <<cursor, bits, ppc, request, claimed_sequence, position, unpublished,
                    sequence_clear_of_consumers, rear_unread, rear_lowest>>
    BY DEF producerVars, barrierVars, claimVars, updateVars
  <1>3. \A s : IsPublished(s)' <=> IsPublished(s)
    BY SamePublished
  <1>4. WordInv'
    BY <1>1, <1>2, <1>3, WordsKept DEF TypeOK
  <1>5. ScanInv'
    BY ScanOfAll
  <1>6. ProducerViewInv'
    <2>1. ASSUME NEW p \in Producers
          PROVE  ProducerKnows(p)'
      <3>1. PICK t : t = ProducerThread(p)
        OBVIOUS
      <3>2. t \in AllThreads \ {ConsumerThread(c)}
        BY <3>1, Names
      <3>3. cur'[t] = cur[t] /\ acq'[t] = acq[t] /\ rel'[t] = rel[t]
        BY <3>2
      <3>4. Precedes(cur[t], cur'[t]) /\ Precedes(acq[t], acq'[t])
        BY <1>1, <3>2, <3>3, SameDone DEF MemoryTypeOK
      <3>5. ProducerKnows(p) /\ KeptBounds(p)
        BY <1>1 DEF ProducerViewInv, KeptBounds
      <3>6. QED
        BY <1>1, <1>2, <3>1, <3>3, <3>4, <3>5, ProducerKnowsMore
    <2>2. QED
      BY <2>1 DEF ProducerViewInv
  <1>7. WriterInv'
    BY <1>1, <1>2, <1>3 DEF WriterInv, Lower
  <1>8. HandleInv'
    <2>1. Alive' = Alive
      BY <1>2 DEF Alive
    <2>2. \A p \in Alive : cur'[ProducerThread(p)] = cur[ProducerThread(p)]
      BY Names DEF Alive
    <2>3. QED
      BY <1>1, <1>2, <2>1, <2>2 DEF HandleInv, KnowsCursor, Newest
  <1>9. QED
    BY <1>4, <1>5, <1>6, <1>7, <1>8 DEF OrderedIInv, OrderedTypeOK, ConsumerOrderInv

\* A consumer of stage 1 that is loading looks at words of the bit field only.
LEMMA NoUpstream ==
  ASSUME IInv, NEW c \in Consumers, ConsumerStepOrdered(c), WaitsForProducer(c)
  PROVE  cpc[c] # "load"
  <1>1. PICK k \in NONE .. cursor : ConsumerInv(k)
    BY DEF IInv, GaplessInv
  <1>2. unread[c] \subseteq Upstream(c)
    BY <1>1 DEF ConsumerInv, FoldInv
  <1>3. Upstream(c) = {}
    BY ConsumersAssumption DEF Upstream, WaitsForProducer
  <1>4. QED
    BY <1>2, <1>3 DEF ConsumerStepOrdered, LoadUpstreamOrdered, LoadShutdownOrdered, PollOrdered,
       HandleOrdered, Handle, ReleaseOrdered, Release, GuardDropOrdered, GuardDrop

\* What consumers do on their own, with stale values or not, keeps the invariant
\* of the program.
LEMMA ConsumerMovesInv ==
  ASSUME TypeOK, IInv, NEW k \in Int, k <= cursor, \A s \in 0 .. k : IsPublished(s),
         NONE <= k, ConsumersTypeOK', ConsumerInv(k)', NEW c \in Consumers,
         \A d \in Consumers : consumer_cursor[d] <= consumer_cursor'[d],
         \A d \in Consumers \ {c} :
           cpc'[d] = cpc[d] /\ consumer_sequence'[d] = consumer_sequence[d],
         WaitsForProducer(c) => cpc[c] # "load",
         UNCHANGED <<slots, scanned, producerVars, shutdown_at_sequence>>
  PROVE  TypeOK' /\ IInv'
  <1>1. TypeOK'
    BY DEF TypeOK, SlotsTypeOK, producerVars, barrierVars, claimVars, updateVars, lifeVars,
           historyVars
  <1>2. /\ \A s : IsPublished(s)' <=> IsPublished(s)
        /\ BoundInv' /\ ClaimInv' /\ SlotInv' /\ LifeInv'
        /\ \A s \in cursor' - Size + 1 .. cursor' : Available(s)' <=> IsPublished(s)'
    BY ConsumerLeavesProducers
  <1>3. UNCHANGED <<cursor, sequence_clear_of_consumers, rear_unread, rear_lowest, ppc,
                    current, request>>
    BY DEF producerVars, barrierVars, claimVars
  <1>4. GaplessInv'
    <2>1. k \in NONE .. cursor'
      BY <1>3 DEF TypeOK, NONE
    <2>2. QED
      BY <1>2, <2>1 DEF GaplessInv
  <1>5. BitsInv'
    <2>1. ASSUME NEW d \in Consumers
          PROVE  /\ scanned'[d] # 0 => cpc'[d] = "load" /\ WaitsForProducer(d)
                 /\ \A s \in consumer_sequence'[d] .. consumer_sequence'[d] + scanned'[d] - 1 :
                      IsPublished(s)'
      <3>1. scanned[d] # 0 => cpc[d] = "load" /\ WaitsForProducer(d)
        BY DEF IInv, BitsInv
      <3>2. CASE d = c
        <4>1. scanned'[d] = 0 /\ consumer_sequence'[d] \in Int
          BY <3>1, <3>2 DEF ConsumersTypeOK
        <4>2. consumer_sequence'[d] .. consumer_sequence'[d] + scanned'[d] - 1 = {}
          BY <4>1
        <4>3. QED
          BY <4>1, <4>2
      <3>3. CASE d # c
        BY <1>2, <3>1, <3>3 DEF IInv, BitsInv
      <3>4. QED
        BY <3>2, <3>3
    <2>2. QED
      BY <1>2, <2>1 DEF BitsInv, WaitsForProducer
  <1>6. ClearInv'
    <2>1. \A d \in Consumers : consumer_cursor[d] \in Int /\ consumer_cursor'[d] \in Int
      BY DEF TypeOK, ConsumersTypeOK
    <2>2. LastStage' = LastStage
      BY DEF LastStage
    <2>3. /\ cursor \in Int
          /\ \A p \in Producers : /\ sequence_clear_of_consumers[p] \in Int
                                  /\ rear_lowest[p] \in Int
      BY DEF TypeOK
    <2>4. ClearInv
      BY DEF IInv
    <2>5. \A d \in Consumers : cursor <= consumer_cursor'[d] + Size
      BY <2>1, <2>3, <2>4, SizeAssumption DEF ClearInv
    <2>6. ASSUME NEW p \in Producers
          PROVE  /\ \A d \in Consumers :
                      sequence_clear_of_consumers[p] <= consumer_cursor'[d] + Size
                 /\ \A d \in LastStage \ rear_unread[p] : rear_lowest[p] <= consumer_cursor'[d]
                 /\ ppc[p] = "cas" =>
                      current[p] + request[p].n <= sequence_clear_of_consumers[p]
      <3>1. \A d \in Consumers : sequence_clear_of_consumers[p] <= consumer_cursor'[d] + Size
        BY <2>1, <2>3, <2>4, SizeAssumption DEF ClearInv
      <3>2. \A d \in LastStage \ rear_unread[p] : rear_lowest[p] <= consumer_cursor'[d]
        BY <2>1, <2>3, <2>4, LastStageFacts DEF ClearInv
      <3>3. QED
        BY <2>4, <3>1, <3>2 DEF ClearInv
    <2>7. QED
      BY <1>3, <2>2, <2>5, <2>6 DEF ClearInv
  <1>7. QED
    BY <1>1, <1>2, <1>4, <1>5, <1>6 DEF IInv

\* Who is not involved keeps what it has seen of the bit field.
LEMMA ScanAside ==
  ASSUME OrderedIInv, MemoryTypeOK', WordsShow, NEW d \in Consumers,
         \A e \in DOMAIN writer' : e \in Int /\
           (e <= Scanned(d) => e \in DOMAIN writer /\ writer'[e] = writer[e]),
         cpc'[d] = cpc[d], available'[d] = available[d],
         consumer_cursor'[d] = consumer_cursor[d], scanned'[d] = scanned[d],
         cur'[ConsumerThread(d)] = cur[ConsumerThread(d)],
         acq'[ConsumerThread(d)] = acq[ConsumerThread(d)]
  PROVE  ScanKnows(d)'
  <1>1. PICK h \in Int : h = Scanned(d)
    BY ScannedPublished
  <1>2. h = Scanned(d)'
    BY <1>1 DEF Scanned
  <1>3. Scanned(d)' \in Int /\ Scanned(d)' <= Scanned(d)
    BY <1>1, <1>2
  <1>4. PICK v \in View, w \in View : /\ v = acq[ConsumerThread(d)]
                                      /\ w = cur[ConsumerThread(d)]
    BY Parts, Names DEF MemoryTypeOK
  <1>5. /\ \A p \in Producers : v.done[ProducerThread(p)] \in Int
        /\ \A x \in Words : w.loc[WordAt(x)] \in Int
    BY Names DEF View
  <1>6. /\ \A p \in Producers : acq[ConsumerThread(d)].done[ProducerThread(p)]
                                  <= acq'[ConsumerThread(d)].done[ProducerThread(p)]
        /\ \A x \in Words : cur[ConsumerThread(d)].loc[WordAt(x)]
                              <= cur'[ConsumerThread(d)].loc[WordAt(x)]
    BY <1>4, <1>5
  <1>7. QED
    BY <1>3, <1>6, ScanKept

LEMMA WriterDomain ==
  ASSUME OrderedIInv, UNCHANGED writer, NEW s
  PROVE  \A e \in DOMAIN writer' : e \in Int /\
           (e <= s => e \in DOMAIN writer /\ writer'[e] = writer[e])
  BY Parts DEF OrderTypeOK

\* A step of c is nothing to the other consumers.
LEMMA OthersStay ==
  ASSUME ConsumersTypeOK, NEW c \in Consumers,
         ConsumerStepOrdered(c) \/ ConsumerFailure(c), NEW d \in Consumers \ {c}
  PROVE  /\ cpc'[d] = cpc[d] /\ consumer_sequence'[d] = consumer_sequence[d]
         /\ available'[d] = available[d] /\ consumer_cursor'[d] = consumer_cursor[d]
  <1> USE DEF ConsumersTypeOK
  <1>1. CASE LoadUpstreamOrdered(c)
    <2>1. \/ \E highest : Observed(c, highest)
          \/ UNCHANGED <<cpc, available>>
      BY <1>1 DEF LoadUpstreamOrdered
    <2>2. UNCHANGED <<consumer_cursor, consumer_sequence>>
      BY <1>1 DEF LoadUpstreamOrdered
    <2>3. QED
      BY <2>1, <2>2 DEF Observed, Obtained, NothingNew
  <1>2. CASE LoadShutdownOrdered(c)
    BY <1>2 DEF LoadShutdownOrdered, ShutdownSeen
  <1>3. CASE PollOrdered(c)
    BY <1>3 DEF PollOrdered, ShutdownSeen
  <1>4. CASE HandleOrdered(c)
    BY <1>4 DEF HandleOrdered, Handle
  <1>5. CASE ReleaseOrdered(c)
    BY <1>5 DEF ReleaseOrdered, Release
  <1>6. CASE GuardDropOrdered(c)
    BY <1>6 DEF GuardDropOrdered, GuardDrop
  <1>7. CASE ConsumerFailure(c)
    BY <1>7 DEF ConsumerFailure, HandlerPanics
  <1>8. QED
    BY <1>1, <1>2, <1>3, <1>4, <1>5, <1>6, <1>7 DEF ConsumerStepOrdered

\* A consumer that does not scan has seen no more of the bit field afterwards.
LEMMA NoFurther ==
  ASSUME OrderedIInv, NEW c \in Consumers, cpc[c] # "load", UNCHANGED scanned,
         ConsumerStepOrdered(c) \/ ConsumerFailure(c)
  PROVE  Scanned(c)' \in Int /\ Scanned(c)' <= Scanned(c)
  <1>1. /\ TypeOK /\ IInv /\ scanned[c] = 0 /\ ConsumersTypeOK
        /\ consumer_cursor[c] \in Int /\ available[c] \in Int
        /\ consumer_cursor[c] <= Scanned(c)
        /\ scanned'[c] = 0
    BY Parts, ScannedPublished DEF IInv, BitsInv, ConsumersTypeOK
  <1>2. PICK h \in Int : h = Scanned(c)
    BY ScannedPublished
  <1>3. CASE LoadShutdownOrdered(c) \/ PollOrdered(c)
    <2>1. /\ cpc'[c] \in {"exited", "load"}
          /\ consumer_cursor'[c] = consumer_cursor[c]
      BY <1>1, <1>3 DEF LoadShutdownOrdered, PollOrdered, ShutdownSeen, ConsumersTypeOK
    <2>2. QED
      BY <1>1, <2>1 DEF Scanned
  <1>4. CASE HandleOrdered(c)
    <2>1. UNCHANGED <<cpc, available>> /\ cpc[c] = "handle"
      BY <1>4 DEF HandleOrdered, Handle
    <2>2. QED
      BY <1>1, <2>1 DEF Scanned
  <1>5. CASE ReleaseOrdered(c)
    <2>1. PICK k \in Int : ConsumerInv(k)
      BY <1>1, Gapless
    <2>2. /\ cpc[c] = "handle" /\ cpc'[c] = "load"
          /\ consumer_cursor'[c] = consumer_sequence[c] - 1
      BY <1>1, <1>5 DEF ReleaseOrdered, Release, ConsumersTypeOK
    <2>3. consumer_sequence[c] \in Int /\ consumer_sequence[c] - 1 <= available[c]
      BY <1>1, <2>1, <2>2 DEF ConsumerInv, BatchInv, ConsumersTypeOK
    <2>4. QED
      BY <1>1, <2>2, <2>3 DEF Scanned
  <1>6. CASE GuardDropOrdered(c)
    <2>1. /\ cpc[c] = "guard" /\ cpc'[c] = "idle"
          /\ consumer_cursor'[c] = available[c]
      BY <1>1, <1>6 DEF GuardDropOrdered, GuardDrop, ConsumersTypeOK
    <2>2. QED
      BY <1>1, <2>1 DEF Scanned
  <1>7. CASE ConsumerFailure(c)
    <2>1. cpc'[c] = "panicked" /\ consumer_cursor'[c] = consumer_cursor[c]
      BY <1>1, <1>7 DEF ConsumerFailure, HandlerPanics, ConsumersTypeOK
    <2>2. QED
      BY <1>1, <2>1 DEF Scanned
  <1>8. QED
    BY <1>3, <1>4, <1>5, <1>6, <1>7 DEF ConsumerStepOrdered, LoadUpstreamOrdered

LEMMA ConsumerStepInvOrdered ==
  ASSUME OrderedIInv, NEW c \in Consumers, ConsumerStepOrdered(c),
         UNCHANGED <<scanned, producerVars>>
  PROVE  OrderedIInv'
  <1>1. /\ TypeOK /\ IInv /\ ConsumerOrderInv /\ ConsumersTypeOK
    BY Parts
  <1>2. PICK k \in Int : /\ NONE <= k /\ k <= cursor /\ k <= I64Max
                         /\ \A s \in 0 .. k : IsPublished(s)
                         /\ ConsumerInv(k)
    BY <1>1, Gapless
  <1>3. ConsumerInv(k)' /\ ConsumerOrderInv' /\ ConsumerEffect(c)
    BY <1>1, <1>2, ConsumerStepOrderedInv
  <1>4. \A d \in Consumers : consumer_cursor[d] <= consumer_cursor'[d]
    BY <1>1, <1>2, OrderedCursorsGrow
  <1>5. UNCHANGED <<slots, shutdown_at_sequence, writer>>
    BY DEF ConsumerStepOrdered
  <1>6. \A d \in Consumers \ {c} :
          /\ cpc'[d] = cpc[d] /\ consumer_sequence'[d] = consumer_sequence[d]
          /\ available'[d] = available[d] /\ consumer_cursor'[d] = consumer_cursor[d]
    BY <1>1, OthersStay
  <1>7. WaitsForProducer(c) => cpc[c] # "load"
    BY <1>1, NoUpstream
  <1>8. ConsumersTypeOK' /\ MemoryTypeOK'
    BY <1>3 DEF ConsumerOrderInv, OrderTypeOK
  <1>9. TypeOK' /\ IInv'
    BY <1>1, <1>2, <1>3, <1>4, <1>5, <1>6, <1>7, <1>8, ConsumerMovesInv
  <1>10. /\ \A w \in Words : memory'[WordAt(w)] = memory[WordAt(w)]
         /\ memory'[ProducerCursor] = memory[ProducerCursor]
         /\ memory'[HandleCounter] = memory[HandleCounter]
    BY <1>3, Names, LocationNames DEF ConsumerEffect
  <1>11. WordsShow
    BY <1>10, SameWordsShow
  <1>12. ASSUME NEW d \in Consumers
         PROVE  ScanKnows(d)'
    <2>1. CASE d # c
      <3>1. /\ cur'[ConsumerThread(d)] = cur[ConsumerThread(d)]
            /\ acq'[ConsumerThread(d)] = acq[ConsumerThread(d)]
        BY <1>3, <2>1, ThreadNames DEF ConsumerEffect
      <3>2. scanned'[d] = scanned[d]
        OBVIOUS
      <3>3. QED
        BY <1>5, <1>6, <1>8, <1>11, <2>1, <3>1, <3>2, ScanAside, WriterDomain
    <2>2. CASE d = c /\ WaitsForProducer(c)
      <3>1. Scanned(c)' \in Int /\ Scanned(c)' <= Scanned(c)
        BY <1>7, <2>2, NoFurther
      <3>2. \A p \in Producers : acq[ConsumerThread(c)].done[ProducerThread(p)]
                                   <= acq'[ConsumerThread(c)].done[ProducerThread(p)]
        BY <1>3, WritersAssumption DEF ConsumerEffect
      <3>3. \A w \in Words : cur[ConsumerThread(c)].loc[WordAt(w)]
                               <= cur'[ConsumerThread(c)].loc[WordAt(w)]
        BY <1>3, LocationNames DEF ConsumerEffect
      <3>4. QED
        BY <1>5, <1>8, <1>11, <2>2, <3>1, <3>2, <3>3, ScanKept, WriterDomain
    <2>3. CASE ~WaitsForProducer(d)
      BY <2>3 DEF ScanKnows, WaitsForProducer
    <2>4. QED
      BY <2>1, <2>2, <2>3
  <1>13. \A u \in AllThreads \ {ConsumerThread(c)} :
           cur'[u] = cur[u] /\ acq'[u] = acq[u] /\ rel'[u] = rel[u]
    BY <1>3 DEF ConsumerEffect
  <1>14. UNCHANGED <<producerVars, writer>>
    BY <1>5
  <1>15. QED
    BY <1>3, <1>9, <1>10, <1>12, <1>13, <1>14, ConsumerMoves

\* A handler that panics takes what it knows with it.
LEMMA ConsumerFailureInvOrdered ==
  ASSUME OrderedIInv, NEW c \in Consumers, ConsumerFailure(c),
         UNCHANGED <<scanned, producerVars, orderVars>>
  PROVE  OrderedIInv'
  <1>1. /\ TypeOK /\ IInv /\ ConsumerOrderInv /\ ConsumersTypeOK
    BY Parts
  <1>2. /\ UNCHANGED <<memory, cur, acq, rel, writer>>
        /\ UNCHANGED <<consumer_cursor, consumer_sequence, available, unread, lowest,
                       shutdown_at_sequence>>
        /\ cpc' = [cpc EXCEPT ![c] = "panicked"] /\ cpc[c] = "handle"
    BY DEF orderVars, ConsumerFailure, HandlerPanics
  <1>3. PICK k \in Int : ConsumerInv(k)
    BY <1>1, Gapless
  <1>4. TypeOK' /\ IInv'
    <2>1. [Next]_vars
      BY DEF Next
    <2>2. QED
      BY <1>1, <2>1, NextType, NextInv
  <1>5. CursorMessageInv' /\ ConsumerViewInv'
    <2>1. PICK w \in Int : w = k + 1 /\ k < w
      BY <1>3
    <2>2. WritesOnly(w)
      BY <1>2 DEF WritesOnly
    <2>3. \A d \in Consumers : cpc'[d] \in {"handle", "guard"} => cpc'[d] = cpc[d]
      BY <1>1, <1>2 DEF ConsumersTypeOK
    <2>4. CursorMessageInv /\ ConsumerViewInv
      BY Parts
    <2>5. \A d \in Consumers : /\ cur'[ConsumerThread(d)] = cur[ConsumerThread(d)]
                               /\ acq'[ConsumerThread(d)] = acq[ConsumerThread(d)]
                               /\ memory'[ConsumerCursor(d)] = memory[ConsumerCursor(d)]
      BY <1>2
    <2>6. UNCHANGED <<consumer_cursor, consumer_sequence, available, unread, lowest>>
      BY <1>2
    <2>7. QED
      BY <1>1, <1>3, <2>1, <2>2, <2>3, <2>4, <2>5, <2>6, ConsumersAside
  <1>6. OrderTypeOK'
    <2>1. MemoryTypeOK'
      BY <1>1, <1>2, SameMemory, Parts DEF MemoryTypeOK
    <2>2. QED
      BY <1>2, <2>1, Parts DEF OrderTypeOK
  <1>7. AcquireInv' /\ ShutdownMessageInv'
    BY <1>2, Parts DEF AcquireInv, Precedes, Sees, ShutdownMessageInv
  <1>8. ConsumerOrderInv'
    BY <1>4, <1>5, <1>6, <1>7 DEF ConsumerOrderInv, TypeOK
  <1>9. WordsShow /\ MemoryTypeOK'
    BY <1>2, <1>6, SameWordsShow DEF OrderTypeOK
  <1>10. ASSUME NEW d \in Consumers
         PROVE  ScanKnows(d)'
    <2>1. CASE d # c
      BY <1>1, <1>2, <1>9, <2>1, ScanAside, WriterDomain DEF ConsumersTypeOK
    <2>2. CASE d = c
      <3>1. Scanned(c)' \in Int /\ Scanned(c)' <= Scanned(c)
        BY <1>2, NoFurther
      <3>2. PICK v \in View, w \in View : /\ v = acq[ConsumerThread(c)]
                                          /\ w = cur[ConsumerThread(c)]
        BY Parts, Names DEF MemoryTypeOK
      <3>3. /\ \A p \in Producers : v.done[ProducerThread(p)] \in Int
            /\ \A x \in Words : w.loc[WordAt(x)] \in Int
        BY Names DEF View
      <3>4. /\ \A p \in Producers : acq[ConsumerThread(c)].done[ProducerThread(p)]
                                      <= acq'[ConsumerThread(c)].done[ProducerThread(p)]
            /\ \A x \in Words : cur[ConsumerThread(c)].loc[WordAt(x)]
                                  <= cur'[ConsumerThread(c)].loc[WordAt(x)]
        BY <1>2, <3>2, <3>3
      <3>5. QED
        BY <1>2, <1>9, <2>2, <3>1, <3>4, ScanKept, WriterDomain
    <2>3. QED
      BY <2>1, <2>2
  <1>11. QED
    BY <1>2, <1>4, <1>8, <1>10, ConsumerMoves

-----------------------------------------------------------------------------

(***************************************************************************)
(* Scanning the bit field.                                                 *)
(***************************************************************************)

\* What a look at a word comes to: the message i has shown everything up to e.
ScanShows(c, i, e) ==
  LET high == consumer_sequence[c] + scanned[c]
      x == WordFor(high)
  IN
  /\ high - 1 <= e /\ e <= WordEnd(high)
  /\ i \in Visible(ConsumerThread(c), x)
  /\ \A s \in high .. e : memory[x][i].value[SlotOf(s)] = Parity(s)
  /\ \/ /\ ScanEnds(c, e)
        /\ SetViews(ConsumerThread(c),
                    HavingObtained(c, Loaded(ViewsOf(ConsumerThread(c)), x, i), e))
     \/ /\ e = WordEnd(high)
        /\ ScanGoesOn(c, high)
        /\ SetViews(ConsumerThread(c), Loaded(ViewsOf(ConsumerThread(c)), x, i))

LEMMA ScanWordCases ==
  ASSUME OrderedIInv, NEW c \in Consumers, ScanWordOrdered(c)
  PROVE  /\ \E i : \E e \in Int : ScanShows(c, i, e)
         /\ cpc[c] = "load" /\ WaitsForProducer(c)
         /\ UNCHANGED <<slots, consumer_cursor, consumer_sequence, shutdown_at_sequence,
                        producerVars, memory, writer>>
  <1> DEFINE high == consumer_sequence[c] + scanned[c]
             x == WordFor(high)
             Shown(i, s) == memory[x][i].value[SlotOf(s)] = Parity(s)
             Looked(i) ==
               \/ \E missing \in high .. WordEnd(high) :
                    /\ ~Shown(i, missing)
                    /\ \A s \in high .. WordEnd(high) : s < missing => Shown(i, s)
                    /\ Observed(c, missing - 1)
                    /\ SetViews(ConsumerThread(c),
                                HavingObtained(c, Loaded(ViewsOf(ConsumerThread(c)), x, i),
                                               missing - 1))
                    /\ scanned' = [scanned EXCEPT ![c] = 0]
               \/ /\ \A s \in high .. WordEnd(high) : Shown(i, s)
                  /\ scanned' = [scanned EXCEPT ![c] = WordEnd(high) + 1 - consumer_sequence[c]]
                  /\ SetViews(ConsumerThread(c), Loaded(ViewsOf(ConsumerThread(c)), x, i))
                  /\ UNCHANGED <<cpc, available, unread, lowest>>
  <1>1. high \in Int /\ high = consumer_sequence[c] + scanned[c]
    BY Parts DEF TypeOK, ConsumersTypeOK
  <1>2. WordEnd(high) \in Int /\ high <= WordEnd(high)
    BY <1>1, WordEndFacts
  <1>3. x = WordFor(high)
    OBVIOUS
  <1>4. PICK i \in Visible(ConsumerThread(c), x) : Looked(i)
    BY Zenon DEF ScanWordOrdered, WordFor
  <1> HIDE DEF high, x
  <1>5. CASE \E missing \in high .. WordEnd(high) :
               /\ \A s \in high .. WordEnd(high) :
                    s < missing => memory[x][i].value[SlotOf(s)] = Parity(s)
               /\ Observed(c, missing - 1)
               /\ SetViews(ConsumerThread(c),
                           HavingObtained(c, Loaded(ViewsOf(ConsumerThread(c)), x, i), missing - 1))
               /\ scanned' = [scanned EXCEPT ![c] = 0]
    <2>1. PICK missing \in high .. WordEnd(high) :
            /\ \A s \in high .. WordEnd(high) :
                 s < missing => memory[x][i].value[SlotOf(s)] = Parity(s)
            /\ Observed(c, missing - 1)
            /\ SetViews(ConsumerThread(c),
                        HavingObtained(c, Loaded(ViewsOf(ConsumerThread(c)), x, i), missing - 1))
            /\ scanned' = [scanned EXCEPT ![c] = 0]
      BY <1>5
    <2>2. PICK e \in Int : e = missing - 1 /\ high - 1 <= e /\ e <= WordEnd(high)
      BY <1>1, <1>2
    <2>3. \A s \in high .. e : memory[x][i].value[SlotOf(s)] = Parity(s)
      BY <1>1, <1>2, <2>1, <2>2
    <2>4. ScanShows(c, i, e)
      BY <1>1, <1>3, <2>1, <2>2, <2>3 DEF ScanShows, ScanEnds
    <2>5. QED
      BY <2>4 DEF ScanWordOrdered
  <1>6. CASE /\ \A s \in high .. WordEnd(high) : memory[x][i].value[SlotOf(s)] = Parity(s)
             /\ scanned' = [scanned EXCEPT ![c] = WordEnd(high) + 1 - consumer_sequence[c]]
             /\ SetViews(ConsumerThread(c), Loaded(ViewsOf(ConsumerThread(c)), x, i))
             /\ UNCHANGED <<cpc, available, unread, lowest>>
    <2>1. high - 1 <= WordEnd(high) /\ WordEnd(high) <= WordEnd(high)
      BY <1>1, <1>2
    <2>2. ScanShows(c, i, WordEnd(high))
      BY <1>1, <1>3, <1>6, <2>1 DEF ScanShows, ScanGoesOn
    <2>3. QED
      BY <1>2, <2>2 DEF ScanWordOrdered
  <1>7. QED
    BY <1>4, <1>5, <1>6

\* What a look at a word shows is published, and its message has the writes in tow.
LEMMA ScanShowsPublished ==
  ASSUME OrderedIInv, NEW c \in Consumers, cpc[c] = "load", WaitsForProducer(c),
         NEW i, NEW e \in Int, ScanShows(c, i, e),
         NEW high \in Int, high = consumer_sequence[c] + scanned[c]
  PROVE  /\ Scanned(c) = high - 1
         /\ \A s \in high .. e :
              /\ WordFor(s) = WordFor(high)
              /\ IsPublished(s) /\ Shows(i, s)
              /\ memory[WordFor(high)][i].view.done[ProducerThread(writer[s])] >= s
  <1>1. /\ TypeOK /\ IInv
        /\ consumer_sequence[c] = consumer_cursor[c] + 1
        /\ consumer_cursor[c] \in Int /\ scanned[c] \in Nat
    BY Parts, ScanSoFar
  <1>2. Scanned(c) = high - 1
    BY <1>1 DEF Scanned
  <1>3. /\ WordEnd(high) \in Int /\ WordEnd(high) < high + Size /\ Size \in Nat \ {0}
        /\ e <= WordEnd(high)
        /\ i \in Visible(ConsumerThread(c), WordFor(high))
        /\ \A s \in high .. e : memory[WordFor(high)][i].value[SlotOf(s)] = Parity(s)
    BY WordEndFacts, SizeAssumption DEF ScanShows
  <1>4. ASSUME NEW s \in high .. e
        PROVE  /\ WordFor(s) = WordFor(high)
               /\ IsPublished(s) /\ Shows(i, s)
               /\ memory[WordFor(high)][i].view.done[ProducerThread(writer[s])] >= s
    <2>1. /\ s \in Int /\ high <= s /\ s <= WordEnd(high)
          /\ consumer_cursor[c] < s /\ s - Size <= Scanned(c)
      BY <1>1, <1>2, <1>3
    <2>2. WordFor(s) = WordFor(high)
      BY <2>1, OneWord
    <2>3. /\ i \in Visible(ConsumerThread(c), WordFor(s))
          /\ memory[WordFor(s)][i].value[SlotOf(s)] = Parity(s)
      BY <1>3, <2>2
    <2>4. QED
      BY <2>1, <2>2, <2>3, ShownPublished
  <1>5. QED
    BY <1>2, <1>4

\* What the look at a word leaves c to have seen of the bit field.
LEMMA ScannedFurther ==
  ASSUME TypeOK, NEW c \in Consumers, cpc[c] = "load",
         consumer_sequence[c] = consumer_cursor[c] + 1,
         UNCHANGED <<consumer_cursor, consumer_sequence>>,
         NEW i, NEW e \in Int, ScanShows(c, i, e)
  PROVE  Scanned(c)' \in Int /\ Scanned(c)' <= e
  <1>1. /\ consumer_cursor[c] \in Int /\ scanned[c] \in Nat /\ available \in [Consumers -> Int]
        /\ cpc = [d \in Consumers |-> cpc[d]] /\ scanned = [d \in Consumers |-> scanned[d]]
        /\ consumer_cursor[c] <= e
    BY DEF TypeOK, ConsumersTypeOK, ScanShows
  <1>2. CASE ScanEnds(c, e)
    <2>1. scanned'[c] = 0
      BY <1>1, <1>2 DEF ScanEnds
    <2>2. CASE Obtained(c, e)
      <3>1. CASE available' = [available EXCEPT ![c] = e]
        <4>1. Scanned(c)' \in {e, consumer_cursor[c]}
          BY <1>1, <2>1, <3>1 DEF Scanned
        <4>2. QED
          BY <1>1, <4>1
      <3>2. ASSUME NEW limit \in Limits,
                   available' = [available EXCEPT ![c] =
                                   MinOf(e, SaturatingAdd(consumer_cursor[c], limit))]
            PROVE  Scanned(c)' \in Int /\ Scanned(c)' <= e
        <4>1. PICK m \in Int : m = MinOf(e, SaturatingAdd(consumer_cursor[c], limit)) /\ m <= e
          BY <1>1, ConsumersAssumption DEF MinOf, SaturatingAdd
        <4>2. Scanned(c)' \in {m, consumer_cursor[c]}
          BY <1>1, <2>1, <3>2, <4>1 DEF Scanned
        <4>3. QED
          BY <1>1, <4>1, <4>2
      <3>3. QED
        BY <2>2, <3>1, <3>2 DEF Obtained
    <2>3. CASE NothingNew(c, e)
      <3>1. cpc'[c] \in {"idle", "check"}
        BY <1>1, <2>3 DEF NothingNew
      <3>2. QED
        BY <1>1, <2>1, <3>1 DEF Scanned
    <2>4. QED
      BY <1>2, <2>2, <2>3 DEF ScanEnds, Observed
  <1>3. CASE /\ e = WordEnd(consumer_sequence[c] + scanned[c])
             /\ ScanGoesOn(c, consumer_sequence[c] + scanned[c])
    <2>1. scanned'[c] = e + 1 - consumer_sequence[c] /\ cpc'[c] = "load"
      BY <1>1, <1>3 DEF ScanGoesOn
    <2>2. QED
      BY <1>1, <2>1 DEF Scanned
  <1>4. QED
    BY <1>2, <1>3 DEF ScanShows

\* What the message of a word adds to what a scan has gathered.
LEMMA ScanGathers ==
  ASSUME OrderedIInv, MemoryTypeOK', UNCHANGED <<memory, writer>>,
         NEW c \in Consumers, cpc[c] = "load", WaitsForProducer(c),
         NEW t, t = ConsumerThread(c),
         NEW i, NEW e \in Int, ScanShows(c, i, e),
         NEW high \in Int, high = consumer_sequence[c] + scanned[c],
         Below(cur[t], cur'[t]), Below(acq[t], acq'[t]),
         Below(memory[WordFor(high)][i].view, acq'[t]),
         i <= cur'[t].loc[WordFor(high)],
         NEW k \in View, k = acq'[t],
         NEW h \in Int, h <= e
  PROVE  /\ Written(k, h)
         /\ \A s \in -Size .. h : \A j \in Visible(t, WordFor(s))' : Shows(j, s)'
  <1>1. /\ OrderTypeOK /\ MemoryTypeOK /\ ScanInv /\ t \in AllThreads /\ Size \in Nat \ {0}
        /\ WordFor(high) \in AllLocations
    BY Parts, Names, SizeAssumption
  <1>2. /\ Scanned(c) = high - 1
        /\ \A s \in high .. e :
             /\ WordFor(s) = WordFor(high)
             /\ IsPublished(s) /\ Shows(i, s)
             /\ memory[WordFor(high)][i].view.done[ProducerThread(writer[s])] >= s
    BY ScanShowsPublished
  <1>3. PICK old \in View, before \in View, after \in View :
          old = acq[t] /\ before = cur[t] /\ after = cur'[t]
    BY <1>1 DEF MemoryTypeOK
  <1>4. i \in Visible(t, WordFor(high))
    BY DEF ScanShows
  <1>5. /\ i \in DOMAIN memory[WordFor(high)] /\ i \in Nat \ {0}
        /\ memory[WordFor(high)][i].view \in View
    BY <1>1, <1>4, VisibleMessage
  <1>6. PICK m \in View : m = memory[WordFor(high)][i].view
    BY <1>5
  <1>7. Precedes(old, k) /\ Precedes(m, k) /\ Sees(before, after)
    BY <1>3, <1>6 DEF Below
  <1>8. Written(old, high - 1)
    BY <1>1, <1>2, <1>3 DEF ScanInv
  <1>9. ASSUME NEW d \in DOMAIN writer, d <= h
        PROVE  k.done[ProducerThread(writer[d])] >= d
    <2>1. d \in Int /\ writer[d] \in Writers /\ ProducerThread(writer[d]) \in AllThreads
      BY <1>1, ThreadNames DEF OrderTypeOK
    <2>2. \E v \in View : Precedes(v, k) /\ v.done[ProducerThread(writer[d])] >= d
      <3>1. CASE d <= high - 1
        BY <1>7, <1>8, <3>1 DEF Written
      <3>2. CASE d >= high
        <4>1. d \in high .. e
          BY <1>9, <2>1, <3>2
        <4>2. QED
          BY <1>2, <1>6, <1>7, <4>1
      <3>3. QED
        BY <2>1, <3>1, <3>2
    <2>3. PICK v \in View : Precedes(v, k) /\ v.done[ProducerThread(writer[d])] >= d
      BY <2>2
    <2>4. /\ v.done[ProducerThread(writer[d])] \in Int
          /\ k.done[ProducerThread(writer[d])] \in Int
      BY <2>1 DEF View
    <2>5. v.done[ProducerThread(writer[d])] <= k.done[ProducerThread(writer[d])]
      BY <2>1, <2>3 DEF Precedes
    <2>6. QED
      BY <2>1, <2>3, <2>4, <2>5
  <1>10. ASSUME NEW s \in -Size .. h, NEW j \in Visible(t, WordFor(s))'
         PROVE  Shows(j, s)'
    <2>1. s \in Int /\ WordFor(s) \in AllLocations /\ SlotOf(s) \in Slots
      BY <1>1, Names, SlotOfInSlots
    <2>2. /\ before.loc[WordFor(s)] \in Nat \ {0} /\ after.loc[WordFor(s)] \in Nat \ {0}
          /\ before.loc[WordFor(s)] <= after.loc[WordFor(s)]
          /\ Len(memory[WordFor(s)]) \in Nat
      BY <1>1, <1>7, <2>1, MessageType DEF View, Sees
    <2>3. j \in Nat /\ after.loc[WordFor(s)] <= j /\ j <= Len(memory[WordFor(s)])
      BY <1>3, <2>2 DEF Visible, WordFor
    <2>4. Shows(j, s)
      <3>1. CASE s <= high - 1
        <4>1. s \in -Size .. Scanned(c)
          BY <1>2, <2>1, <3>1
        <4>2. j \in Visible(t, WordFor(s))
          BY <1>3, <2>2, <2>3 DEF Visible
        <4>3. QED
          BY <1>1, <4>1, <4>2 DEF ScanInv
      <3>2. CASE s >= high
        <4>1. s \in high .. e
          BY <2>1, <3>2
        <4>2. WordFor(s) = WordFor(high) /\ Shows(i, s)
          BY <1>2, <4>1
        <4>3. i <= j
          BY <1>3, <1>5, <2>2, <2>3, <4>2
        <4>4. /\ Latest(WordFor(s), i, SlotOf(s)) <= Latest(WordFor(s), j, SlotOf(s))
              /\ Latest(WordFor(s), i, SlotOf(s)) \in Int
              /\ Latest(WordFor(s), j, SlotOf(s)) \in Int
          BY <1>5, <2>1, <2>3, <4>3, LatestFacts
        <4>5. QED
          BY <2>1, <4>2, <4>4 DEF Shows
      <3>3. QED
        BY <2>1, <3>1, <3>2
    <2>5. Latest(WordFor(s), j, SlotOf(s))' = Latest(WordFor(s), j, SlotOf(s))
      BY SameLatest DEF WordFor
    <2>6. QED
      BY <2>4, <2>5 DEF Shows
  <1>11. QED
    BY <1>9, <1>10 DEF Written

\* A scan leaves the other consumers where they are.
LEMMA ScanOthers ==
  ASSUME ConsumersTypeOK, NEW c \in Consumers, NEW i, NEW e \in Int, ScanShows(c, i, e),
         scanned \in [Consumers -> Nat], NEW d \in Consumers \ {c}
  PROVE  /\ cpc'[d] = cpc[d] /\ available'[d] = available[d]
         /\ unread'[d] = unread[d] /\ lowest'[d] = lowest[d]
         /\ scanned'[d] = scanned[d]
  <1> USE DEF ConsumersTypeOK
  <1>1. CASE ScanEnds(c, e)
    <2>1. /\ unread'[d] = unread[d] /\ lowest'[d] = lowest[d] /\ scanned'[d] = scanned[d]
      BY <1>1 DEF ScanEnds, Observed
    <2>2. cpc'[d] = cpc[d] /\ available'[d] = available[d]
      <3>1. CASE Obtained(c, e)
        BY <3>1 DEF Obtained
      <3>2. CASE NothingNew(c, e)
        BY <3>2 DEF NothingNew
      <3>3. QED
        BY <1>1, <3>1, <3>2 DEF ScanEnds, Observed
    <2>3. QED
      BY <2>1, <2>2
  <1>2. CASE ScanGoesOn(c, consumer_sequence[c] + scanned[c])
    BY <1>2 DEF ScanGoesOn
  <1>3. QED
    BY <1>1, <1>2 DEF ScanShows

LEMMA ScanWordInvOrdered ==
  ASSUME OrderedIInv, NEW c \in Consumers, ScanWordOrdered(c)
  PROVE  OrderedIInv'
  <1>1. /\ TypeOK /\ IInv /\ ConsumersTypeOK /\ OrderTypeOK /\ MemoryTypeOK
        /\ ConsumerOrderInv /\ AcquireInv /\ ConsumerKnows(c)
    BY Parts DEF ConsumerViewInv
  <1>2. /\ \E i : \E e \in Int : ScanShows(c, i, e)
        /\ cpc[c] = "load" /\ WaitsForProducer(c)
        /\ UNCHANGED <<slots, consumer_cursor, consumer_sequence, shutdown_at_sequence,
                       producerVars, memory, writer>>
    BY ScanWordCases
  <1>3. PICK i : \E e \in Int : ScanShows(c, i, e)
    BY <1>2
  <1>4. PICK e \in Int : ScanShows(c, i, e)
    BY <1>3
  <1>5. /\ consumer_sequence[c] = consumer_cursor[c] + 1
        /\ consumer_cursor[c] \in Int /\ scanned[c] \in Nat
    BY <1>1, <1>2, ScanSoFar
  <1>6. PICK high \in Int : high = consumer_sequence[c] + scanned[c]
    BY <1>5
  <1>7. PICK x, t : x = WordFor(high) /\ t = ConsumerThread(c)
    OBVIOUS
  <1>8. x \in AllLocations /\ t \in AllThreads
    BY <1>7, Names
  <1>9. i \in Visible(t, x) /\ high - 1 <= e
    BY <1>4, <1>6, <1>7 DEF ScanShows
  <1>10. PICK views :
           /\ \/ views = Loaded(ViewsOf(t), x, i)
              \/ views = AcquireFence(Loaded(ViewsOf(t), x, i))
           /\ SetViews(t, views)
           /\ e >= consumer_sequence[c] /\ ScanEnds(c, e) =>
                \/ views = AcquireFence(Loaded(ViewsOf(t), x, i))
                \/ ScanGoesOn(c, high)
    BY <1>4, <1>6, <1>7 DEF ScanShows, HavingObtained
  <1>11. /\ MemoryTypeOK' /\ AcquireInv'
         /\ \A u \in AllThreads : /\ Below(cur[u], cur'[u]) /\ Below(acq[u], acq'[u])
                                  /\ rel'[u] = rel[u]
         /\ Below(memory[x][i].view, acq'[t])
         /\ i <= cur'[t].loc[x]
         /\ \A u \in AllThreads \ {t} : cur'[u] = cur[u] /\ acq'[u] = acq[u]
         /\ views = AcquireFence(Loaded(ViewsOf(t), x, i)) => cur'[t] = acq'[t]
    BY <1>1, <1>2, <1>8, <1>9, <1>10, LoadStep
  <1>12. \A s \in high .. e : IsPublished(s)
    BY <1>2, <1>4, <1>6, ScanShowsPublished
  <1>13. (e = WordEnd(high) /\ ScanGoesOn(c, high)) \/ ScanEnds(c, e)
    BY <1>4, <1>6 DEF ScanShows
  <1>14. TypeOK' /\ IInv'
    <2>1. \/ \E highest \in Int :
               /\ \A s \in high .. highest : IsPublished(s)
               /\ ScanEnds(c, highest)
          \/ /\ \A s \in high .. WordEnd(high) : IsPublished(s)
             /\ ScanGoesOn(c, high)
      BY <1>12, <1>13
    <2>2. QED
      BY <1>1, <1>2, <1>6, <2>1, ScanStepInv
  <1>15. ConsumersTypeOK'
    BY <1>14 DEF TypeOK
  <1>16. PICK k \in View : k = acq'[t]
    BY <1>8, <1>11 DEF MemoryTypeOK
  <1>17. ASSUME NEW h \in Int, h <= e
         PROVE  /\ Written(k, h)
                /\ \A s \in -Size .. h : \A j \in Visible(t, WordFor(s))' : Shows(j, s)'
    <2>1. Below(cur[t], cur'[t]) /\ Below(acq[t], acq'[t])
      BY <1>8, <1>11
    <2>2. Below(memory[WordFor(high)][i].view, acq'[t]) /\ i <= cur'[t].loc[WordFor(high)]
      BY <1>7, <1>11
    <2>3. UNCHANGED <<memory, writer>> /\ MemoryTypeOK'
      BY <1>2, <1>11
    <2>4. QED
      BY <1>2, <1>4, <1>6, <1>7, <1>16, <1>17, <2>1, <2>2, <2>3, ScanGathers
  <1>18. ConsumerKnows(c)'
    <2>1. /\ Precedes(cur[t], cur'[t]) /\ Precedes(acq[t], acq'[t])
      BY <1>8, <1>11 DEF Below
    <2>2. CASE ScanEnds(c, e) /\ ~ScanGoesOn(c, high)
      <3>1. PICK top \in Int : ConsumerInv(top)
        BY <1>1, Gapless
      <3>2. PICK now \in View : now = cur'[t]
        BY <1>8, <1>11 DEF MemoryTypeOK
      <3>3. e >= consumer_sequence[c] =>
              /\ Written(now, e)
              /\ \A u \in Before(c) : now.done[ConsumerThread(u)] >= e
        <4>1. Before(c) = {}
          BY <1>2, ConsumersAssumption DEF Before, WaitsForProducer
        <4>2. e >= consumer_sequence[c] => now = k
          BY <1>10, <1>11, <1>16, <2>2, <3>2
        <4>3. Written(k, e)
          BY <1>17
        <4>4. QED
          BY <4>1, <4>2, <4>3
      <3>4. Observed(c, e)
        BY <2>2 DEF ScanEnds
      <3>5. QED
        BY <1>1, <1>2, <1>7, <1>11, <2>1, <3>1, <3>2, <3>3, <3>4, BatchKnown
    <2>3. CASE ScanGoesOn(c, high)
      <3>1. UNCHANGED <<cpc, available, unread, lowest>>
        BY <2>3 DEF ScanGoesOn
      <3>2. cpc'[c] \notin {"handle", "guard"}
        BY <1>2, <3>1
      <3>3. QED
        BY <1>1, <1>2, <1>7, <1>11, <2>1, <3>1, <3>2, KnowsMore
    <2>4. QED
      BY <1>13, <2>2, <2>3
  <1>19. \A d \in Consumers \ {c} :
           /\ cpc'[d] = cpc[d] /\ consumer_sequence'[d] = consumer_sequence[d]
           /\ available'[d] = available[d] /\ consumer_cursor'[d] = consumer_cursor[d]
           /\ unread'[d] = unread[d] /\ lowest'[d] = lowest[d] /\ scanned'[d] = scanned[d]
    <2>1. scanned \in [Consumers -> Nat]
      BY <1>1 DEF TypeOK
    <2>2. QED
      BY <1>1, <1>2, <1>4, <2>1, ScanOthers
  <1>20. ConsumerOrderInv'
    <2>1. UNCHANGED <<memory, writer, consumer_cursor, shutdown_at_sequence>>
      BY <1>2
    <2>2. QED
      BY <1>1, <1>7, <1>11, <1>15, <1>18, <1>19, <2>1, ConsumerLoads
  <1>21. WordsShow
    BY <1>2, SameWordsShow
  <1>22. ASSUME NEW d \in Consumers
         PROVE  ScanKnows(d)'
    <2>1. CASE d # c
      <3>1. /\ cur'[ConsumerThread(d)] = cur[ConsumerThread(d)]
            /\ acq'[ConsumerThread(d)] = acq[ConsumerThread(d)]
        BY <1>7, <1>11, <2>1, ThreadNames
      <3>2. \A e1 \in DOMAIN writer' : e1 \in Int /\
              (e1 <= Scanned(d) => e1 \in DOMAIN writer /\ writer'[e1] = writer[e1])
        BY <1>2, WriterDomain
      <3>3. QED
        BY <1>11, <1>19, <1>21, <2>1, <3>1, <3>2, ScanAside
    <2>2. CASE d = c
      <3>1. Scanned(c)' \in Int /\ Scanned(c)' <= e
        BY <1>1, <1>2, <1>4, <1>5, ScannedFurther
      <3>2. PICK h \in Int : h = Scanned(c)' /\ h <= e
        BY <3>1
      <3>3. /\ Written(k, h)
            /\ \A s \in -Size .. h : \A j \in Visible(t, WordFor(s))' : Shows(j, s)'
        BY <1>17, <3>2
      <3>4. Written(k, h)'
        BY <1>2, <3>3, KnownStays
      <3>5. Written(acq[ConsumerThread(c)], Scanned(c))'
        BY <1>7, <1>16, <3>2, <3>4
      <3>6. QED
        BY <1>7, <2>2, <3>2, <3>3, <3>5 DEF ScanKnows
    <2>3. QED
      BY <2>1, <2>2
  <1>23. QED
    <2>1. \A u \in AllThreads \ {ConsumerThread(c)} : /\ cur'[u] = cur[u]
                                                      /\ acq'[u] = acq[u]
                                                      /\ rel'[u] = rel[u]
      BY <1>7, <1>11
    <2>2. UNCHANGED <<producerVars, writer>>
      BY <1>2
    <2>3. /\ \A w \in Words : memory'[WordAt(w)] = memory[WordAt(w)]
          /\ memory'[ProducerCursor] = memory[ProducerCursor]
          /\ memory'[HandleCounter] = memory[HandleCounter]
      BY <1>2
    <2>4. QED
      BY <1>14, <1>20, <1>22, <2>1, <2>2, <2>3, ConsumerMoves

-----------------------------------------------------------------------------

(***************************************************************************)
(* Steps of producers that neither write nor publish.                      *)
(***************************************************************************)

\* The last handle will still know the newest cursor.
LEMMA HandleKept ==
  ASSUME OrderedIInv, MemoryTypeOK', UNCHANGED cursor, Alive' = Alive,
         memory'[ProducerCursor] = memory[ProducerCursor],
         memory'[HandleCounter] = memory[HandleCounter],
         \A q \in Producers : cur[ProducerThread(q)].loc[ProducerCursor]
                                 <= cur'[ProducerThread(q)].loc[ProducerCursor]
  PROVE  HandleInv'
  <1>1. HandleInv /\ MemoryTypeOK
    BY Parts
  <1>2. ASSUME NEW q \in Alive, KnowsCursor(cur[ProducerThread(q)])
        PROVE  KnowsCursor(cur[ProducerThread(q)])'
    <2>1. /\ q \in Producers /\ ProducerThread(q) \in AllThreads
          /\ ProducerCursor \in AllLocations
      BY Names DEF Alive
    <2>2. PICK v \in View, w \in View : /\ v = cur[ProducerThread(q)]
                                        /\ w = cur'[ProducerThread(q)]
      BY <1>1, <2>1 DEF MemoryTypeOK
    <2>3. PICK n \in Nat : n = Len(memory[ProducerCursor])
      BY <1>1, <2>1, MessageType
    <2>4. v.loc[ProducerCursor] >= n /\ v.loc[ProducerCursor] <= w.loc[ProducerCursor]
      BY <1>2, <2>1, <2>2, <2>3 DEF KnowsCursor
    <2>5. v.loc[ProducerCursor] \in Nat /\ w.loc[ProducerCursor] \in Nat
      BY <2>1 DEF View
    <2>6. w.loc[ProducerCursor] >= n
      BY <2>4, <2>5
    <2>7. QED
      BY <2>2, <2>3, <2>6 DEF KnowsCursor
  <1>3. KnowsCursor(Newest(HandleCounter).view) => KnowsCursor(Newest(HandleCounter).view)'
    BY DEF KnowsCursor, Newest
  <1>4. /\ \A i \in DOMAIN memory'[ProducerCursor] : memory'[ProducerCursor][i].value \in Int
        /\ Newest(ProducerCursor)' = Newest(ProducerCursor)
        /\ Newest(ProducerCursor).value = cursor
    BY <1>1 DEF HandleInv, Newest
  <1>5. QED
    BY <1>1, <1>2, <1>3, <1>4 DEF HandleInv

\* A step of one producer is nothing to another.
LEMMA ProducerAside ==
  ASSUME OrderedIInv, MemoryTypeOK', NEW q \in Producers, KeptBounds(q),
         cur'[ProducerThread(q)] = cur[ProducerThread(q)],
         acq'[ProducerThread(q)] = acq[ProducerThread(q)],
         rel'[ProducerThread(q)] = rel[ProducerThread(q)],
         sequence_clear_of_consumers'[q] = sequence_clear_of_consumers[q],
         rear_unread'[q] = rear_unread[q], rear_lowest'[q] = rear_lowest[q],
         ppc'[q] = ppc[q], request'[q] = request[q],
         claimed_sequence'[q] = claimed_sequence[q],
         position'[q] = position[q], unpublished'[q] = unpublished[q]
  PROVE  ProducerKnows(q)'
  <1>1. PICK t : t = ProducerThread(q)
    OBVIOUS
  <1>2. TypeOK /\ OrderTypeOK /\ MemoryTypeOK /\ ProducerKnows(q)
    BY Parts DEF ProducerViewInv
  <1>3. Precedes(cur[t], cur'[t]) /\ Precedes(acq[t], acq'[t])
    BY <1>1, <1>2, Names, SameDone DEF MemoryTypeOK
  <1>4. QED
    BY <1>1, <1>2, <1>3, ProducerKnowsMore

\* What becomes of the invariant in a step that publishes nothing and touches no
\* event, given what it makes the producers know.
LEMMA QuietProducers ==
  ASSUME OrderedIInv, TypeOK', IInv', MemoryTypeOK', AcquireInv', ShutdownMessageInv',
         ProducerViewInv', HandleInv',
         UNCHANGED <<consumerVars, scanned, bits, writer>>,
         \A s \in Int : IsPublished(s)' <=> IsPublished(s),
         \A w \in Words : memory'[WordAt(w)] = memory[WordAt(w)],
         \A c \in Consumers : /\ memory'[ConsumerCursor(c)] = memory[ConsumerCursor(c)]
                              /\ cur'[ConsumerThread(c)] = cur[ConsumerThread(c)]
                              /\ acq'[ConsumerThread(c)] = acq[ConsumerThread(c)],
         \A q \in Producers : ppc'[q] = "write" =>
           \/ position'[q] = Lower(q)'
           \/ ppc[q] = "write" /\ position'[q] = position[q] /\ Lower(q)' = Lower(q)
  PROVE  OrderedIInv'
  <1>1. /\ TypeOK /\ IInv /\ OrderTypeOK /\ ConsumersTypeOK /\ WriterInv
        /\ CursorMessageInv /\ ConsumerViewInv /\ cursor \in Int
    BY Parts
  <1>2. cursor' \in Int /\ ConsumersTypeOK'
    BY DEF TypeOK
  <1>3. WordInv'
    BY <1>2, WordsKept
  <1>4. OrderTypeOK'
    BY <1>1 DEF OrderTypeOK
  <1>5. CursorMessageInv' /\ ConsumerViewInv'
    <2>1. PICK k \in Int : ConsumerInv(k)
      BY <1>1, Gapless
    <2>2. PICK w \in Int : w = k + 1 /\ k < w
      OBVIOUS
    <2>3. WritesOnly(w)
      BY DEF WritesOnly
    <2>4. \A d \in Consumers : cpc'[d] \in {"handle", "guard"} => cpc'[d] = cpc[d]
      BY DEF consumerVars
    <2>5. UNCHANGED <<consumer_cursor, consumer_sequence, available, unread, lowest>>
      BY DEF consumerVars
    <2>6. QED
      BY <1>1, <2>1, <2>2, <2>3, <2>4, <2>5, ConsumersAside
  <1>6. ConsumerOrderInv'
    BY <1>2, <1>4, <1>5 DEF ConsumerOrderInv
  <1>7. ScanInv'
    <2>1. WordsShow
      BY SameWordsShow
    <2>2. ASSUME NEW d \in Consumers
          PROVE  ScanKnows(d)'
      <3>1. /\ cpc'[d] = cpc[d] /\ available'[d] = available[d]
            /\ consumer_cursor'[d] = consumer_cursor[d] /\ scanned'[d] = scanned[d]
        BY DEF consumerVars
      <3>2. \A e \in DOMAIN writer' : e \in Int /\
              (e <= Scanned(d) => e \in DOMAIN writer /\ writer'[e] = writer[e])
        BY WriterDomain
      <3>3. QED
        BY <2>1, <3>1, <3>2, ScanAside
    <2>3. QED
      BY <2>2, ScanOfAll
  <1>8. WriterInv'
    <2>1. ASSUME NEW s \in 0 .. cursor', IsPublished(s)'
          PROVE  s \in DOMAIN writer'
      <3>1. s \in Int /\ IsPublished(s)
        BY <2>1
      <3>2. s \in 0 .. cursor
        BY <1>1, <1>2, <3>1 DEF IsPublished
      <3>3. QED
        BY <1>1, <3>1, <3>2 DEF WriterInv
    <2>2. ASSUME NEW q \in Producers, ppc'[q] = "write",
                 NEW s \in Lower(q)' .. position'[q] - 1
          PROVE  s \in DOMAIN writer' /\ writer'[s] = q
      <3>1. Lower(q)' \in Int /\ position'[q] \in Int
        BY DEF TypeOK, Lower
      <3>2. PICK low \in Int, high \in Int : low = Lower(q)' /\ high = position'[q]
        BY <3>1
      <3>3. CASE high = low
        BY <2>2, <3>2, <3>3
      <3>4. CASE ppc[q] = "write" /\ high = position[q] /\ low = Lower(q)
        BY <1>1, <2>2, <3>2, <3>4 DEF WriterInv
      <3>5. QED
        BY <2>2, <3>2, <3>3, <3>4
    <2>3. QED
      BY <2>1, <2>2 DEF WriterInv
  <1>9. QED
    BY <1>3, <1>6, <1>7, <1>8, <1>4 DEF OrderedIInv, OrderedTypeOK, ConsumerOrderInv

LEMMA LocalStepInvOrdered ==
  ASSUME OrderedIInv, LocalStep \/ UNCHANGED <<vars, orderVars>>
  PROVE  OrderedIInv'
  <1>1. /\ TypeOK /\ IInv /\ OrderTypeOK /\ MemoryTypeOK /\ AcquireInv /\ ShutdownMessageInv
        /\ ProducerViewInv
    BY Parts
  <1>2. UNCHANGED <<memory, cur, acq, rel, writer>>
    BY DEF LocalStep, orderVars
  <1>3. TypeOK' /\ IInv'
    <2>1. [Next]_vars
      <3>1. CASE \E p \in Producers, n \in 1 .. MaxBatch, blocking \in BOOLEAN :
                   Call(p, n, blocking)
        <4>1. \E p \in Producers, n \in 0 .. MaxBatch, blocking \in BOOLEAN : Call(p, n, blocking)
          BY <3>1, ProducersAssumption
        <4>2. QED
          BY <4>1 DEF Next, Client
      <3>2. QED
        BY <3>1 DEF LocalStep, Next, Client, ProducerStep, vars
    <2>2. QED
      BY <1>1, <2>1, NextType, NextInv
  <1> DEFINE Quiet ==
               /\ \A s \in Int : IsPublished(s)' <=> IsPublished(s)
               /\ UNCHANGED <<consumerVars, shutdown_at_sequence, scanned, cursor, bits,
                              claimed_sequence, position, unpublished,
                              sequence_clear_of_consumers, rear_unread, rear_lowest>>
               /\ Alive' = Alive
               /\ \A q \in Producers :
                    /\ ppc'[q] = "write" => ppc[q] = "write" /\ request'[q] = request[q]
                    /\ ppc'[q] = "unborn" => ppc[q] = "unborn"
  <1>4. Quiet
    <2> USE DEF barrierVars, claimVars, updateVars, historyVars
    <2>1. ASSUME NEW p \in Producers, NEW n \in 1 .. MaxBatch, NEW blocking \in BOOLEAN,
                 Call(p, n, blocking)
          PROVE  Quiet
      <3>1. \A q \in Producers : /\ ppc'[q] = IF q = p THEN "start" ELSE ppc[q]
                                 /\ ppc[p] = "idle"
                                 /\ q # p => request'[q] = request[q]
        BY <1>1, <2>1 DEF Call, TypeOK
      <3>2. \A q \in Producers : /\ ppc'[q] = "write" <=> ppc[q] = "write"
                                 /\ ppc[q] = "write" => request'[q] = request[q]
        BY <3>1
      <3>3. \A s : IsPublished(s)' <=> IsPublished(s)
        BY <1>1, <2>1, <3>2, QuietStep DEF Call
      <3>4. Alive' = Alive
        BY <3>1 DEF Alive
      <3>5. QED
        BY <2>1, <3>1, <3>2, <3>3, <3>4 DEF Call
    <2>2. ASSUME NEW p \in Producers, UpdatePanics(p)
          PROVE  Quiet
      <3>1. \A q \in Producers : /\ ppc'[q] = IF q = p THEN "idle" ELSE ppc[q]
                                 /\ ppc[p] = "write"
                                 /\ q # p => request'[q] = request[q]
        BY <1>1, <2>2 DEF UpdatePanics, Return, TypeOK
      <3>2. \A s : IsPublished(s)' <=> IsPublished(s)
        BY <1>1, <2>2, UpdatePanicsInv
      <3>3. Alive' = Alive
        BY <3>1 DEF Alive
      <3>4. QED
        BY <2>2, <3>1, <3>2, <3>3 DEF UpdatePanics
    <2>3. ASSUME NEW p \in Producers, ppc[p] = "join",
                 \/ UNCHANGED ppc
                 \/ ppc' \in {[ppc EXCEPT ![p] = "gone"], [ppc EXCEPT ![p] = "failed"]},
                 UNCHANGED <<slots, consumerVars, shutdown_at_sequence, scanned, barrierVars,
                             claimed_sequence, sequence_clear_of_consumers, request, claimVars,
                             updateVars, abandoned>>
          PROVE  Quiet
      <3>1. \A q \in Producers :
              ppc'[q] = ppc[q] \/ (q = p /\ ppc'[q] \in {"gone", "failed"})
        BY <1>1, <2>3 DEF TypeOK
      <3>2. \A q \in Producers : /\ ppc'[q] = "write" <=> ppc[q] = "write"
                                 /\ ppc[q] = "write" => request'[q] = request[q]
        BY <2>3, <3>1
      <3>3. \A s : IsPublished(s)' <=> IsPublished(s)
        BY <1>1, <2>3, <3>2, QuietStep
      <3>4. Alive' = Alive
        BY <2>3, <3>1 DEF Alive
      <3>5. QED
        BY <2>3, <3>1, <3>2, <3>3, <3>4
    <2>4. ASSUME NEW p \in Producers, NEW c \in Managed, Join(p, c)
          PROVE  Quiet
      BY <2>3, <2>4 DEF Join
    <2>5. ASSUME NEW p \in Producers, DropReturns(p)
          PROVE  Quiet
      BY <2>3, <2>5 DEF DropReturns
    <2>6. CASE Terminated \/ UNCHANGED <<vars, orderVars>>
      BY <2>6 DEF Terminated, vars, producerVars, IsPublished, Pending, Upper, Alive
    <2>7. QED
      BY <2>1, <2>2, <2>4, <2>5, <2>6 DEF LocalStep
  <1>5. MemoryTypeOK' /\ AcquireInv' /\ ShutdownMessageInv'
    <2>1. MemoryTypeOK'
      BY <1>1, <1>2, SameMemory DEF MemoryTypeOK
    <2>2. AcquireInv'
      BY <1>1, <1>2 DEF AcquireInv, Precedes, Sees
    <2>3. NONE' = NONE
      BY DEF NONE
    <2>4. ShutdownMessageInv'
      BY <1>1, <1>2, <1>4, <2>3 DEF ShutdownMessageInv
    <2>5. QED
      BY <2>1, <2>2, <2>4
  <1>6. \A u \in AllThreads : /\ Precedes(cur[u], cur'[u]) /\ Sees(cur[u], cur'[u])
                              /\ Precedes(acq[u], acq'[u])
    <2>1. \A u \in AllThreads : cur[u] \in View /\ acq[u] \in View
      BY <1>1 DEF MemoryTypeOK
    <2>2. QED
      BY <1>2, <2>1, BelowFacts DEF Below
  <1>7. ProducerViewInv'
    <2>1. ASSUME NEW q \in Producers
          PROVE  ProducerKnows(q)'
      <3>1. PICK t \in AllThreads : t = ProducerThread(q)
        BY Names
      <3>2. ProducerKnows(q) /\ KeptBounds(q)
        BY <1>1, <1>2 DEF ProducerViewInv, KeptBounds
      <3>3. rel'[t] = rel[t] /\ Precedes(cur[t], cur'[t]) /\ Precedes(acq[t], acq'[t])
        BY <1>2, <1>6
      <3>4. QED
        BY <1>1, <1>4, <1>5, <3>1, <3>2, <3>3, ProducerKnowsMore
    <2>2. QED
      BY <2>1 DEF ProducerViewInv
  <1>8. HandleInv'
    <2>1. \A q \in Producers : cur[ProducerThread(q)].loc[ProducerCursor]
                                 <= cur'[ProducerThread(q)].loc[ProducerCursor]
      BY <1>6, Names DEF Sees
    <2>2. QED
      BY <1>2, <1>4, <1>5, <2>1, HandleKept
  <1>9. \A q \in Producers : ppc'[q] = "write" =>
          ppc[q] = "write" /\ position'[q] = position[q] /\ Lower(q)' = Lower(q)
    BY <1>4 DEF Lower
  <1>10. UNCHANGED <<consumerVars, scanned, bits, writer>>
    BY <1>2, <1>4
  <1>11. QED
    BY <1>2, <1>3, <1>4, <1>5, <1>7, <1>8, <1>9, <1>10, QuietProducers

\* A load of a producer that is deciding on a claim, given what it knows then.
LEMMA ProducerLoads ==
  ASSUME OrderedIInv, TypeOK', IInv', NEW p \in Producers,
         NEW t, t = ProducerThread(p), NEW x \in AllLocations, NEW i \in Visible(t, x),
         NEW views,
         \/ views = Loaded(ViewsOf(t), x, i)
         \/ views = AcquireFence(Loaded(ViewsOf(t), x, i)),
         SetViews(t, views),
         UNCHANGED <<slots, consumerVars, shutdown_at_sequence, scanned, barrierVars,
                     claimed_sequence, updateVars, abandoned, memory, writer>>,
         ppc[p] \in {"start", "claim", "cas"}, ppc'[p] \in {"idle", "start", "claim", "cas"},
         \A q \in Producers \ {p} :
           /\ ppc'[q] = ppc[q] /\ request'[q] = request[q]
           /\ sequence_clear_of_consumers'[q] = sequence_clear_of_consumers[q]
           /\ rear_unread'[q] = rear_unread[q] /\ rear_lowest'[q] = rear_lowest[q],
         ProducerKnows(p)'
  PROVE  OrderedIInv'
  <1>1. /\ TypeOK /\ IInv /\ OrderTypeOK /\ MemoryTypeOK /\ AcquireInv /\ ShutdownMessageInv
        /\ ProducerViewInv /\ t \in AllThreads
    BY Parts, Names
  <1>2. /\ MemoryTypeOK' /\ AcquireInv'
        /\ \A u \in AllThreads : Below(cur[u], cur'[u]) /\ rel'[u] = rel[u]
        /\ \A u \in AllThreads \ {t} : cur'[u] = cur[u] /\ acq'[u] = acq[u]
    BY <1>1, LoadStep
  <1>3. UNCHANGED <<cursor, bits, claimed_sequence, position, unpublished>>
    BY DEF barrierVars, updateVars
  <1>4. \A q \in Producers : /\ ppc'[q] = "write" <=> ppc[q] = "write"
                             /\ ppc[q] = "write" => request'[q] = request[q]
    OBVIOUS
  <1>5. \A s : IsPublished(s)' <=> IsPublished(s)
    BY <1>1, <1>4, QuietStep
  <1>6. Alive' = Alive
    BY DEF Alive
  <1>7. ShutdownMessageInv'
    <2>1. NONE' = NONE
      BY DEF NONE
    <2>2. QED
      BY <1>1, <2>1 DEF ShutdownMessageInv
  <1>8. ProducerViewInv'
    <2>1. ASSUME NEW q \in Producers \ {p}
          PROVE  ProducerKnows(q)'
      <3>1. ProducerThread(q) \in AllThreads \ {t}
        BY Names
      <3>2. /\ cur'[ProducerThread(q)] = cur[ProducerThread(q)]
            /\ acq'[ProducerThread(q)] = acq[ProducerThread(q)]
            /\ rel'[ProducerThread(q)] = rel[ProducerThread(q)]
        BY <1>2, <3>1
      <3>3. KeptBounds(q)
        BY DEF KeptBounds
      <3>4. QED
        BY <1>2, <1>3, <3>2, <3>3, ProducerAside
    <2>2. QED
      BY <2>1 DEF ProducerViewInv
  <1>9. HandleInv'
    <2>1. \A q \in Producers : cur[ProducerThread(q)].loc[ProducerCursor]
                                 <= cur'[ProducerThread(q)].loc[ProducerCursor]
      BY <1>2, Names DEF Below, Sees
    <2>2. QED
      BY <1>2, <1>3, <1>6, <2>1, HandleKept
  <1>10. \A q \in Producers : ppc'[q] = "write" =>
           ppc[q] = "write" /\ position'[q] = position[q] /\ Lower(q)' = Lower(q)
    BY <1>3, <1>4 DEF Lower
  <1>11. \A c \in Consumers : /\ cur'[ConsumerThread(c)] = cur[ConsumerThread(c)]
                              /\ acq'[ConsumerThread(c)] = acq[ConsumerThread(c)]
    BY <1>2, Names
  <1>12. UNCHANGED <<consumerVars, scanned, bits, writer>>
    BY <1>3
  <1>13. QED
    BY <1>2, <1>5, <1>7, <1>8, <1>9, <1>10, <1>11, <1>12, QuietProducers

\* The cursor as it was some time ago decides on nothing but where p goes next.
LEMMA LoadCursorOrderedInv ==
  ASSUME OrderedIInv, NEW p \in Producers, LoadCursorOrdered(p)
  PROVE  OrderedIInv'
  <1>1. PICK t \in AllThreads : t = ProducerThread(p)
    BY Names
  <1>2. PICK i \in Visible(t, ProducerCursor) :
          /\ ppc[p] \in {"start", "cas"}
          /\ Attempt(p, memory[ProducerCursor][i].value)
          /\ SetViews(t, Loaded(ViewsOf(t), ProducerCursor, i))
    BY <1>1 DEF LoadCursorOrdered, Views
  <1>3. UNCHANGED <<slots, consumerVars, shutdown_at_sequence, scanned, barrierVars,
                    claimed_sequence, sequence_clear_of_consumers, request, rear_unread,
                    rear_lowest, updateVars, lifeVars, historyVars, memory, writer>>
    BY DEF LoadCursorOrdered
  <1>4. /\ TypeOK /\ IInv /\ OrderTypeOK /\ MemoryTypeOK /\ AcquireInv /\ HandleInv
        /\ ProducerViewInv /\ ProducerCursor \in AllLocations
    BY Parts, Names
  <1>5. PICK seen \in Int : seen = memory[ProducerCursor][i].value
    BY <1>2, <1>4, VisibleMessage DEF HandleInv
  <1>6. Attempt(p, seen)
    BY <1>2, <1>5
  <1>7. TypeOK' /\ IInv'
    BY <1>2, <1>3, <1>4, <1>6, AttemptInv
  <1>8. /\ ppc'[p] \in {"claim", "cas"}
        /\ \A q \in Producers \ {p} : ppc'[q] = ppc[q]
    BY <1>4, <1>6 DEF Attempt, TypeOK
  <1>9. PICK views : views = Loaded(ViewsOf(t), ProducerCursor, i)
    OBVIOUS
  <1>10. /\ MemoryTypeOK' /\ rel'[t] = rel[t]
         /\ Precedes(cur[t], cur'[t]) /\ Precedes(acq[t], acq'[t])
    <2>1. /\ MemoryTypeOK'
          /\ \A u \in AllThreads : /\ Below(cur[u], cur'[u]) /\ Below(acq[u], acq'[u])
                                   /\ rel'[u] = rel[u]
      BY <1>2, <1>3, <1>4, <1>9, LoadStep
    <2>2. QED
      BY <2>1 DEF Below
  <1>11. ProducerKnows(p)'
    <2>1. ProducerKnows(p) /\ KeptBounds(p)
      BY <1>3, <1>4 DEF ProducerViewInv, KeptBounds
    <2>2. QED
      BY <1>1, <1>3, <1>4, <1>8, <1>10, <2>1, ProducerKnowsMore
  <1>12. UNCHANGED <<slots, consumerVars, shutdown_at_sequence, scanned, barrierVars,
                     claimed_sequence, updateVars, abandoned, memory, writer>>
    BY <1>3 DEF historyVars
  <1>13. QED
    BY <1>1, <1>2, <1>3, <1>4, <1>7, <1>8, <1>9, <1>11, <1>12, ProducerLoads

\* One load of the fold over the gating cursors: the fence at its end covers the
\* new bound, for every consumer of every stage.
LEMMA RearKnown ==
  ASSUME OrderedIInv, MemoryTypeOK', NEW p \in Producers, ppc[p] = "claim",
         NEW t, t = ProducerThread(p), NEW c \in rear_unread[p],
         NEW value \in Int, NEW message \in View, Passed(message, c, value),
         NEW minimum \in Int, minimum = MinOf(value, rear_lowest[p]),
         UNCHANGED <<writer, claimed_sequence, position, unpublished>>,
         Precedes(cur[t], cur'[t]), Precedes(acq[t], acq'[t]), rel'[t] = rel[t],
         Precedes(message, acq'[t]),
         \/ /\ rear_unread[p] = {c}
            /\ ClaimAgainst(p, minimum)
            /\ FreeSlots(current[p], minimum) >= request[p].n => cur'[t] = acq'[t]
         \/ /\ rear_unread' = [rear_unread EXCEPT ![p] = @ \ {c}]
            /\ rear_lowest' = [rear_lowest EXCEPT ![p] = minimum]
            /\ UNCHANGED <<ppc, sequence_clear_of_consumers>>
  PROVE  ProducerKnows(p)'
  <1>1. /\ TypeOK /\ OrderTypeOK /\ MemoryTypeOK /\ ProducerKnows(p) /\ t \in AllThreads
        /\ KeptBounds(p)
    BY Parts, Names DEF ProducerViewInv, KeptBounds
  <1>2. PICK k \in View, m \in View, old \in View, before \in View :
          k = cur'[t] /\ m = acq'[t] /\ old = acq[t] /\ before = cur[t]
    BY <1>1 DEF MemoryTypeOK
  <1>3. /\ rear_lowest[p] \in Int /\ current[p] \in Int /\ request[p].n \in Nat
        /\ sequence_clear_of_consumers[p] \in Int
        /\ c \in LastStage /\ c \in Consumers
    BY <1>1, LastStageFacts DEF TypeOK
  <1>4. Precedes(before, k) /\ Precedes(old, m) /\ Precedes(message, m)
        /\ minimum <= value /\ minimum <= rear_lowest[p]
    BY <1>2, <1>3 DEF MinOf
  <1>5. \A w \in LastStage \ (rear_unread[p] \ {c}) : Passed(m, w, minimum)
    <2>1. TAKE w \in LastStage \ (rear_unread[p] \ {c})
    <2>2. w \in Consumers
      BY LastStageFacts
    <2>3. CASE w = c
      BY <1>1, <1>4, <2>2, <2>3, PassedLess
    <2>4. CASE w # c
      <3>1. Passed(old, w, rear_lowest[p])
        BY <1>1, <1>2, <2>4 DEF ProducerKnows
      <3>2. QED
        BY <1>1, <1>3, <1>4, <2>2, <3>1, PassedLess
    <2>5. QED
      BY <2>3, <2>4
  <1>6. \A u \in AllThreads : k.done[u] >= -1
    <2>1. \A u \in AllThreads : /\ before.done[u] >= -1 /\ before.done[u] <= k.done[u]
                                /\ before.done[u] \in Int /\ k.done[u] \in Int
      BY <1>1, <1>2, <1>4 DEF ProducerKnows, Precedes, View
    <2>2. QED
      BY <2>1
  <1>7. LastStage' = LastStage
    BY DEF LastStage
  <1>8. CASE /\ rear_unread[p] = {c}
             /\ ClaimAgainst(p, minimum)
             /\ FreeSlots(current[p], minimum) >= request[p].n => cur'[t] = acq'[t]
    <2>1. /\ rear_unread'[p] = LastStage
          /\ ppc'[p] \in {"start", "idle", "cas"}
      BY <1>1, <1>8 DEF ClaimAgainst, Return, TypeOK
    <2>2. CASE UNCHANGED sequence_clear_of_consumers
      BY <1>1, <2>1, <2>2, ProducerKnowsMore
    <2>3. CASE /\ FreeSlots(current[p], minimum) >= request[p].n
               /\ sequence_clear_of_consumers' =
                    [sequence_clear_of_consumers EXCEPT
                       ![p] = current[p] + FreeSlots(current[p], minimum)]
      <3>1. k = m
        BY <1>2, <1>8, <2>3
      <3>2. \A w \in LastStage : Passed(k, w, minimum)
        BY <1>5, <1>8, <3>1
      <3>3. PICK clear \in Int : /\ clear = sequence_clear_of_consumers'[p]
                                 /\ clear - Size = minimum
        BY <1>1, <1>3, <2>3, SizeAssumption DEF FreeSlots, WrapPoint, TypeOK
      <3>4. ASSUME NEW d \in Consumers
            PROVE  Passed(k, d, minimum)
        <4>1. PICK w \in LastStage : d \in LastStage \/ d \in Before(w)
          BY LastStageFacts
        <4>2. CASE d \in LastStage
          BY <3>2, <4>2
        <4>3. CASE d \in Before(w)
          <5>1. Passed(k, w, minimum) /\ Before(d) \cup {d} \subseteq Before(w)
            BY <3>2, <4>3, LastStageFacts, ConsumersAssumption DEF Before
          <5>2. QED
            BY <5>1 DEF Passed
        <4>4. QED
          BY <4>1, <4>2, <4>3
      <3>5. \A d \in Consumers : Passed(k, d, minimum)'
        BY <3>4, KnownStays
      <3>6. \A d \in Consumers : Passed(cur[t], d, sequence_clear_of_consumers[p] - Size)'
        BY <1>2, <3>3, <3>5
      <3>7. \A u \in LastStage \ rear_unread'[p] : Passed(acq[t], u, rear_lowest[p])'
        BY <2>1
      <3>8. QED
        BY <1>2, <1>6, <1>7, <2>1, <3>6, <3>7 DEF ProducerKnows
    <2>4. QED
      BY <1>8, <2>2, <2>3 DEF ClaimAgainst
  <1>9. CASE /\ rear_unread' = [rear_unread EXCEPT ![p] = @ \ {c}]
             /\ rear_lowest' = [rear_lowest EXCEPT ![p] = minimum]
             /\ UNCHANGED <<ppc, sequence_clear_of_consumers>>
    <2>1. /\ rear_unread'[p] = rear_unread[p] \ {c} /\ rear_lowest'[p] = minimum
          /\ ppc'[p] = "claim"
      BY <1>1, <1>9 DEF TypeOK
    <2>2. \A u \in LastStage \ rear_unread'[p] : Passed(m, u, minimum)'
      BY <1>5, <2>1, KnownStays, LastStageFacts
    <2>3. \A u \in LastStage \ rear_unread'[p] : Passed(acq[t], u, rear_lowest[p])'
      BY <1>2, <2>1, <2>2
    <2>4. PICK bound \in Int : bound = sequence_clear_of_consumers[p] - Size
      BY <1>3, SizeAssumption
    <2>5. ASSUME NEW d \in Consumers
          PROVE  Passed(k, d, bound)'
      <3>1. Passed(before, d, bound)
        BY <1>1, <1>2, <2>4 DEF ProducerKnows
      <3>2. Passed(k, d, bound)
        BY <1>1, <1>4, <3>1, PassedLess
      <3>3. QED
        BY <3>2, KnownStays
    <2>6. \A d \in Consumers : Passed(cur[t], d, sequence_clear_of_consumers[p] - Size)'
      BY <1>2, <1>9, <2>4, <2>5
    <2>7. QED
      BY <1>2, <1>6, <1>7, <2>1, <2>3, <2>6 DEF ProducerKnows
  <1>10. QED
    BY <1>8, <1>9

LEMMA LoadRearOrderedInv ==
  ASSUME OrderedIInv, NEW p \in Producers, LoadRearOrdered(p)
  PROVE  OrderedIInv'
  <1>1. PICK t \in AllThreads : t = ProducerThread(p)
    BY Names
  <1>2. PICK c \in rear_unread[p] : \E i \in Visible(t, ConsumerCursor(c)) :
          LET minimum == MinOf(memory[ConsumerCursor(c)][i].value, rear_lowest[p])
              views == Loaded(ViewsOf(t), ConsumerCursor(c), i)
          IN
          \/ /\ rear_unread[p] = {c}
             /\ ClaimAgainst(p, minimum)
             /\ SetViews(t, HavingClaimed(p, views, minimum))
          \/ /\ rear_unread[p] # {c}
             /\ rear_unread' = [rear_unread EXCEPT ![p] = @ \ {c}]
             /\ rear_lowest' = [rear_lowest EXCEPT ![p] = minimum]
             /\ SetViews(t, views)
             /\ UNCHANGED <<ppc, request, current, sequence_clear_of_consumers>>
    BY <1>1 DEF LoadRearOrdered, Views
  <1>3. PICK i \in Visible(t, ConsumerCursor(c)) :
          LET minimum == MinOf(memory[ConsumerCursor(c)][i].value, rear_lowest[p])
              views == Loaded(ViewsOf(t), ConsumerCursor(c), i)
          IN
          \/ /\ rear_unread[p] = {c}
             /\ ClaimAgainst(p, minimum)
             /\ SetViews(t, HavingClaimed(p, views, minimum))
          \/ /\ rear_unread[p] # {c}
             /\ rear_unread' = [rear_unread EXCEPT ![p] = @ \ {c}]
             /\ rear_lowest' = [rear_lowest EXCEPT ![p] = minimum]
             /\ SetViews(t, views)
             /\ UNCHANGED <<ppc, request, current, sequence_clear_of_consumers>>
    BY <1>2
  <1>4. /\ ppc[p] = "claim"
        /\ UNCHANGED <<slots, consumerVars, shutdown_at_sequence, scanned, barrierVars,
                       claimed_sequence, updateVars, lifeVars, historyVars, memory, writer>>
    BY DEF LoadRearOrdered
  <1>5. /\ TypeOK /\ IInv /\ MemoryTypeOK /\ AcquireInv /\ CursorMessageInv
        /\ c \in LastStage /\ c \in Consumers /\ rear_lowest[p] \in Int
        /\ ConsumerCursor(c) \in AllLocations
    BY Parts, Names, LastStageFacts DEF TypeOK
  <1>6. PICK value \in Int, message \in View :
          /\ value = memory[ConsumerCursor(c)][i].value
          /\ message = memory[ConsumerCursor(c)][i].view
          /\ value <= consumer_cursor[c]
          /\ Passed(message, c, value)
    BY <1>5, StaleCursor
  <1>7. PICK minimum \in Int : minimum = MinOf(value, rear_lowest[p])
    BY <1>5 DEF MinOf
  <1>8. PICK loaded : loaded = Loaded(ViewsOf(t), ConsumerCursor(c), i)
    OBVIOUS
  <1>9. \/ /\ rear_unread[p] = {c}
           /\ ClaimAgainst(p, minimum)
           /\ SetViews(t, HavingClaimed(p, loaded, minimum))
        \/ /\ rear_unread' = [rear_unread EXCEPT ![p] = @ \ {c}]
           /\ rear_lowest' = [rear_lowest EXCEPT ![p] = minimum]
           /\ SetViews(t, loaded)
           /\ UNCHANGED <<ppc, request, current, sequence_clear_of_consumers>>
    BY <1>3, <1>6, <1>7, <1>8
  <1>10. PICK views :
           /\ SetViews(t, views)
           /\ views = loaded \/ views = AcquireFence(loaded)
           /\ \/ /\ rear_unread[p] = {c}
                 /\ ClaimAgainst(p, minimum)
                 /\ FreeSlots(current[p], minimum) >= request[p].n =>
                      views = AcquireFence(loaded)
              \/ /\ rear_unread' = [rear_unread EXCEPT ![p] = @ \ {c}]
                 /\ rear_lowest' = [rear_lowest EXCEPT ![p] = minimum]
                 /\ UNCHANGED <<ppc, request, current, sequence_clear_of_consumers>>
    BY <1>9 DEF HavingClaimed
  <1>11. /\ MemoryTypeOK' /\ rel'[t] = rel[t]
         /\ Below(cur[t], cur'[t]) /\ Below(acq[t], acq'[t])
         /\ Below(message, acq'[t])
         /\ views = AcquireFence(loaded) => cur'[t] = acq'[t]
    BY <1>1, <1>4, <1>5, <1>6, <1>8, <1>10, LoadStep
  <1>12. RearStep(p, c, MinOf(value, rear_lowest[p]))
    BY <1>4, <1>7, <1>10 DEF RearStep
  <1>13. TypeOK' /\ IInv'
    BY <1>4, <1>5, <1>6, <1>12, RearStepInv
  <1>14. ProducerKnows(p)'
    BY <1>1, <1>4, <1>6, <1>7, <1>10, <1>11, RearKnown DEF Below, updateVars
  <1>15. /\ ppc'[p] \in {"idle", "start", "claim", "cas"}
         /\ \A q \in Producers \ {p} :
              /\ ppc'[q] = ppc[q] /\ request'[q] = request[q]
              /\ sequence_clear_of_consumers'[q] = sequence_clear_of_consumers[q]
              /\ rear_unread'[q] = rear_unread[q] /\ rear_lowest'[q] = rear_lowest[q]
    <2>1. CASE ClaimAgainst(p, minimum)
      BY <1>5, <2>1 DEF ClaimAgainst, Return, TypeOK
    <2>2. CASE /\ rear_unread' = [rear_unread EXCEPT ![p] = @ \ {c}]
               /\ rear_lowest' = [rear_lowest EXCEPT ![p] = minimum]
               /\ UNCHANGED <<ppc, request, current, sequence_clear_of_consumers>>
      BY <1>4, <1>5, <2>2 DEF TypeOK
    <2>3. QED
      BY <1>10, <2>1, <2>2
  <1>16. /\ UNCHANGED <<slots, consumerVars, shutdown_at_sequence, scanned, barrierVars,
                        claimed_sequence, updateVars, abandoned, memory, writer>>
         /\ ppc[p] \in {"start", "claim", "cas"}
    BY <1>4 DEF historyVars
  <1>17. QED
    BY <1>1, <1>5, <1>8, <1>10, <1>13, <1>14, <1>15, <1>16, ProducerLoads

-----------------------------------------------------------------------------

(***************************************************************************)
(* Read-modify-writes.                                                     *)
(***************************************************************************)

\* A load of any message at all: what it makes of the rest of the views.
LEMMA LoadedAnyway ==
  ASSUME NEW views \in Triple, NEW x \in AllLocations, NEW i \in Nat \ {0},
         memory[x][i].view \in View
  PROVE  /\ Loaded(views, x, i) \in Triple
         /\ Loaded(views, x, i).cur.done = views.cur.done
         /\ Loaded(views, x, i).rel = views.rel
         /\ \A y \in AllLocations \ {x} : Loaded(views, x, i).cur.loc[y] = views.cur.loc[y]
         /\ Below(Loaded(views, x, i).cur, Loaded(views, x, i).acq)
         /\ Below(views.acq, Loaded(views, x, i).acq)
         /\ Below(memory[x][i].view, Loaded(views, x, i).acq)
  <1> DEFINE here == [views.cur EXCEPT !.loc[x] = i]
             both == Union(views.acq, memory[x][i].view)
  <1>1. views.cur \in View /\ views.acq \in View /\ views.rel \in View
    BY DEF Triple
  <1>2. /\ here \in View /\ here.done = views.cur.done
        /\ \A y \in AllLocations \ {x} : here.loc[y] = views.cur.loc[y]
    BY <1>1 DEF View
  <1>3. /\ both \in View
        /\ Below(views.acq, both)
        /\ Below(memory[x][i].view, both)
    BY <1>1, UnionView
  <1> HIDE DEF here, both
  <1>4. /\ Union(both, here) \in View
        /\ Below(both, Union(both, here))
        /\ Below(here, Union(both, here))
    BY <1>2, <1>3, UnionView
  <1>5. Loaded(views, x, i) = [views EXCEPT !.cur = here, !.acq = Union(both, here)]
    BY DEF Loaded, here, both
  <1>6. /\ Loaded(views, x, i) \in Triple
        /\ Loaded(views, x, i).cur = here
        /\ Loaded(views, x, i).acq = Union(both, here)
        /\ Loaded(views, x, i).rel = views.rel
    BY <1>1, <1>2, <1>4, <1>5 DEF Triple
  <1>7. /\ Below(views.acq, Union(both, here))
        /\ Below(memory[x][i].view, Union(both, here))
    BY <1>1, <1>3, <1>4, BelowFacts
  <1>8. QED
    BY <1>2, <1>4, <1>6, <1>7

\* One that acquires knows at once what its message knows.
LEMMA LoadedAcquireViews ==
  ASSUME NEW views \in Triple, NEW x \in AllLocations, NEW i \in Nat \ {0},
         memory[x][i].view \in View
  PROVE  /\ LoadedAcquire(views, x, i) \in Triple
         /\ LoadedAcquire(views, x, i).rel = views.rel
         /\ Precedes(views.cur, LoadedAcquire(views, x, i).cur)
         /\ \A y \in AllLocations \ {x} :
              views.cur.loc[y] <= LoadedAcquire(views, x, i).cur.loc[y]
         /\ Below(memory[x][i].view, LoadedAcquire(views, x, i).cur)
         /\ Below(LoadedAcquire(views, x, i).cur, LoadedAcquire(views, x, i).acq)
         /\ Below(views.acq, LoadedAcquire(views, x, i).acq)
  <1>1. PICK loaded \in Triple :
          /\ loaded = Loaded(views, x, i)
          /\ loaded.cur.done = views.cur.done
          /\ loaded.rel = views.rel
          /\ \A y \in AllLocations \ {x} : loaded.cur.loc[y] = views.cur.loc[y]
          /\ Below(loaded.cur, loaded.acq)
          /\ Below(views.acq, loaded.acq)
          /\ Below(memory[x][i].view, loaded.acq)
    BY LoadedAnyway
  <1>2. loaded.cur \in View /\ loaded.acq \in View /\ views.cur \in View /\ views.acq \in View
    BY DEF Triple
  <1>3. PICK m \in View : m = memory[x][i].view
    OBVIOUS
  <1>4. PICK now \in View : /\ now = Union(loaded.cur, m)
                            /\ Below(loaded.cur, now) /\ Below(m, now)
    BY <1>2, UnionView
  <1>5. Below(now, loaded.acq)
    BY <1>1, <1>2, <1>3, <1>4, UnionLeast
  <1>6. LoadedAcquire(views, x, i) = [loaded EXCEPT !.cur = now]
    BY <1>1, <1>3, <1>4 DEF LoadedAcquire
  <1>7. /\ LoadedAcquire(views, x, i) \in Triple
        /\ LoadedAcquire(views, x, i).cur = now
        /\ LoadedAcquire(views, x, i).acq = loaded.acq
        /\ LoadedAcquire(views, x, i).rel = loaded.rel
    BY <1>6 DEF Triple
  <1>8. Precedes(views.cur, now)
    BY <1>1, <1>2, <1>4 DEF Below, Precedes
  <1>9. \A y \in AllLocations \ {x} : views.cur.loc[y] <= now.loc[y]
    BY <1>1, <1>4 DEF Below, Sees
  <1>10. QED
    BY <1>1, <1>3, <1>4, <1>5, <1>7, <1>8, <1>9

\* A read-modify-write's own message knows what the one it finds knows.
LEMMA ExchangeMessageFacts ==
  ASSUME MemoryTypeOK, NEW views \in Triple, NEW x \in AllLocations, NEW v, NEW ordering
  PROVE  /\ ExchangeMessage(views, x, v, ordering) \in [value : {v}, view : View]
         /\ Precedes(Carried(views, ordering), ExchangeMessage(views, x, v, ordering).view)
         /\ \A y \in AllLocations \ {x} :
              Carried(views, ordering).loc[y]
                <= ExchangeMessage(views, x, v, ordering).view.loc[y]
         /\ Below(Newest(x).view, ExchangeMessage(views, x, v, ordering).view)
  <1>1. PICK message \in [value : {v}, view : View] :
          /\ message = Message(views, x, v, ordering)
          /\ message.view.done = Carried(views, ordering).done
          /\ \A y \in AllLocations \ {x} :
               message.view.loc[y] = Carried(views, ordering).loc[y]
    BY MessageFacts
  <1>2. Newest(x).view \in View
    <2>1. Len(memory[x]) \in DOMAIN memory[x]
      BY MessageType
    <2>2. QED
      BY <2>1, MessageType DEF Newest
  <1>3. PICK newest \in View : newest = Newest(x).view
    BY <1>2
  <1>4. PICK both \in View : /\ both = Union(message.view, newest)
                             /\ Below(message.view, both) /\ Below(newest, both)
    BY UnionView
  <1>5. ExchangeMessage(views, x, v, ordering) = [message EXCEPT !.view = both]
    BY <1>1, <1>3, <1>4 DEF ExchangeMessage
  <1>6. PICK m \in [value : {v}, view : View] :
          m = ExchangeMessage(views, x, v, ordering) /\ m.view = both
    BY <1>5
  <1>7. Precedes(Carried(views, ordering), both)
    BY <1>1, <1>4 DEF Below, Precedes
  <1>8. \A y \in AllLocations \ {x} : Carried(views, ordering).loc[y] <= both.loc[y]
    BY <1>1, <1>4 DEF Below, Sees
  <1>9. QED
    BY <1>3, <1>4, <1>6, <1>7, <1>8

\* What a read-modify-write that acquires and releases makes of the views of its
\* thread, and the message it stores.
LEMMA ExchangeViews ==
  ASSUME MemoryTypeOK, AcquireInv, NEW p \in Producers, NEW t, t = ProducerThread(p),
         NEW x \in AllLocations, NEW v
  PROVE  \E after \in Triple : \E m \in [value : {v}, view : View] :
            /\ after = Stored(LoadedAcquire(Views(p), x, Len(memory[x])), x)
            /\ m = ExchangeMessage(LoadedAcquire(Views(p), x, Len(memory[x])), x, v, "Release")
            /\ Precedes(cur[t], after.cur) /\ Precedes(acq[t], after.acq) /\ after.rel = rel[t]
            /\ \A y \in AllLocations \ {x} : cur[t].loc[y] <= after.cur.loc[y]
            /\ after.cur.loc[x] = Len(memory[x]) + 1
            /\ Below(after.cur, after.acq)
            /\ Below(Newest(x).view, m.view)
            /\ \A y \in AllLocations \ {x} : cur[t].loc[y] <= m.view.loc[y]
  <1>1. PICK n \in Nat \ {0} : n = Len(memory[x]) /\ memory[x][n].view \in View
    <2>1. Len(memory[x]) \in Nat \ {0} /\ Len(memory[x]) \in DOMAIN memory[x]
      BY MessageType
    <2>2. QED
      BY <2>1, MessageType
  <1>2. t \in AllThreads
    BY Names
  <1>3. PICK before \in Triple : /\ before = ViewsOf(t) /\ before.cur = cur[t]
                                 /\ before.acq = acq[t] /\ before.rel = rel[t]
    BY <1>2, ViewsOfType
  <1>4. PICK views \in Triple :
          /\ views = LoadedAcquire(before, x, n)
          /\ views.rel = before.rel
          /\ Precedes(before.cur, views.cur)
          /\ \A y \in AllLocations \ {x} : before.cur.loc[y] <= views.cur.loc[y]
          /\ Below(views.cur, views.acq)
          /\ Below(before.acq, views.acq)
    BY <1>1, LoadedAcquireViews
  <1>5. PICK m \in [value : {v}, view : View] :
          /\ m = ExchangeMessage(views, x, v, "Release")
          /\ \A y \in AllLocations \ {x} : views.cur.loc[y] <= m.view.loc[y]
          /\ Below(Newest(x).view, m.view)
    BY ExchangeMessageFacts DEF Carried
  <1>6. PICK after \in Triple :
          /\ after = Stored(views, x)
          /\ after.cur.done = views.cur.done
          /\ after.acq.done = views.acq.done
          /\ after.rel = views.rel
          /\ \A y \in AllLocations \ {x} : after.cur.loc[y] = views.cur.loc[y]
          /\ after.cur.loc[x] = Len(memory[x]) + 1
          /\ Below(after.cur, after.acq)
    BY <1>4, StoredViews, StoredBelow
  <1>7. Precedes(before.cur, after.cur) /\ Precedes(before.acq, after.acq)
    BY <1>4, <1>6 DEF Below, Precedes
  <1>8. \A y \in AllLocations \ {x} : cur[t].loc[y] <= m.view.loc[y]
    <2>1. \A y \in AllLocations : /\ before.cur.loc[y] \in Int /\ views.cur.loc[y] \in Int
                                  /\ m.view.loc[y] \in Int
      BY DEF Triple, View
    <2>2. QED
      BY <1>3, <1>4, <1>5, <2>1
  <1>9. /\ after = Stored(LoadedAcquire(Views(p), x, Len(memory[x])), x)
        /\ m = ExchangeMessage(LoadedAcquire(Views(p), x, Len(memory[x])), x, v, "Release")
    BY <1>1, <1>3, <1>4, <1>5, <1>6 DEF Views
  <1>10. QED
    BY <1>3, <1>4, <1>5, <1>6, <1>7, <1>8, <1>9

\* A read-modify-write that acquires and releases.
LEMMA ExchangeStep ==
  ASSUME MemoryTypeOK, AcquireInv, NEW p \in Producers, NEW t, t = ProducerThread(p),
         NEW x \in AllLocations, NEW v, Exchange(p, x, v)
  PROVE  /\ MemoryTypeOK' /\ AcquireInv'
         /\ Precedes(cur[t], cur'[t]) /\ Precedes(acq[t], acq'[t]) /\ rel'[t] = rel[t]
         /\ \A y \in AllLocations \ {x} : cur[t].loc[y] <= cur'[t].loc[y]
         /\ cur'[t].loc[x] = Len(memory[x]) + 1
         /\ \A u \in AllThreads \ {t} : /\ cur'[u] = cur[u]
                                        /\ acq'[u] = acq[u]
                                        /\ rel'[u] = rel[u]
         /\ \A y \in AllLocations \ {x} : memory'[y] = memory[y]
         /\ Len(memory'[x]) = Len(memory[x]) + 1
         /\ \E m \in [value : {v}, view : View] :
              /\ memory'[x][Len(memory[x]) + 1] = m
              /\ Below(Newest(x).view, m.view)
              /\ \A y \in AllLocations \ {x} : cur[t].loc[y] <= m.view.loc[y]
              /\ \A i \in DOMAIN memory'[x] :
                   \/ i \in DOMAIN memory[x] /\ memory'[x][i] = memory[x][i]
                   \/ memory'[x][i] = m
  <1>1. PICK after \in Triple : \E m \in [value : {v}, view : View] :
            /\ after = Stored(LoadedAcquire(Views(p), x, Len(memory[x])), x)
            /\ m = ExchangeMessage(LoadedAcquire(Views(p), x, Len(memory[x])), x, v, "Release")
            /\ Precedes(cur[t], after.cur) /\ Precedes(acq[t], after.acq) /\ after.rel = rel[t]
            /\ \A y \in AllLocations \ {x} : cur[t].loc[y] <= after.cur.loc[y]
            /\ after.cur.loc[x] = Len(memory[x]) + 1
            /\ Below(after.cur, after.acq)
            /\ Below(Newest(x).view, m.view)
            /\ \A y \in AllLocations \ {x} : cur[t].loc[y] <= m.view.loc[y]
    BY ExchangeViews
  <1>2. PICK m \in [value : {v}, view : View] :
            /\ after = Stored(LoadedAcquire(Views(p), x, Len(memory[x])), x)
            /\ m = ExchangeMessage(LoadedAcquire(Views(p), x, Len(memory[x])), x, v, "Release")
            /\ Precedes(cur[t], after.cur) /\ Precedes(acq[t], after.acq) /\ after.rel = rel[t]
            /\ \A y \in AllLocations \ {x} : cur[t].loc[y] <= after.cur.loc[y]
            /\ after.cur.loc[x] = Len(memory[x]) + 1
            /\ Below(after.cur, after.acq)
            /\ Below(Newest(x).view, m.view)
            /\ \A y \in AllLocations \ {x} : cur[t].loc[y] <= m.view.loc[y]
    BY <1>1
  <1>3. Append1(x, m) /\ SetViews(t, after)
    BY <1>2 DEF Exchange
  <1>4. /\ MemoryTypeOK'
        /\ cur'[t] = after.cur /\ acq'[t] = after.acq /\ rel'[t] = after.rel
        /\ \A u \in AllThreads \ {t} : /\ cur'[u] = cur[u]
                                       /\ acq'[u] = acq[u]
                                       /\ rel'[u] = rel[u]
        /\ \A y \in AllLocations \ {x} : memory'[y] = memory[y]
        /\ Len(memory'[x]) = Len(memory[x]) + 1
        /\ memory'[x][Len(memory[x]) + 1] = m
        /\ \A i \in DOMAIN memory'[x] :
             \/ i \in DOMAIN memory[x] /\ memory'[x][i] = memory[x][i]
             \/ memory'[x][i] = m
    BY <1>3, Names, AppendStep
  <1>5. AcquireInv'
    BY <1>2, <1>4, Names, AcquireKept
  <1>6. QED
    BY <1>2, <1>4, <1>5

-----------------------------------------------------------------------------

\* A step of some producers that stores a message only producers and the shutdown
\* check look at, given what it makes them know.
LEMMA ProducersAppend ==
  ASSUME OrderedIInv, TypeOK', IInv', MemoryTypeOK', AcquireInv',
         ShutdownMessageInv', HandleInv',
         NEW who \in SUBSET Producers, NEW x \in {ProducerCursor, ShutdownWord, HandleCounter},
         \A y \in AllLocations \ {x} : memory'[y] = memory[y],
         UNCHANGED <<consumerVars, scanned, bits, writer>>,
         \A s \in Int : IsPublished(s)' <=> IsPublished(s),
         \A c \in Consumers : /\ cur'[ConsumerThread(c)] = cur[ConsumerThread(c)]
                              /\ acq'[ConsumerThread(c)] = acq[ConsumerThread(c)],
         \A q \in Producers \ who :
           /\ cur'[ProducerThread(q)] = cur[ProducerThread(q)]
           /\ acq'[ProducerThread(q)] = acq[ProducerThread(q)]
           /\ rel'[ProducerThread(q)] = rel[ProducerThread(q)]
           /\ sequence_clear_of_consumers'[q] = sequence_clear_of_consumers[q]
           /\ rear_unread'[q] = rear_unread[q] /\ rear_lowest'[q] = rear_lowest[q]
           /\ ppc'[q] = ppc[q] /\ request'[q] = request[q]
           /\ claimed_sequence'[q] = claimed_sequence[q]
           /\ position'[q] = position[q] /\ unpublished'[q] = unpublished[q],
         \A q \in who : /\ ProducerKnows(q)'
                        /\ ppc'[q] = "write" => position'[q] = Lower(q)'
  PROVE  OrderedIInv'
  <1>1. \A q \in Producers : KeptBounds(q)
    BY DEF KeptBounds
  <1>2. \A q \in Producers \ who : ProducerKnows(q)'
    BY <1>1, ProducerAside
  <1>3. ProducerViewInv'
    BY <1>2 DEF ProducerViewInv
  <1>4. \A w \in Words : memory'[WordAt(w)] = memory[WordAt(w)]
    BY LocationNames
  <1>5. \A c \in Consumers : memory'[ConsumerCursor(c)] = memory[ConsumerCursor(c)]
    BY LocationNames
  <1>6. \A q \in Producers : ppc'[q] = "write" =>
          \/ position'[q] = Lower(q)'
          \/ ppc[q] = "write" /\ position'[q] = position[q] /\ Lower(q)' = Lower(q)
    BY DEF Lower
  <1>7. QED
    BY <1>3, <1>4, <1>5, <1>6, QuietProducers

\* Who knows the newest cursor, whatever else it gets to know.
LEMMA CursorStaysKnown ==
  ASSUME MemoryTypeOK, memory'[ProducerCursor] = memory[ProducerCursor],
         NEW v \in View, NEW w \in View, KnowsCursor(v),
         v.loc[ProducerCursor] <= w.loc[ProducerCursor]
  PROVE  KnowsCursor(w)'
  <1>1. PICK n \in Nat : n = Len(memory[ProducerCursor])
    BY Names, MessageType
  <1>2. v.loc[ProducerCursor] \in Nat /\ w.loc[ProducerCursor] \in Nat
    BY Names DEF View
  <1>3. v.loc[ProducerCursor] >= n
    BY <1>1 DEF KnowsCursor
  <1>4. w.loc[ProducerCursor] >= n
    BY <1>2, <1>3
  <1>5. QED
    BY <1>1, <1>4 DEF KnowsCursor

\* The exchange that claims: its thread knows the cursor it has stored.
LEMMA ClaimSucceedsOrderedInv ==
  ASSUME OrderedIInv, NEW p \in Producers, ClaimSucceedsOrdered(p)
  PROVE  OrderedIInv'
  <1>1. /\ TypeOK /\ IInv /\ OrderTypeOK /\ MemoryTypeOK /\ AcquireInv /\ ShutdownMessageInv
        /\ ProducerViewInv /\ HandleInv
    BY Parts
  <1>2. ClaimSucceeds(p) /\ Exchange(p, ProducerCursor, cursor') /\ UNCHANGED writer
    BY DEF ClaimSucceedsOrdered
  <1>3. TypeOK' /\ IInv'
    <2>1. [Next]_vars
      BY <1>2 DEF Next, ProducerStep
    <2>2. QED
      BY <1>1, <2>1, NextType, NextInv
  <1>4. \A s \in Int : IsPublished(s)' <=> IsPublished(s)
    BY <1>1, <1>2, ClaimSucceedsInv
  <1>5. PICK t \in AllThreads : t = ProducerThread(p)
    BY Names
  <1>6. /\ MemoryTypeOK' /\ AcquireInv'
        /\ Precedes(cur[t], cur'[t]) /\ Precedes(acq[t], acq'[t]) /\ rel'[t] = rel[t]
        /\ cur'[t].loc[ProducerCursor] = Len(memory[ProducerCursor]) + 1
        /\ \A u \in AllThreads \ {t} : /\ cur'[u] = cur[u]
                                       /\ acq'[u] = acq[u]
                                       /\ rel'[u] = rel[u]
        /\ \A y \in AllLocations \ {ProducerCursor} : memory'[y] = memory[y]
        /\ Len(memory'[ProducerCursor]) = Len(memory[ProducerCursor]) + 1
        /\ \E m \in [value : {cursor'}, view : View] :
             /\ memory'[ProducerCursor][Len(memory[ProducerCursor]) + 1] = m
             /\ \A i \in DOMAIN memory'[ProducerCursor] :
                  \/ /\ i \in DOMAIN memory[ProducerCursor]
                     /\ memory'[ProducerCursor][i] = memory[ProducerCursor][i]
                  \/ memory'[ProducerCursor][i] = m
    BY <1>1, <1>2, <1>5, Names, ExchangeStep
  <1>7. \A q \in Producers : /\ ppc[p] = "cas"
                             /\ ppc'[q] = IF q = p THEN "write" ELSE ppc[q]
                             /\ claimed_sequence'[q] = IF q = p THEN current[p] + request[p].n
                                                       ELSE claimed_sequence[q]
                             /\ position'[q] = IF q = p THEN current[p] + 1 ELSE position[q]
                             /\ unpublished'[q] = IF q = p THEN current[p] + 1
                                                  ELSE unpublished[q]
    BY <1>1, <1>2 DEF ClaimSucceeds, TypeOK
  <1>8. UNCHANGED <<consumerVars, scanned, bits, shutdown_at_sequence, request,
                    sequence_clear_of_consumers, rear_unread, rear_lowest>>
    BY <1>2 DEF ClaimSucceeds
  <1>9. ShutdownMessageInv'
    <2>1. NONE' = NONE /\ memory'[ShutdownWord] = memory[ShutdownWord]
      BY <1>6, LocationNames DEF NONE
    <2>2. QED
      BY <1>1, <1>8, <2>1 DEF ShutdownMessageInv
  <1>10. HandleInv'
    <2>1. PICK m \in [value : {cursor'}, view : View] :
            /\ memory'[ProducerCursor][Len(memory[ProducerCursor]) + 1] = m
            /\ \A i \in DOMAIN memory'[ProducerCursor] :
                 \/ /\ i \in DOMAIN memory[ProducerCursor]
                    /\ memory'[ProducerCursor][i] = memory[ProducerCursor][i]
                 \/ memory'[ProducerCursor][i] = m
      BY <1>6
    <2>2. m.value = cursor' /\ cursor' \in Int
      BY <1>3 DEF TypeOK
    <2>3. \A i \in DOMAIN memory'[ProducerCursor] : memory'[ProducerCursor][i].value \in Int
      BY <1>1, <2>1, <2>2 DEF HandleInv
    <2>4. memory'[ProducerCursor][Len(memory'[ProducerCursor])].value = cursor'
      BY <1>6, <2>1, <2>2
    <2>5. PICK n \in Nat : n = Len(memory[ProducerCursor])
      BY <1>1, Names, MessageType
    <2>6. n + 1 >= n + 1
      OBVIOUS
    <2>7. KnowsCursor(cur[ProducerThread(p)])'
      BY <1>5, <1>6, <2>5, <2>6 DEF KnowsCursor
    <2>8. p \in Alive'
      BY <1>7 DEF Alive
    <2>9. QED
      BY <2>3, <2>4, <2>7, <2>8 DEF HandleInv, Newest
  <1>11. ProducerKnows(p)'
    <2>1. ProducerKnows(p) /\ KeptBounds(p)
      BY <1>1, <1>2 DEF ProducerViewInv, KeptBounds
    <2>2. /\ \A c \in Consumers : Passed(cur[t], c, sequence_clear_of_consumers[p] - Size)'
          /\ \A u \in LastStage' \ rear_unread'[p] : Passed(acq[t], u, rear_lowest[p])'
          /\ \A u \in AllThreads : cur'[t].done[u] >= -1
      BY <1>1, <1>5, <1>6, <1>8, <2>1, BoundsKept
    <2>3. PICK cr \in Int, n \in Nat, clear \in Int :
            cr = current[p] /\ n = request[p].n /\ clear = sequence_clear_of_consumers[p]
      BY <1>1 DEF TypeOK
    <2>4. cr + n <= clear
      BY <1>1, <1>7, <2>3 DEF IInv, ClearInv
    <2>5. /\ position'[p] = cr + 1 /\ unpublished'[p] = cr + 1
          /\ Upper(p)' = cr + n /\ Lower(p)' = cr + n - n + 1
          /\ sequence_clear_of_consumers'[p] = clear
          /\ ppc'[p] = "write"
      BY <1>7, <1>8, <2>3 DEF Upper, Lower
    <2>6. Lower(p)' = cr + 1 /\ ~(cr + 1 > cr + 1)
      BY <2>5
    <2>7. QED
      BY <1>5, <2>2, <2>4, <2>5, <2>6 DEF ProducerKnows
  <1>12. position'[p] = Lower(p)'
    <2>1. PICK cr \in Int, n \in Nat : cr = current[p] /\ n = request[p].n
      BY <1>1 DEF TypeOK
    <2>2. position'[p] = cr + 1 /\ Lower(p)' = cr + n - n + 1
      BY <1>7, <1>8, <2>1 DEF Lower
    <2>3. QED
      BY <2>2
  <1>13. \A q \in Producers \ {p} :
           /\ cur'[ProducerThread(q)] = cur[ProducerThread(q)]
           /\ acq'[ProducerThread(q)] = acq[ProducerThread(q)]
           /\ rel'[ProducerThread(q)] = rel[ProducerThread(q)]
    BY <1>5, <1>6, Names
  <1>14. \A c \in Consumers : /\ cur'[ConsumerThread(c)] = cur[ConsumerThread(c)]
                              /\ acq'[ConsumerThread(c)] = acq[ConsumerThread(c)]
    BY <1>5, <1>6, Names
  <1>15. UNCHANGED <<consumerVars, scanned, bits, writer>>
    BY <1>2, <1>8
  <1>16. \A q \in Producers \ {p} :
           /\ sequence_clear_of_consumers'[q] = sequence_clear_of_consumers[q]
           /\ rear_unread'[q] = rear_unread[q] /\ rear_lowest'[q] = rear_lowest[q]
           /\ ppc'[q] = ppc[q] /\ request'[q] = request[q]
           /\ claimed_sequence'[q] = claimed_sequence[q]
           /\ position'[q] = position[q] /\ unpublished'[q] = unpublished[q]
    BY <1>7, <1>8
  <1>17. /\ {p} \in SUBSET Producers
         /\ \A q \in {p} : ProducerKnows(q)' /\ (ppc'[q] = "write" => position'[q] = Lower(q)')
    BY <1>11, <1>12
  <1>18. QED
    BY <1>3, <1>4, <1>6, <1>9, <1>10, <1>13, <1>14, <1>15, <1>16, <1>17, ProducersAppend

\* The counter is modified: what it knew of the cursor it still does, and what its
\* thread knew too.
LEMMA CounterKnows ==
  ASSUME OrderedIInv, MemoryTypeOK', UNCHANGED cursor,
         memory'[ProducerCursor] = memory[ProducerCursor],
         NEW p \in Alive, NEW m, m.view \in View, Newest(HandleCounter)' = m,
         Below(Newest(HandleCounter).view, m.view),
         cur[ProducerThread(p)].loc[ProducerCursor] <= m.view.loc[ProducerCursor],
         \A q \in Alive \ {p} : q \in Alive' /\ cur'[ProducerThread(q)] = cur[ProducerThread(q)]
  PROVE  HandleInv'
  <1>1. HandleInv /\ MemoryTypeOK
    BY Parts
  <1>2. PICK n \in Nat \ {0} : n = Len(memory[ProducerCursor])
    BY <1>1, Names, MessageType
  <1>3. /\ \A i \in DOMAIN memory'[ProducerCursor] : memory'[ProducerCursor][i].value \in Int
        /\ Newest(ProducerCursor)' = Newest(ProducerCursor)
        /\ Newest(ProducerCursor).value = cursor
    BY <1>1 DEF HandleInv, Newest
  <1>4. KnowsCursor(m.view) => KnowsCursor(Newest(HandleCounter).view)'
    BY DEF KnowsCursor
  <1>5. CASE KnowsCursor(Newest(HandleCounter).view)
    <2>1. PICK v \in View : v = Newest(HandleCounter).view
      <3>1. Len(memory[HandleCounter]) \in DOMAIN memory[HandleCounter]
        BY <1>1, Names, MessageType
      <3>2. QED
        BY <1>1, <3>1, Names, MessageType DEF Newest
    <2>2. PICK w \in View : w = m.view
      OBVIOUS
    <2>3. v.loc[ProducerCursor] <= w.loc[ProducerCursor]
      BY <2>1, <2>2, Names DEF Below, Sees
    <2>4. KnowsCursor(w)'
      BY <1>1, <1>5, <2>1, <2>3, CursorStaysKnown
    <2>5. KnowsCursor(Newest(HandleCounter).view)'
      BY <2>2, <2>4 DEF KnowsCursor
    <2>6. QED
      BY <1>3, <2>5 DEF HandleInv
  <1>6. CASE KnowsCursor(cur[ProducerThread(p)])
    <2>1. PICK v \in View : v = cur[ProducerThread(p)]
      BY <1>1, Names DEF MemoryTypeOK, Alive
    <2>2. PICK w \in View : w = m.view
      OBVIOUS
    <2>3. v.loc[ProducerCursor] <= w.loc[ProducerCursor]
      BY <2>1, <2>2
    <2>4. KnowsCursor(w)'
      BY <1>1, <1>6, <2>1, <2>3, CursorStaysKnown
    <2>5. KnowsCursor(Newest(HandleCounter).view)'
      BY <2>2, <2>4 DEF KnowsCursor
    <2>6. QED
      BY <1>3, <2>5 DEF HandleInv
  <1>7. CASE \E q \in Alive \ {p} : KnowsCursor(cur[ProducerThread(q)])
    <2>1. PICK q \in Alive \ {p} : KnowsCursor(cur[ProducerThread(q)])
      BY <1>7
    <2>2. q \in Alive' /\ KnowsCursor(cur[ProducerThread(q)])'
      BY <2>1 DEF KnowsCursor
    <2>3. QED
      BY <1>3, <2>2 DEF HandleInv
  <1>8. QED
    BY <1>1, <1>5, <1>6, <1>7 DEF HandleInv

\* Not the last handle: the counter takes along what it knew of the cursor.
LEMMA DropOrderedInv ==
  ASSUME OrderedIInv, NEW p \in Producers, DropOrdered(p)
  PROVE  OrderedIInv'
  <1>1. /\ TypeOK /\ IInv /\ OrderTypeOK /\ MemoryTypeOK /\ AcquireInv /\ ShutdownMessageInv
        /\ ProducerViewInv /\ HandleInv
    BY Parts
  <1>2. counter # 1 /\ Drop(p) /\ Exchange(p, HandleCounter, counter') /\ UNCHANGED writer
    BY DEF DropOrdered
  <1>3. TypeOK' /\ IInv'
    <2>1. [Next]_vars
      BY <1>2 DEF Next, Client
    <2>2. QED
      BY <1>1, <2>1, NextType, NextInv
  <1>4. PICK t \in AllThreads : t = ProducerThread(p)
    BY Names
  <1>5. /\ MemoryTypeOK' /\ AcquireInv'
        /\ Precedes(cur[t], cur'[t]) /\ Precedes(acq[t], acq'[t]) /\ rel'[t] = rel[t]
        /\ \A u \in AllThreads \ {t} : /\ cur'[u] = cur[u]
                                       /\ acq'[u] = acq[u]
                                       /\ rel'[u] = rel[u]
        /\ \A y \in AllLocations \ {HandleCounter} : memory'[y] = memory[y]
        /\ Len(memory'[HandleCounter]) = Len(memory[HandleCounter]) + 1
        /\ \E m \in [value : {counter'}, view : View] :
             /\ memory'[HandleCounter][Len(memory[HandleCounter]) + 1] = m
             /\ Below(Newest(HandleCounter).view, m.view)
             /\ \A y \in AllLocations \ {HandleCounter} : cur[t].loc[y] <= m.view.loc[y]
    BY <1>1, <1>2, <1>4, Names, ExchangeStep
  <1>6. \A q \in Producers : ppc[p] = "idle" /\ ppc'[q] = IF q = p THEN "gone" ELSE ppc[q]
    BY <1>1, <1>2 DEF Drop, TypeOK
  <1>7. UNCHANGED <<consumerVars, slots, scanned, cursor, bits, shutdown_at_sequence, request,
                    claimed_sequence, position, unpublished, abandoned,
                    sequence_clear_of_consumers, rear_unread, rear_lowest>>
    BY <1>2 DEF Drop, barrierVars, claimVars, updateVars, historyVars
  <1>8. \A s \in Int : IsPublished(s)' <=> IsPublished(s)
    <2>1. \A q \in Producers : /\ ppc'[q] = "write" <=> ppc[q] = "write"
                               /\ ppc[q] = "write" => request'[q] = request[q]
      BY <1>6, <1>7
    <2>2. QED
      BY <1>1, <1>7, <2>1, QuietStep DEF barrierVars, updateVars
  <1>9. memory'[ProducerCursor] = memory[ProducerCursor] /\ ShutdownMessageInv'
    <2>1. /\ NONE' = NONE /\ memory'[ShutdownWord] = memory[ShutdownWord]
          /\ memory'[ProducerCursor] = memory[ProducerCursor]
      BY <1>5, LocationNames DEF NONE
    <2>2. QED
      BY <1>1, <1>7, <2>1 DEF ShutdownMessageInv
  <1>10. \A q \in Producers \ {p} :
           /\ cur'[ProducerThread(q)] = cur[ProducerThread(q)]
           /\ acq'[ProducerThread(q)] = acq[ProducerThread(q)]
           /\ rel'[ProducerThread(q)] = rel[ProducerThread(q)]
    BY <1>4, <1>5, Names
  <1>11. \A c \in Consumers : /\ cur'[ConsumerThread(c)] = cur[ConsumerThread(c)]
                              /\ acq'[ConsumerThread(c)] = acq[ConsumerThread(c)]
    BY <1>4, <1>5, Names
  <1>12. HandleInv'
    <2>1. PICK m \in [value : {counter'}, view : View] :
            /\ memory'[HandleCounter][Len(memory[HandleCounter]) + 1] = m
            /\ Below(Newest(HandleCounter).view, m.view)
            /\ \A y \in AllLocations \ {HandleCounter} : cur[t].loc[y] <= m.view.loc[y]
      BY <1>5
    <2>2. Newest(HandleCounter)' = m /\ m.view \in View
      BY <1>5, <2>1 DEF Newest
    <2>3. cur[ProducerThread(p)].loc[ProducerCursor] <= m.view.loc[ProducerCursor]
      BY <1>4, <2>1, LocationNames
    <2>4. p \in Alive /\ \A q \in Alive \ {p} : q \in Alive' /\ q \in Producers
      BY <1>6 DEF Alive
    <2>5. QED
      BY <1>5, <1>7, <1>9, <1>10, <2>1, <2>2, <2>3, <2>4, CounterKnows
  <1>13. ProducerKnows(p)'
    <2>1. ProducerKnows(p) /\ KeptBounds(p)
      BY <1>1, <1>2 DEF ProducerViewInv, KeptBounds
    <2>2. ppc'[p] = "gone"
      BY <1>6
    <2>3. QED
      BY <1>1, <1>4, <1>5, <1>7, <2>1, <2>2, ProducerKnowsMore
  <1>14. UNCHANGED <<consumerVars, scanned, bits, writer>>
    BY <1>2, <1>7
  <1>15. \A q \in Producers \ {p} :
           /\ sequence_clear_of_consumers'[q] = sequence_clear_of_consumers[q]
           /\ rear_unread'[q] = rear_unread[q] /\ rear_lowest'[q] = rear_lowest[q]
           /\ ppc'[q] = ppc[q] /\ request'[q] = request[q]
           /\ claimed_sequence'[q] = claimed_sequence[q]
           /\ position'[q] = position[q] /\ unpublished'[q] = unpublished[q]
    BY <1>6, <1>7
  <1>16. /\ {p} \in SUBSET Producers
         /\ \A q \in {p} : ProducerKnows(q)' /\ (ppc'[q] = "write" => position'[q] = Lower(q)')
    BY <1>6, <1>13
  <1>17. QED
    BY <1>3, <1>5, <1>8, <1>9, <1>10, <1>11, <1>12, <1>14, <1>15, <1>16, ProducersAppend

\* What a clone is given to know is all it needs.
LEMMA NewHandleKnows ==
  ASSUME OrderTypeOK', MemoryTypeOK', NEW q \in Producers, LastStage' = LastStage,
         sequence_clear_of_consumers'[q] = 0, rear_unread'[q] = LastStage,
         ppc'[q] = "idle", \A u \in AllThreads : cur'[ProducerThread(q)].done[u] >= -1
  PROVE  ProducerKnows(q)'
  <1>1. PICK v \in View : v = cur'[ProducerThread(q)]
    BY Names DEF MemoryTypeOK
  <1>2. \A u \in AllThreads : v.done[u] >= -1 /\ v.done[u] \in Int
    BY <1>1 DEF View
  <1>3. PICK low \in Int : low = sequence_clear_of_consumers'[q] - Size /\ low <= -1
    BY SizeAssumption
  <1>4. ASSUME NEW c \in Consumers
        PROVE  Passed(v, c, low)'
    <2>1. ASSUME NEW e \in DOMAIN writer', e <= low
          PROVE  v.done[ProducerThread(writer'[e])] >= e
      <3>1. e \in Nat
        BY DEF OrderTypeOK
      <3>2. QED
        BY <1>3, <2>1, <3>1
    <2>2. Written(v, low)'
      BY <2>1 DEF Written
    <2>3. \A u \in Before(c) \cup {c} : v.done[ConsumerThread(u)] >= low
      <3>1. \A u \in Before(c) \cup {c} : u \in Consumers
        BY DEF Before
      <3>2. QED
        BY <1>2, <1>3, <3>1, Names
    <2>4. QED
      BY <2>2, <2>3 DEF Passed, Before
  <1>5. \A c \in Consumers : Passed(cur[ProducerThread(q)], c, sequence_clear_of_consumers[q] - Size)'
    BY <1>1, <1>3, <1>4
  <1>6. LastStage' \ rear_unread'[q] = {}
    OBVIOUS
  <1>7. QED
    BY <1>5, <1>6 DEF ProducerKnows

\* The clone's thread is given the views of the one it was made by.
LEMMA CloneOrderedInv ==
  ASSUME OrderedIInv, NEW p \in Producers, NEW q \in Producers, CloneOrdered(p, q)
  PROVE  OrderedIInv'
  <1>1. /\ TypeOK /\ IInv /\ OrderTypeOK /\ MemoryTypeOK /\ AcquireInv /\ ShutdownMessageInv
        /\ ProducerViewInv /\ HandleInv
    BY Parts
  <1>2. Clone(p, q) /\ UNCHANGED <<rel, writer>>
    BY DEF CloneOrdered
  <1>3. TypeOK' /\ IInv'
    <2>1. [Next]_vars
      BY <1>2 DEF Next, Client
    <2>2. QED
      BY <1>1, <2>1, NextType, NextInv
  <1>4. PICK t \in AllThreads, z \in AllThreads : t = ProducerThread(p) /\ z = ProducerThread(q)
    BY Names
  <1>5. PICK v : v = counter'
    OBVIOUS
  <1>6. PICK x \in AllLocations : x = HandleCounter
    BY Names
  <1>7. PICK after \in Triple : \E m \in [value : {v}, view : View] :
          /\ after = Stored(LoadedAcquire(Views(p), x, Len(memory[x])), x)
          /\ m = ExchangeMessage(LoadedAcquire(Views(p), x, Len(memory[x])), x, v, "Release")
          /\ Precedes(cur[t], after.cur) /\ Precedes(acq[t], after.acq) /\ after.rel = rel[t]
          /\ \A y \in AllLocations \ {x} : cur[t].loc[y] <= after.cur.loc[y]
          /\ after.cur.loc[x] = Len(memory[x]) + 1
          /\ Below(after.cur, after.acq)
          /\ Below(Newest(x).view, m.view)
          /\ \A y \in AllLocations \ {x} : cur[t].loc[y] <= m.view.loc[y]
    BY <1>1, <1>4, ExchangeViews
  <1>8. PICK m \in [value : {v}, view : View] :
          /\ m = ExchangeMessage(LoadedAcquire(Views(p), x, Len(memory[x])), x, v, "Release")
          /\ Below(Newest(x).view, m.view)
          /\ \A y \in AllLocations \ {x} : cur[t].loc[y] <= m.view.loc[y]
    BY <1>7
  <1>9. /\ Append1(HandleCounter, m)
        /\ cur' = [u \in AllThreads |-> IF u \in {t, z} THEN after.cur ELSE cur[u]]
        /\ acq' = [u \in AllThreads |-> IF u \in {t, z} THEN after.acq ELSE acq[u]]
        /\ Below(Newest(HandleCounter).view, m.view)
        /\ \A y \in AllLocations \ {HandleCounter} :
             cur[t].loc[y] <= m.view.loc[y] /\ cur[t].loc[y] <= after.cur.loc[y]
    <2>1. /\ Append1(HandleCounter, m)
          /\ cur' = [u \in AllThreads |-> IF u \in {t, z} THEN after.cur ELSE cur[u]]
          /\ acq' = [u \in AllThreads |-> IF u \in {t, z} THEN after.acq ELSE acq[u]]
      BY <1>4, <1>5, <1>6, <1>7, <1>8 DEF CloneOrdered
    <2>2. QED
      BY <1>6, <1>7, <1>8, <2>1
  <1>10. /\ cur' \in [AllThreads -> View] /\ acq' \in [AllThreads -> View]
         /\ rel' \in [AllThreads -> View]
    BY <1>1, <1>2, <1>9 DEF MemoryTypeOK, Triple
  <1>11. /\ MemoryTypeOK'
         /\ \A y \in AllLocations \ {HandleCounter} : memory'[y] = memory[y]
         /\ Newest(HandleCounter)' = m
    <2>1. /\ MemoryTypeOK'
          /\ \A y \in AllLocations \ {HandleCounter} : memory'[y] = memory[y]
          /\ Len(memory'[HandleCounter]) = Len(memory[HandleCounter]) + 1
          /\ memory'[HandleCounter][Len(memory[HandleCounter]) + 1] = m
      BY <1>1, <1>9, <1>10, Names, AppendEffect
    <2>2. QED
      BY <2>1 DEF Newest
  <1>12. /\ \A u \in AllThreads \ {t, z} : cur'[u] = cur[u] /\ acq'[u] = acq[u]
         /\ cur'[t] = after.cur /\ acq'[t] = after.acq
         /\ cur'[z] = after.cur /\ acq'[z] = after.acq
    BY <1>9
  <1>13. AcquireInv'
    BY <1>1, <1>7, <1>12 DEF AcquireInv, Below, Precedes, Sees
  <1>14. \A r \in Producers : /\ ppc[p] = "idle" /\ ppc[q] = "unborn" /\ p # q
                              /\ ppc'[r] = IF r = q THEN "idle" ELSE ppc[r]
    BY <1>1, <1>2 DEF Clone, TypeOK
  <1>15. UNCHANGED <<consumerVars, slots, scanned, cursor, bits, shutdown_at_sequence, request,
                     claimed_sequence, position, unpublished, abandoned,
                     sequence_clear_of_consumers, rear_unread, rear_lowest>>
    BY <1>2 DEF Clone, barrierVars, claimVars, updateVars, historyVars
  <1>16. \A s \in Int : IsPublished(s)' <=> IsPublished(s)
    <2>1. \A r \in Producers : /\ ppc'[r] = "write" <=> ppc[r] = "write"
                               /\ ppc[r] = "write" => request'[r] = request[r]
      BY <1>14, <1>15
    <2>2. QED
      BY <1>1, <1>15, <2>1, QuietStep DEF barrierVars, updateVars
  <1>17. memory'[ProducerCursor] = memory[ProducerCursor] /\ ShutdownMessageInv'
    <2>1. /\ NONE' = NONE /\ memory'[ShutdownWord] = memory[ShutdownWord]
          /\ memory'[ProducerCursor] = memory[ProducerCursor]
      BY <1>11, LocationNames DEF NONE
    <2>2. QED
      BY <1>1, <1>15, <2>1 DEF ShutdownMessageInv
  <1>18. \A r \in Producers \ {p, q} :
           /\ cur'[ProducerThread(r)] = cur[ProducerThread(r)]
           /\ acq'[ProducerThread(r)] = acq[ProducerThread(r)]
           /\ rel'[ProducerThread(r)] = rel[ProducerThread(r)]
    <2>1. \A r \in Producers \ {p, q} : ProducerThread(r) \in AllThreads \ {t, z}
      BY <1>4, Names
    <2>2. QED
      BY <1>2, <1>12, <2>1
  <1>19. \A c \in Consumers : /\ cur'[ConsumerThread(c)] = cur[ConsumerThread(c)]
                              /\ acq'[ConsumerThread(c)] = acq[ConsumerThread(c)]
    <2>1. \A c \in Consumers : ConsumerThread(c) \in AllThreads \ {t, z}
      BY <1>4, Names
    <2>2. QED
      BY <1>12, <2>1
  <1>20. HandleInv'
    <2>1. cur[ProducerThread(p)].loc[ProducerCursor] <= m.view.loc[ProducerCursor]
      BY <1>4, <1>9, LocationNames
    <2>2. p \in Alive
      BY <1>14 DEF Alive
    <2>3. \A r \in Alive \ {p} : r \in Alive' /\ r \in Producers \ {p, q}
      BY <1>14 DEF Alive
    <2>4. \A r \in Alive \ {p} :
            r \in Alive' /\ cur'[ProducerThread(r)] = cur[ProducerThread(r)]
      BY <1>18, <2>3
    <2>5. m.view \in View /\ Below(Newest(HandleCounter).view, m.view) /\ cursor' = cursor
      BY <1>9, <1>15
    <2>6. QED
      BY <1>11, <1>17, <2>1, <2>2, <2>4, <2>5, CounterKnows
  <1>21. ProducerKnows(p)'
    <2>1. ProducerKnows(p) /\ KeptBounds(p)
      BY <1>1, <1>2 DEF ProducerViewInv, KeptBounds
    <2>2. ppc'[p] = "idle"
      BY <1>14
    <2>3. Precedes(cur[t], cur'[t]) /\ Precedes(acq[t], acq'[t]) /\ rel'[t] = rel[t]
      BY <1>2, <1>7, <1>12
    <2>4. QED
      BY <1>1, <1>4, <1>11, <1>15, <2>1, <2>2, <2>3, ProducerKnowsMore
  <1>22. ProducerKnows(q)'
    <2>1. LastStage' = LastStage
      BY DEF LastStage
    <2>2. sequence_clear_of_consumers'[q] = 0 /\ rear_unread'[q] = LastStage /\ ppc'[q] = "idle"
      BY <1>1, <1>14, <1>15 DEF ProducerViewInv, ProducerKnows
    <2>3. \A u \in AllThreads : after.cur.done[u] >= -1
      <3>1. PICK k \in View, w \in View : k = cur[t] /\ w = after.cur
        BY <1>1 DEF MemoryTypeOK, Triple
      <3>2. \A u \in AllThreads : k.done[u] >= -1 /\ k.done[u] <= w.done[u]
        BY <1>1, <1>4, <1>7, <3>1 DEF ProducerViewInv, ProducerKnows, Precedes
      <3>3. \A u \in AllThreads : k.done[u] \in Int /\ w.done[u] \in Int
        BY DEF View
      <3>4. QED
        BY <3>1, <3>2, <3>3
    <2>4. OrderTypeOK'
      BY <1>1, <1>2, <1>11 DEF OrderTypeOK
    <2>5. QED
      BY <1>4, <1>11, <1>12, <2>1, <2>2, <2>3, <2>4, NewHandleKnows
  <1>23. UNCHANGED <<consumerVars, scanned, bits, writer>>
    BY <1>2, <1>15
  <1>24. \A r \in Producers \ {p, q} :
           /\ sequence_clear_of_consumers'[r] = sequence_clear_of_consumers[r]
           /\ rear_unread'[r] = rear_unread[r] /\ rear_lowest'[r] = rear_lowest[r]
           /\ ppc'[r] = ppc[r] /\ request'[r] = request[r]
           /\ claimed_sequence'[r] = claimed_sequence[r]
           /\ position'[r] = position[r] /\ unpublished'[r] = unpublished[r]
    BY <1>14, <1>15
  <1>25. /\ {p, q} \in SUBSET Producers
         /\ \A r \in {p, q} : ProducerKnows(r)' /\ (ppc'[r] = "write" => position'[r] = Lower(r)')
    BY <1>14, <1>21, <1>22
  <1>26. QED
    BY <1>3, <1>11, <1>13, <1>16, <1>17, <1>18, <1>19, <1>20, <1>23, <1>24, <1>25, ProducersAppend

\* Whoever enters the destructor with a count of one knows the newest cursor, from
\* the counter if not from itself.
LEMMA LastKnowsCursor ==
  ASSUME OrderedIInv, NEW p \in Alive, counter = 1,
         NEW entered \in Triple,
         Below(Newest(HandleCounter).view, entered.cur),
         \A y \in AllLocations \ {HandleCounter} :
           cur[ProducerThread(p)].loc[y] <= entered.cur.loc[y]
  PROVE  Alive = {p} /\ entered.cur.loc[ProducerCursor] >= Len(memory[ProducerCursor])
  <1>1. HandleInv /\ MemoryTypeOK /\ IInv
    BY Parts
  <1>2. Alive = {p}
    <2>1. Cardinality(Alive) = 1 /\ Alive \in SUBSET Producers
      BY <1>1 DEF IInv, LifeInv, Alive
    <2>2. QED
      BY <2>1, LastOne
  <1>3. PICK n \in Nat : n = Len(memory[ProducerCursor])
    BY <1>1, Names, MessageType
  <1>4. ProducerCursor \in AllLocations \ {HandleCounter} /\ entered.cur.loc[ProducerCursor] \in Nat
    BY LocationNames DEF Triple, View
  <1>5. PICK k \in Nat : k = entered.cur.loc[ProducerCursor]
    BY <1>4
  <1>6. CASE KnowsCursor(Newest(HandleCounter).view)
    <2>1. PICK v \in View : v = Newest(HandleCounter).view
      <3>1. Len(memory[HandleCounter]) \in DOMAIN memory[HandleCounter]
        BY <1>1, Names, MessageType
      <3>2. QED
        BY <1>1, <3>1, Names, MessageType DEF Newest
    <2>2. v.loc[ProducerCursor] >= n /\ v.loc[ProducerCursor] <= k /\ v.loc[ProducerCursor] \in Nat
      BY <1>3, <1>4, <1>5, <1>6, <2>1 DEF KnowsCursor, Below, Sees, View
    <2>3. QED
      BY <1>2, <1>3, <1>5, <2>2
  <1>7. CASE KnowsCursor(cur[ProducerThread(p)])
    <2>1. PICK v \in View : v = cur[ProducerThread(p)]
      BY <1>1, Names DEF MemoryTypeOK, Alive
    <2>2. v.loc[ProducerCursor] >= n /\ v.loc[ProducerCursor] <= k /\ v.loc[ProducerCursor] \in Nat
      BY <1>3, <1>4, <1>5, <1>7, <2>1 DEF KnowsCursor, View
    <2>3. QED
      BY <1>2, <1>3, <1>5, <2>2
  <1>8. QED
    BY <1>1, <1>2, <1>6, <1>7 DEF HandleInv

\* The relaxed load of the cursor returns the newest message, and the step is the
\* one of MultiDisruptor.
LEMMA DropLastStep ==
  ASSUME OrderedIInv, NEW p \in Producers, NEW t, t = ProducerThread(p), DropLastOrdered(p)
  PROVE  /\ Drop(p)
         /\ Alive = {p}
         /\ \E after \in Triple : \E m \in [value : {shutdown_at_sequence'}, view : View] :
              /\ Append1(ShutdownWord, m) /\ SetViews(t, after)
              /\ Below(after.cur, after.acq) /\ after.rel = rel[t]
              /\ Precedes(cur[t], after.cur) /\ Precedes(acq[t], after.acq)
  <1>1. MemoryTypeOK /\ HandleInv /\ cursor \in Int
    BY Parts
  <1>2. PICK x \in AllLocations, y \in AllLocations, z \in AllLocations :
          /\ x = ProducerCursor /\ y = HandleCounter /\ z = ShutdownWord
          /\ x # y /\ x # z /\ y # z
    BY LocationNames
  <1>3. t \in AllThreads
    BY Names
  <1>4. PICK n \in Nat \ {0}, k \in Nat \ {0} :
          /\ n = Len(memory[y]) /\ memory[y][n].view \in View
          /\ k = Len(memory[x]) /\ memory[x][k].view \in View
    <2>1. /\ Len(memory[y]) \in Nat \ {0} /\ Len(memory[y]) \in DOMAIN memory[y]
          /\ Len(memory[x]) \in Nat \ {0} /\ Len(memory[x]) \in DOMAIN memory[x]
      BY <1>1, MessageType
    <2>2. QED
      BY <1>1, <2>1, MessageType
  <1>5. PICK before \in Triple : /\ before = ViewsOf(t) /\ before.cur = cur[t]
                                 /\ before.acq = acq[t] /\ before.rel = rel[t]
    BY <1>1, <1>3, ViewsOfType
  <1>6. PICK entered \in Triple :
          /\ entered = LoadedAcquire(before, y, n)
          /\ entered.rel = before.rel
          /\ Precedes(before.cur, entered.cur)
          /\ \A u \in AllLocations \ {y} : before.cur.loc[u] <= entered.cur.loc[u]
          /\ Below(memory[y][n].view, entered.cur)
          /\ Below(before.acq, entered.acq)
    BY <1>4, LoadedAcquireViews
  <1>7. /\ ppc[p] = "idle" /\ counter = 1
        /\ entered = LoadedAcquire(Views(p), HandleCounter, Len(memory[HandleCounter]))
    BY <1>2, <1>4, <1>5, <1>6 DEF DropLastOrdered, Views
  <1>8. Alive = {p} /\ entered.cur.loc[x] >= k
    <2>1. p \in Alive
      BY <1>7 DEF Alive
    <2>2. Below(Newest(HandleCounter).view, entered.cur)
      BY <1>2, <1>4, <1>6 DEF Newest
    <2>3. QED
      BY <1>2, <1>4, <1>5, <1>6, <1>7, <2>1, <2>2, LastKnowsCursor
  <1>9. PICK i \in entered.cur.loc[x] .. k :
          LET views == Loaded(entered, x, i) IN
          /\ shutdown_at_sequence' = memory[x][i].value + 1
          /\ Append1(z, Message(views, z, shutdown_at_sequence', "Relaxed"))
          /\ SetViews(t, Stored(views, z))
    BY <1>2, <1>4, <1>7 DEF DropLastOrdered
  <1>10. i = k /\ entered.cur.loc[x] <= k
    <2>1. entered.cur.loc[x] \in Nat
      BY DEF Triple, View
    <2>2. QED
      BY <1>8, <2>1
  <1>11. shutdown_at_sequence' = cursor + 1
    BY <1>1, <1>2, <1>4, <1>9, <1>10 DEF HandleInv, Newest
  <1>12. Drop(p)
    BY <1>11 DEF DropLastOrdered, Drop
  <1>13. PICK views \in Triple :
           /\ views = Loaded(entered, x, k)
           /\ views.cur.done = entered.cur.done
           /\ views.rel = entered.rel
           /\ Below(views.cur, views.acq)
           /\ Below(entered.acq, views.acq)
    BY <1>4, LoadedAnyway
  <1>14. PICK v : v = shutdown_at_sequence'
    OBVIOUS
  <1>15. PICK m \in [value : {v}, view : View] : m = Message(views, z, v, "Relaxed")
    BY <1>1, MessageFacts
  <1>16. PICK after \in Triple :
           /\ after = Stored(views, z)
           /\ after.cur.done = views.cur.done
           /\ after.acq.done = views.acq.done
           /\ after.rel = views.rel
    BY <1>1, StoredViews
  <1>17. Below(after.cur, after.acq)
    BY <1>1, <1>13, <1>16, StoredBelow
  <1>18. Append1(ShutdownWord, m) /\ SetViews(t, after)
    BY <1>2, <1>9, <1>10, <1>13, <1>14, <1>15, <1>16
  <1>19. Precedes(cur[t], after.cur)
    BY <1>5, <1>6, <1>13, <1>16 DEF Precedes
  <1>20. Precedes(acq[t], after.acq)
    <2>1. \A u \in AllThreads : /\ before.acq.done[u] <= entered.acq.done[u]
                                /\ entered.acq.done[u] <= views.acq.done[u]
      BY <1>6, <1>13 DEF Below, Precedes
    <2>2. \A u \in AllThreads : /\ before.acq.done[u] \in Int /\ entered.acq.done[u] \in Int
                                /\ views.acq.done[u] \in Int
      BY DEF Triple, View
    <2>3. QED
      BY <1>5, <1>16, <2>1, <2>2 DEF Precedes
  <1>21. after.rel = rel[t]
    BY <1>5, <1>6, <1>13, <1>16
  <1>22. m \in [value : {shutdown_at_sequence'}, view : View]
    BY <1>14
  <1>23. QED
    BY <1>8, <1>12, <1>17, <1>18, <1>19, <1>20, <1>21, <1>22

\* The last handle announces the end of the stream, where it really is.
LEMMA DropLastOrderedInv ==
  ASSUME OrderedIInv, NEW p \in Producers, DropLastOrdered(p)
  PROVE  OrderedIInv'
  <1>1. /\ TypeOK /\ IInv /\ OrderTypeOK /\ MemoryTypeOK /\ AcquireInv /\ ShutdownMessageInv
        /\ ProducerViewInv /\ HandleInv
    BY Parts
  <1>2. PICK t \in AllThreads : t = ProducerThread(p)
    BY Names
  <1>3. /\ Drop(p) /\ Alive = {p} /\ UNCHANGED writer
        /\ \E after \in Triple : \E m \in [value : {shutdown_at_sequence'}, view : View] :
             /\ Append1(ShutdownWord, m) /\ SetViews(t, after)
             /\ Below(after.cur, after.acq) /\ after.rel = rel[t]
             /\ Precedes(cur[t], after.cur) /\ Precedes(acq[t], after.acq)
    BY <1>2, DropLastStep DEF DropLastOrdered
  <1>4. TypeOK' /\ IInv' /\ shutdown_at_sequence = NONE
    <2>1. [Next]_vars
      BY <1>3 DEF Next, Client
    <2>2. QED
      BY <1>1, <1>3, <2>1, NextType, NextInv, DropInv
  <1>5. PICK after \in Triple : \E m \in [value : {shutdown_at_sequence'}, view : View] :
          /\ Append1(ShutdownWord, m) /\ SetViews(t, after)
          /\ Below(after.cur, after.acq) /\ after.rel = rel[t]
          /\ Precedes(cur[t], after.cur) /\ Precedes(acq[t], after.acq)
    BY <1>3
  <1>6. PICK v : v = shutdown_at_sequence'
    OBVIOUS
  <1>7. PICK m \in [value : {v}, view : View] :
          /\ Append1(ShutdownWord, m) /\ SetViews(t, after)
    BY <1>5, <1>6
  <1>8. /\ MemoryTypeOK'
        /\ cur'[t] = after.cur /\ acq'[t] = after.acq /\ rel'[t] = after.rel
        /\ \A u \in AllThreads \ {t} : /\ cur'[u] = cur[u]
                                       /\ acq'[u] = acq[u]
                                       /\ rel'[u] = rel[u]
        /\ \A y \in AllLocations \ {ShutdownWord} : memory'[y] = memory[y]
        /\ \A i \in DOMAIN memory'[ShutdownWord] :
             \/ /\ i \in DOMAIN memory[ShutdownWord]
                /\ memory'[ShutdownWord][i] = memory[ShutdownWord][i]
             \/ memory'[ShutdownWord][i] = m
    BY <1>1, <1>7, Names, AppendStep
  <1>9. AcquireInv'
    BY <1>1, <1>5, <1>8, AcquireKept
  <1>10. ShutdownMessageInv'
    <2>1. NONE' = NONE /\ m.value = shutdown_at_sequence'
      BY <1>6 DEF NONE
    <2>2. \A i \in DOMAIN memory[ShutdownWord] : memory[ShutdownWord][i].value = NONE
      BY <1>1, <1>4 DEF ShutdownMessageInv
    <2>3. QED
      BY <1>8, <2>1, <2>2 DEF ShutdownMessageInv
  <1>11. \A q \in Producers : ppc[p] = "idle" /\ ppc'[q] = IF q = p THEN "join" ELSE ppc[q]
    BY <1>1 DEF DropLastOrdered, TypeOK
  <1>12. UNCHANGED <<consumerVars, slots, scanned, cursor, bits, request,
                     claimed_sequence, position, unpublished, abandoned,
                     sequence_clear_of_consumers, rear_unread, rear_lowest>>
    BY <1>3 DEF Drop, barrierVars, claimVars, updateVars, historyVars
  <1>13. \A s \in Int : IsPublished(s)' <=> IsPublished(s)
    <2>1. \A q \in Producers : /\ ppc'[q] = "write" <=> ppc[q] = "write"
                               /\ ppc[q] = "write" => request'[q] = request[q]
      BY <1>11, <1>12
    <2>2. QED
      BY <1>1, <1>12, <2>1, QuietStep DEF barrierVars, updateVars
  <1>14. HandleInv'
    <2>1. memory'[ProducerCursor] = memory[ProducerCursor]
      BY <1>8, LocationNames
    <2>2. Alive' = {}
      BY <1>3, <1>11 DEF Alive
    <2>3. QED
      BY <1>1, <1>12, <2>1, <2>2 DEF HandleInv, Newest
  <1>15. ProducerKnows(p)'
    <2>1. ProducerKnows(p) /\ KeptBounds(p)
      BY <1>1, <1>3 DEF ProducerViewInv, KeptBounds
    <2>2. ppc'[p] = "join"
      BY <1>11
    <2>3. Precedes(cur[t], cur'[t]) /\ Precedes(acq[t], acq'[t]) /\ rel'[t] = rel[t]
      BY <1>5, <1>8
    <2>4. QED
      BY <1>1, <1>2, <1>8, <1>12, <2>1, <2>2, <2>3, ProducerKnowsMore
  <1>16. \A q \in Producers \ {p} :
           /\ cur'[ProducerThread(q)] = cur[ProducerThread(q)]
           /\ acq'[ProducerThread(q)] = acq[ProducerThread(q)]
           /\ rel'[ProducerThread(q)] = rel[ProducerThread(q)]
    BY <1>2, <1>8, Names
  <1>17. \A c \in Consumers : /\ cur'[ConsumerThread(c)] = cur[ConsumerThread(c)]
                              /\ acq'[ConsumerThread(c)] = acq[ConsumerThread(c)]
    BY <1>2, <1>8, Names
  <1>18. UNCHANGED <<consumerVars, scanned, bits, writer>>
    BY <1>3, <1>12
  <1>19. \A q \in Producers \ {p} :
           /\ sequence_clear_of_consumers'[q] = sequence_clear_of_consumers[q]
           /\ rear_unread'[q] = rear_unread[q] /\ rear_lowest'[q] = rear_lowest[q]
           /\ ppc'[q] = ppc[q] /\ request'[q] = request[q]
           /\ claimed_sequence'[q] = claimed_sequence[q]
           /\ position'[q] = position[q] /\ unpublished'[q] = unpublished[q]
    BY <1>11, <1>12
  <1>20. /\ {p} \in SUBSET Producers
         /\ \A q \in {p} : ProducerKnows(q)' /\ (ppc'[q] = "write" => position'[q] = Lower(q)')
    BY <1>11, <1>15
  <1>21. QED
    BY <1>4, <1>8, <1>9, <1>10, <1>13, <1>14, <1>16, <1>17, <1>18, <1>19, <1>20, ProducersAppend
-----------------------------------------------------------------------------

\* Its own write is all that p's own access makes a difference to.
LEMMA WriterKnows ==
  ASSUME OrderTypeOK, OrderTypeOK', NEW p \in Producers, NEW t, t = ProducerThread(p),
         NEW w \in Int, WritesOnly(w), NEW v \in View, NEW k \in View, k.done[t] = w,
         \A u \in AllThreads \ {t} : k.done[u] = v.done[u],
         NEW c \in Consumers, NEW s \in Int, s < w, Passed(v, c, s)
  PROVE  Passed(k, c, s)'
  <1>1. ASSUME NEW e \in DOMAIN writer', e <= s
        PROVE  k.done[ProducerThread(writer'[e])] >= e
    <2>1. e \in Int /\ e # w /\ e < w
      BY <1>1 DEF OrderTypeOK
    <2>2. e \in DOMAIN writer /\ writer'[e] = writer[e] /\ writer[e] \in Producers
      BY <2>1, WritersAssumption DEF WritesOnly, OrderTypeOK
    <2>3. CASE writer[e] = p
      BY <2>1, <2>2, <2>3
    <2>4. CASE writer[e] # p
      <3>1. ProducerThread(writer[e]) \in AllThreads \ {t}
        BY <2>2, <2>4, Names
      <3>2. v.done[ProducerThread(writer[e])] >= e
        BY <1>1, <2>2 DEF Passed, Written
      <3>3. QED
        BY <2>2, <3>1, <3>2
    <2>5. QED
      BY <2>3, <2>4
  <1>2. \A u \in Before(c) \cup {c} : u \in Consumers /\ ConsumerThread(u) \in AllThreads \ {t}
    BY Names DEF Before
  <1>3. \A u \in Before(c) \cup {c} : k.done[ConsumerThread(u)] >= s
    BY <1>2 DEF Passed
  <1>4. Written(k, s)'
    BY <1>1 DEF Written
  <1>5. QED
    BY <1>3, <1>4 DEF Passed, Before

\* The bounds of a producer are of events before any that is being written.
LEMMA BoundsBefore ==
  ASSUME TypeOK, IInv, NEW q \in Producers, NEW w \in Int,
         \A c \in Consumers : consumer_cursor[c] < w
  PROVE  /\ sequence_clear_of_consumers[q] - Size < w
         /\ rear_unread[q] # LastStage => rear_lowest[q] < w
  <1>1. PICK clear \in Int, low \in Int :
          clear = sequence_clear_of_consumers[q] /\ low = rear_lowest[q]
    BY DEF TypeOK
  <1>2. clear - Size < w
    <2>1. PICK c \in Consumers : TRUE
      BY SomeConsumer
    <2>2. PICK k \in Int : k = consumer_cursor[c] /\ k < w /\ clear <= k + Size
      BY <1>1, CursorFacts DEF IInv, ClearInv
    <2>3. QED
      BY <2>2, SizeAssumption
  <1>3. rear_unread[q] # LastStage => low < w
    <2>1. SUFFICES ASSUME rear_unread[q] # LastStage
                   PROVE  low < w
      OBVIOUS
    <2>2. PICK c \in LastStage : c \notin rear_unread[q]
      BY <2>1 DEF TypeOK
    <2>3. c \in Consumers /\ low <= consumer_cursor[c]
      BY <1>1, <2>2, LastStageFacts DEF IInv, ClearInv
    <2>4. QED
      BY <2>3, CursorFacts
  <1>4. QED
    BY <1>1, <1>2, <1>3

\* What p knows once it has written its next event.
LEMMA WriteEventKnows ==
  ASSUME OrderedIInv, OrderTypeOK', NEW p \in Producers, WriteEvent(p),
         NEW t, t = ProducerThread(p), NEW w \in Int, w = position[p], WritesOnly(w),
         cur'[t].done[t] = w, acq'[t].done[t] = w,
         \A u \in AllThreads \ {t} : /\ cur'[t].done[u] = cur[t].done[u]
                                     /\ acq'[t].done[u] = acq[t].done[u]
  PROVE  ProducerKnows(p)'
  <1>1. /\ TypeOK /\ IInv /\ OrderTypeOK /\ MemoryTypeOK /\ ProducerKnows(p) /\ t \in AllThreads
    BY Parts, Names DEF ProducerViewInv
  <1>2. /\ w \in Nat /\ unpublished[p] = Lower(p)
        /\ \A c \in Consumers : consumer_cursor[c] < w
    BY <1>1, WritePosition
  <1>3. PICK old \in View, k \in View, m \in View, n \in View :
          old = cur[t] /\ k = cur'[t] /\ m = acq'[t] /\ n = acq[t]
    BY <1>1 DEF OrderTypeOK, MemoryTypeOK
  <1>4. PICK clear \in Int, low \in Int :
          clear = sequence_clear_of_consumers[p] - Size /\ low = rear_lowest[p]
    BY <1>1, SizeAssumption DEF TypeOK
  <1>5. clear < w /\ (rear_unread[p] # LastStage => low < w)
    BY <1>1, <1>2, <1>4, BoundsBefore
  <1>6. /\ ppc[p] = "write" /\ ppc'[p] = "write" /\ position'[p] = w + 1
        /\ UNCHANGED <<sequence_clear_of_consumers, rear_unread, rear_lowest, request,
                       claimed_sequence, unpublished>>
    BY <1>1 DEF WriteEvent, claimVars, TypeOK
  <1>7. \A c \in Consumers : Passed(k, c, clear)'
    <2>1. ASSUME NEW c \in Consumers
          PROVE  Passed(k, c, clear)'
      <3>1. Passed(old, c, clear)
        BY <1>1, <1>3, <1>4 DEF ProducerKnows
      <3>2. k.done[t] = w /\ \A u \in AllThreads \ {t} : k.done[u] = old.done[u]
        BY <1>3
      <3>3. QED
        BY <1>1, <1>5, <3>1, <3>2, WriterKnows
    <2>2. QED
      BY <2>1
  <1>8. \A u \in LastStage \ rear_unread[p] : Passed(m, u, low)'
    <2>1. ASSUME NEW u \in LastStage \ rear_unread[p]
          PROVE  Passed(m, u, low)'
      <3>1. u \in Consumers /\ low < w /\ Passed(n, u, low)
        BY <1>1, <1>3, <1>4, <1>5, <2>1, LastStageFacts DEF ProducerKnows
      <3>2. m.done[t] = w /\ \A z \in AllThreads \ {t} : m.done[z] = n.done[z]
        BY <1>3
      <3>3. QED
        BY <1>1, <3>1, <3>2, WriterKnows
    <2>2. QED
      BY <2>1
  <1>9. \A u \in AllThreads : k.done[u] >= -1
    BY <1>1, <1>2, <1>3 DEF ProducerKnows
  <1>10. /\ Upper(p)' = Upper(p) /\ Lower(p)' = Lower(p)
         /\ Upper(p)' <= sequence_clear_of_consumers'[p]
         /\ unpublished'[p] = Lower(p)'
    BY <1>1, <1>2, <1>6 DEF Upper, Lower, ProducerKnows
  <1>11. Lower(p) \in Int
    BY <1>1, BatchType
  <1>12. k.done[t] >= position'[p] - 1 /\ ~(unpublished'[p] > Lower(p)')
    BY <1>2, <1>3, <1>6, <1>10, <1>11
  <1>13. PICK bound : bound = sequence_clear_of_consumers'[p] - Size /\ bound = clear
    BY <1>4, <1>6
  <1>14. \A c \in Consumers : Passed(cur[t], c, sequence_clear_of_consumers[p] - Size)'
    BY <1>3, <1>7, <1>13
  <1>15. PICK rear : rear = rear_lowest'[p] /\ rear = low
    BY <1>4, <1>6
  <1>16. \A u \in LastStage' \ rear_unread'[p] : Passed(acq[t], u, rear_lowest[p])'
    <2>1. LastStage' = LastStage /\ rear_unread'[p] = rear_unread[p]
      BY <1>6 DEF LastStage
    <2>2. QED
      BY <1>3, <1>8, <1>15, <2>1
  <1>17. QED
    BY <1>3, <1>6, <1>9, <1>10, <1>12, <1>14, <1>16 DEF ProducerKnows

\* An event that nobody is to see yet.
LEMMA WriteEventOrderedInv ==
  ASSUME OrderedIInv, NEW p \in Producers, WriteEventOrdered(p)
  PROVE  OrderedIInv'
  <1>1. /\ TypeOK /\ IInv /\ OrderTypeOK /\ MemoryTypeOK /\ AcquireInv /\ ShutdownMessageInv
        /\ ProducerViewInv /\ WriterInv /\ ConsumersTypeOK /\ CursorMessageInv
        /\ ConsumerViewInv
    BY Parts
  <1>2. /\ WriteEvent(p) /\ UNCHANGED memory
        /\ SetViews(ProducerThread(p), Accessed(Views(p), ProducerThread(p), position[p]))
        /\ writer' = [s \in DOMAIN writer \cup {position[p]} |->
                        IF s = position[p] THEN p ELSE writer[s]]
    BY DEF WriteEventOrdered
  <1>3. TypeOK' /\ IInv' /\ \A s \in Int : IsPublished(s)' <=> IsPublished(s)
    <2>1. [Next]_vars
      BY <1>2 DEF Next, ProducerStep
    <2>2. QED
      BY <1>1, <1>2, <2>1, NextType, NextInv, WriteEventInv
  <1>4. PICK t \in AllThreads : t = ProducerThread(p)
    BY Names
  <1>5. PICK w \in Nat :
          /\ w = position[p] /\ w <= cursor /\ ~IsPublished(w)
          /\ \A c \in Consumers : consumer_cursor[c] < w
    BY <1>1, <1>2, WritePosition
  <1>6. /\ DOMAIN writer' = DOMAIN writer \cup {w} /\ writer'[w] = p
        /\ \A e \in DOMAIN writer' \ {w} : e \in DOMAIN writer /\ writer'[e] = writer[e]
        /\ \A e \in DOMAIN writer \ {w} : e \in DOMAIN writer' /\ writer'[e] = writer[e]
    BY <1>2, <1>5
  <1>7. WritesOnly(w)
    BY <1>6 DEF WritesOnly
  <1>8. UNCHANGED <<consumerVars, shutdown_at_sequence, scanned, cursor, bits,
                    claimed_sequence, sequence_clear_of_consumers, ppc, request,
                    rear_unread, rear_lowest, unpublished>>
    BY <1>2 DEF WriteEvent, barrierVars, claimVars
  <1>9. \A q \in Producers : position'[q] = IF q = p THEN w + 1 ELSE position[q]
    BY <1>1, <1>2, <1>5 DEF WriteEvent, TypeOK
  <1>10. /\ MemoryTypeOK' /\ AcquireInv'
         /\ cur'[t].done[t] = w /\ acq'[t].done[t] = w /\ cur'[t].loc = cur[t].loc
         /\ \A u \in AllThreads \ {t} : /\ cur'[t].done[u] = cur[t].done[u]
                                        /\ acq'[t].done[u] = acq[t].done[u]
         /\ \A u \in AllThreads \ {t} : /\ cur'[u] = cur[u]
                                        /\ acq'[u] = acq[u]
                                        /\ rel'[u] = rel[u]
    <2>1. PICK before \in Triple : /\ before = ViewsOf(t) /\ before.cur = cur[t]
                                   /\ before.acq = acq[t] /\ before.rel = rel[t]
      BY <1>1, ViewsOfType
    <2>2. PICK after \in Triple :
            /\ after = Accessed(before, t, w)
            /\ after.cur.done[t] = w
            /\ after.acq.done[t] = w
            /\ after.cur.loc = before.cur.loc
            /\ \A u \in AllThreads \ {t} : /\ after.cur.done[u] = before.cur.done[u]
                                           /\ after.acq.done[u] = before.acq.done[u]
      BY AccessedViews
    <2>3. Below(after.cur, after.acq)
      BY <1>1, <2>1, <2>2, AccessedBelow
    <2>4. SetViews(t, after)
      BY <1>2, <1>4, <1>5, <2>1, <2>2 DEF Views
    <2>5. /\ cur' \in [AllThreads -> View]
          /\ acq' \in [AllThreads -> View]
          /\ rel' \in [AllThreads -> View]
          /\ cur'[t] = after.cur /\ acq'[t] = after.acq
          /\ \A u \in AllThreads \ {t} : /\ cur'[u] = cur[u]
                                         /\ acq'[u] = acq[u]
                                         /\ rel'[u] = rel[u]
      BY <1>1, <2>4, SetViewsEffect
    <2>6. MemoryTypeOK'
      BY <1>1, <1>2, <2>5, SameMemory
    <2>7. AcquireInv'
      BY <1>1, <2>3, <2>5, AcquireKept
    <2>8. QED
      BY <2>1, <2>2, <2>5, <2>6, <2>7
  <1>11. OrderTypeOK'
    <2>1. \A s \in DOMAIN writer' : s \in Nat /\ writer'[s] \in Writers
      BY <1>1, <1>6, WritersAssumption DEF OrderTypeOK
    <2>2. QED
      BY <1>10, <2>1 DEF OrderTypeOK
  <1>12. ConsumersTypeOK' /\ cursor' \in Int
    BY <1>3 DEF TypeOK
  <1>13. \A c \in Consumers : /\ cur'[ConsumerThread(c)] = cur[ConsumerThread(c)]
                              /\ acq'[ConsumerThread(c)] = acq[ConsumerThread(c)]
    BY <1>4, <1>10, Names
  <1>14. CursorMessageInv' /\ ConsumerViewInv'
    <2>1. PICK k \in Int : ConsumerInv(k) /\ \A s \in 0 .. k : IsPublished(s)
      BY <1>1, Gapless
    <2>2. k < w
      BY <1>5, <2>1
    <2>3. \A d \in Consumers : cpc'[d] \in {"handle", "guard"} => cpc'[d] = cpc[d]
      BY <1>8 DEF consumerVars
    <2>4. UNCHANGED <<consumer_cursor, consumer_sequence, available, unread, lowest>>
      BY <1>8 DEF consumerVars
    <2>5. QED
      BY <1>1, <1>2, <1>7, <1>13, <2>1, <2>2, <2>3, <2>4, ConsumersAside
  <1>15. ShutdownMessageInv'
    <2>1. NONE' = NONE
      BY DEF NONE
    <2>2. QED
      BY <1>1, <1>2, <1>8, <2>1 DEF ShutdownMessageInv
  <1>16. ConsumerOrderInv'
    BY <1>10, <1>11, <1>12, <1>14, <1>15 DEF ConsumerOrderInv
  <1>17. WordInv'
    <2>1. \A s \in Nat : IsPublished(s) => writer'[s] = writer[s]
      <3>1. \A s \in Nat \ {w} : writer'[s] = writer[s] \/ s \notin DOMAIN writer
        BY <1>6
      <3>2. \A s \in Nat : IsPublished(s) => s \in DOMAIN writer
        BY <1>1 DEF WriterInv, IsPublished
      <3>3. QED
        BY <1>5, <3>1, <3>2
    <2>2. \A x \in Words : memory'[WordAt(x)] = memory[WordAt(x)]
      BY <1>2
    <2>3. QED
      BY <1>3, <1>8, <1>12, <2>1, <2>2, WordsKept
  <1>18. ScanInv'
    <2>1. WordsShow
      BY <1>2, SameWordsShow
    <2>2. ASSUME NEW d \in Consumers
          PROVE  ScanKnows(d)'
      <3>1. /\ cpc'[d] = cpc[d] /\ available'[d] = available[d]
            /\ consumer_cursor'[d] = consumer_cursor[d] /\ scanned'[d] = scanned[d]
        BY <1>8 DEF consumerVars
      <3>2. ASSUME NEW e \in DOMAIN writer'
            PROVE  e \in Int /\ (e <= Scanned(d) => e \in DOMAIN writer /\ writer'[e] = writer[e])
        <4>1. e \in Int
          BY <1>11 DEF OrderTypeOK
        <4>2. e <= Scanned(d) => e # w
          BY <1>5, <4>1, ScannedPublished
        <4>3. QED
          BY <1>6, <4>1, <4>2
      <3>3. QED
        BY <1>10, <1>13, <2>1, <3>1, <3>2, ScanAside
    <2>3. QED
      BY <2>2, ScanOfAll
  <1>19. ProducerViewInv'
    <2>1. ASSUME NEW q \in Producers \ {p}
          PROVE  ProducerKnows(q)'
      <3>1. KeptBounds(q)
        BY <1>1, <1>5, <1>7, BoundsBefore DEF KeptBounds
      <3>2. ProducerThread(q) \in AllThreads \ {t}
        BY <1>4, Names
      <3>3. /\ cur'[ProducerThread(q)] = cur[ProducerThread(q)]
            /\ acq'[ProducerThread(q)] = acq[ProducerThread(q)]
            /\ rel'[ProducerThread(q)] = rel[ProducerThread(q)]
        BY <1>10, <3>2
      <3>4. position'[q] = position[q]
        BY <1>9
      <3>5. QED
        BY <1>8, <1>10, <3>1, <3>3, <3>4, ProducerAside
    <2>2. ProducerKnows(p)'
      BY <1>2, <1>4, <1>5, <1>7, <1>10, <1>11, WriteEventKnows
    <2>3. QED
      BY <2>1, <2>2 DEF ProducerViewInv
  <1>20. WriterInv'
    <2>1. ASSUME NEW s \in 0 .. cursor', IsPublished(s)'
          PROVE  s \in DOMAIN writer'
      <3>1. IsPublished(s) /\ s \in 0 .. cursor
        BY <1>3, <1>8, <2>1
      <3>2. QED
        BY <1>1, <1>6, <3>1 DEF WriterInv
    <2>2. ASSUME NEW q \in Producers, ppc'[q] = "write",
                 NEW s \in Lower(q)' .. position'[q] - 1
          PROVE  s \in DOMAIN writer' /\ writer'[s] = q
      <3>1. PICK low \in Int, high \in Int : low = Lower(q) /\ high = position[q]
        BY <1>1, BatchType
      <3>2. Lower(q)' = low /\ ppc[q] = "write"
        BY <1>8, <2>2, <3>1 DEF Lower
      <3>3. CASE q = p
        <4>1. s \in low .. w
          BY <1>9, <2>2, <3>2, <3>3
        <4>2. CASE s = w
          BY <1>6, <3>3, <4>2
        <4>3. CASE s # w
          <5>1. s \in low .. high - 1
            BY <1>5, <3>1, <3>3, <4>1, <4>3
          <5>2. s \in DOMAIN writer /\ writer[s] = p
            BY <1>1, <3>1, <3>2, <3>3, <5>1 DEF WriterInv
          <5>3. QED
            BY <1>6, <3>3, <4>3, <5>2
        <4>4. QED
          BY <4>2, <4>3
      <3>4. CASE q # p
        <4>1. s \in low .. high - 1
          BY <1>9, <2>2, <3>1, <3>2, <3>4
        <4>2. s \in DOMAIN writer /\ writer[s] = q
          BY <1>1, <3>1, <3>2, <4>1 DEF WriterInv
        <4>3. s # w
          <5>1. OwnBatch(p) /\ OwnBatch(q) /\ ppc[p] = "write" /\ w <= Upper(p)
            BY <1>1, <1>2, <1>5, <3>2 DEF IInv, ClaimInv, WriteEvent
          <5>2. /\ low <= s /\ s <= Upper(q) /\ Lower(p) <= w
                /\ Upper(p) < low \/ Upper(q) < Lower(p)
                /\ Upper(p) \in Int /\ Upper(q) \in Int /\ Lower(p) \in Int
            BY <1>1, <1>5, <3>1, <3>2, <3>4, <4>1, <5>1, BatchType DEF OwnBatch
          <5>3. QED
            BY <5>1, <5>2
        <4>4. QED
          BY <1>6, <4>2, <4>3
      <3>5. QED
        BY <3>3, <3>4
    <2>3. QED
      BY <2>1, <2>2 DEF WriterInv
  <1>21. HandleInv'
    <2>1. \A q \in Producers : cur[ProducerThread(q)].loc[ProducerCursor]
                                 <= cur'[ProducerThread(q)].loc[ProducerCursor]
      <3>1. ASSUME NEW u \in AllThreads
            PROVE  cur[u].loc[ProducerCursor] <= cur'[u].loc[ProducerCursor]
        <4>1. cur'[u].loc = cur[u].loc /\ cur[u] \in View
          BY <1>1, <1>10 DEF MemoryTypeOK
        <4>2. cur[u].loc[ProducerCursor] \in Nat
          BY <4>1, Names DEF View
        <4>3. QED
          BY <4>1, <4>2
      <3>2. QED
        BY <3>1, Names
    <2>2. Alive' = Alive
      BY <1>8 DEF Alive
    <2>3. QED
      BY <1>2, <1>8, <1>10, <2>1, <2>2, HandleKept
  <1>22. QED
    BY <1>3, <1>16, <1>17, <1>18, <1>19, <1>20, <1>21 DEF OrderedIInv, OrderedTypeOK, ConsumerOrderInv
-----------------------------------------------------------------------------

(***************************************************************************)
(* A flip.                                                                 *)
(***************************************************************************)

\* What old messages say of a slot is settled.
LEMMA OldLatest ==
  ASSUME NEW x, NEW j \in Nat, NEW i, \A k \in 1 .. j : memory'[x][k] = memory[x][k]
  PROVE  Latest(x, j, i)' = Latest(x, j, i)
  <1>1. Flips(x, j, i)' = Flips(x, j, i)
    <2>1. \A k \in 2 .. j : k \in 1 .. j /\ k - 1 \in 1 .. j
      OBVIOUS
    <2>2. QED
      BY <2>1 DEF Flips
  <1>2. QED
    BY <1>1 DEF Latest

\* A new one takes the slots it flips a lap further, and no other.
LEMMA NewLatest ==
  ASSUME NEW x, NEW n \in Nat \ {0}, NEW h \in Nat, h = n + 1, NEW i \in Slots,
         \A k \in 1 .. n : memory'[x][k] = memory[x][k]
  PROVE  /\ memory'[x][h].value[i] = memory[x][n].value[i] =>
              Latest(x, h, i)' = Latest(x, n, i)
         /\ memory'[x][h].value[i] # memory[x][n].value[i] =>
              Latest(x, h, i)' = Latest(x, n, i) + Size
  <1>1. PICK old, new : old = Flips(x, n, i) /\ new = Flips(x, h, i)'
    OBVIOUS
  <1>2. Flips(x, n, i)' = old
    <2>1. \A k \in 2 .. n : k \in 1 .. n /\ k - 1 \in 1 .. n
      OBVIOUS
    <2>2. Flips(x, n, i)' = Flips(x, n, i)
      BY <2>1 DEF Flips
    <2>3. QED
      BY <1>1, <2>2
  <1>3. memory'[x][h - 1] = memory[x][n]
    OBVIOUS
  <1>4. new = old \cup {k \in {h} : memory'[x][h].value[i] # memory[x][n].value[i]}
    <2>1. \A k : k \in 2 .. h <=> k \in 2 .. n \/ k = h
      OBVIOUS
    <2>2. QED
      BY <1>1, <1>2, <1>3, <2>1 DEF Flips
  <1>5. IsFiniteSet(old) /\ Cardinality(old) \in Nat /\ h \notin old
    <2>1. IsFiniteSet(Flips(x, n, i)) /\ Cardinality(Flips(x, n, i)) \in Nat
      BY FlipsFacts
    <2>2. h \notin Flips(x, n, i)
      BY DEF Flips
    <2>3. QED
      BY <1>1, <2>1, <2>2
  <1>6. PICK m \in Nat : m = Cardinality(old)
    BY <1>5
  <1>7. PICK l : l = Latest(x, n, i) /\ l = i + Size * (m - 1)
    BY <1>1, <1>6 DEF Latest
  <1>8. ASSUME memory'[x][h].value[i] = memory[x][n].value[i]
        PROVE  Latest(x, h, i)' = l
    <2>1. new = old
      BY <1>4, <1>8
    <2>2. QED
      BY <1>1, <1>6, <1>7, <2>1 DEF Latest
  <1>9. ASSUME memory'[x][h].value[i] # memory[x][n].value[i]
        PROVE  Latest(x, h, i)' = l + Size
    <2>1. new = old \cup {h}
      BY <1>4, <1>9
    <2>2. Cardinality(new) = m + 1
      BY <1>5, <1>6, <2>1, FS_AddElement
    <2>3. PICK k \in Int : k = m + 1 - 1 /\ k = m
      OBVIOUS
    <2>4. Latest(x, h, i)' = i + Size * k
      BY <1>1, <2>2, <2>3 DEF Latest
    <2>5. i \in Int /\ Size \in Int /\ Size * m \in Int /\ Size * (m - 1) = Size * m - Size
      BY SizeAssumption DEF Slots
    <2>6. QED
      BY <1>7, <2>3, <2>4, <2>5
  <1>10. QED
    BY <1>7, <1>8, <1>9

LEMMA ReleaseFenced ==
  ASSUME NEW views \in Triple
  PROVE  /\ ReleaseFence(views) \in Triple
         /\ ReleaseFence(views).cur = views.cur
         /\ ReleaseFence(views).acq = views.acq
         /\ ReleaseFence(views).rel = views.cur
  BY DEF Triple, ReleaseFence

\* What an exchange by t, with the views before, of location x does.
FlipsTo(t, before, x, v, ordering) ==
  /\ MemoryTypeOK' /\ AcquireInv'
  /\ cur'[t].done = cur[t].done /\ Precedes(acq[t], acq'[t]) /\ rel'[t] = before.rel
  /\ \A y \in AllLocations \ {x} : cur'[t].loc[y] = cur[t].loc[y]
  /\ \A u \in AllThreads \ {t} : /\ cur'[u] = cur[u]
                                 /\ acq'[u] = acq[u]
                                 /\ rel'[u] = rel[u]
  /\ \A y \in AllLocations \ {x} : memory'[y] = memory[y]
  /\ Len(memory'[x]) = Len(memory[x]) + 1
  /\ \A i \in DOMAIN memory[x] : memory'[x][i] = memory[x][i]
  /\ \E m \in [value : {v}, view : View] :
       /\ memory'[x][Len(memory[x]) + 1] = m
       /\ Below(Newest(x).view, m.view)
       /\ ordering = "Release" => Precedes(cur[t], m.view)
       /\ ordering = "Relaxed" => Precedes(before.rel, m.view)

\* What a relaxed read-modify-write, releasing or not, makes of the views of its
\* thread: it learns nothing of the events.
LEMMA FlipViews ==
  ASSUME MemoryTypeOK, AcquireInv, NEW t \in AllThreads, NEW before \in Triple,
         before.cur = cur[t], before.acq = acq[t],
         NEW x \in AllLocations, NEW v, NEW ordering,
         Append1(x, ExchangeMessage(Loaded(before, x, Len(memory[x])), x, v, ordering)),
         SetViews(t, Stored(Loaded(before, x, Len(memory[x])), x))
  PROVE  FlipsTo(t, before, x, v, ordering)
  <1>1. PICK n \in Nat \ {0} : n = Len(memory[x]) /\ memory[x][n].view \in View
    <2>1. Len(memory[x]) \in Nat \ {0} /\ Len(memory[x]) \in DOMAIN memory[x]
      BY MessageType
    <2>2. QED
      BY <2>1, MessageType
  <1>2. PICK views \in Triple :
          /\ views = Loaded(before, x, n)
          /\ views.cur.done = before.cur.done
          /\ views.rel = before.rel
          /\ \A y \in AllLocations \ {x} : views.cur.loc[y] = before.cur.loc[y]
          /\ Below(views.cur, views.acq)
          /\ Below(before.acq, views.acq)
    BY <1>1, LoadedAnyway
  <1>3. PICK m \in [value : {v}, view : View] :
          /\ m = ExchangeMessage(views, x, v, ordering)
          /\ Precedes(Carried(views, ordering), m.view)
          /\ Below(Newest(x).view, m.view)
    BY ExchangeMessageFacts
  <1>4. PICK after \in Triple :
          /\ after = Stored(views, x)
          /\ after.cur.done = views.cur.done
          /\ after.acq.done = views.acq.done
          /\ after.rel = views.rel
          /\ \A y \in AllLocations \ {x} : after.cur.loc[y] = views.cur.loc[y]
          /\ Below(after.cur, after.acq)
    BY <1>2, StoredViews, StoredBelow
  <1>5. Precedes(before.acq, after.acq)
    BY <1>2, <1>4 DEF Below, Precedes
  <1>6. ordering = "Release" => Precedes(cur[t], m.view)
    BY <1>2, <1>3 DEF Carried, Precedes
  <1>7. ordering = "Relaxed" => Precedes(before.rel, m.view)
    BY <1>2, <1>3 DEF Carried
  <1>8. Append1(x, m) /\ SetViews(t, after)
    BY <1>1, <1>2, <1>3, <1>4
  <1>9. /\ MemoryTypeOK'
        /\ cur'[t] = after.cur /\ acq'[t] = after.acq /\ rel'[t] = after.rel
        /\ \A u \in AllThreads \ {t} : /\ cur'[u] = cur[u]
                                       /\ acq'[u] = acq[u]
                                       /\ rel'[u] = rel[u]
        /\ \A y \in AllLocations \ {x} : memory'[y] = memory[y]
        /\ Len(memory'[x]) = Len(memory[x]) + 1
        /\ \A i \in DOMAIN memory[x] : memory'[x][i] = memory[x][i]
        /\ memory'[x][Len(memory[x]) + 1] = m
    BY <1>8, AppendStep
  <1>10. AcquireInv'
    BY <1>4, <1>9, AcquireKept
  <1>11. /\ cur'[t].done = cur[t].done /\ Precedes(acq[t], acq'[t]) /\ rel'[t] = before.rel
         /\ \A y \in AllLocations \ {x} : cur'[t].loc[y] = cur[t].loc[y]
    BY <1>2, <1>4, <1>5, <1>9
  <1>12. QED
    BY <1>3, <1>6, <1>7, <1>9, <1>10, <1>11 DEF FlipsTo

\* A word of the bit field.
BitsOf(w) == [i \in SlotsOf(w) |-> bits[i]]

\* What a step of PublishWordOrdered does, by thread t to location x of word w.
PublishesWord(p, t, x, w) ==
  /\ PublishWord(p) /\ UNCHANGED writer
  /\ MemoryTypeOK' /\ AcquireInv'
  /\ cur'[t].done = cur[t].done /\ Precedes(acq[t], acq'[t])
  /\ \A y \in AllLocations \ {x} : cur'[t].loc[y] = cur[t].loc[y]
  /\ \A u \in AllThreads \ {t} : /\ cur'[u] = cur[u]
                                 /\ acq'[u] = acq[u]
                                 /\ rel'[u] = rel[u]
  /\ \A y \in AllLocations \ {x} : memory'[y] = memory[y]
  /\ Len(memory'[x]) = Len(memory[x]) + 1
  /\ \A i \in DOMAIN memory[x] : memory'[x][i] = memory[x][i]
  /\ Lower(p) <= Upper(p) /\ Lower(p) # Upper(p) => rel'[t].done[t] >= Upper(p)
  /\ \E m : /\ m.value = BitsOf(w)' /\ m.view \in View
            /\ memory'[x][Len(memory[x]) + 1] = m
            /\ Below(Newest(x).view, m.view)
            /\ Lower(p) <= Upper(p) => m.view.done[t] >= Upper(p)

\* A flip tells of the whole batch, whether it is the fence before the first flip
\* that orders it after the writes or the flip itself.
LEMMA PublishWordViews ==
  ASSUME OrderedIInv, NEW p \in Producers, PublishWordOrdered(p),
         NEW t, t = ProducerThread(p), NEW x, x = WordFor(unpublished[p]),
         NEW w, w = WordOf(SlotOf(unpublished[p]))
  PROVE  PublishesWord(p, t, x, w)
  <1>1. /\ TypeOK /\ IInv /\ MemoryTypeOK /\ AcquireInv /\ ProducerKnows(p)
        /\ t \in AllThreads
    BY Parts, Names DEF ProducerViewInv
  <1>2. PublishWord(p) /\ UNCHANGED writer
    BY DEF PublishWordOrdered
  <1>3. /\ ppc[p] = "write" /\ position[p] > Upper(p)
        /\ Lower(p) \in Int /\ Upper(p) \in Int /\ unpublished[p] \in Int /\ position[p] \in Int
        /\ Lower(p) <= unpublished[p]
        /\ position[p] - 1 <= Upper(p)
    BY <1>1, <1>2, BatchType DEF PublishWord, IInv, ClaimInv, OwnBatch
  <1>4. x \in AllLocations /\ x = WordAt(w)
    BY <1>3, Names DEF WordFor
  <1>5. PICK low \in Int, high \in Int, n \in Nat :
          low = Lower(p) /\ high = Upper(p) /\ n = request[p].n /\ low = high - n + 1
    BY <1>1, <1>3 DEF Lower, Upper, TypeOK
  <1>6. low <= high => cur[t].done[t] >= high
    <2>1. PICK pos \in Int : pos = position[p]
      BY <1>3
    <2>2. pos - 1 = high /\ (pos > low => cur[t].done[t] >= pos - 1)
      BY <1>1, <1>3, <1>5, <2>1 DEF ProducerKnows
    <2>3. QED
      BY <2>2
  <1>7. PICK v : v = [i \in SlotsOf(w) |-> bits'[i]] /\ v = BitsOf(w)'
    BY DEF BitsOf
  <1>8. \E before \in Triple : \E ordering :
          /\ before.cur = cur[t] /\ before.acq = acq[t]
          /\ Append1(x, ExchangeMessage(Loaded(before, x, Len(memory[x])), x, v, ordering))
          /\ SetViews(t, Stored(Loaded(before, x, Len(memory[x])), x))
          /\ \/ ordering = "Relaxed" /\ (low <= high => before.rel.done[t] >= high)
             \/ ordering = "Release" /\ n = 1
    <2>1. PICK now \in Triple : /\ now = ViewsOf(t) /\ now.cur = cur[t]
                                /\ now.acq = acq[t] /\ now.rel = rel[t]
      BY <1>1, ViewsOfType
    <2>2. CASE /\ Append1(x, ExchangeMessage(Loaded(Fenced(p), x, Len(memory[x])), x, v,
                                             "Relaxed"))
               /\ SetViews(t, Stored(Loaded(Fenced(p), x, Len(memory[x])), x))
      <3>1. CASE unpublished[p] = Lower(p)
        <4>1. Fenced(p) = ReleaseFence(now)
          BY <2>1, <3>1 DEF Fenced, Views
        <4>2. PICK before \in Triple : /\ before = Fenced(p) /\ before.cur = now.cur
                                       /\ before.acq = now.acq /\ before.rel = now.cur
          BY <4>1, ReleaseFenced
        <4>3. QED
          BY <1>6, <2>1, <2>2, <4>2
      <3>2. CASE unpublished[p] # Lower(p)
        <4>1. Fenced(p) = now
          BY <2>1, <3>2 DEF Fenced, Views
        <4>2. unpublished[p] > Lower(p)
          BY <1>3, <3>2
        <4>3. rel[t].done[t] >= high
          BY <1>1, <1>3, <1>5, <4>2 DEF ProducerKnows
        <4>4. QED
          BY <2>1, <2>2, <4>1, <4>3
      <3>3. QED
        BY <3>1, <3>2
    <2>3. CASE /\ request[p].n = 1
               /\ Append1(x, ExchangeMessage(Loaded(Views(p), x, Len(memory[x])), x, v,
                                             "Release"))
               /\ SetViews(t, Stored(Loaded(Views(p), x, Len(memory[x])), x))
      BY <1>5, <2>1, <2>3 DEF Views
    <2>4. QED
      BY <1>4, <1>7, <2>2, <2>3 DEF PublishWordOrdered
  <1>9. PICK before \in Triple : \E ordering :
          /\ before.cur = cur[t] /\ before.acq = acq[t]
          /\ Append1(x, ExchangeMessage(Loaded(before, x, Len(memory[x])), x, v, ordering))
          /\ SetViews(t, Stored(Loaded(before, x, Len(memory[x])), x))
          /\ \/ ordering = "Relaxed" /\ (low <= high => before.rel.done[t] >= high)
             \/ ordering = "Release" /\ n = 1
    BY <1>8
  <1>10. PICK ordering :
          /\ before.cur = cur[t] /\ before.acq = acq[t]
          /\ Append1(x, ExchangeMessage(Loaded(before, x, Len(memory[x])), x, v, ordering))
          /\ SetViews(t, Stored(Loaded(before, x, Len(memory[x])), x))
          /\ \/ ordering = "Relaxed" /\ (low <= high => before.rel.done[t] >= high)
             \/ ordering = "Release" /\ n = 1
    BY <1>9
  <1>11. /\ MemoryTypeOK' /\ AcquireInv'
         /\ cur'[t].done = cur[t].done /\ Precedes(acq[t], acq'[t]) /\ rel'[t] = before.rel
         /\ \A y \in AllLocations \ {x} : cur'[t].loc[y] = cur[t].loc[y]
         /\ \A u \in AllThreads \ {t} : /\ cur'[u] = cur[u]
                                        /\ acq'[u] = acq[u]
                                        /\ rel'[u] = rel[u]
         /\ \A y \in AllLocations \ {x} : memory'[y] = memory[y]
         /\ Len(memory'[x]) = Len(memory[x]) + 1
         /\ \A i \in DOMAIN memory[x] : memory'[x][i] = memory[x][i]
         /\ \E m \in [value : {v}, view : View] :
              /\ memory'[x][Len(memory[x]) + 1] = m
              /\ Below(Newest(x).view, m.view)
              /\ ordering = "Release" => Precedes(cur[t], m.view)
              /\ ordering = "Relaxed" => Precedes(before.rel, m.view)
    <2>1. /\ before.cur = cur[t] /\ before.acq = acq[t]
          /\ Append1(x, ExchangeMessage(Loaded(before, x, Len(memory[x])), x, v, ordering))
          /\ SetViews(t, Stored(Loaded(before, x, Len(memory[x])), x))
      BY <1>10
    <2>2. MemoryTypeOK /\ AcquireInv /\ t \in AllThreads /\ x \in AllLocations
      BY <1>1, <1>4
    <2>3. QED
      <3>1. FlipsTo(t, before, x, v, ordering)
        BY <2>1, <2>2, FlipViews
      <3>2. QED
        BY <3>1 DEF FlipsTo
  <1>12. PICK m \in [value : {v}, view : View] :
           /\ memory'[x][Len(memory[x]) + 1] = m
           /\ Below(Newest(x).view, m.view)
           /\ ordering = "Release" => Precedes(cur[t], m.view)
           /\ ordering = "Relaxed" => Precedes(before.rel, m.view)
    BY <1>11
  <1>13. low <= high => m.view.done[t] >= high
    <2>1. PICK now \in View : now = cur[t]
      BY <1>1 DEF MemoryTypeOK
    <2>2. /\ now.done[t] \in Int /\ m.view.done[t] \in Int /\ before.rel.done[t] \in Int
      BY <1>1 DEF Triple, View
    <2>3. CASE ordering = "Relaxed" /\ (low <= high => before.rel.done[t] >= high)
      BY <1>1, <1>12, <2>2, <2>3 DEF Precedes
    <2>4. CASE ordering = "Release"
      BY <1>1, <1>6, <1>12, <2>1, <2>2, <2>4 DEF Precedes
    <2>5. QED
      BY <1>10, <2>3, <2>4
  <1>14. low <= high /\ low # high => rel'[t].done[t] >= high
    BY <1>5, <1>10, <1>11
  <1>15. QED
    BY <1>2, <1>5, <1>7, <1>11, <1>12, <1>13, <1>14 DEF PublishesWord

\* Message m flips the bits of u .. last, all of them in one word.
FlipOf(u, last, x, n, m) ==
  /\ last <= WordEnd(u)
  /\ \A s \in u .. last : /\ s \in Nat /\ s <= cursor /\ cursor < s + Size
                          /\ ~IsPublished(s) /\ IsPublished(s)'
  /\ \A s \in Int : s \notin u .. last => (IsPublished(s)' <=> IsPublished(s))
  /\ bits' = [i \in Slots |-> IF i \in Window(u, last) THEN 1 - bits[i] ELSE bits[i]]
  /\ UNCHANGED <<cursor, writer>>
  /\ x = WordFor(u) /\ n = Len(memory[x])
  /\ \A y \in AllLocations \ {x} : memory'[y] = memory[y]
  /\ Len(memory'[x]) = n + 1
  /\ \A k \in DOMAIN memory[x] : memory'[x][k] = memory[x][k]
  /\ memory'[x][n + 1] = m
  /\ m.value = [i \in SlotsOf(WordOf(SlotOf(u))) |-> bits'[i]]
  /\ m.view \in View /\ Below(Newest(x).view, m.view)
  /\ \A s \in u .. last : m.view.done[ProducerThread(writer[s])] >= s

\* The sequences it flips are in its word, and so are their slots.
LEMMA FlipWord ==
  ASSUME NEW u \in Int, NEW last \in Int, last <= WordEnd(u)
  PROVE  /\ \A s \in u .. last : WordFor(s) = WordFor(u)
         /\ \A i \in Window(u, last) : i \in SlotsOf(WordOf(SlotOf(u)))
  <1>1. ASSUME NEW s \in u .. last
        PROVE  WordFor(s) = WordFor(u) /\ SlotOf(s) \in SlotsOf(WordOf(SlotOf(u)))
    <2>1. WordEnd(u) \in Int
      BY ProducersAssumption DEF WordEnd
    <2>2. WordFor(s) = WordFor(u)
      BY <2>1, OneWord
    <2>3. WordOf(SlotOf(s)) = WordOf(SlotOf(u))
      BY <2>2, WordsOfSlots, LocationNames DEF WordFor
    <2>4. QED
      BY <2>2, <2>3, WordsOfSlots
  <1>2. QED
    BY <1>1 DEF Window

\* What was last published in the slot of a sequence about to be, as of the newest
\* message: the one a lap before.
LEMMA LapBefore ==
  ASSUME OrderedIInv, NEW s \in Nat, s <= cursor, cursor < s + Size, ~IsPublished(s)
  PROVE  Latest(WordFor(s), Len(memory[WordFor(s)]), SlotOf(s)) = s - Size
  <1>1. /\ TypeOK /\ IInv /\ WordInv /\ MemoryTypeOK /\ cursor \in Int
        /\ Size \in Nat \ {0} /\ s - Size \in Int
    BY Parts, SizeAssumption
  <1>2. Len(memory[WordFor(s)]) \in DOMAIN memory[WordFor(s)]
    BY <1>1, Names, MessageType
  <1>3. PICK l \in Int : /\ l = Latest(WordFor(s), Len(memory[WordFor(s)]), SlotOf(s))
                         /\ SlotOf(l) = SlotOf(s) /\ IsPublished(l) /\ l <= cursor
    BY <1>2, WordMessage
  <1>4. IsPublished(s - Size)
    <2>1. s - Size <= cursor /\ ~(cursor < s - Size + Size)
      BY <1>1
    <2>2. QED
      BY <1>1, <2>1, NotYetPublished
  <1>5. SlotOf(s - Size) = SlotOf(s) /\ WordFor(s - Size) = WordFor(s)
    BY OneLapBack DEF WordFor
  <1>6. s - Size \in -Size .. cursor
    BY <1>1
  <1>7. Shows(Len(memory[WordFor(s)]), s - Size)
    BY <1>1, <1>4, <1>5, <1>6 DEF WordInv
  <1>8. l >= s - Size
    BY <1>3, <1>5, <1>7 DEF Shows
  <1>9. l < s + Size /\ l # s
    BY <1>1, <1>3
  <1>10. QED
    BY <1>3, <1>8, <1>9, NextInLap

\* What the new message says of a slot of its word.
LEMMA FlipLatest ==
  ASSUME OrderedIInv, NEW u \in Int, NEW last \in Int, NEW x, NEW n, NEW m,
         FlipOf(u, last, x, n, m), NEW h \in Nat, h = n + 1,
         NEW i \in SlotsOf(WordOf(SlotOf(u)))
  PROVE  /\ n \in Nat \ {0}
         /\ \E l \in Int : \E k \in Int :
              /\ l = Latest(x, n, i) /\ k = Latest(x, h, i)'
              /\ \/ k = l /\ bits'[i] = bits[i] /\ i \notin Window(u, last)
                 \/ \E s \in u .. last :
                      i = SlotOf(s) /\ l = s - Size /\ k = s /\ bits'[i] = 1 - bits[i]
  <1>1. /\ TypeOK /\ WordInv /\ MemoryTypeOK /\ Size \in Nat \ {0}
        /\ x \in AllLocations /\ x = WordFor(u)
        /\ WordOf(SlotOf(u)) \in Words /\ x = WordAt(WordOf(SlotOf(u)))
    BY Parts, SizeAssumption, Names, WordsOfSlots DEF FlipOf, WordFor
  <1>2. n \in Nat \ {0} /\ n = Len(memory[x]) /\ DOMAIN memory[x] = 1 .. n
    BY <1>1, MessageType DEF FlipOf
  <1>3. i \in Slots /\ bits[i] \in {0, 1}
    BY <1>1, WordsOfSlots DEF TypeOK
  <1>4. memory[x][n].value[i] = bits[i]
    <2>1. PICK w \in Words : w = WordOf(SlotOf(u))
      BY <1>1
    <2>2. Newest(WordAt(w)).value = [k \in SlotsOf(w) |-> bits[k]] /\ i \in SlotsOf(w)
      BY <1>1, <2>1 DEF WordInv
    <2>3. Newest(WordAt(w)) = memory[x][n]
      BY <1>1, <1>2, <2>1 DEF Newest
    <2>4. QED
      BY <2>2, <2>3
  <1>5. /\ memory'[x][h].value[i] = bits'[i]
        /\ \A k \in 1 .. n : memory'[x][k] = memory[x][k]
    BY <1>2 DEF FlipOf
  <1>6. PICK l \in Int : l = Latest(x, n, i)
    BY <1>2, <1>3, LatestFacts
  <1>7. /\ bits'[i] = bits[i] => Latest(x, h, i)' = l
        /\ bits'[i] # bits[i] => Latest(x, h, i)' = l + Size
    BY <1>2, <1>3, <1>4, <1>5, <1>6, NewLatest
  <1>8. CASE i \notin Window(u, last)
    <2>1. bits'[i] = bits[i]
      BY <1>3, <1>8 DEF FlipOf
    <2>2. QED
      BY <1>2, <1>6, <1>7, <1>8, <2>1
  <1>9. CASE i \in Window(u, last)
    <2>1. PICK s \in u .. last : i = SlotOf(s)
      BY <1>9 DEF Window
    <2>2. bits'[i] = 1 - bits[i]
      BY <1>3, <1>9 DEF FlipOf
    <2>3. bits'[i] # bits[i]
      BY <1>3, <2>2
    <2>4. s \in Nat /\ s <= cursor /\ cursor < s + Size /\ ~IsPublished(s)
      BY DEF FlipOf
    <2>5. WordFor(s) = x
      BY <1>1, FlipWord DEF FlipOf
    <2>6. l = s - Size
      BY <1>2, <1>6, <2>1, <2>4, <2>5, LapBefore
    <2>7. Latest(x, h, i)' = s
      BY <1>1, <1>7, <2>3, <2>4, <2>6
    <2>8. QED
      BY <1>2, <1>6, <2>1, <2>2, <2>4, <2>6, <2>7
  <1>10. QED
    BY <1>8, <1>9

LEMMA FlipShows ==
  ASSUME OrderedIInv, MemoryTypeOK', NEW u \in Int, NEW last \in Int, NEW x, NEW n, NEW m,
         FlipOf(u, last, x, n, m)
  PROVE  /\ \A s \in -Size .. cursor : IsPublished(s)' => Shows(Len(memory[WordFor(s)]), s)'
         /\ WordsShow
  <1>1. /\ TypeOK /\ WordInv /\ MemoryTypeOK /\ Size \in Nat \ {0} /\ cursor \in Int
        /\ x \in AllLocations /\ x = WordFor(u)
    BY Parts, SizeAssumption, Names DEF FlipOf
  <1>2. n \in Nat \ {0} /\ n = Len(memory[x]) /\ DOMAIN memory[x] = 1 .. n
    BY <1>1, MessageType DEF FlipOf
  <1>3. PICK h \in Nat : h = n + 1
    BY <1>2
  <1>4. Len(memory'[x]) = h /\ DOMAIN memory'[x] = 1 .. h
    <2>1. Len(memory'[x]) = h
      BY <1>3 DEF FlipOf
    <2>2. PICK messages : memory'[x] \in Seq(messages)
      BY <1>1 DEF MemoryTypeOK
    <2>3. QED
      BY <2>1, <2>2, LenProperties
  <1>5. ASSUME NEW s \in Int, s \notin u .. last
        PROVE  IsPublished(s)' <=> IsPublished(s)
    BY <1>5 DEF FlipOf
  <1>6. ASSUME NEW s \in Int, -Size <= s, s <= cursor, IsPublished(s)', WordFor(s) = x
        PROVE  Shows(h, s)'
    <2>1. PICK i : i = SlotOf(s) /\ i \in SlotsOf(WordOf(SlotOf(u)))
      <3>1. WordOf(SlotOf(s)) = WordOf(SlotOf(u))
        BY <1>1, <1>6, WordsOfSlots, LocationNames DEF WordFor
      <3>2. QED
        BY <3>1, WordsOfSlots
    <2>2. PICK l \in Int, k \in Int :
            /\ l = Latest(x, n, i) /\ k = Latest(x, h, i)'
            /\ \/ k = l /\ bits'[i] = bits[i] /\ i \notin Window(u, last)
               \/ \E r \in u .. last :
                    i = SlotOf(r) /\ l = r - Size /\ k = r /\ bits'[i] = 1 - bits[i]
      BY <1>3, <2>1, FlipLatest
    <2>3. CASE k = l /\ i \notin Window(u, last)
      <3>1. s \notin u .. last
        BY <2>1, <2>3 DEF Window
      <3>2. IsPublished(s) /\ s \in -Size .. cursor
        BY <1>1, <1>5, <1>6, <3>1
      <3>3. Shows(Len(memory[WordFor(s)]), s)
        BY <1>1, <3>2 DEF WordInv
      <3>4. l >= s
        BY <1>2, <1>6, <2>1, <2>2, <3>3 DEF Shows
      <3>5. QED
        BY <1>6, <2>1, <2>2, <2>3, <3>4 DEF Shows
    <2>4. CASE \E r \in u .. last : i = SlotOf(r) /\ k = r
      <3>1. PICK r \in u .. last : i = SlotOf(r) /\ k = r
        BY <2>4
      <3>2. r \in Nat /\ cursor < r + Size
        BY DEF FlipOf
      <3>3. r < s => s - r < Size
        BY <1>1, <1>6, <3>2
      <3>4. ~(r < s)
        BY <2>1, <3>1, <3>2, <3>3, DistinctSlots
      <3>5. k >= s
        BY <3>1, <3>2, <3>4
      <3>6. QED
        BY <1>6, <2>1, <2>2, <3>5 DEF Shows
    <2>5. QED
      BY <2>2, <2>3, <2>4
  <1>7. \A s \in u .. last : WordFor(s) = x
    BY <1>1, FlipWord DEF FlipOf
  <1>8. ASSUME NEW s \in -Size .. cursor, IsPublished(s)'
        PROVE  \E k : k = Len(memory'[WordFor(s)]) /\ Shows(k, s)'
    <2>1. s \in Int /\ -Size <= s /\ s <= cursor
      BY <1>1
    <2>2. CASE WordFor(s) = x
      BY <1>4, <1>6, <1>8, <2>1, <2>2
    <2>3. CASE WordFor(s) # x
      <3>1. IsPublished(s)
        BY <1>5, <1>7, <1>8, <2>1, <2>3
      <3>2. memory'[WordFor(s)] = memory[WordFor(s)]
        BY <2>1, <2>3, Names DEF FlipOf
      <3>3. Shows(Len(memory[WordFor(s)]), s)
        BY <1>1, <3>1 DEF WordInv
      <3>4. PICK k : k = Len(memory[WordFor(s)]) /\ k = Len(memory'[WordFor(s)])
        BY <3>2
      <3>5. Latest(WordFor(s), k, SlotOf(s))' = Latest(WordFor(s), k, SlotOf(s))
        BY <3>2, SameLatest DEF WordFor
      <3>6. QED
        BY <3>3, <3>4, <3>5 DEF Shows
    <2>4. QED
      BY <2>2, <2>3
  <1>9. \A s \in -Size .. cursor : IsPublished(s)' => Shows(Len(memory[WordFor(s)]), s)'
    BY <1>8 DEF Shows
  <1>10. WordsShow
    <2> SUFFICES ASSUME NEW s \in Int, -Size <= s, IsPublished(s),
                        NEW j \in DOMAIN memory'[WordFor(s)]
                 PROVE  \/ j \in DOMAIN memory[WordFor(s)] /\ (Shows(j, s) => Shows(j, s)')
                        \/ Shows(j, s)'
      BY DEF WordsShow
    <2>1. CASE WordFor(s) # x
      <3>1. memory'[WordFor(s)] = memory[WordFor(s)]
        BY <2>1, Names DEF FlipOf
      <3>2. QED
        BY <3>1, SameLatest DEF Shows
    <2>2. CASE WordFor(s) = x /\ j \in 1 .. n
      <3>1. \A k \in 1 .. j : memory'[x][k] = memory[x][k]
        BY <1>2, <2>2 DEF FlipOf
      <3>2. j \in Nat
        BY <2>2
      <3>3. Latest(x, j, SlotOf(s))' = Latest(x, j, SlotOf(s))
        BY <3>1, <3>2, OldLatest DEF SlotOf
      <3>4. QED
        BY <1>2, <2>2, <3>3 DEF Shows
    <2>3. CASE WordFor(s) = x /\ j = h
      <3>1. s \notin u .. last /\ s <= cursor
        BY DEF FlipOf, IsPublished
      <3>2. IsPublished(s)'
        BY <1>5, <3>1
      <3>3. QED
        BY <1>6, <2>3, <3>1, <3>2
    <2>4. QED
      BY <1>2, <1>3, <1>4, <2>1, <2>2, <2>3
  <1>11. QED
    BY <1>9, <1>10

\* What the new message says is so.
LEMMA NewFlipMessage ==
  ASSUME OrderedIInv, NEW u \in Int, NEW last \in Int, NEW x, NEW n, NEW m,
         FlipOf(u, last, x, n, m), NEW h \in Nat, h = n + 1,
         NEW i \in SlotsOf(WordOf(SlotOf(u)))
  PROVE  \E k \in Int :
           /\ k = Latest(x, h, i)'
           /\ m.value[i] \in {0, 1} /\ m.value[i] = Parity(k) /\ IsPublished(k)'
           /\ k >= 0 => m.view.done[ProducerThread(writer[k])] >= k
  <1>1. /\ TypeOK /\ OrderTypeOK /\ WordInv /\ WriterInv /\ MemoryTypeOK /\ Size \in Nat \ {0}
        /\ x \in AllLocations /\ x = WordFor(u)
    BY Parts, SizeAssumption, Names DEF FlipOf
  <1>2. PICK w \in Words : w = WordOf(SlotOf(u)) /\ x = WordAt(w)
    BY <1>1, WordsOfSlots DEF WordFor
  <1>3. n \in Nat \ {0} /\ n = Len(memory[x]) /\ n \in DOMAIN memory[x]
    BY <1>1, MessageType DEF FlipOf
  <1>4. i \in SlotsOf(w) /\ i \in Slots /\ bits[i] \in {0, 1}
    BY <1>1, <1>2, WordsOfSlots DEF TypeOK
  <1>5. m.value[i] = bits'[i]
    BY DEF FlipOf
  <1>6. PICK l \in Int, k \in Int :
          /\ l = Latest(x, n, i) /\ k = Latest(x, h, i)'
          /\ \/ k = l /\ bits'[i] = bits[i] /\ i \notin Window(u, last)
             \/ \E r \in u .. last :
                  i = SlotOf(r) /\ l = r - Size /\ k = r /\ bits'[i] = 1 - bits[i]
    BY FlipLatest
  <1>7. PICK newest \in View : newest = memory[x][n].view
    BY <1>1, <1>3, MessageType
  <1>8. /\ memory[x][n].value[i] = Parity(l)
        /\ IsPublished(l)
        /\ l >= 0 => newest.done[ProducerThread(writer[l])] >= l
    <2>1. n \in DOMAIN memory[WordAt(w)] /\ l = Latest(WordAt(w), n, i)
      BY <1>2, <1>3, <1>6
    <2>2. /\ memory[WordAt(w)][n].value[i] = Parity(l)
          /\ IsPublished(l)
          /\ l >= 0 => memory[WordAt(w)][n].view.done[ProducerThread(writer[l])] >= l
      BY <1>1, <1>4, <2>1 DEF WordInv
    <2>3. QED
      BY <1>2, <1>7, <2>2
  <1>9. bits[i] = Parity(l)
    <2>1. Newest(WordAt(w)).value = [j \in SlotsOf(w) |-> bits[j]]
      BY <1>1 DEF WordInv
    <2>2. Newest(WordAt(w)) = memory[x][n]
      BY <1>2, <1>3 DEF Newest
    <2>3. QED
      BY <1>4, <1>8, <2>1, <2>2
  <1>10. CASE k = l /\ bits'[i] = bits[i] /\ i \notin Window(u, last)
    <2>1. IsPublished(k)'
      <3>1. k \notin u .. last
        BY <1>8, <1>10 DEF FlipOf
      <3>2. QED
        BY <1>8, <1>10, <3>1 DEF FlipOf
    <2>2. k >= 0 => m.view.done[ProducerThread(writer[k])] >= k
      <3> SUFFICES ASSUME k >= 0
                   PROVE  m.view.done[ProducerThread(writer[k])] >= k
        OBVIOUS
      <3>1. k \in 0 .. cursor /\ IsPublished(k)
        BY <1>1, <1>8, <1>10 DEF IsPublished, TypeOK
      <3>2. PICK t \in AllThreads : t = ProducerThread(writer[k])
        BY <1>1, <3>1, Names, WritersAssumption DEF WriterInv, OrderTypeOK
      <3>3. newest.done[t] >= k
        BY <1>8, <1>10, <3>2
      <3>4. PICK own \in View : own = m.view
        BY DEF FlipOf
      <3>5. Below(newest, own)
        BY <1>3, <1>7, <3>4 DEF FlipOf, Newest
      <3>6. newest.done[t] <= own.done[t] /\ newest.done[t] \in Int /\ own.done[t] \in Int
        BY <3>5 DEF Below, Precedes, View
      <3>7. QED
        BY <3>2, <3>3, <3>4, <3>6
    <2>3. QED
      BY <1>4, <1>5, <1>6, <1>9, <1>10, <2>1, <2>2
  <1>11. CASE \E r \in u .. last :
                i = SlotOf(r) /\ l = r - Size /\ k = r /\ bits'[i] = 1 - bits[i]
    <2>1. PICK r \in u .. last :
            i = SlotOf(r) /\ l = r - Size /\ k = r /\ bits'[i] = 1 - bits[i]
      BY <1>11
    <2>2. IsPublished(r)' /\ m.view.done[ProducerThread(writer[r])] >= r
      BY DEF FlipOf
    <2>3. Parity(r) \in {0, 1} /\ Parity(r - Size) = 1 - Parity(r)
      BY ParityFacts
    <2>4. bits'[i] = Parity(r)
      BY <1>9, <2>1, <2>3
    <2>5. QED
      BY <1>5, <1>6, <2>1, <2>2, <2>3, <2>4
  <1>12. QED
    BY <1>6, <1>10, <1>11

LEMMA FlipWordInv ==
  ASSUME OrderedIInv, MemoryTypeOK', NEW u \in Int, NEW last \in Int, NEW x, NEW n, NEW m,
         FlipOf(u, last, x, n, m)
  PROVE  WordInv'
  <1> DEFINE Told(w, j, i) ==
               \E l \in Int :
                 /\ l = Latest(WordAt(w), j, i)'
                 /\ memory'[WordAt(w)][j].value \in [SlotsOf(w) -> {0, 1}]
                 /\ memory'[WordAt(w)][j].value[i] = Parity(l)
                 /\ IsPublished(l)'
                 /\ l >= 0 => memory'[WordAt(w)][j].view.done[ProducerThread(writer[l])] >= l
  <1> HIDE DEF Told
  <1>1. /\ TypeOK /\ OrderTypeOK /\ WordInv /\ WriterInv /\ MemoryTypeOK
        /\ x \in AllLocations /\ x = WordFor(u) /\ cursor' = cursor /\ UNCHANGED writer
    BY Parts, Names DEF FlipOf
  <1>2. PICK v \in Words : v = WordOf(SlotOf(u)) /\ x = WordAt(v)
    BY <1>1, WordsOfSlots DEF WordFor
  <1>3. n \in Nat \ {0} /\ n = Len(memory[x]) /\ DOMAIN memory[x] = 1 .. n
    BY <1>1, MessageType DEF FlipOf
  <1>4. PICK h \in Nat : h = n + 1
    BY <1>3
  <1>5. Len(memory'[x]) = h /\ DOMAIN memory'[x] = 1 .. h /\ memory'[x][h] = m
    <2>1. Len(memory'[x]) = h /\ memory'[x][h] = m
      BY <1>4 DEF FlipOf
    <2>2. PICK messages : memory'[x] \in Seq(messages)
      BY <1>1 DEF MemoryTypeOK
    <2>3. QED
      BY <2>1, <2>2, LenProperties
  <1>6. ASSUME NEW l \in Int, IsPublished(l)
        PROVE  IsPublished(l)'
    BY <1>6 DEF FlipOf
  <1>7. ASSUME NEW w \in Words
        PROVE  memory'[WordAt(w)][Len(memory'[WordAt(w)])].value = [i \in SlotsOf(w) |-> bits'[i]]
    <2>1. CASE w = v
      BY <1>2, <1>5, <2>1 DEF FlipOf
    <2>2. CASE w # v
      <3>1. memory'[WordAt(w)] = memory[WordAt(w)]
        BY <1>2, <2>2, LocationNames DEF FlipOf
      <3>2. \A i \in SlotsOf(w) : bits'[i] = bits[i]
        <4>1. \A i \in Window(u, last) : i \in SlotsOf(v)
          BY <1>2, FlipWord DEF FlipOf
        <4>2. \A i \in SlotsOf(w) : i \in Slots /\ i \notin Window(u, last)
          BY <2>2, <4>1, WordsOfSlots
        <4>3. QED
          BY <4>2 DEF FlipOf
      <3>3. memory[WordAt(w)][Len(memory[WordAt(w)])].value = [i \in SlotsOf(w) |-> bits[i]]
        BY <1>1 DEF WordInv, Newest
      <3>4. [i \in SlotsOf(w) |-> bits'[i]] = [i \in SlotsOf(w) |-> bits[i]]
        BY <3>2
      <3>5. QED
        BY <3>1, <3>3, <3>4
    <2>3. QED
      BY <2>1, <2>2
  <1>8. ASSUME NEW w \in Words, NEW j \in DOMAIN memory[WordAt(w)], NEW i \in SlotsOf(w),
               \A k \in 1 .. j : memory'[WordAt(w)][k] = memory[WordAt(w)][k]
        PROVE  Told(w, j, i)
    <2>1. j \in Nat \ {0}
      BY <1>1, Names, MessageType
    <2>2. i \in Slots /\ memory'[WordAt(w)][j] = memory[WordAt(w)][j]
      BY <1>8, <2>1, WordsOfSlots
    <2>3. PICK l \in Int : l = Latest(WordAt(w), j, i) /\ l = Latest(WordAt(w), j, i)'
      BY <1>8, <2>1, <2>2, LatestFacts, OldLatest
    <2>4. /\ memory[WordAt(w)][j].value \in [SlotsOf(w) -> {0, 1}]
          /\ memory[WordAt(w)][j].value[i] = Parity(l)
          /\ IsPublished(l)
          /\ l >= 0 => memory[WordAt(w)][j].view.done[ProducerThread(writer[l])] >= l
      BY <1>1, <2>3, MessageOfWord
    <2>5. IsPublished(l)'
      BY <1>6, <2>4
    <2>6. QED
      BY <2>2, <2>3, <2>4, <2>5 DEF Told
  <1>9. ASSUME NEW w \in Words, NEW j \in DOMAIN memory'[WordAt(w)], NEW i \in SlotsOf(w)
        PROVE  Told(w, j, i)
    <2>1. CASE w # v
      <3>1. memory'[WordAt(w)] = memory[WordAt(w)]
        BY <1>2, <2>1, LocationNames DEF FlipOf
      <3>2. j \in DOMAIN memory[WordAt(w)]
        BY <3>1
      <3>3. QED
        BY <1>8, <3>1, <3>2
    <2>2. CASE w = v /\ j \in 1 .. n
      <3>1. \A k \in 1 .. j : memory'[WordAt(w)][k] = memory[WordAt(w)][k]
        <4>1. \A k \in 1 .. n : memory'[x][k] = memory[x][k]
          BY <1>3 DEF FlipOf
        <4>2. \A k \in 1 .. j : k \in 1 .. n
          BY <1>3, <2>2
        <4>3. QED
          BY <1>2, <2>2, <4>1, <4>2
      <3>2. j \in DOMAIN memory[WordAt(w)]
        BY <1>2, <1>3, <2>2
      <3>3. QED
        BY <1>8, <3>1, <3>2
    <2>3. CASE w = v /\ j = h
      <3>1. i \in SlotsOf(WordOf(SlotOf(u)))
        BY <1>2, <2>3
      <3>2. PICK k \in Int :
              /\ k = Latest(x, h, i)'
              /\ m.value[i] \in {0, 1} /\ m.value[i] = Parity(k) /\ IsPublished(k)'
              /\ k >= 0 => m.view.done[ProducerThread(writer[k])] >= k
        BY <1>4, <3>1, NewFlipMessage
      <3>3. m.value \in [SlotsOf(w) -> {0, 1}]
        <4>1. \A r \in SlotsOf(WordOf(SlotOf(u))) : m.value[r] \in {0, 1}
          BY <1>4, NewFlipMessage
        <4>2. m.value = [r \in SlotsOf(w) |-> m.value[r]]
          BY <1>2, <2>3 DEF FlipOf
        <4>3. QED
          BY <1>2, <2>3, <4>1, <4>2
      <3>4. memory'[WordAt(w)][j] = m
        BY <1>2, <1>5, <2>3
      <3>5. QED
        BY <1>2, <2>3, <3>2, <3>3, <3>4 DEF Told
    <2>4. QED
      <3>1. w = v => j \in 1 .. n \/ j = h
        BY <1>2, <1>3, <1>4, <1>5
      <3>2. QED
        BY <2>1, <2>2, <2>3, <3>1
  <1>10. \A s \in -Size .. cursor' : IsPublished(s)' => Shows(Len(memory[WordFor(s)]), s)'
    BY <1>1, FlipShows
  <1>11. \A w \in Words : \A j \in DOMAIN memory'[WordAt(w)], i \in SlotsOf(w) :
           \E l \in Int :
             /\ l = Latest(WordAt(w), j, i)'
             /\ memory'[WordAt(w)][j].value \in [SlotsOf(w) -> {0, 1}]
             /\ memory'[WordAt(w)][j].value[i] = Parity(l)
             /\ IsPublished(l)'
             /\ l >= 0 => memory'[WordAt(w)][j].view.done[ProducerThread(writer'[l])] >= l
    BY <1>1, <1>9 DEF Told
  <1>12. QED
    BY <1>7, <1>10, <1>11 DEF WordInv, Newest

\* The producer knows the rest of its batch is written, and that its release
\* fence has been after it.
LEMMA PublishWordKnows ==
  ASSUME OrderedIInv, OrderTypeOK', NEW p \in Producers, PublishWord(p), UNCHANGED writer,
         NEW t, t = ProducerThread(p),
         cur'[t].done = cur[t].done, Precedes(acq[t], acq'[t]),
         Lower(p) <= Upper(p) /\ Lower(p) # Upper(p) => rel'[t].done[t] >= Upper(p)
  PROVE  ProducerKnows(p)'
  <1>1. /\ TypeOK /\ IInv /\ OrderTypeOK /\ MemoryTypeOK /\ MemoryTypeOK'
        /\ ProducerKnows(p) /\ t \in AllThreads
    BY Parts, Names DEF ProducerViewInv, OrderTypeOK
  <1>2. /\ ppc[p] = "write"
        /\ UNCHANGED <<claimed_sequence, sequence_clear_of_consumers, rear_unread, rear_lowest,
                       position>>
    BY DEF PublishWord, claimVars
  <1>3. PICK u \in Int, low \in Int, high \in Int :
          u = unpublished[p] /\ low = Lower(p) /\ high = Upper(p) /\ low <= u
    BY <1>1, <1>2, BatchType DEF IInv, ClaimInv, OwnBatch
  <1>4. PICK last \in Int :
          /\ u - 1 <= last /\ last <= high
          /\ last < u => last = high
          /\ Upper(p)' = high /\ unpublished'[p] = last + 1
          /\ last = high => ppc'[p] = "idle"
          /\ last # high => ppc'[p] = "write" /\ Lower(p)' = low
    BY <1>1, <1>3, PublishWordEffect
  <1>5. /\ \A c \in Consumers : Passed(cur[t], c, sequence_clear_of_consumers[p] - Size)'
        /\ \A v \in LastStage' \ rear_unread'[p] : Passed(acq[t], v, rear_lowest[p])'
        /\ \A v \in AllThreads : cur'[t].done[v] >= -1
    <2>1. Precedes(cur[t], cur'[t])
      BY <1>1, SameDone DEF MemoryTypeOK
    <2>2. KeptBounds(p)
      BY DEF KeptBounds
    <2>3. QED
      BY <1>1, <1>2, <2>1, <2>2, BoundsKept
  <1>6. ppc'[p] # "unborn"
    BY <1>4
  <1>7. ASSUME ppc'[p] = "write"
        PROVE  /\ Upper(p)' <= sequence_clear_of_consumers'[p]
               /\ position'[p] > Lower(p)' => cur'[t].done[t] >= position'[p] - 1
               /\ unpublished'[p] > Lower(p)' => rel'[t].done[t] >= Upper(p)'
    <2>1. last # high /\ Lower(p)' = low
      BY <1>4, <1>7
    <2>2. low <= high /\ low # high
      BY <1>3, <1>4, <2>1
    <2>3. Upper(p)' <= sequence_clear_of_consumers'[p]
      BY <1>1, <1>2, <1>3, <1>4 DEF ProducerKnows
    <2>4. position'[p] > Lower(p)' => cur'[t].done[t] >= position'[p] - 1
      BY <1>1, <1>2, <1>3, <2>1 DEF ProducerKnows
    <2>5. rel'[t].done[t] >= Upper(p)'
      BY <1>3, <1>4, <2>2
    <2>6. QED
      BY <2>3, <2>4, <2>5
  <1>8. QED
    BY <1>5, <1>6, <1>7 DEF ProducerKnows

\* The flip, as what it does to the word and its messages.
LEMMA PublishWordFlip ==
  ASSUME OrderedIInv, NEW p \in Producers, PublishWordOrdered(p),
         NEW u \in Int, u = unpublished[p], NEW x, x = WordFor(u)
  PROVE  \E last \in Int : \E m :
           /\ FlipOf(u, last, x, Len(memory[x]), m)
           /\ Lower(p) <= u /\ last <= Upper(p)
  <1>1. /\ TypeOK /\ IInv /\ MemoryTypeOK /\ WriterInv /\ x \in AllLocations
    BY Parts, Names
  <1>2. PICK t \in AllThreads : t = ProducerThread(p)
    BY Names
  <1>3. PICK w : w = WordOf(SlotOf(u))
    OBVIOUS
  <1>4. /\ PublishWord(p) /\ UNCHANGED writer
        /\ \A y \in AllLocations \ {x} : memory'[y] = memory[y]
        /\ Len(memory'[x]) = Len(memory[x]) + 1
        /\ \A i \in DOMAIN memory[x] : memory'[x][i] = memory[x][i]
        /\ \E m : /\ m.value = BitsOf(w)' /\ m.view \in View
                  /\ memory'[x][Len(memory[x]) + 1] = m
                  /\ Below(Newest(x).view, m.view)
                  /\ Lower(p) <= Upper(p) => m.view.done[t] >= Upper(p)
    <2>1. PublishesWord(p, t, x, w)
      BY <1>2, <1>3, PublishWordViews
    <2>2. QED
      BY <2>1 DEF PublishesWord
  <1>5. PICK m :
          /\ m.value = BitsOf(w)' /\ m.view \in View
          /\ memory'[x][Len(memory[x]) + 1] = m
          /\ Below(Newest(x).view, m.view)
          /\ Lower(p) <= Upper(p) => m.view.done[t] >= Upper(p)
    BY <1>4
  <1>6. PICK low \in Int, high \in Int : /\ low = Lower(p) /\ high = Upper(p) /\ low <= u
                                         /\ ppc[p] = "write" /\ position[p] > high
                                         /\ position[p] \in Int
    BY <1>1, <1>4, BatchType DEF PublishWord, IInv, ClaimInv, OwnBatch
  <1>7. PICK last \in Int :
          /\ u - 1 <= last /\ last <= high
          /\ last <= WordEnd(u)
          /\ bits' = [i \in Slots |-> IF i \in Window(u, last) THEN 1 - bits[i] ELSE bits[i]]
          /\ \A s \in u .. last : /\ s \in Nat /\ s <= cursor /\ cursor < s + Size
                                  /\ ~IsPublished(s) /\ IsPublished(s)'
          /\ \A s \in Int : s \notin u .. last => (IsPublished(s)' <=> IsPublished(s))
    BY <1>1, <1>4, <1>6, PublishWordEffect
  <1>8. UNCHANGED cursor
    BY <1>4 DEF PublishWord
  <1>9. ASSUME NEW s \in u .. last
        PROVE  m.view.done[ProducerThread(writer[s])] >= s
    <2>1. s \in low .. position[p] - 1 /\ s <= high /\ low <= high
      BY <1>6, <1>7
    <2>2. writer[s] = p
      BY <1>1, <1>6, <2>1 DEF WriterInv
    <2>3. m.view.done[t] >= high /\ m.view.done[t] \in Int
      BY <1>2, <1>5, <1>6, <2>1 DEF View
    <2>4. QED
      BY <1>2, <2>1, <2>2, <2>3
  <1>10. m.view \in View /\ m.value = [i \in SlotsOf(WordOf(SlotOf(u))) |-> bits'[i]]
    BY <1>3, <1>5 DEF BitsOf
  <1>11. FlipOf(u, last, x, Len(memory[x]), m)
    BY <1>4, <1>5, <1>7, <1>8, <1>9, <1>10 DEF FlipOf
  <1>12. QED
    BY <1>6, <1>7, <1>11

\* Consumers are shown more, and nothing that is not so.
LEMMA PublishWordOrderedInv ==
  ASSUME OrderedIInv, NEW p \in Producers, PublishWordOrdered(p)
  PROVE  OrderedIInv'
  <1>1. /\ TypeOK /\ IInv /\ OrderTypeOK /\ MemoryTypeOK /\ AcquireInv /\ ShutdownMessageInv
        /\ ProducerViewInv /\ WriterInv /\ ConsumersTypeOK /\ CursorMessageInv
        /\ ConsumerViewInv
    BY Parts
  <1>2. PICK t \in AllThreads : t = ProducerThread(p)
    BY Names
  <1>3. PICK u \in Int, low \in Int, high \in Int :
          u = unpublished[p] /\ low = Lower(p) /\ high = Upper(p)
    BY <1>1, BatchType
  <1>4. PICK x \in AllLocations : x = WordFor(u)
    BY Names
  <1>5. /\ PublishWord(p) /\ UNCHANGED writer
        /\ MemoryTypeOK' /\ AcquireInv'
        /\ cur'[t].done = cur[t].done /\ Precedes(acq[t], acq'[t])
        /\ \A y \in AllLocations \ {x} : cur'[t].loc[y] = cur[t].loc[y]
        /\ \A v \in AllThreads \ {t} : /\ cur'[v] = cur[v]
                                       /\ acq'[v] = acq[v]
                                       /\ rel'[v] = rel[v]
        /\ \A y \in AllLocations \ {x} : memory'[y] = memory[y]
        /\ Lower(p) <= Upper(p) /\ Lower(p) # Upper(p) => rel'[t].done[t] >= Upper(p)
    <2>1. PICK w : w = WordOf(SlotOf(u))
      OBVIOUS
    <2>2. PublishesWord(p, t, x, w)
      BY <1>2, <1>3, <1>4, <2>1, PublishWordViews
    <2>3. QED
      BY <2>2 DEF PublishesWord
  <1>6. TypeOK' /\ IInv'
    <2>1. [Next]_vars
      BY <1>5 DEF Next, ProducerStep
    <2>2. QED
      BY <1>1, <2>1, NextType, NextInv
  <1>7. PICK last \in Int : \E m : FlipOf(u, last, x, Len(memory[x]), m)
                                   /\ low <= u /\ last <= high
    BY <1>3, <1>4, PublishWordFlip
  <1>8. PICK m : FlipOf(u, last, x, Len(memory[x]), m) /\ low <= u /\ last <= high
    BY <1>7
  <1>9. WordInv' /\ WordsShow
    BY <1>5, <1>8, FlipWordInv, FlipShows
  <1>10. UNCHANGED <<consumerVars, shutdown_at_sequence, scanned, cursor, claimed_sequence,
                     sequence_clear_of_consumers, rear_unread, rear_lowest, position>>
    BY <1>5 DEF PublishWord, claimVars
  <1>11. /\ ppc[p] = "write" /\ ppc'[p] \in {"write", "idle"}
         /\ ppc'[p] = "write" => Lower(p)' = low
         /\ \A q \in Producers : q # p =>
              /\ ppc'[q] = ppc[q] /\ request'[q] = request[q]
              /\ unpublished'[q] = unpublished[q]
              /\ Lower(q)' = Lower(q)
    <2>1. PICK final \in Int :
            /\ final = high => ppc'[p] = "idle" /\ request'[p] = NoRequest
            /\ final # high => /\ ppc'[p] = "write" /\ request'[p] = request[p]
                               /\ Lower(p)' = low
            /\ \A q \in Producers : q # p =>
                 /\ ppc'[q] = ppc[q] /\ request'[q] = request[q]
                 /\ unpublished'[q] = unpublished[q]
                 /\ Upper(q)' = Upper(q) /\ Lower(q)' = Lower(q)
                 /\ Pending(q)' = Pending(q)
      BY <1>1, <1>3, <1>5, PublishWordEffect
    <2>2. ppc[p] = "write"
      BY <1>5 DEF PublishWord
    <2>3. QED
      BY <2>1, <2>2
  <1>12. /\ x # ProducerCursor /\ x # ShutdownWord /\ x # HandleCounter
         /\ \A c \in Consumers : x # ConsumerCursor(c)
    BY <1>4, WordsOfSlots, LocationNames DEF WordFor
  <1>13. /\ memory'[ProducerCursor] = memory[ProducerCursor]
         /\ memory'[ShutdownWord] = memory[ShutdownWord]
         /\ memory'[HandleCounter] = memory[HandleCounter]
         /\ \A c \in Consumers : memory'[ConsumerCursor(c)] = memory[ConsumerCursor(c)]
    BY <1>5, <1>12, Names
  <1>14. \A c \in Consumers : /\ cur'[ConsumerThread(c)] = cur[ConsumerThread(c)]
                              /\ acq'[ConsumerThread(c)] = acq[ConsumerThread(c)]
    BY <1>2, <1>5, Names
  <1>15. OrderTypeOK' /\ ConsumersTypeOK' /\ cursor' \in Int
    BY <1>1, <1>5, <1>6 DEF OrderTypeOK, TypeOK
  <1>16. CursorMessageInv' /\ ConsumerViewInv'
    <2>1. PICK k \in Int : ConsumerInv(k) /\ \A s \in 0 .. k : IsPublished(s)
      BY <1>1, Gapless
    <2>2. PICK next \in Int : next = k + 1 /\ k < next
      OBVIOUS
    <2>3. WritesOnly(next)
      BY <1>5 DEF WritesOnly
    <2>4. \A d \in Consumers : cpc'[d] \in {"handle", "guard"} => cpc'[d] = cpc[d]
      BY <1>10 DEF consumerVars
    <2>5. UNCHANGED <<consumer_cursor, consumer_sequence, available, unread, lowest>>
      BY <1>10 DEF consumerVars
    <2>6. QED
      BY <1>1, <1>13, <1>14, <2>1, <2>2, <2>3, <2>4, <2>5, ConsumersAside
  <1>17. ShutdownMessageInv'
    <2>1. NONE' = NONE
      BY DEF NONE
    <2>2. QED
      BY <1>1, <1>10, <1>13, <2>1 DEF ShutdownMessageInv
  <1>18. ConsumerOrderInv'
    BY <1>5, <1>15, <1>16, <1>17 DEF ConsumerOrderInv
  <1>19. ScanInv'
    <2>1. ASSUME NEW d \in Consumers
          PROVE  ScanKnows(d)'
      <3>1. /\ cpc'[d] = cpc[d] /\ available'[d] = available[d]
            /\ consumer_cursor'[d] = consumer_cursor[d] /\ scanned'[d] = scanned[d]
        BY <1>10 DEF consumerVars
      <3>2. \A e \in DOMAIN writer' : e \in Int /\
              (e <= Scanned(d) => e \in DOMAIN writer /\ writer'[e] = writer[e])
        BY <1>5, WriterDomain
      <3>3. QED
        BY <1>5, <1>9, <1>14, <3>1, <3>2, ScanAside
    <2>2. QED
      BY <2>1, ScanOfAll
  <1>20. ProducerViewInv'
    <2>1. ASSUME NEW q \in Producers \ {p}
          PROVE  ProducerKnows(q)'
      <3>1. KeptBounds(q)
        BY <1>5 DEF KeptBounds
      <3>2. ProducerThread(q) \in AllThreads \ {t}
        BY <1>2, Names
      <3>3. /\ cur'[ProducerThread(q)] = cur[ProducerThread(q)]
            /\ acq'[ProducerThread(q)] = acq[ProducerThread(q)]
            /\ rel'[ProducerThread(q)] = rel[ProducerThread(q)]
        BY <1>5, <3>2
      <3>4. ppc'[q] = ppc[q] /\ request'[q] = request[q] /\ unpublished'[q] = unpublished[q]
        BY <1>11
      <3>5. QED
        BY <1>5, <1>10, <3>1, <3>3, <3>4, ProducerAside
    <2>2. ProducerKnows(p)'
      BY <1>2, <1>5, <1>15, PublishWordKnows
    <2>3. QED
      BY <2>1, <2>2 DEF ProducerViewInv
  <1>21. WriterInv'
    <2>1. ASSUME NEW s \in 0 .. cursor', IsPublished(s)'
          PROVE  s \in DOMAIN writer'
      <3>1. CASE s \in u .. last
        <4>1. s \in low .. high
          BY <1>8, <3>1
        <4>2. position[p] > high /\ position[p] \in Int
          BY <1>1, <1>3, <1>5, BatchType DEF PublishWord
        <4>3. s \in low .. position[p] - 1
          BY <4>1, <4>2
        <4>4. QED
          BY <1>1, <1>3, <1>5, <1>11, <4>3 DEF WriterInv
      <3>2. CASE s \notin u .. last
        <4>1. IsPublished(s) /\ s \in 0 .. cursor
          BY <1>8, <1>10, <2>1, <3>2 DEF FlipOf
        <4>2. QED
          BY <1>1, <1>5, <4>1 DEF WriterInv
      <3>3. QED
        BY <3>1, <3>2
    <2>2. ASSUME NEW q \in Producers, ppc'[q] = "write",
                 NEW s \in Lower(q)' .. position'[q] - 1
          PROVE  s \in DOMAIN writer' /\ writer'[s] = q
      <3>1. ppc[q] = "write" /\ Lower(q)' = Lower(q) /\ position'[q] = position[q]
        BY <1>3, <1>10, <1>11, <2>2
      <3>2. s \in Lower(q) .. position[q] - 1
        BY <2>2, <3>1
      <3>3. QED
        BY <1>1, <1>5, <3>1, <3>2 DEF WriterInv
    <2>3. QED
      BY <2>1, <2>2 DEF WriterInv
  <1>22. HandleInv'
    <2>1. ASSUME NEW q \in Producers
          PROVE  cur[ProducerThread(q)].loc[ProducerCursor]
                   <= cur'[ProducerThread(q)].loc[ProducerCursor]
      <3>1. cur'[ProducerThread(q)].loc[ProducerCursor] = cur[ProducerThread(q)].loc[ProducerCursor]
        BY <1>2, <1>5, <1>12, Names
      <3>2. cur[ProducerThread(q)].loc[ProducerCursor] \in Nat
        BY <1>1, Names DEF MemoryTypeOK, View
      <3>3. QED
        BY <3>1, <3>2
    <2>2. Alive' = Alive
      BY <1>11 DEF Alive
    <2>3. QED
      BY <1>5, <1>10, <1>13, <2>1, <2>2, HandleKept
  <1>23. QED
    BY <1>6, <1>9, <1>18, <1>19, <1>20, <1>21, <1>22
       DEF OrderedIInv, OrderedTypeOK, ConsumerOrderInv

-----------------------------------------------------------------------------

(***************************************************************************)
(* The invariant holds initially and is preserved.                         *)
(***************************************************************************)

\* A word none of whose slots has been published.
Ones(w) == [i \in SlotsOf(w) |-> 1]

\* The messages the words begin with: the round before the first, for all slots.
LEMMA InitWords ==
  ASSUME TypeOK, IInv, cursor = NONE, bits = [i \in Slots |-> 1],
         \A w \in Words :
           memory[WordAt(w)] = <<[value |-> Ones(w), view |-> FirstView]>>
  PROVE  /\ WordInv
         /\ \A s \in -Size .. -1 : Shows(1, s)
  <1>1. \A i \in Slots : i - Size \in Int /\ i - Size < 0 /\ i - Size \in cursor - Size + 1 .. cursor
    BY SizeAssumption DEF Slots, NONE
  <1>2. \A w \in Words : /\ Len(memory[WordAt(w)]) = 1
                         /\ DOMAIN memory[WordAt(w)] = {1}
                         /\ memory[WordAt(w)][1].value = Ones(w)
    <2>1. TAKE w \in Words
    <2>2. PICK m : m = [value |-> Ones(w), view |-> FirstView]
      OBVIOUS
    <2>3. memory[WordAt(w)] = <<m>>
      BY <2>2
    <2>4. Len(<<m>>) = 1 /\ DOMAIN <<m>> = {1} /\ <<m>>[1] = m
      OBVIOUS
    <2>5. QED
      BY <2>2, <2>3, <2>4
  <1>3. ASSUME NEW w \in Words, NEW i \in SlotsOf(w)
        PROVE  /\ Latest(WordAt(w), 1, i) = i - Size
               /\ IsPublished(i - Size) /\ Parity(i - Size) = 1
    <2>1. i \in Slots
      BY WordsOfSlots
    <2>2. Latest(WordAt(w), 1, i) = i - Size
      BY <2>1, LatestFacts
    <2>3. IsPublished(i - Size)
      BY <1>1, <2>1, BeforeTheFirst
    <2>4. Available(i - Size)
      BY <1>1, <2>1, <2>3 DEF IInv, BitsInv
    <2>5. SlotOf(i - Size) = i
      <3>1. SlotOf(Latest(WordAt(w), 1, i)) = i
        BY <2>1, LatestFacts
      <3>2. QED
        BY <2>2, <3>1
    <2>6. QED
      BY <2>1, <2>2, <2>3, <2>4, <2>5 DEF Available
  <1>4. ASSUME NEW w \in Words
        PROVE  Newest(WordAt(w)).value = [i \in SlotsOf(w) |-> bits[i]]
    <2>1. Newest(WordAt(w)).value = Ones(w)
      BY <1>2 DEF Newest
    <2>2. \A i \in SlotsOf(w) : bits[i] = 1
      BY WordsOfSlots
    <2>3. QED
      BY <2>1, <2>2 DEF Ones
  <1>5. ASSUME NEW w \in Words, NEW j \in DOMAIN memory[WordAt(w)], NEW i \in SlotsOf(w),
               NEW s, s = Latest(WordAt(w), j, i)
        PROVE  /\ memory[WordAt(w)][j].value \in [SlotsOf(w) -> {0, 1}]
               /\ memory[WordAt(w)][j].value[i] = Parity(s)
               /\ IsPublished(s)
               /\ s >= 0 => memory[WordAt(w)][j].view.done[ProducerThread(writer[s])] >= s
    <2>1. j = 1
      BY <1>2, <1>5
    <2>2. memory[WordAt(w)][j].value = Ones(w)
      BY <1>2, <2>1
    <2>3. s = i - Size /\ IsPublished(s) /\ Parity(s) = 1
      BY <1>3, <1>5, <2>1
    <2>4. s \in Int /\ s < 0
      BY <1>1, <2>3, WordsOfSlots
    <2>5. Ones(w) \in [SlotsOf(w) -> {0, 1}] /\ Ones(w)[i] = 1
      BY DEF Ones
    <2>6. QED
      BY <2>2, <2>3, <2>4, <2>5
  <1>6. ASSUME NEW s \in -Size .. -1
        PROVE  Shows(1, s)
    <2>1. s \in Int /\ SlotOf(s) \in Slots
      BY SizeAssumption, WordsOfSlots
    <2>2. PICK l \in Int : l = Latest(WordFor(s), 1, SlotOf(s))
      BY <2>1, LatestFacts
    <2>3. /\ SlotOf(l) = SlotOf(s) /\ l = SlotOf(s) - Size
      BY <2>1, <2>2, LatestFacts
    <2>4. -Size <= l /\ l < 0
      BY <2>1, <2>3, SizeAssumption DEF Slots
    <2>5. s - Size <= l /\ l < s + Size
      BY <2>4, SizeAssumption
    <2>6. l = s - Size \/ l = s
      BY <2>1, <2>3, <2>5, NextInLap
    <2>7. l = s
      BY <2>1, <2>4, <2>6, SizeAssumption
    <2>8. QED
      BY <2>1, <2>2, <2>7 DEF Shows
  <1>7. ASSUME NEW s \in -Size .. cursor
        PROVE  Shows(Len(memory[WordFor(s)]), s)
    <2>1. s \in -Size .. -1
      BY DEF NONE
    <2>2. WordOf(SlotOf(s)) \in Words
      BY <2>1, WordsOfSlots
    <2>3. Len(memory[WordFor(s)]) = 1
      BY <1>2, <2>2 DEF WordFor
    <2>4. QED
      BY <1>6, <2>1, <2>3
  <1>8. QED
    BY <1>4, <1>5, <1>6, <1>7 DEF WordInv

\* Nobody knows more than that nothing has happened, which is enough.
LEMMA OrderedInitInv == OrderedInit => OrderedIInv
  <1> SUFFICES ASSUME OrderedInit PROVE OrderedIInv
    OBVIOUS
  <1>1. TypeOK /\ IInv
    BY InitType, InitInv DEF OrderedInit
  <1>2. PICK value : /\ InitMemory(value) /\ writer = <<>>
                     /\ value[HandleCounter] = 1
                     /\ \A w \in Words : value[WordAt(w)] = Ones(w)
                     /\ \A x \in {ProducerCursor, ShutdownWord} : value[x] = NONE
                     /\ \A c \in Consumers : value[ConsumerCursor(c)] = NONE
    <2>1. InitialValue(HandleCounter) = 1
      <3>1. PICK x : x = HandleCounter
        OBVIOUS
      <3>2. x \notin {WordAt(k) : k \in Words}
        BY <3>1, LocationNames
      <3>3. QED
        BY <3>1, <3>2 DEF InitialValue
    <2>2. ASSUME NEW w \in Words
          PROVE  InitialValue(WordAt(w)) = Ones(w)
      <3>1. PICK x : x = WordAt(w)
        OBVIOUS
      <3>2. x # HandleCounter /\ x[2] = w /\ x \in {WordAt(k) : k \in Words}
        BY <3>1, LocationNames DEF WordAt
      <3>3. InitialValue(x) = [i \in SlotsOf(x[2]) |-> 1]
        BY <3>2 DEF InitialValue
      <3>4. QED
        BY <3>1, <3>2, <3>3 DEF Ones
    <2>3. ASSUME NEW x \in AllLocations, x # HandleCounter, \A w \in Words : x # WordAt(w)
          PROVE  InitialValue(x) = NONE
      BY <2>3 DEF InitialValue
    <2>4. QED
      BY <2>1, <2>2, <2>3, LocationNames DEF OrderedInit
  <1>3. InitConsumers
    BY DEF OrderedInit, Init
  <1>4. /\ ConsumerOrderInv
        /\ FirstView \in View
        /\ \A t \in AllThreads : FirstView.done[t] = -1
        /\ \A x \in AllLocations : FirstView.loc[x] = 1
        /\ \A x \in AllLocations : memory[x] = <<[value |-> value[x], view |-> FirstView]>>
        /\ \A t \in AllThreads : cur[t] = FirstView /\ acq[t] = FirstView
        /\ \A s : Written(FirstView, s)
    BY <1>2, <1>3, InitOrder
  <1>5. /\ cursor = NONE
        /\ \A p \in Producers : ppc[p] = IF p = FirstProducer THEN "idle" ELSE "unborn"
        /\ rear_unread = [p \in Producers |-> LastStage]
        /\ sequence_clear_of_consumers =
             [p \in Producers |-> IF p = FirstProducer THEN Size - 1 ELSE 0]
        /\ bits = [i \in Slots |-> 1]
        /\ scanned = [c \in Consumers |-> 0]
    BY DEF OrderedInit, Init, InitBarrier
  <1>6. /\ WordInv
        /\ \A s \in -Size .. -1 : Shows(1, s)
    <2>1. \A w \in Words :
            memory[WordAt(w)] = <<[value |-> Ones(w), view |-> FirstView]>>
      BY <1>2, <1>4, Names
    <2>2. QED
      BY <1>1, <1>5, <2>1, InitWords
  <1>7. ScanInv
    <2>1. ASSUME NEW c \in Consumers
          PROVE  Scanned(c) = -1
      BY <1>3, <1>5 DEF Scanned, InitConsumers, NONE
    <2>2. ASSUME NEW c \in Consumers, NEW s \in -Size .. -1,
                 NEW j \in Visible(ConsumerThread(c), WordFor(s))
          PROVE  j = 1
      <3>1. WordFor(s) \in AllLocations /\ ConsumerThread(c) \in AllThreads
        BY Names
      <3>2. PICK m : memory[WordFor(s)] = <<m>>
        BY <1>4, <3>1
      <3>3. cur[ConsumerThread(c)].loc[WordFor(s)] = 1 /\ Len(memory[WordFor(s)]) = 1
        BY <1>4, <3>1, <3>2
      <3>4. QED
        BY <3>3 DEF Visible
    <2>3. QED
      BY <1>4, <1>6, <2>1, <2>2, Names DEF ScanInv
  <1>8. ProducerViewInv
    <2>1. ASSUME NEW p \in Producers
          PROVE  ProducerKnows(p)
      <3>1. PICK clear \in Int : clear = sequence_clear_of_consumers[p] /\ clear - Size <= -1
        BY <1>5, SizeAssumption
      <3>2. ASSUME NEW c \in Consumers
            PROVE  Passed(FirstView, c, clear - Size)
        BY <1>4, <3>1, Names DEF Passed, Before
      <3>3. ppc[p] \in {"idle", "unborn"} /\ rear_unread[p] = LastStage
            /\ (ppc[p] = "unborn" => sequence_clear_of_consumers[p] = 0)
        BY <1>5
      <3>4. ProducerThread(p) \in AllThreads
        BY Names
      <3>5. QED
        BY <1>4, <3>1, <3>2, <3>3, <3>4 DEF ProducerKnows
    <2>2. QED
      BY <2>1 DEF ProducerViewInv
  <1>9. WriterInv
    BY <1>5 DEF WriterInv, NONE
  <1>10. HandleInv
    <2>1. /\ memory[ProducerCursor] = <<[value |-> NONE, view |-> FirstView]>>
          /\ memory[HandleCounter] = <<[value |-> 1, view |-> FirstView]>>
          /\ FirstView.loc[ProducerCursor] = 1
      BY <1>2, <1>4, Names
    <2>2. \A i \in DOMAIN memory[ProducerCursor] : memory[ProducerCursor][i].value = NONE
      BY <2>1
    <2>3. Newest(ProducerCursor).value = NONE /\ Len(memory[ProducerCursor]) = 1
      BY <2>1 DEF Newest
    <2>4. Newest(HandleCounter).view = FirstView
      BY <2>1 DEF Newest
    <2>5. QED
      BY <1>5, <2>1, <2>2, <2>3, <2>4 DEF HandleInv, KnowsCursor, NONE
  <1>11. QED
    BY <1>1, <1>4, <1>6, <1>7, <1>8, <1>9, <1>10, Whole

LEMMA OrderedNextInv ==
  ASSUME OrderedIInv, [OrderedNext]_<<vars, orderVars>>
  PROVE  OrderedIInv'
  <1>1. CASE LocalStep \/ UNCHANGED <<vars, orderVars>>
    BY <1>1, LocalStepInvOrdered
  <1>2. ASSUME NEW p \in Producers,
               \/ LoadCursorOrdered(p)
               \/ LoadRearOrdered(p)
               \/ ClaimSucceedsOrdered(p)
        PROVE  OrderedIInv'
    BY <1>2, LoadCursorOrderedInv, LoadRearOrderedInv, ClaimSucceedsOrderedInv
  <1>3. ASSUME NEW p \in Producers, WriteEventOrdered(p) \/ PublishWordOrdered(p)
        PROVE  OrderedIInv'
    BY <1>3, WriteEventOrderedInv, PublishWordOrderedInv
  <1>4. ASSUME NEW p \in Producers, NEW q \in Producers, CloneOrdered(p, q)
        PROVE  OrderedIInv'
    BY <1>4, CloneOrderedInv
  <1>5. ASSUME NEW p \in Producers, DropOrdered(p) \/ DropLastOrdered(p)
        PROVE  OrderedIInv'
    BY <1>5, DropOrderedInv, DropLastOrderedInv
  <1>6. ASSUME NEW c \in Consumers, ScanWordOrdered(c)
        PROVE  OrderedIInv'
    BY <1>6, ScanWordInvOrdered
  <1>7. ASSUME NEW c \in Consumers, ConsumerStepOrdered(c), UNCHANGED <<scanned, producerVars>>
        PROVE  OrderedIInv'
    BY <1>7, ConsumerStepInvOrdered
  <1>8. ASSUME NEW c \in Consumers, ConsumerFailure(c),
               UNCHANGED <<scanned, producerVars, orderVars>>
        PROVE  OrderedIInv'
    BY <1>8, ConsumerFailureInvOrdered
  <1>9. QED
    BY <1>1, <1>2, <1>3, <1>4, <1>5, <1>6, <1>7, <1>8 DEF OrderedNext

\* What the messages of the bit field, of the cursors and of the count of handles
\* say of the events, whatever stale values are read.
THEOREM OrderedInvariance == OrderedSpec => []OrderedIInv
  BY OrderedInitInv, OrderedNextInv, PTL DEF OrderedSpec

-----------------------------------------------------------------------------

(***************************************************************************)
(* What follows.                                                           *)
(***************************************************************************)

LEMMA AccessesOrdered == OrderedIInv => RaceFree
  <1> SUFFICES ASSUME OrderedIInv PROVE RaceFree
    OBVIOUS
  <1>1. /\ TypeOK /\ IInv /\ OrderTypeOK /\ MemoryTypeOK
        /\ ConsumerViewInv /\ ProducerViewInv /\ WriterInv
    BY Parts
  <1>2. ASSUME NEW c \in Consumers, NEW s \in ReadSet(c)
        PROVE  /\ s \in DOMAIN writer
               /\ Ordered(ConsumerThread(c), ProducerThread(writer[s]), s)
    <2>1. s \in 0 .. cursor /\ IsPublished(s)
      BY <1>1, ReferredTo DEF TypeOK
    <2>2. s \in DOMAIN writer
      BY <1>1, <2>1 DEF WriterInv
    <2>3. Written(cur[ConsumerThread(c)], available[c]) /\ s <= available[c]
      BY <1>1 DEF ReadSet, ConsumerViewInv, ConsumerKnows, TypeOK, ConsumersTypeOK
    <2>4. QED
      BY <2>2, <2>3 DEF Written, Ordered
  <1>3. ASSUME NEW p \in Producers, NEW s \in WriteSet(p),
               NEW u \in ConsumerThreads \cup (PreviousWriter(s) \ {ProducerThread(p)})
        PROVE  Ordered(ProducerThread(p), u, s - Size)
    <2>1. PICK t \in AllThreads, clear \in Int :
            t = ProducerThread(p) /\ clear = sequence_clear_of_consumers[p]
      BY <1>1, Names DEF TypeOK
    <2>2. /\ ppc[p] = "write" /\ s \in Int /\ s <= Upper(p) /\ Upper(p) \in Int
          /\ Upper(p) <= clear
      BY <1>1, <2>1, BatchType DEF WriteSet, ProducerViewInv, ProducerKnows
    <2>3. \A c \in Consumers : Passed(cur[t], c, clear - Size)
      BY <1>1, <2>1 DEF ProducerViewInv, ProducerKnows
    <2>4. s - Size \in Int /\ clear - Size \in Int /\ s - Size <= clear - Size
      BY <2>2, SizeAssumption
    <2>5. CASE u \in ConsumerThreads
      <3>1. PICK c \in Consumers : u = ConsumerThread(c)
        BY <2>5 DEF ConsumerThreads
      <3>2. cur[t].done[u] >= clear - Size /\ cur[t].done[u] \in Int
        BY <1>1, <2>3, <3>1, Names DEF Passed, MemoryTypeOK, View
      <3>3. QED
        BY <2>1, <2>4, <3>2 DEF Ordered
    <2>6. CASE u \in PreviousWriter(s)
      <3>1. s - Size \in DOMAIN writer /\ u = ProducerThread(writer[s - Size])
        BY <2>6 DEF PreviousWriter
      <3>2. Written(cur[t], clear - Size)
        BY <2>3, SomeConsumer DEF Passed
      <3>3. QED
        BY <2>1, <2>4, <3>1, <3>2 DEF Written, Ordered
    <2>7. QED
      BY <2>5, <2>6
  <1>4. QED
    BY <1>2, <1>3, WritersAssumption DEF RaceFree, RaceFreeAgainst

\* The fences, releasing flips and read-modify-writes of the code order every two
\* conflicting accesses of an event, whoever published its neighbours.
THEOREM OrderedRaceFreedom == OrderedSpec => []RaceFree
  BY AccessesOrdered, OrderedInvariance, PTL

\* Reading stale bits, cursors and counts costs nothing but time: events are still
\* seen as they were published, no slot is written while somebody refers to it, and
\* the bits still tell published from unpublished.
THEOREM OrderedIntegrity ==
  OrderedSpec => [](EventsIntact /\ StagesOrdered /\ NoDataRace /\ BitsTellPublished)
  <1>1. OrderedIInv => EventsIntact /\ StagesOrdered /\ NoDataRace /\ BitsTellPublished
    BY Parts, ReadersServed, StagesInOrder, UpdatesApart, BitsOfTheLap
  <1>2. QED
    BY <1>1, OrderedInvariance, PTL

\* A producer that goes by stale cursors overwrites no event a consumer of any stage
\* has not given back.
THEOREM OrderedNothingLost == OrderedSpec => NoEventLost
  <1>1. ASSUME OrderedIInv, [OrderedNext]_<<vars, orderVars>>, NEW i \in Slots,
               slots'[i] # slots[i], NEW c \in Consumers
        PROVE  consumer_cursor[c] >= slots[i]
    <2>1. PICK p \in Producers : WriteEvent(p)
      BY <1>1
      DEF OrderedNext, LocalStep, Call, UpdatePanics, DropReturns, Join, Terminated,
          LoadCursorOrdered, LoadRearOrdered, ClaimSucceedsOrdered, ClaimSucceeds,
          WriteEventOrdered, PublishWordOrdered, PublishWord, CloneOrdered, Clone,
          DropOrdered, Drop, DropLastOrdered, ScanWordOrdered, ConsumerStepOrdered,
          ConsumerFailure, vars
    <2>2. QED
      BY <1>1, <2>1, Parts, OverwriteReleased
  <1>2. ASSUME OrderedIInv, [OrderedNext]_<<vars, orderVars>>
        PROVE  [\A i \in Slots : slots'[i] # slots[i] =>
                  \A c \in Consumers : consumer_cursor[c] >= slots[i]]_vars
    BY <1>1, <1>2
  <1>3. QED
    BY <1>2, OrderedInvariance, PTL DEF OrderedSpec, NoEventLost

\* Loads publish, release and end nothing.
LEMMA LoadStutters ==
  ASSUME TypeOK, UNCHANGED <<barrierVars, consumer_cursor, shutdown_at_sequence>>,
         \/ UNCHANGED cpc
         \/ \E c \in Consumers : cpc[c] = "load" /\ \E highest : Observed(c, highest)
  PROVE  UNCHANGED Promise!vars
  <1>1. UNCHANGED PublishedPrefix
    BY SamePrefix
  <1>2. \A d \in Consumers : cpc'[d] = "exited" <=> cpc[d] = "exited"
    BY DEF Observed, Obtained, NothingNew, TypeOK, ConsumersTypeOK
  <1>3. QED
    BY <1>1, <1>2, Stutters

LEMMA OrderedNextPromise ==
  ASSUME OrderedIInv, [OrderedNext]_<<vars, orderVars>>
  PROVE  [Promise!Next]_(Promise!vars)
  <1>1. TypeOK /\ IInv /\ ConsumersTypeOK
    BY Parts
  <1>2. CASE [Next]_vars
    BY <1>1, <1>2, NextPromise
  <1>3. CASE LocalStep
    <2>1. CASE \E p \in Producers, n \in 1 .. MaxBatch, blocking \in BOOLEAN : Call(p, n, blocking)
      <3>1. \E p \in Producers, n \in 0 .. MaxBatch, blocking \in BOOLEAN : Call(p, n, blocking)
        BY <2>1, ProducersAssumption
      <3>2. QED
        BY <1>2, <3>1 DEF Next, Client
    <2>2. QED
      BY <1>2, <1>3, <2>1 DEF LocalStep, Next, Client, ProducerStep
  <1>4. ASSUME NEW p \in Producers, LoadCursorOrdered(p) \/ LoadRearOrdered(p)
        PROVE  [Promise!Next]_(Promise!vars)
    BY <1>1, <1>4, LoadStutters DEF LoadCursorOrdered, LoadRearOrdered, consumerVars
  <1>5. ASSUME NEW p \in Producers,
               ClaimSucceedsOrdered(p) \/ WriteEventOrdered(p) \/ PublishWordOrdered(p)
        PROVE  [Promise!Next]_(Promise!vars)
    BY <1>2, <1>5
    DEF ClaimSucceedsOrdered, WriteEventOrdered, PublishWordOrdered, Next, ProducerStep
  <1>6. ASSUME NEW p \in Producers, NEW q \in Producers, CloneOrdered(p, q)
        PROVE  [Promise!Next]_(Promise!vars)
    <2>1. Clone(p, q)
      BY <1>6 DEF CloneOrdered
    <2>2. QED
      BY <1>2, <2>1 DEF Next, Client
  <1>7. ASSUME NEW p \in Producers, DropOrdered(p) \/ DropLastOrdered(p)
        PROVE  [Promise!Next]_(Promise!vars)
    <2>1. Drop(p)
      BY <1>7, DropLastStep DEF DropOrdered
    <2>2. QED
      BY <1>2, <2>1 DEF Next, Client
  <1>8. ASSUME NEW c \in Consumers, ScanWordOrdered(c)
        PROVE  [Promise!Next]_(Promise!vars)
    <2>1. /\ UNCHANGED <<barrierVars, consumer_cursor, shutdown_at_sequence>>
          /\ cpc[c] = "load"
      BY <1>8 DEF ScanWordOrdered, producerVars
    <2>2. UNCHANGED cpc \/ \E highest : Observed(c, highest)
      BY <1>8 DEF ScanWordOrdered
    <2>3. QED
      BY <1>1, <2>1, <2>2, LoadStutters
  <1>9. ASSUME NEW c \in Consumers, LoadUpstreamOrdered(c),
               UNCHANGED <<producerVars, shutdown_at_sequence>>
        PROVE  [Promise!Next]_(Promise!vars)
    <2>1. /\ UNCHANGED <<barrierVars, consumer_cursor, shutdown_at_sequence>>
          /\ cpc[c] = "load"
      BY <1>9 DEF LoadUpstreamOrdered, producerVars
    <2>2. UNCHANGED cpc \/ \E highest : Observed(c, highest)
      BY <1>9 DEF LoadUpstreamOrdered
    <2>3. QED
      BY <1>1, <2>1, <2>2, LoadStutters
  <1>10. ASSUME NEW c \in Consumers, LoadShutdownOrdered(c) \/ PollOrdered(c),
                UNCHANGED <<producerVars, shutdown_at_sequence>>
         PROVE  [Promise!Next]_(Promise!vars)
    <2>1. PICK top \in Int : ConsumerInv(top)
      BY <1>1, Gapless
    <2>2. /\ cpc[c] \in {"check", "idle"}
          /\ UNCHANGED consumer_cursor
          /\ \E next \in {"exited", "load"} :
               /\ cpc' = [cpc EXCEPT ![c] = next]
               /\ next = "exited" => shutdown_at_sequence = consumer_cursor[c] + 1
      BY <1>10, <2>1, Parts, ShutdownStep
    <2>3. PICK next \in {"exited", "load"} :
            /\ cpc' = [cpc EXCEPT ![c] = next]
            /\ next = "exited" => shutdown_at_sequence = consumer_cursor[c] + 1
      BY <2>2
    <2>4. UNCHANGED <<PublishedPrefix, consumer_cursor, shutdown_at_sequence>>
      BY <1>10, <2>2, SamePrefix DEF producerVars
    <2>5. CASE next = "exited"
      <3>1. Promise!Finish(c)
        BY <1>1, <2>3, <2>4, <2>5, FinishPromise
      <3>2. QED
        BY <3>1 DEF Promise!Next, Promise!Consumers, Consumers
    <2>6. CASE next = "load"
      <3>1. \A d \in Consumers : cpc'[d] = "exited" <=> cpc[d] = "exited"
        BY <1>1, <2>2, <2>3, <2>6 DEF ConsumersTypeOK
      <3>2. QED
        BY <2>4, <3>1, Stutters
    <2>7. QED
      BY <2>5, <2>6
  <1>11. ASSUME NEW c \in Consumers, HandleOrdered(c) \/ ReleaseOrdered(c) \/ GuardDropOrdered(c),
                UNCHANGED <<producerVars, shutdown_at_sequence, slots>>
         PROVE  [Promise!Next]_(Promise!vars)
    BY <1>1, <1>11, ConsumerStepPromise
    DEF HandleOrdered, ReleaseOrdered, GuardDropOrdered, ConsumerStep
  <1>12. ASSUME NEW c \in Consumers, ConsumerFailure(c), UNCHANGED producerVars
         PROVE  [Promise!Next]_(Promise!vars)
    BY <1>1, <1>12, ConsumerStepPromise
  <1>13. ASSUME NEW c \in Consumers, ConsumerStepOrdered(c), UNCHANGED producerVars
         PROVE  [Promise!Next]_(Promise!vars)
    BY <1>9, <1>10, <1>11, <1>13 DEF ConsumerStepOrdered
  <1>14. QED
    BY <1>2, <1>3, <1>4, <1>5, <1>6, <1>7, <1>8, <1>12, <1>13 DEF OrderedNext

\* On weak memory, with handles cloned and dropped, it is still the broadcast
\* channel it is on a memory without caches.
THEOREM OrderedRefinement == OrderedSpec => KeepsPromise
  <1>1. OrderedInit => Promise!Init
    BY PromiseInit DEF OrderedInit
  <1>2. OrderedIInv /\ [OrderedNext]_<<vars, orderVars>> => [Promise!Next]_(Promise!vars)
    BY OrderedNextPromise
  <1>3. QED
    BY <1>1, <1>2, OrderedInvariance, PTL DEF OrderedSpec, KeepsPromise, Promise!Spec
=============================================================================
