---------------------------- MODULE RingBuffer ----------------------------
(***************************************************************************)
(* The ring buffer of ring_buffer.rs: Size slots that events recur in, and *)
(* the sequence arithmetic every producer decides with.                    *)
(*                                                                         *)
(* A slot is abstracted to the sequence of the event last written to it;   *)
(* NONE is what the event factory left there.  An update that leaves an    *)
(* event as it was counts as a write of the same event under its new       *)
(* sequence.                                                               *)
(***************************************************************************)
EXTENDS Integers

CONSTANT Size       \* number of slots; RingBuffer::new panics unless it is 2^k

\* Nothing below needs a power of two: the code does, because it masks with
\* Size - 1 where SlotOf takes the remainder.
ASSUME SizeAssumption == Size \in Nat \ {0}

VARIABLE slots      \* slots[i]: the sequence of the event slot i holds

\* "No sequence yet": every cursor, and the shutdown word, starts here.
NONE == -1

Slots == 0 .. Size - 1

SlotOf(sequence) == sequence % Size

\* Mutant: the producer may go one slot too far.
WrapPointLate(sequence) == sequence - Size - 1

WrapPoint(sequence) == sequence - Size

\* Mutant: one slot always stays empty.
FreeSlotsShort(producer, highest_read) == highest_read - WrapPoint(producer) - 1

\* Slots a producer whose last sequence is producer may still write when the
\* slowest consumer has read up to highest_read.
FreeSlots(producer, highest_read) == highest_read - WrapPoint(producer)

\* Mutant: the last sequence is forgotten.
WindowShort(first, last) == {SlotOf(s) : s \in first .. last - 1}

\* The slots that hold the sequences first .. last.
Window(first, last) == {SlotOf(s) : s \in first .. last}

SlotsTypeOK == slots \in [Slots -> Int]

InitSlots == slots = [i \in Slots |-> NONE]

WriteSlot(sequence) == slots' = [slots EXCEPT ![SlotOf(sequence)] = sequence]
=============================================================================
