------------------------------ MODULE RingBuffer ------------------------------
(***************************************************************************)
(* The ring buffer template of src/libraries/ring_buffer.  A ring of Size  *)
(* slots, all usable: each index carries a mirror bit that is toggled when *)
(* the index wraps, so that equal indices with equal bits mean "empty" and *)
(* equal indices with different bits mean "full".                          *)
(*                                                                         *)
(* The buffer is shared by a producer and a consumer that may interrupt    *)
(* it, and incrPtr is three separate stores.  A push is therefore given    *)
(* here as the four stores it makes; a pop, which the interrupt handler    *)
(* makes, as one step.                                                     *)
(***************************************************************************)
EXTENDS Integers, Sequences

CONSTANTS Size,     \* _u16_bufferSize
          Elem,     \* the template parameter T
          Zero      \* the element calloc fills the slots with

ASSUME RingAssumption == Size \in Nat \ {0} /\ Zero \in Elem

Slots == 0 .. Size - 1

\* The object.  end is Size for a moment, between the first two stores of incrPtr.
Ring == [buf : [Slots -> Elem], end : 0 .. Size, start : Slots,
         bEnd : {0, 1}, bStart : {0, 1}]

EmptyRing == [buf |-> [i \in Slots |-> Zero], end |-> 0, start |-> 0,
              bEnd |-> 0, bStart |-> 0]

-----------------------------------------------------------------------------

IsFull(r) == r.end = r.start /\ r.bStart # r.bEnd

ElementsAvailable(r) == ~(r.end = r.start /\ r.bStart = r.bEnd)

\* getRemainingSpace, in the 32-bit arithmetic that its operands are promoted to
RemainingSpace(r) == IF IsFull(r) THEN 0 ELSE ((Size - 1 - (r.end - r.start)) % Size) + 1

(* pushElement and incrPtr(_u16_end, _b_end), store by store.              *)
StoreElement(r, e) == [r EXCEPT !.buf[r.end] = e]
IncrEnd(r)         == [r EXCEPT !.end = @ + 1]
EndWraps(r)        == r.end >= Size
ToggleEnd(r)       == [r EXCEPT !.bEnd = 1 - @]
ResetEnd(r)        == [r EXCEPT !.end = 0]

\* pushElement where nothing interrupts it
PushElement(r, e) ==
    LET stored == IncrEnd(StoreElement(r, e))
    IN  IF EndWraps(stored) THEN ResetEnd(ToggleEnd(stored)) ELSE stored

\* the element is read after the start index has moved
Front_AfterPop(r) == r.buf[(r.start + 1) % Size]

(* popElement: the oldest element, and the ring without it.                *)
Front(r) == r.buf[r.start]

\* the wrap is tested before the increment, and so comes one slot late
PopElement_LateWrap(r) ==
    IF r.start >= Size
    THEN [r EXCEPT !.start = 0, !.bStart = 1 - @]
    ELSE [r EXCEPT !.start = @ + 1]

\* the start index wraps but its mirror bit is left alone
PopElement_NoToggle(r) == [r EXCEPT !.start = IF @ + 1 >= Size THEN 0 ELSE @ + 1]

PopElement(r) ==
    IF r.start + 1 >= Size
    THEN [r EXCEPT !.start = 0, !.bStart = 1 - @]
    ELSE [r EXCEPT !.start = @ + 1]

-----------------------------------------------------------------------------
(* The abstract view of a ring whose indices are both in range: how many   *)
(* elements it holds, and the slot of the i-th oldest of them.             *)
Fill(r) == IF r.bStart = r.bEnd THEN r.end - r.start ELSE Size + r.end - r.start

SlotOf(r, i) == IF r.start + i - 1 < Size THEN r.start + i - 1
                                          ELSE r.start + i - 1 - Size

\* A ring that a completed operation can leave behind.
WellFormed(r) == r \in Ring /\ r.end < Size /\ Fill(r) \in 0 .. Size

\* It holds, oldest first, the elements of s without the first t.
HoldsInOrder(r, s, t) ==
    /\ WellFormed(r)
    /\ Fill(r) = Len(s) - t
    /\ \A i \in 1 .. Fill(r) : r.buf[SlotOf(r, i)] = s[t + i]
=============================================================================
