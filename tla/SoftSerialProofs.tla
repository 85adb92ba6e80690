--------------------------- MODULE SoftSerialProofs ---------------------------
(***************************************************************************)
(* The safety of SoftSerial, and that it implements the byte pipe, for     *)
(* every ring size, every number of data bits and every set of bytes.      *)
(***************************************************************************)
EXTENDS MCSoftSerial, SequenceTheorems, TLAPS

-----------------------------------------------------------------------------
(* The ring's operations on a well-formed ring.                            *)

(* The fields of a ring, and what its being well-formed says of them.      *)
LEMMA RingFields ==
    ASSUME NEW r, WellFormed(r)
    PROVE  /\ r.end \in Int /\ 0 <= r.end /\ r.end < Size
           /\ r.start \in Int /\ 0 <= r.start /\ r.start < Size
           /\ r.bEnd \in {0, 1} /\ r.bStart \in {0, 1}
           /\ r.buf \in [Slots -> Elem]
           /\ r = [buf |-> r.buf, end |-> r.end, start |-> r.start,
                   bEnd |-> r.bEnd, bStart |-> r.bStart]
           /\ Size \in Int /\ Size > 0
           /\ r.bStart = r.bEnd => r.start <= r.end
           /\ r.bStart # r.bEnd => r.end <= r.start
           /\ Fill(r) \in Int /\ 0 <= Fill(r) /\ Fill(r) <= Size
  <1>1. /\ r.end \in Int /\ 0 <= r.end /\ r.end < Size
        /\ r.start \in Int /\ 0 <= r.start /\ r.start < Size
        /\ r.bEnd \in {0, 1} /\ r.bStart \in {0, 1}
        /\ r.buf \in [Slots -> Elem]
        /\ r = [buf |-> r.buf, end |-> r.end, start |-> r.start,
                bEnd |-> r.bEnd, bStart |-> r.bStart]
        /\ Size \in Int /\ Size > 0
    BY RingAssumption DEF WellFormed, Ring, Slots
  <1>2. Fill(r) \in 0 .. Size
    BY DEF WellFormed
  <1>3. QED
    BY <1>1, <1>2 DEF Fill

(* Conversely, a ring with its fields in those ranges is well formed.      *)
LEMMA FieldsMakeRing ==
    ASSUME NEW p \in Ring, p.end < Size,
           p.bStart = p.bEnd => p.start <= p.end,
           p.bStart # p.bEnd => p.end <= p.start
    PROVE  WellFormed(p)
  <1>1. /\ p.end \in 0 .. Size /\ p.start \in 0 .. Size - 1 /\ Size \in Nat
    BY RingAssumption DEF Ring, Slots
  <1>2. Fill(p) \in 0 .. Size
    BY <1>1 DEF Fill
  <1>3. QED
    BY <1>2 DEF WellFormed

(* isFull and elementsAvailable recognise the two extremes of the fill     *)
(* level, although the indices are equal in both.                          *)
LEMMA TestsAgreeWithFill ==
    ASSUME NEW r, WellFormed(r)
    PROVE  /\ IsFull(r) <=> Fill(r) = Size
           /\ ElementsAvailable(r) <=> Fill(r) # 0
  BY RingFields DEF Fill, IsFull, ElementsAvailable

(* What the three stores of incrPtr on the end index amount to.            *)
Pushed(r) == IF r.end + 1 >= Size THEN ResetEnd(ToggleEnd(IncrEnd(r))) ELSE IncrEnd(r)

(* A completed push makes the slot at end the youngest element and leaves  *)
(* the place of every other element alone.                                 *)
LEMMA PushAddsYoungest ==
    ASSUME NEW r, WellFormed(r), Fill(r) < Size
    PROVE  /\ WellFormed(Pushed(r))
           /\ Pushed(r).buf = r.buf
           /\ Fill(Pushed(r)) = Fill(r) + 1
           /\ \A i \in 1 .. Fill(r) : SlotOf(Pushed(r), i) = SlotOf(r, i)
           /\ SlotOf(Pushed(r), Fill(r) + 1) = r.end
  <1> DEFINE p == Pushed(r)
  <1>1. CASE r.end + 1 >= Size
    <2>1. /\ p \in Ring /\ p.buf = r.buf /\ p.start = r.start /\ p.end = 0
          /\ p.bStart = r.bStart /\ p.bEnd = 1 - r.bEnd
      <3>1. ResetEnd(ToggleEnd(IncrEnd(r))) = [r EXCEPT !.end = 0, !.bEnd = 1 - @]
        BY DEF WellFormed, Ring, IncrEnd, ToggleEnd, ResetEnd
      <3>2. p = [r EXCEPT !.end = 0, !.bEnd = 1 - @]
        BY <1>1, <3>1 DEF Pushed
      <3>3. 1 - r.bEnd \in {0, 1} /\ 0 \in 0 .. Size
        BY RingFields
      <3>4. QED
        BY <3>2, <3>3 DEF WellFormed, Ring
    <2> HIDE DEF p
    <2>2. r.end = Size - 1
      BY <1>1, RingFields
    <2>3. r.bStart = r.bEnd
      BY <2>2, RingFields DEF Fill
    <2>4. r.bStart # 1 - r.bEnd /\ 1 - r.bEnd \in {0, 1}
      BY <2>3, RingFields
    <2>5. WellFormed(p)
      BY <2>1, <2>4, RingFields, FieldsMakeRing
    <2>6. Fill(p) = Fill(r) + 1
      BY <2>1, <2>2, <2>3, <2>4, RingFields DEF Fill
    <2>7. SlotOf(p, Fill(r) + 1) = r.end
      BY <2>1, <2>2, <2>3, RingFields DEF Fill, SlotOf
    <2>8. p.buf = r.buf /\ p.start = r.start
      BY <2>1
    <2>9. QED
      BY <2>5, <2>6, <2>7, <2>8 DEF SlotOf, p
  <1>2. CASE r.end + 1 < Size
    <2>1. /\ p \in Ring /\ p.buf = r.buf /\ p.start = r.start /\ p.end = r.end + 1
          /\ p.bStart = r.bStart /\ p.bEnd = r.bEnd
      <3>1. p = [r EXCEPT !.end = @ + 1] /\ r.end + 1 \in 0 .. Size
        BY <1>2, RingFields DEF Pushed, IncrEnd
      <3>2. QED
        BY <3>1 DEF WellFormed, Ring
    <2> HIDE DEF p
    <2>2. r.bStart # r.bEnd => r.end + 1 <= r.start
      BY RingFields DEF Fill
    <2>3. WellFormed(p)
      BY <2>1, <2>2, <1>2, RingFields, FieldsMakeRing
    <2>4. Fill(p) = Fill(r) + 1
      BY <2>1, RingFields DEF Fill
    <2>5. SlotOf(p, Fill(r) + 1) = r.end
      BY <2>1, <1>2, RingFields DEF Fill, SlotOf
    <2>6. p.buf = r.buf /\ p.start = r.start
      BY <2>1
    <2>7. QED
      BY <2>3, <2>4, <2>5, <2>6 DEF SlotOf, p
  <1>3. QED
    BY <1>1, <1>2, RingFields

(* A pop removes the oldest element and nothing else.                      *)
LEMMA PopRemovesOldest ==
    ASSUME NEW r, WellFormed(r), Fill(r) > 0
    PROVE  /\ WellFormed(PopElement(r))
           /\ PopElement(r).buf = r.buf
           /\ PopElement(r).end = r.end
           /\ Fill(PopElement(r)) = Fill(r) - 1
           /\ \A i \in 1 .. Fill(r) - 1 : SlotOf(PopElement(r), i) = SlotOf(r, i + 1)
           /\ SlotOf(r, 1) = r.start
  <1> DEFINE p == PopElement(r)
  <1>0. SlotOf(r, 1) = r.start
    BY RingFields DEF SlotOf
  <1>1. CASE r.start + 1 >= Size
    <2>1. /\ p \in Ring /\ p.buf = r.buf /\ p.start = 0 /\ p.end = r.end
          /\ p.bStart = 1 - r.bStart /\ p.bEnd = r.bEnd
      <3>1. p = [r EXCEPT !.start = 0, !.bStart = 1 - @]
        BY <1>1 DEF PopElement
      <3>2. 1 - r.bStart \in {0, 1} /\ 0 \in Slots
        BY RingFields DEF Slots
      <3>3. QED
        BY <3>1, <3>2 DEF WellFormed, Ring
    <2> HIDE DEF p
    <2>2. r.start = Size - 1
      BY <1>1, RingFields
    <2>3. r.bStart # r.bEnd
      BY <2>2, RingFields DEF Fill
    <2>4. 1 - r.bStart = r.bEnd /\ 1 - r.bStart \in {0, 1}
      BY <2>3, RingFields
    <2>5. WellFormed(p)
      BY <2>1, <2>4, RingFields, FieldsMakeRing
    <2>6. Fill(p) = Fill(r) - 1
      BY <2>1, <2>2, <2>3, <2>4, RingFields DEF Fill
    <2>7. \A i \in 1 .. Fill(r) - 1 : SlotOf(p, i) = SlotOf(r, i + 1)
      <3>1. p.start = 0
        BY <2>1
      <3>2. Fill(r) - 1 < Size
        BY RingFields
      <3>3. QED
        BY <3>1, <3>2, <2>2, RingFields DEF SlotOf
    <2>8. QED
      BY <1>0, <2>1, <2>5, <2>6, <2>7 DEF p
  <1>2. CASE r.start + 1 < Size
    <2>1. /\ p \in Ring /\ p.buf = r.buf /\ p.start = r.start + 1 /\ p.end = r.end
          /\ p.bStart = r.bStart /\ p.bEnd = r.bEnd
      <3>1. p = [r EXCEPT !.start = @ + 1] /\ r.start + 1 \in Slots
        BY <1>2, RingFields DEF PopElement, Slots
      <3>2. QED
        BY <3>1 DEF WellFormed, Ring
    <2> HIDE DEF p
    <2>2. r.bStart = r.bEnd => r.start + 1 <= r.end
      BY RingFields DEF Fill
    <2>3. WellFormed(p)
      BY <2>1, <2>2, <1>2, RingFields, FieldsMakeRing
    <2>4. Fill(p) = Fill(r) - 1
      BY <2>1, RingFields DEF Fill
    <2>5. \A i \in 1 .. Fill(r) - 1 : SlotOf(p, i) = SlotOf(r, i + 1)
      <3>1. p.start = r.start + 1
        BY <2>1
      <3>2. QED
        BY <3>1, RingFields DEF SlotOf
    <2>6. QED
      BY <1>0, <2>1, <2>3, <2>4, <2>5 DEF p
  <1>3. QED
    BY <1>1, <1>2, RingFields

(* Every element of a well-formed ring lies in a slot of its own buffer,   *)
(* and the slot that end points to holds an element of a full ring only.   *)
LEMMA SlotsInRange ==
    ASSUME NEW r, WellFormed(r), NEW i \in 1 .. Fill(r)
    PROVE  /\ SlotOf(r, i) \in Slots
           /\ Fill(r) < Size => SlotOf(r, i) # r.end
  BY RingFields DEF Slots, Fill, SlotOf

(* Each store of a push and each pop keeps a ring a ring; only the first   *)
(* store of incrPtr may move the end index out of the buffer.              *)
LEMMA StoresStayInRing ==
    ASSUME NEW r \in Ring, NEW e \in Elem
    PROVE  /\ r.end \in Slots => StoreElement(r, e) \in Ring /\ StoreElement(r, e).end = r.end
           /\ r.end \in Slots => IncrEnd(r) \in Ring /\ IncrEnd(r).end = r.end + 1
           /\ ToggleEnd(r) \in Ring /\ ToggleEnd(r).end = r.end
           /\ ResetEnd(r) \in Ring /\ ResetEnd(r).end = 0
           /\ PopElement(r) \in Ring /\ PopElement(r).end = r.end
           /\ Front(r) \in Elem
           /\ r.end # Size => r.end \in Slots
  <1>1. /\ r.end \in 0 .. Size /\ r.start \in Slots /\ r.buf \in [Slots -> Elem]
        /\ r.bEnd \in {0, 1} /\ r.bStart \in {0, 1}
    BY DEF Ring
  <1>2. 1 - r.bEnd \in {0, 1} /\ 1 - r.bStart \in {0, 1}
    BY <1>1
  <1>3. /\ 0 \in 0 .. Size /\ 0 \in Slots /\ Size \in Nat
        /\ r.start + 1 < Size => r.start + 1 \in Slots
        /\ r.end \in Slots => r.end + 1 \in 0 .. Size
        /\ r.end # Size => r.end \in Slots
    BY <1>1, RingAssumption DEF Slots
  <1>4. r.end \in Slots => StoreElement(r, e) \in Ring /\ StoreElement(r, e).end = r.end
    BY <1>1 DEF StoreElement, Ring
  <1>5. r.end \in Slots => IncrEnd(r) \in Ring /\ IncrEnd(r).end = r.end + 1
    BY <1>3 DEF IncrEnd, Ring
  <1>6. ToggleEnd(r) \in Ring /\ ToggleEnd(r).end = r.end
    BY <1>2 DEF ToggleEnd, Ring
  <1>7. ResetEnd(r) \in Ring /\ ResetEnd(r).end = 0
    BY <1>3 DEF ResetEnd, Ring
  <1>8. CASE r.start + 1 >= Size
    <2>1. PopElement(r) = [r EXCEPT !.start = 0, !.bStart = 1 - @]
      BY <1>8 DEF PopElement
    <2>2. PopElement(r) \in Ring /\ PopElement(r).end = r.end
      BY <2>1, <1>2, <1>3 DEF Ring
    <2>3. QED
      BY <2>2, <1>1, <1>3, <1>4, <1>5, <1>6, <1>7 DEF Front
  <1>9. CASE ~(r.start + 1 >= Size)
    <2>1. PopElement(r) = [r EXCEPT !.start = @ + 1]
      BY <1>9 DEF PopElement
    <2>2. r.start + 1 \in Slots
      BY <1>9, <1>1, RingAssumption DEF Slots
    <2>3. PopElement(r) \in Ring /\ PopElement(r).end = r.end
      BY <2>1, <2>2 DEF Ring
    <2>4. QED
      BY <2>3, <1>1, <1>3, <1>4, <1>5, <1>6, <1>7 DEF Front
  <1>10. QED
    BY <1>8, <1>9

(* A store into a ring that is not full changes none of its elements.      *)
LEMMA StoreKeepsOrder ==
    ASSUME NEW r, NEW s, NEW t, HoldsInOrder(r, s, t), Fill(r) < Size, NEW b \in Elem
    PROVE  /\ HoldsInOrder(StoreElement(r, b), s, t)
           /\ Fill(StoreElement(r, b)) = Fill(r)
  <1> DEFINE p == StoreElement(r, b)
  <1>1. WellFormed(r)
    BY DEF HoldsInOrder
  <1>2. r \in Ring /\ r.end \in Slots /\ r.buf \in [Slots -> Elem]
    BY <1>1, RingFields DEF WellFormed, Slots
  <1>3. /\ p \in Ring /\ p.end = r.end /\ p.start = r.start
        /\ p.bEnd = r.bEnd /\ p.bStart = r.bStart
        /\ p.buf = [r.buf EXCEPT ![r.end] = b]
    BY <1>2 DEF StoreElement, Ring
  <1> HIDE DEF p
  <1>4. Fill(p) = Fill(r) /\ \A i \in 1 .. Fill(r) : SlotOf(p, i) = SlotOf(r, i)
    BY <1>3 DEF Fill, SlotOf
  <1>5. WellFormed(p)
    BY <1>1, <1>3, <1>4 DEF WellFormed
  <1>6. ASSUME NEW i \in 1 .. Fill(r)
        PROVE  p.buf[SlotOf(p, i)] = s[t + i]
    <2>1. SlotOf(r, i) \in Slots /\ SlotOf(r, i) # r.end
      BY <1>1, SlotsInRange
    <2>2. p.buf[SlotOf(r, i)] = r.buf[SlotOf(r, i)]
      BY <1>2, <1>3, <2>1
    <2>3. QED
      BY <1>4, <2>2 DEF HoldsInOrder
  <1>7. QED
    BY <1>4, <1>5, <1>6 DEF HoldsInOrder, p

(* A completed push appends the stored element to what the ring holds.     *)
LEMMA PushKeepsOrder ==
    ASSUME NEW r, NEW s \in Seq(Elem), NEW t \in Nat, HoldsInOrder(r, s, t),
           Fill(r) < Size
    PROVE  HoldsInOrder(Pushed(r), Append(s, r.buf[r.end]), t)
  <1> DEFINE p == Pushed(r)
             a == Append(s, r.buf[r.end])
  <1>1. WellFormed(r) /\ Fill(r) \in Nat /\ Fill(r) = Len(s) - t /\ Len(s) \in Nat
    BY RingFields DEF HoldsInOrder
  <1>2. r.buf[r.end] \in Elem
    BY <1>1, RingFields DEF Slots
  <1>3. /\ Len(a) = Len(s) + 1 /\ a[Len(s) + 1] = r.buf[r.end]
        /\ \A j \in 1 .. Len(s) : a[j] = s[j]
    BY <1>2
  <1> HIDE DEF a
  <1>4. /\ WellFormed(p) /\ p.buf = r.buf /\ Fill(p) = Fill(r) + 1
        /\ \A i \in 1 .. Fill(r) : SlotOf(p, i) = SlotOf(r, i)
        /\ SlotOf(p, Fill(r) + 1) = r.end
    BY <1>1, PushAddsYoungest
  <1> HIDE DEF p
  <1>5. ASSUME NEW i \in 1 .. Fill(p)
        PROVE  p.buf[SlotOf(p, i)] = a[t + i]
    <2>1. CASE i \in 1 .. Fill(r)
      <3>1. p.buf[SlotOf(p, i)] = r.buf[SlotOf(r, i)]
        BY <1>4, <2>1
      <3>2. t + i \in 1 .. Len(s)
        BY <1>1, <2>1
      <3>3. QED
        BY <3>1, <3>2, <1>3, <2>1 DEF HoldsInOrder
    <2>2. CASE i = Fill(r) + 1
      <3>1. t + i = Len(s) + 1
        BY <1>1, <2>2
      <3>2. QED
        BY <3>1, <1>3, <1>4, <2>2
    <2>3. QED
      BY <1>1, <1>4, <2>1, <2>2
  <1>6. QED
    <2>1. Fill(p) = Len(a) - t
      BY <1>1, <1>3, <1>4
    <2>2. HoldsInOrder(p, a, t)
      BY <1>4, <1>5, <2>1 DEF HoldsInOrder
    <2>3. QED
      BY <2>2 DEF p, a

(* A pop takes the first element that the ring holds.                      *)
LEMMA PopKeepsOrder ==
    ASSUME NEW r, NEW s \in Seq(Elem), NEW t \in Nat, HoldsInOrder(r, s, t),
           Fill(r) > 0
    PROVE  /\ HoldsInOrder(PopElement(r), s, t + 1)
           /\ Front(r) = s[t + 1]
           /\ Fill(PopElement(r)) = Fill(r) - 1
  <1> DEFINE p == PopElement(r)
  <1>1. WellFormed(r) /\ Fill(r) \in Nat /\ Fill(r) = Len(s) - t /\ Len(s) \in Nat
    BY RingFields DEF HoldsInOrder
  <1>2. /\ WellFormed(p) /\ p.buf = r.buf /\ Fill(p) = Fill(r) - 1
        /\ \A i \in 1 .. Fill(r) - 1 : SlotOf(p, i) = SlotOf(r, i + 1)
        /\ SlotOf(r, 1) = r.start
    BY <1>1, PopRemovesOldest
  <1> HIDE DEF p
  <1>3. ASSUME NEW i \in 1 .. Fill(p)
        PROVE  p.buf[SlotOf(p, i)] = s[(t + 1) + i]
    <2>1. p.buf[SlotOf(p, i)] = r.buf[SlotOf(r, i + 1)]
      BY <1>2
    <2>2. i + 1 \in 1 .. Fill(r) /\ (t + 1) + i = t + (i + 1)
      BY <1>1, <1>2
    <2>3. QED
      BY <2>1, <2>2 DEF HoldsInOrder
  <1>4. Front(r) = s[t + 1]
    <2>1. 1 \in 1 .. Fill(r)
      BY <1>1
    <2>2. QED
      BY <1>2, <2>1 DEF HoldsInOrder, Front
  <1>5. Fill(p) = Len(s) - (t + 1)
    BY <1>1, <1>2
  <1>6. HoldsInOrder(p, s, t + 1)
    BY <1>2, <1>3, <1>5 DEF HoldsInOrder
  <1>7. QED
    BY <1>2, <1>4, <1>6 DEF p

-----------------------------------------------------------------------------
(* Type correctness, whatever the timing.                                  *)

(* Only the main thread moves the end index, and it is out of range only   *)
(* between the first and the last store of incrPtr.                        *)
EndInv == tx.end = Size <=> pc \in {"toggle", "reset"}

TypeInv == TypeOK /\ EndInv

(* TypeInv is an invariant of the transmitter (its three facts).           *)
LEMMA TypeInvariant == Safety => []TypeInv
  <1>1. Init => TypeInv
    <2> SUFFICES ASSUME Init PROVE TypeInv
      OBVIOUS
    <2>1. 0 \in 0 .. Size /\ 0 \in Slots /\ Size # 0 /\ Zero \in Elem
      BY RingAssumption DEF Slots
    <2>2. EmptyRing \in Ring /\ EmptyRing.end = 0
      BY <2>1 DEF EmptyRing, Ring
    <2>3. 0 \in 0 .. StopBitPos + 1
      BY SerialAssumption
    <2>4. accepted \in Seq(Elem) /\ frame \in Seq(Elem) /\ received \in Seq(Seq(Elem))
      BY DEF Init
    <2>5. EndInv
      BY <2>1, <2>2 DEF Init, EndInv
    <2>6. TypeOK
      BY <2>1, <2>2, <2>3, <2>4 DEF Init, TypeOK, Sessions, Steps, SocEvents
    <2>7. QED
      BY <2>5, <2>6 DEF TypeInv
  <1>2. TypeInv /\ [Next]_vars => TypeInv'
    <2> SUFFICES ASSUME TypeInv, [Next]_vars
                 PROVE  TypeInv'
      OBVIOUS
    <2> USE DEF TypeInv, TypeOK, EndInv, Sessions, Steps, SocEvents, callVars, lineVars
    <2>0. /\ tx.end # Size => tx.end \in Slots
          /\ tx.end \in Slots => tx.end # Size
          /\ tx \in Ring /\ Size # 0 /\ Zero \in Elem
      BY StoresStayInRing, RingAssumption DEF Slots
    <2>1. CASE Begin
      BY <2>1 DEF Begin, Registered, OpenSession
    <2>2. ASSUME NEW b \in Elem, WriteByte(b)
          PROVE  TypeInv'
      <3>1. tx' \in Ring /\ tx'.end = tx.end
        BY <2>2, <2>0, StoresStayInRing DEF WriteByte
      <3>2. QED
        BY <2>2, <3>1 DEF WriteByte
    <2>3. CASE PushIncr
      <3>1. tx.end \in Slots
        BY <2>3, <2>0 DEF PushIncr
      <3>2. tx' \in Ring /\ tx'.end = tx.end + 1
        BY <2>3, <3>1, <2>0, StoresStayInRing DEF PushIncr
      <3>3. accepted' \in Seq(Elem)
        <4>1. tx.buf[tx.end] \in Elem
          BY <3>1 DEF Ring
        <4>2. QED
          BY <2>3, <4>1 DEF PushIncr
      <3>4. tx'.end = Size <=> EndWraps(tx')
        BY <3>1, <3>2, RingAssumption DEF EndWraps, Slots
      <3>5. QED
        BY <2>3, <3>2, <3>3, <3>4 DEF PushIncr
    <2>4. CASE PushToggle
      <3>1. tx' \in Ring /\ tx'.end = tx.end
        BY <2>4, <2>0, StoresStayInRing DEF PushToggle
      <3>2. QED
        BY <2>4, <3>1 DEF PushToggle
    <2>5. CASE PushReset
      <3>1. tx' \in Ring /\ tx'.end = 0
        BY <2>5, <2>0, StoresStayInRing DEF PushReset
      <3>2. QED
        BY <2>5, <3>1, <2>0 DEF PushReset
    <2>6. CASE TestBusy
      BY <2>6 DEF TestBusy
    <2>7. CASE RequestSlot
      BY <2>7 DEF RequestSlot, Configure, NormalOrFirst, RequestAccepted
    <2>8. CASE SetBusy
      BY <2>8 DEF SetBusy
    <2>9. ASSUME NEW e \in SocEvents, SocEvent(e)
          PROVE  TypeInv'
      BY <2>9 DEF SocEvent, Configure, RequestAccepted
    <2>10. ASSUME Prepare
           PROVE  TypeInv'
      <3>1. CASE ElementsAvailable(tx)
        <4>1. /\ Front(tx) \in Elem
              /\ PopElement(tx) \in Ring /\ PopElement(tx).end = tx.end
          BY <2>0, StoresStayInRing
        <4>2. QED
          BY <2>10, <3>1, <4>1 DEF Prepare, ScheduleNext
      <3>2. CASE ~ElementsAvailable(tx)
        BY <2>10, <3>2 DEF Prepare, Release, ScheduleNext
      <3>3. QED
        BY <3>1, <3>2
    <2>11. CASE ExtendFailed
      BY <2>11 DEF ExtendFailed, Configure
    <2>12. CASE DataBit
      <3>1. bitPos + 1 \in 0 .. StopBitPos + 1
        BY <2>12, SerialAssumption DEF DataBit
      <3>2. QED
        BY <2>12, <3>1 DEF DataBit
    <2>13. CASE StopBit
      <3>1. bitPos + 1 \in 0 .. StopBitPos + 1
        BY <2>13, SerialAssumption DEF StopBit
      <3>2. QED
        BY <2>13, <3>1 DEF StopBit
    <2>14. CASE FrameEnd
      <3>1. 0 \in 0 .. StopBitPos + 1
        BY SerialAssumption
      <3>2. QED
        BY <2>14, <3>1 DEF FrameEnd, Release, ScheduleNext
    <2>15. CASE SlotEnded
      BY <2>15 DEF SlotEnded
    <2>16. ASSUME NEW e \in {"BLOCKED", "CANCELED"}, SlotLost(e)
           PROVE  TypeInv'
      BY <2>16 DEF SlotLost
    <2>17. CASE UNCHANGED vars
      BY <2>17 DEF vars
    <2>18. QED
      BY <2>1, <2>2, <2>3, <2>4, <2>5, <2>6, <2>7, <2>8, <2>9, <2>10, <2>11,
         <2>12, <2>13, <2>14, <2>15, <2>16, <2>17
         DEF Next, Write, Signal, SlotStart, ExtendSucceeded
  <1>3. QED
    BY <1>1, <1>2, PTL DEF Safety

(* Every variable of the transmitter keeps its type; in particular no      *)
(* store or load of the ring goes outside its buffer (ring_buffer.tpp      *)
(* lines 76 and 108) and _bit_pos never reaches the assertion at the end   *)
(* of txTimer0IRQ.                                                         *)
THEOREM TypeCorrect == Safety => []TypeOK
  <1>1. TypeInv => TypeOK
    BY DEF TypeInv
  <1>2. QED
    BY <1>1, TypeInvariant, PTL

-----------------------------------------------------------------------------
(* The slot and the busy flag, whatever the timing.                        *)

(* writeByte requests a timeslot only when none is asked for or granted.   *)
SlotInv ==
    /\ BusyWhileAsked
    /\ SlotLostPending => session = "idle"
    /\ ~({"BLOCKED", "CANCELED"} \subseteq soc)
    /\ pc = "request" => ~busy
    /\ session = "closed" => pc = "idle"
    /\ RetryNeverRefused

LEMMA SlotStep == TypeInv /\ SlotInv /\ [Next]_vars => SlotInv'
  <1> SUFFICES ASSUME TypeInv, SlotInv, [Next]_vars
               PROVE  SlotInv'
    OBVIOUS
  <1> USE DEF SlotInv, BusyWhileAsked, SlotLostPending, RetryNeverRefused,
              callVars, lineVars
  <1>0. /\ session \in Sessions /\ pc \in Steps /\ busy \in BOOLEAN
        /\ soc \subseteq SocEvents
    BY DEF TypeInv, TypeOK
  <1>1. CASE Begin
    BY <1>1 DEF Begin, Registered, OpenSession
  <1>2. ASSUME NEW b \in Elem, WriteByte(b)
        PROVE  SlotInv'
    BY <1>2 DEF WriteByte
  <1>3. CASE PushIncr
    BY <1>3 DEF PushIncr
  <1>4. CASE PushToggle
    BY <1>4 DEF PushToggle
  <1>5. CASE PushReset
    BY <1>5 DEF PushReset
  <1>6. CASE TestBusy
    BY <1>6 DEF TestBusy
  <1>7. CASE RequestSlot
    BY <1>7 DEF RequestSlot, RequestAccepted
  <1>8. CASE SetBusy
    BY <1>8 DEF SetBusy
  <1>9. ASSUME NEW e \in SocEvents, SocEvent(e)
        PROVE  SlotInv'
    BY <1>0, <1>9 DEF SocEvent, RequestAccepted, SocEvents
  <1>10. CASE SlotStart \/ ExtendSucceeded
    BY <1>10 DEF SlotStart, ExtendSucceeded, Prepare, Release, ScheduleNext
  <1>11. CASE ExtendFailed
    BY <1>11 DEF ExtendFailed
  <1>12. CASE DataBit
    BY <1>12 DEF DataBit
  <1>13. CASE StopBit
    BY <1>13 DEF StopBit
  <1>14. CASE FrameEnd
    BY <1>14 DEF FrameEnd, Release, ScheduleNext
  <1>15. CASE SlotEnded
    BY <1>15 DEF SlotEnded
  <1>16. ASSUME NEW e \in {"BLOCKED", "CANCELED"}, SlotLost(e)
         PROVE  SlotInv'
    BY <1>16 DEF SlotLost
  <1>17. CASE UNCHANGED vars
    BY <1>17 DEF vars
  <1>18. QED
    BY <1>1, <1>2, <1>3, <1>4, <1>5, <1>6, <1>7, <1>8, <1>9, <1>10, <1>11,
       <1>12, <1>13, <1>14, <1>15, <1>16, <1>17 DEF Next, Write, Signal

(* Whatever the timing, the busy flag covers every timeslot asked for, and *)
(* the request repeated after BLOCKED or CANCELED finds an idle session,   *)
(* so that its error check never stops the system.                         *)
THEOREM SlotCovered == Safety => []BusyCoversSlot
  <1>1. Init => SlotInv
    BY DEF Init, SlotInv, BusyWhileAsked, SlotLostPending, RetryNeverRefused
  <1>2. SlotInv => BusyCoversSlot
    BY DEF SlotInv, BusyCoversSlot
  <1>3. QED
    BY <1>1, <1>2, TypeInvariant, SlotStep, PTL DEF Safety

-----------------------------------------------------------------------------
(* The ring, the busy flag and the frames, when a call of writeByte is     *)
(* shorter than a frame.                                                   *)

\* the main thread's call against the slot and the busy flag
HandoverInv ==
    /\ popped /\ pc # "idle" => session = "active"
    /\ pc \in {"toggle", "reset", "test", "request", "setBusy"} /\ ~popped
          => taken < Len(accepted)
    /\ pc = "setBusy" => \/ session = "pending" \/ SlotLostPending
                         \/ session = "active" /\ popped
    /\ busy => session \in {"pending", "active", "extending"} \/ SlotLostPending
    /\ pc \in {"idle", "incr"} => busy \/ taken = Len(accepted) \/ refused

\* there is room for the byte that is about to be pushed
RingInv == RingHoldsBacklog /\ (pc = "incr" => Fill(tx) < Size)

\* the frame being sent against the byte it was made from
FrameInv ==
    /\ FramesFaithful
    /\ Len(received) = IF session = "active" /\ bitPos <= StopBitPos
                       THEN taken - 1 ELSE taken
    /\ session = "active" => taken >= 1 /\ sendByte = accepted[taken]
    /\ session = "active" /\ bitPos <= StopBitPos
          => frame = [i \in 1 .. bitPos |-> sendByte]
    /\ session # "active" => bitPos = 0

\* a pop commutes with the last two stores of a push
LEMMA PopCommutes ==
    ASSUME NEW r \in Ring
    PROVE  /\ PopElement(ResetEnd(r)) = ResetEnd(PopElement(r))
           /\ PopElement(ToggleEnd(r)) = ToggleEnd(PopElement(r))
           /\ Front(ResetEnd(r)) = Front(r)
           /\ Front(ToggleEnd(r)) = Front(r)
  <1>1. CASE r.start + 1 >= Size
    BY <1>1 DEF PopElement, ResetEnd, ToggleEnd, Front, Ring
  <1>2. CASE ~(r.start + 1 >= Size)
    BY <1>2 DEF PopElement, ResetEnd, ToggleEnd, Front, Ring
  <1>3. QED
    BY <1>1, <1>2

\* what Settled stands for
LEMMA SettledIs ==
    /\ pc = "toggle" => Settled = ResetEnd(ToggleEnd(tx))
    /\ pc = "reset" => Settled = ResetEnd(tx)
    /\ pc \notin {"toggle", "reset"} => Settled = tx
  BY DEF Settled

\* elementsAvailable, read by the interrupt in the middle of a push
LEMMA AvailableMeansBacklog ==
    ASSUME TypeInv, HandoverInv, RingInv, ~(popped /\ pc # "idle")
    PROVE  /\ ElementsAvailable(tx) <=> taken < Len(accepted)
           /\ ElementsAvailable(tx) <=> Fill(Settled) > 0
           /\ taken <= Len(accepted)
  <1>1. /\ Fill(Settled) = Len(accepted) - taken /\ WellFormed(Settled)
        /\ Len(accepted) \in Nat /\ taken \in Nat
    BY DEF RingInv, RingHoldsBacklog, HoldsInOrder, TypeInv, TypeOK
  <1>2. Fill(Settled) \in Nat
    BY <1>1, RingFields
  <1>3. CASE pc \in {"toggle", "reset"}
    <2>1. tx.end = Size /\ tx.start \in Slots
      BY <1>3 DEF TypeInv, EndInv, TypeOK, Ring
    <2>2. ElementsAvailable(tx)
      BY <2>1, RingAssumption DEF ElementsAvailable, Slots
    <2>3. taken < Len(accepted)
      BY <1>3 DEF HandoverInv
    <2>4. QED
      BY <1>1, <2>2, <2>3
  <1>4. CASE pc \notin {"toggle", "reset"}
    <2>1. Settled = tx
      BY <1>4, SettledIs
    <2>2. QED
      BY <1>1, <1>2, <2>1, TestsAgreeWithFill
  <1>5. QED
    BY <1>3, <1>4

LEMMA RingStep ==
    FastWrite /\ TypeInv /\ HandoverInv /\ RingInv /\ [Next]_vars => RingInv'
  <1> SUFFICES ASSUME FastWrite, TypeInv, HandoverInv, RingInv, [Next]_vars
               PROVE  RingInv'
    OBVIOUS
  <1>0. /\ tx \in Ring /\ accepted \in Seq(Elem) /\ taken \in Nat
        /\ HoldsInOrder(Settled, accepted, taken)
        /\ pc = "incr" => Fill(tx) < Size
    BY DEF TypeInv, TypeOK, RingInv, RingHoldsBacklog
  <1>1. ASSUME UNCHANGED <<tx, accepted, taken>>,
               pc' = pc \/ {pc, pc'} \cap {"incr", "toggle", "reset"} = {}
        PROVE  RingInv'
    <2>1. Settled' = Settled
      BY <1>1 DEF Settled
    <2>2. pc' = "incr" => Fill(tx') < Size
      BY <1>0, <1>1
    <2>3. QED
      BY <1>0, <1>1, <2>1, <2>2 DEF RingInv, RingHoldsBacklog
  <1>2. ASSUME NEW b \in Elem, WriteByte(b)
        PROVE  RingInv'
    <2>1. /\ tx' = StoreElement(tx, b) /\ pc' = "incr" /\ Settled = tx
          /\ UNCHANGED <<accepted, taken>> /\ ~IsFull(tx)
      BY <1>2, SettledIs DEF WriteByte
    <2>2. Settled' = tx'
      BY <2>1 DEF Settled
    <2>3. Fill(tx) < Size
      <3>1. WellFormed(tx)
        BY <1>0, <2>1 DEF HoldsInOrder
      <3>2. QED
        BY <2>1, <3>1, TestsAgreeWithFill, RingFields
    <2>4. HoldsInOrder(tx', accepted', taken') /\ Fill(tx') < Size
      BY <1>0, <2>1, <2>3, StoreKeepsOrder
    <2>5. QED
      BY <2>2, <2>4 DEF RingInv, RingHoldsBacklog
  <1>3. CASE PushIncr
    <2>1. /\ tx' = IncrEnd(tx) /\ Settled = tx /\ UNCHANGED taken
          /\ accepted' = Append(accepted, tx.buf[tx.end])
          /\ pc' = IF EndWraps(tx') THEN "toggle" ELSE "test"
          /\ Fill(tx) < Size
      BY <1>0, <1>3, SettledIs DEF PushIncr
    <2>2. WellFormed(tx)
      BY <1>0, <2>1 DEF HoldsInOrder
    <2>3. tx'.end = tx.end + 1
      <3>1. tx.end \in Slots /\ Zero \in Elem
        BY <2>2, RingFields, RingAssumption DEF Slots
      <3>2. QED
        BY <1>0, <2>1, <3>1, StoresStayInRing
    <2>4. Settled' = Pushed(tx)
      BY <2>1, <2>3 DEF Settled, Pushed, EndWraps
    <2>5. HoldsInOrder(Settled', accepted', taken')
      BY <1>0, <2>1, <2>4, PushKeepsOrder
    <2>6. QED
      BY <2>1, <2>5 DEF RingInv, RingHoldsBacklog
  <1>4. CASE PushToggle
    <2>1. Settled' = Settled /\ UNCHANGED <<accepted, taken>> /\ pc' = "reset"
      BY <1>4 DEF PushToggle, Settled
    <2>2. QED
      BY <1>0, <2>1 DEF RingInv, RingHoldsBacklog
  <1>5. CASE PushReset
    <2>1. Settled' = Settled /\ UNCHANGED <<accepted, taken>> /\ pc' = "test"
      BY <1>5 DEF PushReset, Settled
    <2>2. QED
      BY <1>0, <2>1 DEF RingInv, RingHoldsBacklog
  <1>6. CASE SlotStart \/ ExtendSucceeded
    <2>1. Prepare /\ session \in {"pending", "extending"}
      BY <1>6 DEF SlotStart, ExtendSucceeded
    <2>2. ~(popped /\ pc # "idle")
      BY <2>1 DEF HandoverInv
    <2>3. CASE ElementsAvailable(tx)
      <3>1. /\ tx' = PopElement(tx) /\ taken' = taken + 1
            /\ UNCHANGED <<accepted, pc>>
        BY <2>1, <2>3 DEF Prepare, ScheduleNext
      <3>2. Fill(Settled) > 0
        BY <2>2, <2>3, AvailableMeansBacklog
      <3>3. Settled' = PopElement(Settled)
        <4>1. ToggleEnd(tx) \in Ring
          BY <1>0, StoresStayInRing, RingAssumption
        <4>2. CASE pc = "toggle"
          BY <1>0, <3>1, <4>1, <4>2, PopCommutes DEF Settled
        <4>3. CASE pc = "reset"
          BY <1>0, <3>1, <4>3, PopCommutes DEF Settled
        <4>4. CASE pc \notin {"toggle", "reset"}
          BY <3>1, <4>4 DEF Settled
        <4>5. QED
          BY <4>2, <4>3, <4>4
      <3>4. /\ HoldsInOrder(Settled', accepted', taken')
            /\ Fill(Settled') = Fill(Settled) - 1
        BY <1>0, <3>1, <3>2, <3>3, PopKeepsOrder
      <3>5. pc' = "incr" => Fill(tx') < Size
        <4>1. SUFFICES ASSUME pc' = "incr" PROVE Fill(tx') < Size
          OBVIOUS
        <4>2. Settled = tx /\ Settled' = tx' /\ Fill(tx) < Size
          BY <1>0, <3>1, <4>1, SettledIs DEF Settled
        <4>3. Fill(tx) \in Int
          BY <1>0, <4>2, RingFields DEF HoldsInOrder
        <4>4. QED
          BY <3>4, <4>2, <4>3, RingAssumption
      <3>6. QED
        BY <3>4, <3>5 DEF RingInv, RingHoldsBacklog
    <2>4. CASE ~ElementsAvailable(tx)
      BY <1>1, <2>1, <2>4 DEF Prepare, ScheduleNext
    <2>5. QED
      BY <2>3, <2>4
  <1>7. CASE TestBusy
    BY <1>1, <1>7 DEF TestBusy
  <1>8. CASE RequestSlot
    BY <1>1, <1>8 DEF RequestSlot
  <1>9. CASE SetBusy
    BY <1>1, <1>9 DEF SetBusy
  <1>10. CASE FrameEnd
    BY <1>1, <1>10 DEF FrameEnd, callVars, ScheduleNext
  <1>11. CASE Begin \/ ExtendFailed \/ DataBit \/ StopBit \/ SlotEnded
    BY <1>1, <1>11 DEF Begin, ExtendFailed, DataBit, StopBit, SlotEnded, callVars, Registered, OpenSession
  <1>12. ASSUME NEW e \in SocEvents, SocEvent(e) \/ SlotLost(e)
         PROVE  RingInv'
    BY <1>1, <1>12 DEF SocEvent, SlotLost, callVars
  <1>13. CASE UNCHANGED vars
    BY <1>1, <1>13 DEF vars, callVars
  <1>14. QED
    BY <1>2, <1>3, <1>4, <1>5, <1>6, <1>7, <1>8, <1>9, <1>10, <1>11, <1>12, <1>13
       DEF Next, Write, Signal, SocEvents

LEMMA HandoverStep ==
    FastWrite /\ TypeInv /\ SlotInv /\ HandoverInv /\ RingInv /\ [Next]_vars
        => HandoverInv'
  <1> SUFFICES ASSUME FastWrite, TypeInv, SlotInv, HandoverInv, RingInv, [Next]_vars
               PROVE  HandoverInv'
    OBVIOUS
  <1>0. /\ session \in Sessions /\ pc \in Steps /\ busy \in BOOLEAN
        /\ refused \in BOOLEAN /\ popped \in BOOLEAN
        /\ soc \subseteq SocEvents /\ taken \in Nat /\ accepted \in Seq(Elem)
    BY DEF TypeInv, TypeOK
  <1>a. Len(accepted) \in Nat /\ taken <= Len(accepted)
    <2>1. WellFormed(Settled) /\ Fill(Settled) = Len(accepted) - taken
      BY DEF RingInv, RingHoldsBacklog, HoldsInOrder
    <2>2. QED
      BY <1>0, <2>1, RingFields
  <1> USE DEF HandoverInv, SlotLostPending, callVars, lineVars
  <1>1. CASE Begin
    BY <1>1 DEF Begin, SlotInv, Registered, OpenSession
  <1>2. ASSUME NEW b \in Elem, WriteByte(b)
        PROVE  HandoverInv'
    BY <1>2 DEF WriteByte
  <1>3. CASE PushIncr
    <2>1. Len(accepted') = Len(accepted) + 1
      <3>1. tx.buf[tx.end] \in Elem
        BY <1>3, RingFields, SettledIs
           DEF PushIncr, RingInv, RingHoldsBacklog, HoldsInOrder, Slots
      <3>2. QED
        BY <1>0, <1>3, <3>1 DEF PushIncr
    <2>2. QED
      BY <1>0, <1>a, <1>3, <2>1 DEF PushIncr
  <1>4. CASE PushToggle
    BY <1>4 DEF PushToggle
  <1>5. CASE PushReset
    BY <1>5 DEF PushReset
  <1>6. CASE TestBusy
    BY <1>0, <1>6 DEF TestBusy
  <1>7. CASE RequestSlot
    BY <1>0, <1>7 DEF RequestSlot, RequestAccepted
  <1>8. CASE SetBusy
    BY <1>0, <1>8 DEF SetBusy
  <1>9. ASSUME NEW e \in SocEvents, SocEvent(e)
        PROVE  HandoverInv'
    BY <1>0, <1>9 DEF SocEvent, RequestAccepted, SlotInv, RetryNeverRefused, SocEvents
  <1>10. CASE SlotStart \/ ExtendSucceeded
    <2>1. Prepare /\ session \in {"pending", "extending"}
      BY <1>10 DEF SlotStart, ExtendSucceeded
    <2>2. /\ ~(popped /\ pc # "idle")
          /\ ElementsAvailable(tx) <=> taken < Len(accepted)
      BY <2>1, AvailableMeansBacklog
    <2>3. ~SlotLostPending
      BY <2>1 DEF SlotInv
    <2>4. CASE ElementsAvailable(tx)
      BY <1>0, <1>a, <2>1, <2>2, <2>3, <2>4 DEF Prepare, SlotInv, BusyWhileAsked, ScheduleNext
    <2>5. CASE ~ElementsAvailable(tx)
      BY <1>0, <1>a, <2>1, <2>2, <2>3, <2>5 DEF Prepare, Release, SlotInv, BusyWhileAsked, ScheduleNext
    <2>6. QED
      BY <2>4, <2>5
  <1>11. CASE ExtendFailed
    BY <1>11 DEF ExtendFailed
  <1>12. CASE DataBit
    BY <1>12 DEF DataBit
  <1>13. CASE StopBit
    BY <1>13 DEF StopBit
  <1>14. CASE FrameEnd
    <2>1. /\ ~(popped /\ pc # "idle")
          /\ ElementsAvailable(tx) <=> taken < Len(accepted)
      BY <1>14, AvailableMeansBacklog DEF FrameEnd, ScheduleNext
    <2>2. ~SlotLostPending
      BY <1>14 DEF SlotInv, FrameEnd, ScheduleNext
    <2>3. QED
      BY <1>0, <1>a, <1>14, <2>1, <2>2 DEF FrameEnd, Release, ScheduleNext
  <1>15. CASE SlotEnded
    BY <1>15 DEF SlotEnded
  <1>16. ASSUME NEW e \in {"BLOCKED", "CANCELED"}, SlotLost(e)
         PROVE  HandoverInv'
    BY <1>16 DEF SlotLost
  <1>17. CASE UNCHANGED vars
    BY <1>17 DEF vars
  <1>18. QED
    BY <1>1, <1>2, <1>3, <1>4, <1>5, <1>6, <1>7, <1>8, <1>9, <1>10, <1>11,
       <1>12, <1>13, <1>14, <1>15, <1>16, <1>17 DEF Next, Write, Signal

LEMMA FrameStep ==
    TypeInv /\ SlotInv /\ HandoverInv /\ RingInv /\ FrameInv /\ [Next]_vars => FrameInv'
  <1> SUFFICES ASSUME TypeInv, SlotInv, HandoverInv, RingInv, FrameInv, [Next]_vars
               PROVE  FrameInv'
    OBVIOUS
  <1>0. /\ accepted \in Seq(Elem) /\ taken \in Nat /\ Len(accepted) \in Nat
        /\ received \in Seq(Seq(Elem)) /\ Len(received) \in Nat
        /\ frame \in Seq(Elem) /\ sendByte \in Elem
        /\ bitPos \in 0 .. StopBitPos + 1 /\ StopBitPos \in Nat /\ StopBitPos > 0
    BY SerialAssumption DEF TypeInv, TypeOK
  <1>a. /\ Fill(Settled) = Len(accepted) - taken /\ taken <= Len(accepted)
        /\ HoldsInOrder(Settled, accepted, taken)
    <2>1. /\ HoldsInOrder(Settled, accepted, taken) /\ WellFormed(Settled)
          /\ Fill(Settled) = Len(accepted) - taken
      BY DEF RingInv, RingHoldsBacklog, HoldsInOrder
    <2>2. QED
      BY <1>0, <2>1, RingFields
  <1>1. ASSUME UNCHANGED <<received, taken, sendByte, frame, bitPos, session, accepted>>
        PROVE  FrameInv'
    BY <1>1 DEF FrameInv, FramesFaithful
  <1>2. ASSUME UNCHANGED <<received, taken, sendByte, frame, bitPos, accepted>>,
               session # "active", session' # "active"
        PROVE  FrameInv'
    BY <1>2 DEF FrameInv, FramesFaithful
  <1>3. CASE PushIncr
    <2>1. UNCHANGED <<received, taken, sendByte, frame, bitPos, session>>
      BY <1>3 DEF PushIncr, lineVars
    <2>2. tx.buf[tx.end] \in Elem
      BY <1>3, RingFields, SettledIs
         DEF PushIncr, RingInv, RingHoldsBacklog, HoldsInOrder, Slots
    <2>3. Len(accepted') = Len(accepted) + 1 /\ \A k \in 1 .. Len(accepted) : accepted'[k] = accepted[k]
      BY <1>0, <1>3, <2>2 DEF PushIncr
    <2>4. FramesFaithful'
      <3>1. Len(received) <= Len(accepted)
        BY DEF FrameInv, FramesFaithful
      <3>2. ASSUME NEW k \in 1 .. Len(received)
            PROVE  received[k] = [i \in 1 .. StopBitPos |-> accepted'[k]]
        <4>1. k \in 1 .. Len(accepted)
          BY <1>0, <3>1
        <4>2. QED
          BY <2>3, <4>1 DEF FrameInv, FramesFaithful
      <3>3. received' = received /\ Len(received') <= Len(accepted')
        BY <1>0, <2>1, <2>3, <3>1
      <3>4. QED
        BY <3>2, <3>3 DEF FramesFaithful
    <2>5. session = "active" => accepted'[taken] = accepted[taken]
      BY <1>0, <1>a, <2>3 DEF FrameInv
    <2>6. QED
      BY <2>1, <2>4, <2>5 DEF FrameInv
  <1>4. CASE SlotStart \/ ExtendSucceeded
    <2>1. Prepare /\ session \in {"pending", "extending"} /\ bitPos = 0
          /\ Len(received) = taken
      BY <1>4 DEF SlotStart, ExtendSucceeded, FrameInv
    <2>2. CASE ElementsAvailable(tx)
      <3>1. /\ sendByte' = Front(tx) /\ taken' = taken + 1 /\ frame' = <<>>
            /\ session' = "active" /\ UNCHANGED <<accepted, bitPos, received>>
        BY <2>1, <2>2 DEF Prepare, ScheduleNext
      <3>2. Fill(Settled) > 0
        BY <2>1, <2>2, AvailableMeansBacklog DEF HandoverInv
      <3>3. Front(Settled) = accepted[taken + 1]
        BY <1>0, <1>a, <3>2, PopKeepsOrder
      <3>4. Front(Settled) = Front(tx)
        <4>1. tx \in Ring /\ ToggleEnd(tx) \in Ring
          BY StoresStayInRing, RingAssumption DEF TypeInv, TypeOK
        <4>2. QED
          BY <4>1, SettledIs, PopCommutes
      <3>5. frame' = [i \in 1 .. bitPos' |-> sendByte']
        BY <2>1, <3>1
      <3>6. FramesFaithful'
        BY <3>1 DEF FrameInv, FramesFaithful
      <3>7. QED
        BY <1>0, <2>1, <3>1, <3>3, <3>4, <3>5, <3>6 DEF FrameInv
    <2>3. CASE ~ElementsAvailable(tx)
      BY <1>2, <2>1, <2>3 DEF Prepare, Release, ScheduleNext
    <2>4. QED
      BY <2>2, <2>3
  <1>5. CASE DataBit
    <2>1. /\ session = "active" /\ bitPos < StopBitPos
          /\ frame' = Append(frame, sendByte) /\ bitPos' = bitPos + 1
          /\ UNCHANGED <<session, received, taken, sendByte, accepted>>
      BY <1>5 DEF DataBit, callVars
    <2>2. frame = [i \in 1 .. bitPos |-> sendByte] /\ Len(frame) = bitPos
      BY <1>0, <2>1 DEF FrameInv
    <2>3. frame' = [i \in 1 .. bitPos + 1 |-> sendByte]
      BY <1>0, <2>1, <2>2
    <2>4. QED
      BY <1>0, <2>1, <2>3 DEF FrameInv, FramesFaithful
  <1>6. CASE StopBit
    <2>1. /\ session = "active" /\ bitPos = StopBitPos
          /\ received' = Append(received, frame) /\ bitPos' = bitPos + 1
          /\ UNCHANGED <<session, taken, sendByte, accepted, frame>>
      BY <1>6 DEF StopBit, callVars
    <2>2. /\ frame = [i \in 1 .. StopBitPos |-> accepted[taken]]
          /\ Len(received) = taken - 1 /\ taken >= 1
      BY <1>0, <2>1 DEF FrameInv
    <2>3. /\ Len(received') = taken /\ received'[taken] = frame
          /\ \A k \in 1 .. taken - 1 : received'[k] = received[k]
      BY <1>0, <2>1, <2>2
    <2>4. FramesFaithful'
      <3>1. ASSUME NEW k \in 1 .. taken
            PROVE  received'[k] = [i \in 1 .. StopBitPos |-> accepted[k]]
        <4>1. CASE k = taken
          BY <2>2, <2>3, <4>1
        <4>2. CASE k \in 1 .. taken - 1
          BY <2>2, <2>3, <4>2 DEF FrameInv, FramesFaithful
        <4>3. QED
          BY <1>0, <4>1, <4>2
      <3>2. Len(received') <= Len(accepted')
        BY <1>a, <2>1, <2>3
      <3>3. accepted' = accepted /\ Len(received') = taken
        BY <2>1, <2>3
      <3>4. QED
        BY <3>1, <3>2, <3>3 DEF FramesFaithful
    <2>5. QED
      BY <1>0, <2>1, <2>2, <2>3, <2>4 DEF FrameInv
  <1>6a. CASE FrameEnd
    <2>1. /\ session = "active" /\ bitPos = StopBitPos + 1 /\ bitPos' = 0
          /\ session' # "active"
          /\ UNCHANGED <<received, taken, sendByte, accepted, frame>>
      BY <1>6a DEF FrameEnd, Release, ScheduleNext
    <2>2. FramesFaithful'
      BY <2>1 DEF FrameInv, FramesFaithful
    <2>3. Len(received') = taken' /\ session' # "active" /\ bitPos' = 0
      BY <1>0, <2>1 DEF FrameInv
    <2>4. QED
      BY <2>2, <2>3 DEF FrameInv
  <1>7. CASE Begin
    BY <1>1, <1>2, <1>7 DEF Begin, lineVars, Registered, OpenSession
  <1>8. ASSUME NEW b \in Elem, WriteByte(b)
        PROVE  FrameInv'
    BY <1>1, <1>8 DEF WriteByte, lineVars
  <1>9. CASE PushToggle \/ PushReset \/ TestBusy \/ SetBusy
    BY <1>1, <1>9 DEF PushToggle, PushReset, TestBusy, SetBusy, lineVars
  <1>10. CASE RequestSlot
    BY <1>1, <1>2, <1>10 DEF RequestSlot, RequestAccepted, lineVars
  <1>11. ASSUME NEW e \in SocEvents, SocEvent(e)
         PROVE  FrameInv'
    BY <1>1, <1>2, <1>11 DEF SocEvent, RequestAccepted, lineVars
  <1>12. CASE ExtendFailed
    BY <1>2, <1>12 DEF ExtendFailed, lineVars
  <1>13. CASE SlotEnded
    BY <1>2, <1>13 DEF SlotEnded, lineVars
  <1>14. ASSUME NEW e \in SocEvents, SlotLost(e)
         PROVE  FrameInv'
    BY <1>2, <1>14 DEF SlotLost, lineVars
  <1>15. CASE UNCHANGED vars
    BY <1>1, <1>15 DEF vars, lineVars
  <1>16. QED
    BY <1>3, <1>4, <1>5, <1>6, <1>6a, <1>7, <1>8, <1>9, <1>10, <1>11, <1>12,
       <1>13, <1>14, <1>15 DEF Next, Write, Signal, SocEvents

TransmitterInv == SlotInv /\ HandoverInv /\ RingInv /\ FrameInv

(* With calls of writeByte shorter than a frame, all of it is invariant.   *)
LEMMA TransmitterInvariant ==
    FastWrite => (Safety => [](TypeInv /\ TransmitterInv))
  <1>1. Init => TransmitterInv
    <2> SUFFICES ASSUME Init PROVE TransmitterInv
      OBVIOUS
    <2>1. SlotInv /\ HandoverInv
      BY DEF Init, SlotInv, BusyWhileAsked, SlotLostPending, RetryNeverRefused, HandoverInv
    <2>2. HoldsInOrder(EmptyRing, <<>>, 0)
      <3>1. 0 \in 0 .. Size /\ 0 \in Slots /\ Size \in Nat /\ Size > 0 /\ Zero \in Elem
        BY RingAssumption DEF Slots
      <3>2. /\ EmptyRing \in Ring /\ EmptyRing.end = 0 /\ EmptyRing.start = 0
            /\ EmptyRing.bEnd = EmptyRing.bStart
        BY <3>1 DEF EmptyRing, Ring
      <3>3. Fill(EmptyRing) = 0
        BY <3>2 DEF Fill
      <3>4. QED
        BY <3>1, <3>2, <3>3 DEF HoldsInOrder, WellFormed
    <2>3. RingInv
      BY <2>2 DEF Init, RingInv, RingHoldsBacklog, Settled
    <2>4. FrameInv
      BY SerialAssumption DEF Init, FrameInv, FramesFaithful
    <2>5. QED
      BY <2>1, <2>3, <2>4 DEF TransmitterInv
  <1>2. FastWrite /\ TypeInv /\ TransmitterInv /\ [Next]_vars => TransmitterInv'
    BY SlotStep, HandoverStep, RingStep, FrameStep DEF TransmitterInv
  <1>3. SUFFICES ASSUME FastWrite PROVE Safety => [](TypeInv /\ TransmitterInv)
    OBVIOUS
  <1>4. TypeInv /\ TransmitterInv /\ [Next]_vars => TransmitterInv'
    BY <1>2, <1>3
  <1>5. QED
    BY <1>1, <1>4, TypeInvariant, PTL DEF Safety

(* When a call of writeByte is shorter than a frame, the ring holds the    *)
(* accepted bytes in order through every interleaving of the three stores  *)
(* of incrPtr with the radio interrupt; the k-th frame on the line is the  *)
(* k-th byte, whole; an idle session means a released transmitter; and a   *)
(* byte stays in the ring of an idle transmitter only after a refusal.     *)
THEOREM TransmitterCorrect ==
    FastWrite => (Safety => [](OnceInOrder /\ HandedOver))
  <1> DEFINE Goal == OnceInOrder /\ HandedOver
  <1>1. TypeInv /\ TransmitterInv => Goal
    <2> SUFFICES ASSUME TypeInv, TransmitterInv PROVE Goal
      OBVIOUS
    <2>1. RingHoldsBacklog /\ FramesFaithful
      BY DEF TransmitterInv, RingInv, FrameInv
    <2>2. ReleasedAfterStop
      BY DEF TransmitterInv, ReleasedAfterStop, HandoverInv
    <2>3. OnlyRefusalStrands
      BY DEF TransmitterInv, OnlyRefusalStrands, HandoverInv, TypeInv, TypeOK
    <2>4. QED
      BY <2>1, <2>2, <2>3 DEF OnceInOrder, HandedOver
  <1> HIDE DEF Goal
  <1>2. FastWrite => (Safety => []Goal)
    BY <1>1, TransmitterInvariant, PTL
  <1>3. QED
    BY <1>2, PTL DEF Goal

(* The two halves of it, each for the property that the runs check: the    *)
(* bytes that writeByte accepts,                                           *)
THEOREM BytesInOrder == FastWrite => (Safety => []OnceInOrder)
  BY TransmitterCorrect, PTL

(* and the hand-over of the transmitter between writeByte and the radio.   *)
THEOREM TransmitterReleased == FastWrite => (Safety => []HandedOver)
  BY TransmitterCorrect, PTL

-----------------------------------------------------------------------------
(***************************************************************************)
(* The transmitter implements the byte pipe.                               *)
(*                                                                         *)
(* PushIncr is the pipe's Accept, StopBit its Deliver, and every other     *)
(* step a stutter.  The invariant above bounds the backlog when a byte is  *)
(* accepted, and says that the frame of a stop bit is the byte that has    *)
(* waited longest.                                                         *)
(***************************************************************************)

\* what the refinement mapping substitutes
pending == SubSeq(accepted, Len(received) + 1, Len(accepted))
line    == [k \in 1 .. Len(received) |-> OnLine(received[k])]

Inv == TypeInv /\ TransmitterInv

(* A frame of one byte's bits is that byte on the line.                    *)
LEMMA WholeOnLine ==
    ASSUME NEW b
    PROVE  OnLine([i \in 1 .. StopBitPos |-> b]) = b
  <1>1. 1 \in 1 .. StopBitPos
    BY SerialAssumption
  <1>2. [i \in 1 .. StopBitPos |-> b][1] = b
    BY <1>1
  <1>3. QED
    BY <1>2 DEF OnLine

(* The sequences of the mapping, index by index.                           *)
Mapping ==
    /\ accepted \in Seq(Elem) /\ Len(received) \in Nat /\ Len(accepted) \in Nat
    /\ Len(received) <= Len(accepted)
    /\ pending \in Seq(Elem) /\ Len(pending) = Len(accepted) - Len(received)
    /\ \A i \in 1 .. Len(pending) : pending[i] = accepted[Len(received) + i]
    /\ line \in Seq(Elem) /\ Len(line) = Len(received)
    /\ \A i \in 1 .. Len(received) : line[i] = accepted[i]

LEMMA Mapped == Inv => Mapping
  <1> SUFFICES ASSUME Inv PROVE Mapping
    OBVIOUS
  <1>1. /\ accepted \in Seq(Elem) /\ received \in Seq(Seq(Elem))
        /\ Len(received) \in Nat /\ Len(accepted) \in Nat
    BY DEF Inv, TypeInv, TypeOK
  <1>2. /\ Len(received) <= Len(accepted)
        /\ \A k \in 1 .. Len(received) : received[k] = [i \in 1 .. StopBitPos |-> accepted[k]]
    BY DEF Inv, TransmitterInv, FrameInv, FramesFaithful
  <1> DEFINE n == Len(received)
             l == Len(accepted)
  <1>3. \A i \in n + 1 .. l : accepted[i] \in Elem
    BY <1>1
  <1>4. /\ pending \in Seq(Elem) /\ Len(pending) = IF n + 1 <= l THEN l - (n + 1) + 1 ELSE 0
        /\ \A i \in 1 .. l - (n + 1) + 1 : pending[i] = accepted[(n + 1) + i - 1]
    <2>1. n + 1 \in Int /\ l \in Int
      BY <1>1
    <2>2. QED
      BY <1>3, <2>1, SubSeqProperties DEF pending
  <1>5. ASSUME NEW k \in 1 .. n PROVE line[k] = accepted[k] /\ accepted[k] \in Elem
    <2>1. line[k] = OnLine(received[k])
      BY DEF line
    <2>2. received[k] = [i \in 1 .. StopBitPos |-> accepted[k]]
      BY <1>2
    <2>3. OnLine([i \in 1 .. StopBitPos |-> accepted[k]]) = accepted[k]
      BY WholeOnLine
    <2>4. accepted[k] \in Elem
      BY <1>1, <1>2
    <2>5. QED
      BY <2>1, <2>2, <2>3, <2>4
  <1>6. line \in Seq(Elem) /\ Len(line) = n
    BY <1>1, <1>5 DEF line
  <1> HIDE DEF n, l
  <1>7. Len(pending) = l - n /\ \A i \in 1 .. Len(pending) : pending[i] = accepted[n + i]
    BY <1>1, <1>2, <1>4 DEF n, l
  <1>8. QED
    BY <1>1, <1>2, <1>4, <1>5, <1>6, <1>7 DEF n, l, Mapping

LEMMA MappedNext == Inv' => Mapping'
  BY Mapped, PTL

(* The byte whose end index moves is the pipe's youngest.                  *)
LEMMA PushAccepts ==
    ASSUME Inv, Inv', PushIncr
    PROVE  \E b \in Elem : Pipe!Accept(b)
  <1> DEFINE b == tx.buf[tx.end]
             n == Len(received)
             l == Len(accepted)
  <1>1. accepted' = Append(accepted, b) /\ received' = received /\ pc = "incr"
    BY DEF PushIncr, lineVars
  <1>2. WellFormed(tx) /\ Fill(tx) = Len(accepted) - taken /\ Fill(tx) < Size
    BY <1>1 DEF Inv, TransmitterInv, RingInv, RingHoldsBacklog, HoldsInOrder, Settled
  <1>3. b \in Elem
    BY <1>2, RingFields DEF Slots
  <1>4. Len(received) \in {taken - 1, taken} /\ taken \in Nat
    BY DEF Inv, TypeInv, TypeOK, TransmitterInv, FrameInv
  <1>5. Len(pending) < Size + 1
    <2>1. Size \in Nat /\ Fill(tx) \in Int
      BY <1>2, RingFields
    <2>2. QED
      BY <1>2, <1>4, <2>1, Mapped DEF Mapping
  <1>6. line' = line
    BY <1>1 DEF line
  <1> HIDE DEF b
  <1>7. pending' = Append(pending, b)
    <2>1. /\ Append(pending, b) \in Seq(Elem) /\ Len(Append(pending, b)) = Len(pending) + 1
          /\ \A i \in 1 .. Len(pending) : Append(pending, b)[i] = pending[i]
          /\ Append(pending, b)[Len(pending) + 1] = b
      BY <1>3, Mapped, AppendProperties DEF Mapping
    <2>2. /\ Len(accepted') = l + 1 /\ accepted'[l + 1] = b
          /\ \A i \in 1 .. l : accepted'[i] = accepted[i]
      BY <1>1, <1>3, Mapped, AppendProperties DEF Mapping
    <2>3. /\ pending' \in Seq(Elem) /\ Len(pending') = Len(accepted') - Len(received')
          /\ \A i \in 1 .. Len(pending') : pending'[i] = accepted'[Len(received') + i]
      BY MappedNext DEF Mapping
    <2> HIDE DEF n, l
    <2>4. n = Len(received) /\ l = Len(accepted) /\ received' = received /\ l - n = Len(pending)
          /\ n \in Nat /\ l \in Nat /\ n <= l
      BY <1>1, Mapped DEF n, l, Mapping
    <2>5. Len(pending') = Len(Append(pending, b))
      <3>1. Len(accepted') = l + 1 /\ Len(received') = n
        BY <2>2, <2>4
      <3>2. Len(pending') = (l + 1) - n
        BY <2>3, <3>1
      <3>3. Len(Append(pending, b)) = (l - n) + 1
        BY <2>1, <2>4
      <3>4. QED
        BY <2>4, <3>2, <3>3
    <2>6. ASSUME NEW i \in 1 .. Len(pending')
          PROVE  pending'[i] = Append(pending, b)[i]
      <3>1. pending'[i] = accepted'[n + i]
        BY <2>3, <2>4
      <3>2. CASE i <= Len(pending)
        <4>1. i \in 1 .. Len(pending) /\ n + i \in 1 .. l
          BY <2>4, <2>5, <3>2
        <4>2. QED
          BY <2>1, <2>2, <2>4, <3>1, <4>1, Mapped DEF Mapping
      <3>3. CASE i = Len(pending) + 1
        <4>1. n + i = l + 1
          BY <2>4, <3>3
        <4>2. QED
          BY <2>1, <2>2, <3>1, <3>3, <4>1
      <3>4. QED
        BY <2>1, <2>4, <2>5, <3>2, <3>3
    <2>7. QED
      BY <2>1, <2>3, <2>5, <2>6, SeqEqual
  <1>8. QED
    BY <1>3, <1>5, <1>6, <1>7 DEF Pipe!Accept, pending, line

(* The frame that a stop bit completes is the pipe's oldest byte.          *)
LEMMA StopBitDelivers ==
    ASSUME Inv, Inv', StopBit
    PROVE  Pipe!Deliver
  <1> DEFINE n == Len(received)
             l == Len(accepted)
  <1>1. /\ session = "active" /\ bitPos = StopBitPos
        /\ received' = Append(received, frame) /\ accepted' = accepted
    BY DEF StopBit
  <1>2. /\ Len(received) = taken - 1 /\ taken \in Nat /\ taken >= 1
        /\ StopBitPos \in Nat /\ frame \in Seq(Elem) /\ received \in Seq(Seq(Elem))
    BY <1>1, SerialAssumption DEF Inv, TypeInv, TypeOK, TransmitterInv, FrameInv
  <1>3. Len(received') = n + 1
    BY <1>1, <1>2, AppendProperties
  <1> HIDE DEF n, l
  <1>4. /\ n \in Nat /\ l \in Nat /\ n = Len(received) /\ l = Len(accepted) /\ accepted' = accepted
        /\ Len(received') = n + 1
    BY <1>1, <1>3, Mapped DEF n, l, Mapping
  <1>5. n + 1 <= l /\ Len(pending) = l - n /\ Len(pending') = l - (n + 1)
    BY <1>4, Mapped, MappedNext DEF Mapping
  <1>6. /\ pending # <<>> /\ Head(pending) = pending[1]
        /\ Tail(pending) \in Seq(Elem) /\ Len(Tail(pending)) = Len(pending) - 1
        /\ \A i \in 1 .. Len(Tail(pending)) : Tail(pending)[i] = pending[i + 1]
    <2>1. pending # <<>> /\ pending \in Seq(Elem)
      BY <1>4, <1>5, Mapped DEF Mapping
    <2>2. Head(pending) = pending[1]
      BY <2>1
    <2>3. QED
      BY <2>1, <2>2, HeadTailProperties
  <1>7. pending' = Tail(pending)
    <2>1. ASSUME NEW i \in 1 .. Len(pending')
          PROVE  pending'[i] = Tail(pending)[i]
      <3>1. pending'[i] = accepted[(n + 1) + i]
        BY <1>4, MappedNext DEF Mapping
      <3>2. i \in 1 .. Len(Tail(pending)) /\ i + 1 \in 1 .. Len(pending)
        BY <1>4, <1>5, <1>6
      <3>3. pending[i + 1] = accepted[n + (i + 1)] /\ n + (i + 1) = (n + 1) + i
        BY <1>4, <3>2, Mapped DEF Mapping
      <3>4. QED
        BY <1>6, <3>1, <3>2, <3>3
    <2>2. Len(pending') = Len(Tail(pending)) /\ pending' \in Seq(Elem)
      <3>1. Len(Tail(pending)) = (l - n) - 1
        BY <1>5, <1>6
      <3>2. (l - n) - 1 = l - (n + 1)
        BY <1>4
      <3>3. QED
        BY <1>5, <3>1, <3>2, MappedNext DEF Mapping
    <2>3. QED
      BY <1>6, <2>1, <2>2, SeqEqual
  <1>8. line' = Append(line, Head(pending))
    <2>1. Head(pending) = accepted[n + 1] /\ Head(pending) \in Elem
      <3>1. 1 \in 1 .. Len(pending)
        BY <1>4, <1>5
      <3>2. pending[1] = accepted[n + 1] /\ pending[1] \in Elem
        BY <1>4, <3>1, Mapped DEF Mapping
      <3>3. QED
        BY <1>6, <3>2
    <2>2. /\ line \in Seq(Elem) /\ Len(line) = n /\ \A i \in 1 .. n : line[i] = accepted[i]
          /\ line' \in Seq(Elem) /\ Len(line') = n + 1
          /\ \A i \in 1 .. n + 1 : line'[i] = accepted[i]
      BY <1>4, Mapped, MappedNext DEF Mapping
    <2> DEFINE a == Append(line, Head(pending))
    <2>3. /\ a \in Seq(Elem) /\ Len(a) = n + 1 /\ a[n + 1] = Head(pending)
          /\ \A i \in 1 .. n : a[i] = line[i]
      BY <2>1, <2>2, AppendProperties
    <2> HIDE DEF a
    <2>4. \A i \in 1 .. n + 1 : i \in 1 .. n \/ i = n + 1
      BY <1>4
    <2>5. line' = a
      BY <2>1, <2>2, <2>3, <2>4, SeqEqual
    <2>6. QED
      BY <2>5 DEF a
  <1>9. QED
    BY <1>6, <1>7, <1>8 DEF Pipe!Deliver, pending, line

(* Every other step leaves the bytes and the frames alone.                 *)
LEMMA OthersStutter ==
    ASSUME [Next]_vars, ~PushIncr, ~StopBit
    PROVE  UNCHANGED <<accepted, received>>
  <1> USE DEF callVars, lineVars
  <1>1. CASE Begin \/ SlotEnded \/ UNCHANGED vars
    BY <1>1 DEF Begin, SlotEnded, vars
  <1>2. CASE (\E b \in Elem : WriteByte(b)) \/ PushToggle \/ PushReset
    BY <1>2 DEF WriteByte, PushToggle, PushReset
  <1>3. CASE TestBusy \/ RequestSlot \/ SetBusy
    BY <1>3 DEF TestBusy, RequestSlot, SetBusy
  <1>4. CASE (\E e \in SocEvents : SocEvent(e)) \/ (\E e \in {"BLOCKED", "CANCELED"} : SlotLost(e))
    BY <1>4 DEF SocEvent, SlotLost
  <1>5. CASE SlotStart \/ ExtendSucceeded
    BY <1>5 DEF SlotStart, ExtendSucceeded, Prepare
  <1>6. CASE ExtendFailed \/ DataBit \/ FrameEnd
    BY <1>6 DEF ExtendFailed, DataBit, FrameEnd
  <1>7. QED
    BY <1>1, <1>2, <1>3, <1>4, <1>5, <1>6 DEF Next, Write, Signal

(* The steps map to steps of the pipe, or to stutters.                     *)
LEMMA StepsRefine == Inv /\ Inv' /\ [Next]_vars => [Pipe!Next]_<<pending, line>>
  <1> SUFFICES ASSUME Inv, Inv', [Next]_vars PROVE [Pipe!Next]_<<pending, line>>
    OBVIOUS
  <1>1. CASE PushIncr
    BY <1>1, PushAccepts DEF Pipe!Next
  <1>2. CASE StopBit
    BY <1>2, StopBitDelivers DEF Pipe!Next
  <1>3. CASE ~PushIncr /\ ~StopBit
    BY <1>3, OthersStutter DEF pending, line
  <1>4. QED
    BY <1>1, <1>2, <1>3

LEMMA InitRefines == Init => Pipe!Init
  <1> SUFFICES ASSUME Init PROVE Pipe!Init
    OBVIOUS
  <1>1. accepted = <<>> /\ received = <<>>
    BY DEF Init
  <1>2. SubSeq(accepted, Len(received) + 1, Len(accepted)) = <<>>
    <2>1. Len(received) + 1 \in Int /\ Len(accepted) \in Int /\ Len(accepted) < Len(received) + 1
      BY <1>1
    <2>2. QED
      BY <2>1, SubSeqEmpty
  <1>3. [k \in 1 .. Len(received) |-> OnLine(received[k])] = <<>>
    BY <1>1
  <1>4. QED
    BY <1>2, <1>3 DEF Pipe!Init

(* With calls of writeByte shorter than a frame, AltSoftSerial over its    *)
(* timeslots implements the buffered transmitter of BytePipe: the bytes    *)
(* that writeByte accepts appear on the line once, whole and in order, and *)
(* at most one more than the ring has slots is under way.                  *)
THEOREM ImplementsPipe == FastWrite => (Safety => PipeSpec)
  <1>1. SUFFICES ASSUME FastWrite PROVE Safety => PipeSpec
    OBVIOUS
  <1>2. Safety => []Inv
    BY <1>1, TransmitterInvariant, PTL DEF Inv
  <1>3. Inv /\ Inv' /\ [Next]_vars
           => [Pipe!Next]_<<SubSeq(accepted, Len(received) + 1, Len(accepted)),
                            [k \in 1 .. Len(received) |-> OnLine(received[k])]>>
    BY StepsRefine DEF pending, line
  <1>4. QED
    BY <1>2, <1>3, InitRefines, PTL DEF Safety, PipeSpec, Pipe!Spec
=============================================================================
