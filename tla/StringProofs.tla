----------------------------- MODULE StringProofs -----------------------------
(***************************************************************************)
(* The class String, for literals of any length and any positions: after   *)
(* every step each object holds a text, the step is one that StringValue   *)
(* promises, and the queries answer what their definition over that text   *)
(* says.                                                                   *)
(*                                                                         *)
(* An object that Holds a text has its characters, then a NUL, then what   *)
(* is left in the buffer.  What a loop over the buffer computes is stated  *)
(* as a recursion over the text and proved by induction on the place it    *)
(* has reached.                                                            *)
(***************************************************************************)
EXTENDS MCArduino, TextProofs

-----------------------------------------------------------------------------
(* Texts, and the characters of a buffer.                                  *)

Char == 1 .. 255

Texts == Seq(Char)

(* The least and the greatest of some places.                              *)
LEMMA LeastIs ==
  ASSUME NEW T \in SUBSET Nat, T # {}
  PROVE  Least(T) \in T /\ \A i \in T : Least(T) <= i
<1>1. \E x \in T : \A y \in T : x <= y BY LeastNumber
<1>. QED BY <1>1 DEF Least

LEMMA LargestIs ==
  ASSUME NEW N \in Int, NEW T \in SUBSET Int, T # {}, \A i \in T : i <= N
  PROVE  Largest(T) \in T /\ \A i \in T : Largest(T) >= i
<1>. DEFINE D == {N - i : i \in T}
<1>1. D \in SUBSET Nat /\ D # {}
  <2>1. \A i \in T : N - i \in Nat OBVIOUS
  <2>. QED BY <2>1
<1>2. PICK x \in D : \A y \in D : x <= y
  <2>. HIDE DEF D
  <2>. QED BY <1>1, LeastNumber
<1>3. PICK m \in T : x = N - m BY <1>2
<1>4. \A i \in T : m >= i
  <2>1. ASSUME NEW i \in T PROVE m >= i
    <3>1. N - i \in D OBVIOUS
    <3>2. x <= N - i BY <3>1, <1>2
    <3>. QED BY <3>2, <1>3
  <2>. QED BY <2>1
<1>. QED BY <1>3, <1>4 DEF Largest

-----------------------------------------------------------------------------
(* Places where a text occurs.                                             *)

At(s, f, i) == i + Len(f) <= Len(s) /\ \A k \in 1 .. Len(f) : s[i + k] = f[k]

LEMMA PartIs ==
  ASSUME NEW s \in Seq(Int), NEW i \in Nat, NEW j \in Nat, j <= Len(s)
  PROVE  /\ SubSeq(s, i + 1, j) \in Seq(Int)
         /\ Len(SubSeq(s, i + 1, j)) = IF i <= j THEN j - i ELSE 0
         /\ \A k \in 1 .. j - i : SubSeq(s, i + 1, j)[k] = s[i + k]
<1>1. \A k \in i + 1 .. j : s[k] \in Int OBVIOUS
<1>2. /\ SubSeq(s, i + 1, j) \in Seq(Int)
      /\ Len(SubSeq(s, i + 1, j)) = IF i + 1 <= j THEN j - (i + 1) + 1 ELSE 0
      /\ \A k \in 1 .. j - (i + 1) + 1 : SubSeq(s, i + 1, j)[k] = s[(i + 1) + k - 1]
  BY <1>1, SubSeqProperties
<1>. QED BY <1>2

LEMMA OccursIs ==
  ASSUME NEW s \in Seq(Int), NEW f \in Seq(Int), NEW i \in Nat
  PROVE  /\ Values!OccursAt(s, f, i) <=> At(s, f, i)
         /\ i \in Occurrences(s, f) <=> At(s, f, i)
<1>1. ASSUME i + Len(f) <= Len(s)
      PROVE  SubSeq(s, i + 1, i + Len(f)) = f <=> \A k \in 1 .. Len(f) : s[i + k] = f[k]
  <2>. DEFINE p == SubSeq(s, i + 1, i + Len(f))
  <2>1. p \in Seq(Int) /\ Len(p) = Len(f) /\ \A k \in 1 .. Len(f) : p[k] = s[i + k]
    <3>1. i + Len(f) \in Nat OBVIOUS
    <3>2. /\ p \in Seq(Int) /\ Len(p) = IF i <= i + Len(f) THEN i + Len(f) - i ELSE 0
          /\ \A k \in 1 .. i + Len(f) - i : p[k] = s[i + k]
      BY <3>1, <1>1, PartIs
    <3>. QED BY <3>2
  <2>. HIDE DEF p
  <2>2. (\A k \in 1 .. Len(f) : p[k] = f[k]) => p = f BY <2>1, SeqEqual
  <2>. QED BY <2>1, <2>2 DEF p
<1>2. i \in Occurrences(s, f) <=> i + Len(f) <= Len(s) /\ SubSeq(s, i + 1, i + Len(f)) = f
  BY DEF Occurrences
<1>3. Values!OccursAt(s, f, i) <=> i + Len(f) <= Len(s) /\ SubSeq(s, i + 1, i + Len(f)) = f
  BY DEF Values!OccursAt
<1>. QED BY <1>1, <1>2, <1>3 DEF At

LEMMA OccurrencesNat ==
  ASSUME NEW s, NEW f
  PROVE  \A i \in Occurrences(s, f) : i \in Nat
BY DEF Occurrences

LEMMA FoundFromIs ==
  ASSUME NEW s \in Seq(Int), NEW f \in Seq(Int), NEW from \in Nat
  PROVE  /\ FoundFrom(s, f, from) \in SUBSET Nat
         /\ \A i \in Nat : i \in FoundFrom(s, f, from) <=> i >= from /\ At(s, f, i)
BY OccursIs, OccurrencesNat DEF FoundFrom

(* What strstr finds from a place on.                                      *)
LEMMA FirstFound ==
  ASSUME NEW s \in Seq(Int), NEW f \in Seq(Int), NEW from \in Nat, FoundFrom(s, f, from) # {}
  PROVE  LET at == Least(FoundFrom(s, f, from))
         IN  /\ at \in Nat /\ at >= from /\ At(s, f, at)
             /\ \A i \in from .. at - 1 : ~At(s, f, i)
<1>. DEFINE at == Least(FoundFrom(s, f, from))
<1>1. /\ FoundFrom(s, f, from) \in SUBSET Nat
      /\ \A i \in Nat : i \in FoundFrom(s, f, from) <=> i >= from /\ At(s, f, i)
  BY FoundFromIs
<1>2. at \in FoundFrom(s, f, from) /\ \A i \in FoundFrom(s, f, from) : at <= i
  BY <1>1, LeastIs
<1>. HIDE DEF at
<1>3. at \in Nat /\ at >= from /\ At(s, f, at) BY <1>1, <1>2
<1>4. ASSUME NEW i \in from .. at - 1 PROVE ~At(s, f, i)
  <2>1. i \in Nat /\ i >= from /\ ~(at <= i) BY <1>3
  <2>. QED BY <2>1, <1>1, <1>2
<1>. QED BY <1>3, <1>4 DEF at

LEMMA NoneFound ==
  ASSUME NEW s \in Seq(Int), NEW f \in Seq(Int), NEW from \in Nat, FoundFrom(s, f, from) = {}
  PROVE  \A i \in Nat : i >= from => ~At(s, f, i)
BY FoundFromIs

-----------------------------------------------------------------------------
(* Buffers.                                                                *)

\* a buffer holds a text and its terminator
Holds(chars, t) ==
    /\ chars \in Seq(Int) /\ t \in Texts /\ Len(t) < Len(chars)
    /\ \A i \in 1 .. Len(t) : chars[i] = t[i]
    /\ chars[Len(t) + 1] = Nul

LEMMA TextsAreInts == Texts \subseteq Seq(Int) /\ \A t \in Texts : Len(t) \in Nat
  /\ \A i \in 1 .. Len(t) : t[i] \in Char /\ t[i] \in Int /\ t[i] # Nul
<1>1. Char \subseteq Int BY DEF Char
<1>2. ASSUME NEW t \in Texts PROVE t \in Seq(Int)
  BY <1>1, SeqMonotonic DEF Texts
<1>3. ASSUME NEW t \in Texts
      PROVE  Len(t) \in Nat /\ \A i \in 1 .. Len(t) : t[i] \in Char /\ t[i] \in Int /\ t[i] # Nul
  <2>1. t \in Seq(Char) BY DEF Texts
  <2>2. Len(t) \in Nat /\ \A i \in 1 .. Len(t) : t[i] \in Char BY <2>1, LenProperties, ElementOfSeq
  <2>3. \A c \in Char : c \in Int /\ c # Nul BY DEF Char, Nul
  <2>. QED BY <2>2, <2>3
<1>. QED BY <1>2, <1>3

LEMMA HeldText ==
  ASSUME NEW chars, NEW t, Holds(chars, t)
  PROVE  CString(chars) = t
<1>1. /\ chars \in Seq(Int) /\ t \in Texts /\ Len(t) \in Nat /\ Len(chars) \in Nat
      /\ Len(t) < Len(chars) /\ chars[Len(t) + 1] = Nul
      /\ \A i \in 1 .. Len(t) : chars[i] = t[i] /\ chars[i] # Nul
  BY TextsAreInts DEF Holds
<1>. DEFINE Ends(n) == chars[n] = Nul /\ \A m \in 1 .. n - 1 : chars[m] # Nul
<1>2. Len(t) + 1 \in 1 .. Len(chars) /\ Ends(Len(t) + 1) BY <1>1
<1>3. ASSUME NEW n \in 1 .. Len(chars), Ends(n) PROVE n = Len(t) + 1
  <2>1. ~(n <= Len(t)) BY <1>1, <1>3
  <2>2. ~(Len(t) + 1 < n) BY <1>1, <1>3
  <2>. QED BY <2>1, <2>2, <1>1
<1>. DEFINE end == CHOOSE n \in 1 .. Len(chars) : Ends(n)
<1>4. end = Len(t) + 1
  <2>. HIDE DEF Ends
  <2>. QED BY <1>2, <1>3
<1>5. CString(chars) = SubSeq(chars, 1, Len(t) + 1 - 1)
  <2>1. CString(chars) = SubSeq(chars, 1, end - 1) BY DEF CString
  <2>. HIDE DEF end
  <2>. QED BY <2>1, <1>4
<1>6. SubSeq(chars, 0 + 1, Len(t)) = t
  <2>. DEFINE p == SubSeq(chars, 0 + 1, Len(t))
  <2>1. p \in Seq(Int) /\ Len(p) = Len(t) /\ \A k \in 1 .. Len(t) : p[k] = chars[k]
    <3>1. /\ p \in Seq(Int) /\ Len(p) = (IF 0 <= Len(t) THEN Len(t) - 0 ELSE 0)
          /\ \A k \in 1 .. Len(t) - 0 : p[k] = chars[0 + k]
      BY <1>1, PartIs
    <3>. QED BY <3>1, <1>1
  <2>2. t \in Seq(Int) BY <1>1, TextsAreInts
  <2>. HIDE DEF p
  <2>3. p = t BY <2>1, <2>2, <1>1, SeqEqual
  <2>. QED BY <2>3 DEF p
<1>. QED BY <1>1, <1>5, <1>6

LEMMA SettledHolds ==
  ASSUME NEW chars, NEW t, Holds(chars, t)
  PROVE  Holds(Settled(chars), t) /\ Len(Settled(chars)) = Len(chars)
<1>1. /\ chars \in Seq(Int) /\ t \in Texts /\ Len(t) \in Nat /\ Len(chars) \in Nat
      /\ Len(t) < Len(chars) /\ chars[Len(t) + 1] = Nul
      /\ \A i \in 1 .. Len(t) : chars[i] = t[i] /\ chars[i] # Nul
  BY TextsAreInts DEF Holds
<1>. DEFINE c == Settled(chars)
<1>2. c \in Seq(Int) /\ Len(c) = Len(chars)
  BY <1>1 DEF Settled, Junk
<1>3. \A i \in 1 .. Len(chars) : c[i] = IF \E j \in 1 .. i - 1 : chars[j] = Nul THEN Junk ELSE chars[i]
  BY DEF Settled
<1>. HIDE DEF c
<1>4. \A i \in 1 .. Len(t) + 1 : c[i] = chars[i]
  <2>1. ASSUME NEW i \in 1 .. Len(t) + 1 PROVE c[i] = chars[i]
    <3>1. i \in 1 .. Len(chars) /\ ~(\E j \in 1 .. i - 1 : chars[j] = Nul) BY <1>1
    <3>. QED BY <3>1, <1>3
  <2>. QED BY <2>1
<1>5. Holds(c, t)
  <2>1. \A i \in 1 .. Len(t) : c[i] = chars[i] BY <1>1, <1>4
  <2>2. c[Len(t) + 1] = chars[Len(t) + 1] BY <1>1, <1>4
  <2>. QED BY <1>1, <1>2, <2>1, <2>2 DEF Holds
<1>. QED BY <1>2, <1>5 DEF c

LEMMA PokeIs ==
  ASSUME NEW chars \in Seq(Int), NEW at \in Nat, NEW bytes \in Seq(Int)
  PROVE  /\ Poke(chars, at, bytes) \in Seq(Int) /\ Len(Poke(chars, at, bytes)) = Len(chars)
         /\ \A i \in 1 .. Len(chars) :
               Poke(chars, at, bytes)[i] =
                  IF i - at \in 1 .. Len(bytes) THEN bytes[i - at] ELSE chars[i]
<1>1. \A i \in 1 .. Len(chars) :
        (IF i - at \in 1 .. Len(bytes) THEN bytes[i - at] ELSE chars[i]) \in Int
  OBVIOUS
<1>. QED BY <1>1 DEF Poke
-----------------------------------------------------------------------------
Objects == [len : Nat, chars : Seq(Int)]

\* an object whose value is a text
IsString(s, t) == s \in Objects /\ s.len = Len(t) /\ Holds(s.chars, t)

StringInv(s) == s = Invalid \/ \E t \in Texts : IsString(s, t)

LEMMA InvalidIs ==
  ~Valid(Invalid) /\ Invalid.len = 0 /\ Invalid.chars = <<>> /\ ValueOf(Invalid) = NoText
  /\ Invalid \in Objects /\ NoText \notin Texts /\ Len(Invalid.chars) = 0
<1>1. NoText \notin Texts
  <2>1. NoText[1] = Junk /\ Len(NoText) = 1 BY DEF NoText
  <2>2. Junk \notin Char BY DEF Junk, Char
  <2>3. NoText \in Seq(Char) => NoText[1] \in Char BY <2>1, ElementOfSeq
  <2>. QED BY <2>1, <2>2, <2>3 DEF Texts
<1>2. Invalid \in Objects /\ Invalid.len = 0 /\ Invalid.chars = <<>> BY DEF Invalid, Objects
<1>3. ~Valid(Invalid) BY <1>2 DEF Valid
<1>. QED BY <1>1, <1>2, <1>3 DEF ValueOf

LEMMA StringIs ==
  ASSUME NEW s, NEW t, IsString(s, t)
  PROVE  /\ t \in Texts /\ Valid(s) /\ TextOf(s) = t /\ ValueOf(s) = t /\ s # Invalid
         /\ s.len = Len(t) /\ s.chars \in Seq(Int) /\ s.len \in Nat
         /\ Capacity(s) \in Nat /\ Len(t) <= Capacity(s) /\ Capacity(s) = Len(s.chars) - 1
         /\ \A i \in 1 .. Len(t) : s.chars[i] = t[i] /\ s.chars[i] \in Char
         /\ s.chars[Len(t) + 1] = Nul
<1>1. /\ s \in Objects /\ s.len = Len(t) /\ s.chars \in Seq(Int) /\ t \in Texts
      /\ Len(t) < Len(s.chars) /\ s.chars[Len(t) + 1] = Nul
      /\ \A i \in 1 .. Len(t) : s.chars[i] = t[i]
  BY DEF IsString, Holds
<1>2. Len(t) \in Nat /\ \A i \in 1 .. Len(t) : t[i] \in Char BY <1>1, TextsAreInts
<1>3. Valid(s)
  <2>1. Len(s.chars) # 0 BY <1>1, <1>2
  <2>2. Len(<<>>) = 0 OBVIOUS
  <2>. QED BY <2>1, <2>2 DEF Valid
<1>4. s # Invalid BY <1>3, InvalidIs
<1>5. TextOf(s) = t BY HeldText DEF IsString, TextOf
<1>6. ValueOf(s) = t BY <1>3, <1>5 DEF ValueOf
<1>7. Len(s.chars) \in Nat BY <1>1
<1>8. Capacity(s) \in Nat /\ Len(t) <= Capacity(s) /\ Capacity(s) = Len(s.chars) - 1
  BY <1>1, <1>2, <1>7 DEF Capacity
<1>. QED BY <1>1, <1>2, <1>3, <1>4, <1>5, <1>6, <1>8

LEMMA HaveValues ==
  ASSUME NEW s, StringInv(s)
  PROVE  /\ Valid(s) <=> s # Invalid
         /\ Valid(s) => TextOf(s) \in Texts /\ IsString(s, TextOf(s)) /\ ValueOf(s) = TextOf(s)
         /\ Valid(s) <=> ValueOf(s) # NoText
         /\ ~Valid(s) => s = Invalid
         /\ s \in Objects
<1>1. CASE s = Invalid BY <1>1, InvalidIs
<1>2. CASE s # Invalid
  <2>1. PICK t \in Texts : IsString(s, t) BY <1>2 DEF StringInv
  <2>2. Valid(s) /\ TextOf(s) = t /\ ValueOf(s) = t BY <2>1, StringIs
  <2>3. s \in Objects BY <2>1 DEF IsString
  <2>4. t # NoText BY InvalidIs
  <2>. QED BY <1>2, <2>1, <2>2, <2>3, <2>4
<1>. QED BY <1>1, <1>2

LEMMA EmptyText == <<>> \in Texts /\ Len(<<>>) = 0 /\ \A t \in Texts : Len(t) = 0 => t = <<>>
<1>1. <<>> \in Texts BY DEF Texts
<1>2. ASSUME NEW t \in Texts, Len(t) = 0 PROVE t = <<>>
  BY <1>2, EmptySeq DEF Texts
<1>. QED BY <1>1, <1>2

LEMMA TextConcat ==
  ASSUME NEW t \in Texts, NEW u \in Texts
  PROVE  /\ t \o u \in Texts /\ Len(t \o u) = Len(t) + Len(u)
         /\ \A i \in 1 .. Len(t) + Len(u) :
               (t \o u)[i] = IF i <= Len(t) THEN t[i] ELSE u[i - Len(t)]
BY ConcatProperties DEF Texts

(* The memory for a size.                                                  *)
LEMMA ReserveIs ==
  ASSUME NEW s, StringInv(s), NEW size \in Nat
  PROVE  /\ Reserve(s, size).chars \in Seq(Int) /\ size < Len(Reserve(s, size).chars)
         /\ \A t : IsString(s, t) => IsString(Reserve(s, size), t)
         /\ s = Invalid => IsString(Reserve(s, size), <<>>)
<1>1. s \in Objects /\ Len(s.chars) \in Nat /\ s.len \in Nat BY HaveValues DEF Objects
<1>2. CASE Valid(s) /\ Capacity(s) >= size
  <2>1. Reserve(s, size) = s BY <1>2 DEF Reserve
  <2>2. size < Len(s.chars) BY <1>1, <1>2 DEF Capacity
  <2>3. s # Invalid BY <1>2, InvalidIs
  <2>. QED BY <1>1, <2>1, <2>2, <2>3 DEF Objects
<1>3. CASE ~(Valid(s) /\ Capacity(s) >= size)
  <2>. DEFINE J == JunkFrom(Len(s.chars), size + 1)
              c == s.chars \o J
              k == [c EXCEPT ![1] = Nul]
  <2>1. Len(s.chars) <= size
    <3>1. CASE ~Valid(s) BY <3>1, HaveValues, InvalidIs
    <3>2. CASE Valid(s) BY <3>2, <1>1, <1>3 DEF Capacity
    <3>. QED BY <3>1, <3>2
  <2>2. J \in Seq(Int) /\ Len(J) = size + 1 - Len(s.chars)
    <3>. DEFINE m == size + 1 - Len(s.chars)
    <3>1. m \in Nat BY <1>1, <2>1
    <3>2. J = [i \in 1 .. m |-> Junk] BY DEF JunkFrom
    <3>. HIDE DEF m, J
    <3>3. J \in Seq(Int) /\ Len(J) = m BY <3>1, <3>2 DEF Junk
    <3>. QED BY <3>3 DEF m
  <2>. HIDE DEF J
  <2>3. /\ c \in Seq(Int) /\ Len(c) = size + 1
        /\ \A i \in 1 .. Len(s.chars) : c[i] = s.chars[i]
    <3>1. s.chars \in Seq(Int) BY <1>1 DEF Objects
    <3>2. /\ c \in Seq(Int) /\ Len(c) = Len(s.chars) + Len(J)
          /\ \A i \in 1 .. Len(s.chars) + Len(J) : c[i] =
                IF i <= Len(s.chars) THEN s.chars[i] ELSE J[i - Len(s.chars)]
      BY <2>2, <3>1, ConcatProperties
    <3>. HIDE DEF c
    <3>. QED BY <3>2, <2>2, <1>1, <2>1, SMTT(30)
  <2>. HIDE DEF c
  <2>4. k \in Seq(Int) /\ Len(k) = size + 1 /\ k[1] = Nul
        /\ \A i \in 2 .. Len(s.chars) : k[i] = s.chars[i]
    <3>1. 1 \in 1 .. Len(c) /\ Nul \in Int BY <2>3 DEF Nul
    <3>2. k \in Seq(Int) /\ Len(k) = Len(c)
          /\ \A j \in 1 .. Len(c) : k[j] = IF j = 1 THEN Nul ELSE c[j]
      BY <2>3, <3>1, ExceptSeq
    <3>. QED BY <3>1, <3>2, <2>3, <1>1, <2>1
  <2>. HIDE DEF k
  <2>5. ChangeBuffer(s, size) = [s EXCEPT !.chars = c] BY DEF ChangeBuffer, c, J
  <2>6. /\ s.len # 0 => Reserve(s, size) = [s EXCEPT !.chars = c]
        /\ s.len = 0 => Reserve(s, size) = [s EXCEPT !.chars = k]
    <3>. DEFINE g == ChangeBuffer(s, size)
    <3>1. Reserve(s, size) = IF s.len = 0 THEN [g EXCEPT !.chars[1] = Nul] ELSE g
      BY <1>3 DEF Reserve
    <3>2. g \in Objects /\ g.chars = c /\ g = [s EXCEPT !.chars = c]
      BY <2>5, <2>3, <1>1 DEF Objects
    <3>. HIDE DEF g
    <3>3. [g EXCEPT !.chars[1] = Nul] = [g EXCEPT !.chars = k] BY <3>2 DEF Objects, k
    <3>4. [g EXCEPT !.chars = k] = [s EXCEPT !.chars = k] BY <3>2, <1>1 DEF Objects
    <3>. QED BY <3>1, <3>2, <3>3, <3>4
  <2>7. ASSUME NEW t, IsString(s, t) PROVE IsString(Reserve(s, size), t)
    <3>1. /\ t \in Texts /\ Len(t) \in Nat /\ s.len = Len(t) /\ Len(t) < Len(s.chars)
          /\ s.chars[Len(t) + 1] = Nul /\ \A i \in 1 .. Len(t) : s.chars[i] = t[i]
      BY <2>7, TextsAreInts DEF IsString, Holds
    <3>2. CASE s.len = 0
      <4>1. Holds(k, t) BY <3>1, <3>2, <2>4 DEF Holds
      <4>2. [s EXCEPT !.chars = k] \in Objects /\ [s EXCEPT !.chars = k].chars = k
            /\ [s EXCEPT !.chars = k].len = s.len
        BY <1>1, <2>4 DEF Objects
      <4>. QED BY <4>1, <4>2, <3>1, <3>2, <2>6 DEF IsString
    <3>3. CASE s.len # 0
      <4>1. Holds(c, t) BY <3>1, <2>3, <2>1, <1>1, SMTT(30) DEF Holds
      <4>2. [s EXCEPT !.chars = c] \in Objects /\ [s EXCEPT !.chars = c].chars = c
            /\ [s EXCEPT !.chars = c].len = s.len
        BY <1>1, <2>3 DEF Objects
      <4>. QED BY <4>1, <4>2, <3>1, <3>3, <2>6 DEF IsString
    <3>. QED BY <3>2, <3>3
  <2>8. ASSUME s = Invalid PROVE IsString(Reserve(s, size), <<>>)
    <3>1. s.len = 0 BY <2>8, InvalidIs
    <3>2. Holds(k, <<>>) BY EmptyText, <2>4 DEF Holds
    <3>3. [s EXCEPT !.chars = k] \in Objects /\ [s EXCEPT !.chars = k].chars = k
          /\ [s EXCEPT !.chars = k].len = s.len
      BY <1>1, <2>4 DEF Objects
    <3>. QED BY <3>1, <3>2, <3>3, <2>6, EmptyText DEF IsString
  <2>9. Reserve(s, size).chars \in Seq(Int) /\ size < Len(Reserve(s, size).chars)
    BY <2>3, <2>4, <2>6, <1>1 DEF Objects
  <2>. QED BY <2>7, <2>8, <2>9
<1>. QED BY <1>2, <1>3

(* A text and its terminator behind another text.                          *)
LEMMA PokeHolds ==
  ASSUME NEW chars \in Seq(Int), NEW t \in Texts, NEW text \in Texts,
         Len(t) + Len(text) < Len(chars), \A i \in 1 .. Len(t) : chars[i] = t[i]
  PROVE  Holds(Poke(chars, Len(t), Append(text, Nul)), t \o text)
<1>1. Len(t) \in Nat /\ Len(text) \in Nat /\ text \in Seq(Int) BY TextsAreInts
<1>. DEFINE b == Append(text, Nul)
            p == Poke(chars, Len(t), b)
            u == t \o text
<1>2. b \in Seq(Int) /\ Len(b) = Len(text) + 1 /\ b[Len(text) + 1] = Nul
      /\ \A i \in 1 .. Len(text) : b[i] = text[i]
  BY <1>1 DEF Nul
<1>3. u \in Texts /\ Len(u) = Len(t) + Len(text)
      /\ \A i \in 1 .. Len(t) + Len(text) : u[i] = IF i <= Len(t) THEN t[i] ELSE text[i - Len(t)]
  BY TextConcat
<1>. HIDE DEF b, u
<1>4. p \in Seq(Int) /\ Len(p) = Len(chars)
      /\ \A i \in 1 .. Len(chars) :
            p[i] = IF i - Len(t) \in 1 .. Len(b) THEN b[i - Len(t)] ELSE chars[i]
  BY <1>1, <1>2, PokeIs
<1>. HIDE DEF p
<1>5. ASSUME NEW i \in 1 .. Len(u) PROVE p[i] = u[i]
  <2>1. i \in 1 .. Len(chars) /\ i \in 1 .. Len(t) + Len(text) BY <1>1, <1>3
  <2>2. CASE i <= Len(t)
    <3>1. i - Len(t) \notin 1 .. Len(b) /\ i \in 1 .. Len(t) BY <2>1, <2>2, <1>1
    <3>2. p[i] = chars[i] BY <3>1, <2>1, <1>4
    <3>. QED BY <3>1, <3>2, <2>1, <2>2, <1>3
  <2>3. CASE ~(i <= Len(t))
    <3>1. i - Len(t) \in 1 .. Len(b) /\ i - Len(t) \in 1 .. Len(text) BY <2>1, <2>3, <1>1, <1>2, SMTT(30)
    <3>2. p[i] = b[i - Len(t)] BY <3>1, <2>1, <1>4
    <3>. QED BY <3>1, <3>2, <2>1, <2>3, <1>2, <1>3
  <2>. QED BY <2>2, <2>3
<1>6. p[Len(u) + 1] = Nul
  <2>1. Len(u) + 1 \in 1 .. Len(chars) /\ Len(u) + 1 - Len(t) = Len(text) + 1 BY <1>1, <1>3
  <2>2. Len(text) + 1 \in 1 .. Len(b) BY <1>1, <1>2
  <2>. QED BY <2>1, <2>2, <1>2, <1>4, SMTT(30)
<1>7. Len(u) < Len(p) BY <1>3, <1>4
<1>8. Holds(p, u) BY <1>3, <1>4, <1>5, <1>6, <1>7 DEF Holds
<1>. QED BY <1>8 DEF p, u, b

LEMMA MadeOf ==
  ASSUME NEW c, NEW t, Holds(c, t), NEW n, n = Len(t)
  PROVE  IsString([len |-> n, chars |-> c], t)
<1>1. c \in Seq(Int) /\ t \in Texts /\ Len(t) \in Nat BY TextsAreInts DEF Holds
<1>. QED BY <1>1 DEF IsString, Objects

LEMMA CopyIs ==
  ASSUME NEW s, StringInv(s), NEW text \in Texts
  PROVE  IsString(Copy(s, text), text)
<1>. DEFINE r == Reserve(s, Len(text))
            p == Poke(r.chars, 0, Append(text, Nul))
<1>1. Len(text) \in Nat BY TextsAreInts
<1>2. r.chars \in Seq(Int) /\ Len(text) < Len(r.chars) BY <1>1, ReserveIs
<1>. HIDE DEF r
<1>3. Holds(Poke(r.chars, Len(<<>>), Append(text, Nul)), <<>> \o text)
  <2>1. <<>> \in Texts /\ Len(<<>>) + Len(text) < Len(r.chars) BY <1>1, <1>2, EmptyText
  <2>2. \A i \in 1 .. Len(<<>>) : r.chars[i] = <<>>[i] BY EmptyText
  <2>. QED BY <1>2, <2>1, <2>2, PokeHolds
<1>4. <<>> \o text = text BY ConcatEmptySeq DEF Texts
<1>5. Holds(p, text) BY <1>3, <1>4, EmptyText
<1>6. Holds(Settled(p), text) BY <1>5, SettledHolds
<1>7. Copy(s, text) = [len |-> Len(text), chars |-> Settled(p)] BY DEF Copy, r
<1>. HIDE DEF p
<1>. QED BY <1>6, <1>7, MadeOf

LEMMA ConcatIs ==
  ASSUME NEW s, StringInv(s), NEW text \in Texts, text # <<>>
  PROVE  /\ \A t : IsString(s, t) => IsString(ConcatText(s, text), t \o text)
         /\ s = Invalid => IsString(ConcatText(s, text), text)
<1>1. Len(text) \in Nat BY TextsAreInts
<1>2. ASSUME NEW t, IsString(Reserve(s, s.len + Len(text)), t), s.len = Len(t)
      PROVE  IsString(ConcatText(s, text), t \o text)
  <2>. DEFINE r == Reserve(s, s.len + Len(text))
              p == Poke(r.chars, s.len, Append(text, Nul))
  <2>0. s.len + Len(text) \in Nat BY <1>1, HaveValues DEF Objects
  <2>1. s.len + Len(text) < Len(r.chars) BY <2>0, ReserveIs
  <2>. HIDE DEF r
  <2>2. t \in Texts /\ r.chars \in Seq(Int) /\ \A i \in 1 .. Len(t) : r.chars[i] = t[i]
    BY <1>2 DEF IsString, Holds, r
  <2>3. Holds(p, t \o text) BY <2>1, <2>2, <1>2, PokeHolds
  <2>4. Holds(Settled(p), t \o text) BY <2>3, SettledHolds
  <2>5. ConcatText(s, text) = [len |-> s.len + Len(text), chars |-> Settled(p)]
    BY DEF ConcatText, r
  <2>6. s.len + Len(text) = Len(t \o text) BY <1>2, <2>2, TextConcat
  <2>. HIDE DEF p
  <2>. QED BY <2>4, <2>5, <2>6, MadeOf
<1>3. ASSUME NEW t, IsString(s, t) PROVE IsString(ConcatText(s, text), t \o text)
  <2>1. s.len = Len(t) /\ s.len + Len(text) \in Nat BY <1>1, <1>3, StringIs
  <2>2. IsString(Reserve(s, s.len + Len(text)), t) BY <1>3, <2>1, ReserveIs
  <2>. QED BY <1>2, <2>1, <2>2
<1>4. ASSUME s = Invalid PROVE IsString(ConcatText(s, text), text)
  <2>1. s.len = 0 BY <1>4, InvalidIs
  <2>2. IsString(Reserve(s, s.len + Len(text)), <<>>) BY <1>1, <1>4, <2>1, ReserveIs
  <2>3. IsString(ConcatText(s, text), <<>> \o text) BY <1>2, <2>1, <2>2, EmptyText
  <2>4. <<>> \o text = text BY ConcatEmptySeq DEF Texts
  <2>. QED BY <2>3, <2>4
<1>. QED BY <1>3, <1>4
-----------------------------------------------------------------------------
Stays == StringInv(this) /\ StringInv(that)

\* a step of the values, or none
ValueStep == [Values!Next]_<<ValueOf(this), ValueOf(that)>>

LEMMA LiteralsAreTexts == Literals \subseteq Texts /\ <<>> \in Literals /\ <<97>> \in Texts
<1>1. Literals \subseteq Texts /\ <<>> \in Literals BY StringsAssumption DEF Texts, Char
<1>2. 97 \in Char BY DEF Char
<1>3. <<97>> \in Texts BY <1>2 DEF Texts
<1>. QED BY <1>1, <1>3

(* What a step makes of this.                                              *)
LEMMA MakesThis ==
  ASSUME Stays, that' = that, NEW t, IsString(this', t)
  PROVE  /\ Stays' /\ ValueOf(this)' = t /\ ValueOf(that)' = ValueOf(that)
<1>1. t \in Texts /\ ValueOf(this') = t BY StringIs
<1>2. StringInv(this') BY <1>1 DEF StringInv
<1>. QED BY <1>1, <1>2 DEF Stays

LEMMA MakesInvalid ==
  ASSUME Stays, that' = that, this' = Invalid
  PROVE  Stays' /\ ValueOf(this)' = NoText /\ ValueOf(that)' = ValueOf(that)
<1>1. StringInv(this') BY DEF StringInv
<1>2. ValueOf(this') = NoText BY InvalidIs
<1>. QED BY <1>1, <1>2 DEF Stays

LEMMA MakesNothing ==
  ASSUME Stays, this' = this, that' = that
  PROVE  Stays' /\ ValueStep
BY DEF Stays, ValueStep

LEMMA ReserveMoreKeeps ==
  ASSUME Stays, NEW size \in Positions, ReserveMore(size)
  PROVE  Stays' /\ ValueStep
<1>1. size \in Nat BY StringsAssumption
<1>2. that' = that /\ this' \in {Reserve(this, size), this} BY DEF ReserveMore
<1>3. StringInv(this) BY DEF Stays
<1>4. CASE this' = this BY <1>2, <1>4, MakesNothing
<1>5. CASE this' = Reserve(this, size) /\ this = Invalid
  <2>1. IsString(this', <<>>) BY <1>1, <1>3, <1>5, ReserveIs
  <2>2. Stays' /\ ValueOf(this)' = <<>> /\ ValueOf(that)' = ValueOf(that)
    BY <1>2, <2>1, MakesThis
  <2>3. Values!Assigned BY <2>2, LiteralsAreTexts DEF Values!Assigned
  <2>. QED BY <2>2, <2>3 DEF ValueStep, Values!Next
<1>6. CASE this' = Reserve(this, size) /\ this # Invalid
  <2>1. PICK t \in Texts : IsString(this, t) BY <1>3, <1>6 DEF StringInv
  <2>2. IsString(this', t) /\ ValueOf(this) = t BY <2>1, <1>1, <1>3, <1>6, ReserveIs, StringIs
  <2>3. Stays' /\ ValueOf(this)' = t /\ ValueOf(that)' = ValueOf(that)
    BY <1>2, <2>2, MakesThis
  <2>. QED BY <2>2, <2>3 DEF ValueStep
<1>. QED BY <1>2, <1>4, <1>5, <1>6

LEMMA AssignToKeeps ==
  ASSUME Stays, NEW text \in Texts, AssignTo(text),
         text \in Literals \/ text = ValueOf(that)
  PROVE  Stays' /\ ValueStep
<1>1. that' = that /\ this' \in {Copy(this, text), Invalid}
  BY DEF AssignTo
<1>2. StringInv(this) BY DEF Stays
<1>3. ValueOf(that)' = ValueOf(that) /\ Stays' /\ ValueOf(this)' \in {text, NoText}
  <2>1. CASE this' = Invalid BY <1>1, <2>1, MakesInvalid
  <2>2. CASE this' = Copy(this, text)
    <3>1. IsString(this', text) BY <1>2, <2>2, CopyIs
    <3>. QED BY <1>1, <3>1, MakesThis
  <2>. QED BY <1>1, <2>1, <2>2
<1>4. Values!Assigned BY <1>3 DEF Values!Assigned
<1>. QED BY <1>3, <1>4 DEF ValueStep, Values!Next

LEMMA AssignKeeps ==
  ASSUME Stays, AssignLiteral \/ AssignNull \/ AssignString
  PROVE  Stays' /\ ValueStep
<1>1. CASE AssignLiteral
  <2>1. PICK text \in Literals : AssignTo(text) BY <1>1 DEF AssignLiteral
  <2>. QED BY <2>1, LiteralsAreTexts, AssignToKeeps
<1>2. CASE AssignNull
  <2>1. that' = that /\ this' = Invalid BY <1>2 DEF AssignNull
  <2>2. Stays' /\ ValueOf(this)' = NoText /\ ValueOf(that)' = ValueOf(that)
    BY <2>1, MakesInvalid
  <2>3. Values!Assigned BY <2>2 DEF Values!Assigned
  <2>. QED BY <2>2, <2>3 DEF ValueStep, Values!Next
<1>3. CASE AssignString
  <2>1. CASE Valid(that)
    <3>1. AssignTo(TextOf(that)) BY <1>3, <2>1 DEF AssignString
    <3>2. TextOf(that) \in Texts /\ TextOf(that) = ValueOf(that) BY <2>1, HaveValues DEF Stays
    <3>. QED BY <3>1, <3>2, AssignToKeeps
  <2>2. CASE ~Valid(that)
    <3>1. AssignNull BY <1>3, <2>2 DEF AssignString
    <3>. QED BY <3>1, <1>2
  <2>. QED BY <2>1, <2>2
<1>. QED BY <1>1, <1>2, <1>3

(* What this is with a text behind it.                                     *)
LEMMA JoinedTo ==
  ASSUME NEW s, StringInv(s), NEW text \in Texts, text # <<>>
  PROVE  IsString(ConcatText(s, text), IF Values!IsValid(ValueOf(s)) THEN ValueOf(s) \o text ELSE text)
<1>1. CASE s = Invalid
  <2>1. ~Values!IsValid(ValueOf(s)) BY <1>1, InvalidIs DEF Values!IsValid
  <2>. QED BY <1>1, <2>1, ConcatIs
<1>2. CASE s # Invalid
  <2>1. PICK t \in Texts : IsString(s, t) BY <1>2 DEF StringInv
  <2>2. ValueOf(s) = t /\ t # NoText BY <2>1, StringIs, InvalidIs
  <2>3. Values!IsValid(ValueOf(s)) BY <2>2 DEF Values!IsValid
  <2>. QED BY <2>1, <2>2, <2>3, ConcatIs
<1>. QED BY <1>1, <1>2

LEMMA ConcatKeeps ==
  ASSUME Stays, NEW text \in Texts, Concat(text),
         text \in Literals \/ (Valid(that) /\ text = ValueOf(that))
  PROVE  Stays' /\ ValueStep
<1>1. that' = that /\ this' \in {ConcatText(this, text), this} BY DEF Concat
<1>2. StringInv(this) BY DEF Stays
<1>3. CASE this' = this BY <1>1, <1>3, MakesNothing
<1>4. CASE this' = ConcatText(this, text) /\ text = <<>>
  <2>1. this' = this BY <1>4 DEF ConcatText
  <2>. QED BY <1>1, <2>1, MakesNothing
<1>5. CASE this' = ConcatText(this, text) /\ text # <<>>
  <2>. DEFINE u == IF Values!IsValid(ValueOf(this)) THEN ValueOf(this) \o text ELSE text
  <2>1. IsString(this', u) BY <1>2, <1>5, JoinedTo
  <2>2. Stays' /\ ValueOf(this)' = u /\ ValueOf(that)' = ValueOf(that)
    <3>. HIDE DEF u
    <3>. QED BY <1>1, <2>1, MakesThis
  <2>3. text \in Literals \union ({ValueOf(that)} \ {NoText})
    BY HaveValues DEF Stays
  <2>4. Values!Appended BY <2>2, <2>3 DEF Values!Appended, Values!IsValid
  <2>. QED BY <2>2, <2>4 DEF ValueStep, Values!Next
<1>. QED BY <1>1, <1>3, <1>4, <1>5

LEMMA ConcatsKeep ==
  ASSUME Stays, ConcatLiteral \/ ConcatString
  PROVE  Stays' /\ ValueStep
<1>1. CASE ConcatLiteral
  <2>1. PICK text \in Literals : Concat(text) BY <1>1 DEF ConcatLiteral
  <2>. QED BY <2>1, LiteralsAreTexts, ConcatKeeps
<1>2. CASE ConcatString
  <2>1. Valid(that) /\ Concat(TextOf(that)) BY <1>2 DEF ConcatString
  <2>2. TextOf(that) \in Texts /\ TextOf(that) = ValueOf(that) BY <2>1, HaveValues DEF Stays
  <2>. QED BY <2>1, <2>2, ConcatKeeps
<1>. QED BY <1>1, <1>2

LEMMA SumKeeps ==
  ASSUME Stays, SumHelper
  PROVE  Stays' /\ ValueStep
<1>1. that' = that /\ Valid(that) BY DEF SumHelper
<1>2. StringInv(this) /\ StringInv(that) BY DEF Stays
<1>3. /\ ValueOf(that) \in Texts /\ IsString(that, ValueOf(that)) /\ TextOf(that) = ValueOf(that)
      /\ Values!IsValid(ValueOf(that))
  BY <1>1, <1>2, HaveValues DEF Values!IsValid
<1>4. CASE this' = Invalid
  <2>1. Stays' /\ ValueOf(this)' = NoText /\ ValueOf(that)' = ValueOf(that)
    BY <1>1, <1>4, MakesInvalid
  <2>2. Values!Summed BY <1>3, <2>1 DEF Values!Summed, Values!IsValid
  <2>. QED BY <2>1, <2>2 DEF ValueStep, Values!Next
<1>5. CASE this' = this BY <1>1, <1>5, MakesNothing
<1>6. CASE that.len > 0 /\ this' = ConcatText(this, TextOf(that))
  <2>. DEFINE text == ValueOf(that)
              u == IF Values!IsValid(ValueOf(this)) THEN ValueOf(this) \o text ELSE text
  <2>0. text # <<>>
    <3>1. that.len = Len(text) BY <1>3, StringIs
    <3>. QED BY <3>1, <1>6, EmptyText
  <2>1. IsString(this', u) BY <1>2, <1>3, <1>6, <2>0, JoinedTo
  <2>2. Stays' /\ ValueOf(this)' = u /\ ValueOf(that)' = ValueOf(that)
    <3>. HIDE DEF u
    <3>. QED BY <1>1, <2>1, MakesThis
  <2>4. Values!Summed BY <1>3, <2>2 DEF Values!Summed, Values!IsValid
  <2>. QED BY <2>2, <2>4 DEF ValueStep, Values!Next
<1>. QED BY <1>4, <1>5, <1>6 DEF SumHelper
-----------------------------------------------------------------------------
LEMMA MakesThat ==
  ASSUME Stays, this' = this, NEW t, IsString(that', t)
  PROVE  Stays' /\ ValueOf(that)' = t /\ ValueOf(this)' = ValueOf(this)
<1>1. t \in Texts /\ ValueOf(that') = t BY StringIs
<1>2. StringInv(that') BY <1>1 DEF StringInv
<1>. QED BY <1>1, <1>2 DEF Stays

LEMMA MakesThatInvalid ==
  ASSUME Stays, this' = this, that' = Invalid
  PROVE  Stays' /\ ValueOf(that)' = NoText /\ ValueOf(this)' = ValueOf(this)
<1>1. StringInv(that') BY DEF StringInv
<1>2. ValueOf(that') = NoText BY InvalidIs
<1>. QED BY <1>1, <1>2 DEF Stays

LEMMA PartIsText ==
  ASSUME NEW t \in Texts, NEW i \in Nat, NEW j \in Nat, j <= Len(t)
  PROVE  /\ SubSeq(t, i + 1, j) \in Texts
         /\ Len(SubSeq(t, i + 1, j)) = IF i <= j THEN j - i ELSE 0
         /\ \A k \in 1 .. j - i : SubSeq(t, i + 1, j)[k] = t[i + k]
<1>1. \A k \in i + 1 .. j : t[k] \in Char BY TextsAreInts
<1>2. SubSeq(t, i + 1, j) \in Texts BY <1>1, SubSeqProperties DEF Texts
<1>3. t \in Seq(Int) BY TextsAreInts
<1>. QED BY <1>2, <1>3, PartIs

LEMMA FirstIsText ==
  ASSUME NEW t \in Texts, NEW n \in Nat, n <= Len(t)
  PROVE  /\ SubSeq(t, 1, n) \in Texts /\ Len(SubSeq(t, 1, n)) = n
         /\ \A k \in 1 .. n : SubSeq(t, 1, n)[k] = t[k]
<1>1. \A k \in 1 .. n : t[k] \in Char BY TextsAreInts
<1>2. SubSeq(t, 1, n) \in Texts BY <1>1, SubSeqProperties DEF Texts
<1>3. t \in Seq(Int) BY TextsAreInts
<1>. QED BY <1>2, <1>3, FirstPart

LEMMA SameText ==
  ASSUME NEW t \in Texts, NEW u \in Texts, Len(t) = Len(u), \A i \in 1 .. Len(t) : t[i] = u[i]
  PROVE  t = u
BY SeqEqual DEF Texts

(* A terminator put into a text ends it.                                   *)
LEMMA CutHolds ==
  ASSUME NEW s, NEW t, IsString(s, t), NEW n \in 0 .. Len(t)
  PROVE  CString(Poke(s.chars, n, <<Nul>>)) = SubSeq(t, 1, n)
<1>. DEFINE b == <<Nul>>
            p == Poke(s.chars, n, b)
            u == SubSeq(t, 1, n)
<1>1. /\ t \in Texts /\ Len(t) \in Nat /\ s.chars \in Seq(Int) /\ Len(t) < Len(s.chars)
      /\ \A i \in 1 .. Len(t) : s.chars[i] = t[i]
  <2>1. t \in Texts BY StringIs
  <2>. QED BY <2>1, TextsAreInts DEF IsString, Holds
<1>2. b \in Seq(Int) /\ Len(b) = 1 /\ b[1] = Nul /\ n \in Nat BY <1>1 DEF Nul
<1>. HIDE DEF b
<1>3. p \in Seq(Int) /\ Len(p) = Len(s.chars)
      /\ \A i \in 1 .. Len(s.chars) : p[i] = IF i - n \in 1 .. Len(b) THEN b[i - n] ELSE s.chars[i]
  BY <1>1, <1>2, PokeIs
<1>. HIDE DEF p
<1>4. u \in Texts /\ Len(u) = n /\ \A k \in 1 .. n : u[k] = t[k]
  <2>1. n \in Nat /\ n <= Len(t) BY <1>1, <1>2
  <2>. QED BY <1>1, <2>1, FirstIsText
<1>. HIDE DEF u
<1>5. \A i \in 1 .. n : p[i] = u[i]
  <2>1. ASSUME NEW i \in 1 .. n PROVE p[i] = u[i]
    <3>1. i \in 1 .. Len(s.chars) /\ i \in 1 .. Len(t) /\ i - n \notin 1 .. Len(b) BY <1>1, <1>2
    <3>. QED BY <3>1, <1>1, <1>3, <1>4
  <2>. QED BY <2>1
<1>6. p[n + 1] = Nul
  <2>1. n + 1 \in 1 .. Len(s.chars) /\ n + 1 - n = 1 /\ 1 \in 1 .. Len(b) BY <1>1, <1>2
  <2>2. p[n + 1] = b[n + 1 - n] BY <2>1, <1>3
  <2>. QED BY <2>1, <2>2, <1>2
<1>7. Holds(p, u) BY <1>1, <1>3, <1>4, <1>5, <1>6 DEF Holds
<1>8. CString(p) = u BY <1>7, HeldText
<1>. QED BY <1>8 DEF p, u, b

\* that is made of a part of this, or of nothing
CutOff == that' = Invalid \/ \E p \in Texts : that' = Copy(Invalid, p) /\ Len(p) <= this.len

LEMMA SubstringKeeps ==
  ASSUME Stays, NEW left \in Nat, NEW right \in Nat, Substring(left, right)
  PROVE  Stays' /\ ValueStep /\ CutOff
<1>. DEFINE first == IF left > right THEN right ELSE left
            last  == IF left > right THEN left ELSE right
            n     == IF last > this.len THEN this.len ELSE last
            ended == Poke(this.chars, n, <<Nul>>)
            taken  == IF first > this.len THEN <<>>
                     ELSE SubSeq(CString(ended), first + 1, Len(CString(ended)))
<1>1. Valid(this) /\ this' = this /\ that' \in {Copy(Invalid, taken), Invalid} BY DEF Substring
<1>2. PICK t \in Texts : IsString(this, t) BY <1>1, HaveValues DEF Stays
<1>3. /\ this.len = Len(t) /\ Len(t) \in Nat /\ ValueOf(this) = t /\ t # NoText
      /\ Values!IsValid(ValueOf(this))
  BY <1>2, StringIs, TextsAreInts, InvalidIs DEF Values!IsValid
<1>4. first \in Nat /\ last \in Nat /\ first <= last /\ n \in 0 .. Len(t) /\ n \in Nat
      /\ (first <= Len(t) => first <= n)
      /\ n = (IF last > Len(t) THEN Len(t) ELSE last)
  BY <1>3
<1>. HIDE DEF first, last
<1>5. CString(ended) = SubSeq(t, 1, n)
  <2>. HIDE DEF n
  <2>. QED BY <1>2, <1>4, CutHolds
<1>. HIDE DEF ended
<1>. DEFINE u == SubSeq(t, 0 + 1, n)
<1>6. u \in Texts /\ Len(u) = n /\ \A k \in 1 .. n : u[k] = t[k]
  <2>. HIDE DEF n
  <2>1. /\ u \in Texts /\ Len(u) = (IF 0 <= n THEN n - 0 ELSE 0)
        /\ \A k \in 1 .. n - 0 : u[k] = t[0 + k]
    <3>1. n <= Len(t) BY <1>4, <1>3
    <3>2. t \in Texts BY <1>2, StringIs
    <3>. QED BY <1>4, <3>1, <3>2, PartIsText
  <2>. HIDE DEF u
  <2>. QED BY <2>1, <1>4
<1>7. CString(ended) = u BY <1>5
<1>. HIDE DEF n, u
<1>8. first <= Len(t) => SubSeq(u, first + 1, Len(u)) = SubSeq(t, first + 1, n)
  <2>. SUFFICES ASSUME first <= Len(t) PROVE SubSeq(u, first + 1, n) = SubSeq(t, first + 1, n)
    BY <1>6
  <2>. DEFINE a == SubSeq(u, first + 1, n)
              b == SubSeq(t, first + 1, n)
  <2>1. a \in Texts /\ Len(a) = n - first /\ \A k \in 1 .. n - first : a[k] = u[first + k]
    BY <1>4, <1>6, PartIsText
  <2>2. b \in Texts /\ Len(b) = n - first /\ \A k \in 1 .. n - first : b[k] = t[first + k]
    BY <1>4, PartIsText
  <2>. HIDE DEF a, b
  <2>3. \A k \in 1 .. n - first : first + k \in 1 .. n BY <1>4
  <2>4. a = b BY <2>1, <2>2, <2>3, <1>6, <1>4, SameText
  <2>. QED BY <2>4 DEF a, b
<1>9. taken = IF first > Len(t) THEN <<>> ELSE SubSeq(t, first + 1, n)
  <2>1. CASE first > Len(t)
    <3>1. taken = <<>> BY <2>1, <1>3
    <3>. HIDE DEF taken
    <3>. QED BY <2>1, <3>1
  <2>2. CASE ~(first > Len(t))
    <3>1. taken = SubSeq(u, first + 1, Len(u)) BY <2>2, <1>3, <1>7
    <3>. HIDE DEF taken
    <3>2. first <= Len(t) BY <2>2, <1>3, <1>4
    <3>. QED BY <2>2, <3>1, <3>2, <1>8
  <2>. QED BY <2>1, <2>2
<1>. HIDE DEF taken
<1>10. taken \in Texts /\ Len(taken) <= Len(t)
  <2>1. n <= Len(t) BY <1>4, <1>3
  <2>2. CASE first > Len(t) BY <2>2, <1>3, <1>9, EmptyText
  <2>3. CASE ~(first > Len(t))
    <3>1. /\ SubSeq(t, first + 1, n) \in Texts
          /\ Len(SubSeq(t, first + 1, n)) = IF first <= n THEN n - first ELSE 0
      BY <1>4, <2>1, PartIsText
    <3>2. taken = SubSeq(t, first + 1, n) BY <1>9, <2>3
    <3>. QED BY <3>1, <3>2, <1>3, <1>4, <2>1
  <2>. QED BY <2>2, <2>3
<1>11. Stays' /\ ValueOf(this)' = ValueOf(this) /\ ValueOf(that)' \in {taken, NoText}
  <2>1. CASE that' = Invalid BY <1>1, <2>1, MakesThatInvalid
  <2>2. CASE that' = Copy(Invalid, taken)
    <3>1. IsString(that', taken) BY <1>10, <2>2, CopyIs DEF StringInv
    <3>. QED BY <1>1, <3>1, MakesThat
  <2>. QED BY <1>1, <2>1, <2>2
<1>12. Values!Cut
  <2>1. CASE first > Len(t)
    <3>1. 0 \in 0 .. Len(t) + 1 BY <1>3
    <3>2. ValueOf(that)' \in {NoText, <<>>, Values!Part(t, 0, 0)} BY <1>9, <1>11, <2>1
    <3>. QED BY <3>1, <3>2, <1>3, <1>11 DEF Values!Cut
  <2>2. CASE first <= Len(t)
    <3>1. first \in 0 .. Len(t) + 1 /\ n \in 0 .. Len(t) + 1 BY <1>3, <1>4, <2>2
    <3>2. Values!Part(t, first, n) = SubSeq(t, first + 1, n) BY <1>3, <1>4 DEF Values!Part
    <3>3. ~(first > Len(t)) BY <1>3, <1>4, <2>2
    <3>4. ValueOf(that)' \in {NoText, <<>>, Values!Part(t, first, n)}
      BY <1>9, <1>11, <3>2, <3>3
    <3>. QED BY <3>1, <3>4, <1>3, <1>11 DEF Values!Cut
  <2>. QED BY <2>1, <2>2, <1>3, <1>4
<1>13. CutOff BY <1>1, <1>3, <1>10 DEF CutOff
<1>. QED BY <1>11, <1>12, <1>13 DEF ValueStep, Values!Next

-----------------------------------------------------------------------------
(* Changes in place.                                                       *)

LEMMA InPlaceMakes ==
  ASSUME Stays, NEW len, NEW chars, InPlace(len, chars), NEW t, Holds(chars, t), len = Len(t)
  PROVE  Stays' /\ ValueOf(this)' = t /\ ValueOf(that)' = ValueOf(that)
<1>1. Holds(Settled(chars), t) BY SettledHolds
<1>2. that' = that /\ this' = [len |-> len, chars |-> Settled(chars)] BY DEF InPlace
<1>3. IsString(this', t) BY <1>1, <1>2, MadeOf
<1>. QED BY <1>2, <1>3, MakesThis

\* a character for each character of a text
Maps(t, u) == /\ u \in Texts /\ Len(u) = Len(t)
              /\ \A i, j \in 1 .. Len(t) : t[i] = t[j] => u[i] = u[j]

LEMMA SetCharsKeeps ==
  ASSUME Stays, NEW new, SetChars(new), Valid(this) => Maps(ValueOf(this), new)
  PROVE  Stays' /\ ValueStep
<1>1. Valid(this) BY DEF SetChars
<1>2. PICK t \in Texts : IsString(this, t) BY <1>1, HaveValues DEF Stays
<1>3. /\ this.len = Len(t) /\ Len(t) \in Nat /\ ValueOf(this) = t /\ t # NoText
      /\ Values!IsValid(ValueOf(this)) /\ this.chars \in Seq(Int) /\ Len(t) < Len(this.chars)
      /\ this.chars[Len(t) + 1] = Nul /\ Len(this.chars) \in Nat
  <2>1. Len(t) < Len(this.chars) /\ this.chars \in Seq(Int) BY <1>2 DEF IsString, Holds
  <2>2. Len(this.chars) \in Nat BY <2>1
  <2>. QED BY <1>2, <2>1, <2>2, StringIs, TextsAreInts, InvalidIs DEF Values!IsValid
<1>4. new \in Texts /\ Len(new) = Len(t) /\ \A i, j \in 1 .. Len(t) : t[i] = t[j] => new[i] = new[j]
  BY <1>1, <1>3 DEF Maps
<1>. DEFINE rest == SubSeq(this.chars, this.len + 1, Len(this.chars))
            c == new \o rest
<1>5. rest \in Seq(Int) /\ Len(rest) = Len(this.chars) - Len(t) /\ rest[1] = Nul
  <2>1. /\ rest \in Seq(Int)
        /\ Len(rest) = IF Len(t) <= Len(this.chars) THEN Len(this.chars) - Len(t) ELSE 0
        /\ \A k \in 1 .. Len(this.chars) - Len(t) : rest[k] = this.chars[Len(t) + k]
    BY <1>3, PartIs
  <2>. HIDE DEF rest
  <2>2. 1 \in 1 .. Len(this.chars) - Len(t) BY <1>3
  <2>. QED BY <2>1, <2>2, <1>3
<1>. HIDE DEF rest
<1>6. new \in Seq(Int) BY <1>4, TextsAreInts
<1>7. /\ c \in Seq(Int) /\ Len(c) = Len(this.chars)
      /\ \A i \in 1 .. Len(this.chars) : c[i] = IF i <= Len(t) THEN new[i] ELSE rest[i - Len(t)]
  <2>1. /\ c \in Seq(Int) /\ Len(c) = Len(new) + Len(rest)
        /\ \A i \in 1 .. Len(new) + Len(rest) : c[i] =
              IF i <= Len(new) THEN new[i] ELSE rest[i - Len(new)]
    BY <1>5, <1>6, ConcatProperties
  <2>. HIDE DEF c
  <2>. QED BY <2>1, <1>3, <1>4, <1>5
<1>8. InPlace(this.len, c) BY DEF SetChars, rest
<1>. HIDE DEF c
<1>9. Holds(c, new)
  <2>1. ASSUME NEW i \in 1 .. Len(t) PROVE c[i] = new[i]
    <3>1. i \in 1 .. Len(this.chars) /\ i <= Len(t) BY <1>3
    <3>. QED BY <3>1, <1>7
  <2>2. c[Len(t) + 1] = Nul
    <3>1. Len(t) + 1 \in 1 .. Len(this.chars) /\ ~(Len(t) + 1 <= Len(t)) /\ Len(t) + 1 - Len(t) = 1
      BY <1>3
    <3>. QED BY <3>1, <1>5, <1>7
  <2>. QED BY <2>1, <2>2, <1>3, <1>4, <1>7 DEF Holds
<1>10. Stays' /\ ValueOf(this)' = new /\ ValueOf(that)' = ValueOf(that)
  BY <1>3, <1>4, <1>8, <1>9, InPlaceMakes
<1>11. new # NoText BY <1>4, InvalidIs
<1>12. Values!Mapped
  BY <1>3, <1>4, <1>10, <1>11 DEF Values!Mapped, Values!IsValid
<1>. QED BY <1>10, <1>12 DEF ValueStep, Values!Next
-----------------------------------------------------------------------------
(* What a character becomes depends on the character only.                 *)
LEMMA CharsKeep ==
  ASSUME Stays, ToLowerCase \/ ToUpperCase \/ ReplaceChar(97, 32)
  PROVE  Stays' /\ ValueStep
<1>. DEFINE lower == [i \in 1 .. this.len |-> Lower(this.chars[i])]
            upper == [i \in 1 .. this.len |-> Upper(this.chars[i])]
            other == [i \in 1 .. this.len |-> IF this.chars[i] = 97 THEN 32 ELSE this.chars[i]]
<1>1. \A c \in Char : Lower(c) \in Char /\ Upper(c) \in Char /\ (IF c = 97 THEN 32 ELSE c) \in Char
  BY DEF Lower, Upper, Char
<1>2. ASSUME NEW new, new \in {lower, upper, other}, Valid(this) PROVE Maps(ValueOf(this), new)
  <2>1. PICK t \in Texts : IsString(this, t) BY <1>2, HaveValues DEF Stays
  <2>2. /\ ValueOf(this) = t /\ this.len = Len(t) /\ Len(t) \in Nat
        /\ \A i \in 1 .. Len(t) : this.chars[i] = t[i] /\ this.chars[i] \in Char
    BY <2>1, StringIs
  <2>3. new \in Seq(Char) /\ Len(new) = Len(t)
    <3>1. CASE new = lower
      <4>1. new = [i \in 1 .. Len(t) |-> Lower(this.chars[i])] BY <3>1, <2>2
      <4>2. \A i \in 1 .. Len(t) : Lower(this.chars[i]) \in Char BY <1>1, <2>2
      <4>. HIDE DEF lower, upper, other
      <4>. QED BY <4>1, <4>2, <2>2
    <3>2. CASE new = upper
      <4>1. new = [i \in 1 .. Len(t) |-> Upper(this.chars[i])] BY <3>2, <2>2
      <4>2. \A i \in 1 .. Len(t) : Upper(this.chars[i]) \in Char BY <1>1, <2>2
      <4>. HIDE DEF lower, upper, other
      <4>. QED BY <4>1, <4>2, <2>2
    <3>3. CASE new = other
      <4>1. new = [i \in 1 .. Len(t) |-> IF this.chars[i] = 97 THEN 32 ELSE this.chars[i]]
        BY <3>3, <2>2
      <4>2. \A i \in 1 .. Len(t) : (IF this.chars[i] = 97 THEN 32 ELSE this.chars[i]) \in Char
        BY <1>1, <2>2
      <4>. HIDE DEF lower, upper, other
      <4>. QED BY <4>1, <4>2, <2>2
    <3>. HIDE DEF lower, upper, other
    <3>. QED BY <1>2, <3>1, <3>2, <3>3
  <2>4. \A i, j \in 1 .. Len(t) : t[i] = t[j] => new[i] = new[j]
    <3>1. ASSUME NEW i \in 1 .. Len(t), NEW j \in 1 .. Len(t), t[i] = t[j]
          PROVE  new[i] = new[j]
      <4>1. this.chars[i] = this.chars[j] BY <2>2, <3>1
      <4>2. /\ lower[i] = Lower(this.chars[i]) /\ lower[j] = Lower(this.chars[j])
            /\ upper[i] = Upper(this.chars[i]) /\ upper[j] = Upper(this.chars[j])
            /\ other[i] = (IF this.chars[i] = 97 THEN 32 ELSE this.chars[i])
            /\ other[j] = (IF this.chars[j] = 97 THEN 32 ELSE this.chars[j])
        BY <2>2
      <4>. HIDE DEF lower, upper, other
      <4>. QED BY <1>2, <4>1, <4>2
    <3>. QED BY <3>1
  <2>. HIDE DEF lower, upper, other
  <2>. QED BY <2>2, <2>3, <2>4 DEF Maps, Texts
<1>3. \E new \in {lower, upper, other} : SetChars(new)
  BY DEF ToLowerCase, ToUpperCase, ReplaceChar
<1>. HIDE DEF lower, upper, other
<1>. QED BY <1>2, <1>3, SetCharsKeeps

LEMMA SetCharAtKeeps ==
  ASSUME Stays, NEW loc \in Nat, SetCharAt(loc, 97)
  PROVE  Stays' /\ ValueStep
<1>. DEFINE c == [this.chars EXCEPT ![loc + 1] = 97]
            u == [ValueOf(this) EXCEPT ![loc + 1] = 97]
<1>1. loc < this.len /\ InPlace(this.len, c) BY DEF SetCharAt
<1>2. StringInv(this) BY DEF Stays
<1>3. Valid(this)
  <2>1. Invalid.len = 0 BY InvalidIs
  <2>. QED BY <1>1, <1>2, <2>1, HaveValues
<1>4. PICK t \in Texts : IsString(this, t) BY <1>2, <1>3, HaveValues
<1>5. /\ this.len = Len(t) /\ Len(t) \in Nat /\ ValueOf(this) = t /\ t # NoText
      /\ Values!IsValid(ValueOf(this)) /\ this.chars \in Seq(Int) /\ Len(t) < Len(this.chars)
      /\ this.chars[Len(t) + 1] = Nul /\ \A i \in 1 .. Len(t) : this.chars[i] = t[i]
  <2>1. Len(t) < Len(this.chars) /\ this.chars \in Seq(Int) BY <1>4 DEF IsString, Holds
  <2>. QED BY <1>4, <2>1, StringIs, TextsAreInts, InvalidIs DEF Values!IsValid
<1>6. loc + 1 \in 1 .. Len(t) /\ loc + 1 \in 1 .. Len(this.chars) BY <1>1, <1>5, SMTT(30)
<1>7. /\ c \in Seq(Int) /\ Len(c) = Len(this.chars)
      /\ \A j \in 1 .. Len(this.chars) : c[j] = IF j = loc + 1 THEN 97 ELSE this.chars[j]
  BY <1>5, <1>6, ExceptSeq, SMTT(30)
<1>8. /\ u \in Texts /\ Len(u) = Len(t)
      /\ \A j \in 1 .. Len(t) : u[j] = IF j = loc + 1 THEN 97 ELSE t[j]
  <2>1. 97 \in Char BY DEF Char
  <2>2. u = [t EXCEPT ![loc + 1] = 97] BY <1>5
  <2>. HIDE DEF u
  <2>. QED BY <2>1, <2>2, <1>6, ExceptSeq DEF Texts
<1>. HIDE DEF c, u
<1>9. Holds(c, u)
  <2>1. ASSUME NEW i \in 1 .. Len(t) PROVE c[i] = u[i]
    <3>1. i \in 1 .. Len(this.chars) BY <1>5
    <3>. QED BY <3>1, <1>5, <1>7, <1>8
  <2>2. c[Len(t) + 1] = Nul
    <3>1. Len(t) + 1 \in 1 .. Len(this.chars) /\ Len(t) + 1 # loc + 1 BY <1>5, <1>6
    <3>. QED BY <3>1, <1>5, <1>7
  <2>. QED BY <2>1, <2>2, <1>5, <1>7, <1>8 DEF Holds
<1>10. Stays' /\ ValueOf(this)' = u /\ ValueOf(that)' = ValueOf(that)
  BY <1>1, <1>5, <1>8, <1>9, InPlaceMakes
<1>11. u # NoText BY <1>8, InvalidIs
<1>12. \A j \in 1 .. Len(t) \ {loc + 1} : u[j] = t[j] BY <1>8
<1>13. Values!Placed
  BY <1>5, <1>6, <1>8, <1>10, <1>11, <1>12 DEF Values!Placed, Values!IsValid
<1>. QED BY <1>10, <1>13 DEF ValueStep, Values!Next

(* The blanks at both ends are left out.                                   *)
LEMMA TrimKeeps ==
  ASSUME Stays, Trim
  PROVE  Stays' /\ ValueStep
<1>. DEFINE B     == {i \in 1 .. this.len + 1 : ~IsSpace(this.chars[i])}
            begin == Least(B)
            E     == {i \in begin .. this.len : ~IsSpace(this.chars[i])} \union {begin - 1}
            end   == Largest(E)
            len   == end - begin + 1
            c     == Poke(this.chars, 0, Append(SubSeq(this.chars, begin, end), Nul))
<1>1. Valid(this) /\ InPlace(len, c) BY DEF Trim
<1>2. PICK t \in Texts : IsString(this, t) BY <1>1, HaveValues DEF Stays
<1>3. /\ this.len = Len(t) /\ Len(t) \in Nat /\ ValueOf(this) = t /\ t # NoText
      /\ Values!IsValid(ValueOf(this)) /\ this.chars \in Seq(Int) /\ Len(t) < Len(this.chars)
      /\ this.chars[Len(t) + 1] = Nul /\ \A i \in 1 .. Len(t) : this.chars[i] = t[i]
  <2>1. Len(t) < Len(this.chars) /\ this.chars \in Seq(Int) BY <1>2 DEF IsString, Holds
  <2>. QED BY <1>2, <2>1, StringIs, TextsAreInts, InvalidIs DEF Values!IsValid
<1>4. \A x : IsSpace(x) <=> Values!Blank(x) BY DEF IsSpace, Values!Blank
<1>5. /\ begin \in 1 .. Len(t) + 1 /\ ~IsSpace(this.chars[begin])
      /\ \A i \in 1 .. begin - 1 : IsSpace(this.chars[i])
  <2>1. ~IsSpace(Nul) BY DEF IsSpace, Nul
  <2>2. B \in SUBSET Nat /\ Len(t) + 1 \in B BY <1>3, <2>1
  <2>3. begin \in B /\ \A i \in B : begin <= i
    <3>. HIDE DEF B
    <3>. QED BY <2>2, LeastIs
  <2>. HIDE DEF begin
  <2>4. begin \in 1 .. Len(t) + 1 /\ ~IsSpace(this.chars[begin]) BY <2>3, <1>3
  <2>5. ASSUME NEW i \in 1 .. begin - 1 PROVE IsSpace(this.chars[i])
    <3>1. i \in 1 .. this.len + 1 /\ ~(begin <= i) BY <2>4, <1>3
    <3>. QED BY <2>3, <3>1
  <2>. QED BY <2>4, <2>5
<1>. HIDE DEF begin, B
<1>6. /\ end \in begin - 1 .. Len(t) /\ (end # begin - 1 => ~IsSpace(this.chars[end]))
      /\ \A i \in end + 1 .. Len(t) : i >= begin => IsSpace(this.chars[i])
  <2>1. E \in SUBSET Int /\ begin - 1 \in E /\ \A i \in E : i <= Len(t) BY <1>3, <1>5
  <2>2. end \in E /\ \A i \in E : end >= i
    <3>1. E # {} /\ Len(t) \in Int BY <2>1, <1>3
    <3>. HIDE DEF E
    <3>2. Largest(E) \in E /\ \A j \in E : Largest(E) >= j BY <2>1, <3>1, LargestIs
    <3>. QED BY <3>2
  <2>. HIDE DEF end
  <2>3. end \in begin - 1 .. Len(t) /\ (end # begin - 1 => ~IsSpace(this.chars[end]))
    BY <2>1, <2>2, <1>3, <1>5
  <2>4. ASSUME NEW i \in end + 1 .. Len(t), i >= begin PROVE IsSpace(this.chars[i])
    <3>1. i \in begin .. this.len /\ ~(end >= i) BY <2>3, <2>4, <1>3, <1>5
    <3>. QED BY <2>2, <3>1
  <2>. QED BY <2>3, <2>4
<1>. HIDE DEF end, E
<1>. DEFINE i == begin - 1
            u == SubSeq(t, i + 1, end)
<1>7. i \in 0 .. Len(t) /\ i \in Nat /\ end \in Nat /\ end <= Len(t) /\ i <= end /\ begin = i + 1
      /\ end \in 0 .. Len(t) /\ len = end - i
  BY <1>3, <1>5, <1>6
<1>. HIDE DEF i, len
<1>8. /\ u \in Texts /\ Len(u) = end - i /\ \A k \in 1 .. end - i : u[k] = t[i + k]
  BY <1>7, PartIsText
<1>9. SubSeq(this.chars, begin, end) = u
  <2>. DEFINE p == SubSeq(this.chars, i + 1, end)
  <2>1. p \in Seq(Int) /\ Len(p) = end - i /\ \A k \in 1 .. end - i : p[k] = this.chars[i + k]
    <3>1. end <= Len(this.chars) BY <1>3, <1>7
    <3>. QED BY <3>1, <1>3, <1>7, PartIs
  <2>2. u \in Seq(Int) BY <1>8, TextsAreInts
  <2>. HIDE DEF p, u
  <2>3. \A k \in 1 .. end - i : p[k] = u[k]
    <3>1. \A k \in 1 .. end - i : i + k \in 1 .. Len(t) BY <1>7
    <3>. QED BY <3>1, <2>1, <1>3, <1>8
  <2>4. p = u BY <2>1, <2>2, <2>3, <1>8, SeqEqual
  <2>. QED BY <2>4, <1>7 DEF p
<1>. HIDE DEF u
<1>10. c = Poke(this.chars, 0, Append(u, Nul)) BY <1>9
<1>. HIDE DEF c
<1>11. Holds(c, u)
  <2>1. Len(<<>>) + Len(u) < Len(this.chars) /\ <<>> \in Texts BY <1>3, <1>7, <1>8, EmptyText
  <2>2. \A k \in 1 .. Len(<<>>) : this.chars[k] = <<>>[k] BY EmptyText
  <2>3. Holds(Poke(this.chars, Len(<<>>), Append(u, Nul)), <<>> \o u)
    BY <2>1, <2>2, <1>3, <1>8, PokeHolds
  <2>4. <<>> \o u = u BY <1>8, ConcatEmptySeq DEF Texts
  <2>. QED BY <2>3, <2>4, <1>10, EmptyText
<1>12. Stays' /\ ValueOf(this)' = u /\ ValueOf(that)' = ValueOf(that)
  BY <1>1, <1>7, <1>8, <1>11, InPlaceMakes
<1>13. /\ \A k \in 1 .. i : Values!Blank(t[k])
       /\ \A k \in end + 1 .. Len(t) : Values!Blank(t[k])
       /\ i < end => ~Values!Blank(t[i + 1]) /\ ~Values!Blank(t[end])
       /\ i >= end => \A k \in 1 .. Len(t) : Values!Blank(t[k])
  <2>1. ASSUME NEW k \in 1 .. i PROVE Values!Blank(t[k])
    <3>1. k \in 1 .. Len(t) /\ k \in 1 .. begin - 1 BY <1>7
    <3>. QED BY <3>1, <1>3, <1>4, <1>5
  <2>2. ASSUME NEW k \in end + 1 .. Len(t) PROVE Values!Blank(t[k])
    <3>1. k \in 1 .. Len(t) /\ k >= begin BY <1>7
    <3>. QED BY <3>1, <1>3, <1>4, <1>6
  <2>3. ASSUME i < end PROVE ~Values!Blank(t[i + 1]) /\ ~Values!Blank(t[end])
    <3>1. i + 1 \in 1 .. Len(t) /\ end \in 1 .. Len(t) /\ end # begin - 1 BY <2>3, <1>7
    <3>. QED BY <3>1, <1>3, <1>4, <1>5, <1>6, <1>7
  <2>4. ASSUME i >= end, NEW k \in 1 .. Len(t) PROVE Values!Blank(t[k])
    <3>1. k \in 1 .. i \/ k \in end + 1 .. Len(t) BY <2>4, <1>7
    <3>. QED BY <3>1, <2>1, <2>2
  <2>. QED BY <2>1, <2>2, <2>3, <2>4
<1>14. Values!Trimmed
  BY <1>3, <1>7, <1>12, <1>13 DEF Values!Trimmed, u
<1>. QED BY <1>12, <1>14 DEF ValueStep, Values!Next
-----------------------------------------------------------------------------
\* what becomes of a text from each place on, when all f in it are replaced
IsRest(s, f, r, h) ==
    /\ h \in [0 .. Len(s) -> Texts] /\ h[Len(s)] = <<>>
    /\ \A i \in 0 .. Len(s) - 1 :
          h[i] = IF At(s, f, i) THEN r \o h[i + Len(f)] ELSE <<s[i + 1]>> \o h[i + 1]

Replaces(s, f, r, u) == \E h : IsRest(s, f, r, h) /\ u = h[0]

LEMMA AtEnds ==
  ASSUME NEW s \in Texts, NEW f \in Texts, NEW i \in Nat, At(s, f, i)
  PROVE  i + Len(f) \in Nat /\ i + Len(f) <= Len(s)
BY TextsAreInts DEF At

(* The recursive function in ReplaceAll exists.                            *)
LEMMA ReplaceAllIs ==
  ASSUME NEW s \in Texts, NEW f \in Texts, NEW r \in Texts, Len(f) >= 1
  PROVE  Replaces(s, f, r, Values!ReplaceAll(s, f, r))
<1>. DEFINE N == Len(s)
            L == Len(f)
            Occ(n) == At(s, f, N - n)
            F(g) == [n \in 0 .. N |->
                       IF n = 0 THEN <<>>
                       ELSE IF Values!OccursAt(s, f, N - n) THEN r \o g[n - L]
                       ELSE <<s[N - n + 1]>> \o g[n - 1]]
            step == [n \in Nat |-> [g \in [Nat -> Texts] |->
                       IF n \in 1 .. N
                       THEN IF Occ(n) THEN r \o g[n - L] ELSE <<s[N - n + 1]>> \o g[n - 1]
                       ELSE <<>>]]
            a == CHOOSE g : g = F(g)
<1>1. N \in Nat /\ L \in Nat /\ L >= 1 /\ s \in Seq(Int) /\ f \in Seq(Int) BY TextsAreInts
<1>2. \A n \in 1 .. N : Values!OccursAt(s, f, N - n) <=> Occ(n)
  <2>1. ASSUME NEW n \in 1 .. N PROVE Values!OccursAt(s, f, N - n) <=> Occ(n)
    <3>1. N - n \in Nat BY <1>1
    <3>. QED BY <3>1, <1>1, OccursIs
  <2>. QED BY <2>1
<1>3. \A n \in 1 .. N : Occ(n) => n - L \in 0 .. n - 1
  <2>1. ASSUME NEW n \in 1 .. N, Occ(n) PROVE n - L \in 0 .. n - 1
    <3>1. N - n \in Nat BY <1>1
    <3>2. N - n + L <= N BY <2>1, <3>1, AtEnds
    <3>. HIDE DEF N, L
    <3>. QED BY <1>1, <3>2
  <2>. QED BY <2>1
<1>4. \A n \in 1 .. N : <<s[N - n + 1]>> \in Texts
  <2>1. ASSUME NEW n \in 1 .. N PROVE <<s[N - n + 1]>> \in Texts
    <3>1. N - n + 1 \in 1 .. N BY <1>1
    <3>2. s[N - n + 1] \in Char BY <3>1, TextsAreInts
    <3>. QED BY <3>2 DEF Texts
  <2>. QED BY <2>1
<1>. HIDE DEF N, L
<1>5. \A n \in 1 .. N : \A v, w \in Texts : r \o v \in Texts /\ <<s[N - n + 1]>> \o w \in Texts
  <2>1. \A v, w \in Texts : v \o w \in Texts BY TextConcat
  <2>. QED BY <2>1, <1>4
<1>6. step \in [Nat -> [[Nat -> Texts] -> Texts]]
  <2>1. ASSUME NEW n \in Nat, NEW g \in [Nat -> Texts]
        PROVE  (IF n \in 1 .. N
                THEN IF Occ(n) THEN r \o g[n - L] ELSE <<s[N - n + 1]>> \o g[n - 1]
                ELSE <<>>) \in Texts
    <3>1. CASE n \notin 1 .. N BY <3>1, EmptyText
    <3>2. CASE n \in 1 .. N
      <4>1. Occ(n) => n - L \in Nat BY <1>3, <3>2
      <4>2. n - 1 \in Nat BY <3>2
      <4>. HIDE DEF Occ
      <4>3. Occ(n) => r \o g[n - L] \in Texts BY <4>1, <1>5, <3>2
      <4>4. <<s[N - n + 1]>> \o g[n - 1] \in Texts BY <4>2, <1>5, <3>2
      <4>. QED BY <3>2, <4>3, <4>4
    <3>. QED BY <3>1, <3>2
  <2>. HIDE DEF Occ
  <2>. QED BY <2>1
<1>7. LooksBelow(Texts, step)
  <2>1. ASSUME NEW n \in Nat, NEW g \in [Nat -> Texts], NEW k \in [Nat -> Texts],
               \A m \in 0 .. n - 1 : g[m] = k[m]
        PROVE  step[n][g] = step[n][k]
    <3>1. CASE n \notin 1 .. N BY <3>1
    <3>2. CASE n \in 1 .. N
      <4>1. Occ(n) => g[n - L] = k[n - L] BY <1>3, <3>2, <2>1
      <4>2. g[n - 1] = k[n - 1] BY <3>2, <2>1
      <4>. HIDE DEF Occ
      <4>. QED BY <3>2, <4>1, <4>2
    <3>. QED BY <3>1, <3>2
  <2>. HIDE DEF step
  <2>. QED BY <2>1 DEF LooksBelow
<1>8. PICK b \in [Nat -> Texts] : \A n \in Nat : b[n] = step[n][b]
  <2>1. <<>> \in Texts BY EmptyText
  <2>. HIDE DEF step
  <2>2. HasCourse(Texts, step) BY <2>1, <1>6, <1>7, CourseRecursion
  <2>. QED BY <2>2 DEF HasCourse
<1>. DEFINE c == [n \in 0 .. N |-> b[n]]
<1>9. c = F(c)
  <2>1. ASSUME NEW n \in 0 .. N PROVE c[n] = F(c)[n]
    <3>1. n \in Nat /\ b[n] = step[n][b] BY <1>8
    <3>2. CASE n = 0 BY <3>1, <3>2
    <3>3. CASE n # 0
      <4>1. n \in 1 .. N BY <3>3, <1>1
      <4>2. Occ(n) => n - L \in 0 .. N BY <1>1, <1>3, <4>1
      <4>3. n - 1 \in 0 .. N BY <4>1, <1>1
      <4>4. b[n] = IF Occ(n) THEN r \o b[n - L] ELSE <<s[N - n + 1]>> \o b[n - 1] BY <3>1, <4>1
      <4>5. F(c)[n] = IF Occ(n) THEN r \o c[n - L] ELSE <<s[N - n + 1]>> \o c[n - 1]
        BY <3>3, <4>1, <1>2
      <4>. HIDE DEF Occ, F
      <4>. QED BY <4>2, <4>3, <4>4, <4>5
    <3>. QED BY <3>2, <3>3
  <2>2. c = [n \in 0 .. N |-> c[n]] OBVIOUS
  <2>3. F(c) = [n \in 0 .. N |-> F(c)[n]] OBVIOUS
  <2>. HIDE DEF c, F
  <2>. QED BY <2>1, <2>2, <2>3
<1>10. a = F(a)
  <2>. HIDE DEF c, F
  <2>. QED BY <1>9
<1>11. Values!ReplaceAll(s, f, r) = a[N] BY DEF Values!ReplaceAll, N, L
<1>. HIDE DEF a
<1>12. a[0] = <<>> /\ \A n \in 1 .. N :
          a[n] = IF Occ(n) THEN r \o a[n - L] ELSE <<s[N - n + 1]>> \o a[n - 1]
  <2>1. \A n \in 0 .. N : a[n] = F(a)[n] BY <1>10
  <2>2. F(a)[0] = <<>> BY <1>1
  <2>3. ASSUME NEW n \in 1 .. N
        PROVE  a[n] = IF Occ(n) THEN r \o a[n - L] ELSE <<s[N - n + 1]>> \o a[n - 1]
    <3>1. n \in 0 .. N /\ n # 0 BY <1>1
    <3>2. F(a)[n] = IF Occ(n) THEN r \o a[n - L] ELSE <<s[N - n + 1]>> \o a[n - 1]
      BY <3>1, <1>2
    <3>. HIDE DEF F, Occ
    <3>. QED BY <3>1, <3>2, <2>1
  <2>4. 0 \in 0 .. N BY <1>1
  <2>. HIDE DEF F, Occ
  <2>. QED BY <2>1, <2>2, <2>3, <2>4
<1>13. \A n \in 0 .. N : a[n] \in Texts
  <2>. DEFINE S == {n \in Nat : n <= N => a[n] \in Texts}
  <2>1. ASSUME NEW n \in Nat, \A m \in 0 .. n - 1 : m \in S PROVE n \in S
    <3>1. CASE n = 0 BY <3>1, <1>12, EmptyText
    <3>2. CASE n \in 1 .. N
      <4>1. Occ(n) => a[n - L] \in Texts BY <1>1, <1>3, <2>1, <3>2
      <4>2. a[n - 1] \in Texts BY <1>1, <2>1, <3>2
      <4>3. a[n] = IF Occ(n) THEN r \o a[n - L] ELSE <<s[N - n + 1]>> \o a[n - 1]
        BY <1>12, <3>2
      <4>. HIDE DEF Occ
      <4>4. a[n] \in Texts BY <4>1, <4>2, <4>3, <1>5, <3>2
      <4>. QED BY <4>4
    <3>3. CASE ~(n <= N) BY <3>3
    <3>. QED BY <3>1, <3>2, <3>3, <1>1
  <2>2. \A n \in Nat : n \in S
    <3>. HIDE DEF S
    <3>. QED BY <2>1, CourseInduction
  <2>. QED BY <2>2, <1>1
<1>. DEFINE h == [i \in 0 .. N |-> a[N - i]]
<1>14. IsRest(s, f, r, h)
  <2>1. \A i \in 0 .. N : N - i \in 0 .. N BY <1>1
  <2>2. h \in [0 .. N -> Texts] BY <2>1, <1>13
  <2>3. h[N] = <<>> BY <1>1, <1>12
  <2>4. ASSUME NEW i \in 0 .. N - 1
        PROVE  h[i] = IF At(s, f, i) THEN r \o h[i + L] ELSE <<s[i + 1]>> \o h[i + 1]
    <3>. DEFINE n == N - i
    <3>1. n \in 1 .. N /\ i = N - n /\ i \in 0 .. N BY <1>1
    <3>. HIDE DEF n
    <3>2. Occ(n) <=> At(s, f, i) BY <3>1
    <3>3. h[i] = a[n] BY <3>1 DEF n
    <3>4. i + 1 \in 0 .. N /\ N - (i + 1) = n - 1 /\ N - n + 1 = i + 1 BY <3>1, <1>1
    <3>5. h[i + 1] = a[n - 1] BY <3>4
    <3>6. Occ(n) => h[i + L] = a[n - L]
      <4>1. Occ(n) => i + L \in 0 .. N /\ N - (i + L) = n - L BY <3>1, <1>1, <1>3
      <4>. HIDE DEF Occ
      <4>. QED BY <4>1
    <3>7. a[n] = IF Occ(n) THEN r \o a[n - L] ELSE <<s[N - n + 1]>> \o a[n - 1] BY <3>1, <1>12
    <3>. HIDE DEF h, Occ
    <3>. QED BY <3>2, <3>3, <3>4, <3>5, <3>6, <3>7
  <2>. HIDE DEF h
  <2>. QED BY <2>2, <2>3, <2>4 DEF IsRest, N, L
<1>15. a[N] = h[0] BY <1>1
<1>. HIDE DEF h
<1>. QED BY <1>11, <1>14, <1>15 DEF Replaces
-----------------------------------------------------------------------------
LEMMA TextAssociative ==
  ASSUME NEW t \in Texts, NEW u \in Texts, NEW v \in Texts
  PROVE  (t \o u) \o v = t \o (u \o v)
<1>1. t \in Seq(Char) /\ u \in Seq(Char) /\ v \in Seq(Char) BY DEF Texts
<1>. QED BY <1>1, ConcatAssociative

\* no match begins in between
NoneIn(s, f, p, q) == \A i \in p .. q - 1 : ~At(s, f, i)

\* ... and nothing changes from p to q
Skips(s, h, p, q) == h[p] = SubSeq(s, p + 1, q) \o h[q]

(* Where the text does not occur nothing changes.                          *)
LEMMA Unreplaced ==
  ASSUME NEW s \in Texts, NEW f \in Texts, NEW r \in Texts, NEW h, IsRest(s, f, r, h),
         NEW p \in Nat, NEW q \in Nat, p <= q, q <= Len(s),
         NoneIn(s, f, p, q)
  PROVE  Skips(s, h, p, q)
<1>. DEFINE H(n) == h[q - n] = SubSeq(s, q - n + 1, q) \o h[q]
            S == {n \in Nat : n <= q - p => H(n)}
<1>1. /\ h \in [0 .. Len(s) -> Texts] /\ Len(s) \in Nat /\ s \in Seq(Char)
      /\ \A i \in 0 .. Len(s) - 1 :
            h[i] = IF At(s, f, i) THEN r \o h[i + Len(f)] ELSE <<s[i + 1]>> \o h[i + 1]
  BY TextsAreInts DEF IsRest, Texts
<1>2. h[q] \in Texts BY <1>1
<1>3. 0 \in S
  <2>1. SubSeq(s, q + 1, q) = <<>> BY SubSeqEmpty
  <2>2. <<>> \o h[q] = h[q] BY <1>2, ConcatEmptySeq DEF Texts
  <2>3. q - 0 = q OBVIOUS
  <2>4. H(0) BY <2>1, <2>2, <2>3
  <2>. HIDE DEF H
  <2>. QED BY <2>4
<1>4. ASSUME NEW n \in Nat, n \in S PROVE n + 1 \in S
  <2>. HIDE DEF H
  <2>. SUFFICES ASSUME n + 1 <= q - p PROVE H(n + 1) OBVIOUS
  <2>0. H(n) BY <1>4
  <2>. DEFINE i == q - (n + 1)
  <2>1. i \in p .. q - 1 /\ i \in 0 .. Len(s) - 1 /\ i + 1 = q - n /\ i + 1 \in 1 .. Len(s)
        /\ q \in i + 1 .. Len(s) /\ q \in i + 2 - 1 .. Len(s)
    BY <1>1
  <2>2. h[q - n] = SubSeq(s, q - n + 1, q) \o h[q] BY <2>0 DEF H
  <2>. HIDE DEF i, S
  <2>3. h[i] = <<s[i + 1]>> \o h[i + 1] BY <1>1, <2>1 DEF NoneIn
  <2>4. h[i + 1] = SubSeq(s, (i + 1) + 1, q) \o h[q] BY <2>1, <2>2
  <2>5. SubSeq(s, i + 1, q) = <<s[i + 1]>> \o SubSeq(s, (i + 1) + 1, q)
    BY <1>1, <2>1, SubSeqRecursiveFirst
  <2>. DEFINE a == <<s[i + 1]>>
              b == SubSeq(s, (i + 1) + 1, q)
              c == h[q]
  <2>6. a \in Texts /\ b \in Texts /\ c \in Texts
    <3>1. a \in Seq(Char) BY <1>1, <2>1, ElementOfSeq
    <3>2. i + 1 \in Nat /\ q <= Len(s) BY <2>1
    <3>3. b \in Texts BY <3>2, PartIsText
    <3>. QED BY <3>1, <3>3, <1>2 DEF Texts
  <2>. HIDE DEF a, b, c
  <2>7. (a \o b) \o c = a \o (b \o c) BY <2>6, TextAssociative, ZenonT(30)
  <2>8. h[i] = SubSeq(s, i + 1, q) \o h[q] BY <2>3, <2>4, <2>5, <2>7 DEF a, b, c
  <2>. QED BY <2>8 DEF i, H
<1>5. \A n \in Nat : n \in S
  <2>. HIDE DEF S
  <2>. QED BY <1>3, <1>4, Induction
<1>6. q - p \in Nat /\ q - (q - p) = p OBVIOUS
<1>7. H(q - p)
  <2>. HIDE DEF H
  <2>. QED BY <1>5, <1>6
<1>. QED BY <1>6, <1>7 DEF Skips

ReplacesOne(s, f, r, h, p, q) ==
    /\ q + Len(f) <= Len(s) /\ q <= Len(s) /\ h[q + Len(f)] \in Texts
    /\ h[p] = (SubSeq(s, p + 1, q) \o r) \o h[q + Len(f)]

(* From one match to behind it.                                            *)
LEMMA OneReplaced ==
  ASSUME NEW s \in Texts, NEW f \in Texts, NEW r \in Texts, Len(f) >= 1, NEW h, IsRest(s, f, r, h),
         NEW p \in Nat, NEW q \in Nat, p <= q, At(s, f, q),
         NoneIn(s, f, p, q)
  PROVE  ReplacesOne(s, f, r, h, p, q)
<1>1. q + Len(f) \in Nat /\ q + Len(f) <= Len(s) BY AtEnds
<1>2. Len(f) \in Nat /\ Len(s) \in Nat BY TextsAreInts
<1>3. q <= Len(s) /\ q \in 0 .. Len(s) - 1 /\ q + Len(f) \in 0 .. Len(s) BY <1>1, <1>2
<1>4. h[q] = r \o h[q + Len(f)] /\ h[q + Len(f)] \in Texts BY <1>3 DEF IsRest
<1>5. h[p] = SubSeq(s, p + 1, q) \o h[q]
  <2>1. Skips(s, h, p, q) BY <1>3, Unreplaced
  <2>. QED BY <2>1 DEF Skips
<1>6. SubSeq(s, p + 1, q) \in Texts BY <1>3, PartIsText
<1>7. (SubSeq(s, p + 1, q) \o r) \o h[q + Len(f)] = SubSeq(s, p + 1, q) \o (r \o h[q + Len(f)])
  BY <1>4, <1>6, TextAssociative
<1>. QED BY <1>1, <1>3, <1>4, <1>5, <1>7 DEF ReplacesOne

\* what a text becomes, its first characters already replaced by out
Halfway(s, h, read, out) ==
    read \in 0 .. Len(s) /\ out \in Texts /\ out \o h[read] = h[0]

LEMMA HalfwayStarts ==
  ASSUME NEW s \in Texts, NEW f, NEW r, NEW h, IsRest(s, f, r, h)
  PROVE  Halfway(s, h, 0, <<>>)
<1>1. Len(s) \in Nat BY TextsAreInts
<1>2. h[0] \in Texts BY <1>1 DEF IsRest
<1>3. <<>> \o h[0] = h[0] BY <1>2, ConcatEmptySeq DEF Texts
<1>. QED BY <1>1, <1>3, EmptyText DEF Halfway

\* out, what is up to the match at a place, and the replacement
OneMore(s, r, read, out, at) == out \o (SubSeq(s, read + 1, at) \o r)

FindsOn(s, f, r, h, read, out, at) ==
    /\ Halfway(s, h, at + Len(f), OneMore(s, r, read, out, at))
    /\ Len(OneMore(s, r, read, out, at)) = Len(out) + (at - read) + Len(r)

LEMMA HalfwayOn ==
  ASSUME NEW s \in Texts, NEW f \in Texts, NEW r \in Texts, Len(f) >= 1, NEW h, IsRest(s, f, r, h),
         NEW read, NEW out, Halfway(s, h, read, out), NEW at \in Nat, at >= read, At(s, f, at),
         NoneIn(s, f, read, at)
  PROVE  FindsOn(s, f, r, h, read, out, at)
<1>1. /\ read \in Nat /\ read <= at /\ out \in Texts /\ out \o h[read] = h[0]
      /\ Len(s) \in Nat /\ Len(f) \in Nat /\ Len(r) \in Nat /\ Len(out) \in Nat
  BY TextsAreInts DEF Halfway
<1>2. /\ at + Len(f) <= Len(s) /\ at <= Len(s) /\ h[at + Len(f)] \in Texts
      /\ h[read] = (SubSeq(s, read + 1, at) \o r) \o h[at + Len(f)]
  <2>1. ReplacesOne(s, f, r, h, read, at) BY <1>1, OneReplaced
  <2>. QED BY <2>1 DEF ReplacesOne
<1>3. SubSeq(s, read + 1, at) \in Texts /\ Len(SubSeq(s, read + 1, at)) = at - read
  BY <1>1, <1>2, PartIsText
<1>. DEFINE p == SubSeq(s, read + 1, at) \o r
<1>4. p \in Texts /\ Len(p) = (at - read) + Len(r) BY <1>3, TextConcat
<1>. HIDE DEF p
<1>5. out \o p \in Texts /\ Len(out \o p) = Len(out) + (at - read) + Len(r)
  <2>1. out \o p \in Texts /\ Len(out \o p) = Len(out) + Len(p) BY <1>1, <1>4, TextConcat
  <2>. QED BY <2>1, <1>1, <1>4
<1>6. (out \o p) \o h[at + Len(f)] = out \o (p \o h[at + Len(f)])
  BY <1>1, <1>2, <1>4, TextAssociative, ZenonT(30)
<1>7. (out \o p) \o h[at + Len(f)] = h[0] BY <1>1, <1>2, <1>6 DEF p
<1>8. at + Len(f) \in 0 .. Len(s) BY <1>1, <1>2
<1>9. Halfway(s, h, at + Len(f), out \o p) BY <1>5, <1>7, <1>8 DEF Halfway
<1>. QED BY <1>1, <1>2, <1>5, <1>8, <1>9 DEF p, FindsOn, OneMore

NoneBehind(s, f, p) == \A i \in Nat : i >= p => ~At(s, f, i)

\* the result when nothing more is found
IsResult(s, h, read, out) == h[0] = out \o SubSeq(s, read + 1, Len(s))

LEMMA HalfwayEnds ==
  ASSUME NEW s \in Texts, NEW f \in Texts, NEW r \in Texts, NEW h, IsRest(s, f, r, h),
         NEW read, NEW out, Halfway(s, h, read, out),
         NoneBehind(s, f, read)
  PROVE  IsResult(s, h, read, out)
<1>1. read \in Nat /\ read <= Len(s) /\ Len(s) \in Nat /\ out \o h[read] = h[0]
  BY TextsAreInts DEF Halfway
<1>2. h[read] = SubSeq(s, read + 1, Len(s)) \o h[Len(s)]
  <2>1. NoneIn(s, f, read, Len(s)) BY <1>1 DEF NoneIn, NoneBehind
  <2>2. Skips(s, h, read, Len(s)) BY <1>1, <2>1, Unreplaced
  <2>. QED BY <2>2 DEF Skips
<1>3. SubSeq(s, read + 1, Len(s)) \in Texts BY <1>1, PartIsText
<1>4. h[Len(s)] = <<>> BY DEF IsRest
<1>5. SubSeq(s, read + 1, Len(s)) \o <<>> = SubSeq(s, read + 1, Len(s))
  BY <1>3, ConcatEmptySeq DEF Texts
<1>. QED BY <1>1, <1>2, <1>4, <1>5 DEF IsResult

-----------------------------------------------------------------------------
(* Rounds of a loop.                                                       *)

HasRounds(V, b, step) ==
    \E g \in [Nat -> V] : g[0] = b /\ \A n \in Nat : g[n + 1] = step[g[n]]

(* Rounds that keep a set of states.                                       *)
LEMMA RoundsExist ==
  ASSUME NEW V, NEW b \in V, NEW step \in [V -> V]
  PROVE  HasRounds(V, b, step)
<1>. DEFINE tab == [n \in Nat |-> step]
<1>1. tab \in [Nat -> [V -> V]] OBVIOUS
<1>2. HasRecursionOverNat(V, b, tab)
  <2>. HIDE DEF tab
  <2>. QED BY <1>1, RecursionOverNat
<1>3. PICK g \in [Nat -> V] : g[0] = b /\ \A n \in Nat : g[n + 1] = tab[n + 1][g[n]]
  BY <1>2 DEF HasRecursionOverNat
<1>. QED BY <1>3 DEF HasRounds

\* V has the states of a loop, which begins with b and ends with e after N
\* rounds of step
Ends(V, b, step, N, e) ==
    \E g \in [Nat -> V] : g[0] = b /\ (\A n \in Nat : g[n + 1] = step[g[n]]) /\ e = g[N]

\* a round changes nothing or moves a place, but not beyond N
Moves(V, step, place)    == \A v \in V : step[v] = v \/ place[step[v]] > place[v]
Stops(V, step, place, N) == \A v \in V : place[v] >= N => step[v] = v

(* A loop whose rounds move a place ends within as many rounds.            *)
LEMMA LoopEnds ==
  ASSUME NEW V, NEW b, NEW step, NEW N \in Nat, NEW e, Ends(V, b, step, N, e),
         NEW place \in [V -> Int], place[b] >= 0,
         Moves(V, step, place), Stops(V, step, place, N)
  PROVE  e \in V /\ step[e] = e
<1>1. PICK g \in [Nat -> V] : g[0] = b /\ (\A n \in Nat : g[n + 1] = step[g[n]]) /\ e = g[N]
  BY DEF Ends
<1>. DEFINE S == {n \in Nat : step[g[n]] = g[n] \/ place[g[n]] >= n}
<1>2. 0 \in S BY <1>1
<1>3. ASSUME NEW n \in Nat, n \in S PROVE n + 1 \in S
  <2>1. g[n] \in V /\ g[n + 1] \in V /\ g[n + 1] = step[g[n]] BY <1>1
  <2>2. CASE step[g[n]] = g[n] BY <2>1, <2>2
  <2>3. CASE step[g[n]] # g[n]
    <3>1. place[g[n]] >= n /\ place[g[n + 1]] > place[g[n]] BY <1>3, <2>1, <2>3 DEF Moves
    <3>2. place[g[n]] \in Int /\ place[g[n + 1]] \in Int BY <2>1
    <3>. QED BY <3>1, <3>2
  <2>. QED BY <2>2, <2>3
<1>4. \A n \in Nat : n \in S
  <2>. HIDE DEF S
  <2>. QED BY <1>2, <1>3, Induction
<1>5. e \in V BY <1>1
<1>6. step[e] = e \/ place[e] >= N BY <1>1, <1>4
<1>. QED BY <1>5, <1>6 DEF Stops
-----------------------------------------------------------------------------
(* What a recursion over Nat gives, in a set that its rounds keep.         *)
LEMMA LoopRuns ==
  ASSUME NEW V, NEW b \in V, NEW step \in [V -> V], NEW N \in Nat,
         NEW a, a = [n \in Nat |-> a[n]], a[0] = b,
         \A n \in Nat : a[n] \in V => a[n + 1] = step[a[n]]
  PROVE  Ends(V, b, step, N, a[N])
<1>. DEFINE S == {n \in Nat : a[n] \in V}
<1>1. 0 \in S OBVIOUS
<1>2. ASSUME NEW n \in Nat, n \in S PROVE n + 1 \in S BY <1>2
<1>3. \A n \in Nat : n \in S
  <2>. HIDE DEF S
  <2>. QED BY <1>1, <1>2, Induction
<1>4. a \in [Nat -> V] BY <1>3
<1>5. \A n \in Nat : a[n + 1] = step[a[n]] BY <1>3
<1>. QED BY <1>4, <1>5 DEF Ends

\* the buffer while replace goes through the text t: out is in its place,
\* and what has not been read is in its own
Going(t, h, chars, read, out, u) ==
    /\ Halfway(t, h, read, out) /\ Len(out) <= read
    /\ Holds(chars, u) /\ Len(u) = Len(t)
    /\ \A i \in 1 .. Len(out) : u[i] = out[i]
    /\ \A i \in read + 1 .. Len(t) : u[i] = t[i]

LEMMA GoingIs ==
  ASSUME NEW t \in Texts, NEW h, NEW chars, NEW read, NEW out, NEW u, Going(t, h, chars, read, out, u)
  PROVE  /\ read \in Nat /\ read <= Len(t) /\ out \in Texts /\ u \in Texts /\ Len(u) = Len(t)
         /\ Len(t) \in Nat /\ Len(out) \in Nat /\ Len(out) <= read /\ CString(chars) = u
         /\ chars \in Seq(Int) /\ Len(chars) \in Nat /\ Len(t) < Len(chars)
<1>1. CString(chars) = u BY HeldText DEF Going
<1>2. chars \in Seq(Int) /\ u \in Texts /\ Len(u) < Len(chars) BY DEF Going, Holds
<1>3. Len(chars) \in Nat BY <1>2
<1>4. read \in 0 .. Len(t) /\ out \in Texts BY DEF Going, Halfway
<1>. QED BY <1>1, <1>2, <1>3, <1>4, TextsAreInts DEF Going

(* A match in what has not been read is one in the text.                   *)
LEMMA GoingAt ==
  ASSUME NEW t \in Texts, NEW f \in Texts, NEW h, NEW chars, NEW read, NEW out, NEW u,
         Going(t, h, chars, read, out, u), NEW i \in Nat, i >= read
  PROVE  At(u, f, i) <=> At(t, f, i)
<1>1. /\ read \in Nat /\ Len(u) = Len(t) /\ Len(t) \in Nat /\ Len(f) \in Nat
      /\ \A k \in read + 1 .. Len(t) : u[k] = t[k]
  BY GoingIs, TextsAreInts DEF Going
<1>2. ASSUME i + Len(f) <= Len(t), NEW k \in 1 .. Len(f) PROVE u[i + k] = t[i + k]
  <2>1. i + k \in read + 1 .. Len(t) BY <1>1, <1>2
  <2>. QED BY <2>1, <1>1
<1>. QED BY <1>1, <1>2 DEF At

(* What strstr finds in the buffer.                                        *)
LEMMA GoingFound ==
  ASSUME NEW t \in Texts, NEW f \in Texts, NEW h, NEW chars, NEW read, NEW out, NEW u,
         Going(t, h, chars, read, out, u), FoundFrom(CString(chars), f, read) # {}
  PROVE  LET at == Least(FoundFrom(CString(chars), f, read))
         IN  at \in Nat /\ at >= read /\ At(t, f, at) /\ NoneIn(t, f, read, at)
<1>. DEFINE at == Least(FoundFrom(CString(chars), f, read))
<1>1. CString(chars) = u /\ u \in Seq(Int) /\ f \in Seq(Int) /\ read \in Nat
  BY GoingIs, TextsAreInts
<1>2. at \in Nat /\ at >= read /\ At(u, f, at) /\ \A i \in read .. at - 1 : ~At(u, f, i)
  <2>1. FoundFrom(u, f, read) # {} BY <1>1
  <2>2. LET b == Least(FoundFrom(u, f, read))
        IN  b \in Nat /\ b >= read /\ At(u, f, b) /\ \A i \in read .. b - 1 : ~At(u, f, i)
    BY <1>1, <2>1, FirstFound
  <2>. QED BY <2>2, <1>1
<1>. HIDE DEF at
<1>3. At(t, f, at) BY <1>2, GoingAt
<1>4. ASSUME NEW i \in read .. at - 1 PROVE ~At(t, f, i)
  <2>1. i \in Nat /\ i >= read BY <1>1, <1>2
  <2>. QED BY <2>1, <1>2, GoingAt
<1>. QED BY <1>2, <1>3, <1>4 DEF at, NoneIn

LEMMA GoingNone ==
  ASSUME NEW t \in Texts, NEW f \in Texts, NEW h, NEW chars, NEW read, NEW out, NEW u,
         Going(t, h, chars, read, out, u), FoundFrom(CString(chars), f, read) = {}
  PROVE  NoneBehind(t, f, read)
<1>1. CString(chars) = u /\ u \in Seq(Int) /\ f \in Seq(Int) /\ read \in Nat
  BY GoingIs, TextsAreInts
<1>2. \A i \in Nat : i >= read => ~At(u, f, i) BY <1>1, NoneFound
<1>. QED BY <1>2, GoingAt DEF NoneBehind

\* the parts of two texts are the same from i to j
SamePart(u, t, i, j) == SubSeq(u, i + 1, j) = SubSeq(t, i + 1, j)

(* What is read is the text's.                                             *)
LEMMA GoingPart ==
  ASSUME NEW t \in Texts, NEW h, NEW chars, NEW read, NEW out, NEW u,
         Going(t, h, chars, read, out, u), NEW at \in Nat, at >= read, at <= Len(t)
  PROVE  SamePart(u, t, read, at)
<1>. DEFINE p == SubSeq(u, read + 1, at)
            q == SubSeq(t, read + 1, at)
<1>1. /\ read \in Nat /\ u \in Texts /\ Len(u) = Len(t) /\ Len(t) \in Nat
      /\ \A i \in read + 1 .. Len(t) : u[i] = t[i]
  BY GoingIs DEF Going
<1>2. p \in Texts /\ Len(p) = at - read /\ \A k \in 1 .. at - read : p[k] = u[read + k]
  BY <1>1, PartIsText
<1>3. q \in Texts /\ Len(q) = at - read /\ \A k \in 1 .. at - read : q[k] = t[read + k]
  BY <1>1, PartIsText
<1>. HIDE DEF p, q
<1>4. \A k \in 1 .. at - read : read + k \in read + 1 .. Len(t) BY <1>1
<1>5. p = q BY <1>1, <1>2, <1>3, <1>4, SameText
<1>. QED BY <1>5 DEF p, q, SamePart

(* A text poked into a text.                                               *)
LEMMA PokeText ==
  ASSUME NEW u \in Texts, NEW at \in Nat, NEW piece \in Texts, at + Len(piece) <= Len(u)
  PROVE  /\ Poke(u, at, piece) \in Texts /\ Len(Poke(u, at, piece)) = Len(u)
         /\ \A i \in 1 .. Len(u) :
               Poke(u, at, piece)[i] = IF i - at \in 1 .. Len(piece) THEN piece[i - at] ELSE u[i]
<1>. DEFINE p == Poke(u, at, piece)
<1>1. Len(u) \in Nat /\ u \in Seq(Int) /\ piece \in Seq(Int) BY TextsAreInts
<1>2. p \in Seq(Int) /\ Len(p) = Len(u)
      /\ \A i \in 1 .. Len(u) : p[i] = IF i - at \in 1 .. Len(piece) THEN piece[i - at] ELSE u[i]
  BY <1>1, PokeIs
<1>. HIDE DEF p
<1>3. \A i \in 1 .. Len(u) : p[i] \in Char BY <1>2, TextsAreInts
<1>4. p = [i \in 1 .. Len(u) |-> p[i]] BY <1>1, <1>2
<1>5. p \in Texts BY <1>1, <1>3, <1>4 DEF Texts
<1>. QED BY <1>2, <1>5 DEF p

LEMMA PokeHoldsText ==
  ASSUME NEW chars, NEW u, Holds(chars, u), NEW at \in Nat, NEW piece \in Texts,
         at + Len(piece) <= Len(u)
  PROVE  Holds(Poke(chars, at, piece), Poke(u, at, piece))
         /\ Len(Poke(chars, at, piece)) = Len(chars)
<1>. DEFINE p == Poke(chars, at, piece)
            v == Poke(u, at, piece)
<1>1. /\ chars \in Seq(Int) /\ u \in Texts /\ Len(u) \in Nat /\ piece \in Seq(Int)
      /\ Len(u) < Len(chars) /\ chars[Len(u) + 1] = Nul /\ Len(piece) \in Nat /\ Len(chars) \in Nat
      /\ \A i \in 1 .. Len(u) : chars[i] = u[i]
  <2>1. chars \in Seq(Int) /\ u \in Texts BY DEF Holds
  <2>. QED BY <2>1, TextsAreInts DEF Holds
<1>2. p \in Seq(Int) /\ Len(p) = Len(chars)
      /\ \A i \in 1 .. Len(chars) :
           p[i] = IF i - at \in 1 .. Len(piece) THEN piece[i - at] ELSE chars[i]
  BY <1>1, PokeIs
<1>3. v \in Texts /\ Len(v) = Len(u)
      /\ \A i \in 1 .. Len(u) : v[i] = IF i - at \in 1 .. Len(piece) THEN piece[i - at] ELSE u[i]
  BY <1>1, PokeText
<1>. HIDE DEF p, v
<1>4. ASSUME NEW i \in 1 .. Len(u) PROVE p[i] = v[i]
  <2>1. i \in 1 .. Len(chars) BY <1>1
  <2>. QED BY <2>1, <1>1, <1>2, <1>3
<1>5. p[Len(u) + 1] = Nul
  <2>1. Len(u) + 1 \in 1 .. Len(chars) /\ Len(u) + 1 - at \notin 1 .. Len(piece) BY <1>1
  <2>2. p[Len(u) + 1] = chars[Len(u) + 1]
    <3>1. \A i \in 1 .. Len(chars) : i - at \notin 1 .. Len(piece) => p[i] = chars[i] BY <1>2
    <3>. QED BY <2>1, <3>1
  <2>. QED BY <2>2, <1>1
<1>6. Holds(p, v) BY <1>1, <1>2, <1>3, <1>4, <1>5 DEF Holds
<1>. QED BY <1>2, <1>6 DEF p, v
-----------------------------------------------------------------------------
\* the part of a text from i to j, with r behind it
IsPiece(p, t, i, j, r) == p = SubSeq(t, i + 1, j) \o r

LEMMA PieceIs ==
  ASSUME NEW t \in Texts, NEW r \in Texts, NEW i \in Nat, NEW j \in Nat, i <= j, j <= Len(t),
         NEW p, IsPiece(p, t, i, j, r)
  PROVE  p \in Texts /\ Len(p) = (j - i) + Len(r)
<1>1. SubSeq(t, i + 1, j) \in Texts /\ Len(SubSeq(t, i + 1, j)) = j - i BY PartIsText
<1>2. /\ SubSeq(t, i + 1, j) \o r \in Texts
      /\ Len(SubSeq(t, i + 1, j) \o r) = Len(SubSeq(t, i + 1, j)) + Len(r)
  BY <1>1, TextConcat
<1>. QED BY <1>1, <1>2 DEF IsPiece

\* the buffer with a piece behind out
PokedOn(t, h, chars, behind, out, piece) ==
    \E o, v \in Texts : /\ Going(t, h, Poke(chars, Len(out), piece), behind, o, v)
                       /\ Len(o) = Len(out) + Len(piece)
                       /\ Len(Poke(chars, Len(out), piece)) = Len(chars)

(* A replacement that is no longer than what it replaces is put behind     *)
(* what is already there.                                                  *)
LEMMA GoingOn ==
  ASSUME NEW t \in Texts, NEW f \in Texts, NEW r \in Texts, Len(f) >= 1, Len(r) <= Len(f),
         NEW h, IsRest(t, f, r, h),
         NEW chars, NEW read \in Nat, NEW out \in Texts, NEW u \in Texts,
         Going(t, h, chars, read, out, u),
         NEW at \in Nat, at >= read, At(t, f, at), NoneIn(t, f, read, at),
         NEW piece \in Texts, IsPiece(piece, t, read, at, r)
  PROVE  PokedOn(t, h, chars, at + Len(f), out, piece)
<1>1. PICK w \in Nat : w = Len(out) BY TextsAreInts
<1>. DEFINE v == Poke(u, w, piece)
            o == out \o piece
<1>2. /\ read <= Len(t) /\ Len(u) = Len(t) /\ Len(t) \in Nat /\ w <= read /\ Holds(chars, u)
      /\ Len(f) \in Nat /\ Len(r) \in Nat /\ Len(piece) \in Nat
      /\ \A i \in 1 .. w : u[i] = out[i]
      /\ \A i \in read + 1 .. Len(t) : u[i] = t[i]
  BY <1>1, GoingIs, TextsAreInts DEF Going
<1>3. at + Len(f) \in Nat /\ at + Len(f) <= Len(t) /\ at <= Len(t)
  <2>1. at + Len(f) <= Len(t) BY AtEnds
  <2>. QED BY <2>1, <1>2
<1>4. Len(piece) = (at - read) + Len(r) BY <1>3, PieceIs
<1>5. Halfway(t, h, at + Len(f), o)
  <2>1. Halfway(t, h, read, out) BY DEF Going
  <2>2. FindsOn(t, f, r, h, read, out, at) BY <2>1, HalfwayOn
  <2>. QED BY <2>2 DEF IsPiece, FindsOn, OneMore
<1>6. o \in Texts /\ Len(o) = w + Len(piece)
      /\ \A i \in 1 .. w + Len(piece) : o[i] = IF i <= w THEN out[i] ELSE piece[i - w]
  BY <1>1, TextConcat
<1>7. w + Len(piece) <= at + Len(f) /\ w + Len(piece) <= Len(u) BY <1>2, <1>3, <1>4
<1>8. v \in Texts /\ Len(v) = Len(u)
      /\ \A i \in 1 .. Len(u) : v[i] = IF i - w \in 1 .. Len(piece) THEN piece[i - w] ELSE u[i]
  BY <1>7, PokeText
<1>9. Holds(Poke(chars, w, piece), v) /\ Len(Poke(chars, w, piece)) = Len(chars)
  BY <1>2, <1>7, PokeHoldsText
<1>. HIDE DEF v, o
<1>10. ASSUME NEW i \in 1 .. Len(o) PROVE v[i] = o[i]
  <2>1. i \in 1 .. Len(u) /\ i \in 1 .. w + Len(piece) BY <1>2, <1>6, <1>7
  <2>2. CASE i <= w
    <3>1. i - w \notin 1 .. Len(piece) /\ i \in 1 .. w BY <2>1, <2>2, <1>2
    <3>. QED BY <3>1, <2>1, <2>2, <1>2, <1>6, <1>8
  <2>3. CASE ~(i <= w)
    <3>1. i - w \in 1 .. Len(piece) BY <2>1, <2>3, <1>2
    <3>. QED BY <3>1, <2>1, <2>3, <1>6, <1>8
  <2>. QED BY <2>2, <2>3
<1>11. ASSUME NEW i \in at + Len(f) + 1 .. Len(t) PROVE v[i] = t[i]
  <2>1. i \in 1 .. Len(u) /\ i - w \notin 1 .. Len(piece) /\ i \in read + 1 .. Len(t)
    BY <1>2, <1>3, <1>7
  <2>. QED BY <2>1, <1>2, <1>8
<1>12. Len(o) <= at + Len(f) BY <1>6, <1>7
<1>13. Going(t, h, Poke(chars, w, piece), at + Len(f), o, v)
  BY <1>2, <1>5, <1>8, <1>9, <1>10, <1>11, <1>12 DEF Going
<1>. QED BY <1>1, <1>6, <1>8, <1>9, <1>13 DEF PokedOn

LEMMA GoingStarts ==
  ASSUME NEW t \in Texts, NEW f \in Texts, NEW r \in Texts, NEW h, IsRest(t, f, r, h),
         NEW chars, Holds(chars, t)
  PROVE  Going(t, h, chars, 0, <<>>, t)
<1>1. Halfway(t, h, 0, <<>>) BY HalfwayStarts
<1>. QED BY <1>1, EmptyText DEF Going

\* the states of the loop
Shortening(t, h, N) ==
    {s \in [chars : Seq(Int), read : Nat, write : Nat] :
        Len(s.chars) = N /\ \E out, u \in Texts : Going(t, h, s.chars, s.read, out, u) /\ s.write = Len(out)}

LEMMA ShorterOn ==
  ASSUME NEW t \in Texts, NEW f \in Texts, NEW r \in Texts, Len(f) >= 1, Len(r) <= Len(f),
         NEW h, IsRest(t, f, r, h), NEW N, NEW s \in Shortening(t, h, N)
  PROVE  /\ ShorterRound(s, f, r) \in Shortening(t, h, N)
         /\ FoundFrom(CString(s.chars), f, s.read) # {} => ShorterRound(s, f, r).read > s.read
<1>. DEFINE found == FoundFrom(CString(s.chars), f, s.read)
<1>1. CASE found = {} BY <1>1 DEF ShorterRound
<1>2. CASE found # {}
  <2>1. PICK chars \in Seq(Int), read \in Nat, write \in Nat :
           chars = s.chars /\ read = s.read /\ write = s.write
    BY DEF Shortening
  <2>2. PICK out \in Texts, u \in Texts : Going(t, h, chars, read, out, u) /\ write = Len(out)
    BY <2>1 DEF Shortening
  <2>3. Len(chars) = N BY <2>1 DEF Shortening
  <2>4. CString(chars) = u /\ Len(f) \in Nat /\ Len(t) \in Nat BY <2>2, GoingIs, TextsAreInts
  <2>5. PICK at \in Nat : /\ at = Least(found)
                         /\ at >= read /\ At(t, f, at) /\ NoneIn(t, f, read, at)
    <3>1. FoundFrom(CString(chars), f, read) # {} BY <1>2, <2>1
    <3>2. LET k == Least(FoundFrom(CString(chars), f, read))
          IN  k \in Nat /\ k >= read /\ At(t, f, k) /\ NoneIn(t, f, read, k)
      BY <2>2, <3>1, GoingFound
    <3>. QED BY <3>2, <2>1
  <2>6. PICK behind \in Nat : behind = at + Len(f) /\ at <= Len(t)
    <3>1. at + Len(f) \in Nat /\ at + Len(f) <= Len(t) BY <2>5, AtEnds
    <3>. QED BY <3>1, <2>4
  <2>7. PICK piece \in Texts : IsPiece(piece, t, read, at, r)
    <3>1. SubSeq(t, read + 1, at) \in Texts BY <2>5, <2>6, PartIsText
    <3>2. SubSeq(t, read + 1, at) \o r \in Texts BY <3>1, TextConcat
    <3>. QED BY <3>2 DEF IsPiece
  <2>8. ShorterRound(s, f, r) = [chars |-> Poke(chars, write, piece), read |-> behind,
                                 write |-> write + Len(piece)]
    <3>1. SamePart(u, t, read, at) BY <2>2, <2>5, <2>6, GoingPart
    <3>. QED BY <1>2, <2>1, <2>4, <2>5, <2>6, <2>7, <3>1 DEF ShorterRound, SamePart, IsPiece
  <2>9. PokedOn(t, h, chars, at + Len(f), out, piece) BY <2>2, <2>5, <2>7, GoingOn
  <2>. DEFINE c == Poke(chars, write, piece)
              n == [chars |-> c, read |-> behind, write |-> write + Len(piece)]
  <2>10. PICK o \in Texts, v \in Texts :
            Going(t, h, c, behind, o, v) /\ Len(o) = write + Len(piece) /\ Len(c) = N
    BY <2>2, <2>3, <2>6, <2>9 DEF PokedOn
  <2>. HIDE DEF c
  <2>11. c \in Seq(Int) /\ write + Len(piece) \in Nat
    BY <2>10, GoingIs
  <2>12. n \in [chars : Seq(Int), read : Nat, write : Nat] /\ n.chars = c /\ n.read = behind
        /\ n.write = write + Len(piece)
    BY <2>11
  <2>13. ShorterRound(s, f, r) = n BY <2>8 DEF c
  <2>. HIDE DEF n
  <2>14. n \in Shortening(t, h, N) BY <2>10, <2>11, <2>12 DEF Shortening
  <2>15. n.read > s.read BY <2>1, <2>4, <2>5, <2>6, <2>12
  <2>. QED BY <2>13, <2>14, <2>15
<1>. QED BY <1>1, <1>2

(* The whole loop, and the copy of the rest behind it.                     *)
LEMMA ReplaceShorterIs ==
  ASSUME NEW t \in Texts, NEW f \in Texts, NEW r \in Texts, Len(f) >= 1, Len(r) <= Len(f),
         NEW h, IsRest(t, f, r, h), NEW chars, Holds(chars, t)
  PROVE  Holds(ReplaceShorter(chars, f, r), h[0]) /\ Len(ReplaceShorter(chars, f, r)) = Len(chars)
<1>. DEFINE N == Len(chars)
            V == Shortening(t, h, N)
            b == [chars |-> chars, read |-> 0, write |-> 0]
            step == [s \in V |-> ShorterRound(s, f, r)]
            place == [s \in V |-> s.read]
            F(g) == [n \in Nat |-> IF n = 0 THEN b ELSE ShorterRound(g[n - 1], f, r)]
            a == CHOOSE g : g = F(g)
<1>1. chars \in Seq(Int) /\ N \in Nat /\ Len(t) < N
  <2>1. chars \in Seq(Int) /\ Len(t) < N BY DEF Holds
  <2>. QED BY <2>1
<1>2. b \in V
  <2>1. Going(t, h, chars, 0, <<>>, t) BY GoingStarts
  <2>2. b \in [chars : Seq(Int), read : Nat, write : Nat] /\ b.chars = chars /\ b.read = 0
        /\ b.write = 0
    BY <1>1
  <2>. HIDE DEF b
  <2>. QED BY <2>1, <2>2, EmptyText DEF Shortening
<1>3. step \in [V -> V]
  <2>1. \A s \in V : ShorterRound(s, f, r) \in V BY ShorterOn
  <2>. HIDE DEF V
  <2>. QED BY <2>1
<1>. HIDE DEF V, b
<1>4. a = F(a)
  <2>1. PICK g \in [Nat -> V] : g[0] = b /\ \A n \in Nat : g[n + 1] = step[g[n]]
    <3>. HIDE DEF step
    <3>1. HasRounds(V, b, step) BY <1>2, <1>3, RoundsExist
    <3>. QED BY <3>1 DEF HasRounds
  <2>2. \A n \in Nat : n # 0 => g[n] = ShorterRound(g[n - 1], f, r)
    <3>1. ASSUME NEW n \in Nat, n # 0 PROVE g[n] = ShorterRound(g[n - 1], f, r)
      <4>1. n - 1 \in Nat /\ n - 1 + 1 = n BY <3>1
      <4>2. g[n - 1] \in V /\ g[n] = step[g[n - 1]] BY <4>1, <2>1
      <4>. QED BY <4>2
    <3>. QED BY <3>1
  <2>3. g = [n \in Nat |-> g[n]] BY <2>1
  <2>4. \A n \in Nat : g[n] = F(g)[n] BY <2>1, <2>2
  <2>5. F(g) = [n \in Nat |-> F(g)[n]] OBVIOUS
  <2>. HIDE DEF F
  <2>6. g = F(g) BY <2>3, <2>4, <2>5
  <2>. QED BY <2>6
<1>. HIDE DEF a
<1>5. Ends(V, b, step, N, a[N])
  <2>1. \A n \in Nat : a[n] = F(a)[n] BY <1>4
  <2>2. F(a) = [n \in Nat |-> F(a)[n]] OBVIOUS
  <2>3. F(a)[0] = b OBVIOUS
  <2>4. \A n \in Nat : F(a)[n + 1] = ShorterRound(a[n], f, r) OBVIOUS
  <2>. HIDE DEF F
  <2>5. a = [n \in Nat |-> a[n]] BY <2>1, <2>2, <1>4
  <2>6. a[0] = b BY <2>1, <2>3
  <2>7. \A n \in Nat : a[n] \in V => a[n + 1] = step[a[n]] BY <2>1, <2>4
  <2>. HIDE DEF step
  <2>. QED BY <1>1, <1>2, <1>3, <2>5, <2>6, <2>7, LoopRuns
<1>. DEFINE e == a[N]
<1>6. \A s \in V : s \in [chars : Seq(Int), read : Nat, write : Nat] /\ s.read <= Len(t) /\ s.read \in Nat
  <2>1. ASSUME NEW s \in V PROVE s \in [chars : Seq(Int), read : Nat, write : Nat] /\ s.read <= Len(t)
    BY GoingIs DEF V, Shortening
  <2>. QED BY <2>1
<1>7. Moves(V, step, place)
  <2>1. ASSUME NEW s \in V PROVE step[s] = s \/ place[step[s]] > place[s]
    <3>1. step[s] = ShorterRound(s, f, r) /\ step[s] \in V BY <1>3
    <3>2. FoundFrom(CString(s.chars), f, s.read) # {} => step[s].read > s.read
      BY <3>1, ShorterOn DEF V
    <3>3. FoundFrom(CString(s.chars), f, s.read) = {} => step[s] = s BY <3>1 DEF ShorterRound
    <3>. QED BY <3>1, <3>2, <3>3
  <2>. QED BY <2>1 DEF Moves
<1>8. e \in V /\ step[e] = e
  <2>1. place \in [V -> Int] /\ place[b] >= 0 BY <1>2, <1>6 DEF b
  <2>2. Stops(V, step, place, N)
    <3>1. \A s \in V : ~(place[s] >= N) BY <1>1, <1>6, TextsAreInts
    <3>. QED BY <3>1 DEF Stops
  <2>. HIDE DEF step, place
  <2>. QED BY <1>1, <1>5, <1>7, <2>1, <2>2, LoopEnds
<1>9. ReplaceShorter(chars, f, r) =
        Poke(e.chars, e.write, Append(SubSeq(CString(e.chars), e.read + 1, Len(CString(e.chars))), Nul))
  BY DEF ReplaceShorter, a, b, N
<1>. HIDE DEF e
<1>10. PICK chars1 \in Seq(Int), read \in Nat, write \in Nat :
          chars1 = e.chars /\ read = e.read /\ write = e.write
  BY <1>6, <1>8
<1>11. PICK out \in Texts, u \in Texts : Going(t, h, chars1, read, out, u) /\ write = Len(out)
  BY <1>8, <1>10 DEF V, Shortening
<1>12. /\ CString(chars1) = u /\ Len(u) = Len(t) /\ read <= Len(t) /\ Len(t) \in Nat
       /\ Len(t) < Len(chars1) /\ Len(out) <= read
  BY <1>11, GoingIs
<1>13. FoundFrom(CString(chars1), f, read) = {}
  <2>1. ShorterRound(e, f, r) = e BY <1>8
  <2>2. ~(e.read > e.read) BY <1>10
  <2>. QED BY <2>1, <2>2, <1>8, <1>10, ShorterOn DEF V
<1>14. NoneBehind(t, f, read) BY <1>11, <1>13, GoingNone
<1>15. PICK tail \in Texts : tail = SubSeq(t, read + 1, Len(t)) /\ Len(tail) = Len(t) - read
  <2>1. SubSeq(t, read + 1, Len(t)) \in Texts /\ Len(SubSeq(t, read + 1, Len(t))) = Len(t) - read
    BY <1>12, PartIsText
  <2>. QED BY <2>1
<1>16. SubSeq(u, read + 1, Len(u)) = tail
  <2>1. SamePart(u, t, read, Len(t)) BY <1>11, <1>12, GoingPart
  <2>. QED BY <2>1, <1>12, <1>15 DEF SamePart
<1>17. h[0] = out \o tail
  <2>1. Halfway(t, h, read, out) BY <1>11 DEF Going
  <2>2. IsResult(t, h, read, out) BY <1>14, <2>1, HalfwayEnds
  <2>. QED BY <1>15, <2>2 DEF IsResult
<1>18. \A i \in 1 .. Len(out) : chars1[i] = out[i]
  <2>1. \A i \in 1 .. Len(u) : chars1[i] = u[i] BY <1>11 DEF Going, Holds
  <2>2. \A i \in 1 .. Len(out) : u[i] = out[i] BY <1>11 DEF Going
  <2>. QED BY <2>1, <2>2, <1>11, <1>12
<1>19. Len(out) + Len(tail) < Len(chars1) BY <1>11, <1>12, <1>15
<1>20. Holds(Poke(chars1, Len(out), Append(tail, Nul)), out \o tail)
  BY <1>18, <1>19, PokeHolds
<1>21. Len(Poke(chars1, Len(out), Append(tail, Nul))) = N
  <2>1. tail \in Seq(Int) /\ Len(out) \in Nat BY TextsAreInts
  <2>2. Append(tail, Nul) \in Seq(Int) BY <2>1 DEF Nul
  <2>3. Len(chars1) = N BY <1>8, <1>10 DEF V, Shortening
  <2>. QED BY <2>1, <2>2, <2>3, PokeIs
<1>. QED BY <1>9, <1>10, <1>11, <1>12, <1>16, <1>17, <1>20, <1>21
-----------------------------------------------------------------------------
(* Over a match, or from what has been read up to its end.                 *)
LEMMA PokeSame ==
  ASSUME NEW chars, NEW u, Holds(chars, u), NEW r \in Texts,
         NEW read \in Nat, NEW at \in Nat, read <= at, at <= Len(u),
         NEW piece \in Texts, IsPiece(piece, u, read, at, r)
  PROVE  Poke(chars, at, r) = Poke(chars, read, piece)
<1>. DEFINE a == Poke(chars, at, r)
            b == Poke(chars, read, piece)
            p == SubSeq(u, read + 1, at)
<1>1. /\ chars \in Seq(Int) /\ u \in Texts /\ Len(u) \in Nat /\ piece \in Seq(Int) /\ r \in Seq(Int)
      /\ Len(u) < Len(chars) /\ Len(piece) \in Nat /\ Len(chars) \in Nat /\ Len(r) \in Nat
      /\ \A i \in 1 .. Len(u) : chars[i] = u[i]
  <2>1. chars \in Seq(Int) /\ u \in Texts BY DEF Holds
  <2>. QED BY <2>1, TextsAreInts DEF Holds
<1>2. a \in Seq(Int) /\ Len(a) = Len(chars)
      /\ \A i \in 1 .. Len(chars) : a[i] = IF i - at \in 1 .. Len(r) THEN r[i - at] ELSE chars[i]
  BY <1>1, PokeIs, SMTT(30)
<1>3. b \in Seq(Int) /\ Len(b) = Len(chars)
      /\ \A i \in 1 .. Len(chars) :
            b[i] = IF i - read \in 1 .. Len(piece) THEN piece[i - read] ELSE chars[i]
  BY <1>1, PokeIs
<1>4. p \in Texts /\ Len(p) = at - read /\ \A k \in 1 .. at - read : p[k] = u[read + k]
  BY <1>1, PartIsText
<1>5. /\ Len(piece) = (at - read) + Len(r)
      /\ \A i \in 1 .. (at - read) + Len(r) :
            piece[i] = IF i <= at - read THEN p[i] ELSE r[i - (at - read)]
  <2>1. piece = p \o r BY DEF IsPiece
  <2>. HIDE DEF p
  <2>2. /\ Len(p \o r) = Len(p) + Len(r)
        /\ \A i \in 1 .. Len(p) + Len(r) :
              (p \o r)[i] = IF i <= Len(p) THEN p[i] ELSE r[i - Len(p)]
    BY <1>4, TextConcat
  <2>. QED BY <2>1, <2>2, <1>4
<1>. HIDE DEF a, b, p
<1>6. ASSUME NEW i \in 1 .. Len(chars) PROVE a[i] = b[i]
  <2>1. CASE i <= read
    <3>1. i - at \notin 1 .. Len(r) /\ i - read \notin 1 .. Len(piece) BY <2>1, <1>1
    <3>. QED BY <3>1, <1>2, <1>3
  <2>2. CASE i > read /\ i <= at
    <3>1. i - at \notin 1 .. Len(r) /\ i - read \in 1 .. Len(piece) BY <2>2, <1>1, <1>5, SMTT(30)
    <3>2. i - read \in 1 .. (at - read) + Len(r) /\ i - read <= at - read /\ i \in 1 .. Len(u)
          /\ i - read \in 1 .. at - read /\ read + (i - read) = i
      BY <2>2, <1>1
    <3>3. piece[i - read] = u[i] BY <3>2, <1>4, <1>5
    <3>4. a[i] = chars[i] BY <3>1, <1>2
    <3>5. b[i] = piece[i - read] BY <3>1, <1>3
    <3>. QED BY <3>2, <3>3, <3>4, <3>5, <1>1
  <2>3. CASE i > at /\ i <= at + Len(r)
    <3>0. Len(piece) = (at - read) + Len(r) /\ Len(r) \in Nat BY <1>1, <1>5
    <3>1. i - at \in 1 .. Len(r) /\ i - read \in 1 .. Len(piece) BY <2>3, <3>0
    <3>2. i - read \in 1 .. (at - read) + Len(r) /\ ~(i - read <= at - read)
          /\ (i - read) - (at - read) = i - at
      BY <2>3, <1>1
    <3>3. piece[i - read] = r[i - at] BY <3>2, <1>5
    <3>4. a[i] = r[i - at] BY <3>1, <1>2
    <3>5. b[i] = piece[i - read] BY <3>1, <1>3
    <3>. QED BY <3>3, <3>4, <3>5
  <2>4. CASE i > at + Len(r)
    <3>1. i - at \notin 1 .. Len(r) /\ i - read \notin 1 .. Len(piece) BY <2>4, <1>1, <1>5
    <3>. QED BY <3>1, <1>2, <1>3
  <2>. QED BY <2>1, <2>2, <2>3, <2>4, <1>1
<1>7. a = b BY <1>2, <1>3, <1>6, SeqEqual
<1>. QED BY <1>7 DEF a, b

\* the states of the loop over matches of the same length
Overwriting(t, h, N) ==
    {s \in [chars : Seq(Int), read : Nat] :
        Len(s.chars) = N /\ \E out, u \in Texts : Going(t, h, s.chars, s.read, out, u) /\ s.read = Len(out)}

LEMMA SameOn ==
  ASSUME NEW t \in Texts, NEW f \in Texts, NEW r \in Texts, Len(f) >= 1, Len(r) = Len(f),
         NEW h, IsRest(t, f, r, h), NEW N, NEW s \in Overwriting(t, h, N)
  PROVE  /\ SameRound(s, f, r) \in Overwriting(t, h, N)
         /\ FoundFrom(CString(s.chars), f, s.read) # {} => SameRound(s, f, r).read > s.read
<1>. DEFINE found == FoundFrom(CString(s.chars), f, s.read)
<1>1. CASE found = {} BY <1>1 DEF SameRound
<1>2. CASE found # {}
  <2>1. PICK chars \in Seq(Int), read \in Nat : chars = s.chars /\ read = s.read
    BY DEF Overwriting
  <2>2. PICK out \in Texts, u \in Texts : Going(t, h, chars, read, out, u) /\ read = Len(out)
    BY <2>1 DEF Overwriting
  <2>3. Len(chars) = N BY <2>1 DEF Overwriting
  <2>4. CString(chars) = u /\ Len(f) \in Nat /\ Len(t) \in Nat BY <2>2, GoingIs, TextsAreInts
  <2>5. PICK at \in Nat : /\ at = Least(found)
                         /\ at >= read /\ At(t, f, at) /\ NoneIn(t, f, read, at)
    <3>1. FoundFrom(CString(chars), f, read) # {} BY <1>2, <2>1
    <3>2. LET k == Least(FoundFrom(CString(chars), f, read))
          IN  k \in Nat /\ k >= read /\ At(t, f, k) /\ NoneIn(t, f, read, k)
      BY <2>2, <3>1, GoingFound
    <3>. QED BY <3>2, <2>1
  <2>6. PICK behind \in Nat : behind = at + Len(f) /\ at <= Len(t)
    <3>1. at + Len(f) \in Nat /\ at + Len(f) <= Len(t) BY <2>5, AtEnds
    <3>. QED BY <3>1, <2>4
  <2>7. PICK piece \in Texts : IsPiece(piece, t, read, at, r)
    <3>1. SubSeq(t, read + 1, at) \in Texts BY <2>5, <2>6, PartIsText
    <3>2. SubSeq(t, read + 1, at) \o r \in Texts BY <3>1, TextConcat
    <3>. QED BY <3>2 DEF IsPiece
  <2>8. SameRound(s, f, r) = [chars |-> Poke(chars, read, piece), read |-> behind]
    <3>1. SamePart(u, t, read, at) BY <2>2, <2>5, <2>6, GoingPart
    <3>2. IsPiece(piece, u, read, at, r) BY <2>7, <3>1 DEF IsPiece, SamePart
    <3>3. Holds(chars, u) /\ at <= Len(u) BY <2>2, <2>6 DEF Going
    <3>4. Poke(chars, at, r) = Poke(chars, read, piece) BY <2>5, <3>2, <3>3, PokeSame
    <3>. QED BY <1>2, <2>1, <2>5, <2>6, <3>4 DEF SameRound
  <2>9. PokedOn(t, h, chars, at + Len(f), out, piece)
    <3>1. Len(r) <= Len(f) /\ Going(t, h, chars, read, out, u) BY <2>2, <2>4
    <3>. QED BY <2>5, <2>7, <3>1, GoingOn
  <2>. DEFINE c == Poke(chars, read, piece)
              n == [chars |-> c, read |-> behind]
  <2>10. PICK o \in Texts, v \in Texts :
            Going(t, h, c, behind, o, v) /\ Len(o) = behind /\ Len(c) = N
    <3>1. Len(piece) = (at - read) + Len(r) BY <2>5, <2>6, <2>7, PieceIs
    <3>2. read + Len(piece) = behind BY <2>4, <2>6, <3>1
    <3>. QED BY <2>2, <2>3, <2>6, <2>9, <3>2 DEF PokedOn
  <2>. HIDE DEF c
  <2>11. c \in Seq(Int)
    BY <2>10, GoingIs
  <2>12. n \in [chars : Seq(Int), read : Nat] /\ n.chars = c /\ n.read = behind
    BY <2>11
  <2>13. SameRound(s, f, r) = n BY <2>8 DEF c
  <2>. HIDE DEF n
  <2>14. n \in Overwriting(t, h, N) BY <2>10, <2>11, <2>12 DEF Overwriting
  <2>15. n.read > s.read BY <2>1, <2>4, <2>5, <2>6, <2>12
  <2>. QED BY <2>13, <2>14, <2>15
<1>. QED BY <1>1, <1>2

(* The whole loop.                                                         *)
LEMMA ReplaceSameIs ==
  ASSUME NEW t \in Texts, NEW f \in Texts, NEW r \in Texts, Len(f) >= 1, Len(r) = Len(f),
         NEW h, IsRest(t, f, r, h), NEW chars, Holds(chars, t)
  PROVE  Holds(ReplaceSame(chars, f, r), h[0]) /\ Len(ReplaceSame(chars, f, r)) = Len(chars)
<1>. DEFINE N == Len(chars)
            V == Overwriting(t, h, N)
            b == [chars |-> chars, read |-> 0]
            step == [s \in V |-> SameRound(s, f, r)]
            place == [s \in V |-> s.read]
            F(g) == [n \in Nat |-> IF n = 0 THEN b ELSE SameRound(g[n - 1], f, r)]
            a == CHOOSE g : g = F(g)
<1>1. chars \in Seq(Int) /\ N \in Nat /\ Len(t) < N
  <2>1. chars \in Seq(Int) /\ Len(t) < N BY DEF Holds
  <2>. QED BY <2>1
<1>2. b \in V
  <2>1. Going(t, h, chars, 0, <<>>, t) BY GoingStarts
  <2>2. b \in [chars : Seq(Int), read : Nat] /\ b.chars = chars /\ b.read = 0
    BY <1>1
  <2>. HIDE DEF b
  <2>. QED BY <2>1, <2>2, EmptyText DEF Overwriting
<1>3. step \in [V -> V]
  <2>1. \A s \in V : SameRound(s, f, r) \in V BY SameOn
  <2>. HIDE DEF V
  <2>. QED BY <2>1
<1>. HIDE DEF V, b
<1>4. a = F(a)
  <2>1. PICK g \in [Nat -> V] : g[0] = b /\ \A n \in Nat : g[n + 1] = step[g[n]]
    <3>. HIDE DEF step
    <3>1. HasRounds(V, b, step) BY <1>2, <1>3, RoundsExist
    <3>. QED BY <3>1 DEF HasRounds
  <2>2. \A n \in Nat : n # 0 => g[n] = SameRound(g[n - 1], f, r)
    <3>1. ASSUME NEW n \in Nat, n # 0 PROVE g[n] = SameRound(g[n - 1], f, r)
      <4>1. n - 1 \in Nat /\ n - 1 + 1 = n BY <3>1
      <4>2. g[n - 1] \in V /\ g[n] = step[g[n - 1]] BY <4>1, <2>1
      <4>. QED BY <4>2
    <3>. QED BY <3>1
  <2>3. g = [n \in Nat |-> g[n]] BY <2>1
  <2>4. \A n \in Nat : g[n] = F(g)[n] BY <2>1, <2>2
  <2>5. F(g) = [n \in Nat |-> F(g)[n]] OBVIOUS
  <2>. HIDE DEF F
  <2>6. g = F(g) BY <2>3, <2>4, <2>5
  <2>. QED BY <2>6
<1>. HIDE DEF a
<1>5. Ends(V, b, step, N, a[N])
  <2>1. \A n \in Nat : a[n] = F(a)[n] BY <1>4
  <2>2. F(a) = [n \in Nat |-> F(a)[n]] OBVIOUS
  <2>3. F(a)[0] = b OBVIOUS
  <2>4. \A n \in Nat : F(a)[n + 1] = SameRound(a[n], f, r) OBVIOUS
  <2>. HIDE DEF F
  <2>5. a = [n \in Nat |-> a[n]] BY <2>1, <2>2, <1>4
  <2>6. a[0] = b BY <2>1, <2>3
  <2>7. \A n \in Nat : a[n] \in V => a[n + 1] = step[a[n]] BY <2>1, <2>4
  <2>. HIDE DEF step
  <2>. QED BY <1>1, <1>2, <1>3, <2>5, <2>6, <2>7, LoopRuns
<1>. DEFINE e == a[N]
<1>6. \A s \in V : s \in [chars : Seq(Int), read : Nat] /\ s.read <= Len(t) /\ s.read \in Nat
  <2>1. ASSUME NEW s \in V PROVE s \in [chars : Seq(Int), read : Nat] /\ s.read <= Len(t)
    BY GoingIs DEF V, Overwriting
  <2>. QED BY <2>1
<1>7. Moves(V, step, place)
  <2>1. ASSUME NEW s \in V PROVE step[s] = s \/ place[step[s]] > place[s]
    <3>1. step[s] = SameRound(s, f, r) /\ step[s] \in V BY <1>3
    <3>2. FoundFrom(CString(s.chars), f, s.read) # {} => step[s].read > s.read
      BY <3>1, SameOn DEF V
    <3>3. FoundFrom(CString(s.chars), f, s.read) = {} => step[s] = s BY <3>1 DEF SameRound
    <3>. QED BY <3>1, <3>2, <3>3
  <2>. QED BY <2>1 DEF Moves
<1>8. e \in V /\ step[e] = e
  <2>1. place \in [V -> Int] /\ place[b] >= 0 BY <1>2, <1>6 DEF b
  <2>2. Stops(V, step, place, N)
    <3>1. \A s \in V : ~(place[s] >= N) BY <1>1, <1>6, TextsAreInts
    <3>. QED BY <3>1 DEF Stops
  <2>. HIDE DEF step, place
  <2>. QED BY <1>1, <1>5, <1>7, <2>1, <2>2, LoopEnds
<1>9. ReplaceSame(chars, f, r) = e.chars BY DEF ReplaceSame, a, b, N
<1>. HIDE DEF e
<1>10. PICK chars1 \in Seq(Int), read \in Nat : chars1 = e.chars /\ read = e.read
  BY <1>6, <1>8
<1>11. PICK out \in Texts, u \in Texts : Going(t, h, chars1, read, out, u) /\ read = Len(out)
  BY <1>8, <1>10 DEF V, Overwriting
<1>12. Len(u) = Len(t) /\ read <= Len(t) /\ Len(t) \in Nat BY <1>11, GoingIs
<1>13. FoundFrom(CString(chars1), f, read) = {}
  <2>1. SameRound(e, f, r) = e BY <1>8
  <2>2. ~(e.read > e.read) BY <1>10
  <2>. QED BY <2>1, <2>2, <1>8, <1>10, SameOn DEF V
<1>14. NoneBehind(t, f, read) BY <1>11, <1>13, GoingNone
<1>. DEFINE tail == SubSeq(t, read + 1, Len(t))
<1>15. tail \in Texts /\ Len(tail) = Len(t) - read
       /\ \A k \in 1 .. Len(t) - read : tail[k] = t[read + k]
  BY <1>12, PartIsText, SMTT(30)
<1>16. h[0] = out \o tail
  <2>1. Halfway(t, h, read, out) BY <1>11 DEF Going
  <2>2. IsResult(t, h, read, out) BY <1>14, <2>1, HalfwayEnds
  <2>. QED BY <2>2 DEF IsResult
<1>. HIDE DEF tail
<1>. DEFINE w == out \o tail
<1>17. w \in Texts /\ Len(w) = Len(t)
       /\ \A i \in 1 .. Len(t) : w[i] = IF i <= read THEN out[i] ELSE tail[i - read]
  <2>1. w \in Texts /\ Len(w) = Len(out) + Len(tail)
        /\ \A i \in 1 .. Len(out) + Len(tail) :
              w[i] = IF i <= Len(out) THEN out[i] ELSE tail[i - Len(out)]
    BY <1>15, TextConcat
  <2>2. Len(out) = read /\ Len(out) + Len(tail) = Len(t) BY <1>11, <1>12, <1>15
  <2>. HIDE DEF w
  <2>. QED BY <2>1, <2>2
<1>. HIDE DEF w
<1>18. ASSUME NEW i \in 1 .. Len(u) PROVE u[i] = w[i]
  <2>1. i \in 1 .. Len(t) BY <1>12
  <2>2. CASE i <= read
    <3>1. u[i] = out[i] BY <1>11, <2>1, <2>2 DEF Going
    <3>. QED BY <2>1, <2>2, <3>1, <1>17
  <2>3. CASE ~(i <= read)
    <3>1. i - read \in 1 .. Len(t) - read /\ i \in read + 1 .. Len(t) /\ read + (i - read) = i
      BY <2>1, <2>3, <1>12
    <3>2. u[i] = t[i] BY <1>11, <3>1 DEF Going
    <3>3. tail[i - read] = t[i] BY <1>15, <3>1
    <3>. QED BY <2>1, <2>3, <3>2, <3>3, <1>17
  <2>. QED BY <2>2, <2>3
<1>19. u = w BY <1>12, <1>17, <1>18, SameText
<1>20. Holds(chars1, u) BY <1>11 DEF Going
<1>21. Len(chars1) = N BY <1>8, <1>10 DEF V, Overwriting
<1>. QED BY <1>9, <1>10, <1>16, <1>19, <1>20, <1>21 DEF w
-----------------------------------------------------------------------------
\* a text of n characters has been made from the characters up to a place
Made(t, h, read, n) == \E out \in Texts : Halfway(t, h, read, out) /\ Len(out) = n

LEMMA MadeOn ==
  ASSUME NEW t \in Texts, NEW f \in Texts, NEW r \in Texts, Len(f) >= 1, NEW h, IsRest(t, f, r, h),
         NEW read \in Nat, NEW n \in Int, Made(t, h, read, n),
         NEW at \in Nat, at >= read, At(t, f, at), NoneIn(t, f, read, at)
  PROVE  Made(t, h, at + Len(f), n + (at - read) + Len(r))
<1>1. PICK out \in Texts : Halfway(t, h, read, out) /\ Len(out) = n BY DEF Made
<1>2. FindsOn(t, f, r, h, read, out, at) BY <1>1, HalfwayOn
<1>. DEFINE o == OneMore(t, r, read, out, at)
<1>3. Halfway(t, h, at + Len(f), o) /\ Len(o) = n + (at - read) + Len(r) BY <1>1, <1>2 DEF FindsOn
<1>. HIDE DEF o
<1>4. o \in Texts BY <1>3 DEF Halfway
<1>. QED BY <1>3, <1>4 DEF Made

\* the states of the loop that counts, diff characters more for each match
Counting(t, h, diff) ==
    {s \in [read : Nat, count : Nat] : Made(t, h, s.read, s.read + diff * s.count)}

LEMMA CountOn ==
  ASSUME NEW t \in Texts, NEW f \in Texts, NEW r \in Texts, Len(f) >= 1, NEW h, IsRest(t, f, r, h),
         NEW diff \in Int, Len(r) = Len(f) + diff, NEW s \in Counting(t, h, diff)
  PROVE  /\ CountRound(s, t, f) \in Counting(t, h, diff)
         /\ FoundFrom(t, f, s.read) # {} => CountRound(s, t, f).read > s.read
<1>. DEFINE found == FoundFrom(t, f, s.read)
<1>1. CASE found = {} BY <1>1 DEF CountRound
<1>2. CASE found # {}
  <2>1. PICK read \in Nat, count \in Nat : read = s.read /\ count = s.count BY DEF Counting
  <2>2. Made(t, h, read, read + diff * count) BY <2>1 DEF Counting
  <2>3. t \in Seq(Int) /\ f \in Seq(Int) /\ Len(f) \in Nat /\ Len(r) \in Nat BY TextsAreInts
  <2>4. PICK at \in Nat : /\ at = Least(found)
                         /\ at >= read /\ At(t, f, at) /\ NoneIn(t, f, read, at)
    <3>1. FoundFrom(t, f, read) # {} BY <1>2, <2>1
    <3>2. LET k == Least(FoundFrom(t, f, read))
          IN  k \in Nat /\ k >= read /\ At(t, f, k) /\ \A i \in read .. k - 1 : ~At(t, f, i)
      BY <2>3, <3>1, FirstFound
    <3>. QED BY <3>2, <2>1 DEF NoneIn
  <2>5. PICK n \in Int : n = read + diff * count
    <3>1. diff * count \in Int OBVIOUS
    <3>. QED BY <3>1
  <2>6. Made(t, h, at + Len(f), n + (at - read) + Len(r)) BY <2>2, <2>4, <2>5, MadeOn
  <2>7. n + (at - read) + Len(r) = at + Len(f) + diff * (count + 1)
    <3>1. diff * (count + 1) = diff * count + diff OBVIOUS
    <3>2. diff * count \in Int OBVIOUS
    <3>. QED BY <2>3, <2>5, <3>1, <3>2
  <2>. DEFINE k == [read |-> at + Len(f), count |-> count + 1]
  <2>8. k \in [read : Nat, count : Nat] /\ k.read = at + Len(f) /\ k.count = count + 1
    BY <2>3
  <2>9. CountRound(s, t, f) = k BY <1>2, <2>1, <2>4 DEF CountRound
  <2>. HIDE DEF k
  <2>10. k \in Counting(t, h, diff) BY <2>6, <2>7, <2>8 DEF Counting
  <2>11. k.read > s.read BY <2>1, <2>3, <2>4, <2>8
  <2>. QED BY <2>9, <2>10, <2>11
<1>. QED BY <1>1, <1>2

(* What replace counts gives the length of the result.                     *)
LEMMA CountMatchesIs ==
  ASSUME NEW t \in Texts, NEW f \in Texts, NEW r \in Texts, Len(f) >= 1, NEW h, IsRest(t, f, r, h),
         NEW diff \in Int, Len(r) = Len(f) + diff
  PROVE  /\ CountMatches(t, f) \in Nat
         /\ h[0] \in Texts /\ Len(h[0]) = Len(t) + diff * CountMatches(t, f)
<1>. DEFINE N == Len(t)
            V == Counting(t, h, diff)
            b == [read |-> 0, count |-> 0]
            step == [s \in V |-> CountRound(s, t, f)]
            place == [s \in V |-> s.read]
            F(g) == [n \in Nat |-> IF n = 0 THEN b ELSE CountRound(g[n - 1], t, f)]
            a == CHOOSE g : g = F(g)
<1>1. N \in Nat /\ t \in Seq(Int) /\ f \in Seq(Int) BY TextsAreInts
<1>2. b \in V
  <2>1. Halfway(t, h, 0, <<>>) BY HalfwayStarts
  <2>2. Made(t, h, 0, 0) BY <2>1, EmptyText DEF Made
  <2>3. b \in [read : Nat, count : Nat] /\ b.read = 0 /\ b.count = 0 OBVIOUS
  <2>4. 0 + diff * 0 = 0 OBVIOUS
  <2>. HIDE DEF b
  <2>. QED BY <2>2, <2>3, <2>4 DEF Counting
<1>3. step \in [V -> V]
  <2>1. \A s \in V : CountRound(s, t, f) \in V BY CountOn
  <2>. HIDE DEF V
  <2>. QED BY <2>1
<1>. HIDE DEF V, b
<1>4. a = F(a)
  <2>1. PICK g \in [Nat -> V] : g[0] = b /\ \A n \in Nat : g[n + 1] = step[g[n]]
    <3>. HIDE DEF step
    <3>1. HasRounds(V, b, step) BY <1>2, <1>3, RoundsExist
    <3>. QED BY <3>1 DEF HasRounds
  <2>2. \A n \in Nat : n # 0 => g[n] = CountRound(g[n - 1], t, f)
    <3>1. ASSUME NEW n \in Nat, n # 0 PROVE g[n] = CountRound(g[n - 1], t, f)
      <4>1. n - 1 \in Nat /\ n - 1 + 1 = n BY <3>1
      <4>2. g[n - 1] \in V /\ g[n] = step[g[n - 1]] BY <4>1, <2>1
      <4>. QED BY <4>2
    <3>. QED BY <3>1
  <2>3. g = [n \in Nat |-> g[n]] BY <2>1
  <2>4. \A n \in Nat : g[n] = F(g)[n] BY <2>1, <2>2
  <2>5. F(g) = [n \in Nat |-> F(g)[n]] OBVIOUS
  <2>. HIDE DEF F
  <2>6. g = F(g) BY <2>3, <2>4, <2>5
  <2>. QED BY <2>6
<1>. HIDE DEF a
<1>5. Ends(V, b, step, N, a[N])
  <2>1. \A n \in Nat : a[n] = F(a)[n] BY <1>4
  <2>2. F(a) = [n \in Nat |-> F(a)[n]] OBVIOUS
  <2>3. F(a)[0] = b OBVIOUS
  <2>4. \A n \in Nat : F(a)[n + 1] = CountRound(a[n], t, f) OBVIOUS
  <2>. HIDE DEF F
  <2>5. a = [n \in Nat |-> a[n]] BY <2>1, <2>2, <1>4
  <2>6. a[0] = b BY <2>1, <2>3
  <2>7. \A n \in Nat : a[n] \in V => a[n + 1] = step[a[n]] BY <2>1, <2>4
  <2>. HIDE DEF step
  <2>. QED BY <1>1, <1>2, <1>3, <2>5, <2>6, <2>7, LoopRuns
<1>. DEFINE e == a[N]
<1>6. \A s \in V : s \in [read : Nat, count : Nat] /\ s.read <= N /\ s.read \in Nat
  BY DEF V, Counting, Made, Halfway
<1>7. Moves(V, step, place)
  <2>1. ASSUME NEW s \in V PROVE step[s] = s \/ place[step[s]] > place[s]
    <3>1. step[s] = CountRound(s, t, f) /\ step[s] \in V BY <1>3
    <3>2. FoundFrom(t, f, s.read) # {} => step[s].read > s.read
      BY <3>1, CountOn DEF V
    <3>3. FoundFrom(t, f, s.read) = {} => step[s] = s BY <3>1 DEF CountRound
    <3>. QED BY <3>1, <3>2, <3>3
  <2>. QED BY <2>1 DEF Moves
<1>8. e \in V /\ step[e] = e
  <2>1. place \in [V -> Int] /\ place[b] >= 0 BY <1>2, <1>6 DEF b
  <2>2. Stops(V, step, place, N)
    <3>1. ASSUME NEW s \in V, place[s] >= N PROVE step[s] = s
      <4>1. step[s] = CountRound(s, t, f) /\ step[s] \in V BY <1>3
      <4>2. step[s].read <= N /\ s.read >= N /\ s.read \in Nat /\ step[s].read \in Nat
        BY <3>1, <4>1, <1>6
      <4>3. ~(step[s].read > s.read) BY <4>2, <1>1
      <4>. QED BY <4>1, <4>3, CountOn DEF V, CountRound
    <3>. QED BY <3>1 DEF Stops
  <2>. HIDE DEF step, place
  <2>. QED BY <1>1, <1>5, <1>7, <2>1, <2>2, LoopEnds
<1>9. CountMatches(t, f) = e.count BY DEF CountMatches, a, b, N
<1>. HIDE DEF e
<1>10. PICK read \in Nat, count \in Nat : read = e.read /\ count = e.count
  BY <1>6, <1>8
<1>11. PICK out \in Texts : Halfway(t, h, read, out) /\ Len(out) = read + diff * count
  BY <1>8, <1>10 DEF V, Counting, Made
<1>12. FoundFrom(t, f, read) = {}
  <2>1. CountRound(e, t, f) = e BY <1>8
  <2>2. ~(e.read > e.read) BY <1>10
  <2>. QED BY <2>1, <2>2, <1>8, <1>10, CountOn DEF V
<1>13. NoneBehind(t, f, read)
  <2>1. \A i \in Nat : i >= read => ~At(t, f, i) BY <1>1, <1>12, NoneFound
  <2>. QED BY <2>1 DEF NoneBehind
<1>. DEFINE tail == SubSeq(t, read + 1, Len(t))
<1>14. read <= N BY <1>11 DEF Halfway
<1>15. tail \in Texts /\ Len(tail) = N - read BY <1>1, <1>14, PartIsText
<1>16. h[0] = out \o tail
  <2>1. Halfway(t, h, read, out) BY <1>11
  <2>2. IsResult(t, h, read, out) BY <1>13, <2>1, HalfwayEnds
  <2>. QED BY <2>2 DEF IsResult
<1>. HIDE DEF tail
<1>17. out \o tail \in Texts /\ Len(out \o tail) = Len(out) + Len(tail) BY <1>15, TextConcat
<1>18. Len(out) + Len(tail) = N + diff * count
  <2>1. diff * count \in Int OBVIOUS
  <2>. QED BY <1>1, <1>11, <1>15, <2>1
<1>. QED BY <1>9, <1>10, <1>16, <1>17, <1>18
-----------------------------------------------------------------------------
\* x is the part of a text from i to j
IsPart(x, t, i, j) == x \in Texts /\ Len(x) = j - i /\ \A k \in 1 .. j - i : x[k] = t[i + k]

LEMMA IsPartOf ==
  ASSUME NEW t \in Texts, NEW i \in Nat, NEW j \in Nat, i <= j, j <= Len(t)
  PROVE  IsPart(SubSeq(t, i + 1, j), t, i, j)
BY PartIsText DEF IsPart

LEMMA PieceHas ==
  ASSUME NEW t \in Texts, NEW r \in Texts, NEW i \in Nat, NEW j \in Nat, i <= j, j <= Len(t),
         NEW p, IsPiece(p, t, i, j, r)
  PROVE  /\ p \in Texts /\ Len(p) = (j - i) + Len(r)
         /\ \A k \in 1 .. (j - i) + Len(r) : p[k] = IF k <= j - i THEN t[i + k] ELSE r[k - (j - i)]
<1>. DEFINE s == SubSeq(t, i + 1, j)
<1>1. s \in Texts /\ Len(s) = j - i /\ \A k \in 1 .. j - i : s[k] = t[i + k] BY PartIsText
<1>2. p = s \o r BY DEF IsPiece
<1>. HIDE DEF s
<1>3. /\ s \o r \in Texts /\ Len(s \o r) = Len(s) + Len(r)
      /\ \A k \in 1 .. Len(s) + Len(r) : (s \o r)[k] = IF k <= Len(s) THEN s[k] ELSE r[k - Len(s)]
  BY <1>1, TextConcat
<1>4. \A k \in 1 .. (j - i) + Len(r) : k <= j - i => k \in 1 .. j - i OBVIOUS
<1>. QED BY <1>1, <1>2, <1>3, <1>4

\* the text from a place on
FoundRest(y, u, p) == y = SubSeq(u, p + 1, Len(u))

(* The beginning and the end of a text in two pieces.                      *)
LEMMA PiecesOf ==
  ASSUME NEW t \in Texts, NEW b \in Texts, NEW q \in Nat, q <= Len(t), NEW u \in Texts,
         IsPiece(u, t, 0, q, b), NEW p \in Nat, p <= q
  PROVE  /\ SamePart(u, t, 0, p)
         /\ \A y : FoundRest(y, u, p) => IsPiece(y, t, p, q, b)
<1>1. Len(t) \in Nat /\ Len(b) \in Nat /\ Len(u) \in Nat BY TextsAreInts
<1>2. /\ Len(u) = q + Len(b)
      /\ \A k \in 1 .. q + Len(b) : u[k] = IF k <= q THEN t[k] ELSE b[k - q]
  <2>1. /\ Len(u) = (q - 0) + Len(b)
        /\ \A k \in 1 .. (q - 0) + Len(b) : u[k] = IF k <= q - 0 THEN t[0 + k] ELSE b[k - (q - 0)]
    BY PieceHas
  <2>. QED BY <2>1, <1>1
<1>3. SamePart(u, t, 0, p)
  <2>. DEFINE a == SubSeq(u, 0 + 1, p)
              c == SubSeq(t, 0 + 1, p)
  <2>1. a \in Texts /\ Len(a) = p /\ \A k \in 1 .. p : a[k] = u[k]
    <3>1. p <= Len(u) BY <1>1, <1>2
    <3>2. IsPart(a, u, 0, p) BY <3>1, IsPartOf
    <3>. HIDE DEF a
    <3>. QED BY <3>2 DEF IsPart
  <2>2. c \in Texts /\ Len(c) = p /\ \A k \in 1 .. p : c[k] = t[k]
    <3>1. p <= Len(t) BY <1>1
    <3>2. IsPart(c, t, 0, p) BY <3>1, IsPartOf
    <3>. HIDE DEF c
    <3>. QED BY <3>2 DEF IsPart
  <2>. HIDE DEF a, c
  <2>3. \A k \in 1 .. p : u[k] = t[k] BY <1>1, <1>2
  <2>4. a = c BY <2>1, <2>2, <2>3, SameText
  <2>. QED BY <2>4 DEF SamePart, a, c
<1>4. ASSUME NEW y, FoundRest(y, u, p) PROVE IsPiece(y, t, p, q, b)
  <2>. DEFINE s == SubSeq(t, p + 1, q)
              z == s \o b
  <2>1. y \in Texts /\ Len(y) = Len(u) - p /\ \A k \in 1 .. Len(u) - p : y[k] = u[p + k]
    <3>1. p <= Len(u) BY <1>1, <1>2
    <3>2. /\ SubSeq(u, p + 1, Len(u)) \in Texts
          /\ Len(SubSeq(u, p + 1, Len(u))) = Len(u) - p
          /\ \A k \in 1 .. Len(u) - p : SubSeq(u, p + 1, Len(u))[k] = u[p + k]
      BY <1>1, <3>1, PartIsText
    <3>. QED BY <1>4, <3>2 DEF FoundRest
  <2>2. IsPiece(z, t, p, q, b) BY DEF IsPiece
  <2>. HIDE DEF z
  <2>3. /\ z \in Texts /\ Len(z) = (q - p) + Len(b)
        /\ \A k \in 1 .. (q - p) + Len(b) : z[k] = IF k <= q - p THEN t[p + k] ELSE b[k - (q - p)]
    BY <2>2, PieceHas
  <2>4. ASSUME NEW k \in 1 .. Len(y) PROVE y[k] = z[k]
    <3>1. k \in 1 .. Len(u) - p /\ p + k \in 1 .. q + Len(b) /\ k \in 1 .. (q - p) + Len(b)
      BY <2>1, <1>1, <1>2
    <3>2. y[k] = u[p + k] BY <2>1, <3>1
    <3>3. p + k <= q <=> k <= q - p BY <3>1
    <3>4. (p + k) - q = k - (q - p) BY <3>1
    <3>5. u[p + k] = IF p + k <= q THEN t[p + k] ELSE b[(p + k) - q] BY <1>2, <3>1
    <3>6. z[k] = IF k <= q - p THEN t[p + k] ELSE b[k - (q - p)] BY <2>3, <3>1
    <3>. QED BY <3>2, <3>3, <3>4, <3>5, <3>6
  <2>5. Len(y) = Len(z) BY <2>1, <2>3, <1>1, <1>2
  <2>6. y = z BY <2>1, <2>3, <2>4, <2>5, SameText
  <2>. QED BY <2>2, <2>6
<1>. QED BY <1>3, <1>4

(* Texts that overlap, character by character.                             *)
LEMMA OverlapsIs ==
  ASSUME NEW f \in Texts, NEW r \in Texts, NEW k \in Nat, k >= 1, k < Len(f), k <= Len(r),
         \A j \in 1 .. k : f[(Len(f) - k) + j] = r[j]
  PROVE  Values!Overlaps(f, r)
<1>1. Len(f) \in Nat /\ Len(r) \in Nat BY TextsAreInts
<1>2. PICK m \in Nat : m = Len(f) - k BY <1>1
<1>. DEFINE a == SubSeq(f, m + 1, Len(f))
            b == SubSeq(r, 0 + 1, k)
<1>3. a \in Texts /\ Len(a) = k /\ \A j \in 1 .. k : a[j] = f[m + j]
  <2>1. a \in Texts /\ Len(a) = (IF m <= Len(f) THEN Len(f) - m ELSE 0)
        /\ \A j \in 1 .. Len(f) - m : a[j] = f[m + j]
    BY <1>1, PartIsText
  <2>2. m <= Len(f) /\ Len(f) - m = k BY <1>1, <1>2
  <2>. HIDE DEF a
  <2>. QED BY <2>1, <2>2
<1>4. b \in Texts /\ Len(b) = k /\ \A j \in 1 .. k : b[j] = r[j]
  <2>1. b \in Texts /\ Len(b) = (IF 0 <= k THEN k - 0 ELSE 0)
        /\ \A j \in 1 .. k - 0 : b[j] = r[0 + j]
    BY PartIsText
  <2>. HIDE DEF b
  <2>. QED BY <2>1
<1>. HIDE DEF a, b
<1>5. a = b BY <1>2, <1>3, <1>4, SameText
<1>6. SubSeq(f, (Len(f) - k) + 1, Len(f)) = SubSeq(r, 1, k) BY <1>2, <1>5 DEF a, b
<1>7. k \in 1 .. Len(f) - 1 BY <1>1
<1>. QED BY <1>6, <1>7 DEF Values!Overlaps
-----------------------------------------------------------------------------
\* no match overlaps another, or what replaces it
Clear(f, r) == ~Values!Overlaps(f, r) /\ ~Values!Overlaps(f, f)

\* the text while it is replaced from the right, from the place q on
RightOf(t, f, h, text, q) ==
    /\ q \in 0 .. Len(t) /\ IsPiece(text, t, 0, q, h[q])
    /\ q = Len(t) \/ At(t, f, q)

LEMMA RightOfIs ==
  ASSUME NEW t \in Texts, NEW f \in Texts, NEW r \in Texts, Len(f) >= 1, NEW h, IsRest(t, f, r, h),
         NEW q \in Nat, q <= Len(t), NEW b, b = h[q], q = Len(t) \/ At(t, f, q)
  PROVE  /\ b \in Texts
         /\ q = Len(t) => b = <<>>
         /\ q # Len(t) => Len(r) <= Len(b) /\ \A j \in 1 .. Len(r) : b[j] = r[j]
<1>1. Len(t) \in Nat /\ Len(f) \in Nat /\ Len(r) \in Nat BY TextsAreInts
<1>2. b \in Texts
  <2>1. q \in 0 .. Len(t) BY <1>1
  <2>. QED BY <2>1 DEF IsRest
<1>3. q = Len(t) => b = <<>> BY DEF IsRest
<1>4. ASSUME q # Len(t) PROVE Len(r) <= Len(b) /\ \A j \in 1 .. Len(r) : b[j] = r[j]
  <2>1. At(t, f, q) /\ q \in 0 .. Len(t) - 1 BY <1>1, <1>4
  <2>2. q + Len(f) \in 0 .. Len(t) BY <1>1, <2>1, AtEnds
  <2>3. b = r \o h[q + Len(f)] BY <2>1 DEF IsRest
  <2>. DEFINE c == h[q + Len(f)]
  <2>4. c \in Texts BY <2>2 DEF IsRest
  <2>5. b = r \o c BY <2>3
  <2>. HIDE DEF c
  <2>6. Len(r \o c) = Len(r) + Len(c)
        /\ \A i \in 1 .. Len(r) + Len(c) : (r \o c)[i] = IF i <= Len(r) THEN r[i] ELSE c[i - Len(r)]
    BY <2>4, TextConcat
  <2>7. Len(c) \in Nat BY <2>4, TextsAreInts
  <2>8. \A j \in 1 .. Len(r) : j \in 1 .. Len(r) + Len(c) /\ j <= Len(r) BY <1>1, <2>7
  <2>. QED BY <1>1, <2>5, <2>6, <2>7, <2>8
<1>. QED BY <1>2, <1>3, <1>4

(* No two matches overlap.                                                 *)
LEMMA ApartFrom ==
  ASSUME NEW t \in Texts, NEW f \in Texts, ~Values!Overlaps(f, f),
         NEW q \in Nat, q <= Len(t), q = Len(t) \/ At(t, f, q),
         NEW i \in Nat, i < q, At(t, f, i)
  PROVE  i + Len(f) <= q
<1>1. Len(t) \in Nat /\ Len(f) \in Nat /\ i + Len(f) <= Len(t) BY TextsAreInts, AtEnds
<1>. SUFFICES ASSUME ~(i + Len(f) <= q) PROVE FALSE OBVIOUS
<1>2. At(t, f, q) BY <1>1
<1>3. PICK k \in Nat : k = (i + Len(f)) - q BY <1>1
<1>4. k >= 1 /\ k < Len(f) /\ k <= Len(f) BY <1>1, <1>3
<1>5. ASSUME NEW j \in 1 .. k PROVE f[(Len(f) - k) + j] = f[j]
  <2>1. (Len(f) - k) + j \in 1 .. Len(f) /\ i + ((Len(f) - k) + j) = q + j /\ j \in 1 .. Len(f)
    BY <1>1, <1>3, <1>4
  <2>2. t[i + ((Len(f) - k) + j)] = f[(Len(f) - k) + j] BY <2>1 DEF At
  <2>3. t[q + j] = f[j] BY <2>1, <1>2 DEF At
  <2>. QED BY <2>1, <2>2, <2>3
<1>. QED BY <1>4, <1>5, OverlapsIs

(* What is found in the text to the left of the place.                     *)
LEMMA LongerAt ==
  ASSUME NEW t \in Texts, NEW f \in Texts, NEW r \in Texts, Len(f) >= 1, Len(r) > Len(f),
         Clear(f, r), NEW h, IsRest(t, f, r, h),
         NEW text \in Texts, NEW q \in Nat, RightOf(t, f, h, text, q), NEW i \in Nat, i < q
  PROVE  At(text, f, i) <=> At(t, f, i)
<1>1. /\ Len(t) \in Nat /\ Len(f) \in Nat /\ Len(r) \in Nat /\ q <= Len(t)
      /\ q = Len(t) \/ At(t, f, q)
  BY TextsAreInts DEF RightOf
<1>2. PICK b : b = h[q] OBVIOUS
<1>3. IsPiece(text, t, 0, q, b) BY <1>2 DEF RightOf
<1>4. /\ b \in Texts
      /\ q = Len(t) => b = <<>>
      /\ q # Len(t) => Len(r) <= Len(b) /\ \A j \in 1 .. Len(r) : b[j] = r[j]
  BY <1>1, <1>2, RightOfIs
<1>5. /\ Len(b) \in Nat /\ Len(text) = q + Len(b)
      /\ \A k \in 1 .. q + Len(b) : text[k] = IF k <= q THEN t[k] ELSE b[k - q]
  <2>1. /\ Len(text) = (q - 0) + Len(b)
        /\ \A k \in 1 .. (q - 0) + Len(b) : text[k] = IF k <= q - 0 THEN t[0 + k] ELSE b[k - (q - 0)]
    BY <1>1, <1>3, <1>4, PieceHas
  <2>. QED BY <2>1, <1>4, TextsAreInts
<1>6. CASE i + Len(f) <= q
  <2>1. ASSUME NEW k \in 1 .. Len(f) PROVE text[i + k] = t[i + k]
    <3>1. i + k \in 1 .. q + Len(b) /\ i + k <= q BY <1>1, <1>5, <1>6
    <3>. QED BY <3>1, <1>5
  <2>2. i + Len(f) <= Len(text) /\ i + Len(f) <= Len(t) BY <1>1, <1>5, <1>6
  <2>. QED BY <2>1, <2>2 DEF At
<1>7. CASE ~(i + Len(f) <= q)
  <2>1. ~At(t, f, i) BY <1>1, <1>7, ApartFrom DEF Clear
  <2>2. ASSUME At(text, f, i) PROVE FALSE
    <3>1. i + Len(f) <= Len(text) BY <2>2 DEF At
    <3>2. q # Len(t)
      <4>1. ASSUME q = Len(t) PROVE FALSE
        <5>1. Len(b) = 0 BY <1>4, <4>1, EmptyText
        <5>. QED BY <5>1, <3>1, <1>1, <1>5, <1>7
      <4>. QED BY <4>1
    <3>3. PICK k \in Nat : k = (i + Len(f)) - q BY <1>1, <1>7
    <3>4. k >= 1 /\ k < Len(f) /\ k <= Len(r) BY <1>1, <1>7, <3>3
    <3>5. ASSUME NEW j \in 1 .. k PROVE f[(Len(f) - k) + j] = r[j]
      <4>1. (Len(f) - k) + j \in 1 .. Len(f) /\ i + ((Len(f) - k) + j) = q + j /\ j \in 1 .. Len(r)
        BY <1>1, <3>3, <3>4
      <4>2. text[i + ((Len(f) - k) + j)] = f[(Len(f) - k) + j] BY <4>1, <2>2 DEF At
      <4>3. b[j] = r[j] /\ Len(r) <= Len(b) BY <4>1, <3>2, <1>4
      <4>4. q + j \in 1 .. q + Len(b) /\ ~(q + j <= q) /\ (q + j) - q = j BY <4>1, <4>3, <1>1, <1>5
      <4>5. text[q + j] = b[j] BY <4>4, <1>5
      <4>. QED BY <4>1, <4>2, <4>3, <4>5
    <3>6. Values!Overlaps(f, r) BY <3>4, <3>5, OverlapsIs
    <3>. QED BY <3>6 DEF Clear
  <2>. QED BY <2>1, <2>2
<1>. QED BY <1>6, <1>7
-----------------------------------------------------------------------------
FoundUpTo(text, f, from) == {i \in Occurrences(text, f) : i <= from}

LEMMA LastFound ==
  ASSUME NEW text \in Texts, NEW f \in Texts, NEW from \in Int
  PROVE  /\ \A i \in Nat : i \in FoundUpTo(text, f, from) <=> i <= from /\ At(text, f, i)
         /\ FoundUpTo(text, f, from) # {} =>
              LET at == Largest(FoundUpTo(text, f, from))
              IN  /\ at \in Nat /\ at <= from /\ At(text, f, at)
                  /\ \A i \in Nat : i <= from /\ At(text, f, i) => i <= at
<1>. DEFINE T == FoundUpTo(text, f, from)
            at == Largest(T)
<1>1. text \in Seq(Int) /\ f \in Seq(Int) BY TextsAreInts
<1>2. \A i \in Nat : i \in T <=> i <= from /\ At(text, f, i) BY <1>1, OccursIs DEF FoundUpTo
<1>3. \A i \in T : i \in Nat /\ i <= from BY OccurrencesNat DEF FoundUpTo
<1>. HIDE DEF T
<1>4. ASSUME T # {}
      PROVE  /\ at \in Nat /\ at <= from /\ At(text, f, at)
             /\ \A i \in Nat : i <= from /\ At(text, f, i) => i <= at
  <2>1. T \in SUBSET Int BY <1>3
  <2>2. at \in T /\ \A i \in T : at >= i BY <1>3, <1>4, <2>1, LargestIs
  <2>. HIDE DEF at
  <2>3. at \in Nat /\ at <= from /\ At(text, f, at) BY <1>2, <1>3, <2>2
  <2>4. ASSUME NEW i \in Nat, i <= from, At(text, f, i) PROVE i <= at
    <3>1. i \in T BY <1>2, <2>4
    <3>. QED BY <3>1, <2>2, <2>3
  <2>. QED BY <2>3, <2>4
<1>. QED BY <1>2, <1>4 DEF T

\* the states of the loop from the right
Lengthening(t, f, r, h) ==
    {s \in [text : Texts, from : Int] :
        s.from >= -1 /\ (Clear(f, r) => RightOf(t, f, h, s.text, s.from + 1))}

\* the text with one match replaced
WithOne(text, f, r, at) ==
    SubSeq(text, 1, at) \o r \o SubSeq(text, at + Len(f) + 1, Len(text))

LEMMA WithOneText ==
  ASSUME NEW text \in Texts, NEW f \in Texts, NEW r \in Texts, NEW at \in Nat, At(text, f, at)
  PROVE  WithOne(text, f, r, at) \in Texts
<1>1. at + Len(f) \in Nat /\ at + Len(f) <= Len(text) /\ Len(text) \in Nat /\ Len(f) \in Nat
  BY AtEnds, TextsAreInts
<1>2. SubSeq(text, 0 + 1, at) \in Texts
  <2>1. at <= Len(text) BY <1>1
  <2>. QED BY <2>1, PartIsText
<1>3. SubSeq(text, (at + Len(f)) + 1, Len(text)) \in Texts
  <2>1. PICK p \in Nat : p = at + Len(f) /\ p <= Len(text) BY <1>1
  <2>2. IsPart(SubSeq(text, p + 1, Len(text)), text, p, Len(text)) BY <1>1, <2>1, IsPartOf
  <2>. QED BY <2>1, <2>2 DEF IsPart
<1>. DEFINE x == SubSeq(text, 1, at)
            y == SubSeq(text, at + Len(f) + 1, Len(text))
<1>4. x \in Texts /\ y \in Texts BY <1>2, <1>3
<1>. HIDE DEF x, y
<1>5. x \o r \in Texts BY <1>4, TextConcat
<1>6. (x \o r) \o y \in Texts BY <1>4, <1>5, TextConcat
<1>. QED BY <1>6 DEF WithOne, x, y

(* One match further to the left.                                          *)
LEMMA WithOneMore ==
  ASSUME NEW t \in Texts, NEW f \in Texts, NEW r \in Texts, Len(f) >= 1, Len(r) > Len(f),
         Clear(f, r), NEW h, IsRest(t, f, r, h),
         NEW text \in Texts, NEW q \in Nat, RightOf(t, f, h, text, q),
         NEW at \in Nat, at < q, At(t, f, at),
         \A i \in Nat : i < q /\ At(t, f, i) => i <= at
  PROVE  RightOf(t, f, h, WithOne(text, f, r, at), at)
<1>1. /\ Len(t) \in Nat /\ Len(f) \in Nat /\ q <= Len(t) /\ Len(text) \in Nat
      /\ q = Len(t) \/ At(t, f, q)
  BY TextsAreInts DEF RightOf
<1>2. at + Len(f) <= q BY <1>1, ApartFrom DEF Clear
<1>3. PICK p \in Nat : p = at + Len(f) BY <1>1
<1>4. PICK b : b = h[q] OBVIOUS
<1>5. b \in Texts BY <1>1, <1>4, RightOfIs
<1>6. IsPiece(text, t, 0, q, b) BY <1>4 DEF RightOf
<1>7. SamePart(text, t, 0, at) BY <1>1, <1>5, <1>6, PiecesOf
<1>. DEFINE y == SubSeq(text, p + 1, Len(text))
<1>8. IsPiece(y, t, p, q, b)
  <2>1. FoundRest(y, text, p) BY DEF FoundRest
  <2>2. p <= q BY <1>2, <1>3
  <2>. HIDE DEF y
  <2>. QED BY <2>1, <2>2, <1>1, <1>5, <1>6, PiecesOf
<1>9. y = h[p]
  <2>1. NoneIn(t, f, p, q)
    <3>1. ASSUME NEW i \in p .. q - 1 PROVE ~At(t, f, i)
      <4>1. i \in Nat /\ i < q /\ ~(i <= at) BY <1>1, <1>3
      <4>. QED BY <4>1
    <3>. QED BY <3>1 DEF NoneIn
  <2>2. Skips(t, h, p, q) BY <1>1, <1>2, <1>3, <2>1, Unreplaced
  <2>. QED BY <2>2, <1>4, <1>8 DEF Skips, IsPiece
<1>10. h[at] = r \o h[p]
  <2>1. at \in 0 .. Len(t) - 1 BY <1>1
  <2>. QED BY <2>1, <1>3 DEF IsRest
<1>. DEFINE x == SubSeq(t, 1, at)
            c == h[p]
<1>11. WithOne(text, f, r, at) = (x \o r) \o c
  <2>1. SubSeq(text, 0 + 1, at) = SubSeq(t, 0 + 1, at) BY <1>7 DEF SamePart
  <2>2. 0 + 1 = 1 OBVIOUS
  <2>3. SubSeq(text, 1, at) = x BY <2>1, <2>2
  <2>4. SubSeq(text, at + Len(f) + 1, Len(text)) = c BY <1>3, <1>9
  <2>. HIDE DEF x, c
  <2>. QED BY <2>3, <2>4 DEF WithOne
<1>12. x \in Texts
  <2>1. at <= Len(t) BY <1>1
  <2>2. SubSeq(t, 0 + 1, at) \in Texts BY <2>1, PartIsText
  <2>. QED BY <2>2
<1>13. c \in Texts
  <2>1. p \in 0 .. Len(t) BY <1>1, <1>2, <1>3
  <2>. QED BY <2>1 DEF IsRest
<1>14. h[at] = r \o c BY <1>10
<1>. HIDE DEF c, y
<1>15. WithOne(text, f, r, at) = x \o h[at]
  <2>. HIDE DEF x
  <2>1. (x \o r) \o c = x \o (r \o c) BY <1>12, <1>13, TextAssociative, ZenonT(30)
  <2>. QED BY <2>1, <1>11, <1>14
<1>16. IsPiece(WithOne(text, f, r, at), t, 0, at, h[at]) BY <1>15 DEF IsPiece
<1>17. at \in 0 .. Len(t) BY <1>1
<1>. QED BY <1>16, <1>17 DEF RightOf

LEMMA LongerOn ==
  ASSUME NEW t \in Texts, NEW f \in Texts, NEW r \in Texts, Len(f) >= 1, Len(r) > Len(f),
         NEW h, IsRest(t, f, r, h), NEW s \in Lengthening(t, f, r, h)
  PROVE  /\ LongerRound(s, f, r) \in Lengthening(t, f, r, h)
         /\ FoundUpTo(s.text, f, s.from) # {} => LongerRound(s, f, r).from < s.from
<1>. DEFINE found == FoundUpTo(s.text, f, s.from)
<1>0. LongerRound(s, f, r) =
        IF found = {} THEN s
        ELSE [text |-> WithOne(s.text, f, r, Largest(found)), from |-> Largest(found) - 1]
  BY DEF LongerRound, FoundUpTo, WithOne
<1>1. CASE found = {} BY <1>0, <1>1
<1>2. CASE found # {}
  <2>1. PICK text \in Texts, from \in Int : text = s.text /\ from = s.from BY DEF Lengthening
  <2>2. from >= -1 /\ (Clear(f, r) => RightOf(t, f, h, text, from + 1)) BY <2>1 DEF Lengthening
  <2>3. PICK at \in Nat : /\ at = Largest(found) /\ at <= from /\ At(text, f, at)
                         /\ \A i \in Nat : i <= from /\ At(text, f, i) => i <= at
    <3>1. FoundUpTo(text, f, from) # {} BY <1>2, <2>1
    <3>2. LET k == Largest(FoundUpTo(text, f, from))
          IN  /\ k \in Nat /\ k <= from /\ At(text, f, k)
              /\ \A i \in Nat : i <= from /\ At(text, f, i) => i <= k
      BY <3>1, LastFound
    <3>. QED BY <3>2, <2>1
  <2>4. PICK new \in Texts : new = WithOne(text, f, r, at) BY <2>3, WithOneText
  <2>5. ASSUME Clear(f, r) PROVE RightOf(t, f, h, new, at)
    <3>1. PICK q \in Nat : q = from + 1 /\ RightOf(t, f, h, text, q) BY <2>2, <2>3, <2>5
    <3>2. at < q BY <2>3, <3>1
    <3>3. At(t, f, at) BY <2>3, <2>5, <3>1, <3>2, LongerAt
    <3>4. ASSUME NEW i \in Nat, i < q, At(t, f, i) PROVE i <= at
      <4>1. At(text, f, i) BY <2>5, <3>1, <3>4, LongerAt
      <4>2. i <= from BY <3>1, <3>4
      <4>. QED BY <2>3, <4>1, <4>2
    <3>. QED BY <2>4, <2>5, <3>1, <3>2, <3>3, <3>4, WithOneMore
  <2>. DEFINE k == [text |-> new, from |-> at - 1]
  <2>6. k \in [text : Texts, from : Int] /\ k.text = new /\ k.from = at - 1 OBVIOUS
  <2>7. LongerRound(s, f, r) = k BY <1>0, <1>2, <2>1, <2>3, <2>4
  <2>. HIDE DEF k
  <2>8. k.from >= -1 /\ k.from + 1 = at /\ k.from < s.from BY <2>1, <2>3, <2>6
  <2>9. k \in Lengthening(t, f, r, h) BY <2>5, <2>6, <2>8 DEF Lengthening
  <2>. QED BY <2>7, <2>8, <2>9
<1>. QED BY <1>1, <1>2

(* The loop gives a text, and the result where no matches overlap.         *)
LEMMA ReplaceLongerIs ==
  ASSUME NEW t \in Texts, NEW f \in Texts, NEW r \in Texts, Len(f) >= 1, Len(r) > Len(f),
         NEW h, IsRest(t, f, r, h)
  PROVE  ReplaceLonger(t, f, r) \in Texts /\ (Clear(f, r) => ReplaceLonger(t, f, r) = h[0])
<1>. DEFINE N == Len(t)
            V == Lengthening(t, f, r, h)
            b == [text |-> t, from |-> N - 1]
            step == [s \in V |-> LongerRound(s, f, r)]
            place == [s \in V |-> (N - 1) - s.from]
            F(g) == [n \in Nat |-> IF n = 0 THEN b ELSE LongerRound(g[n - 1], f, r)]
            a == CHOOSE g : g = F(g)
<1>1. N \in Nat BY TextsAreInts
<1>2. b \in V
  <2>1. RightOf(t, f, h, t, N)
    <3>1. h[N] = <<>> BY DEF IsRest
    <3>2. SubSeq(t, 0 + 1, N) = t
      <4>1. IsPart(SubSeq(t, 0 + 1, N), t, 0, N) BY <1>1, IsPartOf
      <4>. DEFINE x == SubSeq(t, 0 + 1, N)
      <4>. HIDE DEF x
      <4>2. x \in Texts /\ Len(x) = N /\ \A k \in 1 .. N : x[k] = t[k]
        <5>1. IsPart(x, t, 0, N) BY <4>1 DEF x
        <5>. QED BY <5>1, <1>1 DEF IsPart
      <4>3. x = t BY <4>2, SameText
      <4>. QED BY <4>3 DEF x
    <3>3. t \o <<>> = t BY ConcatEmptySeq DEF Texts
    <3>4. IsPiece(t, t, 0, N, h[N]) BY <3>1, <3>2, <3>3 DEF IsPiece
    <3>. QED BY <1>1, <3>4 DEF RightOf
  <2>2. b \in [text : Texts, from : Int] /\ b.text = t /\ b.from >= -1 /\ b.from + 1 = N
    BY <1>1
  <2>. HIDE DEF b
  <2>. QED BY <2>1, <2>2 DEF Lengthening
<1>3. step \in [V -> V]
  <2>1. \A s \in V : LongerRound(s, f, r) \in V BY LongerOn
  <2>. HIDE DEF V
  <2>. QED BY <2>1
<1>. HIDE DEF V, b
<1>4. a = F(a)
  <2>1. PICK g \in [Nat -> V] : g[0] = b /\ \A n \in Nat : g[n + 1] = step[g[n]]
    <3>. HIDE DEF step
    <3>1. HasRounds(V, b, step) BY <1>2, <1>3, RoundsExist
    <3>. QED BY <3>1 DEF HasRounds
  <2>2. \A n \in Nat : n # 0 => g[n] = LongerRound(g[n - 1], f, r)
    <3>1. ASSUME NEW n \in Nat, n # 0 PROVE g[n] = LongerRound(g[n - 1], f, r)
      <4>1. n - 1 \in Nat /\ n - 1 + 1 = n BY <3>1
      <4>2. g[n - 1] \in V /\ g[n] = step[g[n - 1]] BY <4>1, <2>1
      <4>. QED BY <4>2
    <3>. QED BY <3>1
  <2>3. g = [n \in Nat |-> g[n]] BY <2>1
  <2>4. \A n \in Nat : g[n] = F(g)[n] BY <2>1, <2>2
  <2>5. F(g) = [n \in Nat |-> F(g)[n]] OBVIOUS
  <2>. HIDE DEF F
  <2>6. g = F(g) BY <2>3, <2>4, <2>5
  <2>. QED BY <2>6
<1>. HIDE DEF a
<1>5. Ends(V, b, step, N, a[N])
  <2>1. \A n \in Nat : a[n] = F(a)[n] BY <1>4
  <2>2. F(a) = [n \in Nat |-> F(a)[n]] OBVIOUS
  <2>3. F(a)[0] = b OBVIOUS
  <2>4. \A n \in Nat : F(a)[n + 1] = LongerRound(a[n], f, r) OBVIOUS
  <2>. HIDE DEF F
  <2>5. a = [n \in Nat |-> a[n]] BY <2>1, <2>2, <1>4
  <2>6. a[0] = b BY <2>1, <2>3
  <2>7. \A n \in Nat : a[n] \in V => a[n + 1] = step[a[n]] BY <2>1, <2>4
  <2>. HIDE DEF step
  <2>. QED BY <1>1, <1>2, <1>3, <2>5, <2>6, <2>7, LoopRuns
<1>. DEFINE e == a[N]
<1>6. \A s \in V : s \in [text : Texts, from : Int] /\ s.from >= -1 BY DEF V, Lengthening
<1>7. \A s \in V : FoundUpTo(s.text, f, s.from) = {} => LongerRound(s, f, r) = s
  BY DEF LongerRound, FoundUpTo
<1>8. Moves(V, step, place)
  <2>1. ASSUME NEW s \in V PROVE step[s] = s \/ place[step[s]] > place[s]
    <3>1. step[s] = LongerRound(s, f, r) /\ step[s] \in V BY <1>3
    <3>2. FoundUpTo(s.text, f, s.from) # {} => step[s].from < s.from
      BY <3>1, LongerOn DEF V
    <3>3. FoundUpTo(s.text, f, s.from) = {} => step[s] = s BY <3>1, <1>7
    <3>4. place[s] = (N - 1) - s.from /\ place[step[s]] = (N - 1) - step[s].from BY <3>1
    <3>5. s.from \in Int /\ step[s].from \in Int BY <3>1, <1>6
    <3>. HIDE DEF place, step
    <3>. QED BY <3>2, <3>3, <3>4, <3>5, <1>1
  <2>. QED BY <2>1 DEF Moves
<1>9. e \in V /\ step[e] = e
  <2>1. place \in [V -> Int] /\ place[b] >= 0
    <3>1. \A s \in V : (N - 1) - s.from \in Int BY <1>1, <1>6
    <3>2. place[b] = (N - 1) - b.from BY <1>2
    <3>3. b.from = N - 1 BY DEF b
    <3>4. place \in [V -> Int] BY <3>1
    <3>. HIDE DEF place
    <3>. QED BY <3>2, <3>3, <3>4, <1>1
  <2>2. Stops(V, step, place, N)
    <3>1. ASSUME NEW s \in V, place[s] >= N PROVE step[s] = s
      <4>1. step[s] = LongerRound(s, f, r) BY <1>3
      <4>2. PICK text \in Texts, from \in Int : text = s.text /\ from = s.from BY <1>6
      <4>3. from <= -1
        <5>1. (N - 1) - from >= N BY <3>1, <4>2
        <5>. QED BY <5>1, <1>1
      <4>4. FoundUpTo(text, f, from) = {}
        <5>1. ASSUME FoundUpTo(text, f, from) # {} PROVE FALSE
          <6>1. LET k == Largest(FoundUpTo(text, f, from))
                IN  /\ k \in Nat /\ k <= from /\ At(text, f, k)
                    /\ \A i \in Nat : i <= from /\ At(text, f, i) => i <= k
            BY <5>1, LastFound
          <6>. QED BY <6>1, <4>3
        <5>. QED BY <5>1
      <4>. QED BY <4>1, <4>2, <4>4, <1>7
    <3>. QED BY <3>1 DEF Stops
  <2>. HIDE DEF step, place
  <2>. QED BY <1>1, <1>5, <1>8, <2>1, <2>2, LoopEnds
<1>10. ReplaceLonger(t, f, r) = e.text BY DEF ReplaceLonger, a, b, N
<1>. HIDE DEF e
<1>11. PICK text \in Texts, from \in Int : text = e.text /\ from = e.from /\ from >= -1
  BY <1>6, <1>9
<1>12. ASSUME Clear(f, r) PROVE text = h[0]
  <2>1. PICK q \in Nat : q = from + 1 /\ RightOf(t, f, h, text, q)
    BY <1>9, <1>11, <1>12 DEF V, Lengthening
  <2>2. FoundUpTo(text, f, from) = {}
    <3>1. LongerRound(e, f, r) = e BY <1>9
    <3>2. ~(e.from < e.from) BY <1>11
    <3>. QED BY <3>1, <3>2, <1>9, <1>11, LongerOn DEF V
  <2>3. \A i \in Nat : i <= from => ~At(text, f, i) BY <2>2, LastFound
  <2>4. NoneIn(t, f, 0, q)
    <3>1. ASSUME NEW i \in 0 .. q - 1 PROVE ~At(t, f, i)
      <4>1. i \in Nat /\ i < q /\ i <= from BY <2>1
      <4>. QED BY <4>1, <2>1, <2>3, <1>12, LongerAt
    <3>. QED BY <3>1 DEF NoneIn
  <2>5. q <= Len(t) BY <2>1 DEF RightOf
  <2>6. Skips(t, h, 0, q) BY <2>4, <2>5, Unreplaced
  <2>. QED BY <2>1, <2>6 DEF Skips, RightOf, IsPiece
<1>. QED BY <1>10, <1>11, <1>12
-----------------------------------------------------------------------------
\* what StringsSound says of a buffer that has been overrun
Overran ==
    overrun => Valid(that) /\ \E r \in Literals : Len(r) > that.len /\
          (Values!Overlaps(TextOf(that), r) \/ Values!Overlaps(TextOf(that), TextOf(that)))

\* the buffer for a size
Room(s, size) == IF size > Capacity(s) THEN ChangeBuffer(s, size) ELSE s

LEMMA RoomIs ==
  ASSUME NEW s, NEW t, IsString(s, t), NEW size \in Nat
  PROVE  /\ Room(s, size).chars \in Seq(Int) /\ size <= Capacity(Room(s, size))
         /\ Capacity(Room(s, size)) = Len(Room(s, size).chars) - 1
         /\ Len(Room(s, size).chars) = IF size > Capacity(s) THEN size + 1 ELSE Len(s.chars)
<1>1. s \in Objects /\ s.chars \in Seq(Int) /\ Capacity(s) = Len(s.chars) - 1 /\ Capacity(s) \in Nat
  BY StringIs DEF IsString
<1>2. CASE ~(size > Capacity(s))
  <2>1. Room(s, size) = s BY <1>2 DEF Room
  <2>. QED BY <1>1, <1>2, <2>1
<1>3. CASE size > Capacity(s)
  <2>. DEFINE J == JunkFrom(Len(s.chars), size + 1)
              c == s.chars \o J
              m == size + 1 - Len(s.chars)
  <2>1. m \in Nat BY <1>1, <1>3
  <2>2. J \in Seq(Int) /\ Len(J) = m
    <3>1. J = [i \in 1 .. m |-> Junk] BY DEF JunkFrom
    <3>. HIDE DEF m, J
    <3>. QED BY <2>1, <3>1 DEF Junk
  <2>3. Room(s, size) = [s EXCEPT !.chars = c] BY <1>3 DEF Room, ChangeBuffer
  <2>. HIDE DEF J
  <2>4. c \in Seq(Int) /\ Len(c) = Len(s.chars) + Len(J) BY <1>1, <2>2, ConcatProperties
  <2>. HIDE DEF c
  <2>5. Room(s, size).chars = c BY <1>1, <2>3, <2>4 DEF Objects
  <2>6. Len(c) = size + 1 BY <1>1, <2>2, <2>4
  <2>7. Capacity(Room(s, size)) = Len(c) - 1 BY <2>5 DEF Capacity
  <2>. QED BY <1>1, <1>3, <2>4, <2>5, <2>6, <2>7
<1>. QED BY <1>2, <1>3

\* this becomes a text that Replaced admits
LEMMA MakesReplaced ==
  ASSUME Stays, NEW t \in Texts, NEW f \in Texts, NEW r \in Literals, NEW u \in Texts,
         ValueOf(this) = t, ValueOf(that) = f, Len(f) >= 1,
         ValueOf(this)' = u, ValueOf(that)' = ValueOf(that),
         u = Values!ReplaceAll(t, f, r) \/ (Len(r) > Len(f) /\ ~Clear(f, r))
  PROVE  ValueStep
<1>1. Values!IsValid(t) /\ Values!IsValid(f) /\ Values!IsValid(u) BY InvalidIs DEF Values!IsValid
<1>2. f # <<>> BY EmptyText
<1>3. CASE u = Values!ReplaceAll(t, f, r)
  BY <1>1, <1>2, <1>3 DEF Values!Replaced, ValueStep, Values!Next
<1>4. CASE Len(r) > Len(f) /\ ~Clear(f, r)
  BY <1>1, <1>2, <1>4 DEF Values!Replaced, ValueStep, Values!Next, Clear
<1>. QED BY <1>3, <1>4

\* a replacement of all, as replace finds it
Replacing(t, f, r, h, count) ==
    /\ IsRest(t, f, r, h) /\ Values!ReplaceAll(t, f, r) = h[0] /\ h[0] \in Texts
    /\ count = CountMatches(t, f) /\ count \in Nat
    /\ Len(h[0]) = Len(t) + (Len(r) - Len(f)) * count

LEMMA HasReplacing ==
  ASSUME NEW t \in Texts, NEW f \in Texts, NEW r \in Texts, Len(f) >= 1
  PROVE  \E h : Replacing(t, f, r, h, CountMatches(t, f))
<1>1. Replaces(t, f, r, Values!ReplaceAll(t, f, r)) BY ReplaceAllIs
<1>2. PICK h : IsRest(t, f, r, h) /\ Values!ReplaceAll(t, f, r) = h[0] BY <1>1 DEF Replaces
<1>3. Len(f) \in Nat /\ Len(r) \in Nat BY TextsAreInts
<1>4. PICK diff \in Int : diff = Len(r) - Len(f) /\ Len(r) = Len(f) + diff BY <1>3
<1>5. /\ CountMatches(t, f) \in Nat
      /\ h[0] \in Texts /\ Len(h[0]) = Len(t) + diff * CountMatches(t, f)
  BY <1>2, <1>4, CountMatchesIs
<1>. QED BY <1>2, <1>4, <1>5 DEF Replacing

LEMMA ReplaceKeeps ==
  ASSUME Stays, ~overrun, overrun \in BOOLEAN, NEW r \in Literals, Replace(r)
  PROVE  Stays' /\ ValueStep /\ Overran' /\ overrun' \in BOOLEAN
<1>0. Valid(this) /\ Valid(that) /\ this.len > 0 /\ that.len > 0 BY DEF Replace
<1>1. PICK t \in Texts : t = TextOf(this) /\ IsString(this, t) BY <1>0, HaveValues DEF Stays
<1>2. PICK f \in Texts : f = TextOf(that) /\ IsString(that, f) BY <1>0, HaveValues DEF Stays
<1>3. /\ this.len = Len(t) /\ ValueOf(this) = t /\ that.len = Len(f) /\ ValueOf(that) = f
      /\ Len(f) >= 1 /\ Len(f) \in Nat /\ Len(t) \in Nat /\ Holds(this.chars, t)
  <2>1. this.len = Len(t) /\ ValueOf(this) = t BY <1>1, StringIs
  <2>2. that.len = Len(f) /\ ValueOf(that) = f BY <1>2, StringIs
  <2>3. Len(f) \in Nat /\ Len(t) \in Nat BY TextsAreInts
  <2>. QED BY <1>0, <1>1, <2>1, <2>2, <2>3 DEF IsString
<1>4. r \in Texts /\ Len(r) \in Nat BY LiteralsAreTexts, TextsAreInts
<1>5. PICK h : Replacing(t, f, r, h, CountMatches(t, f)) BY <1>3, <1>4, HasReplacing
<1>6. PICK u \in Texts, size \in Nat :
        /\ u = h[0] /\ u = Values!ReplaceAll(t, f, r)
        /\ Len(u) = size /\ size = this.len + (Len(r) - Len(f)) * CountMatches(t, f)
  BY <1>3, <1>5, TextsAreInts DEF Replacing
<1>. DEFINE room == Room(this, size)
            long == ReplaceLonger(t, f, r)
<1>7. \/ Len(r) - Len(f) = 0 /\ InPlace(this.len, ReplaceSame(this.chars, f, r))
      \/ Len(r) - Len(f) < 0 /\ InPlace(size, ReplaceShorter(this.chars, f, r))
      \/ UNCHANGED stringVars
      \/ /\ Len(r) - Len(f) > 0 /\ Len(long) <= Capacity(room)
         /\ InPlace(Len(long), Poke(room.chars, 0, Append(long, Nul)))
      \/ /\ Len(r) - Len(f) > 0 /\ Len(long) > Capacity(room)
         /\ overrun' = TRUE /\ UNCHANGED <<this, that>>
  BY <1>1, <1>2, <1>6 DEF Replace, Room
<1>8. IsRest(t, f, r, h) BY <1>5 DEF Replacing
<1>9. ASSUME NEW v \in Texts, Stays', ValueOf(this)' = v, ValueOf(that)' = ValueOf(that),
             overrun' = overrun, v = u \/ (Len(r) > Len(f) /\ ~Clear(f, r))
      PROVE  Stays' /\ ValueStep /\ Overran' /\ overrun' \in BOOLEAN
  <2>1. ValueStep BY <1>3, <1>6, <1>9, MakesReplaced
  <2>. QED BY <1>9, <2>1 DEF Overran
<1>10. CASE Len(r) - Len(f) = 0 /\ InPlace(this.len, ReplaceSame(this.chars, f, r))
  <2>1. Len(r) = Len(f) BY <1>3, <1>4, <1>10
  <2>2. Holds(ReplaceSame(this.chars, f, r), h[0]) BY <1>3, <1>4, <1>8, <2>1, ReplaceSameIs
  <2>3. this.len = Len(u)
    <3>1. CountMatches(t, f) \in Nat BY <1>5 DEF Replacing
    <3>2. \A c \in Nat : 0 * c = 0 OBVIOUS
    <3>. QED BY <1>3, <1>6, <1>10, <3>1, <3>2
  <2>4. Stays' /\ ValueOf(this)' = u /\ ValueOf(that)' = ValueOf(that)
    BY <1>6, <1>10, <2>2, <2>3, InPlaceMakes
  <2>5. overrun' = overrun BY <1>10 DEF InPlace
  <2>. QED BY <1>9, <2>4, <2>5
<1>11. CASE Len(r) - Len(f) < 0 /\ InPlace(size, ReplaceShorter(this.chars, f, r))
  <2>1. Len(r) <= Len(f) BY <1>3, <1>4, <1>11
  <2>2. Holds(ReplaceShorter(this.chars, f, r), h[0]) BY <1>3, <1>4, <1>8, <2>1, ReplaceShorterIs
  <2>4. Stays' /\ ValueOf(this)' = u /\ ValueOf(that)' = ValueOf(that)
    BY <1>6, <1>11, <2>2, InPlaceMakes
  <2>5. overrun' = overrun BY <1>11 DEF InPlace
  <2>. QED BY <1>9, <2>4, <2>5
<1>12. CASE UNCHANGED stringVars
  <2>1. this' = this /\ that' = that /\ overrun' = overrun BY <1>12 DEF stringVars
  <2>2. Stays' /\ ValueStep BY <2>1, MakesNothing
  <2>. QED BY <2>1, <2>2 DEF Overran
<1>13. ASSUME Len(r) - Len(f) > 0
       PROVE  long \in Texts /\ (Clear(f, r) => long = u) /\ Len(r) > Len(f)
  <2>1. Len(r) > Len(f) BY <1>3, <1>4, <1>13
  <2>2. ReplaceLonger(t, f, r) \in Texts /\ (Clear(f, r) => ReplaceLonger(t, f, r) = h[0])
    BY <1>3, <1>4, <1>8, <2>1, ReplaceLongerIs
  <2>. QED BY <1>6, <2>1, <2>2
<1>14. /\ room.chars \in Seq(Int) /\ size <= Capacity(room)
       /\ Capacity(room) = Len(room.chars) - 1
  BY <1>1, RoomIs
<1>. HIDE DEF room, long
<1>15. CASE /\ Len(r) - Len(f) > 0 /\ Len(long) <= Capacity(room)
            /\ InPlace(Len(long), Poke(room.chars, 0, Append(long, Nul)))
  <2>1. PICK v \in Texts : v = long /\ (Clear(f, r) => v = u) /\ Len(r) > Len(f) BY <1>13, <1>15
  <2>2. PICK c \in Seq(Int) : c = room.chars BY <1>14
  <2>3. Len(v) < Len(c) /\ Len(v) \in Nat
    <3>1. Len(v) \in Nat /\ Len(c) \in Nat BY TextsAreInts
    <3>. QED BY <3>1, <1>14, <1>15, <2>1, <2>2
  <2>4. Holds(Poke(c, Len(<<>>), Append(v, Nul)), <<>> \o v)
    <3>1. <<>> \in Texts /\ Len(<<>>) + Len(v) < Len(c) BY <2>3, EmptyText
    <3>2. \A i \in 1 .. Len(<<>>) : c[i] = <<>>[i] BY EmptyText
    <3>. QED BY <3>1, <3>2, PokeHolds
  <2>5. <<>> \o v = v BY ConcatEmptySeq DEF Texts
  <2>6. Holds(Poke(c, 0, Append(v, Nul)), v) BY <2>4, <2>5, EmptyText
  <2>7. InPlace(Len(v), Poke(c, 0, Append(v, Nul))) BY <1>15, <2>1, <2>2
  <2>8. Stays' /\ ValueOf(this)' = v /\ ValueOf(that)' = ValueOf(that)
    BY <2>6, <2>7, InPlaceMakes
  <2>9. overrun' = overrun BY <2>7 DEF InPlace
  <2>. QED BY <1>9, <2>1, <2>8, <2>9
<1>16. CASE /\ Len(r) - Len(f) > 0 /\ Len(long) > Capacity(room)
            /\ overrun' = TRUE /\ UNCHANGED <<this, that>>
  <2>1. this' = this /\ that' = that BY <1>16
  <2>2. Stays' /\ ValueStep BY <2>1, MakesNothing
  <2>3. ~Clear(f, r)
    <3>1. ASSUME Clear(f, r) PROVE FALSE
      <4>1. Len(long) = size BY <1>6, <1>13, <1>16, <3>1
      <4>2. Len(room.chars) \in Nat BY <1>14
      <4>. QED BY <4>1, <4>2, <1>14, <1>16
    <3>. QED BY <3>1
  <2>4. Len(r) > that.len /\ (Values!Overlaps(f, r) \/ Values!Overlaps(f, f))
    BY <1>3, <1>13, <1>16, <2>3 DEF Clear
  <2>5. Overran' BY <1>0, <1>2, <2>1, <2>4 DEF Overran
  <2>. QED BY <1>16, <2>2, <2>5
<1>. QED BY <1>7, <1>10, <1>11, <1>12, <1>15, <1>16
-----------------------------------------------------------------------------
(* What a step makes of the strings, of the promise and of the overrun.     *)
LEMMA StringsStepKeeps ==
  ASSUME Stays, overrun \in BOOLEAN, Overran, StringsNext
  PROVE  Stays' /\ ValueStep /\ Overran' /\ overrun' \in BOOLEAN
<1>1. ~overrun BY DEF StringsNext
<1>2. ASSUME Stays' /\ ValueStep, overrun' = overrun
      PROVE  Stays' /\ ValueStep /\ Overran' /\ overrun' \in BOOLEAN
  BY <1>1, <1>2 DEF Overran
<1>3. Positions \subseteq Nat BY StringsAssumption
<1>4. ASSUME NEW size \in Positions, ReserveMore(size)
      PROVE  Stays' /\ ValueStep /\ overrun' = overrun
  BY <1>4, ReserveMoreKeeps DEF ReserveMore
<1>5. CASE AssignLiteral \/ AssignNull \/ AssignString
  <2>1. overrun' = overrun
    BY <1>5 DEF AssignLiteral, AssignNull, AssignString, AssignTo
  <2>. QED BY <1>2, <1>5, <2>1, AssignKeeps
<1>6. CASE ConcatLiteral \/ ConcatString
  <2>1. overrun' = overrun BY <1>6 DEF ConcatLiteral, ConcatString, Concat
  <2>. QED BY <1>2, <1>6, <2>1, ConcatsKeep
<1>7. CASE SumHelper
  <2>1. overrun' = overrun BY <1>7 DEF SumHelper
  <2>. QED BY <1>2, <1>7, <2>1, SumKeeps
<1>8. ASSUME NEW left \in Positions, NEW right \in Positions, Substring(left, right)
      PROVE  Stays' /\ ValueStep /\ overrun' = overrun
  <2>1. overrun' = overrun BY <1>8 DEF Substring
  <2>2. left \in Nat /\ right \in Nat BY <1>3
  <2>. QED BY <1>8, <2>1, <2>2, SubstringKeeps
<1>9. CASE ToLowerCase \/ ToUpperCase \/ ReplaceChar(97, 32)
  <2>1. overrun' = overrun
    BY <1>9 DEF ToLowerCase, ToUpperCase, ReplaceChar, SetChars, InPlace
  <2>. QED BY <1>2, <1>9, <2>1, CharsKeep
<1>10. CASE Trim
  <2>1. overrun' = overrun BY <1>10 DEF Trim, InPlace
  <2>. QED BY <1>2, <1>10, <2>1, TrimKeeps
<1>11. ASSUME NEW loc \in Positions, SetCharAt(loc, 97)
       PROVE  Stays' /\ ValueStep /\ overrun' = overrun
  <2>1. overrun' = overrun BY <1>11 DEF SetCharAt, InPlace
  <2>2. loc \in Nat BY <1>3
  <2>. QED BY <1>11, <2>1, <2>2, SetCharAtKeeps
<1>12. ASSUME NEW r \in Literals, Replace(r)
       PROVE  Stays' /\ ValueStep /\ Overran' /\ overrun' \in BOOLEAN
  BY <1>1, <1>12, ReplaceKeeps
<1>. QED BY <1>2, <1>4, <1>5, <1>6, <1>7, <1>8, <1>9, <1>10, <1>11, <1>12 DEF StringsNext

\* what every step keeps
StringsInv == Stays /\ overrun \in BOOLEAN /\ Overran

LEMMA StringsInitially == StringsInit => StringsInv
<1>. SUFFICES ASSUME StringsInit PROVE StringsInv OBVIOUS
<1>1. Holds(<<Nul>>, <<>>)
  <2>1. <<Nul>> \in Seq(Int) /\ Len(<<Nul>>) = 1 /\ <<Nul>>[1] = Nul BY DEF Nul
  <2>. QED BY <2>1, EmptyText DEF Holds
<1>2. IsString(this, <<>>)
  <2>1. Len(<<>>) = 0 BY EmptyText
  <2>. QED BY <1>1, <2>1, MadeOf DEF StringsInit
<1>3. Stays BY <1>2, EmptyText DEF Stays, StringInv, StringsInit
<1>. QED BY <1>3 DEF StringsInv, Overran, StringsInit

LEMMA StringsSteps ==
  StringsInv /\ [StringsNext]_stringVars => StringsInv' /\ ValueStep
<1>. SUFFICES ASSUME StringsInv, [StringsNext]_stringVars PROVE StringsInv' /\ ValueStep OBVIOUS
<1>1. CASE StringsNext BY <1>1, StringsStepKeeps DEF StringsInv
<1>2. CASE UNCHANGED stringVars
  <2>1. this' = this /\ that' = that /\ overrun' = overrun BY <1>2 DEF stringVars
  <2>2. Stays' /\ ValueStep BY <2>1, MakesNothing DEF StringsInv
  <2>3. Overran' BY <2>1 DEF StringsInv, Overran
  <2>. QED BY <2>1, <2>2, <2>3 DEF StringsInv
<1>. QED BY <1>1, <1>2

LEMMA InvIsSound == StringsInv => StringsSound
<1>. SUFFICES ASSUME StringsInv PROVE StringsSound OBVIOUS
<1>1. ASSUME NEW s \in {this, that}
      PROVE  /\ Valid(s) => s.len = Len(TextOf(s)) /\ s.len <= Capacity(s)
             /\ ~Valid(s) => s.len = 0
  <2>1. StringInv(s) BY DEF StringsInv, Stays
  <2>2. CASE Valid(s)
    <3>1. IsString(s, TextOf(s)) BY <2>1, <2>2, HaveValues
    <3>. QED BY <2>2, <3>1, StringIs
  <2>3. CASE ~Valid(s)
    <3>1. s = Invalid BY <2>1, <2>3, HaveValues
    <3>. QED BY <2>3, <3>1, InvalidIs
  <2>. QED BY <2>2, <2>3
<1>. QED BY <1>1 DEF StringsInv, Overran, StringsSound

(* Each operation of String does to the values of the two objects what     *)
(* StringValue says of the call, and nothing else ever changes them.       *)
THEOREM StringsRefined == StringsSpec => StringsRefine
<1>1. StringsInit => StringsInv BY StringsInitially
<1>2. StringsInv /\ [StringsNext]_stringVars => StringsInv' BY StringsSteps
<1>3. StringsInv /\ [StringsNext]_stringVars => [Values!Next]_<<ValueOf(this), ValueOf(that)>>
  BY StringsSteps DEF ValueStep
<1>. QED BY <1>1, <1>2, <1>3, PTL DEF StringsSpec, StringsRefine, Values!Spec
-----------------------------------------------------------------------------
\* no buffer is longer than an unsigned int counts
BuffersFit == Len(this.chars) <= UintRange /\ Len(that.chars) <= UintRange

LEMMA LengthIs ==
  ASSUME NEW n \in Nat, NEW c, c = [i \in 1 .. n |-> c[i]]
  PROVE  c \in Seq({c[i] : i \in 1 .. n}) /\ Len(c) = n
<1>. DEFINE C == {c[i] : i \in 1 .. n}
<1>1. \A i \in 1 .. n : c[i] \in C OBVIOUS
<1>. HIDE DEF C
<1>2. c \in [1 .. n -> C] BY <1>1
<1>3. c \in Seq(C) BY <1>2
<1>4. Len(c) = n BY <1>2, <1>3
<1>. QED BY <1>3, <1>4 DEF C

LEMMA SettledLen ==
  ASSUME NEW c, Len(c) \in Nat
  PROVE  Len(Settled(c)) = Len(c)
<1>. DEFINE p == Settled(c)
<1>1. p = [i \in 1 .. Len(c) |-> p[i]] BY DEF Settled
<1>. HIDE DEF p
<1>2. Len(p) = Len(c) BY <1>1, LengthIs
<1>. QED BY <1>2 DEF p

LEMMA PokeLen ==
  ASSUME NEW c, Len(c) \in Nat, NEW at, NEW bytes
  PROVE  Len(Poke(c, at, bytes)) = Len(c)
<1>. DEFINE p == Poke(c, at, bytes)
<1>1. p = [i \in 1 .. Len(c) |-> p[i]] BY DEF Poke
<1>. HIDE DEF p
<1>2. Len(p) = Len(c) BY <1>1, LengthIs
<1>. QED BY <1>2 DEF p

LEMMA BothLen ==
  ASSUME NEW n \in Nat, NEW c, c = [i \in 1 .. n |-> c[i]], NEW d \in Seq(Int)
  PROVE  Len(c \o d) = n + Len(d)
<1>. DEFINE C == {c[i] : i \in 1 .. n}
<1>1. c \in Seq(C) /\ Len(c) = n BY LengthIs
<1>. HIDE DEF C
<1>2. c \in Seq(C \union Int) /\ d \in Seq(C \union Int) BY <1>1, SeqMonotonic
<1>. QED BY <1>1, <1>2, ConcatProperties

LEMMA ObjectLen ==
  ASSUME NEW s, StringInv(s)
  PROVE  /\ s.len \in Nat /\ Len(s.chars) \in Nat /\ s.chars \in Seq(Int)
         /\ s.len < Len(s.chars) \/ (s = Invalid /\ s.len = 0 /\ Len(s.chars) = 0)
<1>1. CASE s = Invalid
  <2>1. s.chars = <<>> /\ s.len = 0 /\ Len(s.chars) = 0 BY <1>1, InvalidIs
  <2>. QED BY <1>1, <2>1
<1>2. ASSUME NEW t \in Texts, IsString(s, t)
      PROVE  s.len \in Nat /\ s.chars \in Seq(Int) /\ s.len < Len(s.chars)
             /\ Len(s.chars) \in Nat
  <2>1. s.len \in Nat /\ s.chars \in Seq(Int) /\ s.len < Len(s.chars)
    BY <1>2, TextsAreInts DEF IsString, Holds
  <2>. QED BY <2>1
<1>. QED BY <1>1, <1>2 DEF StringInv

LEMMA ReserveLen ==
  ASSUME NEW s, StringInv(s), NEW size \in Nat
  PROVE  Len(Reserve(s, size).chars) \in {Len(s.chars), size + 1}
<1>1. s \in Objects /\ Len(s.chars) \in Nat /\ s.chars \in Seq(Int) BY HaveValues, ObjectLen
<1>2. CASE Valid(s) /\ Capacity(s) >= size
  BY <1>2 DEF Reserve
<1>3. CASE ~(Valid(s) /\ Capacity(s) >= size)
  <2>. DEFINE J == JunkFrom(Len(s.chars), size + 1)
              m == size + 1 - Len(s.chars)
              c == s.chars \o J
              g == ChangeBuffer(s, size)
  <2>1. Len(s.chars) <= size
    <3>1. CASE ~Valid(s) BY <3>1, HaveValues, InvalidIs
    <3>2. CASE Valid(s) BY <3>2, <1>1, <1>3 DEF Capacity
    <3>. QED BY <3>1, <3>2
  <2>2. J \in Seq(Int) /\ Len(J) = m
    <3>1. m \in Nat BY <1>1, <2>1
    <3>2. J = [i \in 1 .. m |-> Junk] BY DEF JunkFrom
    <3>. HIDE DEF m, J
    <3>. QED BY <3>1, <3>2 DEF Junk
  <2>. HIDE DEF J
  <2>3. c \in Seq(Int) /\ Len(c) = size + 1 BY <1>1, <2>2, ConcatProperties
  <2>4. g = [s EXCEPT !.chars = c] BY DEF ChangeBuffer, J
  <2>. HIDE DEF c
  <2>5. g \in Objects /\ g.chars = c BY <1>1, <2>3, <2>4 DEF Objects
  <2>. HIDE DEF g
  <2>6. CASE s.len # 0 BY <1>3, <2>3, <2>5, <2>6 DEF Reserve, g
  <2>7. CASE s.len = 0
    <3>. DEFINE k == [c EXCEPT ![1] = Nul]
    <3>1. Len(k) = Len(c) /\ k \in Seq(Int)
      <4>1. 1 \in 1 .. Len(c) /\ Nul \in Int BY <2>3 DEF Nul
      <4>. QED BY <2>3, <4>1, ExceptSeq
    <3>2. [g EXCEPT !.chars[1] = Nul] = [g EXCEPT !.chars = k] BY <2>5 DEF Objects
    <3>. HIDE DEF k
    <3>3. [g EXCEPT !.chars = k].chars = k BY <2>5 DEF Objects
    <3>4. Reserve(s, size) = [g EXCEPT !.chars[1] = Nul] BY <1>3, <2>7 DEF Reserve, g
    <3>. QED BY <2>3, <3>1, <3>2, <3>3, <3>4
  <2>. QED BY <2>6, <2>7
<1>. QED BY <1>2, <1>3

LEMMA CopyLen ==
  ASSUME NEW s, StringInv(s), NEW text \in Texts
  PROVE  Len(Copy(s, text).chars) \in {Len(s.chars), Len(text) + 1}
<1>. DEFINE r == Reserve(s, Len(text))
            p == Poke(r.chars, 0, Append(text, Nul))
<1>1. Len(text) \in Nat BY TextsAreInts
<1>2. Len(r.chars) \in {Len(s.chars), Len(text) + 1} /\ Len(r.chars) \in Nat
  BY <1>1, ReserveLen, ObjectLen
<1>3. Copy(s, text).chars = Settled(p) BY DEF Copy
<1>. HIDE DEF r
<1>4. Len(p) = Len(r.chars) BY <1>2, PokeLen
<1>. HIDE DEF p
<1>5. Len(Settled(p)) = Len(p) BY <1>2, <1>4, SettledLen
<1>. QED BY <1>2, <1>3, <1>4, <1>5

LEMMA ConcatLen ==
  ASSUME NEW s, StringInv(s), NEW text \in Texts
  PROVE  Len(ConcatText(s, text).chars) \in {Len(s.chars), s.len + Len(text) + 1}
<1>. DEFINE size == s.len + Len(text)
            r == Reserve(s, size)
            p == Poke(r.chars, s.len, Append(text, Nul))
<1>1. size \in Nat
  <2>1. Len(text) \in Nat /\ s.len \in Nat BY TextsAreInts, ObjectLen
  <2>. QED BY <2>1
<1>. HIDE DEF size
<1>2. Len(r.chars) \in {Len(s.chars), size + 1} /\ Len(r.chars) \in Nat
  BY <1>1, ReserveLen, ObjectLen
<1>3. CASE text = <<>> BY <1>3 DEF ConcatText
<1>4. CASE text # <<>>
  <2>1. ConcatText(s, text).chars = Settled(p) BY <1>4 DEF ConcatText, size
  <2>. HIDE DEF r
  <2>2. Len(p) = Len(r.chars) BY <1>2, PokeLen
  <2>. HIDE DEF p
  <2>3. Len(Settled(p)) = Len(p) BY <1>2, <2>2, SettledLen
  <2>. QED BY <1>2, <2>1, <2>2, <2>3 DEF size
<1>. QED BY <1>3, <1>4
-----------------------------------------------------------------------------
LEMMA BoundsAre ==
  /\ UintRange \in Nat /\ MaxLength \in Nat /\ MaxLength < UintRange
  /\ \A text \in Literals : text \in Texts /\ Len(text) \in Nat /\ Len(text) < UintRange
  /\ \A n \in Positions : n \in Nat /\ n < UintRange
<1>1. \A text \in Literals : text \in Texts /\ Len(text) \in Nat
  BY LiteralsAreTexts, TextsAreInts
<1>. QED BY <1>1, StringsAssumption, QueriesAssumption

LEMMA ThisFits ==
  ASSUME BuffersFit, that' = that, Len(this'.chars) <= UintRange
  PROVE  BuffersFit'
BY DEF BuffersFit

LEMMA InPlaceFits ==
  ASSUME BuffersFit, NEW len, NEW chars, InPlace(len, chars), Len(chars) \in Nat, Len(chars) <= UintRange
  PROVE  BuffersFit'
<1>1. Len(Settled(chars)) = Len(chars) BY SettledLen
<1>2. this'.chars = Settled(chars) /\ that' = that BY DEF InPlace
<1>. QED BY <1>1, <1>2, ThisFits

LEMMA AssignToFits ==
  ASSUME Stays, BuffersFit, NEW text \in Texts, Len(text) < UintRange, AssignTo(text)
  PROVE  BuffersFit'
<1>1. that' = that /\ this' \in {Copy(this, text), Invalid} BY DEF AssignTo
<1>2. Len(text) \in Nat /\ UintRange \in Nat BY TextsAreInts, BoundsAre
<1>3. CASE this' = Invalid
  <2>1. Len(this'.chars) = 0 BY <1>3, InvalidIs
  <2>. QED BY <1>1, <1>2, <2>1, ThisFits
<1>4. CASE this' = Copy(this, text)
  <2>1. Len(this'.chars) \in {Len(this.chars), Len(text) + 1} BY <1>4, CopyLen DEF Stays
  <2>2. Len(this'.chars) <= UintRange BY <1>2, <2>1 DEF BuffersFit
  <2>. QED BY <1>1, <2>2, ThisFits
<1>. QED BY <1>1, <1>3, <1>4

LEMMA TextFits ==
  ASSUME NEW s, StringInv(s), Valid(s), Len(s.chars) <= UintRange
  PROVE  /\ TextOf(s) \in Texts /\ Len(TextOf(s)) < UintRange /\ Len(TextOf(s)) = s.len
<1>1. TextOf(s) \in Texts /\ IsString(s, TextOf(s)) BY HaveValues
<1>2. Len(TextOf(s)) = s.len BY <1>1, StringIs
<1>3. s # Invalid BY InvalidIs
<1>4. s.len < Len(s.chars) /\ s.len \in Nat /\ Len(s.chars) \in Nat BY <1>3, ObjectLen
<1>. QED BY <1>1, <1>2, <1>4, BoundsAre

LEMMA AssignsFit ==
  ASSUME Stays, BuffersFit, AssignLiteral \/ AssignNull \/ AssignString
  PROVE  BuffersFit'
<1>1. CASE AssignLiteral BY <1>1, AssignToFits, BoundsAre DEF AssignLiteral
<1>2. CASE AssignNull
  <2>1. this' = Invalid /\ that' = that BY <1>2 DEF AssignNull
  <2>2. Len(this'.chars) = 0 BY <2>1, InvalidIs
  <2>. QED BY <2>1, <2>2, BoundsAre, ThisFits
<1>3. CASE AssignString /\ Valid(that)
  <2>1. TextOf(that) \in Texts /\ Len(TextOf(that)) < UintRange BY <1>3, TextFits DEF Stays, BuffersFit
  <2>. QED BY <1>3, <2>1, AssignToFits DEF AssignString
<1>. QED BY <1>1, <1>2, <1>3 DEF AssignString

LEMMA JoinFits ==
  ASSUME Stays, BuffersFit, NEW text \in Texts, this.len + Len(text) <= MaxLength, that' = that,
         this' \in {ConcatText(this, text), this, Invalid}
  PROVE  BuffersFit'
<1>1. Len(text) \in Nat /\ this.len \in Nat BY TextsAreInts, ObjectLen DEF Stays
<1>2. CASE this' = Invalid
  <2>1. Len(this'.chars) = 0 BY <1>2, InvalidIs
  <2>. QED BY <2>1, BoundsAre, ThisFits
<1>3. CASE this' = this BY <1>3 DEF BuffersFit
<1>4. CASE this' = ConcatText(this, text)
  <2>1. Len(this'.chars) \in {Len(this.chars), this.len + Len(text) + 1}
    BY <1>4, ConcatLen DEF Stays
  <2>2. Len(this'.chars) <= UintRange BY <1>1, <2>1, BoundsAre DEF BuffersFit
  <2>. QED BY <2>2, ThisFits
<1>. QED BY <1>2, <1>3, <1>4

LEMMA ConcatsFit ==
  ASSUME Stays, BuffersFit, ConcatLiteral \/ ConcatString \/ SumHelper
  PROVE  BuffersFit'
<1>1. ASSUME NEW text \in Texts, Concat(text) PROVE BuffersFit'
  <2>1. this.len + Len(text) <= MaxLength /\ that' = that
        /\ this' \in {ConcatText(this, text), this, Invalid}
    BY <1>1 DEF Concat
  <2>. QED BY <2>1, JoinFits
<1>2. CASE ConcatLiteral BY <1>1, <1>2, BoundsAre DEF ConcatLiteral
<1>3. Valid(that) => TextOf(that) \in Texts /\ Len(TextOf(that)) = that.len
  BY TextFits DEF Stays, BuffersFit
<1>4. CASE ConcatString BY <1>1, <1>3, <1>4 DEF ConcatString
<1>5. CASE SumHelper
  <2>1. /\ Valid(that) /\ this.len + Len(TextOf(that)) <= MaxLength /\ that' = that
        /\ this' \in {ConcatText(this, TextOf(that)), this, Invalid}
    BY <1>3, <1>5 DEF SumHelper
  <2>. QED BY <1>3, <2>1, JoinFits
<1>. QED BY <1>2, <1>4, <1>5

LEMMA CutFits ==
  ASSUME Stays, BuffersFit, this' = this, CutOff
  PROVE  BuffersFit'
<1>1. CASE that' = Invalid
  <2>1. Len(that'.chars) = 0 BY <1>1, InvalidIs
  <2>. QED BY <2>1, BoundsAre DEF BuffersFit
<1>2. ASSUME NEW p \in Texts, that' = Copy(Invalid, p), Len(p) <= this.len
      PROVE  BuffersFit'
  <2>1. Len(that'.chars) \in {0, Len(p) + 1} BY <1>2, CopyLen, InvalidIs DEF StringInv
  <2>2. Len(p) \in Nat /\ this.len \in Nat /\ Len(this.chars) \in Nat
        /\ (this.len < Len(this.chars) \/ (this.len = 0 /\ Len(this.chars) = 0))
    BY ObjectLen, TextsAreInts DEF Stays
  <2>3. Len(this.chars) <= UintRange /\ UintRange \in Nat /\ 0 < UintRange
    BY BoundsAre DEF BuffersFit
  <2>4. Len(that'.chars) <= UintRange
    <3>1. Len(p) + 1 <= UintRange BY <1>2, <2>2, <2>3
    <3>. QED BY <2>1, <2>3, <3>1
  <2>. QED BY <2>3, <2>4 DEF BuffersFit
<1>. QED BY <1>1, <1>2 DEF CutOff

LEMMA SetCharsFits ==
  ASSUME Stays, BuffersFit, NEW new, new = [i \in 1 .. this.len |-> new[i]], SetChars(new)
  PROVE  BuffersFit'
<1>. DEFINE rest == SubSeq(this.chars, this.len + 1, Len(this.chars))
<1>1. Valid(this) /\ InPlace(this.len, new \o rest) BY DEF SetChars
<1>2. this.len \in Nat /\ this.chars \in Seq(Int) /\ Len(this.chars) \in Nat
      /\ this.len < Len(this.chars)
  <2>1. this # Invalid BY <1>1, InvalidIs
  <2>. QED BY <2>1, ObjectLen DEF Stays
<1>3. rest \in Seq(Int) /\ Len(rest) = Len(this.chars) - this.len
  BY <1>2, PartIs
<1>. HIDE DEF rest
<1>4. Len(new \o rest) = Len(this.chars)
  <2>1. Len(new \o rest) = this.len + Len(rest) BY <1>2, <1>3, BothLen
  <2>. QED BY <2>1, <1>2, <1>3
<1>. QED BY <1>1, <1>2, <1>4, InPlaceFits DEF BuffersFit

LEMMA CharsFit ==
  ASSUME Stays, BuffersFit, ToLowerCase \/ ToUpperCase \/ ReplaceChar(97, 32)
  PROVE  BuffersFit'
<1>1. CASE ToLowerCase
  <2>. DEFINE new == [i \in 1 .. this.len |-> Lower(this.chars[i])]
  <2>1. new = [i \in 1 .. this.len |-> new[i]] OBVIOUS
  <2>2. SetChars(new) BY <1>1 DEF ToLowerCase
  <2>. HIDE DEF new
  <2>. QED BY <2>1, <2>2, SetCharsFits
<1>2. CASE ToUpperCase
  <2>. DEFINE new == [i \in 1 .. this.len |-> Upper(this.chars[i])]
  <2>1. new = [i \in 1 .. this.len |-> new[i]] OBVIOUS
  <2>2. SetChars(new) BY <1>2 DEF ToUpperCase
  <2>. HIDE DEF new
  <2>. QED BY <2>1, <2>2, SetCharsFits
<1>3. CASE ReplaceChar(97, 32)
  <2>. DEFINE new == [i \in 1 .. this.len |-> IF this.chars[i] = 97 THEN 32 ELSE this.chars[i]]
  <2>1. new = [i \in 1 .. this.len |-> new[i]] OBVIOUS
  <2>2. SetChars(new) BY <1>3 DEF ReplaceChar
  <2>. HIDE DEF new
  <2>. QED BY <2>1, <2>2, SetCharsFits
<1>. QED BY <1>1, <1>2, <1>3

LEMMA SetCharAtFits ==
  ASSUME Stays, BuffersFit, NEW loc \in Nat, SetCharAt(loc, 97)
  PROVE  BuffersFit'
<1>. DEFINE new == [this.chars EXCEPT ![loc + 1] = 97]
<1>1. loc < this.len /\ InPlace(this.len, new) BY DEF SetCharAt
<1>2. this.len \in Nat /\ this.chars \in Seq(Int) /\ Len(this.chars) \in Nat
      /\ this.len < Len(this.chars)
  <2>1. ~(this.len = 0) BY <1>1
  <2>. QED BY <2>1, ObjectLen DEF Stays
<1>3. Len(new) = Len(this.chars)
  <2>1. loc + 1 \in 1 .. Len(this.chars) BY <1>1, <1>2
  <2>. QED BY <1>2, <2>1, ExceptSeq
<1>. HIDE DEF new
<1>. QED BY <1>1, <1>2, <1>3, InPlaceFits DEF BuffersFit

LEMMA TrimFits ==
  ASSUME Stays, BuffersFit, Trim
  PROVE  BuffersFit'
<1>1. PICK len, bytes : InPlace(len, Poke(this.chars, 0, bytes)) BY DEF Trim
<1>2. Len(this.chars) \in Nat BY ObjectLen DEF Stays
<1>3. Len(Poke(this.chars, 0, bytes)) = Len(this.chars) BY <1>2, PokeLen
<1>. QED BY <1>1, <1>2, <1>3, InPlaceFits DEF BuffersFit

LEMMA ReplaceFits ==
  ASSUME Stays, BuffersFit, NEW r \in Literals, Replace(r)
  PROVE  BuffersFit'
<1>0. Valid(this) /\ Valid(that) /\ this.len > 0 /\ that.len > 0 BY DEF Replace
<1>1. PICK t \in Texts : t = TextOf(this) /\ IsString(this, t) BY <1>0, HaveValues DEF Stays
<1>2. PICK f \in Texts : f = TextOf(that) /\ IsString(that, f) BY <1>0, HaveValues DEF Stays
<1>3. this.len = Len(t) /\ Len(f) >= 1 /\ Len(f) \in Nat /\ Holds(this.chars, t)
  <2>1. this.len = Len(t) BY <1>1, StringIs
  <2>2. that.len = Len(f) BY <1>2, StringIs
  <2>3. Len(f) \in Nat BY TextsAreInts
  <2>. QED BY <1>0, <1>1, <2>1, <2>2, <2>3 DEF IsString
<1>4. r \in Texts /\ Len(r) \in Nat BY LiteralsAreTexts, TextsAreInts
<1>5. PICK h : Replacing(t, f, r, h, CountMatches(t, f)) BY <1>3, <1>4, HasReplacing
<1>6. PICK size \in Nat : size = this.len + (Len(r) - Len(f)) * CountMatches(t, f)
  <2>1. Len(h[0]) \in Nat BY <1>5, TextsAreInts DEF Replacing
  <2>. QED BY <1>3, <1>5, <2>1 DEF Replacing
<1>7. IsRest(t, f, r, h) BY <1>5 DEF Replacing
<1>. DEFINE room == Room(this, size)
            long == ReplaceLonger(t, f, r)
<1>8. /\ size <= MaxLength
      /\ \/ Len(r) = Len(f) /\ InPlace(this.len, ReplaceSame(this.chars, f, r))
         \/ Len(r) < Len(f) /\ InPlace(size, ReplaceShorter(this.chars, f, r))
         \/ this' = this /\ that' = that
         \/ InPlace(Len(long), Poke(room.chars, 0, Append(long, Nul)))
  <2>1. /\ size <= MaxLength
        /\ \/ Len(r) - Len(f) = 0 /\ InPlace(this.len, ReplaceSame(this.chars, f, r))
           \/ Len(r) - Len(f) < 0 /\ InPlace(size, ReplaceShorter(this.chars, f, r))
           \/ this' = this /\ that' = that
           \/ InPlace(Len(long), Poke(room.chars, 0, Append(long, Nul)))
    BY <1>1, <1>2, <1>6 DEF Replace, Room, stringVars
  <2>2. /\ Len(r) - Len(f) = 0 => Len(r) = Len(f)
        /\ Len(r) - Len(f) < 0 => Len(r) < Len(f)
    BY <1>3, <1>4
  <2>. QED BY <2>1, <2>2
<1>9. Len(this.chars) \in Nat BY ObjectLen DEF Stays
<1>10. CASE Len(r) = Len(f) /\ InPlace(this.len, ReplaceSame(this.chars, f, r))
  <2>1. Len(ReplaceSame(this.chars, f, r)) = Len(this.chars)
    BY <1>3, <1>4, <1>7, <1>10, ReplaceSameIs
  <2>. QED BY <1>9, <1>10, <2>1, InPlaceFits DEF BuffersFit
<1>11. CASE Len(r) < Len(f) /\ InPlace(size, ReplaceShorter(this.chars, f, r))
  <2>1. Len(r) <= Len(f) BY <1>3, <1>4, <1>11
  <2>2. Len(ReplaceShorter(this.chars, f, r)) = Len(this.chars)
    BY <1>3, <1>4, <1>7, <2>1, ReplaceShorterIs
  <2>. QED BY <1>9, <1>11, <2>2, InPlaceFits DEF BuffersFit
<1>12. CASE this' = this /\ that' = that BY <1>12 DEF BuffersFit
<1>13. CASE InPlace(Len(long), Poke(room.chars, 0, Append(long, Nul)))
  <2>1. Len(room.chars) = IF size > Capacity(this) THEN size + 1 ELSE Len(this.chars)
    BY <1>1, RoomIs
  <2>2. Len(room.chars) \in Nat /\ Len(room.chars) <= UintRange
    BY <1>8, <1>9, <2>1, BoundsAre DEF BuffersFit
  <2>. HIDE DEF room, long
  <2>3. Len(Poke(room.chars, 0, Append(long, Nul))) = Len(room.chars) BY <2>2, PokeLen
  <2>. QED BY <1>13, <2>2, <2>3, InPlaceFits
<1>. QED BY <1>8, <1>10, <1>11, <1>12, <1>13

LEMMA FitsStep ==
  ASSUME Stays, BuffersFit, StringsNext
  PROVE  BuffersFit'
<1>1. ASSUME NEW size \in Positions, ReserveMore(size) PROVE BuffersFit'
  <2>1. size \in Nat /\ size < UintRange BY BoundsAre
  <2>2. Len(Reserve(this, size).chars) \in {Len(this.chars), size + 1}
    BY <2>1, ReserveLen DEF Stays
  <2>3. that' = that /\ this' \in {Reserve(this, size), this} BY <1>1 DEF ReserveMore
  <2>4. Len(this'.chars) \in {Len(this.chars), size + 1} BY <2>2, <2>3
  <2>5. Len(this'.chars) <= UintRange BY <2>1, <2>4, BoundsAre DEF BuffersFit
  <2>. QED BY <2>3, <2>5, ThisFits
<1>2. ASSUME NEW left \in Positions, NEW right \in Positions, Substring(left, right) PROVE BuffersFit'
  <2>1. left \in Nat /\ right \in Nat BY BoundsAre
  <2>2. CutOff BY <1>2, <2>1, SubstringKeeps
  <2>3. this' = this BY <1>2 DEF Substring
  <2>. QED BY <2>2, <2>3, CutFits
<1>3. ASSUME NEW loc \in Positions, SetCharAt(loc, 97) PROVE BuffersFit'
  <2>1. loc \in Nat BY BoundsAre
  <2>. QED BY <1>3, <2>1, SetCharAtFits
<1>4. CASE AssignLiteral \/ AssignNull \/ AssignString BY <1>4, AssignsFit
<1>5. CASE ConcatLiteral \/ ConcatString \/ SumHelper BY <1>5, ConcatsFit
<1>6. CASE ToLowerCase \/ ToUpperCase \/ ReplaceChar(97, 32) BY <1>6, CharsFit
<1>7. CASE Trim BY <1>7, TrimFits
<1>. QED BY <1>1, <1>2, <1>3, <1>4, <1>5, <1>6, <1>7, ReplaceFits DEF StringsNext

LEMMA FitsInitially == StringsInit => BuffersFit
<1>. SUFFICES ASSUME StringsInit PROVE BuffersFit OBVIOUS
<1>1. Len(<<Nul>>) = 1 /\ this.chars = <<Nul>> /\ that = Invalid BY DEF StringsInit
<1>2. 1 <= UintRange BY BoundsAre
<1>3. Len(that.chars) = 0 BY <1>1, InvalidIs
<1>. QED BY <1>1, <1>2, <1>3, BoundsAre DEF BuffersFit
-----------------------------------------------------------------------------
(* The remainder of a number that is smaller.                              *)
LEMMA SmallRemainder ==
  ASSUME NEW m \in Nat, NEW x \in 0 .. m - 1
  PROVE  x % m = x
OBVIOUS

\* what the queries of an object look at
ReadsAs(s, a) ==
    /\ a \in Texts /\ PlainText(s) = a /\ s.len = Len(a) /\ Len(a) < UintRange
    /\ Valid(s) => IsString(s, a)
    /\ ~Valid(s) => a = <<>>

LEMMA HasText ==
  ASSUME NEW s, StringInv(s), Len(s.chars) <= UintRange
  PROVE  \E a \in Texts : ReadsAs(s, a)
<1>1. CASE Valid(s)
  <2>1. TextOf(s) \in Texts /\ Len(TextOf(s)) < UintRange /\ Len(TextOf(s)) = s.len
        /\ IsString(s, TextOf(s))
    BY <1>1, TextFits, HaveValues
  <2>2. PlainText(s) = TextOf(s) BY <1>1 DEF PlainText
  <2>. QED BY <1>1, <2>1, <2>2 DEF ReadsAs
<1>2. CASE ~Valid(s)
  <2>1. s = Invalid BY <1>2, HaveValues
  <2>2. s.len = 0 /\ Len(s.chars) = 0 BY <2>1, InvalidIs
  <2>3. PlainText(s) = <<>> BY <1>2 DEF PlainText
  <2>4. 0 < UintRange BY BoundsAre
  <2>5. <<>> \in Texts /\ Len(<<>>) = 0 BY EmptyText
  <2>. QED BY <1>2, <2>2, <2>3, <2>4, <2>5 DEF ReadsAs
<1>. QED BY <1>1, <1>2

LEMMA ReadsAsIs ==
  ASSUME NEW s, NEW a \in Texts, ReadsAs(s, a)
  PROVE  /\ s.len = Len(a) /\ Len(a) \in Nat /\ PlainText(s) = a /\ Len(a) < UintRange
         /\ Valid(s) => /\ TextOf(s) = a /\ s.chars \in Seq(Int) /\ Len(a) < Len(s.chars)
                        /\ s.chars[Len(a) + 1] = Nul
                        /\ \A i \in 1 .. Len(a) : s.chars[i] = a[i]
         /\ ~Valid(s) => a = <<>> /\ Len(a) = 0
<1>1. Len(a) \in Nat BY TextsAreInts
<1>2. ASSUME Valid(s)
      PROVE  /\ TextOf(s) = a /\ s.chars \in Seq(Int) /\ Len(a) < Len(s.chars)
             /\ s.chars[Len(a) + 1] = Nul /\ \A i \in 1 .. Len(a) : s.chars[i] = a[i]
  <2>1. IsString(s, a) BY <1>2 DEF ReadsAs
  <2>. QED BY <2>1, StringIs DEF IsString, Holds
<1>. QED BY <1>1, <1>2, EmptyText DEF ReadsAs

-----------------------------------------------------------------------------
(* How texts compare.                                                      *)

\* the character behind the first n, the terminator behind them all
CharBehind(a, n) == IF n < Len(a) THEN a[n + 1] ELSE Nul

\* the first n characters are the same, and those behind them are not
DifferAt(a, b, n) ==
    /\ n \in Nat /\ n <= Len(a) /\ n <= Len(b)
    /\ \A i \in 1 .. n : a[i] = b[i]
    /\ CharBehind(a, n) # CharBehind(b, n)

Compares(a, b) ==
    \/ a = b /\ StrCmp(a, b) = 0
    \/ \E n : DifferAt(a, b, n) /\ StrCmp(a, b) = CharBehind(a, n) - CharBehind(b, n)

LEMMA CharBehindIs ==
  ASSUME NEW a \in Texts, NEW n \in Nat
  PROVE  /\ CharBehind(a, n) \in Nat /\ (n < Len(a) <=> CharBehind(a, n) # 0)
         /\ n < Len(a) => CharBehind(a, n) = a[n + 1]
         /\ n <= Len(a) => Append(a, Nul)[n + 1] = CharBehind(a, n)
<1>1. Len(a) \in Nat /\ a \in Seq(Int) /\ \A i \in 1 .. Len(a) : a[i] \in Char BY TextsAreInts
<1>2. CASE n < Len(a)
  <2>1. a[n + 1] \in Char /\ n + 1 \in 1 .. Len(a) BY <1>1, <1>2
  <2>2. Append(a, Nul)[n + 1] = a[n + 1] BY <1>1, <2>1 DEF Nul
  <2>3. CharBehind(a, n) = a[n + 1] BY <1>2 DEF CharBehind
  <2>4. a[n + 1] \in Nat /\ a[n + 1] # 0
    <3>1. \A c \in Char : c \in Nat /\ c # 0 BY DEF Char
    <3>. QED BY <2>1, <3>1
  <2>. QED BY <1>2, <2>2, <2>3, <2>4
<1>3. CASE ~(n < Len(a))
  <2>1. Append(a, Nul)[Len(a) + 1] = Nul BY <1>1 DEF Nul
  <2>2. n <= Len(a) => n = Len(a) BY <1>1, <1>3
  <2>. QED BY <1>3, <2>1, <2>2 DEF CharBehind, Nul
<1>. QED BY <1>2, <1>3

LEMMA StrCmpIs ==
  ASSUME NEW a \in Texts, NEW b \in Texts
  PROVE  Compares(a, b)
<1>. DEFINE s == Append(a, Nul)
            t == Append(b, Nul)
            differ == {i \in 1 .. Len(s) : i <= Len(t) /\ s[i] # t[i]}
<1>1. Len(a) \in Nat /\ Len(b) \in Nat /\ a \in Seq(Int) /\ b \in Seq(Int) BY TextsAreInts
<1>2. Len(s) = Len(a) + 1 /\ Len(t) = Len(b) + 1 BY <1>1 DEF Nul
<1>3. /\ \A n \in Nat : n <= Len(a) => s[n + 1] = CharBehind(a, n)
      /\ \A n \in Nat : n <= Len(b) => t[n + 1] = CharBehind(b, n)
  BY CharBehindIs
<1>4. StrCmp(a, b) = IF differ = {} THEN 0 ELSE s[Least(differ)] - t[Least(differ)]
  BY DEF StrCmp
<1>. HIDE DEF s, t
<1>5. ASSUME NEW n \in Nat, n <= Len(a), n <= Len(b)
      PROVE  n + 1 \in differ <=> CharBehind(a, n) # CharBehind(b, n)
  <2>1. s[n + 1] = CharBehind(a, n) /\ t[n + 1] = CharBehind(b, n) BY <1>3, <1>5
  <2>2. n + 1 \in 1 .. Len(s) /\ n + 1 <= Len(t) BY <1>1, <1>2, <1>5
  <2>. QED BY <2>1, <2>2
<1>6. CASE differ = {}
  <2>1. \A n \in Nat : n <= Len(a) /\ n <= Len(b) => CharBehind(a, n) = CharBehind(b, n)
    BY <1>5, <1>6
  <2>2. Len(a) = Len(b)
    <3>1. ASSUME Len(a) < Len(b) PROVE FALSE
      <4>1. CharBehind(a, Len(a)) = 0 BY <1>1, CharBehindIs
      <4>2. CharBehind(b, Len(a)) # 0 BY <1>1, <3>1, CharBehindIs
      <4>3. CharBehind(a, Len(a)) = CharBehind(b, Len(a)) BY <1>1, <2>1, <3>1
      <4>. QED BY <4>1, <4>2, <4>3
    <3>2. ASSUME Len(b) < Len(a) PROVE FALSE
      <4>1. CharBehind(b, Len(b)) = 0 BY <1>1, CharBehindIs
      <4>2. CharBehind(a, Len(b)) # 0 BY <1>1, <3>2, CharBehindIs
      <4>3. CharBehind(a, Len(b)) = CharBehind(b, Len(b)) BY <1>1, <2>1, <3>2, SMTT(30)
      <4>. QED BY <4>1, <4>2, <4>3
    <3>. QED BY <1>1, <3>1, <3>2
  <2>3. ASSUME NEW i \in 1 .. Len(a) PROVE a[i] = b[i]
    <3>1. i - 1 \in Nat /\ i - 1 < Len(a) /\ i - 1 < Len(b) /\ i - 1 + 1 = i BY <1>1, <2>2
    <3>2. CharBehind(a, i - 1) = CharBehind(b, i - 1) BY <2>1, <3>1, <1>1
    <3>3. CharBehind(a, i - 1) = a[i - 1 + 1] /\ CharBehind(b, i - 1) = b[i - 1 + 1] BY <3>1, CharBehindIs
    <3>. QED BY <3>1, <3>2, <3>3
  <2>4. a = b BY <2>2, <2>3, SameText
  <2>. QED BY <1>4, <1>6, <2>4 DEF Compares
<1>7. CASE differ # {}
  <2>1. differ \in SUBSET Nat OBVIOUS
  <2>2. PICK d : d = Least(differ) /\ d \in differ /\ \A i \in differ : d <= i
    BY <1>7, <2>1, LeastIs
  <2>3. d \in Nat /\ d >= 1 /\ d <= Len(a) + 1 /\ d <= Len(b) + 1 BY <1>1, <1>2, <2>2
  <2>. HIDE DEF differ
  <2>4. PICK n \in Nat : d = n + 1 /\ n <= Len(a) /\ n <= Len(b)
    <3>1. d - 1 \in Nat /\ d = d - 1 + 1 /\ d - 1 <= Len(a) /\ d - 1 <= Len(b) BY <1>1, <2>3
    <3>. QED BY <3>1
  <2>5. CharBehind(a, n) # CharBehind(b, n) BY <1>5, <2>2, <2>4
  <2>6. ASSUME NEW i \in 1 .. n PROVE a[i] = b[i]
    <3>1. i - 1 \in Nat /\ i - 1 < Len(a) /\ i - 1 < Len(b) /\ i - 1 + 1 = i /\ ~(d <= i)
      BY <1>1, <2>4
    <3>2. CharBehind(a, i - 1) = CharBehind(b, i - 1)
      <4>1. i - 1 + 1 \notin differ BY <2>2, <3>1
      <4>2. i - 1 <= Len(a) /\ i - 1 <= Len(b) BY <3>1, <1>1
      <4>. QED BY <1>5, <3>1, <4>1, <4>2
    <3>3. CharBehind(a, i - 1) = a[i - 1 + 1] /\ CharBehind(b, i - 1) = b[i - 1 + 1] BY <3>1, CharBehindIs
    <3>. QED BY <3>1, <3>2, <3>3
  <2>7. StrCmp(a, b) = CharBehind(a, n) - CharBehind(b, n) BY <1>3, <1>4, <1>7, <2>2, <2>4
  <2>8. DifferAt(a, b, n) BY <2>4, <2>5, <2>6 DEF DifferAt
  <2>. QED BY <2>7, <2>8 DEF Compares
<1>. QED BY <1>6, <1>7

LEMMA BeforeIs ==
  ASSUME NEW a \in Texts, NEW b \in Texts, NEW n, DifferAt(a, b, n)
  PROVE  Before(a, b) <=> CharBehind(a, n) < CharBehind(b, n)
<1>1. Len(a) \in Nat /\ Len(b) \in Nat /\ n \in Nat /\ n <= Len(a) /\ n <= Len(b)
      /\ \A i \in 1 .. n : a[i] = b[i]
  BY TextsAreInts DEF DifferAt
<1>2. ASSUME NEW m \in Nat, m <= Len(a), m <= Len(b)
      PROVE  SubSeq(a, 1, m) = SubSeq(b, 1, m) <=> \A i \in 1 .. m : a[i] = b[i]
  <2>. DEFINE p == SubSeq(a, 0 + 1, m)
              q == SubSeq(b, 0 + 1, m)
  <2>1. p \in Texts /\ Len(p) = m /\ \A k \in 1 .. m : p[k] = a[k]
    <3>1. p \in Texts /\ Len(p) = (IF 0 <= m THEN m - 0 ELSE 0) /\ \A k \in 1 .. m - 0 : p[k] = a[0 + k]
      BY <1>2, PartIsText
    <3>. HIDE DEF p
    <3>. QED BY <3>1, <1>1
  <2>2. q \in Texts /\ Len(q) = m /\ \A k \in 1 .. m : q[k] = b[k]
    <3>1. q \in Texts /\ Len(q) = (IF 0 <= m THEN m - 0 ELSE 0) /\ \A k \in 1 .. m - 0 : q[k] = b[0 + k]
      BY <1>2, PartIsText
    <3>. HIDE DEF q
    <3>. QED BY <3>1, <1>1
  <2>3. p = SubSeq(a, 1, m) /\ q = SubSeq(b, 1, m) OBVIOUS
  <2>. HIDE DEF p, q
  <2>4. (\A i \in 1 .. m : a[i] = b[i]) => p = q BY <2>1, <2>2, SameText
  <2>5. p = q => \A i \in 1 .. m : a[i] = b[i] BY <2>1, <2>2
  <2>. QED BY <2>3, <2>4, <2>5
<1>3. ASSUME Before(a, b) PROVE CharBehind(a, n) < CharBehind(b, n)
  <2>1. PICK m \in 0 .. Len(a) :
           /\ m <= Len(b) /\ SubSeq(a, 1, m) = SubSeq(b, 1, m)
           /\ m < Len(b) /\ (m = Len(a) \/ a[m + 1] < b[m + 1])
    BY <1>3 DEF Before
  <2>2. m \in Nat /\ m <= Len(a) /\ \A i \in 1 .. m : a[i] = b[i] BY <1>1, <1>2, <2>1
  <2>3. ~(m < n)
    <3>1. ASSUME m < n PROVE FALSE
      <4>1. m + 1 \in 1 .. n BY <2>2, <3>1, <1>1
      <4>2. a[m + 1] = b[m + 1] /\ m # Len(a) BY <4>1, <1>1, <3>1
      <4>3. m + 1 \in 1 .. Len(a) BY <4>1, <1>1
      <4>4. a[m + 1] \in Int BY <4>3, TextsAreInts
      <4>. QED BY <2>1, <4>2, <4>4
    <3>. QED BY <3>1
  <2>4. ~(n < m)
    <3>1. ASSUME n < m PROVE FALSE
      <4>1. n + 1 \in 1 .. m /\ n < Len(a) /\ n < Len(b) BY <2>1, <2>2, <3>1, <1>1
      <4>2. a[n + 1] = b[n + 1] BY <2>2, <4>1
      <4>3. CharBehind(a, n) = a[n + 1] BY <1>1, <4>1, CharBehindIs
      <4>4. CharBehind(b, n) = b[n + 1] BY <1>1, <4>1, CharBehindIs
      <4>5. CharBehind(a, n) = CharBehind(b, n) BY <4>2, <4>3, <4>4
      <4>. QED BY <4>5 DEF DifferAt
    <3>. QED BY <3>1
  <2>5. m = n BY <1>1, <2>2, <2>3, <2>4
  <2>6. CharBehind(b, n) = b[n + 1] /\ CharBehind(b, n) \in Nat /\ CharBehind(b, n) # 0
    BY <1>1, <2>1, <2>5, CharBehindIs
  <2>7. CASE n = Len(a)
    <3>1. CharBehind(a, n) = 0 BY <1>1, <2>7, CharBehindIs
    <3>. QED BY <2>6, <3>1
  <2>8. CASE n # Len(a)
    <3>1. CharBehind(a, n) = a[n + 1] BY <1>1, <2>8, CharBehindIs
    <3>. QED BY <2>1, <2>5, <2>6, <2>8, <3>1
  <2>. QED BY <2>7, <2>8
<1>4. ASSUME CharBehind(a, n) < CharBehind(b, n) PROVE Before(a, b)
  <2>1. CharBehind(a, n) \in Nat /\ CharBehind(b, n) \in Nat BY <1>1, CharBehindIs
  <2>2. CharBehind(b, n) # 0 BY <1>4, <2>1
  <2>3. n < Len(b) /\ CharBehind(b, n) = b[n + 1] BY <1>1, <2>2, CharBehindIs
  <2>4. n # Len(a) => CharBehind(a, n) = a[n + 1] BY <1>1, CharBehindIs
  <2>5. SubSeq(a, 1, n) = SubSeq(b, 1, n) BY <1>1, <1>2
  <2>6. n \in 0 .. Len(a) /\ (n = Len(a) \/ a[n + 1] < b[n + 1]) BY <1>1, <1>4, <2>3, <2>4
  <2>. QED BY <1>1, <2>3, <2>5, <2>6 DEF Before
<1>. QED BY <1>3, <1>4

LEMMA NotBefore ==
  ASSUME NEW a \in Texts
  PROVE  ~Before(a, a)
<1>1. ASSUME NEW m \in 0 .. Len(a), m < Len(a), m = Len(a) \/ a[m + 1] < a[m + 1] PROVE FALSE
  <2>1. m + 1 \in 1 .. Len(a) BY <1>1, TextsAreInts
  <2>2. a[m + 1] \in Int BY <2>1, TextsAreInts
  <2>. QED BY <1>1, <2>2, TextsAreInts
<1>. QED BY <1>1 DEF Before

\* the sign that a comparison has
Orders(a, b, c) == /\ c < 0 <=> Before(a, b)
                   /\ c > 0 <=> Before(b, a)
                   /\ c = 0 <=> a = b

LEMMA StrCmpOrders ==
  ASSUME NEW a \in Texts, NEW b \in Texts
  PROVE  Orders(a, b, StrCmp(a, b))
<1>1. CASE a = b /\ StrCmp(a, b) = 0 BY <1>1, NotBefore DEF Orders
<1>2. ASSUME NEW n, DifferAt(a, b, n), StrCmp(a, b) = CharBehind(a, n) - CharBehind(b, n)
      PROVE  Orders(a, b, StrCmp(a, b))
  <2>1. n \in Nat BY <1>2 DEF DifferAt
  <2>2. CharBehind(a, n) \in Nat /\ CharBehind(b, n) \in Nat BY <2>1, CharBehindIs
  <2>3. Before(a, b) <=> CharBehind(a, n) < CharBehind(b, n) BY <1>2, BeforeIs
  <2>4. DifferAt(b, a, n) BY <1>2 DEF DifferAt
  <2>5. Before(b, a) <=> CharBehind(b, n) < CharBehind(a, n) BY <2>4, BeforeIs
  <2>6. CharBehind(a, n) # CharBehind(b, n) /\ a # b BY <1>2 DEF DifferAt
  <2>7. StrCmp(a, b) < 0 <=> CharBehind(a, n) < CharBehind(b, n) BY <1>2, <2>2
  <2>8. StrCmp(a, b) > 0 <=> CharBehind(b, n) < CharBehind(a, n) BY <1>2, <2>2
  <2>9. StrCmp(a, b) # 0 BY <1>2, <2>2, <2>6
  <2>. QED BY <2>3, <2>5, <2>6, <2>7, <2>8, <2>9 DEF Orders
<1>. QED BY <1>1, <1>2, StrCmpIs DEF Compares
-----------------------------------------------------------------------------
\* which of two objects is before the other
Ordered(s, t, a, b) ==
    /\ CompareTo(s, t) < 0 <=> Before(a, b)
    /\ CompareTo(s, t) > 0 <=> Before(b, a)
    /\ Equals(s, t) <=> a = b
    /\ EqualsText(s, t) <=> a = b
    /\ EqualsIgnoreCase(s, t) <=> LowerText(s) = LowerText(t)

LEMMA EmptyCompared ==
  ASSUME NEW a \in Texts, NEW b \in Texts
  PROVE  /\ Len(a) = 0 /\ Len(b) = 0 => StrCmp(a, b) = 0
         /\ Len(a) = 0 /\ Len(b) > 0 => StrCmp(a, b) = -b[1]
         /\ Len(b) = 0 /\ Len(a) > 0 => StrCmp(a, b) = a[1]
<1>1. Len(a) \in Nat /\ Len(b) \in Nat BY TextsAreInts
<1>2. Compares(a, b) BY StrCmpIs
<1>3. ASSUME Len(a) = 0, Len(b) = 0 PROVE StrCmp(a, b) = 0
  <2>1. a = b BY <1>3, EmptyText
  <2>2. \A n : ~DifferAt(a, b, n) BY <2>1 DEF DifferAt
  <2>. QED BY <1>2, <2>2 DEF Compares
<1>4. ASSUME Len(a) = 0 \/ Len(b) = 0, a # b PROVE StrCmp(a, b) = CharBehind(a, 0) - CharBehind(b, 0)
  <2>1. PICK n : DifferAt(a, b, n) /\ StrCmp(a, b) = CharBehind(a, n) - CharBehind(b, n)
    BY <1>2, <1>4 DEF Compares
  <2>2. n = 0 BY <1>1, <1>4, <2>1 DEF DifferAt
  <2>. QED BY <2>1, <2>2
<1>5. /\ CharBehind(a, 0) \in Nat /\ (Len(a) = 0 => CharBehind(a, 0) = 0)
      /\ (Len(a) > 0 => CharBehind(a, 0) = a[0 + 1])
  BY <1>1, CharBehindIs
<1>6. /\ CharBehind(b, 0) \in Nat /\ (Len(b) = 0 => CharBehind(b, 0) = 0)
      /\ (Len(b) > 0 => CharBehind(b, 0) = b[0 + 1])
  BY <1>1, CharBehindIs
<1>7. ASSUME Len(a) = 0, Len(b) > 0 PROVE StrCmp(a, b) = -b[1]
  <2>1. a # b BY <1>1, <1>7
  <2>2. StrCmp(a, b) = 0 - CharBehind(b, 0) /\ CharBehind(b, 0) = b[1] BY <1>4, <1>5, <1>6, <1>7, <2>1
  <2>. QED BY <1>6, <2>2
<1>8. ASSUME Len(b) = 0, Len(a) > 0 PROVE StrCmp(a, b) = a[1]
  <2>1. a # b BY <1>1, <1>8
  <2>2. StrCmp(a, b) = CharBehind(a, 0) - 0 /\ CharBehind(a, 0) = a[1] BY <1>4, <1>5, <1>6, <1>8, <2>1
  <2>. QED BY <1>5, <2>2
<1>. QED BY <1>3, <1>7, <1>8

LEMMA CompareToIs ==
  ASSUME NEW s, NEW t, NEW a \in Texts, NEW b \in Texts, ReadsAs(s, a), ReadsAs(t, b)
  PROVE  CompareTo(s, t) = StrCmp(a, b)
<1>1. /\ s.len = Len(a) /\ Len(a) \in Nat /\ (~Valid(s) => Len(a) = 0)
      /\ (Valid(s) => TextOf(s) = a /\ \A i \in 1 .. Len(a) : s.chars[i] = a[i])
  BY ReadsAsIs
<1>2. /\ t.len = Len(b) /\ Len(b) \in Nat /\ (~Valid(t) => Len(b) = 0)
      /\ (Valid(t) => TextOf(t) = b /\ \A i \in 1 .. Len(b) : t.chars[i] = b[i])
  BY ReadsAsIs
<1>3. CASE Valid(s) /\ Valid(t) BY <1>1, <1>2, <1>3 DEF CompareTo
<1>4. CASE ~Valid(s) /\ Valid(t) /\ Len(b) > 0
  <2>1. 1 \in 1 .. Len(b) BY <1>2, <1>4
  <2>2. CompareTo(s, t) = -t.chars[1] /\ t.chars[1] = b[1] BY <1>2, <1>4, <2>1 DEF CompareTo
  <2>. QED BY <1>1, <1>4, <2>2, EmptyCompared
<1>5. CASE Valid(s) /\ ~Valid(t) /\ Len(a) > 0
  <2>1. 1 \in 1 .. Len(a) BY <1>1, <1>5
  <2>2. CompareTo(s, t) = s.chars[1] /\ s.chars[1] = a[1] BY <1>1, <1>5, <2>1 DEF CompareTo
  <2>. QED BY <1>2, <1>5, <2>2, EmptyCompared
<1>6. CASE ~(Valid(s) /\ Valid(t)) /\ Len(a) = 0 /\ Len(b) = 0
  <2>1. CompareTo(s, t) = 0 BY <1>1, <1>2, <1>6 DEF CompareTo
  <2>. QED BY <1>6, <2>1, EmptyCompared
<1>. QED BY <1>1, <1>2, <1>3, <1>4, <1>5, <1>6

LEMMA LowerTextIs ==
  ASSUME NEW s, NEW a \in Texts, ReadsAs(s, a)
  PROVE  Len(LowerText(s)) = Len(a) /\ \A i \in 1 .. Len(a) : LowerText(s)[i] = Lower(a[i])
<1>1. PlainText(s) = a /\ Len(a) \in Nat BY ReadsAsIs
<1>. DEFINE c == LowerText(s)
<1>2. c = [i \in 1 .. Len(a) |-> Lower(a[i])] BY <1>1 DEF LowerText
<1>3. \A i \in 1 .. Len(a) : c[i] = Lower(a[i]) BY <1>2
<1>4. c = [i \in 1 .. Len(a) |-> c[i]] BY <1>2
<1>. HIDE DEF c
<1>5. Len(c) = Len(a) BY <1>1, <1>4, LengthIs
<1>. QED BY <1>3, <1>5 DEF c

LEMMA LowerTextsEqual ==
  ASSUME NEW s, NEW t, NEW a \in Texts, NEW b \in Texts, ReadsAs(s, a), ReadsAs(t, b)
  PROVE  LowerText(s) = LowerText(t) <=>
            Len(a) = Len(b) /\ \A i \in 1 .. Len(a) : Lower(a[i]) = Lower(b[i])
<1>1. Len(LowerText(s)) = Len(a) /\ \A i \in 1 .. Len(a) : LowerText(s)[i] = Lower(a[i])
  BY LowerTextIs
<1>2. Len(LowerText(t)) = Len(b) /\ \A i \in 1 .. Len(b) : LowerText(t)[i] = Lower(b[i])
  BY LowerTextIs
<1>3. ASSUME Len(a) = Len(b), \A i \in 1 .. Len(a) : Lower(a[i]) = Lower(b[i])
      PROVE  LowerText(s) = LowerText(t)
  <2>1. LowerText(s) = [i \in 1 .. Len(a) |-> Lower(a[i])]
        /\ LowerText(t) = [i \in 1 .. Len(b) |-> Lower(b[i])]
    BY ReadsAsIs DEF LowerText
  <2>. QED BY <1>3, <2>1
<1>4. ASSUME LowerText(s) = LowerText(t)
      PROVE  Len(a) = Len(b) /\ \A i \in 1 .. Len(a) : Lower(a[i]) = Lower(b[i])
  BY <1>1, <1>2, <1>4
<1>. QED BY <1>3, <1>4

LEMMA OrderedRight ==
  ASSUME NEW s, NEW t, NEW a \in Texts, NEW b \in Texts, ReadsAs(s, a), ReadsAs(t, b)
  PROVE  Ordered(s, t, a, b)
<1>1. CompareTo(s, t) = StrCmp(a, b) BY CompareToIs
<1>2. Orders(a, b, StrCmp(a, b)) BY StrCmpOrders
<1>3. /\ s.len = Len(a) /\ Len(a) \in Nat /\ (~Valid(s) => Len(a) = 0)
      /\ (Valid(s) => TextOf(s) = a /\ \A i \in 1 .. Len(a) : s.chars[i] = a[i])
  BY ReadsAsIs
<1>4. /\ t.len = Len(b) /\ Len(b) \in Nat /\ (~Valid(t) => Len(b) = 0)
      /\ (Valid(t) => TextOf(t) = b /\ \A i \in 1 .. Len(b) : t.chars[i] = b[i])
  BY ReadsAsIs
<1>5. Equals(s, t) <=> a = b BY <1>1, <1>2, <1>3, <1>4 DEF Equals, Orders
<1>6. EqualsText(s, t) <=> a = b
  <2>0. (Len(a) = 0 <=> a = <<>>) /\ (Len(b) = 0 <=> b = <<>>) BY EmptyText
  <2>1. CASE s.len = 0
    <3>1. EqualsText(s, t) <=> ~Valid(t) \/ TextOf(t) = <<>> BY <2>1 DEF EqualsText
    <3>2. EqualsText(s, t) <=> b = <<>> BY <1>4, <2>0, <3>1
    <3>. QED BY <1>3, <2>0, <2>1, <3>2
  <2>2. CASE s.len # 0 /\ ~Valid(t)
    <3>1. EqualsText(s, t) <=> s.chars[1] = Nul BY <2>2 DEF EqualsText
    <3>2. 1 \in 1 .. Len(a) /\ Valid(s) BY <1>3, <2>2
    <3>3. s.chars[1] = a[1] /\ a[1] # Nul BY <1>3, <3>2, TextsAreInts
    <3>. QED BY <1>3, <1>4, <2>0, <2>2, <3>1, <3>3
  <2>3. CASE s.len # 0 /\ Valid(t)
    <3>1. EqualsText(s, t) <=> StrCmp(TextOf(s), TextOf(t)) = 0 BY <2>3 DEF EqualsText
    <3>2. Valid(s) BY <1>3, <2>3
    <3>. QED BY <1>2, <1>3, <1>4, <2>3, <3>1, <3>2 DEF Orders
  <2>. QED BY <2>1, <2>2, <2>3
<1>7. EqualsIgnoreCase(s, t) <=> LowerText(s) = LowerText(t)
  <2>1. LowerText(s) = LowerText(t) <=>
            Len(a) = Len(b) /\ \A i \in 1 .. Len(a) : Lower(a[i]) = Lower(b[i])
    BY LowerTextsEqual
  <2>2. CASE Len(a) # Len(b) BY <1>3, <1>4, <2>1, <2>2 DEF EqualsIgnoreCase
  <2>3. CASE Len(a) = Len(b) /\ Len(a) # 0
    <3>1. Valid(s) /\ Valid(t) BY <1>3, <1>4, <2>3
    <3>2. \A i \in 1 .. Len(a) : s.chars[i] = a[i] /\ t.chars[i] = b[i] BY <1>3, <1>4, <2>3, <3>1
    <3>. QED BY <1>3, <1>4, <2>1, <2>3, <3>2 DEF EqualsIgnoreCase
  <2>4. CASE Len(a) = Len(b) /\ Len(a) = 0
    <3>1. \A i : i \notin 1 .. Len(a) BY <2>4
    <3>2. EqualsIgnoreCase(s, t) BY <1>3, <1>4, <2>4, <3>1 DEF EqualsIgnoreCase
    <3>. QED BY <2>1, <2>4, <3>1, <3>2
  <2>. QED BY <2>2, <2>3, <2>4
<1>. QED BY <1>1, <1>2, <1>5, <1>6, <1>7 DEF Ordered, Orders
-----------------------------------------------------------------------------
LEMMA PlacesAre ==
  ASSUME NEW s, NEW t, NEW a \in Texts, NEW b \in Texts, ReadsAs(s, a), ReadsAs(t, b)
  PROVE  /\ Places(s, t) = {i \in 0 .. Len(a) : At(a, b, i)}
         /\ \A i \in Nat : At(a, b, i) => i + Len(b) <= Len(a) /\ i <= Len(a)
<1>1. PlainText(s) = a /\ PlainText(t) = b /\ Len(a) \in Nat /\ Len(b) \in Nat BY ReadsAsIs
<1>2. a \in Seq(Int) /\ b \in Seq(Int) BY TextsAreInts
<1>3. \A i \in 0 .. Len(a) : Values!OccursAt(a, b, i) <=> At(a, b, i)
  <2>1. \A i \in 0 .. Len(a) : i \in Nat BY <1>1
  <2>. QED BY <1>2, <2>1, OccursIs
<1>4. Places(s, t) = {i \in 0 .. Len(a) : Values!OccursAt(a, b, i)} BY <1>1 DEF Places
<1>5. \A i \in Nat : At(a, b, i) => i + Len(b) <= Len(a) /\ i <= Len(a)
  BY <1>1 DEF At
<1>. QED BY <1>3, <1>4, <1>5

(* What is behind a place, and its beginning.                              *)
LEMMA SuffixIs ==
  ASSUME NEW a \in Texts, NEW o \in Nat, o <= Len(a)
  PROVE  /\ SubSeq(a, o + 1, Len(a)) \in Texts /\ Len(SubSeq(a, o + 1, Len(a))) = Len(a) - o
         /\ \A k \in 1 .. Len(a) - o : SubSeq(a, o + 1, Len(a))[k] = a[o + k]
<1>. DEFINE w == SubSeq(a, o + 1, Len(a))
<1>1. Len(a) \in Nat BY TextsAreInts
<1>2. w \in Texts /\ Len(w) = (IF o <= Len(a) THEN Len(a) - o ELSE 0)
      /\ \A k \in 1 .. Len(a) - o : w[k] = a[o + k]
  BY <1>1, PartIsText
<1>. HIDE DEF w
<1>3. Len(w) = Len(a) - o BY <1>2
<1>. QED BY <1>2, <1>3 DEF w

LEMMA PrefixIs ==
  ASSUME NEW a \in Texts, NEW n \in Nat, n <= Len(a)
  PROVE  /\ SubSeq(a, 1, n) \in Texts /\ Len(SubSeq(a, 1, n)) = n
         /\ \A k \in 1 .. n : SubSeq(a, 1, n)[k] = a[k]
         /\ n = Len(a) => SubSeq(a, 1, n) = a
<1>. DEFINE w == SubSeq(a, 0 + 1, n)
<1>1. Len(a) \in Nat BY TextsAreInts
<1>2. w \in Texts /\ Len(w) = (IF 0 <= n THEN n - 0 ELSE 0) /\ \A k \in 1 .. n - 0 : w[k] = a[0 + k]
  <2>1. 0 \in Nat /\ n \in Nat /\ n <= Len(a) OBVIOUS
  <2>. QED BY <2>1, PartIsText
<1>3. w = SubSeq(a, 1, n) OBVIOUS
<1>. HIDE DEF w
<1>4. Len(w) = n /\ \A k \in 1 .. n : w[k] = a[k] BY <1>2
<1>5. n = Len(a) => w = a BY <1>2, <1>4, SameText
<1>. QED BY <1>2, <1>3, <1>4, <1>5

LEMMA StartsAt ==
  ASSUME NEW a \in Texts, NEW b \in Texts, NEW o \in Nat, o <= Len(a)
  PROVE  StrNCmp(SubSeq(a, o + 1, Len(a)), b, Len(b)) = 0 <=> At(a, b, o)
<1>1. Len(a) \in Nat /\ Len(b) \in Nat BY TextsAreInts
<1>2. PICK w \in Texts : /\ w = SubSeq(a, o + 1, Len(a)) /\ Len(w) = Len(a) - o
                        /\ \A k \in 1 .. Len(a) - o : w[k] = a[o + k]
  BY SuffixIs
<1>3. SubSeq(b, 1, IF Len(b) < Len(b) THEN Len(b) ELSE Len(b)) = b BY <1>1, PrefixIs
<1>4. PICK n \in Nat : n = (IF Len(b) < Len(w) THEN Len(b) ELSE Len(w)) /\ n <= Len(w)
  <2>1. Len(w) \in Nat BY TextsAreInts
  <2>. QED BY <1>1, <2>1
<1>5. PICK u \in Texts : u = SubSeq(w, 1, n) /\ Len(u) = n /\ \A k \in 1 .. n : u[k] = w[k]
  BY <1>4, PrefixIs
<1>6. StrNCmp(w, b, Len(b)) = StrCmp(u, b) BY <1>3, <1>4, <1>5 DEF StrNCmp
<1>7. StrCmp(u, b) = 0 <=> u = b BY StrCmpOrders DEF Orders
<1>8. u = b <=> At(a, b, o)
  <2>1. CASE o + Len(b) <= Len(a)
    <3>1. n = Len(b) /\ n <= Len(a) - o BY <1>1, <1>2, <1>4, <2>1
    <3>2. \A k \in 1 .. n : u[k] = a[o + k] BY <1>1, <1>2, <1>5, <3>1
    <3>3. (\A k \in 1 .. n : a[o + k] = b[k]) => u = b
      <4>1. ASSUME \A k \in 1 .. n : a[o + k] = b[k] PROVE u = b
        <5>1. \A k \in 1 .. Len(u) : u[k] = b[k] BY <1>5, <3>2, <4>1
        <5>2. Len(u) = Len(b) BY <1>5, <3>1
        <5>. QED BY <5>1, <5>2, SameText
      <4>. QED BY <4>1
    <3>. QED BY <2>1, <3>1, <3>2, <3>3 DEF At
  <2>2. CASE ~(o + Len(b) <= Len(a))
    <3>1. n # Len(b) BY <1>1, <1>2, <1>4, <2>2
    <3>. QED BY <1>5, <2>2, <3>1 DEF At
  <2>. QED BY <2>1, <2>2
<1>. QED BY <1>2, <1>6, <1>7, <1>8

LEMMA FromIs ==
  ASSUME NEW s, NEW a \in Texts, ReadsAs(s, a), Valid(s), NEW o
  PROVE  From(s, o) = SubSeq(a, o + 1, Len(a))
BY ReadsAsIs DEF From

LEMMA StartsWithAtIs ==
  ASSUME NEW s, NEW t, NEW a \in Texts, NEW b \in Texts, ReadsAs(s, a), ReadsAs(t, b),
         Valid(s), NEW o \in Nat, o <= Len(a)
  PROVE  StartsWithAt(s, t, o) <=> Valid(t) /\ At(a, b, o)
<1>1. s.len = Len(a) /\ Len(a) \in Nat /\ Len(a) < UintRange BY ReadsAsIs
<1>2. t.len = Len(b) /\ Len(b) \in Nat /\ (Valid(t) => TextOf(t) = b) BY ReadsAsIs
<1>3. From(s, o) = SubSeq(a, o + 1, Len(a)) BY FromIs
<1>4. StrNCmp(From(s, o), b, Len(b)) = 0 <=> At(a, b, o) BY <1>3, StartsAt
<1>5. At(a, b, o) => o <= (s.len - t.len) % UintRange
  <2>1. ASSUME At(a, b, o) PROVE o <= (s.len - t.len) % UintRange
    <3>1. o + Len(b) <= Len(a) BY <2>1 DEF At
    <3>2. PICK x \in 0 .. UintRange - 1 : x = s.len - t.len /\ o <= x
      <4>1. s.len - t.len \in 0 .. UintRange - 1 /\ o <= s.len - t.len
        BY <1>1, <1>2, <3>1, BoundsAre
      <4>. QED BY <4>1
    <3>3. x % UintRange = x BY BoundsAre, SmallRemainder
    <3>. QED BY <3>2, <3>3
  <2>. QED BY <2>1
<1>. QED BY <1>2, <1>4, <1>5 DEF StartsWithAt

LEMMA EndsWithIs ==
  ASSUME NEW s, NEW t, NEW a \in Texts, NEW b \in Texts, ReadsAs(s, a), ReadsAs(t, b)
  PROVE  EndsWith(s, t) <=> Valid(s) /\ Valid(t) /\ Len(a) - Len(b) \in Places(s, t)
<1>1. s.len = Len(a) /\ Len(a) \in Nat BY ReadsAsIs
<1>2. t.len = Len(b) /\ Len(b) \in Nat /\ (Valid(t) => TextOf(t) = b) BY ReadsAsIs
<1>3. Places(s, t) = {i \in 0 .. Len(a) : At(a, b, i)} BY PlacesAre
<1>4. CASE ~(Len(a) >= Len(b))
  <2>1. Len(a) - Len(b) \notin 0 .. Len(a) BY <1>1, <1>2, <1>4
  <2>. QED BY <1>1, <1>2, <1>3, <1>4, <2>1 DEF EndsWith
<1>5. CASE Len(a) >= Len(b) /\ Valid(s) /\ Valid(t)
  <2>1. PICK d \in Nat : d = Len(a) - Len(b) /\ d <= Len(a) /\ d + Len(b) = Len(a)
    <3>1. Len(a) - Len(b) \in Nat /\ Len(a) - Len(b) <= Len(a) /\ Len(a) - Len(b) + Len(b) = Len(a)
      BY <1>1, <1>2, <1>5
    <3>. QED BY <3>1
  <2>2. PICK w \in Texts : /\ w = SubSeq(a, d + 1, Len(a)) /\ Len(w) = Len(a) - d
                          /\ \A k \in 1 .. Len(a) - d : w[k] = a[d + k]
    BY <2>1, SuffixIs
  <2>3. From(s, d) = w BY <1>5, <2>2, FromIs
  <2>4. EndsWith(s, t) <=> StrCmp(w, b) = 0 BY <1>1, <1>2, <1>5, <2>1, <2>3 DEF EndsWith
  <2>5. StrCmp(w, b) = 0 <=> w = b BY StrCmpOrders DEF Orders
  <2>6. Len(w) = Len(b) /\ Len(a) - d = Len(b) BY <1>1, <1>2, <2>1, <2>2
  <2>7. w = b <=> At(a, b, d)
    <3>1. (\A k \in 1 .. Len(b) : w[k] = b[k]) => w = b BY <2>6, SameText
    <3>2. \A k \in 1 .. Len(b) : w[k] = a[d + k] BY <2>2, <2>6
    <3>3. d + Len(b) <= Len(a) BY <1>1, <2>1
    <3>. QED BY <3>1, <3>2, <3>3 DEF At
  <2>8. d \in 0 .. Len(a) BY <1>1, <2>1
  <2>. QED BY <1>3, <1>5, <2>1, <2>4, <2>5, <2>7, <2>8
<1>6. CASE Len(a) >= Len(b) /\ ~(Valid(s) /\ Valid(t)) BY <1>6 DEF EndsWith
<1>. QED BY <1>4, <1>5, <1>6

LEMMA StartsWithIs ==
  ASSUME NEW s, NEW t, NEW a \in Texts, NEW b \in Texts, ReadsAs(s, a), ReadsAs(t, b)
  PROVE  StartsWith(s, t) <=> Valid(s) /\ Valid(t) /\ 0 \in Places(s, t)
<1>1. s.len = Len(a) /\ Len(a) \in Nat BY ReadsAsIs
<1>2. t.len = Len(b) /\ Len(b) \in Nat BY ReadsAsIs
<1>3. Places(s, t) = {i \in 0 .. Len(a) : At(a, b, i)} BY PlacesAre
<1>4. 0 \in Places(s, t) <=> At(a, b, 0) BY <1>1, <1>3
<1>5. At(a, b, 0) => s.len >= t.len BY <1>1, <1>2 DEF At
<1>6. CASE Valid(s)
  <2>1. StartsWithAt(s, t, 0) <=> Valid(t) /\ At(a, b, 0) BY <1>1, <1>6, StartsWithAtIs
  <2>. QED BY <1>4, <1>5, <1>6, <2>1 DEF StartsWith
<1>7. CASE ~Valid(s) BY <1>7 DEF StartsWith, StartsWithAt
<1>. QED BY <1>6, <1>7
-----------------------------------------------------------------------------
LEMMA CharAtIs ==
  ASSUME NEW s, NEW a \in Texts, ReadsAs(s, a), NEW from \in Nat
  PROVE  CharAt(s, from) # Nul <=> from < Len(a)
<1>1. /\ s.len = Len(a) /\ Len(a) \in Nat /\ (~Valid(s) => Len(a) = 0)
      /\ (Valid(s) => \A i \in 1 .. Len(a) : s.chars[i] = a[i])
  BY ReadsAsIs
<1>2. CASE from < Len(a)
  <2>1. Valid(s) /\ from + 1 \in 1 .. Len(a) BY <1>1, <1>2
  <2>2. CharAt(s, from) = s.chars[from + 1] BY <1>1, <1>2, <2>1 DEF CharAt
  <2>3. s.chars[from + 1] = a[from + 1] /\ a[from + 1] # Nul BY <1>1, <2>1, TextsAreInts
  <2>. QED BY <1>2, <2>2, <2>3
<1>3. CASE ~(from < Len(a)) BY <1>1, <1>3 DEF CharAt
<1>. QED BY <1>2, <1>3

LEMMA HoldsPart ==
  ASSUME NEW a \in Texts, NEW c \in Seq(Int), NEW i \in Nat, NEW n \in Nat, i + n <= Len(a),
         Len(a) < Len(c), \A k \in 1 .. Len(a) : c[k] = a[k]
  PROVE  /\ Len(Append(SubSeq(c, i + 1, i + n), Nul)) = n + 1
         /\ CString(Append(SubSeq(c, i + 1, i + n), Nul)) = SubSeq(a, i + 1, i + n)
<1>0. Len(a) \in Nat /\ Len(c) \in Nat BY TextsAreInts
<1>1. PICK j \in Nat : j = i + n /\ j <= Len(a) /\ j - i = n /\ i <= j /\ j <= Len(c)
  <2>1. i + n \in Nat /\ i + n - i = n /\ i <= i + n /\ i + n <= Len(c) BY <1>0
  <2>. QED BY <2>1
<1>. DEFINE p == SubSeq(c, i + 1, j)
            u == SubSeq(a, i + 1, j)
<1>2. p \in Seq(Int) /\ Len(p) = n /\ \A k \in 1 .. n : p[k] = c[i + k] BY <1>1, PartIs
<1>3. u \in Texts /\ Len(u) = n /\ \A k \in 1 .. n : u[k] = a[i + k] BY <1>1, PartIsText
<1>. HIDE DEF p, u
<1>4. \A k \in 1 .. n : p[k] = u[k]
  <2>1. ASSUME NEW k \in 1 .. n PROVE p[k] = u[k]
    <3>1. i + k \in 1 .. Len(a) BY <1>0
    <3>. QED BY <1>2, <1>3, <3>1
  <2>. QED BY <2>1
<1>. DEFINE q == Append(p, Nul)
<1>5. q \in Seq(Int) /\ Len(q) = n + 1 /\ q[n + 1] = Nul /\ \A k \in 1 .. n : q[k] = p[k]
  BY <1>2 DEF Nul
<1>. HIDE DEF q
<1>6. Holds(q, u)
  <2>1. \A k \in 1 .. Len(u) : q[k] = u[k] BY <1>3, <1>4, <1>5
  <2>2. Len(u) < Len(q) /\ q[Len(u) + 1] = Nul BY <1>3, <1>5
  <2>. QED BY <1>3, <1>5, <2>1, <2>2 DEF Holds
<1>7. CString(q) = u BY <1>6, HeldText
<1>. QED BY <1>1, <1>5, <1>7 DEF p, q, u

\* as many characters as there are, or as there is room for
Taken(len, from, size) == IF size - 1 > len - from THEN len - from ELSE size - 1

LEMMA TakenIs ==
  ASSUME NEW len \in Nat, NEW from \in Nat, NEW size \in Nat, size >= 1, from < len
  PROVE  /\ Taken(len, from, size) \in Nat /\ from + Taken(len, from, size) <= len
         /\ Taken(len, from, size) + 1 <= size
         /\ from + Taken(len, from, size) = IF from + size - 1 < len THEN from + size - 1 ELSE len
<1>1. CASE size - 1 > len - from BY <1>1 DEF Taken
<1>2. CASE ~(size - 1 > len - from) BY <1>2 DEF Taken
<1>. QED BY <1>1, <1>2

LEMMA GetBytesGives ==
  ASSUME NEW s, NEW a \in Texts, ReadsAs(s, a), NEW size \in Nat, size >= 1, NEW from \in Nat
  PROVE  GivesBytes(s, a, size, from)
<1>1. /\ s.len = Len(a) /\ Len(a) \in Nat /\ (~Valid(s) => Len(a) = 0)
      /\ (Valid(s) => /\ s.chars \in Seq(Int) /\ Len(a) < Len(s.chars)
                      /\ \A i \in 1 .. Len(a) : s.chars[i] = a[i])
  BY ReadsAsIs
<1>2. CASE from >= Len(a)
  <2>1. GetBytes(s, size, from) = <<Nul>> BY <1>1, <1>2 DEF GetBytes
  <2>2. Holds(<<Nul>>, <<>>)
    <3>1. <<Nul>> \in Seq(Int) /\ Len(<<Nul>>) = 1 /\ <<Nul>>[1] = Nul BY DEF Nul
    <3>. QED BY <3>1, EmptyText DEF Holds
  <2>3. CString(<<Nul>>) = <<>> BY <2>2, HeldText
  <2>4. PICK e \in Nat : /\ e = (IF from + size - 1 < Len(a) THEN from + size - 1 ELSE Len(a))
                         /\ e <= Len(a) /\ e <= from
    BY <1>1, <1>2
  <2>5. SubSeq(a, from + 1, e) \in Texts
        /\ Len(SubSeq(a, from + 1, e)) = (IF from <= e THEN e - from ELSE 0)
    BY <2>4, PartIsText
  <2>6. Len(SubSeq(a, from + 1, e)) = 0 BY <2>4, <2>5
  <2>7. SubSeq(a, from + 1, e) = <<>> BY <2>5, <2>6, EmptyText
  <2>8. Len(<<Nul>>) <= size OBVIOUS
  <2>. QED BY <2>1, <2>3, <2>4, <2>7, <2>8 DEF GivesBytes
<1>3. CASE ~(from >= Len(a))
  <2>1. Valid(s) BY <1>1, <1>3
  <2>2. PICK n \in Nat :
           /\ n = Taken(s.len, from, size) /\ from + n <= Len(a) /\ n + 1 <= size
           /\ from + n = IF from + size - 1 < Len(a) THEN from + size - 1 ELSE Len(a)
    <3>1. from < Len(a) /\ Len(a) \in Nat /\ s.len = Len(a) BY <1>1, <1>3
    <3>2. /\ Taken(Len(a), from, size) \in Nat /\ from + Taken(Len(a), from, size) <= Len(a)
          /\ Taken(Len(a), from, size) + 1 <= size
          /\ from + Taken(Len(a), from, size) =
                IF from + size - 1 < Len(a) THEN from + size - 1 ELSE Len(a)
      BY <3>1, TakenIs
    <3>. QED BY <3>1, <3>2
  <2>3. GetBytes(s, size, from) = Append(SubSeq(s.chars, from + 1, from + n), Nul)
    <3>1. size # 0 /\ ~(from >= s.len) BY <1>1, <1>3
    <3>. QED BY <2>2, <3>1 DEF GetBytes, Taken
  <2>4. PICK c \in Seq(Int) : /\ c = s.chars /\ Len(a) < Len(c)
                              /\ \A i \in 1 .. Len(a) : c[i] = a[i]
    BY <1>1, <2>1
  <2>5. /\ Len(Append(SubSeq(c, from + 1, from + n), Nul)) = n + 1
        /\ CString(Append(SubSeq(c, from + 1, from + n), Nul)) = SubSeq(a, from + 1, from + n)
    BY <2>2, <2>4, HoldsPart, ZenonT(30)
  <2>. QED BY <2>2, <2>3, <2>4, <2>5 DEF GivesBytes
<1>. QED BY <1>2, <1>3

LEMMA IndexOfIs ==
  ASSUME NEW s, NEW t, NEW a \in Texts, NEW b \in Texts, ReadsAs(s, a), ReadsAs(t, b),
         Valid(s), Valid(t), NEW from \in Nat, from < Len(a)
  PROVE  IndexOf(s, t, from) = FirstOf({i \in Places(s, t) : i >= from})
<1>1. s.len = Len(a) /\ TextOf(s) = a /\ TextOf(t) = b /\ Len(a) \in Nat BY ReadsAsIs
<1>2. /\ Places(s, t) = {i \in 0 .. Len(a) : At(a, b, i)}
      /\ \A i \in Nat : At(a, b, i) => i + Len(b) <= Len(a) /\ i <= Len(a)
  BY PlacesAre
<1>3. /\ \A i \in Occurrences(a, b) : i \in Nat
      /\ \A i \in Nat : i \in Occurrences(a, b) <=> At(a, b, i)
  BY OccurrencesNat, OccursIs, TextsAreInts
<1>4. {i \in Occurrences(a, b) : i >= from} = {i \in Places(s, t) : i >= from}
  <2>1. ASSUME NEW i PROVE i \in Occurrences(a, b) <=> i \in Places(s, t)
    <3>1. i \in 0 .. Len(a) => i \in Nat BY <1>1
    <3>2. i \in Nat /\ At(a, b, i) => i \in 0 .. Len(a) BY <1>1, <1>2
    <3>. QED BY <1>2, <1>3, <3>1, <3>2
  <2>. QED BY <2>1
<1>5. ~(from >= s.len) BY <1>1
<1>. QED BY <1>1, <1>4, <1>5 DEF IndexOf, FirstOf

\* the first place from one on where there is a character, and the last up to it
FoundChar(s, a, c, from) ==
    /\ IndexOfChar(s, c, from) = FirstOf({i \in from .. Len(a) - 1 : a[i + 1] = c})
    /\ LastIndexOfChar(s, c, from) = LastOf({i \in 0 .. from : a[i + 1] = c})

LEMMA IndexOfCharIs ==
  ASSUME NEW s, NEW a \in Texts, ReadsAs(s, a), Valid(s), NEW from \in Nat, from < Len(a), NEW c \in Int
  PROVE  FoundChar(s, a, c, from)
<1>1. s.len = Len(a) /\ Len(a) \in Nat /\ s.chars \in Seq(Int) /\ Len(a) < Len(s.chars)
      /\ Len(s.chars) \in Nat /\ \A i \in 1 .. Len(a) : s.chars[i] = a[i]
  <2>1. s.chars \in Seq(Int) BY ReadsAsIs
  <2>2. Len(s.chars) \in Nat BY <2>1
  <2>. QED BY <2>1, <2>2, ReadsAsIs
<1>2. ~(from >= s.len) BY <1>1
<1>3. {i \in from .. s.len - 1 : s.chars[i + 1] = c} = {i \in from .. Len(a) - 1 : a[i + 1] = c}
  <2>1. ASSUME NEW i \in from .. Len(a) - 1 PROVE s.chars[i + 1] = a[i + 1]
    <3>1. i + 1 \in 1 .. Len(a) BY <1>1
    <3>. QED BY <1>1, <3>1
  <2>. QED BY <1>1, <2>1
<1>. DEFINE text == SubSeq(s.chars, 1, from + 1)
<1>4. Len(text) = from + 1 /\ \A k \in 1 .. from + 1 : text[k] = s.chars[k]
  <2>. DEFINE p == SubSeq(s.chars, 0 + 1, from + 1)
  <2>1. from + 1 \in Nat /\ 0 \in Nat /\ from + 1 <= Len(s.chars) BY <1>1
  <2>2. Len(p) = (IF 0 <= from + 1 THEN from + 1 - 0 ELSE 0)
        /\ \A k \in 1 .. from + 1 - 0 : p[k] = s.chars[0 + k]
    BY <1>1, <2>1, PartIs
  <2>3. p = text OBVIOUS
  <2>. HIDE DEF p, text
  <2>4. Len(p) = from + 1 /\ \A k \in 1 .. from + 1 : p[k] = s.chars[k] BY <1>1, <2>2
  <2>. QED BY <2>3, <2>4
<1>5. {i \in 0 .. Len(text) - 1 : text[i + 1] = c} = {i \in 0 .. from : a[i + 1] = c}
  <2>. HIDE DEF text
  <2>1. Len(text) - 1 = from BY <1>4
  <2>2. ASSUME NEW i \in 0 .. from PROVE text[i + 1] = a[i + 1]
    <3>1. i + 1 \in 1 .. Len(a) /\ i + 1 \in 1 .. from + 1 BY <1>1
    <3>. QED BY <1>1, <1>4, <3>1
  <2>. QED BY <2>1, <2>2
<1>6. IndexOfChar(s, c, from) = FirstOf({i \in from .. Len(a) - 1 : a[i + 1] = c})
  BY <1>2, <1>3 DEF IndexOfChar, FirstOf
<1>7. LastIndexOfChar(s, c, from) = LastOf({i \in 0 .. from : a[i + 1] = c})
  BY <1>2, <1>5 DEF LastIndexOfChar, LastOf
<1>. QED BY <1>6, <1>7 DEF FoundChar
-----------------------------------------------------------------------------
(* strstr from one place after another: the last place up to one.          *)

\* last is the last place before p, and up to from, where f occurs
LastBefore(t, f, from, p, last) ==
    /\ last = NotFound \/ (last \in Nat /\ last <= from /\ last < p /\ At(t, f, last))
    /\ \A i \in Nat : i <= from /\ i < p /\ At(t, f, i) => last # NotFound /\ i <= last

Searching(t, f, from) ==
    {s \in [p : Nat, last : Int] : s.p <= Len(t) /\ LastBefore(t, f, from, s.p, s.last)}

LEMMA SearchOn ==
  ASSUME NEW t \in Texts, NEW f \in Texts, Len(f) >= 1, NEW from \in Nat,
         NEW s \in Searching(t, f, from)
  PROVE  /\ LastRound(s, t, f, from) \in Searching(t, f, from)
         /\ s.p <= from /\ FoundFrom(t, f, s.p) # {} => LastRound(s, t, f, from).p > s.p
<1>. DEFINE found == FoundFrom(t, f, s.p)
<1>1. CASE s.p > from \/ found = {}
  <2>1. LastRound(s, t, f, from) = s BY <1>1 DEF LastRound
  <2>2. s.p \in Nat BY DEF Searching
  <2>. QED BY <1>1, <2>1, <2>2
<1>2. CASE ~(s.p > from) /\ found # {}
  <2>1. PICK p \in Nat, last \in Int : p = s.p /\ last = s.last BY DEF Searching
  <2>2. LastBefore(t, f, from, p, last) BY <2>1 DEF Searching
  <2>3. t \in Seq(Int) /\ f \in Seq(Int) /\ Len(t) \in Nat /\ Len(f) \in Nat BY TextsAreInts
  <2>4. PICK at \in Nat : at = Least(found) /\ at >= p /\ At(t, f, at)
                          /\ \A i \in p .. at - 1 : ~At(t, f, i)
    <3>1. FoundFrom(t, f, p) # {} BY <1>2, <2>1
    <3>2. LET k == Least(FoundFrom(t, f, p))
          IN  k \in Nat /\ k >= p /\ At(t, f, k) /\ \A i \in p .. k - 1 : ~At(t, f, i)
      BY <2>3, <3>1, FirstFound
    <3>. QED BY <2>1, <3>2
  <2>5. PICK new \in Int : new = IF at <= from THEN at ELSE last BY <2>4
  <2>6. LastRound(s, t, f, from) = [p |-> at + 1, last |-> new]
    BY <1>2, <2>1, <2>4, <2>5 DEF LastRound
  <2>7. at + 1 <= Len(t) BY <2>3, <2>4 DEF At
  <2>8. ASSUME NEW i \in Nat, i <= from, i < at + 1, At(t, f, i)
        PROVE  new # NotFound /\ i <= new
    <3>1. CASE i < p
      <4>1. last # NotFound /\ i <= last BY <2>2, <2>8, <3>1 DEF LastBefore
      <4>2. CASE at <= from
        <5>1. new = at BY <2>5, <4>2
        <5>. QED BY <2>4, <2>8, <5>1 DEF NotFound
      <4>3. CASE ~(at <= from) BY <2>5, <4>1, <4>3
      <4>. QED BY <4>2, <4>3
    <3>2. CASE ~(i < p)
      <4>1. i = at
        <5>1. i \notin p .. at - 1 BY <2>4, <2>8
        <5>. QED BY <2>8, <3>2, <5>1
      <4>. QED BY <2>5, <2>8, <4>1 DEF NotFound
    <3>. QED BY <3>1, <3>2
  <2>9. new = NotFound \/ (new \in Nat /\ new <= from /\ new < at + 1 /\ At(t, f, new))
    <3>1. CASE at <= from BY <2>4, <2>5, <3>1
    <3>2. CASE ~(at <= from)
      <4>1. new = last BY <2>5, <3>2
      <4>2. last = NotFound \/ (last \in Nat /\ last <= from /\ last < p /\ At(t, f, last))
        BY <2>2 DEF LastBefore
      <4>. QED BY <2>4, <4>1, <4>2
    <3>. QED BY <3>1, <3>2
  <2>10. LastBefore(t, f, from, at + 1, new) BY <2>8, <2>9 DEF LastBefore
  <2>11. LastRound(s, t, f, from) \in Searching(t, f, from)
    <3>. DEFINE n == [p |-> at + 1, last |-> new]
    <3>1. n \in [p : Nat, last : Int] /\ n.p = at + 1 /\ n.last = new BY <2>4, <2>5
    <3>. HIDE DEF n
    <3>2. n \in Searching(t, f, from) BY <2>7, <2>10, <3>1 DEF Searching
    <3>. QED BY <2>6, <3>2 DEF n
  <2>12. LastRound(s, t, f, from).p > s.p BY <2>1, <2>4, <2>6
  <2>. QED BY <2>11, <2>12
<1>. QED BY <1>1, <1>2

(* The whole loop.                                                         *)
LEMMA LastFromIs ==
  ASSUME NEW t \in Texts, NEW f \in Texts, Len(f) >= 1, NEW from \in Nat
  PROVE  LastFrom(t, f, from) \in Int /\ LastBefore(t, f, from, from + 1, LastFrom(t, f, from))
<1>. DEFINE N == Len(t)
            V == Searching(t, f, from)
            b == [p |-> 0, last |-> NotFound]
            step == [s \in V |-> LastRound(s, t, f, from)]
            place == [s \in V |-> s.p]
            F(g) == [n \in Nat |-> IF n = 0 THEN b ELSE LastRound(g[n - 1], t, f, from)]
            a == CHOOSE g : g = F(g)
<1>1. N \in Nat /\ t \in Seq(Int) /\ f \in Seq(Int) BY TextsAreInts
<1>2. b \in V
  <2>1. b \in [p : Nat, last : Int] /\ b.p = 0 /\ b.last = NotFound BY DEF NotFound
  <2>2. LastBefore(t, f, from, 0, NotFound) BY DEF LastBefore
  <2>. HIDE DEF b
  <2>. QED BY <1>1, <2>1, <2>2 DEF Searching
<1>3. step \in [V -> V]
  <2>1. \A s \in V : LastRound(s, t, f, from) \in V BY SearchOn
  <2>. HIDE DEF V
  <2>. QED BY <2>1
<1>. HIDE DEF V, b
<1>4. a = F(a)
  <2>1. PICK g \in [Nat -> V] : g[0] = b /\ \A n \in Nat : g[n + 1] = step[g[n]]
    <3>. HIDE DEF step
    <3>1. HasRounds(V, b, step) BY <1>2, <1>3, RoundsExist
    <3>. QED BY <3>1 DEF HasRounds
  <2>2. \A n \in Nat : n # 0 => g[n] = LastRound(g[n - 1], t, f, from)
    <3>1. ASSUME NEW n \in Nat, n # 0 PROVE g[n] = LastRound(g[n - 1], t, f, from)
      <4>1. n - 1 \in Nat /\ n - 1 + 1 = n BY <3>1
      <4>2. g[n - 1] \in V /\ g[n] = step[g[n - 1]] BY <4>1, <2>1
      <4>. QED BY <4>2
    <3>. QED BY <3>1
  <2>3. g = [n \in Nat |-> g[n]] BY <2>1
  <2>4. \A n \in Nat : g[n] = F(g)[n] BY <2>1, <2>2
  <2>5. F(g) = [n \in Nat |-> F(g)[n]] OBVIOUS
  <2>. HIDE DEF F
  <2>6. g = F(g) BY <2>3, <2>4, <2>5
  <2>. QED BY <2>6
<1>. HIDE DEF a
<1>5. Ends(V, b, step, N, a[N])
  <2>1. \A n \in Nat : a[n] = F(a)[n] BY <1>4
  <2>2. F(a) = [n \in Nat |-> F(a)[n]] OBVIOUS
  <2>3. F(a)[0] = b OBVIOUS
  <2>4. \A n \in Nat : F(a)[n + 1] = LastRound(a[n], t, f, from) OBVIOUS
  <2>. HIDE DEF F
  <2>5. a = [n \in Nat |-> a[n]] BY <2>1, <2>2, <1>4
  <2>6. a[0] = b BY <2>1, <2>3
  <2>7. \A n \in Nat : a[n] \in V => a[n + 1] = step[a[n]] BY <2>1, <2>4
  <2>. HIDE DEF step
  <2>. QED BY <1>1, <1>2, <1>3, <2>5, <2>6, <2>7, LoopRuns
<1>. DEFINE e == a[N]
<1>6. \A s \in V : s \in [p : Nat, last : Int] /\ s.p <= N /\ s.p \in Nat
  BY DEF V, Searching
<1>7. Moves(V, step, place)
  <2>1. ASSUME NEW s \in V PROVE step[s] = s \/ place[step[s]] > place[s]
    <3>1. step[s] = LastRound(s, t, f, from) /\ step[s] \in V BY <1>3
    <3>2. s.p <= from /\ FoundFrom(t, f, s.p) # {} => step[s].p > s.p
      BY <3>1, SearchOn DEF V
    <3>3. s.p > from \/ FoundFrom(t, f, s.p) = {} => step[s] = s BY <3>1 DEF LastRound
    <3>4. s.p \in Nat BY <1>6
    <3>. QED BY <3>1, <3>2, <3>3, <3>4
  <2>. QED BY <2>1 DEF Moves
<1>8. e \in V /\ step[e] = e
  <2>1. place \in [V -> Int] /\ place[b] >= 0 BY <1>2, <1>6 DEF b
  <2>2. Stops(V, step, place, N)
    <3>1. ASSUME NEW s \in V, place[s] >= N PROVE step[s] = s
      <4>1. step[s] = LastRound(s, t, f, from) /\ step[s] \in V BY <1>3
      <4>2. step[s].p <= N /\ s.p >= N /\ s.p \in Nat /\ step[s].p \in Nat
        BY <3>1, <4>1, <1>6
      <4>3. ~(step[s].p > s.p) BY <4>2, <1>1
      <4>4. ~(s.p <= from /\ FoundFrom(t, f, s.p) # {}) BY <4>1, <4>3, SearchOn DEF V
      <4>5. s.p > from \/ FoundFrom(t, f, s.p) = {} BY <4>2, <4>4
      <4>. QED BY <4>1, <4>5 DEF LastRound
    <3>. QED BY <3>1 DEF Stops
  <2>. HIDE DEF step, place
  <2>. QED BY <1>1, <1>5, <1>7, <2>1, <2>2, LoopEnds
<1>9. LastFrom(t, f, from) = e.last BY DEF LastFrom, a, b, N
<1>. HIDE DEF e
<1>10. PICK p \in Nat, last \in Int : p = e.p /\ last = e.last
  BY <1>6, <1>8
<1>11. LastBefore(t, f, from, p, last) BY <1>8, <1>10 DEF V, Searching
<1>12. p > from \/ FoundFrom(t, f, p) = {}
  <2>1. LastRound(e, t, f, from) = e BY <1>8
  <2>2. ~(e.p > e.p) BY <1>10
  <2>3. ~(e.p <= from /\ FoundFrom(t, f, e.p) # {}) BY <2>1, <2>2, <1>8, SearchOn DEF V
  <2>. QED BY <1>10, <2>3
<1>13. \A i \in Nat : i <= from /\ At(t, f, i) => i < p
  <2>1. CASE p > from BY <2>1
  <2>2. CASE FoundFrom(t, f, p) = {}
    <3>1. \A i \in Nat : i >= p => ~At(t, f, i) BY <1>1, <2>2, NoneFound
    <3>. QED BY <3>1
  <2>. QED BY <1>12, <2>1, <2>2
<1>14. LastBefore(t, f, from, from + 1, last)
  <2>1. last = NotFound \/ (last \in Nat /\ last <= from /\ last < from + 1 /\ At(t, f, last))
    BY <1>11 DEF LastBefore
  <2>2. \A i \in Nat : i <= from /\ i < from + 1 /\ At(t, f, i) => last # NotFound /\ i <= last
    BY <1>11, <1>13 DEF LastBefore
  <2>. QED BY <2>1, <2>2 DEF LastBefore
<1>. QED BY <1>9, <1>10, <1>14

LEMMA LastOfIs ==
  ASSUME NEW t \in Texts, NEW f \in Texts, NEW from \in Nat, NEW last \in Int,
         LastBefore(t, f, from, from + 1, last)
  PROVE  last = LastOf({i \in Nat : i <= from /\ At(t, f, i)})
<1>. DEFINE T == {i \in Nat : i <= from /\ At(t, f, i)}
<1>1. T \in SUBSET Int /\ \A i \in T : i <= from /\ i < from + 1 OBVIOUS
<1>2. CASE last = NotFound
  <2>1. \A i : i \notin T BY <1>1, <1>2 DEF LastBefore
  <2>2. T = {} BY <2>1
  <2>. HIDE DEF T
  <2>. QED BY <1>2, <2>2 DEF LastOf, T
<1>3. CASE last # NotFound
  <2>1. last \in T /\ \A i \in T : i <= last BY <1>3 DEF LastBefore
  <2>. HIDE DEF T
  <2>2. T # {} BY <2>1
  <2>3. from \in Int /\ T \in SUBSET Int BY <1>1
  <2>6. \A i \in T : i <= from BY <1>1
  <2>4. Largest(T) \in T /\ \A i \in T : Largest(T) >= i BY <2>2, <2>3, <2>6, LargestIs
  <2>5. Largest(T) = last
    <3>1. Largest(T) \in Int /\ last \in T BY <2>1, <2>3, <2>4
    <3>2. Largest(T) <= last /\ Largest(T) >= last BY <2>1, <2>4
    <3>. QED BY <3>1, <3>2
  <2>. QED BY <2>2, <2>5 DEF LastOf, T
<1>. QED BY <1>2, <1>3

LEMMA LastIndexOfIs ==
  ASSUME NEW s, NEW t, NEW a \in Texts, NEW b \in Texts, ReadsAs(s, a), ReadsAs(t, b),
         Valid(s), Valid(t), NEW from \in Nat, from < Len(a), b # <<>>
  PROVE  LastIndexOf(s, t, from) = LastOf({i \in Places(s, t) : i <= from})
<1>1. /\ s.len = Len(a) /\ TextOf(s) = a /\ Len(a) \in Nat
      /\ t.len = Len(b) /\ TextOf(t) = b /\ Len(b) \in Nat
  BY ReadsAsIs
<1>2. Len(b) >= 1 BY <1>1, EmptyText
<1>3. /\ Places(s, t) = {i \in 0 .. Len(a) : At(a, b, i)}
      /\ \A i \in Nat : At(a, b, i) => i + Len(b) <= Len(a) /\ i <= Len(a)
  BY PlacesAre
<1>4. {i \in Places(s, t) : i <= from} = {i \in Nat : i <= from /\ At(a, b, i)}
  <2>1. ASSUME NEW i PROVE i \in 0 .. Len(a) /\ At(a, b, i) <=> i \in Nat /\ At(a, b, i)
    BY <1>1, <1>3
  <2>. QED BY <1>3, <2>1
<1>5. CASE t.len > s.len
  <2>1. \A i \in Nat : ~At(a, b, i) BY <1>1, <1>3, <1>5
  <2>2. {i \in Nat : i <= from /\ At(a, b, i)} = {} BY <2>1
  <2>3. LastIndexOf(s, t, from) = NotFound BY <1>5 DEF LastIndexOf
  <2>. QED BY <1>4, <2>2, <2>3 DEF LastOf
<1>6. CASE ~(t.len > s.len)
  <2>1. LastIndexOf(s, t, from) = LastFrom(a, b, from)
    BY <1>1, <1>2, <1>6 DEF LastIndexOf
  <2>2. LastFrom(a, b, from) \in Int /\ LastBefore(a, b, from, from + 1, LastFrom(a, b, from))
    BY <1>2, LastFromIs
  <2>3. LastFrom(a, b, from) = LastOf({i \in Nat : i <= from /\ At(a, b, i)})
    BY <2>2, LastOfIs
  <2>. QED BY <1>4, <2>1, <2>3
<1>. QED BY <1>5, <1>6

-----------------------------------------------------------------------------
(* All queries.                                                            *)

LEMMA ComparisonsHold ==
  ASSUME NEW s, NEW t, NEW a \in Texts, NEW b \in Texts, ReadsAs(s, a), ReadsAs(t, b)
  PROVE  Comparisons(s, t, a, b)
<1>1. Ordered(s, t, a, b) BY OrderedRight
<1>2. StartsWith(s, t) <=> Valid(s) /\ Valid(t) /\ 0 \in Places(s, t) BY StartsWithIs
<1>3. EndsWith(s, t) <=> Valid(s) /\ Valid(t) /\ Len(a) - Len(b) \in Places(s, t) BY EndsWithIs
<1>. QED BY <1>1, <1>2, <1>3 DEF Ordered, Comparisons

LEMMA AnswersHold ==
  ASSUME NEW s, NEW t, NEW a \in Texts, NEW b \in Texts, ReadsAs(s, a), ReadsAs(t, b),
         NEW from \in Nat
  PROVE  Answers(s, t, a, b, from)
<1>1. CharAt(s, from) # Nul <=> from < Len(a) BY CharAtIs
<1>2. ASSUME Valid(s), from <= Len(a)
      PROVE  StartsWithAt(s, t, from) <=> Valid(t) /\ from \in Places(s, t)
  <2>1. StartsWithAt(s, t, from) <=> Valid(t) /\ At(a, b, from) BY <1>2, StartsWithAtIs
  <2>2. Places(s, t) = {i \in 0 .. Len(a) : At(a, b, i)} BY PlacesAre
  <2>3. Len(a) \in Nat BY TextsAreInts
  <2>4. from \in 0 .. Len(a) BY <1>2, <2>3
  <2>. QED BY <2>1, <2>2, <2>4
<1>3. ASSUME NEW size \in 1 .. MaxLength PROVE GivesBytes(s, a, size, from)
  <2>1. size \in Nat /\ size >= 1 BY BoundsAre
  <2>. QED BY <2>1, GetBytesGives
<1>4. ASSUME Valid(s), Valid(t), from < Len(a) PROVE Found(s, t, a, b, from)
  <2>1. IndexOf(s, t, from) = FirstOf({i \in Places(s, t) : i >= from}) BY <1>4, IndexOfIs
  <2>2. b # <<>> => LastIndexOf(s, t, from) = LastOf({i \in Places(s, t) : i <= from})
    BY <1>4, LastIndexOfIs
  <2>3. /\ IndexOfChar(s, 97, from) = FirstOf({i \in from .. Len(a) - 1 : a[i + 1] = 97})
        /\ LastIndexOfChar(s, 97, from) = LastOf({i \in 0 .. from : a[i + 1] = 97})
    <3>1. FoundChar(s, a, 97, from) BY <1>4, IndexOfCharIs
    <3>. QED BY <3>1 DEF FoundChar
  <2>. QED BY <2>1, <2>2, <2>3 DEF Found
<1>. QED BY <1>1, <1>2, <1>3, <1>4 DEF Answers

LEMMA QueriesAnswer ==
  ASSUME Stays, BuffersFit
  PROVE  QueriesExact
<1>1. ASSUME NEW s \in {this, that} PROVE PlainText(s) \in Texts /\ ReadsAs(s, PlainText(s))
  <2>1. PICK a \in Texts : ReadsAs(s, a) BY HasText DEF Stays, BuffersFit
  <2>2. a = PlainText(s) BY <2>1 DEF ReadsAs
  <2>. QED BY <2>1, <2>2
<1>2. ASSUME NEW s \in {this, that}, NEW t \in {this, that}
      PROVE  /\ Comparisons(s, t, PlainText(s), PlainText(t))
             /\ \A from \in 0 .. Len(PlainText(s)) + 1 :
                   Answers(s, t, PlainText(s), PlainText(t), from)
  <2>1. PICK a \in Texts : a = PlainText(s) /\ ReadsAs(s, a) BY <1>1
  <2>2. PICK b \in Texts : b = PlainText(t) /\ ReadsAs(t, b) BY <1>1
  <2>3. Comparisons(s, t, a, b) BY <2>1, <2>2, ComparisonsHold
  <2>4. ASSUME NEW from \in 0 .. Len(a) + 1 PROVE Answers(s, t, a, b, from)
    <3>1. from \in Nat BY TextsAreInts
    <3>. QED BY <2>1, <2>2, <3>1, AnswersHold
  <2>. QED BY <2>1, <2>2, <2>3, <2>4
<1>. QED BY <1>2 DEF QueriesExact
-----------------------------------------------------------------------------
(* The strings among the components of MCArduino.                          *)

\* every variable of MCArduino
arduinoVars == <<part, stringVars, textVars, streamVars, uartVars, acVars, analogVars, clockVars,
                 bootVars, memVars, pinVars>>

\* what holds of the strings after every step
IStrings == StringsInv /\ BuffersFit

LEMMA StringsOnly == [Next]_arduinoVars => [StringsNext]_stringVars
<1>. SUFFICES ASSUME [Next]_arduinoVars PROVE [StringsNext]_stringVars OBVIOUS
<1>1. CASE StringsPart BY <1>1 DEF StringsPart
<1>2. CASE UNCHANGED arduinoVars BY <1>2 DEF arduinoVars
<1>3. ASSUME Next, ~StringsPart PROVE UNCHANGED stringVars
  BY <1>3 DEF Next, TextPart, StreamPart, UartPart, AcPart, AnalogPart, ClockPart, StartupPart,
       MemoryPart, PinsPart
<1>. QED BY <1>1, <1>2, <1>3

LEMMA IStringsKept == IStrings /\ [StringsNext]_stringVars => IStrings'
<1>. SUFFICES ASSUME IStrings, [StringsNext]_stringVars PROVE IStrings' OBVIOUS
<1>1. StringsInv' BY StringsSteps DEF IStrings
<1>2. BuffersFit'
  <2>1. CASE StringsNext BY <2>1, FitsStep DEF IStrings, StringsInv
  <2>2. CASE UNCHANGED stringVars BY <2>2 DEF stringVars, IStrings, BuffersFit
  <2>. QED BY <2>1, <2>2
<1>. QED BY <1>1, <1>2 DEF IStrings

LEMMA IStringsExact == IStrings => StringsExact
<1>. SUFFICES ASSUME IStrings PROVE StringsExact OBVIOUS
<1>1. StringsSound BY InvIsSound DEF IStrings
<1>2. QueriesExact BY QueriesAnswer DEF IStrings, StringsInv
<1>. QED BY <1>1, <1>2 DEF StringsExact

(* Whatever is called on the two String objects, in any order and with any *)
(* literals, each of them holds what it says it holds inside its buffer,   *)
(* and every comparison, search and copy answers what its definition over  *)
(* the texts says.                                                         *)
THEOREM StringsHoldAlways == Spec => []StringsHold
<1>1. Init => IStrings BY StringsInitially, FitsInitially DEF Init, IStrings
<1>2. IStrings /\ [Next]_arduinoVars => IStrings' BY StringsOnly, IStringsKept
<1>3. IStrings => StringsHold BY IStringsExact DEF StringsHold
<1>. QED BY <1>1, <1>2, <1>3, PTL DEF Spec, arduinoVars

(* Every step of the run's strings is a step of StringValue on the values  *)
(* the objects have.                                                       *)
THEOREM StringsRefineAlways == Spec => StringsRefine
<1>1. Init => StringsInit BY DEF Init
<1>2. [Next]_arduinoVars => [StringsNext]_stringVars BY StringsOnly
<1>3. Spec => StringsSpec BY <1>1, <1>2, PTL DEF Spec, arduinoVars, StringsSpec
<1>. QED BY <1>3, StringsRefined
=============================================================================
