------------------------------ MODULE TextProofs ------------------------------
(***************************************************************************)
(* What is computed over texts of any length: the calls of Stream that     *)
(* search the input and parse numbers in it, and the texts of numbers and  *)
(* of messages that Print, String and the logger make.                     *)
(*                                                                         *)
(* The induction is over sets: a set of natural numbers that has 0, and    *)
(* n + 1 whenever it has n, has them all.                                  *)
(***************************************************************************)
EXTENDS StreamCalls, Text, WellFoundedInduction, FiniteSetTheorems, SequenceTheorems, TLAPS

-----------------------------------------------------------------------------
(* Induction and recursion over the natural numbers.                       *)

(* A non-empty set of natural numbers has a least element.                 *)
LEMMA LeastNumber ==
  ASSUME NEW T \in SUBSET Nat, T # {}
  PROVE  \E x \in T : \A y \in T : x <= y
<1> DEFINE R == OpToRel(<, Nat)
<1>1. IsWellFoundedOn(R, Nat) BY NatLessThanWellFounded
<1>2. PICK x \in T : \A y \in T : ~(<<y, x>> \in R)
  <2>. HIDE DEF R
  <2>. QED BY <1>1, WFMin
<1>3. ASSUME NEW y \in T PROVE x <= y
  <2>1. ~(<<y, x>> \in OpToRel(<, Nat)) BY <1>2
  <2>2. x \in Nat /\ y \in Nat OBVIOUS
  <2>3. ~(y < x) BY <2>1, <2>2 DEF OpToRel
  <2>. QED BY <2>2, <2>3
<1>. QED BY <1>3

(* A set that has 0 and the successor of each number it has, has all.      *)
LEMMA Induction ==
  ASSUME NEW S, 0 \in S, \A n \in Nat : n \in S => n + 1 \in S
  PROVE  \A n \in Nat : n \in S
<1>. SUFFICES ASSUME NEW k \in Nat, k \notin S PROVE FALSE OBVIOUS
<1>. DEFINE T == {n \in Nat : n \notin S}
<1>1. T \in SUBSET Nat /\ T # {} OBVIOUS
<1>2. PICK x \in T : \A y \in T : x <= y BY <1>1, LeastNumber
<1>3. x \in Nat /\ x # 0 BY <1>2
<1>4. x - 1 \in Nat /\ x - 1 \notin T BY <1>2, <1>3
<1>5. x - 1 \in S BY <1>4
<1>6. x - 1 + 1 \in S BY <1>4, <1>5
<1>. QED BY <1>2, <1>3, <1>6

\* a recursion over 0 .. N, given by its base and a table of its steps
HasRecursion(N, V, b, step) ==
  \E f \in [0 .. N -> V] : f[0] = b /\ \A n \in 1 .. N : f[n] = step[n][f[n - 1]]

(* Every such recursion has a function.                                    *)
LEMMA Recursion ==
  ASSUME NEW V, NEW b \in V, NEW step \in [Nat -> [V -> V]], NEW N \in Nat
  PROVE  HasRecursion(N, V, b, step)
<1>. USE DEF HasRecursion
<1>. DEFINE Has(n) == HasRecursion(n, V, b, step)
            S == {n \in Nat : Has(n)}
<1>1. 0 \in S
  <2>. DEFINE f == [m \in 0 .. 0 |-> b]
  <2>1. f \in [0 .. 0 -> V] OBVIOUS
  <2>2. f[0] = b /\ \A m \in 1 .. 0 : f[m] = step[m][f[m - 1]] OBVIOUS
  <2>3. Has(0) BY <2>1, <2>2
  <2>. QED BY <2>3
<1>2. ASSUME NEW n \in Nat, n \in S PROVE n + 1 \in S
  <2>1. PICK f \in [0 .. n -> V] : f[0] = b /\ \A m \in 1 .. n : f[m] = step[m][f[m - 1]]
    BY <1>2
  <2>. DEFINE g == [m \in 0 .. n + 1 |-> IF m = n + 1 THEN step[n + 1][f[n]] ELSE f[m]]
  <2>2. f[n] \in V BY <2>1
  <2>3. step[n + 1][f[n]] \in V BY <2>2
  <2>4. g \in [0 .. n + 1 -> V] BY <2>1, <2>3
  <2>5. g[0] = b BY <2>1
  <2>6. ASSUME NEW m \in 1 .. n + 1 PROVE g[m] = step[m][g[m - 1]]
    <3>1. CASE m = n + 1
      <4>1. g[m] = step[n + 1][f[n]] BY <3>1
      <4>2. g[m - 1] = f[n] BY <3>1
      <4>. QED BY <3>1, <4>1, <4>2
    <3>2. CASE m # n + 1
      <4>1. m \in 1 .. n /\ m - 1 \in 0 .. n BY <3>2
      <4>2. g[m] = f[m] /\ g[m - 1] = f[m - 1] BY <4>1
      <4>. QED BY <2>1, <4>1, <4>2
    <3>. QED BY <3>1, <3>2
  <2>7. Has(n + 1) BY <2>4, <2>5, <2>6
  <2>. QED BY <2>7
<1>3. \A n \in Nat : n \in S
  <2>. HIDE DEF S
  <2>. QED BY <1>1, <1>2, Induction
<1>. QED BY <1>3

HasRecursionOverNat(V, b, step) ==
  \E f \in [Nat -> V] : f[0] = b /\ \A n \in Nat : f[n + 1] = step[n + 1][f[n]]

(* A recursion over all of Nat: the functions over 0 .. N agree.           *)
LEMMA RecursionOverNat ==
  ASSUME NEW V, NEW b \in V, NEW step \in [Nat -> [V -> V]]
  PROVE  HasRecursionOverNat(V, b, step)
<1>. DEFINE Is(f, n) == f[0] = b /\ \A m \in 1 .. n : f[m] = step[m][f[m - 1]]
            f(n) == CHOOSE h \in [0 .. n -> V] : Is(h, n)
            g == [n \in Nat |-> f(n)[n]]
<1>1. ASSUME NEW n \in Nat PROVE f(n) \in [0 .. n -> V] /\ Is(f(n), n)
  <2>0. HasRecursion(n, V, b, step) BY Recursion
  <2>1. \E h \in [0 .. n -> V] : Is(h, n) BY <2>0 DEF HasRecursion
  <2>. HIDE DEF Is
  <2>. QED BY <2>1
<1>2. ASSUME NEW n \in Nat PROVE f(n + 1)[n] = f(n)[n]
  <2>. DEFINE h == f(n)
              k == f(n + 1)
              S == {m \in Nat : m <= n => k[m] = h[m]}
  <2>. HIDE DEF Is, f
  <2>5. Is(h, n) /\ Is(k, n + 1) BY <1>1
  <2>. HIDE DEF h, k
  <2>1. /\ h[0] = b /\ \A m \in 1 .. n : h[m] = step[m][h[m - 1]]
        /\ k[0] = b /\ \A m \in 1 .. n + 1 : k[m] = step[m][k[m - 1]]
    BY <2>5 DEF Is
  <2>2. 0 \in S BY <2>1
  <2>3. ASSUME NEW m \in Nat, m \in S PROVE m + 1 \in S
    <3>1. CASE m + 1 <= n
      <4>1. m + 1 \in 1 .. n /\ m + 1 \in 1 .. n + 1 /\ m + 1 - 1 = m /\ k[m] = h[m]
        BY <3>1, <2>3
      <4>2. h[m + 1] = step[m + 1][h[m]] BY <4>1, <2>1
      <4>3. k[m + 1] = step[m + 1][k[m]] BY <4>1, <2>1
      <4>. QED BY <4>1, <4>2, <4>3
    <3>. QED BY <3>1
  <2>4. \A m \in Nat : m \in S
    <3>. HIDE DEF S
    <3>. QED BY <2>2, <2>3, Induction
  <2>. QED BY <2>4 DEF h, k
<1>. HIDE DEF Is, f
<1>3. g \in [Nat -> V]
  <2>1. ASSUME NEW n \in Nat PROVE f(n)[n] \in V
    <3>1. f(n) \in [0 .. n -> V] /\ n \in 0 .. n BY <1>1
    <3>. QED BY <3>1
  <2>. QED BY <2>1
<1>4. g[0] = b
  <2>1. g[0] = f(0)[0] /\ Is(f(0), 0) BY <1>1
  <2>. QED BY <2>1 DEF Is
<1>5. ASSUME NEW n \in Nat PROVE g[n + 1] = step[n + 1][g[n]]
  <2>1. Is(f(n + 1), n + 1) BY <1>1
  <2>2. n + 1 \in 1 .. n + 1 /\ n + 1 - 1 = n OBVIOUS
  <2>3. f(n + 1)[n + 1] = step[n + 1][f(n + 1)[n]]
    <3>. QED BY <2>1, <2>2 DEF Is
  <2>4. g[n + 1] = f(n + 1)[n + 1] /\ g[n] = f(n)[n] OBVIOUS
  <2>. HIDE DEF g
  <2>. QED BY <2>3, <2>4, <1>2
<1>. HIDE DEF g
<1>. QED BY <1>3, <1>4, <1>5 DEF HasRecursionOverNat

\* step[n] looks at the values below n only
LooksBelow(V, step) ==
  \A n \in Nat : \A g, h \in [Nat -> V] :
      (\A m \in 0 .. n - 1 : g[m] = h[m]) => step[n][g] = step[n][h]

HasCourse(V, step) == \E g \in [Nat -> V] : \A n \in Nat : g[n] = step[n][g]

(* A recursion whose steps look at any values below.                       *)
LEMMA CourseRecursion ==
  ASSUME NEW V, NEW v \in V, NEW step \in [Nat -> [[Nat -> V] -> V]], LooksBelow(V, step)
  PROVE  HasCourse(V, step)
<1>. DEFINE W == [Nat -> V]
            tab == [n \in Nat |-> [g \in W |-> [g EXCEPT ![n] = step[n][g]]]]
            c == [n \in Nat |-> v]
            b == [c EXCEPT ![0] = step[0][c]]
<1>1. c \in W OBVIOUS
<1>2. \A n \in Nat : \A g \in W : step[n][g] \in V OBVIOUS
<1>3. b \in W BY <1>1, <1>2
<1>4. tab \in [Nat -> [W -> W]] BY <1>2
<1>5. PICK f \in [Nat -> W] : f[0] = b /\ \A n \in Nat : f[n + 1] = tab[n + 1][f[n]]
  <2>. HIDE DEF W, tab, b
  <2>1. HasRecursionOverNat(W, b, tab) BY <1>3, <1>4, RecursionOverNat
  <2>. QED BY <2>1 DEF HasRecursionOverNat
<1>. DEFINE h == [n \in Nat |-> f[n][n]]
<1>6. ASSUME NEW n \in Nat
      PROVE  /\ f[n] \in W /\ f[n + 1][n + 1] = step[n + 1][f[n]]
             /\ \A m \in 0 .. n : f[n + 1][m] = f[n][m]
  <2>1. f[n] \in W BY <1>5
  <2>2. f[n + 1] = [f[n] EXCEPT ![n + 1] = step[n + 1][f[n]]]
    <3>1. f[n + 1] = tab[n + 1][f[n]] BY <1>5
    <3>2. n + 1 \in Nat OBVIOUS
    <3>. QED BY <2>1, <3>1, <3>2
  <2>3. \A m \in 0 .. n : m \in Nat /\ m # n + 1 OBVIOUS
  <2>. QED BY <2>1, <2>2, <2>3
<1>7. h \in W BY <1>5
<1>8. ASSUME NEW n \in Nat PROVE \A m \in 0 .. n : f[n][m] = h[m]
  <2>. DEFINE S == {k \in Nat : \A m \in 0 .. k : f[k][m] = h[m]}
  <2>1. 0 \in S OBVIOUS
  <2>2. ASSUME NEW k \in Nat, k \in S PROVE k + 1 \in S
    <3>1. ASSUME NEW m \in 0 .. k + 1 PROVE f[k + 1][m] = h[m]
      <4>1. CASE m = k + 1 BY <4>1
      <4>2. CASE m # k + 1
        <5>1. m \in 0 .. k BY <4>2
        <5>. HIDE DEF h
        <5>. QED BY <5>1, <2>2, <1>6
      <4>. QED BY <4>1, <4>2
    <3>. QED BY <3>1
  <2>3. \A k \in Nat : k \in S
    <3>. HIDE DEF S
    <3>. QED BY <2>1, <2>2, Induction
  <2>. QED BY <2>3
<1>9. ASSUME NEW n \in Nat PROVE h[n] = step[n][h]
  <2>1. CASE n = 0
    <3>1. \A m \in 0 .. 0 - 1 : c[m] = h[m] OBVIOUS
    <3>2. step[0][c] = step[0][h]
      <4>. HIDE DEF c, h, W
      <4>. QED BY <3>1, <1>1, <1>7 DEF LooksBelow, W
    <3>3. h[0] = f[0][0] /\ f[0] = b BY <1>5
    <3>4. h[0] = step[0][c] BY <3>3
    <3>. HIDE DEF h, c
    <3>. QED BY <2>1, <3>2, <3>4
  <2>2. CASE n # 0
    <3>1. PICK k \in Nat : n = k + 1
      <4>1. n - 1 \in Nat /\ n = (n - 1) + 1 BY <2>2
      <4>. QED BY <4>1
    <3>2. \A m \in 0 .. (k + 1) - 1 : f[k][m] = h[m]
      <4>1. \A m \in 0 .. (k + 1) - 1 : m \in 0 .. k OBVIOUS
      <4>. HIDE DEF h
      <4>. QED BY <4>1, <1>8
    <3>3. f[k] \in W /\ f[k + 1][k + 1] = step[k + 1][f[k]] BY <1>6
    <3>4. h[k + 1] = f[k + 1][k + 1] OBVIOUS
    <3>5. step[k + 1][f[k]] = step[k + 1][h]
      <4>1. k + 1 \in Nat OBVIOUS
      <4>. HIDE DEF h, W
      <4>. QED BY <4>1, <3>2, <3>3, <1>7 DEF LooksBelow, W
    <3>. HIDE DEF h
    <3>. QED BY <3>1, <3>3, <3>4, <3>5
  <2>. QED BY <2>1, <2>2
<1>. HIDE DEF h
<1>. QED BY <1>7, <1>9 DEF HasCourse

(* A set that has each number whose predecessors it has, has all.          *)
LEMMA CourseInduction ==
  ASSUME NEW S, \A n \in Nat : (\A m \in 0 .. n - 1 : m \in S) => n \in S
  PROVE  \A n \in Nat : n \in S
<1>. SUFFICES ASSUME NEW k \in Nat, k \notin S PROVE FALSE OBVIOUS
<1>. DEFINE T == {n \in Nat : n \notin S}
<1>1. T \in SUBSET Nat /\ T # {} OBVIOUS
<1>2. PICK x \in T : \A y \in T : x <= y BY <1>1, LeastNumber
<1>3. \A m \in 0 .. x - 1 : m \in S BY <1>2
<1>. QED BY <1>2, <1>3

-----------------------------------------------------------------------------
(* Stream: the number that characters stand for.                           *)

(* The recursive function in Number exists.                                *)
LEMMA NumberIs ==
  ASSUME NEW s \in Seq(Int)
  PROVE  \E f \in [0 .. Len(s) -> Int] :
            /\ Number(s) = f[Len(s)] /\ f[0] = 0
            /\ \A n \in 1 .. Len(s) :
                  f[n] = IF Digit(s[n]) THEN f[n - 1] * 10 + (s[n] - 48) ELSE f[n - 1]
<1>. DEFINE N == Len(s)
            F(f) == [n \in 0 .. N |->
                       IF n = 0 THEN 0
                       ELSE IF Digit(s[n]) THEN f[n - 1] * 10 + (s[n] - 48) ELSE f[n - 1]]
            step == [n \in Nat |-> [v \in Int |->
                       IF Digit(s[n]) /\ n \in 1 .. N THEN v * 10 + (s[n] - 48) ELSE v]]
            g == CHOOSE f : f = F(f)
<1>1. N \in Nat OBVIOUS
<1>2. step \in [Nat -> [Int -> Int]]
  <2>1. \A n \in 1 .. N : s[n] \in Int BY <1>1
  <2>. QED BY <2>1
<1>3. PICK f \in [0 .. N -> Int] : f[0] = 0 /\ \A n \in 1 .. N : f[n] = step[n][f[n - 1]]
  <2>1. 0 \in Int OBVIOUS
  <2>. HIDE DEF step, N, F, g
  <2>2. HasRecursion(N, Int, 0, step) BY <1>1, <1>2, <2>1, Recursion
  <2>. QED BY <2>2 DEF HasRecursion
<1>4. \A n \in 1 .. N : f[n] = IF Digit(s[n]) THEN f[n - 1] * 10 + (s[n] - 48) ELSE f[n - 1]
  <2>1. ASSUME NEW n \in 1 .. N
        PROVE  f[n] = IF Digit(s[n]) THEN f[n - 1] * 10 + (s[n] - 48) ELSE f[n - 1]
    <3>1. f[n - 1] \in Int BY <1>1, <1>3
    <3>2. n \in Nat BY <1>1
    <3>. QED BY <3>1, <3>2, <1>3
  <2>. QED BY <2>1
<1>5. f = F(f)
  <2>1. \A n \in 0 .. N : f[n] = F(f)[n] BY <1>3, <1>4, <1>1
  <2>2. DOMAIN f = 0 .. N /\ f = [n \in 0 .. N |-> f[n]] BY <1>3
  <2>3. F(f) = [n \in 0 .. N |-> F(f)[n]] OBVIOUS
  <2>. QED BY <2>1, <2>2
<1>6. g = F(g) BY <1>5
<1>7. Number(s) = g[N] BY DEF Number
<1>. HIDE DEF g
<1>8. g[0] = 0 BY <1>6, <1>1
<1>9. \A n \in 1 .. N : g[n] = IF Digit(s[n]) THEN g[n - 1] * 10 + (s[n] - 48) ELSE g[n - 1]
  <2>1. \A n \in 0 .. N : g[n] = F(g)[n] BY <1>6
  <2>2. \A n \in 1 .. N : n \in 0 .. N /\ n # 0 BY <1>1
  <2>. QED BY <2>1, <2>2
<1>10. g \in [0 .. N -> Int]
  <2>. DEFINE S == {n \in Nat : n <= N => g[n] \in Int}
  <2>1. 0 \in S BY <1>8
  <2>2. ASSUME NEW n \in Nat, n \in S PROVE n + 1 \in S
    <3>1. CASE n + 1 <= N
      <4>1. n + 1 \in 1 .. N /\ n + 1 - 1 = n /\ g[n] \in Int /\ s[n + 1] \in Int
        BY <3>1, <2>2, <1>1
      <4>2. g[n + 1] = IF Digit(s[n + 1]) THEN g[n] * 10 + (s[n + 1] - 48) ELSE g[n]
        BY <4>1, <1>9
      <4>3. \A a, b \in Int : a * 10 + (b - 48) \in Int OBVIOUS
      <4>4. g[n] * 10 + (s[n + 1] - 48) \in Int BY <4>1, <4>3
      <4>5. g[n + 1] \in Int BY <4>1, <4>2, <4>4
      <4>. QED BY <4>5
    <3>. QED BY <3>1
  <2>3. \A n \in Nat : n \in S
    <3>. HIDE DEF S
    <3>. QED BY <2>1, <2>2, Induction
  <2>4. \A n \in 0 .. N : g[n] \in Int BY <2>3, <1>1
  <2>5. g = [n \in 0 .. N |-> g[n]] BY <1>6
  <2>. QED BY <2>4, <2>5
<1>. QED BY <1>7, <1>8, <1>9, <1>10

(* Number of a text with one more character.                               *)
LEMMA NumberAppend ==
  ASSUME NEW s \in Seq(Int), NEW c \in Int
  PROVE  /\ Number(s) \in Int
         /\ Number(Append(s, c)) =
               IF Digit(c) THEN Number(s) * 10 + (c - 48) ELSE Number(s)
<1>. DEFINE N == Len(s)
            t == Append(s, c)
<1>1. N \in Nat /\ t \in Seq(Int) /\ Len(t) = N + 1 /\ t[N + 1] = c OBVIOUS
<1>2. \A n \in 1 .. N : t[n] = s[n] OBVIOUS
<1>3. PICK f \in [0 .. N -> Int] :
         /\ Number(s) = f[N] /\ f[0] = 0
         /\ \A n \in 1 .. N : f[n] = IF Digit(s[n]) THEN f[n - 1] * 10 + (s[n] - 48) ELSE f[n - 1]
  BY NumberIs
<1>4. PICK g \in [0 .. N + 1 -> Int] :
         /\ Number(t) = g[N + 1] /\ g[0] = 0
         /\ \A n \in 1 .. N + 1 :
               g[n] = IF Digit(t[n]) THEN g[n - 1] * 10 + (t[n] - 48) ELSE g[n - 1]
  <2>. HIDE DEF t
  <2>. QED BY <1>1, NumberIs
<1>5. g[N] = f[N]
  <2>. DEFINE S == {n \in Nat : n <= N => g[n] = f[n]}
  <2>1. 0 \in S BY <1>3, <1>4
  <2>2. ASSUME NEW n \in Nat, n \in S PROVE n + 1 \in S
    <3>1. CASE n + 1 <= N
      <4>1. n + 1 \in 1 .. N /\ n + 1 \in 1 .. N + 1 /\ n + 1 - 1 = n BY <3>1, <1>1
      <4>2. g[n] = f[n] BY <2>2, <3>1, <1>1
      <4>3. t[n + 1] = s[n + 1] BY <4>1, <1>2
      <4>4. g[n + 1] = IF Digit(t[n + 1]) THEN g[n] * 10 + (t[n + 1] - 48) ELSE g[n]
        BY <4>1, <1>4
      <4>5. f[n + 1] = IF Digit(s[n + 1]) THEN f[n] * 10 + (s[n + 1] - 48) ELSE f[n]
        BY <4>1, <1>3
      <4>6. g[n + 1] = f[n + 1]
        <5>. HIDE DEF t
        <5>. QED BY <4>2, <4>3, <4>4, <4>5
      <4>. QED BY <4>6
    <3>. QED BY <3>1
  <2>3. \A n \in Nat : n \in S
    <3>. HIDE DEF S
    <3>. QED BY <2>1, <2>2, Induction
  <2>. QED BY <2>3, <1>1
<1>6. g[N + 1] = IF Digit(t[N + 1]) THEN g[N] * 10 + (t[N + 1] - 48) ELSE g[N]
  <2>. HIDE DEF t
  <2>1. N + 1 \in 1 .. N + 1 /\ N + 1 - 1 = N BY <1>1
  <2>2. \A m \in 1 .. N + 1 :
           g[m] = IF Digit(t[m]) THEN g[m - 1] * 10 + (t[m] - 48) ELSE g[m - 1] BY <1>4
  <2>3. N \in Nat BY <1>1
  <2>. HIDE DEF N
  <2>. QED BY <2>1, <2>2, <2>3
<1>7. f[N] \in Int BY <1>1, <1>3
<1>. HIDE DEF t
<1>. QED BY <1>1, <1>3, <1>4, <1>5, <1>6, <1>7 DEF t

LEMMA NumberEmpty == Number(<<>>) = 0
<1>1. <<>> \in Seq(Int) /\ Len(<<>>) = 0 OBVIOUS
<1>. QED BY <1>1, NumberIs

-----------------------------------------------------------------------------
(* The invariant of Stream.                                                *)

Ops == {"none", "find", "read", "int", "float"}

JobType == [op : Ops, at : {"wait", "char", "next", "done"}, read : Seq(Bytes), value : Int,
            negative : BOOLEAN, target : Seq(1 .. 255), stop : Seq(0 .. 255), index : Nat,
            stopIndex : Nat, found : BOOLEAN, point : BOOLEAN, decimals : Nat, late : Nat,
            lost : Nat]

StreamTypeOK ==
    /\ input \in Seq(Bytes) /\ came \in 0 .. MaxInput /\ job \in JobType
    /\ Len(job.read) + Len(input) <= came

\* the last k characters of s are the first k of t
Matches(s, t, k) == k <= Len(s) /\ \A i \in 1 .. k : s[Len(s) - k + i] = t[i]

\* as many characters of t are somewhere in s
Within(s, t) == \E n \in Len(t) .. Len(s) : \A i \in 1 .. Len(t) : s[n - Len(t) + i] = t[i]

Alike(t) == \E n, m \in 1 .. Len(t) - 1 : m < n /\ \A i \in 1 .. m : t[n - m + i] = t[i]

(* The index is how much of the target the input ends with, and, if the    *)
(* target is not similar to itself, nothing else of it is there.           *)
FindInv ==
    job.op = "find" =>
        LET t == job.target
        IN  /\ t \in Targets /\ job.at \in {"wait", "done"}
            /\ job.found => Matches(job.read, t, Len(t))
            /\ job.at = "wait" =>
                  job.index < Len(t) /\ Matches(job.read, t, job.index) /\ ~job.found
            /\ ~Alike(t) /\ ~job.found => ~Within(job.read, t)
            /\ ~Alike(t) /\ job.at = "wait" =>
                  \A k \in 1 .. Len(t) : Matches(job.read, t, k) => k = job.index

OfNumber(c) == c = Minus \/ Digit(c)

Used == SubSeq(job.read, job.lost + 1, Len(job.read))

\* a point in the number
PointAt(j) == /\ job.read[j] = Point /\ j # job.lost
              /\ j > job.late \/ \E k \in 1 .. j : OfNumber(job.read[k])

DecimalPlaces == {i \in 1 .. Len(job.read) : Digit(job.read[i]) /\ \E j \in 1 .. i : PointAt(j)}

\* the number has begun, or what stands for its end has been taken for it
Begun == job.late <= Len(job.read) \/ \E k \in 1 .. Len(job.read) : OfNumber(job.read[k])

NoneYet == \A i \in 1 .. Len(job.read) : ~OfNumber(job.read[i])

\* parseFloat goes on with the character that stands for its timeout
Late == /\ job.op = "float" /\ job.index = 255 /\ job.late = Len(job.read)
        /\ job.lost = 0 /\ job.value = 0 /\ NoneYet

(* The value is that of the characters used so far.                        *)
ValueInv ==
    /\ job.lost <= Len(job.read)
    /\ IF job.at = "done"
       THEN job.value = (IF Contains(Used, Minus) THEN -1 ELSE 1) * Number(Used)
       ELSE job.value = Number(Used) /\ (job.negative <=> Contains(Used, Minus))

DecimalsInv ==
    /\ job.op = "int" => ~job.point /\ job.decimals = 0 /\ job.late = MaxInput
    /\ job.op = "float" =>
          /\ job.point <=> \E j \in 1 .. Len(job.read) : PointAt(j)
          /\ job.decimals = Cardinality(DecimalPlaces)

LostInv ==
    job.lost # 0 => /\ job.op = "float" /\ job.lost = job.late + 1
                    /\ \A i \in 1 .. job.late : ~OfNumber(job.read[i])

PlaceInv ==
    /\ job.at = "wait" => job.lost = 0 /\ job.late = MaxInput /\ job.value = 0 /\ NoneYet
    /\ job.at = "char" => /\ job.index \in 0 .. 255 /\ (Begun \/ OfNumber(job.index))
                          /\ Late \/ (input # <<>> /\ Head(input) = job.index)
    /\ job.at = "next" => Begun

ParseInv ==
    /\ job.op \in {"int", "float"} => ValueInv /\ DecimalsInv /\ LostInv /\ PlaceInv
    /\ job.op \notin {"int", "float"} => job.lost = 0 /\ job.at \in {"wait", "done"}

StreamInv == StreamTypeOK /\ FindInv /\ ParseInv

-----------------------------------------------------------------------------
(* The invariant is inductive.                                             *)

LEMMA StreamStarts == StreamInit => StreamInv
<1>. SUFFICES ASSUME StreamInit PROVE StreamInv OBVIOUS
<1>. USE StreamAssumption DEF StreamInit, NoJob
<1>1. StreamTypeOK
  <2>1. job \in JobType BY DEF JobType, Ops
  <2>. QED BY <2>1 DEF StreamTypeOK
<1>. QED BY <1>1 DEF StreamInv, FindInv, ParseInv

(* A byte comes.                                                           *)
LEMMA ComesKeeps == ASSUME StreamInv, NEW c \in Bytes, ByteComes(c) PROVE StreamInv'
<1>. USE DEF ByteComes
<1>1. StreamTypeOK'
  <2>1. input \in Seq(Bytes) /\ job \in JobType BY DEF StreamInv, StreamTypeOK
  <2>2. job.read \in Seq(Bytes) BY <2>1 DEF JobType
  <2>3. input' \in Seq(Bytes) /\ Len(input') = Len(input) + 1 /\ Len(input) \in Nat BY <2>1
  <2>4. came' \in 0 .. MaxInput /\ came' = came + 1
    BY StreamAssumption DEF StreamInv, StreamTypeOK
  <2>5. Len(job.read) \in Nat /\ came \in Nat
    BY <2>2, StreamAssumption DEF StreamInv, StreamTypeOK
  <2>6. Len(job.read) + Len(input) <= came BY DEF StreamInv, StreamTypeOK
  <2>. HIDE DEF ByteComes
  <2>10. Len(job.read) + (Len(input) + 1) <= came + 1
    <3>1. \A a, b, d \in Nat : a + b <= d => a + (b + 1) <= d + 1 OBVIOUS
    <3>2. Len(input) \in Nat BY <2>3
    <3>. QED BY <3>1, <3>2, <2>5, <2>6
  <2>7. Len(job.read) + Len(input') <= came' BY <2>10, <2>3, <2>4, <2>5, <2>6
  <2>8. job' = job BY DEF ByteComes
  <2>. QED BY <2>1, <2>3, <2>4, <2>7, <2>8 DEF StreamTypeOK
<1>2. FindInv'
  BY DEF StreamInv, FindInv
<1>3. input # <<>> => input' # <<>> /\ Head(input') = Head(input)
  <2>1. input \in Seq(Bytes) BY DEF StreamInv, StreamTypeOK
  <2>. QED BY <2>1
<1>4. PlaceInv => PlaceInv'
  BY <1>3 DEF PlaceInv, NoneYet, Begun, Late
<1>5. (ValueInv /\ DecimalsInv /\ LostInv) => (ValueInv /\ DecimalsInv /\ LostInv)'
  BY DEF ValueInv, Used, DecimalsInv, LostInv, DecimalPlaces, PointAt
<1>. QED BY <1>1, <1>2, <1>4, <1>5 DEF StreamInv, ParseInv

(* A call begins.                                                          *)
LEMMA CallsKeeps ==
  ASSUME StreamInv, NEW op \in Ops \ {"none"}, NEW t \in Seq(1 .. 255), NEW s \in Seq(0 .. 255),
         op = "find" => t \in Targets, Calls(op, t, s)
  PROVE  StreamInv'
<1>. USE DEF Calls
<1>1. /\ job'.op = op /\ job'.at = "wait" /\ job'.read = <<>> /\ job'.value = 0 /\ ~job'.negative
      /\ job'.target = t /\ job'.stop = s /\ job'.index = 0 /\ job'.stopIndex = 0 /\ ~job'.found
      /\ ~job'.point /\ job'.decimals = 0 /\ job'.late = MaxInput /\ job'.lost = 0
  BY DEF NoJob
<1>2. Len(job'.read) = 0 BY <1>1
<1>3. StreamTypeOK'
  <2>1. job' \in JobType
    <3>1. op \in Ops BY DEF Ops
    <3>2. MaxInput \in Nat /\ <<>> \in Seq(Bytes) BY StreamAssumption
    <3>3. job' = [op |-> op, at |-> "wait", read |-> <<>>, value |-> 0, negative |-> FALSE,
                  target |-> t, stop |-> s, index |-> 0, stopIndex |-> 0, found |-> FALSE,
                  point |-> FALSE, decimals |-> 0, late |-> MaxInput, lost |-> 0]
      BY DEF NoJob
    <3>4. /\ "wait" \in {"wait", "char", "next", "done"} /\ 0 \in Int /\ 0 \in Nat
          /\ FALSE \in BOOLEAN
      OBVIOUS
    <3>. HIDE DEF Calls
    <3>. QED BY <3>1, <3>2, <3>3, <3>4 DEF JobType
  <2>2. input' \in Seq(Bytes) /\ came' \in 0 .. MaxInput BY DEF StreamInv, StreamTypeOK
  <2>3. Len(input) \in Nat /\ Len(job.read) \in Nat /\ Len(job.read) + Len(input) <= came
    BY DEF StreamInv, StreamTypeOK, JobType
  <2>4. Len(job'.read) + Len(input') <= came' BY <1>2, <2>3, <2>2
  <2>. QED BY <2>1, <2>2, <2>4 DEF StreamTypeOK
<1>4. FindInv'
  <2>1. CASE op = "find"
    <3>1. t \in Targets /\ Len(t) \in Nat \ {0} BY <2>1, StreamAssumption
    <3>2. Matches(<<>>, t, 0) BY DEF Matches
    <3>3. ~Within(<<>>, t) BY <3>1 DEF Within
    <3>4. \A k \in 1 .. Len(t) : ~Matches(<<>>, t, k) BY <3>1 DEF Matches
    <3>. QED BY <1>1, <3>1, <3>2, <3>3, <3>4 DEF FindInv
  <2>2. CASE op # "find" BY <2>2, <1>1 DEF FindInv
  <2>. QED BY <2>1, <2>2
<1>5. ParseInv'
  <2>1. Used' = <<>>
    BY <1>1, <1>2 DEF Used
  <2>2. ValueInv' BY <1>1, <1>2, <2>1, NumberEmpty DEF ValueInv, Contains
  <2>3. DecimalPlaces' = {} BY <1>2 DEF DecimalPlaces
  <2>4. Cardinality({}) = 0 BY FS_EmptySet
  <2>5. DecimalsInv' BY <1>1, <1>2, <2>3, <2>4 DEF DecimalsInv
  <2>6. LostInv' BY <1>1 DEF LostInv
  <2>7. PlaceInv' BY <1>1, <1>2 DEF PlaceInv, NoneYet
  <2>. QED BY <1>1, <2>2, <2>5, <2>6, <2>7 DEF ParseInv
<1>. QED BY <1>3, <1>4, <1>5 DEF StreamInv

LEMMA BeginsKeeps == ASSUME StreamInv, Find \/ ReadBytes \/ Parse PROVE StreamInv'
<1>1. CASE Find
  <2>1. PICK t \in Targets, s \in Terminators : Calls("find", t, s) BY <1>1 DEF Find
  <2>2. t \in Seq(1 .. 255) /\ s \in Seq(0 .. 255) BY StreamAssumption
  <2>. QED BY <2>1, <2>2, CallsKeeps DEF Ops
<1>2. CASE ReadBytes
  <2>1. PICK s \in {<<0>>} \union {<<>>} : Calls("read", <<>>, s) BY <1>2 DEF ReadBytes
  <2>2. <<>> \in Seq(1 .. 255) /\ s \in Seq(0 .. 255)
    <3>1. s = <<0>> \/ s = <<>> OBVIOUS
    <3>2. <<0>> \in Seq(0 .. 255) /\ <<>> \in Seq(0 .. 255) /\ <<>> \in Seq(1 .. 255) OBVIOUS
    <3>. QED BY <3>1, <3>2
  <2>. QED BY <2>1, <2>2, CallsKeeps DEF Ops
<1>3. CASE Parse
  <2>1. PICK op \in {"int", "float"} : Calls(op, <<>>, <<>>) BY <1>3 DEF Parse
  <2>2. <<>> \in Seq(1 .. 255) /\ <<>> \in Seq(0 .. 255) OBVIOUS
  <2>. QED BY <2>1, <2>2, CallsKeeps DEF Ops
<1>. QED BY <1>1, <1>2, <1>3

(* What one more byte does to a match.                                     *)
LEMMA MatchAppend ==
  ASSUME NEW s \in Seq(Bytes), NEW c \in Bytes, NEW t \in Seq(1 .. 255), NEW k \in 1 .. Len(t)
  PROVE  Matches(Append(s, c), t, k) <=> Matches(s, t, k - 1) /\ t[k] = c
<1>. DEFINE N == Len(s)
            r == Append(s, c)
<1>1. N \in Nat /\ Len(r) = N + 1 /\ r[N + 1] = c /\ (\A i \in 1 .. N : r[i] = s[i])
      /\ k \in Nat \ {0}
  OBVIOUS
<1>2. ASSUME Matches(r, t, k) PROVE Matches(s, t, k - 1) /\ t[k] = c
  <2>. HIDE DEF r, N
  <2>1. k <= N + 1 /\ \A i \in 1 .. k : r[N + 1 - k + i] = t[i] BY <1>1, <1>2 DEF Matches
  <2>2. N + 1 - k + k = N + 1 BY <1>1
  <2>3. t[k] = c BY <2>1, <2>2, <1>1
  <2>4. ASSUME NEW i \in 1 .. k - 1 PROVE s[N - (k - 1) + i] = t[i]
    <3>1. N - (k - 1) + i \in 1 .. N /\ N - (k - 1) + i = N + 1 - k + i /\ i \in 1 .. k
      BY <2>1, <1>1
    <3>. QED BY <3>1, <2>1, <1>1
  <2>5. k - 1 <= N BY <2>1, <1>1
  <2>. QED BY <2>3, <2>4, <2>5 DEF Matches, N
<1>3. ASSUME Matches(s, t, k - 1), t[k] = c PROVE Matches(r, t, k)
  <2>. HIDE DEF r, N
  <2>1. k - 1 <= N /\ \A i \in 1 .. k - 1 : s[N - (k - 1) + i] = t[i] BY <1>3 DEF Matches, N
  <2>2. ASSUME NEW i \in 1 .. k PROVE r[N + 1 - k + i] = t[i]
    <3>1. CASE i = k
      <4>1. N + 1 - k + i = N + 1 BY <3>1, <1>1
      <4>. QED BY <3>1, <4>1, <1>1, <1>3
    <3>2. CASE i # k
      <4>1. i \in 1 .. k - 1 /\ N - (k - 1) + i \in 1 .. N /\ N - (k - 1) + i = N + 1 - k + i
        BY <3>2, <2>1, <1>1
      <4>. QED BY <4>1, <2>1, <1>1
    <3>. QED BY <3>1, <3>2
  <2>3. k <= N + 1 BY <2>1, <1>1
  <2>. QED BY <2>2, <2>3, <1>1 DEF Matches
<1>. QED BY <1>2, <1>3

(* A step of the search has a job that is well formed.                     *)
LEMMA JobFound ==
  ASSUME NEW g \in JobType, NEW r \in Seq(Bytes), NEW i \in Nat, NEW n \in Nat,
         NEW f \in BOOLEAN, NEW a \in {"wait", "done"}
  PROVE  [g EXCEPT !.read = r, !.index = i, !.stopIndex = n, !.found = f, !.at = a] \in JobType
<1>1. a \in {"wait", "char", "next", "done"} OBVIOUS
<1>. QED BY <1>1 DEF JobType

(* A byte goes through the search.                                         *)
LEMMA FindKeeps == ASSUME StreamInv, FindByte PROVE StreamInv'
<1>. DEFINE c == Head(input)
            t == job.target
            N == Len(t)
            i == job.index
            j == NextIndex(c)
<1>1. /\ job.op = "find" /\ job.at = "wait" /\ input # <<>> /\ job \in JobType
      /\ input \in Seq(Bytes) /\ c \in Bytes /\ input' = Tail(input) /\ came' = came
  BY DEF FindByte, Take, StreamInv, StreamTypeOK
<1>2. /\ t \in Targets /\ t \in Seq(1 .. 255) /\ N \in Nat \ {0} /\ i \in Nat /\ i < N
      /\ Matches(job.read, t, i) /\ ~job.found /\ job.read \in Seq(Bytes)
  BY <1>1, StreamAssumption DEF StreamInv, FindInv, JobType
<1>3. /\ ~Alike(t) => ~Within(job.read, t)
      /\ ~Alike(t) => \A k \in 1 .. N : Matches(job.read, t, k) => k = i
  BY <1>1, <1>2 DEF StreamInv, FindInv
<1>4. j \in 0 .. N BY <1>2 DEF NextIndex
<1>5. /\ job'.op = "find" /\ job'.read = Append(job.read, c) /\ job'.index = j
      /\ job'.target = t /\ job'.found = (c > 0 /\ j = N) /\ job'.at \in {"wait", "done"}
      /\ (job'.at = "wait" => ~job'.found) /\ job'.lost = job.lost
      /\ job'.stopIndex = NextStop(c)
  BY <1>1 DEF FindByte, JobType
<1>6. j = N => c > 0
  <2>1. 1 \in 1 .. N /\ i + 1 \in 1 .. N BY <1>2
  <2>3. j = N => c = t[i + 1] \/ c = t[1] BY <1>2 DEF NextIndex
  <2>. HIDE DEF c, t, i, j, N
  <2>2. t[1] \in 1 .. 255 /\ t[i + 1] \in 1 .. 255 BY <1>2, <2>1, ElementOfSeq DEF N
  <2>. QED BY <2>2, <2>3
<1>7. job'.found <=> j = N BY <1>5, <1>6
<1>8. Matches(Append(job.read, c), t, j)
  <2>1. CASE c = t[i + 1]
    <3>1. j = i + 1 /\ i + 1 \in 1 .. N /\ i + 1 - 1 = i BY <2>1, <1>2 DEF NextIndex
    <3>. HIDE DEF c, t, i, j, N
    <3>2. Matches(Append(job.read, c), t, i + 1) <=>
             Matches(job.read, t, i + 1 - 1) /\ t[i + 1] = c
      BY <3>1, <1>1, <1>2, MatchAppend DEF N
    <3>. QED BY <3>1, <3>2, <2>1, <1>2
  <2>2. CASE c # t[i + 1] /\ c = t[1]
    <3>1. j = 1 /\ 1 \in 1 .. N /\ 1 - 1 = 0 BY <2>2, <1>2 DEF NextIndex
    <3>2. Matches(job.read, t, 0) BY <1>2 DEF Matches
    <3>. HIDE DEF c, t, i, j, N
    <3>. QED BY <3>1, <3>2, <2>2, <1>1, <1>2, MatchAppend DEF N
  <2>3. CASE c # t[i + 1] /\ c # t[1]
    <3>1. j = 0 BY <2>3 DEF NextIndex
    <3>2. Len(Append(job.read, c)) \in Nat BY <1>1, <1>2
    <3>. QED BY <3>1, <3>2 DEF Matches
  <2>. QED BY <2>1, <2>2, <2>3
<1>9. ASSUME ~Alike(t), j # N, NEW k \in 1 .. N, Matches(Append(job.read, c), t, k)
      PROVE  k = j
  <2>1. Matches(job.read, t, k - 1) /\ t[k] = c
    <3>. HIDE DEF c, t, i, j, N
    <3>. QED BY <1>1, <1>2, <1>9, MatchAppend DEF N
  <2>2. k - 1 = i \/ k = 1
    <3>1. k # 1 => k - 1 \in 1 .. N BY <1>2
    <3>. QED BY <3>1, <2>1, <1>3, <1>9
  <2>3. CASE k - 1 = i
    <3>1. k = i + 1 BY <2>3, <1>2
    <3>. QED BY <3>1, <2>1 DEF NextIndex
  <2>4. CASE k = 1 /\ i # 0 /\ c = t[i + 1]
    <3>1. j = i + 1 /\ i + 1 \in 1 .. N - 1 /\ 1 \in 1 .. N - 1 /\ 1 < i + 1
      BY <2>4, <1>2, <1>9 DEF NextIndex
    <3>2. t[i + 1] = t[1] BY <2>1, <2>4
    <3>4. Alike(t)
      <4>. DEFINE n == i + 1
                  P == \A m \in 1 .. 1 : t[n - 1 + m] = t[m]
      <4>1. n \in 1 .. Len(t) - 1 /\ 1 \in 1 .. Len(t) - 1 /\ 1 < n
        <5>. HIDE DEF t, i
        <5>. QED BY <3>1
      <4>2. P
        <5>1. \A m \in 1 .. 1 : m = 1 /\ n - 1 + m = n BY <1>2
        <5>2. t[n] = t[1] BY <3>2
        <5>. HIDE DEF t, n
        <5>. QED BY <5>1, <5>2
      <4>. HIDE DEF n, t, i, j, c
      <4>. QED BY <4>1, <4>2 DEF Alike
    <3>. QED BY <3>4, <1>9
  <2>5. CASE k = 1 /\ i # 0 /\ c # t[i + 1]
    BY <2>1, <2>5 DEF NextIndex
  <2>6. CASE k = 1 /\ i = 0
    BY <2>3, <2>6
  <2>. QED BY <2>2, <2>3, <2>4, <2>5, <2>6
<1>10. ~Alike(t) /\ j # N => ~Within(Append(job.read, c), t)
  <2>. SUFFICES ASSUME ~Alike(t), j # N, Within(Append(job.read, c), t) PROVE FALSE OBVIOUS
  <2>. DEFINE M == Len(job.read)
              r == Append(job.read, c)
  <2>1. M \in Nat /\ Len(r) = M + 1 /\ \A m \in 1 .. M : r[m] = job.read[m] BY <1>1, <1>2
  <2>2. PICK n \in N .. M + 1 : \A m \in 1 .. N : r[n - N + m] = t[m]
    <3>. HIDE DEF r
    <3>. QED BY <2>1 DEF Within, r
  <2>3. CASE n = M + 1
    <3>1. Matches(r, t, N)
      <4>. HIDE DEF r, t
      <4>. QED BY <2>1, <2>2, <2>3, <1>2 DEF Matches
    <3>2. N \in 1 .. N BY <1>2
    <3>. QED BY <3>1, <3>2, <1>9
  <2>4. CASE n # M + 1
    <3>1. n \in N .. M BY <2>1, <2>4, <1>2
    <3>2. ASSUME NEW m \in 1 .. N PROVE job.read[n - N + m] = t[m]
      <4>1. n - N + m \in 1 .. M
        <5>. HIDE DEF N, M
        <5>. QED BY <3>1, <2>1, <1>2
      <4>. QED BY <4>1, <2>1, <2>2
    <3>3. Within(job.read, t) BY <3>1, <3>2 DEF Within
    <3>. QED BY <3>3, <1>3
  <2>. QED BY <2>3, <2>4
<1>11. FindInv'
  <2>1. job'.found => Matches(job'.read, t, N) BY <1>5, <1>7, <1>8
  <2>2. job'.at = "wait" => job'.index < N /\ Matches(job'.read, t, job'.index)
    BY <1>2, <1>4, <1>5, <1>7, <1>8
  <2>3. ~Alike(t) /\ ~job'.found => ~Within(job'.read, t) BY <1>5, <1>7, <1>10
  <2>4. ~Alike(t) /\ job'.at = "wait" =>
           \A k \in 1 .. N : Matches(job'.read, t, k) => k = job'.index
    BY <1>5, <1>7, <1>9
  <2>. HIDE DEF t, N, j, c
  <2>. QED BY <2>1, <2>2, <2>3, <2>4, <1>2, <1>5 DEF FindInv, N
<1>12. StreamTypeOK'
  <2>1. NextStop(c) \in Nat BY <1>1 DEF NextStop, JobType
  <2>2. job' \in JobType
    <3>1. Append(job.read, c) \in Seq(Bytes) /\ j \in Nat BY <1>1, <1>2, <1>4
    <3>2. \E found \in BOOLEAN, at \in {"wait", "done"} :
             job' = [job EXCEPT !.read = Append(job.read, c), !.index = j, !.stopIndex = NextStop(c),
                                !.found = found, !.at = at]
      BY DEF FindByte
    <3>3. PICK found \in BOOLEAN, at \in {"wait", "done"} :
             job' = [job EXCEPT !.read = Append(job.read, c), !.index = j, !.stopIndex = NextStop(c),
                                !.found = found, !.at = at]
      BY <3>2
    <3>4. job \in JobType BY <1>1
    <3>. HIDE DEF c, t, i, j, FindByte
    <3>. QED BY <3>1, <3>3, <3>4, <2>1, JobFound
  <2>3. input' \in Seq(Bytes) /\ Len(input') = Len(input) - 1 /\ Len(input) \in Nat BY <1>1
  <2>4. Len(job'.read) = Len(job.read) + 1 /\ Len(job.read) \in Nat BY <1>1, <1>2, <1>5
  <2>5. Len(job.read) + Len(input) <= came /\ came \in 0 .. MaxInput
    BY DEF StreamInv, StreamTypeOK
  <2>6. \A a, b, d \in Int : a + b <= d => a + 1 + (b - 1) <= d OBVIOUS
  <2>7. Len(job'.read) + Len(input') <= came'
    <3>1. came \in Int BY <2>5, StreamAssumption
    <3>. QED BY <2>3, <2>4, <2>5, <2>6, <1>1, <3>1
  <2>. QED BY <2>2, <2>3, <2>5, <2>7, <1>1 DEF StreamTypeOK
<1>13. ParseInv'
  <2>1. job.lost = 0 BY <1>1 DEF StreamInv, ParseInv
  <2>. QED BY <2>1, <1>5 DEF ParseInv
<1>. QED BY <1>11, <1>12, <1>13 DEF StreamInv

LEMMA JobReads ==
  ASSUME NEW g \in JobType, NEW r \in Seq(Bytes), NEW v \in Int, NEW a \in {"wait", "done"}
  PROVE  [g EXCEPT !.read = r, !.value = v, !.at = a] \in JobType
<1>1. a \in {"wait", "char", "next", "done"} OBVIOUS
<1>. QED BY <1>1 DEF JobType

(* A byte is taken from the input and kept as read.                        *)
LEMMA TakeKeepsLength ==
  ASSUME StreamTypeOK, input # <<>>, input' = Tail(input), came' = came,
         job'.read = Append(job.read, Head(input)), job' \in JobType
  PROVE  /\ StreamTypeOK' /\ Head(input) \in Bytes /\ Len(job.read) \in Nat
         /\ Len(job'.read) = Len(job.read) + 1 /\ Len(job'.read) <= MaxInput
         /\ \A i \in 1 .. Len(job.read) : job'.read[i] = job.read[i]
         /\ job'.read[Len(job.read) + 1] = Head(input)
         /\ job.read \in Seq(Bytes) /\ MaxInput \in Nat
<1>. DEFINE r == job.read
<1>1. r \in Seq(Bytes) /\ input \in Seq(Bytes) /\ came \in 0 .. MaxInput /\ MaxInput \in Nat
  BY StreamAssumption DEF StreamTypeOK, JobType
<1>2. /\ Head(input) \in Bytes /\ Tail(input) \in Seq(Bytes)
      /\ Len(Tail(input)) = Len(input) - 1 /\ Len(input) \in Nat \ {0}
  BY <1>1
<1>. DEFINE c == Head(input)
<1>3. /\ Len(r) \in Nat /\ Len(Append(r, c)) = Len(r) + 1
      /\ \A i \in 1 .. Len(r) : Append(r, c)[i] = r[i]
      /\ Append(r, c)[Len(r) + 1] = c
  <2>. HIDE DEF r, c
  <2>. QED BY <1>1, <1>2 DEF c
<1>4. Len(r) + Len(input) <= came BY DEF StreamTypeOK
<1>5. \A a, b, d, m \in Int : a + b <= d /\ b >= 1 /\ d <= m => a + 1 + (b - 1) <= d /\ a + 1 <= m
  OBVIOUS
<1>6. Len(r) + 1 + (Len(input) - 1) <= came /\ Len(r) + 1 <= MaxInput
  <2>1. Len(input) >= 1 /\ came \in Int /\ came <= MaxInput BY <1>1, <1>2
  <2>. HIDE DEF r
  <2>. QED BY <1>1, <1>2, <1>3, <1>4, <1>5, <2>1
<1>7. StreamTypeOK' BY <1>1, <1>2, <1>3, <1>6 DEF StreamTypeOK
<1>. QED BY <1>1, <1>2, <1>3, <1>6, <1>7

LEMMA ReadKeeps == ASSUME StreamInv, ReadByte PROVE StreamInv'
<1>1. /\ job.op = "read" /\ job.at = "wait" /\ input # <<>> /\ job \in JobType /\ job.lost = 0
      /\ input' = Tail(input) /\ came' = came /\ StreamTypeOK /\ job.value \in Int
  BY DEF ReadByte, Take, StreamInv, StreamTypeOK, ParseInv, JobType
<1>2. PICK v \in Int, a \in {"wait", "done"} :
         job' = [job EXCEPT !.read = Append(job.read, Head(input)), !.value = v, !.at = a]
  <2>. DEFINE c == Head(input)
              v == IF <<c>> = job.stop THEN job.value ELSE job.value + 1
              a(full) == IF full \/ <<c>> = job.stop THEN "done" ELSE "wait"
  <2>1. PICK full \in BOOLEAN :
           job' = [job EXCEPT !.read = Append(job.read, c), !.value = v, !.at = a(full)]
    BY DEF ReadByte
  <2>2. v \in Int BY <1>1
  <2>3. a(full) \in {"wait", "done"} OBVIOUS
  <2>. HIDE DEF v, a
  <2>. QED BY <2>1, <2>2, <2>3
<1>3. Append(job.read, Head(input)) \in Seq(Bytes)
  <2>1. job.read \in Seq(Bytes) /\ Head(input) \in Bytes BY <1>1 DEF StreamTypeOK, JobType
  <2>. QED BY <2>1
<1>4. job' \in JobType BY <1>1, <1>2, <1>3, JobReads
<1>5. /\ job'.op = "read" /\ job'.lost = 0 /\ job'.at \in {"wait", "done"}
      /\ job'.read = Append(job.read, Head(input))
  BY <1>1, <1>2 DEF JobType
<1>6. StreamTypeOK' BY <1>1, <1>4, <1>5, TakeKeepsLength
<1>. QED BY <1>5, <1>6 DEF StreamInv, FindInv, ParseInv

LEMMA GivesUpKeeps == ASSUME StreamInv, GivesUp PROVE StreamInv'
<1>1. /\ job.op \in {"find", "read"} /\ job.at = "wait" /\ job \in JobType /\ job.lost = 0
      /\ input' = input /\ came' = came /\ job' = [job EXCEPT !.at = "done"]
  BY DEF GivesUp, StreamInv, StreamTypeOK, ParseInv, JobType
<1>2. job' \in JobType BY <1>1 DEF JobType
<1>3. /\ job'.op = job.op /\ job'.lost = 0 /\ job'.at = "done" /\ job'.read = job.read
      /\ job'.target = job.target /\ job'.found = job.found
  BY <1>1 DEF JobType
<1>4. StreamTypeOK' BY <1>1, <1>2, <1>3 DEF StreamInv, StreamTypeOK
<1>5. FindInv' BY <1>1, <1>3 DEF StreamInv, FindInv
<1>. QED BY <1>1, <1>3, <1>4, <1>5 DEF StreamInv, ParseInv

(* What a text has used of it when one more byte is read.                  *)
LEMMA UsedAppend ==
  ASSUME NEW s \in Seq(Bytes), NEW c \in Bytes, NEW l \in 0 .. Len(s)
  PROVE  /\ SubSeq(s, l + 1, Len(s)) \in Seq(Int) /\ c \in Int
         /\ SubSeq(Append(s, c), l + 1, Len(s) + 1) = Append(SubSeq(s, l + 1, Len(s)), c)
         /\ Contains(Append(SubSeq(s, l + 1, Len(s)), c), Minus) <=>
               Contains(SubSeq(s, l + 1, Len(s)), Minus) \/ c = Minus
<1>. DEFINE N == Len(s)
            u == SubSeq(s, l + 1, N)
            v == SubSeq(Append(s, c), l + 1, N + 1)
<1>1. N \in Nat /\ l \in Nat /\ l <= N OBVIOUS
<1>2. u \in Seq(Bytes) /\ Len(u) = N - l /\ \A i \in 1 .. N - l : u[i] = s[l + i]
  OBVIOUS
<1>3. /\ Append(s, c) \in Seq(Bytes) /\ Len(Append(s, c)) = N + 1
      /\ Append(s, c)[N + 1] = c /\ \A i \in 1 .. N : Append(s, c)[i] = s[i]
  OBVIOUS
<1>4. v \in Seq(Bytes) /\ Len(v) = N + 1 - l /\ \A i \in 1 .. N + 1 - l : v[i] = Append(s, c)[l + i]
  <2>. DEFINE w == Append(s, c)
  <2>. HIDE DEF w
  <2>. QED BY <1>1, <1>3 DEF w
<1>5. /\ Append(u, c) \in Seq(Bytes) /\ Len(Append(u, c)) = N - l + 1
      /\ Append(u, c)[N - l + 1] = c /\ \A i \in 1 .. N - l : Append(u, c)[i] = u[i]
  <2>. HIDE DEF u
  <2>. QED BY <1>1, <1>2
<1>6. \A i \in 1 .. N + 1 - l : v[i] = Append(u, c)[i]
  <2>1. ASSUME NEW i \in 1 .. N + 1 - l PROVE v[i] = Append(u, c)[i]
    <3>1. CASE i = N + 1 - l
      <4>1. l + i = N + 1 /\ i = N - l + 1 BY <3>1, <1>1
      <4>2. v[i] = Append(s, c)[l + i] BY <1>4
      <4>. HIDE DEF v, u
      <4>. QED BY <4>1, <4>2, <1>3, <1>5
    <3>2. CASE i # N + 1 - l
      <4>1. i \in 1 .. N - l /\ l + i \in 1 .. N BY <3>2, <1>1
      <4>2. v[i] = Append(s, c)[l + i] BY <1>4
      <4>. HIDE DEF v, u
      <4>. QED BY <4>1, <4>2, <1>2, <1>3, <1>5
    <3>. QED BY <3>1, <3>2
  <2>. QED BY <2>1
<1>7. v = Append(u, c)
  <2>1. Len(v) = Len(Append(u, c)) BY <1>1, <1>4, <1>5
  <2>. DEFINE w == Append(u, c)
  <2>. HIDE DEF u, v, w
  <2>2. w \in Seq(Bytes) /\ v \in Seq(Bytes) /\ Len(v) = Len(w) BY <2>1, <1>4, <1>5 DEF w
  <2>3. \A i \in 1 .. Len(v) : v[i] = w[i] BY <1>4, <1>6 DEF w
  <2>. QED BY <2>2, <2>3, SeqEqual DEF w
<1>8. Contains(Append(u, c), Minus) <=> Contains(u, Minus) \/ c = Minus
  <2>. DEFINE w == Append(u, c)
              K == N - l
  <2>1. K \in Nat /\ Len(u) = K /\ Len(w) = K + 1 /\ w[K + 1] = c BY <1>1, <1>2, <1>5
  <2>2. \A i \in 1 .. K : w[i] = u[i] BY <1>5
  <2>. HIDE DEF u, w, K
  <2>3. Contains(w, Minus) => Contains(u, Minus) \/ c = Minus
    <3>1. \A i \in 1 .. K + 1 : i = K + 1 \/ i \in 1 .. K BY <2>1
    <3>. QED BY <2>1, <2>2, <3>1 DEF Contains
  <2>4. Contains(u, Minus) => Contains(w, Minus)
    <3>1. \A i \in 1 .. K : i \in 1 .. K + 1 BY <2>1
    <3>. QED BY <2>1, <2>2, <3>1 DEF Contains
  <2>5. c = Minus => Contains(w, Minus)
    <3>1. K + 1 \in 1 .. K + 1 BY <2>1
    <3>. QED BY <2>1, <3>1 DEF Contains
  <2>. QED BY <2>3, <2>4, <2>5 DEF w
<1>9. u \in Seq(Int) /\ c \in Int
  <2>1. Bytes \subseteq Int BY StreamAssumption
  <2>. HIDE DEF u
  <2>. QED BY <2>1, <1>2, SeqMonotonic
<1>. QED BY <1>7, <1>8, <1>9

LEMMA NumberHasInv ==
  ASSUME StreamInv, job.op \in {"int", "float"}
  PROVE  /\ StreamTypeOK /\ ValueInv /\ DecimalsInv /\ LostInv /\ PlaceInv
         /\ job \in JobType /\ job.read \in Seq(Bytes) /\ Len(job.read) \in Nat /\ job.lost \in Nat
         /\ job.value \in Int /\ job.late \in Nat /\ MaxInput \in Nat
         /\ Len(job.read) <= MaxInput /\ input \in Seq(Bytes)
<1>1. StreamTypeOK /\ job \in JobType /\ job.read \in Seq(Bytes) /\ input \in Seq(Bytes)
  BY DEF StreamInv, StreamTypeOK, JobType
<1>2. Len(job.read) \in Nat /\ Len(input) \in Nat BY <1>1
<1>3. \A a, b, d, m \in Int : a + b <= d /\ b >= 0 /\ d <= m => a <= m OBVIOUS
<1>4. Len(job.read) + Len(input) <= came /\ came \in 0 .. MaxInput /\ MaxInput \in Nat
  BY StreamAssumption, <1>1 DEF StreamTypeOK
<1>5. Len(job.read) <= MaxInput BY <1>2, <1>3, <1>4
<1>. QED BY <1>1, <1>2, <1>4, <1>5 DEF StreamInv, ParseInv, JobType

(* While a number is awaited, no point is one of its.                      *)
LEMMA NoPoints ==
  ASSUME NoneYet, Len(job.read) \in Nat, job.late \in Nat, Len(job.read) <= job.late
  PROVE  DecimalPlaces = {} /\ \A j \in 1 .. Len(job.read) : ~PointAt(j)
<1>1. \A j \in 1 .. Len(job.read) : ~PointAt(j)
  <2>1. ASSUME NEW j \in 1 .. Len(job.read) PROVE ~PointAt(j)
    <3>1. ~(j > job.late) OBVIOUS
    <3>2. \A k \in 1 .. j : k \in 1 .. Len(job.read) OBVIOUS
    <3>. QED BY <3>1, <3>2 DEF PointAt, NoneYet
  <2>. QED BY <2>1
<1>2. \A i \in 1 .. Len(job.read) : \A j \in 1 .. i : j \in 1 .. Len(job.read) OBVIOUS
<1>. QED BY <1>1, <1>2 DEF DecimalPlaces

(* What stands in front of the number is skipped.                          *)
LEMMA SkipKeeps ==
  ASSUME StreamInv, job.op \in {"int", "float"}, job.at = "wait", input # <<>>,
         ~OfNumber(Head(input)), input' = Tail(input), came' = came,
         job' = [job EXCEPT !.read = Append(@, Head(input))]
  PROVE  StreamInv'
<1>. DEFINE c == Head(input)
            N == Len(job.read)
<1>1. /\ StreamTypeOK /\ ValueInv /\ DecimalsInv /\ LostInv /\ PlaceInv
      /\ job \in JobType /\ job.read \in Seq(Bytes) /\ input \in Seq(Bytes)
  BY NumberHasInv
<1>2. c \in Bytes /\ Append(job.read, c) \in Seq(Bytes)
  BY <1>1
<1>3. /\ job' \in JobType /\ job'.op = job.op /\ job'.at = "wait" /\ job'.value = job.value
      /\ job'.read = Append(job.read, c) /\ job'.negative = job.negative
      /\ job'.point = job.point /\ job'.decimals = job.decimals /\ job'.late = job.late
      /\ job'.lost = job.lost
  <2>. DEFINE r == Append(job.read, c)
  <2>1. job' = [job EXCEPT !.read = r] /\ r \in Seq(Bytes) /\ job \in JobType BY <1>1, <1>2
  <2>. HIDE DEF r
  <2>2. job' \in JobType BY <2>1, ZenonT(30) DEF JobType
  <2>3. /\ job'.op = job.op /\ job'.at = job.at /\ job'.value = job.value
        /\ job'.read = r /\ job'.negative = job.negative /\ job'.point = job.point
        /\ job'.decimals = job.decimals /\ job'.late = job.late /\ job'.lost = job.lost
    BY <2>1 DEF JobType
  <2>. QED BY <2>2, <2>3 DEF r
<1>4. /\ StreamTypeOK' /\ N \in Nat /\ Len(job'.read) = N + 1 /\ N + 1 <= MaxInput
      /\ (\A i \in 1 .. N : job'.read[i] = job.read[i]) /\ job'.read[N + 1] = c
      /\ MaxInput \in Nat
  BY <1>1, <1>3, TakeKeepsLength
<1>5. job.lost = 0 /\ job.late = MaxInput /\ job.value = 0 /\ NoneYet BY <1>1 DEF PlaceInv
<1>6. NoneYet'
  <2>1. ASSUME NEW i \in 1 .. N + 1 PROVE ~OfNumber(job'.read[i])
    <3>1. CASE i = N + 1 BY <3>1, <1>4
    <3>2. CASE i # N + 1
      <4>1. i \in 1 .. N BY <3>2, <1>4
      <4>2. job'.read[i] = job.read[i] BY <4>1, <1>4
      <4>. QED BY <4>1, <4>2, <1>5 DEF NoneYet
    <3>. QED BY <3>1, <3>2
  <2>. QED BY <2>1, <1>4 DEF NoneYet
<1>7. PlaceInv' BY <1>3, <1>5, <1>6 DEF PlaceInv
<1>8. ValueInv'
  <2>. DEFINE u == SubSeq(job.read, 0 + 1, N)
  <2>1. Used = u BY <1>5 DEF Used
  <2>2. /\ u \in Seq(Int) /\ c \in Int
        /\ SubSeq(Append(job.read, c), 0 + 1, N + 1) = Append(u, c)
        /\ Contains(Append(u, c), Minus) <=> Contains(u, Minus) \/ c = Minus
    <3>1. 0 \in 0 .. N BY <1>4
    <3>. QED BY <3>1, <1>1, <1>2, UsedAppend
  <2>3. Used' = Append(u, c) BY <2>2, <1>3, <1>4, <1>5 DEF Used
  <2>4. ~Digit(c) /\ c # Minus BY DEF OfNumber
  <2>. HIDE DEF u, c
  <2>5. Number(Append(u, c)) = Number(u) BY <2>2, <2>4, NumberAppend
  <2>6. job.value = Number(u) /\ (job.negative <=> Contains(u, Minus))
    BY <1>1, <2>1 DEF ValueInv
  <2>7. job'.at # "done" /\ job'.lost <= Len(job'.read) BY <1>3, <1>4, <1>5
  <2>. QED BY <2>2, <2>3, <2>4, <2>5, <2>6, <2>7, <1>3 DEF ValueInv
<1>9. DecimalsInv'
  <2>1. DecimalPlaces = {} /\ \A j \in 1 .. N : ~PointAt(j) BY <1>4, <1>5, NoPoints
  <2>2. /\ NoneYet' /\ Len(job'.read) \in Nat /\ job'.late \in Nat /\ Len(job'.read) <= job'.late
    BY <1>3, <1>4, <1>5, <1>6
  <2>3. (DecimalPlaces = {} /\ \A j \in 1 .. Len(job.read) : ~PointAt(j))'
    <3>1. ASSUME NEW j \in 1 .. Len(job'.read) PROVE ~PointAt(j)'
      <4>1. ~(j > job'.late) BY <2>2
      <4>2. \A k \in 1 .. j : k \in 1 .. Len(job'.read) BY <2>2
      <4>. QED BY <4>1, <4>2, <2>2 DEF PointAt, NoneYet
    <3>2. \A i \in 1 .. Len(job'.read) : \A j \in 1 .. i : j \in 1 .. Len(job'.read) BY <2>2
    <3>. QED BY <3>1, <3>2 DEF DecimalPlaces
  <2>. QED BY <2>1, <2>3, <1>1, <1>3 DEF DecimalsInv
<1>10. LostInv' BY <1>3, <1>5 DEF LostInv
<1>. QED BY <1>3, <1>4, <1>7, <1>8, <1>9, <1>10 DEF StreamInv, FindInv, ParseInv

LEMMA JobLooks ==
  ASSUME NEW g \in JobType, NEW i \in Nat
  PROVE  /\ [g EXCEPT !.at = "char", !.index = i] \in JobType
         /\ [g EXCEPT !.at = "done"] \in JobType
         /\ \A l \in Nat : [g EXCEPT !.at = "char", !.index = i, !.late = l] \in JobType
         /\ \A v \in Int : [g EXCEPT !.at = "done", !.value = v] \in JobType
<1>1. "char" \in {"wait", "char", "next", "done"} /\ "done" \in {"wait", "char", "next", "done"}
  OBVIOUS
<1>2. [g EXCEPT !.at = "char", !.index = i] \in JobType BY <1>1 DEF JobType
<1>3. [g EXCEPT !.at = "done"] \in JobType BY <1>1 DEF JobType
<1>4. \A l \in Nat : [g EXCEPT !.at = "char", !.index = i, !.late = l] \in JobType
  BY <1>1 DEF JobType
<1>5. \A v \in Int : [g EXCEPT !.at = "done", !.value = v] \in JobType BY <1>1 DEF JobType
<1>. QED BY <1>2, <1>3, <1>4, <1>5

(* A step that reads nothing and changes no more of the job.               *)
LEMMA LooksKeeps ==
  ASSUME StreamInv, job.op \in {"int", "float"}, input' = input, came' = came, job' \in JobType,
         job'.op = job.op, job'.read = job.read, job'.lost = job.lost,
         job'.negative = job.negative, job'.point = job.point, job'.decimals = job.decimals
  PROVE  /\ StreamTypeOK' /\ Used' = Used /\ FindInv'
         /\ job'.late = job.late => /\ LostInv' /\ DecimalsInv' /\ (Begun => Begun')
         /\ NoneYet => NoneYet'
         /\ PlaceInv' /\ ValueInv' /\ LostInv' /\ DecimalsInv' => StreamInv'
<1>1. StreamTypeOK' BY NumberHasInv DEF StreamTypeOK
<1>2. Used' = Used BY DEF Used
<1>3. FindInv' BY DEF FindInv
<1>4. NoneYet => NoneYet' BY DEF NoneYet
<1>5. ASSUME job'.late = job.late PROVE LostInv' /\ DecimalsInv' /\ (Begun => Begun')
  <2>1. LostInv' BY <1>5, NumberHasInv DEF LostInv
  <2>2. \A j : PointAt(j)' <=> PointAt(j) BY <1>5 DEF PointAt
  <2>3. DecimalPlaces' = DecimalPlaces BY <2>2 DEF DecimalPlaces
  <2>4. DecimalsInv' BY <1>5, <2>2, <2>3, NumberHasInv DEF DecimalsInv
  <2>5. Begun => Begun' BY <1>5 DEF Begun
  <2>. QED BY <2>1, <2>4, <2>5
<1>. QED BY <1>1, <1>2, <1>3, <1>4, <1>5 DEF StreamInv, ParseInv

LEMMA PeekNextDigitKeeps == ASSUME StreamInv, PeekNextDigit PROVE StreamInv'
<1>1. /\ job.op \in {"int", "float"} /\ job.at = "wait" /\ came' = came
      /\ job.lost = 0 /\ job.late = MaxInput /\ job.value = 0 /\ NoneYet
  BY NumberHasInv DEF PeekNextDigit, PlaceInv
<1>2. PICK c \in Bytes \union {TimedOut} :
         /\ Peeked(c)
         /\ \/ /\ c # TimedOut /\ c # Minus /\ ~Digit(c)
               /\ Take /\ job' = [job EXCEPT !.read = Append(@, c)]
            \/ /\ c = Minus \/ Digit(c)
               /\ job' = [job EXCEPT !.at = "char", !.index = c] /\ UNCHANGED input
            \/ /\ c = TimedOut /\ job.op = "int"
               /\ job' = [job EXCEPT !.at = "done"] /\ UNCHANGED input
            \/ /\ c = TimedOut /\ job.op = "float"
               /\ job' = [job EXCEPT !.at = "char", !.index = 255, !.late = Len(job.read)]
               /\ UNCHANGED input
  BY DEF PeekNextDigit
<1>3. /\ job \in JobType /\ StreamTypeOK /\ ValueInv /\ DecimalsInv /\ LostInv /\ PlaceInv
      /\ Len(job.read) \in Nat /\ Len(job.read) <= MaxInput /\ MaxInput \in Nat
  BY <1>1, NumberHasInv
<1>4. c # TimedOut => input # <<>> /\ c = Head(input) /\ c \in Bytes BY <1>2 DEF Peeked
<1>5. CASE c # TimedOut /\ c # Minus /\ ~Digit(c) /\ Take /\ job' = [job EXCEPT !.read = Append(@, c)]
  BY <1>1, <1>4, <1>5, SkipKeeps DEF OfNumber, Take
<1>6. CASE (c = Minus \/ Digit(c)) /\ job' = [job EXCEPT !.at = "char", !.index = c] /\ input' = input
  <2>1. c # TimedOut /\ c \in 0 .. 255 /\ c \in Nat
    BY <1>4, <1>6, StreamAssumption DEF Digit, Minus, TimedOut
  <2>2. job' \in JobType BY <1>3, <1>6, <2>1, JobLooks
  <2>3. /\ job'.op = job.op /\ job'.at = "char" /\ job'.index = c /\ job'.read = job.read
        /\ job'.lost = job.lost /\ job'.negative = job.negative /\ job'.point = job.point
        /\ job'.decimals = job.decimals /\ job'.late = job.late /\ job'.value = job.value
    BY <1>3, <1>6 DEF JobType
  <2>4. PlaceInv' BY <2>1, <2>3, <1>4, <1>6 DEF PlaceInv, OfNumber
  <2>5. Used' = Used BY <2>3 DEF Used
  <2>6. ValueInv' BY <2>3, <2>5, <1>1, <1>3 DEF ValueInv
  <2>. QED BY <1>1, <1>6, <2>2, <2>3, <2>4, <2>6, LooksKeeps
<1>7. CASE c = TimedOut /\ job.op = "int" /\ job' = [job EXCEPT !.at = "done"] /\ input' = input
  <2>1. 0 \in Nat OBVIOUS
  <2>2. job' \in JobType BY <2>1, <1>3, <1>7, JobLooks
  <2>3. /\ job'.op = job.op /\ job'.at = "done" /\ job'.read = job.read
        /\ job'.lost = job.lost /\ job'.negative = job.negative /\ job'.point = job.point
        /\ job'.decimals = job.decimals /\ job'.late = job.late /\ job'.value = job.value
    BY <1>3, <1>7 DEF JobType
  <2>4. PlaceInv' BY <2>3 DEF PlaceInv
  <2>5. Used' = Used BY <2>3 DEF Used
  <2>6. ValueInv'
    <3>1. job.value = 0 /\ Number(Used) = 0 BY <1>1, <1>3 DEF ValueInv
    <3>2. job'.lost <= Len(job'.read) BY <2>3, <1>1, <1>3
    <3>. QED BY <3>1, <3>2, <2>3, <2>5 DEF ValueInv
  <2>. QED BY <1>1, <1>7, <2>2, <2>3, <2>4, <2>6, LooksKeeps
<1>8. CASE /\ c = TimedOut /\ job.op = "float" /\ input' = input
           /\ job' = [job EXCEPT !.at = "char", !.index = 255, !.late = Len(job.read)]
  <2>1. 255 \in Nat OBVIOUS
  <2>2. job' \in JobType BY <2>1, <1>3, <1>8, JobLooks, ZenonT(30)
  <2>3. /\ job'.op = job.op /\ job'.at = "char" /\ job'.index = 255 /\ job'.read = job.read
        /\ job'.lost = job.lost /\ job'.negative = job.negative /\ job'.point = job.point
        /\ job'.decimals = job.decimals /\ job'.late = Len(job.read) /\ job'.value = job.value
    BY <1>3, <1>8 DEF JobType
  <2>4. NoneYet' BY <1>1, <2>3 DEF NoneYet
  <2>5. PlaceInv'
    <3>1. Late' BY <2>3, <2>4, <1>1, <1>8 DEF Late
    <3>2. Begun' BY <2>3, <1>3 DEF Begun
    <3>. QED BY <3>1, <3>2, <2>3 DEF PlaceInv
  <2>6. Used' = Used BY <2>3 DEF Used
  <2>7. ValueInv' BY <2>3, <2>6, <1>1, <1>3 DEF ValueInv
  <2>8. LostInv' BY <2>3, <1>1 DEF LostInv
  <2>9. DecimalsInv'
    <3>1. DecimalPlaces = {} /\ \A j \in 1 .. Len(job.read) : ~PointAt(j)
      BY <1>1, <1>3, NoPoints
    <3>2. ASSUME NEW j \in 1 .. Len(job.read) PROVE ~PointAt(j)'
      <4>1. ~(j > job'.late) BY <2>3, <1>3
      <4>2. \A k \in 1 .. j : k \in 1 .. Len(job'.read) BY <2>3, <1>3
      <4>. QED BY <4>1, <4>2, <2>4 DEF PointAt, NoneYet
    <3>3. \A i \in 1 .. Len(job.read) : \A j \in 1 .. i : j \in 1 .. Len(job.read) BY <1>3
    <3>4. DecimalPlaces' = {} BY <3>2, <3>3, <2>3 DEF DecimalPlaces
    <3>. QED BY <3>1, <3>2, <3>4, <2>3, <1>3, <1>8 DEF DecimalsInv
  <2>. QED BY <1>1, <1>8, <2>2, <2>3, <2>5, <2>7, <2>8, <2>9, LooksKeeps
<1>. QED BY <1>2, <1>5, <1>6, <1>7, <1>8

LEMMA PeekNextKeeps == ASSUME StreamInv, PeekNext PROVE StreamInv'
<1>1. job.op \in {"int", "float"} /\ job.at = "next" /\ came' = came /\ input' = input
  BY DEF PeekNext
<1>2. PICK c \in Bytes \union {TimedOut} :
         /\ Peeked(c)
         /\ job' = IF GoesOn(c) THEN [job EXCEPT !.at = "char", !.index = c]
                   ELSE [job EXCEPT !.at = "done",
                                    !.value = IF job.negative THEN -job.value ELSE job.value]
  BY DEF PeekNext
<1>3. /\ job \in JobType /\ StreamTypeOK /\ ValueInv /\ DecimalsInv /\ LostInv /\ PlaceInv
      /\ job.value \in Int /\ Begun /\ job.lost <= Len(job.read)
  BY <1>1, NumberHasInv DEF PlaceInv, ValueInv
<1>4. CASE GoesOn(c)
  <2>1. c # TimedOut
    BY <1>4, StreamAssumption DEF GoesOn, Digit, TimedOut, Point
  <2>2. input # <<>> /\ c = Head(input) /\ c \in Bytes BY <2>1, <1>2 DEF Peeked
  <2>3. c \in 0 .. 255 /\ c \in Nat
    <3>1. Bytes \subseteq 0 .. 255 BY StreamAssumption
    <3>2. c \in Bytes BY <2>2
    <3>. QED BY <3>1, <3>2
  <2>4. job' = [job EXCEPT !.at = "char", !.index = c] BY <1>2, <1>4
  <2>5. job' \in JobType BY <1>3, <2>3, <2>4, JobLooks
  <2>6. /\ job'.op = job.op /\ job'.at = "char" /\ job'.index = c /\ job'.read = job.read
        /\ job'.lost = job.lost /\ job'.negative = job.negative /\ job'.point = job.point
        /\ job'.decimals = job.decimals /\ job'.late = job.late /\ job'.value = job.value
    BY <1>3, <2>4 DEF JobType
  <2>7. Begun' BY <1>1, <1>3, <2>5, <2>6, LooksKeeps
  <2>8. PlaceInv' BY <1>1, <2>2, <2>3, <2>6, <2>7 DEF PlaceInv
  <2>9. Used' = Used BY <2>6 DEF Used
  <2>10. ValueInv' BY <1>1, <1>3, <2>6, <2>9 DEF ValueInv
  <2>. QED BY <1>1, <2>5, <2>6, <2>8, <2>10, LooksKeeps
<1>5. CASE ~GoesOn(c)
  <2>. DEFINE v == IF job.negative THEN -job.value ELSE job.value
  <2>1. job' = [job EXCEPT !.at = "done", !.value = v] /\ v \in Int /\ 0 \in Nat
    BY <1>2, <1>3, <1>5
  <2>. HIDE DEF v
  <2>2. job' \in JobType BY <1>3, <2>1, JobLooks
  <2>3. /\ job'.op = job.op /\ job'.at = "done" /\ job'.value = v /\ job'.read = job.read
        /\ job'.lost = job.lost /\ job'.negative = job.negative /\ job'.point = job.point
        /\ job'.decimals = job.decimals /\ job'.late = job.late
    BY <1>3, <2>1 DEF JobType
  <2>4. PlaceInv' BY <2>3 DEF PlaceInv
  <2>5. Used' = Used BY <2>3 DEF Used
  <2>6. v = (IF Contains(Used, Minus) THEN -1 ELSE 1) * Number(Used)
    BY <1>1, <1>3 DEF ValueInv, v
  <2>7. ValueInv' BY <2>3, <2>5, <2>6, <1>3 DEF ValueInv
  <2>. QED BY <1>1, <2>2, <2>3, <2>4, <2>7, LooksKeeps
<1>. QED BY <1>4, <1>5

(* A character is used when the byte read behind it is itself.             *)
LEMMA UseOwnKeeps ==
  ASSUME StreamInv, job.op \in {"int", "float"}, job.at = "char", input # <<>>,
         Head(input) = job.index, input' = Tail(input), came' = came, job' \in JobType,
         job'.op = job.op, job'.at = "next", job'.read = Append(job.read, Head(input)),
         job'.value = Valued(job.index), job'.negative = (job.negative \/ job.index = Minus),
         job'.point = (job.point \/ (job.op = "float" /\ job.index = Point)),
         job'.decimals = (IF job.point /\ Digit(job.index) THEN job.decimals + 1 ELSE job.decimals),
         job'.lost = job.lost, job'.late = job.late
  PROVE  StreamInv'
<1>. DEFINE c == Head(input)
            N == Len(job.read)
            l == job.lost
            u == SubSeq(job.read, l + 1, N)
<1>1. /\ StreamTypeOK /\ ValueInv /\ DecimalsInv /\ LostInv /\ PlaceInv
      /\ job \in JobType /\ job.read \in Seq(Bytes) /\ l \in Nat /\ job.late \in Nat
      /\ Begun \/ OfNumber(c)
  BY NumberHasInv DEF PlaceInv
<1>2. /\ StreamTypeOK' /\ N \in Nat /\ Len(job'.read) = N + 1 /\ N + 1 <= MaxInput /\ c \in Bytes
      /\ (\A i \in 1 .. N : job'.read[i] = job.read[i]) /\ job'.read[N + 1] = c
  BY <1>1, TakeKeepsLength
<1>3. l <= N BY <1>1 DEF ValueInv
<1>4. ValueInv'
  <2>1. Used = u BY DEF Used
  <2>2. /\ u \in Seq(Int) /\ c \in Int
        /\ SubSeq(Append(job.read, c), l + 1, N + 1) = Append(u, c)
        /\ Contains(Append(u, c), Minus) <=> Contains(u, Minus) \/ c = Minus
    <3>1. l \in 0 .. N BY <1>1, <1>2, <1>3
    <3>. HIDE DEF c, l
    <3>. QED BY <3>1, <1>1, <1>2, UsedAppend
  <2>3. Used' = Append(u, c) BY <2>2, <1>2 DEF Used
  <2>. HIDE DEF u, c
  <2>4. job.value = Number(u) /\ (job.negative <=> Contains(u, Minus))
    BY <1>1, <2>1 DEF ValueInv
  <2>5. job'.value = Number(Append(u, c))
    <3>1. Number(Append(u, c)) = IF Digit(c) THEN Number(u) * 10 + (c - 48) ELSE Number(u)
      BY <2>2, NumberAppend
    <3>. QED BY <3>1, <2>4 DEF Valued, c
  <2>6. job'.negative <=> Contains(Append(u, c), Minus) BY <2>2, <2>4 DEF c
  <2>7. job'.lost <= Len(job'.read) BY <1>1, <1>2, <1>3
  <2>. QED BY <2>3, <2>5, <2>6, <2>7 DEF ValueInv
<1>5. Begun'
  <2>1. CASE job.late <= N BY <2>1, <1>1, <1>2 DEF Begun
  <2>2. CASE \E k \in 1 .. N : OfNumber(job.read[k])
    <3>1. PICK k \in 1 .. N : OfNumber(job.read[k]) BY <2>2
    <3>2. k \in 1 .. Len(job'.read) /\ job'.read[k] = job.read[k] BY <1>2
    <3>. QED BY <3>1, <3>2 DEF Begun
  <2>3. CASE OfNumber(c)
    <3>1. N + 1 \in 1 .. Len(job'.read) BY <1>2
    <3>. QED BY <3>1, <2>3, <1>2 DEF Begun
  <2>. QED BY <2>1, <2>2, <2>3, <1>1 DEF Begun
<1>6. PlaceInv' BY <1>5 DEF PlaceInv
<1>7. LostInv'
  <2>. SUFFICES ASSUME l # 0 PROVE LostInv' BY DEF LostInv
  <2>1. /\ job.op = "float" /\ l = job.late + 1
        /\ \A i \in 1 .. job.late : ~OfNumber(job.read[i])
    BY <1>1 DEF LostInv
  <2>2. \A i \in 1 .. job.late : i \in 1 .. N BY <2>1, <1>1, <1>2, <1>3
  <2>. QED BY <2>1, <2>2, <1>2 DEF LostInv
<1>8. \A j \in 1 .. N : PointAt(j)' <=> PointAt(j)
  <2>1. ASSUME NEW j \in 1 .. N PROVE PointAt(j)' <=> PointAt(j)
    <3>1. \A k \in 1 .. j : k \in 1 .. N BY <1>2
    <3>2. \A k \in 1 .. j : job'.read[k] = job.read[k] BY <3>1, <1>2
    <3>. QED BY <3>2, <1>2 DEF PointAt
  <2>. QED BY <2>1
<1>9. PICK m \in Nat : m = N + 1 BY <1>2
<1>10. PointAt(m)' <=> c = Point
  <2>1. m # job'.lost BY <1>1, <1>2, <1>3, <1>9
  <2>2. m > job'.late \/ \E k \in 1 .. m : OfNumber(job'.read[k])
    BY <1>1, <1>2, <1>5, <1>9 DEF Begun
  <2>3. job'.read[m] = c BY <1>2, <1>9
  <2>. QED BY <2>1, <2>2, <2>3 DEF PointAt
<1>11. DecimalsInv'
  <2>1. CASE job.op = "int" BY <2>1, <1>1 DEF DecimalsInv
  <2>2. CASE job.op = "float"
    <3>1. /\ job.point <=> \E j \in 1 .. N : PointAt(j)
          /\ job.decimals = Cardinality(DecimalPlaces)
      BY <1>1, <2>2 DEF DecimalsInv
    <3>2. \A j \in 1 .. m : j = m \/ j \in 1 .. N BY <1>2, <1>9
    <3>3. (\E j \in 1 .. m : PointAt(j)') <=> job.point \/ c = Point
      <4>1. m \in 1 .. m /\ \A j \in 1 .. N : j \in 1 .. m BY <1>2, <1>9
      <4>. QED BY <3>1, <3>2, <4>1, <1>8, <1>10
    <3>4. job'.point <=> \E j \in 1 .. Len(job'.read) : PointAt(j)'
      BY <3>3, <2>2, <1>2, <1>9
    <3>. DEFINE D == DecimalPlaces
                E == {i \in 1 .. m : Digit(job'.read[i]) /\ \E j \in 1 .. i : PointAt(j)'}
    <3>5. DecimalPlaces' = E BY <1>2, <1>9 DEF DecimalPlaces
    <3>6. E \ {m} = D
      <4>1. ASSUME NEW i \in 1 .. N
            PROVE  Digit(job'.read[i]) = Digit(job.read[i]) /\ i \in 1 .. m /\ i # m
                   /\ ((\E j \in 1 .. i : PointAt(j)') <=> \E j \in 1 .. i : PointAt(j))
        <5>1. \A j \in 1 .. i : j \in 1 .. N BY <1>2
        <5>2. i \in 1 .. m /\ i # m BY <1>2, <1>9
        <5>. QED BY <5>1, <5>2, <1>2, <1>8
      <4>. QED BY <4>1, <3>2 DEF DecimalPlaces
    <3>7. m \in E <=> Digit(c) /\ job.point
      <4>1. m \in 1 .. m /\ job'.read[m] = c BY <1>2, <1>9
      <4>2. ~(Digit(c) /\ c = Point) BY DEF Digit, Point
      <4>. QED BY <4>1, <4>2, <3>3
    <3>8. m \notin D BY <1>2, <1>9 DEF DecimalPlaces
    <3>9. IsFiniteSet(D)
      <4>1. IsFiniteSet(1 .. N) BY <1>2, FS_Interval
      <4>2. D \subseteq 1 .. N BY DEF DecimalPlaces
      <4>. QED BY <4>1, <4>2, FS_Subset
    <3>. HIDE DEF D, E
    <3>10. Cardinality(E) = IF Digit(c) /\ job.point THEN Cardinality(D) + 1 ELSE Cardinality(D)
      <4>1. CASE m \in E
        <5>1. E = D \cup {m} BY <4>1, <3>6
        <5>. QED BY <5>1, <4>1, <3>7, <3>8, <3>9, FS_AddElement
      <4>2. CASE m \notin E
        <5>1. E = D BY <4>2, <3>6
        <5>. QED BY <5>1, <4>2, <3>7
      <4>. QED BY <4>1, <4>2
    <3>11. job'.decimals = Cardinality(E) BY <3>1, <3>10 DEF D
    <3>. QED BY <3>4, <3>5, <3>11, <2>2 DEF DecimalsInv
  <2>. QED BY <2>1, <2>2
<1>. QED BY <1>2, <1>4, <1>6, <1>7, <1>11 DEF StreamInv, FindInv, ParseInv

(* The byte that is read after the timeout is not looked at.               *)
LEMMA UseLateKeeps ==
  ASSUME StreamInv, job.at = "char", Late, input # <<>>,
         Head(input) # job.index, input' = Tail(input), came' = came, job' \in JobType,
         job'.op = job.op, job'.at = "next", job'.read = Append(job.read, Head(input)),
         job'.value = job.value, job'.negative = job.negative, job'.point = job.point,
         job'.decimals = job.decimals, job'.lost = Len(job.read) + 1, job'.late = job.late
  PROVE  StreamInv'
<1>. DEFINE N == Len(job.read)
<1>1. /\ job.op = "float" /\ job.late = N /\ job.lost = 0 /\ job.value = 0 /\ NoneYet
  BY DEF Late
<1>2. /\ StreamTypeOK /\ ValueInv /\ DecimalsInv BY <1>1, NumberHasInv
<1>3. /\ StreamTypeOK' /\ N \in Nat /\ Len(job'.read) = N + 1
      /\ (\A i \in 1 .. N : job'.read[i] = job.read[i]) /\ job.read \in Seq(Bytes)
      /\ job'.read \in Seq(Bytes)
  BY <1>2, TakeKeepsLength DEF JobType
<1>4. PICK m \in Nat : m = N + 1 BY <1>3
<1>5. ValueInv'
  <2>1. Used' = <<>>
    <3>1. Used' = SubSeq(job'.read, m + 1, m) BY <1>3, <1>4 DEF Used
    <3>. QED BY <3>1, SubSeqEmpty
  <2>2. ~job.negative
    <3>1. Used = SubSeq(job.read, 1, N) BY <1>1 DEF Used
    <3>2. Used = job.read BY <3>1, <1>3
    <3>3. ~Contains(job.read, Minus) BY <1>1 DEF NoneYet, OfNumber, Contains
    <3>. QED BY <3>2, <3>3, <1>2 DEF ValueInv
  <2>3. ~Contains(<<>>, Minus) BY DEF Contains
  <2>4. job'.lost <= Len(job'.read) BY <1>3
  <2>. QED BY <2>1, <2>2, <2>3, <2>4, <1>1, NumberEmpty DEF ValueInv
<1>6. LostInv' BY <1>1, <1>3 DEF LostInv, NoneYet
<1>7. PlaceInv' BY <1>1, <1>3 DEF PlaceInv, Begun
<1>8. DecimalsInv'
  <2>1. DecimalPlaces = {} /\ \A j \in 1 .. N : ~PointAt(j) BY <1>1, <1>3, NoPoints
  <2>2. \A j \in 1 .. m : ~PointAt(j)'
    <3>1. ASSUME NEW j \in 1 .. m PROVE ~PointAt(j)'
      <4>1. CASE j = m BY <4>1, <1>4 DEF PointAt
      <4>2. CASE j # m
        <5>1. j \in 1 .. N /\ ~(j > job'.late) BY <4>2, <1>1, <1>3, <1>4
        <5>2. \A k \in 1 .. j : k \in 1 .. N /\ job'.read[k] = job.read[k] BY <5>1, <1>3
        <5>. QED BY <5>1, <5>2, <1>1 DEF PointAt, NoneYet
      <4>. QED BY <4>1, <4>2
    <3>. QED BY <3>1
  <2>3. \A i \in 1 .. m : \A j \in 1 .. i : j \in 1 .. m BY <1>4
  <2>4. DecimalPlaces' = {} BY <2>2, <2>3, <1>3, <1>4 DEF DecimalPlaces
  <2>. QED BY <2>1, <2>2, <2>4, <1>1, <1>2, <1>3, <1>4 DEF DecimalsInv
<1>. QED BY <1>1, <1>3, <1>5, <1>6, <1>7, <1>8 DEF StreamInv, FindInv, ParseInv

LEMMA JobUses ==
  ASSUME NEW g \in JobType, NEW v \in Int, NEW n \in BOOLEAN, NEW p \in BOOLEAN, NEW d \in Nat,
         NEW r \in Seq(Bytes), NEW l \in Nat
  PROVE  [g EXCEPT !.value = v, !.negative = n, !.point = p, !.decimals = d, !.read = r,
                   !.lost = l, !.at = "next"] \in JobType
<1>1. "next" \in {"wait", "char", "next", "done"} OBVIOUS
<1>. QED BY <1>1 DEF JobType

LEMMA UseCharKeeps == ASSUME StreamInv, UseChar PROVE StreamInv'
<1>. DEFINE c == Head(input)
            v == Valued(job.index)
            n == job.negative \/ job.index = Minus
            p == job.point \/ (job.op = "float" /\ job.index = Point)
            d == IF job.point /\ Digit(job.index) THEN job.decimals + 1 ELSE job.decimals
            r == IF input = <<>> THEN job.read ELSE Append(job.read, c)
            l == IF input # <<>> /\ c # job.index THEN Len(job.read) + 1 ELSE job.lost
<1>1. /\ job.op \in {"int", "float"} /\ job.at = "char" /\ came' = came
      /\ input' = (IF input = <<>> THEN <<>> ELSE Tail(input))
      /\ job' = [job EXCEPT !.value = v, !.negative = n, !.point = p, !.decimals = d, !.read = r,
                            !.lost = l, !.at = "next"]
  BY DEF UseChar
<1>2. /\ StreamTypeOK /\ ValueInv /\ DecimalsInv /\ LostInv /\ PlaceInv
      /\ job \in JobType /\ job.read \in Seq(Bytes) /\ input \in Seq(Bytes)
      /\ Len(job.read) \in Nat
  BY <1>1, NumberHasInv
<1>3. job' \in JobType
  <2>1. v \in Int BY <1>2 DEF Valued, JobType
  <2>2. n \in BOOLEAN /\ p \in BOOLEAN BY <1>2 DEF JobType
  <2>3. d \in Nat BY <1>2 DEF JobType
  <2>4. r \in Seq(Bytes) BY <1>2
  <2>5. l \in Nat BY <1>2 DEF JobType
  <2>. HIDE DEF v, n, p, d, r, l
  <2>. QED BY <1>1, <1>2, <2>1, <2>2, <2>3, <2>4, <2>5, JobUses
<1>4. /\ job'.op = job.op /\ job'.at = "next" /\ job'.value = v /\ job'.negative = n
      /\ job'.point = p /\ job'.decimals = d /\ job'.read = r /\ job'.lost = l
      /\ job'.late = job.late
  <2>. HIDE DEF v, n, p, d, r, l
  <2>. QED BY <1>1, <1>2 DEF JobType
<1>5. Late \/ (input # <<>> /\ c = job.index) BY <1>1, <1>2 DEF PlaceInv
<1>6. Late => /\ v = job.value /\ n = job.negative /\ p = job.point /\ d = job.decimals
              /\ Begun
  <2>1. ~Digit(255) /\ 255 # Minus /\ 255 # Point BY DEF Digit, Minus, Point
  <2>. QED BY <2>1, <1>2 DEF Late, Valued, Begun, JobType
<1>7. CASE input # <<>> /\ c = job.index
  BY <1>1, <1>3, <1>4, <1>7, UseOwnKeeps
<1>8. CASE input # <<>> /\ c # job.index
  <2>1. Late BY <1>5, <1>8
  <2>. QED BY <1>1, <1>3, <1>4, <1>6, <1>8, <2>1, UseLateKeeps
<1>9. CASE input = <<>>
  <2>1. Late BY <1>5, <1>9
  <2>2. /\ job'.value = job.value /\ job'.negative = job.negative /\ job'.point = job.point
        /\ job'.decimals = job.decimals /\ job'.read = job.read /\ job'.lost = job.lost
        /\ input' = input
    BY <1>1, <1>4, <1>6, <1>9, <2>1
  <2>3. Begun' BY <1>1, <1>3, <1>4, <1>6, <2>1, <2>2, LooksKeeps
  <2>4. PlaceInv' BY <2>3, <1>4 DEF PlaceInv
  <2>5. Used' = Used BY <2>2 DEF Used
  <2>6. ValueInv' BY <2>2, <2>5, <1>1, <1>2, <1>4 DEF ValueInv
  <2>. QED BY <1>1, <1>3, <1>4, <2>2, <2>4, <2>6, LooksKeeps
<1>. QED BY <1>7, <1>8, <1>9

(* Every step of the class keeps the invariant.                            *)
LEMMA StreamKeeps == ASSUME StreamInv, [StreamNext]_streamVars PROVE StreamInv'
<1>1. CASE UNCHANGED streamVars
  <2>1. input' = input /\ came' = came /\ job' = job BY <1>1 DEF streamVars
  <2>2. StreamTypeOK' BY <2>1 DEF StreamInv, StreamTypeOK
  <2>3. FindInv' BY <2>1 DEF StreamInv, FindInv
  <2>4. ParseInv'
    BY <2>1 DEF StreamInv, ParseInv, ValueInv, Used, DecimalsInv, DecimalPlaces, PointAt,
                LostInv, PlaceInv, NoneYet, Begun, Late
  <2>. QED BY <2>2, <2>3, <2>4 DEF StreamInv
<1>2. CASE StreamNext
  BY <1>2, ComesKeeps, BeginsKeeps, FindKeeps, ReadKeeps, GivesUpKeeps, PeekNextDigitKeeps,
     UseCharKeeps, PeekNextKeeps DEF StreamNext
<1>. QED BY <1>1, <1>2

-----------------------------------------------------------------------------
(* What the invariant says of the texts.                                   *)

(* The end of a text, by its characters.                                   *)
LEMMA EndsInIs ==
  ASSUME NEW s \in Seq(Int), NEW t \in Seq(Int)
  PROVE  EndsIn(s, t) <=> Matches(s, t, Len(t))
<1>. DEFINE a == Len(s)
            b == Len(t)
            e == SubSeq(s, a - b + 1, a)
<1>1. a \in Nat /\ b \in Nat OBVIOUS
<1>2. CASE b <= a
  <2>1. \A x, y \in Nat : y <= x => x - y + 1 \in 1 .. x + 1 /\ x - (x - y + 1) + 1 = y OBVIOUS
  <2>2. a - b + 1 \in 1 .. a + 1 /\ a - (a - b + 1) + 1 = b BY <2>1, <1>1, <1>2
  <2>3. e \in Seq(Int) /\ Len(e) = b /\ \A i \in 1 .. b : e[i] = s[a - b + i]
    BY <1>1, <1>2
  <2>4. e = t <=> \A i \in 1 .. b : e[i] = t[i]
    <3>. HIDE DEF e
    <3>. QED BY <2>3, SeqEqual
  <2>. QED BY <2>3, <2>4, <1>2 DEF EndsIn, Matches
<1>3. CASE ~(b <= a) BY <1>3 DEF EndsIn, Matches
<1>. QED BY <1>2, <1>3

(* The end of a text's beginning.                                          *)
LEMMA BeginningEndsIn ==
  ASSUME NEW s \in Seq(Int), NEW t \in Seq(Int), NEW n \in 0 .. Len(s)
  PROVE  EndsIn(SubSeq(s, 1, n), t) <=>
            Len(t) <= n /\ \A i \in 1 .. Len(t) : s[n - Len(t) + i] = t[i]
<1>. DEFINE u == SubSeq(s, 1, n)
<1>1. u \in Seq(Int) /\ Len(u) = n /\ \A i \in 1 .. n : u[i] = s[i] OBVIOUS
<1>2. EndsIn(u, t) <=> Matches(u, t, Len(t))
  <2>. HIDE DEF u
  <2>. QED BY <1>1, EndsInIs
<1>. HIDE DEF u
<1>3. ASSUME Len(t) <= n, NEW i \in 1 .. Len(t) PROVE u[n - Len(t) + i] = s[n - Len(t) + i]
  <2>1. \A a, b, d \in Nat : a <= b /\ d \in 1 .. a => b - a + d \in 1 .. b OBVIOUS
  <2>2. n - Len(t) + i \in 1 .. n BY <1>3, <2>1
  <2>. QED BY <2>2, <1>1
<1>. QED BY <1>1, <1>2, <1>3 DEF Matches, u

(* What occurs is within.                                                  *)
LEMMA OccursWithin ==
  ASSUME NEW s \in Seq(Int), NEW t \in Seq(Int), Occurs(s, t)
  PROVE  Within(s, t)
<1>1. PICK n \in 1 .. Len(s) : EndsIn(SubSeq(s, 1, n), t) BY DEF Occurs
<1>2. Len(t) <= n /\ \A i \in 1 .. Len(t) : s[n - Len(t) + i] = t[i]
  BY <1>1, BeginningEndsIn
<1>3. n \in Len(t) .. Len(s) BY <1>2
<1>. QED BY <1>2, <1>3 DEF Within

(* What is alike is similar to itself.                                     *)
LEMMA AlikeSimilar ==
  ASSUME NEW t \in Seq(Int), Alike(t)
  PROVE  SelfSimilar(t)
<1>1. PICK n \in 1 .. Len(t) - 1 : \E m \in 1 .. Len(t) - 1 :
         m < n /\ \A i \in 1 .. m : t[n - m + i] = t[i]
  BY DEF Alike
<1>2. PICK m \in 1 .. Len(t) - 1 : m < n /\ \A i \in 1 .. m : t[n - m + i] = t[i]
  BY <1>1
<1>. DEFINE u == SubSeq(t, 1, m)
<1>3. u \in Seq(Int) /\ Len(u) = m /\ \A i \in 1 .. m : u[i] = t[i]
  BY <1>2
<1>4. n \in 0 .. Len(t) BY <1>2
<1>5. EndsIn(SubSeq(t, 1, n), u)
  <2>. HIDE DEF u
  <2>1. \A i \in 1 .. Len(u) : t[n - Len(u) + i] = u[i] BY <1>2, <1>3
  <2>2. Len(u) <= n BY <1>2, <1>3
  <2>. QED BY <2>1, <2>2, <1>3, <1>4, BeginningEndsIn
<1>. QED BY <1>2, <1>5 DEF SelfSimilar

LEMMA TextsOfInts ==
  ASSUME StreamInv
  PROVE  job.read \in Seq(Int) /\ job.target \in Seq(Int)
<1>1. job.read \in Seq(Bytes) /\ job.target \in Seq(1 .. 255)
  BY DEF StreamInv, StreamTypeOK, JobType
<1>2. Bytes \subseteq Int /\ 1 .. 255 \subseteq Int BY StreamAssumption
<1>. QED BY <1>1, <1>2, SeqMonotonic

(* The invariant implies the property.                                     *)
LEMMA StreamInvExact == StreamInv => StreamExact
<1>. SUFFICES ASSUME StreamInv PROVE StreamExact OBVIOUS
<1>1. ASSUME job.op = "find", job.at = "done"
      PROVE  /\ job.found => EndsIn(job.read, job.target)
             /\ ~job.found /\ ~SelfSimilar(job.target) => ~Occurs(job.read, job.target)
  <2>1. job.found => Matches(job.read, job.target, Len(job.target))
    BY <1>1 DEF StreamInv, FindInv
  <2>2. ~Alike(job.target) /\ ~job.found => ~Within(job.read, job.target)
    BY <1>1 DEF StreamInv, FindInv
  <2>. QED BY <2>1, <2>2, TextsOfInts, EndsInIs, OccursWithin, AlikeSimilar
<1>2. ASSUME job.op \in {"int", "float"}, job.at = "done"
      PROVE  /\ job.value = (IF Contains(Used, Minus) THEN -1 ELSE 1) * Number(Used)
             /\ job.decimals = IF job.op = "int" THEN 0 ELSE Decimals(job.read, job.late)
  <2>1. ValueInv /\ DecimalsInv BY <1>2 DEF StreamInv, ParseInv
  <2>2. DecimalPlaces = {i \in 1 .. Len(job.read) : Digit(job.read[i]) /\ \E j \in 1 .. i :
           /\ job.read[j] = Point
           /\ j > job.late \/ \E k \in 1 .. j : Digit(job.read[k]) \/ job.read[k] = Minus
           /\ j # job.lost}
    BY DEF DecimalPlaces, PointAt, OfNumber
  <2>3. Decimals(job.read, job.late) = Cardinality(DecimalPlaces) BY <2>2 DEF Decimals
  <2>. QED BY <1>2, <2>1, <2>3 DEF ValueInv, DecimalsInv
<1>3. ASSUME job.lost # 0
      PROVE  /\ job.op = "float" /\ job.lost = job.late + 1
             /\ \A i \in 1 .. job.late : job.read[i] # Minus /\ ~Digit(job.read[i])
  <2>1. LostInv BY <1>3 DEF StreamInv, ParseInv
  <2>. QED BY <1>3, <2>1 DEF LostInv, OfNumber
<1>. QED BY <1>1, <1>2, <1>3 DEF StreamExact, Used

(* find stops right behind the first occurrence of its target, and         *)
(* parseInt and parseFloat return the number that the bytes they have      *)
(* consumed stand for: for texts and inputs of any length, whatever comes  *)
(* between two looks at the input.                                         *)
THEOREM StreamExactAlways == StreamSpec => []StreamExact
<1>1. StreamInit => StreamInv BY StreamStarts
<1>2. StreamInv /\ [StreamNext]_streamVars => StreamInv' BY StreamKeeps
<1>3. StreamInv => StreamExact BY StreamInvExact
<1>. QED BY <1>1, <1>2, <1>3, PTL DEF StreamSpec

-----------------------------------------------------------------------------
(* Print and itoa.c: the digits of a number.                               *)

Divided(n, b) == n \div b
Rest(n, b) == n % b

(* Division of natural numbers.                                            *)
LEMMA Division ==
  ASSUME NEW n \in Nat, NEW b \in Nat, b >= 2
  PROVE  /\ Divided(n, b) \in Nat /\ Rest(n, b) \in 0 .. b - 1
         /\ n = Divided(n, b) * b + Rest(n, b)
         /\ n >= b => Divided(n, b) < n /\ Divided(n, b) > 0
<1>1. /\ Divided(n, b) \in Nat /\ Rest(n, b) \in 0 .. b - 1
      /\ n = Divided(n, b) * b + Rest(n, b)
  BY DEF Divided, Rest
<1>2. ASSUME n >= b PROVE Divided(n, b) < n /\ Divided(n, b) > 0
  <2>1. \A q \in Nat : q * b >= q * 2
    <3>1. \A q, c \in Nat : q * c \in Nat OBVIOUS
    <3>2. \A q \in Nat : q * b = q * 2 + q * (b - 2) OBVIOUS
    <3>3. b - 2 \in Nat OBVIOUS
    <3>. QED BY <3>1, <3>2, <3>3
  <2>2. Divided(n, b) # 0
    <3>1. Divided(n, b) = 0 => Divided(n, b) * b = 0 OBVIOUS
    <3>. QED BY <1>1, <1>2, <3>1
  <2>3. Divided(n, b) * b >= Divided(n, b) * 2 BY <1>1, <2>1
  <2>4. Divided(n, b) * b \in Nat BY <1>1
  <2>5. \A q, p, r \in Nat : q # 0 /\ p >= q * 2 => q < p + r /\ q > 0 OBVIOUS
  <2>. QED BY <1>1, <2>2, <2>3, <2>4, <2>5
<1>. QED BY <1>1, <1>2

(* The digits, one by one.                                                 *)
LEMMA DigitsAre ==
  ASSUME NEW b \in Nat, b >= 2
  PROVE  \A n \in Nat :
            /\ DigitsOf(n, b) \in Seq(Nat)
            /\ DigitsOf(n, b) = IF n < b THEN <<n>>
                                ELSE Append(DigitsOf(Divided(n, b), b), Rest(n, b))
<1>. DEFINE V == Seq(Nat)
            step == [n \in Nat |-> [g \in [Nat -> V] |->
                       IF n < b THEN <<n>> ELSE Append(g[Divided(n, b)], Rest(n, b))]]
            F(f) == [n \in Nat |->
                       IF n < b THEN <<n>> ELSE Append(f[n \div b], n % b)]
            g == CHOOSE f : f = F(f)
<1>1. \A n \in Nat : Divided(n, b) \in Nat /\ Rest(n, b) \in Nat
                     /\ (n >= b => Divided(n, b) \in 0 .. n - 1)
  <2>1. ASSUME NEW n \in Nat
        PROVE  /\ Divided(n, b) \in Nat /\ Rest(n, b) \in 0 .. b - 1
               /\ n >= b => Divided(n, b) < n
    BY Division
  <2>. QED BY <2>1
<1>2. step \in [Nat -> [[Nat -> V] -> V]]
  <2>1. ASSUME NEW n \in Nat, NEW h \in [Nat -> V]
        PROVE  (IF n < b THEN <<n>> ELSE Append(h[Divided(n, b)], Rest(n, b))) \in V
    <3>1. <<n>> \in V OBVIOUS
    <3>2. h[Divided(n, b)] \in Seq(Nat) BY <1>1
    <3>3. Append(h[Divided(n, b)], Rest(n, b)) \in V BY <1>1, <3>2, AppendProperties
    <3>. QED BY <3>1, <3>3
  <2>. HIDE DEF V
  <2>. QED BY <2>1
<1>3. LooksBelow(V, step)
  <2>1. ASSUME NEW n \in Nat, NEW h \in [Nat -> V], NEW k \in [Nat -> V],
               \A m \in 0 .. n - 1 : h[m] = k[m]
        PROVE  step[n][h] = step[n][k]
    <3>1. CASE n < b BY <3>1
    <3>2. CASE ~(n < b)
      <4>1. h[Divided(n, b)] = k[Divided(n, b)] BY <3>2, <1>1, <2>1
      <4>. QED BY <3>2, <4>1
    <3>. QED BY <3>1, <3>2
  <2>. HIDE DEF step, V
  <2>. QED BY <2>1 DEF LooksBelow
<1>4. PICK f \in [Nat -> V] : \A n \in Nat : f[n] = step[n][f]
  <2>1. <<>> \in V OBVIOUS
  <2>. HIDE DEF step, V
  <2>2. HasCourse(V, step) BY <2>1, <1>2, <1>3, CourseRecursion
  <2>. QED BY <2>2 DEF HasCourse
<1>5. f = F(f)
  <2>1. \A n \in Nat : f[n] = F(f)[n] BY <1>4 DEF Divided, Rest
  <2>2. f = [n \in Nat |-> f[n]] BY <1>4
  <2>3. F(f) = [n \in Nat |-> F(f)[n]] OBVIOUS
  <2>. QED BY <2>1, <2>2
<1>6. g = F(g) BY <1>5
<1>7. \A n : DigitsOf(n, b) = g[n] BY DEF DigitsOf
<1>. HIDE DEF g
<1>8. \A n \in Nat : g[n] = IF n < b THEN <<n>> ELSE Append(g[Divided(n, b)], Rest(n, b))
  <2>1. \A n \in Nat : g[n] = F(g)[n] BY <1>6
  <2>. QED BY <2>1 DEF Divided, Rest
<1>9. \A n \in Nat : g[n] \in Seq(Nat)
  <2>. DEFINE S == {n \in Nat : g[n] \in Seq(Nat)}
  <2>1. ASSUME NEW n \in Nat, \A m \in 0 .. n - 1 : m \in S PROVE n \in S
    <3>1. CASE n < b
      <4>1. g[n] = <<n>> BY <3>1, <1>8
      <4>2. <<n>> \in Seq(Nat) OBVIOUS
      <4>3. g[n] \in Seq(Nat) BY <4>1, <4>2
      <4>. QED BY <4>3
    <3>2. CASE ~(n < b)
      <4>1. g[n] = Append(g[Divided(n, b)], Rest(n, b)) BY <3>2, <1>8
      <4>2. Divided(n, b) \in 0 .. n - 1 /\ Rest(n, b) \in Nat BY <3>2, <1>1
      <4>3. g[Divided(n, b)] \in Seq(Nat) BY <4>2, <2>1
      <4>4. g[n] \in Seq(Nat) BY <4>1, <4>2, <4>3, AppendProperties
      <4>. QED BY <4>4
    <3>. QED BY <3>1, <3>2
  <2>2. \A n \in Nat : n \in S
    <3>. HIDE DEF S
    <3>. QED BY <2>1, CourseInduction
  <2>. QED BY <2>2
<1>. QED BY <1>7, <1>8, <1>9

(* The recursive function in Reads exists.                                 *)
LEMMA ReadsIs ==
  ASSUME NEW s \in Seq(Int), NEW b \in Int
  PROVE  \E f \in [0 .. Len(s) -> Int] :
            /\ Reads(s, b) = f[Len(s)] /\ f[0] = 0
            /\ \A n \in 1 .. Len(s) : f[n] = f[n - 1] * b + s[n]
<1>. DEFINE N == Len(s)
            F(f) == [n \in 0 .. N |-> IF n = 0 THEN 0 ELSE f[n - 1] * b + s[n]]
            step == [n \in Nat |-> [v \in Int |-> IF n \in 1 .. N THEN v * b + s[n] ELSE v]]
            g == CHOOSE f : f = F(f)
<1>1. N \in Nat OBVIOUS
<1>2. step \in [Nat -> [Int -> Int]]
  <2>1. \A n \in 1 .. N : s[n] \in Int BY <1>1
  <2>. QED BY <2>1
<1>3. PICK f \in [0 .. N -> Int] : f[0] = 0 /\ \A n \in 1 .. N : f[n] = step[n][f[n - 1]]
  <2>1. 0 \in Int OBVIOUS
  <2>. HIDE DEF step, N, F, g
  <2>2. HasRecursion(N, Int, 0, step) BY <1>1, <1>2, <2>1, Recursion
  <2>. QED BY <2>2 DEF HasRecursion
<1>4. \A n \in 1 .. N : f[n] = f[n - 1] * b + s[n]
  <2>1. ASSUME NEW n \in 1 .. N PROVE f[n] = f[n - 1] * b + s[n]
    <3>1. f[n - 1] \in Int BY <1>1, <1>3
    <3>2. n \in Nat BY <1>1
    <3>. QED BY <3>1, <3>2, <1>3
  <2>. QED BY <2>1
<1>5. f = F(f)
  <2>1. \A n \in 0 .. N : f[n] = F(f)[n] BY <1>3, <1>4, <1>1
  <2>2. DOMAIN f = 0 .. N /\ f = [n \in 0 .. N |-> f[n]] BY <1>3
  <2>3. F(f) = [n \in 0 .. N |-> F(f)[n]] OBVIOUS
  <2>. QED BY <2>1, <2>2
<1>6. g = F(g) BY <1>5
<1>7. Reads(s, b) = g[N] BY DEF Reads
<1>. HIDE DEF g
<1>8. g[0] = 0 BY <1>6, <1>1
<1>9. \A n \in 1 .. N : g[n] = g[n - 1] * b + s[n]
  <2>1. \A n \in 0 .. N : g[n] = F(g)[n] BY <1>6
  <2>2. \A n \in 1 .. N : n \in 0 .. N /\ n # 0 BY <1>1
  <2>. QED BY <2>1, <2>2
<1>10. g \in [0 .. N -> Int]
  <2>. DEFINE S == {n \in Nat : n <= N => g[n] \in Int}
  <2>1. 0 \in S BY <1>8
  <2>2. ASSUME NEW n \in Nat, n \in S PROVE n + 1 \in S
    <3>1. CASE n + 1 <= N
      <4>1. n + 1 \in 1 .. N /\ n + 1 - 1 = n /\ g[n] \in Int /\ s[n + 1] \in Int
        BY <3>1, <2>2, <1>1
      <4>2. g[n + 1] \in Int BY <4>1, <1>9
      <4>. QED BY <4>2
    <3>. QED BY <3>1
  <2>3. \A n \in Nat : n \in S
    <3>. HIDE DEF S
    <3>. QED BY <2>1, <2>2, Induction
  <2>4. \A n \in 0 .. N : g[n] \in Int BY <2>3, <1>1
  <2>5. g = [n \in 0 .. N |-> g[n]] BY <1>6
  <2>. QED BY <2>4, <2>5
<1>. QED BY <1>7, <1>8, <1>9, <1>10

(* One more digit is read.                                                 *)
LEMMA ReadsAppend ==
  ASSUME NEW s \in Seq(Int), NEW c \in Int, NEW b \in Int
  PROVE  Reads(s, b) \in Int /\ Reads(Append(s, c), b) = Reads(s, b) * b + c
<1>. DEFINE N == Len(s)
            t == Append(s, c)
<1>1. N \in Nat /\ t \in Seq(Int) /\ Len(t) = N + 1 /\ t[N + 1] = c OBVIOUS
<1>2. \A n \in 1 .. N : t[n] = s[n] OBVIOUS
<1>3. PICK f \in [0 .. N -> Int] :
         /\ Reads(s, b) = f[N] /\ f[0] = 0
         /\ \A n \in 1 .. N : f[n] = f[n - 1] * b + s[n]
  BY ReadsIs
<1>4. PICK g \in [0 .. N + 1 -> Int] :
         /\ Reads(t, b) = g[N + 1] /\ g[0] = 0
         /\ \A n \in 1 .. N + 1 : g[n] = g[n - 1] * b + t[n]
  <2>. HIDE DEF t
  <2>1. \E g \in [0 .. Len(t) -> Int] :
           /\ Reads(t, b) = g[Len(t)] /\ g[0] = 0
           /\ \A n \in 1 .. Len(t) : g[n] = g[n - 1] * b + t[n]
    BY <1>1, ReadsIs
  <2>2. Len(t) = N + 1 BY <1>1
  <2>. HIDE DEF N
  <2>. QED BY <2>1, <2>2
<1>5. g[N] = f[N]
  <2>. DEFINE S == {n \in Nat : n <= N => g[n] = f[n]}
  <2>1. 0 \in S BY <1>3, <1>4
  <2>2. ASSUME NEW n \in Nat, n \in S PROVE n + 1 \in S
    <3>1. CASE n + 1 <= N
      <4>1. n + 1 \in 1 .. N /\ n + 1 \in 1 .. N + 1 /\ n + 1 - 1 = n BY <3>1, <1>1
      <4>2. g[n] = f[n] BY <2>2, <3>1, <1>1
      <4>3. t[n + 1] = s[n + 1] BY <4>1, <1>2
      <4>4. g[n + 1] = g[n] * b + t[n + 1] BY <4>1, <1>4
      <4>5. f[n + 1] = f[n] * b + s[n + 1] BY <4>1, <1>3
      <4>6. g[n + 1] = f[n + 1]
        <5>. HIDE DEF t
        <5>. QED BY <4>2, <4>3, <4>4, <4>5
      <4>. QED BY <4>6
    <3>. QED BY <3>1
  <2>3. \A n \in Nat : n \in S
    <3>. HIDE DEF S
    <3>. QED BY <2>1, <2>2, Induction
  <2>. QED BY <2>3, <1>1
<1>6. g[N + 1] = g[N] * b + t[N + 1]
  <2>. HIDE DEF t
  <2>1. N + 1 \in 1 .. N + 1 /\ N + 1 - 1 = N BY <1>1
  <2>2. \A m \in 1 .. N + 1 : g[m] = g[m - 1] * b + t[m] BY <1>4
  <2>3. N \in Nat BY <1>1
  <2>. HIDE DEF N
  <2>. QED BY <2>1, <2>2, <2>3
<1>7. f[N] \in Int BY <1>1, <1>3
<1>. HIDE DEF t
<1>. QED BY <1>1, <1>3, <1>4, <1>5, <1>6, <1>7 DEF t

LEMMA ReadsEmpty == ASSUME NEW b \in Int PROVE Reads(<<>>, b) = 0
<1>1. <<>> \in Seq(Int) /\ Len(<<>>) = 0 OBVIOUS
<1>. QED BY <1>1, ReadsIs

(* What is printed of a number is its digits, without a zero in front.     *)
DigitsGood(d, n, b) ==
    d \in Seq(0 .. b - 1) /\ Len(d) >= 1 /\ Reads(d, b) = n /\ (Len(d) > 1 => d[1] # 0)

LEMMA DigitsFacts ==
  ASSUME NEW b \in Nat, b >= 2
  PROVE  \A n \in Nat : DigitsGood(DigitsOf(n, b), n, b)
<1>. DEFINE S == {n \in Nat : DigitsGood(DigitsOf(n, b), n, b) /\ (n > 0 => DigitsOf(n, b)[1] # 0)}
<1>1. ASSUME NEW n \in Nat, \A m \in 0 .. n - 1 : m \in S PROVE n \in S
  <2>1. CASE n < b
    <3>1. DigitsOf(n, b) = <<n>> BY <2>1, DigitsAre
    <3>2. <<n>> = Append(<<>>, n) /\ <<>> \in Seq(Int) OBVIOUS
    <3>3. Reads(<<n>>, b) = n
      <4>1. n \in Int /\ b \in Int OBVIOUS
      <4>2. Reads(Append(<<>>, n), b) = Reads(<<>>, b) * b + n BY <3>2, <4>1, ReadsAppend
      <4>3. Reads(<<>>, b) = 0 BY <4>1, ReadsEmpty
      <4>4. 0 * b + n = n OBVIOUS
      <4>. QED BY <3>2, <4>2, <4>3, <4>4
    <3>4. <<n>> \in Seq(0 .. b - 1) /\ Len(<<n>>) = 1 /\ <<n>>[1] = n BY <2>1
    <3>5. DigitsGood(<<n>>, n, b) BY <3>3, <3>4 DEF DigitsGood
    <3>. QED BY <3>1, <3>4, <3>5
  <2>2. CASE ~(n < b)
    <3>. DEFINE q == Divided(n, b)
                r == Rest(n, b)
                d == DigitsOf(q, b)
    <3>1. q \in Nat /\ q < n /\ q > 0 /\ r \in 0 .. b - 1 /\ n = q * b + r
      BY <2>2, Division
    <3>2. DigitsOf(n, b) = Append(d, r) BY <2>2, DigitsAre
    <3>3. DigitsGood(d, q, b) /\ d[1] # 0
      <4>1. q \in 0 .. n - 1 BY <3>1
      <4>2. q \in S BY <4>1, <1>1
      <4>. QED BY <4>2, <3>1
    <3>. HIDE DEF q, r, d
    <3>4. d \in Seq(0 .. b - 1) /\ Len(d) >= 1 /\ Reads(d, b) = q BY <3>3 DEF DigitsGood
    <3>5. d \in Seq(Int) /\ r \in Int
      <4>1. 0 .. b - 1 \subseteq Int OBVIOUS
      <4>. QED BY <4>1, <3>1, <3>4, SeqMonotonic
    <3>6. Reads(Append(d, r), b) = q * b + r BY <3>4, <3>5, ReadsAppend
    <3>7. Append(d, r) \in Seq(0 .. b - 1) /\ Len(Append(d, r)) >= 1 /\ Append(d, r)[1] = d[1]
      BY <3>1, <3>4
    <3>. QED BY <3>1, <3>2, <3>3, <3>6, <3>7 DEF DigitsGood
  <2>. QED BY <2>1, <2>2
<1>2. \A n \in Nat : n \in S
  <2>. HIDE DEF S
  <2>. QED BY <1>1, CourseInduction
<1>. QED BY <1>2

-----------------------------------------------------------------------------
(* Print: how many digits a number has.                                    *)

Fits(m, k, b) == \A n \in Nat : n < m => Len(DigitsOf(n, b)) <= k

LEMMA FitsOne == ASSUME NEW b \in Nat, b >= 2 PROVE Fits(b, 1, b)
<1>1. ASSUME NEW n \in Nat, n < b PROVE Len(DigitsOf(n, b)) <= 1
  <2>1. DigitsOf(n, b) = <<n>> BY <1>1, DigitsAre
  <2>. QED BY <2>1
<1>. QED BY <1>1 DEF Fits

(* One digit more for the base times as many numbers.                      *)
LEMMA FitsMore ==
  ASSUME NEW b \in Nat, b >= 2, NEW m \in Nat, NEW k \in Nat, k >= 1, Fits(m, k, b),
         NEW c \in Nat, c <= b
  PROVE  Fits(m * c, k + 1, b)
<1>1. ASSUME NEW n \in Nat, n < m * c PROVE Len(DigitsOf(n, b)) <= k + 1
  <2>1. CASE n < b
    <3>1. DigitsOf(n, b) = <<n>> BY <2>1, DigitsAre
    <3>. QED BY <3>1
  <2>2. CASE ~(n < b)
    <3>. DEFINE q == Divided(n, b)
                r == Rest(n, b)
                d == DigitsOf(q, b)
    <3>1. q \in Nat /\ r \in 0 .. b - 1 /\ n = q * b + r BY <2>2, Division
    <3>2. DigitsOf(n, b) = Append(d, r) BY <2>2, DigitsAre
    <3>3. d \in Seq(Nat) BY <3>1, DigitsAre
    <3>. HIDE DEF q, r, d
    <3>4. q < m
      <4>1. \A x, y \in Nat : x * y \in Nat OBVIOUS
      <4>2. \A x \in Nat : x >= m => x * b = m * c + (m * (b - c) + (x - m) * b) OBVIOUS
      <4>3. b - c \in Nat OBVIOUS
      <4>4. m * (b - c) \in Nat /\ m * c \in Nat BY <4>1, <4>3
      <4>5. \A x \in Nat : x >= m => (x - m) \in Nat OBVIOUS
      <4>6. \A x \in Nat : x >= m => (x - m) * b \in Nat BY <4>1, <4>5
      <4>7. \A x \in Nat : x >= m => x * b >= m * c BY <4>2, <4>4, <4>6
      <4>8. q * b \in Nat /\ q * b <= n BY <3>1, <4>1
      <4>. QED BY <1>1, <3>1, <4>4, <4>7, <4>8
    <3>5. Len(d) <= k BY <3>1, <3>4 DEF Fits, d
    <3>6. Len(Append(d, r)) = Len(d) + 1 /\ Len(d) \in Nat BY <3>1, <3>3
    <3>. QED BY <3>2, <3>5, <3>6
  <2>. QED BY <2>1, <2>2
<1>. QED BY <1>1 DEF Fits

Bits15 == 32768
Bits16 == 65536
Bits32 == 4294967296
Tens5  == 100000
Tens10 == 10000000000

LEMMA Limits ==
  /\ Bits15 \in Nat /\ Bits16 \in Nat /\ Bits32 \in Nat /\ Tens5 \in Nat /\ Tens10 \in Nat
  /\ Bits15 < Tens5 /\ Bits16 < Tens5 /\ Bits32 < Tens10 /\ Bits15 < Bits16
BY SMT DEF Bits15, Bits16, Bits32, Tens5, Tens10

(* A number of 16, or of 32, bits has no more digits in any base.          *)
LEMMA FitsBits ==
  ASSUME NEW b \in Nat, b >= 2
  PROVE  Fits(Bits16, 16, b) /\ Fits(Bits32, 32, b)
<1>0. ASSUME NEW m \in Nat, NEW k \in Nat, k >= 1, Fits(m, k, b) PROVE Fits(2 * m, k + 1, b)
  <2>1. Fits(m * 2, k + 1, b) BY <1>0, FitsMore
  <2>2. m * 2 = 2 * m OBVIOUS
  <2>. QED BY <2>1, <2>2
<1>1. Fits(2, 1, b)
  <2>1. Fits(b, 1, b) BY FitsOne
  <2>. QED BY <2>1 DEF Fits
<1>2. ASSUME NEW m \in Nat, NEW k \in Nat, k >= 1, Fits(m, k, b)
      PROVE  Fits(16 * m, k + 4, b)
  <2>2. Fits(2 * m, k + 1, b) BY <1>2, <1>0
  <2>3. Fits(2 * (2 * m), k + 1 + 1, b) BY <1>0, <2>2
  <2>4. Fits(2 * (2 * (2 * m)), k + 1 + 1 + 1, b) BY <1>0, <2>3
  <2>5. Fits(2 * (2 * (2 * (2 * m))), k + 1 + 1 + 1 + 1, b) BY <1>0, <2>4
  <2>6. 2 * (2 * (2 * (2 * m))) = 16 * m /\ k + 1 + 1 + 1 + 1 = k + 4 OBVIOUS
  <2>. QED BY <2>5, <2>6
<1>3. Fits(4, 2, b) BY <1>0, <1>1
<1>4. Fits(8, 3, b) BY <1>0, <1>3
<1>5. Fits(16, 4, b) BY <1>0, <1>4
<1>6. Fits(256, 8, b) BY <1>2, <1>5
<1>7. Fits(4096, 12, b) BY <1>2, <1>6
<1>8. Fits(65536, 16, b) BY <1>2, <1>7
<1>9. Fits(1048576, 20, b) BY <1>2, <1>8
<1>10. Fits(16777216, 24, b) BY <1>2, <1>9
<1>11. Fits(268435456, 28, b) BY <1>2, <1>10
<1>12. Fits(4294967296, 32, b) BY <1>2, <1>11
<1>. QED BY <1>8, <1>12 DEF Bits16, Bits32

LEMMA FitsDecimal == Fits(100, 2, 10) /\ Fits(Tens5, 5, 10) /\ Fits(Tens10, 10, 10)
<1>1. ASSUME NEW m \in Nat, NEW k \in Nat, k >= 1, Fits(m, k, 10) PROVE Fits(10 * m, k + 1, 10)
  <2>1. Fits(m * 10, k + 1, 10) BY <1>1, FitsMore
  <2>2. m * 10 = 10 * m OBVIOUS
  <2>. QED BY <2>1, <2>2
<1>2. Fits(10, 1, 10) BY FitsOne
<1>3. Fits(100, 2, 10) BY <1>1, <1>2
<1>4. Fits(1000, 3, 10) BY <1>1, <1>3
<1>5. Fits(10000, 4, 10) BY <1>1, <1>4
<1>6. Fits(100000, 5, 10) BY <1>1, <1>5
<1>7. Fits(1000000, 6, 10) BY <1>1, <1>6
<1>8. Fits(10000000, 7, 10) BY <1>1, <1>7
<1>9. Fits(100000000, 8, 10) BY <1>1, <1>8
<1>10. Fits(1000000000, 9, 10) BY <1>1, <1>9
<1>11. Fits(10000000000, 10, 10) BY <1>1, <1>10
<1>. QED BY <1>3, <1>6, <1>11 DEF Tens5, Tens10

LEMMA LongWidth == LongRange \in Nat /\ Bits16 < LongRange /\ LongRange <= Bits32
<1>. DEFINE p == 2 ^ 16
<1>1. p = 65536 OBVIOUS
<1>2. LongRange \in Nat /\ p < LongRange /\ (LongRange - 1) \div p < p
  BY TextAssumption
<1>. HIDE DEF p
<1>3. \A x \in Int : x < (x \div 65536) * 65536 + 65536 /\ x \div 65536 \in Int OBVIOUS
<1>4. \A x, q \in Int : x < q * 65536 + 65536 /\ q < 65536 => x < 4294967296 OBVIOUS
<1>. QED BY <1>1, <1>2, <1>3, <1>4 DEF Bits16, Bits32

Wrapped(n) == n % LongRange

LEMMA WrappedFacts ==
  ASSUME NEW n \in Int
  PROVE  /\ Wrapped(n) \in 0 .. LongRange - 1
         /\ n \in 0 .. LongRange - 1 => Wrapped(n) = n
<1>1. LongRange \in Nat /\ LongRange > 0 BY LongWidth, Limits
<1>. QED BY <1>1 DEF Wrapped

(* The text of a number without a sign.                                    *)
LEMMA PlainReads ==
  ASSUME NEW b \in Nat, b >= 2, NEW m \in Nat, NEW d, d = DigitsOf(m, b)
  PROVE  /\ d \in Seq(0 .. b - 1) /\ d \in Seq(Nat) /\ Len(d) >= 1 /\ d[1] # MinusSign
         /\ Unsigned(d) = d /\ Reads(d, b) = m /\ (Len(d) > 1 => d[1] # 0)
         /\ \A x : Signed(d, x) = x
<1>1. DigitsGood(d, m, b) BY DigitsFacts
<1>2. d \in Seq(0 .. b - 1) /\ Len(d) >= 1 /\ Reads(d, b) = m /\ (Len(d) > 1 => d[1] # 0)
  BY <1>1 DEF DigitsGood
<1>3. d[1] \in 0 .. b - 1 BY <1>2
<1>4. d[1] # MinusSign BY <1>3 DEF MinusSign
<1>5. d \in Seq(Nat) BY DigitsAre
<1>. QED BY <1>2, <1>4, <1>5 DEF Unsigned, Signed

(* A text with one character in front.                                     *)
LEMMA Prefixed ==
  ASSUME NEW c \in Int, NEW d \in Seq(Int), NEW s, s = <<c>> \o d
  PROVE  /\ s \in Seq(Int) /\ Len(s) = Len(d) + 1 /\ s # <<>> /\ s[1] = c /\ Tail(s) = d
         /\ \A i \in 1 .. Len(d) : s[i + 1] = d[i]
<1>. DEFINE e == <<c>>
<1>1. e \in Seq(Int) /\ Len(e) = 1 /\ e[1] = c OBVIOUS
<1>2. s \in Seq(Int) /\ Len(s) = Len(d) + 1 /\ Len(d) \in Nat OBVIOUS
<1>3. \A i \in 1 .. Len(d) + 1 : s[i] = IF i <= 1 THEN c ELSE d[i - 1]
  <2>. HIDE DEF e
  <2>1. \A i \in 1 .. Len(e) + Len(d) : (e \o d)[i] = IF i <= Len(e) THEN e[i] ELSE d[i - Len(e)]
    BY <1>1, ConcatProperties
  <2>2. Len(e) + Len(d) = Len(d) + 1 BY <1>1, <1>2
  <2>3. s = e \o d BY DEF e
  <2>4. \A i \in 1 .. Len(d) + 1 : s[i] = IF i <= Len(e) THEN e[i] ELSE d[i - Len(e)]
    BY <2>1, <2>2, <2>3
  <2>5. ASSUME NEW i \in 1 .. Len(d) + 1 PROVE s[i] = IF i <= 1 THEN c ELSE d[i - 1]
    <3>1. i <= 1 => i = 1 BY <1>2
    <3>. QED BY <2>4, <3>1, <1>1
  <2>. QED BY <2>5
<1>4. s[1] = c
  <2>1. 1 \in 1 .. Len(d) + 1 BY <1>2
  <2>. QED BY <2>1, <1>3
<1>5. ASSUME NEW i \in 1 .. Len(d) PROVE s[i + 1] = d[i]
  <2>1. i + 1 \in 1 .. Len(d) + 1 /\ ~(i + 1 <= 1) /\ i + 1 - 1 = i BY <1>2
  <2>. QED BY <2>1, <1>3
<1>6. s # <<>> BY <1>2
<1>7. Tail(s) = d
  <2>. DEFINE t == Tail(s)
  <2>1. t \in Seq(Int) /\ Len(t) = Len(d) /\ \A i \in 1 .. Len(d) : t[i] = s[i + 1]
    <3>1. \A u \in Seq(Int) : u # <<>> =>
             /\ Tail(u) \in Seq(Int) /\ Len(Tail(u)) = Len(u) - 1
             /\ \A i \in 1 .. Len(u) - 1 : Tail(u)[i] = u[i + 1]
      OBVIOUS
    <3>2. Len(s) - 1 = Len(d) BY <1>2
    <3>. QED BY <3>1, <3>2, <1>2, <1>6
  <2>. HIDE DEF t
  <2>2. t = d BY <2>1, <1>5, SeqEqual
  <2>. QED BY <2>2 DEF t
<1>. QED BY <1>2, <1>4, <1>5, <1>6, <1>7

(* The text of a negative number.                                          *)
LEMMA SignedReads ==
  ASSUME NEW m \in Nat, NEW s, s = <<MinusSign>> \o DigitsOf(m, 10)
  PROVE  /\ s \in Seq(Int) /\ s # <<>> /\ s[1] = MinusSign /\ Unsigned(s) = DigitsOf(m, 10)
         /\ Len(s) = Len(DigitsOf(m, 10)) + 1 /\ Reads(Unsigned(s), 10) = m
         /\ \A x : Signed(s, x) = -x
<1>1. \A b \in Nat : b >= 2 => DigitsOf(m, b) \in Seq(Nat) /\ Reads(DigitsOf(m, b), b) = m
  <2>1. ASSUME NEW b \in Nat, b >= 2
        PROVE  DigitsOf(m, b) \in Seq(Nat) /\ Reads(DigitsOf(m, b), b) = m
    BY <2>1, PlainReads
  <2>. QED BY <2>1
<1>2. DigitsOf(m, 10) \in Seq(Nat) /\ Reads(DigitsOf(m, 10), 10) = m BY <1>1
<1>3. DigitsOf(m, 10) \in Seq(Int) /\ MinusSign \in Int
  <2>1. Nat \subseteq Int OBVIOUS
  <2>. QED BY <2>1, <1>2, SeqMonotonic DEF MinusSign
<1>4. /\ s \in Seq(Int) /\ Len(s) = Len(DigitsOf(m, 10)) + 1 /\ s # <<>> /\ s[1] = MinusSign
      /\ Tail(s) = DigitsOf(m, 10)
  BY <1>3, Prefixed
<1>. QED BY <1>2, <1>4 DEF Unsigned, Signed

-----------------------------------------------------------------------------
(* Print and itoa.c: the texts of numbers.                                 *)

\* the two forms that a number is printed in
Shows(p, n, b) ==
    \/ p = DigitsOf(Wrapped(n), b)
    \/ b = 10 /\ n < 0 /\ p = <<MinusSign>> \o DigitsOf(Wrapped(-n), 10)

ReadBack(p, b) == Signed(p, Reads(Unsigned(p), b))

LEMMA NumberRange ==
  ASSUME NEW n \in Numbers
  PROVE  /\ n \in Int /\ n < LongRange /\ -n < LongRange
         /\ n < 0 => Wrapped(-n) = -n /\ -n \in Nat
         /\ n >= 0 => Wrapped(n) = n
         /\ Wrapped(n) \in Nat /\ Wrapped(n) < LongRange /\ Wrapped(Wrapped(n)) = Wrapped(n)
<1>1. n \in Int /\ n >= -(LongRange \div 2) /\ n < LongRange
  BY TextAssumption, LongWidth
<1>2. LongRange \div 2 < LongRange /\ LongRange \div 2 \in Nat BY LongWidth, Limits
<1>3. -n < LongRange BY <1>1, <1>2, LongWidth
<1>4. n < 0 => Wrapped(-n) = -n /\ -n \in Nat BY <1>1, <1>3, LongWidth, WrappedFacts
<1>5. n >= 0 => Wrapped(n) = n BY <1>1, LongWidth, WrappedFacts
<1>6. Wrapped(n) \in 0 .. LongRange - 1 BY <1>1, WrappedFacts
<1>7. Wrapped(n) \in Int BY <1>6
<1>8. Wrapped(Wrapped(n)) = Wrapped(n) BY <1>6, <1>7, WrappedFacts
<1>. QED BY <1>1, <1>3, <1>4, <1>5, <1>6, <1>8, LongWidth

(* Both forms read back as the number.                                     *)
LEMMA ShownExact ==
  ASSUME NEW n \in Numbers, NEW b \in Nat, b >= 2, NEW p, Shows(p, n, b)
  PROVE  /\ p \in Seq(Int) /\ Len(p) >= 1
         /\ ReadBack(p, b) = IF p[1] = MinusSign THEN n ELSE Wrapped(n)
         /\ ReadBack(p, b) \in Int
         /\ p[1] = MinusSign => b = 10
         /\ Len(Unsigned(p)) > 1 => Unsigned(p)[1] # 0
         /\ Wrapped(ReadBack(p, b)) = Wrapped(n)
         /\ n >= 0 => ReadBack(p, b) = n
<1>0. n \in Int /\ Wrapped(n) \in Nat BY NumberRange
<1>1. CASE p = DigitsOf(Wrapped(n), b)
  <2>1. /\ p \in Seq(Nat) /\ Len(p) >= 1 /\ p[1] # MinusSign
        /\ Unsigned(p) = p /\ Reads(p, b) = Wrapped(n) /\ (Len(p) > 1 => p[1] # 0)
        /\ \A x : Signed(p, x) = x
    BY <1>0, <1>1, PlainReads
  <2>2. ReadBack(p, b) = Wrapped(n) BY <2>1 DEF ReadBack
  <2>3. p \in Seq(Int)
    <3>1. Nat \subseteq Int OBVIOUS
    <3>. QED BY <2>1, <3>1, SeqMonotonic
  <2>. QED BY <2>1, <2>2, <2>3, NumberRange
<1>2. CASE b = 10 /\ n < 0 /\ p = <<MinusSign>> \o DigitsOf(Wrapped(-n), 10)
  <2>. DEFINE m == -n
  <2>1. m \in Nat /\ Wrapped(m) = m BY <1>2, NumberRange
  <2>2. p = <<MinusSign>> \o DigitsOf(m, 10) BY <1>2, <2>1
  <2>3. /\ p \in Seq(Int) /\ p # <<>> /\ p[1] = MinusSign /\ Unsigned(p) = DigitsOf(m, 10)
        /\ Reads(Unsigned(p), 10) = m /\ \A x : Signed(p, x) = -x
    <3>. HIDE DEF m
    <3>. QED BY <2>1, <2>2, SignedReads
  <2>4. ReadBack(p, b) = n
    <3>1. ReadBack(p, b) = -m BY <2>3, <1>2 DEF ReadBack
    <3>. QED BY <3>1, <1>0
  <2>5. DigitsGood(DigitsOf(m, b), m, b)
    <3>. HIDE DEF m
    <3>. QED BY <2>1, DigitsFacts
  <2>6. Len(Unsigned(p)) > 1 => Unsigned(p)[1] # 0
    <3>. HIDE DEF m
    <3>. QED BY <2>3, <2>5, <1>2 DEF DigitsGood
  <2>7. Len(p) >= 1 BY <2>3
  <2>. QED BY <1>0, <1>2, <2>3, <2>4, <2>6, <2>7
<1>. QED BY <1>1, <1>2 DEF Shows

LEMMA BaseRange ==
  ASSUME NEW base \in Bases
  PROVE  base = 0 \/ (base \in Nat /\ base >= 2)
BY TextAssumption

LEMMA LongShows ==
  ASSUME NEW n \in Numbers, NEW base \in Bases, base # 0
  PROVE  /\ Shows(PrintLong(n, base), n, base) /\ Shows(PrintUnsigned(n, base), n, base)
         /\ base = 10 /\ n < 0 => PrintLong(n, base)[1] = MinusSign
<1>1. base \in Nat /\ base >= 2 /\ ~(base < 2) /\ n \in Int BY BaseRange, NumberRange
<1>2. Shows(PrintUnsigned(n, base), n, base)
  BY <1>1 DEF PrintUnsigned, PrintNumber, Shows, Wrapped
<1>3. Shows(PrintLong(n, base), n, base)
  <2>1. CASE base = 10 /\ n < 0
    <3>1. PrintLong(n, base) = <<MinusSign>> \o DigitsOf(Wrapped(-n), 10)
      BY <2>1 DEF PrintLong, PrintNumber, Wrapped
    <3>. QED BY <2>1, <3>1 DEF Shows
  <2>2. CASE ~(base = 10 /\ n < 0)
    <3>1. PrintLong(n, base) = DigitsOf(Wrapped(n), base)
      BY <1>1, <2>2 DEF PrintLong, PrintNumber, Wrapped
    <3>. QED BY <3>1 DEF Shows
  <2>. QED BY <2>1, <2>2
<1>4. ASSUME base = 10, n < 0 PROVE PrintLong(n, base)[1] = MinusSign
  <2>. DEFINE m == Wrapped(-n)
              p == PrintLong(n, base)
  <2>1. p = <<MinusSign>> \o DigitsOf(m, 10)
    BY <1>4 DEF PrintLong, PrintNumber, Wrapped
  <2>2. m \in Nat BY <1>4, NumberRange
  <2>. HIDE DEF m, p
  <2>3. p[1] = MinusSign BY <2>1, <2>2, SignedReads
  <2>. QED BY <2>3 DEF p
<1>. QED BY <1>2, <1>3, <1>4

LEMMA LtoaShows ==
  ASSUME NEW n \in Numbers, NEW type \in Types, NEW base \in Nat
  PROVE  /\ Shows(Ltoa(n, type, base), n, base)
         /\ type \notin {"int", "long"} => Ltoa(n, type, base) = DigitsOf(Wrapped(n), base)
<1>1. CASE base = 10 /\ n < 0 /\ type \in {"int", "long"}
  <2>1. Ltoa(n, type, base) = <<MinusSign>> \o DigitsOf(Wrapped(-n), 10)
    BY <1>1 DEF Ltoa, Wrapped
  <2>. QED BY <1>1, <2>1 DEF Shows
<1>2. CASE ~(base = 10 /\ n < 0 /\ type \in {"int", "long"})
  <2>1. Ltoa(n, type, base) = DigitsOf(Wrapped(n), base)
    BY <1>2 DEF Ltoa, Wrapped
  <2>. QED BY <2>1 DEF Shows
<1>. QED BY <1>1, <1>2

(* How long the two forms are.                                             *)
LEMMA ShownLength ==
  ASSUME NEW n \in Numbers, NEW b \in Nat, b >= 2, NEW p, Shows(p, n, b)
  PROVE  /\ Len(p) \in Nat /\ Len(p) <= 32
         /\ p = DigitsOf(Wrapped(n), b) /\ b = 10 => Len(p) <= 10
         /\ b = 10 => Len(p) <= 11
         /\ n >= 0 /\ n < Bits16 => Len(p) <= 16 /\ (b = 10 => Len(p) <= 5)
         /\ n < 0 /\ n >= -Bits15 /\ b = 10 /\ p # DigitsOf(Wrapped(n), b) => Len(p) <= 6
<1>0. n \in Int /\ Wrapped(n) \in Nat /\ Wrapped(n) < LongRange BY NumberRange
<1>1. \A m \in Nat : m < LongRange =>
         /\ Len(DigitsOf(m, b)) \in Nat /\ Len(DigitsOf(m, b)) <= 32
         /\ b = 10 => Len(DigitsOf(m, b)) <= 10
  <2>1. ASSUME NEW m \in Nat, m < LongRange
        PROVE  /\ Len(DigitsOf(m, b)) \in Nat /\ Len(DigitsOf(m, b)) <= 32
               /\ b = 10 => Len(DigitsOf(m, b)) <= 10
    <3>1. m < Bits32 /\ m < Tens10 BY <2>1, LongWidth, Limits
    <3>2. Len(DigitsOf(m, b)) \in Nat
      <4>1. DigitsOf(m, b) \in Seq(Nat) BY DigitsAre
      <4>. QED BY <4>1
    <3>3. Len(DigitsOf(m, b)) <= 32 BY <3>1, FitsBits DEF Fits
    <3>4. b = 10 => Len(DigitsOf(m, b)) <= 10 BY <3>1, FitsDecimal DEF Fits
    <3>. QED BY <3>2, <3>3, <3>4
  <2>. QED BY <2>1
<1>2. CASE p = DigitsOf(Wrapped(n), b)
  <2>1. Len(p) \in Nat /\ Len(p) <= 32 /\ (b = 10 => Len(p) <= 10) BY <1>0, <1>1, <1>2
  <2>2. ASSUME n >= 0, n < Bits16 PROVE Len(p) <= 16 /\ (b = 10 => Len(p) <= 5)
    <3>1. p = DigitsOf(n, b) /\ n \in Nat BY <1>0, <1>2, <2>2, NumberRange
    <3>2. Len(p) <= 16 BY <3>1, <2>2, FitsBits DEF Fits
    <3>3. b = 10 => Len(p) <= 5
      <4>1. n < Tens5 BY <2>2, <3>1, Limits
      <4>. QED BY <3>1, <4>1, FitsDecimal DEF Fits
    <3>. QED BY <3>2, <3>3
  <2>3. b = 10 => Len(p) <= 11 BY <2>1
  <2>. QED BY <1>2, <2>1, <2>2, <2>3
<1>3. CASE b = 10 /\ n < 0 /\ p = <<MinusSign>> \o DigitsOf(Wrapped(-n), 10)
  <2>. DEFINE m == -n
  <2>1. m \in Nat /\ m < LongRange /\ Wrapped(m) = m BY <1>3, NumberRange
  <2>2. Len(p) = Len(DigitsOf(m, 10)) + 1
    <3>. HIDE DEF m
    <3>1. p = <<MinusSign>> \o DigitsOf(m, 10) BY <1>3, <2>1 DEF m
    <3>. QED BY <2>1, <3>1, SignedReads
  <2>3. Len(DigitsOf(m, 10)) \in Nat /\ Len(DigitsOf(m, 10)) <= 10
    <3>. HIDE DEF m
    <3>. QED BY <2>1, <1>1, <1>3
  <2>4. n >= -Bits15 => Len(DigitsOf(m, 10)) <= 5
    <3>1. n >= -Bits15 => m < Tens5 BY <1>0, Limits
    <3>. HIDE DEF m
    <3>. QED BY <2>1, <3>1, FitsDecimal DEF Fits
  <2>. HIDE DEF m
  <2>5. Len(p) \in Nat /\ Len(p) <= 11 /\ Len(p) <= 32 /\ (n >= -Bits15 => Len(p) <= 6)
    BY <2>2, <2>3, <2>4
  <2>6. p = DigitsOf(Wrapped(n), b) => Len(p) <= 10 BY <1>0, <1>1, <1>3
  <2>7. ~(n >= 0) BY <1>0, <1>3
  <2>. QED BY <1>3, <2>5, <2>6, <2>7
<1>. QED BY <1>2, <1>3 DEF Shows

-----------------------------------------------------------------------------
(* Print: what PrintsExactly says of each call.                            *)

BaseOf(c) == IF c.base < 2 THEN 10 ELSE c.base

NumberExact(c, p) ==
    /\ c.call \in {"long", "unsigned", "string"} /\ c.base # 0 =>
          /\ ReadBack(p, BaseOf(c)) =
                IF p[1] = MinusSign THEN c.value ELSE c.value % LongRange
          /\ p[1] = MinusSign => c.base = 10
          /\ Len(Unsigned(p)) > 1 => Unsigned(p)[1] # 0
    /\ c.call = "long" /\ c.base = 10 => ReadBack(p, BaseOf(c)) = c.value

PrintlnExact(c, p) ==
    c.call = "println" /\ c.base \notin {0, 1} =>
        \E n \in 1 .. Len(p) - 2 :
            /\ SubSeq(p, n + 1, Len(p)) = <<Return, LineFeed>>
            /\ ReadBack(SubSeq(p, 1, n), BaseOf(c)) % LongRange = c.value % LongRange

SixteenBits(c) ==
    \/ c.value \in 0 .. 2 ^ 16 - 1
    \/ c.places \in {7, 18} /\ c.base = 10 /\ c.value \in -(2 ^ 15) .. -1

RoomExact(c, p) ==
    c.call = "string" /\ Len(p) >= c.places => c.places \in {6, 7, 17, 18} /\ ~SixteenBits(c)

FloatExact(c, p) ==
    c.call = "float" /\ p # Ovf => 2 * Distance(Decimal(p), c.value) <= 10 ^ (3 - c.base)

PrintfExact(c, p) ==
    c.call = "printf" /\ Distance(Decimal(p), c.value) > 9 =>
        \/ c.value \in -999 .. -1
        \/ (Distance(0, c.value) % 1000) \div 10 \in 1 .. 9

MessageExact(c, p) ==
    /\ c.call = "log" =>
          IF c.value > c.base THEN p = <<>>
          ELSE p = (IF c.value = 1 THEN <<ErrorText>> ELSE <<>>)
                   \o Expansion("log", c.format, Arguments) \o <<LineFeed>>
    /\ c.call = "format" => p = Expansion("printf", c.format, Arguments)

CallExact(c, p) ==
    /\ NumberExact(c, p) /\ PrintlnExact(c, p) /\ RoomExact(c, p)
    /\ FloatExact(c, p) /\ PrintfExact(c, p) /\ MessageExact(c, p)

LEMMA ExactOfCall == CallExact(textCall, printed) => PrintsExactly
<1>. SUFFICES ASSUME CallExact(textCall, printed) PROVE PrintsExactly OBVIOUS
<1>. DEFINE base == IF textCall.base < 2 THEN 10 ELSE textCall.base
            read == Signed(printed, Reads(Unsigned(printed), base))
<1>1. /\ textCall.call \in {"long", "unsigned", "string"} /\ textCall.base # 0 =>
            /\ read = IF printed[1] = MinusSign THEN textCall.value ELSE textCall.value % LongRange
            /\ printed[1] = MinusSign => textCall.base = 10
            /\ Len(Unsigned(printed)) > 1 => Unsigned(printed)[1] # 0
      /\ textCall.call = "long" /\ textCall.base = 10 => read = textCall.value
  BY DEF CallExact, NumberExact, BaseOf, ReadBack
<1>2. textCall.call = "println" /\ textCall.base \notin {0, 1} =>
        \E n \in 1 .. Len(printed) - 2 :
            LET digits == SubSeq(printed, 1, n)
                value  == Signed(digits, Reads(Unsigned(digits), base))
            IN  /\ SubSeq(printed, n + 1, Len(printed)) = <<Return, LineFeed>>
                /\ value % LongRange = textCall.value % LongRange
  BY DEF CallExact, PrintlnExact, BaseOf, ReadBack
<1>3. textCall.call = "string" /\ Len(printed) >= textCall.places =>
              textCall.places \in {6, 7, 17, 18} /\ ~OfSixteenBits
  BY DEF CallExact, RoomExact, SixteenBits, OfSixteenBits
<1>4. textCall.call = "float" /\ printed # Ovf =>
              2 * Distance(Decimal(printed), textCall.value) <= 10 ^ (3 - textCall.base)
  BY DEF CallExact, FloatExact
<1>5. textCall.call = "printf" /\ Distance(Decimal(printed), textCall.value) > 9 =>
              \/ textCall.value \in -999 .. -1
              \/ (Distance(0, textCall.value) % 1000) \div 10 \in 1 .. 9
  BY DEF CallExact, PrintfExact
<1>6. /\ textCall.call = "log" =>
            IF textCall.value > textCall.base THEN printed = <<>>
            ELSE printed = (IF textCall.value = 1 THEN <<ErrorText>> ELSE <<>>)
                           \o Expansion("log", textCall.format, Arguments) \o <<LineFeed>>
      /\ textCall.call = "format" => printed = Expansion("printf", textCall.format, Arguments)
  BY DEF CallExact, MessageExact
<1>. QED BY <1>1, <1>2, <1>3, <1>4, <1>5, <1>6, Zenon DEF PrintsExactly

CallOf(call, value, base, places, format) ==
    [call |-> call, value |-> value, base |-> base, places |-> places, format |-> format]

(* print of a number.                                                      *)
LEMMA PrintExact ==
  ASSUME NEW call \in {"long", "unsigned"}, NEW n \in Numbers, NEW base \in Bases, NEW p,
         p = IF call = "long" THEN PrintLong(n, base) ELSE PrintUnsigned(n, base)
  PROVE  CallExact(CallOf(call, n, base, 0, <<>>), p)
<1>. DEFINE c == CallOf(call, n, base, 0, <<>>)
<1>1. c.call = call /\ c.value = n /\ c.base = base BY DEF CallOf
<1>2. NumberExact(c, p)
  <2>1. CASE base = 0
    <3>. HIDE DEF c
    <3>. QED BY <2>1, <1>1 DEF NumberExact
  <2>2. CASE base # 0
    <3>1. base \in Nat /\ base >= 2 /\ ~(base < 2) /\ n \in Int BY <2>2, BaseRange, NumberRange
    <3>2. Shows(p, n, base) BY <2>2, LongShows
    <3>3. BaseOf(c) = base BY <1>1, <3>1 DEF BaseOf
    <3>. HIDE DEF c
    <3>4. /\ ReadBack(p, base) = IF p[1] = MinusSign THEN n ELSE Wrapped(n)
          /\ p[1] = MinusSign => base = 10
          /\ Len(Unsigned(p)) > 1 => Unsigned(p)[1] # 0
          /\ n >= 0 => ReadBack(p, base) = n
      BY <3>1, <3>2, ShownExact
    <3>5. call = "long" /\ base = 10 => ReadBack(p, base) = n
      <4>1. n < 0 /\ call = "long" /\ base = 10 => p[1] = MinusSign BY <2>2, LongShows
      <4>. QED BY <3>1, <3>4, <4>1
    <3>. QED BY <1>1, <3>3, <3>4, <3>5 DEF NumberExact, Wrapped
  <2>. QED BY <2>1, <2>2
<1>. HIDE DEF c
<1>3. c.call \notin {"println", "string", "float", "printf", "log", "format"} BY <1>1
<1>. QED BY <1>2, <1>3 DEF CallExact, PrintlnExact, RoomExact, FloatExact, PrintfExact,
                          MessageExact, c

(* println of a number.                                                    *)
LEMMA PrintlnIsExact ==
  ASSUME NEW n \in Numbers, NEW base \in Bases, NEW p, p = Println(PrintLong(n, base))
  PROVE  CallExact(CallOf("println", n, base, 0, <<>>), p)
<1>. DEFINE c == CallOf("println", n, base, 0, <<>>)
<1>1. c.call = "println" /\ c.value = n /\ c.base = base BY DEF CallOf
<1>2. PrintlnExact(c, p)
  <2>1. CASE base = 0
    <3>. HIDE DEF c
    <3>. QED BY <2>1, <1>1 DEF PrintlnExact
  <2>2. CASE base # 0
    <3>. DEFINE q == PrintLong(n, base)
                e == <<Return, LineFeed>>
                N == Len(q)
    <3>1. base \in Nat /\ base >= 2 /\ ~(base < 2) BY <2>2, BaseRange
    <3>2. Shows(q, n, base) BY <2>2, LongShows
    <3>3. BaseOf(c) = base BY <1>1, <3>1 DEF BaseOf
    <3>4. e \in Seq(Int) /\ Len(e) = 2 BY DEF Return, LineFeed
    <3>5. p = q \o e BY DEF Println
    <3>. HIDE DEF c, q, e
    <3>6. q \in Seq(Int) /\ Len(q) >= 1 /\ Wrapped(ReadBack(q, base)) = Wrapped(n)
      BY <3>1, <3>2, ShownExact
    <3>7. /\ Len(p) = N + 2 /\ N \in Nat /\ N \in 1 .. Len(p) - 2
          /\ SubSeq(p, 1, N) = q /\ SubSeq(p, N + 1, Len(p)) = e
      <4>1. /\ p \in Seq(Int) /\ Len(p) = N + 2 /\ N \in Nat
            /\ \A i \in 1 .. N + 2 : p[i] = IF i <= N THEN q[i] ELSE e[i - N]
        <5>1. /\ q \o e \in Seq(Int) /\ Len(q \o e) = Len(q) + Len(e)
              /\ \A i \in 1 .. Len(q) + Len(e) :
                    (q \o e)[i] = IF i <= Len(q) THEN q[i] ELSE e[i - Len(q)]
          BY <3>4, <3>6, ConcatProperties
        <5>2. N \in Nat /\ Len(q) + Len(e) = N + 2 BY <3>4, <3>6
        <5>. QED BY <3>5, <5>1, <5>2
      <4>. HIDE DEF N
      <4>2. N \in 1 .. Len(p) - 2 BY <4>1, <3>6 DEF N
      <4>. DEFINE u == SubSeq(p, 1, N)
                  v == SubSeq(p, N + 1, Len(p))
      <4>3. u \in Seq(Int) /\ Len(u) = N /\ \A i \in 1 .. N : u[i] = p[i] BY <4>1, <4>2
      <4>4. v \in Seq(Int) /\ Len(v) = 2 /\ \A i \in 1 .. 2 : v[i] = p[N + i] BY <4>1, <4>2
      <4>. HIDE DEF u, v
      <4>5. u = q
        <5>1. \A i \in 1 .. N : i \in 1 .. N + 2 /\ i <= N BY <4>1
        <5>2. \A i \in 1 .. N : u[i] = q[i] BY <4>1, <4>3, <5>1
        <5>. QED BY <4>3, <5>2, <3>6, SeqEqual DEF N
      <4>6. v = e
        <5>1. \A i \in 1 .. 2 : N + i \in 1 .. N + 2 /\ ~(N + i <= N) /\ N + i - N = i BY <4>1
        <5>2. \A i \in 1 .. 2 : v[i] = e[i] BY <4>1, <4>4, <5>1
        <5>. QED BY <4>4, <5>2, <3>4, SeqEqual
      <4>. QED BY <4>1, <4>2, <4>5, <4>6 DEF u, v
    <3>8. ReadBack(SubSeq(p, 1, N), BaseOf(c)) % LongRange = n % LongRange
      BY <3>3, <3>6, <3>7 DEF Wrapped
    <3>. QED BY <1>1, <3>7, <3>8 DEF PrintlnExact, e
  <2>. QED BY <2>1, <2>2
<1>. HIDE DEF c
<1>3. c.call \notin {"long", "unsigned", "string", "float", "printf", "log", "format"} BY <1>1
<1>. QED BY <1>2, <1>3 DEF CallExact, NumberExact, RoomExact, FloatExact, PrintfExact,
                          MessageExact, c

LEMMA SixteenBitsIs ==
  ASSUME NEW c, c.value \in Int, SixteenBits(c)
  PROVE  \/ c.value >= 0 /\ c.value < Bits16
         \/ c.places \in {7, 18} /\ c.base = 10 /\ c.value >= -Bits15 /\ c.value < 0
<1>. DEFINE x == 2 ^ 16
            y == 2 ^ 15
<1>1. x = Bits16 /\ y = Bits15 BY DEF Bits15, Bits16
<1>2. \/ c.value \in 0 .. x - 1
      \/ c.places \in {7, 18} /\ c.base = 10 /\ c.value \in -y .. -1
  BY DEF SixteenBits
<1>. HIDE DEF x, y
<1>. QED BY <1>1, <1>2, Limits

(* A String of a number has the room that its text needs.                  *)
LEMMA StringExact ==
  ASSUME NEW n \in Numbers, NEW type \in Types, NEW base \in Nat, base >= 2, NEW places,
         \/ base = 10 /\ places = ConcatPlaces(type)
         \/ places = StringPlaces(type),
         NEW p, p = Ltoa(n, type, base)
  PROVE  CallExact(CallOf("string", n, base, places, <<>>), p)
<1>. DEFINE c == CallOf("string", n, base, places, <<>>)
<1>1. c.call = "string" /\ c.value = n /\ c.base = base /\ c.places = places BY DEF CallOf
<1>2. base \in Nat /\ base >= 2 /\ ~(base < 2) /\ n \in Int BY NumberRange
<1>3. Shows(p, n, base) /\ (type \notin {"int", "long"} => p = DigitsOf(Wrapped(n), base))
  BY <1>2, LtoaShows
<1>4. BaseOf(c) = base BY <1>1, <1>2 DEF BaseOf
<1>. HIDE DEF c
<1>5. NumberExact(c, p)
  <2>1. /\ ReadBack(p, base) = IF p[1] = MinusSign THEN n ELSE Wrapped(n)
        /\ p[1] = MinusSign => base = 10
        /\ Len(Unsigned(p)) > 1 => Unsigned(p)[1] # 0
    BY <1>2, <1>3, ShownExact
  <2>. QED BY <1>1, <1>4, <2>1 DEF NumberExact, Wrapped
<1>6. RoomExact(c, p)
  <2>1. /\ Len(p) \in Nat /\ Len(p) <= 32
        /\ p = DigitsOf(Wrapped(n), base) /\ base = 10 => Len(p) <= 10
        /\ base = 10 => Len(p) <= 11
        /\ n >= 0 /\ n < Bits16 => Len(p) <= 16 /\ (base = 10 => Len(p) <= 5)
        /\ n < 0 /\ n >= -Bits15 /\ base = 10 /\ p # DigitsOf(Wrapped(n), base) => Len(p) <= 6
    BY <1>2, <1>3, ShownLength
  <2>2. SUFFICES ASSUME Len(p) >= places PROVE places \in {6, 7, 17, 18} /\ ~SixteenBits(c)
    BY <1>1 DEF RoomExact
  <2>3. CASE type = "long"
    <3>1. places = 34 \/ (base = 10 /\ places = 12) BY <2>3 DEF ConcatPlaces, StringPlaces
    <3>. QED BY <2>1, <2>2, <3>1
  <2>4. CASE type = "unsigned long"
    <3>1. places = 33 \/ (base = 10 /\ places = 11) BY <2>4 DEF ConcatPlaces, StringPlaces
    <3>2. p = DigitsOf(Wrapped(n), base) BY <2>4, <1>3
    <3>. QED BY <2>1, <2>2, <3>1, <3>2
  <2>5. CASE type = "unsigned"
    <3>1. places = 17 \/ (base = 10 /\ places = 6) BY <2>5 DEF ConcatPlaces, StringPlaces
    <3>2. ~(n >= 0 /\ n < Bits16) BY <2>1, <2>2, <3>1
    <3>3. ~SixteenBits(c) BY <3>1, <3>2, <1>1, <1>2, SixteenBitsIs
    <3>. QED BY <3>1, <3>3
  <2>6. CASE type = "int"
    <3>1. places = 18 \/ (base = 10 /\ places = 7) BY <2>6 DEF ConcatPlaces, StringPlaces
    <3>2. ~(n >= 0 /\ n < Bits16) BY <2>1, <2>2, <3>1
    <3>3. base = 10 /\ n < 0 => p # DigitsOf(Wrapped(n), base)
      <4>1. ASSUME base = 10, n < 0 PROVE p # DigitsOf(Wrapped(n), base)
        <5>1. p = <<MinusSign>> \o DigitsOf(Wrapped(-n), 10) BY <2>6, <4>1 DEF Ltoa, Wrapped
        <5>2. Wrapped(-n) \in Nat /\ Wrapped(n) \in Nat BY <4>1, NumberRange
        <5>3. p[1] = MinusSign BY <5>1, <5>2, SignedReads
        <5>4. DigitsOf(Wrapped(n), base)[1] # MinusSign BY <5>2, <1>2, PlainReads
        <5>. QED BY <5>3, <5>4
      <4>. QED BY <4>1
    <3>4. ~(base = 10 /\ n < 0 /\ n >= -Bits15) BY <2>1, <2>2, <3>1, <3>3
    <3>5. ~SixteenBits(c) BY <3>2, <3>4, <1>1, <1>2, SixteenBitsIs
    <3>. QED BY <3>1, <3>5
  <2>. QED BY <2>3, <2>4, <2>5, <2>6 DEF Types
<1>7. c.call \notin {"println", "float", "printf", "log", "format"} BY <1>1
<1>. QED BY <1>5, <1>6, <1>7 DEF CallExact, PrintlnExact, FloatExact, PrintfExact,
                                 MessageExact, c

-----------------------------------------------------------------------------
(* Messages: printing character by character gives what the format stands  *)
(* for.                                                                    *)

(* A number prints in any base.                                            *)
LEMMA NumberText ==
  ASSUME NEW n \in Int, NEW b \in Nat, b >= 2
  PROVE  PrintLong(n, b) \in Seq(Int) /\ PrintUnsigned(n, b) \in Seq(Int)
<1>1. Wrapped(n) \in Nat /\ Wrapped(-n) \in Nat /\ ~(b = 0) /\ ~(b < 2)
  BY WrappedFacts, LongWidth, Limits
<1>2. \A m \in Nat : DigitsOf(m, b) \in Seq(Int)
  <2>1. \A m \in Nat : DigitsOf(m, b) \in Seq(Nat) BY DigitsAre
  <2>2. Nat \subseteq Int OBVIOUS
  <2>. QED BY <2>1, <2>2, SeqMonotonic
<1>3. PrintUnsigned(n, b) \in Seq(Int) BY <1>1, <1>2 DEF PrintUnsigned, PrintNumber, Wrapped
<1>4. CASE b = 10 /\ n < 0
  <2>1. PrintLong(n, b) = <<MinusSign>> \o DigitsOf(Wrapped(-n), 10)
    BY <1>4 DEF PrintLong, PrintNumber, Wrapped
  <2>2. PrintLong(n, b) \in Seq(Int) BY <1>1, <2>1, SignedReads
  <2>. QED BY <1>3, <2>2
<1>5. CASE ~(b = 10 /\ n < 0)
  <2>1. PrintLong(n, b) = DigitsOf(Wrapped(n), b)
    BY <1>1, <1>5 DEF PrintLong, PrintNumber, Wrapped
  <2>. QED BY <1>1, <1>2, <1>3, <2>1
<1>. QED BY <1>4, <1>5

LEMMA ConversionText ==
  ASSUME NEW call \in {"log", "printf"}, NEW c \in Int, NEW k \in Nat
  PROVE  ConvertAs(call, c, Arguments[k]) \in Seq(Int)
<1>. DEFINE arg == Arguments[k]
<1>1. arg \in Int BY DEF Arguments
<1>. HIDE DEF arg
<1>2. \A b \in Nat : b >= 2 => PrintLong(arg, b) \in Seq(Int) /\ PrintUnsigned(arg, b) \in Seq(Int)
  <2>1. ASSUME NEW b \in Nat, b >= 2
        PROVE  PrintLong(arg, b) \in Seq(Int) /\ PrintUnsigned(arg, b) \in Seq(Int)
    BY <1>1, <2>1, NumberText
  <2>. QED BY <2>1
<1>3. /\ PrintLong(arg, 10) \in Seq(Int) /\ PrintLong(arg, 2) \in Seq(Int)
      /\ PrintUnsigned(arg, 16) \in Seq(Int) /\ PrintUnsigned(arg, 2) \in Seq(Int)
  BY <1>2
<1>4. <<0, Letter>> \in Seq(Int) /\ <<Percent>> \in Seq(Int) /\ <<>> \in Seq(Int)
  BY DEF Letter, Percent
<1>5. <<0, Letter>> \o PrintUnsigned(arg, 16) \in Seq(Int) BY <1>3, <1>4, ConcatProperties
<1>6. Conversion(c, arg) \in Seq(Int)
  <2>1. CASE c = ConvD BY <2>1, <1>3 DEF Conversion, ConvD, ConvX, ConvB, Percent
  <2>2. CASE c = ConvX BY <2>2, <1>5 DEF Conversion, ConvD, ConvX, ConvB, Percent
  <2>3. CASE c = ConvB BY <2>3, <1>3 DEF Conversion, ConvD, ConvX, ConvB, Percent
  <2>4. CASE c = Percent BY <2>4, <1>4 DEF Conversion, ConvD, ConvX, ConvB, Percent
  <2>5. CASE c \notin {ConvD, ConvX, ConvB, Percent} BY <2>5, <1>4 DEF Conversion
  <2>. QED BY <2>1, <2>2, <2>3, <2>4, <2>5
<1>7. PrintfConversion(c, arg) \in Seq(Int)
  <2>1. CASE c = ConvD BY <2>1, <1>3 DEF PrintfConversion, ConvD, ConvX, ConvB, Percent
  <2>2. CASE c = ConvX BY <2>2, <1>3 DEF PrintfConversion, ConvD, ConvX, ConvB, Percent
  <2>3. CASE c = ConvB BY <2>3, <1>3 DEF PrintfConversion, ConvD, ConvX, ConvB, Percent
  <2>4. CASE c = Percent BY <2>4, <1>4 DEF PrintfConversion, ConvD, ConvX, ConvB, Percent
  <2>5. CASE c \notin {ConvD, ConvX, ConvB, Percent} BY <2>5, <1>4 DEF PrintfConversion
  <2>. QED BY <2>1, <2>2, <2>3, <2>4, <2>5
<1>. QED BY <1>6, <1>7 DEF ConvertAs, arg

PrintStates == [out : Seq(Int), percent : BOOLEAN, next : Nat]
PrintStart  == [out |-> <<>>, percent |-> FALSE, next |-> 1]

LEMMA StepTyped ==
  ASSUME NEW call \in {"log", "printf"}, NEW s \in PrintStates, NEW c \in Int
  PROVE  Step(call, s, c, Arguments) \in PrintStates
<1>1. s.out \in Seq(Int) /\ s.next \in Nat /\ s.percent \in BOOLEAN BY DEF PrintStates
<1>2. CASE s.percent
  <2>. DEFINE t == ConvertAs(call, c, Arguments[s.next])
              k == IF Takes(c) THEN s.next + 1 ELSE s.next
  <2>1. t \in Seq(Int) BY <1>1, ConversionText
  <2>2. k \in Nat BY <1>1
  <2>3. Step(call, s, c, Arguments) = [out |-> s.out \o t, percent |-> FALSE, next |-> k]
    BY <1>2 DEF Step
  <2>. HIDE DEF t, k
  <2>4. s.out \o t \in Seq(Int) BY <1>1, <2>1, ConcatProperties
  <2>. QED BY <2>2, <2>3, <2>4 DEF PrintStates
<1>3. CASE ~s.percent /\ c = Percent
  <2>1. Step(call, s, c, Arguments) = [s EXCEPT !.percent = TRUE] BY <1>3 DEF Step
  <2>. QED BY <2>1 DEF PrintStates
<1>4. CASE ~s.percent /\ c # Percent
  <2>1. Step(call, s, c, Arguments) = [s EXCEPT !.out = Append(s.out, c)] BY <1>4 DEF Step
  <2>2. Append(s.out, c) \in Seq(Int) BY <1>1
  <2>. QED BY <2>1, <2>2 DEF PrintStates
<1>. QED BY <1>1, <1>2, <1>3, <1>4

HasStates(call, f) ==
  \E after \in [0 .. Len(f) -> PrintStates] :
      /\ Formatted(call, f, Arguments) = after[Len(f)].out /\ after[0] = PrintStart
      /\ \A n \in 1 .. Len(f) : after[n] = Step(call, after[n - 1], f[n], Arguments)

(* The recursive function in Formatted exists.                             *)
LEMMA FormattedIs ==
  ASSUME NEW call \in {"log", "printf"}, NEW f \in Seq(Int)
  PROVE  HasStates(call, f)
<1>. DEFINE N == Len(f)
            St(s, c) == Step(call, s, c, Arguments)
            F(a) == [n \in 0 .. N |->
                       IF n = 0 THEN [out |-> <<>>, percent |-> FALSE, next |-> 1]
                       ELSE St(a[n - 1], f[n])]
            step == [n \in Nat |-> [s \in PrintStates |-> IF n \in 1 .. N THEN St(s, f[n]) ELSE s]]
            g == CHOOSE a : a = F(a)
<1>1. N \in Nat /\ PrintStart \in PrintStates BY DEF PrintStart, PrintStates
<1>2. \A n \in 1 .. N, s \in PrintStates : St(s, f[n]) \in PrintStates
  <2>1. \A n \in 1 .. N : f[n] \in Int BY <1>1
  <2>. QED BY <2>1, StepTyped
<1>3. Formatted(call, f, Arguments) = g[N].out BY DEF Formatted
<1>. HIDE DEF St
<1>4. step \in [Nat -> [PrintStates -> PrintStates]] BY <1>2
<1>5. PICK a \in [0 .. N -> PrintStates] :
         a[0] = PrintStart /\ \A n \in 1 .. N : a[n] = step[n][a[n - 1]]
  <2>. HIDE DEF step, N, F, g
  <2>2. HasRecursion(N, PrintStates, PrintStart, step) BY <1>1, <1>4, Recursion
  <2>. QED BY <2>2 DEF HasRecursion
<1>6. \A n \in 1 .. N : a[n] = St(a[n - 1], f[n])
  <2>1. ASSUME NEW n \in 1 .. N PROVE a[n] = St(a[n - 1], f[n])
    <3>1. a[n - 1] \in PrintStates BY <1>1, <1>5
    <3>2. n \in Nat BY <1>1
    <3>. QED BY <3>1, <3>2, <1>5
  <2>. QED BY <2>1
<1>7. a = F(a)
  <2>1. \A n \in 0 .. N : a[n] = F(a)[n] BY <1>1, <1>5, <1>6 DEF PrintStart
  <2>2. a = [n \in 0 .. N |-> a[n]] BY <1>5
  <2>3. F(a) = [n \in 0 .. N |-> F(a)[n]] OBVIOUS
  <2>. QED BY <2>1, <2>2
<1>8. g = F(g) BY <1>7
<1>. HIDE DEF g
<1>9. g[0] = PrintStart BY <1>1, <1>8 DEF PrintStart
<1>10. \A n \in 1 .. N : g[n] = St(g[n - 1], f[n])
  <2>1. \A n \in 0 .. N : g[n] = F(g)[n] BY <1>8
  <2>2. \A n \in 1 .. N : n \in 0 .. N /\ n # 0 BY <1>1
  <2>. QED BY <2>1, <2>2
<1>11. g \in [0 .. N -> PrintStates]
  <2>. DEFINE S == {n \in Nat : n <= N => g[n] \in PrintStates}
  <2>1. 0 \in S BY <1>1, <1>9
  <2>2. ASSUME NEW n \in Nat, n \in S PROVE n + 1 \in S
    <3>1. CASE n + 1 <= N
      <4>1. n + 1 \in 1 .. N /\ n + 1 - 1 = n /\ g[n] \in PrintStates BY <3>1, <2>2, <1>1
      <4>2. g[n + 1] = St(g[n], f[n + 1]) BY <4>1, <1>10
      <4>3. g[n + 1] \in PrintStates BY <4>1, <4>2, <1>2
      <4>. QED BY <4>3
    <3>. QED BY <3>1
  <2>3. \A n \in Nat : n \in S
    <3>. HIDE DEF S
    <3>. QED BY <2>1, <2>2, Induction
  <2>4. \A n \in 0 .. N : g[n] \in PrintStates BY <2>3, <1>1
  <2>5. g = [n \in 0 .. N |-> g[n]] BY <1>8
  <2>. QED BY <2>4, <2>5
<1>12. \A n \in 1 .. N : g[n] = Step(call, g[n - 1], f[n], Arguments) BY <1>10 DEF St
<1>. QED BY <1>3, <1>9, <1>11, <1>12 DEF HasStates

\* what the last n characters of f stand for, from the k-th argument
RestIs(call, f, rest, n, k) ==
    LET c == f[Len(f) - n + 1]
        d == f[Len(f) - n + 2]
    IN  IF n = 0 \/ (n = 1 /\ c = Percent) THEN <<>>
        ELSE IF c # Percent THEN <<c>> \o rest[n - 1][k]
        ELSE ConvertAs(call, d, Arguments[k]) \o rest[n - 2][IF Takes(d) THEN k + 1 ELSE k]

HasRest(call, f) ==
  \E rest \in [0 .. Len(f) -> [Nat -> Seq(Int)]] :
      /\ Expansion(call, f, Arguments) = rest[Len(f)][1]
      /\ \A n \in 0 .. Len(f) : \A k \in Nat : rest[n][k] = RestIs(call, f, rest, n, k)

LEMMA RestTyped ==
  ASSUME NEW call \in {"log", "printf"}, NEW f \in Seq(Int), NEW n \in 0 .. Len(f), NEW k \in Nat,
         NEW rest, \A m \in 0 .. n - 1 : \A j \in Nat : rest[m][j] \in Seq(Int)
  PROVE  RestIs(call, f, rest, n, k) \in Seq(Int)
<1>. DEFINE c == f[Len(f) - n + 1]
            d == f[Len(f) - n + 2]
            j == IF Takes(d) THEN k + 1 ELSE k
<1>0. Len(f) \in Nat /\ n \in Nat /\ j \in Nat OBVIOUS
<1>1. CASE n = 0 \/ (n = 1 /\ c = Percent)
  <2>1. RestIs(call, f, rest, n, k) = <<>> BY <1>1 DEF RestIs
  <2>2. <<>> \in Seq(Int) OBVIOUS
  <2>. QED BY <2>1, <2>2
<1>2. CASE ~(n = 0 \/ (n = 1 /\ c = Percent)) /\ c # Percent
  <2>1. Len(f) - n + 1 \in 1 .. Len(f) /\ n - 1 \in 0 .. n - 1 BY <1>0, <1>2
  <2>2. c \in Int BY <2>1
  <2>3. rest[n - 1][k] \in Seq(Int) BY <2>1
  <2>4. RestIs(call, f, rest, n, k) = <<c>> \o rest[n - 1][k] BY <1>2 DEF RestIs
  <2>. HIDE DEF c
  <2>5. <<c>> \in Seq(Int) BY <2>2
  <2>. QED BY <2>3, <2>4, <2>5, ConcatProperties
<1>3. CASE ~(n = 0 \/ (n = 1 /\ c = Percent)) /\ c = Percent
  <2>1. n >= 2 BY <1>0, <1>3
  <2>2. Len(f) - n + 2 \in 1 .. Len(f) /\ n - 2 \in 0 .. n - 1 BY <1>0, <2>1
  <2>3. d \in Int BY <2>2
  <2>4. rest[n - 2][j] \in Seq(Int) BY <2>2, <1>0
  <2>5. RestIs(call, f, rest, n, k) = ConvertAs(call, d, Arguments[k]) \o rest[n - 2][j]
    BY <1>3 DEF RestIs
  <2>. HIDE DEF c, d, j
  <2>6. ConvertAs(call, d, Arguments[k]) \in Seq(Int) BY <2>3, ConversionText
  <2>. QED BY <2>4, <2>5, <2>6, ConcatProperties
<1>. QED BY <1>1, <1>2, <1>3

LEMMA RestLooksBelow ==
  ASSUME NEW call, NEW f \in Seq(Int), NEW n \in 0 .. Len(f), NEW k \in Nat, NEW g, NEW h,
         \A m \in 0 .. n - 1 : g[m] = h[m]
  PROVE  RestIs(call, f, g, n, k) = RestIs(call, f, h, n, k)
<1>. DEFINE c == f[Len(f) - n + 1]
<1>0. n \in Nat OBVIOUS
<1>1. CASE n = 0 \/ (n = 1 /\ c = Percent) BY <1>1 DEF RestIs
<1>2. CASE ~(n = 0 \/ (n = 1 /\ c = Percent)) /\ c # Percent
  <2>1. g[n - 1] = h[n - 1]
    <3>1. n - 1 \in 0 .. n - 1 BY <1>0, <1>2
    <3>. QED BY <3>1
  <2>. QED BY <1>2, <2>1 DEF RestIs
<1>3. CASE ~(n = 0 \/ (n = 1 /\ c = Percent)) /\ c = Percent
  <2>1. g[n - 2] = h[n - 2]
    <3>1. n - 2 \in 0 .. n - 1 BY <1>0, <1>3
    <3>. QED BY <3>1
  <2>. QED BY <1>3, <2>1 DEF RestIs
<1>. QED BY <1>1, <1>2, <1>3

(* The recursive function in Expansion exists.                             *)
LEMMA ExpansionIs ==
  ASSUME NEW call \in {"log", "printf"}, NEW f \in Seq(Int)
  PROVE  HasRest(call, f)
<1>. DEFINE N == Len(f)
            V == [Nat -> Seq(Int)]
            Is(g, n, k) == RestIs(call, f, g, n, k)
            step == [n \in Nat |-> [g \in [Nat -> V] |->
                       [k \in Nat |-> IF n <= N THEN Is(g, n, k) ELSE <<>>]]]
            F(rest) == [n \in 0 .. N |-> [k \in Nat |->
                LET c == f[Len(f) - n + 1]
                    d == f[Len(f) - n + 2]
                IN  IF n = 0 \/ (n = 1 /\ c = Percent) THEN <<>>
                    ELSE IF c # Percent THEN <<c>> \o rest[n - 1][k]
                    ELSE ConvertAs(call, d, Arguments[k])
                         \o rest[n - 2][IF Takes(d) THEN k + 1 ELSE k]]]
            r == CHOOSE rest : rest = F(rest)
<1>1. N \in Nat OBVIOUS
<1>2. Expansion(call, f, Arguments) = r[N][1] BY DEF Expansion
<1>3. \A g : F(g) = [n \in 0 .. N |-> [k \in Nat |-> Is(g, n, k)]] BY DEF RestIs
<1>4. \A n \in 0 .. N, k \in Nat : \A g :
         (\A m \in 0 .. n - 1 : \A j \in Nat : g[m][j] \in Seq(Int)) => Is(g, n, k) \in Seq(Int)
  BY RestTyped
<1>5. \A n \in 0 .. N, k \in Nat : \A g, h :
         (\A m \in 0 .. n - 1 : g[m] = h[m]) => Is(g, n, k) = Is(h, n, k)
  BY RestLooksBelow
<1>. HIDE DEF Is, F
<1>6. step \in [Nat -> [[Nat -> V] -> V]]
  <2>1. ASSUME NEW n \in Nat, NEW g \in [Nat -> V], NEW k \in Nat
        PROVE  (IF n <= N THEN Is(g, n, k) ELSE <<>>) \in Seq(Int)
    <3>1. CASE n <= N
      <4>1. n \in 0 .. N BY <3>1, <1>1
      <4>2. \A m \in 0 .. n - 1 : \A j \in Nat : g[m][j] \in Seq(Int) OBVIOUS
      <4>3. Is(g, n, k) \in Seq(Int) BY <1>4, <4>1, <4>2
      <4>. QED BY <3>1, <4>3
    <3>2. CASE ~(n <= N) BY <3>2
    <3>. QED BY <3>1, <3>2
  <2>. QED BY <2>1
<1>7. LooksBelow(V, step)
  <2>1. ASSUME NEW n \in Nat, NEW g \in [Nat -> V], NEW h \in [Nat -> V],
               \A m \in 0 .. n - 1 : g[m] = h[m]
        PROVE  step[n][g] = step[n][h]
    <3>1. CASE n <= N
      <4>1. n \in 0 .. N BY <3>1, <1>1
      <4>2. \A k \in Nat : Is(g, n, k) = Is(h, n, k) BY <1>5, <4>1, <2>1
      <4>. QED BY <3>1, <4>2
    <3>2. CASE ~(n <= N) BY <3>2
    <3>. QED BY <3>1, <3>2
  <2>. HIDE DEF step, V
  <2>. QED BY <2>1 DEF LooksBelow
<1>8. PICK h \in [Nat -> V] : \A n \in Nat : h[n] = step[n][h]
  <2>1. [k \in Nat |-> <<>>] \in V OBVIOUS
  <2>. DEFINE v == [k \in Nat |-> <<>>]
  <2>. HIDE DEF step, V, v
  <2>2. HasCourse(V, step) BY <2>1, <1>6, <1>7, CourseRecursion DEF v
  <2>. QED BY <2>2 DEF HasCourse
<1>9. \A n \in 0 .. N : h[n] = [k \in Nat |-> Is(h, n, k)]
  <2>1. ASSUME NEW n \in 0 .. N PROVE h[n] = [k \in Nat |-> Is(h, n, k)]
    <3>1. n \in Nat /\ n <= N BY <1>1
    <3>2. h[n] = step[n][h] BY <3>1, <1>8
    <3>3. step[n][h] = [k \in Nat |-> IF n <= N THEN Is(h, n, k) ELSE <<>>] BY <3>1
    <3>. HIDE DEF step
    <3>. QED BY <3>1, <3>2, <3>3
  <2>. QED BY <2>1
<1>. DEFINE q == [n \in 0 .. N |-> h[n]]
<1>10. q = F(q)
  <2>1. ASSUME NEW n \in 0 .. N PROVE q[n] = [k \in Nat |-> Is(q, n, k)]
    <3>1. \A m \in 0 .. n - 1 : q[m] = h[m]
      <4>1. \A m \in 0 .. n - 1 : m \in 0 .. N BY <1>1
      <4>. QED BY <4>1
    <3>. HIDE DEF q
    <3>2. \A k \in Nat : Is(q, n, k) = Is(h, n, k) BY <1>5, <3>1
    <3>3. q[n] = h[n] BY DEF q
    <3>. QED BY <3>2, <3>3, <1>9
  <2>2. F(q) = [n \in 0 .. N |-> [k \in Nat |-> Is(q, n, k)]] BY <1>3
  <2>3. q = [n \in 0 .. N |-> q[n]] OBVIOUS
  <2>. HIDE DEF q
  <2>. QED BY <2>1, <2>2, <2>3
<1>11. r = F(r)
  <2>. HIDE DEF q
  <2>. QED BY <1>10
<1>. HIDE DEF r
<1>12. \A n \in 0 .. N : \A k \in Nat : r[n][k] = Is(r, n, k)
  <2>. DEFINE w == [n \in 0 .. N |-> [k \in Nat |-> Is(r, n, k)]]
  <2>1. \A n \in 0 .. N : \A k \in Nat : w[n][k] = Is(r, n, k) OBVIOUS
  <2>2. r = w BY <1>3, <1>11
  <2>. HIDE DEF w
  <2>. QED BY <2>1, <2>2
<1>13. \A n \in 0 .. N : \A k \in Nat : r[n][k] \in Seq(Int)
  <2>. DEFINE S == {n \in Nat : n <= N => \A k \in Nat : r[n][k] \in Seq(Int)}
  <2>1. ASSUME NEW n \in Nat, \A m \in 0 .. n - 1 : m \in S PROVE n \in S
    <3>1. ASSUME n <= N, NEW k \in Nat PROVE r[n][k] \in Seq(Int)
      <4>1. n \in 0 .. N BY <3>1, <1>1
      <4>2. \A m \in 0 .. n - 1 : \A j \in Nat : r[m][j] \in Seq(Int)
        <5>1. \A m \in 0 .. n - 1 : m \in Nat /\ m <= N BY <4>1, <1>1
        <5>. QED BY <5>1, <2>1
      <4>. QED BY <4>1, <4>2, <1>4, <1>12
    <3>. QED BY <3>1
  <2>2. \A n \in Nat : n \in S
    <3>. HIDE DEF S
    <3>. QED BY <2>1, CourseInduction
  <2>3. \A n \in 0 .. N : n \in Nat /\ n <= N BY <1>1
  <2>. QED BY <2>2, <2>3
<1>14. r \in [0 .. N -> [Nat -> Seq(Int)]]
  <2>1. r = [n \in 0 .. N |-> [k \in Nat |-> Is(r, n, k)]] BY <1>3, <1>11
  <2>. QED BY <2>1, <1>12, <1>13
<1>. QED BY <1>2, <1>12, <1>14 DEF HasRest, Is

\* what is still to come after n characters: the rest, behind the conversion
\* that a percent sign has begun
ToCome(call, f, rest, n, s) ==
    IF ~s.percent THEN rest[Len(f) - n][s.next]
    ELSE IF n = Len(f) THEN <<>>
    ELSE ConvertAs(call, f[n + 1], Arguments[s.next])
         \o rest[Len(f) - n - 1][IF Takes(f[n + 1]) THEN s.next + 1 ELSE s.next]

LEMMA ToComeTyped ==
  ASSUME NEW call \in {"log", "printf"}, NEW f \in Seq(Int), NEW n \in 0 .. Len(f),
         NEW s \in PrintStates, NEW rest \in [0 .. Len(f) -> [Nat -> Seq(Int)]]
  PROVE  ToCome(call, f, rest, n, s) \in Seq(Int)
<1>. DEFINE j == IF Takes(f[n + 1]) THEN s.next + 1 ELSE s.next
<1>0. Len(f) \in Nat /\ n \in Nat /\ s.next \in Nat /\ j \in Nat BY DEF PrintStates
<1>1. CASE ~s.percent
  <2>1. Len(f) - n \in 0 .. Len(f) BY <1>0
  <2>2. rest[Len(f) - n][s.next] \in Seq(Int) BY <1>0, <2>1
  <2>. QED BY <1>1, <2>2 DEF ToCome
<1>2. CASE s.percent /\ n = Len(f) BY <1>2 DEF ToCome
<1>3. CASE s.percent /\ n # Len(f)
  <2>1. Len(f) - n - 1 \in 0 .. Len(f) /\ n + 1 \in 1 .. Len(f) BY <1>0, <1>3
  <2>2. rest[Len(f) - n - 1][j] \in Seq(Int) BY <1>0, <2>1
  <2>3. f[n + 1] \in Int BY <2>1
  <2>4. ConvertAs(call, f[n + 1], Arguments[s.next]) \in Seq(Int) BY <1>0, <2>3, ConversionText
  <2>5. ToCome(call, f, rest, n, s) = ConvertAs(call, f[n + 1], Arguments[s.next])
                                      \o rest[Len(f) - n - 1][j]
    BY <1>3 DEF ToCome
  <2>. HIDE DEF j
  <2>. QED BY <2>2, <2>4, <2>5, ConcatProperties
<1>. QED BY <1>1, <1>2, <1>3

\* at the character after n
AtIs(call, f, n, k, rest) ==
    /\ f[n + 1] # Percent => rest[Len(f) - n][k] = <<f[n + 1]>> \o rest[Len(f) - n - 1][k]
    /\ f[n + 1] = Percent /\ n + 1 = Len(f) => rest[Len(f) - n][k] = <<>>
    /\ f[n + 1] = Percent /\ n + 1 # Len(f) =>
         rest[Len(f) - n][k] = ConvertAs(call, f[n + 2], Arguments[k])
        \o rest[Len(f) - n - 2][IF Takes(f[n + 2]) THEN k + 1 ELSE k]

(* What is to come at the next character.                                  *)
LEMMA RestAt ==
  ASSUME NEW call, NEW f \in Seq(Int), NEW n \in 0 .. Len(f), n < Len(f), NEW k \in Nat, NEW rest,
         \A m \in 0 .. Len(f) : \A j \in Nat : rest[m][j] = RestIs(call, f, rest, m, j)
  PROVE  AtIs(call, f, n, k, rest)
<1>. DEFINE m == Len(f) - n
<1>1. Len(f) \in Nat OBVIOUS
<1>2. /\ m \in 0 .. Len(f) /\ m # 0 /\ Len(f) - m + 1 = n + 1 /\ Len(f) - m + 2 = n + 2
      /\ m = 1 <=> n + 1 = Len(f)
  BY <1>1
<1>. HIDE DEF m
<1>3. rest[m][k] = RestIs(call, f, rest, m, k) BY <1>2
<1>4. f[n + 1] # Percent => rest[m][k] = <<f[n + 1]>> \o rest[m - 1][k]
  BY <1>2, <1>3, Zenon DEF RestIs
<1>5. f[n + 1] = Percent /\ n + 1 = Len(f) => rest[m][k] = <<>>
  BY <1>2, <1>3, Zenon DEF RestIs
<1>6. f[n + 1] = Percent /\ n + 1 # Len(f) =>
         rest[m][k] = ConvertAs(call, f[n + 2], Arguments[k])
                      \o rest[m - 2][IF Takes(f[n + 2]) THEN k + 1 ELSE k]
  BY <1>2, <1>3, Zenon DEF RestIs
<1>. QED BY <1>4, <1>5, <1>6, Zenon DEF m, AtIs

(* One character more, and the text with what is to come is the same.      *)
Regroups == \A p, q, r \in Seq(Int) : (p \o q) \o r = p \o (q \o r)

LEMMA Regrouping == Regroups
<1>1. ASSUME NEW p \in Seq(Int), NEW q \in Seq(Int), NEW r \in Seq(Int)
      PROVE  (p \o q) \o r = p \o (q \o r)
  BY ConcatAssociative
<1>. QED BY <1>1 DEF Regroups

LEMMA StepKeepsText ==
  ASSUME NEW call \in {"log", "printf"}, NEW f \in Seq(Int), NEW n \in 0 .. Len(f), n < Len(f),
         NEW s \in PrintStates, NEW rest \in [0 .. Len(f) -> [Nat -> Seq(Int)]],
         \A m \in 0 .. Len(f) : \A k \in Nat : rest[m][k] = RestIs(call, f, rest, m, k),
         NEW t, t = Step(call, s, f[n + 1], Arguments)
  PROVE  t.out \o ToCome(call, f, rest, n + 1, t) = s.out \o ToCome(call, f, rest, n, s)
<1>. DEFINE N == Len(f)
            c == f[n + 1]
            m == N - n
            k == s.next
<1>0. /\ N \in Nat /\ n \in Nat /\ n + 1 \in 1 .. N /\ n + 1 \in 0 .. N /\ n # N
      /\ N - n - 1 = m - 1 /\ N - (n + 1) = m - 1 /\ N - (n + 1) - 1 = m - 2
      /\ n + 1 + 1 = n + 2
  OBVIOUS
<1>1. k \in Nat /\ s.out \in Seq(Int) /\ s.percent \in BOOLEAN /\ c \in Int
  <2>1. k \in Nat /\ s.out \in Seq(Int) /\ s.percent \in BOOLEAN BY DEF PrintStates
  <2>2. c \in Int
    <3>. DEFINE i == n + 1
    <3>1. i \in 1 .. Len(f) BY <1>0
    <3>. HIDE DEF i
    <3>2. f[i] \in Int BY <3>1, ElementOfSeq
    <3>. QED BY <3>2 DEF i
  <2>. QED BY <2>1, <2>2
<1>2. t \in PrintStates BY <1>1, StepTyped
<1>3. ToCome(call, f, rest, n + 1, t) \in Seq(Int) BY <1>0, <1>2, ToComeTyped
<1>4. /\ c # Percent => rest[m][k] = <<c>> \o rest[m - 1][k]
      /\ c = Percent /\ n + 1 = N => rest[m][k] = <<>>
      /\ c = Percent /\ n + 1 # N =>
            rest[m][k] = ConvertAs(call, f[n + 2], Arguments[k])
                         \o rest[m - 2][IF Takes(f[n + 2]) THEN k + 1 ELSE k]
  <2>1. /\ c # Percent => rest[N - n][k] = <<c>> \o rest[N - n - 1][k]
        /\ c = Percent /\ n + 1 = N => rest[N - n][k] = <<>>
        /\ c = Percent /\ n + 1 # N =>
              rest[N - n][k] = ConvertAs(call, f[n + 2], Arguments[k])
                           \o rest[N - n - 2][IF Takes(f[n + 2]) THEN k + 1 ELSE k]
    <3>1. \A j \in Nat : AtIs(call, f, n, j, rest)
      <4>1. ASSUME NEW j \in Nat PROVE AtIs(call, f, n, j, rest) BY RestAt
      <4>. QED BY <4>1
    <3>2. AtIs(call, f, n, k, rest) BY <1>1, <3>1
    <3>. QED BY <3>2, Zenon DEF AtIs
  <2>. QED BY <2>1
<1>5. ~s.percent => ToCome(call, f, rest, n, s) = rest[m][k] BY DEF ToCome
<1>6. ~t.percent => ToCome(call, f, rest, n + 1, t) = rest[m - 1][t.next]
  BY <1>0 DEF ToCome
<1>7. t.percent /\ n + 1 # N => ToCome(call, f, rest, n + 1, t) =
         ConvertAs(call, f[n + 2], Arguments[t.next])
         \o rest[m - 2][IF Takes(f[n + 2]) THEN t.next + 1 ELSE t.next]
  <2>. DEFINE e == n + 1
  <2>1. e + 1 = n + 2 /\ N - e - 1 = m - 2 BY <1>0
  <2>. HIDE DEF e
  <2>2. t.percent /\ e # N => ToCome(call, f, rest, e, t) =
         ConvertAs(call, f[n + 2], Arguments[t.next])
         \o rest[m - 2][IF Takes(f[n + 2]) THEN t.next + 1 ELSE t.next]
    BY <2>1, Zenon DEF ToCome
  <2>. QED BY <2>2 DEF e
<1>8. t.percent /\ n + 1 = N => ToCome(call, f, rest, n + 1, t) = <<>> BY DEF ToCome
<1>9. s.percent => ToCome(call, f, rest, n, s) =
         ConvertAs(call, c, Arguments[k]) \o rest[m - 1][IF Takes(c) THEN k + 1 ELSE k]
  <2>1. N - n - 1 = m - 1 /\ n # N BY <1>0
  <2>. HIDE DEF m
  <2>. QED BY <2>1, Zenon DEF ToCome
<1>10. CASE ~s.percent /\ c # Percent
  <2>1. t = [s EXCEPT !.out = Append(s.out, c)] BY <1>10 DEF Step
  <2>2. t.out = Append(s.out, c) /\ ~t.percent /\ t.next = k
    BY <2>1, <1>10 DEF PrintStates
  <2>. DEFINE u == rest[m - 1][k]
              e == <<c>>
  <2>3. e \in Seq(Int) BY <1>1
  <2>4. u \in Seq(Int) BY <1>3, <1>6, <2>2
  <2>5. Append(s.out, c) = s.out \o e
    <3>. HIDE DEF c
    <3>. QED BY <1>1, AppendIsConcat
  <2>6. t.out \o ToCome(call, f, rest, n + 1, t) = (s.out \o e) \o u
    BY <1>6, <2>2, <2>5
  <2>7. s.out \o ToCome(call, f, rest, n, s) = s.out \o (e \o u)
    BY <1>4, <1>5, <1>10
  <2>. HIDE DEF u, e
  <2>8. (s.out \o e) \o u = s.out \o (e \o u)
    <3>. DEFINE p == s.out
    <3>1. p \in Seq(Int) BY <1>1
    <3>. HIDE DEF p
    <3>2. (p \o e) \o u = p \o (e \o u) BY <3>1, <2>3, <2>4, Regrouping, Zenon DEF Regroups
    <3>. QED BY <3>2 DEF p
  <2>. QED BY <2>6, <2>7, <2>8
<1>11. CASE ~s.percent /\ c = Percent
  <2>1. t = [s EXCEPT !.percent = TRUE] BY <1>11 DEF Step
  <2>2. t.out = s.out /\ t.percent /\ t.next = k BY <2>1 DEF PrintStates
  <2>3. ToCome(call, f, rest, n + 1, t) = ToCome(call, f, rest, n, s)
    <3>. HIDE DEF m, N, c, k
    <3>. QED BY <2>2, <1>4, <1>5, <1>7, <1>8, <1>11, Zenon
  <2>. QED BY <2>2, <2>3
<1>12. CASE s.percent
  <2>. DEFINE v == ConvertAs(call, c, Arguments[k])
              j == IF Takes(c) THEN k + 1 ELSE k
              u == rest[m - 1][j]
  <2>1. t = [out |-> s.out \o v, percent |-> FALSE, next |-> j] BY <1>12 DEF Step
  <2>2. t.out = s.out \o v /\ ~t.percent /\ t.next = j
    <3>. HIDE DEF v, j
    <3>. QED BY <2>1
  <2>3. ToCome(call, f, rest, n + 1, t) = u BY <1>6, <2>2
  <2>4. ToCome(call, f, rest, n, s) = v \o u BY <1>9, <1>12
  <2>5. v \in Seq(Int) BY <1>1, ConversionText
  <2>6. u \in Seq(Int) BY <1>3, <2>3
  <2>. HIDE DEF u, v
  <2>7. (s.out \o v) \o u = s.out \o (v \o u)
    <3>. DEFINE p == s.out
    <3>1. p \in Seq(Int) BY <1>1
    <3>. HIDE DEF p
    <3>2. (p \o v) \o u = p \o (v \o u) BY <3>1, <2>5, <2>6, Regrouping, Zenon DEF Regroups
    <3>. QED BY <3>2 DEF p
  <2>. QED BY <2>2, <2>3, <2>4, <2>7
<1>. QED BY <1>1, <1>10, <1>11, <1>12

(* What is printed of a format is what it stands for.                      *)
LEMMA FormattedExact ==
  ASSUME NEW call \in {"log", "printf"}, NEW f \in Seq(Int)
  PROVE  Formatted(call, f, Arguments) = Expansion(call, f, Arguments)
<1>. DEFINE N == Len(f)
<1>0. N \in Nat OBVIOUS
<1>1. PICK a \in [0 .. N -> PrintStates] :
         /\ Formatted(call, f, Arguments) = a[N].out /\ a[0] = PrintStart
         /\ \A n \in 1 .. N : a[n] = Step(call, a[n - 1], f[n], Arguments)
  BY FormattedIs DEF HasStates
<1>2. PICK rest \in [0 .. N -> [Nat -> Seq(Int)]] :
         /\ Expansion(call, f, Arguments) = rest[N][1]
         /\ \A n \in 0 .. N : \A k \in Nat : rest[n][k] = RestIs(call, f, rest, n, k)
  BY ExpansionIs DEF HasRest
<1>. DEFINE Whole(n) == a[n].out \o ToCome(call, f, rest, n, a[n])
            S == {n \in Nat : n <= N => Whole(n) = rest[N][1]}
<1>3. 0 \in S
  <2>1. a[0].out = <<>> /\ ~a[0].percent /\ a[0].next = 1 BY <1>1 DEF PrintStart
  <2>2. ToCome(call, f, rest, 0, a[0]) = rest[N][1] BY <2>1, <1>0 DEF ToCome
  <2>3. rest[N][1] \in Seq(Int)
    <3>1. N \in 0 .. N BY <1>0
    <3>. HIDE DEF N
    <3>. QED BY <3>1
  <2>4. <<>> \o rest[N][1] = rest[N][1] BY <2>3, ConcatEmptySeq
  <2>5. Whole(0) = rest[N][1] BY <2>1, <2>2, <2>4
  <2>. QED BY <2>5
<1>4. ASSUME NEW n \in Nat, n \in S PROVE n + 1 \in S
  <2>1. CASE n + 1 <= N
    <3>1. n \in 0 .. N /\ n < N /\ n + 1 \in 1 .. N /\ n + 1 - 1 = n BY <2>1, <1>0
    <3>2. a[n] \in PrintStates /\ a[n + 1] = Step(call, a[n], f[n + 1], Arguments)
      BY <3>1, <1>1
    <3>. HIDE DEF Whole
    <3>4. Whole(n) = rest[N][1] BY <3>1, <1>4
    <3>3. Whole(n + 1) = Whole(n)
      <4>. DEFINE t == a[n + 1]
      <4>. HIDE DEF t
      <4>1. t = Step(call, a[n], f[n + 1], Arguments) BY <3>2 DEF t
      <4>2. t.out \o ToCome(call, f, rest, n + 1, t) = a[n].out \o ToCome(call, f, rest, n, a[n])
        BY <3>1, <3>2, <4>1, <1>2, StepKeepsText
      <4>. QED BY <4>2 DEF t, Whole
    <3>5. Whole(n + 1) = rest[N][1] BY <3>3, <3>4
    <3>. QED BY <3>5
  <2>2. CASE ~(n + 1 <= N)
    <3>. HIDE DEF Whole, N
    <3>. QED BY <2>2
  <2>. QED BY <2>1, <2>2
<1>5. \A n \in Nat : n \in S
  <2>. HIDE DEF S
  <2>. QED BY <1>3, <1>4, Induction
<1>6. Whole(N) = rest[N][1]
  <2>1. N <= N BY <1>0
  <2>. HIDE DEF Whole, N
  <2>. QED BY <1>0, <1>5, <2>1
<1>7. ToCome(call, f, rest, N, a[N]) = <<>>
  <2>1. a[N] \in PrintStates BY <1>0, <1>1
  <2>2. a[N].next \in Nat /\ a[N].percent \in BOOLEAN BY <2>1 DEF PrintStates
  <2>3. N - N = 0 /\ 0 \in 0 .. N BY <1>0
  <2>4. rest[0][a[N].next] = <<>> BY <2>2, <2>3, <1>2 DEF RestIs
  <2>. QED BY <2>2, <2>3, <2>4 DEF ToCome
<1>8. a[N].out \in Seq(Int)
  <2>1. a[N] \in PrintStates BY <1>0, <1>1
  <2>. QED BY <2>1 DEF PrintStates
<1>9. a[N].out \o <<>> = a[N].out BY <1>8, ConcatEmptySeq
<1>. QED BY <1>1, <1>2, <1>6, <1>7, <1>9

(* A message of the logger, and one of printf.                             *)
LEMMA LogExact ==
  ASSUME NEW severity, NEW level, NEW f \in Seq(Int), NEW p,
         p = IF severity > level THEN <<>>
             ELSE (IF severity = 1 THEN <<ErrorText>> ELSE <<>>)
                  \o LogPrint(f, Arguments) \o <<LineFeed>>
  PROVE  CallExact(CallOf("log", severity, level, 0, f), p)
<1>. DEFINE c == CallOf("log", severity, level, 0, f)
<1>1. c.call = "log" /\ c.value = severity /\ c.base = level /\ c.format = f BY DEF CallOf
<1>. HIDE DEF c
<1>2. LogPrint(f, Arguments) = Expansion("log", f, Arguments)
  BY FormattedExact DEF LogPrint
<1>3. MessageExact(c, p) BY <1>1, <1>2, Zenon DEF MessageExact
<1>4. c.call \notin {"long", "unsigned", "println", "string", "float", "printf"} BY <1>1
<1>. QED BY <1>3, <1>4 DEF CallExact, NumberExact, PrintlnExact, RoomExact, FloatExact,
                          PrintfExact, c

LEMMA FormatExact ==
  ASSUME NEW f \in Seq(Int), NEW p, p = Printf(f, Arguments)
  PROVE  CallExact(CallOf("format", 0, 10, 0, f), p)
<1>. DEFINE c == CallOf("format", 0, 10, 0, f)
<1>1. c.call = "format" /\ c.format = f BY DEF CallOf
<1>. HIDE DEF c
<1>2. p = Expansion("printf", f, Arguments) BY FormattedExact DEF Printf
<1>3. MessageExact(c, p) BY <1>1, <1>2, Zenon DEF MessageExact
<1>4. c.call \notin {"long", "unsigned", "println", "string", "float", "printf"} BY <1>1
<1>. QED BY <1>3, <1>4 DEF CallExact, NumberExact, PrintlnExact, RoomExact, FloatExact,
                          PrintfExact, c

(* Nothing is said of an assertion, or before a call.                      *)
LEMMA SilentExact ==
  ASSUME NEW call \in {"none", "assert"}, NEW f, NEW p
  PROVE  CallExact(CallOf(call, 0, 10, 0, f), p)
<1>. DEFINE c == CallOf(call, 0, 10, 0, f)
<1>1. c.call = call BY DEF CallOf
<1>. HIDE DEF c
<1>2. c.call \notin {"long", "unsigned", "println", "string", "float", "printf", "log", "format"}
  BY <1>1
<1>. QED BY <1>2 DEF CallExact, NumberExact, PrintlnExact, RoomExact, FloatExact,
                          PrintfExact, MessageExact, c

-----------------------------------------------------------------------------
(* Doubles.                                                                *)

\* thousandths, of the digits before and behind a point
Weighs(before, behind) == Reads(before, 10) * 1000 + Reads(behind, 10) * 10 ^ (3 - Len(behind))

\* the amount that a text without a sign stands for
AmountAt(u, points) ==
    LET at     == CHOOSE i \in points : TRUE
        before == IF points = {} THEN u ELSE SubSeq(u, 1, at - 1)
        behind == IF points = {} THEN <<>> ELSE SubSeq(u, at + 1, Len(u))
    IN  Weighs(before, behind)
Amount(u) == AmountAt(u, {i \in 1 .. Len(u) : u[i] = PointSign})

LEMMA ReadsInt == ASSUME NEW s \in Seq(Int) PROVE Reads(s, 10) \in Int
<1>1. \A b \in Int : Reads(s, b) \in Int
  <2>1. ASSUME NEW b \in Int PROVE Reads(s, b) \in Int BY ReadsAppend
  <2>. QED BY <2>1
<1>. QED BY <1>1

Negated(neg, n) == IF neg THEN -n ELSE n

LEMMA WithoutPoint ==
  ASSUME NEW w \in Seq(Nat)
  PROVE  Amount(w) = Reads(w, 10) * 1000 /\ Reads(w, 10) \in Int
<1>1. {i \in 1 .. Len(w) : w[i] = PointSign} = {} BY DEF PointSign
<1>2. w \in Seq(Int)
  <2>1. Nat \subseteq Int OBVIOUS
  <2>. QED BY <2>1, SeqMonotonic
<1>3. Reads(w, 10) \in Int BY <1>2, ReadsInt
<1>4. Reads(<<>>, 10) = 0 BY ReadsEmpty
<1>5. Len(<<>>) = 0 /\ 3 - 0 = 3 /\ 10 ^ 3 = 1000 OBVIOUS
<1>6. Amount(w) = Weighs(w, <<>>)
  <2>1. Amount(w) = AmountAt(w, {}) BY <1>1, Zenon DEF Amount
  <2>. QED BY <2>1, Zenon DEF AmountAt
<1>. QED BY <1>3, <1>4, <1>5, <1>6 DEF Weighs

LEMMA FirstPart ==
  ASSUME NEW s \in Seq(Int), NEW n \in Nat, n <= Len(s)
  PROVE  /\ SubSeq(s, 1, n) \in Seq(Int) /\ Len(SubSeq(s, 1, n)) = n
         /\ \A i \in 1 .. n : SubSeq(s, 1, n)[i] = s[i]
OBVIOUS

LEMMA LastPart ==
  ASSUME NEW s \in Seq(Int), NEW m \in Nat, NEW n \in Nat, Len(s) = m + n
  PROVE  /\ SubSeq(s, m + 1, Len(s)) \in Seq(Int) /\ Len(SubSeq(s, m + 1, Len(s))) = n
         /\ \A i \in 1 .. n : SubSeq(s, m + 1, Len(s))[i] = s[m + i]
OBVIOUS

LEMMA WithPoint ==
  ASSUME NEW w \in Seq(Nat), NEW g \in Seq(Nat), NEW u, u = w \o (<<PointSign>> \o g)
  PROVE  /\ u \in Seq(Int) /\ Amount(u) = Weighs(w, g)
         /\ Reads(w, 10) \in Int /\ Reads(g, 10) \in Int
         /\ Len(w) >= 1 => u # <<>> /\ u[1] # MinusSign
<1>. DEFINE v  == <<PointSign>> \o g
            N  == Len(w)
            M  == Len(g)
<1>1. w \in Seq(Int) /\ g \in Seq(Int)
  <2>1. Nat \subseteq Int OBVIOUS
  <2>. QED BY <2>1, SeqMonotonic
<1>2. PointSign \in Int BY DEF PointSign
<1>3. v \in Seq(Int) /\ Len(v) = M + 1 /\ v[1] = PointSign /\ \A i \in 1 .. M : v[i + 1] = g[i]
  <2>. HIDE DEF v
  <2>1. v = <<PointSign>> \o g BY DEF v
  <2>. QED BY <1>1, <1>2, <2>1, Prefixed
<1>4. N \in Nat /\ M \in Nat OBVIOUS
<1>5. /\ u \in Seq(Int) /\ Len(u) = N + M + 1
      /\ \A i \in 1 .. N : u[i] = w[i]
      /\ \A i \in 1 .. M + 1 : u[N + i] = v[i]
  <2>. HIDE DEF v
  <2>1. /\ w \o v \in Seq(Int) /\ Len(w \o v) = N + Len(v)
        /\ \A i \in 1 .. N + Len(v) : (w \o v)[i] = IF i <= N THEN w[i] ELSE v[i - N]
    BY <1>1, <1>3, ConcatProperties
  <2>2. u = w \o v BY DEF v
  <2>. HIDE DEF N, M
  <2>3. \A i \in 1 .. N : i \in 1 .. N + Len(v) /\ i <= N BY <1>3, <1>4
  <2>4. \A i \in 1 .. M + 1 : N + i \in 1 .. N + Len(v) /\ ~(N + i <= N) /\ N + i - N = i
    BY <1>3, <1>4
  <2>5. N + Len(v) = N + M + 1 BY <1>3, <1>4
  <2>6. u \in Seq(Int) /\ Len(u) = N + M + 1 BY <2>1, <2>2, <2>5
  <2>7. \A i \in 1 .. N : u[i] = w[i] BY <2>1, <2>2, <2>3
  <2>8. ASSUME NEW i \in 1 .. M + 1 PROVE u[N + i] = v[i]
    <3>. DEFINE k == N + i
    <3>2. k \in 1 .. N + Len(v) /\ ~(k <= N) /\ k - N = i BY <1>3, <1>4
    <3>. HIDE DEF k
    <3>3. (w \o v)[k] = v[k - N] BY <2>1, <3>2
    <3>1. (w \o v)[N + i] = v[i] BY <3>2, <3>3 DEF k
    <3>. QED BY <3>1, <2>2
  <2>. QED BY <2>6, <2>7, <2>8
<1>6. \A i \in 1 .. N : w[i] \in Nat OBVIOUS
<1>7. \A i \in 1 .. M : g[i] \in Nat OBVIOUS
<1>. HIDE DEF N, M, v
<1>8. u[N + 1] = PointSign
  <2>1. 1 \in 1 .. M + 1 BY <1>4
  <2>. QED BY <2>1, <1>3, <1>5
<1>9. \A i \in 1 .. Len(u) : u[i] = PointSign => i = N + 1
  <2>1. ASSUME NEW i \in 1 .. Len(u), i # N + 1 PROVE u[i] # PointSign
    <3>1. i \in Int BY <1>4, <1>5
    <3>2. CASE i <= N
      <4>1. i \in 1 .. N BY <3>2, <1>4
      <4>2. u[i] \in Nat BY <4>1, <1>5, <1>6
      <4>. QED BY <4>2 DEF PointSign
    <3>3. CASE ~(i <= N)
      <4>. DEFINE j == i - N - 1
      <4>1. j \in 1 .. M /\ j + 1 \in 1 .. M + 1 /\ N + (j + 1) = i BY <3>1, <3>3, <2>1, <1>4, <1>5
      <4>. HIDE DEF j
      <4>2. u[i] = g[j] BY <4>1, <1>3, <1>5
      <4>3. u[i] \in Nat BY <4>1, <4>2, <1>7
      <4>. QED BY <4>3 DEF PointSign
    <3>. QED BY <3>2, <3>3
  <2>. QED BY <2>1
<1>10. {i \in 1 .. Len(u) : u[i] = PointSign} = {N + 1}
  <2>1. N + 1 \in 1 .. Len(u) BY <1>4, <1>5
  <2>. QED BY <2>1, <1>8, <1>9
<1>11. SubSeq(u, 1, N) = w
  <2>. DEFINE t == SubSeq(u, 1, N)
  <2>0. N <= Len(u) BY <1>4, <1>5
  <2>1. t \in Seq(Int) /\ Len(t) = N /\ \A i \in 1 .. N : t[i] = u[i]
    BY <1>4, <1>5, <2>0, FirstPart
  <2>. HIDE DEF t
  <2>2. t = w BY <2>1, <1>1, <1>5, SeqEqual DEF N
  <2>. QED BY <2>2 DEF t
<1>12. SubSeq(u, N + 1 + 1, Len(u)) = g
  <2>. DEFINE t == SubSeq(u, N + 1 + 1, Len(u))
  <2>0. N + 1 \in Nat /\ Len(u) = (N + 1) + M BY <1>4, <1>5
  <2>1. t \in Seq(Int) /\ Len(t) = M /\ \A i \in 1 .. M : t[i] = u[N + 1 + i]
    BY <1>4, <1>5, <2>0, LastPart
  <2>. HIDE DEF t
  <2>2. \A i \in 1 .. M : N + 1 + i = N + (i + 1) /\ i + 1 \in 1 .. M + 1 BY <1>4
  <2>3. ASSUME NEW i \in 1 .. M PROVE t[i] = g[i]
    <3>1. t[i] = u[N + (i + 1)] BY <2>1, <2>2
    <3>2. u[N + (i + 1)] = v[i + 1] BY <2>2, <1>5
    <3>. QED BY <3>1, <3>2, <1>3
  <2>4. t = g BY <2>1, <2>3, <1>1, SeqEqual DEF M
  <2>. QED BY <2>4 DEF t
<1>13. N + 1 - 1 = N BY <1>4
<1>15. Amount(u) = Weighs(w, g)
  <2>. DEFINE at == N + 1
  <2>1. {at} # {} /\ (CHOOSE i \in {at} : TRUE) = at OBVIOUS
  <2>2. SubSeq(u, 1, at - 1) = w /\ SubSeq(u, at + 1, Len(u)) = g
    <3>1. at - 1 = N BY <1>4
    <3>2. SubSeq(u, at + 1, Len(u)) = g BY <1>12
    <3>. HIDE DEF at
    <3>. QED BY <3>1, <3>2, <1>11
  <2>3. Amount(u) = AmountAt(u, {at}) BY <1>10, Zenon DEF Amount
  <2>. HIDE DEF at
  <2>4. AmountAt(u, {at}) = Weighs(w, g) BY <2>1, <2>2, Zenon DEF AmountAt
  <2>. QED BY <2>3, <2>4
<1>16. Reads(w, 10) \in Int /\ Reads(g, 10) \in Int BY <1>1, ReadsInt
<1>17. ASSUME N >= 1 PROVE u # <<>> /\ u[1] # MinusSign
  <2>1. 1 \in 1 .. N BY <1>4, <1>17
  <2>2. u[1] \in Nat BY <2>1, <1>5, <1>6
  <2>3. Len(u) # 0 BY <1>4, <1>5
  <2>. QED BY <2>2, <2>3 DEF MinusSign
<1>. QED BY <1>5, <1>15, <1>16, <1>17 DEF N

LEMMA SignedAmount ==
  ASSUME NEW u \in Seq(Int), u # <<>>, u[1] # MinusSign, NEW neg \in BOOLEAN,
         NEW s, s = (IF neg THEN <<MinusSign>> ELSE <<>>) \o u
  PROVE  Decimal(s) = Negated(neg, Amount(u))
<1>1. Decimal(s) = Signed(s, Amount(Unsigned(s))) BY Zenon DEF Decimal, Amount, AmountAt, Weighs
<1>2. CASE neg
  <2>1. s = <<MinusSign>> \o u /\ MinusSign \in Int BY <1>2 DEF MinusSign
  <2>2. s # <<>> /\ s[1] = MinusSign /\ Tail(s) = u BY <2>1, Prefixed
  <2>3. Unsigned(s) = u BY <2>2 DEF Unsigned
  <2>4. Signed(s, Amount(u)) = -Amount(u) BY <2>2, Zenon DEF Signed
  <2>. QED BY <1>1, <1>2, <2>3, <2>4 DEF Negated
<1>3. CASE ~neg
  <2>1. s = u BY <1>3, ConcatEmptySeq
  <2>2. Unsigned(s) = u BY <2>1 DEF Unsigned
  <2>3. Signed(s, Amount(u)) = Amount(u) BY <2>1, Zenon DEF Signed
  <2>. QED BY <1>1, <1>3, <2>2, <2>3 DEF Negated
<1>. QED BY <1>2, <1>3

HasReading(g, b) ==
  \E h \in [0 .. Len(g) -> Int] :
      /\ Reads(g, b) = h[Len(g)] /\ h[0] = 0
      /\ \A n \in 1 .. Len(g) : h[n] = h[n - 1] * b + g[n]

OfThree(g) ==
    /\ Len(g) = 0 => Reads(g, 10) = 0
    /\ Len(g) = 1 => Reads(g, 10) = g[1]
    /\ Len(g) = 2 => Reads(g, 10) = g[1] * 10 + g[2]
    /\ Len(g) = 3 => Reads(g, 10) = (g[1] * 10 + g[2]) * 10 + g[3]

(* The number of three digits or fewer.                                    *)
LEMMA ReadsOfThree == ASSUME NEW g \in Seq(Int) PROVE OfThree(g)
<1>1. HasReading(g, 10)
  <2>1. \A b \in Int : HasReading(g, b)
    <3>1. ASSUME NEW b \in Int PROVE HasReading(g, b) BY ReadsIs DEF HasReading
    <3>. QED BY <3>1
  <2>. QED BY <2>1
<1>2. PICK h \in [0 .. Len(g) -> Int] :
         /\ Reads(g, 10) = h[Len(g)] /\ h[0] = 0
         /\ \A n \in 1 .. Len(g) : h[n] = h[n - 1] * 10 + g[n]
  BY <1>1 DEF HasReading
<1>3. \A i \in 1 .. Len(g) : g[i] \in Int OBVIOUS
<1>4. ASSUME Len(g) >= 1 PROVE h[1] = g[1] /\ g[1] \in Int
  <2>1. 1 \in 1 .. Len(g) /\ 1 - 1 = 0 BY <1>4
  <2>. QED BY <2>1, <1>2, <1>3
<1>5. ASSUME Len(g) >= 2 PROVE h[2] = g[1] * 10 + g[2] /\ g[2] \in Int
  <2>1. 2 \in 1 .. Len(g) /\ 2 - 1 = 1 /\ Len(g) >= 1 BY <1>5
  <2>2. h[2] = h[2 - 1] * 10 + g[2] BY <2>1, <1>2
  <2>. QED BY <2>1, <2>2, <1>3, <1>4
<1>6. ASSUME Len(g) >= 3 PROVE h[3] = (g[1] * 10 + g[2]) * 10 + g[3]
  <2>1. 3 \in 1 .. Len(g) /\ 3 - 1 = 2 /\ Len(g) >= 2 BY <1>6
  <2>2. h[3] = h[3 - 1] * 10 + g[3] BY <2>1, <1>2
  <2>. QED BY <2>1, <2>2, <1>5
<1>7. ASSUME Len(g) = 0 PROVE Reads(g, 10) = 0 BY <1>2, <1>7
<1>8. ASSUME Len(g) = 1 PROVE Reads(g, 10) = g[1] BY <1>2, <1>4, <1>8
<1>9. ASSUME Len(g) = 2 PROVE Reads(g, 10) = g[1] * 10 + g[2] BY <1>2, <1>5, <1>9
<1>10. ASSUME Len(g) = 3 PROVE Reads(g, 10) = (g[1] * 10 + g[2]) * 10 + g[3]
  BY <1>2, <1>6, <1>10
<1>. QED BY <1>7, <1>8, <1>9, <1>10 DEF OfThree

\* the digits behind the point, of a remainder over 2000
DigitsBehind(q, i) == (((q * 10 ^ (i - 1)) % 2000) * 10) \div 2000

LEMMA BehindNat ==
  ASSUME NEW q \in Nat, NEW i \in 1 .. 3
  PROVE  DigitsBehind(q, i) \in Nat
<1>1. 1 - 1 = 0 /\ 2 - 1 = 1 /\ 3 - 1 = 2 /\ 10 ^ 0 = 1 /\ 10 ^ 1 = 10 /\ 10 ^ 2 = 100 OBVIOUS
<1>2. 10 ^ (i - 1) \in Nat
  <2>1. i \in {1, 2, 3} OBVIOUS
  <2>2. CASE i = 1 BY <2>2, <1>1
  <2>3. CASE i = 2 BY <2>3, <1>1
  <2>4. CASE i = 3 BY <2>4, <1>1
  <2>. QED BY <2>1, <2>2, <2>3, <2>4
<1>. DEFINE t == 10 ^ (i - 1)
<1>. HIDE DEF t
<1>3. (((q * t) % 2000) * 10) \div 2000 \in Nat
  <2>1. q * t \in Int BY <1>2 DEF t
  <2>2. \A n \in Int : (((n) % 2000) * 10) \div 2000 \in Nat OBVIOUS
  <2>. QED BY <2>1, <2>2
<1>. QED BY <1>3 DEF DigitsBehind, t

AreBehind(q, d, g) == g \in Seq(Int) /\ Len(g) = d /\ \A i \in 1 .. d : g[i] = DigitsBehind(q, i)

BehindIs(q, d, g) ==
    /\ g \in Seq(Nat) /\ Len(g) = d /\ Reads(g, 10) \in Int
    /\ d = 0 => Reads(g, 10) = 0
    /\ d = 1 => Reads(g, 10) = (q * 10) \div 2000
    /\ d = 2 => Reads(g, 10) = (q * 100) \div 2000
    /\ d = 3 => Reads(g, 10) = (q * 1000) \div 2000

(* They are those of the fraction, cut off.                                *)
LEMMA BehindPoint ==
  ASSUME NEW q \in Nat, q < 2000, NEW d \in 0 .. 3, NEW g, AreBehind(q, d, g)
  PROVE  BehindIs(q, d, g)
<1>0. 1 - 1 = 0 /\ 2 - 1 = 1 /\ 3 - 1 = 2 /\ 10 ^ 0 = 1 /\ 10 ^ 1 = 10 /\ 10 ^ 2 = 100 OBVIOUS
<1>. DEFINE a == (q * 10) \div 2000
            b == (((q * 10) % 2000) * 10) \div 2000
            c == (((q * 100) % 2000) * 10) \div 2000
<1>1. a \in Nat /\ b \in Nat /\ c \in Nat OBVIOUS
<1>2. DigitsBehind(q, 1) = a
  <2>1. DigitsBehind(q, 1) = (((q * 1) % 2000) * 10) \div 2000 BY <1>0 DEF DigitsBehind
  <2>2. (q * 1) % 2000 = q OBVIOUS
  <2>. QED BY <2>1, <2>2
<1>3. DigitsBehind(q, 2) = b BY <1>0 DEF DigitsBehind
<1>4. DigitsBehind(q, 3) = c BY <1>0 DEF DigitsBehind
<1>5. a * 10 + b = (q * 100) \div 2000 OBVIOUS
<1>6. (a * 10 + b) * 10 + c = (q * 1000) \div 2000
  <2>1. \A r \in Int : (r \div 2000) * 10 + (((r % 2000) * 10) \div 2000) = (r * 10) \div 2000
    OBVIOUS
  <2>2. q * 100 \in Int /\ (q * 100) * 10 = q * 1000 OBVIOUS
  <2>3. ((q * 100) \div 2000) * 10 + c = ((q * 100) * 10) \div 2000 BY <2>1, <2>2
  <2>. QED BY <2>2, <2>3, <1>5
<1>. HIDE DEF a, b, c
<1>9. g \in Seq(Int) /\ Len(g) = d /\ \A i \in 1 .. d : g[i] = DigitsBehind(q, i) BY DEF AreBehind
<1>7. \A i \in 1 .. d : DigitsBehind(q, i) \in Nat
  <2>1. \A i \in 1 .. d : i \in {1, 2, 3} OBVIOUS
  <2>. QED BY <2>1, <1>1, <1>2, <1>3, <1>4
<1>8. g \in Seq(Nat) /\ Len(g) = d /\ \A i \in 1 .. d : g[i] = DigitsBehind(q, i)
  <2>1. \A i \in 1 .. Len(g) : g[i] \in Nat BY <1>7, <1>9
  <2>. QED BY <2>1, <1>9
<1>10. Reads(g, 10) \in Int BY <1>9, ReadsInt
<1>15. OfThree(g)
  <2>1. \A s \in Seq(Int) : OfThree(s) BY ReadsOfThree
  <2>. QED BY <2>1, <1>9
<1>11. CASE d = 0 BY <1>11, <1>8, <1>10, <1>15 DEF OfThree, BehindIs
<1>12. CASE d = 1
  <2>1. g[1] = a BY <1>12, <1>2, <1>8
  <2>2. Reads(g, 10) = a BY <1>12, <2>1, <1>8, <1>15 DEF OfThree
  <2>. QED BY <1>12, <2>2, <1>8, <1>10 DEF a, BehindIs
<1>13. CASE d = 2
  <2>1. g[1] = a /\ g[2] = b BY <1>13, <1>2, <1>3, <1>8
  <2>2. Reads(g, 10) = a * 10 + b BY <1>13, <2>1, <1>8, <1>15 DEF OfThree
  <2>. QED BY <1>13, <2>2, <1>5, <1>8, <1>10 DEF BehindIs
<1>14. CASE d = 3
  <2>1. g[1] = a /\ g[2] = b /\ g[3] = c BY <1>14, <1>2, <1>3, <1>4, <1>8
  <2>2. Reads(g, 10) = (a * 10 + b) * 10 + c BY <1>14, <2>1, <1>8, <1>15 DEF OfThree
  <2>. QED BY <1>14, <2>2, <1>6, <1>8, <1>10 DEF BehindIs
<1>. QED BY <1>11, <1>12, <1>13, <1>14

(* What is half of a last digit added, and what is then cut off.           *)
LEMMA Nearest ==
  ASSUME NEW x \in Int, NEW X \in Nat, X = IF x < 0 THEN -x ELSE x,
         NEW m \in Nat, NEW r \in Nat, r = X * 2 + m,
         NEW v \in Int, 2 * v <= r, r < 2 * v + 2 * m,
         NEW neg \in BOOLEAN, neg <=> x < 0
  PROVE  2 * Distance(Negated(neg, v), x) <= m
<1>1. CASE x < 0
  <2>1. Negated(neg, v) = -v /\ x = -X BY <1>1 DEF Negated
  <2>. HIDE DEF Negated
  <2>. QED BY <2>1 DEF Distance
<1>2. CASE ~(x < 0)
  <2>1. Negated(neg, v) = v /\ x = X BY <1>2 DEF Negated
  <2>. QED BY <2>1 DEF Distance
<1>. QED BY <1>1, <1>2

(* A quotient lies within one divisor under what was divided.              *)
LEMMA Quotients ==
  ASSUME NEW q \in Nat
  PROVE  LET A == (q * 10) \div 2000  B == (q * 100) \div 2000  C == (q * 1000) \div 2000
         IN  /\ A \in Int /\ 200 * A <= q /\ q < 200 * A + 200
             /\ B \in Int /\ 20 * B <= q /\ q < 20 * B + 20
             /\ C \in Int /\ 2 * C <= q /\ q < 2 * C + 2
<1>1. ((q * 10) \div 2000) \in Int /\ 200 * ((q * 10) \div 2000) <= q
      /\ q < 200 * ((q * 10) \div 2000) + 200
  OBVIOUS
<1>2. ((q * 100) \div 2000) \in Int /\ 20 * ((q * 100) \div 2000) <= q
      /\ q < 20 * ((q * 100) \div 2000) + 20
  OBVIOUS
<1>3. ((q * 1000) \div 2000) \in Int /\ 2 * ((q * 1000) \div 2000) <= q
      /\ q < 2 * ((q * 1000) \div 2000) + 2
  OBVIOUS
<1>. QED BY <1>1, <1>2, <1>3

LEMMA TenDigits ==
  ASSUME NEW n \in Nat
  PROVE  /\ DigitsOf(n, 10) \in Seq(Nat) /\ Len(DigitsOf(n, 10)) >= 1
         /\ Reads(DigitsOf(n, 10), 10) = n /\ DigitsOf(n, 10)[1] # MinusSign
<1>. DEFINE w == DigitsOf(n, 10)
<1>1. \A b \in Nat : b >= 2 => DigitsGood(DigitsOf(n, b), n, b) /\ DigitsOf(n, b) \in Seq(Nat)
  <2>1. ASSUME NEW b \in Nat, b >= 2 PROVE DigitsGood(DigitsOf(n, b), n, b)
    BY <2>1, DigitsFacts
  <2>2. ASSUME NEW b \in Nat, b >= 2 PROVE DigitsOf(n, b) \in Seq(Nat)
    <3>1. \A m \in Nat : DigitsOf(m, b) \in Seq(Nat) BY <2>2, DigitsAre
    <3>. QED BY <3>1
  <2>. QED BY <2>1, <2>2
<1>2. DigitsGood(w, n, 10) /\ w \in Seq(Nat) BY <1>1
<1>. HIDE DEF w
<1>3. w[1] \in Nat BY <1>2 DEF DigitsGood
<1>. QED BY <1>2, <1>3 DEF DigitsGood, MinusSign, w

LEMMA PowerAt ==
  ASSUME NEW d \in 0 .. 3
  PROVE  \/ d = 0 /\ 10 ^ (3 - d) = 1000
         \/ d = 1 /\ 10 ^ (3 - d) = 100
         \/ d = 2 /\ 10 ^ (3 - d) = 10
         \/ d = 3 /\ 10 ^ (3 - d) = 1
<1>1. 10 ^ 0 = 1 /\ 10 ^ 1 = 10 /\ 10 ^ 2 = 100 /\ 10 ^ 3 = 1000 OBVIOUS
<1>2. 3 - 0 = 3 /\ 3 - 1 = 2 /\ 3 - 2 = 1 /\ 3 - 3 = 0 OBVIOUS
<1>3. CASE d = 0 BY <1>1, <1>2, <1>3
<1>4. CASE d = 1 BY <1>1, <1>2, <1>4
<1>5. CASE d = 2 BY <1>1, <1>2, <1>5
<1>6. CASE d = 3 BY <1>1, <1>2, <1>6
<1>7. d \in {0, 1, 2, 3} OBVIOUS
<1>. QED BY <1>3, <1>4, <1>5, <1>6, <1>7

SignOf(neg)       == IF neg THEN <<MinusSign>> ELSE <<>>
Joined(neg, w, g) == SignOf(neg) \o w \o <<PointSign>> \o g

(* A sign, digits, a point and digits.                                     *)
LEMMA DecimalOfParts ==
  ASSUME NEW neg \in BOOLEAN, NEW w \in Seq(Nat), Len(w) >= 1, NEW g \in Seq(Nat)
  PROVE  Decimal(Joined(neg, w, g)) = Negated(neg, Weighs(w, g))
<1>. DEFINE sign == SignOf(neg)
            u    == w \o (<<PointSign>> \o g)
            e    == <<PointSign>>
            z    == sign \o w
            p    == Joined(neg, w, g)
<1>1. w \in Seq(Int) /\ g \in Seq(Int) /\ sign \in Seq(Int) /\ e \in Seq(Int)
  <2>1. Nat \subseteq Int OBVIOUS
  <2>2. w \in Seq(Int) /\ g \in Seq(Int) BY <2>1, SeqMonotonic
  <2>. QED BY <2>2 DEF MinusSign, PointSign, SignOf
<1>2. p = sign \o u
  <2>. HIDE DEF sign, e
  <2>1. e \o g \in Seq(Int) /\ z \in Seq(Int) BY <1>1, ConcatProperties
  <2>2. z \o (e \o g) = sign \o (w \o (e \o g))
    BY <1>1, <2>1, Regrouping, Zenon DEF Regroups
  <2>5. z \in Seq(Int) BY <2>1
  <2>. HIDE DEF z
  <2>3. (z \o e) \o g = z \o (e \o g) BY <1>1, <2>5, Regrouping, Zenon DEF Regroups
  <2>4. p = (z \o e) \o g BY DEF z, e, sign, Joined
  <2>. QED BY <2>2, <2>3, <2>4 DEF e
<1>. HIDE DEF u
<1>3. u \in Seq(Int) /\ Amount(u) = Weighs(w, g) /\ u # <<>> /\ u[1] # MinusSign
  <2>1. u = w \o (<<PointSign>> \o g) BY DEF u
  <2>. QED BY <2>1, WithPoint
<1>4. Decimal(p) = Negated(neg, Amount(u)) BY <1>2, <1>3, SignedAmount DEF SignOf
<1>. QED BY <1>3, <1>4

(* print of a double.                                                      *)
LEMMA FloatText ==
  ASSUME NEW x \in Int, NEW d \in 0 .. 3, ~(x > FloatLimit \/ x < -FloatLimit)
  PROVE  2 * Distance(Decimal(PrintFloat(x, d)), x) <= 10 ^ (3 - d)
<1>. DEFINE m     == 10 ^ (3 - d)
            X     == IF x < 0 THEN -x ELSE x
            r     == X * 2 + m
            q     == r % 2000
            whole == r \div 2000
            neg   == x < 0
            sign  == SignOf(neg)
            w     == DigitsOf(whole, 10)
            g     == [i \in 1 .. d |-> DigitsBehind(q, i)]
            p     == PrintFloat(x, d)
<1>1. X \in Nat /\ neg \in BOOLEAN /\ X <= FloatLimit
  BY TextAssumption
<1>2. \/ d = 0 /\ m = 1000
      \/ d = 1 /\ m = 100
      \/ d = 2 /\ m = 10
      \/ d = 3 /\ m = 1
  BY PowerAt
<1>. HIDE DEF m, X
<1>3. r \in Nat /\ m \in Nat /\ m <= 1000 BY <1>1, <1>2
<1>. HIDE DEF r
<1>4. q \in Nat /\ q < 2000 /\ whole \in Nat /\ r = 2000 * whole + q BY <1>3
<1>5. whole < LongRange
  <2>1. FloatLimit \in Nat /\ LongRange \in Nat /\ FloatLimit + 500 < LongRange * 1000
    BY TextAssumption
  <2>. HIDE DEF whole, q
  <2>2. 2000 * whole + q < 2 * (LongRange * 1000)
    BY <1>1, <1>2, <1>3, <1>4, <2>1 DEF r
  <2>. QED BY <1>4, <2>1, <2>2
<1>. HIDE DEF q, whole
<1>6. whole % LongRange = whole
  <2>1. whole \in 0 .. LongRange - 1 BY <1>4, <1>5, LongWidth
  <2>. QED BY <2>1, <1>4, WrappedFacts DEF Wrapped
<1>7. w \in Seq(Nat) /\ Len(w) >= 1 /\ Reads(w, 10) = whole /\ w[1] # MinusSign
  BY <1>4, TenDigits
<1>8. /\ g \in Seq(Nat) /\ Len(g) = d /\ Reads(g, 10) \in Int
      /\ d = 0 => Reads(g, 10) = 0
      /\ d = 1 => Reads(g, 10) = (q * 10) \div 2000
      /\ d = 2 => Reads(g, 10) = (q * 100) \div 2000
      /\ d = 3 => Reads(g, 10) = (q * 1000) \div 2000
  <2>1. \A i \in 1 .. d : DigitsBehind(q, i) \in Nat
    <3>1. \A i \in 1 .. d : i \in 1 .. 3 OBVIOUS
    <3>2. \A i \in 1 .. 3 : DigitsBehind(q, i) \in Nat BY <1>4, BehindNat
    <3>. QED BY <3>1, <3>2
  <2>3. g \in Seq(Int) /\ Len(g) = d /\ \A i \in 1 .. d : g[i] = DigitsBehind(q, i) BY <2>1
  <2>. HIDE DEF g
  <2>4. AreBehind(q, d, g) BY <2>3 DEF AreBehind
  <2>2. BehindIs(q, d, g) BY <1>4, <2>4, BehindPoint
  <2>. QED BY <2>2 DEF BehindIs
<1>9. p = ((sign \o w) \o (IF d > 0 THEN <<PointSign>> ELSE <<>>)) \o g
  <2>1. PrintNumber(whole % LongRange, 10) = w BY <1>6 DEF PrintNumber
  <2>. DEFINE y == ((sign \o PrintNumber(whole % LongRange, 10))
                    \o (IF d > 0 THEN <<PointSign>> ELSE <<>>)) \o g
  <2>2. p = y BY DEF SignOf, PrintFloat, DigitsBehind, m, X, r, q, whole
  <2>. HIDE DEF w, p, g, sign
  <2>3. y = ((sign \o w) \o (IF d > 0 THEN <<PointSign>> ELSE <<>>)) \o g BY <2>1
  <2>. QED BY <2>2, <2>3
<1>10. w \in Seq(Int) /\ g \in Seq(Int) /\ sign \in Seq(Int) /\ <<PointSign>> \in Seq(Int)
  <2>1. Nat \subseteq Int OBVIOUS
  <2>. HIDE DEF w, g
  <2>2. w \in Seq(Int) /\ g \in Seq(Int) BY <2>1, <1>7, <1>8, SeqMonotonic
  <2>. QED BY <2>2 DEF MinusSign, PointSign, SignOf
<1>. DEFINE v == whole * 1000 + Reads(g, 10) * m
<1>11. Decimal(p) = Negated(neg, v)
  <2>. HIDE DEF neg, w, g, v, p
  <2>1. CASE d = 0
    <3>1. g = <<>> BY <2>1, <1>8
    <3>2. p = sign \o w
      <4>. HIDE DEF sign
      <4>1. sign \o w \in Seq(Int) BY <1>10, ConcatProperties
      <4>. DEFINE e == sign \o w
      <4>2. p = (e \o <<>>) \o <<>> BY <2>1, <3>1, <1>9
      <4>. HIDE DEF e
      <4>3. e \o <<>> = e BY <4>1, ConcatEmptySeq DEF e
      <4>. QED BY <4>2, <4>3 DEF e
    <3>3. Amount(w) = whole * 1000 BY <1>7, WithoutPoint
    <3>4. w # <<>> BY <1>7
    <3>5. Decimal(p) = Negated(neg, Amount(w))
      BY <3>2, <3>4, <1>1, <1>7, <1>10, SignedAmount DEF neg, SignOf
    <3>6. v = whole * 1000 BY <2>1, <1>2, <1>3, <1>4, <1>8 DEF v
    <3>. QED BY <3>3, <3>5, <3>6
  <2>2. CASE d # 0
    <3>1. d > 0 BY <2>2
    <3>2. p = Joined(neg, w, g) BY <3>1, <1>9 DEF Joined
    <3>5. Decimal(Joined(neg, w, g)) = Negated(neg, Weighs(w, g))
      BY <1>1, <1>7, <1>8, DecimalOfParts
    <3>3. Decimal(p) = Negated(neg, Weighs(w, g)) BY <3>2, <3>5
    <3>4. Weighs(w, g) = v BY <1>7, <1>8 DEF Weighs, v, m
    <3>. QED BY <3>3, <3>4
  <2>. QED BY <2>1, <2>2
<1>12. v \in Int /\ 2 * v <= r /\ r < 2 * v + 2 * m
  <2>. DEFINE n == Reads(g, 10)
  <2>. HIDE DEF g, n
  <2>1. n \in Int /\ n = Reads(g, 10) BY <1>8 DEF n
  <2>6. v = whole * 1000 + n * m BY <2>1 DEF v
  <2>. HIDE DEF v
  <2>7. q \in Nat /\ q < 2000 /\ whole \in Nat /\ r = 2000 * whole + q BY <1>4
  <2>2. CASE d = 0
    <3>1. m = 1000 /\ n = 0 BY <2>1, <2>2, <1>2, <1>8
    <3>. QED BY <3>1, <2>6, <2>7
  <2>3. CASE d = 1
    <3>1. m = 100 /\ n = (q * 10) \div 2000 BY <2>1, <2>3, <1>2, <1>8
    <3>2. 200 * n <= q /\ q < 200 * n + 200 BY <3>1, <2>7, Quotients
    <3>3. m = 100 BY <3>1
    <3>. QED BY <3>2, <3>3, <2>1, <2>6, <2>7
  <2>4. CASE d = 2
    <3>1. m = 10 /\ n = (q * 100) \div 2000 BY <2>1, <2>4, <1>2, <1>8
    <3>2. 20 * n <= q /\ q < 20 * n + 20 BY <3>1, <2>7, Quotients
    <3>3. m = 10 BY <3>1
    <3>. QED BY <3>2, <3>3, <2>1, <2>6, <2>7
  <2>5. CASE d = 3
    <3>1. m = 1 /\ n = (q * 1000) \div 2000 BY <2>1, <2>5, <1>2, <1>8
    <3>2. 2 * n <= q /\ q < 2 * n + 2 BY <3>1, <2>7, Quotients
    <3>3. m = 1 BY <3>1
    <3>. QED BY <3>2, <3>3, <2>1, <2>6, <2>7
  <2>. QED BY <2>2, <2>3, <2>4, <2>5, <1>2
<1>13. 2 * Distance(Negated(neg, v), x) <= m
  <2>1. neg <=> x < 0 OBVIOUS
  <2>2. X = IF x < 0 THEN -x ELSE x BY DEF X
  <2>3. r = X * 2 + m BY DEF r
  <2>. HIDE DEF neg, v
  <2>. QED BY <2>1, <2>2, <2>3, <1>1, <1>3, <1>12, Nearest, ZenonT(30) DEF neg
<1>. QED BY <1>11, <1>13 DEF m

LEMMA FloatIsExact ==
  ASSUME NEW x \in Thousandths, NEW d \in 0 .. 3, NEW p, p = PrintFloat(x, d)
  PROVE  CallExact(CallOf("float", x, d, 0, <<>>), p)
<1>. DEFINE c == CallOf("float", x, d, 0, <<>>)
<1>1. c.call = "float" /\ c.value = x /\ c.base = d BY DEF CallOf
<1>. HIDE DEF c
<1>2. FloatExact(c, p)
  <2>1. CASE x > FloatLimit \/ x < -FloatLimit
    <3>1. p = Ovf BY <2>1 DEF PrintFloat
    <3>. QED BY <3>1 DEF FloatExact
  <2>2. CASE ~(x > FloatLimit \/ x < -FloatLimit)
    <3>1. x \in Int BY TextAssumption
    <3>2. 2 * Distance(Decimal(PrintFloat(x, d)), x) <= 10 ^ (3 - d)
      BY <2>2, <3>1, FloatText
    <3>. QED BY <3>2, <1>1 DEF FloatExact
  <2>. QED BY <2>1, <2>2
<1>3. c.call \notin {"long", "unsigned", "println", "string", "printf", "log", "format"} BY <1>1
<1>. QED BY <1>2, <1>3 DEF CallExact, NumberExact, PrintlnExact, RoomExact, PrintfExact,
                          MessageExact, c

HasDigits(b) ==
    \A m \in Nat : DigitsOf(m, b) = IF m < b THEN <<m>>
                                    ELSE Append(DigitsOf(Divided(m, b), b), Rest(m, b))

(* The hundredths of printf have one digit below ten, and else two.        *)
LEMMA Hundredths ==
  ASSUME NEW n \in Nat, n < 100
  PROVE  /\ DigitsOf(n, 10) \in Seq(Nat) /\ Reads(DigitsOf(n, 10), 10) = n
         /\ n < 10 => Len(DigitsOf(n, 10)) = 1
         /\ n >= 10 => Len(DigitsOf(n, 10)) = 2
<1>1. HasDigits(10)
  <2>1. \A b \in Nat : b >= 2 => HasDigits(b)
    <3>1. ASSUME NEW b \in Nat, b >= 2 PROVE HasDigits(b) BY <3>1, DigitsAre DEF HasDigits
    <3>. QED BY <3>1
  <2>. QED BY <2>1
<1>2. \A m \in Nat : DigitsOf(m, 10) = IF m < 10 THEN <<m>>
                                       ELSE Append(DigitsOf(Divided(m, 10), 10), Rest(m, 10))
  BY <1>1 DEF HasDigits
<1>3. ASSUME n < 10 PROVE Len(DigitsOf(n, 10)) = 1
  <2>1. DigitsOf(n, 10) = <<n>> BY <1>2, <1>3
  <2>. QED BY <2>1
<1>4. ASSUME n >= 10 PROVE Len(DigitsOf(n, 10)) = 2
  <2>. DEFINE a == Divided(n, 10)
              c == Rest(n, 10)
              s == DigitsOf(a, 10)
  <2>1. a \in Nat /\ a < 10 BY <1>4 DEF Divided
  <2>2. DigitsOf(n, 10) = Append(s, c) BY <1>2, <1>4
  <2>. HIDE DEF a
  <2>3. s = <<a>> BY <1>2, <2>1
  <2>. HIDE DEF c, s
  <2>4. Len(Append(s, c)) = 2 BY <2>1, <2>3
  <2>. QED BY <2>2, <2>4
<1>. QED BY <1>3, <1>4, TenDigits

(* The %f of printf.                                                       *)
LEMMA PrintfText ==
  ASSUME NEW x \in Int, -(LongRange \div 2) <= Truncated(x, 10),
         Truncated(x, 10) < LongRange \div 2,
         x \notin -999 .. -1, (Distance(0, x) % 1000) \div 10 \notin 1 .. 9
  PROVE  Decimal(PrintfFloat(x)) \in Int /\ Distance(Decimal(PrintfFloat(x)), x) <= 9
<1>. DEFINE X    == IF x < 0 THEN -x ELSE x
            neg  == x < 0
            T    == X \div 1000
            last == (X % 1000) \div 10
            sign == SignOf(neg)
            w    == DigitsOf(T, 10)
            g    == DigitsOf(last, 10)
            p    == PrintfFloat(x)
<1>1. /\ X \in Nat /\ neg \in BOOLEAN /\ Distance(0, x) = X /\ (neg => X >= 1000)
      /\ x = IF neg THEN -X ELSE X
  BY DEF Distance
<1>2. /\ Truncated(x, 1000) = IF neg THEN -(X \div 1000) ELSE X \div 1000
      /\ Truncated(x, 10) = IF neg THEN -(X \div 10) ELSE X \div 10
  BY DEF Truncated
<1>. HIDE DEF X, neg
<1>3. /\ last \in Nat /\ last < 100 /\ last \notin 1 .. 9 /\ T \in Nat /\ X \div 10 \in Nat
      /\ (X \div 10) % 100 = last /\ T <= X \div 10 /\ (neg => T >= 1)
      /\ 1000 * T + 10 * last <= X /\ X <= 1000 * T + 10 * last + 9
  BY <1>1
<1>4. /\ LongRange \in Nat /\ LongRange > 100 /\ LongRange \div 2 \in Nat
      /\ LongRange \div 2 < LongRange
  BY LongWidth, Limits DEF Bits16
<1>5. T < LongRange
  <2>. DEFINE Y == X \div 10
  <2>. HIDE DEF T, Y
  <2>1. Truncated(x, 10) = IF neg THEN -Y ELSE Y BY <1>2 DEF Y
  <2>2. Y \in Nat /\ T <= Y /\ T \in Nat BY <1>3 DEF Y
  <2>3. Y < LongRange BY <2>1, <2>2, <1>4
  <2>. QED BY <2>2, <2>3, <1>4
<1>7. w \in Seq(Nat) /\ Len(w) >= 1 /\ Reads(w, 10) = T /\ w[1] # MinusSign
  <2>. HIDE DEF T
  <2>. QED BY <1>3, TenDigits
<1>6. PrintLong(Truncated(x, 1000), 10) = sign \o w
  <2>1. T % LongRange = T
    <3>. HIDE DEF T
    <3>1. T \in 0 .. LongRange - 1 /\ T \in Int BY <1>3, <1>4, <1>5
    <3>. QED BY <3>1, WrappedFacts DEF Wrapped
  <2>2. CASE neg
    <3>4. Truncated(x, 1000) = -T BY <2>2, <1>2
    <3>. HIDE DEF T
    <3>1. -T < 0 /\ -(-T) = T BY <2>2, <1>3
    <3>5. SignOf(neg) = <<MinusSign>> BY <2>2 DEF SignOf
    <3>2. PrintLong(-T, 10) = <<MinusSign>> \o PrintNumber((-(-T)) % LongRange, 10)
      BY <3>1 DEF PrintLong
    <3>3. PrintNumber(T, 10) = w BY DEF PrintNumber
    <3>. HIDE DEF w
    <3>6. PrintNumber((-(-T)) % LongRange, 10) = w BY <2>1, <3>1, <3>3
    <3>7. PrintLong(-T, 10) = <<MinusSign>> \o w BY <3>2, <3>6
    <3>8. PrintLong(-T, 10) = SignOf(neg) \o w BY <3>5, <3>7, Zenon
    <3>. QED BY <3>4, <3>8
  <2>3. CASE ~neg
    <3>1. Truncated(x, 1000) = T /\ ~(T < 0) BY <2>3, <1>2, <1>3
    <3>. HIDE DEF T
    <3>2. PrintLong(T, 10) = w BY <2>1, <3>1 DEF PrintLong, PrintNumber
    <3>3. <<>> \o w = w
      <4>. HIDE DEF w
      <4>. QED BY <1>7, ConcatEmptySeq
    <3>4. SignOf(neg) = <<>> BY <2>3 DEF SignOf
    <3>. HIDE DEF w
    <3>. QED BY <3>1, <3>2, <3>3, <3>4
  <2>. QED BY <2>2, <2>3
<1>8. PrintLong(IF Truncated(x, 10) < 1 THEN (-Truncated(x, 10)) % 100
                ELSE Truncated(x, 10) % 100, 10) = g
  <2>. DEFINE h == Truncated(x, 10)
              Y == X \div 10
  <2>1. (IF h < 1 THEN (-h) % 100 ELSE h % 100) = last
    <3>. HIDE DEF h, last, Y
    <3>1. h = IF neg THEN -Y ELSE Y BY <1>2 DEF h, Y
    <3>2. Y \in Nat /\ Y % 100 = last BY <1>3 DEF Y
    <3>3. -(-Y) = Y BY <3>2
    <3>4. CASE neg
      <4>1. h = -Y /\ h < 1 /\ -h = Y BY <3>1, <3>2, <3>3, <3>4
      <4>. QED BY <4>1, <3>2
    <3>5. CASE ~neg
      <4>1. h = Y BY <3>1, <3>5
      <4>2. h < 1 => -h = Y BY <4>1, <3>2
      <4>. QED BY <4>1, <4>2, <3>2
    <3>. QED BY <3>4, <3>5
  <2>2. last % LongRange = last /\ ~(last < 0)
    <3>. HIDE DEF last
    <3>. QED BY <1>3, <1>4
  <2>. HIDE DEF h, last
  <2>3. PrintLong(last, 10) = g BY <2>2 DEF PrintLong, PrintNumber
  <2>. QED BY <2>1, <2>3 DEF h
<1>9. p = Joined(neg, w, g)
  <2>. DEFINE a == PrintLong(Truncated(x, 1000), 10)
              b == PrintLong(IF Truncated(x, 10) < 1 THEN (-Truncated(x, 10)) % 100
                             ELSE Truncated(x, 10) % 100, 10)
  <2>1. p = a \o <<PointSign>> \o b BY DEF PrintfFloat
  <2>2. a = sign \o w /\ b = g BY <1>6, <1>8
  <2>. HIDE DEF a, b, w, g, p
  <2>. QED BY <2>1, <2>2 DEF Joined
<1>10. /\ g \in Seq(Nat) /\ Reads(g, 10) = last
       /\ last < 10 => Len(g) = 1
       /\ last >= 10 => Len(g) = 2
  <2>. HIDE DEF last
  <2>. QED BY <1>3, Hundredths
<1>11. Decimal(p) = Negated(neg, Weighs(w, g))
  <2>. HIDE DEF w, g, p
  <2>1. Decimal(Joined(neg, w, g)) = Negated(neg, Weighs(w, g))
    BY <1>1, <1>7, <1>10, DecimalOfParts
  <2>. QED BY <1>9, <2>1
<1>12. Weighs(w, g) = T * 1000 + last * 10
  <2>1. 10 ^ (3 - 1) = 100 /\ 10 ^ (3 - 2) = 10 OBVIOUS
  <2>. HIDE DEF w, g, last, T
  <2>2. CASE last < 10
    <3>1. last = 0 BY <2>2, <1>3
    <3>2. Reads(g, 10) * 10 ^ (3 - Len(g)) = 0 * 100 BY <2>1, <3>1, <1>10
    <3>. QED BY <3>1, <3>2, <1>3, <1>7 DEF Weighs
  <2>3. CASE ~(last < 10)
    <3>1. Len(g) = 2 BY <2>3, <1>3, <1>10
    <3>2. Reads(g, 10) * 10 ^ (3 - Len(g)) = last * 10 BY <2>1, <3>1, <1>10
    <3>. QED BY <3>2, <1>3, <1>7 DEF Weighs
  <2>. QED BY <2>2, <2>3
<1>. DEFINE v == T * 1000 + last * 10
<1>13. v \in Int /\ v <= X /\ X <= v + 9 BY <1>1, <1>3
<1>14. Negated(neg, v) \in Int /\ Distance(Negated(neg, v), x) <= 9
  <2>. HIDE DEF v
  <2>1. CASE neg
    <3>1. Negated(neg, v) = -v /\ x = -X BY <2>1, <1>1 DEF Negated
    <3>. QED BY <3>1, <1>1, <1>13 DEF Distance
  <2>2. CASE ~neg
    <3>1. Negated(neg, v) = v /\ x = X BY <2>2, <1>1 DEF Negated
    <3>. QED BY <3>1, <1>1, <1>13 DEF Distance
  <2>. QED BY <2>1, <2>2
<1>. QED BY <1>11, <1>12, <1>14

LEMMA PrintfIsExact ==
  ASSUME NEW x \in Thousandths, -(LongRange \div 2) <= Truncated(x, 10),
         Truncated(x, 10) < LongRange \div 2, NEW p, p = PrintfFloat(x)
  PROVE  CallExact(CallOf("printf", x, 2, 0, <<>>), p)
<1>. DEFINE c == CallOf("printf", x, 2, 0, <<>>)
<1>1. c.call = "printf" /\ c.value = x BY DEF CallOf
<1>. HIDE DEF c
<1>2. PrintfExact(c, p)
  <2>0. x \in Int BY TextAssumption
  <2>1. SUFFICES ASSUME x \notin -999 .. -1, (Distance(0, x) % 1000) \div 10 \notin 1 .. 9
                 PROVE  ~(Distance(Decimal(p), x) > 9)
    BY <1>1 DEF PrintfExact
  <2>2. Distance(Decimal(p), x) <= 9 BY <2>0, <2>1, PrintfText
  <2>3. Distance(Decimal(p), x) \in Int
    <3>1. Decimal(p) \in Int BY <2>0, <2>1, PrintfText
    <3>. QED BY <3>1, <2>0 DEF Distance
  <2>. QED BY <2>2, <2>3
<1>3. c.call \notin {"long", "unsigned", "println", "string", "float", "log", "format"} BY <1>1
<1>. QED BY <1>2, <1>3 DEF CallExact, NumberExact, PrintlnExact, RoomExact, FloatExact,
                          MessageExact, c

-----------------------------------------------------------------------------
(* Every call.                                                             *)

Exact == CallExact(textCall, printed)

CallsAre(call, value, base, places, format) ==
    /\ NoPrint = CallOf("none", 0, 10, 0, <<>>)
    /\ [NoPrint EXCEPT !.call = call, !.value = value, !.base = base, !.places = places]
          = CallOf(call, value, base, places, <<>>)
    /\ [NoPrint EXCEPT !.call = call, !.value = value, !.base = base, !.format = format]
          = CallOf(call, value, base, 0, format)
    /\ [NoPrint EXCEPT !.call = call, !.format = format] = CallOf(call, 0, 10, 0, format)

LEMMA CallRecord ==
  ASSUME NEW call, NEW value, NEW base, NEW places, NEW format
  PROVE  CallsAre(call, value, base, places, format)
<1>. DEFINE r == NoPrint
            c == [r EXCEPT !.call = call]
            v == [c EXCEPT !.value = value]
            b == [v EXCEPT !.base = base]
<1>1. r = CallOf("none", 0, 10, 0, <<>>) BY DEF NoPrint, CallOf
<1>. HIDE DEF r
<1>2. c = CallOf(call, 0, 10, 0, <<>>) BY <1>1 DEF CallOf
<1>. HIDE DEF c
<1>3. v = CallOf(call, value, 10, 0, <<>>) BY <1>2 DEF CallOf
<1>. HIDE DEF v
<1>4. b = CallOf(call, value, base, 0, <<>>) BY <1>3 DEF CallOf
<1>. HIDE DEF b
<1>5. [b EXCEPT !.places = places] = CallOf(call, value, base, places, <<>>) BY <1>4 DEF CallOf
<1>6. [b EXCEPT !.format = format] = CallOf(call, value, base, 0, format) BY <1>4 DEF CallOf
<1>7. [c EXCEPT !.format = format] = CallOf(call, 0, 10, 0, format) BY <1>2 DEF CallOf
<1>8. [r EXCEPT !.call = call, !.value = value, !.base = base, !.places = places]
         = [b EXCEPT !.places = places]
  BY DEF b, v, c
<1>9. [r EXCEPT !.call = call, !.value = value, !.base = base, !.format = format]
         = [b EXCEPT !.format = format]
  BY DEF b, v, c
<1>10. [r EXCEPT !.call = call, !.format = format] = [c EXCEPT !.format = format]
  BY DEF c
<1>. QED BY <1>1, <1>5, <1>6, <1>7, <1>8, <1>9, <1>10 DEF CallsAre, r

LEMMA PrintsCall ==
  ASSUME NEW call, NEW value, NEW base, NEW places, NEW text,
         Prints(call, value, base, places, text),
         CallExact(CallOf(call, value, base, places, <<>>), text)
  PROVE  Exact'
<1>1. textCall' = CallOf(call, value, base, places, <<>>) /\ printed' = text
  <2>1. CallsAre(call, value, base, places, <<>>) BY CallRecord
  <2>. QED BY <2>1 DEF Prints, CallsAre
<1>. QED BY <1>1 DEF Exact

LEMMA ExactInit == TextInit => Exact
<1>1. TextInit => textCall = CallOf("none", 0, 10, 0, <<>>) 
  <2>1. CallsAre(0, 0, 0, 0, 0) BY CallRecord
  <2>. QED BY <2>1 DEF TextInit, CallsAre
<1>2. CallExact(CallOf("none", 0, 10, 0, <<>>), printed) BY SilentExact
<1>. QED BY <1>1, <1>2 DEF Exact

LEMMA ExactNumber == ASSUME PrintsNumber PROVE Exact'
<1>1. PICK n \in Numbers, base \in Bases :
         \/ Prints("long", n, base, 0, PrintLong(n, base))
         \/ Prints("unsigned", n, base, 0, PrintUnsigned(n, base))
         \/ Prints("println", n, base, 0, Println(PrintLong(n, base)))
  BY DEF PrintsNumber
<1>2. CASE Prints("long", n, base, 0, PrintLong(n, base))
  <2>1. CallExact(CallOf("long", n, base, 0, <<>>), PrintLong(n, base)) BY PrintExact
  <2>. QED BY <1>2, <2>1, PrintsCall
<1>3. CASE Prints("unsigned", n, base, 0, PrintUnsigned(n, base))
  <2>1. CallExact(CallOf("unsigned", n, base, 0, <<>>), PrintUnsigned(n, base)) BY PrintExact
  <2>. QED BY <1>3, <2>1, PrintsCall
<1>4. CASE Prints("println", n, base, 0, Println(PrintLong(n, base)))
  <2>1. CallExact(CallOf("println", n, base, 0, <<>>), Println(PrintLong(n, base)))
    BY PrintlnIsExact
  <2>. QED BY <1>4, <2>1, PrintsCall
<1>. QED BY <1>1, <1>2, <1>3, <1>4

LEMMA ExactDouble == ASSUME PrintsDouble PROVE Exact'
<1>1. PICK x \in Thousandths :
         \/ \E digits \in 0 .. 3 : Prints("float", x, digits, 0, PrintFloat(x, digits))
         \/ /\ -(LongRange \div 2) <= Truncated(x, 10) /\ Truncated(x, 10) < LongRange \div 2
            /\ Prints("printf", x, 2, 0, PrintfFloat(x))
  BY DEF PrintsDouble
<1>2. ASSUME NEW d \in 0 .. 3, Prints("float", x, d, 0, PrintFloat(x, d)) PROVE Exact'
  <2>1. CallExact(CallOf("float", x, d, 0, <<>>), PrintFloat(x, d)) BY FloatIsExact
  <2>. QED BY <1>2, <2>1, PrintsCall
<1>3. CASE /\ -(LongRange \div 2) <= Truncated(x, 10) /\ Truncated(x, 10) < LongRange \div 2
           /\ Prints("printf", x, 2, 0, PrintfFloat(x))
  <2>1. CallExact(CallOf("printf", x, 2, 0, <<>>), PrintfFloat(x)) BY <1>3, PrintfIsExact
  <2>. QED BY <1>3, <2>1, PrintsCall
<1>. QED BY <1>1, <1>2, <1>3

LEMMA ExactString == ASSUME StringOfNumber PROVE Exact'
<1>1. PICK n \in Numbers, type \in Types :
         \/ Prints("string", n, 10, ConcatPlaces(type), Ltoa(n, type, 10))
         \/ \E base \in Bases \ {0} :
               Prints("string", n, base, StringPlaces(type), Ltoa(n, type, base))
  BY DEF StringOfNumber
<1>2. CASE Prints("string", n, 10, ConcatPlaces(type), Ltoa(n, type, 10))
  <2>1. CallExact(CallOf("string", n, 10, ConcatPlaces(type), <<>>), Ltoa(n, type, 10))
    <3>1. ASSUME NEW base \in Nat, base = 10
          PROVE  CallExact(CallOf("string", n, base, ConcatPlaces(type), <<>>), Ltoa(n, type, base))
      BY <3>1, StringExact
    <3>2. 10 \in Nat OBVIOUS
    <3>. QED BY <3>1, <3>2
  <2>. QED BY <1>2, <2>1, PrintsCall
<1>3. ASSUME NEW base \in Bases \ {0},
             Prints("string", n, base, StringPlaces(type), Ltoa(n, type, base))
      PROVE  Exact'
  <2>0. base \in Nat /\ base >= 2 BY BaseRange
  <2>1. CallExact(CallOf("string", n, base, StringPlaces(type), <<>>), Ltoa(n, type, base))
    BY <2>0, StringExact
  <2>. QED BY <1>3, <2>1, PrintsCall
<1>. QED BY <1>1, <1>2, <1>3

LEMMA ExactMessage == ASSUME Logs \/ Printfs \/ Fails PROVE Exact'
<1>0. Formats \subseteq Seq(Int) BY TextAssumption
<1>1. CASE Logs
  <2>1. PICK severity \in 1 .. 4, f \in Formats : Log(severity, f, Arguments) BY <1>1 DEF Logs
  <2>2. textCall' = CallOf("log", severity, logLevel, 0, f)
    <3>1. CallsAre("log", severity, logLevel, 0, f) BY CallRecord
    <3>2. textCall' = [NoPrint EXCEPT !.call = "log", !.value = severity, !.base = logLevel,
                                      !.format = f]
      BY <2>1 DEF Log
    <3>. QED BY <3>1, <3>2 DEF CallsAre
  <2>3. printed' = IF severity > logLevel THEN <<>>
                   ELSE (IF severity = 1 THEN <<ErrorText>> ELSE <<>>)
                        \o LogPrint(f, Arguments) \o <<LineFeed>>
    BY <2>1 DEF Log
  <2>4. CallExact(CallOf("log", severity, logLevel, 0, f), printed') BY <1>0, <2>3, LogExact
  <2>. QED BY <2>2, <2>4 DEF Exact
<1>2. CASE Printfs
  <2>1. PICK f \in Formats : /\ textCall' = [NoPrint EXCEPT !.call = "format", !.format = f]
                             /\ printed' = Printf(f, Arguments)
    BY <1>2 DEF Printfs
  <2>2. textCall' = CallOf("format", 0, 10, 0, f)
    <3>1. CallsAre("format", 0, 10, 0, f) BY CallRecord
    <3>. QED BY <2>1, <3>1 DEF CallsAre
  <2>3. CallExact(CallOf("format", 0, 10, 0, f), printed') BY <1>0, <2>1, FormatExact
  <2>. QED BY <2>2, <2>3 DEF Exact
<1>3. CASE Fails
  <2>1. PICK f \in Formats : textCall' = [NoPrint EXCEPT !.call = "assert", !.format = f]
    BY <1>3 DEF Fails, Asserts
  <2>2. textCall' = CallOf("assert", 0, 10, 0, f)
    <3>1. CallsAre("assert", 0, 10, 0, f) BY CallRecord
    <3>. QED BY <2>1, <3>1 DEF CallsAre
  <2>3. CallExact(CallOf("assert", 0, 10, 0, f), printed') BY SilentExact
  <2>. QED BY <2>2, <2>3 DEF Exact
<1>. QED BY <1>1, <1>2, <1>3

LEMMA ExactNext == Exact /\ [TextNext]_textVars => Exact'
<1>. SUFFICES ASSUME Exact, [TextNext]_textVars PROVE Exact' OBVIOUS
<1>1. CASE PrintsNumber BY <1>1, ExactNumber
<1>2. CASE PrintsDouble BY <1>2, ExactDouble
<1>3. CASE StringOfNumber BY <1>3, ExactString
<1>4. CASE Logs \/ Printfs \/ Fails BY <1>4, ExactMessage
<1>5. CASE LogInit BY <1>5 DEF LogInit, Exact
<1>6. CASE UNCHANGED textVars BY <1>6 DEF textVars, Exact
<1>. QED BY <1>1, <1>2, <1>3, <1>4, <1>5, <1>6 DEF TextNext

(* What Print, printf, String and the logger write reads back as what they *)
(* were given, in every base, for every number and double of their types   *)
(* and every format, and it fits its buffer: PrintsExactly, always.        *)
THEOREM PrintsExactlyAlways == TextSpec => []PrintsExactly
<1>1. TextInit => Exact BY ExactInit
<1>2. Exact /\ [TextNext]_textVars => Exact' BY ExactNext
<1>3. Exact => PrintsExactly BY ExactOfCall DEF Exact
<1>. QED BY <1>1, <1>2, <1>3, PTL DEF TextSpec

=============================================================================
