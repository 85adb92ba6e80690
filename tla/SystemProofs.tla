---------------------------- MODULE SystemProofs ----------------------------
(***************************************************************************)
(* What the other components rest on: the clock that they read, the order  *)
(* in which they are started, the memory that they share, the numbers that *)
(* are scaled for them, the pins, and the channels between the pins and    *)
(* the timers.                                                             *)
(***************************************************************************)
EXTENDS Clock, Startup, Memory, Scaling, Pins, Channels, FiniteSetTheorems, SequenceTheorems,
        WellFoundedInduction, TLAPS

-----------------------------------------------------------------------------
(* The clock: WaitsLongEnough.                                             *)

LEMMA ProductGrows ==
  ASSUME NEW p \in Nat \ {0}, NEW a \in Int, NEW b \in Int, a < b
  PROVE  p * a + p <= p * b
<1>1. PICK d \in Nat : b = a + 1 + d BY SMT
<1>2. p * b = p * a + p + p * d BY <1>1, SMT
<1>3. p * d >= 0 BY SMT
<1>4. p * a \in Int /\ p * b \in Int /\ p * d \in Int BY SMT
<1>. QED BY <1>2, <1>3, <1>4, SMT

LEMMA RemainderOf ==
  ASSUME NEW p \in Nat \ {0}, NEW n \in Int
  PROVE  \E k \in Int : n = (p * k) + (n % p) /\ n % p \in 0 .. p - 1
<1>1. n % p \in 0 .. p - 1 BY SMT
<1>2. n = (p * (n \div p)) + (n % p) /\ n \div p \in Int BY SMT
<1>. QED BY <1>1, <1>2, Zenon

LEMMA RemainderIs ==
  ASSUME NEW p \in Nat \ {0}, NEW n \in Int, NEW k \in Int, p * k <= n, n < p * (k + 1)
  PROVE  n % p = n - p * k
<1>1. PICK q \in Int : n = (p * q) + (n % p) /\ n % p \in 0 .. p - 1 BY RemainderOf
<1>2. p * (k + 1) = p * k + p /\ p * k \in Int /\ p * q \in Int BY SMT
<1>3. ~(q < k) BY <1>1, <1>2, ProductGrows, SMT
<1>4. ~(k < q) BY <1>1, <1>2, ProductGrows, SMT
<1>5. q = k BY <1>3, <1>4, SMT
<1>. QED BY <1>1, <1>2, <1>5, SMT

\* what two numbers of a word tell of the time between them, at most
LEMMA RemainderLag ==
  ASSUME NEW w \in Nat \ {0}, NEW x \in Nat, NEW y \in Nat, x <= y
  PROVE  /\ (y % w) - (x % w) <= y - x
         /\ ((y % w) - (x % w)) % w <= y - x
         /\ y % w < x % w => y % w <= y - x
<1>0. x \in Int /\ y \in Int OBVIOUS
<1>1. PICK i \in Int : x = (w * i) + (x % w) /\ x % w \in 0 .. w - 1 BY <1>0, RemainderOf, Zenon
<1>2. PICK j \in Int : y = (w * j) + (y % w) /\ y % w \in 0 .. w - 1 BY <1>0, RemainderOf, Zenon
<1>3. w * i \in Int /\ w * j \in Int BY SMT
<1> DEFINE a == x % w
           b == y % w
           p == w * i
           q == w * j
<1>4. a \in 0 .. w - 1 /\ b \in 0 .. w - 1 /\ p \in Int /\ q \in Int /\ x = p + a /\ y = q + b
  BY <1>1, <1>2, <1>3
<1>5. i <= j
  <2>1. ~(j < i) 
    <3>1. SUFFICES ASSUME j < i PROVE FALSE OBVIOUS
    <3>2. q + w <= p BY <3>1, ProductGrows
    <3>. QED BY <3>2, <1>4, SMT
  <2>. QED BY <2>1, SMT
<1>6. i = j => p = q OBVIOUS
<1>7. i < j => p + w <= q BY ProductGrows
<1>8. i = j \/ i < j BY <1>5, SMT
<1> HIDE DEF a, b, p, q
<1>9. p <= q BY <1>4, <1>6, <1>7, <1>8, SMT
<1>10. b - a <= y - x BY <1>4, <1>9, SMT
<1>11. (b - a) % w = IF b < a THEN (b - a) + w ELSE b - a
  <2>1. CASE b < a
    <3>1. w * (-1) <= b - a /\ b - a < w * ((-1) + 1) BY <2>1, <1>4, SMT
    <3>2. (b - a) % w = (b - a) - w * (-1) BY <3>1, <1>4, RemainderIs, SMT
    <3>. QED BY <3>2, <2>1, <1>4, SMT
  <2>2. CASE ~(b < a)
    <3>1. w * 0 <= b - a /\ b - a < w * (0 + 1) BY <2>2, <1>4, SMT
    <3>2. (b - a) % w = (b - a) - w * 0 BY <3>1, <1>4, RemainderIs, SMT
    <3>. QED BY <3>2, <2>2, <1>4, SMT
  <2>. QED BY <2>1, <2>2
<1>12. b < a => i < j
  BY <1>6, <1>8, <1>4, SMT
<1>13. (b - a) % w <= y - x
  <2>1. CASE b < a BY <2>1, <1>11, <1>12, <1>7, <1>4, SMT
  <2>2. CASE ~(b < a) BY <2>2, <1>11, <1>10
  <2>. QED BY <2>1, <2>2
<1>14. b < a => b <= y - x BY <1>12, <1>7, <1>4, SMT
<1>. QED BY <1>10, <1>13, <1>14 DEF a, b

Readings == [at : {"none", "counter", "done"}, counter : Nat, from : Nat, wrong : Int,
             value : Nat]
Waits == [at : {"start", "loop", "done"}, start : Nat, ms : Nat, from : Nat, wrong : BOOLEAN]
Ticks == [at : {"start", "processed", "end", "done"}, start : Nat, ms : Nat, count : Nat,
          from : Nat, wrong : BOOLEAN]

ClockTypeOK ==
    /\ now \in Nat /\ overflow \in BOOLEAN /\ overflows \in Nat
    /\ reading \in Readings /\ waiting \in Waits /\ ticking \in Ticks

\* periods that have passed
Passed == overflows + IF overflow THEN 1 ELSE 0

(* The overflows counted and pending are the periods passed; a reading     *)
(* under way is short of, or ahead of, the counts that it will find.       *)
ReadingInv ==
    /\ Period * Passed <= now /\ now < Period * (Passed + 1)
    /\ reading.from <= now
    /\ reading.at = "counter" =>
          /\ reading.counter = reading.from - Period * (overflows - reading.wrong)
          /\ 0 <= reading.counter /\ reading.counter < Period
          /\ now - reading.from < Period
    /\ reading.at = "done" =>
          /\ reading.wrong \in {-1, 0, 1}
          /\ reading.value = (reading.from + reading.wrong * Period) % Word
    /\ ~Wants => reading.at = "none"

\* no reading that is still to be used is older than this
Oldest == IF reading.at = "none" THEN now ELSE reading.from

(* delay has started by a reading that is not older than its call.         *)
WaitingInv ==
    /\ waiting.from <= now
    /\ waiting.at # "done" => waiting.from <= Oldest
    /\ waiting.at = "loop" /\ ~waiting.wrong =>
          \E s \in Nat : waiting.from <= s /\ s <= Oldest /\ waiting.start = s % Word
    /\ waiting.at = "done" /\ ~waiting.wrong => now - waiting.from >= waiting.ms

(* What applicationTick has counted has passed, or will have when the delay*)
(* that it waits for ends.                                                 *)
TickingInv ==
    /\ ticking.from <= now
    /\ ticking.at = "processed" => waiting.at = "done"
    /\ waiting.at = "done" /\ ticking.at # "done" => ticking.from <= Oldest
    /\ ticking.at \in {"start", "end"} /\ waiting.at # "done" /\ ~ticking.wrong =>
          ticking.count <= waiting.from - ticking.from + waiting.ms
    /\ ticking.at \in {"start", "end"} /\ waiting.at = "done" /\ ~ticking.wrong /\ ~WaitedWrong =>
          ticking.count <= Oldest - ticking.from
    /\ ticking.at = "processed" /\ ~ticking.wrong =>
          \E s \in Nat : /\ ticking.from <= s /\ s <= Oldest
                         /\ ticking.start = (s % Word) % Half
                         /\ ticking.count <= s - ticking.from
    /\ ticking.at = "end" => ticking.count >= ticking.ms
    /\ ticking.at = "done" /\ ~ticking.wrong => now - ticking.from >= ticking.ms

ClockInv == ClockTypeOK /\ ReadingInv /\ WaitingInv /\ TickingInv

LEMMA EmptyRecords == NoReading \in Readings /\ NoWait \in Waits /\ NoTick \in Ticks
<1>1. NoReading \in Readings BY DEF NoReading, Readings
<1>2. NoWait \in Waits BY DEF NoWait, Waits
<1>3. NoTick \in Ticks BY DEF NoTick, Ticks
<1>. QED BY <1>1, <1>2, <1>3

LEMMA ClockInvImplies == ClockInv => WaitsLongEnough
  BY DEF ClockInv, ReadingInv, WaitingInv, TickingInv, WaitsLongEnough

LEMMA ClockInvInit == ClockInit => ClockInv
<1>. SUFFICES ASSUME ClockInit PROVE ClockInv OBVIOUS
<1>1. ClockTypeOK BY EmptyRecords DEF ClockInit, ClockTypeOK
<1>2. ReadingInv
  <2>1. Period * 0 = 0 /\ Period * (0 + 1) = Period /\ Period > 0 BY ClockAssumption, SMT
  <2>. QED BY <2>1, SMT DEF ClockInit, NoReading, NoWait, NoTick, ReadingInv, Passed, Wants
<1>3. WaitingInv BY SMT DEF ClockInit, NoReading, NoWait, NoTick, WaitingInv, Oldest
<1>4. TickingInv BY SMT DEF ClockInit, NoReading, NoWait, NoTick, TickingInv, Oldest, WaitedWrong
<1>. QED BY <1>1, <1>2, <1>3, <1>4 DEF ClockInv

-----------------------------------------------------------------------------
LEMMA WordSizes ==
  /\ \A n \in Int : n % Word \in Nat /\ n % Half \in Nat /\ n % Period \in Nat
  /\ \A n \in Nat : n % Half <= n
<1>1. \A n \in Int : n % Word \in Nat /\ n % Half \in Nat /\ n % Period \in Nat
  <2>. SUFFICES ASSUME NEW n \in Int
                PROVE  n % Word \in Nat /\ n % Half \in Nat /\ n % Period \in Nat
    OBVIOUS
  <2>1. n % Word \in 0 .. Word - 1 BY ClockAssumption, RemainderOf, Zenon
  <2>2. n % Half \in 0 .. Half - 1 BY ClockAssumption, RemainderOf, Zenon
  <2>3. n % Period \in 0 .. Period - 1 BY ClockAssumption, RemainderOf, Zenon
  <2>. QED BY <2>1, <2>2, <2>3, SMT
<1>2. \A n \in Nat : n % Half <= n
  <2>. SUFFICES ASSUME NEW n \in Nat PROVE n % Half <= n OBVIOUS
  <2>1. 0 % Half = 0 BY ClockAssumption, SMT
  <2>2. (n % Half) - (0 % Half) <= n - 0 BY ClockAssumption, RemainderLag, SMT
  <2>3. n % Half \in Nat BY <1>1
  <2>. QED BY <2>1, <2>2, <2>3, SMT
<1>. QED BY <1>1, <1>2

LEMMA WaitType ==
  ASSUME ClockTypeOK, NEW ms \in Nat, Wait(ms)
  PROVE  waiting' \in Waits
<1>1. now \in Nat BY DEF ClockTypeOK
<1>. QED BY <1>1 DEF Wait, NoWait, Waits

LEMMA ClockTypeStep == ClockTypeOK /\ [ClockNext]_clockVars => ClockTypeOK'
<1>. SUFFICES ASSUME ClockTypeOK, [ClockNext]_clockVars PROVE ClockTypeOK' OBVIOUS
<1>0. /\ now \in Nat /\ overflow \in BOOLEAN /\ overflows \in Nat
      /\ reading \in Readings /\ waiting \in Waits /\ ticking \in Ticks
  BY DEF ClockTypeOK
<1>1. CASE Tick
  <2>1. now' \in Nat /\ overflow' \in BOOLEAN BY <1>1, <1>0 DEF Tick
  <2>. QED BY <1>0, <1>1, <2>1 DEF ClockTypeOK, Tick
<1>2. CASE OverflowHandler
  <2>1. overflows' \in Nat /\ overflow' \in BOOLEAN
    <3>1. overflows' = overflows + 1 /\ overflow' = FALSE BY <1>2 DEF OverflowHandler
    <3>2. overflows + 1 \in Nat BY <1>0
    <3>. QED BY <3>1, <3>2, Zenon
  <2>2. [reading EXCEPT !.wrong = @ + 1] \in Readings BY <1>0 DEF Readings
  <2>3. reading' \in Readings BY <1>0, <1>2, <2>2 DEF OverflowHandler
  <2>. QED BY <1>0, <1>2, <2>1, <2>3 DEF ClockTypeOK, OverflowHandler
<1>3. CASE ReadCounter
  <2>1. now % Period \in Nat BY <1>0, WordSizes
  <2>2. reading' \in Readings BY <1>0, <1>3, <2>1 DEF Readings, ReadCounter
  <2>. QED BY <1>0, <1>3, <2>2 DEF ClockTypeOK, ReadCounter
<1>4. CASE ReadOverflows
  <2>1. reading.counter \in Nat BY <1>0 DEF Readings
  <2>2. overflows * Period + reading.counter \in Int BY <1>0, <2>1, ClockAssumption, SMT
  <2>3. (overflows * Period + reading.counter) % Word \in Nat BY <2>2, WordSizes
  <2>4. reading' \in Readings BY <1>0, <1>4, <2>3 DEF Readings, ReadOverflows
  <2>. QED BY <1>0, <1>4, <2>4 DEF ClockTypeOK, ReadOverflows
<1>5. CASE Delay
  <2>1. PICK ms \in Durations : Wait(ms) BY <1>5 DEF Delay
  <2>2. waiting' \in Waits BY <2>1, WaitType, ClockAssumption
  <2>. QED BY <1>0, <1>5, <2>2 DEF ClockTypeOK, Delay
<1>6. CASE DelayStarts
  <2>1. reading.value \in Nat BY <1>0 DEF Readings
  <2>2. waiting' \in Waits BY <1>0, <1>6, <2>1 DEF Waits, DelayStarts
  <2>. QED BY <1>0, <1>6, <2>2, EmptyRecords DEF ClockTypeOK, DelayStarts, Got
<1>7. CASE DelayLooks
  <2>1. waiting' \in Waits BY <1>0, <1>7 DEF Waits, DelayLooks
  <2>. QED BY <1>0, <1>7, <2>1, EmptyRecords DEF ClockTypeOK, DelayLooks, Got
<1>8. CASE ApplicationTick
  <2>1. PICK ms \in Durations : ticking' = [NoTick EXCEPT !.at = "start", !.ms = ms, !.from = now]
    BY <1>8 DEF ApplicationTick
  <2>2. ticking' \in Ticks BY <1>0, <2>1, ClockAssumption DEF NoTick, Ticks
  <2>. QED BY <1>0, <1>8, <2>2 DEF ClockTypeOK, ApplicationTick
<1>9. CASE TickStarts
  <2>1. reading.value \in Nat BY <1>0 DEF Readings
  <2>2. reading.value % Half \in Nat BY <2>1, WordSizes
  <2>3. ticking' \in Ticks BY <1>0, <1>9, <2>2 DEF Ticks, TickStarts
  <2>. QED BY <1>0, <1>9, <2>3, EmptyRecords DEF ClockTypeOK, TickStarts, Got
<1>10. CASE TickProcessed
  <2> DEFINE spent == Since(reading.value % Half, ticking.start)
             count == ticking.count + IF spent > WaitTicks THEN spent ELSE WaitTicks
  <2>1. reading.value \in Nat /\ ticking.start \in Nat /\ ticking.count \in Nat /\ WaitTicks \in Nat
    BY <1>0, ClockAssumption DEF Readings, Ticks
  <2>2. reading.value % Half \in Nat BY <2>1, WordSizes
  <2>3. (reading.value % Half) - ticking.start \in Int BY <2>1, <2>2
  <2>4. spent \in Nat BY <2>3, WordSizes DEF Since
  <2>5. /\ IF spent > WaitTicks THEN UNCHANGED waiting ELSE Wait(WaitTicks - spent)
        /\ ticking' = [ticking EXCEPT !.count = count,
             !.wrong = @ \/ reading.wrong # 0 \/ reading.value % Half < ticking.start,
             !.at = IF count < ticking.ms THEN "start" ELSE "end"]
        /\ reading' = NoReading /\ UNCHANGED <<now, overflow, overflows>>
    BY <1>10 DEF TickProcessed, Got
  <2>6. count \in Nat BY <2>1, <2>4
  <2> HIDE DEF spent, count
  <2>7. ticking' \in Ticks BY <1>0, <2>5, <2>6 DEF Ticks
  <2>8. waiting' \in Waits
    <3>1. CASE spent > WaitTicks BY <1>0, <2>5, <3>1
    <3>2. CASE ~(spent > WaitTicks)
      <4>1. WaitTicks - spent \in Nat BY <2>1, <2>4, <3>2
      <4>. QED BY <2>5, <3>2, <4>1, WaitType
    <3>. QED BY <3>1, <3>2
  <2>. QED BY <1>0, <2>5, <2>7, <2>8, EmptyRecords DEF ClockTypeOK
<1>11. CASE TickEnds
  <2>1. ticking' \in Ticks BY <1>0, <1>11 DEF Ticks, TickEnds
  <2>. QED BY <1>0, <1>11, <2>1 DEF ClockTypeOK, TickEnds
<1>12. CASE UNCHANGED clockVars BY <1>12 DEF ClockTypeOK, clockVars
<1>. QED BY <1>1, <1>2, <1>3, <1>4, <1>5, <1>6, <1>7, <1>8, <1>9, <1>10, <1>11, <1>12
     DEF ClockNext

-----------------------------------------------------------------------------
(* What the reading keeps.                                                 *)
LEMMA TickReads ==
  ASSUME ClockTypeOK, ReadingInv, Tick
  PROVE  ReadingInv'
<1>1. /\ now \in Nat /\ overflows \in Nat /\ overflow \in BOOLEAN /\ reading.from \in Nat
      /\ reading.wrong \in Int
  BY DEF ClockTypeOK, Readings
<1>2. Passed \in Nat BY <1>1, SMT DEF Passed
<1>3. Period \in Nat \ {0} BY ClockAssumption
<1>4. Period * Passed <= now /\ now < Period * (Passed + 1) BY DEF ReadingInv
<1>5. /\ Period * (Passed + 1) = Period * Passed + Period
      /\ Period * ((Passed + 1) + 1) = Period * Passed + Period + Period
      /\ Period * Passed \in Nat
  BY <1>2, <1>3, SMT
<1>6. /\ now' = now + 1 /\ UNCHANGED <<overflows, reading, waiting, ticking>>
      /\ ~(now' % Period = 0 /\ overflow) /\ overflow' = (overflow \/ now' % Period = 0)
      /\ reading.at = "counter" => now - reading.from < Period - 1
  BY DEF Tick
<1>7. /\ Period * Passed' <= now' /\ now' < Period * (Passed' + 1)
  <2>1. CASE now + 1 < Period * (Passed + 1)
    <3>1. (now + 1) % Period = (now + 1) - Period * Passed
      <4>1. now + 1 \in Int /\ Passed \in Int /\ Period * Passed <= now + 1
        BY <1>1, <1>2, <1>4, <1>5, SMT
      <4>. QED BY <4>1, <1>3, <2>1, RemainderIs
    <3>2. now' % Period # 0 BY <3>1, <1>6, <1>1, <1>4, <1>5, SMT
    <3>3. Passed' = Passed BY <3>2, <1>6 DEF Passed
    <3>. QED BY <3>3, <2>1, <1>6, <1>4, <1>1, <1>5, SMT
  <2>2. CASE ~(now + 1 < Period * (Passed + 1))
    <3>0. Period * (Passed + 1) \in Int BY <1>2, <1>3, SMT
    <3>1. now + 1 = Period * (Passed + 1) BY <2>2, <1>1, <1>4, <3>0, SMT
    <3>2. (now + 1) % Period = (now + 1) - Period * (Passed + 1)
      <4>1. /\ now + 1 \in Int /\ Passed + 1 \in Int /\ Period * (Passed + 1) <= now + 1
            /\ now + 1 < Period * ((Passed + 1) + 1)
        BY <1>1, <1>2, <1>3, <3>1, <1>5, SMT
      <4>. QED BY <4>1, <1>3, RemainderIs
    <3>3. now' % Period = 0 BY <3>1, <3>2, <1>1, <1>6, SMT
    <3>4. Passed' = Passed + 1
      <4>1. overflow = FALSE /\ overflow' = TRUE /\ overflows' = overflows
        BY <3>3, <1>6, <1>1
      <4>2. Passed = overflows + 0 /\ Passed' = overflows + 1 BY <4>1 DEF Passed
      <4>. QED BY <4>2, <1>1
    <3>. QED BY <3>4, <3>1, <1>5, <1>6, <1>3, <1>1, SMT
  <2>. QED BY <2>1, <2>2
<1>8. /\ reading'.from <= now'
      /\ reading'.at = "counter" => now' - reading'.from < Period
  BY <1>6, <1>1, <1>3, SMT DEF ReadingInv
<1>. QED BY <1>7, <1>8, <1>6 DEF ReadingInv, Wants

LEMMA InterruptReads ==
  ASSUME ClockTypeOK, ReadingInv, OverflowHandler
  PROVE  ReadingInv'
<1>1. overflows \in Nat /\ reading.wrong \in Int BY DEF ClockTypeOK, Readings
<1>2. Passed' = Passed BY <1>1, SMT DEF OverflowHandler, Passed
<1>3. CASE reading.at = "counter"
  <2>1. /\ reading'.at = "counter" /\ reading'.from = reading.from
        /\ reading'.counter = reading.counter /\ reading'.wrong = reading.wrong + 1
        /\ overflows' = overflows + 1 /\ UNCHANGED <<now, waiting, ticking>>
    BY <1>3 DEF OverflowHandler, ClockTypeOK, Readings
  <2>2. overflows' - reading'.wrong = overflows - reading.wrong BY <2>1, <1>1, SMT
  <2>. QED BY <1>2, <1>3, <2>1, <2>2 DEF ReadingInv, Wants
<1>4. CASE reading.at # "counter"
  BY <1>2, <1>4 DEF OverflowHandler, ReadingInv, Wants
<1>. QED BY <1>3, <1>4

LEMMA CounterReads ==
  ASSUME ClockTypeOK, ReadingInv, ReadCounter
  PROVE  ReadingInv'
<1>1. now \in Nat /\ overflows \in Nat /\ overflow \in BOOLEAN BY DEF ClockTypeOK
<1>2. Passed \in Nat BY <1>1, SMT DEF Passed
<1>3. Period \in Nat \ {0} BY ClockAssumption
<1>4. Period * Passed <= now /\ now < Period * (Passed + 1) BY DEF ReadingInv
<1>5. now % Period = now - Period * Passed
  <2>1. now \in Int /\ Passed \in Int BY <1>1, <1>2
  <2>. QED BY <2>1, <1>3, <1>4, RemainderIs
<1>6. Period * (Passed + 1) = Period * Passed + Period /\ Period * Passed \in Nat
  BY <1>2, <1>3, SMT
<1>7. /\ reading'.at = "counter" /\ reading'.counter = now % Period /\ reading'.from = now
      /\ reading'.wrong = IF overflow THEN -1 ELSE 0
      /\ UNCHANGED <<now, overflow, overflows, waiting, ticking>> /\ Wants
  BY DEF ReadCounter
<1>8. overflows' - reading'.wrong = Passed BY <1>7, <1>1, SMT DEF Passed
<1>9. Passed' = Passed /\ Wants' BY <1>7 DEF Passed, Wants
<1>10. /\ reading'.counter = reading'.from - Period * (overflows' - reading'.wrong)
       /\ 0 <= reading'.counter /\ reading'.counter < Period
  BY <1>5, <1>7, <1>8, <1>4, <1>6, <1>1, <1>3, SMT
<1>11. reading'.from <= now' /\ now' - reading'.from < Period BY <1>7, <1>1, <1>3, SMT
<1>. QED BY <1>4, <1>7, <1>9, <1>10, <1>11 DEF ReadingInv

LEMMA OverflowsRead ==
  ASSUME ClockTypeOK, ReadingInv, ReadOverflows
  PROVE  ReadingInv'
<1> DEFINE k == overflows - reading.wrong
<1>1. /\ now \in Nat /\ overflows \in Nat /\ overflow \in BOOLEAN /\ reading.from \in Nat
      /\ reading.wrong \in Int /\ reading.counter \in Nat
  BY DEF ClockTypeOK, Readings
<1>2. Passed \in Nat /\ k \in Int BY <1>1, SMT DEF Passed
<1>3. Period \in Nat \ {0} BY ClockAssumption
<1>4. /\ Period * Passed <= now /\ now < Period * (Passed + 1)
      /\ reading.from <= now /\ now - reading.from < Period
      /\ reading.counter = reading.from - Period * k /\ reading.counter < Period
  BY DEF ReadingInv, ReadOverflows
<1> HIDE DEF k
<1>5. /\ Period * (Passed + 1) = Period * Passed + Period
      /\ Period * (k + 1) = Period * k + Period
      /\ Period * Passed \in Int /\ Period * k \in Int
  BY <1>2, <1>3, SMT
<1>6. Period * k <= reading.from /\ reading.from < Period * k + Period BY <1>1, <1>3, <1>4, <1>5, SMT
<1>7. ~(Passed < k)
  <2>1. Passed < k => Period * Passed + Period <= Period * k BY <1>2, <1>3, ProductGrows
  <2>. QED BY <2>1, <1>4, <1>5, <1>6, <1>1, <1>3, SMT
<1>8. ~(k + 1 < Passed)
  <2>1. k + 1 \in Int BY <1>2, SMT
  <2>2. k + 1 < Passed => Period * (k + 1) + Period <= Period * Passed
    BY <2>1, <1>2, <1>3, ProductGrows
  <2>. QED BY <2>2, <1>4, <1>5, <1>6, <1>1, <1>3, SMT
<1>9. reading.wrong \in {-1, 0, 1}
  BY <1>7, <1>8, <1>1, <1>2, SMT DEF k, Passed
<1>10. overflows = k + reading.wrong BY <1>1, SMT DEF k
<1>11. overflows * Period = Period * k + reading.wrong * Period
  BY <1>10, <1>9, <1>2, <1>3, SMT
<1>12. reading.wrong * Period \in Int BY <1>1, <1>3, SMT
<1>13. overflows * Period + reading.counter = reading.from + reading.wrong * Period
  BY <1>11, <1>12, <1>4, <1>5, <1>1, SMT
<1>14. /\ reading'.at = "done" /\ reading'.from = reading.from /\ reading'.wrong = reading.wrong
       /\ reading'.value = (overflows * Period + reading.counter) % Word
       /\ UNCHANGED <<now, overflow, overflows, waiting, ticking>>
  BY DEF ReadOverflows, ClockTypeOK, Readings
<1>15. Wants' BY <1>14 DEF ReadingInv, ReadOverflows, Wants
<1>16. Passed' = Passed BY <1>14 DEF Passed
<1>. QED BY <1>4, <1>9, <1>13, <1>14, <1>15, <1>16 DEF ReadingInv

\* the other steps use the reading up, or are made while there is none
LEMMA OthersRead ==
  ASSUME ClockTypeOK, ReadingInv, UNCHANGED <<now, overflow, overflows>>,
         \/ Delay \/ DelayStarts \/ DelayLooks
         \/ ApplicationTick \/ TickStarts \/ TickProcessed \/ TickEnds \/ UNCHANGED clockVars
  PROVE  ReadingInv'
<1>1. /\ Passed' = Passed /\ Period * Passed <= now /\ now < Period * (Passed + 1)
  BY DEF Passed, ReadingInv
<1>2. CASE Got
  <2>1. reading'.at = "none" /\ reading'.from = 0 BY <1>2 DEF Got, NoReading
  <2>2. 0 <= now BY SMT DEF ClockTypeOK
  <2>. QED BY <1>1, <2>1, <2>2 DEF ReadingInv
<1>3. CASE Delay \/ ApplicationTick \/ TickEnds
  <2>1. UNCHANGED reading BY <1>3 DEF Delay, ApplicationTick, TickEnds
  <2>2. waiting.at = "done" /\ ticking.at \in {"end", "done"}
    <3>1. NoWait.at = "done" /\ NoTick.at = "done" BY DEF NoWait, NoTick
    <3>. QED BY <1>3, <3>1 DEF Delay, ApplicationTick, TickEnds
  <2>3. reading.at = "none" BY <2>2 DEF ReadingInv, Wants
  <2>. QED BY <1>1, <2>1, <2>3 DEF ReadingInv
<1>4. CASE UNCHANGED clockVars BY <1>1, <1>4 DEF ReadingInv, clockVars, Wants
<1>. QED BY <1>2, <1>3, <1>4 DEF DelayStarts, DelayLooks, TickStarts, TickProcessed

LEMMA ReadingStep == ClockTypeOK /\ ReadingInv /\ [ClockNext]_clockVars => ReadingInv'
<1>. SUFFICES ASSUME ClockTypeOK, ReadingInv, [ClockNext]_clockVars PROVE ReadingInv' OBVIOUS
<1>1. CASE Tick \/ OverflowHandler \/ ReadCounter \/ ReadOverflows
  BY <1>1, TickReads, InterruptReads, CounterReads, OverflowsRead
<1>2. CASE \/ Delay \/ DelayStarts \/ DelayLooks
           \/ ApplicationTick \/ TickStarts \/ TickProcessed \/ TickEnds \/ UNCHANGED clockVars
  <2>1. UNCHANGED <<now, overflow, overflows>>
    BY <1>2 DEF Delay, DelayStarts, DelayLooks, ApplicationTick, TickStarts, TickProcessed,
                TickEnds, clockVars
  <2>. QED BY <1>2, <2>1, OthersRead
<1>. QED BY <1>1, <1>2 DEF ClockNext

-----------------------------------------------------------------------------
(* What delay and applicationTick keep.                                    *)
ClockNumbers ==
    /\ now \in Nat /\ reading.from \in Nat /\ reading.wrong \in Int /\ reading.value \in Nat
    /\ waiting.from \in Nat /\ waiting.ms \in Nat /\ waiting.start \in Nat
    /\ ticking.from \in Nat /\ ticking.ms \in Nat /\ ticking.start \in Nat /\ ticking.count \in Nat
    /\ Oldest \in Nat

LEMMA Numbers == ClockTypeOK => ClockNumbers
<1>. SUFFICES ASSUME ClockTypeOK PROVE ClockNumbers OBVIOUS
<1>1. now \in Nat /\ reading.from \in Nat /\ reading.wrong \in Int /\ reading.value \in Nat
  BY DEF ClockTypeOK, Readings
<1>2. waiting.from \in Nat /\ waiting.ms \in Nat /\ waiting.start \in Nat BY DEF ClockTypeOK, Waits
<1>3. ticking.from \in Nat /\ ticking.ms \in Nat /\ ticking.start \in Nat /\ ticking.count \in Nat
  BY DEF ClockTypeOK, Ticks
<1>4. Oldest \in Nat BY <1>1 DEF Oldest
<1>. QED BY <1>1, <1>2, <1>3, <1>4 DEF ClockNumbers

LEMMA OldestGrows ==
  ASSUME ClockTypeOK, ReadingInv, [ClockNext]_clockVars
  PROVE  Oldest <= Oldest' /\ now <= now' /\ Oldest' <= now' /\ Oldest' \in Nat /\ now' \in Nat
<1>1. now \in Nat /\ reading.from \in Nat /\ reading.from <= now
  BY Numbers DEF ClockNumbers, ReadingInv
<1>2. now' \in Nat /\ reading'.from \in Nat /\ reading'.from <= now'
  <2>1. ClockTypeOK' BY ClockTypeStep
  <2>2. ReadingInv' BY ReadingStep
  <2>. QED BY <2>1, <2>2 DEF ClockTypeOK, Readings, ReadingInv
<1>3. CASE Tick
  <2>1. now' = now + 1 /\ reading' = reading BY <1>3 DEF Tick
  <2>. QED BY <1>1, <2>1 DEF Oldest
<1>4. CASE OverflowHandler
  <2>1. reading'.at = reading.at /\ reading'.from = reading.from /\ now' = now
    BY <1>4 DEF OverflowHandler, ClockTypeOK, Readings
  <2>. QED BY <1>1, <2>1 DEF Oldest
<1>5. CASE ReadCounter
  <2>1. reading.at = "none" /\ reading'.at = "counter" /\ reading'.from = now /\ now' = now
    BY <1>5 DEF ReadCounter
  <2>. QED BY <1>1, <2>1 DEF Oldest
<1>6. CASE ReadOverflows
  <2>1. /\ reading.at = "counter" /\ reading'.at = "done" /\ reading'.from = reading.from
        /\ now' = now
    BY <1>6 DEF ReadOverflows, ClockTypeOK, Readings
  <2>. QED BY <1>1, <2>1 DEF Oldest
<1>7. CASE DelayStarts \/ DelayLooks \/ TickStarts \/ TickProcessed
  <2>1. reading'.at = "none" /\ now' = now
    BY <1>7 DEF DelayStarts, DelayLooks, TickStarts, TickProcessed, Got, NoReading
  <2>2. Oldest' = now BY <2>1 DEF Oldest
  <2>. QED BY <1>1, <2>1, <2>2 DEF Oldest
<1>8. CASE Delay \/ ApplicationTick \/ TickEnds \/ UNCHANGED clockVars
  <2>1. reading' = reading /\ now' = now
    BY <1>8 DEF Delay, ApplicationTick, TickEnds, clockVars
  <2>. QED BY <1>1, <2>1 DEF Oldest
<1>. QED BY <1>3, <1>4, <1>5, <1>6, <1>7, <1>8 DEF ClockNext

LEMMA GotReading ==
  ASSUME ClockTypeOK, ReadingInv, Got, now' = now
  PROVE  /\ Oldest = reading.from /\ Oldest' = now /\ reading.from <= now
         /\ reading.wrong = 0 => reading.value = reading.from % Word
<1>1. reading.at = "done" /\ reading'.at = "none" BY DEF Got, NoReading
<1>2. reading.from \in Nat BY Numbers DEF ClockNumbers
<1>3. 0 * Period = 0 BY ClockAssumption, SMT
<1>4. reading.wrong = 0 => reading.from + reading.wrong * Period = reading.from BY <1>2, <1>3
<1>5. reading.value = (reading.from + reading.wrong * Period) % Word BY <1>1 DEF ReadingInv
<1>. QED BY <1>1, <1>4, <1>5 DEF Oldest, ReadingInv

LEMMA NoneOldest ==
  ASSUME ReadingInv, ~Wants
  PROVE  Oldest = now
BY DEF ReadingInv, Oldest

LEMMA WaitBegins ==
  ASSUME NEW ms \in Nat, Wait(ms), now' = now, now \in Nat, Oldest' = now
  PROVE  /\ WaitingInv' /\ waiting'.at = "start" /\ waiting'.from = now /\ waiting'.ms = ms
<1>1. waiting'.at = "start" /\ waiting'.from = now /\ waiting'.ms = ms BY DEF Wait, NoWait
<1>. QED BY <1>1 DEF WaitingInv

LEMMA WaitingStep ==
  ASSUME ClockTypeOK, ReadingInv, WaitingInv, [ClockNext]_clockVars
  PROVE  WaitingInv'
<1>0. ClockNumbers BY Numbers
<1>1. Oldest <= Oldest' /\ now <= now' /\ Oldest' <= now' /\ Oldest' \in Nat /\ now' \in Nat
  BY OldestGrows
<1>2. CASE UNCHANGED waiting
  <2>1. waiting'.from <= now' BY <1>0, <1>1, <1>2 DEF WaitingInv, ClockNumbers
  <2>2. waiting'.at # "done" => waiting'.from <= Oldest'
    BY <1>0, <1>1, <1>2 DEF WaitingInv, ClockNumbers
  <2>3. waiting'.at = "loop" /\ ~waiting'.wrong =>
          \E t \in Nat : waiting'.from <= t /\ t <= Oldest' /\ waiting'.start = t % Word
    <3>. SUFFICES ASSUME waiting'.at = "loop", ~waiting'.wrong
                  PROVE  \E t \in Nat : waiting'.from <= t /\ t <= Oldest' /\ waiting'.start = t % Word
      OBVIOUS
    <3>1. PICK t \in Nat : waiting.from <= t /\ t <= Oldest /\ waiting.start = t % Word
      BY <1>2 DEF WaitingInv
    <3>2. t <= Oldest' BY <3>1, <1>0, <1>1 DEF ClockNumbers
    <3>. QED BY <3>1, <3>2, <1>2
  <2>4. waiting'.at = "done" /\ ~waiting'.wrong => now' - waiting'.from >= waiting'.ms
    BY <1>0, <1>1, <1>2 DEF WaitingInv, ClockNumbers
  <2>. QED BY <2>1, <2>2, <2>3, <2>4 DEF WaitingInv
<1>3. CASE Delay
  <2>1. PICK ms \in Durations : Wait(ms) BY <1>3 DEF Delay
  <2>2. waiting.at = "done" /\ ticking.at = "done"
    BY <1>3 DEF Delay, NoWait, NoTick
  <2>3. Oldest = now BY <2>2, NoneOldest DEF Wants
  <2>4. now' = now /\ reading' = reading BY <1>3 DEF Delay
  <2>5. Oldest' = now BY <2>3, <2>4 DEF Oldest
  <2>6. now \in Nat BY <1>0 DEF ClockNumbers
  <2>. QED BY <2>1, <2>4, <2>5, <2>6, ClockAssumption, WaitBegins
<1>4. CASE DelayStarts
  <2>1. /\ Got /\ now' = now /\ waiting.at = "start"
        /\ waiting'.at = "loop" /\ waiting'.start = reading.value /\ waiting'.from = waiting.from
        /\ waiting'.wrong = (reading.wrong # 0)
    BY <1>4 DEF DelayStarts, ClockTypeOK, Waits
  <2>2. /\ Oldest = reading.from /\ Oldest' = now /\ reading.from <= now
        /\ reading.wrong = 0 => reading.value = reading.from % Word
    BY <2>1, GotReading
  <2>3. waiting.from <= reading.from BY <2>1, <2>2 DEF WaitingInv
  <2>4. waiting'.from <= Oldest' BY <2>1, <2>2, <2>3, <1>0 DEF ClockNumbers
  <2>5. ~waiting'.wrong =>
          \E t \in Nat : waiting'.from <= t /\ t <= Oldest' /\ waiting'.start = t % Word
    BY <2>1, <2>2, <2>3, <1>0 DEF ClockNumbers
  <2>. QED BY <2>1, <2>2, <2>4, <2>5 DEF WaitingInv
<1>5. CASE DelayLooks
  <2>1. /\ Got /\ now' = now /\ waiting.at = "loop"
        /\ waiting'.at = IF Since(reading.value, waiting.start) < waiting.ms THEN "loop" ELSE "done"
        /\ waiting'.from = waiting.from /\ waiting'.ms = waiting.ms
        /\ waiting'.start = waiting.start
        /\ waiting'.wrong = (waiting.wrong \/ reading.wrong # 0)
    BY <1>5 DEF DelayLooks, ClockTypeOK, Waits
  <2>2. /\ Oldest = reading.from /\ Oldest' = now /\ reading.from <= now
        /\ reading.wrong = 0 => reading.value = reading.from % Word
    BY <2>1, GotReading
  <2>3. waiting.from <= reading.from BY <2>1, <2>2 DEF WaitingInv
  <2>4. waiting'.from <= Oldest' BY <2>1, <2>2, <2>3, <1>0 DEF ClockNumbers
  <2>5. CASE waiting'.wrong BY <2>1, <2>2, <2>4, <2>5 DEF WaitingInv
  <2>6. CASE ~waiting'.wrong
    <3>1. reading.wrong = 0 /\ ~waiting.wrong BY <2>1, <2>6
    <3>2. PICK t \in Nat : waiting.from <= t /\ t <= Oldest /\ waiting.start = t % Word
      BY <2>1, <3>1 DEF WaitingInv
    <3>3. reading.value = reading.from % Word BY <2>2, <3>1
    <3>4. Since(reading.value, waiting.start) <= reading.from - t
      <4>1. Word \in Nat \ {0} /\ reading.from \in Nat BY <1>0, ClockAssumption DEF ClockNumbers
      <4>2. t <= reading.from BY <2>2, <3>2
      <4>3. ((reading.from % Word) - (t % Word)) % Word <= reading.from - t
        BY <4>1, <4>2, RemainderLag
      <4>. QED BY <3>2, <3>3, <4>3 DEF Since
    <3>5. Since(reading.value, waiting.start) \in Nat
      <4>1. reading.value - waiting.start \in Int BY <1>0 DEF ClockNumbers
      <4>. QED BY <4>1, WordSizes DEF Since
    <3>6. waiting'.at = "done" => now' - waiting'.from >= waiting'.ms
      <4>1. SUFFICES ASSUME waiting'.at = "done" PROVE now' - waiting'.from >= waiting'.ms OBVIOUS
      <4>2. ~(Since(reading.value, waiting.start) < waiting.ms) BY <4>1, <2>1
      <4>. QED BY <4>2, <2>1, <2>2, <3>2, <3>4, <3>5, <1>0 DEF ClockNumbers
    <3>7. t <= Oldest' BY <3>2, <2>2, <1>0 DEF ClockNumbers
    <3>8. \E r \in Nat : waiting'.from <= r /\ r <= Oldest' /\ waiting'.start = r % Word
      BY <3>2, <3>7, <2>1
    <3>. QED BY <2>1, <2>2, <2>4, <3>6, <3>8 DEF WaitingInv
  <2>. QED BY <2>5, <2>6
<1>6. CASE TickProcessed
  <2> DEFINE spent == Since(reading.value % Half, ticking.start)
  <2>1. /\ IF spent > WaitTicks THEN UNCHANGED waiting ELSE Wait(WaitTicks - spent)
        /\ Got /\ now' = now
    BY <1>6 DEF TickProcessed
  <2>2. spent \in Nat
    <3>1. reading.value % Half \in Nat BY <1>0, WordSizes DEF ClockNumbers
    <3>2. (reading.value % Half) - ticking.start \in Int BY <3>1, <1>0 DEF ClockNumbers
    <3>. QED BY <3>2, WordSizes DEF Since
  <2> HIDE DEF spent
  <2>3. CASE spent > WaitTicks BY <2>1, <2>3, <1>2
  <2>4. CASE ~(spent > WaitTicks)
    <3>1. WaitTicks - spent \in Nat BY <2>2, <2>4, ClockAssumption
    <3>2. Wait(WaitTicks - spent) BY <2>1, <2>4
    <3>3. Oldest' = now BY <2>1, GotReading
    <3>4. now \in Nat BY <1>0 DEF ClockNumbers
    <3>. QED BY <2>1, <3>1, <3>2, <3>3, <3>4, WaitBegins
  <2>. QED BY <2>3, <2>4
<1>7. ASSUME \/ Tick \/ OverflowHandler \/ ReadCounter \/ ReadOverflows \/ ApplicationTick
             \/ TickStarts \/ TickEnds \/ UNCHANGED clockVars
      PROVE  UNCHANGED waiting
  BY <1>7 DEF Tick, OverflowHandler, ReadCounter, ReadOverflows, ApplicationTick, TickStarts,
              TickEnds, clockVars
<1>. QED BY <1>2, <1>3, <1>4, <1>5, <1>6, <1>7 DEF ClockNext

\* two times, in the halves of a word that applicationTick keeps of them
LEMMA HalvesLag ==
  ASSUME NEW x \in Nat, NEW y \in Nat, x <= y,
         (x % Word) % Half <= (y % Word) % Half
  PROVE  Since((y % Word) % Half, (x % Word) % Half) <= y - x
<1> DEFINE a == x % Word
           b == y % Word
<1>1. Word \in Nat \ {0} /\ Half \in Nat \ {0} BY ClockAssumption
<1>2. a \in Nat /\ b \in Nat /\ b - a <= y - x /\ (b < a => b <= y - x)
  <2>1. a \in Nat /\ b \in Nat BY WordSizes
  <2>2. b - a <= y - x /\ (b < a => b <= y - x) BY <1>1, RemainderLag
  <2>. QED BY <2>1, <2>2
<1> HIDE DEF a, b
<1> DEFINE c == a % Half
           d == b % Half
<1>3. c \in Nat /\ d \in Nat /\ c <= d /\ d <= b
  BY <1>2, WordSizes DEF a, b
<1>4. a <= b => d - c <= b - a BY <1>1, <1>2, RemainderLag
<1> HIDE DEF c, d
<1>5. d - c <= y - x
  <2>1. CASE a <= b BY <2>1, <1>2, <1>3, <1>4
  <2>2. CASE ~(a <= b) BY <2>2, <1>2, <1>3
  <2>. QED BY <2>1, <2>2
<1>6. (d - c) % Word <= d - c
  <2>1. 0 % Word = 0 BY <1>1, SMT
  <2>2. d - c \in Nat BY <1>3
  <2>3. (d - c) % Word \in Nat BY <2>2, WordSizes
  <2>5. 0 \in Nat /\ 0 <= d - c BY <2>2
  <2>4. ((d - c) % Word) - (0 % Word) <= (d - c) - 0 BY <1>1, <2>2, <2>5, RemainderLag
  <2>. QED BY <2>1, <2>2, <2>3, <2>4
<1>7. (d - c) % Word \in Nat BY <1>3, WordSizes
<1>8. (d - c) % Word <= y - x BY <1>3, <1>5, <1>6, <1>7
<1>. QED BY <1>8 DEF Since, a, b, c, d

LEMMA TickingKept ==
  ASSUME ClockTypeOK, ReadingInv, TickingInv, [ClockNext]_clockVars,
         UNCHANGED <<waiting, ticking>>
  PROVE  TickingInv'
<1>0. ClockNumbers BY Numbers
<1>1. Oldest <= Oldest' /\ now <= now' /\ Oldest' <= now' /\ Oldest' \in Nat /\ now' \in Nat
  BY OldestGrows
<1>2. ticking' = ticking /\ waiting' = waiting /\ WaitedWrong' = WaitedWrong
  BY DEF WaitedWrong
<1>3. /\ ticking'.from <= now'
      /\ ticking'.at = "processed" => waiting'.at = "done"
      /\ waiting'.at = "done" /\ ticking'.at # "done" => ticking'.from <= Oldest'
  BY <1>0, <1>1, <1>2 DEF TickingInv, ClockNumbers
<1>4. /\ ticking'.at \in {"start", "end"} /\ waiting'.at # "done" /\ ~ticking'.wrong =>
            ticking'.count <= waiting'.from - ticking'.from + waiting'.ms
      /\ ticking'.at = "end" => ticking'.count >= ticking'.ms
  BY <1>2 DEF TickingInv
<1>5. /\ ticking'.at \in {"start", "end"} /\ waiting'.at = "done" /\ ~ticking'.wrong
            /\ ~WaitedWrong' => ticking'.count <= Oldest' - ticking'.from
      /\ ticking'.at = "done" /\ ~ticking'.wrong => now' - ticking'.from >= ticking'.ms
  BY <1>0, <1>1, <1>2 DEF TickingInv, ClockNumbers
<1>6. ticking'.at = "processed" /\ ~ticking'.wrong =>
          \E t \in Nat : /\ ticking'.from <= t /\ t <= Oldest'
                         /\ ticking'.start = (t % Word) % Half
                         /\ ticking'.count <= t - ticking'.from
  <2>. SUFFICES ASSUME ticking'.at = "processed", ~ticking'.wrong
                PROVE  \E t \in Nat : /\ ticking'.from <= t /\ t <= Oldest'
                                      /\ ticking'.start = (t % Word) % Half
                                      /\ ticking'.count <= t - ticking'.from
    OBVIOUS
  <2>1. PICK t \in Nat : /\ ticking.from <= t /\ t <= Oldest
                         /\ ticking.start = (t % Word) % Half
                         /\ ticking.count <= t - ticking.from
    BY <1>2 DEF TickingInv
  <2>2. t <= Oldest' BY <2>1, <1>0, <1>1 DEF ClockNumbers
  <2>. QED BY <2>1, <2>2, <1>2
<1>. QED BY <1>3, <1>4, <1>5, <1>6 DEF TickingInv

LEMMA TickStartsCounts ==
  ASSUME ClockTypeOK, ReadingInv, TickingInv, TickStarts
  PROVE  TickingInv'
<1>0. ClockNumbers BY Numbers
<1>1. /\ Got /\ now' = now /\ waiting' = waiting
      /\ ticking.at = "start" /\ waiting.at = "done" /\ ticking'.at = "processed"
      /\ ticking'.start = reading.value % Half
      /\ ticking'.from = ticking.from /\ ticking'.ms = ticking.ms /\ ticking'.count = ticking.count
      /\ ticking'.wrong = (ticking.wrong \/ reading.wrong # 0 \/ WaitedWrong)
  BY DEF TickStarts, ClockTypeOK, Ticks
<1>2. /\ Oldest = reading.from /\ Oldest' = now /\ reading.from <= now
      /\ reading.wrong = 0 => reading.value = reading.from % Word
  BY <1>1, GotReading
<1>3. ticking.from <= reading.from BY <1>1, <1>2 DEF TickingInv
<1>4. ticking'.from <= now' /\ ticking'.from <= Oldest'
  BY <1>0, <1>1, <1>2, <1>3 DEF ClockNumbers
<1>5. ~ticking'.wrong =>
          \E t \in Nat : /\ ticking'.from <= t /\ t <= Oldest'
                         /\ ticking'.start = (t % Word) % Half
                         /\ ticking'.count <= t - ticking'.from
  <2>. SUFFICES ASSUME ~ticking'.wrong
                PROVE  \E t \in Nat : /\ ticking'.from <= t /\ t <= Oldest'
                                      /\ ticking'.start = (t % Word) % Half
                                      /\ ticking'.count <= t - ticking'.from
    OBVIOUS
  <2>1. ~ticking.wrong /\ reading.wrong = 0 /\ ~WaitedWrong BY <1>1
  <2>2. ticking.count <= reading.from - ticking.from BY <1>1, <1>2, <2>1 DEF TickingInv
  <2>3. reading.from \in Nat BY <1>0 DEF ClockNumbers
  <2>4. ticking'.start = (reading.from % Word) % Half BY <1>1, <1>2, <2>1
  <2>5. ticking'.from <= reading.from /\ reading.from <= Oldest'
        /\ ticking'.count <= reading.from - ticking'.from
    BY <1>1, <1>2, <1>3, <2>2
  <2>. QED BY <2>3, <2>4, <2>5
<1>. QED BY <1>1, <1>4, <1>5 DEF TickingInv

LEMMA TickProcessedCounts ==
  ASSUME ClockTypeOK, ReadingInv, TickingInv, TickProcessed
  PROVE  TickingInv'
<1> DEFINE spent == Since(reading.value % Half, ticking.start)
           count == ticking.count + IF spent > WaitTicks THEN spent ELSE WaitTicks
<1>0. ClockNumbers BY Numbers
<1>1. /\ IF spent > WaitTicks THEN UNCHANGED waiting ELSE Wait(WaitTicks - spent)
      /\ ticking' = [ticking EXCEPT !.count = count,
           !.wrong = @ \/ reading.wrong # 0 \/ reading.value % Half < ticking.start,
           !.at = IF count < ticking.ms THEN "start" ELSE "end"]
      /\ Got /\ now' = now /\ ticking.at = "processed" /\ waiting.at = "done"
  BY DEF TickProcessed
<1>2. /\ Oldest = reading.from /\ Oldest' = now /\ reading.from <= now
      /\ reading.wrong = 0 => reading.value = reading.from % Word
  BY <1>1, GotReading
<1>3. ticking.from <= reading.from BY <1>1, <1>2 DEF TickingInv
<1>4. spent \in Nat /\ WaitTicks \in Nat
  <2>1. reading.value % Half \in Nat BY <1>0, WordSizes DEF ClockNumbers
  <2>2. (reading.value % Half) - ticking.start \in Int BY <2>1, <1>0 DEF ClockNumbers
  <2>. QED BY <2>2, WordSizes, ClockAssumption DEF Since
<1>5. ~ticking.wrong /\ reading.wrong = 0 /\ ~(reading.value % Half < ticking.start)
         => ticking.count + spent <= now - ticking.from
  <2>. SUFFICES ASSUME ~ticking.wrong, reading.wrong = 0, ~(reading.value % Half < ticking.start)
                PROVE  ticking.count + spent <= now - ticking.from
    OBVIOUS
  <2>1. PICK t \in Nat : /\ ticking.from <= t /\ t <= Oldest
                         /\ ticking.start = (t % Word) % Half
                         /\ ticking.count <= t - ticking.from
    BY <1>1 DEF TickingInv
  <2>2. reading.from \in Nat /\ reading.value = reading.from % Word /\ t <= reading.from
    BY <1>0, <1>2, <2>1 DEF ClockNumbers
  <2>3. (t % Word) % Half \in Nat /\ (reading.from % Word) % Half \in Nat
    BY <2>2, WordSizes
  <2>4. (t % Word) % Half <= (reading.from % Word) % Half BY <2>1, <2>2, <2>3
  <2>5. Since((reading.from % Word) % Half, (t % Word) % Half) <= reading.from - t
    BY <2>2, <2>4, HalvesLag
  <2>6. spent <= reading.from - t BY <2>1, <2>2, <2>5
  <2> HIDE DEF spent
  <2>. QED BY <2>1, <2>2, <2>6, <1>0, <1>2, <1>4 DEF ClockNumbers
<1> HIDE DEF spent
<1>6. count \in Nat BY <1>0, <1>4 DEF ClockNumbers
<1> HIDE DEF count
<1>7. /\ ticking'.count = count /\ ticking'.from = ticking.from /\ ticking'.ms = ticking.ms
      /\ ticking'.wrong = (ticking.wrong \/ reading.wrong # 0 \/ reading.value % Half < ticking.start)
      /\ ticking'.at = IF count < ticking.ms THEN "start" ELSE "end"
  BY <1>1 DEF ClockTypeOK, Ticks
<1>8. ticking'.at \in {"start", "end"} /\ (ticking'.at = "end" => ticking'.count >= ticking'.ms)
  BY <1>7, <1>6, <1>0 DEF ClockNumbers
<1>9. ticking'.from <= now' /\ ticking'.from <= Oldest'
  BY <1>7, <1>3, <1>2, <1>1, <1>0 DEF ClockNumbers
<1>10. CASE spent > WaitTicks
  <2>1. waiting' = waiting /\ count = ticking.count + spent BY <1>1, <1>10 DEF count
  <2>2. ~ticking'.wrong => ticking'.count <= Oldest' - ticking'.from
    BY <2>1, <1>5, <1>7, <1>2
  <2>. QED BY <2>1, <2>2, <1>8, <1>9, <1>1 DEF TickingInv
<1>11. CASE ~(spent > WaitTicks)
  <2>1. Wait(WaitTicks - spent) /\ count = ticking.count + WaitTicks BY <1>1, <1>11 DEF count
  <2>2. waiting'.at = "start" /\ waiting'.from = now /\ waiting'.ms = WaitTicks - spent
    BY <2>1 DEF Wait, NoWait
  <2>3. ~ticking'.wrong => ticking'.count <= waiting'.from - ticking'.from + waiting'.ms
    <3>. SUFFICES ASSUME ~ticking'.wrong
                  PROVE  ticking'.count <= waiting'.from - ticking'.from + waiting'.ms
      OBVIOUS
    <3>1. ticking.count + spent <= now - ticking.from BY <1>5, <1>7
    <3>2. ticking'.count = ticking.count + WaitTicks /\ ticking'.from = ticking.from BY <2>1, <1>7
    <3>. QED BY <3>1, <3>2, <2>2, <1>4, <1>0 DEF ClockNumbers
  <2>. QED BY <2>2, <2>3, <1>8, <1>9 DEF TickingInv
<1>. QED BY <1>10, <1>11

LEMMA DelayLooksCounts ==
  ASSUME ClockTypeOK, ReadingInv, WaitingInv, TickingInv, DelayLooks
  PROVE  TickingInv'
<1>0. ClockNumbers BY Numbers
<1>1. /\ Got /\ now' = now /\ ticking' = ticking /\ waiting.at = "loop"
      /\ waiting'.at \in {"loop", "done"}
      /\ waiting'.from = waiting.from /\ waiting'.ms = waiting.ms
  BY DEF DelayLooks, ClockTypeOK, Waits
<1>2. Oldest' = now BY <1>1, GotReading
<1>3. WaitingInv'
  <2>1. [ClockNext]_clockVars BY DEF ClockNext
  <2>. QED BY <2>1, WaitingStep
<1>4. ticking.at # "processed" /\ ticking.from <= now /\ waiting.from <= now
  BY <1>1 DEF TickingInv, WaitingInv
<1>5. ticking.at \in {"start", "end"} /\ ~ticking.wrong =>
         ticking.count <= waiting.from - ticking.from + waiting.ms
  BY <1>1 DEF TickingInv
<1>6. CASE waiting'.at = "loop"
  BY <1>1, <1>2, <1>4, <1>5, <1>6 DEF TickingInv
<1>7. CASE waiting'.at = "done"
  <2>1. ticking'.at \in {"start", "end"} /\ ~ticking'.wrong /\ ~WaitedWrong' =>
           ticking'.count <= Oldest' - ticking'.from
    <3>. SUFFICES ASSUME ticking'.at \in {"start", "end"}, ~ticking'.wrong, ~WaitedWrong'
                  PROVE  ticking'.count <= Oldest' - ticking'.from
      OBVIOUS
    <3>1. ticking.count <= waiting.from - ticking.from + waiting.ms BY <1>1, <1>5
    <3>2. CASE ticking.count > 0
      <4>1. ~waiting'.wrong BY <3>2, <1>1 DEF WaitedWrong
      <4>2. now - waiting.from >= waiting.ms BY <4>1, <1>1, <1>3, <1>7 DEF WaitingInv
      <4>. QED BY <4>2, <3>1, <1>0, <1>1, <1>2 DEF ClockNumbers
    <3>3. CASE ~(ticking.count > 0)
      <4>1. ticking.count = 0 BY <3>3, <1>0 DEF ClockNumbers
      <4>. QED BY <4>1, <1>0, <1>1, <1>2, <1>4 DEF ClockNumbers
    <3>. QED BY <3>2, <3>3
  <2>. QED BY <2>1, <1>1, <1>2, <1>4, <1>7 DEF TickingInv
<1>. QED BY <1>1, <1>6, <1>7

LEMMA TickingStep ==
  ASSUME ClockTypeOK, ReadingInv, WaitingInv, TickingInv, [ClockNext]_clockVars
  PROVE  TickingInv'
<1>0. ClockNumbers BY Numbers
<1>1. Oldest <= Oldest' /\ now <= now' /\ Oldest' <= now' /\ Oldest' \in Nat /\ now' \in Nat
  BY OldestGrows
<1>2. CASE UNCHANGED <<waiting, ticking>> BY <1>2, TickingKept
<1>3. CASE Delay
  <2>1. ticking.at = "done" /\ ticking' = ticking /\ now' = now
    BY <1>3 DEF Delay, NoTick
  <2>. QED BY <2>1 DEF TickingInv
<1>4. CASE DelayStarts
  <2>1. /\ Got /\ now' = now /\ ticking' = ticking /\ waiting.at = "start" /\ waiting'.at = "loop"
        /\ waiting'.from = waiting.from /\ waiting'.ms = waiting.ms
    BY <1>4 DEF DelayStarts, ClockTypeOK, Waits
  <2>. QED BY <2>1 DEF TickingInv
<1>5. CASE DelayLooks BY <1>5, DelayLooksCounts
<1>6. CASE ApplicationTick
  <2>1. /\ waiting.at = "done" /\ ticking.at = "done" /\ waiting' = waiting
        /\ now' = now /\ reading' = reading
    BY <1>6 DEF ApplicationTick, NoWait, NoTick
  <2>2. ticking'.at = "start" /\ ticking'.from = now /\ ticking'.count = 0
    BY <1>6 DEF ApplicationTick, NoTick
  <2>3. Oldest = now BY <2>1, NoneOldest DEF Wants
  <2>4. Oldest' = now BY <2>1, <2>3 DEF Oldest
  <2>5. ticking'.count <= Oldest' - ticking'.from /\ ticking'.from <= now'
        /\ ticking'.from <= Oldest'
    BY <2>1, <2>2, <2>4, <1>0 DEF ClockNumbers
  <2>. QED BY <2>1, <2>2, <2>5 DEF TickingInv
<1>7. CASE TickStarts BY <1>7, TickStartsCounts
<1>8. CASE TickProcessed BY <1>8, TickProcessedCounts
<1>9. CASE TickEnds
  <2>1. /\ ticking.at = "end" /\ waiting.at = "done" /\ waiting' = waiting /\ now' = now
        /\ ticking'.at = "done" /\ ticking'.from = ticking.from /\ ticking'.ms = ticking.ms
        /\ ticking'.wrong = (ticking.wrong \/ WaitedWrong)
    BY <1>9 DEF TickEnds, ClockTypeOK, Ticks
  <2>2. Oldest <= now BY <1>0 DEF Oldest, ReadingInv, ClockNumbers
  <2>3. ~ticking'.wrong => now' - ticking'.from >= ticking'.ms
    <3>. SUFFICES ASSUME ~ticking'.wrong PROVE now' - ticking'.from >= ticking'.ms OBVIOUS
    <3>1. ~ticking.wrong /\ ~WaitedWrong BY <2>1
    <3>2. ticking.count <= Oldest - ticking.from /\ ticking.count >= ticking.ms
      BY <2>1, <3>1 DEF TickingInv
    <3>. QED BY <2>1, <2>2, <3>2, <1>0 DEF ClockNumbers
  <2>. QED BY <2>1, <2>3 DEF TickingInv
<1>10. ASSUME \/ Tick \/ OverflowHandler \/ ReadCounter \/ ReadOverflows \/ UNCHANGED clockVars
       PROVE  UNCHANGED <<waiting, ticking>>
  BY <1>10 DEF Tick, OverflowHandler, ReadCounter, ReadOverflows, clockVars
<1>. QED BY <1>2, <1>3, <1>4, <1>5, <1>6, <1>7, <1>8, <1>9, <1>10 DEF ClockNext

-----------------------------------------------------------------------------
(* A reading is the time, or a period off in the two ways that the two     *)
(* reads can fall around an overflow; delay and applicationTick never end  *)
(* early but for that, and for the 16 bits of applicationTick.             *)
THEOREM WaitsLongEnoughAlways == ClockSpec => []WaitsLongEnough
<1>1. ClockInit => ClockInv BY ClockInvInit
<1>2. ClockInv /\ [ClockNext]_clockVars => ClockInv'
  <2>. SUFFICES ASSUME ClockInv, [ClockNext]_clockVars PROVE ClockInv' OBVIOUS
  <2>1. ClockTypeOK /\ ReadingInv /\ WaitingInv /\ TickingInv BY DEF ClockInv
  <2>2. ClockTypeOK' BY <2>1, ClockTypeStep
  <2>3. ReadingInv' BY <2>1, ReadingStep
  <2>4. WaitingInv' BY <2>1, WaitingStep
  <2>5. TickingInv' BY <2>1, TickingStep
  <2>. QED BY <2>2, <2>3, <2>4, <2>5 DEF ClockInv
<1>3. ClockInv => WaitsLongEnough BY ClockInvImplies
<1>. QED BY <1>1, <1>2, <1>3, PTL DEF ClockSpec

-----------------------------------------------------------------------------
(* Start-up: StartsInOrder.                                                *)

Steps == {"constructors", "button", "eventManager", "lfclk", "timersInit", "timersStart", "stack",
          "ble", "handlers", "gap", "service", "rxChar", "txChar", "advdata", "connParams",
          "secParams", "session", "listener", "advertising", "add", "loop"}

\* the place of a step after the constructors
Rank(step) ==
    CASE step = "lfclk"       -> 1   [] step = "timersInit" -> 2
      [] step = "timersStart" -> 3   [] step = "stack"      -> 4
      [] step = "ble"         -> 5   [] step = "handlers"   -> 6
      [] step = "gap"         -> 7   [] step = "service"    -> 8
      [] step = "rxChar"      -> 9   [] step = "txChar"     -> 10
      [] step = "advdata"     -> 11  [] step = "connParams" -> 12
      [] step = "secParams"   -> 13  [] step = "session"    -> 14
      [] step = "listener"    -> 15  [] step = "advertising" -> 16
      [] step = "add"         -> 17  [] step = "loop"       -> 18
      [] OTHER -> 0

BootTypeOK ==
    /\ bootStep \in Steps
    /\ eventManagerFirst \in BOOLEAN /\ armed \in BOOLEAN /\ listening \in BOOLEAN
    /\ listed \in Seq({"button", "ledActivator"})
    /\ sched \in [size : Nat, events : Seq({"edge", "radio"})]
    /\ heard \in Seq({"edge", "radio"})
    /\ edges \in Nat /\ radio \in Nat
    /\ bootHalt \notin {"sequence", "timer"}

(* Each step of the set-up has given what the later ones need.             *)
GivenInv ==
    /\ bootHalt = "no" =>
          /\ Rank(bootStep) > 2 => "timers" \in rtc
          /\ Rank(bootStep) > 4 => "enabled" \in softdevice
          /\ Rank(bootStep) > 5 => "ble" \in softdevice
          /\ Rank(bootStep) > 6 => "handlers" \in softdevice
          /\ Rank(bootStep) > 7 => "gap" \in softdevice
          /\ Rank(bootStep) > 8 => {"uuid", "service"} \subseteq softdevice
          /\ Rank(bootStep) > 9 => "rxChar" \in softdevice
          /\ Rank(bootStep) > 10 => "txChar" \in softdevice
          /\ Rank(bootStep) > 11 => "advdata" \in softdevice
          /\ Rank(bootStep) > 12 => "connParams" \in softdevice
          /\ Rank(bootStep) > 13 => "secParams" \in softdevice
          /\ Rank(bootStep) > 15 => listening
    /\ "advertising" \in softdevice => Ready

\* the event manager's constructor has run
Built == IF eventManagerFirst THEN bootStep # "constructors"
                              ELSE bootStep \notin {"constructors", "eventManager"}
Listens == \E i \in 1 .. Len(listed) : listed[i] = "button"
Holds(s, e) == \E i \in 1 .. Len(s) : s[i] = e

(* Who can have put what into the queue.                                   *)
QueueInv ==
    /\ Built => sched.size = QueueSize
    /\ ~Built => /\ sched = Unready /\ softdevice = {} /\ radio = 0 /\ heard = <<>>
                 /\ eventManagerFirst => ~armed /\ edges = 0
    /\ Holds(sched.events, "radio") => Ready
    /\ eventManagerFirst /\ armed => Listens
    /\ eventManagerFirst /\ Holds(sched.events, "edge") => Listens
    /\ ~eventManagerFirst /\ Built =>
          ~Listens /\ ~Holds(sched.events, "edge") /\ ~Holds(heard, "edge")
    /\ Len(sched.events) <= edges + radio
    /\ bootHalt = "queue" => edges + radio > QueueSize \/ ~eventManagerFirst

Counted(e) == Count(heard, e) + Count(sched.events, e)

CountInv ==
    bootHalt # "queue" =>
        /\ Counted("radio") = radio
        /\ eventManagerFirst => Counted("edge") = edges

BootInv == BootTypeOK /\ GivenInv /\ QueueInv /\ CountInv

LEMMA RankValues ==
    /\ Rank("constructors") = 0 /\ Rank("button") = 0 /\ Rank("eventManager") = 0
    /\ Rank("lfclk") = 1 /\ Rank("timersInit") = 2 /\ Rank("timersStart") = 3
    /\ Rank("stack") = 4 /\ Rank("ble") = 5 /\ Rank("handlers") = 6 /\ Rank("gap") = 7
    /\ Rank("service") = 8 /\ Rank("rxChar") = 9 /\ Rank("txChar") = 10 /\ Rank("advdata") = 11
    /\ Rank("connParams") = 12 /\ Rank("secParams") = 13 /\ Rank("session") = 14
    /\ Rank("listener") = 15 /\ Rank("advertising") = 16 /\ Rank("add") = 17 /\ Rank("loop") = 18
  BY DEF Rank

\* counting in a sequence to which an element is appended, or whose first is taken
LEMMA CountsAppended ==
    ASSUME NEW S, NEW s \in Seq(S), NEW x \in S, NEW e
    PROVE  /\ Count(s, e) \in Nat
           /\ Count(Append(s, x), e) = Count(s, e) + IF x = e THEN 1 ELSE 0
  <1> DEFINE T(c) == {i \in 1 .. Len(c) : c[i] = e}
  <1>1. /\ Len(s) \in Nat /\ Len(Append(s, x)) = Len(s) + 1
        /\ Append(s, x)[Len(s) + 1] = x
        /\ \A i \in 1 .. Len(s) : Append(s, x)[i] = s[i]
    OBVIOUS
  <1>2. IsFiniteSet(T(s))
    <2>1. IsFiniteSet(1 .. Len(s))
      BY <1>1, FS_Interval
    <2>2. QED
      BY <2>1, FS_Subset
  <1>3. Cardinality(T(s)) \in Nat
    BY <1>2, FS_CardinalityType
  <1>4. x = e => T(Append(s, x)) = T(s) \union {Len(s) + 1}
    BY <1>1
  <1>5. x # e => T(Append(s, x)) = T(s)
    BY <1>1
  <1>6. Len(s) + 1 \notin T(s)
    BY <1>1
  <1> HIDE DEF T
  <1>7. Cardinality(T(s) \union {Len(s) + 1}) = Cardinality(T(s)) + 1
    BY <1>2, <1>6, FS_AddElement
  <1>8. Count(s, e) = Cardinality(T(s)) /\ Count(Append(s, x), e) = Cardinality(T(Append(s, x)))
    BY DEF Count, T
  <1>9. CASE x = e
    BY <1>3, <1>4, <1>7, <1>8, <1>9
  <1>10. CASE x # e
    BY <1>3, <1>5, <1>8, <1>10
  <1>11. QED
    BY <1>9, <1>10

LEMMA CountsTail ==
    ASSUME NEW S, NEW s \in Seq(S), s # <<>>, NEW e
    PROVE  /\ Count(s, e) \in Nat /\ Count(Tail(s), e) \in Nat
           /\ Count(s, e) = Count(Tail(s), e) + IF Head(s) = e THEN 1 ELSE 0
  <1> DEFINE t == Tail(s)
             T == {i \in 1 .. Len(t) : t[i] = e}
             U == {i \in 2 .. Len(s) : s[i] = e}
             V == {i \in 1 .. Len(s) : s[i] = e}
  <1>1. /\ Len(s) \in Nat /\ Len(s) >= 1 /\ Len(t) = Len(s) - 1
        /\ Head(s) = s[1]
        /\ \A i \in 1 .. Len(t) : t[i] = s[i + 1]
    OBVIOUS
  <1> HIDE DEF t
  <1>2. IsFiniteSet(T) /\ IsFiniteSet(U) /\ IsFiniteSet(V)
    <2>1. IsFiniteSet(1 .. Len(s)) /\ IsFiniteSet(1 .. Len(t)) /\ IsFiniteSet(2 .. Len(s))
      BY <1>1, FS_Interval
    <2>2. QED
      BY <2>1, FS_Subset
  <1>3. Cardinality(U) = Cardinality(T)
    <2> DEFINE f == [i \in T |-> i + 1]
    <2>1. f \in [T -> U]
      BY <1>1
    <2>2. \A a, b \in T : f[a] = f[b] => a = b
      BY <1>1
    <2>3. \A u \in U : \E a \in T : f[a] = u
      <3> SUFFICES ASSUME NEW u \in U PROVE u - 1 \in T /\ f[u - 1] = u
        OBVIOUS
      <3>1. u - 1 \in 1 .. Len(t) /\ (u - 1) + 1 = u
        BY <1>1
      <3>2. t[u - 1] = e
        BY <1>1, <3>1
      <3>3. QED
        BY <3>1, <3>2
    <2> HIDE DEF f, T, U
    <2>4. f \in Bijection(T, U)
      BY <2>1, <2>2, <2>3 DEF Bijection, Injection, Surjection, IsInjective
    <2>5. QED
      BY <1>2, <2>4, FS_Bijection DEF ExistsBijection
  <1>4. Head(s) = e => V = U \union {1}
    BY <1>1
  <1>5. Head(s) # e => V = U
    BY <1>1
  <1>6. 1 \notin U
    OBVIOUS
  <1>7. Cardinality(T) \in Nat /\ Cardinality(U) \in Nat /\ Cardinality(V) \in Nat
    BY <1>2, FS_CardinalityType
  <1>8. Count(s, e) = Cardinality(V) /\ Count(t, e) = Cardinality(T)
    BY DEF Count
  <1> HIDE DEF T, U, V
  <1>9. Cardinality(U \union {1}) = Cardinality(U) + 1
    BY <1>2, <1>6, FS_AddElement
  <1>10. /\ Count(t, e) \in Nat
         /\ Count(s, e) = Count(t, e) + IF Head(s) = e THEN 1 ELSE 0
    <2>1. CASE Head(s) = e
      BY <1>3, <1>4, <1>7, <1>8, <1>9, <2>1
    <2>2. CASE Head(s) # e
      BY <1>3, <1>5, <1>7, <1>8, <2>2
    <2>3. QED
      BY <2>1, <2>2
  <1>11. QED
    BY <1>7, <1>8, <1>10 DEF t

LEMMA CountsNone ==
    ASSUME NEW s, NEW e, ~Holds(s, e)
    PROVE  Count(s, e) = 0
  <1>1. {i \in 1 .. Len(s) : s[i] = e} = {}
    BY DEF Holds
  <1>2. QED
    BY <1>1, FS_EmptySet DEF Count

LEMMA BootInvImplies == BootInv => StartsInOrder
  <1> SUFFICES ASSUME BootInv PROVE StartsInOrder
    OBVIOUS
  <1>t. BootTypeOK /\ QueueInv /\ CountInv
    BY DEF BootInv
  <1>1. bootHalt \notin {"sequence", "timer"} /\ eventManagerFirst \in BOOLEAN
    BY <1>t DEF BootTypeOK
  <1>2. bootHalt = "queue" => edges + radio > QueueSize \/ ~eventManagerFirst
    BY <1>t DEF QueueInv
  <1>3. \A i \in 1 .. Len(heard) : heard[i] # "nobody"
    BY <1>t DEF BootTypeOK
  <1>4. bootHalt # "queue" => Count(heard, "radio") + Count(sched.events, "radio") = radio
    BY <1>t DEF CountInv, Counted
  <1>5. eventManagerFirst /\ bootHalt # "queue" =>
           Count(heard, "edge") + Count(sched.events, "edge") = edges
    BY <1>t DEF CountInv, Counted
  <1>6. ASSUME ~eventManagerFirst, bootStep \notin {"constructors", "eventManager"}
        PROVE  (\A i \in 1 .. Len(listed) : listed[i] # "button") /\ Count(heard, "edge") = 0
    <2>1. ~Listens /\ ~Holds(heard, "edge")
      BY <1>t, <1>6 DEF QueueInv, Built
    <2>2. QED
      BY <2>1, CountsNone DEF Listens
  <1>7. QED
    BY <1>1, <1>2, <1>3, <1>4, <1>5, <1>6 DEF StartsInOrder

LEMMA BootInvInit == StartupInit => BootInv
  <1> SUFFICES ASSUME StartupInit PROVE BootInv
    OBVIOUS
  <1>1. /\ bootStep = "constructors" /\ eventManagerFirst \in BOOLEAN
        /\ listed = <<>> /\ sched = Unready /\ armed = FALSE
        /\ softdevice = {} /\ listening = FALSE
        /\ bootHalt = "no" /\ edges = 0 /\ radio = 0 /\ heard = <<>>
    BY DEF StartupInit
  <1>2. sched.events = <<>> /\ sched.size = 0 /\ Len(<<>>) = 0
    BY <1>1 DEF Unready
  <1>3. BootTypeOK
    <2>1. \A S : <<>> \in Seq(S)
      BY EmptySeq
    <2>2. sched \in [size : Nat, events : Seq({"edge", "radio"})]
      BY <1>1, <2>1 DEF Unready
    <2>3. QED
      BY <1>1, <2>1, <2>2 DEF BootTypeOK, Steps
  <1>4. GivenInv
    BY <1>1, RankValues DEF GivenInv
  <1>5. /\ ~Holds(heard, "edge") /\ ~Holds(heard, "radio")
        /\ ~Holds(sched.events, "edge") /\ ~Holds(sched.events, "radio")
    BY <1>1, <1>2 DEF Holds
  <1>6. QueueInv
    BY <1>1, <1>2, <1>5 DEF QueueInv, Built
  <1>7. CountInv
    <2>1. Counted("edge") = 0 /\ Counted("radio") = 0
      BY <1>5, CountsNone DEF Counted
    <2>2. QED
      BY <1>1, <2>1 DEF CountInv
  <1>8. QED
    BY <1>3, <1>4, <1>6, <1>7 DEF BootInv

-----------------------------------------------------------------------------
(* The steps.                                                              *)

\* a step that leaves the queue and the listeners alone
QuietStep ==
    UNCHANGED <<eventManagerFirst, listed, sched, armed, edges, radio, heard>>

LEMMA QuietKeeps ==
    ASSUME BootTypeOK, QueueInv, CountInv, QuietStep, Built, Built', Ready => Ready',
           bootHalt = "no", bootHalt' # "queue"
    PROVE  QueueInv' /\ CountInv'
  <1>1. /\ eventManagerFirst' = eventManagerFirst /\ listed' = listed /\ sched' = sched
        /\ armed' = armed /\ edges' = edges /\ radio' = radio /\ heard' = heard
    BY DEF QuietStep
  <1>2. /\ Listens' = Listens /\ \A e : Holds(heard, e)' = Holds(heard, e)
        /\ \A e : Holds(sched.events, e)' = Holds(sched.events, e)
    BY <1>1 DEF Listens, Holds
  <1>3. QueueInv'
    BY <1>1, <1>2 DEF QueueInv
  <1>4. CountInv'
    BY <1>1 DEF CountInv, Counted
  <1>5. QED
    BY <1>3, <1>4

\* what Asks does when the SoftDevice has what the call needs
LEMMA AskEffect ==
    ASSUME NEW step, NEW next, NEW items, NEW needs, Asks(step, next, items, needs),
           needs \subseteq softdevice, Rank(step) > 0, Rank(next) > 0, next \in Steps,
           step \notin {"queue", "sequence", "timer", "no"}, BootInv,
           "advertising" \in items => Ready
    PROVE  /\ bootHalt = "no" /\ bootStep = step /\ bootStep' = next
           /\ UNCHANGED <<rtc, listening>>
           /\ softdevice \subseteq softdevice'
           /\ bootHalt' = "no" => items \subseteq softdevice'
           /\ BootTypeOK' /\ QueueInv' /\ CountInv'
           /\ "advertising" \in softdevice' => Ready'
  <1>t. BootTypeOK /\ GivenInv /\ QueueInv /\ CountInv
    BY DEF BootInv
  <1>1. /\ bootHalt = "no" /\ bootStep = step /\ bootStep' = next
        /\ QuietStep /\ UNCHANGED <<rtc, listening>>
        /\ Gives(items, needs, step)
    BY DEF Asks, Boots, QuietStep
  <1>2. \/ softdevice' = softdevice \union items /\ bootHalt' = "no"
        \/ softdevice' = softdevice /\ bootHalt' = step
    BY <1>1 DEF Gives
  <1>3. Ready => Ready'
    BY <1>1, <1>2 DEF Ready
  <1>4. Built /\ Built'
    BY <1>1, RankValues DEF Built
  <1>5. BootTypeOK'
    BY <1>t, <1>1, <1>2 DEF BootTypeOK, QuietStep
  <1>6. QueueInv' /\ CountInv'
    BY <1>t, <1>1, <1>2, <1>3, <1>4, QuietKeeps
  <1>7. "advertising" \in softdevice' => Ready'
    BY <1>t, <1>2, <1>3 DEF GivenInv
  <1>8. QED
    BY <1>1, <1>2, <1>5, <1>6, <1>7

(* The calls of the SoftDevice: each finds what it needs.                  *)
LEMMA AsksKeep ==
    ASSUME BootInv,
           \/ SoftdeviceHandlerInit \/ BleEnable \/ GapParamsInit \/ ServicesInit
           \/ AdvertisingInit \/ ConnParamsInit \/ SerialBegin \/ StartAdvertising
    PROVE  BootInv'
  <1>t. GivenInv /\ \A step, next, items, needs : Asks(step, next, items, needs) =>
                        bootStep = step /\ bootHalt = "no"
    BY DEF BootInv, Asks, Boots
  <1> SUFFICES GivenInv' /\ BootTypeOK' /\ QueueInv' /\ CountInv'
    BY DEF BootInv
  <1>1. CASE SoftdeviceHandlerInit
    <2>1. Asks("stack", "ble", {"enabled", "swi2"}, {})
      BY <1>1 DEF SoftdeviceHandlerInit
    <2>2. bootStep = "stack" /\ bootHalt = "no" /\ Rank("stack") > 0 /\ Rank("ble") > 0
      BY <1>t, <2>1, RankValues
    <2>3. {} \subseteq softdevice
      BY <1>t, <2>2, RankValues DEF GivenInv
    <2>4. "advertising" \in {"enabled", "swi2"} => Ready
      BY <1>t, <2>2, RankValues DEF GivenInv, Ready
    <2>5. "stack" \notin {"queue", "sequence", "timer", "no"} /\ "ble" \in Steps
      BY DEF Steps
    <2>6. /\ bootStep' = "ble" /\ UNCHANGED <<rtc, listening>> /\ softdevice \subseteq softdevice'
          /\ bootHalt' = "no" => {"enabled", "swi2"} \subseteq softdevice'
          /\ BootTypeOK' /\ QueueInv' /\ CountInv'
          /\ "advertising" \in softdevice' => Ready'
      BY <2>1, <2>2, <2>3, <2>4, <2>5, AskEffect
    <2>7. GivenInv'
      BY <1>t, <2>2, <2>6, RankValues DEF GivenInv
    <2>8. QED
      BY <2>6, <2>7
  <1>2. CASE BleEnable
    <2>1. Asks("ble", "handlers", {"ble"}, {"enabled"})
      BY <1>2 DEF BleEnable
    <2>2. bootStep = "ble" /\ bootHalt = "no" /\ Rank("ble") > 0 /\ Rank("handlers") > 0
      BY <1>t, <2>1, RankValues
    <2>3. {"enabled"} \subseteq softdevice
      BY <1>t, <2>2, RankValues DEF GivenInv
    <2>4. "advertising" \in {"ble"} => Ready
      BY <1>t, <2>2, RankValues DEF GivenInv, Ready
    <2>5. "ble" \notin {"queue", "sequence", "timer", "no"} /\ "handlers" \in Steps
      BY DEF Steps
    <2>6. /\ bootStep' = "handlers" /\ UNCHANGED <<rtc, listening>> /\ softdevice \subseteq softdevice'
          /\ bootHalt' = "no" => {"ble"} \subseteq softdevice'
          /\ BootTypeOK' /\ QueueInv' /\ CountInv'
          /\ "advertising" \in softdevice' => Ready'
      BY <2>1, <2>2, <2>3, <2>4, <2>5, AskEffect
    <2>7. GivenInv'
      BY <1>t, <2>2, <2>6, RankValues DEF GivenInv
    <2>8. QED
      BY <2>6, <2>7
  <1>3. CASE GapParamsInit
    <2>1. Asks("gap", "service", {"gap"}, {"ble"})
      BY <1>3 DEF GapParamsInit
    <2>2. bootStep = "gap" /\ bootHalt = "no" /\ Rank("gap") > 0 /\ Rank("service") > 0
      BY <1>t, <2>1, RankValues
    <2>3. {"ble"} \subseteq softdevice
      BY <1>t, <2>2, RankValues DEF GivenInv
    <2>4. "advertising" \in {"gap"} => Ready
      BY <1>t, <2>2, RankValues DEF GivenInv, Ready
    <2>5. "gap" \notin {"queue", "sequence", "timer", "no"} /\ "service" \in Steps
      BY DEF Steps
    <2>6. /\ bootStep' = "service" /\ UNCHANGED <<rtc, listening>> /\ softdevice \subseteq softdevice'
          /\ bootHalt' = "no" => {"gap"} \subseteq softdevice'
          /\ BootTypeOK' /\ QueueInv' /\ CountInv'
          /\ "advertising" \in softdevice' => Ready'
      BY <2>1, <2>2, <2>3, <2>4, <2>5, AskEffect
    <2>7. GivenInv'
      BY <1>t, <2>2, <2>6, RankValues DEF GivenInv
    <2>8. QED
      BY <2>6, <2>7
  <1>4. CASE NusInit
    <2>1. Asks("service", "rxChar", {"uuid", "service"}, {"ble"})
      BY <1>4 DEF NusInit
    <2>2. bootStep = "service" /\ bootHalt = "no" /\ Rank("service") > 0 /\ Rank("rxChar") > 0
      BY <1>t, <2>1, RankValues
    <2>3. {"ble"} \subseteq softdevice
      BY <1>t, <2>2, RankValues DEF GivenInv
    <2>4. "advertising" \in {"uuid", "service"} => Ready
      BY <1>t, <2>2, RankValues DEF GivenInv, Ready
    <2>5. "service" \notin {"queue", "sequence", "timer", "no"} /\ "rxChar" \in Steps
      BY DEF Steps
    <2>6. /\ bootStep' = "rxChar" /\ UNCHANGED <<rtc, listening>> /\ softdevice \subseteq softdevice'
          /\ bootHalt' = "no" => {"uuid", "service"} \subseteq softdevice'
          /\ BootTypeOK' /\ QueueInv' /\ CountInv'
          /\ "advertising" \in softdevice' => Ready'
      BY <2>1, <2>2, <2>3, <2>4, <2>5, AskEffect
    <2>7. GivenInv'
      BY <1>t, <2>2, <2>6, RankValues DEF GivenInv
    <2>8. QED
      BY <2>6, <2>7
  <1>5. CASE RxCharAdd
    <2>1. Asks("rxChar", "txChar", {"rxChar"}, {"uuid", "service"})
      BY <1>5 DEF RxCharAdd
    <2>2. bootStep = "rxChar" /\ bootHalt = "no" /\ Rank("rxChar") > 0 /\ Rank("txChar") > 0
      BY <1>t, <2>1, RankValues
    <2>3. {"uuid", "service"} \subseteq softdevice
      BY <1>t, <2>2, RankValues DEF GivenInv
    <2>4. "advertising" \in {"rxChar"} => Ready
      BY <1>t, <2>2, RankValues DEF GivenInv, Ready
    <2>5. "rxChar" \notin {"queue", "sequence", "timer", "no"} /\ "txChar" \in Steps
      BY DEF Steps
    <2>6. /\ bootStep' = "txChar" /\ UNCHANGED <<rtc, listening>> /\ softdevice \subseteq softdevice'
          /\ bootHalt' = "no" => {"rxChar"} \subseteq softdevice'
          /\ BootTypeOK' /\ QueueInv' /\ CountInv'
          /\ "advertising" \in softdevice' => Ready'
      BY <2>1, <2>2, <2>3, <2>4, <2>5, AskEffect
    <2>7. GivenInv'
      BY <1>t, <2>2, <2>6, RankValues DEF GivenInv
    <2>8. QED
      BY <2>6, <2>7
  <1>6. CASE TxCharAdd
    <2>1. Asks("txChar", "advdata", {"txChar"}, {"uuid", "service"})
      BY <1>6 DEF TxCharAdd
    <2>2. bootStep = "txChar" /\ bootHalt = "no" /\ Rank("txChar") > 0 /\ Rank("advdata") > 0
      BY <1>t, <2>1, RankValues
    <2>3. {"uuid", "service"} \subseteq softdevice
      BY <1>t, <2>2, RankValues DEF GivenInv
    <2>4. "advertising" \in {"txChar"} => Ready
      BY <1>t, <2>2, RankValues DEF GivenInv, Ready
    <2>5. "txChar" \notin {"queue", "sequence", "timer", "no"} /\ "advdata" \in Steps
      BY DEF Steps
    <2>6. /\ bootStep' = "advdata" /\ UNCHANGED <<rtc, listening>> /\ softdevice \subseteq softdevice'
          /\ bootHalt' = "no" => {"txChar"} \subseteq softdevice'
          /\ BootTypeOK' /\ QueueInv' /\ CountInv'
          /\ "advertising" \in softdevice' => Ready'
      BY <2>1, <2>2, <2>3, <2>4, <2>5, AskEffect
    <2>7. GivenInv'
      BY <1>t, <2>2, <2>6, RankValues DEF GivenInv
    <2>8. QED
      BY <2>6, <2>7
  <1>7. CASE AdvertisingInit
    <2>1. Asks("advdata", "connParams", {"advdata"}, {"gap", "uuid"})
      BY <1>7 DEF AdvertisingInit
    <2>2. bootStep = "advdata" /\ bootHalt = "no" /\ Rank("advdata") > 0 /\ Rank("connParams") > 0
      BY <1>t, <2>1, RankValues
    <2>3. {"gap", "uuid"} \subseteq softdevice
      BY <1>t, <2>2, RankValues DEF GivenInv
    <2>4. "advertising" \in {"advdata"} => Ready
      BY <1>t, <2>2, RankValues DEF GivenInv, Ready
    <2>5. "advdata" \notin {"queue", "sequence", "timer", "no"} /\ "connParams" \in Steps
      BY DEF Steps
    <2>6. /\ bootStep' = "connParams" /\ UNCHANGED <<rtc, listening>> /\ softdevice \subseteq softdevice'
          /\ bootHalt' = "no" => {"advdata"} \subseteq softdevice'
          /\ BootTypeOK' /\ QueueInv' /\ CountInv'
          /\ "advertising" \in softdevice' => Ready'
      BY <2>1, <2>2, <2>3, <2>4, <2>5, AskEffect
    <2>7. GivenInv'
      BY <1>t, <2>2, <2>6, RankValues DEF GivenInv
    <2>8. QED
      BY <2>6, <2>7
  <1>8. CASE ConnParamsInit
    <2>1. Asks("connParams", "secParams", {"connParams"}, {"gap"})
      <3>1. bootStep = "connParams" /\ bootHalt = "no"
        BY <1>8, <1>t DEF ConnParamsInit, Asks, Boots
      <3>2. "timers" \in rtc
        BY <3>1, <1>t, RankValues DEF GivenInv
      <3>3. QED
        BY <1>8, <3>2 DEF ConnParamsInit
    <2>2. bootStep = "connParams" /\ bootHalt = "no" /\ Rank("connParams") > 0 /\ Rank("secParams") > 0
      BY <1>t, <2>1, RankValues
    <2>3. {"gap"} \subseteq softdevice
      BY <1>t, <2>2, RankValues DEF GivenInv
    <2>4. "advertising" \in {"connParams"} => Ready
      BY <1>t, <2>2, RankValues DEF GivenInv, Ready
    <2>5. "connParams" \notin {"queue", "sequence", "timer", "no"} /\ "secParams" \in Steps
      BY DEF Steps
    <2>6. /\ bootStep' = "secParams" /\ UNCHANGED <<rtc, listening>> /\ softdevice \subseteq softdevice'
          /\ bootHalt' = "no" => {"connParams"} \subseteq softdevice'
          /\ BootTypeOK' /\ QueueInv' /\ CountInv'
          /\ "advertising" \in softdevice' => Ready'
      BY <2>1, <2>2, <2>3, <2>4, <2>5, AskEffect
    <2>7. GivenInv'
      BY <1>t, <2>2, <2>6, RankValues DEF GivenInv
    <2>8. QED
      BY <2>6, <2>7
  <1>9. CASE SerialBegin
    <2>1. Asks("session", "listener", {"session"}, {"enabled"})
      BY <1>9 DEF SerialBegin
    <2>2. bootStep = "session" /\ bootHalt = "no" /\ Rank("session") > 0 /\ Rank("listener") > 0
      BY <1>t, <2>1, RankValues
    <2>3. {"enabled"} \subseteq softdevice
      BY <1>t, <2>2, RankValues DEF GivenInv
    <2>4. "advertising" \in {"session"} => Ready
      BY <1>t, <2>2, RankValues DEF GivenInv, Ready
    <2>5. "session" \notin {"queue", "sequence", "timer", "no"} /\ "listener" \in Steps
      BY DEF Steps
    <2>6. /\ bootStep' = "listener" /\ UNCHANGED <<rtc, listening>> /\ softdevice \subseteq softdevice'
          /\ bootHalt' = "no" => {"session"} \subseteq softdevice'
          /\ BootTypeOK' /\ QueueInv' /\ CountInv'
          /\ "advertising" \in softdevice' => Ready'
      BY <2>1, <2>2, <2>3, <2>4, <2>5, AskEffect
    <2>7. GivenInv'
      BY <1>t, <2>2, <2>6, RankValues DEF GivenInv
    <2>8. QED
      BY <2>6, <2>7
  <1>10. CASE StartAdvertising
    <2>1. Asks("advertising", "add", {"advertising"}, {"advdata"})
      BY <1>10 DEF StartAdvertising
    <2>2. bootStep = "advertising" /\ bootHalt = "no" /\ Rank("advertising") > 0 /\ Rank("add") > 0
      BY <1>t, <2>1, RankValues
    <2>3. {"advdata"} \subseteq softdevice
      BY <1>t, <2>2, RankValues DEF GivenInv
    <2>4. "advertising" \in {"advertising"} => Ready
      BY <1>t, <2>2, RankValues DEF GivenInv, Ready
    <2>5. "advertising" \notin {"queue", "sequence", "timer", "no"} /\ "add" \in Steps
      BY DEF Steps
    <2>6. /\ bootStep' = "add" /\ UNCHANGED <<rtc, listening>> /\ softdevice \subseteq softdevice'
          /\ bootHalt' = "no" => {"advertising"} \subseteq softdevice'
          /\ BootTypeOK' /\ QueueInv' /\ CountInv'
          /\ "advertising" \in softdevice' => Ready'
      BY <2>1, <2>2, <2>3, <2>4, <2>5, AskEffect
    <2>7. GivenInv'
      BY <1>t, <2>2, <2>6, RankValues DEF GivenInv
    <2>8. QED
      BY <2>6, <2>7
  <1>11. QED
    BY <1>1, <1>2, <1>3, <1>4, <1>5, <1>6, <1>7, <1>8, <1>9, <1>10 DEF ServicesInit

(* The other steps of the set-up that leave the queue alone.               *)
LEMMA SetupKeeps ==
    ASSUME BootInv,
           \/ LfclkInit \/ TimersInit \/ TimersStart \/ HandlersSet \/ SecParamsInit
           \/ RegisterListener
    PROVE  BootInv'
  <1>t. BootTypeOK /\ GivenInv /\ QueueInv /\ CountInv
    BY DEF BootInv
  <1>1. /\ QuietStep /\ bootHalt = "no" /\ bootHalt' = "no"
        /\ softdevice \subseteq softdevice' /\ rtc \subseteq rtc'
        /\ listening' \in {listening, TRUE}
        /\ "advertising" \in softdevice' => "advertising" \in softdevice
        /\ \/ bootStep = "lfclk" /\ bootStep' = "timersInit"
           \/ bootStep = "timersInit" /\ bootStep' = "timersStart" /\ "timers" \in rtc'
           \/ bootStep = "timersStart" /\ bootStep' = "stack"
           \/ bootStep = "handlers" /\ bootStep' = "gap" /\ "handlers" \in softdevice'
           \/ bootStep = "secParams" /\ bootStep' = "session" /\ "secParams" \in softdevice'
           \/ bootStep = "listener" /\ bootStep' = "advertising" /\ listening'
    <2>1. CASE LfclkInit
      BY <2>1 DEF LfclkInit, Boots, QuietStep
    <2>2. CASE TimersInit
      BY <2>2 DEF TimersInit, Boots, QuietStep
    <2>3. CASE TimersStart
      <3>1. "timers" \in rtc
        BY <1>t, <2>3, RankValues DEF TimersStart, Boots, GivenInv
      <3>2. QED
        BY <2>3, <3>1 DEF TimersStart, Boots, QuietStep
    <2>4. CASE HandlersSet
      BY <2>4 DEF HandlersSet, Boots, QuietStep
    <2>5. CASE SecParamsInit
      BY <2>5 DEF SecParamsInit, Boots, QuietStep
    <2>6. CASE RegisterListener
      BY <2>6 DEF RegisterListener, Boots, QuietStep
    <2>7. QED
      BY <2>1, <2>2, <2>3, <2>4, <2>5, <2>6
  <1>2. listening => listening'
    BY <1>1
  <1>3. Ready => Ready'
    BY <1>1, <1>2 DEF Ready
  <1>4. Built /\ Built'
    BY <1>1, RankValues DEF Built
  <1>5. listening' \in BOOLEAN
    BY <1>t, <1>1 DEF BootTypeOK
  <1>6. BootTypeOK'
    BY <1>t, <1>1, <1>5 DEF BootTypeOK, QuietStep, Steps
  <1>7. GivenInv'
    <2>1. "advertising" \in softdevice' => Ready'
      BY <1>t, <1>1, <1>3 DEF GivenInv
    <2>2. QED
      BY <1>t, <1>1, <1>2, <2>1, RankValues DEF GivenInv
  <1>8. QueueInv' /\ CountInv'
    BY <1>t, <1>1, <1>3, <1>4, QuietKeeps
  <1>9. QED
    BY <1>6, <1>7, <1>8 DEF BootInv

(* The constructors, in either order.                                      *)
LEMMA ConstructorsKeep ==
    ASSUME BootInv, ConstructEventManager \/ ConstructButton
    PROVE  BootInv'
  <1>t. BootTypeOK /\ GivenInv /\ QueueInv /\ CountInv
    BY DEF BootInv
  <1>1. CASE ConstructEventManager
    <2>1. /\ listed' = <<>> /\ sched' = [size |-> QueueSize, events |-> <<>>]
          /\ UNCHANGED <<eventManagerFirst, armed, softdevice, rtc, listening, bootHalt, edges,
                         radio, heard>>
          /\ bootHalt = "no"
          /\ \/ eventManagerFirst /\ bootStep = "constructors" /\ bootStep' = "button"
             \/ ~eventManagerFirst /\ bootStep = "eventManager" /\ bootStep' = "lfclk"
      BY <1>1 DEF ConstructEventManager, Boots
    <2>2. ~Built /\ Built'
      BY <2>1 DEF Built
    <2>3. /\ sched = Unready /\ softdevice = {} /\ radio = 0 /\ heard = <<>>
          /\ eventManagerFirst => ~armed /\ edges = 0
      BY <1>t, <2>2 DEF QueueInv
    <2>4. /\ sched'.events = <<>> /\ sched'.size = QueueSize /\ Len(<<>>) = 0
          /\ edges \in Nat
      BY <1>t, <2>1 DEF BootTypeOK
    <2>5. BootTypeOK'
      <3>1. <<>> \in Seq({"button", "ledActivator"}) /\ <<>> \in Seq({"edge", "radio"})
        BY EmptySeq
      <3>2. sched' \in [size : Nat, events : Seq({"edge", "radio"})]
        BY <2>1, <3>1, BootAssumption
      <3>3. bootStep' \in Steps
        BY <2>1 DEF Steps
      <3>4. QED
        BY <1>t, <2>1, <3>1, <3>2, <3>3 DEF BootTypeOK
    <2>6. GivenInv'
      BY <2>1, <2>3, RankValues DEF GivenInv
    <2>7. ~Holds(heard, "edge")' /\ ~Holds(heard, "radio")' /\ ~Listens'
          /\ ~Holds(sched.events, "edge")' /\ ~Holds(sched.events, "radio")'
      BY <2>1, <2>3, <2>4 DEF Holds, Listens
    <2>8. QueueInv'
      BY <2>1, <2>2, <2>3, <2>4, <2>7 DEF QueueInv
    <2>9. CountInv'
      <3>1. Counted("edge")' = 0 /\ Counted("radio")' = 0
        <4>1. /\ Count(heard', "edge") = 0 /\ Count(heard', "radio") = 0
              /\ Count(sched'.events, "edge") = 0 /\ Count(sched'.events, "radio") = 0
          BY <2>7, CountsNone DEF Holds
        <4>2. QED
          BY <4>1 DEF Counted
      <3>2. QED
        BY <2>1, <2>3, <3>1 DEF CountInv
    <2>10. QED
      BY <2>5, <2>6, <2>8, <2>9 DEF BootInv
  <1>2. CASE ConstructButton
    <2>1. /\ listed' = Append(listed, "button") /\ armed' = TRUE
          /\ UNCHANGED <<eventManagerFirst, sched, softdevice, rtc, listening, bootHalt,
                         edges, radio, heard>>
          /\ bootHalt = "no"
          /\ \/ eventManagerFirst /\ bootStep = "button" /\ bootStep' = "lfclk"
             \/ ~eventManagerFirst /\ bootStep = "constructors" /\ bootStep' = "eventManager"
      BY <1>2 DEF ConstructButton, Boots
    <2>2. Built' = Built /\ (eventManagerFirst => Built) /\ (~eventManagerFirst => ~Built)
      BY <2>1 DEF Built
    <2>3. listed' \in Seq({"button", "ledActivator"}) /\ Listens'
      <3>1. /\ listed \in Seq({"button", "ledActivator"})
        BY <1>t DEF BootTypeOK
      <3>2. /\ listed' \in Seq({"button", "ledActivator"})
            /\ Len(listed') \in Nat /\ Len(listed) + 1 \in 1 .. Len(listed')
            /\ listed'[Len(listed) + 1] = "button"
        BY <2>1, <3>1
      <3>3. QED
        BY <3>2 DEF Listens
    <2>4. BootTypeOK'
      BY <1>t, <2>1, <2>3 DEF BootTypeOK, Steps
    <2>5. GivenInv'
      <3>1. Ready' = Ready
        BY <2>1 DEF Ready
      <3>2. Rank(bootStep') <= 1 /\ Rank(bootStep') \in Int
        BY <2>1, RankValues
      <3>3. QED
        BY <1>t, <2>1, <3>1, <3>2 DEF GivenInv
    <2>6. QueueInv'
      <3>1. /\ Holds(heard, "edge")' = Holds(heard, "edge") /\ Ready' = Ready
            /\ Holds(sched.events, "edge")' = Holds(sched.events, "edge")
            /\ Holds(sched.events, "radio")' = Holds(sched.events, "radio")
        BY <2>1 DEF Holds, Ready
      <3>2. QED
        BY <1>t, <2>1, <2>2, <2>3, <3>1 DEF QueueInv
    <2>7. CountInv'
      BY <1>t, <2>1 DEF CountInv, Counted
    <2>8. QED
      BY <2>4, <2>5, <2>6, <2>7 DEF BootInv
  <1>3. QED
    BY <1>1, <1>2

\* what an event put into the queue, or taken out of it, does to Holds
LEMMA HoldsAppended ==
    ASSUME NEW S, NEW s \in Seq(S), NEW x \in S
    PROVE  /\ Append(s, x) \in Seq(S) /\ Len(Append(s, x)) = Len(s) + 1
           /\ \A e : Holds(Append(s, x), e) <=> Holds(s, e) \/ x = e
  <1>1. /\ Append(s, x) \in Seq(S) /\ Len(Append(s, x)) = Len(s) + 1 /\ Len(s) \in Nat
        /\ Append(s, x)[Len(s) + 1] = x
        /\ \A i \in 1 .. Len(s) : Append(s, x)[i] = s[i]
    OBVIOUS
  <1>2. ASSUME NEW e PROVE Holds(Append(s, x), e) <=> Holds(s, e) \/ x = e
    BY <1>1 DEF Holds
  <1>3. QED
    BY <1>1, <1>2

LEMMA HoldsTail ==
    ASSUME NEW S, NEW s \in Seq(S), s # <<>>
    PROVE  /\ Tail(s) \in Seq(S) /\ Len(Tail(s)) = Len(s) - 1 /\ Len(s) \in Nat
           /\ Head(s) \in S /\ Holds(s, Head(s))
           /\ \A e : Holds(Tail(s), e) => Holds(s, e)
  <1>1. /\ Tail(s) \in Seq(S) /\ Len(Tail(s)) = Len(s) - 1 /\ Len(s) \in Nat /\ Len(s) >= 1
        /\ Head(s) \in S /\ Head(s) = s[1]
        /\ \A i \in 1 .. Len(Tail(s)) : Tail(s)[i] = s[i + 1]
    OBVIOUS
  <1>2. Holds(s, Head(s))
    BY <1>1 DEF Holds
  <1>3. ASSUME NEW e, Holds(Tail(s), e) PROVE Holds(s, e)
    <2>1. PICK i \in 1 .. Len(Tail(s)) : Tail(s)[i] = e
      BY <1>3 DEF Holds
    <2>2. i + 1 \in 1 .. Len(s) /\ s[i + 1] = e
      BY <1>1, <2>1
    <2>3. QED
      BY <2>2 DEF Holds
  <1>4. QED
    BY <1>1, <1>2, <1>3

(* The interrupts: an event that finds room is counted and queued.         *)
LEMMA PutKeeps ==
    ASSUME BootInv, NEW e \in {"edge", "radio"}, SchedPut(e), bootHalt = "no",
           UNCHANGED <<bootStep, eventManagerFirst, listed, armed, softdevice, rtc, listening,
                       heard>>,
           edges' = edges + (IF e = "edge" THEN 1 ELSE 0),
           radio' = radio + (IF e = "radio" THEN 1 ELSE 0),
           e = "edge" => Listens /\ (eventManagerFirst => Built), e = "radio" => Ready /\ Built
    PROVE  BootInv'
  <1>t. BootTypeOK /\ GivenInv /\ QueueInv /\ CountInv
    BY DEF BootInv
  <1>n. /\ edges \in Nat /\ radio \in Nat /\ sched.events \in Seq({"edge", "radio"})
        /\ Len(sched.events) \in Nat /\ sched.size \in Nat /\ QueueSize \in Nat
        /\ sched = [size |-> sched.size, events |-> sched.events]
        /\ edges' \in Nat /\ radio' \in Nat /\ edges' + radio' = edges + radio + 1
        /\ edges' >= edges
    BY <1>t, BootAssumption DEF BootTypeOK
  <1>1. Built' = Built /\ Ready' = Ready /\ Listens' = Listens /\ \A x : Holds(heard, x)' = Holds(heard, x)
    BY DEF Built, Ready, Listens, Holds
  <1>2. CASE Len(sched.events) < sched.size
    <2>1. /\ sched' = [size |-> sched.size, events |-> Append(sched.events, e)]
          /\ bootHalt' = bootHalt
      BY <1>2, <1>n DEF SchedPut
    <2>2. /\ sched'.events \in Seq({"edge", "radio"})
          /\ Len(sched'.events) = Len(sched.events) + 1 /\ sched'.size = sched.size
          /\ \A x : Holds(sched.events, x)' <=> Holds(sched.events, x) \/ e = x
      BY <1>n, <2>1, HoldsAppended
    <2>3. BootTypeOK'
      <3>1. sched' \in [size : Nat, events : Seq({"edge", "radio"})]
        BY <1>n, <2>1, <2>2
      <3>2. QED
        BY <1>t, <1>n, <2>1, <3>1 DEF BootTypeOK
    <2>4. GivenInv'
      BY <1>t, <1>1, <2>1 DEF GivenInv
    <2>5. Built
      <3>1. CASE ~Built
        BY <1>t, <1>2, <3>1 DEF QueueInv, Unready
      <3>2. QED
        BY <3>1
    <2>6. QueueInv'
      <3>1. /\ Built' => sched'.size = QueueSize
            /\ Len(sched'.events) <= edges' + radio'
        BY <1>t, <1>1, <1>n, <2>2 DEF QueueInv
      <3>2. Holds(sched.events, "radio")' => Ready'
        BY <1>t, <1>1, <2>2 DEF QueueInv
      <3>3. eventManagerFirst' /\ Holds(sched.events, "edge")' => Listens'
        BY <1>t, <1>1, <2>2 DEF QueueInv
      <3>4. ~eventManagerFirst' /\ Built' =>
               ~Listens' /\ ~Holds(sched.events, "edge")' /\ ~Holds(heard, "edge")'
        BY <1>t, <1>1, <2>2 DEF QueueInv
      <3>5. eventManagerFirst' /\ armed' => Listens'
        BY <1>t, <1>1 DEF QueueInv
      <3>6. bootHalt' # "queue"
        BY <2>1
      <3>7. QED
        BY <1>1, <2>5, <3>1, <3>2, <3>3, <3>4, <3>5, <3>6 DEF QueueInv
    <2>7. CountInv'
      <3>1. \A x : /\ Count(sched.events, x) \in Nat
                   /\ Count(sched'.events, x) = Count(sched.events, x) + IF e = x THEN 1 ELSE 0
        <4> SUFFICES ASSUME NEW x
                     PROVE  /\ Count(sched.events, x) \in Nat
                            /\ Count(sched'.events, x) = Count(sched.events, x) + IF e = x THEN 1 ELSE 0
          OBVIOUS
        <4>1. sched'.events = Append(sched.events, e)
          BY <2>1
        <4>2. sched.events \in Seq({"edge", "radio"}) /\ e \in {"edge", "radio"}
          BY <1>n
        <4>3. /\ Count(sched.events, x) \in Nat
              /\ Count(Append(sched.events, e), x) = Count(sched.events, x) + IF e = x THEN 1 ELSE 0
          BY <4>2, CountsAppended
        <4>4. QED
          BY <4>1, <4>3
      <3>2. heard \in Seq({"edge", "radio"})
        BY <1>t DEF BootTypeOK
      <3>3. \A x : Count(heard, x) \in Nat
        BY <3>2, CountsAppended
      <3>4. Counted("radio") = radio /\ (eventManagerFirst => Counted("edge") = edges)
        BY <1>t DEF CountInv
      <3>5. CASE e = "edge"
        BY <1>n, <3>1, <3>3, <3>4, <3>5 DEF CountInv, Counted
      <3>6. CASE e = "radio"
        <4>1. /\ Count(sched'.events, "radio") = Count(sched.events, "radio") + 1
              /\ Count(sched'.events, "edge") = Count(sched.events, "edge")
          BY <3>1, <3>6
        <4>2. Count(heard, "radio") \in Nat /\ Count(sched.events, "radio") \in Nat
          BY <3>1, <3>3
        <4>3. edges' = edges /\ radio' = radio + 1
          BY <1>n, <3>6
        <4>4. Counted("radio")' = radio'
          BY <1>n, <3>4, <4>1, <4>2, <4>3 DEF Counted
        <4>5. eventManagerFirst' => Counted("edge")' = edges'
          BY <3>4, <4>1, <4>3 DEF Counted
        <4>6. QED
          BY <4>4, <4>5 DEF CountInv
      <3>7. QED
        BY <3>5, <3>6
    <2>8. QED
      BY <2>3, <2>4, <2>6, <2>7 DEF BootInv
  <1>3. CASE ~(Len(sched.events) < sched.size)
    <2>1. bootHalt' = "queue" /\ sched' = sched
      BY <1>3 DEF SchedPut
    <2>2. BootTypeOK'
      BY <1>t, <1>n, <2>1 DEF BootTypeOK
    <2>3. GivenInv'
      BY <1>t, <1>1, <2>1 DEF GivenInv
    <2>4. \A x : Holds(sched.events, x)' = Holds(sched.events, x)
      BY <2>1 DEF Holds
    <2>5. edges' + radio' > QueueSize \/ ~eventManagerFirst
      <3>1. CASE Built
        BY <1>t, <1>n, <1>3, <3>1 DEF QueueInv
      <3>2. QED
        BY <3>1
    <2>6. QueueInv'
      <3>1. /\ ~Built' => /\ sched' = Unready /\ softdevice' = {} /\ radio' = 0 /\ heard' = <<>>
                          /\ eventManagerFirst' => ~armed' /\ edges' = 0
        BY <1>t, <1>1, <1>n, <2>1 DEF QueueInv
      <3>2. Built' => sched'.size = QueueSize
        BY <1>t, <1>1, <2>1 DEF QueueInv
      <3>3. Len(sched'.events) <= edges' + radio'
        BY <1>t, <1>n, <2>1 DEF QueueInv
      <3>4. QED
        BY <1>t, <1>1, <2>1, <2>4, <2>5, <3>1, <3>2, <3>3 DEF QueueInv
    <2>7. CountInv'
      BY <2>1 DEF CountInv
    <2>8. QED
      BY <2>2, <2>3, <2>6, <2>7 DEF BootInv
  <1>4. QED
    BY <1>2, <1>3

LEMMA InterruptsKeep ==
    ASSUME BootInv, ButtonEdge \/ RadioEvent
    PROVE  BootInv'
  <1>t. BootTypeOK /\ GivenInv /\ QueueInv /\ CountInv
    BY DEF BootInv
  <1>n. edges \in Nat /\ radio \in Nat
    BY <1>t DEF BootTypeOK
  <1>1. CASE ButtonEdge
    <2>1. /\ bootHalt = "no" /\ armed /\ edges' = edges + 1 /\ radio' = radio
          /\ UNCHANGED <<bootStep, eventManagerFirst, listed, armed, softdevice, rtc, listening,
                         heard>>
          /\ Listens => SchedPut("edge")
          /\ ~Listens => UNCHANGED <<sched, bootHalt>>
      BY <1>1 DEF ButtonEdge, Listens
    <2>2. CASE Listens
      <3>1. eventManagerFirst => Built
        BY <1>t, <2>1 DEF QueueInv
      <3>2. radio' = radio + 0
        BY <1>n, <2>1
      <3>3. QED
        BY <2>1, <2>2, <3>1, <3>2, PutKeeps
    <2>3. CASE ~Listens
      <3>1. ~eventManagerFirst
        BY <1>t, <2>1, <2>3 DEF QueueInv
      <3>2. UNCHANGED <<sched, bootHalt>>
        BY <2>1, <2>3
      <3>3. /\ Built' = Built /\ Ready' = Ready /\ Listens' = Listens
            /\ \A x : Holds(heard, x)' = Holds(heard, x)
            /\ \A x : Holds(sched.events, x)' = Holds(sched.events, x)
        BY <2>1, <3>2 DEF Built, Ready, Listens, Holds
      <3>4. BootTypeOK'
        BY <1>t, <1>n, <2>1, <3>2 DEF BootTypeOK
      <3>5. GivenInv'
        BY <1>t, <2>1, <3>2, <3>3 DEF GivenInv
      <3>6. Len(sched'.events) <= edges' + radio'
        <4>1. Len(sched.events) \in Nat
          BY <1>t DEF BootTypeOK
        <4>2. QED
          BY <1>t, <1>n, <2>1, <3>2, <4>1 DEF QueueInv
      <3>7. QueueInv'
        BY <1>t, <2>1, <2>3, <3>1, <3>2, <3>3, <3>6 DEF QueueInv
      <3>8. CountInv'
        BY <1>t, <2>1, <3>1, <3>2 DEF CountInv, Counted
      <3>9. QED
        BY <3>4, <3>5, <3>7, <3>8 DEF BootInv
    <2>4. QED
      BY <2>2, <2>3
  <1>2. CASE RadioEvent
    <2>1. /\ bootHalt = "no" /\ "advertising" \in softdevice /\ radio' = radio + 1 /\ edges' = edges
          /\ UNCHANGED <<bootStep, eventManagerFirst, listed, armed, softdevice, rtc, listening,
                         heard>>
          /\ SchedPut("radio")
      BY <1>2 DEF RadioEvent
    <2>2. Ready /\ Built
      BY <1>t, <2>1 DEF GivenInv, QueueInv
    <2>3. edges' = edges + 0
      BY <1>n, <2>1
    <2>4. QED
      BY <2>1, <2>2, <2>3, PutKeeps
  <1>3. QED
    BY <1>1, <1>2

(* The end of the set-up, and the main loop.                               *)
LEMMA LoopKeeps ==
    ASSUME BootInv, AddListeners \/ LoopExecutes
    PROVE  BootInv'
  <1>t. BootTypeOK /\ GivenInv /\ QueueInv /\ CountInv
    BY DEF BootInv
  <1>1. CASE AddListeners
    <2>1. /\ bootHalt = "no" /\ bootStep = "add" /\ bootStep' = "loop"
          /\ listed' = Append(listed, "ledActivator")
          /\ UNCHANGED <<eventManagerFirst, sched, armed, softdevice, rtc, listening, bootHalt,
                         edges, radio, heard>>
      BY <1>1 DEF AddListeners, Boots
    <2>2. /\ listed' \in Seq({"button", "ledActivator"})
          /\ Holds(listed', "button") <=> Holds(listed, "button")
      <3>1. listed \in Seq({"button", "ledActivator"})
        BY <1>t DEF BootTypeOK
      <3>2. QED
        BY <2>1, <3>1, HoldsAppended
    <2>3. /\ Built /\ Built' /\ Ready' = Ready /\ Listens' = Listens
          /\ \A x : Holds(heard, x)' = Holds(heard, x)
          /\ \A x : Holds(sched.events, x)' = Holds(sched.events, x)
      <3>1. Listens' = Listens
        BY <2>2 DEF Listens, Holds
      <3>2. QED
        BY <2>1, <3>1 DEF Built, Ready, Holds
    <2>4. BootTypeOK'
      BY <1>t, <2>1, <2>2 DEF BootTypeOK, Steps
    <2>5. GivenInv'
      BY <1>t, <2>1, <2>3, RankValues DEF GivenInv
    <2>6. QueueInv'
      BY <1>t, <2>1, <2>3 DEF QueueInv
    <2>7. CountInv'
      BY <1>t, <2>1 DEF CountInv, Counted
    <2>8. QED
      BY <2>4, <2>5, <2>6, <2>7 DEF BootInv
  <1>2. CASE LoopExecutes
    <2> DEFINE e == Head(sched.events)
    <2>1. /\ bootHalt = "no" /\ bootStep = "loop" /\ bootStep' = "loop"
          /\ sched.events # <<>>
          /\ sched' = [sched EXCEPT !.events = Tail(@)]
          /\ heard' = Append(heard, CASE e = "edge" -> IF Listens THEN "edge" ELSE "nobody"
                                      [] OTHER -> IF Ready THEN "radio" ELSE "nobody")
          /\ UNCHANGED <<eventManagerFirst, listed, armed, softdevice, rtc, listening, bootHalt,
                         edges, radio>>
      BY <1>2 DEF LoopExecutes, Boots, Listens
    <2>2. /\ sched.events \in Seq({"edge", "radio"}) /\ heard \in Seq({"edge", "radio"})
          /\ sched = [size |-> sched.size, events |-> sched.events] /\ sched.size \in Nat
      BY <1>t DEF BootTypeOK
    <2>3. /\ Tail(sched.events) \in Seq({"edge", "radio"}) /\ e \in {"edge", "radio"}
          /\ Len(Tail(sched.events)) = Len(sched.events) - 1 /\ Len(sched.events) \in Nat
          /\ Holds(sched.events, e)
          /\ \A x : Holds(Tail(sched.events), x) => Holds(sched.events, x)
      BY <2>1, <2>2, HoldsTail
    <2>4. Built /\ Built'
      BY <2>1 DEF Built
    <2>5. /\ e = "edge" => Listens /\ eventManagerFirst
          /\ e = "radio" => Ready
      BY <1>t, <2>3, <2>4 DEF QueueInv
    <2>6. heard' = Append(heard, e)
      BY <2>1, <2>3, <2>5
    <2>7. sched' = [size |-> sched.size, events |-> Tail(sched.events)]
      BY <2>1, <2>2
    <2> HIDE DEF e
    <2>8. /\ heard' \in Seq({"edge", "radio"})
          /\ \A x : Holds(heard', x) <=> Holds(heard, x) \/ e = x
      BY <2>2, <2>3, <2>6, HoldsAppended
    <2>9. BootTypeOK'
      <3>1. sched' \in [size : Nat, events : Seq({"edge", "radio"})]
        BY <2>2, <2>3, <2>7
      <3>2. QED
        BY <1>t, <2>1, <2>8, <3>1 DEF BootTypeOK
    <2>10. Ready' = Ready /\ Listens' = Listens
      BY <2>1 DEF Ready, Listens
    <2>11. GivenInv'
      BY <1>t, <2>1, <2>10 DEF GivenInv
    <2>12. \A x : Holds(sched.events, x)' => Holds(sched.events, x)
      BY <2>3, <2>7 DEF Holds
    <2>13. QueueInv'
      <3>1. Len(sched'.events) <= edges' + radio'
        <4>1. edges \in Nat /\ radio \in Nat
          BY <1>t DEF BootTypeOK
        <4>2. QED
          BY <1>t, <2>1, <2>3, <2>7, <4>1 DEF QueueInv
      <3>2. sched'.size = QueueSize
        BY <1>t, <2>4, <2>7 DEF QueueInv
      <3>3. /\ Holds(sched.events, "radio")' => Ready'
            /\ eventManagerFirst' /\ armed' => Listens'
            /\ eventManagerFirst' /\ Holds(sched.events, "edge")' => Listens'
        BY <1>t, <2>1, <2>10, <2>12 DEF QueueInv
      <3>4. ~eventManagerFirst' /\ Built' =>
               ~Listens' /\ ~Holds(sched.events, "edge")' /\ ~Holds(heard, "edge")'
        <4>1. Holds(heard, "edge")' = Holds(heard', "edge")
          BY DEF Holds
        <4>2. QED
          BY <1>t, <2>1, <2>4, <2>5, <2>8, <2>10, <2>12, <4>1 DEF QueueInv
      <3>5. QED
        BY <2>1, <2>4, <3>1, <3>2, <3>3, <3>4 DEF QueueInv
    <2>14. CountInv'
      <3>1. \A x : Counted(x)' = Counted(x)
        <4> SUFFICES ASSUME NEW x PROVE Count(heard', x) + Count(sched'.events, x)
                                          = Count(heard, x) + Count(sched.events, x)
          BY DEF Counted
        <4>1. /\ Count(heard, x) \in Nat
              /\ Count(heard', x) = Count(heard, x) + IF e = x THEN 1 ELSE 0
          BY <2>2, <2>3, <2>6, CountsAppended
        <4>2. /\ Count(sched.events, x) \in Nat /\ Count(Tail(sched.events), x) \in Nat
              /\ Count(sched.events, x) =
                    Count(Tail(sched.events), x) + IF e = x THEN 1 ELSE 0
          BY <2>1, <2>2, CountsTail DEF e
        <4>3. sched'.events = Tail(sched.events)
          BY <2>7
        <4>4. CASE e = x
          BY <4>1, <4>2, <4>3, <4>4
        <4>5. CASE e # x
          BY <4>1, <4>2, <4>3, <4>5
        <4>6. QED
          BY <4>4, <4>5
      <3>2. QED
        BY <1>t, <2>1, <3>1 DEF CountInv
    <2>15. QED
      BY <2>9, <2>11, <2>13, <2>14 DEF BootInv
  <1>3. QED
    BY <1>1, <1>2

LEMMA BootStepKeeps == BootInv /\ [StartupNext]_bootVars => BootInv'
  <1> SUFFICES ASSUME BootInv, [StartupNext]_bootVars PROVE BootInv'
    OBVIOUS
  <1>1. CASE UNCHANGED bootVars
    BY <1>1 DEF bootVars, BootInv, BootTypeOK, GivenInv, QueueInv, CountInv, Built, Ready, Listens,
               Holds, Counted
  <1>2. CASE StartupNext
    BY <1>2, AsksKeep, SetupKeeps, ConstructorsKeep, InterruptsKeep, LoopKeeps DEF StartupNext
  <1>3. QED
    BY <1>1, <1>2

(* Whichever constructor the linker puts first, each step of the start     *)
(* finds what it needs, no event of the radio finds the transceiver        *)
(* without a listener, and an edge of the button is heard, or is not, as   *)
(* the order has it: for every size of the queue and number of events.     *)
THEOREM StartsInOrderAlways == StartupSpec => []StartsInOrder
  <1>1. StartupSpec => []BootInv
    BY BootInvInit, BootStepKeeps, PTL DEF StartupSpec
  <1>2. QED
    BY <1>1, BootInvImplies, PTL

-----------------------------------------------------------------------------
(* The memory watcher: WatcherTells.                                       *)

MemTypeOK ==
    /\ painted \in SUBSET StackOf /\ heapPaint \in SUBSET HeapOf
    /\ sp \in StackOf /\ brk \in 0 .. HeapWords - 1
    /\ paintAt \in 0 .. memSeen.from
    /\ memStep \in {"reset", "running", "heap", "ram", "history"}
    /\ memSeen \in [from : StackOf, deepest : StackOf, full : BOOLEAN, heapFull : BOOLEAN]
    /\ memSeen.deepest <= memSeen.from
    /\ memStep = "reset" => sp = StackWords /\ brk = 0 /\ paintAt = 0 /\ memSeen.deepest = StackWords

(* What has not been used since the last paint is painted, but for what    *)
(* paintStackNow has still to paint; a frame that wrote its lowest word has*)
(* left a mark there, and so has the word above the paint's beginning.     *)
StackInv ==
    /\ \A i \in StackOf : paintAt < i /\ i < memSeen.deepest => i \in painted
    /\ memSeen.full =>
          /\ memSeen.from + 1 \notin painted
          /\ paintAt > 0 => memSeen.deepest = memSeen.from
          /\ memSeen.deepest < memSeen.from => memSeen.deepest \notin painted

HeapInv ==
    /\ \A i \in HeapOf : brk < i => i \in heapPaint
    /\ memSeen.heapFull => brk = 0 \/ brk \notin heapPaint

AlarmInv ==
    /\ memStep = "history" => memSeen.deepest - 1 + HeapWords - brk < WarnLevel
    /\ memStep = "ram" => sp - 1 + HeapWords - brk < WarnLevel

MemInv == MemTypeOK /\ (memStep # "reset" => StackInv /\ HeapInv /\ AlarmInv)

\* what the two searches of the watcher count
StackRun == {i \in StackOf : \A j \in 1 .. i : j \in painted}
HeapRun  == {i \in HeapOf : \A j \in i .. HeapWords : j \in heapPaint}

LEMMA RunsFinite ==
    /\ IsFiniteSet(StackRun) /\ IsFiniteSet(HeapRun)
    /\ MinRemainingStack = Cardinality(StackRun) /\ MinRemainingStack \in Nat
    /\ MinRemainingHeap = Cardinality(HeapRun) /\ MinRemainingHeap \in Nat
  <1>1. IsFiniteSet(StackOf) /\ IsFiniteSet(HeapOf)
    BY MemAssumption, FS_Interval DEF StackOf, HeapOf
  <1>2. IsFiniteSet(StackRun) /\ IsFiniteSet(HeapRun)
    BY <1>1, FS_Subset DEF StackRun, HeapRun
  <1>3. QED
    BY <1>2, FS_CardinalityType DEF MinRemainingStack, MinRemainingHeap, StackRun, HeapRun

LEMMA StackReport ==
    ASSUME MemTypeOK, StackInv, paintAt = 0
    PROVE  /\ MinRemainingStack >= memSeen.deepest - 1
           /\ memSeen.full /\ memSeen.deepest < memSeen.from =>
                 MinRemainingStack = memSeen.deepest - 1
           /\ memSeen.full => MinRemainingStack <= memSeen.deepest
  <1> DEFINE d == memSeen.deepest
  <1>1. d \in StackOf /\ memSeen.from \in StackOf /\ d <= memSeen.from
    BY DEF MemTypeOK
  <1>2. d \in Int /\ 1 <= d /\ d <= StackWords /\ memSeen.from \in Int /\ StackWords \in Int
    BY <1>1, MemAssumption DEF StackOf
  <1>3. 1 .. d - 1 \in SUBSET StackRun
    BY <1>2 DEF StackInv, StackRun, StackOf
  <1>4. /\ Cardinality(1 .. d - 1) = d - 1 /\ IsFiniteSet(1 .. d - 1)
        /\ Cardinality(1 .. d) = d /\ IsFiniteSet(1 .. d)
    <2>1. 1 \in Int /\ d - 1 \in Int /\ d \in Int
      BY <1>2
    <2>2. /\ Cardinality(1 .. d - 1) = IF 1 > d - 1 THEN 0 ELSE (d - 1) - 1 + 1
          /\ Cardinality(1 .. d) = IF 1 > d THEN 0 ELSE d - 1 + 1
          /\ IsFiniteSet(1 .. d - 1) /\ IsFiniteSet(1 .. d)
      BY <2>1, FS_Interval
    <2> HIDE DEF d
    <2>3. QED
      BY <1>2, <2>2
  <1>5. MinRemainingStack >= d - 1
    <2>1. Cardinality(1 .. d - 1) <= Cardinality(StackRun)
      BY <1>3, RunsFinite, FS_Subset
    <2> HIDE DEF d
    <2>2. QED
      BY <1>2, <1>4, <2>1, RunsFinite
  <1>6. ASSUME memSeen.full, d < memSeen.from PROVE MinRemainingStack = d - 1
    <2>1. d \notin painted
      BY <1>6 DEF StackInv
    <2>2. StackRun \in SUBSET (1 .. d - 1)
      BY <1>2, <2>1 DEF StackRun, StackOf
    <2>3. Cardinality(StackRun) <= d - 1
      BY <1>4, <2>2, FS_Subset
    <2>4. QED
      BY <1>2, <1>5, <2>3, RunsFinite
  <1>7. ASSUME memSeen.full PROVE MinRemainingStack <= d
    <2>1. d < memSeen.from \/ d + 1 \notin painted
      BY <1>2, <1>1, <1>7 DEF StackInv
    <2>2. CASE d < memSeen.from
      BY <1>2, <1>6, <1>7, <2>2
    <2>3. CASE d + 1 \notin painted
      <3>1. StackRun \in SUBSET (1 .. d)
        BY <1>2, <2>3 DEF StackRun, StackOf
      <3>2. Cardinality(StackRun) <= Cardinality(1 .. d)
        BY <1>4, <3>1, FS_Subset
      <3> HIDE DEF d
      <3>3. QED
        BY <1>4, <3>2, RunsFinite
    <2>4. QED
      BY <2>1, <2>2, <2>3
  <1>8. QED
    BY <1>5, <1>6, <1>7

LEMMA HeapReport ==
    ASSUME MemTypeOK, HeapInv
    PROVE  /\ MinRemainingHeap >= HeapWords - brk
           /\ memSeen.heapFull => MinRemainingHeap = HeapWords - brk
  <1>1. brk \in Int /\ 0 <= brk /\ brk < HeapWords /\ HeapWords \in Int
    BY MemAssumption DEF MemTypeOK
  <1>2. /\ IsFiniteSet(brk + 1 .. HeapWords)
        /\ Cardinality(brk + 1 .. HeapWords) = HeapWords - brk
    <2>1. brk + 1 \in Int
      BY <1>1
    <2>2. /\ IsFiniteSet(brk + 1 .. HeapWords)
          /\ Cardinality(brk + 1 .. HeapWords)
                = IF brk + 1 > HeapWords THEN 0 ELSE HeapWords - (brk + 1) + 1
      BY <1>1, <2>1, FS_Interval
    <2>3. QED
      BY <1>1, <2>2
  <1>3. brk + 1 .. HeapWords \in SUBSET HeapRun
    BY <1>1 DEF HeapInv, HeapRun, HeapOf
  <1>4. MinRemainingHeap >= HeapWords - brk
    BY <1>2, <1>3, RunsFinite, FS_Subset
  <1>5. ASSUME memSeen.heapFull PROVE MinRemainingHeap = HeapWords - brk
    <2>1. brk = 0 \/ brk \notin heapPaint
      BY <1>5 DEF HeapInv
    <2>2. HeapRun \in SUBSET (brk + 1 .. HeapWords)
      BY <1>1, <2>1 DEF HeapRun, HeapOf
    <2>3. Cardinality(HeapRun) <= HeapWords - brk
      BY <1>2, <2>2, FS_Subset
    <2>4. QED
      BY <1>1, <1>4, <2>3, RunsFinite
  <1>6. QED
    BY <1>4, <1>5

LEMMA MemInvImplies == MemInv => WatcherTells
  <1> SUFFICES ASSUME MemInv, memStep # "reset" PROVE WatcherTells
    BY DEF WatcherTells
  <1>1. MemTypeOK /\ StackInv /\ HeapInv /\ AlarmInv
    BY DEF MemInv
  <1>2. brk < HeapWords
    BY <1>1, MemAssumption DEF MemTypeOK
  <1>3. QED
    BY <1>1, <1>2, StackReport, HeapReport DEF WatcherTells, AlarmInv

LEMMA MemInvInit == MemInit => MemInv
  BY MemAssumption DEF MemInit, MemInv, MemTypeOK, StackOf, HeapOf

\* a frame below sp, of an interrupt or a call
LEMMA FrameKeeps ==
    ASSUME MemTypeOK, StackInv, memStep # "reset", NEW n \in Frames, sp - n >= 1,
           NEW written \in SUBSET (sp - n .. sp - 1), Uses(n, written), UNCHANGED paintAt
    PROVE  /\ painted' \in SUBSET StackOf /\ StackInv'
           /\ memSeen' \in [from : StackOf, deepest : StackOf, full : BOOLEAN, heapFull : BOOLEAN]
           /\ memSeen'.from = memSeen.from /\ memSeen'.heapFull = memSeen.heapFull
           /\ memSeen'.deepest <= memSeen.deepest /\ memSeen'.deepest <= memSeen'.from
  <1> DEFINE low == sp - n
             d == IF low < memSeen.deepest THEN low ELSE memSeen.deepest
             f == memSeen.full /\ low \in written /\ paintAt = 0
  <1>1. /\ painted' = painted \ written
        /\ memSeen' = [from |-> memSeen.from, deepest |-> d, full |-> f,
                       heapFull |-> memSeen.heapFull]
    BY DEF Uses, MemTypeOK
  <1>2. /\ memSeen.from \in 1 .. StackWords /\ memSeen.deepest \in 1 .. StackWords
        /\ memSeen.deepest <= memSeen.from /\ memSeen.heapFull \in BOOLEAN
        /\ memSeen.full \in BOOLEAN /\ paintAt \in Nat
        /\ StackWords \in Int /\ sp \in 1 .. StackWords /\ n \in Nat
        /\ low \in Int /\ low >= 1 /\ low <= sp /\ sp <= StackWords
        /\ low \in 1 .. StackWords
    BY MemAssumption DEF MemTypeOK, StackOf
  <1>3. \A i \in written : i \in Int /\ low <= i
    BY <1>2
  <1>4. d \in 1 .. StackWords /\ d <= memSeen.deepest /\ d <= low /\ d <= memSeen.from
    BY <1>2
  <1>5. /\ memSeen' \in [from : StackOf, deepest : StackOf, full : BOOLEAN, heapFull : BOOLEAN]
        /\ memSeen'.from = memSeen.from /\ memSeen'.heapFull = memSeen.heapFull
        /\ memSeen'.deepest = d /\ memSeen'.full = f
    BY <1>1, <1>2, <1>4 DEF StackOf
  <1>6. painted' \in SUBSET StackOf
    BY <1>1 DEF MemTypeOK
  <1>7. ASSUME NEW i \in StackOf, paintAt' < i, i < d PROVE i \in painted'
    <2>1. i \in painted
      BY <1>2, <1>4, <1>7 DEF StackInv, StackOf
    <2>2. i \notin written
      BY <1>2, <1>3, <1>4, <1>7 DEF StackOf
    <2>3. QED
      BY <1>1, <2>1, <2>2
  <1>8. ASSUME f
        PROVE  /\ memSeen.from + 1 \notin painted'
               /\ paintAt' > 0 => d = memSeen.from
               /\ d < memSeen.from => d \notin painted'
    <2>1. memSeen.from + 1 \notin painted'
      BY <1>1, <1>8 DEF StackInv
    <2>2. ~(paintAt' > 0)
      BY <1>2, <1>8
    <2>3. CASE low < memSeen.deepest
      BY <1>1, <1>8, <2>1, <2>2, <2>3
    <2>4. CASE ~(low < memSeen.deepest)
      BY <1>1, <1>8, <2>1, <2>2, <2>4 DEF StackInv
    <2>5. QED
      BY <2>3, <2>4
  <1> HIDE DEF d, f
  <1>9. StackInv'
    BY <1>5, <1>7, <1>8 DEF StackInv
  <1>10. QED
    BY <1>4, <1>5, <1>6, <1>9

LEMMA MemStep == MemInv /\ [MemNext]_memVars => MemInv'
  <1> SUFFICES ASSUME MemInv, [MemNext]_memVars PROVE MemInv'
    OBVIOUS
  <1>t. MemTypeOK /\ (memStep # "reset" => StackInv /\ HeapInv /\ AlarmInv)
    BY DEF MemInv
  <1>n. /\ StackWords \in Nat /\ StackWords > 0 /\ HeapWords \in Nat /\ HeapWords > 0
        /\ sp \in 1 .. StackWords /\ brk \in Nat /\ brk < HeapWords /\ paintAt \in Nat
        /\ memSeen.from \in 1 .. StackWords /\ memSeen.deepest \in 1 .. StackWords
        /\ memSeen.deepest <= memSeen.from /\ paintAt <= memSeen.from
        /\ memSeen.full \in BOOLEAN /\ memSeen.heapFull \in BOOLEAN
        /\ memSeen = [from |-> memSeen.from, deepest |-> memSeen.deepest, full |-> memSeen.full,
                      heapFull |-> memSeen.heapFull]
    BY <1>t, MemAssumption DEF MemTypeOK, StackOf
  <1>1. CASE Fill
    <2>1. /\ memStep = "reset" /\ memStep' = "running"
          /\ painted' = StackOf \ {StackWords} /\ heapPaint' = HeapOf
          /\ UNCHANGED <<sp, brk, paintAt, memSeen>>
      BY <1>1 DEF Fill
    <2>2. sp = StackWords /\ brk = 0 /\ paintAt = 0 /\ memSeen.deepest = StackWords
          /\ memSeen.from = StackWords
      BY <1>t, <1>n, <2>1 DEF MemTypeOK
    <2>3. MemTypeOK'
      BY <1>t, <2>1 DEF MemTypeOK
    <2>4. StackInv'
      BY <1>n, <2>1, <2>2 DEF StackInv, StackOf
    <2>5. HeapInv' /\ AlarmInv'
      BY <2>1, <2>2 DEF HeapInv, AlarmInv
    <2>6. QED
      BY <2>3, <2>4, <2>5 DEF MemInv
  <1>2. CASE Enter \/ Interrupted
    <2>1. PICK n \in Frames : /\ sp - n >= 1 /\ sp' \in {sp, sp - n}
                              /\ \E written \in SUBSET (sp - n .. sp - 1) : Uses(n, written)
      BY <1>2 DEF Enter, Interrupted
    <2>2. PICK written \in SUBSET (sp - n .. sp - 1) : Uses(n, written)
      BY <2>1
    <2>3. memStep = "running" /\ UNCHANGED <<heapPaint, brk, paintAt, memStep>>
      BY <1>2 DEF Enter, Interrupted, Executes
    <2>4. /\ painted' \in SUBSET StackOf /\ StackInv'
          /\ memSeen' \in [from : StackOf, deepest : StackOf, full : BOOLEAN, heapFull : BOOLEAN]
          /\ memSeen'.from = memSeen.from /\ memSeen'.heapFull = memSeen.heapFull
          /\ memSeen'.deepest <= memSeen'.from
      BY <1>t, <2>1, <2>2, <2>3, FrameKeeps
    <2>5. sp' \in StackOf
      BY <1>n, <2>1, MemAssumption DEF StackOf
    <2>6. MemTypeOK'
      BY <1>t, <2>3, <2>4, <2>5 DEF MemTypeOK
    <2>7. HeapInv' /\ AlarmInv'
      BY <1>t, <2>3, <2>4 DEF HeapInv, AlarmInv
    <2>8. QED
      BY <2>4, <2>6, <2>7 DEF MemInv
  <1>3. CASE Leave
    <2>1. PICK n \in Frames : sp + n <= StackWords /\ sp' = sp + n
      BY <1>3 DEF Leave
    <2>2. memStep = "running" /\ UNCHANGED <<painted, heapPaint, brk, paintAt, memStep, memSeen>>
      BY <1>3 DEF Leave, Executes
    <2>3. sp' \in StackOf
      BY <1>n, <2>1, MemAssumption DEF StackOf
    <2>4. MemTypeOK' /\ StackInv' /\ HeapInv' /\ AlarmInv'
      BY <1>t, <2>2, <2>3 DEF MemTypeOK, StackInv, HeapInv, AlarmInv
    <2>5. QED
      BY <2>4 DEF MemInv
  <1>4. ASSUME NEW incr \in Frames, Sbrk(incr) PROVE MemInv'
    <2>1. memStep = "running" /\ UNCHANGED <<painted, sp, paintAt>> /\ incr \in Nat
      BY <1>4, MemAssumption DEF Sbrk, Executes
    <2>2. CASE brk + incr >= HeapWords
      <3>1. memStep' = "heap" /\ UNCHANGED <<brk, heapPaint, memSeen>>
        BY <1>4, <2>2 DEF Sbrk, ErrorHandler
      <3>2. MemTypeOK' /\ StackInv' /\ HeapInv' /\ AlarmInv'
        BY <1>t, <2>1, <3>1 DEF MemTypeOK, StackInv, HeapInv, AlarmInv
      <3>3. QED
        BY <3>2 DEF MemInv
    <2>3. CASE ~(brk + incr >= HeapWords)
      <3>1. PICK written \in SUBSET (brk + 1 .. brk + incr) :
               /\ brk' = brk + incr /\ heapPaint' = heapPaint \ written
               /\ memSeen' = [memSeen EXCEPT !.heapFull = (brk + incr \in written)]
               /\ memStep' = memStep
        BY <1>4, <2>3 DEF Sbrk
      <3>2. memSeen' = [from |-> memSeen.from, deepest |-> memSeen.deepest,
                        full |-> memSeen.full, heapFull |-> (brk + incr \in written)]
        BY <1>n, <3>1
      <3>3. /\ memSeen'.from = memSeen.from /\ memSeen'.deepest = memSeen.deepest
            /\ memSeen'.full = memSeen.full /\ memSeen'.heapFull = (brk + incr \in written)
            /\ memSeen' \in [from : StackOf, deepest : StackOf, full : BOOLEAN, heapFull : BOOLEAN]
        BY <1>n, <3>2 DEF StackOf
      <3>4. brk' \in 0 .. HeapWords - 1
        BY <1>n, <2>1, <2>3, <3>1
      <3>5. MemTypeOK'
        BY <1>t, <2>1, <3>1, <3>3, <3>4 DEF MemTypeOK
      <3>6. StackInv'
        BY <1>t, <2>1, <3>3 DEF StackInv
      <3>7. HeapInv'
        <4>1. ASSUME NEW i \in HeapOf, brk' < i PROVE i \in heapPaint'
          <5>1. i \in Int /\ brk < i /\ i > brk + incr
            BY <1>n, <2>1, <3>1, <4>1 DEF HeapOf
          <5>2. i \in heapPaint /\ i \notin written
            BY <1>t, <1>n, <2>1, <5>1 DEF HeapInv
          <5>3. QED
            BY <3>1, <5>2
        <4>2. memSeen'.heapFull => brk' \notin heapPaint'
          BY <3>1, <3>3
        <4>3. QED
          BY <4>1, <4>2 DEF HeapInv
      <3>8. AlarmInv'
        BY <2>1, <3>1 DEF AlarmInv
      <3>9. QED
        BY <3>5, <3>6, <3>7, <3>8 DEF MemInv
    <2>4. QED
      BY <2>2, <2>3
  <1>5. CASE CheckRAM
    <2>1. /\ memStep = "running" /\ memStep' = "ram" /\ sp - 1 + MinRemainingHeap < WarnLevel
          /\ UNCHANGED <<painted, heapPaint, sp, brk, paintAt, memSeen>>
      BY <1>5 DEF CheckRAM, ErrorHandler, Executes, RemainingStack
    <2>2. MinRemainingHeap >= HeapWords - brk /\ MinRemainingHeap \in Nat
      BY <1>t, <2>1, HeapReport, RunsFinite
    <2>3. MemTypeOK' /\ StackInv' /\ HeapInv'
      BY <1>t, <2>1 DEF MemTypeOK, StackInv, HeapInv
    <2>4. sp - 1 + HeapWords - brk < WarnLevel
      BY <1>n, <2>1, <2>2, MemAssumption
    <2>5. AlarmInv'
      BY <2>1, <2>4 DEF AlarmInv
    <2>6. QED
      BY <2>3, <2>5 DEF MemInv
  <1>6. CASE LoopChecks
    <2>1. memStep = "running" /\ paintAt = 0 /\ UNCHANGED <<painted, heapPaint, sp, brk>>
      BY <1>6 DEF LoopChecks, Executes
    <2>2. CASE MinRemainingStack + MinRemainingHeap < WarnLevel
      <3>1. memStep' = "history" /\ UNCHANGED <<paintAt, memSeen>>
        BY <1>6, <2>2 DEF LoopChecks, ErrorHandler
      <3>2. /\ MinRemainingHeap >= HeapWords - brk /\ MinRemainingHeap \in Nat
            /\ MinRemainingStack >= memSeen.deepest - 1 /\ MinRemainingStack \in Nat
        BY <1>t, <2>1, HeapReport, StackReport, RunsFinite
      <3>3. memSeen.deepest - 1 + HeapWords - brk < WarnLevel
        BY <1>n, <2>2, <3>2, MemAssumption
      <3>4. MemTypeOK' /\ StackInv' /\ HeapInv'
        BY <1>t, <2>1, <3>1 DEF MemTypeOK, StackInv, HeapInv
      <3>5. AlarmInv'
        BY <2>1, <3>1, <3>3 DEF AlarmInv
      <3>6. QED
        BY <3>4, <3>5 DEF MemInv
    <2>3. CASE ~(MinRemainingStack + MinRemainingHeap < WarnLevel)
      <3>1. /\ paintAt' = sp /\ memStep' = memStep
            /\ memSeen' = [from |-> sp, deepest |-> sp, full |-> (sp + 1 \notin painted),
                           heapFull |-> memSeen.heapFull]
        BY <1>n, <1>6, <2>3 DEF LoopChecks
      <3>2. /\ memSeen'.from = sp /\ memSeen'.deepest = sp
            /\ memSeen'.full = (sp + 1 \notin painted) /\ memSeen'.heapFull = memSeen.heapFull
            /\ memSeen' \in [from : StackOf, deepest : StackOf, full : BOOLEAN, heapFull : BOOLEAN]
        BY <1>n, <3>1 DEF StackOf
      <3>3. MemTypeOK'
        BY <1>t, <1>n, <2>1, <3>1, <3>2 DEF MemTypeOK
      <3>4. StackInv'
        <4>1. \A i \in StackOf : ~(paintAt' < i /\ i < memSeen'.deepest)
          BY <1>n, <3>1, <3>2 DEF StackOf
        <4>2. memSeen'.full => memSeen'.from + 1 \notin painted'
          BY <2>1, <3>2
        <4>3. memSeen'.deepest = memSeen'.from /\ ~(memSeen'.deepest < memSeen'.from)
          BY <1>n, <3>2
        <4>4. QED
          BY <4>1, <4>2, <4>3 DEF StackInv
      <3>5. HeapInv' /\ AlarmInv'
        BY <1>t, <2>1, <3>1, <3>2 DEF HeapInv, AlarmInv
      <3>6. QED
        BY <3>3, <3>4, <3>5 DEF MemInv
    <2>4. QED
      BY <2>2, <2>3
  <1>7. CASE PaintStackNow
    <2>1. /\ memStep = "running" /\ paintAt > 0 /\ painted' = painted \union {paintAt}
          /\ paintAt' = paintAt - 1 /\ UNCHANGED <<heapPaint, sp, brk, memStep, memSeen>>
      BY <1>7 DEF PaintStackNow, Executes
    <2>2. MemTypeOK'
      BY <1>t, <1>n, <2>1 DEF MemTypeOK, StackOf
    <2>3. StackInv'
      BY <1>t, <1>n, <2>1 DEF StackInv, StackOf
    <2>4. HeapInv' /\ AlarmInv'
      BY <1>t, <2>1 DEF HeapInv, AlarmInv
    <2>5. QED
      BY <2>2, <2>3, <2>4 DEF MemInv
  <1>8. CASE UNCHANGED memVars
    BY <1>8 DEF memVars, MemInv, MemTypeOK, StackInv, HeapInv, AlarmInv
  <1>9. QED
    BY <1>1, <1>2, <1>3, <1>4, <1>5, <1>6, <1>7, <1>8 DEF MemNext

(* The watcher's alarms are never false, and what it reports is exact where*)
(* each frame and block has written its last word: for every size of the   *)
(* stack, the heap and the frames.                                         *)
THEOREM WatcherTellsAlways == MemSpec => []WatcherTells
  <1>1. MemSpec => []MemInv
    BY MemInvInit, MemStep, PTL DEF MemSpec
  <1>2. QED
    BY <1>1, MemInvImplies, PTL

-----------------------------------------------------------------------------
(* The numbers of analogWrite, random and map: ValuesScale.                *)

LEMMA TwoToExists ==
  \E f : f = [n \in 0 .. 16 |-> IF n = 0 THEN 1 ELSE 2 * f[n - 1]]
<1> DEFINE g == <<1, 2, 4, 8, 16, 32, 64, 128, 256, 512, 1024, 2048, 4096, 8192, 16384, 32768, 65536>>
           f == [n \in 0 .. 16 |-> g[n + 1]]
<1>1. ASSUME NEW n \in 0 .. 16 PROVE f[n] = IF n = 0 THEN 1 ELSE 2 * f[n - 1]
  <2>1. \/ n = 0 \/ n = 1 \/ n = 2 \/ n = 3 \/ n = 4 \/ n = 5 \/ n = 6 \/ n = 7 \/ n = 8
        \/ n = 9 \/ n = 10 \/ n = 11 \/ n = 12 \/ n = 13 \/ n = 14 \/ n = 15 \/ n = 16
    OBVIOUS
  <2>. QED BY <2>1
<1>2. f = [n \in 0 .. 16 |-> f[n]] OBVIOUS
<1> HIDE DEF f
<1>3. f = [n \in 0 .. 16 |-> IF n = 0 THEN 1 ELSE 2 * f[n - 1]] BY <1>1, <1>2
<1>. QED BY <1>3

LEMMA TwoToIs ==
  /\ TwoTo[0] = 1 /\ TwoTo[1] = 2 /\ TwoTo[2] = 4 /\ TwoTo[3] = 8 /\ TwoTo[4] = 16
  /\ TwoTo[5] = 32 /\ TwoTo[6] = 64 /\ TwoTo[7] = 128 /\ TwoTo[8] = 256 /\ TwoTo[9] = 512
  /\ TwoTo[10] = 1024 /\ TwoTo[11] = 2048 /\ TwoTo[12] = 4096 /\ TwoTo[13] = 8192
  /\ TwoTo[14] = 16384 /\ TwoTo[15] = 32768 /\ TwoTo[16] = 65536
<1>1. TwoTo = [n \in 0 .. 16 |-> IF n = 0 THEN 1 ELSE 2 * TwoTo[n - 1]]
  BY TwoToExists DEF TwoTo
<1>2. \A n \in 0 .. 16 : TwoTo[n] = IF n = 0 THEN 1 ELSE 2 * TwoTo[n - 1]
  BY <1>1
<1>3. TwoTo[0] = 1 BY <1>2
<1>4. \A n \in 1 .. 16 : TwoTo[n] = 2 * TwoTo[n - 1] BY <1>2
<1>5. /\ TwoTo[1] = 2 /\ TwoTo[2] = 4 /\ TwoTo[3] = 8 /\ TwoTo[4] = 16
      /\ TwoTo[5] = 32 /\ TwoTo[6] = 64 /\ TwoTo[7] = 128 /\ TwoTo[8] = 256
  BY <1>3, <1>4
<1>6. /\ TwoTo[9] = 512 /\ TwoTo[10] = 1024 /\ TwoTo[11] = 2048 /\ TwoTo[12] = 4096
      /\ TwoTo[13] = 8192 /\ TwoTo[14] = 16384 /\ TwoTo[15] = 32768 /\ TwoTo[16] = 65536
  BY <1>5, <1>4
<1>. QED BY <1>3, <1>5, <1>6

(* The width of a pulse whose value, brought to the width of the timer, is *)
(* s.                                                                      *)
LEMMA WidthIs ==
  ASSUME NEW W \in Nat, W > 17, NEW s \in 1 .. W - 1
  PROVE  W - ((17 - s) % W) = IF s < 18 THEN (W - 17) + s ELSE s - 17
<1>1. W \in Nat \ {0} /\ 17 - s \in Int OBVIOUS
<1>2. CASE s < 18
  <2>1. W * 0 = 0 /\ W * (0 + 1) = W /\ 0 <= 17 - s /\ 17 - s < W BY <1>2
  <2>2. (17 - s) % W = (17 - s) - (W * 0) BY <1>1, <2>1, RemainderIs
  <2>. QED BY <1>2, <2>1, <2>2
<1>3. CASE s >= 18
  <2>1. W * (-1) = -W /\ W * (-1 + 1) = 0 /\ -W <= 17 - s /\ 17 - s < 0 BY <1>3
  <2>2. (17 - s) % W = (17 - s) - (W * (-1)) BY <1>1, <2>1, RemainderIs
  <2>. QED BY <1>3, <2>1, <2>2
<1>. QED BY <1>2, <1>3

(* A value of the range, brought to 16 bits.                               *)
LEMMA ScaledIs ==
  ASSUME writeBits \in 1 .. 16, NEW x \in Nat, 0 < x, x < TwoTo[writeBits] - 1
  PROVE  /\ ConversionResolution(x, writeBits, 16) = TwoTo[16 - writeBits] * x
         /\ TwoTo[16 - writeBits] * x \in 1 .. TwoTo[16] - 1
         /\ writeBits <= 11 => ~(TwoTo[16 - writeBits] * x < 18)
         /\ TwoTo[16 - writeBits] \in Nat \ {0} /\ Written(x) = x
         /\ TwoTo[writeBits] \in Nat /\ TwoTo[16] \in Nat /\ TwoTo[16] > 17
<1> DEFINE P == TwoTo[16 - writeBits]
           B == TwoTo[writeBits]
           W == TwoTo[16]
<1>1. /\ P \in Nat \ {0} /\ B \in Nat /\ W \in Nat /\ W > 17 /\ P * B = W
      /\ writeBits <= 11 => P >= 32
  <2>1. \/ writeBits = 1 \/ writeBits = 2 \/ writeBits = 3 \/ writeBits = 4
        \/ writeBits = 5 \/ writeBits = 6 \/ writeBits = 7 \/ writeBits = 8
        \/ writeBits = 9 \/ writeBits = 10 \/ writeBits = 11 \/ writeBits = 12
        \/ writeBits = 13 \/ writeBits = 14 \/ writeBits = 15 \/ writeBits = 16
    OBVIOUS
  <2>. QED BY <2>1, TwoToIs, SMT
<1>2. ConversionResolution(x, writeBits, 16) = x * P BY DEF ConversionResolution
<1>3. Written(x) = x
  <2>1. ~(x >= B - 1) BY <1>1
  <2>. QED BY <2>1 DEF Written
<1>4. 0 < x /\ x < B BY <1>1
<1> HIDE DEF P, B, W
<1>5. P * x + P <= P * B /\ P * 0 + P <= P * x BY <1>1, <1>4, ProductGrows
<1>6. P * 0 = 0 /\ P * x \in Int /\ x * P = P * x BY <1>1
<1> DEFINE m == P * x
<1>7. m \in Int /\ m + P <= W /\ P <= m BY <1>1, <1>5, <1>6
<1> HIDE DEF m
<1>8. m \in 1 .. W - 1 /\ (writeBits <= 11 => ~(m < 18)) BY <1>1, <1>7
<1>. QED BY <1>1, <1>2, <1>3, <1>6, <1>8 DEF P, B, W, m

LEMMA LongerPulses ==
  ASSUME writeBits \in 1 .. 16
  PROVE  PulsesGrow
<1> USE AnalogAssumption
<1>1. SUFFICES ASSUME NEW v \in PwmValues, NEW w \in PwmValues,
                      0 < v, v < w, w < TwoTo[writeBits] - 1
               PROVE  \/ PulseWidth(v) < PulseWidth(w)
                      \/ writeBits > 11 /\ ConversionResolution(v, writeBits, 16) < 18
  BY DEF PulsesGrow
<1>2. v \in Nat /\ w \in Nat /\ 0 < w BY <1>1, AnalogAssumption
<1> DEFINE P == TwoTo[16 - writeBits]
           Scaled(x) == ConversionResolution(x, writeBits, 16)
           W == TwoTo[16]
<1>3. ASSUME NEW x \in Nat, 0 < x, x < TwoTo[writeBits] - 1
      PROVE  /\ Scaled(x) = P * x /\ Scaled(x) \in 1 .. W - 1
             /\ writeBits <= 11 => ~(Scaled(x) < 18)
             /\ P \in Nat \ {0} /\ W \in Nat /\ W > 17
             /\ PulseWidth(x) = IF Scaled(x) < 18 THEN (W - 17) + Scaled(x) ELSE Scaled(x) - 17
  <2>1. /\ Scaled(x) = P * x /\ Scaled(x) \in 1 .. W - 1
        /\ writeBits <= 11 => ~(Scaled(x) < 18)
        /\ P \in Nat \ {0} /\ Written(x) = x /\ W \in Nat /\ W > 17
    BY <1>3, ScaledIs
  <2>2. PulseWidth(x) = W - ((17 - Scaled(x)) % W)
    BY <2>1 DEF PulseWidth, CompareValue
  <2> HIDE DEF Scaled, P, W
  <2>3. W - ((17 - Scaled(x)) % W)
           = IF Scaled(x) < 18 THEN (W - 17) + Scaled(x) ELSE Scaled(x) - 17
    BY <2>1, WidthIs
  <2>. QED BY <2>1, <2>2, <2>3
<1>4. v < TwoTo[writeBits] - 1
  <2>1. TwoTo[writeBits] \in Nat BY <1>1, <1>2, ScaledIs
  <2>. QED BY <2>1, <1>1, <1>2
<1> HIDE DEF Scaled, P, W
<1>5. Scaled(v) < Scaled(w)
  <2>1. P \in Nat \ {0} /\ Scaled(v) = P * v /\ Scaled(w) = P * w
        /\ Scaled(v) \in Int /\ Scaled(w) \in Int
    BY <1>1, <1>2, <1>3, <1>4
  <2>2. P * v + P <= P * w BY <1>1, <1>2, <2>1, ProductGrows
  <2>3. Scaled(v) + P <= Scaled(w) BY <2>1, <2>2
  <2>. QED BY <2>1, <2>3
<1>6. /\ PulseWidth(v) = IF Scaled(v) < 18 THEN (W - 17) + Scaled(v) ELSE Scaled(v) - 17
      /\ PulseWidth(w) = IF Scaled(w) < 18 THEN (W - 17) + Scaled(w) ELSE Scaled(w) - 17
      /\ writeBits <= 11 => ~(Scaled(v) < 18)
      /\ W \in Nat /\ Scaled(v) \in 1 .. W - 1 /\ Scaled(w) \in 1 .. W - 1
  BY <1>1, <1>2, <1>3, <1>4
<1>7. CASE Scaled(v) < 18
  <2>1. writeBits > 11 BY <1>6, <1>7
  <2>. QED BY <2>1, <1>7 DEF Scaled
<1>8. CASE ~(Scaled(v) < 18) BY <1>5, <1>6, <1>8
<1>. QED BY <1>7, <1>8

(* random.                                                                 *)
LEMMA WrapIs ==
  ASSUME NEW n \in Int
  PROVE  /\ n \in -(LongMax + 1) .. LongMax => Wrap(n) = n
         /\ n > LongMax /\ n <= 3 * LongMax + 2 => Wrap(n) = n - (2 * LongMax + 2)
<1> USE ScalingAssumption
<1> DEFINE p == 2 * LongMax + 2
<1>1. p \in Nat \ {0} OBVIOUS
<1>2. ASSUME n \in -(LongMax + 1) .. LongMax PROVE Wrap(n) = n
  <2>1. n + LongMax + 1 \in 0 .. p - 1 BY <1>2
  <2>2. p * 0 = 0 /\ p * (0 + 1) = p BY <1>1
  <2>3. (n + LongMax + 1) % p = n + LongMax + 1
    <3> DEFINE m == n + LongMax + 1
    <3>1. m \in 0 .. p - 1 /\ m \in Int BY <2>1
    <3> HIDE DEF m, p
    <3>2. m % p = m - p * 0 BY <3>1, <1>1, <2>2, RemainderIs
    <3>. QED BY <3>1, <3>2, <2>2 DEF m
  <2>. QED BY <2>3 DEF Wrap
<1>3. ASSUME n > LongMax, n <= 3 * LongMax + 2 PROVE Wrap(n) = n - p
  <2> DEFINE m == n + LongMax + 1
  <2>1. m \in Int /\ p <= m /\ m < p + p BY <1>3
  <2>2. p * 1 = p /\ p * (1 + 1) = p + p BY <1>1
  <2>3. Wrap(n) = (m % p) - (LongMax + 1) BY DEF Wrap
  <2>4. m % p = m - p
    <3> HIDE DEF m, p
    <3>1. m % p = m - p * 1 BY <2>1, <1>1, <2>2, RemainderIs
    <3>. QED BY <3>1, <2>2, <1>1, <2>1
  <2>. QED BY <2>3, <2>4
<1>. QED BY <1>2, <1>3

LEMMA RemainderBelow ==
  ASSUME NEW r \in Nat, NEW d \in Int, d # 0
  PROVE  Remainder(r, d) \in 0 .. Abs(d) - 1
<1>1. Abs(r) = r /\ Abs(d) \in Nat \ {0} BY DEF Abs
<1> DEFINE e == Abs(d)
<1>2. r \div e \in Int /\ r = (e * (r \div e)) + (r % e) /\ r % e \in 0 .. e - 1
  <2> HIDE DEF e
  <2>1. e \in Nat \ {0} BY <1>1 DEF e
  <2>. QED BY <2>1
<1> DEFINE q == r \div e
<1>3. Remainder(r, d) = r - (e * q)
  <2>1. CASE d > 0
    <3>1. e = d BY <2>1 DEF Abs
    <3>2. Quotient(r, d) = q BY <2>1, <1>1 DEF Quotient
    <3>. QED BY <3>1, <3>2 DEF Remainder
  <2>2. CASE d < 0
    <3>1. e = -d BY <2>2 DEF Abs
    <3>2. Quotient(r, d) = -q BY <2>2, <1>1 DEF Quotient
    <3>3. Remainder(r, d) = r - (d * (-q)) BY <3>2 DEF Remainder
    <3> HIDE DEF q, e
    <3>4. q \in Int BY <1>2 DEF q
    <3>5. d * (-q) = (-d) * q BY <3>4
    <3>. QED BY <3>1, <3>3, <3>5
  <2>. QED BY <2>1, <2>2
<1>4. q \in Int /\ e * q \in Int
  <2> HIDE DEF e
  <2>. QED BY <1>2, <1>1 DEF e
<1> HIDE DEF q
<1>5. r - (e * q) = r % e BY <1>2, <1>4 DEF q
<1>. QED BY <1>2, <1>3, <1>5

LEMMA Randoms == RandomInRange
<1> USE ScalingAssumption
<1>1. SUFFICES ASSUME NEW r \in ScaleValues, r >= 0, NEW a \in ScaleValues, NEW b \in ScaleValues,
                      a < b
               PROVE  RandomFrom(r, a, b) \in a .. b - 1
  BY DEF RandomInRange
<1>2. /\ r \in Nat /\ a \in Int /\ b \in Int /\ LongMax \in Nat \ {0}
      /\ -(LongMax + 1) <= a /\ b <= LongMax
  BY <1>1
<1> DEFINE D == Wrap(b - a)
<1>3. /\ D \in Int /\ D # 0 /\ Abs(D) <= b - a
  <2>1. CASE b - a <= LongMax
    <3>1. D = b - a BY <1>1, <1>2, <2>1, WrapIs
    <3>. QED BY <3>1, <1>1, <1>2 DEF Abs
  <2>2. CASE b - a > LongMax
    <3>1. b - a <= 3 * LongMax + 2 /\ b - a \in Int /\ b - a < 2 * LongMax + 2 BY <1>2
    <3>2. D = (b - a) - (2 * LongMax + 2) BY <3>1, <2>2, WrapIs
    <3>3. Abs(D) = (2 * LongMax + 2) - (b - a) BY <3>1, <3>2, <1>2 DEF Abs
    <3>. QED BY <3>1, <3>2, <3>3, <2>2, <1>2
  <2>. QED BY <2>1, <2>2, <1>2
<1> HIDE DEF D
<1>4. Remainder(r, D) \in 0 .. Abs(D) - 1 BY <1>2, <1>3, RemainderBelow
<1>5. Abs(D) \in Int BY <1>3 DEF Abs
<1> DEFINE m == Remainder(r, D)
<1>6. m \in Int /\ a <= m + a /\ m + a <= b - 1 BY <1>2, <1>3, <1>4, <1>5
<1>7. RandomFrom(r, a, b) = Wrap(m + a) BY <1>1, <1>2, <1>3 DEF RandomFrom, RandomBelow, D
<1> HIDE DEF m
<1>8. Wrap(m + a) = m + a BY <1>2, <1>6, WrapIs
<1>. QED BY <1>2, <1>6, <1>7, <1>8

(* map: a range of X values that is mapped to one of Y.                    *)
LEMMA QuotientOrder ==
  ASSUME NEW x \in Nat \ {0}, NEW m \in Int, NEW n \in Int, m <= n
  PROVE  m \div x <= n \div x
<1>1. /\ m \div x \in Int /\ n \div x \in Int
      /\ m = (x * (m \div x)) + (m % x) /\ m % x \in 0 .. x - 1
      /\ n = (x * (n \div x)) + (n % x) /\ n % x \in 0 .. x - 1
  OBVIOUS
<1> DEFINE i == m \div x
           j == n \div x
<1>2. i \in Int /\ j \in Int /\ m >= x * i /\ n < x * j + x /\ x * i \in Int /\ x * j \in Int
  <2>1. i \in Int /\ j \in Int BY <1>1
  <2>2. m = x * i + (m % x) /\ n = x * j + (n % x) BY <1>1
  <2> HIDE DEF i, j
  <2>3. x * i \in Int /\ x * j \in Int BY <2>1
  <2>4. m % x \in 0 .. x - 1 /\ n % x \in 0 .. x - 1 BY <1>1
  <2>. QED BY <2>1, <2>2, <2>3, <2>4
<1>3. ~(j < i)
  <2> HIDE DEF i, j
  <2>1. j < i => x * j + x <= x * i BY <1>2, ProductGrows
  <2>. QED BY <2>1, <1>2
<1>. QED BY <1>2, <1>3

LEMMA QuotientOfProduct ==
  ASSUME NEW x \in Nat \ {0}, NEW k \in Int
  PROVE  (x * k) \div x = k
<1> DEFINE n == x * k
           i == n \div x
<1>1. n \in Int OBVIOUS
<1>2. i \in Int /\ n = (x * i) + (n % x) /\ n % x \in 0 .. x - 1
  <2> HIDE DEF n
  <2>. QED BY <1>1
<1>3. n = x * k OBVIOUS
<1> HIDE DEF i, n
<1>4. x * i \in Int /\ x * k \in Int BY <1>2
<1>5. ~(i < k)
  <2>1. i < k => x * i + x <= x * k BY <1>2, ProductGrows
  <2>. QED BY <2>1, <1>2, <1>3, <1>4
<1>6. ~(k < i)
  <2>1. k < i => x * k + x <= x * i BY <1>2, ProductGrows
  <2>. QED BY <2>1, <1>2, <1>3, <1>4
<1>7. i = k BY <1>2, <1>5, <1>6
<1>. QED BY <1>7 DEF i, n

LEMMA NegatedQuotient ==
  ASSUME NEW n \in Nat, NEW x \in Nat \ {0}
  PROVE  Quotient(-n, x) = -(n \div x)
<1>1. Abs(-n) = n /\ Abs(x) = x /\ ~(x < 0) BY DEF Abs
<1>2. CASE n = 0
  <2>1. ~(-n < 0) BY <1>2
  <2>2. Quotient(-n, x) = n \div x BY <1>1, <2>1 DEF Quotient
  <2>3. (x * 0) \div x = 0 /\ x * 0 = 0 BY QuotientOfProduct
  <2>. QED BY <1>2, <2>2, <2>3
<1>3. CASE n # 0
  <2>1. -n < 0 BY <1>3
  <2>. QED BY <1>1, <2>1 DEF Quotient
<1>. QED BY <1>2, <1>3

LEMMA Maps == MapMonotone
<1> USE ScalingAssumption
<1>1. SUFFICES ASSUME NEW a \in ScaleValues, NEW b \in ScaleValues,
                      NEW c \in ScaleValues, NEW d \in ScaleValues,
                      a < b, b - a <= LongMax, Abs(d - c) <= LongMax,
                      (b - a) * Abs(d - c) <= LongMax
               PROVE  /\ MapTo(a, a, b, c, d) = c /\ MapTo(b, a, b, c, d) = d
                      /\ \A v, w \in ScaleValues : a <= v /\ v <= w /\ w <= b =>
                            IF c <= d
                            THEN c <= MapTo(v, a, b, c, d) /\ MapTo(v, a, b, c, d) <= MapTo(w, a, b, c, d)
                            ELSE c >= MapTo(v, a, b, c, d) /\ MapTo(v, a, b, c, d) >= MapTo(w, a, b, c, d)
  BY DEF MapMonotone
<1>2. /\ a \in Int /\ b \in Int /\ c \in Int /\ d \in Int /\ LongMax \in Nat \ {0}
      /\ -(LongMax + 1) <= c /\ c <= LongMax /\ -(LongMax + 1) <= d /\ d <= LongMax
  BY <1>1
<1> DEFINE X == b - a
           Y == Abs(d - c)
<1>3. X \in Nat \ {0} /\ X <= LongMax /\ Y \in Nat /\ Y <= LongMax /\ X * Y <= LongMax
  <2>1. Y \in Nat BY <1>2 DEF Abs
  <2>2. Y <= LongMax /\ X * Y <= LongMax BY <1>1
  <2>. QED BY <2>1, <2>2, <1>1, <1>2
\* of an argument, by its distance t from a
<1>4. ASSUME NEW v \in Int, a <= v, v <= b
      PROVE  /\ v - a \in 0 .. X /\ (v - a) * Y \in Nat
             /\ ((v - a) * Y) \div X \in 0 .. Y
             /\ MapTo(v, a, b, c, d) = IF c <= d THEN c + (((v - a) * Y) \div X)
                                                 ELSE c - (((v - a) * Y) \div X)
  <2> DEFINE t == v - a
  <2>1. t \in 0 .. X /\ t \in Nat BY <1>2, <1>4
  <2>2. t * Y \in Nat /\ t * Y <= X * Y /\ X * Y \in Nat
    <3> HIDE DEF t, X, Y
    <3>1. t * Y \in Nat /\ X * Y \in Nat BY <2>1, <1>3
    <3>2. CASE Y = 0 BY <3>2, <2>1, <1>3
    <3>3. CASE Y # 0 /\ t < X
      <4>1. Y * t + Y <= Y * X BY <3>3, <2>1, <1>3, ProductGrows
      <4>2. Y * t = t * Y /\ Y * X = X * Y BY <2>1, <1>3
      <4>. QED BY <3>1, <4>1, <4>2, <1>3
    <3>4. CASE t = X BY <3>4, <3>1
    <3>. QED BY <3>1, <3>2, <3>3, <3>4, <2>1, <1>3
  <2> DEFINE k == (t * Y) \div X
  <2>3. k \in 0 .. Y
    <3> DEFINE n == t * Y
               z == X * Y
    <3>1. n \in Nat /\ z \in Nat /\ 0 <= n /\ n <= z BY <2>2
    <3>2. z \div X = Y
      <4> HIDE DEF X, Y
      <4>. QED BY <1>3, QuotientOfProduct
    <3>3. 0 \div X = 0
      <4>1. (X * 0) \div X = 0 /\ X * 0 = 0
        <5> HIDE DEF X
        <5>. QED BY <1>3, QuotientOfProduct
      <4>. QED BY <4>1
    <3> HIDE DEF n, z, X, Y
    <3>4. 0 \div X <= n \div X /\ n \div X <= z \div X BY <1>3, <3>1, QuotientOrder
    <3>5. n \div X \in Int BY <3>1, <1>3
    <3>. QED BY <3>2, <3>3, <3>4, <3>5, <1>3 DEF n
  <2>4. MapTo(v, a, b, c, d) =
          Wrap(Quotient(Wrap(Wrap(t) * Wrap(d - c)), Wrap(X)) + c)
    BY DEF MapTo
  <2>5. Wrap(t) = t /\ Wrap(X) = X
    <3> HIDE DEF t, X
    <3>. QED BY <1>2, <1>3, <2>1, WrapIs
  <2>6. Wrap(d - c) = d - c /\ d - c \in Int
    <3>1. d - c = Y \/ d - c = -Y BY <1>2 DEF Abs
    <3> HIDE DEF Y
    <3>2. d - c \in Int /\ d - c \in -(LongMax + 1) .. LongMax BY <3>1, <1>2, <1>3
    <3>. QED BY <3>2, WrapIs
  <2>7. CASE c <= d
    <3>1. d - c = Y BY <2>7, <1>2 DEF Abs
    <3>2. Wrap(t * Y) = t * Y
      <4> DEFINE n == t * Y
      <4>1. n \in Nat /\ n <= LongMax
        <5> HIDE DEF t, X, Y
        <5>. QED BY <2>2, <1>2, <1>3
      <4> HIDE DEF n
      <4>2. Wrap(n) = n BY <4>1, <1>2, WrapIs
      <4>. QED BY <4>2 DEF n
    <3>3. Quotient(t * Y, X) = k
      <4> DEFINE n == t * Y
      <4>1. n \in Nat BY <2>2
      <4> HIDE DEF n, X
      <4>2. Abs(n) = n /\ Abs(X) = X /\ ~(n < 0) /\ ~(X < 0) BY <4>1, <1>3 DEF Abs
      <4>3. Quotient(n, X) = n \div X BY <4>2 DEF Quotient
      <4>. QED BY <4>3 DEF n
    <3>4. MapTo(v, a, b, c, d) = Wrap(k + c) BY <2>4, <2>5, <2>6, <3>1, <3>2, <3>3
    <3>5. Wrap(k + c) = k + c
      <4>1. Y = d - c BY <3>1
      <4> HIDE DEF k, Y
      <4>2. k + c \in Int /\ k + c \in -(LongMax + 1) .. LongMax BY <2>3, <4>1, <1>2, <2>7
      <4>. QED BY <4>2, WrapIs
    <3> HIDE DEF k
    <3>6. k + c = c + k BY <2>3, <1>2, <1>3
    <3>. QED BY <2>1, <2>2, <2>3, <2>7, <3>4, <3>5, <3>6 DEF k
  <2>8. CASE ~(c <= d)
    <3>1. d - c = -Y /\ Y > 0 BY <2>8, <1>2 DEF Abs
    <3>2. t * (d - c) = -(t * Y)
      <4> HIDE DEF t, Y
      <4>1. t * (-Y) = -(t * Y) BY <2>1, <1>3
      <4>. QED BY <4>1, <3>1
    <3>3. Wrap(-(t * Y)) = -(t * Y)
      <4> DEFINE n == t * Y
      <4>1. n \in Nat /\ n <= LongMax
        <5> HIDE DEF t, X, Y
        <5>. QED BY <2>2, <1>2, <1>3
      <4> HIDE DEF n
      <4>2. -n \in Int /\ -n \in -(LongMax + 1) .. LongMax BY <4>1, <1>2
      <4>3. Wrap(-n) = -n BY <4>2, WrapIs
      <4>. QED BY <4>3 DEF n
    <3>4. Quotient(-(t * Y), X) = -k
      <4> DEFINE n == t * Y
      <4>1. n \in Nat BY <2>2
      <4> HIDE DEF n, X
      <4>2. Quotient(-n, X) = -(n \div X) BY <4>1, <1>3, NegatedQuotient
      <4>. QED BY <4>2 DEF n
    <3>5. MapTo(v, a, b, c, d) = Wrap(-k + c) BY <2>4, <2>5, <2>6, <3>1, <3>2, <3>3, <3>4
    <3>6. Wrap(-k + c) = c - k
      <4>1. Y = c - d BY <3>1, <1>2, <1>3
      <4> HIDE DEF k, Y
      <4>2. -k + c = c - k /\ c - k \in Int /\ c - k \in -(LongMax + 1) .. LongMax
        BY <2>3, <4>1, <1>2, <2>8
      <4>. QED BY <4>2, WrapIs
    <3> HIDE DEF k
    <3>. QED BY <2>1, <2>2, <2>3, <2>8, <3>5, <3>6 DEF k
  <2>. QED BY <2>7, <2>8
<1>5. MapTo(a, a, b, c, d) = c
  <2>1. a - a = 0 /\ a <= a /\ a <= b BY <1>1, <1>2
  <2>2. ((a - a) * Y) \div X = 0
    <3>1. (a - a) * Y = 0 /\ X * 0 = 0
      <4> HIDE DEF X, Y
      <4>. QED BY <2>1, <1>3
    <3>2. (X * 0) \div X = 0
      <4> HIDE DEF X
      <4>. QED BY <1>3, QuotientOfProduct
    <3>. QED BY <3>1, <3>2
  <2> HIDE DEF X, Y
  <2>. QED BY <2>1, <2>2, <1>2, <1>4
<1>6. MapTo(b, a, b, c, d) = d
  <2>1. b - a = X /\ a <= b /\ b <= b BY <1>1, <1>2
  <2>2. (X * Y) \div X = Y
    <3> HIDE DEF X, Y
    <3>. QED BY <1>3, QuotientOfProduct
  <2>3. MapTo(b, a, b, c, d) = IF c <= d THEN c + Y ELSE c - Y
    <3> HIDE DEF Y
    <3>. QED BY <2>1, <2>2, <1>2, <1>4
  <2>. QED BY <2>3, <1>2 DEF Abs
<1>7. ASSUME NEW v \in ScaleValues, NEW w \in ScaleValues, a <= v, v <= w, w <= b
      PROVE  IF c <= d
             THEN c <= MapTo(v, a, b, c, d) /\ MapTo(v, a, b, c, d) <= MapTo(w, a, b, c, d)
             ELSE c >= MapTo(v, a, b, c, d) /\ MapTo(v, a, b, c, d) >= MapTo(w, a, b, c, d)
  <2>1. v \in Int /\ w \in Int /\ v <= b /\ a <= w BY <1>2, <1>7
  <2> DEFINE m == (v - a) * Y
             n == (w - a) * Y
  <2>2. m \in Nat /\ n \in Nat /\ m <= n
    <3>1. m \in Nat /\ n \in Nat BY <2>1, <1>4, <1>7
    <3>2. m <= n
      <4> DEFINE s == v - a
                 t == w - a
      <4>1. s \in Nat /\ t \in Nat /\ s <= t BY <2>1, <1>2, <1>7
      <4> HIDE DEF s, t, Y
      <4>2. CASE Y = 0 BY <4>2, <4>1 DEF s, t
      <4>3. CASE Y # 0 /\ s < t
        <5>1. Y * s + Y <= Y * t BY <4>1, <4>3, <1>3, ProductGrows
        <5>2. Y * s = s * Y /\ Y * t = t * Y /\ s * Y \in Int /\ t * Y \in Int BY <4>1, <1>3
        <5>3. s * Y <= t * Y BY <5>1, <5>2, <1>3
        <5>. QED BY <5>3 DEF s, t
      <4>4. CASE s = t BY <4>4, <3>1 DEF s, t
      <4>. QED BY <4>1, <4>2, <4>3, <4>4
    <3>. QED BY <3>1, <3>2
  <2> DEFINE i == m \div X
             j == n \div X
  <2>3. i \in 0 .. Y /\ j \in 0 .. Y BY <2>1, <1>4, <1>7
  <2>4. i <= j
    <3> HIDE DEF m, n, X
    <3>. QED BY <2>2, <1>3, QuotientOrder
  <2>5. /\ MapTo(v, a, b, c, d) = IF c <= d THEN c + i ELSE c - i
        /\ MapTo(w, a, b, c, d) = IF c <= d THEN c + j ELSE c - j
    BY <2>1, <1>4, <1>7
  <2> HIDE DEF i, j, Y
  <2>. QED BY <2>3, <2>4, <2>5, <1>2, <1>3
<1>. QED BY <1>5, <1>6, <1>7

LEMMA ResolutionInv == AnalogSpec => [](writeBits \in 1 .. 16)
<1>1. AnalogInit => writeBits \in 1 .. 16 BY DEF AnalogInit
<1>2. writeBits \in 1 .. 16 /\ [AnalogNext]_analogVars => (writeBits \in 1 .. 16)'
  BY DEF AnalogNext, analogVars, AnalogRead, AsyncRegister, AsyncEnable, AsyncStart,
         ConversionEnds, AdcHandler, AdcDispatch, AnalogWriteResolution
<1>. QED BY <1>1, <1>2, PTL DEF AnalogSpec

(* Numbers keep their range and their order, at every width of a long and  *)
(* every resolution, up to the overflows that the property names.          *)
THEOREM ValuesScaleAlways == AnalogSpec => []ValuesScale
<1>1. writeBits \in 1 .. 16 => ValuesScale BY LongerPulses, Randoms, Maps DEF ValuesScale
<1>. QED BY <1>1, ResolutionInv, PTL

-----------------------------------------------------------------------------
(* The pins: PinsExact.                                                    *)

PinConfigs ==  [out : BOOLEAN, buffer : BOOLEAN, pull : {0, 1, NoLevel}, drive : SUBSET {0, 1}]
Shiftings  == [op : {"none", "out", "in"}, lsb : BOOLEAN, value : SUBSET (0 .. ShiftBits - 1),
               i : 0 .. ShiftBits, clock : {"next", "data", "up", "read"}, high : BOOLEAN]
Devices    == [edges : Nat, latched : Seq({0, 1}), offer : SUBSET (0 .. ShiftBits - 1)]
PulseCalls == [phase : {"none", "previous", "start", "stop", "done", "timeout"}, loops : Nat,
               width : Nat, result : Nat, state : {0, 1}, max : Nat, samples : Seq({0, 1})]

PinsTypeOK ==
    /\ cnf \in [Wires -> PinConfigs] /\ outReg \in [Wires -> {0, 1}]
    /\ resting \in {0, 1}
    /\ shift \in Shiftings /\ device \in Devices /\ pulse \in PulseCalls
    /\ shift.op = "out" => shift.clock # "read"
    /\ shift.op = "in" => shift.clock # "data"
    /\ shift.i = ShiftBits => shift.clock = "next"

(* How many edges the bits shifted so far have made, what they leave on the*)
(* clock, and what the device has latched at them.                         *)
Before == shift.clock \in {"next", "data"}
EdgesInv ==
    shift.op # "none" =>
        /\ ~ClockToggles => device.edges = 0
        /\ ClockToggles /\ Before =>
              /\ device.edges = IF shift.i = 0 THEN 0 ELSE shift.i - LostEdges
              /\ outReg[Clk] = IF shift.i = 0 THEN LostEdges ELSE 0
        /\ ClockToggles /\ ~Before =>
              device.edges = (shift.i + 1) - LostEdges /\ outReg[Clk] = 1
        /\ Len(device.latched) = device.edges

LatchInv ==
    shift.op = "out" =>
        /\ \A k \in 1 .. device.edges :
              device.latched[k] = LevelAt(Data, OnLine(shift.value, shift.lsb, k + LostEdges))
        /\ shift.clock = "data" => outReg[Data] = Bit(shift.value, BitPlace(shift.lsb, shift.i))

(* Of the places of a byte read those are taken that have been read as 1.  *)
ReadInv ==
    shift.op = "in" =>
        \A j \in 0 .. ShiftBits - 1 :
            BitPlace(shift.lsb, j) \in shift.value <=>
               /\ j < shift.i \/ (j = shift.i /\ shift.clock = "read")
               /\ DigitalRead(Data, Bit(device.offer, IF ClockToggles THEN (j + 1) - LostEdges ELSE 0)) = 1

(* The samples up to the n-th that differ from the state are those from p  *)
(* to q.                                                                   *)
Shape(s, state, n, p, q) == \A k \in 1 .. n : s[k] # state <=> p <= k /\ k <= q

(* The samples of a call: the state, its opposite, and the state again, of *)
(* which each loop has seen one more than it has counted.                  *)
SamplesInv(u) ==
    LET s == u.samples
        n == Len(s)
    IN  /\ u.phase = "none" => n = 0
        /\ u.phase # "done" => u.result = 0
        /\ u.phase \in {"none", "previous", "start"} => u.width = 0
        /\ u.phase = "previous" => u.loops = n /\ Shape(s, u.state, n, 1, 0)
        /\ u.phase = "start" => u.loops = n - 1 /\ \E p \in 1 .. n : Shape(s, u.state, n, p, n)
        /\ u.phase = "stop" =>
              /\ u.loops = n - 2
              /\ \E q \in 1 .. n - 1 : \E p \in 1 .. q :
                    u.width = (n - q) - 1 /\ Shape(s, u.state, n, p, q)
        /\ u.phase = "done" =>
              \E q \in 1 .. n - 2 : \E p \in 1 .. q :
                 /\ Shape(s, u.state, n - 1, p, q) /\ s[n] # u.state
                 /\ u.result = Microseconds((n - q) - 2)
        /\ u.phase = "timeout" =>
              n \in u.max + 1 .. u.max + 3 /\ \E p, q \in Nat : Shape(s, u.state, n, p, q)

PinsInv == PinsTypeOK /\ EdgesInv /\ LatchInv /\ ReadInv /\ SamplesInv(pulse)

-----------------------------------------------------------------------------
LEMMA WiresAre == Data \in Wires /\ Clk \in Wires /\ Data # Clk
BY PinsAssumption DEF Wires

LEMMA LevelsAre ==
  ASSUME PinsTypeOK, NEW p \in Wires, NEW v \in {0, 1}
  PROVE  LevelAt(p, v) \in {0, 1}
<1>1. cnf[p] \in PinConfigs /\ resting \in {0, 1} BY DEF PinsTypeOK
<1>2. cnf[p].pull \in {0, 1, NoLevel} BY <1>1 DEF PinConfigs
<1>. QED BY <1>1, <1>2 DEF LevelAt

(* A clock makes a rising edge only if it can change, by a write of 1 after*)
(* one of 0.                                                               *)
LEMMA Rising ==
  ASSUME PinsTypeOK, NEW v \in {0, 1}
  PROVE  Level(Clk) = 0 /\ LevelAt(Clk, v) = 1 <=> ClockToggles /\ outReg[Clk] = 0 /\ v = 1
<1>1. outReg[Clk] \in {0, 1} BY WiresAre DEF PinsTypeOK
<1>2. Level(Clk) = LevelAt(Clk, outReg[Clk]) BY DEF Level
<1>3. LevelAt(Clk, 0) = 1 => LevelAt(Clk, 1) # 0 BY DEF LevelAt
<1>. QED BY <1>1, <1>2, <1>3 DEF ClockToggles

LEMMA PinsInit_Inv == PinsInit => PinsInv
<1> SUFFICES ASSUME PinsInit PROVE PinsInv OBVIOUS
<1>1. <<>> \in Seq({0, 1}) /\ Len(<<>>) = 0 BY EmptySeq
<1>2. shift.op = "none" /\ pulse.phase = "none" BY DEF PinsInit, NoShift, NoPulse
<1>3. PinsTypeOK
  <2>1. Reset \in PinConfigs BY DEF Reset, PinConfigs
  <2>2. cnf \in [Wires -> PinConfigs] /\ outReg \in [Wires -> {0, 1}] /\ resting \in {0, 1}
    BY <2>1 DEF PinsInit
  <2>3. NoShift \in Shiftings /\ NoShift.clock = "next" BY PinsAssumption DEF NoShift, Shiftings
  <2>4. device \in Devices BY <1>1 DEF PinsInit, Devices
  <2>5. NoPulse \in PulseCalls BY <1>1 DEF NoPulse, PulseCalls
  <2>. QED BY <1>2, <2>2, <2>3, <2>4, <2>5 DEF PinsTypeOK, PinsInit
<1>4. SamplesInv(pulse)
  <2>1. pulse.samples = <<>> /\ pulse.result = 0 /\ pulse.width = 0 BY DEF PinsInit, NoPulse
  <2>. QED BY <1>1, <1>2, <2>1 DEF SamplesInv
<1>. QED BY <1>2, <1>3, <1>4 DEF PinsInv, EdgesInv, LatchInv, ReadInv

-----------------------------------------------------------------------------
(* The shifts.                                                             *)

ShiftInv == EdgesInv /\ LatchInv /\ ReadInv

\* what does not touch the two wires keeps the invariant
LEMMA ShiftFrame ==
  ASSUME PinsInv, UNCHANGED <<cnf, outReg, resting, shift, device>>
  PROVE  ShiftInv'
BY DEF PinsInv, ShiftInv, EdgesInv, LatchInv, ReadInv, ClockToggles, LostEdges, Before, LevelAt,
       OnLine, Bit, BitPlace, DigitalRead

LEMMA ShiftNone ==
  ASSUME shift'.op = "none"
  PROVE  ShiftInv'
BY DEF ShiftInv, EdgesInv, LatchInv, ReadInv

LEMMA ShiftBegins ==
  ASSUME PinsInv, NEW op \in {"out", "in"}, NEW lsb \in BOOLEAN,
         NEW value \in SUBSET (0 .. ShiftBits - 1), NEW offer \in SUBSET (0 .. ShiftBits - 1),
         op = "in" => value = {}, Shifts(op, lsb, value, offer)
  PROVE  PinsTypeOK' /\ ShiftInv'
<1> USE PinsAssumption
<1>1. PinsTypeOK BY DEF PinsInv
<1>2. shift' = [op |-> op, lsb |-> lsb, value |-> value, i |-> 0, clock |-> "next",
                high |-> (Level(Clk) = 1)]
  BY DEF Shifts, NoShift
<1>3. device' = [edges |-> 0, latched |-> <<>>, offer |-> offer] BY DEF Shifts
<1>4. <<>> \in Seq({0, 1}) /\ Len(<<>>) = 0 BY EmptySeq
<1>5. UNCHANGED <<cnf, outReg, resting, pulse>> BY DEF Shifts
<1>6. PinsTypeOK'
  <2>1. shift' \in Shiftings BY <1>2 DEF Shiftings
  <2>2. device' \in Devices BY <1>3, <1>4 DEF Devices
  <2>. QED BY <1>1, <1>2, <1>5, <2>1, <2>2 DEF PinsTypeOK
<1>7. (ClockToggles <=> ClockToggles') /\ Level(Clk) = LevelAt(Clk, outReg[Clk])
  BY <1>5 DEF ClockToggles, LevelAt, Level
<1>8. outReg[Clk] \in {0, 1} BY <1>1, WiresAre DEF PinsTypeOK
<1>9. EdgesInv'
  <2>1. ClockToggles => outReg[Clk] = LostEdges'
    BY <1>2, <1>7, <1>8 DEF ClockToggles, LostEdges
  <2>. QED BY <1>2, <1>3, <1>4, <1>5, <1>7, <2>1 DEF EdgesInv, Before
<1>10. LatchInv' BY <1>2, <1>3 DEF LatchInv
<1>11. ReadInv'
  <2>1. /\ shift'.i = 0 /\ shift'.clock = "next" /\ shift'.op = op /\ shift'.value = value
    BY <1>2
  <2>2. \A j \in 0 .. ShiftBits - 1 : ~(j < 0) OBVIOUS
  <2>. QED BY <2>1, <2>2 DEF ReadInv
<1>. QED BY <1>6, <1>9, <1>10, <1>11 DEF ShiftInv

(* What a step of a shift keeps.                                           *)
LEMMA ShiftKeeps ==
  ASSUME PinsInv, NEW op \in {"out", "in"}, NEW from, NEW to \in {"next", "data", "up", "read"},
         ShiftStep(op, from, to)
  PROVE  /\ UNCHANGED <<cnf, resting, pulse>>
         /\ shift.op = op /\ shift.i \in 0 .. ShiftBits - 1 /\ shift.clock = from
         /\ shift' = [op |-> op, lsb |-> shift.lsb, value |-> shift.value,
                      i |-> IF to = "next" THEN shift.i + 1 ELSE shift.i, clock |-> to,
                      high |-> shift.high]
         /\ (ClockToggles <=> ClockToggles') /\ LostEdges' = LostEdges
         /\ \A v \in {0, 1} : LevelAt(Data, v)' = LevelAt(Data, v)
         /\ (op = "out" => to # "read") /\ (op = "in" => to # "data") => shift' \in Shiftings
<1> USE PinsAssumption
<1>1. shift \in Shiftings BY DEF PinsInv, PinsTypeOK
<1>2. UNCHANGED <<cnf, resting, pulse>> BY DEF ShiftStep
<1>3. shift.op = op /\ shift.i < ShiftBits /\ shift.clock = from BY DEF ShiftStep
<1>4. shift.i \in 0 .. ShiftBits - 1 BY <1>1, <1>3 DEF Shiftings
<1>5. shift' = [op |-> op, lsb |-> shift.lsb, value |-> shift.value,
                i |-> IF to = "next" THEN shift.i + 1 ELSE shift.i, clock |-> to,
                high |-> shift.high]
  <2>1. shift' = [shift EXCEPT !.clock = to, !.i = IF to = "next" THEN @ + 1 ELSE @]
    BY DEF ShiftStep
  <2>. QED BY <1>1, <1>3, <2>1 DEF Shiftings
<1>6. ClockToggles <=> ClockToggles' BY <1>2 DEF ClockToggles, LevelAt
<1>7. LostEdges' = LostEdges BY <1>5 DEF LostEdges
<1>8. \A v \in {0, 1} : LevelAt(Data, v)' = LevelAt(Data, v) BY <1>2 DEF LevelAt
<1>9. shift' \in Shiftings BY <1>1, <1>4, <1>5 DEF Shiftings
<1>. QED BY <1>2, <1>3, <1>4, <1>5, <1>6, <1>7, <1>8, <1>9

LEMMA WriteTypes ==
  ASSUME PinsTypeOK, NEW p \in Wires, NEW v \in {0, 1}, WriteLevel(p, v)
  PROVE  /\ outReg' \in [Wires -> {0, 1}] /\ outReg'[p] = v
         /\ \A r \in Wires \ {p} : outReg'[r] = outReg[r]
         /\ device' \in Devices /\ device'.offer = device.offer
         /\ IF p = Clk /\ ClockToggles /\ outReg[Clk] = 0 /\ v = 1
            THEN /\ device'.edges = device.edges + 1
                 /\ device'.latched = Append(device.latched, Level(Data))
            ELSE device' = device
<1>1. outReg \in [Wires -> {0, 1}] /\ device \in Devices BY DEF PinsTypeOK
<1>2. outReg' = [outReg EXCEPT ![p] = v] BY DEF WriteLevel
<1>3. CASE p = Clk /\ ClockToggles /\ outReg[Clk] = 0 /\ v = 1
  <2>1. Level(Clk) = 0 /\ LevelAt(Clk, v) = 1 BY <1>3, Rising
  <2>2. device' = [device EXCEPT !.edges = @ + 1, !.latched = Append(@, Level(Data))]
    BY <1>3, <2>1 DEF WriteLevel
  <2>3. Level(Data) \in {0, 1} BY <1>1, WiresAre, LevelsAre DEF Level
  <2>4. /\ device.edges \in Nat /\ device.latched \in Seq({0, 1})
        /\ device.offer \in SUBSET (0 .. ShiftBits - 1)
    BY <1>1 DEF Devices
  <2>5. Append(device.latched, Level(Data)) \in Seq({0, 1}) BY <2>3, <2>4, AppendProperties
  <2>6. device' = [edges |-> device.edges + 1, latched |-> Append(device.latched, Level(Data)),
                   offer |-> device.offer]
    BY <1>1, <2>2 DEF Devices
  <2>7. device' \in Devices BY <2>4, <2>5, <2>6 DEF Devices
  <2>. QED BY <1>1, <1>2, <1>3, <2>6, <2>7
<1>4. CASE ~(p = Clk /\ ClockToggles /\ outReg[Clk] = 0 /\ v = 1)
  <2>1. ~(p = Clk /\ Level(Clk) = 0 /\ LevelAt(Clk, v) = 1) BY <1>4, Rising
  <2>2. device' = device BY <2>1 DEF WriteLevel
  <2>. QED BY <1>1, <1>2, <1>4, <2>2
<1>. QED BY <1>3, <1>4

LEMMA ShiftOutKeeps ==
  ASSUME PinsInv, ShiftOut
  PROVE  PinsTypeOK' /\ ShiftInv'
<1> USE PinsAssumption
<1>0. /\ PinsTypeOK /\ EdgesInv /\ LatchInv /\ Data \in Wires /\ Clk \in Wires /\ Data # Clk
      /\ shift \in Shiftings /\ device \in Devices
  BY WiresAre DEF PinsInv, PinsTypeOK
<1>t. /\ device.edges \in Nat /\ device.latched \in Seq({0, 1})
      /\ shift.lsb \in BOOLEAN /\ shift.i \in 0 .. ShiftBits
  BY <1>0 DEF Devices, Shiftings
<1>l. LostEdges \in {0, 1} BY DEF LostEdges
<1>1. CASE ShiftStep("out", "next", "data")
           /\ WriteLevel(Data, Bit(shift.value, BitPlace(shift.lsb, shift.i)))
  <2> DEFINE v == Bit(shift.value, BitPlace(shift.lsb, shift.i))
  <2>1. v \in {0, 1} BY DEF Bit
  <2>2. /\ UNCHANGED <<cnf, resting, pulse>> /\ shift.op = "out" /\ shift.clock = "next"
        /\ shift.i \in 0 .. ShiftBits - 1
        /\ shift' = [op |-> "out", lsb |-> shift.lsb, value |-> shift.value, i |-> shift.i,
                     clock |-> "data", high |-> shift.high]
        /\ (ClockToggles <=> ClockToggles') /\ LostEdges' = LostEdges
        /\ \A x \in {0, 1} : LevelAt(Data, x)' = LevelAt(Data, x)
        /\ shift' \in Shiftings
    BY <1>1, ShiftKeeps
  <2>3. outReg' \in [Wires -> {0, 1}] /\ outReg'[Data] = v /\ outReg'[Clk] = outReg[Clk]
        /\ device' = device
    <3> HIDE DEF v
    <3>1. WriteLevel(Data, v) BY <1>1 DEF v
    <3>. QED BY <1>0, <2>1, <3>1, WriteTypes
  <2>4. PinsTypeOK' BY <1>0, <2>2, <2>3 DEF PinsTypeOK
  <2>5. EdgesInv' BY <1>0, <2>2, <2>3 DEF EdgesInv, Before
  <2>6. LatchInv'
    <3>1. \A k \in 1 .. device.edges : LevelAt(Data, OnLine(shift.value, shift.lsb, k + LostEdges))'
                                 = LevelAt(Data, OnLine(shift.value, shift.lsb, k + LostEdges))
      <4>1. \A k \in 1 .. device.edges : OnLine(shift.value, shift.lsb, k + LostEdges) \in {0, 1}
        BY DEF OnLine, Bit
      <4>. QED BY <2>2, <4>1 DEF OnLine, Bit, LevelAt
    <3>2. v = Bit(shift'.value, BitPlace(shift'.lsb, shift'.i)) BY <2>2
    <3> HIDE DEF v
    <3>. QED BY <1>0, <2>2, <2>3, <3>1, <3>2 DEF LatchInv
  <2>7. ReadInv' BY <2>2 DEF ReadInv
  <2>. QED BY <2>4, <2>5, <2>6, <2>7 DEF ShiftInv
<1>2. CASE ShiftStep("out", "data", "up") /\ WriteLevel(Clk, 1)
  <2>2. /\ UNCHANGED <<cnf, resting, pulse>> /\ shift.op = "out" /\ shift.clock = "data"
        /\ shift.i \in 0 .. ShiftBits - 1
        /\ shift' = [op |-> "out", lsb |-> shift.lsb, value |-> shift.value, i |-> shift.i,
                     clock |-> "up", high |-> shift.high]
        /\ (ClockToggles <=> ClockToggles') /\ LostEdges' = LostEdges
        /\ \A x \in {0, 1} : LevelAt(Data, x)' = LevelAt(Data, x)
        /\ shift' \in Shiftings
    BY <1>2, ShiftKeeps
  <2>3. /\ outReg' \in [Wires -> {0, 1}] /\ outReg'[Clk] = 1 /\ device' \in Devices
        /\ IF ClockToggles /\ outReg[Clk] = 0
           THEN /\ device'.edges = device.edges + 1
                /\ device'.latched = Append(device.latched, Level(Data))
           ELSE device' = device
    BY <1>0, <1>2, WriteTypes
  <2>4. PinsTypeOK' BY <1>0, <2>2, <2>3 DEF PinsTypeOK
  <2>5. Before /\ ~Before' BY <2>2 DEF Before
  <2>6. /\ ~ClockToggles => device.edges = 0
        /\ ClockToggles => /\ device.edges = IF shift.i = 0 THEN 0 ELSE shift.i - LostEdges
                           /\ outReg[Clk] = IF shift.i = 0 THEN LostEdges ELSE 0
        /\ Len(device.latched) = device.edges
    BY <1>0, <2>2, <2>5 DEF EdgesInv
  <2>7. Len(Append(device.latched, Level(Data))) = device.edges + 1
        /\ \A k \in 1 .. device.edges + 1 : Append(device.latched, Level(Data))[k] =
              IF k = device.edges + 1 THEN Level(Data) ELSE device.latched[k]
    BY <1>t, <2>6
  <2>8. EdgesInv'
    <3>1. ClockToggles => device'.edges = (shift.i + 1) - LostEdges
      BY <1>l, <1>t, <2>2, <2>3, <2>6
    <3>2. ~ClockToggles => device'.edges = 0 BY <2>3, <2>6
    <3>3. Len(device'.latched) = device'.edges BY <2>3, <2>6, <2>7
    <3>. QED BY <2>2, <2>3, <2>5, <3>1, <3>2, <3>3 DEF EdgesInv
  <2>9. LatchInv'
    <3>1. ASSUME NEW k \in 1 .. device'.edges
          PROVE  device'.latched[k] = LevelAt(Data, OnLine(shift.value, shift.lsb, k + LostEdges))
      <4>1. CASE ClockToggles /\ outReg[Clk] = 0
        <5>1. CASE k = device.edges + 1
          <6>1. k + LostEdges = shift.i + 1 BY <4>1, <5>1, <1>l, <1>t, <2>2, <2>6
          <6>2. OnLine(shift.value, shift.lsb, shift.i + 1) = Bit(shift.value, BitPlace(shift.lsb, shift.i))
            <7>1. (shift.i + 1) - 1 = shift.i /\ ShiftBits - (shift.i + 1) = ShiftBits - 1 - shift.i
              BY <2>2
            <7>. QED BY <7>1 DEF OnLine, BitPlace
          <6>3. Level(Data) = LevelAt(Data, OnLine(shift.value, shift.lsb, shift.i + 1))
            BY <1>0, <2>2, <6>2 DEF LatchInv, Level
          <6>. QED BY <4>1, <5>1, <6>1, <6>3, <2>3, <2>7
        <5>2. CASE k # device.edges + 1
          <6>1. k \in 1 .. device.edges /\ k \in 1 .. device.edges + 1 BY <4>1, <5>2, <1>t, <2>3
          <6>2. device'.latched[k] = device.latched[k] BY <4>1, <5>2, <6>1, <2>3, <2>7
          <6>. QED BY <1>0, <2>2, <6>1, <6>2 DEF LatchInv
        <5>. QED BY <5>1, <5>2
      <4>2. CASE ~(ClockToggles /\ outReg[Clk] = 0)
        <5>1. device' = device BY <4>2, <2>3
        <5>. QED BY <1>0, <2>2, <5>1 DEF LatchInv
      <4>. QED BY <4>1, <4>2
    <3>2. \A k \in 1 .. device'.edges : LevelAt(Data, OnLine(shift.value, shift.lsb, k + LostEdges))'
                                 = LevelAt(Data, OnLine(shift.value, shift.lsb, k + LostEdges))
      BY <2>2 DEF OnLine, Bit, LevelAt
    <3>. QED BY <2>2, <3>1, <3>2 DEF LatchInv
  <2>10. ReadInv' BY <2>2 DEF ReadInv
  <2>. QED BY <2>4, <2>8, <2>9, <2>10 DEF ShiftInv
<1>3. CASE ShiftStep("out", "up", "next") /\ WriteLevel(Clk, 0)
  <2>2. /\ UNCHANGED <<cnf, resting, pulse>> /\ shift.op = "out" /\ shift.clock = "up"
        /\ shift.i \in 0 .. ShiftBits - 1
        /\ shift' = [op |-> "out", lsb |-> shift.lsb, value |-> shift.value, i |-> shift.i + 1,
                     clock |-> "next", high |-> shift.high]
        /\ (ClockToggles <=> ClockToggles') /\ LostEdges' = LostEdges
        /\ \A x \in {0, 1} : LevelAt(Data, x)' = LevelAt(Data, x)
        /\ shift' \in Shiftings
    BY <1>3, ShiftKeeps
  <2>3. outReg' \in [Wires -> {0, 1}] /\ outReg'[Clk] = 0 /\ device' = device
    BY <1>0, <1>3, WriteTypes
  <2>4. PinsTypeOK' BY <1>0, <2>2, <2>3 DEF PinsTypeOK
  <2>5. ~Before /\ Before' /\ shift'.i # 0 BY <2>2 DEF Before
  <2>6. EdgesInv' BY <1>0, <2>2, <2>3, <2>5 DEF EdgesInv
  <2>7. LatchInv'
    <3>1. \A k \in 1 .. device.edges : LevelAt(Data, OnLine(shift.value, shift.lsb, k + LostEdges))'
                                 = LevelAt(Data, OnLine(shift.value, shift.lsb, k + LostEdges))
      BY <2>2 DEF OnLine, Bit, LevelAt
    <3>. QED BY <1>0, <2>2, <2>3, <3>1 DEF LatchInv
  <2>8. ReadInv' BY <2>2 DEF ReadInv
  <2>. QED BY <2>4, <2>6, <2>7, <2>8 DEF ShiftInv
<1>. QED BY <1>1, <1>2, <1>3 DEF ShiftOut

LEMMA ShiftInKeeps ==
  ASSUME PinsInv, ShiftIn
  PROVE  PinsTypeOK' /\ ShiftInv'
<1> USE PinsAssumption
<1>0. /\ PinsTypeOK /\ EdgesInv /\ ReadInv /\ Data \in Wires /\ Clk \in Wires /\ Data # Clk
      /\ shift \in Shiftings /\ device \in Devices
  BY WiresAre DEF PinsInv, PinsTypeOK
<1>t. /\ device.edges \in Nat /\ device.latched \in Seq({0, 1})
      /\ shift.lsb \in BOOLEAN /\ shift.i \in 0 .. ShiftBits
      /\ shift.value \in SUBSET (0 .. ShiftBits - 1)
  BY <1>0 DEF Devices, Shiftings
<1>l. LostEdges \in {0, 1} BY DEF LostEdges
<1>1. CASE ShiftStep("in", "next", "up") /\ WriteLevel(Clk, 1)
  <2>2. /\ UNCHANGED <<cnf, resting, pulse>> /\ shift.op = "in" /\ shift.clock = "next"
        /\ shift.i \in 0 .. ShiftBits - 1
        /\ shift' = [op |-> "in", lsb |-> shift.lsb, value |-> shift.value, i |-> shift.i,
                     clock |-> "up", high |-> shift.high]
        /\ (ClockToggles <=> ClockToggles') /\ LostEdges' = LostEdges
        /\ shift' \in Shiftings
    BY <1>1, ShiftKeeps
  <2>3. /\ outReg' \in [Wires -> {0, 1}] /\ outReg'[Clk] = 1 /\ device' \in Devices
        /\ device'.offer = device.offer
        /\ IF ClockToggles /\ outReg[Clk] = 0
           THEN /\ device'.edges = device.edges + 1
                /\ device'.latched = Append(device.latched, Level(Data))
           ELSE device' = device
    BY <1>0, <1>1, WriteTypes
  <2>4. PinsTypeOK' BY <1>0, <2>2, <2>3 DEF PinsTypeOK
  <2>5. Before /\ ~Before' BY <2>2 DEF Before
  <2>6. /\ ~ClockToggles => device.edges = 0
        /\ ClockToggles => /\ device.edges = IF shift.i = 0 THEN 0 ELSE shift.i - LostEdges
                           /\ outReg[Clk] = IF shift.i = 0 THEN LostEdges ELSE 0
        /\ Len(device.latched) = device.edges
    BY <1>0, <2>2, <2>5 DEF EdgesInv
  <2>7. Len(Append(device.latched, Level(Data))) = device.edges + 1
    BY <1>t, <2>6
  <2>8. EdgesInv'
    <3>1. ClockToggles => device'.edges = (shift.i + 1) - LostEdges
      BY <1>l, <1>t, <2>2, <2>3, <2>6
    <3>2. ~ClockToggles => device'.edges = 0 BY <2>3, <2>6
    <3>3. Len(device'.latched) = device'.edges BY <2>3, <2>6, <2>7
    <3>. QED BY <2>2, <2>3, <2>5, <3>1, <3>2, <3>3 DEF EdgesInv
  <2>9. LatchInv' BY <2>2 DEF LatchInv
  <2>10. ReadInv' BY <1>0, <2>2, <2>3 DEF ReadInv, DigitalRead, Bit, BitPlace
  <2>. QED BY <2>4, <2>8, <2>9, <2>10 DEF ShiftInv
<1>2. CASE /\ ~pinHalt /\ shift.op = "in" /\ shift.clock = "up"
           /\ shift' = [shift EXCEPT !.clock = "read",
                         !.value = IF DigitalRead(Data, Bit(device.offer, device.edges)) = 1
                                   THEN @ \union {BitPlace(shift.lsb, shift.i)} ELSE @]
           /\ UNCHANGED <<cnf, outReg, resting, device, pulse, pinHalt>>
  <2> DEFINE one == DigitalRead(Data, Bit(device.offer, device.edges)) = 1
  <2>1. shift.i \in 0 .. ShiftBits - 1 BY <1>0, <1>2, <1>t DEF PinsTypeOK
  <2>2. BitPlace(shift.lsb, shift.i) \in 0 .. ShiftBits - 1 BY <2>1, <1>t DEF BitPlace
  <2>3. shift' = [op |-> "in", lsb |-> shift.lsb,
                  value |-> IF one THEN shift.value \union {BitPlace(shift.lsb, shift.i)}
                            ELSE shift.value,
                  i |-> shift.i, clock |-> "read", high |-> shift.high]
    BY <1>0, <1>2 DEF Shiftings
  <2>4. shift' \in Shiftings
    <3> HIDE DEF one
    <3>. QED BY <1>0, <2>2, <2>3 DEF Shiftings
  <2>5. PinsTypeOK' BY <1>0, <1>2, <2>1, <2>3, <2>4 DEF PinsTypeOK
  <2>6. (ClockToggles <=> ClockToggles') /\ LostEdges' = LostEdges
    BY <1>2, <2>3 DEF ClockToggles, LevelAt, LostEdges
  <2>7. ~Before /\ ~Before' BY <1>2, <2>3 DEF Before
  <2>8. EdgesInv' BY <1>0, <1>2, <2>3, <2>6, <2>7 DEF EdgesInv
  <2>9. LatchInv' BY <2>3 DEF LatchInv
  <2>10. ReadInv'
    <3> DEFINE Sees(j) == DigitalRead(Data, Bit(device.offer, IF ClockToggles THEN (j + 1) - LostEdges ELSE 0)) = 1
    <3>1. device.edges = IF ClockToggles THEN (shift.i + 1) - LostEdges ELSE 0
      BY <1>0, <1>2, <2>7 DEF EdgesInv
    <3>2. one <=> Sees(shift.i) BY <3>1
    <3>3. \A j \in 0 .. ShiftBits - 1 : BitPlace(shift.lsb, j) \in shift.value <=> j < shift.i /\ Sees(j)
      BY <1>0, <1>2 DEF ReadInv
    <3>4. \A j \in 0 .. ShiftBits - 1 : BitPlace(shift.lsb, j) = BitPlace(shift.lsb, shift.i) <=> j = shift.i
      BY <2>1 DEF BitPlace
    <3>5. ASSUME NEW j \in 0 .. ShiftBits - 1
          PROVE  BitPlace(shift.lsb, j) \in shift'.value <=> j <= shift.i /\ Sees(j)
      <4> HIDE DEF one, Sees
      <4>1. shift'.value = IF one THEN shift.value \union {BitPlace(shift.lsb, shift.i)} ELSE shift.value
        BY <2>3
      <4>2. CASE j = shift.i
        <5>1. BitPlace(shift.lsb, j) \notin shift.value BY <3>3, <4>2, <2>1
        <5>. QED BY <4>1, <4>2, <5>1, <3>2, <2>1
      <4>3. CASE j # shift.i
        <5>1. BitPlace(shift.lsb, j) \in shift'.value <=> BitPlace(shift.lsb, j) \in shift.value
          BY <4>1, <4>3, <3>4
        <5>. QED BY <5>1, <4>3, <3>3, <2>1
      <4>. QED BY <4>2, <4>3
    <3>6. \A j \in 0 .. ShiftBits - 1 :
             DigitalRead(Data, Bit(device.offer, IF ClockToggles THEN (j + 1) - LostEdges ELSE 0))' =
             DigitalRead(Data, Bit(device.offer, IF ClockToggles THEN (j + 1) - LostEdges ELSE 0))
      BY <1>2, <2>6 DEF DigitalRead, Bit
    <3>7. \A j \in 0 .. ShiftBits - 1 : BitPlace(shift.lsb, j)' = BitPlace(shift.lsb, j)
      BY <2>3 DEF BitPlace
    <3>8. \A j \in 0 .. ShiftBits - 1 : j <= shift.i <=> j < shift'.i \/ (j = shift'.i /\ shift'.clock = "read")
      BY <2>1, <2>3
    <3>. QED BY <3>5, <3>6, <3>7, <3>8 DEF ReadInv
  <2>. QED BY <2>5, <2>8, <2>9, <2>10 DEF ShiftInv
<1>3. CASE ShiftStep("in", "read", "next") /\ WriteLevel(Clk, 0)
  <2>2. /\ UNCHANGED <<cnf, resting, pulse>> /\ shift.op = "in" /\ shift.clock = "read"
        /\ shift.i \in 0 .. ShiftBits - 1
        /\ shift' = [op |-> "in", lsb |-> shift.lsb, value |-> shift.value, i |-> shift.i + 1,
                     clock |-> "next", high |-> shift.high]
        /\ (ClockToggles <=> ClockToggles') /\ LostEdges' = LostEdges
        /\ shift' \in Shiftings
    BY <1>3, ShiftKeeps
  <2>3. outReg' \in [Wires -> {0, 1}] /\ outReg'[Clk] = 0 /\ device' = device
    BY <1>0, <1>3, WriteTypes
  <2>4. PinsTypeOK' BY <1>0, <2>2, <2>3 DEF PinsTypeOK
  <2>5. ~Before /\ Before' /\ shift'.i # 0 BY <2>2 DEF Before
  <2>6. EdgesInv' BY <1>0, <2>2, <2>3, <2>5 DEF EdgesInv
  <2>7. LatchInv' BY <2>2 DEF LatchInv
  <2>8. ReadInv'
    <3>1. \A j \in 0 .. ShiftBits - 1 : j < shift.i \/ j = shift.i <=> j < shift.i + 1 BY <2>2
    <3>. QED BY <1>0, <2>2, <2>3, <3>1 DEF ReadInv, DigitalRead, Bit, BitPlace
  <2>. QED BY <2>4, <2>6, <2>7, <2>8 DEF ShiftInv
<1>. QED BY <1>1, <1>2, <1>3 DEF ShiftIn

-----------------------------------------------------------------------------
(* The pulses.                                                             *)

LEMMA CyclesTime ==
  ASSUME NEW c \in Nat
  PROVE  /\ (c % PulseWord) \div 16 \in Nat
         /\ IF c < PulseWord THEN (c % PulseWord) \div 16 = c \div 16
                             ELSE (c % PulseWord) \div 16 < c \div 16
<1> USE PinsAssumption
<1> DEFINE q == c \div PulseWord
           m == c % PulseWord
<1>1. q \in Int /\ m \in 0 .. PulseWord - 1 /\ c = (PulseWord * q) + m OBVIOUS
<1>2. CASE c < PulseWord
  <2>1. m = c BY <1>2
  <2> HIDE DEF m
  <2>. QED BY <1>1, <1>2, <2>1 DEF m
<1>3. CASE c >= PulseWord
  <2>1. m <= c - 16
    <3> HIDE DEF q, m
    <3>1. PulseWord * q \in Int BY <1>1
    <3>2. q > 0
      <4>1. CASE q = 0
        <5>1. PulseWord * q = 0 BY <4>1
        <5>. QED BY <5>1, <1>1, <1>3
      <4>2. CASE q < 0
        <5>1. PulseWord * q + PulseWord <= PulseWord * 0 /\ PulseWord * 0 = 0 BY <4>2, <1>1, ProductGrows
        <5>. QED BY <3>1, <5>1, <1>1, <1>3
      <4>. QED BY <4>1, <4>2, <1>1
    <3>3. PulseWord * 0 + PulseWord <= PulseWord * q /\ PulseWord * 0 = 0 BY <1>1, <3>2, ProductGrows
    <3>. QED BY <3>1, <3>3, <1>1
  <2>2. m \in Nat BY <1>1
  <2> HIDE DEF m
  <2>3. m \div 16 \in Nat /\ m \div 16 < c \div 16 BY <2>1, <2>2
  <2>. QED BY <2>3, <1>3 DEF m
<1>. QED BY <1>2, <1>3

LEMMA NoRun ==
  ASSUME NEW s, NEW n \in Nat, NEW p \in Int, NEW q \in Int, Shape(s, pulse.state, n, p, q)
  PROVE  \A i, j \in 1 .. n : ~Run(s, i, j)
<1> SUFFICES ASSUME NEW i \in 1 .. n, NEW j \in 1 .. n, Run(s, i, j) PROVE FALSE OBVIOUS
<1>1. i < j - 1 /\ s[i] # pulse.state /\ s[j] # pulse.state BY DEF Run
<1>2. p <= i /\ j <= q BY <1>1 DEF Shape
<1>3. i + 1 \in 1 .. n /\ i + 1 \in i + 1 .. j - 1 /\ p <= i + 1 /\ i + 1 <= q BY <1>1, <1>2
<1>4. s[i + 1] = pulse.state BY <1>3 DEF Run
<1>5. s[i + 1] # pulse.state BY <1>3 DEF Shape
<1>. QED BY <1>4, <1>5

LEMMA AppendShape ==
  ASSUME NEW s \in Seq({0, 1}), NEW x \in {0, 1}, NEW state, NEW p \in Int, NEW q \in Int,
         Shape(s, state, Len(s), p, q)
  PROVE  /\ Append(s, x) \in Seq({0, 1}) /\ Len(Append(s, x)) = Len(s) + 1 /\ Len(s) \in Nat
         /\ Append(s, x)[Len(s) + 1] = x
         /\ Shape(Append(s, x), state, Len(s), p, q)
         /\ x = state /\ q <= Len(s) => Shape(Append(s, x), state, Len(s) + 1, p, q)
         /\ x # state /\ q = Len(s) /\ p <= Len(s) + 1 =>
               Shape(Append(s, x), state, Len(s) + 1, p, Len(s) + 1)
         /\ x # state /\ q < 1 => Shape(Append(s, x), state, Len(s) + 1, Len(s) + 1, Len(s) + 1)
<1> DEFINE n == Len(s)
           t == Append(s, x)
<1>1. /\ t \in Seq({0, 1}) /\ Len(t) = n + 1 /\ n \in Nat /\ t[n + 1] = x
      /\ \A k \in 1 .. n : t[k] = s[k]
  BY AppendProperties, LenProperties
<1> HIDE DEF t, n
<1>2. \A k \in 1 .. n : s[k] # state <=> p <= k /\ k <= q BY DEF Shape, n
<1>3. Shape(t, state, n, p, q) BY <1>1, <1>2 DEF Shape
<1>4. \A k \in 1 .. n + 1 : k \in 1 .. n \/ k = n + 1 BY <1>1
<1>5. ASSUME x = state, q <= n PROVE Shape(t, state, n + 1, p, q)
  BY <1>1, <1>2, <1>4, <1>5 DEF Shape
<1>6. ASSUME x # state, q = n, p <= n + 1 PROVE Shape(t, state, n + 1, p, n + 1)
  BY <1>1, <1>2, <1>4, <1>6 DEF Shape
<1>7. ASSUME x # state, q < 1 PROVE Shape(t, state, n + 1, n + 1, n + 1)
  BY <1>1, <1>2, <1>4, <1>7 DEF Shape
<1>. QED BY <1>1, <1>3, <1>5, <1>6, <1>7 DEF n, t

(* A loop goes on, or ends in a timeout.                                   *)
LEMMA LoopIs ==
  ASSUME NEW p \in PulseCalls, NEW width \in Nat
  PROVE  /\ Loop(p, width) \in PulseCalls
         /\ Loop(p, width).samples = p.samples /\ Loop(p, width).state = p.state
         /\ Loop(p, width).max = p.max /\ Loop(p, width).result = p.result
         /\ p.loops = p.max => Loop(p, width).phase = "timeout"
         /\ p.loops # p.max => /\ Loop(p, width).phase = p.phase /\ Loop(p, width).width = width
                               /\ Loop(p, width).loops = p.loops + 1
<1>1. CASE p.loops = p.max
  <2>1. Loop(p, width) = [p EXCEPT !.phase = "timeout"] BY <1>1 DEF Loop
  <2>. QED BY <1>1, <2>1 DEF PulseCalls
<1>2. CASE p.loops # p.max
  <2>1. Loop(p, width) = [p EXCEPT !.loops = @ + 1, !.width = width] BY <1>2 DEF Loop
  <2>2. Loop(p, width) = [phase |-> p.phase, loops |-> p.loops + 1, width |-> width,
                          result |-> p.result, state |-> p.state, max |-> p.max,
                          samples |-> p.samples]
    BY <2>1 DEF PulseCalls
  <2>3. p.loops + 1 \in Nat BY DEF PulseCalls
  <2>4. Loop(p, width) \in PulseCalls BY <2>2, <2>3 DEF PulseCalls
  <2>. QED BY <1>2, <2>2, <2>4
<1>. QED BY <1>1, <1>2

LEMMA SampleKeeps ==
  ASSUME PinsInv, pulse.phase \in {"previous", "start", "stop"},
         NEW level \in {0, 1}, PulseSample(level)
  PROVE  pulse' \in PulseCalls /\ SamplesInv(pulse')
<1> USE PinsAssumption
<1> DEFINE seen == DigitalRead(Data, level)
           p == [pulse EXCEPT !.samples = Append(@, seen)]
           s == pulse.samples
           n == Len(s)
           t == Append(s, seen)
<1>1. /\ pulse \in PulseCalls /\ SamplesInv(pulse) BY DEF PinsInv, PinsTypeOK
<1>2. seen \in {0, 1} BY DEF DigitalRead
<1>3. /\ s \in Seq({0, 1}) /\ n \in Nat /\ pulse.loops \in Nat /\ pulse.max \in Nat
      /\ pulse.width \in Nat /\ pulse.state \in {0, 1}
  BY <1>1 DEF PulseCalls
<1>4. t \in Seq({0, 1}) /\ Len(t) = n + 1
  <2> HIDE DEF seen
  <2>. QED BY <1>2, <1>3, AppendProperties
<1>5. /\ p \in PulseCalls /\ p.samples = t /\ p.phase = pulse.phase /\ p.loops = pulse.loops
      /\ p.max = pulse.max /\ p.width = pulse.width /\ p.state = pulse.state
      /\ p.result = pulse.result
  <2> HIDE DEF seen, t
  <2>1. p = [pulse EXCEPT !.samples = t] BY <1>1 DEF t, PulseCalls
  <2>. QED BY <1>1, <1>4, <2>1 DEF PulseCalls
<1>6. pulse.result = 0 BY <1>1 DEF SamplesInv
<1>7. pulse' = CASE pulse.phase = "previous" /\ seen = pulse.state  -> Loop(p, 0)
                 [] pulse.phase = "previous" /\ seen # pulse.state -> [p EXCEPT !.phase = "start"]
                 [] pulse.phase = "start" /\ seen # pulse.state    -> Loop(p, 0)
                 [] pulse.phase = "start" /\ seen = pulse.state    -> [p EXCEPT !.phase = "stop"]
                 [] pulse.phase = "stop" /\ seen = pulse.state     -> Loop(p, pulse.width + 1)
                 [] pulse.phase = "stop" /\ seen # pulse.state     ->
                      [p EXCEPT !.phase = "done", !.result = Microseconds(pulse.width)]
  <2>1. pulse' = CASE p.phase = "previous" /\ seen = p.state  -> Loop(p, 0)
                 [] p.phase = "previous" /\ ~(seen = p.state) -> [p EXCEPT !.phase = "start"]
                 [] p.phase = "start" /\ ~(seen = p.state)    -> Loop(p, 0)
                 [] p.phase = "start" /\ seen = p.state    -> [p EXCEPT !.phase = "stop"]
                 [] p.phase = "stop" /\ seen = p.state     -> Loop(p, p.width + 1)
                 [] p.phase = "stop" /\ ~(seen = p.state)     ->
                      [p EXCEPT !.phase = "done", !.result = Microseconds(p.width)]
    BY DEF PulseSample
  <2> HIDE DEF p, seen
  <2>. QED BY <1>5, <2>1
<1> HIDE DEF p, t, n, s, seen
<1>8. CASE pulse.phase = "previous"
  <2>1. pulse.loops = n /\ Shape(s, pulse.state, n, 1, 0) BY <1>1, <1>8 DEF SamplesInv, s, n
  <2>2. CASE seen = pulse.state
    <3>1. pulse' = Loop(p, 0) BY <1>7, <1>8, <2>2
    <3>2. Shape(t, pulse.state, n + 1, 1, 0) BY <1>2, <1>3, <2>1, <2>2, AppendShape DEF t, n
    <3>3. /\ pulse' \in PulseCalls /\ pulse'.samples = t /\ pulse'.state = pulse.state
          /\ pulse'.max = pulse.max /\ pulse'.result = 0
          /\ pulse.loops = pulse.max => pulse'.phase = "timeout"
          /\ pulse.loops # pulse.max => /\ pulse'.phase = "previous" /\ pulse'.width = 0
                                        /\ pulse'.loops = n + 1
      BY <3>1, <1>5, <1>6, <1>8, <2>1, LoopIs
    <3>4. SamplesInv(pulse')
      <4>1. CASE pulse.loops = pulse.max
        <5>1. n + 1 \in pulse.max + 1 .. pulse.max + 3 BY <4>1, <2>1, <1>3
        <5>. QED BY <3>2, <3>3, <4>1, <5>1, <1>4 DEF SamplesInv
      <4>2. CASE pulse.loops # pulse.max BY <3>2, <3>3, <4>2, <1>4 DEF SamplesInv
      <4>. QED BY <4>1, <4>2
    <3>. QED BY <3>3, <3>4
  <2>3. CASE seen # pulse.state
    <3>1. pulse' = [p EXCEPT !.phase = "start"] BY <1>7, <1>8, <2>3
    <3>2. Shape(t, pulse.state, n + 1, n + 1, n + 1)
      BY <1>2, <1>3, <2>1, <2>3, AppendShape DEF t, n
    <3>3. /\ pulse' \in PulseCalls /\ pulse'.samples = t /\ pulse'.state = pulse.state
          /\ pulse'.phase = "start" /\ pulse'.width = 0 /\ pulse'.loops = n /\ pulse'.result = 0
      <4>1. pulse.width = 0 BY <1>1, <1>8 DEF SamplesInv
      <4>. QED BY <3>1, <1>5, <1>6, <2>1, <4>1 DEF PulseCalls
    <3>4. n + 1 \in 1 .. n + 1 /\ n = (n + 1) - 1 BY <1>3
    <3>5. SamplesInv(pulse') BY <3>2, <3>3, <3>4, <1>4 DEF SamplesInv
    <3>. QED BY <3>3, <3>5
  <2>. QED BY <2>2, <2>3
<1>9. CASE pulse.phase = "start"
  <2>1. pulse.loops = n - 1 /\ pulse.width = 0 BY <1>1, <1>9 DEF SamplesInv, s, n
  <2>2. PICK b \in 1 .. n : Shape(s, pulse.state, n, b, n) BY <1>1, <1>9 DEF SamplesInv, s, n
  <2>3. CASE seen # pulse.state
    <3>1. pulse' = Loop(p, 0) BY <1>7, <1>9, <2>3
    <3>2. Shape(t, pulse.state, n + 1, b, n + 1)
      BY <1>2, <1>3, <2>2, <2>3, AppendShape DEF t, n
    <3>3. /\ pulse' \in PulseCalls /\ pulse'.samples = t /\ pulse'.state = pulse.state
          /\ pulse'.max = pulse.max /\ pulse'.result = 0
          /\ pulse.loops = pulse.max => pulse'.phase = "timeout"
          /\ pulse.loops # pulse.max => /\ pulse'.phase = "start" /\ pulse'.width = 0
                                        /\ pulse'.loops = (n + 1) - 1
      <4>1. (n - 1) + 1 = (n + 1) - 1 BY <1>3
      <4>. QED BY <3>1, <1>5, <1>6, <1>9, <2>1, <4>1, LoopIs
    <3>4. SamplesInv(pulse')
      <4>1. CASE pulse.loops = pulse.max
        <5>1. n + 1 \in pulse.max + 1 .. pulse.max + 3 /\ b \in Nat /\ n + 1 \in Nat
          BY <4>1, <2>1, <1>3
        <5>. QED BY <3>2, <3>3, <4>1, <5>1, <1>4 DEF SamplesInv
      <4>2. CASE pulse.loops # pulse.max
        <5>1. b \in 1 .. n + 1 BY <1>3
        <5>. QED BY <3>2, <3>3, <4>2, <5>1, <1>4 DEF SamplesInv
      <4>. QED BY <4>1, <4>2
    <3>. QED BY <3>3, <3>4
  <2>4. CASE seen = pulse.state
    <3>1. pulse' = [p EXCEPT !.phase = "stop"] BY <1>7, <1>9, <2>4
    <3>2. Shape(t, pulse.state, n + 1, b, n) BY <1>2, <1>3, <2>2, <2>4, AppendShape DEF t, n
    <3>3. /\ pulse' \in PulseCalls /\ pulse'.samples = t /\ pulse'.state = pulse.state
          /\ pulse'.phase = "stop" /\ pulse'.width = 0 /\ pulse'.loops = n - 1 /\ pulse'.result = 0
      BY <3>1, <1>5, <1>6, <2>1 DEF PulseCalls
    <3>4. /\ n \in 1 .. (n + 1) - 1 /\ b \in 1 .. n /\ 0 = ((n + 1) - n) - 1
          /\ n - 1 = (n + 1) - 2
      BY <1>3
    <3>5. SamplesInv(pulse') BY <3>2, <3>3, <3>4, <1>4 DEF SamplesInv
    <3>. QED BY <3>3, <3>5
  <2>. QED BY <2>3, <2>4
<1>10. CASE pulse.phase = "stop"
  <2>1. pulse.loops = n - 2 BY <1>1, <1>10 DEF SamplesInv, s, n
  <2>2. PICK q \in 1 .. n - 1 : \E b \in 1 .. q :
           pulse.width = (n - q) - 1 /\ Shape(s, pulse.state, n, b, q)
    BY <1>1, <1>10 DEF SamplesInv, s, n
  <2>3. PICK b \in 1 .. q : pulse.width = (n - q) - 1 /\ Shape(s, pulse.state, n, b, q) BY <2>2
  <2>4. CASE seen = pulse.state
    <3>1. pulse' = Loop(p, pulse.width + 1) BY <1>7, <1>10, <2>4
    <3>2. Shape(t, pulse.state, n + 1, b, q) BY <1>2, <1>3, <2>3, <2>4, AppendShape DEF t, n
    <3>3. /\ pulse' \in PulseCalls /\ pulse'.samples = t /\ pulse'.state = pulse.state
          /\ pulse'.max = pulse.max /\ pulse'.result = 0
          /\ pulse.loops = pulse.max => pulse'.phase = "timeout"
          /\ pulse.loops # pulse.max => /\ pulse'.phase = "stop"
                                        /\ pulse'.width = ((n + 1) - q) - 1
                                        /\ pulse'.loops = (n + 1) - 2
      <4>1. (n - 2) + 1 = (n + 1) - 2 /\ pulse.width + 1 = ((n + 1) - q) - 1
            /\ pulse.width + 1 \in Nat
        BY <1>3, <2>3
      <4> DEFINE w == pulse.width + 1
      <4>2. w \in Nat /\ pulse' = Loop(p, w) /\ w = ((n + 1) - q) - 1 BY <3>1, <4>1
      <4>3. p.loops + 1 = (n + 1) - 2 BY <1>5, <2>1, <4>1
      <4> HIDE DEF w
      <4>4. /\ pulse' \in PulseCalls /\ pulse'.samples = t /\ pulse'.state = pulse.state
            /\ pulse'.max = pulse.max /\ pulse'.result = 0
            /\ p.loops = p.max => pulse'.phase = "timeout"
            /\ p.loops # p.max => /\ pulse'.phase = "stop" /\ pulse'.width = w
                                  /\ pulse'.loops = p.loops + 1
        <5>1. /\ Loop(p, w) \in PulseCalls /\ Loop(p, w).samples = p.samples
              /\ Loop(p, w).state = p.state /\ Loop(p, w).max = p.max
              /\ Loop(p, w).result = p.result
              /\ p.loops = p.max => Loop(p, w).phase = "timeout"
              /\ p.loops # p.max => /\ Loop(p, w).phase = p.phase /\ Loop(p, w).width = w
                                    /\ Loop(p, w).loops = p.loops + 1
          BY <4>2, <1>5, LoopIs
        <5>. QED BY <5>1, <4>2, <1>5, <1>6, <1>10
      <4>. QED BY <4>2, <4>3, <4>4, <1>5
    <3>4. SamplesInv(pulse')
      <4>1. CASE pulse.loops = pulse.max
        <5>1. n + 1 \in pulse.max + 1 .. pulse.max + 3 /\ b \in Nat /\ q \in Nat
          BY <4>1, <2>1, <1>3
        <5>. QED BY <3>2, <3>3, <4>1, <5>1, <1>4 DEF SamplesInv
      <4>2. CASE pulse.loops # pulse.max
        <5>1. q \in 1 .. (n + 1) - 1 BY <1>3
        <5>. QED BY <3>2, <3>3, <4>2, <5>1, <1>4 DEF SamplesInv
      <4>. QED BY <4>1, <4>2
    <3>. QED BY <3>3, <3>4
  <2>5. CASE seen # pulse.state
    <3>1. pulse' = [p EXCEPT !.phase = "done", !.result = Microseconds(pulse.width)]
      BY <1>7, <1>10, <2>5
    <3>2. Shape(t, pulse.state, n, b, q) /\ t[n + 1] = seen
      BY <1>2, <1>3, <2>3, AppendShape DEF t, n
    <3>3. Microseconds(pulse.width) \in Nat
      <4>1. pulse.width * 17 + 16 \in Nat BY <1>3
      <4>. QED BY <4>1, CyclesTime DEF Microseconds
    <3>4. /\ pulse' \in PulseCalls /\ pulse'.samples = t /\ pulse'.state = pulse.state
          /\ pulse'.phase = "done" /\ pulse'.result = Microseconds(pulse.width)
      <4> HIDE DEF Microseconds
      <4>. QED BY <3>1, <3>3, <1>5 DEF PulseCalls
    <3>5. /\ q \in 1 .. (n + 1) - 2 /\ (n + 1) - 1 = n
          /\ pulse.width = ((n + 1) - q) - 2
      BY <1>3, <2>3
    <3>6. SamplesInv(pulse')
      <4>1. t[n + 1] # pulse.state BY <3>2, <2>5
      <4>. QED BY <3>2, <3>4, <3>5, <4>1, <1>4 DEF SamplesInv
    <3>. QED BY <3>4, <3>6
  <2>. QED BY <2>4, <2>5
<1>. QED BY <1>8, <1>9, <1>10

LEMMA PulseBegins ==
  ASSUME PinsInv, NEW state \in {0, 1}, NEW timeout \in PulseTimeouts, PulseIn(state, timeout)
  PROVE  pulse' \in PulseCalls /\ SamplesInv(pulse')
<1> USE PinsAssumption
<1> DEFINE max == ((timeout * 16) % PulseWord) \div 2
<1>1. max \in Nat
  <2>1. timeout * 16 \in Nat OBVIOUS
  <2>2. (timeout * 16) % PulseWord \in Nat BY <2>1
  <2>. QED BY <2>2
<1>2. pulse' = [phase |-> "previous", loops |-> 0, width |-> 0, result |-> 0, state |-> state,
                max |-> max, samples |-> <<>>]
  BY DEF PulseIn, NoPulse
<1>3. <<>> \in Seq({0, 1}) /\ Len(<<>>) = 0 BY EmptySeq
<1> HIDE DEF max
<1>4. pulse' \in PulseCalls BY <1>1, <1>2, <1>3 DEF PulseCalls
<1>5. Shape(<<>>, state, 0, 1, 0) BY DEF Shape
<1>6. SamplesInv(pulse') BY <1>2, <1>3, <1>5 DEF SamplesInv
<1>. QED BY <1>4, <1>6

-----------------------------------------------------------------------------
LEMMA PinsNext_Inv == PinsInv /\ [PinsNext]_pinVars => PinsInv'
<1> SUFFICES ASSUME PinsInv, [PinsNext]_pinVars PROVE PinsInv' OBVIOUS
<1> USE PinsAssumption
<1>0. PinsTypeOK /\ SamplesInv(pulse) BY DEF PinsInv
<1>1. ASSUME NEW p \in Wires, NEW mode \in PinModes, PinMode(p, mode) PROVE PinsInv'
  <2>1. Config(mode) \in PinConfigs BY DEF Config, PinConfigs, Pull, Drives, NoLevel
  <2>2. cnf' = [cnf EXCEPT ![p] = Config(mode)] /\ shift.op = "none"
        /\ UNCHANGED <<outReg, resting, shift, device, pulse>>
    BY <1>1 DEF PinMode, PinIdle
  <2>3. PinsTypeOK'
    <3> HIDE DEF Config
    <3>. QED BY <1>0, <2>1, <2>2 DEF PinsTypeOK
  <2>4. ShiftInv' BY <2>2, ShiftNone
  <2>. QED BY <1>0, <2>2, <2>3, <2>4 DEF PinsInv, ShiftInv
<1>2. ASSUME NEW p \in Wires, NEW value \in {0, 1}, DigitalWrite(p, value) PROVE PinsInv'
  <2>1. outReg' = [outReg EXCEPT ![p] = value] /\ shift.op = "none"
        /\ UNCHANGED <<cnf, resting, shift, device, pulse>>
    BY <1>2 DEF DigitalWrite, PinIdle
  <2>2. PinsTypeOK' BY <1>0, <2>1 DEF PinsTypeOK
  <2>3. ShiftInv' BY <2>1, ShiftNone
  <2>. QED BY <1>0, <2>1, <2>2, <2>3 DEF PinsInv, ShiftInv
<1>3. CASE BadPin(PinsCount)
  <2>1. UNCHANGED <<cnf, outReg, resting, shift, device, pulse>> BY <1>3 DEF BadPin
  <2>2. PinsTypeOK' BY <1>0, <2>1 DEF PinsTypeOK
  <2>. QED BY <1>0, <2>1, <2>2, ShiftFrame DEF PinsInv, ShiftInv
<1>4. CASE BeginShift
  <2>1. {} \in SUBSET (0 .. ShiftBits - 1)
        /\ \A v \in ShiftValues : v \in SUBSET (0 .. ShiftBits - 1)
    OBVIOUS
  <2>2. PinsTypeOK' /\ ShiftInv'
    <3>1. ASSUME NEW lsb \in BOOLEAN, NEW v \in ShiftValues, Shifts("out", lsb, v, {})
          PROVE  PinsTypeOK' /\ ShiftInv'
      BY <2>1, <3>1, ShiftBegins
    <3>2. ASSUME NEW lsb \in BOOLEAN, NEW v \in ShiftValues, Shifts("in", lsb, {}, v)
          PROVE  PinsTypeOK' /\ ShiftInv'
      BY <2>1, <3>2, ShiftBegins
    <3>. QED BY <1>4, <3>1, <3>2 DEF BeginShift
  <2>3. pulse' = pulse BY <1>4 DEF BeginShift, Shifts
  <2>. QED BY <1>0, <2>2, <2>3 DEF PinsInv, ShiftInv
<1>5. CASE ShiftOut
  <2>1. pulse' = pulse BY <1>5 DEF ShiftOut, ShiftStep
  <2>. QED BY <1>0, <1>5, <2>1, ShiftOutKeeps DEF PinsInv, ShiftInv
<1>6. CASE ShiftIn
  <2>1. pulse' = pulse BY <1>6 DEF ShiftIn, ShiftStep
  <2>. QED BY <1>0, <1>6, <2>1, ShiftInKeeps DEF PinsInv, ShiftInv
<1>7. CASE ShiftReturns
  <2>1. /\ shift' = NoShift /\ device' = [edges |-> 0, latched |-> <<>>, offer |-> {}]
        /\ UNCHANGED <<cnf, outReg, resting, pulse>>
    BY <1>7 DEF ShiftReturns
  <2>2. NoShift \in Shiftings /\ NoShift.op = "none" /\ NoShift.clock = "next"
    BY DEF NoShift, Shiftings
  <2>3. device' \in Devices
    <3>1. <<>> \in Seq({0, 1}) BY EmptySeq
    <3>. QED BY <2>1, <3>1 DEF Devices
  <2>4. PinsTypeOK' BY <1>0, <2>1, <2>2, <2>3 DEF PinsTypeOK
  <2>5. ShiftInv' BY <2>1, <2>2, ShiftNone
  <2>. QED BY <1>0, <2>1, <2>4, <2>5 DEF PinsInv, ShiftInv
\* the pulse alone changes
<1>8. ASSUME pulse' \in PulseCalls, SamplesInv(pulse'), UNCHANGED <<cnf, outReg, resting, shift, device>>
      PROVE  PinsInv'
  <2>1. PinsTypeOK' BY <1>0, <1>8 DEF PinsTypeOK
  <2>. QED BY <1>8, <2>1, ShiftFrame DEF PinsInv, ShiftInv
<1>9. ASSUME NEW state \in {0, 1}, NEW timeout \in PulseTimeouts, PulseIn(state, timeout)
      PROVE  PinsInv'
  <2>1. UNCHANGED <<cnf, outReg, resting, shift, device>> BY <1>9 DEF PulseIn
  <2>. QED BY <1>8, <1>9, <2>1, PulseBegins
<1>10. ASSUME NEW level \in {0, 1}, pulse.phase \in {"previous", "start", "stop"}, PulseSample(level)
       PROVE  PinsInv'
  <2>1. UNCHANGED <<cnf, outReg, resting, shift, device>> BY <1>10 DEF PulseSample
  <2>. QED BY <1>8, <1>10, <2>1, SampleKeeps
<1>11. CASE PulseReturns
  <2>1. pulse' = NoPulse /\ UNCHANGED <<cnf, outReg, resting, shift, device>>
    BY <1>11 DEF PulseReturns
  <2>2. <<>> \in Seq({0, 1}) /\ Len(<<>>) = 0 BY EmptySeq
  <2>3. NoPulse \in PulseCalls BY <2>2 DEF NoPulse, PulseCalls
  <2>4. SamplesInv(NoPulse) BY <2>2 DEF SamplesInv, NoPulse
  <2>. QED BY <1>8, <2>1, <2>3, <2>4
<1>12. CASE UNCHANGED pinVars
  <2>1. UNCHANGED <<cnf, outReg, resting, shift, device, pulse>> BY <1>12 DEF pinVars
  <2>. QED BY <1>0, <1>8, <2>1 DEF PinsTypeOK
<1>. QED BY <1>1, <1>2, <1>3, <1>4, <1>5, <1>6, <1>7, <1>9, <1>10, <1>11, <1>12 DEF PinsNext

LEMMA ShiftsExactly == PinsInv => ShiftExact
<1> USE PinsAssumption
<1> SUFFICES ASSUME PinsInv, shift.op # "none", shift.i = ShiftBits
             PROVE  /\ shift.op = "out" =>
                          device.latched =
                             IF ClockToggles
                             THEN [k \in 1 .. ShiftBits - LostEdges |->
                                     LevelAt(Data, OnLine(shift.value, shift.lsb, k + LostEdges))]
                             ELSE <<>>
                    /\ shift.op = "in" =>
                          \A k \in 1 .. ShiftBits :
                             OnLine(shift.value, shift.lsb, k) =
                                DigitalRead(Data, Bit(device.offer, IF ClockToggles THEN k - LostEdges ELSE 0))
  BY DEF ShiftExact
<1>0. PinsTypeOK /\ EdgesInv /\ LatchInv /\ ReadInv BY DEF PinsInv
<1>1. shift.clock = "next" /\ Before BY <1>0 DEF PinsTypeOK, Before
<1>2. /\ device.edges = IF ClockToggles THEN ShiftBits - LostEdges ELSE 0
      /\ Len(device.latched) = device.edges
  BY <1>0, <1>1 DEF EdgesInv
<1>3. /\ device.latched \in Seq({0, 1}) /\ shift.lsb \in BOOLEAN
      /\ shift.value \in SUBSET (0 .. ShiftBits - 1)
  BY <1>0 DEF PinsTypeOK, Devices, Shiftings
<1>4. ASSUME shift.op = "out"
      PROVE  device.latched =
                IF ClockToggles
                THEN [k \in 1 .. ShiftBits - LostEdges |->
                        LevelAt(Data, OnLine(shift.value, shift.lsb, k + LostEdges))]
                ELSE <<>>
  <2>1. device.latched = [k \in 1 .. device.edges |-> device.latched[k]]
    BY <1>2, <1>3, LenProperties
  <2>2. \A k \in 1 .. device.edges :
           device.latched[k] = LevelAt(Data, OnLine(shift.value, shift.lsb, k + LostEdges))
    BY <1>0, <1>4 DEF LatchInv
  <2>3. CASE ClockToggles
    <3>1. device.edges = ShiftBits - LostEdges BY <1>2, <2>3
    <3>. QED BY <2>1, <2>2, <2>3, <3>1
  <2>4. CASE ~ClockToggles
    <3>1. Len(device.latched) = 0 BY <1>2, <2>4
    <3>2. device.latched = <<>> BY <1>3, <3>1, EmptySeq
    <3>. QED BY <2>4, <3>2
  <2>. QED BY <2>3, <2>4
<1>5. ASSUME shift.op = "in", NEW k \in 1 .. ShiftBits
      PROVE  OnLine(shift.value, shift.lsb, k) =
                DigitalRead(Data, Bit(device.offer, IF ClockToggles THEN k - LostEdges ELSE 0))
  <2> DEFINE e == IF ClockToggles THEN k - LostEdges ELSE 0
             r == DigitalRead(Data, Bit(device.offer, e))
  <2>1. r \in {0, 1} BY DEF DigitalRead, Bit
  <2>2. k - 1 \in 0 .. ShiftBits - 1 /\ k - 1 < shift.i /\ (k - 1) + 1 = k OBVIOUS
  <2>3. BitPlace(shift.lsb, k - 1) \in shift.value <=> r = 1
    <3>1. BitPlace(shift.lsb, k - 1) \in shift.value <=>
             DigitalRead(Data, Bit(device.offer, IF ClockToggles THEN ((k - 1) + 1) - LostEdges ELSE 0)) = 1
      BY <1>0, <1>5, <2>2 DEF ReadInv
    <3>. QED BY <2>2, <3>1
  <2>4. BitPlace(shift.lsb, k - 1) = IF shift.lsb THEN k - 1 ELSE ShiftBits - k
    <3>1. ShiftBits - 1 - (k - 1) = ShiftBits - k OBVIOUS
    <3>. QED BY <3>1 DEF BitPlace
  <2>5. OnLine(shift.value, shift.lsb, k) = Bit(shift.value, BitPlace(shift.lsb, k - 1))
    BY <2>4 DEF OnLine
  <2> HIDE DEF r
  <2>. QED BY <2>1, <2>3, <2>5 DEF Bit, r
<1>. QED BY <1>4, <1>5

LEMMA PulsesExactly == PinsInv => PulseExact
<1> USE PinsAssumption
<1> SUFFICES ASSUME PinsInv PROVE PulseExact OBVIOUS
<1> DEFINE s == pulse.samples
           n == Len(s)
<1>0. pulse \in PulseCalls /\ SamplesInv(pulse) BY DEF PinsInv, PinsTypeOK
<1>1. n \in Nat /\ pulse.state \in {0, 1} /\ pulse.max \in Nat BY <1>0 DEF PulseCalls
<1> HIDE DEF s, n
<1>2. ASSUME pulse.phase = "done"
      PROVE  \E i \in 1 .. n :
                 /\ Run(s, i, n)
                 /\ \A j \in 1 .. n - 1 : \A k \in 1 .. j - 1 : ~Run(s, k, j)
                 /\ LET cycles == (n - i - 2) * 17 + 16
                    IN  IF cycles < PulseWord THEN pulse.result = cycles \div 16
                                              ELSE pulse.result < cycles \div 16
  <2>1. PICK q \in 1 .. n - 2 : \E p \in 1 .. q :
           /\ Shape(s, pulse.state, n - 1, p, q) /\ s[n] # pulse.state
           /\ pulse.result = Microseconds((n - q) - 2)
    BY <1>0, <1>2 DEF SamplesInv, s, n
  <2>2. PICK p \in 1 .. q : /\ Shape(s, pulse.state, n - 1, p, q) /\ s[n] # pulse.state
                            /\ pulse.result = Microseconds((n - q) - 2)
    BY <2>1
  <2>3. q \in 1 .. n /\ q \in Nat /\ p \in Nat /\ n - 1 \in Nat BY <1>1
  <2>4. Run(s, q, n)
    <3>1. q < n - 1 /\ q \in 1 .. n - 1 BY <1>1
    <3>2. s[q] # pulse.state BY <2>2, <2>3, <3>1 DEF Shape
    <3>3. \A k \in q + 1 .. n - 1 : s[k] = pulse.state
      <4>1. \A k \in q + 1 .. n - 1 : k \in 1 .. n - 1 /\ ~(k <= q) BY <1>1, <2>3
      <4>. QED BY <2>2, <4>1 DEF Shape
    <3>. QED BY <2>2, <3>1, <3>2, <3>3 DEF Run
  <2>5. \A j \in 1 .. n - 1 : \A k \in 1 .. j - 1 : ~Run(s, k, j)
    <3>1. \A i, j \in 1 .. n - 1 : ~Run(s, i, j) BY <2>2, <2>3, NoRun
    <3>2. \A j \in 1 .. n - 1 : \A k \in 1 .. j - 1 : k \in 1 .. n - 1 BY <1>1
    <3>. QED BY <3>1, <3>2
  <2> DEFINE cycles == (n - q - 2) * 17 + 16
  <2>6. cycles \in Nat BY <1>1
  <2>7. pulse.result = (cycles % PulseWord) \div 16 BY <2>2 DEF Microseconds
  <2> HIDE DEF cycles
  <2>8. IF cycles < PulseWord THEN pulse.result = cycles \div 16
                              ELSE pulse.result < cycles \div 16
    BY <2>6, <2>7, CyclesTime
  <2>. QED BY <2>3, <2>4, <2>5, <2>8 DEF cycles
<1>3. ASSUME pulse.phase = "timeout"
      PROVE  pulse.result = 0 /\ n \in pulse.max + 1 .. pulse.max + 3
  BY <1>0, <1>3 DEF SamplesInv, s, n
<1>4. ASSUME pulse.phase # "done" PROVE \A i, j \in 1 .. n : ~Run(s, i, j)
  <2>1. CASE n = 0 BY <2>1
  <2>2. CASE n # 0
    <3>1. \E p, q \in Int : Shape(s, pulse.state, n, p, q)
      <4>1. pulse.phase \in {"none", "previous", "start", "stop", "timeout"}
        BY <1>0, <1>4 DEF PulseCalls
      <4>2. pulse.phase # "none" BY <1>0, <2>2 DEF SamplesInv, s, n
      <4>3. CASE pulse.phase = "previous" BY <4>3, <1>0 DEF SamplesInv, s, n
      <4>4. CASE pulse.phase = "start" BY <4>4, <1>0, <1>1 DEF SamplesInv, s, n
      <4>5. CASE pulse.phase = "stop" BY <4>5, <1>0, <1>1 DEF SamplesInv, s, n
      <4>6. CASE pulse.phase = "timeout" BY <4>6, <1>0 DEF SamplesInv, s, n
      <4>. QED BY <4>1, <4>2, <4>3, <4>4, <4>5, <4>6
    <3>. QED BY <1>1, <3>1, NoRun
  <2>. QED BY <2>1, <2>2
<1>. QED BY <1>2, <1>3, <1>4 DEF PulseExact, s, n

(* A byte shifted out or in arrives bit by bit, but for the edge that a    *)
(* clock left high costs, and pulseIn measures the first whole pulse that  *)
(* it sees, for any number of bits and every timeout.                      *)
THEOREM PinsExactAlways == PinsSpec => []PinsExact
<1>1. PinsInv => PinsExact BY ShiftsExactly, PulsesExactly DEF PinsExact
<1>. QED BY <1>1, PinsInit_Inv, PinsNext_Inv, PTL DEF PinsSpec

-----------------------------------------------------------------------------
(* The channel tables: types, the owners of GPIOTE and PPI channels, and   *)
(* the safety of an application that gives no channel back.                *)
(*                                                                         *)
(* The argument: a channel that is occupied has one holder, a slot's and a *)
(* tone's included while the call that takes it has not saved it; a slot's *)
(* two PPI channels are the ones that it remembers; and as long as nothing *)
(* has been given back, the channel that a call has found stays the lowest *)
(* free one, as the handler of an edge takes back the one it gives.        *)

(* The calls of the main thread.                                           *)
CallInv ==
    /\ call.op \in {"attach", "tone", "toneSaved", "pwm", "pwmSave", "detach"} =>
          call.channel \in GpioteChannels
    /\ call.op \in {"attach", "detach"} => call.pin \in Buttons
    /\ call.op \in {"tone", "toneSaved", "pwm", "pwmSave"} => call.pin \in Outputs
    /\ call.op \in {"pwm", "pwmSave"} => call.slot \in Slots /\ slotPin[call.slot] = None
    /\ call.op = "pwmSave" => config[call.channel] = Task(call.pin)

(* The holders of GPIOTE channels.                                         *)
FreeInv ==
    \A c \in GpioteChannels : ~occupied[c] =>
        /\ config[c] = Off /\ ~OfInterrupt(c) /\ toneChannel # c /\ c \notin leaked
        /\ \A s \in Slots : ~OfSlot(c, s)

HeldInv ==
    \A c \in GpioteChannels : occupied[c] =>
        OfInterrupt(c) \/ (\E s \in Slots : OfSlot(c, s)) \/ toneChannel = c \/ c \in leaked

InterruptInv ==
    \A c \in GpioteChannels : OfInterrupt(c) =>
        /\ config[c] = Event(extIT[c]) /\ toneChannel # c /\ c \notin leaked
        /\ \A s \in Slots : ~OfSlot(c, s)

SlotsInv ==
    /\ \A c \in GpioteChannels, s \in Slots : OfSlot(c, s) =>
          config[c].mode = "task" /\ toneChannel # c /\ c \notin leaked
    /\ \A c \in GpioteChannels : \A r, s \in Slots : OfSlot(c, r) /\ OfSlot(c, s) => r = s
    /\ \A s \in Slots :
          IF slotPin[s] = None THEN slotChannel[s] = None
          ELSE slotChannel[s] \in GpioteChannels /\ config[slotChannel[s]] = Task(slotPin[s])

ToneInv ==
    /\ toneChannel # None => config[toneChannel].mode = "task" /\ toneChannel \notin leaked
    /\ \A c \in leaked : config[c].mode = "task"

(* The PPI channels.                                                       *)
HasNone(c) ==
    ppiOf[c][1] = None /\ ppiOf[c][2] = None /\ appPpi # None /\ \A k \in PpiChannels : ppi[k] # c
HasTwo(c) ==
    /\ ppiOf[c][1] \in PpiChannels /\ ppiOf[c][2] \in PpiChannels /\ ppiOf[c][1] # ppiOf[c][2]
    /\ \A k \in PpiChannels : ppi[k] = c <=> k = ppiOf[c][1] \/ k = ppiOf[c][2]

PpiInv ==
    /\ \A c \in GpioteChannels, s \in Slots : OfSlot(c, s) => HasNone(c) \/ HasTwo(c)
    /\ \A c \in GpioteChannels : (\A s \in Slots : ~OfSlot(c, s)) =>
          ppiOf[c][1] = None /\ ppiOf[c][2] = None
    /\ \A k \in PpiChannels : ppi[k] # None =>
          \/ \E s \in Slots : OfSlot(ppi[k], s) /\ (k = TonePpi => appPpi # None)
          \/ k = TonePpi /\ ppi[k] = toneChannel
          \/ k = appPpi /\ ppi[k] = Other
    /\ toneChannel # None => ppi[TonePpi] = toneChannel
    /\ appPpi \in PpiChannels => ppi[appPpi] = Other
    /\ \A s \in Slots : slotPin[s] # None => timer1

RInv == CallInv /\ FreeInv /\ HeldInv /\ InterruptInv /\ SlotsInv /\ ToneInv /\ PpiInv

(* The races of the main thread, the lowest channels in use, and events    *)
(* with a handler: the parts of SafeUntilReleased.                         *)
NoRace     == fate \notin {"channel", "detach", "tone", "pin"} /\ (fate = "ppi" => appPpi # None)
LowestUsed == \A c, d \in GpioteChannels : c < d /\ occupied[d] => occupied[c]
EventsHaveHandlers == \A c \in latched \cap intenset : extIT[c] # None

(* Nothing has been given back yet: no race is ahead, and the channel of   *)
(* the call is the lowest free one.                                        *)
CallFindsLowest ==
    /\ call.op # "detach" /\ tonePin # None
    /\ call.op \in {"attach", "tone", "toneSaved", "pwm"} => IsFreeIn(occupied, call.channel)

Safe == NoRace /\ LowestUsed /\ EventsHaveHandlers

UnreleasedInv == ~released /\ Running => CallFindsLowest

IInv == ChannelsTypeOK /\ (Running => RInv) /\ SafeUntilReleased /\ UnreleasedInv

-----------------------------------------------------------------------------
(* Constants.                                                              *)

LEMMA ConstantFacts ==
    /\ None \in Nat /\ Freed \in Nat /\ Freed # None
    /\ None \notin GpioteChannels /\ None \notin PpiChannels /\ Freed \notin PpiChannels
    /\ Other \notin GpioteChannels /\ Other # None
    /\ None \notin Buttons /\ None \notin Outputs
    /\ Buttons \subseteq Nat /\ Outputs \subseteq Nat /\ Buttons \cap Outputs = {}
    /\ TonePpi \in PpiChannels /\ PpiChannels \subseteq Nat /\ GpioteChannels \subseteq Nat
    /\ 0 \notin Slots /\ MaxCount \in Nat
  BY ChannelsAssumption
     DEF None, Freed, Other, GpioteChannels, PpiChannels, Slots

LEMMA ConfigFacts ==
    /\ Off \in Configs /\ Off.mode = "off"
    /\ \A p \in Pins : /\ Event(p) \in Configs /\ Event(p).mode = "event"
                       /\ Task(p) \in Configs /\ Task(p).mode = "task"
    /\ Buttons \subseteq Pins /\ Outputs \subseteq Pins
  BY DEF Off, Event, Task, Configs, Pins

LEMMA PairFacts ==
    /\ \A k1, k2 \in PpiChannels \union {None} : <<k1, k2>> \in [1 .. 2 -> PpiChannels \union {None}]
    /\ \A k1, k2 : <<k1, k2>>[1] = k1 /\ <<k1, k2>>[2] = k2
  <1>1. ASSUME NEW k1 \in PpiChannels \union {None}, NEW k2 \in PpiChannels \union {None}
        PROVE  <<k1, k2>> \in [1 .. 2 -> PpiChannels \union {None}]
    <2>1. DOMAIN <<k1, k2>> = 1 .. 2 /\ \A i \in 1 .. 2 : i = 1 \/ i = 2
      OBVIOUS
    <2>2. <<k1, k2>> = [i \in 1 .. 2 |-> IF i = 1 THEN k1 ELSE k2]
      BY <2>1
    <2>3. QED
      BY <1>1, <2>2
  <1>2. QED
    BY <1>1

-----------------------------------------------------------------------------
(* Types.                                                                  *)

\* what StopTone changes
ToneTypes ==
    /\ occupied \in [GpioteChannels -> BOOLEAN] /\ config \in [GpioteChannels -> Configs]
    /\ ppi \in [PpiChannels -> GpioteChannels \union {None, Other}]
    /\ timer2 \in BOOLEAN /\ toneChannel \in GpioteChannels \union {None} /\ tonePin \in Nat
    /\ fate \in {"running"} \union Stops \union Races

LEMMA StopToneTypes ==
    ASSUME ChannelsTypeOK, StopTone
    PROVE  ToneTypes'
  <1> USE ConstantFacts, ConfigFacts DEF ChannelsTypeOK
  <1>1. occupied' \in [GpioteChannels -> BOOLEAN] /\ config' \in [GpioteChannels -> Configs]
    <2>1. CASE UNCHANGED chanVars
      BY <2>1 DEF chanVars
    <2>2. CASE Clean(toneChannel)
      BY <2>2 DEF Clean
    <2>3. QED
      BY <2>1, <2>2 DEF StopTone
  <1>2. ppi' \in [PpiChannels -> GpioteChannels \union {None, Other}]
    BY DEF StopTone
  <1>3. timer2' \in BOOLEAN /\ toneChannel' \in GpioteChannels \union {None} /\ tonePin' \in Nat
    BY DEF StopTone
  <1>4. fate' \in {"running"} \union Stops \union Races
    BY DEF StopTone, Races, Stops
  <1>5. QED
    BY <1>1, <1>2, <1>3, <1>4 DEF ToneTypes

LEMMA TypesKept ==
    ASSUME ChannelsTypeOK, RInv, ChannelsNext
    PROVE  ChannelsTypeOK'
  <1> USE ConstantFacts, ConfigFacts DEF ChannelsTypeOK
  <1>1. ASSUME NEW k \in PpiChannels, WirePpi(k) PROVE ChannelsTypeOK'
    BY <1>1 DEF WirePpi, chanVars, extVars, pwmVars, toneVars
  <1>2. CASE FreeAppPpi
    BY <1>2 DEF FreeAppPpi, chanVars, extVars, pwmVars, toneVars
  <1>3. ASSUME NEW p \in Buttons, AttachFind(p) PROVE ChannelsTypeOK'
    BY <1>3, ZenonT(30) DEF AttachFind, chanVars, extVars, pwmVars, ppiVars, toneVars, NoCall, Calls, Ops, Stops
  <1>4. CASE AttachSet
    BY <1>4 DEF AttachSet, ReserveAs, EnableInterrupt, RInv, CallInv, pwmVars, ppiVars, toneVars,
                NoCall, Calls, Ops, Races
  <1>5. ASSUME NEW c \in GpioteChannels, DetachClean(c) PROVE ChannelsTypeOK'
    BY <1>5 DEF DetachClean, Clean, extVars, pwmVars, ppiVars, toneVars, NoCall, Calls, Ops
  <1>6. CASE DetachForget
    BY <1>6 DEF DetachForget, chanVars, pwmVars, ppiVars, toneVars, NoCall, Calls, Ops, Races
  <1>7. ASSUME NEW c \in GpioteChannels, EdgeLatches(c) \/ RejectEdge(c) PROVE ChannelsTypeOK'
    BY <1>7 DEF EdgeLatches, RejectEdge, chanVars, extVars, pwmVars, ppiVars, toneVars
  <1>8. ASSUME NEW c \in GpioteChannels, ButtonISR(c) PROVE ChannelsTypeOK'
    <2>1. PICK d \in GpioteChannels :
             /\ occupied' = [[occupied EXCEPT ![c] = FALSE] EXCEPT ![d] = TRUE]
             /\ config' = [[config EXCEPT ![c] = Off] EXCEPT ![d] = Event(extIT[c])]
             /\ extIT' = [[extIT EXCEPT ![c] = None] EXCEPT ![d] = extIT[c]]
             /\ intenset' = intenset \union {d}
      BY <1>8 DEF ButtonISR, EnableInterrupt
    <2>2. extIT[c] \in Buttons /\ Event(extIT[c]) \in Configs
      <3>1. extIT[c] \in Buttons
        BY <1>8 DEF ButtonISR, Serves
      <3>2. QED
        BY <3>1
    <2>3. occupied' \in [GpioteChannels -> BOOLEAN] /\ config' \in [GpioteChannels -> Configs]
      BY <2>1, <2>2
    <2>4. extIT' \in [GpioteChannels -> Buttons \union {None}] /\ intenset' \subseteq GpioteChannels
      BY <2>1, <2>2
    <2>5. latched' \subseteq GpioteChannels /\ timer1' \in BOOLEAN
      BY <1>8 DEF ButtonISR, SlotsInUse
    <2>6. QED
      BY <1>8, <2>3, <2>4, <2>5 DEF ButtonISR, ppiVars, toneVars
  <1>9. ASSUME NEW p \in Outputs, ToneFind(p) PROVE ChannelsTypeOK'
    BY <1>9, ZenonT(30) DEF ToneFind, chanVars, extVars, pwmVars, ppiVars, toneVars, NoCall, Calls, Ops
  <1>10. CASE ToneSave
    BY <1>10 DEF ToneSave, RInv, CallInv, chanVars, extVars, pwmVars, ppiVars, Calls, Ops
  <1>11. CASE ToneSet
    BY <1>11 DEF ToneSet, ReserveAs, RInv, CallInv, extVars, pwmVars, NoCall, Calls, Ops, Races
  <1>12. ASSUME NEW p \in Outputs, NoToneTest(p) PROVE ChannelsTypeOK'
    BY <1>12 DEF NoToneTest, chanVars, extVars, pwmVars, ppiVars, toneVars, NoCall, Calls, Ops
  <1>13. CASE NoTone
    <2>1. ToneTypes'
      BY <1>13, StopToneTypes DEF NoTone
    <2>2. call' \in Calls /\ released' \in BOOLEAN
      BY <1>13 DEF NoTone, StopTone, NoCall, Calls, Ops
    <2>3. QED
      BY <1>13, <2>1, <2>2 DEF NoTone, ToneTypes, extVars, pwmVars
  <1>14. CASE TonePeriod
    BY <1>14 DEF TonePeriod, chanVars, extVars, pwmVars, ppiVars
  <1>15. CASE ToneEnds
    <2>1. CASE tonePin # None /\ StopTone
      <3>1. ToneTypes' /\ released' \in BOOLEAN
        BY <2>1, StopToneTypes DEF StopTone
      <3>2. QED
        BY <1>15, <3>1 DEF ToneEnds, ToneTypes, extVars, pwmVars
    <2>2. CASE tonePin = None /\ fate' = "pin"
      BY <1>15, <2>2 DEF ToneEnds, StopTone, chanVars, extVars, pwmVars, Stops
    <2>3. QED
      BY <1>15, <2>1, <2>2 DEF ToneEnds
  <1>16. ASSUME NEW p \in Outputs, PwmFind(p) PROVE ChannelsTypeOK'
    BY <1>16 DEF PwmFind, chanVars, extVars, ppiVars, toneVars, Calls, Ops
  <1>17. CASE PwmSet
    <2>1. ppi' \in [PpiChannels -> GpioteChannels \union {None, Other}]
      BY <1>17 DEF PwmSet, RInv, CallInv
    <2>2. ppiOf' \in [GpioteChannels -> [1 .. 2 -> PpiChannels \union {None}]]
      BY <1>17, PairFacts DEF PwmSet
    <2>3. QED
      BY <1>17, <2>1, <2>2
         DEF PwmSet, ReserveAs, RInv, CallInv, extVars, toneVars, Calls, Ops, Races
  <1>18. CASE PwmSave
    BY <1>18 DEF PwmSave, RInv, CallInv, chanVars, extVars, ppiVars, toneVars, NoCall, Calls, Ops, Races
  <1>19. ASSUME NEW s \in Slots, PpiOffFromGPIO(s) PROVE ChannelsTypeOK'
    <2>1. /\ ppi' \in [PpiChannels -> GpioteChannels \union {None, Other}]
          /\ ppiOf' \in [GpioteChannels -> [1 .. 2 -> PpiChannels \union {None}]]
      BY <1>19, PairFacts DEF PpiOffFromGPIO
    <2>2. occupied' \in [GpioteChannels -> BOOLEAN] /\ config' \in [GpioteChannels -> Configs]
      BY <1>19 DEF PpiOffFromGPIO, Clean
    <2>3. /\ slotPin' \in [Slots -> Outputs \union {None}]
          /\ slotChannel' \in [Slots -> GpioteChannels \union {None}]
          /\ timer1' \in BOOLEAN
      BY <1>19 DEF PpiOffFromGPIO, SlotsInUse
    <2>4. QED
      BY <1>19, <2>1, <2>2, <2>3 DEF PpiOffFromGPIO, extVars, toneVars
  <1>20. ASSUME NEW s \in Slots, Timer1Handler(s) PROVE ChannelsTypeOK'
    BY <1>20 DEF Timer1Handler, extVars, pwmVars, ppiVars, toneVars
  <1>21. QED
    BY <1>1, <1>2, <1>3, <1>4, <1>5, <1>6, <1>7, <1>8, <1>9, <1>10, <1>11, <1>12, <1>13, <1>14,
       <1>15, <1>16, <1>17, <1>18, <1>19, <1>20
       DEF ChannelsNext, Interrupts, Calling

-----------------------------------------------------------------------------
(* The holders of GPIOTE channels.                                         *)

HoldInv == FreeInv /\ HeldInv /\ InterruptInv /\ SlotsInv /\ ToneInv

SameHolders ==
    /\ \A c \in GpioteChannels : OfInterrupt(c)' <=> OfInterrupt(c)
    /\ \A c \in GpioteChannels, s \in Slots : OfSlot(c, s)' <=> OfSlot(c, s)

LEMMA HoldersFrame ==
    ASSUME HoldInv, UNCHANGED <<chanVars, extIT, slotPin, slotChannel, toneChannel, leaked>>,
           SameHolders
    PROVE  HoldInv'
  BY DEF HoldInv, SameHolders, FreeInv, HeldInv, InterruptInv, SlotsInv, ToneInv, chanVars

(* A call that neither begins nor ends a detach, nor a slot's reservation. *)
LEMMA CallFrame ==
    ASSUME UNCHANGED <<occupied, extIT, slotChannel>>,
           \/ UNCHANGED call
           \/ call.op \notin {"detach", "pwmSave"} /\ call'.op \notin {"detach", "pwmSave"}
    PROVE  SameHolders
  BY DEF SameHolders, OfInterrupt, Forgotten, OfSlot

LEMMA AttachSetHolders ==
    ASSUME ChannelsTypeOK, RInv, AttachSet, Running'
    PROVE  HoldInv'
  <1> DEFINE d == call.channel
  <1>1. /\ d \in GpioteChannels /\ ~occupied[d] /\ call.pin # None
        /\ occupied' = [occupied EXCEPT ![d] = TRUE]
        /\ config' = [config EXCEPT ![d] = Event(call.pin)]
        /\ extIT' = [extIT EXCEPT ![d] = call.pin]
        /\ UNCHANGED <<slotPin, slotChannel, toneChannel, leaked>>
    BY ConstantFacts
       DEF AttachSet, ReserveAs, Overtaken, Running, RInv, CallInv, pwmVars, toneVars
  <1>2. \A c \in GpioteChannels : OfInterrupt(c)' <=> c = d \/ OfInterrupt(c)
    BY <1>1 DEF AttachSet, NoCall, OfInterrupt, Forgotten, ChannelsTypeOK
  <1>3. \A c \in GpioteChannels, s \in Slots : OfSlot(c, s)' <=> OfSlot(c, s)
    BY <1>1 DEF AttachSet, NoCall, OfSlot
  <1> HIDE DEF d
  <1>4. HoldInv
    BY DEF RInv, HoldInv
  <1>5. FreeInv' /\ HeldInv'
    BY <1>1, <1>2, <1>3, <1>4 DEF HoldInv, FreeInv, HeldInv, ChannelsTypeOK
  <1>6. InterruptInv'
    BY <1>1, <1>2, <1>3, <1>4 DEF HoldInv, FreeInv, InterruptInv, ChannelsTypeOK
  <1>7. SlotsInv' /\ ToneInv'
    BY <1>1, <1>3, <1>4, ConstantFacts
       DEF HoldInv, FreeInv, SlotsInv, ToneInv, OfSlot, ChannelsTypeOK
  <1>8. QED
    BY <1>5, <1>6, <1>7 DEF HoldInv

LEMMA DetachCleanHolders ==
    ASSUME ChannelsTypeOK, RInv, NEW d \in GpioteChannels, DetachClean(d)
    PROVE  HoldInv'
  <1>1. /\ OfInterrupt(d)
        /\ occupied' = [occupied EXCEPT ![d] = FALSE]
        /\ config' = [config EXCEPT ![d] = Off]
        /\ UNCHANGED <<extIT, slotPin, slotChannel, toneChannel, leaked>>
    BY DEF DetachClean, Clean, NoCall, OfInterrupt, Forgotten, extVars, pwmVars, toneVars
  <1>2. \A c \in GpioteChannels : OfInterrupt(c)' <=> c # d /\ OfInterrupt(c)
    BY <1>1 DEF DetachClean, NoCall, OfInterrupt, Forgotten, ChannelsTypeOK
  <1>3. \A c \in GpioteChannels, s \in Slots : OfSlot(c, s)' <=> OfSlot(c, s)
    BY <1>1 DEF DetachClean, NoCall, OfSlot
  <1>4. HoldInv
    BY DEF RInv, HoldInv
  <1>5. FreeInv' /\ HeldInv'
    BY <1>1, <1>2, <1>3, <1>4 DEF HoldInv, FreeInv, HeldInv, InterruptInv, ChannelsTypeOK
  <1>6. InterruptInv'
    BY <1>1, <1>2, <1>3, <1>4 DEF HoldInv, InterruptInv, ChannelsTypeOK
  <1>7. SlotsInv' /\ ToneInv'
    BY <1>1, <1>3, <1>4, ConstantFacts
       DEF HoldInv, InterruptInv, SlotsInv, ToneInv, OfSlot, ChannelsTypeOK
  <1>8. QED
    BY <1>5, <1>6, <1>7 DEF HoldInv

LEMMA DetachForgetHolders ==
    ASSUME ChannelsTypeOK, RInv, DetachForget, Running'
    PROVE  HoldInv'
  <1> DEFINE d == call.channel
  <1>1. /\ d \in GpioteChannels /\ ~occupied[d]
        /\ extIT' = [extIT EXCEPT ![d] = None]
        /\ UNCHANGED <<occupied, config, slotPin, slotChannel, toneChannel, leaked>>
    BY DEF DetachForget, Reattached, Running, RInv, CallInv, chanVars, pwmVars, toneVars
  <1>2. \A c \in GpioteChannels : OfInterrupt(c)' <=> OfInterrupt(c)
    BY <1>1 DEF DetachForget, NoCall, OfInterrupt, Forgotten, ChannelsTypeOK
  <1>3. \A c \in GpioteChannels, s \in Slots : OfSlot(c, s)' <=> OfSlot(c, s)
    BY <1>1 DEF DetachForget, NoCall, OfSlot
  <1> HIDE DEF d
  <1>4. HoldInv
    BY DEF RInv, HoldInv
  <1>5. FreeInv' /\ HeldInv' /\ SlotsInv' /\ ToneInv'
    BY <1>1, <1>2, <1>3, <1>4 DEF HoldInv, FreeInv, HeldInv, SlotsInv, ToneInv
  <1>6. InterruptInv'
    BY <1>1, <1>2, <1>3, <1>4 DEF HoldInv, FreeInv, InterruptInv, ChannelsTypeOK
  <1>7. QED
    BY <1>5, <1>6 DEF HoldInv

(* The channel is given, and one is taken that is free or the same.        *)
LEMMA ButtonISRHolders ==
    ASSUME ChannelsTypeOK, RInv, NEW g \in GpioteChannels, ButtonISR(g)
    PROVE  HoldInv'
  <1>1. PICK d \in GpioteChannels :
           /\ IsFreeIn([occupied EXCEPT ![g] = FALSE], d)
           /\ occupied' = [[occupied EXCEPT ![g] = FALSE] EXCEPT ![d] = TRUE]
           /\ config' = [[config EXCEPT ![g] = Off] EXCEPT ![d] = Event(extIT[g])]
           /\ extIT' = [[extIT EXCEPT ![g] = None] EXCEPT ![d] = extIT[g]]
    BY DEF ButtonISR
  <1>2. /\ extIT[g] # None
        /\ UNCHANGED <<slotPin, slotChannel, toneChannel, leaked, call>>
    BY DEF ButtonISR, Serves, toneVars
  <1>3. d = g \/ ~occupied[d]
    BY <1>1 DEF IsFreeIn, ChannelsTypeOK
  <1>4. OfInterrupt(g) \/ ~occupied[g]
    BY <1>2 DEF OfInterrupt, Forgotten
  <1>5. \A c \in GpioteChannels : OfInterrupt(c)' <=> c = d \/ (c # g /\ OfInterrupt(c))
    BY <1>1, <1>2 DEF OfInterrupt, Forgotten, ChannelsTypeOK
  <1>6. \A c \in GpioteChannels, s \in Slots : OfSlot(c, s)' <=> OfSlot(c, s)
    BY <1>2 DEF OfSlot
  <1>7. HoldInv
    BY DEF RInv, HoldInv
  <1>8. \A c \in {d, g} : toneChannel # c /\ c \notin leaked /\ \A s \in Slots : ~OfSlot(c, s)
    BY <1>3, <1>4, <1>7 DEF HoldInv, FreeInv, InterruptInv
  <1>9. FreeInv' /\ HeldInv'
    BY <1>1, <1>2, <1>5, <1>6, <1>7, <1>8 DEF HoldInv, FreeInv, HeldInv, InterruptInv, ChannelsTypeOK
  <1>10. InterruptInv'
    BY <1>1, <1>2, <1>5, <1>6, <1>7, <1>8 DEF HoldInv, InterruptInv, ChannelsTypeOK
  <1>11. \A c \in GpioteChannels : c # d /\ c # g => config'[c] = config[c]
    BY <1>1 DEF ChannelsTypeOK
  <1>12. SlotsInv'
    <2>1. \A s \in Slots : slotPin[s] # None => slotChannel[s] \notin {d, g}
      BY <1>7, <1>8 DEF HoldInv, SlotsInv, OfSlot
    <2>2. QED
      BY <1>2, <1>6, <1>7, <1>8, <1>11, <2>1 DEF HoldInv, SlotsInv
  <1>13. ToneInv'
    BY <1>2, <1>7, <1>8, <1>11 DEF HoldInv, ToneInv, ChannelsTypeOK
  <1>14. QED
    BY <1>9, <1>10, <1>12, <1>13 DEF HoldInv

LEMMA ToneSetHolders ==
    ASSUME ChannelsTypeOK, RInv, ToneSet, Running'
    PROVE  HoldInv'
  <1> DEFINE d == call.channel
  <1>1. /\ d \in GpioteChannels /\ ~occupied[d] /\ call.pin \in Pins
        /\ occupied' = [occupied EXCEPT ![d] = TRUE]
        /\ config' = [config EXCEPT ![d] = Task(call.pin)]
        /\ toneChannel' = d /\ leaked' = leaked \union ({toneChannel} \ {None})
        /\ UNCHANGED <<extIT, slotPin, slotChannel>>
    BY ConfigFacts DEF ToneSet, ReserveAs, Overtaken, Running, RInv, CallInv, extVars, pwmVars
  <1>2. \A c \in GpioteChannels : OfInterrupt(c)' <=> OfInterrupt(c)
    BY <1>1 DEF ToneSet, NoCall, OfInterrupt, Forgotten
  <1>3. \A c \in GpioteChannels, s \in Slots : OfSlot(c, s)' <=> OfSlot(c, s)
    BY <1>1 DEF ToneSet, NoCall, OfSlot
  <1>4. Task(call.pin).mode = "task"
    BY <1>1, ConfigFacts
  <1> HIDE DEF d
  <1>5. HoldInv
    BY DEF RInv, HoldInv
  <1>6. d # toneChannel /\ d \notin leaked
    BY <1>1, <1>5 DEF HoldInv, FreeInv
  <1>7. FreeInv' /\ HeldInv'
    BY <1>1, <1>2, <1>3, <1>5, ConstantFacts DEF HoldInv, FreeInv, HeldInv, ChannelsTypeOK
  <1>8. InterruptInv'
    BY <1>1, <1>2, <1>3, <1>5 DEF HoldInv, FreeInv, InterruptInv, ChannelsTypeOK
  <1>9. SlotsInv' /\ ToneInv'
    BY <1>1, <1>3, <1>4, <1>5, <1>6, ConstantFacts
       DEF HoldInv, FreeInv, SlotsInv, ToneInv, OfSlot, ChannelsTypeOK
  <1>10. QED
    BY <1>7, <1>8, <1>9 DEF HoldInv

LEMMA StopToneHolders ==
    ASSUME ChannelsTypeOK, RInv, StopTone, Running',
           UNCHANGED <<extIT, slotPin, slotChannel, leaked>>,
           \/ UNCHANGED call
           \/ call.op \notin {"detach", "pwmSave"} /\ call'.op \notin {"detach", "pwmSave"}
    PROVE  HoldInv'
  <1> DEFINE d == toneChannel
  <1>1. /\ d \in GpioteChannels /\ toneChannel' = None
        /\ occupied' = [occupied EXCEPT ![d] = FALSE]
        /\ config' = [config EXCEPT ![d] = Off]
    BY DEF StopTone, Clean, Running, ChannelsTypeOK
  <1>2. HoldInv
    BY DEF RInv, HoldInv
  <1>3. occupied[d] /\ ~OfInterrupt(d) /\ d \notin leaked /\ \A s \in Slots : ~OfSlot(d, s)
    BY <1>1, <1>2, ConstantFacts DEF HoldInv, FreeInv, InterruptInv, SlotsInv, ToneInv
  <1>4. \A c \in GpioteChannels : OfInterrupt(c)' <=> OfInterrupt(c)
    BY <1>1, <1>3 DEF OfInterrupt, Forgotten, ChannelsTypeOK
  <1>5. \A c \in GpioteChannels, s \in Slots : OfSlot(c, s)' <=> OfSlot(c, s)
    BY DEF OfSlot
  <1> HIDE DEF d
  <1>6. d = toneChannel
    BY DEF d
  <1>7. FreeInv' /\ HeldInv'
    BY <1>1, <1>2, <1>3, <1>4, <1>5, <1>6, ConstantFacts
       DEF HoldInv, FreeInv, HeldInv, ChannelsTypeOK
  <1>8. InterruptInv'
    BY <1>1, <1>2, <1>3, <1>4, <1>5, ConstantFacts DEF HoldInv, InterruptInv, ChannelsTypeOK
  <1>9. SlotsInv' /\ ToneInv'
    BY <1>1, <1>2, <1>3, <1>5, ConstantFacts
       DEF HoldInv, SlotsInv, ToneInv, OfSlot, ChannelsTypeOK
  <1>10. QED
    BY <1>7, <1>8, <1>9 DEF HoldInv

LEMMA PwmSetHolders ==
    ASSUME ChannelsTypeOK, RInv, PwmSet, Running'
    PROVE  HoldInv'
  <1> DEFINE d == call.channel
             n == call.slot
  <1>1. /\ d \in GpioteChannels /\ ~occupied[d] /\ call.pin \in Pins /\ n \in Slots
        /\ occupied' = [occupied EXCEPT ![d] = TRUE]
        /\ config' = [config EXCEPT ![d] = Task(call.pin)]
        /\ slotPin[n] = None
        /\ UNCHANGED <<extIT, slotPin, slotChannel, toneChannel, leaked>>
    BY ConfigFacts DEF PwmSet, ReserveAs, Overtaken, Running, RInv, CallInv, extVars, toneVars
  <1>2. call.op = "pwm" /\ call' = [call EXCEPT !.op = "pwmSave"] /\ call \in Calls
    BY DEF PwmSet, ChannelsTypeOK
  <1>3. call'.op = "pwmSave" /\ call'.channel = d /\ call'.slot = n
    BY <1>2 DEF Calls
  <1>4. \A c \in GpioteChannels : OfInterrupt(c)' <=> OfInterrupt(c)
    BY <1>1, <1>2, <1>3 DEF OfInterrupt, Forgotten
  <1>5. \A c \in GpioteChannels, s \in Slots :
           OfSlot(c, s)' <=> OfSlot(c, s) \/ (c = d /\ s = n)
    BY <1>1, <1>2, <1>3 DEF OfSlot
  <1>6. Task(call.pin).mode = "task"
    BY <1>1, ConfigFacts
  <1> HIDE DEF d, n
  <1>7. HoldInv
    BY DEF RInv, HoldInv
  <1>8. FreeInv' /\ HeldInv'
    BY <1>1, <1>4, <1>5, <1>7 DEF HoldInv, FreeInv, HeldInv, ChannelsTypeOK
  <1>9. InterruptInv'
    BY <1>1, <1>4, <1>5, <1>7 DEF HoldInv, FreeInv, InterruptInv, ChannelsTypeOK
  <1>10. SlotsInv' /\ ToneInv'
    BY <1>1, <1>5, <1>6, <1>7, ConstantFacts
       DEF HoldInv, FreeInv, SlotsInv, ToneInv, OfSlot, ChannelsTypeOK
  <1>11. QED
    BY <1>8, <1>9, <1>10 DEF HoldInv

LEMMA PwmSaveHolders ==
    ASSUME ChannelsTypeOK, RInv, PwmSave
    PROVE  HoldInv'
  <1> DEFINE d == call.channel
             n == call.slot
  <1>1. /\ d \in GpioteChannels /\ n \in Slots /\ slotPin[n] = None
        /\ config[d] = Task(call.pin) /\ call.pin # None
        /\ slotChannel' = [slotChannel EXCEPT ![n] = d]
        /\ slotPin' = [slotPin EXCEPT ![n] = call.pin]
        /\ UNCHANGED <<occupied, config, extIT, toneChannel, leaked>>
    BY ConstantFacts DEF PwmSave, RInv, CallInv, chanVars, extVars, toneVars
  <1>2. HoldInv
    BY DEF RInv, HoldInv
  <1>3. slotChannel[n] = None
    BY <1>1, <1>2 DEF HoldInv, SlotsInv
  <1>4. \A c \in GpioteChannels : OfInterrupt(c)' <=> OfInterrupt(c)
    BY <1>1 DEF PwmSave, NoCall, OfInterrupt, Forgotten
  <1>5. \A c \in GpioteChannels, s \in Slots : OfSlot(c, s)' <=> OfSlot(c, s)
    BY <1>1, <1>3, ConstantFacts DEF PwmSave, NoCall, OfSlot, ChannelsTypeOK
  <1> HIDE DEF d, n
  <1>6. FreeInv' /\ HeldInv' /\ InterruptInv' /\ ToneInv'
    BY <1>1, <1>2, <1>4, <1>5 DEF HoldInv, FreeInv, HeldInv, InterruptInv, ToneInv
  <1>7. SlotsInv'
    BY <1>1, <1>2, <1>5 DEF HoldInv, SlotsInv, ChannelsTypeOK
  <1>8. QED
    BY <1>6, <1>7 DEF HoldInv

LEMMA PpiOffHolders ==
    ASSUME ChannelsTypeOK, RInv, NEW n \in Slots, PpiOffFromGPIO(n)
    PROVE  HoldInv'
  <1>1. HoldInv
    BY DEF RInv, HoldInv
  <1>2. PICK d \in GpioteChannels : d = slotChannel[n]
    BY <1>1 DEF HoldInv, SlotsInv, PpiOffFromGPIO
  <1>3. /\ slotPin[n] # None /\ call = NoCall
        /\ occupied' = [occupied EXCEPT ![d] = FALSE]
        /\ config' = [config EXCEPT ![d] = Off]
        /\ slotPin' = [slotPin EXCEPT ![n] = None]
        /\ slotChannel' = [slotChannel EXCEPT ![n] = None]
        /\ UNCHANGED <<extIT, toneChannel, leaked, call>>
    BY <1>2 DEF PpiOffFromGPIO, Clean, extVars, toneVars
  <1>4. OfSlot(d, n)
    BY <1>2 DEF OfSlot
  <1>5. ~OfInterrupt(d) /\ toneChannel # d /\ d \notin leaked
    BY <1>1, <1>4 DEF HoldInv, InterruptInv, SlotsInv
  <1>6. \A c \in GpioteChannels : OfInterrupt(c)' <=> OfInterrupt(c)
    BY <1>3, <1>4 DEF NoCall, OfInterrupt, Forgotten
  <1>7. \A c \in GpioteChannels, s \in Slots : OfSlot(c, s)' <=> OfSlot(c, s) /\ s # n
    BY <1>3, ConstantFacts DEF NoCall, OfSlot, ChannelsTypeOK
  <1>8. \A s \in Slots : ~OfSlot(d, s)'
    BY <1>1, <1>4, <1>7 DEF HoldInv, SlotsInv
  <1>9. FreeInv'
    BY <1>1, <1>3, <1>5, <1>6, <1>7, <1>8 DEF HoldInv, FreeInv, ChannelsTypeOK
  <1>10. HeldInv'
    <2>1. \A c \in GpioteChannels : OfSlot(c, n) => c = d
      BY <1>2, <1>3 DEF OfSlot, NoCall
    <2>2. \A c \in GpioteChannels : occupied'[c] => c # d /\ occupied[c]
      BY <1>3 DEF ChannelsTypeOK
    <2>3. QED
      BY <1>1, <1>3, <1>6, <1>7, <2>1, <2>2 DEF HoldInv, HeldInv
  <1>11. InterruptInv'
    BY <1>1, <1>3, <1>5, <1>6, <1>7 DEF HoldInv, InterruptInv, ChannelsTypeOK
  <1>12. \A s \in Slots : s # n /\ slotPin[s] # None => slotChannel[s] # d
    BY <1>1, <1>4 DEF HoldInv, SlotsInv, OfSlot
  <1>13. SlotsInv' /\ ToneInv'
    BY <1>1, <1>3, <1>4, <1>5, <1>7, <1>8, <1>12, ConstantFacts
       DEF HoldInv, SlotsInv, ToneInv, ChannelsTypeOK
  <1>14. QED
    BY <1>9, <1>10, <1>11, <1>13 DEF HoldInv

LEMMA Timer1Holders ==
    ASSUME ChannelsTypeOK, RInv, NEW n \in Slots, Timer1Handler(n)
    PROVE  HoldInv'
  <1>1. HoldInv
    BY DEF RInv, HoldInv
  <1>2. slotChannel[n] \in GpioteChannels /\ config[slotChannel[n]] = Task(slotPin[n])
    BY <1>1 DEF HoldInv, SlotsInv, Timer1Handler
  <1>3. config' = config
    BY <1>2 DEF Timer1Handler, ChannelsTypeOK
  <1>4. SameHolders
    BY CallFrame DEF Timer1Handler, extVars, pwmVars
  <1>5. QED
    BY <1>1, <1>3, <1>4, HoldersFrame DEF Timer1Handler, extVars, pwmVars, toneVars, chanVars

-----------------------------------------------------------------------------
(* Enough PPI channels: as long as the application has taken none, a slot  *)
(* that is free leaves two channels below the one of the tone.             *)

LEMMA Minimum ==
    ASSUME NEW S \in SUBSET Nat, S # {}
    PROVE  \E m \in S : \A n \in S : m <= n
  <1>1. PICK m \in S : \A n \in S : ~(<<n, m>> \in OpToRel(<, Nat))
    BY WFMin, NatLessThanWellFounded
  <1>2. \A n \in S : ~(n < m)
    BY <1>1 DEF OpToRel
  <1>3. QED
    BY <1>2

LEMMA LowestTwo ==
    ASSUME NEW a \in PpiChannels, NEW b \in PpiChannels, a # b, ppi[a] = None, ppi[b] = None
    PROVE  \E k1, k2 \in PpiChannels : TwoFreePpi(k1, k2)
  <1> DEFINE Free == {k \in PpiChannels : ppi[k] = None}
  <1>1. PICK k1 \in Free : \A k \in Free : k1 <= k
    BY Minimum, ConstantFacts
  <1>2. PICK k2 \in Free \ {k1} : \A k \in Free \ {k1} : k2 <= k
    <2>1. Free \subseteq Nat /\ a \in Free /\ b \in Free
      BY ConstantFacts
    <2> HIDE DEF Free
    <2>2. Free \ {k1} \in SUBSET Nat /\ Free \ {k1} # {}
      BY <2>1
    <2>3. QED
      BY <2>2, Minimum
  <1>3. k1 < k2
    BY <1>1, <1>2, ConstantFacts
  <1>4. \A k \in 0 .. k2 - 1 : k \in PpiChannels
    BY <1>2, ChannelsAssumption DEF PpiChannels
  <1>5. \A k \in 0 .. k2 - 1 : ppi[k] # None \/ k = k1
    BY <1>2, <1>4, ConstantFacts
  <1>6. QED
    BY <1>1, <1>2, <1>3, <1>5 DEF TwoFreePpi

LEMMA TwoBelowTone ==
    ASSUME ChannelsTypeOK, RInv, call.op = "pwm", appPpi = None
    PROVE  \E a, b \in 0 .. TonePpi - 1 : a # b /\ ppi[a] = None /\ ppi[b] = None
  <1> DEFINE Low == 0 .. TonePpi - 1
             At(k, s, i) == ppiOf[slotChannel[s]][i] = k
  <1>1. SUFFICES ASSUME \A a, b \in Low : a # b => ppi[a] # None \/ ppi[b] # None
                 PROVE  FALSE
    OBVIOUS
  <1>2. PICK n \in Slots : slotChannel[n] = None
    BY DEF RInv, CallInv, SlotsInv
  <1>3. /\ NumSlots \in Nat /\ n \in 1 .. NumSlots /\ TonePpi \in Nat /\ 2 * NumSlots <= TonePpi
        /\ Low \subseteq PpiChannels /\ TonePpi \notin Low
    BY <1>2, ChannelsAssumption DEF Slots, PpiChannels, Freed
  <1>4. PICK z \in Low : \A k \in Low : k # z => ppi[k] # None
    <2>1. CASE \A k \in Low : ppi[k] # None
      <3>1. 0 \in Low
        BY <1>3
      <3>2. QED
        BY <2>1, <3>1
    <2>2. CASE \E k \in Low : ppi[k] = None
      BY <1>1, <2>2
    <2>3. QED
      BY <2>1, <2>2
  <1> DEFINE Used   == Low \ {z}
             Places == ((1 .. 2 * NumSlots) \ {2 * n - 1}) \ {2 * n}
             IsPlace(k, m) == \E s \in Slots, i \in 1 .. 2 : m = 2 * (s - 1) + i /\ At(k, s, i)
             place == [k \in Used |-> CHOOSE m \in Places : IsPlace(k, m)]
  <1>5. \A k \in Used : \E m \in Places : IsPlace(k, m)
    <2> SUFFICES ASSUME NEW k \in Used PROVE \E m \in Places : IsPlace(k, m)
      OBVIOUS
    <2>1. ppi[k] # None /\ k \in PpiChannels /\ k # TonePpi
      BY <1>3, <1>4
    <2>2. PICK s \in Slots : OfSlot(ppi[k], s)
      BY <2>1, ConstantFacts DEF RInv, PpiInv
    <2>3. ppi[k] = slotChannel[s] /\ s # n
      BY <1>2, <2>1, <2>2 DEF OfSlot
    <2>4. slotChannel[s] \in GpioteChannels
      BY <2>1, <2>3 DEF ChannelsTypeOK
    <2>5. HasTwo(slotChannel[s])
      BY <2>1, <2>2, <2>3, <2>4 DEF RInv, PpiInv, HasNone
    <2>6. PICK i \in 1 .. 2 : At(k, s, i)
      BY <2>1, <2>3, <2>5 DEF HasTwo
    <2>7. 2 * (s - 1) + i \in Places
      BY <1>3, <2>3 DEF Slots
    <2>8. QED
      BY <2>6, <2>7
  <1>6. place \in [Used -> Places] /\ \A k \in Used : IsPlace(k, place[k])
    BY <1>5
  <1>7. \A k, l \in Used : place[k] = place[l] => k = l
    <2> SUFFICES ASSUME NEW k \in Used, NEW l \in Used, place[k] = place[l]
                 PROVE  k = l
      OBVIOUS
    <2>1. PICK s \in Slots, i \in 1 .. 2 : place[k] = 2 * (s - 1) + i /\ At(k, s, i)
      BY <1>6
    <2>2. PICK r \in Slots, j \in 1 .. 2 : place[l] = 2 * (r - 1) + j /\ At(l, r, j)
      BY <1>6
    <2>3. s = r /\ i = j
      <3>1. s \in Int /\ r \in Int /\ i \in {1, 2} /\ j \in {1, 2} /\ 2 * (s - 1) + i = 2 * (r - 1) + j
        <4>1. s \in Int /\ r \in Int
          BY <1>3 DEF Slots
        <4>2. i \in {1, 2} /\ j \in {1, 2}
          OBVIOUS
        <4>3. 2 * (s - 1) + i = 2 * (r - 1) + j
          BY <2>1, <2>2
        <4>4. QED
          BY <4>1, <4>2, <4>3
      <3>2. QED
        BY <3>1
    <2>4. QED
      BY <2>1, <2>2, <2>3
  <1>8. IsFiniteSet(Places) /\ Cardinality(Places) = 2 * NumSlots - 2
    <2>1. IsFiniteSet(1 .. 2 * NumSlots) /\ Cardinality(1 .. 2 * NumSlots) = 2 * NumSlots
      BY <1>3, FS_Interval
    <2>2. /\ IsFiniteSet((1 .. 2 * NumSlots) \ {2 * n - 1})
          /\ Cardinality((1 .. 2 * NumSlots) \ {2 * n - 1}) = 2 * NumSlots - 1
      <3>1. 2 * n - 1 \in 1 .. 2 * NumSlots
        BY <1>3
      <3>2. QED
        BY <1>3, <2>1, <3>1, FS_RemoveElement
    <2>3. 2 * n \in (1 .. 2 * NumSlots) \ {2 * n - 1}
      BY <1>3
    <2>4. IsFiniteSet(Places) /\ Cardinality(Places) = (2 * NumSlots - 1) - 1
      BY <2>2, <2>3, FS_RemoveElement
    <2>5. (2 * NumSlots - 1) - 1 = 2 * NumSlots - 2
      BY <1>3
    <2>6. QED
      BY <2>4, <2>5
  <1>9. IsFiniteSet(Used) /\ Cardinality(Used) = TonePpi - 1
    <2>1. IsFiniteSet(Low) /\ Cardinality(Low) = TonePpi
      BY <1>3, FS_Interval
    <2>2. QED
      BY <1>4, <2>1, FS_RemoveElement
  <1>10. Cardinality(Places) < Cardinality(Used)
    BY <1>3, <1>8, <1>9
  <1> HIDE DEF Used, Places, IsPlace, place
  <1>11. QED
    BY <1>6, <1>7, <1>8, <1>9, <1>10, FS_PigeonHole
-----------------------------------------------------------------------------
(* The PPI channels.                                                       *)

SameSlots == \A c : \A s \in Slots : OfSlot(c, s)' <=> OfSlot(c, s)

LEMMA PpiFrame ==
    ASSUME PpiInv, UNCHANGED <<slotPin, ppiOf, ppi, appPpi, toneChannel>>, SameSlots,
           \A s \in Slots : slotPin[s] # None /\ timer1 => timer1'
    PROVE  PpiInv'
  <1>1. \A c \in GpioteChannels : HasNone(c)' = HasNone(c) /\ HasTwo(c)' = HasTwo(c)
    BY DEF HasNone, HasTwo
  <1>2. QED
    BY <1>1 DEF PpiInv, SameSlots

LEMMA SlotCallFrame ==
    ASSUME UNCHANGED slotChannel,
           UNCHANGED call \/ (call.op # "pwmSave" /\ call'.op # "pwmSave")
    PROVE  SameSlots
  BY DEF SameSlots, OfSlot

LEMMA WirePpiPpi ==
    ASSUME ChannelsTypeOK, RInv, NEW k \in PpiChannels, WirePpi(k)
    PROVE  PpiInv'
  <1>1. /\ ppi[k] = None /\ ppi' = [ppi EXCEPT ![k] = Other] /\ appPpi = None /\ appPpi' = k
        /\ UNCHANGED <<slotPin, slotChannel, ppiOf, toneChannel, timer1, call>>
    BY DEF WirePpi, FreePpi, pwmVars, toneVars
  <1>2. SameSlots
    BY <1>1, SlotCallFrame
  <1>3. PpiInv
    BY DEF RInv
  <1>4. \A c \in GpioteChannels : HasNone(c) \/ HasTwo(c) => HasNone(c)' \/ HasTwo(c)'
    BY <1>1, ConstantFacts DEF HasNone, HasTwo, ChannelsTypeOK
  <1>5. QED
    BY <1>1, <1>2, <1>3, <1>4, ConstantFacts DEF PpiInv, SameSlots, ChannelsTypeOK

LEMMA FreeAppPpiPpi ==
    ASSUME ChannelsTypeOK, RInv, FreeAppPpi
    PROVE  PpiInv'
  <1>1. /\ appPpi \in PpiChannels /\ ppi' = [ppi EXCEPT ![appPpi] = None] /\ appPpi' = Freed
        /\ UNCHANGED <<slotPin, slotChannel, ppiOf, toneChannel, timer1, call>>
    BY DEF FreeAppPpi, pwmVars, toneVars
  <1>2. SameSlots
    BY <1>1, SlotCallFrame
  <1>3. PpiInv /\ ppi[appPpi] = Other
    BY <1>1 DEF RInv, PpiInv
  <1>4. \A c \in GpioteChannels : HasNone(c) \/ HasTwo(c) => HasNone(c)' \/ HasTwo(c)'
    BY <1>1, <1>3, ConstantFacts DEF HasNone, HasTwo, ChannelsTypeOK
  <1>5. QED
    BY <1>1, <1>2, <1>3, <1>4, ConstantFacts DEF PpiInv, SameSlots, ChannelsTypeOK

LEMMA ToneSetPpi ==
    ASSUME ChannelsTypeOK, RInv, ToneSet, Running'
    PROVE  PpiInv'
  <1>1. PICK d \in GpioteChannels : d = call.channel
    BY DEF ToneSet, RInv, CallInv
  <1>2. /\ ~occupied[d] /\ ppi[TonePpi] \in {None, toneChannel}
        /\ ppi' = [ppi EXCEPT ![TonePpi] = d] /\ toneChannel' = d
        /\ UNCHANGED <<slotPin, slotChannel, ppiOf, timer1, appPpi>>
    BY <1>1 DEF ToneSet, Overtaken, PpiTaken, Running, pwmVars
  <1>3. SameSlots
    BY <1>2, SlotCallFrame DEF ToneSet, NoCall
  <1>4. PpiInv /\ FreeInv /\ SlotsInv
    BY DEF RInv
  <1>5. \A c \in GpioteChannels, s \in Slots : OfSlot(c, s) => c # d /\ c # toneChannel
    BY <1>2, <1>4 DEF FreeInv, SlotsInv
  <1>6. ASSUME NEW c \in GpioteChannels, NEW s \in Slots, OfSlot(c, s), HasNone(c) \/ HasTwo(c)
        PROVE  HasNone(c)' \/ HasTwo(c)'
    <2>1. c # d /\ ppi[TonePpi] # c
      BY <1>2, <1>5, <1>6, ConstantFacts
    <2>2. QED
      BY <1>2, <1>6, <2>1, ConstantFacts DEF HasNone, HasTwo, ChannelsTypeOK
  <1>7. appPpi # TonePpi
    BY <1>2, <1>4, ConstantFacts DEF PpiInv, ChannelsTypeOK
  <1>8. QED
    BY <1>2, <1>3, <1>4, <1>6, <1>7, ConstantFacts DEF PpiInv, SameSlots, ChannelsTypeOK

LEMMA StopTonePpi ==
    ASSUME ChannelsTypeOK, RInv, StopTone, Running', SameSlots,
           UNCHANGED <<slotPin, ppiOf, timer1, appPpi>>
    PROVE  PpiInv'
  <1>1. PICK d \in GpioteChannels : d = toneChannel
    BY DEF StopTone, Running, ChannelsTypeOK
  <1>2. ppi' = [ppi EXCEPT ![TonePpi] = None] /\ toneChannel' = None
    BY DEF StopTone
  <1>3. PpiInv /\ SlotsInv
    BY DEF RInv
  <1>4. ppi[TonePpi] = d /\ appPpi # TonePpi
    BY <1>1, <1>3, ConstantFacts DEF PpiInv
  <1>5. ASSUME NEW c \in GpioteChannels, NEW s \in Slots, OfSlot(c, s), HasNone(c) \/ HasTwo(c)
        PROVE  HasNone(c)' \/ HasTwo(c)'
    <2>1. c # d
      BY <1>1, <1>3, <1>5 DEF SlotsInv
    <2>2. QED
      BY <1>2, <1>4, <1>5, <2>1, ConstantFacts DEF HasNone, HasTwo, ChannelsTypeOK
  <1>6. QED
    BY <1>1, <1>2, <1>3, <1>4, <1>5, ConstantFacts DEF PpiInv, SameSlots, ChannelsTypeOK

(* The pair that PPI_ON_TIMER_GPIO finds, or finds not.                    *)
LEMMA PairOfSlot ==
    ASSUME ChannelsTypeOK, RInv, call.op = "pwm", appPpi = None
    PROVE  /\ \E k1, k2 \in PpiChannels : TwoFreePpi(k1, k2)
           /\ \A k1, k2 \in PpiChannels : TwoFreePpi(k1, k2) => k1 # TonePpi /\ k2 # TonePpi
  <1>1. PICK a, b \in 0 .. TonePpi - 1 : a # b /\ ppi[a] = None /\ ppi[b] = None
    BY TwoBelowTone
  <1>2. TonePpi \in Nat /\ a \in PpiChannels /\ b \in PpiChannels
    BY <1>1, ChannelsAssumption DEF PpiChannels, Freed
  <1>3. \E k1, k2 \in PpiChannels : TwoFreePpi(k1, k2)
    BY <1>1, <1>2, LowestTwo
  <1>4. ASSUME NEW k1 \in PpiChannels, NEW k2 \in PpiChannels, TwoFreePpi(k1, k2),
               k1 = TonePpi \/ k2 = TonePpi
        PROVE  FALSE
    <2>1. k1 \in Nat /\ k2 \in Nat /\ k1 < k2 /\ TonePpi <= k2
      BY <1>2, <1>4, ConstantFacts DEF TwoFreePpi
    <2>2. a \in 0 .. k2 - 1 /\ b \in 0 .. k2 - 1
      BY <1>1, <1>2, <2>1
    <2>3. QED
      BY <1>1, <1>4, <2>2 DEF TwoFreePpi
  <1>5. QED
    BY <1>3, <1>4

LEMMA PwmSetPpi ==
    ASSUME ChannelsTypeOK, RInv, PwmSet, Running'
    PROVE  PpiInv'
  <1>1. PICK d \in GpioteChannels, n \in Slots : d = call.channel /\ n = call.slot
    BY DEF PwmSet, RInv, CallInv
  <1>2. /\ ~occupied[d] /\ call.op = "pwm" /\ slotPin[n] = None
        /\ UNCHANGED <<slotPin, slotChannel, timer1, appPpi, toneChannel>>
    BY <1>1 DEF PwmSet, Overtaken, Running, RInv, CallInv, toneVars
  <1>3. call'.op = "pwmSave" /\ call'.channel = d /\ call'.slot = n
    BY <1>1 DEF PwmSet, ChannelsTypeOK, Calls
  <1>4. \A c : \A s \in Slots : OfSlot(c, s)' <=> OfSlot(c, s) \/ (c = d /\ s = n)
    BY <1>2, <1>3 DEF OfSlot
  <1>5. PpiInv
    BY DEF RInv
  <1>6. toneChannel # d /\ \A s \in Slots : ~OfSlot(d, s)
    BY <1>2 DEF RInv, FreeInv
  <1>7. \A k \in PpiChannels : ppi[k] # d
    BY <1>5, <1>6, ConstantFacts DEF PpiInv
  <1>8. \A c \in GpioteChannels, s \in Slots : OfSlot(c, s) => c # d
    BY <1>6
  <1>9. CASE \E k1, k2 \in PpiChannels :
                /\ TwoFreePpi(k1, k2)
                /\ ppi' = [ppi EXCEPT ![k1] = call.channel, ![k2] = call.channel]
                /\ ppiOf' = [ppiOf EXCEPT ![call.channel] = <<k1, k2>>]
    <2>1. PICK k1, k2 \in PpiChannels :
                /\ TwoFreePpi(k1, k2)
                /\ ppi' = [ppi EXCEPT ![k1] = d, ![k2] = d]
                /\ ppiOf' = [ppiOf EXCEPT ![d] = <<k1, k2>>]
      BY <1>1, <1>9
    <2>2. /\ ppi[k1] = None /\ ppi[k2] = None /\ k1 # k2
          /\ appPpi = None => k1 # TonePpi /\ k2 # TonePpi
      BY <1>2, <2>1, PairOfSlot, ConstantFacts DEF TwoFreePpi
    <2>3. \A k \in PpiChannels : ppi'[k] = IF k = k1 \/ k = k2 THEN d ELSE ppi[k]
      BY <2>1 DEF ChannelsTypeOK
    <2>4. ppiOf'[d][1] = k1 /\ ppiOf'[d][2] = k2
      BY <2>1, PairFacts DEF ChannelsTypeOK
    <2>5. \A c \in GpioteChannels : c # d => ppiOf'[c] = ppiOf[c]
      BY <2>1 DEF ChannelsTypeOK
    <2>6. HasTwo(d)'
      BY <1>7, <2>2, <2>3, <2>4 DEF HasTwo
    <2>7. ASSUME NEW c \in GpioteChannels, c # d, HasNone(c) \/ HasTwo(c)
          PROVE  HasNone(c)' \/ HasTwo(c)'
      <3>1. \A k \in PpiChannels : ppi'[k] = c <=> ppi[k] = c
        BY <2>2, <2>3, <2>7, ConstantFacts
      <3>2. ppiOf'[c] = ppiOf[c] /\ appPpi' = appPpi
        BY <1>2, <2>5, <2>7
      <3>3. QED
        BY <2>7, <3>1, <3>2 DEF HasNone, HasTwo
    <2>8. \A c \in GpioteChannels, s \in Slots : OfSlot(c, s)' => HasNone(c)' \/ HasTwo(c)'
      BY <1>4, <1>5, <1>8, <2>6, <2>7 DEF PpiInv
    <2>9. \A c \in GpioteChannels : (\A s \in Slots : ~OfSlot(c, s)') =>
             ppiOf'[c][1] = None /\ ppiOf'[c][2] = None
      BY <1>4, <1>5, <2>5 DEF PpiInv
    <2>10. ASSUME NEW k \in PpiChannels, NEW o, o = ppi'[k], o # None
           PROVE  \/ \E s \in Slots : OfSlot(o, s)' /\ (k = TonePpi => appPpi' # None)
                  \/ k = TonePpi /\ o = toneChannel'
                  \/ k = appPpi' /\ o = Other
      <3>1. CASE k = k1 \/ k = k2
        BY <1>2, <1>4, <2>2, <2>3, <2>10, <3>1
      <3>2. CASE ~(k = k1 \/ k = k2)
        BY <1>2, <1>4, <1>5, <2>3, <2>10, <3>2 DEF PpiInv
      <3>3. QED
        BY <3>1, <3>2
    <2>11. /\ toneChannel' # None => ppi'[TonePpi] = toneChannel'
           /\ appPpi' \in PpiChannels => ppi'[appPpi'] = Other
           /\ \A s \in Slots : slotPin'[s] # None => timer1'
      BY <1>2, <1>5, <2>2, <2>3, ConstantFacts DEF PpiInv
    <2>12. QED
      BY <2>8, <2>9, <2>10, <2>11 DEF PpiInv, OfSlot
  <1>10. CASE /\ \A k1, k2 \in PpiChannels : ~TwoFreePpi(k1, k2)
              /\ UNCHANGED <<ppi, ppiOf>>
    <2>1. appPpi # None
      BY <1>2, <1>10, PairOfSlot
    <2>2. HasNone(d)'
      BY <1>2, <1>5, <1>6, <1>7, <1>10, <2>1 DEF PpiInv, HasNone
    <2>3. \A c \in GpioteChannels : HasNone(c) \/ HasTwo(c) => HasNone(c)' \/ HasTwo(c)'
      BY <1>2, <1>10 DEF HasNone, HasTwo
    <2>4. QED
      BY <1>2, <1>4, <1>5, <1>10, <2>2, <2>3 DEF PpiInv
  <1>11. QED
    BY <1>9, <1>10 DEF PwmSet

LEMMA PwmSavePpi ==
    ASSUME ChannelsTypeOK, RInv, PwmSave, Running'
    PROVE  PpiInv'
  <1>1. PICK d \in GpioteChannels, n \in Slots : d = call.channel /\ n = call.slot
    BY DEF PwmSave, RInv, CallInv
  <1>2. /\ slotPin[n] = None /\ timer1 /\ call.op = "pwmSave"
        /\ slotChannel' = [slotChannel EXCEPT ![n] = d]
        /\ UNCHANGED <<ppiOf, timer1, ppi, appPpi, toneChannel>>
    BY <1>1 DEF PwmSave, Running, RInv, CallInv, ppiVars, toneVars
  <1>3. slotChannel[n] = None
    BY <1>2 DEF RInv, SlotsInv
  <1>4. \A c : c # None => \A s \in Slots : OfSlot(c, s)' <=> OfSlot(c, s)
    BY <1>1, <1>2, <1>3 DEF PwmSave, NoCall, OfSlot, ChannelsTypeOK
  <1>5. \A c \in GpioteChannels : c # None /\ HasNone(c)' = HasNone(c) /\ HasTwo(c)' = HasTwo(c)
    BY <1>2, ConstantFacts DEF HasNone, HasTwo
  <1>6. QED
    BY <1>2, <1>4, <1>5 DEF RInv, PpiInv

LEMMA PpiOffPpi ==
    ASSUME ChannelsTypeOK, RInv, NEW n \in Slots, PpiOffFromGPIO(n)
    PROVE  PpiInv'
  <1>1. PICK d \in GpioteChannels : d = slotChannel[n]
    BY DEF RInv, SlotsInv, PpiOffFromGPIO
  <1>2. /\ call = NoCall /\ slotPin' = [slotPin EXCEPT ![n] = None]
        /\ slotChannel' = [slotChannel EXCEPT ![n] = None]
        /\ ppi' = [k \in PpiChannels |->
                      IF k \in {ppiOf[d][1], ppiOf[d][2]} THEN None ELSE ppi[k]]
        /\ ppiOf' = [ppiOf EXCEPT ![d] = <<None, None>>]
        /\ timer1' = (timer1 /\ SlotsInUse(slotPin'))
        /\ UNCHANGED <<appPpi, toneChannel, call>>
    BY <1>1 DEF PpiOffFromGPIO, toneVars
  <1>3. OfSlot(d, n)
    BY <1>1 DEF OfSlot
  <1>4. PpiInv /\ SlotsInv
    BY DEF RInv
  <1>5. \A c : c # None => \A s \in Slots : OfSlot(c, s)' <=> OfSlot(c, s) /\ s # n
    <2>1. ASSUME NEW c, c # None, NEW s \in Slots
          PROVE  slotChannel'[s] = c <=> slotChannel[s] = c /\ s # n
      BY <1>2, <2>1 DEF ChannelsTypeOK
    <2>2. call.op # "pwmSave" /\ call' = call
      BY <1>2 DEF NoCall
    <2>3. QED
      BY <2>1, <2>2 DEF OfSlot
  <1>6. \A s \in Slots : OfSlot(d, s) => s = n
    BY <1>3, <1>4 DEF SlotsInv
  <1>7. \A k \in PpiChannels : ppi'[k] = IF ppi[k] = d THEN None ELSE ppi[k]
    <2>1. CASE HasNone(d)
      BY <1>2, <2>1, ConstantFacts DEF HasNone
    <2>2. CASE HasTwo(d)
      BY <1>2, <2>2 DEF HasTwo
    <2>3. QED
      BY <1>3, <1>4, <2>1, <2>2 DEF PpiInv
  <1>8. /\ ppiOf'[d][1] = None /\ ppiOf'[d][2] = None
        /\ \A c \in GpioteChannels : c # d => ppiOf'[c] = ppiOf[c]
    BY <1>2, PairFacts DEF ChannelsTypeOK
  <1>9. d # toneChannel /\ d # Other /\ d # None
    BY <1>3, <1>4, ConstantFacts DEF SlotsInv
  <1>10. \A c \in GpioteChannels, s \in Slots : OfSlot(c, s)' => HasNone(c)' \/ HasTwo(c)'
    <2> SUFFICES ASSUME NEW c \in GpioteChannels, NEW s \in Slots, OfSlot(c, s)'
                 PROVE  HasNone(c)' \/ HasTwo(c)'
      OBVIOUS
    <2>1. OfSlot(c, s) /\ c # d /\ c # None
      BY <1>5, <1>6, ConstantFacts
    <2>2. HasNone(c) \/ HasTwo(c)
      BY <1>4, <2>1 DEF PpiInv
    <2>3. QED
      BY <1>2, <1>7, <1>8, <2>1, <2>2 DEF HasNone, HasTwo
  <1>11. \A c \in GpioteChannels : (\A s \in Slots : ~OfSlot(c, s)') =>
            ppiOf'[c][1] = None /\ ppiOf'[c][2] = None
    <2> SUFFICES ASSUME NEW c \in GpioteChannels, \A s \in Slots : ~OfSlot(c, s)', c # d
                 PROVE  ppiOf'[c][1] = None /\ ppiOf'[c][2] = None
      BY <1>8
    <2>1. ~OfSlot(c, n) /\ c # None
      BY <1>1, <1>2, ConstantFacts DEF OfSlot, NoCall
    <2>2. \A s \in Slots : ~OfSlot(c, s)
      BY <1>5, <2>1
    <2>3. QED
      BY <1>4, <1>8, <2>2 DEF PpiInv
  <1>12. ASSUME NEW k \in PpiChannels, NEW o, o = ppi'[k], o # None
         PROVE  \/ \E s \in Slots : OfSlot(o, s)' /\ (k = TonePpi => appPpi' # None)
                \/ k = TonePpi /\ o = toneChannel'
                \/ k = appPpi' /\ o = Other
    <2>1. o = ppi[k] /\ o # d /\ o # None
      BY <1>7, <1>12
    <2>2. ~OfSlot(o, n)
      BY <1>1, <1>2, <2>1 DEF OfSlot, NoCall
    <2>3. QED
      BY <1>2, <1>4, <1>5, <2>1, <2>2 DEF PpiInv
  <1>13. /\ toneChannel' # None => ppi'[TonePpi] = toneChannel'
         /\ appPpi' \in PpiChannels => ppi'[appPpi'] = Other
    BY <1>2, <1>4, <1>7, <1>9, ConstantFacts DEF PpiInv
  <1>14. \A s \in Slots : slotPin'[s] # None => timer1'
    <2>1. \A s \in Slots : slotPin'[s] # None => slotPin[s] # None
      BY <1>2 DEF ChannelsTypeOK
    <2>2. QED
      BY <1>2, <1>4, <2>1 DEF PpiInv, SlotsInUse
  <1>15. QED
    BY <1>10, <1>11, <1>12, <1>13, <1>14 DEF PpiInv, OfSlot
-----------------------------------------------------------------------------
(* Every step but a race keeps the owners.                                 *)

(* A step that changes no table, and begins a call at most.                *)
LEMMA ChannelsQuiet ==
    ASSUME RInv, CallInv', timer1 => timer1',
           UNCHANGED <<chanVars, extIT, slotPin, slotChannel, ppiOf, ppiVars, toneChannel, leaked>>,
           \/ UNCHANGED call
           \/ call.op \notin {"detach", "pwmSave"} /\ call'.op \notin {"detach", "pwmSave"}
    PROVE  RInv'
  <1>1. HoldInv'
    BY CallFrame, HoldersFrame DEF RInv, HoldInv, chanVars
  <1>2. PpiInv'
    BY SlotCallFrame, PpiFrame DEF RInv, ppiVars
  <1>3. QED
    BY <1>1, <1>2 DEF RInv, HoldInv

LEMMA CallInvFrame ==
    ASSUME CallInv, UNCHANGED <<call, slotPin>>,
           call.op = "pwmSave" => config'[call.channel] = config[call.channel]
    PROVE  CallInv'
  BY DEF CallInv

LEMMA CallInvEnds ==
    ASSUME call' = NoCall
    PROVE  CallInv'
  BY DEF CallInv, NoCall

LEMMA OwnersKept ==
    ASSUME ChannelsTypeOK, RInv, ChannelsNext, Running'
    PROVE  RInv'
  <1>0. CallInv /\ HoldInv /\ PpiInv
    BY DEF RInv, HoldInv
  <1> SUFFICES RInv' \/ (CallInv' /\ HoldInv' /\ PpiInv')
    BY DEF RInv, HoldInv
  <1>1. ASSUME NEW k \in PpiChannels, WirePpi(k) PROVE CallInv' /\ HoldInv' /\ PpiInv'
    <2>1. UNCHANGED <<chanVars, extIT, slotPin, slotChannel, toneChannel, leaked, call>>
      BY <1>1 DEF WirePpi, extVars, pwmVars, toneVars
    <2>2. HoldInv'
      BY <1>0, <2>1, CallFrame, HoldersFrame DEF chanVars
    <2>3. QED
      BY <1>0, <1>1, <2>1, <2>2, CallInvFrame, WirePpiPpi DEF chanVars
  <1>2. CASE FreeAppPpi
    <2>1. UNCHANGED <<chanVars, extIT, slotPin, slotChannel, toneChannel, leaked, call>>
      BY <1>2 DEF FreeAppPpi, extVars, pwmVars, toneVars
    <2>2. HoldInv'
      BY <1>0, <2>1, CallFrame, HoldersFrame DEF chanVars
    <2>3. QED
      BY <1>0, <1>2, <2>1, <2>2, CallInvFrame, FreeAppPpiPpi DEF chanVars
  <1>3. ASSUME NEW p \in Buttons, AttachFind(p) PROVE RInv'
    <2>1. PICK c \in GpioteChannels : call' = [NoCall EXCEPT !.op = "attach", !.pin = p, !.channel = c]
      BY <1>3 DEF AttachFind, Running
    <2>2. call'.op = "attach" /\ call'.pin = p /\ call'.channel = c
      BY <2>1 DEF NoCall
    <2>3. CallInv'
      BY <2>2 DEF CallInv
    <2>4. QED
      BY <1>3, <2>2, <2>3, ChannelsQuiet DEF AttachFind, NoCall, extVars, pwmVars, toneVars
  <1>4. CASE AttachSet
    <2>1. SameSlots
      BY <1>4, SlotCallFrame DEF AttachSet, pwmVars, NoCall
    <2>2. PpiInv'
      BY <1>0, <1>4, <2>1, PpiFrame DEF AttachSet, pwmVars, ppiVars, toneVars
    <2>3. QED
      BY <1>4, <2>2, CallInvEnds, AttachSetHolders DEF AttachSet
  <1>5. ASSUME NEW c \in GpioteChannels, DetachClean(c) PROVE CallInv' /\ HoldInv' /\ PpiInv'
    <2>1. SameSlots
      BY <1>5, SlotCallFrame DEF DetachClean, pwmVars, NoCall
    <2>2. PpiInv'
      BY <1>0, <1>5, <2>1, PpiFrame DEF DetachClean, pwmVars, ppiVars, toneVars
    <2>3. call'.op = "detach" /\ call'.pin = extIT[c] /\ call'.channel = c /\ extIT[c] \in Buttons
      BY <1>5 DEF DetachClean, NoCall, ChannelsTypeOK
    <2>4. CallInv'
      BY <2>3 DEF CallInv
    <2>5. QED
      BY <1>5, <2>2, <2>4, DetachCleanHolders
  <1>6. CASE DetachForget
    <2>1. SameSlots
      BY <1>6, SlotCallFrame DEF DetachForget, pwmVars, NoCall
    <2>2. PpiInv'
      BY <1>0, <1>6, <2>1, PpiFrame DEF DetachForget, pwmVars, ppiVars, toneVars
    <2>3. QED
      BY <1>6, <2>2, CallInvEnds, DetachForgetHolders DEF DetachForget
  <1>7. ASSUME NEW c \in GpioteChannels, EdgeLatches(c) \/ RejectEdge(c) PROVE RInv'
    <2>1. CallInv'
      BY <1>0, <1>7, CallInvFrame DEF EdgeLatches, RejectEdge, pwmVars, chanVars
    <2>2. QED
      BY <1>7, <2>1, ChannelsQuiet DEF EdgeLatches, RejectEdge, pwmVars, chanVars, toneVars
  <1>8. ASSUME NEW g \in GpioteChannels, ButtonISR(g) PROVE CallInv' /\ HoldInv' /\ PpiInv'
    <2>1. PICK d \in GpioteChannels :
             /\ IsFreeIn([occupied EXCEPT ![g] = FALSE], d)
             /\ config' = [[config EXCEPT ![g] = Off] EXCEPT ![d] = Event(extIT[g])]
      BY <1>8 DEF ButtonISR
    <2>2. extIT[g] # None /\ UNCHANGED <<slotPin, slotChannel, ppiOf, ppi, appPpi, toneChannel, call>>
      BY <1>8 DEF ButtonISR, Serves, ppiVars, toneVars
    <2>3. ASSUME call.op = "pwmSave"
          PROVE  config'[call.channel] = config[call.channel]
      <3>1. call.channel \in GpioteChannels /\ call.slot \in Slots
        BY <1>0, <2>3 DEF CallInv
      <3>2. OfSlot(call.channel, call.slot) /\ OfInterrupt(g)
        BY <2>2, <2>3 DEF OfSlot, OfInterrupt, Forgotten
      <3>3. g # call.channel /\ occupied[call.channel]
        BY <1>0, <3>1, <3>2 DEF HoldInv, FreeInv, InterruptInv
      <3>4. d # call.channel
        BY <2>1, <3>1, <3>3 DEF IsFreeIn, ChannelsTypeOK
      <3>5. QED
        BY <2>1, <3>1, <3>3, <3>4 DEF ChannelsTypeOK
    <2>4. CallInv'
      BY <1>0, <2>2, <2>3, CallInvFrame
    <2>5. \A s \in Slots : slotPin[s] # None /\ timer1 => timer1'
      BY <1>8 DEF ButtonISR, SlotsInUse
    <2>6. PpiInv'
      BY <1>0, <2>2, <2>5, SlotCallFrame, PpiFrame
    <2>7. QED
      BY <1>8, <2>4, <2>6, ButtonISRHolders
  <1>9. ASSUME NEW p \in Outputs, ToneFind(p) PROVE RInv'
    <2>1. PICK c \in GpioteChannels : call' = [NoCall EXCEPT !.op = "tone", !.pin = p, !.channel = c]
      BY <1>9 DEF ToneFind
    <2>2. call'.op = "tone" /\ call'.pin = p /\ call'.channel = c
      BY <2>1 DEF NoCall
    <2>3. CallInv'
      BY <2>2 DEF CallInv
    <2>4. QED
      BY <1>9, <2>2, <2>3, ChannelsQuiet DEF ToneFind, NoCall, extVars, pwmVars, toneVars
  <1>10. CASE ToneSave
    <2>1. /\ call.op = "tone" /\ call'.op = "toneSaved"
          /\ call'.pin = call.pin /\ call'.channel = call.channel
      BY <1>10 DEF ToneSave, ChannelsTypeOK, Calls
    <2>2. CallInv'
      BY <1>0, <2>1 DEF CallInv
    <2>3. QED
      BY <1>10, <2>1, <2>2, ChannelsQuiet DEF ToneSave, extVars, pwmVars
  <1>11. CASE ToneSet
    BY <1>11, CallInvEnds, ToneSetHolders, ToneSetPpi DEF ToneSet
  <1>12. ASSUME NEW p \in Outputs, NoToneTest(p) PROVE RInv'
    <2>1. call.op = "none" /\ call'.op = "noTone"
      BY <1>12 DEF NoToneTest, NoCall
    <2>2. CallInv'
      BY <2>1 DEF CallInv
    <2>3. QED
      BY <1>12, <2>1, <2>2, ChannelsQuiet DEF NoToneTest, extVars, pwmVars, toneVars
  <1>13. CASE NoTone
    <2>1. /\ StopTone /\ call.op = "noTone" /\ call'.op = "none" /\ call' = NoCall
          /\ UNCHANGED <<extIT, slotPin, slotChannel, leaked, ppiOf, timer1, appPpi>>
      BY <1>13 DEF NoTone, NoCall, extVars, pwmVars
    <2>2. SameSlots
      BY <2>1, SlotCallFrame
    <2>3. QED
      BY <2>1, <2>2, CallInvEnds, StopToneHolders, StopTonePpi
  <1>14. CASE TonePeriod
    <2>1. CallInv'
      BY <1>0, <1>14, CallInvFrame DEF TonePeriod, pwmVars, chanVars
    <2>2. QED
      BY <1>14, <2>1, ChannelsQuiet DEF TonePeriod, extVars, pwmVars
  <1>15. CASE ToneEnds
    <2>1. StopTone /\ UNCHANGED <<extIT, slotPin, slotChannel, leaked, ppiOf, timer1, appPpi, call>>
      BY <1>15 DEF ToneEnds, Running, extVars, pwmVars
    <2>2. ASSUME call.op = "pwmSave"
          PROVE  config'[call.channel] = config[call.channel]
      <3>1. call.channel \in GpioteChannels /\ call.slot \in Slots
        BY <1>0, <2>2 DEF CallInv
      <3>2. OfSlot(call.channel, call.slot)
        BY <2>2 DEF OfSlot
      <3>3. toneChannel # call.channel
        BY <1>0, <3>1, <3>2 DEF HoldInv, SlotsInv
      <3>4. config' = [config EXCEPT ![toneChannel] = Off]
        BY <2>1 DEF StopTone, Clean, Running
      <3>5. QED
        BY <3>1, <3>3, <3>4 DEF ChannelsTypeOK
    <2>3. CallInv'
      BY <1>0, <2>1, <2>2, CallInvFrame
    <2>4. QED
      BY <2>1, <2>3, SlotCallFrame, StopToneHolders, StopTonePpi
  <1>16. ASSUME NEW p \in Outputs, PwmFind(p) PROVE RInv'
    <2>1. PICK c \in GpioteChannels, s \in Slots :
             slotPin[s] = None /\ call' = [op |-> "pwm", pin |-> p, channel |-> c, slot |-> s]
      BY <1>16 DEF PwmFind
    <2>2. call'.op = "pwm" /\ call'.pin = p /\ call'.channel = c /\ call'.slot = s /\ slotPin' = slotPin
      BY <1>16, <2>1 DEF PwmFind
    <2>3. CallInv'
      BY <2>1, <2>2 DEF CallInv
    <2>4. QED
      BY <1>16, <2>2, <2>3, ChannelsQuiet DEF PwmFind, NoCall, extVars, toneVars
  <1>17. CASE PwmSet
    <2>1. /\ call.op = "pwm" /\ call'.op = "pwmSave" /\ call'.pin = call.pin
          /\ call'.channel = call.channel /\ call'.slot = call.slot /\ slotPin' = slotPin
      BY <1>17 DEF PwmSet, ChannelsTypeOK, Calls
    <2>2. config'[call.channel] = Task(call.pin)
      BY <1>0, <1>17, <2>1 DEF PwmSet, ReserveAs, CallInv, ChannelsTypeOK
    <2>3. CallInv'
      BY <1>0, <2>1, <2>2 DEF CallInv
    <2>4. QED
      BY <1>17, <2>3, PwmSetHolders, PwmSetPpi
  <1>18. CASE PwmSave
    BY <1>18, CallInvEnds, PwmSaveHolders, PwmSavePpi DEF PwmSave
  <1>19. ASSUME NEW s \in Slots, PpiOffFromGPIO(s) PROVE CallInv' /\ HoldInv' /\ PpiInv'
    BY <1>19, CallInvEnds, PpiOffHolders, PpiOffPpi DEF PpiOffFromGPIO
  <1>20. ASSUME NEW s \in Slots, Timer1Handler(s) PROVE CallInv' /\ HoldInv' /\ PpiInv'
    <2>1. slotChannel[s] \in GpioteChannels /\ config[slotChannel[s]] = Task(slotPin[s])
      BY <1>0, <1>20 DEF HoldInv, SlotsInv, Timer1Handler
    <2>2. config' = config
      BY <1>20, <2>1 DEF Timer1Handler, ChannelsTypeOK
    <2>3. CallInv'
      BY <1>0, <1>20, <2>2, CallInvFrame DEF Timer1Handler, pwmVars
    <2>4. PpiInv'
      BY <1>0, <1>20, SlotCallFrame, PpiFrame DEF Timer1Handler, pwmVars, ppiVars, toneVars
    <2>5. QED
      BY <1>20, <2>3, <2>4, Timer1Holders
  <1>21. QED
    BY <1>1, <1>2, <1>3, <1>4, <1>5, <1>6, <1>7, <1>8, <1>9, <1>10, <1>11, <1>12, <1>13, <1>14,
       <1>15, <1>16, <1>17, <1>18, <1>19, <1>20
       DEF ChannelsNext, Interrupts, Calling
-----------------------------------------------------------------------------
(* An application that gives nothing back.                                 *)

(* The lowest free channel is taken.                                       *)
LEMMA LowestTaken ==
    ASSUME ChannelsTypeOK, LowestUsed, NEW d \in GpioteChannels, IsFreeIn(occupied, d),
           occupied' = [occupied EXCEPT ![d] = TRUE]
    PROVE  LowestUsed'
  <1> SUFFICES ASSUME NEW b \in GpioteChannels, NEW c \in GpioteChannels, b < c, occupied'[c]
               PROVE  occupied'[b]
    BY DEF LowestUsed
  <1>1. CASE c = d
    <2>1. b \in 0 .. d - 1
      BY <1>1, ConstantFacts DEF GpioteChannels
    <2>2. QED
      BY <2>1 DEF IsFreeIn, ChannelsTypeOK
  <1>2. CASE c # d
    BY <1>2 DEF LowestUsed, ChannelsTypeOK
  <1>3. QED
    BY <1>1, <1>2

LEMMA SafeFrame ==
    ASSUME Safe, CallFindsLowest, Running,
           UNCHANGED <<occupied, latched, intenset, extIT, tonePin, fate>>,
           \/ UNCHANGED call
           \/ call'.op \in {"none", "noTone"}
           \/ call'.op \in {"attach", "tone", "toneSaved", "pwm"} /\ IsFreeIn(occupied, call'.channel)
    PROVE  Safe' /\ CallFindsLowest'
  BY DEF Safe, CallFindsLowest, NoRace, LowestUsed, EventsHaveHandlers, Running

(* The channel of an interrupt that is served is taken again.              *)
LEMMA SameChannelAgain ==
    ASSUME ChannelsTypeOK, RInv, LowestUsed, call.op # "detach",
           NEW g \in GpioteChannels, extIT[g] # None,
           NEW d \in GpioteChannels, IsFreeIn([occupied EXCEPT ![g] = FALSE], d)
    PROVE  d = g /\ occupied[g]
  <1>1. OfInterrupt(g)
    BY DEF OfInterrupt, Forgotten
  <1>2. occupied[g]
    BY <1>1 DEF RInv, FreeInv
  <1>3. SUFFICES ASSUME d # g PROVE FALSE
    BY <1>2
  <1>4. ~occupied[d]
    BY <1>3 DEF IsFreeIn, ChannelsTypeOK
  <1>5. g < d
    BY <1>2, <1>3, <1>4, ConstantFacts DEF LowestUsed
  <1>6. g \in 0 .. d - 1
    BY <1>5, ConstantFacts DEF GpioteChannels
  <1>7. QED
    BY <1>6 DEF IsFreeIn, ChannelsTypeOK

(* Only the channel of an interrupt is configured for events.              *)
LEMMA EventsOfInterrupts ==
    ASSUME RInv, NEW c \in GpioteChannels, config[c].mode = "event"
    PROVE  OfInterrupt(c)
  <1>1. occupied[c]
    BY ConfigFacts DEF RInv, FreeInv
  <1>2. ~(\E s \in Slots : OfSlot(c, s)) /\ toneChannel # c /\ c \notin leaked
    BY ConstantFacts DEF RInv, SlotsInv, ToneInv
  <1>3. QED
    BY <1>1, <1>2 DEF RInv, HeldInv

LEMMA SafeKept ==
    ASSUME ChannelsTypeOK, RInv, Running, Safe, CallFindsLowest, ChannelsNext, ~released'
    PROVE  Safe' /\ (Running' => CallFindsLowest')
  <1>1. ASSUME NEW k \in PpiChannels, WirePpi(k) PROVE Safe' /\ CallFindsLowest'
    BY <1>1, SafeFrame DEF WirePpi, chanVars, extVars, toneVars
  <1>2. CASE FreeAppPpi
    BY <1>2, SafeFrame DEF FreeAppPpi, chanVars, extVars, toneVars
  <1>3. ASSUME NEW p \in Buttons, AttachFind(p) PROVE Safe' /\ (Running' => CallFindsLowest')
    <2>1. CASE fate' = "assert"
      BY <1>3, <2>1 DEF AttachFind, Safe, NoRace, LowestUsed, EventsHaveHandlers, Running,
                        chanVars, extVars
    <2>2. ASSUME NEW c \in GpioteChannels, ChannelFind(c), fate' = fate,
                 call' = [NoCall EXCEPT !.op = "attach", !.pin = p, !.channel = c]
          PROVE  Safe' /\ CallFindsLowest'
      <3>1. call'.op = "attach" /\ call'.channel = c
        BY <2>2 DEF NoCall
      <3>2. QED
        BY <1>3, <2>2, <3>1, SafeFrame DEF AttachFind, ChannelFind, chanVars, extVars, toneVars
    <2>3. QED
      BY <1>3, <2>1, <2>2 DEF AttachFind
  <1>4. CASE AttachSet
    <2>1. PICK d \in GpioteChannels : d = call.channel
      BY <1>4 DEF AttachSet, RInv, CallInv
    <2>2. /\ IsFreeIn(occupied, d) /\ call.pin # None /\ call' = NoCall
          /\ occupied' = [occupied EXCEPT ![d] = TRUE]
          /\ extIT' = [extIT EXCEPT ![d] = call.pin]
          /\ intenset' = intenset \union {d}
          /\ UNCHANGED <<latched, appPpi, tonePin>>
      BY <1>4, <2>1, ConstantFacts
         DEF AttachSet, ReserveAs, EnableInterrupt, CallFindsLowest, RInv, CallInv, ppiVars, toneVars
    <2>3. fate' = fate
      BY <1>4, <2>1, <2>2 DEF AttachSet, Overtaken, IsFreeIn
    <2>4. LowestUsed'
      BY <2>2, LowestTaken DEF Safe
    <2>5. EventsHaveHandlers'
      BY <2>2 DEF Safe, EventsHaveHandlers, ChannelsTypeOK
    <2>6. CallFindsLowest'
      BY <2>2 DEF CallFindsLowest, NoCall
    <2>7. QED
      BY <2>2, <2>3, <2>4, <2>5, <2>6 DEF Safe, NoRace
  <1>5. ASSUME NEW c \in GpioteChannels, EdgeLatches(c) PROVE Safe' /\ CallFindsLowest'
    <2>1. extIT[c] # None
      BY <1>5, EventsOfInterrupts DEF EdgeLatches, OfInterrupt
    <2>2. QED
      BY <1>5, <2>1 DEF EdgeLatches, Safe, CallFindsLowest, NoRace, LowestUsed, EventsHaveHandlers,
                        chanVars, ppiVars, toneVars
  <1>6. ASSUME NEW c \in GpioteChannels, RejectEdge(c) PROVE Safe' /\ CallFindsLowest'
    BY <1>6 DEF RejectEdge, Safe, CallFindsLowest, NoRace, LowestUsed, EventsHaveHandlers,
                chanVars, ppiVars, toneVars
  <1>7. ASSUME NEW g \in GpioteChannels, ButtonISR(g) PROVE Safe' /\ CallFindsLowest'
    <2>1. PICK d \in GpioteChannels :
             /\ IsFreeIn([occupied EXCEPT ![g] = FALSE], d)
             /\ occupied' = [[occupied EXCEPT ![g] = FALSE] EXCEPT ![d] = TRUE]
             /\ extIT' = [[extIT EXCEPT ![g] = None] EXCEPT ![d] = extIT[g]]
             /\ intenset' = intenset \union {d}
      BY <1>7 DEF ButtonISR, EnableInterrupt
    <2>2. extIT[g] # None /\ UNCHANGED <<appPpi, tonePin, call, fate>> /\ latched' \subseteq latched
      BY <1>7 DEF ButtonISR, Serves, ppiVars, toneVars
    <2>3. d = g /\ occupied[g]
      BY <2>1, <2>2, SameChannelAgain DEF Safe, CallFindsLowest
    <2>4. occupied' = occupied /\ extIT' = extIT
      BY <2>1, <2>3 DEF ChannelsTypeOK
    <2>5. EventsHaveHandlers'
      BY <2>1, <2>2, <2>3, <2>4 DEF Safe, EventsHaveHandlers
    <2>6. QED
      BY <2>2, <2>4, <2>5 DEF Safe, CallFindsLowest, NoRace, LowestUsed
  <1>8. ASSUME NEW p \in Outputs, ToneFind(p) PROVE Safe' /\ CallFindsLowest'
    <2>1. PICK c \in GpioteChannels :
             ChannelFind(c) /\ call' = [NoCall EXCEPT !.op = "tone", !.pin = p, !.channel = c]
      BY <1>8 DEF ToneFind
    <2>2. call'.op = "tone" /\ call'.channel = c
      BY <2>1 DEF NoCall
    <2>3. QED
      BY <1>8, <2>1, <2>2, SafeFrame DEF ToneFind, ChannelFind, chanVars, extVars, toneVars
  <1>9. CASE ToneSave
    <2>1. call'.op = "toneSaved" /\ call'.channel = call.channel /\ tonePin' # None
      BY <1>9, ConstantFacts DEF ToneSave, RInv, CallInv, ChannelsTypeOK, Calls
    <2>2. IsFreeIn(occupied, call.channel)
      BY <1>9 DEF ToneSave, CallFindsLowest
    <2>3. QED
      BY <1>9, <2>1, <2>2 DEF ToneSave, Safe, CallFindsLowest, NoRace, LowestUsed,
                              EventsHaveHandlers, chanVars, extVars, ppiVars
  <1>10. CASE ToneSet
    <2>1. PICK d \in GpioteChannels : d = call.channel
      BY <1>10 DEF ToneSet, RInv, CallInv
    <2>2. /\ IsFreeIn(occupied, d) /\ call' = NoCall
          /\ occupied' = [occupied EXCEPT ![d] = TRUE]
          /\ UNCHANGED <<latched, intenset, extIT, appPpi, tonePin>>
      BY <1>10, <2>1 DEF ToneSet, ReserveAs, CallFindsLowest, extVars
    <2>3. fate' = fate \/ (fate' = "ppi" /\ PpiTaken)
      BY <1>10, <2>1, <2>2 DEF ToneSet, Overtaken, IsFreeIn
    <2>4. PpiTaken => appPpi # None
      BY ConstantFacts DEF PpiTaken, RInv, PpiInv
    <2>5. NoRace'
      BY <2>2, <2>3, <2>4 DEF Safe, NoRace
    <2>6. LowestUsed'
      BY <2>2, LowestTaken DEF Safe
    <2>7. EventsHaveHandlers'
      BY <2>2 DEF Safe, EventsHaveHandlers
    <2>8. CallFindsLowest'
      BY <2>2 DEF CallFindsLowest, NoCall
    <2>9. QED
      BY <2>5, <2>6, <2>7, <2>8 DEF Safe
  <1>11. ASSUME NEW p \in Outputs, NoToneTest(p) PROVE Safe' /\ CallFindsLowest'
    <2>1. call'.op = "noTone"
      BY <1>11 DEF NoToneTest, NoCall
    <2>2. QED
      BY <1>11, <2>1, SafeFrame DEF NoToneTest, chanVars, extVars, toneVars
  <1>12. CASE TonePeriod
    BY <1>12, SafeFrame DEF TonePeriod, chanVars, extVars
  <1>13. ASSUME NEW p \in Outputs, PwmFind(p) PROVE Safe' /\ CallFindsLowest'
    <2>1. PICK c \in GpioteChannels, s \in Slots :
             ChannelFind(c) /\ call' = [op |-> "pwm", pin |-> p, channel |-> c, slot |-> s]
      BY <1>13 DEF PwmFind
    <2>2. call'.op = "pwm" /\ call'.channel = c
      BY <2>1
    <2>3. QED
      BY <1>13, <2>1, <2>2, SafeFrame DEF PwmFind, ChannelFind, chanVars, extVars, toneVars
  <1>14. CASE PwmSet
    <2>1. PICK d \in GpioteChannels : d = call.channel
      BY <1>14 DEF PwmSet, RInv, CallInv
    <2>2. /\ IsFreeIn(occupied, d)
          /\ occupied' = [occupied EXCEPT ![d] = TRUE]
          /\ UNCHANGED <<latched, intenset, extIT, appPpi, tonePin>>
      BY <1>14, <2>1 DEF PwmSet, ReserveAs, CallFindsLowest, extVars, toneVars
    <2>3. fate' = fate
      BY <1>14, <2>1, <2>2 DEF PwmSet, Overtaken, IsFreeIn
    <2>4. call'.op = "pwmSave"
      BY <1>14 DEF PwmSet, ChannelsTypeOK, Calls
    <2>5. LowestUsed'
      BY <2>2, LowestTaken DEF Safe
    <2>6. QED
      BY <2>2, <2>3, <2>4, <2>5 DEF Safe, CallFindsLowest, NoRace, EventsHaveHandlers
  <1>15. CASE PwmSave
    <2>1. /\ UNCHANGED <<occupied, latched, intenset, extIT, appPpi, tonePin>>
          /\ call' = NoCall /\ fate' \in {fate, "timer1"}
      BY <1>15 DEF PwmSave, chanVars, extVars, ppiVars, toneVars
    <2>2. QED
      BY <2>1 DEF Safe, CallFindsLowest, NoRace, LowestUsed, EventsHaveHandlers, NoCall
  <1>16. ASSUME NEW s \in Slots, Timer1Handler(s) PROVE Safe' /\ CallFindsLowest'
    BY <1>16, SafeFrame DEF Timer1Handler, extVars, toneVars
  <1>17. ~(\E c \in GpioteChannels : DetachClean(c)) /\ ~(\E s \in Slots : PpiOffFromGPIO(s))
    BY DEF DetachClean, PpiOffFromGPIO
  <1>18. ~DetachForget /\ ~NoTone /\ ~ToneEnds
    BY DEF DetachForget, NoTone, ToneEnds, StopTone, CallFindsLowest
  <1>19. QED
    BY <1>1, <1>2, <1>3, <1>4, <1>5, <1>6, <1>7, <1>8, <1>9, <1>10, <1>11, <1>12, <1>13, <1>14,
       <1>15, <1>16, <1>17, <1>18
       DEF ChannelsNext, Interrupts, Calling
-----------------------------------------------------------------------------
(* The theorems.                                                           *)

LEMMA SafeIsSafe == SafeUntilReleased <=> (~released => Safe)
  BY DEF SafeUntilReleased, Safe, NoRace, LowestUsed, EventsHaveHandlers

LEMMA StepsWhileRunning ==
    ASSUME ChannelsNext
    PROVE  Running /\ (released => released')
  <1>1. ASSUME NEW c \in GpioteChannels, EdgeLatches(c) PROVE Running /\ (released => released')
    BY <1>1 DEF EdgeLatches
  <1>2. ASSUME NEW c \in GpioteChannels, RejectEdge(c) PROVE Running /\ (released => released')
    BY <1>2 DEF RejectEdge
  <1>3. ASSUME NEW c \in GpioteChannels, ButtonISR(c) PROVE Running /\ (released => released')
    BY <1>3 DEF ButtonISR
  <1>4. ASSUME NEW s \in Slots, Timer1Handler(s) PROVE Running /\ (released => released')
    BY <1>4 DEF Timer1Handler
  <1>5. CASE TonePeriod
    BY <1>5 DEF TonePeriod
  <1>6. CASE ToneEnds
    <2>1. released' = TRUE \/ released' = released
      BY <1>6 DEF ToneEnds, StopTone
    <2>2. Running
      BY <1>6 DEF ToneEnds
    <2>3. QED
      BY <2>1, <2>2
  <1>7. ASSUME NEW p \in Buttons, AttachFind(p) PROVE Running /\ (released => released')
    BY <1>7 DEF AttachFind, Main
  <1>8. ASSUME NEW c \in GpioteChannels, DetachClean(c) PROVE Running /\ (released => released')
    BY <1>8 DEF DetachClean, Main
  <1>9. ASSUME NEW p \in Outputs, ToneFind(p) PROVE Running /\ (released => released')
    BY <1>9 DEF ToneFind, Main
  <1>10. ASSUME NEW p \in Outputs, NoToneTest(p) PROVE Running /\ (released => released')
    BY <1>10 DEF NoToneTest, Main
  <1>11. ASSUME NEW p \in Outputs, PwmFind(p) PROVE Running /\ (released => released')
    BY <1>11 DEF PwmFind, Main
  <1>12. ASSUME NEW s \in Slots, PpiOffFromGPIO(s) PROVE Running /\ (released => released')
    BY <1>12 DEF PpiOffFromGPIO, Main
  <1>13. ASSUME NEW k \in PpiChannels, WirePpi(k) PROVE Running /\ (released => released')
    BY <1>13 DEF WirePpi, Main
  <1>14. CASE FreeAppPpi
    BY <1>14 DEF FreeAppPpi, Main
  <1>15. CASE AttachSet
    BY <1>15 DEF AttachSet, Main
  <1>16. CASE DetachForget
    BY <1>16 DEF DetachForget, Main
  <1>17. CASE ToneSave
    BY <1>17 DEF ToneSave, Main
  <1>18. CASE ToneSet
    BY <1>18 DEF ToneSet, Main
  <1>19. CASE NoTone
    BY <1>19 DEF NoTone, StopTone, Main
  <1>20. CASE PwmSet
    BY <1>20 DEF PwmSet, Main
  <1>21. CASE PwmSave
    BY <1>21 DEF PwmSave, Main
  <1>22. QED
    BY <1>1, <1>2, <1>3, <1>4, <1>5, <1>6, <1>7, <1>8, <1>9, <1>10, <1>11, <1>12,
       <1>13, <1>14, <1>15, <1>16, <1>17, <1>18, <1>19, <1>20, <1>21
       DEF ChannelsNext, Interrupts, Calling

LEMMA InitInv == ChannelsInit => IInv
  <1> SUFFICES ASSUME ChannelsInit PROVE IInv
    OBVIOUS
  <1> USE DEF ChannelsInit
  <1>1. ChannelsTypeOK
    BY ConstantFacts, ConfigFacts DEF ChannelsTypeOK, NoHandlers, NoCall, Calls, Ops
  <1>2. \A c \in GpioteChannels : ~OfInterrupt(c) /\ \A s \in Slots : ~OfSlot(c, s)
    BY ConstantFacts DEF NoHandlers, NoCall, OfInterrupt, OfSlot
  <1>3. CallInv /\ HoldInv
    BY <1>2, ConstantFacts
       DEF NoCall, CallInv, HoldInv, FreeInv, HeldInv, InterruptInv, SlotsInv, ToneInv
  <1>4. PpiInv
    BY <1>2, ConstantFacts DEF PpiInv
  <1>5. SafeUntilReleased
    BY DEF SafeUntilReleased
  <1>6. UnreleasedInv
    BY ConstantFacts DEF UnreleasedInv, CallFindsLowest, NoCall, None
  <1>7. QED
    BY <1>1, <1>3, <1>4, <1>5, <1>6 DEF IInv, RInv, HoldInv

LEMMA NextInv == IInv /\ [ChannelsNext]_vars => IInv'
  <1> SUFFICES ASSUME IInv, [ChannelsNext]_vars PROVE IInv'
    OBVIOUS
  <1>1. CASE ChannelsNext
    <2>1. ChannelsTypeOK /\ RInv /\ Running /\ (~released' => ~released)
      BY <1>1, StepsWhileRunning DEF IInv
    <2>2. ChannelsTypeOK'
      BY <1>1, <2>1, TypesKept
    <2>3. Running' => RInv'
      BY <1>1, <2>1, OwnersKept
    <2>4. ASSUME ~released' PROVE Safe' /\ (Running' => CallFindsLowest')
      <3>1. Safe /\ CallFindsLowest
        BY <2>1, <2>4, SafeIsSafe DEF IInv, UnreleasedInv
      <3>2. QED
        BY <1>1, <2>1, <2>4, <3>1, SafeKept
    <2>5. SafeUntilReleased' /\ UnreleasedInv'
      BY <2>4 DEF SafeUntilReleased, Safe, NoRace, LowestUsed, EventsHaveHandlers, UnreleasedInv
    <2>6. QED
      BY <2>2, <2>3, <2>5 DEF IInv
  <1>2. CASE UNCHANGED vars
    <2>1. ChannelsTypeOK' /\ (Running' => RInv')
      BY <1>2
         DEF IInv, vars, chanVars, extVars, pwmVars, ppiVars, toneVars, ChannelsTypeOK, Running,
             RInv, CallInv, FreeInv, HeldInv, InterruptInv, SlotsInv, ToneInv, PpiInv,
             HasNone, HasTwo, OfInterrupt, Forgotten, OfSlot
    <2>2. SafeUntilReleased' /\ UnreleasedInv'
      BY <1>2
         DEF IInv, vars, chanVars, extVars, pwmVars, ppiVars, toneVars, Running,
             SafeUntilReleased, UnreleasedInv, CallFindsLowest
    <2>3. QED
      BY <2>1, <2>2 DEF IInv
  <1>3. QED
    BY <1>1, <1>2

LEMMA AlwaysIInv == ChannelsSpec => []IInv
  BY InitInv, NextInv, PTL DEF ChannelsSpec

(* Two PPI channels are the ones that a slot drives its pin through.       *)
LEMMA TwoDriving ==
    ASSUME NEW c, HasTwo(c)
    PROVE  Cardinality({k \in PpiChannels : ppi[k] = c}) = 2
  <1> DEFINE a == ppiOf[c][1]
             b == ppiOf[c][2]
  <1>1. a # b /\ {k \in PpiChannels : ppi[k] = c} = {a} \union {b}
    BY DEF HasTwo
  <1> HIDE DEF a, b
  <1>2. IsFiniteSet({a}) /\ Cardinality({a}) = 1
    BY FS_Singleton
  <1>3. Cardinality({a} \union {b}) = 1 + 1
    BY <1>1, <1>2, FS_AddElement
  <1>4. QED
    BY <1>1, <1>3

LEMMA OwnersInv == ChannelsTypeOK /\ (Running => RInv) => OneOwner
  <1> SUFFICES ASSUME ChannelsTypeOK, Running, RInv PROVE OneOwner
    BY DEF OneOwner, ChannelOwners, PpiFollowsSlots
  <1> USE DEF RInv
  <1>1. ChannelOwners
    <2> SUFFICES ASSUME NEW c \in GpioteChannels
                 PROVE
        /\ occupied[c] <=> OfInterrupt(c) \/ (\E s \in Slots : OfSlot(c, s)) \/ OfTone(c) \/ c \in leaked
        /\ ~occupied[c] => config[c] = Off
        /\ OfInterrupt(c) =>
              config[c] = Event(extIT[c]) /\ toneChannel # c /\ c \notin leaked
        /\ \A s \in Slots : OfSlot(c, s) =>
              /\ config[c].mode = "task" /\ toneChannel # c /\ ~OfInterrupt(c)
              /\ slotPin[s] # None => config[c] = Task(slotPin[s])
              /\ \A r \in Slots : OfSlot(c, r) => r = s
        /\ OfTone(c) => config[c].mode = "task"
      BY DEF ChannelOwners
    <2>1. occupied[c] <=> OfInterrupt(c) \/ (\E s \in Slots : OfSlot(c, s)) \/ OfTone(c) \/ c \in leaked
      BY DEF FreeInv, HeldInv, OfTone
    <2>2. ~occupied[c] => config[c] = Off
      BY DEF FreeInv
    <2>3. OfInterrupt(c) => config[c] = Event(extIT[c]) /\ toneChannel # c /\ c \notin leaked
      BY DEF InterruptInv
    <2>4. ASSUME NEW s \in Slots, OfSlot(c, s)
          PROVE  /\ config[c].mode = "task" /\ toneChannel # c /\ ~OfInterrupt(c)
                 /\ slotPin[s] # None => config[c] = Task(slotPin[s])
                 /\ \A r \in Slots : OfSlot(c, r) => r = s
      <3>1. config[c].mode = "task" /\ toneChannel # c /\ ~OfInterrupt(c)
        BY <2>4 DEF SlotsInv, InterruptInv
      <3>2. \A r \in Slots : OfSlot(c, r) => r = s
        BY <2>4 DEF SlotsInv
      <3>3. ASSUME slotPin[s] # None PROVE config[c] = Task(slotPin[s])
        <4>1. slotChannel[s] = c
          BY <2>4, <3>3 DEF OfSlot, CallInv
        <4>2. QED
          BY <3>3, <4>1 DEF SlotsInv
      <3>4. QED
        BY <3>1, <3>2, <3>3
    <2>5. OfTone(c) => config[c].mode = "task"
      BY ConstantFacts DEF OfTone, ToneInv
    <2>6. QED
      BY <2>1, <2>2, <2>3, <2>4, <2>5
  <1>2. PpiFollowsSlots
    <2>1. ASSUME NEW s \in Slots, slotPin[s] # None
          PROVE  /\ timer1
                 /\ LET driving == {k \in PpiChannels : ppi[k] = slotChannel[s]}
                    IN  Cardinality(driving) = 2 \/ (driving = {} /\ appPpi # None)
      <3>1. slotChannel[s] \in GpioteChannels /\ OfSlot(slotChannel[s], s) /\ timer1
        BY <2>1 DEF SlotsInv, PpiInv, OfSlot
      <3>2. HasNone(slotChannel[s]) \/ HasTwo(slotChannel[s])
        BY <3>1 DEF PpiInv
      <3>3. CASE HasNone(slotChannel[s])
        BY <3>1, <3>3 DEF HasNone
      <3>4. CASE HasTwo(slotChannel[s])
        BY <3>1, <3>4, TwoDriving
      <3>5. QED
        BY <3>2, <3>3, <3>4
    <2>2. QED
      BY <2>1 DEF PpiFollowsSlots, PpiInv
  <1>3. QED
    BY <1>1, <1>2 DEF OneOwner

(* Every table holds what its type says, whatever the interrupts do: no    *)
(* step of a call or of a handler uses a channel, a slot or a pin that is  *)
(* none, until a race of a tone has ended the model.                       *)
THEOREM TypeCorrect == ChannelsSpec => []ChannelsTypeOK
  <1>1. IInv => ChannelsTypeOK
    BY DEF IInv
  <1>2. QED
    BY <1>1, AlwaysIInv, PTL

(* Whatever the interrupts do between a look at the tables of              *)
(* inter_periph_com.c and its use, each GPIOTE channel that is taken has   *)
(* one owner, and each slot of analogWrite its own two PPI channels, until *)
(* a race has hit: for any number of channels, slots and pins.             *)
THEOREM OneOwnerUntilRace == ChannelsSpec => []OneOwner
  <1>1. IInv => OneOwner
    BY OwnersInv DEF IInv
  <1>2. QED
    BY <1>1, AlwaysIInv, PTL

(* An application that never gives a channel back meets none of the races, *)
(* whatever edges come while attachInterrupt, tone or analogWrite is       *)
(* between its look at the tables and its use of them.                     *)
THEOREM NoRaceUntilReleased == ChannelsSpec => []SafeUntilReleased
  <1>1. IInv => SafeUntilReleased
    BY DEF IInv
  <1>2. QED
    BY <1>1, AlwaysIInv, PTL
=============================================================================
