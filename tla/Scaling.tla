--------------------------------- MODULE Scaling ---------------------------------
(***************************************************************************)
(* src/arduino/core/WMath.cpp, over signed numbers of a width at which they*)
(* wrap around: what map and random give when a difference or a product    *)
(* does not fit in a long.  Besides these, analogWrite (Analog) scales     *)
(* numbers.                                                                *)
(***************************************************************************)
EXTENDS Integers, Analog

CONSTANTS LongMax,     \* the greatest long (2^31 - 1)
          ScaleValues  \* the arguments that are looked at

ASSUME ScalingAssumption ==
    LongMax \in Nat \ {0} /\ ScaleValues \subseteq -(LongMax + 1) .. LongMax

Wrap(n) == ((n + LongMax + 1) % (2 * LongMax + 2)) - (LongMax + 1)
Abs(n)  == IF n < 0 THEN -n ELSE n

\* "/" and "%" of C round towards 0
Quotient(n, d)  == IF (n < 0) = (d < 0) THEN Abs(n) \div Abs(d) ELSE -(Abs(n) \div Abs(d))
Remainder(n, d) == n - d * Quotient(n, d)

\* map
MapTo(v, inMin, inMax, outMin, outMax) ==
    Wrap(Quotient(Wrap(Wrap(v - inMin) * Wrap(outMax - outMin)), Wrap(inMax - inMin)) + outMin)

\* the two forms of random, given what rand() returns
RandomBelow(r, howbig) == IF howbig = 0 THEN 0 ELSE Remainder(r, howbig)

RandomFrom(r, howsmall, howbig) ==
    IF howsmall >= howbig THEN howsmall
    ELSE Wrap(RandomBelow(r, Wrap(howbig - howsmall)) + howsmall)

-----------------------------------------------------------------------------
(* Properties.                                                             *)

(* random(howsmall, howbig) is at least the one and less than the other,   *)
(* even when their difference does not fit in a long.                      *)
RandomInRange ==
    \A r \in {s \in ScaleValues : s >= 0}, a, b \in ScaleValues :
        a < b => RandomFrom(r, a, b) \in a .. b - 1

(* map takes the ends of one range to the ends of the other, keeps a value *)
(* of the one within the other and keeps their order, as long as neither a *)
(* difference nor the product of the two ranges leaves a long.             *)
MapMonotone ==
    \A a, b, c, d \in ScaleValues :
        a < b /\ b - a <= LongMax /\ Abs(d - c) <= LongMax /\ (b - a) * Abs(d - c) <= LongMax =>
            /\ MapTo(a, a, b, c, d) = c /\ MapTo(b, a, b, c, d) = d
            /\ \A v, w \in ScaleValues : a <= v /\ v <= w /\ w <= b =>
                  IF c <= d
                  THEN c <= MapTo(v, a, b, c, d) /\ MapTo(v, a, b, c, d) <= MapTo(w, a, b, c, d)
                  ELSE c >= MapTo(v, a, b, c, d) /\ MapTo(v, a, b, c, d) >= MapTo(w, a, b, c, d)

(* Numbers that the library scales keep their range and their order, up to *)
(* the overflows that the two properties name.                             *)
ValuesScale == PulsesGrow /\ RandomInRange /\ MapMonotone
=============================================================================
