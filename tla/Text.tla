---------------------------------- MODULE Text ----------------------------------
(***************************************************************************)
(* Numbers as text: the class Print (src/arduino/core/Print.cpp), the      *)
(* conversions of itoa.c with the buffers that String                      *)
(* (src/arduino/core/WString.cpp) gives them, and the messages of the      *)
(* logger (src/libraries/arduino_libraries/logger/logging.cpp).            *)
(*                                                                         *)
(* A text is a sequence of digits, 0 to 35, and of the codes below.  A     *)
(* double is a number of thousandths, and its arithmetic exact.            *)
(***************************************************************************)
EXTENDS Integers, Sequences, FiniteSets

CONSTANTS LongRange,    \* values of an unsigned long (2^32)
          Numbers,      \* the numbers that are printed
          Bases,        \* the bases that they are printed in
          Thousandths,  \* the doubles that are printed
          FloatLimit,   \* the greatest double that printFloat prints
          Formats       \* the formats of messages: sequences of codes

ASSUME TextAssumption ==
    \* of 32 bits or, to check it, fewer
    /\ LongRange \in Nat /\ 2 ^ 16 < LongRange /\ (LongRange - 1) \div 2 ^ 16 < 2 ^ 16
    \* of the types long and unsigned long
    /\ Numbers \subseteq -(LongRange \div 2) .. LongRange - 1
    \* BYTE, and radices that itoa.c accepts
    /\ Bases \subseteq {0} \union 2 .. 36
    \* 4294967040, and so far below the range that nothing rounds up to it
    /\ Thousandths \subseteq Int /\ FloatLimit \in Nat /\ FloatLimit + 500 < LongRange * 1000
    /\ Formats \subseteq Seq(Int)

MinusSign == -1
PointSign == -2
LineFeed  == -3
ErrorText == -4   \* "ERROR: "
Return    == -5   \* CR
Heading   == -6   \* "ASSERTION FAILED :", and what stands between its parts
Letter    == 100
Percent   == 101
ConvD     == 102  \* what may follow a Percent; Letter is none of them
ConvX     == 103
ConvB     == 104
Ovf       == <<Letter, Letter, Letter>>

VARIABLES printed,  \* what the last call has written
          textCall, \* the call
          logLevel  \* _u8_logLevel

textVars == <<printed, textCall, logLevel>>

\* of every message, which has as many as it needs
Arguments == [k \in Nat |-> IF k = 1 THEN 7 ELSE IF k = 2 THEN -3 ELSE 0]

NoPrint == [call |-> "none", value |-> 0, base |-> 10, places |-> 0, format |-> <<>>]

TextInit == printed = <<>> /\ textCall = NoPrint /\ logLevel = 0

-----------------------------------------------------------------------------
(* Print.                                                                  *)

\* printNumber, and ultoa: the digits from the right, at least one
DigitsOf(n, base) ==
    LET digits[m \in Nat] ==
            IF m < base THEN <<m>> ELSE Append(digits[m \div base], m % base)
    IN  digits[n]

PrintNumber(n, base) == DigitsOf(n, IF base < 2 THEN 10 ELSE base)

\* print(long, base): of base 0 one byte
PrintLong(n, base) ==
    IF base = 0 THEN <<n % 256>>
    ELSE IF base = 10 /\ n < 0 THEN <<MinusSign>> \o PrintNumber((-n) % LongRange, 10)
    ELSE PrintNumber(n % LongRange, base)

PrintUnsigned(n, base) == IF base = 0 THEN <<n % 256>> ELSE PrintNumber(n % LongRange, base)

\* mutant: without the rounding
PrintFloat_Cut(x, digits) ==
    LET number  == (IF x < 0 THEN -x ELSE x) * 2
        sign    == IF x < 0 THEN <<MinusSign>> ELSE <<>>
        rest(i) == ((number % 2000) * 10 ^ (i - 1)) % 2000
    IN  sign \o PrintNumber((number \div 2000) % LongRange, 10) \o <<PointSign>>
             \o [i \in 1 .. digits |-> (rest(i) * 10) \div 2000]

\* printFloat; numerators over 2000, so that half of a last digit is one
PrintFloat(x, digits) ==
    LET rounded == (IF x < 0 THEN -x ELSE x) * 2 + 10 ^ (3 - digits)
        sign    == IF x < 0 THEN <<MinusSign>> ELSE <<>>
        point   == IF digits > 0 THEN <<PointSign>> ELSE <<>>
        rest(i) == ((rounded % 2000) * 10 ^ (i - 1)) % 2000
    IN  IF x > FloatLimit \/ x < -FloatLimit THEN Ovf
        ELSE sign \o PrintNumber((rounded \div 2000) % LongRange, 10) \o point
                  \o [i \in 1 .. digits |-> (rest(i) * 10) \div 2000]

\* the conversion to long cuts the fraction off
Truncated(x, unit) == IF x < 0 THEN -((-x) \div unit) ELSE x \div unit

\* %f of printf: hundredths, without a zero in front
PrintfFloat(x) ==
    LET hundredths == Truncated(x, 10)
        last == IF hundredths < 1 THEN (-hundredths) % 100 ELSE hundredths % 100
    IN  PrintLong(Truncated(x, 1000), 10) \o <<PointSign>> \o PrintLong(last, 10)

\* println, after a print of any kind
Println(text) == text \o <<Return, LineFeed>>

-----------------------------------------------------------------------------
(* itoa.c.                                                                 *)

\* ltoa, with a sign only in base 10, and ultoa
Ltoa(n, type, base) ==
    IF base = 10 /\ n < 0 /\ type \in {"int", "long"}
    THEN <<MinusSign>> \o DigitsOf((-n) % LongRange, 10) ELSE DigitsOf(n % LongRange, base)

\* concat: the places of its buffer, for each type of number
ConcatPlaces(type) ==
    CASE type = "int" -> 7 [] type = "unsigned" -> 6 [] type = "long" -> 12 [] OTHER -> 11

\* the constructors, in any base
StringPlaces(type) ==
    CASE type = "int" -> 18 [] type = "unsigned" -> 17 [] type = "long" -> 34 [] OTHER -> 33

Types == {"int", "unsigned", "long", "unsigned long"}

-----------------------------------------------------------------------------
(* The logger.                                                             *)

\* printArg: the argument of a conversion, if it is one that takes an argument
Conversion(c, arg) ==
    CASE c = ConvD   -> PrintLong(arg, 10)
      [] c = ConvX   -> <<0, Letter>> \o PrintUnsigned(arg, 16)
      [] c = ConvB   -> PrintLong(arg, 2)
      [] c = Percent -> <<Percent>>
      [] OTHER       -> <<>>
Takes(c) == c \in {ConvD, ConvX, ConvB}

\* printf of Print has conversions of its own
PrintfConversion(c, arg) ==
    CASE c = ConvD   -> PrintLong(arg, 10)
      [] c = ConvX   -> PrintUnsigned(arg, 16)
      [] c = ConvB   -> PrintUnsigned(arg, 2)
      [] c = Percent -> <<Percent>>
      [] OTHER       -> <<>>
ConvertAs(call, c, arg) == IF call = "log" THEN Conversion(c, arg) ELSE PrintfConversion(c, arg)

\* one more character of a format, after a percent sign or not
Step(call, s, c, args) ==
    IF s.percent
    THEN [out |-> s.out \o ConvertAs(call, c, args[s.next]), percent |-> FALSE,
          next |-> IF Takes(c) THEN s.next + 1 ELSE s.next]
    ELSE IF c = Percent THEN [s EXCEPT !.percent = TRUE]
    ELSE [s EXCEPT !.out = Append(@, c)]

\* a text with what a format stands for, character by character
Formatted(call, format, args) ==
    LET after[n \in 0 .. Len(format)] ==
            IF n = 0 THEN [out |-> <<>>, percent |-> FALSE, next |-> 1]
            ELSE Step(call, after[n - 1], format[n], args)
    IN  after[Len(format)].out

\* Logging::print, and Print::printf
LogPrint(format, args) == Formatted("log", format, args)
Printf(format, args)   == Formatted("printf", format, args)

\* Init: the level is constrained to those there are
LogInit ==
    /\ textCall = NoPrint
    /\ \E level \in -1 .. 5 : logLevel' = IF level < 0 THEN 0 ELSE IF level > 4 THEN 4 ELSE level
    /\ UNCHANGED <<printed, textCall>>

\* Error, InfoLn, DebugLn, VerboseLn, of severities 1 to 4
Log(severity, format, args) ==
    /\ textCall = NoPrint
    /\ textCall' = [NoPrint EXCEPT !.call = "log", !.value = severity, !.base = logLevel,
                                  !.format = format]
    /\ printed' = IF severity > logLevel THEN <<>>
                  ELSE (IF severity = 1 THEN <<ErrorText>> ELSE <<>>)
                       \o LogPrint(format, args) \o <<LineFeed>>
    /\ UNCHANGED logLevel

\* Assert, whatever the level; then abort
Asserts(expr) ==
    /\ textCall = NoPrint
    /\ textCall' = [NoPrint EXCEPT !.call = "assert", !.format = expr]
    /\ printed' = <<Heading>> \o expr \o <<LineFeed, Heading, Heading, Heading>>
                  \o PrintLong(Arguments[1], 10)
    /\ UNCHANGED logLevel

-----------------------------------------------------------------------------
\* bound: one call in a behaviour
Prints(call, value, base, places, text) ==
    /\ textCall = NoPrint
    /\ textCall' = [NoPrint EXCEPT !.call = call, !.value = value, !.base = base, !.places = places]
    /\ printed' = text
    /\ UNCHANGED logLevel

PrintsNumber ==
    \E n \in Numbers, base \in Bases :
        \/ Prints("long", n, base, 0, PrintLong(n, base))
        \/ Prints("unsigned", n, base, 0, PrintUnsigned(n, base))
        \/ Prints("println", n, base, 0, Println(PrintLong(n, base)))
PrintsDouble ==
    \E x \in Thousandths :
        \/ \E digits \in 0 .. 3 : Prints("float", x, digits, 0, PrintFloat(x, digits))
        \* otherwise the conversion to long is undefined
        \/ -(LongRange \div 2) <= Truncated(x, 10) /\ Truncated(x, 10) < LongRange \div 2
           /\ Prints("printf", x, 2, 0, PrintfFloat(x))
StringOfNumber ==
    \E n \in Numbers, type \in Types :
        \/ Prints("string", n, 10, ConcatPlaces(type), Ltoa(n, type, 10))
        \/ \E base \in Bases \ {0} : Prints("string", n, base, StringPlaces(type), Ltoa(n, type, base))
Printfs == \E format \in Formats :
    /\ textCall = NoPrint
    /\ textCall' = [NoPrint EXCEPT !.call = "format", !.format = format]
    /\ printed' = Printf(format, Arguments)
    /\ UNCHANGED logLevel
Fails == \E expr \in Formats : Asserts(expr)
Logs == \E severity \in 1 .. 4, format \in Formats : Log(severity, format, Arguments)

TextNext == PrintsNumber \/ PrintsDouble \/ StringOfNumber \/ Logs \/ Fails \/ Printfs \/ LogInit

TextSpec == TextInit /\ [][TextNext]_textVars

-----------------------------------------------------------------------------
(* Properties.                                                             *)

\* the number that digits stand for
Reads(digits, base) ==
    LET value[n \in 0 .. Len(digits)] == IF n = 0 THEN 0 ELSE value[n - 1] * base + digits[n]
    IN  value[Len(digits)]
Unsigned(s) == IF s # <<>> /\ s[1] = MinusSign THEN Tail(s) ELSE s
Signed(s, n) == IF s # <<>> /\ s[1] = MinusSign THEN -n ELSE n

\* a text in thousandths
Decimal(s) ==
    LET u  == Unsigned(s)
        points == {i \in 1 .. Len(u) : u[i] = PointSign}
        at     == CHOOSE i \in points : TRUE
        before == IF points = {} THEN u ELSE SubSeq(u, 1, at - 1)
        behind == IF points = {} THEN <<>> ELSE SubSeq(u, at + 1, Len(u))
    IN  Signed(s, Reads(before, 10) * 1000 + Reads(behind, 10) * 10 ^ (3 - Len(behind)))

Distance(a, b) == IF a < b THEN b - a ELSE a - b

\* what a format stands for
Expansion(call, f, args) ==
    \* of the last n characters, with the arguments from the k-th
    LET rest[n \in 0 .. Len(f)] == [k \in Nat |->
            LET c == f[Len(f) - n + 1]
                d == f[Len(f) - n + 2]
            IN  IF n = 0 \/ (n = 1 /\ c = Percent) THEN <<>>
                ELSE IF c # Percent THEN <<c>> \o rest[n - 1][k]
                ELSE ConvertAs(call, d, args[k]) \o rest[n - 2][IF Takes(d) THEN k + 1 ELSE k]]
    IN  rest[Len(f)][1]

\* an int of 16 bits, for which its buffers in String are made
OfSixteenBits ==
    \/ textCall.value \in 0 .. 2 ^ 16 - 1
    \/ textCall.places \in {7, 18} /\ textCall.base = 10 /\ textCall.value \in -(2 ^ 15) .. -1

(* A number that is printed reads back as itself in its base, a double as  *)
(* the nearest one of its digits.  The %f of printf cuts it off, and is    *)
(* right only when its hundredths have two digits or none and its sign is  *)
(* that of a whole part.  The text of a number fits the buffer that String *)
(* has for it when it is a long, or an int of 16 bits.  A message is out,  *)
(* each conversion with the next argument, when the level admits it.       *)
PrintsExactly ==
    LET base == IF textCall.base < 2 THEN 10 ELSE textCall.base
        read == Signed(printed, Reads(Unsigned(printed), base))
    IN  /\ textCall.call \in {"long", "unsigned", "string"} /\ textCall.base # 0 =>
              /\ read = IF printed[1] = MinusSign THEN textCall.value ELSE textCall.value % LongRange
              /\ printed[1] = MinusSign => textCall.base = 10
              /\ Len(Unsigned(printed)) > 1 => Unsigned(printed)[1] # 0
        /\ textCall.call = "long" /\ textCall.base = 10 => read = textCall.value
        /\ textCall.call = "println" /\ textCall.base \notin {0, 1} =>
              /\ \E n \in 1 .. Len(printed) - 2 :
                    LET digits == SubSeq(printed, 1, n)
                        value  == Signed(digits, Reads(Unsigned(digits), base))
                    IN  /\ SubSeq(printed, n + 1, Len(printed)) = <<Return, LineFeed>>
                        /\ value % LongRange = textCall.value % LongRange
        /\ textCall.call = "string" /\ Len(printed) >= textCall.places =>
              textCall.places \in {6, 7, 17, 18} /\ ~OfSixteenBits
        /\ textCall.call = "float" /\ printed # Ovf =>
              2 * Distance(Decimal(printed), textCall.value) <= 10 ^ (3 - textCall.base)
        /\ textCall.call = "printf" /\ Distance(Decimal(printed), textCall.value) > 9 =>
              \/ textCall.value \in -999 .. -1
              \/ (Distance(0, textCall.value) % 1000) \div 10 \in 1 .. 9
        /\ textCall.call = "log" =>
              IF textCall.value > textCall.base THEN printed = <<>>
              ELSE printed = (IF textCall.value = 1 THEN <<ErrorText>> ELSE <<>>)
                             \o Expansion("log", textCall.format, Arguments) \o <<LineFeed>>
        /\ textCall.call = "format" => printed = Expansion("printf", textCall.format, Arguments)
=============================================================================
