------------------------------- MODULE Strings -------------------------------
(***************************************************************************)
(* The class String (src/arduino/core/WString.cpp): a length, and a buffer *)
(* from the heap that ends with a NUL behind the characters.  An           *)
(* allocation may fail at any time.  What lies behind the NUL is Junk: it  *)
(* is not looked at.                                                       *)
(***************************************************************************)
EXTENDS Integers, Sequences, FiniteSets

CONSTANTS Literals,   \* char arrays that the program passes, as codes
          Positions,  \* sizes and positions that it passes
          MaxLength   \* bound: no operation is called for a longer result

ASSUME StringsAssumption ==
    \* with "", the argument that the constructor has by default
    /\ Literals \subseteq Seq(1 .. 255) /\ <<>> \in Literals
    /\ Positions \subseteq Nat /\ MaxLength \in Nat

Nul  == 0
Junk == -1

VARIABLES this, that,   \* two String objects
          overrun       \* an operation has written behind its buffer

stringVars == <<this, that, overrun>>

\* the buffer is chars, of capacity + 1 places
Invalid == [len |-> 0, chars |-> <<>>]
Valid(s) == s.chars # <<>>
Capacity(s) == Len(s.chars) - 1

JunkFrom(n, m) == [i \in 1 .. m - n |-> Junk]

\* a buffer with what lies behind its first NUL forgotten
Settled(chars) ==
    [i \in 1 .. Len(chars) |->
        IF \E j \in 1 .. i - 1 : chars[j] = Nul THEN Junk ELSE chars[i]]

\* memcpy, strcpy: bytes over the buffer from place at + 1
Poke(chars, at, bytes) ==
    [i \in 1 .. Len(chars) |->
        IF i - at \in 1 .. Len(bytes) THEN bytes[i - at] ELSE chars[i]]

\* the C string in the buffer, and strstr in it from a place on
CString(chars) ==
    SubSeq(chars, 1, (CHOOSE n \in 1 .. Len(chars) :
                        chars[n] = Nul /\ \A m \in 1 .. n - 1 : chars[m] # Nul) - 1)
Occurrences(s, f) == {i \in 0 .. Len(s) - Len(f) : SubSeq(s, i + 1, i + Len(f)) = f}
Least(set) == CHOOSE i \in set : \A j \in set : i <= j
Largest(set) == CHOOSE i \in set : \A j \in set : i >= j

StringsInit == /\ this = [len |-> 0, chars |-> <<Nul>>]
               /\ that = Invalid
               /\ overrun = FALSE

-----------------------------------------------------------------------------
(* Memory.                                                                 *)

\* changeBuffer
ChangeBuffer(s, size) == [s EXCEPT !.chars = @ \o JunkFrom(Len(@), size + 1)]

\* reserve, given that an allocation succeeds
Reserve(s, size) ==
    IF Valid(s) /\ Capacity(s) >= size THEN s
    ELSE LET grown == ChangeBuffer(s, size)
         IN  IF s.len = 0 THEN [grown EXCEPT !.chars[1] = Nul] ELSE grown

NeedsMemory(s, size) == ~Valid(s) \/ Capacity(s) < size

\* copy and concat of a C string, given the memory
Copy(s, text) ==
    LET r == Reserve(s, Len(text))
    IN  [len |-> Len(text), chars |-> Settled(Poke(r.chars, 0, Append(text, Nul)))]

\* the length of before is kept
ConcatText_OldLength(s, text) ==
    LET r == Reserve(s, s.len + Len(text))
    IN  [len |-> s.len, chars |-> Settled(Poke(r.chars, s.len, Append(text, Nul)))]

ConcatText(s, text) ==
    IF text = <<>> THEN s
    ELSE LET r == Reserve(s, s.len + Len(text))
         IN  [len |-> s.len + Len(text), chars |-> Settled(Poke(r.chars, s.len, Append(text, Nul)))]

TextOf(s) == CString(s.chars)

ReserveMore(size) ==
    /\ this' \in {Reserve(this, size)} \union (IF NeedsMemory(this, size) THEN {this} ELSE {})
    /\ UNCHANGED <<that, overrun>>

AssignTo(text) ==
    /\ this' \in {Copy(this, text)} \union
                 (IF NeedsMemory(this, Len(text)) THEN {Invalid} ELSE {})
    /\ UNCHANGED <<that, overrun>>

(* operator=, of a char array, a null pointer and of another String.       *)
AssignLiteral == \E text \in Literals : AssignTo(text)
AssignNull    == this' = Invalid /\ UNCHANGED <<that, overrun>>
AssignString  == IF Valid(that) THEN AssignTo(TextOf(that)) ELSE AssignNull

\* concat of a C string: 0 for want of memory
Concat(text) ==
    /\ this.len + Len(text) <= MaxLength
    /\ this' \in {ConcatText(this, text)} \union
                 (IF text # <<>> /\ NeedsMemory(this, this.len + Len(text)) THEN {this} ELSE {})
    /\ UNCHANGED <<that, overrun>>

ConcatLiteral == \E text \in Literals : Concat(text)
ConcatString  == Valid(that) /\ Concat(TextOf(that))

(* operator+ invalidates its temporary when concat fails.                  *)
SumHelper ==
    /\ Valid(that) /\ this.len + that.len <= MaxLength
    /\ \/ that.len > 0 /\ NeedsMemory(this, this.len + that.len) /\ this' = Invalid
       \/ that.len = 0 /\ Valid(this) /\ UNCHANGED this
       \/ that.len > 0 /\ this' = ConcatText(this, TextOf(that))
    /\ UNCHANGED <<that, overrun>>

(* The constructors: the other object is made from this one's part.        *)
Substring(left, right) ==
    LET first == IF left > right THEN right ELSE left
        last  == IF left > right THEN left ELSE right
        ended == Poke(this.chars, IF last > this.len THEN this.len ELSE last, <<Nul>>)
        part  == IF first > this.len THEN <<>>
                 ELSE SubSeq(CString(ended), first + 1, Len(CString(ended)))
    IN  /\ Valid(this)
        /\ that' \in {Copy(Invalid, part), Invalid}
        /\ UNCHANGED <<this, overrun>>

-----------------------------------------------------------------------------
(* Changes in place.                                                       *)

InPlace(len, chars) ==
    /\ this' = [len |-> len, chars |-> Settled(chars)]
    /\ UNCHANGED <<that, overrun>>

Lower(c) == IF c \in 65 .. 90 THEN c + 32 ELSE c
Upper(c) == IF c \in 97 .. 122 THEN c - 32 ELSE c
IsSpace(c) == c = 32

\* toLowerCase, toUpperCase and replace of a character
SetChars(chars) ==
    /\ Valid(this)
    /\ InPlace(this.len, chars \o SubSeq(this.chars, this.len + 1, Len(this.chars)))

ToLowerCase == SetChars([i \in 1 .. this.len |-> Lower(this.chars[i])])
ToUpperCase == SetChars([i \in 1 .. this.len |-> Upper(this.chars[i])])
ReplaceChar(find, replace) ==
    SetChars([i \in 1 .. this.len |-> IF this.chars[i] = find THEN replace ELSE this.chars[i]])

\* setCharAt; no program puts a NUL into a string
SetCharAt(loc, c) ==
    /\ loc < this.len
    /\ InPlace(this.len, [this.chars EXCEPT ![loc + 1] = c])

\* it does not look for the end of the string when all of it is blank
Trim_NoEmpty ==
    /\ Valid(this) /\ this.len > 0
    /\ LET begin == Least({i \in 1 .. this.len : ~IsSpace(this.chars[i])} \union {this.len})
           end   == Largest({i \in 1 .. this.len : ~IsSpace(this.chars[i])} \union {begin})
           len   == end - begin + 1
       IN  InPlace(len, Poke(this.chars, 0, Append(SubSeq(this.chars, begin, end), Nul)))

Trim ==
    /\ Valid(this) /\ this.len > 0
    /\ LET begin == Least({i \in 1 .. this.len + 1 : ~IsSpace(this.chars[i])})
           end   == Largest({i \in begin .. this.len : ~IsSpace(this.chars[i])} \union {begin - 1})
           len   == end - begin + 1
       IN  InPlace(len, Poke(this.chars, 0, Append(SubSeq(this.chars, begin, end), Nul)))

\* strstr, from a place on
FoundFrom(text, f, from) == {i \in Occurrences(text, f) : i >= from}

\* replace, the replacement as long as what it replaces: over each match;
\* a round of the loop is one match, or nothing when there is none
SameRound(s, f, r) ==
    LET found == FoundFrom(CString(s.chars), f, s.read)
    IN  IF found = {} THEN s
        ELSE [chars |-> Poke(s.chars, Least(found), r), read |-> Least(found) + Len(r)]

ReplaceSame(chars, f, r) ==
    LET after[n \in Nat] == IF n = 0 THEN [chars |-> chars, read |-> 0]
                            ELSE SameRound(after[n - 1], f, r)
    IN  after[Len(chars)].chars

\* shorter: what has been read moves to the left
ShorterRound(s, f, r) ==
    LET text  == CString(s.chars)
        found == FoundFrom(text, f, s.read)
        piece == SubSeq(text, s.read + 1, Least(found)) \o r
    IN  IF found = {} THEN s
        ELSE [chars |-> Poke(s.chars, s.write, piece), read |-> Least(found) + Len(f),
              write |-> s.write + Len(piece)]

ReplaceShorter(chars, f, r) ==
    LET after[n \in Nat] == IF n = 0 THEN [chars |-> chars, read |-> 0, write |-> 0]
                            ELSE ShorterRound(after[n - 1], f, r)
        last == after[Len(chars)]
        text == CString(last.chars)
    IN  Poke(last.chars, last.write, Append(SubSeq(text, last.read + 1, Len(text)), Nul))

\* the matches that strstr counts from the left, one behind the other
CountRound(s, text, f) ==
    LET found == FoundFrom(text, f, s.read)
    IN  IF found = {} THEN s ELSE [read |-> Least(found) + Len(f), count |-> s.count + 1]

CountMatches(text, f) ==
    LET after[n \in Nat] == IF n = 0 THEN [read |-> 0, count |-> 0]
                            ELSE CountRound(after[n - 1], text, f)
    IN  after[Len(text)].count

\* longer: from the right, what is behind each match moves to the right;
\* a buffer that becomes too small for the text is returned with it
LongerRound(s, f, r) ==
    LET found == {i \in Occurrences(s.text, f) : i <= s.from}
        at    == Largest(found)
    IN  IF found = {} THEN s
        ELSE [text |-> SubSeq(s.text, 1, at) \o r \o SubSeq(s.text, at + Len(f) + 1, Len(s.text)),
              from |-> at - 1]

ReplaceLonger(text, f, r) ==
    LET after[n \in Nat] == IF n = 0 THEN [text |-> text, from |-> Len(text) - 1]
                            ELSE LongerRound(after[n - 1], f, r)
    IN  after[Len(text)].text

Replace(r) ==
    LET f    == TextOf(that)
        diff == Len(r) - Len(f)
        text == TextOf(this)
        size == this.len + diff * CountMatches(text, f)
        long == ReplaceLonger(text, f, r)
        room == IF size > Capacity(this) THEN ChangeBuffer(this, size) ELSE this
    IN  /\ Valid(this) /\ Valid(that) /\ this.len > 0 /\ that.len > 0
        /\ size <= MaxLength
        /\ \/ diff = 0 /\ InPlace(this.len, ReplaceSame(this.chars, f, r))
           \/ diff < 0 /\ InPlace(size, ReplaceShorter(this.chars, f, r))
           \/ diff > 0 /\ size > Capacity(this) /\ UNCHANGED stringVars
           \/ diff > 0 /\ Len(long) <= Capacity(room)
              /\ InPlace(Len(long), Poke(room.chars, 0, Append(long, Nul)))
           \/ diff > 0 /\ Len(long) > Capacity(room)
              /\ overrun' = TRUE /\ UNCHANGED <<this, that>>

-----------------------------------------------------------------------------
StringsNext ==
    /\ ~overrun
    /\ \/ \E size \in Positions : ReserveMore(size)
       \/ AssignLiteral \/ AssignNull \/ AssignString
       \/ ConcatLiteral \/ ConcatString \/ SumHelper
       \/ \E left, right \in Positions : Substring(left, right)
       \/ ToLowerCase \/ ToUpperCase \/ ReplaceChar(97, 32) \/ Trim
       \/ \E loc \in Positions : SetCharAt(loc, 97)
       \/ \E r \in Literals : Replace(r)

StringsSpec == StringsInit /\ [][StringsNext]_stringVars

-----------------------------------------------------------------------------
(* Properties.                                                             *)

NoText == <<Junk>>
ValueOf(s) == IF Valid(s) THEN TextOf(s) ELSE NoText

Values == INSTANCE StringValue WITH Invalid <- NoText, this <- ValueOf(this), that <- ValueOf(that)

(* Whatever allocation fails, each operation leaves what WString.h says:   *)
(* the new value, the old one, or an invalid string; the changes that trim *)
(* and replace make in place give the value that they give in one piece.   *)
StringsRefine == Values!Spec

(* The length, the capacity and the terminator of both strings agree after *)
(* every operation, and none has written behind its buffer; but replace    *)
(* computes the size of its result by counting from the left, and then     *)
(* replaces from the right: it may overrun the buffer when what it looks   *)
(* for overlaps itself or the replacement.                                 *)
StringsSound ==
    /\ \A s \in {this, that} :
          /\ Valid(s) => s.len = Len(TextOf(s)) /\ s.len <= Capacity(s)
          /\ ~Valid(s) => s.len = 0
    /\ overrun => Valid(that) /\ \E r \in Literals : Len(r) > that.len /\
          (Values!Overlaps(TextOf(that), r) \/ Values!Overlaps(TextOf(that), TextOf(that)))
=============================================================================
