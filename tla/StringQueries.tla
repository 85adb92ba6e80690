---------------------------- MODULE StringQueries ----------------------------
(***************************************************************************)
(* What can be asked of a String (src/arduino/core/WString.cpp): how it    *)
(* compares with another, and what it contains where.  A query looks at    *)
(* the lengths and at the buffers with their terminators; the positions    *)
(* that it is given and the differences that it takes are unsigned.        *)
(***************************************************************************)
EXTENDS Strings

CONSTANTS UintRange   \* values of an unsigned int (2^32)

\* no literal is as long as that, and no size or position as great
ASSUME QueriesAssumption ==
    /\ UintRange \in Nat /\ MaxLength < UintRange
    /\ \A text \in Literals : Len(text) < UintRange
    /\ \A n \in Positions : n < UintRange

NotFound == -1

\* strcmp: the difference of the first two characters that differ
StrCmp(a, b) ==
    LET s == Append(a, Nul)
        t == Append(b, Nul)
        differ == {i \in 1 .. Len(s) : i <= Len(t) /\ s[i] # t[i]}
    IN  IF differ = {} THEN 0 ELSE s[Least(differ)] - t[Least(differ)]

\* strncmp
StrNCmp(a, b, n) == StrCmp(SubSeq(a, 1, IF n < Len(a) THEN n ELSE Len(a)),
                           SubSeq(b, 1, IF n < Len(b) THEN n ELSE Len(b)))

\* the C string at buffer + i, for i up to the terminator
From(s, i) == SubSeq(TextOf(s), i + 1, Len(TextOf(s)))

-----------------------------------------------------------------------------
(* Comparisons.                                                            *)

\* an invalid string is like an empty one
CompareTo(s, t) ==
    IF Valid(s) /\ Valid(t) THEN StrCmp(TextOf(s), TextOf(t))
    ELSE IF Valid(t) /\ t.len > 0 THEN -t.chars[1]
    ELSE IF Valid(s) /\ s.len > 0 THEN s.chars[1]
    ELSE 0

Equals(s, t) == s.len = t.len /\ CompareTo(s, t) = 0

\* equals of a char array, which is a null pointer when it is Invalid
EqualsText(s, t) ==
    IF s.len = 0 THEN ~Valid(t) \/ TextOf(t) = <<>>
    ELSE IF ~Valid(t) THEN s.chars[1] = Nul
    ELSE StrCmp(TextOf(s), TextOf(t)) = 0

EqualsIgnoreCase(s, t) ==
    /\ s.len = t.len
    /\ \A i \in 1 .. s.len : Lower(s.chars[i]) = Lower(t.chars[i])

StartsWithAt(s, t, offset) ==
    /\ offset <= (s.len - t.len) % UintRange /\ Valid(s) /\ Valid(t)
    /\ StrNCmp(From(s, offset), TextOf(t), t.len) = 0

StartsWith(s, t) == s.len >= t.len /\ StartsWithAt(s, t, 0)

EndsWith(s, t) ==
    /\ s.len >= t.len /\ Valid(s) /\ Valid(t)
    /\ StrCmp(From(s, s.len - t.len), TextOf(t)) = 0

-----------------------------------------------------------------------------
(* Characters and places.                                                  *)

CharAt(s, i) == IF i >= s.len \/ ~Valid(s) THEN Nul ELSE s.chars[i + 1]

\* what getBytes writes into a buffer of some size
GetBytes(s, size, index) ==
    IF size = 0 THEN <<>>
    ELSE IF index >= s.len THEN <<Nul>>
    ELSE LET n == IF size - 1 > s.len - index THEN s.len - index ELSE size - 1
         IN  Append(SubSeq(s.chars, index + 1, index + n), Nul)

IndexOfChar(s, c, from) ==
    LET found == {i \in from .. s.len - 1 : s.chars[i + 1] = c}
    IN  IF from >= s.len \/ found = {} THEN NotFound ELSE Least(found)

IndexOf(s, t, from) ==
    LET found == {i \in Occurrences(TextOf(s), TextOf(t)) : i >= from}
    IN  IF from >= s.len \/ found = {} THEN NotFound ELSE Least(found)

\* the string ends for a moment behind the place where the search begins
LastIndexOfChar(s, c, from) ==
    LET text  == SubSeq(s.chars, 1, from + 1)
        found == {i \in 0 .. Len(text) - 1 : text[i + 1] = c}
    IN  IF from >= s.len \/ found = {} THEN NotFound ELSE Largest(found)

\* strstr from one place after another
LastRound(s, text, f, from) ==
    LET found == FoundFrom(text, f, s.p)
        at    == Least(found)
    IN  IF s.p > from \/ found = {} THEN s
        ELSE [p |-> at + 1, last |-> IF at <= from THEN at ELSE s.last]

LastFrom(text, f, from) ==
    LET after[n \in Nat] == IF n = 0 THEN [p |-> 0, last |-> NotFound]
                            ELSE LastRound(after[n - 1], text, f, from)
    IN  after[Len(text)].last

LastIndexOf(s, t, from) ==
    IF t.len = 0 \/ s.len = 0 \/ t.len > s.len THEN NotFound
    ELSE LastFrom(TextOf(s), TextOf(t), IF from >= s.len THEN s.len - 1 ELSE from)

-----------------------------------------------------------------------------
(* Properties.                                                             *)

PlainText(s) == IF Valid(s) THEN TextOf(s) ELSE <<>>
LowerText(s) == [i \in 1 .. Len(PlainText(s)) |-> Lower(PlainText(s)[i])]

\* the places where one text occurs in another, and the extreme ones of a set
Places(s, t) == {i \in 0 .. Len(PlainText(s)) : Values!OccursAt(PlainText(s), PlainText(t), i)}
FirstOf(set) == IF set = {} THEN NotFound ELSE Least(set)
LastOf(set)  == IF set = {} THEN NotFound ELSE Largest(set)

Before(a, b) ==
    \E n \in 0 .. Len(a) :
        /\ n <= Len(b) /\ SubSeq(a, 1, n) = SubSeq(b, 1, n)
        /\ n < Len(b) /\ (n = Len(a) \/ a[n + 1] < b[n + 1])

\* how two objects compare whose texts are a and b
Comparisons(s, t, a, b) ==
    /\ CompareTo(s, t) < 0 <=> Before(a, b)
    /\ CompareTo(s, t) > 0 <=> Before(b, a)
    /\ Equals(s, t) <=> a = b
    /\ EqualsText(s, t) <=> a = b
    /\ EqualsIgnoreCase(s, t) <=> LowerText(s) = LowerText(t)
    /\ StartsWith(s, t) <=> Valid(s) /\ Valid(t) /\ 0 \in Places(s, t)
    /\ EndsWith(s, t) <=> Valid(s) /\ Valid(t) /\ Len(a) - Len(b) \in Places(s, t)

\* what getBytes gives: the text from a place on, as far as there is room
GivesBytes(s, a, size, from) ==
    /\ Len(GetBytes(s, size, from)) <= size
    /\ CString(GetBytes(s, size, from)) =
          SubSeq(a, from + 1, IF from + size - 1 < Len(a) THEN from + size - 1 ELSE Len(a))

\* what is found from a place on, or up to it
Found(s, t, a, b, from) ==
    /\ IndexOf(s, t, from) = FirstOf({i \in Places(s, t) : i >= from})
    /\ b # <<>> => LastIndexOf(s, t, from) = LastOf({i \in Places(s, t) : i <= from})
    /\ IndexOfChar(s, 97, from) = FirstOf({i \in from .. Len(a) - 1 : a[i + 1] = 97})
    /\ LastIndexOfChar(s, 97, from) = LastOf({i \in 0 .. from : a[i + 1] = 97})

\* what there is at a place, and behind it
Answers(s, t, a, b, from) ==
    /\ CharAt(s, from) # Nul <=> from < Len(a)
    /\ Valid(s) /\ from <= Len(a) =>
          (StartsWithAt(s, t, from) <=> Valid(t) /\ from \in Places(s, t))
    /\ \A size \in 1 .. MaxLength : GivesBytes(s, a, size, from)
    /\ Valid(s) /\ Valid(t) /\ from < Len(a) => Found(s, t, a, b, from)

(* Comparisons order the texts as dictionaries do, invalid strings among   *)
(* the empty ones, and agree with each other; a search finds the first or  *)
(* the last place that there is, except that an empty text is found at no  *)
(* place behind the last character.  A prefix longer than the string is    *)
(* asked for in vain at every position of it, although the unsigned        *)
(* difference of the lengths admits any offset.                            *)
QueriesExact ==
    \A s, t \in {this, that} :
        LET a == PlainText(s)
            b == PlainText(t)
        IN  Comparisons(s, t, a, b) /\ \A from \in 0 .. Len(a) + 1 : Answers(s, t, a, b, from)

(* Both: what the operations leave behind is what the queries answer for.  *)
StringsExact == StringsSound /\ QueriesExact
=============================================================================
