------------------------------ MODULE StringValue ------------------------------
(***************************************************************************)
(* What the class String promises (src/arduino/core/WString.h): two        *)
(* strings that are sequences of characters or invalid, and operations     *)
(* whose failure, for want of memory, is only what the header says.        *)
(***************************************************************************)
EXTENDS Integers, Sequences

CONSTANTS Literals,  \* the char arrays that the program assigns and passes
          Invalid    \* a string that "if (s)" finds false

VARIABLES this, that

IsValid(s) == s # Invalid

(* "Creates a copy of the assigned value.  If the value is null or invalid,*)
(* or if the memory allocation fails, the string will be marked as         *)
(* invalid."                                                               *)
Assigned == this' \in {that, Invalid} \union Literals /\ UNCHANGED that

(* "Returns true on success, false on failure (in which case, the string is*)
(* left unchanged)."  A string that was invalid becomes the argument.      *)
Appended ==
    /\ \E s \in Literals \union ({that} \ {Invalid}) :
          this' \in {this, IF IsValid(this) THEN this \o s ELSE s}
    /\ UNCHANGED that

\* lhs + rhs, on the temporary: invalid when it fails
Summed ==
    /\ IsValid(that)
    /\ this' \in {Invalid, IF IsValid(this) THEN this \o that ELSE that}
    /\ UNCHANGED that

Part(s, left, right) == SubSeq(s, left + 1, IF right > Len(s) THEN Len(s) ELSE right)

Cut == /\ IsValid(this)
       /\ \E left, right \in 0 .. Len(this) + 1 :
             that' \in {Invalid, <<>>, Part(this, left, right)}
       /\ UNCHANGED this

Blank(c) == c = 32

Trimmed ==
    /\ IsValid(this)
    /\ \E i, j \in 0 .. Len(this) :
          /\ \A k \in 1 .. i : Blank(this[k])
          /\ \A k \in j + 1 .. Len(this) : Blank(this[k])
          /\ i < j => ~Blank(this[i + 1]) /\ ~Blank(this[j])
          /\ i >= j => \A k \in 1 .. Len(this) : Blank(this[k])
          /\ this' = SubSeq(this, i + 1, j)
    /\ UNCHANGED that

Mapped == /\ IsValid(this) /\ IsValid(this') /\ Len(this') = Len(this)
          /\ \A i, j \in 1 .. Len(this) : this[i] = this[j] => this'[i] = this'[j]
          /\ UNCHANGED that

\* setCharAt
Placed == /\ IsValid(this)
          /\ IsValid(this') /\ Len(this') = Len(this)
          /\ \E i \in 1 .. Len(this) : \A j \in 1 .. Len(this) \ {i} : this'[j] = this[j]
          /\ UNCHANGED that

OccursAt(s, f, i) == i + Len(f) <= Len(s) /\ SubSeq(s, i + 1, i + Len(f)) = f

\* each occurrence of f from the left, and what lies between them
ReplaceAll(s, f, r) ==
    \* of the last n characters
    LET rest[n \in 0 .. Len(s)] ==
            IF n = 0 THEN <<>>
            ELSE IF OccursAt(s, f, Len(s) - n) THEN r \o rest[n - Len(f)]
            ELSE <<s[Len(s) - n + 1]>> \o rest[n - 1]
    IN  rest[Len(s)]

\* an end of f is a beginning of s, so that a match may overlap s
Overlaps(f, s) ==
    \E k \in 1 .. Len(f) - 1 :
        k <= Len(s) /\ SubSeq(f, Len(f) - k + 1, Len(f)) = SubSeq(s, 1, k)

(* All occurrences are replaced, or none for want of memory.  Nothing is   *)
(* promised of a longer replacement that a match may overlap, or of        *)
(* occurrences that overlap each other.                                    *)
Replaced ==
    /\ IsValid(this) /\ IsValid(that) /\ that # <<>>
    /\ \E r \in Literals :
          \/ this' \in {this, ReplaceAll(this, that, r)}
          \/ Len(r) > Len(that) /\ (Overlaps(that, r) \/ Overlaps(that, that)) /\ IsValid(this')
    /\ UNCHANGED that

Next == Assigned \/ Appended \/ Summed \/ Cut \/ Trimmed \/ Mapped \/ Placed \/ Replaced

Spec == [][Next]_<<this, that>>
=============================================================================
