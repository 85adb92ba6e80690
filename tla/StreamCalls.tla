------------------------------ MODULE StreamCalls ------------------------------
(***************************************************************************)
(* The blocking calls of the class Stream (src/arduino/core/Stream.cpp)    *)
(* over a derived class whose read and peek return -1 when no byte has     *)
(* come.  Bytes come at any time; a call that waits too long for one goes  *)
(* on with -1.  Each test of the input is one step.  The value of a number *)
(* is not wrapped: one of more than nine digits may overflow a long.       *)
(***************************************************************************)
EXTENDS Integers, Sequences, SequencesExt

CONSTANTS Bytes,       \* the bytes that come
          Targets,     \* what find looks for
          Terminators, \* what ends its search; <<>> for none
          SkipChar,    \* the character that a number may have in it
          MaxInput     \* bound: bytes in one behaviour

ASSUME StreamAssumption ==
    /\ Bytes \subseteq 0 .. 255 /\ MaxInput \in Nat
    \* texts without their terminator, and something to look for
    /\ Targets \subseteq Seq(1 .. 255) \ {<<>>} /\ Terminators \subseteq Seq(1 .. 255)
    \* NO_SKIP_CHAR or a "format character": not one that a number is made of
    /\ SkipChar \in 0 .. 254 \ (48 .. 57 \union {45, 46})

VARIABLES input,   \* bytes that have come and have not been read
          came,    \* how many have come
          job      \* the call in progress, or the last one

streamVars == <<input, came, job>>

Minus == 45
Point == 46
Digit(c) == c \in 48 .. 57
TimedOut == -1

NoJob == [op |-> "none", at |-> "done", read |-> <<>>, value |-> 0, negative |-> FALSE,
          target |-> <<>>, stop |-> <<>>, index |-> 0, stopIndex |-> 0, found |-> FALSE,
          point |-> FALSE, decimals |-> 0,
          late |-> MaxInput,  \* the bytes read when the wait for a number has ended
          lost |-> 0]       \* the place in read of a byte that the call has not looked at

StreamInit == input = <<>> /\ came = 0 /\ job = NoJob

ByteComes(c) ==
    /\ came < MaxInput /\ came' = came + 1
    /\ input' = Append(input, c)
    /\ UNCHANGED job

\* what timedPeek returns: the next byte, or TimedOut if none has come
Peeked(c) == IF input = <<>> THEN c = TimedOut ELSE c = Head(input)

\* read: the call has the next byte
Take == input' = Tail(input)

Calls(op, t, s) ==
    /\ job.at = "done"
    /\ job' = [NoJob EXCEPT !.op = op, !.at = "wait", !.target = t, !.stop = s]
    /\ UNCHANGED <<input, came>>

-----------------------------------------------------------------------------
(* findUntil; find is without a terminator.                                *)
Find == \E t \in Targets, s \in Terminators : Calls("find", t, s)

\* a byte that does not fit is not tried as the first of the target
NextIndex_FromZero(c) == IF c = job.target[job.index + 1] THEN job.index + 1 ELSE 0

\* the index in the target after a byte: it starts again from its first
NextIndex(c) == IF c = job.target[job.index + 1] THEN job.index + 1
                ELSE IF c = job.target[1] THEN 1 ELSE 0

\* the index in the terminator: what does not fit is not tried again
NextStop(c) == IF job.stop # <<>> /\ c = job.stop[job.stopIndex + 1] THEN job.stopIndex + 1 ELSE 0

FindByte ==
    /\ job.op = "find" /\ job.at = "wait" /\ input # <<>>
    /\ Take
    /\ LET c     == Head(input)
           found == c > 0 /\ NextIndex(c) = Len(job.target)
           ends  == c = 0 \/ found \/ (job.stop # <<>> /\ NextStop(c) = Len(job.stop))
       IN  job' = [job EXCEPT !.read = Append(@, c), !.index = NextIndex(c),
                              !.stopIndex = NextStop(c), !.found = found,
                              !.at = IF ends THEN "done" ELSE "wait"]
    /\ UNCHANGED came

-----------------------------------------------------------------------------
(* readBytes, readBytesUntil, readString and readStringUntil: as many as   *)
(* asked for, until a byte that ends it, or a timeout.                     *)
ReadBytes == \E t \in {<<0>>} \union {<<>>} : Calls("read", <<>>, t)

ReadByte ==
    /\ job.op = "read" /\ job.at = "wait" /\ input # <<>>
    /\ Take
    /\ LET c == Head(input)
       IN  \E full \in BOOLEAN :
              job' = [job EXCEPT !.read = Append(@, c),
                                 !.value = IF <<c>> = job.stop THEN @ ELSE @ + 1,
                                 !.at = IF full \/ <<c>> = job.stop THEN "done" ELSE "wait"]
    /\ UNCHANGED came

(* find and readBytes give up.                                             *)
GivesUp ==
    /\ job.op \in {"find", "read"} /\ job.at = "wait" /\ input = <<>>
    /\ job' = [job EXCEPT !.at = "done"]
    /\ UNCHANGED <<input, came>>

-----------------------------------------------------------------------------
(* parseInt and parseFloat.                                                *)
Parse == \E op \in {"int", "float"} : Calls(op, <<>>, <<>>)

\* peekNextDigit
PeekNextDigit ==
    /\ job.op \in {"int", "float"} /\ job.at = "wait"
    /\ \E c \in Bytes \union {TimedOut} :
          /\ Peeked(c)
          /\ \/ c # TimedOut /\ c # Minus /\ ~Digit(c)
                /\ Take /\ job' = [job EXCEPT !.read = Append(@, c)]
             \/ (c = Minus \/ Digit(c))
                /\ job' = [job EXCEPT !.at = "char", !.index = c] /\ UNCHANGED input
             \* parseInt returns 0; the -1 of parseFloat is the character 255
             \/ c = TimedOut /\ job.op = "int"
                /\ job' = [job EXCEPT !.at = "done"] /\ UNCHANGED input
             \/ c = TimedOut /\ job.op = "float"
                /\ job' = [job EXCEPT !.at = "char", !.index = 255, !.late = Len(job.read)] /\ UNCHANGED input
    /\ UNCHANGED came

\* the value after a character
Valued(c) == IF Digit(c) THEN job.value * 10 + (c - 48) ELSE job.value

(* The character peeked is used, and then a byte is read.                  *)
UseChar ==
    /\ job.op \in {"int", "float"} /\ job.at = "char"
    /\ job' = [job EXCEPT !.value = Valued(job.index),
                          !.negative = @ \/ job.index = Minus,
                          !.point = @ \/ (job.op = "float" /\ job.index = Point),
                          !.decimals = IF job.point /\ Digit(job.index) THEN @ + 1 ELSE @,
                          !.read = IF input = <<>> THEN @ ELSE Append(@, Head(input)),
                          !.lost = IF input # <<>> /\ Head(input) # job.index
                                   THEN Len(job.read) + 1 ELSE @,
                          !.at = "next"]
    /\ input' = IF input = <<>> THEN <<>> ELSE Tail(input)
    /\ UNCHANGED came

\* the characters that the number goes on with
GoesOn(c) == Digit(c) \/ c = SkipChar \/ (job.op = "float" /\ c = Point)

PeekNext ==
    /\ job.op \in {"int", "float"} /\ job.at = "next"
    /\ \E c \in Bytes \union {TimedOut} :
          /\ Peeked(c)
          /\ job' = IF GoesOn(c) THEN [job EXCEPT !.at = "char", !.index = c]
                    ELSE [job EXCEPT !.at = "done", !.value = IF job.negative THEN -@ ELSE @]
    /\ UNCHANGED <<input, came>>

-----------------------------------------------------------------------------
StreamNext ==
    \/ \E c \in Bytes : ByteComes(c)
    \/ Find \/ FindByte \/ ReadBytes \/ ReadByte \/ GivesUp
    \/ Parse \/ PeekNextDigit \/ UseChar \/ PeekNext

StreamSpec == StreamInit /\ [][StreamNext]_streamVars

-----------------------------------------------------------------------------
(* Properties.                                                             *)

EndsIn(s, t) == Len(t) <= Len(s) /\ SubSeq(s, Len(s) - Len(t) + 1, Len(s)) = t
Occurs(s, t) == \E n \in 1 .. Len(s) : EndsIn(SubSeq(s, 1, n), t)

\* a beginning of the target is found again at another place within it
SelfSimilar(t) ==
    \E n, m \in 1 .. Len(t) - 1 : m < n /\ EndsIn(SubSeq(t, 1, n), SubSeq(t, 1, m))

\* the number that digits among other characters stand for
Number(s) ==
    LET number[n \in 0 .. Len(s)] ==
            IF n = 0 THEN 0
            ELSE IF Digit(s[n]) THEN number[n - 1] * 10 + (s[n] - 48) ELSE number[n - 1]
    IN  number[Len(s)]

\* the digits that are behind a point which is not in front of the number
Decimals(s, from) ==
    LET number(i) == i > from \/ \E j \in 1 .. i : Digit(s[j]) \/ s[j] = Minus
        point(i)  == s[i] = Point /\ number(i) /\ i # job.lost
    IN  Cardinality({i \in 1 .. Len(s) : Digit(s[i]) /\ \E j \in 1 .. i : point(j)})

(* "returns true if target string is found": find stops right behind the   *)
(* first occurrence and misses one only of a target that is similar to     *)
(* itself ("aab" in "aaab").  parseInt and parseFloat consume the bytes of *)
(* the number they return and no other, even when bytes come between their *)
(* looks at the input; except that parseFloat, whose char is never         *)
(* negative, does not see that its wait has ended without a number, and    *)
(* swallows one byte that comes after it.                                  *)
StreamExact ==
    /\ job.op = "find" /\ job.at = "done" =>
          /\ job.found => EndsIn(job.read, job.target)
          /\ ~job.found /\ ~SelfSimilar(job.target) => ~Occurs(job.read, job.target)
    /\ LET used == SubSeq(job.read, job.lost + 1, Len(job.read))
       IN  job.op \in {"int", "float"} /\ job.at = "done" =>
             /\ job.value = (IF Contains(used, Minus) THEN -1 ELSE 1) * Number(used)
             /\ job.decimals = IF job.op = "int" THEN 0 ELSE Decimals(job.read, job.late)
    /\ job.lost # 0 =>
          /\ job.op = "float" /\ job.lost = job.late + 1
          /\ \A i \in 1 .. job.late : job.read[i] # Minus /\ ~Digit(job.read[i])
=============================================================================
