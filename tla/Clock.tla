--------------------------------- MODULE Clock ---------------------------------
(***************************************************************************)
(* Time (src/arduino/core/delay.c): a counter of the RTC, whose overflows  *)
(* an interrupt counts, is read without locking; delay waits by it, and so *)
(* does EventManager::applicationTick                                      *)
(* (src/libraries/event_manager/event_manager.cpp), which keeps 16 bits of *)
(* it.  Milliseconds, microseconds and ticks are the same unit here.       *)
(***************************************************************************)
EXTENDS Integers

CONSTANTS Period,     \* ticks of the RTC's counter (2^24)
          Half,       \* values of a uint16_t (2^16)
          Word,       \* values of an unsigned int (2^32)
          WaitTicks,  \* loc_u16_wait_duration
          Durations,  \* what delay and applicationTick are called for
          MaxNow      \* bound: ticks in one behaviour

ASSUME ClockAssumption ==
    /\ Period \in Nat \ {0} /\ Half \in Nat \ {0} /\ Word \in Nat \ {0}
    /\ WaitTicks \in Nat /\ Durations \subseteq Nat

VARIABLES now,        \* the true time
          overflow,   \* EVENTS_OVRFLW: the interrupt is pending
          overflows,  \* rtc1_overflow_count, in periods
          reading,    \* a call of millis or micros
          waiting,    \* a call of delay
          ticking     \* a call of applicationTick

clockVars == <<now, overflow, overflows, reading, waiting, ticking>>

\* wrong: what the reading may be off by, in periods
NoReading == [at |-> "none", counter |-> 0, from |-> 0, wrong |-> 0, value |-> 0]
NoWait    == [at |-> "done", start |-> 0, ms |-> 0, from |-> 0, wrong |-> FALSE]
NoTick    == [at |-> "done", start |-> 0, ms |-> 0, count |-> 0, from |-> 0, wrong |-> FALSE]

ClockInit ==
    /\ now = 0 /\ overflow = FALSE /\ overflows = 0
    /\ reading = NoReading /\ waiting = NoWait /\ ticking = NoTick

-----------------------------------------------------------------------------
(* The RTC and its interrupt, which is served within a period (512 s), as  *)
(* a reading is made within one.                                           *)

Tick ==
    /\ now < MaxNow
    /\ reading.at = "counter" => now - reading.from < Period - 1
    /\ now' = now + 1
    /\ LET wraps == now' % Period = 0
       IN  /\ ~(wraps /\ overflow)
           /\ overflow' = (overflow \/ wraps)
    /\ UNCHANGED <<overflows, reading, waiting, ticking>>

OverflowHandler ==
    /\ overflow
    /\ overflow' = FALSE
    /\ overflows' = overflows + 1
    /\ reading' = IF reading.at = "counter" THEN [reading EXCEPT !.wrong = @ + 1] ELSE reading
    /\ UNCHANGED <<now, waiting, ticking>>

-----------------------------------------------------------------------------
(* millis64 and micros64: the counter, then the overflows.                 *)

Wants == waiting.at \in {"start", "loop"} \/ ticking.at \in {"start", "processed"}

ReadCounter ==
    /\ Wants /\ reading.at = "none"
    /\ reading' = [at |-> "counter", counter |-> now % Period, from |-> now,
                   wrong |-> IF overflow THEN -1 ELSE 0, value |-> 0]
    /\ UNCHANGED <<now, overflow, overflows, waiting, ticking>>

ReadOverflows ==
    /\ reading.at = "counter"
    /\ reading' = [reading EXCEPT !.at = "done",
                                  !.value = (overflows * Period + reading.counter) % Word]
    /\ UNCHANGED <<now, overflow, overflows, waiting, ticking>>

Got == reading.at = "done" /\ reading' = NoReading

\* the difference of two unsigned numbers
Since(a, b) == (a - b) % Word

-----------------------------------------------------------------------------
(* delay.                                                                  *)
Wait(ms) == waiting' = [NoWait EXCEPT !.at = "start", !.ms = ms, !.from = now]

Delay ==     \* bound: one call in a behaviour, begun at any time
    /\ waiting = NoWait /\ ticking = NoTick
    /\ \E ms \in Durations : Wait(ms)
    /\ UNCHANGED <<now, overflow, overflows, reading, ticking>>

DelayStarts ==
    /\ waiting.at = "start" /\ Got
    /\ waiting' = [waiting EXCEPT !.at = "loop", !.start = reading.value,
                                  !.wrong = reading.wrong # 0]
    /\ UNCHANGED <<now, overflow, overflows, ticking>>

\* the end is computed, and the time compared with it
DelayLooks_EndTime ==
    /\ waiting.at = "loop" /\ Got
    /\ waiting' = [waiting EXCEPT !.wrong = @ \/ reading.wrong # 0,
                     !.at = IF reading.value < (waiting.start + waiting.ms) % Word
                            THEN "loop" ELSE "done"]
    /\ UNCHANGED <<now, overflow, overflows, ticking>>

DelayLooks ==
    /\ waiting.at = "loop" /\ Got
    /\ waiting' = [waiting EXCEPT !.wrong = @ \/ reading.wrong # 0,
                     !.at = IF Since(reading.value, waiting.start) < waiting.ms
                            THEN "loop" ELSE "done"]
    /\ UNCHANGED <<now, overflow, overflows, ticking>>

-----------------------------------------------------------------------------
(* applicationTick.                                                        *)
ApplicationTick ==
    /\ waiting = NoWait /\ ticking = NoTick
    /\ \E ms \in Durations :
          ticking' = [NoTick EXCEPT !.at = "start", !.ms = ms, !.from = now]
    /\ UNCHANGED <<now, overflow, overflows, reading, waiting>>

\* the delay of an earlier round was too short
WaitedWrong == ticking.count > 0 /\ waiting.wrong

TickStarts ==
    /\ ticking.at = "start" /\ waiting.at = "done" /\ Got
    /\ ticking' = [ticking EXCEPT !.at = "processed", !.start = reading.value % Half,
                                  !.wrong = @ \/ reading.wrong # 0 \/ WaitedWrong]
    /\ UNCHANGED <<now, overflow, overflows, waiting>>

(* The duration is a difference of two halves in a whole word.             *)
TickProcessed ==
    /\ ticking.at = "processed" /\ waiting.at = "done" /\ Got
    /\ LET spent == Since(reading.value % Half, ticking.start)
           count == ticking.count + IF spent > WaitTicks THEN spent ELSE WaitTicks
       IN  /\ IF spent > WaitTicks THEN UNCHANGED waiting ELSE Wait(WaitTicks - spent)
           /\ ticking' = [ticking EXCEPT !.count = count,
                             !.wrong = @ \/ reading.wrong # 0 \/ reading.value % Half < ticking.start,
                             !.at = IF count < ticking.ms THEN "start" ELSE "end"]
    /\ UNCHANGED <<now, overflow, overflows>>

TickEnds ==
    /\ ticking.at = "end" /\ waiting.at = "done"
    /\ ticking' = [ticking EXCEPT !.at = "done", !.wrong = @ \/ WaitedWrong]
    /\ UNCHANGED <<now, overflow, overflows, reading, waiting>>

-----------------------------------------------------------------------------
ClockNext ==
    \/ Tick \/ OverflowHandler \/ ReadCounter \/ ReadOverflows
    \/ Delay \/ DelayStarts \/ DelayLooks
    \/ ApplicationTick \/ TickStarts \/ TickProcessed \/ TickEnds

ClockSpec == ClockInit /\ [][ClockNext]_clockVars

-----------------------------------------------------------------------------
(* Properties.                                                             *)

(* A reading is the time at which the counter was read, or off by exactly  *)
(* one period: back if the counter has overflowed and its interrupt waits, *)
(* forth if the interrupt comes between the two reads.  delay and          *)
(* applicationTick never end early otherwise, whatever wraps around, but   *)
(* for applicationTick when the 16 bits it keeps do in one of its rounds.  *)
WaitsLongEnough ==
    /\ reading.at = "done" =>
          /\ reading.wrong \in {-1, 0, 1}
          /\ reading.value = (reading.from + reading.wrong * Period) % Word
    /\ waiting.at = "done" /\ ~waiting.wrong => now - waiting.from >= waiting.ms
    /\ ticking.at = "done" /\ ~ticking.wrong => now - ticking.from >= ticking.ms
=============================================================================
