-------------------------------- MODULE Memory --------------------------------
(***************************************************************************)
(* The RAM that is left: Reset_Handler (src/system/startup_nrf51.S) paints *)
(* the stack and the heap, _sbrk (src/arduino/core/syscalls.c) hands out   *)
(* the heap, the memory watcher (src/libraries/memory_watcher) looks for   *)
(* paint and paints the stack again, in the loop of an interrupted main    *)
(* thread, and an alarm ends in the error handler (src/application).       *)
(*                                                                         *)
(* Word 1 of the stack lies at __StackLimit, word 1 of the heap at         *)
(* __HeapBase.  No program writes the pattern itself.                      *)
(***************************************************************************)
EXTENDS Integers, FiniteSets

CONSTANTS StackWords, HeapWords,  \* words of the stack and of the heap
          WarnLevel,              \* RAM_WARN_LEVEL, in words
          Frames                  \* the sizes of what is put on the stack

ASSUME MemAssumption ==
    /\ StackWords \in Nat \ {0} /\ HeapWords \in Nat \ {0}
    /\ WarnLevel \in Nat /\ Frames \subseteq Nat

VARIABLES painted,    \* the words of the stack that hold the pattern
          heapPaint,  \* the words of the heap that do
          sp,         \* the lowest word that is in use
          brk,        \* words of the heap that _sbrk has handed out
          paintAt,    \* the word that paintStackNow writes next; 0 outside of it
          memStep,    \* "reset", "running", or what has stopped the system
          memSeen     \* since the last paint: see MemInit

memVars == <<painted, heapPaint, sp, brk, paintAt, memStep, memSeen>>

StackOf == 1 .. StackWords
HeapOf  == 1 .. HeapWords

\* RAM may hold anything; main has a frame of a word
MemInit ==
    /\ painted \in {{}, StackOf} /\ heapPaint \in {{}, HeapOf}
    /\ sp = StackWords /\ brk = 0 /\ paintAt = 0
    /\ memStep = "reset"
    \* from: where the paint began; deepest: the lowest word in use since then;
    \* full: no frame has left its lowest word unwritten; heapFull: nor a block its last one
    /\ memSeen = [from |-> StackWords, deepest |-> StackWords, full |-> TRUE, heapFull |-> TRUE]

\* .FillStack and .FillHeap, before the first frame
Fill ==
    /\ memStep = "reset" /\ memStep' = "running"
    /\ painted' = StackOf \ {StackWords} /\ heapPaint' = HeapOf
    /\ UNCHANGED <<sp, brk, paintAt, memSeen>>

\* app_error_handler and __assert_func come here, and stay for ever
ErrorHandler(why) == memStep' = why

Executes == memStep = "running"

-----------------------------------------------------------------------------
(* The stack and the heap in use.                                          *)

\* a frame of n words below sp, of which some are written
Uses(n, written) ==
    /\ written \subseteq sp - n .. sp - 1
    /\ painted' = painted \ written
    /\ memSeen' = [memSeen EXCEPT !.deepest = IF sp - n < @ THEN sp - n ELSE @,
                                  !.full = @ /\ sp - n \in written /\ paintAt = 0]

(* A call and a return; bound: the stack is not exceeded.                  *)
Enter ==
    /\ Executes /\ paintAt = 0
    /\ \E n \in Frames :
          /\ sp - n >= 1 /\ sp' = sp - n
          /\ \E written \in SUBSET (sp - n .. sp - 1) : Uses(n, written)
    /\ UNCHANGED <<heapPaint, brk, paintAt, memStep>>

Leave ==
    /\ Executes /\ paintAt = 0
    /\ \E n \in Frames : sp + n <= StackWords /\ sp' = sp + n
    /\ UNCHANGED <<painted, heapPaint, brk, paintAt, memStep, memSeen>>

(* An interrupt uses the stack below that of the thread, and returns.      *)
Interrupted ==
    /\ Executes
    /\ \E n \in Frames :
          /\ sp - n >= 1
          /\ \E written \in SUBSET (sp - n .. sp - 1) : Uses(n, written)
    /\ UNCHANGED <<heapPaint, sp, brk, paintAt, memStep>>

(* _sbrk: the last word is never handed out.                               *)
Sbrk(incr) ==
    /\ Executes /\ paintAt = 0
    /\ IF brk + incr >= HeapWords
       THEN ErrorHandler("heap") /\ UNCHANGED <<brk, heapPaint, memSeen>>
       ELSE /\ brk' = brk + incr
            /\ \E written \in SUBSET (brk + 1 .. brk + incr) :
                  /\ heapPaint' = heapPaint \ written
                  /\ memSeen' = [memSeen EXCEPT !.heapFull =
                                    (brk + incr \in written)]
            /\ UNCHANGED memStep
    /\ UNCHANGED <<painted, sp, paintAt>>

-----------------------------------------------------------------------------
(* The watcher.                                                            *)

RemainingStack == sp - 1

\* getMinRemainingStack, up from the limit
MinRemainingStack ==
    Cardinality({i \in StackOf : \A j \in 1 .. i : j \in painted})

\* getMinRemainingHeap, down from the limit
MinRemainingHeap ==
    Cardinality({i \in HeapOf : \A j \in i .. HeapWords : j \in heapPaint})

(* checkRAM: the heap is judged by its history in any case.                *)
CheckRAM ==
    /\ Executes /\ paintAt = 0
    /\ RemainingStack + MinRemainingHeap < WarnLevel
    /\ ErrorHandler("ram")
    /\ UNCHANGED <<painted, heapPaint, sp, brk, paintAt, memSeen>>

\* the paint starts above the word that SP points to
LoopChecks_Above ==
    /\ Executes /\ paintAt = 0
    /\ IF MinRemainingStack + MinRemainingHeap < WarnLevel
       THEN ErrorHandler("history") /\ UNCHANGED <<paintAt, memSeen>>
       ELSE /\ paintAt' = IF sp < StackWords THEN sp + 1 ELSE sp
            /\ memSeen' = [memSeen EXCEPT !.from = sp, !.deepest = sp, !.full = sp + 1 \notin painted]
            /\ UNCHANGED memStep
    /\ UNCHANGED <<painted, heapPaint, sp, brk>>

(* application_loop and applicationTick: checkRAMHistory, and paintStackNow*)
(* from the word that SP points to down to the limit.                      *)
LoopChecks ==
    /\ Executes /\ paintAt = 0
    /\ IF MinRemainingStack + MinRemainingHeap < WarnLevel
       THEN ErrorHandler("history") /\ UNCHANGED <<paintAt, memSeen>>
       ELSE /\ paintAt' = sp
            /\ memSeen' = [memSeen EXCEPT !.from = sp, !.deepest = sp, !.full = sp + 1 \notin painted]
            /\ UNCHANGED memStep
    /\ UNCHANGED <<painted, heapPaint, sp, brk>>

PaintStackNow ==
    /\ Executes /\ paintAt > 0
    /\ painted' = painted \union {paintAt}
    /\ paintAt' = paintAt - 1
    /\ UNCHANGED <<heapPaint, sp, brk, memStep, memSeen>>

-----------------------------------------------------------------------------
MemNext ==
    \/ Fill \/ Enter \/ Leave \/ Interrupted
    \/ \E incr \in Frames : Sbrk(incr)
    \/ CheckRAM \/ LoopChecks \/ PaintStackNow

MemSpec == MemInit /\ [][MemNext]_memVars

-----------------------------------------------------------------------------
(* Properties.                                                             *)

(* What the watcher reports is never less than what was really left since  *)
(* the last paint, so that no alarm is false.  It is no more than that if  *)
(* each frame wrote its lowest word and none came while the stack was being*)
(* painted; but the word that SP points to is painted, too, and counted    *)
(* when nothing is put on the stack after that.  The heap never reaches    *)
(* its limit, and its report is exact when the last block wrote its last   *)
(* word.                                                                   *)
WatcherTells ==
    memStep # "reset" =>
    /\ brk < HeapWords
    /\ MinRemainingHeap >= HeapWords - brk
    /\ memSeen.heapFull => MinRemainingHeap = HeapWords - brk
    /\ paintAt = 0 =>
          /\ MinRemainingStack >= memSeen.deepest - 1
          /\ memSeen.full /\ memSeen.deepest < memSeen.from =>
                MinRemainingStack = memSeen.deepest - 1
          /\ memSeen.full => MinRemainingStack <= memSeen.deepest
    /\ memStep = "history" => memSeen.deepest - 1 + HeapWords - brk < WarnLevel
    /\ memStep = "ram" => sp - 1 + HeapWords - brk < WarnLevel
=============================================================================
