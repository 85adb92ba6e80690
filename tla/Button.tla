-------------------------------- MODULE Button --------------------------------
(***************************************************************************)
(* A button (src/libraries/arduino_libraries/button) on a GPIOTE channel   *)
(* (src/arduino/core/interrupt.cpp), with its Timer.                       *)
(*                                                                         *)
(* The pin moves by itself.  The channel latches the edge it is configured *)
(* for; GPIOTE_handler and buttonISR look at the level again, swap the     *)
(* polarity and queue an event.  Each access of the interrupt handler to   *)
(* the pin or the channel is one step, so that the pin can move between    *)
(* them.  The main thread, which the handler interrupts, counts the length *)
(* of the press in timeouts of its timer.                                  *)
(***************************************************************************)
EXTENDS Integers, Sequences, AppTimer

CONSTANTS ShortDur, MediumDur, LongDur, LongLongDur,
                        \* the DEFAULT_.._PRESS_DURATION_MS, in timer periods
          NoCounting,   \* NO_COUNTING_DURATION_MS
          MaxEdges,     \* bound: moves of the pin in one behaviour
          MaxQueue      \* bound: the timer fires only while fewer events wait

ASSUME ButtonAssumption ==
    /\ {ShortDur, MediumDur, LongDur, LongLongDur, NoCounting, MaxEdges, MaxQueue} \subseteq Nat
    /\ 0 < ShortDur /\ ShortDur < MediumDur /\ MediumDur < LongDur
    /\ LongDur < LongLongDur /\ LongLongDur < NoCounting

VARIABLES
    pin,       \* "up" or "down" (pressed), whatever the pull resistor
    edges,     \* how often the pin has moved
    latched,   \* EVENTS_IN of the channel
    lastEdge,  \* _e_lastEdge, and the channel's polarity: the edge awaited
    isr,       \* where the interrupt handler is
    sample,    \* the level that buttonISR has read
    queue,     \* the scheduler's queue
    dur,       \* _u16_current_press_dur
    timer,     \* _timer
    report,    \* the last release event queued for the application
    age,       \* how often the timer has fired since the last press edge
    unseen     \* the pin moved while the handler could not see it, and is
               \* where the awaited edge would have taken it

isrVars  == <<latched, lastEdge, isr, sample>>
mainVars == <<dur, timer, report>>
vars == <<pin, edges, isrVars, queue, mainVars, age, unseen>>

Kinds == {"none", "short", "medium", "long", "long_long", "released"}

TypeOK ==
    /\ pin \in {"up", "down"} /\ edges \in 0 .. MaxEdges
    /\ latched \in BOOLEAN /\ lastEdge \in {"press", "release"}
    /\ isr \in {"idle", "reject", "call", "read", "detach", "attach"}
    /\ sample \in {"up", "down"}
    /\ queue \in Seq({"pressed_int", "released_int", "timeout"})
    /\ dur \in 0 .. LongLongDur \/ dur = NoCounting
    /\ timer \in TimerType
    /\ report \in [kind : Kinds, held : Nat]
    /\ age \in Nat
    /\ unseen \in BOOLEAN

Init ==
    /\ pin = "up" /\ edges = 0
    /\ latched = FALSE /\ lastEdge = "press" /\ isr = "idle" /\ sample = "up"
    /\ queue = <<>> /\ dur = NoCounting /\ timer = NewTimer
    /\ report = [kind |-> "none", held |-> 0] /\ age = 0 /\ unseen = FALSE

\* the level that an edge leads to
LevelAfter(edge) == IF edge = "press" THEN "down" ELSE "up"

-----------------------------------------------------------------------------
(* The pin.  A channel that is detached latches nothing.                   *)
PinMoves ==
    /\ edges < MaxEdges
    /\ edges' = edges + 1
    /\ pin' = IF pin = "up" THEN "down" ELSE "up"
    /\ latched' = (latched \/ (isr # "attach" /\ pin' = LevelAfter(lastEdge)))
    /\ unseen' = (unseen \/ isr \in {"reject", "detach", "attach"})
    /\ UNCHANGED <<lastEdge, isr, sample, queue, mainVars, age>>

-----------------------------------------------------------------------------
(* GPIOTE_handler: is the pin where the edge should have taken it?         *)
GpioteHandler ==
    /\ isr = "idle" /\ latched
    /\ isr' = IF pin = LevelAfter(lastEdge) THEN "call" ELSE "reject"
    /\ UNCHANGED <<pin, edges, latched, lastEdge, sample, queue, mainVars, age, unseen>>

(* No: an invalid interrupt, the event is cleared.                         *)
RejectEvent ==
    /\ isr = "reject"
    /\ latched' = FALSE /\ isr' = "idle"
    /\ unseen' = (unseen /\ pin = LevelAfter(lastEdge))
    /\ UNCHANGED <<pin, edges, lastEdge, sample, queue, mainVars, age>>

(* Yes: the event is cleared and buttonISR called.                         *)
AcceptEvent ==
    /\ isr = "call"
    /\ latched' = FALSE /\ isr' = "read"
    /\ UNCHANGED <<pin, edges, lastEdge, sample, queue, mainVars, age, unseen>>

(* buttonISR: digitalRead,                                                 *)
DigitalRead ==
    /\ isr = "read"
    /\ sample' = pin /\ isr' = "detach"
    /\ UNCHANGED <<pin, edges, latched, lastEdge, queue, mainVars, age, unseen>>

(* detachInterrupt, which does not clear the event,                        *)
DetachInterrupt ==
    /\ isr = "detach" /\ isr' = "attach"
    /\ UNCHANGED <<pin, edges, latched, lastEdge, sample, queue, mainVars, age, unseen>>

\* the level read does not decide whether the edge was a spike
IsSpike_Never == FALSE

\* a spike: the pin has gone back already
IsSpike == sample # LevelAfter(lastEdge)

\* attachInterrupt for the edge that is awaited now
Rearm ==
    /\ UNCHANGED latched /\ isr' = "idle"
    /\ unseen' = (unseen /\ ~latched /\ pin = LevelAfter(lastEdge'))

(* and the event, the other polarity and attachInterrupt; after a spike    *)
(* the channel is attached for the same edge again.                        *)
AttachInterrupt ==
    /\ isr = "attach"
    /\ IF IsSpike
       THEN UNCHANGED <<lastEdge, queue, age>>
       ELSE /\ lastEdge' = IF lastEdge = "press" THEN "release" ELSE "press"
            /\ queue' = Append(queue, IF lastEdge = "press" THEN "pressed_int"
                                                             ELSE "released_int")
            /\ age' = IF lastEdge = "press" THEN 0 ELSE age
    /\ Rearm
    /\ UNCHANGED <<pin, edges, sample, mainVars>>

Interrupt == \/ GpioteHandler \/ RejectEvent \/ AcceptEvent
             \/ DigitalRead \/ DetachInterrupt \/ AttachInterrupt

-----------------------------------------------------------------------------
(* The application timer, and the main thread.                             *)

TimerFires ==
    /\ isr = "idle" /\ timer.running /\ Len(queue) < MaxQueue
    /\ queue' = Append(queue, "timeout")
    /\ age' = age + 1
    /\ UNCHANGED <<pin, edges, isrVars, mainVars, unseen>>

\* processEvent(BUTTON_PRESSED_INT).  A timer still running is restarted.
Pressed ==
    /\ dur' = 0 /\ timer' = PeriodicNotify(timer)
    /\ UNCHANGED report

\* the kind of press that a count stands for
KindOf(d) ==
    CASE d <= ShortDur                       -> "short"
      [] d >= MediumDur /\ d <= LongDur      -> "medium"
      [] d > LongDur /\ d <= LongLongDur     -> "long"
      [] d > LongLongDur                     -> "long_long"
      [] OTHER                               -> "released"

\* the count of the press is left behind
Released_KeepsCount ==
    /\ timer' = IF timer.active THEN Cancel(timer) ELSE timer
    /\ IF dur # NoCounting
       THEN report' = [kind |-> KindOf(dur), held |-> age] /\ UNCHANGED dur
       ELSE UNCHANGED <<report, dur>>

\* processEvent(BUTTON_RELEASED_INT)
Released ==
    /\ timer' = IF timer.active THEN Cancel(timer) ELSE timer
    /\ IF dur # NoCounting
       THEN report' = [kind |-> KindOf(dur), held |-> age] /\ dur' = NoCounting
       ELSE UNCHANGED <<report, dur>>

\* the count goes on beyond the longest press
TimerElapsed_Unbounded ==
    /\ dur' = dur + 1
    /\ UNCHANGED <<timer, report>>

\* the count advances by two periods at a time
TimerElapsed_Double ==
    /\ IF dur < LongLongDur
       THEN dur' = (IF dur + 2 > LongLongDur THEN LongLongDur ELSE dur + 2) /\ UNCHANGED timer
       ELSE timer' = (IF timer.active THEN Cancel(timer) ELSE timer) /\ UNCHANGED dur
    /\ UNCHANGED report

\* Button::timerElapsed
TimerElapsed ==
    /\ IF dur < LongLongDur
       THEN dur' = dur + 1 /\ UNCHANGED timer
       ELSE timer' = (IF timer.active THEN Cancel(timer) ELSE timer) /\ UNCHANGED dur
    /\ UNCHANGED report

\* Timer::timerElapsed drops a timeout that comes after cancel
Timeout == IF Notifies(timer) THEN TimerElapsed ELSE UNCHANGED mainVars

(* The main loop takes the oldest event.                                   *)
Execute ==
    /\ isr = "idle" /\ queue # <<>>
    /\ queue' = Tail(queue)
    /\ CASE Head(queue) = "pressed_int"  -> Pressed
         [] Head(queue) = "released_int" -> Released
         [] Head(queue) = "timeout"      -> Timeout
    /\ UNCHANGED <<pin, edges, isrVars, age, unseen>>

Next == PinMoves \/ Interrupt \/ TimerFires \/ Execute

Safety == Init /\ [][Next]_vars

\* interrupts are served and the main loop keeps running the scheduler
Spec == Safety /\ WF_vars(Interrupt) /\ WF_vars(Execute)

-----------------------------------------------------------------------------
(* Properties.                                                             *)

\* the queued events that the interrupt handler has sent, not the timer
Positions == 1 .. Len(queue)
IsEdge(i) == queue[i] \in {"pressed_int", "released_int"}
NoEdgeBefore(i) == \A k \in Positions : k < i => ~IsEdge(k)
NoEdgeAfter(i)  == \A k \in Positions : i < k => ~IsEdge(k)

(* Presses and releases reach the main thread in alternation, however the  *)
(* pin bounces: "be sure consecutive presses are not get" and the same for *)
(* releases never have to step in; and the interrupt handler awaits the    *)
(* edge that follows the events still in the queue.                        *)
EdgesAlternate ==
    /\ \A i, j \in Positions :
          IsEdge(i) /\ IsEdge(j) /\ i < j /\ (\A k \in i + 1 .. j - 1 : ~IsEdge(k))
              => queue[i] # queue[j]
    /\ \A i \in Positions : IsEdge(i) /\ NoEdgeBefore(i) =>
          queue[i] = IF dur = NoCounting THEN "pressed_int" ELSE "released_int"
    /\ \A i \in Positions : IsEdge(i) /\ NoEdgeAfter(i) =>
          lastEdge = IF queue[i] = "pressed_int" THEN "release" ELSE "press"
    /\ (\A i \in Positions : ~IsEdge(i)) =>
          lastEdge = IF dur = NoCounting THEN "press" ELSE "release"

(* The timer runs exactly while a press is being counted, until the count  *)
(* has reached its limit.                                                  *)
TimerWhileCounting ==
    /\ dur = NoCounting => ~timer.running
    /\ dur < LongLongDur => timer.active /\ timer.running
    /\ timer.active <=> timer.running

(* A count includes no timeout from before the press: timeouts that an     *)
(* earlier press has left in the queue come before the press edge.         *)
CountsThisPressOnly ==
    (\A i \in Positions : ~IsEdge(i)) /\ dur # NoCounting => dur <= age

(* A press is counted from its own edge to its own release.                *)
CountsOnePress == EdgesAlternate /\ TimerWhileCounting /\ CountsThisPressOnly

(* With the interrupt handler done, the edge awaited is the one that the   *)
(* pin's level makes possible, unless the pin moved between the handler's  *)
(* look at the level and the rearming of the channel: an edge is lost in   *)
(* no other window.                                                        *)
EdgeAwaitedIsPossible ==
    isr = "idle" /\ ~latched /\ ~unseen =>
        (lastEdge = "release" <=> pin = "down")

(* A button that has been released for good, none of its edges having been *)
(* lost, ends its press.                                                   *)
ReleaseReported ==
    <>[](pin = "up" /\ ~unseen) => <>[](dur = NoCounting)

(* BUTTON_LONG_LONG_PRESS is for presses longer than the last duration:    *)
(* a press that the timer counted beyond it is reported as one.            *)
LongLongReported ==
    report.held > LongLongDur => report.kind = "long_long"
=============================================================================
