------------------------------- MODULE AppTimer -------------------------------
(***************************************************************************)
(* The Timer class (src/libraries/arduino_libraries/timer) over one SDK    *)
(* application timer.  The application timer is always a repeated one: it  *)
(* fires until it is stopped, each time putting the timeout into the event *)
(* scheduler's queue.  A timeout that is already queued when the timer is  *)
(* cancelled is still delivered.                                           *)
(***************************************************************************)

TimerType == [created  : BOOLEAN,   \* _timerId # INACTIVE_TIMER
              periodic : BOOLEAN,   \* _b_periodicTimer
              active   : BOOLEAN,   \* _isActive
              running  : BOOLEAN]   \* the application timer is counting

NewTimer == [created |-> FALSE, periodic |-> FALSE, active |-> FALSE, running |-> FALSE]

-----------------------------------------------------------------------------
(* notifyAfter and periodicNotify, with start and init                     *)
PeriodicNotify(t) ==
    [created |-> TRUE, periodic |-> TRUE, active |-> TRUE, running |-> TRUE]

\* cancel, of a timer that was started before
Cancel(t) == [t EXCEPT !.active = FALSE, !.running = FALSE]

\* the error check in cancel
CanCancel(t) == t.created

\* timerElapsed: is the listener told?
Notifies(t) == t.active
=============================================================================
