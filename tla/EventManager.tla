----------------------------- MODULE EventManager -----------------------------
(***************************************************************************)
(* The event manager (src/libraries/event_manager) over the SDK's event    *)
(* scheduler: a list of (listener, event code) entries, and a queue of     *)
(* events that the main loop dispatches to the matching entries.           *)
(*                                                                         *)
(* Interrupt handlers queue events at any step.  The main thread runs the  *)
(* rest: the loop of applicationTick, and the listeners it calls, which    *)
(* use the event manager again, and which may even run the scheduler again *)
(* (a flash write does, while it waits): the running dispatches form a     *)
(* stack of levels.  One iteration of a loop over the list is one step, so *)
(* that an interrupt can see the list in the middle of a removal.          *)
(***************************************************************************)
EXTENDS Integers, Sequences, FiniteSets

CONSTANTS Listeners,     \* the registered objects
          Codes,         \* the event codes that are queued
          Tick,          \* EVENT_TICK, sent by applicationTick only
          Foreign,       \* an event that the scheduler carries for others
          MaxListeners,  \* EVENTMANAGER_LISTENER_LIST_SIZE
          QueueSize,     \* SCHEDULER_QUEUE_SIZE
          MaxLevels,     \* bound: nested runs of the scheduler
          MaxEvents,     \* bound: events accepted in one behaviour
          MaxOps         \* bound: removals, switches and nested runs

ASSUME ManagerAssumption ==
    /\ Tick \notin Codes /\ Foreign \notin Codes /\ Tick # Foreign
    /\ MaxListeners \in Nat \ {0} /\ QueueSize \in Nat \ {0}
    /\ MaxLevels \in Nat \ {0} /\ MaxEvents \in Nat /\ MaxOps \in Nat

VARIABLES
    listeners,  \* mListeners[0 .. mNumListeners - 1]
    queue,      \* the scheduler's queue
    levels,     \* the dispatches that are running, innermost last
    stage,      \* where the main thread is in applicationTick
    removal,    \* the removal loop that is running, or NoRemoval
    halted,     \* an error check has stopped the system
    accepted,   \* how many events queueEvent has taken
    seen,       \* the events each listener was called with, in order
    broken,     \* the events whose dispatch a nested run interrupted
    gone,       \* listeners removed altogether and not added again
    ops         \* operations used of MaxOps

listVars == <<listeners, removal, gone>>
history  == <<accepted, seen, broken, ops>>
vars == <<queue, levels, stage, halted, listVars, history>>

Entries == [listener : Listeners, code : Codes \union {Tick}, enabled : BOOLEAN]

\* The events: accepted ones are numbered, ticks are not told apart.
Events == [code : Codes, id : 1 .. MaxEvents]
TickEvent == [code |-> Tick, id |-> 0]
ForeignEvent == [code |-> Foreign, id |-> 0]
NoEvent == [code |-> "none", id |-> 0]

(* A level: fetching the next event, or scanning the list for an event's   *)
(* listeners, or inside a handler.  due are the listeners whose entry was  *)
(* there, enabled, when the scan began, and untouched since.               *)
Levels == [phase : {"fetch", "scan", "call"},
           event : Events \union {TickEvent, ForeignEvent, NoEvent},
           index : 1 .. MaxListeners + 1,
           due   : SUBSET Listeners]

NoRemoval == [kind |-> "none"]
Removals == {NoRemoval} \union
            [kind : {"pair", "all", "search"}, listener : Listeners,
             code : Codes \union {Tick}, index : 1 .. MaxListeners + 1,
             before : Seq(Entries)]

TypeOK ==
    /\ listeners \in Seq(Entries) /\ Len(listeners) <= MaxListeners
    /\ queue \in Seq(Events \union {ForeignEvent}) /\ Len(queue) <= QueueSize
    /\ levels \in Seq(Levels) /\ Len(levels) <= MaxLevels
    /\ stage \in {"app", "drain", "tick"}
    /\ removal \in Removals
    /\ halted \in BOOLEAN
    /\ accepted \in 0 .. MaxEvents
    /\ seen \in [Listeners -> Seq(1 .. MaxEvents)]
    /\ broken \subseteq 1 .. MaxEvents
    /\ gone \subseteq Listeners
    /\ ops \in 0 .. MaxOps

Init ==
    /\ listeners = <<>> /\ queue = <<>> /\ levels = <<>>
    /\ stage = "app" /\ removal = NoRemoval /\ halted = FALSE
    /\ accepted = 0 /\ seen = [l \in Listeners |-> <<>>] /\ broken = {}
    /\ gone = {} /\ ops = 0

-----------------------------------------------------------------------------
Running == ~halted

Top == levels[Len(levels)]

SetTop(level) == levels' = [levels EXCEPT ![Len(levels)] = level]

\* Application code runs: outside any dispatch, or in the innermost handler.
AppCode ==
    /\ Running /\ removal = NoRemoval
    /\ IF levels = <<>> THEN stage = "app" ELSE Top.phase = "call"

Matches(entry, code) == entry.code = code /\ entry.enabled

\* hasActiveListeners
HasActiveListeners(code) ==
    \E i \in 1 .. Len(listeners) : Matches(listeners[i], code)

Registered(l) == \E i \in 1 .. Len(listeners) : listeners[i].listener = l

IsPair(entry, l, c) == entry.listener = l /\ entry.code = c

\* searchListeners: the first entry of the pair
FirstOf(l, c) ==
    CHOOSE i \in 1 .. Len(listeners) :
        /\ IsPair(listeners[i], l, c)
        /\ \A j \in 1 .. i - 1 : ~IsPair(listeners[j], l, c)

HasPair(l, c) == \E i \in 1 .. Len(listeners) : IsPair(listeners[i], l, c)

-----------------------------------------------------------------------------
(* The list's operations, called by application code.                      *)

\* an event in dispatch no longer owes a call to the listeners ls
Excuse(ls) == levels' = [k \in 1 .. Len(levels) |->
                            [levels[k] EXCEPT !.due = @ \ ls]]

\* an addition that does not look at the room left
AddListener_Unbounded(l, c) ==
    /\ AppCode
    /\ listeners' = Append(listeners, [listener |-> l, code |-> c, enabled |-> TRUE])
    /\ gone' = gone \ {l}
    /\ UNCHANGED <<queue, levels, stage, removal, halted, history>>

(* addListener: a full list refuses.  The same pair may be added again.    *)
AddListener(l, c) ==
    /\ AppCode /\ Len(listeners) < MaxListeners
    /\ listeners' = Append(listeners, [listener |-> l, code |-> c, enabled |-> TRUE])
    /\ gone' = gone \ {l}
    /\ UNCHANGED <<queue, levels, stage, removal, halted, history>>

(* enableListener: the first entry of the pair.                            *)
EnableListener(l, c, enable) ==
    /\ AppCode /\ HasPair(l, c) /\ ops < MaxOps
    /\ listeners' = [listeners EXCEPT ![FirstOf(l, c)].enabled = enable]
    /\ Excuse(IF enable THEN {} ELSE {l})
    /\ ops' = ops + 1
    /\ UNCHANGED <<queue, stage, removal, gone, halted, accepted, seen, broken>>

(* removeListener of a pair enters its loop at the first entry of it.      *)
StartRemovePair(l, c) ==
    /\ AppCode /\ HasPair(l, c) /\ ops < MaxOps
    /\ removal' = [kind |-> "pair", listener |-> l, code |-> c,
                   index |-> FirstOf(l, c), before |-> listeners]
    /\ Excuse(Listeners)
    /\ ops' = ops + 1
    /\ UNCHANGED <<queue, stage, listeners, gone, halted, accepted, seen, broken>>

(* removeListener of a listener.                                           *)
StartRemoveAll(l) ==
    /\ AppCode /\ listeners # <<>> /\ ops < MaxOps
    /\ removal' = [kind |-> "search", listener |-> l, code |-> Tick,
                   index |-> 1, before |-> listeners]
    /\ Excuse(Listeners)
    /\ ops' = ops + 1
    /\ UNCHANGED <<queue, stage, listeners, gone, halted, accepted, seen, broken>>

(* Its outer loop.  "int k = searchListeners(listener) >= 0" gives k the   *)
(* value of the comparison: the removal starts at the second entry.        *)
SearchAgain ==
    /\ Running /\ removal.kind = "search"
    /\ IF Registered(removal.listener)
       THEN removal' = [removal EXCEPT !.kind = "all", !.index = 2] /\ UNCHANGED gone
       ELSE removal' = NoRemoval /\ gone' = gone \union {removal.listener}
    /\ UNCHANGED <<queue, levels, stage, listeners, halted, history>>

Shift(list, i) == SubSeq([list EXCEPT ![i] = list[i + 1]], 1, Len(list) - 1)

(* The inner loop of both: copy the next entry down and, in every          *)
(* iteration, shorten the list by one.                                     *)
RemoveShift ==
    /\ Running /\ removal.kind \in {"pair", "all"}
    /\ removal.index < Len(listeners)
    /\ listeners' = Shift(listeners, removal.index)
    /\ removal' = [removal EXCEPT !.index = @ + 1]
    /\ UNCHANGED <<queue, levels, stage, gone, halted, history>>

\* the listener is looked for only once
RemoveLoopEnds_Once ==
    /\ Running /\ removal.kind \in {"pair", "all"}
    /\ removal.index >= Len(listeners)
    /\ removal' = NoRemoval
    /\ gone' = IF removal.kind = "all" THEN gone \union {removal.listener} ELSE gone
    /\ UNCHANGED <<queue, levels, stage, listeners, halted, history>>

RemoveLoopEnds ==
    /\ Running /\ removal.kind \in {"pair", "all"}
    /\ removal.index >= Len(listeners)
    /\ removal' = IF removal.kind = "all" THEN [removal EXCEPT !.kind = "search"]
                                          ELSE NoRemoval
    /\ UNCHANGED <<queue, levels, stage, listeners, gone, halted, history>>

-----------------------------------------------------------------------------
(* The queue.                                                              *)

\* a put that places the event at the wrong end
Put_Front(event) ==
    IF Len(queue) < QueueSize
    THEN queue' = <<event>> \o queue /\ UNCHANGED halted
    ELSE halted' = TRUE /\ UNCHANGED queue

\* app_sched_event_put under APP_ERROR_CHECK
Put(event) ==
    IF Len(queue) < QueueSize
    THEN queue' = Append(queue, event) /\ UNCHANGED halted
    ELSE halted' = TRUE /\ UNCHANGED queue

(* queueEvent, by application code or by an interrupt handler at any step: *)
(* an event nobody listens to is refused, a full queue stops the system.   *)
QueueEvent(c) ==
    /\ Running /\ accepted < MaxEvents
    /\ HasActiveListeners(c)
    /\ Put([code |-> c, id |-> accepted + 1])
    /\ accepted' = accepted + 1
    /\ UNCHANGED <<levels, stage, listVars, seen, broken, ops>>

(* The timers, the SoftDevice handler and GPIOTE share the queue.          *)
QueueForeign ==
    /\ Running /\ ops < MaxOps
    /\ Put(ForeignEvent)
    /\ ops' = ops + 1
    /\ UNCHANGED <<levels, stage, listVars, accepted, seen, broken>>

-----------------------------------------------------------------------------
(* Dispatch.                                                               *)

FetchLevel == [phase |-> "fetch", event |-> NoEvent, index |-> 1, due |-> {}]

\* sendEvent begins: the listeners that it has to call
ScanLevel(event) ==
    [phase |-> "scan", event |-> event, index |-> 1,
     due |-> {l \in Listeners : \E i \in 1 .. Len(listeners) :
                 listeners[i].listener = l /\ Matches(listeners[i], event.code)}]

\* a loop that runs the scheduler only when somebody listens on ticks
ProcessEvent_ForTicks ==
    /\ Running /\ removal = NoRemoval /\ levels = <<>> /\ stage = "app"
    /\ IF HasActiveListeners(Tick)
       THEN levels' = <<FetchLevel>> /\ stage' = "drain"
       ELSE stage' = "tick" /\ UNCHANGED levels
    /\ UNCHANGED <<queue, listVars, halted, history>>

(* processEvent, from the loop of applicationTick.                         *)
ProcessEvent ==
    /\ Running /\ removal = NoRemoval /\ levels = <<>> /\ stage = "app"
    /\ levels' = <<FetchLevel>> /\ stage' = "drain"
    /\ UNCHANGED <<queue, listVars, halted, history>>

(* app_sched_execute from application code: a flash write, while it waits. *)
NestedExecute ==
    /\ AppCode /\ Len(levels) < MaxLevels /\ ops < MaxOps
    /\ levels' = Append(levels, FetchLevel)
    /\ broken' = broken \union ({levels[k].event.id : k \in 1 .. Len(levels)} \ {0})
    /\ ops' = ops + 1
    /\ UNCHANGED <<queue, stage, listVars, halted, accepted, seen>>

\* app_sched_execute takes the oldest event and calls its handler
Fetch ==
    /\ Running /\ levels # <<>> /\ Top.phase = "fetch" /\ queue # <<>>
    /\ queue' = Tail(queue)
    /\ SetTop(IF Head(queue) = ForeignEvent
              THEN [Top EXCEPT !.phase = "call", !.event = ForeignEvent]
              ELSE ScanLevel(Head(queue)))
    /\ UNCHANGED <<stage, listVars, halted, history>>

\* and returns when the queue is empty
ExecuteReturns ==
    /\ Running /\ levels # <<>> /\ Top.phase = "fetch" /\ queue = <<>>
    /\ levels' = SubSeq(levels, 1, Len(levels) - 1)
    /\ stage' = IF Len(levels) = 1 /\ stage = "drain" THEN "tick" ELSE stage
    /\ UNCHANGED <<queue, listVars, halted, history>>

\* applicationTick sends EVENT_TICK if anyone listens, then waits
SendTick ==
    /\ Running /\ levels = <<>> /\ stage = "tick"
    /\ stage' = "app"
    /\ levels' = IF HasActiveListeners(Tick) THEN <<ScanLevel(TickEvent)>> ELSE <<>>
    /\ UNCHANGED <<queue, listVars, halted, history>>

Scanning == Running /\ levels # <<>> /\ Top.phase = "scan"

(* One iteration of sendEvent: the entry is passed over ...                *)
Skip ==
    /\ Scanning /\ Top.index <= Len(listeners)
    /\ ~Matches(listeners[Top.index], Top.event.code)
    /\ SetTop([Top EXCEPT !.index = @ + 1])
    /\ UNCHANGED <<queue, stage, listVars, halted, history>>

(* ... or its listener is called.                                          *)
Call ==
    /\ Scanning /\ Top.index <= Len(listeners)
    /\ Matches(listeners[Top.index], Top.event.code)
    /\ SetTop([Top EXCEPT !.phase = "call"])
    /\ seen' = IF Top.event = TickEvent THEN seen
               ELSE [seen EXCEPT ![listeners[Top.index].listener] = Append(@, Top.event.id)]
    /\ UNCHANGED <<queue, stage, listVars, halted, accepted, broken, ops>>

\* the event is sent to the remaining listeners only, the last one left out
Return_LeavesLast ==
    /\ AppCode /\ levels # <<>>
    /\ SetTop(IF Top.event = ForeignEvent THEN FetchLevel
              ELSE [Top EXCEPT !.phase = "scan",
                               !.index = IF @ + 1 = Len(listeners) THEN @ + 2 ELSE @ + 1])
    /\ UNCHANGED <<queue, stage, listVars, halted, history>>

(* The handler returns.                                                    *)
Return ==
    /\ AppCode /\ levels # <<>>
    /\ SetTop(IF Top.event = ForeignEvent THEN FetchLevel
              ELSE [Top EXCEPT !.phase = "scan", !.index = @ + 1])
    /\ UNCHANGED <<queue, stage, listVars, halted, history>>

(* The end of the list.                                                    *)
ScanEnds ==
    /\ Scanning /\ Top.index > Len(listeners)
    /\ IF Top.event = TickEvent THEN levels' = <<>> ELSE SetTop(FetchLevel)
    /\ UNCHANGED <<queue, stage, listVars, halted, history>>

-----------------------------------------------------------------------------
Remove == SearchAgain \/ RemoveShift \/ RemoveLoopEnds

Dispatch == \/ ProcessEvent \/ Fetch \/ ExecuteReturns \/ SendTick
            \/ Skip \/ Call \/ Return \/ ScanEnds

Operation ==
    \/ \E l \in Listeners, c \in Codes \union {Tick} :
          \/ AddListener(l, c)
          \/ StartRemovePair(l, c)
          \/ \E enable \in BOOLEAN : EnableListener(l, c, enable)
    \/ \E l \in Listeners : StartRemoveAll(l)
    \/ NestedExecute

Next == \/ Operation
        \/ Remove
        \/ Dispatch
        \/ \E c \in Codes : QueueEvent(c)
        \/ QueueForeign

(* The main thread keeps running: handlers return, loops go on.            *)
Fairness == WF_vars(Remove) /\ WF_vars(Dispatch)

Safety == Init /\ [][Next]_vars

Spec == Safety /\ Fairness

-----------------------------------------------------------------------------
(* Properties.                                                             *)

Times(l, id) == Cardinality({i \in 1 .. Len(seen[l]) : seen[l][i] = id})

(* When sendEvent has been through the list, each listener whose entry was *)
(* there from the start, untouched, has been called: at least once, and no *)
(* more often than it has entries for the code, although listeners and     *)
(* nested dispatches change the list under the loop.                       *)
EveryListenerServed ==
    \A k \in 1 .. Len(levels) :
        levels[k].phase = "scan" /\ levels[k].index > Len(listeners) =>
            \A l \in levels[k].due : levels[k].event # TickEvent =>
                Times(l, levels[k].event.id) \in
                    1 .. Cardinality({i \in 1 .. Len(listeners) :
                                        IsPair(listeners[i], l, levels[k].event.code)})

(* A listener sees events in the order they were queued, except for those  *)
(* whose dispatch was interrupted by a nested run of the scheduler.        *)
SeenInOrder ==
    \A l \in Listeners : \A i, j \in 1 .. Len(seen[l]) :
        i < j /\ seen[l][i] > seen[l][j] => seen[l][j] \in broken

Queued == {queue[k].id : k \in 1 .. Len(queue)} \ {0}

(* No accepted event is lost or dispatched twice: the queue holds the      *)
(* youngest accepted events, once each and in order; those in dispatch are *)
(* older, and the more deeply nested the younger.                          *)
NoEventLost ==
    ~halted =>
    /\ \E fetched \in 0 .. accepted :
          /\ Queued = fetched + 1 .. accepted
          /\ \A k \in 1 .. Len(levels) : levels[k].event.id <= fetched
    /\ \A i, j \in 1 .. Len(queue) :
          i < j /\ queue[i].id # 0 /\ queue[j].id # 0 => queue[i].id < queue[j].id
    /\ \A k \in 1 .. Len(levels) : \A m \in 1 .. k - 1 :
          levels[k].event.id # 0 => levels[m].event.id < levels[k].event.id

(* Each accepted event is dispatched once, and seen in order.              *)
DispatchedOnceInOrder == NoEventLost /\ SeenInOrder

(* Once removeListener(listener) has returned, no entry of the listener is *)
(* left, whatever else is removed later: a destroyed listener is never     *)
(* called (Button's destructor relies on it).                              *)
GoneStaysGone == \A l \in gone : ~Registered(l)

(* An accepted event leaves the queue, unless an error check stops the     *)
(* system or a removal never returns.                                      *)
EventuallyDispatched ==
    []<>(removal = NoRemoval) =>
        \A id \in 1 .. MaxEvents :
            (\E k \in 1 .. Len(queue) : queue[k].id = id)
                ~> (halted \/ \A k \in 1 .. Len(queue) : queue[k].id # id)

(* "Remove (event, listener) pair (all occurrences).  Other listeners with *)
(* the same function or event code will not be affected."                  *)
OthersUnaffected ==
    [][removal.kind = "pair" /\ removal' = NoRemoval =>
          LET Other(e) == ~IsPair(e, removal.listener, removal.code)
          IN  SelectSeq(listeners', Other) = SelectSeq(removal.before, Other)]_vars

(* "Remove all occurrences of a listener ... returns number removed":      *)
(* removeListener returns.                                                 *)
RemovalReturns == removal # NoRemoval ~> removal = NoRemoval \/ halted
=============================================================================
