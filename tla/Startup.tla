-------------------------------- MODULE Startup --------------------------------
(***************************************************************************)
(* From reset to the main loop: the static constructors, main              *)
(* (src/application/application_init.cpp), application_setup               *)
(* (src/template_application.cpp) and the initialisation of the transceiver*)
(* (src/communication/ble), while the interrupts that have been enabled    *)
(* put events into the scheduler's queue.                                  *)
(*                                                                         *)
(* The constructors of one source file run in its order; which file comes  *)
(* first is the linker's choice.                                           *)
(***************************************************************************)
EXTENDS Naturals, Sequences, FiniteSets

CONSTANTS QueueSize,   \* SCHEDULER_QUEUE_SIZE
          MaxEdges,    \* bound: edges of the button
          MaxRadio     \* bound: events of the SoftDevice

ASSUME BootAssumption == QueueSize \in Nat

VARIABLES bootStep,    \* the next step of the start
          eventManagerFirst, \* the linker's choice
          listed,      \* the listeners in the event manager's list
          sched,       \* the scheduler's queue; Unready before APP_SCHED_INIT
          armed,       \* the button's interrupt is attached
          softdevice,  \* what the SoftDevice has been given: a set
          rtc,         \* what the application timer has been given: a set
          listening,   \* p_transceiverListener is set
          bootHalt,    \* the error check that has stopped the system, or "no"
          edges, radio, \* edges and SoftDevice events so far
          heard        \* what the main loop has dispatched, with its listener

bootVars == <<bootStep, eventManagerFirst, listed, sched, armed, softdevice, rtc,
              listening, bootHalt, edges, radio, heard>>

Unready == [size |-> 0, events |-> <<>>]

StartupInit ==
    /\ bootStep = "constructors" /\ eventManagerFirst \in BOOLEAN
    /\ listed = <<>> /\ sched = Unready /\ armed = FALSE
    /\ softdevice = {} /\ rtc = {} /\ listening = FALSE
    /\ bootHalt = "no" /\ edges = 0 /\ radio = 0 /\ heard = <<>>

\* the steps of main, application_setup and BLETransceiver::init follow each other
Boots(step, next) == bootHalt = "no" /\ bootStep = step /\ bootStep' = next

-----------------------------------------------------------------------------
(* The static constructors.                                                *)

(* EventManager: an empty list of listeners, and an empty queue.           *)
ConstructEventManager ==
    /\ \/ eventManagerFirst /\ Boots("constructors", "button")
       \/ ~eventManagerFirst /\ Boots("eventManager", "lfclk")
    /\ listed' = <<>>
    /\ sched' = [size |-> QueueSize, events |-> <<>>]
    /\ UNCHANGED <<eventManagerFirst, armed, softdevice, rtc, listening, bootHalt,
                   edges, radio, heard>>

(* Button: it is a listener, and then its interrupt is attached.           *)
ConstructButton ==
    /\ \/ eventManagerFirst /\ Boots("button", "lfclk")
       \/ ~eventManagerFirst /\ Boots("constructors", "eventManager")
    /\ listed' = Append(listed, "button")
    /\ armed' = TRUE
    /\ UNCHANGED <<eventManagerFirst, sched, softdevice, rtc, listening, bootHalt,
                   edges, radio, heard>>

-----------------------------------------------------------------------------
(* Interrupts.                                                             *)

\* nobody looks at what app_sched_event_put returns
SchedPut_Unchecked(e) ==
    /\ IF Len(sched.events) < sched.size
       THEN sched' = [sched EXCEPT !.events = Append(@, e)] ELSE UNCHANGED sched
    /\ UNCHANGED bootHalt

(* app_sched_event_put under APP_ERROR_CHECK: a queue that is not ready has*)
(* room for no event.                                                      *)
SchedPut(e) ==
    IF Len(sched.events) < sched.size
    THEN sched' = [sched EXCEPT !.events = Append(@, e)] /\ UNCHANGED bootHalt
    ELSE bootHalt' = "queue" /\ UNCHANGED sched

(* buttonISR queues an event if it has a listener.                         *)
ButtonEdge ==
    /\ bootHalt = "no" /\ armed /\ edges < MaxEdges
    /\ edges' = edges + 1
    /\ IF \E i \in 1 .. Len(listed) : listed[i] = "button"
       THEN SchedPut("edge") ELSE UNCHANGED <<sched, bootHalt>>
    /\ UNCHANGED <<bootStep, eventManagerFirst, listed, armed, softdevice, rtc, listening,
                   radio, heard>>

(* A peer connects; SWI2_IRQHandler schedules the collection of the event. *)
RadioEvent ==
    /\ bootHalt = "no" /\ {"swi2", "advertising"} \subseteq softdevice /\ radio < MaxRadio
    /\ radio' = radio + 1
    /\ SchedPut("radio")
    /\ UNCHANGED <<bootStep, eventManagerFirst, listed, armed, softdevice, rtc, listening,
                   edges, heard>>

-----------------------------------------------------------------------------
(* main.                                                                   *)

\* lfclk_init writes the clock's registers, the SoftDevice's once it is enabled
LfclkInit ==
    /\ Boots("lfclk", "timersInit")
    /\ rtc' = rtc \union {"lfclk"}
    /\ UNCHANGED <<eventManagerFirst, listed, sched, armed, softdevice, listening,
                   bootHalt, edges, radio, heard>>

\* timers_init, and timers_start, whose timer may only start when they are initialised
TimersInit ==
    /\ Boots("timersInit", "timersStart")
    /\ rtc' = rtc \union {"timers"}
    /\ UNCHANGED <<eventManagerFirst, listed, sched, armed, softdevice, listening,
                   bootHalt, edges, radio, heard>>

TimersStart ==
    /\ Boots("timersStart", "stack")
    /\ IF "timers" \in rtc THEN rtc' = rtc \union {"running"} /\ UNCHANGED bootHalt
                           ELSE bootHalt' = "timer" /\ UNCHANGED rtc
    /\ UNCHANGED <<eventManagerFirst, listed, sched, armed, softdevice, listening,
                   edges, radio, heard>>

-----------------------------------------------------------------------------
(* application_setup.  Any call of the SoftDevice may be refused for want  *)
(* of memory, which an error check turns into a stop.                      *)

\* the SoftDevice must have what it needs; then it has the items, too
Gives(items, needs, check) ==
    IF needs \subseteq softdevice
    THEN \/ softdevice' = softdevice \union items /\ UNCHANGED bootHalt
         \/ bootHalt' = check /\ UNCHANGED softdevice
    ELSE bootHalt' = "sequence" /\ UNCHANGED softdevice

Asks(step, next, items, needs) ==
    /\ Boots(step, next)
    /\ Gives(items, needs, step)
    /\ UNCHANGED <<eventManagerFirst, listed, sched, armed, rtc, listening, edges, radio, heard>>

(* BLETransceiver::init.                                                   *)

\* softdevice_handler_init: events are scheduled from now on
SoftdeviceHandlerInit == Asks("stack", "ble", {"enabled", "swi2"}, {})

BleEnable == Asks("ble", "handlers", {"ble"}, {"enabled"})

\* softdevice_ble_evt_handler_set and softdevice_sys_evt_handler_set
HandlersSet ==
    /\ Boots("handlers", "gap")
    /\ softdevice' = softdevice \union {"handlers"}
    /\ UNCHANGED <<eventManagerFirst, listed, sched, armed, rtc, listening, bootHalt, edges,
                   radio, heard>>

\* the name and the connection parameters that the device prefers
GapParamsInit == Asks("gap", "service", {"gap"}, {"ble"})

\* the UUID and the service
NusInit == Asks("service", "rxChar", {"uuid", "service"}, {"ble"})

RxCharAdd == Asks("rxChar", "txChar", {"rxChar"}, {"uuid", "service"})

TxCharAdd == Asks("txChar", "advdata", {"txChar"}, {"uuid", "service"})

ServicesInit == NusInit \/ RxCharAdd \/ TxCharAdd

\* the advertisement has the name, the scan response the service's UUID
AdvertisingInit == Asks("advdata", "connParams", {"advdata"}, {"gap", "uuid"})

\* the negotiation of the connection parameters creates an application timer
ConnParamsInit ==
    LET needs == IF "timers" \in rtc THEN {"gap"} ELSE {"gap", "timers"}
    IN  Asks("connParams", "secParams", {"connParams"}, needs)

SecParamsInit ==
    /\ Boots("secParams", "session")
    /\ softdevice' = softdevice \union {"secParams"}
    /\ UNCHANGED <<eventManagerFirst, listed, sched, armed, rtc, listening, bootHalt, edges,
                   radio, heard>>

\* AltSoftSerial::begin opens the radio session
SerialBegin == Asks("session", "listener", {"session"}, {"enabled"})

RegisterListener ==
    /\ Boots("listener", "advertising")
    /\ listening' = TRUE
    /\ UNCHANGED <<eventManagerFirst, listed, sched, armed, softdevice, rtc, bootHalt,
                   edges, radio, heard>>

StartAdvertising == Asks("advertising", "add", {"advertising"}, {"advdata"})

AddListeners ==
    /\ Boots("add", "loop")
    /\ listed' = Append(listed, "ledActivator")
    /\ UNCHANGED <<eventManagerFirst, sched, armed, softdevice, rtc, listening,
                   bootHalt, edges, radio, heard>>

\* what the handlers of a connection and of the stack's questions rely on
Ready == listening /\ {"handlers", "connParams", "secParams", "rxChar", "txChar"} \subseteq softdevice

(* application_loop: the scheduler hands out an event.                     *)
LoopExecutes ==
    /\ Boots("loop", "loop")
    /\ sched.events # <<>>
    /\ sched' = [sched EXCEPT !.events = Tail(@)]
    /\ heard' = Append(heard,
          CASE Head(sched.events) = "edge" ->
                 IF \E i \in 1 .. Len(listed) : listed[i] = "button" THEN "edge" ELSE "nobody"
            [] OTHER ->
                 IF Ready THEN "radio" ELSE "nobody")
    /\ UNCHANGED <<eventManagerFirst, listed, armed, softdevice, rtc, listening,
                   bootHalt, edges, radio>>

-----------------------------------------------------------------------------
StartupNext ==
    \/ ConstructEventManager \/ ConstructButton
    \/ ButtonEdge \/ RadioEvent
    \/ LfclkInit \/ TimersInit \/ TimersStart
    \/ SoftdeviceHandlerInit \/ BleEnable \/ HandlersSet \/ GapParamsInit
    \/ ServicesInit \/ AdvertisingInit \/ ConnParamsInit \/ SecParamsInit
    \/ SerialBegin
    \/ RegisterListener \/ StartAdvertising \/ AddListeners \/ LoopExecutes

StartupSpec == StartupInit /\ [][StartupNext]_bootVars

-----------------------------------------------------------------------------
(* Properties.                                                             *)

Count(s, e) == Cardinality({i \in 1 .. Len(s) : s[i] = e})

(* If the event manager is constructed before the button, every edge from  *)
(* the moment the interrupt is attached is heard by the button, in the     *)
(* main loop or already in the queue, until the queue of the start         *)
(* overflows; if it is constructed after, the button is never heard again, *)
(* and an edge that comes before stops the system.  Either way each step   *)
(* finds what it needs of the steps before, and an event of the radio finds*)
(* the transceiver's listener.                                             *)
StartsInOrder ==
    /\ bootHalt \notin {"sequence", "timer"}
    /\ bootHalt = "queue" => edges + radio > QueueSize \/ ~eventManagerFirst
    /\ \A i \in 1 .. Len(heard) : heard[i] # "nobody"
    /\ bootHalt # "queue" =>
          Count(heard, "radio") + Count(sched.events, "radio") = radio
    /\ eventManagerFirst /\ bootHalt # "queue" =>
          Count(heard, "edge") + Count(sched.events, "edge") = edges
    /\ ~eventManagerFirst /\ bootStep \notin {"constructors", "eventManager"} =>
          (\A i \in 1 .. Len(listed) : listed[i] # "button") /\ Count(heard, "edge") = 0
=============================================================================
