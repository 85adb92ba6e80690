------------------------------ MODULE Peripheral ------------------------------
(***************************************************************************)
(* The template application as a Bluetooth peripheral: BLETransceiver and  *)
(* the Nordic UART service (src/communication/ble) over the SoftDevice,    *)
(* and the LedActivator and BtListener of src/template_application.cpp.    *)
(*                                                                         *)
(* The SoftDevice changes the link by itself, and tells the main thread    *)
(* with an event that is dispatched later.  Until then the transceiver's   *)
(* own flags are out of date, and a button press that is dispatched first  *)
(* makes a call that the SoftDevice may refuse.                            *)
(*                                                                         *)
(* A handler runs to completion in the main thread and depends on the      *)
(* SoftDevice through one call: it is one step.  The behaviour starts when *)
(* application_setup has returned.                                         *)
(***************************************************************************)
EXTENDS Naturals, Sequences, AppTimer

CONSTANTS MaxEvents,   \* bound: SoftDevice events in one behaviour
          MaxPresses,  \* bound: presses of the button in one behaviour
          MaxQueue     \* bound: scheduled events that wait at a time

ASSUME PeripheralAssumption ==
    MaxEvents \in Nat /\ MaxPresses \in Nat /\ MaxQueue \in Nat

VARIABLES
    \* the SoftDevice
    link,           \* the radio
    events,         \* BLE events that the main thread has not fetched yet
    notifiable,     \* the peer's CCCD: it wants notifications
    measuring,      \* RSSI changes are reported
    \* the scheduler
    queue,          \* scheduled events
    draining,       \* the main thread is fetching BLE events
    \* BLETransceiver and the UART service
    connHandle,     \* u16_connHandle
    isAdvertising,  \* b_isAdvertising
    nusHandle,      \* the service's conn_handle
    notify,         \* is_notification_enabled
    \* the application
    ledOn, rssi,
    ledTimer,       \* the Timer that blinks the LED
    \* the environment
    halted,         \* "no", or the call whose error check stopped the system
    signals,        \* SoftDevice events so far
    presses         \* presses so far

radioVars  == <<link, events, notifiable, measuring, signals>>
schedVars  == <<queue, draining>>
nusVars    == <<nusHandle, notify>>
bleVars    == <<connHandle, isAdvertising, nusVars>>
appVars    == <<ledOn, rssi, ledTimer>>
vars == <<radioVars, schedVars, bleVars, appVars, halted, presses>>

\* BLE events.  REQUEST is a question that the stack wants answered
\* (SEC_PARAMS_REQUEST, SEC_INFO_REQUEST, SYS_ATTR_MISSING); PARAMS is the
\* parameter update after which the negotiation has failed.
BleEvents == {"CONNECTED", "DISCONNECTED", "REQUEST", "PARAMS",
              "NOTIFY_ON", "NOTIFY_OFF", "RSSI"}

TypeOK ==
    /\ link \in {"idle", "advertising", "connected", "disconnecting"}
    /\ events \in Seq(BleEvents)
    /\ notifiable \in BOOLEAN /\ measuring \in BOOLEAN
    /\ queue \in Seq({"softdevice", "short", "medium", "timeout"})
    /\ draining \in BOOLEAN
    /\ connHandle \in {"invalid", "link"} /\ nusHandle \in {"invalid", "link"}
    /\ isAdvertising \in BOOLEAN /\ notify \in BOOLEAN
    /\ ledOn \in BOOLEAN /\ rssi \in {"unknown", "measured"}
    /\ ledTimer \in TimerType
    /\ halted \in {"no", "advertise", "stop", "disconnect", "send", "reply",
                   "params", "cancel"}
    /\ signals \in 0 .. MaxEvents /\ presses \in 0 .. MaxPresses

Init ==
    /\ link = "advertising" /\ events = <<>> /\ notifiable = FALSE
    /\ measuring = FALSE /\ queue = <<>> /\ draining = FALSE
    /\ connHandle = "invalid" /\ isAdvertising = TRUE
    /\ nusHandle = "invalid" /\ notify = FALSE
    /\ ledOn = FALSE /\ rssi = "unknown" /\ ledTimer = PeriodicNotify(NewTimer)
    /\ halted = "no" /\ signals = 0 /\ presses = 0

Running == halted = "no"

LinkUp == link \in {"connected", "disconnecting"}

-----------------------------------------------------------------------------
(* The SoftDevice.                                                         *)

(* An event is kept for the main thread, and SWI2_IRQHandler schedules its *)
(* collection.                                                             *)
Signal(e) ==
    /\ Running /\ signals < MaxEvents /\ Len(queue) < MaxQueue
    /\ signals' = signals + 1
    /\ events' = Append(events, e)
    /\ queue' = Append(queue, "softdevice")
    /\ UNCHANGED <<draining, bleVars, appVars, halted, presses>>

PeerConnects ==
    /\ link = "advertising"
    /\ link' = "connected" /\ notifiable' = FALSE /\ measuring' = FALSE
    /\ Signal("CONNECTED")

LinkLost ==
    /\ LinkUp
    /\ link' = "idle" /\ notifiable' = FALSE /\ measuring' = FALSE
    /\ Signal("DISCONNECTED")

PeerWritesCccd ==
    /\ LinkUp
    /\ \E on \in BOOLEAN :
          /\ notifiable' = on
          /\ Signal(IF on THEN "NOTIFY_ON" ELSE "NOTIFY_OFF")
    /\ UNCHANGED <<link, measuring>>

StackAsks ==
    /\ LinkUp
    /\ \E e \in {"REQUEST", "PARAMS"} : Signal(e)
    /\ UNCHANGED <<link, notifiable, measuring>>

RssiChanged ==
    /\ LinkUp /\ measuring
    /\ Signal("RSSI")
    /\ UNCHANGED <<link, notifiable, measuring>>

SoftDevice == PeerConnects \/ LinkLost \/ PeerWritesCccd \/ StackAsks \/ RssiChanged

-----------------------------------------------------------------------------
(* The calls into the SoftDevice.                                          *)

\* advertise, as the application uses it: then the LED blinks
Advertise ==
    IF link = "idle"
    THEN /\ link' = "advertising" /\ isAdvertising' = TRUE
         /\ ledTimer' = PeriodicNotify(ledTimer)
         /\ UNCHANGED halted
    ELSE halted' = "advertise" /\ UNCHANGED <<link, isAdvertising, ledTimer>>

\* the flag is not cleared
StopAdvertisement_KeepsFlag ==
    /\ IF link = "advertising"
       THEN link' = "idle" /\ UNCHANGED halted
       ELSE halted' = "stop" /\ UNCHANGED link
    /\ UNCHANGED isAdvertising

StopAdvertisement ==
    IF link = "advertising"
    THEN link' = "idle" /\ isAdvertising' = FALSE /\ UNCHANGED halted
    ELSE halted' = "stop" /\ UNCHANGED <<link, isAdvertising>>

(* disconnect: a disconnection in progress is reported to the caller.  The *)
(* handle of a lost link is an invalid state or an invalid handle.         *)
Disconnect ==
    \/ link = "connected" /\ link' = "disconnecting" /\ UNCHANGED halted
    \/ link = "disconnecting" /\ UNCHANGED <<link, halted>>
    \/ ~LinkUp /\ halted' \in {"no", "disconnect"} /\ UNCHANGED link

(* ble_nus_send_string: its own checks, then what the SoftDevice says of   *)
(* its buffers, of the peer's CCCD and of the handle.                      *)
NusSendString ==
    CASE nusHandle = "invalid" \/ ~notify -> {"INVALID_STATE"}
      [] nusHandle # "invalid" /\ notify /\ LinkUp ->
            {"SUCCESS", "NO_TX_BUFFERS", "SYS_ATTR_MISSING", "INVALID_STATE"}
      [] nusHandle # "invalid" /\ notify /\ ~LinkUp -> {"INVALID_CONN_HANDLE"}

(* send: the caller is told of three errors, any other stops the system.   *)
Send ==
    \E answer \in NusSendString :
        halted' = IF answer \in {"SUCCESS", "NO_TX_BUFFERS", "INVALID_STATE",
                                 "SYS_ATTR_MISSING"}
                  THEN "no" ELSE "send"

IsConnected == connHandle # "invalid"

\* startRSSIMeasure, stopRSSIMeasure: nobody looks at what they return
MeasureRssi(on) == measuring' = (on /\ LinkUp)

-----------------------------------------------------------------------------
(* LedActivator.                                                           *)

ShortPress ==
    /\ ledOn' = ~ledOn
    /\ IF IsConnected THEN Send ELSE UNCHANGED halted
    /\ UNCHANGED <<radioVars, bleVars, rssi, ledTimer>>

MediumPress ==
    /\ IF IsConnected
       THEN Disconnect /\ UNCHANGED <<isAdvertising, ledTimer>>
       ELSE IF isAdvertising
            THEN StopAdvertisement /\ UNCHANGED ledTimer
            ELSE Advertise
    /\ UNCHANGED <<events, notifiable, measuring, signals, connHandle, nusVars,
                   ledOn, rssi>>

\* Timer::timerElapsed and LedActivator::timerElapsed
Timeout ==
    /\ ledOn' = IF Notifies(ledTimer) /\ isAdvertising THEN ~ledOn ELSE ledOn
    /\ UNCHANGED <<radioVars, bleVars, rssi, ledTimer, halted>>

-----------------------------------------------------------------------------
(* bleEvtDispatch: the UART service, the transceiver, and BtListener.      *)

\* on_connect, on_disconnect
NusHandleAfter(e) ==
    CASE e = "CONNECTED" -> "link" [] e = "DISCONNECTED" -> "invalid" [] OTHER -> nusHandle

\* on_write of the CCCD, whose value survives a disconnection
NotifyAfter(e) == IF e \in {"NOTIFY_ON", "NOTIFY_OFF"} THEN e = "NOTIFY_ON" ELSE notify

\* ble_nus_on_ble_evt
NusOnBleEvt(e) == nusHandle' = NusHandleAfter(e) /\ notify' = NotifyAfter(e)

\* the connection's handle is not taken
OnConnected_NoHandle ==
    /\ isAdvertising' = FALSE
    /\ ledTimer' = Cancel(ledTimer)
    /\ halted' = IF CanCancel(ledTimer) THEN "no" ELSE "cancel"
    /\ ledOn' = FALSE
    /\ MeasureRssi(TRUE)
    /\ UNCHANGED <<link, notifiable, rssi, connHandle>>

(* onConnection                                                            *)
OnConnected ==
    /\ connHandle' = "link" /\ isAdvertising' = FALSE
    /\ ledTimer' = Cancel(ledTimer)
    /\ halted' = IF CanCancel(ledTimer) THEN "no" ELSE "cancel"
    /\ ledOn' = FALSE
    /\ MeasureRssi(TRUE)
    /\ UNCHANGED <<link, notifiable, rssi>>

\* the listener does not advertise again
OnDisconnected_Silent ==
    /\ connHandle' = "invalid"
    /\ ledOn' = FALSE /\ MeasureRssi(FALSE) /\ rssi' = "unknown"
    /\ UNCHANGED <<link, isAdvertising, ledTimer, halted, notifiable>>

\* the last RSSI is kept
OnDisconnected_KeepsRssi ==
    /\ connHandle' = "invalid"
    /\ ledOn' = FALSE /\ MeasureRssi(FALSE)
    /\ Advertise
    /\ UNCHANGED <<notifiable, rssi>>

(* onDisconnection                                                         *)
OnDisconnected ==
    /\ connHandle' = "invalid"
    /\ ledOn' = FALSE /\ MeasureRssi(FALSE) /\ rssi' = "unknown"
    /\ Advertise
    /\ UNCHANGED notifiable

\* the answers to the stack, under APP_ERROR_CHECK
OnRequest ==
    /\ halted' = IF LinkUp THEN "no" ELSE "reply"
    /\ UNCHANGED <<link, notifiable, measuring, connHandle, isAdvertising, appVars>>

(* onConnParamsEvt: disconnect, and nothing but success will do            *)
OnParamsFailed ==
    /\ IF link = "connected"
       THEN link' = "disconnecting" /\ UNCHANGED halted
       ELSE halted' = "params" /\ UNCHANGED link
    /\ UNCHANGED <<notifiable, measuring, connHandle, isAdvertising, appVars>>

\* a write to the service is none of the transceiver's business
OnWrite ==
    UNCHANGED <<link, notifiable, measuring, connHandle, isAdvertising, appVars, halted>>

\* a value that rssi cannot hold
OnRssi_Raw ==
    /\ rssi' = "raw"
    /\ UNCHANGED <<link, notifiable, measuring, connHandle, isAdvertising, ledOn, ledTimer, halted>>

OnRssi ==
    /\ rssi' = "measured"
    /\ UNCHANGED <<link, notifiable, measuring, connHandle, isAdvertising, ledOn, ledTimer, halted>>

OnBleEvt(e) ==
    CASE e = "CONNECTED"    -> OnConnected
      [] e = "DISCONNECTED" -> OnDisconnected
      [] e = "REQUEST"      -> OnRequest
      [] e = "PARAMS"       -> OnParamsFailed
      [] e = "RSSI"         -> OnRssi
      [] OTHER              -> OnWrite

BleEvtDispatch(e) == NusOnBleEvt(e) /\ OnBleEvt(e)

-----------------------------------------------------------------------------
(* The scheduler.                                                          *)

(* The button reports a press; the LED's application timer fires.          *)
Press ==
    /\ Running /\ presses < MaxPresses /\ Len(queue) < MaxQueue
    /\ \E kind \in {"short", "medium"} : queue' = Append(queue, kind)
    /\ presses' = presses + 1
    /\ UNCHANGED <<draining, radioVars, bleVars, appVars, halted>>

TimerFires ==
    /\ Running /\ ledTimer.running /\ Len(queue) < MaxQueue
    /\ queue' = Append(queue, "timeout")
    /\ UNCHANGED <<draining, radioVars, bleVars, appVars, halted, presses>>

(* The main loop takes the oldest scheduled event.                         *)
Execute ==
    /\ Running /\ ~draining /\ queue # <<>>
    /\ queue' = Tail(queue)
    /\ CASE Head(queue) = "short"      -> ShortPress /\ UNCHANGED draining
         [] Head(queue) = "medium"     -> MediumPress /\ UNCHANGED draining
         [] Head(queue) = "timeout"    -> Timeout /\ UNCHANGED draining
         [] Head(queue) = "softdevice" ->
                draining' = TRUE /\ UNCHANGED <<radioVars, bleVars, appVars, halted>>
    /\ UNCHANGED presses

(* intern_softdevice_events_execute: one event after the other, until none *)
(* is left.                                                                *)
FetchBle ==
    /\ Running /\ draining /\ events # <<>>
    /\ events' = Tail(events)
    /\ BleEvtDispatch(Head(events))
    /\ UNCHANGED <<signals, schedVars, presses>>

NoMoreBle ==
    /\ Running /\ draining /\ events = <<>>
    /\ draining' = FALSE
    /\ UNCHANGED <<queue, radioVars, bleVars, appVars, halted, presses>>

MainThread == Execute \/ FetchBle \/ NoMoreBle

Next == SoftDevice \/ Press \/ TimerFires \/ MainThread

Safety == Init /\ [][Next]_vars

\* the main loop keeps running the scheduler
Spec == Safety /\ WF_vars(MainThread)

-----------------------------------------------------------------------------
(* Properties.                                                             *)

Pending(e) == \E i \in 1 .. Len(events) : events[i] = e

(* The transceiver's flags, once corrected by the link events that are     *)
(* still to be dispatched, say what the SoftDevice does; and these events  *)
(* are at most one CONNECTED followed by at most one DISCONNECTED.         *)
FlagsFollowLink ==
    /\ LinkUp <=> (connHandle = "link" \/ Pending("CONNECTED")) /\ ~Pending("DISCONNECTED")
    /\ link = "advertising" <=> isAdvertising /\ ~Pending("CONNECTED")
    /\ Pending("CONNECTED") => connHandle = "invalid" /\ isAdvertising
    /\ \A i, j \in 1 .. Len(events) :
          i < j /\ {events[i], events[j]} \subseteq {"CONNECTED", "DISCONNECTED"}
              => events[i] = "CONNECTED" /\ events[j] = "DISCONNECTED"

(* An error check stops the system only when the call raced with a link    *)
(* event that had not been dispatched yet (or, in the negotiation of the   *)
(* connection's parameters, with a disconnection under way).  The checks   *)
(* in advertise, which the button and the disconnection both reach, and in *)
(* Timer::cancel never do: advertising is never started twice nor over a   *)
(* connection.                                                             *)
OnlyRacesHalt ==
    /\ halted \notin {"advertise", "cancel"}
    /\ halted = "stop" => Pending("CONNECTED")
    /\ halted \in {"disconnect", "send", "reply"} => Pending("DISCONNECTED")
    /\ halted = "params" => Pending("DISCONNECTED") \/ link = "disconnecting"

(* The LED's timer runs whenever the device advertises and never while it  *)
(* is connected, although its timeouts queue up behind the link events.    *)
LedTimerFollowsLink ==
    /\ isAdvertising => ledTimer.active /\ ledTimer.running
    /\ connHandle = "link" => ~ledTimer.active /\ ~ledTimer.running

(* The RSSI that the application reports is one of the present connection. *)
RssiOfThisLink == rssi = "measured" => connHandle = "link"

(* Once its events are dispatched, a peer that wants notifications gets    *)
(* them: the service's copy of the CCCD, which survives disconnections,    *)
(* never withholds one.                                                    *)
NotificationsReachPeer ==
    events = <<>> /\ connHandle = "link" /\ notifiable => notify

(* What the handlers keep of a connection is never that of another one.    *)
StateOfThisLink == LedTimerFollowsLink /\ RssiOfThisLink /\ NotificationsReachPeer

(* After each lost connection the device advertises again.                 *)
AdvertisesAgain == Pending("DISCONNECTED") ~> link = "advertising" \/ ~Running
=============================================================================
