--------------------------------- MODULE Analog ---------------------------------
(***************************************************************************)
(* The converter and the pulse widths of src/arduino/core/wiring_analog.c: *)
(* conversions that the main thread waits for (analogRead) or that an      *)
(* interrupt answers through the scheduler (analogAsyncRead), and the value*)
(* that analogWrite gives to TIMER1.                                       *)
(*                                                                         *)
(* A conversion is known by its number, and so is its result.              *)
(***************************************************************************)
EXTENDS Integers, Sequences

CONSTANTS MaxReads,     \* bound: conversions in one behaviour
          AdcQueueSize, \* places that other events leave in the scheduler's queue
          PwmValues     \* the values written by analogWrite that are looked at

ASSUME AnalogAssumption == PwmValues \subseteq Nat

NoCallback == 0

VARIABLES adcCb,       \* onADCReadCb: the request, or NoCallback
          adcEnd,      \* EVENTS_END
          adcInten,    \* the END interrupt is enabled in the converter
          adcNvic,     \* and in the interrupt controller
          adcBusy,     \* the conversion under way, or 0
          adcResult,   \* RESULT
          adcCall,     \* where analogAsyncRead is, for the request adcCb
          adcQueue,    \* events that the interrupt has scheduled
          adcHalt,     \* an error check has stopped the system
          adcSeen,     \* requests so far, answers, what was dropped, analogReads
          writeBits    \* analogWriteResolution_bit

adcVars == <<adcCb, adcEnd, adcInten, adcNvic, adcBusy, adcResult, adcCall, adcQueue,
             adcHalt, adcSeen>>
analogVars == <<adcVars, writeBits>>

AnalogInit ==
    /\ adcCb = NoCallback /\ adcEnd = FALSE /\ adcInten = FALSE /\ adcNvic = FALSE
    /\ adcBusy = 0 /\ adcResult = 0 /\ adcCall = "none" /\ adcQueue = <<>>
    /\ adcHalt = "no" /\ writeBits = 8
    /\ adcSeen = [reads |-> 0, answers |-> <<>>, dropped |-> {}, leftover |-> FALSE]

AdcPending == adcEnd /\ adcInten /\ adcNvic

\* the main thread, when no interrupt is pending
AdcMain == adcHalt = "no" /\ ~AdcPending

NewRead == adcSeen.reads + 1

-----------------------------------------------------------------------------
(* analogRead: only one conversion at a time; the event is left set.       *)
AnalogRead ==
    /\ AdcMain /\ adcCall = "none" /\ adcSeen.reads < MaxReads
    /\ IF adcCb # NoCallback
       THEN adcHalt' = "analogRead" /\ UNCHANGED <<adcEnd, adcInten, adcBusy, adcResult, adcSeen>>
       ELSE /\ adcInten' = FALSE /\ adcEnd' = TRUE /\ adcBusy' = 0
            /\ adcResult' = NewRead
            /\ adcSeen' = [adcSeen EXCEPT !.reads = NewRead, !.leftover = TRUE]
            /\ UNCHANGED adcHalt
    /\ UNCHANGED <<adcCb, adcNvic, adcCall, adcQueue, writeBits>>

(* analogAsyncRead.  The callback is registered and the interrupt enabled  *)
(* in the converter,                                                       *)
AsyncRegister ==
    /\ AdcMain /\ adcCall = "none" /\ adcCb = NoCallback /\ adcSeen.reads < MaxReads
    /\ adcCb' = NewRead
    /\ adcSeen' = [adcSeen EXCEPT !.reads = NewRead]
    /\ adcInten' = TRUE
    /\ adcCall' = "registered"
    /\ UNCHANGED <<adcEnd, adcNvic, adcBusy, adcResult, adcQueue, adcHalt, writeBits>>

(* then the event is cleared and IntController_enableIRQ called; an error  *)
(* there stops the system.                                                 *)
AsyncEnable ==
    /\ AdcMain /\ adcCall = "registered"
    /\ adcEnd' = FALSE
    /\ adcNvic' = TRUE
    /\ adcCall' = "enabled"
    /\ UNCHANGED <<adcCb, adcInten, adcBusy, adcResult, adcQueue, adcHalt, adcSeen, writeBits>>

AsyncStart ==
    /\ AdcMain /\ adcCall = "enabled"
    /\ adcEnd' = FALSE
    /\ adcBusy' = adcCb
    /\ adcCall' = "none"
    /\ UNCHANGED <<adcCb, adcInten, adcNvic, adcResult, adcQueue, adcHalt, adcSeen, writeBits>>

ConversionEnds ==
    /\ adcHalt = "no" /\ adcBusy # 0
    /\ adcEnd' = TRUE /\ adcResult' = adcBusy /\ adcBusy' = 0
    /\ UNCHANGED <<adcCb, adcInten, adcNvic, adcCall, adcQueue, adcHalt, adcSeen, writeBits>>

\* the event is not cleared
AdcHandler_KeepsEvent ==
    /\ adcHalt = "no" /\ AdcPending
    /\ adcInten' = FALSE /\ adcBusy' = 0
    /\ adcQueue' = Append(adcQueue, [request |-> adcCb, value |-> adcResult])
    /\ UNCHANGED <<adcCb, adcEnd, adcNvic, adcResult, adcCall, adcHalt, adcSeen, writeBits>>

(* ADC_IRQHandler.  Nobody looks at what app_sched_event_put returns.      *)
AdcHandler ==
    /\ adcHalt = "no" /\ AdcPending
    /\ IF adcCb = NoCallback
       THEN adcHalt' = "handler" /\ UNCHANGED <<adcEnd, adcInten, adcBusy, adcQueue, adcSeen>>
       ELSE /\ adcEnd' = FALSE /\ adcInten' = FALSE /\ adcBusy' = 0
            /\ \/ /\ Len(adcQueue) < AdcQueueSize
                  /\ adcQueue' = Append(adcQueue, [request |-> adcCb, value |-> adcResult])
                  /\ UNCHANGED adcSeen
               \/ /\ adcSeen' = [adcSeen EXCEPT !.dropped = @ \union {adcCb}]
                  /\ UNCHANGED adcQueue
            /\ UNCHANGED adcHalt
    /\ UNCHANGED <<adcCb, adcNvic, adcResult, adcCall, writeBits>>

(* app_adc_evt_get, from the main loop: the callback may ask for more.     *)
AdcDispatch ==
    /\ AdcMain /\ adcCall = "none" /\ adcQueue # <<>>
    /\ adcCb' = NoCallback
    /\ adcSeen' = [adcSeen EXCEPT !.answers = Append(@, Head(adcQueue))]
    /\ adcQueue' = Tail(adcQueue)
    /\ UNCHANGED <<adcEnd, adcInten, adcNvic, adcBusy, adcResult, adcCall, adcHalt, writeBits>>

-----------------------------------------------------------------------------
(* analogWriteResolution and analogWrite.                                  *)

AnalogWriteResolution ==
    /\ adcSeen.reads = 0   \* bound: before the first conversion
    /\ writeBits' \in 1 .. 16
    /\ UNCHANGED adcVars

TwoTo[n \in 0 .. 16] == IF n = 0 THEN 1 ELSE 2 * TwoTo[n - 1]

\* conversion_Resolution
ConversionResolution(value, from, to) ==
    IF from > to THEN value \div TwoTo[from - to] ELSE value * TwoTo[to - from]

\* TIMER1 would raise the pin at the value itself
CompareValue_NotInverted(value) == ConversionResolution(value, writeBits, 16)

\* PWM_RESOLUTION is 16, and "2^PWM_RESOLUTION" is 18 in C
CompareValue(value) == (17 - ConversionResolution(value, writeBits, 16)) % TwoTo[16]

\* values above the greatest but one are cut down to it
Written(value) == IF value >= TwoTo[writeBits] - 1 THEN TwoTo[writeBits] - 2 ELSE value

\* TIMER1 raises the pin when it reaches the compare value, and lowers it at 0
PulseWidth(value) == TwoTo[16] - CompareValue(Written(value))

-----------------------------------------------------------------------------
AnalogNext ==
    \/ AnalogRead \/ AsyncRegister \/ AsyncEnable \/ AsyncStart
    \/ ConversionEnds \/ AdcHandler \/ AdcDispatch \/ AnalogWriteResolution

AnalogSpec == AnalogInit /\ [][AnalogNext]_analogVars

-----------------------------------------------------------------------------
(* Properties.                                                             *)

Requests(q) == {q[i].request : i \in 1 .. Len(q)}

(* A request is answered at most once, and until it is answered it is with *)
(* the main thread, the converter or the scheduler, unless a full queue has*)
(* dropped its answer: then no other request is ever accepted.  It gets the*)
(* result of its own conversion, unless an analogRead has left EVENTS_END  *)
(* set: the interrupt is enabled before the event is cleared, and answers  *)
(* at once with the result of an older conversion.  The handler's own check*)
(* never fails; analogRead's only while a request has no answer.           *)
AdcAnswers ==
    LET answers == adcSeen.answers \o adcQueue
    IN  /\ \A i, j \in 1 .. Len(answers) : i < j => answers[i].request < answers[j].request
        /\ \A i \in 1 .. Len(answers) :
              answers[i].value # answers[i].request =>
                 adcSeen.leftover /\ answers[i].value < answers[i].request
        /\ adcCb # NoCallback =>
              \/ adcCall # "none" \/ adcCb \in Requests(adcQueue)
              \/ (adcBusy = adcCb /\ adcInten) \/ AdcPending
              \/ adcCb \in adcSeen.dropped
        /\ adcCb = NoCallback => adcQueue = <<>> /\ adcSeen.dropped = {}
        /\ adcHalt # "handler"
        /\ adcHalt = "analogRead" => adcCb # NoCallback

(* A greater value gives a longer pulse, except that the 17 smallest steps *)
(* of the timer wrap around and hold the pin high for nearly the whole     *)
(* period, which only resolutions above 11 bits can reach.                 *)
PulsesGrow ==
    \A v, w \in PwmValues : 0 < v /\ v < w /\ w < TwoTo[writeBits] - 1 =>
        \/ PulseWidth(v) < PulseWidth(w)
        \/ writeBits > 11 /\ ConversionResolution(v, writeBits, 16) < 18
=============================================================================
