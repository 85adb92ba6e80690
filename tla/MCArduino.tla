------------------------------- MODULE MCArduino -------------------------------
(***************************************************************************)
(* The components that share no state with another, checked in one run: a  *)
(* behaviour is one of the component that part names.                      *)
(***************************************************************************)
EXTENDS StringQueries, Text, StreamCalls, Uart, AcTransceiver, Analog, Scaling, Clock, Startup,
        Memory, Pins

VARIABLE part

Parts == {"strings", "text", "stream", "uart", "acTransceiver", "analog", "clock", "startup",
          "memory", "pins"}

Init ==
    /\ part \in Parts
    /\ StringsInit /\ TextInit /\ StreamInit /\ UartInit /\ AcInit /\ AnalogInit /\ ClockInit
    /\ StartupInit /\ MemInit /\ PinsInit
    \* a choice of the environment is of interest in its own part
    /\ part # "acTransceiver" => listenerAdvertises
    /\ part # "startup" => eventManagerFirst
    /\ part # "memory" => painted = {} /\ heapPaint = {}
    /\ part # "pins" => resting = 0

StringsPart ==
    /\ part = "strings" /\ StringsNext
    /\ UNCHANGED <<part, textVars, streamVars, uartVars, acVars, analogVars, clockVars,
                   bootVars, memVars, pinVars>>
TextPart ==
    /\ part = "text" /\ TextNext
    /\ UNCHANGED <<part, stringVars, streamVars, uartVars, acVars, analogVars, clockVars,
                   bootVars, memVars, pinVars>>
StreamPart ==
    /\ part = "stream" /\ StreamNext
    /\ UNCHANGED <<part, stringVars, textVars, uartVars, acVars, analogVars, clockVars,
                   bootVars, memVars, pinVars>>
UartPart ==
    /\ part = "uart" /\ UartNext
    /\ UNCHANGED <<part, stringVars, textVars, streamVars, acVars, analogVars, clockVars,
                   bootVars, memVars, pinVars>>
AcPart ==
    /\ part = "acTransceiver" /\ AcNext
    /\ UNCHANGED <<part, stringVars, textVars, streamVars, uartVars, analogVars, clockVars,
                   bootVars, memVars, pinVars>>
AnalogPart ==
    /\ part = "analog" /\ AnalogNext
    /\ UNCHANGED <<part, stringVars, textVars, streamVars, uartVars, acVars, clockVars,
                   bootVars, memVars, pinVars>>
ClockPart ==
    /\ part = "clock" /\ ClockNext
    /\ UNCHANGED <<part, stringVars, textVars, streamVars, uartVars, acVars, analogVars,
                   bootVars, memVars, pinVars>>
StartupPart ==
    /\ part = "startup" /\ StartupNext
    /\ UNCHANGED <<part, stringVars, textVars, streamVars, uartVars, acVars, analogVars,
                   clockVars, memVars, pinVars>>
MemoryPart ==
    /\ part = "memory" /\ MemNext
    /\ UNCHANGED <<part, stringVars, textVars, streamVars, uartVars, acVars, analogVars,
                   clockVars, bootVars, pinVars>>
PinsPart ==
    /\ part = "pins" /\ PinsNext
    /\ UNCHANGED <<part, stringVars, textVars, streamVars, uartVars, acVars, analogVars,
                   clockVars, bootVars, memVars>>

Next ==
    \/ StringsPart \/ TextPart \/ StreamPart \/ UartPart \/ AcPart \/ AnalogPart \/ ClockPart
    \/ StartupPart \/ MemoryPart \/ PinsPart

Spec == Init /\ [][Next]_<<part, stringVars, textVars, streamVars, uartVars, acVars,
                           analogVars, clockVars, bootVars, memVars, pinVars>>

(* The strings are as exact as StringQueries says, where there are any.    *)
StringsHold == part = "strings" => StringsExact

-----------------------------------------------------------------------------
(* The instance, in character codes where there are texts.                 *)

MCLiterals  == {<<>>, <<97>>, <<65, 97, 97>>}
MCTargets   == {<<97>>, <<97, 98>>, <<97, 97, 98>>}
MCTerminators == {<<>>, <<98>>, <<98, 98>>}
MCFormats   == {<<Letter>>, <<Letter, Percent, ConvD, Letter>>, <<Percent, Percent>>,
                <<Percent, Letter, Percent, ConvX, Percent, ConvB>>, <<Percent>>}
MCNumbers   == {0, 1, 9, 10, 255, 32767, -32768, 65535, 99999, 524287, -524288, -1, -99999}
MCThousandths == {0, 1, 4, 5, 49, 50, 99, 500, 995, 999, 1005, 1999, 12345, 1000000, 1000001,
                  -1, -45, -500, -1999}
MCScaleValues == {-128, -127, -100, -17, -3, -1, 0, 1, 2, 5, 16, 100, 127}
=============================================================================
