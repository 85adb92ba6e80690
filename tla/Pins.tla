---------------------------------- MODULE Pins ----------------------------------
(***************************************************************************)
(* Pins: their modes (src/system/nrf51822_arduino_conversion.c, variant.cpp*)
(* and src/arduino/core/wiring_digital.c), a byte shifted out or in through*)
(* two of them (wiring_shift.c), and the length of a pulse on one of them  *)
(* (wiring_pulse.cpp).  At the far end of the two there is a device that   *)
(* goes by the rising edges of the clock.                                  *)
(***************************************************************************)
EXTENDS Integers, Sequences

CONSTANTS PinsCount,      \* PINS_COUNT; the pins from it on do not exist
          Data, Clk,      \* two of the pins
          ShiftBits,      \* bits of a byte (8); a byte is the set of the places of its ones
          ShiftValues,    \* the bytes shifted out, and those the device offers
          PinModes,       \* the modes that the program asks for
          PulseTimeouts,  \* the timeouts that are passed to pulseIn
          PulseWord       \* values of an unsigned int (2^32)

ASSUME PinsAssumption ==
    /\ Data # Clk
    /\ ShiftBits \in Nat \ {0} /\ ShiftValues \subseteq SUBSET (0 .. ShiftBits - 1)
    /\ PulseTimeouts \subseteq Nat /\ PulseWord \in Nat /\ PulseWord >= 16

VARIABLES cnf,     \* NRF_GPIO->PIN_CNF of the two pins
          outReg,  \* NRF_GPIO->OUT
          resting, \* the level of a line that nothing drives or pulls
          shift,   \* the call of shiftOut or shiftIn under way, and its result
          device,  \* the rising edges it has seen, what it latched at them, what it offers
          pulse,   \* the call of pulseIn, its result, and the levels that it sampled
          pinHalt  \* an assertion, or an error check, has stopped the system

pinVars == <<cnf, outReg, resting, shift, device, pulse, pinHalt>>

NoLevel == 2

Wires == {Data, Clk}
Bit(value, i) == IF i \in value THEN 1 ELSE 0
NoShift == [op |-> "none", lsb |-> TRUE, value |-> {}, i |-> 0, clock |-> "next", high |-> FALSE]
NoPulse == [phase |-> "none", loops |-> 0, width |-> 0, result |-> 0, state |-> 0,
            max |-> 0, samples |-> <<>>]

-----------------------------------------------------------------------------
(* Modes.                                                                  *)

InputModes  == {"INPUT", "INPUT_NOPULL", "INPUT_PULLUP", "INPUT_PULLDOWN"}
OutputModes == {"OUTPUT", "S0S1", "H0S1", "S0H1", "H0H1", "D0S1", "D0H1", "S0D1", "H0D1"}

\* inputPinModeToNRF51Pull
Pull(mode) == IF mode = "INPUT_PULLDOWN" THEN 0 ELSE IF mode = "INPUT_PULLUP" THEN 1 ELSE NoLevel

\* pinModeToNRF51Drive: the levels that are driven, and not "disconnected"
Drives(mode) ==
    CASE mode \in {"D0S1", "D0H1"} -> {1}
      [] mode \in {"S0D1", "H0D1"} -> {0}
      [] OTHER -> {0, 1}

\* PIN_CNF: an output has its input buffer disconnected, as every pin after a reset
Reset     == [out |-> FALSE, buffer |-> FALSE, pull |-> NoLevel, drive |-> {0, 1}]
Config(mode) ==
    IF mode \in InputModes
    THEN [out |-> FALSE, buffer |-> TRUE, pull |-> Pull(mode), drive |-> {0, 1}]
    ELSE [out |-> TRUE, buffer |-> FALSE, pull |-> NoLevel, drive |-> Drives(mode)]

PinsInit ==
    /\ cnf = [p \in Wires |-> Reset] /\ outReg = [p \in Wires |-> 0]
    /\ resting \in {0, 1}
    /\ shift = NoShift /\ device = [edges |-> 0, latched |-> <<>>, offer |-> {}]
    /\ pulse = NoPulse /\ pinHalt = FALSE

\* the level of a line, with OUT at some value
LevelAt(p, value) ==
    IF cnf[p].out /\ value \in cnf[p].drive THEN value
    ELSE IF ~cnf[p].out /\ cnf[p].pull # NoLevel THEN cnf[p].pull
    ELSE resting
Level(p) == LevelAt(p, outReg[p])

PinIdle == ~pinHalt /\ shift.op = "none" /\ pulse.phase = "none"

(* arduinoToVariantPin stops the system for a pin that does not exist.     *)
BadPin(p) ==
    /\ PinIdle /\ p >= PinsCount
    /\ pinHalt' = TRUE
    /\ UNCHANGED <<cnf, outReg, resting, shift, device, pulse>>

PinMode(p, mode) ==
    /\ PinIdle
    /\ cnf' = [cnf EXCEPT ![p] = Config(mode)]
    /\ UNCHANGED <<outReg, resting, shift, device, pulse, pinHalt>>

\* digitalWrite, and what the device does at a rising edge of the clock
WriteLevel(p, value) ==
    /\ outReg' = [outReg EXCEPT ![p] = value]
    /\ device' = IF p = Clk /\ Level(Clk) = 0 /\ LevelAt(Clk, value) = 1
                 THEN [device EXCEPT !.edges = @ + 1, !.latched = Append(@, Level(Data))]
                 ELSE device

\* digitalRead, of a line with a level
DigitalRead(p, level) == IF cnf[p].buffer THEN level ELSE 0

DigitalWrite(p, value) ==
    /\ PinIdle
    /\ outReg' = [outReg EXCEPT ![p] = value]
    /\ UNCHANGED <<cnf, resting, shift, device, pulse, pinHalt>>

-----------------------------------------------------------------------------
(* shiftOut and shiftIn.                                                   *)

\* the place of the bit that is the i-th, from 0 on, on the line
BitPlace(lsb, i) == IF lsb THEN i ELSE ShiftBits - 1 - i

Shifts(op, lsb, value, offer) ==
    /\ PinIdle
    /\ shift' = [NoShift EXCEPT !.op = op, !.lsb = lsb, !.value = value, !.high = (Level(Clk) = 1)]
    /\ device' = [edges |-> 0, latched |-> <<>>, offer |-> offer]
    /\ UNCHANGED <<cnf, outReg, resting, pulse, pinHalt>>

BeginShift ==
    \/ \E lsb \in BOOLEAN, v \in ShiftValues : Shifts("out", lsb, v, {})
    \/ \E lsb \in BOOLEAN, v \in ShiftValues : Shifts("in", lsb, {}, v)

\* one digitalWrite or digitalRead of the loop
ShiftStep(op, from, to) ==
    /\ ~pinHalt /\ shift.op = op /\ shift.i < ShiftBits /\ shift.clock = from
    /\ shift' = [shift EXCEPT !.clock = to, !.i = IF to = "next" THEN @ + 1 ELSE @]
    /\ UNCHANGED <<cnf, resting, pulse, pinHalt>>

ShiftOut ==
    \/ ShiftStep("out", "next", "data")
       /\ WriteLevel(Data, Bit(shift.value, BitPlace(shift.lsb, shift.i)))
    \/ ShiftStep("out", "data", "up") /\ WriteLevel(Clk, 1)
    \/ ShiftStep("out", "up", "next") /\ WriteLevel(Clk, 0)

ShiftIn ==
    \/ ShiftStep("in", "next", "up") /\ WriteLevel(Clk, 1)
    \/ /\ ~pinHalt /\ shift.op = "in" /\ shift.clock = "up"
       /\ shift' = [shift EXCEPT !.clock = "read",
                     !.value = IF DigitalRead(Data, Bit(device.offer, device.edges)) = 1
                               THEN @ \union {BitPlace(shift.lsb, shift.i)} ELSE @]
       /\ UNCHANGED <<cnf, outReg, resting, device, pulse, pinHalt>>
    \/ ShiftStep("in", "read", "next") /\ WriteLevel(Clk, 0)

ShiftReturns ==
    /\ shift.op # "none" /\ shift.i = ShiftBits
    /\ shift' = NoShift /\ device' = [edges |-> 0, latched |-> <<>>, offer |-> {}]
    /\ UNCHANGED <<cnf, outReg, resting, pulse, pinHalt>>

-----------------------------------------------------------------------------
(* pulseIn, of the data line; bound: before anything is written.           *)

\* the loop that waits for an earlier pulse to end is missing
PulseIn_AtOnce(state, timeout) ==
    /\ PinIdle /\ outReg = [p \in Wires |-> 0] /\ cnf[Clk] = Reset
    /\ pulse' = [NoPulse EXCEPT !.phase = "start", !.state = state,
                                !.max = ((timeout * 16) % PulseWord) \div 2]
    /\ UNCHANGED <<cnf, outReg, resting, shift, device, pinHalt>>

PulseIn(state, timeout) ==
    /\ PinIdle /\ outReg = [p \in Wires |-> 0] /\ cnf[Clk] = Reset
    /\ pulse' = [NoPulse EXCEPT !.phase = "previous", !.state = state,
                                !.max = ((timeout * 16) % PulseWord) \div 2]
    /\ UNCHANGED <<cnf, outReg, resting, shift, device, pinHalt>>

\* 17 cycles a loop, 16 cycles a microsecond
Microseconds(width) == ((width * 17 + 16) % PulseWord) \div 16

\* the loop goes on, or has run too often
Loop(p, width) ==
    IF p.loops = p.max THEN [p EXCEPT !.phase = "timeout"]
    ELSE [p EXCEPT !.loops = @ + 1, !.width = width]

(* A condition of one of the three loops.                                  *)
PulseSample(level) ==
    LET seen == DigitalRead(Data, level)
        p    == [pulse EXCEPT !.samples = Append(@, seen)]
        same == seen = p.state
    IN  /\ cnf[Data].buffer \/ level = 0
        /\ pulse' =
              CASE p.phase = "previous" /\ same  -> Loop(p, 0)
                [] p.phase = "previous" /\ ~same -> [p EXCEPT !.phase = "start"]
                [] p.phase = "start" /\ ~same    -> Loop(p, 0)
                [] p.phase = "start" /\ same     -> [p EXCEPT !.phase = "stop"]
                [] p.phase = "stop" /\ same      -> Loop(p, p.width + 1)
                [] p.phase = "stop" /\ ~same     ->
                     [p EXCEPT !.phase = "done", !.result = Microseconds(p.width)]
        /\ UNCHANGED <<cnf, outReg, resting, shift, device, pinHalt>>

PulseReturns ==
    /\ pulse.phase \in {"done", "timeout"}
    /\ pulse' = NoPulse
    /\ UNCHANGED <<cnf, outReg, resting, shift, device, pinHalt>>

-----------------------------------------------------------------------------
PinsNext ==
    \/ \E p \in Wires :
          \/ \E mode \in PinModes : PinMode(p, mode)
          \/ \E value \in {0, 1} : DigitalWrite(p, value)
    \/ BadPin(PinsCount)
    \/ BeginShift \/ ShiftOut \/ ShiftIn \/ ShiftReturns
    \/ \E state \in {0, 1}, timeout \in PulseTimeouts : PulseIn(state, timeout)
    \/ \E level \in {0, 1} : pulse.phase \in {"previous", "start", "stop"} /\ PulseSample(level)
    \/ PulseReturns

PinsSpec == PinsInit /\ [][PinsNext]_pinVars

-----------------------------------------------------------------------------
(* Properties.                                                             *)

\* the k-th bit, from 1 on, of a byte on the line
OnLine(value, lsb, k) == IF lsb THEN Bit(value, k - 1) ELSE Bit(value, ShiftBits - k)

ClockToggles == LevelAt(Clk, 0) = 0 /\ LevelAt(Clk, 1) = 1
LostEdges    == IF shift.high THEN 1 ELSE 0

(* The device gets the byte that shiftOut sends, bit by bit in the order   *)
(* asked for, at the level that the data pin can give; and shiftIn returns *)
(* the bits that the device offers after one edge after another.  A clock  *)
(* left high before the call loses the first edge: the device misses a bit *)
(* sent, and a bit is read that it offered before the call.  A clock that  *)
(* cannot change makes no edge, and an output is read as 0.                *)
ShiftExact ==
    shift.op # "none" /\ shift.i = ShiftBits =>
        /\ shift.op = "out" =>
              device.latched =
                 IF ClockToggles
                 THEN [k \in 1 .. ShiftBits - LostEdges |->
                         LevelAt(Data, OnLine(shift.value, shift.lsb, k + LostEdges))]
                 ELSE <<>>
        /\ shift.op = "in" =>
              \A k \in 1 .. ShiftBits :
                 OnLine(shift.value, shift.lsb, k) =
                    DigitalRead(Data, Bit(device.offer, IF ClockToggles THEN k - LostEdges ELSE 0))

\* a run of the level with both its ends in the samples
Run(s, i, j) ==
    /\ i < j - 1 /\ s[i] # pulse.state /\ s[j] # pulse.state
    /\ \A k \in i + 1 .. j - 1 : s[k] = pulse.state

(* pulseIn measures the first pulse that begins and ends while it looks,   *)
(* never the rest of one that was there before, as a sample shorter than it*)
(* was seen; but a pulse too long for the product of 17 is given too short.*)
(* It gives up only when the three loops together have run once more than  *)
(* the timeout stands for.                                                 *)
PulseExact ==
    LET s == pulse.samples
        n == Len(s)
    IN  /\ pulse.phase = "done" =>
              \E i \in 1 .. n :
                 /\ Run(s, i, n)
                 /\ \A j \in 1 .. n - 1 : \A k \in 1 .. j - 1 : ~Run(s, k, j)
                 /\ LET cycles == (n - i - 2) * 17 + 16
                    IN  IF cycles < PulseWord THEN pulse.result = cycles \div 16
                                              ELSE pulse.result < cycles \div 16
        /\ pulse.phase = "timeout" =>
              pulse.result = 0 /\ n \in pulse.max + 1 .. pulse.max + 3
        /\ pulse.phase # "done" => \A i, j \in 1 .. n : ~Run(s, i, j)

PinsExact == ShiftExact /\ PulseExact
=============================================================================
