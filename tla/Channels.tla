------------------------------- MODULE Channels -------------------------------
(***************************************************************************)
(* The GPIOTE and PPI channels and their users: interrupts on a pin        *)
(* (src/arduino/core/interrupt.cpp), tone (Tone.cpp) and analogWrite       *)
(* (wiring_analog.c), over the tables of src/system/inter_periph_com.c,    *)
(* whose PPI channels an application may take too.                         *)
(*                                                                         *)
(* A user looks for a free channel and reserves it later, in the main      *)
(* thread or in an interrupt handler.  The handler of a button's edge      *)
(* gives its channel back and takes one again; the handler of TIMER2 ends  *)
(* a tone.  A call of the main thread is split where such a handler can    *)
(* come between a look at the tables and the use made of it.               *)
(***************************************************************************)
EXTENDS Integers, FiniteSets

CONSTANTS NumChannels,  \* GPIOTE channels (4)
          NumSlots,     \* pins that analogWrite serves at a time (3)
          NumPpi,       \* PPI channels of the application (8, or 16)
          TonePpi,      \* the PPI channel that tone takes without asking (6)
          Buttons,      \* pins that attachInterrupt is used for
          Outputs,      \* pins that tone and analogWrite are used for
          MaxCount      \* bound: the interrupts that a tone lasts (inter_count)

None  == 255            \* UNAVAILABLE_GPIOTE_CHANNEL, _PPI_CHANNEL, no pin
Freed == 254            \* the application has given its PPI channel back
Other == NumChannels    \* a task endpoint that is no GPIOTE channel's

ASSUME ChannelsAssumption ==
    /\ NumChannels \in 1 .. None - 1 /\ NumSlots \in Nat /\ MaxCount \in Nat
    /\ NumPpi \in 1 .. Freed /\ TonePpi \in 0 .. NumPpi - 1
    \* the slots have room below the channel of the tone
    /\ 2 * NumSlots <= TonePpi
    /\ Buttons \subseteq Nat \ {None} /\ Outputs \subseteq Nat \ {None}
    /\ Buttons \cap Outputs = {}

GpioteChannels == 0 .. NumChannels - 1
Slots          == 1 .. NumSlots
PpiChannels    == 0 .. NumPpi - 1

VARIABLES
    occupied,    \* GPIOTE_Channels_Occupied
    config,      \* NRF_GPIOTE->CONFIG
    latched,     \* the channels with EVENTS_IN set
    intenset,    \* NRF_GPIOTE->INTENSET
    extIT,       \* the pin of each channel's external interrupt
    slotPin,     \* Timer1_Occupied_Pin
    slotChannel, \* GPIOTE_Channel_for_Analog
    ppiOf,       \* PPI_Channels_Occupied
    ppi,         \* CHEN and TEP: the GPIOTE channel that each PPI channel drives
    appPpi,      \* the PPI channel that the application has wired itself
    timer1,      \* TIMER1 runs
    toneChannel, tonePin,  \* tone_channel, tone_pin
    toneCount,   \* finish_flag and inter_count: None, a tone without an end
    timer2,      \* TIMER2 runs
    call,        \* the call that the main thread is in
    fate,        \* "running"; an error check that has stopped the system; or
                 \* the race that has broken the tables, which ends the model
    released,    \* a channel has been given back for good
    leaked       \* channels of a tone that another tone has replaced

chanVars == <<occupied, config>>
extVars  == <<latched, intenset, extIT>>
pwmVars  == <<slotPin, slotChannel, ppiOf, timer1>>
toneVars == <<toneChannel, tonePin, toneCount, timer2>>
ppiVars  == <<ppi, appPpi>>
vars == <<chanVars, extVars, pwmVars, ppiVars, toneVars, call, released, leaked, fate>>

Pins      == Buttons \union Outputs
Off       == [mode |-> "off", pin |-> None]
Event(p)  == [mode |-> "event", pin |-> p]
Task(p)   == [mode |-> "task", pin |-> p]
Configs   == {Off} \union {Event(p) : p \in Pins} \union {Task(p) : p \in Pins}

NoCall == [op |-> "none", pin |-> None, channel |-> None, slot |-> 0]
Ops == {"none", "attach", "detach", "tone", "toneSaved", "noTone", "pwm", "pwmSave"}
Calls == [op : Ops, pin : Pins \union {None}, channel : GpioteChannels \union {None},
          slot : Slots \union {0}]
Races == {"channel", "detach", "tone", "timer1", "ppi"}
Stops == {"assert", "pin"}

ChannelsTypeOK ==
    /\ occupied \in [GpioteChannels -> BOOLEAN]
    /\ config \in [GpioteChannels -> Configs]
    /\ latched \subseteq GpioteChannels /\ intenset \subseteq GpioteChannels
    /\ extIT \in [GpioteChannels -> Buttons \union {None}]
    /\ slotPin \in [Slots -> Outputs \union {None}]
    /\ slotChannel \in [Slots -> GpioteChannels \union {None}]
    /\ ppiOf \in [GpioteChannels -> [1 .. 2 -> PpiChannels \union {None}]]
    /\ ppi \in [PpiChannels -> GpioteChannels \union {None, Other}]
    /\ appPpi \in PpiChannels \union {None, Freed}
    /\ timer1 \in BOOLEAN /\ timer2 \in BOOLEAN
    /\ toneChannel \in GpioteChannels \union {None}
    /\ tonePin \in Nat
    /\ toneCount \in 0 .. MaxCount \union {None}
    /\ call \in Calls
    /\ fate \in {"running"} \union Stops \union Races
    /\ released \in BOOLEAN
    /\ leaked \subseteq GpioteChannels

NoHandlers == [c \in GpioteChannels |-> None]

ChannelsInit ==
    /\ occupied = [c \in GpioteChannels |-> FALSE]
    /\ config = [c \in GpioteChannels |-> Off]
    /\ latched = {} /\ intenset = {} /\ extIT = NoHandlers
    /\ slotPin = [s \in Slots |-> None] /\ slotChannel = [s \in Slots |-> None]
    /\ ppiOf = [c \in GpioteChannels |-> [i \in 1 .. 2 |-> None]]
    /\ ppi = [k \in PpiChannels |-> None] /\ appPpi = None
    /\ timer1 = FALSE /\ timer2 = FALSE
    /\ toneChannel = None /\ tonePin = 0 /\ toneCount = None
    /\ call = NoCall /\ fate = "running" /\ released = FALSE /\ leaked = {}

-----------------------------------------------------------------------------
(* inter_periph_com.c.                                                     *)

\* the tables are searched from the other end
IsFreeIn_Highest(occ, c) == ~occ[c] /\ \A d \in c + 1 .. NumChannels - 1 : occ[d]

\* the lowest free channel; there may be none
IsFreeIn(occ, c) == ~occ[c] /\ \A d \in 0 .. c - 1 : occ[d]

\* gpioteChannelFind
ChannelFind(c) == IsFreeIn(occupied, c)
NoneFree == \A c \in GpioteChannels : occupied[c]

\* gpioteChannelSet of the channel that the call found, and its configuration:
\* a channel that is not free any more has two owners from now on
ReserveAs(conf) ==
    /\ occupied' = [occupied EXCEPT ![call.channel] = TRUE]
    /\ config' = [config EXCEPT ![call.channel] = conf]

Overtaken == occupied[call.channel]

\* gpioteChannelClean
Clean(c) ==
    /\ occupied' = [occupied EXCEPT ![c] = FALSE]
    /\ config' = [config EXCEPT ![c] = Off]

\* both are looked for before one is enabled
TwoFreePpi_Same(k1, k2) ==
    /\ ppi[k1] = None /\ k1 = k2
    /\ \A k \in 0 .. k1 - 1 : ppi[k] # None

\* findFreePPIChannel, twice: the two lowest channels that are not enabled
TwoFreePpi(k1, k2) ==
    /\ ppi[k1] = None /\ ppi[k2] = None /\ k1 < k2
    /\ \A k \in 0 .. k2 - 1 : ppi[k] # None \/ k = k1

\* findFreePPIChannel, once
FreePpi(k) == ppi[k] = None /\ \A j \in 0 .. k - 1 : ppi[j] # None

SlotsInUse(pins) == \E s \in Slots : pins[s] # None

Running == fate = "running"

(* The GPIOTE interrupt is enabled while a channel has a handler, and      *)
(* pending as long as an enabled event is set: the main thread waits.      *)
Pending == latched \cap intenset # {} /\ \E c \in GpioteChannels : extIT[c] # None
Main == Running /\ ~Pending

-----------------------------------------------------------------------------
(* The application takes a PPI channel for a purpose of its own, and gives *)
(* it back: findFreePPIChannel and wirePPIChannel, freePPIChannel.         *)
WirePpi(k) ==
    /\ Main /\ call = NoCall /\ appPpi = None
    /\ FreePpi(k)
    /\ ppi' = [ppi EXCEPT ![k] = Other]
    /\ appPpi' = k
    /\ UNCHANGED <<chanVars, extVars, pwmVars, toneVars, call, released, leaked, fate>>

FreeAppPpi ==
    /\ Main /\ call = NoCall /\ appPpi \in PpiChannels
    /\ ppi' = [ppi EXCEPT ![appPpi] = None]
    /\ appPpi' = Freed
    /\ UNCHANGED <<chanVars, extVars, pwmVars, toneVars, call, released, leaked, fate>>

-----------------------------------------------------------------------------
(* attachInterrupt.  A button attaches its pin once.                       *)

\* enableGPIOTEInterrupt
EnableInterrupt(c) == intenset' = intenset \union {c}

AttachFind(p) ==
    /\ Main /\ call = NoCall /\ \A c \in GpioteChannels : extIT[c] # p
    /\ \/ NoneFree /\ fate' = "assert" /\ UNCHANGED call
       \/ \E c \in GpioteChannels :
             /\ ChannelFind(c)
             /\ call' = [NoCall EXCEPT !.op = "attach", !.pin = p, !.channel = c]
             /\ UNCHANGED fate
    /\ UNCHANGED <<chanVars, extVars, pwmVars, ppiVars, toneVars, released, leaked>>

AttachSet ==
    /\ Main /\ call.op = "attach"
    /\ ReserveAs(Event(call.pin))
    /\ extIT' = [extIT EXCEPT ![call.channel] = call.pin]
    /\ EnableInterrupt(call.channel)
    /\ fate' = IF Overtaken THEN "channel" ELSE fate
    /\ call' = NoCall
    /\ UNCHANGED <<latched, pwmVars, ppiVars, toneVars, released, leaked>>

(* detachInterrupt: the channel is free before its handler is forgotten.   *)
DetachClean(c) ==
    /\ Main /\ call = NoCall /\ extIT[c] # None
    /\ Clean(c)
    /\ call' = [NoCall EXCEPT !.op = "detach", !.pin = extIT[c], !.channel = c]
    /\ released' = TRUE
    /\ UNCHANGED <<extVars, pwmVars, ppiVars, toneVars, leaked, fate>>

\* an event that came in between has taken a channel again
Reattached == occupied[call.channel] \/ extIT[call.channel] # call.pin

DetachForget ==
    /\ Main /\ call.op = "detach"
    /\ extIT' = [extIT EXCEPT ![call.channel] = None]
    /\ fate' = IF Reattached THEN "detach" ELSE fate
    /\ call' = NoCall
    /\ UNCHANGED <<chanVars, latched, intenset, pwmVars, ppiVars, toneVars, released, leaked>>

-----------------------------------------------------------------------------
(* The interrupt of an edge.                                               *)

(* A channel sees the edge it is configured for.                           *)
EdgeLatches(c) ==
    /\ Running /\ config[c].mode = "event" /\ c \notin latched
    /\ latched' = latched \union {c}
    /\ UNCHANGED <<chanVars, intenset, extIT, pwmVars, ppiVars, toneVars, call, released,
                   leaked, fate>>

\* the channels that GPIOTE_handler serves
Serves(c) == c \in latched \cap intenset /\ extIT[c] # None

(* GPIOTE_handler: the pin has moved back,                                 *)
RejectEdge(c) ==
    /\ Running /\ Serves(c)
    /\ latched' = latched \ {c}
    /\ UNCHANGED <<chanVars, intenset, extIT, pwmVars, ppiVars, toneVars, call, released,
                   leaked, fate>>

(* or the handler of the pin is called.  buttonISR: digitalRead, which     *)
(* stops TIMER1 unless a slot is in use, detachInterrupt, attachInterrupt. *)
(* The next edge may be latched before the channel is given back.          *)
ButtonISR(c) ==
    /\ Running /\ Serves(c)
    /\ timer1' = (timer1 /\ SlotsInUse(slotPin))
    /\ \E d \in GpioteChannels :
          LET given == [occupied EXCEPT ![c] = FALSE]
          IN  /\ IsFreeIn(given, d)
              /\ occupied' = [given EXCEPT ![d] = TRUE]
              /\ config' = [[config EXCEPT ![c] = Off] EXCEPT ![d] = Event(extIT[c])]
              /\ extIT' = [[extIT EXCEPT ![c] = None] EXCEPT ![d] = extIT[c]]
              /\ EnableInterrupt(d)
    /\ \/ latched' = latched \ {c}
       \/ config[c].mode = "event" /\ UNCHANGED latched
    /\ UNCHANGED <<slotPin, slotChannel, ppiOf, ppiVars, toneVars, call, released, leaked, fate>>

-----------------------------------------------------------------------------
(* tone.  It may replace another tone, of this or of another pin.          *)
ToneFind(p) ==
    /\ Main /\ call = NoCall /\ \A s \in Slots : slotPin[s] # p
    /\ \E c \in GpioteChannels :
          /\ ChannelFind(c)
          /\ call' = [NoCall EXCEPT !.op = "tone", !.pin = p, !.channel = c]
    /\ UNCHANGED <<chanVars, extVars, pwmVars, ppiVars, toneVars, released, leaked, fate>>

(* The pin and the length are saved,                                       *)
ToneSave ==
    /\ Main /\ call.op = "tone"
    /\ tonePin' = call.pin
    /\ toneCount' \in {None} \union 0 .. MaxCount
    /\ call' = [call EXCEPT !.op = "toneSaved"]
    /\ UNCHANGED <<chanVars, extVars, pwmVars, ppiVars, toneChannel, timer2, released,
                   leaked, fate>>

\* somebody else's channel is the one that a tone takes
PpiTaken == ppi[TonePpi] \notin {None, toneChannel}

(* then the channel is reserved, and TIMER2 and the PPI channel started.   *)
ToneSet ==
    /\ Main /\ call.op = "toneSaved"
    /\ toneChannel' = call.channel
    /\ leaked' = leaked \union ({toneChannel} \ {None})
    /\ ReserveAs(Task(call.pin))
    /\ ppi' = [ppi EXCEPT ![TonePpi] = call.channel]
    /\ timer2' = TRUE
    /\ fate' = CASE Overtaken -> "channel"
                 [] ~Overtaken /\ PpiTaken -> "ppi"
                 [] OTHER -> fate
    /\ call' = NoCall
    /\ UNCHANGED <<extVars, pwmVars, appPpi, tonePin, toneCount, released>>

(* noTone of the pin that tone_pin names.  Without a channel it "cleans"   *)
(* beyond the end of the tables.                                           *)
StopTone ==
    /\ timer2' = FALSE
    /\ IF toneChannel = None THEN fate' = "tone" /\ UNCHANGED chanVars
                             ELSE Clean(toneChannel) /\ UNCHANGED fate
    /\ toneChannel' = None /\ tonePin' = None
    /\ ppi' = [ppi EXCEPT ![TonePpi] = None]
    /\ released' = TRUE

NoToneTest(p) ==
    /\ Main /\ call = NoCall /\ tonePin = p
    /\ call' = [NoCall EXCEPT !.op = "noTone", !.pin = p]
    /\ UNCHANGED <<chanVars, extVars, pwmVars, ppiVars, toneVars, released, leaked, fate>>

NoTone ==
    /\ Main /\ call.op = "noTone"
    /\ StopTone
    /\ call' = NoCall
    /\ UNCHANGED <<extVars, pwmVars, appPpi, toneCount, leaked>>

\* the count goes on below zero
TonePeriod_NoEnd ==
    /\ Running /\ timer2 /\ toneCount # None
    /\ toneCount' = toneCount - 1
    /\ UNCHANGED <<chanVars, extVars, pwmVars, ppiVars, toneChannel, tonePin, timer2, call,
                   released, leaked, fate>>

(* TIMER2_handler, over whatever runs: the next period of the tone,        *)
TonePeriod ==
    /\ Running /\ timer2 /\ toneCount # None /\ toneCount > 0
    /\ toneCount' = toneCount - 1
    /\ UNCHANGED <<chanVars, extVars, pwmVars, ppiVars, toneChannel, tonePin, timer2, call,
                   released, leaked, fate>>

(* or its end; arduinoToVariantPin stops the system for a pin that is none.*)
ToneEnds ==
    /\ Running /\ timer2 /\ toneCount = 0
    /\ \/ tonePin # None /\ StopTone
       \/ /\ tonePin = None /\ fate' = "pin"
          /\ UNCHANGED <<chanVars, ppi, toneChannel, tonePin, timer2, released>>
    /\ UNCHANGED <<extVars, pwmVars, appPpi, toneCount, call, leaked>>

-----------------------------------------------------------------------------
(* analogWrite of a value that is not 0; for a pin that has a slot already *)
(* only the value changes.                                                 *)

(* The first free slot and a free channel; TIMER1 is started for the first.*)
PwmFind(p) ==
    /\ Main /\ call = NoCall /\ \A s \in Slots : slotPin[s] # p
    /\ timer2 => tonePin # p
    /\ \E c \in GpioteChannels, s \in Slots :
          /\ ChannelFind(c)
          /\ slotPin[s] = None /\ \A r \in 1 .. s - 1 : slotPin[r] # None
          /\ call' = [op |-> "pwm", pin |-> p, channel |-> c, slot |-> s]
    /\ timer1' = (timer1 \/ ~SlotsInUse(slotPin))
    /\ UNCHANGED <<chanVars, extVars, slotPin, slotChannel, ppiOf, ppiVars, toneVars, released,
                   leaked, fate>>

(* PPI_ON_TIMER_GPIO, which does nothing unless two PPI channels are free. *)
PwmSet ==
    /\ Main /\ call.op = "pwm"
    /\ ReserveAs(Task(call.pin))
    /\ fate' = IF Overtaken THEN "channel" ELSE fate
    /\ \/ \E k1, k2 \in PpiChannels :
             /\ TwoFreePpi(k1, k2)
             /\ ppi' = [ppi EXCEPT ![k1] = call.channel, ![k2] = call.channel]
             /\ ppiOf' = [ppiOf EXCEPT ![call.channel] = <<k1, k2>>]
       \/ /\ \A k1, k2 \in PpiChannels : ~TwoFreePpi(k1, k2)
          /\ UNCHANGED <<ppi, ppiOf>>
    /\ call' = [call EXCEPT !.op = "pwmSave"]
    /\ UNCHANGED <<extVars, slotPin, slotChannel, timer1, appPpi, toneVars, released, leaked>>

(* The slot is taken last: an edge of a button may have stopped TIMER1.    *)
PwmSave ==
    /\ Main /\ call.op = "pwmSave"
    /\ slotChannel' = [slotChannel EXCEPT ![call.slot] = call.channel]
    /\ slotPin' = [slotPin EXCEPT ![call.slot] = call.pin]
    /\ fate' = IF timer1 THEN fate ELSE "timer1"
    /\ call' = NoCall
    /\ UNCHANGED <<chanVars, extVars, ppiOf, timer1, ppiVars, toneVars, released, leaked>>

(* ppiOffFromGPIO: analogWrite of 0, digitalWrite and digitalRead.         *)
PpiOffFromGPIO(s) ==
    LET c == slotChannel[s]
    IN  /\ Main /\ call = NoCall /\ slotPin[s] # None
        /\ ppi' = [k \in PpiChannels |->
                      IF k \in {ppiOf[c][1], ppiOf[c][2]} THEN None ELSE ppi[k]]
        /\ ppiOf' = [ppiOf EXCEPT ![c] = <<None, None>>]
        /\ slotPin' = [slotPin EXCEPT ![s] = None]
        /\ slotChannel' = [slotChannel EXCEPT ![s] = None]
        /\ Clean(c)
        /\ timer1' = (timer1 /\ SlotsInUse(slotPin'))
        /\ released' = TRUE
        /\ UNCHANGED <<extVars, appPpi, toneVars, call, leaked, fate>>

(* TIMER1_handler configures the channel of a pin again that it finds high.*)
Timer1Handler(s) ==
    /\ Running /\ timer1 /\ slotPin[s] # None
    /\ config' = [config EXCEPT ![slotChannel[s]] = Task(slotPin[s])]
    /\ UNCHANGED <<occupied, extVars, pwmVars, ppiVars, toneVars, call, released, leaked, fate>>

-----------------------------------------------------------------------------
Interrupts ==
    \/ \E c \in GpioteChannels : EdgeLatches(c) \/ RejectEdge(c) \/ ButtonISR(c)
    \/ \E s \in Slots : Timer1Handler(s)
    \/ TonePeriod \/ ToneEnds

Calling ==
    \/ \E p \in Buttons : AttachFind(p)
    \/ \E c \in GpioteChannels : DetachClean(c)
    \/ \E p \in Outputs : ToneFind(p) \/ NoToneTest(p) \/ PwmFind(p)
    \/ \E s \in Slots : PpiOffFromGPIO(s)
    \/ (\E k \in PpiChannels : WirePpi(k)) \/ FreeAppPpi
    \/ AttachSet \/ DetachForget \/ ToneSave \/ ToneSet \/ NoTone \/ PwmSet \/ PwmSave

ChannelsNext == Interrupts \/ Calling

ChannelsSpec == ChannelsInit /\ [][ChannelsNext]_vars

-----------------------------------------------------------------------------
(* Properties.                                                             *)

Forgotten(c)   == call.op = "detach" /\ call.channel = c /\ ~occupied[c]
OfInterrupt(c) == extIT[c] # None /\ ~Forgotten(c)
OfSlot(c, s)   == slotChannel[s] = c \/ (call.op = "pwmSave" /\ call.channel = c /\ call.slot = s)
OfTone(c)      == toneChannel = c /\ c \notin leaked

(* Until a race has broken them the tables agree: each channel that is     *)
(* occupied has one owner, which has configured it for its own pin, or is  *)
(* one that a second tone() has lost; the others are off.                  *)
ChannelOwners ==
    Running => \A c \in GpioteChannels :
        /\ occupied[c] <=> OfInterrupt(c) \/ (\E s \in Slots : OfSlot(c, s)) \/ OfTone(c) \/ c \in leaked
        /\ ~occupied[c] => config[c] = Off
        /\ OfInterrupt(c) =>
              config[c] = Event(extIT[c]) /\ toneChannel # c /\ c \notin leaked
        /\ \A s \in Slots : OfSlot(c, s) =>
              /\ config[c].mode = "task" /\ toneChannel # c /\ ~OfInterrupt(c)
              /\ slotPin[s] # None => config[c] = Task(slotPin[s])
              /\ \A r \in Slots : OfSlot(c, r) => r = s
        /\ OfTone(c) => config[c].mode = "task"

(* Each slot drives its pin through two PPI channels of its own, and TIMER1*)
(* runs for it; a PPI channel that is enabled belongs to a slot, to the    *)
(* tone or to the application.  Unless the application has taken one, no   *)
(* slot is left without its two, and none of them is the one that a tone   *)
(* takes without asking.                                                   *)
PpiFollowsSlots ==
    Running =>
    /\ \A s \in Slots : slotPin[s] # None =>
          /\ timer1
          /\ LET driving == {k \in PpiChannels : ppi[k] = slotChannel[s]}
             IN  Cardinality(driving) = 2 \/ (driving = {} /\ appPpi # None)
    /\ \A k \in PpiChannels : ppi[k] # None =>
          \/ \E s \in Slots : OfSlot(ppi[k], s) /\ (k = TonePpi => appPpi # None)
          \/ k = TonePpi /\ ppi[k] = toneChannel
          \/ k = appPpi /\ ppi[k] = Other
    /\ toneChannel # None => ppi[TonePpi] = toneChannel

(* Whatever the interrupts do between a look at the tables and its use,    *)
(* both tables keep one owner for each channel until such a race hits.     *)
OneOwner == ChannelOwners /\ PpiFollowsSlots

(* An application that never gives a channel back, such as the template's, *)
(* meets none of the races: the channels in use are the lowest ones, the   *)
(* handler of an edge gets back the very channel it has given, and every   *)
(* event that keeps the interrupt pending has a handler to serve it.       *)
SafeUntilReleased ==
    ~released =>
    /\ fate \notin {"channel", "detach", "tone", "pin"} /\ (fate = "ppi" => appPpi # None)
    /\ \A c, d \in GpioteChannels : c < d /\ occupied[d] => occupied[c]
    /\ \A c \in latched \cap intenset : extIT[c] # None
=============================================================================
