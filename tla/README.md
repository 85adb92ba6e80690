# TLA+ models of the nRF51 template application

This directory models the nRF51 template application: the parts in which several actors
share state (the main thread, interrupt handlers, the SoftDevice and its radio
timeslots, the pins), and the library code beneath them. The models are checked with TLC
on small instances; for nearly all of them TLAPS proofs hold for every value of the constants.
Paths are relative to `src/` unless they begin with `src/`.

## 1. The system

One Cortex-M0 runs a main loop (`application/application_init.cpp`) that calls
`EventManager::applicationTick` again and again. Everything else is either called from
there through the SDK's event scheduler, or is an interrupt handler that puts an event
into the scheduler's queue. The SoftDevice (Nordic's Bluetooth stack) is a closed binary:
it is entered by calls, changes the link by itself, and reports by events that are
fetched later.

| component | state | operations | shared with |
|---|---|---|---|
| Event manager, `libraries/event_manager` | list of (listener, code, enabled) entries; the SDK scheduler's queue | add, remove (pair, listener), enable, `queueEvent`, `applicationTick` | interrupt handlers queue events and read the list; listeners change it while it is walked |
| Ring buffer, `libraries/ring_buffer` | slots, two indices, two mirror bits | push, pop, full and empty tests | the radio interrupt pops while the main thread pushes |
| Soft serial, `libraries/arduino_libraries/AltSoftSerial` | ring, `_b_uartBusy`, byte and bit position | `begin`, `writeByte`, `prepare`, `txTimer0IRQ` | main thread and radio interrupt, without a lock |
| Timeslots, `libraries/timeslot` | slot length, request, callbacks | requests, retries, signals | SoftDevice radio session |
| Timer, `libraries/arduino_libraries/timer` | identifier, active and periodic flags | `notifyAfter`, `periodicNotify`, `cancel`, `timerElapsed` | timeouts wait in the scheduler's queue |
| Button, `libraries/arduino_libraries/button` | awaited edge, press count, timer | interrupt handler, `processEvent`, `timerElapsed` | GPIOTE channel, pin, scheduler |
| GPIOTE interrupts, `arduino/core/interrupt.cpp` | handler table, `EVENTS_IN` | attach, detach, `GPIOTE_handler` | pins, the channel tables |
| Channel tables, `system/inter_periph_com.c` | occupied GPIOTE channels, enabled PPI channels | find, set, clean, wire, free | interrupts, tone, PWM, application |
| Tone, PWM, converter, `arduino/core/Tone.cpp`, `wiring_analog.c` | channel, pin and count of the tone; slots of PWM; callback slot of the converter | `tone`, `noTone`, `analogWrite`, `analogRead`, `analogAsyncRead`, handlers | channel tables, interrupts, scheduler |
| UART serial, `arduino/core/wuart*.cpp` | port state, receive ring | `begin`, `end`, `read`, `write`, `flush`, handler | its interrupt |
| Time, `arduino/core/delay.c` | count of overflows | `millis`, `micros`, `delay` | the RTC's interrupt |
| Pins, `arduino/core/wiring_digital.c`, `wiring_shift.c`, `wiring_pulse.cpp` | pin configuration, output register | `pinMode`, `digitalWrite`, `shiftOut`, `shiftIn`, `pulseIn` | the lines |
| BLE transceiver, `communication/ble` | connection handle, advertising flag | advertise, stop, disconnect, send, events | SoftDevice |
| Nordic UART service, `communication/ble/uart_service` | connection handle, notification flag | CCCD writes, send | SoftDevice |
| ACBLETransceiver, `communication/ble/ac_ble_transceiver.cpp` | a ring of received bytes | events, `receive`, `available` | SoftDevice, its listener |
| Template application, `template_application.cpp` | LED, RSSI, LED timer | short and medium press, connection, disconnection, RSSI | everything above |
| SoftDevice event handler, `nrf51822_sdk_modified_files/.../softdevice_handler.c` | one static event buffer | schedule, drain | scheduler, SoftDevice |
| Flash, `arduino/core/flash_memory.cpp` and `persistent_object` | pending flag, status | read, write, erase; waits by running the scheduler | scheduler |
| Start-up, `system/startup_nrf51.S`, `application`, `application_setup` | what has been initialised | constructors, `main`, set-up | interrupts that are enabled on the way |
| Memory watcher, `libraries/memory_watcher` | paint on stack and heap | paint, check, alarm | interrupts push frames while it paints |
| Strings, printing, streams, mathematics, logger, `arduino/core` | a buffer from the heap; none | see the sources | the heap; bytes that come while a call waits |

What is hard, and what therefore the properties are about:

* unlocked sharing between the main thread and interrupts (ring and busy flag, the listener
  list, the channel tables, the pin and its channel, the receive ring, the overflow count);
* flags that mirror the SoftDevice and are stale until its event is dispatched;
* callbacks that change what is being iterated, or run the scheduler again;
* timeouts and retries: queued timeouts after `cancel`, timeslots that are blocked,
  cancelled or not extended, parsers that give up waiting;
* limits: a full queue stops the system or drops an answer; counts saturate or wrap;
  allocations fail in the middle of an operation;
* liveness: a byte accepted is sent, an event accepted is dispatched, a lost link is
  followed by advertising.

`PROJECT.json` lists each hazard at its line, with the properties that would catch it.
Every hazard listed has a property.

## 2. Modules

Each variable is named after the field it stands for, and each action after the
function; `PROJECT.json` ("map") gives the lines. An error check of the code
(`APP_ERROR_CHECK`, which stops the system) becomes a value of `halted` (or `bootHalt`,
`acHalt`, ...), after which no action is enabled. A definition `X_Something` directly
before `X` is a plausible bug in X, kept to show that a property notices it; nothing uses it.

### RingBuffer, SoftSerial, BytePipe, MCSoftSerial

`RingBuffer` gives the template's operations on a ring record. A push is the four
stores that it makes in memory, because the radio interrupt can fall between any two;
a pop runs in that interrupt and is one step.

`SoftSerial` has the main thread in `writeByte` (`pc` is its position: store, increment,
toggle, reset, test of the busy flag, request, store of the busy flag), the SoC event
handler it runs between calls, and `radio_callback`, whose signals are the actions
`SlotStart`, `ExtendSucceeded`, `ExtendFailed`, `DataBit`, `StopBit` and `FrameEnd`.
`session` is the SoftDevice's side: closed, idle, pending, active, extending, ending.
A timeslot is granted to an idle session only.

`BytePipe` is what a transmitter promises: bytes accepted appear on the line once, in
order. `MCSoftSerial!PipeSpec` is the refinement, with capacity one more than the ring
(the byte in the frame).

A timing assumption is explicit. `FastWrite = TRUE` says that a frame that starts during
a call of `writeByte` does not end before that call does: a call is tens of
microseconds, a frame about 1000 at the 9600 baud that the application uses. With
`FastWrite = FALSE` the main thread may be preempted for a whole frame, and the run
`softserial_lost_busy` shows what happens then.

### EventManager

The list, the queue, and the main thread as a stack of `levels`, one for each running
`app_sched_execute` (a listener that writes to flash runs it again). One iteration of a
loop over the list is one step, so an interrupt's `queueEvent` sees the list in the
middle of a removal. The two removals keep their loops as written, including the
assignment of a comparison in `removeListener(listener)` and the length that shrinks
in each iteration. `seen`, `broken`, `gone`, `removal.before` and `due` record
history for the properties.

### Flash

`writeLong`, `write` and `erasePage` start an operation in the SoftDevice and run the
scheduler until it has delivered the result; the scheduler's other events have listeners
that may use the flash as well. `stack` holds the calls that are running: executions of the
scheduler and uses of the flash, alternating. A use is one `writePersistentObject` (word by
word), a `write` of a byte or an `erasePage`; it is refused while an operation is under
way or when the address is in the application's code. A word is erased, holds
the value of an object, or is mixed (written twice, torn by a power failure). `own`,
`failed`, `overtaken` and `alone` record history for the properties.
The module does not follow the number that is returned, only whether it is the whole size.

### AppTimer, Button

`AppTimer` is the `Timer` class as a record. `Button` has the pin, the GPIOTE channel
(latched event, polarity), the interrupt handler in six steps (level test, clear,
`digitalRead`, detach, attach with the event queued), and the main thread's handlers.
Durations are in periods of the timer. `age` and `unseen` are history: timer periods
since the press edge, and whether the pin moved in a window in which the handler cannot
see it and stands where the awaited edge would have led.

### Peripheral

The BLE transceiver, the UART service and the application's listeners over a SoftDevice
that connects, disconnects, and asks on its own. `events` are the SoftDevice's events
not yet fetched, `queue` the scheduled ones; a press queued before an event is
dispatched before it, when the flags do not yet know of it. Handlers run to completion
in the main thread and contain one SoftDevice call whose result depends on the link, so
each is one step. The behaviour begins when `application_setup` has returned.

### Channels

The tables of GPIOTE and PPI channels and all their users: interrupts of buttons, `tone`,
`analogWrite`, and an application that wires a PPI channel for itself. A call of the main
thread is split where a handler can come between a look at a table and the use made
of it (`AttachFind`/`AttachSet`, `DetachClean`/`DetachForget`, `ToneFind`/`ToneSave`/`ToneSet`,
`NoToneTest`/`NoTone`, `PwmFind`/`PwmSet`/`PwmSave`); the handlers of an edge (`ButtonISR`, which
detaches and attaches), of TIMER1 and of TIMER2 run over it. When two users meet in one
channel, or an error check fails, `fate` says which race it was and the model ends: what
the hardware does with two owners is not modelled. Simplifications: pins of buttons and of
outputs are disjoint; a pin is attached once; `buttonISR` runs in one step with respect to the
main thread, which it interrupts; `analogWrite` on a pin that has a slot changes only
the value, so is not a step; the application wires one PPI channel, once.

### The Arduino library: MCArduino and its parts

These components share no state with one another. `MCArduino` puts them side by side in one
run; its variable `part` chooses, in the initial state, the component that moves.

* `Strings` is the class `String` with its buffer as a sequence of characters, a NUL and
  junk behind it, an allocation failing at any time. `StringValue` is what `WString.h`
  promises of the same operations (a sequence or an invalid string), and `StringsRefine`
  says that `Strings` implements it. `StringQueries` has comparisons and searches, with
  the unsigned arithmetic of positions, against definitions over sequences. Programs put no
  NUL into a string. Characters are few: only equality, order, case and blanks matter.
* `Text` has `Print` (integers in a base, doubles as thousandths with exact arithmetic, lines),
  the conversions of `itoa.c` and the messages of the logger, each against what the text
  should be worth. `PrintsExactly` names where the code deviates.
* `StreamCalls` has the calls of `Stream` that wait (`find`, `parseInt`, `parseFloat`,
  `readBytes` and so on): each test of the input is one step, bytes come between them, and
  a wait may end without one.
* `Uart` has the port with its FIFO and error flags, the interrupt handler in two steps
  (take, then discard or store), the ring, and `begin`, `end`, `read`, `write`, `flush`. `uartSeen`
  records what happened for the properties. The peripheral is external.
* `AcTransceiver` is the transceiver that advertises again by itself and buffers
  what it receives, with a listener that does or does not advertise as well.
* `Analog` has a conversion that is waited for or answered through the scheduler, whose
  queue may be full, and `analogWrite`'s computation of a compare value. `Scaling` has `map` and
  `random` at a width at which they wrap.
* `Clock` has the RTC's counter, the overflow that an interrupt counts, the two unlocked
  reads of `millis` and `micros`, and what waits by them: `delay` and `applicationTick`, which keeps
  16 bits. All units are one tick.
* `Startup` runs from the static constructors (the linker chooses the order of the files)
  through `main` and `application_setup` to the main loop, with edges of the button and events of
  the radio from the moment their interrupts are on. Each SoftDevice call needs what earlier
  ones have set up, and may be refused for want of memory.
* `Memory` paints stack and heap at reset, pushes and pops frames (leaving words unwritten),
  hands out heap, and has the watcher's look and paint loops word by word. No program writes the
  pattern itself, and the stack stays in its region (a check of the watcher, no limit
  of the hardware, is what notices an approach).
* `Pins` has the modes of a pin, a byte shifted out or in edge by edge with a device at the
  far end that goes by rising edges, and `pulseIn` loop by loop. A byte is the set of the places of its ones, as `&` and `|` see it. A pulse is measured in a program that has
  written no pin.

### The proof modules

`SoftSerialProofs`, `EventManagerProofs`, `FlashProofs` and `PeripheralProofs`
each extend their module (`SoftSerialProofs` also `MCSoftSerial`, where the refinement mapping is). Three modules hold the
proofs of several components, which share no state: `ReceptionProofs` extends `Button`, `Analog`, `Uart` and `AcTransceiver`, through
which data come in, `SystemProofs` extends `Clock`, `Startup`, `Memory`, `Scaling`, `Pins` and `Channels`, and `TextProofs` extends
`StreamCalls` and `Text`, which read numbers and write them. `StringProofs` extends `MCArduino`, whose strings it is about, and
`TextProofs` for its lemmas on induction. See section 4.

## 3. What is checked

| run | shows | instance |
|---|---|---|
| `softserial` | bytes are neither lost, repeated, reordered nor torn (`OnceInOrder`); the busy flag covers the timeslot and is released (`BusyCoversSlot`, `HandedOver`); the pipe is implemented (`PipeSpec`); a busy transmitter drains (`Drains`) | ring of 2, 2 values, 2 data bits, 5 bytes |
| `softserial_lost_busy` | **violation**: with a frame inside a call of `writeByte`, `_b_uartBusy` stays set for ever | the same, `FastWrite = FALSE` |
| `eventmanager` | listeners are served although the list changes under the loop; order, no loss, and no return of removed listeners; each accepted event leaves the queue | 2 listeners, list of 3, queue of 2, 2 nested runs, 2 events, 2 operations |
| `em_removal` | **violation**: removing a pair loses other entries | 3 events |
| `em_remove_hang` | **violation**: removing a listener may never return | list of 2, 3 events |
| `flash` | one operation at a time; each reports its own result unless overtaken; a lone object is written in order up to an error or a power failure; every use ends | objects of 2 words, 2 values, queue of 2, 3 uses, any number of resets |
| `flash_nested` | **violation**: an object is reported written although its last word failed | the same |
| `button` | a count is that of one press: edges alternate, the timer runs, no timeout of an earlier press; edges are lost in one window only; a release ends the press | 8 moves of the pin, 3 waiting timeouts, durations 1, 3, 4, 5 |
| `button_long_long` | **violation**: the long-long press is never reported | the same |
| `peripheral` | flags and pending events together give the SoftDevice's state; which races stop the system and that no others do; LED timer, RSSI and notifications are of this connection; advertising after a loss | 6 SoftDevice events, 3 presses, queue of 3 |
| `channels` | until a race hits, every channel has one owner and every slot its two PPI channels (`OneOwner`); an application that gives no channel back meets no race (`SafeUntilReleased`) | 3 GPIOTE channels, 2 slots, 5 PPI channels, 2 buttons, 2 outputs |
| `arduino` | one property per part: strings, texts, streams, serial port, buffered transceiver, converter, scaling, time, start-up, memory, pins; and that strings implement their values | below |

Bounds. A ring of two slots with five bytes has every relation of the indices and
the mirror bits. The event manager's loops shrink the list by one per iteration, so that
three entries show first, middle and last positions, and two nested runs show a
dispatch interrupted by a dispatch that is itself interrupted by events. Three uses of the
flash nest three deep; two words have a first, a last and a word after a failure. Eight pin moves
are four presses, and each move may fall into any of the handler's windows. Six
SoftDevice events are a connection, its loss, a second connection, and events of
both. Three GPIOTE channels with two buttons and two outputs can all be taken, so that a
search fails; five PPI channels with `TonePpi` = 4 are two slots' worth and the tone's, so
that one channel wired by the application makes them short, as on the hardware.

In `arduino`: strings of up to 4 characters over a few literals, so that buffers
grow, overlap and hold a replacement shorter and longer than what it replaces; an input of
up to 3 bytes out of digits, letters, `-`, `.` and NUL; 20-bit longs for printing, with the
greatest and least among the numbers; a receive ring of 3 and a FIFO of 2 with 4 bytes, so that both
overflow; packets of 2 bytes into a ring of 3; 5 conversions; a counter of period 3, a `uint16_t`
of 3 and an `unsigned int` of 6 values, so that 6 ticks wrap each of them; a start-up with 4 edges and
a queue of 2; stack of 5 and heap of 3 words; bytes of 3 bits and both shift orders; pulse timeouts of 0 and 1.
Deadlock is not checked where the bounds or a stopped system end the behaviour on purpose.

Fairness. The main loop never stops polling the scheduler, so the main thread's actions
(`MainThread`, `Execute`, `Dispatch`, `Remove`, the steps of `writeByte`) are weakly fair, and so are
interrupts that are asserted. The SoftDevice answers an extension and ends a timeslot
(weak fairness), and a flash operation ends (weak fairness of `Device`). `SF(SlotStart)` says
that a timeslot requested again and again is granted in the
end: the retry asks for the earliest possible time. Nothing is assumed of what users,
peers and listeners do: presses, pin moves and peer actions have no fairness. `EveryCallReturns` also needs
the uses of the flash to be finite in number, which the bound `MaxJobs` says: an unending
stream of events would keep a waiting loop from returning. `Channels` and the parts of
`MCArduino` state safety only.

Violations are disagreements between the code and what the repository says of it; they
are described in `PROJECT.json` ("findings") with the quoted lines.

Properties with exceptions. Some of the code's defects contradict no sentence of the
repository. The property then states exactly what holds, and names the exception: `OnlyRacesHalt` (a medium
press just before CONNECTED is dispatched stops the system), `AdcAnswers` (a leftover
`EVENTS_END`, a full queue), `SerialInOrder` (a byte that comes while `begin` runs, an error charged
to another byte, a second `begin`), `LinkServed` (a listener that advertises as well), `WaitsLongEnough`
(a reading at the overflow, a tick whose 16 bits wrap), `StartsInOrder` (the linker's order),
`SafeUntilReleased`, `StreamExact`, `PrintsExactly`, `WatcherTells`, `PinsExact` and `ValuesScale`.

## 4. What is proved

`SoftSerialProofs` (for every ring size, element type, number of data bits and bound):

* `TypeCorrect`, `Safety => []TypeOK`. In particular no load or store of the ring
  leaves its buffer and `_bit_pos` never reaches the assertion in `txTimer0IRQ`. `TypeOK` is not inductive: between the
  increment and the reset of the index, `end` is `Size`. `EndInv` says exactly when.
* `SlotCovered`, `Safety => []BusyCoversSlot`, with no
  assumption on timing. `SlotInv` adds that a lost timeslot leaves the session idle until
  it is retried and that the request is made only when the flag is clear.
* `BytesInOrder` and `TransmitterReleased`, `FastWrite => (Safety => []OnceInOrder)` and the same for `HandedOver`, both
  from `TransmitterCorrect`. The inductive invariant (`TransmitterInvariant`) is
  `TypeInv /\ SlotInv /\ HandoverInv /\ RingInv /\ FrameInv`: the position in `writeByte` against
  the session and the flag; the ring with the room that the byte in progress needs; the
  frame's bits against the byte taken last. Lemmas state what a push and a pop do to a ring
  that holds a sequence in order.
* `ImplementsPipe`, `FastWrite => (Safety => PipeSpec)`: the transmitter implements `BytePipe` (without its
  fairness). Under the invariant above, the increment of the ring's index that stores a byte is `Accept`,
  the stop bit is `Deliver`, and every other step is a stutter: it changes neither what was accepted nor what was received.
  The lemmas say how the mapped sequences, a suffix of the accepted bytes and the line's values, change in each step.

`EventManagerProofs` (for every set of listeners and codes and every capacity):

* `TypeCorrect`, `Safety => []TypeOK`. No loop over the list leaves its array although the
  list changes under it; the strengthening `GoodLevels` bounds the index of each level by its phase.
* `DestroyedNeverCalled`, `Safety => []GoneStaysGone`. The removal loops lose and repeat entries
  of others, but never bring back a listener that is not in the list.
* `OnceInOrder`, `Safety => []DispatchedOnceInOrder`, and `AllServed`, `Safety => []EveryListenerServed`, from the inductive
  invariant `TypeInv /\ DispatchInv`. `Ordered` says for some number `fetched` that the later events are in the queue in order
  and the earlier ones are not, that all dispatches below the innermost are broken, and that who has seen an event younger than
  one in dispatch saw it in a nested run. `Served` counts, during the scan, a listener's calls against its entries that the
  scan has reached. It needs `Ordered`, since a listener must not have been called for an event just fetched, and `RemovalInv`:
  while a removal loop moves the entries, no dispatch owes a call.

`FlashProofs` (for every size of object, set of values, queue and depth of nesting):

* `TypeCorrect`, `Safety => []TypeOK`, and `OneOperation`, `Safety => []PendingTracksDevice`. `FlagInv` adds
  that the SoftDevice's operation belongs to a call on the stack that waits.
* `OwnStatus`, `Safety => []StatusIsOwn`. `ResultInv` generalises it from the top to every call that
  waits and is not overtaken: its operation is under way, or its result is the one to be fetched, or the status.
* `PrefixWritten`, `Safety => []AloneWritesInOrder`. `AloneInv` adds when the current word is still
  erased and when it is written; only the owner of the operation has its words changed.

`PeripheralProofs` (for any number of events, presses and places in the queue):

* `TypeCorrect`, `FlagsCorrect`, `OnlyRaces` and `KeptOfThisLink`: `Spec => []P` for `TypeOK`, `FlagsFollowLink`,
  `OnlyRacesHalt` and `StateOfThisLink`. The inductive invariant is `TypeOK /\ LinkInv /\ HaltInv /\ KeptInv`.
  `FlagsFollowLink` alone is not inductive: it counts only CONNECTED and DISCONNECTED, while a
  handler also depends on what stands between them. `LinkInv` says that the pending events, read from the
  handle's state, are a sensible history of the link that ends in what the radio does; `KeptInv`
  says what the CCCD's pending writes will make of the notification flag.

`ReceptionProofs`, the button (for every set of durations and bound):

* `TypeCorrect`, `OnePressCounted` and `AwaitedEdgePossible`: `Spec => []P` for `TypeOK`,
  `CountsOnePress` and `EdgeAwaitedIsPossible`. The invariant says that the edges in the queue alternate between what the main
  thread counts and what the handler awaits (`Between`), that the timeouts behind the last press edge are no more than the
  timer's firings since (`Fits`), and what each step of the handler knows of the pin (`HandlerInv`).

`SystemProofs`, the channel tables (for any number of channels, slots and pins):

* `TypeCorrect`, `OneOwnerUntilRace` and `NoRaceUntilReleased`: `ChannelsSpec => []P` for `ChannelsTypeOK`, `OneOwner`
  and `SafeUntilReleased`. `OneOwner` speaks of what is observable; the invariant adds that a slot's two PPI channels are
  the ones the slot remembers (`PpiInv`, without which giving them back could free others'), that the channel which
  `analogWrite` has configured but not saved is held too (`OfSlot`), and that, while nothing has been given back, the channel
  a call has found stays the lowest free one (`CallFindsLowest`), since the handler of an edge takes back the one
  it gives (`SameChannelAgain`). A slot that is free leaves two PPI channels below the tone's, by counting
  (`TwoBelowTone`, a pigeonhole), so the tone never takes a slot's channel unless the application has wired one.

`ReceptionProofs` (for every size of the rings, of the FIFO and of a packet, and every bound):

* `AdcAnswersAlways`, `AnalogSpec => []AdcAnswers`. `OneRequest` says that the callback's request is the newest, and
  that it is with the converter, in the queue or dropped, and never with two of them; `OwnResult` that, until an `analogRead` has left
  its event set, conversion, event and result belong to that request. `AnswersInv` orders the answers already given against the
  request under way, which the property alone does not.
* `SerialInOrderAlways`, `UartSpec => []SerialInOrder`. The invariant follows a byte through its stations: what the
  FIFO holds is later than the byte that the handler has taken, and that one than all that were stored, discarded or refused
  (`ArrivalInv`). Without a backlog the error flags are those of the one byte under way (`ErrorInv`); the byte that `read` has looked at is still
  in the ring (`LooksAtByte`); `EventInv` and `SendInv` are the parts of the property on the event and on TXD, the latter
  with what makes it inductive. Lemmas say what a store and a `read` do to the sequence `Delivered`.
* `LinkServedAlways`, `AcSpec => []LinkServed`. `Order` relates the bytes kept (popped or in the ring), those refused and those
  in undispatched events: together they are all that came, the kept ones in order, the arriving ones later. `LinkInv`
  strengthens `AlwaysConnects`: a transceiver is idle exactly while a DISCONNECTED waits in the queue, and at most one does. `pushElements` and
  `popElements` are loops; what they do to a ring is proved for the recursive functions that model them, by the least round that would be
  wrong (the order of the numbers is well founded), without an induction over an operator.

`SystemProofs`, the other components (for every period, width of words, capacity and size):

* `WaitsLongEnoughAlways`, `ClockSpec => []WaitsLongEnough`. `ReadingInv` says that counted and pending overflows are the
  periods passed, and by how many periods a reading under way is off; `WaitingInv` that `delay` has started by a reading not older than its
  call; `TickingInv` that what `applicationTick` has counted has passed, or will have when the delay under way ends. The
  witness of both is the time `s` at which the remembered word was right. Lemmas on remainders say that a difference of two words, taken in a
  wider or narrower word, never exceeds the time between them.
* `StartsInOrderAlways`, `StartupSpec => []StartsInOrder`. `GivenInv` lists, by the rank of the next step, what the
  SoftDevice has been given; `QueueInv` who can have put what into the queue, in either order of the constructors; `CountInv` that
  each event is heard or waits.
* `WatcherTellsAlways`, `MemSpec => []WatcherTells`. `StackInv` says which words are certainly painted while the paint loop is on its way, and
  where the mark is that stops the search: the lowest word that a frame wrote, or the word above the paint's beginning. `MinRemainingStack` and
  `MinRemainingHeap` count a run of painted words; lemmas bound such a run by the first mark.
* `ValuesScaleAlways`, `AnalogSpec => []ValuesScale`. Of the state only the resolution matters; the rest is arithmetic: when
  the difference of two longs overflows its remainder stays below it nevertheless (`Randoms`), a quotient of a product keeps order
  and ends (`Maps`), and the 17 of `CompareValue` wraps for scaled values below 18 only (`LongerPulses`). `TwoTo` is a recursive function
  on `0 .. 16`, which a lemma shows to exist.
* `PinsExactAlways`, `PinsSpec => []PinsExact`. Of a shift the invariant says how many edges the bits so far have made and what
  level they leave on the clock (`EdgesInv`), what the device has latched at them (`LatchInv`) and which places have been read as 1
  (`ReadInv`). Of `pulseIn` it says that the samples are of the state, its opposite and the state again, and how often each loop has counted
  (`SamplesInv`), from which follow the first whole pulse, its width and the number of samples at a timeout. The proof showed that
  a long pulse may wrap its product of 17 more than once; `PulseExact` says no more than that it is given too short.

`TextProofs` (for every set of bytes, targets, numbers, bases, doubles and formats, and a long of any width from 17 to 32 bits):

* `StreamExactAlways`, `StreamSpec => []StreamExact`. Of `find` the invariant (`StreamInv`) says that the index is the length of
  a beginning of the target in which the bytes read end, and, of a target that is not similar to itself, of the longest such:
  the code's way back to 0 or 1 is then right. Of `parseInt` and `parseFloat` it says which bytes have been looked at, that the value is that of the
  digits among them, and that a byte swallowed without a look stands first behind the end of the wait.
* `PrintsExactlyAlways`, `TextSpec => []PrintsExactly`. A behaviour is one call, so that the state invariant (`Exact`) is what
  each call promises of what it wrote, and the work is in the lemmas: digits that are split off from the right read back as
  the number, in each base, with no leading zero and in no more places than the number has powers of two; the value of digits with
  a point is the nearest to what `printFloat` was given (half of a last digit is added, and what is cut off is less than one); a message scanned
  forwards, character by character, is what the format stands for read from its end (`FormattedExact`: the text so far with the
  expansion of what is still to come is the whole expansion).

`StringProofs` (for literals of any length, every position and every width of an `unsigned int`):

* `StringsRefineAlways`, `Spec => StringsRefine`: the class implements `StringValue`. The invariant (`StringsInv`) says that an object is the invalid one,
  or that its buffer holds a text, a NUL behind it, and anything after that. Assignments, `concat`, the constructors, `trim` and the
  character operations follow from lemmas on what a copy into a buffer leaves of it. The loops of `replace` are
  related to the recursion of `StringValue` by what each has done at a place (`Halfway`): what is written and what is still to be read are
  together the text with the matches so far replaced. From the left that works because the matches do not overlap, from the right
  (`lastIndexOf`, when the replacement is longer) only if the replaced text overlaps neither itself nor the replacement, which is the
  exception that `StringValue` makes. While the shorter text is written, what has been read lies in front of it, so that no match is
  destroyed. The number of matches, counted first, gives the size of the buffer.
* `StringsHoldAlways`, `Spec => []StringsHold`, adds that no buffer is longer than an `unsigned int` counts (`BuffersFit`),
  without which the unsigned differences in `startsWith` could wrap to a true comparison. Each object then reads as one text (`ReadsAs`), and
  comparisons, `getBytes` and searches are lemmas over that text; `lastIndexOf`, a loop of `strstr`, finds the last place because each
  round goes on right behind the first character of the match before.

What a recursive function computes is proved by the least number at which it would be wrong (the natural numbers are well founded),
and the library's theorems on such functions, not by an induction theorem with an operator for parameter, which no prover here can instantiate.

Assumptions on the constants are `RingAssumption` (at least one slot), `FlashAssumption` (at least one
word, one place in the queue), `SerialAssumption` (at least one data bit), `ManagerAssumption` (capacities are
positive, the tick's and the foreign code are not among the queued ones), `ButtonAssumption` (the durations increase),
`PeripheralAssumption` (bounds are numbers), `ChannelsAssumption` (255 names no channel and no pin, and the slots have room
below the tone's PPI channel, as the code's 3 and 6 have), `UartAssumption` (ring and FIFO have a place), `AcAssumption` (the ring
has a place, bounds are numbers), `ClockAssumption` (period and words are not empty, durations are numbers), `BootAssumption` (the queue's capacity is a number),
`MemAssumption` (stack and heap have a word; frames and the level of alarm are numbers), `AnalogAssumption` and `ScalingAssumption` (values
are numbers, and of the width of a long), `StreamAssumption` (bytes are of eight bits, targets are not empty, the character skipped is
none that a number is made of), `TextAssumption` (the width of a long, radices that `itoa` accepts, the limit of `printFloat` within
that width) `StringsAssumption` (literals are texts without NUL, the empty one among
them), `QueriesAssumption` (lengths and positions are of the type `unsigned int`) and `PinsAssumption` (data and clock are two pins, a byte has a bit, an `unsigned int` at least 16 values). TLC evaluates them in the runs of the same modules.
The environment assumptions are in the actions: when the SoftDevice grants a timeslot, and, for
`BytesInOrder`, `TransmitterReleased` and `ImplementsPipe` only, the timing `FastWrite`.

Only model-checked: liveness (`Drains`, `EventuallyDispatched`, `EveryCallReturns`, `ReleaseReported`,
`AdvertisesAgain`): fairness is beyond the prover. Every safety property, action property and refinement that a
passing run checks is a theorem, the fairness of `BytePipe` excepted.

## 5. What is not modelled

* `AltSoftSerial::end` and `flushOutput`: they change nothing the transmitter uses (the
  wait is commented out, `stopTimer` stops another timer).
* The priorities of events, which the event manager ignores; the button's halt on a full queue,
  which `EventManager` and `Startup` show.
* Handles and error codes beyond what the code distinguishes; pairing data; the content
  of what is received; the timeout of advertising (`ble_transceiver.cpp:431`), which the application
  does not set.
* The static buffer that holds the BLE event in dispatch (`softdevice_handler.c:121`): it would be overwritten
  by a handler that runs the scheduler again, and no BLE listener of the code does.
* The one-shot `notifyAfter`, which nothing calls. The reading functions of the flash, which change no state. Of
  the flash, the number that is returned: `persistent_object.h:39` returns a number of words where the
  whole size is in bytes, and `flash_memory.cpp:84` stores a word from the address of one byte.
* `delayMicroseconds`, a counted loop of instructions. The UART's `peek`, its callback, and the polling `UART0_RX`.
* The choice of the converter's reference, input and read resolution, battery level and
  temperature: settings and registers without a history.
* `String::toInt`, the character macros of `WCharacter.h` and the constants of `binary.h`.
* The interrupt controller (one store or register write per call), the libc stubs, the vector table and the
  copying of data at reset, linker scripts. The vendored headers and the SoftDevice are
  external, modelled by how the code uses them.
* After a race in `Channels`: the hardware with two owners of a channel.

## 6. Plan

Done: every component above. What a continuation would add:

* Type correctness of the components of `MCArduino` as theorems of their own: it is a part of each invariant proved.
