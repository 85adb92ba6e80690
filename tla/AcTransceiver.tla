----------------------------- MODULE AcTransceiver -----------------------------
(***************************************************************************)
(* ACBLETransceiver (src/communication/ble/ac_ble_transceiver.cpp): a      *)
(* transceiver that advertises again after each disconnection, and keeps   *)
(* what it receives in a RingBuffer until the application asks for it.     *)
(* Its listener may be one that advertises as well, as the template        *)
(* application's does.  A byte is the number of its arrival.               *)
(***************************************************************************)
EXTENDS Integers, Sequences

CONSTANTS RxSize,       \* RX_BUFFER_SIZE (70)
          MaxPacket,    \* bytes of a packet (20)
          MaxReceived,  \* bound: bytes that come
          MaxLinks      \* bound: connections

ASSUME AcAssumption == RxSize \in Nat \ {0} /\ MaxPacket \in Nat /\ MaxReceived \in Nat

Rx == INSTANCE RingBuffer WITH Size <- RxSize, Elem <- 0 .. MaxReceived, Zero <- 0

VARIABLES rx,         \* _rxBuffer
          acLink,     \* the SoftDevice: the radio
          acEvents,   \* events that the main thread has not fetched yet
          listenerAdvertises,  \* what kind of listener is registered
          acHalt,     \* sd_ble_gap_adv_start has failed: an error check stops the system
          acSeen      \* what has happened: a record, see AcInit

acVars == <<rx, acLink, acEvents, listenerAdvertises, acHalt, acSeen>>

AcInit ==
    /\ rx = Rx!EmptyRing /\ acLink = "idle" /\ acEvents = <<>>
    /\ listenerAdvertises \in BOOLEAN /\ acHalt = FALSE
    /\ acSeen = [connects |-> 0, links |-> 0, came |-> 0, popped |-> <<>>, refused |-> {},
                 withError |-> {}]

Buffered == Rx!Fill(rx)

-----------------------------------------------------------------------------
(* The SoftDevice.                                                         *)

PeerConnects ==
    /\ ~acHalt /\ acLink = "advertising" /\ acSeen.links < MaxLinks
    /\ acLink' = "connected"
    /\ acEvents' = Append(acEvents, [event |-> "CONNECTED", bytes |-> <<>>])
    /\ acSeen' = [acSeen EXCEPT !.links = @ + 1]
    /\ UNCHANGED <<rx, listenerAdvertises, acHalt>>

LinkLost ==
    /\ ~acHalt /\ acLink = "connected"
    /\ acLink' = "idle"
    /\ acEvents' = Append(acEvents, [event |-> "DISCONNECTED", bytes |-> <<>>])
    /\ UNCHANGED <<rx, listenerAdvertises, acHalt, acSeen>>

PacketComes ==
    /\ ~acHalt /\ acLink = "connected"
    /\ \E n \in 1 .. MaxPacket :
          /\ acSeen.came + n <= MaxReceived
          /\ acSeen' = [acSeen EXCEPT !.came = @ + n]
          /\ acEvents' = Append(acEvents,
                [event |-> "WRITE", bytes |-> [i \in 1 .. n |-> acSeen.came + i]])
    /\ UNCHANGED <<rx, acLink, listenerAdvertises, acHalt>>

-----------------------------------------------------------------------------
(* BLETransceiver::advertise, so many times.                               *)
Advertise(times) ==
    IF times = 1 /\ acLink = "idle" THEN acLink' = "advertising" /\ UNCHANGED acHalt
    ELSE acHalt' = TRUE /\ UNCHANGED acLink

(* connect: called once by the application's set-up.                       *)
Connect ==
    /\ ~acHalt /\ acSeen.connects = 0
    /\ Advertise(1)
    /\ acSeen' = [acSeen EXCEPT !.connects = 1]
    /\ UNCHANGED <<rx, acEvents, listenerAdvertises>>

\* pushElements: those that fit
PushElements(r, bytes) ==
    LET room == Rx!RemainingSpace(r)
        push[i \in 0 .. Len(bytes)] ==
            IF i = 0 THEN r
            ELSE IF i <= room THEN Rx!PushElement(push[i - 1], bytes[i]) ELSE push[i - 1]
    IN  push[Len(bytes)]

\* popElements: as many as there are
PopElements(r, n) ==
    LET pop[i \in 0 .. n] ==
            IF i = 0 THEN [ring |-> r, bytes |-> <<>>]
            ELSE IF ~Rx!ElementsAvailable(pop[i - 1].ring) THEN pop[i - 1]
            ELSE [ring |-> Rx!PopElement(pop[i - 1].ring),
                  bytes |-> Append(pop[i - 1].bytes, Rx!Front(pop[i - 1].ring))]
    IN  pop[n]

\* onBleEvt leaves it to the listener
OnDisconnected_Silent ==
    IF listenerAdvertises THEN Advertise(1) ELSE UNCHANGED <<acLink, acHalt>>

\* onBleEvt advertises, and so may the listener that it calls
OnDisconnected == Advertise(IF listenerAdvertises THEN 2 ELSE 1)

(* bleEvtDispatch calls onBleEvt, and that the listener; the UART service  *)
(* calls dataReceived.                                                     *)
DispatchEvent ==
    /\ ~acHalt /\ acEvents # <<>>
    /\ acEvents' = Tail(acEvents)
    /\ LET e == Head(acEvents)
       IN  \/ e.event = "CONNECTED" /\ UNCHANGED <<rx, acLink, acHalt, acSeen>>
           \/ /\ e.event = "DISCONNECTED"
              /\ OnDisconnected
              /\ UNCHANGED <<rx, acSeen>>
           \/ /\ e.event = "WRITE"
              /\ rx' = PushElements(rx, e.bytes)
              /\ acSeen' = [acSeen EXCEPT
                    !.refused = @ \union {e.bytes[i] :
                        i \in Rx!RemainingSpace(rx) + 1 .. Len(e.bytes)}]
              /\ UNCHANGED <<acLink, acHalt>>
    /\ UNCHANGED listenerAdvertises

(* receive: an error when fewer bytes are there than asked for, which it   *)
(* takes from the buffer all the same.                                     *)
Receive(n) ==
    /\ ~acHalt /\ Rx!ElementsAvailable(rx)
    /\ LET got == PopElements(rx, n)
       IN  /\ rx' = got.ring
           /\ acSeen' = [acSeen EXCEPT !.popped = @ \o got.bytes,
                 !.withError = IF Len(got.bytes) < n
                               THEN @ \union {got.bytes[i] : i \in 1 .. Len(got.bytes)} ELSE @]
    /\ UNCHANGED <<acLink, acEvents, listenerAdvertises, acHalt>>

-----------------------------------------------------------------------------
AcNext ==
    \/ PeerConnects \/ LinkLost \/ PacketComes
    \/ Connect \/ DispatchEvent
    \/ \E n \in 1 .. MaxPacket : Receive(n)

AcSpec == AcInit /\ [][AcNext]_acVars

-----------------------------------------------------------------------------
(* Properties.                                                             *)

Held == [i \in 1 .. Buffered |-> rx.buf[Rx!SlotOf(rx, i)]]
InEvents == UNION {{acEvents[i].bytes[j] : j \in 1 .. Len(acEvents[i].bytes)} :
                      i \in 1 .. Len(acEvents)}
Members(s) == {s[i] : i \in 1 .. Len(s)}

(* Every byte received is waiting, has been refused by a full buffer, or   *)
(* has been taken by receive, once and in order, although receive reports  *)
(* an error for the last bytes it takes out of a buffer that it empties.   *)
(* The space that is said to remain is exact.                              *)
ReceivedInOrder ==
    LET kept == acSeen.popped \o Held
    IN  /\ \A i, j \in 1 .. Len(kept) : i < j => kept[i] < kept[j]
        /\ Members(kept) \intersect acSeen.refused = {}
        /\ Members(kept) \union acSeen.refused \union InEvents = 1 .. acSeen.came
        /\ acSeen.withError \subseteq Members(acSeen.popped)
        /\ Rx!RemainingSpace(rx) = RxSize - Buffered

(* A transceiver that has been connected is always reachable: when no      *)
(* event waits, it advertises or has a link.  It stops the system only     *)
(* together with a listener that also advertises after a disconnection.    *)
AlwaysConnects ==
    /\ acHalt => listenerAdvertises
    /\ acSeen.connects > 0 /\ acEvents = <<>> /\ ~acHalt => acLink # "idle"

(* The buffered transceiver serves its links: it loses no byte without     *)
(* saying so, and no connection for good.                                  *)
LinkServed == ReceivedInOrder /\ AlwaysConnects
=============================================================================
