------------------------------ MODULE SoftSerial ------------------------------
(***************************************************************************)
(* The bit-banged serial transmitter (src/libraries/arduino_libraries/     *)
(* AltSoftSerial) over SoftDevice radio timeslots (src/libraries/timeslot).*)
(*                                                                         *)
(* The main thread runs writeByte, and the SoC event handler through the   *)
(* scheduler.  The SoftDevice runs radio_callback at the highest interrupt *)
(* level: each signal is one step, and can fall between any two of the     *)
(* main thread's steps (pc).  The two share the transmit ring and          *)
(* _b_uartBusy without any lock.                                           *)
(***************************************************************************)
EXTENDS RingBuffer

CONSTANTS StopBitPos,   \* UART_STOP_BIT_POS: the number of data bits
          MaxWrites,    \* bound: bytes accepted in one behaviour
          FastWrite     \* timing: a frame that starts during a call of
                        \* writeByte does not end before the call does

ASSUME SerialAssumption ==
    StopBitPos \in Nat \ {0} /\ MaxWrites \in Nat /\ FastWrite \in BOOLEAN

VARIABLES
    tx,          \* _txBuffer
    busy,        \* _b_uartBusy
    sendByte,    \* _u8_sendByte
    bitPos,      \* _bit_pos
    slotLength,  \* m_slot_length: "uninitialized" or "set"
    request,     \* m_timeslot_request.request_type
    session,     \* the SoftDevice's radio session
    soc,         \* SoC events signalled and not yet dispatched
    pc,          \* where the main thread is in writeByte
    halted,      \* "no", or the call whose error check stopped the system
    refused,     \* the last request of writeByte was refused
    popped,      \* the current call of writeByte saw a byte leave the ring
    accepted,    \* the bytes that entered the ring, in order
    taken,       \* how many of them left it again
    frame,       \* the data bits of the frame being sent, each as its byte
    received     \* the frames completed on the line

callVars == <<pc, refused, popped>>
lineVars == <<sendByte, bitPos, frame, received>>
vars == <<tx, busy, slotLength, request, session, soc, halted, accepted, taken,
          callVars, lineVars>>

Sessions == {"closed", "idle", "pending", "active", "extending", "ending"}
SocEvents == {"BLOCKED", "CANCELED", "SESSION_IDLE"}
Steps == {"idle", "incr", "toggle", "reset", "test", "request", "setBusy"}

TypeOK ==
    /\ tx \in Ring
    /\ busy \in BOOLEAN
    /\ sendByte \in Elem
    /\ bitPos \in 0 .. StopBitPos + 1
    /\ slotLength \in {"uninitialized", "set"}
    /\ request \in {"none", "earliest", "normal"}
    /\ session \in Sessions
    /\ soc \subseteq SocEvents
    /\ pc \in Steps
    /\ halted \in {"no", "begin", "retry"}
    /\ refused \in BOOLEAN
    /\ popped \in BOOLEAN
    /\ accepted \in Seq(Elem)
    /\ taken \in Nat
    /\ frame \in Seq(Elem)
    /\ received \in Seq(Seq(Elem))

Init ==
    /\ tx = EmptyRing
    /\ busy = FALSE /\ sendByte = Zero /\ bitPos = 0
    /\ slotLength = "uninitialized" /\ request = "none"
    /\ session = "closed" /\ soc = {}
    /\ pc = "idle" /\ halted = "no" /\ refused = FALSE /\ popped = FALSE
    /\ accepted = <<>> /\ taken = 0 /\ frame = <<>> /\ received = <<>>

Running == halted = "no"

-----------------------------------------------------------------------------
(* timeslot.c, called from the main thread.                                *)

\* request_next_event_normal's choice of type: earliest for the first one
NormalOrFirst == IF slotLength = "uninitialized" THEN "earliest" ELSE "normal"

\* configure_next_event_earliest / _normal
Configure(type) == slotLength' = "set" /\ request' = type

\* sd_radio_request: a timeslot is granted to an idle session only
RequestAccepted == session = "idle"

\* register_timeslot_start_cb, register_timer0_timeslot_IRQ: only once
Registered == session # "closed"

\* timeslot_sd_init
OpenSession == session' = "idle"

(* AltSoftSerial::begin.  A second call runs into the registration checks, *)
(* which stop the system: end() unregisters nothing.                       *)
Begin ==
    /\ Running /\ pc = "idle"
    /\ IF ~Registered THEN OpenSession /\ UNCHANGED halted
                      ELSE halted' = "begin" /\ UNCHANGED session
    /\ UNCHANGED <<tx, busy, slotLength, request, soc, accepted, taken,
                   callVars, lineVars>>

-----------------------------------------------------------------------------
(* AltSoftSerial::writeByte.                                               *)

(* The call: a full ring refuses the byte, otherwise it is stored in the   *)
(* slot that end points to, which no reader looks at yet.                  *)
WriteByte(b) ==
    /\ Running /\ pc = "idle" /\ session # "closed"
    /\ Len(accepted) < MaxWrites
    /\ ~IsFull(tx)
    /\ tx' = StoreElement(tx, b)
    /\ pc' = "incr" /\ popped' = FALSE
    /\ UNCHANGED <<busy, slotLength, request, session, soc, halted, accepted,
                   taken, refused, lineVars>>

(* incrPtr on the end index: increment ...                                 *)
PushIncr ==
    /\ Running /\ pc = "incr"
    /\ tx' = IncrEnd(tx)
    /\ accepted' = Append(accepted, tx.buf[tx.end])
    /\ pc' = IF EndWraps(tx') THEN "toggle" ELSE "test"
    /\ UNCHANGED <<busy, slotLength, request, session, soc, halted, taken,
                   refused, popped, lineVars>>

(* ... toggle the mirror bit ...                                           *)
PushToggle ==
    /\ Running /\ pc = "toggle"
    /\ tx' = ToggleEnd(tx) /\ pc' = "reset"
    /\ UNCHANGED <<busy, slotLength, request, session, soc, halted, accepted,
                   taken, refused, popped, lineVars>>

(* ... and restart from slot 0.                                            *)
PushReset ==
    /\ Running /\ pc = "reset"
    /\ tx' = ResetEnd(tx) /\ pc' = "test"
    /\ UNCHANGED <<busy, slotLength, request, session, soc, halted, accepted,
                   taken, refused, popped, lineVars>>

(* A busy transmitter will find the byte in the ring, an idle one needs a  *)
(* timeslot.                                                               *)
TestBusy ==
    /\ Running /\ pc = "test"
    /\ pc' = IF busy THEN "idle" ELSE "request"
    /\ UNCHANGED <<tx, busy, slotLength, request, session, soc, halted,
                   accepted, taken, refused, popped, lineVars>>

(* The request.  A refusal leaves the byte in the ring, and writeByte      *)
(* reports success all the same.                                           *)
RequestSlot ==
    /\ Running /\ pc = "request"
    /\ Configure(NormalOrFirst)
    /\ refused' = ~RequestAccepted
    /\ IF RequestAccepted
       THEN session' = "pending" /\ pc' = "setBusy" /\ UNCHANGED busy
       ELSE pc' = "idle" /\ busy' = FALSE /\ UNCHANGED session
    /\ UNCHANGED <<tx, soc, halted, accepted, taken, popped, lineVars>>

(* Busy is set only now, after the SoftDevice took the request.            *)
SetBusy ==
    /\ Running /\ pc = "setBusy"
    /\ busy' = TRUE /\ pc' = "idle"
    /\ UNCHANGED <<tx, slotLength, request, session, soc, halted, accepted,
                   taken, refused, popped, lineVars>>

Write == \/ \E b \in Elem : WriteByte(b)
         \/ PushIncr \/ PushToggle \/ PushReset
         \/ TestBusy \/ RequestSlot \/ SetBusy

-----------------------------------------------------------------------------
(* nrf_evt_signal_handler, run by the main loop: a request that found no   *)
(* room is made again, and a refusal of it stops the system.               *)
SocEvent(e) ==
    /\ Running /\ pc = "idle" /\ e \in soc
    /\ soc' = soc \ {e}
    /\ IF e \in {"BLOCKED", "CANCELED"}
       THEN /\ Configure("earliest")
            /\ IF RequestAccepted THEN session' = "pending" /\ UNCHANGED halted
                                  ELSE halted' = "retry" /\ UNCHANGED session
       ELSE UNCHANGED <<slotLength, request, session, halted>>
    /\ UNCHANGED <<tx, busy, accepted, taken, callVars, lineVars>>

-----------------------------------------------------------------------------
(* radio_callback and the two functions it calls, at interrupt level 0.    *)

\* scheduleNextTimeslot, for the actions that AltSoftSerial returns
ScheduleNext(action) ==
    \/ action = "NONE" /\ session' = "active"
    \/ action = "END" /\ session' = "ending"
    \/ action = "EXTEND" /\ session' = "extending"

\* the END branch forgets to release the transmitter
Release_Forgotten == ScheduleNext("END") /\ UNCHANGED busy

\* nothing (more) to send: END the timeslot and release the transmitter
Release == ScheduleNext("END") /\ busy' = FALSE

(* AltSoftSerial::prepare: take the next byte and send its start bit.      *)
Prepare ==
    /\ IF ElementsAvailable(tx)
       THEN /\ sendByte' = Front(tx) /\ tx' = PopElement(tx)
            /\ taken' = taken + 1 /\ frame' = <<>> /\ popped' = TRUE
            /\ ScheduleNext("NONE") /\ UNCHANGED busy
       ELSE Release /\ UNCHANGED <<tx, sendByte, taken, frame, popped>>
    /\ UNCHANGED <<slotLength, request, soc, halted, accepted, pc, refused,
                   bitPos, received>>

SlotStart == Running /\ session = "pending" /\ Prepare

ExtendSucceeded == Running /\ session = "extending" /\ Prepare

\* the timeslot ends without a new one being asked for
ExtendFailed_Ends ==
    /\ Running /\ session = "extending"
    /\ Configure("earliest")
    /\ session' = "ending"
    /\ UNCHANGED <<tx, busy, soc, halted, accepted, taken, callVars, lineVars>>

\* the transmitter is released although its byte waits for another timeslot
ExtendFailed_Releases ==
    /\ Running /\ session = "extending"
    /\ Configure("earliest")
    /\ session' = "pending" /\ busy' = FALSE
    /\ UNCHANGED <<tx, soc, halted, accepted, taken, callVars, lineVars>>

(* The extension was refused: ask for a new timeslot and end this one.     *)
ExtendFailed ==
    /\ Running /\ session = "extending"
    /\ Configure("earliest")
    /\ session' = "pending"
    /\ UNCHANGED <<tx, busy, soc, halted, accepted, taken, callVars, lineVars>>

(* AltSoftSerial::txTimer0IRQ, one bit time after the other: data bits,    *)
DataBit ==
    /\ Running /\ session = "active" /\ bitPos < StopBitPos
    /\ frame' = Append(frame, sendByte) /\ bitPos' = bitPos + 1
    /\ UNCHANGED <<tx, busy, slotLength, request, session, soc, halted,
                   accepted, taken, callVars, sendByte, received>>

(* stop bit,                                                               *)
StopBit ==
    /\ Running /\ session = "active" /\ bitPos = StopBitPos
    /\ bitPos' = bitPos + 1
    /\ received' = Append(received, frame)
    /\ UNCHANGED <<tx, busy, slotLength, request, session, soc, halted,
                   accepted, taken, callVars, sendByte, frame>>

(* and, once the stop bit is over, extend the timeslot for a buffered byte *)
(* or release the transmitter.                                             *)
FrameEnd ==
    /\ Running /\ session = "active" /\ bitPos = StopBitPos + 1
    /\ FastWrite => ~(popped /\ pc # "idle")
    /\ bitPos' = 0
    /\ IF ElementsAvailable(tx) THEN ScheduleNext("EXTEND") /\ UNCHANGED busy
                                ELSE Release
    /\ UNCHANGED <<tx, slotLength, request, soc, halted, accepted, taken,
                   callVars, sendByte, frame, received>>

-----------------------------------------------------------------------------
(* The SoftDevice's scheduler of timeslots.                                *)

(* An ended timeslot leaves the session idle a little later.               *)
SlotEnded ==
    /\ Running /\ session = "ending"
    /\ session' = "idle" /\ soc' = soc \union {"SESSION_IDLE"}
    /\ UNCHANGED <<tx, busy, slotLength, request, halted, accepted, taken,
                   callVars, lineVars>>

(* A requested timeslot that collides with the radio's own activity.       *)
SlotLost(e) ==
    /\ Running /\ session = "pending"
    /\ session' = "idle" /\ soc' = soc \union {e, "SESSION_IDLE"}
    /\ UNCHANGED <<tx, busy, slotLength, request, halted, accepted, taken,
                   callVars, lineVars>>

Signal == \/ SlotStart \/ ExtendSucceeded \/ ExtendFailed
          \/ DataBit \/ StopBit \/ FrameEnd

Next == \/ Begin
        \/ Write
        \/ \E e \in SocEvents : SocEvent(e)
        \/ Signal
        \/ SlotEnded
        \/ \E e \in {"BLOCKED", "CANCELED"} : SlotLost(e)

(* The main thread finishes its call and polls the scheduler; the timer    *)
(* and the SoftDevice answer; a timeslot asked for again and again is      *)
(* granted in the end, whatever the radio's own load.                      *)
Fairness ==
    /\ WF_vars(PushIncr \/ PushToggle \/ PushReset \/ TestBusy \/ RequestSlot \/ SetBusy)
    /\ WF_vars(\E e \in SocEvents : SocEvent(e))
    /\ WF_vars(DataBit \/ StopBit \/ FrameEnd)
    /\ WF_vars(ExtendSucceeded \/ ExtendFailed)
    /\ WF_vars(SlotEnded)
    /\ SF_vars(SlotStart)

Safety == Init /\ [][Next]_vars

Spec == Safety /\ Fairness

-----------------------------------------------------------------------------
(* Properties.                                                             *)

(* The ring once the call in progress has finished moving its end index.   *)
Settled == CASE pc = "toggle" -> ResetEnd(ToggleEnd(tx))
             [] pc = "reset"  -> ResetEnd(tx)
             [] OTHER         -> tx

(* The ring holds exactly the accepted bytes that were not taken yet,      *)
(* oldest first, at whatever point of pushElement the radio interrupt      *)
(* fell (ring_buffer.tpp "FIFO", shared without a lock).                   *)
RingHoldsBacklog == HoldsInOrder(Settled, accepted, taken)

(* Each frame on the line carries the data bits of one accepted byte, the  *)
(* k-th frame those of the k-th byte: no byte is lost, repeated, reordered *)
(* or torn between prepare and the ten timer interrupts of txTimer0IRQ.    *)
FramesFaithful ==
    /\ Len(received) <= Len(accepted)
    /\ \A k \in 1 .. Len(received) :
          received[k] = [i \in 1 .. StopBitPos |-> accepted[k]]

(* What writeByte accepts is at any moment in the ring or behind it on the *)
(* line, once and in order.                                                *)
OnceInOrder == RingHoldsBacklog /\ FramesFaithful

SlotLostPending == {"BLOCKED", "CANCELED"} \cap soc # {}

(* While a timeslot is asked for, granted or to be asked for again,        *)
(* _b_uartBusy is set, except in the instant before writeByte sets it:     *)
(* writeByte never requests a second timeslot.                             *)
BusyWhileAsked ==
    session \in {"pending", "active", "extending"} \/ SlotLostPending
        => busy \/ pc = "setBusy"

(* The error check on the repeated request (timeslot.c, BLOCKED and        *)
(* CANCELED) never stops the system.                                       *)
RetryNeverRefused == halted # "retry"

(* The busy flag guards the radio: no second timeslot is asked for, and a  *)
(* lost one can always be asked for again.                                 *)
BusyCoversSlot == BusyWhileAsked /\ RetryNeverRefused

(* "We have to wait until STOP bit is finished before releasing            *)
(* m_uart_busy": with the session idle again and nothing to retry, the     *)
(* transmitter has been released.                                          *)
ReleasedAfterStop ==
    pc = "idle" /\ session = "idle" /\ ~SlotLostPending => ~busy

(* The unlocked hand-over between writeByte and the end of a frame leaves  *)
(* no byte in the ring of an idle transmitter, unless the SoftDevice       *)
(* refused the timeslot that writeByte asked for.                          *)
OnlyRefusalStrands ==
    pc = "idle" /\ ~busy /\ taken < Len(accepted) => refused

(* An idle transmitter has been released and has nothing left to send.     *)
HandedOver == ReleasedAfterStop /\ OnlyRefusalStrands

(* A busy transmitter becomes idle again, however often its timeslots are  *)
(* blocked, cancelled or not extended.                                     *)
Drains == busy ~> ~busy \/ ~Running
=============================================================================
