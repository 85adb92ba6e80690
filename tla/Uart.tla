--------------------------------- MODULE Uart ---------------------------------
(***************************************************************************)
(* The serial port (src/arduino/core/wuart.cpp, wuartclass.cpp and         *)
(* wuartbuff.cpp): the UART with its receive FIFO and its error flags, the *)
(* handler of its interrupt, and the ring buffer between the handler and   *)
(* the main thread.  A byte is the number of its arrival.                  *)
(*                                                                         *)
(* The peripheral is external: RXD shows the oldest byte of the FIFO, and  *)
(* RXDRDY happens when a byte moves there.                                 *)
(***************************************************************************)
EXTENDS Integers, Sequences

CONSTANTS BuffSize,   \* SERIAL_BUFFER_MAX_SIZE
          FifoSize,   \* bytes that the UART keeps (6)
          MaxBytes,   \* bound: bytes that come
          MaxSent,    \* bound: bytes that the program writes
          MaxBegins   \* bound: calls of begin

ASSUME UartAssumption == BuffSize \in Nat \ {0} /\ FifoSize \in Nat \ {0}

VARIABLES uartState,        \* UART0_State
          rxOn, irqOn,      \* the receiver is started, the interrupt enabled
          fifo, rxdrdy,     \* RXD and what waits behind it; EVENTS_RXDRDY
          errorsrc,         \* ERRORSRC
          irqByte,          \* the byte that the handler has taken, or 0
          rxBuff, rxHead, rxTail,
          uartCall,         \* what the main thread is in the middle of
          txByte, txdrdy,   \* a byte is being sent; EVENTS_TXDRDY
          uartSeen          \* what has happened: a record, see UartInit

rxVars   == <<fifo, rxdrdy, errorsrc, irqByte>>
ringVars == <<rxBuff, rxHead, rxTail>>
txVars   == <<txByte, txdrdy>>
uartVars == <<uartState, rxOn, irqOn, rxVars, ringVars, uartCall, txVars, uartSeen>>

UartInit ==
    /\ uartState = "notStart" /\ rxOn = FALSE /\ irqOn = FALSE
    /\ fifo = <<>> /\ rxdrdy = FALSE /\ errorsrc = {} /\ irqByte = 0
    /\ rxBuff = [i \in 0 .. BuffSize - 1 |-> 0] /\ rxHead = 0 /\ rxTail = 0
    /\ uartCall = "none"
    /\ txByte = FALSE /\ txdrdy = FALSE
    /\ uartSeen = [came |-> 0, sent |-> 0, begins |-> 0, got |-> <<>>, bad |-> {},
                   discarded |-> {}, refused |-> {}, backlog |-> FALSE, blind |-> FALSE,
                   again |-> FALSE, cut |-> FALSE]

\* the main thread runs only when no handler does
MainRuns == irqByte = 0
Between  == MainRuns /\ uartCall = "none"

\* UART0_WaitTXFinish, and the loops of UART0_TX and UART0_Stop
TxFinished == uartState = "afterFirstTX" => txdrdy

-----------------------------------------------------------------------------
(* begin: UART0_StartTx, which does nothing when the UART is started, and  *)
(* UART0_Start, which then starts the receiver in any case.                *)
Started == IF uartState = "notStart" THEN "beforeFirstTX" ELSE uartState

BeginTx ==
    /\ Between /\ uartSeen.begins < MaxBegins
    /\ uartState' = Started
    /\ uartSeen' = [uartSeen EXCEPT !.begins = @ + 1]
    /\ UNCHANGED <<rxOn, irqOn, rxVars, ringVars, uartCall, txVars>>

Begin ==
    /\ Between /\ uartSeen.begins < MaxBegins
    /\ uartState' = Started
    /\ rxOn' = TRUE
    /\ uartCall' = "begin"
    /\ uartSeen' = [uartSeen EXCEPT !.begins = @ + 1, !.again = @ \/ uartState # "notStart"]
    /\ UNCHANGED <<irqOn, rxVars, ringVars, txVars>>

(* The event is cleared after the receiver has started.                    *)
BeginClears ==
    /\ MainRuns /\ uartCall = "begin"
    /\ rxdrdy' = FALSE
    /\ irqOn' = TRUE
    /\ uartState' = "beforeFirstTX"
    /\ uartCall' = "none"
    /\ uartSeen' = [uartSeen EXCEPT !.blind = @ \/ fifo # <<>>]
    /\ UNCHANGED <<rxOn, fifo, errorsrc, irqByte, ringVars, txVars>>

(* end: UART0_Stop waits for the byte being sent, if it knows of one.      *)
End ==
    /\ Between
    /\ TxFinished
    /\ IF uartState = "notStart" THEN UNCHANGED <<uartState, rxOn, irqOn, fifo, txByte>>
       ELSE /\ uartState' = "notStart" /\ rxOn' = FALSE /\ irqOn' = FALSE
            /\ fifo' = <<>> /\ txByte' = FALSE
    /\ rxHead' = rxTail
    /\ uartSeen' = [uartSeen EXCEPT !.cut = @ \/ (uartState # "notStart" /\ txByte),
                                     !.backlog = @ \/ fifo # <<>>]
    /\ UNCHANGED <<rxdrdy, errorsrc, irqByte, rxBuff, rxTail, uartCall, txdrdy>>

-----------------------------------------------------------------------------
(* Reception.                                                              *)

(* A byte comes, perhaps with a framing error, or finds the FIFO full.     *)
ByteArrives(bad) ==
    /\ rxOn /\ uartSeen.came < MaxBytes
    /\ LET n == uartSeen.came + 1
       IN  /\ uartSeen' = [uartSeen EXCEPT !.came = n,
                              !.bad = IF bad THEN @ \union {n} ELSE @,
                              !.backlog = @ \/ fifo # <<>> \/ irqByte # 0]
           /\ IF Len(fifo) = FifoSize
              THEN errorsrc' = errorsrc \union {"overrun"} /\ UNCHANGED <<fifo, rxdrdy>>
              ELSE /\ fifo' = Append(fifo, n)
                   /\ rxdrdy' = (rxdrdy \/ fifo = <<>>)
                   /\ errorsrc' = IF bad THEN errorsrc \union {"framing"} ELSE errorsrc
    /\ UNCHANGED <<uartState, rxOn, irqOn, irqByte, ringVars, uartCall, txVars>>

\* the event is cleared after RXD has been read
IrqTakes_ClearsLate ==
    /\ irqOn /\ rxdrdy /\ irqByte = 0 /\ fifo # <<>>
    /\ irqByte' = Head(fifo)
    /\ fifo' = Tail(fifo)
    /\ rxdrdy' = FALSE
    /\ UNCHANGED <<uartState, rxOn, irqOn, errorsrc, ringVars, uartCall, txVars, uartSeen>>

(* irq_handler clears the event and reads RXD, where the next byte moves.  *)
IrqTakes ==
    /\ irqOn /\ rxdrdy /\ irqByte = 0 /\ fifo # <<>>
    /\ irqByte' = Head(fifo)
    /\ fifo' = Tail(fifo)
    /\ rxdrdy' = (Tail(fifo) # <<>>)
    /\ UNCHANGED <<uartState, rxOn, irqOn, errorsrc, ringVars, uartCall, txVars, uartSeen>>

\* UART0_CheckRXError clears one flag at a time
Flag == IF "overrun" \in errorsrc THEN "overrun" ELSE "framing"

(* A byte is discarded when a flag is set, whosever it is,                 *)
IrqDiscards ==
    /\ irqByte # 0 /\ errorsrc # {}
    /\ errorsrc' = errorsrc \ {Flag}
    /\ irqByte' = 0
    /\ uartSeen' = [uartSeen EXCEPT !.discarded = @ \union {irqByte}]
    /\ UNCHANGED <<uartState, rxOn, irqOn, fifo, rxdrdy, ringVars, uartCall, txVars>>

NextHead == (rxHead + 1) % BuffSize

(* or stored, unless the ring is full (store_char).                        *)
IrqStores ==
    /\ irqByte # 0 /\ errorsrc = {}
    /\ IF NextHead = rxTail
       THEN /\ uartSeen' = [uartSeen EXCEPT !.refused = @ \union {irqByte}]
            /\ UNCHANGED <<rxBuff, rxHead>>
       ELSE /\ rxBuff' = [rxBuff EXCEPT ![rxHead] = irqByte]
            /\ rxHead' = NextHead
            /\ UNCHANGED uartSeen
    /\ irqByte' = 0
    /\ UNCHANGED <<uartState, rxOn, irqOn, fifo, rxdrdy, errorsrc, rxTail, uartCall, txVars>>

(* read: the byte is looked at, then the tail moves.                       *)
ReadLooks ==
    /\ Between /\ rxHead # rxTail
    /\ uartCall' = "read"
    /\ uartSeen' = [uartSeen EXCEPT !.got = Append(@, rxBuff[rxTail])]
    /\ UNCHANGED <<uartState, rxOn, irqOn, rxVars, ringVars, txVars>>

ReadMoves ==
    /\ MainRuns /\ uartCall = "read"
    /\ rxTail' = (rxTail + 1) % BuffSize
    /\ uartCall' = "none"
    /\ UNCHANGED <<uartState, rxOn, irqOn, rxVars, rxBuff, rxHead, txVars, uartSeen>>

-----------------------------------------------------------------------------
(* write: UART0_TX waits for the byte before, if it knows of one; a UART   *)
(* that is not started sends nothing.                                      *)
Write ==
    /\ Between /\ uartSeen.sent < MaxSent
    /\ TxFinished
    /\ txdrdy' = FALSE /\ txByte' = (uartState # "notStart")
    /\ uartState' = IF uartState = "beforeFirstTX" THEN "afterFirstTX" ELSE uartState
    /\ uartSeen' = [uartSeen EXCEPT !.sent = @ + 1, !.cut = @ \/ txByte]
    /\ UNCHANGED <<rxOn, irqOn, rxVars, ringVars, uartCall>>

(* flush waits in the same way: the caller takes all as sent.              *)
Flush ==
    /\ Between /\ TxFinished
    /\ uartSeen' = [uartSeen EXCEPT !.cut = @ \/ txByte]
    /\ UNCHANGED <<uartState, rxOn, irqOn, rxVars, ringVars, uartCall, txVars>>

ByteIsSent ==
    /\ txByte
    /\ txByte' = FALSE /\ txdrdy' = TRUE
    /\ UNCHANGED <<uartState, rxOn, irqOn, rxVars, ringVars, uartCall, uartSeen>>

-----------------------------------------------------------------------------
UartNext ==
    \/ BeginTx \/ Begin \/ BeginClears \/ End
    \/ \E bad \in BOOLEAN : ByteArrives(bad)
    \/ IrqTakes \/ IrqDiscards \/ IrqStores
    \/ ReadLooks \/ ReadMoves \/ Write \/ Flush \/ ByteIsSent

UartSpec == UartInit /\ [][UartNext]_uartVars

-----------------------------------------------------------------------------
(* Properties.                                                             *)

\* the bytes in the ring, of which one may have been looked at
Unread == (BuffSize + rxHead - rxTail) % BuffSize
Waiting   == [i \in 1 .. Unread |-> rxBuff[(rxTail + i - 1) % BuffSize]]
Behind    == IF uartCall = "read" /\ Waiting # <<>> THEN Tail(Waiting) ELSE Waiting
Delivered == uartSeen.got \o Behind

(* What the program reads and will read are bytes that came, each once and *)
(* in their order.  As long as the handler keeps up with the bytes it      *)
(* discards exactly the ones with an error; behind a backlog, or after an  *)
(* end that leaves its flag set, an error may cost another byte.  The event*)
(* of a byte that waits is never lost, but for one that comes while begin  *)
(* starts the receiver.  And only after a begin without an end is a byte   *)
(* overwritten in TXD, cut off, or still being sent when flush returns.    *)
SerialInOrder ==
    /\ \A i, j \in 1 .. Len(Delivered) : i < j => Delivered[i] < Delivered[j]
    /\ \A i \in 1 .. Len(Delivered) : Delivered[i] \notin uartSeen.discarded \union uartSeen.refused
    /\ ~uartSeen.backlog =>
          /\ uartSeen.discarded \subseteq uartSeen.bad
          /\ \A i \in 1 .. Len(Delivered) : Delivered[i] \notin uartSeen.bad
    /\ irqOn /\ fifo # <<>> => rxdrdy \/ uartSeen.blind
    /\ uartSeen.cut => uartSeen.again
=============================================================================
