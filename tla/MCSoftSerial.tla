----------------------------- MODULE MCSoftSerial -----------------------------
(***************************************************************************)
(* SoftSerial for TLC, and the byte pipe it implements: a byte is pending  *)
(* from the moment the end index moves past it until its stop bit; a frame *)
(* whose bits come from several bytes would show up as Torn.               *)
(***************************************************************************)
EXTENDS SoftSerial

Torn == 99

OnLine(f) == IF f = [i \in 1 .. StopBitPos |-> f[1]] THEN f[1] ELSE Torn

Pipe == INSTANCE BytePipe WITH
    Byte     <- Elem,
    Capacity <- Size + 1,
    pending  <- SubSeq(accepted, Len(received) + 1, Len(accepted)),
    line     <- [k \in 1 .. Len(received) |-> OnLine(received[k])]

(* The transmitter implements the byte pipe: in-order, whole, exactly-once *)
(* delivery, with one byte more in flight than the ring has slots.         *)
PipeSpec == Pipe!Spec
=============================================================================
