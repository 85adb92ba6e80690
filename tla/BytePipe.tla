------------------------------- MODULE BytePipe -------------------------------
(***************************************************************************)
(* What a buffered serial transmitter promises: every byte it accepts      *)
(* appears on the line, once, whole, and in the order of acceptance; at    *)
(* most Capacity bytes are accepted and not yet on the line.               *)
(***************************************************************************)
EXTENDS Naturals, Sequences

CONSTANTS Byte, Capacity

VARIABLES pending,  \* accepted, not yet completely sent
          line      \* what a receiver at the other end has seen

Init == pending = <<>> /\ line = <<>>

Accept(b) ==
    /\ Len(pending) < Capacity
    /\ pending' = Append(pending, b)
    /\ UNCHANGED line

Deliver ==
    /\ pending # <<>>
    /\ line' = Append(line, Head(pending))
    /\ pending' = Tail(pending)

Next == Deliver \/ \E b \in Byte : Accept(b)

Spec == Init /\ [][Next]_<<pending, line>>
=============================================================================
