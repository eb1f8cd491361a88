------------------------------ MODULE ByteFifo ------------------------------
(***************************************************************************)
(* A bounded queue of bytes: what uart.c promises its reader of the bytes  *)
(* the interrupt handler has accepted, from uart_setup to uart_teardown.   *)
(***************************************************************************)
EXTENDS Naturals, Sequences

CONSTANTS Bytes, Capacity

VARIABLES open, queue, out

Init == open = TRUE /\ queue = <<>> /\ out = <<>>

Put(b) ==
    /\ open /\ Len(queue) < Capacity
    /\ queue' = Append(queue, b)
    /\ UNCHANGED <<open, out>>

Get ==
    /\ open /\ queue # <<>>
    /\ out' = Append(out, Head(queue))
    /\ queue' = Tail(queue)
    /\ UNCHANGED open

Close == open /\ open' = FALSE /\ UNCHANGED <<queue, out>>
Open == ~open /\ open' = TRUE /\ queue' = <<>> /\ UNCHANGED out

Next == Get \/ (\E b \in Bytes : Put(b)) \/ Close \/ Open

Spec == Init /\ [][Next]_<<open, queue, out>>
=============================================================================
