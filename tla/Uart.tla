-------------------------------- MODULE Uart --------------------------------
(***************************************************************************)
(* Reception of bytes: the receiver of USART2, its interrupt handler, the  *)
(* ring buffer and the main loop that empties it.                          *)
(*                                                                         *)
(* The handler preempts the main loop between any two of its memory        *)
(* accesses and runs to its end before the main loop goes on, so each      *)
(* access of the reader that the handler can come between is an action.    *)
(* The compiler keeps their order: a store through uint8_t* may alias the  *)
(* indices.  The receiver waits for neither: a byte may be complete        *)
(* between the handler's reading of the flags and of the data register,    *)
(* so these are two actions.  A byte is identified by its position on the  *)
(* line, 1, 2, 3, ...                                                      *)
(*                                                                         *)
(* Definitions named Mutant... are deliberate mistakes no specification    *)
(* uses.                                                                   *)
(***************************************************************************)
EXTENDS Integers, Sequences

CONSTANTS UART_BUFFER_SIZE,
          MaxBytes          \* bound on the bytes the line delivers

ASSUME SizeAssumption ==
    /\ UART_BUFFER_SIZE \in Nat \ {0, 1} /\ MaxBytes \in Nat
    /\ \E k \in 1..UART_BUFFER_SIZE : UART_BUFFER_SIZE = 2 ^ k

VARIABLES
    enabled,        \* the peripheral and its interrupt are on
    arrived,        \* bytes the line has delivered
    dr, rxne, ore,  \* data register and status flags of the USART
    handler,        \* usart2_isr: "idle", has read the flags ("recv"), or left to
                    \* be entered "again" at once
    overrun_ocured, \* what it has read of ORE, FALSE before
    buffer, read_index, write_index,
    pc,             \* where the reader is in its loop
    local_read_index, byte,
    delivered       \* the bytes uart_read_byte has returned

usart == <<enabled, arrived, dr, rxne, ore>>
isr == <<handler, overrun_ocured>>
ring == <<buffer, read_index, write_index>>
reader == <<pc, local_read_index, byte, delivered>>
vars == <<usart, isr, ring, reader>>

Indices == 0..UART_BUFFER_SIZE - 1
Bytes == 0..MaxBytes                \* 0 is what rx_buffer is filled with

\* Indices are kept in range with "& mask", the size being a power of two.
MutantMaskedLate(i) == IF i > UART_BUFFER_SIZE THEN 0 ELSE i
Masked(i) == i % UART_BUFFER_SIZE

TypeOK ==
    /\ enabled \in BOOLEAN /\ rxne \in BOOLEAN /\ ore \in BOOLEAN
    /\ handler \in {"idle", "recv", "again"} /\ overrun_ocured \in BOOLEAN
    /\ arrived \in Bytes /\ dr \in Bytes /\ byte \in Bytes
    /\ buffer \in [Indices -> Bytes]
    /\ {read_index, write_index, local_read_index} \subseteq Indices
    /\ pc \in {"available", "read", "load", "advance", "stopped"}
    /\ delivered \in Seq(Bytes)

\* uart_setup has run.
Init ==
    /\ enabled = TRUE /\ arrived = 0
    /\ dr = 0 /\ rxne = FALSE /\ ore = FALSE
    /\ handler = "idle" /\ overrun_ocured = FALSE
    /\ buffer = [i \in Indices |-> 0]
    /\ read_index = 0 /\ write_index = 0
    /\ pc = "available" /\ local_read_index = 0 /\ byte = 0
    /\ delivered = <<>>

-----------------------------------------------------------------------------
\* The line completes a byte.  It is lost when the USART is off or the one before
\* is still in the data register.
Arrive ==
    /\ arrived < MaxBytes
    /\ arrived' = arrived + 1
    /\ CASE ~enabled -> UNCHANGED <<dr, rxne, ore>>
         [] enabled /\ rxne -> ore' = TRUE /\ UNCHANGED <<dr, rxne>>
         [] OTHER -> dr' = arrived + 1 /\ rxne' = TRUE /\ UNCHANGED ore
    /\ UNCHANGED <<enabled, isr, ring, reader>>

\* ring_buffer_write, which leaves a slot free: full and empty differ.
MutantWriteUnchecked(b) ==
    /\ buffer' = [buffer EXCEPT ![write_index] = b]
    /\ write_index' = Masked(write_index + 1)
ring_buffer_write(b) ==
    LET next_write_index == Masked(write_index + 1) IN
    IF next_write_index = read_index
    THEN UNCHANGED <<buffer, write_index>>
    ELSE /\ buffer' = [buffer EXCEPT ![write_index] = b]
         /\ write_index' = next_write_index

\* Overrun interrupts on the same line as reception.  The flags are read one after
\* the other; a byte between the two readings is as if it came before both.
ReadFlags ==
    /\ enabled /\ (rxne \/ ore) /\ handler # "recv"
    /\ handler' = "recv" /\ overrun_ocured' = ore
    /\ UNCHANGED <<usart, ring, reader>>

\* Reading the data register clears RXNE, but ORE only if it was there when the
\* flags were read (the reference manual of the STM32F446, USART_SR).  If not, the
\* interrupt is still pending and is taken before the main loop goes on.
ReadData ==
    /\ handler = "recv"
    /\ ring_buffer_write(dr)
    /\ rxne' = FALSE /\ ore' = (ore /\ ~overrun_ocured)
    /\ handler' = (IF ore' THEN "again" ELSE "idle") /\ overrun_ocured' = FALSE
    /\ UNCHANGED <<enabled, arrived, dr, read_index, reader>>

usart2_isr == ReadFlags \/ ReadData

-----------------------------------------------------------------------------
(* The reader: while(uart_data_available()) uart_read_byte().  It goes on  *)
(* when the handler has.                                                   *)

MutantEmptyNoWrap == read_index >= write_index
ring_buffer_is_empty == read_index = write_index

uart_data_available ==
    /\ handler = "idle" /\ pc = "available"
    /\ ~ring_buffer_is_empty
    /\ pc' = "read"
    /\ UNCHANGED <<usart, isr, ring, local_read_index, byte, delivered>>

\* ring_buffer_read looks at both indices again; uart_read_byte returns 0 if it
\* finds nothing.
LoadIndices ==
    /\ handler = "idle" /\ pc = "read"
    /\ local_read_index' = read_index
    /\ IF read_index = write_index
       THEN pc' = "available" /\ delivered' = Append(delivered, 0)
       ELSE pc' = "load" /\ UNCHANGED delivered
    /\ UNCHANGED <<usart, isr, ring, byte>>

LoadByte ==
    /\ handler = "idle" /\ pc = "load"
    /\ byte' = buffer[local_read_index]
    /\ pc' = "advance"
    /\ UNCHANGED <<usart, isr, ring, local_read_index, delivered>>

Advance ==
    /\ handler = "idle" /\ pc = "advance"
    /\ read_index' = Masked(local_read_index + 1)
    /\ delivered' = Append(delivered, byte)
    /\ pc' = "available"
    /\ UNCHANGED <<usart, isr, buffer, write_index, local_read_index, byte>>

\* After the main loop, before the application is started.
uart_teardown ==
    /\ handler = "idle" /\ pc = "available" /\ enabled
    /\ enabled' = FALSE /\ pc' = "stopped"
    /\ UNCHANGED <<arrived, dr, rxne, ore, isr, ring, local_read_index, byte, delivered>>

\* The next program starts; it may find a byte in the data register.
uart_setup ==
    /\ pc = "stopped"
    /\ enabled' = TRUE /\ pc' = "available"
    /\ buffer' = [i \in Indices |-> 0]
    /\ read_index' = 0 /\ write_index' = 0
    /\ UNCHANGED <<arrived, dr, rxne, ore, isr, local_read_index, byte, delivered>>

Reader == uart_data_available \/ LoadIndices \/ LoadByte \/ Advance

Next == Arrive \/ usart2_isr \/ Reader \/ uart_teardown \/ uart_setup

Spec == Init /\ [][Next]_vars

-----------------------------------------------------------------------------
(* Properties.                                                             *)

\* The bytes between the two indices, oldest first.
Contents ==
    [k \in 1..Masked(write_index - read_index + UART_BUFFER_SIZE) |->
        buffer[Masked(read_index + k - 1)]]

Fifo == INSTANCE ByteFifo WITH
    Capacity <- UART_BUFFER_SIZE - 1, open <- enabled, queue <- Contents, out <- delivered

\* For its reader the ring is a queue: the handler never overwrites a byte that
\* has not been returned, wherever in ring_buffer_read it strikes.
ImplementsFifo == Fifo!Spec

\* The bytes that have come this far, from the reader back to the data register
\* if the handler is to read it.
Seen == delivered \o Contents \o (IF rxne \/ ore THEN <<dr>> ELSE <<>>)

\* Bytes are lost, to a full ring or an overrun, but what the reader gets are bytes
\* of the line in their order, none out of nothing (the 0 of uart_read_byte).  An
\* overrun between the handler's two readings makes it read a byte a second time
\* (uart.c:45-47 leave that out): never a third, and always in place of the next
\* byte, which is lost.
RepeatsStandForLost ==
    /\ \A i \in 1..Len(Seen) : Seen[i] \in 1..arrived
    /\ \A i, j \in 1..Len(Seen) :
        /\ i < j => Seen[i] <= Seen[j]
        /\ i + 1 < j => Seen[i] < Seen[j]
        /\ i < j /\ Seen[i] = Seen[j] => Seen[i] < arrived
    /\ \A i, j, k \in 1..Len(Seen) : i < j /\ Seen[i] = Seen[j] => Seen[k] # Seen[i] + 1
=============================================================================
