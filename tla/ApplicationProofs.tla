------------------------- MODULE ApplicationProofs -------------------------
(***************************************************************************)
(* The ring of uart.c is a queue; bytes are lost, and repeated in place of *)
(* lost ones, but never reordered or invented, for every ring size and     *)
(* wherever the interrupt strikes or the line completes a byte.  So it is  *)
(* under the bootloader and the application after it.  The LED never steps *)
(* early before the tick count wraps, for every width of it.               *)
(***************************************************************************)
EXTENDS Application, SequenceTheorems, TLAPS

-----------------------------------------------------------------------------
(* The UART, with one reader.                                              *)

N == UART_BUFFER_SIZE

\* Between its accesses to the ring the reader has what it has read.
ReaderHolds ==
    /\ pc = "stopped" <=> ~enabled
    /\ pc \in {"read", "load", "advance"} => read_index # write_index
    /\ pc \in {"load", "advance"} => local_read_index = read_index
    /\ pc = "advance" => byte = buffer[read_index]

\* The handler runs while the peripheral is on, and has seen a flag that is still there.
HandlerHolds ==
    /\ handler # "idle" => enabled
    /\ handler = "recv" => (rxne \/ ore) /\ (overrun_ocured \/ rxne)

\* What RepeatsStandForLost says of a sequence of bytes, and what lets a byte follow it.
Ordered(s) ==
    /\ \A i \in 1..Len(s) : s[i] \in 1..arrived
    /\ \A i, j \in 1..Len(s) :
        /\ i < j => s[i] <= s[j]
        /\ i + 1 < j => s[i] < s[j]
        /\ i < j /\ s[i] = s[j] => s[i] < arrived
    /\ \A i, j, k \in 1..Len(s) : i < j /\ s[i] = s[j] => s[k] # s[i] + 1

MayFollow(s, x) ==
    /\ x \in 1..arrived
    /\ \A i \in 1..Len(s) : s[i] <= x /\ (s[i] = x => x < arrived)
    /\ \A i, j \in 1..Len(s) : i < j => s[i] < x /\ (s[i] = s[j] => x # s[i] + 1)

\* The bytes that the handler has read; the register's is younger, or is the last of
\* them once more in place of one that is lost.
Taken == delivered \o Contents

Ages ==
    /\ Ordered(Taken)
    /\ rxne \/ ore => MayFollow(Taken, dr)
    /\ rxne => \A i \in 1..Len(Taken) : Taken[i] < dr
    /\ handler = "recv" /\ ~overrun_ocured /\ ore => dr < arrived

IInv == TypeOK /\ ReaderHolds /\ HandlerHolds /\ Ages

-----------------------------------------------------------------------------
(* The ring.                                                               *)

LEMMA SizeFacts == N \in Nat /\ N >= 2 /\ MaxBytes \in Nat
BY SizeAssumption DEF N

LEMMA Remainder ==
    ASSUME NEW n \in Nat \ {0}, NEW i \in 0..2 * n - 1
    PROVE  i % n = IF i < n THEN i ELSE i - n
  OBVIOUS

LEMMA MaskedOnce ==
    ASSUME NEW i \in 0..2 * N - 1
    PROVE  Masked(i) = IF i < N THEN i ELSE i - N
<1>1. N \in Nat \ {0}
    BY SizeFacts
<1> QED BY <1>1, Remainder DEF Masked, N

\* What a ring holds between read index r and write index w; how many bytes that
\* is; and the place of the k-th.
ContentsOf(b, r, w) == [k \in 1..Masked(w - r + N) |-> b[Masked(r + k - 1)]]
Count(r, w) == IF r <= w THEN w - r ELSE w - r + N
Place(r, k) == IF r + k - 1 < N THEN r + k - 1 ELSE r + k - 1 - N

LEMMA ContentsAre ==
    ASSUME NEW b \in [Indices -> Bytes], NEW r \in Indices, NEW w \in Indices
    PROVE  /\ Count(r, w) \in 0..N - 1
           /\ \A k \in 1..Count(r, w) : Place(r, k) \in Indices
           /\ ContentsOf(b, r, w) = [k \in 1..Count(r, w) |-> b[Place(r, k)]]
           /\ ContentsOf(b, r, w) \in Seq(Bytes)
           /\ Len(ContentsOf(b, r, w)) = Count(r, w)
<1>1. r \in 0..N - 1 /\ w \in 0..N - 1
    BY DEF Indices, N
<1>2. Masked(w - r + N) = Count(r, w)
    <2> DEFINE i == w - r + N
    <2>1. i \in 0..2 * N - 1
        BY <1>1, SizeFacts
    <2>2. Masked(i) = IF i < N THEN i ELSE i - N
        <3> HIDE DEF i
        <3> QED BY <2>1, MaskedOnce
    <2> QED BY <1>1, <2>2, SizeFacts DEF Count
<1>3. Count(r, w) \in 0..N - 1
    BY <1>1, SizeFacts DEF Count
<1>4. ASSUME NEW k \in 1..Count(r, w)
      PROVE  Masked(r + k - 1) = Place(r, k) /\ Place(r, k) \in Indices
    <2> DEFINE i == r + k - 1
    <2>1. i \in 0..2 * N - 1
        BY <1>1, <1>3, SizeFacts
    <2>2. Masked(i) = IF i < N THEN i ELSE i - N
        <3> HIDE DEF i
        <3> QED BY <2>1, MaskedOnce
    <2>3. Place(r, k) \in 0..N - 1
        BY <1>1, <1>3, SizeFacts DEF Place
    <2>4. (IF i < N THEN i ELSE i - N) = Place(r, k)
        BY <1>1, <1>3, SizeFacts DEF Place
    <2> QED BY <2>2, <2>3, <2>4 DEF Indices, N
<1>5. ContentsOf(b, r, w) = [k \in 1..Count(r, w) |-> b[Place(r, k)]]
    BY <1>2, <1>4 DEF ContentsOf
<1>6. ContentsOf(b, r, w) \in [1..Count(r, w) -> Bytes]
    BY <1>4, <1>5
<1> QED BY <1>3, <1>4, <1>5, <1>6

LEMMA PutAppends ==
    ASSUME NEW b \in [Indices -> Bytes], NEW r \in Indices, NEW w \in Indices,
           NEW x \in Bytes, Masked(w + 1) # r
    PROVE  /\ Len(ContentsOf(b, r, w)) < N - 1
           /\ ContentsOf([b EXCEPT ![w] = x], r, Masked(w + 1))
                = Append(ContentsOf(b, r, w), x)
<1> DEFINE c == [b EXCEPT ![w] = x]
           v == Masked(w + 1)
<1>1. r \in 0..N - 1 /\ w \in 0..N - 1
    BY DEF Indices, N
<1>2. v = IF w + 1 < N THEN w + 1 ELSE 0
    <2>1. w + 1 \in 0..2 * N - 1
        BY <1>1, SizeFacts
    <2> QED BY <1>1, <2>1, MaskedOnce, SizeFacts
<1>3. v \in Indices /\ c \in [Indices -> Bytes]
    BY <1>1, <1>2, SizeFacts DEF Indices, N
<1>4. Count(r, v) = Count(r, w) + 1 /\ Count(r, w) \in Nat /\ Count(r, w) < N - 1
    BY <1>1, <1>2, SizeFacts DEF Count
<1>5. ASSUME NEW k \in 1..Count(r, w)
      PROVE  Place(r, k) \in Indices /\ Place(r, k) # w
    BY <1>1, <1>4, SizeFacts DEF Place, Count, Indices, N
<1>6. Place(r, Count(r, w) + 1) = w
    BY <1>1, <1>4, SizeFacts DEF Place, Count
<1>7. ASSUME NEW k \in 1..Count(r, w) + 1
      PROVE  c[Place(r, k)] = IF k <= Count(r, w) THEN b[Place(r, k)] ELSE x
    <2>1. CASE k \in 1..Count(r, w)
        BY <1>4, <1>5, <2>1
    <2>2. CASE k = Count(r, w) + 1
        BY <1>4, <1>6, <2>2
    <2> QED BY <1>4, <2>1, <2>2
<1>8. ContentsOf(c, r, v) = [k \in 1..Count(r, v) |-> c[Place(r, k)]]
    BY <1>3, ContentsAre
<1>9. /\ ContentsOf(b, r, w) = [k \in 1..Count(r, w) |-> b[Place(r, k)]]
      /\ ContentsOf(b, r, w) \in Seq(Bytes)
      /\ Len(ContentsOf(b, r, w)) = Count(r, w)
    BY ContentsAre
<1>10. Append(ContentsOf(b, r, w), x)
        = [k \in 1..Count(r, w) + 1 |-> IF k <= Count(r, w) THEN b[Place(r, k)] ELSE x]
    BY <1>4, <1>9
<1>11. ContentsOf(c, r, v)
        = [k \in 1..Count(r, w) + 1 |-> IF k <= Count(r, w) THEN b[Place(r, k)] ELSE x]
    <2> HIDE DEF c, v
    <2> QED BY <1>4, <1>7, <1>8
<1> QED BY <1>4, <1>9, <1>10, <1>11

LEMMA GetTakesHead ==
    ASSUME NEW b \in [Indices -> Bytes], NEW r \in Indices, NEW w \in Indices, r # w
    PROVE  /\ Masked(r + 1) \in Indices
           /\ ContentsOf(b, r, w) # <<>>
           /\ Head(ContentsOf(b, r, w)) = b[r]
           /\ ContentsOf(b, Masked(r + 1), w) = Tail(ContentsOf(b, r, w))
<1> DEFINE q == Masked(r + 1)
<1>1. r \in 0..N - 1 /\ w \in 0..N - 1
    BY DEF Indices, N
<1>2. q = IF r + 1 < N THEN r + 1 ELSE 0
    <2>1. r + 1 \in 0..2 * N - 1
        BY <1>1, SizeFacts
    <2> QED BY <1>1, <2>1, MaskedOnce, SizeFacts
<1>3. q \in Indices
    BY <1>1, <1>2, SizeFacts DEF Indices, N
<1>4. Count(q, w) = Count(r, w) - 1 /\ Count(r, w) \in Nat \ {0} /\ Count(r, w) < N
    BY <1>1, <1>2, SizeFacts DEF Count
<1>5. /\ ContentsOf(b, r, w) = [k \in 1..Count(r, w) |-> b[Place(r, k)]]
      /\ ContentsOf(b, r, w) \in Seq(Bytes)
      /\ Len(ContentsOf(b, r, w)) = Count(r, w)
    BY ContentsAre
<1>6. ContentsOf(b, q, w) = [k \in 1..Count(q, w) |-> b[Place(q, k)]]
    BY <1>3, ContentsAre
<1>7. ASSUME NEW k \in 1..Count(r, w) - 1
      PROVE  Place(q, k) = Place(r, k + 1)
    BY <1>1, <1>2, <1>4, SizeFacts DEF Place
<1>8. Tail(ContentsOf(b, r, w)) = [k \in 1..Count(r, w) - 1 |-> b[Place(r, k + 1)]]
    BY <1>4, <1>5
<1>9. ContentsOf(b, q, w) = Tail(ContentsOf(b, r, w))
    <2> HIDE DEF q
    <2> QED BY <1>4, <1>6, <1>7, <1>8
<1>10. ContentsOf(b, r, w) # <<>> /\ Head(ContentsOf(b, r, w)) = b[Place(r, 1)]
    BY <1>4, <1>5
<1>11. Place(r, 1) = r
    BY <1>1, SizeFacts DEF Place
<1> QED BY <1>3, <1>9, <1>10, <1>11

LEMMA ContentsNow ==
    /\ Contents = ContentsOf(buffer, read_index, write_index)
    /\ Contents' = ContentsOf(buffer', read_index', write_index')
BY DEF Contents, ContentsOf, N

LEMMA ContentsType == TypeOK => Contents \in Seq(Bytes) /\ Len(Contents) \in 0..N - 1
BY ContentsNow, ContentsAre DEF TypeOK

LEMMA MaskedType ==
    ASSUME NEW i \in Indices
    PROVE  Masked(i + 1) \in Indices
<1> DEFINE j == i + 1
<1>1. i \in 0..N - 1 /\ j \in 0..2 * N - 1
    BY SizeFacts DEF Indices, N
<1>2. Masked(j) = IF j < N THEN j ELSE j - N
    <2> HIDE DEF j
    <2> QED BY <1>1, MaskedOnce
<1> QED BY <1>1, <1>2, SizeFacts DEF Indices, N

-----------------------------------------------------------------------------
(* What each step does to the three places a byte can be in.               *)

\* The data register goes into the ring, or is lost.
LEMMA IsrStep ==
    ASSUME TypeOK, ReadData
    PROVE  /\ TypeOK' /\ UNCHANGED <<enabled, arrived, dr, delivered>>
           /\ handler = "recv" /\ handler' \in {"idle", "again"}
           /\ rxne' = FALSE /\ ore' = (ore /\ ~overrun_ocured)
           /\ \/ Contents' = Contents
              \/ Len(Contents) < N - 1 /\ Contents' = Append(Contents, dr)
           /\ UNCHANGED <<reader, read_index>>
           /\ \/ UNCHANGED <<buffer, write_index>>
              \/ /\ write_index' = Masked(write_index + 1) /\ write_index' # read_index
                 /\ buffer' = [buffer EXCEPT ![write_index] = dr]
<1>1. /\ UNCHANGED <<enabled, arrived, dr, read_index, reader>>
      /\ handler = "recv" /\ handler' \in {"idle", "again"} /\ overrun_ocured' = FALSE
      /\ rxne' = FALSE /\ ore' = (ore /\ ~overrun_ocured)
    BY DEF ReadData
<1>2. CASE Masked(write_index + 1) = read_index
    <2>1. UNCHANGED <<buffer, write_index>>
        BY <1>2 DEF ReadData, ring_buffer_write
    <2>2. Contents' = Contents
        BY <1>1, <2>1, ContentsNow
    <2>3. TypeOK'
        <3>1. ore' \in BOOLEAN
            BY <1>1, Zenon
        <3> QED BY <1>1, <2>1, <3>1 DEF TypeOK, reader
    <2> QED BY <1>1, <2>1, <2>2, <2>3 DEF reader
<1>3. CASE Masked(write_index + 1) # read_index
    <2>1. /\ buffer' = [buffer EXCEPT ![write_index] = dr]
          /\ write_index' = Masked(write_index + 1)
        BY <1>3 DEF ReadData, ring_buffer_write
    <2>2. Len(Contents) < N - 1 /\ Contents' = Append(Contents, dr)
        BY <1>1, <1>3, <2>1, ContentsNow, PutAppends DEF TypeOK
    <2>3. write_index' \in Indices
        BY <2>1, MaskedType DEF TypeOK
    <2>4. TypeOK'
        <3>1. ore' \in BOOLEAN
            BY <1>1, Zenon
        <3> QED BY <1>1, <2>1, <2>3, <3>1 DEF TypeOK, reader
    <2> QED BY <1>1, <1>3, <2>1, <2>2, <2>4 DEF reader
<1> QED BY <1>2, <1>3

LEMMA FlagsStep ==
    ASSUME TypeOK, ReadFlags
    PROVE  /\ TypeOK' /\ UNCHANGED <<usart, ring, reader>> /\ Contents' = Contents
           /\ enabled /\ (rxne \/ ore) /\ handler' = "recv" /\ overrun_ocured' = ore
<1>1. /\ UNCHANGED <<usart, ring, reader>>
      /\ enabled /\ (rxne \/ ore) /\ handler' = "recv" /\ overrun_ocured' = ore
    BY DEF ReadFlags
<1>2. overrun_ocured' \in BOOLEAN
    BY <1>1 DEF TypeOK
<1>3. TypeOK'
    BY <1>1, <1>2 DEF TypeOK, usart, ring, reader
<1> QED BY <1>1, <1>3, ContentsNow DEF ring

\* The oldest byte of the ring goes to the reader.
LEMMA AdvanceStep ==
    ASSUME TypeOK, ReaderHolds, Advance
    PROVE  /\ TypeOK' /\ UNCHANGED <<usart, isr, buffer, write_index>>
           /\ Contents # <<>> /\ Contents' = Tail(Contents)
           /\ delivered' = Append(delivered, Head(Contents))
           /\ pc = "advance" /\ pc' = "available"
<1>1. read_index # write_index /\ local_read_index = read_index /\ byte = buffer[read_index]
    BY DEF ReaderHolds, Advance
<1>2. /\ read_index' = Masked(read_index + 1)
      /\ UNCHANGED <<usart, isr, buffer, write_index, local_read_index, byte>>
      /\ delivered' = Append(delivered, byte) /\ pc = "advance" /\ pc' = "available"
    BY <1>1 DEF Advance
<1>3. /\ read_index' \in Indices
      /\ Contents # <<>> /\ Head(Contents) = buffer[read_index] /\ Contents' = Tail(Contents)
    BY <1>1, <1>2, GetTakesHead, ContentsNow DEF TypeOK
<1>4. delivered' \in Seq(Bytes)
    BY <1>2 DEF TypeOK
<1>5. TypeOK'
    BY <1>2, <1>3, <1>4 DEF TypeOK, usart, isr
<1> QED BY <1>1, <1>2, <1>3, <1>5

\* The steps of the reader before it advances, and the end of its program.
LEMMA QuietStep ==
    ASSUME TypeOK, ReaderHolds,
           uart_data_available \/ LoadIndices \/ LoadByte \/ uart_teardown
    PROVE  /\ TypeOK' /\ handler = "idle"
           /\ UNCHANGED <<arrived, dr, rxne, ore, isr, ring, delivered>>
           /\ Contents' = Contents
           /\ enabled' # enabled => enabled /\ ~enabled'
<1>1. CASE uart_data_available
    BY <1>1, ContentsNow DEF uart_data_available, TypeOK, usart, isr, ring
<1>2. CASE LoadIndices
    <2>1. read_index # write_index
        BY <1>2 DEF LoadIndices, ReaderHolds
    <2> QED BY <1>2, <2>1, ContentsNow DEF LoadIndices, TypeOK, usart, isr, ring
<1>3. CASE LoadByte
    <2>1. local_read_index \in Indices /\ buffer \in [Indices -> Bytes]
        BY DEF TypeOK
    <2>2. byte' \in Bytes
        BY <1>3, <2>1 DEF LoadByte
    <2> QED BY <1>3, <2>2, ContentsNow DEF LoadByte, TypeOK, usart, isr, ring
<1>4. CASE uart_teardown
    BY <1>4, ContentsNow DEF uart_teardown, TypeOK, isr, ring
<1> QED BY <1>1, <1>2, <1>3, <1>4

\* A new ring.
LEMMA SetupStep ==
    ASSUME TypeOK, ReaderHolds, uart_setup
    PROVE  /\ TypeOK' /\ UNCHANGED <<arrived, dr, rxne, ore, isr, delivered>>
           /\ Contents' = <<>> /\ ~enabled /\ enabled' = TRUE
<1>1. ~enabled
    BY DEF uart_setup, ReaderHolds
<1>2. 0 \in Indices /\ 0 \in Bytes
    BY SizeFacts DEF Indices, Bytes, N
<1>3. TypeOK'
    BY <1>2 DEF uart_setup, TypeOK, isr
<1>4. Count(0, 0) = 0
    BY SizeFacts DEF Count
<1>5. Contents' \in Seq(Bytes) /\ Len(Contents') = 0
    BY <1>2, <1>3, <1>4, ContentsNow, ContentsAre DEF uart_setup, TypeOK
<1>6. Contents' = <<>>
    BY <1>5
<1> QED BY <1>1, <1>3, <1>6 DEF uart_setup

LEMMA ArriveStep ==
    ASSUME TypeOK, Arrive
    PROVE  /\ TypeOK' /\ UNCHANGED <<enabled, isr, ring, reader>> /\ Contents' = Contents
           /\ arrived' = arrived + 1
           /\ \/ UNCHANGED <<dr, rxne, ore>>
              \/ rxne /\ ore' /\ UNCHANGED <<dr, rxne>>
              \/ ~rxne /\ rxne' /\ dr' = arrived + 1 /\ UNCHANGED ore
<1>1. arrived + 1 \in Bytes
    BY SizeFacts DEF Arrive, TypeOK, Bytes
<1>2. TypeOK'
    BY <1>1 DEF Arrive, TypeOK, isr, ring, reader
<1> QED BY <1>2, ContentsNow DEF Arrive, TypeOK, ring

LEMMA StepOfNext ==
    ASSUME Next
    PROVE  \/ Arrive \/ ReadFlags \/ ReadData \/ Advance \/ uart_setup
           \/ uart_data_available \/ LoadIndices \/ LoadByte \/ uart_teardown
BY DEF Next, Reader, usart2_isr

-----------------------------------------------------------------------------
(* The invariant.                                                          *)

LEMMA HoldsStep ==
    ASSUME TypeOK, ReaderHolds, HandlerHolds, Next
    PROVE  TypeOK' /\ ReaderHolds' /\ HandlerHolds'
<1>1. CASE Arrive
    <2>1. /\ TypeOK' /\ UNCHANGED <<enabled, isr, ring, reader>>
          /\ rxne => rxne'
          /\ ore => ore'
        BY <1>1, ArriveStep
    <2> QED BY <2>1 DEF ReaderHolds, HandlerHolds, isr, ring, reader
<1>2. CASE ReadData
    <2>1. /\ TypeOK' /\ UNCHANGED <<enabled, reader, read_index>>
          /\ handler = "recv" /\ handler' # "recv"
          /\ \/ UNCHANGED <<buffer, write_index>>
             \/ /\ write_index' = Masked(write_index + 1) /\ write_index' # read_index
                /\ buffer' = [buffer EXCEPT ![write_index] = dr]
        BY <1>2, IsrStep
    <2>2. read_index # write_index => buffer'[read_index] = buffer[read_index]
        BY <2>1 DEF TypeOK
    <2> QED BY <2>1, <2>2 DEF ReaderHolds, HandlerHolds, reader
<1>3. CASE Advance
    BY <1>3, AdvanceStep DEF ReaderHolds, HandlerHolds, usart, isr
<1>4. CASE uart_setup
    BY <1>4, SetupStep DEF ReaderHolds, HandlerHolds, uart_setup, isr
<1>5. CASE uart_data_available
    <2>1. TypeOK'
        BY <1>5, QuietStep
    <2> QED BY <1>5, <2>1 DEF uart_data_available, ring_buffer_is_empty, ReaderHolds, HandlerHolds, usart, isr, ring
<1>6. CASE LoadIndices
    <2>1. TypeOK'
        BY <1>6, QuietStep
    <2> QED BY <1>6, <2>1 DEF LoadIndices, ReaderHolds, HandlerHolds, usart, isr, ring
<1>7. CASE LoadByte
    <2>1. TypeOK'
        BY <1>7, QuietStep
    <2> QED BY <1>7, <2>1 DEF LoadByte, ReaderHolds, HandlerHolds, usart, isr, ring
<1>8. CASE uart_teardown
    <2>1. TypeOK'
        BY <1>8, QuietStep
    <2> QED BY <1>8, <2>1 DEF uart_teardown, ReaderHolds, HandlerHolds, isr, ring
<1>9. CASE ReadFlags
    BY <1>9, FlagsStep DEF ReaderHolds, HandlerHolds, usart, ring, reader
<1> QED BY <1>1, <1>2, <1>3, <1>4, <1>5, <1>6, <1>7, <1>8, <1>9, StepOfNext

\* A byte that may follow keeps the order.
LEMMA AppendOrdered ==
    ASSUME arrived \in Nat, NEW s \in Seq(Bytes), NEW x, Ordered(s), MayFollow(s, x)
    PROVE  Ordered(Append(s, x))
<1> DEFINE t == Append(s, x)
<1>1. /\ Len(t) = Len(s) + 1 /\ Len(s) \in Nat
      /\ \A i \in 1..Len(t) : t[i] = IF i <= Len(s) THEN s[i] ELSE x
    OBVIOUS
<1>2. arrived \in Nat /\ x \in 1..arrived
    BY DEF MayFollow
<1>3. \A i \in 1..Len(t) :
        \/ i \in 1..Len(s) /\ t[i] = s[i] /\ s[i] \in 1..arrived /\ s[i] <= x
           /\ (s[i] = x => x < arrived)
        \/ i = Len(s) + 1 /\ t[i] = x
    BY <1>1 DEF Ordered, MayFollow
<1> HIDE DEF t
<1>4. ASSUME NEW i \in 1..Len(t), NEW j \in 1..Len(t)
      PROVE  /\ i < j => t[i] <= t[j]
             /\ i + 1 < j => t[i] < t[j]
             /\ i < j /\ t[i] = t[j] => t[i] < arrived
    BY <1>1, <1>2, <1>3 DEF Ordered, MayFollow
<1>5. ASSUME NEW i \in 1..Len(t), NEW j \in 1..Len(t), NEW k \in 1..Len(t),
             i < j, t[i] = t[j]
      PROVE  t[k] # t[i] + 1
    <2>1. i \in 1..Len(s) /\ t[i] = s[i] /\ s[i] \in Nat
        BY <1>1, <1>3, <1>5
    <2>2. CASE j \in 1..Len(s)
        <3>1. t[j] = s[j]
            BY <1>1, <2>2 DEF t
        <3>2. (\A m \in 1..Len(s) : s[m] # s[i] + 1) /\ x # s[i] + 1
            <4>1. i < j /\ s[i] = s[j]
                BY <1>5, <2>1, <3>1
            <4> QED BY <2>1, <2>2, <4>1 DEF Ordered, MayFollow
        <3> QED BY <1>3, <2>1, <3>2
    <2>3. CASE j = Len(s) + 1
        <3>1. t[i] = x
            BY <1>1, <1>5, <2>3
        <3>2. t[k] <= x /\ t[k] \in Int /\ x \in Int
            BY <1>2, <1>3
        <3> QED BY <3>1, <3>2
    <2> QED BY <1>1, <2>2, <2>3
<1>6. \A i \in 1..Len(t) : t[i] \in 1..arrived
    BY <1>2, <1>3
<1> QED BY <1>4, <1>5, <1>6 DEF Ordered, t

LEMMA TakenType ==
    ASSUME TypeOK
    PROVE  /\ Taken \in Seq(Bytes) /\ Len(Taken) \in Nat /\ arrived \in Nat
           /\ \A i \in 1..Len(Taken) : Taken[i] \in Nat
BY ContentsType, SizeFacts DEF Taken, TypeOK, Bytes

\* A byte moves from the ring to the reader.
LEMMA TakenStays ==
    ASSUME NEW d \in Seq(Bytes), NEW c \in Seq(Bytes), c # <<>>
    PROVE  Append(d, Head(c)) \o Tail(c) = d \o c
<1>1. Head(c) \in Bytes /\ Tail(c) \in Seq(Bytes) /\ <<Head(c)>> \in Seq(Bytes)
    OBVIOUS
<1>2. <<Head(c)>> \o Tail(c) = c
    <2> DEFINE r == <<Head(c)>> \o Tail(c)
    <2>1. /\ Len(Tail(c)) = Len(c) - 1 /\ Len(c) \in Nat \ {0}
          /\ \A i \in 1..Len(c) - 1 : Tail(c)[i] = c[i + 1]
        BY HeadTailProperties
    <2>2. /\ r \in Seq(Bytes) /\ Len(r) = 1 + Len(Tail(c))
          /\ \A i \in 1..1 + Len(Tail(c)) : r[i] = IF i <= 1 THEN Head(c) ELSE Tail(c)[i - 1]
        BY <1>1, ConcatProperties
    <2> HIDE DEF r
    <2>3. \A i \in 1..Len(r) : r[i] = c[i]
        BY <2>1, <2>2
    <2>4. r = c
        BY <2>1, <2>2, <2>3, SeqEqual
    <2> QED BY <2>4 DEF r
<1> QED BY <1>1, <1>2, AppendIsConcat, ConcatAssociative

\* The bytes of the ring are lost.
LEMMA PrefixOrdered ==
    ASSUME NEW d \in Seq(Bytes), NEW c \in Seq(Bytes)
    PROVE  /\ Ordered(d \o c) => Ordered(d)
           /\ \A x : MayFollow(d \o c, x) => MayFollow(d, x)
           /\ Len(d) \in Nat /\ Len(d \o c) \in Nat /\ Len(d) <= Len(d \o c)
           /\ \A i \in 1..Len(d) : (d \o c)[i] = d[i]
<1>1. /\ Len(d) \in Nat /\ Len(d \o c) \in Nat /\ Len(d) <= Len(d \o c)
      /\ \A i \in 1..Len(d) : (d \o c)[i] = d[i]
    OBVIOUS
<1>2. Ordered(d \o c) => Ordered(d)
    <2> DEFINE s == d \o c
    <2>1. /\ Len(d) \in Nat /\ Len(s) \in Nat /\ Len(d) <= Len(s)
          /\ \A i \in 1..Len(d) : i \in 1..Len(s) /\ s[i] = d[i]
        BY <1>1
    <2> HIDE DEF s
    <2>2. Ordered(s) => Ordered(d)
        BY <2>1 DEF Ordered
    <2> QED BY <2>2 DEF s
<1>3. \A x : MayFollow(d \o c, x) => MayFollow(d, x)
    BY <1>1 DEF MayFollow
<1> QED BY <1>1, <1>2, <1>3

\* A byte that arrives is younger than all others; if it is lost, the one before it
\* may be read again.
LEMMA AgesArrive ==
    ASSUME IInv, Arrive
    PROVE  Ages'
<1> USE DEF IInv
<1>1. /\ UNCHANGED <<isr, Taken>> /\ arrived' = arrived + 1
      /\ \/ UNCHANGED <<dr, rxne, ore>>
         \/ rxne /\ ore' /\ UNCHANGED <<dr, rxne>>
         \/ ~rxne /\ rxne' /\ dr' = arrived + 1 /\ UNCHANGED ore
    BY ArriveStep DEF Taken, reader
<1>2. /\ Len(Taken) \in Nat /\ arrived \in Nat
      /\ \A i \in 1..Len(Taken) : Taken[i] \in 1..arrived
    BY TakenType DEF Ages, Ordered
<1>3. Ordered(Taken)'
    BY <1>1, <1>2 DEF Ages, Ordered
<1>4. CASE UNCHANGED <<dr, rxne, ore>>
    BY <1>1, <1>2, <1>3, <1>4 DEF Ages, MayFollow, isr
<1>5. CASE rxne /\ ore' /\ UNCHANGED <<dr, rxne>>
    BY <1>1, <1>2, <1>3, <1>5 DEF Ages, MayFollow, isr
<1>6. CASE ~rxne /\ rxne' /\ dr' = arrived + 1 /\ UNCHANGED ore
    <2>1. MayFollow(Taken, dr)'
        BY <1>1, <1>2, <1>6 DEF Ages, Ordered, MayFollow
    <2> QED BY <1>1, <1>2, <1>3, <1>6, <2>1 DEF Ages, HandlerHolds, isr
<1> QED BY <1>1, <1>4, <1>5, <1>6

\* The handler takes the register's byte; it may stay there only if another is lost.
LEMMA AgesRead ==
    ASSUME IInv, ReadData
    PROVE  Ages'
<1> USE DEF IInv
<1>1. /\ UNCHANGED <<enabled, arrived, dr, delivered>>
      /\ handler = "recv" /\ handler' # "recv"
      /\ ~rxne' /\ (ore' => ore /\ ~overrun_ocured)
      /\ Contents' = Contents \/ Contents' = Append(Contents, dr)
    BY IsrStep
<1>2. rxne \/ ore
    BY <1>1 DEF HandlerHolds
<1>3. /\ Contents \in Seq(Bytes) /\ delivered \in Seq(Bytes) /\ dr \in Bytes
      /\ Taken \in Seq(Bytes) /\ Len(Taken) \in Nat /\ arrived \in Nat
      /\ \A i \in 1..Len(Taken) : Taken[i] \in Nat
    BY ContentsType, TakenType DEF TypeOK
<1>4. Taken' = Taken \/ Taken' = Append(Taken, dr)
    <2>1. delivered \o Append(Contents, dr) = Append(delivered \o Contents, dr)
        BY <1>3
    <2> QED BY <1>1, <2>1 DEF Taken
<1>5. MayFollow(Taken, dr) /\ Ordered(Taken)
    BY <1>2 DEF Ages
<1>6. CASE ~ore'
    <2>1. Ordered(Append(Taken, dr))
        BY <1>3, <1>5, AppendOrdered
    <2> QED BY <1>1, <1>4, <1>5, <1>6, <2>1 DEF Ages, Ordered
<1>7. CASE ore'
    <2>1. ore /\ ~overrun_ocured /\ rxne
        BY <1>1, <1>7 DEF HandlerHolds
    <2>2. dr < arrived /\ \A i \in 1..Len(Taken) : Taken[i] < dr
        BY <1>1, <2>1 DEF Ages
    <2>3. Ordered(Append(Taken, dr))
        BY <1>3, <1>5, AppendOrdered
    <2>4. MayFollow(Append(Taken, dr), dr)
        <3> DEFINE t == Append(Taken, dr)
        <3>1. /\ Len(t) = Len(Taken) + 1
              /\ \A i \in 1..Len(t) : t[i] = IF i <= Len(Taken) THEN Taken[i] ELSE dr
            BY <1>3
        <3> HIDE DEF t
        <3>2. ASSUME NEW i \in 1..Len(t)
              PROVE  \/ i \in 1..Len(Taken) /\ t[i] = Taken[i] /\ t[i] \in Nat /\ t[i] < dr
                     \/ i = Len(Taken) + 1 /\ t[i] = dr
            BY <1>3, <2>2, <3>1
        <3>3. ASSUME NEW i \in 1..Len(t), NEW j \in 1..Len(t), i < j
              PROVE  t[i] < dr /\ (t[i] = t[j] => dr # t[i] + 1)
            <4>1. i \in 1..Len(Taken) /\ t[i] = Taken[i] /\ t[i] < dr
                BY <1>3, <3>1, <3>2, <3>3
            <4>2. CASE j \in 1..Len(Taken)
                BY <1>5, <3>1, <3>3, <4>1, <4>2 DEF MayFollow
            <4>3. CASE j = Len(Taken) + 1
                BY <3>1, <4>1, <4>3, <1>3, <3>2
            <4> QED BY <3>2, <4>1, <4>2, <4>3
        <3>4. dr \in 1..arrived
            BY <1>5 DEF MayFollow
        <3>5. \A i \in 1..Len(t) : t[i] <= dr /\ (t[i] = dr => dr < arrived)
            BY <1>3, <2>2, <3>2, <3>4
        <3>6. MayFollow(t, dr)
            BY <3>3, <3>4, <3>5 DEF MayFollow
        <3> QED BY <3>6 DEF t
    <2> QED BY <1>1, <1>4, <1>5, <2>3, <2>4 DEF Ages, Ordered, MayFollow
<1> QED BY <1>6, <1>7

LEMMA AgesStep ==
    ASSUME IInv, Next
    PROVE  Ages'
<1> USE DEF IInv
<1>1. Contents \in Seq(Bytes) /\ delivered \in Seq(Bytes)
    BY ContentsType DEF TypeOK
<1>2. CASE Arrive
    BY <1>2, AgesArrive
<1>3. CASE ReadFlags
    <2>1. UNCHANGED <<usart, Taken>> /\ handler' = "recv" /\ overrun_ocured' = ore
        BY <1>3, FlagsStep DEF Taken, reader
    <2> QED BY <2>1 DEF Ages, Ordered, MayFollow, usart
<1>4. CASE ReadData
    BY <1>4, AgesRead
<1>5. CASE Advance
    <2>1. /\ UNCHANGED <<usart, isr>>
          /\ Contents # <<>> /\ Contents' = Tail(Contents)
          /\ delivered' = Append(delivered, Head(Contents))
        BY <1>5, AdvanceStep
    <2>2. Taken' = Taken
        BY <1>1, <2>1, TakenStays DEF Taken
    <2> QED BY <2>1, <2>2 DEF Ages, Ordered, MayFollow, usart, isr
<1>6. CASE uart_setup
    <2>1. UNCHANGED <<arrived, dr, rxne, ore, isr, delivered>> /\ Contents' = <<>>
        BY <1>6, SetupStep
    <2>2. Taken' = delivered
        BY <1>1, <2>1 DEF Taken
    <2>3. /\ Ordered(delivered)
          /\ rxne \/ ore => MayFollow(delivered, dr)
          /\ rxne => \A i \in 1..Len(delivered) : delivered[i] < dr
        BY <1>1, PrefixOrdered DEF Ages, Taken
    <2> QED BY <2>1, <2>2, <2>3 DEF Ages, Ordered, MayFollow, isr
<1>7. CASE uart_data_available \/ LoadIndices \/ LoadByte \/ uart_teardown
    <2>1. UNCHANGED <<arrived, dr, rxne, ore, isr, Taken>>
        BY <1>7, QuietStep DEF Taken
    <2> QED BY <2>1 DEF Ages, Ordered, MayFollow, isr
<1> QED BY <1>2, <1>3, <1>4, <1>5, <1>6, <1>7, StepOfNext

LEMMA Start == Init => IInv /\ Contents = <<>>
<1> SUFFICES ASSUME Init PROVE IInv /\ Contents = <<>>
    OBVIOUS
<1>1. 0 \in Indices /\ 0 \in Bytes
    BY SizeFacts DEF Indices, Bytes, N
<1>2. TypeOK
    BY <1>1 DEF Init, TypeOK
<1>3. Count(0, 0) = 0
    BY SizeFacts DEF Count
<1>4. Contents \in Seq(Bytes) /\ Len(Contents) = 0
    BY <1>1, <1>2, <1>3, ContentsNow, ContentsAre DEF Init, TypeOK
<1>5. Contents = <<>>
    BY <1>4
<1>6. ReaderHolds
    BY DEF Init, ReaderHolds
<1>7. HandlerHolds
    BY DEF Init, HandlerHolds
<1>8. Ages
    <2>1. Taken = <<>>
        BY <1>5 DEF Init, Taken
    <2> QED BY <2>1 DEF Init, Ages, Ordered
<1> QED BY <1>2, <1>5, <1>6, <1>7, <1>8 DEF IInv

LEMMA ContentsStill == UNCHANGED vars => UNCHANGED Contents
BY ContentsNow DEF vars, ring

\* The invariant holds in every state of every behaviour.
THEOREM Invariance == Spec => []IInv
<1>1. Init => IInv
    BY Start
<1>2. IInv /\ [Next]_vars => IInv'
    <2> SUFFICES ASSUME IInv, [Next]_vars PROVE IInv'
        OBVIOUS
    <2>1. CASE Next
        BY <2>1, HoldsStep, AgesStep DEF IInv
    <2>2. CASE UNCHANGED vars
        <3>1. UNCHANGED Contents
            BY <2>2, ContentsStill
        <3>2. TypeOK' /\ ReaderHolds' /\ HandlerHolds'
            BY <2>2 DEF IInv, TypeOK, ReaderHolds, HandlerHolds, vars, usart, isr, ring, reader
        <3>3. Taken' = Taken
            BY <2>2, <3>1 DEF Taken, vars, reader
        <3>4. Ages'
            BY <2>2, <3>3 DEF IInv, Ages, Ordered, MayFollow, vars, usart, isr
        <3> QED BY <3>2, <3>4 DEF IInv
    <2> QED BY <2>1, <2>2
<1> QED BY <1>1, <1>2, PTL DEF Spec

\* The indices stay inside the buffer (ring-buffer.c) and every variable in its type.
THEOREM TypeCorrect == Spec => []TypeOK
<1>1. IInv => TypeOK
    BY DEF IInv
<1> QED BY <1>1, Invariance, PTL

LEMMA AgesOrder == TypeOK /\ Ages => RepeatsStandForLost
<1> SUFFICES ASSUME TypeOK, Ages PROVE RepeatsStandForLost
    OBVIOUS
<1>1. Taken \in Seq(Bytes) /\ dr \in Bytes /\ arrived \in Nat
    BY TakenType DEF TypeOK
<1>2. Seen = IF rxne \/ ore THEN Append(Taken, dr) ELSE Taken
    <2>1. Taken \o <<dr>> = Append(Taken, dr) /\ Taken \o <<>> = Taken
        BY <1>1, AppendIsConcat, ConcatEmptySeq
    <2>2. Seen = Taken \o (IF rxne \/ ore THEN <<dr>> ELSE <<>>)
        BY DEF Seen, Taken
    <2> QED BY <2>1, <2>2
<1>3. Ordered(Seen)
    BY <1>1, <1>2, AppendOrdered DEF Ages
<1> QED BY <1>3 DEF Ordered, RepeatsStandForLost

\* No byte is read out of order, out of nothing or a third time, and none a second time
\* but in place of the next, wherever the handler strikes, whenever the line completes
\* a byte and however many are lost.
THEOREM InOrder == Spec => []RepeatsStandForLost
<1>1. IInv => RepeatsStandForLost
    BY AgesOrder DEF IInv
<1> QED BY <1>1, Invariance, PTL

-----------------------------------------------------------------------------
(* Refinement.                                                             *)

LEMMA StepImplements ==
    ASSUME IInv, [Next]_vars
    PROVE  [Fifo!Next]_<<enabled, Contents, delivered>>
<1> USE DEF IInv
<1>1. CASE UNCHANGED vars
    BY <1>1, ContentsStill DEF vars, usart, reader
<1>2. CASE Arrive
    BY <1>2, ArriveStep DEF reader
<1>3. CASE ReadData
    <2>1. /\ UNCHANGED <<enabled, delivered>> /\ dr \in Bytes /\ enabled
          /\ \/ Contents' = Contents
             \/ Len(Contents) < N - 1 /\ Contents' = Append(Contents, dr)
        BY <1>3, IsrStep DEF HandlerHolds, TypeOK
    <2> QED BY <2>1 DEF Fifo!Next, Fifo!Put, N
<1>4. CASE Advance
    <2>1. /\ enabled
          /\ enabled' = enabled /\ Contents # <<>> /\ Contents' = Tail(Contents)
          /\ delivered' = Append(delivered, Head(Contents))
        BY <1>4, AdvanceStep DEF usart, ReaderHolds
    <2> QED BY <2>1 DEF Fifo!Next, Fifo!Get
<1>5. CASE uart_setup
    BY <1>5, SetupStep DEF Fifo!Next, Fifo!Open
<1>6. CASE uart_data_available \/ LoadIndices \/ LoadByte \/ uart_teardown
    BY <1>6, QuietStep DEF Fifo!Next, Fifo!Close
<1>7. CASE ReadFlags
    BY <1>7, FlagsStep DEF usart, reader
<1> QED BY <1>1, <1>2, <1>3, <1>4, <1>5, <1>6, <1>7, StepOfNext

\* The ring implements the bounded queue of ByteFifo: a slot the reader still needs
\* is never overwritten.
THEOREM Implements == Spec => ImplementsFifo
<1>1. Init => Fifo!Init
    BY Start DEF Init, Fifo!Init
<1>2. IInv /\ [Next]_vars => [Fifo!Next]_<<enabled, Contents, delivered>>
    BY StepImplements
<1> QED BY <1>1, <1>2, Invariance, PTL DEF Spec, ImplementsFifo, Fifo!Spec

-----------------------------------------------------------------------------
(* The bootloader and the application as that reader.                      *)

LEMMA StepOfAppNext ==
    ASSUME AppNext
    PROVE  \/ BootloaderNext \/ StartApplication \/ LedStep \/ NotYet \/ Stamp
           \/ Read \/ uart_write_byte \/ Drained \/ sys_tick_handler \/ OnTheLine
BY DEF AppNext, MainLoop

LEMMA UartStep ==
    ASSUME [AppNext]_appVars
    PROVE  [Next]_vars
<1>1. CASE UNCHANGED appVars
    BY <1>1 DEF appVars
<1>2. CASE BootloaderNext
    BY <1>2 DEF BootloaderNext, BootloaderReads, BootloaderLeaves, Next
<1>3. CASE StartApplication
    BY <1>3 DEF StartApplication, Next
<1>4. CASE LedStep \/ NotYet \/ Stamp \/ uart_write_byte \/ Drained \/ sys_tick_handler
    BY <1>4 DEF LedStep, NotYet, Stamp, uart_write_byte, Drained, sys_tick_handler
<1>5. CASE Read
    BY <1>5 DEF Read, Next
<1>6. CASE OnTheLine
    BY <1>6 DEF OnTheLine, Next
<1> QED BY <1>1, <1>2, <1>3, <1>4, <1>5, <1>6, StepOfAppNext

\* Bootloader and application use the UART as one reader, which uart_teardown stops
\* and uart_setup starts again.
THEOREM AppUsesUart == AppSpec => UsesUart
<1>1. AppInit => Init
    BY DEF AppInit
<1>2. [AppNext]_appVars => [Next]_vars
    BY UartStep
<1> QED BY <1>1, <1>2, PTL DEF AppSpec, UsesUart, Spec

\* The ring's indices stay inside it through both programs.
THEOREM AppRingType == AppSpec => []TypeOK
BY AppUsesUart, TypeCorrect, PTL DEF UsesUart

\* The ring of both programs is a queue that starts empty.
THEOREM AppImplements == AppSpec => ImplementsFifo
BY AppUsesUart, Implements, PTL DEF UsesUart

\* It is the same across the change of programs: between uart_teardown and uart_setup
\* only the data register keeps a byte.
THEOREM AppInOrder == AppSpec => []RepeatsStandForLost
BY AppUsesUart, InOrder, PTL DEF UsesUart

-----------------------------------------------------------------------------
(* The LED.                                                                *)

\* What since and wrapped say of the tick count.
Elapsed == IF wrapped THEN tick_count + TICKS - last_tick ELSE tick_count - last_tick

LedInv ==
    /\ program \in {"bootloader", "app"}
    /\ main \in {"led", "stamp", "drain", "write"}
    /\ tick_count \in 0..TICKS - 1 /\ last_tick \in 0..TICKS - 1
    /\ duty_cycle \in 0..DUTY_MAX
    /\ since \in 0..MaxSince /\ wrapped \in BOOLEAN
    /\ wrapped <=> tick_count < last_tick
    /\ since = Elapsed
    /\ program = "bootloader" => since = 0

LEMMA TicksFacts ==
    /\ TICKS \in Nat /\ TIMES \in Nat /\ STEP_TICKS \in Nat /\ DUTY_MAX \in Nat
    /\ MaxSince \in Nat /\ STEP_TICKS >= 1 /\ DUTY_MAX >= 1
    /\ STEP_TICKS < MaxSince /\ MaxSince < TICKS /\ 2 * TICKS <= TIMES
BY TicksAssumption

\* One more tick, of a counter that starts again at TICKS.
LEMMA NextTickIs ==
    ASSUME NEW t \in 0..TICKS - 1
    PROVE  (t + 1) % TICKS = IF t + 1 < TICKS THEN t + 1 ELSE 0
<1> DEFINE i == t + 1
<1>1. i \in 0..2 * TICKS - 1 /\ TICKS \in Nat \ {0} /\ (i < TICKS \/ i = TICKS)
    BY TicksFacts
<1>2. i % TICKS = IF i < TICKS THEN i ELSE i - TICKS
    <2> HIDE DEF i
    <2> QED BY <1>1, Remainder
<1> QED BY <1>1, <1>2

LEMMA LedInvStep ==
    ASSUME LedInv, [AppNext]_appVars
    PROVE  LedInv'
<1>1. CASE UNCHANGED appVars
    BY <1>1 DEF LedInv, Elapsed, appVars, led
<1>2. CASE BootloaderNext
    BY <1>2 DEF LedInv, Elapsed, BootloaderNext, led
<1>3. CASE StartApplication
    <2>1. program' = "app" /\ last_tick' = tick_count' /\ tick_count' \in 0..TICKS - 1
        BY <1>3, TicksFacts DEF StartApplication
    <2>2. main' = main /\ duty_cycle' = duty_cycle /\ since' = since /\ wrapped' = wrapped
        BY <1>3 DEF StartApplication
    <2>3. since = 0 /\ since' = 0
        BY <1>3, <2>2 DEF StartApplication, LedInv
    <2>4. ~wrapped /\ wrapped \in BOOLEAN
        BY <2>3, TicksFacts DEF LedInv, Elapsed
    <2>5. ~wrapped' /\ wrapped' \in BOOLEAN
        BY <2>2, <2>4, Zenon
    <2>6. Elapsed' = tick_count' - last_tick'
        BY <2>5, Zenon DEF Elapsed
    <2>7. tick_count' - last_tick' = 0
        <3>1. tick_count' \in Int
            BY <2>1, TicksFacts
        <3>2. last_tick' = tick_count'
            BY <2>1
        <3>3. ASSUME NEW t \in Int PROVE t - t = 0
            OBVIOUS
        <3> QED BY <3>1, <3>2, <3>3, Zenon
    <2>8. since' = Elapsed'
        BY <2>3, <2>6, <2>7, Zenon
    <2> QED BY <2>1, <2>2, <2>3, <2>5, <2>8, TicksFacts DEF LedInv
<1>4. CASE LedStep
    <2>1. duty_cycle' \in 0..DUTY_MAX
        BY <1>4, TicksFacts DEF LedStep, NextDuty, LedInv
    <2> QED BY <1>4, <2>1 DEF LedStep, LedInv, Elapsed
<1>5. CASE NotYet \/ uart_write_byte \/ Drained
    BY <1>5 DEF NotYet, uart_write_byte, Drained, LedInv, Elapsed, led
<1>6. CASE Stamp
    <2>1. /\ program = "app" /\ program' = program /\ main' = "drain"
          /\ last_tick' = tick_count /\ tick_count' = tick_count
          /\ since' = 0 /\ wrapped' = FALSE /\ duty_cycle' = duty_cycle
        BY <1>6 DEF Stamp, InMain, system_get_ticks
    <2>2. ~wrapped' /\ wrapped' \in BOOLEAN
        BY <2>1, Zenon
    <2>3. ~wrapped' /\ ~(tick_count' < last_tick') /\ wrapped' \in BOOLEAN
        BY <2>1, <2>2, TicksFacts DEF LedInv
    <2>4. since' = Elapsed'
        BY <2>1, <2>3, TicksFacts DEF Elapsed, LedInv
    <2> QED BY <2>1, <2>3, <2>4, TicksFacts DEF LedInv
<1>7. CASE Read
    <2>1. main' \in {"drain", "write"}
        BY <1>7 DEF Read
    <2> QED BY <1>7, <2>1 DEF Read, LedInv, Elapsed, led
<1>8. CASE sys_tick_handler
    <2>1. /\ program' = "app" /\ since' = since + 1 /\ since < MaxSince
          /\ wrapped' = (wrapped \/ tick_count' = 0)
          /\ tick_count' = IF tick_count + 1 < TICKS THEN tick_count + 1 ELSE 0
          /\ UNCHANGED <<main, last_tick, duty_cycle>>
        BY <1>8, NextTickIs DEF sys_tick_handler, LedInv
    <2>2. wrapped' \in BOOLEAN
        BY <2>1
    <2>3. CASE tick_count + 1 < TICKS
        <3>1. tick_count' = tick_count + 1 /\ tick_count' # 0 /\ tick_count' \in 0..TICKS - 1
            BY <2>1, <2>3, TicksFacts DEF LedInv
        <3>2. wrapped' = wrapped
            BY <2>1, <3>1 DEF LedInv
        <3>3. wrapped <=> tick_count' < last_tick
            BY <2>1, <3>1, TicksFacts DEF LedInv, Elapsed
        <3> QED BY <2>1, <2>2, <3>1, <3>2, <3>3, TicksFacts DEF LedInv, Elapsed
    <2>4. CASE ~(tick_count + 1 < TICKS)
        <3>1. tick_count' = 0 /\ tick_count = TICKS - 1
            BY <2>1, <2>4, TicksFacts DEF LedInv
        <3>2. wrapped'
            BY <2>1, <3>1, Zenon
        <3>3. ~wrapped /\ last_tick # 0
            BY <2>1, <3>1, TicksFacts DEF LedInv, Elapsed
        <3> QED BY <2>1, <2>2, <3>1, <3>2, <3>3, TicksFacts DEF LedInv, Elapsed
    <2> QED BY <2>3, <2>4
<1>9. CASE OnTheLine
    BY <1>9 DEF OnTheLine, LedInv, Elapsed, led
<1> QED BY <1>1, <1>2, <1>3, <1>4, <1>5, <1>6, <1>7, <1>8, <1>9, StepOfAppNext

LEMMA LedInvariance == AppSpec => []LedInv
<1>1. ASSUME AppInit PROVE LedInv
    <2>1. /\ program = "bootloader" /\ main = "led" /\ tick_count = 0 /\ last_tick = 0
          /\ duty_cycle = 0 /\ since = 0 /\ wrapped = FALSE
        BY <1>1 DEF AppInit
    <2>2. ~wrapped /\ wrapped \in BOOLEAN
        BY <2>1, Zenon
    <2> QED BY <2>1, <2>2, TicksFacts DEF LedInv, Elapsed
<1>2. LedInv /\ [AppNext]_appVars => LedInv'
    BY LedInvStep
<1> QED BY <1>1, <1>2, PTL DEF AppSpec

\* since and wrapped are what their names say, and the duty cycle stays a percentage.
THEOREM AppTypeCorrect == AppSpec => []AppTypeOK
<1>1. LedInv => AppTypeOK
    <2> SUFFICES ASSUME LedInv PROVE AppTypeOK
        OBVIOUS
    <2>1. (tick_count - last_tick) % TICKS = since
        <3>1. TICKS \in Nat \ {0} /\ since \in 0..TICKS - 1
            BY TicksFacts DEF LedInv
        <3>2. tick_count - last_tick = since \/ tick_count - last_tick = since - TICKS
            BY TicksFacts DEF LedInv, Elapsed
        <3> DEFINE i == tick_count - last_tick
        <3>3. i \in Int
            BY DEF LedInv
        <3>4. i = since \/ i + TICKS = since
            BY <3>1, <3>2
        <3>5. i % TICKS = since
            <4> HIDE DEF i
            <4> QED BY <3>1, <3>3, <3>4
        <3> QED BY <3>5
    <2> QED BY <2>1 DEF LedInv, AppTypeOK
<1> QED BY <1>1, LedInvariance, PTL

\* The LED never steps early, other than right after the tick count has wrapped
\* (firmware.c:89).
THEOREM LedNeverEarly == AppSpec => StepsApart
<1>1. LedInv /\ [AppNext]_appVars
        => [duty_cycle' # duty_cycle => since >= STEP_TICKS \/ wrapped]_duty_cycle
    <2> SUFFICES ASSUME LedInv, [AppNext]_appVars, duty_cycle' # duty_cycle, ~wrapped
                 PROVE  since >= STEP_TICKS
        OBVIOUS
    <2>1. LedStep
        BY StepOfAppNext DEF BootloaderNext, StartApplication, NotYet, Stamp, Read,
            uart_write_byte, Drained, sys_tick_handler, OnTheLine, appVars, led
    <2>2. since = tick_count - last_tick /\ since \in 0..TIMES - 1 /\ TIMES \in Nat \ {0}
        BY TicksFacts DEF LedInv, Elapsed
    <2>3. since % TIMES = since
        BY <2>2
    <2> QED BY <2>1, <2>2, <2>3 DEF LedStep, Due, system_get_ticks
<1> QED BY <1>1, LedInvariance, PTL DEF AppSpec, StepsApart
=============================================================================
