--------------------------- MODULE FramingProofs ---------------------------
(***************************************************************************)
(* The device's receiver keeps its place in every packet: as long as the   *)
(* line has whole packets it stores the undamaged ones, once and in order, *)
(* whatever line it is and however large the ring.  And whatever the line  *)
(* is made of, the bytes do what Bootloader says of packets, as long as    *)
(* those that are no packet do not pass for one by chance.                 *)
(***************************************************************************)
EXTENDS Framing, FiniteSetTheorems, SequenceTheorems, TLAPS

LineOK ==
    /\ line \in Lines
    /\ position \in (1..Len(line.items) + 1) \X Nat

\* Where the parser is in the item that is being read; what it has of it.
Place ==
    /\ current_state = (IF offset = 0 THEN "LENGTH" ELSE IF offset < 17 THEN "DATA" ELSE "CRC")
    /\ offset \in 1..16 => data_byte_count = offset - 1
    /\ \A k \in 1..offset : current_temp_packet[k] = line.items[item].bytes[k]

FramingInv ==
    /\ TypeOK /\ LineOK
    /\ line.state # "SYNC" => bootloader_state # "SYNC"
    /\ InStep => Place
    /\ StoredInOrder

-----------------------------------------------------------------------------
(* The line.                                                               *)

\* What LinesAssumption says of an item.
LEMMA ItemsAre ==
    ASSUME NEW l \in Lines
    PROVE  /\ l.items \in Seq(LineItem) /\ Len(l.items) \in Nat
           /\ l.state \in {"SYNC", "WAIT_FOR_FW_UPDATE_REQ"}
           /\ \A k \in 1..Len(l.items) :
                /\ l.items[k].bytes \in Seq(Byte)
                /\ Len(l.items[k].bytes) \in 1..18
<1>1. l \in [state : {"SYNC", "WAIT_FOR_FW_UPDATE_REQ"}, items : Seq(LineItem)]
    BY LinesAssumption
<1>2. l.items \in Seq(LineItem) /\ l.state \in {"SYNC", "WAIT_FOR_FW_UPDATE_REQ"}
    BY <1>1
<1>3. ASSUME NEW k \in 1..Len(l.items)
      PROVE  l.items[k].bytes \in Seq(Byte) /\ Len(l.items[k].bytes) \in 1..18
    <2>1. l.items[k] \in LineItem
        BY <1>2, ElementOfSeq
    <2>2. Len(l.items[k].bytes) \in 1..18
        BY LinesAssumption DEF PACKET_TOTAL_LENGTH
    <2> QED BY <2>1, <2>2 DEF LineItem
<1> QED BY <1>2, <1>3

\* A byte is read and the position moves by it.
LEMMA Advances ==
    ASSUME TypeOK, LineOK, uart_data_available, uart_read_byte, line' = line
    PROVE  /\ item \in 1..Len(line.items) /\ offset \in 0..17
           /\ offset < Len(line.items[item].bytes)
           /\ Arrived = line.items[item].bytes[offset + 1] /\ Arrived \in Byte
           /\ \/ /\ offset + 1 = Len(line.items[item].bytes)
                 /\ item' = item + 1 /\ offset' = 0
              \/ /\ offset + 1 # Len(line.items[item].bytes)
                 /\ item' = item /\ offset' = offset + 1
           /\ LineOK'
           /\ position' \in Nat \X Nat
           /\ uart_data_available' => offset' < Len(line'.items[item'].bytes)
<1>1. /\ line \in Lines /\ Len(line.items) \in Nat
      /\ position \in (1..Len(line.items) + 1) \X Nat
    BY ItemsAre DEF LineOK
<1>2. item \in 1..Len(line.items) /\ offset \in Nat
    BY <1>1 DEF item, offset, uart_data_available
<1>3. /\ line.items[item].bytes \in Seq(Byte)
      /\ Len(line.items[item].bytes) \in 1..18
    BY <1>1, <1>2, ItemsAre
<1>4. offset < Len(line.items[item].bytes)
    BY DEF TypeOK
<1>5. offset \in 0..17
    <2> DEFINE n == Len(line.items[item].bytes)
    <2>1. n \in 1..18 /\ offset < n /\ offset \in Nat
        BY <1>2, <1>3, <1>4
    <2> HIDE DEF n
    <2> QED BY <2>1
<1>6. Arrived = line.items[item].bytes[offset + 1] /\ Arrived \in Byte
    <2>1. offset + 1 \in 1..Len(line.items[item].bytes)
        BY <1>3, <1>4, <1>5
    <2> QED BY <1>3, <2>1, ElementOfSeq DEF Arrived
<1>7. CASE offset + 1 = Len(line.items[item].bytes)
    <2>1. position' = <<item + 1, 0>>
        BY <1>7 DEF uart_read_byte, After
    <2>2. item' = item + 1 /\ offset' = 0
        BY <2>1 DEF item, offset
    <2>3. position' \in Nat \X Nat /\ LineOK'
        BY <1>1, <1>2, <2>1 DEF LineOK
    <2>4. uart_data_available' => 0 < Len(line.items[item + 1].bytes)
        <3>1. uart_data_available' => item + 1 \in 1..Len(line.items)
            BY <1>1, <1>2, <2>2 DEF uart_data_available
        <3>2. uart_data_available' => Len(line.items[item + 1].bytes) \in 1..18
            BY <1>1, <3>1, ItemsAre
        <3> DEFINE n == Len(line.items[item + 1].bytes)
        <3> HIDE DEF n
        <3>3. n \in 1..18 => 0 < n
            OBVIOUS
        <3> QED BY <3>2, <3>3 DEF n
    <2> QED BY <1>2, <1>4, <1>5, <1>6, <1>7, <2>2, <2>3, <2>4
<1>8. CASE offset + 1 # Len(line.items[item].bytes)
    <2>1. position' = <<item, offset + 1>>
        BY <1>8 DEF uart_read_byte, After
    <2>2. item' = item /\ offset' = offset + 1
        BY <2>1 DEF item, offset
    <2>3. position' \in Nat \X Nat /\ LineOK'
        BY <1>1, <1>2, <2>1 DEF LineOK
    <2>4. offset + 1 < Len(line.items[item].bytes)
        BY <1>3, <1>4, <1>5, <1>8
    <2> QED BY <1>2, <1>4, <1>5, <1>6, <1>8, <2>2, <2>3, <2>4
<1> QED BY <1>7, <1>8

\* Masking keeps an index in the ring.
LEMMA MaskedIn ==
    ASSUME NEW i \in Nat
    PROVE  Masked(i) \in Indices
<1>1. CASE PACKET_BUFFER_LENGTH = 2
    BY <1>1 DEF Masked, Indices
<1>2. CASE PACKET_BUFFER_LENGTH = 4
    BY <1>2 DEF Masked, Indices
<1>3. CASE PACKET_BUFFER_LENGTH = 8
    BY <1>3 DEF Masked, Indices
<1>4. CASE PACKET_BUFFER_LENGTH = 16
    BY <1>4 DEF Masked, Indices
<1> QED BY <1>1, <1>2, <1>3, <1>4, BufferAssumption

LEMMA ReadIndices ==
    ASSUME TypeOK
    PROVE  Masked(packet_write_index + 1) \in Indices /\ Masked(packet_read_index + 1) \in Indices
<1>1. packet_write_index + 1 \in Nat /\ packet_read_index + 1 \in Nat
    BY BufferAssumption DEF TypeOK, Indices
<1> QED BY <1>1, MaskedIn

-----------------------------------------------------------------------------
(* Types.                                                                  *)

LEMMA InitialTypes ==
    ASSUME NEW l \in Lines, InitDevice(l)
    PROVE  TypeOK /\ LineOK
<1>1. line = l /\ position = <<1, 0>> /\ item = 1 /\ offset = 0
    BY DEF InitDevice, item, offset
<1>2. Len(line.items) \in Nat /\ line.state \in {"SYNC", "WAIT_FOR_FW_UPDATE_REQ"}
    BY <1>1, ItemsAre
<1>3. uart_data_available => 0 < Len(line.items[1].bytes)
    <2>1. uart_data_available => 1 \in 1..Len(line.items)
        BY <1>1, <1>2 DEF uart_data_available
    <2>2. uart_data_available => Len(line.items[1].bytes) \in 1..18
        BY <1>1, <2>1, ItemsAre
    <2> DEFINE n == Len(line.items[1].bytes)
    <2> HIDE DEF n
    <2>3. n \in 1..18 => 0 < n
        OBVIOUS
    <2> QED BY <2>2, <2>3 DEF n
<1>4. current_temp_packet \in PacketBytes
    BY DEF InitDevice, PacketBytes, PACKET_TOTAL_LENGTH, Byte
<1>5. incoming_packet_buffer \in [Indices -> PacketBytes]
    BY <1>4 DEF InitDevice
<1>6. 0 \in Indices
    BY BufferAssumption DEF Indices
<1>7. sync_seq \in Seq(Byte) /\ Len(sync_seq) = 4
    BY DEF InitDevice, Byte
<1>8. received \in Seq(PacketBytes)
    BY DEF InitDevice
<1>9. /\ running = "bootloader" /\ bootloader_state = line.state
      /\ current_state = "LENGTH" /\ data_byte_count = 0
      /\ packet_read_index = 0 /\ packet_write_index = 0
    BY DEF InitDevice
<1>10. 0 \in 0..PACKET_DATA_LENGTH - 1
    BY DEF PACKET_DATA_LENGTH
<1>11. position \in Nat \X Nat /\ LineOK
    BY <1>1, <1>2 DEF LineOK
<1> QED BY <1>1, <1>2, <1>3, <1>4, <1>5, <1>6, <1>7, <1>8, <1>9, <1>10, <1>11 DEF TypeOK

\* The four bytes of the search.
LEMMA Shifting ==
    ASSUME TypeOK, Arrived \in Byte
    PROVE  ShiftedIn \in Seq(Byte) /\ Len(ShiftedIn) = 4
<1>1. sync_seq \in Seq(Byte) /\ Len(sync_seq) = 4
    BY DEF TypeOK
<1>2. sync_seq # <<>>
    BY <1>1, EmptySeq
<1>3. Tail(sync_seq) \in Seq(Byte) /\ Len(Tail(sync_seq)) = 3
    BY <1>1, <1>2, HeadTailProperties
<1>4. Append(Tail(sync_seq), Arrived) \in Seq(Byte)
      /\ Len(Append(Tail(sync_seq), Arrived)) = Len(Tail(sync_seq)) + 1
    BY <1>3, AppendProperties
<1> QED BY <1>3, <1>4 DEF ShiftedIn

\* What a step of comms_update does to the line, for all of its branches.
LEMMA Reading ==
    ASSUME TypeOK, LineOK, comms_update
    PROVE  /\ uart_data_available /\ uart_read_byte /\ line' = line
           /\ running = "bootloader" /\ bootloader_state # "SYNC"
           /\ UNCHANGED <<bootloader_state, sync_seq, packet_read_index>>
<1>1. ASSUME NEW s, Polling(s)
      PROVE  /\ uart_data_available /\ uart_read_byte /\ line' = line
             /\ running = "bootloader" /\ bootloader_state # "SYNC"
             /\ UNCHANGED <<bootloader_state, sync_seq>>
    BY <1>1 DEF Polling
<1>2. \E s \in {"LENGTH", "DATA", "CRC"} : Polling(s)
    BY DEF comms_update, ReadLength, ReadData, Damaged, Retx, Ack, Store, ReadCrc
<1>3. packet_read_index' = packet_read_index
    BY DEF comms_update, ReadLength, ReadData, Damaged, Retx, Ack, Store, ring
<1> QED BY <1>1, <1>2, <1>3

LEMMA LengthTypes ==
    ASSUME TypeOK, LineOK, ReadLength
    PROVE  /\ current_temp_packet' \in PacketBytes /\ current_state' = "DATA"
           /\ current_temp_packet' = [current_temp_packet EXCEPT ![1] = Arrived]
           /\ data_byte_count' = 0 /\ current_state = "LENGTH"
           /\ UNCHANGED <<running, ring>>
<1>1. Arrived \in Byte
    BY Advances, Reading DEF comms_update
<1>2. current_state = "LENGTH" /\ data_byte_count = 0
    BY DEF ReadLength, Polling, TypeOK
<1>3. current_temp_packet \in [1..18 -> Byte]
    BY DEF TypeOK, PacketBytes, PACKET_TOTAL_LENGTH
<1> QED BY <1>1, <1>2, <1>3 DEF ReadLength, PacketBytes, PACKET_TOTAL_LENGTH

LEMMA DataTypes ==
    ASSUME TypeOK, LineOK, ReadData
    PROVE  /\ current_temp_packet' \in PacketBytes /\ current_state = "DATA"
           /\ data_byte_count \in 0..15
           /\ current_temp_packet' = [current_temp_packet EXCEPT ![data_byte_count + 2] = Arrived]
           /\ \/ data_byte_count = 15 /\ data_byte_count' = 0 /\ current_state' = "CRC"
              \/ /\ data_byte_count < 15 /\ data_byte_count' = data_byte_count + 1
                 /\ current_state' = "DATA"
           /\ UNCHANGED <<running, ring>>
<1>1. Arrived \in Byte
    BY Advances, Reading DEF comms_update
<1>2. current_state = "DATA" /\ data_byte_count \in 0..15
    BY DEF ReadData, Polling, TypeOK, PACKET_DATA_LENGTH
<1>3. current_temp_packet \in [1..18 -> Byte]
    BY DEF TypeOK, PacketBytes, PACKET_TOTAL_LENGTH
<1>4. current_temp_packet' = [current_temp_packet EXCEPT ![data_byte_count + 2] = Arrived]
    BY DEF ReadData
<1>5. current_temp_packet' \in PacketBytes
    BY <1>1, <1>2, <1>3, <1>4 DEF PacketBytes, PACKET_TOTAL_LENGTH
<1>6. /\ data_byte_count' = IF data_byte_count + 1 >= 16 THEN 0 ELSE data_byte_count + 1
      /\ current_state' = IF data_byte_count + 1 >= 16 THEN "CRC" ELSE "DATA"
      /\ UNCHANGED <<running, ring>>
    BY DEF ReadData, NextCount, PACKET_DATA_LENGTH
<1> QED BY <1>2, <1>4, <1>5, <1>6

LEMMA CrcTypes ==
    ASSUME TypeOK, LineOK, comms_update, ReadCrc
    PROVE  /\ Complete \in PacketBytes /\ current_temp_packet' = Complete
           /\ current_state = "CRC" /\ data_byte_count' = 0
<1>1. Arrived \in Byte
    BY Advances, Reading
<1>2. current_state = "CRC" /\ data_byte_count = 0
    BY DEF ReadCrc, Polling, TypeOK
<1>3. current_temp_packet \in [1..18 -> Byte]
    BY DEF TypeOK, PacketBytes, PACKET_TOTAL_LENGTH
<1> QED BY <1>1, <1>2, <1>3 DEF ReadCrc, Complete, PacketBytes, PACKET_TOTAL_LENGTH

\* The ring and what has been put into it.
RingTypes ==
    /\ incoming_packet_buffer \in [Indices -> PacketBytes]
    /\ packet_read_index \in Indices /\ packet_write_index \in Indices
    /\ received \in Seq(PacketBytes)

LEMMA StoreTypes ==
    ASSUME TypeOK, LineOK, Store
    PROVE  /\ RingTypes'
           /\ \/ running' = "fault" /\ UNCHANGED <<current_state, ring>>
              \/ /\ running' = "bootloader" /\ current_state' = "LENGTH"
                 /\ received' = Append(received, Complete)
<1>1. Complete \in PacketBytes
    BY CrcTypes DEF Store, comms_update
<1>2. /\ incoming_packet_buffer \in [Indices -> PacketBytes]
      /\ packet_read_index \in Indices /\ packet_write_index \in Indices
      /\ received \in Seq(PacketBytes)
    BY DEF TypeOK
<1>3. running = "bootloader"
    BY DEF Store, ReadCrc, Polling
<1>4. CASE running' = "fault" /\ UNCHANGED <<current_state, ring>>
    BY <1>2, <1>4 DEF ring, RingTypes
<1>5. CASE /\ incoming_packet_buffer' =
                [incoming_packet_buffer EXCEPT ![packet_write_index] = Complete]
           /\ packet_write_index' = next_write_index
           /\ received' = Append(received, Complete)
           /\ current_state' = "LENGTH"
           /\ UNCHANGED <<running, packet_read_index>>
    <2>1. incoming_packet_buffer' \in [Indices -> PacketBytes]
        BY <1>1, <1>2, <1>5
    <2>2. packet_write_index' \in Indices
        BY <1>5, ReadIndices DEF next_write_index
    <2>3. received' \in Seq(PacketBytes)
        BY <1>1, <1>2, <1>5, AppendProperties
    <2> QED BY <1>2, <1>3, <1>5, <2>1, <2>2, <2>3 DEF RingTypes
<1> QED BY <1>4, <1>5 DEF Store

\* Types without the line.
ParserTypes ==
    /\ running \in {"bootloader", "fault"}
    /\ current_state \in {"LENGTH", "DATA", "CRC"}
    /\ data_byte_count \in 0..15
    /\ current_state # "DATA" => data_byte_count = 0
    /\ current_temp_packet \in PacketBytes

LEMMA UpdateTypes ==
    ASSUME TypeOK, LineOK, comms_update
    PROVE  ParserTypes' /\ RingTypes'
<1>1. /\ running = "bootloader" /\ RingTypes
    BY Reading DEF TypeOK, RingTypes
<1>2. UNCHANGED ring => RingTypes'
    BY <1>1 DEF ring, RingTypes
<1>3. CASE ReadLength
    BY <1>1, <1>2, <1>3, LengthTypes DEF ParserTypes
<1>4. CASE ReadData
    BY <1>1, <1>2, <1>4, DataTypes DEF ParserTypes
<1>5. CASE Damaged \/ Retx \/ Ack
    <2>1. ReadCrc /\ current_state' = "LENGTH" /\ UNCHANGED <<running, ring>>
        BY <1>5 DEF Damaged, Retx, Ack
    <2> QED BY <1>1, <1>2, <2>1, CrcTypes DEF ParserTypes
<1>6. CASE Store
    <2>1. ReadCrc
        BY <1>6 DEF Store
    <2> QED BY <1>6, <2>1, CrcTypes, StoreTypes DEF ParserTypes, ring
<1> QED BY <1>3, <1>4, <1>5, <1>6 DEF comms_update

LEMMA TypeStep ==
    ASSUME TypeOK, LineOK, [DeviceNext]_deviceVars
    PROVE  TypeOK' /\ LineOK'
<1>1. CASE comms_update
    <2>1. /\ uart_data_available /\ uart_read_byte /\ line' = line
          /\ UNCHANGED <<bootloader_state, sync_seq, packet_read_index>>
        BY <1>1, Reading
    <2>2. /\ position' \in Nat \X Nat /\ LineOK'
          /\ uart_data_available' => offset' < Len(line'.items[item'].bytes)
        BY <2>1, Advances
    <2>3. /\ bootloader_state' \in {"SYNC", "WAIT_FOR_FW_UPDATE_REQ"}
          /\ sync_seq' \in Seq(Byte) /\ Len(sync_seq') = 4
        BY <2>1 DEF TypeOK
    <2>4. ParserTypes' /\ RingTypes'
        BY <1>1, UpdateTypes
    <2> QED BY <2>2, <2>3, <2>4 DEF TypeOK, ParserTypes, RingTypes, PACKET_DATA_LENGTH
<1>2. CASE comms_receive_packet
    <2>1. packet_read_index' \in Indices
        BY <1>2, ReadIndices DEF comms_receive_packet
    <2>2. UNCHANGED <<line, position, running, bootloader_state, sync_seq, current_state,
                      data_byte_count, current_temp_packet, incoming_packet_buffer,
                      packet_write_index, received>>
        BY <1>2 DEF comms_receive_packet, parser
    <2> QED BY <2>1, <2>2 DEF TypeOK, LineOK, item, offset, uart_data_available
<1>3. CASE SyncMismatch
    <2>1. /\ uart_data_available /\ uart_read_byte /\ line' = line
          /\ sync_seq' = ShiftedIn
        BY <1>3 DEF SyncMismatch, InSync
    <2>2. /\ position' \in Nat \X Nat /\ LineOK' /\ Arrived \in Byte
          /\ uart_data_available' => offset' < Len(line'.items[item'].bytes)
        BY <2>1, Advances
    <2>3. sync_seq' \in Seq(Byte) /\ Len(sync_seq') = 4
        BY <2>1, <2>2, Shifting
    <2>4. UNCHANGED <<running, bootloader_state, current_state, data_byte_count,
                      current_temp_packet, ring>>
        BY <1>3 DEF SyncMismatch, InSync, parser
    <2> QED BY <2>2, <2>3, <2>4 DEF TypeOK, ring
<1>4. CASE SyncMatch
    <2>1. /\ uart_data_available /\ line' = line /\ position' \in Flushed
          /\ sync_seq' = ShiftedIn /\ bootloader_state' = "WAIT_FOR_FW_UPDATE_REQ"
        BY <1>4 DEF SyncMatch, InSync
    <2>2. Arrived \in Byte /\ line \in Lines /\ item \in 1..Len(line.items)
          /\ Len(line.items) \in Nat
        <3>1. line \in Lines /\ Len(line.items) \in Nat
            BY ItemsAre DEF LineOK
        <3>2. item \in 1..Len(line.items) /\ offset \in Nat
            BY <2>1, <3>1 DEF LineOK, item, offset, uart_data_available
        <3>3. line.items[item].bytes \in Seq(Byte) /\ Len(line.items[item].bytes) \in Nat
            BY <3>1, <3>2, ItemsAre, LenProperties
        <3>4. offset < Len(line.items[item].bytes)
            BY <2>1 DEF TypeOK
        <3>5. offset + 1 \in 1..Len(line.items[item].bytes)
            BY <3>2, <3>3, <3>4
        <3> QED BY <3>1, <3>2, <3>3, <3>5, ElementOfSeq DEF Arrived
    <2>3. \/ /\ position' \in (item..Len(line.items)) \X (0..17)
             /\ position'[2] < Len(line.items[position'[1]].bytes)
          \/ position' = <<Len(line.items) + 1, 0>>
        BY <2>1 DEF Flushed, PACKET_TOTAL_LENGTH
    <2>4. position' \in (1..Len(line.items) + 1) \X Nat
        BY <2>2, <2>3
    <2>5. uart_data_available' => offset' < Len(line'.items[item'].bytes)
        BY <2>1, <2>2, <2>3 DEF uart_data_available, item, offset
    <2>6. position' \in Nat \X Nat /\ LineOK'
        BY <2>1, <2>2, <2>4 DEF LineOK
    <2>7. sync_seq' \in Seq(Byte) /\ Len(sync_seq') = 4
        BY <2>1, <2>2, Shifting
    <2>8. UNCHANGED <<running, current_state, data_byte_count, current_temp_packet, ring>>
        BY <1>4 DEF SyncMatch, InSync, parser
    <2> QED BY <2>1, <2>5, <2>6, <2>7, <2>8 DEF TypeOK, ring
<1>5. CASE UNCHANGED deviceVars
    BY <1>5 DEF deviceVars, parser, ring, TypeOK, LineOK, item, offset, uart_data_available
<1> QED BY <1>1, <1>2, <1>3, <1>4, <1>5 DEF DeviceNext

-----------------------------------------------------------------------------
(* In step.                                                                *)

\* How many of the first items are stored.
LEMMA Counting ==
    ASSUME NEW j \in Nat
    PROVE  /\ IsFiniteSet(StorableUpTo(j)) /\ Cardinality(StorableUpTo(j)) \in Nat
           /\ Storable(line.items[j + 1]) =>
                Cardinality(StorableUpTo(j + 1)) = Cardinality(StorableUpTo(j)) + 1
           /\ ~Storable(line.items[j + 1]) => StorableUpTo(j + 1) = StorableUpTo(j)
<1>1. IsFiniteSet(StorableUpTo(j))
    <2>1. IsFiniteSet(1..j)
        BY FS_Interval
    <2>2. StorableUpTo(j) \in SUBSET (1..j)
        BY DEF StorableUpTo
    <2> QED BY <2>1, <2>2, FS_Subset
<1>2. Cardinality(StorableUpTo(j)) \in Nat
    BY <1>1, FS_CardinalityType
<1>3. ~(j + 1 \in StorableUpTo(j))
    BY DEF StorableUpTo
<1>4. ASSUME Storable(line.items[j + 1])
      PROVE  StorableUpTo(j + 1) = StorableUpTo(j) \cup {j + 1}
    BY <1>4 DEF StorableUpTo
<1>5. ASSUME ~Storable(line.items[j + 1])
      PROVE  StorableUpTo(j + 1) = StorableUpTo(j)
    <2>1. 1..j + 1 = (1..j) \cup {j + 1}
        OBVIOUS
    <2> QED BY <1>5, <2>1 DEF StorableUpTo
<1>6. Cardinality(StorableUpTo(j) \cup {j + 1}) = Cardinality(StorableUpTo(j)) + 1
    BY <1>1, <1>3, FS_AddElement
<1> QED BY <1>1, <1>2, <1>4, <1>5, <1>6

\* A storable item has its place among those before the n-th.
LEMMA Counted ==
    ASSUME NEW n \in Nat, NEW k \in StorableUpTo(n)
    PROVE  Cardinality(StorableUpTo(k)) \in 1..Cardinality(StorableUpTo(n))
<1>1. k \in Nat /\ k >= 1 /\ k <= n
    BY DEF StorableUpTo
<1>2. IsFiniteSet(StorableUpTo(n)) /\ Cardinality(StorableUpTo(n)) \in Nat
    BY Counting
<1>3. IsFiniteSet(StorableUpTo(k)) /\ Cardinality(StorableUpTo(k)) \in Nat
    BY <1>1, Counting
<1>4. StorableUpTo(k) \in SUBSET StorableUpTo(n)
    BY <1>1 DEF StorableUpTo
<1>5. Cardinality(StorableUpTo(k)) <= Cardinality(StorableUpTo(n))
    BY <1>2, <1>4, FS_Subset
<1>6. k \in StorableUpTo(k)
    BY <1>1 DEF StorableUpTo
<1>7. Cardinality(StorableUpTo(k)) # 0
    BY <1>3, <1>6, FS_EmptySet
<1> QED BY <1>2, <1>3, <1>5, <1>7

\* Who is in step was.
LEMMA WasInStep ==
    ASSUME FramingInv, comms_update, InStep'
    PROVE  /\ InStep /\ Place /\ running' = "bootloader" /\ line' = line
           /\ item \in 1..Len(line.items) /\ offset \in 0..17
           /\ Arrived = line.items[item].bytes[offset + 1]
           /\ \/ offset = 17 /\ Len(line.items[item].bytes) = 18
                 /\ item' = item + 1 /\ offset' = 0
              \/ offset < 17 /\ item' = item /\ offset' = offset + 1
<1>1. /\ uart_data_available /\ uart_read_byte /\ line' = line
      /\ running = "bootloader" /\ TypeOK /\ LineOK
    BY Reading DEF FramingInv
<1>2. /\ item \in 1..Len(line.items) /\ offset \in 0..17
      /\ offset < Len(line.items[item].bytes)
      /\ Arrived = line.items[item].bytes[offset + 1]
      /\ \/ /\ offset + 1 = Len(line.items[item].bytes)
            /\ item' = item + 1 /\ offset' = 0
         \/ /\ offset + 1 # Len(line.items[item].bytes)
            /\ item' = item /\ offset' = offset + 1
    BY <1>1, Advances
<1>3. /\ line.state # "SYNC" /\ running' = "bootloader"
      /\ \A k \in 1..item' - 1 : Len(line.items[k].bytes) = 18
    BY <1>1 DEF InStep, PACKET_TOTAL_LENGTH
<1>4. item' = item + 1 \/ item' = item
    BY <1>2
<1>5. \A k \in 1..item - 1 : Len(line.items[k].bytes) = 18
    BY <1>2, <1>3, <1>4
<1>6. InStep
    BY <1>1, <1>3, <1>5 DEF InStep, PACKET_TOTAL_LENGTH
<1>7. Place
    BY <1>6 DEF FramingInv
<1>8. CASE item' = item + 1 /\ offset' = 0 /\ offset + 1 = Len(line.items[item].bytes)
    <2>1. item \in 1..item' - 1
        BY <1>2, <1>8
    <2>2. Len(line.items[item].bytes) = 18
        BY <1>3, <2>1
    <2>3. offset + 1 = 18
        BY <1>8, <2>2
    <2> QED BY <1>1, <1>2, <1>3, <1>6, <1>7, <1>8, <2>2, <2>3
<1>9. CASE item' = item /\ offset' = offset + 1 /\ offset + 1 # Len(line.items[item].bytes)
    <2> DEFINE n == Len(line.items[item].bytes)
    <2>1. n \in 1..18
        BY <1>1, <1>2, ItemsAre DEF LineOK
    <2>2. offset < n /\ offset + 1 # n /\ offset \in 0..17
        BY <1>2, <1>9
    <2> HIDE DEF n
    <2>3. offset < 17
        BY <2>1, <2>2
    <2> QED BY <1>1, <1>2, <1>3, <1>6, <1>7, <1>9, <2>3
<1> QED BY <1>2, <1>8, <1>9

\* The length and the data: what has been read of the packet grows by the byte.
LEMMA WithinPacket ==
    ASSUME FramingInv, InStep', ReadLength \/ ReadData
    PROVE  Place' /\ item' = item /\ received' = received
<1>1. comms_update /\ TypeOK /\ LineOK
    BY DEF comms_update, FramingInv
<1>2. /\ Place /\ line' = line /\ offset \in 0..17
      /\ Arrived = line.items[item].bytes[offset + 1]
      /\ offset = 17 \/ (offset < 17 /\ item' = item /\ offset' = offset + 1)
    BY <1>1, WasInStep
<1>3. current_temp_packet \in [1..18 -> Byte]
    BY <1>1 DEF TypeOK, PacketBytes, PACKET_TOTAL_LENGTH
<1>4. CASE ReadLength
    <2>1. /\ current_state = "LENGTH" /\ current_state' = "DATA" /\ data_byte_count' = 0
          /\ current_temp_packet' = [current_temp_packet EXCEPT ![1] = Arrived]
          /\ received' = received
        BY <1>1, <1>4, LengthTypes DEF ring
    <2>2. offset = 0
        BY <1>2, <2>1 DEF Place
    <2>3. item' = item /\ offset' = 1
        BY <1>2, <2>2
    <2>4. current_temp_packet'[1] = line.items[item].bytes[1]
        BY <1>2, <1>3, <2>1, <2>2
    <2>5. \A k \in 1..offset' : current_temp_packet'[k] = line'.items[item'].bytes[k]
        BY <1>2, <2>3, <2>4
    <2> QED BY <2>1, <2>3, <2>5 DEF Place
<1>5. CASE ReadData
    <2>1. /\ current_state = "DATA" /\ data_byte_count \in 0..15
          /\ current_temp_packet' = [current_temp_packet EXCEPT ![data_byte_count + 2] = Arrived]
          /\ \/ data_byte_count = 15 /\ data_byte_count' = 0 /\ current_state' = "CRC"
             \/ /\ data_byte_count < 15 /\ data_byte_count' = data_byte_count + 1
                /\ current_state' = "DATA"
          /\ received' = received
        BY <1>1, <1>5, DataTypes DEF ring
    <2>2. offset \in 1..16 /\ data_byte_count = offset - 1
        BY <1>2, <2>1 DEF Place
    <2>3. item' = item /\ offset' = offset + 1
        BY <1>2, <2>2
    <2>4. current_temp_packet' = [current_temp_packet EXCEPT ![offset + 1] = Arrived]
        BY <2>1, <2>2
    <2>5. \A k \in 1..offset : current_temp_packet'[k] = line.items[item].bytes[k]
        <3>1. \A k \in 1..offset : current_temp_packet[k] = line.items[item].bytes[k]
            BY <1>2 DEF Place
        <3>2. \A k \in 1..offset : k \in 1..18 /\ k # offset + 1
            BY <2>2
        <3> QED BY <1>3, <2>4, <3>1, <3>2
    <2>6. current_temp_packet'[offset + 1] = line.items[item].bytes[offset + 1]
        BY <1>2, <1>3, <2>2, <2>4
    <2>7. \A k \in 1..offset' : current_temp_packet'[k] = line'.items[item'].bytes[k]
        BY <1>2, <2>2, <2>3, <2>5, <2>6
    <2>8. current_state' = (IF offset' = 0 THEN "LENGTH" ELSE IF offset' < 17 THEN "DATA" ELSE "CRC")
          /\ (offset' \in 1..16 => data_byte_count' = offset' - 1)
        BY <2>1, <2>2, <2>3
    <2> QED BY <2>1, <2>3, <2>7, <2>8 DEF Place
<1> QED BY <1>4, <1>5

\* The CRC: the packet is the item, and its kind says what is done with it.
LEMMA WholePacket ==
    ASSUME FramingInv, InStep', comms_update, ReadCrc
    PROVE  /\ Complete = line.items[item].bytes
           /\ item' = item + 1 /\ offset' = 0
           /\ line.items[item].packet.kind = "CORRUPT" <=> ~Valid
           /\ Valid => (line.items[item].packet.kind = "RETX"
                            <=> comms_is_single_byte_packet(Complete, 25))
           /\ Valid => (line.items[item].packet.kind = "ACK"
                            <=> comms_is_single_byte_packet(Complete, 21))
<1> DEFINE bytes == line.items[item].bytes
<1>1. TypeOK /\ LineOK /\ line \in Lines
    BY DEF FramingInv, LineOK
<1>2. /\ Place /\ line' = line /\ item \in 1..Len(line.items)
      /\ offset \in 0..17
      /\ Arrived = bytes[offset + 1]
      /\ offset = 17 => Len(bytes) = 18 /\ item' = item + 1 /\ offset' = 0
    BY WasInStep
<1>3. current_state = "CRC"
    BY <1>1, CrcTypes
<1>4. offset = 17
    BY <1>2, <1>3 DEF Place
<1>5. bytes \in Seq(Byte) /\ Len(bytes) = 18 /\ Arrived = bytes[18]
    BY <1>1, <1>2, <1>4, ItemsAre
<1>6. bytes \in [1..18 -> Byte]
    BY <1>5, LenProperties
<1>7. Complete = bytes
    <2>1. current_temp_packet \in [1..18 -> Byte]
        BY <1>1 DEF TypeOK, PacketBytes, PACKET_TOTAL_LENGTH
    <2>2. Complete = [current_temp_packet EXCEPT ![18] = Arrived]
        BY DEF Complete, PACKET_TOTAL_LENGTH
    <2>3. \A k \in 1..17 : current_temp_packet[k] = bytes[k]
        BY <1>2, <1>4 DEF Place
    <2> HIDE DEF bytes
    <2>4. Complete \in [1..18 -> Byte]
        BY <1>5, <1>6, <2>1, <2>2
    <2>5. \A k \in 1..17 : Complete[k] = bytes[k]
        BY <2>1, <2>2, <2>3
    <2>6. Complete[18] = bytes[18]
        BY <1>5, <2>1, <2>2
    <2>7. \A k \in 1..18 : Complete[k] = bytes[k]
        <3>1. \A k \in 1..18 : k \in 1..17 \/ k = 18
            OBVIOUS
        <3> QED BY <2>5, <2>6, <3>1
    <2> QED BY <1>6, <2>4, <2>7
<1>8. IsKind(bytes, line.items[item].packet.kind)
    BY <1>1, <1>2, <1>5, KindsAssumption DEF PACKET_TOTAL_LENGTH
<1>9. Valid <=> bytes[18] = comms_calculate_crc(bytes)
    BY <1>5, <1>7 DEF Valid
<1> HIDE DEF bytes
<1>10. /\ line.items[item].packet.kind = "CORRUPT" <=> ~Valid
       /\ Valid => (line.items[item].packet.kind = "RETX"
                        <=> comms_is_single_byte_packet(Complete, 25))
       /\ Valid => (line.items[item].packet.kind = "ACK"
                        <=> comms_is_single_byte_packet(Complete, 21))
    BY <1>7, <1>8, <1>9
       DEF IsKind, ReadsAs, comms_is_single_byte_packet, PACKET_TOTAL_LENGTH
<1> QED BY <1>2, <1>4, <1>7, <1>10 DEF bytes

\* The packet has been stored if, and only if, it was to be.
LEMMA StoredStep ==
    ASSUME FramingInv, InStep', comms_update, ReadCrc
    PROVE  Place' /\ StoredInOrder'
<1>1. /\ Complete = line.items[item].bytes
      /\ item' = item + 1 /\ offset' = 0
      /\ line.items[item].packet.kind = "CORRUPT" <=> ~Valid
      /\ Valid => (line.items[item].packet.kind = "RETX"
                       <=> comms_is_single_byte_packet(Complete, 25))
      /\ Valid => (line.items[item].packet.kind = "ACK"
                       <=> comms_is_single_byte_packet(Complete, 21))
    BY WholePacket
<1>2. InStep /\ line' = line /\ running' = "bootloader" /\ item \in 1..Len(line.items)
    BY WasInStep
<1>3. item \in Nat /\ item - 1 \in Nat /\ item - 1 + 1 = item /\ item' - 1 = item
    BY <1>1, <1>2
<1>4. /\ Len(received) = Cardinality(StorableUpTo(item - 1))
      /\ \A k \in StorableUpTo(item - 1) :
            received[Cardinality(StorableUpTo(k))] = line.items[k].bytes
    BY <1>2 DEF FramingInv, StoredInOrder
<1>5. /\ Cardinality(StorableUpTo(item - 1)) \in Nat
      /\ Storable(line.items[item]) =>
            Cardinality(StorableUpTo(item)) = Cardinality(StorableUpTo(item - 1)) + 1
      /\ ~Storable(line.items[item]) => StorableUpTo(item) = StorableUpTo(item - 1)
    <2>1. item - 1 \in Nat
        BY <1>3
    <2>2. /\ Cardinality(StorableUpTo(item - 1)) \in Nat
          /\ Storable(line.items[item - 1 + 1]) =>
                Cardinality(StorableUpTo(item - 1 + 1)) = Cardinality(StorableUpTo(item - 1)) + 1
          /\ ~Storable(line.items[item - 1 + 1]) => StorableUpTo(item - 1 + 1) = StorableUpTo(item - 1)
        BY <2>1, Counting
    <2> QED BY <1>3, <2>2
<1>6. \A j : StorableUpTo(j)' = StorableUpTo(j)
    BY <1>2 DEF StorableUpTo, Storable
<1>7. StoredInOrder' <=>
        (InStep' =>
            /\ Len(received') = Cardinality(StorableUpTo(item))
            /\ \A k \in StorableUpTo(item) :
                received'[Cardinality(StorableUpTo(k))] = line.items[k].bytes)
    BY <1>2, <1>3 DEF StoredInOrder, StorableUpTo, Storable
<1>8. CASE Damaged \/ Retx \/ Ack
    <2>1. current_state' = "LENGTH" /\ received' = received
        BY <1>8 DEF Damaged, Retx, Ack, ring
    <2>2. ~Storable(line.items[item])
        BY <1>1, <1>8 DEF Damaged, Retx, Ack, Storable
    <2>3. StoredInOrder'
        BY <1>4, <1>5, <1>7, <2>1, <2>2
    <2> QED BY <1>1, <2>1, <2>3 DEF Place
<1>9. CASE Store
    <2>1. current_state' = "LENGTH" /\ received' = Append(received, Complete)
        BY <1>2, <1>9, StoreTypes DEF FramingInv
    <2>2. Storable(line.items[item])
        BY <1>1, <1>9 DEF Store, Storable
    <2>3. received \in Seq(PacketBytes) /\ Complete \in PacketBytes
        BY CrcTypes DEF FramingInv, TypeOK
    <2>4. Len(received') = Len(received) + 1
        BY <2>1, <2>3, AppendProperties
    <2>5. \A n \in 1..Len(received) : received'[n] = received[n]
        BY <2>1, <2>3, AppendProperties
    <2>6. received'[Len(received) + 1] = Complete
        BY <2>1, <2>3, AppendProperties
    <2>7. Len(received') = Cardinality(StorableUpTo(item))
        BY <1>4, <1>5, <2>2, <2>4
    <2>8. ASSUME NEW k \in StorableUpTo(item)
          PROVE  received'[Cardinality(StorableUpTo(k))] = line.items[k].bytes
        <3>1. CASE k \in StorableUpTo(item - 1)
            <4>1. Cardinality(StorableUpTo(k)) \in 1..Cardinality(StorableUpTo(item - 1))
                BY <1>3, <3>1, Counted
            <4> QED BY <1>4, <2>5, <3>1, <4>1
        <3>2. CASE ~(k \in StorableUpTo(item - 1))
            <4>1. k = item
                BY <1>3, <3>2 DEF StorableUpTo
            <4> QED BY <1>1, <1>4, <1>5, <2>2, <2>6, <4>1
        <3> QED BY <3>1, <3>2
    <2>9. StoredInOrder'
        BY <1>7, <2>7, <2>8
    <2> QED BY <1>1, <2>1, <2>9 DEF Place
<1>10. ~(ReadLength \/ ReadData)
    BY DEF ReadCrc, ReadLength, ReadData, Polling
<1> QED BY <1>8, <1>9, <1>10 DEF comms_update

LEMMA InvariantStep ==
    ASSUME FramingInv, [DeviceNext]_deviceVars
    PROVE  FramingInv'
<1>1. TypeOK' /\ LineOK'
    BY TypeStep DEF FramingInv
<1>2. CASE comms_update
    <2>1. line'.state # "SYNC" => bootloader_state' # "SYNC"
        BY <1>2, Reading DEF FramingInv
    <2>2. CASE ReadLength \/ ReadData
        <3>1. ASSUME InStep'
              PROVE  Place' /\ StoredInOrder'
            <4>1. Place' /\ item' = item /\ received' = received
                BY <2>2, <3>1, WithinPacket
            <4>2. InStep /\ line' = line
                BY <1>2, <3>1, WasInStep
            <4>3. StoredInOrder
                BY DEF FramingInv
            <4>4. StoredInOrder'
                BY <4>1, <4>2, <4>3 DEF StoredInOrder, StorableUpTo, Storable
            <4> QED BY <4>1, <4>4
        <3>2. ~InStep' => StoredInOrder'
            BY DEF StoredInOrder
        <3> QED BY <1>1, <2>1, <3>1, <3>2 DEF FramingInv
    <2>3. CASE ReadCrc
        <3>1. InStep' => Place' /\ StoredInOrder'
            BY <1>2, <2>3, StoredStep
        <3>2. ~InStep' => StoredInOrder'
            BY DEF StoredInOrder
        <3> QED BY <1>1, <2>1, <3>1, <3>2 DEF FramingInv
    <2> QED BY <1>2, <2>2, <2>3 DEF comms_update, Damaged, Retx, Ack, Store
<1>3. CASE comms_receive_packet
    <2>1. UNCHANGED <<line, position, running, bootloader_state, current_state,
                      data_byte_count, current_temp_packet, received>>
        BY <1>3 DEF comms_receive_packet, parser
    <2> QED BY <1>1, <2>1 DEF FramingInv, Place, InStep, StoredInOrder, StorableUpTo,
                             Storable, item, offset
<1>4. CASE SyncMismatch \/ SyncMatch
    <2>1. line' = line /\ bootloader_state = "SYNC"
        BY <1>4 DEF SyncMismatch, SyncMatch, InSync
    <2>2. line.state = "SYNC"
        BY <2>1 DEF FramingInv
    <2>3. ~InStep'
        BY <2>1, <2>2 DEF InStep
    <2> QED BY <1>1, <2>1, <2>2, <2>3 DEF FramingInv, StoredInOrder
<1>5. CASE UNCHANGED deviceVars
    BY <1>1, <1>5 DEF deviceVars, parser, ring, FramingInv, Place, InStep, StoredInOrder,
                      StorableUpTo, Storable, item, offset
<1> QED BY <1>2, <1>3, <1>4, <1>5 DEF DeviceNext

LEMMA InvariantInitially ==
    ASSUME NEW l \in Lines, InitDevice(l)
    PROVE  FramingInv
<1>1. TypeOK /\ LineOK
    BY InitialTypes
<1>2. /\ item = 1 /\ offset = 0 /\ bootloader_state = line.state
      /\ current_state = "LENGTH" /\ received = <<>>
    BY DEF InitDevice, item, offset
<1>3. Place
    BY <1>2 DEF Place
<1>4. StorableUpTo(item - 1) = {}
    BY <1>2 DEF StorableUpTo
<1>5. StoredInOrder
    BY <1>2, <1>4, FS_EmptySet DEF StoredInOrder
<1> QED BY <1>1, <1>2, <1>3, <1>5 DEF FramingInv

-----------------------------------------------------------------------------
THEOREM Invariance == DeviceSpec => []FramingInv
<1>1. (\E l \in Lines : InitDevice(l)) => FramingInv
    BY InvariantInitially
<1>2. FramingInv /\ [DeviceNext]_deviceVars => FramingInv'
    BY InvariantStep
<1> QED BY <1>1, <1>2, PTL DEF DeviceSpec

\* The parser and the ring keep their types whatever bytes arrive.
THEOREM TypeCorrect == DeviceSpec => []TypeOK
<1>1. FramingInv => TypeOK
    BY DEF FramingInv
<1> QED BY <1>1, Invariance, PTL

\* While the line has whole packets, every undamaged one that is neither ACK nor
\* RETX is stored, once and in order: the parser never loses its place, however
\* many packets are damaged and whenever the main loop empties the ring.
THEOREM InOrder == DeviceSpec => []StoredInOrder
<1>1. FramingInv => StoredInOrder
    BY DEF FramingInv
<1> QED BY <1>1, Invariance, PTL

-----------------------------------------------------------------------------
(* The ring of packets.                                                    *)

Records == {PacketOf(p) : p \in PacketBytes}

LEMMA RingSize == PACKET_BUFFER_LENGTH \in Nat /\ PACKET_BUFFER_LENGTH >= 2
BY BufferAssumption

LEMMA Remainder ==
    ASSUME NEW n \in Nat \ {0}, NEW i \in 0..2 * n - 1
    PROVE  i % n = IF i < n THEN i ELSE i - n
  OBVIOUS

LEMMA MaskedOnce ==
    ASSUME NEW i \in 0..2 * PACKET_BUFFER_LENGTH - 1
    PROVE  Masked(i) = IF i < PACKET_BUFFER_LENGTH THEN i ELSE i - PACKET_BUFFER_LENGTH
<1>1. PACKET_BUFFER_LENGTH \in Nat \ {0}
    BY RingSize
<1> QED BY <1>1, Remainder DEF Masked

\* What is in a ring b from read index r to write index w; how much that is, and
\* where the k-th of it is.
RingOf(b, r, w) == [k \in 1..Masked(w + PACKET_BUFFER_LENGTH - r) |-> b[Masked(r + k - 1)]]
Count(r, w) == IF r <= w THEN w - r ELSE w + PACKET_BUFFER_LENGTH - r
Nth(r, k) == IF r + k - 1 < PACKET_BUFFER_LENGTH THEN r + k - 1 ELSE r + k - 1 - PACKET_BUFFER_LENGTH

LEMMA RingIs ==
    ASSUME NEW b \in [Indices -> Records], NEW r \in Indices, NEW w \in Indices
    PROVE  /\ Count(r, w) \in 0..PACKET_BUFFER_LENGTH - 1
           /\ \A k \in 1..Count(r, w) : Nth(r, k) \in Indices
           /\ RingOf(b, r, w) = [k \in 1..Count(r, w) |-> b[Nth(r, k)]]
           /\ RingOf(b, r, w) \in Seq(Records)
           /\ Len(RingOf(b, r, w)) = Count(r, w)
<1>1. r \in 0..PACKET_BUFFER_LENGTH - 1 /\ w \in 0..PACKET_BUFFER_LENGTH - 1
    BY DEF Indices
<1>2. Masked(w + PACKET_BUFFER_LENGTH - r) = Count(r, w)
    <2> DEFINE i == w + PACKET_BUFFER_LENGTH - r
    <2>1. i \in 0..2 * PACKET_BUFFER_LENGTH - 1
        BY <1>1, RingSize
    <2>2. Masked(i) = IF i < PACKET_BUFFER_LENGTH THEN i ELSE i - PACKET_BUFFER_LENGTH
        <3> HIDE DEF i
        <3> QED BY <2>1, MaskedOnce
    <2> QED BY <1>1, <2>2, RingSize DEF Count
<1>3. Count(r, w) \in 0..PACKET_BUFFER_LENGTH - 1
    BY <1>1, RingSize DEF Count
<1>4. ASSUME NEW k \in 1..Count(r, w)
      PROVE  Masked(r + k - 1) = Nth(r, k) /\ Nth(r, k) \in Indices
    <2> DEFINE i == r + k - 1
    <2>1. i \in 0..2 * PACKET_BUFFER_LENGTH - 1
        BY <1>1, <1>3, RingSize
    <2>2. Masked(i) = IF i < PACKET_BUFFER_LENGTH THEN i ELSE i - PACKET_BUFFER_LENGTH
        <3> HIDE DEF i
        <3> QED BY <2>1, MaskedOnce
    <2>3. Nth(r, k) \in 0..PACKET_BUFFER_LENGTH - 1
        BY <1>1, <1>3, RingSize DEF Nth
    <2>4. (IF i < PACKET_BUFFER_LENGTH THEN i ELSE i - PACKET_BUFFER_LENGTH) = Nth(r, k)
        BY <1>1, <1>3, RingSize DEF Nth
    <2> QED BY <2>2, <2>3, <2>4 DEF Indices
<1>5. RingOf(b, r, w) = [k \in 1..Count(r, w) |-> b[Nth(r, k)]]
    BY <1>2, <1>4 DEF RingOf
<1>6. RingOf(b, r, w) \in [1..Count(r, w) -> Records]
    BY <1>4, <1>5
<1> QED BY <1>3, <1>4, <1>5, <1>6

LEMMA PutAppends ==
    ASSUME NEW b \in [Indices -> Records], NEW r \in Indices, NEW w \in Indices,
           NEW x \in Records, Masked(w + 1) # r
    PROVE  /\ Len(RingOf(b, r, w)) < PACKET_BUFFER_LENGTH - 1
           /\ RingOf([b EXCEPT ![w] = x], r, Masked(w + 1))
                = Append(RingOf(b, r, w), x)
<1> DEFINE c == [b EXCEPT ![w] = x]
           v == Masked(w + 1)
<1>1. r \in 0..PACKET_BUFFER_LENGTH - 1 /\ w \in 0..PACKET_BUFFER_LENGTH - 1
    BY DEF Indices
<1>2. v = IF w + 1 < PACKET_BUFFER_LENGTH THEN w + 1 ELSE 0
    <2>1. w + 1 \in 0..2 * PACKET_BUFFER_LENGTH - 1
        BY <1>1, RingSize
    <2> QED BY <1>1, <2>1, MaskedOnce, RingSize
<1>3. v \in Indices /\ c \in [Indices -> Records]
    BY <1>1, <1>2, RingSize DEF Indices
<1>4. Count(r, v) = Count(r, w) + 1 /\ Count(r, w) \in Nat /\ Count(r, w) < PACKET_BUFFER_LENGTH - 1
    BY <1>1, <1>2, RingSize DEF Count
<1>5. ASSUME NEW k \in 1..Count(r, w)
      PROVE  Nth(r, k) \in Indices /\ Nth(r, k) # w
    BY <1>1, <1>4, RingSize DEF Nth, Count, Indices
<1>6. Nth(r, Count(r, w) + 1) = w
    BY <1>1, <1>4, RingSize DEF Nth, Count
<1>7. ASSUME NEW k \in 1..Count(r, w) + 1
      PROVE  c[Nth(r, k)] = IF k <= Count(r, w) THEN b[Nth(r, k)] ELSE x
    <2>1. CASE k \in 1..Count(r, w)
        BY <1>4, <1>5, <2>1
    <2>2. CASE k = Count(r, w) + 1
        BY <1>4, <1>6, <2>2
    <2> QED BY <1>4, <2>1, <2>2
<1>8. RingOf(c, r, v) = [k \in 1..Count(r, v) |-> c[Nth(r, k)]]
    BY <1>3, RingIs
<1>9. /\ RingOf(b, r, w) = [k \in 1..Count(r, w) |-> b[Nth(r, k)]]
      /\ RingOf(b, r, w) \in Seq(Records)
      /\ Len(RingOf(b, r, w)) = Count(r, w)
    BY RingIs
<1>10. Append(RingOf(b, r, w), x)
        = [k \in 1..Count(r, w) + 1 |-> IF k <= Count(r, w) THEN b[Nth(r, k)] ELSE x]
    BY <1>4, <1>9
<1>11. RingOf(c, r, v)
        = [k \in 1..Count(r, w) + 1 |-> IF k <= Count(r, w) THEN b[Nth(r, k)] ELSE x]
    <2> HIDE DEF c, v
    <2> QED BY <1>4, <1>7, <1>8
<1> QED BY <1>4, <1>9, <1>10, <1>11

LEMMA GetTakesHead ==
    ASSUME NEW b \in [Indices -> Records], NEW r \in Indices, NEW w \in Indices, r # w
    PROVE  /\ Masked(r + 1) \in Indices
           /\ RingOf(b, r, w) # <<>>
           /\ Head(RingOf(b, r, w)) = b[r]
           /\ RingOf(b, Masked(r + 1), w) = Tail(RingOf(b, r, w))
<1> DEFINE q == Masked(r + 1)
<1>1. r \in 0..PACKET_BUFFER_LENGTH - 1 /\ w \in 0..PACKET_BUFFER_LENGTH - 1
    BY DEF Indices
<1>2. q = IF r + 1 < PACKET_BUFFER_LENGTH THEN r + 1 ELSE 0
    <2>1. r + 1 \in 0..2 * PACKET_BUFFER_LENGTH - 1
        BY <1>1, RingSize
    <2> QED BY <1>1, <2>1, MaskedOnce, RingSize
<1>3. q \in Indices
    BY <1>1, <1>2, RingSize DEF Indices
<1>4. Count(q, w) = Count(r, w) - 1 /\ Count(r, w) \in Nat \ {0} /\ Count(r, w) < PACKET_BUFFER_LENGTH
    BY <1>1, <1>2, RingSize DEF Count
<1>5. /\ RingOf(b, r, w) = [k \in 1..Count(r, w) |-> b[Nth(r, k)]]
      /\ RingOf(b, r, w) \in Seq(Records)
      /\ Len(RingOf(b, r, w)) = Count(r, w)
    BY RingIs
<1>6. RingOf(b, q, w) = [k \in 1..Count(q, w) |-> b[Nth(q, k)]]
    BY <1>3, RingIs
<1>7. ASSUME NEW k \in 1..Count(r, w) - 1
      PROVE  Nth(q, k) = Nth(r, k + 1)
    BY <1>1, <1>2, <1>4, RingSize DEF Nth
<1>8. Tail(RingOf(b, r, w)) = [k \in 1..Count(r, w) - 1 |-> b[Nth(r, k + 1)]]
    BY <1>4, <1>5
<1>9. RingOf(b, q, w) = Tail(RingOf(b, r, w))
    <2> HIDE DEF q
    <2> QED BY <1>4, <1>6, <1>7, <1>8
<1>10. RingOf(b, r, w) # <<>> /\ Head(RingOf(b, r, w)) = b[Nth(r, 1)]
    BY <1>4, <1>5
<1>11. Nth(r, 1) = r
    BY <1>1, RingSize DEF Nth
<1> QED BY <1>3, <1>9, <1>10, <1>11

\* The packets the ring holds, by their records.
NamedRing(b) == [i \in Indices |-> PacketOf(b[i])]

LEMMA NamedRingIs ==
    ASSUME NEW b \in [Indices -> PacketBytes], NEW r \in Indices, NEW w \in Indices
    PROVE  /\ NamedRing(b) \in [Indices -> Records]
           /\ [k \in 1..Masked(w + PACKET_BUFFER_LENGTH - r) |-> PacketOf(b[Masked(r + k - 1)])]
                = RingOf(NamedRing(b), r, w)
<1>1. NamedRing(b) \in [Indices -> Records]
    BY DEF NamedRing, Records
<1>2. ASSUME NEW k \in 1..Masked(w + PACKET_BUFFER_LENGTH - r)
      PROVE  PacketOf(b[Masked(r + k - 1)]) = NamedRing(b)[Masked(r + k - 1)]
    <2>1. w + PACKET_BUFFER_LENGTH - r \in Nat
        BY RingSize DEF Indices
    <2>2. Masked(w + PACKET_BUFFER_LENGTH - r) \in Nat
        BY <2>1, MaskedIn, RingSize DEF Indices
    <2>3. r + k - 1 \in Nat
        BY <2>2 DEF Indices
    <2>4. Masked(r + k - 1) \in Indices
        BY <2>3, MaskedIn
    <2> QED BY <2>4 DEF NamedRing
<1> QED BY <1>1, <1>2 DEF RingOf

LEMMA StoredNow ==
    Stored = [k \in 1..Masked(packet_write_index + PACKET_BUFFER_LENGTH - packet_read_index) |->
                PacketOf(incoming_packet_buffer[Masked(packet_read_index + k - 1)])]
BY DEF Stored

LEMMA StoredNext ==
    ASSUME line' = line
    PROVE  Stored' =
            [k \in 1..Masked(packet_write_index' + PACKET_BUFFER_LENGTH - packet_read_index') |->
                PacketOf(incoming_packet_buffer'[Masked(packet_read_index' + k - 1)])]
BY DEF Stored, PacketOf, Sent

\* A step that leaves the ring alone.
LEMMA StoredStill ==
    ASSUME line' = line, UNCHANGED ring
    PROVE  Stored' = Stored
BY StoredNow, StoredNext DEF ring

LEMMA StoredRing ==
    ASSUME TypeOK
    PROVE  /\ NamedRing(incoming_packet_buffer) \in [Indices -> Records]
           /\ Stored = RingOf(NamedRing(incoming_packet_buffer), packet_read_index,
                             packet_write_index)
BY StoredNow, NamedRingIs DEF TypeOK

\* Putting a packet appends it, unless the ring is full; taking one takes the head.
LEMMA StoredFull ==
    ASSUME TypeOK, next_write_index = packet_read_index
    PROVE  Len(Stored) = PACKET_BUFFER_LENGTH - 1
<1> DEFINE r == packet_read_index
           w == packet_write_index
<1>1. r \in Indices /\ w \in Indices
    BY DEF TypeOK
<1>2. Len(Stored) = Count(r, w)
    BY <1>1, StoredRing, RingIs
<1>3. /\ r \in 0..PACKET_BUFFER_LENGTH - 1 /\ w \in 0..PACKET_BUFFER_LENGTH - 1
      /\ w + 1 \in 0..2 * PACKET_BUFFER_LENGTH - 1
    BY <1>1, RingSize DEF Indices
<1>4. r = IF w + 1 < PACKET_BUFFER_LENGTH THEN w + 1 ELSE (w + 1) - PACKET_BUFFER_LENGTH
    <2> DEFINE i == w + 1
    <2>1. r = Masked(i) /\ i \in 0..2 * PACKET_BUFFER_LENGTH - 1
        BY <1>3 DEF next_write_index
    <2> HIDE DEF i
    <2>2. r = IF i < PACKET_BUFFER_LENGTH THEN i ELSE i - PACKET_BUFFER_LENGTH
        BY <2>1, MaskedOnce
    <2> QED BY <2>2 DEF i
<1> HIDE DEF r, w
<1>5. Count(r, w) = PACKET_BUFFER_LENGTH - 1
    BY <1>3, <1>4, RingSize DEF Count
<1> QED BY <1>2, <1>5

LEMMA StoredPut ==
    ASSUME TypeOK, line' = line, next_write_index # packet_read_index, Complete \in PacketBytes,
           incoming_packet_buffer' =
                [incoming_packet_buffer EXCEPT ![packet_write_index] = Complete],
           packet_write_index' = next_write_index,
           packet_read_index' = packet_read_index
    PROVE  /\ Len(Stored) < PACKET_BUFFER_LENGTH - 1
           /\ Stored' = Append(Stored, PacketOf(Complete))
<1> DEFINE b == incoming_packet_buffer
           r == packet_read_index
           w == packet_write_index
<1>1. b \in [Indices -> PacketBytes] /\ r \in Indices /\ w \in Indices
    BY DEF TypeOK
<1>2. NamedRing(b) \in [Indices -> Records] /\ Stored = RingOf(NamedRing(b), r, w)
    BY StoredRing
<1>3. PacketOf(Complete) \in Records
    BY DEF Records
<1>4. /\ Len(Stored) < PACKET_BUFFER_LENGTH - 1
      /\ RingOf([NamedRing(b) EXCEPT ![w] = PacketOf(Complete)], r, next_write_index)
            = Append(Stored, PacketOf(Complete))
    BY <1>1, <1>2, <1>3, PutAppends DEF next_write_index
<1>5. b' \in [Indices -> PacketBytes] /\ r' \in Indices /\ w' \in Indices
    BY <1>1, ReadIndices DEF next_write_index
<1>6. Stored' = RingOf(NamedRing(b'), r', w')
    BY <1>5, StoredNext, NamedRingIs
<1>7. NamedRing(b') = [NamedRing(b) EXCEPT ![w] = PacketOf(Complete)]
    BY <1>1 DEF NamedRing
<1> QED BY <1>4, <1>6, <1>7

LEMMA StoredTaken ==
    ASSUME TypeOK, line' = line, packet_read_index # packet_write_index,
           packet_read_index' = Masked(packet_read_index + 1),
           UNCHANGED <<incoming_packet_buffer, packet_write_index>>
    PROVE  Stored # <<>> /\ Stored' = Tail(Stored)
<1> DEFINE b == incoming_packet_buffer
           r == packet_read_index
           w == packet_write_index
<1>1. b \in [Indices -> PacketBytes] /\ r \in Indices /\ w \in Indices
    BY DEF TypeOK
<1>2. NamedRing(b) \in [Indices -> Records] /\ Stored = RingOf(NamedRing(b), r, w)
    BY StoredRing
<1>3. /\ Masked(r + 1) \in Indices
      /\ Stored # <<>>
      /\ RingOf(NamedRing(b), Masked(r + 1), w) = Tail(Stored)
    BY <1>1, <1>2, GetTakesHead
<1>4. b' \in [Indices -> PacketBytes] /\ r' \in Indices /\ w' \in Indices
    BY <1>1, <1>3
<1>5. Stored' = RingOf(NamedRing(b'), r', w')
    BY <1>4, StoredNext, NamedRingIs
<1> QED BY <1>3, <1>5

-----------------------------------------------------------------------------
(* The packets on the line, as Bootloader has them.                        *)

LineRecord == [kind : STRING, length : Nat, arg : Nat, from : STRING]

LEMMA ItemRecords ==
    ASSUME LineOK, NEW k \in 1..Len(line.items)
    PROVE  line.items[k].packet \in LineRecord
<1>1. line.items \in Seq(LineItem)
    BY ItemsAre DEF LineOK
<1>2. line.items[k] \in LineItem
    BY <1>1, ElementOfSeq
<1> QED BY <1>2 DEF LineItem, LineRecord

LEMMA FirstAndRest ==
    ASSUME NEW S, NEW q \in Seq(S), Len(q) # 0
    PROVE  /\ q # <<>> /\ Head(q) = q[1]
           /\ Tail(q) = [m \in 1..Len(q) - 1 |-> q[m + 1]]
<1>1. q # <<>>
    BY EmptySeq
<1>2. Head(q) = q[1]
    BY <1>1
<1>3. Tail(q) = [m \in 1..Len(q) - 1 |-> q[m + 1]]
    <2> DEFINE r == [m \in 1..Len(q) - 1 |-> q[m + 1]]
    <2>1. /\ Tail(q) \in Seq(S) /\ Len(Tail(q)) = Len(q) - 1
          /\ \A m \in 1..Len(Tail(q)) : Tail(q)[m] = q[m + 1]
        BY <1>1, HeadTailProperties
    <2>2. Tail(q) \in [1..Len(Tail(q)) -> S]
        BY <2>1, LenProperties
    <2> QED BY <2>1, <2>2
<1> QED BY <1>1, <1>2, <1>3

LEMMA PacketsAhead ==
    ASSUME LineOK, NEW k \in 1..Len(line.items) + 1
    PROVE  /\ PacketsFrom(k) \in Seq(LineRecord)
           /\ Len(PacketsFrom(k)) = Len(line.items) + 1 - k
           /\ k <= Len(line.items) =>
                /\ PacketsFrom(k) # <<>>
                /\ Head(PacketsFrom(k)) = line.items[k].packet
                /\ Tail(PacketsFrom(k)) = PacketsFrom(k + 1)
<1> DEFINE n == Len(line.items) + 1 - k
<1>1. Len(line.items) \in Nat /\ n \in Nat
    BY ItemsAre DEF LineOK
<1>2. PacketsFrom(k) = [m \in 1..n |-> line.items[m + k - 1].packet]
    BY DEF PacketsFrom
<1>3. \A m \in 1..n : line.items[m + k - 1].packet \in LineRecord
    <2>1. \A m \in 1..n : m + k - 1 \in 1..Len(line.items)
        BY <1>1
    <2> QED BY <2>1, ItemRecords
<1> HIDE DEF n
<1>4. PacketsFrom(k) \in Seq(LineRecord) /\ Len(PacketsFrom(k)) = n
    BY <1>1, <1>2, <1>3
<1>5. ASSUME k <= Len(line.items)
      PROVE  /\ PacketsFrom(k) # <<>>
             /\ Head(PacketsFrom(k)) = line.items[k].packet
             /\ Tail(PacketsFrom(k)) = PacketsFrom(k + 1)
    <2> DEFINE last == Len(line.items)
    <2>1. n # 0 /\ n >= 1 /\ n - 1 = last + 1 - (k + 1)
        <3>1. last \in Nat /\ n = last + 1 - k /\ k \in 1..last
            BY <1>1, <1>5 DEF n
        <3> HIDE DEF last
        <3> QED BY <3>1
    <2>2. /\ PacketsFrom(k) # <<>> /\ Head(PacketsFrom(k)) = PacketsFrom(k)[1]
          /\ Tail(PacketsFrom(k)) = [m \in 1..n - 1 |-> PacketsFrom(k)[m + 1]]
        BY <1>4, <2>1, FirstAndRest
    <2>3. PacketsFrom(k)[1] = line.items[k].packet
        BY <1>1, <1>2, <2>1
    <2>5. ASSUME NEW m \in 1..n - 1
          PROVE  PacketsFrom(k)[m + 1] = line.items[m + (k + 1) - 1].packet
        <3>1. m + 1 \in 1..n
            BY <1>1
        <3>2. PacketsFrom(k)[m + 1] = line.items[(m + 1) + k - 1].packet
            BY <1>2, <3>1
        <3>3. (m + 1) + k - 1 = m + (k + 1) - 1
            BY <1>1
        <3> QED BY <3>2, <3>3
    <2>6. PacketsFrom(k + 1) = [m \in 1..n - 1 |-> line.items[m + (k + 1) - 1].packet]
        BY <2>1 DEF PacketsFrom
    <2> QED BY <2>2, <2>3, <2>5, <2>6
<1> QED BY <1>1, <1>4, <1>5 DEF n

\* What the flush leaves.
LEMMA PacketsBehind ==
    ASSUME LineOK, NEW k \in 1..Len(line.items), NEW m \in 0..Len(line.items) - k
    PROVE  /\ m \in 0..Len(PacketsFrom(k)) - 1
           /\ SubSeq(PacketsFrom(k), m + 2, Len(PacketsFrom(k))) = PacketsFrom(k + m + 1)
<1> DEFINE n == Len(line.items) - k
<1>1. Len(line.items) \in Nat /\ n \in Nat /\ n + 1 = Len(line.items) + 1 - k
    BY ItemsAre DEF LineOK
<1>2. PacketsFrom(k) \in Seq(LineRecord) /\ Len(PacketsFrom(k)) = n + 1
    BY <1>1, PacketsAhead
<1>3. PacketsFrom(k) = [j \in 1..n + 1 |-> line.items[j + k - 1].packet]
    BY <1>1 DEF PacketsFrom
<1>4. PacketsFrom(k + m + 1) = [j \in 1..n - m |-> line.items[j + (k + m + 1) - 1].packet]
    <2>1. Len(line.items) + 1 - (k + m + 1) = n - m
        BY <1>1
    <2> QED BY <2>1 DEF PacketsFrom
<1> HIDE DEF n
<1>5. SubSeq(PacketsFrom(k), m + 2, n + 1) = [j \in 1..n - m |-> PacketsFrom(k)[j + m + 1]]
    <2>1. m \in 0..n
        BY DEF n
    <2>2. (n + 1) - (m + 2) + 1 = n - m
        BY <1>1, <2>1
    <2>3. \A j \in 1..n - m : j + (m + 2) - 1 = j + m + 1
        BY <1>1, <2>1
    <2> QED BY <1>1, <1>2, <2>1, <2>2, <2>3
<1>6. \A j \in 1..n - m : PacketsFrom(k)[j + m + 1] = line.items[j + (k + m + 1) - 1].packet
    <2>1. \A j \in 1..n - m : j + m + 1 \in 1..n + 1 /\ j + m + 1 + k - 1 = j + (k + m + 1) - 1
        BY <1>1
    <2> QED BY <1>3, <2>1
<1>7. m \in 0..Len(PacketsFrom(k)) - 1
    BY <1>1, <1>2 DEF n
<1> QED BY <1>2, <1>4, <1>5, <1>6, <1>7

-----------------------------------------------------------------------------
(* The packets the device sends.                                           *)

\* One element more.
LEMMA AppendKeeps ==
    ASSUME NEW S, NEW s \in Seq(S), NEW e \in S
    PROVE  \A k \in 1..Len(s) : Append(s, e)[k] = s[k]
BY AppendProperties

LEMMA AppendEnds ==
    ASSUME NEW S, NEW s \in Seq(S), NEW e \in S
    PROVE  /\ Append(s, e) \in Seq(S) /\ Len(Append(s, e)) = Len(s) + 1
           /\ Append(s, e)[Len(s) + 1] = e
BY AppendProperties

LEMMA AppendNotEmpty ==
    ASSUME NEW S, NEW s \in Seq(S), NEW e \in S
    PROVE  Append(s, e) # <<>>
BY AppendProperties

\* A packet of one byte is recognised as such, by that byte.
LEMMA SinglePacketIs ==
    ASSUME NEW byte \in Byte
    PROVE  LET p == comms_create_single_byte_packet(byte) IN
           p # <<>> /\ comms_is_single_byte_packet(p, byte) /\ p[2] = byte
<1> DEFINE padding == [k \in 1..15 |-> 255]
           front == <<1>> \o <<byte>>
           body == front \o padding
           S == Byte \cup {crc8_compute(body)}
<1>1. <<1>> \in Seq(S) /\ <<byte>> \in Seq(S) /\ 255 \in S
    BY DEF Byte
<1>2. padding \in Seq(S) /\ Len(padding) = 15 /\ \A k \in 1..15 : padding[k] = 255
    <2> HIDE DEF S
    <2> QED BY <1>1
<1>3. front \in Seq(S) /\ Len(front) = 2 /\ front[1] = 1 /\ front[2] = byte
    <2> HIDE DEF S
    <2> QED BY <1>1
<1>4. crc8_compute(body) \in S
    OBVIOUS
<1>5. comms_create_single_byte_packet(byte) = Append(body, crc8_compute(body))
    <2>1. Len(<<byte>>) = 1 /\ 16 - 1 = 15
        OBVIOUS
    <2> QED BY <2>1 DEF comms_create_single_byte_packet, NewPacket, PACKET_DATA_LENGTH
<1> DEFINE crc == crc8_compute(body)
<1> HIDE DEF padding, front, S
<1>6. front \in Seq(S) /\ padding \in Seq(S)
    BY <1>2, <1>3
<1>7. /\ body \in Seq(S) /\ Len(body) = Len(front) + Len(padding)
      /\ \A k \in 1..Len(front) + Len(padding) :
            body[k] = IF k <= Len(front) THEN front[k] ELSE padding[k - Len(front)]
    BY <1>6, ConcatProperties
<1> HIDE DEF body, crc
<1>8. Len(body) = 17 /\ \A k \in 1..17 : body[k] = IF k <= 2 THEN front[k] ELSE padding[k - 2]
    <2>1. Len(front) = 2 /\ Len(padding) = 15
        BY <1>2, <1>3
    <2> QED BY <1>7, <2>1
<1>9. body[1] = 1 /\ body[2] = byte /\ \A k \in 3..17 : body[k] = 255
    <2>1. \A k \in 3..17 : k \in 1..17 /\ k - 2 \in 1..15 /\ ~(k <= 2)
        OBVIOUS
    <2> QED BY <1>2, <1>3, <1>8, <2>1
<1>10. body \in Seq(S) /\ crc \in S
    BY <1>4, <1>7 DEF crc
<1> DEFINE p == Append(body, crc)
<1>11. p # <<>>
    BY <1>10, AppendNotEmpty
<1>12. \A k \in 1..17 : p[k] = body[k]
    <2>1. \A k \in 1..Len(body) : p[k] = body[k]
        BY <1>10, AppendKeeps
    <2> QED BY <1>8, <2>1
<1> HIDE DEF p
<1>13. p[1] = 1 /\ p[2] = byte /\ \A k \in 3..17 : p[k] = 255
    BY <1>9, <1>12
<1>14. comms_is_single_byte_packet(p, byte)
    <2>1. PACKET_TOTAL_LENGTH - 1 = 17
        BY DEF PACKET_TOTAL_LENGTH
    <2> QED BY <1>13, <2>1 DEF comms_is_single_byte_packet
<1> QED BY <1>5, <1>11, <1>13, <1>14 DEF p, crc

\* What comms_setup prepares.
Prepared ==
    /\ retx_packet = comms_create_single_byte_packet(25)
    /\ ack_packet = comms_create_single_byte_packet(21)

LEMMA Names ==
    ASSUME Prepared
    PROVE  /\ NameOf(<<>>) = "nothing"
           /\ NameOf(retx_packet) = "RETX"
           /\ NameOf(ack_packet) = "ACK"
           /\ NameOf(sync_observed) = "SYNC_OBSERVED"
<1>1. 25 \in Byte /\ 21 \in Byte /\ 32 \in Byte
    BY DEF Byte
<1>2. /\ retx_packet # <<>> /\ retx_packet[2] = 25
      /\ ack_packet # <<>> /\ ack_packet[2] = 21
      /\ sync_observed # <<>> /\ sync_observed[2] = 32
      /\ comms_is_single_byte_packet(sync_observed, 32)
    BY <1>1, SinglePacketIs DEF Prepared, sync_observed
<1>3. ~comms_is_single_byte_packet(retx_packet, 32) /\ ~comms_is_single_byte_packet(ack_packet, 32)
    BY <1>2 DEF comms_is_single_byte_packet
<1> HIDE DEF sync_observed
<1> QED BY <1>2, <1>3 DEF NameOf

-----------------------------------------------------------------------------
(* Where the parser is, in step or not.                                    *)

\* The search has shifted in what it has read of a sync sequence.
SyncPlace ==
    bootloader_state = "SYNC" =>
        /\ running = "bootloader" /\ current_state = "LENGTH"
        /\ uart_data_available /\ line.items[item].packet.kind = "SYNC" =>
            /\ offset \in 0..3
            /\ \A k \in 1..offset : sync_seq[4 - offset + k] = SyncSequence[k]

\* When it has taken as many bytes as were read of the item they are the item's:
\* the parser may lose the boundary of packets, but only all of it.
Aligned ==
    Taken = offset => \A k \in 1..offset : current_temp_packet[k] = line.items[item].bytes[k]

PlaceInv == FramingInv /\ Prepared /\ SyncPlace /\ Aligned

LEMMA TakenGrows ==
    ASSUME TypeOK, LineOK, ReadLength \/ ReadData
    PROVE  /\ Taken \in 0..16 /\ Taken' = Taken + 1
           /\ current_temp_packet' = [current_temp_packet EXCEPT ![Taken + 1] = Arrived]
           /\ UNCHANGED <<running, ring, last_transmitted_packet>> /\ sent' = <<>>
<1>1. running = "bootloader"
    BY DEF ReadLength, ReadData, Polling
<1>2. UNCHANGED last_transmitted_packet /\ sent' = <<>>
    BY DEF ReadLength, ReadData, SendNothing
<1>3. CASE ReadLength
    <2>1. /\ current_state = "LENGTH" /\ current_state' = "DATA" /\ data_byte_count' = 0
          /\ current_temp_packet' = [current_temp_packet EXCEPT ![1] = Arrived]
          /\ UNCHANGED <<running, ring>>
        BY <1>3, LengthTypes
    <2>2. Taken = 0 /\ Taken' = 1
        BY <1>1, <2>1 DEF Taken
    <2> QED BY <1>2, <2>1, <2>2
<1>4. CASE ReadData
    <2>1. /\ current_state = "DATA" /\ data_byte_count \in 0..15
          /\ current_temp_packet' = [current_temp_packet EXCEPT ![data_byte_count + 2] = Arrived]
          /\ \/ data_byte_count = 15 /\ current_state' = "CRC"
             \/ /\ data_byte_count < 15 /\ data_byte_count' = data_byte_count + 1
                /\ current_state' = "DATA"
          /\ UNCHANGED <<running, ring>>
        BY <1>4, DataTypes
    <2>2. Taken = 1 + data_byte_count
        BY <1>1, <2>1 DEF Taken
    <2>3. Taken' = Taken + 1
        BY <1>1, <2>1, <2>2 DEF Taken, PACKET_TOTAL_LENGTH
    <2>4. Taken + 1 = data_byte_count + 2 /\ Taken \in 0..16
        BY <2>1, <2>2
    <2> QED BY <1>2, <2>1, <2>3, <2>4
<1> QED BY <1>3, <1>4

LEMMA TakenEnds ==
    ASSUME TypeOK, LineOK, comms_update, ReadCrc
    PROVE  Taken = 17 /\ Taken' = 0 /\ current_temp_packet' = Complete
<1>1. running = "bootloader" /\ current_state = "CRC" /\ current_temp_packet' = Complete
    BY CrcTypes, Reading
<1>2. Taken = 17
    BY <1>1 DEF Taken, PACKET_TOTAL_LENGTH
<1>3. current_state' = "LENGTH" \/ (running' = "fault" /\ current_state' = "CRC")
    BY <1>1 DEF comms_update, ReadLength, ReadData, Polling, Damaged, Retx, Ack, Store
<1>4. Taken' = 0
    BY <1>3 DEF Taken
<1> QED BY <1>1, <1>2, <1>4

\* What has been taken and read of an item that has only just begun.
LEMMA ReadsOn ==
    ASSUME TypeOK, LineOK, comms_update
    PROVE  /\ item \in 1..Len(line.items) /\ offset \in 0..17 /\ Taken \in 0..17
           /\ line.items[item].bytes \in Seq(Byte)
           /\ Len(line.items[item].bytes) \in 1..18
           /\ offset < Len(line.items[item].bytes)
           /\ Arrived = line.items[item].bytes[offset + 1]
           /\ \/ /\ offset + 1 = Len(line.items[item].bytes)
                 /\ item' = item + 1 /\ offset' = 0
              \/ /\ offset + 1 # Len(line.items[item].bytes)
                 /\ item' = item /\ offset' = offset + 1
           /\ line' = line /\ bootloader_state # "SYNC" /\ bootloader_state' = bootloader_state
           /\ running = "bootloader" /\ uart_data_available
<1>1. /\ uart_data_available /\ uart_read_byte /\ line' = line
      /\ running = "bootloader" /\ bootloader_state # "SYNC"
      /\ bootloader_state' = bootloader_state
    BY Reading
<1>2. /\ item \in 1..Len(line.items) /\ offset \in 0..17
      /\ offset < Len(line.items[item].bytes)
      /\ Arrived = line.items[item].bytes[offset + 1]
      /\ \/ /\ offset + 1 = Len(line.items[item].bytes)
            /\ item' = item + 1 /\ offset' = 0
         \/ /\ offset + 1 # Len(line.items[item].bytes)
            /\ item' = item /\ offset' = offset + 1
    BY <1>1, Advances
<1>3. line.items[item].bytes \in Seq(Byte) /\ Len(line.items[item].bytes) \in 1..18
    BY <1>2, ItemsAre DEF LineOK
<1>4. Taken \in 0..17
    <2>1. current_state \in {"LENGTH", "DATA", "CRC"} /\ data_byte_count \in 0..15
        BY DEF TypeOK, PACKET_DATA_LENGTH
    <2> QED BY <1>1, <2>1 DEF Taken, PACKET_TOTAL_LENGTH
<1> QED BY <1>1, <1>2, <1>3, <1>4

LEMMA AlignedStep ==
    ASSUME PlaceInv, comms_update
    PROVE  Aligned'
<1>1. TypeOK /\ LineOK
    BY DEF PlaceInv, FramingInv
<1>2. /\ item \in 1..Len(line.items) /\ offset \in 0..17
      /\ Arrived = line.items[item].bytes[offset + 1]
      /\ \/ item' = item + 1 /\ offset' = 0
         \/ item' = item /\ offset' = offset + 1
      /\ line' = line
    BY <1>1, ReadsOn
<1>3. CASE offset' = 0
    BY <1>3 DEF Aligned
<1>4. CASE item' = item /\ offset' = offset + 1 /\ (ReadLength \/ ReadData)
    <2>1. /\ Taken \in 0..16 /\ Taken' = Taken + 1
          /\ current_temp_packet' = [current_temp_packet EXCEPT ![Taken + 1] = Arrived]
        BY <1>1, <1>4, TakenGrows
    <2>2. current_temp_packet \in [1..18 -> Byte]
        BY <1>1 DEF TypeOK, PacketBytes, PACKET_TOTAL_LENGTH
    <2>3. ASSUME Taken' = offset', NEW k \in 1..offset'
          PROVE  current_temp_packet'[k] = line'.items[item'].bytes[k]
        <3>1. Taken = offset
            BY <1>2, <1>4, <2>1, <2>3
        <3>2. \A m \in 1..offset : current_temp_packet[m] = line.items[item].bytes[m]
            BY <3>1 DEF PlaceInv, Aligned
        <3>3. current_temp_packet' = [current_temp_packet EXCEPT ![offset + 1] = Arrived]
            BY <2>1, <3>1
        <3>4. CASE k \in 1..offset
            <4> DEFINE o == offset
            <4>1. k \in 1..18 /\ k # offset + 1
                <5>1. o \in 0..17 /\ k \in 1..o
                    BY <1>2, <3>4
                <5> HIDE DEF o
                <5>2. k \in 1..18 /\ k # o + 1
                    BY <5>1
                <5> QED BY <5>2 DEF o
            <4>2. current_temp_packet'[k] = current_temp_packet[k]
                BY <2>2, <3>3, <4>1
            <4>3. current_temp_packet[k] = line.items[item].bytes[k]
                BY <3>2, <3>4
            <4>4. line'.items[item'].bytes[k] = line.items[item].bytes[k]
                BY <1>2, <1>4
            <4> QED BY <4>2, <4>3, <4>4
        <3>5. CASE k = offset + 1
            <4> DEFINE o == offset
            <4>1. offset + 1 \in 1..18
                <5>1. o \in 0..17
                    BY <1>2
                <5> HIDE DEF o
                <5>2. o + 1 \in 1..18
                    BY <5>1
                <5> QED BY <5>2 DEF o
            <4>2. current_temp_packet'[offset + 1] = Arrived
                BY <2>2, <3>3, <4>1
            <4> QED BY <1>2, <1>4, <3>5, <4>2
        <3> QED BY <1>2, <1>4, <2>3, <3>4, <3>5
    <2> QED BY <2>3 DEF Aligned
<1>5. CASE offset' = offset + 1 /\ ReadCrc
    <2>1. Taken' = 0 /\ offset' # 0
        BY <1>1, <1>2, <1>5, TakenEnds
    <2> QED BY <2>1 DEF Aligned
<1> QED BY <1>2, <1>3, <1>4, <1>5 DEF comms_update, Damaged, Retx, Ack, Store

LEMMA RecordsAre ==
    ASSUME LineOK, NEW k \in 1..Len(line.items)
    PROVE  LET i == line.items[k] IN
           /\ Len(i.bytes) = Packets!WireLength(i.packet)
           /\ i.packet.kind = "SHORT" => Len(i.bytes) < 18
           /\ i.packet.kind = "SYNC" => i.bytes = SyncSequence
           /\ \A j \in 1..Len(line.items) :
                line.items[j].bytes = i.bytes => line.items[j].packet = i.packet
           /\ Len(i.bytes) = 18 => IsKind(i.bytes, i.packet.kind)
<1>1. line \in Lines
    BY DEF LineOK
<1> QED BY <1>1, RecordsAssumption, KindsAssumption DEF PACKET_TOTAL_LENGTH

\* The four bytes of the search after the next.
LEMMA ShiftedBytes ==
    ASSUME TypeOK, Arrived \in Byte
    PROVE  /\ ShiftedIn \in Seq(Byte) /\ Len(ShiftedIn) = 4 /\ ShiftedIn[4] = Arrived
           /\ \A m \in 1..3 : ShiftedIn[m] = sync_seq[m + 1]
<1> DEFINE rest == Tail(sync_seq)
<1>1. sync_seq \in Seq(Byte) /\ Len(sync_seq) = 4
    BY DEF TypeOK
<1>2. sync_seq # <<>>
    BY <1>1, EmptySeq
<1>3. rest \in Seq(Byte) /\ Len(rest) = 3 /\ \A m \in 1..Len(rest) : rest[m] = sync_seq[m + 1]
    BY <1>1, <1>2, HeadTailProperties
<1> HIDE DEF rest
<1> DEFINE found == Append(rest, Arrived)
<1>4. found \in Seq(Byte) /\ Len(found) = Len(rest) + 1 /\ found[Len(rest) + 1] = Arrived
    BY <1>3, AppendEnds
<1>5. \A m \in 1..Len(rest) : found[m] = rest[m]
    BY <1>3, AppendKeeps
<1> HIDE DEF found
<1>6. /\ found \in Seq(Byte) /\ Len(found) = 4 /\ found[4] = Arrived
      /\ \A m \in 1..3 : found[m] = sync_seq[m + 1]
    BY <1>3, <1>4, <1>5
<1> QED BY <1>6 DEF ShiftedIn, rest, found

\* The next byte of a sync sequence that is read in the SYNC state.
LEMMA SyncGrows ==
    ASSUME PlaceInv, InSync, line.items[item].packet.kind = "SYNC"
    PROVE  /\ offset \in 0..3 /\ Len(line.items[item].bytes) = 4
           /\ \A k \in 1..offset + 1 : ShiftedIn[4 - (offset + 1) + k] = SyncSequence[k]
<1>1. TypeOK /\ LineOK /\ uart_data_available /\ bootloader_state = "SYNC"
    BY DEF PlaceInv, FramingInv, InSync
<1>2. offset \in 0..3 /\ \A k \in 1..offset : sync_seq[4 - offset + k] = SyncSequence[k]
    BY <1>1 DEF PlaceInv, SyncPlace
<1>3. item \in 1..Len(line.items)
    <2>1. item \in 1..Len(line.items) + 1 /\ Len(line.items) \in Nat
        BY <1>1, ItemsAre DEF LineOK, item
    <2> QED BY <1>1, <2>1 DEF uart_data_available
<1>4. line.items[item].bytes = SyncSequence
    BY <1>1, <1>3, RecordsAre
<1>5. Len(line.items[item].bytes) = 4
    BY <1>4 DEF SyncSequence
<1>6. Arrived = SyncSequence[offset + 1] /\ Arrived \in Byte
    BY <1>2, <1>4 DEF Arrived, SyncSequence, Byte
<1>7. ShiftedIn[4] = Arrived /\ \A m \in 1..3 : ShiftedIn[m] = sync_seq[m + 1]
    BY <1>1, <1>6, ShiftedBytes
<1>8. ASSUME NEW k \in 1..offset + 1
      PROVE  ShiftedIn[4 - (offset + 1) + k] = SyncSequence[k]
    <2>1. CASE k = offset + 1
        <3>1. 4 - (offset + 1) + k = 4
            BY <1>2, <2>1
        <3> QED BY <1>6, <1>7, <2>1, <3>1
    <2>2. CASE k \in 1..offset
        <3>1. 4 - (offset + 1) + k \in 1..3 /\ 4 - (offset + 1) + k + 1 = 4 - offset + k
            BY <1>2, <2>2
        <3> QED BY <1>2, <1>7, <2>2, <3>1
    <2> QED BY <1>2, <2>1, <2>2
<1> QED BY <1>2, <1>5, <1>8

\* Read from its first byte the sequence is found by its last.
LEMMA SyncFound ==
    ASSUME PlaceInv, InSync, line.items[item].packet.kind = "SYNC", offset = 3
    PROVE  ShiftedIn = SyncSequence
<1>1. TypeOK /\ LineOK /\ uart_data_available
    BY DEF PlaceInv, FramingInv, InSync
<1>2. \A k \in 1..4 : ShiftedIn[k] = SyncSequence[k]
    <2>1. \A k \in 1..3 + 1 : ShiftedIn[4 - (3 + 1) + k] = SyncSequence[k]
        BY SyncGrows
    <2>2. \A k \in 1..4 : k \in 1..3 + 1 /\ 4 - (3 + 1) + k = k
        OBVIOUS
    <2> QED BY <2>1, <2>2
<1>3. Arrived \in Byte
    <2>1. \E m : m \in 1..Len(line.items) /\ m = item
        <3>1. item \in 1..Len(line.items) + 1 /\ Len(line.items) \in Nat
            BY <1>1, ItemsAre DEF LineOK, item
        <3> QED BY <1>1, <3>1 DEF uart_data_available
    <2>2. line.items[item].bytes = SyncSequence
        BY <1>1, <2>1, RecordsAre
    <2> QED BY <2>2 DEF Arrived, SyncSequence, Byte
<1>4. ShiftedIn \in Seq(Byte) /\ Len(ShiftedIn) = 4
    BY <1>1, <1>3, Shifting
<1>5. ShiftedIn = <<ShiftedIn[1], ShiftedIn[2], ShiftedIn[3], ShiftedIn[4]>>
    BY <1>4
<1> QED BY <1>2, <1>5 DEF SyncSequence

LEMMA SyncPlaceStep ==
    ASSUME PlaceInv, SyncMismatch
    PROVE  SyncPlace'
<1>1. TypeOK /\ LineOK /\ InSync /\ uart_data_available /\ uart_read_byte /\ line' = line
    BY DEF PlaceInv, FramingInv, SyncMismatch, InSync
<1>2. /\ item \in 1..Len(line.items) /\ offset \in 0..17
      /\ \/ item' = item + 1 /\ offset' = 0
         \/ item' = item /\ offset' = offset + 1 /\ offset + 1 # Len(line.items[item].bytes)
    BY <1>1, Advances
<1>3. running' = "bootloader" /\ current_state' = "LENGTH" /\ sync_seq' = ShiftedIn
    BY DEF SyncMismatch, InSync, parser, PlaceInv, SyncPlace
<1>4. CASE offset' = 0
    BY <1>3, <1>4 DEF SyncPlace
<1>5. CASE item' = item /\ offset' = offset + 1 /\ offset + 1 # Len(line.items[item].bytes)
    <2>1. ASSUME line.items[item].packet.kind = "SYNC"
          PROVE  /\ offset' \in 0..3
                 /\ \A k \in 1..offset' : sync_seq'[4 - offset' + k] = SyncSequence[k]
        <3>1. /\ offset \in 0..3 /\ Len(line.items[item].bytes) = 4
              /\ \A k \in 1..offset + 1 : ShiftedIn[4 - (offset + 1) + k] = SyncSequence[k]
            BY <1>1, <2>1, SyncGrows
        <3> QED BY <1>3, <1>5, <3>1
    <2> QED BY <1>1, <1>3, <1>5, <2>1 DEF SyncPlace
<1> QED BY <1>2, <1>4, <1>5

LEMMA PlaceStep ==
    ASSUME PlaceInv, [DeviceNext]_deviceVars
    PROVE  PlaceInv'
<1>1. TypeOK /\ LineOK
    BY DEF PlaceInv, FramingInv
<1>2. FramingInv'
    BY InvariantStep DEF PlaceInv
<1>3. Prepared'
    <2>1. UNCHANGED prepared
        BY DEF DeviceNext, SyncMismatch, SyncMatch, InSync, comms_update, ReadLength, ReadData,
               Damaged, Retx, Ack, Store, ReadCrc, Polling, comms_receive_packet, deviceVars
    <2> QED BY <2>1 DEF PlaceInv, Prepared, prepared
<1>4. CASE comms_update
    <2>1. bootloader_state' # "SYNC"
        BY <1>1, <1>4, Reading
    <2>2. SyncPlace'
        BY <2>1 DEF SyncPlace
    <2> QED BY <1>2, <1>3, <1>4, <2>2, AlignedStep DEF PlaceInv
<1>5. CASE SyncMismatch \/ SyncMatch
    <2>1. /\ bootloader_state = "SYNC" /\ UNCHANGED <<running, current_state>>
        BY <1>5 DEF SyncMismatch, SyncMatch, InSync, parser
    <2>2. Taken' = 0
        BY <2>1 DEF Taken, PlaceInv, SyncPlace
    <2>3. \A k \in 1..0 : FALSE
        OBVIOUS
    <2>4. Aligned'
        BY <2>2, <2>3 DEF Aligned
    <2>5. CASE SyncMismatch
        BY <1>2, <1>3, <2>4, <2>5, SyncPlaceStep DEF PlaceInv
    <2>6. CASE SyncMatch
        <3>1. SyncPlace'
            BY <2>6 DEF SyncMatch, SyncPlace
        <3> QED BY <1>2, <1>3, <2>4, <3>1 DEF PlaceInv
    <2> QED BY <1>5, <2>5, <2>6
<1>6. CASE comms_receive_packet \/ UNCHANGED deviceVars
    <2>1. UNCHANGED <<line, position, running, bootloader_state, sync_seq, current_state,
                      data_byte_count, current_temp_packet>>
        BY <1>6 DEF comms_receive_packet, deviceVars, parser
    <2>2. SyncPlace'
        BY <2>1 DEF PlaceInv, SyncPlace, uart_data_available, item, offset
    <2>3. Aligned'
        BY <2>1 DEF PlaceInv, Aligned, Taken, item, offset
    <2> QED BY <1>2, <1>3, <2>2, <2>3 DEF PlaceInv
<1> QED BY <1>4, <1>5, <1>6 DEF DeviceNext

LEMMA PlaceInitially ==
    ASSUME NEW l \in Lines, InitDevice(l)
    PROVE  PlaceInv
<1>1. FramingInv
    BY InvariantInitially
<1>2. Prepared /\ running = "bootloader" /\ current_state = "LENGTH" /\ offset = 0
    BY DEF InitDevice, Prepared, offset
<1>3. SyncPlace
    BY <1>2 DEF SyncPlace
<1>4. Aligned
    BY <1>2 DEF Aligned
<1> QED BY <1>1, <1>2, <1>3, <1>4 DEF PlaceInv

-----------------------------------------------------------------------------
(* Bytes and packets.                                                      *)

\* What Bootloader counts of the line: the items before the Ahead-th have been
\* taken, and Left bytes of them belong to a packet to come.
Ahead == IF Passed THEN item + 1 ELSE item
Left == IF ~Passed THEN (IF bootloader_state = "SYNC" THEN 0 ELSE Taken - offset)
        ELSE Taken + Len(line.items[item].bytes) - offset

\* A byte of a packet either says nothing yet or ends an item, which goes into
\* the packet to come.
LEMMA ByteTaken ==
    ASSUME PlaceInv, ReadLength \/ ReadData
    PROVE  \/ Ahead' = Ahead /\ Left' = Left
           \/ /\ Ahead = item /\ Ahead' = item + 1 /\ Left \in 0..17
              /\ Left + Len(line.items[item].bytes) < 18
              /\ Left' = Left + Len(line.items[item].bytes)
<1> DEFINE n == Len(line.items[item].bytes)
           o == offset
           t == Taken
<1>1. TypeOK /\ LineOK /\ comms_update
    BY DEF PlaceInv, FramingInv, comms_update
<1>2. /\ item \in 1..Len(line.items) /\ o \in 0..17 /\ n \in 1..18 /\ o < n
      /\ \/ o + 1 = n /\ item' = item + 1 /\ o' = 0
         \/ o + 1 # n /\ item' = item /\ o' = o + 1
      /\ line' = line /\ bootloader_state # "SYNC" /\ bootloader_state' = bootloader_state
    BY <1>1, ReadsOn
<1>3. t \in 0..16 /\ t' = t + 1
    BY <1>1, TakenGrows
<1>4. Passed <=> t < o
    BY <1>2 DEF Passed
<1>5. Passed' <=> t' < o'
    BY <1>2 DEF Passed
<1>6. /\ Ahead = IF t < o THEN item + 1 ELSE item
      /\ Left = IF t < o THEN t + n - o ELSE t - o
    BY <1>2, <1>4 DEF Ahead, Left
<1>7. /\ Ahead' = IF t' < o' THEN item' + 1 ELSE item'
      /\ Left' = IF t' < o' THEN t' + n' - o' ELSE t' - o'
    BY <1>2, <1>5 DEF Ahead, Left
<1>8. item' = item => n' = n
    BY <1>2
<1>9. item \in Nat
    BY <1>2
<1> HIDE DEF n, o, t
<1>10. o \in 0..17 /\ n \in 1..18 /\ o < n
    BY <1>2
<1>11. CASE o + 1 = n /\ item' = item + 1 /\ o' = 0
    <2>1. Ahead' = item + 1 /\ Left' = t + 1
        BY <1>3, <1>7, <1>11
    <2>2. CASE t < o
        <3>1. Ahead = item + 1 /\ Left = t + n - o
            BY <1>6, <2>2
        <3>2. t + n - o = t + 1
            BY <1>3, <1>10, <1>11
        <3> QED BY <2>1, <3>1, <3>2
    <2>3. CASE ~(t < o)
        <3>1. Ahead = item /\ Left = t - o
            BY <1>6, <2>3
        <3>2. t - o \in 0..17 /\ t - o + n = t + 1 /\ t - o + n < 18
            BY <1>3, <1>10, <1>11, <2>3
        <3>3. Left \in 0..17 /\ Left + n < 18 /\ Left' = Left + n
            BY <2>1, <3>1, <3>2
        <3> QED BY <2>1, <3>1, <3>3 DEF n
    <2> QED BY <2>2, <2>3
<1>12. CASE o + 1 # n /\ item' = item /\ o' = o + 1
    <2>1. t' < o' <=> t < o
        BY <1>3, <1>10, <1>12
    <2>2. n' = n
        BY <1>8, <1>12
    <2>3. CASE t < o
        <3>1. Left = t + n - o /\ Left' = (t + 1) + n - (o + 1)
            BY <1>3, <1>6, <1>7, <1>12, <2>1, <2>2, <2>3
        <3>2. Left' = Left
            BY <1>3, <1>10, <3>1
        <3> QED BY <1>6, <1>7, <1>12, <2>1, <2>3, <3>2
    <2>4. CASE ~(t < o)
        <3>1. Left = t - o /\ Left' = (t + 1) - (o + 1)
            BY <1>3, <1>6, <1>7, <1>12, <2>1, <2>4
        <3>2. Left' = Left
            BY <1>3, <1>10, <3>1
        <3> QED BY <1>6, <1>7, <1>12, <2>1, <2>4, <3>2
    <2> QED BY <2>3, <2>4
<1> QED BY <1>2, <1>11, <1>12

\* The last byte of a packet: without chance it is a packet of the line only if
\* it began with one.
LEMMA PacketEnds ==
    ASSUME PlaceInv, NothingByChance, comms_update, ReadCrc
    PROVE  LET i == line.items[item] IN
           /\ item \in 1..Len(line.items)
           /\ Ahead = item /\ Ahead' = item + 1 /\ Left \in 0..17
           /\ Left + Len(i.bytes) >= 18
           /\ Left' = Left + Len(i.bytes) - 18
           /\ Valid => Left = 0 /\ Len(i.bytes) = 18
           /\ Left = 0 /\ Len(i.bytes) = 18 => Complete = i.bytes
<1> DEFINE n == Len(line.items[item].bytes)
           o == offset
           t == Taken
           bytes == line.items[item].bytes
<1>1. TypeOK /\ LineOK
    BY DEF PlaceInv, FramingInv
<1>2. /\ item \in 1..Len(line.items) /\ o \in 0..17 /\ n \in 1..18 /\ o < n
      /\ Arrived = bytes[o + 1] /\ bytes \in Seq(Byte)
      /\ \/ o + 1 = n /\ item' = item + 1 /\ o' = 0
         \/ o + 1 # n /\ item' = item /\ o' = o + 1
      /\ line' = line /\ bootloader_state # "SYNC" /\ bootloader_state' = bootloader_state
      /\ running = "bootloader" /\ uart_data_available
    BY <1>1, ReadsOn
<1>3. t = 17 /\ t' = 0
    BY <1>1, TakenEnds
<1>4. (Passed <=> t < o) /\ (Passed' <=> t' < o')
    BY <1>2 DEF Passed
<1>5. /\ Ahead = IF t < o THEN item + 1 ELSE item
      /\ Left = IF t < o THEN t + n - o ELSE t - o
      /\ Ahead' = IF t' < o' THEN item' + 1 ELSE item'
      /\ Left' = IF t' < o' THEN t' + n' - o' ELSE t' - o'
    BY <1>2, <1>4 DEF Ahead, Left
<1>6. (item' = item => n' = n) /\ item \in Nat
    BY <1>2
<1>7. Valid => o = 17
    <2>1. current_state = "CRC"
        BY <1>1, CrcTypes
    <2> QED BY <1>2, <2>1 DEF NothingByChance, PACKET_TOTAL_LENGTH
<1>8. ASSUME o = 17, n = 18
      PROVE  Complete = bytes
    <2>1. \A k \in 1..17 : current_temp_packet[k] = bytes[k]
        BY <1>3, <1>8 DEF PlaceInv, Aligned
    <2>2. current_temp_packet \in [1..18 -> Byte] /\ Arrived \in Byte
        BY <1>1, Advances, Reading DEF TypeOK, PacketBytes, PACKET_TOTAL_LENGTH
    <2>3. bytes \in [1..18 -> Byte] /\ Arrived = bytes[18]
        <3>1. bytes \in [1..n -> Byte]
            BY <1>2, LenProperties
        <3>2. Arrived = bytes[17 + 1]
            BY <1>2, <1>8
        <3> QED BY <1>8, <3>1, <3>2
    <2>4. Complete = [current_temp_packet EXCEPT ![18] = Arrived]
        BY DEF Complete, PACKET_TOTAL_LENGTH
    <2> HIDE DEF bytes
    <2>5. \A k \in 1..18 : Complete[k] = bytes[k]
        <3>1. \A k \in 1..17 : Complete[k] = bytes[k]
            BY <2>1, <2>2, <2>4
        <3>2. Complete[18] = bytes[18]
            BY <2>2, <2>3, <2>4
        <3>3. \A k \in 1..18 : k \in 1..17 \/ k = 18
            OBVIOUS
        <3> QED BY <3>1, <3>2, <3>3
    <2>6. Complete \in [1..18 -> Byte]
        BY <2>2, <2>4
    <2> QED BY <2>3, <2>5, <2>6
<1> HIDE DEF n, o, t, bytes
<1>9. Ahead = item /\ Left = 17 - o /\ Left \in 0..17 /\ Left + n >= 18
    BY <1>2, <1>3, <1>5
<1>10. Ahead' = item + 1 /\ Left' = Left + n - 18
    <2>1. CASE o + 1 = n /\ item' = item + 1 /\ o' = 0
        BY <1>2, <1>3, <1>5, <1>6, <1>9, <2>1
    <2>2. CASE o + 1 # n /\ item' = item /\ o' = o + 1
        BY <1>2, <1>3, <1>5, <1>6, <1>9, <2>2
    <2> QED BY <1>2, <2>1, <2>2
<1>11. Valid => Left = 0 /\ n = 18
    BY <1>2, <1>7, <1>9
<1>12. Left = 0 /\ n = 18 => o = 17
    BY <1>2, <1>9
<1> QED BY <1>2, <1>8, <1>9, <1>10, <1>11, <1>12 DEF n, bytes

-----------------------------------------------------------------------------
(* The steps of Bootloader.                                                *)

Rx == PacketsFrom(Ahead)

LEMMA RxNext ==
    ASSUME line' = line, NEW k, Ahead' = k
    PROVE  Rx' = PacketsFrom(k)
BY DEF Rx, PacketsFrom

LEMMA RxTaken ==
    ASSUME LineOK, line' = line, item \in 1..Len(line.items), Ahead = item, Ahead' = item + 1
    PROVE  Rx # <<>> /\ Head(Rx) = line.items[item].packet /\ Rx' = Tail(Rx)
<1>1. Len(line.items) \in Nat
    BY ItemsAre DEF LineOK
<1>2. item \in 1..Len(line.items) + 1 /\ item <= Len(line.items)
    BY <1>1
<1>3. /\ PacketsFrom(item) # <<>> /\ Head(PacketsFrom(item)) = line.items[item].packet
      /\ Tail(PacketsFrom(item)) = PacketsFrom(item + 1)
    BY <1>2, PacketsAhead
<1>4. \A k : k = item + 1 => Rx' = PacketsFrom(k)
    BY RxNext
<1> QED BY <1>3, <1>4 DEF Rx

\* What PacketSteps leaves unchanged while bytes say nothing yet.
Seen == <<running, bootloader_state, Packets!line, Stored, last_transmitted_packet>>

LEMMA SeenStill ==
    ASSUME UNCHANGED <<line, running, bootloader_state, last_transmitted_packet, ring>>,
           Ahead' = Ahead, Left' = Left
    PROVE  UNCHANGED Seen
<1>1. Rx' = Rx
    <2>1. \A k : k = Ahead => Rx' = PacketsFrom(k)
        BY RxNext
    <2> QED BY <2>1 DEF Rx
<1>2. Stored' = Stored
    BY StoredStill
<1> QED BY <1>1, <1>2 DEF Seen, Packets!line, Rx, Ahead, Left

\* The name of what is sent, before and after.
LEMMA NamesNext ==
    ASSUME UNCHANGED prepared, NEW p
    PROVE  /\ sent' = p => NameOf(sent)' = NameOf(p)
           /\ last_transmitted_packet' = p => NameOf(last_transmitted_packet)' = NameOf(p)
BY DEF NameOf, prepared, comms_is_single_byte_packet

LEMMA PartStep ==
    ASSUME PlaceInv, ReadLength \/ ReadData
    PROVE  Packets!ReceivePart \/ UNCHANGED Seen
<1>1. TypeOK /\ LineOK /\ comms_update
    BY DEF PlaceInv, FramingInv, comms_update
<1>2. /\ item \in 1..Len(line.items) /\ line' = line
      /\ bootloader_state # "SYNC" /\ bootloader_state' = bootloader_state
      /\ running = "bootloader"
    BY <1>1, ReadsOn
<1>3. UNCHANGED <<running, ring, last_transmitted_packet, prepared>> /\ sent' = <<>>
    BY <1>1, TakenGrows DEF ReadLength, ReadData, Polling
<1>4. CASE Ahead' = Ahead /\ Left' = Left
    BY <1>2, <1>3, <1>4, SeenStill
<1>5. CASE /\ Ahead = item /\ Ahead' = item + 1 /\ Left \in 0..17
           /\ Left + Len(line.items[item].bytes) < 18
           /\ Left' = Left + Len(line.items[item].bytes)
    <2>1. /\ Rx # <<>> /\ Head(Rx) = line.items[item].packet /\ Rx' = Tail(Rx)
        BY <1>1, <1>2, <1>5, RxTaken
    <2>2. Packets!WireLength(line.items[item].packet) = Len(line.items[item].bytes)
        BY <1>1, <1>2, RecordsAre
    <2>3. Stored' = Stored
        BY <1>2, <1>3, StoredStill
    <2>4. NameOf(sent)' = "nothing"
          /\ NameOf(last_transmitted_packet)' = NameOf(last_transmitted_packet)
        BY <1>3, NamesNext, Names DEF PlaceInv
    <2>5. bootloader_state # "DONE"
        BY <1>1 DEF TypeOK
    <2>6. Packets!ReceivePart
        BY <1>2, <1>3, <1>5, <2>1, <2>2, <2>3, <2>4, <2>5
           DEF Packets!ReceivePart, Packets!Polling, Packets!BytesTaken, Packets!SendNothing,
               Packets!session, Packets!PACKET_LENGTH, Rx, Ahead, Left
    <2> QED BY <2>6
<1> QED BY <1>4, <1>5, ByteTaken

\* A packet that is one of the line: its kind says what is done with it.
LEMMA PacketInStep ==
    ASSUME PlaceInv, NothingByChance, comms_update, ReadCrc,
           Left = 0, Len(line.items[item].bytes) = 18
    PROVE  LET i == line.items[item] IN
           /\ i.packet.kind = "CORRUPT" <=> ~Valid
           /\ Valid => (i.packet.kind = "RETX" <=> comms_is_single_byte_packet(Complete, 25))
           /\ Valid => (i.packet.kind = "ACK" <=> comms_is_single_byte_packet(Complete, 21))
           /\ PacketOf(Complete) = i.packet
<1> DEFINE bytes == line.items[item].bytes
<1>1. TypeOK /\ LineOK
    BY DEF PlaceInv, FramingInv
<1>2. item \in 1..Len(line.items) /\ Complete = bytes
    BY PacketEnds
<1>3. /\ IsKind(bytes, line.items[item].packet.kind)
      /\ \A j \in 1..Len(line.items) :
            line.items[j].bytes = bytes => line.items[j].packet = line.items[item].packet
    BY <1>1, <1>2, RecordsAre
<1>4. Arrived = bytes[18]
    <2>1. current_temp_packet \in [1..18 -> Byte]
        BY <1>1 DEF TypeOK, PacketBytes, PACKET_TOTAL_LENGTH
    <2>2. Complete = [current_temp_packet EXCEPT ![18] = Arrived]
        BY DEF Complete, PACKET_TOTAL_LENGTH
    <2>3. Complete[18] = Arrived
        BY <2>1, <2>2
    <2> QED BY <1>2, <2>3
<1>5. Valid <=> bytes[18] = comms_calculate_crc(bytes)
    BY <1>2, <1>4 DEF Valid
<1>6. PacketOf(bytes) = line.items[item].packet
    <2>1. line.items \in Seq(LineItem) /\ DOMAIN line.items = 1..Len(line.items)
        BY <1>1, ItemsAre DEF LineOK
    <2>2. line.items[item] \in Sent
        BY <1>2, <2>1 DEF Sent
    <2>3. \A i \in Sent : i.bytes = bytes => i.packet = line.items[item].packet
        BY <1>3, <2>1 DEF Sent
    <2> QED BY <2>2, <2>3 DEF PacketOf
<1> HIDE DEF bytes
<1>7. /\ line.items[item].packet.kind = "CORRUPT" <=> ~Valid
      /\ Valid => (line.items[item].packet.kind = "RETX"
                       <=> comms_is_single_byte_packet(Complete, 25))
      /\ Valid => (line.items[item].packet.kind = "ACK"
                       <=> comms_is_single_byte_packet(Complete, 21))
    BY <1>2, <1>3, <1>5 DEF IsKind, ReadsAs, comms_is_single_byte_packet, PACKET_TOTAL_LENGTH
<1> QED BY <1>2, <1>6, <1>7

LEMMA CrcStep ==
    ASSUME PlaceInv, NothingByChance, comms_update, ReadCrc
    PROVE  Packets!comms_update
<1> DEFINE i == line.items[item]
<1>1. TypeOK /\ LineOK
    BY DEF PlaceInv, FramingInv
<1>2. /\ item \in 1..Len(line.items) /\ Ahead = item /\ Ahead' = item + 1
      /\ Left \in 0..17 /\ Left + Len(i.bytes) >= 18
      /\ Left' = Left + Len(i.bytes) - 18
      /\ Valid => Left = 0 /\ Len(i.bytes) = 18
    BY PacketEnds
<1>3. Rx # <<>> /\ Head(Rx) = i.packet /\ Rx' = Tail(Rx)
    <2>1. line' = line
        BY <1>1, ReadsOn
    <2> QED BY <1>1, <1>2, <2>1, RxTaken
<1>4. Packets!WireLength(i.packet) = Len(i.bytes)
    BY <1>1, <1>2, RecordsAre
<1>5. /\ running = "bootloader" /\ bootloader_state \notin {"SYNC", "DONE"}
      /\ bootloader_state' = bootloader_state /\ line' = line
      /\ UNCHANGED prepared
    <2>1. bootloader_state # "DONE"
        BY <1>1 DEF TypeOK
    <2>2. UNCHANGED prepared
        BY DEF ReadCrc, Polling
    <2> QED BY <1>1, <2>1, <2>2, ReadsOn
<1>6. Left = 0 /\ Len(i.bytes) = 18 =>
        /\ i.packet.kind = "CORRUPT" <=> ~Valid
        /\ Valid => (i.packet.kind = "RETX" <=> comms_is_single_byte_packet(Complete, 25))
        /\ Valid => (i.packet.kind = "ACK" <=> comms_is_single_byte_packet(Complete, 21))
        /\ PacketOf(Complete) = i.packet
    BY PacketInStep
<1>7. Packets!Polling
    BY <1>3, <1>5 DEF Packets!Polling, Packets!session, Rx, Ahead
<1>8. Packets!Framed <=> Left = 0 /\ Len(i.bytes) = 18
    BY <1>3, <1>4 DEF Packets!Framed, Packets!PACKET_LENGTH, Rx, Ahead, Left
<1>9. Packets!BytesTaken = Left + Len(i.bytes)
    BY <1>3, <1>4 DEF Packets!BytesTaken, Rx, Ahead, Left
<1>10. Valid => Left' = Left
    BY <1>2
<1>11. CASE Damaged
    <2>1. /\ ~Valid /\ UNCHANGED <<running, ring>>
          /\ sent' = retx_packet /\ last_transmitted_packet' = retx_packet
        BY <1>11 DEF Damaged, comms_send_packet
    <2>2. NameOf(sent)' = "RETX" /\ NameOf(last_transmitted_packet)' = "RETX"
        BY <1>5, <2>1, NamesNext, Names DEF PlaceInv
    <2>3. Stored' = Stored
        BY <1>5, <2>1, StoredStill
    <2>4. ~Packets!Framed \/ Head(Rx).kind = "CORRUPT"
        BY <1>3, <1>6, <1>8, <2>1
    <2>5. Packets!BytesTaken >= 18 /\ Left' = Packets!BytesTaken - 18
        BY <1>2, <1>9
    <2>6. Packets!ReceiveDamaged
        BY <1>7, <2>1, <2>2, <2>3, <2>4, <2>5
           DEF Packets!ReceiveDamaged, Packets!comms_send_packet, Packets!PACKET_LENGTH,
               Rx, Ahead, Left
    <2> QED BY <2>6 DEF Packets!comms_update
<1>12. CASE Retx
    <2>1. /\ Valid /\ comms_is_single_byte_packet(Complete, 25) /\ UNCHANGED <<running, ring>>
          /\ sent' = last_transmitted_packet
          /\ last_transmitted_packet' = last_transmitted_packet
        BY <1>12 DEF Retx, comms_send_packet
    <2>2. /\ NameOf(sent)' = NameOf(last_transmitted_packet)
          /\ NameOf(last_transmitted_packet)' = NameOf(last_transmitted_packet)
        BY <1>5, <2>1, NamesNext
    <2>3. Stored' = Stored
        BY <1>5, <2>1, StoredStill
    <2>4. Packets!Framed /\ Head(Rx).kind = "RETX"
        BY <1>2, <1>3, <1>6, <1>8, <2>1
    <2>5. Packets!ReceiveRetx
        BY <1>7, <1>10, <2>1, <2>2, <2>3, <2>4
           DEF Packets!ReceiveRetx, Packets!comms_send_packet, Rx, Ahead, Left
    <2> QED BY <2>5 DEF Packets!comms_update
<1>13. CASE Ack
    <2>1. /\ Valid /\ comms_is_single_byte_packet(Complete, 21) /\ UNCHANGED <<running, ring>>
          /\ sent' = <<>> /\ last_transmitted_packet' = last_transmitted_packet
        BY <1>13 DEF Ack, SendNothing
    <2>2. /\ NameOf(sent)' = "nothing"
          /\ NameOf(last_transmitted_packet)' = NameOf(last_transmitted_packet)
        BY <1>5, <2>1, NamesNext, Names DEF PlaceInv
    <2>3. Stored' = Stored
        BY <1>5, <2>1, StoredStill
    <2>4. Packets!Framed /\ Head(Rx).kind = "ACK"
        BY <1>2, <1>3, <1>6, <1>8, <2>1
    <2>5. Packets!ReceiveAck
        BY <1>7, <1>10, <2>1, <2>2, <2>3, <2>4
           DEF Packets!ReceiveAck, Packets!SendNothing, Rx, Ahead, Left
    <2> QED BY <2>5 DEF Packets!comms_update
<1>14. CASE Store
    <2>1. /\ Valid
          /\ ~comms_is_single_byte_packet(Complete, 25)
          /\ ~comms_is_single_byte_packet(Complete, 21)
        BY <1>14 DEF Store
    <2>2. Packets!Framed /\ Head(Rx).kind \notin {"CORRUPT", "RETX", "ACK"}
        BY <1>2, <1>3, <1>6, <1>8, <2>1
    <2>3. PacketOf(Complete) = Head(Rx)
        BY <1>2, <1>3, <1>6, <2>1
    <2>4. CASE next_write_index = packet_read_index
        <3>1. /\ running' = "fault" /\ sent' = <<>>
              /\ last_transmitted_packet' = last_transmitted_packet /\ UNCHANGED ring
            BY <1>14, <2>4 DEF Store, SendNothing
        <3>2. /\ NameOf(sent)' = "nothing"
              /\ NameOf(last_transmitted_packet)' = NameOf(last_transmitted_packet)
            BY <1>5, <3>1, NamesNext, Names DEF PlaceInv
        <3>3. Stored' = Stored /\ Len(Stored) = PACKET_BUFFER_LENGTH - 1
            BY <1>1, <1>5, <2>4, <3>1, StoredStill, StoredFull
        <3>4. Packets!ReceivePacket
            BY <1>7, <1>10, <2>1, <2>2, <3>1, <3>2, <3>3
               DEF Packets!ReceivePacket, Packets!BufferFull, Packets!SendNothing,
                   Rx, Ahead, Left
        <3> QED BY <3>4 DEF Packets!comms_update
    <2>5. CASE next_write_index # packet_read_index
        <3>1. /\ incoming_packet_buffer' =
                    [incoming_packet_buffer EXCEPT ![packet_write_index] = Complete]
              /\ packet_write_index' = next_write_index
              /\ packet_read_index' = packet_read_index
              /\ running' = running
              /\ sent' = ack_packet /\ last_transmitted_packet' = ack_packet
            BY <1>14, <2>5 DEF Store, comms_send_packet
        <3>2. NameOf(sent)' = "ACK" /\ NameOf(last_transmitted_packet)' = "ACK"
            BY <1>5, <3>1, NamesNext, Names DEF PlaceInv
        <3>3. Complete \in PacketBytes
            BY <1>1, CrcTypes
        <3>4. Len(Stored) < PACKET_BUFFER_LENGTH - 1 /\ Stored' = Append(Stored, Head(Rx))
            BY <1>1, <1>5, <2>3, <2>5, <3>1, <3>3, StoredPut
        <3>5. Len(Stored) # PACKET_BUFFER_LENGTH - 1
            BY <3>4, RingSize
        <3>6. Packets!ReceivePacket
            BY <1>7, <1>10, <2>1, <2>2, <3>1, <3>2, <3>4, <3>5
               DEF Packets!ReceivePacket, Packets!BufferFull, Packets!comms_send_packet,
                   Rx, Ahead, Left
        <3> QED BY <3>6 DEF Packets!comms_update
    <2> QED BY <2>4, <2>5
<1>15. ~(ReadLength \/ ReadData)
    BY DEF ReadCrc, ReadLength, ReadData, Polling
<1> QED BY <1>11, <1>12, <1>13, <1>14, <1>15 DEF comms_update

\* A sync sequence is never passed over, and nothing else is taken for one.
LEMMA MismatchStep ==
    ASSUME PlaceInv, SyncMismatch
    PROVE  Packets!SyncMismatch \/ UNCHANGED Seen
<1>1. TypeOK /\ LineOK /\ InSync
    BY DEF PlaceInv, FramingInv, SyncMismatch
<1>2. /\ uart_data_available /\ uart_read_byte /\ line' = line
      /\ bootloader_state = "SYNC" /\ bootloader_state' = "SYNC" /\ running = "bootloader"
      /\ UNCHANGED <<running, ring, prepared, last_transmitted_packet>> /\ sent' = <<>>
    BY <1>1 DEF InSync, SyncMismatch, SendNothing
<1>3. /\ item \in 1..Len(line.items)
      /\ \/ offset + 1 = Len(line.items[item].bytes) /\ item' = item + 1
         \/ item' = item
    BY <1>1, <1>2, Advances
<1>4. Ahead = item /\ Ahead' = item' /\ Left = 0 /\ Left' = 0
    BY <1>2 DEF Ahead, Left, Passed
<1>5. CASE item' = item
    BY <1>2, <1>4, <1>5, SeenStill
<1>6. CASE offset + 1 = Len(line.items[item].bytes) /\ item' = item + 1
    <2>1. line.items[item].packet.kind # "SYNC"
        <3>1. SUFFICES ASSUME line.items[item].packet.kind = "SYNC"
                       PROVE  FALSE
            OBVIOUS
        <3>2. offset \in 0..3 /\ Len(line.items[item].bytes) = 4
            BY <1>1, <3>1, SyncGrows
        <3>3. offset = 3
            BY <1>6, <3>2
        <3> QED BY <1>1, <3>1, <3>3, SyncFound DEF SyncMismatch
    <2>2. Rx # <<>> /\ Head(Rx) = line.items[item].packet /\ Rx' = Tail(Rx)
        BY <1>1, <1>2, <1>3, <1>4, <1>6, RxTaken
    <2>3. Stored' = Stored
        BY <1>2, StoredStill
    <2>4. /\ NameOf(sent)' = "nothing"
          /\ NameOf(last_transmitted_packet)' = NameOf(last_transmitted_packet)
        BY <1>2, NamesNext, Names DEF PlaceInv
    <2>5. Packets!SyncMismatch
        BY <1>2, <1>4, <2>1, <2>2, <2>3, <2>4
           DEF Packets!SyncMismatch, Packets!InState, Packets!simple_timer_has_elapsed,
               Packets!SendNothing, Rx, Ahead, Left
    <2> QED BY <2>5
<1> QED BY <1>3, <1>5, <1>6

\* The flush drops whole packets of those that follow, and may end inside one.
LEMMA MatchStep ==
    ASSUME PlaceInv, NothingByChance, SyncMatch
    PROVE  Packets!SyncMatch
<1> DEFINE last == Len(line.items)
           j == item'
           q == offset'
<1>1. TypeOK /\ LineOK /\ InSync
    BY DEF PlaceInv, FramingInv, SyncMatch
<1>2. /\ uart_data_available /\ line' = line
      /\ bootloader_state = "SYNC" /\ bootloader_state' = "WAIT_FOR_FW_UPDATE_REQ"
      /\ running = "bootloader" /\ current_state = "LENGTH"
      /\ UNCHANGED <<running, current_state, ring, prepared>>
      /\ sent' = sync_observed /\ last_transmitted_packet' = sync_observed
      /\ position' \in Flushed
    BY <1>1 DEF InSync, SyncMatch, comms_send_packet, parser, PlaceInv, SyncPlace
<1>3. item \in 1..last /\ last \in Nat
    <2>1. item \in 1..last + 1 /\ last \in Nat
        BY <1>1, ItemsAre DEF LineOK, item
    <2> QED BY <1>2, <2>1 DEF uart_data_available
<1>4. line.items[item].packet.kind = "SYNC" /\ offset = 3 /\ Len(line.items[item].bytes) = 4
    <2>1. line.items[item].packet.kind = "SYNC" /\ offset = 3
        BY <1>2 DEF NothingByChance, SyncMatch
    <2> QED BY <1>1, <2>1, SyncGrows
<1>5. After(item, offset + 1) = <<item + 1, 0>>
    BY <1>4 DEF After
<1>6. \/ /\ j \in item + 1..last /\ q \in 0..17 /\ q < Len(line.items[j].bytes)
      \/ j = last + 1 /\ q = 0
    <2>1. CASE position' = <<last + 1, 0>>
        BY <2>1 DEF item, offset
    <2>2. CASE /\ position' \in (item..last) \X (0..17)
               /\ position'[2] < Len(line.items[position'[1]].bytes)
               /\ position'[1] > item + 1 \/ (position'[1] = item + 1 /\ position'[2] >= 0)
        <3>1. j \in item..last /\ q \in 0..17 /\ q < Len(line.items[j].bytes)
            BY <2>2 DEF item, offset
        <3>2. j > item + 1 \/ j = item + 1
            BY <2>2 DEF item
        <3>3. j \in item + 1..last
            BY <1>3, <3>1, <3>2
        <3> QED BY <3>1, <3>3
    <2> QED BY <1>2, <1>5, <2>1, <2>2 DEF Flushed, PACKET_TOTAL_LENGTH
<1>7. Ahead = item /\ Left = 0 /\ Rx = PacketsFrom(item)
    BY <1>2 DEF Ahead, Left, Passed, Rx
<1>8. Taken' = 0
    BY <1>2 DEF Taken
<1>9. /\ Ahead' = IF 0 < q THEN j + 1 ELSE j
      /\ Left' = IF 0 < q THEN 0 + Len(line.items[j].bytes) - q ELSE 0 - q
    <2>1. Passed' <=> 0 < q
        BY <1>2, <1>8 DEF Passed
    <2> QED BY <1>2, <1>8, <2>1 DEF Ahead, Left
<1>10. \E k \in 0..last - item :
            /\ Ahead' = item + k + 1
            /\ Left' \in IF k = 0 THEN {0} ELSE 0..17
    <2> DEFINE n == Len(line.items[j].bytes)
    <2>1. j \in item + 1..last /\ 0 < q => n \in 1..18
        <3>1. j \in item + 1..last => j \in 1..last
            BY <1>3
        <3> QED BY <1>1, <3>1, ItemsAre DEF LineOK
    <2>2. Left' = IF 0 < q THEN 0 + n - q ELSE 0 - q
        BY <1>9
    <2> HIDE DEF n, last, j, q
    <2>3. CASE j \in item + 1..last /\ 0 < q /\ q \in 0..17 /\ q < n
        <3>1. Left' \in 0..17
            BY <2>1, <2>2, <2>3
        <3>2. j - item \in 1..last - item /\ Ahead' = item + (j - item) + 1
            BY <1>3, <1>9, <2>3
        <3> QED BY <1>3, <3>1, <3>2
    <2>4. CASE j \in item + 1..last + 1 /\ q = 0
        <3>1. Left' = 0
            BY <2>2, <2>4
        <3>2. j - item - 1 \in 0..last - item /\ Ahead' = item + (j - item - 1) + 1
            BY <1>3, <1>9, <2>4
        <3> QED BY <3>1, <3>2
    <2>5. \/ j \in item + 1..last /\ 0 < q /\ q \in 0..17 /\ q < n
          \/ j \in item + 1..last + 1 /\ q = 0
        <3>1. \/ j \in item + 1..last /\ q \in 0..17 /\ q < n
              \/ j = last + 1 /\ q = 0
            BY <1>6 DEF n, last, j, q
        <3>2. item \in Nat /\ last \in Nat /\ item <= last
            BY <1>3 DEF last
        <3>3. CASE j \in item + 1..last /\ q \in 0..17 /\ q < n
            BY <3>2, <3>3
        <3>4. CASE j = last + 1 /\ q = 0
            BY <3>2, <3>4
        <3> QED BY <3>1, <3>3, <3>4
    <2> QED BY <2>3, <2>4, <2>5
<1>11. PICK k \in 0..last - item :
            /\ Ahead' = item + k + 1
            /\ Left' \in IF k = 0 THEN {0} ELSE 0..17
    BY <1>10
<1>12. k \in 0..Len(Rx) - 1 /\ Rx' = SubSeq(Rx, k + 2, Len(Rx))
    <2>1. /\ k \in 0..Len(Rx) - 1
          /\ SubSeq(Rx, k + 2, Len(Rx)) = PacketsFrom(item + k + 1)
        BY <1>1, <1>3, <1>7, PacketsBehind
    <2>2. Rx' = PacketsFrom(item + k + 1)
        BY <1>2, <1>11, RxNext
    <2> QED BY <2>1, <2>2
<1>13. Rx # <<>> /\ Head(Rx) = line.items[item].packet
    <2>1. item \in 1..last + 1 /\ item <= last
        BY <1>3
    <2> QED BY <1>1, <1>7, <2>1, PacketsAhead
<1>14. Stored' = Stored
    BY <1>2, StoredStill
<1>15. NameOf(sent)' = "SYNC_OBSERVED" /\ NameOf(last_transmitted_packet)' = "SYNC_OBSERVED"
    BY <1>2, NamesNext, Names DEF PlaceInv
<1>16. \E m \in 0..Len(Rx) - 1 :
            /\ Rx' = SubSeq(Rx, m + 2, Len(Rx))
            /\ Left' \in IF m = 0 THEN {0} ELSE 0..18 - 1
    BY <1>11, <1>12
<1> QED BY <1>2, <1>4, <1>13, <1>14, <1>15, <1>16
       DEF Packets!SyncMatch, Packets!InState, Packets!GoTo, Packets!simple_timer_reset,
           Packets!comms_send_packet, Packets!PACKET_LENGTH, Rx, Ahead, Left

\* A packet is taken out of the ring.
LEMMA ReceiveStep ==
    ASSUME PlaceInv, comms_receive_packet
    PROVE  /\ Packets!comms_packet_available /\ Packets!comms_receive_packet
           /\ UNCHANGED <<running, bootloader_state, Packets!line>>
           /\ NameOf(last_transmitted_packet)' = NameOf(last_transmitted_packet)
<1>1. TypeOK
    BY DEF PlaceInv, FramingInv
<1>2. /\ packet_read_index # packet_write_index
      /\ packet_read_index' = Masked(packet_read_index + 1)
      /\ UNCHANGED <<incoming_packet_buffer, packet_write_index>>
      /\ UNCHANGED <<line, position, running, bootloader_state, current_state, data_byte_count,
                     prepared, last_transmitted_packet>>
    BY DEF comms_receive_packet, comms_packet_available, parser, SendNothing
<1>3. Stored # <<>> /\ Stored' = Tail(Stored)
    BY <1>1, <1>2, StoredTaken
<1>4. Ahead' = Ahead /\ Left' = Left
    BY <1>2 DEF Ahead, Left, Passed, Taken, item, offset
<1>5. Rx' = Rx
    <2>1. \A k : k = Ahead => Rx' = PacketsFrom(k)
        BY <1>2, <1>4, RxNext
    <2> QED BY <2>1 DEF Rx
<1>6. NameOf(last_transmitted_packet)' = NameOf(last_transmitted_packet)
    BY <1>2, NamesNext
<1> QED BY <1>2, <1>3, <1>4, <1>5, <1>6
       DEF Packets!comms_packet_available, Packets!comms_receive_packet, Packets!line,
           Rx, Ahead, Left

\* Every step of a byte is a step of packets, or none.
LEMMA PacketStep ==
    ASSUME PlaceInv, NothingByChance, [DeviceNext]_deviceVars
    PROVE  [\/ Packets!SyncMatch \/ Packets!SyncMismatch \/ Packets!comms_update
            \/ /\ Packets!comms_packet_available /\ Packets!comms_receive_packet
               /\ UNCHANGED <<running, bootloader_state, Packets!line, last_transmitted_packet>>]_Seen
<1>1. CASE SyncMismatch
    BY <1>1, MismatchStep
<1>2. CASE SyncMatch
    BY <1>2, MatchStep
<1>3. CASE ReadLength \/ ReadData
    BY <1>3, PartStep DEF Packets!comms_update
<1>4. CASE comms_update /\ ReadCrc
    BY <1>4, CrcStep
<1>5. CASE comms_receive_packet
    <2>1. last_transmitted_packet' = last_transmitted_packet
        BY <1>5 DEF comms_receive_packet, SendNothing
    <2>2. UNCHANGED <<running, bootloader_state, Packets!line, last_transmitted_packet>>
        BY <1>5, <2>1, ReceiveStep
    <2> QED BY <1>5, <2>2, ReceiveStep
<1>6. CASE UNCHANGED deviceVars
    <2>1. /\ UNCHANGED <<line, position, running, bootloader_state, last_transmitted_packet, ring,
                         current_state, data_byte_count>>
        BY <1>6 DEF deviceVars, parser
    <2>2. Ahead' = Ahead /\ Left' = Left
        BY <2>1 DEF Ahead, Left, Passed, Taken, item, offset
    <2> QED BY <2>1, <2>2, SeenStill
<1> QED BY <1>1, <1>2, <1>3, <1>4, <1>5, <1>6
       DEF DeviceNext, comms_update, Damaged, Retx, Ack, Store

\* What is stored is an item of the line, whole and undamaged.
LEMMA InventedStep ==
    ASSUME PlaceInv, NothingByChance, NothingInvented, [DeviceNext]_deviceVars
    PROVE  NothingInvented'
<1>1. TypeOK /\ LineOK
    BY DEF PlaceInv, FramingInv
<1>2. CASE UNCHANGED <<line, received>>
    BY <1>2 DEF NothingInvented, Sent
<1>3. CASE Store /\ received' # received
    <2> DEFINE i == line.items[item]
    <2>1. comms_update /\ ReadCrc /\ Valid /\ line' = line
        BY <1>3 DEF Store, comms_update, ReadCrc, Polling
    <2>2. received' = Append(received, Complete)
        BY <1>3 DEF Store, ring
    <2>3. item \in 1..Len(line.items) /\ Left = 0 /\ Len(i.bytes) = 18 /\ Complete = i.bytes
        BY <2>1, PacketEnds
    <2>4. i \in Sent
        <3>1. DOMAIN line.items = 1..Len(line.items)
            BY <1>1, ItemsAre DEF LineOK
        <3> QED BY <2>3, <3>1 DEF Sent
    <2>5. i.packet.kind \notin {"CORRUPT", "SHORT", "SYNC", "BAD_SYNC"}
        <3>1. i.packet.kind # "CORRUPT"
            BY <2>1, <2>3, PacketInStep
        <3>2. Packets!WireLength(i.packet) = 18 /\ i.packet.kind # "SHORT"
            <4>1. /\ Len(i.bytes) = Packets!WireLength(i.packet)
                  /\ i.packet.kind = "SHORT" => Len(i.bytes) < 18
                BY <1>1, <2>3, RecordsAre
            <4>2. ~(18 < 18)
                OBVIOUS
            <4>3. i.packet.kind # "SHORT"
                BY <2>3, <4>1, <4>2
            <4>4. Packets!WireLength(i.packet) = 18
                BY <2>3, <4>1
            <4> QED BY <4>3, <4>4
        <3>3. i.packet.kind \notin {"SYNC", "BAD_SYNC"}
            BY <3>2 DEF Packets!WireLength, Packets!SYNC_LENGTH
        <3> QED BY <3>1, <3>2, <3>3
    <2>6. received \in Seq(PacketBytes) /\ Complete \in PacketBytes
        BY <1>1, <2>1, CrcTypes DEF TypeOK
    <2>7. /\ Len(received') = Len(received) + 1
          /\ received'[Len(received) + 1] = Complete
        BY <2>2, <2>6, AppendEnds
    <2>8. \A k \in 1..Len(received) : received'[k] = received[k]
        BY <2>2, <2>6, AppendKeeps
    <2>9. Len(received) \in Nat
        BY <2>6, LenProperties
    <2>10. ASSUME NEW k \in 1..Len(received')
           PROVE  \E s \in Sent : /\ s.bytes = received'[k]
                                  /\ s.packet.kind \notin {"CORRUPT", "SHORT", "SYNC", "BAD_SYNC"}
        <3>1. k \in 1..Len(received) \/ k = Len(received) + 1
            BY <2>7, <2>9
        <3>2. CASE k \in 1..Len(received)
            BY <2>8, <3>2 DEF NothingInvented
        <3>3. CASE k = Len(received) + 1
            BY <2>3, <2>4, <2>5, <2>7, <3>3
        <3> QED BY <3>1, <3>2, <3>3
    <2>11. Sent' = Sent
        BY <2>1 DEF Sent
    <2> QED BY <2>10, <2>11 DEF NothingInvented
<1> QED BY <1>2, <1>3
       DEF DeviceNext, SyncMismatch, SyncMatch, InSync, comms_update, ReadLength, ReadData,
           Damaged, Retx, Ack, Store, ReadCrc, Polling, comms_receive_packet, deviceVars, ring

-----------------------------------------------------------------------------
(* The theorems about the packets the bytes make up.                       *)

\* Wherever the parser is, it knows where the boundaries of the packets are or
\* is behind all of the item it reads; and the search for the sync sequence has
\* shifted in as much of one as has been read (comms.c:94-205,
\* bootloader.c:301-334).
THEOREM PlaceInvariance == DeviceSpec => []PlaceInv
<1>1. (\E l \in Lines : InitDevice(l)) => PlaceInv
    BY PlaceInitially
<1>2. PlaceInv /\ [DeviceNext]_deviceVars => PlaceInv'
    BY PlaceStep
<1> QED BY <1>1, <1>2, PTL DEF DeviceSpec

\* The byte-wise receiver does what Bootloader says of whole packets, for every
\* line, whatever packets, pieces of packets and sync sequences it is made of,
\* as long as bytes that are no packet do not pass for one by chance
\* (comms.c:94-205).
THEOREM StepsOfPackets == DeviceSpec /\ []NothingByChance => PacketSteps
<1>1. PlaceInv /\ NothingByChance /\ [DeviceNext]_deviceVars
        => [\/ Packets!SyncMatch \/ Packets!SyncMismatch \/ Packets!comms_update
            \/ /\ Packets!comms_packet_available /\ Packets!comms_receive_packet
               /\ UNCHANGED <<running, bootloader_state, Packets!line, last_transmitted_packet>>]_
                <<running, bootloader_state, Packets!line, Stored, last_transmitted_packet>>
    BY PacketStep DEF Seen
<1> QED BY <1>1, PlaceInvariance, PTL DEF DeviceSpec, PacketSteps

\* Under the same condition nothing gets into the packet buffer that was not
\* sent, whole and undamaged (comms.c:141-180).
THEOREM NoneInvented == DeviceSpec /\ []NothingByChance => []NothingInvented
<1>1. (\E l \in Lines : InitDevice(l)) => NothingInvented
    <2>1. SUFFICES ASSUME NEW l \in Lines, InitDevice(l)
                   PROVE  NothingInvented
        OBVIOUS
    <2>2. received = <<>>
        BY <2>1 DEF InitDevice
    <2>3. Len(received) = 0
        BY <2>2
    <2> QED BY <2>3 DEF NothingInvented
<1>2. PlaceInv /\ NothingByChance /\ NothingInvented /\ [DeviceNext]_deviceVars => NothingInvented'
    BY InventedStep
<1> QED BY <1>1, <1>2, PlaceInvariance, PTL DEF DeviceSpec

\* A line of whole packets, damaged or not, on which the device does not search.
WholePackets ==
    /\ line.state # "SYNC"
    /\ \A k \in 1..Len(line.items) : Len(line.items[k].bytes) = PACKET_TOTAL_LENGTH

LEMMA NoChance ==
    ASSUME FramingInv, WholePackets
    PROVE  NothingByChance
<1>1. TypeOK /\ LineOK
    BY DEF FramingInv
<1>2. SUFFICES ASSUME running = "bootloader", uart_data_available
               PROVE  NothingByChance
    BY DEF NothingByChance
<1>3. \A k \in 1..item - 1 : k \in 1..Len(line.items)
    <2>1. item \in 1..Len(line.items) + 1 /\ Len(line.items) \in Nat
        BY <1>1, ItemsAre DEF LineOK, item
    <2> QED BY <2>1
<1>4. InStep
    BY <1>2, <1>3 DEF InStep, WholePackets
<1>5. Place /\ bootloader_state # "SYNC"
    BY <1>4 DEF FramingInv, InStep, WholePackets
<1>6. current_state = "CRC" => offset = 17
    <2>1. offset \in Nat /\ offset < Len(line.items[item].bytes)
        BY <1>1, <1>2 DEF TypeOK, offset
    <2>2. item \in 1..Len(line.items)
        <3>1. item \in 1..Len(line.items) + 1 /\ Len(line.items) \in Nat
            BY <1>1, ItemsAre DEF LineOK, item
        <3> QED BY <1>2, <3>1 DEF uart_data_available
    <2>3. offset < 18
        BY <2>1, <2>2 DEF WholePackets, PACKET_TOTAL_LENGTH
    <2>4. current_state = "CRC" => offset >= 17
        BY <1>5, <2>1 DEF Place
    <2> QED BY <2>1, <2>3, <2>4
<1> QED BY <1>5, <1>6 DEF NothingByChance, PACKET_TOTAL_LENGTH

\* Of whole packets nothing passes for another by chance, whatever the bytes are:
\* the parser of comms_update never loses a boundary.
THEOREM NoneByChance ==
    DeviceSpec /\ WholePackets => []NothingByChance
<1>1. WholePackets /\ [DeviceNext]_deviceVars => WholePackets'
    <2>1. [DeviceNext]_deviceVars => line' = line
        BY DEF DeviceNext, SyncMismatch, SyncMatch, InSync, comms_update, ReadLength, ReadData,
               Damaged, Retx, Ack, Store, ReadCrc, Polling, comms_receive_packet, deviceVars
    <2> QED BY <2>1 DEF WholePackets
<1>2. FramingInv /\ WholePackets => NothingByChance
    BY NoChance
<1> QED BY <1>1, <1>2, Invariance, PTL DEF DeviceSpec

\* So of whole packets no more need be said: comms_update does with them what
\* Bootloader says, and stores no other.
THEOREM StepsInStep ==
    DeviceSpec /\ WholePackets => PacketSteps /\ []NothingInvented
BY NoneByChance, StepsOfPackets, NoneInvented, PTL
=============================================================================
