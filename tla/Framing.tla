------------------------------ MODULE Framing ------------------------------
(***************************************************************************)
(* The device's receiver a byte at a time: the search for the sync         *)
(* sequence, the state machine of comms_update with the CRC of each        *)
(* packet, and the ring of packets; at the size packets have on the wire.  *)
(* Bootloader takes whole packets; this module shows that what it says of  *)
(* them is what becomes of the bytes.                                      *)
(*                                                                         *)
(* The line is a sequence of items: packets, sync sequences, and what      *)
(* faults make of them.  Its bytes are read in order, one by one: when     *)
(* they arrive matters for the flush only, which drops any number of them. *)
(*                                                                         *)
(* Definitions named Mutant... are deliberate mistakes no specification    *)
(* uses.                                                                   *)
(***************************************************************************)
EXTENDS Crc, FiniteSets

CONSTANTS
    PACKET_BUFFER_LENGTH,
    Lines       \* [state, items]: the device's state when the line begins and
                \* the items; an item has its bytes and, as packet, the record
                \* Bootloader has for it

PACKET_DATA_LENGTH == 16
PACKET_TOTAL_LENGTH == 18

LineItem == [bytes : Seq(Byte),
             packet : [kind : STRING, length : Nat, arg : Nat, from : STRING]]

ASSUME LinesAssumption ==
    \A l \in Lines :
        /\ l \in [state : {"SYNC", "WAIT_FOR_FW_UPDATE_REQ"}, items : Seq(LineItem)]
        /\ \A k \in 1..Len(l.items) : Len(l.items[k].bytes) \in 1..PACKET_TOTAL_LENGTH
ASSUME BufferAssumption == PACKET_BUFFER_LENGTH \in {2, 4, 8, 16}

VARIABLES
    line,
    position,               \* <<item, how many of its bytes have been read>>
    running, bootloader_state, sync_seq,
    current_state, data_byte_count, current_temp_packet,
    incoming_packet_buffer, packet_read_index, packet_write_index,
    retx_packet, ack_packet, last_transmitted_packet,
    sent,                   \* the packet this step writes, or <<>>
    received                \* all that has been put into the packet buffer

item == position[1]
offset == position[2]
uart_data_available == item <= Len(line.items)
parser == <<current_state, data_byte_count, current_temp_packet>>
ring == <<incoming_packet_buffer, packet_read_index, packet_write_index, received>>
prepared == <<retx_packet, ack_packet>>
deviceVars == <<line, position, running, bootloader_state, sync_seq, parser, ring,
                prepared, last_transmitted_packet, sent>>

-----------------------------------------------------------------------------
(* Packets: <<length, data..., crc>>.                                      *)

comms_calculate_crc(p) == crc8_compute(SubSeq(p, 1, PACKET_TOTAL_LENGTH - 1))

\* The kind of an item of a packet's size is what its bytes say; bursts that the
\* CRC does not notice are left out.
ReadsAs(p, byte) ==
    /\ p[PACKET_TOTAL_LENGTH] = comms_calculate_crc(p)
    /\ p[1] = 1 /\ p[2] = byte /\ \A k \in 3..PACKET_TOTAL_LENGTH - 1 : p[k] = 255
IsKind(p, kind) ==
    /\ kind = "CORRUPT" <=> p[PACKET_TOTAL_LENGTH] # comms_calculate_crc(p)
    /\ kind = "RETX" <=> ReadsAs(p, 25)
    /\ kind = "ACK" <=> ReadsAs(p, 21)
ASSUME KindsAssumption ==
    \A l \in Lines : \A k \in 1..Len(l.items) :
        Len(l.items[k].bytes) = PACKET_TOTAL_LENGTH
            => IsKind(l.items[k].bytes, l.items[k].packet.kind)

\* data, padded with 0xFF by whoever sends it.
NewPacket(length, data) ==
    LET body == <<length>> \o data
                    \o [k \in 1..PACKET_DATA_LENGTH - Len(data) |-> 255]
    IN  Append(body, crc8_compute(body))
comms_create_single_byte_packet(byte) == NewPacket(1, <<byte>>)

sync_observed == comms_create_single_byte_packet(32)

\* The padding is not looked at.
MutantSingle(p, byte) == p[1] = 1 /\ p[2] = byte
comms_is_single_byte_packet(p, byte) ==
    /\ p[1] = 1 /\ p[2] = byte
    /\ \A k \in 3..PACKET_TOTAL_LENGTH - 1 : p[k] = 255

SyncSequence == <<196, 85, 126, 16>>

-----------------------------------------------------------------------------
Indices == 0..PACKET_BUFFER_LENGTH - 1
PacketBytes == [1..PACKET_TOTAL_LENGTH -> Byte]

TypeOK ==
    /\ position \in Nat \X Nat
    /\ uart_data_available => offset < Len(line.items[item].bytes)
    /\ running \in {"bootloader", "fault"}
    /\ bootloader_state \in {"SYNC", "WAIT_FOR_FW_UPDATE_REQ"}
    /\ sync_seq \in Seq(Byte) /\ Len(sync_seq) = 4
    /\ current_state \in {"LENGTH", "DATA", "CRC"}
    /\ data_byte_count \in 0..PACKET_DATA_LENGTH - 1
    /\ current_state # "DATA" => data_byte_count = 0
    /\ current_temp_packet \in PacketBytes
    /\ incoming_packet_buffer \in [Indices -> PacketBytes]
    /\ packet_read_index \in Indices /\ packet_write_index \in Indices
    /\ received \in Seq(PacketBytes)

\* comms_setup has run.
InitDevice(l) ==
    /\ line = l /\ position = <<1, 0>>
    /\ retx_packet = comms_create_single_byte_packet(25)
    /\ ack_packet = comms_create_single_byte_packet(21)
    /\ running = "bootloader"
    /\ bootloader_state = line.state
    /\ sync_seq = <<0, 0, 0, 0>>
    /\ current_state = "LENGTH" /\ data_byte_count = 0
    /\ current_temp_packet = [k \in 1..PACKET_TOTAL_LENGTH |-> 0]
    /\ incoming_packet_buffer = [k \in Indices |-> current_temp_packet]
    /\ packet_read_index = 0 /\ packet_write_index = 0
    /\ last_transmitted_packet =
        IF line.state = "SYNC" THEN [k \in 1..PACKET_TOTAL_LENGTH |-> 0]
        ELSE sync_observed
    /\ sent = <<>> /\ received = <<>>

\* uart_read_byte returns Arrived and moves on.
Arrived == line.items[item].bytes[offset + 1]
After(k, n) == IF n = Len(line.items[k].bytes) THEN <<k + 1, 0>> ELSE <<k, n>>
uart_read_byte == position' = After(item, offset + 1)

comms_send_packet(p) == sent' = p /\ last_transmitted_packet' = p
SendNothing == sent' = <<>> /\ UNCHANGED last_transmitted_packet

-----------------------------------------------------------------------------
(* The SYNC state.                                                         *)

\* The bytes are matched one after the other, and a byte that does not fit
\* starts the search anew with the byte that follows it.
MutantShiftedIn ==
    LET n == IF sync_seq[4] = 0 THEN 1 ELSE sync_seq[4] + 1 IN
    IF Arrived # SyncSequence[n] THEN <<0, 0, 0, 0>>
    ELSE IF n = 4 THEN SyncSequence ELSE <<0, 0, 0, n>>
ShiftedIn == Append(Tail(sync_seq), Arrived)

InSync ==
    /\ running = "bootloader" /\ bootloader_state = "SYNC"
    /\ uart_data_available
    /\ UNCHANGED <<line, running, parser, ring, prepared>>

SyncMismatch ==
    /\ InSync
    /\ ShiftedIn # SyncSequence
    /\ sync_seq' = ShiftedIn
    /\ uart_read_byte
    /\ SendNothing
    /\ UNCHANGED bootloader_state

\* Whatever has arrived behind the sequence is thrown away.
Flushed ==
    LET next == After(item, offset + 1) IN
    {p \in (item..Len(line.items)) \X (0..PACKET_TOTAL_LENGTH - 1) :
        /\ p[2] < Len(line.items[p[1]].bytes)
        /\ p[1] > next[1] \/ (p[1] = next[1] /\ p[2] >= next[2])}
    \cup {<<Len(line.items) + 1, 0>>}

SyncMatch ==
    /\ InSync
    /\ ShiftedIn = SyncSequence
    /\ sync_seq' = ShiftedIn
    /\ position' \in Flushed
    /\ comms_send_packet(sync_observed)
    /\ bootloader_state' = "WAIT_FOR_FW_UPDATE_REQ"

-----------------------------------------------------------------------------
(* comms_update.                                                           *)

Polling(state) ==
    /\ running = "bootloader" /\ bootloader_state # "SYNC"
    /\ current_state = state
    /\ uart_data_available /\ uart_read_byte
    /\ UNCHANGED <<line, bootloader_state, sync_seq, prepared>>

ReadLength ==
    /\ Polling("LENGTH")
    /\ current_temp_packet' = [current_temp_packet EXCEPT ![1] = Arrived]
    /\ current_state' = "DATA"
    /\ SendNothing
    /\ UNCHANGED <<running, data_byte_count, ring>>

\* data_byte_count is not reset.
MutantNextCount(count) == count
NextCount(count) == IF count >= PACKET_DATA_LENGTH THEN 0 ELSE count

ReadData ==
    /\ Polling("DATA")
    /\ current_temp_packet' = [current_temp_packet EXCEPT ![data_byte_count + 2] = Arrived]
    /\ data_byte_count' = NextCount(data_byte_count + 1)
    /\ current_state' = IF data_byte_count + 1 >= PACKET_DATA_LENGTH THEN "CRC" ELSE "DATA"
    /\ SendNothing
    /\ UNCHANGED <<running, ring>>

Complete == [current_temp_packet EXCEPT ![PACKET_TOTAL_LENGTH] = Arrived]
\* The CRC byte is not compared.
MutantValid == TRUE
Valid == comms_calculate_crc(Complete) = Arrived

ReadCrc ==
    /\ Polling("CRC")
    /\ current_temp_packet' = Complete
    /\ UNCHANGED data_byte_count

Damaged ==
    /\ ReadCrc /\ ~Valid
    /\ comms_send_packet(retx_packet)
    /\ current_state' = "LENGTH"
    /\ UNCHANGED <<running, ring>>

Retx ==
    /\ ReadCrc /\ Valid
    /\ comms_is_single_byte_packet(Complete, 25)
    /\ comms_send_packet(last_transmitted_packet)
    /\ current_state' = "LENGTH"
    /\ UNCHANGED <<running, ring>>

Ack ==
    /\ ReadCrc /\ Valid
    /\ comms_is_single_byte_packet(Complete, 21)
    /\ SendNothing
    /\ current_state' = "LENGTH"
    /\ UNCHANGED <<running, ring>>

Masked(i) == i % PACKET_BUFFER_LENGTH
next_write_index == Masked(packet_write_index + 1)

\* A packet of the protocol, or a chunk of firmware.  BKPT when the ring is full.
Store ==
    /\ ReadCrc /\ Valid
    /\ ~comms_is_single_byte_packet(Complete, 25)
    /\ ~comms_is_single_byte_packet(Complete, 21)
    /\ \/ /\ next_write_index = packet_read_index
          /\ running' = "fault" /\ SendNothing
          /\ UNCHANGED <<current_state, ring>>
       \/ /\ next_write_index # packet_read_index
          /\ incoming_packet_buffer' =
                [incoming_packet_buffer EXCEPT ![packet_write_index] = Complete]
          /\ packet_write_index' = next_write_index
          /\ received' = Append(received, Complete)
          /\ comms_send_packet(ack_packet)
          /\ current_state' = "LENGTH"
          /\ UNCHANGED <<running, packet_read_index>>

comms_update == ReadLength \/ ReadData \/ Damaged \/ Retx \/ Ack \/ Store

comms_packet_available == packet_read_index # packet_write_index

\* Called from the switch of the main loop.
comms_receive_packet ==
    /\ running = "bootloader" /\ bootloader_state # "SYNC"
    /\ comms_packet_available
    /\ packet_read_index' = Masked(packet_read_index + 1)
    /\ SendNothing
    /\ UNCHANGED <<line, position, running, bootloader_state, sync_seq, parser,
                   prepared, incoming_packet_buffer, packet_write_index, received>>

DeviceNext == SyncMismatch \/ SyncMatch \/ comms_update \/ comms_receive_packet

DeviceSpec == (\E l \in Lines : InitDevice(l)) /\ [][DeviceNext]_deviceVars

-----------------------------------------------------------------------------
(* Properties.                                                             *)

\* Bytes comms_update has taken of the packet to come; the packet a full buffer
\* had no room for has been taken.
Taken ==
    CASE current_state = "LENGTH" \/ running = "fault" -> 0
      [] current_state = "DATA" -> 1 + data_byte_count
      [] OTHER -> PACKET_TOTAL_LENGTH - 1

\* An item of which fewer bytes have been taken than read has had a packet end
\* in it, or the flush: Bootloader counts the rest of it as taken already.
Passed == bootloader_state # "SYNC" /\ Taken < offset
PacketsFrom(k) == [n \in 1..Len(line.items) + 1 - k |-> line.items[n + k - 1].packet]

Sent == {line.items[k] : k \in DOMAIN line.items}
PacketOf(bytes) ==
    IF \E i \in Sent : i.bytes = bytes THEN (CHOOSE i \in Sent : i.bytes = bytes).packet
    ELSE [kind |-> "INVENTED", length |-> 0, arg |-> 0, from |-> "control"]
Stored ==
    [k \in 1..Masked(packet_write_index + PACKET_BUFFER_LENGTH - packet_read_index) |->
        PacketOf(incoming_packet_buffer[Masked(packet_read_index + k - 1)])]

NameOf(bytes) ==
    CASE bytes = <<>> -> "nothing"
      [] bytes = retx_packet -> "RETX"
      [] bytes = ack_packet -> "ACK"
      [] bytes # <<>> /\ comms_is_single_byte_packet(bytes, 32) -> "SYNC_OBSERVED"
      [] OTHER -> "nothing"

Packets == INSTANCE Bootloader WITH
    BLOCK <- PACKET_DATA_LENGTH, INFO <- 16, MAX_FW_LENGTH <- 48, AREA <- 64,
    SectorStart <- [s \in 2..8 |-> IF s = 8 THEN 64 ELSE 0],
    DEFAULT_TIMEOUT <- 1, RX_CAPACITY <- 1,
    Images <- {}, Signed <- {}, ForDevice <- {}, ImageLength <- <<>>,
    HostPackets <- {}, TornErasures <- {},
    firmware_length <- 0, bytes_written <- 0, age <- 0, flash <- <<>>,
    incoming_packet_buffer <- Stored,
    last_transmitted_packet <- NameOf(last_transmitted_packet),
    sent <- NameOf(sent),
    rx <- PacketsFrom(IF Passed THEN item + 1 ELSE item),
    partial <- IF ~Passed THEN (IF bootloader_state = "SYNC" THEN 0 ELSE Taken - offset)
               ELSE Taken + Len(line.items[item].bytes) - offset

\* The record of an item has its length, a sync sequence is one, and the same
\* bytes have the same record.
ASSUME RecordsAssumption ==
    \A l \in Lines : \A k \in 1..Len(l.items) :
        LET i == l.items[k] IN
        /\ Len(i.bytes) = Packets!WireLength(i.packet)
        /\ i.packet.kind = "SHORT" => Len(i.bytes) < PACKET_TOTAL_LENGTH
        /\ i.packet.kind = "SYNC" => i.bytes = SyncSequence
        /\ \A j \in 1..Len(l.items) : l.items[j].bytes = i.bytes => l.items[j].packet = i.packet

\* Bytes of two items, or of the inside of one, pass neither for a packet nor
\* for the sync sequence.
NothingByChance ==
    running = "bootloader" /\ uart_data_available =>
        /\ bootloader_state # "SYNC" /\ current_state = "CRC" /\ Valid
            => offset = PACKET_TOTAL_LENGTH - 1
        /\ bootloader_state = "SYNC" /\ ShiftedIn = SyncSequence
            => offset = 3 /\ line.items[item].packet.kind = "SYNC"

\* The bytes do what Bootloader says of packets, after each of them and
\* whatever burst of up to seven bits, lost byte or late sync sequence puts
\* the two ends out of step: an item that is not a whole packet in step is
\* answered with RETX or is the beginning of something that will be.
PacketSteps ==
    [][\/ Packets!SyncMatch \/ Packets!SyncMismatch \/ Packets!comms_update
       \/ /\ Packets!comms_packet_available /\ Packets!comms_receive_packet
          /\ UNCHANGED <<running, bootloader_state, Packets!line, last_transmitted_packet>>]_
            <<running, bootloader_state, Packets!line, Stored, last_transmitted_packet>>

\* Nothing is stored that was not sent, undamaged, by the host: no piece of a
\* packet, no two pieces of neighbours, no packet a burst has hit.
NothingInvented ==
    \A k \in 1..Len(received) : \E i \in Sent :
        i.bytes = received[k] /\ i.packet.kind \notin {"CORRUPT", "SHORT", "SYNC", "BAD_SYNC"}

\* While the two are in step every undamaged packet is stored, once and in
\* order; but not a chunk of two bytes that reads as ACK or RETX, of which
\* nothing tells it (comms.c:144-158).
Storable(i) == i.packet.kind \notin {"CORRUPT", "ACK", "RETX"}
InStep ==
    /\ line.state # "SYNC" /\ running = "bootloader"
    /\ \A k \in 1..item - 1 : Len(line.items[k].bytes) = PACKET_TOTAL_LENGTH
StorableUpTo(j) == {k \in 1..j : Storable(line.items[k])}
StoredInOrder ==
    InStep =>
        /\ Len(received) = Cardinality(StorableUpTo(item - 1))
        /\ \A k \in StorableUpTo(item - 1) :
            received[Cardinality(StorableUpTo(k))] = line.items[k].bytes
=============================================================================
