----------------------------- MODULE Bootloader -----------------------------
(***************************************************************************)
(* The bootloader of the STM32F446: its main loop, the packet layer it     *)
(* polls, the flash it erases and programs, and the check that decides     *)
(* whether the application is started.  Everything outside the device is   *)
(* an open environment: any packet of HostPackets may arrive at any time,  *)
(* bytes may be lost or damaged, time passes, and power may fail anywhere, *)
(* in the middle of a flash operation too.                                 *)
(*                                                                         *)
(* Abstractions.  One cell of flash stands for one byte of the application *)
(* area, except that each 32-bit field of firmware_info_t is one cell.  A  *)
(* cell is named by the image and the offset its content comes from, so    *)
(* AES-CBC-MAC is an ideal MAC: it matches for the signed image only (what *)
(* the loop over the blocks computes is the subject of ImageMac).  rx      *)
(* holds whole packets on their way, on the wire or in the UART's ring; a  *)
(* lost byte leaves a packet that is too short, and what follows is framed *)
(* wrongly until the next reset.  Bytes that belong to no one packet never *)
(* pass for one (their CRC would have to match by accident).               *)
(*                                                                         *)
(* Definitions named Mutant... are deliberate mistakes: no specification   *)
(* uses them, they show that the properties notice.                        *)
(***************************************************************************)
EXTENDS Integers, Sequences

CONSTANTS
    BLOCK,                 \* PACKET_DATA_LENGTH = AES_BLOCK_SIZE = 16
    INFO,                  \* FWINFO_ADDRESS - MAIN_APP_START_ADDRESS
    MAX_FW_LENGTH,
    AREA,                  \* cells of flash sectors 2..7, the area erased
    SectorStart,           \* sector number -> its first cell in that area
    DEFAULT_TIMEOUT,       \* DEFAULT_TIMEOUT_MS, in model ticks
    PACKET_BUFFER_LENGTH,
    RX_CAPACITY,           \* bound on the packets on their way to the device
    Images,                \* firmware images as a programmer or host has them
    Signed,                \* those the fw-signer has signed, length filled in
    ForDevice,             \* those whose device_id field is DEVICE_ID
    ImageLength,           \* image -> its length in cells
    HostPackets,           \* the packets the environment may send
    TornErasures           \* cells an interrupted sector erase may have reached

DEVICE_ID == 66
PACKET_LENGTH == 18        \* bytes on the wire
SYNC_LENGTH == 4

Kinds == {"SYNC", "BAD_SYNC", "SHORT", "ACK", "RETX", "CORRUPT", "FW_UPDATE_REQ",
          "DEVICE_ID_RES", "FW_LENGTH_RES", "DATA"}

\* A packet of the host.  length is the packet's length byte, arg the id or
\* the firmware length it carries; a DATA packet carries the cells of image
\* "from" that start at offset arg.  "SYNC" is the raw four byte sequence,
\* "BAD_SYNC" what damage makes of it, and "CORRUPT" any packet whose CRC does
\* not match.
Packet == [kind : Kinds, length : 0..255, arg : Nat, from : Images \cup {"control"}]

\* What is left of a packet that has lost bytes.
Truncated(n) == [kind |-> "SHORT", length |-> n, arg |-> 0, from |-> "control"]
OnTheWire == HostPackets \cup {Truncated(n) : n \in 1..PACKET_LENGTH - 1}

WireLength(p) ==
    CASE p.kind \in {"SYNC", "BAD_SYNC"} -> SYNC_LENGTH
      [] p.kind = "SHORT" -> p.length
      [] OTHER -> PACKET_LENGTH

ASSUME BlockAssumption == BLOCK \in Nat \ {0}
ASSUME LayoutAssumption ==
    /\ INFO \in Nat /\ MAX_FW_LENGTH \in Nat /\ AREA \in Nat
    /\ MAX_FW_LENGTH + BLOCK <= AREA
    /\ INFO + 2 * BLOCK <= AREA /\ 4 <= BLOCK
    /\ SectorStart \in [2..8 -> 0..AREA]
    /\ SectorStart[2] = 0 /\ SectorStart[8] = AREA
ASSUME LimitsAssumption ==
    /\ DEFAULT_TIMEOUT \in Nat \ {0}
    /\ PACKET_BUFFER_LENGTH \in Nat \ {0, 1}
    /\ RX_CAPACITY \in Nat \ {0}
ASSUME ImagesAssumption ==
    /\ Signed \subseteq Images /\ ForDevice \subseteq Images
    /\ ImageLength \in [Images -> (INFO + 2 * BLOCK + 1)..AREA]
    /\ {"erased", "noise", "control", "none"} \cap Images = {}
ASSUME EnvironmentAssumption ==
    /\ HostPackets \subseteq Packet
    /\ \A p \in HostPackets : p.kind # "SHORT"
    /\ TornErasures \subseteq SUBSET (0..AREA - 1)

VARIABLES
    running,                \* who has the CPU: "bootloader", "app", or "fault"
    bootloader_state,
    firmware_length,
    bytes_written,
    age,                    \* ticks since simple_timer_reset(&timer), capped
    incoming_packet_buffer,
    last_transmitted_packet,
    sent,                   \* the packet this step puts on the wire, or "nothing"
    rx,                     \* packets on their way to comms_update
    partial,                \* bytes comms_update has taken of a packet to come:
                            \* its current_state and data_byte_count
    flash

session == <<bootloader_state, firmware_length, bytes_written, age>>
comms == <<incoming_packet_buffer, last_transmitted_packet, sent>>
line == <<rx, partial>>
vars == <<running, session, comms, line, flash>>

States == {"SYNC", "WAIT_FOR_FW_UPDATE_REQ", "DEVICE_ID_REQ", "DEVICE_ID_RES",
           "FW_LENGTH_REQ", "FW_LENGTH_RES", "ERASE_APPLICATION",
           "RECEIVE_FW", "DONE"}

DevicePackets == {"SYNC_OBSERVED", "FW_UPDATE_RES", "DEVICE_ID_REQ",
                  "FW_LENGTH_REQ", "READY_FOR_DATA", "UPDATE_SUCCESSFUL",
                  "NACK", "ACK", "RETX"}

-----------------------------------------------------------------------------
(* Flash and the check of the image in it.                                 *)

Erased == <<"erased", 0>>
Noise == <<"noise", 0>>         \* bytes that belong to no image
Cells == (Images \X Nat) \cup {Erased, Noise}

\* The three fields of firmware_info_t the check reads.
SentinelCell == INFO
DeviceCell == INFO + 1
LengthCell == INFO + 3

HeaderOK(f) ==
    /\ \E i \in Images : f[SentinelCell] = <<i, SentinelCell>>
    /\ \E i \in ForDevice : f[DeviceCell] = <<i, DeviceCell>>

\* The MAC the loop computes is the signature of image i.  An image whose
\* length is a multiple of the block never gets there (see ImageMac).
Verifies(f, i) ==
    /\ i \in Signed \cap ForDevice
    /\ ImageLength[i] % BLOCK # 0
    /\ \A a \in 0..ImageLength[i] - 1 : f[a] = <<i, a>>

Bootable(f) == \E i \in Images : Verifies(f, i)

\* The length field of an unsigned image, like that of erased flash, reads
\* 0xFFFFFFFF: the loop runs off the end of flash and the bus faults.
LengthUnset(f) ==
    \/ f[LengthCell] = Erased
    \/ \E i \in Images \ Signed : f[LengthCell] = <<i, LengthCell>>
LengthSet(f) == \E i \in Signed : f[LengthCell] = <<i, LengthCell>>

\* The MAC is never compared.
Mutant_validate_header_only(f) ==
    IF HeaderOK(f) /\ LengthSet(f) THEN {"valid"} ELSE {"invalid"}

\* What validate_fw_image may do: return true or false, or never return.  A
\* length field of bytes from elsewhere can be any number.
validate_fw_image(f) ==
    IF ~HeaderOK(f) THEN {"invalid"}
    ELSE IF Bootable(f) THEN {"valid"}
    ELSE IF LengthSet(f) THEN {"invalid"}
    ELSE IF LengthUnset(f) THEN {"overrun"}
    ELSE {"invalid", "overrun"}

\* A programmer has written the whole of image i, the rest is erased.
FlashOf(i) == [a \in 0..AREA - 1 |-> IF a < ImageLength[i] THEN <<i, a>> ELSE Erased]
ErasedFlash == [a \in 0..AREA - 1 |-> Erased]

\* bl_flash_write programs the first n bytes of packet p, from address start
\* upwards.  Programming can only clear bits: a byte that is not erased keeps
\* its value when the new one is the same and is spoilt otherwise.
Mutant_Data_any_source(p, k) == <<p.from, p.arg + k>>
Data(p, k) == IF p.from \in Images THEN <<p.from, p.arg + k>> ELSE Noise
Programmed(old, new) == IF old \in {Erased, new} THEN new ELSE Noise
Written(f, start, p, n) ==
    [a \in 0..AREA - 1 |->
        IF a \in start..start + n - 1 THEN Programmed(f[a], Data(p, a - start))
        ELSE f[a]]

-----------------------------------------------------------------------------
TypeOK ==
    /\ running \in {"bootloader", "app", "fault"}
    /\ bootloader_state \in States
    /\ firmware_length \in Nat
    /\ bytes_written \in Nat
    /\ age \in 0..DEFAULT_TIMEOUT
    /\ incoming_packet_buffer \in Seq(HostPackets)
    /\ last_transmitted_packet \in DevicePackets \cup {"nothing"}
    /\ sent \in DevicePackets \cup {"nothing"}
    /\ rx \in Seq(OnTheWire)
    /\ partial \in 0..PACKET_LENGTH - 1
    /\ flash \in [0..AREA - 1 -> Cells]

Init ==
    /\ running = "bootloader"
    /\ bootloader_state = "SYNC"
    /\ firmware_length = 0
    /\ bytes_written = 0
    /\ age = 0
    /\ incoming_packet_buffer = <<>>
    /\ last_transmitted_packet = "nothing"
    /\ sent = "nothing"
    /\ rx = <<>>
    /\ partial = 0
    /\ flash \in {FlashOf(i) : i \in Images} \cup {ErasedFlash}

-----------------------------------------------------------------------------
(* Helpers of the packet layer and the main loop.                          *)

comms_send_packet(p) == sent' = p /\ last_transmitted_packet' = p
SendNothing == sent' = "nothing" /\ UNCHANGED last_transmitted_packet

comms_packet_available == incoming_packet_buffer # <<>>
comms_receive_packet == incoming_packet_buffer' = Tail(incoming_packet_buffer)
temp_packet == Head(incoming_packet_buffer)

simple_timer_reset == age' = 0
simple_timer_has_elapsed == age = DEFAULT_TIMEOUT

bootloading_failed ==
    /\ comms_send_packet("NACK")
    /\ bootloader_state' = "DONE"

InState(s) == running = "bootloader" /\ bootloader_state = s
GoTo(s) == bootloader_state' = s

-----------------------------------------------------------------------------
(* The SYNC state reads raw bytes.                                         *)

\* On a match everything that has arrived is discarded.  What is still on
\* the wire is not, and when the flush ends inside a packet comms_update
\* starts out of step with the packets that follow.
SyncMatch ==
    /\ InState("SYNC") /\ rx # <<>> /\ Head(rx).kind = "SYNC"
    /\ \E k \in 0..Len(rx) - 1 :
        /\ rx' = SubSeq(rx, k + 2, Len(rx))
        /\ partial' \in IF k = 0 THEN {0} ELSE 0..PACKET_LENGTH - 1
    /\ comms_send_packet("SYNC_OBSERVED")
    /\ GoTo("WAIT_FOR_FW_UPDATE_REQ")
    /\ simple_timer_reset
    /\ UNCHANGED <<running, firmware_length, bytes_written,
                   incoming_packet_buffer, flash>>

\* Bytes that are no sync sequence are shifted through sync_seq; the timeout
\* is checked after each.
SyncMismatch ==
    /\ InState("SYNC") /\ rx # <<>> /\ Head(rx).kind # "SYNC"
    /\ rx' = Tail(rx)
    /\ \/ simple_timer_has_elapsed /\ bootloading_failed
       \/ ~simple_timer_has_elapsed /\ SendNothing /\ UNCHANGED bootloader_state
    /\ UNCHANGED <<running, firmware_length, bytes_written, age, partial,
                   incoming_packet_buffer, flash>>

-----------------------------------------------------------------------------
(* comms_update, a packet at a time.                                       *)

Polling ==
    /\ running = "bootloader" /\ bootloader_state \notin {"SYNC", "DONE"}
    /\ rx # <<>> /\ rx' = Tail(rx)
    /\ UNCHANGED <<session, flash>>

\* A whole packet, framed as it was sent.
Framed == partial = 0 /\ WireLength(Head(rx)) = PACKET_LENGTH
BytesTaken == partial + WireLength(Head(rx))

\* A late sync sequence or a truncated packet: the start of a packet.
ReceivePart ==
    /\ Polling /\ BytesTaken < PACKET_LENGTH
    /\ partial' = BytesTaken
    /\ SendNothing
    /\ UNCHANGED <<running, incoming_packet_buffer>>

\* A packet's length of bytes whose CRC does not match.
ReceiveDamaged ==
    /\ Polling /\ BytesTaken >= PACKET_LENGTH
    /\ ~Framed \/ Head(rx).kind = "CORRUPT"
    /\ partial' = BytesTaken - PACKET_LENGTH
    /\ comms_send_packet("RETX")
    /\ UNCHANGED <<running, incoming_packet_buffer>>

\* The packet sent last is sent again, be it an ACK or a RETX.
ReceiveRetx ==
    /\ Polling /\ Framed /\ Head(rx).kind = "RETX"
    /\ comms_send_packet(last_transmitted_packet)
    /\ UNCHANGED <<running, partial, incoming_packet_buffer>>

ReceiveAck ==
    /\ Polling /\ Framed /\ Head(rx).kind = "ACK"
    /\ SendNothing
    /\ UNCHANGED <<running, partial, incoming_packet_buffer>>

BufferFull == Len(incoming_packet_buffer) = PACKET_BUFFER_LENGTH - 1

\* With the ring full the BKPT instruction faults: no debugger is attached.
ReceivePacket ==
    /\ Polling /\ Framed
    /\ Head(rx).kind \notin {"CORRUPT", "RETX", "ACK"}
    /\ \/ /\ BufferFull
          /\ running' = "fault" /\ SendNothing
          /\ UNCHANGED incoming_packet_buffer
       \/ /\ ~BufferFull
          /\ incoming_packet_buffer' = Append(incoming_packet_buffer, Head(rx))
          /\ comms_send_packet("ACK")
          /\ UNCHANGED running
    /\ UNCHANGED partial

comms_update ==
    ReceivePart \/ ReceiveDamaged \/ ReceiveRetx \/ ReceiveAck \/ ReceivePacket

-----------------------------------------------------------------------------
(* The switch of the main loop, one action per state.                      *)

\* A state whose timeout was forgotten.
MutantTimeout(forgotten) ==
    /\ running = "bootloader" /\ bootloader_state # forgotten
    /\ bootloader_state \in {"SYNC", "WAIT_FOR_FW_UPDATE_REQ", "DEVICE_ID_RES",
                             "FW_LENGTH_RES", "RECEIVE_FW"}
    /\ ~comms_packet_available
    /\ simple_timer_has_elapsed
    /\ bootloading_failed
    /\ UNCHANGED <<running, firmware_length, bytes_written, age,
                   incoming_packet_buffer, line, flash>>
MutantTimeoutNotReceiving == MutantTimeout("RECEIVE_FW")
MutantTimeoutNotInSync == MutantTimeout("SYNC")

\* check_for_timeout runs in every state that finds no packet (no byte, in
\* SYNC).
Timeout ==
    /\ running = "bootloader"
    /\ bootloader_state \in {"SYNC", "WAIT_FOR_FW_UPDATE_REQ", "DEVICE_ID_RES",
                             "FW_LENGTH_RES", "RECEIVE_FW"}
    /\ ~comms_packet_available
    /\ simple_timer_has_elapsed
    /\ bootloading_failed
    /\ UNCHANGED <<running, firmware_length, bytes_written, age,
                   incoming_packet_buffer, line, flash>>

\* A state that waits for one packet: the packet it wants moves it on, any
\* other ends the session.
Await(s, wanted, Accept) ==
    /\ InState(s) /\ comms_packet_available
    /\ comms_receive_packet
    /\ \/ wanted /\ Accept
       \/ ~wanted /\ bootloading_failed /\ UNCHANGED <<firmware_length, age>>
    /\ UNCHANGED <<running, bytes_written, line, flash>>

WaitForFwUpdateReq ==
    Await("WAIT_FOR_FW_UPDATE_REQ", temp_packet.kind = "FW_UPDATE_REQ",
          /\ comms_send_packet("FW_UPDATE_RES")
          /\ GoTo("DEVICE_ID_REQ") /\ simple_timer_reset
          /\ UNCHANGED firmware_length)

DeviceIdReq ==
    /\ InState("DEVICE_ID_REQ")
    /\ comms_send_packet("DEVICE_ID_REQ")
    /\ GoTo("DEVICE_ID_RES") /\ simple_timer_reset
    /\ UNCHANGED <<running, firmware_length, bytes_written,
                   incoming_packet_buffer, line, flash>>

DeviceIdRes ==
    Await("DEVICE_ID_RES",
          temp_packet.kind = "DEVICE_ID_RES" /\ temp_packet.arg = DEVICE_ID,
          /\ SendNothing
          /\ GoTo("FW_LENGTH_REQ") /\ simple_timer_reset
          /\ UNCHANGED firmware_length)

FwLengthReq ==
    /\ InState("FW_LENGTH_REQ")
    /\ comms_send_packet("FW_LENGTH_REQ")
    /\ GoTo("FW_LENGTH_RES") /\ simple_timer_reset
    /\ UNCHANGED <<running, firmware_length, bytes_written,
                   incoming_packet_buffer, line, flash>>

MutantLengthUnchecked(n) == n >= 0
LengthAccepted(n) == n <= MAX_FW_LENGTH

\* The flash is not erased before the first chunk.
MutantFwLengthResNoErase ==
    Await("FW_LENGTH_RES", temp_packet.kind = "FW_LENGTH_RES",
          /\ firmware_length' = temp_packet.arg
          /\ comms_send_packet("READY_FOR_DATA")
          /\ GoTo("RECEIVE_FW") /\ simple_timer_reset)

FwLengthRes ==
    Await("FW_LENGTH_RES", temp_packet.kind = "FW_LENGTH_RES",
          /\ firmware_length' = temp_packet.arg
          /\ \/ /\ LengthAccepted(temp_packet.arg)
                /\ SendNothing /\ GoTo("ERASE_APPLICATION") /\ simple_timer_reset
             \/ /\ ~LengthAccepted(temp_packet.arg)
                /\ bootloading_failed /\ UNCHANGED age)

\* bl_flash_erase_main_application erases sectors first..7.
Erase(f, first) == [a \in 0..AREA - 1 |-> IF a < SectorStart[first] THEN f[a] ELSE Erased]
MutantEraseFromSector3(f) == Erase(f, 3)
bl_flash_erase_main_application(f) == Erase(f, 2)

\* The time the erase took counts against the host's first chunk.
MutantEraseNoTimerReset ==
    /\ InState("ERASE_APPLICATION")
    /\ flash' = bl_flash_erase_main_application(flash)
    /\ comms_send_packet("READY_FOR_DATA")
    /\ GoTo("RECEIVE_FW")
    /\ UNCHANGED <<running, firmware_length, bytes_written, age,
                   incoming_packet_buffer, line>>
EraseApplication ==
    /\ InState("ERASE_APPLICATION")
    /\ flash' = bl_flash_erase_main_application(flash)
    /\ simple_timer_reset
    /\ comms_send_packet("READY_FOR_DATA")
    /\ GoTo("RECEIVE_FW")
    /\ UNCHANGED <<running, firmware_length, bytes_written,
                   incoming_packet_buffer, line>>

AcceptedLength(p) == p.length > 0 /\ p.length <= BLOCK
ChunkSize(p) == (p.length % BLOCK) + 1

\* The last chunk is followed by the check, whose result is all the host is
\* told; every other chunk by a request for the next.
ReceiveFw ==
    /\ InState("RECEIVE_FW") /\ comms_packet_available
    /\ comms_receive_packet
    /\ LET n == ChunkSize(temp_packet) IN
       \/ /\ AcceptedLength(temp_packet)
          /\ flash' = Written(flash, bytes_written, temp_packet, n)
          /\ bytes_written' = bytes_written + n
          /\ simple_timer_reset
          /\ \/ /\ bytes_written + n < firmware_length
                /\ comms_send_packet("READY_FOR_DATA")
                /\ UNCHANGED <<running, bootloader_state>>
             \/ /\ bytes_written + n >= firmware_length
                /\ \E result \in validate_fw_image(flash') :
                    \/ /\ result = "valid"
                       /\ comms_send_packet("UPDATE_SUCCESSFUL")
                       /\ GoTo("DONE") /\ UNCHANGED running
                    \/ /\ result = "invalid"
                       /\ comms_send_packet("NACK")
                       /\ GoTo("DONE") /\ UNCHANGED running
                    \/ /\ result = "overrun"
                       /\ running' = "fault" /\ SendNothing
                       /\ UNCHANGED bootloader_state
       \/ /\ ~AcceptedLength(temp_packet)
          /\ bootloading_failed
          /\ UNCHANGED <<running, bytes_written, age, flash>>
    /\ UNCHANGED <<firmware_length, line>>

Switch ==
    \/ Timeout \/ WaitForFwUpdateReq \/ DeviceIdReq \/ DeviceIdRes
    \/ FwLengthReq \/ FwLengthRes \/ EraseApplication \/ ReceiveFw

-----------------------------------------------------------------------------
(* After the loop: start the application, or reset.                        *)

\* A reset clears every static; a suffix of what was on its way arrives after.
Restart ==
    /\ running' = "bootloader"
    /\ bootloader_state' = "SYNC"
    /\ firmware_length' = 0 /\ bytes_written' = 0 /\ age' = 0
    /\ incoming_packet_buffer' = <<>>
    /\ last_transmitted_packet' = "nothing" /\ sent' = "nothing"
    /\ \E k \in 0..Len(rx) : rx' = SubSeq(rx, k + 1, Len(rx))
    /\ partial' = 0

jump_to_main_app ==
    /\ InState("DONE") /\ "valid" \in validate_fw_image(flash)
    /\ running' = "app" /\ sent' = "nothing"
    /\ rx' = <<>> /\ partial' = 0
    /\ UNCHANGED <<session, incoming_packet_buffer, last_transmitted_packet, flash>>

scb_reset_core ==
    /\ InState("DONE") /\ "invalid" \in validate_fw_image(flash)
    /\ Restart
    /\ UNCHANGED flash

CheckOverruns ==
    /\ InState("DONE") /\ "overrun" \in validate_fw_image(flash)
    /\ running' = "fault" /\ sent' = "nothing"
    /\ UNCHANGED <<session, incoming_packet_buffer, last_transmitted_packet,
                   line, flash>>

Done == jump_to_main_app \/ scb_reset_core \/ CheckOverruns

Device == SyncMatch \/ SyncMismatch \/ comms_update \/ Switch \/ Done

-----------------------------------------------------------------------------
(* The environment: host, line, clock and power.                           *)

Unmoved == UNCHANGED <<running, bootloader_state, firmware_length, bytes_written,
                       incoming_packet_buffer, last_transmitted_packet, flash>>

HostSend(p) ==
    /\ running = "bootloader" /\ Len(rx) < RX_CAPACITY
    /\ rx' = Append(rx, p)
    /\ sent' = "nothing"
    /\ Unmoved /\ UNCHANGED <<age, partial>>

LoseByte ==
    /\ rx # <<>> /\ WireLength(Head(rx)) > 1
    /\ rx' = [rx EXCEPT ![1] = Truncated(WireLength(Head(rx)) - 1)]
    /\ sent' = "nothing"
    /\ Unmoved /\ UNCHANGED <<age, partial>>

Tick ==
    /\ running = "bootloader" /\ age < DEFAULT_TIMEOUT
    /\ age' = age + 1
    /\ sent' = "nothing"
    /\ Unmoved /\ UNCHANGED line

PowerLossBetweenSteps == Restart /\ UNCHANGED flash

\* flash_program writes byte by byte: the first n bytes are in, the next one
\* may be half programmed.
PowerLossWhileProgramming ==
    /\ InState("RECEIVE_FW") /\ comms_packet_available
    /\ AcceptedLength(temp_packet)
    /\ \E n \in 0..ChunkSize(temp_packet) - 1, torn \in BOOLEAN :
        LET f == Written(flash, bytes_written, temp_packet, n) IN
        flash' = [a \in 0..AREA - 1 |->
                    IF torn /\ a = bytes_written + n THEN Noise ELSE f[a]]
    /\ Restart

\* bl_flash_erase_main_application erases sectors 2..7 in turn; of the sector
\* it is interrupted in, the cells of E are erased and the others are not.
PowerLossWhileErasing ==
    /\ InState("ERASE_APPLICATION")
    /\ \E s \in 2..7, E \in TornErasures :
        flash' = [a \in 0..AREA - 1 |->
                    IF a < SectorStart[s] \/ (a < SectorStart[s + 1] /\ a \in E)
                    THEN Erased ELSE flash[a]]
    /\ Restart

PowerLoss ==
    PowerLossBetweenSteps \/ PowerLossWhileProgramming \/ PowerLossWhileErasing

Next ==
    \/ Device
    \/ \E p \in HostPackets : HostSend(p)
    \/ LoseByte \/ Tick \/ PowerLoss

Spec == Init /\ [][Next]_vars

-----------------------------------------------------------------------------
(* Properties.                                                             *)

\* The device runs the application only when every byte of a signed image for
\* this device is in flash, whatever was sent, torn or cut off before
\* (validate_fw_image guards jump_to_main_app, bootloader.c:533).
OnlyIntactImagesRun == running = "app" => Bootable(flash)

\* UPDATE_SUCCESSFUL is sent only for an image that will boot, and nothing the
\* device may still do before it resets takes that back (bootloader.c:484).
SuccessMeansBootable ==
    last_transmitted_packet = "UPDATE_SUCCESSFUL" => Bootable(flash)

\* In RECEIVE_FW all flash from bytes_written on is erased, so a chunk never
\* lands on programmed cells.  It rests on the states being left in one
\* direction only, on the statics being cleared by nothing but a reset and on
\* the erase covering everything a previous image may have filled.
ChunksLandOnErasedFlash ==
    bootloader_state = "RECEIVE_FW" =>
        \A a \in bytes_written..AREA - 1 : flash[a] = Erased

\* The last chunk may reach past firmware_length, never past the erased area.
WritesStayInArea ==
    /\ bytes_written <= AREA
    /\ bootloader_state = "RECEIVE_FW" => firmware_length <= MAX_FW_LENGTH

\* A bootable image is lost in one way only: by the erase of a session whose
\* host named this device and a length that fits.  No chunk, reset or power
\* loss in any other state takes it away.
ImageLostOnlyByErase ==
    [][\A i \in Images : Verifies(flash, i) /\ ~Verifies(flash', i)
        => /\ bootloader_state = "ERASE_APPLICATION"
           /\ firmware_length <= MAX_FW_LENGTH]_vars

-----------------------------------------------------------------------------
(* The slot the abstract specification speaks of.                          *)

SlotOf(f) == IF Bootable(f) THEN CHOOSE i \in Images : Verifies(f, i) ELSE "none"
SlotPhase ==
    CASE running = "app" -> "running"
      [] running = "fault" -> "stuck"
      [] InState("ERASE_APPLICATION") -> "erasing"
      [] InState("RECEIVE_FW") -> "filling"
      [] OTHER -> "idle"

Slot == INSTANCE UpdateSlot WITH None <- "none", slot <- SlotOf(flash), phase <- SlotPhase

\* The bootloader implements the slot: nothing but a granted session changes
\* which image is in flash, one image gives way to another only through an
\* empty slot, and what runs is what the slot holds.
ImplementsUpdateSlot == Slot!Spec

-----------------------------------------------------------------------------
\* A claim of a comment.

\* bootloader.c:538 ("board will re-enter bootloader and wait for new
\* firmware"): an image that does not check out makes the device reset.
BadImageResets ==
    [][InState("DONE") /\ ~Bootable(flash) => running' = "bootloader"]_vars
=============================================================================
