-------------------------- MODULE BootloaderProofs --------------------------
(***************************************************************************)
(* Proofs about the bootloader, for every layout of flash, every set of    *)
(* images and packets and every size of the buffers.                       *)
(***************************************************************************)
EXTENDS Bootloader, SequenceTheorems, TLAPS

-----------------------------------------------------------------------------
(* Types.                                                                  *)

\* A packet programs between one cell and a block of them.
LEMMA ChunkSizeRange ==
    ASSUME NEW p \in Packet
    PROVE  ChunkSize(p) \in 1..BLOCK
<1>1. p.length \in Nat
    BY DEF Packet
<1>2. p.length % BLOCK \in 0..BLOCK - 1
    BY <1>1, BlockAssumption
<1> QED BY <1>2, BlockAssumption DEF ChunkSize

\* Programming a chunk, or part of one, leaves cells in flash.
LEMMA WrittenType ==
    ASSUME NEW f \in [0..AREA - 1 -> Cells], NEW start \in Nat,
           NEW p \in Packet, NEW n \in Nat
    PROVE  Written(f, start, p, n) \in [0..AREA - 1 -> Cells]
<1> SUFFICES ASSUME NEW a \in 0..AREA - 1
             PROVE  IF a \in start..start + n - 1
                    THEN Programmed(f[a], Data(p, a - start)) \in Cells
                    ELSE f[a] \in Cells
    BY DEF Written
<1>1. f[a] \in Cells
    OBVIOUS
<1>2. ASSUME a \in start..start + n - 1
      PROVE  Data(p, a - start) \in Cells
    <2>1. a - start \in Nat /\ p.arg \in Nat
        BY <1>2, LayoutAssumption DEF Packet
    <2> QED BY <2>1 DEF Data, Cells, Noise
<1> QED BY <1>1, <1>2 DEF Programmed, Cells, Noise

\* The head of a queue of packets is a packet, its tail a queue of packets.
LEMMA QueueType ==
    ASSUME NEW q \in Seq(HostPackets), q # <<>>
    PROVE  /\ Head(q) \in HostPackets /\ Head(q) \in Packet
           /\ Tail(q) \in Seq(HostPackets)
BY HeadTailProperties, EnvironmentAssumption

\* What is on the wire has bytes, a whole packet's at most, and only what has
\* lost some is not a packet of the host.
LEMMA WireType ==
    ASSUME NEW p \in OnTheWire
    PROVE  /\ WireLength(p) \in 1..PACKET_LENGTH
           /\ WireLength(p) = PACKET_LENGTH => p \in HostPackets
<1>1. CASE p \in HostPackets
    BY <1>1, EnvironmentAssumption
       DEF OnTheWire, WireLength, PACKET_LENGTH, SYNC_LENGTH
<1>2. ASSUME NEW n \in 1..PACKET_LENGTH - 1, p = Truncated(n)
      PROVE  WireLength(p) = n
    BY <1>2 DEF WireLength, Truncated
<1>3. CASE p \notin HostPackets
    <2>1. PICK n \in 1..PACKET_LENGTH - 1 : p = Truncated(n)
        BY <1>3 DEF OnTheWire
    <2>2. WireLength(p) = n
        BY <1>2, <2>1
    <2> QED BY <2>2 DEF PACKET_LENGTH
<1> QED BY <1>1, <1>3

\* What is left of the wire once k packets are gone.
LEMMA SuffixType ==
    ASSUME NEW q \in Seq(OnTheWire), NEW k \in Nat
    PROVE  SubSeq(q, k + 1, Len(q)) \in Seq(OnTheWire)
<1>1. Len(q) \in Nat /\ \A i \in k + 1..Len(q) : q[i] \in OnTheWire
    BY LenProperties, ElementOfSeq
<1> QED BY <1>1, SubSeqProperties

\* The statics after a reset have their types.
LEMMA RestartType ==
    ASSUME TypeOK, Restart, flash' \in [0..AREA - 1 -> Cells]
    PROVE  TypeOK'
<1>1. rx' \in Seq(OnTheWire)
    BY SuffixType DEF TypeOK, Restart
<1>2. age' \in 0..DEFAULT_TIMEOUT /\ bytes_written' \in Nat /\ firmware_length' \in Nat
    BY LimitsAssumption DEF Restart
<1>3. incoming_packet_buffer' \in Seq(HostPackets)
    BY DEF Restart
<1>4. partial' \in 0..PACKET_LENGTH - 1
    BY DEF Restart, PACKET_LENGTH
<1> QED BY <1>1, <1>2, <1>3, <1>4 DEF TypeOK, Restart, States

\* The packet layer keeps the types.
LEMMA CommsType ==
    ASSUME TypeOK, comms_update
    PROVE  TypeOK'
<1> USE DEF Polling, session, TypeOK, comms_send_packet, SendNothing, DevicePackets
<1>1. rx # <<>> /\ rx \in Seq(OnTheWire)
    BY DEF comms_update, ReceiveDamaged, ReceivePart, ReceiveRetx, ReceiveAck,
           ReceivePacket
<1>2. Head(rx) \in OnTheWire /\ Tail(rx) \in Seq(OnTheWire)
    BY <1>1, HeadTailProperties
<1>taken. partial \in 0..17 /\ BytesTaken \in 1..35
    <2>1. WireLength(Head(rx)) \in 1..18
        BY <1>2, WireType DEF PACKET_LENGTH
    <2>2. partial \in 0..17
        BY DEF PACKET_LENGTH
    <2>3. BytesTaken = partial + WireLength(Head(rx))
        BY DEF BytesTaken
    <2> HIDE DEF TypeOK
    <2> QED BY <2>1, <2>2, <2>3
<1>3. CASE ReceivePart
    <2>1. partial' \in 0..PACKET_LENGTH - 1
        BY <1>3, <1>taken DEF ReceivePart, PACKET_LENGTH
    <2> QED BY <1>2, <1>3, <2>1 DEF ReceivePart
<1>4. CASE ReceiveDamaged
    <2>1. partial' \in 0..PACKET_LENGTH - 1
        BY <1>4, <1>taken DEF ReceiveDamaged, PACKET_LENGTH
    <2> QED BY <1>2, <1>4, <2>1 DEF ReceiveDamaged
<1>5. CASE ReceiveRetx
    BY <1>2, <1>5 DEF ReceiveRetx
<1>6. CASE ReceiveAck
    BY <1>2, <1>6 DEF ReceiveAck
<1>7. CASE ReceivePacket
    <2>1. Append(incoming_packet_buffer, Head(rx)) \in Seq(HostPackets)
        BY <1>2, <1>7, WireType, AppendProperties DEF ReceivePacket, Framed
    <2> QED BY <1>2, <1>7, <2>1 DEF ReceivePacket
<1> QED BY <1>3, <1>4, <1>5, <1>6, <1>7 DEF comms_update

\* The states of the main loop keep the types.
LEMMA SwitchType ==
    ASSUME TypeOK, Switch
    PROVE  TypeOK'
<1> USE DEF TypeOK, InState, GoTo, States, DevicePackets, simple_timer_reset,
            comms_send_packet, SendNothing, bootloading_failed, line
<1>age. 0 \in 0..DEFAULT_TIMEOUT
    BY LimitsAssumption
<1>1. CASE Timeout
    BY <1>1 DEF Timeout
<1>2. ASSUME comms_packet_available
      PROVE  /\ temp_packet \in HostPackets /\ temp_packet \in Packet
             /\ comms_receive_packet => incoming_packet_buffer' \in Seq(HostPackets)
    BY <1>2, QueueType DEF comms_packet_available, comms_receive_packet, temp_packet
<1>3. CASE WaitForFwUpdateReq
    BY <1>2, <1>3, <1>age DEF WaitForFwUpdateReq, Await
<1>4. CASE DeviceIdReq
    BY <1>4, <1>age DEF DeviceIdReq
<1>5. CASE DeviceIdRes
    BY <1>2, <1>5, <1>age DEF DeviceIdRes, Await
<1>6. CASE FwLengthReq
    BY <1>6, <1>age DEF FwLengthReq
<1>7. CASE FwLengthRes
    <2>1. temp_packet.arg \in Nat
        BY <1>2, <1>7 DEF FwLengthRes, Await, Packet
    <2> QED BY <1>2, <1>7, <1>age, <2>1 DEF FwLengthRes, Await
<1>8. CASE EraseApplication
    <2>1. flash' \in [0..AREA - 1 -> Cells]
        BY <1>8 DEF EraseApplication, bl_flash_erase_main_application, Erase, Cells
    <2> QED BY <1>8, <1>age, <2>1 DEF EraseApplication
<1>9. CASE ReceiveFw
    <2> DEFINE n == ChunkSize(temp_packet)
    <2>1. n \in Nat
        BY <1>2, <1>9, ChunkSizeRange, BlockAssumption DEF ReceiveFw
    <2>2. Written(flash, bytes_written, temp_packet, n) \in [0..AREA - 1 -> Cells]
        BY <1>2, <1>9, <2>1, WrittenType DEF ReceiveFw
    <2>3. flash' \in [0..AREA - 1 -> Cells] /\ bytes_written' \in Nat
        BY <1>9, <2>1, <2>2 DEF ReceiveFw
    <2> HIDE DEF n
    <2>4. /\ running' \in {"bootloader", "app", "fault"}
          /\ bootloader_state' \in States
          /\ age' \in 0..DEFAULT_TIMEOUT
          /\ last_transmitted_packet' \in DevicePackets \cup {"nothing"}
          /\ sent' \in DevicePackets \cup {"nothing"}
        BY <1>9, <1>age DEF ReceiveFw
    <2> QED BY <1>2, <1>9, <2>3, <2>4 DEF ReceiveFw
<1> QED BY <1>1, <1>3, <1>4, <1>5, <1>6, <1>7, <1>8, <1>9 DEF Switch

\* A power loss leaves cells in flash, whatever it interrupts.
LEMMA PowerLossType ==
    ASSUME TypeOK, PowerLoss
    PROVE  TypeOK'
<1>1. CASE PowerLossBetweenSteps
    BY <1>1, RestartType DEF PowerLossBetweenSteps, TypeOK
<1>2. CASE PowerLossWhileProgramming
    <2>1. temp_packet \in Packet
        BY <1>2, QueueType DEF PowerLossWhileProgramming, comms_packet_available,
           temp_packet, TypeOK
    <2>2. PICK n \in 0..ChunkSize(temp_packet) - 1, torn \in BOOLEAN :
            flash' = [a \in 0..AREA - 1 |->
                        IF torn /\ a = bytes_written + n THEN Noise
                        ELSE Written(flash, bytes_written, temp_packet, n)[a]]
        BY <1>2 DEF PowerLossWhileProgramming
    <2>3. ChunkSize(temp_packet) \in Nat
        BY <2>1, ChunkSizeRange, BlockAssumption
    <2>4. Written(flash, bytes_written, temp_packet, n) \in [0..AREA - 1 -> Cells]
        BY <2>1, <2>3, WrittenType DEF TypeOK
    <2>5. flash' \in [0..AREA - 1 -> Cells]
        BY <2>2, <2>4 DEF Cells
    <2> QED BY <1>2, <2>5, RestartType DEF PowerLossWhileProgramming
<1>3. CASE PowerLossWhileErasing
    <2>1. flash' \in [0..AREA - 1 -> Cells]
        BY <1>3 DEF PowerLossWhileErasing, TypeOK, Cells
    <2> QED BY <1>3, <2>1, RestartType DEF PowerLossWhileErasing
<1> QED BY <1>1, <1>2, <1>3 DEF PowerLoss

\* Every step keeps the types.
LEMMA NextType ==
    ASSUME TypeOK, [Next]_vars
    PROVE  TypeOK'
<1>1. CASE SyncMatch
    <2>1. PICK k \in 0..Len(rx) - 1 :
            /\ rx' = SubSeq(rx, k + 2, Len(rx))
            /\ partial' \in IF k = 0 THEN {0} ELSE 0..PACKET_LENGTH - 1
        BY <1>1 DEF SyncMatch
    <2>2. rx' \in Seq(OnTheWire)
        BY <2>1, SuffixType, k + 1 \in Nat, (k + 1) + 1 = k + 2 DEF TypeOK
    <2>3. partial' \in 0..PACKET_LENGTH - 1
        BY <2>1 DEF PACKET_LENGTH
    <2> QED BY <1>1, <2>2, <2>3, LimitsAssumption
            DEF TypeOK, SyncMatch, comms_send_packet, GoTo, simple_timer_reset,
                States, DevicePackets
<1>2. CASE SyncMismatch
    <2>1. rx' \in Seq(OnTheWire)
        BY <1>2, HeadTailProperties DEF TypeOK, SyncMismatch
    <2> QED BY <1>2, <2>1 DEF TypeOK, SyncMismatch, bootloading_failed,
            comms_send_packet, SendNothing, States, DevicePackets
<1>3. CASE comms_update
    BY <1>3, CommsType
<1>4. CASE Switch
    BY <1>4, SwitchType
<1>5. CASE jump_to_main_app
    <2>1. partial' = 0 /\ rx' = <<>>
        BY <1>5 DEF jump_to_main_app
    <2>3. partial' \in 0..PACKET_LENGTH - 1 /\ rx' \in Seq(OnTheWire)
        BY <2>1 DEF PACKET_LENGTH
    <2>2. /\ running' = "app" /\ sent' = "nothing"
          /\ UNCHANGED <<session, incoming_packet_buffer, last_transmitted_packet, flash>>
        BY <1>5 DEF jump_to_main_app
    <2> QED BY <2>2, <2>3 DEF TypeOK, session
<1>6. CASE scb_reset_core
    BY <1>6, RestartType DEF TypeOK, scb_reset_core
<1>7. CASE CheckOverruns
    BY <1>7 DEF TypeOK, CheckOverruns, session, line
<1>8. ASSUME NEW p \in HostPackets, HostSend(p)
      PROVE  TypeOK'
    <2>1. rx' \in Seq(OnTheWire)
        BY <1>8, AppendProperties DEF TypeOK, HostSend, OnTheWire
    <2> QED BY <1>8, <2>1 DEF TypeOK, HostSend, Unmoved
<1>9. CASE LoseByte
    <2> DEFINE p == Truncated(WireLength(Head(rx)) - 1)
    <2>1. Head(rx) \in OnTheWire
        BY <1>9, HeadTailProperties DEF TypeOK, LoseByte
    <2>2. WireLength(Head(rx)) - 1 \in 1..PACKET_LENGTH - 1
        BY <1>9, <2>1, WireType DEF LoseByte, PACKET_LENGTH
    <2>3. p \in OnTheWire
        BY <2>2 DEF OnTheWire
    <2>4. rx' = [rx EXCEPT ![1] = p]
        BY <1>9 DEF LoseByte
    <2> HIDE DEF p
    <2>5. 1 \in 1..Len(rx)
        BY <1>9, LenProperties, EmptySeq DEF TypeOK, LoseByte
    <2>6. rx' \in Seq(OnTheWire)
        BY <2>3, <2>4, <2>5, ExceptSeq DEF TypeOK
    <2> QED BY <1>9, <2>6 DEF TypeOK, LoseByte, Unmoved
<1>10. CASE Tick
    <2>1. age' \in 0..DEFAULT_TIMEOUT
        BY <1>10, LimitsAssumption DEF TypeOK, Tick
    <2> QED BY <1>10, <2>1 DEF TypeOK, Tick, Unmoved, line
<1>11. CASE PowerLoss
    BY <1>11, PowerLossType
<1>12. CASE UNCHANGED vars
    BY <1>12 DEF TypeOK, vars, session, comms, line
<1> QED BY <1>1, <1>2, <1>3, <1>4, <1>5, <1>6, <1>7, <1>8, <1>9, <1>10, <1>11,
           <1>12 DEF Next, Device, Done

\* The flash the device is first started with.
LEMMA InitType == Init => TypeOK
<1> SUFFICES ASSUME Init PROVE TypeOK
    OBVIOUS
<1>1. \A i \in Images : FlashOf(i) \in [0..AREA - 1 -> Cells]
    BY LayoutAssumption DEF FlashOf, Cells
<1>2. ErasedFlash \in [0..AREA - 1 -> Cells]
    BY DEF ErasedFlash, Cells
<1>3. flash \in [0..AREA - 1 -> Cells]
    BY <1>1, <1>2 DEF Init
<1>4. partial \in 0..PACKET_LENGTH - 1
    BY DEF Init, PACKET_LENGTH
<1>5. rx \in Seq(OnTheWire) /\ incoming_packet_buffer \in Seq(HostPackets)
    BY DEF Init
<1>6. 0 \in 0..DEFAULT_TIMEOUT
    BY LimitsAssumption
<1> QED BY <1>3, <1>4, <1>5, <1>6 DEF Init, TypeOK, States

\* Every variable keeps its type, whatever packets arrive and wherever power
\* fails.
THEOREM TypeCorrect == Spec => []TypeOK
BY InitType, NextType, PTL DEF Spec

-----------------------------------------------------------------------------
(* The inductive invariant.                                                *)

\* Where a session stands determines how much it has written: nothing before
\* RECEIVE_FW, less than the announced length while RECEIVE_FW goes on, and
\* never more than the last chunk beyond it.
SessionOK ==
    /\ bootloader_state \notin {"RECEIVE_FW", "DONE"} => bytes_written = 0
    /\ bootloader_state \in {"ERASE_APPLICATION", "RECEIVE_FW"}
        => firmware_length <= MAX_FW_LENGTH
    /\ bootloader_state = "RECEIVE_FW" /\ running = "bootloader"
        => bytes_written = 0 \/ bytes_written < firmware_length
    /\ bytes_written <= AREA

\* An application runs, and success was reported, only after the main loop has
\* ended with a bootable image in flash.
ImageOK ==
    running = "app" \/ last_transmitted_packet = "UPDATE_SUCCESSFUL"
        => bootloader_state = "DONE" /\ Bootable(flash)

IInv == TypeOK /\ SessionOK /\ ChunksLandOnErasedFlash /\ ImageOK

\* The steps that touch neither flash nor what SessionOK speaks of.
QuietStep ==
    \/ comms_update \/ LoseByte \/ Tick \/ UNCHANGED vars
    \/ \E p \in HostPackets : HostSend(p)

LEMMA ValidIsBootable ==
    ASSUME NEW f, "valid" \in validate_fw_image(f)
    PROVE  Bootable(f)
BY DEF validate_fw_image

LEMMA IInvInit == Init => IInv
BY InitType, LayoutAssumption DEF Init, IInv, SessionOK, ChunksLandOnErasedFlash, ImageOK

\* After a reset everything the invariant guards against is out of reach.
LEMMA IInvRestart ==
    ASSUME Restart, TypeOK'
    PROVE  IInv'
BY LayoutAssumption
   DEF Restart, IInv, SessionOK, ChunksLandOnErasedFlash, ImageOK

LEMMA IInvQuiet ==
    ASSUME IInv, QuietStep, TypeOK'
    PROVE  IInv'
<1>1. /\ UNCHANGED <<bootloader_state, firmware_length, bytes_written, flash>>
      /\ running' = running \/ (running = "bootloader" /\ running' = "fault")
    BY DEF QuietStep, comms_update, ReceiveDamaged, ReceivePart, ReceiveRetx,
           ReceiveAck, ReceivePacket, Polling, LoseByte, Tick, HostSend, Unmoved,
           vars, session
<1>2. SessionOK' /\ ChunksLandOnErasedFlash'
    BY <1>1 DEF IInv, SessionOK, ChunksLandOnErasedFlash
<1>3. CASE comms_update
    <2>1. bootloader_state # "DONE"
        BY <1>3 DEF comms_update, ReceiveDamaged, ReceivePart, ReceiveRetx,
               ReceiveAck, ReceivePacket, Polling
    <2>2. running # "app" /\ last_transmitted_packet # "UPDATE_SUCCESSFUL"
        BY <2>1 DEF IInv, ImageOK
    <2>3. running' # "app"
        BY <1>1, <2>2
    <2>4. last_transmitted_packet' # "UPDATE_SUCCESSFUL"
        BY <1>3, <2>2 DEF comms_update, ReceiveDamaged, ReceivePart, ReceiveRetx,
               ReceiveAck, ReceivePacket, comms_send_packet, SendNothing
    <2> QED BY <1>2, <2>3, <2>4 DEF IInv, ImageOK
<1>4. CASE ~comms_update
    <2>1. UNCHANGED <<running, last_transmitted_packet>>
        BY <1>4 DEF QuietStep, LoseByte, Tick, HostSend, Unmoved, vars, comms
    <2> QED BY <1>1, <1>2, <2>1 DEF IInv, ImageOK
<1> QED BY <1>3, <1>4

LEMMA IInvNext ==
    ASSUME IInv, [Next]_vars
    PROVE  IInv'
<1> USE DEF InState, GoTo
<1>type. TypeOK /\ TypeOK'
    BY NextType DEF IInv
<1>1. CASE QuietStep
    BY <1>1, <1>type, IInvQuiet
<1>2. CASE PowerLoss \/ scb_reset_core
    BY <1>2, <1>type, IInvRestart DEF PowerLoss, PowerLossBetweenSteps,
       PowerLossWhileProgramming, PowerLossWhileErasing, scb_reset_core
<1>3. CASE SyncMatch
    BY <1>3, <1>type DEF SyncMatch, comms_send_packet, IInv, SessionOK,
       ChunksLandOnErasedFlash, ImageOK
<1>4. CASE SyncMismatch \/ Timeout
    <2>1. /\ UNCHANGED <<running, firmware_length, bytes_written, flash>>
          /\ running = "bootloader"
          /\ \/ /\ bootloader_state' = "DONE"
                /\ last_transmitted_packet' = "NACK"
             \/ UNCHANGED <<bootloader_state, last_transmitted_packet>>
        BY <1>4 DEF SyncMismatch, Timeout, bootloading_failed, comms_send_packet,
               SendNothing
    <2> QED BY <2>1, <1>type DEF IInv, SessionOK, ChunksLandOnErasedFlash, ImageOK
<1>5. CASE WaitForFwUpdateReq \/ DeviceIdReq \/ DeviceIdRes \/ FwLengthReq
    <2>1. /\ UNCHANGED <<running, firmware_length, bytes_written, flash>>
          /\ bootloader_state \notin {"RECEIVE_FW", "DONE"} /\ running = "bootloader"
          /\ bootloader_state' \in {"DEVICE_ID_REQ", "DEVICE_ID_RES", "FW_LENGTH_REQ",
                                    "FW_LENGTH_RES", "DONE"}
          /\ \/ last_transmitted_packet' \in {"FW_UPDATE_RES", "DEVICE_ID_REQ",
                                              "FW_LENGTH_REQ", "NACK"}
             \/ UNCHANGED last_transmitted_packet
        BY <1>5 DEF WaitForFwUpdateReq, DeviceIdReq, DeviceIdRes, FwLengthReq, Await,
               bootloading_failed, comms_send_packet, SendNothing, line
    <2> QED BY <2>1, <1>type DEF IInv, SessionOK, ChunksLandOnErasedFlash, ImageOK
<1>6. CASE FwLengthRes
    <2>1. /\ UNCHANGED <<running, bytes_written, flash>>
          /\ bootloader_state = "FW_LENGTH_RES" /\ running = "bootloader"
          /\ \/ /\ bootloader_state' = "ERASE_APPLICATION"
                /\ firmware_length' <= MAX_FW_LENGTH
                /\ UNCHANGED last_transmitted_packet
             \/ /\ bootloader_state' = "DONE"
                /\ last_transmitted_packet' = "NACK"
        BY <1>6 DEF FwLengthRes, Await, LengthAccepted, bootloading_failed,
               comms_send_packet, SendNothing
    <2> QED BY <2>1, <1>type DEF IInv, SessionOK, ChunksLandOnErasedFlash, ImageOK
<1>7. CASE EraseApplication
    <2>1. \A a \in 0..AREA - 1 : flash'[a] = Erased
        BY <1>7, LayoutAssumption
           DEF EraseApplication, bl_flash_erase_main_application, Erase
    <2>2. /\ bootloader_state = "ERASE_APPLICATION" /\ running' = "bootloader"
          /\ UNCHANGED <<firmware_length, bytes_written>>
          /\ last_transmitted_packet' = "READY_FOR_DATA"
          /\ bootloader_state' = "RECEIVE_FW"
        BY <1>7 DEF EraseApplication, comms_send_packet
    <2> QED BY <2>1, <2>2, <1>type, LayoutAssumption
            DEF IInv, TypeOK, SessionOK, ChunksLandOnErasedFlash, ImageOK
<1>8. CASE ReceiveFw
    <2> DEFINE n == ChunkSize(temp_packet)
    <2>1. bootloader_state = "RECEIVE_FW" /\ running = "bootloader"
        BY <1>8 DEF ReceiveFw
    <2>2. n \in 1..BLOCK
        BY <1>8, <1>type, QueueType, ChunkSizeRange
           DEF ReceiveFw, comms_packet_available, temp_packet, TypeOK
    <2>3. bytes_written + n <= AREA
        <3>1. /\ bytes_written \in Nat /\ firmware_length \in Nat
              /\ bytes_written = 0 \/ bytes_written < firmware_length
              /\ firmware_length <= MAX_FW_LENGTH
            BY <2>1, <1>type DEF IInv, TypeOK, SessionOK
        <3> HIDE DEF n
        <3> QED BY <2>2, <3>1, LayoutAssumption, BlockAssumption
    <2>4. CASE AcceptedLength(temp_packet)
        <3>1. /\ flash' = Written(flash, bytes_written, temp_packet, n)
              /\ bytes_written' = bytes_written + n
              /\ firmware_length' = firmware_length
            BY <1>8, <2>4 DEF ReceiveFw
        <3>2. \A a \in bytes_written'..AREA - 1 : flash'[a] = Erased
            BY <2>1, <2>2, <3>1, <1>type
               DEF IInv, TypeOK, ChunksLandOnErasedFlash, Written
        <3> HIDE DEF n
        <3>3. \/ /\ bytes_written + n < firmware_length
                 /\ last_transmitted_packet' = "READY_FOR_DATA"
                 /\ UNCHANGED <<running, bootloader_state>>
              \/ /\ bootloader_state' = "DONE" /\ UNCHANGED running
                 /\ last_transmitted_packet' \in {"UPDATE_SUCCESSFUL", "NACK"}
                 /\ last_transmitted_packet' = "UPDATE_SUCCESSFUL" => Bootable(flash')
              \/ /\ running' = "fault"
                 /\ UNCHANGED <<last_transmitted_packet, bootloader_state>>
            BY <1>8, <2>4, ValidIsBootable
               DEF ReceiveFw, comms_send_packet, SendNothing, n
        <3> QED BY <2>1, <2>2, <2>3, <3>1, <3>2, <3>3, <1>type
                DEF IInv, SessionOK, ChunksLandOnErasedFlash, ImageOK
    <2>5. CASE ~AcceptedLength(temp_packet)
        BY <1>8, <2>5, <2>1, <1>type DEF ReceiveFw, bootloading_failed, comms_send_packet,
           IInv, SessionOK, ChunksLandOnErasedFlash, ImageOK
    <2> QED BY <2>4, <2>5
<1>9. CASE jump_to_main_app \/ CheckOverruns
    <2>1. /\ UNCHANGED <<bootloader_state, firmware_length, bytes_written, flash,
                         last_transmitted_packet>>
          /\ bootloader_state = "DONE"
          /\ running' = "fault" \/ Bootable(flash)
        BY <1>9, ValidIsBootable DEF jump_to_main_app, CheckOverruns, session
    <2> QED BY <2>1, <1>type DEF IInv, SessionOK, ChunksLandOnErasedFlash, ImageOK
<1> QED BY <1>1, <1>2, <1>3, <1>4, <1>5, <1>6, <1>7, <1>8, <1>9
        DEF QuietStep, Next, Device, Switch, Done

\* The inductive invariant holds in every state.
THEOREM Invariance == Spec => []IInv
BY IInvInit, IInvNext, PTL DEF Spec

\* What is running as the application is a whole signed image.
THEOREM IntactImagesRun == Spec => []OnlyIntactImagesRun
<1>1. IInv => OnlyIntactImagesRun
    BY DEF IInv, ImageOK, OnlyIntactImagesRun
<1> QED BY <1>1, Invariance, PTL

\* Once reported successful, the image stays bootable until the reset.
THEOREM SuccessBootable == Spec => []SuccessMeansBootable
<1>1. IInv => SuccessMeansBootable
    BY DEF IInv, ImageOK, SuccessMeansBootable
<1> QED BY <1>1, Invariance, PTL

\* Chunks are programmed on erased flash.
THEOREM ErasedFlashOnly == Spec => []ChunksLandOnErasedFlash
<1>1. IInv => ChunksLandOnErasedFlash
    BY DEF IInv
<1> QED BY <1>1, Invariance, PTL

\* Nothing is written past the erased area.
THEOREM StayInArea == Spec => []WritesStayInArea
<1>1. IInv => WritesStayInArea
    BY DEF IInv, SessionOK, WritesStayInArea
<1> QED BY <1>1, Invariance, PTL

-----------------------------------------------------------------------------
(* A bootable image is lost only by the erase of an accepted session.      *)

\* A chunk leaves the cells of a verified image alone: none of them is erased,
\* so they lie below bytes_written.
LEMMA WriteKeepsImage ==
    ASSUME TypeOK, ChunksLandOnErasedFlash, bootloader_state = "RECEIVE_FW",
           NEW i \in Images, Verifies(flash, i),
           NEW p, NEW n \in Nat, NEW f,
           \A a \in 0..AREA - 1 :
              a < bytes_written => f[a] = Written(flash, bytes_written, p, n)[a]
    PROVE  Verifies(f, i)
<1>1. ImageLength[i] \in Nat /\ ImageLength[i] <= AREA
    BY ImagesAssumption, LayoutAssumption, BlockAssumption
<1> SUFFICES ASSUME NEW a \in 0..ImageLength[i] - 1
             PROVE  f[a] = <<i, a>>
    BY DEF Verifies
<1>2. flash[a] = <<i, a>>
    BY DEF Verifies
<1>3. a \in 0..AREA - 1
    BY <1>1, LayoutAssumption
<1>4. flash[a] # Erased
    BY <1>2, ImagesAssumption DEF Erased
<1>5. a < bytes_written
    BY <1>3, <1>4, LayoutAssumption DEF ChunksLandOnErasedFlash, TypeOK
<1>6. Written(flash, bytes_written, p, n)[a] = flash[a]
    BY <1>3, <1>5 DEF Written, TypeOK
<1> QED BY <1>2, <1>3, <1>5, <1>6

\* The flash changes in a session that erases or receives, nowhere else.
LEMMA FlashUntouched ==
    ASSUME [Next]_vars,
           ~EraseApplication, ~ReceiveFw,
           ~PowerLossWhileProgramming, ~PowerLossWhileErasing
    PROVE  flash' = flash
BY DEF Next, Device, SyncMatch, SyncMismatch, comms_update, ReceiveDamaged,
       ReceivePart, ReceiveRetx, ReceiveAck, ReceivePacket, Polling, Switch, Timeout,
       WaitForFwUpdateReq, DeviceIdReq, DeviceIdRes, FwLengthReq, FwLengthRes, Await,
       Done, jump_to_main_app, scb_reset_core, CheckOverruns, HostSend, LoseByte,
       Tick, Unmoved, PowerLoss, PowerLossBetweenSteps, vars

\* No chunk, whole or torn, no reset and no power loss outside the erase takes
\* a bootable image away.
THEOREM ImageSurvives == Spec => ImageLostOnlyByErase
<1>1. ASSUME IInv, [Next]_vars, NEW i \in Images,
             Verifies(flash, i), ~Verifies(flash', i)
      PROVE  /\ bootloader_state = "ERASE_APPLICATION"
             /\ firmware_length <= MAX_FW_LENGTH
    <2>1. CASE EraseApplication \/ PowerLossWhileErasing
        BY <1>1, <2>1 DEF EraseApplication, PowerLossWhileErasing, InState, IInv, SessionOK
    <2>2. CASE ReceiveFw
        <3>1. bootloader_state = "RECEIVE_FW" /\ comms_packet_available
            BY <2>2 DEF ReceiveFw, InState
        <3>2. ChunkSize(temp_packet) \in Nat
            BY <1>1, <3>1, QueueType, ChunkSizeRange, BlockAssumption
               DEF comms_packet_available, temp_packet, TypeOK, IInv
        <3>3. flash' = flash \/
              flash' = Written(flash, bytes_written, temp_packet, ChunkSize(temp_packet))
            BY <2>2 DEF ReceiveFw
        <3> QED BY <1>1, <3>1, <3>2, <3>3, WriteKeepsImage DEF IInv
    <2>3. CASE PowerLossWhileProgramming
        <3>1. bootloader_state = "RECEIVE_FW" /\ comms_packet_available
            BY <2>3 DEF PowerLossWhileProgramming, InState
        <3>2. ChunkSize(temp_packet) \in Nat
            BY <1>1, <3>1, QueueType, ChunkSizeRange, BlockAssumption
               DEF comms_packet_available, temp_packet, TypeOK, IInv
        <3>3. PICK n \in 0..ChunkSize(temp_packet) - 1, torn \in BOOLEAN :
                flash' = [a \in 0..AREA - 1 |->
                            IF torn /\ a = bytes_written + n THEN Noise
                            ELSE Written(flash, bytes_written, temp_packet, n)[a]]
            BY <2>3 DEF PowerLossWhileProgramming
        <3>4. \A a \in 0..AREA - 1 : a < bytes_written =>
                flash'[a] = Written(flash, bytes_written, temp_packet, n)[a]
            BY <1>1, <3>2, <3>3 DEF IInv, TypeOK
        <3> QED BY <1>1, <3>1, <3>2, <3>4, WriteKeepsImage DEF IInv
    <2>4. CASE /\ ~EraseApplication /\ ~ReceiveFw
               /\ ~PowerLossWhileProgramming /\ ~PowerLossWhileErasing
        BY <1>1, <2>4, FlashUntouched
    <2> QED BY <2>1, <2>2, <2>3, <2>4
<1>2. IInv /\ [Next]_vars =>
        [\A i \in Images : Verifies(flash, i) /\ ~Verifies(flash', i)
            => /\ bootloader_state = "ERASE_APPLICATION"
               /\ firmware_length <= MAX_FW_LENGTH]_vars
    BY <1>1
<1> QED BY <1>2, Invariance, PTL DEF Spec, ImageLostOnlyByErase

-----------------------------------------------------------------------------
(* The bootloader implements UpdateSlot.                                   *)

\* Cell 0 tells whose image is in flash.
LEMMA SlotIsImage ==
    ASSUME NEW f, NEW i \in Images, Verifies(f, i)
    PROVE  SlotOf(f) = i
<1>1. \A j \in Images : Verifies(f, j) => f[0] = <<j, 0>>
    <2> SUFFICES ASSUME NEW j \in Images, Verifies(f, j) PROVE f[0] = <<j, 0>>
        OBVIOUS
    <2>1. ImageLength[j] \in Nat /\ ImageLength[j] > 0
        BY ImagesAssumption, LayoutAssumption, BlockAssumption
    <2> QED BY <2>1 DEF Verifies
<1>2. \A j \in Images : Verifies(f, j) => j = i
    BY <1>1
<1>3. Bootable(f)
    BY DEF Bootable
<1> QED BY <1>2, <1>3 DEF SlotOf

LEMMA SlotType ==
    ASSUME NEW f
    PROVE  /\ Bootable(f) => SlotOf(f) \in Images /\ Verifies(f, SlotOf(f))
           /\ ~Bootable(f) => SlotOf(f) = "none"
           /\ SlotOf(f) = "none" <=> ~Bootable(f)
<1>1. ASSUME Bootable(f) PROVE SlotOf(f) \in Images /\ Verifies(f, SlotOf(f))
    BY <1>1, SlotIsImage DEF Bootable
<1>2. ~Bootable(f) => SlotOf(f) = "none"
    BY DEF SlotOf
<1> QED BY <1>1, <1>2, ImagesAssumption

\* Erasing can only cost an image.
LEMMA ErasingKeepsOrLoses ==
    ASSUME NEW f, NEW g,
           \A a \in 0..AREA - 1 : g[a] = Erased \/ g[a] = f[a]
    PROVE  SlotOf(g) \in {SlotOf(f), "none"}
<1>1. ASSUME NEW i \in Images, Verifies(g, i)
      PROVE  Verifies(f, i)
    <2>1. ImageLength[i] \in Nat /\ ImageLength[i] <= AREA
        BY ImagesAssumption, LayoutAssumption, BlockAssumption
    <2>2. ASSUME NEW a \in 0..ImageLength[i] - 1
          PROVE  f[a] = <<i, a>>
        <3>1. g[a] = <<i, a>> /\ g[a] # Erased
            BY <1>1, ImagesAssumption DEF Verifies, Erased
        <3>2. a \in 0..AREA - 1
            BY <2>1, LayoutAssumption
        <3> QED BY <3>1, <3>2
    <2> QED BY <1>1, <2>2 DEF Verifies
<1>2. CASE Bootable(g)
    BY <1>1, <1>2, SlotType, SlotIsImage
<1> QED BY <1>2, SlotType

\* A chunk, or part of one, keeps the image there is, or completes one.
LEMMA WritingKeepsOrFills ==
    ASSUME TypeOK, ChunksLandOnErasedFlash, bootloader_state = "RECEIVE_FW",
           NEW p, NEW n \in Nat, NEW f,
           \A a \in 0..AREA - 1 :
              a < bytes_written => f[a] = Written(flash, bytes_written, p, n)[a]
    PROVE  \/ SlotOf(f) = SlotOf(flash)
           \/ SlotOf(flash) = "none" /\ SlotOf(f) \in Images
<1>1. CASE Bootable(flash)
    BY <1>1, WriteKeepsImage, SlotType, SlotIsImage
<1>2. CASE ~Bootable(flash)
    BY <1>2, SlotType
<1> QED BY <1>1, <1>2

LEMMA SlotInit == Init => Slot!Init
BY SlotType DEF Init, Slot!Init, SlotPhase, InState

\* What the flash of one step becomes, as the slot sees it.
LEMMA SlotSteps ==
    ASSUME IInv, [Next]_vars
    PROVE  /\ EraseApplication => SlotOf(flash') = "none"
           /\ PowerLossWhileErasing => SlotOf(flash') \in {SlotOf(flash), "none"}
           /\ ReceiveFw \/ PowerLossWhileProgramming =>
                \/ SlotOf(flash') = SlotOf(flash)
                \/ SlotOf(flash) = "none" /\ SlotOf(flash') \in Images
<1> USE DEF IInv
<1>1. ASSUME EraseApplication
      PROVE  SlotOf(flash') = "none"
    <2>1. \A a \in 0..AREA - 1 : flash'[a] = Erased
        BY <1>1, LayoutAssumption
           DEF EraseApplication, bl_flash_erase_main_application, Erase
    <2>2. ASSUME NEW i \in Images, Verifies(flash', i)
          PROVE  FALSE
        <3>1. ImageLength[i] \in Nat /\ ImageLength[i] > 0 /\ ImageLength[i] <= AREA
            BY ImagesAssumption, LayoutAssumption, BlockAssumption
        <3>2. flash'[0] = <<i, 0>>
            BY <2>2, <3>1 DEF Verifies
        <3>3. flash'[0] = Erased
            BY <2>1, <3>1, LayoutAssumption
        <3> QED BY <3>2, <3>3, ImagesAssumption DEF Erased
    <2> QED BY <2>2, SlotType DEF Bootable
<1>2. ASSUME PowerLossWhileErasing
      PROVE  SlotOf(flash') \in {SlotOf(flash), "none"}
    <2>1. \A a \in 0..AREA - 1 : flash'[a] = Erased \/ flash'[a] = flash[a]
        BY <1>2 DEF PowerLossWhileErasing
    <2> QED BY <2>1, ErasingKeepsOrLoses
<1>3. ASSUME ReceiveFw
      PROVE  \/ SlotOf(flash') = SlotOf(flash)
             \/ SlotOf(flash) = "none" /\ SlotOf(flash') \in Images
    <2>1. bootloader_state = "RECEIVE_FW" /\ comms_packet_available
        BY <1>3 DEF ReceiveFw, InState
    <2>2. ChunkSize(temp_packet) \in Nat
        BY <2>1, QueueType, ChunkSizeRange, BlockAssumption
           DEF comms_packet_available, temp_packet, TypeOK
    <2>3. flash' = flash \/
          flash' = Written(flash, bytes_written, temp_packet, ChunkSize(temp_packet))
        BY <1>3 DEF ReceiveFw
    <2> QED BY <2>1, <2>2, <2>3, WritingKeepsOrFills
<1>4. ASSUME PowerLossWhileProgramming
      PROVE  \/ SlotOf(flash') = SlotOf(flash)
             \/ SlotOf(flash) = "none" /\ SlotOf(flash') \in Images
    <2>1. bootloader_state = "RECEIVE_FW" /\ comms_packet_available
        BY <1>4 DEF PowerLossWhileProgramming, InState
    <2>2. ChunkSize(temp_packet) \in Nat
        BY <2>1, QueueType, ChunkSizeRange, BlockAssumption
           DEF comms_packet_available, temp_packet, TypeOK
    <2>3. PICK n \in 0..ChunkSize(temp_packet) - 1, torn \in BOOLEAN :
            flash' = [a \in 0..AREA - 1 |->
                        IF torn /\ a = bytes_written + n THEN Noise
                        ELSE Written(flash, bytes_written, temp_packet, n)[a]]
        BY <1>4 DEF PowerLossWhileProgramming
    <2>4. \A a \in 0..AREA - 1 : a < bytes_written =>
            flash'[a] = Written(flash, bytes_written, temp_packet, n)[a]
        BY <2>2, <2>3 DEF TypeOK
    <2> QED BY <2>1, <2>2, <2>4, WritingKeepsOrFills
<1> QED BY <1>1, <1>2, <1>3, <1>4

LEMMA SlotNext ==
    ASSUME IInv, [Next]_vars
    PROVE  [Slot!Next]_<<SlotOf(flash), SlotPhase>>
<1> USE DEF InState, GoTo, SlotPhase, Slot!Next
<1>inv. IInv'
    BY IInvNext
<1>1. CASE EraseApplication
    <2>1. /\ SlotPhase = "erasing" /\ SlotPhase' = "filling"
        BY <1>1 DEF EraseApplication
    <2> QED BY <1>1, <2>1, SlotSteps DEF Slot!Erase
<1>2. CASE PowerLoss \/ scb_reset_core
    <2>1. SlotPhase' = "idle"
        BY <1>2 DEF PowerLoss, PowerLossBetweenSteps, PowerLossWhileProgramming,
               PowerLossWhileErasing, scb_reset_core, Restart
    <2>2. CASE PowerLossWhileErasing
        BY <2>1, <2>2, SlotSteps DEF PowerLossWhileErasing, Slot!Reboot
    <2>3. CASE PowerLossWhileProgramming
        BY <2>1, <2>3, SlotSteps DEF PowerLossWhileProgramming, Slot!Reboot
    <2>4. CASE PowerLossBetweenSteps \/ scb_reset_core
        BY <2>1, <2>4 DEF PowerLossBetweenSteps, scb_reset_core, Slot!Reboot
    <2> QED BY <1>2, <2>2, <2>3, <2>4 DEF PowerLoss
<1>3. CASE ReceiveFw
    <2>1. SlotPhase = "filling"
        BY <1>3 DEF ReceiveFw
    <2>2. \/ running' = "bootloader" /\ bootloader_state' \in {"RECEIVE_FW", "DONE"}
          \/ running' = "fault"
        BY <1>3 DEF ReceiveFw, bootloading_failed
    <2>3. CASE running' = "bootloader"
        <3>1. SlotPhase' \in {"filling", "idle"}
            BY <2>2, <2>3
        <3>2. CASE SlotOf(flash') = SlotOf(flash)
            BY <2>1, <3>1, <3>2 DEF Slot!Close
        <3>3. CASE SlotOf(flash) = "none" /\ SlotOf(flash') \in Images
            BY <2>1, <3>1, <3>3 DEF Slot!Fill
        <3> QED BY <1>3, <3>2, <3>3, SlotSteps
    <2>4. CASE running' = "fault"
        <3>1. "overrun" \in validate_fw_image(flash')
            BY <1>3, <2>4 DEF ReceiveFw
        <3>2. ~Bootable(flash')
            BY <3>1 DEF validate_fw_image
        <3>3. SlotOf(flash') = SlotOf(flash)
            BY <1>3, <3>2, SlotSteps, SlotType
        <3> QED BY <2>1, <2>4, <3>3 DEF Slot!Hang
    <2> QED BY <2>2, <2>3, <2>4
<1>4. CASE jump_to_main_app
    BY <1>4, SlotType, ValidIsBootable, ImagesAssumption
       DEF jump_to_main_app, Slot!Launch
<1>5. CASE CheckOverruns \/ (ReceivePacket /\ running' = "fault")
    BY <1>5 DEF CheckOverruns, ReceivePacket, Polling, Slot!Hang
<1>6. CASE FwLengthRes
    BY <1>6 DEF FwLengthRes, Await, bootloading_failed, Slot!Grant
<1>7. CASE SyncMismatch \/ Timeout
    BY <1>7 DEF SyncMismatch, Timeout, bootloading_failed, Slot!Close
<1>8. CASE SyncMatch \/ WaitForFwUpdateReq \/ DeviceIdReq \/ DeviceIdRes \/ FwLengthReq
    BY <1>8 DEF SyncMatch, WaitForFwUpdateReq, DeviceIdReq, DeviceIdRes,
       FwLengthReq, Await, bootloading_failed
<1>9. CASE QuietStep /\ ~(ReceivePacket /\ running' = "fault")
    BY <1>9 DEF QuietStep, comms_update, ReceiveDamaged, ReceivePart, ReceiveRetx,
       ReceiveAck, ReceivePacket, Polling, session, LoseByte, Tick, HostSend, Unmoved,
       vars
<1> QED BY <1>1, <1>2, <1>3, <1>4, <1>5, <1>6, <1>7, <1>8, <1>9
        DEF QuietStep, comms_update, Next, Device, Switch, Done

\* Every behaviour of the bootloader, with any host, on any line and with
\* power failing anywhere, is a behaviour of the slot.
THEOREM Implementation == Spec => ImplementsUpdateSlot
BY SlotInit, SlotNext, Invariance, PTL DEF Spec, Slot!Spec, ImplementsUpdateSlot,
   Slot!slotVars
=============================================================================
