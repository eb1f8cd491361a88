------------------------------ MODULE Updater ------------------------------
(***************************************************************************)
(* The fw-updater on the host (index.ts): the 'data' handler of the serial *)
(* port and the main coroutine, which take turns at every await.  A step   *)
(* writes at most one packet; it is in "written" after the step, and       *)
(* whoever composes the updater with a line takes it from there.  Packets  *)
(* to the device are the records of Bootloader's Packet, packets from it   *)
(* are the names of Bootloader's DevicePackets or "CORRUPT".               *)
(***************************************************************************)
EXTENDS Integers, Sequences

CONSTANTS
    PACKET_DATA_BYTES,
    SYNC_TIMEOUT,           \* DEFAULT_TIMEOUT_MS, in ticks of 1000 ms
    ERASE_DELAY,            \* the three delay(1000) after the length
    VALIDATION_TIMEOUT,     \* 10000 ms
    Files,                  \* the images an operator may name
    FileLength,             \* image -> fwImage.length
    FileDevice              \* image -> the device_id field in it

VARIABLES
    host_state,     \* where main is, in the order of the code
    fwImage,
    byteWritten,
    timeWaited,
    packets,
    lastPacket,
    written

hostVars == <<host_state, fwImage, byteWritten, timeWaited, packets,
              lastPacket, written>>

Single(kind) == [kind |-> kind, length |-> 1, arg |-> 0, from |-> "control"]
NoPacket == [kind |-> "nothing", length |-> 0, arg |-> 0, from |-> "control"]

fwLength == FileLength[fwImage]

\* The states in which main waits for a single byte packet are named for it.
Waiting == {"FW_UPDATE_RES", "DEVICE_ID_REQ", "FW_LENGTH_REQ", "READY_FOR_DATA"}
Ended == {"off", "succeeded", "failed"}

Limit == IF host_state = "validation" THEN VALIDATION_TIMEOUT ELSE SYNC_TIMEOUT

InitHost ==
    /\ host_state = "off"
    /\ fwImage \in Files
    /\ byteWritten = 0 /\ timeWaited = 0
    /\ packets = <<>>
    /\ lastPacket = Single("ACK")
    /\ written = NoPacket

writePacket(p) == written' = p /\ lastPacket' = p
uart_write(p) == written' = p /\ UNCHANGED lastPacket
WriteNothing == written' = NoPacket /\ UNCHANGED lastPacket

\* process.exit(1), an exception, or the end of main.
End(verdict) ==
    /\ host_state' = verdict
    /\ WriteNothing
    /\ UNCHANGED <<fwImage, byteWritten, timeWaited>>

\* The operator starts the tool, for any file, at any time.
Start ==
    /\ host_state \in Ended
    /\ host_state' = "sync"
    /\ fwImage' \in Files
    /\ byteWritten' = 0 /\ timeWaited' = 0
    /\ packets' = <<>>
    /\ lastPacket' = Single("ACK")
    /\ written' = NoPacket

-----------------------------------------------------------------------------
\* Any single byte answer is taken for RETX.
MutantOnData(d) ==
    /\ host_state \notin Ended
    /\ CASE d = "CORRUPT" -> writePacket(Single("RETX")) /\ UNCHANGED packets
         [] d \in {"RETX", "ACK"} -> writePacket(lastPacket) /\ UNCHANGED packets
         [] OTHER -> writePacket(Single("ACK")) /\ packets' = Append(packets, d)
    /\ UNCHANGED <<host_state, fwImage, byteWritten, timeWaited>>

\* uart.on('data'), a packet at a time.  A RETX or an ACK it writes becomes
\* lastPacket as any other packet does.
OnData(d) ==
    /\ host_state \notin Ended
    /\ CASE d = "CORRUPT" -> writePacket(Single("RETX")) /\ UNCHANGED packets
         [] d = "RETX" -> writePacket(lastPacket) /\ UNCHANGED packets
         [] d = "ACK" -> WriteNothing /\ UNCHANGED packets
         [] OTHER -> writePacket(Single("ACK")) /\ packets' = Append(packets, d)
    /\ UNCHANGED <<host_state, fwImage, byteWritten, timeWaited>>

-----------------------------------------------------------------------------
SendSync ==
    /\ host_state = "sync" /\ host_state' = "sync_delay"
    /\ uart_write(Single("SYNC"))
    /\ UNCHANGED <<fwImage, byteWritten, timeWaited, packets>>

\* Nothing happens to host_state but through main.
Enter(s) == host_state' = s /\ timeWaited' = 0

\* The delay is over: what has arrived decides.
CheckSync ==
    /\ host_state = "sync_check"
    /\ \/ /\ packets # <<>> /\ packets' = Tail(packets)
          /\ IF Head(packets) = "SYNC_OBSERVED"
             THEN /\ Enter("FW_UPDATE_RES")
                  /\ writePacket(Single("FW_UPDATE_REQ"))
                  /\ UNCHANGED <<fwImage, byteWritten>>
             ELSE End("failed")
       \/ /\ packets = <<>> /\ UNCHANGED packets
          /\ IF timeWaited >= SYNC_TIMEOUT
             THEN End("failed")
             ELSE /\ host_state' = "sync" /\ WriteNothing
                  /\ UNCHANGED <<fwImage, byteWritten, timeWaited>>

\* waitForSingleBytePacket, and what main does once it returns.
Receive(wanted, Proceed) ==
    /\ host_state = wanted /\ packets # <<>>
    /\ packets' = Tail(packets)
    /\ IF Head(packets) = wanted
       THEN Proceed /\ UNCHANGED fwImage
       ELSE End("failed")

UpdateAccepted ==
    Receive("FW_UPDATE_RES",
            Enter("DEVICE_ID_REQ") /\ WriteNothing /\ UNCHANGED byteWritten)

SendDeviceId ==
    Receive("DEVICE_ID_REQ",
            /\ Enter("FW_LENGTH_REQ") /\ UNCHANGED byteWritten
            /\ writePacket([kind |-> "DEVICE_ID_RES", length |-> 2,
                            arg |-> FileDevice[fwImage], from |-> "control"]))

SendLength ==
    Receive("FW_LENGTH_REQ",
            /\ Enter("erase_delay") /\ UNCHANGED byteWritten
            /\ writePacket([kind |-> "FW_LENGTH_RES", length |-> 5,
                            arg |-> fwLength, from |-> "control"]))

MutantNextChunkSize == PACKET_DATA_BYTES
NextChunkSize ==
    IF fwLength - byteWritten < PACKET_DATA_BYTES
    THEN fwLength - byteWritten ELSE PACKET_DATA_BYTES

\* The length byte of a data packet is one less than what it carries.
SendChunk ==
    Receive("READY_FOR_DATA",
            /\ writePacket([kind |-> "DATA", length |-> NextChunkSize - 1,
                            arg |-> byteWritten, from |-> fwImage])
            /\ byteWritten' = byteWritten + NextChunkSize
            /\ Enter(IF byteWritten' < fwLength THEN "READY_FOR_DATA"
                     ELSE "validation"))

\* Any answer that is not a refusal is taken for success.
MutantVerdict ==
    /\ host_state = "validation" /\ packets # <<>>
    /\ packets' = Tail(packets)
    /\ End(IF Head(packets) # "NACK" THEN "succeeded" ELSE "failed")
Verdict ==
    /\ host_state = "validation" /\ packets # <<>>
    /\ packets' = Tail(packets)
    /\ End(IF Head(packets) = "UPDATE_SUCCESSFUL" THEN "succeeded" ELSE "failed")

MutantWaitForever ==
    /\ host_state \in (Waiting \ {"READY_FOR_DATA"}) \cup {"validation"}
    /\ timeWaited >= Limit
    /\ End("failed")
    /\ UNCHANGED packets
\* The loop of waitForPacket gives up after its last delay, without another
\* look at the queue.
WaitTimeout ==
    /\ host_state \in Waiting \cup {"validation"}
    /\ timeWaited >= Limit
    /\ End("failed")
    /\ UNCHANGED packets

Main ==
    \/ SendSync \/ CheckSync \/ UpdateAccepted \/ SendDeviceId \/ SendLength
    \/ SendChunk \/ Verdict \/ WaitTimeout

\* A tick of 1000 ms: a delay ends, or a wait gets longer.
Elapse ==
    /\ CASE host_state = "sync_delay" ->
                host_state' = "sync_check" /\ timeWaited' = timeWaited + 1
         [] host_state = "erase_delay" ->
                IF timeWaited + 1 >= ERASE_DELAY
                THEN Enter("READY_FOR_DATA")
                ELSE timeWaited' = timeWaited + 1 /\ UNCHANGED host_state
         [] host_state \in Waiting \cup {"validation"} ->
                /\ timeWaited' = IF timeWaited < Limit THEN timeWaited + 1 ELSE Limit
                /\ UNCHANGED host_state
         [] OTHER -> UNCHANGED <<host_state, timeWaited>>
    /\ WriteNothing
    /\ UNCHANGED <<fwImage, byteWritten, packets>>

\* Main has something to do before time passes.
Busy ==
    \/ host_state \in {"sync", "sync_check"}
    \/ host_state \in Waiting \cup {"validation"}
        /\ (packets # <<>> \/ timeWaited >= Limit)
=============================================================================
