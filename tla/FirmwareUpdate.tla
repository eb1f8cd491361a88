--------------------------- MODULE FirmwareUpdate ---------------------------
(***************************************************************************)
(* An update from end to end: the Bootloader, the Updater and the line     *)
(* between them.  What one writes the other receives, in order; a fault of *)
(* the line damages a packet (its CRC then fails) or loses a byte on the   *)
(* way to the device, and the device's power may fail.  The operator       *)
(* starts the updater, for any file, when it is not running.               *)
(*                                                                         *)
(* Time.  A tick is 1000 ms; a packet takes under 2 ms at 115200 baud and  *)
(* the steps of either program far less, so a tick comes only when there   *)
(* is nothing to deliver and nothing to do but wait; and starting the tool *)
(* anew takes long enough for the device to have dealt with what an        *)
(* earlier one wrote.  Two exceptions: an erase takes up to                *)
(* DEFAULT_TIMEOUT ticks, and once framing is lost the two may answer each *)
(* other without end, so time passes meanwhile.                            *)
(***************************************************************************)
EXTENDS Bootloader

CONSTANTS
    ERASE_DELAY, VALIDATION_TIMEOUT, Files, FileDevice,
    FaultKinds,         \* of "damage", "loss", "power", those that may occur
    MaxFaults,          \* bound on how often they do
    MaxSessions         \* bound on the times the updater is started, first or
                        \* after it failed

VARIABLES host_state, fwImage, byteWritten, timeWaited, packets, lastPacket,
          written,
          toHost,       \* packets on their way to the updater
          faults, sessions

Host == INSTANCE Updater
    WITH PACKET_DATA_BYTES <- BLOCK, SYNC_TIMEOUT <- DEFAULT_TIMEOUT,
         FileLength <- ImageLength

hostVars == <<host_state, fwImage, byteWritten, timeWaited, packets, lastPacket,
              written>>
allVars == <<vars, hostVars, toHost, faults, sessions>>

\* All an updater can put on the line, and what becomes of it there.
Damaged(p) == Host!Single(IF p.kind = "SYNC" THEN "BAD_SYNC" ELSE "CORRUPT")
ChunkOf(i, offset) ==
    [kind |-> "DATA", arg |-> offset, from |-> i,
     length |-> (IF ImageLength[i] - offset < BLOCK
                 THEN ImageLength[i] - offset ELSE BLOCK) - 1]
LinePackets ==
    {Host!Single(k) : k \in {"SYNC", "BAD_SYNC", "ACK", "RETX", "CORRUPT",
                             "FW_UPDATE_REQ"}}
        \cup {[kind |-> "DEVICE_ID_RES", length |-> 2, arg |-> FileDevice[i],
               from |-> "control"] : i \in Files}
        \cup {[kind |-> "FW_LENGTH_RES", length |-> 5, arg |-> ImageLength[i],
               from |-> "control"] : i \in Files}
        \cup UNION {{ChunkOf(i, a) : a \in 0..ImageLength[i] - 1} : i \in Files}

ASSUME LineAssumption == Files \subseteq Images /\ LinePackets \subseteq HostPackets

SystemInit ==
    /\ Init /\ Host!InitHost
    /\ toHost = <<>>
    /\ faults = 0 /\ sessions = 0

-----------------------------------------------------------------------------
Fault(kind) ==
    /\ kind \in FaultKinds
    /\ faults < MaxFaults /\ faults' = faults + 1

\* What the device sends reaches the updater's port, or nobody.
DeliverToHost ==
    \/ /\ sent' = "nothing" \/ host_state \in Host!Ended
       /\ UNCHANGED <<toHost, faults>>
    \/ /\ sent' # "nothing" /\ host_state \notin Host!Ended
       /\ \/ toHost' = Append(toHost, sent') /\ UNCHANGED faults
          \/ toHost' = Append(toHost, "CORRUPT") /\ Fault("damage")

DeviceStep(A) ==
    /\ A
    /\ DeliverToHost
    /\ UNCHANGED <<hostVars, sessions>>

\* What the updater writes goes to the bootloader; the application does not
\* speak the protocol.
DeliverToDevice ==
    \/ /\ written' = Host!NoPacket \/ running # "bootloader"
       /\ UNCHANGED <<vars, faults>>
    \/ /\ written' # Host!NoPacket /\ running = "bootloader"
       /\ \/ HostSend(written') /\ UNCHANGED faults
          \/ HostSend(Damaged(written')) /\ Fault("damage")

MainStep ==
    /\ Host!Main
    /\ DeliverToDevice
    /\ UNCHANGED <<toHost, sessions>>

OnData ==
    /\ toHost # <<>> /\ toHost' = Tail(toHost)
    /\ Host!OnData(Head(toHost))
    /\ DeliverToDevice
    /\ UNCHANGED sessions

DeviceWaits ==
    \/ running # "bootloader"
    \/ /\ bootloader_state \notin {"DEVICE_ID_REQ", "FW_LENGTH_REQ", "DONE"}
       /\ rx = <<>> /\ incoming_packet_buffer = <<>>
       /\ ~simple_timer_has_elapsed
Erasing == InState("ERASE_APPLICATION") /\ ~simple_timer_has_elapsed
DeviceQuiet == DeviceWaits \/ Erasing

\* What arrived while no updater had the port open is gone.
Start ==
    /\ sessions < MaxSessions /\ sessions' = sessions + 1
    /\ host_state # "succeeded"
    /\ DeviceQuiet
    /\ Host!Start
    /\ toHost' = <<>>
    /\ UNCHANGED <<vars, faults>>

HostWaits == ~Host!Busy /\ (toHost = <<>> \/ host_state \in Host!Ended)

\* Out of step, the device answers whatever arrives with RETX, and the updater
\* every RETX with its last packet; and once both have sent a RETX last, each
\* answers the other's with its own.  Time goes on meanwhile, also past the device's
\* timeout, which comms_update may keep it from seeing.
EndlessRetx ==
    /\ partial # 0 \/ (last_transmitted_packet = "RETX" /\ lastPacket.kind = "RETX")
    /\ ~Host!Busy
    /\ running = "bootloader" /\ bootloader_state \notin {"SYNC", "DONE"}
    /\ \A n \in 1..Len(toHost) : toHost[n] = "RETX"

Quiet == (HostWaits /\ DeviceQuiet) \/ EndlessRetx

TimePasses ==
    /\ Quiet
    /\ IF running = "bootloader" /\ age < DEFAULT_TIMEOUT THEN Tick ELSE UNCHANGED vars
    /\ Host!Elapse
    /\ UNCHANGED <<toHost, faults, sessions>>

\* Nobody takes bytes from the line while the fault handler runs: of what was
\* sent nothing is left when power comes back.
FaultOnDevice ==
    /\ \/ LoseByte /\ Fault("loss")
       \/ PowerLoss /\ (running = "fault" => rx' = <<>>) /\ Fault("power")
    /\ UNCHANGED <<hostVars, toHost, sessions>>

SystemNext ==
    \/ DeviceStep(Device)
    \/ MainStep \/ OnData \/ Start \/ TimePasses \/ FaultOnDevice

SystemSpec == SystemInit /\ [][SystemNext]_allVars

\* Both programs run, the line delivers, and time passes.  The switch is behind
\* while(uart_data_available()) of comms.c:115: it gets a turn if the line is empty
\* again and again.  Whether it is, is not assumed.
SystemFairness ==
    /\ SF_allVars(DeviceStep(Switch /\ rx = <<>>)) /\ WF_allVars(DeviceStep(Done))
    /\ WF_allVars(DeviceStep(SyncMatch \/ SyncMismatch))
    /\ WF_allVars(DeviceStep(comms_update))
    /\ WF_allVars(MainStep) /\ WF_allVars(OnData) /\ WF_allVars(TimePasses)

FairSystem == SystemSpec /\ SystemFairness

-----------------------------------------------------------------------------
\* To the bootloader the updater, the line and the power supply are one of the
\* environments it was specified for: what is proved of it holds here.
BootloaderSteps == Spec

\* The updater reports success only when the device holds the very image it
\* was given, whatever was damaged, resent, lost or cut off on the way.
SuccessMeansInstalled == host_state = "succeeded" => Verifies(flash, fwImage)

\* The updater never runs ahead of the device: what is sent again for a fault
\* does not fill the device's buffer, so the BKPT of comms.c:162 is out of reach
\* of this host (with as many faults as MaxFaults allows).
BufferNeverFull == ~BufferFull

\* The updater always comes to a verdict, whatever it is or is not sent.
UpdaterEnds ==
    host_state = "sync" ~> host_state \in {"succeeded", "failed"}

Installable ==
    /\ fwImage \in Signed \cap ForDevice
    /\ ImageLength[fwImage] <= MAX_FW_LENGTH
    /\ ImageLength[fwImage] % BLOCK \notin {0, 1}
StartsInTime ==
    /\ host_state = "sync" /\ timeWaited = 0
    /\ InState("SYNC") /\ ~simple_timer_has_elapsed
    /\ rx = <<>> /\ toHost = <<>> /\ packets = <<>>

\* An updater that is started while the device listens for SYNC and meets no
\* fault from then on installs its image and the device runs it, also after an
\* attempt that failed, from whatever that one left in flash.
UpdateCompletes ==
    \A f \in 0..MaxFaults :
        /\ (StartsInTime /\ Installable /\ faults = f)
                ~> (faults > f \/ host_state = "succeeded")
        /\ (host_state = "succeeded" /\ faults = f)
                ~> (faults > f \/ running = "app")

-----------------------------------------------------------------------------
\* Claims of the documentation and of comments.

\* index.ts:5: "firmware binary chunks can be transferred reliably with CRC-8
\* error detection and automatic retransmission on corruption".
DamageIsRepaired == (StartsInTime /\ Installable) ~> host_state = "succeeded"

\* DOCUMENTATION.md:241: the length byte is the "number of meaningful payload
\* bytes (1-16)", so a last chunk of a single byte is as good as any other.
AnyLastChunkInstalls ==
    ( /\ StartsInTime
      /\ fwImage \in Signed \cap ForDevice
      /\ ImageLength[fwImage] <= MAX_FW_LENGTH
      /\ ImageLength[fwImage] % BLOCK # 0 )
        ~> host_state = "succeeded"
=============================================================================
