------------------------ MODULE FirmwareUpdateProofs ------------------------
(***************************************************************************)
(* What is proved of the bootloader in any environment carries over to the *)
(* update from end to end: the updater writes packets of HostPackets only, *)
(* so every step of the system is a step of Bootloader or leaves its       *)
(* variables alone.                                                        *)
(*                                                                         *)
(* Of the two together it is proved that the updater reports success only  *)
(* when its own image is installed: the order of the packets on the line   *)
(* keeps what is left over from an earlier run apart.                      *)
(***************************************************************************)
EXTENDS FirmwareUpdate, BootloaderProofs

\* Where main has got to determines how much of the image it has sent, and
\* what it would send again is a packet of the line.
HostInv ==
    /\ fwImage \in Files
    /\ byteWritten \in Nat
    /\ host_state \notin Host!Ended \cup {"validation"}
        => byteWritten < ImageLength[fwImage]
    /\ lastPacket \in LinePackets

\* What a step of the updater hands to the line.
WritesLinePacket == written' \in LinePackets \cup {Host!NoPacket}

LEMMA FileLengths ==
    ASSUME NEW i \in Files
    PROVE  i \in Images /\ ImageLength[i] \in Nat /\ ImageLength[i] > 0
BY LineAssumption, ImagesAssumption, LayoutAssumption, BlockAssumption

\* The packets of a single byte, and the sync sequence.
LEMMA SinglePackets ==
    ASSUME NEW k \in {"SYNC", "BAD_SYNC", "ACK", "RETX", "CORRUPT", "FW_UPDATE_REQ"}
    PROVE  Host!Single(k) \in LinePackets
BY DEF LinePackets

\* The next chunk of the image, the last one included.
LEMMA ChunkPackets ==
    ASSUME HostInv, byteWritten < ImageLength[fwImage]
    PROVE  /\ [kind |-> "DATA", length |-> Host!NextChunkSize - 1,
               arg |-> byteWritten, from |-> fwImage] \in LinePackets
           /\ Host!NextChunkSize \in Nat
<1>1. fwImage \in Files /\ byteWritten \in 0..ImageLength[fwImage] - 1
    BY FileLengths DEF HostInv
<1>2. [kind |-> "DATA", length |-> Host!NextChunkSize - 1,
       arg |-> byteWritten, from |-> fwImage] = ChunkOf(fwImage, byteWritten)
    BY DEF ChunkOf, Host!NextChunkSize, Host!fwLength
<1>3. ChunkOf(fwImage, byteWritten) \in LinePackets
    BY <1>1 DEF LinePackets
<1>4. Host!NextChunkSize \in Nat
    BY <1>1, FileLengths, BlockAssumption DEF Host!NextChunkSize, Host!fwLength
<1> QED BY <1>2, <1>3, <1>4

\* Main answers what it is asked, and nothing else.
LEMMA MainHost ==
    ASSUME HostInv, Host!Main
    PROVE  HostInv' /\ WritesLinePacket
<1> USE DEF HostInv, WritesLinePacket, Host!Ended, Host!Enter, Host!End,
            Host!WriteNothing, Host!writePacket
<1>single. \A k \in {"SYNC", "ACK", "RETX", "CORRUPT", "FW_UPDATE_REQ"} :
             Host!Single(k) \in LinePackets
    BY SinglePackets
<1>1. CASE Host!SendSync
    BY <1>1, <1>single DEF Host!SendSync, Host!uart_write
<1>2. CASE Host!CheckSync
    BY <1>2, <1>single DEF Host!CheckSync
<1>3. CASE Host!UpdateAccepted
    BY <1>3 DEF Host!UpdateAccepted, Host!Receive
<1>4. CASE Host!SendDeviceId
    <2>1. [kind |-> "DEVICE_ID_RES", length |-> 2, arg |-> FileDevice[fwImage],
           from |-> "control"] \in LinePackets
        BY DEF LinePackets
    <2> QED BY <1>4, <2>1 DEF Host!SendDeviceId, Host!Receive
<1>5. CASE Host!SendLength
    <2>1. [kind |-> "FW_LENGTH_RES", length |-> 5, arg |-> Host!fwLength,
           from |-> "control"] \in LinePackets
        BY DEF LinePackets, Host!fwLength
    <2> QED BY <1>5, <2>1 DEF Host!SendLength, Host!Receive
<1>6. CASE Host!SendChunk
    <2>1. byteWritten < ImageLength[fwImage]
        BY <1>6 DEF Host!SendChunk, Host!Receive
    <2>2. CASE Head(packets) = "READY_FOR_DATA"
        <3>1. /\ written' \in LinePackets /\ lastPacket' = written'
              /\ byteWritten' \in Nat
            BY <1>6, <2>1, <2>2, ChunkPackets DEF Host!SendChunk, Host!Receive
        <3>2. /\ fwImage' = fwImage
              /\ byteWritten' < Host!fwLength \/ host_state' = "validation"
            BY <1>6, <2>2 DEF Host!SendChunk, Host!Receive
        <3> QED BY <3>1, <3>2 DEF Host!fwLength
    <2>3. CASE Head(packets) # "READY_FOR_DATA"
        BY <1>6, <2>3 DEF Host!SendChunk, Host!Receive
    <2> QED BY <2>2, <2>3
<1>7. CASE Host!Verdict
    BY <1>7 DEF Host!Verdict
<1>8. CASE Host!WaitTimeout
    BY <1>8 DEF Host!WaitTimeout
<1> QED BY <1>1, <1>2, <1>3, <1>4, <1>5, <1>6, <1>7, <1>8 DEF Host!Main

\* The 'data' handler acknowledges, asks again or sends again.
LEMMA OnDataHost ==
    ASSUME HostInv, NEW d, Host!OnData(d)
    PROVE  HostInv' /\ WritesLinePacket
<1>1. Host!Single("RETX") \in LinePackets /\ Host!Single("ACK") \in LinePackets
    BY SinglePackets
<1>2. /\ UNCHANGED <<host_state, fwImage, byteWritten>>
      /\ \/ written' \in LinePackets /\ lastPacket' = written'
         \/ written' = Host!NoPacket /\ UNCHANGED lastPacket
    BY <1>1 DEF HostInv, Host!OnData, Host!writePacket, Host!WriteNothing
<1> QED BY <1>2 DEF HostInv, WritesLinePacket

LEMMA StartHost ==
    ASSUME Host!Start
    PROVE  HostInv'
<1>1. fwImage' \in Files /\ byteWritten' = 0 /\ lastPacket' \in LinePackets
    BY SinglePackets DEF Host!Start
<1> QED BY <1>1, FileLengths DEF HostInv

LEMMA ElapseHost ==
    ASSUME HostInv, Host!Elapse
    PROVE  HostInv'
BY DEF HostInv, Host!Elapse, Host!Enter, Host!WriteNothing, Host!Ended, Host!Waiting

\* A packet of the line, or a damaged one, is one the bootloader's environment
\* may send.
LEMMA DeliveredPacket ==
    ASSUME WritesLinePacket, DeliverToDevice
    PROVE  [Next]_vars
<1>1. Damaged(written') \in HostPackets
    <2>1. CASE written'.kind = "SYNC"
        <3>1. Damaged(written') = Host!Single("BAD_SYNC")
            BY <2>1 DEF Damaged
        <3> QED BY <3>1, SinglePackets, LineAssumption
    <2>2. CASE written'.kind # "SYNC"
        <3>1. Damaged(written') = Host!Single("CORRUPT")
            BY <2>2 DEF Damaged
        <3> QED BY <3>1, SinglePackets, LineAssumption
    <2> QED BY <2>1, <2>2
<1>2. CASE UNCHANGED vars
    BY <1>2
<1>3. CASE HostSend(written') /\ written' # Host!NoPacket
    <2>1. written' \in HostPackets
        BY <1>3, LineAssumption DEF WritesLinePacket
    <2> QED BY <1>3, <2>1 DEF Next
<1>4. CASE HostSend(Damaged(written'))
    BY <1>1, <1>4 DEF Next
<1> QED BY <1>2, <1>3, <1>4 DEF DeliverToDevice

LEMMA SystemStep ==
    ASSUME HostInv, [SystemNext]_allVars
    PROVE  HostInv' /\ [Next]_vars
<1>0. ASSUME UNCHANGED hostVars
      PROVE  HostInv'
    BY <1>0 DEF hostVars, HostInv
<1>1. CASE DeviceStep(Device)
    BY <1>0, <1>1 DEF DeviceStep, Next
<1>2. CASE MainStep
    BY <1>2, MainHost, DeliveredPacket DEF MainStep
<1>3. CASE OnData
    BY <1>3, OnDataHost, DeliveredPacket DEF OnData
<1>4. CASE Start
    BY <1>4, StartHost DEF Start
<1>5. CASE TimePasses
    <2>1. Tick \/ UNCHANGED vars
        BY <1>5 DEF TimePasses
    <2> QED BY <1>5, <2>1, ElapseHost DEF TimePasses, Next
<1>6. CASE FaultOnDevice
    BY <1>0, <1>6 DEF FaultOnDevice, Next
<1>7. CASE UNCHANGED allVars
    BY <1>0, <1>7 DEF allVars
<1> QED BY <1>1, <1>2, <1>3, <1>4, <1>5, <1>6, <1>7 DEF SystemNext

LEMMA HostInit == SystemInit => HostInv
BY SinglePackets, FileLengths DEF SystemInit, Host!InitHost, HostInv, Host!Ended

\* Updater, line and power supply are an environment of Bootloader, for every
\* image, every number of sessions and every pattern of faults.
THEOREM Environment == SystemSpec => BootloaderSteps
<1>1. SystemInit => Init
    BY DEF SystemInit
<1>2. HostInv /\ [SystemNext]_allVars => HostInv' /\ [Next]_vars
    BY SystemStep
<1> QED BY <1>1, <1>2, HostInit, PTL DEF SystemSpec, BootloaderSteps, Spec

\* With an updater on the line too, only a whole signed image is ever run.
THEOREM SystemRunsIntactImages == SystemSpec => []OnlyIntactImagesRun
BY Environment, IntactImagesRun, PTL DEF BootloaderSteps

\* Whatever the updater does, it costs the device its image only by the erase
\* of a session in which it named this device and a length that fits.
THEOREM SystemKeepsImages == SystemSpec => ImageLostOnlyByErase
BY Environment, ImageSurvives, PTL DEF BootloaderSteps

-----------------------------------------------------------------------------
(* SuccessMeansInstalled.                                                  *)
(*                                                                         *)
(* The updater believes the first UPDATE_SUCCESSFUL that reaches it in     *)
(* validation.  That it comes from a device that has written this          *)
(* updater's image, and no piece of one an earlier updater was sending,    *)
(* hangs on the order of the packets on the line: on what may lie behind   *)
(* a SYNC, and on when the updater hears its SYNC_OBSERVED.                *)

Syncing == {"sync", "sync_delay", "sync_check"}
Linked == Host!Waiting \cup {"erase_delay", "validation"}
Replies == DevicePackets \cup {"CORRUPT"}

\* A packet that announces a firmware or carries a piece of one.
AboutImage(p) == p.kind = "FW_LENGTH_RES" \/ p.from # "control"
OwnPacket(p, i) == p.from \in {i, "control"}

NoSync(q) == \A n \in 1..Len(q) : q[n].kind # "SYNC"
NoImage(q) == \A n \in 1..Len(q) : ~AboutImage(q[n])
AllOwn(q, i) == \A n \in 1..Len(q) : OwnPacket(q[n], i)
NoImageBehindSync(q) ==
    \A m, n \in 1..Len(q) : m < n /\ q[m].kind = "SYNC" => ~AboutImage(q[n])
NoSyncBehindImage(q) ==
    \A m, n \in 1..Len(q) : m < n /\ AboutImage(q[m]) => q[n].kind # "SYNC"
NoSyncImageSync(q) ==
    \A l, m, n \in 1..Len(q) :
        l < m /\ m < n /\ q[l].kind = "SYNC" /\ AboutImage(q[m]) => q[n].kind # "SYNC"

\* The updater queues no packet of these.
Ignored == {"ACK", "RETX", "CORRUPT"}

\* SYNC_OBSERVED is the next packet the updater in sync will look at.
Greeting ==
    \/ packets # <<>> /\ Head(packets) = "SYNC_OBSERVED"
    \/ /\ packets = <<>>
       /\ \E n \in 1..Len(toHost) :
            /\ toHost[n] = "SYNC_OBSERVED"
            /\ \A m \in 1..n - 1 : toHost[m] \in Ignored
Greeted == host_state \in Linked \/ (host_state \in Syncing /\ Greeting)

Holds(q, x) == \E n \in 1..Len(q) : q[n] = x
Reported == Holds(packets, "UPDATE_SUCCESSFUL") \/ Holds(toHost, "UPDATE_SUCCESSFUL")
Told == (Greeted /\ Reported) \/ host_state = "succeeded"

Handshake == {"WAIT_FOR_FW_UPDATE_REQ", "DEVICE_ID_REQ", "DEVICE_ID_RES",
              "FW_LENGTH_REQ", "FW_LENGTH_RES"}
Up == running = "bootloader"
Granted == Up /\ bootloader_state \in {"ERASE_APPLICATION", "RECEIVE_FW"}

\* The queues hold answers of the device; until it is greeted the updater
\* has nothing to say of its image, and it never repeats a SYNC.
QueuesOK ==
    /\ host_state \in Syncing \cup Linked \cup Host!Ended
    /\ toHost \in Seq(Replies) /\ packets \in Seq(Replies)
    /\ lastPacket.kind # "SYNC" /\ OwnPacket(lastPacket, fwImage)
    /\ host_state \in Syncing => ~AboutImage(lastPacket)

\* What the device's own state says of its queues.
DeviceOK ==
    /\ Up /\ bootloader_state = "SYNC" => incoming_packet_buffer = <<>>
    /\ running = "app" => rx = <<>>
    /\ Up /\ last_transmitted_packet = "SYNC_OBSERVED"
        => bootloader_state = "WAIT_FOR_FW_UPDATE_REQ"

\* The order of packets on the line: behind a SYNC there is an image only if
\* the updater that sent the SYNC runs or was the last to run.
LineOK ==
    /\ Up => NoSyncImageSync(rx)
    /\ Up /\ host_state \in Syncing => NoImageBehindSync(rx)
    /\ Up /\ bootloader_state \in Handshake
        => /\ NoSyncBehindImage(rx)
           /\ NoImage(incoming_packet_buffer) \/ NoSync(rx)
    /\ Up /\ bootloader_state \in Handshake /\ host_state \in Syncing
        => NoImage(rx) /\ NoImage(incoming_packet_buffer)
    /\ Up /\ bootloader_state = "ERASE_APPLICATION" => NoImageBehindSync(rx)
    /\ Granted /\ host_state \in Linked => NoSync(rx)

\* Once greeted, the updater is the only one whose image the device is sent,
\* and what the session has written is that image or noise.
OwnSession ==
    /\ Granted /\ host_state \in Syncing => ~Greeting
    /\ Up /\ Greeted => AllOwn(rx, fwImage) /\ AllOwn(incoming_packet_buffer, fwImage)
    /\ Up /\ Greeted /\ bootloader_state = "RECEIVE_FW"
        => \A a \in 0..AREA - 1 :
              flash[a] \in {Erased, Noise} \cup ({fwImage} \X Nat)

\* Once told, the image is there, and with no SYNC on the way the device
\* never gets to another erase.
ToldOK ==
    Told => /\ Verifies(flash, fwImage)
            /\ host_state \notin Syncing
            /\ Up => bootloader_state \in {"SYNC", "DONE"} /\ NoSync(rx)

InstalledInv == HostInv /\ IInv /\ QueuesOK /\ DeviceOK /\ LineOK /\ OwnSession /\ ToldOK

-----------------------------------------------------------------------------
(* The order of a queue survives what may happen to it.                    *)

\* Packets are taken from the front, and those that are left may be cut short.
Follows(new, old) ==
    \E k \in 0..Len(old) :
        /\ Len(new) = Len(old) - k
        /\ \A n \in 1..Len(new) :
              new[n] = old[n + k] \/ (new[n].kind = "SHORT" /\ new[n].from = "control")

LEMMA FollowsNothing ==
    ASSUME NEW S, NEW old \in Seq(S)
    PROVE  Follows(<<>>, old) /\ Follows(old, old)
<1>1. Len(old) \in Nat /\ Len(<<>>) = 0
    BY LenProperties, EmptySeq
<1> QED BY <1>1 DEF Follows

LEMMA FollowsTail ==
    ASSUME NEW S, NEW old \in Seq(S), old # <<>>
    PROVE  Follows(Tail(old), old)
<1>1. /\ Len(old) \in Nat \ {0} /\ Len(Tail(old)) = Len(old) - 1
      /\ \A n \in 1..Len(Tail(old)) : Tail(old)[n] = old[n + 1]
    BY HeadTailProperties, EmptySeq
<1> QED BY <1>1 DEF Follows

LEMMA FollowsSuffix ==
    ASSUME NEW S, NEW old \in Seq(S), NEW k \in 0..Len(old)
    PROVE  Follows(SubSeq(old, k + 1, Len(old)), old)
<1>1. Len(old) \in Nat /\ \A i \in k + 1..Len(old) : old[i] \in S
    BY LenProperties, ElementOfSeq
<1>2. /\ Len(SubSeq(old, k + 1, Len(old))) = Len(old) - k
      /\ \A n \in 1..Len(old) - k : SubSeq(old, k + 1, Len(old))[n] = old[n + k]
    BY <1>1, SubSeqProperties
<1> QED BY <1>1, <1>2 DEF Follows

\* Whatever is ordered stays so as packets go.
LEMMA OrderFollows ==
    ASSUME NEW S, NEW old \in Seq(S), NEW new, NEW i, Follows(new, old)
    PROVE  /\ NoSync(old) => NoSync(new)
           /\ NoImage(old) => NoImage(new)
           /\ AllOwn(old, i) => AllOwn(new, i)
           /\ NoImageBehindSync(old) => NoImageBehindSync(new)
           /\ NoSyncBehindImage(old) => NoSyncBehindImage(new)
           /\ NoSyncImageSync(old) => NoSyncImageSync(new)
<1>1. PICK k \in 0..Len(old) :
        /\ Len(new) = Len(old) - k
        /\ \A n \in 1..Len(new) :
              new[n] = old[n + k] \/ (new[n].kind = "SHORT" /\ new[n].from = "control")
    BY DEF Follows
<1>2. Len(old) \in Nat /\ Len(new) \in Nat
    BY <1>1, LenProperties
<1>3. ASSUME NEW n \in 1..Len(new)
      PROVE  /\ n + k \in 1..Len(old)
             /\ new[n].kind = "SYNC" => old[n + k].kind = "SYNC"
             /\ AboutImage(new[n]) => AboutImage(old[n + k])
             /\ OwnPacket(old[n + k], i) => OwnPacket(new[n], i)
    BY <1>1, <1>2 DEF AboutImage, OwnPacket
<1>4. \A m, n \in 1..Len(new) : m < n => m + k < n + k
    BY <1>1, <1>2
<1>5. /\ NoSync(old) => NoSync(new)
      /\ NoImage(old) => NoImage(new)
      /\ AllOwn(old, i) => AllOwn(new, i)
    BY <1>3 DEF NoSync, NoImage, AllOwn
<1>6. /\ NoImageBehindSync(old) => NoImageBehindSync(new)
      /\ NoSyncBehindImage(old) => NoSyncBehindImage(new)
    BY <1>3, <1>4 DEF NoImageBehindSync, NoSyncBehindImage
<1>7. NoSyncImageSync(old) => NoSyncImageSync(new)
    BY <1>3, <1>4 DEF NoSyncImageSync
<1> QED BY <1>5, <1>6, <1>7

LEMMA AppendIndex ==
    ASSUME NEW S, NEW q \in Seq(S), NEW e
    PROVE  /\ Len(q) \in Nat
           /\ Len(Append(q, e)) = Len(q) + 1
           /\ \A n \in 1..Len(q) : Append(q, e)[n] = q[n]
           /\ Append(q, e)[Len(q) + 1] = e
<1>1. q \in Seq(S \cup {e}) /\ Len(q) \in Nat
    BY SeqMonotonic, LenProperties
<1> QED BY <1>1, AppendProperties

\* What may be added at the end.
LEMMA OrderAppend ==
    ASSUME NEW S, NEW q \in Seq(S), NEW p, NEW i
    PROVE  /\ NoSync(q) /\ p.kind # "SYNC" => NoSync(Append(q, p))
           /\ NoImage(q) /\ ~AboutImage(p) => NoImage(Append(q, p))
           /\ AllOwn(q, i) /\ OwnPacket(p, i) => AllOwn(Append(q, p), i)
           /\ NoImageBehindSync(q) /\ (AboutImage(p) => NoSync(q))
                => NoImageBehindSync(Append(q, p))
           /\ NoSyncBehindImage(q) /\ (p.kind = "SYNC" => NoImage(q))
                => NoSyncBehindImage(Append(q, p))
           /\ NoSyncImageSync(q) /\ (p.kind = "SYNC" => NoImageBehindSync(q))
                => NoSyncImageSync(Append(q, p))
<1> DEFINE r == Append(q, p)
<1>1. /\ Len(q) \in Nat /\ Len(r) = Len(q) + 1
      /\ \A n \in 1..Len(q) : r[n] = q[n]
      /\ r[Len(q) + 1] = p
    BY AppendIndex
<1> HIDE DEF r
<1>2. \A n \in 1..Len(r) : n \in 1..Len(q) \/ n = Len(r)
    BY <1>1
<1>3. \A m, n \in 1..Len(r) : m < n => m \in 1..Len(q)
    BY <1>1
<1>4. r[Len(r)] = p
    BY <1>1
<1>5. /\ NoSync(q) /\ p.kind # "SYNC" => NoSync(r)
      /\ NoImage(q) /\ ~AboutImage(p) => NoImage(r)
      /\ AllOwn(q, i) /\ OwnPacket(p, i) => AllOwn(r, i)
    BY <1>1, <1>2, <1>4 DEF NoSync, NoImage, AllOwn
<1>6. NoImageBehindSync(q) /\ (AboutImage(p) => NoSync(q)) => NoImageBehindSync(r)
    BY <1>1, <1>2, <1>3, <1>4 DEF NoImageBehindSync, NoSync
<1>7. NoSyncBehindImage(q) /\ (p.kind = "SYNC" => NoImage(q)) => NoSyncBehindImage(r)
    BY <1>1, <1>2, <1>3, <1>4 DEF NoSyncBehindImage, NoImage
<1>8. NoSyncImageSync(q) /\ (p.kind = "SYNC" => NoImageBehindSync(q)) => NoSyncImageSync(r)
    BY <1>1, <1>2, <1>3, <1>4 DEF NoSyncImageSync, NoImageBehindSync
<1> QED BY <1>5, <1>6, <1>7, <1>8 DEF r

LEMMA OrderTrivial ==
    ASSUME NEW i
    PROVE  /\ NoSync(<<>>) /\ NoImage(<<>>) /\ AllOwn(<<>>, i)
           /\ NoImageBehindSync(<<>>) /\ NoSyncBehindImage(<<>>)
           /\ NoSyncImageSync(<<>>)
           /\ \A q : NoImage(q) => AllOwn(q, i) /\ NoSyncBehindImage(q)
           /\ \A q : NoSync(q) => NoImageBehindSync(q)
BY EmptySeq DEF NoSync, NoImage, AllOwn, NoImageBehindSync, NoSyncBehindImage,
   NoSyncImageSync, AboutImage, OwnPacket

-----------------------------------------------------------------------------
(* The steps of the updater.                                               *)

\* Before it is greeted it says nothing of an image, after that no SYNC.
Says(p) ==
    \/ /\ host_state \in Syncing /\ ~AboutImage(p)
       /\ p.kind = "SYNC" => host_state' \in Syncing
    \/ host_state \in Linked /\ p.kind # "SYNC"

\* The device stays as it is, but for a packet on its line.
HostStep ==
    /\ UNCHANGED <<running, bootloader_state, incoming_packet_buffer,
                   last_transmitted_packet, flash, fwImage>>
    /\ \/ rx' = rx
       \/ \E p : Up /\ rx' = Append(rx, p) /\ OwnPacket(p, fwImage) /\ Says(p)
    /\ host_state' \in Syncing => host_state \in Syncing
    /\ host_state' \in Linked => Greeted
    /\ Greeted' => Greeted
    /\ Told' => Told

LEMMA HostStepKeeps ==
    ASSUME InstalledInv, HostStep
    PROVE  DeviceOK' /\ LineOK' /\ OwnSession' /\ ToldOK'
<1>seq. rx \in Seq(OnTheWire)
    BY DEF InstalledInv, IInv, TypeOK
<1>disjoint. Syncing \cap Linked = {}
    BY DEF Syncing, Linked, Host!Waiting
<1>same. /\ UNCHANGED <<running, bootloader_state, incoming_packet_buffer,
                        last_transmitted_packet, flash, fwImage>>
         /\ Up' = Up /\ Granted' = Granted
    BY DEF HostStep, Up, Granted
<1>greeted. /\ host_state \in Syncing => (Greeted <=> Greeting)
            /\ host_state' \in Syncing => (Greeted' <=> Greeting')
            /\ Granted /\ Greeted => host_state \in Linked
    BY <1>disjoint DEF Greeted, InstalledInv, OwnSession
<1>1. DeviceOK'
    BY <1>same DEF InstalledInv, DeviceOK, HostStep, Up
<1>2. CASE rx' = rx
    <2>1. LineOK'
        BY <1>same, <1>greeted, <1>2 DEF InstalledInv, LineOK, HostStep
    <2>2. OwnSession'
        BY <1>same, <1>greeted, <1>2 DEF InstalledInv, OwnSession, HostStep
    <2>3. ToldOK'
        BY <1>same, <1>2 DEF InstalledInv, ToldOK, HostStep
    <2> QED BY <1>1, <2>1, <2>2, <2>3
<1>3. ASSUME NEW p, Up, rx' = Append(rx, p), OwnPacket(p, fwImage), Says(p)
      PROVE  LineOK' /\ OwnSession' /\ ToldOK'
    <2>1. /\ NoSync(rx) /\ p.kind # "SYNC" => NoSync(rx')
          /\ NoImage(rx) /\ ~AboutImage(p) => NoImage(rx')
          /\ AllOwn(rx, fwImage) => AllOwn(rx', fwImage)
          /\ NoImageBehindSync(rx) /\ (AboutImage(p) => NoSync(rx))
               => NoImageBehindSync(rx')
          /\ NoSyncBehindImage(rx) /\ (p.kind = "SYNC" => NoImage(rx))
               => NoSyncBehindImage(rx')
          /\ NoSyncImageSync(rx) /\ (p.kind = "SYNC" => NoImageBehindSync(rx))
               => NoSyncImageSync(rx')
        BY <1>seq, <1>3, OrderAppend
    <2>2. /\ p.kind = "SYNC" => host_state \in Syncing
          /\ AboutImage(p) => host_state \in Linked
          /\ host_state' \in Linked => p.kind # "SYNC"
          /\ host_state \notin Syncing => p.kind # "SYNC"
        BY <1>3, <1>disjoint DEF Says
    <2>3. Granted => (host_state \in Linked => NoSync(rx))
        BY DEF InstalledInv, LineOK
    <2>4. Up => NoSyncImageSync(rx')
        BY <2>1, <2>2 DEF InstalledInv, LineOK
    <2>5. Up /\ host_state' \in Syncing => NoImageBehindSync(rx')
        BY <2>1, <2>2, <1>disjoint DEF InstalledInv, LineOK, HostStep
    <2>6. Up /\ bootloader_state \in Handshake
            => /\ NoSyncBehindImage(rx')
               /\ NoImage(incoming_packet_buffer) \/ NoSync(rx')
        BY <2>1, <2>2 DEF InstalledInv, LineOK
    <2>7. Up /\ bootloader_state \in Handshake /\ host_state' \in Syncing
            => NoImage(rx') /\ NoImage(incoming_packet_buffer)
        BY <2>1, <2>2, <1>disjoint DEF InstalledInv, LineOK, HostStep
    <2>8. Up /\ bootloader_state = "ERASE_APPLICATION" => NoImageBehindSync(rx')
        BY <2>1, <2>2, <2>3 DEF InstalledInv, LineOK, Granted
    <2>9. Granted /\ host_state' \in Linked => NoSync(rx')
        BY <2>1, <2>2, <2>3, <1>greeted DEF HostStep
    <2>10. LineOK'
        BY <2>4, <2>5, <2>6, <2>7, <2>8, <2>9, <1>same DEF LineOK
    <2>11. OwnSession'
        BY <2>1, <1>same, <1>greeted DEF InstalledInv, OwnSession, HostStep
    <2>12. ToldOK'
        BY <2>1, <2>2, <1>same DEF InstalledInv, ToldOK, HostStep
    <2> QED BY <2>10, <2>11, <2>12
<1> QED BY <1>1, <1>2, <1>3 DEF HostStep

LEMMA HoldsQueue ==
    ASSUME NEW S, NEW q \in Seq(S), NEW e, NEW x
    PROVE  /\ Holds(Append(q, e), x) => Holds(q, x) \/ e = x
           /\ q # <<>> /\ Holds(Tail(q), x) => Holds(q, x)
           /\ q # <<>> /\ Head(q) = x => Holds(q, x)
           /\ ~Holds(<<>>, x)
<1>1. Holds(Append(q, e), x) => Holds(q, x) \/ e = x
    <2>1. \A n \in 1..Len(Append(q, e)) :
            (n \in 1..Len(q) /\ Append(q, e)[n] = q[n]) \/ Append(q, e)[n] = e
        BY AppendIndex
    <2> QED BY <2>1 DEF Holds
<1>2. ASSUME q # <<>>
      PROVE  /\ Holds(Tail(q), x) => Holds(q, x)
             /\ Head(q) = x => Holds(q, x)
    <2>1. /\ Len(q) \in Nat \ {0} /\ Len(Tail(q)) = Len(q) - 1
          /\ \A n \in 1..Len(Tail(q)) : Tail(q)[n] = q[n + 1]
        BY <1>2, HeadTailProperties, EmptySeq
    <2>2. \A n \in 1..Len(Tail(q)) : n + 1 \in 1..Len(q)
        BY <2>1
    <2>3. 1 \in 1..Len(q) /\ Head(q) = q[1]
        BY <1>2, <2>1
    <2> QED BY <2>1, <2>2, <2>3 DEF Holds
<1>3. ~Holds(<<>>, x)
    BY EmptySeq DEF Holds
<1> QED BY <1>1, <1>2, <1>3

\* What the line makes of a packet.
LEMMA Delivery ==
    ASSUME DeliverToDevice
    PROVE  /\ UNCHANGED <<running, bootloader_state, incoming_packet_buffer,
                          last_transmitted_packet, flash>>
           /\ \/ rx' = rx
              \/ /\ Up /\ written' # Host!NoPacket
                 /\ \E p :
                      /\ rx' = Append(rx, p)
                      /\ p.kind = "SYNC" => written'.kind = "SYNC"
                      /\ AboutImage(p) => AboutImage(written')
                      /\ \A i : OwnPacket(written', i) => OwnPacket(p, i)
<1>1. CASE UNCHANGED vars
    BY <1>1 DEF vars, session, comms, line
<1>2. ASSUME running = "bootloader", written' # Host!NoPacket, NEW p, HostSend(p),
             p \in {written', Damaged(written')}
      PROVE  /\ UNCHANGED <<running, bootloader_state, incoming_packet_buffer,
                            last_transmitted_packet, flash>>
             /\ Up /\ rx' = Append(rx, p)
             /\ p.kind = "SYNC" => written'.kind = "SYNC"
             /\ AboutImage(p) => AboutImage(written')
             /\ \A i : OwnPacket(written', i) => OwnPacket(p, i)
    BY <1>2 DEF HostSend, Unmoved, Up, Damaged, Host!Single, AboutImage, OwnPacket
<1> QED BY <1>1, <1>2 DEF DeliverToDevice

\* What becomes of the packets the updater has queued.
Reads ==
    \/ host_state \in Syncing /\ host_state' \in Syncing /\ UNCHANGED packets
    \/ /\ Greeted /\ packets # <<>> /\ packets' = Tail(packets)
       /\ host_state' \in Linked
    \/ host_state' = "failed" /\ packets' \in {packets, Tail(packets)}
    \/ /\ host_state \in Linked /\ host_state' = "succeeded"
       /\ packets # <<>> /\ Head(packets) = "UPDATE_SUCCESSFUL"

\* What main puts on the line, and what it keeps for a RETX.
Writes ==
    /\ fwImage' = fwImage
    /\ \/ written' = Host!NoPacket
       \/ OwnPacket(written', fwImage) /\ Says(written')
    /\ lastPacket'.kind # "SYNC" /\ OwnPacket(lastPacket', fwImage)
    /\ host_state' \in Syncing => ~AboutImage(lastPacket')

LEMMA MainReads ==
    ASSUME InstalledInv, Host!Main
    PROVE  Reads /\ packets' \in Seq(Replies)
<1>type. packets \in Seq(Replies) /\ (packets # <<>> => Tail(packets) \in Seq(Replies))
    BY HeadTailProperties DEF InstalledInv, QueuesOK
<1>1. Reads
    BY DEF Host!Main, Host!SendSync, Host!CheckSync, Host!UpdateAccepted,
       Host!SendDeviceId, Host!SendLength, Host!SendChunk, Host!Verdict,
       Host!WaitTimeout, Host!Receive, Host!Enter, Host!End, Reads, Greeted, Greeting,
       Syncing, Linked, Host!Waiting
<1>2. packets' = packets \/ (packets # <<>> /\ packets' = Tail(packets))
    BY DEF Host!Main, Host!SendSync, Host!CheckSync, Host!UpdateAccepted,
       Host!SendDeviceId, Host!SendLength, Host!SendChunk, Host!Verdict,
       Host!WaitTimeout, Host!Receive
<1> QED BY <1>type, <1>1, <1>2

LEMMA MainWrites ==
    ASSUME InstalledInv, Host!Main
    PROVE  Writes
<1> USE DEF Host!Enter, Host!End, Host!WriteNothing, Host!writePacket,
            Host!uart_write, Host!Single, Writes, Says, OwnPacket, AboutImage,
            Syncing, Linked, Host!Waiting
<1>last. /\ lastPacket.kind # "SYNC" /\ OwnPacket(lastPacket, fwImage)
         /\ host_state \in Syncing => ~AboutImage(lastPacket)
    BY DEF InstalledInv, QueuesOK
<1>1. CASE Host!SendSync
    BY <1>1, <1>last DEF Host!SendSync
<1>2. CASE Host!CheckSync
    BY <1>2, <1>last DEF Host!CheckSync
<1>3. CASE Host!UpdateAccepted
    BY <1>3, <1>last DEF Host!UpdateAccepted, Host!Receive
<1>4. CASE Host!SendDeviceId
    BY <1>4, <1>last DEF Host!SendDeviceId, Host!Receive
<1>5. CASE Host!SendLength
    BY <1>5, <1>last DEF Host!SendLength, Host!Receive
<1>6. CASE Host!SendChunk
    BY <1>6, <1>last DEF Host!SendChunk, Host!Receive
<1>7. CASE Host!Verdict \/ Host!WaitTimeout
    BY <1>7, <1>last DEF Host!Verdict, Host!WaitTimeout
<1> QED BY <1>1, <1>2, <1>3, <1>4, <1>5, <1>6, <1>7 DEF Host!Main

LEMMA HostStates ==
    /\ Syncing \cap Linked = {}
    /\ Host!Ended \cap (Syncing \cup Linked) = {}
    /\ "failed" \in Host!Ended /\ "succeeded" \in Host!Ended
BY DEF Syncing, Linked, Host!Waiting, Host!Ended

\* A packet that is delivered is one the updater may say.
LEMMA DeliverySays ==
    ASSUME Writes, DeliverToDevice
    PROVE  \/ rx' = rx
           \/ \E p : Up /\ rx' = Append(rx, p) /\ OwnPacket(p, fwImage) /\ Says(p)
BY Delivery DEF Writes, Says

LEMMA MainStepKeeps ==
    ASSUME InstalledInv, MainStep
    PROVE  HostStep /\ QueuesOK'
<1>main. Host!Main /\ DeliverToDevice /\ toHost' = toHost
    BY DEF MainStep
<1>1. Reads /\ Writes /\ packets' \in Seq(Replies)
    BY <1>main, MainReads, MainWrites
<1>type. packets \in Seq(Replies) /\ toHost \in Seq(Replies)
    BY DEF InstalledInv, QueuesOK
<1>2. /\ host_state' \in Syncing => host_state \in Syncing /\ UNCHANGED packets
      /\ host_state' \in Linked => /\ Greeted /\ packets # <<>>
                                   /\ packets' = Tail(packets)
      /\ host_state' = "succeeded" => /\ host_state \in Linked /\ packets # <<>>
                                      /\ Head(packets) = "UPDATE_SUCCESSFUL"
      /\ host_state' \in Syncing \cup Linked \cup Host!Ended
    BY <1>1, HostStates DEF Reads
<1>3. Greeted' => Greeted
    BY <1>main, <1>2 DEF Greeted, Greeting
<1>4. Told' => Told
    <2>1. CASE host_state' \in Syncing
        BY <1>main, <1>2, <1>3, <2>1, HostStates DEF Told, Reported
    <2>2. CASE host_state' \in Linked
        BY <1>main, <1>2, <1>type, <2>2, HoldsQueue, HostStates DEF Told, Reported
    <2>3. CASE host_state' = "succeeded"
        BY <1>2, <1>type, <2>3, HoldsQueue DEF Told, Reported, Greeted
    <2> QED BY <2>1, <2>2, <2>3 DEF Told, Greeted
<1>5. HostStep
    BY <1>main, <1>1, <1>2, <1>3, <1>4, Delivery, DeliverySays DEF HostStep, Writes
<1>6. QueuesOK'
    BY <1>main, <1>1, <1>2, <1>type DEF QueuesOK, Writes
<1> QED BY <1>5, <1>6

\* Taking a packet from the port greets nobody, and tells nothing new.
LEMMA OnDataHears ==
    ASSUME InstalledInv, toHost # <<>>, toHost' = Tail(toHost),
           host_state' = host_state,
           \/ Head(toHost) \in Ignored /\ packets' = packets
           \/ Head(toHost) \notin Ignored /\ packets' = Append(packets, Head(toHost))
    PROVE  (Greeted' => Greeted) /\ (Told' => Told)
<1>type. packets \in Seq(Replies) /\ toHost \in Seq(Replies)
    BY DEF InstalledInv, QueuesOK
<1>1. /\ Len(toHost) \in Nat \ {0} /\ Len(toHost') = Len(toHost) - 1
      /\ \A n \in 1..Len(toHost') : toHost'[n] = toHost[n + 1]
      /\ Head(toHost) = toHost[1]
    BY <1>type, HeadTailProperties, EmptySeq
<1>2. Greeting' => Greeting
    <2>1. CASE packets' = packets /\ Head(toHost) \in Ignored
        <3>1. ASSUME packets = <<>>, NEW n \in 1..Len(toHost'),
                     toHost'[n] = "SYNC_OBSERVED",
                     \A m \in 1..n - 1 : toHost'[m] \in Ignored
              PROVE  Greeting
            <4>1. n + 1 \in 1..Len(toHost) /\ toHost[n + 1] = "SYNC_OBSERVED"
                BY <1>1, <3>1
            <4>2. ASSUME NEW m \in 1..(n + 1) - 1
                  PROVE  toHost[m] \in Ignored
                <5>1. m = 1 \/ (m - 1 \in 1..n - 1 /\ m - 1 \in 1..Len(toHost')
                                /\ (m - 1) + 1 = m)
                    BY <1>1, <3>1, <4>2
                <5> QED BY <1>1, <2>1, <3>1, <5>1
            <4> QED BY <3>1, <4>1, <4>2 DEF Greeting
        <3> QED BY <2>1, <3>1 DEF Greeting
    <2>2. CASE packets' = Append(packets, Head(toHost))
        <3>1. packets' # <<>> /\ Head(packets') = IF packets = <<>> THEN Head(toHost)
                                                 ELSE Head(packets)
            <4>1. Head(toHost) \in Replies
                BY <1>type, HeadTailProperties
            <4> QED BY <1>type, <2>2, <4>1, AppendProperties, AppendIndex, EmptySeq
        <3>2. CASE packets = <<>> /\ Head(toHost) = "SYNC_OBSERVED"
            BY <1>1, <3>2 DEF Greeting
        <3> QED BY <3>1, <3>2 DEF Greeting
    <2> QED BY <2>1, <2>2
<1>3. Greeted' => Greeted
    BY <1>2 DEF Greeted
<1>4. Reported' => Reported
    <2>1. /\ Holds(toHost', "UPDATE_SUCCESSFUL") => Holds(toHost, "UPDATE_SUCCESSFUL")
          /\ Head(toHost) = "UPDATE_SUCCESSFUL" => Holds(toHost, "UPDATE_SUCCESSFUL")
        BY <1>type, HoldsQueue
    <2>2. Holds(Append(packets, Head(toHost)), "UPDATE_SUCCESSFUL")
            => \/ Holds(packets, "UPDATE_SUCCESSFUL")
               \/ Head(toHost) = "UPDATE_SUCCESSFUL"
        BY <1>type, HoldsQueue
    <2>3. packets' = packets \/ packets' = Append(packets, Head(toHost))
        OBVIOUS
    <2> QED BY <2>1, <2>2, <2>3 DEF Reported
<1> QED BY <1>3, <1>4 DEF Told

LEMMA OnDataKeeps ==
    ASSUME InstalledInv, OnData
    PROVE  HostStep /\ QueuesOK'
<1>data. /\ toHost # <<>> /\ toHost' = Tail(toHost)
         /\ Host!OnData(Head(toHost)) /\ DeliverToDevice
    BY DEF OnData
<1>type. /\ packets \in Seq(Replies) /\ toHost \in Seq(Replies)
         /\ Head(toHost) \in Replies /\ Tail(toHost) \in Seq(Replies)
    BY <1>data, HeadTailProperties DEF InstalledInv, QueuesOK
<1>1. /\ UNCHANGED <<host_state, fwImage>>
      /\ host_state \notin Host!Ended
      /\ \/ Head(toHost) \in Ignored /\ packets' = packets
         \/ Head(toHost) \notin Ignored /\ packets' = Append(packets, Head(toHost))
    BY <1>data DEF Host!OnData, Ignored
<1>2. /\ written' \in {Host!NoPacket, lastPacket, Host!Single("RETX"), Host!Single("ACK")}
      /\ lastPacket' \in {lastPacket, Host!Single("RETX"), Host!Single("ACK")}
    BY <1>data DEF Host!OnData, Host!writePacket, Host!WriteNothing
<1>3. host_state \in Syncing \cup Linked
    BY <1>1 DEF InstalledInv, QueuesOK
<1>4. ASSUME NEW p \in {lastPacket, Host!Single("RETX"), Host!Single("ACK")}
      PROVE  /\ p.kind # "SYNC" /\ OwnPacket(p, fwImage) /\ Says(p)
             /\ host_state \in Syncing => ~AboutImage(p)
    <2>1. /\ p.kind # "SYNC" /\ OwnPacket(p, fwImage)
          /\ host_state \in Syncing => ~AboutImage(p)
        BY <1>4 DEF InstalledInv, QueuesOK, Host!Single, OwnPacket, AboutImage
    <2> QED BY <1>3, <2>1 DEF Says
<1>5. Writes
    BY <1>1, <1>2, <1>4 DEF Writes
<1>6. (Greeted' => Greeted) /\ (Told' => Told)
    BY <1>data, <1>1, OnDataHears
<1>7. HostStep
    BY <1>data, <1>1, <1>5, <1>6, Delivery, DeliverySays DEF HostStep, Greeted
<1>8. packets' \in Seq(Replies)
    BY <1>type, <1>1, AppendProperties
<1>9. QueuesOK'
    BY <1>data, <1>type, <1>1, <1>3, <1>5, <1>8 DEF QueuesOK, Writes
<1> QED BY <1>7, <1>9

\* Time passing moves neither side's packets.
LEMMA TimePassesKeeps ==
    ASSUME InstalledInv, TimePasses
    PROVE  HostStep /\ QueuesOK'
<1>1. UNCHANGED <<running, bootloader_state, incoming_packet_buffer,
                  last_transmitted_packet, flash, rx>>
    BY DEF TimePasses, Tick, Unmoved, line, vars, session, comms
<1>2. /\ UNCHANGED <<fwImage, packets, toHost, lastPacket>>
      /\ host_state' = host_state \/ (host_state \in Syncing /\ host_state' \in Syncing)
                                  \/ (host_state \in Linked /\ host_state' \in Linked)
    BY DEF TimePasses, Host!Elapse, Host!Enter, Host!WriteNothing, Syncing, Linked,
       Host!Waiting
<1>3. /\ (host_state' \in Syncing <=> host_state \in Syncing)
      /\ (host_state' \in Linked <=> host_state \in Linked)
      /\ (host_state' = "succeeded" <=> host_state = "succeeded")
      /\ host_state' \in Syncing \cup Linked \cup Host!Ended
    BY <1>2, HostStates DEF InstalledInv, QueuesOK
<1>4. Greeting' = Greeting /\ Reported' = Reported
    BY <1>2 DEF Greeting, Reported
<1>5. (Greeted' <=> Greeted) /\ (Told' <=> Told)
    BY <1>3, <1>4 DEF Greeted, Told
<1>6. HostStep
    BY <1>1, <1>2, <1>3, <1>5 DEF HostStep, Greeted
<1>7. QueuesOK'
    BY <1>2, <1>3 DEF InstalledInv, QueuesOK
<1> QED BY <1>6, <1>7

\* A new updater finds nothing on the line that an earlier one wrote, or a
\* device that erases and has no image behind a SYNC.
LEMMA StartKeeps ==
    ASSUME InstalledInv, Start
    PROVE  QueuesOK' /\ DeviceOK' /\ LineOK' /\ OwnSession' /\ ToldOK'
<1>1. /\ host_state' = "sync" /\ packets' = <<>> /\ toHost' = <<>>
      /\ lastPacket' = Host!Single("ACK")
      /\ UNCHANGED <<running, bootloader_state, incoming_packet_buffer,
                     last_transmitted_packet, flash, rx>>
    BY DEF Start, Host!Start, vars, session, comms, line
<1>2. /\ ~Holds(packets', "UPDATE_SUCCESSFUL") /\ ~Holds(toHost', "UPDATE_SUCCESSFUL")
      /\ ~Greeting'
    BY <1>1, HoldsQueue, EmptySeq DEF Greeting, Holds
<1>3. ~Greeted' /\ ~Told' /\ host_state' \in Syncing /\ host_state' \notin Linked
    BY <1>1, <1>2 DEF Greeted, Told, Reported, Syncing, Linked, Host!Waiting
<1>4. QueuesOK'
    BY <1>1, <1>3 DEF QueuesOK, Host!Single, OwnPacket, AboutImage
<1>5. DeviceOK'
    BY <1>1 DEF InstalledInv, DeviceOK, Up
<1>6. Up => \/ rx = <<>> /\ incoming_packet_buffer = <<>>
            \/ bootloader_state = "ERASE_APPLICATION"
    BY DEF Start, DeviceQuiet, DeviceWaits, Erasing, InState, Up
<1>7. LineOK'
    BY <1>1, <1>3, <1>6, OrderTrivial DEF InstalledInv, LineOK, Up, Granted, Handshake
<1>8. OwnSession' /\ ToldOK'
    BY <1>1, <1>2, <1>3 DEF OwnSession, ToldOK
<1> QED BY <1>4, <1>5, <1>7, <1>8

-----------------------------------------------------------------------------
(* The steps of the device, by what they do to its queues and its flash.   *)

\* The updater stands still; what it hears greets it, or tells it of success,
\* only if the device says so now.
Hears ==
    /\ UNCHANGED hostVars
    /\ QueuesOK'
    /\ Greeted' => Greeted \/ (host_state \in Syncing /\ sent' = "SYNC_OBSERVED")
    /\ Told' => Told \/ (Greeted /\ sent' = "UPDATE_SUCCESSFUL")

LEMMA HearsNothing ==
    ASSUME InstalledInv, UNCHANGED <<hostVars, toHost>>
    PROVE  Hears
BY DEF Hears, hostVars, Greeted, Greeting, Told, Reported, InstalledInv, QueuesOK

LEMMA HearsDevice ==
    ASSUME InstalledInv, IInv', UNCHANGED hostVars, DeliverToHost
    PROVE  Hears
<1>1. CASE toHost' = toHost
    BY <1>1, HearsNothing
<1>2. ASSUME NEW e \in {sent', "CORRUPT"}, sent' # "nothing", toHost' = Append(toHost, e)
      PROVE  Hears
    <2>type. toHost \in Seq(Replies) /\ packets \in Seq(Replies)
        BY DEF InstalledInv, QueuesOK
    <2>same. UNCHANGED <<host_state, fwImage, packets, lastPacket>>
        BY DEF hostVars
    <2>1. /\ Len(toHost) \in Nat /\ Len(toHost') = Len(toHost) + 1
          /\ \A n \in 1..Len(toHost) : toHost'[n] = toHost[n]
          /\ toHost'[Len(toHost) + 1] = e
        BY <1>2, <2>type, AppendIndex
    <2>2. e \in Replies
        BY <1>2 DEF IInv, TypeOK, Replies
    <2>3. QueuesOK'
        <3>1. toHost' \in Seq(Replies)
            BY <1>2, <2>type, <2>2, AppendProperties
        <3> QED BY <2>same, <3>1 DEF InstalledInv, QueuesOK
    <2>4. ASSUME Greeting', ~Greeting
          PROVE  /\ sent' = "SYNC_OBSERVED" /\ packets = <<>>
                 /\ \A m \in 1..Len(toHost) : toHost[m] \in Ignored
        <3>1. packets = <<>>
            BY <2>same, <2>4 DEF Greeting
        <3>2. PICK n \in 1..Len(toHost') :
                /\ toHost'[n] = "SYNC_OBSERVED"
                /\ \A m \in 1..n - 1 : toHost'[m] \in Ignored
            BY <2>same, <2>4, <3>1 DEF Greeting
        <3>3. n = Len(toHost) + 1
            <4>1. CASE n \in 1..Len(toHost)
                <5>1. \A m \in 1..n - 1 : m \in 1..Len(toHost)
                    BY <2>1, <4>1
                <5> QED BY <2>1, <2>4, <3>1, <3>2, <4>1, <5>1 DEF Greeting
            <4> QED BY <2>1, <4>1
        <3>4. \A m \in 1..Len(toHost) : m \in 1..n - 1
            BY <2>1, <3>3
        <3> QED BY <1>2, <2>1, <3>1, <3>2, <3>3, <3>4
    <2>5. Reported' => Reported \/ sent' = "UPDATE_SUCCESSFUL"
        BY <1>2, <2>type, <2>same, HoldsQueue DEF Reported
    <2>6. Greeted' => Greeted \/ (host_state \in Syncing /\ sent' = "SYNC_OBSERVED")
        BY <2>same, <2>4 DEF Greeted
    <2>7. ASSUME Told', ~Told
          PROVE  Greeted /\ sent' = "UPDATE_SUCCESSFUL"
        <3>1. Greeted' /\ Reported' /\ host_state # "succeeded"
            BY <2>same, <2>7 DEF Told
        <3>2. Greeted
            <4>1. SUFFICES ASSUME ~Greeted PROVE FALSE
                OBVIOUS
            <4>2. Greeting' /\ ~Greeting
                BY <2>same, <3>1, <4>1 DEF Greeted
            <4>3. Holds(toHost, "UPDATE_SUCCESSFUL")
                BY <2>4, <2>5, <2>type, <3>1, <4>2, HoldsQueue DEF Reported
            <4> QED BY <2>4, <4>2, <4>3 DEF Holds, Ignored
        <3> QED BY <2>5, <2>7, <3>1, <3>2 DEF Told
    <2> QED BY <2>3, <2>6, <2>7 DEF Hears
<1> QED BY <1>1, <1>2 DEF DeliverToHost

\* A reset; of what was on its way a part may be left.
Resets ==
    /\ Up' /\ bootloader_state' = "SYNC"
    /\ Up \/ rx' = <<>>
    /\ Follows(rx', rx)
    /\ incoming_packet_buffer' = <<>>
    /\ last_transmitted_packet' = "nothing" /\ sent' = "nothing"
    /\ \/ flash' = flash
       \/ Granted

LEMMA ResetsKeep ==
    ASSUME InstalledInv, Hears, Resets
    PROVE  DeviceOK' /\ LineOK' /\ OwnSession' /\ ToldOK'
<1>order. /\ NoSync(rx) => NoSync(rx')
          /\ AllOwn(rx, fwImage) => AllOwn(rx', fwImage)
          /\ NoImageBehindSync(rx) => NoImageBehindSync(rx')
          /\ NoSyncImageSync(rx) => NoSyncImageSync(rx')
    BY OrderFollows DEF Resets, InstalledInv, IInv, TypeOK
<1>same. UNCHANGED <<host_state, fwImage>> /\ bootloader_state' = "SYNC" /\ ~Granted'
    BY DEF Hears, hostVars, Resets, Granted
<1>heard. (Greeted' => Greeted) /\ (Told' => Told)
    BY DEF Hears, Resets
<1>1. DeviceOK'
    BY DEF DeviceOK, Resets, Up
<1>2. LineOK'
    BY <1>order, <1>same, OrderTrivial DEF InstalledInv, LineOK, Resets, Handshake
<1>3. OwnSession'
    BY <1>order, <1>same, <1>heard, OrderTrivial DEF InstalledInv, OwnSession, Resets
<1>4. ToldOK'
    BY <1>order, <1>same, <1>heard, OrderTrivial
       DEF InstalledInv, ToldOK, Resets, Granted
<1> QED BY <1>1, <1>2, <1>3, <1>4

\* The CPU is no longer the bootloader's.
Stops ==
    /\ ~Up'
    /\ running' = "app" => rx' = <<>>
    /\ sent' = "nothing"
    /\ \/ flash' = flash
       \/ Granted

LEMMA StopsKeep ==
    ASSUME InstalledInv, Hears, Stops
    PROVE  DeviceOK' /\ LineOK' /\ OwnSession' /\ ToldOK'
<1>1. DeviceOK' /\ LineOK' /\ OwnSession'
    BY DEF DeviceOK, LineOK, OwnSession, Granted, Stops
<1>2. ToldOK'
    BY DEF InstalledInv, ToldOK, Hears, Stops, hostVars, Granted
<1> QED BY <1>1, <1>2

\* The sync sequence ends a flush.
Syncs ==
    /\ Up /\ bootloader_state = "SYNC" /\ Up'
    /\ rx # <<>> /\ Head(rx).kind = "SYNC"
    /\ \E k \in 0..Len(rx) - 1 : rx' = SubSeq(rx, k + 2, Len(rx))
    /\ bootloader_state' = "WAIT_FOR_FW_UPDATE_REQ"
    /\ incoming_packet_buffer' = incoming_packet_buffer
    /\ sent' = "SYNC_OBSERVED" /\ flash' = flash

LEMMA SyncsKeep ==
    ASSUME InstalledInv, Hears, Syncs
    PROVE  DeviceOK' /\ LineOK' /\ OwnSession' /\ ToldOK'
<1>type. rx \in Seq(OnTheWire) /\ Len(rx) \in Nat \ {0} /\ Head(rx) = rx[1]
    BY EmptySeq DEF Syncs, InstalledInv, IInv, TypeOK
<1>sub. PICK k \in 0..Len(rx) - 1 : rx' = SubSeq(rx, k + 2, Len(rx))
    BY DEF Syncs
<1>follows. Follows(rx', rx)
    BY <1>type, <1>sub, FollowsSuffix, k + 1 \in 0..Len(rx), (k + 1) + 1 = k + 2
<1>order. /\ AllOwn(rx, fwImage) => AllOwn(rx', fwImage)
          /\ NoImageBehindSync(rx) => NoImageBehindSync(rx')
          /\ NoSyncImageSync(rx) => NoSyncImageSync(rx')
    BY <1>type, <1>follows, OrderFollows
<1>behind. /\ Len(rx') = Len(rx) - (k + 1)
           /\ \A n \in 1..Len(rx') : rx'[n] = rx[n + (k + 1)]
    <2>1. \A i \in k + 2..Len(rx) : rx[i] \in OnTheWire
        BY <1>type, ElementOfSeq
    <2> QED BY <1>type, <1>sub, <2>1, SubSeqProperties
<1>index. \A n \in 1..Len(rx') : n + (k + 1) \in 1..Len(rx) /\ 1 < n + (k + 1)
    BY <1>type, <1>behind
<1>first. 1 \in 1..Len(rx) /\ rx[1].kind = "SYNC"
    BY <1>type DEF Syncs
<1>1. NoImageBehindSync(rx) => NoImage(rx')
    BY <1>behind, <1>index, <1>first DEF NoImageBehindSync, NoImage
<1>2. NoSyncImageSync(rx) => NoSyncBehindImage(rx')
    <2>1. \A m, n \in 1..Len(rx') : m < n => m + (k + 1) < n + (k + 1)
        BY <1>type, <1>behind
    <2> QED BY <1>behind, <1>index, <1>first, <2>1 DEF NoSyncImageSync, NoSyncBehindImage
<1>3. ~NoSync(rx)
    BY <1>first DEF NoSync
<1>same. /\ UNCHANGED <<host_state, fwImage>> /\ incoming_packet_buffer' = <<>>
         /\ Up /\ bootloader_state' = "WAIT_FOR_FW_UPDATE_REQ" /\ ~Granted'
    BY DEF Hears, hostVars, Syncs, InstalledInv, DeviceOK, Granted
<1>heard. (Greeted' => Greeted \/ host_state \in Syncing) /\ ~Told'
    BY <1>3 DEF Hears, Syncs, InstalledInv, ToldOK
<1>4. DeviceOK'
    BY DEF DeviceOK, Syncs, Up
<1>5. LineOK'
    BY <1>order, <1>same, <1>1, <1>2, OrderTrivial DEF InstalledInv, LineOK, Handshake
<1>6. OwnSession'
    BY <1>order, <1>same, <1>heard, <1>1, OrderTrivial
       DEF InstalledInv, LineOK, OwnSession
<1>7. ToldOK'
    BY <1>heard DEF ToldOK
<1> QED BY <1>4, <1>5, <1>6, <1>7

\* Packets move, or the session fails: flash is not touched, and no new erase
\* is granted.
Stays ==
    /\ Up /\ Up' /\ flash' = flash
    /\ \/ bootloader_state' \in {bootloader_state, "DONE"}
       \/ bootloader_state \in Handshake /\ bootloader_state' \in Handshake
    /\ sent' # "UPDATE_SUCCESSFUL"
    /\ sent' = "SYNC_OBSERVED"
        => /\ bootloader_state = "WAIT_FOR_FW_UPDATE_REQ"
           /\ bootloader_state' = "WAIT_FOR_FW_UPDATE_REQ"
    /\ last_transmitted_packet' = "SYNC_OBSERVED"
        => bootloader_state' = "WAIT_FOR_FW_UPDATE_REQ"
    /\ \/ /\ Follows(rx', rx)
          /\ \/ incoming_packet_buffer' = incoming_packet_buffer
             \/ /\ bootloader_state # "SYNC" /\ incoming_packet_buffer # <<>>
                /\ incoming_packet_buffer' = Tail(incoming_packet_buffer)
       \/ /\ bootloader_state # "SYNC"
          /\ rx # <<>> /\ rx' = Tail(rx)
          /\ incoming_packet_buffer' = Append(incoming_packet_buffer, Head(rx))

LEMMA StaysKeep ==
    ASSUME InstalledInv, Hears, Stays
    PROVE  DeviceOK' /\ LineOK' /\ OwnSession' /\ ToldOK'
<1> DEFINE inc == incoming_packet_buffer
<1>type. rx \in Seq(OnTheWire) /\ inc \in Seq(HostPackets)
    BY DEF InstalledInv, IInv, TypeOK
<1>follows. Follows(rx', rx)
    BY <1>type, FollowsTail DEF Stays
<1>order. /\ NoSync(rx) => NoSync(rx')
          /\ NoImage(rx) => NoImage(rx')
          /\ AllOwn(rx, fwImage) => AllOwn(rx', fwImage)
          /\ NoImageBehindSync(rx) => NoImageBehindSync(rx')
          /\ NoSyncBehindImage(rx) => NoSyncBehindImage(rx')
          /\ NoSyncImageSync(rx) => NoSyncImageSync(rx')
    BY <1>type, <1>follows, OrderFollows
<1>buffer. /\ NoImage(rx) /\ NoImage(inc) => NoImage(inc')
           /\ AllOwn(rx, fwImage) /\ AllOwn(inc, fwImage) => AllOwn(inc', fwImage)
           /\ NoSyncBehindImage(rx) /\ NoImage(inc) => NoImage(inc') \/ NoSync(rx')
    <2>1. CASE inc' = inc
        BY <2>1
    <2>2. CASE inc # <<>> /\ inc' = Tail(inc)
        <3>1. Follows(inc', inc)
            BY <1>type, <2>2, FollowsTail
        <3> QED BY <1>type, <3>1, OrderFollows
    <2>3. CASE rx # <<>> /\ rx' = Tail(rx) /\ inc' = Append(inc, Head(rx))
        <3>1. /\ Len(rx) \in Nat \ {0} /\ Head(rx) = rx[1] /\ 1 \in 1..Len(rx)
              /\ Len(rx') = Len(rx) - 1
              /\ \A n \in 1..Len(rx') : rx'[n] = rx[n + 1]
            BY <1>type, <2>3, HeadTailProperties, EmptySeq
        <3>2. /\ NoImage(inc) /\ ~AboutImage(Head(rx)) => NoImage(inc')
              /\ AllOwn(inc, fwImage) /\ OwnPacket(Head(rx), fwImage)
                   => AllOwn(inc', fwImage)
            BY <1>type, <2>3, OrderAppend
        <3>3. NoSyncBehindImage(rx) /\ AboutImage(Head(rx)) => NoSync(rx')
            <4>1. \A n \in 1..Len(rx') : n + 1 \in 1..Len(rx) /\ 1 < n + 1
                BY <3>1
            <4> QED BY <3>1, <4>1 DEF NoSyncBehindImage, NoSync
        <3>4. /\ NoImage(rx) => ~AboutImage(Head(rx))
              /\ AllOwn(rx, fwImage) => OwnPacket(Head(rx), fwImage)
            BY <3>1 DEF NoImage, AllOwn
        <3> QED BY <3>2, <3>3, <3>4
    <2> QED BY <2>1, <2>2, <2>3 DEF Stays
<1> HIDE DEF inc
<1>same. /\ UNCHANGED <<host_state, fwImage, flash>> /\ Up /\ Up'
         /\ Granted' => Granted /\ bootloader_state' = bootloader_state
         /\ bootloader_state' \in Handshake => bootloader_state \in Handshake
         /\ bootloader_state' = "SYNC" => bootloader_state = "SYNC"
    BY DEF Hears, hostVars, Stays, Granted, Handshake
<1>heard. /\ Greeted' => \/ Greeted
                         \/ /\ host_state \in Syncing
                            /\ bootloader_state = "WAIT_FOR_FW_UPDATE_REQ"
                            /\ bootloader_state' = "WAIT_FOR_FW_UPDATE_REQ"
          /\ Told' => Told
    BY DEF Hears, Stays
<1>1. DeviceOK'
    BY <1>same DEF InstalledInv, DeviceOK, Stays, Up
<1>2. LineOK'
    BY <1>order, <1>buffer, <1>same DEF InstalledInv, LineOK, inc, Granted
<1>3. OwnSession'
    <2>1. Granted' /\ host_state' \in Syncing => ~Greeting'
        BY <1>same, <1>heard, HostStates DEF InstalledInv, OwnSession, Greeted, Granted
    <2>2. ASSUME Greeted'
          PROVE  AllOwn(rx', fwImage) /\ AllOwn(inc', fwImage)
        <3>1. CASE Greeted
            BY <1>order, <1>buffer, <1>same, <3>1 DEF InstalledInv, OwnSession, inc
        <3>2. CASE /\ host_state \in Syncing
                   /\ bootloader_state = "WAIT_FOR_FW_UPDATE_REQ"
            <4>1. NoImage(rx) /\ NoImage(inc)
                BY <1>same, <3>2 DEF InstalledInv, LineOK, inc, Handshake
            <4> QED BY <1>order, <1>buffer, <4>1, OrderTrivial
        <3> QED BY <1>heard, <2>2, <3>1, <3>2
    <2>3. ASSUME Greeted', bootloader_state' = "RECEIVE_FW"
          PROVE  \A a \in 0..AREA - 1 :
                    flash'[a] \in {Erased, Noise} \cup ({fwImage} \X Nat)
        <3>1. Greeted /\ bootloader_state = "RECEIVE_FW"
            BY <1>same, <1>heard, <2>3 DEF Granted, Up
        <3> QED BY <1>same, <3>1 DEF InstalledInv, OwnSession
    <2> QED BY <1>same, <2>1, <2>2, <2>3 DEF OwnSession, inc
<1>4. ToldOK'
    BY <1>order, <1>same, <1>heard DEF InstalledInv, ToldOK, Stays, Handshake
<1> QED BY <1>1, <1>2, <1>3, <1>4

\* The length is accepted: with it at the head of the buffer no SYNC is left.
Commits ==
    /\ Up /\ Up' /\ bootloader_state = "FW_LENGTH_RES"
    /\ bootloader_state' = "ERASE_APPLICATION"
    /\ incoming_packet_buffer # <<>>
    /\ Head(incoming_packet_buffer).kind = "FW_LENGTH_RES"
    /\ incoming_packet_buffer' = Tail(incoming_packet_buffer)
    /\ UNCHANGED <<rx, flash, last_transmitted_packet>> /\ sent' = "nothing"

LEMMA CommitsKeep ==
    ASSUME InstalledInv, Hears, Commits
    PROVE  DeviceOK' /\ LineOK' /\ OwnSession' /\ ToldOK'
<1> DEFINE inc == incoming_packet_buffer
<1>1. inc \in Seq(HostPackets) /\ inc # <<>> /\ Head(inc) = inc[1] /\ 1 \in 1..Len(inc)
    BY EmptySeq DEF InstalledInv, IInv, TypeOK, Commits
<1>2. ~NoImage(inc)
    BY <1>1 DEF Commits, NoImage, AboutImage
<1>3. AllOwn(inc, fwImage) => AllOwn(inc', fwImage)
    <2>1. inc' = Tail(inc)
        BY DEF Commits
    <2> QED BY <1>1, <2>1, FollowsTail, OrderFollows
<1> HIDE DEF inc
<1>same. /\ UNCHANGED <<host_state, fwImage>> /\ rx' = rx
         /\ Up /\ Up' /\ bootloader_state = "FW_LENGTH_RES"
         /\ bootloader_state' = "ERASE_APPLICATION"
    BY DEF Hears, hostVars, Commits
<1>4. NoSync(rx) /\ NoImageBehindSync(rx) /\ host_state \notin Syncing
    BY <1>2, <1>same, OrderTrivial DEF InstalledInv, LineOK, Handshake, inc
<1>heard. (Greeted' => Greeted) /\ ~Told'
    BY <1>same, <1>4 DEF Hears, Commits, InstalledInv, ToldOK
<1>5. DeviceOK'
    BY DEF InstalledInv, DeviceOK, Commits, Up
<1>6. LineOK'
    BY <1>same, <1>4 DEF InstalledInv, LineOK, Granted, Handshake
<1>7. OwnSession'
    BY <1>3, <1>same, <1>4, <1>heard DEF InstalledInv, OwnSession, inc
<1>8. ToldOK'
    BY <1>heard DEF ToldOK
<1> QED BY <1>5, <1>6, <1>7, <1>8

\* The erase leaves nothing of any image.
Erases ==
    /\ Up /\ Up' /\ bootloader_state = "ERASE_APPLICATION"
    /\ bootloader_state' = "RECEIVE_FW"
    /\ UNCHANGED <<rx, incoming_packet_buffer>>
    /\ \A a \in 0..AREA - 1 : flash'[a] = Erased
    /\ sent' = "READY_FOR_DATA" /\ last_transmitted_packet' = "READY_FOR_DATA"

LEMMA ErasesKeep ==
    ASSUME InstalledInv, Hears, Erases
    PROVE  DeviceOK' /\ LineOK' /\ OwnSession' /\ ToldOK'
<1>same. /\ UNCHANGED <<host_state, fwImage, rx, incoming_packet_buffer>>
         /\ Granted /\ Granted' /\ Up /\ Up'
         /\ bootloader_state = "ERASE_APPLICATION" /\ bootloader_state' = "RECEIVE_FW"
    BY DEF Hears, hostVars, Erases, Granted
<1>heard. (Greeted' => Greeted) /\ ~Told'
    BY <1>same DEF Hears, Erases, InstalledInv, ToldOK
<1>1. DeviceOK'
    BY DEF DeviceOK, Erases, Up
<1>2. LineOK'
    BY <1>same DEF InstalledInv, LineOK, Handshake
<1>3. OwnSession'
    <2>1. Granted' /\ host_state' \in Syncing => ~Greeting'
        BY <1>same, <1>heard, HostStates DEF InstalledInv, OwnSession, Greeted
    <2> QED BY <2>1, <1>same, <1>heard DEF InstalledInv, OwnSession, Erases
<1>4. ToldOK'
    BY <1>heard DEF ToldOK
<1> QED BY <1>1, <1>2, <1>3, <1>4

\* A chunk of an updater's own packet spoils cells or fills them with its image.
LEMMA OwnChunk ==
    ASSUME NEW i, NEW f, NEW start \in Nat, NEW n \in Nat, NEW p \in Packet,
           OwnPacket(p, i),
           \A a \in 0..AREA - 1 : f[a] \in {Erased, Noise} \cup ({i} \X Nat)
    PROVE  \A a \in 0..AREA - 1 :
              Written(f, start, p, n)[a] \in {Erased, Noise} \cup ({i} \X Nat)
<1> SUFFICES ASSUME NEW a \in 0..AREA - 1
             PROVE  (IF a \in start..start + n - 1
                     THEN Programmed(f[a], Data(p, a - start)) ELSE f[a])
                      \in {Erased, Noise} \cup ({i} \X Nat)
    BY DEF Written
<1>1. ASSUME a \in start..start + n - 1
      PROVE  Data(p, a - start) \in {Noise} \cup ({i} \X Nat)
    <2>1. p.arg + (a - start) \in Nat
        BY <1>1, LayoutAssumption DEF Packet
    <2>2. p.from \in Images => p.from = i
        BY ImagesAssumption DEF OwnPacket
    <2> QED BY <2>1, <2>2 DEF Data
<1> QED BY <1>1 DEF Programmed

\* A bootable image made of one updater's cells is that updater's image.
LEMMA OwnImage ==
    ASSUME NEW i, NEW f, Bootable(f),
           \A a \in 0..AREA - 1 : f[a] \in {Erased, Noise} \cup ({i} \X Nat)
    PROVE  Verifies(f, i)
<1>1. PICK j \in Images : Verifies(f, j)
    BY DEF Bootable
<1>2. ImageLength[j] \in Nat /\ ImageLength[j] > 0 /\ ImageLength[j] <= AREA
    BY ImagesAssumption, LayoutAssumption, BlockAssumption
<1>3. 0 \in 0..ImageLength[j] - 1 /\ 0 \in 0..AREA - 1
    BY <1>2, LayoutAssumption
<1>4. f[0] = <<j, 0>>
    BY <1>1, <1>3 DEF Verifies
<1>5. j # "erased" /\ j # "noise"
    BY ImagesAssumption
<1>6. <<j, 0>> \in {i} \X Nat
    BY <1>3, <1>4, <1>5 DEF Erased, Noise
<1> QED BY <1>1, <1>6

\* A chunk is programmed, and the last one may complete the image.
Fills ==
    /\ Up /\ Up' /\ bootloader_state = "RECEIVE_FW"
    /\ bootloader_state' \in {"RECEIVE_FW", "DONE"}
    /\ incoming_packet_buffer # <<>>
    /\ incoming_packet_buffer' = Tail(incoming_packet_buffer)
    /\ rx' = rx
    /\ \E start, n \in Nat :
          flash' = Written(flash, start, Head(incoming_packet_buffer), n)
    /\ sent' \in {"READY_FOR_DATA", "UPDATE_SUCCESSFUL", "NACK"}
    /\ last_transmitted_packet' = sent'
    /\ sent' = "UPDATE_SUCCESSFUL" => bootloader_state' = "DONE" /\ Bootable(flash')

LEMMA FillsKeep ==
    ASSUME InstalledInv, Hears, Fills
    PROVE  DeviceOK' /\ LineOK' /\ OwnSession' /\ ToldOK'
<1> DEFINE inc == incoming_packet_buffer
<1>1. /\ inc \in Seq(HostPackets) /\ inc # <<>>
      /\ Head(inc) = inc[1] /\ 1 \in 1..Len(inc) /\ Head(inc) \in Packet
    BY EmptySeq, QueueType DEF InstalledInv, IInv, TypeOK, Fills
<1>2. AllOwn(inc, fwImage) => AllOwn(inc', fwImage) /\ OwnPacket(Head(inc), fwImage)
    <2>1. inc' = Tail(inc)
        BY DEF Fills
    <2>2. AllOwn(inc, fwImage) => AllOwn(inc', fwImage)
        BY <1>1, <2>1, FollowsTail, OrderFollows
    <2> QED BY <1>1, <2>2 DEF AllOwn
<1>3. PICK start, n \in Nat : flash' = Written(flash, start, Head(inc), n)
    BY DEF Fills
<1> HIDE DEF inc
<1>same. /\ UNCHANGED <<host_state, fwImage, rx>> /\ Up /\ Up' /\ Granted
         /\ bootloader_state = "RECEIVE_FW"
         /\ bootloader_state' \in {"RECEIVE_FW", "DONE"}
    BY DEF Hears, hostVars, Fills, Granted
<1>heard. /\ Greeted' => Greeted
          /\ Told' => /\ Greeted /\ bootloader_state' = "DONE" /\ Bootable(flash')
    BY <1>same DEF Hears, Fills, InstalledInv, ToldOK
<1>linked. Greeted => host_state \in Linked /\ NoSync(rx)
    BY <1>same DEF Greeted, InstalledInv, OwnSession, LineOK
<1>4. ASSUME Greeted
      PROVE  /\ AllOwn(rx', fwImage) /\ AllOwn(inc', fwImage)
             /\ \A a \in 0..AREA - 1 :
                   flash'[a] \in {Erased, Noise} \cup ({fwImage} \X Nat)
    <2>1. /\ AllOwn(rx, fwImage) /\ AllOwn(inc, fwImage)
          /\ \A a \in 0..AREA - 1 :
                flash[a] \in {Erased, Noise} \cup ({fwImage} \X Nat)
        BY <1>4, <1>same DEF InstalledInv, OwnSession, inc
    <2>2. \A a \in 0..AREA - 1 : Written(flash, start, Head(inc), n)[a]
                                    \in {Erased, Noise} \cup ({fwImage} \X Nat)
        BY <1>1, <1>2, <2>1, OwnChunk
    <2> QED BY <1>2, <1>3, <1>same, <2>1, <2>2
<1>5. DeviceOK'
    BY DEF DeviceOK, Fills, Up
<1>6. LineOK'
    BY <1>same DEF InstalledInv, LineOK, Handshake, Granted
<1>7. OwnSession'
    <2>1. Granted' /\ host_state' \in Syncing => ~Greeting'
        BY <1>same, <1>heard, <1>linked, HostStates DEF Greeted
    <2> QED BY <2>1, <1>same, <1>heard, <1>4 DEF OwnSession, inc
<1>8. ToldOK'
    <2> SUFFICES ASSUME Told' PROVE ToldOK'
        BY DEF ToldOK
    <2>1. Verifies(flash', fwImage)
        BY <1>heard, <1>4, OwnImage
    <2>2. host_state' \notin Syncing /\ bootloader_state' = "DONE" /\ NoSync(rx')
        BY <1>same, <1>heard, <1>linked, HostStates
    <2> QED BY <1>same, <2>1, <2>2 DEF ToldOK
<1> QED BY <1>5, <1>6, <1>7, <1>8

\* The kinds of step a device can take, as the updater is concerned with them.
DeviceMoves ==
    Resets \/ Stops \/ Syncs \/ Stays \/ Commits \/ Erases \/ Fills

LEMMA RestartMoves ==
    ASSUME InstalledInv, Restart, Up \/ rx' = <<>>, flash' = flash \/ Granted
    PROVE  Resets
<1>1. rx \in Seq(OnTheWire)
    BY DEF InstalledInv, IInv, TypeOK
<1>2. Follows(rx', rx)
    <2>1. PICK k \in 0..Len(rx) : rx' = SubSeq(rx, k + 1, Len(rx))
        BY DEF Restart
    <2> QED BY <1>1, <2>1, FollowsSuffix
<1> QED BY <1>2 DEF Restart, Resets, Up

LEMMA CommsMoves ==
    ASSUME InstalledInv, comms_update
    PROVE  Stops \/ Stays
<1> USE DEF Polling, session, comms_send_packet, SendNothing
<1>1. /\ Up /\ bootloader_state \notin {"SYNC", "DONE"}
      /\ rx # <<>> /\ rx' = Tail(rx) /\ UNCHANGED <<bootloader_state, flash>>
    BY DEF comms_update, ReceivePart, ReceiveDamaged, ReceiveRetx, ReceiveAck,
           ReceivePacket, Up
<1>2. rx \in Seq(OnTheWire) /\ Follows(rx', rx)
    BY <1>1, FollowsTail DEF InstalledInv, IInv, TypeOK
<1>3. /\ last_transmitted_packet # "UPDATE_SUCCESSFUL"
      /\ last_transmitted_packet = "SYNC_OBSERVED"
            => bootloader_state = "WAIT_FOR_FW_UPDATE_REQ"
    BY <1>1 DEF InstalledInv, IInv, ImageOK, DeviceOK
<1>4. CASE ReceivePart \/ ReceiveAck
    BY <1>1, <1>2, <1>3, <1>4 DEF ReceivePart, ReceiveAck, Stays, Up
<1>5. CASE ReceiveDamaged
    BY <1>1, <1>2, <1>5 DEF ReceiveDamaged, Stays, Up
<1>6. CASE ReceiveRetx
    BY <1>1, <1>2, <1>3, <1>6 DEF ReceiveRetx, Stays, Up
<1>7. CASE ReceivePacket
    <2>1. CASE running' = "fault"
        BY <1>1, <1>7, <2>1 DEF ReceivePacket, Stops, Up
    <2>2. CASE running' # "fault"
        BY <1>1, <1>7, <2>2 DEF ReceivePacket, Stays, Up
    <2> QED BY <2>1, <2>2
<1> QED BY <1>4, <1>5, <1>6, <1>7 DEF comms_update

LEMMA SwitchMoves ==
    ASSUME InstalledInv, Switch
    PROVE  Stops \/ Stays \/ Commits \/ Erases \/ Fills
<1> USE DEF InState, GoTo, comms_send_packet, SendNothing, bootloading_failed, line, Up
<1>follows. Follows(rx, rx)
    BY FollowsNothing DEF InstalledInv, IInv, TypeOK
<1>last. running = "bootloader" /\ last_transmitted_packet = "SYNC_OBSERVED"
            => bootloader_state = "WAIT_FOR_FW_UPDATE_REQ"
    BY DEF InstalledInv, DeviceOK
<1>1. CASE Timeout
    BY <1>1, <1>follows DEF Timeout, Stays
<1>2. CASE WaitForFwUpdateReq
    BY <1>2, <1>follows DEF WaitForFwUpdateReq, Await, comms_packet_available,
       comms_receive_packet, Stays, Handshake
<1>3. CASE DeviceIdReq \/ FwLengthReq
    BY <1>3, <1>follows DEF DeviceIdReq, FwLengthReq, Stays, Handshake
<1>4. CASE DeviceIdRes
    BY <1>4, <1>follows, <1>last DEF DeviceIdRes, Await, comms_packet_available,
       comms_receive_packet, Stays, Handshake
<1>5. CASE FwLengthRes
    <2>1. CASE bootloader_state' = "DONE"
        BY <1>5, <2>1, <1>follows DEF FwLengthRes, Await, comms_packet_available,
           comms_receive_packet, Stays
    <2>2. CASE bootloader_state' # "DONE"
        BY <1>5, <2>2 DEF FwLengthRes, Await, comms_packet_available,
           comms_receive_packet, temp_packet, Commits
    <2> QED BY <2>1, <2>2
<1>6. CASE EraseApplication
    <2>1. \A a \in 0..AREA - 1 : flash'[a] = Erased
        BY <1>6, LayoutAssumption
           DEF EraseApplication, bl_flash_erase_main_application, Erase
    <2> QED BY <1>6, <2>1 DEF EraseApplication, Erases
<1>7. CASE ReceiveFw
    <2>rx. /\ bootloader_state = "RECEIVE_FW" /\ running = "bootloader" /\ rx' = rx
           /\ incoming_packet_buffer # <<>>
           /\ incoming_packet_buffer' = Tail(incoming_packet_buffer)
        BY <1>7 DEF ReceiveFw, comms_packet_available, comms_receive_packet
    <2>1. CASE ~AcceptedLength(temp_packet)
        BY <1>7, <2>rx, <2>1, <1>follows DEF ReceiveFw, Stays
    <2>2. CASE AcceptedLength(temp_packet)
        <3>1. /\ bytes_written \in Nat /\ ChunkSize(temp_packet) \in Nat
            BY <2>rx, QueueType, ChunkSizeRange, BlockAssumption
               DEF InstalledInv, IInv, TypeOK, temp_packet
        <3>2. flash' = Written(flash, bytes_written, temp_packet, ChunkSize(temp_packet))
            BY <1>7, <2>2 DEF ReceiveFw
        <3>3. \E start, n \in Nat :
                 flash' = Written(flash, start, Head(incoming_packet_buffer), n)
            BY <3>1, <3>2 DEF temp_packet
        <3>4. \/ running' = "fault" /\ sent' = "nothing"
              \/ /\ running' = "bootloader"
                 /\ bootloader_state' \in {"RECEIVE_FW", "DONE"}
                 /\ sent' \in {"READY_FOR_DATA", "UPDATE_SUCCESSFUL", "NACK"}
                 /\ last_transmitted_packet' = sent'
                 /\ sent' = "UPDATE_SUCCESSFUL"
                      => bootloader_state' = "DONE" /\ Bootable(flash')
            BY <1>7, <2>rx, <2>2, ValidIsBootable DEF ReceiveFw
        <3>5. CASE running' = "fault" /\ sent' = "nothing"
            BY <2>rx, <3>5 DEF Stops, Granted
        <3> QED BY <2>rx, <3>3, <3>4, <3>5 DEF Fills
    <2> QED BY <2>1, <2>2
<1> QED BY <1>1, <1>2, <1>3, <1>4, <1>5, <1>6, <1>7 DEF Switch

LEMMA MovesOfDevice ==
    ASSUME InstalledInv, Device
    PROVE  DeviceMoves
<1> USE DEF DeviceMoves
<1>seq. rx \in Seq(OnTheWire)
    BY DEF InstalledInv, IInv, TypeOK
<1>1. CASE SyncMatch
    BY <1>1 DEF SyncMatch, InState, GoTo, comms_send_packet, Syncs, Up
<1>2. CASE SyncMismatch
    <2>1. rx # <<>> /\ rx' = Tail(rx)
        BY <1>2 DEF SyncMismatch
    <2>2. Follows(rx', rx)
        BY <1>seq, <2>1, FollowsTail
    <2>3. Up /\ bootloader_state = "SYNC" /\ last_transmitted_packet # "SYNC_OBSERVED"
        BY <1>2 DEF SyncMismatch, InState, InstalledInv, DeviceOK, Up
    <2> QED BY <1>2, <2>2, <2>3
            DEF SyncMismatch, bootloading_failed, comms_send_packet, SendNothing, Stays, Up
<1>3. CASE comms_update
    BY <1>3, CommsMoves
<1>4. CASE Switch
    BY <1>4, SwitchMoves
<1>5. CASE jump_to_main_app \/ CheckOverruns
    BY <1>5 DEF jump_to_main_app, CheckOverruns, Stops, Up, line
<1>6. CASE scb_reset_core
    BY <1>6, RestartMoves DEF scb_reset_core, InState, Up
<1> QED BY <1>1, <1>2, <1>3, <1>4, <1>5, <1>6 DEF Device, Done

LEMMA MovesOfFault ==
    ASSUME InstalledInv, FaultOnDevice
    PROVE  DeviceMoves
<1> USE DEF DeviceMoves
<1>seq. rx \in Seq(OnTheWire)
    BY DEF InstalledInv, IInv, TypeOK
<1>1. CASE LoseByte
    <2> DEFINE p == Truncated(WireLength(Head(rx)) - 1)
    <2>1. /\ rx # <<>> /\ rx' = [rx EXCEPT ![1] = p]
          /\ p.kind = "SHORT" /\ p.from = "control"
        BY <1>1 DEF LoseByte, Truncated
    <2> HIDE DEF p
    <2>2. /\ Len(rx) \in Nat \ {0} /\ Len(rx') = Len(rx)
          /\ \A n \in 1..Len(rx) : rx'[n] = IF n = 1 THEN p ELSE rx[n]
        <3>1. rx \in Seq(OnTheWire \cup {p}) /\ Len(rx) \in Nat \ {0}
            BY <1>seq, <2>1, EmptySeq, SeqMonotonic
        <3>2. 1 \in 1..Len(rx)
            BY <3>1
        <3> QED BY <2>1, <3>1, <3>2, ExceptSeq
    <2>3. Follows(rx', rx)
        <3>1. /\ 0 \in 0..Len(rx) /\ Len(rx') = Len(rx) - 0
              /\ \A n \in 1..Len(rx') :
                    \/ rx'[n] = rx[n + 0]
                    \/ rx'[n].kind = "SHORT" /\ rx'[n].from = "control"
            BY <2>1, <2>2
        <3> QED BY <3>1 DEF Follows
    <2>4. /\ UNCHANGED <<running, bootloader_state, incoming_packet_buffer,
                         last_transmitted_packet, flash>> /\ sent' = "nothing"
          /\ running # "app"
        BY <1>1 DEF LoseByte, Unmoved, InstalledInv, DeviceOK
    <2>5. Up /\ last_transmitted_packet = "SYNC_OBSERVED"
            => bootloader_state = "WAIT_FOR_FW_UPDATE_REQ"
        BY DEF InstalledInv, DeviceOK
    <2>6. CASE Up
        BY <2>3, <2>4, <2>5, <2>6 DEF Stays, Up
    <2>7. CASE ~Up
        BY <2>4, <2>7 DEF Stops, Up
    <2> QED BY <2>6, <2>7
<1>2. CASE PowerLoss /\ (running = "fault" => rx' = <<>>)
    <2>1. Restart /\ (flash' = flash \/ Granted)
        BY <1>2 DEF PowerLoss, PowerLossBetweenSteps, PowerLossWhileProgramming,
           PowerLossWhileErasing, InState, Granted, Up
    <2>2. running = "app" => rx' = <<>>
        <3>1. PICK k \in 0..Len(rx) : rx' = SubSeq(rx, k + 1, Len(rx))
            BY <2>1 DEF Restart
        <3>2. ASSUME running = "app" PROVE Len(rx) = 0 /\ k = 0
            BY <3>1, <3>2, EmptySeq DEF InstalledInv, DeviceOK
        <3> QED BY <3>1, <3>2, SubSeqEmpty
    <2>3. running \in {"bootloader", "app", "fault"}
        BY DEF InstalledInv, IInv, TypeOK
    <2> QED BY <1>2, <2>1, <2>2, <2>3, RestartMoves DEF Up
<1> QED BY <1>1, <1>2 DEF FaultOnDevice

LEMMA DeviceMovesKeep ==
    ASSUME InstalledInv, Hears, DeviceMoves
    PROVE  QueuesOK' /\ DeviceOK' /\ LineOK' /\ OwnSession' /\ ToldOK'
<1>1. QueuesOK'
    BY DEF Hears
<1> QED BY <1>1, ResetsKeep, StopsKeep, SyncsKeep, StaysKeep, CommitsKeep, ErasesKeep,
           FillsKeep DEF DeviceMoves

-----------------------------------------------------------------------------
(* Success.                                                                *)

LEMMA InstalledNext ==
    ASSUME InstalledInv, [SystemNext]_allVars
    PROVE  InstalledInv'
<1>1. HostInv' /\ IInv'
    BY SystemStep, IInvNext DEF InstalledInv
<1>2. CASE DeviceStep(Device)
    <2>1. Hears /\ DeviceMoves
        BY <1>1, <1>2, HearsDevice, MovesOfDevice DEF DeviceStep
    <2> QED BY <1>1, <2>1, DeviceMovesKeep DEF InstalledInv
<1>3. CASE MainStep \/ OnData \/ TimePasses
    <2>1. HostStep /\ QueuesOK'
        BY <1>3, MainStepKeeps, OnDataKeeps, TimePassesKeeps
    <2> QED BY <1>1, <2>1, HostStepKeeps DEF InstalledInv
<1>4. CASE Start
    BY <1>1, <1>4, StartKeeps DEF InstalledInv
<1>5. CASE FaultOnDevice
    <2>1. Hears /\ DeviceMoves
        BY <1>5, HearsNothing, MovesOfFault DEF FaultOnDevice
    <2> QED BY <1>1, <2>1, DeviceMovesKeep DEF InstalledInv
<1>6. CASE UNCHANGED allVars
    BY <1>1, <1>6
       DEF allVars, hostVars, vars, session, comms, line, InstalledInv, QueuesOK,
           DeviceOK, LineOK, OwnSession, ToldOK, Told, Greeted, Greeting, Reported, Up,
           Granted
<1> QED BY <1>2, <1>3, <1>4, <1>5, <1>6 DEF SystemNext

LEMMA InstalledInit == SystemInit => InstalledInv
<1> SUFFICES ASSUME SystemInit PROVE InstalledInv
    OBVIOUS
<1>1. HostInv /\ IInv
    BY HostInit, IInvInit DEF SystemInit
<1>2. /\ host_state = "off" /\ packets = <<>> /\ toHost = <<>>
      /\ lastPacket = Host!Single("ACK")
      /\ running = "bootloader" /\ bootloader_state = "SYNC"
      /\ rx = <<>> /\ incoming_packet_buffer = <<>>
      /\ last_transmitted_packet = "nothing"
    BY DEF SystemInit, Init, Host!InitHost
<1>3. host_state \in Host!Ended /\ host_state \notin Syncing \cup Linked
    BY <1>2 DEF Host!Ended, Syncing, Linked, Host!Waiting
<1>4. QueuesOK
    BY <1>2, <1>3 DEF QueuesOK, Host!Single, OwnPacket
<1>5. DeviceOK
    BY <1>2 DEF DeviceOK
<1>6. LineOK
    BY <1>2, <1>3, OrderTrivial DEF LineOK, Granted, Handshake
<1>7. OwnSession /\ ToldOK
    BY <1>2, <1>3 DEF OwnSession, ToldOK, Told, Greeted
<1> QED BY <1>1, <1>4, <1>5, <1>6, <1>7 DEF InstalledInv

\* When the updater reports success the device holds the very image it was
\* given, for every image, every packet size and every number of sessions,
\* packets damaged, bytes lost and power failures.
THEOREM Installed == SystemSpec => []SuccessMeansInstalled
<1>1. InstalledInv => SuccessMeansInstalled
    BY DEF InstalledInv, ToldOK, Told, SuccessMeansInstalled
<1>2. InstalledInv /\ [SystemNext]_allVars => InstalledInv'
    BY InstalledNext
<1> QED BY <1>1, <1>2, InstalledInit, PTL DEF SystemSpec

\* With an updater on the line the device is still no more than a slot whose
\* image changes in a granted session only.
THEOREM SystemImplementsSlot == SystemSpec => ImplementsUpdateSlot
BY Environment, Implementation, PTL DEF BootloaderSteps
=============================================================================
