---------------------------- MODULE HostFraming ----------------------------
(***************************************************************************)
(* The updater's receiver a byte at a time: the 'data' handler of index.ts *)
(* collects the bytes of one read of the port after the other, however the *)
(* operating system has cut them, and takes packets from the front.        *)
(* Updater has it a packet at a time.                                      *)
(*                                                                         *)
(* Definitions named Mutant... are deliberate mistakes no specification    *)
(* uses.                                                                   *)
(***************************************************************************)
EXTENDS Crc

CONSTANTS
    Replies,    \* what the device sends: sequences of [name, bytes]
    Reads       \* how many bytes a read of the port may return

PACKET_LENGTH == 18
PACKET_DATA_BYTES == 16

VARIABLES
    replies, taken,         \* the line, and the packets taken from rxBuffer
    unread,                 \* its bytes that no read has returned
    rxBuffer,
    packets,
    lastPacket,
    written                 \* the packet this step writes, or <<>>

hostVars == <<replies, taken, unread, rxBuffer, packets, lastPacket, written>>

-----------------------------------------------------------------------------
\* The loop of crc8 in index.ts is the device's.
crc8(data) == crc8_compute(data)
computeCrc(raw) == crc8(SubSeq(raw, 1, PACKET_LENGTH - 1))

\* new Packet(length, data).toBuffer()
toBuffer(length, data) ==
    LET padding == [k \in 1..PACKET_DATA_BYTES - Len(data) |-> 255]
        body == <<length>> \o data \o padding
    IN  Append(body, crc8(body))
createSingleBytePacket(byte) == toBuffer(1, <<byte>>)

retx == createSingleBytePacket(25)
ack == createSingleBytePacket(21)

isSingleBytePacket(raw, byte) ==
    /\ raw[1] = 1 /\ raw[2] = byte
    /\ \A k \in 3..PACKET_LENGTH - 1 : raw[k] = 255

\* What the device sends, one packet after the other.  None of its bytes are lost,
\* and a damaged packet is noticed.
ASSUME RepliesAssumption ==
    \A list \in Replies :
        /\ list \in Seq([name : STRING, bytes : Seq(Byte)])
        /\ \A k \in 1..Len(list) :
            /\ Len(list[k].bytes) = PACKET_LENGTH
            /\ list[k].name = "CORRUPT" <=>
                    list[k].bytes[PACKET_LENGTH] # computeCrc(list[k].bytes)
            /\ list[k].name = "RETX" <=> list[k].bytes = retx
            /\ list[k].name = "ACK" <=> list[k].bytes = ack
            /\ \A j \in 1..Len(list) :
                    list[j].bytes = list[k].bytes => list[j].name = list[k].name
ASSUME ReadsAssumption == Reads \subseteq Nat \ {0}

BytesOf(list) ==
    [n \in 1..PACKET_LENGTH * Len(list) |->
        list[(n - 1) \div PACKET_LENGTH + 1].bytes[((n - 1) % PACKET_LENGTH) + 1]]

InitHost(list) ==
    /\ replies = list /\ taken = 0
    /\ unread = BytesOf(replies)
    /\ rxBuffer = <<>> /\ packets = <<>>
    /\ lastPacket = ack
    /\ written = <<>>

-----------------------------------------------------------------------------
\* A read returns up to n bytes, and the handler runs to its end.
OnRead(n) ==
    /\ Len(rxBuffer) < PACKET_LENGTH /\ unread # <<>>
    /\ LET m == IF n < Len(unread) THEN n ELSE Len(unread) IN
       /\ rxBuffer' = rxBuffer \o SubSeq(unread, 1, m)
       /\ unread' = SubSeq(unread, m + 1, Len(unread))
    /\ written' = <<>>
    /\ UNCHANGED <<replies, taken, packets, lastPacket>>

writePacket(p) == written' = p /\ lastPacket' = p

raw == SubSeq(rxBuffer, 1, PACKET_LENGTH)

\* What lies behind the packet is thrown away with it.
MutantRest == <<>>
Rest == SubSeq(rxBuffer, PACKET_LENGTH + 1, Len(rxBuffer))

consumeFromBuffer ==
    /\ Len(rxBuffer) >= PACKET_LENGTH
    /\ rxBuffer' = Rest
    /\ taken' = taken + 1
    /\ UNCHANGED <<replies, unread>>

CrcMatches == raw[PACKET_LENGTH] = computeCrc(raw)

HostDamaged ==
    /\ consumeFromBuffer /\ ~CrcMatches
    /\ writePacket(retx) /\ UNCHANGED packets

HostRetx ==
    /\ consumeFromBuffer /\ CrcMatches /\ isSingleBytePacket(raw, 25)
    /\ writePacket(lastPacket) /\ UNCHANGED packets

HostAck ==
    /\ consumeFromBuffer /\ CrcMatches /\ isSingleBytePacket(raw, 21)
    /\ written' = <<>> /\ UNCHANGED <<packets, lastPacket>>

HostQueue ==
    /\ consumeFromBuffer /\ CrcMatches
    /\ ~isSingleBytePacket(raw, 25) /\ ~isSingleBytePacket(raw, 21)
    /\ packets' = Append(packets, raw)
    /\ writePacket(ack)

\* One turn of the while loop.
OnPacket == HostDamaged \/ HostRetx \/ HostAck \/ HostQueue

HostNext == OnPacket \/ \E n \in Reads : OnRead(n)

HostSpec == (\E list \in Replies : InitHost(list)) /\ [][HostNext]_hostVars

-----------------------------------------------------------------------------
(* Properties.                                                             *)

ReplyName(bytes) ==
    IF \E k \in DOMAIN replies : replies[k].bytes = bytes
    THEN replies[CHOOSE k \in DOMAIN replies : replies[k].bytes = bytes].name
    ELSE "invented"

Record(bytes) ==
    LET Single(kind) == [kind |-> kind, length |-> 1, arg |-> 0, from |-> "control"] IN
    IF bytes = <<>> THEN [Single("nothing") EXCEPT !.length = 0]
    ELSE IF bytes[2] = 25 THEN Single("RETX") ELSE Single("ACK")

Names == [k \in DOMAIN packets |-> ReplyName(packets[k])]

Main == INSTANCE Updater WITH
    SYNC_TIMEOUT <- 5, ERASE_DELAY <- 3, VALIDATION_TIMEOUT <- 10,
    Files <- {}, FileLength <- <<>>, FileDevice <- <<>>,
    host_state <- "sync", fwImage <- 0, byteWritten <- 0, timeWaited <- 0,
    packets <- Names, lastPacket <- Record(lastPacket), written <- Record(written)

\* However the port cuts the line into reads, the handler takes the packets the
\* device sent, one after the other, and does with each what Updater says; one
\* that was damaged, by a burst of up to seven bits, it asks for again.
OnDataSteps ==
    [][taken' = taken + 1 /\ Main!OnData(replies[taken'].name)]_<<taken, Names, lastPacket>>
=============================================================================
