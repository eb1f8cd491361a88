----------------------------- MODULE MCFraming -----------------------------
(***************************************************************************)
(* Both receivers for TLC, one at a time: a line to the device, or one to  *)
(* the updater, with at most one fault.                                    *)
(***************************************************************************)
EXTENDS Framing, HostFraming

CONSTANTS BurstBits, FewBursts

\* Patterns of damage, the first bit among it.  BurstBits = 8 is too many for the
\* CRC.
AllBursts == {2 * n + 1 : n \in 0..2 ^ (BurstBits - 1) - 1}

Item(kind, length, bytes) ==
    [packet |-> [kind |-> kind, length |-> length, arg |-> 0, from |-> "control"],
     bytes |-> bytes]

Sync == Item("SYNC", 1, SyncSequence)
Request == Item("FW_UPDATE_REQ", 1, comms_create_single_byte_packet(49))
Again == Item("RETX", 1, comms_create_single_byte_packet(25))

\* A chunk of a vector table, a last chunk, one of two bytes, and one that reads as ACK.
Chunk == Item("DATA", 15, NewPacket(15, <<0, 0, 2, 32, 253, 129, 0, 8, 249, 129, 0, 8,
                                          251, 129, 0, 8>>))
Last == Item("DATA", 6, NewPacket(6, <<16, 189, 0, 191, 1, 0, 255>>))
Short == Item("DATA", 1, NewPacket(1, <<21, 7>>))
Lookalike == Item("ACK", 1, NewPacket(1, <<21, 255>>))

Burst(i, start, pattern) ==
    Item(IF i = Sync THEN "BAD_SYNC" ELSE "CORRUPT", 1, Hit(i.bytes, start, pattern))
Lost(i, k) ==
    Item("SHORT", Len(i.bytes) - 1, SubSeq(i.bytes, 1, k - 1) \o SubSeq(i.bytes, k + 1, Len(i.bytes)))

Waiting(items) == [state |-> "WAIT_FOR_FW_UPDATE_REQ", items |-> items]
Syncing(items) == [state |-> "SYNC", items |-> items]

Transfer == <<Request, Chunk, Lookalike, Again, Short, Chunk>>

Hits(list, patterns) ==
    UNION {{[list EXCEPT ![k] = Burst(list[k], start, pattern)] :
                start \in Starts(list[k].bytes, pattern)} :
            k \in DOMAIN list, pattern \in patterns}
Losses(list) ==
    UNION {{[list EXCEPT ![k] = Lost(list[k], b)] : b \in DOMAIN list[k].bytes} : k \in DOMAIN list}

MCLines ==
    {Waiting(l) : l \in {<<>>} \cup Hits(<<Chunk>>, AllBursts)
                        \cup Hits(<<Request, Chunk, Last>>, FewBursts) \cup Losses(Transfer)}
    \cup {Syncing(l) : l \in {<<Chunk, Sync, Sync>> \o Transfer, <<Lost(Sync, 4), Sync>> \o Transfer}
                             \cup Losses(<<Sync, Sync, Request>>)
                             \cup Hits(<<Sync, Sync>>, FewBursts)}

Reply(name, bytes) == [name |-> name, bytes |-> bytes]
Exchange ==
    <<Reply("SYNC_OBSERVED", createSingleBytePacket(32)), Reply("ACK", ack),
      Reply("RETX", retx), Reply("UPDATE_SUCCESSFUL", createSingleBytePacket(84))>>
MCReplies ==
    {<<>>, Exchange}
    \cup UNION {{[Exchange EXCEPT ![k] = Reply("CORRUPT", Hit(Exchange[k].bytes, start, pattern))] :
                    start \in Starts(ack, pattern)} : k \in DOMAIN Exchange, pattern \in FewBursts}

Init ==
    \/ \E l \in Lines : InitDevice(l) /\ InitHost(<<>>)
    \/ \E list \in Replies : InitDevice(Waiting(<<>>)) /\ InitHost(list)
Next == (DeviceNext /\ UNCHANGED hostVars) \/ (HostNext /\ UNCHANGED deviceVars)
Spec == Init /\ [][Next]_<<deviceVars, hostVars>>
=============================================================================
