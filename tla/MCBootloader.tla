---------------------------- MODULE MCBootloader ----------------------------
(***************************************************************************)
(* A small bootloader for TLC.  A block is 8 cells; an image's first block *)
(* is code, the second its information, the third its signature, and more  *)
(* code follows.  A and B are signed images of different lengths, U is one *)
(* the signer has not seen.                                                *)
(*                                                                         *)
(* The open environment is bounded by counting its mishaps: a packet the   *)
(* protocol does not expect in the device's state, a lost byte and a power *)
(* loss are one mishap each.  The packets of Stream cost none: the host    *)
(* may send them in any state for ever.                                    *)
(***************************************************************************)
EXTENDS BootloaderLoop

CONSTANTS MaxMishaps,
          Stream            \* packets that cost no mishap in any state, however many

MCImages == {"A", "B", "U"}
MCSigned == {"A", "B"}
MCImageLength == [i \in MCImages |-> CASE i = "A" -> 27 [] i = "B" -> 25 [] OTHER -> 26]
MCSectorStart == <<0, 0, 4, 11, 20, 28, 34, 40>>
MCSectors == [s \in 2..8 |-> MCSectorStart[s]]

\* A torn erase has reached everything, nothing, or in the sector of the
\* information block only the length field.
MCTornErasures == {{}, 0..AREA - 1, {LengthCell}}

Control(kind, length, arg) ==
    [kind |-> kind, length |-> length, arg |-> arg, from |-> "control"]
Chunk(i, offset, n) ==
    [kind |-> "DATA", length |-> n - 1, arg |-> offset, from |-> i]

LineNoise == {Control(k, 1, 0) : k \in {"ACK", "RETX", "CORRUPT", "BAD_SYNC"}}
Handshake == {Control("SYNC", 1, 0), Control("FW_UPDATE_REQ", 1, 0),
              Control("DEVICE_ID_RES", 2, DEVICE_ID), Control("FW_LENGTH_RES", 5, 27)}
ChunksOfA == {Chunk("A", 0, 8), Chunk("A", 8, 8), Chunk("A", 16, 8), Chunk("A", 24, 3)}

\* Answers for another device, lengths that are wrong or too long, a piece of
\* another image, a chunk of one cell (its length field is 0) and one whose
\* length field is a whole block.
OddPackets ==
    {Control("DEVICE_ID_RES", 2, 1)}
        \cup {Control("FW_LENGTH_RES", 5, n) : n \in {0, MAX_FW_LENGTH + 1}}
        \cup {Chunk("U", 8, 8), Chunk("A", 24, 1), Chunk("A", 24, 9)}

MCHostPackets == LineNoise \cup Handshake \cup ChunksOfA \cup OddPackets
MCFewPackets == {Control("RETX", 1, 0), Control("CORRUPT", 1, 0)} \cup Handshake \cup ChunksOfA

MCStream == {Control("RETX", 1, 0)}

VARIABLES mishaps,
          timed_out         \* the state a timeout has ended, until the next reset

mcVars == <<loopVars, mishaps, timed_out>>

Expected(p) ==
    CASE bootloader_state = "SYNC" -> p.kind = "SYNC"
      [] bootloader_state = "WAIT_FOR_FW_UPDATE_REQ" -> p.kind = "FW_UPDATE_REQ"
      [] bootloader_state = "DEVICE_ID_RES" ->
            p.kind = "DEVICE_ID_RES" /\ p.arg = DEVICE_ID
      [] bootloader_state = "FW_LENGTH_RES" -> p.kind = "FW_LENGTH_RES"
      [] bootloader_state = "RECEIVE_FW" ->
            p.from \in Images /\ p.arg = bytes_written
      [] OTHER -> FALSE

Mishap == mishaps < MaxMishaps /\ mishaps' = mishaps + 1

NoteTimeout ==
    timed_out' =
        IF bootloader_state' # "DONE" THEN "none"
        ELSE IF bootloader_state # "DONE" /\ simple_timer_has_elapsed /\ ~comms_packet_available
        THEN bootloader_state
        ELSE timed_out

MCInit == LoopInit /\ mishaps = 0 /\ timed_out = "none"

MCNext ==
    /\ \/ (MainLoop \/ SysTick) /\ UNCHANGED mishaps
       \/ \E p \in HostPackets :
            Send(p) /\ (IF Expected(p) \/ p \in Stream THEN UNCHANGED mishaps ELSE Mishap)
       \/ (Lose \/ Reset) /\ Mishap
    /\ NoteTimeout

MCSpec == MCInit /\ [][MCNext]_mcVars /\ Fairness

-----------------------------------------------------------------------------
\* DOCUMENTATION.md:440-441, of every protocol state: "on timeout the bootloader emits
\* NACK and refuses to jump".  README.md:151 takes only the SYNC state out.  Violated:
\* bootloading_failed goes to DONE, which starts whatever valid image there is.
TimeoutRefusesToJump ==
    [][timed_out \notin {"none", "SYNC"} => running' # "app"]_mcVars
=============================================================================
