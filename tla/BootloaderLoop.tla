---------------------------- MODULE BootloaderLoop ----------------------------
(***************************************************************************)
(* The bootloader with the main loop's order of steps, for what must       *)
(* happen eventually.  An iteration calls comms_update, which goes on as   *)
(* long as the UART has data, and only when it has returned does the       *)
(* switch look at the state and at the time.  Every step is one of         *)
(* Bootloader or leaves its variables alone.                               *)
(*                                                                         *)
(* rx holds here what has reached the UART's ring: a packet still on the   *)
(* wire is one the host has yet to send.                                   *)
(***************************************************************************)
EXTENDS Bootloader

VARIABLE place          \* "loop": before or in comms_update; "switch": behind it

loopVars == <<vars, place>>

LoopInit == Init /\ place = "loop"

-----------------------------------------------------------------------------
(* The CPU.                                                                *)

\* The SYNC state does without comms_update: it looks at the time after each byte
\* that does not match and whenever there is none.
SyncTurn ==
    /\ SyncMatch \/ SyncMismatch \/ (InState("SYNC") /\ rx = <<>> /\ Timeout)
    /\ UNCHANGED place

InCommsUpdate ==
    /\ running = "bootloader" /\ bootloader_state \notin {"SYNC", "DONE"}
    /\ place = "loop"

Take == InCommsUpdate /\ comms_update /\ UNCHANGED place

\* while(uart_data_available()) ends when the ring is empty; the host may have sent
\* more while the answer to its last packet was written.
Leave ==
    /\ InCommsUpdate /\ rx = <<>>
    /\ place' = "switch"
    /\ UNCHANGED vars

Turn == place = "switch" /\ Switch /\ place' = "loop"

\* A state that waits, with neither a packet nor a timeout.
IdleTurn ==
    /\ place = "switch"
    /\ bootloader_state \in {"WAIT_FOR_FW_UPDATE_REQ", "DEVICE_ID_RES", "FW_LENGTH_RES",
                             "RECEIVE_FW"}
    /\ ~comms_packet_available /\ ~simple_timer_has_elapsed
    /\ place' = "loop"
    /\ UNCHANGED vars

AfterLoop == Done /\ UNCHANGED place

MainLoop == SyncTurn \/ Take \/ Leave \/ Turn \/ IdleTurn \/ AfterLoop

-----------------------------------------------------------------------------
(* The environment.                                                        *)

Send(p) == HostSend(p) /\ UNCHANGED place
Lose == LoseByte /\ UNCHANGED place
SysTick == Tick /\ UNCHANGED place
Reset == PowerLoss /\ place' = "loop"

LoopNext == MainLoop \/ (\E p \in HostPackets : Send(p)) \/ Lose \/ SysTick \/ Reset

\* The CPU goes on, at whatever step of the loop it is, and SysTick fires.  Nothing is
\* assumed of host, line and power.
Fairness == WF_loopVars(MainLoop) /\ WF_loopVars(SysTick)

LoopSpec == LoopInit /\ [][LoopNext]_loopVars /\ Fairness

-----------------------------------------------------------------------------
(* Properties.                                                             *)

\* comms_update returns again and again: the host leaves it time to.
CommsUpdateReturns == []<>~InCommsUpdate

\* Every session ends, whatever the host sends or withholds, as long as what it sends
\* lets comms_update return (comms.c:115) and power stays on: the loop reaches DONE again
\* and again, or an application or a fault has the CPU.  A host that answers every
\* RETX with another may repeat that for ever, but not past the timeout.  Without the
\* first proviso it is false, though DOCUMENTATION.md:440 gives every state a timeout:
\* check_for_timeout is behind comms_update.
SessionsEnd ==
    (<>[][~PowerLoss]_vars /\ CommsUpdateReturns) =>
        []<>(bootloader_state = "DONE" \/ running # "bootloader")

\* A device that keeps a bootable image and has not faulted starts it once the host and
\* the power supply leave it alone, in whatever state.  README.md:151 says so of the
\* timeout in SYNC; for one in a later state see TimeoutRefusesToJump.
BootsWhenLeftAlone ==
    (<>[][Device \/ Tick]_vars /\ <>[](Bootable(flash) /\ running # "fault"))
        => <>[](running = "app")

=============================================================================
