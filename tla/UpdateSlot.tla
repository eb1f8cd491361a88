----------------------------- MODULE UpdateSlot -----------------------------
(***************************************************************************)
(* What the bootloader promises of the one slot it keeps an application    *)
(* in, with no flash cells, packets or timers: the slot holds a whole      *)
(* image or none, and changes only in a session a host has been granted.   *)
(***************************************************************************)
CONSTANTS Images, None      \* None is no image

VARIABLES slot, phase

slotVars == <<slot, phase>>

Init ==
    /\ slot \in Images \cup {None}
    /\ phase = "idle"

\* A host has asked for an update, named the device and a length that fits.
Grant ==
    /\ phase = "idle" /\ phase' = "erasing"
    /\ UNCHANGED slot

Erase ==
    /\ phase = "erasing" /\ phase' = "filling"
    /\ slot' = None

\* The bytes received amount to image i; an image is never replaced by another
\* without the slot being empty in between.
Fill(i) ==
    /\ phase = "filling" /\ slot = None
    /\ slot' = i
    /\ phase' \in {"filling", "idle"}

Close ==
    /\ phase = "filling" /\ phase' = "idle"
    /\ UNCHANGED slot

Launch ==
    /\ phase = "idle" /\ slot # None
    /\ phase' = "running"
    /\ UNCHANGED slot

\* The device stops until its power is cycled; the slot is not touched.
Hang ==
    /\ phase # "running" /\ phase' = "stuck"
    /\ UNCHANGED slot

\* A reset or a power loss.  In the middle of an erase it may cost the image,
\* in the middle of a write it may come after the last byte that matters.
Reboot ==
    /\ phase' = "idle"
    /\ \/ slot' = slot
       \/ phase = "erasing" /\ slot' = None
       \/ phase = "filling" /\ slot = None /\ slot' \in Images

Next ==
    \/ Grant \/ Erase \/ Close \/ Launch \/ Hang \/ Reboot
    \/ \E i \in Images : Fill(i)

Spec == Init /\ [][Next]_slotVars
=============================================================================
