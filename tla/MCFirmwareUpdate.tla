-------------------------- MODULE MCFirmwareUpdate --------------------------
(***************************************************************************)
(* The images and flash of MCBootloader with an updater on the line.  A    *)
(* has 27 cells and takes four chunks, the last of three cells; the last   *)
(* chunk of B is a single cell; U is not signed.                           *)
(***************************************************************************)
EXTENDS FirmwareUpdate

MCImageLength == [i \in Images |-> CASE i = "A" -> 27 [] i = "B" -> 25 [] OTHER -> 26]
MCFileDevice == [i \in Images |-> DEVICE_ID]
MCSectorStart == <<0, 0, 4, 11, 20, 28, 34, 40>>
MCSectors == [s \in 2..8 |-> MCSectorStart[s]]
MCTornErasures == {{}, {LengthCell}}

MCHostPackets == LinePackets
=============================================================================
