----------------------------- MODULE MCImageMac -----------------------------
(***************************************************************************)
(* Images of blocks of four cells for TLC: every length of Lengths, with   *)
(* cells that are all code, or that end in cells that look like padding.   *)
(* In flash is a genuine image with the signature of any genuine image, or *)
(* one with a single cell changed (its version and length too) that still  *)
(* carries the signature of the original.                                  *)
(***************************************************************************)
EXTENDS CbcMac, ByteTables

CONSTANTS AREA, Lengths

Code == 10
OtherCode == 11
MCValues == 0..AREA

\* What lies behind an image in flash is erased.
ErasedCell == AREA
Image(n, tail) ==
    [a \in 0..AREA - 1 |->
        CASE a = LengthCell -> n
          [] a # LengthCell /\ a >= n -> ErasedCell
          [] a # LengthCell /\ a < n /\ a >= n - tail -> tail
          [] OTHER -> Code]

Genuine == {Image(n, tail) : n \in Lengths, tail \in 0..BLOCK}

\* An altered length stays inside the area here: a length past the end of
\* flash is the overrun of Bootloader.
AlteredOf(i) ==
    {[i EXCEPT ![a] = OtherCode] : a \in 0..Length(i) - 1 \ {LengthCell}}
        \cup {[i EXCEPT ![LengthCell] = n] : n \in Lengths}

MCKey == <<<<0, 17, 34, 51>>, <<68, 85, 102, 119>>, <<136, 153, 170, 187>>,
           <<204, 221, 238, 255>>>>

MCFlashed == (Genuine \X Genuine) \cup UNION {AlteredOf(i) \X {i} : i \in Genuine}
=============================================================================
