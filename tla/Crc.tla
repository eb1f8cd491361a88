-------------------------------- MODULE Crc --------------------------------
(***************************************************************************)
(* The CRC-8 of a packet, on bytes: polynomial x^8 + x^2 + x + 1, initial  *)
(* value 0.  What depends on a single byte is tabulated once.              *)
(*                                                                         *)
(* Definitions named Mutant... are deliberate mistakes no specification    *)
(* uses.                                                                   *)
(***************************************************************************)
EXTENDS Bytes

\* Left shift of a uint8_t; what leaves it to the left is replaced by the rest of
\* the polynomial.  A mistake: it is not.
MutantShifted(crc) == (2 * crc) % 256
Shifted(crc) == IF crc >= 128 THEN Xor((2 * crc) % 256, 7) ELSE 2 * crc

Shifted8 ==
    Table(LAMBDA b :
        Shifted(Shifted(Shifted(Shifted(Shifted(Shifted(Shifted(Shifted(b)))))))))

crc8_compute(data) ==
    LET crc[i \in 0..Len(data)] ==
            IF i = 0 THEN 0 ELSE Shifted8[Xor(crc[i - 1], data[i]) + 1]
    IN  crc[Len(data)]

-----------------------------------------------------------------------------
(* A burst of damage on the line: the bits of pattern, from the bit start  *)
(* on.  The lowest bit of a byte goes first.                               *)

ShortBursts == 1..127
First(start, pattern) == (pattern * 2 ^ (start % 8)) % 256
Second(start, pattern) == (pattern * 2 ^ (start % 8)) \div 256
Hit(bytes, start, pattern) ==
    LET b == start \div 8 + 1
    IN  [k \in DOMAIN bytes |->
            CASE k = b -> Xor(bytes[k], First(start, pattern))
              [] k = b + 1 -> Xor(bytes[k], Second(start, pattern))
              [] OTHER -> bytes[k]]
Starts(bytes, pattern) ==
    {start \in 0..8 * Len(bytes) - 1 :
        start \div 8 = Len(bytes) - 1 => Second(start, pattern) = 0}
=============================================================================
