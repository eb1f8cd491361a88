------------------------------- MODULE Bytes -------------------------------
(***************************************************************************)
(* Bytes, and the ^ of C on them.                                          *)
(***************************************************************************)
EXTENDS Integers, Sequences

Byte == 0..255

Bit(b, k) == (b \div 2 ^ k) % 2

\* F of every byte, as a sequence: F(b) is at b + 1.  SubSeq has TLC evaluate it
\* once.
Table(F(_)) == SubSeq([n \in 1..256 |-> F(n - 1)], 1, 256)

XorOfNibbles ==
    Table(LAMBDA b :
        LET At(i) == IF Bit(b, i + 4) # Bit(b, i) THEN 2 ^ i ELSE 0
        IN  At(0) + At(1) + At(2) + At(3))
XorNibble(a, b) == XorOfNibbles[16 * a + b + 1]
Xor(a, b) == 16 * XorNibble(a \div 16, b \div 16) + XorNibble(a % 16, b % 16)
=============================================================================
