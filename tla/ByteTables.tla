----------------------------- MODULE ByteTables -----------------------------
(***************************************************************************)
(* What the proofs about Crc and Aes take from tables: finite facts, about *)
(* every byte or every pair of bytes, that TLC evaluates in full.          *)
(***************************************************************************)
EXTENDS Crc, Aes

Nibble == 0..15

ASSUME NibbleAssumption ==
    \A a, b \in Nibble :
        /\ XorNibble(a, b) \in Nibble
        /\ XorNibble(a, b) = XorNibble(b, a)
        /\ XorNibble(a, 0) = a /\ XorNibble(a, a) = 0
        /\ \A c \in Nibble : XorNibble(XorNibble(a, b), c) = XorNibble(a, XorNibble(b, c))

-----------------------------------------------------------------------------
(* The inner loop of crc8_compute.                                         *)

ASSUME ShiftedAssumption ==
    \A a, b \in Byte :
        /\ Shifted8[a + 1] \in Byte
        /\ Shifted8[Xor(a, b) + 1] = Xor(Shifted8[a + 1], Shifted8[b + 1])
        /\ Shifted8[a + 1] = Shifted8[b + 1] => a = b

\* A burst of up to seven bits over two bytes: the second does not take back what
\* the first has done to the CRC.
ASSUME BurstAssumption ==
    \A pattern \in ShortBursts, shift \in 0..7 :
        LET e1 == First(shift, pattern)
            e2 == Second(shift, pattern)
        IN  e1 \in Byte /\ e2 \in Byte /\ Shifted8[e1 + 1] # e2

-----------------------------------------------------------------------------
(* The tables and the arithmetic of AES.                                   *)

ASSUME SboxAssumption ==
    \A b \in Byte :
        /\ sbox_encrypt[b + 1] \in Byte /\ sbox_decrypt[b + 1] \in Byte
        /\ sbox_encrypt[b + 1] = SubByte[b + 1]
        /\ sbox_decrypt[sbox_encrypt[b + 1] + 1] = b

ASSUME RconAssumption == Doubled[129] = Rcon[9] /\ Doubled[28] = Rcon[10]

ASSUME MultAssumption ==
    \A b \in Byte :
        /\ \A m \in {1, 2, 3, 9, 11, 13, 14} : MultBy[m][b + 1] \in Byte
        /\ MultBy[1][b + 1] = b
        /\ MultBy[2][b + 1] = Product2[b + 1]
        /\ MultBy[3][b + 1] = Product3[b + 1]

ASSUME LinearAssumption ==
    \A m \in {9, 11, 13, 14}, a, b \in Byte :
        MultBy[m][Xor(a, b) + 1] = Xor(MultBy[m][a + 1], MultBy[m][b + 1])

\* The product of the two matrices, entry by entry, applied to a byte.
Entry(r, j, b) ==
    LET Term(i) == MultBy[InvMixMatrix[r][i]][MultBy[MixMatrix[i][j]][b + 1] + 1]
    IN  Xor(Xor(Term(1), Term(2)), Xor(Term(3), Term(4)))
ASSUME MatrixAssumption ==
    \A r, j \in 1..4, b \in Byte : Entry(r, j, b) = IF r = j THEN b ELSE 0
=============================================================================
