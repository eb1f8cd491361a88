-------------------------------- MODULE Aes --------------------------------
(***************************************************************************)
(* AES-128 as the bootloader has it in aes.c, and as FIPS-197 has it and   *)
(* openssl, which the fw-signer calls, implements it.                      *)
(*                                                                         *)
(* A block is a tuple of four columns of four bytes, as AES_Block_t is.    *)
(* Tuples, not functions: TLC evaluates them once.                         *)
(*                                                                         *)
(* Definitions named Mutant... are deliberate mistakes no specification    *)
(* uses.                                                                   *)
(***************************************************************************)
EXTENDS Bytes

NUM_ROUND_KEYS_128 == 11

AES_Block_t == [1..4 -> [1..4 -> Byte]]

Each(F(_)) == <<F(1), F(2), F(3), F(4)>>

-----------------------------------------------------------------------------
(* GF(2^8).                                                                *)

\* What leaves a byte to the left comes back as the irreducible polynomial.
Doubled == Table(LAMBDA a : IF a >= 128 THEN Xor((2 * a) % 256, 27) ELSE 2 * a)

\* The loop over the bits of b, lowest first: <<result, a, b>>.
MultStep(s) ==
    <<IF s[3] % 2 = 1 THEN Xor(s[1], s[2]) ELSE s[1], Doubled[s[2] + 1], s[3] \div 2>>
GF_Mult(a, b) ==
    MultStep(MultStep(MultStep(MultStep(MultStep(MultStep(MultStep(MultStep(
        <<0, a, b>>))))))))[1]

\* By the factors of the two matrices: MultBy[a][b + 1].
MultBy == SubSeq([a \in 1..14 |-> Table(LAMBDA b : GF_Mult(a, b))], 1, 14)

GF_WordAdd(a, b) == Each(LAMBDA r : Xor(a[r], b[r]))

sbox_encrypt ==
    <<99, 124, 119, 123, 242, 107, 111, 197, 48, 1, 103, 43, 254, 215, 171, 118, 202, 130, 201, 125,
      250, 89, 71, 240, 173, 212, 162, 175, 156, 164, 114, 192, 183, 253, 147, 38, 54, 63, 247, 204,
      52, 165, 229, 241, 113, 216, 49, 21, 4, 199, 35, 195, 24, 150, 5, 154, 7, 18, 128, 226,
      235, 39, 178, 117, 9, 131, 44, 26, 27, 110, 90, 160, 82, 59, 214, 179, 41, 227, 47, 132,
      83, 209, 0, 237, 32, 252, 177, 91, 106, 203, 190, 57, 74, 76, 88, 207, 208, 239, 170, 251,
      67, 77, 51, 133, 69, 249, 2, 127, 80, 60, 159, 168, 81, 163, 64, 143, 146, 157, 56, 245,
      188, 182, 218, 33, 16, 255, 243, 210, 205, 12, 19, 236, 95, 151, 68, 23, 196, 167, 126, 61,
      100, 93, 25, 115, 96, 129, 79, 220, 34, 42, 144, 136, 70, 238, 184, 20, 222, 94, 11, 219,
      224, 50, 58, 10, 73, 6, 36, 92, 194, 211, 172, 98, 145, 149, 228, 121, 231, 200, 55, 109,
      141, 213, 78, 169, 108, 86, 244, 234, 101, 122, 174, 8, 186, 120, 37, 46, 28, 166, 180, 198,
      232, 221, 116, 31, 75, 189, 139, 138, 112, 62, 181, 102, 72, 3, 246, 14, 97, 53, 87, 185,
      134, 193, 29, 158, 225, 248, 152, 17, 105, 217, 142, 148, 155, 30, 135, 233, 206, 85, 40, 223,
      140, 161, 137, 13, 191, 230, 66, 104, 65, 153, 45, 15, 176, 84, 187, 22>>

sbox_decrypt ==
    <<82, 9, 106, 213, 48, 54, 165, 56, 191, 64, 163, 158, 129, 243, 215, 251, 124, 227, 57, 130,
      155, 47, 255, 135, 52, 142, 67, 68, 196, 222, 233, 203, 84, 123, 148, 50, 166, 194, 35, 61,
      238, 76, 149, 11, 66, 250, 195, 78, 8, 46, 161, 102, 40, 217, 36, 178, 118, 91, 162, 73,
      109, 139, 209, 37, 114, 248, 246, 100, 134, 104, 152, 22, 212, 164, 92, 204, 93, 101, 182, 146,
      108, 112, 72, 80, 253, 237, 185, 218, 94, 21, 70, 87, 167, 141, 157, 132, 144, 216, 171, 0,
      140, 188, 211, 10, 247, 228, 88, 5, 184, 179, 69, 6, 208, 44, 30, 143, 202, 63, 15, 2,
      193, 175, 189, 3, 1, 19, 138, 107, 58, 145, 17, 65, 79, 103, 220, 234, 151, 242, 207, 206,
      240, 180, 230, 115, 150, 172, 116, 34, 231, 173, 53, 133, 226, 249, 55, 232, 28, 117, 223, 110,
      71, 241, 26, 113, 29, 41, 197, 137, 111, 183, 98, 14, 170, 24, 190, 27, 252, 86, 62, 75,
      198, 210, 121, 32, 154, 219, 192, 254, 120, 205, 90, 244, 31, 221, 168, 51, 136, 7, 199, 49,
      177, 18, 16, 89, 39, 128, 236, 95, 96, 81, 127, 169, 25, 181, 74, 13, 45, 229, 122, 159,
      147, 201, 156, 239, 160, 224, 59, 77, 174, 42, 245, 176, 200, 235, 187, 60, 131, 83, 153, 97,
      23, 43, 4, 126, 186, 119, 214, 38, 225, 105, 20, 99, 85, 33, 12, 125>>

-----------------------------------------------------------------------------
(* The key schedule.                                                       *)

Rcon == <<1, 2, 4, 8, 16, 32, 64, 128, 27, 54>>

MutantRotWord(w) == <<w[4], w[1], w[2], w[3]>>
AES_RotWord(w) == <<w[2], w[3], w[4], w[1]>>
AES_SubWord(w, table) == Each(LAMBDA r : table[w[r] + 1])

\* The round key after k, the n-th.
NextRoundKey(k, n) ==
    LET col3 == GF_WordAdd(AES_SubWord(AES_RotWord(k[4]), sbox_encrypt), <<Rcon[n], 0, 0, 0>>)
        w1 == GF_WordAdd(col3, k[1])
        w2 == GF_WordAdd(w1, k[2])
        w3 == GF_WordAdd(w2, k[3])
    IN  <<w1, w2, w3, GF_WordAdd(w3, k[4])>>
AES_KeySchedule128(key) ==
    LET keys[n \in 1..NUM_ROUND_KEYS_128] ==
            IF n = 1 THEN <<key>>
            ELSE Append(keys[n - 1], NextRoundKey(keys[n - 1][n - 1], n - 1))
    IN  keys[NUM_ROUND_KEYS_128]

-----------------------------------------------------------------------------
(* A block.                                                                *)

AES_SubBytes(s, table) == Each(LAMBDA c : AES_SubWord(s[c], table))

AES_ShiftRows(s) ==
    <<<<s[1][1], s[2][2], s[3][3], s[4][4]>>, <<s[2][1], s[3][2], s[4][3], s[1][4]>>,
      <<s[3][1], s[4][2], s[1][3], s[2][4]>>, <<s[4][1], s[1][2], s[2][3], s[3][4]>>>>

\* Row 3 moves the way row 1 does.
MutantInvShiftRows(s) ==
    <<<<s[1][1], s[4][2], s[3][3], s[4][4]>>, <<s[2][1], s[1][2], s[4][3], s[1][4]>>,
      <<s[3][1], s[2][2], s[1][3], s[2][4]>>, <<s[4][1], s[3][2], s[2][3], s[3][4]>>>>
AES_InvShiftRows(s) ==
    <<<<s[1][1], s[4][2], s[3][3], s[2][4]>>, <<s[2][1], s[1][2], s[4][3], s[3][4]>>,
      <<s[3][1], s[2][2], s[1][3], s[4][4]>>, <<s[4][1], s[3][2], s[2][3], s[1][4]>>>>

Times(matrix, w) ==
    Each(LAMBDA r :
        Xor(Xor(MultBy[matrix[r][1]][w[1] + 1], MultBy[matrix[r][2]][w[2] + 1]),
            Xor(MultBy[matrix[r][3]][w[3] + 1], MultBy[matrix[r][4]][w[4] + 1])))

MixMatrix == <<<<2, 3, 1, 1>>, <<1, 2, 3, 1>>, <<1, 1, 2, 3>>, <<3, 1, 1, 2>>>>
AES_MixColumns(s) == Each(LAMBDA c : Times(MixMatrix, s[c]))

InvMixMatrix ==
    <<<<14, 11, 13, 9>>, <<9, 14, 11, 13>>, <<13, 9, 14, 11>>, <<11, 13, 9, 14>>>>
AES_InvMixColumns(s) == Each(LAMBDA c : Times(InvMixMatrix, s[c]))

AES_AddRoundKey(s, k) == Each(LAMBDA c : GF_WordAdd(s[c], k[c]))

\* The columns are mixed in the last round too.
MutantMixed(s, i) == AES_MixColumns(s)
Mixed(s, i) == IF i < NUM_ROUND_KEYS_128 - 1 THEN AES_MixColumns(s) ELSE s

\* A round is a function of the block: the argument of a function TLC evaluates
\* at once, that of an operator where it is used.
EncryptRound(i, keys) ==
    [t \in AES_Block_t |->
        AES_AddRoundKey(Mixed(AES_ShiftRows(AES_SubBytes(t, sbox_encrypt)), i), keys[i + 1])]
AES_EncryptBlock(s, keys) ==
    LET after[i \in 0..NUM_ROUND_KEYS_128 - 1] ==
            IF i = 0 THEN AES_AddRoundKey(s, keys[1]) ELSE EncryptRound(i, keys)[after[i - 1]]
    IN  after[NUM_ROUND_KEYS_128 - 1]

UnmixedColumns(s, i) == IF i # 1 THEN AES_InvMixColumns(s) ELSE s
DecryptRound(i, keys) ==
    [t \in AES_Block_t |->
        AES_SubBytes(AES_InvShiftRows(UnmixedColumns(
                AES_AddRoundKey(t, keys[NUM_ROUND_KEYS_128 + 1 - i]), i)),
            sbox_decrypt)]
AES_DecryptBlock(s, keys) ==
    LET after[i \in 0..NUM_ROUND_KEYS_128 - 1] ==
            IF i = 0 THEN s ELSE DecryptRound(i, keys)[after[i - 1]]
    IN  AES_AddRoundKey(after[NUM_ROUND_KEYS_128 - 1], keys[1])

-----------------------------------------------------------------------------
(* FIPS-197, from what it defines and not from the tables it prints.  Bytes *)
(* and words are numbered as there.                                        *)

\* 4.2: a product of polynomials modulo x^8 + x^4 + x^3 + x + 1, by Horner's rule.
Product(a, b) ==
    LET Horner(acc, k) == Xor(Doubled[acc + 1], IF Bit(b, k) = 1 THEN a ELSE 0)
    IN  Horner(Horner(Horner(Horner(Horner(Horner(Horner(Horner(0, 7), 6), 5), 4), 3), 2), 1), 0)

\* 5.1.1: the inverse, then an affine transformation.
MultInverse(b) == IF b = 0 THEN 0 ELSE CHOOSE c \in Byte : Product(b, c) = 1
Affine(b) ==
    LET Sum(i) == Bit(b, i) + Bit(b, (i + 4) % 8) + Bit(b, (i + 5) % 8) + Bit(b, (i + 6) % 8)
                  + Bit(b, (i + 7) % 8) + Bit(99, i)
        At(i) == (Sum(i) % 2) * 2 ^ i
    IN  At(0) + At(1) + At(2) + At(3) + At(4) + At(5) + At(6) + At(7)
SubByte == Table(LAMBDA b : Affine(MultInverse(b)))

\* 5.2: every word is the sum of the one before, transformed at each fourth, and
\* the one four before.
IsKeyExpansion(keys, key) ==
    LET w(i) == keys[(i \div 4) + 1][(i % 4) + 1]
        RoundConstant == <<1, 2, 4, 8, 16, 32, 64, 128, Doubled[129], Doubled[28]>>
        Transformed(i) ==
            IF i % 4 # 3 THEN w(i)
            ELSE Each(LAMBDA r : Xor(SubByte[w(i)[(r % 4) + 1] + 1],
                                     IF r = 1 THEN RoundConstant[(i \div 4) + 1] ELSE 0))
    IN  /\ keys[1] = key
        /\ \A i \in 4..43 : w(i) = GF_WordAdd(w(i - 4), Transformed(i - 1))

\* 5.1.2 to 5.1.4: row r is shifted by r, and a column is multiplied by
\* 3x^3 + x^2 + x + 2 modulo x^4 + 1.
ShiftAndSub(s) == Each(LAMBDA c : Each(LAMBDA r : SubByte[s[((c + r - 2) % 4) + 1][r] + 1]))
Product2 == Table(LAMBDA b : Product(2, b))
Product3 == Table(LAMBDA b : Product(3, b))
MixColumn(w) ==
    Each(LAMBDA r : Xor(Xor(Product2[w[r] + 1], Product3[w[(r % 4) + 1] + 1]),
                        Xor(w[((r + 1) % 4) + 1], w[((r + 2) % 4) + 1])))
MixEach(s) == Each(LAMBDA c : MixColumn(s[c]))
CipherRound(i, keys) ==
    [t \in AES_Block_t |->
        AES_AddRoundKey(IF i < 10 THEN MixEach(ShiftAndSub(t)) ELSE ShiftAndSub(t), keys[i + 1])]
Cipher(s, keys) ==
    LET after[i \in 0..10] ==
            IF i = 0 THEN AES_AddRoundKey(s, keys[1]) ELSE CipherRound(i, keys)[after[i - 1]]
    IN  after[10]
=============================================================================
