------------------------------ MODULE ImageMac ------------------------------
(***************************************************************************)
(* The signature of an image: the stream of blocks the fw-signer feeds to  *)
(* AES-CBC, and the loop of validate_fw_image that rebuilds it from flash. *)
(*                                                                         *)
(* An ideal CBC-MAC stands for AES, which CbcMac adds: a MAC is the        *)
(* sequence of the blocks that were chained, so two MACs are equal only    *)
(* when the same blocks went in, in the same order.  An image is a         *)
(* function from offsets to cells; a field of firmware_info_t is one cell, *)
(* and the length field is a number.  The signature's own block is not a   *)
(* part of it.                                                             *)
(***************************************************************************)
EXTENDS Integers, Sequences

CONSTANTS
    BLOCK,      \* AES_BLOCK_SIZE, in cells; firmware_info_t is one block
    INFO,       \* FWINFO_ADDRESS - MAIN_APP_START_ADDRESS
    Values,     \* what a cell can hold
    Flashed     \* <<image in flash, image the signature there was made for>>

ASSUME BlockAssumption == BLOCK \in Nat /\ BLOCK >= 4
\* ALIGNED(..., 16) in the definition of FWINFO_ADDRESS.
ASSUME InfoAssumption == INFO \in Nat /\ INFO % BLOCK = 0
ASSUME ValuesAssumption == 0..BLOCK \subseteq Values

LengthCell == INFO + 3
Length(image) == image[LengthCell]

\* A signature is made for an image that has information and room for a signature;
\* what is in flash is readable up to the length it says it has.
ASSUME FlashedAssumption ==
    \A f \in Flashed :
        /\ f = <<f[1], f[2]>>
        /\ Length(f[1]) \in Nat /\ Length(f[2]) \in Nat
        /\ Length(f[2]) >= INFO + 2 * BLOCK
        /\ \A a \in (0..Length(f[1]) - 1) \cup (INFO..INFO + BLOCK - 1) : f[1][a] \in Values
        /\ \A a \in 0..Length(f[2]) - 1 : f[2][a] \in Values

-----------------------------------------------------------------------------
(* The signer: the information block, then all before it, then all after    *)
(* the signature, padded by openssl as PKCS#7 says: there is always some    *)
(* padding, a whole block of it when the stream is a multiple of the block. *)

StreamLength(image) == Length(image) - BLOCK
Stream(image, j) ==
    CASE j < BLOCK -> image[INFO + j]
      [] j >= BLOCK /\ j < BLOCK + INFO -> image[j - BLOCK]
      [] j >= BLOCK + INFO /\ j < StreamLength(image) -> image[j + BLOCK]
      [] OTHER -> BLOCK - (StreamLength(image) % BLOCK)

SignatureOf(image) ==
    [n \in 1..(StreamLength(image) \div BLOCK) + 1 |->
        [k \in 0..BLOCK - 1 |-> Stream(image, (n - 1) * BLOCK + k)]]

-----------------------------------------------------------------------------
VARIABLES
    image,      \* what is in flash at MAIN_APP_START_ADDRESS
    signed,     \* the image the signature in flash was made for
    pc,         \* "start", "loop", "accepted", "rejected"
    offset,
    chain       \* the blocks aes_cbc_mac_step has chained

vars == <<image, signed, pc, offset, chain>>

Blocks == [0..BLOCK - 1 -> Values]

TypeOK ==
    /\ <<image, signed>> \in Flashed
    /\ pc \in {"start", "loop", "accepted", "rejected"}
    /\ offset \in Nat
    /\ chain \in Seq(Blocks)

Init ==
    /\ \E f \in Flashed : image = f[1] /\ signed = f[2]
    /\ pc = "start" /\ offset = 0 /\ chain = <<>>

length == Length(image)
Mutant_bytes_to_pad == length % BLOCK
bytes_to_pad == IF length % BLOCK # 0 THEN BLOCK - (length % BLOCK) ELSE 0

aes_cbc_mac_step(blocks) == chain' = chain \o blocks
BlockAt(a) == [k \in 0..BLOCK - 1 |-> image[a + k]]

InfoFirst ==
    /\ pc = "start" /\ pc' = "loop"
    /\ aes_cbc_mac_step(<<BlockAt(INFO)>>)
    /\ UNCHANGED <<image, signed, offset>>

InLoop == pc = "loop" /\ offset < length

\* Only the information block is skipped, or the increment is left to the end
\* of the body, which "continue" never reaches.
MutantSkipInfoOnly ==
    /\ InLoop /\ offset = INFO
    /\ offset' = offset + BLOCK
    /\ UNCHANGED <<image, signed, pc, chain>>
MutantSkipForgotten ==
    /\ InLoop /\ offset = INFO
    /\ UNCHANGED vars
SkipInfoAndSignature ==
    /\ InLoop /\ offset = INFO
    /\ offset' = offset + 2 * BLOCK
    /\ UNCHANGED <<image, signed, pc, chain>>

WholeBlock ==
    /\ InLoop /\ offset # INFO
    /\ length - offset > BLOCK
    /\ aes_cbc_mac_step(<<BlockAt(offset)>>)
    /\ offset' = offset + BLOCK
    /\ UNCHANGED <<image, signed, pc>>

\* The memset is missing: the rest of the last block keeps cipher text, which is
\* no cell of an image.
CipherText == 65535
MutantLastBlocks ==
    <<[k \in 0..BLOCK - 1 |-> IF k < BLOCK - bytes_to_pad THEN image[offset + k] ELSE CipherText]>>

\* The padding begins one cell early, over the last cell of the image.
MutantPaddedEarly ==
    <<[k \in 0..BLOCK - 1 |->
          IF k + 1 < BLOCK - bytes_to_pad THEN image[offset + k] ELSE bytes_to_pad]>>

\* The first case adds the block of padding that PKCS#7 asks for when the last
\* block is full; bytes_to_pad is 0 then and the case is never taken.
LastBlocks ==
    IF bytes_to_pad = BLOCK
    THEN <<BlockAt(offset), [k \in 0..BLOCK - 1 |-> bytes_to_pad]>>
    ELSE <<[k \in 0..BLOCK - 1 |->
              IF k < BLOCK - bytes_to_pad THEN image[offset + k] ELSE bytes_to_pad]>>

LastBlock ==
    /\ InLoop /\ offset # INFO
    /\ length - offset <= BLOCK
    /\ aes_cbc_mac_step(LastBlocks)
    /\ offset' = offset + BLOCK
    /\ UNCHANGED <<image, signed, pc>>

\* The previous block's cipher text is not carried over.
MutantUnchained == chain[Len(chain)] = SignatureOf(signed)[Len(SignatureOf(signed))]
Matches == chain = SignatureOf(signed)

Compare ==
    /\ pc = "loop" /\ offset >= length
    /\ pc' = IF Matches THEN "accepted" ELSE "rejected"
    /\ UNCHANGED <<image, signed, offset, chain>>

Next == InfoFirst \/ SkipInfoAndSignature \/ WholeBlock \/ LastBlock \/ Compare

Spec == Init /\ [][Next]_vars
FairSpec == Spec /\ WF_vars(Next)

-----------------------------------------------------------------------------
\* The signed image, outside the block its signature is kept in.
IsSigned ==
    /\ length = Length(signed)
    /\ \A a \in 0..length - 1 :
        a \in INFO + BLOCK..INFO + 2 * BLOCK - 1 \/ image[a] = signed[a]

\* The loop rebuilds the signer's stream: an image the signer signed is not
\* turned away (bootloader.c:186-227 against main.py:51-72).  It fails when
\* the length is a multiple of the block; PaddedImagesAccepted, which holds,
\* leaves those lengths out.
SignedImagesAccepted == pc = "rejected" => ~IsSigned
PaddedImagesAccepted == length % BLOCK # 0 => SignedImagesAccepted

\* An image that differs from the signed one in any cell the device runs, in
\* its version or in its length is turned away, also when what follows it in
\* flash or where it is cut looks like padding.
OnlySignedAccepted == pc = "accepted" => IsSigned

\* The copies never read past the end of the image: a whole block always lies
\* inside, and the last one is cut exactly there.  It rests on offset being a
\* multiple of the block, the skipped blocks included.
ReadsEndWithImage ==
    InLoop /\ offset # INFO =>
        \/ offset + BLOCK < length
        \/ offset + BLOCK - bytes_to_pad = length

\* The loop ends: the check gives a verdict for every length.
Decides == <>(pc \in {"accepted", "rejected"})
=============================================================================
