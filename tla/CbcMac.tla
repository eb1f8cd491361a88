------------------------------- MODULE CbcMac -------------------------------
(***************************************************************************)
(* The check of an image with AES itself: what validate_fw_image chains in *)
(* ImageMac goes through aes_cbc_mac_step, and the signature in flash is   *)
(* the block openssl has computed.  ImageMac decides by the ideal MAC; the *)
(* properties here compare prev_cipher_block and signature.                *)
(*                                                                         *)
(* A cell of ImageMac stands for the little-endian word of its number,     *)
(* padding too: what matters is that different cells are different bytes.  *)
(***************************************************************************)
EXTENDS ImageMac, Aes

CONSTANT secrete_key        \* four columns, the same as in the signer

ASSUME KeyAssumption == secrete_key \in AES_Block_t
ASSUME WordsAssumption == BLOCK = 4 /\ \A v \in Values : v \in Nat /\ v < 65536

VARIABLES round_key, prev_cipher_block,
          signature         \* of signed, in flash

cbcVars == <<vars, round_key, prev_cipher_block, signature>>

ZeroBlock == Each(LAMBDA c : <<0, 0, 0, 0>>)
BytesOf(block) ==
    Each(LAMBDA c : <<block[c - 1] % 256, block[c - 1] \div 256, 0, 0>>)

\* aes_cbc_mac_step for each of the blocks.
Xored(block, prev) == AES_AddRoundKey(BytesOf(block), prev)
Chained(prev, blocks) ==
    LET after[n \in 0..Len(blocks)] ==
            IF n = 0 THEN prev ELSE AES_EncryptBlock(Xored(blocks[n], after[n - 1]), round_key)
    IN  after[Len(blocks)]

\* openssl enc -aes-128-cbc with an IV of zeros; the last block is kept.
LastBlockOfCbc(blocks, keys) ==
    LET after[n \in 0..Len(blocks)] ==
            IF n = 0 THEN ZeroBlock
            ELSE Cipher(AES_AddRoundKey(BytesOf(blocks[n]), after[n - 1]), keys)
    IN  after[Len(blocks)]

CbcInit ==
    /\ Init
    /\ round_key = AES_KeySchedule128(secrete_key)
    /\ prev_cipher_block = ZeroBlock
    /\ signature = LastBlockOfCbc(SignatureOf(signed), round_key)

CbcNext ==
    /\ Next
    /\ prev_cipher_block' =
        Chained(prev_cipher_block, SubSeq(chain', Len(chain) + 1, Len(chain')))
    /\ UNCHANGED <<round_key, signature>>

CbcSpec == CbcInit /\ [][CbcNext]_cbcVars
FairCbcSpec == CbcSpec /\ WF_vars(Next)

-----------------------------------------------------------------------------
\* AES_KeySchedule128 is the key expansion of FIPS-197 (aes.c:101-134), with the
\* S-box typed into aes.c:46-64 the one its definition gives.
KeysExpanded == pc = "start" => IsKeyExpansion(round_key, secrete_key)

\* The memcmp of bootloader.c:227 says of an image what ImageMac says of it: the
\* device's AES and openssl's agree on every block that is chained, and images
\* that are chained differently do not end in the same block.
DecidesAsIdeal ==
    pc = "loop" /\ offset >= length => (Matches <=> prev_cipher_block = signature)

\* An image the signer signed passes the memcmp of bootloader.c:227 with AES
\* itself, whatever the key is and whatever the image holds.  It leaves out the
\* lengths PaddedImagesAccepted leaves out.
SignedPassesMac ==
    pc = "loop" /\ offset >= length /\ IsSigned /\ length % BLOCK # 0
        => prev_cipher_block = signature

Altered == {a \in 0..length - 1 :
                a \notin INFO + BLOCK..INFO + 2 * BLOCK - 1 /\ image[a] # signed[a]}
OneBlockAltered ==
    length = Length(signed) /\ Altered # {} /\ \A a, b \in Altered : a \div BLOCK = b \div BLOCK

\* No luck is needed to notice a change inside one block, however early it is and
\* whatever follows it: every block's cipher text goes into the next, and
\* AES_EncryptBlock maps no two blocks to one (bootloader.c:171-229).
AlteredBlockFailsMac ==
    pc = "loop" /\ offset >= length /\ OneBlockAltered /\ length % BLOCK # 0
        => prev_cipher_block # signature

\* So the verdict of validate_fw_image does not rest on the MAC being ideal for the
\* image that was signed, nor for one with a change inside one block
\* (bootloader.c:171-229).
MacDecides == SignedPassesMac /\ AlteredBlockFailsMac

\* AES_DecryptBlock takes back what AES_EncryptBlock did to each block: the
\* inverse S-box, rows and columns of aes.c are inverses of the others.
DecryptionInverts ==
    [][\E block \in {chain'[Len(chain')]} :
        AES_DecryptBlock(prev_cipher_block', round_key) = Xored(block, prev_cipher_block)]_prev_cipher_block
=============================================================================
