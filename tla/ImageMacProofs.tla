--------------------------- MODULE ImageMacProofs ---------------------------
(***************************************************************************)
(* The loop of validate_fw_image rebuilds the signer's stream, for every   *)
(* length of image, size of block and place of the information.            *)
(***************************************************************************)
EXTENDS CbcMac, BytesProofs

\* The blocks before the information.
Before == INFO \div BLOCK

StreamBlock(i, n) == [k \in 0..BLOCK - 1 |-> Stream(i, (n - 1) * BLOCK + k)]

-----------------------------------------------------------------------------
(* Arithmetic.                                                             *)

LEMMA Cancel ==
    ASSUME NEW b \in Nat \ {0}, NEW x \in Int, NEW r \in Int, NEW m \in Int,
           0 <= r, r < b, 0 <= m, m < b, x * b = r - m
    PROVE  x = 0
<1>1. CASE x >= 1
    <2>1. x * b >= b
        BY <1>1
    <2> QED BY <2>1
<1>2. CASE x <= -1
    <2>1. x * b <= -b
        BY <1>2
    <2> QED BY <2>1
<1> QED BY <1>1, <1>2

\* Division with remainder is unique.
LEMMA DivMod ==
    ASSUME NEW b \in Nat \ {0}, NEW q \in Int, NEW r \in 0..b - 1
    PROVE  (q * b + r) % b = r /\ (q * b + r) \div b = q
<1> DEFINE a == q * b + r
           d == a \div b
           m == a % b
<1>1. a \in Int
    OBVIOUS
<1>2. d \in Int /\ m \in 0..b - 1 /\ a = b * d + m
    <2> HIDE DEF a
    <2> QED BY <1>1
<1>3. (d - q) * b = r - m
    <2> HIDE DEF d, m
    <2> QED BY <1>2
<1>4. d - q = 0
    <2> DEFINE x == d - q
    <2>1. x \in Int /\ x * b = r - m /\ m \in Int /\ 0 <= m /\ m < b /\ 0 <= r /\ r < b /\ r \in Int
        <3> HIDE DEF d, m
        <3> QED BY <1>2, <1>3
    <2> HIDE DEF x, d, m
    <2> QED BY <2>1, Cancel DEF x
<1>5. d = q /\ m = r
    <2> HIDE DEF d, m
    <2> QED BY <1>2, <1>3, <1>4
<1> QED BY <1>5

LEMMA Split ==
    ASSUME NEW b \in Nat \ {0}, NEW a \in Int
    PROVE  a \div b \in Int /\ a % b \in 0..b - 1 /\ a = (a \div b) * b + (a % b)
<1> DEFINE d == a \div b
           m == a % b
<1>1. d \in Int /\ m \in 0..b - 1 /\ a = b * d + m
    OBVIOUS
<1>2. ASSUME NEW x \in Int, NEW y \in Int PROVE x * y = y * x
    OBVIOUS
<1>3. b * d = d * b
    <2>1. b \in Int /\ d \in Int
        BY <1>1
    <2> HIDE DEF d
    <2> QED BY <1>2, <2>1
<1> QED BY <1>1, <1>3

\* Products of the block size keep an order, with a block in between.
LEMMA Multiples ==
    ASSUME NEW x \in Int, NEW y \in Int
    PROVE  /\ x * BLOCK \in Int
           /\ (x + 1) * BLOCK = x * BLOCK + BLOCK
           /\ (x - 1) * BLOCK = x * BLOCK - BLOCK
           /\ x <= y => x * BLOCK <= y * BLOCK
           /\ x < y => x * BLOCK + BLOCK <= y * BLOCK
<1>1. BLOCK \in Nat
    BY BlockAssumption
<1>2. /\ x * BLOCK \in Int
      /\ (x + 1) * BLOCK = x * BLOCK + BLOCK
      /\ (x - 1) * BLOCK = x * BLOCK - BLOCK
    BY <1>1
<1>3. ASSUME NEW d \in Nat PROVE d * BLOCK >= 0
    BY <1>1
<1>4. ASSUME x <= y PROVE x * BLOCK <= y * BLOCK
    <2>1. y - x \in Nat
        BY <1>4
    <2>2. (y - x) * BLOCK >= 0
        BY <1>3, <2>1
    <2>3. (y - x) * BLOCK = y * BLOCK - x * BLOCK
        BY <1>1
    <2> QED BY <1>1, <2>2, <2>3
<1>5. ASSUME x < y PROVE x * BLOCK + BLOCK <= y * BLOCK
    <2>1. y - (x + 1) \in Nat
        BY <1>5
    <2>2. (y - (x + 1)) * BLOCK >= 0
        BY <1>3, <2>1
    <2>3. (y - (x + 1)) * BLOCK = y * BLOCK - (x * BLOCK + BLOCK)
        BY <1>1
    <2> QED BY <1>1, <2>2, <2>3
<1> QED BY <1>2, <1>4, <1>5

LEMMA Sizes ==
    /\ BLOCK \in Nat \ {0} /\ BLOCK >= 4 /\ INFO \in Nat
    /\ Before \in Nat /\ INFO = Before * BLOCK
<1>1. BLOCK \in Nat \ {0} /\ BLOCK >= 4 /\ INFO \in Nat /\ INFO % BLOCK = 0
    BY BlockAssumption, InfoAssumption
<1>2. Before \in Int /\ INFO = Before * BLOCK
    BY <1>1, Split DEF Before
<1>3. Before >= 0
    BY <1>1, <1>2, Multiples
<1> QED BY <1>1, <1>2, <1>3

-----------------------------------------------------------------------------
(* The signer's stream.                                                    *)

LEMMA StreamIs ==
    ASSUME NEW i, NEW j \in Int
    PROVE  /\ j < BLOCK => Stream(i, j) = i[INFO + j]
           /\ j >= BLOCK /\ j < BLOCK + INFO => Stream(i, j) = i[j - BLOCK]
           /\ j >= BLOCK + INFO /\ j < StreamLength(i) => Stream(i, j) = i[j + BLOCK]
           /\ j >= BLOCK + INFO /\ ~(j < StreamLength(i))
                => Stream(i, j) = BLOCK - (StreamLength(i) % BLOCK)
BY Sizes DEF Stream

LEMMA InfoBlock ==
    ASSUME NEW i
    PROVE  StreamBlock(i, 1) = [k \in 0..BLOCK - 1 |-> i[INFO + k]]
<1>1. ASSUME NEW k \in 0..BLOCK - 1
      PROVE  Stream(i, (1 - 1) * BLOCK + k) = i[INFO + k]
    <2>1. (1 - 1) * BLOCK + k = k /\ k < BLOCK /\ k \in Int
        BY Sizes
    <2> QED BY <2>1, StreamIs
<1> QED BY <1>1 DEF StreamBlock

LEMMA BlocksBefore ==
    ASSUME NEW i, NEW q \in Nat, q < Before
    PROVE  StreamBlock(i, q + 2) = [k \in 0..BLOCK - 1 |-> i[q * BLOCK + k]]
<1>1. ASSUME NEW k \in 0..BLOCK - 1
      PROVE  Stream(i, (q + 2 - 1) * BLOCK + k) = i[q * BLOCK + k]
    <2> DEFINE j == (q + 2 - 1) * BLOCK + k
               p == q * BLOCK
    <2>1. j = p + BLOCK + k /\ p \in Int /\ p >= 0 /\ p + BLOCK <= INFO
        <3>1. q + 2 - 1 = q + 1
            OBVIOUS
        <3>2. (q + 1) * BLOCK = p + BLOCK /\ p \in Int /\ p + BLOCK <= Before * BLOCK
            BY Multiples, Sizes
        <3>3. p >= 0
            BY Sizes
        <3> QED BY <3>1, <3>2, <3>3, Sizes
    <2>2. j \in Int /\ j >= BLOCK /\ j < BLOCK + INFO /\ j - BLOCK = p + k
        <3> HIDE DEF j, p
        <3> QED BY <2>1, Sizes
    <2>3. Stream(i, j) = i[p + k]
        <3> HIDE DEF j, p
        <3> QED BY <2>2, StreamIs
    <2> QED BY <2>3
<1> QED BY <1>1 DEF StreamBlock

LEMMA BlocksAfter ==
    ASSUME NEW i, Length(i) \in Nat, NEW q \in Nat, q > Before + 1
    PROVE  StreamBlock(i, q) =
             [k \in 0..BLOCK - 1 |->
                IF q * BLOCK + k < Length(i) THEN i[q * BLOCK + k]
                ELSE BLOCK - (StreamLength(i) % BLOCK)]
<1>1. ASSUME NEW k \in 0..BLOCK - 1
      PROVE  Stream(i, (q - 1) * BLOCK + k) =
                IF q * BLOCK + k < Length(i) THEN i[q * BLOCK + k]
                ELSE BLOCK - (StreamLength(i) % BLOCK)
    <2> DEFINE j == (q - 1) * BLOCK + k
               p == q * BLOCK
    <2>1. j = p - BLOCK + k /\ p \in Int /\ p >= INFO + 2 * BLOCK
        <3>1. (q - 1) * BLOCK = p - BLOCK /\ p \in Int
            BY Multiples
        <3>2. p >= (Before + 1) * BLOCK + BLOCK
            BY Multiples, Sizes
        <3>3. (Before + 1) * BLOCK = Before * BLOCK + BLOCK
            BY Multiples, Sizes
        <3> HIDE DEF p
        <3> QED BY <3>1, <3>2, <3>3, Sizes
    <2>2. /\ j \in Int /\ j >= BLOCK + INFO /\ j + BLOCK = p + k
          /\ j < StreamLength(i) <=> p + k < Length(i)
        <3> HIDE DEF j, p
        <3> QED BY <2>1, Sizes DEF StreamLength
    <2>3. Stream(i, j) = IF p + k < Length(i) THEN i[p + k]
                         ELSE BLOCK - (StreamLength(i) % BLOCK)
        <3> HIDE DEF j, p
        <3> QED BY <2>2, StreamIs
    <2> QED BY <2>3
<1> QED BY <1>1 DEF StreamBlock

\* A block short of the image, the stream leaves the same rest.
LEMMA SameRest ==
    ASSUME NEW n \in Nat, n >= BLOCK
    PROVE  /\ (n - BLOCK) % BLOCK = n % BLOCK
           /\ (n - BLOCK) \div BLOCK = n \div BLOCK - 1
<1> DEFINE d == n \div BLOCK
           r == n % BLOCK
           x == d - 1
<1>1. d \in Int /\ r \in 0..BLOCK - 1 /\ n = d * BLOCK + r
    BY Sizes, Split
<1>2. x * BLOCK = d * BLOCK - BLOCK /\ x \in Int
    <2> HIDE DEF d
    <2> QED BY <1>1, Multiples
<1>3. n - BLOCK = x * BLOCK + r
    <2> HIDE DEF d, r, x
    <2> QED BY <1>1, <1>2, Multiples, Sizes
<1>4. (x * BLOCK + r) % BLOCK = r /\ (x * BLOCK + r) \div BLOCK = x
    <2> HIDE DEF d, r, x
    <2> QED BY <1>1, <1>2, DivMod, Sizes
<1> QED BY <1>3, <1>4

-----------------------------------------------------------------------------
(* The invariant: offset is a multiple of the block, never that of the     *)
(* signature, and what has been chained is the beginning of the stream.    *)

Long == length >= INFO + 2 * BLOCK

\* Blocks chained when offset is the q-th block.
Done(q) == IF q <= Before THEN q + 1 ELSE q - 1

Follows(q) ==
    /\ offset = q * BLOCK /\ q # Before + 1
    /\ Len(chain) >= 1 /\ chain[1] = StreamBlock(image, 1)
    /\ Long =>
        /\ q > Before => (q - 1) * BLOCK < length
        /\ Len(chain) = Done(q)
        /\ \A n \in 1..Len(chain) : chain[n] = StreamBlock(image, n)

Verdict == pc \in {"accepted", "rejected"}

Inv ==
    /\ TypeOK
    /\ pc = "start" => offset = 0 /\ chain = <<>>
    /\ pc # "start" => \E q \in Nat : Follows(q)
    /\ Verdict => offset >= length /\ (pc = "accepted" <=> Matches)

LEMMA FlashedFacts ==
    ASSUME <<image, signed>> \in Flashed
    PROVE  /\ length \in Nat /\ Length(signed) \in Nat
           /\ Length(signed) >= INFO + 2 * BLOCK
           /\ \A a \in (0..length - 1) \cup (INFO..INFO + BLOCK - 1) : image[a] \in Values
<1>1. <<image, signed>>[1] = image /\ <<image, signed>>[2] = signed
    OBVIOUS
<1> QED BY <1>1, FlashedAssumption DEF length

LEMMA PadFacts ==
    ASSUME length \in Nat
    PROVE  /\ bytes_to_pad \in 0..BLOCK - 1
           /\ bytes_to_pad = IF length % BLOCK # 0 THEN BLOCK - (length % BLOCK) ELSE 0
           /\ length % BLOCK \in 0..BLOCK - 1
<1> DEFINE r == length % BLOCK
<1>1. r \in 0..BLOCK - 1
    BY Sizes
<1>2. bytes_to_pad = IF r # 0 THEN BLOCK - r ELSE 0
    BY DEF bytes_to_pad
<1>3. bytes_to_pad \in 0..BLOCK - 1
    <2> HIDE DEF r
    <2> QED BY <1>1, <1>2, Sizes
<1> QED BY <1>1, <1>2, <1>3

\* The last block is cut where the image ends.
LEMMA LastCut ==
    ASSUME length \in Nat, NEW q \in Nat, q * BLOCK < length, length - q * BLOCK <= BLOCK
    PROVE  q * BLOCK + BLOCK - bytes_to_pad = length
<1> DEFINE p == q * BLOCK
           s == length - p
<1>1. p \in Int /\ s \in 1..BLOCK /\ (q + 1) * BLOCK = p + BLOCK
    <2>1. p \in Int /\ (q + 1) * BLOCK = p + BLOCK
        BY Multiples
    <2>2. p < length /\ length - p <= BLOCK
        OBVIOUS
    <2> HIDE DEF p
    <2> QED BY <2>1, <2>2, Sizes DEF p
<1>2. CASE s < BLOCK
    <2>1. (q * BLOCK + s) % BLOCK = s
        <3>1. s \in 0..BLOCK - 1
            BY <1>1, <1>2, Sizes
        <3> HIDE DEF s
        <3> QED BY <3>1, DivMod, Sizes
    <2>2. p + s = length
        <3> HIDE DEF p
        <3> QED BY <1>1
    <2>3. length % BLOCK = s
        BY <2>1, <2>2
    <2>4. bytes_to_pad = BLOCK - s
        <3> HIDE DEF s
        <3> QED BY <1>1, <2>3, PadFacts
    <2> QED BY <1>1, <2>4, Sizes
<1>3. CASE s = BLOCK
    <2>1. ((q + 1) * BLOCK + 0) % BLOCK = 0
        BY DivMod, Sizes
    <2>2. (q + 1) * BLOCK + 0 = length
        BY <1>1, <1>3, Sizes
    <2>3. length % BLOCK = 0
        BY <2>1, <2>2
    <2>4. bytes_to_pad = 0
        BY <2>3, PadFacts
    <2> QED BY <1>1, <1>3, <2>4, Sizes
<1>4. s < BLOCK \/ s = BLOCK
    <2> HIDE DEF s
    <2> QED BY <1>1, Sizes
<1> QED BY <1>2, <1>3, <1>4

\* bootloader.c:211-226 copies no byte from behind the image.
LEMMA EndsWithImage == Inv => ReadsEndWithImage
<1> SUFFICES ASSUME Inv, InLoop, offset # INFO, ~(offset + BLOCK < length)
             PROVE  offset + BLOCK - bytes_to_pad = length
    BY DEF ReadsEndWithImage
<1>1. PICK q \in Nat : offset = q * BLOCK
    BY DEF Inv, InLoop, Follows
<1>2. length \in Nat /\ q * BLOCK < length /\ q * BLOCK \in Int
    BY <1>1, FlashedFacts, Multiples DEF Inv, TypeOK, InLoop
<1>3. length - q * BLOCK <= BLOCK
    <2> DEFINE p == q * BLOCK
    <2>1. p \in Int /\ ~(p + BLOCK < length)
        BY <1>1, <1>2
    <2> HIDE DEF p
    <2>2. length - p <= BLOCK
        BY <1>2, <2>1, Sizes
    <2> QED BY <2>2 DEF p
<1> QED BY <1>1, <1>2, <1>3, LastCut

LEMMA Joined ==
    ASSUME NEW S, NEW s \in Seq(S), NEW b \in S
    PROVE  /\ s \o <<b>> \in Seq(S)
           /\ Len(s \o <<b>>) = Len(s) + 1
           /\ \A n \in 1..Len(s) : (s \o <<b>>)[n] = s[n]
           /\ (s \o <<b>>)[Len(s) + 1] = b
OBVIOUS

\* One more block of the stream.
LEMMA Extended ==
    ASSUME Inv, NEW q \in Nat, NEW p \in Nat, NEW b \in Blocks, Follows(q),
           image' = image, chain' = chain \o <<b>>,
           offset' = p * BLOCK, p # Before + 1,
           Long => /\ p > Before => (p - 1) * BLOCK < length
                   /\ Done(p) = Done(q) + 1
                   /\ b = StreamBlock(image, Done(q) + 1)
    PROVE  Follows(p)' /\ chain' \in Seq(Blocks)
<1>1. /\ chain' \in Seq(Blocks) /\ Len(chain') = Len(chain) + 1
      /\ \A n \in 1..Len(chain) : chain'[n] = chain[n]
      /\ chain'[Len(chain) + 1] = b /\ Len(chain) \in Nat
    BY Joined DEF Inv, TypeOK
<1>2. length' = length
    BY DEF length, Length
<1>3. Len(chain) >= 1 /\ chain'[1] = StreamBlock(image, 1)
    BY <1>1 DEF Follows
<1>4. ASSUME Long
      PROVE  /\ Len(chain') = Done(p)
             /\ \A n \in 1..Len(chain') : chain'[n] = StreamBlock(image, n)
    BY <1>1, <1>4 DEF Follows
<1> QED BY <1>1, <1>2, <1>3, <1>4 DEF Follows, Long, Done

-----------------------------------------------------------------------------
(* The steps.                                                              *)

LEMMA InfoFirstStep ==
    ASSUME Inv, InfoFirst
    PROVE  Inv'
<1>1. /\ pc = "start" /\ pc' = "loop" /\ offset' = 0 /\ image' = image /\ signed' = signed
      /\ chain = <<>> /\ chain' = <<>> \o <<BlockAt(INFO)>> /\ <<image, signed>> \in Flashed
    BY DEF Inv, TypeOK, InfoFirst, aes_cbc_mac_step
<1>2. BlockAt(INFO) \in Blocks /\ BlockAt(INFO) = StreamBlock(image, 1)
    <2>1. \A k \in 0..BLOCK - 1 : INFO + k \in INFO..INFO + BLOCK - 1
        BY Sizes
    <2> QED BY <1>1, <2>1, FlashedFacts, InfoBlock DEF BlockAt, Blocks
<1>3. chain' \in Seq(Blocks) /\ Len(chain') = 1 /\ chain'[1] = BlockAt(INFO)
    BY <1>1, <1>2
<1>4. TypeOK'
    BY <1>1, <1>3 DEF TypeOK
<1>5. 0 * BLOCK = 0 /\ 0 # Before + 1 /\ Done(0) = 1 /\ ~(0 > Before)
    BY Sizes DEF Done
<1>6. Follows(0)'
    BY <1>1, <1>2, <1>3, <1>5 DEF Follows, Done
<1> QED BY <1>1, <1>4, <1>6 DEF Inv, Verdict

LEMMA SkipStep ==
    ASSUME Inv, SkipInfoAndSignature
    PROVE  Inv'
<1>1. /\ pc = "loop" /\ offset = INFO /\ offset' = INFO + 2 * BLOCK
      /\ UNCHANGED <<image, signed, pc, chain>>
    BY DEF SkipInfoAndSignature, InLoop
<1>2. PICK q \in Nat : Follows(q)
    BY <1>1 DEF Inv
<1>3. q = Before
    <2>1. q * BLOCK = Before * BLOCK
        BY <1>1, <1>2, Sizes DEF Follows
    <2>2. ~(q < Before) /\ ~(Before < q)
        BY <2>1, Multiples, Sizes
    <2> QED BY <2>2, Sizes
<1>4. (Before + 2) * BLOCK = INFO + 2 * BLOCK /\ (Before + 2 - 1) * BLOCK = INFO + BLOCK
    <2>1. (Before + 1) * BLOCK = INFO + BLOCK
        BY Multiples, Sizes
    <2>2. (Before + 1 + 1) * BLOCK = (Before + 1) * BLOCK + BLOCK
        BY Multiples, Sizes
    <2>3. Before + 1 + 1 = Before + 2 /\ Before + 2 - 1 = Before + 1
        BY Sizes
    <2> QED BY <2>1, <2>2, <2>3, Sizes
<1>5. length' = length /\ length \in Nat
    BY <1>1, FlashedFacts DEF length, Length, Inv, TypeOK
<1>6. Long => (Before + 2 - 1) * BLOCK < length
    BY <1>4, <1>5, Sizes DEF Long
<1>7. Done(Before + 2) = Done(Before) /\ Before + 2 # Before + 1 /\ Before + 2 \in Nat
    BY Sizes DEF Done
<1>8. Follows(Before + 2)'
    BY <1>1, <1>2, <1>3, <1>4, <1>5, <1>6, <1>7 DEF Follows, Long, Done
<1>9. TypeOK'
    BY <1>1, Sizes DEF Inv, TypeOK
<1> QED BY <1>1, <1>7, <1>8, <1>9 DEF Inv, Verdict

LEMMA WholeBlockStep ==
    ASSUME Inv, WholeBlock
    PROVE  Inv'
<1>1. /\ pc = "loop" /\ offset # INFO /\ length - offset > BLOCK
      /\ chain' = chain \o <<BlockAt(offset)>> /\ offset' = offset + BLOCK
      /\ UNCHANGED <<image, signed, pc>>
    BY DEF WholeBlock, InLoop, aes_cbc_mac_step
<1>2. PICK q \in Nat : Follows(q)
    BY <1>1 DEF Inv
<1>3. length \in Nat /\ offset \in Nat /\ offset = q * BLOCK /\ q # Before /\ q # Before + 1
    BY <1>1, <1>2, FlashedFacts, Sizes DEF Inv, TypeOK, Follows
<1>4. \A k \in 0..BLOCK - 1 : offset + k \in 0..length - 1 /\ offset + k < length
    BY <1>1, <1>3, Sizes
<1>5. BlockAt(offset) \in Blocks
    BY <1>4, FlashedFacts DEF BlockAt, Blocks, Inv, TypeOK
<1>6. offset' = (q + 1) * BLOCK /\ q + 1 \in Nat /\ q + 1 # Before + 1 /\ q + 1 - 1 = q
    BY <1>1, <1>3, Multiples, Sizes
<1>7. offset < length
    BY <1>1, <1>3, Sizes
<1>8. Done(q + 1) = Done(q) + 1
    BY <1>3, Sizes DEF Done
<1>9. BlockAt(offset) = StreamBlock(image, Done(q) + 1)
    <2>1. CASE q < Before
        <3>1. Done(q) + 1 = q + 2
            BY <2>1, Sizes DEF Done
        <3>2. StreamBlock(image, q + 2) = [k \in 0..BLOCK - 1 |-> image[q * BLOCK + k]]
            BY <2>1, BlocksBefore
        <3>3. BlockAt(offset) = [k \in 0..BLOCK - 1 |-> image[q * BLOCK + k]]
            BY <1>3 DEF BlockAt
        <3> QED BY <3>1, <3>2, <3>3
    <2>2. CASE q > Before + 1
        <3>1. Done(q) + 1 = q
            BY <2>2, Sizes DEF Done
        <3>2. StreamBlock(image, q) =
                [k \in 0..BLOCK - 1 |->
                    IF q * BLOCK + k < length THEN image[q * BLOCK + k]
                    ELSE BLOCK - (StreamLength(image) % BLOCK)]
            BY <1>3, <2>2, BlocksAfter DEF length
        <3>3. \A k \in 0..BLOCK - 1 :
                image[offset + k] = IF q * BLOCK + k < length THEN image[q * BLOCK + k]
                                    ELSE BLOCK - (StreamLength(image) % BLOCK)
            BY <1>3, <1>4
        <3>4. BlockAt(offset) = StreamBlock(image, q)
            BY <3>2, <3>3 DEF BlockAt
        <3> QED BY <3>1, <3>4
    <2> QED BY <1>3, <2>1, <2>2, Sizes
<1>10. Follows(q + 1)' /\ chain' \in Seq(Blocks)
    BY <1>1, <1>2, <1>3, <1>5, <1>6, <1>7, <1>8, <1>9, Extended
<1>11. TypeOK'
    BY <1>1, <1>3, <1>10, Sizes DEF Inv, TypeOK
<1> QED BY <1>1, <1>6, <1>10, <1>11 DEF Inv, Verdict

LEMMA LastBlockStep ==
    ASSUME Inv, LastBlock
    PROVE  Inv'
<1>1. /\ pc = "loop" /\ offset # INFO /\ length - offset <= BLOCK /\ offset < length
      /\ chain' = chain \o LastBlocks /\ offset' = offset + BLOCK
      /\ UNCHANGED <<image, signed, pc>>
    BY DEF LastBlock, InLoop, aes_cbc_mac_step
<1>2. PICK q \in Nat : Follows(q)
    BY <1>1 DEF Inv
<1>3. length \in Nat /\ offset \in Nat /\ offset = q * BLOCK /\ q # Before /\ q # Before + 1
    BY <1>1, <1>2, FlashedFacts, Sizes DEF Inv, TypeOK, Follows
<1>4. offset + BLOCK - bytes_to_pad = length /\ bytes_to_pad \in 0..BLOCK - 1
    BY <1>1, <1>3, LastCut, PadFacts
<1> DEFINE b == [k \in 0..BLOCK - 1 |->
                    IF k < BLOCK - bytes_to_pad THEN image[offset + k] ELSE bytes_to_pad]
<1>5. LastBlocks = <<b>>
    <2>1. bytes_to_pad # BLOCK
        BY <1>4, Sizes
    <2> QED BY <2>1 DEF LastBlocks
<1>6. \A k \in 0..BLOCK - 1 : k < BLOCK - bytes_to_pad <=> offset + k < length
    BY <1>3, <1>4, Sizes
<1>7. b \in Blocks
    <2>1. \A k \in 0..BLOCK - 1 : offset + k < length => image[offset + k] \in Values
        <3>1. \A k \in 0..BLOCK - 1 : offset + k < length => offset + k \in 0..length - 1
            BY <1>3, Sizes
        <3> QED BY <3>1, FlashedFacts DEF Inv, TypeOK
    <2>2. bytes_to_pad \in Values
        BY <1>4, ValuesAssumption, Sizes
    <2> QED BY <1>6, <2>1, <2>2 DEF Blocks
<1>8. offset' = (q + 1) * BLOCK /\ q + 1 \in Nat /\ q + 1 # Before + 1 /\ q + 1 - 1 = q
    BY <1>1, <1>3, Multiples, Sizes
<1>9. ASSUME Long
      PROVE  /\ q > Before + 1 /\ Done(q) + 1 = q /\ Done(q + 1) = Done(q) + 1
             /\ b = StreamBlock(image, q)
    <2>1. q > Before + 1
        <3>1. q < Before => q * BLOCK + BLOCK <= INFO
            BY Multiples, Sizes
        <3>2. ~(offset + BLOCK <= INFO)
            BY <1>1, <1>3, <1>9, Sizes DEF Long
        <3> QED BY <1>3, <3>1, <3>2, Sizes
    <2>2. Done(q) + 1 = q /\ Done(q + 1) = Done(q) + 1
        BY <2>1, Sizes DEF Done
    <2>3. StreamBlock(image, q) =
            [k \in 0..BLOCK - 1 |->
                IF q * BLOCK + k < length THEN image[q * BLOCK + k]
                ELSE BLOCK - (StreamLength(image) % BLOCK)]
        BY <1>3, <2>1, BlocksAfter DEF length
    <2>4. ASSUME NEW k \in 0..BLOCK - 1, ~(offset + k < length)
          PROVE  bytes_to_pad = BLOCK - (StreamLength(image) % BLOCK)
        <3>1. bytes_to_pad # 0
            BY <1>3, <1>4, <2>4, Sizes
        <3>2. bytes_to_pad = BLOCK - (length % BLOCK)
            BY <1>3, <3>1, PadFacts
        <3>3. length >= BLOCK
            BY <1>3, <1>9, Sizes DEF Long
        <3>4. StreamLength(image) % BLOCK = length % BLOCK
            BY <1>3, <3>3, SameRest DEF StreamLength, length
        <3> QED BY <3>2, <3>4
    <2>5. \A k \in 0..BLOCK - 1 :
            (IF k < BLOCK - bytes_to_pad THEN image[offset + k] ELSE bytes_to_pad)
                = (IF q * BLOCK + k < length THEN image[q * BLOCK + k]
                   ELSE BLOCK - (StreamLength(image) % BLOCK))
        BY <1>3, <1>6, <2>4
    <2>6. b = StreamBlock(image, q)
        BY <2>3, <2>5
    <2> QED BY <2>1, <2>2, <2>6
<1>10. Follows(q + 1)' /\ chain' \in Seq(Blocks)
    <2>1. Long => /\ q + 1 > Before => (q + 1 - 1) * BLOCK < length
                  /\ Done(q + 1) = Done(q) + 1
                  /\ b = StreamBlock(image, Done(q) + 1)
        BY <1>1, <1>3, <1>8, <1>9
    <2> HIDE DEF b
    <2> QED BY <1>1, <1>2, <1>5, <1>7, <1>8, <2>1, Extended
<1>11. TypeOK'
    BY <1>1, <1>3, <1>10, Sizes DEF Inv, TypeOK
<1> QED BY <1>1, <1>8, <1>10, <1>11 DEF Inv, Verdict

LEMMA CompareStep ==
    ASSUME Inv, Compare
    PROVE  Inv'
<1>1. /\ pc = "loop" /\ offset >= length /\ UNCHANGED <<image, signed, offset, chain>>
      /\ pc' = IF Matches THEN "accepted" ELSE "rejected"
    BY DEF Compare
<1>2. pc' \in {"accepted", "rejected"} /\ (pc' = "accepted" <=> Matches)
    BY <1>1
<1>3. PICK q \in Nat : Follows(q)
    BY <1>1 DEF Inv
<1>4. Follows(q)' /\ length' = length /\ Matches' = Matches
    BY <1>1, <1>3 DEF Follows, Long, length, Length, Matches
<1>5. TypeOK'
    BY <1>1, <1>2 DEF Inv, TypeOK
<1> QED BY <1>1, <1>2, <1>4, <1>5 DEF Inv, Verdict

LEMMA InvStarts == Init => Inv
<1> SUFFICES ASSUME Init PROVE Inv
    OBVIOUS
<1>1. <<image, signed>> \in Flashed
    BY FlashedAssumption DEF Init
<1> QED BY <1>1 DEF Init, Inv, TypeOK, Verdict

LEMMA InvSteps == Inv /\ [Next]_vars => Inv'
<1> SUFFICES ASSUME Inv, [Next]_vars PROVE Inv'
    OBVIOUS
<1>1. CASE UNCHANGED vars
    BY <1>1 DEF vars, Inv, TypeOK, Follows, Long, length, Length, Verdict, Matches
<1> QED BY <1>1, InfoFirstStep, SkipStep, WholeBlockStep, LastBlockStep, CompareStep
        DEF Next

\* The invariant holds in every state of every behaviour.
THEOREM Invariance == Spec => []Inv
BY InvStarts, InvSteps, PTL DEF Spec

\* What is chained is whole blocks of cells.
THEOREM TypeCorrect == Spec => []TypeOK
<1>1. Inv => TypeOK
    BY DEF Inv
<1> QED BY <1>1, Invariance, PTL

\* The copies of validate_fw_image stay inside the image, whatever length it says
\* it has.
THEOREM ReadsStayInside == Spec => []ReadsEndWithImage
BY Invariance, EndsWithImage, PTL

-----------------------------------------------------------------------------
(* The verdict.                                                            *)

Count(i) == (StreamLength(i) \div BLOCK) + 1

LEMMA SignatureIs ==
    ASSUME NEW i
    PROVE  SignatureOf(i) = [n \in 1..Count(i) |-> StreamBlock(i, n)]
BY DEF SignatureOf, StreamBlock, Count

LEMMA CountIs ==
    ASSUME NEW i, Length(i) \in Nat, Length(i) >= INFO + 2 * BLOCK
    PROVE  Count(i) \in Nat /\ Count(i) = Length(i) \div BLOCK
<1>1. Length(i) >= BLOCK
    BY Sizes
<1>2. (Length(i) - BLOCK) \div BLOCK = Length(i) \div BLOCK - 1
    BY <1>1, SameRest
<1>3. Length(i) \div BLOCK \in Nat
    BY Sizes
<1> QED BY <1>2, <1>3 DEF Count, StreamLength

\* A whole image has been chained block for block; the signer's padding block is
\* missing when its length is a multiple of the block.
LEMMA ChainedAll ==
    ASSUME Inv, pc # "start", offset >= length, Long
    PROVE  /\ Count(image) \in Nat /\ Len(chain) \in Nat
           /\ \A n \in 1..Len(chain) : chain[n] = StreamBlock(image, n)
           /\ length <= (Len(chain) + 1) * BLOCK
           /\ length % BLOCK # 0 => Len(chain) = Count(image)
           /\ length % BLOCK = 0 => Len(chain) # Count(image)
<1>1. PICK q \in Nat : Follows(q)
    BY DEF Inv, Verdict
<1>2. length \in Nat /\ length >= INFO + 2 * BLOCK /\ offset >= length /\ offset = q * BLOCK
    BY <1>1, FlashedFacts DEF Inv, TypeOK, Follows, Long
<1>3. q > Before + 1
    <2>1. q <= Before => q * BLOCK <= INFO
        BY Multiples, Sizes
    <2>2. ~(offset <= INFO)
        BY <1>2, Sizes DEF Inv, TypeOK
    <2> QED BY <1>1, <1>2, <2>1, <2>2, Sizes DEF Follows
<1>4. /\ Len(chain) = q - 1 /\ (q - 1) * BLOCK < length
      /\ \A n \in 1..Len(chain) : chain[n] = StreamBlock(image, n)
    BY <1>1, <1>3, Sizes DEF Follows, Done
<1>5. Count(image) \in Nat /\ Count(image) = length \div BLOCK
    BY <1>2, CountIs DEF length
<1> DEFINE p == (q - 1) * BLOCK
           s == length - p
<1>6. p \in Int /\ s \in 1..BLOCK /\ q * BLOCK = p + BLOCK /\ length = p + s
    <2>1. p \in Int /\ q * BLOCK = p + BLOCK
        <3>1. q - 1 \in Int /\ (q - 1) * BLOCK = q * BLOCK - BLOCK /\ q * BLOCK \in Int
            BY Multiples
        <3> QED BY <3>1, Sizes
    <2>2. p < length /\ length <= p + BLOCK
        BY <1>2, <1>4, <2>1
    <2> HIDE DEF p
    <2> QED BY <1>2, <2>1, <2>2, Sizes
<1>7. CASE s < BLOCK
    <2>1. (p + s) % BLOCK = s /\ (p + s) \div BLOCK = q - 1
        <3>1. s \in 0..BLOCK - 1 /\ q - 1 \in Int
            BY <1>6, <1>7, Sizes
        <3> HIDE DEF s
        <3> QED BY <3>1, DivMod, Sizes
    <2>2. length % BLOCK = s /\ length \div BLOCK = q - 1 /\ s # 0
        BY <1>6, <2>1
    <2> HIDE DEF s
    <2> QED BY <1>2, <1>3, <1>4, <1>5, <1>6, <2>2, Sizes
<1>8. CASE s = BLOCK
    <2>1. (q * BLOCK + 0) % BLOCK = 0 /\ (q * BLOCK + 0) \div BLOCK = q
        BY DivMod, Sizes
    <2>2. length = q * BLOCK + 0
        BY <1>6, <1>8
    <2>3. length % BLOCK = 0 /\ length \div BLOCK = q
        BY <2>1, <2>2
    <2> HIDE DEF s
    <2> QED BY <1>2, <1>3, <1>4, <1>5, <1>6, <2>3, Sizes
<1>9. s < BLOCK \/ s = BLOCK
    <2> HIDE DEF s
    <2> QED BY <1>6, Sizes
<1> QED BY <1>7, <1>8, <1>9

InSignature(a) == a \in INFO + BLOCK..INFO + 2 * BLOCK - 1

\* The block of the image that a block of the stream is made of: never the signature.
CellBlock(n) == IF n = 1 THEN Before ELSE IF n <= Before + 1 THEN n - 2 ELSE n

LEMMA OfSignature ==
    ASSUME NEW a \in Nat
    PROVE  InSignature(a) <=> a \div BLOCK = Before + 1
<1> DEFINE q == a \div BLOCK
           r == a % BLOCK
<1>1. q \in Int /\ r \in 0..BLOCK - 1 /\ a = q * BLOCK + r
    BY Sizes, Split
<1>2. (Before + 1) * BLOCK = INFO + BLOCK /\ q * BLOCK \in Int
    <2> HIDE DEF q
    <2> QED BY <1>1, Multiples, Sizes
<1>3. CASE q = Before + 1
    <2>1. a = INFO + BLOCK + r
        BY <1>1, <1>2, <1>3
    <2> HIDE DEF q, r
    <2> QED BY <1>1, <1>3, <2>1, Sizes DEF InSignature, q
<1>4. CASE q < Before + 1
    <2>1. q * BLOCK + BLOCK <= INFO + BLOCK
        <3> HIDE DEF q
        <3> QED BY <1>1, <1>2, <1>4, Multiples, Sizes
    <2> DEFINE p == q * BLOCK
    <2> HIDE DEF q, r
    <2>2. p \in Int /\ a = p + r /\ p + BLOCK <= INFO + BLOCK
        BY <1>1, <1>2, <2>1
    <2> HIDE DEF p
    <2> QED BY <1>1, <1>4, <2>2, Sizes DEF InSignature, q
<1>5. CASE q > Before + 1
    <2>1. INFO + BLOCK + BLOCK <= q * BLOCK
        <3> HIDE DEF q
        <3> QED BY <1>1, <1>2, <1>5, Multiples, Sizes
    <2> DEFINE p == q * BLOCK
    <2> HIDE DEF q, r
    <2>2. p \in Int /\ a = p + r /\ INFO + BLOCK + BLOCK <= p
        BY <1>1, <1>2, <2>1
    <2> HIDE DEF p
    <2> QED BY <1>1, <1>5, <2>2, Sizes DEF InSignature, q
<1> HIDE DEF q, r
<1> QED BY <1>1, <1>3, <1>4, <1>5, Sizes

LEMMA CellBlocks ==
    ASSUME NEW n \in Nat \ {0}
    PROVE  /\ CellBlock(n) \in Nat /\ CellBlock(n) # Before + 1
           /\ \A m \in Nat \ {0} : CellBlock(m) = CellBlock(n) => m = n
BY Sizes DEF CellBlock

LEMMA SameBlock ==
    ASSUME NEW i, NEW o, Length(i) \in Nat, Length(i) = Length(o),
           Length(i) >= INFO + 2 * BLOCK, NEW n \in 1..Count(i),
           \A a \in 0..Length(i) - 1 : a \div BLOCK = CellBlock(n) => i[a] = o[a]
    PROVE  StreamBlock(i, n) = StreamBlock(o, n)
<1>1. Count(i) \in Nat /\ StreamLength(i) = StreamLength(o) /\ n \in Nat \ {0}
    BY CountIs DEF StreamLength
<1> DEFINE p == CellBlock(n) * BLOCK
<1>2. p \in Nat
    <2>1. CellBlock(n) \in Nat /\ 0 <= CellBlock(n) /\ 0 * BLOCK = 0
        BY <1>1, CellBlocks, Sizes
    <2>2. 0 * BLOCK <= CellBlock(n) * BLOCK /\ CellBlock(n) * BLOCK \in Int
        BY <2>1, Multiples
    <2> QED BY <2>1, <2>2
<1>3. \A k \in 0..BLOCK - 1 : p + k \in 0..Length(i) - 1 => i[p + k] = o[p + k]
    <2>1. ASSUME NEW k \in 0..BLOCK - 1 PROVE (p + k) \div BLOCK = CellBlock(n)
        <3> DEFINE c == CellBlock(n)
        <3>1. c \in Int /\ BLOCK \in Nat \ {0}
            BY <1>1, CellBlocks, Sizes
        <3> HIDE DEF c
        <3>2. (c * BLOCK + k) \div BLOCK = c
            BY <3>1, DivMod
        <3> QED BY <3>2 DEF c
    <2> HIDE DEF p
    <2> QED BY <2>1
<1>4. CASE n = 1
    <2>1. p = INFO
        BY <1>4, Sizes DEF CellBlock
    <2>2. \A k \in 0..BLOCK - 1 : INFO + k \in 0..Length(i) - 1
        BY Sizes
    <2>3. \A k \in 0..BLOCK - 1 : i[INFO + k] = o[INFO + k]
        <3> HIDE DEF p
        <3> QED BY <1>3, <2>1, <2>2
    <2> QED BY <1>4, <2>3, InfoBlock
<1>5. CASE n > 1 /\ n <= Before + 1
    <2> DEFINE q == n - 2
    <2>1. q \in Nat /\ q < Before /\ n = q + 2 /\ p = q * BLOCK
        BY <1>1, <1>5, Sizes DEF CellBlock
    <2>2. p + BLOCK <= INFO
        <3> HIDE DEF q
        <3> QED BY <2>1, Multiples, Sizes
    <2>3. \A k \in 0..BLOCK - 1 : p + k \in 0..Length(i) - 1
        <3> HIDE DEF p
        <3> QED BY <1>2, <2>2, Sizes
    <2>4. \A k \in 0..BLOCK - 1 : i[p + k] = o[p + k]
        <3> HIDE DEF p
        <3> QED BY <1>3, <2>3
    <2>5. /\ StreamBlock(i, q + 2) = [k \in 0..BLOCK - 1 |-> i[p + k]]
          /\ StreamBlock(o, q + 2) = [k \in 0..BLOCK - 1 |-> o[p + k]]
        <3> HIDE DEF q, p
        <3>1. \A k \in 0..BLOCK - 1 : q * BLOCK + k = p + k
            BY <2>1
        <3>2. /\ StreamBlock(i, q + 2) = [k \in 0..BLOCK - 1 |-> i[q * BLOCK + k]]
              /\ StreamBlock(o, q + 2) = [k \in 0..BLOCK - 1 |-> o[q * BLOCK + k]]
            BY <2>1, BlocksBefore
        <3> QED BY <3>1, <3>2
    <2> HIDE DEF q, p
    <2> QED BY <2>1, <2>4, <2>5
<1>6. CASE n > Before + 1
    <2> DEFINE pad == BLOCK - (StreamLength(i) % BLOCK)
    <2>1. p = n * BLOCK
        BY <1>6, Sizes DEF CellBlock
    <2>2. \A k \in 0..BLOCK - 1 : p + k < Length(i) => p + k \in 0..Length(i) - 1
        <3> HIDE DEF p
        <3> QED BY <1>2, Sizes
    <2>3. \A k \in 0..BLOCK - 1 : p + k < Length(i) => i[p + k] = o[p + k]
        <3> HIDE DEF p
        <3> QED BY <1>3, <2>2
    <2>4. /\ StreamBlock(i, n) =
                [k \in 0..BLOCK - 1 |-> IF p + k < Length(i) THEN i[p + k] ELSE pad]
          /\ StreamBlock(o, n) =
                [k \in 0..BLOCK - 1 |-> IF p + k < Length(i) THEN o[p + k] ELSE pad]
        BY <1>1, <1>6, <2>1, BlocksAfter
    <2>5. \A k \in 0..BLOCK - 1 :
            (IF p + k < Length(i) THEN i[p + k] ELSE pad)
                = (IF p + k < Length(i) THEN o[p + k] ELSE pad)
        <3> HIDE DEF p, pad
        <3> QED BY <2>3
    <2> HIDE DEF p, pad
    <2> QED BY <2>4, <2>5
<1> QED BY <1>1, <1>4, <1>5, <1>6, Sizes

LEMMA SameBlocks ==
    ASSUME NEW i, NEW o, Length(i) \in Nat, Length(i) = Length(o),
           Length(i) >= INFO + 2 * BLOCK,
           \A a \in 0..Length(i) - 1 : InSignature(a) \/ i[a] = o[a]
    PROVE  SignatureOf(i) = SignatureOf(o)
<1>1. Count(i) = Count(o) /\ Count(i) \in Nat
    BY CountIs DEF Count, StreamLength
<1>2. ASSUME NEW n \in 1..Count(i)
      PROVE  StreamBlock(i, n) = StreamBlock(o, n)
    <2>1. ASSUME NEW a \in 0..Length(i) - 1, a \div BLOCK = CellBlock(n) PROVE i[a] = o[a]
        <3>1. CellBlock(n) # Before + 1 /\ a \in Nat
            BY <1>1, CellBlocks
        <3> QED BY <2>1, <3>1, OfSignature
    <2> QED BY <2>1, SameBlock
<1> QED BY <1>1, <1>2, SignatureIs

\* Images with the same blocks have the same cells.
LEMMA SameCells ==
    ASSUME NEW i, NEW o, Length(i) \in Nat, Length(i) = Length(o), NEW m \in Nat,
           Length(i) >= INFO + 2 * BLOCK, Length(i) <= (m + 1) * BLOCK,
           \A n \in 1..m : StreamBlock(i, n) = StreamBlock(o, n),
           NEW a \in 0..Length(i) - 1, ~InSignature(a)
    PROVE  i[a] = o[a]
<1> DEFINE q == a \div BLOCK
           r == a % BLOCK
           p == q * BLOCK
<1>1. q \in Int /\ r \in 0..BLOCK - 1 /\ a = p + r
    <2>1. a \in Int /\ BLOCK \in Nat \ {0}
        BY Sizes
    <2> QED BY <2>1, Split
<1>2. p \in Int
    <2> HIDE DEF q
    <2> QED BY <1>1, Multiples
<1>3. q \in Nat
    <2>1. q < 0 => p + BLOCK <= 0
        <3>1. 0 * BLOCK = 0 /\ 0 \in Int
            BY Sizes
        <3> HIDE DEF q
        <3> QED BY <1>1, <3>1, Multiples
    <2>2. ~(p + BLOCK <= 0)
        <3> HIDE DEF q, p, r
        <3> QED BY <1>1, <1>2, Sizes
    <2> HIDE DEF q, p, r
    <2> QED BY <1>1, <2>1, <2>2
<1>4. (m + 1) * BLOCK \in Int /\ (m + 1) * BLOCK = m * BLOCK + BLOCK /\ m * BLOCK \in Int
    BY Multiples
<1>5. q <= m
    <2>1. m < q => m * BLOCK + BLOCK <= p
        <3> HIDE DEF q
        <3> QED BY <1>1, Multiples
    <2> DEFINE t == m * BLOCK
    <2>2. t + BLOCK >= Length(i) /\ t \in Int
        BY <1>4
    <2>3. ~(t + BLOCK <= p)
        <3> HIDE DEF q, p, r, t
        <3> QED BY <1>1, <1>2, <2>2, Sizes
    <2> HIDE DEF q, p, r
    <2> QED BY <1>1, <2>1, <2>3
<1>6. m >= Before + 1
    <2>1. m < Before + 1 => m * BLOCK + BLOCK <= (Before + 1) * BLOCK
        BY Multiples, Sizes
    <2>2. (Before + 1) * BLOCK = INFO + BLOCK
        BY Multiples, Sizes
    <2> DEFINE t == m * BLOCK
    <2>3. t + BLOCK >= INFO + 2 * BLOCK /\ t \in Int
        <3>1. t + BLOCK >= Length(i) /\ t \in Int
            BY <1>4
        <3> HIDE DEF t
        <3> QED BY <3>1, Sizes
    <2>4. ~(t + BLOCK <= INFO + BLOCK)
        <3> HIDE DEF t
        <3> QED BY <2>3, Sizes
    <2> QED BY <2>1, <2>2, <2>4, Sizes
<1>7. CASE q < Before
    <2>1. q + 2 \in 1..m
        <3> HIDE DEF q
        <3> QED BY <1>3, <1>6, <1>7, Sizes
    <2>2. /\ StreamBlock(i, q + 2) = [k \in 0..BLOCK - 1 |-> i[p + k]]
          /\ StreamBlock(o, q + 2) = [k \in 0..BLOCK - 1 |-> o[p + k]]
        <3> HIDE DEF q
        <3> QED BY <1>3, <1>7, BlocksBefore
    <2>3. StreamBlock(i, q + 2)[r] = i[p + r] /\ StreamBlock(o, q + 2)[r] = o[p + r]
        <3> HIDE DEF q, p, r
        <3> QED BY <1>1, <2>2
    <2> HIDE DEF q, p, r
    <2> QED BY <1>1, <2>1, <2>3
<1>8. CASE q = Before
    <2>1. 1 \in 1..m /\ p = INFO
        <3> HIDE DEF q
        <3> QED BY <1>6, <1>8, Sizes
    <2>2. StreamBlock(i, 1)[r] = i[INFO + r] /\ StreamBlock(o, 1)[r] = o[INFO + r]
        <3> HIDE DEF q, p, r
        <3> QED BY <1>1, InfoBlock
    <2> HIDE DEF q, p, r
    <2> QED BY <1>1, <2>1, <2>2
<1>9. CASE q > Before + 1
    <2>1. q \in 1..m
        <3> HIDE DEF q
        <3> QED BY <1>3, <1>5, <1>9, Sizes
    <2>2. /\ StreamBlock(i, q) =
                [k \in 0..BLOCK - 1 |-> IF p + k < Length(i) THEN i[p + k]
                                        ELSE BLOCK - (StreamLength(i) % BLOCK)]
          /\ StreamBlock(o, q) =
                [k \in 0..BLOCK - 1 |-> IF p + k < Length(o) THEN o[p + k]
                                        ELSE BLOCK - (StreamLength(o) % BLOCK)]
        <3> HIDE DEF q
        <3> QED BY <1>3, <1>9, BlocksAfter
    <2>3. p + r < Length(i) /\ p + r < Length(o)
        <3> HIDE DEF q, p, r
        <3> QED BY <1>1
    <2>4. StreamBlock(i, q)[r] = i[p + r] /\ StreamBlock(o, q)[r] = o[p + r]
        <3> HIDE DEF q, p, r
        <3> QED BY <1>1, <2>2, <2>3
    <2> HIDE DEF q, p, r
    <2> QED BY <1>1, <2>1, <2>4
<1>10. q # Before + 1
    <2>1. q = Before + 1 => p = INFO + BLOCK
        <3> HIDE DEF q
        <3> QED BY Multiples, Sizes
    <2> HIDE DEF q, p, r
    <2> QED BY <1>1, <1>2, <2>1, Sizes DEF InSignature
<1> HIDE DEF q, p, r
<1> QED BY <1>3, <1>7, <1>8, <1>9, <1>10, Sizes

\* The loop rebuilds the stream of the image's own signature.
LEMMA StreamRebuilt ==
    ASSUME Inv, pc # "start", offset >= length, IsSigned, length % BLOCK # 0
    PROVE  Matches
<1>1. /\ length \in Nat /\ length >= INFO + 2 * BLOCK /\ length = Length(signed)
      /\ \A a \in 0..length - 1 : InSignature(a) \/ image[a] = signed[a]
    BY FlashedFacts DEF Inv, TypeOK, IsSigned, InSignature
<1>2. SignatureOf(image) = SignatureOf(signed)
    BY <1>1, SameBlocks DEF length
<1>3. /\ Len(chain) = Count(image)
      /\ \A n \in 1..Len(chain) : chain[n] = StreamBlock(image, n)
    BY <1>1, ChainedAll DEF Long
<1>4. chain = [n \in 1..Len(chain) |-> chain[n]]
    BY DEF Inv, TypeOK
<1>5. chain = SignatureOf(image)
    BY <1>3, <1>4, SignatureIs
<1> QED BY <1>2, <1>5 DEF Matches

\* An image that carries its own signature is accepted, but for the lengths that
\* are multiples of the block (bootloader.c:186-229 against main.py:51-72).
THEOREM SignedAccepted == Spec => []PaddedImagesAccepted
<1>1. Inv => PaddedImagesAccepted
    <2> SUFFICES ASSUME Inv, length % BLOCK # 0, pc = "rejected", IsSigned
                 PROVE  FALSE
        BY DEF PaddedImagesAccepted, SignedImagesAccepted
    <2>1. Matches
        BY StreamRebuilt DEF Inv, Verdict
    <2> QED BY <2>1 DEF Inv, Verdict
<1> QED BY <1>1, Invariance, PTL

\* Nothing else is accepted: a change of any cell but the signature's, of the length
\* or of what looks like padding shows, if the MAC tells streams apart.
THEOREM OthersRejected == Spec => []OnlySignedAccepted
<1>1. Inv => OnlySignedAccepted
    <2> SUFFICES ASSUME Inv, pc = "accepted" PROVE IsSigned
        BY DEF OnlySignedAccepted
    <2>1. /\ length \in Nat /\ Length(signed) \in Nat
          /\ Length(signed) >= INFO + 2 * BLOCK
        BY FlashedFacts DEF Inv, TypeOK
    <2>2. chain = SignatureOf(signed)
        BY DEF Inv, Verdict, Matches
    <2>3. chain = [n \in 1..Count(signed) |-> StreamBlock(signed, n)] /\ Count(signed) \in Nat
        BY <2>1, <2>2, SignatureIs, CountIs
    <2>4. PICK q \in Nat : Follows(q)
        BY DEF Inv
    <2>5. /\ Len(chain) = Count(signed) /\ Len(chain) >= 1
          /\ chain[1] = StreamBlock(image, 1)
          /\ \A n \in 1..Len(chain) : chain[n] = StreamBlock(signed, n)
        BY <2>3, <2>4 DEF Follows
    <2>6. length = Length(signed)
        <3>1. StreamBlock(image, 1) = StreamBlock(signed, 1)
            BY <2>3, <2>5
        <3>2. 3 \in 0..BLOCK - 1
            BY Sizes
        <3>3. StreamBlock(image, 1)[3] = image[INFO + 3]
              /\ StreamBlock(signed, 1)[3] = signed[INFO + 3]
            BY <3>2, InfoBlock
        <3> QED BY <3>1, <3>3 DEF length, Length, LengthCell
    <2>7. /\ Len(chain) \in Nat /\ length <= (Len(chain) + 1) * BLOCK
          /\ \A n \in 1..Len(chain) : chain[n] = StreamBlock(image, n)
        BY <2>1, <2>6, ChainedAll DEF Inv, Verdict, Long
    <2>8. \A n \in 1..Len(chain) : StreamBlock(image, n) = StreamBlock(signed, n)
        BY <2>5, <2>7
    <2>9. ASSUME NEW a \in 0..length - 1, ~InSignature(a)
          PROVE  image[a] = signed[a]
        BY <2>1, <2>6, <2>7, <2>8, <2>9, SameCells DEF length
    <2> QED BY <2>6, <2>9 DEF IsSigned, InSignature
<1> QED BY <1>1, Invariance, PTL


-----------------------------------------------------------------------------
(* The same with AES.                                                      *)

LEMMA Values16 ==
    ASSUME NEW v \in Values
    PROVE  /\ v \in Nat /\ v % 256 \in Byte /\ v \div 256 \in Byte
           /\ v = (v \div 256) * 256 + (v % 256)
<1>1. v \in Nat /\ v < 65536
    BY WordsAssumption
<1>2. v % 256 \in 0..255 /\ v \div 256 \in 0..255
    BY <1>1
<1>3. v = (v \div 256) * 256 + (v % 256)
    BY <1>1
<1> QED BY <1>1, <1>2, <1>3 DEF Byte

LEMMA BytesOfBlock ==
    ASSUME NEW b \in Blocks
    PROVE  /\ BytesOf(b) \in AES_Block_t
           /\ \A k \in 0..BLOCK - 1 : BytesOf(b)[k + 1][1] = b[k] % 256
                                      /\ BytesOf(b)[k + 1][2] = b[k] \div 256
<1>1. BLOCK = 4
    BY WordsAssumption
<1>2. \A k \in 0..3 : b[k] \in Values
    BY <1>1 DEF Blocks
<1> DEFINE W(k) == <<b[k] % 256, b[k] \div 256, 0, 0>>
<1>3. ASSUME NEW k \in 0..3
      PROVE  W(k) \in Word /\ W(k)[1] = b[k] % 256 /\ W(k)[2] = b[k] \div 256
    <2> DEFINE x == b[k] % 256
               y == b[k] \div 256
    <2>1. x \in Byte /\ y \in Byte /\ 0 \in Byte
        BY <1>2, Values16 DEF Byte
    <2> HIDE DEF x, y
    <2>2. <<x, y, 0, 0>> \in [1..4 -> Byte]
        BY <2>1, Tuples
    <2>3. W(k) = <<x, y, 0, 0>>
        BY DEF x, y
    <2> QED BY <2>2, <2>3 DEF Word, x, y
<1>4. BytesOf(b) = <<W(0), W(1), W(2), W(3)>>
    BY DEF BytesOf, Each
<1> HIDE DEF W
<1>5. W(0) \in Word /\ W(1) \in Word /\ W(2) \in Word /\ W(3) \in Word
    BY <1>3
<1>6. BytesOf(b) \in AES_Block_t
    BY <1>4, <1>5, Tuples, BlocksAre
<1>7. \A k \in 0..3 : BytesOf(b)[k + 1] = W(k)
    BY <1>4, <1>5, Tuples
<1> QED BY <1>1, <1>3, <1>6, <1>7

LEMMA BytesTellBlocks ==
    ASSUME NEW a \in Blocks, NEW b \in Blocks, BytesOf(a) = BytesOf(b)
    PROVE  a = b
<1>1. ASSUME NEW k \in 0..BLOCK - 1 PROVE a[k] = b[k]
    <2>1. a[k] \in Values /\ b[k] \in Values
        BY DEF Blocks
    <2>2. a[k] % 256 = b[k] % 256 /\ a[k] \div 256 = b[k] \div 256
        BY BytesOfBlock
    <2>3. /\ a[k] = (a[k] \div 256) * 256 + (a[k] % 256)
          /\ b[k] = (b[k] \div 256) * 256 + (b[k] % 256)
        BY <2>1, Values16
    <2> QED BY <2>2, <2>3
<1>2. a = [k \in 0..BLOCK - 1 |-> a[k]] /\ b = [k \in 0..BLOCK - 1 |-> b[k]]
    BY DEF Blocks
<1> QED BY <1>1, <1>2

LEMMA ZeroIsBlock == ZeroBlock \in AES_Block_t
<1>1. <<0, 0, 0, 0>> \in Word
    <2>1. 0 \in Byte
        BY DEF Byte
    <2> QED BY <2>1, Tuples DEF Word
<1>2. ZeroBlock = <<<<0, 0, 0, 0>>, <<0, 0, 0, 0>>, <<0, 0, 0, 0>>, <<0, 0, 0, 0>>>>
    BY DEF ZeroBlock, Each
<1> DEFINE z == <<0, 0, 0, 0>>
<1> HIDE DEF z
<1>3. <<z, z, z, z>> \in [1..4 -> Word]
    BY <1>1, Tuples DEF z
<1> QED BY <1>2, <1>3, BlocksAre DEF z

LEMMA KeyAddedCommutes ==
    ASSUME NEW s \in AES_Block_t, NEW k \in AES_Block_t
    PROVE  AES_AddRoundKey(s, k) = AES_AddRoundKey(k, s)
<1>1. \A c \in 1..4 : s[c] \in Word /\ k[c] \in Word /\ GF_WordAdd(s[c], k[c]) = GF_WordAdd(k[c], s[c])
    BY BlocksAre, WordAdd
<1> QED BY <1>1 DEF AES_AddRoundKey, Each

\* A step of CBC tells apart blocks chained to the same cipher text, and cipher
\* texts the same block is chained to: the cipher can be inverted.
LEMMA StepTellsApart ==
    ASSUME NEW keys \in Keys, NEW a \in Blocks, NEW b \in Blocks,
           NEW p \in AES_Block_t, NEW q \in AES_Block_t,
           Cipher(AES_AddRoundKey(BytesOf(a), p), keys) = Cipher(AES_AddRoundKey(BytesOf(b), q), keys)
    PROVE  p = q <=> a = b
<1> DEFINE x == BytesOf(a)
           y == BytesOf(b)
           s == AES_AddRoundKey(x, p)
           t == AES_AddRoundKey(y, q)
<1>1. x \in AES_Block_t /\ y \in AES_Block_t
    BY BytesOfBlock
<1> HIDE DEF x, y
<1>2. s \in AES_Block_t /\ t \in AES_Block_t
    BY <1>1, KeyAdded
<1>3. s = t
    <2>1. Cipher(s, keys) = Cipher(t, keys)
        BY DEF x, y
    <2> HIDE DEF s, t
    <2>2. AES_EncryptBlock(s, keys) = AES_EncryptBlock(t, keys)
        BY <1>2, <2>1, EncryptIsCipher
    <2> QED BY <1>2, <2>2, DecryptInverts
<1>4. p = q => x = y
    <2>1. AES_AddRoundKey(s, p) = x /\ AES_AddRoundKey(t, q) = y
        BY <1>1, KeyAdded
    <2> QED BY <1>3, <2>1
<1>5. x = y => p = q
    <2>1. AES_AddRoundKey(AES_AddRoundKey(p, x), x) = p /\ AES_AddRoundKey(AES_AddRoundKey(q, y), y) = q
        BY <1>1, KeyAdded
    <2>2. AES_AddRoundKey(p, x) = s /\ AES_AddRoundKey(q, y) = t
        BY <1>1, KeyAddedCommutes
    <2> QED BY <1>3, <2>1, <2>2
<1>6. x = y => a = b
    BY BytesTellBlocks DEF x, y
<1> QED BY <1>4, <1>5, <1>6 DEF x, y


\* The cipher texts of CBC.
IsCbc(f, s, keys) ==
    f[0] = ZeroBlock /\ \A n \in 1..Len(s) : f[n] = Cipher(AES_AddRoundKey(BytesOf(s[n]), f[n - 1]), keys)

LEMMA CbcStepType ==
    ASSUME NEW keys \in Keys, NEW b \in Blocks, NEW p \in AES_Block_t
    PROVE  /\ AES_AddRoundKey(BytesOf(b), p) \in AES_Block_t
           /\ Cipher(AES_AddRoundKey(BytesOf(b), p), keys) \in AES_Block_t
<1>1. AES_AddRoundKey(BytesOf(b), p) \in AES_Block_t
    BY BytesOfBlock, KeyAdded
<1> DEFINE x == AES_AddRoundKey(BytesOf(b), p)
<1>2. x \in AES_Block_t
    BY <1>1
<1> HIDE DEF x
<1>3. Cipher(x, keys) \in AES_Block_t
    BY <1>2, EncryptIsCipher
<1> QED BY <1>2, <1>3 DEF x

LEMMA CbcLast ==
    ASSUME NEW keys \in Keys, NEW s \in Seq(Blocks), NEW f \in [0..Len(s) -> AES_Block_t],
           IsCbc(f, s, keys)
    PROVE  LastBlockOfCbc(s, keys) = f[Len(s)]
<1> DEFINE N == Len(s)
           Step(n, p) == Cipher(AES_AddRoundKey(BytesOf(s[n]), p), keys)
           Is(g) == g = [n \in 0..N |-> IF n = 0 THEN ZeroBlock ELSE Step(n, g[n - 1])]
           after == CHOOSE g : Is(g)
<1>1. N \in Nat
    OBVIOUS
<1>2. f[0] = ZeroBlock /\ \A n \in 1..N : f[n] = Step(n, f[n - 1])
    BY DEF IsCbc
<1>3. f = [n \in 0..N |-> f[n]]
    OBVIOUS
<1>4. LastBlockOfCbc(s, keys) = after[N]
    BY DEF LastBlockOfCbc, after, Step, N
<1> HIDE DEF N, Step
<1>5. Is(f)
    BY <1>1, <1>2, <1>3
<1>6. Is(after)
    <2> HIDE DEF Is
    <2> QED BY <1>5
<1>7. after[0] = ZeroBlock /\ \A n \in 1..N : after[n] = Step(n, after[n - 1])
    <2> HIDE DEF after
    <2> QED BY <1>1, <1>6
<1> HIDE DEF after
<1>8. AgreeOn(f, after, N)
    BY <1>2, <1>7 DEF AgreeOn
<1>9. \A n \in 0..N : f[n] = after[n]
    BY <1>1, <1>8, LoopsAgree, Zenon
<1> QED BY <1>1, <1>4, <1>9 DEF N

LEMMA CbcLoop ==
    ASSUME NEW keys \in Keys, NEW s \in Seq(Blocks)
    PROVE  \E f \in [0..Len(s) -> AES_Block_t] :
              IsCbc(f, s, keys) /\ LastBlockOfCbc(s, keys) = f[Len(s)]
<1> DEFINE N == Len(s)
           Step(n, p) == Cipher(AES_AddRoundKey(BytesOf(s[n]), p), keys)
           G == [n \in 1..N |-> [p \in AES_Block_t |-> Step(n, p)]]
<1>1. N \in Nat /\ \A n \in 1..N : s[n] \in Blocks
    OBVIOUS
<1>2. \A n \in 1..N : \A p \in AES_Block_t : Step(n, p) \in AES_Block_t
    <2> HIDE DEF N
    <2> QED BY <1>1, CbcStepType
<1>3. G \in [1..N -> [AES_Block_t -> AES_Block_t]]
    <2> HIDE DEF N, Step
    <2> QED BY <1>2
<1>4. PICK f \in [0..N -> AES_Block_t] : IsLoop(f, N, ZeroBlock, G)
    <2> HIDE DEF G, N
    <2> QED BY <1>1, <1>3, ZeroIsBlock, LoopExists
<1>5. f[0] = ZeroBlock /\ \A n \in 1..N : f[n] = Step(n, f[n - 1])
    <2> HIDE DEF N, Step
    <2>1. ASSUME NEW n \in 1..N PROVE f[n] = Step(n, f[n - 1])
        <3>1. f[n - 1] \in AES_Block_t
            BY <1>1
        <3>2. f[n] = G[n][f[n - 1]]
            BY <1>4 DEF IsLoop
        <3> QED BY <3>1, <3>2
    <2> QED BY <1>4, <2>1 DEF IsLoop
<1>6. IsCbc(f, s, keys)
    BY <1>5 DEF IsCbc
<1> QED BY <1>6, CbcLast

\* One more block.
LEMMA CbcExtended ==
    ASSUME NEW keys \in Keys, NEW s \in Seq(Blocks), NEW b \in Blocks
    PROVE  /\ LastBlockOfCbc(s, keys) \in AES_Block_t
           /\ LastBlockOfCbc(s \o <<b>>, keys)
                = Cipher(AES_AddRoundKey(BytesOf(b), LastBlockOfCbc(s, keys)), keys)
<1> DEFINE N == Len(s)
           t == s \o <<b>>
<1>1. PICK f \in [0..N -> AES_Block_t] :
          IsCbc(f, s, keys) /\ LastBlockOfCbc(s, keys) = f[N]
    BY CbcLoop
<1>2. N \in Nat /\ f[N] \in AES_Block_t
    OBVIOUS
<1>3. t \in Seq(Blocks) /\ Len(t) = N + 1 /\ t[N + 1] = b /\ \A n \in 1..N : t[n] = s[n]
    BY Joined
<1> DEFINE last == Cipher(AES_AddRoundKey(BytesOf(b), f[N]), keys)
           g == [n \in 0..N + 1 |-> IF n = N + 1 THEN last ELSE f[n]]
<1>4. last \in AES_Block_t
    BY <1>2, CbcStepType
<1>5. f[0] = ZeroBlock /\ \A n \in 1..N : f[n] = Cipher(AES_AddRoundKey(BytesOf(s[n]), f[n - 1]), keys)
    BY <1>1 DEF IsCbc
<1> HIDE DEF N, t
<1>6. g \in [0..N + 1 -> AES_Block_t] /\ g[0] = ZeroBlock /\ g[N + 1] = last /\ \A n \in 0..N : g[n] = f[n]
    <2> HIDE DEF last
    <2> QED BY <1>2, <1>4, <1>5
<1> HIDE DEF g
<1>7. ASSUME NEW n \in 1..Len(t) PROVE g[n] = Cipher(AES_AddRoundKey(BytesOf(t[n]), g[n - 1]), keys)
    <2>1. CASE n = N + 1
        <3>1. n - 1 = N /\ N \in 0..N
            BY <1>2, <2>1
        <3>2. g[n - 1] = f[N] /\ t[n] = b /\ g[n] = last
            BY <1>3, <1>6, <2>1, <3>1
        <3> QED BY <3>2
    <2>2. CASE n # N + 1
        <3>1. n \in 1..N /\ n - 1 \in 0..N /\ n \in 0..N
            BY <1>2, <1>3, <2>2
        <3>2. g[n] = f[n] /\ g[n - 1] = f[n - 1] /\ t[n] = s[n]
            BY <1>3, <1>6, <3>1
        <3> QED BY <1>5, <3>1, <3>2
    <2> QED BY <2>1, <2>2
<1>8. IsCbc(g, t, keys)
    BY <1>6, <1>7 DEF IsCbc
<1>9. LastBlockOfCbc(t, keys) = g[N + 1]
    BY <1>3, <1>6, <1>8, CbcLast
<1> QED BY <1>1, <1>2, <1>6, <1>9 DEF t


\* What AES has made of the blocks is what openssl would make of them.
CbcInv ==
    /\ Inv
    /\ round_key = AES_KeySchedule128(secrete_key)
    /\ signature = LastBlockOfCbc(SignatureOf(signed), round_key)
    /\ prev_cipher_block = LastBlockOfCbc(chain, round_key)

LEMMA RoundKeys == AES_KeySchedule128(secrete_key) \in Keys
BY KeyAssumption, ScheduleIsKeyExpansion

LEMMA CbcStart == CbcInit => CbcInv
<1> SUFFICES ASSUME CbcInit PROVE CbcInv
    OBVIOUS
<1>1. Init /\ round_key \in Keys /\ prev_cipher_block = ZeroBlock /\ chain = <<>>
    BY RoundKeys DEF CbcInit, Init
<1>2. Inv
    BY <1>1, InvStarts
<1>3. LastBlockOfCbc(chain, round_key) = ZeroBlock
    <2>1. chain \in Seq(Blocks) /\ Len(chain) = 0
        BY <1>1
    <2> DEFINE f == [n \in 0..0 |-> ZeroBlock]
    <2>2. f \in [0..Len(chain) -> AES_Block_t] /\ IsCbc(f, chain, round_key) /\ f[0] = ZeroBlock
        BY <2>1, ZeroIsBlock DEF IsCbc
    <2> HIDE DEF f
    <2> QED BY <1>1, <2>1, <2>2, CbcLast
<1> QED BY <1>1, <1>2, <1>3 DEF CbcInv, CbcInit

\* A step chains one block or none: the case of two never comes.
LEMMA OneBlock ==
    ASSUME Inv, Next, Inv'
    PROVE  \/ chain' = chain
           \/ \E b \in Blocks : chain' = chain \o <<b>>
<1>1. CASE SkipInfoAndSignature \/ Compare
    BY <1>1 DEF SkipInfoAndSignature, Compare
<1>2. ASSUME NEW b, chain' = chain \o <<b>> PROVE b \in Blocks
    <2>1. chain \in Seq(Blocks) /\ chain' \in Seq(Blocks)
        BY DEF Inv, TypeOK
    <2>2. Len(chain') = Len(chain) + 1 /\ chain'[Len(chain) + 1] = b
        BY <1>2, <2>1
    <2> QED BY <2>1, <2>2
<1>3. CASE InfoFirst
    BY <1>2, <1>3 DEF InfoFirst, aes_cbc_mac_step
<1>4. CASE WholeBlock
    BY <1>2, <1>4 DEF WholeBlock, aes_cbc_mac_step
<1>5. CASE LastBlock
    <2>1. bytes_to_pad # BLOCK
        <3>1. length \in Nat
            BY FlashedFacts DEF Inv, TypeOK
        <3> QED BY <3>1, PadFacts, Sizes
    <2> DEFINE b == [k \in 0..BLOCK - 1 |->
                        IF k < BLOCK - bytes_to_pad THEN image[offset + k] ELSE bytes_to_pad]
    <2>2. LastBlocks = <<b>>
        BY <2>1 DEF LastBlocks
    <2>3. chain' = chain \o <<b>>
        BY <1>5, <2>2 DEF LastBlock, aes_cbc_mac_step
    <2> HIDE DEF b
    <2> QED BY <1>2, <2>3
<1> QED BY <1>1, <1>3, <1>4, <1>5 DEF Next

LEMMA LastOnly ==
    ASSUME NEW S, NEW s \in Seq(S), Len(s) \in Nat \ {0}
    PROVE  SubSeq(s, Len(s), Len(s)) = <<s[Len(s)]>>
<1> DEFINE n == Len(s)
           last == SubSeq(s, n, n)
<1>1. n \in Nat \ {0} /\ n - n + 1 = 1 /\ n + 1 - 1 = n /\ \A i \in n..n : s[i] \in S
    OBVIOUS
<1>2. last \in Seq(S) /\ Len(last) = 1 /\ last[1] = s[n]
    <2> HIDE DEF n
    <2> QED BY <1>1, SubSeqProperties
<1> HIDE DEF n, last
<1>3. ASSUME NEW t, t \in Seq(S), Len(t) = 1 PROVE t = <<t[1]>>
    BY <1>3
<1>4. last = <<last[1]>>
    BY <1>2, <1>3
<1> QED BY <1>2, <1>4 DEF last, n

\* What aes_cbc_mac_step does to prev_cipher_block.
LEMMA ChainedBlocks ==
    ASSUME CbcInv, CbcNext, Inv'
    PROVE  \/ chain' = chain /\ prev_cipher_block' = prev_cipher_block
           \/ \E b \in Blocks :
                /\ chain' = chain \o <<b>> /\ chain'[Len(chain')] = b
                /\ prev_cipher_block' = AES_EncryptBlock(Xored(b, prev_cipher_block), round_key)
<1>1. chain \in Seq(Blocks) /\ Inv /\ Next
    BY DEF CbcInv, CbcNext, Inv, TypeOK
<1> DEFINE new == SubSeq(chain', Len(chain) + 1, Len(chain'))
           Is(blocks, g) ==
               g = [n \in 0..Len(blocks) |->
                       IF n = 0 THEN prev_cipher_block
                       ELSE AES_EncryptBlock(Xored(blocks[n], g[n - 1]), round_key)]
<1>2. prev_cipher_block' = Chained(prev_cipher_block, new)
    BY DEF CbcNext
<1>3. ASSUME NEW blocks
      PROVE  Chained(prev_cipher_block, blocks) = (CHOOSE g : Is(blocks, g))[Len(blocks)]
    BY DEF Chained
<1>4. CASE chain' = chain
    <2>1. new = <<>> /\ Len(<<>>) = 0
        BY <1>1, <1>4
    <2> DEFINE f == [n \in 0..0 |-> prev_cipher_block]
               after == CHOOSE g : Is(<<>>, g)
    <2>2. Is(<<>>, f)
        BY <2>1
    <2>3. Is(<<>>, after)
        <3> HIDE DEF Is
        <3> QED BY <2>2
    <2> HIDE DEF after
    <2>4. after[0] = prev_cipher_block
        BY <2>1, <2>3
    <2>5. Chained(prev_cipher_block, <<>>) = after[Len(<<>>)]
        BY <1>3 DEF after
    <2> QED BY <1>2, <1>4, <2>1, <2>4, <2>5
<1>5. CASE \E b \in Blocks : chain' = chain \o <<b>>
    <2>1. PICK b \in Blocks : chain' = chain \o <<b>>
        BY <1>5
    <2>2. Len(chain') = Len(chain) + 1 /\ chain'[Len(chain')] = b
        BY <1>1, <2>1
    <2>3. new = <<b>>
        <3> DEFINE t == chain'
        <3>1. t \in Seq(Blocks) /\ Len(chain) + 1 = Len(t) /\ Len(t) \in Nat \ {0} /\ t[Len(t)] = b
            BY <1>1, <2>1, <2>2
        <3> HIDE DEF t
        <3>2. SubSeq(t, Len(t), Len(t)) = <<b>>
            BY <3>1, LastOnly
        <3> QED BY <3>1, <3>2 DEF t
    <2> DEFINE e == AES_EncryptBlock(Xored(b, prev_cipher_block), round_key)
               f == [n \in 0..1 |-> IF n = 0 THEN prev_cipher_block ELSE e]
               after == CHOOSE g : Is(<<b>>, g)
    <2>4. Len(<<b>>) = 1 /\ <<b>>[1] = b
        OBVIOUS
    <2>5. Is(<<b>>, f)
        <3>1. f[0] = prev_cipher_block
            OBVIOUS
        <3> HIDE DEF f
        <3>2. \A n \in 0..1 : (IF n = 0 THEN prev_cipher_block ELSE e)
                  = IF n = 0 THEN prev_cipher_block
                    ELSE AES_EncryptBlock(Xored(<<b>>[n], f[n - 1]), round_key)
            <4>1. \A n \in 0..1 : n # 0 => n = 1 /\ n - 1 = 0
                OBVIOUS
            <4> QED BY <2>4, <3>1, <4>1
        <3> HIDE DEF e
        <3>3. f = [n \in 0..Len(<<b>>) |-> IF n = 0 THEN prev_cipher_block ELSE e]
            BY <2>4 DEF f
        <3> QED BY <2>4, <3>2, <3>3
    <2>6. Is(<<b>>, after)
        <3> HIDE DEF Is
        <3> QED BY <2>5
    <2> HIDE DEF after
    <2>7. after[0] = prev_cipher_block /\ after[1] = e
        BY <2>4, <2>6
    <2>8. Chained(prev_cipher_block, <<b>>) = after[Len(<<b>>)]
        BY <1>3 DEF after
    <2>9. prev_cipher_block' = e
        <3> HIDE DEF e, new
        <3> QED BY <1>2, <2>3, <2>4, <2>7, <2>8
    <2> QED BY <2>1, <2>2, <2>9
<1> QED BY <1>1, <1>4, <1>5, OneBlock


LEMMA CbcSteps == CbcInv /\ [CbcNext]_cbcVars => CbcInv'
<1> SUFFICES ASSUME CbcInv, [CbcNext]_cbcVars PROVE CbcInv'
    OBVIOUS
<1>1. Inv'
    BY InvSteps DEF CbcInv, CbcNext, cbcVars
<1>2. CASE UNCHANGED cbcVars
    BY <1>1, <1>2 DEF CbcInv, cbcVars, vars
<1>3. CASE CbcNext
    <2>1. /\ round_key' = round_key /\ signature' = signature /\ signed' = signed
          /\ round_key \in Keys /\ chain \in Seq(Blocks)
        BY <1>3, RoundKeys
           DEF CbcInv, CbcNext, Next, InfoFirst, SkipInfoAndSignature, WholeBlock, LastBlock, Compare,
               Inv, TypeOK
    <2>2. prev_cipher_block' = LastBlockOfCbc(chain', round_key)
        <3>1. CASE chain' = chain /\ prev_cipher_block' = prev_cipher_block
            BY <3>1 DEF CbcInv
        <3>2. CASE \E b \in Blocks :
                    /\ chain' = chain \o <<b>>
                    /\ prev_cipher_block' = AES_EncryptBlock(Xored(b, prev_cipher_block), round_key)
            <4>1. PICK b \in Blocks :
                    /\ chain' = chain \o <<b>>
                    /\ prev_cipher_block' = AES_EncryptBlock(Xored(b, prev_cipher_block), round_key)
                BY <3>2
            <4> DEFINE prev == LastBlockOfCbc(chain, round_key)
                       x == AES_AddRoundKey(BytesOf(b), prev)
            <4>2. prev \in AES_Block_t /\ LastBlockOfCbc(chain \o <<b>>, round_key) = Cipher(x, round_key)
                BY <2>1, CbcExtended
            <4>3. prev_cipher_block = prev
                BY DEF CbcInv
            <4> HIDE DEF prev
            <4>4. x \in AES_Block_t
                BY <2>1, <4>2, CbcStepType
            <4>5. prev_cipher_block' = AES_EncryptBlock(x, round_key)
                BY <4>1, <4>3 DEF Xored
            <4> HIDE DEF x
            <4>6. AES_EncryptBlock(x, round_key) = Cipher(x, round_key)
                BY <2>1, <4>4, EncryptIsCipher
            <4> QED BY <4>1, <4>2, <4>5, <4>6
        <3> QED BY <1>1, <1>3, <3>1, <3>2, ChainedBlocks
    <2> QED BY <1>1, <2>1, <2>2 DEF CbcInv
<1> QED BY <1>2, <1>3

\* At every moment of the loop prev_cipher_block is what openssl would have computed
\* of the blocks so far.
THEOREM CbcInvariance == CbcSpec => []CbcInv
BY CbcStart, CbcSteps, PTL DEF CbcSpec

\* The round keys in use are those of FIPS-197 (aes.c:101-134), for every key.
THEOREM Expanded == CbcSpec => []KeysExpanded
<1>1. CbcInv => KeysExpanded
    BY KeyAssumption, ScheduleIsKeyExpansion DEF CbcInv, KeysExpanded
<1> QED BY <1>1, CbcInvariance, PTL

\* AES_DecryptBlock would give every chained block back (aes.c:280-298).
THEOREM Inverted == CbcSpec => DecryptionInverts
<1> DEFINE Back == \E block \in {chain'[Len(chain')]} :
                      AES_DecryptBlock(prev_cipher_block', round_key) = Xored(block, prev_cipher_block)
<1>1. CbcInv /\ [CbcNext]_cbcVars => [Back]_prev_cipher_block
    <2> SUFFICES ASSUME CbcInv, CbcNext, prev_cipher_block' # prev_cipher_block
                 PROVE  Back
        BY DEF cbcVars
    <2>1. Inv'
        BY InvSteps DEF CbcInv, CbcNext
    <2>2. PICK b \in Blocks :
            /\ chain' = chain \o <<b>> /\ chain'[Len(chain')] = b
            /\ prev_cipher_block' = AES_EncryptBlock(Xored(b, prev_cipher_block), round_key)
        BY <2>1, ChainedBlocks
    <2>3. round_key \in Keys /\ chain \in Seq(Blocks) /\ prev_cipher_block = LastBlockOfCbc(chain, round_key)
        BY RoundKeys DEF CbcInv, Inv, TypeOK
    <2>4. prev_cipher_block \in AES_Block_t
        BY <2>2, <2>3, CbcExtended
    <2> DEFINE x == Xored(b, prev_cipher_block)
    <2>5. x \in AES_Block_t
        BY <2>3, <2>4, CbcStepType DEF Xored
    <2> HIDE DEF x
    <2>6. AES_DecryptBlock(AES_EncryptBlock(x, round_key), round_key) = x
        BY <2>3, <2>5, DecryptInverts
    <2> QED BY <2>2, <2>6 DEF x
<1>2. CbcSpec => [][Back]_prev_cipher_block
    BY <1>1, CbcInvariance, PTL DEF CbcSpec
<1> QED BY <1>2 DEF DecryptionInverts

\* A signed image passes the memcmp of bootloader.c:227 with AES itself, for every
\* key, every image and every length that is no multiple of the block.
THEOREM SignedPasses == CbcSpec => []SignedPassesMac
<1>1. CbcInv => SignedPassesMac
    <2> SUFFICES ASSUME CbcInv, pc = "loop", offset >= length, IsSigned, length % BLOCK # 0
                 PROVE  prev_cipher_block = signature
        BY DEF SignedPassesMac
    <2>1. chain = SignatureOf(signed)
        BY StreamRebuilt DEF CbcInv, Matches
    <2> QED BY <2>1 DEF CbcInv
<1> QED BY <1>1, CbcInvariance, PTL


-----------------------------------------------------------------------------
(* One altered block.                                                      *)

LEMMA StreamTyped ==
    ASSUME NEW i, Length(i) \in Nat, Length(i) >= INFO + 2 * BLOCK,
           \A a \in 0..Length(i) - 1 : i[a] \in Values, NEW n \in Nat \ {0}
    PROVE  StreamBlock(i, n) \in Blocks
<1>1. ASSUME NEW j \in Nat PROVE Stream(i, j) \in Values
    <2> DEFINE l == StreamLength(i)
               r == l % BLOCK
    <2>1. l \in Nat /\ l = Length(i) - BLOCK
        BY Sizes DEF StreamLength
    <2>2. r \in 0..BLOCK - 1
        <3> HIDE DEF l
        <3> QED BY <2>1, Sizes
    <2>3. BLOCK - r \in Values
        <3> HIDE DEF r
        <3>1. BLOCK - r \in 0..BLOCK
            BY <2>2, Sizes
        <3> QED BY <3>1, ValuesAssumption
    <2>4. /\ j < BLOCK => INFO + j \in 0..Length(i) - 1
          /\ j >= BLOCK /\ j < BLOCK + INFO => j - BLOCK \in 0..Length(i) - 1
          /\ j < l => j + BLOCK \in 0..Length(i) - 1
        <3> HIDE DEF l
        <3> QED BY <2>1, Sizes
    <2>5. j < BLOCK \/ (j >= BLOCK /\ j < BLOCK + INFO) \/ j >= BLOCK + INFO
        BY Sizes
    <2> HIDE DEF r
    <2> QED BY <2>3, <2>4, <2>5, StreamIs DEF r
<1>2. \A k \in 0..BLOCK - 1 : (n - 1) * BLOCK + k \in Nat
    <2> DEFINE p == (n - 1) * BLOCK
    <2>1. p \in Nat
        <3> DEFINE x == n - 1
        <3>1. x \in Int /\ 0 <= x /\ 0 * BLOCK = 0 /\ 0 \in Int
            BY Sizes
        <3> HIDE DEF x
        <3>2. 0 * BLOCK <= x * BLOCK /\ x * BLOCK \in Int
            BY <3>1, Multiples
        <3> QED BY <3>1, <3>2 DEF x
    <2> HIDE DEF p
    <2>2. \A k \in 0..BLOCK - 1 : p + k \in Nat
        BY <2>1, Sizes
    <2> QED BY <2>2 DEF p
<1> QED BY <1>1, <1>2 DEF StreamBlock, Blocks

\* Streams that differ in one block end in different cipher texts: the difference
\* survives every block after it.
LEMMA DifferenceSurvives ==
    ASSUME NEW keys \in Keys, NEW s \in Seq(Blocks), NEW t \in Seq(Blocks), Len(s) = Len(t),
           NEW m \in 1..Len(s), s[m] # t[m], \A n \in 1..Len(s) : n # m => s[n] = t[n]
    PROVE  LastBlockOfCbc(s, keys) # LastBlockOfCbc(t, keys)
<1> DEFINE N == Len(s)
<1>1. PICK f \in [0..N -> AES_Block_t] : IsCbc(f, s, keys) /\ LastBlockOfCbc(s, keys) = f[N]
    BY CbcLoop
<1>2. PICK g \in [0..N -> AES_Block_t] : IsCbc(g, t, keys) /\ LastBlockOfCbc(t, keys) = g[N]
    BY CbcLoop
<1>3. /\ N \in Nat /\ m \in 1..N
      /\ \A n \in 1..N : s[n] \in Blocks /\ t[n] \in Blocks /\ (n # m => s[n] = t[n])
    OBVIOUS
<1>4. /\ f[0] = ZeroBlock /\ g[0] = ZeroBlock
      /\ \A n \in 1..N : /\ f[n] = Cipher(AES_AddRoundKey(BytesOf(s[n]), f[n - 1]), keys)
                         /\ g[n] = Cipher(AES_AddRoundKey(BytesOf(t[n]), g[n - 1]), keys)
    BY <1>1, <1>2 DEF IsCbc
<1> HIDE DEF N
<1> DEFINE S == {i \in 0..N : f[i] = g[i] <=> i < m}
<1>5. 0 \in S
    BY <1>3, <1>4
<1>6. ASSUME NEW i \in 0..N - 1, i \in S PROVE i + 1 \in S
    <2> DEFINE n == i + 1
    <2>1. n \in 1..N /\ n - 1 = i /\ n \in 0..N /\ i \in 0..N
        BY <1>3
    <2>2. f[i] = g[i] <=> n <= m
        BY <1>3, <1>6
    <2> HIDE DEF n
    <2>3. f[i] \in AES_Block_t /\ g[i] \in AES_Block_t /\ s[n] \in Blocks /\ t[n] \in Blocks
        BY <1>3, <2>1
    <2>4. /\ f[n] = Cipher(AES_AddRoundKey(BytesOf(s[n]), f[i]), keys)
          /\ g[n] = Cipher(AES_AddRoundKey(BytesOf(t[n]), g[i]), keys)
        BY <1>4, <2>1
    <2>5. ASSUME f[n] = g[n] PROVE f[i] = g[i] <=> s[n] = t[n]
        <3>1. Cipher(AES_AddRoundKey(BytesOf(s[n]), f[i]), keys)
                = Cipher(AES_AddRoundKey(BytesOf(t[n]), g[i]), keys)
            BY <2>4, <2>5
        <3> DEFINE a == s[n]
                   b == t[n]
                   p == f[i]
                   q == g[i]
        <3>2. /\ a \in Blocks /\ b \in Blocks /\ p \in AES_Block_t /\ q \in AES_Block_t
              /\ Cipher(AES_AddRoundKey(BytesOf(a), p), keys) = Cipher(AES_AddRoundKey(BytesOf(b), q), keys)
            BY <2>3, <3>1
        <3> HIDE DEF a, b, p, q
        <3>3. p = q <=> a = b
            BY <3>2, StepTellsApart
        <3> QED BY <3>3 DEF a, b, p, q
    <2>6. f[i] = g[i] /\ s[n] = t[n] => f[n] = g[n]
        BY <2>4
    <2>7. s[n] = t[n] <=> n # m
        BY <1>3, <2>1
    <2>8. f[n] = g[n] <=> n < m
        BY <1>3, <2>1, <2>2, <2>5, <2>6, <2>7
    <2>9. n \in S
        BY <2>1, <2>8
    <2> QED BY <2>9 DEF n
<1>7. N \in S
    <2> HIDE DEF S
    <2>1. N \in Nat /\ N \in 0..N
        BY <1>3
    <2>2. \A i \in 0..N - 1 : i \in S => i + 1 \in S
        BY <1>6
    <2>3. 0..N \subseteq S
        BY <1>5, <2>1, <2>2, BoundedInduction, Zenon
    <2> QED BY <2>1, <2>3
<1>8. f[N] # g[N]
    BY <1>3, <1>7
<1> QED BY <1>1, <1>2, <1>8

\* An image altered in one block gives a stream that differs in one block.
LEMMA AlteredStream ==
    ASSUME Inv, pc # "start", offset >= length, OneBlockAltered, length % BLOCK # 0
    PROVE  /\ SignatureOf(signed) \in Seq(Blocks) /\ Len(SignatureOf(signed)) = Len(chain)
           /\ \E m \in 1..Len(chain) :
                /\ chain[m] # SignatureOf(signed)[m]
                /\ \A n \in 1..Len(chain) : n # m => chain[n] = SignatureOf(signed)[n]
<1>1. /\ length \in Nat /\ length >= INFO + 2 * BLOCK /\ Length(image) = length
      /\ Length(image) = Length(signed)
      /\ \A a \in 0..Length(signed) - 1 : signed[a] \in Values
    <2>1. <<image, signed>> \in Flashed /\ <<image, signed>>[2] = signed
        BY DEF Inv, TypeOK
    <2>2. \A a \in 0..Length(signed) - 1 : signed[a] \in Values
        BY <2>1, FlashedAssumption
    <2> QED BY <2>1, <2>2, FlashedFacts DEF OneBlockAltered, length
<1>2. Count(signed) = Count(image) /\ Count(image) \in Nat
    BY <1>1, CountIs DEF Count, StreamLength
<1>3. /\ Len(chain) = Count(image) /\ length <= (Len(chain) + 1) * BLOCK
      /\ \A n \in 1..Len(chain) : chain[n] = StreamBlock(image, n)
    BY <1>1, ChainedAll DEF Long
<1>4. /\ SignatureOf(signed) \in Seq(Blocks) /\ Len(SignatureOf(signed)) = Len(chain)
      /\ \A n \in 1..Len(chain) : SignatureOf(signed)[n] = StreamBlock(signed, n)
    <2>1. \A n \in 1..Count(signed) : StreamBlock(signed, n) \in Blocks
        BY <1>1, <1>2, StreamTyped
    <2>2. SignatureOf(signed) = [n \in 1..Count(signed) |-> StreamBlock(signed, n)]
        BY SignatureIs
    <2> QED BY <1>2, <1>3, <2>1, <2>2
<1>5. \A a \in 0..length - 1 : a \in Altered <=> ~InSignature(a) /\ image[a] # signed[a]
    BY DEF Altered, InSignature
<1>6. Altered \subseteq 0..length - 1 /\ Altered # {}
    BY DEF Altered, OneBlockAltered
<1>7. ASSUME NEW n \in 1..Len(chain), StreamBlock(image, n) # StreamBlock(signed, n)
      PROVE  \E a \in Altered : a \div BLOCK = CellBlock(n)
    <2>1. PICK a \in 0..Length(image) - 1 : a \div BLOCK = CellBlock(n) /\ image[a] # signed[a]
        BY <1>1, <1>3, <1>7, SameBlock
    <2>2. a \in Nat /\ n \in Nat \ {0}
        BY <1>1
    <2>3. ~InSignature(a)
        BY <2>1, <2>2, OfSignature, CellBlocks
    <2> QED BY <1>1, <1>5, <2>1, <2>3
<1>8. PICK m \in 1..Len(chain) : StreamBlock(image, m) # StreamBlock(signed, m)
    <2>1. PICK a \in Altered : TRUE
        BY <1>6
    <2>2. a \in 0..length - 1 /\ ~InSignature(a) /\ image[a] # signed[a]
        BY <1>5, <1>6
    <2> SUFFICES ASSUME \A n \in 1..Len(chain) : StreamBlock(image, n) = StreamBlock(signed, n)
                 PROVE  FALSE
        OBVIOUS
    <2>3. Len(chain) \in Nat /\ a \in 0..Length(image) - 1 /\ Length(image) <= (Len(chain) + 1) * BLOCK
        BY <1>1, <1>2, <1>3, <2>2
    <2> QED BY <1>1, <2>2, <2>3, SameCells
<1>9. ASSUME NEW n \in 1..Len(chain), StreamBlock(image, n) # StreamBlock(signed, n)
      PROVE  n = m
    <2>1. PICK a \in Altered : a \div BLOCK = CellBlock(n)
        BY <1>7, <1>9
    <2>2. PICK b \in Altered : b \div BLOCK = CellBlock(m)
        BY <1>7, <1>8
    <2>3. a \div BLOCK = b \div BLOCK
        BY DEF OneBlockAltered
    <2>4. n \in Nat \ {0} /\ m \in Nat \ {0}
        BY <1>2, <1>3
    <2> QED BY <2>1, <2>2, <2>3, <2>4, CellBlocks
<1>10. /\ chain[m] # SignatureOf(signed)[m]
       /\ \A n \in 1..Len(chain) : n # m => chain[n] = SignatureOf(signed)[n]
    BY <1>3, <1>4, <1>8, <1>9
<1> QED BY <1>4, <1>10

\* An image with the cells of one block altered, its version among them, never passes
\* the memcmp: for every key, and whatever the rest of the image holds.
THEOREM AlteredFails == CbcSpec => []AlteredBlockFailsMac
<1>1. CbcInv => AlteredBlockFailsMac
    <2> SUFFICES ASSUME CbcInv, pc = "loop", offset >= length, OneBlockAltered, length % BLOCK # 0
                 PROVE  prev_cipher_block # signature
        BY DEF AlteredBlockFailsMac
    <2> DEFINE t == SignatureOf(signed)
    <2>1. /\ t \in Seq(Blocks) /\ Len(t) = Len(chain)
          /\ \E m \in 1..Len(chain) :
                chain[m] # t[m] /\ \A n \in 1..Len(chain) : n # m => chain[n] = t[n]
        BY AlteredStream DEF CbcInv
    <2> HIDE DEF t
    <2>2. chain \in Seq(Blocks) /\ round_key \in Keys
        BY RoundKeys DEF CbcInv, Inv, TypeOK
    <2>3. LastBlockOfCbc(chain, round_key) # LastBlockOfCbc(t, round_key)
        BY <2>1, <2>2, DifferenceSurvives
    <2> QED BY <2>3 DEF CbcInv, t
<1> QED BY <1>1, CbcInvariance, PTL

\* What validate_fw_image decides of these images it decides for every key, with
\* no assumption on the MAC.
THEOREM Decided == CbcSpec => []MacDecides
BY SignedPasses, AlteredFails, PTL DEF MacDecides
==============================================================================
