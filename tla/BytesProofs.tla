----------------------------- MODULE BytesProofs -----------------------------
(***************************************************************************)
(* What the loops over bytes compute, for data of every length, every key  *)
(* and every block: the CRC-8 notices every short burst, the key schedule  *)
(* is that of FIPS-197, AES_EncryptBlock is its cipher, and                *)
(* AES_DecryptBlock takes it back.                                         *)
(***************************************************************************)
EXTENDS ByteTables, SequenceTheorems, WellFoundedInduction, TLAPS

-----------------------------------------------------------------------------
(* Loops.  A property of numbers is a set of numbers here, and the body of  *)
(* a loop a function of the turn and of what has been computed so far.     *)

LEMMA SetInduction ==
    ASSUME NEW S, 0 \in S, \A n \in Nat : n \in S => n + 1 \in S
    PROVE  Nat \subseteq S
<1> DEFINE R == {p \in Nat \X Nat : p[1] < p[2]}
           T == Nat \ S
<1>1. IsWellFoundedOn(R, Nat)
    BY NatLessThanWellFounded DEF OpToRel
<1>2. SUFFICES ASSUME T # {} PROVE FALSE
    OBVIOUS
<1>3. T \subseteq Nat
    OBVIOUS
<1> HIDE DEF R
<1>4. PICK x \in T : \A y \in T : ~ (<<y, x>> \in R)
    <2> HIDE DEF T
    <2> QED BY <1>1, <1>2, <1>3, WFMin
<1>5. x \in Nat /\ x \notin S /\ x # 0
    BY <1>4
<1>6. x - 1 \in Nat /\ x - 1 < x /\ (x - 1) + 1 = x
    BY <1>5
<1>7. x - 1 \in T
    BY <1>5, <1>6
<1>8. <<x - 1, x>> \in R
    BY <1>5, <1>6 DEF R
<1> QED BY <1>4, <1>7, <1>8

\* The same up to a bound.
LEMMA BoundedInduction ==
    ASSUME NEW N \in Nat, NEW S, 0 \in S, \A n \in 0..N - 1 : n \in S => n + 1 \in S
    PROVE  0..N \subseteq S
<1> DEFINE T == S \cup {n \in Nat : n > N}
<1>1. 0 \in T
    OBVIOUS
<1>2. ASSUME NEW n \in Nat, n \in T PROVE n + 1 \in T
    <2>1. CASE n < N
        <3>1. n \in 0..N - 1 /\ n \in S
            BY <1>2, <2>1
        <3> QED BY <3>1
    <2>2. CASE n >= N
        BY <2>2
    <2> QED BY <2>1, <2>2
<1>3. Nat \subseteq T
    <2> HIDE DEF T
    <2> QED BY <1>1, <1>2, SetInduction
<1>4. ASSUME NEW n \in 0..N PROVE n \in S
    BY <1>3, <1>4
<1> QED BY <1>4

\* f is what a loop of N turns with the body G computes from x.
IsLoop(f, N, x, G) == f[0] = x /\ \A i \in 1..N : f[i] = G[i][f[i - 1]]

\* Every turn leaves f and g equal if they were.
AgreeOn(f, g, N) == f[0] = g[0] /\ \A i \in 1..N : f[i - 1] = g[i - 1] => f[i] = g[i]

\* A loop computes something, of the type its body keeps.
LEMMA LoopExists ==
    ASSUME NEW N \in Nat, NEW X, NEW x \in X, NEW G \in [1..N -> [X -> X]]
    PROVE  \E f \in [0..N -> X] : IsLoop(f, N, x, G)
<1> DEFINE S == {n \in 0..N : \E f \in [0..n -> X] : IsLoop(f, n, x, G)}
<1>1. 0 \in S
    <2> DEFINE f == [i \in 0..0 |-> x]
    <2>1. f \in [0..0 -> X] /\ IsLoop(f, 0, x, G)
        BY DEF IsLoop
    <2> HIDE DEF f
    <2> QED BY <2>1
<1>2. ASSUME NEW n \in 0..N - 1, n \in S PROVE n + 1 \in S
    <2>1. PICK f \in [0..n -> X] : IsLoop(f, n, x, G)
        BY <1>2
    <2> DEFINE g == [i \in 0..n + 1 |-> IF i = n + 1 THEN G[n + 1][f[n]] ELSE f[i]]
    <2>2. n \in 0..n /\ n + 1 \in 1..N /\ f[n] \in X /\ G[n + 1][f[n]] \in X
        OBVIOUS
    <2>3. g \in [0..n + 1 -> X]
        BY <2>2
    <2>4. g[0] = x
        BY <2>1 DEF IsLoop
    <2>5. ASSUME NEW i \in 1..n + 1 PROVE g[i] = G[i][g[i - 1]]
        <3>1. i - 1 \in 0..n + 1 /\ i - 1 # n + 1 /\ i \in 0..n + 1
            OBVIOUS
        <3>2. g[i - 1] = f[i - 1]
            BY <3>1
        <3>3. CASE i = n + 1
            BY <3>1, <3>2, <3>3
        <3>4. CASE i # n + 1
            <4>1. i \in 1..n /\ g[i] = f[i]
                BY <3>1, <3>4
            <4> QED BY <2>1, <3>2, <4>1 DEF IsLoop
        <3> QED BY <3>3, <3>4
    <2>6. IsLoop(g, n + 1, x, G)
        <3> HIDE DEF g
        <3> QED BY <2>4, <2>5 DEF IsLoop
    <2> HIDE DEF g
    <2> QED BY <2>3, <2>6
<1>3. N \in S
    <2> HIDE DEF S
    <2>1. 0..N \subseteq S
        BY <1>1, <1>2, BoundedInduction
    <2>2. N \in 0..N
        OBVIOUS
    <2> QED BY <2>1, <2>2
<1> QED BY <1>3

\* What two loops of the same turns compute, from the same beginning.
LEMMA LoopsAgree ==
    ASSUME NEW N \in Nat, NEW f, NEW g, AgreeOn(f, g, N)
    PROVE  \A i \in 0..N : f[i] = g[i]
<1> DEFINE S == {n \in 0..N : f[n] = g[n]}
<1>1. 0 \in S
    BY DEF AgreeOn
<1>2. ASSUME NEW n \in 0..N - 1, n \in S PROVE n + 1 \in S
    <2>1. n + 1 \in 1..N /\ (n + 1) - 1 = n /\ f[n] = g[n]
        BY <1>2
    <2> QED BY <2>1 DEF AgreeOn
<1>3. 0..N \subseteq S
    <2> HIDE DEF S
    <2> QED BY <1>1, <1>2, BoundedInduction
<1> QED BY <1>3

-----------------------------------------------------------------------------
(* Exclusive or.                                                           *)

LEMMA Nibbles ==
    ASSUME NEW a \in Byte
    PROVE  a \div 16 \in Nibble /\ a % 16 \in Nibble /\ a = 16 * (a \div 16) + (a % 16)
BY DEF Byte, Nibble

LEMMA OfNibbles ==
    ASSUME NEW h \in Nibble, NEW l \in Nibble
    PROVE  16 * h + l \in Byte /\ (16 * h + l) \div 16 = h /\ (16 * h + l) % 16 = l
BY DEF Byte, Nibble

LEMMA XorNibbles ==
    ASSUME NEW a \in Byte, NEW b \in Byte
    PROVE  /\ Xor(a, b) \in Byte
           /\ Xor(a, b) \div 16 = XorNibble(a \div 16, b \div 16)
           /\ Xor(a, b) % 16 = XorNibble(a % 16, b % 16)
<1>1. XorNibble(a \div 16, b \div 16) \in Nibble /\ XorNibble(a % 16, b % 16) \in Nibble
    BY Nibbles, NibbleAssumption
<1> QED BY <1>1, OfNibbles DEF Xor

LEMMA XorType ==
    ASSUME NEW a \in Byte, NEW b \in Byte
    PROVE  Xor(a, b) \in Byte
BY XorNibbles

LEMMA XorCommutes ==
    ASSUME NEW a \in Byte, NEW b \in Byte
    PROVE  Xor(a, b) = Xor(b, a)
BY Nibbles, NibbleAssumption DEF Xor

LEMMA XorAssociates ==
    ASSUME NEW a \in Byte, NEW b \in Byte, NEW c \in Byte
    PROVE  Xor(Xor(a, b), c) = Xor(a, Xor(b, c))
<1>1. Xor(Xor(a, b), c)
        = 16 * XorNibble(XorNibble(a \div 16, b \div 16), c \div 16)
            + XorNibble(XorNibble(a % 16, b % 16), c % 16)
    BY XorNibbles DEF Xor
<1>2. Xor(a, Xor(b, c))
        = 16 * XorNibble(a \div 16, XorNibble(b \div 16, c \div 16))
            + XorNibble(a % 16, XorNibble(b % 16, c % 16))
    BY XorNibbles DEF Xor
<1> QED BY <1>1, <1>2, Nibbles, NibbleAssumption

LEMMA XorZero ==
    ASSUME NEW a \in Byte
    PROVE  Xor(a, 0) = a /\ Xor(0, a) = a /\ Xor(a, a) = 0
<1>1. 0 \div 16 = 0 /\ 0 % 16 = 0 /\ 0 \in Byte
    BY DEF Byte
<1>2. Xor(a, 0) = 16 * (a \div 16) + (a % 16)
    BY <1>1, Nibbles, NibbleAssumption DEF Xor
<1>3. Xor(a, a) = 16 * 0 + 0
    BY Nibbles, NibbleAssumption DEF Xor
<1> QED BY <1>1, <1>2, <1>3, Nibbles, XorCommutes

LEMMA XorCancels ==
    ASSUME NEW a \in Byte, NEW b \in Byte
    PROVE  Xor(Xor(a, b), b) = a /\ Xor(a, Xor(a, b)) = b
BY XorAssociates, XorZero

LEMMA XorInjective ==
    ASSUME NEW a \in Byte, NEW b \in Byte, NEW c \in Byte, Xor(a, c) = Xor(b, c)
    PROVE  a = b
BY XorCancels

LEMMA XorRegroups ==
    ASSUME NEW a \in Byte, NEW b \in Byte, NEW c \in Byte, NEW d \in Byte
    PROVE  Xor(Xor(a, b), Xor(c, d)) = Xor(Xor(a, c), Xor(b, d))
<1>1. Xor(Xor(a, b), Xor(c, d)) = Xor(a, Xor(b, Xor(c, d)))
    BY XorAssociates, XorType
<1>2. Xor(b, Xor(c, d)) = Xor(Xor(b, c), d)
    BY XorAssociates
<1>3. Xor(Xor(b, c), d) = Xor(Xor(c, b), d)
    BY XorCommutes
<1>4. Xor(Xor(c, b), d) = Xor(c, Xor(b, d))
    BY XorAssociates
<1>5. Xor(a, Xor(c, Xor(b, d))) = Xor(Xor(a, c), Xor(b, d))
    BY XorAssociates, XorType
<1> QED BY <1>1, <1>2, <1>3, <1>4, <1>5

-----------------------------------------------------------------------------
(* The CRC.                                                                *)

\* The loop of crc8_compute, for data of every length.
LEMMA CrcLoop ==
    ASSUME NEW data \in Seq(Byte)
    PROVE  \E f \in [0..Len(data) -> Byte] :
              /\ f[0] = 0
              /\ \A i \in 1..Len(data) : f[i] = Shifted8[Xor(f[i - 1], data[i]) + 1]
              /\ crc8_compute(data) = f[Len(data)]
<1> DEFINE N == Len(data)
           G == [i \in 1..N |-> [c \in Byte |-> Shifted8[Xor(c, data[i]) + 1]]]
           Is(f) == f = [i \in 0..N |->
                            IF i = 0 THEN 0 ELSE Shifted8[Xor(f[i - 1], data[i]) + 1]]
           crc == CHOOSE f : Is(f)
<1>1. N \in Nat /\ 0 \in Byte
    BY DEF Byte
<1>2. ASSUME NEW i \in 1..N, NEW c \in Byte
      PROVE  Shifted8[Xor(c, data[i]) + 1] \in Byte
    <2>1. data[i] \in Byte
        OBVIOUS
    <2> QED BY <2>1, XorType, ShiftedAssumption
<1>3. G \in [1..N -> [Byte -> Byte]]
    BY <1>2
<1>4. PICK f \in [0..N -> Byte] : IsLoop(f, N, 0, G)
    <2> HIDE DEF G, N
    <2> QED BY <1>1, <1>3, LoopExists
<1>5. ASSUME NEW i \in 1..N PROVE f[i] = Shifted8[Xor(f[i - 1], data[i]) + 1]
    <2>1. i - 1 \in 0..N /\ f[i - 1] \in Byte
        OBVIOUS
    <2> QED BY <1>4, <2>1 DEF IsLoop
<1>6. ASSUME NEW i \in 0..N
      PROVE  f[i] = IF i = 0 THEN 0 ELSE Shifted8[Xor(f[i - 1], data[i]) + 1]
    <2>1. CASE i = 0
        BY <1>4, <2>1 DEF IsLoop
    <2>2. CASE i # 0
        <3>1. i \in 1..N
            BY <2>2
        <3> QED BY <2>2, <3>1, <1>5
    <2> QED BY <2>1, <2>2
<1>7. Is(f)
    BY <1>6
<1>8. Is(crc)
    <2> HIDE DEF Is
    <2> QED BY <1>7
<1>9. DOMAIN crc = 0..N /\ crc[0] = 0
      /\ \A i \in 1..N : crc[i] = Shifted8[Xor(crc[i - 1], data[i]) + 1]
    <2> HIDE DEF crc
    <2> QED BY <1>8, <1>1
<1>10. \A i \in 0..N : f[i] = crc[i]
    <2> HIDE DEF crc
    <2>1. f[0] = crc[0]
        BY <1>4, <1>9 DEF IsLoop
    <2>2. ASSUME NEW i \in 1..N, f[i - 1] = crc[i - 1] PROVE f[i] = crc[i]
        BY <2>2, <1>5, <1>9
    <2>3. AgreeOn(f, crc, N)
        BY <2>1, <2>2 DEF AgreeOn
    <2> HIDE DEF N
    <2> QED BY <1>1, <2>3, LoopsAgree
<1>11. crc8_compute(data) = crc[N]
    BY DEF crc8_compute
<1>12. crc8_compute(data) = f[N]
    BY <1>1, <1>10, <1>11
<1> QED BY <1>4, <1>5, <1>12 DEF IsLoop

LEMMA ShiftedZero == Shifted8[0 + 1] = 0
<1>1. 0 \in Byte
    BY DEF Byte
<1>2. Shifted8[0 + 1] \in Byte /\ Shifted8[Xor(0, 0) + 1] = Xor(Shifted8[0 + 1], Shifted8[0 + 1])
    BY <1>1, ShiftedAssumption
<1> QED BY <1>1, <1>2, XorZero

\* What a burst does to the bytes: e1 to the byte b, e2 to the one behind it.
LEMMA HitIs ==
    ASSUME NEW p \in Seq(Byte), NEW pattern \in ShortBursts, NEW start \in Starts(p, pattern)
    PROVE  \E b \in 1..Len(p), e1 \in Byte, e2 \in Byte :
              /\ Shifted8[e1 + 1] # e2
              /\ b = Len(p) => e1 # 0
              /\ Hit(p, start, pattern) =
                    [k \in 1..Len(p) |-> CASE k = b -> Xor(p[k], e1)
                                           [] k = b + 1 -> Xor(p[k], e2)
                                           [] OTHER -> p[k]]
<1> DEFINE b == start \div 8 + 1
           shift == start % 8
           e1 == First(start, pattern)
           e2 == Second(start, pattern)
<1>1. start \in 0..8 * Len(p) - 1 /\ Len(p) \in Nat /\ (b = Len(p) => e2 = 0)
    BY DEF Starts
<1>2. b \in 1..Len(p) /\ shift \in 0..7 /\ shift % 8 = shift
    BY <1>1
<1>3. e1 = First(shift, pattern) /\ e2 = Second(shift, pattern)
    <2>1. start % 8 = shift % 8
        BY <1>2
    <2> QED BY <2>1 DEF First, Second
<1>4. e1 \in Byte /\ e2 \in Byte /\ Shifted8[e1 + 1] # e2
    <2> HIDE DEF e1, e2, shift
    <2> QED BY <1>2, <1>3, BurstAssumption
<1>5. b = Len(p) => e1 # 0
    BY <1>1, <1>4, ShiftedZero
<1>6. DOMAIN p = 1..Len(p)
    OBVIOUS
<1>7. Hit(p, start, pattern) =
        [k \in 1..Len(p) |-> CASE k = b -> Xor(p[k], e1)
                               [] k = b + 1 -> Xor(p[k], e2)
                               [] OTHER -> p[k]]
    BY <1>6, Zenon DEF Hit
<1> HIDE DEF b, e1, e2
<1> QED BY <1>2, <1>4, <1>5, <1>7

\* The CRC at the end of a packet.
HasCrc(p) == p[Len(p)] = crc8_compute(SubSeq(p, 1, Len(p) - 1))

\* Once two CRCs differ they differ until the data that follows does.
LEMMA StayApart ==
    ASSUME NEW N \in Nat, NEW m \in 0..N, NEW f \in [0..N -> Byte], NEW g \in [0..N -> Byte],
           NEW d \in [m + 1..N -> Byte], f[m] # g[m],
           \A i \in m + 1..N : /\ f[i] = Shifted8[Xor(f[i - 1], d[i]) + 1]
                               /\ g[i] = Shifted8[Xor(g[i - 1], d[i]) + 1]
    PROVE  f[N] # g[N]
<1> DEFINE S == {n \in 0..N : n >= m => f[n] # g[n]}
<1>1. 0 \in S
    OBVIOUS
<1>2. ASSUME NEW n \in 0..N - 1, n \in S PROVE n + 1 \in S
    <2>1. n + 1 \in 0..N
        OBVIOUS
    <2>2. CASE n >= m
        <3>1. n + 1 \in m + 1..N /\ (n + 1) - 1 = n /\ n \in 0..N
            BY <2>2
        <3>2. f[n] # g[n] /\ f[n] \in Byte /\ g[n] \in Byte /\ d[n + 1] \in Byte
            BY <1>2, <2>2, <3>1
        <3>3. /\ f[n + 1] = Shifted8[Xor(f[n], d[n + 1]) + 1]
              /\ g[n + 1] = Shifted8[Xor(g[n], d[n + 1]) + 1]
            BY <3>1
        <3>4. Xor(f[n], d[n + 1]) # Xor(g[n], d[n + 1])
            BY <3>2, XorInjective
        <3>5. f[n + 1] # g[n + 1]
            BY <3>2, <3>3, <3>4, XorType, ShiftedAssumption
        <3> QED BY <2>1, <3>5
    <2>3. CASE n + 1 = m
        BY <2>1, <2>3
    <2>4. CASE n + 1 < m
        BY <2>1, <2>4
    <2> QED BY <2>2, <2>3, <2>4
<1>3. 0..N \subseteq S
    <2> HIDE DEF S
    <2> QED BY <1>1, <1>2, BoundedInduction
<1>4. N \in S /\ N >= m
    BY <1>3
<1> QED BY <1>4

\* A burst of up to seven bits, anywhere in a packet of any length and content
\* and in its CRC too, leaves the packet with a CRC that is not that of its data:
\* what comms_update compares at comms.c:128-131 tells it from the packet sent.
THEOREM BurstsNoticed ==
    ASSUME NEW p \in Seq(Byte), HasCrc(p),
           NEW pattern \in ShortBursts, NEW start \in Starts(p, pattern)
    PROVE  ~ HasCrc(Hit(p, start, pattern))
<1> DEFINE h == Hit(p, start, pattern)
           L == Len(p)
           N == L - 1
           dp == SubSeq(p, 1, N)
           dh == SubSeq(h, 1, N)
<1>1. PICK b \in 1..L, e1 \in Byte, e2 \in Byte :
              /\ Shifted8[e1 + 1] # e2
              /\ b = L => e1 # 0
              /\ h = [k \in 1..L |-> CASE k = b -> Xor(p[k], e1)
                                       [] k = b + 1 -> Xor(p[k], e2)
                                       [] OTHER -> p[k]]
    BY HitIs
<1> HIDE DEF h
<1>2. L \in Nat \ {0} /\ N \in Nat /\ L = N + 1
    BY <1>1
<1>3. \A k \in 1..L : p[k] \in Byte
    OBVIOUS
<1>4. ASSUME NEW k \in 1..L
      PROVE  /\ h[k] \in Byte
             /\ k = b => h[k] = Xor(p[k], e1)
             /\ k = b + 1 => h[k] = Xor(p[k], e2)
             /\ k # b /\ k # b + 1 => h[k] = p[k]
    <2>1. k = b => k # b + 1
        BY <1>1
    <2>2. p[k] \in Byte /\ Xor(p[k], e1) \in Byte /\ Xor(p[k], e2) \in Byte
        BY <1>3, XorType
    <2> QED BY <1>1, <2>1, <2>2
<1>5. h \in Seq(Byte) /\ Len(h) = L
    <2>1. h \in [1..L -> Byte]
        BY <1>1, <1>4
    <2> HIDE DEF L
    <2> QED BY <1>2, <2>1
<1>6. /\ dp \in Seq(Byte) /\ Len(dp) = N /\ \A k \in 1..N : dp[k] = p[k]
      /\ dh \in Seq(Byte) /\ Len(dh) = N /\ \A k \in 1..N : dh[k] = h[k]
    <2>1. 1..N \subseteq 1..L /\ \A k \in 1..N : 1 + k - 1 = k
        BY <1>2
    <2>2. N <= Len(p) /\ N <= Len(h) /\ N \in Nat
        BY <1>2, <1>5
    <2> HIDE DEF L, N
    <2> QED BY <1>2, <1>3, <1>4, <1>5, <2>1, <2>2, SubSeqProperties
<1> HIDE DEF dp, dh, L, N
<1>7. PICK f \in [0..N -> Byte] :
          /\ f[0] = 0
          /\ \A i \in 1..N : f[i] = Shifted8[Xor(f[i - 1], p[i]) + 1]
          /\ crc8_compute(dp) = f[N]
    <2>1. PICK f \in [0..N -> Byte] :
              /\ f[0] = 0
              /\ \A i \in 1..N : f[i] = Shifted8[Xor(f[i - 1], dp[i]) + 1]
              /\ crc8_compute(dp) = f[N]
        BY <1>6, CrcLoop
    <2> QED BY <1>6, <2>1
<1>8. PICK g \in [0..N -> Byte] :
          /\ g[0] = 0
          /\ \A i \in 1..N : g[i] = Shifted8[Xor(g[i - 1], h[i]) + 1]
          /\ crc8_compute(dh) = g[N]
    <2>1. PICK g \in [0..N -> Byte] :
              /\ g[0] = 0
              /\ \A i \in 1..N : g[i] = Shifted8[Xor(g[i - 1], dh[i]) + 1]
              /\ crc8_compute(dh) = g[N]
        BY <1>6, CrcLoop
    <2> QED BY <1>6, <2>1
<1>9. p[L] = f[N]
    BY <1>7 DEF HasCrc, dp, L, N
<1>10. SUFFICES ASSUME h[L] = g[N] PROVE FALSE
    <2>1. HasCrc(h) <=> h[L] = crc8_compute(dh)
        BY <1>5 DEF HasCrc, dh, N
    <2> QED BY <1>8, <2>1 DEF h
\* Up to the burst nothing differs.
<1>11. f[b - 1] = g[b - 1]
    <2>1. ASSUME NEW i \in 1..b - 1, f[i - 1] = g[i - 1] PROVE f[i] = g[i]
        <3>1. i \in 1..N /\ i \in 1..L /\ i # b /\ i # b + 1
            BY <1>2
        <3>2. h[i] = p[i]
            BY <1>4, <3>1
        <3> QED BY <1>7, <1>8, <2>1, <3>1, <3>2
    <2>2. AgreeOn(f, g, b - 1)
        BY <1>7, <1>8, <2>1 DEF AgreeOn
    <2> DEFINE n == b - 1
    <2>3. n \in Nat
        BY <1>2
    <2>4. AgreeOn(f, g, n)
        BY <2>2
    <2> HIDE DEF n
    <2>5. \A i \in 0..n : f[i] = g[i]
        BY <2>3, <2>4, LoopsAgree, Zenon
    <2>6. n \in 0..n
        BY <2>3
    <2>7. f[n] = g[n]
        BY <2>5, <2>6
    <2> QED BY <2>7 DEF n
\* In the CRC itself.
<1>12. CASE b = L
    <2>1. b - 1 = N /\ L \in 1..L /\ p[L] \in Byte
        BY <1>2, <1>3, <1>12
    <2>2. Xor(p[L], e1) = p[L]
        BY <1>4, <1>9, <1>10, <1>11, <1>12, <2>1
    <2>3. e1 = Xor(p[L], Xor(p[L], e1)) /\ Xor(p[L], p[L]) = 0
        BY <2>1, XorCancels, XorZero
    <2> QED BY <1>1, <1>12, <2>2, <2>3
<1>13. ASSUME b # L PROVE g[b] = Xor(f[b], Shifted8[e1 + 1])
    <2>1. b \in 1..N /\ b - 1 \in 0..N /\ p[b] \in Byte /\ f[b - 1] \in Byte
        BY <1>2, <1>3, <1>13
    <2>2. g[b] = Shifted8[Xor(f[b - 1], Xor(p[b], e1)) + 1]
        BY <1>4, <1>8, <1>11, <2>1
    <2>3. Xor(f[b - 1], Xor(p[b], e1)) = Xor(Xor(f[b - 1], p[b]), e1)
        BY <2>1, XorAssociates
    <2>4. Xor(f[b - 1], p[b]) \in Byte
        BY <2>1, XorType
    <2>5. f[b] = Shifted8[Xor(f[b - 1], p[b]) + 1]
        BY <1>7, <2>1
    <2> QED BY <2>2, <2>3, <2>4, <2>5, ShiftedAssumption
\* In the last byte before it.
<1>14. CASE b = N
    <2>1. b # L /\ L = b + 1 /\ L \in 1..L /\ b \in 0..N
        BY <1>2, <1>14
    <2>2. f[N] \in Byte /\ Shifted8[e1 + 1] \in Byte
        BY <1>14, <2>1, ShiftedAssumption
    <2>3. h[L] = Xor(f[N], e2)
        BY <1>4, <1>9, <2>1
    <2>4. Xor(f[N], e2) = Xor(f[N], Shifted8[e1 + 1])
        BY <1>10, <1>13, <1>14, <2>1, <2>3
    <2>5. e2 = Xor(f[N], Xor(f[N], e2))
          /\ Shifted8[e1 + 1] = Xor(f[N], Xor(f[N], Shifted8[e1 + 1]))
        BY <2>2, XorCancels
    <2> QED BY <1>1, <2>4, <2>5
\* Further to the front: the byte behind the burst leaves the CRCs different, and
\* what follows is the same.
<1>15. CASE b < N
    <2>1. /\ b # L /\ b \in 0..N /\ b + 1 \in 1..N /\ b + 1 \in 0..N /\ b + 1 \in 1..L
          /\ (b + 1) - 1 = b /\ L \in 1..L /\ L # b /\ L # b + 1
        BY <1>2, <1>15
    <2>2. f[b] \in Byte /\ Shifted8[e1 + 1] \in Byte /\ p[b + 1] \in Byte
        BY <1>3, <2>1, ShiftedAssumption
    <2> DEFINE s == Shifted8[e1 + 1]
               q == p[b + 1]
    <2>3. f[b + 1] = Shifted8[Xor(f[b], q) + 1]
        BY <1>7, <2>1
    <2>4. g[b + 1] = Shifted8[Xor(Xor(f[b], s), Xor(q, e2)) + 1]
        BY <1>4, <1>8, <1>13, <2>1
    <2>5. Xor(Xor(f[b], s), Xor(q, e2)) = Xor(Xor(f[b], q), Xor(s, e2))
        BY <2>2, XorRegroups
    <2> HIDE DEF s, q
    <2>6. Xor(f[b], q) \in Byte /\ Xor(s, e2) \in Byte
        BY <2>2, XorType DEF s, q
    <2>7. f[b + 1] # g[b + 1]
        <3>1. SUFFICES ASSUME f[b + 1] = g[b + 1] PROVE FALSE
            OBVIOUS
        <3>2. Xor(Xor(f[b], q), Xor(s, e2)) \in Byte
            BY <2>6, XorType
        <3>3. Xor(f[b], q) = Xor(Xor(f[b], q), Xor(s, e2))
            <4> DEFINE x == Xor(f[b], q)
                       y == Xor(Xor(f[b], q), Xor(s, e2))
            <4>1. x \in Byte /\ y \in Byte
                BY <2>6, <3>2
            <4>2. Shifted8[x + 1] = Shifted8[y + 1]
                BY <2>3, <2>4, <2>5, <3>1
            <4> HIDE DEF x, y
            <4>3. x = y
                BY <4>1, <4>2, ShiftedAssumption
            <4> QED BY <4>3 DEF x, y
        <3>4. Xor(s, e2) = 0
            BY <2>6, <3>3, XorCancels, XorZero
        <3>5. s = Xor(Xor(s, e2), e2) /\ Xor(0, e2) = e2
            BY <2>2, XorCancels, XorZero DEF s
        <3> QED BY <1>1, <3>4, <3>5 DEF s
    <2>8. f[N] # g[N]
        <3> DEFINE d == [i \in b + 2..N |-> p[i]]
        <3>1. d \in [(b + 1) + 1..N -> Byte]
            BY <1>2, <1>3
        <3>2. ASSUME NEW i \in (b + 1) + 1..N
              PROVE  /\ f[i] = Shifted8[Xor(f[i - 1], d[i]) + 1]
                     /\ g[i] = Shifted8[Xor(g[i - 1], d[i]) + 1]
            <4>1. i \in 1..N /\ i \in 1..L /\ i # b /\ i # b + 1 /\ i \in b + 2..N
                BY <1>2
            <4>2. h[i] = p[i] /\ d[i] = p[i]
                BY <1>4, <4>1
            <4> QED BY <1>7, <1>8, <4>1, <4>2
        <3> HIDE DEF d
        <3> QED BY <1>2, <2>1, <2>7, <3>1, <3>2, StayApart
    <2>9. h[L] = p[L]
        BY <1>4, <2>1
    <2> QED BY <1>9, <1>10, <2>8, <2>9
<1>16. b = L \/ b = N \/ b < N
    BY <1>2
<1> QED BY <1>12, <1>14, <1>15, <1>16

-----------------------------------------------------------------------------
(* Words and blocks of AES.                                                *)

Word == [1..4 -> Byte]

LEMMA Tuples ==
    ASSUME NEW S, NEW a \in S, NEW b \in S, NEW c \in S, NEW d \in S
    PROVE  /\ <<a, b, c, d>> \in [1..4 -> S]
           /\ <<a, b, c, d>>[1] = a /\ <<a, b, c, d>>[2] = b
           /\ <<a, b, c, d>>[3] = c /\ <<a, b, c, d>>[4] = d
OBVIOUS

LEMMA FourAre ==
    ASSUME NEW S, NEW t \in [1..4 -> S]
    PROVE  t[1] \in S /\ t[2] \in S /\ t[3] \in S /\ t[4] \in S /\ t = <<t[1], t[2], t[3], t[4]>>
OBVIOUS

LEMMA BlocksAre == AES_Block_t = [1..4 -> Word]
BY DEF AES_Block_t, Word

LEMMA WordAdd ==
    ASSUME NEW a \in Word, NEW b \in Word
    PROVE  /\ GF_WordAdd(a, b) \in Word
           /\ \A r \in 1..4 : GF_WordAdd(a, b)[r] = Xor(a[r], b[r])
           /\ GF_WordAdd(a, b) = GF_WordAdd(b, a)
           /\ GF_WordAdd(GF_WordAdd(a, b), b) = a
<1>1. \A r \in 1..4 : /\ a[r] \in Byte /\ b[r] \in Byte /\ Xor(a[r], b[r]) \in Byte
                      /\ Xor(a[r], b[r]) = Xor(b[r], a[r])
                      /\ Xor(Xor(a[r], b[r]), b[r]) = a[r]
    BY XorType, XorCommutes, XorCancels DEF Word
<1>2. GF_WordAdd(a, b) = <<Xor(a[1], b[1]), Xor(a[2], b[2]), Xor(a[3], b[3]), Xor(a[4], b[4])>>
    BY DEF GF_WordAdd, Each
<1>3. GF_WordAdd(a, b) \in Word /\ \A r \in 1..4 : GF_WordAdd(a, b)[r] = Xor(a[r], b[r])
    BY <1>1, <1>2 DEF Word
<1>4. GF_WordAdd(a, b) = GF_WordAdd(b, a)
    BY <1>1 DEF GF_WordAdd, Each
<1>5. GF_WordAdd(GF_WordAdd(a, b), b) = <<a[1], a[2], a[3], a[4]>>
    BY <1>1, <1>3 DEF GF_WordAdd, Each
<1>6. a = <<a[1], a[2], a[3], a[4]>>
    BY FourAre DEF Word
<1> QED BY <1>3, <1>4, <1>5, <1>6

LEMMA KeyAdded ==
    ASSUME NEW s \in AES_Block_t, NEW k \in AES_Block_t
    PROVE  /\ AES_AddRoundKey(s, k) \in AES_Block_t
           /\ AES_AddRoundKey(AES_AddRoundKey(s, k), k) = s
<1>1. s \in [1..4 -> Word] /\ k \in [1..4 -> Word]
    BY BlocksAre
<1>2. \A c \in 1..4 : /\ s[c] \in Word /\ GF_WordAdd(s[c], k[c]) \in Word
                      /\ GF_WordAdd(GF_WordAdd(s[c], k[c]), k[c]) = s[c]
    BY <1>1, WordAdd
<1>3. AES_AddRoundKey(s, k) = <<GF_WordAdd(s[1], k[1]), GF_WordAdd(s[2], k[2]),
                                GF_WordAdd(s[3], k[3]), GF_WordAdd(s[4], k[4])>>
    BY DEF AES_AddRoundKey, Each
<1>4. /\ AES_AddRoundKey(s, k) \in [1..4 -> Word]
      /\ \A c \in 1..4 : AES_AddRoundKey(s, k)[c] = GF_WordAdd(s[c], k[c])
    BY <1>2, <1>3
<1>5. AES_AddRoundKey(AES_AddRoundKey(s, k), k) = <<s[1], s[2], s[3], s[4]>>
    BY <1>2, <1>4 DEF AES_AddRoundKey, Each
<1> QED BY <1>1, <1>4, <1>5, BlocksAre, FourAre

\* The two S-boxes take each other back, and the first is that of FIPS-197.
LEMMA Substituted ==
    ASSUME NEW w \in Word
    PROVE  /\ AES_SubWord(w, sbox_encrypt) \in Word
           /\ \A r \in 1..4 : AES_SubWord(w, sbox_encrypt)[r] = SubByte[w[r] + 1]
           /\ AES_SubWord(AES_SubWord(w, sbox_encrypt), sbox_decrypt) = w
<1>1. \A r \in 1..4 : /\ w[r] \in Byte /\ sbox_encrypt[w[r] + 1] \in Byte
                      /\ sbox_encrypt[w[r] + 1] = SubByte[w[r] + 1]
                      /\ sbox_decrypt[sbox_encrypt[w[r] + 1] + 1] = w[r]
    BY SboxAssumption DEF Word
<1>2. AES_SubWord(w, sbox_encrypt)
        = <<sbox_encrypt[w[1] + 1], sbox_encrypt[w[2] + 1],
            sbox_encrypt[w[3] + 1], sbox_encrypt[w[4] + 1]>>
    BY DEF AES_SubWord, Each
<1>3. /\ AES_SubWord(w, sbox_encrypt) \in Word
      /\ \A r \in 1..4 : AES_SubWord(w, sbox_encrypt)[r] = sbox_encrypt[w[r] + 1]
    BY <1>1, <1>2 DEF Word
<1>4. AES_SubWord(AES_SubWord(w, sbox_encrypt), sbox_decrypt) = <<w[1], w[2], w[3], w[4]>>
    BY <1>1, <1>3 DEF AES_SubWord, Each
<1> QED BY <1>1, <1>3, <1>4, FourAre DEF Word

LEMMA BytesSubstituted ==
    ASSUME NEW s \in AES_Block_t
    PROVE  /\ AES_SubBytes(s, sbox_encrypt) \in AES_Block_t
           /\ \A c, r \in 1..4 : AES_SubBytes(s, sbox_encrypt)[c][r] = SubByte[s[c][r] + 1]
           /\ AES_SubBytes(AES_SubBytes(s, sbox_encrypt), sbox_decrypt) = s
<1>1. \A c \in 1..4 : /\ s[c] \in Word /\ AES_SubWord(s[c], sbox_encrypt) \in Word
                      /\ \A r \in 1..4 : AES_SubWord(s[c], sbox_encrypt)[r] = SubByte[s[c][r] + 1]
                      /\ AES_SubWord(AES_SubWord(s[c], sbox_encrypt), sbox_decrypt) = s[c]
    BY Substituted, BlocksAre
<1>2. AES_SubBytes(s, sbox_encrypt)
        = <<AES_SubWord(s[1], sbox_encrypt), AES_SubWord(s[2], sbox_encrypt),
            AES_SubWord(s[3], sbox_encrypt), AES_SubWord(s[4], sbox_encrypt)>>
    BY DEF AES_SubBytes, Each
<1>3. /\ AES_SubBytes(s, sbox_encrypt) \in [1..4 -> Word]
      /\ \A c \in 1..4 : AES_SubBytes(s, sbox_encrypt)[c] = AES_SubWord(s[c], sbox_encrypt)
    BY <1>1, <1>2
<1>4. AES_SubBytes(AES_SubBytes(s, sbox_encrypt), sbox_decrypt) = <<s[1], s[2], s[3], s[4]>>
    BY <1>1, <1>3 DEF AES_SubBytes, Each
<1> QED BY <1>1, <1>3, <1>4, BlocksAre, FourAre

LEMMA RowsShifted ==
    ASSUME NEW s \in AES_Block_t
    PROVE  /\ AES_ShiftRows(s) \in AES_Block_t
           /\ AES_InvShiftRows(AES_ShiftRows(s)) = s
<1>1. \A c, r \in 1..4 : s[c][r] \in Byte
    BY DEF AES_Block_t
<1>2. \A c \in 1..4 : s[c] \in [1..4 -> Byte] /\ s[c] = <<s[c][1], s[c][2], s[c][3], s[c][4]>>
    <2>1. \A c \in 1..4 : s[c] \in [1..4 -> Byte]
        BY DEF AES_Block_t
    <2> QED BY <2>1, FourAre
<1>3. /\ <<s[1][1], s[2][2], s[3][3], s[4][4]>> \in Word
      /\ <<s[2][1], s[3][2], s[4][3], s[1][4]>> \in Word
      /\ <<s[3][1], s[4][2], s[1][3], s[2][4]>> \in Word
      /\ <<s[4][1], s[1][2], s[2][3], s[3][4]>> \in Word
    BY <1>1 DEF Word
<1>4. AES_ShiftRows(s) \in AES_Block_t
    BY <1>3, BlocksAre DEF AES_ShiftRows
<1>5. AES_InvShiftRows(AES_ShiftRows(s))
        = <<<<s[1][1], s[1][2], s[1][3], s[1][4]>>, <<s[2][1], s[2][2], s[2][3], s[2][4]>>,
            <<s[3][1], s[3][2], s[3][3], s[3][4]>>, <<s[4][1], s[4][2], s[4][3], s[4][4]>>>>
    BY DEF AES_InvShiftRows, AES_ShiftRows
<1>6. AES_InvShiftRows(AES_ShiftRows(s)) = <<s[1], s[2], s[3], s[4]>>
    BY <1>2, <1>5
<1> QED BY <1>4, <1>6, BlocksAre, FourAre

\* Shifting the rows and substituting the bytes, as FIPS-197 counts them.
LEMMA ShiftAndSubIs ==
    ASSUME NEW s \in AES_Block_t
    PROVE  ShiftAndSub(s) = AES_ShiftRows(AES_SubBytes(s, sbox_encrypt))
<1>1. \A c, r \in 1..4 : AES_SubBytes(s, sbox_encrypt)[c][r] = SubByte[s[c][r] + 1]
    BY BytesSubstituted
<1> DEFINE Sub(c, r) == SubByte[s[c][r] + 1]
<1>2. AES_ShiftRows(AES_SubBytes(s, sbox_encrypt))
        = <<<<Sub(1, 1), Sub(2, 2), Sub(3, 3), Sub(4, 4)>>,
            <<Sub(2, 1), Sub(3, 2), Sub(4, 3), Sub(1, 4)>>,
            <<Sub(3, 1), Sub(4, 2), Sub(1, 3), Sub(2, 4)>>,
            <<Sub(4, 1), Sub(1, 2), Sub(2, 3), Sub(3, 4)>>>>
    BY <1>1 DEF AES_ShiftRows
<1>3. ShiftAndSub(s)
        = <<<<Sub(1, 1), Sub(2, 2), Sub(3, 3), Sub(4, 4)>>,
            <<Sub(2, 1), Sub(3, 2), Sub(4, 3), Sub(1, 4)>>,
            <<Sub(3, 1), Sub(4, 2), Sub(1, 3), Sub(2, 4)>>,
            <<Sub(4, 1), Sub(1, 2), Sub(2, 3), Sub(3, 4)>>>>
    BY DEF ShiftAndSub, Each
<1> QED BY <1>2, <1>3

\* A column: mixing as FIPS-197 has it, and that the second matrix takes back what
\* the first has done.
LEMMA MixedColumn ==
    ASSUME NEW w \in Word
    PROVE  /\ Times(MixMatrix, w) \in Word
           /\ Times(MixMatrix, w) = MixColumn(w)
<1>1. \A r \in 1..4 : w[r] \in Byte
    BY DEF Word
<1>2. ASSUME NEW b \in Byte
      PROVE  /\ MultBy[1][b + 1] = b
             /\ MultBy[2][b + 1] = Product2[b + 1] /\ Product2[b + 1] \in Byte
             /\ MultBy[3][b + 1] = Product3[b + 1] /\ Product3[b + 1] \in Byte
    BY MultAssumption
<1> DEFINE P2(r) == Product2[w[r] + 1]
           P3(r) == Product3[w[r] + 1]
<1>3. \A r \in 1..4 : P2(r) \in Byte /\ P3(r) \in Byte
    BY <1>1, <1>2
<1>4. Times(MixMatrix, w)
        = <<Xor(Xor(P2(1), P3(2)), Xor(w[3], w[4])), Xor(Xor(w[1], P2(2)), Xor(P3(3), w[4])),
            Xor(Xor(w[1], w[2]), Xor(P2(3), P3(4))), Xor(Xor(P3(1), w[2]), Xor(w[3], P2(4)))>>
    BY <1>1, <1>2 DEF Times, MixMatrix, Each
<1>5. MixColumn(w)
        = <<Xor(Xor(P2(1), P3(2)), Xor(w[3], w[4])), Xor(Xor(P2(2), P3(3)), Xor(w[4], w[1])),
            Xor(Xor(P2(3), P3(4)), Xor(w[1], w[2])), Xor(Xor(P2(4), P3(1)), Xor(w[2], w[3]))>>
    BY DEF MixColumn, Each
<1> HIDE DEF P2, P3
<1>6. Xor(Xor(w[1], P2(2)), Xor(P3(3), w[4])) = Xor(Xor(P2(2), P3(3)), Xor(w[4], w[1]))
    <2>1. Xor(w[1], P2(2)) = Xor(P2(2), w[1]) /\ Xor(w[1], w[4]) = Xor(w[4], w[1])
        BY <1>1, <1>3, XorCommutes
    <2>2. Xor(Xor(P2(2), w[1]), Xor(P3(3), w[4])) = Xor(Xor(P2(2), P3(3)), Xor(w[1], w[4]))
        BY <1>1, <1>3, XorRegroups
    <2> QED BY <2>1, <2>2
<1>7. Xor(Xor(w[1], w[2]), Xor(P2(3), P3(4))) = Xor(Xor(P2(3), P3(4)), Xor(w[1], w[2]))
    <2>1. Xor(w[1], w[2]) \in Byte /\ Xor(P2(3), P3(4)) \in Byte
        BY <1>1, <1>3, XorType
    <2> QED BY <2>1, XorCommutes
<1>8. Xor(Xor(P3(1), w[2]), Xor(w[3], P2(4))) = Xor(Xor(P2(4), P3(1)), Xor(w[2], w[3]))
    <2>1. Xor(w[3], P2(4)) = Xor(P2(4), w[3]) /\ Xor(P3(1), P2(4)) = Xor(P2(4), P3(1))
        BY <1>1, <1>3, XorCommutes
    <2>2. Xor(Xor(P3(1), w[2]), Xor(P2(4), w[3])) = Xor(Xor(P3(1), P2(4)), Xor(w[2], w[3]))
        BY <1>1, <1>3, XorRegroups
    <2> QED BY <2>1, <2>2
<1>9. /\ w[1] \in Byte /\ w[2] \in Byte /\ w[3] \in Byte /\ w[4] \in Byte
      /\ P2(1) \in Byte /\ P2(2) \in Byte /\ P2(3) \in Byte /\ P2(4) \in Byte
      /\ P3(1) \in Byte /\ P3(2) \in Byte /\ P3(3) \in Byte /\ P3(4) \in Byte
    BY <1>1, <1>3
<1>10. MixColumn(w) \in Word
    <2>1. /\ Xor(Xor(P2(1), P3(2)), Xor(w[3], w[4])) \in Byte
          /\ Xor(Xor(P2(2), P3(3)), Xor(w[4], w[1])) \in Byte
          /\ Xor(Xor(P2(3), P3(4)), Xor(w[1], w[2])) \in Byte
          /\ Xor(Xor(P2(4), P3(1)), Xor(w[2], w[3])) \in Byte
        BY <1>9, XorType
    <2> QED BY <1>5, <2>1 DEF Word
<1> QED BY <1>4, <1>5, <1>6, <1>7, <1>8, <1>10

SumOf(w) == Xor(Xor(w[1], w[2]), Xor(w[3], w[4]))

LEMMA SumsAdd ==
    ASSUME NEW a \in Word, NEW b \in Word
    PROVE  Xor(SumOf(a), SumOf(b)) = SumOf(GF_WordAdd(a, b))
<1>1. /\ a[1] \in Byte /\ a[2] \in Byte /\ a[3] \in Byte /\ a[4] \in Byte
      /\ b[1] \in Byte /\ b[2] \in Byte /\ b[3] \in Byte /\ b[4] \in Byte
    BY DEF Word
<1>2. /\ Xor(a[1], a[2]) \in Byte /\ Xor(a[3], a[4]) \in Byte
      /\ Xor(b[1], b[2]) \in Byte /\ Xor(b[3], b[4]) \in Byte
    BY <1>1, XorType
<1>3. Xor(SumOf(a), SumOf(b))
        = Xor(Xor(Xor(a[1], a[2]), Xor(b[1], b[2])), Xor(Xor(a[3], a[4]), Xor(b[3], b[4])))
    BY <1>2, XorRegroups DEF SumOf
<1>4. /\ Xor(Xor(a[1], a[2]), Xor(b[1], b[2])) = Xor(Xor(a[1], b[1]), Xor(a[2], b[2]))
      /\ Xor(Xor(a[3], a[4]), Xor(b[3], b[4])) = Xor(Xor(a[3], b[3]), Xor(a[4], b[4]))
    BY <1>1, XorRegroups
<1>5. \A r \in 1..4 : GF_WordAdd(a, b)[r] = Xor(a[r], b[r])
    BY WordAdd
<1>6. SumOf(GF_WordAdd(a, b))
        = Xor(Xor(Xor(a[1], b[1]), Xor(a[2], b[2])), Xor(Xor(a[3], b[3]), Xor(a[4], b[4])))
    BY <1>5 DEF SumOf
<1> QED BY <1>3, <1>4, <1>6

\* A product by m of each byte.
Scaled(m, w) == [j \in 1..4 |-> MultBy[m][w[j] + 1]]

LEMMA ProductOfSum ==
    ASSUME NEW m \in {9, 11, 13, 14}, NEW w \in Word
    PROVE  Scaled(m, w) \in Word /\ MultBy[m][SumOf(w) + 1] = SumOf(Scaled(m, w))
<1>1. w[1] \in Byte /\ w[2] \in Byte /\ w[3] \in Byte /\ w[4] \in Byte
    BY DEF Word
<1>2. Xor(w[1], w[2]) \in Byte /\ Xor(w[3], w[4]) \in Byte
    BY <1>1, XorType
<1>3. MultBy[m][SumOf(w) + 1]
        = Xor(MultBy[m][Xor(w[1], w[2]) + 1], MultBy[m][Xor(w[3], w[4]) + 1])
    BY <1>2, LinearAssumption DEF SumOf
<1>4. MultBy[m][Xor(w[1], w[2]) + 1] = Xor(MultBy[m][w[1] + 1], MultBy[m][w[2] + 1])
    BY <1>1, LinearAssumption
<1>5. MultBy[m][Xor(w[3], w[4]) + 1] = Xor(MultBy[m][w[3] + 1], MultBy[m][w[4] + 1])
    BY <1>1, LinearAssumption
<1>6. SumOf(Scaled(m, w))
        = Xor(Xor(MultBy[m][w[1] + 1], MultBy[m][w[2] + 1]), Xor(MultBy[m][w[3] + 1], MultBy[m][w[4] + 1]))
    BY DEF SumOf, Scaled
<1>7. Scaled(m, w) \in Word
    BY MultAssumption DEF Scaled, Word
<1> QED BY <1>3, <1>4, <1>5, <1>6, <1>7

LEMMA TimesIs ==
    ASSUME NEW matrix, NEW w, NEW r \in 1..4
    PROVE  Times(matrix, w)[r]
                = Xor(Xor(MultBy[matrix[r][1]][w[1] + 1], MultBy[matrix[r][2]][w[2] + 1]),
                      Xor(MultBy[matrix[r][3]][w[3] + 1], MultBy[matrix[r][4]][w[4] + 1]))
BY DEF Times, Each

LEMMA UnmixedColumn ==
    ASSUME NEW w \in Word
    PROVE  Times(InvMixMatrix, Times(MixMatrix, w)) = w
<1> DEFINE u == Times(MixMatrix, w)
           M(i) == [j \in 1..4 |-> MultBy[MixMatrix[i][j]][w[j] + 1]]
<1>1. \A j \in 1..4 : w[j] \in Byte
    BY DEF Word
<1>2. \A i, j \in 1..4 : MixMatrix[i][j] \in {1, 2, 3} /\ InvMixMatrix[i][j] \in {9, 11, 13, 14}
    BY DEF MixMatrix, InvMixMatrix
<1>3. \A i \in 1..4 : M(i) \in Word
    BY <1>1, <1>2, MultAssumption DEF Word
<1>4. \A i \in 1..4 : u[i] = SumOf(M(i))
    BY TimesIs DEF SumOf
<1>5. ASSUME NEW r \in 1..4 PROVE Times(InvMixMatrix, u)[r] = w[r]
    <2> DEFINE m(i) == InvMixMatrix[r][i]
               T(i) == Scaled(m(i), M(i))
    <2>1. ASSUME NEW i \in 1..4
          PROVE  T(i) \in Word /\ MultBy[m(i)][u[i] + 1] = SumOf(T(i))
        <3>1. m(i) \in {9, 11, 13, 14} /\ M(i) \in Word /\ u[i] = SumOf(M(i))
            BY <1>2, <1>3, <1>4
        <3> HIDE DEF m, M, u
        <3> QED BY <3>1, ProductOfSum
    <2>2. ASSUME NEW j \in 1..4
          PROVE  Xor(Xor(T(1)[j], T(2)[j]), Xor(T(3)[j], T(4)[j])) = Entry(r, j, w[j])
        BY DEF Entry, Scaled
    <2>3. ASSUME NEW j \in 1..4
          PROVE  Xor(Xor(T(1)[j], T(2)[j]), Xor(T(3)[j], T(4)[j])) = IF r = j THEN w[j] ELSE 0
        <3>1. w[j] \in Byte
            BY <1>1
        <3> HIDE DEF T
        <3> QED BY <2>2, <3>1, MatrixAssumption
    <2>4. Times(InvMixMatrix, u)[r] = Xor(Xor(SumOf(T(1)), SumOf(T(2))), Xor(SumOf(T(3)), SumOf(T(4))))
        <3> HIDE DEF u, T
        <3> QED BY <2>1, TimesIs DEF m
    <2> HIDE DEF T, u
    <2> DEFINE upper == GF_WordAdd(T(1), T(2))
               lower == GF_WordAdd(T(3), T(4))
               C == GF_WordAdd(upper, lower)
    <2>5. T(1) \in Word /\ T(2) \in Word /\ T(3) \in Word /\ T(4) \in Word
        BY <2>1
    <2>6. upper \in Word /\ lower \in Word
        BY <2>5, WordAdd
    <2>7. \A j \in 1..4 : C[j] = Xor(Xor(T(1)[j], T(2)[j]), Xor(T(3)[j], T(4)[j]))
        BY <2>5, <2>6, WordAdd
    <2>8. Times(InvMixMatrix, u)[r] = SumOf(C)
        <3>1. Xor(SumOf(T(1)), SumOf(T(2))) = SumOf(upper) /\ Xor(SumOf(T(3)), SumOf(T(4))) = SumOf(lower)
            BY <2>5, SumsAdd
        <3> HIDE DEF upper, lower
        <3> QED BY <2>4, <2>6, <3>1, SumsAdd
    <2> HIDE DEF C
    <2>9. \A j \in 1..4 : C[j] = IF r = j THEN w[j] ELSE 0
        BY <2>3, <2>7
    <2>10. 0 \in Byte /\ Xor(0, 0) = 0 /\ Xor(w[r], 0) = w[r] /\ Xor(0, w[r]) = w[r]
        <3>1. 0 \in Byte
            BY DEF Byte
        <3> QED BY <1>1, <3>1, XorZero
    <2>11. SumOf(C) = w[r]
        <3>1. r = 1 \/ r = 2 \/ r = 3 \/ r = 4
            OBVIOUS
        <3> QED BY <2>9, <2>10, <3>1 DEF SumOf
    <2> QED BY <2>8, <2>11
<1> HIDE DEF u
<1> DEFINE v == Times(InvMixMatrix, u)
<1>6. v = <<v[1], v[2], v[3], v[4]>>
    BY DEF Times, Each
<1>7. \A r \in 1..4 : v[r] = w[r]
    BY <1>5
<1> HIDE DEF v
<1>8. v = <<w[1], w[2], w[3], w[4]>>
    BY <1>6, <1>7
<1>9. w = <<w[1], w[2], w[3], w[4]>>
    BY FourAre DEF Word
<1> QED BY <1>8, <1>9 DEF u, v

LEMMA ColumnsMixed ==
    ASSUME NEW s \in AES_Block_t
    PROVE  /\ AES_MixColumns(s) \in AES_Block_t
           /\ AES_MixColumns(s) = MixEach(s)
           /\ AES_InvMixColumns(AES_MixColumns(s)) = s
<1>1. \A c \in 1..4 : /\ s[c] \in Word /\ Times(MixMatrix, s[c]) \in Word
                      /\ Times(MixMatrix, s[c]) = MixColumn(s[c])
                      /\ Times(InvMixMatrix, Times(MixMatrix, s[c])) = s[c]
    BY MixedColumn, UnmixedColumn, BlocksAre
<1>2. AES_MixColumns(s) = <<Times(MixMatrix, s[1]), Times(MixMatrix, s[2]),
                            Times(MixMatrix, s[3]), Times(MixMatrix, s[4])>>
    BY DEF AES_MixColumns, Each
<1>3. MixEach(s) = <<MixColumn(s[1]), MixColumn(s[2]), MixColumn(s[3]), MixColumn(s[4])>>
    BY DEF MixEach, Each
<1>4. /\ AES_MixColumns(s) \in [1..4 -> Word]
      /\ \A c \in 1..4 : AES_MixColumns(s)[c] = Times(MixMatrix, s[c])
    BY <1>1, <1>2
<1>5. AES_InvMixColumns(AES_MixColumns(s)) = <<s[1], s[2], s[3], s[4]>>
    BY <1>1, <1>4 DEF AES_InvMixColumns, Each
<1>6. AES_MixColumns(s) = MixEach(s)
    BY <1>1, <1>2, <1>3
<1> QED BY <1>1, <1>4, <1>5, <1>6, BlocksAre, FourAre

-----------------------------------------------------------------------------
(* The rounds.                                                             *)

Keys == [1..NUM_ROUND_KEYS_128 -> AES_Block_t]

\* A round keeps the type, is the round of FIPS-197, and the round of
\* AES_DecryptBlock that has the same key takes it back.
LEMMA Rounds ==
    ASSUME NEW keys \in Keys, NEW i \in 1..10, NEW t \in AES_Block_t
    PROVE  /\ EncryptRound(i, keys)[t] \in AES_Block_t
           /\ EncryptRound(i, keys)[t] = CipherRound(i, keys)[t]
           /\ DecryptRound(11 - i, keys)[EncryptRound(i, keys)[t]] = t
<1> DEFINE sub == AES_SubBytes(t, sbox_encrypt)
           rows == AES_ShiftRows(sub)
           mixed == Mixed(rows, i)
           e == AES_AddRoundKey(mixed, keys[i + 1])
<1>1. sub \in AES_Block_t /\ AES_SubBytes(sub, sbox_decrypt) = t
    BY BytesSubstituted
<1>2. rows \in AES_Block_t /\ AES_InvShiftRows(rows) = sub /\ ShiftAndSub(t) = rows
    BY <1>1, RowsShifted, ShiftAndSubIs
<1>3. /\ mixed \in AES_Block_t
      /\ mixed = (IF i < 10 THEN MixEach(rows) ELSE rows)
      /\ UnmixedColumns(mixed, 11 - i) = rows
    <2> HIDE DEF rows
    <2>1. CASE i < 10
        <3>1. mixed = AES_MixColumns(rows) /\ UnmixedColumns(mixed, 11 - i) = AES_InvMixColumns(mixed)
            BY <2>1 DEF Mixed, UnmixedColumns, NUM_ROUND_KEYS_128
        <3> QED BY <1>2, <2>1, <3>1, ColumnsMixed
    <2>2. CASE i = 10
        <3>1. mixed = rows /\ UnmixedColumns(mixed, 11 - i) = mixed
            BY <2>2 DEF Mixed, UnmixedColumns, NUM_ROUND_KEYS_128
        <3> QED BY <1>2, <2>2, <3>1
    <2>3. i < 10 \/ i = 10
        OBVIOUS
    <2> QED BY <2>1, <2>2, <2>3
<1>4. keys[i + 1] \in AES_Block_t
    BY DEF Keys, NUM_ROUND_KEYS_128
<1>5. e \in AES_Block_t /\ AES_AddRoundKey(e, keys[i + 1]) = mixed
    <2> HIDE DEF mixed
    <2> QED BY <1>3, <1>4, KeyAdded
<1>6. EncryptRound(i, keys)[t] = e
    BY DEF EncryptRound
<1>7. CipherRound(i, keys)[t] = e
    <2>1. CipherRound(i, keys)[t]
            = AES_AddRoundKey(IF i < 10 THEN MixEach(ShiftAndSub(t)) ELSE ShiftAndSub(t), keys[i + 1])
        BY DEF CipherRound
    <2> HIDE DEF rows, mixed
    <2> QED BY <1>2, <1>3, <2>1
<1>8. NUM_ROUND_KEYS_128 + 1 - (11 - i) = i + 1
    BY DEF NUM_ROUND_KEYS_128
<1>9. DecryptRound(11 - i, keys)[e]
        = AES_SubBytes(AES_InvShiftRows(UnmixedColumns(AES_AddRoundKey(e, keys[i + 1]), 11 - i)), sbox_decrypt)
    <2> HIDE DEF e
    <2> QED BY <1>5, <1>8 DEF DecryptRound
<1> HIDE DEF sub, rows, mixed, e
<1> QED BY <1>1, <1>2, <1>3, <1>5, <1>6, <1>7, <1>9

LEMMA EncryptLoop ==
    ASSUME NEW keys \in Keys, NEW s \in AES_Block_t
    PROVE  \E f \in [0..10 -> AES_Block_t] :
              /\ f[0] = AES_AddRoundKey(s, keys[1])
              /\ \A i \in 1..10 : f[i] = EncryptRound(i, keys)[f[i - 1]]
              /\ AES_EncryptBlock(s, keys) = f[10]
<1> DEFINE x == AES_AddRoundKey(s, keys[1])
           N == NUM_ROUND_KEYS_128 - 1
           G == [i \in 1..N |-> EncryptRound(i, keys)]
           Is(f) == f = [i \in 0..N |-> IF i = 0 THEN x ELSE EncryptRound(i, keys)[f[i - 1]]]
           after == CHOOSE f : Is(f)
<1>1. N = 10 /\ N \in Nat
    BY DEF NUM_ROUND_KEYS_128
<1>2. x \in AES_Block_t
    BY KeyAdded DEF Keys, NUM_ROUND_KEYS_128
<1>3. G \in [1..N -> [AES_Block_t -> AES_Block_t]]
    <2> HIDE DEF N
    <2>1. ASSUME NEW i \in 1..10 PROVE EncryptRound(i, keys) \in [AES_Block_t -> AES_Block_t]
        <3>1. \A t \in AES_Block_t : EncryptRound(i, keys)[t] \in AES_Block_t
            BY Rounds
        <3> QED BY <3>1 DEF EncryptRound
    <2> QED BY <1>1, <2>1
<1> HIDE DEF N
<1>4. PICK f \in [0..N -> AES_Block_t] : IsLoop(f, N, x, G)
    <2> HIDE DEF G, x
    <2> QED BY <1>1, <1>2, <1>3, LoopExists
<1>5. f[0] = x /\ \A i \in 1..N : f[i] = EncryptRound(i, keys)[f[i - 1]]
    <2> HIDE DEF x
    <2> QED BY <1>4 DEF IsLoop
<1> HIDE DEF x, G
<1>6. Is(f)
    BY <1>1, <1>5
<1>7. Is(after)
    <2> HIDE DEF Is
    <2> QED BY <1>6
<1>8. after[0] = x /\ \A i \in 1..N : after[i] = EncryptRound(i, keys)[after[i - 1]]
    <2> HIDE DEF after
    <2> QED BY <1>1, <1>7
<1> HIDE DEF after
<1>9. AgreeOn(f, after, N)
    BY <1>5, <1>8 DEF AgreeOn
<1>10. \A i \in 0..N : f[i] = after[i]
    <2>1. N \in Nat
        BY <1>1
    <2> QED BY <1>9, <2>1, LoopsAgree, Zenon
<1>11. f[10] = after[10]
    BY <1>1, <1>10
<1>12. AES_EncryptBlock(s, keys) = after[N]
    BY DEF AES_EncryptBlock, after, x, N
<1> QED BY <1>1, <1>5, <1>11, <1>12 DEF x

\* For every key schedule and every block AES_EncryptBlock (aes.c:259-278) computes
\* the cipher of FIPS-197, which openssl signs an image with (main.py:66).
THEOREM EncryptIsCipher ==
    ASSUME NEW keys \in Keys, NEW s \in AES_Block_t
    PROVE  /\ AES_EncryptBlock(s, keys) \in AES_Block_t
           /\ AES_EncryptBlock(s, keys) = Cipher(s, keys)
<1> DEFINE x == AES_AddRoundKey(s, keys[1])
           Is(f) == f = [i \in 0..10 |-> IF i = 0 THEN x ELSE CipherRound(i, keys)[f[i - 1]]]
           after == CHOOSE f : Is(f)
<1>1. PICK f \in [0..10 -> AES_Block_t] :
          /\ f[0] = x
          /\ \A i \in 1..10 : f[i] = EncryptRound(i, keys)[f[i - 1]]
          /\ AES_EncryptBlock(s, keys) = f[10]
    BY EncryptLoop
<1> HIDE DEF x
<1>2. \A i \in 1..10 : f[i] = CipherRound(i, keys)[f[i - 1]]
    <2>1. ASSUME NEW i \in 1..10 PROVE f[i] = CipherRound(i, keys)[f[i - 1]]
        <3>1. f[i - 1] \in AES_Block_t /\ f[i] = EncryptRound(i, keys)[f[i - 1]]
            BY <1>1
        <3> QED BY <3>1, Rounds
    <2> QED BY <2>1
<1>3. Is(f)
    BY <1>1, <1>2
<1>4. Is(after)
    <2> HIDE DEF Is
    <2> QED BY <1>3
<1>5. after[0] = x /\ \A i \in 1..10 : after[i] = CipherRound(i, keys)[after[i - 1]]
    <2> HIDE DEF after
    <2> QED BY <1>4
<1> HIDE DEF after
<1>6. f[10] = after[10]
    <2>1. AgreeOn(f, after, 10)
        BY <1>1, <1>2, <1>5 DEF AgreeOn
    <2>2. \A i \in 0..10 : f[i] = after[i]
        BY <2>1, LoopsAgree
    <2> QED BY <2>2
<1>7. Cipher(s, keys) = after[10]
    BY DEF Cipher, after, x
<1> QED BY <1>1, <1>6, <1>7

\* For every key schedule and every block AES_DecryptBlock (aes.c:280-298) takes back
\* what AES_EncryptBlock has done: the inverse tables, rows and columns, and the
\* order of the rounds and their keys.
THEOREM DecryptInverts ==
    ASSUME NEW keys \in Keys, NEW s \in AES_Block_t
    PROVE  AES_DecryptBlock(AES_EncryptBlock(s, keys), keys) = s
<1> DEFINE N == NUM_ROUND_KEYS_128 - 1
           e == AES_EncryptBlock(s, keys)
           Is(f) == f = [i \in 0..N |-> IF i = 0 THEN e ELSE DecryptRound(i, keys)[f[i - 1]]]
           after == CHOOSE f : Is(f)
<1>1. N = 10
    BY DEF NUM_ROUND_KEYS_128
<1>2. PICK f \in [0..10 -> AES_Block_t] :
          /\ f[0] = AES_AddRoundKey(s, keys[1])
          /\ \A i \in 1..10 : f[i] = EncryptRound(i, keys)[f[i - 1]]
          /\ e = f[10]
    BY EncryptLoop
<1> HIDE DEF e
\* The blocks of the rounds, from the last to the first.
<1> DEFINE back == [i \in 0..10 |-> f[10 - i]]
<1>3. ASSUME NEW i \in 1..10 PROVE back[i] = DecryptRound(i, keys)[back[i - 1]]
    <2> DEFINE j == 11 - i
    <2>1. j \in 1..10 /\ 11 - j = i /\ 10 - i = j - 1 /\ 10 - (i - 1) = j /\ i \in 0..10 /\ i - 1 \in 0..10
        OBVIOUS
    <2>2. back[i] = f[j - 1] /\ back[i - 1] = f[j] /\ f[j - 1] \in AES_Block_t
        BY <2>1
    <2> HIDE DEF back, j
    <2>3. f[j] = EncryptRound(j, keys)[f[j - 1]]
        BY <1>2, <2>1
    <2>4. DecryptRound(11 - j, keys)[EncryptRound(j, keys)[f[j - 1]]] = f[j - 1]
        BY <2>1, <2>2, Rounds
    <2> QED BY <2>1, <2>2, <2>3, <2>4
<1>4. back[0] = e /\ back[10] = AES_AddRoundKey(s, keys[1]) /\ DOMAIN back = 0..10
      /\ back = [i \in 0..10 |-> back[i]]
    BY <1>2
<1> HIDE DEF back
<1>5. Is(back)
    BY <1>1, <1>3, <1>4
<1>6. Is(after)
    <2> HIDE DEF Is
    <2> QED BY <1>5
<1>7. after[0] = e /\ \A i \in 1..10 : after[i] = DecryptRound(i, keys)[after[i - 1]]
    <2> HIDE DEF after
    <2> QED BY <1>1, <1>6
<1> HIDE DEF after
<1>8. back[10] = after[10]
    <2>1. AgreeOn(back, after, 10)
        BY <1>3, <1>4, <1>7 DEF AgreeOn
    <2>2. \A i \in 0..10 : back[i] = after[i]
        BY <2>1, LoopsAgree
    <2> QED BY <2>2
<1>9. AES_DecryptBlock(e, keys) = AES_AddRoundKey(after[N], keys[1])
    BY DEF AES_DecryptBlock, after
<1>10. AES_AddRoundKey(AES_AddRoundKey(s, keys[1]), keys[1]) = s
    <2>1. keys[1] \in AES_Block_t
        BY DEF Keys, NUM_ROUND_KEYS_128
    <2> QED BY <2>1, KeyAdded
<1>11. AES_DecryptBlock(e, keys) = s
    BY <1>1, <1>4, <1>8, <1>9, <1>10
<1> QED BY <1>11 DEF e


-----------------------------------------------------------------------------
(* The key schedule.                                                       *)

\* The word before a round key, transformed as FIPS-197 says.
RotatedAndSubbed(w, constant) ==
    Each(LAMBDA r : Xor(SubByte[w[(r % 4) + 1] + 1], IF r = 1 THEN constant ELSE 0))

LEMMA Column3 ==
    ASSUME NEW w \in Word, NEW constant \in Byte
    PROVE  /\ RotatedAndSubbed(w, constant) \in Word
           /\ GF_WordAdd(AES_SubWord(AES_RotWord(w), sbox_encrypt), <<constant, 0, 0, 0>>)
                = RotatedAndSubbed(w, constant)
<1> DEFINE rot == AES_RotWord(w)
           sub == AES_SubWord(rot, sbox_encrypt)
           rc == <<constant, 0, 0, 0>>
<1>1. /\ rot \in Word /\ rot[1] = w[2] /\ rot[2] = w[3] /\ rot[3] = w[4] /\ rot[4] = w[1]
    BY DEF Word, AES_RotWord
<1>2. /\ rc \in Word /\ rc[1] = constant /\ rc[2] = 0 /\ rc[3] = 0 /\ rc[4] = 0
    BY DEF Word, Byte
<1> HIDE DEF rot, rc
<1>3. sub \in Word /\ \A r \in 1..4 : sub[r] = SubByte[rot[r] + 1]
    BY <1>1, Substituted
<1> HIDE DEF sub
<1>4. /\ GF_WordAdd(sub, rc) \in Word
      /\ GF_WordAdd(sub, rc)
            = <<Xor(sub[1], rc[1]), Xor(sub[2], rc[2]), Xor(sub[3], rc[3]), Xor(sub[4], rc[4])>>
    BY <1>2, <1>3, WordAdd DEF GF_WordAdd, Each
<1>5. RotatedAndSubbed(w, constant)
        = <<Xor(SubByte[w[2] + 1], constant), Xor(SubByte[w[3] + 1], 0),
            Xor(SubByte[w[4] + 1], 0), Xor(SubByte[w[1] + 1], 0)>>
    BY DEF RotatedAndSubbed, Each
<1>6. GF_WordAdd(sub, rc) = RotatedAndSubbed(w, constant)
    BY <1>1, <1>2, <1>3, <1>4, <1>5
<1> QED BY <1>4, <1>6 DEF sub, rot, rc

LEMMA RconBytes == \A n \in 1..10 : Rcon[n] \in Byte
BY DEF Rcon, Byte

LEMMA RoundKey ==
    ASSUME NEW k \in AES_Block_t, NEW n \in 1..10
    PROVE  LET v == NextRoundKey(k, n)
           IN  /\ v \in AES_Block_t
               /\ v[1] = GF_WordAdd(k[1], RotatedAndSubbed(k[4], Rcon[n]))
               /\ v[2] = GF_WordAdd(k[2], v[1])
               /\ v[3] = GF_WordAdd(k[3], v[2])
               /\ v[4] = GF_WordAdd(k[4], v[3])
<1> DEFINE col3 == GF_WordAdd(AES_SubWord(AES_RotWord(k[4]), sbox_encrypt), <<Rcon[n], 0, 0, 0>>)
           w1 == GF_WordAdd(col3, k[1])
           w2 == GF_WordAdd(w1, k[2])
           w3 == GF_WordAdd(w2, k[3])
           w4 == GF_WordAdd(w3, k[4])
<1>1. k[1] \in Word /\ k[2] \in Word /\ k[3] \in Word /\ k[4] \in Word
    BY BlocksAre, FourAre
<1>2. col3 \in Word /\ col3 = RotatedAndSubbed(k[4], Rcon[n])
    <2>1. Rcon[n] \in Byte
        BY RconBytes
    <2> QED BY <1>1, <2>1, Column3
<1>3. NextRoundKey(k, n) = <<w1, w2, w3, w4>>
    BY DEF NextRoundKey
<1> HIDE DEF col3
<1>4. w1 \in Word /\ w1 = GF_WordAdd(k[1], col3)
    BY <1>1, <1>2, WordAdd
<1> HIDE DEF w1
<1>5. w2 \in Word /\ w2 = GF_WordAdd(k[2], w1)
    BY <1>1, <1>4, WordAdd
<1> HIDE DEF w2
<1>6. w3 \in Word /\ w3 = GF_WordAdd(k[3], w2)
    BY <1>1, <1>5, WordAdd
<1> HIDE DEF w3
<1>7. w4 \in Word /\ w4 = GF_WordAdd(k[4], w3)
    BY <1>1, <1>6, WordAdd
<1> HIDE DEF w4
<1>8. <<w1, w2, w3, w4>> \in AES_Block_t
    BY <1>4, <1>5, <1>6, <1>7, Tuples, BlocksAre
<1> QED BY <1>2, <1>3, <1>4, <1>5, <1>6, <1>7, <1>8


\* The recursion of AES_KeySchedule128 unrolled: a round key is made of the one
\* before it.
LEMMA Schedule ==
    ASSUME NEW key \in AES_Block_t
    PROVE  /\ AES_KeySchedule128(key) \in Keys
           /\ AES_KeySchedule128(key)[1] = key
           /\ \A n \in 1..10 :
                AES_KeySchedule128(key)[n + 1] = NextRoundKey(AES_KeySchedule128(key)[n], n)
<1> DEFINE N == NUM_ROUND_KEYS_128
           G == [n \in 1..10 |-> [k \in AES_Block_t |-> NextRoundKey(k, n)]]
           Longer(s, n) == Append(s, NextRoundKey(s[n - 1], n - 1))
           Is(f) == f = [n \in 1..N |-> IF n = 1 THEN <<key>> ELSE Longer(f[n - 1], n)]
           keys == CHOOSE f : Is(f)
<1>1. N = 11
    BY DEF NUM_ROUND_KEYS_128
<1>2. G \in [1..10 -> [AES_Block_t -> AES_Block_t]]
    <2>1. \A n \in 1..10 : \A k \in AES_Block_t : NextRoundKey(k, n) \in AES_Block_t
        BY RoundKey
    <2> QED BY <2>1
<1>3. PICK k \in [0..10 -> AES_Block_t] : IsLoop(k, 10, key, G)
    <2> HIDE DEF G
    <2> QED BY <1>2, LoopExists
<1>4. k[0] = key /\ \A n \in 1..10 : k[n] = NextRoundKey(k[n - 1], n)
    BY <1>3 DEF IsLoop
<1> HIDE DEF G
<1> DEFINE Upto(n) == [j \in 1..n |-> k[j - 1]]
           f == [n \in 1..N |-> Upto(n)]
<1>5. \A n \in 1..11 : Upto(n) \in Seq(AES_Block_t) /\ Len(Upto(n)) = n
                       /\ \A j \in 1..n : Upto(n)[j] = k[j - 1]
    BY SMT
<1>6. ASSUME NEW n \in 2..11 PROVE Upto(n) = Longer(Upto(n - 1), n)
    <2>1. n - 1 \in 1..10 /\ n - 1 \in 1..n - 1
        OBVIOUS
    <2>2. Upto(n - 1)[n - 1] = k[(n - 1) - 1] /\ k[n - 1] = NextRoundKey(k[(n - 1) - 1], n - 1)
        BY <1>4, <2>1
    <2>3. Upto(n) = Append(Upto(n - 1), k[n - 1])
        BY <2>1, SMT
    <2> QED BY <2>2, <2>3
<1>7. Upto(1) = <<key>>
    BY <1>4
<1> HIDE DEF Upto, Longer
<1>8. Is(f)
    <2>1. \A n \in 1..11 : f[n] = Upto(n)
        BY <1>1
    <2>2. ASSUME NEW n \in 1..11
          PROVE  f[n] = IF n = 1 THEN <<key>> ELSE Longer(f[n - 1], n)
        <3>1. CASE n = 1
            <4> HIDE DEF f
            <4> QED BY <1>7, <2>1, <3>1
        <3>2. CASE n # 1
            <4>1. n \in 2..11 /\ n - 1 \in 1..11
                BY <3>2
            <4>2. f[n] = Upto(n) /\ f[n - 1] = Upto(n - 1)
                BY <2>1, <4>1
            <4> HIDE DEF f
            <4> QED BY <1>6, <3>2, <4>1, <4>2
        <3> QED BY <3>1, <3>2
    <2>3. f = [n \in 1..N |-> f[n]]
        OBVIOUS
    <2> HIDE DEF f
    <2> QED BY <1>1, <2>2, <2>3
<1> HIDE DEF N
<1>9. Is(keys)
    <2> HIDE DEF Is
    <2> QED BY <1>8
<1>10. /\ keys[1] = <<key>>
       /\ \A n \in 2..11 : keys[n] = Longer(keys[n - 1], n)
    <2> HIDE DEF keys
    <2> QED BY <1>1, <1>9
<1> HIDE DEF keys
<1>11. keys[11] = Upto(11)
    <2> DEFINE S == {i \in 0..10 : keys[i + 1] = Upto(i + 1)}
    <2>1. 0 \in S
        <3>1. 0 + 1 = 1
            OBVIOUS
        <3> QED BY <1>7, <1>10, <3>1
    <2>2. ASSUME NEW i \in 0..10 - 1, i \in S PROVE i + 1 \in S
        <3> DEFINE n == (i + 1) + 1
        <3>1. n \in 2..11 /\ n - 1 = i + 1 /\ i + 1 \in 0..10
            OBVIOUS
        <3>2. keys[i + 1] = Upto(i + 1)
            BY <2>2
        <3> HIDE DEF n
        <3>3. keys[n] = Upto(n)
            BY <1>6, <1>10, <3>1, <3>2
        <3> QED BY <3>1, <3>3 DEF n
    <2>3. 0..10 \subseteq S
        <3> HIDE DEF S
        <3> QED BY <2>1, <2>2, BoundedInduction
    <2> QED BY <2>3
<1>12. AES_KeySchedule128(key) = keys[11]
    <2>1. AES_KeySchedule128(key) = keys[N]
        BY DEF AES_KeySchedule128, keys, N, Longer
    <2> QED BY <1>1, <2>1
<1>13. Upto(11) \in Keys
    <2>1. Upto(11) = [j \in 1..11 |-> k[j - 1]]
        BY DEF Upto
    <2>2. \A j \in 1..11 : k[j - 1] \in AES_Block_t
        OBVIOUS
    <2> QED BY <2>1, <2>2 DEF Keys, NUM_ROUND_KEYS_128
<1>14. \A j \in 1..11 : Upto(11)[j] = k[j - 1]
    <2>1. 11 \in 1..11
        OBVIOUS
    <2> QED BY <1>5, <2>1
<1>15. ASSUME NEW n \in 1..10 PROVE Upto(11)[n + 1] = NextRoundKey(Upto(11)[n], n)
    <2>1. n \in 1..11 /\ n + 1 \in 1..11 /\ (n + 1) - 1 = n
        OBVIOUS
    <2> QED BY <1>4, <1>14, <2>1
<1> QED BY <1>4, <1>11, <1>12, <1>13, <1>14, <1>15


\* A step of the key expansion of FIPS-197, at the index of a word.
LEMMA Indices ==
    ASSUME NEW i \in 4..43
    PROVE  /\ i \div 4 \in 1..10 /\ (i - 4) \div 4 = i \div 4 - 1 /\ (i - 4) % 4 = i % 4
           /\ i % 4 = 0 => (i - 1) \div 4 = i \div 4 - 1 /\ (i - 1) % 4 = 3
           /\ i % 4 # 0 => /\ (i - 1) \div 4 = i \div 4 /\ (i - 1) % 4 = (i % 4) - 1
                           /\ i % 4 \in {1, 2, 3}
OBVIOUS

\* For every key the key schedule of aes.c (101-134) is the key expansion of
\* FIPS-197, from which openssl signs (main.py:66), and every round key is a block.
THEOREM ScheduleIsKeyExpansion ==
    ASSUME NEW key \in AES_Block_t
    PROVE  AES_KeySchedule128(key) \in Keys /\ IsKeyExpansion(AES_KeySchedule128(key), key)
<1> DEFINE keys == AES_KeySchedule128(key)
           w(i) == keys[(i \div 4) + 1][(i % 4) + 1]
           RoundConstant == <<1, 2, 4, 8, 16, 32, 64, 128, Doubled[129], Doubled[28]>>
           Transformed(i) ==
               IF i % 4 # 3 THEN w(i)
               ELSE Each(LAMBDA r : Xor(SubByte[w(i)[(r % 4) + 1] + 1],
                                        IF r = 1 THEN RoundConstant[(i \div 4) + 1] ELSE 0))
<1>1. /\ keys \in Keys /\ keys[1] = key
      /\ \A n \in 1..10 : keys[n + 1] = NextRoundKey(keys[n], n)
    BY Schedule
<1> HIDE DEF keys
<1>2. \A n \in 1..10 : RoundConstant[n] = Rcon[n]
    BY RconAssumption DEF Rcon
<1> HIDE DEF RoundConstant
<1>3. ASSUME NEW i \in Int, i % 4 = 3
      PROVE  Transformed(i) = RotatedAndSubbed(w(i), RoundConstant[(i \div 4) + 1])
    BY <1>3 DEF RotatedAndSubbed
<1>4. ASSUME NEW i \in Int, i % 4 # 3 PROVE Transformed(i) = w(i)
    BY <1>4
<1> HIDE DEF Transformed
<1>5. ASSUME NEW i \in 4..43 PROVE w(i) = GF_WordAdd(w(i - 4), Transformed(i - 1))
    <2> DEFINE q == i \div 4
               c == i % 4
               k == keys[q]
               v == keys[q + 1]
    <2>1. /\ q \in 1..10 /\ (i - 4) \div 4 = q - 1 /\ (i - 4) % 4 = c
          /\ c = 0 => (i - 1) \div 4 = q - 1 /\ (i - 1) % 4 = 3
          /\ c # 0 => /\ (i - 1) \div 4 = q /\ (i - 1) % 4 = c - 1 /\ c \in {1, 2, 3}
        BY Indices
    <2>2. (q - 1) + 1 = q /\ i - 1 \in Int
        <3> HIDE DEF q
        <3> QED BY <2>1
    <2>3. w(i) = v[c + 1] /\ w(i - 4) = k[c + 1]
        <3> HIDE DEF q, c
        <3>1. w(i - 4) = keys[(q - 1) + 1][c + 1]
            BY <2>1
        <3> QED BY <2>2, <3>1 DEF q, c
    <2> HIDE DEF q, c
    <2>4. /\ v[1] = GF_WordAdd(k[1], RotatedAndSubbed(k[4], Rcon[q]))
          /\ v[2] = GF_WordAdd(k[2], v[1])
          /\ v[3] = GF_WordAdd(k[3], v[2])
          /\ v[4] = GF_WordAdd(k[4], v[3])
        <3>1. k \in AES_Block_t /\ v = NextRoundKey(k, q)
            BY <1>1, <2>1 DEF Keys, NUM_ROUND_KEYS_128
        <3> HIDE DEF k, v
        <3> QED BY <2>1, <3>1, RoundKey
    <2>5. CASE c = 0
        <3>1. w(i - 1) = k[4]
            BY <2>1, <2>2, <2>5
        <3>2. Transformed(i - 1) = RotatedAndSubbed(w(i - 1), RoundConstant[((i - 1) \div 4) + 1])
            BY <1>3, <2>1, <2>2, <2>5
        <3>3. ((i - 1) \div 4) + 1 = q
            BY <2>1, <2>2, <2>5
        <3>4. Transformed(i - 1) = RotatedAndSubbed(k[4], Rcon[q])
            <4> HIDE DEF w, k
            <4> QED BY <1>2, <2>1, <3>1, <3>2, <3>3
        <3> HIDE DEF w, k, v
        <3> QED BY <2>3, <2>4, <2>5, <3>4
    <2>6. CASE c # 0
        <3>1. w(i - 1) = v[c]
            <4>1. w(i - 1) = keys[q + 1][(c - 1) + 1]
                BY <2>1, <2>6
            <4>2. (c - 1) + 1 = c
                BY <2>1, <2>6
            <4> QED BY <4>1, <4>2
        <3>2. (i - 1) % 4 # 3
            BY <2>1, <2>6
        <3>3. Transformed(i - 1) = v[c]
            <4> HIDE DEF w, v
            <4> QED BY <1>4, <2>2, <3>1, <3>2
        <3>4. c = 1 \/ c = 2 \/ c = 3
            BY <2>1, <2>6
        <3>5. v[c + 1] = GF_WordAdd(k[c + 1], v[c])
            <4> HIDE DEF k, v
            <4> QED BY <2>4, <3>4
        <3> HIDE DEF w, k, v
        <3> QED BY <2>3, <3>3, <3>5
    <2> QED BY <2>5, <2>6
<1>6. IsKeyExpansion(keys, key)
    BY <1>1, <1>5 DEF IsKeyExpansion, w, Transformed, RoundConstant
<1> QED BY <1>1, <1>6 DEF keys
==============================================================================
