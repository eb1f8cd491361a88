------------------------- MODULE HostFramingProofs -------------------------
(***************************************************************************)
(* The 'data' handler takes from the line the packets the device has       *)
(* written to it, however many they are and however the port cuts them.    *)
(***************************************************************************)
EXTENDS HostFraming, SequenceTheorems, TLAPS

\* The n-th byte of a line.
OnTheLine(list, n) ==
    list[(n - 1) \div PACKET_LENGTH + 1].bytes[((n - 1) % PACKET_LENGTH) + 1]

\* The read buffer and what has not been read are the line from the first
\* packet that has not been taken.
Rejoined ==
    /\ Len(rxBuffer) + Len(unread) = PACKET_LENGTH * (Len(replies) - taken)
    /\ \A n \in 1..Len(rxBuffer) : rxBuffer[n] = OnTheLine(replies, PACKET_LENGTH * taken + n)
    /\ \A n \in 1..Len(unread) :
        unread[n] = OnTheLine(replies, PACKET_LENGTH * taken + Len(rxBuffer) + n)

HostTypeOK ==
    /\ replies \in Replies /\ taken \in 0..Len(replies)
    /\ rxBuffer \in Seq(Byte) /\ unread \in Seq(Byte)
    /\ packets \in Seq(Seq(Byte))
    /\ lastPacket \in {retx, ack}

HostInv == HostTypeOK /\ Rejoined

-----------------------------------------------------------------------------
(* The line.                                                               *)

\* What RepliesAssumption says of a line.
LEMMA RepliesAre ==
    ASSUME NEW list \in Replies
    PROVE  /\ list \in Seq([name : STRING, bytes : Seq(Byte)]) /\ Len(list) \in Nat
           /\ \A k \in 1..Len(list) :
                /\ list[k].bytes \in Seq(Byte) /\ Len(list[k].bytes) = 18
                /\ list[k].bytes \in [1..18 -> Byte]
<1>1. list \in Seq([name : STRING, bytes : Seq(Byte)])
    BY RepliesAssumption
<1>2. ASSUME NEW k \in 1..Len(list)
      PROVE  list[k].bytes \in Seq(Byte) /\ Len(list[k].bytes) = 18
    <2>1. list[k] \in [name : STRING, bytes : Seq(Byte)]
        BY <1>1, ElementOfSeq
    <2>2. Len(list[k].bytes) = 18
        BY RepliesAssumption DEF PACKET_LENGTH
    <2> QED BY <2>1, <2>2
<1>3. ASSUME NEW k \in 1..Len(list)
      PROVE  list[k].bytes \in [1..18 -> Byte]
    BY <1>2, LenProperties
<1> QED BY <1>1, <1>2, <1>3

LEMMA DivMod18 ==
    ASSUME NEW t \in Nat, NEW n \in 1..18
    PROVE  (18 * t + n - 1) \div 18 = t /\ (18 * t + n - 1) % 18 = n - 1
OBVIOUS

\* The bytes of the next packet, on the line.
LEMMA NextOnTheLine ==
    ASSUME taken \in Nat, NEW n \in 1..18
    PROVE  OnTheLine(replies, PACKET_LENGTH * taken + n) = replies[taken + 1].bytes[n]
<1>1. (18 * taken + n - 1) \div 18 = taken /\ (18 * taken + n - 1) % 18 = n - 1
    BY DivMod18
<1>2. taken + 1 \in Nat /\ n - 1 + 1 = n
    OBVIOUS
<1> QED BY <1>1, <1>2 DEF OnTheLine, PACKET_LENGTH

\* A whole packet in the buffer is the next the device has sent.
LEMMA RawIsNext ==
    ASSUME HostInv, Len(rxBuffer) >= PACKET_LENGTH
    PROVE  /\ taken + 1 \in 1..Len(replies)
           /\ raw = replies[taken + 1].bytes
           /\ raw \in Seq(Byte)
<1>1. /\ taken \in Nat /\ Len(replies) \in Nat /\ taken <= Len(replies)
      /\ rxBuffer \in Seq(Byte) /\ unread \in Seq(Byte) /\ replies \in Replies
      /\ Len(rxBuffer) \in Nat /\ Len(unread) \in Nat
    BY RepliesAre DEF HostInv, HostTypeOK
<1>2. taken + 1 \in 1..Len(replies)
    BY <1>1 DEF HostInv, Rejoined, PACKET_LENGTH
<1>3. raw \in Seq(Byte) /\ Len(raw) = 18 /\ \A n \in 1..18 : raw[n] = rxBuffer[n]
    <2>1. Len(rxBuffer) >= 18
        BY DEF PACKET_LENGTH
    <2>2. \A n \in 1..18 : SubSeq(rxBuffer, 1, 18)[n] = rxBuffer[1 + n - 1]
        BY <1>1, <2>1, SubSeqProperties
    <2>3. SubSeq(rxBuffer, 1, 18) \in Seq(Byte) /\ Len(SubSeq(rxBuffer, 1, 18)) = 18
        <3>1. \A n \in 1..18 : n \in 1..Len(rxBuffer)
            BY <1>1, <2>1
        <3>2. \A n \in 1..18 : rxBuffer[n] \in Byte
            BY <1>1, <3>1, ElementOfSeq
        <3>3. /\ SubSeq(rxBuffer, 1, 18) \in Seq(Byte)
              /\ Len(SubSeq(rxBuffer, 1, 18)) = IF 1 <= 18 THEN 18 - 1 + 1 ELSE 0
            BY <3>2, SubSeqProperties
        <3> QED BY <3>3
    <2> QED BY <2>2, <2>3 DEF raw, PACKET_LENGTH
<1>4. ASSUME NEW n \in 1..18
      PROVE  raw[n] = replies[taken + 1].bytes[n]
    <2>1. n \in 1..Len(rxBuffer)
        BY <1>1 DEF PACKET_LENGTH
    <2>2. rxBuffer[n] = OnTheLine(replies, PACKET_LENGTH * taken + n)
        BY <2>1 DEF HostInv, Rejoined
    <2> QED BY <1>1, <1>3, <2>2, NextOnTheLine
<1>5. /\ replies[taken + 1].bytes \in Seq(Byte)
      /\ Len(replies[taken + 1].bytes) = 18
    BY <1>1, <1>2, RepliesAre
<1>6. raw = replies[taken + 1].bytes
    <2>1. Len(raw) = Len(replies[taken + 1].bytes)
        BY <1>3, <1>5
    <2>2. 1..Len(raw) = 1..18
        BY <1>3
    <2>3. \A n \in 1..Len(raw) : raw[n] = replies[taken + 1].bytes[n]
        BY <1>4, <2>2
    <2>4. raw \in Seq(Byte) /\ replies[taken + 1].bytes \in Seq(Byte)
        BY <1>3, <1>5
    <2> QED BY <2>1, <2>3, <2>4, SeqEqual
<1> QED BY <1>2, <1>3, <1>6

-----------------------------------------------------------------------------
(* Steps.                                                                  *)

\* The bytes of a buffer without its first n.
LEMMA Dropped ==
    ASSUME NEW s \in Seq(Byte), NEW n \in 0..Len(s)
    PROVE  /\ SubSeq(s, n + 1, Len(s)) \in Seq(Byte)
           /\ Len(SubSeq(s, n + 1, Len(s))) = Len(s) - n
           /\ \A k \in 1..Len(s) - n : SubSeq(s, n + 1, Len(s))[k] = s[k + n]
<1>1. Len(s) \in Nat /\ n \in Nat /\ n <= Len(s)
    BY LenProperties
<1>2. \A k \in n + 1..Len(s) : s[k] \in Byte
    BY <1>1, ElementOfSeq
<1>3. /\ SubSeq(s, n + 1, Len(s)) \in Seq(Byte)
      /\ Len(SubSeq(s, n + 1, Len(s)))
            = IF n + 1 <= Len(s) THEN Len(s) - (n + 1) + 1 ELSE 0
      /\ \A k \in 1..Len(s) - (n + 1) + 1 : SubSeq(s, n + 1, Len(s))[k] = s[n + 1 + k - 1]
    BY <1>1, <1>2, SubSeqProperties
<1>4. Len(SubSeq(s, n + 1, Len(s))) = Len(s) - n
    BY <1>1, <1>3
<1>5. ASSUME NEW k \in 1..Len(s) - n
      PROVE  SubSeq(s, n + 1, Len(s))[k] = s[k + n]
    <2>1. k \in 1..Len(s) - (n + 1) + 1 /\ n + 1 + k - 1 = k + n
        BY <1>1
    <2> QED BY <1>3, <2>1
<1> QED BY <1>3, <1>4, <1>5

LEMMA Numbers ==
    ASSUME HostInv
    PROVE  /\ taken \in Nat /\ Len(replies) \in Nat /\ taken <= Len(replies)
           /\ Len(rxBuffer) \in Nat /\ Len(unread) \in Nat
           /\ Len(rxBuffer) + Len(unread) = 18 * (Len(replies) - taken)
           /\ rxBuffer \in Seq(Byte) /\ unread \in Seq(Byte)
<1>1. Len(replies) \in Nat
    BY RepliesAre DEF HostInv, HostTypeOK
<1>2. Len(rxBuffer) \in Nat /\ Len(unread) \in Nat
    BY LenProperties DEF HostInv, HostTypeOK
<1> QED BY <1>1, <1>2 DEF HostInv, HostTypeOK, Rejoined, PACKET_LENGTH

\* Cutting a packet off the front leaves the line that follows it.
LEMMA ConsumeKeeps ==
    ASSUME HostInv, consumeFromBuffer
    PROVE  /\ taken' \in 1..Len(replies') /\ replies' = replies
           /\ raw = replies[taken'].bytes /\ raw \in Seq(Byte)
           /\ rxBuffer' \in Seq(Byte) /\ unread' \in Seq(Byte) /\ Rejoined'
<1>1. /\ Len(rxBuffer) >= 18 /\ rxBuffer' = SubSeq(rxBuffer, 18 + 1, Len(rxBuffer))
      /\ taken' = taken + 1 /\ replies' = replies /\ unread' = unread
    BY DEF consumeFromBuffer, Rest, PACKET_LENGTH
<1>2. taken' \in 1..Len(replies') /\ raw = replies[taken'].bytes /\ raw \in Seq(Byte)
    BY <1>1, RawIsNext DEF PACKET_LENGTH
<1>3. rxBuffer \in Seq(Byte) /\ 18 \in 0..Len(rxBuffer)
    BY <1>1, Numbers
<1>4. /\ rxBuffer' \in Seq(Byte) /\ Len(rxBuffer') = Len(rxBuffer) - 18
      /\ \A n \in 1..Len(rxBuffer) - 18 : rxBuffer'[n] = rxBuffer[n + 18]
    BY <1>1, <1>3, Dropped
<1>6. Len(rxBuffer') + Len(unread') = 18 * (Len(replies') - taken')
    <2>1. Len(rxBuffer') = Len(rxBuffer) - 18 /\ Len(unread') = Len(unread)
          /\ Len(replies') = Len(replies) /\ taken' = taken + 1
        BY <1>1, <1>4
    <2>2. Len(rxBuffer) - 18 + Len(unread) = 18 * (Len(replies) - (taken + 1))
        <3> DEFINE r == Len(rxBuffer)
                   u == Len(unread)
                   l == Len(replies)
        <3>1. r \in Nat /\ u \in Nat /\ l \in Nat /\ taken \in Nat /\ r + u = 18 * (l - taken)
            BY Numbers
        <3> HIDE DEF r, u, l
        <3>2. r - 18 + u = 18 * (l - (taken + 1))
            BY <3>1
        <3> QED BY <3>2 DEF r, u, l
    <2> QED BY <2>1, <2>2
<1>7. ASSUME NEW n \in 1..Len(rxBuffer')
      PROVE  rxBuffer'[n] = OnTheLine(replies', 18 * taken' + n)
    <2>1. n \in 1..Len(rxBuffer) - 18
        BY <1>4
    <2>2. n + 18 \in 1..Len(rxBuffer) /\ 18 * taken + (n + 18) = 18 * (taken + 1) + n
        BY <2>1, Numbers
    <2>3. rxBuffer[n + 18] = OnTheLine(replies, 18 * taken + (n + 18))
        BY <2>2 DEF HostInv, Rejoined, PACKET_LENGTH
    <2>4. OnTheLine(replies', 18 * taken' + n) = OnTheLine(replies, 18 * (taken + 1) + n)
        BY <1>1 DEF OnTheLine
    <2> QED BY <1>4, <2>1, <2>2, <2>3, <2>4
<1>8. ASSUME NEW n \in 1..Len(unread')
      PROVE  unread'[n] = OnTheLine(replies', 18 * taken' + Len(rxBuffer') + n)
    <2>1. n \in 1..Len(unread)
        BY <1>1
    <2>2. 18 * taken + Len(rxBuffer) + n = 18 * (taken + 1) + (Len(rxBuffer) - 18) + n
        <3> DEFINE r == Len(rxBuffer)
        <3>1. n \in Nat /\ r \in Nat /\ taken \in Nat
            BY <2>1, Numbers
        <3> HIDE DEF r
        <3>2. 18 * taken + r + n = 18 * (taken + 1) + (r - 18) + n
            BY <3>1
        <3> QED BY <3>2 DEF r
    <2>3. unread[n] = OnTheLine(replies, 18 * taken + Len(rxBuffer) + n)
        BY <2>1 DEF HostInv, Rejoined, PACKET_LENGTH
    <2>4. OnTheLine(replies', 18 * taken' + Len(rxBuffer') + n)
            = OnTheLine(replies, 18 * (taken + 1) + (Len(rxBuffer) - 18) + n)
        BY <1>1, <1>4 DEF OnTheLine
    <2> QED BY <1>1, <2>2, <2>3, <2>4
<1>9. Rejoined'
    BY <1>6, <1>7, <1>8 DEF Rejoined, PACKET_LENGTH
<1>10. unread' \in Seq(Byte)
    BY <1>1, Numbers
<1> QED BY <1>1, <1>2, <1>4, <1>9, <1>10

\* A read moves bytes, in their order.
LEMMA ReadKeeps ==
    ASSUME HostInv, NEW m \in Reads, OnRead(m)
    PROVE  HostInv'
<1> DEFINE n == IF m < Len(unread) THEN m ELSE Len(unread)
           front == SubSeq(unread, 1, n)
<1>1. n \in 0..Len(unread)
    BY ReadsAssumption, Numbers
<1>2. /\ rxBuffer' = rxBuffer \o front
      /\ unread' = SubSeq(unread, n + 1, Len(unread))
      /\ replies' = replies /\ taken' = taken
      /\ UNCHANGED <<packets, lastPacket>>
    BY DEF OnRead
<1> HIDE DEF n
<1>3. /\ unread' \in Seq(Byte) /\ Len(unread') = Len(unread) - n
      /\ \A k \in 1..Len(unread) - n : unread'[k] = unread[k + n]
    BY <1>1, <1>2, Numbers, Dropped
<1>4. /\ front \in Seq(Byte) /\ Len(front) = n
      /\ \A k \in 1..n : front[k] = unread[k]
    <2>1. \A k \in 1..n : unread[k] \in Byte
        BY <1>1, Numbers, ElementOfSeq
    <2>2. /\ front \in Seq(Byte) /\ Len(front) = IF 1 <= n THEN n - 1 + 1 ELSE 0
          /\ \A k \in 1..n - 1 + 1 : front[k] = unread[1 + k - 1]
        BY <1>1, <2>1, Numbers, SubSeqProperties
    <2>3. Len(front) = n /\ n - 1 + 1 = n
        BY <1>1, <2>2, Numbers
    <2>4. \A k \in 1..n : 1 + k - 1 = k
        BY <1>1, Numbers
    <2> QED BY <2>2, <2>3, <2>4
<1> HIDE DEF front
<1>5. /\ rxBuffer' \in Seq(Byte) /\ Len(rxBuffer') = Len(rxBuffer) + n
      /\ \A k \in 1..Len(rxBuffer) + n :
            rxBuffer'[k] = IF k <= Len(rxBuffer) THEN rxBuffer[k] ELSE unread[k - Len(rxBuffer)]
    <2>1. /\ rxBuffer' \in Seq(Byte) /\ Len(rxBuffer') = Len(rxBuffer) + n
          /\ \A k \in 1..Len(rxBuffer) + n :
                rxBuffer'[k] = IF k <= Len(rxBuffer) THEN rxBuffer[k] ELSE front[k - Len(rxBuffer)]
        <3>1. rxBuffer \in Seq(Byte) /\ front \in Seq(Byte)
            BY <1>4, Numbers
        <3>2. /\ rxBuffer \o front \in Seq(Byte)
              /\ Len(rxBuffer \o front) = Len(rxBuffer) + Len(front)
              /\ \A k \in 1..Len(rxBuffer) + Len(front) : (rxBuffer \o front)[k]
                    = IF k <= Len(rxBuffer) THEN rxBuffer[k] ELSE front[k - Len(rxBuffer)]
            BY <3>1, ConcatProperties
        <3> DEFINE joined == rxBuffer \o front
                   r == Len(rxBuffer)
        <3>3. rxBuffer' = joined /\ Len(front) = n
            BY <1>2, <1>4
        <3>4. /\ joined \in Seq(Byte) /\ Len(joined) = r + n
              /\ \A k \in 1..r + n : joined[k] = IF k <= r THEN rxBuffer[k] ELSE front[k - r]
            BY <1>4, <3>2, Zenon
        <3> HIDE DEF joined
        <3>5. Len(rxBuffer') = Len(joined) /\ rxBuffer' \in Seq(Byte)
            BY <3>3, <3>4
        <3>6. \A k \in 1..r + n : rxBuffer'[k] = joined[k]
            BY <3>3
        <3> HIDE DEF r
        <3>7. \A k \in 1..r + n : rxBuffer'[k] = IF k <= r THEN rxBuffer[k] ELSE front[k - r]
            BY <3>4, <3>6
        <3> QED BY <3>4, <3>5, <3>7 DEF r
    <2>2. \A k \in 1..Len(rxBuffer) + n : k > Len(rxBuffer) => k - Len(rxBuffer) \in 1..n
        BY <1>1, Numbers
    <2>3. \A k \in 1..n : front[k] = unread[k]
        BY <1>4
    <2> HIDE DEF front
    <2>4. \A k \in 1..Len(rxBuffer) + n :
            k > Len(rxBuffer) => front[k - Len(rxBuffer)] = unread[k - Len(rxBuffer)]
        BY <2>2, <2>3
    <2>5. \A k \in 1..Len(rxBuffer) + n : k <= Len(rxBuffer) \/ k > Len(rxBuffer)
        BY Numbers
    <2> QED BY <2>1, <2>4, <2>5
<1>6. ASSUME NEW k \in 1..Len(rxBuffer')
      PROVE  rxBuffer'[k] = OnTheLine(replies', 18 * taken' + k)
    <2>1. k \in 1..Len(rxBuffer) + n
        BY <1>5
    <2>2. OnTheLine(replies', 18 * taken' + k) = OnTheLine(replies, 18 * taken + k)
        BY <1>2 DEF OnTheLine
    <2>3. CASE k <= Len(rxBuffer)
        <3>1. k \in 1..Len(rxBuffer)
            BY <2>1, <2>3, <1>1, Numbers
        <3>2. rxBuffer[k] = OnTheLine(replies, 18 * taken + k)
            BY <3>1 DEF HostInv, Rejoined, PACKET_LENGTH
        <3> QED BY <1>5, <2>1, <2>2, <2>3, <3>2
    <2>4. CASE ~(k <= Len(rxBuffer))
        <3> DEFINE r == Len(rxBuffer)
                   u == Len(unread)
        <3>1. k - r \in 1..u /\ 18 * taken + r + (k - r) = 18 * taken + k
            <4>1. /\ r \in Nat /\ u \in Nat /\ taken \in Nat /\ n \in 0..u
                  /\ k \in 1..r + n /\ ~(k <= r)
                BY <1>1, <2>1, <2>4, Numbers
            <4> HIDE DEF r, u
            <4> QED BY <4>1
        <3>2. unread[k - Len(rxBuffer)]
                = OnTheLine(replies, 18 * taken + Len(rxBuffer) + (k - Len(rxBuffer)))
            BY <3>1 DEF HostInv, Rejoined, PACKET_LENGTH
        <3> QED BY <1>5, <2>1, <2>2, <2>4, <3>1, <3>2
    <2> QED BY <2>3, <2>4
<1>7. ASSUME NEW k \in 1..Len(unread')
      PROVE  unread'[k] = OnTheLine(replies', 18 * taken' + Len(rxBuffer') + k)
    <2>1. k \in 1..Len(unread) - n
        BY <1>3
    <2>2. /\ k + n \in 1..Len(unread)
          /\ 18 * taken + Len(rxBuffer) + (k + n) = 18 * taken + (Len(rxBuffer) + n) + k
        BY <1>1, <2>1, Numbers
    <2>3. unread[k + n] = OnTheLine(replies, 18 * taken + Len(rxBuffer) + (k + n))
        BY <2>2 DEF HostInv, Rejoined, PACKET_LENGTH
    <2>4. OnTheLine(replies', 18 * taken' + Len(rxBuffer') + k)
            = OnTheLine(replies, 18 * taken + (Len(rxBuffer) + n) + k)
        BY <1>2, <1>5 DEF OnTheLine
    <2> QED BY <1>3, <2>1, <2>2, <2>3, <2>4
<1>8. Len(rxBuffer') + Len(unread') = 18 * (Len(replies') - taken')
    <2>1. /\ Len(rxBuffer') = Len(rxBuffer) + n /\ Len(unread') = Len(unread) - n
          /\ Len(replies') = Len(replies) /\ taken' = taken
        BY <1>2, <1>3, <1>5
    <2>2. Len(rxBuffer) + n + (Len(unread) - n) = 18 * (Len(replies) - taken)
        BY <1>1, Numbers
    <2> QED BY <2>1, <2>2
<1>9. retx' = retx /\ ack' = ack
    BY DEF retx, ack
<1>10. HostTypeOK'
    BY <1>2, <1>3, <1>5, <1>9 DEF HostInv, HostTypeOK
<1> QED BY <1>6, <1>7, <1>8, <1>10 DEF HostInv, Rejoined, PACKET_LENGTH

-----------------------------------------------------------------------------
(* Packets of a single byte.                                               *)

Body(byte) == <<1>> \o <<byte>> \o [k \in 1..15 |-> 255]

LEMMA BodyIs ==
    ASSUME NEW byte \in Byte
    PROVE  /\ Body(byte) \in Seq(Byte) /\ Len(Body(byte)) = 17
           /\ Body(byte)[1] = 1 /\ Body(byte)[2] = byte
           /\ \A k \in 3..17 : Body(byte)[k] = 255
<1> DEFINE padding == [k \in 1..15 |-> 255]
           front == <<1>> \o <<byte>>
<1>1. <<1>> \in Seq(Byte) /\ <<byte>> \in Seq(Byte)
    BY DEF Byte
<1>2. padding \in Seq(Byte) /\ Len(padding) = 15 /\ \A k \in 1..15 : padding[k] = 255
    BY DEF Byte
<1>3. /\ front \in Seq(Byte) /\ Len(front) = 2 /\ front[1] = 1 /\ front[2] = byte
    BY <1>1
<1> HIDE DEF padding, front
<1>4. front \in Seq(Byte) /\ padding \in Seq(Byte)
    BY <1>2, <1>3
<1>5. /\ front \o padding \in Seq(Byte)
      /\ Len(front \o padding) = Len(front) + Len(padding)
      /\ \A k \in 1..Len(front) + Len(padding) : (front \o padding)[k]
            = IF k <= Len(front) THEN front[k] ELSE padding[k - Len(front)]
    BY <1>4, ConcatProperties
<1>6. Body(byte) = front \o padding
    BY DEF Body, front, padding
<1>7. /\ Len(front \o padding) = 17
      /\ (front \o padding)[1] = 1 /\ (front \o padding)[2] = byte
    <2>1. Len(front) = 2 /\ Len(padding) = 15
        BY <1>2, <1>3
    <2>2. Len(front \o padding) = 17
        BY <1>5, <2>1
    <2>3. \A k \in 1..2 : (front \o padding)[k] = front[k]
        <3>1. \A k \in 1..2 : k \in 1..Len(front) + Len(padding) /\ k <= Len(front)
            BY <2>1
        <3>2. \A k \in 1..Len(front) + Len(padding) : k <= Len(front)
                => (front \o padding)[k] = front[k]
            BY <1>5
        <3> QED BY <3>1, <3>2
    <2> QED BY <1>3, <2>2, <2>3
<1>8. ASSUME NEW k \in 3..17
      PROVE  (front \o padding)[k] = 255
    <2>1. k - 2 \in 1..15 /\ ~(k <= 2)
        OBVIOUS
    <2>2. Len(front) = 2 /\ k \in 1..Len(front) + Len(padding)
        BY <1>2, <1>3
    <2>3. (front \o padding)[k] = padding[k - 2]
        BY <1>5, <2>1, <2>2
    <2>4. padding[k - 2] = 255
        BY <1>2, <2>1
    <2> QED BY <2>3, <2>4
<1>9. front \o padding \in Seq(Byte)
    BY <1>5
<1> DEFINE whole == front \o padding
<1> HIDE DEF whole
<1>10. /\ whole \in Seq(Byte) /\ Len(whole) = 17 /\ whole[1] = 1 /\ whole[2] = byte
       /\ \A k \in 3..17 : whole[k] = 255
    BY <1>7, <1>8, <1>9 DEF whole
<1>11. Body(byte) = whole
    BY <1>6 DEF whole
<1> QED BY <1>10, <1>11

\* One element more.
LEMMA AppendLen ==
    ASSUME NEW S, NEW s \in Seq(S), NEW e \in S
    PROVE  Append(s, e) \in Seq(S) /\ Len(Append(s, e)) = Len(s) + 1
BY AppendProperties

LEMMA AppendFront ==
    ASSUME NEW S, NEW s \in Seq(S), NEW e \in S
    PROVE  \A k \in 1..Len(s) : Append(s, e)[k] = s[k]
BY AppendProperties

LEMMA AppendLast ==
    ASSUME NEW S, NEW s \in Seq(S), NEW e \in S
    PROVE  Append(s, e)[Len(s) + 1] = e
BY AppendProperties

LEMMA SeventeenAndOne ==
    ASSUME NEW S, NEW s \in Seq(S), NEW e \in S
    PROVE  Len(s) = 17 =>
            /\ Append(s, e) \in Seq(S) /\ Len(Append(s, e)) = 18
            /\ \A k \in 1..17 : Append(s, e)[k] = s[k]
            /\ Append(s, e)[18] = e
<1> DEFINE n == Len(s)
           t == Append(s, e)
<1>1. t \in Seq(S) /\ Len(t) = n + 1
    BY AppendLen
<1>2. \A k \in 1..n : t[k] = s[k]
    BY AppendFront
<1>3. t[n + 1] = e
    BY AppendLast
<1> HIDE DEF n, t
<1>4. n = 17 => t \in Seq(S) /\ Len(t) = 18 /\ (\A k \in 1..17 : t[k] = s[k]) /\ t[18] = e
    BY <1>1, <1>2, <1>3
<1> QED BY <1>4 DEF n, t

LEMMA SinglePacketIs ==
    ASSUME NEW byte \in Byte
    PROVE  /\ createSingleBytePacket(byte) = Append(Body(byte), crc8(Body(byte)))
           /\ createSingleBytePacket(byte) # <<>>
           /\ createSingleBytePacket(byte)[2] = byte
<1>1. createSingleBytePacket(byte) = Append(Body(byte), crc8(Body(byte)))
    <2>1. Len(<<byte>>) = 1 /\ 16 - 1 = 15
        OBVIOUS
    <2> QED BY <2>1 DEF createSingleBytePacket, toBuffer, Body, PACKET_DATA_BYTES
<1> DEFINE S == Byte \cup {crc8(Body(byte))}
<1>2. Body(byte) \in Seq(S) /\ Len(Body(byte)) = 17 /\ Body(byte)[2] = byte
    BY BodyIs, SeqMonotonic
<1>3. crc8(Body(byte)) \in S
    OBVIOUS
<1> HIDE DEF S
<1>4. /\ Len(Append(Body(byte), crc8(Body(byte)))) = 18
      /\ Append(Body(byte), crc8(Body(byte)))[2] = byte
    <2> DEFINE crc == crc8(Body(byte))
               body == Body(byte)
    <2>1. body \in Seq(S) /\ crc \in S /\ Len(body) = 17 /\ body[2] = byte
        BY <1>2, <1>3
    <2> HIDE DEF crc, body
    <2>2. /\ Len(Append(body, crc)) = 18
          /\ \A i \in 1..17 : Append(body, crc)[i] = body[i]
        BY <2>1, SeventeenAndOne
    <2> QED BY <2>1, <2>2 DEF crc, body
<1>5. createSingleBytePacket(byte) # <<>>
    BY <1>1, <1>4, EmptySeq
<1> QED BY <1>1, <1>4, <1>5

IsBody(f, byte) == f[1] = 1 /\ f[2] = byte /\ \A k \in 3..17 : f[k] = 255

LEMMA SameBody ==
    ASSUME NEW f \in Seq(Byte), NEW g \in Seq(Byte), NEW byte
    PROVE  Len(f) = 17 /\ Len(g) = 17 /\ IsBody(f, byte) /\ IsBody(g, byte) => f = g
<1> DEFINE n == Len(f)
           m == Len(g)
<1>1. ASSUME IsBody(f, byte), IsBody(g, byte), NEW k \in 1..17
      PROVE  f[k] = g[k]
    <2>1. CASE k = 1
        BY <1>1, <2>1 DEF IsBody
    <2>2. CASE k = 2
        BY <1>1, <2>2 DEF IsBody
    <2>3. CASE k \in 3..17
        <3>1. f[k] = 255 /\ g[k] = 255
            BY <1>1, <2>3, Zenon DEF IsBody
        <3> QED BY <3>1
    <2>4. k = 1 \/ k = 2 \/ k \in 3..17
        OBVIOUS
    <2> QED BY <2>1, <2>2, <2>3, <2>4
<1>2. IsBody(f, byte) /\ IsBody(g, byte) => \A k \in 1..17 : f[k] = g[k]
    BY <1>1
<1>3. n = m /\ (\A k \in 1..n : f[k] = g[k]) => f = g
    BY SeqEqual
<1> HIDE DEF n, m
<1>4. n = 17 /\ m = 17 /\ IsBody(f, byte) /\ IsBody(g, byte) => f = g
    BY <1>2, <1>3
<1> QED BY <1>4 DEF n, m

\* A packet whose CRC matches reads as a single byte packet only if it is one.
LEMMA SingleIffEqual ==
    ASSUME NEW p \in Seq(Byte), Len(p) = 18, p[18] = computeCrc(p), NEW byte \in Byte
    PROVE  isSingleBytePacket(p, byte) <=> p = createSingleBytePacket(byte)
<1> DEFINE front == SubSeq(p, 1, 17)
           body == Body(byte)
<1>1. front \in Seq(Byte) /\ Len(front) = 17 /\ \A k \in 1..17 : front[k] = p[k]
    <2>1. \A k \in 1..17 : p[k] \in Byte
        <3>1. \A k \in 1..17 : k \in 1..Len(p)
            OBVIOUS
        <3> QED BY <3>1, ElementOfSeq
    <2>2. /\ front \in Seq(Byte) /\ Len(front) = 17 - 1 + 1
          /\ \A k \in 1..17 - 1 + 1 : front[k] = p[1 + k - 1]
        BY <2>1, SubSeqProperties
    <2>3. \A k \in 1..17 : 1 + k - 1 = k /\ k \in 1..17 - 1 + 1
        OBVIOUS
    <2> QED BY <2>2, <2>3
<1>2. p[18] = crc8(front)
    BY DEF computeCrc, PACKET_LENGTH
<1>3. p = Append(front, p[18])
    <2>1. p[18] \in Byte
        <3>1. 18 \in 1..Len(p)
            OBVIOUS
        <3> QED BY <3>1, ElementOfSeq
    <2> DEFINE q == Append(front, p[18])
    <2>2. /\ q \in Seq(Byte) /\ Len(q) = 18 /\ q[18] = p[18]
          /\ \A k \in 1..17 : q[k] = front[k]
        BY <1>1, <2>1, SeventeenAndOne
    <2> HIDE DEF q
    <2>3. \A k \in 1..Len(p) : p[k] = q[k]
        BY <1>1, <2>2
    <2>4. p = q
        BY <2>2, <2>3, SeqEqual
    <2> QED BY <2>4 DEF q
<1>4. /\ body \in Seq(Byte) /\ Len(body) = 17 /\ body[1] = 1 /\ body[2] = byte
      /\ \A k \in 3..17 : body[k] = 255
    BY BodyIs
<1> HIDE DEF front, body
<1>5. isSingleBytePacket(p, byte) <=> front = body
    <2>1. isSingleBytePacket(p, byte) <=> IsBody(front, byte)
        BY <1>1 DEF isSingleBytePacket, IsBody, PACKET_LENGTH
    <2>2. IsBody(body, byte)
        BY <1>4 DEF IsBody
    <2>3. ASSUME IsBody(front, byte)
          PROVE  front = body
        BY <1>1, <1>4, <2>2, <2>3, SameBody
    <2> QED BY <2>1, <2>2, <2>3
<1>6. createSingleBytePacket(byte) = Append(body, crc8(body))
    BY SinglePacketIs DEF body
<1>7. ASSUME p = Append(body, crc8(body))
      PROVE  front = body
    <2> DEFINE S == Byte \cup {crc8(body)}
    <2>1. body \in Seq(S) /\ crc8(body) \in S
        BY <1>4, SeqMonotonic
    <2> HIDE DEF S
    <2>2. \A k \in 1..Len(body) : Append(body, crc8(body))[k] = body[k]
        BY <2>1, AppendFront
    <2>3. \A k \in 1..Len(front) : front[k] = body[k]
        BY <1>1, <1>4, <1>7, <2>2
    <2>4. front \in Seq(Byte) /\ body \in Seq(Byte) /\ Len(front) = Len(body)
        BY <1>1, <1>4
    <2> QED BY <2>3, <2>4, SeqEqual
<1> QED BY <1>2, <1>3, <1>5, <1>6, <1>7
-----------------------------------------------------------------------------
(* Names.                                                                  *)

LEMMA RetxAndAck ==
    /\ retx # <<>> /\ retx[2] = 25 /\ ack # <<>> /\ ack[2] = 21
<1>1. 25 \in Byte /\ 21 \in Byte
    BY DEF Byte
<1> QED BY <1>1, SinglePacketIs DEF retx, ack

LEMMA Records ==
    /\ Record(retx) = Main!Single("RETX")
    /\ Record(ack) = Main!Single("ACK")
    /\ Record(<<>>) = Main!NoPacket
<1>1. Record(retx) = Main!Single("RETX")
    BY RetxAndAck DEF Record, Main!Single
<1>2. Record(ack) = Main!Single("ACK")
    BY RetxAndAck DEF Record, Main!Single
<1>3. Record(<<>>) = Main!NoPacket
    BY DEF Record, Main!NoPacket
<1> QED BY <1>1, <1>2, <1>3

\* The tests of the handler tell the names of what the device has sent apart.
LEMMA Told ==
    ASSUME HostInv, consumeFromBuffer
    PROVE  LET d == replies[taken'].name IN
           /\ d = "CORRUPT" <=> ~CrcMatches
           /\ CrcMatches => (d = "RETX" <=> isSingleBytePacket(raw, 25))
           /\ CrcMatches => (d = "ACK" <=> isSingleBytePacket(raw, 21))
           /\ ReplyName(raw) = d
<1> DEFINE r == replies[taken']
<1>1. /\ taken' \in 1..Len(replies) /\ raw = r.bytes /\ raw \in Seq(Byte)
      /\ replies \in Replies /\ Len(replies) \in Nat /\ DOMAIN replies = 1..Len(replies)
    <2>1. replies \in Replies
        BY DEF HostInv, HostTypeOK
    <2>2. DOMAIN replies = 1..Len(replies)
        BY <2>1, RepliesAre, LenProperties
    <2>3. Len(replies') = Len(replies)
        BY DEF consumeFromBuffer
    <2> QED BY <2>1, <2>2, <2>3, ConsumeKeeps, RepliesAre
<1>2. /\ Len(raw) = 18
      /\ r.name = "CORRUPT" <=> raw[18] # computeCrc(raw)
      /\ r.name = "RETX" <=> raw = retx
      /\ r.name = "ACK" <=> raw = ack
      /\ \A j \in 1..Len(replies) : replies[j].bytes = raw => replies[j].name = r.name
    BY <1>1, RepliesAssumption DEF PACKET_LENGTH
<1>3. ReplyName(raw) = r.name
    BY <1>1, <1>2 DEF ReplyName
<1>4. CrcMatches <=> raw[18] = computeCrc(raw)
    BY DEF CrcMatches, PACKET_LENGTH
<1>5. 25 \in Byte /\ 21 \in Byte
    BY DEF Byte
<1>6. CrcMatches =>
        /\ isSingleBytePacket(raw, 25) <=> raw = createSingleBytePacket(25)
        /\ isSingleBytePacket(raw, 21) <=> raw = createSingleBytePacket(21)
    BY <1>1, <1>2, <1>4, <1>5, SingleIffEqual
<1> QED BY <1>2, <1>3, <1>4, <1>6 DEF retx, ack

\* A packet that is queued is queued under its name.
LEMMA NamesGrow ==
    ASSUME HostInv, consumeFromBuffer, packets' = Append(packets, raw)
    PROVE  Names' = Append(Names, replies[taken'].name)
<1> DEFINE n == Len(packets)
           d == replies[taken'].name
           S == {ReplyName(packets[k]) : k \in 1..n} \cup {d}
<1>1. packets \in Seq(Seq(Byte)) /\ raw \in Seq(Byte)
    BY ConsumeKeeps DEF HostInv, HostTypeOK
<1>2. /\ n \in Nat /\ DOMAIN packets = 1..n
      /\ packets' \in Seq(Seq(Byte)) /\ Len(packets') = n + 1
      /\ \A k \in 1..n : packets'[k] = packets[k]
      /\ packets'[n + 1] = raw
    <2>1. n \in Nat /\ DOMAIN packets = 1..n
        BY <1>1, LenProperties
    <2>2. packets' \in Seq(Seq(Byte)) /\ Len(packets') = n + 1
        BY <1>1, AppendLen
    <2>3. \A k \in 1..n : packets'[k] = packets[k]
        BY <1>1, AppendFront
    <2>4. packets'[n + 1] = raw
        BY <1>1, AppendLast
    <2> QED BY <2>1, <2>2, <2>3, <2>4
<1>3. DOMAIN packets' = 1..n + 1
    BY <1>2, LenProperties
<1>4. replies' = replies /\ ReplyName(raw) = d
    BY Told DEF consumeFromBuffer
<1>5. Names = [k \in 1..n |-> ReplyName(packets[k])]
    BY <1>2 DEF Names
<1>6. Names' = [k \in 1..n + 1 |-> ReplyName(packets'[k])]
    BY <1>3, <1>4 DEF Names, ReplyName
<1> HIDE DEF n, d
<1>7. Names \in Seq(S) /\ Len(Names) = n /\ d \in S
    <2>1. \A k \in 1..n : ReplyName(packets[k]) \in S
        OBVIOUS
    <2>2. d \in S
        OBVIOUS
    <2> HIDE DEF S
    <2> QED BY <1>2, <1>5, <2>1, <2>2
<1> HIDE DEF S
<1>8. /\ Append(Names, d) \in Seq(S) /\ Len(Append(Names, d)) = n + 1
      /\ \A k \in 1..n : Append(Names, d)[k] = Names[k]
      /\ Append(Names, d)[n + 1] = d
    <2>1. Append(Names, d) \in Seq(S) /\ Len(Append(Names, d)) = n + 1
        BY <1>7, AppendLen
    <2>2. \A k \in 1..n : Append(Names, d)[k] = Names[k]
        BY <1>7, AppendFront
    <2>3. Append(Names, d)[n + 1] = d
        BY <1>7, AppendLast
    <2> QED BY <2>1, <2>2, <2>3
<1>9. \A k \in 1..n + 1 : Names'[k] = Append(Names, d)[k]
    <2>1. ASSUME NEW k \in 1..n
          PROVE  Names'[k] = Append(Names, d)[k]
        <3>1. k \in 1..n + 1 /\ packets'[k] = packets[k]
            BY <1>2
        <3> QED BY <1>5, <1>6, <1>8, <3>1
    <2>2. Names'[n + 1] = Append(Names, d)[n + 1]
        BY <1>2, <1>4, <1>6, <1>8
    <2>3. \A k \in 1..n + 1 : k \in 1..n \/ k = n + 1
        BY <1>2
    <2> QED BY <2>1, <2>2, <2>3
<1>10. Names' \in Seq(S) /\ Len(Names') = n + 1
    <2>1. \A k \in 1..n + 1 : Append(Names, d)[k] \in S
        BY <1>8, ElementOfSeq
    <2>2. Names' \in [1..n + 1 -> S]
        BY <1>6, <1>9, <2>1
    <2>3. n + 1 \in Nat
        BY <1>2
    <2> QED BY <2>2, <2>3
<1>11. Names' = Append(Names, d)
    BY <1>8, <1>9, <1>10, SeqEqual
<1> QED BY <1>11 DEF d

-----------------------------------------------------------------------------
(* The handler.                                                            *)

LEMMA Initially ==
    ASSUME NEW list \in Replies, InitHost(list)
    PROVE  HostInv
<1>1. /\ replies = list /\ taken = 0 /\ unread = BytesOf(list)
      /\ rxBuffer = <<>> /\ packets = <<>> /\ lastPacket = ack
    BY DEF InitHost
<1>2. Len(list) \in Nat /\ list \in Replies
    BY RepliesAre
<1>3. unread = [n \in 1..18 * Len(list) |-> OnTheLine(list, n)]
    BY <1>1 DEF BytesOf, OnTheLine, PACKET_LENGTH
<1>4. ASSUME NEW n \in 1..18 * Len(list)
      PROVE  OnTheLine(list, n) \in Byte
    <2>1. (n - 1) \div 18 + 1 \in 1..Len(list) /\ ((n - 1) % 18) + 1 \in 1..18
        BY <1>2
    <2> QED BY <2>1, RepliesAre DEF OnTheLine, PACKET_LENGTH
<1>5. unread \in Seq(Byte) /\ Len(unread) = 18 * Len(list)
    BY <1>2, <1>3, <1>4
<1>6. rxBuffer \in Seq(Byte) /\ Len(rxBuffer) = 0 /\ packets \in Seq(Seq(Byte))
    BY <1>1, EmptySeq
<1>7. HostTypeOK
    BY <1>1, <1>2, <1>5, <1>6 DEF HostTypeOK
<1>8. \A n \in 1..Len(unread) : unread[n] = OnTheLine(list, 18 * 0 + 0 + n)
    BY <1>2, <1>3, <1>5
<1>9. Rejoined
    BY <1>1, <1>2, <1>5, <1>6, <1>8 DEF Rejoined, PACKET_LENGTH
<1> QED BY <1>7, <1>9 DEF HostInv

\* A turn of the while loop keeps the invariant and is a step of the handler.
LEMMA PacketKeeps ==
    ASSUME HostInv, OnPacket
    PROVE  HostInv'
<1>1. consumeFromBuffer
    BY DEF OnPacket, HostDamaged, HostRetx, HostAck, HostQueue
<1>2. /\ taken' \in 1..Len(replies') /\ replies' = replies /\ raw \in Seq(Byte)
      /\ rxBuffer' \in Seq(Byte) /\ unread' \in Seq(Byte) /\ Rejoined'
    BY <1>1, ConsumeKeeps
<1>3. Len(replies) \in Nat
    BY Numbers
<1>4. packets' \in Seq(Seq(Byte))
    <2>1. packets \in Seq(Seq(Byte))
        BY DEF HostInv, HostTypeOK
    <2>2. Append(packets, raw) \in Seq(Seq(Byte))
        BY <1>2, <2>1, AppendLen
    <2>3. packets' = packets \/ packets' = Append(packets, raw)
        BY DEF OnPacket, HostDamaged, HostRetx, HostAck, HostQueue
    <2> QED BY <2>1, <2>2, <2>3
<1>5. lastPacket' \in {retx, ack}
    BY DEF OnPacket, HostDamaged, HostRetx, HostAck, HostQueue, writePacket,
           HostInv, HostTypeOK
<1>6. retx' = retx /\ ack' = ack
    BY DEF retx, ack
<1>7. HostTypeOK'
    <2>1. taken' \in 0..Len(replies')
        BY <1>2, <1>3
    <2>2. replies' \in Replies
        BY <1>2 DEF HostInv, HostTypeOK
    <2> QED BY <1>2, <1>4, <1>5, <1>6, <2>1, <2>2 DEF HostTypeOK
<1> QED BY <1>2, <1>7 DEF HostInv

LEMMA PacketHandled ==
    ASSUME HostInv, OnPacket
    PROVE  taken' = taken + 1 /\ Main!OnData(replies[taken'].name)
<1> DEFINE d == replies[taken'].name
<1>1. consumeFromBuffer
    BY DEF OnPacket, HostDamaged, HostRetx, HostAck, HostQueue
<1>2. taken' = taken + 1 /\ replies' = replies
    BY <1>1 DEF consumeFromBuffer
<1>3. /\ d = "CORRUPT" <=> ~CrcMatches
      /\ CrcMatches => (d = "RETX" <=> isSingleBytePacket(raw, 25))
      /\ CrcMatches => (d = "ACK" <=> isSingleBytePacket(raw, 21))
      /\ ReplyName(raw) = d
    BY <1>1, Told
<1>4. Record(retx) = Main!Single("RETX") /\ Record(ack) = Main!Single("ACK")
      /\ Record(<<>>) = Main!NoPacket
    BY Records
<1>5. /\ Record(lastPacket)' = Record(lastPacket')
      /\ Record(written)' = Record(written')
    BY DEF Record
<1>6. UNCHANGED packets => UNCHANGED Names
    BY <1>2 DEF Names, ReplyName
<1>7. packets' = Append(packets, raw) => Names' = Append(Names, d)
    BY <1>1, NamesGrow
<1> HIDE DEF d
<1>8. ASSUME HostDamaged
      PROVE  Main!OnData(d)
    BY <1>3, <1>4, <1>5, <1>6, <1>8
       DEF HostDamaged, writePacket, Main!OnData, Main!writePacket, Main!Ended
<1>9. ASSUME HostRetx
      PROVE  Main!OnData(d)
    BY <1>3, <1>4, <1>5, <1>6, <1>9
       DEF HostRetx, writePacket, Main!OnData, Main!writePacket, Main!Ended
<1>10. ASSUME HostAck
      PROVE  Main!OnData(d)
    BY <1>3, <1>4, <1>5, <1>6, <1>10
       DEF HostAck, Main!OnData, Main!WriteNothing, Main!Ended
<1>11. ASSUME HostQueue
      PROVE  Main!OnData(d)
    BY <1>3, <1>4, <1>5, <1>7, <1>11
       DEF HostQueue, writePacket, Main!OnData, Main!writePacket, Main!Ended
<1> QED BY <1>2, <1>8, <1>9, <1>10, <1>11 DEF OnPacket, d

-----------------------------------------------------------------------------
\* What is in the buffer and what has not been read are always the line from the
\* first packet not taken on: no read loses, repeats or reorders a byte.
THEOREM Invariance == HostSpec => []HostInv
<1>1. (\E list \in Replies : InitHost(list)) => HostInv
    BY Initially
<1>2. HostInv /\ [HostNext]_hostVars => HostInv'
    <2>1. ASSUME HostInv, OnPacket
          PROVE  HostInv'
        BY <2>1, PacketKeeps
    <2>2. ASSUME HostInv, NEW m \in Reads, OnRead(m)
          PROVE  HostInv'
        BY <2>2, ReadKeeps
    <2>3. ASSUME HostInv, UNCHANGED hostVars
          PROVE  HostInv'
        BY <2>3 DEF hostVars, HostInv, HostTypeOK, Rejoined, OnTheLine, retx, ack
    <2> QED BY <2>1, <2>2, <2>3 DEF HostNext
<1> QED BY <1>1, <1>2, PTL DEF HostSpec

\* The handler of the 'data' event does with every packet, in the order the
\* device sent them, what Updater says, for every line and every way the port
\* may cut it into reads.
THEOREM HandlerSteps == HostSpec => OnDataSteps
<1> DEFINE Step == taken' = taken + 1 /\ Main!OnData(replies[taken'].name)
<1>1. HostInv /\ [HostNext]_hostVars => [Step]_<<taken, Names, lastPacket>>
    <2>1. ASSUME HostInv, OnPacket
          PROVE  Step
        BY <2>1, PacketHandled
    <2>2. ASSUME NEW m \in Reads, OnRead(m)
          PROVE  UNCHANGED <<taken, Names, lastPacket>>
        BY <2>2 DEF OnRead, Names, ReplyName
    <2>3. ASSUME UNCHANGED hostVars
          PROVE  UNCHANGED <<taken, Names, lastPacket>>
        BY <2>3 DEF hostVars, Names, ReplyName
    <2> HIDE DEF Step
    <2> QED BY <2>1, <2>2, <2>3 DEF HostNext
<1>2. HostSpec => [][Step]_<<taken, Names, lastPacket>>
    BY <1>1, Invariance, PTL DEF HostSpec
<1> QED BY <1>2 DEF OnDataSteps
=============================================================================
