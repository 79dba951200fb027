----------------------- MODULE UartFraming_proofs -----------------------
(* Proofs about UartFraming: for any messages, any noise, any chunks, any  *)
(* number of frames and of damaged bytes.                                  *)
EXTENDS UartFraming, RecursionLemmas

\* What the type of crc16_ccitt says: it returns a u16.
AnyU16 == {n \in Nat : n <= 65535}
CrcIsU16 == \A data \in Seq(Byte) : Crc(data) \in AnyU16

---------------------------------------------------------------------------
(* Sequences *)

\* What one read takes from the line and what it leaves are the line.
LEMMA Cut ==
    ASSUME NEW S, NEW q \in Seq(S), NEW n \in 0 .. Len(q)
    PROVE  /\ SubSeq(q, 1, n) \in Seq(S) /\ Len(SubSeq(q, 1, n)) = n
           /\ SubSeq(q, n + 1, Len(q)) \in Seq(S)
           /\ Len(SubSeq(q, n + 1, Len(q))) = Len(q) - n
           /\ \A i \in 1 .. n : SubSeq(q, 1, n)[i] = q[i]
           /\ \A i \in 1 .. Len(q) - n : SubSeq(q, n + 1, Len(q))[i] = q[n + i]
  BY SMT

LEMMA SameSeq ==
    ASSUME NEW S, NEW q \in Seq(S), NEW r \in Seq(S), Len(q) = Len(r),
           \A i \in 1 .. Len(q) : q[i] = r[i]
    PROVE  q = r
  BY SMT

LEMMA Joined ==
    ASSUME NEW S, NEW q \in Seq(S), NEW r \in Seq(S)
    PROVE  /\ q \o r \in Seq(S) /\ Len(q \o r) = Len(q) + Len(r)
           /\ \A i \in 1 .. Len(q) : (q \o r)[i] = q[i]
           /\ \A i \in 1 .. Len(r) : (q \o r)[Len(q) + i] = r[i]
  BY SMT

LEMMA JoinedTwice ==
    ASSUME NEW S, NEW q \in Seq(S), NEW r \in Seq(S), NEW u \in Seq(S)
    PROVE  (q \o r) \o u = q \o (r \o u)
  BY SMT

LEMMA Appended ==
    ASSUME NEW S, NEW q \in Seq(S), NEW e \in S
    PROVE  /\ Append(q, e) \in Seq(S) /\ Len(Append(q, e)) = Len(q) + 1
           /\ \A i \in 1 .. Len(q) : Append(q, e)[i] = q[i]
           /\ Append(q, e)[Len(q) + 1] = e
  BY SMT

\* What the line may do to the bytes it carries.
LEMMA Removed ==
    ASSUME NEW S, NEW q \in Seq(S), NEW k \in 1 .. Len(q)
    PROVE  /\ RemoveAt(q, k) \in Seq(S) /\ Len(RemoveAt(q, k)) = Len(q) - 1
           /\ \A i \in k .. Len(q) - 1 : RemoveAt(q, k)[i] = q[i + 1]
  <1>. DEFINE a == SubSeq(q, 1, k - 1)
              b == SubSeq(q, k + 1, Len(q))
  <1>1. /\ a \in Seq(S) /\ Len(a) = k - 1
        /\ b \in Seq(S) /\ Len(b) = Len(q) - k
        /\ \A i \in 1 .. Len(q) - k : b[i] = q[k + i]
    BY SMT
  <1>. HIDE DEF a, b
  <1>2. /\ a \o b \in Seq(S) /\ Len(a \o b) = Len(a) + Len(b)
        /\ \A i \in 1 .. Len(b) : (a \o b)[Len(a) + i] = b[i]
    <2>1. a \in Seq(S) /\ b \in Seq(S)
      BY <1>1
    <2>. QED  BY <2>1, Joined
  <1>3. \A i \in k .. Len(q) - 1 : (a \o b)[i] = q[i + 1]
    <2>. TAKE i \in k .. Len(q) - 1
    <2>1. /\ i - (k - 1) \in 1 .. Len(q) - k /\ k + (i - (k - 1)) = i + 1
          /\ (k - 1) + (i - (k - 1)) = i
      OBVIOUS
    <2>2. (a \o b)[(k - 1) + (i - (k - 1))] = b[i - (k - 1)]
      BY <1>1, <1>2, <2>1
    <2>. QED  BY <1>1, <2>1, <2>2
  <1>4. Len(a \o b) = Len(q) - 1
    BY <1>1, <1>2
  <1>. QED  BY <1>2, <1>3, <1>4 DEF a, b, RemoveAt

LEMMA Replaced ==
    ASSUME NEW S, NEW q \in Seq(S), NEW k \in 1 .. Len(q), NEW e \in S
    PROVE  /\ ReplaceAt(q, k, e) \in Seq(S) /\ Len(ReplaceAt(q, k, e)) = Len(q)
           /\ \A i \in k + 1 .. Len(q) : ReplaceAt(q, k, e)[i] = q[i]
  BY SMT DEF ReplaceAt

LEMMA Inserted ==
    ASSUME NEW S, NEW q \in Seq(S), NEW k \in 1 .. Len(q), NEW e \in S
    PROVE  /\ InsertAt(q, k, e) \in Seq(S) /\ Len(InsertAt(q, k, e)) = Len(q) + 1
           /\ \A i \in k + 1 .. Len(q) + 1 : InsertAt(q, k, e)[i] = q[i - 1]
  <1>. DEFINE a == SubSeq(q, 1, k - 1)
              b == SubSeq(q, k, Len(q))
  <1>1. /\ a \in Seq(S) /\ Len(a) = k - 1
        /\ b \in Seq(S) /\ Len(b) = Len(q) - k + 1
        /\ \A i \in 1 .. Len(q) - k + 1 : b[i] = q[k + i - 1]
    BY SMT
  <1>. HIDE DEF a, b
  <1>2. (a \o <<e>>) \in Seq(S) /\ Len(a \o <<e>>) = k
    BY <1>1, SMT
  <1>3. /\ (a \o <<e>>) \o b \in Seq(S)
        /\ Len((a \o <<e>>) \o b) = Len(q) + 1
        /\ \A i \in 1 .. Len(b) : ((a \o <<e>>) \o b)[k + i] = b[i]
    <2>. DEFINE c == a \o <<e>>
    <2>. HIDE DEF c
    <2>1. c \in Seq(S) /\ Len(c) = k
      BY <1>2 DEF c
    <2>2. c \o b \in Seq(S) /\ Len(c \o b) = Len(c) + Len(b)
          /\ \A i \in 1 .. Len(b) : (c \o b)[Len(c) + i] = b[i]
      <3>1. b \in Seq(S) /\ c \in Seq(S)
        BY <1>1, <2>1
      <3>. QED  BY <3>1, Joined
    <2>3. Len(c \o b) = Len(q) + 1 /\ \A i \in 1 .. Len(b) : (c \o b)[k + i] = b[i]
      BY <1>1, <2>1, <2>2
    <2>. QED  BY <2>2, <2>3 DEF c
  <1>4. \A i \in k + 1 .. Len(q) + 1 : ((a \o <<e>>) \o b)[i] = q[i - 1]
    <2>. TAKE i \in k + 1 .. Len(q) + 1
    <2>1. i - k \in 1 .. Len(b) /\ k + (i - k) = i /\ k + (i - k) - 1 = i - 1
      BY <1>1
    <2>. QED  BY <1>1, <1>3, <2>1
  <1>. QED  BY <1>3, <1>4 DEF a, b, InsertAt

---------------------------------------------------------------------------
(* Bytes and frames *)

LEMMA TwoBytes ==
    ASSUME NEW n \in Nat, n <= 65535
    PROVE  Lo(n) \in Byte /\ Hi(n) \in Byte /\ U16(Lo(n), Hi(n)) = n
  BY SMT DEF Lo, Hi, U16, Byte

\* A frame of the master, as the parser sees it.
LEMMA Encoded ==
    ASSUME CrcIsU16, NEW m \in Messages
    PROVE  /\ Encode(m) \in Seq(Byte)
           /\ Len(Encode(m)) = MIN_FRAME_SIZE + Len(m.payload)
           /\ Encode(m)[1] = SOF
           /\ ClaimedPayload(Encode(m), 1) = Len(m.payload)
           /\ Len(m.payload) \in 0 .. MaxPayload
           /\ Valid(Encode(m))
  <1>. DEFINE n == Len(m.payload)
              head == <<SOF, Lo(n), Hi(n), m.cmd, m.parameter>>
              body == head \o m.payload
              crc == Crc(body)
              tail == <<Lo(crc), Hi(crc)>>
              f == body \o tail
  <1>0. Encode(m) = f
    BY DEF Encode
  <1>1. n \in 0 .. MaxPayload /\ n \in Nat /\ n <= 65535 /\ m.payload \in Seq(Byte)
    <2>1. m.payload \in Seq(Byte) /\ n <= MaxPayload
      BY MessagesAssumption
    <2>2. n \in Nat
      BY <2>1
    <2>. HIDE DEF n
    <2>. QED  BY <2>1, <2>2, MaxPayloadAssumption
  <1>. HIDE DEF n
  <1>2. Lo(n) \in Byte /\ Hi(n) \in Byte /\ U16(Lo(n), Hi(n)) = n
    BY <1>1, TwoBytes
  <1>3. /\ head \in Seq(Byte) /\ Len(head) = 5
        /\ head[1] = SOF /\ head[2] = Lo(n) /\ head[3] = Hi(n)
    <2>1. SOF \in Byte /\ m.cmd \in Byte /\ m.parameter \in Byte
      BY MessagesAssumption DEF SOF, Byte
    <2>. HIDE DEF n
    <2>. QED  BY <1>2, <2>1
  <1>. HIDE DEF head
  <1>4. /\ body \in Seq(Byte) /\ Len(body) = 5 + n
        /\ body[1] = SOF /\ body[2] = Lo(n) /\ body[3] = Hi(n)
    <2>1. /\ body \in Seq(Byte) /\ Len(body) = Len(head) + n
          /\ \A i \in 1 .. Len(head) : body[i] = head[i]
      <3>. DEFINE pl == m.payload
      <3>1. head \in Seq(Byte) /\ pl \in Seq(Byte)
        BY <1>1, <1>3
      <3>. HIDE DEF pl
      <3>2. /\ head \o pl \in Seq(Byte) /\ Len(head \o pl) = Len(head) + Len(pl)
            /\ \A i \in 1 .. Len(head) : (head \o pl)[i] = head[i]
        BY <3>1, Joined
      <3>. QED  BY <3>2 DEF n, pl
    <2>. HIDE DEF body
    <2>2. body[1] = head[1] /\ body[2] = head[2] /\ body[3] = head[3]
      BY <1>3, <2>1
    <2>. QED  BY <1>3, <2>1, <2>2
  <1>. HIDE DEF body
  <1>5. crc \in Nat /\ crc <= 65535
    <2>1. crc \in AnyU16
      BY <1>4, Zenon DEF CrcIsU16
    <2>. HIDE DEF crc
    <2>. QED  BY <2>1, SMT DEF AnyU16
  <1>6. Lo(crc) \in Byte /\ Hi(crc) \in Byte /\ U16(Lo(crc), Hi(crc)) = crc
    BY <1>5, TwoBytes
  <1>. HIDE DEF crc
  <1>7. tail \in Seq(Byte) /\ Len(tail) = 2 /\ tail[1] = Lo(crc) /\ tail[2] = Hi(crc)
    BY <1>6
  <1>. HIDE DEF tail
  <1>8. /\ f \in Seq(Byte) /\ Len(f) = 7 + n
        /\ f[1] = SOF /\ f[2] = Lo(n) /\ f[3] = Hi(n)
        /\ f[6 + n] = Lo(crc) /\ f[7 + n] = Hi(crc)
        /\ \A i \in 1 .. 5 + n : f[i] = body[i]
    <2>1. /\ f \in Seq(Byte) /\ Len(f) = 7 + n
          /\ \A i \in 1 .. 5 + n : f[i] = body[i]
          /\ f[(5 + n) + 1] = tail[1] /\ f[(5 + n) + 2] = tail[2]
      <3>1. body \in Seq(Byte) /\ tail \in Seq(Byte)
        BY <1>4, <1>7
      <3>2. /\ f \in Seq(Byte) /\ Len(f) = Len(body) + Len(tail)
            /\ \A i \in 1 .. Len(body) : f[i] = body[i]
            /\ \A i \in 1 .. Len(tail) : f[Len(body) + i] = tail[i]
        BY <3>1, Joined
      <3>. HIDE DEF f
      <3>. QED  BY <1>1, <1>4, <1>7, <3>2
    <2>. HIDE DEF f
    <2>3. (5 + n) + 1 = 6 + n /\ (5 + n) + 2 = 7 + n /\ {1, 2, 3} \subseteq 1 .. 5 + n
      BY <1>1
    <2>4. f[1] = body[1] /\ f[2] = body[2] /\ f[3] = body[3]
      BY <2>1, <2>3
    <2>. QED  BY <1>4, <1>7, <2>1, <2>3, <2>4
  <1>. HIDE DEF f, n
  <1>9. ClaimedPayload(f, 1) = n
    BY <1>2, <1>8 DEF ClaimedPayload
  <1>10. SubSeq(f, 1, 5 + n) = body
    <2>1. SubSeq(f, 1, 5 + n) \in Seq(Byte) /\ Len(SubSeq(f, 1, 5 + n)) = 5 + n
          /\ \A i \in 1 .. 5 + n : SubSeq(f, 1, 5 + n)[i] = f[i]
      <3>1. 5 + n \in 0 .. Len(f)
        BY <1>1, <1>8
      <3>. QED  BY <1>8, <3>1, Cut
    <2>. QED  BY <1>4, <1>8, <2>1, SameSeq
  <1>11. Valid(f)
    <2>1. Len(f) >= MIN_FRAME_SIZE /\ LengthAllowed(ClaimedPayload(f, 1))
          /\ Len(f) = ClaimedSize(f, 1)
      BY <1>1, <1>8, <1>9 DEF MIN_FRAME_SIZE, LengthAllowed, ClaimedSize
    <2>2. Len(f) - 1 = 6 + n /\ Len(f) - 2 = 5 + n
      BY <1>1, <1>8
    <2>3. U16(f[6 + n], f[7 + n]) = Crc(SubSeq(f, 1, 5 + n))
      BY <1>6, <1>8, <1>10 DEF crc
    <2>. QED  BY <1>8, <2>1, <2>2, <2>3 DEF Valid
  <1>. QED  BY <1>0, <1>1, <1>8, <1>9, <1>11 DEF n, MIN_FRAME_SIZE

\* Noise ends at the first SOF.
LEMMA NoiseEnds ==
    ASSUME NEW buf \in Seq(Byte)
    PROVE  /\ Noise(buf) \in 0 .. Len(buf)
           /\ Noise(buf) < Len(buf) => buf[Noise(buf) + 1] = SOF
           /\ \A i \in 1 .. Noise(buf) : buf[i] # SOF
  <1>. DEFINE I == {i \in 1 .. Len(buf) : buf[i] = SOF}
  <1>0. Len(buf) \in Nat
    OBVIOUS
  <1>1. Noise(buf) = IF SelectInSeq(buf, LAMBDA b : b = SOF) = 0 THEN Len(buf)
                     ELSE SelectInSeq(buf, LAMBDA b : b = SOF) - 1
    BY DEF Noise
  <1>2. SelectInSeq(buf, LAMBDA b : b = SOF) = IF I # {} THEN Min(I) ELSE 0
    BY DEF SelectInSeq
  <1>3. CASE I = {}
    <2>1. Noise(buf) = Len(buf)
      BY <1>1, <1>2, <1>3
    <2>. QED  BY <1>0, <1>3, <2>1
  <1>4. CASE I # {}
    <2>1. I \in SUBSET Nat
      OBVIOUS
    <2>2. \E x \in I : \A y \in I : x <= y
      BY <1>4, <2>1, LeastNat
    <2>3. Min(I) \in I /\ \A y \in I : Min(I) <= y
      <3>. HIDE DEF I
      <3>. QED  BY <2>2 DEF Min
    <2>4. Noise(buf) = Min(I) - 1
      BY <1>1, <1>2, <1>4, <2>3
    <2>5. /\ Min(I) \in 1 .. Len(buf) /\ buf[Min(I)] = SOF
          /\ \A y \in 1 .. Len(buf) : buf[y] = SOF => Min(I) <= y
      BY <2>3
    <2>. HIDE DEF I
    <2>6. PICK j \in 1 .. Len(buf) : /\ j = Min(I) /\ buf[j] = SOF
                                    /\ \A y \in 1 .. Len(buf) : buf[y] = SOF => j <= y
      BY <2>5
    <2>7. Noise(buf) = j - 1
      BY <2>4, <2>6
    <2>. QED  BY <1>0, <2>6, <2>7
  <1>. QED  BY <1>3, <1>4

LEMMA AtSofIs ==
    ASSUME NEW buf \in Seq(Byte)
    PROVE  AtSof(buf) <=> (Len(buf) > 0 => buf[1] = SOF)
  BY NoiseEnds DEF AtSof

---------------------------------------------------------------------------
(* Type correctness *)

LEMMA TypeInit == Init => TypeOK
  <1>. SUFFICES ASSUME Init PROVE TypeOK
    OBVIOUS
  <1>1. <<>> \in Seq(Byte) /\ <<>> \in Seq(Seq(Byte)) /\ Len(<<>>) = 0
    OBVIOUS
  <1>2. AtSof(<<>>)
    <2>. DEFINE e == <<>>
    <2>1. e \in Seq(Byte) /\ ~ (Len(e) > 0)
      BY <1>1
    <2>. HIDE DEF e
    <2>2. AtSof(e)
      <3>1. e \in Seq(Byte)
        BY <2>1
      <3>2. AtSof(e) <=> (Len(e) > 0 => e[1] = SOF)
        BY <3>1, AtSofIs, Zenon
      <3>. QED  BY <2>1, <3>2
    <2>. QED  BY <2>2 DEF e
  <1>3. Unfinished(<<>>)
    BY <1>1, <1>2 DEF Unfinished, MIN_FRAME_SIZE
  <1>. QED  BY <1>1, <1>3, BoundsAssumption DEF Init, TypeOK

\* How long the line is after byte k of it was damaged, and that what follows the
\* place moves with it.
LEMMA DamageMoves ==
    ASSUME TypeOK, NEW k \in 1 .. Len(wire), LineDamages(k)
    PROVE  /\ wire' \in Seq(Byte)
           /\ Len(wire') - Len(wire) \in {-1, 0, 1}
           /\ \A i \in 1 .. Len(wire) : i + (Len(wire') - Len(wire)) > k =>
                /\ i + (Len(wire') - Len(wire)) \in 1 .. Len(wire')
                /\ wire'[i + (Len(wire') - Len(wire))] = wire[i]
  <1>0. wire \in Seq(Byte) /\ Len(wire) \in Nat
    BY DEF TypeOK
  <1>1. CASE wire' = RemoveAt(wire, k)
    <2>1. /\ wire' \in Seq(Byte) /\ Len(wire') = Len(wire) - 1
          /\ \A i \in k .. Len(wire) - 1 : wire'[i] = wire[i + 1]
      BY <1>0, <1>1, Removed
    <2>2. \A i \in 1 .. Len(wire) : i - 1 > k => wire'[i - 1] = wire[i]
      BY <1>0, <2>1
    <2>. QED  BY <1>0, <2>1, <2>2
  <1>2. ASSUME NEW b \in NoiseBytes, wire' = ReplaceAt(wire, k, b)
        PROVE  wire' \in Seq(Byte) /\ Len(wire') = Len(wire)
               /\ \A i \in k + 1 .. Len(wire) : wire'[i] = wire[i]
    BY <1>0, <1>2, Replaced, NoiseAssumption
  <1>3. ASSUME NEW b \in NoiseBytes, wire' = InsertAt(wire, k, b)
        PROVE  wire' \in Seq(Byte) /\ Len(wire') = Len(wire) + 1
               /\ \A i \in k .. Len(wire) : wire'[i + 1] = wire[i]
    <2>1. /\ wire' \in Seq(Byte) /\ Len(wire') = Len(wire) + 1
          /\ \A i \in k + 1 .. Len(wire) + 1 : wire'[i] = wire[i - 1]
      BY <1>0, <1>3, Inserted, NoiseAssumption
    <2>2. \A i \in k .. Len(wire) : i + 1 \in k + 1 .. Len(wire) + 1 /\ i + 1 - 1 = i
      BY <1>0
    <2>. QED  BY <2>1, <2>2
  <1>4. CASE \E b \in NoiseBytes \ {wire[k]} : wire' = ReplaceAt(wire, k, b)
    BY <1>0, <1>2, <1>4
  <1>5. CASE \E b \in NoiseBytes : wire' = InsertAt(wire, k, b)
    BY <1>0, <1>3, <1>5
  <1>. QED  BY <1>1, <1>4, <1>5 DEF LineDamages

\* What a step of the parser leaves of the buffer.
LEMMA Drained ==
    ASSUME rxBuf \in Seq(Byte), NEW n \in 0 .. Len(rxBuf), Drain(n)
    PROVE  /\ rxBuf' \in Seq(Byte) /\ Len(rxBuf') = Len(rxBuf) - n
           /\ \A i \in 1 .. Len(rxBuf) - n : rxBuf'[i] = rxBuf[n + i]
  BY Cut DEF Drain

\* The frame that DeliverFrame or DropCandidate cuts out.
LEMMA CandidateType ==
    ASSUME rxBuf \in Seq(Byte), CandidateRead
    PROVE  /\ ClaimedSize(rxBuf, 1) \in MIN_FRAME_SIZE .. MIN_FRAME_SIZE + MaxPayload
           /\ ClaimedSize(rxBuf, 1) <= Len(rxBuf)
           /\ Candidate \in Seq(Byte) /\ Len(Candidate) = ClaimedSize(rxBuf, 1)
           /\ \A i \in 1 .. Len(Candidate) : Candidate[i] = rxBuf[i]
  <1>1. Len(rxBuf) >= 7 /\ ClaimedPayload(rxBuf, 1) <= MaxPayload
        /\ Len(rxBuf) >= ClaimedSize(rxBuf, 1)
    BY DEF CandidateRead, HeaderRead, MIN_FRAME_SIZE, LengthAllowed
  <1>2. rxBuf[2] \in Byte /\ rxBuf[3] \in Byte
    BY <1>1
  <1>3. ClaimedPayload(rxBuf, 1) \in Nat
    <2>1. 1 + 1 = 2 /\ 1 + 2 = 3
      OBVIOUS
    <2>2. ClaimedPayload(rxBuf, 1) = U16(rxBuf[2], rxBuf[3])
      BY <2>1 DEF ClaimedPayload
    <2>3. \A x, y \in Byte : U16(x, y) \in Nat
      BY SMTT(30) DEF Byte, U16
    <2>. QED  BY <1>2, <2>2, <2>3, Zenon
  <1>4. ClaimedSize(rxBuf, 1) = 7 + ClaimedPayload(rxBuf, 1)
    BY DEF ClaimedSize, MIN_FRAME_SIZE
  <1>5. ClaimedSize(rxBuf, 1) \in 0 .. Len(rxBuf)
    BY <1>1, <1>3, <1>4
  <1>6. /\ Candidate \in Seq(Byte) /\ Len(Candidate) = ClaimedSize(rxBuf, 1)
        /\ \A i \in 1 .. ClaimedSize(rxBuf, 1) : Candidate[i] = rxBuf[i]
    BY <1>5, Cut DEF Candidate
  <1>7. ClaimedSize(rxBuf, 1) \in 7 .. 7 + MaxPayload
    BY <1>1, <1>3, <1>4, MaxPayloadAssumption
  <1>. QED  BY <1>1, <1>6, <1>7 DEF MIN_FRAME_SIZE

LEMMA TypeStep == CrcIsU16 /\ TypeOK /\ [Next]_vars => TypeOK'
  <1>. SUFFICES ASSUME CrcIsU16, TypeOK, [Next]_vars PROVE TypeOK'
    OBVIOUS
  <1>0. /\ Len(wire) \in Nat /\ Len(received) \in Nat /\ Len(rxBuf) \in Nat
        /\ rxBuf \in Seq(Byte) /\ wire \in Seq(Byte) /\ received \in Seq(Byte)
        /\ lastDamage \in 0 .. Len(received) + Len(wire) + 1
    BY DEF TypeOK
  <1>1. ASSUME NEW m \in Messages, MasterSends(m) PROVE TypeOK'
    <2>1. sent' = Append(sent, Encode(m)) /\ wire' = wire \o Encode(m)
      BY <1>1 DEF MasterSends
    <2>2. Encode(m) \in Seq(Byte) /\ Len(Encode(m)) \in Nat
      BY Encoded
    <2>3. sent' \in Seq(Seq(Byte))
      BY <2>1, <2>2, Appended DEF TypeOK
    <2>4. wire' \in Seq(Byte) /\ Len(wire') = Len(wire) + Len(Encode(m))
      BY <1>0, <2>1, <2>2, Joined
    <2>5. lastDamage' \in 0 .. Len(received') + Len(wire') + 1
      BY <1>0, <1>1, <2>2, <2>4 DEF MasterSends
    <2>. QED  BY <1>1, <2>3, <2>4, <2>5 DEF MasterSends, TypeOK
  <1>2. ASSUME NEW k \in 1 .. Len(wire), LineDamages(k) PROVE TypeOK'
    <2>1. wire' \in Seq(Byte) /\ Len(wire') - Len(wire) \in {-1, 0, 1}
      BY <1>2, DamageMoves
    <2>2. Len(wire') \in Nat
      BY <2>1
    <2>3. /\ received' = received
          /\ lastDamage' = IF Len(received) + k > lastDamage + Len(wire') - Len(wire)
                           THEN Len(received) + k ELSE lastDamage + Len(wire') - Len(wire)
      BY <1>2 DEF LineDamages
    <2>4. lastDamage' \in 0 .. Len(received') + Len(wire') + 1
      BY <1>0, <2>1, <2>2, <2>3
    <2>5. damages' \in 0 .. MaxDamage
      BY <1>2, BoundsAssumption DEF LineDamages, TypeOK
    <2>. QED  BY <1>2, <2>1, <2>4, <2>5 DEF LineDamages, TypeOK
  <1>3. ASSUME NEW n \in 1 .. Len(wire), ReadChunk(n) PROVE TypeOK'
    <2>. DEFINE c == SubSeq(wire, 1, n)
    <2>1. c \in Seq(Byte) /\ Len(c) = n /\ wire' \in Seq(Byte) /\ Len(wire') = Len(wire) - n
      BY <1>0, <1>3, Cut DEF ReadChunk
    <2>2. rxBuf' = rxBuf \o c /\ received' = received \o c
      BY <1>3 DEF ReadChunk
    <2>. HIDE DEF c
    <2>3. rxBuf' \in Seq(Byte) /\ received' \in Seq(Byte) /\ Len(received') = Len(received) + n
      BY <1>0, <2>1, <2>2, Joined
    <2>4. lastDamage' \in 0 .. Len(received') + Len(wire') + 1
      <3>1. lastDamage' = lastDamage
        BY <1>3 DEF ReadChunk
      <3>. QED  BY <1>0, <2>1, <2>3, <3>1
    <2>. QED  BY <1>3, <2>1, <2>3, <2>4 DEF ReadChunk, TypeOK
  <1>4. CASE SkipNoise
    <2>1. rxBuf' \in Seq(Byte)
      BY <1>0, <1>4, NoiseEnds, Drained DEF SkipNoise
    <2>. QED  BY <1>4, <2>1 DEF SkipNoise, TypeOK
  <1>5. CASE AwaitBytes
    <2>1. Unfinished(rxBuf)
      BY <1>0, <1>5 DEF AwaitBytes, HeaderRead, LengthAllowed, Unfinished, MIN_FRAME_SIZE
    <2>. QED  BY <1>5, <2>1 DEF AwaitBytes, TypeOK
  <1>6. CASE RejectLength
    <2>1. 1 \in 0 .. Len(rxBuf)
      BY <1>0, <1>6 DEF RejectLength, HeaderRead, MIN_FRAME_SIZE
    <2>2. rxBuf' \in Seq(Byte)
      BY <1>0, <1>6, <2>1, Drained DEF RejectLength
    <2>. QED  BY <1>6, <2>2 DEF RejectLength, HeaderRead, TypeOK
  <1>7. ASSUME CandidateRead, Drain(Len(Candidate))
        PROVE  rxBuf' \in Seq(Byte) /\ Candidate \in Seq(Byte) /\ pc = "scan"
    <2>1. Len(Candidate) \in 0 .. Len(rxBuf) /\ Candidate \in Seq(Byte)
      BY <1>0, <1>7, CandidateType DEF MIN_FRAME_SIZE
    <2>. QED  BY <1>0, <1>7, <2>1, Drained DEF CandidateRead, HeaderRead
  <1>8. CASE DeliverFrame
    <2>1. rxBuf' \in Seq(Byte) /\ Candidate \in Seq(Byte) /\ pc = "scan"
      BY <1>7, <1>8 DEF DeliverFrame
    <2>2. delivered' \in Seq(Seq(Byte))
      BY <1>8, <2>1, Appended DEF DeliverFrame, TypeOK
    <2>. QED  BY <1>8, <2>1, <2>2 DEF DeliverFrame, TypeOK
  <1>9. CASE DropCandidate
    BY <1>7, <1>9 DEF DropCandidate, TypeOK
  <1>10. CASE UNCHANGED vars
    BY <1>10 DEF vars, TypeOK
  <1>. QED  BY <1>1, <1>2, <1>3, <1>4, <1>5, <1>6, <1>8, <1>9, <1>10 DEF Next

\* Whatever the line does, the buffers hold bytes, the damage is remembered at a
\* place of the stream, and a thread that waits for bytes holds no frame that is
\* complete: pop_next_valid_frame used up everything it could.
THEOREM UartTypeCorrect == CrcIsU16 => (Spec => []TypeOK)
  <1>. SUFFICES ASSUME CrcIsU16 PROVE Spec => []TypeOK
    OBVIOUS
  <1>1. TypeOK /\ [Next]_vars => TypeOK'
    BY TypeStep
  <1>. QED  BY <1>1, TypeInit, PTL DEF Spec

---------------------------------------------------------------------------
(* The reference parser *)

Parsed == [frames : Seq(Seq(Byte)), rest : Nat]

\* What ReferenceParse says at p, if it says P further on.
ParseTurn(s, p, P) ==
    IF Len(s) - p + 1 = 0 THEN [frames |-> <<>>, rest |-> p]
    ELSE IF s[p] # SOF THEN P[p + 1]
    ELSE IF Len(s) - p + 1 < MIN_FRAME_SIZE THEN [frames |-> <<>>, rest |-> p]
    ELSE IF ClaimedPayload(s, p) > MaxPayload THEN P[p + 1]
    ELSE IF Len(s) - p + 1 < ClaimedSize(s, p) THEN [frames |-> <<>>, rest |-> p]
    ELSE [frames |-> IF Valid(FrameAt(s, p))
                     THEN <<FrameAt(s, p)>> \o P[p + Len(FrameAt(s, p))].frames
                     ELSE P[p + Len(FrameAt(s, p))].frames,
          rest |-> P[p + Len(FrameAt(s, p))].rest]

ParseFrom(s) == CHOOSE P : P = [p \in 1 .. Len(s) + 1 |-> ParseTurn(s, p, P)]

LEMMA ReferenceParseIs == \A s : ReferenceParse(s) = ParseFrom(s)[1]
  BY DEF ReferenceParse, ParseFrom, ParseTurn, FrameAt

LEMMA ClaimedType ==
    ASSUME NEW s \in Seq(Byte), NEW p \in 1 .. Len(s), Len(s) - p + 1 >= MIN_FRAME_SIZE
    PROVE  /\ ClaimedPayload(s, p) \in Nat /\ ClaimedSize(s, p) \in Nat
           /\ ClaimedSize(s, p) >= MIN_FRAME_SIZE
           /\ ClaimedSize(s, p) = MIN_FRAME_SIZE + ClaimedPayload(s, p)
  <1>1. s[p + 1] \in Byte /\ s[p + 2] \in Byte
    BY DEF MIN_FRAME_SIZE
  <1>2. \A x, y \in Byte : x + 256 * y \in Nat
    BY DEF Byte
  <1>3. ClaimedPayload(s, p) \in Nat
    BY <1>1, <1>2, Zenon DEF ClaimedPayload, U16
  <1>. QED  BY <1>3 DEF ClaimedSize, MIN_FRAME_SIZE

LEMMA FrameFits ==
    ASSUME NEW s \in Seq(Byte), NEW p \in 1 .. Len(s), Len(s) - p + 1 >= MIN_FRAME_SIZE,
           Len(s) - p + 1 >= ClaimedSize(s, p)
    PROVE  /\ FrameAt(s, p) \in Seq(Byte) /\ Len(FrameAt(s, p)) = ClaimedSize(s, p)
           /\ p + Len(FrameAt(s, p)) \in p + 1 .. Len(s) + 1
  <1>4. ClaimedSize(s, p) \in Nat /\ ClaimedSize(s, p) >= 7
    BY ClaimedType DEF MIN_FRAME_SIZE
  <1>. DEFINE n == p + ClaimedSize(s, p) - 1
  <1>5. n \in p .. Len(s)
    BY <1>4
  <1>. HIDE DEF n
  <1>6. SubSeq(s, p, n) \in Seq(Byte) /\ Len(SubSeq(s, p, n)) = n - p + 1
    BY <1>5
  <1>7. n - p + 1 = ClaimedSize(s, p)
    BY <1>4 DEF n
  <1>8. FrameAt(s, p) = SubSeq(s, p, n)
    BY DEF FrameAt, n
  <1>9. FrameAt(s, p) \in Seq(Byte) /\ Len(FrameAt(s, p)) = ClaimedSize(s, p)
    BY <1>6, <1>7, <1>8
  <1>. QED  BY <1>4, <1>5, <1>9 DEF n, MIN_FRAME_SIZE

\* It looks only further on.
LEMMA TurnLooksAbove ==
    ASSUME NEW s \in Seq(Byte), NEW p \in 1 .. Len(s) + 1, NEW P, NEW Q,
           \A m \in p + 1 .. Len(s) + 1 : P[m] = Q[m]
    PROVE  ParseTurn(s, p, P) = ParseTurn(s, p, Q)
  <1>1. CASE Len(s) - p + 1 = 0
    BY <1>1 DEF ParseTurn
  <1>2. CASE Len(s) - p + 1 # 0
    <2>1. p \in 1 .. Len(s) /\ p + 1 \in p + 1 .. Len(s) + 1
      BY <1>2
    <2>2. P[p + 1] = Q[p + 1]
      BY <2>1
    <2>3. CASE Len(s) - p + 1 < MIN_FRAME_SIZE \/ Len(s) - p + 1 < ClaimedSize(s, p)
      BY <2>2, <2>3 DEF ParseTurn
    <2>4. CASE ~ (Len(s) - p + 1 < MIN_FRAME_SIZE \/ Len(s) - p + 1 < ClaimedSize(s, p))
      <3>0. Len(s) - p + 1 >= MIN_FRAME_SIZE
        BY <2>1, <2>4 DEF MIN_FRAME_SIZE
      <3>1. CASE Len(s) - p + 1 >= ClaimedSize(s, p)
        <4>1. p + Len(FrameAt(s, p)) \in p + 1 .. Len(s) + 1
          BY <2>1, <3>0, <3>1, FrameFits
        <4>2. P[p + Len(FrameAt(s, p))] = Q[p + Len(FrameAt(s, p))]
          BY <4>1
        <4>. QED  BY <2>2, <4>2 DEF ParseTurn
      <3>2. ClaimedSize(s, p) \in Nat
        BY <2>1, <3>0, ClaimedType
      <3>. QED  BY <2>1, <2>4, <3>1, <3>2
    <2>. QED  BY <2>3, <2>4
  <1>. QED  BY <1>1, <1>2

LEMMA TurnType ==
    ASSUME NEW s \in Seq(Byte), NEW p \in 1 .. Len(s) + 1, NEW P,
           \A m \in p + 1 .. Len(s) + 1 : P[m] \in Parsed
    PROVE  ParseTurn(s, p, P) \in Parsed
  <1>0. [frames |-> <<>>, rest |-> p] \in Parsed
    BY DEF Parsed
  <1>1. CASE Len(s) - p + 1 = 0
    BY <1>0, <1>1 DEF ParseTurn
  <1>2. CASE Len(s) - p + 1 # 0
    <2>1. p \in 1 .. Len(s) /\ P[p + 1] \in Parsed
      BY <1>2
    <2>. DEFINE f == FrameAt(s, p)
                after == P[p + Len(f)]
                all == [frames |-> IF Valid(f) THEN <<f>> \o after.frames ELSE after.frames,
                        rest |-> after.rest]
    <2>2. ASSUME Len(s) - p + 1 >= MIN_FRAME_SIZE, Len(s) - p + 1 >= ClaimedSize(s, p)
          PROVE  all \in Parsed
      <3>1. f \in Seq(Byte) /\ p + Len(f) \in p + 1 .. Len(s) + 1
        BY <2>1, <2>2, FrameFits
      <3>2. after \in Parsed
        BY <3>1
      <3>. HIDE DEF f, after
      <3>3. after.frames \in Seq(Seq(Byte)) /\ after.rest \in Nat
        BY <3>2 DEF Parsed
      <3>4. <<f>> \o after.frames \in Seq(Seq(Byte))
        BY <3>1, <3>3
      <3>. QED  BY <3>3, <3>4 DEF Parsed
    <2>3. \/ ParseTurn(s, p, P) = [frames |-> <<>>, rest |-> p]
          \/ ParseTurn(s, p, P) = P[p + 1]
          \/ /\ ~ (Len(s) - p + 1 < MIN_FRAME_SIZE) /\ ~ (Len(s) - p + 1 < ClaimedSize(s, p))
             /\ ParseTurn(s, p, P) = all
      BY DEF ParseTurn
    <2>4. ASSUME ~ (Len(s) - p + 1 < MIN_FRAME_SIZE), ~ (Len(s) - p + 1 < ClaimedSize(s, p))
          PROVE  all \in Parsed
      <3>1. Len(s) - p + 1 >= MIN_FRAME_SIZE
        BY <2>1, <2>4 DEF MIN_FRAME_SIZE
      <3>2. ClaimedSize(s, p) \in Nat
        BY <2>1, <3>1, ClaimedType
      <3>3. Len(s) - p + 1 >= ClaimedSize(s, p)
        BY <2>1, <2>4, <3>2
      <3>. QED  BY <2>2, <3>1, <3>3
    <2>. HIDE DEF all
    <2>. QED  BY <1>0, <2>1, <2>3, <2>4
  <1>. QED  BY <1>1, <1>2

\* ReferenceParse is a function: its recursion ends.
LEMMA ParseUnfolds ==
    ASSUME NEW s \in Seq(Byte)
    PROVE  \A p \in 1 .. Len(s) + 1 :
             /\ ParseFrom(s)[p] = ParseTurn(s, p, ParseFrom(s))
             /\ ParseFrom(s)[p] \in Parsed
  <1>. DEFINE N == Len(s)
              E == [1 .. N + 1 -> Parsed]
              step == [p \in 1 .. N + 1 |-> [P \in E |-> ParseTurn(s, p, P)]]
  <1>1. N \in Nat /\ [frames |-> <<>>, rest |-> 0] \in Parsed
    BY DEF Parsed
  <1>2. \A p \in 1 .. N + 1 : \A P \in E : ParseTurn(s, p, P) \in Parsed
    <2>. TAKE p \in 1 .. N + 1
    <2>. TAKE P \in E
    <2>1. \A m \in p + 1 .. Len(s) + 1 : P[m] \in Parsed
      BY <1>1
    <2>. QED  BY <2>1, TurnType
  <1>3. step \in [1 .. N + 1 -> [E -> Parsed]]
    BY <1>2
  <1>4. \A p \in 1 .. N + 1 : \A P \in E : step[p][P] = ParseTurn(s, p, P)
    OBVIOUS
  <1>. HIDE DEF step
  <1>5. LooksAbove(N, E, step)
    <2>. SUFFICES ASSUME NEW n \in 1 .. N + 1, NEW g \in E, NEW h \in E,
                         \A m \in n + 1 .. N + 1 : g[m] = h[m]
                  PROVE  step[n][g] = step[n][h]
      BY DEF LooksAbove
    <2>1. ParseTurn(s, n, g) = ParseTurn(s, n, h)
      BY TurnLooksAbove
    <2>. QED  BY <1>4, <2>1
  <1>6. SolvableFrom1(N, E, step)
    <2>. HIDE DEF N
    <2>. QED  BY <1>1, <1>3, <1>5, CourseFromEnd, Zenon
  <1>7. PICK f \in E : \A n \in 1 .. N + 1 : f[n] = step[n][f]
    BY <1>6 DEF SolvableFrom1
  <1>8. f = [p \in 1 .. Len(s) + 1 |-> ParseTurn(s, p, f)]
    BY <1>4, <1>7
  <1>9. ParseFrom(s) = [p \in 1 .. Len(s) + 1 |-> ParseTurn(s, p, ParseFrom(s))]
    BY <1>8 DEF ParseFrom
  <1>. DEFINE T == {p \in 1 .. N + 1 : \A m \in p .. N + 1 : ParseFrom(s)[m] \in Parsed}
  <1>10. \A p \in 1 .. N + 1 : ParseFrom(s)[p] = ParseTurn(s, p, ParseFrom(s))
    BY <1>9
  <1>11. ASSUME NEW p \in 1 .. N + 1, \A m \in p + 1 .. N + 1 : ParseFrom(s)[m] \in Parsed
         PROVE  p \in T
    <2>1. ParseFrom(s)[p] \in Parsed
      BY <1>10, <1>11, TurnType
    <2>2. \A m \in p .. N + 1 : m = p \/ m \in p + 1 .. N + 1
      BY <1>1
    <2>. QED  BY <1>11, <2>1, <2>2
  <1>12. N + 1 \in T
    <2>1. N + 1 \in 1 .. N + 1 /\ \A m \in (N + 1) + 1 .. N + 1 : ParseFrom(s)[m] \in Parsed
      BY <1>1
    <2>. QED  BY <1>11, <2>1
  <1>13. \A n \in 1 .. N : n + 1 \in T => n \in T
    BY <1>1, <1>11
  <1>14. 1 .. N + 1 \subseteq T
    <2>. HIDE DEF T, N
    <2>. QED  BY <1>1, <1>12, <1>13, SetInductionFromEnd, Zenon
  <1>. QED  BY <1>10, <1>14

---------------------------------------------------------------------------
(* The parser keeps to the reference *)

\* Where in the stream the buffer starts.
Pos == Len(received) - Len(rxBuf) + 1

\* The buffer is the end of what was read.
BufferIsTail ==
    /\ Len(rxBuf) <= Len(received)
    /\ rxBuf = SubSeq(received, Pos, Len(received))

\* Whatever bytes x are read from now on, the reference parser finds in all bytes
\* what was delivered already, and then what it finds from the start of the buffer.
FoundSoFar(x) ==
    LET P == ParseFrom(received \o x) IN
      P[1] = [frames |-> delivered \o P[Pos].frames, rest |-> P[Pos].rest]
Scanned == \A x \in Seq(Byte) : FoundSoFar(x)

LEMMA TailIs ==
    ASSUME TypeOK, BufferIsTail
    PROVE  /\ Pos \in 1 .. Len(received) + 1 /\ Len(rxBuf) = Len(received) - Pos + 1
           /\ Len(received) \in Nat /\ Len(rxBuf) \in Nat
           /\ \A i \in 1 .. Len(rxBuf) : rxBuf[i] = received[Pos + i - 1]
  <1>1. Len(received) \in Nat /\ Len(rxBuf) \in Nat /\ received \in Seq(Byte)
    BY DEF TypeOK
  <1>2. Pos \in 1 .. Len(received) + 1 /\ Len(rxBuf) = Len(received) - Pos + 1
    BY <1>1 DEF Pos, BufferIsTail
  <1>3. \A i \in 1 .. Len(received) - Pos + 1 :
           SubSeq(received, Pos, Len(received))[i] = received[Pos + i - 1]
    <2>. DEFINE p == Pos
    <2>1. p \in 1 .. Len(received) + 1
      BY <1>2
    <2>. HIDE DEF p
    <2>2. \A i \in 1 .. Len(received) - p + 1 :
             SubSeq(received, p, Len(received))[i] = received[p + i - 1]
      BY <1>1, <2>1
    <2>. QED  BY <2>2 DEF p
  <1>. QED  BY <1>1, <1>2, <1>3 DEF BufferIsTail

\* Converse: a buffer with the bytes from Pos on is the end of what was read.
LEMMA IsTail ==
    ASSUME NEW r \in Seq(Byte), NEW b \in Seq(Byte), Len(b) <= Len(r),
           NEW p, p = Len(r) - Len(b) + 1,
           \A i \in 1 .. Len(b) : b[i] = r[p + i - 1]
    PROVE  b = SubSeq(r, p, Len(r))
  <1>1. p \in 1 .. Len(r) + 1 /\ Len(r) \in Nat /\ Len(b) \in Nat /\ Len(b) = Len(r) - p + 1
    OBVIOUS
  <1>. DEFINE c == SubSeq(r, p, Len(r))
  <1>2. /\ c \in Seq(Byte) /\ Len(c) = Len(r) - p + 1
        /\ \A i \in 1 .. Len(r) - p + 1 : c[i] = r[p + i - 1]
    BY <1>1
  <1>. HIDE DEF c
  <1>3. Len(b) = Len(c) /\ \A i \in 1 .. Len(b) : b[i] = c[i]
    BY <1>1, <1>2
  <1>4. b = c
    BY <1>2, <1>3, SameSeq
  <1>. QED  BY <1>4 DEF c

\* A step that drains n bytes moves the start of the buffer by n.
LEMMA TailMoves ==
    ASSUME TypeOK, BufferIsTail, NEW n \in 0 .. Len(rxBuf), Drain(n), received' = received
    PROVE  BufferIsTail' /\ Pos' = Pos + n
  <1>1. /\ Pos \in 1 .. Len(received) + 1 /\ Len(rxBuf) = Len(received) - Pos + 1
        /\ Len(received) \in Nat /\ Len(rxBuf) \in Nat
        /\ \A i \in 1 .. Len(rxBuf) : rxBuf[i] = received[Pos + i - 1]
    BY TailIs
  <1>2. /\ rxBuf' \in Seq(Byte) /\ Len(rxBuf') = Len(rxBuf) - n
        /\ \A i \in 1 .. Len(rxBuf) - n : rxBuf'[i] = rxBuf[n + i]
    BY Drained DEF TypeOK
  <1>3. Pos' = Len(received) - Len(rxBuf') + 1
    BY DEF Pos
  <1>4. Pos' = Pos + n /\ Len(rxBuf') <= Len(received)
    BY <1>1, <1>2, <1>3
  <1>5. \A i \in 1 .. Len(rxBuf') : rxBuf'[i] = received[Pos' + i - 1]
    <2>. TAKE i \in 1 .. Len(rxBuf')
    <2>1. n + i \in 1 .. Len(rxBuf) /\ Pos + (n + i) - 1 = Pos' + i - 1
      BY <1>1, <1>2, <1>4
    <2>. QED  BY <1>1, <1>2, <2>1
  <1>6. received \in Seq(Byte)
    BY DEF TypeOK
  <1>7. rxBuf' = SubSeq(received, Pos', Len(received))
    BY <1>2, <1>3, <1>4, <1>5, <1>6, IsTail
  <1>. QED  BY <1>4, <1>7 DEF BufferIsTail

\* The buffer inside all bytes of the stream.
LEMMA TailInStream ==
    ASSUME TypeOK, BufferIsTail, NEW x \in Seq(Byte)
    PROVE  /\ received \o x \in Seq(Byte)
           /\ Len(received \o x) = Len(received) + Len(x) /\ Len(x) \in Nat
           /\ \A i \in 1 .. Len(rxBuf) : /\ Pos + i - 1 \in 1 .. Len(received \o x)
                                        /\ (received \o x)[Pos + i - 1] = rxBuf[i]
  <1>1. /\ Pos \in 1 .. Len(received) + 1 /\ Len(rxBuf) = Len(received) - Pos + 1
        /\ Len(received) \in Nat
        /\ \A i \in 1 .. Len(rxBuf) : rxBuf[i] = received[Pos + i - 1]
    BY TailIs
  <1>2. received \in Seq(Byte)
    BY DEF TypeOK
  <1>. DEFINE s == received \o x
  <1>3. /\ s \in Seq(Byte) /\ Len(s) = Len(received) + Len(x)
        /\ \A i \in 1 .. Len(received) : s[i] = received[i]
    BY <1>2, Joined
  <1>4. Len(x) \in Nat
    OBVIOUS
  <1>. HIDE DEF s
  <1>5. \A i \in 1 .. Len(rxBuf) : Pos + i - 1 \in 1 .. Len(s) /\ s[Pos + i - 1] = rxBuf[i]
    BY <1>1, <1>3, <1>4
  <1>. QED  BY <1>3, <1>4, <1>5 DEF s

LEMMA ClaimInStream ==
    ASSUME TypeOK, BufferIsTail, NEW x \in Seq(Byte), Len(rxBuf) >= MIN_FRAME_SIZE
    PROVE  /\ ClaimedPayload(received \o x, Pos) = ClaimedPayload(rxBuf, 1)
           /\ ClaimedSize(received \o x, Pos) = ClaimedSize(rxBuf, 1)
  <1>. DEFINE s == received \o x
  <1>1. \A i \in 1 .. Len(rxBuf) : s[Pos + i - 1] = rxBuf[i]
    BY TailInStream
  <1>2. 2 \in 1 .. Len(rxBuf) /\ 3 \in 1 .. Len(rxBuf) /\ Pos \in Int
    BY TailIs DEF MIN_FRAME_SIZE
  <1>. HIDE DEF s
  <1>3. Pos + 2 - 1 = Pos + 1 /\ Pos + 3 - 1 = Pos + 2 /\ 1 + 1 = 2 /\ 1 + 2 = 3
    BY <1>2
  <1>4. s[Pos + 1] = rxBuf[2] /\ s[Pos + 2] = rxBuf[3]
    BY <1>1, <1>2, <1>3
  <1>5. ClaimedPayload(s, Pos) = ClaimedPayload(rxBuf, 1)
    BY <1>3, <1>4 DEF ClaimedPayload
  <1>. QED  BY <1>5 DEF ClaimedSize, s

LEMMA CandidateInStream ==
    ASSUME TypeOK, BufferIsTail, NEW x \in Seq(Byte), CandidateRead
    PROVE  FrameAt(received \o x, Pos) = Candidate
  <1>. DEFINE s == received \o x
              C == ClaimedSize(rxBuf, 1)
  <1>1. /\ C \in 7 .. 7 + MaxPayload /\ C <= Len(rxBuf)
        /\ Candidate \in Seq(Byte) /\ Len(Candidate) = C
        /\ \A i \in 1 .. Len(Candidate) : Candidate[i] = rxBuf[i]
    BY CandidateType DEF TypeOK, MIN_FRAME_SIZE
  <1>2. /\ s \in Seq(Byte) /\ Pos \in Nat \ {0} /\ Len(rxBuf) \in Nat
        /\ \A i \in 1 .. Len(rxBuf) : Pos + i - 1 \in 1 .. Len(s) /\ s[Pos + i - 1] = rxBuf[i]
    BY TailInStream, TailIs
  <1>3. ClaimedSize(s, Pos) = C
    BY ClaimInStream DEF CandidateRead, HeaderRead
  <1>. DEFINE p == Pos
              n == p + C - 1
              f == SubSeq(s, p, n)
  <1>4. FrameAt(s, Pos) = f
    BY <1>3 DEF FrameAt
  <1>. HIDE DEF s, C
  <1>5. C \in 1 .. Len(rxBuf)
    BY <1>1, <1>2
  <1>6. p \in 1 .. Len(s) /\ n \in 1 .. Len(s) /\ n - p + 1 = C /\ p \in Nat
    BY <1>2, <1>5
  <1>. HIDE DEF p, n
  <1>7. /\ f \in Seq(Byte) /\ Len(f) = n - p + 1
        /\ \A i \in 1 .. n - p + 1 : f[i] = s[p + i - 1]
    <2>1. n - p + 1 \in Nat
      BY <1>5, <1>6, <1>2
    <2>. QED  BY <1>2, <1>6, <2>1
  <1>. HIDE DEF f
  <1>8. \A i \in 1 .. Len(f) : f[i] = Candidate[i]
    <2>. TAKE i \in 1 .. Len(f)
    <2>1. i \in 1 .. n - p + 1 /\ i \in 1 .. Len(Candidate) /\ i \in 1 .. Len(rxBuf)
      BY <1>1, <1>2, <1>6, <1>7, SMTT(30)
    <2>2. s[Pos + i - 1] = rxBuf[i]
      BY <1>2, <2>1
    <2>3. f[i] = s[Pos + i - 1]
      BY <1>7, <2>1 DEF p
    <2>4. Candidate[i] = rxBuf[i]
      BY <1>1, <2>1
    <2>. QED  BY <2>2, <2>3, <2>4
  <1>9. f = Candidate
    BY <1>1, <1>6, <1>7, <1>8, SameSeq
  <1>. QED  BY <1>4, <1>9 DEF s

\* What one turn of the reference parser says at the start of the buffer.
LEMMA TurnAtPos ==
    ASSUME TypeOK, BufferIsTail, NEW x \in Seq(Byte), NEW k \in 0 .. Len(rxBuf) - 1
    PROVE  LET s == received \o x
               P == ParseFrom(s)
           IN  /\ P[Pos + k] = ParseTurn(s, Pos + k, P)
               /\ s[Pos + k] = rxBuf[k + 1]
               /\ Len(s) - (Pos + k) + 1 \in Nat /\ Len(s) - (Pos + k) + 1 >= Len(rxBuf) - k
               /\ Len(s) - (Pos + k) + 1 # 0
  <1>. DEFINE s == received \o x
  <1>1. /\ Pos \in 1 .. Len(received) + 1 /\ Len(rxBuf) = Len(received) - Pos + 1
        /\ Len(received) \in Nat /\ Len(rxBuf) \in Nat
    BY TailIs
  <1>2. /\ s \in Seq(Byte) /\ Len(s) = Len(received) + Len(x) /\ Len(x) \in Nat
        /\ \A i \in 1 .. Len(rxBuf) : s[Pos + i - 1] = rxBuf[i]
    BY TailInStream
  <1>. HIDE DEF s
  <1>3. k + 1 \in 1 .. Len(rxBuf) /\ Pos + (k + 1) - 1 = Pos + k /\ Pos + k \in 1 .. Len(s) + 1
    BY <1>1, <1>2
  <1>4. s[Pos + k] = rxBuf[k + 1]
    BY <1>2, <1>3
  <1>5. ParseFrom(s)[Pos + k] = ParseTurn(s, Pos + k, ParseFrom(s))
    BY <1>2, <1>3, ParseUnfolds
  <1>6. /\ Len(s) - (Pos + k) + 1 \in Nat /\ Len(s) - (Pos + k) + 1 >= Len(rxBuf) - k
        /\ Len(s) - (Pos + k) + 1 # 0
    BY <1>1, <1>2
  <1>. QED  BY <1>4, <1>5, <1>6 DEF s

LEMMA NoiseIsSkipped ==
    ASSUME TypeOK, BufferIsTail, NEW x \in Seq(Byte)
    PROVE  ParseFrom(received \o x)[Pos + Noise(rxBuf)] = ParseFrom(received \o x)[Pos]
  <1>. DEFINE s == received \o x
              P == ParseFrom(s)
              n == Noise(rxBuf)
              T == {k \in 0 .. n : P[Pos + k] = P[Pos]}
  <1>1. n \in 0 .. Len(rxBuf) /\ Len(rxBuf) \in Nat /\ Pos \in Nat
        /\ \A i \in 1 .. n : rxBuf[i] # SOF
    BY NoiseEnds, TailIs, SMTT(30) DEF TypeOK
  <1>2. 0 \in T
    <2>1. Pos + 0 = Pos
      BY <1>1
    <2>. QED  BY <1>1, <2>1
  <1>3. ASSUME NEW k \in 0 .. n - 1, k \in T PROVE k + 1 \in T
    <2>1. /\ P[Pos + k] = ParseTurn(s, Pos + k, P) /\ s[Pos + k] = rxBuf[k + 1]
          /\ Len(s) - (Pos + k) + 1 # 0
      <3>1. k \in 0 .. Len(rxBuf) - 1
        BY <1>1
      <3>. QED  BY <3>1, TurnAtPos
    <2>2. s[Pos + k] # SOF
      BY <1>1, <2>1
    <2>3. P[Pos + k] = P[(Pos + k) + 1]
      BY <2>1, <2>2 DEF ParseTurn
    <2>. HIDE DEF P
    <2>4. (Pos + k) + 1 = Pos + (k + 1) /\ k + 1 \in 0 .. n
      BY <1>1
    <2>. QED  BY <1>3, <2>3, <2>4
  <1>. HIDE DEF T
  <1>4. 0 .. n \subseteq T
    <2>. HIDE DEF n
    <2>. QED  BY <1>1, <1>2, <1>3, SetInduction, SMTT(30)
  <1>5. n \in T
    BY <1>1, <1>4
  <1>. QED  BY <1>5 DEF T

\* A step that delivers nothing and moves to a place where the reference parser
\* finds the same.
LEMMA ScanGoesOn ==
    ASSUME Scanned, NEW n, Pos' = Pos + n, received' = received, delivered' = delivered,
           \A x \in Seq(Byte) : ParseFrom(received \o x)[Pos + n] = ParseFrom(received \o x)[Pos]
    PROVE  Scanned'
  <1>. SUFFICES ASSUME NEW x \in Seq(Byte) PROVE FoundSoFar(x)'
    BY DEF Scanned
  <1>1. FoundSoFar(x)
    BY DEF Scanned
  <1>2. ParseFrom(received \o x)[Pos'] = ParseFrom(received \o x)[Pos]
    OBVIOUS
  <1>. QED  BY <1>1, <1>2, Zenon DEF FoundSoFar

LEMMA ScannedInit == Init => BufferIsTail /\ Scanned
  <1>. SUFFICES ASSUME Init PROVE BufferIsTail /\ Scanned
    OBVIOUS
  <1>1. received = <<>> /\ rxBuf = <<>> /\ delivered = <<>>
    BY DEF Init
  <1>2. Len(<<>>) = 0 /\ Pos = 1
    BY <1>1 DEF Pos
  <1>3. BufferIsTail
    BY <1>1, <1>2 DEF BufferIsTail
  <1>4. ASSUME NEW x \in Seq(Byte) PROVE FoundSoFar(x)
    <2>1. <<>> \o x = x
      OBVIOUS
    <2>2. 1 \in 1 .. Len(x) + 1
      OBVIOUS
    <2>. DEFINE r == ParseFrom(x)[1]
    <2>3. r \in Parsed
      BY <2>2, ParseUnfolds
    <2>. HIDE DEF r
    <2>4. r = [frames |-> <<>> \o r.frames, rest |-> r.rest]
      <3>1. r.frames \in Seq(Seq(Byte)) /\ r = [frames |-> r.frames, rest |-> r.rest]
        BY <2>3 DEF Parsed
      <3>2. <<>> \o r.frames = r.frames
        BY <3>1
      <3>. QED  BY <3>1, <3>2
    <2>. QED  BY <1>1, <1>2, <2>1, <2>4 DEF FoundSoFar, r
  <1>. QED  BY <1>3, <1>4 DEF Scanned

LEMMA ScannedRead ==
    ASSUME TypeOK, BufferIsTail, Scanned, NEW n \in 1 .. Len(wire), ReadChunk(n)
    PROVE  BufferIsTail' /\ Scanned' /\ Pos' = Pos
  <1>. DEFINE c == SubSeq(wire, 1, n)
  <1>1. c \in Seq(Byte)
    <2>1. wire \in Seq(Byte) /\ n \in 0 .. Len(wire)
      BY DEF TypeOK
    <2>. QED  BY <2>1, Cut
  <1>2. rxBuf' = rxBuf \o c /\ received' = received \o c /\ delivered' = delivered
    BY DEF ReadChunk
  <1>. HIDE DEF c
  <1>3. received \in Seq(Byte) /\ rxBuf \in Seq(Byte)
    BY DEF TypeOK
  <1>4. /\ received' \in Seq(Byte) /\ Len(received') = Len(received) + Len(c)
        /\ \A i \in 1 .. Len(received) : received'[i] = received[i]
        /\ \A i \in 1 .. Len(c) : received'[Len(received) + i] = c[i]
    BY <1>1, <1>2, <1>3, Joined
  <1>5. /\ rxBuf' \in Seq(Byte) /\ Len(rxBuf') = Len(rxBuf) + Len(c)
        /\ \A i \in 1 .. Len(rxBuf) : rxBuf'[i] = rxBuf[i]
        /\ \A i \in 1 .. Len(c) : rxBuf'[Len(rxBuf) + i] = c[i]
    BY <1>1, <1>2, <1>3, Joined
  <1>6. Len(c) \in Nat
    BY <1>1
  <1>7. /\ Pos \in 1 .. Len(received) + 1 /\ Len(rxBuf) = Len(received) - Pos + 1
        /\ Len(received) \in Nat /\ Len(rxBuf) \in Nat
        /\ \A i \in 1 .. Len(rxBuf) : rxBuf[i] = received[Pos + i - 1]
    BY TailIs
  <1>8. Pos' = Len(received') - Len(rxBuf') + 1
    BY DEF Pos
  <1>9. Pos' = Pos /\ Len(rxBuf') <= Len(received')
    <2>1. Len(received') = Len(received) + Len(c) /\ Len(rxBuf') = Len(rxBuf) + Len(c)
      BY <1>4, <1>5
    <2>2. Pos = Len(received) - Len(rxBuf) + 1 /\ Len(rxBuf) <= Len(received)
      BY DEF Pos, BufferIsTail
    <2>3. Len(received) \in Nat /\ Len(rxBuf) \in Nat
      BY <1>7
    <2>. QED  BY <1>6, <1>8, <2>1, <2>2, <2>3
  <1>10. \A i \in 1 .. Len(rxBuf') : rxBuf'[i] = received'[Pos + i - 1]
    <2>. TAKE i \in 1 .. Len(rxBuf')
    <2>1. CASE i <= Len(rxBuf)
      <3>1. i \in 1 .. Len(rxBuf) /\ Pos + i - 1 \in 1 .. Len(received)
        BY <1>5, <1>7, <2>1
      <3>2. rxBuf'[i] = rxBuf[i] /\ received'[Pos + i - 1] = received[Pos + i - 1]
        BY <1>4, <1>5, <3>1
      <3>. QED  BY <1>7, <3>1, <3>2
    <2>2. CASE i > Len(rxBuf)
      <3>. DEFINE j == i - Len(rxBuf)
      <3>1. j \in 1 .. Len(c) /\ Len(rxBuf) + j = i /\ Len(received) + j = Pos + i - 1
        BY <1>5, <1>6, <1>7, <2>2
      <3>. HIDE DEF j
      <3>. QED  BY <1>4, <1>5, <3>1
    <2>. QED  BY <1>7, <2>1, <2>2
  <1>11. rxBuf' = SubSeq(received', Pos, Len(received'))
    <2>1. received' \in Seq(Byte) /\ rxBuf' \in Seq(Byte)
      BY <1>4, <1>5
    <2>2. Pos = Len(received') - Len(rxBuf') + 1
      BY <1>8, <1>9
    <2>. QED  BY <1>9, <1>10, <2>1, <2>2, IsTail
  <1>12. ASSUME NEW x \in Seq(Byte) PROVE FoundSoFar(x)'
    <2>1. c \o x \in Seq(Byte) /\ (received \o c) \o x = received \o (c \o x)
      BY <1>1, <1>3, SMT
    <2>2. FoundSoFar(c \o x)
      BY <2>1 DEF Scanned
    <2>3. received' \o x = received \o (c \o x)
      BY <1>2, <2>1
    <2>. QED  BY <1>2, <1>9, <2>2, <2>3, Zenon DEF FoundSoFar
  <1>. QED  BY <1>9, <1>11, <1>12 DEF BufferIsTail, Scanned

LEMMA ScannedSkip ==
    ASSUME TypeOK, BufferIsTail, Scanned, SkipNoise
    PROVE  BufferIsTail' /\ Scanned' /\ Pos' = Pos + Noise(rxBuf)
  <1>1. Noise(rxBuf) \in 0 .. Len(rxBuf)
    BY NoiseEnds DEF TypeOK
  <1>2. Drain(Noise(rxBuf)) /\ received' = received /\ delivered' = delivered
    BY DEF SkipNoise
  <1>3. BufferIsTail' /\ Pos' = Pos + Noise(rxBuf)
    BY <1>1, <1>2, TailMoves
  <1>4. Scanned'
    BY <1>2, <1>3, NoiseIsSkipped, ScanGoesOn
  <1>. QED  BY <1>3, <1>4

LEMMA HeaderType ==
    ASSUME TypeOK, HeaderRead
    PROVE  /\ Len(rxBuf) \in Nat /\ Len(rxBuf) >= 7 /\ rxBuf[1] = SOF
           /\ ClaimedPayload(rxBuf, 1) \in Nat
           /\ ClaimedSize(rxBuf, 1) = 7 + ClaimedPayload(rxBuf, 1)
           /\ ClaimedSize(rxBuf, 1) \in Nat
  <1>1. rxBuf \in Seq(Byte) /\ Len(rxBuf) \in Nat /\ Len(rxBuf) >= 7 /\ AtSof(rxBuf)
    BY DEF TypeOK, HeaderRead, MIN_FRAME_SIZE
  <1>2. rxBuf[1] = SOF
    BY <1>1, AtSofIs
  <1>3. 1 \in 1 .. Len(rxBuf) /\ Len(rxBuf) - 1 + 1 >= MIN_FRAME_SIZE
    BY <1>1 DEF MIN_FRAME_SIZE
  <1>. QED  BY <1>1, <1>2, <1>3, ClaimedType DEF MIN_FRAME_SIZE

LEMMA ScannedReject ==
    ASSUME TypeOK, BufferIsTail, Scanned, RejectLength
    PROVE  BufferIsTail' /\ Scanned' /\ Pos' = Pos + 1
  <1>1. /\ Len(rxBuf) \in Nat /\ Len(rxBuf) >= 7 /\ rxBuf[1] = SOF
        /\ ClaimedPayload(rxBuf, 1) \in Nat
    BY HeaderType DEF RejectLength
  <1>2. ClaimedPayload(rxBuf, 1) > MaxPayload
    BY <1>1, MaxPayloadAssumption DEF RejectLength, LengthAllowed
  <1>3. Drain(1) /\ received' = received /\ delivered' = delivered
    BY DEF RejectLength
  <1>4. BufferIsTail' /\ Pos' = Pos + 1
    <2>1. 1 \in 0 .. Len(rxBuf)
      BY <1>1
    <2>. QED  BY <1>3, <2>1, TailMoves
  <1>5. ASSUME NEW x \in Seq(Byte)
        PROVE  ParseFrom(received \o x)[Pos + 1] = ParseFrom(received \o x)[Pos]
    <2>. DEFINE s == received \o x
                P == ParseFrom(s)
    <2>0. 0 \in 0 .. Len(rxBuf) - 1 /\ Pos + 0 = Pos /\ 0 + 1 = 1 /\ Len(rxBuf) - 0 = Len(rxBuf)
      BY <1>1, TailIs
    <2>1. /\ P[Pos + 0] = ParseTurn(s, Pos + 0, P) /\ s[Pos + 0] = rxBuf[0 + 1]
          /\ Len(s) - (Pos + 0) + 1 \in Nat /\ Len(s) - (Pos + 0) + 1 >= Len(rxBuf) - 0
          /\ Len(s) - (Pos + 0) + 1 # 0
      BY <2>0, TurnAtPos
    <2>2. ClaimedPayload(s, Pos) = ClaimedPayload(rxBuf, 1)
      BY <1>1, ClaimInStream DEF MIN_FRAME_SIZE
    <2>. HIDE DEF s, P
    <2>3. /\ P[Pos] = ParseTurn(s, Pos, P) /\ s[Pos] = SOF /\ Len(s) - Pos + 1 # 0
          /\ ~ (Len(s) - Pos + 1 < MIN_FRAME_SIZE)
      BY <1>1, <2>0, <2>1 DEF MIN_FRAME_SIZE
    <2>4. P[Pos] = P[Pos + 1]
      BY <1>2, <2>2, <2>3 DEF ParseTurn
    <2>. QED  BY <2>4 DEF s, P
  <1>6. Scanned'
    BY <1>3, <1>4, <1>5, ScanGoesOn
  <1>. QED  BY <1>4, <1>6

\* What the reference parser says where the thread has a candidate.
LEMMA TurnAtCandidate ==
    ASSUME TypeOK, BufferIsTail, CandidateRead, NEW x \in Seq(Byte)
    PROVE  LET P == ParseFrom(received \o x)
               after == P[Pos + Len(Candidate)]
           IN  /\ P[Pos] = [frames |-> IF Valid(Candidate) THEN <<Candidate>> \o after.frames
                                      ELSE after.frames,
                            rest |-> after.rest]
               /\ after \in Parsed
  <1>. DEFINE s == received \o x
              P == ParseFrom(s)
              C == Candidate
  <1>1. /\ Len(rxBuf) \in Nat /\ Len(rxBuf) >= 7 /\ rxBuf[1] = SOF
        /\ ClaimedPayload(rxBuf, 1) \in Nat /\ ClaimedSize(rxBuf, 1) \in Nat
    BY HeaderType DEF CandidateRead
  <1>2. ClaimedPayload(rxBuf, 1) <= MaxPayload /\ Len(rxBuf) >= ClaimedSize(rxBuf, 1)
    BY DEF CandidateRead, LengthAllowed
  <1>3. 0 \in 0 .. Len(rxBuf) - 1 /\ Pos + 0 = Pos /\ 0 + 1 = 1 /\ Len(rxBuf) - 0 = Len(rxBuf)
    BY <1>1, TailIs
  <1>4. /\ P[Pos + 0] = ParseTurn(s, Pos + 0, P) /\ s[Pos + 0] = rxBuf[0 + 1]
        /\ Len(s) - (Pos + 0) + 1 \in Nat /\ Len(s) - (Pos + 0) + 1 >= Len(rxBuf) - 0
        /\ Len(s) - (Pos + 0) + 1 # 0
    BY <1>3, TurnAtPos
  <1>5. /\ ClaimedPayload(s, Pos) = ClaimedPayload(rxBuf, 1)
        /\ ClaimedSize(s, Pos) = ClaimedSize(rxBuf, 1)
    BY <1>1, ClaimInStream DEF MIN_FRAME_SIZE
  <1>6. FrameAt(s, Pos) = C
    BY CandidateInStream
  <1>7. s \in Seq(Byte) /\ Pos + Len(C) \in 1 .. Len(s) + 1
    <2>1. /\ s \in Seq(Byte) /\ Len(s) = Len(received) + Len(x) /\ Len(x) \in Nat
      BY TailInStream
    <2>2. Len(C) \in Nat /\ Len(C) <= Len(rxBuf)
      BY <1>1, <1>2, CandidateType DEF TypeOK
    <2>3. /\ Pos \in 1 .. Len(received) + 1 /\ Len(rxBuf) = Len(received) - Pos + 1
          /\ Len(received) \in Nat
      BY TailIs
    <2>. HIDE DEF s, C
    <2>. QED  BY <2>1, <2>2, <2>3
  <1>8. P[Pos + Len(C)] \in Parsed
    BY <1>7, ParseUnfolds
  <1>. HIDE DEF s, P, C
  <1>9. /\ P[Pos] = ParseTurn(s, Pos, P) /\ s[Pos] = SOF /\ Len(s) - Pos + 1 # 0
        /\ ~ (Len(s) - Pos + 1 < MIN_FRAME_SIZE) /\ ~ (Len(s) - Pos + 1 < ClaimedSize(s, Pos))
        /\ ~ (ClaimedPayload(s, Pos) > MaxPayload)
    BY <1>1, <1>2, <1>3, <1>4, <1>5, MaxPayloadAssumption DEF MIN_FRAME_SIZE
  <1>10. P[Pos] = [frames |-> IF Valid(C) THEN <<C>> \o P[Pos + Len(C)].frames
                             ELSE P[Pos + Len(C)].frames,
                   rest |-> P[Pos + Len(C)].rest]
    BY <1>6, <1>9, Zenon DEF ParseTurn
  <1>. QED  BY <1>8, <1>10 DEF s, P, C

LEMMA ScannedDrop ==
    ASSUME TypeOK, BufferIsTail, Scanned, DropCandidate
    PROVE  BufferIsTail' /\ Scanned' /\ Pos' = Pos + Len(Candidate)
  <1>1. CandidateRead /\ ~ Valid(Candidate) /\ Drain(Len(Candidate))
        /\ received' = received /\ delivered' = delivered
    BY DEF DropCandidate
  <1>2. Len(Candidate) \in 0 .. Len(rxBuf)
    BY <1>1, CandidateType DEF TypeOK, MIN_FRAME_SIZE
  <1>3. BufferIsTail' /\ Pos' = Pos + Len(Candidate)
    BY <1>1, <1>2, TailMoves
  <1>4. ASSUME NEW x \in Seq(Byte)
        PROVE  ParseFrom(received \o x)[Pos + Len(Candidate)] = ParseFrom(received \o x)[Pos]
    <2>. DEFINE after == ParseFrom(received \o x)[Pos + Len(Candidate)]
    <2>1. /\ ParseFrom(received \o x)[Pos] = [frames |-> after.frames, rest |-> after.rest]
          /\ after \in Parsed
      BY <1>1, TurnAtCandidate
    <2>. HIDE DEF after
    <2>2. after = [frames |-> after.frames, rest |-> after.rest]
      BY <2>1 DEF Parsed
    <2>. QED  BY <2>1, <2>2 DEF after
  <1>5. Scanned'
    BY <1>1, <1>3, <1>4, ScanGoesOn
  <1>. QED  BY <1>3, <1>5

LEMMA ScannedDeliver ==
    ASSUME TypeOK, BufferIsTail, Scanned, DeliverFrame
    PROVE  BufferIsTail' /\ Scanned' /\ Pos' = Pos + Len(Candidate)
  <1>1. CandidateRead /\ Valid(Candidate) /\ Drain(Len(Candidate))
        /\ received' = received /\ delivered' = Append(delivered, Candidate)
    BY DEF DeliverFrame
  <1>2. Len(Candidate) \in 0 .. Len(rxBuf) /\ Candidate \in Seq(Byte)
    BY <1>1, CandidateType DEF TypeOK, MIN_FRAME_SIZE
  <1>3. BufferIsTail' /\ Pos' = Pos + Len(Candidate)
    BY <1>1, <1>2, TailMoves
  <1>4. ASSUME NEW x \in Seq(Byte) PROVE FoundSoFar(x)'
    <2>. DEFINE P == ParseFrom(received \o x)
                after == P[Pos + Len(Candidate)]
    <2>1. /\ P[Pos] = [frames |-> <<Candidate>> \o after.frames, rest |-> after.rest]
          /\ after \in Parsed
      BY <1>1, TurnAtCandidate
    <2>2. P[1] = [frames |-> delivered \o P[Pos].frames, rest |-> P[Pos].rest]
      BY DEF Scanned, FoundSoFar
    <2>3. delivered \o (<<Candidate>> \o after.frames) = Append(delivered, Candidate) \o after.frames
      <3>. DEFINE fs == after.frames
      <3>1. fs \in Seq(Seq(Byte)) /\ delivered \in Seq(Seq(Byte))
        BY <2>1 DEF Parsed, TypeOK
      <3>. HIDE DEF fs
      <3>2. <<Candidate>> \in Seq(Seq(Byte)) /\ Append(delivered, Candidate) = delivered \o <<Candidate>>
        BY <1>2, <3>1
      <3>3. delivered \o (<<Candidate>> \o fs) = (delivered \o <<Candidate>>) \o fs
        <4>. DEFINE one == <<Candidate>>
        <4>1. one \in Seq(Seq(Byte))
          BY <3>2
        <4>. HIDE DEF one
        <4>2. delivered \o (one \o fs) = (delivered \o one) \o fs
          BY <3>1, <4>1
        <4>. QED  BY <4>2 DEF one
      <3>. QED  BY <3>2, <3>3 DEF fs
    <2>. HIDE DEF after, P
    <2>4. P[1] = [frames |-> Append(delivered, Candidate) \o after.frames, rest |-> after.rest]
      <3>1. P[Pos].frames = <<Candidate>> \o after.frames /\ P[Pos].rest = after.rest
        BY <2>1
      <3>. QED  BY <2>2, <2>3, <3>1, Zenon
    <2>5. after = ParseFrom(received' \o x)[Pos'] /\ P = ParseFrom(received' \o x)
      BY <1>1, <1>3 DEF P, after
    <2>. QED  BY <1>1, <2>4, <2>5, Zenon DEF FoundSoFar
  <1>5. Scanned'
    BY <1>4 DEF Scanned
  <1>. QED  BY <1>3, <1>5

LEMMA ScannedStep ==
    ASSUME TypeOK, BufferIsTail, Scanned, [Next]_vars
    PROVE  BufferIsTail' /\ Scanned'
  <1>1. ASSUME UNCHANGED <<received, rxBuf, delivered>> PROVE BufferIsTail' /\ Scanned'
    <2>1. Pos' = Pos
      BY <1>1 DEF Pos
    <2>2. BufferIsTail'
      BY <1>1, <2>1, Zenon DEF BufferIsTail
    <2>3. ASSUME NEW x \in Seq(Byte) PROVE FoundSoFar(x)'
      BY <1>1, <2>1, Zenon DEF Scanned, FoundSoFar
    <2>. QED  BY <2>2, <2>3 DEF Scanned
  <1>2. ASSUME NEW m \in Messages, MasterSends(m) PROVE BufferIsTail' /\ Scanned'
    BY <1>1, <1>2 DEF MasterSends
  <1>3. ASSUME NEW k \in 1 .. Len(wire), LineDamages(k) PROVE BufferIsTail' /\ Scanned'
    BY <1>1, <1>3 DEF LineDamages
  <1>4. CASE AwaitBytes
    BY <1>1, <1>4 DEF AwaitBytes
  <1>5. CASE UNCHANGED vars
    BY <1>1, <1>5 DEF vars
  <1>. QED  BY <1>2, <1>3, <1>4, <1>5, ScannedRead, ScannedSkip, ScannedReject, ScannedDeliver,
               ScannedDrop DEF Next

\* Where the thread waits for bytes the reference parser stops.
LEMMA ParseStops ==
    ASSUME TypeOK, BufferIsTail, pc = "read"
    PROVE  ParseFrom(received)[Pos] = [frames |-> <<>>, rest |-> Pos]
  <1>. DEFINE s == received
              P == ParseFrom(s)
              n == Len(rxBuf)
  <1>1. /\ Pos \in 1 .. Len(s) + 1 /\ n = Len(s) - Pos + 1 /\ n \in Nat /\ s \in Seq(Byte)
        /\ \A i \in 1 .. Len(rxBuf) : rxBuf[i] = s[Pos + i - 1]
    BY TailIs DEF TypeOK
  <1>2. Unfinished(rxBuf) /\ rxBuf \in Seq(Byte)
    BY DEF TypeOK
  <1>3. P[Pos] = ParseTurn(s, Pos, P)
    BY <1>1, ParseUnfolds
  <1>4. CASE n = 0
    BY <1>1, <1>3, <1>4 DEF ParseTurn
  <1>5. CASE n # 0
    <2>1. s[Pos] = SOF
      <3>1. rxBuf[1] = SOF
        BY <1>1, <1>2, <1>5, AtSofIs DEF Unfinished
      <3>2. 1 \in 1 .. Len(rxBuf) /\ Pos + 1 - 1 = Pos
        BY <1>1, <1>5
      <3>. QED  BY <1>1, <3>1, <3>2
    <2>2. CASE n < MIN_FRAME_SIZE
      BY <1>1, <1>3, <1>5, <2>1, <2>2 DEF ParseTurn
    <2>3. CASE n >= MIN_FRAME_SIZE
      <3>1. ClaimedPayload(rxBuf, 1) <= MaxPayload /\ n < ClaimedSize(rxBuf, 1)
        BY <1>2, <2>3 DEF Unfinished
      <3>2. /\ ClaimedPayload(s, Pos) = ClaimedPayload(rxBuf, 1)
            /\ ClaimedSize(s, Pos) = ClaimedSize(rxBuf, 1)
        <4>. DEFINE e == <<>>
        <4>1. e \in Seq(Byte) /\ s \o e = s
          BY <1>1
        <4>2. e \in Seq(Byte) /\ received \o e = received
          BY <4>1
        <4>. HIDE DEF e
        <4>3. /\ ClaimedPayload(received \o e, Pos) = ClaimedPayload(rxBuf, 1)
              /\ ClaimedSize(received \o e, Pos) = ClaimedSize(rxBuf, 1)
          BY <2>3, <4>2, ClaimInStream
        <4>. QED  BY <4>2, <4>3
      <3>3. ClaimedPayload(rxBuf, 1) \in Nat
        <4>1. 1 \in 1 .. Len(rxBuf) /\ Len(rxBuf) - 1 + 1 >= MIN_FRAME_SIZE
          BY <1>1, <1>5, <2>3
        <4>. QED  BY <1>2, <4>1, ClaimedType
      <3>4. /\ ~ (ClaimedPayload(s, Pos) > MaxPayload) /\ Len(s) - Pos + 1 < ClaimedSize(s, Pos)
            /\ ~ (Len(s) - Pos + 1 < MIN_FRAME_SIZE) /\ Len(s) - Pos + 1 # 0
        BY <1>1, <1>5, <2>3, <3>1, <3>2, <3>3, MaxPayloadAssumption DEF MIN_FRAME_SIZE
      <3>. HIDE DEF P, n, s
      <3>5. ParseTurn(s, Pos, P) = [frames |-> <<>>, rest |-> Pos]
        BY <2>1, <3>4 DEF ParseTurn
      <3>. QED  BY <1>3, <3>5 DEF P, s
    <2>. QED  BY <1>1, <2>2, <2>3 DEF MIN_FRAME_SIZE
  <1>. QED  BY <1>4, <1>5

LEMMA ScannedMeans == TypeOK /\ BufferIsTail /\ Scanned => ChunkingInvisible
  <1>. SUFFICES ASSUME TypeOK, BufferIsTail, Scanned, pc = "read"
                PROVE  /\ delivered = ReferenceParse(received).frames
                       /\ rxBuf = SubSeq(received, ReferenceParse(received).rest, Len(received))
    BY DEF ChunkingInvisible
  <1>. DEFINE P == ParseFrom(received)
  <1>1. <<>> \in Seq(Byte) /\ received \o <<>> = received
    BY DEF TypeOK
  <1>2. P[1] = [frames |-> delivered \o P[Pos].frames, rest |-> P[Pos].rest]
    BY <1>1, Zenon DEF Scanned, FoundSoFar
  <1>3. P[Pos] = [frames |-> <<>>, rest |-> Pos]
    BY ParseStops
  <1>4. delivered \o <<>> = delivered
    BY DEF TypeOK
  <1>. HIDE DEF P
  <1>5. P[1] = [frames |-> delivered, rest |-> Pos]
    <2>1. P[Pos].frames = <<>> /\ P[Pos].rest = Pos
      BY <1>3
    <2>. QED  BY <1>2, <1>4, <2>1, Zenon
  <1>6. ReferenceParse(received) = P[1]
    BY ReferenceParseIs DEF P
  <1>7. ReferenceParse(received).frames = delivered /\ ReferenceParse(received).rest = Pos
    BY <1>5, <1>6
  <1>. QED  BY <1>7 DEF BufferIsTail

\* However the bytes are cut into reads, and whatever the line did to them: a thread
\* that waits for bytes has delivered exactly the frames that one pass over all the
\* bytes received finds, and keeps exactly the unfinished rest.
THEOREM ChunksDoNotMatter == CrcIsU16 => (Spec => []ChunkingInvisible)
  <1>. SUFFICES ASSUME CrcIsU16 PROVE Spec => []ChunkingInvisible
    OBVIOUS
  <1>. DEFINE IInv == TypeOK /\ BufferIsTail /\ Scanned
  <1>1. Init => IInv
    BY TypeInit, ScannedInit
  <1>2. IInv /\ [Next]_vars => IInv'
    BY TypeStep, ScannedStep
  <1>3. IInv => ChunkingInvisible
    BY ScannedMeans
  <1>. QED  BY <1>1, <1>2, <1>3, PTL DEF Spec

---------------------------------------------------------------------------
(* Where frames start *)

\* Places one after the other, each as wide as w says, up to `end'.
Ladder(N, w, end, g) ==
    /\ g \in [1 .. N + 1 -> Int] /\ g[N + 1] = end
    /\ \A k \in 1 .. N : g[k + 1] = g[k] + w[k]

\* The same, without a word about the values.
Descends(N, w, end, g) ==
    g[N + 1] = end /\ \A k \in 1 .. N : g[k] = g[k + 1] - w[k]

SamePlaces(N, g, h) == \A k \in 1 .. N + 1 : h[k] = g[k]

LEMMA LadderExists ==
    ASSUME NEW N \in Nat, NEW w \in [1 .. N -> Nat], NEW end \in Int
    PROVE  \E g : Ladder(N, w, end, g)
  <1>. DEFINE E == [1 .. N + 1 -> Int]
              turn(k, g) == IF k = N + 1 THEN end ELSE g[k + 1] - w[k]
              step == [k \in 1 .. N + 1 |-> [g \in E |-> turn(k, g)]]
  <1>1. 0 \in Int
    OBVIOUS
  <1>2. \A k \in 1 .. N + 1 : \A g \in E : turn(k, g) \in Int
    <2>. TAKE k \in 1 .. N + 1
    <2>. TAKE g \in E
    <2>1. CASE k = N + 1
      BY <2>1
    <2>2. CASE k # N + 1
      <3>1. k \in 1 .. N /\ k + 1 \in 1 .. N + 1
        BY <2>2
      <3>2. g[k + 1] \in Int /\ w[k] \in Int
        BY <3>1
      <3>. QED  BY <2>2, <3>2
    <2>. QED  BY <2>1, <2>2
  <1>3. step \in [1 .. N + 1 -> [E -> Int]]
    <2>. HIDE DEF turn, E
    <2>. QED  BY <1>2
  <1>4. \A k \in 1 .. N + 1 : \A g \in E : step[k][g] = turn(k, g)
    OBVIOUS
  <1>. HIDE DEF step
  <1>5. LooksAbove(N, E, step)
    <2>. SUFFICES ASSUME NEW n \in 1 .. N + 1, NEW g \in E, NEW h \in E,
                         \A m \in n + 1 .. N + 1 : g[m] = h[m]
                  PROVE  step[n][g] = step[n][h]
      BY DEF LooksAbove
    <2>1. turn(n, g) = turn(n, h)
      OBVIOUS
    <2>. HIDE DEF turn, E
    <2>2. step[n][g] = turn(n, g) /\ step[n][h] = turn(n, h)
      BY <1>4
    <2>. QED  BY <2>1, <2>2
  <1>6. SolvableFrom1(N, E, step)
    BY <1>1, <1>3, <1>5, CourseFromEnd, Zenon
  <1>7. PICK f \in E : \A n \in 1 .. N + 1 : f[n] = step[n][f]
    BY <1>6 DEF SolvableFrom1
  <1>8. \A n \in 1 .. N + 1 : f[n] = turn(n, f)
    BY <1>4, <1>7
  <1>9. f[N + 1] = end
    BY <1>8
  <1>10. \A k \in 1 .. N : f[k + 1] = f[k] + w[k]
    <2>. TAKE k \in 1 .. N
    <2>1. k \in 1 .. N + 1 /\ k # N + 1 /\ k + 1 \in 1 .. N + 1
      OBVIOUS
    <2>2. f[k] = f[k + 1] - w[k] /\ f[k + 1] \in Int /\ w[k] \in Int
      BY <1>8, <2>1
    <2>. QED  BY <2>2
  <1>. QED  BY <1>9, <1>10 DEF Ladder

LEMMA LadderUnique ==
    ASSUME NEW N \in Nat, NEW w \in [1 .. N -> Nat], NEW end \in Int, NEW g, NEW h,
           Ladder(N, w, end, g), Descends(N, w, end, h)
    PROVE  SamePlaces(N, g, h)
  <1>. DEFINE T == {k \in 1 .. N + 1 : h[k] = g[k]}
  <1>1. N + 1 \in T
    BY DEF Ladder, Descends
  <1>2. ASSUME NEW n \in 1 .. N, n + 1 \in T PROVE n \in T
    <2>1. n \in 1 .. N + 1 /\ n + 1 \in 1 .. N + 1
      OBVIOUS
    <2>2. g[n] \in Int /\ g[n + 1] \in Int /\ w[n] \in Int /\ g[n + 1] = g[n] + w[n]
      BY <2>1 DEF Ladder
    <2>3. h[n + 1] = g[n + 1] /\ h[n] = h[n + 1] - w[n]
      BY <1>2 DEF Descends
    <2>4. h[n] = g[n]
      BY <2>2, <2>3
    <2>. QED  BY <2>1, <2>4
  <1>3. \A n \in 1 .. N : n + 1 \in T => n \in T
    BY <1>2
  <1>4. 1 .. N + 1 \subseteq T
    <2>. HIDE DEF T
    <2>. QED  BY <1>1, <1>3, SetInductionFromEnd, Zenon
  <1>. QED  BY <1>4 DEF SamePlaces

\* Two ladders with the same end are the same.
LEMMA LadderSame ==
    ASSUME NEW N \in Nat, NEW w \in [1 .. N -> Nat], NEW end \in Int, NEW g, NEW h,
           Ladder(N, w, end, g), Ladder(N, w, end, h)
    PROVE  SamePlaces(N, g, h)
  <1>1. h[N + 1] = end
    BY DEF Ladder
  <1>2. \A k \in 1 .. N : h[k] = h[k + 1] - w[k]
    <2>. TAKE k \in 1 .. N
    <2>1. k \in 1 .. N + 1 /\ k + 1 \in 1 .. N + 1
      OBVIOUS
    <2>2. h[k] \in Int /\ h[k + 1] \in Int /\ w[k] \in Int /\ h[k + 1] = h[k] + w[k]
      BY <2>1 DEF Ladder
    <2>. QED  BY <2>2
  <1>3. Descends(N, w, end, h)
    BY <1>1, <1>2 DEF Descends
  <1>. QED  BY <1>3, LadderUnique, Zenon

\* Everything moves by d.
LEMMA LadderShift ==
    ASSUME NEW N \in Nat, NEW w \in [1 .. N -> Nat], NEW end \in Int, NEW d \in Int,
           NEW g, NEW h, Ladder(N, w, end, g), Ladder(N, w, end + d, h)
    PROVE  \A k \in 1 .. N + 1 : h[k] = g[k] + d
  <1>. DEFINE u == [k \in 1 .. N + 1 |-> g[k] + d]
  <1>1. \A k \in 1 .. N + 1 : g[k] \in Int /\ u[k] = g[k] + d
    BY DEF Ladder
  <1>2. u \in [1 .. N + 1 -> Int]
    BY <1>1
  <1>. HIDE DEF u
  <1>3. u[N + 1] = end + d
    BY <1>1 DEF Ladder
  <1>4. \A k \in 1 .. N : u[k + 1] = u[k] + w[k]
    <2>. TAKE k \in 1 .. N
    <2>1. k \in 1 .. N + 1 /\ k + 1 \in 1 .. N + 1 /\ w[k] \in Int
      OBVIOUS
    <2>2. g[k + 1] = g[k] + w[k]
      BY DEF Ladder
    <2>. QED  BY <1>1, <2>1, <2>2
  <1>5. Ladder(N, w, end + d, u)
    BY <1>2, <1>3, <1>4 DEF Ladder
  <1>6. SamePlaces(N, u, h)
    <2>. DEFINE e == end + d
    <2>1. e \in Int /\ Ladder(N, w, e, u) /\ Ladder(N, w, e, h)
      BY <1>5
    <2>. HIDE DEF e
    <2>. QED  BY <2>1, LadderSame, Zenon
  <1>. QED  BY <1>1, <1>6 DEF SamePlaces

\* One more place at the end leaves the others.
LEMMA LadderAppend ==
    ASSUME NEW N \in Nat, NEW w \in [1 .. N -> Nat], NEW end \in Int,
           NEW v \in [1 .. N + 1 -> Nat], \A k \in 1 .. N : v[k] = w[k],
           NEW g, NEW h, Ladder(N, w, end, g), Ladder(N + 1, v, end + v[N + 1], h)
    PROVE  SamePlaces(N, g, h)
  <1>1. h \in [1 .. N + 2 -> Int] /\ h[N + 2] = end + v[N + 1]
    <2>1. (N + 1) + 1 = N + 2
      OBVIOUS
    <2>. QED  BY <2>1 DEF Ladder
  <1>2. h[N + 2] = h[N + 1] + v[N + 1]
    <2>1. (N + 1) + 1 = N + 2 /\ N + 1 \in 1 .. N + 1
      OBVIOUS
    <2>. QED  BY <2>1 DEF Ladder
  <1>3. h[N + 1] = end
    <2>1. h[N + 1] \in Int /\ v[N + 1] \in Int
      BY <1>1
    <2>. QED  BY <1>1, <1>2, <2>1
  <1>4. \A k \in 1 .. N : h[k] = h[k + 1] - w[k]
    <2>. TAKE k \in 1 .. N
    <2>1. k \in 1 .. N + 1 /\ h[k] \in Int /\ h[k + 1] \in Int /\ w[k] \in Int
      BY <1>1
    <2>2. h[k + 1] = h[k] + v[k]
      BY <2>1 DEF Ladder
    <2>. QED  BY <2>1, <2>2
  <1>5. Descends(N, w, end, h)
    BY <1>3, <1>4 DEF Descends
  <1>. QED  BY <1>5, LadderUnique, Zenon

\* What StartsOf says at k, if it says `start' further on.
StartTurn(q, end, k, start) == IF k > Len(q) THEN end ELSE start[k + 1] - Len(q[k])
StartsFrom(q, end) == CHOOSE start : start = [k \in 1 .. Len(q) + 1 |-> StartTurn(q, end, k, start)]

LEMMA StartsOfIs == \A q, end : StartsOf(q, end) = StartsFrom(q, end)
  BY DEF StartsOf, StartsFrom, StartTurn

Widths(q) == [k \in 1 .. Len(q) |-> Len(q[k])]

LEMMA WidthsType ==
    ASSUME NEW q \in Seq(Seq(Byte))
    PROVE  /\ Len(q) \in Nat /\ Widths(q) \in [1 .. Len(q) -> Nat]
           /\ \A k \in 1 .. Len(q) : q[k] \in Seq(Byte) /\ Widths(q)[k] = Len(q[k])
  <1>1. \A k \in 1 .. Len(q) : q[k] \in Seq(Byte) /\ Len(q[k]) \in Nat
    OBVIOUS
  <1>. QED  BY <1>1 DEF Widths

\* Each frame ends where the next one starts.
LEMMA StartsLadder ==
    ASSUME NEW q \in Seq(Seq(Byte)), NEW end \in Int
    PROVE  Ladder(Len(q), Widths(q), end, StartsOf(q, end))
  <1>. DEFINE N == Len(q)
              w == Widths(q)
              st == StartsFrom(q, end)
  <1>1. /\ N \in Nat /\ w \in [1 .. N -> Nat]
        /\ \A k \in 1 .. N : w[k] = Len(q[k])
    BY WidthsType
  <1>. HIDE DEF N, w
  <1>2. PICK f : Ladder(N, w, end, f)
    BY <1>1, LadderExists
  <1>3. ASSUME NEW g, NEW k \in 1 .. N + 1
        PROVE  StartTurn(q, end, k, g) = IF k = N + 1 THEN end ELSE g[k + 1] - w[k]
    <2>1. k > N <=> k = N + 1
      BY <1>1
    <2>2. k # N + 1 => w[k] = Len(q[k])
      BY <1>1
    <2>. QED  BY <2>1, <2>2 DEF StartTurn, N
  <1>4. \A k \in 1 .. N + 1 : f[k] = StartTurn(q, end, k, f)
    <2>. TAKE k \in 1 .. N + 1
    <2>1. CASE k = N + 1
      BY <1>2, <1>3, <2>1 DEF Ladder
    <2>2. CASE k # N + 1
      <3>1. k \in 1 .. N /\ k + 1 \in 1 .. N + 1
        BY <1>1, <2>2
      <3>2. f[k] \in Int /\ f[k + 1] \in Int /\ w[k] \in Int /\ f[k + 1] = f[k] + w[k]
        BY <1>1, <1>2, <3>1 DEF Ladder
      <3>3. f[k] = f[k + 1] - w[k]
        BY <3>2
      <3>. QED  BY <1>3, <2>2, <3>3
    <2>. QED  BY <2>1, <2>2
  <1>5. f = [k \in 1 .. Len(q) + 1 |-> StartTurn(q, end, k, f)]
    <2>1. f = [k \in 1 .. N + 1 |-> f[k]]
      BY <1>2 DEF Ladder
    <2>. QED  BY <1>4, <2>1 DEF N
  <1>6. st = [k \in 1 .. Len(q) + 1 |-> StartTurn(q, end, k, st)]
    BY <1>5 DEF StartsFrom
  <1>. HIDE DEF st
  <1>7. /\ st = [k \in 1 .. N + 1 |-> st[k]]
        /\ \A k \in 1 .. N + 1 : st[k] = StartTurn(q, end, k, st)
    BY <1>6 DEF N
  <1>8. st[N + 1] = end
    <2>1. N + 1 \in 1 .. N + 1
      BY <1>1
    <2>2. StartTurn(q, end, N + 1, st) = end
      BY <1>3, <2>1
    <2>. QED  BY <1>7, <2>1, <2>2
  <1>9. \A k \in 1 .. N : st[k] = st[k + 1] - w[k]
    <2>. TAKE k \in 1 .. N
    <2>1. k \in 1 .. N + 1 /\ k # N + 1
      BY <1>1
    <2>. QED  BY <1>3, <1>7, <2>1
  <1>10. SamePlaces(N, f, st)
    <2>1. Descends(N, w, end, st)
      BY <1>8, <1>9 DEF Descends
    <2>. QED  BY <1>1, <1>2, <2>1, LadderUnique, Zenon
  <1>11. st = f
    <2>1. f = [k \in 1 .. N + 1 |-> f[k]]
      BY <1>2 DEF Ladder
    <2>. QED  BY <1>7, <1>10, <2>1 DEF SamePlaces
  <1>. QED  BY <1>2, <1>11, StartsOfIs DEF st, N, w

\* A place ends before any later one starts.
LEMMA LadderOrdered ==
    ASSUME NEW N \in Nat, NEW w \in [1 .. N -> Nat], NEW end \in Int, NEW g,
           Ladder(N, w, end, g), NEW k \in 1 .. N, NEW j \in k + 1 .. N + 1
    PROVE  g[k] + w[k] <= g[j]
  <1>. DEFINE B == {i \in k + 1 .. N + 1 : g[i] < g[k] + w[k]}
  <1>1. \A i \in 1 .. N + 1 : g[i] \in Int
    BY DEF Ladder
  <1>2. \A i \in 1 .. N : g[i + 1] = g[i] + w[i] /\ w[i] \in Nat
    BY DEF Ladder
  <1>3. CASE B = {}
    <2>1. g[j] \in Int /\ g[k] \in Int /\ w[k] \in Nat /\ ~ (g[j] < g[k] + w[k])
      <3>1. j \notin B /\ j \in 1 .. N + 1 /\ k \in 1 .. N + 1
        BY <1>3
      <3>2. ~ (g[j] < g[k] + w[k])
        BY <3>1
      <3>. QED  BY <1>1, <1>2, <3>1, <3>2
    <2>. QED  BY <2>1
  <1>4. CASE B # {}
    <2>1. B \in SUBSET Nat
      OBVIOUS
    <2>2. PICK x \in B : \A y \in B : x <= y
      BY <1>4, <2>1, LeastNat
    <2>3. x # k + 1
      BY <1>2, <1>1, <2>2
    <2>4. x - 1 \in k + 1 .. N + 1 /\ x - 1 \in 1 .. N /\ x - 1 \notin B /\ (x - 1) + 1 = x
      BY <2>2, <2>3
    <2>5. /\ g[x] = g[x - 1] + w[x - 1] /\ w[x - 1] \in Nat /\ g[x - 1] \in Int
          /\ g[x] < g[k] + w[k] /\ g[x] \in Int
      <3>1. x \in 1 .. N + 1 /\ x - 1 \in 1 .. N + 1 /\ g[x] < g[k] + w[k]
        BY <2>2, <2>4
      <3>2. g[(x - 1) + 1] = g[x - 1] + w[x - 1] /\ w[x - 1] \in Nat
        BY <1>2, <2>4
      <3>. QED  BY <1>1, <2>4, <3>1, <3>2
    <2>6. g[k] \in Int /\ w[k] \in Nat
      BY <1>1, <1>2
    <2>7. ~ (g[x - 1] < g[k] + w[k])
      BY <2>4
    <2>. QED  BY <2>5, <2>6, <2>7, SMTT(30)
  <1>. QED  BY <1>3, <1>4

\* Where between the first and the k-th place p is.
LEMMA LadderLocate ==
    ASSUME NEW N \in Nat, NEW w \in [1 .. N -> Nat], NEW end \in Int, NEW g,
           Ladder(N, w, end, g), NEW k \in 1 .. N + 1, NEW p \in Int,
           g[1] <= p, p < g[k]
    PROVE  \E i \in 1 .. k - 1 : g[i] <= p /\ p < g[i + 1]
  <1>. DEFINE B == {i \in 1 .. k : p < g[i]}
  <1>1. \A i \in 1 .. N + 1 : g[i] \in Int
    BY DEF Ladder
  <1>2. B \in SUBSET Nat /\ k \in B
    OBVIOUS
  <1>3. PICK x \in B : \A y \in B : x <= y
    BY <1>2, LeastNat
  <1>4. x # 1
    BY <1>1, <1>3
  <1>5. x - 1 \in 1 .. k - 1 /\ x - 1 \in 1 .. k /\ x - 1 \notin B /\ (x - 1) + 1 = x
    BY <1>3, <1>4
  <1>6. g[x - 1] \in Int /\ ~ (p < g[x - 1]) /\ p < g[x]
    BY <1>1, <1>3, <1>5
  <1>. QED  BY <1>5, <1>6

---------------------------------------------------------------------------
(* What the line leaves of the frames *)

LEMMA FrameStarts ==
    ASSUME TypeOK
    PROVE  /\ Len(sent) \in Nat /\ Widths(sent) \in [1 .. Len(sent) -> Nat]
           /\ Len(Stream) \in Nat /\ Len(Stream) = Len(received) + Len(wire)
           /\ Len(received) \in Nat /\ Len(wire) \in Nat
           /\ \A k \in 1 .. Len(sent) : sent[k] \in Seq(Byte) /\ Widths(sent)[k] = Len(sent[k])
           /\ Ladder(Len(sent), Widths(sent), Len(Stream) + 1, FrameStart)
           /\ FrameStart[Len(sent) + 1] = Len(Stream) + 1
           /\ \A k \in 1 .. Len(sent) + 1 : FrameStart[k] \in Int
           /\ \A k \in 1 .. Len(sent) : FrameStart[k + 1] = FrameStart[k] + Len(sent[k])
  <1>1. sent \in Seq(Seq(Byte)) /\ received \in Seq(Byte) /\ wire \in Seq(Byte)
    BY DEF TypeOK
  <1>2. /\ Len(sent) \in Nat /\ Widths(sent) \in [1 .. Len(sent) -> Nat]
        /\ \A k \in 1 .. Len(sent) : sent[k] \in Seq(Byte) /\ Widths(sent)[k] = Len(sent[k])
    BY <1>1, WidthsType
  <1>3. /\ Len(Stream) = Len(received) + Len(wire)
        /\ Len(received) \in Nat /\ Len(wire) \in Nat
    BY <1>1 DEF Stream
  <1>4. Ladder(Len(sent), Widths(sent), Len(Stream) + 1, FrameStart)
    <2>. DEFINE end == Len(Stream) + 1
    <2>1. end \in Int
      BY <1>3
    <2>. HIDE DEF end
    <2>2. Ladder(Len(sent), Widths(sent), end, StartsOf(sent, end))
      BY <1>1, <2>1, StartsLadder
    <2>. QED  BY <2>2 DEF FrameStart, end
  <1>5. /\ FrameStart[Len(sent) + 1] = Len(Stream) + 1
        /\ \A k \in 1 .. Len(sent) + 1 : FrameStart[k] \in Int
    BY <1>4 DEF Ladder
  <1>6. \A k \in 1 .. Len(sent) : FrameStart[k + 1] = FrameStart[k] + Len(sent[k])
    BY <1>2, <1>4 DEF Ladder
  <1>. QED  BY <1>2, <1>3, <1>4, <1>5, <1>6

\* A new frame leaves the starts of the others.
LEMMA SendKeepsStarts ==
    ASSUME CrcIsU16, TypeOK, TypeOK', NEW m \in Messages, MasterSends(m)
    PROVE  /\ Encode(m) \in Seq(Byte)
           /\ sent' = Append(sent, Encode(m)) /\ Len(sent') = Len(sent) + 1
           /\ \A k \in 1 .. Len(sent) : sent'[k] = sent[k]
           /\ sent'[Len(sent) + 1] = Encode(m)
           /\ Stream' = Stream \o Encode(m)
           /\ \A k \in 1 .. Len(sent) + 1 : FrameStart'[k] = FrameStart[k]
  <1>. DEFINE f == Encode(m)
              N == Len(sent)
              end == Len(Stream) + 1
  <1>1. sent' = Append(sent, f) /\ wire' = wire \o f /\ received' = received
    BY DEF MasterSends
  <1>2. f \in Seq(Byte) /\ Len(f) \in Nat
    BY Encoded
  <1>. HIDE DEF f
  <1>3. sent \in Seq(Seq(Byte)) /\ received \in Seq(Byte) /\ wire \in Seq(Byte)
    BY DEF TypeOK
  <1>4. /\ Len(sent') = N + 1 /\ sent'[N + 1] = f
        /\ \A k \in 1 .. N : sent'[k] = sent[k]
    BY <1>1, <1>2, <1>3, Appended
  <1>5. Stream' = Stream \o f
    <2>1. (received \o wire) \o f = received \o (wire \o f)
      BY <1>2, <1>3, JoinedTwice
    <2>. QED  BY <1>1, <2>1, Zenon DEF Stream
  <1>6. /\ Len(sent) \in Nat /\ Widths(sent) \in [1 .. Len(sent) -> Nat]
        /\ Len(Stream) \in Nat
        /\ \A k \in 1 .. Len(sent) : Widths(sent)[k] = Len(sent[k])
        /\ Ladder(N, Widths(sent), end, FrameStart)
    BY FrameStarts
  <1>7. /\ Widths(sent') \in [1 .. Len(sent') -> Nat]
        /\ \A k \in 1 .. Len(sent') : Widths(sent')[k] = Len(sent'[k])
    <2>1. sent' \in Seq(Seq(Byte))
      BY DEF TypeOK
    <2>. QED  BY <2>1, WidthsType
  <1>8. Widths(sent') \in [1 .. N + 1 -> Nat] /\ \A k \in 1 .. N : Widths(sent')[k] = Widths(sent)[k]
    BY <1>4, <1>6, <1>7
  <1>9. Widths(sent')[N + 1] = Len(f)
    BY <1>4, <1>6, <1>7
  <1>10. Ladder(N + 1, Widths(sent'), end + Widths(sent')[N + 1], FrameStart')
    <2>1. Ladder(Len(sent'), Widths(sent'), Len(Stream') + 1, StartsOf(sent', Len(Stream') + 1))
      <3>. DEFINE e == Len(Stream') + 1
      <3>1. sent' \in Seq(Seq(Byte)) /\ received' \in Seq(Byte) /\ wire' \in Seq(Byte)
        BY DEF TypeOK
      <3>2. e \in Int
        BY <3>1 DEF Stream
      <3>. HIDE DEF e
      <3>3. Ladder(Len(sent'), Widths(sent'), e, StartsOf(sent', e))
        BY <3>1, <3>2, StartsLadder
      <3>. QED  BY <3>3 DEF e
    <2>2. FrameStart' = StartsOf(sent', Len(Stream') + 1)
      BY DEF FrameStart
    <2>3. Len(Stream') + 1 = end + Widths(sent')[N + 1]
      <3>1. Stream \in Seq(Byte)
        BY <1>3 DEF Stream
      <3>2. Len(Stream \o f) = Len(Stream) + Len(f)
        BY <1>2, <3>1, Joined
      <3>. QED  BY <1>2, <1>5, <1>6, <1>9, <3>2
    <2>. QED  BY <1>4, <2>1, <2>2, <2>3
  <1>11. SamePlaces(N, FrameStart, FrameStart')
    <2>. DEFINE v == Widths(sent')
                w == Widths(sent)
                st == FrameStart
                st1 == FrameStart'
    <2>1. /\ N \in Nat /\ w \in [1 .. N -> Nat] /\ end \in Int /\ v \in [1 .. N + 1 -> Nat]
          /\ Ladder(N, w, end, st) /\ Ladder(N + 1, v, end + v[N + 1], st1)
      BY <1>6, <1>8, <1>10
    <2>2. \A k \in 1 .. N : v[k] = w[k]
      BY <1>8
    <2>. HIDE DEF v, w, st, st1, N, end
    <2>3. SamePlaces(N, st, st1)
      BY <2>1, <2>2, LadderAppend
    <2>. QED  BY <2>3 DEF st, st1
  <1>. QED  BY <1>1, <1>2, <1>4, <1>5, <1>11 DEF f, SamePlaces

\* Damage moves the starts of all frames and the bytes behind it.
LEMMA DamageMovesStarts ==
    ASSUME TypeOK, TypeOK', NEW k \in 1 .. Len(wire), LineDamages(k)
    PROVE  LET d == Len(wire') - Len(wire) IN
           /\ d \in {-1, 0, 1} /\ sent' = sent /\ received' = received
           /\ \A j \in 1 .. Len(sent) + 1 : FrameStart'[j] = FrameStart[j] + d
           /\ \A p \in 1 .. Len(Stream) : p + d > Len(received) + k => Stream'[p + d] = Stream[p]
  <1>. DEFINE N == Len(sent)
              d == Len(wire') - Len(wire)
  <1>1. /\ wire' \in Seq(Byte) /\ d \in {-1, 0, 1}
        /\ \A i \in 1 .. Len(wire) : i + d > k =>
             i + d \in 1 .. Len(wire') /\ wire'[i + d] = wire[i]
    BY DamageMoves
  <1>2. sent' = sent /\ received' = received
    BY DEF LineDamages
  <1>3. /\ Len(sent) \in Nat /\ Widths(sent) \in [1 .. N -> Nat]
        /\ Len(Stream) \in Nat /\ Len(Stream) = Len(received) + Len(wire)
        /\ Len(received) \in Nat /\ Len(wire) \in Nat
        /\ Ladder(N, Widths(sent), Len(Stream) + 1, FrameStart)
    BY FrameStarts
  <1>4. received \in Seq(Byte) /\ wire \in Seq(Byte) /\ sent \in Seq(Seq(Byte))
    BY DEF TypeOK
  <1>5. /\ Stream' = received \o wire' /\ Len(Stream') = Len(received) + Len(wire')
        /\ \A i \in 1 .. Len(wire') : Stream'[Len(received) + i] = wire'[i]
    <2>1. Stream' = received \o wire'
      BY <1>2 DEF Stream
    <2>. QED  BY <1>1, <1>4, <2>1, Joined
  <1>6. \A i \in 1 .. Len(wire) : Stream[Len(received) + i] = wire[i]
    BY <1>4, Joined DEF Stream
  <1>7. Len(wire') \in Nat /\ Len(Stream') = Len(Stream) + d
    <2>1. Len(wire') \in Nat
      BY <1>1
    <2>. QED  BY <1>3, <1>5, <2>1
  <1>8. \A p \in 1 .. Len(Stream) : p + d > Len(received) + k => Stream'[p + d] = Stream[p]
    <2>. TAKE p \in 1 .. Len(Stream)
    <2>. HAVE p + d > Len(received) + k
    <2>. DEFINE i == p - Len(received)
    <2>1. i + d > k /\ Len(received) + i = p /\ i \in 1 .. Len(wire)
      <3>. HIDE DEF d
      <3>. QED  BY <1>1, <1>3
    <2>2. i + d \in 1 .. Len(wire') /\ wire'[i + d] = wire[i]
      BY <1>1, <2>1
    <2>3. Len(received) + (i + d) = p + d
      BY <1>1, <1>3, <2>1
    <2>. HIDE DEF i, d
    <2>4. Stream'[p + d] = wire'[i + d]
      BY <1>5, <2>2, <2>3
    <2>5. Stream[p] = wire[i]
      BY <1>6, <2>1
    <2>. QED  BY <2>2, <2>4, <2>5
  <1>9. Ladder(N, Widths(sent), (Len(Stream) + 1) + d, FrameStart')
    <2>. DEFINE e == (Len(Stream) + 1) + d
    <2>1. e \in Int /\ Len(Stream') + 1 = e
      BY <1>1, <1>3, <1>7
    <2>2. FrameStart' = StartsOf(sent, e)
      BY <1>2, <2>1 DEF FrameStart
    <2>. HIDE DEF e
    <2>3. Ladder(N, Widths(sent), e, StartsOf(sent, e))
      BY <1>4, <2>1, StartsLadder
    <2>. QED  BY <2>2, <2>3 DEF e
  <1>10. \A j \in 1 .. N + 1 : FrameStart'[j] = FrameStart[j] + d
    <2>. DEFINE w == Widths(sent)
                st == FrameStart
                st1 == FrameStart'
                end == Len(Stream) + 1
    <2>1. /\ N \in Nat /\ w \in [1 .. N -> Nat] /\ end \in Int /\ d \in Int
          /\ Ladder(N, w, end, st) /\ Ladder(N, w, end + d, st1)
      BY <1>1, <1>3, <1>9
    <2>. HIDE DEF w, st, st1, end, N, d
    <2>2. \A j \in 1 .. N + 1 : st1[j] = st[j] + d
      BY <2>1, LadderShift
    <2>. QED  BY <2>2 DEF st, st1
  <1>. QED  BY <1>1, <1>2, <1>8, <1>10

\* What the frames of the master still are.
Encodes == \A k \in 1 .. Len(sent) : \E m \in Messages : sent[k] = Encode(m)
Anchored ==
    /\ FrameStart[1] <= lastDamage + 1
    /\ damages = 0 => lastDamage = 0 /\ FrameStart[1] = 1
BeyondIntact ==
    \A k \in 1 .. Len(sent) : \A j \in 1 .. Len(sent[k]) :
      FrameStart[k] + j - 1 > lastDamage => Stream[FrameStart[k] + j - 1] = sent[k][j]
Layout == Encodes /\ Anchored /\ BeyondIntact

LEMMA LayoutInit == CrcIsU16 /\ Init => Layout
  <1>. SUFFICES ASSUME CrcIsU16, Init PROVE Layout
    OBVIOUS
  <1>1. TypeOK
    BY TypeInit
  <1>2. Len(sent) = 0 /\ lastDamage = 0 /\ Len(received) = 0 /\ Len(wire) = 0
    BY DEF Init
  <1>3. FrameStart[Len(sent) + 1] = Len(Stream) + 1 /\ Len(Stream) = Len(received) + Len(wire)
    BY <1>1, FrameStarts
  <1>4. FrameStart[1] = 1
    BY <1>2, <1>3
  <1>. QED  BY <1>2, <1>4 DEF Layout, Encodes, Anchored, BeyondIntact

\* Every frame is long enough to tell one start from the next.
LEMMA FrameIs ==
    ASSUME CrcIsU16, TypeOK, Encodes, NEW k \in 1 .. Len(sent)
    PROVE  /\ sent[k] \in Seq(Byte) /\ Len(sent[k]) \in 7 .. 7 + MaxPayload
           /\ sent[k][1] = SOF /\ ClaimedPayload(sent[k], 1) = Len(sent[k]) - 7
           /\ Valid(sent[k])
  <1>1. PICK m \in Messages : sent[k] = Encode(m)
    BY DEF Encodes
  <1>2. /\ Encode(m) \in Seq(Byte) /\ Encode(m)[1] = SOF /\ Valid(Encode(m))
        /\ ClaimedPayload(Encode(m), 1) = Len(m.payload)
        /\ Len(m.payload) \in 0 .. MaxPayload
        /\ Len(Encode(m)) = 7 + Len(m.payload)
    BY Encoded DEF MIN_FRAME_SIZE
  <1>. DEFINE n == Len(m.payload)
  <1>3. /\ sent[k] \in Seq(Byte) /\ sent[k][1] = SOF /\ Valid(sent[k])
        /\ ClaimedPayload(sent[k], 1) = n /\ n \in 0 .. MaxPayload
        /\ Len(sent[k]) = 7 + n
    BY <1>1, <1>2
  <1>. HIDE DEF n
  <1>4. Len(sent[k]) \in 7 .. 7 + MaxPayload /\ n = Len(sent[k]) - 7
    BY <1>3, MaxPayloadAssumption
  <1>. QED  BY <1>3, <1>4

\* Where the bytes of a frame are.
LEMMA FrameInStream ==
    ASSUME CrcIsU16, TypeOK, Encodes, NEW k \in 1 .. Len(sent), NEW j \in k + 1 .. Len(sent) + 1
    PROVE  FrameStart[k] + Len(sent[k]) <= FrameStart[j]
  <1>. DEFINE w == Widths(sent)
              st == FrameStart
              N == Len(sent)
              end == Len(Stream) + 1
  <1>1. /\ N \in Nat /\ w \in [1 .. N -> Nat] /\ end \in Int /\ Ladder(N, w, end, st)
        /\ w[k] = Len(sent[k])
    BY FrameStarts
  <1>2. k \in 1 .. N /\ j \in k + 1 .. N + 1
    OBVIOUS
  <1>. HIDE DEF w, st, N, end
  <1>3. st[k] + w[k] <= st[j]
    BY <1>1, <1>2, LadderOrdered
  <1>. QED  BY <1>1, <1>3 DEF st

LEMMA LayoutSend ==
    ASSUME CrcIsU16, TypeOK, TypeOK', Layout, NEW m \in Messages, MasterSends(m)
    PROVE  Layout'
  <1>. DEFINE f == Encode(m)
              N == Len(sent)
  <1>1. /\ f \in Seq(Byte) /\ sent' = Append(sent, f) /\ Len(sent') = N + 1
        /\ \A k \in 1 .. N : sent'[k] = sent[k]
        /\ sent'[N + 1] = f
        /\ Stream' = Stream \o f
        /\ \A k \in 1 .. N + 1 : FrameStart'[k] = FrameStart[k]
    BY SendKeepsStarts
  <1>2. lastDamage' = lastDamage /\ damages' = damages
    BY DEF MasterSends
  <1>3. /\ N \in Nat /\ Len(Stream) \in Nat /\ Stream \in Seq(Byte) /\ lastDamage \in Nat
        /\ FrameStart[N + 1] = Len(Stream) + 1
        /\ \A k \in 1 .. N + 1 : FrameStart[k] \in Int
    BY FrameStarts DEF TypeOK, Stream
  <1>4. /\ \A i \in 1 .. Len(Stream) : Stream'[i] = Stream[i]
        /\ \A i \in 1 .. Len(f) : Stream'[Len(Stream) + i] = f[i]
    <2>. HIDE DEF f
    <2>. QED  BY <1>1, <1>3, Joined
  <1>. HIDE DEF f
  <1>5. Encodes'
    <2>. SUFFICES ASSUME NEW k \in 1 .. N + 1 PROVE \E mm \in Messages : sent'[k] = Encode(mm)
      BY <1>1 DEF Encodes
    <2>1. CASE k = N + 1
      BY <1>1, <2>1 DEF f
    <2>2. CASE k \in 1 .. N
      BY <1>1, <2>2 DEF Layout, Encodes
    <2>. QED  BY <1>3, <2>1, <2>2
  <1>6. Anchored'
    <2>1. FrameStart'[1] = FrameStart[1]
      BY <1>1, <1>3
    <2>. QED  BY <1>2, <2>1 DEF Layout, Anchored
  <1>7. BeyondIntact'
    <2>. SUFFICES ASSUME NEW k \in 1 .. N + 1, NEW j \in 1 .. Len(sent'[k]),
                         FrameStart'[k] + j - 1 > lastDamage
                  PROVE  Stream'[FrameStart'[k] + j - 1] = sent'[k][j]
      BY <1>1, <1>2 DEF BeyondIntact
    <2>0. FrameStart'[k] = FrameStart[k] /\ FrameStart[k] \in Int
      BY <1>1, <1>3
    <2>1. CASE k = N + 1
      <3>1. sent'[k] = f /\ FrameStart[k] + j - 1 = Len(Stream) + j
        BY <1>1, <1>3, <2>1
      <3>2. Stream'[Len(Stream) + j] = f[j]
        BY <1>4, <3>1
      <3>. QED  BY <2>0, <3>1, <3>2
    <2>2. CASE k \in 1 .. N
      <3>. DEFINE p == FrameStart[k] + j - 1
      <3>1. sent'[k] = sent[k]
        BY <1>1, <2>2
      <3>2. FrameStart[k] + Len(sent[k]) <= FrameStart[N + 1] /\ Len(sent[k]) \in Nat
        <4>1. N + 1 \in k + 1 .. N + 1
          BY <1>3, <2>2
        <4>. QED  BY <2>2, <4>1, FrameInStream, FrameStarts DEF Layout
      <3>3. p > lastDamage /\ p \in 1 .. Len(Stream)
        BY <1>3, <2>0, <3>1, <3>2
      <3>4. Stream[p] = sent[k][j]
        BY <2>2, <3>1, <3>3 DEF Layout, BeyondIntact
      <3>. HIDE DEF p
      <3>5. Stream'[p] = Stream[p]
        BY <1>4, <3>3
      <3>. QED  BY <2>0, <3>1, <3>4, <3>5 DEF p
    <2>. QED  BY <1>3, <2>1, <2>2
  <1>. QED  BY <1>5, <1>6, <1>7 DEF Layout

LEMMA LayoutDamage ==
    ASSUME CrcIsU16, TypeOK, TypeOK', Layout, NEW i \in 1 .. Len(wire), LineDamages(i)
    PROVE  Layout' /\ lastDamage' >= Len(received) + i
  <1>. DEFINE N == Len(sent)
              d == Len(wire') - Len(wire)
              here == Len(received) + i
  <1>1. /\ d \in {-1, 0, 1} /\ sent' = sent
        /\ \A k \in 1 .. N + 1 : FrameStart'[k] = FrameStart[k] + d
        /\ \A p \in 1 .. Len(Stream) : p + d > here => Stream'[p + d] = Stream[p]
    BY DamageMovesStarts
  <1>2. /\ N \in Nat /\ Len(Stream) \in Nat /\ lastDamage \in Nat /\ here \in Nat
        /\ FrameStart[N + 1] = Len(Stream) + 1
        /\ \A k \in 1 .. N + 1 : FrameStart[k] \in Int
    BY FrameStarts DEF TypeOK
  <1>3. lastDamage' = IF here > lastDamage + d THEN here ELSE lastDamage + d
    <2>1. lastDamage + Len(wire') - Len(wire) = lastDamage + d
      <3>1. Len(wire) \in Nat /\ Len(wire') \in Nat
        BY DEF TypeOK
      <3>. QED  BY <1>2, <3>1
    <2>. QED  BY <2>1 DEF LineDamages
  <1>4. damages' = damages + 1 /\ damages' # 0
    BY DEF LineDamages, TypeOK
  <1>. HIDE DEF d, here, N
  <1>5. lastDamage' \in Nat /\ lastDamage' >= here /\ lastDamage' >= lastDamage + d
    BY <1>1, <1>2, <1>3
  <1>6. Encodes'
    BY <1>1 DEF Layout, Encodes
  <1>7. Anchored'
    <2>1. FrameStart'[1] = FrameStart[1] + d /\ FrameStart[1] \in Int /\ FrameStart[1] <= lastDamage + 1
      BY <1>1, <1>2 DEF Layout, Anchored
    <2>2. FrameStart'[1] <= lastDamage' + 1
      BY <1>1, <1>2, <1>5, <2>1
    <2>. QED  BY <1>4, <2>2 DEF Anchored
  <1>8. BeyondIntact'
    <2>. SUFFICES ASSUME NEW k \in 1 .. N, NEW j \in 1 .. Len(sent[k]),
                         FrameStart'[k] + j - 1 > lastDamage'
                  PROVE  Stream'[FrameStart'[k] + j - 1] = sent[k][j]
      BY <1>1 DEF BeyondIntact, N
    <2>. DEFINE p == FrameStart[k] + j - 1
    <2>1. FrameStart'[k] = FrameStart[k] + d /\ FrameStart[k] \in Int
      BY <1>1, <1>2
    <2>2. FrameStart[k] + Len(sent[k]) <= FrameStart[N + 1] /\ Len(sent[k]) \in Nat
      <3>1. N + 1 \in k + 1 .. N + 1 /\ k \in 1 .. Len(sent)
        BY <1>2 DEF N
      <3>. QED  BY <3>1, FrameInStream, FrameStarts DEF Layout, N
    <2>3. p + d > lastDamage' /\ p > lastDamage /\ p <= Len(Stream) /\ FrameStart'[k] + j - 1 = p + d
      <3>1. d \in Int /\ j \in Int /\ j <= Len(sent[k]) /\ p \in Int
        BY <1>1, <2>1, <2>2
      <3>2. FrameStart'[k] + j - 1 = p + d
        BY <2>1, <3>1
      <3>3. p <= Len(Stream)
        BY <1>2, <2>1, <2>2, <3>1, SMTT(30)
      <3>. HIDE DEF p
      <3>4. p + d > lastDamage'
        BY <3>2
      <3>5. p > lastDamage
        BY <1>2, <1>5, <3>1, <3>4
      <3>. QED  BY <3>2, <3>3, <3>4, <3>5
    <2>4. p \in Int /\ p + d > here
      <3>1. d \in Int /\ p \in Int
        BY <1>1, <2>1
      <3>. HIDE DEF p
      <3>. QED  BY <1>2, <1>5, <2>3, <3>1
    <2>5. Stream[p] = sent[k][j]
      BY <2>3 DEF Layout, BeyondIntact, N
    <2>6. Stream'[p + d] = Stream[p]
      <3>1. p \in 1 .. Len(Stream)
        BY <1>2, <2>3, <2>4
      <3>. QED  BY <1>1, <2>4, <3>1
    <2>. QED  BY <2>3, <2>5, <2>6
  <1>. QED  BY <1>5, <1>6, <1>7, <1>8 DEF Layout, here

LEMMA ReadKeepsStream ==
    ASSUME TypeOK, NEW n \in 1 .. Len(wire), ReadChunk(n)
    PROVE  Stream' = Stream
  <1>. DEFINE a == SubSeq(wire, 1, n)
              b == SubSeq(wire, n + 1, Len(wire))
  <1>1. wire \in Seq(Byte) /\ received \in Seq(Byte) /\ n \in 0 .. Len(wire) /\ Len(wire) \in Nat
    BY DEF TypeOK
  <1>2. /\ a \in Seq(Byte) /\ Len(a) = n
        /\ b \in Seq(Byte) /\ Len(b) = Len(wire) - n
        /\ \A i \in 1 .. n : a[i] = wire[i]
        /\ \A i \in 1 .. Len(wire) - n : b[i] = wire[n + i]
    BY <1>1, Cut
  <1>3. received' = received \o a /\ wire' = b
    BY DEF ReadChunk
  <1>. HIDE DEF a, b
  <1>4. /\ a \o b \in Seq(Byte) /\ Len(a \o b) = Len(a) + Len(b)
        /\ \A i \in 1 .. Len(a) : (a \o b)[i] = a[i]
        /\ \A i \in 1 .. Len(b) : (a \o b)[Len(a) + i] = b[i]
    <2>1. a \in Seq(Byte) /\ b \in Seq(Byte)
      BY <1>2
    <2>. QED  BY <2>1, Joined
  <1>5. \A i \in 1 .. Len(wire) : (a \o b)[i] = wire[i]
    <2>. TAKE i \in 1 .. Len(wire)
    <2>1. CASE i <= n
      BY <1>1, <1>2, <1>4, <2>1
    <2>2. CASE i > n
      <3>1. i - n \in 1 .. Len(b) /\ i - n \in 1 .. Len(wire) - n /\ n + (i - n) = i
        BY <1>1, <1>2, <2>2
      <3>2. (a \o b)[n + (i - n)] = b[i - n] /\ b[i - n] = wire[n + (i - n)]
        BY <1>2, <1>4, <3>1
      <3>. QED  BY <3>1, <3>2
    <2>3. i <= n \/ i > n
      BY <1>1
    <2>. QED  BY <2>1, <2>2, <2>3
  <1>6. Len(a \o b) = Len(wire)
    BY <1>1, <1>2, <1>4
  <1>7. a \o b = wire
    <2>. DEFINE c == a \o b
    <2>1. c \in Seq(Byte) /\ Len(c) = Len(wire) /\ \A i \in 1 .. Len(c) : c[i] = wire[i]
      BY <1>4, <1>5, <1>6
    <2>. HIDE DEF c
    <2>2. c = wire
      BY <1>1, <2>1, SameSeq
    <2>. QED  BY <2>2 DEF c
  <1>8. (received \o a) \o b = received \o (a \o b)
    <2>1. received \in Seq(Byte) /\ a \in Seq(Byte) /\ b \in Seq(Byte)
      BY <1>1, <1>2
    <2>. QED  BY <2>1, JoinedTwice
  <1>. QED  BY <1>3, <1>7, <1>8, Zenon DEF Stream

LEMMA LayoutSteady ==
    ASSUME Layout, Stream' = Stream, UNCHANGED <<sent, lastDamage, damages>>
    PROVE  Layout' /\ FrameStart' = FrameStart
  <1>1. FrameStart' = FrameStart
    BY DEF FrameStart
  <1>. QED  BY <1>1 DEF Layout, Encodes, Anchored, BeyondIntact

\* The steps of the thread leave the stream as it is.
Parses == SkipNoise \/ AwaitBytes \/ RejectLength \/ DeliverFrame \/ DropCandidate

LEMMA ParsesKeep ==
    ASSUME Parses
    PROVE  /\ UNCHANGED <<sent, wire, received, lastDamage, damages>>
           /\ Stream' = Stream /\ FrameStart' = FrameStart
  <1>1. UNCHANGED <<sent, wire, received, lastDamage, damages>>
    BY DEF Parses, SkipNoise, AwaitBytes, RejectLength, DeliverFrame, DropCandidate
  <1>2. Stream' = Stream
    BY <1>1 DEF Stream
  <1>. QED  BY <1>1, <1>2 DEF FrameStart

LEMMA LayoutStep ==
    ASSUME CrcIsU16, TypeOK, TypeOK', Layout, [Next]_vars
    PROVE  Layout'
  <1>1. ASSUME NEW n \in 1 .. Len(wire), ReadChunk(n) PROVE Layout'
    <2>1. UNCHANGED <<sent, lastDamage, damages>>
      BY <1>1 DEF ReadChunk
    <2>. QED  BY <1>1, <2>1, ReadKeepsStream, LayoutSteady
  <1>2. CASE Parses
    BY <1>2, ParsesKeep, LayoutSteady
  <1>3. CASE UNCHANGED vars
    <2>1. Stream' = Stream /\ UNCHANGED <<sent, lastDamage, damages>>
      BY <1>3 DEF vars, Stream
    <2>. QED  BY <2>1, LayoutSteady
  <1>. QED  BY <1>1, <1>2, <1>3, LayoutSend, LayoutDamage DEF Next, Parses

---------------------------------------------------------------------------
(* Frames behind the damage are found *)

\* At the start of a frame that is whole, the thread sees that frame.
LEMMA WholeFrame ==
    ASSUME CrcIsU16, TypeOK, BufferIsTail, Layout, NEW j \in 1 .. Len(sent),
           Pos = FrameStart[j], Pos > lastDamage
    PROVE  /\ Len(rxBuf) > 0 => rxBuf[1] = SOF
           /\ Len(rxBuf) >= 7 => /\ ClaimedPayload(rxBuf, 1) = Len(sent[j]) - 7
                                 /\ ClaimedSize(rxBuf, 1) = Len(sent[j])
           /\ CandidateRead => Candidate = sent[j]
  <1>1. /\ Pos \in 1 .. Len(received) + 1 /\ Len(rxBuf) = Len(received) - Pos + 1
        /\ Len(received) \in Nat /\ Len(rxBuf) \in Nat
        /\ \A i \in 1 .. Len(rxBuf) : rxBuf[i] = received[Pos + i - 1]
    BY TailIs
  <1>2. /\ sent[j] \in Seq(Byte) /\ Len(sent[j]) \in 7 .. 7 + MaxPayload
        /\ sent[j][1] = SOF /\ ClaimedPayload(sent[j], 1) = Len(sent[j]) - 7
    BY FrameIs DEF Layout
  <1>3. lastDamage \in Nat /\ received \in Seq(Byte) /\ wire \in Seq(Byte) /\ rxBuf \in Seq(Byte)
    BY DEF TypeOK
  <1>4. \A i \in 1 .. Len(received) : Stream[i] = received[i]
    BY <1>3, Joined DEF Stream
  <1>5. Len(sent[j]) \in Nat /\ Len(sent[j]) >= 7
    BY <1>2, MaxPayloadAssumption
  <1>6. \A i \in 1 .. Len(rxBuf) : i <= Len(sent[j]) => rxBuf[i] = sent[j][i]
    <2>. TAKE i \in 1 .. Len(rxBuf)
    <2>. HAVE i <= Len(sent[j])
    <2>. DEFINE p == Pos + i - 1
    <2>1. p \in 1 .. Len(received) /\ p > lastDamage /\ i \in 1 .. Len(sent[j])
      <3>1. /\ Pos \in Int /\ Pos >= 1 /\ i \in Int /\ i >= 1 /\ i <= Len(rxBuf)
            /\ Len(rxBuf) = Len(received) - Pos + 1 /\ Len(received) \in Nat
        BY <1>1
      <3>2. p \in 1 .. Len(received) /\ p >= Pos
        <4>1. p \in Int /\ p >= Pos /\ p >= 1
          BY <3>1
        <4>2. p <= Len(received)
          BY <3>1
        <4>. QED  BY <3>1, <4>1, <4>2
      <3>3. p > lastDamage
        BY <1>3, <3>1, <3>2
      <3>4. i \in 1 .. Len(sent[j])
        BY <1>5, <3>1
      <3>. QED  BY <3>2, <3>3, <3>4
    <2>2. Stream[FrameStart[j] + i - 1] = sent[j][i]
      BY <2>1 DEF Layout, BeyondIntact
    <2>3. Stream[p] = sent[j][i]
      BY <2>2
    <2>4. rxBuf[i] = received[p]
      BY <1>1
    <2>. HIDE DEF p
    <2>. QED  BY <1>4, <2>1, <2>3, <2>4
  <1>7. Len(rxBuf) > 0 => rxBuf[1] = SOF
    <2>. HAVE Len(rxBuf) > 0
    <2>1. 1 \in 1 .. Len(rxBuf) /\ 1 <= Len(sent[j])
      BY <1>1, <1>5
    <2>. QED  BY <1>2, <1>6, <2>1
  <1>8. ASSUME Len(rxBuf) >= 7
        PROVE  /\ ClaimedPayload(rxBuf, 1) = Len(sent[j]) - 7
               /\ ClaimedSize(rxBuf, 1) = Len(sent[j])
    <2>1. /\ 2 \in 1 .. Len(rxBuf) /\ 2 <= Len(sent[j])
          /\ 3 \in 1 .. Len(rxBuf) /\ 3 <= Len(sent[j])
      BY <1>1, <1>5, <1>8, SMTT(30)
    <2>2. rxBuf[2] = sent[j][2] /\ rxBuf[3] = sent[j][3] /\ 1 + 1 = 2 /\ 1 + 2 = 3
      BY <1>6, <2>1
    <2>3. ClaimedPayload(rxBuf, 1) = ClaimedPayload(sent[j], 1)
      BY <2>2 DEF ClaimedPayload
    <2>. QED  BY <1>2, <1>5, <2>3 DEF ClaimedSize, MIN_FRAME_SIZE
  <1>9. ASSUME CandidateRead PROVE Candidate = sent[j]
    <2>1. /\ Candidate \in Seq(Byte) /\ Len(Candidate) = ClaimedSize(rxBuf, 1)
          /\ ClaimedSize(rxBuf, 1) <= Len(rxBuf)
          /\ \A i \in 1 .. Len(Candidate) : Candidate[i] = rxBuf[i]
      BY <1>3, <1>9, CandidateType
    <2>2. Len(rxBuf) >= 7
      BY <1>9, HeaderType DEF CandidateRead
    <2>3. Len(Candidate) = Len(sent[j]) /\ Len(sent[j]) <= Len(rxBuf)
      BY <1>8, <2>1, <2>2
    <2>4. \A i \in 1 .. Len(Candidate) : Candidate[i] = sent[j][i]
      <3>. TAKE i \in 1 .. Len(Candidate)
      <3>1. i \in 1 .. Len(rxBuf) /\ i <= Len(sent[j])
        BY <1>1, <1>5, <2>3
      <3>2. Candidate[i] = rxBuf[i]
        BY <2>1
      <3>. QED  BY <1>6, <3>1, <3>2
    <2>. QED  BY <1>2, <2>1, <2>3, <2>4, SameSeq
  <1>. QED  BY <1>7, <1>8, <1>9

\* So it delivers that frame, and nothing else can happen there.
LEMMA WholeFrameNext ==
    ASSUME CrcIsU16, TypeOK, BufferIsTail, Scanned, Layout, NEW j \in 1 .. Len(sent) + 1,
           Pos = FrameStart[j], Pos > lastDamage, Parses
    PROVE  \/ Pos' = Pos /\ delivered' = delivered
           \/ /\ j \in 1 .. Len(sent) /\ Pos' = FrameStart[j + 1]
              /\ delivered' = Append(delivered, sent[j])
  <1>0. /\ Len(rxBuf) \in Nat /\ Len(received) \in Nat /\ Len(wire) \in Nat /\ Len(sent) \in Nat
        /\ Len(rxBuf) = Len(received) - Pos + 1 /\ rxBuf \in Seq(Byte)
        /\ FrameStart[Len(sent) + 1] = Len(received) + Len(wire) + 1
    BY TailIs, FrameStarts DEF TypeOK
  <1>1. CASE AwaitBytes
    BY <1>1 DEF AwaitBytes, Pos
  <1>2. j = Len(sent) + 1 => Len(rxBuf) = 0
    BY <1>0
  <1>3. Len(rxBuf) > 0 => j \in 1 .. Len(sent) /\ rxBuf[1] = SOF
    BY <1>0, <1>2, WholeFrame
  <1>4. ~ SkipNoise
    BY <1>0, <1>3, AtSofIs DEF SkipNoise
  <1>5. ASSUME HeaderRead
        PROVE  /\ j \in 1 .. Len(sent) /\ ClaimedPayload(rxBuf, 1) <= MaxPayload
               /\ CandidateRead => Candidate = sent[j]
    <2>1. Len(rxBuf) >= 7
      BY <1>5, HeaderType
    <2>2. j \in 1 .. Len(sent)
      BY <1>0, <1>3, <2>1
    <2>3. /\ ClaimedPayload(rxBuf, 1) = Len(sent[j]) - 7
          /\ CandidateRead => Candidate = sent[j]
      BY <2>1, <2>2, WholeFrame
    <2>4. Len(sent[j]) \in 7 .. 7 + MaxPayload
      BY <2>2, FrameIs DEF Layout
    <2>. QED  BY <2>2, <2>3, <2>4, MaxPayloadAssumption
  <1>6. ~ RejectLength
    BY <1>5 DEF RejectLength, LengthAllowed
  <1>7. ~ DropCandidate
    BY <1>5, FrameIs DEF DropCandidate, CandidateRead, Layout
  <1>8. CASE DeliverFrame
    <2>1. j \in 1 .. Len(sent) /\ Candidate = sent[j]
      BY <1>5, <1>8 DEF DeliverFrame, CandidateRead
    <2>2. Pos' = Pos + Len(sent[j])
      BY <1>8, <2>1, ScannedDeliver
    <2>3. FrameStart[j + 1] = FrameStart[j] + Len(sent[j])
      BY <2>1, FrameStarts
    <2>. QED  BY <1>8, <2>1, <2>2, <2>3 DEF DeliverFrame
  <1>. QED  BY <1>1, <1>4, <1>6, <1>7, <1>8 DEF Parses

\* And while it waits there, the frame has not arrived.
LEMMA WholeFrameAwaited ==
    ASSUME CrcIsU16, TypeOK, BufferIsTail, Layout, NEW j \in 1 .. Len(sent),
           Pos = FrameStart[j], Pos > lastDamage, pc = "read"
    PROVE  wire # <<>>
  <1>. SUFFICES ASSUME wire = <<>> PROVE FALSE
    OBVIOUS
  <1>1. /\ Len(rxBuf) \in Nat /\ Len(received) \in Nat /\ Len(wire) = 0 /\ Len(sent) \in Nat
        /\ Len(rxBuf) = Len(received) - Pos + 1
        /\ FrameStart[Len(sent) + 1] = Len(received) + Len(wire) + 1
        /\ FrameStart[j] \in Int /\ FrameStart[Len(sent) + 1] \in Int
    <2>1. /\ Len(sent) \in Nat /\ Len(received) \in Nat
          /\ FrameStart[Len(sent) + 1] = Len(Stream) + 1 /\ Len(Stream) = Len(received) + Len(wire)
          /\ \A k \in 1 .. Len(sent) + 1 : FrameStart[k] \in Int
      BY FrameStarts
    <2>2. Len(rxBuf) \in Nat /\ Len(rxBuf) = Len(received) - Pos + 1
      BY TailIs
    <2>3. j \in 1 .. Len(sent) + 1 /\ Len(sent) + 1 \in 1 .. Len(sent) + 1
      BY <2>1
    <2>. QED  BY <2>1, <2>2, <2>3
  <1>2. Len(sent[j]) \in 7 .. 7 + MaxPayload
    BY FrameIs DEF Layout
  <1>3. Len(rxBuf) >= Len(sent[j]) /\ Len(rxBuf) >= 7
    <2>1. FrameStart[j] + Len(sent[j]) <= FrameStart[Len(sent) + 1]
      <3>1. Len(sent) + 1 \in j + 1 .. Len(sent) + 1
        BY <1>1
      <3>. QED  BY <3>1, FrameInStream DEF Layout
    <2>2. Len(sent[j]) \in Nat /\ Len(sent[j]) >= 7
      BY <1>2, MaxPayloadAssumption
    <2>. QED  BY <1>1, <2>1, <2>2
  <1>4. ClaimedSize(rxBuf, 1) = Len(sent[j])
    BY <1>3, WholeFrame
  <1>5. Len(rxBuf) < ClaimedSize(rxBuf, 1)
    BY <1>3 DEF TypeOK, Unfinished, MIN_FRAME_SIZE
  <1>6. Len(sent[j]) \in Nat
    BY <1>2, MaxPayloadAssumption
  <1>. QED  BY <1>1, <1>3, <1>4, <1>5, <1>6

---------------------------------------------------------------------------
(* An undamaged line delivers everything *)

Clean ==
    damages = 0 =>
      /\ Len(delivered) <= Len(sent)
      /\ Pos = FrameStart[Len(delivered) + 1]
      /\ \A i \in 1 .. Len(delivered) : delivered[i] = sent[i]

LEMMA CleanInit == CrcIsU16 /\ Init => Clean
  <1>. SUFFICES ASSUME CrcIsU16, Init PROVE Clean
    OBVIOUS
  <1>1. /\ Len(delivered) = 0 /\ Len(sent) = 0 /\ Len(rxBuf) = 0 /\ Len(received) = 0
        /\ damages = 0
    BY DEF Init
  <1>2. FrameStart[1] = 1
    BY <1>1, LayoutInit DEF Layout, Anchored
  <1>. QED  BY <1>1, <1>2 DEF Clean, Pos

LEMMA CleanStep ==
    ASSUME CrcIsU16, TypeOK, TypeOK', BufferIsTail, Scanned, Layout, Clean, [Next]_vars
    PROVE  Clean'
  <1>0. /\ Len(delivered) \in Nat /\ Len(sent) \in Nat /\ Pos \in 1 .. Len(received) + 1
        /\ delivered \in Seq(Seq(Byte))
    BY FrameStarts, TailIs DEF TypeOK
  <1>1. ASSUME NEW m \in Messages, MasterSends(m) PROVE Clean'
    <2>1. delivered' = delivered /\ damages' = damages /\ Pos' = Pos
      BY <1>1 DEF MasterSends, Pos
    <2>2. /\ Len(sent') = Len(sent) + 1
          /\ \A k \in 1 .. Len(sent) : sent'[k] = sent[k]
          /\ \A k \in 1 .. Len(sent) + 1 : FrameStart'[k] = FrameStart[k]
      BY <1>1, SendKeepsStarts
    <2>3. ASSUME damages = 0
          PROVE  /\ Len(delivered) <= Len(sent') /\ Pos = FrameStart'[Len(delivered) + 1]
                 /\ \A i \in 1 .. Len(delivered) : delivered[i] = sent'[i]
      <3>1. /\ Len(delivered) <= Len(sent) /\ Pos = FrameStart[Len(delivered) + 1]
            /\ \A i \in 1 .. Len(delivered) : delivered[i] = sent[i]
        BY <2>3 DEF Clean
      <3>2. Len(delivered) + 1 \in 1 .. Len(sent) + 1
        BY <1>0, <3>1
      <3>3. \A i \in 1 .. Len(delivered) : i \in 1 .. Len(sent)
        BY <1>0, <3>1
      <3>. QED  BY <1>0, <2>2, <3>1, <3>2, <3>3
    <2>. QED  BY <2>1, <2>3 DEF Clean
  <1>2. ASSUME NEW k \in 1 .. Len(wire), LineDamages(k) PROVE Clean'
    <2>1. damages' # 0
      BY <1>2 DEF LineDamages, TypeOK
    <2>. QED  BY <2>1 DEF Clean
  <1>3. ASSUME UNCHANGED <<sent, damages, delivered>>, Pos' = Pos, FrameStart' = FrameStart
        PROVE  Clean'
    BY <1>3 DEF Clean
  <1>4. ASSUME NEW n \in 1 .. Len(wire), ReadChunk(n) PROVE Clean'
    <2>1. UNCHANGED <<sent, damages, delivered, lastDamage>>
      BY <1>4 DEF ReadChunk
    <2>. QED  BY <1>3, <1>4, <2>1, ScannedRead, ReadKeepsStream, LayoutSteady
  <1>5. CASE UNCHANGED vars
    <2>1. UNCHANGED <<sent, damages, delivered>> /\ Pos' = Pos /\ FrameStart' = FrameStart
      BY <1>5 DEF vars, Pos, FrameStart, Stream
    <2>. QED  BY <1>3, <2>1
  <1>6. CASE Parses
    <2>. DEFINE j == Len(delivered) + 1
    <2>1. UNCHANGED <<sent, damages>> /\ FrameStart' = FrameStart
      BY <1>6, ParsesKeep
    <2>2. CASE damages # 0
      BY <2>1, <2>2 DEF Clean
    <2>3. CASE damages = 0
      <3>1. /\ Len(delivered) <= Len(sent) /\ Pos = FrameStart[j]
            /\ \A i \in 1 .. Len(delivered) : delivered[i] = sent[i]
        BY <2>3 DEF Clean
      <3>2. j \in 1 .. Len(sent) + 1 /\ Pos > lastDamage
        BY <1>0, <2>3, <3>1 DEF Layout, Anchored
      <3>3. CASE Pos' = Pos /\ delivered' = delivered
        BY <1>3, <2>1, <3>3
      <3>4. CASE /\ j \in 1 .. Len(sent) /\ Pos' = FrameStart[j + 1]
                 /\ delivered' = Append(delivered, sent[j])
        <4>1. sent[j] \in Seq(Byte)
          BY <3>4, FrameStarts
        <4>2. /\ Len(delivered') = j
              /\ \A i \in 1 .. Len(delivered) : delivered'[i] = delivered[i]
              /\ delivered'[j] = sent[j]
          BY <1>0, <3>4, <4>1, Appended
        <4>3. \A i \in 1 .. j : i = j \/ i \in 1 .. Len(delivered)
          BY <1>0
        <4>4. \A i \in 1 .. j : delivered'[i] = sent[i]
          BY <3>1, <4>2, <4>3
        <4>. QED  BY <2>1, <3>4, <4>2, <4>4 DEF Clean
      <3>5. \/ Pos' = Pos /\ delivered' = delivered
            \/ /\ j \in 1 .. Len(sent) /\ Pos' = FrameStart[j + 1]
               /\ delivered' = Append(delivered, sent[j])
        <4>. HIDE DEF j
        <4>. QED  BY <1>6, <3>1, <3>2, WholeFrameNext
      <3>. QED  BY <3>3, <3>4, <3>5
    <2>. QED  BY <2>2, <2>3
  <1>. QED  BY <1>1, <1>2, <1>4, <1>5, <1>6 DEF Next, Parses

LEMMA CleanMeans ==
    CrcIsU16 /\ TypeOK /\ BufferIsTail /\ Layout /\ Clean => CleanLineDelivers
  <1>. SUFFICES ASSUME CrcIsU16, TypeOK, BufferIsTail, Layout, Clean, damages = 0
                PROVE  /\ IsPrefix(delivered, sent)
                       /\ pc = "read" /\ wire = <<>> => delivered = sent
    BY DEF CleanLineDelivers
  <1>1. /\ Len(delivered) \in Nat /\ Len(sent) \in Nat /\ Pos \in 1 .. Len(received) + 1
        /\ delivered \in Seq(Seq(Byte)) /\ sent \in Seq(Seq(Byte)) /\ lastDamage = 0
    BY FrameStarts, TailIs DEF TypeOK, Layout, Anchored
  <1>2. /\ Len(delivered) <= Len(sent) /\ Pos = FrameStart[Len(delivered) + 1]
        /\ \A i \in 1 .. Len(delivered) : delivered[i] = sent[i]
    BY DEF Clean
  <1>3. SubSeq(delivered, 1, Len(delivered)) = SubSeq(sent, 1, Len(delivered))
    <2>. DEFINE n == Len(delivered)
                a == SubSeq(delivered, 1, n)
                b == SubSeq(sent, 1, n)
    <2>1. n \in 0 .. Len(delivered) /\ n \in 0 .. Len(sent)
      BY <1>1, <1>2
    <2>2. /\ a \in Seq(Seq(Byte)) /\ Len(a) = n /\ \A i \in 1 .. n : a[i] = delivered[i]
          /\ b \in Seq(Seq(Byte)) /\ Len(b) = n /\ \A i \in 1 .. n : b[i] = sent[i]
      <3>. HIDE DEF n
      <3>. QED  BY <1>1, <2>1, Cut
    <2>. HIDE DEF a, b
    <2>3. Len(a) = Len(b) /\ \A i \in 1 .. Len(a) : a[i] = b[i]
      BY <1>2, <2>2
    <2>4. a = b
      BY <2>2, <2>3, SameSeq
    <2>. QED  BY <2>4 DEF a, b
  <1>4. IsPrefix(delivered, sent)
    BY <1>2, <1>3 DEF IsPrefix
  <1>5. ASSUME pc = "read", wire = <<>> PROVE delivered = sent
    <2>1. Len(delivered) = Len(sent)
      <3>. SUFFICES ASSUME Len(delivered) < Len(sent) PROVE FALSE
        BY <1>1, <1>2
      <3>. DEFINE j == Len(delivered) + 1
      <3>1. j \in 1 .. Len(sent) /\ Pos = FrameStart[j] /\ Pos > lastDamage
        BY <1>1, <1>2
      <3>. HIDE DEF j
      <3>. QED  BY <1>5, <3>1, WholeFrameAwaited
    <2>. QED  BY <1>1, <1>2, <2>1, SameSeq
  <1>. QED  BY <1>4, <1>5

\* On an undamaged line every message of the master arrives once and in order,
\* whatever its payload looks like and however the reads cut it.
THEOREM CleanLineLosesNothing == CrcIsU16 => (Spec => []CleanLineDelivers)
  <1>. SUFFICES ASSUME CrcIsU16 PROVE Spec => []CleanLineDelivers
    OBVIOUS
  <1>. DEFINE IInv == TypeOK /\ BufferIsTail /\ Scanned /\ Layout /\ Clean
  <1>1. Init => IInv
    BY TypeInit, ScannedInit, LayoutInit, CleanInit
  <1>2. IInv /\ [Next]_vars => IInv'
    BY TypeStep, ScannedStep, LayoutStep, CleanStep
  <1>3. IInv => CleanLineDelivers
    BY CleanMeans
  <1>. QED  BY <1>1, <1>2, <1>3, PTL DEF Spec

---------------------------------------------------------------------------
(* Damage is contained *)

DeliveredFrom(k, j) ==
    /\ Len(delivered) >= j - k
    /\ \A i \in 1 .. j - k : delivered[Len(delivered) - (j - k) + i] = sent[k + i - 1]

\* A frame out of reach of the damage is still to come, or it and all behind it
\* up to the start of the buffer are the last ones delivered.
Progress(k) ==
    FrameStart[k] >= OutOfReach =>
      \/ Pos <= FrameStart[k]
      \/ \E j \in k + 1 .. Len(sent) + 1 : Pos = FrameStart[j] /\ DeliveredFrom(k, j)
Contained == SofFree => \A k \in 1 .. Len(sent) : Progress(k)

\* What the proofs below need of the places, as numbers.
LEMMA Places ==
    ASSUME TypeOK, BufferIsTail
    PROVE  /\ Len(sent) \in Nat /\ Len(received) \in Nat /\ Len(wire) \in Nat /\ Len(rxBuf) \in Nat
           /\ Len(delivered) \in Nat /\ lastDamage \in Nat /\ MaxPayload \in Nat
           /\ Pos \in Nat /\ Pos >= 1 /\ Len(rxBuf) = Len(received) - Pos + 1
           /\ OutOfReach = lastDamage + 7 + MaxPayload
           /\ FrameStart[Len(sent) + 1] = Len(received) + Len(wire) + 1
           /\ \A k \in 1 .. Len(sent) + 1 : FrameStart[k] \in Int
  <1>1. /\ Len(sent) \in Nat /\ Len(received) \in Nat /\ Len(wire) \in Nat
        /\ FrameStart[Len(sent) + 1] = Len(received) + Len(wire) + 1
        /\ \A k \in 1 .. Len(sent) + 1 : FrameStart[k] \in Int
    BY FrameStarts
  <1>2. /\ Pos \in 1 .. Len(received) + 1 /\ Len(rxBuf) = Len(received) - Pos + 1
        /\ Len(rxBuf) \in Nat
    BY TailIs
  <1>3. Len(delivered) \in Nat /\ lastDamage \in Nat
    <2>1. delivered \in Seq(Seq(Byte)) /\ lastDamage \in 0 .. Len(received) + Len(wire) + 1
      BY DEF TypeOK
    <2>. QED  BY <1>1, <2>1
  <1>4. MaxPayload \in Nat
    BY MaxPayloadAssumption
  <1>5. OutOfReach = lastDamage + 7 + MaxPayload
    BY DEF OutOfReach, MIN_FRAME_SIZE
  <1>6. Pos \in Nat /\ Pos >= 1
    BY <1>1, <1>2
  <1>. QED  BY <1>1, <1>2, <1>3, <1>4, <1>5, <1>6

\* The byte of the stream at the buffer's place i, if the damage is behind it and
\* it belongs to frame k.
LEMMA ByteOfFrame ==
    ASSUME TypeOK, BufferIsTail, Layout, NEW k \in 1 .. Len(sent),
           NEW i \in 1 .. Len(rxBuf), NEW j \in 1 .. Len(sent[k]),
           Pos + i - 1 = FrameStart[k] + j - 1, FrameStart[k] + j - 1 > lastDamage
    PROVE  rxBuf[i] = sent[k][j]
  <1>1. received \in Seq(Byte) /\ wire \in Seq(Byte)
    BY DEF TypeOK
  <1>2. \A p \in 1 .. Len(received) : Stream[p] = received[p]
    BY <1>1, Joined DEF Stream
  <1>3. Pos + i - 1 \in 1 .. Len(received)
    <2>1. /\ Pos \in Nat /\ Pos >= 1 /\ Len(rxBuf) = Len(received) - Pos + 1
          /\ Len(received) \in Nat /\ i \in Int /\ i >= 1 /\ i <= Len(rxBuf)
      BY Places
    <2>. QED  BY <2>1
  <1>4. rxBuf[i] = received[Pos + i - 1]
    BY TailIs
  <1>5. Stream[FrameStart[k] + j - 1] = sent[k][j]
    BY DEF Layout, BeyondIntact
  <1>. QED  BY <1>2, <1>3, <1>4, <1>5

\* Behind the damage an SOF is the start of a frame.
LEMMA AtFrameStart ==
    ASSUME CrcIsU16, TypeOK, BufferIsTail, Layout, SofFree, NEW k \in 1 .. Len(sent),
           Pos > lastDamage, Pos < FrameStart[k], Len(rxBuf) > 0, rxBuf[1] = SOF
    PROVE  \E i \in 1 .. k - 1 : Pos = FrameStart[i]
  <1>1. PICK i \in 1 .. k - 1 : FrameStart[i] <= Pos /\ Pos < FrameStart[i + 1]
    <2>. DEFINE N == Len(sent)
                w == Widths(sent)
                end == Len(Stream) + 1
                st == FrameStart
    <2>1. /\ N \in Nat /\ w \in [1 .. N -> Nat] /\ end \in Int /\ Ladder(N, w, end, st)
          /\ k \in 1 .. N + 1 /\ Pos \in Int
      <3>1. N \in Nat /\ w \in [1 .. N -> Nat] /\ Len(Stream) \in Nat /\ Ladder(N, w, end, st)
        BY FrameStarts
      <3>2. Pos \in Int
        BY Places
      <3>3. k \in 1 .. N + 1
        BY <3>1
      <3>. QED  BY <3>1, <3>2, <3>3
    <2>2. st[1] <= Pos
      <3>1. 1 \in 1 .. N + 1
        BY <2>1
      <3>2. st[1] \in Int /\ lastDamage \in Nat
        BY <3>1, Places
      <3>. QED  BY <2>1, <3>2 DEF Layout, Anchored
    <2>. HIDE DEF N, w, end, st
    <2>3. \A p \in Int : st[1] <= p /\ p < st[k] =>
             \E i \in 1 .. k - 1 : st[i] <= p /\ p < st[i + 1]
      BY <2>1, LadderLocate
    <2>4. Pos < st[k]
      BY DEF st
    <2>5. \E i \in 1 .. k - 1 : st[i] <= Pos /\ Pos < st[i + 1]
      BY <2>1, <2>2, <2>3, <2>4
    <2>. QED  BY <2>5 DEF st
  <1>2. i \in 1 .. Len(sent) /\ i \in 1 .. Len(sent) + 1
    <2>1. Len(sent) \in Nat
      BY Places
    <2>. QED  BY <2>1
  <1>3. FrameStart[i + 1] = FrameStart[i] + Len(sent[i]) /\ sent[i] \in Seq(Byte)
    BY <1>2, FrameStarts
  <1>. DEFINE j == Pos - FrameStart[i] + 1
  <1>4. j \in 1 .. Len(sent[i]) /\ FrameStart[i] + j - 1 = Pos /\ FrameStart[i] \in Int
        /\ Pos \in Int
    <2>1. FrameStart[i] \in Int /\ Pos \in Int
      BY <1>2, Places
    <2>2. Len(sent[i]) \in Nat
      BY <1>3
    <2>3. FrameStart[i] <= Pos /\ Pos < FrameStart[i] + Len(sent[i])
      BY <1>1, <1>3
    <2>4. j \in 1 .. Len(sent[i])
      BY <2>1, <2>2, <2>3
    <2>5. FrameStart[i] + j - 1 = Pos
      BY <2>1
    <2>. QED  BY <2>1, <2>4, <2>5
  <1>. HIDE DEF j
  <1>5. 1 \in 1 .. Len(rxBuf) /\ Pos + 1 - 1 = Pos
    <2>1. Len(rxBuf) \in Nat
      BY Places
    <2>. QED  BY <1>4, <2>1
  <1>6. rxBuf[1] = sent[i][j]
    BY <1>2, <1>4, <1>5, ByteOfFrame
  <1>7. j = 1
    <2>. SUFFICES ASSUME j # 1 PROVE FALSE
      OBVIOUS
    <2>1. j \in 2 .. Len(sent[i])
      BY <1>3, <1>4
    <2>. QED  BY <1>2, <1>6, <2>1 DEF SofFree
  <1>8. Pos = FrameStart[i]
    BY <1>4, <1>7
  <1>. QED  BY <1>8

\* On the way to a frame out of reach of the damage, no step passes its start.
LEMMA BeforeFrameNext ==
    ASSUME CrcIsU16, TypeOK, BufferIsTail, Scanned, Layout, SofFree, NEW k \in 1 .. Len(sent),
           FrameStart[k] >= OutOfReach, Pos < FrameStart[k], Parses
    PROVE  Pos' <= FrameStart[k]
  <1>1. /\ FrameStart[k] \in Int /\ FrameStart[k] > lastDamage /\ Pos \in Int
    <2>1. /\ lastDamage \in Nat /\ MaxPayload \in Nat /\ Pos \in Nat
          /\ OutOfReach = lastDamage + 7 + MaxPayload
          /\ Len(sent) \in Nat /\ \A i \in 1 .. Len(sent) + 1 : FrameStart[i] \in Int
      BY Places
    <2>2. FrameStart[k] \in Int
      BY <2>1
    <2>. QED  BY <2>1, <2>2
  <1>2. CASE AwaitBytes
    <2>1. Pos' = Pos
      BY <1>2 DEF AwaitBytes, Pos
    <2>. QED  BY <1>1, <2>1
  <1>3. CASE RejectLength
    BY <1>1, <1>3, ScannedReject
  <1>4. CASE SkipNoise
    <2>. DEFINE n == Noise(rxBuf)
                i == FrameStart[k] - Pos + 1
    <2>1. n \in 0 .. Len(rxBuf) /\ \A x \in 1 .. n : rxBuf[x] # SOF
      BY NoiseEnds DEF TypeOK
    <2>2. Pos' = Pos + n
      BY <1>4, ScannedSkip
    <2>. HIDE DEF n
    <2>. SUFFICES ASSUME Pos + n > FrameStart[k] PROVE FALSE
      <3>1. Pos + n \in Int
        <4>1. Len(rxBuf) \in Nat
          BY Places
        <4>. QED  BY <1>1, <2>1, <4>1
      <3>. QED  BY <1>1, <2>2, <3>1
    <2>3. i \in 1 .. n /\ i \in 1 .. Len(rxBuf) /\ Pos + i - 1 = FrameStart[k] + 1 - 1
          /\ FrameStart[k] + 1 - 1 > lastDamage
      <3>1. n \in Nat /\ n <= Len(rxBuf) /\ Len(rxBuf) \in Nat /\ lastDamage \in Nat
        BY <2>1, Places
      <3>2. i \in Int /\ i >= 1 /\ i <= n
        BY <1>1, <3>1
      <3>3. i \in 1 .. n /\ i \in 1 .. Len(rxBuf)
        BY <3>1, <3>2
      <3>4. Pos + i - 1 = FrameStart[k] + 1 - 1 /\ FrameStart[k] + 1 - 1 > lastDamage
        BY <1>1, <3>1
      <3>. QED  BY <3>3, <3>4
    <2>. HIDE DEF i
    <2>4. 1 \in 1 .. Len(sent[k]) /\ sent[k][1] = SOF
      <3>1. Len(sent[k]) \in 7 .. 7 + MaxPayload /\ sent[k][1] = SOF
        BY FrameIs DEF Layout
      <3>. QED  BY <3>1, MaxPayloadAssumption
    <2>5. rxBuf[i] = sent[k][1]
      BY <2>3, <2>4, ByteOfFrame
    <2>. QED  BY <2>1, <2>3, <2>4, <2>5
  <1>5. CASE DeliverFrame \/ DropCandidate
    <2>1. Pos' = Pos + Len(Candidate) /\ CandidateRead
      BY <1>5, ScannedDeliver, ScannedDrop DEF DeliverFrame, DropCandidate
    <2>2. Len(Candidate) \in 7 .. 7 + MaxPayload
      BY <2>1, CandidateType DEF TypeOK, MIN_FRAME_SIZE
    <2>3. CASE Pos <= lastDamage
      <3>1. /\ lastDamage \in Nat /\ MaxPayload \in Nat
            /\ OutOfReach = lastDamage + 7 + MaxPayload
        BY Places
      <3>2. Len(Candidate) \in Int /\ Len(Candidate) <= 7 + MaxPayload
        BY <2>2, <3>1
      <3>3. Pos + Len(Candidate) <= OutOfReach
        BY <1>1, <2>3, <3>1, <3>2
      <3>. QED  BY <1>1, <2>1, <3>1, <3>2, <3>3
    <2>4. CASE Pos > lastDamage
      <3>1. Len(rxBuf) > 0 /\ rxBuf[1] = SOF
        BY <2>1, HeaderType DEF CandidateRead
      <3>2. PICK i \in 1 .. k - 1 : Pos = FrameStart[i]
        BY <2>4, <3>1, AtFrameStart
      <3>3. i \in 1 .. Len(sent) /\ k \in i + 1 .. Len(sent) + 1
        BY Places
      <3>4. Candidate = sent[i]
        BY <2>1, <2>4, <3>2, <3>3, WholeFrame
      <3>5. FrameStart[i] + Len(sent[i]) <= FrameStart[k]
        BY <3>3, FrameInStream DEF Layout
      <3>. QED  BY <2>1, <3>2, <3>4, <3>5
    <2>5. Pos <= lastDamage \/ Pos > lastDamage
      BY <1>1, Places
    <2>. QED  BY <2>3, <2>4, <2>5
  <1>. QED  BY <1>2, <1>3, <1>4, <1>5 DEF Parses

LEMMA DeliveredNext ==
    ASSUME TypeOK, NEW k \in 1 .. Len(sent), NEW j \in k .. Len(sent), DeliveredFrom(k, j),
           sent' = sent, delivered' = Append(delivered, sent[j])
    PROVE  DeliveredFrom(k, j + 1)'
  <1>. DEFINE D == Len(delivered)
              n == j - k
  <1>1. delivered \in Seq(Seq(Byte)) /\ sent[j] \in Seq(Byte) /\ D \in Nat /\ Len(sent) \in Nat
        /\ k \in Int /\ j \in Int /\ n \in Nat
    <2>1. Len(sent) \in Nat /\ \A i \in 1 .. Len(sent) : sent[i] \in Seq(Byte)
      BY FrameStarts
    <2>2. delivered \in Seq(Seq(Byte))
      BY DEF TypeOK
    <2>3. D \in Nat
      BY <2>2
    <2>4. k \in Int /\ j \in Int /\ n \in Nat /\ j \in 1 .. Len(sent)
      BY <2>1
    <2>. QED  BY <2>1, <2>2, <2>3, <2>4
  <1>2. /\ Len(delivered') = D + 1 /\ delivered'[D + 1] = sent[j]
        /\ \A i \in 1 .. D : delivered'[i] = delivered[i]
    BY <1>1, Appended
  <1>3. D >= n /\ \A i \in 1 .. n : delivered[D - n + i] = sent[k + i - 1]
    BY DEF DeliveredFrom
  <1>4. (j + 1) - k = n + 1 /\ k + (n + 1) - 1 = j
    BY <1>1
  <1>. HIDE DEF n, D
  <1>5. \A i \in 1 .. n + 1 : delivered'[(D + 1) - (n + 1) + i] = sent[k + i - 1]
    <2>. TAKE i \in 1 .. n + 1
    <2>1. CASE i = n + 1
      <3>1. (D + 1) - (n + 1) + i = D + 1
        BY <1>1, <2>1
      <3>2. sent[k + i - 1] = sent[j]
        BY <1>4, <2>1
      <3>. QED  BY <1>2, <3>1, <3>2
    <2>2. CASE i # n + 1
      <3>1. i \in 1 .. n /\ D - n + i \in 1 .. D /\ (D + 1) - (n + 1) + i = D - n + i
        BY <1>1, <1>3, <2>2
      <3>. QED  BY <1>2, <1>3, <3>1
    <2>. QED  BY <2>1, <2>2
  <1>6. Len(delivered') >= n + 1
    BY <1>1, <1>2, <1>3
  <1>. QED  BY <1>2, <1>4, <1>5, <1>6 DEF DeliveredFrom

LEMMA ContainedParses ==
    ASSUME CrcIsU16, TypeOK, BufferIsTail, Scanned, Layout, SofFree, NEW k \in 1 .. Len(sent),
           Progress(k), Parses
    PROVE  Progress(k)'
  <1>1. UNCHANGED <<sent, lastDamage>> /\ FrameStart' = FrameStart
    BY ParsesKeep
  <1>2. OutOfReach' = OutOfReach
    BY <1>1 DEF OutOfReach
  <1>. SUFFICES ASSUME FrameStart[k] >= OutOfReach
                PROVE  \/ Pos' <= FrameStart[k]
                       \/ \E j \in k + 1 .. Len(sent) + 1 :
                            Pos' = FrameStart[j] /\ DeliveredFrom(k, j)'
    BY <1>1, <1>2 DEF Progress
  <1>3. /\ FrameStart[k] \in Int /\ FrameStart[k] > lastDamage /\ Pos \in Int
        /\ Len(sent) \in Nat
    <2>1. /\ lastDamage \in Nat /\ MaxPayload \in Nat /\ Pos \in Nat
          /\ OutOfReach = lastDamage + 7 + MaxPayload
          /\ Len(sent) \in Nat /\ \A i \in 1 .. Len(sent) + 1 : FrameStart[i] \in Int
      BY Places
    <2>2. FrameStart[k] \in Int
      BY <2>1
    <2>. QED  BY <2>1, <2>2
  <1>4. CASE Pos < FrameStart[k]
    BY <1>4, BeforeFrameNext
  <1>5. ASSUME NEW j \in k .. Len(sent) + 1, Pos = FrameStart[j], DeliveredFrom(k, j)
        PROVE  \/ Pos' <= FrameStart[k]
               \/ \E i \in k + 1 .. Len(sent) + 1 :
                    Pos' = FrameStart[i] /\ DeliveredFrom(k, i)'
    <2>1. j \in 1 .. Len(sent) + 1
      BY <1>3
    <2>2. Pos > lastDamage
      <3>1. CASE j = k
        BY <1>3, <1>5, <3>1
      <3>2. CASE j # k
        <4>1. j \in k + 1 .. Len(sent) + 1
          BY <1>3, <3>2
        <4>2. FrameStart[k] + Len(sent[k]) <= FrameStart[j] /\ Len(sent[k]) \in Nat
          BY <4>1, FrameInStream, FrameStarts DEF Layout
        <4>3. FrameStart[j] \in Int /\ lastDamage \in Nat
          BY <2>1, Places
        <4>. QED  BY <1>3, <1>5, <4>2, <4>3
      <3>. QED  BY <3>1, <3>2
    <2>3. CASE Pos' = Pos /\ delivered' = delivered
      <3>1. CASE j = k
        BY <1>3, <1>5, <2>3, <3>1
      <3>2. CASE j # k
        <4>1. j \in k + 1 .. Len(sent) + 1
          BY <1>3, <3>2
        <4>2. DeliveredFrom(k, j)'
          BY <1>1, <1>5, <2>3 DEF DeliveredFrom
        <4>. QED  BY <1>5, <2>3, <4>1, <4>2
      <3>. QED  BY <3>1, <3>2
    <2>4. CASE /\ j \in 1 .. Len(sent) /\ Pos' = FrameStart[j + 1]
               /\ delivered' = Append(delivered, sent[j])
      <3>1. j \in k .. Len(sent) /\ j + 1 \in k + 1 .. Len(sent) + 1
        BY <1>3, <2>4
      <3>2. DeliveredFrom(k, j + 1)'
        BY <1>1, <1>5, <2>4, <3>1, DeliveredNext
      <3>. QED  BY <2>4, <3>1, <3>2
    <2>. QED  BY <1>5, <2>1, <2>2, <2>3, <2>4, WholeFrameNext
  <1>6. CASE Pos = FrameStart[k]
    <2>1. k \in k .. Len(sent) + 1
      BY <1>3
    <2>2. DeliveredFrom(k, k)
      <3>1. k - k = 0 /\ Len(delivered) >= 0
        BY Places
      <3>. QED  BY <3>1 DEF DeliveredFrom
    <2>. QED  BY <1>5, <1>6, <2>1, <2>2
  <1>7. CASE Pos > FrameStart[k]
    <2>1. PICK j \in k + 1 .. Len(sent) + 1 : Pos = FrameStart[j] /\ DeliveredFrom(k, j)
      BY <1>3, <1>7 DEF Progress
    <2>2. j \in k .. Len(sent) + 1
      BY <1>3
    <2>. QED  BY <1>5, <2>1, <2>2
  <1>. QED  BY <1>3, <1>4, <1>6, <1>7

\* A step that moves neither the frames nor the parser.
LEMMA ContainedSteady ==
    ASSUME Contained, UNCHANGED <<sent, delivered, lastDamage>>, Pos' = Pos, FrameStart' = FrameStart
    PROVE  Contained'
  <1>1. OutOfReach' = OutOfReach /\ SofFree' = SofFree
    BY DEF OutOfReach, SofFree
  <1>2. ASSUME NEW k \in 1 .. Len(sent), Progress(k) PROVE Progress(k)'
    <2>1. \A j : DeliveredFrom(k, j)' = DeliveredFrom(k, j)
      BY DEF DeliveredFrom
    <2>. QED  BY <1>1, <1>2, <2>1 DEF Progress
  <1>. QED  BY <1>1, <1>2 DEF Contained

LEMMA ContainedSend ==
    ASSUME CrcIsU16, TypeOK, TypeOK', BufferIsTail, Contained, NEW m \in Messages, MasterSends(m)
    PROVE  Contained'
  <1>1. /\ Len(sent') = Len(sent) + 1
        /\ \A k \in 1 .. Len(sent) : sent'[k] = sent[k]
        /\ \A k \in 1 .. Len(sent) + 1 : FrameStart'[k] = FrameStart[k]
    BY SendKeepsStarts
  <1>2. delivered' = delivered /\ Pos' = Pos /\ OutOfReach' = OutOfReach
    BY DEF MasterSends, Pos, OutOfReach
  <1>. SUFFICES ASSUME SofFree', NEW k \in 1 .. Len(sent'), FrameStart'[k] >= OutOfReach'
                PROVE  \/ Pos' <= FrameStart'[k]
                       \/ \E j \in k + 1 .. Len(sent') + 1 :
                            Pos' = FrameStart'[j] /\ DeliveredFrom(k, j)'
    BY DEF Contained, Progress
  <1>3. k \in 1 .. Len(sent) + 1 /\ Len(sent) \in Nat
    BY <1>1, Places
  <1>4. CASE k = Len(sent) + 1
    <2>1. FrameStart'[k] = Len(received) + Len(wire) + 1
      BY <1>1, <1>3, <1>4, Places
    <2>2. /\ Pos \in Nat /\ Len(received) \in Nat /\ Len(wire) \in Nat /\ Len(rxBuf) \in Nat
          /\ Len(rxBuf) = Len(received) - Pos + 1
      BY Places
    <2>3. Pos <= FrameStart'[k]
      BY <2>1, <2>2
    <2>. QED  BY <1>2, <2>3
  <1>5. CASE k # Len(sent) + 1
    <2>1. k \in 1 .. Len(sent)
      BY <1>3, <1>5
    <2>2. SofFree
      <3>1. \A i \in 1 .. Len(sent) : i \in 1 .. Len(sent')
        BY <1>1, <1>3
      <3>2. \A i \in 1 .. Len(sent) : \A j \in 2 .. Len(sent[i]) : sent[i][j] # SOF
        BY <1>1, <3>1 DEF SofFree
      <3>. QED  BY <3>2 DEF SofFree
    <2>3. Progress(k) /\ FrameStart'[k] = FrameStart[k]
      BY <1>1, <1>3, <2>1, <2>2 DEF Contained
    <2>4. CASE Pos <= FrameStart[k]
      BY <1>2, <2>3, <2>4
    <2>5. ASSUME NEW j \in k + 1 .. Len(sent) + 1, Pos = FrameStart[j], DeliveredFrom(k, j)
          PROVE  j \in k + 1 .. Len(sent') + 1 /\ Pos' = FrameStart'[j] /\ DeliveredFrom(k, j)'
      <3>1. j \in k + 1 .. Len(sent') + 1 /\ j \in 1 .. Len(sent) + 1
        BY <1>1, <1>3
      <3>2. Pos' = FrameStart'[j]
        BY <1>1, <1>2, <2>5, <3>1
      <3>3. \A i \in 1 .. j - k : k + i - 1 \in 1 .. Len(sent)
        BY <1>3, <2>1
      <3>4. DeliveredFrom(k, j)'
        BY <1>1, <1>2, <2>5, <3>3 DEF DeliveredFrom
      <3>. QED  BY <3>1, <3>2, <3>4
    <2>. QED  BY <1>2, <2>3, <2>4, <2>5 DEF Progress
  <1>. QED  BY <1>4, <1>5

\* Damage is never before the start of the buffer, so the frames out of its reach
\* are all still to come.
LEMMA ContainedDamage ==
    ASSUME CrcIsU16, TypeOK, TypeOK', BufferIsTail, Layout, NEW i \in 1 .. Len(wire), LineDamages(i)
    PROVE  Contained'
  <1>1. lastDamage' >= Len(received) + i
    BY LayoutDamage
  <1>2. sent' = sent /\ Pos' = Pos
    BY DEF LineDamages, Pos
  <1>3. OutOfReach' = lastDamage' + 7 + MaxPayload /\ lastDamage' \in Int
    BY DEF OutOfReach, MIN_FRAME_SIZE, TypeOK
  <1>4. OutOfReach' > Pos /\ OutOfReach' \in Int /\ Pos \in Int
    <2>1. /\ Pos \in Int /\ Len(received) \in Nat /\ MaxPayload \in Nat
          /\ Len(rxBuf) \in Nat /\ Len(rxBuf) = Len(received) - Pos + 1 /\ i \in Int /\ i >= 1
      BY Places
    <2>2. Pos <= Len(received) + 1
      BY <2>1
    <2>3. lastDamage' \in Int /\ lastDamage' >= Pos
      BY <1>1, <1>3, <2>1, <2>2
    <2>4. OutOfReach' = lastDamage' + 7 + MaxPayload
      BY <1>3
    <2>5. OutOfReach' \in Int
      BY <2>1, <2>3, <2>4
    <2>6. \A x, y, p, l \in Int : y >= 0 /\ l >= p /\ x = l + 7 + y => x > p
      OBVIOUS
    <2>7. OutOfReach' > Pos
      <3>1. MaxPayload \in Int /\ MaxPayload >= 0
        BY <2>1
      <3>. QED  BY <2>1, <2>3, <2>4, <2>5, <2>6, <3>1
    <2>. QED  BY <2>1, <2>5, <2>7
  <1>5. \A k \in 1 .. Len(sent) : FrameStart'[k] \in Int
    <2>1. Len(wire') - Len(wire) \in {-1, 0, 1}
          /\ \A k \in 1 .. Len(sent) + 1 :
                FrameStart'[k] = FrameStart[k] + (Len(wire') - Len(wire))
      BY DamageMovesStarts
    <2>2. TAKE k \in 1 .. Len(sent)
    <2>3. k \in 1 .. Len(sent) + 1 /\ FrameStart[k] \in Int
      <3>1. Len(sent) \in Nat /\ \A j \in 1 .. Len(sent) + 1 : FrameStart[j] \in Int
        BY Places
      <3>. QED  BY <3>1
    <2>. QED  BY <2>1, <2>3
  <1>6. \A k \in 1 .. Len(sent') : FrameStart'[k] >= OutOfReach' => Pos' <= FrameStart'[k]
    BY <1>2, <1>4, <1>5
  <1>. QED  BY <1>6 DEF Contained, Progress

LEMMA ContainedStep ==
    ASSUME CrcIsU16, TypeOK, TypeOK', BufferIsTail, Scanned, Layout, Contained, [Next]_vars
    PROVE  Contained'
  <1>1. ASSUME NEW n \in 1 .. Len(wire), ReadChunk(n) PROVE Contained'
    <2>1. UNCHANGED <<sent, delivered, lastDamage, damages>>
      BY <1>1 DEF ReadChunk
    <2>. QED  BY <1>1, <2>1, ScannedRead, ReadKeepsStream, LayoutSteady, ContainedSteady
  <1>2. CASE UNCHANGED vars
    <2>1. UNCHANGED <<sent, delivered, lastDamage>> /\ Pos' = Pos /\ FrameStart' = FrameStart
      BY <1>2 DEF vars, Pos, FrameStart, Stream
    <2>. QED  BY <2>1, ContainedSteady
  <1>3. CASE Parses
    <2>1. UNCHANGED <<sent, lastDamage>>
      BY <1>3, ParsesKeep
    <2>2. SofFree' = SofFree
      BY <2>1 DEF SofFree
    <2>. QED  BY <1>3, <2>1, <2>2, ContainedParses DEF Contained
  <1>. QED  BY <1>1, <1>2, <1>3, ContainedSend, ContainedDamage DEF Next, Parses

\* When all has been read, the thread is not on its way to a frame out of reach.
LEMMA NothingAhead ==
    ASSUME CrcIsU16, TypeOK, BufferIsTail, Layout, SofFree, NEW k \in 1 .. Len(sent),
           FrameStart[k] >= OutOfReach, pc = "read", wire = <<>>
    PROVE  Pos > FrameStart[k]
  <1>. SUFFICES ASSUME ~ (Pos > FrameStart[k]) PROVE FALSE
    OBVIOUS
  <1>1. /\ FrameStart[k] \in Int /\ FrameStart[k] > lastDamage /\ Pos \in Int /\ lastDamage \in Nat
        /\ Len(wire) = 0
    <2>1. /\ lastDamage \in Nat /\ MaxPayload \in Nat /\ Pos \in Nat
          /\ OutOfReach = lastDamage + 7 + MaxPayload
          /\ Len(sent) \in Nat /\ \A i \in 1 .. Len(sent) + 1 : FrameStart[i] \in Int
      BY Places
    <2>2. FrameStart[k] \in Int
      BY <2>1
    <2>. QED  BY <2>1, <2>2
  <1>2. Pos # FrameStart[k]
    BY <1>1, WholeFrameAwaited
  <1>3. Pos < FrameStart[k]
    BY <1>1, <1>2
  <1>4. FrameStart[k] + Len(sent[k]) <= Len(received) + 1 /\ Len(sent[k]) \in Nat /\ Len(sent[k]) >= 7
    <2>1. Len(sent) + 1 \in k + 1 .. Len(sent) + 1
      BY Places
    <2>2. FrameStart[k] + Len(sent[k]) <= FrameStart[Len(sent) + 1]
      BY <2>1, FrameInStream DEF Layout
    <2>3. Len(sent[k]) \in 7 .. 7 + MaxPayload
      BY FrameIs DEF Layout
    <2>. QED  BY <1>1, <2>2, <2>3, Places
  <1>5. Len(rxBuf) > 7 /\ Len(rxBuf) \in Nat /\ Len(rxBuf) >= FrameStart[k] - Pos + 7
    <2>1. Len(rxBuf) \in Nat /\ Len(received) \in Nat /\ Len(rxBuf) = Len(received) - Pos + 1
      BY Places
    <2>. QED  BY <1>1, <1>3, <1>4, <2>1
  <1>6. /\ AtSof(rxBuf) /\ ClaimedPayload(rxBuf, 1) <= MaxPayload
        /\ Len(rxBuf) < ClaimedSize(rxBuf, 1)
    BY <1>5 DEF TypeOK, Unfinished, MIN_FRAME_SIZE
  <1>7. rxBuf[1] = SOF
    BY <1>5, <1>6, AtSofIs DEF TypeOK
  <1>8. Pos > lastDamage
    <2>1. 1 \in 1 .. Len(rxBuf) /\ Len(rxBuf) - 1 + 1 >= MIN_FRAME_SIZE /\ rxBuf \in Seq(Byte)
      BY <1>5 DEF MIN_FRAME_SIZE, TypeOK
    <2>2. ClaimedSize(rxBuf, 1) = 7 + ClaimedPayload(rxBuf, 1) /\ ClaimedPayload(rxBuf, 1) \in Nat
      BY <2>1, ClaimedType DEF MIN_FRAME_SIZE
    <2>3. /\ MaxPayload \in Nat /\ OutOfReach = lastDamage + 7 + MaxPayload
      BY Places
    <2>4. Len(rxBuf) < 7 + MaxPayload
      BY <1>5, <1>6, <2>2, <2>3
    <2>. QED  BY <1>1, <1>5, <2>3, <2>4
  <1>9. PICK i \in 1 .. k - 1 : Pos = FrameStart[i]
    BY <1>3, <1>5, <1>7, <1>8, AtFrameStart
  <1>10. i \in 1 .. Len(sent)
    BY Places
  <1>. QED  BY <1>8, <1>9, <1>10, WholeFrameAwaited

LEMMA ContainedMeans ==
    CrcIsU16 /\ TypeOK /\ BufferIsTail /\ Layout /\ Contained => DamageContained
  <1>. SUFFICES ASSUME CrcIsU16, TypeOK, BufferIsTail, Layout, Contained,
                       SofFree, pc = "read", wire = <<>>,
                       NEW k \in 1 .. Len(sent), FrameStart[k] >= OutOfReach
                PROVE  LET n == Len(sent) - k + 1 IN
                       /\ Len(delivered) >= n
                       /\ SubSeq(delivered, Len(delivered) - n + 1, Len(delivered))
                            = SubSeq(sent, k, Len(sent))
    BY DEF DamageContained
  <1>1. PICK j \in k + 1 .. Len(sent) + 1 : Pos = FrameStart[j] /\ DeliveredFrom(k, j)
    <2>1. Pos > FrameStart[k] /\ Pos \in Int /\ FrameStart[k] \in Int
      BY NothingAhead, Places
    <2>2. ~ (Pos <= FrameStart[k])
      BY <2>1
    <2>. QED  BY <2>2 DEF Contained, Progress
  <1>2. j = Len(sent) + 1
    <2>. SUFFICES ASSUME j # Len(sent) + 1 PROVE FALSE
      OBVIOUS
    <2>1. j \in 1 .. Len(sent) /\ j \in 1 .. Len(sent) + 1
      <3>1. Len(sent) \in Nat
        BY Places
      <3>. QED  BY <3>1
    <2>2. FrameStart[k] + Len(sent[k]) <= FrameStart[j] /\ Len(sent[k]) \in Nat
      BY FrameInStream, FrameStarts DEF Layout
    <2>3. Pos > lastDamage
      <3>1. /\ FrameStart[k] \in Int /\ FrameStart[j] \in Int /\ lastDamage \in Nat
            /\ OutOfReach = lastDamage + 7 + MaxPayload /\ MaxPayload \in Nat
        BY <2>1, Places
      <3>2. FrameStart[k] > lastDamage
        BY <3>1
      <3>. QED  BY <1>1, <2>2, <3>1, <3>2
    <2>. QED  BY <1>1, <2>1, <2>3, WholeFrameAwaited
  <1>. DEFINE n == Len(sent) - k + 1
              D == Len(delivered)
              L == Len(sent)
  <1>3. D \in Nat /\ L \in Nat /\ n \in 1 .. L /\ k = L - n + 1 /\ j - k = n
        /\ delivered \in Seq(Seq(Byte)) /\ sent \in Seq(Seq(Byte))
    BY <1>2, Places DEF TypeOK
  <1>4. D >= n /\ \A i \in 1 .. n : delivered[D - n + i] = sent[k + i - 1]
    BY <1>1, <1>3 DEF DeliveredFrom
  <1>. DEFINE a == SubSeq(delivered, (D - n) + 1, D)
              b == SubSeq(sent, (L - n) + 1, L)
  <1>5. D - n \in 0 .. D /\ L - n \in 0 .. L /\ D - (D - n) = n /\ L - (L - n) = n
    BY <1>3, <1>4
  <1>6. /\ a \in Seq(Seq(Byte)) /\ Len(a) = n /\ \A i \in 1 .. n : a[i] = delivered[(D - n) + i]
        /\ b \in Seq(Seq(Byte)) /\ Len(b) = n /\ \A i \in 1 .. n : b[i] = sent[(L - n) + i]
    <2>. DEFINE x == D - n
                y == L - n
    <2>1. x \in 0 .. D /\ y \in 0 .. L /\ D - x = n /\ L - y = n
      BY <1>5
    <2>. HIDE DEF x, y, D, L, n
    <2>2. /\ SubSeq(delivered, x + 1, D) \in Seq(Seq(Byte)) /\ Len(SubSeq(delivered, x + 1, D)) = D - x
          /\ \A i \in 1 .. D - x : SubSeq(delivered, x + 1, D)[i] = delivered[x + i]
      <3>1. delivered \in Seq(Seq(Byte)) /\ x \in 0 .. Len(delivered)
        BY <1>3, <2>1 DEF D
      <3>. QED  BY <3>1, Cut DEF D
    <2>3. /\ SubSeq(sent, y + 1, L) \in Seq(Seq(Byte)) /\ Len(SubSeq(sent, y + 1, L)) = L - y
          /\ \A i \in 1 .. L - y : SubSeq(sent, y + 1, L)[i] = sent[y + i]
      <3>1. sent \in Seq(Seq(Byte)) /\ y \in 0 .. Len(sent)
        BY <1>3, <2>1 DEF L
      <3>. QED  BY <3>1, Cut DEF L
    <2>. QED  BY <2>1, <2>2, <2>3 DEF x, y
  <1>7. \A i \in 1 .. n : sent[(L - n) + i] = sent[k + i - 1]
    <2>. TAKE i \in 1 .. n
    <2>1. (L - n) + i = k + i - 1
      BY <1>3
    <2>. HIDE DEF n, L
    <2>. QED  BY <2>1
  <1>8. a = b
    <2>. HIDE DEF a, b, n, D, L
    <2>1. Len(a) = n /\ Len(b) = n
      BY <1>6
    <2>2. \A i \in 1 .. n : a[i] = b[i]
      <3>. TAKE i \in 1 .. n
      <3>1. a[i] = delivered[(D - n) + i] /\ b[i] = sent[(L - n) + i]
        BY <1>6, Zenon
      <3>2. delivered[(D - n) + i] = sent[k + i - 1] /\ sent[(L - n) + i] = sent[k + i - 1]
        BY <1>4, <1>7, Zenon
      <3>. QED  BY <3>1, <3>2, Zenon
    <2>3. a \in Seq(Seq(Byte)) /\ b \in Seq(Seq(Byte))
      BY <1>6
    <2>. QED  BY <2>1, <2>2, <2>3, SameSeq
  <1>9. a = SubSeq(delivered, D - n + 1, D) /\ b = SubSeq(sent, k, L)
    <2>. HIDE DEF n, D, L
    <2>. QED  BY <1>3 DEF a, b
  <1>. QED  BY <1>4, <1>8, <1>9

\* Damage is contained: of messages without an SOF inside, all those whose frame
\* starts out of reach of the damage are delivered, in order, at the end of what
\* is delivered.
THEOREM DamageStaysContained == CrcIsU16 => (Spec => []DamageContained)
  <1>. SUFFICES ASSUME CrcIsU16 PROVE Spec => []DamageContained
    OBVIOUS
  <1>. DEFINE IInv == TypeOK /\ BufferIsTail /\ Scanned /\ Layout /\ Contained
  <1>1. Init => IInv
    <2>1. Init => Contained
      BY DEF Init, Contained
    <2>. QED  BY <2>1, TypeInit, ScannedInit, LayoutInit
  <1>2. IInv /\ [Next]_vars => IInv'
    BY TypeStep, ScannedStep, LayoutStep, ContainedStep
  <1>3. IInv => DamageContained
    BY ContainedMeans
  <1>. QED  BY <1>1, <1>2, <1>3, PTL DEF Spec

---------------------------------------------------------------------------
(* Nothing is forged *)

\* Where in the stream the frames delivered were found: what was read there are
\* their bytes, each behind the one before, all in front of the buffer.
FoundAt(at) ==
    \A i \in 1 .. Len(delivered) :
      /\ at[i] + Len(delivered[i]) <= Pos
      /\ \A n \in 1 .. Len(delivered[i]) : received[at[i] + n - 1] = delivered[i][n]
      /\ \A j \in 1 .. i - 1 : at[j] < at[i]
Trail ==
    /\ \A i \in 1 .. Len(delivered) : Valid(delivered[i])
    /\ \E at \in [1 .. Len(delivered) -> Nat \ {0}] : FoundAt(at)

LEMMA TrailInit == Init => Trail
  <1>. SUFFICES ASSUME Init PROVE Trail
    OBVIOUS
  <1>1. Len(delivered) = 0
    BY DEF Init
  <1>2. \A i \in 1 .. Len(delivered) : FALSE
    BY <1>1
  <1>. DEFINE none == [i \in 1 .. Len(delivered) |-> 1]
  <1>3. none \in [1 .. Len(delivered) -> Nat \ {0}]
    OBVIOUS
  <1>4. FoundAt(none)
    BY <1>2, Zenon DEF FoundAt
  <1>. HIDE DEF none
  <1>. QED  BY <1>2, <1>3, <1>4, Zenon DEF Trail

\* What was read stays read, and the buffer never goes back.
LEMMA TrailSteady ==
    ASSUME TypeOK, BufferIsTail, Trail, delivered' = delivered,
           Pos' \in Int, Pos' >= Pos,
           \A p \in 1 .. Len(received) : received'[p] = received[p]
    PROVE  Trail'
  <1>1. /\ Pos \in Nat /\ Pos <= Len(received) + 1 /\ Len(received) \in Nat
    BY TailIs
  <1>2. \A i \in 1 .. Len(delivered) : Len(delivered[i]) \in Nat
    BY DEF TypeOK
  <1>3. PICK at \in [1 .. Len(delivered) -> Nat \ {0}] : FoundAt(at)
    BY DEF Trail
  <1>4. ASSUME NEW i \in 1 .. Len(delivered)
        PROVE  /\ at[i] + Len(delivered[i]) <= Pos'
               /\ \A n \in 1 .. Len(delivered[i]) : received'[at[i] + n - 1] = delivered[i][n]
               /\ \A j \in 1 .. i - 1 : at[j] < at[i]
    <2>1. /\ at[i] + Len(delivered[i]) <= Pos
          /\ \A n \in 1 .. Len(delivered[i]) : received[at[i] + n - 1] = delivered[i][n]
          /\ \A j \in 1 .. i - 1 : at[j] < at[i]
      BY <1>3 DEF FoundAt
    <2>2. at[i] \in Nat \ {0} /\ Len(delivered[i]) \in Nat
      BY <1>2, <1>3
    <2>3. \A n \in 1 .. Len(delivered[i]) : at[i] + n - 1 \in 1 .. Len(received)
      BY <1>1, <2>1, <2>2
    <2>4. at[i] + Len(delivered[i]) <= Pos'
      BY <1>1, <2>1, <2>2
    <2>5. \A n \in 1 .. Len(delivered[i]) : received'[at[i] + n - 1] = received[at[i] + n - 1]
      BY <2>3
    <2>. QED  BY <2>1, <2>4, <2>5
  <1>5. FoundAt(at)'
    BY <1>4 DEF FoundAt
  <1>. QED  BY <1>3, <1>5 DEF Trail

\* A frame is delivered from where the buffer starts, which then starts behind it.
LEMMA TrailDeliver ==
    ASSUME TypeOK, BufferIsTail, Scanned, Trail, DeliverFrame
    PROVE  Trail'
  <1>. DEFINE D == Len(delivered)
              f == Candidate
  <1>1. /\ f \in Seq(Byte) /\ Valid(f) /\ delivered' = Append(delivered, f)
        /\ received' = received /\ Pos' = Pos + Len(f)
        /\ Len(f) <= Len(rxBuf) /\ \A n \in 1 .. Len(f) : f[n] = rxBuf[n]
    <2>1. CandidateRead /\ rxBuf \in Seq(Byte)
      BY DEF DeliverFrame, TypeOK
    <2>. QED  BY <2>1, CandidateType, ScannedDeliver DEF DeliverFrame
  <1>2. /\ Pos \in Nat \ {0} /\ Len(received) \in Nat /\ Len(rxBuf) \in Nat
        /\ \A n \in 1 .. Len(rxBuf) : rxBuf[n] = received[Pos + n - 1]
    BY TailIs
  <1>3. /\ delivered \in Seq(Seq(Byte)) /\ D \in Nat /\ \A i \in 1 .. D : Len(delivered[i]) \in Nat
    BY DEF TypeOK
  <1>4. PICK at \in [1 .. D -> Nat \ {0}] : FoundAt(at)
    BY DEF Trail
  <1>. HIDE DEF f
  <1>5. /\ Len(delivered') = D + 1 /\ delivered'[D + 1] = f
        /\ \A i \in 1 .. D : delivered'[i] = delivered[i]
    BY <1>1, <1>3, Appended
  <1>6. Len(f) \in Nat
    BY <1>1
  <1>. HIDE DEF D
  <1>7. PICK to \in [1 .. D + 1 -> Nat \ {0}] : to[D + 1] = Pos /\ \A i \in 1 .. D : to[i] = at[i]
    <2>. DEFINE t == [i \in 1 .. D + 1 |-> IF i = D + 1 THEN Pos ELSE at[i]]
    <2>1. /\ t \in [1 .. D + 1 -> Nat \ {0}] /\ t[D + 1] = Pos
          /\ \A i \in 1 .. D : t[i] = at[i]
      BY <1>2, <1>3, <1>4
    <2>. HIDE DEF t
    <2>. QED  BY <2>1
  <1>v. \A i \in 1 .. D + 1 : Valid(delivered'[i])
    <2>. TAKE i \in 1 .. D + 1
    <2>1. CASE i = D + 1
      BY <1>1, <1>5, <2>1
    <2>2. CASE i # D + 1
      <3>1. i \in 1 .. D
        BY <1>3, <2>2
      <3>. QED  BY <1>5, <3>1 DEF Trail, D
    <2>. QED  BY <2>1, <2>2
  <1>8. ASSUME NEW i \in 1 .. D + 1
        PROVE  /\ to[i] + Len(delivered'[i]) <= Pos'
               /\ \A n \in 1 .. Len(delivered'[i]) : received'[to[i] + n - 1] = delivered'[i][n]
               /\ \A j \in 1 .. i - 1 : to[j] < to[i]
    <2>1. CASE i = D + 1
      <3>1. to[i] = Pos /\ delivered'[i] = f
        BY <1>5, <1>7, <2>1
      <3>2. \A n \in 1 .. Len(f) : received[Pos + n - 1] = f[n]
        <4>. TAKE n \in 1 .. Len(f)
        <4>1. n \in 1 .. Len(rxBuf)
          BY <1>1, <1>2, <1>6
        <4>. QED  BY <1>1, <1>2, <4>1
      <3>3. \A j \in 1 .. D : at[j] < Pos
        <4>. TAKE j \in 1 .. D
        <4>1. at[j] + Len(delivered[j]) <= Pos /\ at[j] \in Nat /\ Len(delivered[j]) \in Nat
          BY <1>3, <1>4 DEF FoundAt, D
        <4>2. Len(delivered[j]) >= 7
          BY DEF Trail, Valid, MIN_FRAME_SIZE, D
        <4>. QED  BY <1>2, <4>1, <4>2
      <3>4. \A j \in 1 .. i - 1 : to[j] < to[i]
        <4>1. i - 1 = D
          BY <1>3, <2>1
        <4>. QED  BY <1>7, <3>1, <3>3, <4>1
      <3>. QED  BY <1>1, <1>2, <1>6, <3>1, <3>2, <3>4
    <2>2. CASE i # D + 1
      <3>1. i \in 1 .. D /\ \A j \in 1 .. i - 1 : j \in 1 .. D
        BY <1>3, <2>2
      <3>2. /\ at[i] + Len(delivered[i]) <= Pos
            /\ \A n \in 1 .. Len(delivered[i]) : received[at[i] + n - 1] = delivered[i][n]
            /\ \A j \in 1 .. i - 1 : at[j] < at[i]
        BY <1>4, <3>1 DEF FoundAt, D
      <3>3. to[i] = at[i] /\ delivered'[i] = delivered[i] /\ \A j \in 1 .. i - 1 : to[j] = at[j]
        BY <1>5, <1>7, <3>1
      <3>4. at[i] \in Nat /\ Len(delivered[i]) \in Nat /\ Pos' >= Pos /\ Pos' \in Int
        BY <1>1, <1>2, <1>3, <1>4, <1>6, <3>1
      <3>5. at[i] + Len(delivered[i]) <= Pos'
        BY <1>2, <3>2, <3>4
      <3>. QED  BY <1>1, <3>2, <3>3, <3>5
    <2>. QED  BY <2>1, <2>2
  <1>9. FoundAt(to)'
    BY <1>5, <1>8 DEF FoundAt
  <1>. QED  BY <1>5, <1>7, <1>9, <1>v DEF Trail

LEMMA TrailStep ==
    ASSUME TypeOK, BufferIsTail, Scanned, Trail, [Next]_vars
    PROVE  Trail'
  <1>1. Pos \in Nat /\ received \in Seq(Byte) /\ rxBuf \in Seq(Byte)
    BY TailIs DEF TypeOK
  <1>2. CASE UNCHANGED <<received, rxBuf, delivered>>
    <2>1. Pos' = Pos
      BY <1>2 DEF Pos
    <2>. QED  BY <1>1, <1>2, <2>1, TrailSteady
  <1>3. ASSUME NEW n \in 1 .. Len(wire), ReadChunk(n) PROVE Trail'
    <2>1. SubSeq(wire, 1, n) \in Seq(Byte)
      <3>1. wire \in Seq(Byte) /\ n \in 0 .. Len(wire)
        BY DEF TypeOK
      <3>. QED  BY <3>1, Cut
    <2>2. received' = received \o SubSeq(wire, 1, n) /\ delivered' = delivered
      BY <1>3 DEF ReadChunk
    <2>3. \A p \in 1 .. Len(received) : received'[p] = received[p]
      BY <1>1, <2>1, <2>2, Joined
    <2>4. Pos' = Pos
      BY <1>3, ScannedRead
    <2>. QED  BY <1>1, <2>2, <2>3, <2>4, TrailSteady
  <1>4. CASE SkipNoise
    <2>1. Noise(rxBuf) \in Nat
      BY <1>1, NoiseEnds
    <2>2. Pos' = Pos + Noise(rxBuf)
      BY <1>4, ScannedSkip
    <2>. QED  BY <1>1, <1>4, <2>1, <2>2, TrailSteady DEF SkipNoise
  <1>5. CASE RejectLength
    <2>1. Pos' = Pos + 1
      BY <1>5, ScannedReject
    <2>. QED  BY <1>1, <1>5, <2>1, TrailSteady DEF RejectLength
  <1>6. CASE DropCandidate
    <2>1. Candidate \in Seq(Byte)
      BY <1>1, <1>6, CandidateType DEF DropCandidate
    <2>2. Pos' = Pos + Len(Candidate)
      BY <1>6, ScannedDrop
    <2>. QED  BY <1>1, <1>6, <2>1, <2>2, TrailSteady DEF DropCandidate
  <1>7. CASE DeliverFrame
    BY <1>7, TrailDeliver
  <1>8. ASSUME NEW m \in Messages, MasterSends(m) PROVE Trail'
    BY <1>2, <1>8 DEF MasterSends
  <1>9. ASSUME NEW k \in 1 .. Len(wire), LineDamages(k) PROVE Trail'
    BY <1>2, <1>9 DEF LineDamages
  <1>10. CASE AwaitBytes
    BY <1>2, <1>10 DEF AwaitBytes
  <1>11. CASE UNCHANGED vars
    BY <1>2, <1>11 DEF vars
  <1>. QED
    BY <1>3, <1>4, <1>5, <1>6, <1>7, <1>8, <1>9, <1>10, <1>11 DEF Next

\* Behind the damage every SOF in the stream is the start of a frame.
LEMMA SofIsStart ==
    ASSUME CrcIsU16, TypeOK, Layout, SofFree,
           NEW p \in 1 .. Len(Stream), p > lastDamage, Stream[p] = SOF
    PROVE  \E k \in 1 .. Len(sent) : FrameStart[k] = p
  <1>. DEFINE N == Len(sent)
              w == Widths(sent)
              end == Len(Stream) + 1
              st == FrameStart
  <1>1. /\ N \in Nat /\ w \in [1 .. N -> Nat] /\ end \in Int /\ Ladder(N, w, end, st)
        /\ st[N + 1] = end /\ Len(Stream) \in Nat
        /\ \A k \in 1 .. N + 1 : st[k] \in Int
        /\ \A k \in 1 .. N : st[k + 1] = st[k] + Len(sent[k]) /\ sent[k] \in Seq(Byte)
    <2>1. Len(Stream) \in Nat /\ end \in Int
      BY FrameStarts
    <2>. QED  BY <2>1, FrameStarts
  <1>2. st[1] <= p /\ p < st[N + 1] /\ p \in Int
    <2>1. st[1] <= lastDamage + 1 /\ lastDamage \in Nat
      BY DEF Layout, Anchored, TypeOK
    <2>2. st[1] \in Int
      BY <1>1
    <2>. QED  BY <1>1, <2>1, <2>2
  <1>3. PICK k \in 1 .. N : st[k] <= p /\ p < st[k + 1]
    <2>. HIDE DEF N, w, end, st
    <2>1. N + 1 \in 1 .. N + 1 /\ (N + 1) - 1 = N
      BY <1>1
    <2>2. \E k \in 1 .. (N + 1) - 1 : st[k] <= p /\ p < st[k + 1]
      BY <1>1, <1>2, <2>1, LadderLocate
    <2>. QED  BY <2>1, <2>2
  <1>. DEFINE j == p - st[k] + 1
  <1>4. j \in 1 .. Len(sent[k]) /\ st[k] + j - 1 = p /\ st[k] \in Int
    <2>1. /\ st[k] \in Int /\ p \in Int /\ Len(sent[k]) \in Nat
          /\ st[k] <= p /\ p < st[k] + Len(sent[k])
      BY <1>1, <1>2, <1>3
    <2>. QED  BY <2>1
  <1>. HIDE DEF j
  <1>5. Stream[p] = sent[k][j]
    <2>1. st[k] + j - 1 > lastDamage
      BY <1>4
    <2>. QED  BY <1>4, <2>1 DEF Layout, BeyondIntact
  <1>6. j = 1
    <2>. SUFFICES ASSUME j # 1 PROVE FALSE
      OBVIOUS
    <2>1. j \in 2 .. Len(sent[k])
      BY <1>1, <1>4
    <2>. QED  BY <1>5, <2>1 DEF SofFree
  <1>7. st[k] = p
    BY <1>2, <1>4, <1>6
  <1>. QED  BY <1>7

\* Behind the damage the stream has the frame k, so that is all it can show there.
LEMMA FrameBehindDamage ==
    ASSUME CrcIsU16, TypeOK, Layout, NEW k \in 1 .. Len(sent), FrameStart[k] > lastDamage,
           NEW f \in Seq(Byte), Valid(f),
           \A n \in 1 .. Len(f) : Stream[FrameStart[k] + n - 1] = f[n]
    PROVE  f = sent[k]
  <1>1. /\ sent[k] \in Seq(Byte) /\ Len(sent[k]) \in Nat /\ Len(sent[k]) >= 7
        /\ ClaimedPayload(sent[k], 1) = Len(sent[k]) - 7
    <2>1. Len(sent[k]) \in 7 .. 7 + MaxPayload
      BY FrameIs DEF Layout
    <2>. QED  BY <2>1, FrameIs, MaxPayloadAssumption DEF Layout
  <1>2. Len(f) \in Nat /\ Len(f) >= 7 /\ Len(f) = 7 + ClaimedPayload(f, 1)
    BY DEF Valid, MIN_FRAME_SIZE, ClaimedSize
  <1>3. /\ FrameStart[k] \in Int /\ lastDamage \in Nat
    <2>1. k \in 1 .. Len(sent) + 1
      BY FrameStarts
    <2>. QED  BY <2>1, FrameStarts DEF TypeOK
  <1>4. \A n \in 1 .. Len(f) : n <= Len(sent[k]) => f[n] = sent[k][n]
    <2>. TAKE n \in 1 .. Len(f)
    <2>. HAVE n <= Len(sent[k])
    <2>1. n \in 1 .. Len(sent[k]) /\ FrameStart[k] + n - 1 > lastDamage
      BY <1>1, <1>2, <1>3
    <2>2. Stream[FrameStart[k] + n - 1] = sent[k][n]
      BY <2>1 DEF Layout, BeyondIntact
    <2>. QED  BY <2>2
  <1>5. ClaimedPayload(f, 1) = ClaimedPayload(sent[k], 1)
    <2>1. /\ 2 \in 1 .. Len(f) /\ 2 <= Len(sent[k]) /\ 3 \in 1 .. Len(f) /\ 3 <= Len(sent[k])
          /\ 1 + 1 = 2 /\ 1 + 2 = 3
      BY <1>1, <1>2
    <2>2. f[2] = sent[k][2] /\ f[3] = sent[k][3]
      BY <1>4, <2>1
    <2>. QED  BY <2>1, <2>2 DEF ClaimedPayload
  <1>6. Len(f) = Len(sent[k])
    BY <1>1, <1>2, <1>5
  <1>7. \A n \in 1 .. Len(f) : f[n] = sent[k][n]
    BY <1>2, <1>4, <1>6
  <1>. QED  BY <1>1, <1>6, <1>7, SameSeq

\* The frames start one behind the other.
LEMMA StartsInOrder ==
    ASSUME CrcIsU16, TypeOK, Layout, NEW k \in 1 .. Len(sent), NEW m \in 1 .. Len(sent),
           FrameStart[k] < FrameStart[m]
    PROVE  k < m
  <1>1. Len(sent) \in Nat /\ k \in 1 .. Len(sent) + 1 /\ m \in 1 .. Len(sent) + 1
    BY FrameStarts
  <1>2. FrameStart[m] \in Int /\ FrameStart[k] \in Int
    BY <1>1, FrameStarts
  <1>3. k # m
    BY <1>2
  <1>4. ~ (m < k)
    <2>. SUFFICES ASSUME m < k PROVE FALSE
      OBVIOUS
    <2>1. k \in m + 1 .. Len(sent) + 1
      BY <1>1
    <2>2. FrameStart[m] + Len(sent[m]) <= FrameStart[k] /\ Len(sent[m]) \in Nat
      BY <2>1, FrameInStream, FrameStarts DEF Layout
    <2>. QED  BY <1>2, <2>2
  <1>. QED  BY <1>1, <1>3, <1>4

\* A frame that was delivered from the stream's byte p is still there.
LEMMA StillThere ==
    ASSUME TypeOK, BufferIsTail, NEW f \in Seq(Byte), Valid(f), NEW p \in Nat \ {0},
           p + Len(f) <= Pos, \A n \in 1 .. Len(f) : received[p + n - 1] = f[n]
    PROVE  /\ \A n \in 1 .. Len(f) : Stream[p + n - 1] = f[n]
           /\ p \in 1 .. Len(Stream) /\ Stream[p] = SOF
           /\ Complete(Stream, p) /\ FrameAt(Stream, p) = f
  <1>1. /\ received \in Seq(Byte) /\ wire \in Seq(Byte) /\ Stream \in Seq(Byte)
        /\ Len(Stream) = Len(received) + Len(wire) /\ Len(received) \in Nat /\ Len(wire) \in Nat
        /\ \A i \in 1 .. Len(received) : Stream[i] = received[i]
    BY Joined DEF TypeOK, Stream
  <1>2. /\ Len(f) \in Nat /\ Len(f) >= 7 /\ Len(f) = 7 + ClaimedPayload(f, 1) /\ f[1] = SOF
    BY DEF Valid, MIN_FRAME_SIZE, ClaimedSize
  <1>3. Pos \in Nat /\ Pos <= Len(received) + 1
    BY TailIs
  <1>4. \A n \in 1 .. Len(f) : Stream[p + n - 1] = f[n]
    <2>. TAKE n \in 1 .. Len(f)
    <2>1. p + n - 1 \in 1 .. Len(received)
      BY <1>1, <1>2, <1>3
    <2>. QED  BY <1>1, <2>1
  <1>5. p \in 1 .. Len(Stream) /\ p + Len(f) <= Len(Stream) + 1
    BY <1>1, <1>2, <1>3
  <1>6. Stream[p] = SOF /\ Stream[p + 1] = f[2] /\ Stream[p + 2] = f[3]
    <2>1. 1 \in 1 .. Len(f) /\ 2 \in 1 .. Len(f) /\ 3 \in 1 .. Len(f)
      BY <1>2
    <2>2. p + 1 - 1 = p /\ p + 2 - 1 = p + 1 /\ p + 3 - 1 = p + 2
      OBVIOUS
    <2>. QED  BY <1>2, <1>4, <2>1, <2>2
  <1>7. ClaimedSize(Stream, p) = Len(f)
    <2>1. 1 + 1 = 2 /\ 1 + 2 = 3
      OBVIOUS
    <2>2. ClaimedPayload(Stream, p) = ClaimedPayload(f, 1)
      BY <1>6, <2>1 DEF ClaimedPayload
    <2>. QED  BY <1>2, <2>2 DEF ClaimedSize, MIN_FRAME_SIZE
  <1>8. Complete(Stream, p)
    BY <1>1, <1>2, <1>5, <1>6, <1>7 DEF Complete, MIN_FRAME_SIZE
  <1>9. FrameAt(Stream, p) = f
    <2>. DEFINE s == Stream
                last == p + Len(f) - 1
                g == SubSeq(s, p, last)
    <2>1. FrameAt(Stream, p) = g
      BY <1>7 DEF FrameAt
    <2>2. s \in Seq(Byte) /\ last \in p .. Len(s) /\ last - p + 1 = Len(f) /\ p \in 1 .. Len(s)
      BY <1>1, <1>2, <1>5
    <2>3. \A n \in 1 .. Len(f) : s[p + n - 1] = f[n]
      BY <1>4
    <2>. HIDE DEF s, last
    <2>4. g \in Seq(Byte) /\ Len(g) = last - p + 1 /\ \A n \in 1 .. last - p + 1 : g[n] = s[p + n - 1]
      BY <2>2
    <2>. HIDE DEF g
    <2>5. g = f
      BY <2>2, <2>3, <2>4, SameSeq
    <2>. QED  BY <2>1, <2>5
  <1>. QED  BY <1>4, <1>5, <1>6, <1>8, <1>9

\* What was delivered from up to the last damage is what the CRC let through, the
\* rest are the frames behind it.
LEMMA TrailMeans ==
    ASSUME CrcIsU16, TypeOK, BufferIsTail, Layout, Trail, DamageDetected
    PROVE  NothingForged
  <1>. SUFFICES ASSUME SofFree
               PROVE  \E from \in [1 .. Len(delivered) -> 1 .. Len(sent)] :
                        \A i \in 1 .. Len(delivered) :
                          delivered[i] = sent[from[i]] /\ \A j \in 1 .. i - 1 : from[j] < from[i]
    BY DEF NothingForged
  <1>. DEFINE D == 1 .. Len(delivered)
              K == 1 .. Len(sent)
              valid == {p \in 1 .. lastDamage : Complete(Stream, p) /\ Valid(FrameAt(Stream, p))}
  <1>1. PICK at \in [D -> Nat \ {0}] : FoundAt(at)
    BY DEF Trail
  <1>2. PICK old \in [valid -> K] : \A p \in valid :
          /\ FrameAt(Stream, p) = sent[old[p]] /\ FrameStart[old[p]] <= lastDamage
          /\ \A q \in valid : p < q => old[p] < old[q]
    BY DEF DamageDetected
  <1>3. ASSUME NEW i \in D
        PROVE  /\ delivered[i] \in Seq(Byte) /\ Valid(delivered[i])
               /\ \A n \in 1 .. Len(delivered[i]) : Stream[at[i] + n - 1] = delivered[i][n]
               /\ at[i] \in 1 .. Len(Stream) /\ Stream[at[i]] = SOF
               /\ Complete(Stream, at[i]) /\ FrameAt(Stream, at[i]) = delivered[i]
    <2>1. delivered[i] \in Seq(Byte) /\ Valid(delivered[i]) /\ at[i] \in Nat \ {0}
      <3>1. delivered[i] \in Seq(Byte)
        <4>1. delivered \in Seq(Seq(Byte))
          BY DEF TypeOK
        <4>. QED  BY <4>1
      <3>2. Valid(delivered[i])
        BY DEF Trail
      <3>. QED  BY <1>1, <3>1, <3>2
    <2>2. /\ at[i] + Len(delivered[i]) <= Pos
          /\ \A n \in 1 .. Len(delivered[i]) : received[at[i] + n - 1] = delivered[i][n]
      BY <1>1 DEF FoundAt
    <2>. QED  BY <2>1, <2>2, StillThere
  <1>. HIDE DEF valid
  <1>4. lastDamage \in Nat /\ Len(Stream) \in Nat /\ \A k \in K : FrameStart[k] \in Int
    <2>1. \A k \in K : k \in 1 .. Len(sent) + 1
      BY FrameStarts
    <2>. QED  BY <2>1, FrameStarts DEF TypeOK
  <1>5. \A i \in D : at[i] <= lastDamage => at[i] \in valid
    BY <1>3, <1>4 DEF valid
  <1>6. \A i \in D : \E k \in K :
          /\ delivered[i] = sent[k]
          /\ at[i] <= lastDamage => k = old[at[i]]
          /\ at[i] > lastDamage => FrameStart[k] = at[i]
    <2>. TAKE i \in D
    <2>1. CASE at[i] <= lastDamage
      <3>1. old[at[i]] \in K /\ delivered[i] = sent[old[at[i]]]
        BY <1>2, <1>3, <1>5, <2>1
      <3>. QED  BY <1>3, <1>4, <2>1, <3>1
    <2>2. CASE at[i] > lastDamage
      <3>1. PICK k \in K : FrameStart[k] = at[i]
        BY <1>3, <2>2, SofIsStart
      <3>2. delivered[i] = sent[k]
        <4>. DEFINE f == delivered[i]
        <4>1. f \in Seq(Byte) /\ Valid(f) /\ \A n \in 1 .. Len(f) : Stream[at[i] + n - 1] = f[n]
          BY <1>3
        <4>2. FrameStart[k] > lastDamage
          BY <2>2, <3>1
        <4>. HIDE DEF f
        <4>3. \A n \in 1 .. Len(f) : Stream[FrameStart[k] + n - 1] = f[n]
          BY <3>1, <4>1
        <4>4. f = sent[k]
          BY <4>1, <4>2, <4>3, FrameBehindDamage
        <4>. QED  BY <4>4 DEF f
      <3>. QED  BY <1>3, <1>4, <2>2, <3>1, <3>2
    <2>. QED  BY <1>3, <1>4, <2>1, <2>2
  <1>. DEFINE from == [i \in D |-> CHOOSE k \in K :
                         /\ delivered[i] = sent[k]
                         /\ at[i] <= lastDamage => k = old[at[i]]
                         /\ at[i] > lastDamage => FrameStart[k] = at[i]]
  <1>7. \A i \in D :
          /\ from[i] \in K /\ delivered[i] = sent[from[i]]
          /\ at[i] <= lastDamage => from[i] = old[at[i]]
          /\ at[i] > lastDamage => FrameStart[from[i]] = at[i]
    <2>. TAKE i \in D
    <2>. DEFINE P(k) == /\ delivered[i] = sent[k]
                        /\ at[i] <= lastDamage => k = old[at[i]]
                        /\ at[i] > lastDamage => FrameStart[k] = at[i]
    <2>1. from[i] = CHOOSE k \in K : P(k)
      OBVIOUS
    <2>2. \E k \in K : P(k)
      BY <1>6
    <2>. HIDE DEF P, from, D, K
    <2>3. from[i] \in K /\ P(from[i])
      BY <2>1, <2>2
    <2>. QED  BY <2>3 DEF P
  <1>8. from \in [D -> K]
    BY <1>7, Zenon
  <1>. HIDE DEF from
  <1>9. ASSUME NEW i \in D, NEW j \in 1 .. i - 1 PROVE from[j] < from[i]
    <2>1. j \in D /\ at[j] < at[i]
      <3>1. \A x \in 1 .. i - 1 : at[x] < at[i]
        BY <1>1 DEF FoundAt
      <3>2. j \in D
        BY DEF TypeOK
      <3>. QED  BY <3>1, <3>2
    <2>2. at[i] \in Nat /\ at[j] \in Nat
      BY <1>3, <2>1, <1>4
    <2>3. CASE at[i] <= lastDamage
      <3>1. at[j] <= lastDamage
        BY <1>4, <2>1, <2>2, <2>3
      <3>2. at[i] \in valid /\ at[j] \in valid
        BY <1>5, <2>1, <2>3, <3>1
      <3>. QED  BY <1>2, <1>7, <2>1, <2>3, <3>1, <3>2
    <2>4. CASE at[i] > lastDamage
      <3>1. FrameStart[from[i]] = at[i]
        BY <1>7, <2>4
      <3>2. FrameStart[from[j]] < at[i]
        <4>1. CASE at[j] <= lastDamage
          <5>1. FrameStart[old[at[j]]] <= lastDamage /\ from[j] = old[at[j]]
            BY <1>2, <1>5, <1>7, <2>1, <4>1
          <5>. QED  BY <1>4, <1>7, <2>1, <2>2, <2>4, <5>1
        <4>2. CASE at[j] > lastDamage
          BY <1>7, <2>1, <4>2
        <4>. QED  BY <1>4, <2>2, <4>1, <4>2
      <3>3. from[i] \in K /\ from[j] \in K
        BY <1>7, <2>1
      <3>. QED  BY <3>1, <3>2, <3>3, StartsInOrder
    <2>. QED  BY <1>4, <2>2, <2>3, <2>4
  <1>. QED  BY <1>7, <1>8, <1>9

\* As long as the CRC lets nothing damaged through, whatever the line does the main
\* loop gets frames that the master sent, each at most once and in their order.
THEOREM DamageForgesNothing ==
    CrcIsU16 => (Spec /\ []DamageDetected => []NothingForged)
  <1>. SUFFICES ASSUME CrcIsU16 PROVE Spec /\ []DamageDetected => []NothingForged
    OBVIOUS
  <1>. DEFINE IInv == TypeOK /\ BufferIsTail /\ Scanned /\ Layout /\ Trail
  <1>1. Init => IInv
    BY TypeInit, ScannedInit, LayoutInit, TrailInit
  <1>2. IInv /\ [Next]_vars => IInv'
    BY TypeStep, ScannedStep, LayoutStep, TrailStep
  <1>3. IInv /\ DamageDetected => NothingForged
    BY TrailMeans
  <1>. QED  BY <1>1, <1>2, <1>3, PTL DEF Spec
=============================================================================
