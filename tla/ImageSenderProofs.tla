--------------------------- MODULE ImageSenderProofs ---------------------------
(***************************************************************************)
(* Proofs about BitbltEncoder, for packets, URBs and images of any size,   *)
(* any number of tickets and any way the image is cut into calls; and      *)
(* about ImageSender, which puts the run-length encoder before it.         *)
(***************************************************************************)
EXTENDS ImageSender, FiniteSetTheorems, TLAPS

(* What is proved of the run-length encoder.  RleEncoderProofs speaks of   *)
(* the SDK's encoder too, which has no part here.                          *)
RP == INSTANCE RleEncoderProofs WITH sections <- <<>>, lastPixelValue <- 0

-----------------------------------------------------------------------------
(* The packet encoder.                                                     *)

(* TypeOK, with the type of what was submitted and without the bounds of   *)
(* the model.                                                              *)
Shape ==
  /\ pool \subseteq Tickets
  /\ flight \subseteq Tickets
  /\ buffer \in [1..TicketSize -> Int]
  /\ length \in [Tickets -> 0..TicketSize]
  /\ bundle \in Seq(Tickets)
  /\ ticket \in Tickets \union {NoTicket}
  /\ packet_pos \in 0..packet_size_factor - 1
  /\ encoded_pos \in 0..MaxPacket - 1
  /\ estimate \in Nat \intersect (Payloads \union {0})
  /\ given \in Nat
  /\ count \in Nat
  /\ wire \in Seq(Int)
  /\ phase \in {"idle", "encode", "sent", "abort", "bug"}

(* A ticket is in one place, and once.                                     *)
OneOwner ==
  /\ pool \intersect flight = {}
  /\ ToSet(bundle) \intersect (pool \union flight) = {}
  /\ IsInjective(bundle)

(* A ticket that may be encoded into has the length of its whole buffer.   *)
FullLength == \A t \in pool \union ToSet(bundle) : length[t] = TicketSize

(* The encoder has tickets as long as it encodes, and the calls stay       *)
(* within the payload they were bought for.                                *)
Bought ==
  /\ phase # "encode" => bundle = <<>>
  /\ phase = "encode" =>
       /\ bundle # <<>>
       /\ ticket = bundle[1]
       /\ Len(bundle) <= RequiredTickets(estimate)
       /\ (CommandSize - HeaderSize) + (given + count) <= estimate

(* The tickets of this transfer that were submitted, and the packets that  *)
(* are full.                                                               *)
SentTickets == RequiredTickets(estimate) - Len(bundle)
FullPackets == SentTickets * packet_size_factor + packet_pos

(* Where the encoder is in the stream.                                     *)
Position ==
  phase = "encode" =>
    /\ Len(wire) = SentTickets * TicketSize
    /\ encoded_pos >= HeaderSize
    /\ given + CommandSize = FullPackets * PayloadPerPacket + encoded_pos

(* The i-th byte the device should get.                                    *)
Expected(i) ==
  IF i <= CommandSize THEN CommandByte
  ELSE IF (i - 1) % MaxPacket < HeaderSize THEN Continuation
  ELSE i - HeaderSize * (1 + (i - 1) \div MaxPacket) - (CommandSize - HeaderSize)

(* What was submitted and what is encoded is what the device should get.   *)
Content ==
  phase = "encode" =>
    /\ \A i \in 1..Len(wire) : wire[i] = Expected(i)
    /\ \A i \in 1..transfer_size : buffer[i] = Expected(Len(wire) + i)

IInv ==
  /\ Shape
  /\ OneOwner
  /\ FullLength
  /\ Bought
  /\ Position
  /\ Content
  /\ DeviceGetsImage
  /\ BugOnlyWhenFull

-----------------------------------------------------------------------------
(* Sizes.                                                                  *)

(* A packet holds the command, a URB at least one packet, and a packet at  *)
(* least one byte.                                                         *)
LEMMA Sizes ==
  /\ MaxPacket \in Nat /\ HeaderSize \in Nat /\ CommandSize \in Nat
  /\ 0 < HeaderSize /\ HeaderSize < CommandSize /\ CommandSize < MaxPacket
  /\ PayloadPerPacket \in Nat /\ PayloadPerPacket > 0
  /\ PayloadPerPacket = MaxPacket - HeaderSize
  /\ packet_size_factor \in Nat /\ packet_size_factor > 0
  /\ TicketSize \in Nat /\ TicketSize = packet_size_factor * MaxPacket
  /\ PayloadPerTicket = packet_size_factor * PayloadPerPacket
<1>1. /\ MaxPacket \in Nat /\ MaxTransfer \in Nat /\ MaxPacket <= MaxTransfer
      /\ HeaderSize \in Nat /\ CommandSize \in Nat
      /\ 0 < HeaderSize /\ HeaderSize < CommandSize /\ CommandSize < MaxPacket
  BY SizingAssumption
<1> DEFINE q == MaxTransfer \div MaxPacket
<1>2. q \in Int /\ MaxPacket * q <= MaxTransfer /\ MaxTransfer < MaxPacket * q + MaxPacket
  BY <1>1, SMT
<1>3. q = packet_size_factor
  BY DEF packet_size_factor
<1> HIDE DEF q
<1>4. q > 0
  <2>1. ASSUME q <= 0 PROVE FALSE
    <3>1. MaxPacket * q <= 0
      BY <1>1, <1>2, <2>1
    <3>2. QED
      BY <1>1, <1>2, <3>1
  <2>2. QED
    BY <1>2, <2>1
<1>5. QED
  BY <1>1, <1>2, <1>3, <1>4 DEF PayloadPerPacket, TicketSize, PayloadPerTicket

(* Rounding up covers what is divided, and is positive for something.      *)
LEMMA RoundUpCovers ==
  ASSUME NEW n \in Nat, n > 0, NEW d \in Nat, d > 0
  PROVE  /\ RoundUpDiv(n, d) \in Nat /\ RoundUpDiv(n, d) > 0
         /\ n <= RoundUpDiv(n, d) * d
<1> DEFINE q == (n + d - 1) \div d
<1>1. q \in Int /\ d * q <= n + d - 1 /\ n + d - 1 < d * q + d
  BY SMT
<1>2. RoundUpDiv(n, d) = q
  BY DEF RoundUpDiv
<1> HIDE DEF q
<1>3. d * q \in Int /\ n <= d * q /\ d * q = q * d
  BY <1>1
<1>4. q > 0
  <2>1. ASSUME q <= 0 PROVE FALSE
    <3>1. d * q <= 0
      BY <1>1, <2>1
    <3>2. QED
      BY <1>3, <3>1
  <2>2. QED
    BY <1>1, <2>1
<1>5. QED
  BY <1>1, <1>2, <1>3, <1>4

(* The tickets bought for a payload have room for it.                      *)
LEMMA TicketsHold ==
  ASSUME NEW n \in Nat, n > 0
  PROVE  /\ RequiredTickets(n) \in Nat /\ RequiredTickets(n) > 0
         /\ n <= RequiredTickets(n) * PayloadPerTicket
<1> DEFINE c == PacketCount(n)
           r == RequiredTickets(n)
           f == packet_size_factor
           d == PayloadPerPacket
<1>1. f \in Nat /\ f > 0 /\ d \in Nat /\ d > 0 /\ PayloadPerTicket = f * d
  BY Sizes
<1>2. c \in Nat /\ c > 0 /\ n <= c * d
  BY <1>1, RoundUpCovers DEF PacketCount
<1>3. r = RoundUpDiv(c, f)
  BY DEF RequiredTickets
<1> HIDE DEF c, r, f, d
<1>4. r \in Nat /\ r > 0 /\ c <= r * f
  BY <1>1, <1>2, <1>3, RoundUpCovers
<1>5. c * d <= r * (f * d)
  <2>1. r * f \in Nat /\ (r * f - c) * d >= 0
    BY <1>1, <1>2, <1>4
  <2>2. (r * f - c) * d = r * (f * d) - c * d
    BY <1>1, <1>2, <1>4
  <2>3. c * d \in Int /\ r * (f * d) \in Int
    BY <1>1, <1>2, <1>4
  <2>4. QED
    BY <2>1, <2>2, <2>3
<1>6. QED
  <2>1. c * d \in Int /\ r * (f * d) \in Int
    BY <1>1, <1>2, <1>4
  <2>2. n <= r * (f * d)
    BY <1>2, <1>5, <2>1
  <2>3. QED
    BY <1>1, <1>4, <2>2 DEF r

(* Quotient and remainder are unique.                                      *)
LEMMA QuotientUnique ==
  ASSUME NEW q \in Int, NEW m \in Nat, m > 0, NEW r \in Nat, r < m
  PROVE  (q * m + r) \div m = q /\ (q * m + r) % m = r
<1> DEFINE n == q * m + r
           x == n \div m
           y == n % m
<1>1. n \in Int /\ x \in Int /\ y \in 0..m - 1 /\ n = m * x + y
  BY SMT
<1>2. n = q * m + r
  OBVIOUS
<1> HIDE DEF n, x, y
<1>3. m * (x - q) = r - y
  <2>1. m * (x - q) = m * x - q * m
    BY <1>1
  <2>2. m * x \in Int /\ q * m \in Int
    BY <1>1
  <2>3. QED
    BY <1>1, <1>2, <2>1, <2>2
<1>4. r - y < m /\ r - y > -m
  BY <1>1
<1>5. x = q
  <2>1. ASSUME x - q >= 1 PROVE FALSE
    <3>1. m * (x - q) >= m
      BY <1>1, <2>1
    <3>2. QED
      BY <1>1, <1>3, <1>4, <3>1
  <2>2. ASSUME x - q <= -1 PROVE FALSE
    <3>1. m * (x - q) <= -m
      BY <1>1, <2>2
    <3>2. QED
      BY <1>1, <1>3, <1>4, <3>1
  <2>3. QED
    BY <1>1, <2>1, <2>2
<1>6. y = r
  BY <1>1, <1>3, <1>5
<1>7. QED
  BY <1>5, <1>6 DEF n, x, y

-----------------------------------------------------------------------------
(* Places in the stream: packet q starts after q * MaxPacket bytes.        *)

(* The x-th byte of the image part that starts at offset e of packet q.    *)
LEMMA BytePlace ==
  ASSUME NEW q \in Nat, NEW e \in Nat, HeaderSize <= e,
         NEW x \in Nat, x > 0, e + x <= MaxPacket,
         CommandSize <= q * MaxPacket + e
  PROVE  Expected(q * MaxPacket + e + x)
           = q * PayloadPerPacket + e - CommandSize + x
<1> DEFINE m == MaxPacket
           h == HeaderSize
           c == CommandSize
           r == e + x - 1
           i == q * m + e + x
<1>1. /\ m \in Nat /\ h \in Nat /\ c \in Nat /\ 0 < h /\ h < c /\ c < m
      /\ PayloadPerPacket = m - h
  BY Sizes
<1>2. r \in Nat /\ r < m /\ r >= h
  BY <1>1
<1>3. q * m \in Nat /\ i \in Nat /\ i - 1 = q * m + r /\ i > c
  BY <1>1
<1>4. (i - 1) \div m = q /\ (i - 1) % m = r
  BY <1>1, <1>2, <1>3, QuotientUnique
<1>5. Expected(i) = i - h * (1 + q) - (c - h)
  BY <1>1, <1>2, <1>3, <1>4 DEF Expected
<1>6. i - h * (1 + q) - (c - h) = q * (m - h) + e - c + x
  BY <1>1
<1>7. QED
  BY <1>1, <1>5, <1>6

(* Every packet but the first starts with a continuation header.           *)
LEMMA HeaderPlace ==
  ASSUME NEW q \in Nat, q > 0, NEW x \in 1..HeaderSize
  PROVE  Expected(q * MaxPacket + x) = Continuation
<1>1. /\ MaxPacket \in Nat /\ HeaderSize \in Nat /\ CommandSize \in Nat
      /\ 0 < HeaderSize /\ HeaderSize < MaxPacket /\ CommandSize < MaxPacket
  BY Sizes
<1>2. q * MaxPacket \in Nat /\ q * MaxPacket >= MaxPacket
  BY <1>1
<1> DEFINE i == q * MaxPacket + x
<1>3. i \in Nat /\ i > CommandSize /\ i - 1 = q * MaxPacket + (x - 1)
  BY <1>1, <1>2
<1>4. x - 1 \in Nat /\ x - 1 < HeaderSize /\ x - 1 < MaxPacket
  BY <1>1
<1>5. (i - 1) % MaxPacket = x - 1
  BY <1>1, <1>3, <1>4, QuotientUnique
<1>6. QED
  BY <1>1, <1>3, <1>4, <1>5 DEF Expected

(* The k-th byte of the image belongs where the device expects it, and     *)
(* within what was sent, if it was among the bytes given.                  *)
LEMMA ImagePlace ==
  ASSUME NEW q \in Nat, NEW e \in Nat, HeaderSize <= e, e < MaxPacket,
         NEW k \in Nat, k > 0,
         k + CommandSize <= q * PayloadPerPacket + e
  PROVE  LET w == WirePosition(CommandSize - HeaderSize + k)
         IN  w \in 1..q * MaxPacket + e /\ Expected(w) = k
<1> DEFINE m == MaxPacket
           h == HeaderSize
           c == CommandSize
           d == PayloadPerPacket
           j == c - h + k
           a == (j - 1) \div d
           b == (j - 1) % d
           w == WirePosition(j)
<1>1. /\ m \in Nat /\ h \in Nat /\ c \in Nat /\ 0 < h /\ h < c /\ c < m
      /\ d = m - h /\ d \in Nat /\ d > 0
  BY Sizes
<1>2. j \in Nat /\ j > 0
  BY <1>1
<1>3. a \in Int /\ b \in 0..d - 1 /\ j - 1 = d * a + b
  BY <1>1, <1>2, SMT
<1>4. w = j + h * (1 + a)
  BY DEF WirePosition
<1>5. j = c - h + k
  OBVIOUS
<1> HIDE DEF m, h, c, d, j, a, b, w
<1>6. a >= 0
  <2>1. ASSUME a <= -1 PROVE FALSE
    <3>1. d * a <= -d
      BY <1>1, <1>3, <2>1
    <3>2. d * a \in Int
      BY <1>1, <1>3
    <3>3. QED
      BY <1>1, <1>2, <1>3, <3>1, <3>2
  <2>2. QED
    BY <1>3, <2>1
<1>7. /\ a * m \in Nat /\ b + h \in Nat /\ b + h < m /\ w = a * m + (b + h) + 1
      /\ w \in Nat /\ w > 0
  <2>1. j = d * a + b + 1
    BY <1>2, <1>3, <1>1
  <2>2. d * a + h * (1 + a) = a * m + h
    BY <1>1, <1>3
  <2>3. d * a \in Int /\ h * (1 + a) \in Int /\ a * m \in Nat
    BY <1>1, <1>3, <1>6
  <2>4. QED
    BY <1>1, <1>3, <1>4, <2>1, <2>2, <2>3
<1>8. (w - 1) \div m = a /\ (w - 1) % m = b + h
  <2>1. w - 1 = a * m + (b + h)
    BY <1>7
  <2>2. QED
    BY <1>1, <1>3, <1>7, <2>1, QuotientUnique
<1>9. w > c
  <2>1. h * (1 + a) >= h
    BY <1>1, <1>3, <1>6
  <2>2. h * (1 + a) \in Int
    BY <1>1, <1>3
  <2>3. QED
    BY <1>1, <1>2, <1>4, <1>5, <2>1, <2>2
<1>10. Expected(w) = k
  <2>1. Expected(w) = w - h * (1 + a) - (c - h)
    BY <1>1, <1>3, <1>7, <1>8, <1>9 DEF Expected, h, c, m
  <2>2. h * (1 + a) \in Int
    BY <1>1, <1>3
  <2>3. QED
    BY <1>1, <1>2, <1>4, <1>5, <2>1, <2>2
<1>11. w <= q * m + e
  <2>1. j <= q * d + e - h
    <3>1. q * d \in Int
      BY <1>1
    <3>2. QED
      BY <1>1, <1>5, <3>1 DEF h, c, d
  <2>2. d * a + b < q * d + e - h
    <3>1. q * d \in Int /\ d * a \in Int
      BY <1>1, <1>3
    <3>2. QED
      BY <1>1, <1>2, <1>3, <2>1, <3>1
  <2>3. e - h < d
    BY <1>1 DEF m
  <2>4. a <= q
    <3>1. ASSUME a >= q + 1 PROVE FALSE
      <4>1. d * a >= q * d + d
        <5>1. d * (a - q - 1) >= 0
          BY <1>1, <1>3, <3>1
        <5>2. d * (a - q - 1) = d * a - q * d - d
          BY <1>1, <1>3
        <5>3. q * d \in Int /\ d * a \in Int
          BY <1>1, <1>3
        <5>4. QED
          BY <1>1, <5>1, <5>2, <5>3
      <4>2. q * d \in Int /\ d * a \in Int
        BY <1>1, <1>3
      <4>3. QED
        BY <1>1, <1>3, <2>2, <2>3, <4>1, <4>2
    <3>2. QED
      BY <1>3, <3>1
  <2>5. CASE a = q
    <3>1. d * a = q * d /\ d * a \in Int /\ q * m \in Int /\ a * m = q * m
      BY <1>1, <1>3, <2>5
    <3>2. b < e - h
      BY <1>1, <1>3, <2>2, <3>1
    <3>3. QED
      BY <1>1, <1>3, <1>7, <3>1, <3>2
  <2>6. CASE a <= q - 1
    <3>1. a * m + m <= q * m
      <4>1. m * (q - a - 1) >= 0
        BY <1>1, <1>3, <2>6
      <4>2. m * (q - a - 1) = q * m - a * m - m
        BY <1>1, <1>3
      <4>3. q * m \in Int /\ a * m \in Int
        BY <1>1, <1>3
      <4>4. QED
        BY <1>1, <4>1, <4>2, <4>3
    <3>2. q * m \in Int /\ a * m \in Int
      BY <1>1, <1>3
    <3>3. QED
      BY <1>1, <1>3, <1>7, <3>1, <3>2
  <2>7. QED
    BY <1>3, <2>4, <2>5, <2>6
<1>12. QED
  BY <1>1, <1>7, <1>10, <1>11 DEF w, j, m, h, c

(* Where the last byte given belongs, with e bytes of packet q filled.     *)
LEMMA LastPlace ==
  ASSUME NEW q \in Nat, NEW e \in Nat, HeaderSize <= e, e < MaxPacket,
         NEW j \in Nat, j > 0, j = q * PayloadPerPacket + e - HeaderSize
  PROVE  /\ WirePosition(j) = IF e = HeaderSize THEN q * MaxPacket ELSE q * MaxPacket + e
         /\ WirePosition(j) % MaxPacket = 0 <=> e = HeaderSize
<1> DEFINE m == MaxPacket
           h == HeaderSize
           d == PayloadPerPacket
           w == WirePosition(j)
<1>1. m \in Nat /\ h \in Nat /\ 0 < h /\ h < m /\ d = m - h /\ d \in Nat /\ d > 0
  BY Sizes
<1>2. w = j + h * (1 + (j - 1) \div d)
  BY DEF WirePosition
<1>3. j = q * d + e - h /\ h <= e /\ e < m
  OBVIOUS
<1> HIDE DEF m, h, d, w
<1>4. CASE e = h
  <2>1. j - 1 = (q - 1) * d + (d - 1)
    BY <1>1, <1>3, <1>4
  <2>2. (j - 1) \div d = q - 1
    <3>1. q - 1 \in Int /\ d - 1 \in Nat /\ d - 1 < d
      BY <1>1
    <3>2. QED
      BY <1>1, <2>1, <3>1, QuotientUnique
  <2>3. w = q * d + h * q
    BY <1>1, <1>2, <1>3, <1>4, <2>2
  <2>4. w = q * m
    BY <1>1, <2>3
  <2>5. (q * m + 0) % m = 0
    BY <1>1, QuotientUnique
  <2>6. w % m = 0
    BY <1>1, <2>4, <2>5
  <2>7. QED
    BY <1>4, <2>4, <2>6 DEF m, h, w
<1>5. CASE e > h
  <2>1. j - 1 = q * d + (e - h - 1)
    BY <1>1, <1>3
  <2>2. (j - 1) \div d = q
    <3>1. e - h - 1 \in Nat /\ e - h - 1 < d
      BY <1>1, <1>3, <1>5
    <3>2. QED
      BY <1>1, <2>1, <3>1, QuotientUnique
  <2>3. w = q * d + e - h + h * (1 + q)
    BY <1>1, <1>2, <1>3, <2>2
  <2>4. w = q * m + e
    BY <1>1, <2>3
  <2>5. w % m = e /\ e # 0
    BY <1>1, <1>3, <1>5, <2>4, QuotientUnique
  <2>6. QED
    BY <1>1, <1>5, <2>4, <2>5 DEF m, h, w
<1>6. QED
  BY <1>1, <1>3, <1>4, <1>5

-----------------------------------------------------------------------------
(* Buffers.                                                                *)

(* Overwriting a part of a buffer leaves the rest as it was.               *)
LEMMA OverwriteEffect ==
  ASSUME NEW buf \in [1..TicketSize -> Int], NEW at \in Nat, NEW n \in Nat,
         NEW s \in [1..n -> Int]
  PROVE  /\ Overwrite(buf, at, s) \in [1..TicketSize -> Int]
         /\ \A i \in 1..TicketSize :
              /\ at < i /\ i <= at + n => Overwrite(buf, at, s)[i] = s[i - at]
              /\ i <= at \/ at + n < i => Overwrite(buf, at, s)[i] = buf[i]
<1>1. Len(s) = n
  OBVIOUS
<1>2. TicketSize \in Nat
  BY Sizes
<1>3. \A i \in 1..TicketSize : i - at \in 1..n <=> at < i /\ i <= at + n
  BY <1>2
<1>4. \A i \in 1..TicketSize :
        (IF i - at \in 1..Len(s) THEN s[i - at] ELSE buf[i]) \in Int
  BY <1>1, <1>2
<1>5. QED
  BY <1>1, <1>3, <1>4 DEF Overwrite

(* n times the same byte.                                                  *)
LEMMA RepeatType ==
  ASSUME NEW b \in Int, NEW n \in Nat
  PROVE  /\ Repeat(b, n) \in [1..n -> Int]
         /\ \A i \in 1..n : Repeat(b, n)[i] = b
BY DEF Repeat

(* Submitting appends a part of the buffer to the stream.                  *)
LEMMA TransmitEffect ==
  ASSUME wire \in Seq(Int), NEW buf \in [1..TicketSize -> Int],
         NEW n \in 0..TicketSize
  PROVE  /\ Transmit(buf, n) \in Seq(Int)
         /\ Len(Transmit(buf, n)) = Len(wire) + n
         /\ \A i \in 1..Len(wire) : Transmit(buf, n)[i] = wire[i]
         /\ \A i \in 1..n : Transmit(buf, n)[Len(wire) + i] = buf[i]
<1>1. TicketSize \in Nat
  BY Sizes
<1>2. buf \in Seq(Int) /\ Len(buf) = TicketSize
  BY <1>1
<1> DEFINE s == SubSeq(buf, 1, n)
<1>3. s \in Seq(Int) /\ Len(s) = n /\ \A i \in 1..n : s[i] = buf[i]
  BY <1>1, <1>2
<1> HIDE DEF s
<1>4. QED
  BY <1>3 DEF Transmit, s

(* The stream so far is FullPackets packets and encoded_pos bytes long,    *)
(* and the current packet lies in the buffer.                              *)
LEMMA StreamSoFar ==
  ASSUME Shape, Bought, Position, phase = "encode"
  PROVE  /\ RequiredTickets(estimate) \in Nat /\ Len(bundle) \in Nat \ {0}
         /\ SentTickets \in Nat /\ FullPackets \in Nat
         /\ Len(wire) + packet_pos * MaxPacket = FullPackets * MaxPacket
         /\ urbbuffer \in Nat /\ urbbuffer + MaxPacket <= TicketSize
         /\ urbbuffer = packet_pos * MaxPacket
         /\ transfer_size = urbbuffer + encoded_pos
         /\ FullPackets * MaxPacket + encoded_pos >= CommandSize
<1> DEFINE m == MaxPacket
           f == packet_size_factor
           u == SentTickets
           p == packet_pos
           q == FullPackets
<1>1. /\ m \in Nat /\ f \in Nat /\ f > 0 /\ TicketSize = f * m
      /\ CommandSize \in Nat /\ CommandSize < m /\ PayloadPerPacket \in Nat
      /\ HeaderSize < CommandSize /\ HeaderSize \in Nat
  BY Sizes
<1>2. estimate \in Nat /\ estimate > 0 /\ given \in Nat /\ p \in 0..f - 1
  BY <1>1 DEF Shape, Bought
<1>3. RequiredTickets(estimate) \in Nat
  BY <1>2, TicketsHold
<1>4. Len(bundle) \in Nat \ {0} /\ u \in Nat
  BY <1>3 DEF Shape, Bought, SentTickets
<1>5. Len(wire) = u * (f * m) /\ q = u * f + p
  BY <1>1 DEF Position, FullPackets
<1>6. urbbuffer = p * m /\ transfer_size = urbbuffer + encoded_pos
  BY DEF urbbuffer, transfer_size
<1>7. given + CommandSize = q * PayloadPerPacket + encoded_pos /\ encoded_pos \in Nat
  BY DEF Position, Shape
<1> HIDE DEF m, f, u, p, q
<1>8. q \in Nat
  BY <1>1, <1>2, <1>4, <1>5
<1>9. u * (f * m) + p * m = q * m
  BY <1>1, <1>2, <1>4, <1>5
<1>10. p * m \in Nat /\ p * m + m <= f * m
  <2>1. m * (f - 1 - p) >= 0
    BY <1>1, <1>2
  <2>2. m * (f - 1 - p) = f * m - m - p * m
    BY <1>1, <1>2
  <2>3. p * m \in Nat /\ f * m \in Int
    BY <1>1, <1>2
  <2>4. QED
    BY <1>1, <2>1, <2>2, <2>3
<1>11. q * m + encoded_pos >= CommandSize
  <2>1. CASE q = 0
    BY <1>1, <1>2, <1>7, <2>1
  <2>2. CASE q >= 1
    <3>1. q * m >= m /\ q * m \in Int
      BY <1>1, <1>8, <2>2
    <3>2. QED
      BY <1>1, <1>7, <3>1
  <2>3. QED
    BY <1>8, <2>1, <2>2
<1>12. QED
  BY <1>1, <1>3, <1>4, <1>5, <1>6, <1>8, <1>9, <1>10, <1>11 DEF m, u, p, q

(* The memcpy of a round goes on where the stream ended.                   *)
LEMMA CopiedContent ==
  ASSUME Shape, Bought, Position, Content, phase = "encode", count # 0
  PROVE  /\ size_to_copy \in 1..MaxPacket - encoded_pos
         /\ size_to_copy <= count
         /\ Copied \in [1..TicketSize -> Int]
         /\ \A i \in 1..transfer_size + size_to_copy :
              Copied[i] = Expected(Len(wire) + i)
<1> DEFINE m == MaxPacket
           e == encoded_pos
           z == size_to_copy
           q == FullPackets
           at == urbbuffer + encoded_pos
           s == [i \in 1..z |-> given + i]
<1>1. m \in Nat /\ e \in 0..m - 1 /\ e >= HeaderSize /\ HeaderSize \in Nat
  BY Sizes DEF Shape, Position
<1>2. count \in Nat /\ count > 0 /\ given \in Nat
  BY DEF Shape
<1>3. z \in 1..m - e /\ z <= count
  BY <1>1, <1>2 DEF size_to_copy, buffer_avail_length
<1>4. /\ q \in Nat /\ urbbuffer \in Nat /\ urbbuffer + m <= TicketSize
      /\ transfer_size = at /\ Len(wire) + urbbuffer = q * m
      /\ q * m + e >= CommandSize
  BY StreamSoFar
<1>5. TicketSize \in Nat /\ Len(wire) \in Nat /\ at \in Nat
  BY <1>1, <1>4, Sizes DEF Shape
<1>6. s \in [1..z -> Int] /\ \A i \in 1..z : s[i] = given + i
  BY <1>2, <1>3
<1>7. Copied = Overwrite(buffer, at, s)
  BY DEF Copied
<1>8. given + CommandSize = q * PayloadPerPacket + e
  BY DEF Position
<1> HIDE DEF m, e, z, q, at, s
<1>9. /\ Copied \in [1..TicketSize -> Int]
      /\ \A i \in 1..TicketSize :
           /\ at < i /\ i <= at + z => Copied[i] = s[i - at]
           /\ i <= at \/ at + z < i => Copied[i] = buffer[i]
  <2>1. z \in Nat /\ at \in Nat /\ buffer \in [1..TicketSize -> Int] /\ s \in [1..z -> Int]
    BY <1>1, <1>3, <1>5, <1>6 DEF Shape
  <2>2. QED
    BY <1>7, <2>1, OverwriteEffect
<1>10. ASSUME NEW i \in 1..at PROVE Copied[i] = Expected(Len(wire) + i)
  <2>1. buffer[i] = Expected(Len(wire) + i)
    BY <1>4 DEF Content
  <2>2. i \in 1..TicketSize /\ i <= at
    BY <1>1, <1>3, <1>4, <1>5 DEF at, e
  <2>3. QED
    BY <1>9, <2>1, <2>2
<1>11. ASSUME NEW x \in 1..z PROVE Copied[at + x] = Expected(Len(wire) + (at + x))
  <2>1. at + x \in 1..TicketSize /\ at < at + x /\ at + x <= at + z /\ (at + x) - at = x
    BY <1>1, <1>3, <1>4, <1>5 DEF at, e
  <2>2. Copied[at + x] = given + x
    BY <1>6, <1>9, <2>1
  <2>3. Expected(q * m + e + x) = q * PayloadPerPacket + e - CommandSize + x
    BY <1>1, <1>3, <1>4, BytePlace DEF m
  <2>4. Len(wire) + (at + x) = q * m + e + x
    <3>1. q * m \in Int
      BY <1>1, <1>4
    <3>2. QED
      BY <1>1, <1>3, <1>4, <1>5, <3>1 DEF at, e
  <2>5. q * PayloadPerPacket + e - CommandSize + x = given + x
    <3>1. q * PayloadPerPacket \in Int /\ CommandSize \in Int
      BY <1>4, Sizes
    <3>2. QED
      BY <1>1, <1>2, <1>3, <1>8, <3>1
  <2>6. QED
    BY <2>2, <2>3, <2>4, <2>5
<1>12. ASSUME NEW i \in 1..at + z PROVE Copied[i] = Expected(Len(wire) + i)
  <2>1. CASE i \in 1..at
    BY <1>10, <2>1
  <2>2. CASE i \notin 1..at
    <3>1. i - at \in 1..z /\ at + (i - at) = i
      BY <1>3, <1>5, <2>2
    <3>2. QED
      BY <1>11, <3>1
  <2>3. QED
    BY <2>1, <2>2
<1>13. QED
  BY <1>3, <1>4, <1>9, <1>12 DEF m, e, z

-----------------------------------------------------------------------------
(* Owners.                                                                 *)

(* Taking the next ticket of the bundle.                                   *)
LEMMA TailOwners ==
  ASSUME bundle \in Seq(Tickets), bundle # <<>>, IsInjective(bundle)
  PROVE  /\ Tail(bundle) \in Seq(Tickets) /\ Len(Tail(bundle)) = Len(bundle) - 1
         /\ IsInjective(Tail(bundle))
         /\ bundle[1] \in ToSet(bundle) /\ bundle[1] \in Tickets
         /\ bundle[1] = Head(bundle)
         /\ ToSet(Tail(bundle)) \subseteq ToSet(bundle) \ {bundle[1]}
         /\ ToSet(bundle) \subseteq Tickets
<1>1. Len(bundle) \in Nat \ {0} /\ DOMAIN bundle = 1..Len(bundle)
  OBVIOUS
<1>2. /\ Tail(bundle) \in Seq(Tickets) /\ Len(Tail(bundle)) = Len(bundle) - 1
      /\ DOMAIN Tail(bundle) = 1..Len(bundle) - 1
      /\ \A i \in 1..Len(bundle) - 1 : Tail(bundle)[i] = bundle[i + 1]
  BY <1>1
<1>3. \A i, j \in 1..Len(bundle) : bundle[i] = bundle[j] => i = j
  BY <1>1 DEF IsInjective
<1>4. IsInjective(Tail(bundle))
  <2>1. ASSUME NEW i \in 1..Len(bundle) - 1, NEW j \in 1..Len(bundle) - 1,
               Tail(bundle)[i] = Tail(bundle)[j]
        PROVE  i = j
    <3>1. i + 1 \in 1..Len(bundle) /\ j + 1 \in 1..Len(bundle)
      BY <1>1
    <3>2. i + 1 = j + 1
      BY <1>2, <1>3, <2>1, <3>1
    <3>3. QED
      BY <3>2
  <2>2. QED
    BY <1>2, <2>1 DEF IsInjective
<1>5. ToSet(Tail(bundle)) \subseteq ToSet(bundle) \ {bundle[1]}
  <2>1. ASSUME NEW i \in 1..Len(bundle) - 1
        PROVE  Tail(bundle)[i] \in ToSet(bundle) \ {bundle[1]}
    <3>1. i + 1 \in 1..Len(bundle) /\ 1 \in 1..Len(bundle) /\ i + 1 # 1
      BY <1>1
    <3>2. bundle[i + 1] # bundle[1] /\ bundle[i + 1] \in ToSet(bundle)
      BY <1>1, <1>3, <3>1 DEF ToSet
    <3>3. QED
      BY <1>2, <3>2
  <2>2. QED
    BY <1>2, <2>1 DEF ToSet
<1>6. 1 \in 1..Len(bundle)
  BY <1>1
<1>7. bundle[1] \in ToSet(bundle) /\ ToSet(bundle) \subseteq Tickets
  BY <1>1, <1>6 DEF ToSet
<1>8. QED
  BY <1>2, <1>4, <1>5, <1>7

(* The bundle of a sale holds the tickets sold, each once.                 *)
LEMMA SoldOwners ==
  ASSUME NEW S \in SUBSET Tickets, NEW b \in SetToSeqs(S)
  PROVE  /\ Cardinality(S) \in Nat
         /\ b \in Seq(Tickets) /\ Len(b) = Cardinality(S)
         /\ IsInjective(b) /\ ToSet(b) \subseteq S
<1>1. Cardinality(S) \in Nat
  BY EncoderAssumption, FS_Subset, FS_CardinalityType
<1>2. /\ b \in [1..Cardinality(S) -> S]
      /\ \A i, j \in 1..Cardinality(S) : i # j => b[i] # b[j]
  BY DEF SetToSeqs
<1>3. b \in Seq(Tickets) /\ Len(b) = Cardinality(S) /\ DOMAIN b = 1..Cardinality(S)
  BY <1>1, <1>2
<1>4. IsInjective(b)
  BY <1>2, <1>3 DEF IsInjective
<1>5. ToSet(b) \subseteq S
  BY <1>2, <1>3 DEF ToSet
<1>6. QED
  BY <1>1, <1>3, <1>4, <1>5

-----------------------------------------------------------------------------
(* The steps.                                                              *)

(* A new buffer with n bytes written at its start.                         *)
LEMMA FreshBuffer ==
  ASSUME NEW b \in Int, NEW n \in Nat, n <= TicketSize
  PROVE  /\ Leftover \in [1..TicketSize -> Int]
         /\ Overwrite(Leftover, 0, Repeat(b, n)) \in [1..TicketSize -> Int]
         /\ \A i \in 1..n : Overwrite(Leftover, 0, Repeat(b, n))[i] = b
<1>1. TicketSize \in Nat /\ Junk \in Int
  BY Sizes DEF Junk
<1>2. Leftover \in [1..TicketSize -> Int]
  BY <1>1, RepeatType DEF Leftover
<1> DEFINE s == Repeat(b, n)
<1>3. s \in [1..n -> Int] /\ \A i \in 1..n : s[i] = b
  BY RepeatType
<1> HIDE DEF s
<1>4. /\ Overwrite(Leftover, 0, s) \in [1..TicketSize -> Int]
      /\ \A i \in 1..TicketSize :
           /\ 0 < i /\ i <= 0 + n => Overwrite(Leftover, 0, s)[i] = s[i - 0]
           /\ i <= 0 \/ 0 + n < i => Overwrite(Leftover, 0, s)[i] = Leftover[i]
  <2>1. 0 \in Nat
    OBVIOUS
  <2>2. QED
    BY <1>2, <1>3, <2>1, OverwriteEffect
<1>5. \A i \in 1..n : Overwrite(Leftover, 0, s)[i] = b
  <2>1. ASSUME NEW i \in 1..n PROVE Overwrite(Leftover, 0, s)[i] = b
    <3>1. i \in 1..TicketSize /\ 0 < i /\ i <= 0 + n /\ i - 0 = i
      BY <1>1
    <3>2. QED
      BY <1>3, <1>4, <3>1
  <2>2. QED
    BY <2>1
<1>6. QED
  BY <1>2, <1>4, <1>5 DEF s

(* Initially every ticket is for sale, with the length of its buffer.      *)
LEMMA InitIInv == Init => IInv
<1> SUFFICES ASSUME Init PROVE IInv
  OBVIOUS
<1>1. /\ MaxPacket \in Nat /\ MaxPacket > 0 /\ packet_size_factor \in Nat
      /\ packet_size_factor > 0 /\ TicketSize \in Nat
  BY Sizes
<1>2. buffer \in [1..TicketSize -> Int]
  <2>1. 0 \in Int /\ 0 \in Nat /\ 0 <= TicketSize
    BY <1>1
  <2>2. QED
    BY <2>1, FreshBuffer DEF Init
<1>3. Shape
  <2>1. length \in [Tickets -> 0..TicketSize]
    BY <1>1 DEF Init
  <2>2. bundle = <<>> /\ wire = <<>> /\ <<>> \in Seq(Tickets) /\ <<>> \in Seq(Int)
    BY DEF Init
  <2>3. packet_pos \in 0..packet_size_factor - 1 /\ encoded_pos \in 0..MaxPacket - 1
    BY <1>1 DEF Init
  <2>4. QED
    BY <1>2, <2>1, <2>2, <2>3 DEF Init, Shape
<1>4. ToSet(bundle) = {} /\ IsInjective(bundle)
  BY DEF Init, ToSet, IsInjective
<1>5. QED
  BY <1>3, <1>4 DEF Init, IInv, OneOwner, FullLength, Bought, Position, Content,
                    DeviceGetsImage, BugOnlyWhenFull

(* The encoder buys tickets and writes the command.                        *)
LEMMA BeginKeeps ==
  ASSUME IInv, NEW n \in Payloads, Begin(n)
  PROVE  IInv'
<1>1. n \in Nat /\ n > CommandSize - HeaderSize /\ n > 0
  BY EncoderAssumption, Sizes
<1>2. /\ RequiredTickets(n) \in Nat /\ RequiredTickets(n) > 0
  BY <1>1, TicketsHold
<1>3. PICK S \in SUBSET pool :
        /\ Cardinality(S) = RequiredTickets(n)
        /\ pool' = pool \ S
        /\ bundle' \in SetToSeqs(S)
  BY DEF Begin
<1>4. /\ bundle' \in Seq(Tickets) /\ Len(bundle') = RequiredTickets(n)
      /\ IsInjective(bundle') /\ ToSet(bundle') \subseteq S
  BY <1>3, SoldOwners DEF IInv, Shape
<1>5. bundle' # <<>> /\ Head(bundle') = bundle'[1]
  BY <1>2, <1>4
<1>6. /\ MaxPacket \in Nat /\ packet_size_factor \in Nat /\ packet_size_factor > 0
      /\ CommandSize \in Nat /\ CommandSize < MaxPacket /\ HeaderSize \in Nat
      /\ HeaderSize < CommandSize /\ TicketSize \in Nat /\ CommandSize <= TicketSize
      /\ PayloadPerPacket \in Nat
  <2>1. MaxPacket <= packet_size_factor * MaxPacket
    BY Sizes
  <2>2. QED
    BY <2>1, Sizes
<1>7. /\ buffer' \in [1..TicketSize -> Int]
      /\ \A i \in 1..CommandSize : buffer'[i] = CommandByte
  BY <1>6, FreshBuffer DEF Begin, CommandByte
<1>8. /\ packet_pos' = 0 /\ encoded_pos' = CommandSize /\ estimate' = n
      /\ given' = 0 /\ count' = 0 /\ wire' = <<>> /\ phase' = "encode"
      /\ ticket' = bundle'[1] /\ flight' = flight /\ length' = length
  BY <1>5 DEF Begin
<1>9. Shape'
  <2>1. wire' \in Seq(Int) /\ packet_pos' \in 0..packet_size_factor - 1
        /\ encoded_pos' \in 0..MaxPacket - 1 /\ ticket' \in Tickets
    BY <1>4, <1>5, <1>6, <1>8
  <2>2. QED
    BY <1>1, <1>3, <1>4, <1>7, <1>8, <2>1 DEF IInv, Shape
<1>10. OneOwner'
  BY <1>3, <1>4, <1>8 DEF IInv, OneOwner
<1>11. FullLength'
  BY <1>3, <1>4, <1>8 DEF IInv, FullLength
<1>12. Bought'
  BY <1>1, <1>2, <1>4, <1>5, <1>6, <1>8 DEF Bought
<1>13. SentTickets' = 0 /\ FullPackets' = 0
  BY <1>2, <1>4, <1>6, <1>8 DEF SentTickets, FullPackets
<1>14. Position'
  BY <1>6, <1>8, <1>13 DEF Position
<1>15. Content'
  <2>1. transfer_size' = CommandSize /\ Len(wire') = 0
    BY <1>6, <1>8 DEF transfer_size
  <2>2. \A i \in 1..CommandSize : Expected(0 + i) = CommandByte
    BY <1>6 DEF Expected
  <2>3. QED
    BY <1>6, <1>7, <2>1, <2>2 DEF Content
<1>16. QED
  BY <1>8, <1>9, <1>10, <1>11, <1>12, <1>14, <1>15
  DEF IInv, DeviceGetsImage, BugOnlyWhenFull

(* A call with more bytes changes nothing but what is left to copy.        *)
LEMMA GiveKeeps ==
  ASSUME IInv, NEW c \in Chunks, Give(c)
  PROVE  IInv'
<1>1. c \in Nat
  BY EncoderAssumption
<1>2. /\ count' = c /\ phase = "encode" /\ (CommandSize - HeaderSize) + given + c <= estimate
      /\ UNCHANGED <<pool, flight, length, bundle, ticket, buffer, packet_pos,
                     encoded_pos, estimate, given, wire, phase>>
  BY DEF Give, Call, ctxVars
<1>3. Shape' /\ OneOwner' /\ FullLength'
  BY <1>1, <1>2 DEF IInv, Shape, OneOwner, FullLength
<1>4. (CommandSize - HeaderSize) + (given' + count') <= estimate
  <2>1. (CommandSize - HeaderSize) \in Int /\ given \in Nat
    BY Sizes DEF IInv, Shape
  <2>2. (CommandSize - HeaderSize) + (given + c) <= estimate
    BY <1>1, <1>2, <2>1
  <2>3. QED
    BY <1>2, <2>2
<1>5. Bought' /\ Position' /\ Content'
  BY <1>2, <1>4 DEF IInv, Bought, Position, Content, SentTickets, FullPackets, transfer_size
<1>6. QED
  BY <1>2, <1>3, <1>5 DEF IInv, DeviceGetsImage, BugOnlyWhenFull

(* What the rounds of the encoder's loop have in common.                   *)
LEMMA RoundCounts ==
  ASSUME IInv, Copy
  PROVE  /\ phase = "encode" /\ count # 0
         /\ size_to_copy \in 1..MaxPacket - encoded_pos
         /\ given' \in Nat /\ count' \in Nat
         /\ given' = given + size_to_copy /\ given' + count' = given + count
         /\ estimate' = estimate
         /\ given' + CommandSize
              = FullPackets * PayloadPerPacket + (encoded_pos + size_to_copy)
<1>1. /\ phase = "encode" /\ count # 0 /\ count' = count - size_to_copy
      /\ given' = given + size_to_copy /\ estimate' = estimate
  BY DEF Copy
<1>2. size_to_copy \in 1..MaxPacket - encoded_pos /\ size_to_copy <= count
  BY <1>1, CopiedContent DEF IInv
<1>3. /\ count \in Nat /\ given \in Nat /\ encoded_pos \in Nat /\ MaxPacket \in Nat
      /\ given + CommandSize = FullPackets * PayloadPerPacket + encoded_pos
  BY <1>1, Sizes DEF IInv, Shape, Position
<1> DEFINE full == FullPackets * PayloadPerPacket
<1>4. full \in Int /\ CommandSize \in Int
  <2>1. FullPackets \in Nat /\ PayloadPerPacket \in Nat /\ CommandSize \in Nat
    BY <1>1, StreamSoFar, Sizes DEF IInv
  <2>2. QED
    BY <2>1
<1>5. given + CommandSize = full + encoded_pos
  BY <1>3
<1> HIDE DEF full
<1>6. given' \in Nat /\ count' \in Nat /\ given' + count' = given + count
  BY <1>1, <1>2, <1>3
<1>7. given' + CommandSize = full + (encoded_pos + size_to_copy)
  BY <1>1, <1>2, <1>3, <1>4, <1>5
<1>8. QED
  BY <1>1, <1>2, <1>6, <1>7 DEF full

(* The packet is not full yet.                                             *)
LEMMA FillPacketKeeps ==
  ASSUME IInv, FillPacket
  PROVE  IInv'
<1> DEFINE z == size_to_copy
<1>1. /\ phase = "encode" /\ count # 0 /\ Copy /\ buffer' = Copied
      /\ encoded_pos' = encoded_pos + z /\ z # MaxPacket - encoded_pos
      /\ UNCHANGED <<pool, flight, length, bundle, ticket, packet_pos, wire, phase>>
  BY DEF FillPacket, Copy, buffer_avail_length
<1>2. /\ z \in 1..MaxPacket - encoded_pos
      /\ given' \in Nat /\ count' \in Nat
      /\ given' + count' = given + count /\ estimate' = estimate
      /\ given' + CommandSize = FullPackets * PayloadPerPacket + (encoded_pos + z)
  BY <1>1, RoundCounts
<1>3. /\ Copied \in [1..TicketSize -> Int]
      /\ \A i \in 1..transfer_size + z : Copied[i] = Expected(Len(wire) + i)
  BY <1>1, CopiedContent DEF IInv
<1>4. /\ urbbuffer \in Nat /\ transfer_size = urbbuffer + encoded_pos
      /\ urbbuffer = packet_pos * MaxPacket
  BY <1>1, StreamSoFar DEF IInv
<1>5. MaxPacket \in Nat /\ HeaderSize \in Nat /\ encoded_pos \in 0..MaxPacket - 1
  BY Sizes DEF IInv, Shape
<1> HIDE DEF z
<1>6. encoded_pos' \in 0..MaxPacket - 1 /\ encoded_pos' >= encoded_pos
  BY <1>1, <1>2, <1>5
<1>7. transfer_size' = transfer_size + z
  <2>1. transfer_size' = packet_pos * MaxPacket + encoded_pos'
    BY <1>1 DEF transfer_size
  <2>2. QED
    BY <1>1, <1>2, <1>4, <1>5, <2>1
<1>8. Shape'
  BY <1>1, <1>2, <1>3, <1>6 DEF IInv, Shape
<1>9. OneOwner' /\ FullLength'
  BY <1>1 DEF IInv, OneOwner, FullLength
<1>10. Bought'
  <2>1. (CommandSize - HeaderSize) + (given' + count') <= estimate
    <3>1. /\ CommandSize \in Nat /\ HeaderSize \in Nat /\ given \in Nat /\ count \in Nat
          /\ estimate \in Nat
      BY Sizes DEF IInv, Shape
    <3>2. (CommandSize - HeaderSize) + (given + count) <= estimate
      BY <1>1 DEF IInv, Bought
    <3>3. given' \in Nat /\ count' \in Nat /\ given' + count' = given + count
      BY <1>2
    <3>4. QED
      BY <3>1, <3>2, <3>3
  <2>2. QED
    BY <1>1, <1>2, <2>1 DEF IInv, Bought
<1>11. SentTickets' = SentTickets /\ FullPackets' = FullPackets
  BY <1>1, <1>2 DEF SentTickets, FullPackets
<1>12. Position'
  BY <1>1, <1>2, <1>5, <1>6, <1>11 DEF IInv, Position
<1>13. Content'
  BY <1>1, <1>3, <1>7 DEF IInv, Content
<1>14. QED
  BY <1>1, <1>8, <1>9, <1>10, <1>12, <1>13 DEF IInv, DeviceGetsImage, BugOnlyWhenFull

(* A round that fills its packet completes one packet of the stream.       *)
LEMMA PacketFull ==
  ASSUME IInv, Copy, buffer_avail_length = size_to_copy
  PROVE  /\ encoded_pos + size_to_copy = MaxPacket
         /\ transfer_size + size_to_copy = urbbuffer + MaxPacket
         /\ Len(wire) + (urbbuffer + MaxPacket) = (FullPackets + 1) * MaxPacket
         /\ given' + CommandSize = (FullPackets + 1) * PayloadPerPacket + HeaderSize
<1>1. phase = "encode" /\ count # 0
  BY DEF Copy
<1>2. /\ FullPackets \in Nat /\ urbbuffer \in Nat
      /\ Len(wire) + urbbuffer = FullPackets * MaxPacket
      /\ transfer_size = urbbuffer + encoded_pos
      /\ urbbuffer = packet_pos * MaxPacket
  BY <1>1, StreamSoFar DEF IInv
<1>3. /\ MaxPacket \in Nat /\ HeaderSize \in Nat /\ PayloadPerPacket = MaxPacket - HeaderSize
      /\ encoded_pos \in Nat /\ Len(wire) \in Nat /\ CommandSize \in Nat
  BY Sizes DEF IInv, Shape
<1>4. size_to_copy = MaxPacket - encoded_pos
  BY DEF buffer_avail_length
<1>5. given' \in Nat /\ given' + CommandSize
        = FullPackets * PayloadPerPacket + (encoded_pos + size_to_copy)
  BY RoundCounts
<1>6. /\ encoded_pos + size_to_copy = MaxPacket
      /\ transfer_size + size_to_copy = urbbuffer + MaxPacket
  BY <1>2, <1>3, <1>4
<1>7. (FullPackets + 1) * MaxPacket = FullPackets * MaxPacket + MaxPacket
  BY <1>2, <1>3
<1>8. FullPackets * PayloadPerPacket + MaxPacket
        = (FullPackets + 1) * PayloadPerPacket + HeaderSize
  BY <1>2, <1>3
<1>9. Len(wire) + (urbbuffer + MaxPacket) = (FullPackets + 1) * MaxPacket
  <2> DEFINE full == FullPackets * MaxPacket
             next == (FullPackets + 1) * MaxPacket
  <2>1. full \in Int /\ Len(wire) + urbbuffer = full /\ next = full + MaxPacket
    BY <1>2, <1>3, <1>7
  <2>2. {Len(wire), urbbuffer, MaxPacket} \subseteq Int
    BY <1>2, <1>3
  <2> HIDE DEF full, next
  <2>3. Len(wire) + (urbbuffer + MaxPacket) = next
    BY <2>1, <2>2
  <2>4. QED
    BY <2>3 DEF next
<1>10. given' + CommandSize = (FullPackets + 1) * PayloadPerPacket + HeaderSize
  BY <1>5, <1>6, <1>8
<1>11. QED
  BY <1>6, <1>9, <1>10

(* The packet is full, the URB is not.                                     *)
LEMMA NextPacketKeeps ==
  ASSUME IInv, NextPacket
  PROVE  IInv'
<1> DEFINE z == size_to_copy
           q == FullPackets
           at == urbbuffer + MaxPacket
           header == Repeat(Continuation, HeaderSize)
<1>1. /\ phase = "encode" /\ count # 0 /\ Copy /\ buffer_avail_length = z
      /\ packet_pos' = packet_pos + 1 /\ packet_pos + 1 < packet_size_factor
      /\ buffer' = Overwrite(Copied, at, header) /\ encoded_pos' = HeaderSize
      /\ UNCHANGED <<pool, flight, length, bundle, ticket, wire, phase>>
  BY DEF NextPacket, Copy
<1>2. /\ z \in 1..MaxPacket - encoded_pos /\ given' \in Nat /\ count' \in Nat
      /\ given' + count' = given + count /\ estimate' = estimate
  BY <1>1, RoundCounts
<1>3. /\ Copied \in [1..TicketSize -> Int]
      /\ \A i \in 1..transfer_size + z : Copied[i] = Expected(Len(wire) + i)
  BY <1>1, CopiedContent DEF IInv
<1>4. /\ urbbuffer \in Nat /\ urbbuffer = packet_pos * MaxPacket /\ q \in Nat
  BY <1>1, StreamSoFar DEF IInv
<1>5. /\ transfer_size + z = at
      /\ Len(wire) + at = (q + 1) * MaxPacket
      /\ given' + CommandSize = (q + 1) * PayloadPerPacket + HeaderSize
  BY <1>1, PacketFull
<1>6. /\ MaxPacket \in Nat /\ HeaderSize \in Nat /\ HeaderSize < MaxPacket
      /\ packet_size_factor \in Nat /\ packet_pos \in 0..packet_size_factor - 1
      /\ TicketSize = packet_size_factor * MaxPacket /\ TicketSize \in Nat
      /\ Len(wire) \in Nat
  BY Sizes DEF IInv, Shape
<1>7. header \in [1..HeaderSize -> Int] /\ \A i \in 1..HeaderSize : header[i] = Continuation
  BY <1>6, RepeatType DEF Continuation
<1> HIDE DEF z, q, at, header
<1>8. at \in Nat /\ at + HeaderSize <= TicketSize /\ at = (packet_pos + 1) * MaxPacket
  <2>1. (packet_pos + 1) * MaxPacket = packet_pos * MaxPacket + MaxPacket
    BY <1>6
  <2>2. MaxPacket * (packet_size_factor - packet_pos - 2) >= 0
    BY <1>1, <1>6
  <2>3. MaxPacket * (packet_size_factor - packet_pos - 2)
          = packet_size_factor * MaxPacket - packet_pos * MaxPacket - 2 * MaxPacket
    BY <1>6
  <2>4. QED
    BY <1>4, <1>6, <2>1, <2>2, <2>3 DEF at
<1>9. /\ buffer' \in [1..TicketSize -> Int]
      /\ \A i \in 1..TicketSize :
           /\ at < i /\ i <= at + HeaderSize => buffer'[i] = header[i - at]
           /\ i <= at \/ at + HeaderSize < i => buffer'[i] = Copied[i]
  BY <1>1, <1>3, <1>6, <1>7, <1>8, OverwriteEffect
<1>10. transfer_size' = at + HeaderSize
  BY <1>1, <1>8 DEF transfer_size
<1>11. Shape'
  <2>1. packet_pos' \in 0..packet_size_factor - 1 /\ encoded_pos' \in 0..MaxPacket - 1
    BY <1>1, <1>6
  <2>2. QED
    BY <1>1, <1>2, <1>9, <2>1 DEF IInv, Shape
<1>12. OneOwner' /\ FullLength'
  BY <1>1 DEF IInv, OneOwner, FullLength
<1>13. Bought'
  <2>1. (CommandSize - HeaderSize) + (given' + count') <= estimate
    <3>1. /\ CommandSize \in Nat /\ HeaderSize \in Nat /\ given \in Nat /\ count \in Nat
          /\ estimate \in Nat
      BY Sizes DEF IInv, Shape
    <3>2. (CommandSize - HeaderSize) + (given + count) <= estimate
      BY <1>1 DEF IInv, Bought
    <3>3. given' \in Nat /\ count' \in Nat /\ given' + count' = given + count
      BY <1>2
    <3>4. QED
      BY <3>1, <3>2, <3>3
  <2>2. QED
    BY <1>1, <1>2, <2>1 DEF IInv, Bought
<1>14. SentTickets' = SentTickets /\ FullPackets' = q + 1
  <2>1. SentTickets \in Nat
    BY <1>1, StreamSoFar DEF IInv
  <2>2. SentTickets' = SentTickets
    BY <1>1, <1>2 DEF SentTickets
  <2>3. FullPackets' = SentTickets' * packet_size_factor + packet_pos'
    BY DEF FullPackets
  <2>4. SentTickets * packet_size_factor \in Int
    BY <1>6, <2>1
  <2>5. q = SentTickets * packet_size_factor + packet_pos
    BY DEF q, FullPackets
  <2>6. QED
    BY <1>1, <1>6, <2>2, <2>3, <2>4, <2>5
<1>15. Position'
  BY <1>1, <1>5, <1>6, <1>14 DEF IInv, Position
<1>16. Content'
  <2>1. ASSUME NEW i \in 1..at PROVE buffer'[i] = Expected(Len(wire) + i)
    BY <1>3, <1>5, <1>6, <1>8, <1>9
  <2>2. ASSUME NEW x \in 1..HeaderSize
        PROVE  buffer'[at + x] = Expected(Len(wire) + (at + x))
    <3>1. at + x \in 1..TicketSize /\ at < at + x /\ at + x <= at + HeaderSize
          /\ (at + x) - at = x
      BY <1>6, <1>8
    <3>2. buffer'[at + x] = Continuation
      BY <1>7, <1>9, <3>1
    <3>3. Expected((q + 1) * MaxPacket + x) = Continuation
      BY <1>4, HeaderPlace
    <3>4. Len(wire) + (at + x) = (q + 1) * MaxPacket + x
      BY <1>5, <1>6, <1>8
    <3>5. QED
      BY <3>2, <3>3, <3>4
  <2>3. ASSUME NEW i \in 1..at + HeaderSize PROVE buffer'[i] = Expected(Len(wire) + i)
    <3>1. CASE i <= at
      BY <1>8, <2>1, <3>1
    <3>2. CASE i > at
      <4>1. i - at \in 1..HeaderSize /\ at + (i - at) = i
        BY <1>6, <1>8, <3>2
      <4>2. QED
        BY <2>2, <4>1
    <3>3. QED
      BY <1>8, <3>1, <3>2
  <2>4. \A i \in 1..Len(wire) : wire[i] = Expected(i)
    BY <1>1 DEF IInv, Content
  <2>5. QED
    BY <1>1, <1>10, <2>3, <2>4 DEF Content
<1>17. QED
  BY <1>1, <1>11, <1>12, <1>13, <1>15, <1>16 DEF IInv, DeviceGetsImage, BugOnlyWhenFull

(* A round that fills the URB as well completes what the ticket holds.     *)
LEMMA UrbFull ==
  ASSUME IInv, Copy, buffer_avail_length = size_to_copy,
         packet_pos + 1 >= packet_size_factor
  PROVE  /\ SentTickets \in Nat /\ length[ticket] = TicketSize
         /\ Transmit(Copied, TicketSize) \in Seq(Int)
         /\ Len(Transmit(Copied, TicketSize)) = (SentTickets + 1) * TicketSize
         /\ \A i \in 1..(SentTickets + 1) * TicketSize :
              Transmit(Copied, TicketSize)[i] = Expected(i)
         /\ FullPackets + 1 = (SentTickets + 1) * packet_size_factor
<1> DEFINE m == MaxPacket
           f == packet_size_factor
           u == SentTickets
           w == Transmit(Copied, TicketSize)
<1>1. phase = "encode" /\ count # 0
  BY DEF Copy
<1>2. /\ m \in Nat /\ f \in Nat /\ TicketSize = f * m /\ TicketSize \in Nat
      /\ packet_pos \in 0..f - 1 /\ wire \in Seq(Int)
  BY Sizes DEF IInv, Shape
<1>3. packet_pos = f - 1
  BY <1>2
<1>4. /\ u \in Nat /\ urbbuffer = packet_pos * m
      /\ Len(wire) = u * TicketSize
  BY <1>1, StreamSoFar DEF IInv, Position
<1>5. transfer_size + size_to_copy = urbbuffer + m
  BY PacketFull
<1>6. FullPackets = u * f + packet_pos
  BY DEF FullPackets
<1>7. /\ Copied \in [1..TicketSize -> Int]
      /\ \A i \in 1..transfer_size + size_to_copy : Copied[i] = Expected(Len(wire) + i)
  BY <1>1, CopiedContent DEF IInv
<1>8. /\ w \in Seq(Int) /\ Len(w) = Len(wire) + TicketSize
      /\ \A i \in 1..Len(wire) : w[i] = wire[i]
      /\ \A i \in 1..TicketSize : w[Len(wire) + i] = Copied[i]
  <2>1. TicketSize \in 0..TicketSize
    BY <1>2
  <2>2. QED
    BY <1>2, <1>7, <2>1, TransmitEffect
<1> HIDE DEF m, f, u, w
<1>9. urbbuffer + m = TicketSize
  BY <1>2, <1>3, <1>4
<1>10. (u + 1) * TicketSize = u * TicketSize + TicketSize
  BY <1>2, <1>4
<1>11. FullPackets + 1 = (u + 1) * f
  BY <1>2, <1>3, <1>4, <1>6
<1>12. length[ticket] = TicketSize
  <2>1. ticket = bundle[1] /\ bundle \in Seq(Tickets) /\ bundle # <<>> /\ IsInjective(bundle)
    BY <1>1 DEF IInv, Shape, Bought, OneOwner
  <2>2. ticket \in ToSet(bundle)
    BY <2>1, TailOwners
  <2>3. QED
    BY <2>2 DEF IInv, FullLength
<1>13. Len(w) = (u + 1) * TicketSize
  BY <1>4, <1>8, <1>10
<1>14. ASSUME NEW i \in 1..(u + 1) * TicketSize PROVE w[i] = Expected(i)
  <2>1. Len(wire) \in Nat /\ i \in Nat /\ i > 0 /\ i <= Len(wire) + TicketSize
    <3>1. Len(wire) \in Nat /\ (u + 1) * TicketSize = Len(wire) + TicketSize
      BY <1>2, <1>4, <1>10
    <3>2. QED
      BY <1>2, <3>1
  <2>2. CASE i <= Len(wire)
    <3>1. w[i] = wire[i]
      BY <1>8, <2>1, <2>2
    <3>2. QED
      BY <1>1, <2>1, <2>2, <3>1 DEF IInv, Content
  <2>3. CASE i > Len(wire)
    <3>1. i - Len(wire) \in 1..TicketSize /\ Len(wire) + (i - Len(wire)) = i
      BY <1>2, <2>1, <2>3
    <3>2. w[i] = Copied[i - Len(wire)]
      BY <1>8, <3>1
    <3>3. QED
      BY <1>5, <1>7, <1>9, <3>1, <3>2
  <2>4. QED
    BY <2>1, <2>2, <2>3
<1>15. QED
  BY <1>4, <1>8, <1>11, <1>12, <1>13, <1>14 DEF u, w, f

(* The URB is full and accepted.                                           *)
LEMMA NextTicketKeeps ==
  ASSUME IInv, NextTicket
  PROVE  IInv'
<1> DEFINE u == SentTickets
           rest == Tail(bundle)
           r == RequiredTickets(estimate)
<1>1. /\ phase = "encode" /\ count # 0 /\ Copy /\ buffer_avail_length = size_to_copy
      /\ packet_pos + 1 >= packet_size_factor
      /\ flight' = flight \union {ticket} /\ bundle' = rest /\ packet_pos' = 0
      /\ wire' = Transmit(Copied, length[ticket])
      /\ pool' = pool /\ length' = length
  BY DEF NextTicket, Copy
<1>2. /\ given' \in Nat /\ count' \in Nat /\ given \in Nat /\ count \in Nat
      /\ given' + count' = given + count /\ estimate' = estimate /\ estimate \in Nat
  BY <1>1, RoundCounts DEF IInv, Shape
<1>3. /\ u \in Nat /\ length[ticket] = TicketSize
      /\ wire' \in Seq(Int) /\ Len(wire') = (u + 1) * TicketSize
      /\ \A i \in 1..Len(wire') : wire'[i] = Expected(i)
      /\ FullPackets + 1 = (u + 1) * packet_size_factor
  BY <1>1, UrbFull
<1>4. given' + CommandSize = (FullPackets + 1) * PayloadPerPacket + HeaderSize
  BY <1>1, PacketFull
<1>5. /\ ticket = bundle[1] /\ bundle \in Seq(Tickets) /\ bundle # <<>> /\ IsInjective(bundle)
      /\ Len(bundle) <= r /\ (CommandSize - HeaderSize) + (given + count) <= estimate
  BY <1>1 DEF IInv, Shape, Bought, OneOwner
<1>6. /\ rest \in Seq(Tickets) /\ Len(rest) = Len(bundle) - 1 /\ IsInjective(rest)
      /\ ticket \in ToSet(bundle) /\ ticket \in Tickets
      /\ ToSet(rest) \subseteq ToSet(bundle) \ {ticket}
  BY <1>5, TailOwners
<1>7. /\ MaxPacket \in Nat /\ HeaderSize \in Nat /\ CommandSize \in Nat
      /\ HeaderSize < CommandSize /\ CommandSize < MaxPacket
      /\ packet_size_factor \in Nat /\ packet_size_factor > 0
      /\ PayloadPerPacket \in Nat /\ TicketSize \in Nat
      /\ HeaderSize <= TicketSize /\ PayloadPerTicket = packet_size_factor * PayloadPerPacket
  <2>1. MaxPacket <= packet_size_factor * MaxPacket
    BY Sizes
  <2>2. QED
    BY <2>1, Sizes
<1>8. /\ r \in Nat /\ Len(bundle) \in Nat \ {0} /\ u = r - Len(bundle)
      /\ FullPackets \in Nat
  BY <1>1, StreamSoFar DEF IInv, SentTickets
<1>9. (CommandSize - HeaderSize) + (given' + count') <= estimate
  BY <1>2, <1>5
<1> HIDE DEF u, rest, r
<1>10. OneOwner'
  BY <1>1, <1>6 DEF IInv, OneOwner
<1>11. FullLength'
  BY <1>1, <1>6 DEF IInv, FullLength
<1>12. packet_pos' \in 0..packet_size_factor - 1
  BY <1>1, <1>7
<1>13. CASE rest = <<>>
  <2>1. phase' = "bug" /\ ticket' = NoTicket /\ buffer' = Leftover /\ encoded_pos' = encoded_pos
    BY <1>1, <1>13 DEF NextTicket
  <2>2. buffer' \in [1..TicketSize -> Int]
    BY <1>7, <2>1, FreshBuffer
  <2>3. Shape'
    BY <1>1, <1>2, <1>3, <1>6, <1>12, <2>1, <2>2 DEF IInv, Shape
  <2>4. Bought' /\ Position' /\ Content' /\ DeviceGetsImage'
    BY <1>1, <1>13, <2>1 DEF Bought, Position, Content, DeviceGetsImage
  <2>5. u + 1 = r
    <3>1. Len(rest) = 0
      BY <1>13
    <3>2. Len(bundle) = 1
      BY <1>6, <1>8, <3>1
    <3>3. QED
      BY <1>8, <3>2
  <2>6. estimate > 0 /\ estimate <= r * PayloadPerTicket
    <3>1. CommandSize - HeaderSize > 0 /\ CommandSize - HeaderSize \in Int
      BY <1>7
    <3>2. given \in Nat /\ count \in Nat
      BY <1>2
    <3>3. estimate > 0
      BY <1>2, <1>5, <3>1, <3>2
    <3>4. QED
      BY <1>2, <3>3, TicketsHold DEF r
  <2>7. given' + (CommandSize - HeaderSize) = r * PayloadPerTicket
    <3>1. FullPackets + 1 = r * packet_size_factor
      BY <1>3, <2>5
    <3>2. (r * packet_size_factor) * PayloadPerPacket = r * PayloadPerTicket
      BY <1>7, <1>8
    <3>3. given' + CommandSize = r * PayloadPerTicket + HeaderSize
      BY <1>4, <3>1, <3>2
    <3>4. r * PayloadPerTicket \in Int
      BY <1>7, <1>8
    <3>5. QED
      BY <1>2, <1>7, <3>3, <3>4
  <2>8. r * PayloadPerTicket \in Int
    BY <1>7, <1>8
  <2>9. estimate = r * PayloadPerTicket
    <3>1. given' + (CommandSize - HeaderSize) <= estimate
      <4>1. CommandSize - HeaderSize \in Int
        BY <1>7
      <4>2. QED
        BY <1>2, <1>9, <4>1
    <3>2. QED
      BY <1>2, <2>6, <2>7, <2>8, <3>1
  <2>10. BugOnlyWhenFull'
    BY <1>2, <2>7, <2>8, <2>9 DEF BugOnlyWhenFull, Overruns, r
  <2>11. QED
    BY <1>10, <1>11, <2>3, <2>4, <2>10 DEF IInv
<1>14. CASE rest # <<>>
  <2>1. /\ phase' = phase /\ ticket' = Head(rest) /\ encoded_pos' = HeaderSize
        /\ buffer' = Overwrite(Leftover, 0, Repeat(Continuation, HeaderSize))
    BY <1>1, <1>14 DEF NextTicket
  <2>2. ticket' = rest[1]
    BY <1>6, <1>14, <2>1
  <2>3. /\ buffer' \in [1..TicketSize -> Int]
        /\ \A i \in 1..HeaderSize : buffer'[i] = Continuation
    <3>1. Continuation \in Int
      BY DEF Continuation
    <3>2. HeaderSize \in Nat /\ HeaderSize <= TicketSize
      BY <1>7
    <3>3. QED
      BY <2>1, <3>1, <3>2, FreshBuffer
  <2>4. Shape'
    <3>1. encoded_pos' \in 0..MaxPacket - 1 /\ ticket' \in Tickets
      BY <1>6, <1>7, <1>14, <2>1, <2>2
    <3>2. QED
      BY <1>1, <1>2, <1>3, <1>6, <1>12, <2>1, <2>3, <3>1 DEF IInv, Shape
  <2>5. RequiredTickets(estimate') = r /\ Len(bundle') = Len(bundle) - 1
    BY <1>1, <1>2, <1>6 DEF r
  <2>6. Bought'
    <3>1. Len(bundle') <= RequiredTickets(estimate')
      BY <1>5, <1>8, <2>5
    <3>2. QED
      BY <1>1, <1>2, <1>9, <1>14, <2>1, <2>2, <3>1 DEF Bought
  <2>7. SentTickets' = u + 1 /\ FullPackets' = FullPackets + 1
    <3>1. SentTickets' = u + 1
      BY <1>8, <2>5 DEF SentTickets
    <3>2. FullPackets' = (u + 1) * packet_size_factor + 0
      BY <1>1, <3>1 DEF FullPackets
    <3>3. (u + 1) * packet_size_factor \in Int
      BY <1>3, <1>7
    <3>4. QED
      BY <1>3, <3>1, <3>2, <3>3
  <2>8. Position'
    BY <1>3, <1>4, <1>7, <2>1, <2>7 DEF Position
  <2>9. transfer_size' = HeaderSize
    BY <1>1, <1>7, <2>1 DEF transfer_size
  <2>10. ASSUME NEW i \in 1..HeaderSize
         PROVE  buffer'[i] = Expected(Len(wire') + i)
    <3>1. Expected((FullPackets + 1) * MaxPacket + i) = Continuation
      BY <1>8, HeaderPlace
    <3>2. (FullPackets + 1) * MaxPacket = (u + 1) * TicketSize
      BY <1>3, <1>7, Sizes
    <3>3. QED
      BY <1>3, <2>3, <3>1, <3>2
  <2>11. Content'
    BY <1>3, <2>9, <2>10 DEF Content
  <2>12. QED
    BY <1>1, <1>10, <1>11, <2>1, <2>4, <2>6, <2>8, <2>11
    DEF IInv, DeviceGetsImage, BugOnlyWhenFull
<1>15. QED
  BY <1>13, <1>14

(* The full URB is refused: all tickets return.                            *)
LEMMA NextTicketRefusedKeeps ==
  ASSUME IInv, NextTicketRefused
  PROVE  IInv'
<1>1. /\ phase = "encode" /\ Copy /\ buffer' = Leftover
      /\ length' = [length EXCEPT ![ticket] = TicketSize]
      /\ pool' = pool \union ToSet(bundle) /\ bundle' = <<>> /\ phase' = "abort"
      /\ ticket' = NoTicket
      /\ UNCHANGED <<flight, packet_pos, encoded_pos, wire>>
  BY DEF NextTicketRefused, ResetLength, Copy
<1>2. given' \in Nat /\ count' \in Nat /\ estimate' = estimate
  BY <1>1, RoundCounts DEF IInv, Shape
<1>3. TicketSize \in Nat /\ buffer' \in [1..TicketSize -> Int]
  BY <1>1, FreshBuffer, Sizes
<1>4. ToSet(bundle) \subseteq Tickets
  BY DEF IInv, Shape, ToSet
<1>5. ToSet(bundle') = {} /\ IsInjective(bundle') /\ bundle' \in Seq(Tickets)
  BY <1>1 DEF ToSet, IsInjective
<1>6. Shape'
  <2>1. length' \in [Tickets -> 0..TicketSize]
    <3>1. length \in [Tickets -> 0..TicketSize] /\ TicketSize \in 0..TicketSize
      BY <1>3 DEF IInv, Shape
    <3>2. QED
      BY <1>1, <3>1
  <2>2. QED
    BY <1>1, <1>2, <1>3, <1>4, <1>5, <2>1 DEF IInv, Shape
<1>7. OneOwner'
  BY <1>1, <1>5 DEF IInv, OneOwner
<1>8. FullLength'
  BY <1>1, <1>3, <1>4, <1>5 DEF IInv, Shape, FullLength
<1>9. QED
  BY <1>1, <1>6, <1>7, <1>8
  DEF IInv, Bought, Position, Content, DeviceGetsImage, BugOnlyWhenFull

(* The stream is complete: command, headers and image are in their places. *)
LEMMA FlushSendsImage ==
  ASSUME IInv, Flush
  PROVE  /\ wire' \in Seq(Int)
         /\ transfer_size \in 0..TicketSize
         /\ DeviceGetsImage'
<1> DEFINE q == FullPackets
           e == encoded_pos
           j == CommandSize - HeaderSize + given
<1>1. /\ phase = "encode" /\ given > 0 /\ given' = given
      /\ length'[ticket] = transfer_size
      /\ wire' = Transmit(buffer, transfer_size)
  <2>1. /\ phase = "encode" /\ given > 0 /\ given' = given
        /\ length' = [length EXCEPT ![ticket] = transfer_size]
        /\ wire' = Transmit(buffer, length'[ticket])
    BY DEF Flush
  <2>2. ticket \in Tickets
    BY <2>1, TailOwners DEF IInv, Shape, Bought, OneOwner
  <2>3. length'[ticket] = transfer_size
    BY <2>1, <2>2 DEF IInv, Shape
  <2>4. QED
    BY <2>1, <2>3
<1>2. /\ MaxPacket \in Nat /\ HeaderSize \in Nat /\ CommandSize \in Nat
      /\ HeaderSize < CommandSize /\ PayloadPerPacket \in Nat /\ TicketSize \in Nat
      /\ e \in Nat /\ e < MaxPacket /\ e >= HeaderSize /\ given \in Nat
      /\ wire \in Seq(Int) /\ Len(wire) \in Nat /\ buffer \in [1..TicketSize -> Int]
  BY <1>1, Sizes DEF IInv, Shape, Position
<1>3. /\ q \in Nat /\ urbbuffer \in Nat /\ urbbuffer + MaxPacket <= TicketSize
      /\ urbbuffer = packet_pos * MaxPacket
      /\ Len(wire) + urbbuffer = q * MaxPacket
      /\ transfer_size = urbbuffer + e /\ CommandSize <= q * MaxPacket + e
  BY <1>1, StreamSoFar DEF IInv
<1>4. given + CommandSize = q * PayloadPerPacket + e
  BY <1>1 DEF IInv, Position
<1>5. transfer_size \in 0..TicketSize
  BY <1>2, <1>3
<1>6. /\ wire' \in Seq(Int) /\ Len(wire') = Len(wire) + transfer_size
      /\ \A i \in 1..Len(wire) : wire'[i] = wire[i]
      /\ \A i \in 1..transfer_size : wire'[Len(wire) + i] = buffer[i]
  BY <1>1, <1>2, <1>5, TransmitEffect
<1>7. Len(wire') = q * MaxPacket + e
  <2> DEFINE full == q * MaxPacket
  <2>1. full \in Int /\ Len(wire) + urbbuffer = full /\ urbbuffer \in Nat
    BY <1>2, <1>3
  <2>2. Len(wire') = Len(wire) + (urbbuffer + e)
    BY <1>3, <1>6
  <2> HIDE DEF full
  <2>3. Len(wire') = full + e
    <3>1. Len(wire') = (Len(wire) + urbbuffer) + e
      BY <1>2, <2>1, <2>2
    <3>2. QED
      BY <2>1, <3>1
  <2>4. QED
    BY <2>3 DEF full
<1>8. ASSUME NEW i \in 1..Len(wire') PROVE wire'[i] = Expected(i)
  <2>1. CASE i <= Len(wire)
    BY <1>1, <1>2, <1>6, <2>1 DEF IInv, Content
  <2>2. CASE i > Len(wire)
    <3>1. i - Len(wire) \in 1..transfer_size /\ Len(wire) + (i - Len(wire)) = i
      BY <1>2, <1>5, <1>6, <2>2
    <3>2. wire'[i] = buffer[i - Len(wire)]
      BY <1>6, <3>1
    <3>3. QED
      BY <1>1, <3>1, <3>2 DEF IInv, Content
  <2>3. QED
    BY <1>2, <2>1, <2>2
<1>9. /\ j \in Nat /\ j > 0 /\ j = q * PayloadPerPacket + e - HeaderSize
  <2> DEFINE full == q * PayloadPerPacket
  <2>1. full \in Int
    BY <1>2, <1>3
  <2>2. given + CommandSize = full + e
    BY <1>4
  <2> HIDE DEF full
  <2>3. j = full + e - HeaderSize
    BY <1>2, <2>1, <2>2
  <2>4. QED
    BY <1>2, <2>3 DEF full
<1>10. \A i \in 1..CommandSize : wire'[i] = CommandByte
  <2>1. ASSUME NEW i \in 1..CommandSize PROVE wire'[i] = CommandByte
    <3>1. i \in 1..Len(wire')
      BY <1>2, <1>3, <1>7
    <3>2. Expected(i) = CommandByte
      BY <1>2 DEF Expected
    <3>3. QED
      BY <1>8, <3>1, <3>2
  <2>2. QED
    BY <2>1
<1>11. \A k \in 1..given : wire'[WirePosition(CommandSize - HeaderSize + k)] = k
  <2>1. ASSUME NEW k \in 1..given
        PROVE  wire'[WirePosition(CommandSize - HeaderSize + k)] = k
    <3> DEFINE w == WirePosition(CommandSize - HeaderSize + k)
    <3>1. k \in Nat /\ k > 0 /\ k + CommandSize <= q * PayloadPerPacket + e
      <4>1. k + CommandSize <= given + CommandSize
        BY <1>2
      <4>2. QED
        BY <1>2, <1>4, <4>1
    <3>2. w \in 1..q * MaxPacket + e /\ Expected(w) = k
      BY <1>2, <1>3, <3>1, ImagePlace
    <3> HIDE DEF w
    <3>3. QED
      BY <1>7, <1>8, <3>2 DEF w
  <2>2. QED
    BY <2>1
<1>12. \A i \in CommandSize + 1..Len(wire') :
         (i - 1) % MaxPacket < HeaderSize => wire'[i] = Continuation
  <2>1. ASSUME NEW i \in CommandSize + 1..Len(wire'), (i - 1) % MaxPacket < HeaderSize
        PROVE  wire'[i] = Continuation
    <3>1. i \in 1..Len(wire') /\ ~(i <= CommandSize)
      BY <1>2, <1>6
    <3>2. Expected(i) = Continuation
      BY <2>1, <3>1 DEF Expected
    <3>3. QED
      BY <1>8, <3>1, <3>2
  <2>2. QED
    BY <2>1
<1>13. LET last == WirePosition(CommandSize - HeaderSize + given)
       IN  Len(wire') = IF last % MaxPacket = 0 THEN last + HeaderSize ELSE last
  <2> DEFINE last == WirePosition(j)
  <2> HIDE DEF j
  <2>1. /\ last = IF e = HeaderSize THEN q * MaxPacket ELSE q * MaxPacket + e
        /\ last % MaxPacket = 0 <=> e = HeaderSize
    BY <1>2, <1>3, <1>9, LastPlace
  <2> HIDE DEF last
  <2>2. Len(wire') = IF last % MaxPacket = 0 THEN last + HeaderSize ELSE last
    BY <1>7, <2>1
  <2>3. QED
    BY <2>2 DEF last, j
<1>14. DeviceGetsImage'
  BY <1>1, <1>10, <1>11, <1>12, <1>13 DEF DeviceGetsImage
<1>15. QED
  BY <1>5, <1>6, <1>14

(* The last URB is accepted, the unused tickets return.                    *)
LEMMA FlushKeeps ==
  ASSUME IInv, Flush
  PROVE  IInv'
<1> DEFINE rest == Tail(bundle)
<1>1. /\ phase = "encode" /\ phase' = "sent" /\ bundle' = <<>> /\ ticket' = NoTicket /\ buffer' = Leftover
      /\ length' = [length EXCEPT ![ticket] = transfer_size]
      /\ flight' = flight \union {ticket} /\ pool' = pool \union ToSet(rest)
      /\ UNCHANGED <<packet_pos, encoded_pos, estimate, given, count>>
  BY DEF Flush
<1>2. wire' \in Seq(Int) /\ transfer_size \in 0..TicketSize /\ DeviceGetsImage'
  BY FlushSendsImage
<1>3. /\ bundle \in Seq(Tickets) /\ bundle # <<>> /\ IsInjective(bundle)
      /\ ticket = bundle[1]
  BY <1>1 DEF IInv, Shape, Bought, OneOwner
<1>4. /\ ticket \in ToSet(bundle) /\ ticket \in Tickets
      /\ ToSet(rest) \subseteq ToSet(bundle) \ {ticket} /\ ToSet(bundle) \subseteq Tickets
  BY <1>3, TailOwners
<1> HIDE DEF rest
<1>5. TicketSize \in Nat /\ buffer' \in [1..TicketSize -> Int]
  BY <1>1, FreshBuffer, Sizes
<1>6. ToSet(bundle') = {} /\ IsInjective(bundle') /\ bundle' \in Seq(Tickets)
  BY <1>1 DEF ToSet, IsInjective
<1>7. Shape'
  <2>1. length' \in [Tickets -> 0..TicketSize]
    <3>1. length \in [Tickets -> 0..TicketSize]
      BY DEF IInv, Shape
    <3>2. QED
      BY <1>1, <1>2, <3>1
  <2>2. QED
    BY <1>1, <1>2, <1>4, <1>5, <1>6, <2>1 DEF IInv, Shape
<1>8. OneOwner'
  BY <1>1, <1>4, <1>6 DEF IInv, OneOwner
<1>9. FullLength'
  <2>1. ASSUME NEW t \in pool' \union ToSet(bundle') PROVE length'[t] = TicketSize
    <3>1. t \in pool \union ToSet(bundle) /\ t # ticket /\ t \in Tickets
      BY <1>1, <1>4, <1>6, <2>1 DEF IInv, Shape, OneOwner
    <3>2. length'[t] = length[t]
      BY <1>1, <3>1 DEF IInv, Shape
    <3>3. QED
      BY <3>1, <3>2 DEF IInv, FullLength
  <2>2. QED
    BY <2>1 DEF FullLength
<1>10. QED
  BY <1>1, <1>2, <1>7, <1>8, <1>9 DEF IInv, Bought, Position, Content, BugOnlyWhenFull

(* The last URB is refused: its ticket returns, the others are lost.       *)
LEMMA FlushRefusedKeeps ==
  ASSUME IInv, FlushRefused
  PROVE  IInv'
<1>1. /\ phase = "encode" /\ phase' = "abort" /\ bundle' = <<>> /\ ticket' = NoTicket /\ buffer' = Leftover
      /\ length' = [length EXCEPT ![ticket] = TicketSize]
      /\ pool' = pool \union {ticket}
      /\ UNCHANGED <<flight, packet_pos, encoded_pos, estimate, given, count, wire>>
  BY DEF FlushRefused, ResetLength
<1>2. ticket \in ToSet(bundle) /\ ticket \in Tickets
  BY <1>1, TailOwners DEF IInv, Shape, Bought, OneOwner
<1>3. TicketSize \in Nat /\ buffer' \in [1..TicketSize -> Int]
  BY <1>1, FreshBuffer, Sizes
<1>4. ToSet(bundle') = {} /\ IsInjective(bundle') /\ bundle' \in Seq(Tickets)
  BY <1>1 DEF ToSet, IsInjective
<1>5. Shape'
  <2>1. length' \in [Tickets -> 0..TicketSize]
    <3>1. length \in [Tickets -> 0..TicketSize] /\ TicketSize \in 0..TicketSize
      BY <1>3 DEF IInv, Shape
    <3>2. QED
      BY <1>1, <3>1
  <2>2. QED
    BY <1>1, <1>2, <1>3, <1>4, <2>1 DEF IInv, Shape
<1>6. OneOwner' /\ FullLength'
  BY <1>1, <1>2, <1>3, <1>4 DEF IInv, Shape, OneOwner, FullLength
<1>7. QED
  BY <1>1, <1>5, <1>6
  DEF IInv, Bought, Position, Content, DeviceGetsImage, BugOnlyWhenFull

(* A new transfer starts from nothing.                                     *)
LEMMA EndKeeps ==
  ASSUME IInv, End
  PROVE  IInv'
<1>1. /\ phase' = "idle" /\ packet_pos' = 0 /\ encoded_pos' = 0 /\ estimate' = 0
      /\ given' = 0 /\ count' = 0 /\ wire' = <<>> /\ phase # "encode"
      /\ UNCHANGED <<pool, flight, length, bundle, ticket, buffer>>
  BY DEF End
<1>2. Shape'
  <2>1. packet_pos' \in 0..packet_size_factor - 1 /\ encoded_pos' \in 0..MaxPacket - 1
    BY <1>1, Sizes
  <2>2. wire' \in Seq(Int)
    BY <1>1
  <2>3. QED
    BY <1>1, <2>1, <2>2 DEF IInv, Shape
<1>3. OneOwner' /\ FullLength' /\ Bought'
  BY <1>1 DEF IInv, OneOwner, FullLength, Bought
<1>4. QED
  BY <1>1, <1>2, <1>3 DEF IInv, Position, Content, DeviceGetsImage, BugOnlyWhenFull

(* What happens to tickets outside of the encoder's hands.                 *)
LEMMA OtherTickets ==
  ASSUME IInv, UNCHANGED <<ctxVars, estimate, given, count, wire, phase>>,
         NEW t \in Tickets, t \notin ToSet(bundle), NEW n \in 0..TicketSize,
         length' = [length EXCEPT ![t] = n],
         \/ pool' = pool \ {t} /\ flight' = flight \union {t}
         \/ pool' = pool \union {t} /\ flight' = flight \ {t} /\ n = TicketSize
  PROVE  IInv'
<1>1. UNCHANGED <<bundle, ticket, buffer, packet_pos, encoded_pos, estimate, given,
                  count, wire, phase>>
  BY DEF ctxVars
<1>2. length' \in [Tickets -> 0..TicketSize]
  BY DEF IInv, Shape
<1>3. Shape'
  BY <1>1, <1>2 DEF IInv, Shape
<1>4. OneOwner'
  BY <1>1 DEF IInv, OneOwner
<1>5. FullLength'
  <2>1. ASSUME NEW s \in pool' \union ToSet(bundle') PROVE length'[s] = TicketSize
    <3>1. s \in Tickets /\ (s = t => n = TicketSize)
      BY <1>1, <2>1 DEF IInv, Shape, ToSet
    <3>2. CASE s = t
      BY <3>1, <3>2 DEF IInv, Shape
    <3>3. CASE s # t
      BY <1>1, <2>1, <3>1, <3>3 DEF IInv, Shape, FullLength
    <3>4. QED
      BY <3>2, <3>3
  <2>2. QED
    BY <2>1 DEF FullLength
<1>6. Bought' /\ Position' /\ Content'
  BY <1>1 DEF IInv, Bought, Position, Content, SentTickets, FullPackets, transfer_size
<1>7. QED
  BY <1>1, <1>3, <1>4, <1>5, <1>6 DEF IInv, DeviceGetsImage, BugOnlyWhenFull

(* Fill and copy commands use one ticket and shorten its URB.              *)
LEMMA SendCommandKeeps ==
  ASSUME IInv, NEW t \in Tickets, SendCommand(t, CommandSize)
  PROVE  IInv'
<1>1. t \notin ToSet(bundle)
  BY DEF SendCommand, IInv, OneOwner
<1>2. CommandSize \in 0..TicketSize
  <2>1. MaxPacket <= packet_size_factor * MaxPacket
    BY Sizes
  <2>2. QED
    BY <2>1, Sizes
<1>3. QED
  BY <1>1, <1>2, OtherTickets DEF SendCommand

(* The completion handler resets the URB before the ticket returns.        *)
LEMMA FinishedKeeps ==
  ASSUME IInv, NEW t \in Tickets, Finished(t)
  PROVE  IInv'
<1>1. t \notin ToSet(bundle)
  BY DEF Finished, IInv, OneOwner
<1>2. TicketSize \in 0..TicketSize
  BY Sizes
<1>3. QED
  BY <1>1, <1>2, OtherTickets DEF Finished, ResetLength

(* Every step keeps the invariant.                                         *)
LEMMA NextIInv == IInv /\ [Next]_vars => IInv'
<1> SUFFICES ASSUME IInv, [Next]_vars PROVE IInv'
  OBVIOUS
<1>1. ASSUME UNCHANGED vars PROVE IInv'
  BY <1>1
  DEF vars, ctxVars, IInv, Shape, OneOwner, FullLength, Bought, Position, Content,
      SentTickets, FullPackets, transfer_size, DeviceGetsImage, BugOnlyWhenFull
<1>2. ASSUME NEW n \in Payloads, Begin(n) PROVE IInv'
  BY <1>2, BeginKeeps
<1>3. ASSUME NEW c \in Chunks, Give(c) PROVE IInv'
  BY <1>3, GiveKeeps
<1>4. ASSUME NEW t \in Tickets, SendCommand(t, CommandSize) PROVE IInv'
  BY <1>4, SendCommandKeeps
<1>5. ASSUME NEW t \in Tickets, Finished(t) PROVE IInv'
  BY <1>5, FinishedKeeps
<1>6. QED
  BY <1>1, <1>2, <1>3, <1>4, <1>5, FillPacketKeeps, NextPacketKeeps, NextTicketKeeps,
     NextTicketRefusedKeeps, FlushKeeps, FlushRefusedKeeps, EndKeeps
  DEF Next

-----------------------------------------------------------------------------
(* The inductive invariant: where the encoder is in the stream, and that   *)
(* buffer and wire hold the stream up to there.                            *)
THEOREM Inductive == Spec => []IInv
BY InitIInv, NextIInv, PTL DEF Spec

(* The encoder's positions stay within the packet and the buffer of its    *)
(* ticket, and no URB is longer than its buffer.                           *)
THEOREM TypeCorrect == Spec => []TypeOK
<1>1. ASSUME Shape PROVE TypeOK
  <2>1. TicketSize \in Nat /\ MaxPacket \in Nat /\ packet_size_factor \in Nat
    BY Sizes
  <2>2. buffer \in Seq(Int) /\ Len(buffer) = TicketSize
    BY <1>1, <2>1 DEF Shape
  <2>3. ToSet(bundle) \subseteq Tickets
    BY <1>1 DEF Shape, ToSet
  <2>4. packet_pos \in 0..packet_size_factor /\ encoded_pos \in 0..MaxPacket
    BY <1>1, <2>1 DEF Shape
  <2>5. QED
    BY <1>1, <2>2, <2>3, <2>4 DEF Shape, TypeOK
<1>2. IInv => TypeOK
  BY <1>1 DEF IInv
<1>3. QED
  BY <1>2, Inductive, PTL

(* _bitblt_encode_n_transfer_data and _bitblt_encoder_flush: whatever the  *)
(* tickets were used for before and however the image is cut into calls,   *)
(* the device gets the command and then each image byte once, in order.    *)
THEOREM ImageArrives == Spec => []DeviceGetsImage
<1>1. IInv => DeviceGetsImage
  BY DEF IInv
<1>2. QED
  BY <1>1, Inductive, PTL

(* The BUG_ON of _bitblt_encode_n_transfer_data: the encoder runs out of   *)
(* tickets only behind the last byte of an image that fills them exactly.  *)
THEOREM BugConfined == Spec => []BugOnlyWhenFull
<1>1. IInv => BugOnlyWhenFull
  BY DEF IInv
<1>2. QED
  BY <1>1, Inductive, PTL

-----------------------------------------------------------------------------
(* The whole of try_send_image.                                            *)

(* Without RLE the output is the image itself.                             *)
Plain ==
  ~rlemode =>
    /\ section_size = 0 /\ is_common_section = FALSE
    /\ full_sections = 0 /\ finished = FALSE /\ header_next = FALSE
    /\ decoded = consumed
    /\ bytes = 2 * Len(consumed)

(* The packet encoder gets what the run-length encoder has written, one    *)
(* section at a time.                                                      *)
OnTheWay ==
  phase = "encode" =>
    /\ estimate = PayloadEstimate(2 * area, rlemode)
    /\ Len(consumed) <= area
    /\ finished => Len(consumed) = area
    /\ given + count <= bytes
    /\ header_next => given + count < bytes
    /\ bytes - (given + count) <= 2 * MaxSection + (IF header_next THEN 1 ELSE 0)

ImageShape == area \in Nat /\ rlemode \in BOOLEAN /\ header_next \in BOOLEAN

ImageInv ==
  /\ RP!IInv
  /\ ImageShape
  /\ Plain
  /\ OnTheWay
  /\ WholeImageSent

(* What RleEncoderProofs assumes.                                          *)
LEMMA RleGiven == RP!RleAssumption
BY SenderAssumption, SizingAssumption DEF RP!RleAssumption

(* What the invariant of the run-length encoder says in plain terms.       *)
LEMMA RleFacts ==
  ASSUME RP!IInv
  PROVE  /\ consumed \in Seq(Pixels) /\ decoded \in Seq(Pixels)
         /\ bytes \in Nat /\ Len(consumed) \in Nat /\ Len(decoded) \in Nat
         /\ finished \in BOOLEAN /\ section_size \in Nat
         /\ Len(consumed) = Len(decoded) + section_size
         /\ \A i \in 1..Len(decoded) : decoded[i] = consumed[i]
         /\ finished => section_size = 0
<1>1. RP!TypeOK /\ RP!Lossless /\ RP!Budget
  BY DEF RP!IInv
<1>2. /\ consumed \in Seq(Pixels) /\ decoded \in Seq(Pixels)
      /\ bytes \in Nat /\ finished \in BOOLEAN /\ section_size \in Nat
  BY <1>1, SenderAssumption, SizingAssumption DEF RP!TypeOK
<1>3. /\ Len(consumed) = Len(decoded) + section_size
      /\ \A i \in 1..Len(decoded) : decoded[i] = consumed[i]
  BY <1>1, Zenon DEF RP!Lossless
<1>4. finished => section_size = 0
  BY <1>1, Zenon DEF RP!Budget
<1>5. QED
  BY <1>2, <1>3, <1>4

(* A fresh context is the run-length encoder's initial state.              *)
LEMMA FreshRle == FreshContext => RP!IInv'
<1>1. (RP!Init => RP!IInv)'
  BY RleGiven, RP!InitIInv, PTL
<1>2. FreshContext => RP!Init'
  BY DEF FreshContext, RP!Init
<1>3. QED
  BY <1>1, <1>2

(* The steps of RleEncoder, as this module and as RleEncoderProofs name    *)
(* them.                                                                   *)
LEMMA SameSteps ==
  /\ \A p \in Pixels : R!Encode(p) => RP!Encode(p)
  /\ R!Finish => RP!Finish
<1> USE DEF R!Consume, RP!Consume, R!FlushSection, RP!FlushSection,
     R!StartSection, RP!StartSection, R!Repeats, RP!Repeats,
     R!SectionBytes, RP!SectionBytes, R!DecodeSection, RP!DecodeSection,
     R!HeaderCount, RP!HeaderCount, R!SectionHeader, RP!SectionHeader
<1>1. ASSUME NEW p \in Pixels, R!Encode(p) PROVE RP!Encode(p)
  <2>1. R!EndCommon(p) => RP!EndCommon(p)
    BY DEF R!EndCommon, RP!EndCommon
  <2>2. R!ExtendCommon(p) => RP!ExtendCommon(p)
    BY DEF R!ExtendCommon, RP!ExtendCommon
  <2>3. R!StartCommon(p) => RP!StartCommon(p)
    BY DEF R!StartCommon, RP!StartCommon
  <2>4. R!ExtendSection(p) => RP!ExtendSection(p)
    BY DEF R!ExtendSection, RP!ExtendSection
  <2>5. QED
    BY <1>1, <2>1, <2>2, <2>3, <2>4 DEF R!Encode, RP!Encode
<1>2. R!Finish => RP!Finish
  BY DEF R!Finish, RP!Finish
<1>3. QED
  BY <1>1, <1>2

(* A step of the run-length encoder: a section of bytes more, or none.     *)
LEMMA RleStep ==
  ASSUME RP!IInv, (\E p \in Pixels : R!Encode(p)) \/ R!Finish
  PROVE  /\ RP!IInv'
         /\ bytes' \in Nat
         /\ \/ bytes' = bytes
            \/ bytes' >= bytes + 3 /\ bytes' <= bytes + (1 + 2 * MaxSection)
<1>1. (\E p \in Pixels : RP!Encode(p)) \/ RP!Finish
  BY SameSteps
<1>2. RP!Next
  BY <1>1 DEF RP!Next
<1>3. RP!IInv'
  BY <1>2, RleGiven, RP!NextIInv
<1>4. /\ bytes' \in Nat
      /\ \/ bytes' = bytes
         \/ bytes' >= bytes + 3 /\ bytes' <= bytes + (1 + 2 * MaxSection)
  BY <1>1, RleGiven, RP!SectionOutput
<1>5. QED
  BY <1>3, <1>4

(* The estimate of _bitblt_encoder_init and the one of RleEncoder are the  *)
(* same; nothing that was written is outside of it.                        *)
LEMMA OutputWithinEstimate ==
  ASSUME ImageInv, phase = "encode"
  PROVE  (CommandSize - HeaderSize) + bytes <= estimate
<1>1. /\ area \in Nat /\ rlemode \in BOOLEAN /\ Len(consumed) <= area
      /\ finished => Len(consumed) = area
      /\ estimate = PayloadEstimate(2 * area, rlemode)
  BY DEF ImageInv, ImageShape, OnTheWay
<1>2. bytes \in Nat /\ Len(consumed) \in Nat
  BY RleFacts DEF ImageInv
<1>3. CommandSize - HeaderSize \in Nat /\ MaxSection \in Nat /\ MaxSection > 0
  BY Sizes, SizingAssumption
<1> DEFINE q == (area + (MaxSection - 1)) \div MaxSection
<1>4. q \in Int
  BY <1>1, <1>3
<1>5. CASE rlemode
  <2>1. bytes <= RP!Estimate(area)
    BY <1>1, RleGiven, RP!OutputWithin DEF ImageInv
  <2>2. RP!Estimate(area) = 2 * area + q
    BY DEF RP!Estimate
  <2>3. RoundUpDiv((2 * area) \div 2, MaxSection) = q
    <3>1. (2 * area) \div 2 = area /\ area + MaxSection - 1 = area + (MaxSection - 1)
      BY <1>1, <1>3
    <3>2. QED
      BY <3>1, Zenon DEF RoundUpDiv
  <2> HIDE DEF q
  <2>4. estimate = (CommandSize - HeaderSize) + 2 * area + q
    BY <1>1, <1>5, <2>3, Zenon DEF PayloadEstimate
  <2>5. QED
    BY <1>1, <1>2, <1>3, <1>4, <2>1, <2>2, <2>4
<1>6. CASE ~rlemode
  <2>1. bytes = 2 * Len(consumed)
    BY <1>6 DEF ImageInv, Plain
  <2>2. estimate = (CommandSize - HeaderSize) + 2 * area + 0
    BY <1>1, <1>6, Zenon DEF PayloadEstimate
  <2>3. QED
    BY <1>1, <1>2, <1>3, <2>1, <2>2
<1>7. QED
  BY <1>5, <1>6

-----------------------------------------------------------------------------
(* try_send_image uses the packet encoder within its estimate.             *)

(* The next call has one byte, or what is left of a section.               *)
LEMMA CallSize ==
  ASSUME IInv, ImageInv, EncodeBytes
  PROVE  LET c == IF header_next THEN 1 ELSE bytes - given
         IN  /\ c \in Chunks /\ c \in Nat
             /\ phase = "encode" /\ count = 0 /\ count' = c /\ given + c <= bytes
             /\ (CommandSize - HeaderSize) + given + c <= estimate
             /\ Give(c)
<1> DEFINE c == IF header_next THEN 1 ELSE bytes - given
<1>1. /\ given < bytes /\ Call(c) /\ phase = "encode" /\ count = 0 /\ count' = c
  BY DEF EncodeBytes, Call
<1>2. /\ given \in Nat /\ bytes \in Nat /\ MaxSection \in Nat /\ MaxSection > 1
      /\ CommandSize - HeaderSize \in Nat /\ estimate \in Nat
  BY RleFacts, Sizes, SizingAssumption, SenderAssumption DEF IInv, Shape, ImageInv
<1>3. /\ header_next \in BOOLEAN
      /\ bytes - (given + count) <= 2 * MaxSection + (IF header_next THEN 1 ELSE 0)
  BY <1>1 DEF ImageInv, ImageShape, OnTheWay
<1>4. c \in 1..2 * MaxSection /\ given + c <= bytes
  <2>1. CASE header_next
    BY <1>1, <1>2, <2>1
  <2>2. CASE ~header_next
    BY <1>1, <1>2, <1>3, <2>2
  <2>3. QED
    BY <2>1, <2>2
<1>5. (CommandSize - HeaderSize) + bytes <= estimate
  BY <1>1, OutputWithinEstimate
<1>6. c \in Nat /\ c \in Chunks
  BY <1>2, <1>4, SenderAssumption
<1> HIDE DEF c
<1>7. (CommandSize - HeaderSize) + given + c <= estimate
  BY <1>2, <1>4, <1>5, <1>6
<1>8. Give(c)
  BY <1>1, <1>7 DEF Give
<1>9. QED
  BY <1>1, <1>4, <1>6, <1>7, <1>8 DEF c

(* Every step of try_send_image is one of the packet encoder, or leaves it *)
(* alone.                                                                  *)
LEMMA EncoderStep ==
  ASSUME IInv, ImageInv, [ImageNext]_<<vars, imageVars>>
  PROVE  [Next]_vars
<1>1. ASSUME NEW n \in Areas, NEW m \in BOOLEAN, SendImage(n, m) PROVE Next
  <2>1. PayloadEstimate(2 * n, m) \in Payloads
    BY SenderAssumption
  <2>2. Begin(PayloadEstimate(2 * n, m))
    BY <1>1 DEF SendImage
  <2>3. QED
    BY <2>1, <2>2, Zenon DEF Next
<1>2. ASSUME NEW p \in Pixels, CompressPixel(p) \/ PlainPixel(p) PROVE UNCHANGED vars
  BY <1>2 DEF CompressPixel, PlainPixel
<1>3. LastSection => UNCHANGED vars
  BY DEF LastSection
<1>4. EncodeBytes => Next
  BY CallSize DEF Next
<1>5. CopyBytes => Next
  BY DEF CopyBytes, Next
<1>6. FlushImage => Next
  BY DEF FlushImage, Next
<1>7. ImageDone => Next
  BY DEF ImageDone, Next
<1>8. ASSUME NEW t \in Tickets, OtherTransfer(t) PROVE Next
  BY <1>8 DEF OtherTransfer, Next
<1>9. QED
  BY <1>1, <1>2, <1>3, <1>4, <1>5, <1>6, <1>7, <1>8 DEF ImageNext

-----------------------------------------------------------------------------
(* The steps keep the invariant.                                           *)

(* The run-length encoder waits.                                           *)
LEMMA RleWaits ==
  ASSUME RP!IInv, UNCHANGED rleVars
  PROVE  RP!IInv'
<1>1. UNCHANGED RP!vars
  BY DEF rleVars, RP!vars
<1>2. QED
  BY <1>1, RleGiven, RP!NextIInv

(* Begin a new image.                                                      *)
LEMMA SendImageKeeps ==
  ASSUME NEW n \in Areas, NEW m \in BOOLEAN, SendImage(n, m)
  PROVE  ImageInv'
<1>1. /\ phase' = "encode" /\ estimate' = PayloadEstimate(2 * n, m)
      /\ given' = 0 /\ count' = 0 /\ area' = n /\ rlemode' = m
      /\ FreshContext
  BY DEF SendImage, Begin
<1>2. /\ section_size' = 0 /\ is_common_section' = FALSE /\ bytes' = 0
      /\ decoded' = <<>> /\ consumed' = <<>> /\ full_sections' = 0
      /\ finished' = FALSE /\ header_next' = FALSE
  BY <1>1 DEF FreshContext
<1>3. n \in Nat /\ MaxSection \in Nat
  BY SenderAssumption, SizingAssumption
<1>4. RP!IInv' /\ ImageShape'
  BY <1>1, <1>2, <1>3, FreshRle DEF ImageShape
<1>5. Plain' /\ OnTheWay'
  BY <1>1, <1>2, <1>3 DEF Plain, OnTheWay
<1>6. QED
  BY <1>1, <1>4, <1>5 DEF ImageInv, WholeImageSent

(* A pixel or the last section goes through the run-length encoder.        *)
LEMMA RleStepKeeps ==
  ASSUME IInv, ImageInv, UpToDate, rlemode,
         (\E p \in Pixels : R!Encode(p)) \/ R!Finish,
         Len(consumed') <= area, finished' => Len(consumed') = area,
         header_next' = (bytes' # bytes),
         UNCHANGED <<vars, area, rlemode>>
  PROVE  ImageInv'
<1>1. /\ phase = "encode" /\ count = 0 /\ given = bytes
      /\ UNCHANGED <<estimate, given, count, phase, area, rlemode>>
  BY DEF UpToDate, vars
<1>2. /\ RP!IInv' /\ bytes' \in Nat /\ bytes \in Nat
      /\ \/ bytes' = bytes
         \/ bytes' >= bytes + 3 /\ bytes' <= bytes + (1 + 2 * MaxSection)
  BY RleStep, RleFacts DEF ImageInv
<1>3. MaxSection \in Nat
  BY SizingAssumption
<1>4. ImageShape' /\ Plain'
  BY <1>1 DEF ImageInv, ImageShape, Plain
<1>5. /\ given' + count' <= bytes'
      /\ header_next' => given' + count' < bytes'
      /\ bytes' - (given' + count') <= 2 * MaxSection + (IF header_next' THEN 1 ELSE 0)
  <2>1. given' + count' = bytes
    BY <1>1, <1>2
  <2>2. CASE bytes' = bytes
    <3>1. header_next' = FALSE
      BY <2>2
    <3>2. QED
      BY <1>2, <1>3, <2>1, <2>2, <3>1
  <2>3. CASE bytes' >= bytes + 3 /\ bytes' <= bytes + (1 + 2 * MaxSection)
    <3>1. bytes' # bytes
      BY <1>2, <2>3
    <3>2. header_next'
      BY <3>1, Zenon
    <3>3. QED
      BY <1>2, <1>3, <2>1, <2>3, <3>2
  <2>4. QED
    BY <1>2, <2>2, <2>3
<1>6. OnTheWay'
  BY <1>1, <1>5 DEF ImageInv, OnTheWay
<1>7. QED
  BY <1>1, <1>2, <1>4, <1>6 DEF ImageInv, WholeImageSent

(* A pixel goes through the run-length encoder.                            *)
LEMMA CompressPixelKeeps ==
  ASSUME IInv, ImageInv, NEW p \in Pixels, CompressPixel(p)
  PROVE  ImageInv'
<1>1. /\ UpToDate /\ rlemode /\ Len(consumed) < area /\ R!Encode(p)
      /\ header_next' = (bytes' # bytes) /\ UNCHANGED <<vars, area, rlemode>>
  BY DEF CompressPixel
<1>2. consumed' = Append(consumed, p) /\ finished = FALSE /\ finished' = FALSE
  <2>1. R!Consume(p)
    BY <1>1 DEF R!Encode, R!EndCommon, R!ExtendCommon, R!StartCommon, R!ExtendSection
  <2>2. finished \in BOOLEAN
    BY RleFacts DEF ImageInv
  <2>3. QED
    BY <2>1, <2>2 DEF R!Consume
<1>3. /\ consumed \in Seq(Pixels) /\ area \in Nat
  BY RleFacts DEF ImageInv, ImageShape
<1>4. Len(consumed') <= area
  BY <1>1, <1>2, <1>3
<1>5. QED
  BY <1>1, <1>2, <1>4, RleStepKeeps

(* The section that is left at the end of the image is flushed.            *)
LEMMA LastSectionKeeps ==
  ASSUME IInv, ImageInv, LastSection
  PROVE  ImageInv'
<1>1. /\ UpToDate /\ rlemode /\ Len(consumed) = area /\ R!Finish
      /\ header_next' = (bytes' # bytes) /\ UNCHANGED <<vars, area, rlemode>>
  BY DEF LastSection
<1>2. consumed' = consumed
  BY <1>1 DEF R!Finish
<1>3. Len(consumed') <= area /\ (finished' => Len(consumed') = area)
  BY <1>1, <1>2 DEF ImageInv, ImageShape
<1>4. QED
  BY <1>1, <1>3, RleStepKeeps

(* Without RLE a pixel is two bytes of output.                             *)
LEMMA PlainPixelKeeps ==
  ASSUME IInv, ImageInv, NEW p \in Pixels, PlainPixel(p)
  PROVE  ImageInv'
<1>1. /\ phase = "encode" /\ count = 0 /\ given = bytes /\ ~rlemode
      /\ Len(consumed) < area
      /\ consumed' = Append(consumed, p) /\ decoded' = Append(decoded, p)
      /\ bytes' = bytes + 2
      /\ UNCHANGED <<estimate, given, count, phase, section_data, section_size,
                     is_common_section, full_sections, finished, area, rlemode,
                     header_next>>
  BY DEF PlainPixel, UpToDate, vars
<1>2. /\ section_size = 0 /\ is_common_section = FALSE /\ full_sections = 0
      /\ finished = FALSE /\ header_next = FALSE /\ decoded = consumed
      /\ bytes = 2 * Len(consumed)
  BY <1>1 DEF ImageInv, Plain
<1>3. consumed \in Seq(Pixels) /\ bytes \in Nat /\ area \in Nat /\ MaxSection \in Nat
  BY RleFacts, SizingAssumption DEF ImageInv, ImageShape
<1>4. /\ consumed' \in Seq(Pixels) /\ decoded' = consumed'
      /\ Len(consumed') = Len(consumed) + 1
  BY <1>1, <1>2, <1>3
<1>5. bytes' = 2 * Len(consumed') /\ bytes' \in Nat /\ Len(consumed') \in Nat
  BY <1>1, <1>2, <1>3, <1>4
<1>6. RP!IInv'
  <2>1. RP!TypeOK /\ RP!SectionInv
    BY DEF ImageInv, RP!IInv
  <2>2. RP!TypeOK'
    BY <1>1, <1>4, <1>5, <2>1 DEF RP!TypeOK
  <2>3. RP!SectionInv'
    BY <1>1, <2>1 DEF RP!SectionInv
  <2>4. RP!Lossless'
    BY <1>1, <1>2, <1>4, <1>5 DEF RP!Lossless, RP!Buffered
  <2>5. RP!Budget' /\ RP!WithinEstimate'
    <3>1. MaxSection * full_sections' <= Len(decoded')
      BY <1>1, <1>2, <1>3, <1>4, <1>5
    <3>2. bytes' <= 2 * Len(decoded') + full_sections' + 0
      BY <1>1, <1>2, <1>4, <1>5
    <3>3. finished' = FALSE /\ is_common_section' = FALSE
      BY <1>1, <1>2
    <3>4. QED
      BY <3>1, <3>2, <3>3 DEF RP!Budget, RP!WithinEstimate
  <2>6. QED
    BY <2>2, <2>3, <2>4, <2>5 DEF RP!IInv
<1>7. ImageShape' /\ Plain'
  BY <1>1, <1>2, <1>4, <1>5 DEF ImageInv, ImageShape, Plain
<1>8. OnTheWay'
  <2>1. /\ Len(consumed') <= area' /\ finished' = FALSE /\ header_next' = FALSE
        /\ given' + count' = bytes
    BY <1>1, <1>2, <1>3, <1>4
  <2>2. bytes' - (given' + count') = 2 /\ given' + count' <= bytes'
    BY <1>1, <1>3, <2>1
  <2>3. MaxSection > 1
    BY SenderAssumption
  <2>4. bytes' - (given' + count') <= 2 * MaxSection + 0
    BY <1>3, <2>2, <2>3
  <2>5. estimate' = PayloadEstimate(2 * area', rlemode')
    BY <1>1 DEF ImageInv, OnTheWay
  <2>6. QED
    BY <2>1, <2>2, <2>4, <2>5 DEF OnTheWay
<1>9. QED
  BY <1>1, <1>6, <1>7, <1>8 DEF ImageInv, WholeImageSent

(* A call takes over the header byte, or the data of a section.            *)
LEMMA EncodeBytesKeeps ==
  ASSUME IInv, ImageInv, EncodeBytes
  PROVE  ImageInv'
<1> DEFINE c == IF header_next THEN 1 ELSE bytes - given
<1>1. /\ c \in Nat /\ phase = "encode" /\ count = 0 /\ count' = c /\ given + c <= bytes
  BY CallSize
<1>2. /\ header_next' = FALSE
      /\ UNCHANGED <<rleVars, area, rlemode, phase, estimate, given>>
  BY DEF EncodeBytes, Call
<1>3. UNCHANGED <<section_size, is_common_section, full_sections, finished, decoded,
                  consumed, bytes>>
  BY <1>2 DEF rleVars
<1>4. /\ given \in Nat /\ bytes \in Nat /\ MaxSection \in Nat
  BY RleFacts, SizingAssumption DEF IInv, Shape, ImageInv
<1>5. RP!IInv'
  BY <1>2, RleWaits DEF ImageInv
<1>6. ImageShape' /\ Plain'
  BY <1>2, <1>3 DEF ImageInv, ImageShape, Plain
<1>7. OnTheWay'
  <2>1. /\ header_next \in BOOLEAN
        /\ bytes - (given + count) <= 2 * MaxSection + (IF header_next THEN 1 ELSE 0)
    BY <1>1 DEF ImageInv, ImageShape, OnTheWay
  <2>2. bytes - (given + c) <= 2 * MaxSection + 0
    <3>1. CASE header_next
      BY <1>1, <1>4, <2>1, <3>1
    <3>2. CASE ~header_next
      BY <1>1, <1>4, <2>1, <3>2
    <3>3. QED
      BY <3>1, <3>2
  <2> HIDE DEF c
  <2>3. given' + count' = given + c
    BY <1>1, <1>2
  <2>4. QED
    BY <1>1, <1>2, <1>3, <2>2, <2>3 DEF ImageInv, OnTheWay
<1>8. QED
  BY <1>1, <1>2, <1>5, <1>6, <1>7 DEF ImageInv, WholeImageSent

(* Steps that leave the image alone and change what is given by moving     *)
(* bytes from the call into packets, or not at all.                        *)
LEMMA MovingKeeps ==
  ASSUME ImageInv, UNCHANGED imageVars, phase' # "sent",
         phase' = "encode" =>
           /\ phase = "encode" /\ estimate' = estimate
           /\ given' + count' = given + count
  PROVE  ImageInv'
<1>1. /\ UNCHANGED rleVars
      /\ UNCHANGED <<section_size, is_common_section, full_sections, finished, decoded,
                     consumed, bytes, area, rlemode, header_next>>
  BY DEF imageVars, rleVars
<1>2. RP!IInv'
  BY <1>1, RleWaits DEF ImageInv
<1>3. ImageShape' /\ Plain'
  BY <1>1 DEF ImageInv, ImageShape, Plain
<1>4. OnTheWay'
  BY <1>1 DEF ImageInv, OnTheWay
<1>5. QED
  BY <1>2, <1>3, <1>4 DEF ImageInv, WholeImageSent

(* The packet encoder copies a piece of what it was given.                 *)
LEMMA CopyBytesKeeps ==
  ASSUME IInv, ImageInv, CopyBytes
  PROVE  ImageInv'
<1>1. Copy /\ UNCHANGED imageVars
  BY DEF CopyBytes, FillPacket, NextPacket, NextTicket, NextTicketRefused
<1>2. /\ phase = "encode" /\ estimate' = estimate
      /\ given' + count' = given + count
  BY <1>1, RoundCounts
<1>3. phase' # "sent"
  BY <1>2 DEF CopyBytes, FillPacket, NextPacket, NextTicket, NextTicketRefused
<1>4. QED
  BY <1>1, <1>2, <1>3, MovingKeeps

(* The flush is the end of the whole image.                                *)
LEMMA FlushImageKeeps ==
  ASSUME IInv, ImageInv, FlushImage
  PROVE  ImageInv'
<1>1. /\ phase = "encode" /\ given = bytes /\ Len(consumed) = area
      /\ rlemode => finished
      /\ UNCHANGED imageVars /\ phase' # "encode" /\ given' = given
  BY DEF FlushImage, UpToDate, Flush, FlushRefused
<1>2. /\ UNCHANGED rleVars
      /\ UNCHANGED <<section_size, is_common_section, full_sections, finished, decoded,
                     consumed, bytes, area, rlemode, header_next>>
  BY <1>1 DEF imageVars, rleVars
<1>3. RP!IInv'
  BY <1>2, RleWaits DEF ImageInv
<1>4. ImageShape' /\ Plain' /\ OnTheWay'
  BY <1>1, <1>2 DEF ImageInv, ImageShape, Plain, OnTheWay
<1>5. decoded = consumed
  <2>1. /\ consumed \in Seq(Pixels) /\ decoded \in Seq(Pixels)
        /\ Len(consumed) = Len(decoded) + section_size
        /\ Len(decoded) \in Nat
        /\ \A i \in 1..Len(decoded) : decoded[i] = consumed[i]
        /\ finished => section_size = 0
    BY RleFacts DEF ImageInv
  <2>2. section_size = 0
    BY <1>1, <2>1 DEF ImageInv, Plain
  <2>3. Len(consumed) = Len(decoded)
    BY <2>1, <2>2
  <2>4. QED
    BY <2>1, <2>3
<1>6. WholeImageSent'
  BY <1>1, <1>2, <1>5 DEF WholeImageSent
<1>7. QED
  BY <1>3, <1>4, <1>6 DEF ImageInv

(* try_send_image returns.                                                 *)
LEMMA ImageDoneKeeps ==
  ASSUME ImageInv, ImageDone
  PROVE  ImageInv'
<1>1. phase' = "idle" /\ FreshContext /\ area' = 0 /\ rlemode' = FALSE
  BY DEF ImageDone, End
<1>2. /\ section_size' = 0 /\ is_common_section' = FALSE /\ bytes' = 0
      /\ decoded' = <<>> /\ consumed' = <<>> /\ full_sections' = 0
      /\ finished' = FALSE /\ header_next' = FALSE
  BY <1>1 DEF FreshContext
<1>3. RP!IInv'
  <2>1. FreshContext
    BY <1>1
  <2>2. QED
    BY <2>1, FreshRle, Zenon
<1>4. ImageShape' /\ Plain'
  <2>1. bytes' = 2 * Len(consumed')
    BY <1>2
  <2>2. area' \in Nat /\ rlemode' \in BOOLEAN /\ header_next' \in BOOLEAN
    BY <1>1, <1>2
  <2>3. QED
    BY <1>2, <2>1, <2>2 DEF ImageShape, Plain
<1>5. QED
  BY <1>1, <1>3, <1>4 DEF ImageInv, OnTheWay, WholeImageSent

(* Completions, and commands between two images.                           *)
LEMMA OtherTransferKeeps ==
  ASSUME ImageInv, NEW t \in Tickets, OtherTransfer(t)
  PROVE  ImageInv'
<1>1. UNCHANGED <<imageVars, estimate, given, count, phase>>
  BY DEF OtherTransfer, SendCommand, Finished
<1>2. UNCHANGED rleVars /\ UNCHANGED <<section_size, is_common_section, full_sections,
                   finished, decoded, consumed, bytes, area, rlemode, header_next>>
  BY <1>1 DEF imageVars, rleVars
<1>3. RP!IInv'
  BY <1>2, RleWaits DEF ImageInv
<1>4. QED
  BY <1>1, <1>2, <1>3 DEF ImageInv, ImageShape, Plain, OnTheWay, WholeImageSent

(* Every step keeps the invariant.                                         *)
LEMMA NextImageInv ==
  ASSUME IInv, ImageInv, [ImageNext]_<<vars, imageVars>>
  PROVE  ImageInv'
<1>1. ASSUME UNCHANGED <<vars, imageVars>> PROVE ImageInv'
  <2>1. UNCHANGED <<imageVars, estimate, given, count, phase>>
    BY <1>1 DEF vars
  <2>2. UNCHANGED rleVars /\ UNCHANGED <<section_size, is_common_section, full_sections,
                     finished, decoded, consumed, bytes, area, rlemode, header_next>>
    BY <2>1 DEF imageVars, rleVars
  <2>3. RP!IInv'
    BY <2>2, RleWaits DEF ImageInv
  <2>4. QED
    BY <2>1, <2>2, <2>3 DEF ImageInv, ImageShape, Plain, OnTheWay, WholeImageSent
<1>2. ASSUME NEW n \in Areas, NEW m \in BOOLEAN, SendImage(n, m) PROVE ImageInv'
  BY <1>2, SendImageKeeps
<1>3. ASSUME NEW p \in Pixels, CompressPixel(p) \/ PlainPixel(p) PROVE ImageInv'
  BY <1>3, CompressPixelKeeps, PlainPixelKeeps
<1>4. ASSUME NEW t \in Tickets, OtherTransfer(t) PROVE ImageInv'
  BY <1>4, OtherTransferKeeps
<1>5. QED
  BY <1>1, <1>2, <1>3, <1>4, LastSectionKeeps, EncodeBytesKeeps, CopyBytesKeeps,
     FlushImageKeeps, ImageDoneKeeps
  DEF ImageNext

(* No image has been begun.                                                *)
LEMMA InitImageInv == ImageInit => ImageInv
<1> SUFFICES ASSUME ImageInit PROVE ImageInv
  OBVIOUS
<1>1. R!Init /\ phase = "idle" /\ area = 0 /\ rlemode = FALSE /\ header_next = FALSE
  BY DEF ImageInit, Init
<1>2. RP!IInv
  <2>1. RP!Init
    BY <1>1 DEF R!Init, RP!Init
  <2>2. RP!Init => RP!IInv
    BY RleGiven, RP!InitIInv
  <2>3. QED
    BY <2>1, <2>2
<1>3. ImageShape /\ Plain
  <2>1. bytes = 0 /\ consumed = <<>> /\ bytes = 2 * Len(consumed)
    BY <1>1 DEF R!Init
  <2>2. area \in Nat /\ rlemode \in BOOLEAN /\ header_next \in BOOLEAN
    BY <1>1
  <2>3. QED
    BY <1>1, <2>1, <2>2 DEF ImageShape, Plain, R!Init
<1>4. QED
  BY <1>1, <1>2, <1>3 DEF ImageInv, OnTheWay, WholeImageSent

-----------------------------------------------------------------------------
(* For all images, packets, URBs, section limits and tickets: the two      *)
(* invariants hold together, the packet encoder's because the run-length   *)
(* encoder keeps within the estimate.                                      *)
THEOREM ImageInductive == ImageSpec => [](IInv /\ ImageInv)
<1>1. ImageInit => IInv /\ ImageInv
  BY InitIInv, InitImageInv DEF ImageInit
<1>2. IInv /\ ImageInv /\ [ImageNext]_<<vars, imageVars>> => IInv' /\ ImageInv'
  BY EncoderStep, NextIInv, NextImageInv
<1>3. QED
  BY <1>1, <1>2, PTL DEF ImageSpec

(* try_send_image uses the packet encoder as BitbltEncoder describes it:   *)
(* nobody compares the calls with the estimate, and nobody needs to.       *)
THEOREM StaysInEstimate == ImageSpec => ImplementsEncoder
<1>1. ImageInit => Init
  BY DEF ImageInit
<1>2. IInv /\ ImageInv /\ [ImageNext]_<<vars, imageVars>> => [Next]_vars
  BY EncoderStep
<1>3. ImageSpec => Spec
  BY <1>1, <1>2, ImageInductive, PTL DEF ImageSpec, Spec
<1>4. QED
  BY <1>3 DEF ImplementsEncoder

(* When try_send_image has succeeded, its URBs hold everything the         *)
(* encoders made of the image, in the places where the device looks for    *)
(* it, and the device decodes it to the image.                             *)
THEOREM ImageComplete == ImageSpec => [](WholeImageSent /\ DeviceGetsImage)
<1>1. IInv /\ ImageInv => WholeImageSent /\ DeviceGetsImage
  BY DEF IInv, ImageInv
<1>2. QED
  BY <1>1, ImageInductive, PTL

(* If no payload estimate of the images is an exact fit, the BUG_ON of     *)
(* _bitblt_encode_n_transfer_data is never reached, whatever the pixels    *)
(* are.  (DriverBindingProofs: none is with the driver's own constants.)   *)
THEOREM NoBugOn ==
  ASSUME \A n \in Payloads : ~Overruns(n, RequiredTickets(n))
  PROVE  ImageSpec => [](phase # "bug")
<1>1. IInv => phase # "bug"
  <2>1. SUFFICES ASSUME IInv, phase = "bug" PROVE FALSE
    OBVIOUS
  <2>2. /\ Overruns(estimate, RequiredTickets(estimate))
        /\ given + (CommandSize - HeaderSize) = estimate
    BY <2>1 DEF IInv, BugOnlyWhenFull
  <2>3. estimate \in Payloads \union {0} /\ given \in Nat
    BY <2>1 DEF IInv, Shape
  <2>4. estimate # 0
    BY <2>2, <2>3, Sizes
  <2>5. QED
    BY <2>2, <2>3, <2>4
<1>2. QED
  BY <1>1, ImageInductive, PTL

=============================================================================
