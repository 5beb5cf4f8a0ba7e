---------------------------- MODULE InputProofs -----------------------------
(***************************************************************************)
(* Machine-checked proofs about datagrams that come in.  UdpReceive, for a *)
(* buffer and registers of any size: the socket implements DatagramBox.    *)
(* DnsClient, for any hosts, servers and number of lookups: a lookup takes *)
(* only its own answer from such a socket.  StreamReader, for any text:    *)
(* the first target and the first number in it are found.                  *)
(***************************************************************************)
EXTENDS UdpReceive, DnsClient, StreamReader, DataLemmas

-----------------------------------------------------------------------------
(* Pointers and registers.                                                 *)

(* The assumptions, one by one.                                            *)
LEMMA Sizes ==
  /\ SIZE \in Nat /\ SIZE > 0 /\ BASE \in Nat /\ BASE > 0
  /\ POINTERS \in Nat /\ POINTERS > SIZE
  BY ReceiveAssumption

(* A pointer that wrapped addresses the cell it would have without.        *)
LEMMA SameCell ==
  ASSUME NEW x \in Int, NEW s \in Int
  PROVE  ((x % POINTERS) + s) % SIZE = (x + s) % SIZE
<1>0. POINTERS % SIZE = 0
  BY ReceiveAssumption
<1>1. PICK q \in Nat : POINTERS = q * SIZE
  BY <1>0, Multiple, Sizes
<1>2. POINTERS > 0
  BY Sizes
<1>3. QED
  BY <1>1, <1>2, WrappedCell, Sizes

(* The difference of two pointers, as Sn_RX_RSR counts it.                 *)
LEMMA Difference ==
  ASSUME NEW a \in 0 .. POINTERS - 1, NEW b \in 0 .. POINTERS - 1
  PROVE  /\ (a - b) % POINTERS = IF a >= b THEN a - b ELSE a - b + POINTERS
         /\ (a - b) % POINTERS \in 0 .. POINTERS - 1
  BY Sizes

(* A pointer moved on by less than its range.                              *)
LEMMA Advanced ==
  ASSUME NEW a \in 0 .. POINTERS - 1, NEW n \in 0 .. POINTERS - 1
  PROVE  /\ (a + n) % POINTERS = IF a + n < POINTERS THEN a + n ELSE a + n - POINTERS
         /\ (a + n) % POINTERS \in 0 .. POINTERS - 1
  BY Sizes

(* What the chip adds lies between the pointers.                           *)
LEMMA Written ==
  ASSUME NEW P \in Nat, NEW w \in 0 .. P - 1, NEW s \in 0 .. P - 1, NEW n \in 0 .. P - 1,
         NEW v \in 0 .. P - 1, NEW u \in Nat, NEW x, u + n < P,
         v = IF w + n < P THEN w + n ELSE w + n - P,
         u = IF w >= s THEN w - s ELSE w - s + P,
         x = IF v >= s THEN v - s ELSE v - s + P
  PROVE  x = u + n
  OBVIOUS

(* A number at the end of an ordered list keeps it ordered.                *)
LEMMA OrderKept ==
  ASSUME NEW N \in Nat, NEW u \in Nat, NEW n \in Nat, NEW f,
         \A i \in 1 .. N : f[i] \in 0 .. u,
         \A i, j \in 1 .. N : i <= j => f[i] <= f[j],
         NEW g, g = [i \in 1 .. N + 1 |-> IF i = N + 1 THEN u + n ELSE f[i]]
  PROVE  \A i, j \in 1 .. N + 1 : i <= j => g[i] <= g[j]
<1> SUFFICES ASSUME NEW i \in 1 .. N + 1, NEW j \in 1 .. N + 1, i <= j
             PROVE  g[i] <= g[j]
  OBVIOUS
<1>1. CASE j = N + 1
  <2>1. g[j] = u + n /\ g[i] \in 0 .. u + n
    BY <1>1
  <2>2. QED
    BY <2>1
<1>2. CASE j \in 1 .. N
  BY <1>2
<1>3. QED
  BY <1>1, <1>2

(* Places in a list without its first c members.                           *)
LEMMA Shifted ==
  ASSUME NEW N \in Nat, NEW c \in Nat, NEW M, M = N - c, NEW i \in 1 .. M
  PROVE  i + c \in 1 .. N /\ i \in 1 .. M + 1 /\ i + 1 \in 1 .. M + 1
         /\ (i + 1) + c = (i + c) + 1
  OBVIOUS

LEMMA Lowered ==
  ASSUME NEW a \in Int, NEW b \in Int, NEW n \in Int, NEW l \in Nat, b <= a, n <= b,
         NEW x, x = a - n, NEW y, y = (a + l) - n
  PROVE  x \in Nat /\ y = x + l
  OBVIOUS

(* Of SIZE cells from the read pointer on, the distance of each from the   *)
(* write pointer, where U bytes lie between the two.                       *)
LEMMA CellOf ==
  ASSUME NEW wr \in 0 .. POINTERS - 1, NEW rd \in 0 .. POINTERS - 1,
         NEW o \in 0 .. SIZE - 1, (wr - rd) % POINTERS <= SIZE
  PROVE  (((rd + o) % SIZE) - wr) % SIZE =
           LET U == (wr - rd) % POINTERS IN IF o >= U THEN o - U ELSE o - U + SIZE
<1> DEFINE U == (wr - rd) % POINTERS
<1>1. IsRing(POINTERS, SIZE)
  BY ReceiveAssumption DEF IsRing
<1>2. Holding(POINTERS, SIZE, rd, wr, U)
  <2>1. U \in 0 .. SIZE
    BY Difference, Sizes
  <2>2. QED
    BY <2>1 DEF Holding
<1>3. CellDistance(SIZE, rd, wr, o) = Distance(SIZE, U, o)
  <2> HIDE DEF U
  <2>1. QED
    BY <1>1, <1>2, DistanceOfCell
<1>4. QED
  BY <1>3 DEF CellDistance, Distance

(* A register put together of an old high byte and a new low byte: it is   *)
(* never too large, and smaller than the new high byte says if the old one *)
(* was.                                                                    *)
LEMMA Torn ==
  ASSUME NEW R \in Nat, NEW h \in Nat, h <= R \div BASE
  PROVE  /\ R \div BASE \in Nat
         /\ h * BASE + (R % BASE) \in Nat
         /\ h * BASE + (R % BASE) <= R
         /\ h * BASE <= h * BASE + (R % BASE)
         /\ h = R \div BASE => h * BASE + (R % BASE) = R
         /\ h < R \div BASE => h * BASE + (R % BASE) < (R \div BASE) * BASE
<1> DEFINE q == R \div BASE
           l == R % BASE
<1>1. q \in Nat /\ l \in 0 .. BASE - 1 /\ R = (q * BASE) + l
  BY Sizes
<1> HIDE DEF q, l
<1>2. h * BASE \in Nat
  BY Sizes
<1>3. PICK e \in Nat : q = h + e
  BY <1>1 DEF q
<1>4. q * BASE = (h * BASE) + (e * BASE)
  BY <1>3, Sizes
<1>5. e * BASE \in Nat /\ (e > 0 => e * BASE >= BASE)
  <2>1. CASE e = 0
    BY <2>1, Sizes
  <2>2. CASE e > 0
    <3>1. PICK f \in Nat : e = f + 1
      BY <2>2, <1>3
    <3>2. e * BASE = (f * BASE) + BASE /\ f * BASE \in Nat
      BY <3>1, Sizes
    <3>3. QED
      BY <3>2, Sizes
  <2>3. QED
    BY <2>1, <2>2, <1>3
<1>6. QED
  BY <1>1, <1>2, <1>3, <1>4, <1>5, Sizes DEF q, l

(* A larger register has no smaller high byte.                             *)
LEMMA HighGrows ==
  ASSUME NEW R \in Nat, NEW S \in Nat, R <= S
  PROVE  /\ R \div BASE <= S \div BASE
         /\ (R \div BASE) * BASE <= (S \div BASE) * BASE
<1> DEFINE q == R \div BASE
           p == S \div BASE
<1>1. q \in Nat /\ p \in Nat
  BY Sizes
<1>2. q * BASE <= R /\ S < (p * BASE) + BASE
  BY Sizes
<1> HIDE DEF q, p
<1>3. q <= p
  <2> SUFFICES ASSUME q > p PROVE FALSE
    BY <1>1
  <2>1. PICK e \in Nat : q = p + 1 + e
    BY <1>1
  <2>2. q * BASE = (p * BASE) + BASE + (e * BASE) /\ e * BASE \in Nat
    BY <1>1, <2>1, Sizes
  <2>3. QED
    BY <1>1, <1>2, <2>2, Sizes
<1>4. PICK e \in Nat : p = q + e
  BY <1>1, <1>3
<1>5. p * BASE = (q * BASE) + (e * BASE) /\ e * BASE \in Nat
  BY <1>1, <1>4, Sizes
<1>6. QED
  BY <1>1, <1>3, <1>5, Sizes DEF p, q

-----------------------------------------------------------------------------
(* The inductive invariant.                                                *)

ReceiveSpec == ReceiveInit /\ [][ReceiveNext]_udpRxVars

Length(d) == HEAD + Len(d.bytes)

(* The buffer holds the rest of the datagram taken last and then those     *)
(* that wait, each from its start, up to the write pointer.                *)
Holds(start) ==
  /\ start \in [1 .. Len(waiting) + 1 -> 0 .. SnRX_RSR]
  /\ start[1] = remaining /\ start[Len(waiting) + 1] = SnRX_RSR
  /\ \A i, j \in 1 .. Len(waiting) + 1 : i <= j => start[i] <= start[j]
  /\ \A i \in 1 .. Len(waiting) :
       /\ start[i + 1] = start[i] + Length(waiting[i])
       /\ \A k \in 1 .. Length(waiting[i]) :
            rxBuffer[(rxRd + start[i] + k - 1) % SIZE] = Packet(waiting[i])[k]

BufferInv ==
  /\ rxWr \in 0 .. POINTERS - 1 /\ rxRd \in 0 .. POINTERS - 1 /\ rxSeen = rxRd
  /\ rxBuffer = [i \in 0 .. SIZE - 1 |-> rxBuffer[i]]
  /\ waiting \in Seq(Incoming) /\ remaining \in Nat /\ SnRX_RSR <= SIZE
  /\ \E start \in [1 .. Len(waiting) + 1 -> 0 .. SnRX_RSR] : Holds(start)

(* What a call has asked the size for is still true.                       *)
CallInv ==
  /\ open \in BOOLEAN /\ (~open => call = Idle)
  /\ half \in {"none", "high1", "low1", "high2", "low2", "done"}
  /\ call = Idle <=> half = "none"
  /\ \/ call = Idle
     \/ call.for = "flush" /\ call.len = 1 /\ remaining > 0
     \/ call.for = "look" /\ remaining = 0
     \/ call.for = "header" /\ call.len = HEAD /\ remaining = 0
     \/ call.for = "read" /\ call.len \in 1 .. remaining

(* A value of the register at one moment: it does not end within a header  *)
(* when nothing remains of the datagram taken last.                        *)
Whole(v) == remaining = 0 => v = 0 \/ v >= HEAD

(* A value put together of two moments is less than the high byte that is  *)
(* read next, so that the second value differs from it.                    *)
SizeInv ==
  /\ high \in Nat /\ val \in 0 .. SnRX_RSR /\ val1 \in 0 .. SnRX_RSR
  /\ half \in {"low1", "low2"} => high <= SnRX_RSR \div BASE
  /\ half = "high2" => Whole(val1) \/ val1 < (SnRX_RSR \div BASE) * BASE
  /\ half = "low2" => Whole(val1) \/ val1 < high * BASE
  /\ half = "done" => Whole(val)
  /\ call = Idle => val = 0 /\ val1 = 0

IInv == BufferInv /\ CallInv /\ SizeInv

-----------------------------------------------------------------------------
(* The buffer.                                                             *)

(* A datagram is a finite sequence of bytes.                               *)
LEMMA BytesType ==
  ASSUME NEW d \in Incoming
  PROVE  /\ Len(d.bytes) \in Nat /\ DOMAIN d.bytes = 1 .. Len(d.bytes)
         /\ d.bytes \in Seq({d.bytes[i] : i \in DOMAIN d.bytes})
         /\ Length(d) \in Nat /\ Length(d) >= HEAD
  BY ReceiveAssumption DEF Length, HEAD

(* What the chip writes for a datagram, cell by cell.                      *)
LEMMA PacketIs ==
  ASSUME NEW d \in Incoming
  PROVE  /\ Len(Packet(d)) = Length(d)
         /\ Packet(d)[1] = <<"from", d.from>>
         /\ Packet(d)[2] = <<"length", Len(d.bytes)>>
         /\ \A k \in 1 .. Len(d.bytes) : Packet(d)[HEAD + k] = <<"byte", d.bytes[k]>>
<1> DEFINE n == Len(d.bytes)
           body == [k \in DOMAIN d.bytes |-> <<"byte", d.bytes[k]>>]
           B == {<<"byte", d.bytes[k]>> : k \in DOMAIN d.bytes}
           H == {<<"from", d.from>>, <<"length", n>>}
           head == <<<<"from", d.from>>, <<"length", n>>>>
<1>1. n \in Nat /\ DOMAIN d.bytes = 1 .. n
  BY BytesType
<1>2. body \in Seq(B) /\ Len(body) = n /\ \A k \in 1 .. n : body[k] = <<"byte", d.bytes[k]>>
  BY <1>1
<1>3. head \in Seq(H) /\ Len(head) = 2 /\ head[1] = <<"from", d.from>>
        /\ head[2] = <<"length", n>>
  OBVIOUS
<1>4. Packet(d) = head \o body
  BY DEF Packet
<1> DEFINE S == B \cup H
<1> HIDE DEF n, body, B, H, head
<1>5. head \in Seq(S) /\ body \in Seq(S)
  BY <1>2, <1>3
<1> HIDE DEF S
<1>6. /\ Len(head \o body) = Len(head) + Len(body)
      /\ \A k \in 1 .. Len(head) + Len(body) :
           (head \o body)[k] = IF k <= Len(head) THEN head[k] ELSE body[k - Len(head)]
  BY <1>5, ConcatProperties
<1>7. \A k \in 1 .. 2 + n : (head \o body)[k] = IF k <= 2 THEN head[k] ELSE body[k - 2]
  BY <1>1, <1>2, <1>3, <1>6
<1>8. QED
  BY <1>1, <1>2, <1>3, <1>4, <1>6, <1>7 DEF n, Length, HEAD

(* The size register counts no more than the buffer holds.                 *)
LEMMA RegisterType ==
  ASSUME BufferInv
  PROVE  SnRX_RSR \in 0 .. SIZE /\ SnRX_RSR < POINTERS
  BY Difference, Sizes DEF BufferInv, SnRX_RSR

(* Every waiting datagram lies whole within the counted bytes.             *)
LEMMA StartsOrdered ==
  ASSUME BufferInv, NEW start, Holds(start)
  PROVE  /\ remaining \in 0 .. SnRX_RSR /\ Len(waiting) \in Nat
         /\ \A i \in 1 .. Len(waiting) :
              /\ waiting[i] \in Incoming /\ Length(waiting[i]) \in Nat
              /\ Length(waiting[i]) >= HEAD
              /\ start[i] \in Nat /\ start[i] + Length(waiting[i]) = start[i + 1]
              /\ start[i + 1] <= SnRX_RSR
<1>1. waiting \in Seq(Incoming) /\ Len(waiting) \in Nat
  BY DEF BufferInv
<1>2. SnRX_RSR \in Nat
  BY RegisterType
<1>3. \A i \in 1 .. Len(waiting) + 1 : start[i] \in 0 .. SnRX_RSR
  BY DEF Holds
<1>4. remaining \in 0 .. SnRX_RSR
  BY <1>1, <1>3 DEF Holds
<1>5. ASSUME NEW i \in 1 .. Len(waiting)
      PROVE  /\ waiting[i] \in Incoming /\ Length(waiting[i]) \in Nat
             /\ Length(waiting[i]) >= HEAD
             /\ start[i] \in Nat /\ start[i] + Length(waiting[i]) = start[i + 1]
             /\ start[i + 1] <= SnRX_RSR
  <2>1. waiting[i] \in Incoming
    BY <1>1
  <2>2. start[i] \in 0 .. SnRX_RSR /\ start[i + 1] \in 0 .. SnRX_RSR
    BY <1>1, <1>3
  <2>3. start[i + 1] = start[i] + Length(waiting[i])
    BY DEF Holds
  <2>4. Length(waiting[i]) \in Nat /\ Length(waiting[i]) >= HEAD
    BY <2>1, BytesType
  <2>5. QED
    BY <1>2, <2>1, <2>2, <2>3, <2>4
<1>6. QED
  BY <1>1, <1>4, <1>5

(* When nothing remains of the datagram taken last, the register is 0 or   *)
(* covers a header at least.                                               *)
LEMMA RegisterIsWhole ==
  ASSUME BufferInv
  PROVE  Whole(SnRX_RSR) /\ remaining <= SnRX_RSR /\ (remaining = 0 /\ SnRX_RSR > 0 => waiting # <<>>)
<1>1. PICK start \in [1 .. Len(waiting) + 1 -> 0 .. SnRX_RSR] : Holds(start)
  BY DEF BufferInv
<1>2. CASE Len(waiting) = 0
  BY <1>1, <1>2, RegisterType, StartsOrdered DEF Holds, Whole
<1>3. CASE Len(waiting) > 0
  <2>1. 1 \in 1 .. Len(waiting)
    BY <1>3, StartsOrdered, <1>1
  <2>2. start[1] + Length(waiting[1]) = start[1 + 1] /\ start[1 + 1] <= SnRX_RSR
        /\ Length(waiting[1]) >= HEAD /\ Length(waiting[1]) \in Nat
    BY <1>1, <2>1, StartsOrdered
  <2>3. start[1] = remaining /\ remaining \in Nat
    BY <1>1, StartsOrdered DEF Holds
  <2>4. QED
    BY <1>3, <2>2, <2>3, RegisterType DEF Whole, HEAD
<1>4. QED
  BY <1>1, <1>2, <1>3, StartsOrdered

(* The chip writes behind what is counted and touches none of it.          *)
LEMMA ChipWrites ==
  ASSUME BufferInv, NEW d \in Incoming, SnRX_RSR + Length(d) <= SIZE,
         rxBuffer' = [i \in 0 .. SIZE - 1 |->
             LET k == (i - rxWr) % SIZE IN IF k < Length(d) THEN Packet(d)[k + 1] ELSE rxBuffer[i]]
  PROVE  /\ \A o \in 0 .. SnRX_RSR - 1 :
              rxBuffer'[(rxRd + o) % SIZE] = rxBuffer[(rxRd + o) % SIZE]
         /\ \A k \in 1 .. Length(d) :
              rxBuffer'[(rxRd + SnRX_RSR + k - 1) % SIZE] = Packet(d)[k]
<1> DEFINE U == SnRX_RSR
           n == Length(d)
           cell(o) == (rxRd + o) % SIZE
<1>1. U \in 0 .. SIZE /\ n \in Nat /\ U + n <= SIZE
  BY RegisterType, BytesType
<1>2. \A o \in 0 .. SIZE - 1 : (cell(o) - rxWr) % SIZE = IF o >= U THEN o - U ELSE o - U + SIZE
  BY <1>1, CellOf DEF BufferInv, SnRX_RSR
<1>3. \A o \in 0 .. SIZE - 1 : cell(o) \in 0 .. SIZE - 1
  BY Sizes DEF BufferInv
<1>4. \A o \in 0 .. SIZE - 1 :
        rxBuffer'[cell(o)] = IF (cell(o) - rxWr) % SIZE < n
                             THEN Packet(d)[((cell(o) - rxWr) % SIZE) + 1] ELSE rxBuffer[cell(o)]
  BY <1>3
<1> HIDE DEF U, n, cell
<1>5. ASSUME NEW o \in 0 .. U - 1 PROVE rxBuffer'[cell(o)] = rxBuffer[cell(o)]
  <2>1. o \in 0 .. SIZE - 1 /\ ~(o >= U) /\ ~(o - U + SIZE < n)
    BY <1>1, Sizes
  <2>2. QED
    BY <1>2, <1>4, <2>1
<1>6. ASSUME NEW k \in 1 .. n PROVE rxBuffer'[cell(U + k - 1)] = Packet(d)[k]
  <2>1. U + k - 1 \in 0 .. SIZE - 1 /\ U + k - 1 >= U /\ (U + k - 1) - U < n
          /\ (U + k - 1) - U + 1 = k
    BY <1>1, Sizes
  <2>2. QED
    BY <1>2, <1>4, <2>1
<1>7. \A k \in 1 .. n : rxRd + (U + k - 1) = rxRd + U + k - 1
  BY <1>1 DEF BufferInv
<1>8. QED
  BY <1>5, <1>6, <1>7 DEF U, n, cell

(* A datagram that comes is the last that waits.                           *)
LEMMA ChipBuffer ==
  ASSUME BufferInv, NEW d \in Incoming, SnRX_RSR + Length(d) <= SIZE,
         rxBuffer' = [i \in 0 .. SIZE - 1 |->
             LET k == (i - rxWr) % SIZE IN IF k < Length(d) THEN Packet(d)[k + 1] ELSE rxBuffer[i]],
         rxWr' = (rxWr + Length(d)) % POINTERS, waiting' = Append(waiting, d),
         UNCHANGED <<rxRd, rxSeen, remaining>>
  PROVE  /\ BufferInv' /\ SnRX_RSR' = SnRX_RSR + Length(d)
         /\ \A o \in 0 .. remaining - 1 :
              rxBuffer'[(rxRd + o) % SIZE] = rxBuffer[(rxRd + o) % SIZE]
<1> DEFINE U == SnRX_RSR
           n == Length(d)
           N == Len(waiting)
<1>1. U \in 0 .. SIZE /\ n \in Nat /\ U + n <= SIZE /\ n >= HEAD
  BY RegisterType, BytesType
<1>2. waiting \in Seq(Incoming) /\ N \in Nat
  BY DEF BufferInv
<1>3. rxWr' \in 0 .. POINTERS - 1 /\ SnRX_RSR' = U + n
  <2>1. n \in 0 .. POINTERS - 1 /\ U + n < POINTERS
    BY <1>1, Sizes
  <2>2. rxWr \in 0 .. POINTERS - 1 /\ rxSeen \in 0 .. POINTERS - 1
    BY DEF BufferInv
  <2>3. rxWr' \in 0 .. POINTERS - 1
    BY <2>1, <2>2, Advanced
  <2>4. rxWr' = IF rxWr + n < POINTERS THEN rxWr + n ELSE rxWr + n - POINTERS
    BY <2>1, <2>2, Advanced
  <2>5. U = IF rxWr >= rxSeen THEN rxWr - rxSeen ELSE rxWr - rxSeen + POINTERS
    BY <2>2, Difference DEF SnRX_RSR
  <2>6. SnRX_RSR' = IF rxWr' >= rxSeen THEN rxWr' - rxSeen ELSE rxWr' - rxSeen + POINTERS
    BY <2>2, <2>3, Difference DEF SnRX_RSR
  <2> HIDE DEF U, n
  <2>7. U \in Nat /\ POINTERS \in Nat
    BY <1>1, Sizes
  <2>8. SnRX_RSR' = U + n
    BY ONLY <2>1, <2>2, <2>3, <2>4, <2>5, <2>6, <2>7, Written
  <2>9. QED
    BY <2>3, <2>8
<1>4. PICK start \in [1 .. N + 1 -> 0 .. U] : Holds(start)
  BY DEF BufferInv
<1>5. /\ waiting' \in Seq(Incoming) /\ Len(waiting') = N + 1
      /\ \A i \in 1 .. N : waiting'[i] = waiting[i]
      /\ waiting'[N + 1] = d
  BY <1>2, AppendProperties
<1>6. PICK next : next = [i \in 1 .. N + 2 |-> IF i = N + 2 THEN U + n ELSE start[i]]
  OBVIOUS
<1>7. next \in [1 .. N + 2 -> 0 .. U + n]
  <2>1. \A i \in 1 .. N + 1 : start[i] \in 0 .. U
    BY <1>4
  <2> HIDE DEF U, n, N
  <2>2. QED
    BY <1>1, <1>2, <1>6, <2>1
<1>8. /\ next[N + 2] = U + n /\ next[N + 1] = U /\ next[1] = remaining
      /\ \A i \in 1 .. N + 1 : next[i] = start[i]
  <2>1. start[N + 1] = U /\ start[1] = remaining
    BY <1>4 DEF Holds
  <2> HIDE DEF U, n, N
  <2>2. QED
    BY <1>2, <1>6, <2>1
<1>9. /\ \A o \in 0 .. U - 1 : rxBuffer'[(rxRd + o) % SIZE] = rxBuffer[(rxRd + o) % SIZE]
      /\ \A k \in 1 .. n : rxBuffer'[(rxRd + U + k - 1) % SIZE] = Packet(d)[k]
  BY ChipWrites
<1>10. ASSUME NEW i \in 1 .. N + 1
       PROVE  /\ next[i + 1] = next[i] + Length(waiting'[i])
              /\ \A k \in 1 .. Length(waiting'[i]) :
                   rxBuffer'[(rxRd + next[i] + k - 1) % SIZE] = Packet(waiting'[i])[k]
  <2>1. CASE i = N + 1
    <3> HIDE DEF U, n, N
    <3>1. next[i + 1] = U + n /\ next[i] = U /\ waiting'[i] = d
      BY <1>2, <1>5, <1>8, <2>1
    <3>2. QED
      BY <3>1, <1>9 DEF n
  <2>2. CASE i \in 1 .. N
    <3>1. /\ start[i] \in Nat /\ start[i] + Length(waiting[i]) = start[i + 1]
          /\ start[i + 1] <= U /\ Length(waiting[i]) \in Nat
          /\ \A k \in 1 .. Length(waiting[i]) :
               rxBuffer[(rxRd + start[i] + k - 1) % SIZE] = Packet(waiting[i])[k]
      BY <1>4, <2>2, StartsOrdered DEF Holds
    <3> HIDE DEF U, n, N
    <3>2. next[i] = start[i] /\ next[i + 1] = start[i + 1] /\ waiting'[i] = waiting[i]
      BY <1>2, <1>5, <1>8, <2>2
    <3>3. ASSUME NEW k \in 1 .. Length(waiting[i])
          PROVE  rxBuffer'[(rxRd + start[i] + k - 1) % SIZE] = Packet(waiting[i])[k]
      <4>1. start[i] + k - 1 \in 0 .. U - 1
        BY <1>1, <3>1
      <4>2. rxRd + (start[i] + k - 1) = rxRd + start[i] + k - 1
        BY <3>1 DEF BufferInv
      <4>3. rxBuffer'[(rxRd + (start[i] + k - 1)) % SIZE]
              = rxBuffer[(rxRd + (start[i] + k - 1)) % SIZE]
        BY <1>9, <4>1
      <4>4. QED
        BY <3>1, <4>2, <4>3
    <3>4. QED
      BY <3>1, <3>2, <3>3
  <2> HIDE DEF U, n, N
  <2>3. i = N + 1 \/ i \in 1 .. N
    BY <1>2
  <2>4. QED
    BY <2>1, <2>2, <2>3
<1>11. Holds(next)'
  <2>1. Len(waiting') + 1 = N + 2 /\ SnRX_RSR' = U + n /\ rxRd' = rxRd /\ remaining' = remaining
    BY <1>2, <1>3, <1>5
  <2>2. next \in [1 .. Len(waiting') + 1 -> 0 .. SnRX_RSR']
    BY <1>7, <2>1
  <2>3. next[1] = remaining' /\ next[Len(waiting') + 1] = SnRX_RSR'
    BY <1>8, <2>1
  <2>4. \A i \in 1 .. Len(waiting') :
          /\ next[i + 1] = next[i] + Length(waiting'[i])
          /\ \A k \in 1 .. Length(waiting'[i]) :
               rxBuffer'[(rxRd' + next[i] + k - 1) % SIZE] = Packet(waiting'[i])[k]
    BY <1>5, <1>10, <2>1
  <2>5. \A i, j \in 1 .. N + 2 : i <= j => next[i] <= next[j]
    <3>1. \A i \in 1 .. N + 1 : start[i] \in 0 .. U
      BY <1>4
    <3>2. \A i, j \in 1 .. N + 1 : i <= j => start[i] <= start[j]
      BY <1>4 DEF Holds
    <3> HIDE DEF U, n, N
    <3>3. QED
      <4>1. N + 1 \in Nat /\ (N + 1) + 1 = N + 2 /\ U \in Nat /\ n \in Nat
        BY <1>1, <1>2
      <4>2. next = [i \in 1 .. (N + 1) + 1 |-> IF i = (N + 1) + 1 THEN U + n ELSE start[i]]
        BY <1>6, <4>1
      <4>3. QED
        BY <3>1, <3>2, <4>1, <4>2, OrderKept
  <2> HIDE DEF U, n, N
  <2>6. QED
    BY <2>1, <2>2, <2>3, <2>4, <2>5 DEF Holds, Length, Packet
<1>12. BufferInv'
  <2>1. rxBuffer' = [i \in 0 .. SIZE - 1 |-> rxBuffer'[i]]
    OBVIOUS
  <2>2. SnRX_RSR' <= SIZE
    BY <1>1, <1>3
  <2>3. rxRd' \in 0 .. POINTERS - 1 /\ rxSeen' = rxRd' /\ remaining' \in Nat
    BY DEF BufferInv
  <2>4. next \in [1 .. Len(waiting') + 1 -> 0 .. SnRX_RSR']
    BY <1>11 DEF Holds
  <2> HIDE DEF U, n, N
  <2>5. QED
    BY <1>3, <1>5, <1>11, <2>1, <2>2, <2>3, <2>4 DEF BufferInv
<1>13. remaining <= U /\ remaining \in Nat
  BY RegisterIsWhole DEF BufferInv
<1>14. \A o \in 0 .. remaining - 1 : o \in 0 .. U - 1
  BY <1>1, <1>13
<1>15. QED
  BY <1>3, <1>9, <1>12, <1>14

(* RECV after n bytes, which end within the c-th waiting datagram, leaves  *)
(* the others where the pointers find them.                                *)
LEMMA Shift ==
  ASSUME BufferInv, NEW start, Holds(start),
         NEW c \in Nat, NEW n \in Nat, c <= Len(waiting), n <= start[c + 1],
         recv(n), remaining' = start[c + 1] - n,
         waiting' \in Seq(Incoming), Len(waiting') = Len(waiting) - c,
         \A i \in 1 .. Len(waiting') : waiting'[i] = waiting[i + c]
  PROVE  /\ BufferInv' /\ SnRX_RSR' = SnRX_RSR - n
         /\ \A o \in Nat : rxBuffer'[(rxRd' + o) % SIZE] = rxBuffer[(rxRd + n + o) % SIZE]
<1> DEFINE U == SnRX_RSR
           N == Len(waiting)
           M == Len(waiting')
<1>1. U \in 0 .. SIZE /\ N \in Nat /\ M \in Nat /\ M = N - c
  BY RegisterType DEF BufferInv
<1>2. /\ start \in [1 .. N + 1 -> 0 .. U] /\ start[N + 1] = U
      /\ \A i, j \in 1 .. N + 1 : i <= j => start[i] <= start[j]
  BY DEF Holds
<1>3. c + 1 \in 1 .. N + 1 /\ n \in 0 .. U /\ start[c + 1] \in 0 .. U
  <2> HIDE DEF U, N, M
  <2>1. c + 1 \in 1 .. N + 1
    BY <1>1 DEF N
  <2>2. start[c + 1] \in 0 .. U
    BY <1>2, <2>1
  <2>3. QED
    BY <1>1, <2>1, <2>2
<1>4. rxRd' \in 0 .. POINTERS - 1 /\ SnRX_RSR' = U - n
  <2>a. n \in 0 .. POINTERS - 1
    <3> HIDE DEF U
    <3>1. QED
      BY <1>1, <1>3, Sizes
  <2>b. rxWr' = rxWr /\ rxRd' = (rxRd + n) % POINTERS /\ rxSeen' = rxRd' /\ rxSeen = rxRd
    BY DEF recv, BufferInv
  <2>1. n \in 0 .. POINTERS - 1 /\ rxWr' = rxWr /\ rxRd' = (rxRd + n) % POINTERS
          /\ rxSeen' = rxRd' /\ rxSeen = rxRd
    BY <2>a, <2>b
  <2>2. rxWr \in 0 .. POINTERS - 1 /\ rxRd \in 0 .. POINTERS - 1
    BY DEF BufferInv
  <2>3. rxRd' \in 0 .. POINTERS - 1
    BY <2>1, <2>2, Advanced
  <2>4. rxRd' = IF rxRd + n < POINTERS THEN rxRd + n ELSE rxRd + n - POINTERS
    BY <2>1, <2>2, Advanced
  <2>5. U = IF rxWr >= rxRd THEN rxWr - rxRd ELSE rxWr - rxRd + POINTERS
    BY <2>1, <2>2, Difference DEF SnRX_RSR
  <2>6. SnRX_RSR' = IF rxWr >= rxRd' THEN rxWr - rxRd' ELSE rxWr - rxRd' + POINTERS
    BY <2>1, <2>2, <2>3, Difference DEF SnRX_RSR
  <2>7. U <= SIZE
    BY <1>1
  <2> HIDE DEF U
  <2>8. QED
    BY <1>3, <2>1, <2>2, <2>3, <2>4, <2>5, <2>6, <2>7, Sizes
<1>5. \A o \in Nat : rxBuffer'[(rxRd' + o) % SIZE] = rxBuffer[(rxRd + n + o) % SIZE]
  <2> SUFFICES ASSUME NEW o \in Nat
               PROVE  rxBuffer'[(rxRd' + o) % SIZE] = rxBuffer[(rxRd + n + o) % SIZE]
    OBVIOUS
  <2>1. rxRd + n \in Int
    BY DEF BufferInv
  <2>2. (((rxRd + n) % POINTERS) + o) % SIZE = (rxRd + n + o) % SIZE
    BY <2>1, SameCell
  <2>3. rxRd' = (rxRd + n) % POINTERS /\ rxBuffer' = rxBuffer
    BY DEF recv
  <2>4. QED
    BY <2>2, <2>3
<1>6. PICK next : next = [i \in 1 .. M + 1 |-> start[i + c] - n]
  OBVIOUS
<1>7. \A i \in 1 .. M + 1 : /\ i + c \in 1 .. N + 1 /\ start[c + 1] <= start[i + c]
                            /\ start[i + c] \in 0 .. U /\ next[i] = start[i + c] - n
  <2> HIDE DEF U, N, M
  <2>1. \A i \in 1 .. M + 1 : i + c \in 1 .. N + 1 /\ c + 1 <= i + c
    BY <1>1
  <2>2. QED
    BY <1>2, <1>3, <1>6, <2>1
<1>8. next \in [1 .. M + 1 -> 0 .. SnRX_RSR']
  <2>1. \A i \in 1 .. M + 1 : start[i + c] - n \in 0 .. SnRX_RSR'
    <3> SUFFICES ASSUME NEW i \in 1 .. M + 1 PROVE start[i + c] - n \in 0 .. SnRX_RSR'
      OBVIOUS
    <3>1. start[c + 1] <= start[i + c] /\ start[i + c] \in 0 .. U
      BY <1>7
    <3> HIDE DEF U, N, M
    <3>2. PICK a \in 0 .. U : a = start[i + c]
      BY <3>1
    <3>3. PICK b \in 0 .. U : b = start[c + 1]
      BY <1>3
    <3>4. b <= a /\ n <= b /\ U \in Nat
      BY <1>1, <3>1, <3>2, <3>3
    <3>5. a - n \in 0 .. U - n
      BY <3>4
    <3>6. QED
      BY <1>4, <3>2, <3>5
  <2> HIDE DEF U, N, M
  <2>2. QED
    BY <1>6, <2>1
<1>9. next[1] = remaining' /\ next[M + 1] = SnRX_RSR'
  <2> HIDE DEF U, N, M
  <2>1. 1 \in 1 .. M + 1 /\ M + 1 \in 1 .. M + 1 /\ M + 1 + c = N + 1 /\ 1 + c = c + 1
    BY <1>1
  <2>2. QED
    BY <1>2, <1>4, <1>6, <2>1
<1>10. \A i, j \in 1 .. M + 1 : i <= j => next[i] <= next[j]
  <2> HIDE DEF U, N, M
  <2>1. SUFFICES ASSUME NEW i \in 1 .. M + 1, NEW j \in 1 .. M + 1, i <= j
                 PROVE  next[i] <= next[j]
    OBVIOUS
  <2>2. i + c <= j + c /\ i + c \in 1 .. N + 1 /\ j + c \in 1 .. N + 1
    BY <1>7, <2>1
  <2>3. start[i + c] <= start[j + c] /\ start[i + c] \in 0 .. U /\ start[j + c] \in 0 .. U
    BY <1>2, <1>7, <2>2
  <2>4. QED
    BY <1>1, <1>7, <2>3
<1>11. ASSUME NEW i \in 1 .. M
       PROVE  /\ next[i + 1] = next[i] + Length(waiting'[i])
              /\ \A k \in 1 .. Length(waiting'[i]) :
                   rxBuffer'[(rxRd' + next[i] + k - 1) % SIZE] = Packet(waiting'[i])[k]
  <2>1. i + c \in 1 .. N /\ i \in 1 .. M + 1 /\ i + 1 \in 1 .. M + 1 /\ (i + 1) + c = (i + c) + 1
    <3> HIDE DEF U, N, M
    <3>1. N \in Nat /\ c \in Nat /\ M = N - c /\ i \in 1 .. M
      BY <1>1
    <3>2. QED
      BY ONLY <3>1, Shifted
  <2>2. /\ start[(i + c) + 1] = start[i + c] + Length(waiting[i + c])
        /\ \A k \in 1 .. Length(waiting[i + c]) :
             rxBuffer[(rxRd + start[i + c] + k - 1) % SIZE] = Packet(waiting[i + c])[k]
    BY <2>1 DEF Holds
  <2>3. Length(waiting[i + c]) \in Nat /\ waiting'[i] = waiting[i + c]
    BY <2>1, StartsOrdered
  <2>4. next[i] = start[i + c] - n /\ next[i + 1] = start[(i + c) + 1] - n
          /\ start[i + c] \in 0 .. U /\ start[c + 1] <= start[i + c]
    BY <1>7, <2>1
  <2> HIDE DEF U, N, M
  <2>a. start[(i + c) + 1] = start[i + c] + Length(waiting[i + c])
    BY <2>2
  <2>5. next[i] \in Nat /\ next[i + 1] = next[i] + Length(waiting[i + c])
    <3>1. PICK a \in Int : a = start[i + c]
      BY <1>1, <2>4
    <3>2. PICK b \in Int : b = start[c + 1]
      BY <1>1, <1>3
    <3>3. PICK l \in Nat : l = Length(waiting[i + c])
      BY <2>3
    <3>4. next[i] = a - n /\ b <= a /\ n <= b
      BY <2>4, <3>1, <3>2
    <3>5. next[i + 1] = (a + l) - n
      BY <2>4, <2>a, <3>1, <3>3
    <3>6. next[i] \in Nat /\ next[i + 1] = next[i] + l
      <4>1. a \in Int /\ b \in Int /\ l \in Nat /\ n \in Int
        BY <1>1
      <4>2. QED
        BY ONLY <3>4, <3>5, <4>1, Lowered
    <3>7. QED
      BY <3>3, <3>6
  <2>6. ASSUME NEW k \in 1 .. Length(waiting[i + c])
        PROVE  rxBuffer'[(rxRd' + next[i] + k - 1) % SIZE] = Packet(waiting[i + c])[k]
    <3>1. next[i] + k - 1 \in Nat
      BY <2>3, <2>5
    <3>2. rxBuffer'[(rxRd' + (next[i] + k - 1)) % SIZE]
            = rxBuffer[(rxRd + n + (next[i] + k - 1)) % SIZE]
      BY <1>5, <3>1
    <3>3. /\ rxRd' + (next[i] + k - 1) = rxRd' + next[i] + k - 1
          /\ rxRd + n + (next[i] + k - 1) = rxRd + start[i + c] + k - 1
      <4>1. rxRd \in Int /\ rxRd' \in Int
        BY <1>4, Sizes DEF BufferInv
      <4>2. start[i + c] \in Int
        BY <1>1, <2>4
      <4>3. next[i] = start[i + c] - n /\ next[i] \in Nat /\ k \in Int
        BY <2>3, <2>4, <2>5
      <4>4. PICK a \in Int : a = start[i + c]
        BY <4>2
      <4>5. PICK e \in Nat : e = next[i]
        BY <4>3
      <4>6. e = a - n
        BY <4>3, <4>4, <4>5
      <4>k. k \in Int
        BY <2>3
      <4>7. rxRd' + (e + k - 1) = rxRd' + e + k - 1
              /\ rxRd + n + (e + k - 1) = rxRd + a + k - 1
        BY <4>1, <4>k, <4>6
      <4>8. QED
        BY <4>4, <4>5, <4>7
    <3>4. QED
      BY <2>2, <3>2, <3>3
  <2>7. QED
    BY <2>3, <2>5, <2>6
<1>12. Holds(next)'
  BY <1>8, <1>9, <1>10, <1>11 DEF Holds, Length, Packet
<1>13. BufferInv'
  <2>1. /\ rxWr' \in 0 .. POINTERS - 1 /\ rxSeen' = rxRd'
        /\ rxBuffer' = [i \in 0 .. SIZE - 1 |-> rxBuffer'[i]]
    BY DEF BufferInv, recv
  <2>2. SnRX_RSR' <= SIZE
    BY <1>1, <1>3, <1>4, Sizes
  <2>3. remaining' \in Nat
    BY <1>1, <1>3
  <2>4. \E s \in [1 .. Len(waiting') + 1 -> 0 .. SnRX_RSR'] : Holds(s)'
    BY <1>8, <1>12
  <2> HIDE DEF U, N, M
  <2>5. QED
    BY <1>4, <2>1, <2>2, <2>3, <2>4 DEF BufferInv
<1>14. QED
  BY <1>4, <1>5, <1>13

(* Bytes taken off the datagram under way.                                 *)
LEMMA Consumed ==
  ASSUME BufferInv, NEW n \in 0 .. remaining, recv(n), remaining' = remaining - n,
         waiting' = waiting
  PROVE  /\ BufferInv' /\ SnRX_RSR' = SnRX_RSR - n
         /\ \A o \in Nat : rxBuffer'[(rxRd' + o) % SIZE] = rxBuffer[(rxRd + n + o) % SIZE]
<1>1. PICK start : Holds(start)
  BY DEF BufferInv
<1>2. waiting \in Seq(Incoming) /\ Len(waiting) \in Nat /\ remaining \in Nat
  BY DEF BufferInv
<1>3. start[0 + 1] = remaining
  BY <1>1 DEF Holds
<1>4. /\ n \in Nat /\ n <= start[0 + 1] /\ remaining' = start[0 + 1] - n /\ 0 \in Nat
      /\ 0 <= Len(waiting) /\ waiting' \in Seq(Incoming) /\ Len(waiting') = Len(waiting) - 0
      /\ \A i \in 1 .. Len(waiting') : waiting'[i] = waiting[i + 0]
  BY <1>2, <1>3
<1>5. QED
  BY <1>1, <1>4, Shift

(* When nothing remains, the first datagram lies at the read pointer.      *)
LEMMA FirstPacket ==
  ASSUME BufferInv, remaining = 0, waiting # <<>>
  PROVE  \A k \in 1 .. Length(Head(waiting)) :
           rxBuffer[(rxRd + k - 1) % SIZE] = Packet(Head(waiting))[k]
<1>1. PICK start : Holds(start)
  BY DEF BufferInv
<1>2. Len(waiting) \in Nat /\ Len(waiting) >= 1 /\ Head(waiting) = waiting[1]
  BY DEF BufferInv
<1>3. start[1] = 0
        /\ \A k \in 1 .. Length(waiting[1]) :
             rxBuffer[(rxRd + start[1] + k - 1) % SIZE] = Packet(waiting[1])[k]
  BY <1>1, <1>2 DEF Holds
<1>4. rxRd + start[1] = rxRd
  BY <1>3 DEF BufferInv
<1>5. QED
  BY <1>2, <1>3, <1>4

(* A header taken off: the bytes behind it are what remains.               *)
LEMMA TakenDatagram ==
  ASSUME BufferInv, remaining = 0, waiting # <<>>, recv(HEAD),
         remaining' = Len(Head(waiting).bytes), waiting' = Tail(waiting)
  PROVE  /\ BufferInv' /\ SnRX_RSR' = SnRX_RSR - HEAD
         /\ Head(waiting) \in Incoming
         /\ \A k \in 1 .. Length(Head(waiting)) :
              rxBuffer[(rxRd + k - 1) % SIZE] = Packet(Head(waiting))[k]
         /\ \A o \in Nat : rxBuffer'[(rxRd' + o) % SIZE] = rxBuffer[(rxRd + HEAD + o) % SIZE]
<1>1. PICK start : Holds(start)
  BY DEF BufferInv
<1>2. waiting \in Seq(Incoming) /\ Len(waiting) \in Nat /\ Len(waiting) >= 1
  BY DEF BufferInv
<1>3. Head(waiting) = waiting[1] /\ waiting[1] \in Incoming
  BY <1>2
<1>4. start[1] = 0 /\ start[1 + 1] = start[1] + Length(waiting[1])
        /\ \A k \in 1 .. Length(waiting[1]) :
             rxBuffer[(rxRd + start[1] + k - 1) % SIZE] = Packet(waiting[1])[k]
  BY <1>1, <1>2 DEF Holds
<1>5. Length(waiting[1]) = HEAD + Len(waiting[1].bytes) /\ Len(waiting[1].bytes) \in Nat /\ HEAD \in Nat
  BY <1>3, BytesType DEF Length, HEAD
<1>6. /\ HEAD <= start[1 + 1] /\ remaining' = start[1 + 1] - HEAD
      /\ 1 \in Nat /\ 1 <= Len(waiting)
  BY <1>2, <1>3, <1>4, <1>5
<1>7. /\ waiting' \in Seq(Incoming) /\ Len(waiting') = Len(waiting) - 1
      /\ \A i \in 1 .. Len(waiting') : waiting'[i] = waiting[i + 1]
  BY <1>2, HeadTailProperties
<1>8. /\ BufferInv' /\ SnRX_RSR' = SnRX_RSR - HEAD
      /\ \A o \in Nat : rxBuffer'[(rxRd' + o) % SIZE] = rxBuffer[(rxRd + HEAD + o) % SIZE]
  BY <1>1, <1>5, <1>6, <1>7, Shift
<1>9. rxRd + start[1] = rxRd
  BY <1>4 DEF BufferInv
<1>10. QED
  BY <1>3, <1>4, <1>8, <1>9

-----------------------------------------------------------------------------
(* What the box holds.                                                     *)

Rest == Texts(At(rxRd, remaining))

(* The values of n cells.                                                  *)
LEMMA TextsAt ==
  ASSUME NEW i, NEW n
  PROVE  Texts(At(i, n)) = [k \in 1 .. n |-> rxBuffer[(i + k - 1) % SIZE][2]]
  BY DEF Texts, At

(* What remains, as the box sees it, has the length _remaining.            *)
LEMMA RestIs ==
  ASSUME BufferInv
  PROVE  /\ Rest = [k \in 1 .. remaining |-> rxBuffer[(rxRd + k - 1) % SIZE][2]]
         /\ Rest \in Seq({Rest[k] : k \in 1 .. remaining}) /\ Len(Rest) = remaining
         /\ remaining \in Nat
<1>1. Rest = [k \in 1 .. remaining |-> rxBuffer[(rxRd + k - 1) % SIZE][2]]
  BY TextsAt DEF Rest
<1>2. remaining \in Nat
  BY DEF BufferInv
<1>3. DOMAIN Rest = 1 .. remaining /\ Rest = [k \in 1 .. remaining |-> Rest[k]]
  BY <1>1
<1>4. Rest \in Seq({Rest[k] : k \in 1 .. remaining})
  BY <1>2, <1>3
<1>5. Len(Rest) = remaining
  BY <1>2, <1>3, <1>4
<1>6. QED
  BY <1>1, <1>2, <1>4, <1>5

(* What remains stays while its cells and the read pointer do.             *)
LEMMA RestStays ==
  ASSUME BufferInv, UNCHANGED <<rxRd, remaining>>,
         \A o \in 0 .. remaining - 1 :
           rxBuffer'[(rxRd + o) % SIZE] = rxBuffer[(rxRd + o) % SIZE]
  PROVE  Rest' = Rest
<1>1. Rest = [k \in 1 .. remaining |-> rxBuffer[(rxRd + k - 1) % SIZE][2]]
  BY RestIs
<1>2. Rest' = [k \in 1 .. remaining' |-> rxBuffer'[(rxRd' + k - 1) % SIZE][2]]
  BY DEF Rest, Texts, At
<1>3. ASSUME NEW k \in 1 .. remaining
      PROVE  rxBuffer'[(rxRd' + k - 1) % SIZE] = rxBuffer[(rxRd + k - 1) % SIZE]
  <2>1. k - 1 \in 0 .. remaining - 1 /\ rxRd + (k - 1) = rxRd + k - 1
    BY DEF BufferInv
  <2>2. rxBuffer'[(rxRd + (k - 1)) % SIZE] = rxBuffer[(rxRd + (k - 1)) % SIZE]
    BY <2>1
  <2>3. QED
    BY <2>1, <2>2
<1>4. QED
  BY <1>1, <1>2, <1>3

(* Bytes taken off are the first of what remains.                          *)
LEMMA RestConsumed ==
  ASSUME BufferInv, NEW n \in 0 .. remaining, remaining' = remaining - n, rxRd' \in Int,
         \A o \in Nat : rxBuffer'[(rxRd' + o) % SIZE] = rxBuffer[(rxRd + n + o) % SIZE]
  PROVE  /\ Rest' = SubSeq(Rest, n + 1, Len(Rest))
         /\ n = 1 => Rest' = Tail(Rest)
         /\ Texts(At(rxRd, n)) = SubSeq(Rest, 1, n)
<1>1. /\ Rest = [k \in 1 .. remaining |-> rxBuffer[(rxRd + k - 1) % SIZE][2]]
      /\ Rest \in Seq({Rest[k] : k \in 1 .. remaining})
      /\ Len(Rest) = remaining /\ remaining \in Nat
  BY RestIs
<1>2. Rest' = [k \in 1 .. remaining - n |-> rxBuffer'[(rxRd' + k - 1) % SIZE][2]]
  BY DEF Rest, Texts, At
<1>3. ASSUME NEW k \in 1 .. remaining - n
      PROVE  rxBuffer'[(rxRd' + k - 1) % SIZE][2] = Rest[n + k]
  <2>a. remaining \in Nat /\ rxRd \in Int
    BY <1>1 DEF BufferInv
  <2>1. k - 1 \in Nat /\ rxRd' + (k - 1) = rxRd' + k - 1
          /\ rxRd + n + (k - 1) = rxRd + (n + k) - 1 /\ n + k \in 1 .. remaining
    BY <2>a
  <2>2. rxBuffer'[(rxRd' + (k - 1)) % SIZE] = rxBuffer[(rxRd + n + (k - 1)) % SIZE]
    BY <2>1
  <2>3. Rest[n + k] = rxBuffer[(rxRd + (n + k) - 1) % SIZE][2]
    BY <1>1, <2>1
  <2>4. QED
    BY <2>1, <2>2, <2>3
<1>4. Rest' = [k \in 1 .. remaining - n |-> Rest[n + k]]
  BY <1>2, <1>3
<1>5. n \in 0 .. Len(Rest) /\ Len(Rest) \in n .. Len(Rest) /\ 0 \in 0 .. Len(Rest)
  BY <1>1
<1>6. SubSeq(Rest, n + 1, Len(Rest)) = [k \in 1 .. remaining - n |-> Rest[n + k]]
  <2>1. SubSeq(Rest, n + 1, Len(Rest)) = [k \in 1 .. Len(Rest) - n |-> Rest[n + k]]
    <3> DEFINE S == {Rest[k] : k \in 1 .. remaining}
    <3>1. Rest \in Seq(S)
      BY <1>1
    <3> HIDE DEF S
    <3>2. QED
      BY <3>1, <1>5, PieceIs
  <2>2. QED
    BY <2>1, <1>1
<1>7. ASSUME n = 1 PROVE Rest' = Tail(Rest)
  <2>1. Rest # <<>>
    <3>1. Len(Rest) # 0 /\ Len(<<>>) = 0
      BY <1>1, <1>7
    <3>2. QED
      BY <3>1
  <2>2. Tail(Rest) = [k \in 1 .. remaining - 1 |-> Rest[k + 1]]
    BY <1>1, <2>1, TailIs
  <2>3. QED
    BY <1>4, <1>7, <2>2
<1>8. Texts(At(rxRd, n)) = SubSeq(Rest, 1, n)
  <2>1. n \in 0 .. Len(Rest) /\ 0 + 1 = 1 /\ n - 0 = n
    BY <1>1
  <2>2. SubSeq(Rest, 0 + 1, n) = [k \in 1 .. n - 0 |-> Rest[0 + k]]
    BY <1>1, <1>5, <2>1, PieceIs
  <2>3. \A k \in 1 .. n : 0 + k = k /\ k \in 1 .. remaining
    BY <1>1
  <2>4. SubSeq(Rest, 1, n) = [k \in 1 .. n |-> Rest[k]]
    BY <2>1, <2>2, <2>3
  <2>5. Texts(At(rxRd, n)) = [k \in 1 .. n |-> rxBuffer[(rxRd + k - 1) % SIZE][2]]
    BY TextsAt
  <2>6. \A k \in 1 .. n : Rest[k] = rxBuffer[(rxRd + k - 1) % SIZE][2]
    BY <1>1, <2>3
  <2>7. QED
    BY <2>4, <2>5, <2>6
<1>9. QED
  BY <1>4, <1>6, <1>7, <1>8

-----------------------------------------------------------------------------
(* The steps.                                                              *)

BoxStep == [Box!BoxNext]_<<waiting, Rest, from, Texts(returned)>>

(* A step the box does not see.                                            *)
LEMMA BoxStutters ==
  ASSUME waiting' = waiting, Rest' = Rest, from' = from, returned' = returned
  PROVE  BoxStep
  BY DEF BoxStep, Texts

(* The high byte of a register and its weight.                             *)
LEMMA HighByte ==
  ASSUME NEW R \in Nat
  PROVE  R \div BASE \in Nat /\ (R \div BASE) * BASE \in Nat
<1>1. R \div BASE \in Nat
  BY Sizes
<1> DEFINE h == R \div BASE
<1> HIDE DEF h
<1>2. h \in Nat => h * BASE \in Nat
  BY Sizes
<1>3. QED
  BY <1>1, <1>2 DEF h

(* A step that leaves the chip and the datagrams alone.                    *)
LEMMA Stands ==
  ASSUME BufferInv, UNCHANGED <<chip, remaining, waiting>>
  PROVE  BufferInv' /\ SnRX_RSR' = SnRX_RSR /\ Rest' = Rest
<1>1. SnRX_RSR' = SnRX_RSR
  BY DEF SnRX_RSR, chip
<1>2. Rest' = Rest
  BY DEF Rest, Texts, At, chip
<1>3. 0 \in 0 .. remaining /\ recv(0) /\ remaining' = remaining - 0
  <2>1. remaining \in Nat /\ rxRd \in 0 .. POINTERS - 1 /\ rxSeen = rxRd
    BY DEF BufferInv
  <2>2. (rxRd + 0) % POINTERS = rxRd
    BY <2>1, Sizes
  <2>3. rxRd' = rxRd /\ rxSeen' = rxSeen /\ rxBuffer' = rxBuffer /\ rxWr' = rxWr
          /\ remaining' = remaining
    BY DEF chip
  <2>4. QED
    BY <2>1, <2>2, <2>3 DEF recv
<1>4. BufferInv'
  BY <1>3, Consumed
<1>5. QED
  BY <1>1, <1>2, <1>4

(* A datagram comes.                                                       *)
LEMMA ChipStep ==
  ASSUME IInv, ChipReceives
  PROVE  IInv' /\ BoxStep
<1>1. PICK d \in Incoming :
        /\ SnRX_RSR + Length(d) <= SIZE
        /\ rxBuffer' = [i \in 0 .. SIZE - 1 |->
             LET k == (i - rxWr) % SIZE IN IF k < Length(d) THEN Packet(d)[k + 1] ELSE rxBuffer[i]]
        /\ rxWr' = (rxWr + Length(d)) % POINTERS /\ waiting' = Append(waiting, d)
        /\ UNCHANGED <<rxRd, rxSeen, remaining>>
        /\ UNCHANGED <<size, open, from, returned, call>>
  BY PacketIs DEF ChipReceives
<1>2. /\ BufferInv' /\ SnRX_RSR' = SnRX_RSR + Length(d)
      /\ \A o \in 0 .. remaining - 1 :
           rxBuffer'[(rxRd + o) % SIZE] = rxBuffer[(rxRd + o) % SIZE]
  BY <1>1, ChipBuffer DEF IInv
<1>3. /\ (SnRX_RSR \div BASE) * BASE \in Nat /\ (SnRX_RSR' \div BASE) * BASE \in Nat
      /\ SnRX_RSR \in Nat /\ SnRX_RSR' \in Nat /\ SnRX_RSR <= SnRX_RSR'
      /\ SnRX_RSR \div BASE \in Nat /\ SnRX_RSR' \div BASE \in Nat
      /\ SnRX_RSR \div BASE <= SnRX_RSR' \div BASE
      /\ (SnRX_RSR \div BASE) * BASE <= (SnRX_RSR' \div BASE) * BASE
  <2>1. SnRX_RSR \in Nat /\ Length(d) \in Nat
    <3>1. SnRX_RSR \in 0 .. SIZE
      BY RegisterType DEF IInv
    <3>2. Length(d) \in Nat
      BY BytesType
    <3>3. QED
      BY <3>1, <3>2, Sizes
  <2>2. SnRX_RSR' \in Nat /\ SnRX_RSR <= SnRX_RSR'
    BY <1>2, <2>1
  <2>3. QED
    BY <2>1, <2>2, HighGrows, HighByte
<1>4. CallInv'
  BY <1>1 DEF IInv, CallInv, size
<1>5. SizeInv'
  <2> DEFINE R == SnRX_RSR
             h == R \div BASE
             m == h * BASE
  <2>1. /\ R \in Nat /\ R' \in Nat /\ R <= R' /\ h \in Nat /\ h' \in Nat /\ h <= h'
        /\ m \in Nat /\ m' \in Nat /\ m <= m'
    BY <1>3
  <2>2. /\ high \in Nat /\ val \in 0 .. R /\ val1 \in 0 .. R
        /\ half \in {"low1", "low2"} => high <= h
        /\ half = "high2" => Whole(val1) \/ val1 < m
        /\ half = "low2" => Whole(val1) \/ val1 < high * BASE
        /\ half = "done" => Whole(val)
        /\ call = Idle => val = 0 /\ val1 = 0
    BY DEF IInv, SizeInv
  <2>3. /\ high' = high /\ val' = val /\ val1' = val1 /\ half' = half /\ call' = call
        /\ \A v : Whole(v)' = Whole(v)
    BY <1>1 DEF size, Whole
  <2>4. SizeInv' = (/\ high' \in Nat /\ val' \in 0 .. R' /\ val1' \in 0 .. R'
                    /\ half' \in {"low1", "low2"} => high' <= h'
                    /\ half' = "high2" => Whole(val1)' \/ val1' < m'
                    /\ half' = "low2" => Whole(val1)' \/ val1' < high' * BASE
                    /\ half' = "done" => Whole(val)'
                    /\ call' = Idle => val' = 0 /\ val1' = 0)
    BY DEF SizeInv, Idle
  <2> HIDE DEF R, h, m
  <2>5. val' \in 0 .. R' /\ val1' \in 0 .. R' /\ high' \in Nat
    BY <2>1, <2>2, <2>3
  <2>6. half' \in {"low1", "low2"} => high' <= h'
    BY <2>1, <2>2, <2>3
  <2>7. half' = "high2" => Whole(val1)' \/ val1' < m'
    BY <2>1, <2>2, <2>3 DEF Whole
  <2>8. half' = "low2" => Whole(val1)' \/ val1' < high' * BASE
    BY <2>1, <2>2, <2>3 DEF Whole
  <2>9. half' = "done" => Whole(val)'
    BY <2>1, <2>2, <2>3 DEF Whole
  <2>10. QED
    BY <2>2, <2>3, <2>4, <2>5, <2>6, <2>7, <2>8, <2>9
<1>6. BoxStep
  <2>1. Rest' = Rest
    BY <1>1, <1>2, RestStays DEF IInv
  <2>2. Texts(returned)' = Texts(returned)
    BY <1>1 DEF Texts
  <2>3. Box!Arrives
    BY <1>1, <2>1, <2>2 DEF Box!Arrives, Rest
  <2>4. QED
    BY <2>3 DEF BoxStep, Box!BoxNext
<1>7. QED
  BY <1>2, <1>4, <1>5, <1>6 DEF IInv


(* What a step that moves nothing in the buffer has to keep.               *)
LEMMA CallOnly ==
  ASSUME IInv, UNCHANGED <<chip, remaining, waiting, open, from, returned>>,
         CallInv', SizeInv'
  PROVE  IInv' /\ BoxStep
<1>1. BufferInv' /\ Rest' = Rest
  BY Stands DEF IInv
<1>2. BoxStep
  BY <1>1, BoxStutters
<1>3. QED
  BY <1>1, <1>2 DEF IInv

(* The register and the part of it that is read first do not move while    *)
(* the processor steps.                                                    *)
LEMMA Unmoved ==
  ASSUME IInv, UNCHANGED <<chip, remaining, waiting>>
  PROVE  /\ SnRX_RSR' = SnRX_RSR /\ SnRX_RSR \in Nat /\ SnRX_RSR <= SIZE
         /\ \A v : Whole(v)' = Whole(v)
         /\ Whole(SnRX_RSR) /\ remaining \in Nat /\ remaining <= SnRX_RSR
<1>1. SnRX_RSR' = SnRX_RSR
  BY Stands DEF IInv
<1>2. SnRX_RSR \in 0 .. SIZE
  BY RegisterType DEF IInv
<1>3. remaining \in Nat /\ Whole(SnRX_RSR) /\ remaining <= SnRX_RSR
  BY RegisterIsWhole DEF IInv, BufferInv
<1>4. \A v : Whole(v)' = Whole(v)
  BY DEF Whole
<1>5. QED
  BY <1>1, <1>2, <1>3, <1>4, Sizes

(* A call that begins to read the size.                                    *)
LEMMA Asks ==
  ASSUME NEW purpose, NEW n, AskSize(purpose, n), BufferInv', high \in Nat
  PROVE  SizeInv'
<1>1. val' = 0 /\ val1' = 0 /\ half' = "high1" /\ high' = high
  BY DEF AskSize
<1>2. SnRX_RSR' \in Nat
  <2>1. (BufferInv => SnRX_RSR \in 0 .. SIZE)'
    BY RegisterType, PTL
  <2>2. QED
    BY <2>1, Sizes
<1>3. QED
  BY <1>1, <1>2 DEF SizeInv

(* A call that returns.                                                    *)
LEMMA Returns ==
  ASSUME Return, BufferInv'
  PROVE  SizeInv'
<1>1. val' = 0 /\ val1' = 0 /\ half' = "none" /\ high' = 0
  BY DEF Return
<1>2. SnRX_RSR' \in Nat
  <2>1. (BufferInv => SnRX_RSR \in 0 .. SIZE)'
    BY RegisterType, PTL
  <2>2. QED
    BY <2>1, Sizes
<1>3. QED
  BY <1>1, <1>2 DEF SizeInv

(* parsePacket begins.                                                     *)
LEMMA ParseStep ==
  ASSUME IInv, EthernetUDP_parsePacket
  PROVE  IInv' /\ BoxStep
<1>1. UNCHANGED <<chip, open, remaining, from, returned, waiting>> /\ open
  BY DEF EthernetUDP_parsePacket
<1>2. BufferInv' /\ remaining \in Nat
  BY <1>1, Stands DEF IInv, BufferInv
<1>3. (AskSize("flush", 1) /\ remaining > 0) \/ (AskSize("look", 0) /\ remaining = 0)
  <2>1. CASE remaining > 0
    BY <2>1 DEF EthernetUDP_parsePacket
  <2>2. CASE remaining = 0
    BY <2>2 DEF EthernetUDP_parsePacket
  <2>3. QED
    BY <1>2, <2>1, <2>2
<1>4. SizeInv'
  BY <1>2, <1>3, Asks DEF IInv, SizeInv
<1>5. CallInv'
  BY <1>1, <1>3 DEF IInv, CallInv, AskSize, Idle
<1>6. QED
  BY <1>1, <1>4, <1>5, CallOnly

(* A read begins.                                                          *)
LEMMA ReadBufStep ==
  ASSUME IInv, EthernetUDP_read_buf
  PROVE  IInv' /\ BoxStep
<1>1. UNCHANGED <<chip, open, remaining, from, returned, waiting>> /\ open /\ remaining > 0
  BY DEF EthernetUDP_read_buf
<1>2. BufferInv' /\ remaining \in Nat
  BY <1>1, Stands DEF IInv, BufferInv
<1>3. PICK len \in 1 .. SIZE : AskSize("read", Min({len, remaining}))
  BY DEF EthernetUDP_read_buf
<1>4. Min({len, remaining}) \in 1 .. remaining
  BY <1>1, <1>2, <1>3, MinOfTwo, Sizes
<1>5. SizeInv'
  BY <1>2, <1>3, Asks DEF IInv, SizeInv
<1>6. CallInv'
  BY <1>1, <1>3, <1>4 DEF IInv, CallInv, AskSize, Idle
<1>7. QED
  BY <1>1, <1>5, <1>6, CallOnly

(* peek is a Peeked of the box.                                            *)
LEMMA PeekStep ==
  ASSUME IInv, EthernetUDP_peek
  PROVE  IInv' /\ BoxStep
<1>1. /\ UNCHANGED <<chip, open, remaining, from, waiting>> /\ UNCHANGED <<size, call>>
      /\ remaining > 0 /\ returned' = At(rxRd, 1)
  BY DEF EthernetUDP_peek
<1>2. BufferInv' /\ Rest' = Rest
  BY <1>1, Stands DEF IInv
<1>3. CallInv'
  BY <1>1 DEF IInv, CallInv, size, Idle
<1>4. SizeInv'
  BY <1>1, Unmoved DEF IInv, SizeInv, size, Idle
<1>5. /\ Rest = [k \in 1 .. remaining |-> rxBuffer[(rxRd + k - 1) % SIZE][2]]
      /\ Rest \in Seq({Rest[k] : k \in 1 .. remaining}) /\ Len(Rest) = remaining
      /\ remaining \in Nat
  BY RestIs DEF IInv
<1>6. Rest # <<>> /\ Head(Rest) = rxBuffer[(rxRd + 1 - 1) % SIZE][2]
  <2>1. Rest[1] = rxBuffer[(rxRd + 1 - 1) % SIZE][2]
    BY <1>1, <1>5
  <2>2. Len(Rest) > 0
    BY <1>1, <1>5
  <2> DEFINE S == {Rest[k] : k \in 1 .. remaining}
  <2>3. Rest \in Seq(S)
    BY <1>5
  <2> HIDE DEF S
  <2>4. Rest # <<>> /\ Head(Rest) = Rest[1]
    BY <2>2, <2>3
  <2>5. QED
    BY <2>1, <2>4
<1>7. Texts(returned)' = [k \in 1 .. 1 |-> rxBuffer[(rxRd + k - 1) % SIZE][2]]
  BY <1>1 DEF Texts, At
<1>8. Texts(returned)' = <<Head(Rest)>>
  BY <1>6, <1>7
<1>9. Box!Peeked
  BY <1>1, <1>2, <1>6, <1>8 DEF Box!Peeked, Rest
<1>10. QED
  BY <1>2, <1>3, <1>4, <1>9 DEF IInv, BoxStep, Box!BoxNext

(* The high byte is read: a torn first value is now below it.              *)
LEMMA ReadHighStep ==
  ASSUME IInv, ReadHigh
  PROVE  IInv' /\ BoxStep
<1>1. /\ UNCHANGED <<chip, open, remaining, from, returned, waiting>>
      /\ UNCHANGED <<val1, val, call>> /\ half \in {"high1", "high2"}
      /\ high' = SnRX_RSR \div BASE
      /\ half' = IF half = "high1" THEN "low1" ELSE "low2"
  BY DEF ReadHigh
<1> DEFINE R == SnRX_RSR
           h == R \div BASE
<1>2. R \in Nat /\ R' = R /\ h \in Nat /\ h' = h /\ \A v : Whole(v)' = Whole(v)
  BY <1>1, Unmoved, HighByte
<1>3. CallInv'
  BY <1>1 DEF IInv, CallInv, Idle
<1>4. SizeInv'
  <2>1. /\ val \in 0 .. R /\ val1 \in 0 .. R
        /\ half = "high2" => Whole(val1) \/ val1 < h * BASE
        /\ call = Idle => val = 0 /\ val1 = 0
    BY DEF IInv, SizeInv
  <2>2. half' \in {"low1", "low2"} /\ (half' = "low2" => half = "high2")
    BY <1>1
  <2>3. high' = h /\ val' = val /\ val1' = val1 /\ call' = call
    BY <1>1
  <2>4. SizeInv' = (/\ high' \in Nat /\ val' \in 0 .. R' /\ val1' \in 0 .. R'
                    /\ half' \in {"low1", "low2"} => high' <= h'
                    /\ half' = "high2" => Whole(val1)' \/ val1' < (h * BASE)'
                    /\ half' = "low2" => Whole(val1)' \/ val1' < high' * BASE
                    /\ half' = "done" => Whole(val)'
                    /\ call' = Idle => val' = 0 /\ val1' = 0)
    BY DEF SizeInv, Idle
  <2> HIDE DEF h, R
  <2>5. Whole(val1)' = Whole(val1)
    BY <1>2, <2>3 DEF Whole
  <2>6. half' = "low2" => Whole(val1)' \/ val1' < high' * BASE
    BY <2>1, <2>2, <2>3, <2>5
  <2>7. QED
    BY <1>2, <2>1, <2>2, <2>3, <2>4, <2>6
<1>5. QED
  BY <1>1, <1>3, <1>4, CallOnly

(* The first value is put together.                                        *)
LEMMA ReadLow1Step ==
  ASSUME IInv, ReadLow1
  PROVE  IInv' /\ BoxStep
<1>1. /\ UNCHANGED <<chip, open, remaining, from, returned, waiting>>
      /\ UNCHANGED <<val, call>> /\ half = "low1" /\ high' = 0 /\ val1' = Register
      /\ half' = IF Register # 0 THEN "high2" ELSE IF val = 0 THEN "done" ELSE "high1"
  BY DEF ReadLow1, FirstValue
<1> DEFINE R == SnRX_RSR
           h == R \div BASE
           m == h * BASE
<1>2. /\ R \in Nat /\ R' = R /\ h' = h /\ m' = m /\ Whole(R)
      /\ \A v : Whole(v)' = Whole(v)
  BY <1>1, Unmoved
<1>3. call # Idle
  BY <1>1 DEF IInv, CallInv
<1>4. CallInv'
  BY <1>1, <1>3 DEF IInv, CallInv, Idle
<1>5. high \in Nat /\ high <= h /\ val \in 0 .. R
  BY <1>1 DEF IInv, SizeInv
<1>6. /\ Register \in Nat /\ Register <= R
      /\ high = h => Register = R
      /\ high < h => Register < m
  BY <1>2, <1>5, Torn DEF Register
<1>7. SizeInv'
  <2>1. SizeInv' = (/\ high' \in Nat /\ val' \in 0 .. R' /\ val1' \in 0 .. R'
                    /\ half' \in {"low1", "low2"} => high' <= h'
                    /\ half' = "high2" => Whole(val1)' \/ val1' < m'
                    /\ half' = "low2" => Whole(val1)' \/ val1' < high' * BASE
                    /\ half' = "done" => Whole(val)'
                    /\ call' = Idle => val' = 0 /\ val1' = 0)
    BY DEF SizeInv, Idle
  <2>2. h \in Nat
    BY <1>2, HighByte
  <2> HIDE DEF h, R, m
  <2>3. Whole(val1)' \/ val1' < m'
    <3>1. CASE high = h
      <4>1. val1' = R
        BY <1>1, <1>6, <3>1
      <4>2. QED
        BY <1>1, <1>2, <4>1 DEF Whole
    <3>2. CASE high < h
      BY <1>1, <1>2, <1>6, <3>2
    <3>3. QED
      BY <1>5, <2>2, <3>1, <3>2
  <2>4. half' = "done" => Whole(val)'
    BY <1>1 DEF Whole
  <2>5. half' \notin {"low1", "low2"} /\ val1' \in 0 .. R' /\ val' \in 0 .. R'
    BY <1>1, <1>2, <1>5, <1>6
  <2>6. QED
    BY <1>1, <1>3, <2>1, <2>3, <2>4, <2>5
<1>8. QED
  BY <1>1, <1>4, <1>7, CallOnly

(* The second value is put together; if it repeats the first, it is whole. *)
LEMMA ReadLow2Step ==
  ASSUME IInv, ReadLow2
  PROVE  IInv' /\ BoxStep
<1>1. /\ UNCHANGED <<chip, open, remaining, from, returned, waiting>>
      /\ UNCHANGED <<val1, call>> /\ half = "low2" /\ high' = 0 /\ val' = Register
      /\ half' = IF Register = val1 THEN "done" ELSE "high1"
  BY DEF ReadLow2
<1> DEFINE R == SnRX_RSR
           h == R \div BASE
           m == high * BASE
<1>2. R \in Nat /\ R' = R /\ \A v : Whole(v)' = Whole(v)
  BY <1>1, Unmoved
<1>3. call # Idle
  BY <1>1 DEF IInv, CallInv
<1>4. CallInv'
  BY <1>1, <1>3 DEF IInv, CallInv, Idle
<1>5. high \in Nat /\ high <= h /\ val1 \in 0 .. R /\ (Whole(val1) \/ val1 < m)
  BY <1>1 DEF IInv, SizeInv
<1>6. Register \in Nat /\ Register <= R /\ m <= Register
  BY <1>2, <1>5, Torn DEF Register
<1>7. m \in Nat
  <2>1. \A a \in Nat : a * BASE \in Nat
    BY Sizes
  <2>2. QED
    BY <1>5, <2>1
<1>8. SizeInv'
  <2>1. SizeInv' = (/\ high' \in Nat /\ val' \in 0 .. R' /\ val1' \in 0 .. R'
                    /\ half' \in {"low1", "low2"} => high' <= h'
                    /\ half' = "high2" => Whole(val1)' \/ val1' < (h * BASE)'
                    /\ half' = "low2" => Whole(val1)' \/ val1' < high' * BASE
                    /\ half' = "done" => Whole(val)'
                    /\ call' = Idle => val' = 0 /\ val1' = 0)
    BY DEF SizeInv, Idle
  <2> HIDE DEF h, R, m
  <2>2. half' = "done" => Whole(val)'
    <3> SUFFICES ASSUME half' = "done" PROVE Whole(val)'
      OBVIOUS
    <3>1. Register = val1
      BY <1>1
    <3>2. Whole(val1)
      BY <1>5, <1>6, <1>7, <3>1
    <3>3. QED
      BY <1>1, <3>1, <3>2 DEF Whole
  <2>3. half' \in {"done", "high1"} /\ val1' \in 0 .. R' /\ val' \in 0 .. R'
    BY <1>1, <1>2, <1>5, <1>6
  <2>4. QED
    BY <1>1, <1>3, <2>1, <2>2, <2>3
<1>9. QED
  BY <1>1, <1>4, <1>8, CallOnly

(* recv of nothing moves no pointer.                                       *)
LEMMA NothingReceived ==
  ASSUME BufferInv, recv(0)
  PROVE  UNCHANGED chip
<1>1. rxRd \in 0 .. POINTERS - 1 /\ rxSeen = rxRd
  BY DEF BufferInv
<1>2. (rxRd + 0) % POINTERS = rxRd
  BY <1>1, Sizes
<1>3. QED
  BY <1>1, <1>2 DEF recv, chip

(* The bytes recv takes: no more than wanted, none if none are there.      *)
LEMMA SizeIs ==
  ASSUME IInv, call.len \in Nat
  PROVE  /\ Size = (IF val <= call.len THEN val ELSE call.len)
         /\ Size \in 0 .. call.len /\ val \in Nat /\ (val > 0 => SnRX_RSR > 0)
<1>1. SnRX_RSR \in 0 .. SIZE
  BY RegisterType DEF IInv
<1>2. val \in Nat /\ val <= SnRX_RSR
  BY <1>1, Sizes DEF IInv, SizeInv
<1>3. Size = (IF val <= call.len THEN val ELSE call.len)
  BY <1>2, MinOfTwo DEF Size
<1>4. QED
  BY <1>1, <1>2, <1>3, Sizes

(* A byte dropped is a Dropped of the box; no byte, a stutter.             *)
LEMMA FlushStep ==
  ASSUME IInv, Flush
  PROVE  IInv' /\ BoxStep
<1>1. /\ half = "done" /\ call.for = "flush" /\ recv(Size) /\ remaining' = remaining - Size
      /\ UNCHANGED <<open, from, returned, waiting>>
      /\ IF remaining' > 0 THEN AskSize("flush", 1) ELSE AskSize("look", 0)
  BY DEF Flush
<1>2. call # Idle /\ call.len = 1 /\ remaining > 0 /\ remaining \in Nat /\ open
  BY <1>1 DEF IInv, CallInv, BufferInv, Idle
<1>3. Size \in {0, 1} /\ Size \in 0 .. remaining
  BY <1>2, SizeIs
<1>4. BufferInv'
  BY <1>1, <1>3, Consumed DEF IInv
<1>5. (AskSize("flush", 1) /\ remaining' > 0) \/ (AskSize("look", 0) /\ remaining' = 0)
  <2>1. remaining' \in Nat
    BY <1>1, <1>2, <1>3
  <2>2. CASE remaining' > 0
    BY <1>1, <2>2
  <2>3. CASE remaining' = 0
    BY <1>1, <2>3
  <2>4. QED
    BY <2>1, <2>2, <2>3
<1>6. SizeInv'
  BY <1>4, <1>5, Asks DEF IInv, SizeInv
<1>7. CallInv'
  BY <1>1, <1>2, <1>5 DEF CallInv, AskSize, Idle
<1>8. BoxStep
  <2>1. CASE Size = 0
    <3>1. UNCHANGED <<chip, remaining, waiting>>
      BY <1>1, <1>2, <2>1, NothingReceived DEF IInv
    <3>2. QED
      BY <1>1, <3>1, Stands, BoxStutters DEF IInv
  <2>2. CASE Size = 1
    <3>1. \A o \in Nat : rxBuffer'[(rxRd' + o) % SIZE] = rxBuffer[(rxRd + 1 + o) % SIZE]
      BY <1>1, <1>3, <2>2, Consumed DEF IInv
    <3>2. rxRd' \in Int /\ 1 \in 0 .. remaining /\ remaining' = remaining - 1
      BY <1>1, <1>3, <1>4, <2>2 DEF BufferInv
    <3>3. Rest' = Tail(Rest)
      BY <3>1, <3>2, RestConsumed DEF IInv
    <3>4. Rest # <<>>
      <4>1. Len(Rest) = remaining
        BY RestIs DEF IInv
      <4>2. QED
        BY <1>2, <4>1
    <3>5. Box!Dropped
      BY <1>1, <3>3, <3>4 DEF Box!Dropped, Rest, Texts
    <3>6. QED
      BY <3>5 DEF BoxStep, Box!BoxNext
  <2>3. QED
    BY <1>3, <2>1, <2>2
<1>9. QED
  BY <1>4, <1>6, <1>7, <1>8 DEF IInv

(* The look at the size.                                                   *)
LEMMA LookStep ==
  ASSUME IInv, Look
  PROVE  IInv' /\ BoxStep
<1>1. /\ UNCHANGED <<chip, open, remaining, from, returned, waiting>>
      /\ half = "done" /\ call.for = "look"
      /\ AskSize("header", HEAD) \/ Return
  BY DEF Look
<1>2. call # Idle /\ remaining = 0 /\ open
  BY <1>1 DEF IInv, CallInv, Idle
<1>3. BufferInv'
  BY <1>1, Stands DEF IInv
<1>4. SizeInv'
  BY <1>1, <1>3, Asks, Returns DEF IInv, SizeInv
<1>5. CallInv'
  BY <1>1, <1>2 DEF CallInv, AskSize, Return, Idle
<1>6. QED
  BY <1>1, <1>4, <1>5, CallOnly

(* A header is taken whole or not at all: a Taken of the box.              *)
LEMMA HeaderStep ==
  ASSUME IInv, Header
  PROVE  IInv' /\ BoxStep
<1>1. /\ half = "done" /\ call.for = "header" /\ recv(Size) /\ Return
      /\ UNCHANGED <<open, returned>>
      /\ Size = 0 => UNCHANGED <<from, remaining, waiting>>
  BY DEF Header
<1>2. call # Idle /\ call.len = HEAD /\ remaining = 0 /\ open /\ Whole(val) /\ HEAD = 2
  BY <1>1 DEF IInv, CallInv, SizeInv, Idle, HEAD
<1>3. Size \in {0, HEAD} /\ (Size = HEAD => SnRX_RSR > 0)
  BY <1>2, SizeIs DEF Whole
<1>4. CASE Size = 0
  <2>1. UNCHANGED <<chip, remaining, waiting>>
    BY <1>1, <1>4, NothingReceived DEF IInv
  <2>2. BufferInv' /\ Rest' = Rest
    BY <2>1, Stands DEF IInv
  <2>3. BoxStep
    BY <1>1, <1>4, <2>2, BoxStutters
  <2>4. CallInv'
    BY <1>1, <1>2 DEF CallInv, Return, Idle
  <2>5. QED
    BY <1>1, <2>2, <2>3, <2>4, Returns DEF IInv
<1>5. CASE Size = HEAD
  <2> DEFINE d == Head(waiting)
  <2>1. waiting # <<>> /\ waiting \in Seq(Incoming)
    BY <1>2, <1>3, <1>5, RegisterIsWhole DEF IInv, BufferInv
  <2>2. d \in Incoming
    BY <2>1
  <2>3. \A k \in 1 .. Length(d) : rxBuffer[(rxRd + k - 1) % SIZE] = Packet(d)[k]
    BY <1>2, <2>1, FirstPacket DEF IInv
  <2>4. /\ Packet(d)[1] = <<"from", d.from>> /\ Packet(d)[2] = <<"length", Len(d.bytes)>>
        /\ \A k \in 1 .. Len(d.bytes) : Packet(d)[HEAD + k] = <<"byte", d.bytes[k]>>
        /\ Len(d.bytes) \in Nat /\ Length(d) = HEAD + Len(d.bytes)
        /\ d.bytes = [k \in 1 .. Len(d.bytes) |-> d.bytes[k]]
    <3>1. Len(d.bytes) \in Nat /\ DOMAIN d.bytes = 1 .. Len(d.bytes)
            /\ d.bytes \in Seq({d.bytes[i] : i \in DOMAIN d.bytes})
      BY <2>2, BytesType
    <3> DEFINE b == d.bytes
               S == {d.bytes[i] : i \in DOMAIN d.bytes}
    <3>2. b \in Seq(S)
      BY <3>1
    <3> HIDE DEF S, b
    <3>3. b = [k \in 1 .. Len(b) |-> b[k]]
      BY <3>2
    <3>4. QED
      BY <2>2, <3>1, <3>3, PacketIs DEF b, Length
  <2> HIDE DEF d
  <2> DEFINE h == At(rxRd, HEAD)
  <2>5. h[1] = Packet(d)[1] /\ h[2] = Packet(d)[2]
    <3>1. 1 \in 1 .. Length(d) /\ 2 \in 1 .. Length(d)
      BY <1>2, <2>4
    <3>2. h[1] = rxBuffer[(rxRd + 1 - 1) % SIZE] /\ h[2] = rxBuffer[(rxRd + 2 - 1) % SIZE]
      BY <1>2 DEF At
    <3>3. QED
      BY <2>3, <3>1, <3>2
  <2>6. h[1][1] = "from" /\ h[1][2] = d.from /\ h[2][1] = "length" /\ h[2][2] = Len(d.bytes)
    BY <2>4, <2>5
  <2>7. /\ from' = IF h[1][1] = "from" THEN h[1][2] ELSE "other"
        /\ remaining' = IF Size = HEAD /\ h[2][1] = "length" THEN h[2][2] ELSE 0
        /\ waiting' = Tail(waiting)
    BY <1>2, <1>5 DEF Header
  <2>8. from' = d.from /\ remaining' = Len(d.bytes) /\ waiting' = Tail(waiting)
    BY <1>5, <2>6, <2>7
  <2>9. /\ BufferInv'
        /\ \A o \in Nat : rxBuffer'[(rxRd' + o) % SIZE] = rxBuffer[(rxRd + HEAD + o) % SIZE]
    BY <1>1, <1>2, <1>5, <2>1, <2>8, TakenDatagram DEF IInv, d
  <2>10. Rest' = d.bytes
    <3>1. Rest' = [k \in 1 .. Len(d.bytes) |-> rxBuffer'[(rxRd' + k - 1) % SIZE][2]]
      BY <2>8 DEF Rest, Texts, At
    <3>2. ASSUME NEW k \in 1 .. Len(d.bytes)
          PROVE  rxBuffer'[(rxRd' + k - 1) % SIZE][2] = d.bytes[k]
      <4>1. rxRd \in Int /\ rxRd' \in Int
        BY <2>9 DEF IInv, BufferInv
      <4>a. PICK l \in Nat : l = Len(d.bytes)
        BY <2>4
      <4>b. Length(d) = HEAD + l /\ k \in 1 .. l
        BY <2>4, <4>a
      <4>c. k - 1 \in Nat /\ rxRd' + (k - 1) = rxRd' + k - 1
              /\ rxRd + HEAD + (k - 1) = rxRd + (HEAD + k) - 1 /\ HEAD + k \in 1 .. HEAD + l
        BY <1>2, <4>1, <4>b
      <4>2. k - 1 \in Nat /\ rxRd' + (k - 1) = rxRd' + k - 1
              /\ rxRd + HEAD + (k - 1) = rxRd + (HEAD + k) - 1 /\ HEAD + k \in 1 .. Length(d)
        BY <4>b, <4>c
      <4>3. rxBuffer'[(rxRd' + (k - 1)) % SIZE] = rxBuffer[(rxRd + HEAD + (k - 1)) % SIZE]
        BY <2>9, <4>2
      <4>4. rxBuffer[(rxRd + (HEAD + k) - 1) % SIZE] = Packet(d)[HEAD + k]
        BY <2>3, <4>2
      <4>5. rxBuffer'[(rxRd' + k - 1) % SIZE] = <<"byte", d.bytes[k]>>
        BY <2>4, <4>2, <4>3, <4>4
      <4>6. QED
        BY <4>5
    <3>3. QED
      BY <2>4, <3>1, <3>2
  <2>11. Rest = <<>>
    BY <1>2, RestIs DEF IInv
  <2>12. Box!Taken
    BY <1>1, <2>1, <2>8, <2>10, <2>11 DEF Box!Taken, Rest, Texts, d
  <2>13. CallInv'
    BY <1>1, <1>2 DEF CallInv, Return, Idle
  <2>14. QED
    BY <1>1, <2>9, <2>12, <2>13, Returns DEF IInv, BoxStep, Box!BoxNext
<1>6. QED
  BY <1>3, <1>4, <1>5

(* Bytes read are a Read of the box.                                       *)
LEMMA ReadStep ==
  ASSUME IInv, Read
  PROVE  IInv' /\ BoxStep
<1>1. /\ half = "done" /\ call.for = "read" /\ recv(Size) /\ Return
      /\ remaining' = remaining - Size /\ UNCHANGED <<open, from, waiting>>
      /\ returned' = IF Size > 0 THEN At(rxRd, Size) ELSE returned
  BY DEF Read
<1>2. call # Idle /\ call.len \in 1 .. remaining /\ remaining \in Nat /\ open
  BY <1>1 DEF IInv, CallInv, BufferInv, Idle
<1>3. Size \in 0 .. remaining
  BY <1>2, SizeIs
<1>4. /\ BufferInv'
      /\ \A o \in Nat : rxBuffer'[(rxRd' + o) % SIZE] = rxBuffer[(rxRd + Size + o) % SIZE]
  BY <1>1, <1>3, Consumed DEF IInv
<1>5. SizeInv' /\ CallInv'
  BY <1>1, <1>2, <1>4, Returns DEF CallInv, Return, Idle
<1>6. BoxStep
  <2>1. CASE Size = 0
    <3>1. UNCHANGED <<chip, remaining, waiting>> /\ returned' = returned
      BY <1>1, <1>2, <2>1, NothingReceived DEF IInv
    <3>2. QED
      BY <1>1, <3>1, Stands, BoxStutters DEF IInv
  <2>2. CASE Size > 0
    <3>1. rxRd' \in Int
      BY <1>4 DEF BufferInv
    <3>2. /\ Rest' = SubSeq(Rest, Size + 1, Len(Rest))
          /\ Texts(At(rxRd, Size)) = SubSeq(Rest, 1, Size)
      BY <1>1, <1>3, <1>4, <3>1, RestConsumed DEF IInv
    <3>3. Texts(returned)' = SubSeq(Rest, 1, Size)
      <4>1. returned' = At(rxRd, Size)
        BY <1>1, <2>2
      <4>2. Texts(returned)' = Texts(At(rxRd, Size))
        BY <4>1 DEF Texts
      <4>3. QED
        BY <3>2, <4>2
    <3>4. Size \in 1 .. Len(Rest)
      <4>1. Len(Rest) = remaining
        BY RestIs DEF IInv
      <4>2. QED
        BY <1>2, <1>3, <2>2, <4>1
    <3>5. Box!ReadSome
      BY <1>1, <3>2, <3>3, <3>4 DEF Box!ReadSome, Rest
    <3>6. QED
      BY <3>5 DEF BoxStep, Box!BoxNext
  <2>3. QED
    BY <1>2, <1>3, <2>1, <2>2
<1>7. QED
  BY <1>4, <1>5, <1>6 DEF IInv

(* The socket closes.                                                      *)
LEMMA StopStep ==
  ASSUME IInv, EthernetUDP_stop
  PROVE  IInv' /\ BoxStep
<1>1. /\ UNCHANGED <<chip, remaining, waiting, from, returned>> /\ UNCHANGED <<size, call>>
      /\ call = Idle /\ open' = FALSE
  BY DEF EthernetUDP_stop
<1>2. BufferInv' /\ Rest' = Rest
  BY <1>1, Stands DEF IInv
<1>3. CallInv'
  BY <1>1 DEF IInv, CallInv, size, Idle
<1>4. SizeInv'
  BY <1>1, Unmoved DEF IInv, SizeInv, CallInv, size, Idle
<1>5. QED
  BY <1>1, <1>2, <1>3, <1>4, BoxStutters DEF IInv

(* The buffer of a socket just opened.                                     *)
LEMMA EmptyBuffer ==
  waiting = <<>> /\ remaining = 0 /\ rxWr = 0 /\ rxRd = 0 /\ rxSeen = 0
  /\ rxBuffer = [i \in 0 .. SIZE - 1 |-> rxBuffer[i]]
    => BufferInv /\ SnRX_RSR = 0 /\ Rest = <<>>
<1> SUFFICES ASSUME waiting = <<>>, remaining = 0, rxWr = 0, rxRd = 0, rxSeen = 0,
                    rxBuffer = [i \in 0 .. SIZE - 1 |-> rxBuffer[i]]
             PROVE  BufferInv /\ SnRX_RSR = 0 /\ Rest = <<>>
  OBVIOUS
<1>1. SnRX_RSR = 0
  BY Sizes DEF SnRX_RSR
<1>2. Rest = <<>>
  <2>1. Rest = [k \in 1 .. 0 |-> rxBuffer[(rxRd + k - 1) % SIZE][2]]
    BY DEF Rest, Texts, At
  <2>2. QED
    BY <2>1
<1>3. PICK start : start = [i \in 1 .. 1 |-> 0]
  OBVIOUS
<1>4. Len(waiting) = 0 /\ waiting \in Seq(Incoming)
  OBVIOUS
<1>5. Holds(start)
  BY <1>1, <1>3, <1>4 DEF Holds
<1>6. start \in [1 .. Len(waiting) + 1 -> 0 .. SnRX_RSR]
  BY <1>1, <1>3, <1>4
<1>7. BufferInv
  BY <1>1, <1>4, <1>5, <1>6, Sizes DEF BufferInv
<1>8. QED
  BY <1>1, <1>2, <1>7

(* The socket opens again: a Reopened of the box.                          *)
LEMMA BeginStep ==
  ASSUME IInv, EthernetUDP_begin
  PROVE  IInv' /\ BoxStep
<1>1. /\ ~open /\ open' = TRUE /\ remaining' = 0 /\ waiting' = <<>>
      /\ rxWr' = 0 /\ rxRd' = 0 /\ rxSeen' = 0 /\ rxBuffer' = rxBuffer
      /\ UNCHANGED <<size, from, returned, call>>
  BY DEF EthernetUDP_begin
<1>2. call = Idle /\ half = "none" /\ val = 0 /\ val1 = 0 /\ high \in Nat
  BY <1>1 DEF IInv, CallInv, SizeInv
<1>3. rxBuffer' = [i \in 0 .. SIZE - 1 |-> rxBuffer'[i]]
  BY <1>1 DEF IInv, BufferInv
<1>4. (waiting = <<>> /\ remaining = 0 /\ rxWr = 0 /\ rxRd = 0 /\ rxSeen = 0
       /\ rxBuffer = [i \in 0 .. SIZE - 1 |-> rxBuffer[i]]
         => BufferInv /\ SnRX_RSR = 0 /\ Rest = <<>>)'
  BY EmptyBuffer, PTL
<1>5. BufferInv' /\ SnRX_RSR' = 0 /\ Rest' = <<>>
  BY <1>1, <1>3, <1>4
<1>6. CallInv'
  BY <1>1, <1>2 DEF CallInv, size, Idle
<1>7. SizeInv'
  BY <1>1, <1>2, <1>5 DEF SizeInv, size
<1>8. Box!Reopened
  BY <1>1, <1>5 DEF Box!Reopened, Rest, Texts
<1>9. QED
  BY <1>5, <1>6, <1>7, <1>8 DEF IInv, BoxStep, Box!BoxNext

(* The invariant holds at the start, and the box is empty.                 *)
LEMMA InitInv == ReceiveInit => IInv /\ Box!BoxInit
<1> SUFFICES ASSUME ReceiveInit PROVE IInv /\ Box!BoxInit
  OBVIOUS
<1>1. rxBuffer = [i \in 0 .. SIZE - 1 |-> rxBuffer[i]]
  BY DEF ReceiveInit
<1>2. BufferInv /\ SnRX_RSR = 0 /\ Rest = <<>>
  BY <1>1, EmptyBuffer DEF ReceiveInit
<1>3. CallInv
  BY DEF ReceiveInit, CallInv, Idle
<1>4. SizeInv
  BY <1>2 DEF ReceiveInit, SizeInv
<1>5. Texts(returned) = <<>>
  BY DEF ReceiveInit, Texts
<1>6. QED
  BY <1>2, <1>3, <1>4, <1>5 DEF IInv, Box!BoxInit, ReceiveInit, Rest

(* Every step keeps the invariant and is a step or a stutter of the box.   *)
LEMMA StepInv == IInv /\ [ReceiveNext]_udpRxVars => IInv' /\ BoxStep
<1> SUFFICES ASSUME IInv, [ReceiveNext]_udpRxVars PROVE IInv' /\ BoxStep
  OBVIOUS
<1>1. CASE UNCHANGED udpRxVars
  <2>1. /\ UNCHANGED <<chip, open, remaining, from, returned, waiting>>
        /\ UNCHANGED <<size, call>>
    BY <1>1 DEF udpRxVars
  <2>2. CallInv'
    BY <2>1 DEF IInv, CallInv, size, Idle
  <2>3. SizeInv'
    BY <2>1, Unmoved DEF IInv, SizeInv, size, Idle
  <2>4. QED
    BY <2>1, <2>2, <2>3, CallOnly
<1>2. CASE ReceiveNext
  BY <1>2, ChipStep, ParseStep, ReadBufStep, PeekStep, ReadHighStep, ReadLow1Step,
     ReadLow2Step, FlushStep, LookStep, HeaderStep, ReadStep, StopStep, BeginStep
     DEF ReceiveNext, CallStep
<1>3. QED
  BY <1>1, <1>2

(* The invariant holds throughout.                                         *)
LEMMA Inductive == ReceiveSpec => []IInv
  BY InitInv, StepInv, PTL DEF ReceiveSpec

(* The cells between the two pointers are the rest of the datagram taken   *)
(* last and then the waiting ones, each whole and in order, and the size   *)
(* register counts exactly them: nothing the chip writes falls on them.    *)
THEOREM BufferIsInOrder == ReceiveSpec => []BufferInv
  BY Inductive, PTL DEF IInv

(* W5500_getRXReceivedSize: when parsePacket acts on the size it has read, *)
(* byte by byte while datagrams come, the size is 0 or covers the header,  *)
(* and it is never more than the register counts.                          *)
SizeIsReal == half = "done" => val <= SnRX_RSR /\ (call.for = "header" => val = 0 \/ val >= HEAD)
THEOREM SizesAreReal == ReceiveSpec => []SizeIsReal
<1>1. IInv => SizeIsReal
  <2>1. IInv => SnRX_RSR \in 0 .. SIZE
    BY RegisterType DEF IInv
  <2>2. QED
    BY <2>1, Sizes DEF IInv, CallInv, SizeInv, Whole, SizeIsReal, Idle
<1>2. QED
  BY <1>1, Inductive, PTL

(* EthernetUdp.c gives every datagram whole, in order and one at a time:   *)
(* UdpReceive implements DatagramBox, whatever the datagrams are.          *)
THEOREM DatagramsComeWhole == ReceiveSpec => ImplementsBox
  BY InitInv, StepInv, PTL DEF ReceiveSpec, ImplementsBox, Box!BoxSpec, BoxStep, Rest


-----------------------------------------------------------------------------
(* DnsClient: the inductive invariant.                                     *)

Waiting == lookup \in {"wait", "read"}

(* A datagram is a reply to some lookup; to the one under way only if its  *)
(* server has it for its name.                                             *)
Replies(server, bytes) ==
  \E id \in 1 .. iRequestId, host \in Hosts, shape \in Shapes :
    /\ server \in DnsServers /\ bytes = DnsReply(server, BuildRequest(id, host), shape)
    /\ Waiting /\ id = iRequestId => server = iDNSServer /\ host = name

(* The last request is that of the lookup under way.                       *)
RequestInv ==
  \/ request = <<>>
  \/ \E server, to : \E host \in Hosts :
       /\ request = <<[server |-> server, port |-> to, bytes |-> BuildRequest(iRequestId, host)]>>
       /\ server \in DnsServers /\ iRequestId > 0
       /\ (Waiting => server = iDNSServer /\ host = name)

LookupInv ==
  /\ iRequestId \in 0 .. MaxLookups
  /\ iDNSServer \in DnsServers \cup {0}
  /\ Waiting => name \in Hosts /\ ~IsNumber(name) /\ iDNSServer \in DnsServers

DatagramInv ==
  /\ \A r \in replies : Replies(r.from, r.bytes)
  /\ \/ inbox = <<>>
     \/ \E server, bytes : inbox = <<[from |-> server, bytes |-> bytes]>> /\ Replies(server, bytes)
  /\ lookup = "read" => Replies(sender, rest)

DnsInv == RequestInv /\ LookupInv /\ DatagramInv /\ AnswerIsMine

(* A reply to the request of this lookup, of the configured server.        *)
Mine(bytes) ==
  \E shape \in Shapes : bytes = DnsReply(iDNSServer, BuildRequest(iRequestId, name), shape)

-----------------------------------------------------------------------------
(* DnsClient: where names end.                                             *)

(* What AfterNames gives for a place follows from what is there.           *)
EndsOf(b, pointers, after) ==
  \A k \in 1 .. Len(b) :
    after[k] = IF b[k] = 0 THEN k + 1
               ELSE IF pointers /\ b[k] >= 64 THEN k + 2
               ELSE IF k + 1 + b[k] \in 1 .. Len(b) THEN after[k + 1 + b[k]] ELSE Len(b) + 1

(* The part of a reply's places from k on: it has the ends of its names.   *)
EndsFrom(b, pointers, m, after) ==
  after = [k \in m .. Len(b) |->
             IF b[k] = 0 THEN k + 1
             ELSE IF pointers /\ b[k] >= 64 THEN k + 2
             ELSE IF k + 1 + b[k] \in 1 .. Len(b) THEN after[k + 1 + b[k]] ELSE Len(b) + 1]

LEMMA EndsExist ==
  ASSUME NEW b \in Seq(Nat), NEW pointers \in BOOLEAN
  PROVE  \A n \in Nat : n <= Len(b) => \E after : EndsFrom(b, pointers, Len(b) + 1 - n, after)
<1> DEFINE S == {n \in Nat : n <= Len(b) => \E after : EndsFrom(b, pointers, Len(b) + 1 - n, after)}
<1>1. 0 \in S
  <2>1. EndsFrom(b, pointers, Len(b) + 1, [k \in Len(b) + 1 .. Len(b) |-> 0])
    BY DEF EndsFrom
  <2>2. QED
    BY <2>1
<1>2. ASSUME NEW n \in Nat, n \in S PROVE n + 1 \in S
  <2> SUFFICES ASSUME n + 1 <= Len(b)
               PROVE  \E after : EndsFrom(b, pointers, Len(b) - n, after)
    <3>1. Len(b) + 1 - (n + 1) = Len(b) - n
      OBVIOUS
    <3>2. QED
      BY <3>1
  <2>1. PICK old : EndsFrom(b, pointers, Len(b) + 1 - n, old)
    BY <1>2
  <2> DEFINE m == Len(b) - n
             Value(f, k) == IF b[k] = 0 THEN k + 1
                            ELSE IF pointers /\ b[k] >= 64 THEN k + 2
                            ELSE IF k + 1 + b[k] \in 1 .. Len(b) THEN f[k + 1 + b[k]] ELSE Len(b) + 1
             new == [k \in m .. Len(b) |-> IF k = m THEN Value(old, m) ELSE old[k]]
  <2>2. m \in 1 .. Len(b) /\ m + 1 = Len(b) + 1 - n
    OBVIOUS
  <2>3. \A k \in m + 1 .. Len(b) : old[k] = Value(old, k)
    BY <2>1, <2>2 DEF EndsFrom
  <2>4. ASSUME NEW k \in m .. Len(b) PROVE Value(new, k) = Value(old, k)
    <3>1. b[k] \in Nat /\ k \in Nat
      BY <2>2
    <3>2. CASE b[k] # 0 /\ k + 1 + b[k] \in 1 .. Len(b)
      <4>1. k + 1 + b[k] \in m .. Len(b) /\ k + 1 + b[k] # m
        <5> HIDE DEF new, Value, m
        <5>1. QED
          BY <2>2, <3>1, <3>2, SMTT(30)
      <4>2. new[k + 1 + b[k]] = old[k + 1 + b[k]]
        BY <4>1
      <4> HIDE DEF new
      <4>3. QED
        BY <4>2
    <3>3. CASE ~(b[k] # 0 /\ k + 1 + b[k] \in 1 .. Len(b))
      <4> HIDE DEF new
      <4>1. QED
        BY <3>3
    <3>4. QED
      BY <3>2, <3>3
  <2>5. ASSUME NEW k \in m .. Len(b) PROVE new[k] = Value(new, k)
    <3>1. CASE k = m
      <4>1. new[k] = Value(old, k)
        BY <3>1
      <4> HIDE DEF new, m
      <4>2. QED
        BY <2>4, <4>1
    <3>2. CASE k # m
      <4>1. k \in m + 1 .. Len(b)
        BY <2>2, <3>2
      <4>2. old[k] = Value(old, k)
        BY <2>3, <4>1
      <4>3. new[k] = old[k]
        BY <3>2
      <4> HIDE DEF new, m
      <4>4. QED
        BY <2>4, <4>2, <4>3
    <3>3. QED
      BY <3>1, <3>2
  <2>6. new = [k \in m .. Len(b) |-> new[k]]
    OBVIOUS
  <2> HIDE DEF new
  <2>7. new = [k \in m .. Len(b) |-> Value(new, k)]
    BY <2>5, <2>6
  <2>8. EndsFrom(b, pointers, m, new)
    BY <2>7 DEF EndsFrom
  <2>9. QED
    BY <2>8
<1> HIDE DEF S
<1>3. Nat \subseteq S
  BY <1>1, <1>2, Counting
<1>4. QED
  BY <1>3 DEF S

LEMMA NamesEnd ==
  ASSUME NEW b \in Seq(Nat), NEW pointers \in BOOLEAN
  PROVE  EndsOf(b, pointers, AfterNames(b, pointers))
<1>1. DOMAIN b = 1 .. Len(b) /\ Len(b) \in Nat
  OBVIOUS
<1>2. PICK f : EndsFrom(b, pointers, 1, f)
  <2>1. \E f : EndsFrom(b, pointers, Len(b) + 1 - Len(b), f)
    BY <1>1, EndsExist
  <2>2. Len(b) + 1 - Len(b) = 1
    BY <1>1
  <2>3. QED
    BY <2>1, <2>2
<1> DEFINE after == AfterNames(b, pointers)
<1>3. after = CHOOSE g : g = [k \in DOMAIN b |->
                 IF b[k] = 0 THEN k + 1
                 ELSE IF pointers /\ b[k] >= 64 THEN k + 2
                 ELSE IF k + 1 + b[k] \in DOMAIN b THEN g[k + 1 + b[k]] ELSE Len(b) + 1]
  BY Zenon DEF AfterNames
<1>4. f = [k \in DOMAIN b |->
                 IF b[k] = 0 THEN k + 1
                 ELSE IF pointers /\ b[k] >= 64 THEN k + 2
                 ELSE IF k + 1 + b[k] \in DOMAIN b THEN f[k + 1 + b[k]] ELSE Len(b) + 1]
  BY <1>1, <1>2, Zenon DEF EndsFrom
<1> HIDE DEF after
<1>5. after = [k \in DOMAIN b |->
                 IF b[k] = 0 THEN k + 1
                 ELSE IF pointers /\ b[k] >= 64 THEN k + 2
                 ELSE IF k + 1 + b[k] \in DOMAIN b THEN after[k + 1 + b[k]] ELSE Len(b) + 1]
  BY <1>3, <1>4, Zenon
<1>6. EndsOf(b, pointers, after)
  BY <1>1, <1>5 DEF EndsOf
<1>7. QED
  BY <1>6 DEF after

(* Places that follow each other.                                          *)
Chain(first, next, n, place) ==
  place = [i \in 0 .. n |-> IF i = 0 THEN first ELSE next[place[i - 1]]]

LEMMA PlacesExist ==
  ASSUME NEW first, NEW next
  PROVE  \A n \in Nat : \E f : Chain(first, next, n, f)
<1> DEFINE S == {n \in Nat : \E f : Chain(first, next, n, f)}
<1>1. 0 \in S
  <2> DEFINE f == [i \in 0 .. 0 |-> first]
  <2>1. f = [i \in 0 .. 0 |-> IF i = 0 THEN first ELSE next[f[i - 1]]]
    OBVIOUS
  <2> HIDE DEF f
  <2>2. Chain(first, next, 0, f)
    BY <2>1 DEF Chain
  <2>3. QED
    BY <2>2
<1>2. ASSUME NEW n \in Nat, n \in S PROVE n + 1 \in S
  <2>1. PICK f : Chain(first, next, n, f)
    BY <1>2
  <2> DEFINE g == [i \in 0 .. n + 1 |-> IF i = n + 1 THEN next[f[n]] ELSE f[i]]
  <2>2. \A i \in 0 .. n : f[i] = IF i = 0 THEN first ELSE next[f[i - 1]]
    BY <2>1 DEF Chain
  <2>3. ASSUME NEW i \in 0 .. n + 1 PROVE g[i] = IF i = 0 THEN first ELSE next[g[i - 1]]
    <3>1. CASE i = n + 1
      BY <3>1
    <3>2. CASE i # n + 1
      BY <2>2, <3>2
    <3>3. QED
      BY <3>1, <3>2
  <2>4. g = [i \in 0 .. n + 1 |-> g[i]]
    OBVIOUS
  <2> HIDE DEF g
  <2>5. Chain(first, next, n + 1, g)
    BY <2>3, <2>4 DEF Chain
  <2>6. QED
    BY <2>5
<1> HIDE DEF S
<1>3. Nat \subseteq S
  BY <1>1, <1>2, Counting
<1>4. QED
  BY <1>3 DEF S

LEMMA PlacesAre ==
  \A first, next : \A n \in Nat : Chain(first, next, n, Places(first, next, n))
<1> SUFFICES ASSUME NEW first, NEW next, NEW n \in Nat
             PROVE  Chain(first, next, n, Places(first, next, n))
  OBVIOUS
<1>1. PICK f : Chain(first, next, n, f)
  BY PlacesExist
<1>2. Places(first, next, n) = CHOOSE g : Chain(first, next, n, g)
  BY Zenon DEF Places, Chain
<1>3. QED
  BY <1>1, <1>2, Zenon

-----------------------------------------------------------------------------
(* DnsClient: the bytes of a name and how they are skipped.                *)

(* A name is the bytes of its labels and a zero.                           *)
LEMMA NameIs ==
  ASSUME NEW host, IsName(host)
  PROVE  /\ FirstBytes(host, Len(host)) \in Seq(Nat)
         /\ NameBytes(host) = FirstBytes(host, Len(host)) \o <<0>>
         /\ NameBytes(host) \in Seq(Nat)
<1>1. host \in Seq(Seq(Nat)) /\ DOMAIN host = 1 .. Len(host) /\ Len(host) \in Nat
  BY DEF IsName
<1> DEFINE f == FirstBytes(host, Len(host))
<1>2. NameBytes(host) = f \o <<0>>
  <2>1. [i \in 1 .. Len(host) |-> LabelBytes(host)[i]] = LabelBytes(host)
    BY <1>1 DEF LabelBytes
  <2>2. f = FlattenSeq(LabelBytes(host))
    BY <2>1, Zenon DEF FirstBytes
  <2>3. NameBytes(host) = FlattenSeq(LabelBytes(host)) \o <<0>>
    BY Zenon DEF NameBytes, LabelBytes
  <2>4. QED
    BY <2>2, <2>3, Zenon
<1>3. f \in Seq(Nat)
  <2>1. CASE Len(host) = 0
    <3>1. f = <<>>
      BY <2>1, NoBytes
    <3>2. QED
      BY <3>1
  <2>2. CASE Len(host) # 0
    <3>1. PICK m \in Nat : Len(host) = m + 1
      <4>1. Len(host) - 1 \in Nat /\ Len(host) = (Len(host) - 1) + 1
        BY <1>1, <2>2
      <4>2. QED
        BY <4>1
    <3>2. /\ FirstBytes(host, m) \in Seq(Nat)
          /\ FirstBytes(host, m + 1) = FirstBytes(host, m) \o LabelBytes(host)[m + 1]
      BY <3>1, MoreBytes
    <3>3. LabelBytes(host)[m + 1] \in Seq(Nat)
      <4>1. m + 1 \in 1 .. Len(host)
        BY <3>1
      <4>2. QED
        BY <4>1, OneLabel
    <3>4. QED
      BY <3>1, <3>2, <3>3, ConcatProperties
  <2>3. QED
    BY <2>1, <2>2
<1> HIDE DEF f
<1>4. f \o <<0>> \in Seq(Nat)
  BY <1>3, ConcatProperties
<1>5. QED
  BY <1>2, <1>3, <1>4 DEF f

LEMMA Joined ==
  ASSUME NEW f \in Seq(Nat), NEW l \in Seq(Nat)
  PROVE  /\ Len(f) \in Nat /\ Len(l) \in Nat /\ f \o l \in Seq(Nat)
         /\ Len(f \o l) = Len(f) + Len(l)
         /\ \A k \in 1 .. Len(f) + Len(l) :
              (f \o l)[k] = IF k <= Len(f) THEN f[k] ELSE l[k - Len(f)]
BY ConcatProperties

(* g is f and then l.                                                      *)
Joint(f, l, g) ==
  /\ g \in Seq(Nat) /\ Len(f) \in Nat /\ Len(l) \in Nat /\ Len(g) = Len(f) + Len(l)
  /\ \A k \in 1 .. Len(f) : g[k] = f[k]
  /\ \A k \in 1 .. Len(l) : g[Len(f) + k] = l[k]

LEMMA Joins ==
  \A f \in Seq(Nat) : \A l \in Seq(Nat) : Joint(f, l, f \o l)
<1> SUFFICES ASSUME NEW f \in Seq(Nat), NEW l \in Seq(Nat) PROVE Joint(f, l, f \o l)
  OBVIOUS
<1> DEFINE g == f \o l
           m == Len(f)
           n == Len(l)
<1>1. m \in Nat /\ n \in Nat /\ g \in Seq(Nat) /\ Len(g) = m + n
  BY Joined
<1>2. \A k \in 1 .. m + n : g[k] = IF k <= m THEN f[k] ELSE l[k - m]
  BY Joined
<1> HIDE DEF g, m, n
<1>3. ASSUME NEW k \in 1 .. n PROVE g[m + k] = l[k]
  <2>1. m + k \in 1 .. m + n /\ ~(m + k <= m) /\ (m + k) - m = k
    BY <1>1
  <2> QED
    BY <1>2, <2>1
<1>4. ASSUME NEW k \in 1 .. m PROVE g[k] = f[k]
  <2>1. k \in 1 .. m + n /\ k <= m
    BY <1>1
  <2> QED
    BY <1>2, <2>1
<1>5. QED
  BY <1>1, <1>3, <1>4 DEF Joint, g, m, n

(* The bytes f are in b, behind the first o and before at least one more.  *)
Within(b, o, f) == o + Len(f) + 1 <= Len(b) /\ \A k \in 1 .. Len(f) : b[o + k] = f[k]

QuestionEnds(b, after) == EndsOf(b, FALSE, after)

LEMMA WithinPart ==
  ASSUME NEW b \in Seq(Nat), NEW o \in Nat, NEW f, NEW g, Len(f) \in Nat, Len(g) \in Nat,
         Len(f) <= Len(g), \A k \in 1 .. Len(f) : g[k] = f[k],
         o + Len(g) <= Len(b), \A k \in 1 .. Len(g) : b[o + k] = g[k], Len(f) # Len(g)
  PROVE  Within(b, o, f)
<1> DEFINE n == Len(b)
           x == Len(f)
           y == Len(g)
<1>1. n \in Nat /\ x \in Nat /\ y \in Nat /\ x <= y /\ x # y /\ o + y <= n
  OBVIOUS
<1>2. \A k \in 1 .. x : b[o + k] = f[k]
  OBVIOUS
<1> HIDE DEF n, x, y
<1>3. o + x + 1 <= n
  BY <1>1
<1>4. QED
  BY <1>2, <1>3 DEF Within, n, x

(* Reading on from the first length of a name comes to that behind the     *)
(* first m labels.                                                         *)
LEMMA LabelsSkipped ==
  ASSUME NEW b \in Seq(Nat), NEW after, QuestionEnds(b, after), NEW o \in Nat,
         NEW host, IsName(host)
  PROVE  \A m \in Nat : m <= Len(host) /\ Within(b, o, FirstBytes(host, m))
                         => after[o + 1] = after[o + Len(FirstBytes(host, m)) + 1]
<1> DEFINE P(m) == m <= Len(host) /\ Within(b, o, FirstBytes(host, m))
                   => after[o + 1] = after[o + Len(FirstBytes(host, m)) + 1]
           S == {m \in Nat : P(m)}
<1>0. Len(host) \in Nat
  BY DEF IsName
<1>1. 0 \in S
  <2>1. Len(FirstBytes(host, 0)) = 0
    BY NoBytes
  <2>2. QED
    BY <2>1
<1>2. ASSUME NEW m \in Nat, m \in S PROVE m + 1 \in S
  <2> DEFINE f == FirstBytes(host, m)
             l == LabelBytes(host)[m + 1]
             g == FirstBytes(host, m + 1)
             w == Len(host[m + 1])
  <2> SUFFICES ASSUME m + 1 <= Len(host), Within(b, o, g)
               PROVE  after[o + 1] = after[o + Len(g) + 1]
    OBVIOUS
  <2>1. f \in Seq(Nat) /\ g = f \o l
    BY MoreBytes
  <2>2. l \in Seq(Nat) /\ Len(l) = 1 + w /\ l[1] = w /\ w \in 1 .. 255
    <3>1. m + 1 \in 1 .. Len(host)
      BY <1>0
    <3>2. QED
      BY <3>1, OneLabel
  <2>3. m \in Nat /\ m <= Len(host) /\ P(m)
    BY <1>0, <1>2
  <2> HIDE DEF l, w
  <2>4. /\ Len(f) \in Nat /\ Len(g) = Len(f) + 1 + w /\ g[Len(f) + 1] = w
        /\ \A k \in 1 .. Len(f) : g[k] = f[k]
    <3> HIDE DEF f, g, P
    <3>1. Len(f) \in Nat /\ Len(f \o l) = Len(f) + Len(l)
      BY <2>1, <2>2, Joined
    <3>2. \A k \in 1 .. Len(f) + Len(l) : g[k] = IF k <= Len(f) THEN f[k] ELSE l[k - Len(f)]
      BY <2>1, <2>2, Joined
    <3>3. g[Len(f) + 1] = l[(Len(f) + 1) - Len(f)]
      <4>1. Len(f) + 1 \in 1 .. Len(f) + Len(l) /\ ~(Len(f) + 1 <= Len(f))
        BY <2>2, <3>1
      <4>2. QED
        BY <3>2, <4>1
    <3>4. (Len(f) + 1) - Len(f) = 1
      BY <3>1
    <3>5. QED
      BY <2>1, <2>2, <3>1, <3>2, <3>3, <3>4
  <2>5. after[o + 1] = after[o + Len(f) + 1]
    <3>1. Within(b, o, f)
      <4>1. Within(b, o, g)
        OBVIOUS
      <4> HIDE DEF f, g, P
      <4>2. Len(g) \in Nat /\ Len(f) <= Len(g) /\ Len(f) # Len(g)
        BY <2>2, <2>4
      <4>3. o + Len(g) <= Len(b) /\ \A k \in 1 .. Len(g) : b[o + k] = g[k]
        BY <4>1, <4>2 DEF Within
      <4>4. QED
        BY <2>4, <4>2, <4>3, WithinPart
    <3>2. QED
      BY <2>3, <3>1
  <2> HIDE DEF f, g, P
  <2>6. b[o + (Len(f) + 1)] = w
    <3>1. Len(f) \in Nat /\ Len(f) + 1 \in 1 .. Len(g)
      BY <2>2, <2>4
    <3>2. \A i \in 1 .. Len(g) : b[o + i] = g[i]
      BY DEF Within
    <3>3. QED
      BY <2>4, <3>1, <3>2
  <2> DEFINE k == o + Len(f) + 1
  <2>7. k \in 1 .. Len(b) /\ b[k] = w /\ k + 1 + w = o + Len(g) + 1 /\ k + 1 + w \in 1 .. Len(b)
    <3> DEFINE x == Len(f)
               y == Len(g)
               n == Len(b)
    <3>1. n \in Nat /\ x \in Nat /\ y = x + 1 + w /\ w \in 1 .. 255
      BY <2>2, <2>4
    <3>2. o + y + 1 <= n
      BY DEF Within
    <3>3. b[o + (x + 1)] = w
      BY <2>6
    <3> HIDE DEF x, y, n
    <3>4. /\ o + x + 1 \in 1 .. n /\ o + x + 1 = o + (x + 1)
          /\ (o + x + 1) + 1 + w = o + y + 1 /\ (o + x + 1) + 1 + w \in 1 .. n
      BY <3>1, <3>2
    <3>5. QED
      BY <3>3, <3>4 DEF x, y, n
  <2> HIDE DEF k
  <2>8. after[k] = after[k + 1 + w]
    <3>1. \A i \in 1 .. Len(b) : b[i] # 0 /\ i + 1 + b[i] \in 1 .. Len(b) => after[i] = after[i + 1 + b[i]]
      BY DEF QuestionEnds, EndsOf
    <3>2. w # 0
      BY <2>2
    <3>3. QED
      BY <2>7, <3>1, <3>2
  <2>9. QED
    BY <2>5, <2>7, <2>8 DEF k
<1> HIDE DEF S
<1>3. Nat \subseteq S
  BY <1>1, <1>2, Counting
<1>4. QED
  BY <1>3 DEF S

(* A name is skipped whole.                                                *)
BytesAt(b, o, f) == o + Len(f) <= Len(b) /\ \A k \in 1 .. Len(f) : b[o + k] = f[k]

LEMMA NameSkipped ==
  \A b \in Seq(Nat) : \A o \in Nat : \A after, host :
    QuestionEnds(b, after) /\ IsName(host) /\ BytesAt(b, o, NameBytes(host))
    => after[o + 1] = o + Len(NameBytes(host)) + 1
<1> SUFFICES ASSUME NEW b \in Seq(Nat), NEW o \in Nat, NEW after, NEW host,
                    QuestionEnds(b, after), IsName(host), BytesAt(b, o, NameBytes(host))
             PROVE  after[o + 1] = o + Len(NameBytes(host)) + 1
  OBVIOUS
<1> DEFINE n == Len(host)
           f == FirstBytes(host, n)
           t == NameBytes(host)
<1>1. n \in Nat /\ f \in Seq(Nat) /\ t = f \o <<0>>
  <2>1. n \in Nat
    <3>1. host \in Seq(Seq(Nat))
      BY Zenon DEF IsName
    <3>2. QED
      BY <3>1, SMTT(30)
  <2>2. f \in Seq(Nat) /\ t = f \o <<0>>
    BY NameIs, Zenon
  <2>3. QED
    BY <2>1, <2>2, Zenon
<1>2. Len(f) \in Nat /\ Len(t) = Len(f) + 1 /\ t[Len(f) + 1] = 0 /\ \A k \in 1 .. Len(f) : t[k] = f[k]
  <2> HIDE DEF t, f, n
  <2>1. QED
    BY <1>1, ConcatProperties
<1>3. Within(b, o, f) /\ b[o + (Len(f) + 1)] = 0
  <2>1. o + Len(t) <= Len(b) /\ \A k \in 1 .. Len(t) : b[o + k] = t[k]
    BY DEF BytesAt
  <2> HIDE DEF t, f, n
  <2>2. Len(t) \in Nat /\ Len(f) <= Len(t) /\ Len(f) # Len(t)
    BY <1>2
  <2>3. Within(b, o, f)
    BY <1>2, <2>1, <2>2, WithinPart
  <2>4. Len(f) + 1 \in 1 .. Len(t)
    BY <1>2
  <2>5. QED
    BY <1>2, <2>1, <2>3, <2>4
<1>4. after[o + 1] = after[o + Len(f) + 1]
  <2>1. n <= Len(host)
    BY <1>1
  <2>2. \A m \in Nat : m <= Len(host) /\ Within(b, o, FirstBytes(host, m))
                       => after[o + 1] = after[o + Len(FirstBytes(host, m)) + 1]
    BY LabelsSkipped
  <2>3. n \in Nat /\ n <= Len(host) /\ Within(b, o, FirstBytes(host, n))
    BY <1>1, <1>3, <2>1
  <2> HIDE DEF n, t
  <2>4. QED
    BY <2>2, <2>3
<1> HIDE DEF n, f, t
<1> DEFINE k == o + Len(f) + 1
<1>6. k \in 1 .. Len(b) /\ b[k] = 0 /\ k + 1 = o + Len(t) + 1
  BY <1>2, <1>3 DEF Within
<1> HIDE DEF k
<1>7. after[k] = k + 1
  BY <1>6 DEF QuestionEnds, EndsOf
<1>8. QED
  BY <1>4, <1>6, <1>7 DEF k, t

-----------------------------------------------------------------------------
(* DnsClient: a reply byte by byte.                                        *)

(* What a server repeats of a request, ...                                 *)
Question(host) == NameBytes(host) \o TYPE_A \o CLASS_IN

(* ... and the bytes b of a reply with these answers.                      *)
Laid(b, question, count, answers) ==
  /\ b \in Seq(Nat) /\ Len(b) = 12 + Len(question) + Len(answers)
  /\ b[5] = 0 /\ b[6] = 1 /\ b[7] = 0 /\ b[8] = count
  /\ \A k \in 1 .. Len(question) : b[12 + k] = question[k]
  /\ \A k \in 1 .. Len(answers) : b[12 + Len(question) + k] = answers[k]

(* In the bytes b there is behind the first n a record of this data, with  *)
(* the type in the second of two bytes.                                    *)
RecordAt(b, n, type, data) ==
  /\ b[n + 2] = type /\ b[n + 9] = 0 /\ b[n + 10] = Len(data)
  /\ \A k \in 1 .. Len(data) : b[n + 10 + k] = data[k]

LEMMA QuestionIs ==
  ASSUME NEW host, IsName(host)
  PROVE  /\ NameBytes(host) \in Seq(Nat) /\ Question(host) \in Seq(Nat)
         /\ Len(Question(host)) = Len(NameBytes(host)) + 4
         /\ \A k \in 1 .. Len(NameBytes(host)) : Question(host)[k] = NameBytes(host)[k]
<1> DEFINE n == NameBytes(host)
           u == n \o TYPE_A
           q == u \o CLASS_IN
<1>1. n \in Seq(Nat)
  BY NameIs
<1>2. TYPE_A \in Seq(Nat) /\ CLASS_IN \in Seq(Nat) /\ Len(TYPE_A) = 2 /\ Len(CLASS_IN) = 2
  BY DEF TYPE_A, CLASS_IN
<1>3. q = Question(host)
  BY Zenon DEF Question
<1>4. u = n \o TYPE_A /\ q = u \o CLASS_IN
  BY Zenon
<1> HIDE DEF n, u, q
<1>5. Joint(n, TYPE_A, u)
  BY <1>1, <1>2, <1>4, Joins
<1>6. Joint(u, CLASS_IN, q)
  BY <1>2, <1>4, <1>5, Joins DEF Joint
<1>7. q \in Seq(Nat) /\ Len(q) = Len(n) + 4 /\ \A k \in 1 .. Len(n) : q[k] = n[k]
  BY <1>2, <1>5, <1>6 DEF Joint
<1>8. QED
  BY <1>1, <1>3, <1>7 DEF n

(* The server finds this question in the request.                          *)
LEMMA QuestionAsked ==
  ASSUME NEW id \in Nat, NEW host, IsName(host)
  PROVE  /\ BuildRequest(id, host) \in Seq(Nat) /\ 12 <= Len(BuildRequest(id, host))
         /\ BuildRequest(id, host)[1] = id \div 256 /\ BuildRequest(id, host)[2] = id % 256
         /\ SubSeq(BuildRequest(id, host), DNS_HEADER_SIZE + 1, Len(BuildRequest(id, host)))
              = Question(host)
<1> DEFINE head == <<id \div 256, id % 256, 1, 0, 0, 1, 0, 0, 0, 0, 0, 0>>
           n == NameBytes(host)
           q == Question(host)
           b == BuildRequest(id, host)
<1>1. n \in Seq(Nat) /\ q \in Seq(Nat)
  BY QuestionIs
<1>2. head \in Seq(Nat) /\ Len(head) = 12 /\ head[1] = id \div 256 /\ head[2] = id % 256
  OBVIOUS
<1>3. b = head \o q
  <2>1. TYPE_A \in Seq(Nat) /\ CLASS_IN \in Seq(Nat)
    BY DEF TYPE_A, CLASS_IN
  <2>2. b = ((head \o n) \o TYPE_A) \o CLASS_IN /\ q = (n \o TYPE_A) \o CLASS_IN
    BY Zenon DEF BuildRequest, Question
  <2> HIDE DEF head, n, q, b
  <2>a. head \in Seq(Nat) /\ n \in Seq(Nat)
    BY <1>1, <1>2
  <2>3. (head \o n) \o TYPE_A = head \o (n \o TYPE_A)
    BY <2>a, <2>1, Regroup
  <2>4. n \o TYPE_A \in Seq(Nat)
    BY <1>1, <2>1, Joins DEF Joint
  <2>5. (head \o (n \o TYPE_A)) \o CLASS_IN = head \o ((n \o TYPE_A) \o CLASS_IN)
    BY <2>a, <2>1, <2>4, Regroup
  <2>6. QED
    BY <2>2, <2>3, <2>5, Zenon
<1> HIDE DEF head, n, q, b
<1>4. /\ b \in Seq(Nat) /\ Len(b) = 12 + Len(q) /\ Len(q) \in Nat
      /\ \A k \in 1 .. 12 : b[k] = head[k]
      /\ \A k \in 1 .. Len(q) : b[12 + k] = q[k]
  <2>1. Joint(head, q, b)
    BY <1>1, <1>2, <1>3, Joins
  <2>2. QED
    BY <1>2, <2>1 DEF Joint
<1>6. b[1] = id \div 256 /\ b[2] = id % 256
  <2>1. 1 \in 1 .. 12 /\ 2 \in 1 .. 12
    OBVIOUS
  <2>2. QED
    BY <1>2, <1>4, <2>1
<1>7. SubSeq(b, 13, Len(b)) = q
  <2>1. 12 \in 0 .. Len(b) /\ Len(b) \in 12 .. Len(b) /\ Len(b) - 12 = Len(q)
    BY <1>4
  <2>2. SubSeq(b, 12 + 1, Len(b)) = [k \in 1 .. Len(b) - 12 |-> b[12 + k]]
    BY <1>4, <2>1, PieceIs
  <2>4. q = [k \in 1 .. Len(q) |-> q[k]]
    BY <1>1
  <2>5. SubSeq(b, 12 + 1, Len(b)) = [k \in 1 .. Len(q) |-> b[12 + k]]
    BY <2>1, <2>2
  <2>6. [k \in 1 .. Len(q) |-> b[12 + k]] = [k \in 1 .. Len(q) |-> q[k]]
    BY <1>4
  <2>7. SubSeq(b, 12 + 1, Len(b)) = q
    BY <2>4, <2>5, <2>6
  <2>8. 12 + 1 = 13
    OBVIOUS
  <2>9. QED
    BY <2>7, <2>8
<1>8. DNS_HEADER_SIZE + 1 = 13
  BY DEF DNS_HEADER_SIZE
<1>9. SubSeq(b, DNS_HEADER_SIZE + 1, Len(b)) = q
  BY <1>7, <1>8
<1>10. b \in Seq(Nat) /\ 12 <= Len(b)
  BY <1>4
<1>11. QED
  BY <1>6, <1>9, <1>10, Zenon DEF b, q

IsRecord(owner, type, data, b) ==
  /\ b \in Seq(Nat) /\ Len(b) = Len(owner) + 10 + Len(data)
  /\ \A k \in 1 .. Len(owner) : b[k] = owner[k]
  /\ RecordAt(b, Len(owner), type, data)

LEMMA RecordIs ==
  \A owner \in Seq(Nat) : \A x \in Nat : \A y \in Nat : \A data \in Seq(Nat) :
    IsRecord(owner, y, data, Record(owner, <<x, y>>, data))
<1> SUFFICES ASSUME NEW owner \in Seq(Nat), NEW x \in Nat, NEW y \in Nat, NEW data \in Seq(Nat)
             PROVE  IsRecord(owner, y, data, Record(owner, <<x, y>>, data))
  OBVIOUS
<1> DEFINE m == Len(owner)
           d == Len(data)
           type == <<x, y>>
           f == <<0, 0, 0, 60, 0, d>>
           t == owner \o type
           u == t \o CLASS_IN
           v == u \o f
           w == v \o data
<1>1. w = Record(owner, <<x, y>>, data)
  BY Zenon DEF Record
<1>2. m \in Nat /\ d \in Nat
  OBVIOUS
<1>3. type \in Seq(Nat) /\ Len(type) = 2 /\ type[2] = y /\ CLASS_IN \in Seq(Nat) /\ Len(CLASS_IN) = 2
  BY DEF CLASS_IN
<1>4. f \in Seq(Nat) /\ Len(f) = 6 /\ f[5] = 0 /\ f[6] = d
  <2> HIDE DEF d
  <2>1. QED
    BY <1>2
<1> HIDE DEF type, f
<1>5. Joint(owner, type, t)
  BY <1>3, Joins
<1> HIDE DEF t
<1>6. Joint(t, CLASS_IN, u)
  BY <1>3, <1>5, Joins DEF Joint
<1> HIDE DEF u
<1>7. Joint(u, f, v)
  BY <1>4, <1>6, Joins DEF Joint
<1> HIDE DEF v
<1>8. Joint(v, data, w)
  BY <1>7, Joins DEF Joint
<1> HIDE DEF w
<1>9. /\ Len(t) = m + 2 /\ Len(u) = m + 4 /\ Len(v) = m + 10 /\ Len(w) = m + 10 + d
      /\ w \in Seq(Nat)
  <2>1. Len(t) = m + 2
    BY <1>3, <1>5 DEF Joint
  <2>2. Len(u) = m + 4
    BY <1>3, <1>6, <2>1 DEF Joint
  <2>3. Len(v) = m + 10
    BY <1>4, <1>7, <2>2 DEF Joint
  <2>4. QED
    BY <1>8, <2>1, <2>2, <2>3 DEF Joint
<1>10. \A k \in 1 .. m : w[k] = owner[k]
  <2> SUFFICES ASSUME NEW k \in 1 .. m PROVE w[k] = owner[k]
    OBVIOUS
  <2> HIDE DEF m
  <2>1. k \in 1 .. m + 2 /\ k \in 1 .. m + 4 /\ k \in 1 .. m + 10
    BY <1>2
  <2>2. t[k] = owner[k]
    BY <1>5 DEF Joint, m
  <2>3. u[k] = t[k]
    BY <1>6, <1>9, <2>1 DEF Joint
  <2>4. v[k] = u[k]
    BY <1>7, <1>9, <2>1 DEF Joint
  <2>5. w[k] = v[k]
    BY <1>8, <1>9, <2>1 DEF Joint
  <2>6. QED
    BY <2>2, <2>3, <2>4, <2>5
<1>11. w[m + 2] = y
  <2>1. t[m + 2] = type[2]
    BY <1>3, <1>5 DEF Joint
  <2> HIDE DEF m
  <2>2. m + 2 \in 1 .. m + 2 /\ m + 2 \in 1 .. m + 4 /\ m + 2 \in 1 .. m + 10
    BY <1>2
  <2>3. u[m + 2] = t[m + 2]
    BY <1>6, <1>9, <2>2 DEF Joint
  <2>4. v[m + 2] = u[m + 2]
    BY <1>7, <1>9, <2>2 DEF Joint
  <2>5. w[m + 2] = v[m + 2]
    BY <1>8, <1>9, <2>2 DEF Joint
  <2>6. QED
    BY <1>3, <2>1, <2>3, <2>4, <2>5
<1>12. w[m + 9] = 0 /\ w[m + 10] = d
  <2> HIDE DEF m, d
  <2>1. v[(m + 4) + 5] = f[5] /\ v[(m + 4) + 6] = f[6]
    <3>1. 5 \in 1 .. 6 /\ 6 \in 1 .. 6
      OBVIOUS
    <3>2. QED
      BY <1>4, <1>7, <1>9, <3>1 DEF Joint
  <2>2. m + 9 \in 1 .. m + 10 /\ m + 10 \in 1 .. m + 10 /\ m + 9 = (m + 4) + 5 /\ m + 10 = (m + 4) + 6
    BY <1>2
  <2>3. w[m + 9] = v[m + 9] /\ w[m + 10] = v[m + 10]
    BY <1>8, <1>9, <2>2 DEF Joint
  <2>4. QED
    BY <1>4, <2>1, <2>2, <2>3
<1>13. \A k \in 1 .. d : w[m + 10 + k] = data[k]
  BY <1>8, <1>9 DEF Joint
<1>14. RecordAt(w, m, y, data)
  BY <1>11, <1>12, <1>13 DEF RecordAt
<1>15. IsRecord(owner, y, data, w)
  BY <1>9, <1>10, <1>14 DEF m, d, IsRecord
<1>16. QED
  BY <1>1, <1>15, Zenon

(* The two answers of a reply with an alias: the places of the first, of   *)
(* the second, and of their fixed parts.                                   *)
AliasAnswers(address) == Record(Pointer, <<0, 5>>, Alias) \o Record(Alias, TYPE_A, address)

AnswersOfAlias(address, b) ==
  /\ b \in Seq(Nat) /\ Len(b) = 32 /\ b[1] = 192 /\ RecordAt(b, 2, 5, Alias)
  /\ b[16] = 1 /\ b[18] = 0 /\ RecordAt(b, 18, 1, address)

LEMMA AliasIs ==
  \A address \in Seq(Nat) : Len(address) = 4 => AnswersOfAlias(address, AliasAnswers(address))
<1> SUFFICES ASSUME NEW address \in Seq(Nat), Len(address) = 4
             PROVE  AnswersOfAlias(address, AliasAnswers(address))
  OBVIOUS
<1> DEFINE r == Record(Pointer, <<0, 5>>, Alias)
           s == Record(Alias, <<0, 1>>, address)
           w == AliasAnswers(address)
<1>1. /\ Pointer \in Seq(Nat) /\ Len(Pointer) = 2 /\ Pointer[1] = 192
      /\ Alias \in Seq(Nat) /\ Len(Alias) = 3 /\ Alias[1] = 1 /\ Alias[3] = 0
  BY DEF Pointer, Alias, DNS_HEADER_SIZE
<1>2. w = r \o s
  BY Zenon DEF AliasAnswers, TYPE_A
<1>a. IsRecord(Pointer, 5, Alias, r) /\ IsRecord(Alias, 1, address, s)
  BY <1>1, RecordIs
<1> HIDE DEF r, s, w
<1>3. /\ r \in Seq(Nat) /\ Len(r) = 15 /\ r[1] = 192 /\ RecordAt(r, 2, 5, Alias)
  BY <1>1, <1>a DEF IsRecord
<1>4. /\ s \in Seq(Nat) /\ Len(s) = 17 /\ s[1] = 1 /\ s[3] = 0 /\ RecordAt(s, 3, 1, address)
  BY <1>1, <1>a DEF IsRecord
<1>5. Joint(r, s, w)
  BY <1>2, <1>3, <1>4, Joins
<1>6. /\ w \in Seq(Nat) /\ Len(w) = 32
      /\ \A k \in 1 .. 15 : w[k] = r[k]
      /\ \A k \in 1 .. 17 : w[15 + k] = s[k]
  BY <1>3, <1>4, <1>5 DEF Joint
<1>7. RecordAt(w, 2, 5, Alias)
  <2>1. r[4] = 5 /\ r[11] = 0 /\ r[12] = 3 /\ \A k \in 1 .. 3 : r[12 + k] = Alias[k]
    BY <1>1, <1>3 DEF RecordAt
  <2>a. 4 \in 1 .. 15 /\ 11 \in 1 .. 15 /\ 12 \in 1 .. 15
    OBVIOUS
  <2>2. w[4] = 5 /\ w[11] = 0 /\ w[12] = 3
    BY <1>6, <2>1, <2>a
  <2>3. \A k \in 1 .. 3 : w[12 + k] = Alias[k]
    <3> SUFFICES ASSUME NEW k \in 1 .. 3 PROVE w[12 + k] = Alias[k]
      OBVIOUS
    <3>1. 12 + k \in 1 .. 15
      OBVIOUS
    <3>2. QED
      BY <1>6, <2>1, <3>1
  <2>4. QED
    BY <1>1, <2>2, <2>3 DEF RecordAt
<1>8. RecordAt(w, 18, 1, address)
  <2>1. s[5] = 1 /\ s[12] = 0 /\ s[13] = 4 /\ \A k \in 1 .. 4 : s[13 + k] = address[k]
    BY <1>4 DEF RecordAt
  <2>2. w[15 + 5] = 1 /\ w[15 + 12] = 0 /\ w[15 + 13] = 4
    BY <1>6, <2>1
  <2>3. \A k \in 1 .. 4 : w[28 + k] = address[k]
    <3> SUFFICES ASSUME NEW k \in 1 .. 4 PROVE w[28 + k] = address[k]
      OBVIOUS
    <3>1. 13 + k \in 1 .. 17 /\ 15 + (13 + k) = 28 + k
      OBVIOUS
    <3>2. QED
      BY <1>6, <2>1, <3>1
  <2>4. QED
    BY <2>2, <2>3 DEF RecordAt
<1>9. w[1] = 192 /\ w[15 + 1] = 1 /\ w[15 + 3] = 0
  BY <1>3, <1>4, <1>6
<1>10. QED
  BY <1>6, <1>7, <1>8, <1>9 DEF w, AnswersOfAlias

(* The answer of a reply without.                                          *)
AnswerOfAddress(address, b) ==
  b \in Seq(Nat) /\ Len(b) = 16 /\ b[1] = 192 /\ RecordAt(b, 2, 1, address)

LEMMA AddressIs ==
  \A address \in Seq(Nat) :
    Len(address) = 4 => AnswerOfAddress(address, Record(Pointer, TYPE_A, address))
<1> SUFFICES ASSUME NEW address \in Seq(Nat), Len(address) = 4
             PROVE  AnswerOfAddress(address, Record(Pointer, TYPE_A, address))
  OBVIOUS
<1> DEFINE r == Record(Pointer, <<0, 1>>, address)
<1>1. Pointer \in Seq(Nat) /\ Len(Pointer) = 2 /\ Pointer[1] = 192
  BY DEF Pointer, DNS_HEADER_SIZE
<1>2. IsRecord(Pointer, 1, address, r)
  BY <1>1, RecordIs
<1>3. r = Record(Pointer, TYPE_A, address)
  BY Zenon DEF TYPE_A
<1> HIDE DEF r
<1>4. AnswerOfAddress(address, r)
  BY <1>1, <1>2 DEF IsRecord, AnswerOfAddress
<1>5. QED
  BY <1>3, <1>4, Zenon

LEMMA FourBytes ==
  \A m \in Nat : \A n \in Nat : <<10, m, n, 1>> \in Seq(Nat) /\ Len(<<10, m, n, 1>>) = 4
OBVIOUS

ReplyIs(b, query, server, q) ==
  /\ b[1] = query[1] /\ b[2] = query[2]
  /\ \/ Laid(b, q, 1, Record(Pointer, TYPE_A, HostAddress(server, q)))
     \/ Laid(b, q, 2, AliasAnswers(HostAddress(server, q)))
     \/ Laid(b, q, 0, <<>>)

LEMMA ReplyLaid ==
  \A query \in Seq(Nat) : \A server \in Nat : \A shape \in Shapes :
    12 <= Len(query) => ReplyIs(DnsReply(server, query, shape), query, server,
                                SubSeq(query, DNS_HEADER_SIZE + 1, Len(query)))
<1> SUFFICES ASSUME NEW query \in Seq(Nat), NEW server \in Nat, NEW shape \in Shapes,
                    12 <= Len(query)
             PROVE  ReplyIs(DnsReply(server, query, shape), query, server,
                            SubSeq(query, DNS_HEADER_SIZE + 1, Len(query)))
  OBVIOUS
<1> DEFINE b == DnsReply(server, query, shape)
           q == SubSeq(query, DNS_HEADER_SIZE + 1, Len(query))
<1> DEFINE A(owner) == Record(owner, TYPE_A, HostAddress(server, q))
           count    == CASE shape = "alias" -> 2 [] shape = "address" -> 1 [] OTHER -> 0
           flags    == CASE shape = "error" -> <<129, 131>> [] shape = "cut" -> <<131, 128>>
                         [] OTHER -> <<129, 128>>
           counts == <<0, 1, 0, count, 0, 0, 0, 0>>
           begin == SubSeq(query, 1, 2)
           answers == CASE shape = "address" -> A(Pointer)
                   [] shape = "alias" -> Record(Pointer, <<0, 5>>, Alias) \o A(Alias)
                   [] OTHER -> <<>>
           t == begin \o flags
           u == t \o counts
           v == u \o q
           w == v \o answers
<1>1. b = w
  BY Zenon DEF DnsReply
<1>q. q \in Seq(Nat)
  BY DEF DNS_HEADER_SIZE
<1>r. ReplyIs(DnsReply(server, query, shape), query, server,
              SubSeq(query, DNS_HEADER_SIZE + 1, Len(query))) = ReplyIs(b, query, server, q)
  BY Zenon
<1> HIDE DEF b, q
<1>2. begin \in Seq(Nat) /\ Len(begin) = 2 /\ begin[1] = query[1] /\ begin[2] = query[2]
  OBVIOUS
<1>3. flags \in Seq(Nat) /\ Len(flags) = 2
  <2>1. flags = <<129, 131>> \/ flags = <<131, 128>> \/ flags = <<129, 128>>
    OBVIOUS
  <2> HIDE DEF flags
  <2>2. CASE flags = <<129, 131>>
    BY <2>2
  <2>3. CASE flags = <<131, 128>>
    BY <2>3
  <2>4. CASE flags = <<129, 128>>
    BY <2>4
  <2>5. QED
    BY <2>1, <2>2, <2>3, <2>4
<1>4. count \in Nat
  OBVIOUS
<1>5. /\ counts \in Seq(Nat) /\ Len(counts) = 8
      /\ counts[1] = 0 /\ counts[2] = 1 /\ counts[3] = 0 /\ counts[4] = count
  <2> HIDE DEF count
  <2>1. QED
    BY <1>4
<1>6. HostAddress(server, q) \in Seq(Nat) /\ Len(HostAddress(server, q)) = 4
  <2>1. Len(q) \in Nat
    BY <1>q
  <2>2. QED
    BY <2>1, FourBytes DEF HostAddress
<1>7. \/ answers = A(Pointer) /\ count = 1
      \/ answers = AliasAnswers(HostAddress(server, q)) /\ count = 2
      \/ answers = <<>> /\ count = 0
  <2>1. CASE shape = "address"
    <3>1. count = 1 /\ answers = A(Pointer)
      BY <2>1
    <3>2. QED
      BY <3>1
  <2>2. CASE shape = "alias"
    <3>1. count = 2 /\ answers = Record(Pointer, <<0, 5>>, Alias) \o A(Alias)
      BY <2>2
    <3>2. QED
      BY <3>1, Zenon DEF AliasAnswers
  <2>3. CASE shape # "address" /\ shape # "alias"
    <3>1. count = 0 /\ answers = <<>>
      BY <2>3
    <3>2. QED
      BY <3>1
  <2>4. QED
    BY <2>1, <2>2, <2>3
<1>8. answers \in Seq(Nat)
  <2>1. /\ A(Pointer) \in Seq(Nat)
        /\ AliasAnswers(HostAddress(server, q)) \in Seq(Nat)
    BY <1>6, AddressIs, AliasIs DEF AnswersOfAlias, AnswerOfAddress
  <2>2. <<>> \in Seq(Nat)
    OBVIOUS
  <2> HIDE DEF answers, count, A
  <2>3. QED
    BY <1>7, <2>1, <2>2
<1> HIDE DEF count, flags, counts, begin, answers
<1>9. Joint(begin, flags, t)
  BY <1>2, <1>3, Joins
<1> HIDE DEF t
<1>10. Joint(t, counts, u)
  BY <1>5, <1>9, Joins DEF Joint
<1> HIDE DEF u
<1>11. Joint(u, q, v)
  BY <1>10, <1>q, Joins DEF Joint
<1> HIDE DEF v
<1>12. Joint(v, answers, w)
  BY <1>8, <1>11, Joins DEF Joint
<1> HIDE DEF w
<1>13. Len(t) = 4 /\ Len(u) = 12 /\ Len(v) = 12 + Len(q) /\ Len(w) = 12 + Len(q) + Len(answers)
  <2>1. Len(t) = 4
    BY <1>2, <1>3, <1>9 DEF Joint
  <2>2. Len(u) = 12
    BY <1>5, <1>10, <2>1 DEF Joint
  <2>3. Len(v) = 12 + Len(q)
    BY <1>11, <2>2 DEF Joint
  <2>4. QED
    BY <1>12, <2>1, <2>2, <2>3 DEF Joint
<1>14. \A k \in 1 .. Len(q) : w[12 + k] = q[k]
  <2> SUFFICES ASSUME NEW k \in 1 .. Len(q) PROVE w[12 + k] = q[k]
    OBVIOUS
  <2>1. v[12 + k] = q[k]
    BY <1>11, <1>13, <1>q DEF Joint
  <2>2. 12 + k \in 1 .. 12 + Len(q)
    OBVIOUS
  <2>3. w[12 + k] = v[12 + k]
    BY <1>12, <1>13, <2>2 DEF Joint
  <2>4. QED
    BY <2>1, <2>3
<1>15. \A k \in 1 .. 12 : w[k] = u[k]
  <2> SUFFICES ASSUME NEW k \in 1 .. 12 PROVE w[k] = u[k]
    OBVIOUS
  <2>1. k \in 1 .. 12 + Len(q)
    OBVIOUS
  <2>2. v[k] = u[k] /\ w[k] = v[k]
    BY <1>11, <1>12, <1>13, <2>1 DEF Joint
  <2>3. QED
    BY <2>2
<1>16. w[1] = query[1] /\ w[2] = query[2]
  <2>1. t[1] = begin[1] /\ t[2] = begin[2]
    <3>1. 1 \in 1 .. Len(begin) /\ 2 \in 1 .. Len(begin)
      BY <1>2
    <3>2. \A k \in 1 .. Len(begin) : t[k] = begin[k]
      BY <1>9 DEF Joint
    <3>3. QED
      BY <3>1, <3>2
  <2>2. u[1] = t[1] /\ u[2] = t[2]
    BY <1>10, <1>13 DEF Joint
  <2>3. QED
    BY <1>2, <1>15, <2>1, <2>2
<1>17. w[5] = 0 /\ w[6] = 1 /\ w[7] = 0 /\ w[8] = count
  <2>1. u[4 + 1] = counts[1] /\ u[4 + 2] = counts[2] /\ u[4 + 3] = counts[3] /\ u[4 + 4] = counts[4]
    BY <1>5, <1>10, <1>13 DEF Joint
  <2>2. u[5] = 0 /\ u[6] = 1 /\ u[7] = 0 /\ u[8] = count
    BY <1>5, <2>1
  <2>3. 5 \in 1 .. 12 /\ 6 \in 1 .. 12 /\ 7 \in 1 .. 12 /\ 8 \in 1 .. 12
    OBVIOUS
  <2>4. QED
    BY <1>15, <2>2, <2>3
<1>18. w \in Seq(Nat) /\ \A k \in 1 .. Len(answers) : w[12 + Len(q) + k] = answers[k]
  BY <1>12, <1>13 DEF Joint
<1>19. Laid(w, q, count, answers)
  BY <1>13, <1>14, <1>17, <1>18 DEF Laid
<1>20. ReplyIs(b, query, server, q)
  BY <1>1, <1>7, <1>16, <1>19 DEF ReplyIs
<1>21. QED
  BY <1>20, <1>r, Zenon

-----------------------------------------------------------------------------
(* DnsClient: what is read from a reply.                                   *)

(* What the reader knows of the names: where they end, in a question and   *)
(* in an answer.                                                           *)
AnswerEnds(b, after) == EndsOf(b, TRUE, after)
AnswerNames(b)       == AfterNames(b, TRUE)

LEMMA EndsAre ==
  \A b \in Seq(Nat) : /\ QuestionEnds(b, AfterNames(b, FALSE))
                       /\ AnswerEnds(b, AnswerNames(b))
<1> SUFFICES ASSUME NEW b \in Seq(Nat)
             PROVE  QuestionEnds(b, AfterNames(b, FALSE)) /\ AnswerEnds(b, AnswerNames(b))
  OBVIOUS
<1>1. EndsOf(b, FALSE, AfterNames(b, FALSE))
  BY NamesEnd, Zenon
<1>2. EndsOf(b, TRUE, AfterNames(b, TRUE))
  BY NamesEnd, Zenon
<1>3. QED
  BY <1>1, <1>2, Zenon DEF QuestionEnds, AnswerEnds, AnswerNames

(* Where the answers begin.                                                *)
LEMMA AnswersBegin ==
  ASSUME NEW host, IsName(host), NEW q, q = Question(host), NEW count \in Nat, NEW answers \in Seq(Nat),
         NEW b, Laid(b, q, count, answers)
  PROVE  AfterQuestions(b) = 13 + Len(q)
<1> DEFINE t == NameBytes(host)
           step == [k \in DOMAIN b |-> AfterNames(b, FALSE)[k] + 4]
           f == Places(DNS_HEADER_SIZE + 1, step, 1)
           after == AfterNames(b, FALSE)
<1>1. /\ b \in Seq(Nat) /\ Len(b) = 12 + Len(q) + Len(answers) /\ b[5] = 0 /\ b[6] = 1
      /\ \A k \in 1 .. Len(q) : b[12 + k] = q[k]
  BY DEF Laid
<1>2. t \in Seq(Nat) /\ Len(t) \in Nat /\ Len(q) = Len(t) + 4 /\ \A k \in 1 .. Len(t) : q[k] = t[k]
  <2>1. /\ NameBytes(host) \in Seq(Nat) /\ Len(Question(host)) = Len(NameBytes(host)) + 4
        /\ \A k \in 1 .. Len(NameBytes(host)) : Question(host)[k] = NameBytes(host)[k]
    BY QuestionIs
  <2>2. q = Question(host) /\ t = NameBytes(host)
    OBVIOUS
  <2> HIDE DEF t
  <2>3. QED
    BY <2>1, <2>2
<1>3. Number(b, 5) = 1
  BY <1>1 DEF Number
<1>4. AfterQuestions(b) = f[1]
  BY <1>3, Zenon DEF AfterQuestions
<1>5. Chain(DNS_HEADER_SIZE + 1, step, 1, f)
  BY PlacesAre
<1>6. QuestionEnds(b, after)
  BY <1>1, EndsAre
<1>7. DOMAIN b = 1 .. Len(b) /\ 13 \in DOMAIN b /\ DNS_HEADER_SIZE + 1 = 13 /\ Len(answers) \in Nat
  BY <1>1, <1>2 DEF DNS_HEADER_SIZE
<1>8. step[13] = after[13] + 4
  BY <1>7
<1> HIDE DEF t, step, f, after
<1>9. f[0] = 13 /\ f[1] = step[f[0]]
  BY <1>5, <1>7 DEF Chain
<1>10. BytesAt(b, 12, t)
  <2>1. 12 + Len(t) <= Len(b)
    BY <1>1, <1>2, <1>7
  <2>2. ASSUME NEW k \in 1 .. Len(t) PROVE b[12 + k] = t[k]
    <3>1. k \in 1 .. Len(q) /\ q[k] = t[k]
      BY <1>2
    <3>2. b[12 + k] = q[k]
      BY <1>1, <3>1
    <3>3. QED
      BY <3>1, <3>2
  <2>3. QED
    BY <2>1, <2>2 DEF BytesAt
<1>11. after[12 + 1] = 12 + Len(t) + 1
  BY <1>1, <1>6, <1>10, NameSkipped DEF t
<1>12. after[13] = 13 + Len(t)
  <2>1. 12 + 1 = 13 /\ 12 + Len(t) + 1 = 13 + Len(t)
    BY <1>2
  <2>2. QED
    BY <1>11, <2>1
<1>13. QED
  BY <1>2, <1>4, <1>8, <1>9, <1>12

(* The fixed parts of the first two answers.                               *)
FirstPlaces(b, after, a, count) ==
  /\ AnswerAt(b, 1) = after[a]
  /\ 0 < count => AnswerAt(b, 2) = after[after[a] + 10 + Number(b, after[a] + 8)]

LEMMA AnswerPlaces ==
  \A b \in Seq(Nat) : AfterQuestions(b) \in 1 .. Len(b) /\ Number(b, 7) \in Nat
    => FirstPlaces(b, AnswerNames(b), AfterQuestions(b), Number(b, 7))
<1> SUFFICES ASSUME NEW b \in Seq(Nat), NEW a \in 1 .. Len(b), AfterQuestions(b) = a,
                    NEW count \in Nat, Number(b, 7) = count, NEW after, after = AnswerNames(b)
             PROVE  /\ AnswerAt(b, 1) = after[a]
                    /\ 0 < count => AnswerAt(b, 2) = after[after[a] + 10 + Number(b, after[a] + 8)]
  BY DEF FirstPlaces
<1> DEFINE next == [k \in DOMAIN b |-> LET at == AfterNames(b, TRUE)[k] IN at + 10 + Number(b, at + 8)]
           f == Places(a, next, count)
<1>1. \A n : AnswerAt(b, n) = after[f[n - 1]]
  BY Zenon DEF AnswerAt, AnswerNames
<1>2. Chain(a, next, count, f)
  BY PlacesAre
<1>3. next[a] = after[a] + 10 + Number(b, after[a] + 8)
  <2>1. a \in DOMAIN b
    OBVIOUS
  <2>2. next = [k \in DOMAIN b |-> after[k] + 10 + Number(b, after[k] + 8)]
    BY Zenon DEF AnswerNames
  <2>3. QED
    BY <2>1, <2>2
<1> HIDE DEF next, f
<1>4. f[0] = a /\ (0 < count => f[1] = next[f[0]])
  BY <1>2 DEF Chain
<1>5. AnswerAt(b, 1) = after[f[0]] /\ AnswerAt(b, 2) = after[f[1]]
  <2>1. 1 - 1 = 0 /\ 2 - 1 = 1
    OBVIOUS
  <2>2. AnswerAt(b, 1) = after[f[1 - 1]] /\ AnswerAt(b, 2) = after[f[2 - 1]]
    BY <1>1
  <2>3. QED
    BY <2>1, <2>2
<1>6. QED
  BY <1>3, <1>4, <1>5

LEMMA PieceOfBytes ==
  \A b \in Seq(Nat) : \A m \in 0 .. Len(b) : \A n \in m .. Len(b) :
    SubSeq(b, m + 1, n) = [k \in 1 .. n - m |-> b[m + k]]
<1> TAKE b \in Seq(Nat)
<1> TAKE m \in 0 .. Len(b)
<1> TAKE n \in m .. Len(b)
<1>1. QED
  BY PieceIs

(* The address in a record that is read.                                   *)
LEMMA AddressRead ==
  ASSUME NEW b \in Seq(Nat), NEW address \in Seq(Nat), Len(address) = 4,
         NEW at \in Nat, at + 13 <= Len(b), \A k \in 1 .. 4 : b[at + 9 + k] = address[k]
  PROVE  SubSeq(b, at + 10, at + 13) = address
<1>1. at + 9 \in 0 .. Len(b) /\ at + 13 \in at + 9 .. Len(b) /\ (at + 13) - (at + 9) = 4
      /\ (at + 9) + 1 = at + 10
  OBVIOUS
<1>2. SubSeq(b, (at + 9) + 1, at + 13) = [k \in 1 .. (at + 13) - (at + 9) |-> b[(at + 9) + k]]
  BY <1>1, PieceOfBytes
<1>3. SubSeq(b, at + 10, at + 13) = [k \in 1 .. 4 |-> b[at + 9 + k]]
  BY <1>1, <1>2
<1>4. [k \in 1 .. 4 |-> b[at + 9 + k]] = [k \in 1 .. 4 |-> address[k]]
  OBVIOUS
<1>5. address = [k \in 1 .. 4 |-> address[k]]
  OBVIOUS
<1>6. QED
  BY <1>3, <1>4, <1>5

(* An address that is found is that of the only answer of its type.       *)
LEMMA AddressOf ==
  \A x, y : [ret |-> x, address |-> y].address = y
OBVIOUS

Only(b, count, n) == \A m \in 1 .. count : m # n => ~IsA(b, AnswerAt(b, m))

LEMMA FoundIs ==
  \A b : \A count \in Nat : \A n \in 1 .. count :
    Number(b, 7) = count /\ Only(b, count, n) /\ DnsAnswer(b).ret = SUCCESS
    => DnsAnswer(b).address = SubSeq(b, AnswerAt(b, n) + 10, AnswerAt(b, n) + 13)
<1> SUFFICES ASSUME NEW b, NEW count \in Nat, NEW n \in 1 .. count, Number(b, 7) = count,
                    \A m \in 1 .. count : m # n => ~IsA(b, AnswerAt(b, m)), DnsAnswer(b).ret = SUCCESS
             PROVE  DnsAnswer(b).address = SubSeq(b, AnswerAt(b, n) + 10, AnswerAt(b, n) + 13)
  BY DEF Only
<1> DEFINE hits == {m \in 1 .. count : IsA(b, AnswerAt(b, m))}
           at == AnswerAt(b, Min(hits))
<1>1. DnsAnswer(b) = IF hits = {} THEN [ret |-> -10, address |-> NoAddress]
                     ELSE IF Number(b, at + 8) # 4 THEN [ret |-> -9, address |-> NoAddress]
                     ELSE [ret |-> SUCCESS, address |-> SubSeq(b, at + 10, at + 13)]
  BY Zenon DEF DnsAnswer
<1>2. hits # {} => Min(hits) = n
  <2> SUFFICES ASSUME hits # {} PROVE Min(hits) = n
    OBVIOUS
  <2>1. hits \subseteq Nat
    OBVIOUS
  <2>2. \A m \in hits : m = n
    OBVIOUS
  <2> HIDE DEF hits
  <2>3. Min(hits) \in hits
    BY <2>1, MinIs
  <2>4. QED
    BY <2>2, <2>3
<1> HIDE DEF hits
<1>3. hits # {} /\ DnsAnswer(b) = [ret |-> SUCCESS, address |-> SubSeq(b, at + 10, at + 13)]
  <2>1. SUCCESS # -10 /\ SUCCESS # -9
    BY DEF SUCCESS
  <2> HIDE DEF at
  <2>2. CASE hits = {}
    BY <1>1, <2>1, <2>2
  <2>3. CASE hits # {} /\ Number(b, at + 8) # 4
    BY <1>1, <2>1, <2>3
  <2>4. QED
    BY <1>1, <2>2, <2>3
<1>4. at = AnswerAt(b, n)
  BY <1>2, <1>3
<1> HIDE DEF at
<1>5. DnsAnswer(b).address = SubSeq(b, at + 10, at + 13)
  BY <1>3, AddressOf, Zenon
<1>6. QED
  BY <1>4, <1>5, Zenon

(* Reply with the address.                                                 *)
LEMMA AddressFound ==
  ASSUME NEW b, NEW q \in Seq(Nat), NEW address \in Seq(Nat), Len(address) = 4,
         NEW r, AnswerOfAddress(address, r), Laid(b, q, 1, r),
         AfterQuestions(b) = 13 + Len(q), DnsAnswer(b).ret = SUCCESS
  PROVE  DnsAnswer(b).address = address
<1> DEFINE after == AnswerNames(b)
           n == Len(q)
<1>1. n \in Nat
  OBVIOUS
<1>2. /\ b \in Seq(Nat) /\ Len(b) = n + 28 /\ Number(b, 7) = 1
      /\ \A k \in 1 .. 16 : b[12 + n + k] = r[k]
  BY <1>1 DEF Laid, AnswerOfAddress, Number
<1>3. r[1] = 192 /\ \A k \in 1 .. 4 : r[12 + k] = address[k]
  BY DEF AnswerOfAddress, RecordAt
<1>4. AnswerEnds(b, after)
  BY <1>2, EndsAre
<1>5. AfterQuestions(b) = n + 13
  BY <1>1
<1> HIDE DEF after, n
<1>6. b[n + 13] = 192 /\ n + 13 \in 1 .. Len(b)
  <2>1. 1 \in 1 .. 16 /\ 12 + n + 1 = n + 13 /\ n + 13 \in 1 .. n + 28
    BY <1>1
  <2>2. b[12 + n + 1] = r[1]
    BY <1>2, <2>1
  <2>3. QED
    BY <1>2, <1>3, <2>1, <2>2
<1>7. after[n + 13] = n + 15
  <2>1. \A k \in 1 .. Len(b) : b[k] = 192 => after[k] = k + 2
    BY <1>4 DEF AnswerEnds, EndsOf
  <2>2. QED
    BY <1>1, <1>6, <2>1
<1>8. AnswerAt(b, 1) = n + 15
  <2>1. AfterQuestions(b) \in 1 .. Len(b) /\ Number(b, 7) \in Nat
    <3>1. AfterQuestions(b) \in 1 .. Len(b)
      BY <1>5, <1>6, Zenon
    <3>2. Number(b, 7) = 1
      BY <1>2, Zenon
    <3>3. QED
      BY <3>1, <3>2
  <2>2. FirstPlaces(b, AnswerNames(b), AfterQuestions(b), Number(b, 7))
    BY <1>2, <2>1, AnswerPlaces
  <2>3. FirstPlaces(b, after, n + 13, 1)
    BY <1>2, <1>5, <2>2, Zenon DEF after
  <2>4. QED
    BY <1>7, <2>3 DEF FirstPlaces
<1>9. DnsAnswer(b).address = SubSeq(b, (n + 15) + 10, (n + 15) + 13)
  <2>1. Only(b, 1, 1)
    BY DEF Only
  <2>2. DnsAnswer(b).address = SubSeq(b, AnswerAt(b, 1) + 10, AnswerAt(b, 1) + 13)
    <3>1. 1 \in Nat /\ 1 \in 1 .. 1
      OBVIOUS
    <3>2. QED
      BY <1>2, <2>1, <3>1, FoundIs, Zenon
  <2>3. QED
    BY <1>8, <2>2, Zenon
<1>10. \A k \in 1 .. 4 : b[(n + 15) + 9 + k] = address[k]
  <2> SUFFICES ASSUME NEW k \in 1 .. 4 PROVE b[(n + 15) + 9 + k] = address[k]
    OBVIOUS
  <2>1. 12 + k \in 1 .. 16 /\ 12 + n + (12 + k) = (n + 15) + 9 + k
    BY <1>1
  <2>2. b[12 + n + (12 + k)] = r[12 + k]
    BY <1>2, <2>1
  <2>3. r[12 + k] = address[k]
    BY <1>3
  <2>4. QED
    BY <2>1, <2>2, <2>3
<1>11. n + 15 \in Nat /\ (n + 15) + 13 <= Len(b)
  <2>1. Len(b) = n + 28
    BY <1>2, Zenon
  <2>2. n + 15 \in Nat /\ (n + 15) + 13 <= n + 28
    BY <1>1
  <2>3. QED
    BY <2>1, <2>2, Zenon
<1>12. QED
  BY <1>2, <1>9, <1>10, <1>11, AddressRead

LEMMA SecondByte ==
  \A b \in Seq(Nat) : \A at \in Nat \ {0} :
    at + 1 <= Len(b) => SubSeq(b, at, at + 1)[2] = b[at + 1]
<1> SUFFICES ASSUME NEW b \in Seq(Nat), NEW at \in Nat \ {0}, at + 1 <= Len(b)
             PROVE  SubSeq(b, at, at + 1)[2] = b[at + 1]
  OBVIOUS
<1>1. /\ at - 1 \in 0 .. Len(b) /\ at + 1 \in at - 1 .. Len(b) /\ (at - 1) + 1 = at
      /\ (at + 1) - (at - 1) = 2 /\ (at - 1) + 2 = at + 1
  OBVIOUS
<1>2. SubSeq(b, (at - 1) + 1, at + 1) = [k \in 1 .. (at + 1) - (at - 1) |-> b[(at - 1) + k]]
  BY <1>1, PieceOfBytes
<1>3. SubSeq(b, at, at + 1) = [k \in 1 .. 2 |-> b[(at - 1) + k]]
  BY <1>1, <1>2
<1>4. SubSeq(b, at, at + 1)[2] = b[(at - 1) + 2]
  BY <1>3
<1>5. QED
  BY <1>1, <1>4

(* Reply with an alias.                                                    *)
LEMMA AliasFound ==
  ASSUME NEW b, NEW q \in Seq(Nat), NEW address \in Seq(Nat), Len(address) = 4,
         NEW r, AnswersOfAlias(address, r), Laid(b, q, 2, r),
         AfterQuestions(b) = 13 + Len(q), DnsAnswer(b).ret = SUCCESS
  PROVE  DnsAnswer(b).address = address
<1> DEFINE after == AnswerNames(b)
           n == Len(q)
<1>1. n \in Nat
  OBVIOUS
<1>2. /\ b \in Seq(Nat) /\ Len(b) = n + 44 /\ Number(b, 7) = 2
      /\ \A k \in 1 .. 32 : b[12 + n + k] = r[k]
  BY <1>1 DEF Laid, AnswersOfAlias, Number
<1>3. /\ r[1] = 192 /\ r[4] = 5 /\ r[11] = 0 /\ r[12] = 3 /\ r[16] = 1 /\ r[18] = 0
      /\ \A k \in 1 .. 4 : r[28 + k] = address[k]
  BY DEF AnswersOfAlias, RecordAt, Alias
<1>4. AnswerEnds(b, after)
  BY <1>2, EndsAre
<1>5. AfterQuestions(b) = n + 13
  BY <1>1
<1> HIDE DEF after, n
<1>6. /\ b[n + 13] = 192 /\ b[n + 16] = 5 /\ b[n + 23] = 0 /\ b[n + 24] = 3
      /\ b[n + 28] = 1 /\ b[n + 30] = 0
  <2>1. /\ 1 \in 1 .. 32 /\ 4 \in 1 .. 32 /\ 11 \in 1 .. 32 /\ 12 \in 1 .. 32
        /\ 16 \in 1 .. 32 /\ 18 \in 1 .. 32
    OBVIOUS
  <2>a. \A k \in 1 .. 32 : b[12 + n + k] = r[k]
    BY <1>2
  <2>2. /\ b[12 + n + 1] = 192 /\ b[12 + n + 4] = 5 /\ b[12 + n + 11] = 0 /\ b[12 + n + 12] = 3
        /\ b[12 + n + 16] = 1 /\ b[12 + n + 18] = 0
    <3>1. b[12 + n + 1] = r[1] /\ b[12 + n + 4] = r[4] /\ b[12 + n + 11] = r[11]
      BY <2>1, <2>a
    <3>2. b[12 + n + 12] = r[12] /\ b[12 + n + 16] = r[16] /\ b[12 + n + 18] = r[18]
      BY <2>1, <2>a
    <3>3. QED
      BY <1>3, <3>1, <3>2, Zenon
  <2>3. /\ 12 + n + 1 = n + 13 /\ 12 + n + 4 = n + 16 /\ 12 + n + 11 = n + 23
        /\ 12 + n + 12 = n + 24 /\ 12 + n + 16 = n + 28 /\ 12 + n + 18 = n + 30
    BY <1>1
  <2>4. QED
    BY <2>2, <2>3
<1>7. /\ n + 13 \in 1 .. Len(b) /\ n + 28 \in 1 .. Len(b) /\ n + 30 \in 1 .. Len(b)
  <2>1. Len(b) = n + 44
    BY <1>2, Zenon
  <2>2. /\ n + 13 \in 1 .. n + 44 /\ n + 28 \in 1 .. n + 44 /\ n + 30 \in 1 .. n + 44
    BY <1>1
  <2>3. QED
    BY <2>1, <2>2, Zenon
<1>8. after[n + 13] = n + 15
  <2>1. \A k \in 1 .. Len(b) : b[k] = 192 => after[k] = k + 2
    BY <1>4 DEF AnswerEnds, EndsOf
  <2>2. QED
    BY <1>1, <1>6, <1>7, <2>1
<1>9. after[n + 28] = n + 31
  <2>1. \A k \in 1 .. Len(b) : b[k] = 0 => after[k] = k + 1
    BY <1>4 DEF AnswerEnds, EndsOf
  <2>2. \A k \in 1 .. Len(b) : b[k] = 1 /\ k + 2 \in 1 .. Len(b) => after[k] = after[k + 2]
    <3> SUFFICES ASSUME NEW k \in 1 .. Len(b), b[k] = 1, k + 2 \in 1 .. Len(b)
                 PROVE  after[k] = after[k + 2]
      OBVIOUS
    <3>1. k + 1 + b[k] = k + 2
      OBVIOUS
    <3>2. b[k] # 0 /\ ~(b[k] >= 64)
      OBVIOUS
    <3>3. after[k] = after[k + 1 + b[k]]
      BY <1>4, <3>1, <3>2 DEF AnswerEnds, EndsOf
    <3>4. QED
      BY <3>1, <3>3
  <2>3. (n + 28) + 2 = n + 30 /\ (n + 30) + 1 = n + 31
    BY <1>1
  <2>4. after[n + 30] = n + 31
    BY <1>6, <1>7, <2>1, <2>3
  <2>5. after[n + 28] = after[n + 30]
    <3>1. (n + 28) + 2 \in 1 .. Len(b)
      BY <1>7, <2>3
    <3>2. after[n + 28] = after[(n + 28) + 2]
      BY <1>6, <1>7, <2>2, <3>1
    <3>3. QED
      BY <2>3, <3>2
  <2>6. QED
    BY <2>4, <2>5
<1>10. AnswerAt(b, 1) = n + 15 /\ AnswerAt(b, 2) = n + 31
  <2>1. AfterQuestions(b) \in 1 .. Len(b) /\ Number(b, 7) \in Nat
    <3>1. AfterQuestions(b) \in 1 .. Len(b)
      BY <1>5, <1>7, Zenon
    <3>2. Number(b, 7) = 2
      BY <1>2, Zenon
    <3>3. QED
      BY <3>1, <3>2
  <2>2. FirstPlaces(b, AnswerNames(b), AfterQuestions(b), Number(b, 7))
    BY <1>2, <2>1, AnswerPlaces
  <2>3. FirstPlaces(b, after, n + 13, 2)
    BY <1>2, <1>5, <2>2, Zenon DEF after
  <2>4. Number(b, (n + 15) + 8) = 3
    <3>1. (n + 15) + 8 = n + 23 /\ ((n + 15) + 8) + 1 = n + 24
      BY <1>1
    <3>2. QED
      BY <1>6, <3>1 DEF Number
  <2>5. (n + 15) + 10 + 3 = n + 28
    BY <1>1
  <2>6. AnswerAt(b, 1) = n + 15
    BY <1>8, <2>3 DEF FirstPlaces
  <2>7. AnswerAt(b, 2) = after[(n + 15) + 10 + Number(b, (n + 15) + 8)]
    BY <1>8, <2>3 DEF FirstPlaces
  <2>8. AnswerAt(b, 2) = after[n + 28]
    BY <2>4, <2>5, <2>7, Zenon
  <2>9. QED
    BY <1>9, <2>6, <2>8
<1>11. Only(b, 2, 2)
  <2>1. ~IsA(b, n + 15)
    <3> SUFFICES ASSUME SubSeq(b, n + 15, (n + 15) + 1) = TYPE_A PROVE FALSE
      BY Zenon DEF IsA
    <3>1. n + 15 \in Nat \ {0} /\ (n + 15) + 1 <= Len(b) /\ (n + 15) + 1 = n + 16
      BY <1>1, <1>2
    <3>2. SubSeq(b, n + 15, (n + 15) + 1)[2] = b[(n + 15) + 1]
      BY <1>2, <3>1, SecondByte
    <3>3. TYPE_A[2] = 1
      BY DEF TYPE_A
    <3>4. b[n + 16] = 1
      BY <3>1, <3>2, <3>3
    <3>5. QED
      BY <1>6, <3>4
  <2>2. \A m \in 1 .. 2 : m # 2 => m = 1
    OBVIOUS
  <2>3. QED
    BY <1>10, <2>1, <2>2, Zenon DEF Only
<1>12. DnsAnswer(b).address = SubSeq(b, (n + 31) + 10, (n + 31) + 13)
  <2>1. DnsAnswer(b).address = SubSeq(b, AnswerAt(b, 2) + 10, AnswerAt(b, 2) + 13)
    <3>1. 2 \in Nat /\ 2 \in 1 .. 2
      OBVIOUS
    <3>2. QED
      BY <1>2, <1>11, <3>1, FoundIs, Zenon
  <2>2. QED
    BY <1>10, <2>1, Zenon
<1>13. \A k \in 1 .. 4 : b[(n + 31) + 9 + k] = address[k]
  <2> SUFFICES ASSUME NEW k \in 1 .. 4 PROVE b[(n + 31) + 9 + k] = address[k]
    OBVIOUS
  <2>1. 28 + k \in 1 .. 32 /\ 12 + n + (28 + k) = (n + 31) + 9 + k
    BY <1>1
  <2>2. b[12 + n + (28 + k)] = r[28 + k]
    BY <1>2, <2>1
  <2>3. r[28 + k] = address[k]
    BY <1>3
  <2>4. QED
    BY <2>1, <2>2, <2>3
<1>14. n + 31 \in Nat /\ (n + 31) + 13 <= Len(b)
  <2>1. Len(b) = n + 44
    BY <1>2, Zenon
  <2>2. n + 31 \in Nat /\ (n + 31) + 13 <= n + 44
    BY <1>1
  <2>3. QED
    BY <2>1, <2>2, Zenon
<1>15. QED
  BY <1>2, <1>12, <1>13, <1>14, AddressRead

(* An address that is found in a reply is the one the server put there.   *)
LEMMA AddressIsFound ==
  ASSUME NEW id \in Nat, NEW host, IsName(host), NEW server \in Nat, NEW shape \in Shapes,
         NEW b, b = DnsReply(server, BuildRequest(id, host), shape), DnsAnswer(b).ret = SUCCESS
  PROVE  DnsAnswer(b).address = HostAddress(server, Question(host))
<1> DEFINE query == BuildRequest(id, host)
           q == Question(host)
           address == HostAddress(server, q)
<1>1. /\ query \in Seq(Nat) /\ 12 <= Len(query)
      /\ q = SubSeq(query, DNS_HEADER_SIZE + 1, Len(query))
  BY QuestionAsked
<1>2. q \in Seq(Nat) /\ Len(q) \in Nat
  BY QuestionIs
<1>3. address \in Seq(Nat) /\ Len(address) = 4
  BY <1>2, FourBytes DEF HostAddress
<1>4. b = DnsReply(server, query, shape)
  BY Zenon
<1>5. \/ Laid(b, q, 1, Record(Pointer, TYPE_A, address))
      \/ Laid(b, q, 2, AliasAnswers(address))
      \/ Laid(b, q, 0, <<>>)
  <2> HIDE DEF query, q
  <2>1. ReplyIs(b, query, server, q)
    BY <1>1, <1>4, ReplyLaid
  <2>2. QED
    BY <2>1, Zenon DEF ReplyIs, address
<1> HIDE DEF query, address
<1>6. \A count \in Nat : \A answers \in Seq(Nat) :
        Laid(b, q, count, answers) => AfterQuestions(b) = 13 + Len(q)
  BY AnswersBegin
<1>7. AnswerOfAddress(address, Record(Pointer, TYPE_A, address))
      /\ AnswersOfAlias(address, AliasAnswers(address))
  BY <1>3, AddressIs, AliasIs
<1> HIDE DEF q
<1>8. CASE Laid(b, q, 1, Record(Pointer, TYPE_A, address))
  <2>1. AfterQuestions(b) = 13 + Len(q)
    BY <1>6, <1>7, <1>8 DEF AnswerOfAddress
  <2>2. DnsAnswer(b).address = address
    BY <1>2, <1>3, <1>7, <1>8, <2>1, AddressFound
  <2>3. QED
    BY <2>2 DEF address, q
<1>9. CASE Laid(b, q, 2, AliasAnswers(address))
  <2>1. AfterQuestions(b) = 13 + Len(q)
    BY <1>6, <1>7, <1>9 DEF AnswersOfAlias
  <2>2. DnsAnswer(b).address = address
    BY <1>2, <1>3, <1>7, <1>9, <2>1, AliasFound
  <2>3. QED
    BY <2>2 DEF address, q
<1>10. CASE Laid(b, q, 0, <<>>)
  <2>1. Number(b, 7) = 0
    BY <1>10 DEF Laid, Number
  <2>2. {n \in 1 .. Number(b, 7) : IsA(b, AnswerAt(b, n))} = {}
    BY <2>1
  <2>3. DnsAnswer(b) = [ret |-> -10, address |-> NoAddress]
    BY <2>2, Zenon DEF DnsAnswer
  <2>4. QED
    BY <2>3 DEF SUCCESS
<1>11. QED
  BY <1>5, <1>8, <1>9, <1>10

-----------------------------------------------------------------------------
(* DnsClient: the steps.                                                   *)

(* The address that is written in a name.                                  *)
LEMMA OctetsStay ==
  ASSUME NEW values, DOMAIN values = 1 .. 4, values = [i \in 1 .. 4 |-> values[i]],
         \A i \in 1 .. 4 : values[i] \in 0 .. 255
  PROVE  /\ values \in Seq(Nat) /\ Len(values) = 4
         /\ ~(Len(values) > 4 \/ \E i \in DOMAIN values : values[i] > 255)
         /\ [i \in 1 .. 4 |-> IF i <= Len(values) THEN values[i] % 256 ELSE -1] = values
         /\ values # <<>>
<1>1. \A i \in 1 .. 4 : values[i] \in Nat /\ ~(values[i] > 255) /\ values[i] % 256 = values[i]
  OBVIOUS
<1>2. values \in [1 .. 4 -> Nat]
  BY <1>1
<1>3. values \in Seq(Nat) /\ Len(values) = 4
  BY <1>2
<1>4. [i \in 1 .. 4 |-> IF i <= Len(values) THEN values[i] % 256 ELSE -1] = [i \in 1 .. 4 |-> values[i]]
  <2>1. \A i \in 1 .. 4 : (IF i <= Len(values) THEN values[i] % 256 ELSE -1) = values[i]
    BY <1>1, <1>3
  <2>2. QED
    BY <2>1, Zenon
<1>5. values # <<>>
  BY <1>3
<1>6. ~(Len(values) > 4 \/ \E i \in DOMAIN values : values[i] > 255)
  BY <1>1, <1>3
<1>7. QED
  BY <1>3, <1>4, <1>5, <1>6, Zenon

LEMMA NumberIs ==
  ASSUME NEW host \in Seq(Seq(Nat)), Len(host) = 4, \A i \in 1 .. 4 : Group(host[i]) \in 0 .. 255
  PROVE  DNSClient_inet_aton(host) = Numeric(host) /\ Numeric(host) # NoAddress
<1> DEFINE values == [i \in DOMAIN host |-> Group(host[i])]
<1>1. /\ DOMAIN values = 1 .. 4 /\ values = [i \in 1 .. 4 |-> values[i]]
      /\ \A i \in 1 .. 4 : values[i] \in 0 .. 255
  <2>1. DOMAIN host = 1 .. 4
    OBVIOUS
  <2>2. values = [i \in 1 .. 4 |-> Group(host[i])]
    BY <2>1
  <2> HIDE DEF values
  <2>3. QED
    BY <2>2
<1>2. DNSClient_inet_aton(host) =
        IF Len(values) > 4 \/ \E i \in DOMAIN values : values[i] > 255
        THEN NoAddress
        ELSE [i \in 1 .. 4 |-> IF i <= Len(values) THEN values[i] % 256 ELSE -1]
  BY Zenon DEF DNSClient_inet_aton
<1>3. values = Numeric(host)
  BY Zenon DEF Numeric
<1> HIDE DEF values
<1>4. /\ ~(Len(values) > 4 \/ \E i \in DOMAIN values : values[i] > 255)
      /\ [i \in 1 .. 4 |-> IF i <= Len(values) THEN values[i] % 256 ELSE -1] = values
      /\ values # <<>>
  BY <1>1, OctetsStay
<1>5. DNSClient_inet_aton(host) = values
  BY <1>2, <1>4, Zenon
<1>6. QED
  BY <1>3, <1>4, <1>5, Zenon DEF NoAddress

(* What is assumed of a name that is asked for.                            *)
LEMMA HostIs ==
  ASSUME DnsAssumption, NEW host \in Hosts
  PROVE  /\ IsName(host)
         /\ DNSClient_inet_aton(host) = IF IsNumber(host) THEN Numeric(host) ELSE NoAddress
         /\ IsNumber(host) => Numeric(host) # NoAddress
<1>1. NameAssumption(host)
  BY DEF DnsAssumption
<1>2. host \in Seq(Seq(Nat)) /\ IsName(host)
  BY <1>1 DEF NameAssumption, IsName
<1>3. CASE IsNumber(host)
  <2>1. Len(host) = 4 /\ \A i \in 1 .. 4 : Group(host[i]) \in 0 .. 255
    BY <1>1, <1>3, Zenon DEF NameAssumption
  <2>2. DNSClient_inet_aton(host) = Numeric(host) /\ Numeric(host) # NoAddress
    BY <1>2, <2>1, NumberIs
  <2>3. QED
    BY <1>2, <1>3, <2>2
<1>4. CASE ~IsNumber(host)
  <2>1. DNSClient_inet_aton(host) = NoAddress
    BY <1>1, <1>4, Zenon DEF NameAssumption
  <2>2. QED
    BY <1>2, <1>4, <2>1
<1>5. QED
  BY <1>3, <1>4

(* What ProcessResponse takes for an answer is a reply to this lookup, of  *)
(* the server that is configured.                                          *)
LEMMA TakenIsMine ==
  ASSUME DnsAssumption, DnsInv, lookup = "read",
         ProcessResponse.ret \notin {INVALID_SERVER, TRUNCATED, INVALID_RESPONSE}
  PROVE  Mine(rest)
<1>1. PICK id \in 1 .. iRequestId, host \in Hosts, shape \in Shapes :
        /\ sender \in DnsServers /\ rest = DnsReply(sender, BuildRequest(id, host), shape)
        /\ id = iRequestId => sender = iDNSServer /\ host = name
  BY DEF DnsInv, DatagramInv, Replies, Waiting
<1>2. sender = iDNSServer /\ Number(rest, 1) = iRequestId
  BY DEF ProcessResponse, Failure, INVALID_SERVER, TRUNCATED, INVALID_RESPONSE
<1>3. rest[1] = id \div 256 /\ rest[2] = id % 256
  <2>1. id \in Nat /\ sender \in Nat
    BY <1>1 DEF DnsInv, LookupInv, DnsAssumption
  <2>a. IsName(host)
    BY <1>1, HostIs
  <2>2. LET query == BuildRequest(id, host)
        IN  query \in Seq(Nat) /\ 12 <= Len(query) /\ query[1] = id \div 256 /\ query[2] = id % 256
    BY <2>1, <2>a, QuestionAsked
  <2>3. rest = DnsReply(sender, BuildRequest(id, host), shape)
    BY <1>1
  <2>4. rest[1] = BuildRequest(id, host)[1] /\ rest[2] = BuildRequest(id, host)[2]
    BY <1>1, <2>1, <2>2, <2>3, ReplyLaid DEF ReplyIs
  <2>5. QED
    BY <2>2, <2>4
<1>4. id = iRequestId
  <2>1. id \in Nat /\ iRequestId \in Nat
    BY DEF DnsInv, LookupInv, DnsAssumption
  <2>2. Number(rest, 1) = ((id \div 256) * 256) + (id % 256)
    BY <1>3 DEF Number
  <2>3. QED
    BY <1>2, <2>1, <2>2
<1>5. QED
  BY <1>1, <1>4 DEF Mine

(* No failure becomes 1 on the way to uint16_t.                            *)
LEMMA NoSuccess ==
  ASSUME NEW r \in {-1, -2, -3, -4, -5, -6, -9, -10}
  PROVE  uint16_t(r) # SUCCESS
  BY DEF uint16_t, SUCCESS

(* The result is 1 only for the address in an answer.                      *)
LEMMA SuccessIs ==
  ASSUME uint16_t(ProcessResponse.ret) = SUCCESS
  PROVE  /\ ProcessResponse.ret \notin {INVALID_SERVER, TRUNCATED, INVALID_RESPONSE}
         /\ ProcessResponse = DnsAnswer(rest) /\ DnsAnswer(rest).ret = SUCCESS
<1>1. \/ ProcessResponse = DnsAnswer(rest)
      \/ \E r \in {-2, -3, -4, -5, -6} : ProcessResponse = Failure(r)
  BY DEF ProcessResponse, INVALID_SERVER, TRUNCATED, INVALID_RESPONSE
<1>2. \A r \in {-2, -3, -4, -5, -6, -9, -10} : uint16_t(r) # SUCCESS
  BY NoSuccess
<1>3. ProcessResponse = DnsAnswer(rest)
  BY <1>1, <1>2 DEF Failure
<1>4. \E r \in {-10, -9, SUCCESS} : DnsAnswer(rest).ret = r
  BY DEF DnsAnswer
<1>5. DnsAnswer(rest).ret = SUCCESS
  BY <1>2, <1>3, <1>4
<1>6. QED
  BY <1>3, <1>5 DEF INVALID_SERVER, TRUNCATED, INVALID_RESPONSE, SUCCESS

(* An address that ProcessResponse returns is that of the name.            *)
LEMMA ProcessedAnswer ==
  ASSUME DnsAssumption, DnsInv, Processed
  PROVE  AnswerIsMine'
<1> SUFFICES ASSUME lookup' = "answered", ret' = SUCCESS
             PROVE  aResult' = HostAddress(iDNSServer, NameBytes(name) \o TYPE_A \o CLASS_IN) /\ ~IsNumber(name)
  BY DEF AnswerIsMine, Processed, Result
<1>1. /\ lookup = "read" /\ uint16_t(ProcessResponse.ret) = SUCCESS
      /\ aResult' = ProcessResponse.address
  BY DEF Processed, Result
<1>2. Mine(rest) /\ ProcessResponse = DnsAnswer(rest) /\ DnsAnswer(rest).ret = SUCCESS
  BY <1>1, SuccessIs, TakenIsMine
<1>3. PICK shape \in Shapes : rest = DnsReply(iDNSServer, BuildRequest(iRequestId, name), shape)
  BY <1>2 DEF Mine
<1>4. name \in Hosts /\ ~IsNumber(name) /\ iDNSServer \in DnsServers /\ iRequestId \in 1 .. MaxLookups
  <2>1. iRequestId \in 0 .. MaxLookups /\ iRequestId # 0
    BY <1>1 DEF DnsInv, LookupInv, DatagramInv, Replies, DnsAssumption
  <2>2. QED
    BY <1>1, <2>1 DEF DnsInv, LookupInv, Waiting, DnsAssumption
<1>5. DnsAnswer(rest).address = HostAddress(iDNSServer, NameBytes(name) \o TYPE_A \o CLASS_IN)
  <2>1. iRequestId \in Nat /\ iDNSServer \in Nat /\ IsName(name)
    <3>1. IsName(name)
      BY <1>4, HostIs
    <3>2. QED
      BY <1>4, <3>1 DEF DnsAssumption
  <2>2. DnsAnswer(rest).address = HostAddress(iDNSServer, Question(name))
    BY <1>2, <1>3, <2>1, AddressIsFound
  <2>3. QED
    BY <2>2, Zenon DEF Question
<1>6. QED
  BY <1>1, <1>2, <1>4, <1>5

(* A step that begins no lookup leaves replies what they are.              *)
LEMMA RepliesStay ==
  ASSUME NEW server, NEW bytes, Replies(server, bytes), iRequestId' = iRequestId,
         Waiting' => Waiting /\ UNCHANGED <<iDNSServer, name>>
  PROVE  Replies(server, bytes)'
  BY DEF Replies, Waiting

(* Nor does it change the last request, ...                                *)
LEMMA RequestStays ==
  ASSUME RequestInv, UNCHANGED <<iRequestId, request>>,
         Waiting' => Waiting /\ UNCHANGED <<iDNSServer, name>>
  PROVE  RequestInv'
  BY DEF RequestInv, Waiting

(* ... what is known of the lookup, ...                                    *)
LEMMA LookupStays ==
  ASSUME LookupInv, iRequestId' = iRequestId, iDNSServer' \in DnsServers \cup {0},
         Waiting' => Waiting /\ UNCHANGED <<iDNSServer, name>>
  PROVE  LookupInv'
  BY DEF LookupInv, Waiting, IsNumber

(* ... or its answer.                                                      *)
LEMMA AnswerStays ==
  ASSUME AnswerIsMine, UNCHANGED <<iDNSServer, name, lookup, ret, aResult>>
  PROVE  AnswerIsMine'
  BY DEF AnswerIsMine

(* Of the datagrams only some go on: what is left are replies still.       *)
LEMMA DatagramsStay ==
  ASSUME DatagramInv, iRequestId' = iRequestId, replies' \subseteq replies,
         Waiting' => Waiting /\ UNCHANGED <<iDNSServer, name>>,
         inbox' \in {inbox, <<>>}, lookup' = "read" => lookup = "read" /\ UNCHANGED <<sender, rest>>
  PROVE  DatagramInv'
<1>1. \A server, bytes : Replies(server, bytes) => Replies(server, bytes)'
  BY RepliesStay
<1>2. \A r \in replies' : Replies(r.from, r.bytes)'
  BY <1>1 DEF DatagramInv
<1>3. \/ inbox' = <<>>
      \/ \E server, bytes : inbox' = <<[from |-> server, bytes |-> bytes]>> /\ Replies(server, bytes)'
  BY <1>1 DEF DatagramInv
<1>4. lookup' = "read" => Replies(sender, rest)'
  <2> SUFFICES ASSUME lookup' = "read" PROVE Replies(sender, rest)'
    OBVIOUS
  <2>1. Replies(sender, rest) /\ sender' = sender /\ rest' = rest
    BY DEF DatagramInv
  <2>2. QED
    BY <2>1 DEF Replies, Waiting
<1>5. QED
  BY <1>2, <1>3, <1>4 DEF DatagramInv

(* A new lookup has an identifier no datagram under way has.               *)
LEMMA RequestStep == DnsAssumption /\ DnsInv /\ getHostByName => DnsInv'
<1> SUFFICES ASSUME DnsAssumption, DnsInv, getHostByName PROVE DnsInv'
  OBVIOUS
<1>1. PICK host \in Hosts :
        /\ name' = host
        /\ LET address == DNSClient_inet_aton(host)
           IN \/ address # NoAddress /\ Answered(SUCCESS, address)
              \/ address = NoAddress /\ iDNSServer = 0 /\ Answered(INVALID_SERVER, NoAddress)
              \/ address = NoAddress /\ iDNSServer # 0 /\ Answered(0, NoAddress)
              \/ /\ address = NoAddress /\ iDNSServer # 0
                 /\ udpOpen' = TRUE /\ port' \in 1 .. PORTS /\ iRequestId' = iRequestId + 1
                 /\ request' = <<[server |-> iDNSServer, port |-> port',
                                  bytes |-> BuildRequest(iRequestId', host)]>>
                 /\ lookup' = "wait" /\ wait_retries' = 0
                 /\ ret' = TIMED_OUT /\ aResult' = NoAddress
  BY DEF getHostByName
<1>2. UNCHANGED <<iDNSServer, replies, inbox, rest, sender, got>> /\ iRequestId < MaxLookups
  BY DEF getHostByName
<1>3. /\ DNSClient_inet_aton(host) = IF IsNumber(host) THEN Numeric(host) ELSE NoAddress
      /\ IsNumber(host) => Numeric(host) # NoAddress
  BY HostIs
<1>4. CASE lookup' = "wait"
  <2>1. /\ DNSClient_inet_aton(host) = NoAddress /\ iDNSServer # 0
        /\ iRequestId' = iRequestId + 1
        /\ request' = <<[server |-> iDNSServer, port |-> port', bytes |-> BuildRequest(iRequestId', host)]>>
    BY <1>1, <1>4 DEF Answered
  <2>2. iRequestId \in Nat /\ iRequestId' \in 1 .. MaxLookups
    BY <1>2, <2>1 DEF DnsInv, LookupInv, DnsAssumption
  <2>3. ~IsNumber(host) /\ iDNSServer \in DnsServers
    BY <1>3, <2>1 DEF DnsInv, LookupInv
  <2>4. LookupInv'
    BY <1>1, <1>2, <2>2, <2>3 DEF LookupInv, IsNumber, DnsInv
  <2>5. RequestInv'
    <3>1. iRequestId' > 0 /\ (Waiting' => iDNSServer' = iDNSServer /\ name' = host)
      BY <1>1, <1>2, <2>2
    <3>2. QED
      BY <1>2, <2>1, <2>3, <3>1 DEF RequestInv
  <2>6. ASSUME NEW server, NEW bytes, Replies(server, bytes) PROVE Replies(server, bytes)'
    <3>1. PICK id \in 1 .. iRequestId, h \in Hosts, shape \in Shapes :
            server \in DnsServers /\ bytes = DnsReply(server, BuildRequest(id, h), shape)
      BY <2>6 DEF Replies
    <3>2. id \in 1 .. iRequestId' /\ id # iRequestId'
      BY <2>1, <2>2
    <3>3. QED
      BY <3>1, <3>2 DEF Replies
  <2>7. DatagramInv'
    BY <1>2, <1>4, <2>6 DEF DnsInv, DatagramInv
  <2>8. AnswerIsMine'
    BY <1>4 DEF AnswerIsMine
  <2>9. QED
    BY <2>4, <2>5, <2>7, <2>8 DEF DnsInv
<1>5. CASE lookup' # "wait"
  <2>1. lookup' = "answered" /\ ~Waiting' /\ UNCHANGED <<iRequestId, request>>
    BY <1>1, <1>5 DEF Answered, Waiting
  <2>2. RequestInv' /\ LookupInv'
    BY <1>2, <2>1, RequestStays, LookupStays DEF DnsInv, LookupInv
  <2>3. DatagramInv'
    BY <1>2, <2>1, DatagramsStay DEF DnsInv
  <2>4. ret' = SUCCESS => aResult' = Numeric(host) /\ IsNumber(host)
    <3>1. INVALID_SERVER # SUCCESS /\ 0 # SUCCESS
      BY DEF INVALID_SERVER, SUCCESS
    <3>2. ret' = SUCCESS => aResult' = DNSClient_inet_aton(host) /\ DNSClient_inet_aton(host) # NoAddress
      BY <1>1, <1>5, <3>1 DEF Answered
    <3>3. QED
      BY <1>3, <3>2
  <2>5. AnswerIsMine'
    <3>1. name' = host
      BY <1>1
    <3>2. QED
      BY <2>4, <3>1 DEF AnswerIsMine
  <2>6. QED
    BY <2>2, <2>3, <2>5 DEF DnsInv
<1>6. QED
  BY <1>4, <1>5

(* A reply to the last request is one to this lookup.                      *)
LEMMA ServerStep == DnsInv /\ ServerReplies => DnsInv'
<1> SUFFICES ASSUME DnsInv, ServerReplies PROVE DnsInv'
  OBVIOUS
<1>1. PICK r \in Range(request), shape \in Shapes :
        replies' = replies \cup {[to |-> r.port, from |-> r.server,
                                  bytes |-> DnsReply(r.server, r.bytes, shape)]}
  BY DEF ServerReplies
<1>2. UNCHANGED <<iDNSServer, iRequestId, name, lookup, ret, aResult, request, inbox, rest, sender>>
  BY DEF ServerReplies
<1>3. /\ \A server, bytes : Replies(server, bytes) => Replies(server, bytes)'
      /\ RequestInv' /\ LookupInv' /\ AnswerIsMine'
  BY <1>2, RepliesStay, RequestStays, LookupStays, AnswerStays DEF DnsInv, LookupInv, Waiting
<1>4. Replies(r.server, DnsReply(r.server, r.bytes, shape))'
  <2>1. PICK server, to : \E host \in Hosts :
          /\ request = <<[server |-> server, port |-> to, bytes |-> BuildRequest(iRequestId, host)]>>
          /\ server \in DnsServers /\ iRequestId > 0 /\ (Waiting => server = iDNSServer /\ host = name)
    BY <1>1 DEF DnsInv, RequestInv, Range
  <2>2. PICK host \in Hosts :
          /\ request = <<[server |-> server, port |-> to, bytes |-> BuildRequest(iRequestId, host)]>>
          /\ server \in DnsServers /\ iRequestId > 0 /\ (Waiting => server = iDNSServer /\ host = name)
    BY <2>1
  <2>3. r.server = server /\ r.bytes = BuildRequest(iRequestId, host)
    BY <1>1, <2>2 DEF Range
  <2>4. iRequestId \in 1 .. iRequestId
    BY <2>2 DEF DnsInv, LookupInv, DnsAssumption
  <2>5. Replies(r.server, DnsReply(r.server, r.bytes, shape))
    BY <2>2, <2>3, <2>4 DEF Replies
  <2>6. QED
    BY <1>3, <2>5
<1>5. DatagramInv'
  <2>1. \A q \in replies' : Replies(q.from, q.bytes)'
    BY <1>1, <1>3, <1>4 DEF DnsInv, DatagramInv
  <2>2. QED
    BY <1>2, <1>3, <2>1 DEF DnsInv, DatagramInv
<1>6. QED
  BY <1>3, <1>5 DEF DnsInv

(* What arrives was under way.                                             *)
LEMMA ArrivalStep == DnsInv /\ ReplyArrives => DnsInv'
<1> SUFFICES ASSUME DnsInv, ReplyArrives PROVE DnsInv'
  OBVIOUS
<1>1. PICK r \in replies :
        /\ replies' \in {replies, replies \ {r}}
        /\ IF udpOpen /\ r.to = port /\ inbox = <<>>
             THEN inbox' = Append(inbox, [from |-> r.from, bytes |-> r.bytes])
             ELSE UNCHANGED inbox
        /\ UNCHANGED <<iDNSServer, iRequestId, name, lookup, ret, aResult, request, rest, sender>>
  BY DEF ReplyArrives
<1>2. /\ \A server, bytes : Replies(server, bytes) => Replies(server, bytes)'
      /\ RequestInv' /\ LookupInv' /\ AnswerIsMine'
  BY <1>1, RepliesStay, RequestStays, LookupStays, AnswerStays DEF DnsInv, LookupInv, Waiting
<1>3. Replies(r.from, r.bytes)'
  BY <1>2 DEF DnsInv, DatagramInv
<1>4. CASE inbox' = inbox
  <2>1. DatagramInv'
    BY <1>1, <1>4, DatagramsStay DEF DnsInv, Waiting
  <2>2. QED
    BY <1>2, <2>1 DEF DnsInv
<1>5. CASE inbox' = <<[from |-> r.from, bytes |-> r.bytes]>>
  <2>1. \A q \in replies' : Replies(q.from, q.bytes)'
    BY <1>1, <1>2 DEF DnsInv, DatagramInv
  <2>2. lookup' = "read" => Replies(sender, rest)'
    BY <1>1, <1>2 DEF DnsInv, DatagramInv
  <2>3. DatagramInv'
    BY <1>3, <1>5, <2>1, <2>2 DEF DatagramInv
  <2>4. QED
    BY <1>2, <2>3 DEF DnsInv
<1>6. inbox = <<>> => Append(inbox, [from |-> r.from, bytes |-> r.bytes]) = <<[from |-> r.from, bytes |-> r.bytes]>>
  OBVIOUS
<1>7. QED
  BY <1>1, <1>4, <1>5, <1>6

(* ProcessResponse takes a datagram.                                       *)
LEMMA TakeStep == DnsInv /\ parsePacket => DnsInv'
<1> SUFFICES ASSUME DnsInv, parsePacket PROVE DnsInv'
  OBVIOUS
<1>1. /\ lookup = "wait" /\ lookup' = "read" /\ inbox # <<>>
      /\ rest' = Head(inbox).bytes /\ sender' = Head(inbox).from /\ inbox' = Tail(inbox)
      /\ UNCHANGED <<iDNSServer, iRequestId, name, ret, aResult, request, replies>>
  BY DEF parsePacket, Taken
<1>2. /\ \A server, bytes : Replies(server, bytes) => Replies(server, bytes)'
      /\ RequestInv' /\ LookupInv'
  BY <1>1, RepliesStay, RequestStays, LookupStays DEF DnsInv, LookupInv, Waiting
<1>3. PICK server, bytes : inbox = <<[from |-> server, bytes |-> bytes]>> /\ Replies(server, bytes)
  BY <1>1 DEF DnsInv, DatagramInv
<1>4. inbox' = <<>> /\ sender' = server /\ rest' = bytes
  BY <1>1, <1>3
<1>5. Replies(sender, rest)'
  <2>1. Replies(server, bytes)'
    BY <1>2, <1>3
  <2>2. QED
    BY <1>4, <2>1 DEF Replies
<1>6. DatagramInv'
  BY <1>1, <1>2, <1>4, <1>5 DEF DnsInv, DatagramInv
<1>7. AnswerIsMine'
  BY <1>1 DEF AnswerIsMine
<1>8. QED
  BY <1>2, <1>6, <1>7 DEF DnsInv

(* The end of a wait or of ProcessResponse.                                *)
LEMMA ResultStep ==
  ASSUME DnsInv, NEW r, NEW address, Result(r, address), lookup = "wait" \/ lookup = "read"
  PROVE  RequestInv' /\ LookupInv' /\ DatagramInv'
<1>1. /\ UNCHANGED <<iDNSServer, iRequestId, name, request, replies>>
      /\ lookup' \in {"wait", "answered"} /\ inbox' \in {inbox, <<>>}
  BY DEF Result, Reopened
<1>2. Waiting
  BY DEF Waiting
<1>3. RequestInv' /\ LookupInv'
  BY <1>1, <1>2, RequestStays, LookupStays DEF DnsInv, LookupInv
<1>4. DatagramInv'
  BY <1>1, <1>2, DatagramsStay DEF DnsInv
<1>5. QED
  BY <1>3, <1>4

(* Every step keeps the invariant.                                         *)
LEMMA DnsStep == DnsAssumption /\ DnsInv /\ [DnsNext]_<<dnsVars, inbox, rest, sender, got>> => DnsInv'
<1> SUFFICES ASSUME DnsAssumption, DnsInv, [DnsNext]_<<dnsVars, inbox, rest, sender, got>>
             PROVE  DnsInv'
  OBVIOUS
<1>1. CASE getHostByName
  BY <1>1, RequestStep
<1>2. CASE ServerReplies
  BY <1>2, ServerStep
<1>3. CASE ReplyArrives
  BY <1>3, ArrivalStep
<1>4. CASE parsePacket
  BY <1>4, TakeStep
<1>5. CASE TimedOut
  <2>1. uint16_t(TIMED_OUT) # SUCCESS
    BY NoSuccess DEF TIMED_OUT
  <2>2. lookup' = "answered" => ret' # SUCCESS
    BY <1>5, <2>1 DEF TimedOut, Result
  <2>3. AnswerIsMine'
    BY <2>2 DEF AnswerIsMine
  <2>4. QED
    BY <1>5, <2>3, ResultStep DEF TimedOut, DnsInv
<1>6. CASE Processed
  <2>1. RequestInv' /\ LookupInv' /\ DatagramInv'
    BY <1>6, ResultStep DEF Processed
  <2>2. QED
    BY <1>6, <2>1, ProcessedAnswer DEF DnsInv
<1>7. CASE CallerGoesOn \/ SetDnsServer
  <2>1. /\ UNCHANGED <<iRequestId, request, replies, inbox, rest, sender>>
        /\ lookup' = "idle" /\ iDNSServer' \in DnsServers \cup {0}
    BY <1>7 DEF CallerGoesOn, SetDnsServer, DnsInv, LookupInv
  <2>2. ~Waiting' /\ AnswerIsMine'
    BY <2>1 DEF Waiting, AnswerIsMine
  <2>3. RequestInv' /\ LookupInv'
    BY <2>1, <2>2, RequestStays, LookupStays DEF DnsInv
  <2>4. DatagramInv'
    BY <2>1, <2>2, DatagramsStay DEF DnsInv
  <2>5. QED
    BY <2>2, <2>3, <2>4 DEF DnsInv
<1>8. CASE UNCHANGED <<dnsVars, inbox, rest, sender, got>>
  <2>1. UNCHANGED <<iDNSServer, iRequestId, name, lookup, ret, aResult, request, replies, inbox, rest, sender>>
    BY <1>8 DEF dnsVars
  <2>2. RequestInv' /\ LookupInv' /\ AnswerIsMine'
    BY <2>1, RequestStays, LookupStays, AnswerStays DEF DnsInv, LookupInv, Waiting
  <2>3. DatagramInv'
    BY <2>1, DatagramsStay DEF DnsInv, Waiting
  <2>4. QED
    BY <2>2, <2>3 DEF DnsInv
<1>9. QED
  BY <1>1, <1>2, <1>3, <1>4, <1>5, <1>6, <1>7, <1>8 DEF DnsNext

(* It holds initially.                                                     *)
LEMMA DnsBegins == DnsAssumption /\ DnsInit => DnsInv
<1> SUFFICES ASSUME DnsAssumption, DnsInit PROVE DnsInv
  OBVIOUS
<1>1. /\ request = <<>> /\ replies = {} /\ inbox = <<>> /\ lookup = "idle" /\ iRequestId = 0
      /\ iDNSServer \in DnsServers \cup {0}
  BY DEF DnsInit, BoxInit
<1>2. 0 \in 0 .. MaxLookups
  BY DEF DnsAssumption
<1>3. QED
  BY <1>1, <1>2 DEF DnsInv, RequestInv, LookupInv, DatagramInv, AnswerIsMine, Waiting

(* While a reply is read that is not refused, it is one of the configured  *)
(* server to the request of this lookup, however late, doubled or out of   *)
(* order replies to others come (ProcessResponse).                         *)
ReadsMine ==
  lookup = "read" /\ ProcessResponse.ret \notin {INVALID_SERVER, TRUNCATED, INVALID_RESPONSE}
    => Mine(rest)

THEOREM RepliesAreMine == DnsAssumption => (DnsSpec => []ReadsMine)
<1> SUFFICES ASSUME DnsAssumption PROVE DnsSpec => []ReadsMine
  OBVIOUS
<1>1. DnsInit => DnsInv
  BY DnsBegins
<1>2. DnsInv /\ [DnsNext]_<<dnsVars, inbox, rest, sender, got>> => DnsInv'
  BY DnsStep
<1>3. DnsInv => ReadsMine
  BY TakenIsMine DEF ReadsMine
<1>4. QED
  BY <1>1, <1>2, <1>3, PTL DEF DnsSpec

(* An address that getHostByName hands on is that of the name looked up:   *)
(* written in it, or the one the configured server has for it, never that  *)
(* of an earlier lookup or another server (AnswerIsMine), however long the *)
(* name and whatever records its reply has (DNSClient_ProcessResponse).    *)
THEOREM AnswersAreMine == DnsAssumption => (DnsSpec => []AnswerIsMine)
<1> SUFFICES ASSUME DnsAssumption PROVE DnsSpec => []AnswerIsMine
  OBVIOUS
<1>1. DnsInit => DnsInv
  BY DnsBegins
<1>2. DnsInv /\ [DnsNext]_<<dnsVars, inbox, rest, sender, got>> => DnsInv'
  BY DnsStep
<1>3. DnsInv => AnswerIsMine
  BY DEF DnsInv
<1>4. QED
  BY <1>1, <1>2, <1>3, PTL DEF DnsSpec

-----------------------------------------------------------------------------
(* StreamReader: what findMulti knows of the text.                        *)

StreamSpec == StreamInit /\ [][StreamNext]_streamVars

(* Target t matches the last k of the first n characters with its first k. *)
Border(t, n, k) ==
  /\ k \in 0 .. Len(t) /\ k <= n
  /\ \A j \in 1 .. k : t[j] = stream[n - k + j]

(* i is the longest such beginning.                                        *)
Longest(t, n, i) == Border(t, n, i) /\ \A k \in 0 .. Len(t) : Border(t, n, k) => k <= i

-----------------------------------------------------------------------------
LEMMA SuffixIs ==
  ASSUME NEW s, NEW u, Len(s) \in Nat, Len(u) \in Nat
  PROVE  IsSuffix(s, u) <=>
           Len(s) <= Len(u) /\ \A j \in 1 .. Len(s) : s[j] = u[Len(u) - Len(s) + j]
<1> DEFINE rs == Reverse(s)
           ru == Reverse(u)
           m == Len(s)
           n == Len(u)
<1>1. rs = [i \in 1 .. m |-> s[(m - i) + 1]] /\ ru = [i \in 1 .. n |-> u[(n - i) + 1]]
  BY DEF Reverse
<1>2. Len(rs) = m /\ Len(ru) = n
  BY <1>1
<1>3. (\A i \in 1 .. m : s[(m - i) + 1] = u[(n - i) + 1])
        <=> \A j \in 1 .. m : s[j] = u[n - m + j]
  <2>1. ASSUME \A i \in 1 .. m : s[(m - i) + 1] = u[(n - i) + 1], NEW j \in 1 .. m
        PROVE  s[j] = u[n - m + j]
    <3>1. m - j + 1 \in 1 .. m /\ (m - (m - j + 1)) + 1 = j /\ (n - (m - j + 1)) + 1 = n - m + j
      OBVIOUS
    <3>2. QED
      BY <2>1, <3>1
  <2>2. ASSUME \A j \in 1 .. m : s[j] = u[n - m + j], NEW i \in 1 .. m
        PROVE  s[(m - i) + 1] = u[(n - i) + 1]
    <3>1. (m - i) + 1 \in 1 .. m /\ n - m + ((m - i) + 1) = (n - i) + 1
      OBVIOUS
    <3>2. QED
      BY <2>2, <3>1
  <2>3. QED
    BY <2>1, <2>2
<1>4. ASSUME m <= n
      PROVE  SubSeq(rs, 1, m) = SubSeq(ru, 1, m) <=> \A i \in 1 .. m : rs[i] = ru[i]
  <2> DEFINE S == {rs[i] : i \in 1 .. m} \cup {ru[i] : i \in 1 .. m}
             a == SubSeq(rs, 1, m)
             b == SubSeq(ru, 1, m)
  <2>1. \A i \in 1 .. m : rs[i] \in S /\ ru[i] \in S
    OBVIOUS
  <2>2. m - 1 + 1 = m /\ \A i \in 1 .. m : 1 + i - 1 = i
    OBVIOUS
  <2> HIDE DEF S, rs, ru
  <2>3. /\ a \in Seq(S) /\ Len(a) = IF 1 <= m THEN m - 1 + 1 ELSE 0
        /\ \A i \in 1 .. m - 1 + 1 : a[i] = rs[1 + i - 1]
    BY <2>1, SubSeqProperties
  <2>4. /\ b \in Seq(S) /\ Len(b) = IF 1 <= m THEN m - 1 + 1 ELSE 0
        /\ \A i \in 1 .. m - 1 + 1 : b[i] = ru[1 + i - 1]
    BY <2>1, SubSeqProperties
  <2> HIDE DEF a, b
  <2>5. Len(a) = m /\ Len(b) = m
    BY <2>2, <2>3, <2>4
  <2>6. \A i \in 1 .. m : a[i] = rs[i] /\ b[i] = ru[i]
    BY <2>2, <2>3, <2>4
  <2>7. (\A i \in 1 .. m : a[i] = b[i]) => a = b
    BY <2>3, <2>4, <2>5, SeqEqual
  <2>8. QED
    BY <2>6, <2>7 DEF a, b
<1>5. ASSUME m <= n, NEW i \in 1 .. m
      PROVE  rs[i] = s[(m - i) + 1] /\ ru[i] = u[(n - i) + 1]
  <2>1. m \in Nat /\ n \in Nat /\ i \in 1 .. n
    BY <1>5
  <2> HIDE DEF rs, ru, m, n
  <2>2. QED
    BY <1>1, <2>1
<1> HIDE DEF rs, ru
<1>6. IsSuffix(s, u) <=> m <= n /\ SubSeq(rs, 1, m) = SubSeq(ru, 1, m)
  BY <1>2 DEF IsSuffix, IsPrefix, rs, ru
<1>7. QED
  BY <1>3, <1>4, <1>5, <1>6

(* A target ends where all of it is matched.                               *)
LEMMA EndIs ==
  ASSUME NEW t \in DOMAIN targets, Len(targets[t]) \in Nat,
         stream \in Seq(Range(stream)), NEW n \in 0 .. Len(stream)
  PROVE  Ends(t, n) <=> Border(targets[t], n, Len(targets[t]))
<1> DEFINE u == SubSeq(stream, 1, n)
           s == targets[t]
<1>1. \A i \in 1 .. n : stream[i] \in Range(stream)
  OBVIOUS
<1>2. /\ u \in Seq(Range(stream)) /\ Len(u) = IF 1 <= n THEN n - 1 + 1 ELSE 0
      /\ \A i \in 1 .. n - 1 + 1 : u[i] = stream[1 + i - 1]
  BY <1>1, SubSeqProperties
<1>3. n - 1 + 1 = n /\ \A i \in 1 .. n : 1 + i - 1 = i
  OBVIOUS
<1> HIDE DEF u, s
<1>4. Len(u) = n /\ \A i \in 1 .. n : u[i] = stream[i]
  BY <1>2, <1>3
<1>5. IsSuffix(s, u) <=> Len(s) <= n /\ \A j \in 1 .. Len(s) : s[j] = u[n - Len(s) + j]
  <2>1. Len(s) \in Nat /\ Len(u) \in Nat
    BY <1>4 DEF s
  <2>2. IsSuffix(s, u) <=> Len(s) <= Len(u) /\ \A j \in 1 .. Len(s) : s[j] = u[Len(u) - Len(s) + j]
    BY <2>1, SuffixIs
  <2>3. QED
    BY <1>4, <2>2
<1>6. ASSUME Len(s) <= n, NEW j \in 1 .. Len(s)
      PROVE  n - Len(s) + j \in 1 .. n
  BY <1>6 DEF s
<1>7. QED
  BY <1>4, <1>5, <1>6 DEF Ends, Border, s, u

(* With one more character the match grows by one.                         *)
LEMMA BorderNext ==
  ASSUME NEW t, Len(t) \in Nat, NEW n \in Nat, NEW k \in Nat, k < Len(t)
  PROVE  /\ Border(t, n + 1, k + 1) => Border(t, n, k) /\ t[k + 1] = stream[n + 1]
         /\ Border(t, n, k) /\ t[k + 1] = stream[n + 1] => Border(t, n + 1, k + 1)
<1>1. ASSUME Border(t, n + 1, k + 1) PROVE Border(t, n, k) /\ t[k + 1] = stream[n + 1]
  <2>1. k <= n /\ \A j \in 1 .. k + 1 : t[j] = stream[(n + 1) - (k + 1) + j]
    BY <1>1 DEF Border
  <2>2. \A j \in 1 .. k + 1 : (n + 1) - (k + 1) + j = n - k + j
    OBVIOUS
  <2>3. \A j \in 1 .. k : t[j] = stream[n - k + j]
    BY <2>1, <2>2
  <2>4. t[k + 1] = stream[n - k + (k + 1)] /\ n - k + (k + 1) = n + 1
    BY <2>1, <2>2
  <2>5. QED
    BY <2>1, <2>3, <2>4 DEF Border
<1>2. ASSUME Border(t, n, k), t[k + 1] = stream[n + 1] PROVE Border(t, n + 1, k + 1)
  <2>1. k <= n /\ \A j \in 1 .. k : t[j] = stream[n - k + j]
    BY <1>2 DEF Border
  <2>2. ASSUME NEW j \in 1 .. k + 1 PROVE t[j] = stream[(n + 1) - (k + 1) + j]
    <3>1. (n + 1) - (k + 1) + j = n - k + j
      OBVIOUS
    <3>2. CASE j = k + 1
      <4>1. n - k + j = n + 1
        BY <3>2
      <4>2. QED
        BY <1>2, <3>1, <3>2, <4>1
    <3>3. CASE j # k + 1
      <4>1. j \in 1 .. k
        BY <3>3
      <4>2. t[j] = stream[n - k + j]
        BY <2>1, <4>1
      <4>3. QED
        BY <3>1, <4>2
    <3>4. QED
      BY <3>2, <3>3
  <2>3. QED
    BY <2>1, <2>2 DEF Border
<1>3. QED
  BY <1>1, <1>2

(* A shorter match is a beginning of the target that fits the end of the   *)
(* longer one.                                                             *)
LEMMA BorderOfBorder ==
  ASSUME NEW t, t \in Seq(Range(t)), NEW n \in Nat, NEW i \in Nat, Border(t, n, i),
         NEW k \in 0 .. i
  PROVE  Border(t, n, k) <=> SubSeq(t, 1, k) = SubSeq(t, i - k + 1, i)
<1> DEFINE a == SubSeq(t, 1, k)
           b == SubSeq(t, i - k + 1, i)
           R == Range(t)
<1>1. /\ Len(t) \in Nat /\ i <= Len(t) /\ i <= n /\ \A j \in 1 .. i : t[j] = stream[n - i + j]
      /\ \A j \in 1 .. Len(t) : t[j] \in R
  BY DEF Border
<1> HIDE DEF R
<1>2. /\ a \in Seq(R) /\ Len(a) = k /\ \A j \in 1 .. k : a[j] = t[j]
  <2>1. \A j \in 1 .. k : t[j] \in R
    BY <1>1
  <2>2. /\ a \in Seq(R) /\ Len(a) = IF 1 <= k THEN k - 1 + 1 ELSE 0
        /\ \A j \in 1 .. k - 1 + 1 : a[j] = t[1 + j - 1]
    BY <2>1, SubSeqProperties
  <2>3. k - 1 + 1 = k /\ \A j \in 1 .. k : 1 + j - 1 = j
    OBVIOUS
  <2> HIDE DEF a
  <2>4. QED
    BY <2>2, <2>3
<1>3. /\ b \in Seq(R) /\ Len(b) = k /\ \A j \in 1 .. k : b[j] = t[i - k + j]
  <2>1. \A j \in i - k + 1 .. i : t[j] \in R
    BY <1>1
  <2>2. /\ b \in Seq(R) /\ Len(b) = IF i - k + 1 <= i THEN i - (i - k + 1) + 1 ELSE 0
        /\ \A j \in 1 .. i - (i - k + 1) + 1 : b[j] = t[(i - k + 1) + j - 1]
    <3>1. i - k + 1 \in Int
      OBVIOUS
    <3>2. QED
      BY <2>1, <3>1, SubSeqProperties
  <2>3. i - (i - k + 1) + 1 = k /\ \A j \in 1 .. k : (i - k + 1) + j - 1 = i - k + j
    OBVIOUS
  <2>4. (IF i - k + 1 <= i THEN k ELSE 0) = k
    OBVIOUS
  <2> HIDE DEF b
  <2>5. QED
    BY <2>2, <2>3, <2>4
<1> HIDE DEF a, b
<1>4. a = b <=> \A j \in 1 .. k : t[j] = t[i - k + j]
  <2>1. (\A j \in 1 .. k : a[j] = b[j]) => a = b
    BY <1>2, <1>3, SeqEqual
  <2>2. QED
    BY <1>2, <1>3, <2>1
<1>5. \A j \in 1 .. k : t[i - k + j] = stream[n - k + j]
  <2> SUFFICES ASSUME NEW j \in 1 .. k PROVE t[i - k + j] = stream[n - k + j]
    OBVIOUS
  <2>1. i - k + j \in 1 .. i /\ n - i + (i - k + j) = n - k + j
    OBVIOUS
  <2>2. QED
    BY <1>1, <2>1
<1>6. k <= n /\ k <= Len(t)
  BY <1>1
<1>7. QED
  BY <1>4, <1>5, <1>6 DEF Border, a, b

(* After a mismatch Matched finds the longest match.                       *)
LEMMA MatchedIsLongest ==
  ASSUME NEW t, t \in Seq(Range(t)), NEW n \in Nat, NEW i \in Nat, i < Len(t), Longest(t, n, i)
  PROVE  Longest(t, n + 1, Matched(t, i, stream[n + 1]))
<1> DEFINE c == stream[n + 1]
           fits == {k \in 0 .. i - 1 : t[k + 1] = c /\ SubSeq(t, 1, k) = SubSeq(t, i - k + 1, i)}
           m == Matched(t, i, c)
<1>1. Len(t) \in Nat /\ Border(t, n, i) /\ \A k \in 0 .. Len(t) : Border(t, n, k) => k <= i
  BY DEF Longest
<1>2. \A k \in 0 .. i - 1 : k \in fits <=> Border(t, n, k) /\ t[k + 1] = c
  BY <1>1, BorderOfBorder
<1>3. m = IF c = t[i + 1] THEN i + 1 ELSE IF fits = {} THEN 0 ELSE Max(fits) + 1
  BY DEF Matched
<1>4. fits \subseteq 0 .. i - 1
  OBVIOUS
<1> HIDE DEF c, fits, m
<1>5. \A k \in 0 .. Len(t) - 1 : Border(t, n + 1, k + 1) <=> Border(t, n, k) /\ t[k + 1] = c
  <2> SUFFICES ASSUME NEW k \in 0 .. Len(t) - 1
               PROVE  Border(t, n + 1, k + 1) <=> Border(t, n, k) /\ t[k + 1] = c
    OBVIOUS
  <2>1. k \in Nat /\ k < Len(t) /\ Len(t) \in Nat /\ n \in Nat
    BY <1>1
  <2>2. Border(t, n + 1, k + 1) <=> Border(t, n, k) /\ t[k + 1] = stream[n + 1]
    <3>1. Border(t, n + 1, k + 1) => Border(t, n, k) /\ t[k + 1] = stream[n + 1]
      BY ONLY <2>1, BorderNext
    <3>2. Border(t, n, k) /\ t[k + 1] = stream[n + 1] => Border(t, n + 1, k + 1)
      BY ONLY <2>1, BorderNext
    <3>3. QED
      BY <3>1, <3>2
  <2>3. QED
    BY <2>2 DEF c
<1>6. ASSUME NEW k \in 0 .. Len(t), Border(t, n + 1, k), k # 0
      PROVE  k - 1 \in 0 .. i /\ Border(t, n, k - 1) /\ t[(k - 1) + 1] = c
  <2>1. k - 1 \in 0 .. Len(t) - 1 /\ (k - 1) + 1 = k /\ k - 1 \in 0 .. Len(t)
    BY <1>1, <1>6
  <2>2. Border(t, n, k - 1) /\ t[(k - 1) + 1] = c
    BY <1>5, <1>6, <2>1
  <2>3. QED
    BY <1>1, <2>1, <2>2
<1>7. CASE c = t[i + 1]
  <2>1. m = i + 1 /\ i \in 0 .. Len(t) - 1
    BY <1>1, <1>3, <1>7
  <2>2. Border(t, n + 1, i + 1)
    BY <1>1, <1>5, <1>7, <2>1
  <2>3. \A k \in 0 .. Len(t) : Border(t, n + 1, k) => k <= i + 1
    BY <1>6
  <2>4. QED
    BY <2>1, <2>2, <2>3 DEF Longest, m, c
<1>8. CASE c # t[i + 1]
  <2>1. ASSUME NEW k \in 0 .. Len(t), Border(t, n + 1, k), k # 0
        PROVE  k - 1 \in fits
    <3>1. k - 1 # i
      BY <1>6, <1>8, <2>1
    <3>2. k - 1 \in 0 .. i - 1
      BY <1>6, <2>1, <3>1
    <3>3. QED
      BY <1>2, <1>6, <2>1, <3>2
  <2>2. CASE fits = {}
    <3>1. m = 0
      BY <1>3, <1>8, <2>2
    <3>2. Border(t, n + 1, 0)
      BY <1>1 DEF Border
    <3>3. \A k \in 0 .. Len(t) : Border(t, n + 1, k) => k <= 0
      BY <2>1, <2>2
    <3>4. QED
      BY <3>1, <3>2, <3>3 DEF Longest, m, c
  <2>3. CASE fits # {}
    <3>1. Max(fits) \in fits /\ \A y \in fits : y <= Max(fits)
      <4>1. fits \subseteq 0 .. i
        BY <1>4
      <4>2. QED
        BY <2>3, <4>1, MaxIs
    <3>2. PICK x : x = Max(fits)
      OBVIOUS
    <3>3. x \in 0 .. i - 1 /\ x \in 0 .. Len(t) - 1 /\ m = x + 1
      <4>1. x \in 0 .. i - 1
        BY <1>4, <3>1, <3>2
      <4>2. m = Max(fits) + 1
        BY <1>3, <1>8, <2>3, Zenon
      <4>3. QED
        BY <1>1, <3>2, <4>1, <4>2
    <3>4. Border(t, n + 1, x + 1)
      BY <1>2, <1>5, <3>1, <3>2, <3>3
    <3>5. ASSUME NEW k \in 0 .. Len(t), Border(t, n + 1, k) PROVE k <= x + 1
      <4>1. CASE k = 0
        BY <3>3, <4>1
      <4>2. CASE k # 0
        <5>1. k - 1 <= x
          BY <2>1, <3>1, <3>2, <3>5, <4>2
        <5>2. QED
          BY <3>3, <5>1
      <4>3. QED
        BY <4>1, <4>2
    <3>6. QED
      BY <3>3, <3>4, <3>5 DEF Longest, m, c
  <2>4. QED
    BY <2>2, <2>3
<1>9. QED
  BY <1>7, <1>8

-----------------------------------------------------------------------------
Empty == {t \in DOMAIN targets : targets[t] = <<>>}

(* While nothing is found no target has ended, and each index is the       *)
(* longest match; what is found is the first target that ends there.       *)
FindInv ==
  /\ stream \in Seq(Range(stream)) /\ targets \in Seq(Range(targets))
  /\ \A t \in DOMAIN targets : targets[t] \in Seq(Range(targets[t]))
  /\ taken \in 0 .. Len(stream) /\ reading \in {"find", "number", "over"}
  /\ reading = "number" => targets = <<>>
  /\ targets # <<>> => found = 0 \/ found \in DOMAIN targets
  /\ reading = "find" /\ Empty # {} => taken = 0
  /\ reading = "find" =>
       \A t \in DOMAIN targets :
         /\ found = 0 /\ \A n \in 1 .. taken : ~Ends(t, n)
         /\ Empty = {} => index[t] \in 0 .. Len(targets[t]) - 1 /\ Longest(targets[t], taken, index[t])
  /\ FindsFirst

LEMMA FindBegins == StreamInit => FindInv
<1> SUFFICES ASSUME StreamInit PROVE FindInv
  OBVIOUS
<1>1. taken = 0 /\ found = 0 /\ index = [t \in DOMAIN targets |-> 0]
  BY DEF StreamInit
<1>2. CASE reading = "find" /\ stream \in Streams /\ targets \in TargetLists
  <2>1. /\ stream \in Seq(Range(stream)) /\ targets \in Seq(Range(targets))
        /\ \A t \in DOMAIN targets : targets[t] \in Seq(Range(targets[t]))
    BY <1>2, TextAssumption
  <2>2. ASSUME NEW t \in DOMAIN targets, Empty = {}
        PROVE  index[t] \in 0 .. Len(targets[t]) - 1 /\ Longest(targets[t], taken, index[t])
    <3>1. Len(targets[t]) \in Nat /\ Len(targets[t]) # 0 /\ index[t] = 0
      <4>1. targets[t] # <<>>
        BY <2>2 DEF Empty
      <4>2. QED
        BY <1>1, <2>1, <4>1, EmptySeq
    <3>2. QED
      BY <1>1, <3>1 DEF Longest, Border
  <2>3. taken \in 0 .. Len(stream)
    BY <1>1, <2>1
  <2>4. FindsFirst
    BY <1>1 DEF FindsFirst
  <2>5. QED
    BY <1>1, <1>2, <2>1, <2>2, <2>3, <2>4 DEF FindInv
<1>3. CASE reading = "number" /\ targets = <<>> /\ \E n \in Numbers : number = <<n>> /\ stream = n.text
  <2>1. stream \in Seq(Range(stream)) /\ targets \in Seq(Range(targets))
    BY <1>3, TextAssumption
  <2>2. taken \in 0 .. Len(stream)
    BY <1>1, <2>1
  <2>3. QED
    BY <1>1, <1>3, <2>1, <2>2 DEF FindInv, FindsFirst
<1>4. QED
  BY <1>2, <1>3 DEF StreamInit

LEMMA FindStep == FindInv /\ findMulti => FindInv'
<1> SUFFICES ASSUME FindInv, findMulti PROVE FindInv'
  OBVIOUS
<1>1. /\ reading = "find" /\ UNCHANGED <<stream, targets, paused, number, negative, amount, places, started>>
      /\ reading' = IF found' = 0 THEN "find" ELSE "over"
  BY DEF findMulti
<1>2. /\ stream \in Seq(Range(stream)) /\ targets \in Seq(Range(targets)) /\ Len(stream) \in Nat
      /\ \A t \in DOMAIN targets : targets[t] \in Seq(Range(targets[t])) /\ Len(targets[t]) \in Nat
      /\ taken \in 0 .. Len(stream) /\ DOMAIN targets = 1 .. Len(targets) /\ Len(targets) \in Nat
      /\ \A t \in DOMAIN targets : found = 0 /\ \A n \in 1 .. taken : ~Ends(t, n)
  BY <1>1 DEF FindInv
<1>3. \A t, n : Ends(t, n)' = Ends(t, n)
  BY <1>1 DEF Ends
<1>4. Empty' = Empty
  BY <1>1 DEF Empty
<1>5. CASE Empty # {}
  <2>1. found' = Min(Empty) /\ taken' = taken /\ index' = index /\ taken = 0
    BY <1>1, <1>5 DEF findMulti, FindInv, Empty
  <2>2. Empty \subseteq Nat /\ Empty \subseteq DOMAIN targets
    BY <1>2 DEF Empty
  <2>3. found' \in Empty
    BY <1>5, <2>1, <2>2, MinIs
  <2>4. found' \in DOMAIN targets /\ found' # 0 /\ reading' = "over"
    BY <1>1, <1>2, <2>2, <2>3
  <2>5. Ends(found', 0)
    <3>1. PICK t \in DOMAIN targets : t = found' /\ targets[t] = <<>>
      BY <2>3 DEF Empty
    <3>2. Len(targets[t]) = 0 /\ 0 \in 0 .. Len(stream)
      BY <1>2, <3>1
    <3>3. Border(targets[t], 0, 0)
      BY <3>2 DEF Border
    <3>4. QED
      BY <1>2, <3>1, <3>2, <3>3, EndIs
  <2>6. FindsFirst'
    <3>1. Ends(found', taken')
      BY <2>1, <2>5
    <3>2. Ends(found, taken)'
      BY <1>1, <3>1 DEF Ends
    <3>3. QED
      BY <2>1, <3>2 DEF FindsFirst
  <2>7. QED
    BY <1>1, <1>2, <2>1, <2>4, <2>6 DEF FindInv
<1>6. CASE Empty = {}
  <2> DEFINE c == NextChar
             whole == {t \in DOMAIN targets : index'[t] = Len(targets[t])}
             n == taken + 1
  <2>1. /\ taken < Len(stream) /\ taken' = n
        /\ index' = [t \in DOMAIN targets |-> Matched(targets[t], index[t], c)]
        /\ found' = IF whole = {} THEN 0 ELSE Min(whole)
    <3>1. {t \in DOMAIN targets : targets[t] = <<>>} = {}
      BY <1>6 DEF Empty
    <3>2. {t \in DOMAIN targets : index'[t] = Len(targets'[t])} = whole
      BY <1>1
    <3>3. QED
      BY <1>1, <3>1, <3>2, Zenon DEF findMulti, More
  <2>2. n \in 1 .. Len(stream) /\ n \in 0 .. Len(stream) /\ taken \in Nat
    BY <1>2, <2>1
  <2>3. ASSUME NEW t \in DOMAIN targets
        PROVE  index'[t] \in 0 .. Len(targets[t]) /\ Longest(targets[t], n, index'[t])
    <3>1. index[t] \in 0 .. Len(targets[t]) - 1 /\ Longest(targets[t], taken, index[t])
      BY <1>1, <1>6 DEF FindInv
    <3>2. index[t] \in Nat /\ index[t] < Len(targets[t])
      BY <1>2, <3>1
    <3>3. Longest(targets[t], taken + 1, Matched(targets[t], index[t], stream[taken + 1]))
      BY <1>2, <2>2, <3>1, <3>2, MatchedIsLongest
    <3>4. index'[t] = Matched(targets[t], index[t], stream[taken + 1])
      BY <2>1 DEF NextChar
    <3>5. QED
      BY <3>3, <3>4 DEF Longest, Border
  <2>4. ASSUME NEW t \in DOMAIN targets
        PROVE  Ends(t, n) <=> t \in whole
    <3>1. Ends(t, n) <=> Border(targets[t], n, Len(targets[t]))
      BY <1>2, <2>2, EndIs
    <3>2. Border(targets[t], n, Len(targets[t])) <=> index'[t] = Len(targets[t])
      <4>1. Len(targets[t]) \in 0 .. Len(targets[t])
        BY <1>2
      <4>2. ASSUME Border(targets[t], n, Len(targets[t])) PROVE index'[t] = Len(targets[t])
        <5>1. Len(targets[t]) <= index'[t] /\ index'[t] \in 0 .. Len(targets[t])
          BY <2>3, <4>1, <4>2 DEF Longest
        <5>2. QED
          BY <1>2, <5>1
      <4>3. ASSUME index'[t] = Len(targets[t]) PROVE Border(targets[t], n, Len(targets[t]))
        BY <2>3, <4>3 DEF Longest
      <4>4. QED
        BY <4>2, <4>3
    <3>3. QED
      BY <3>1, <3>2
  <2>6. \A t \in DOMAIN targets : Longest(targets[t], taken, index[t])' = Longest(targets[t], n, index'[t])
    BY <1>1, <2>1 DEF Longest, Border
  <2>7. \A m \in 1 .. n : m = n \/ m \in 1 .. taken
    BY <1>2
  <2>8. whole \subseteq DOMAIN targets
    OBVIOUS
  <2> HIDE DEF whole, c, n
  <2>9. CASE whole = {}
    <3>1. found' = 0 /\ reading' = "find"
      BY <1>1, <2>1, <2>9
    <3>2. \A t \in DOMAIN targets : \A m \in 1 .. n : ~Ends(t, m)
      BY <1>2, <2>4, <2>7, <2>9
    <3>3. \A t \in DOMAIN targets : index'[t] \in 0 .. Len(targets[t]) - 1
      <4> SUFFICES ASSUME NEW t \in DOMAIN targets PROVE index'[t] \in 0 .. Len(targets[t]) - 1
        OBVIOUS
      <4>1. index'[t] # Len(targets[t])
        BY <2>9 DEF whole
      <4>2. QED
        BY <1>2, <2>3, <4>1
    <3>4. \A t \in DOMAIN targets : \A m \in 1 .. taken' : ~Ends(t, m)'
      BY <1>3, <2>1, <3>2
    <3>5. FindsFirst'
      BY <1>1, <3>1, <3>4 DEF FindsFirst
    <3>6. \A t \in DOMAIN targets : Longest(targets[t], taken, index[t])'
      BY <2>3, <2>6
    <3>7. taken' \in 0 .. Len(stream)
      BY <2>1, <2>2
    <3>8. QED
      BY <1>1, <1>2, <1>4, <1>6, <3>1, <3>3, <3>4, <3>5, <3>6, <3>7 DEF FindInv
  <2>10. CASE whole # {}
    <3>1. found' = Min(whole)
      BY <2>1, <2>10, Zenon
    <3>2. whole \subseteq Nat
      BY <1>2, <2>8
    <3>3. found' \in whole /\ \A t \in whole : found' <= t
      BY <2>10, <3>1, <3>2, MinIs
    <3>4. found' \in 1 .. Len(targets) /\ reading' = "over"
      BY <1>1, <1>2, <2>8, <3>3
    <3>5. ASSUME NEW t \in DOMAIN targets, NEW m \in 1 .. n, Ends(t, m)
          PROVE  m = n /\ found' \in 1 .. t
      <4>1. m = n
        BY <1>2, <2>7, <3>5
      <4>2. t \in whole
        BY <2>4, <3>5, <4>1
      <4>3. QED
        BY <1>2, <3>3, <3>4, <4>1, <4>2
    <3>6. Ends(found', n)
      BY <2>4, <2>8, <3>3
    <3>7. FindsFirst'
      <4>1. Ends(found, taken)'
        BY <1>1, <2>1, <3>6 DEF Ends
      <4>2. \A t \in DOMAIN targets', m \in 1 .. taken' : Ends(t, m)' => m = taken' /\ found' \in 1 .. t
        BY <1>1, <1>3, <2>1, <3>5
      <4>3. QED
        BY <4>1, <4>2 DEF FindsFirst
    <3>8. taken' \in 0 .. Len(stream)
      BY <2>1, <2>2
    <3>9. QED
      BY <1>1, <1>2, <3>4, <3>7, <3>8 DEF FindInv
  <2>11. QED
    BY <2>9, <2>10
<1>7. QED
  BY <1>5, <1>6

LEMMA NumberStep == FindInv /\ parseNumber => FindInv'
<1> SUFFICES ASSUME FindInv, parseNumber PROVE FindInv'
  OBVIOUS
<1>1. /\ reading = "number" /\ targets = <<>> /\ UNCHANGED <<stream, targets, found>>
      /\ taken \in 0 .. Len(stream) /\ Len(stream) \in Nat /\ taken < Len(stream)
  BY DEF parseNumber, More, FindInv
<1>2. taken' \in 0 .. Len(stream') /\ reading' \in {"number", "over"}
  BY <1>1 DEF parseNumber
<1>3. QED
  BY <1>1, <1>2 DEF FindInv, FindsFirst

LEMMA PauseStep == FindInv /\ TimesOut => FindInv'
<1> SUFFICES ASSUME FindInv, TimesOut PROVE FindInv'
  OBVIOUS
<1>1. reading' = "over" /\ UNCHANGED <<stream, taken, targets, found>>
  BY DEF TimesOut
<1>2. FindsFirst'
  BY <1>1 DEF FindInv, FindsFirst, Ends
<1>3. QED
  BY <1>1, <1>2 DEF FindInv

LEMMA FindStays == FindInv /\ [StreamNext]_streamVars => FindInv'
<1> SUFFICES ASSUME FindInv, UNCHANGED streamVars PROVE FindInv'
  BY FindStep, NumberStep, PauseStep DEF StreamNext
<1>1. QED
  BY DEF streamVars, FindInv, FindsFirst, Ends, Empty, Longest, Border

(* findMulti finds the first place where a target ends and the first of    *)
(* those that end there, for any text, any targets and a pause anywhere.   *)
THEOREM TargetsAreFound == StreamSpec => []FindsFirst
<1>1. FindInv => FindsFirst
  BY DEF FindInv
<1>2. QED
  BY <1>1, FindBegins, FindStays, PTL DEF StreamSpec

-----------------------------------------------------------------------------
(* StreamReader: numbers.                                                  *)

(* The value of the digits, as ValueTo gives it, follows from its value at *)
(* the place before.                                                       *)
Worth(text, b, k, before) ==
  IF k <= b THEN 0
  ELSE IF text[k] \in DOMAIN Digit THEN before * 10 + Digit[text[k]] ELSE before

ValuesTo(text, b, m, value) == value = [k \in 0 .. m |-> Worth(text, b, k, value[k - 1])]

LEMMA ValuesExist ==
  ASSUME NEW text, NEW b \in Nat
  PROVE  \A m \in Nat : \E value : ValuesTo(text, b, m, value)
<1> DEFINE S == {m \in Nat : \E value : ValuesTo(text, b, m, value)}
<1>1. 0 \in S
  <2> DEFINE f == [k \in 0 .. 0 |-> 0]
  <2>1. \A k \in 0 .. 0 : Worth(text, b, k, f[k - 1]) = 0
    BY DEF Worth
  <2>2. f = [k \in 0 .. 0 |-> Worth(text, b, k, f[k - 1])]
    BY <2>1
  <2> HIDE DEF f
  <2>3. ValuesTo(text, b, 0, f)
    BY <2>2 DEF ValuesTo
  <2>4. QED
    BY <2>3
<1>2. ASSUME NEW m \in Nat, m \in S PROVE m + 1 \in S
  <2>1. PICK f : ValuesTo(text, b, m, f)
    BY <1>2
  <2> DEFINE g == [k \in 0 .. m + 1 |-> IF k = m + 1 THEN Worth(text, b, m + 1, f[m]) ELSE f[k]]
  <2>2. \A k \in 0 .. m : f[k] = Worth(text, b, k, f[k - 1])
    BY <2>1 DEF ValuesTo
  <2>3. ASSUME NEW k \in 0 .. m + 1 PROVE g[k] = Worth(text, b, k, g[k - 1])
    <3>1. CASE k = m + 1
      <4>1. g[k] = Worth(text, b, m + 1, f[m]) /\ g[k - 1] = f[m]
        BY <3>1
      <4> HIDE DEF g
      <4>2. QED
        BY <3>1, <4>1
    <3>2. CASE k \in 1 .. m
      <4>1. g[k] = f[k] /\ g[k - 1] = f[k - 1] /\ k \in 0 .. m
        BY <3>2
      <4> HIDE DEF g
      <4>2. QED
        BY <2>2, <4>1
    <3>3. CASE k = 0
      <4>1. g[k] = f[0] /\ 0 \in 0 .. m
        BY <3>3
      <4>2. f[0] = Worth(text, b, 0, f[0 - 1])
        BY <2>2, <4>1
      <4>3. f[0] = 0
        BY <4>2 DEF Worth
      <4> HIDE DEF g
      <4>4. QED
        BY <3>3, <4>1, <4>3 DEF Worth
    <3>4. QED
      BY <3>1, <3>2, <3>3
  <2>4. g = [k \in 0 .. m + 1 |-> g[k]]
    OBVIOUS
  <2> HIDE DEF g
  <2>5. ValuesTo(text, b, m + 1, g)
    BY <2>3, <2>4 DEF ValuesTo
  <2>6. QED
    BY <2>5
<1> HIDE DEF S
<1>3. Nat \subseteq S
  BY <1>1, <1>2, Counting
<1>4. QED
  BY <1>3 DEF S

LEMMA ValueIs ==
  ASSUME NEW text, Len(text) \in Nat, NEW b \in Nat
  PROVE  \A k \in 0 .. Len(text) : ValueTo(text, b)[k] = Worth(text, b, k, ValueTo(text, b)[k - 1])
<1>1. PICK f : ValuesTo(text, b, Len(text), f)
  BY ValuesExist
<1>2. ValueTo(text, b) = CHOOSE g : ValuesTo(text, b, Len(text), g)
  BY Zenon DEF ValueTo, ValuesTo, Worth
<1>3. ValuesTo(text, b, Len(text), ValueTo(text, b))
  BY <1>1, <1>2, Zenon
<1>4. QED
  BY <1>3 DEF ValuesTo

LEMMA DecimalsFinite ==
  ASSUME NEW text, NEW b \in Nat, NEW k \in Nat
  PROVE  /\ IsFiniteSet(Decimals(text, b, k)) /\ Cardinality(Decimals(text, b, k)) \in Nat
<1>1. b + 1 \in Int /\ k \in Int
  OBVIOUS
<1>2. IsFiniteSet(b + 1 .. k)
  BY <1>1, FS_Interval
<1>3. Decimals(text, b, k) \subseteq b + 1 .. k
  BY DEF Decimals
<1>4. IsFiniteSet(Decimals(text, b, k))
  BY <1>2, <1>3, FS_Subset
<1>5. QED
  BY <1>4, FS_CardinalityType

(* A number has one point.                                                 *)
LEMMA PointOnce ==
  ASSUME NEW text, NEW b \in Nat, NEW k \in Nat, NEW m \in Nat, k + 1 <= m, b <= k,
         \A i, j \in Points(text, b, m) : i = j, text[k + 1] = "."
  PROVE  Points(text, b, k) = {}
<1> SUFFICES ASSUME NEW i \in Points(text, b, k) PROVE FALSE
  OBVIOUS
<1>1. i \in b + 1 .. k /\ text[i] = "."
  BY DEF Points
<1>2. i \in Points(text, b, m) /\ k + 1 \in Points(text, b, m)
  BY <1>1 DEF Points
<1>3. i = k + 1
  BY <1>2
<1>4. QED
  BY <1>1, <1>3

(* How many decimals there are up to the next place.                       *)
LEMMA PlacesNext ==
  ASSUME NEW text, NEW b \in Nat, NEW k \in Nat, b <= k
  PROVE  PlacesTo(text, b, k + 1) =
           IF text[k + 1] = "." /\ Points(text, b, k) = {} THEN 0
           ELSE IF text[k + 1] \in DOMAIN Digit /\ PlacesTo(text, b, k) >= 0
             THEN PlacesTo(text, b, k) + 1 ELSE PlacesTo(text, b, k)
<1> DEFINE c == text[k + 1]
<1>1. "." \notin DOMAIN Digit
  BY DEF Digit
<1>2. Points(text, b, k + 1) = IF c = "." THEN Points(text, b, k) \cup {k + 1} ELSE Points(text, b, k)
  BY DEF Points
<1>3. \A i \in b + 1 .. k : \A p \in Points(text, b, k + 1) : p < i => p \in Points(text, b, k)
  BY DEF Points
<1>4. Points(text, b, k) \subseteq b + 1 .. k /\ Points(text, b, k) \subseteq Points(text, b, k + 1)
  BY <1>2 DEF Points
<1>5. Decimals(text, b, k + 1) = IF c \in DOMAIN Digit /\ Points(text, b, k) # {}
                                   THEN Decimals(text, b, k) \cup {k + 1} ELSE Decimals(text, b, k)
  <2> HIDE DEF c
  <2>1. ASSUME NEW i \in b + 1 .. k PROVE i \in Decimals(text, b, k + 1) <=> i \in Decimals(text, b, k)
    <3>1. i \in b + 1 .. k + 1
      OBVIOUS
    <3>2. (\E p \in Points(text, b, k + 1) : p < i) <=> (\E p \in Points(text, b, k) : p < i)
      BY <1>3, <1>4
    <3>3. QED
      BY <3>1, <3>2, Zenon DEF Decimals
  <2>2. k + 1 \in Decimals(text, b, k + 1) <=> c \in DOMAIN Digit /\ Points(text, b, k) # {}
    <3>1. k + 1 \in b + 1 .. k + 1 /\ ~(k + 1 < k + 1)
      OBVIOUS
    <3>2. \A p \in Points(text, b, k) : p < k + 1
      BY <1>4
    <3>3. (\E p \in Points(text, b, k + 1) : p < k + 1) <=> Points(text, b, k) # {}
      BY <1>2, <3>1, <3>2, Zenon
    <3>4. QED
      BY <3>1, <3>3, Zenon DEF Decimals, c
  <2>3. Decimals(text, b, k + 1) \subseteq b + 1 .. k + 1 /\ Decimals(text, b, k) \subseteq b + 1 .. k
    BY DEF Decimals
  <2>4. \A i : i \in b + 1 .. k + 1 <=> i = k + 1 \/ i \in b + 1 .. k
    OBVIOUS
  <2>5. k + 1 \notin b + 1 .. k
    OBVIOUS
  <2>6. CASE c \in DOMAIN Digit /\ Points(text, b, k) # {}
    BY <2>1, <2>2, <2>3, <2>4, <2>6
  <2>7. CASE ~(c \in DOMAIN Digit /\ Points(text, b, k) # {})
    <3>1. k + 1 \notin Decimals(text, b, k + 1)
      BY <2>2, <2>7
    <3>2. Decimals(text, b, k + 1) \subseteq Decimals(text, b, k)
      BY <2>1, <2>3, <2>4, <3>1
    <3>3. Decimals(text, b, k) \subseteq Decimals(text, b, k + 1)
      BY <2>1, <2>3
    <3>4. QED
      BY <2>7, <3>2, <3>3
  <2>8. QED
    BY <2>6, <2>7
<1>6. IsFiniteSet(Decimals(text, b, k)) /\ k + 1 \notin Decimals(text, b, k)
  <2>1. k + 1 \notin b + 1 .. k /\ Decimals(text, b, k) \subseteq b + 1 .. k
    BY DEF Decimals
  <2>2. QED
    BY <2>1, DecimalsFinite
<1>7. Cardinality(Decimals(text, b, k)) \in Nat
  BY DecimalsFinite
<1>8. Cardinality(Decimals(text, b, k) \cup {k + 1}) = Cardinality(Decimals(text, b, k)) + 1
  BY <1>6, FS_AddElement
<1>9. Points(text, b, k) = {} => Decimals(text, b, k) = {}
  BY DEF Decimals
<1> HIDE DEF c
<1>10. CASE c = "."
  <2>1. Points(text, b, k + 1) # {} /\ Decimals(text, b, k + 1) = Decimals(text, b, k)
    BY <1>1, <1>2, <1>5, <1>10
  <2>2. PlacesTo(text, b, k + 1) = Cardinality(Decimals(text, b, k))
    BY <2>1 DEF PlacesTo
  <2>3. Points(text, b, k) = {} => PlacesTo(text, b, k + 1) = 0
    BY <1>9, <2>2, FS_EmptySet
  <2>4. Points(text, b, k) # {} => PlacesTo(text, b, k) = Cardinality(Decimals(text, b, k))
    BY DEF PlacesTo
  <2>5. QED
    BY <1>1, <1>10, <2>2, <2>3, <2>4 DEF c
<1>11. CASE c # "."
  <2>1. Points(text, b, k + 1) = Points(text, b, k)
    BY <1>2, <1>11
  <2>2. CASE Points(text, b, k) = {}
    <3>1. PlacesTo(text, b, k + 1) = -1 /\ PlacesTo(text, b, k) = -1
      BY <2>1, <2>2 DEF PlacesTo
    <3>2. QED
      BY <1>11, <3>1 DEF c
  <2>3. CASE Points(text, b, k) # {}
    <3>1. /\ PlacesTo(text, b, k + 1) = Cardinality(Decimals(text, b, k + 1))
          /\ PlacesTo(text, b, k) = Cardinality(Decimals(text, b, k))
      BY <2>1, <2>3 DEF PlacesTo
    <3>2. CASE c \in DOMAIN Digit
      <4>1. PlacesTo(text, b, k + 1) = PlacesTo(text, b, k) + 1 /\ PlacesTo(text, b, k) >= 0
        BY <1>5, <1>7, <1>8, <2>3, <3>1, <3>2
      <4>2. QED
        BY <1>11, <3>2, <4>1 DEF c
    <3>3. CASE c \notin DOMAIN Digit
      <4>1. PlacesTo(text, b, k + 1) = PlacesTo(text, b, k)
        BY <1>5, <3>1, <3>3
      <4>2. QED
        BY <1>11, <3>3, <4>1 DEF c
    <3>4. QED
      BY <3>2, <3>3
  <2>4. QED
    BY <2>2, <2>3
<1>12. QED
  BY <1>10, <1>11

-----------------------------------------------------------------------------
(* What is read of a number that begins behind the first b characters.     *)
ReadInv(n, b) ==
  /\ started <=> taken > b
  /\ negative \in BOOLEAN /\ (negative <=> taken > b /\ stream[b + 1] = "-")
  /\ amount = ValueTo(stream, b)[taken] /\ places = PlacesTo(stream, b, taken)
  /\ reading = "over" /\ ~paused => taken = n.length

NumberInv ==
  /\ number # <<>> =>
       \E n \in Numbers : \E b \in 0 .. Len(n.text) :
         /\ number = <<n>> /\ stream = n.text /\ NumberIn(n, b)
         /\ taken \in 0 .. n.length /\ ReadInv(n, b)
  /\ reading = "find" => number = <<>>
  /\ number # <<>> => reading \in {"number", "over"}

(* What is known of a number in a text.                                    *)
Part(n, c) == c \in DOMAIN Digit \/ (n.decimal /\ c = ".")
Stops(n, b) ==
  n.length < Len(n.text) =>
    /\ n.text[n.length + 1] # Ignore
    /\ Part(n, n.text[n.length + 1]) =>
         n.text[n.length + 1] = "." /\ Points(n.text, b, n.length) # {}

LEMMA NumberFacts ==
  ASSUME NEW n \in Numbers, NEW b \in 0 .. Len(n.text), NumberIn(n, b)
  PROVE  /\ n.text \in Seq(Range(n.text)) /\ Len(n.text) \in Nat /\ n.decimal \in BOOLEAN
         /\ b \in Nat /\ n.length \in b + 1 .. Len(n.text)
         /\ \A i \in 1 .. b : ~Part(n, n.text[i]) /\ n.text[i] # "-"
         /\ Part(n, n.text[b + 1]) \/ n.text[b + 1] = "-"
         /\ \A i \in b + 2 .. n.length : Part(n, n.text[i]) \/ n.text[i] = Ignore
         /\ \A i, j \in Points(n.text, b, n.length) : i = j
         /\ Stops(n, b)
         /\ n.negative = (n.text[b + 1] = "-")
         /\ n.value = ValueTo(n.text, b)[n.length] /\ n.places = PlacesTo(n.text, b, n.length)
<1>1. n.text \in Seq(Range(n.text)) /\ n.decimal \in BOOLEAN
  BY TextAssumption, NumberAssumption
<1>2. Len(n.text) \in Nat /\ b \in Nat
  BY <1>1
<1>3. /\ n.length \in b + 1 .. Len(n.text)
      /\ \A i \in 1 .. b : ~Part(n, n.text[i]) /\ n.text[i] # "-"
      /\ Part(n, n.text[b + 1]) \/ n.text[b + 1] = "-"
      /\ \A i \in b + 2 .. n.length : Part(n, n.text[i]) \/ n.text[i] = Ignore
      /\ \A i, j \in Points(n.text, b, n.length) : i = j
      /\ n.negative = (n.text[b + 1] = "-")
      /\ n.value = ValueTo(n.text, b)[n.length] /\ n.places = PlacesTo(n.text, b, n.length)
  BY Zenon DEF NumberIn, Part
<1>4. Stops(n, b)
  BY Zenon DEF NumberIn, Part, Stops
<1>5. QED
  BY <1>1, <1>2, <1>3, <1>4, Zenon

LEMMA NumberBegins == StreamInit => NumberInv
<1> SUFFICES ASSUME StreamInit, number # <<>> PROVE NumberInv
  BY DEF StreamInit, NumberInv
<1>1. /\ taken = 0 /\ paused = FALSE /\ amount = 0 /\ negative = FALSE /\ places = -1 /\ started = FALSE
      /\ reading = "number" /\ \E n \in Numbers : number = <<n>> /\ stream = n.text
  BY DEF StreamInit
<1>2. PICK n \in Numbers : number = <<n>> /\ stream = n.text
  BY <1>1
<1>3. PICK b \in 0 .. Len(n.text) : NumberIn(n, b)
  BY NumberAssumption
<1>4. b \in Nat /\ Len(n.text) \in Nat /\ n.length \in b + 1 .. Len(n.text)
  BY <1>3, NumberFacts
<1>5. ValueTo(n.text, b)[0] = 0
  <2>1. 0 \in 0 .. Len(n.text)
    BY <1>4
  <2>2. QED
    BY <1>4, <2>1, ValueIs DEF Worth
<1>6. PlacesTo(n.text, b, 0) = -1
  <2>1. Points(n.text, b, 0) = {}
    BY <1>4 DEF Points
  <2>2. QED
    BY <2>1 DEF PlacesTo
<1>7. ReadInv(n, b)
  <2>1. ~(taken > b) /\ ~started /\ negative = FALSE
    BY <1>1, <1>4
  <2>2. amount = ValueTo(stream, b)[taken] /\ places = PlacesTo(stream, b, taken)
    BY <1>1, <1>2, <1>5, <1>6
  <2>3. QED
    BY <1>1, <2>1, <2>2 DEF ReadInv
<1>8. QED
  BY <1>1, <1>2, <1>3, <1>4, <1>7 DEF NumberInv

(* A character that is read.                                               *)
LEMMA CharacterRead == NumberInv /\ parseNumber => NumberInv'
<1> SUFFICES ASSUME NumberInv, parseNumber PROVE NumberInv'
  OBVIOUS
<1> DEFINE c == NextChar
<1>1. CASE number = <<>>
  BY <1>1 DEF NumberInv, parseNumber
<1>2. CASE number # <<>>
  <2>n. PICK n \in Numbers : \E b \in 0 .. Len(n.text) :
          /\ number = <<n>> /\ stream = n.text /\ NumberIn(n, b)
          /\ taken \in 0 .. n.length /\ ReadInv(n, b)
    BY <1>2 DEF NumberInv
  <2>1. PICK b \in 0 .. Len(n.text) :
          /\ number = <<n>> /\ stream = n.text /\ NumberIn(n, b)
          /\ taken \in 0 .. n.length /\ ReadInv(n, b)
    BY <2>n
  <2>2. /\ stream \in Seq(Range(stream)) /\ Len(stream) \in Nat /\ n.decimal \in BOOLEAN
        /\ b \in Nat /\ n.length \in b + 1 .. Len(stream)
        /\ \A i \in 1 .. b : ~Part(n, stream[i]) /\ stream[i] # "-"
        /\ Part(n, stream[b + 1]) \/ stream[b + 1] = "-"
        /\ \A i \in b + 2 .. n.length : Part(n, stream[i]) \/ stream[i] = Ignore
        /\ \A i, j \in Points(stream, b, n.length) : i = j
        /\ Stops(n, b)
    BY <2>1, NumberFacts
  <2>3. /\ reading = "number" /\ taken < Len(stream) /\ UNCHANGED <<stream, paused, number>>
        /\ c = stream[taken + 1] /\ taken \in Nat
    BY <2>1, <2>2 DEF parseNumber, More, NextChar
  <2>4. Decimal = n.decimal
    BY <2>1 DEF Decimal
  <2>5. /\ "." \notin DOMAIN Digit /\ "-" \notin DOMAIN Digit /\ Ignore \notin DOMAIN Digit
        /\ Ignore # "." /\ Ignore # "-"
    BY DEF Digit, Ignore
  <2>6. BeginsNumber(c) <=> c = "-" \/ Part(n, c)
    BY <2>4 DEF BeginsNumber, Part
  <2>7. GoesOn(c) <=> c \in DOMAIN Digit \/ c = Ignore \/ (n.decimal /\ c = "." /\ places = -1)
    BY <2>4 DEF GoesOn
  <2>8. /\ started <=> taken > b
        /\ negative \in BOOLEAN /\ (negative <=> taken > b /\ stream[b + 1] = "-")
        /\ amount = ValueTo(stream, b)[taken] /\ places = PlacesTo(stream, b, taken)
    BY <2>1 DEF ReadInv
  <2>9. places = -1 <=> Points(stream, b, taken) = {}
    <3>1. Cardinality(Decimals(stream, b, taken)) \in Nat
      BY <2>2, <2>3, DecimalsFinite
    <3>2. QED
      BY <2>8, <3>1 DEF PlacesTo
  <2>10. CASE taken = n.length
    <3>1. started /\ ~GoesOn(c)
      <4>1. taken > b
        BY <2>2, <2>10
      <4>2. c # Ignore /\ (Part(n, c) => c = "." /\ Points(stream, b, taken) # {})
        <5>1. n.length < Len(n.text) /\ c = n.text[n.length + 1]
          BY <2>1, <2>3, <2>10
        <5>2. /\ n.text[n.length + 1] # Ignore
              /\ Part(n, n.text[n.length + 1]) =>
                   n.text[n.length + 1] = "." /\ Points(n.text, b, n.length) # {}
          BY <2>2, <5>1, Zenon DEF Stops
        <5> HIDE DEF c
        <5>3. QED
          BY <2>1, <2>10, <5>1, <5>2, Zenon
      <4>3. QED
        BY <2>5, <2>7, <2>8, <2>9, <4>1, <4>2 DEF Part
    <3>2. reading' = "over" /\ UNCHANGED <<taken, negative, amount, places, started>>
      BY <3>1 DEF parseNumber
    <3>3. ReadInv(n, b)'
      BY <2>3, <2>8, <2>10, <3>2 DEF ReadInv
    <3>4. QED
      BY <2>1, <2>3, <3>2, <3>3 DEF NumberInv
  <2>11. CASE taken < n.length
    <3>1. taken + 1 \in 1 .. n.length /\ taken + 1 \in 0 .. Len(stream) /\ (taken + 1) - 1 = taken
      BY <2>2, <2>3, <2>11
    <3>2. ~started \/ GoesOn(c)
      BY <2>2, <2>3, <2>5, <2>7, <2>8, <2>9, <3>1, PointOnce DEF Part
    <3>3. /\ taken' = taken + 1 /\ reading' = reading
          /\ started' = (started \/ BeginsNumber(c))
          /\ IF ~started' \/ c = Ignore THEN UNCHANGED <<negative, amount, places>>
             ELSE /\ negative' = (negative \/ c = "-")
                  /\ amount' = IF c \in DOMAIN Digit THEN amount * 10 + Digit[c] ELSE amount
                  /\ places' = CASE c = "." -> 0
                                 [] c \in DOMAIN Digit /\ places >= 0 -> places + 1
                                 [] OTHER -> places
      BY <3>2 DEF parseNumber
    <3> HIDE DEF c
    <3>4. started' <=> taken' > b
      <4>1. CASE taken < b
        <5>1. taken + 1 \in 1 .. b
          BY <2>2, <2>3, <4>1
        <5>2. ~BeginsNumber(c)
          BY <2>2, <2>3, <2>6, <5>1
        <5>3. QED
          BY <2>2, <2>3, <2>8, <3>3, <4>1, <5>2
      <4>2. CASE taken = b
        <5>1. BeginsNumber(c)
          BY <2>2, <2>3, <2>6, <4>2
        <5>2. started'
          BY <3>3, <5>1
        <5>3. QED
          BY <2>2, <2>3, <3>3, <4>2, <5>2
      <4>3. CASE taken > b
        <5>1. started' = TRUE
          BY <2>8, <3>3, <4>3
        <5>2. QED
          BY <2>2, <2>3, <3>3, <4>3, <5>1
      <4>4. QED
        BY <2>2, <2>3, <4>1, <4>2, <4>3
    <3>5. amount' = ValueTo(stream, b)[taken']
      <4>1. ValueTo(stream, b)[taken + 1] = Worth(stream, b, taken + 1, amount)
        BY <2>2, <2>8, <3>1, ValueIs
      <4>2. CASE taken' > b
        BY <2>2, <2>3, <2>5, <3>3, <3>4, <4>1, <4>2 DEF Worth
      <4>3. CASE ~(taken' > b)
        <5>1. ValueTo(stream, b)[taken] = Worth(stream, b, taken, ValueTo(stream, b)[taken - 1])
          BY <2>2, <2>3, ValueIs
        <5>2. ValueTo(stream, b)[taken] = 0 /\ ValueTo(stream, b)[taken + 1] = 0
          BY <2>2, <2>3, <3>3, <4>1, <4>3, <5>1 DEF Worth
        <5>3. QED
          BY <2>8, <3>3, <3>4, <4>3, <5>2
      <4>4. QED
        BY <4>2, <4>3
    <3>6. places' = PlacesTo(stream, b, taken')
      <4>1. CASE taken' > b
        <5>1. PlacesTo(stream, b, taken + 1) =
                IF c = "." /\ Points(stream, b, taken) = {} THEN 0
                ELSE IF c \in DOMAIN Digit /\ places >= 0 THEN places + 1 ELSE places
          BY <2>2, <2>3, <2>8, <3>3, <4>1, PlacesNext
        <5>2. c = "." => Points(stream, b, taken) = {}
          <6> SUFFICES ASSUME c = "." PROVE Points(stream, b, taken) = {}
            OBVIOUS
          <6>1. b <= taken /\ taken + 1 <= n.length /\ n.length \in Nat /\ stream[taken + 1] = "."
            BY <2>2, <2>3, <3>1, <3>3, <4>1
          <6>2. QED
            BY <2>2, <2>3, <6>1, PointOnce
        <5>3. QED
          BY <2>5, <3>3, <3>4, <4>1, <5>1, <5>2
      <4>2. CASE ~(taken' > b)
        <5>1. Points(stream, b, taken) = {} /\ Points(stream, b, taken + 1) = {}
          BY <2>2, <2>3, <3>3, <4>2 DEF Points
        <5>2. PlacesTo(stream, b, taken) = -1 /\ PlacesTo(stream, b, taken + 1) = -1
          BY <5>1 DEF PlacesTo
        <5>3. QED
          BY <2>8, <3>3, <3>4, <4>2, <5>2
      <4>3. QED
        BY <4>1, <4>2
    <3>7. negative' \in BOOLEAN /\ (negative' <=> taken' > b /\ stream[b + 1] = "-")
      <4>1. CASE ~(taken' > b)
        BY <2>2, <2>3, <2>8, <3>3, <3>4, <4>1
      <4>2. CASE taken = b
        <5>1. c = stream[b + 1] /\ taken' > b /\ ~negative /\ c # Ignore
          BY <2>2, <2>3, <2>5, <2>8, <3>3, <4>2 DEF Part
        <5>2. negative' = (negative \/ c = "-")
          BY <3>3, <3>4, <5>1
        <5>3. QED
          BY <5>1, <5>2
      <4>3. CASE taken > b
        <5>1. c # "-" /\ taken' > b
          <6>1. taken + 1 \in b + 2 .. n.length
            BY <2>2, <2>3, <3>1, <4>3
          <6>2. Part(n, c) \/ c = Ignore
            BY <2>2, <2>3, <6>1
          <6>3. QED
            BY <2>2, <2>3, <2>5, <3>3, <4>3, <6>2 DEF Part
        <5>2. negative' = negative \/ negative' = (negative \/ c = "-")
          BY <3>3
        <5>3. QED
          BY <2>8, <4>3, <5>1, <5>2
      <4>4. QED
        BY <2>2, <2>3, <3>3, <4>1, <4>2, <4>3
    <3>8. ReadInv(n, b)'
      BY <2>3, <3>3, <3>4, <3>5, <3>6, <3>7 DEF ReadInv
    <3>9. QED
      BY <2>1, <2>3, <3>1, <3>3, <3>8 DEF NumberInv
  <2>12. QED
    BY <2>1, <2>2, <2>3, <2>10, <2>11
<1>3. QED
  BY <1>1, <1>2

LEMMA NumberStays == NumberInv /\ [StreamNext]_streamVars => NumberInv'
<1> SUFFICES ASSUME NumberInv, [StreamNext]_streamVars PROVE NumberInv'
  OBVIOUS
<1>1. CASE parseNumber
  BY <1>1, CharacterRead
<1>2. CASE findMulti
  BY <1>2 DEF findMulti, NumberInv
<1>3. CASE TimesOut
  <2>1. paused' = TRUE /\ reading' = "over" /\ reading # "over"
        /\ UNCHANGED <<stream, taken, number, negative, amount, places, started>>
    BY <1>3 DEF TimesOut
  <2>2. \A n, b : ReadInv(n, b) => ReadInv(n, b)'
    BY <2>1 DEF ReadInv
  <2>3. QED
    BY <2>1, <2>2 DEF NumberInv
<1>4. CASE UNCHANGED streamVars
  <2>1. UNCHANGED <<stream, taken, reading, paused, number, negative, amount, places, started>>
    BY <1>4 DEF streamVars
  <2>2. \A n, b : ReadInv(n, b) => ReadInv(n, b)'
    BY <2>1 DEF ReadInv
  <2>3. QED
    BY <2>1, <2>2 DEF NumberInv
<1>5. QED
  BY <1>1, <1>2, <1>3, <1>4 DEF StreamNext

(* A number in a text is read with its value, its sign and its decimals,   *)
(* up to its end and no further, for any text and any number in it, unless *)
(* the peer pauses before the end (parseInt, parseFloat).                  *)
THEOREM NumbersAreRead == StreamSpec => []NumberIsRead
<1>1. NumberInv => NumberIsRead
  <2> SUFFICES ASSUME NumberInv, reading = "over", number # <<>>, paused => taken = Len(stream)
               PROVE  /\ amount = number[1].value /\ negative = number[1].negative
                      /\ places = number[1].places /\ taken = number[1].length
    BY DEF NumberIsRead
  <2>n. PICK n \in Numbers : \E b \in 0 .. Len(n.text) :
          /\ number = <<n>> /\ stream = n.text /\ NumberIn(n, b)
          /\ taken \in 0 .. n.length /\ ReadInv(n, b)
    BY DEF NumberInv
  <2>1. PICK b \in 0 .. Len(n.text) :
          /\ number = <<n>> /\ stream = n.text /\ NumberIn(n, b)
          /\ taken \in 0 .. n.length /\ ReadInv(n, b)
    BY <2>n
  <2>2. /\ Len(stream) \in Nat /\ b \in Nat /\ n.length \in b + 1 .. Len(stream)
        /\ n.negative = (stream[b + 1] = "-")
        /\ n.value = ValueTo(stream, b)[n.length] /\ n.places = PlacesTo(stream, b, n.length)
    BY <2>1, NumberFacts
  <2>3. taken = n.length /\ taken > b
    BY <2>1, <2>2 DEF ReadInv
  <2>4. amount = n.value /\ places = n.places
    BY <2>1, <2>2, <2>3 DEF ReadInv
  <2>5. negative = n.negative
    BY <2>1, <2>2, <2>3 DEF ReadInv
  <2>6. number[1] = n
    BY <2>1
  <2>7. QED
    BY <2>3, <2>4, <2>5, <2>6
<1>2. QED
  BY <1>1, NumberBegins, NumberStays, PTL DEF StreamSpec
=============================================================================
