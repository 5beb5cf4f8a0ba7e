---------------------------- MODULE OutputProofs ----------------------------
(***************************************************************************)
(* Machine-checked proofs about what the device puts out: the datagrams of *)
(* UdpTransmit, for a buffer and pointers of any size and any frames, and  *)
(* the screen of Display, for any texts and numbers.                       *)
(***************************************************************************)
EXTENDS UdpTransmit, Display, DataLemmas

TransmitSpec ==
  UdpInit /\ [][UdpNext]_<<buffer, wr, written, rd, sends, _offset, frame, ble, wanted, step>>

-----------------------------------------------------------------------------
(* UdpTransmit: the inductive invariant.                                   *)

U == Used(rd, wr)

(* A frame as it is sent over a protocol.                                  *)
Form(b, f) == (IF b THEN <<"ble">> ELSE <<"ieee">>) \o (IF b THEN AccessAddress ELSE <<>>) \o f
Forms == {Form(b, f) : b \in BOOLEAN, f \in Frames}
Before(b) == 1 + (IF b THEN Len(AccessAddress) ELSE 0)

(* The datagrams to be sent lie one behind the other, from the read        *)
(* pointer of the chip to the pointer of the last SEND.                    *)
Lies(start) ==
  /\ start \in [1 .. Len(sends) + 1 -> 0 .. U]
  /\ start[1] = 0 /\ start[Len(sends) + 1] = U
  /\ \A i, j \in 1 .. Len(sends) + 1 : i <= j => start[i] <= start[j]
  /\ \A i \in 1 .. Len(sends) :
       /\ start[i + 1] = start[i] + Len(wanted[i])
       /\ sends[i] = (rd + start[i + 1]) % POINTERS
       /\ \A k \in 1 .. Len(wanted[i]) : buffer[(rd + start[i] + k - 1) % SIZE] = wanted[i][k]

QueueInv ==
  /\ wr \in 0 .. POINTERS - 1 /\ rd \in 0 .. POINTERS - 1 /\ U <= SIZE
  /\ wanted \in Seq(Forms) /\ sends \in Seq(0 .. POINTERS - 1) /\ Len(sends) <= Len(wanted)
  /\ \E start \in [1 .. Len(sends) + 1 -> 0 .. U] : Lies(start)

(* Bytes of the datagram under way that are written at each step.          *)
Progress ==
  IF step = "protocol" THEN 0 ELSE IF step = "address" THEN 1
  ELSE IF step = "frame" THEN Before(ble) ELSE Len(Datagram(frame))

(* It fits, and lies behind the pointer of the last SEND.                  *)
FrameInv ==
  /\ ble \in BOOLEAN /\ step \in {"idle", "protocol", "address", "frame", "end"}
  /\ step = "idle" => Len(wanted) = Len(sends)
  /\ step # "idle" =>
       /\ frame \in Frames
       /\ Len(wanted) = Len(sends) + 1 /\ wanted[Len(wanted)] = Datagram(frame)
       /\ U + Len(Datagram(frame)) <= SIZE /\ _offset = Progress
       /\ \A k \in 1 .. _offset : buffer[(wr + k - 1) % SIZE] = Datagram(frame)[k]
  /\ step = "address" => ble
  /\ step = "end" => written = (wr + _offset) % POINTERS

IInv == QueueInv /\ FrameInv

-----------------------------------------------------------------------------
(* Pointers and datagrams.                                                 *)

LEMMA Sizes ==
  SIZE \in Nat /\ SIZE > 0 /\ POINTERS \in Nat /\ POINTERS > 0 /\ POINTERS > SIZE
  BY TransmitAssumption

LEMMA SameCell ==
  ASSUME NEW x \in Int, NEW s \in Int
  PROVE  ((x % POINTERS) + s) % SIZE = (x + s) % SIZE
<1>1. POINTERS % SIZE = 0
  BY TransmitAssumption
<1>2. PICK q \in Nat : POINTERS = q * SIZE
  BY <1>1, Multiple, Sizes
<1>3. QED
  BY <1>2, WrappedCell, Sizes

(* The pointer of the last SEND, from the read pointer.                    *)
LEMMA WrIs ==
  ASSUME QueueInv
  PROVE  /\ U \in 0 .. SIZE /\ U < POINTERS /\ wr = (rd + U) % POINTERS
         /\ wr \in Int /\ rd \in Int
         /\ \A j \in Int : (wr + j) % SIZE = (rd + U + j) % SIZE
<1>1. wr \in 0 .. POINTERS - 1 /\ rd \in 0 .. POINTERS - 1
  BY DEF QueueInv
<1>2. U = (IF wr >= rd THEN wr - rd ELSE wr - rd + POINTERS) /\ U \in 0 .. POINTERS - 1
  BY <1>1, Sizes, PointerDifference DEF U, Used
<1>3. U \in 0 .. SIZE /\ U < POINTERS
  BY <1>2, Sizes DEF QueueInv
<1>4. (rd + U) % POINTERS = IF rd + U < POINTERS THEN rd + U ELSE rd + U - POINTERS
  <2>1. \A u \in 0 .. POINTERS - 1 :
          (rd + u) % POINTERS = IF rd + u < POINTERS THEN rd + u ELSE rd + u - POINTERS
    BY <1>1, Sizes, PointerMoved
  <2>2. QED
    BY <1>2, <2>1
<1>5. wr = (rd + U) % POINTERS
  <2> HIDE DEF U
  <2>1. QED
    BY <1>1, <1>2, <1>4, Sizes
<1>6. \A j \in Int : (wr + j) % SIZE = (rd + U + j) % SIZE
  <2>1. rd + U \in Int
    BY <1>1, <1>2
  <2>2. \A j \in Int : (((rd + U) % POINTERS) + j) % SIZE = (rd + U + j) % SIZE
    BY <2>1, SameCell
  <2>3. QED
    BY <1>5, <2>2
<1>7. QED
  BY <1>1, <1>3, <1>5, <1>6

LEMMA FormIs ==
  ASSUME NEW b \in BOOLEAN, NEW f \in Frames
  PROVE  /\ Len(f) \in Nat /\ Len(AccessAddress) \in Nat /\ Before(b) \in Nat /\ Before(b) >= 1
         /\ Len(Form(b, f)) = Before(b) + Len(f)
         /\ Form(b, f) = [k \in 1 .. Before(b) + Len(f) |-> Form(b, f)[k]]
         /\ Form(b, f)[1] = IF b THEN "ble" ELSE "ieee"
         /\ b => \A k \in 1 .. Len(AccessAddress) : Form(b, f)[1 + k] = AccessAddress[k]
         /\ \A k \in 1 .. Len(f) : Form(b, f)[Before(b) + k] = f[k]
<1> DEFINE tag == IF b THEN <<"ble">> ELSE <<"ieee">>
           adr == IF b THEN AccessAddress ELSE <<>>
           S == {f[i] : i \in DOMAIN f} \cup {AccessAddress[i] : i \in DOMAIN AccessAddress}
                  \cup {"ble", "ieee"}
<1>1. f \in Seq({f[i] : i \in DOMAIN f})
        /\ AccessAddress \in Seq({AccessAddress[i] : i \in DOMAIN AccessAddress})
  BY TransmitAssumption
<1>2. f \in Seq(S) /\ AccessAddress \in Seq(S)
  <2>1. \A A, B : \A s \in Seq(A) : s \in Seq(A \cup B)
    OBVIOUS
  <2>2. QED
    BY <1>1
<1>3. tag \in Seq(S) /\ Len(tag) = 1 /\ tag[1] = IF b THEN "ble" ELSE "ieee"
  <2>1. "ble" \in S /\ "ieee" \in S
    OBVIOUS
  <2> HIDE DEF S
  <2>2. CASE b
    BY <2>1, <2>2
  <2>3. CASE ~b
    BY <2>1, <2>3
  <2>4. QED
    BY <2>2, <2>3
<1>4. adr \in Seq(S) /\ 1 + Len(adr) = Before(b) /\ Len(adr) \in Nat /\ (b => adr = AccessAddress)
  BY <1>2 DEF Before
<1>5. Form(b, f) = (tag \o adr) \o f
  BY DEF Form
<1> HIDE DEF tag, adr, S
<1> DEFINE h == tag \o adr
<1>6. /\ h \in Seq(S) /\ Len(h) = Before(b)
      /\ \A k \in 1 .. Before(b) : h[k] = IF k <= 1 THEN tag[k] ELSE adr[k - 1]
  <2>1. tag \o adr \in Seq(S) /\ Len(tag \o adr) = Len(tag) + Len(adr)
        /\ \A i \in 1 .. Len(tag) + Len(adr) :
             (tag \o adr)[i] = IF i <= Len(tag) THEN tag[i] ELSE adr[i - Len(tag)]
    <3>1. tag \in Seq(S) /\ adr \in Seq(S)
      BY <1>3, <1>4
    <3>2. QED
      BY <3>1, ConcatProperties
  <2>2. QED
    BY <1>3, <1>4, <2>1
<1>7. Form(b, f) = h \o f
  BY <1>5
<1> HIDE DEF h
<1>8. Len(f) \in Nat /\ Len(AccessAddress) \in Nat /\ Before(b) \in Nat /\ Before(b) >= 1
  BY <1>2, <1>4
<1>9. /\ h \o f \in Seq(S) /\ Len(h \o f) = Before(b) + Len(f)
      /\ \A k \in 1 .. Before(b) + Len(f) :
           (h \o f)[k] = IF k <= Before(b) THEN h[k] ELSE f[k - Before(b)]
  <2>1. h \o f \in Seq(S) /\ Len(h \o f) = Len(h) + Len(f)
        /\ \A i \in 1 .. Len(h) + Len(f) :
             (h \o f)[i] = IF i <= Len(h) THEN h[i] ELSE f[i - Len(h)]
    <3>1. h \in Seq(S) /\ f \in Seq(S)
      BY <1>2, <1>6
    <3>2. QED
      BY <3>1, ConcatProperties
  <2>2. Len(h) = Before(b)
    BY <1>6
  <2>3. QED
    BY <2>1, <2>2
<1> DEFINE g == h \o f
<1>10. g \in Seq(S) /\ Len(g) = Before(b) + Len(f)
  BY <1>9
<1>11. \A k \in 1 .. Before(b) + Len(f) : g[k] = IF k <= Before(b) THEN h[k] ELSE f[k - Before(b)]
  BY <1>9
<1>12. Form(b, f) = g
  BY <1>7
<1> HIDE DEF g
<1>13. g = [k \in 1 .. Before(b) + Len(f) |-> g[k]]
  BY <1>10
<1>14. g[1] = IF b THEN "ble" ELSE "ieee"
  BY <1>3, <1>6, <1>8, <1>11
<1>15. ASSUME b, NEW k \in 1 .. Len(AccessAddress) PROVE g[1 + k] = AccessAddress[k]
  <2>a. adr = AccessAddress
    BY <1>4, <1>15
  <2>1. 1 + k \in 1 .. Before(b) /\ ~(1 + k <= 1) /\ (1 + k) - 1 = k
    BY <1>4, <1>8, <2>a
  <2>2. 1 + k \in 1 .. Before(b) + Len(f) /\ 1 + k <= Before(b)
    BY <1>8, <2>1
  <2>3. g[1 + k] = h[1 + k]
    BY <1>11, <2>2
  <2>4. h[1 + k] = adr[(1 + k) - 1]
    BY <1>6, <2>1
  <2>5. QED
    BY <2>1, <2>3, <2>4, <2>a
<1>16. ASSUME NEW k \in 1 .. Len(f) PROVE g[Before(b) + k] = f[k]
  <2>1. Before(b) + k \in 1 .. Before(b) + Len(f) /\ ~(Before(b) + k <= Before(b))
          /\ (Before(b) + k) - Before(b) = k
    BY <1>8
  <2>2. QED
    BY <1>11, <2>1
<1>17. QED
  BY <1>8, <1>10, <1>12, <1>13, <1>14, <1>15, <1>16

(* A write goes behind what waits to be sent and behind the writes before. *)
LEMMA Writes ==
  ASSUME QueueInv, _offset \in Nat, NEW bytes, Len(bytes) \in Nat,
         U + _offset + Len(bytes) <= SIZE, bufferData(bytes),
         UNCHANGED <<wr, rd, sends, wanted>>
  PROVE  /\ _offset' = _offset + Len(bytes) /\ written' = (wr + _offset + Len(bytes)) % POINTERS
         /\ \A o \in 0 .. U + _offset - 1 : buffer'[(rd + o) % SIZE] = buffer[(rd + o) % SIZE]
         /\ \A k \in 1 .. _offset : buffer'[(wr + k - 1) % SIZE] = buffer[(wr + k - 1) % SIZE]
         /\ \A k \in 1 .. Len(bytes) : buffer'[(wr + _offset + k - 1) % SIZE] = bytes[k]
<1> DEFINE n == Len(bytes)
           from == (wr + _offset) % POINTERS
           V == U + _offset
           cell(o) == (rd + o) % SIZE
<1>1. /\ U \in 0 .. SIZE /\ wr = (rd + U) % POINTERS /\ U < POINTERS
      /\ \A j \in Int : (wr + j) % SIZE = (rd + U + j) % SIZE
      /\ wr \in 0 .. POINTERS - 1 /\ rd \in 0 .. POINTERS - 1
  BY WrIs DEF QueueInv
<1>2. n \in Nat /\ V \in 0 .. SIZE /\ V + n <= SIZE /\ n <= SIZE - U /\ SIZE - U \in Nat
        /\ V \in 0 .. POINTERS - 1
  <2>1. n \in Nat /\ U \in 0 .. SIZE /\ U + _offset + n <= SIZE
    BY <1>1
  <2> HIDE DEF U, n
  <2>2. QED
    BY <2>1, Sizes
<1>3. from = (rd + V) % POINTERS /\ from \in 0 .. POINTERS - 1
  <2>1. rd \in Int /\ U \in Int
    BY <1>1
  <2>2. Moved(POINTERS, Moved(POINTERS, rd, U), _offset) = Moved(POINTERS, rd, U + _offset)
    BY <2>1, MovedTwice, Sizes
  <2>3. from = (rd + V) % POINTERS
    BY <1>1, <2>2 DEF Moved
  <2>4. \A v \in 0 .. POINTERS - 1 : (rd + v) % POINTERS \in 0 .. POINTERS - 1
    BY <1>1, PointerMoved, Sizes
  <2> HIDE DEF V, U
  <2>5. QED
    BY <1>2, <2>3, <2>4
<1>4. V = (from - rd) % POINTERS
  <2> HIDE DEF V, from
  <2>1. (((rd + V) % POINTERS) - rd) % POINTERS = V
    BY <1>1, <1>2, DistanceMoved, Sizes
  <2>2. QED
    BY <1>3, <2>1
<1>5. Min({n, W5500_getTXFreeSize}) = n
  <2>1. W5500_getTXFreeSize = SIZE - U
    BY DEF W5500_getTXFreeSize, U
  <2> HIDE DEF n, V, U
  <2>2. Min({n, SIZE - U}) = n
    BY <1>2, MinOfTwo
  <2>3. QED
    BY <2>1, <2>2
<1>6. /\ buffer' = [i \in 0 .. SIZE - 1 |->
                      LET k == (i - from) % SIZE IN IF k < n THEN bytes[k + 1] ELSE buffer[i]]
      /\ written' = (from + n) % POINTERS /\ _offset' = _offset + n
  BY <1>5 DEF bufferData
<1>7. written' = (wr + _offset + n) % POINTERS
  <2>1. wr \in Int /\ n \in Int
    BY <1>1
  <2> HIDE DEF n
  <2>2. Moved(POINTERS, Moved(POINTERS, wr, _offset), n) = Moved(POINTERS, wr, _offset + n)
    BY <2>1, MovedTwice, Sizes
  <2>3. wr + (_offset + n) = wr + _offset + n
    BY <2>1
  <2>4. QED
    BY <1>6, <2>2, <2>3 DEF Moved
<1>8. \A o \in 0 .. SIZE - 1 : CellDistance(SIZE, rd, from, o) = Distance(SIZE, V, o)
  <2>1. IsRing(POINTERS, SIZE)
    BY TransmitAssumption DEF IsRing
  <2>2. Holding(POINTERS, SIZE, rd, from, V)
    <3> HIDE DEF V, from
    <3>1. QED
      BY <1>1, <1>2, <1>3, <1>4 DEF Holding
  <2> HIDE DEF V, from
  <2>3. QED
    BY <2>1, <2>2, DistanceOfCell
<1>9. \A o \in 0 .. SIZE - 1 : cell(o) \in 0 .. SIZE - 1
  <2>1. rd \in Int
    BY <1>1
  <2>2. QED
    BY <2>1, Sizes
<1>10. \A o \in 0 .. SIZE - 1 :
        buffer'[cell(o)] = IF CellDistance(SIZE, rd, from, o) < n
                           THEN bytes[CellDistance(SIZE, rd, from, o) + 1] ELSE buffer[cell(o)]
  <2> HIDE DEF n, from
  <2>1. QED
    BY <1>6, <1>9 DEF CellDistance
<1>11. ASSUME NEW o \in 0 .. V - 1 PROVE buffer'[cell(o)] = buffer[cell(o)]
  <2> HIDE DEF V, n, from, cell
  <2>1. o \in 0 .. SIZE - 1
    BY <1>2, Sizes
  <2>2. Distance(SIZE, V, o) = o - V + SIZE /\ ~(o - V + SIZE < n)
    BY <1>2, Sizes DEF Distance
  <2>3. QED
    BY <1>8, <1>10, <2>1, <2>2
<1>12. ASSUME NEW k \in 1 .. n PROVE buffer'[cell(V + k - 1)] = bytes[k]
  <2> HIDE DEF V, n, from, cell
  <2>1. V + k - 1 \in 0 .. SIZE - 1
    BY <1>2, Sizes
  <2>2. Distance(SIZE, V, V + k - 1) = k - 1 /\ k - 1 < n /\ (k - 1) + 1 = k
    BY <1>2, Sizes DEF Distance
  <2>3. QED
    BY <1>8, <1>10, <2>1, <2>2
<1>13. ASSUME NEW k \in 1 .. _offset
       PROVE  buffer'[(wr + k - 1) % SIZE] = buffer[(wr + k - 1) % SIZE]
  <2>1. k - 1 \in Int /\ wr + (k - 1) = wr + k - 1 /\ U + (k - 1) \in 0 .. V - 1
          /\ rd + U + (k - 1) = rd + (U + (k - 1))
    <3> HIDE DEF U
    <3>1. QED
      BY <1>1
  <2>2. (wr + (k - 1)) % SIZE = (rd + U + (k - 1)) % SIZE
    BY <1>1, <2>1
  <2>3. buffer'[cell(U + (k - 1))] = buffer[cell(U + (k - 1))]
    BY <1>11, <2>1
  <2>4. QED
    BY <2>1, <2>2, <2>3
<1>14. ASSUME NEW k \in 1 .. n
       PROVE  buffer'[(wr + _offset + k - 1) % SIZE] = bytes[k]
  <2>1. _offset + (k - 1) \in Int /\ wr + (_offset + (k - 1)) = wr + _offset + k - 1
          /\ rd + U + (_offset + (k - 1)) = rd + (V + k - 1)
    <3> HIDE DEF U
    <3>1. QED
      BY <1>1
  <2>2. (wr + (_offset + (k - 1))) % SIZE = (rd + U + (_offset + (k - 1))) % SIZE
    BY <1>1, <2>1
  <2>3. QED
    BY <1>12, <2>1, <2>2
<1>15. /\ _offset' = _offset + Len(bytes)
       /\ written' = (wr + _offset + Len(bytes)) % POINTERS
  BY <1>6, <1>7
<1>16. \A o \in 0 .. U + _offset - 1 : buffer'[(rd + o) % SIZE] = buffer[(rd + o) % SIZE]
  <2> HIDE DEF n, from
  <2>1. V = U + _offset /\ \A o : cell(o) = (rd + o) % SIZE
    BY Zenon
  <2> HIDE DEF V, cell
  <2>2. 0 .. V - 1 = 0 .. U + _offset - 1
    <3>1. U \in Int /\ V \in Int
      BY <1>1, <1>2
    <3>2. QED
      BY <2>1, <3>1
  <2>3. \A o \in 0 .. V - 1 : buffer'[cell(o)] = buffer[cell(o)]
    BY <1>11
  <2>4. QED
    BY <2>1, <2>2, <2>3, Zenon
<1>17. QED
  BY <1>13, <1>14, <1>15, <1>16

(* The datagrams to be sent lie within the counted bytes.                  *)
LEMMA StartsOrdered ==
  ASSUME QueueInv, NEW start, Lies(start)
  PROVE  /\ Len(sends) \in Nat /\ Len(wanted) \in Nat
         /\ \A i \in 1 .. Len(sends) + 1 : start[i] \in 0 .. U
         /\ \A i \in 1 .. Len(sends) :
              /\ wanted[i] \in Forms /\ Len(wanted[i]) \in Nat
              /\ wanted[i] = [k \in 1 .. Len(wanted[i]) |-> wanted[i][k]]
              /\ i \in 1 .. Len(sends) + 1 /\ i + 1 \in 1 .. Len(sends) + 1
              /\ start[i] + Len(wanted[i]) = start[i + 1]
<1>1. Len(sends) \in Nat /\ Len(wanted) \in Nat /\ Len(sends) <= Len(wanted)
        /\ wanted \in Seq(Forms)
  BY DEF QueueInv
<1>2. \A i \in 1 .. Len(sends) + 1 : start[i] \in 0 .. U
  BY DEF Lies
<1>3. ASSUME NEW i \in 1 .. Len(sends)
      PROVE  /\ wanted[i] \in Forms /\ Len(wanted[i]) \in Nat
             /\ wanted[i] = [k \in 1 .. Len(wanted[i]) |-> wanted[i][k]]
             /\ i \in 1 .. Len(sends) + 1 /\ i + 1 \in 1 .. Len(sends) + 1
             /\ start[i] + Len(wanted[i]) = start[i + 1]
  <2>1. i \in 1 .. Len(wanted) /\ i \in 1 .. Len(sends) + 1 /\ i + 1 \in 1 .. Len(sends) + 1
    BY <1>1
  <2>2. wanted[i] \in Forms
    BY <1>1, <2>1
  <2>3. PICK b \in BOOLEAN, f \in Frames : wanted[i] = Form(b, f)
    BY <2>2 DEF Forms
  <2>4. /\ Len(Form(b, f)) \in Nat
        /\ Form(b, f) = [k \in 1 .. Len(Form(b, f)) |-> Form(b, f)[k]]
    <3>1. Len(Form(b, f)) = Before(b) + Len(f) /\ Before(b) \in Nat /\ Len(f) \in Nat
            /\ Form(b, f) = [k \in 1 .. Before(b) + Len(f) |-> Form(b, f)[k]]
      BY FormIs
    <3>2. Len(Form(b, f)) \in Nat
      BY <3>1
    <3>3. QED
      BY <3>1, <3>2
  <2>5. start[i + 1] = start[i] + Len(wanted[i])
    BY DEF Lies
  <2>6. QED
    BY <2>1, <2>2, <2>3, <2>4, <2>5
<1>4. QED
  BY <1>1, <1>2, <1>3

(* What the writes do not touch stays in order.                            *)
LEMMA QueueStays ==
  ASSUME QueueInv, UNCHANGED <<wr, rd, sends>>,
         wanted' \in Seq(Forms), Len(sends) <= Len(wanted'),
         \A i \in 1 .. Len(sends) : wanted'[i] = wanted[i],
         \A o \in 0 .. U - 1 : buffer'[(rd + o) % SIZE] = buffer[(rd + o) % SIZE]
  PROVE  QueueInv' /\ U' = U
<1>1. PICK start \in [1 .. Len(sends) + 1 -> 0 .. U] : Lies(start)
  BY DEF QueueInv
<1>2. U' = U
  BY DEF U, Used
<1>3. /\ start[1] = 0 /\ start[Len(sends) + 1] = U
      /\ \A i, j \in 1 .. Len(sends) + 1 : i <= j => start[i] <= start[j]
  BY <1>1 DEF Lies
<1>4. ASSUME NEW i \in 1 .. Len(sends)
      PROVE  /\ start[i + 1] = start[i] + Len(wanted'[i])
             /\ sends[i] = (rd + start[i + 1]) % POINTERS
             /\ \A k \in 1 .. Len(wanted'[i]) :
                  buffer'[(rd + start[i] + k - 1) % SIZE] = wanted'[i][k]
  <2>1. /\ start[i + 1] = start[i] + Len(wanted[i])
        /\ sends[i] = (rd + start[i + 1]) % POINTERS
        /\ \A k \in 1 .. Len(wanted[i]) : buffer[(rd + start[i] + k - 1) % SIZE] = wanted[i][k]
    BY <1>1 DEF Lies
  <2>2. Len(wanted[i]) \in Nat /\ start[i] \in 0 .. U /\ start[i + 1] \in 0 .. U
    BY <1>1, StartsOrdered
  <2>3. ASSUME NEW k \in 1 .. Len(wanted[i])
        PROVE  buffer'[(rd + start[i] + k - 1) % SIZE] = buffer[(rd + start[i] + k - 1) % SIZE]
    <3>1. PICK a \in 0 .. U : a = start[i]
      BY <2>2
    <3>2. PICK e \in 0 .. U : e = start[i + 1]
      BY <2>2
    <3>3. e = a + Len(wanted[i])
      BY <2>1, <3>1, <3>2
    <3>4. U \in Nat /\ rd \in Int
      BY WrIs
    <3> HIDE DEF U
    <3>5. a + k - 1 \in 0 .. U - 1 /\ rd + (a + k - 1) = rd + a + k - 1
      BY <2>2, <3>3, <3>4
    <3>6. buffer'[(rd + (a + k - 1)) % SIZE] = buffer[(rd + (a + k - 1)) % SIZE]
      BY <3>5
    <3>7. QED
      BY <3>1, <3>5, <3>6
  <2>4. wanted'[i] = wanted[i]
    OBVIOUS
  <2>5. QED
    BY <2>1, <2>3, <2>4
<1>5. Lies(start)'
  <2>1. sends' = sends /\ rd' = rd
    OBVIOUS
  <2>2. start \in [1 .. Len(sends') + 1 -> 0 .. U']
    BY <1>1, <1>2
  <2> HIDE DEF U
  <2>3. QED
    BY <1>2, <1>3, <1>4, <2>1, <2>2 DEF Lies
<1>6. QED
  <2>1. /\ wr' \in 0 .. POINTERS - 1 /\ rd' \in 0 .. POINTERS - 1 /\ U' <= SIZE
        /\ sends' \in Seq(0 .. POINTERS - 1)
    BY <1>2 DEF QueueInv
  <2>2. start \in [1 .. Len(sends') + 1 -> 0 .. U']
    BY <1>1, <1>2
  <2> HIDE DEF U
  <2>3. QED
    BY <1>2, <1>5, <2>1, <2>2 DEF QueueInv

(* Nothing written is moved: the read pointer moves past a datagram, the   *)
(* others lie where they lay.                                              *)
LEMMA ChipStep ==
  ASSUME IInv, ChipSends
  PROVE  IInv'
<1> DEFINE n == Len(sends)
           N == Len(wanted)
<1>1. /\ sends # <<>> /\ rd' = Head(sends) /\ sends' = Tail(sends) /\ wanted' = Tail(wanted)
      /\ UNCHANGED <<buffer, wr, written, _offset, frame, ble, step>>
  BY DEF ChipSends
<1>2. PICK start \in [1 .. n + 1 -> 0 .. U] : Lies(start)
  BY DEF IInv, QueueInv
<1>3. /\ n \in Nat /\ n >= 1 /\ N \in Nat /\ n <= N
      /\ wanted \in Seq(Forms) /\ sends \in Seq(0 .. POINTERS - 1)
      /\ wr \in 0 .. POINTERS - 1 /\ rd \in 0 .. POINTERS - 1
  BY <1>1 DEF IInv, QueueInv
<1>4. /\ sends' \in Seq(0 .. POINTERS - 1) /\ Len(sends') = n - 1 /\ Head(sends) = sends[1]
      /\ \A i \in 1 .. n - 1 : sends'[i] = sends[i + 1]
  BY <1>1, <1>3, HeadTailProperties
<1>5. /\ wanted' \in Seq(Forms) /\ Len(wanted') = N - 1
      /\ \A i \in 1 .. N - 1 : wanted'[i] = wanted[i + 1]
  <2>1. wanted # <<>>
    BY <1>3
  <2>2. QED
    BY <1>1, <1>3, <2>1, HeadTailProperties
<1>6. U \in 0 .. SIZE /\ U < POINTERS /\ wr = (rd + U) % POINTERS
  BY WrIs DEF IInv
<1>7. /\ \A i \in 1 .. n + 1 : start[i] \in 0 .. U
      /\ \A i, j \in 1 .. n + 1 : i <= j => start[i] <= start[j]
      /\ start[n + 1] = U
      /\ 2 \in 1 .. n + 1
  BY <1>2, <1>3 DEF Lies
<1>8. PICK c \in 0 .. U : c = start[2]
  BY <1>7
<1>9. rd' = (rd + c) % POINTERS /\ rd' \in 0 .. POINTERS - 1
  <2>1. 1 \in 1 .. n /\ 1 + 1 = 2
    BY <1>3
  <2>2. sends[1] = (rd + start[1 + 1]) % POINTERS
    BY <1>2, <2>1 DEF Lies
  <2>3. sends[1] \in 0 .. POINTERS - 1
    <3> HIDE DEF n
    <3>1. \A S : \A s \in Seq(S) : 1 \in 1 .. Len(s) => s[1] \in S
      OBVIOUS
    <3>2. QED
      BY <1>3, <2>1, <3>1 DEF n
  <2>4. QED
    BY <1>1, <1>4, <1>8, <2>1, <2>2, <2>3
<1>10. U' = U - c
  <2>1. U = IF wr >= rd THEN wr - rd ELSE wr - rd + POINTERS
    BY <1>3, Sizes, PointerDifference DEF U, Used
  <2>2. U' = IF wr >= rd' THEN wr - rd' ELSE wr - rd' + POINTERS
    BY <1>1, <1>3, <1>9, Sizes, PointerDifference DEF U, Used
  <2> HIDE DEF U, n, N
  <2>3. rd' = IF rd + c < POINTERS THEN rd + c ELSE rd + c - POINTERS
    <3>1. c \in 0 .. POINTERS - 1
      BY <1>6, <1>8, Sizes
    <3>2. QED
      BY <1>3, <1>9, <3>1, Sizes, PointerMoved
  <2>4. /\ POINTERS \in Nat /\ wr \in 0 .. POINTERS - 1 /\ rd \in 0 .. POINTERS - 1
        /\ U \in Nat /\ c \in 0 .. U /\ U < POINTERS
    BY <1>3, <1>6, Sizes
  <2>5. CASE rd' = rd + c
    BY <2>1, <2>2, <2>3, <2>4, <2>5
  <2>6. CASE rd' = rd + c - POINTERS
    BY <2>1, <2>2, <2>3, <2>4, <2>6
  <2>7. QED
    BY <2>3, <2>5, <2>6
<1>11. PICK next : next = [i \in 1 .. n |-> start[i + 1] - c]
  OBVIOUS
<1>12. \A i \in 1 .. n : /\ i + 1 \in 1 .. n + 1 /\ start[i + 1] \in c .. U
                         /\ next[i] = start[i + 1] - c
  <2> HIDE DEF n, U
  <2>1. \A i \in 1 .. n : i + 1 \in 1 .. n + 1 /\ 2 <= i + 1
    BY <1>3
  <2>2. QED
    BY <1>6, <1>7, <1>8, <1>11, <2>1
<1>13. next \in [1 .. n -> 0 .. U']
  <2> HIDE DEF n, U
  <2>1. \A i \in 1 .. n : start[i + 1] - c \in 0 .. U - c
    <3> SUFFICES ASSUME NEW i \in 1 .. n PROVE start[i + 1] - c \in 0 .. U - c
      OBVIOUS
    <3>1. PICK a \in c .. U : a = start[i + 1]
      BY <1>12
    <3>2. a - c \in 0 .. U - c
      BY <1>6, <1>8
    <3>3. QED
      BY <3>1, <3>2
  <2>2. QED
    BY <1>10, <1>11, <2>1
<1>14. /\ next[1] = 0 /\ next[n] = U' /\ \A i, j \in 1 .. n : i <= j => next[i] <= next[j]
  <2> HIDE DEF n, U
  <2>1. 1 \in 1 .. n /\ n \in 1 .. n
    BY <1>3
  <2>2. next[1] = c - c /\ next[n] = U - c
    BY <1>7, <1>8, <1>12, <2>1
  <2>3. ASSUME NEW i \in 1 .. n, NEW j \in 1 .. n, i <= j PROVE next[i] <= next[j]
    <3>1. i + 1 \in 1 .. n + 1 /\ j + 1 \in 1 .. n + 1 /\ i + 1 <= j + 1
      BY <1>3, <2>3
    <3>2. start[i + 1] <= start[j + 1]
      BY <1>7, <3>1
    <3>3. PICK a \in c .. U : a = start[i + 1]
      BY <1>12
    <3>4. PICK b \in c .. U : b = start[j + 1]
      BY <1>12
    <3>5. next[i] = a - c /\ next[j] = b - c /\ a <= b
      BY <1>12, <3>2, <3>3, <3>4
    <3>6. QED
      BY <1>6, <1>8, <3>5
  <2>4. QED
    BY <1>6, <1>8, <1>10, <2>2, <2>3
<1>15. ASSUME NEW i \in 1 .. n - 1
       PROVE  /\ next[i + 1] = next[i] + Len(wanted'[i])
              /\ sends'[i] = (rd' + next[i + 1]) % POINTERS
              /\ \A k \in 1 .. Len(wanted'[i]) :
                   buffer'[(rd' + next[i] + k - 1) % SIZE] = wanted'[i][k]
  <2>1. i + 1 \in 1 .. n /\ i \in 1 .. n /\ i \in 1 .. N - 1
    BY <1>3
  <2>2. /\ start[(i + 1) + 1] = start[i + 1] + Len(wanted[i + 1])
        /\ sends[i + 1] = (rd + start[(i + 1) + 1]) % POINTERS
        /\ \A k \in 1 .. Len(wanted[i + 1]) :
             buffer[(rd + start[i + 1] + k - 1) % SIZE] = wanted[i + 1][k]
    BY <1>2, <2>1 DEF Lies
  <2>3. wanted'[i] = wanted[i + 1] /\ sends'[i] = sends[i + 1] /\ Len(wanted[i + 1]) \in Nat
    <3>1. Len(wanted[i + 1]) \in Nat
      BY <1>2, <2>1, StartsOrdered DEF IInv
    <3>2. QED
      BY <1>4, <1>5, <2>1, <3>1
  <2> HIDE DEF n, N, U
  <2>4. PICK a \in c .. U : a = start[i + 1]
    BY <1>12, <2>1
  <2>5. PICK b \in c .. U : b = start[(i + 1) + 1]
    BY <1>12, <2>1
  <2>6. next[i] = a - c /\ next[i + 1] = b - c /\ b = a + Len(wanted[i + 1])
    BY <1>12, <2>1, <2>2, <2>4, <2>5
  <2>7. a \in Int /\ b \in Int /\ c \in Int /\ rd \in Int
    BY <1>3, <1>6, <1>8
  <2>8. next[i + 1] = next[i] + Len(wanted[i + 1])
    BY <2>3, <2>6, <2>7
  <2>9. (rd' + next[i + 1]) % POINTERS = (rd + b) % POINTERS
    <3>1. Moved(POINTERS, Moved(POINTERS, rd, c), b - c) = Moved(POINTERS, rd, c + (b - c))
      BY <2>7, Sizes, MovedTwice
    <3>2. c + (b - c) = b
      BY <2>7
    <3>3. QED
      BY <1>9, <2>6, <3>1, <3>2 DEF Moved
  <2>10. ASSUME NEW k \in 1 .. Len(wanted[i + 1])
         PROVE  (rd' + next[i] + k - 1) % SIZE = (rd + a + k - 1) % SIZE
    <3>1. rd' \in Int /\ k \in Int
      BY <1>9, <2>3, Sizes
    <3> DEFINE s == (a - c) + k - 1
    <3>2. s \in Int /\ rd + c \in Int /\ (rd + c) + s = rd + a + k - 1
            /\ rd' + (a - c) + k - 1 = rd' + s
      BY <2>7, <3>1
    <3> HIDE DEF s
    <3>3. (((rd + c) % POINTERS) + s) % SIZE = ((rd + c) + s) % SIZE
      BY <3>2, SameCell
    <3>4. QED
      BY <1>9, <2>6, <3>2, <3>3
  <2>11. QED
    BY <1>1, <2>2, <2>3, <2>4, <2>5, <2>8, <2>9, <2>10
<1>16. Lies(next)' /\ next \in [1 .. Len(sends') + 1 -> 0 .. U']
  <2>1. Len(sends') + 1 = n /\ Len(sends') = n - 1
    BY <1>3, <1>4
  <2> HIDE DEF n, N, U
  <2>2. QED
    BY <1>13, <1>14, <1>15, <2>1 DEF Lies
<1>17. QueueInv'
  <2>1. U' <= SIZE /\ U' <= U
    <3> HIDE DEF U
    <3>1. QED
      BY <1>6, <1>8, <1>10, Sizes
  <2>2. Len(sends') <= Len(wanted') /\ wr' \in 0 .. POINTERS - 1
    BY <1>1, <1>3, <1>4, <1>5
  <2> HIDE DEF n, N, U
  <2>3. QED
    BY <1>4, <1>5, <1>9, <1>16, <2>1, <2>2 DEF QueueInv
<1>18. FrameInv'
  <2>1. /\ ble' = ble /\ step' = step /\ frame' = frame /\ _offset' = _offset /\ wr' = wr
        /\ buffer' = buffer /\ written' = written
    BY <1>1
  <2>2. Progress' = Progress /\ Datagram(frame)' = Datagram(frame)
    BY <2>1 DEF Progress, Datagram, Before, Protocol
  <2>3. step = "idle" => Len(wanted') = Len(sends')
    BY <1>3, <1>4, <1>5 DEF IInv, FrameInv
  <2>4. step # "idle" => Len(wanted') = Len(sends') + 1 /\ wanted'[Len(wanted')] = wanted[Len(wanted)]
    <3> SUFFICES ASSUME step # "idle"
                 PROVE  Len(wanted') = Len(sends') + 1 /\ wanted'[Len(wanted')] = wanted[Len(wanted)]
      OBVIOUS
    <3>1. N = n + 1
      BY DEF IInv, FrameInv
    <3>2. N - 1 \in 1 .. N - 1 /\ (N - 1) + 1 = N
      BY <1>3, <3>1
    <3>3. wanted'[N - 1] = wanted[(N - 1) + 1]
      BY <1>5, <3>2
    <3>4. QED
      BY <1>3, <1>4, <1>5, <3>1, <3>2, <3>3
  <2>5. step # "idle" => U' + Len(Datagram(frame)) <= SIZE
    <3> SUFFICES ASSUME step # "idle" PROVE U' + Len(Datagram(frame)) <= SIZE
      OBVIOUS
    <3>1. U + Len(Datagram(frame)) <= SIZE /\ frame \in Frames /\ ble \in BOOLEAN
      BY DEF IInv, FrameInv
    <3>2. Len(Datagram(frame)) \in Nat
      <4>1. Len(Form(ble, frame)) = Before(ble) + Len(frame) /\ Before(ble) \in Nat /\ Len(frame) \in Nat
        BY <3>1, FormIs
      <4>2. Datagram(frame) = Form(ble, frame)
        BY DEF Form, Datagram, Protocol
      <4>3. QED
        BY <4>1, <4>2
    <3> HIDE DEF U
    <3>3. QED
      BY <1>6, <1>8, <1>10, <3>1, <3>2, Sizes
  <2> HIDE DEF n, N, U
  <2>6. QED
    BY <2>1, <2>2, <2>3, <2>4, <2>5 DEF IInv, FrameInv
<1>19. QED
  BY <1>17, <1>18 DEF IInv

-----------------------------------------------------------------------------
(* The steps.                                                              *)

LEMMA DatagramIs ==
  ASSUME ble \in BOOLEAN, NEW f \in Frames
  PROVE  /\ Datagram(f) = Form(ble, f) /\ Datagram(f) \in Forms
         /\ Len(Datagram(f)) \in Nat /\ Len(Datagram(f)) = Before(ble) + Len(f)
<1>1. Datagram(f) = Form(ble, f)
  BY DEF Datagram, Protocol, Form
<1>2. Form(ble, f) \in Forms
  BY DEF Forms
<1>3. Len(Form(ble, f)) = Before(ble) + Len(f) /\ Before(ble) \in Nat /\ Len(f) \in Nat
  BY FormIs
<1>4. QED
  BY <1>1, <1>2, <1>3

(* A datagram is begun when the one before is sent.                        *)
LEMMA BeginStep ==
  ASSUME IInv, beginPacket
  PROVE  IInv'
<1>1. PICK f \in Frames : /\ Used(rd, wr) + Len(Datagram(f)) <= SIZE
                          /\ frame' = f /\ wanted' = Append(wanted, Datagram(f))
  BY DEF beginPacket
<1>2. /\ step = "idle" /\ _offset' = 0 /\ step' = "protocol"
      /\ UNCHANGED <<buffer, wr, written, rd, sends, ble>>
  BY DEF beginPacket
<1>3. ble \in BOOLEAN /\ Len(wanted) = Len(sends)
  BY <1>2 DEF IInv, FrameInv
<1>4. wanted \in Seq(Forms) /\ sends \in Seq(0 .. POINTERS - 1) /\ Len(sends) \in Nat
  BY DEF IInv, QueueInv
<1> DEFINE d == Datagram(f)
<1>5. d \in Forms /\ Len(d) \in Nat
  BY <1>3, DatagramIs
<1>6. Datagram(frame)' = d
  BY <1>1, <1>2 DEF Datagram, Protocol
<1> HIDE DEF d
<1>7. /\ wanted' \in Seq(Forms) /\ Len(wanted') = Len(sends) + 1
      /\ \A i \in 1 .. Len(sends) : wanted'[i] = wanted[i]
      /\ wanted'[Len(sends) + 1] = d
  <2>1. wanted' = Append(wanted, d)
    BY <1>1 DEF d
  <2>2. QED
    BY <1>3, <1>4, <1>5, <2>1
<1>8. QueueInv' /\ U' = U
  BY <1>2, <1>4, <1>7, QueueStays DEF IInv
<1>9. FrameInv'
  <2>1. U' + Len(d) <= SIZE
    BY <1>1, <1>8 DEF d, U
  <2>2. Progress' = 0
    BY <1>2 DEF Progress
  <2>3. Len(wanted') = Len(sends') + 1 /\ wanted'[Len(wanted')] = d
    BY <1>2, <1>7
  <2>4. \A k \in 1 .. _offset' : FALSE
    BY <1>2
  <2> HIDE DEF U
  <2>5. QED
    BY <1>1, <1>2, <1>3, <1>6, <2>1, <2>2, <2>3, <2>4 DEF FrameInv
<1>10. QED
  BY <1>8, <1>9 DEF IInv

(* One of the writes of a datagram: the bytes follow those before.         *)
LEMMA WriteStep ==
  ASSUME IInv, step \in {"protocol", "address", "frame"},
         NEW bytes, Len(bytes) \in Nat, bufferData(bytes),
         _offset + Len(bytes) <= Len(Datagram(frame)),
         \A k \in 1 .. Len(bytes) : Datagram(frame)[_offset + k] = bytes[k],
         UNCHANGED <<wr, rd, sends, frame, ble, wanted>>,
         step' \in {"address", "frame", "end"}, step' = "address" => ble,
         Progress' = _offset + Len(bytes)
  PROVE  IInv'
<1>1. /\ frame \in Frames /\ ble \in BOOLEAN
      /\ Len(wanted) = Len(sends) + 1 /\ wanted[Len(wanted)] = Datagram(frame)
      /\ U + Len(Datagram(frame)) <= SIZE /\ _offset = Progress
      /\ \A k \in 1 .. _offset : buffer[(wr + k - 1) % SIZE] = Datagram(frame)[k]
  BY DEF IInv, FrameInv
<1>2. Before(ble) \in Nat /\ Len(Datagram(frame)) \in Nat
  BY <1>1, FormIs, DatagramIs
<1>3. _offset \in Nat
  BY <1>1, <1>2 DEF Progress
<1>4. U \in Nat /\ wr \in Int
  BY WrIs DEF IInv
<1>5. U + _offset + Len(bytes) <= SIZE
  <2> HIDE DEF U
  <2>1. QED
    BY <1>1, <1>2, <1>3, <1>4, Sizes
<1>6. /\ _offset' = _offset + Len(bytes) /\ written' = (wr + _offset + Len(bytes)) % POINTERS
      /\ \A o \in 0 .. U + _offset - 1 : buffer'[(rd + o) % SIZE] = buffer[(rd + o) % SIZE]
      /\ \A k \in 1 .. _offset : buffer'[(wr + k - 1) % SIZE] = buffer[(wr + k - 1) % SIZE]
      /\ \A k \in 1 .. Len(bytes) : buffer'[(wr + _offset + k - 1) % SIZE] = bytes[k]
  BY <1>3, <1>5, Writes DEF IInv
<1>7. QueueInv' /\ U' = U
  <2>1. \A o \in 0 .. U - 1 : buffer'[(rd + o) % SIZE] = buffer[(rd + o) % SIZE]
    <3> HIDE DEF U
    <3>1. \A o \in 0 .. U - 1 : o \in 0 .. U + _offset - 1
      BY <1>3, <1>4
    <3>2. QED
      BY <1>6, <3>1
  <2>2. /\ wanted' \in Seq(Forms) /\ Len(sends) <= Len(wanted')
        /\ \A i \in 1 .. Len(sends) : wanted'[i] = wanted[i]
    BY DEF IInv, QueueInv
  <2>3. QED
    BY <2>1, <2>2, QueueStays DEF IInv
<1>8. Datagram(frame)' = Datagram(frame)
  BY DEF Datagram, Protocol
<1>9. ASSUME NEW k \in 1 .. _offset'
      PROVE  buffer'[(wr + k - 1) % SIZE] = Datagram(frame)[k]
  <2>1. CASE k \in 1 .. _offset
    BY <1>1, <1>6, <2>1
  <2>2. CASE ~(k \in 1 .. _offset)
    <3>1. PICK j \in 1 .. Len(bytes) : k = _offset + j
      <4>1. k \in Int /\ k > _offset /\ k <= _offset + Len(bytes)
        BY <1>3, <1>6, <2>2
      <4>2. k - _offset \in 1 .. Len(bytes) /\ k = _offset + (k - _offset)
        BY <1>3, <4>1
      <4>3. QED
        BY <4>2, Zenon
    <3>2. wr + k - 1 = wr + _offset + j - 1
      BY <1>3, <1>4, <3>1
    <3>3. buffer'[(wr + _offset + j - 1) % SIZE] = bytes[j] /\ Datagram(frame)[_offset + j] = bytes[j]
      BY <1>6
    <3>4. QED
      BY <3>1, <3>2, <3>3
  <2>3. QED
    BY <2>1, <2>2
<1>10. FrameInv'
  <2>1. step' # "idle" /\ step' \in {"idle", "protocol", "address", "frame", "end"}
    OBVIOUS
  <2>2. /\ ble' \in BOOLEAN /\ frame' \in Frames /\ wr' = wr
        /\ Len(wanted') = Len(sends') + 1 /\ wanted'[Len(wanted')] = Datagram(frame)
        /\ U' + Len(Datagram(frame)) <= SIZE /\ _offset' = Progress'
    BY <1>1, <1>6, <1>7
  <2>3. written' = (wr + _offset') % POINTERS
    <3>1. wr + _offset' = wr + _offset + Len(bytes)
      BY <1>3, <1>4, <1>6
    <3>2. QED
      BY <1>6, <3>1
  <2> HIDE DEF U
  <2>4. QED
    BY <1>8, <1>9, <2>1, <2>2, <2>3 DEF FrameInv
<1>11. QED
  BY <1>7, <1>10 DEF IInv

LEMMA ProtocolStep ==
  ASSUME IInv, WriteProtocol
  PROVE  IInv'
<1>1. /\ step = "protocol" /\ bufferData(Protocol)
      /\ step' = IF ble THEN "address" ELSE "frame"
      /\ UNCHANGED <<wr, rd, sends, frame, ble, wanted>>
  BY DEF WriteProtocol
<1>2. frame \in Frames /\ ble \in BOOLEAN /\ _offset = 0
  BY <1>1 DEF IInv, FrameInv, Progress
<1>3. Len(Protocol) = 1 /\ Protocol[1] = IF ble THEN "ble" ELSE "ieee"
  BY <1>2 DEF Protocol
<1>4. /\ Datagram(frame) = Form(ble, frame) /\ Before(ble) \in Nat /\ Before(ble) >= 1
      /\ Len(frame) \in Nat /\ Len(Datagram(frame)) = Before(ble) + Len(frame)
      /\ Form(ble, frame)[1] = IF ble THEN "ble" ELSE "ieee"
  BY <1>2, FormIs, DatagramIs
<1>5. Progress' = 1
  BY <1>1, <1>2 DEF Progress, Before
<1> HIDE DEF Protocol
<1>6. _offset + Len(Protocol) <= Len(Datagram(frame))
  BY <1>2, <1>3, <1>4
<1>7. \A k \in 1 .. Len(Protocol) : Datagram(frame)[_offset + k] = Protocol[k]
  <2>1. \A k \in 1 .. Len(Protocol) : k = 1 /\ _offset + k = 1
    BY <1>2, <1>3
  <2>2. QED
    BY <1>3, <1>4, <2>1
<1>8. Len(Protocol) \in Nat /\ Progress' = _offset + Len(Protocol)
  BY <1>2, <1>3, <1>5
<1>9. step \in {"protocol", "address", "frame"} /\ step' \in {"address", "frame", "end"}
        /\ (step' = "address" => ble)
  BY <1>1, <1>2
<1>10. QED
  BY <1>1, <1>6, <1>7, <1>8, <1>9, WriteStep

LEMMA AddressStep ==
  ASSUME IInv, WriteAddress
  PROVE  IInv'
<1>1. /\ step = "address" /\ bufferData(AccessAddress) /\ step' = "frame"
      /\ UNCHANGED <<wr, rd, sends, frame, ble, wanted>>
  BY DEF WriteAddress
<1>2. frame \in Frames /\ ble = TRUE /\ _offset = 1
  BY <1>1 DEF IInv, FrameInv, Progress
<1>3. /\ Datagram(frame) = Form(ble, frame) /\ Len(AccessAddress) \in Nat /\ Len(frame) \in Nat
      /\ Len(Datagram(frame)) = Before(ble) + Len(frame)
      /\ \A k \in 1 .. Len(AccessAddress) : Form(ble, frame)[1 + k] = AccessAddress[k]
  BY <1>2, FormIs, DatagramIs
<1>4. Before(ble) = 1 + Len(AccessAddress)
  BY <1>2 DEF Before
<1>5. Progress' = 1 + Len(AccessAddress)
  BY <1>1, <1>2 DEF Progress, Before
<1>6. _offset + Len(AccessAddress) <= Len(Datagram(frame))
        /\ Progress' = _offset + Len(AccessAddress)
  BY <1>2, <1>3, <1>4, <1>5
<1>7. \A k \in 1 .. Len(AccessAddress) : Datagram(frame)[_offset + k] = AccessAddress[k]
  BY <1>2, <1>3
<1>8. step \in {"protocol", "address", "frame"} /\ step' \in {"address", "frame", "end"}
        /\ (step' = "address" => ble)
  BY <1>1
<1>9. QED
  BY <1>1, <1>3, <1>6, <1>7, <1>8, WriteStep

LEMMA FrameStep ==
  ASSUME IInv, WriteFrame
  PROVE  IInv'
<1>1. /\ step = "frame" /\ bufferData(frame) /\ step' = "end"
      /\ UNCHANGED <<wr, rd, sends, frame, ble, wanted>>
  BY DEF WriteFrame
<1>2. frame \in Frames /\ ble \in BOOLEAN /\ _offset = Before(ble)
  BY <1>1 DEF IInv, FrameInv, Progress
<1>3. /\ Datagram(frame) = Form(ble, frame) /\ Before(ble) \in Nat /\ Len(frame) \in Nat
      /\ Len(Datagram(frame)) = Before(ble) + Len(frame)
      /\ \A k \in 1 .. Len(frame) : Form(ble, frame)[Before(ble) + k] = frame[k]
  BY <1>2, FormIs, DatagramIs
<1>4. Progress' = Len(Datagram(frame))
  <2>1. Datagram(frame)' = Datagram(frame)
    BY <1>1 DEF Datagram, Protocol
  <2>2. QED
    BY <1>1, <2>1 DEF Progress
<1>5. _offset + Len(frame) <= Len(Datagram(frame)) /\ Progress' = _offset + Len(frame)
  BY <1>2, <1>3, <1>4
<1>6. \A k \in 1 .. Len(frame) : Datagram(frame)[_offset + k] = frame[k]
  BY <1>2, <1>3
<1>7. step \in {"protocol", "address", "frame"} /\ step' \in {"address", "frame", "end"}
        /\ (step' = "address" => ble)
  BY <1>1
<1>8. QED
  BY <1>1, <1>3, <1>5, <1>6, <1>7, WriteStep

(* SEND: the datagram joins those to be sent.                              *)
LEMMA SendStep ==
  ASSUME IInv, sendUDP
  PROVE  IInv'
<1> DEFINE n == Len(sends)
           L == Len(Datagram(frame))
<1>1. /\ step = "end" /\ wr' = written /\ sends' = Append(sends, written) /\ step' = "idle"
      /\ UNCHANGED <<buffer, written, rd, _offset, frame, ble, wanted>>
  BY DEF sendUDP
<1>2. /\ frame \in Frames /\ ble \in BOOLEAN /\ Len(wanted) = n + 1
      /\ wanted[n + 1] = Datagram(frame) /\ U + L <= SIZE /\ _offset = L
      /\ \A k \in 1 .. L : buffer[(wr + k - 1) % SIZE] = Datagram(frame)[k]
      /\ written = (wr + L) % POINTERS
  BY <1>1 DEF IInv, FrameInv, Progress
<1>3. L \in Nat
  BY <1>2, DatagramIs
<1>4. /\ U \in 0 .. SIZE /\ wr = (rd + U) % POINTERS /\ rd \in 0 .. POINTERS - 1
      /\ \A j \in Int : (wr + j) % SIZE = (rd + U + j) % SIZE
  BY WrIs DEF IInv, QueueInv
<1>5. PICK start \in [1 .. n + 1 -> 0 .. U] : Lies(start)
  BY DEF IInv, QueueInv
<1>6. wanted \in Seq(Forms) /\ sends \in Seq(0 .. POINTERS - 1) /\ n \in Nat
  BY DEF IInv, QueueInv
<1> HIDE DEF n, L, U
<1>7. U + L \in 0 .. SIZE /\ U + L \in 0 .. POINTERS - 1 /\ U \in Int /\ rd \in Int
  <2>1. U + L <= SIZE /\ L \in Nat /\ U \in 0 .. SIZE /\ rd \in 0 .. POINTERS - 1
    BY <1>2, <1>3, <1>4
  <2>2. QED
    BY <2>1, Sizes
<1>8. written = (rd + (U + L)) % POINTERS /\ written \in 0 .. POINTERS - 1
  <2>1. Moved(POINTERS, Moved(POINTERS, rd, U), L) = Moved(POINTERS, rd, U + L)
    BY <1>3, <1>7, MovedTwice, Sizes
  <2>2. written = (rd + (U + L)) % POINTERS
    BY <1>2, <1>4, <2>1 DEF Moved
  <2>3. QED
    BY <1>4, <1>7, <2>2, PointerMoved, Sizes
<1>9. U' = U + L
  <2>1. (((rd + (U + L)) % POINTERS) - rd) % POINTERS = U + L
    BY <1>4, <1>7, DistanceMoved, Sizes
  <2>2. U' = (written - rd) % POINTERS
    BY <1>1 DEF U, Used
  <2>3. QED
    BY <1>8, <2>1, <2>2
<1>10. /\ sends' \in Seq(0 .. POINTERS - 1) /\ Len(sends') = n + 1
       /\ \A i \in 1 .. n : sends'[i] = sends[i]
       /\ sends'[n + 1] = written
  BY <1>1, <1>6, <1>8 DEF n
<1>11. /\ \A i \in 1 .. n + 1 : start[i] \in 0 .. U
       /\ start[1] = 0 /\ start[n + 1] = U
       /\ \A i, j \in 1 .. n + 1 : i <= j => start[i] <= start[j]
       /\ \A i \in 1 .. n :
            /\ start[i + 1] = start[i] + Len(wanted[i])
            /\ sends[i] = (rd + start[i + 1]) % POINTERS
            /\ \A k \in 1 .. Len(wanted[i]) :
                 buffer[(rd + start[i] + k - 1) % SIZE] = wanted[i][k]
  BY <1>5 DEF Lies, n
<1>a. PICK next : next = [i \in 1 .. n + 2 |-> IF i = n + 2 THEN U + L ELSE start[i]]
  OBVIOUS
<1>12. next[n + 2] = U + L /\ \A i \in 1 .. n + 1 : next[i] = start[i]
  <2>1. n + 2 \in 1 .. n + 2 /\ \A i \in 1 .. n + 1 : i \in 1 .. n + 2 /\ i # n + 2
    BY <1>6
  <2>2. QED
    BY <1>a, <2>1
<1>13. next \in [1 .. n + 2 -> 0 .. U']
  <2>1. U + L \in 0 .. U' /\ \A a \in 0 .. U : a \in 0 .. U'
    BY <1>3, <1>7, <1>9
  <2>2. \A i \in 1 .. n + 2 : i = n + 2 \/ i \in 1 .. n + 1
    BY <1>6
  <2>3. QED
    BY <1>a, <1>11, <2>1, <2>2
<1>14. /\ next[1] = 0 /\ next[n + 2] = U'
       /\ \A i, j \in 1 .. n + 2 : i <= j => next[i] <= next[j]
  <2>1. 1 \in 1 .. n + 1 /\ next[1] = 0 /\ next[n + 2] = U'
    <3>1. 1 \in 1 .. n + 1
      BY <1>6
    <3>2. QED
      BY <1>9, <1>11, <1>12, <3>1
  <2>2. ASSUME NEW i \in 1 .. n + 2, NEW j \in 1 .. n + 2, i <= j PROVE next[i] <= next[j]
    <3>1. CASE j = n + 2
      <4>1. PICK a \in 0 .. U' : a = next[i]
        BY <1>13
      <4>2. U' \in Int
        BY <1>7, <1>9
      <4>3. QED
        BY <2>1, <3>1, <4>1, <4>2
    <3>2. CASE j # n + 2
      <4>1. i \in 1 .. n + 1 /\ j \in 1 .. n + 1
        BY <1>6, <2>2, <3>2
      <4>2. QED
        BY <1>11, <1>12, <2>2, <4>1
    <3>3. QED
      BY <3>1, <3>2
  <2>3. QED
    BY <2>1, <2>2
<1>15. ASSUME NEW i \in 1 .. n + 1
       PROVE  /\ next[i + 1] = next[i] + Len(wanted[i])
              /\ sends'[i] = (rd + next[i + 1]) % POINTERS
              /\ \A k \in 1 .. Len(wanted[i]) :
                   buffer[(rd + next[i] + k - 1) % SIZE] = wanted[i][k]
  <2>1. CASE i \in 1 .. n
    <3>1. i \in 1 .. n + 1 /\ i + 1 \in 1 .. n + 1
      BY <1>6, <2>1
    <3>2. next[i] = start[i] /\ next[i + 1] = start[i + 1] /\ sends'[i] = sends[i]
      BY <1>10, <1>12, <2>1, <3>1
    <3>3. QED
      BY <1>11, <2>1, <3>2
  <2>2. CASE i = n + 1
    <3>1. i + 1 = n + 2 /\ n + 1 \in 1 .. n + 1
      BY <1>6, <2>2
    <3>2. next[i] = U /\ next[i + 1] = U + L /\ Len(wanted[i]) = L /\ wanted[i] = Datagram(frame)
      BY <1>2, <1>11, <1>12, <2>2, <3>1 DEF L
    <3>3. ASSUME NEW k \in 1 .. L
          PROVE  buffer[(rd + U + k - 1) % SIZE] = Datagram(frame)[k]
      <4>1. wr \in Int
        BY DEF IInv, QueueInv
      <4>2. k - 1 \in Int /\ wr + (k - 1) = wr + k - 1 /\ rd + U + (k - 1) = rd + U + k - 1
        BY <1>3, <1>7, <4>1
      <4>3. (wr + (k - 1)) % SIZE = (rd + U + (k - 1)) % SIZE
        BY <1>4, <4>2
      <4>4. QED
        BY <1>2, <4>2, <4>3
    <3>4. QED
      BY <1>8, <1>10, <2>2, <3>2, <3>3
  <2>3. QED
    BY <1>6, <2>1, <2>2
<1>16. Lies(next)' /\ next \in [1 .. Len(sends') + 1 -> 0 .. U']
  <2>1. Len(sends') + 1 = n + 2 /\ Len(sends') = n + 1
    BY <1>6, <1>10
  <2>2. rd' = rd /\ buffer' = buffer /\ wanted' = wanted
    BY <1>1
  <2>3. next \in [1 .. Len(sends') + 1 -> 0 .. U'] /\ next[Len(sends') + 1] = U'
    BY <1>13, <1>14, <2>1
  <2>4. \A i, j \in 1 .. Len(sends') + 1 : i <= j => next[i] <= next[j]
    BY <1>14, <2>1
  <2>5. \A i \in 1 .. Len(sends') :
           /\ next[i + 1] = next[i] + Len(wanted'[i])
           /\ sends'[i] = (rd' + next[i + 1]) % POINTERS
           /\ \A k \in 1 .. Len(wanted'[i]) :
                buffer'[(rd' + next[i] + k - 1) % SIZE] = wanted'[i][k]
    BY <1>15, <2>1, <2>2
  <2>6. QED
    BY <1>14, <2>3, <2>4, <2>5 DEF Lies
<1>17. QueueInv'
  <2>1. U' <= SIZE /\ wr' \in 0 .. POINTERS - 1 /\ rd' \in 0 .. POINTERS - 1
    BY <1>1, <1>4, <1>7, <1>8, <1>9
  <2>2. wanted' \in Seq(Forms) /\ Len(sends') <= Len(wanted')
    BY <1>1, <1>2, <1>6, <1>10
  <2>3. \E st \in [1 .. Len(sends') + 1 -> 0 .. U'] : Lies(st)'
    BY <1>16, Zenon
  <2>4. sends' \in Seq(0 .. POINTERS - 1)
    BY <1>10
  <2>5. QED
    BY <2>1, <2>2, <2>3, <2>4 DEF QueueInv
<1>18. FrameInv'
  <2>1. ble' \in BOOLEAN /\ step' = "idle" /\ Len(wanted') = Len(sends')
    BY <1>1, <1>2, <1>10
  <2>2. QED
    BY <2>1 DEF FrameInv
<1>19. QED
  BY <1>17, <1>18 DEF IInv

LEMMA SetProtocolStep ==
  ASSUME IInv, SetProtocol
  PROVE  IInv'
<1>1. step = "idle" /\ ble' = ~ble
      /\ UNCHANGED <<buffer, wr, written, rd, sends, _offset, frame, wanted, step>>
  BY DEF SetProtocol
<1>2. /\ wanted' \in Seq(Forms) /\ Len(sends) <= Len(wanted')
      /\ \A i \in 1 .. Len(sends) : wanted'[i] = wanted[i]
      /\ \A o \in 0 .. U - 1 : buffer'[(rd + o) % SIZE] = buffer[(rd + o) % SIZE]
  BY <1>1 DEF IInv, QueueInv
<1>3. QueueInv'
  BY <1>1, <1>2, QueueStays DEF IInv
<1>4. FrameInv'
  <2>1. ble' \in BOOLEAN /\ step' = "idle" /\ Len(wanted') = Len(sends')
    BY <1>1 DEF IInv, FrameInv
  <2>2. QED
    BY <2>1 DEF FrameInv
<1>5. QED
  BY <1>3, <1>4 DEF IInv

LEMMA InitInv ==
  ASSUME UdpInit
  PROVE  IInv
<1>1. /\ wr = 0 /\ rd = 0 /\ sends = <<>> /\ wanted = <<>> /\ step = "idle" /\ ble \in BOOLEAN
  BY DEF UdpInit
<1>2. U = 0
  <2>1. 0 \in 0 .. POINTERS - 1
    BY Sizes
  <2>2. \A a \in 0 .. POINTERS - 1 : a = 0 => (a - a) % POINTERS = 0
    BY PointerDifference, Sizes
  <2>3. QED
    BY <1>1, <2>1, <2>2 DEF U, Used
<1>3. Len(sends) = 0 /\ Len(wanted) = 0
  BY <1>1
<1> DEFINE start == [i \in 1 .. 1 |-> 0]
<1>4. Lies(start)
  <2>1. /\ start \in [1 .. 0 + 1 -> 0 .. 0] /\ start[1] = 0 /\ start[0 + 1] = 0
        /\ \A i, j \in 1 .. 0 + 1 : i <= j => start[i] <= start[j]
        /\ \A i \in 1 .. 0 : FALSE
    OBVIOUS
  <2> HIDE DEF start, U
  <2>2. QED
    BY <1>2, <1>3, <2>1 DEF Lies
<1>5. start \in [1 .. Len(sends) + 1 -> 0 .. U]
  BY <1>4 DEF Lies
<1>6. QueueInv
  <2>1. wr \in 0 .. POINTERS - 1 /\ rd \in 0 .. POINTERS - 1 /\ U <= SIZE
    BY <1>1, <1>2, Sizes
  <2>2. wanted \in Seq(Forms) /\ sends \in Seq(0 .. POINTERS - 1) /\ Len(sends) <= Len(wanted)
    BY <1>1
  <2> HIDE DEF U, start
  <2>3. QED
    BY <1>4, <1>5, <2>1, <2>2 DEF QueueInv
<1>7. FrameInv
  BY <1>1, <1>3 DEF FrameInv
<1>8. QED
  BY <1>6, <1>7 DEF IInv

LEMMA StepInv ==
  ASSUME IInv,
         [UdpNext]_<<buffer, wr, written, rd, sends, _offset, frame, ble, wanted, step>>
  PROVE  IInv'
<1>1. CASE beginPacket
  BY <1>1, BeginStep
<1>2. CASE WriteProtocol
  BY <1>2, ProtocolStep
<1>3. CASE WriteAddress
  BY <1>3, AddressStep
<1>4. CASE WriteFrame
  BY <1>4, FrameStep
<1>5. CASE sendUDP
  BY <1>5, SendStep
<1>6. CASE ChipSends
  BY <1>6, ChipStep
<1>7. CASE SetProtocol
  BY <1>7, SetProtocolStep
<1>8. CASE UNCHANGED <<buffer, wr, written, rd, sends, _offset, frame, ble, wanted, step>>
  <2>1. U' = U /\ Progress' = Progress /\ Datagram(frame)' = Datagram(frame)
          /\ \A start : Lies(start)' <=> Lies(start)
    BY <1>8 DEF U, Used, Progress, Datagram, Before, Protocol, Lies
  <2>2. QED
    BY <1>8, <2>1 DEF IInv, QueueInv, FrameInv
<1>9. QED
  BY <1>1, <1>2, <1>3, <1>4, <1>5, <1>6, <1>7, <1>8 DEF UdpNext

-----------------------------------------------------------------------------
(* What the chip sends is what lies in the buffer.                         *)

LEMMA WholeDatagrams ==
  ASSUME QueueInv
  PROVE  DatagramIsWhole
<1>1. PICK start \in [1 .. Len(sends) + 1 -> 0 .. U] : Lies(start)
  BY DEF QueueInv
<1>2. sends \in Seq(0 .. POINTERS - 1) /\ Len(sends) \in Nat /\ DOMAIN sends = 1 .. Len(sends)
        /\ rd \in 0 .. POINTERS - 1
  BY DEF QueueInv
<1>3. U \in 0 .. SIZE /\ U < POINTERS
  BY WrIs
<1>4. start[1] = 0 /\ \A i \in 1 .. Len(sends) : sends[i] = (rd + start[i + 1]) % POINTERS
  BY <1>1 DEF Lies
<1> SUFFICES ASSUME NEW i \in 1 .. Len(sends)
             PROVE  Bytes(IF i = 1 THEN rd ELSE sends[i - 1], sends[i]) = wanted[i]
  BY <1>2 DEF DatagramIsWhole
<1> DEFINE from == IF i = 1 THEN rd ELSE sends[i - 1]
<1>5. /\ start[i] \in 0 .. U /\ start[i + 1] \in 0 .. U /\ Len(wanted[i]) \in Nat
      /\ wanted[i] = [k \in 1 .. Len(wanted[i]) |-> wanted[i][k]]
      /\ start[i] + Len(wanted[i]) = start[i + 1]
  BY <1>1, StartsOrdered
<1>6. \A k \in 1 .. Len(wanted[i]) : buffer[(rd + start[i] + k - 1) % SIZE] = wanted[i][k]
  BY <1>1 DEF Lies
<1>7. PICK a \in 0 .. U : a = start[i]
  BY <1>5
<1>8. PICK m \in Nat : m = Len(wanted[i])
  BY <1>5
<1>9. a \in 0 .. POINTERS - 1 /\ m \in 0 .. POINTERS - 1 /\ start[i + 1] = a + m /\ rd \in Int
        /\ a \in Int
  <2>1. a + m \in 0 .. U
    BY <1>5, <1>7, <1>8
  <2> HIDE DEF U
  <2>2. a \in 0 .. POINTERS - 1 /\ m \in 0 .. POINTERS - 1
    BY <1>3, <2>1, Sizes
  <2>3. QED
    BY <1>2, <1>5, <1>7, <1>8, <2>2
<1>10. from = (rd + a) % POINTERS /\ from \in 0 .. POINTERS - 1
  <2>1. CASE i = 1
    <3>1. a = 0 /\ from = rd
      BY <1>4, <1>7, <2>1
    <3>2. (rd + a) % POINTERS = rd
      <4>1. 0 \in 0 .. POINTERS - 1 /\ rd + 0 < POINTERS /\ rd + 0 = rd
        BY <1>2, Sizes
      <4>2. (rd + 0) % POINTERS = IF rd + 0 < POINTERS THEN rd + 0 ELSE rd + 0 - POINTERS
        BY <1>2, <4>1, PointerMoved, Sizes
      <4>3. QED
        BY <3>1, <4>1, <4>2
    <3>3. QED
      BY <1>2, <3>1, <3>2
  <2>2. CASE i # 1
    <3>1. i - 1 \in 1 .. Len(sends) /\ (i - 1) + 1 = i
      BY <1>2, <2>2
    <3>2. sends[i - 1] = (rd + start[(i - 1) + 1]) % POINTERS
      BY <1>4, <3>1
    <3>3. sends[i - 1] = (rd + a) % POINTERS
      BY <1>7, <3>1, <3>2
    <3>4. (rd + a) % POINTERS \in 0 .. POINTERS - 1
      BY <1>2, <1>9, PointerMoved, Sizes
    <3>5. QED
      BY <2>2, <3>3, <3>4
  <2>3. QED
    BY <2>1, <2>2
<1> HIDE DEF from
<1>11. sends[i] = (from + m) % POINTERS
  <2>1. rd \in Int /\ a \in Int /\ m \in Int /\ POINTERS \in Nat /\ POINTERS > 0
    BY <1>9, Sizes
  <2>2. Moved(POINTERS, Moved(POINTERS, rd, a), m) = Moved(POINTERS, rd, a + m)
    BY <2>1, MovedTwice
  <2>3. QED
    BY <1>4, <1>9, <1>10, <2>2 DEF Moved
<1>12. Used(from, sends[i]) = m
  <2>1. (((from + m) % POINTERS) - from) % POINTERS = m
    BY <1>9, <1>10, DistanceMoved, Sizes
  <2>2. QED
    BY <1>11, <2>1 DEF Used
<1>13. ASSUME NEW k \in 1 .. m PROVE buffer[(from + k - 1) % SIZE] = wanted[i][k]
  <2>1. k - 1 \in Int /\ rd + a \in Int /\ (rd + a) + (k - 1) = rd + a + k - 1
          /\ from + (k - 1) = from + k - 1
    BY <1>9, <1>10, Sizes
  <2>2. (((rd + a) % POINTERS) + (k - 1)) % SIZE = ((rd + a) + (k - 1)) % SIZE
    BY <2>1, SameCell
  <2>3. buffer[(rd + a + k - 1) % SIZE] = wanted[i][k]
    BY <1>6, <1>7, <1>8
  <2>4. QED
    BY <1>10, <2>1, <2>2, <2>3
<1>14. Bytes(from, sends[i]) = [k \in 1 .. m |-> wanted[i][k]]
  BY <1>12, <1>13 DEF Bytes
<1>15. QED
  BY <1>5, <1>8, <1>14 DEF from

(* Whatever the sizes and the frames: what the chip sends at a SEND is the *)
(* datagram that was written, its protocol before the access address and   *)
(* the frame, and no write for a later frame touches one not sent yet      *)
(* (EthernetUDP_write, bufferData, sendUDP).                               *)
THEOREM DatagramsAreSentWhole == TransmitSpec => []DatagramIsWhole
<1>1. UdpInit => IInv
  BY InitInv
<1>2. IInv /\ [UdpNext]_<<buffer, wr, written, rd, sends, _offset, frame, ble, wanted, step>>
        => IInv'
  BY StepInv
<1>3. IInv => DatagramIsWhole
  BY WholeDatagrams DEF IInv
<1>4. QED
  BY <1>1, <1>2, <1>3, PTL DEF TransmitSpec

-----------------------------------------------------------------------------
(* Display: the invariant.                                                 *)

(* What a place may have been given.                                       *)
Given(f) == IF f = "device" THEN {DeviceIp, Pending} ELSE Inputs(f)
Fields == {"device", "target", "proto", "channel", "rx", "count"}

NowInv ==
  /\ latest = [f \in DOMAIN latest |-> latest[f]] /\ DOMAIN latest \subseteq Fields
  /\ \A f \in DOMAIN latest : latest[f] \in Given(f)

(* The pages sent so far are those of the buffer unless somebody waits to  *)
(* send it once more.                                                      *)
TransferInv ==
  /\ oled = [c \in Cells |-> oled[c]] /\ row \in Pages
  /\ busy \in Tasks \cup {Nobody} /\ waits \subseteq Tasks
  /\ busy = Nobody /\ DOMAIN latest # {} /\ ok => oled = lcd
  /\ busy # Nobody /\ waits = {} => \A c \in Cells : c[1] < row => oled[c] = lcd[c]

CallsInv == boot \in Seq(Fields \cup {"pending"})

ScreenInv == lcd = Layout /\ NowInv /\ CallsInv /\ TransferInv

-----------------------------------------------------------------------------
(* Display: the drawing of texts.                                          *)

LEMMA CellIs ==
  ASSUME NEW c \in Cells
  PROVE  c[1] \in 0 .. 7 /\ c[2] \in 0 .. 20
  BY DEF Cells, Pages, Columns

(* The characters of a text.                                              *)
Long(str, n) == DOMAIN str = 1 .. n

(* Characters that fit the page stay on it.                                *)
LEMMA OnePage ==
  ASSUME NEW c \in Cells, NEW y \in Pages, NEW x \in 0 .. 20, NEW w \in 0 .. 21 - x
  PROVE  21 * (c[1] - y) + c[2] - x + 1 \in 1 .. w <=> c[1] = y /\ c[2] - x + 1 \in 1 .. w
<1>1. PICK a \in 0 .. 7, b \in 0 .. 20 : a = c[1] /\ b = c[2]
  BY CellIs
<1>2. y \in 0 .. 7
  BY DEF Pages
<1>3. 21 * (a - y) + b - x + 1 \in 1 .. w <=> a = y /\ b - x + 1 \in 1 .. w
  <2>1. CASE a = y
    BY <2>1, <1>2
  <2>2. CASE a < y
    BY <2>2, <1>2
  <2>3. CASE a > y
    BY <2>3, <1>2
  <2>4. QED
    BY <1>2, <2>1, <2>2, <2>3
<1>4. QED
  BY <1>1, <1>3

(* Is cell c one of w cells from column x on?                              *)
Within(c, x, y, w) == c[1] = y /\ c[2] - x + 1 \in 1 .. w

(* What a text that begins at column x shows there.                        *)
Letter(str, x, c, inv) == [ch |-> CharAt(str, x, c), inv |-> inv, line |-> FALSE]

(* Screen r is s with that text in those cells.                            *)
Drawn(r, s, x, y, w, str, inv, c) ==
  /\ Within(c, x, y, w) => r[c] = Letter(str, x, c, inv)
  /\ ~Within(c, x, y, w) => r[c] = s[c]

(* SSD1306_DrawString draws its text and leaves the other cells alone.     *)
LEMMA StringDrawn ==
  ASSUME NEW s, NEW x \in 0 .. 20, NEW y \in Pages, NEW w \in 0 .. 21 - x, NEW str,
         NEW inv \in BOOLEAN, NEW c \in Cells, Long(str, w)
  PROVE  Drawn(SSD1306_DrawString(s, x, y, str, inv), s, x, y, w, str, inv, c)
<1> DEFINE i == 21 * (c[1] - y) + c[2] - x + 1
<1>1. i \in 1 .. w <=> Within(c, x, y, w)
  BY OnePage DEF Within
<1>2. c[1] = y => i = c[2] - x + 1
  <2>1. PICK b \in 0 .. 20 : b = c[2]
    BY CellIs
  <2>2. 21 * (y - y) + b - x + 1 = b - x + 1
    BY DEF Pages
  <2>3. QED
    BY <2>1, <2>2
<1>3. SSD1306_DrawString(s, x, y, str, inv)[c] =
        IF i \in DOMAIN str THEN [ch |-> str[i], inv |-> inv, line |-> FALSE] ELSE s[c]
  BY DEF SSD1306_DrawString
<1>4. CASE Within(c, x, y, w)
  <2>1. i \in DOMAIN str /\ i = c[2] - x + 1
    BY <1>1, <1>2, <1>4 DEF Long, Within
  <2>2. QED
    BY <1>3, <1>4, <2>1 DEF Letter, CharAt, Drawn
<1>5. CASE ~Within(c, x, y, w)
  BY <1>1, <1>3, <1>5 DEF Long, Drawn
<1>6. QED
  BY <1>4, <1>5

(* A row of equal characters.                                              *)
LEMMA RepIs == ASSUME NEW ch, NEW n \in Nat
  PROVE Long(Rep(ch, n), n) /\ \A i \in 1 .. n : Rep(ch, n)[i] = ch
  BY DEF Rep, Long

(* A field shows the whole text and blanks.                                *)
LEMMA FieldDrawn ==
  ASSUME NEW s, NEW x \in 0 .. 20, NEW y \in Pages, NEW w \in 0 .. 21 - x, NEW str,
         NEW n \in 0 .. w, NEW c \in Cells, Long(str, n)
  PROVE  Drawn(Field(s, x, y, w, str), s, x, y, w, str, FALSE, c)
<1> PICK no \in BOOLEAN : no = FALSE
  OBVIOUS
<1> DEFINE blanks == Rep(Space, w)
           b == SSD1306_DrawString(s, x, y, blanks, no)
           r == SSD1306_DrawString(b, x, y, str, no)
<1>1. Field(s, x, y, w, str) = r
  BY DEF Field
<1>2. Long(blanks, w) /\ \A i \in 1 .. w : blanks[i] = Space
  BY DEF Rep, Long
<1> HIDE DEF blanks
<1>3. Drawn(b, s, x, y, w, blanks, no, c)
  BY <1>2, StringDrawn
<1> HIDE DEF b
<1>4. Drawn(r, b, x, y, n, str, no, c)
  <2>1. n \in 0 .. 21 - x
    OBVIOUS
  <2>2. QED
    BY <2>1, StringDrawn
<1> HIDE DEF r
<1>5. Within(c, x, y, n) => Within(c, x, y, w)
  BY DEF Within
<1>6. ASSUME Within(c, x, y, w), ~Within(c, x, y, n) PROVE Letter(blanks, x, c, no) = Letter(str, x, c, no)
  <2>1. CharAt(blanks, x, c) = Space /\ CharAt(str, x, c) = Space
    BY <1>2, <1>6 DEF Within, CharAt, Long
  <2>2. QED
    BY <2>1 DEF Letter
<1>7. QED
  BY <1>1, <1>3, <1>4, <1>5, <1>6 DEF Drawn

(* SSD1306_DrawLine marks its cells and leaves the others alone.           *)
LEMMA LineDrawn ==
  ASSUME NEW s, NEW cells, NEW c \in Cells
  PROVE  SSD1306_DrawLine(s, cells)[c] =
           IF c \in cells THEN [s[c] EXCEPT !.line = TRUE] ELSE s[c]
  BY DEF SSD1306_DrawLine

-----------------------------------------------------------------------------
(* Display: the layout, field by field.                                    *)

TextFields == Fields \ {"rx"}

(* What a field shows, and where.                                          *)
Shown(f) == IF f = "channel" THEN Formatted("channel", ito2a)
            ELSE IF f = "count" THEN Formatted("count", ltoa) ELSE Value(f)
Left(f)  == IF f = "proto" THEN 17 ELSE IF f = "channel" THEN 18 ELSE 0
Row(f)   == IF f = "proto" THEN 1 ELSE IF f \in {"channel", "device"} THEN 2
            ELSE IF f = "target" THEN 4 ELSE 6
Width(f) == IF f = "proto" THEN 4 ELSE IF f = "channel" THEN 2 ELSE 15
In(f, c) == Within(c, Left(f), Row(f), Width(f))

(* The rest of the layout.                                                 *)
Labels(c) ==
  IF c[1] = 0 THEN CharAt(Title, 0, c)
  ELSE IF c[1] = 1 /\ c[2] <= 15 THEN CharAt(Rep("d", 10), 0, c)
  ELSE IF c[1] = 3 THEN CharAt(Rep("t", 10), 0, c)
  ELSE IF c[1] = 5 /\ c[2] <= 15 THEN CharAt(Rep("r", 12), 0, c) ELSE Space
InRx(c)     == c[1] \in 4 .. 6 /\ c[2] \in 17 .. 20
RxText(c)   == IF c[1] = 5 /\ c[2] = 18 THEN "R" ELSE IF c[1] = 5 /\ c[2] = 19 THEN "X" ELSE Space
Inverted(c) == c[1] = 0 \/ (RxOn /\ InRx(c))
Lined(c)    == (c[1] \in {2, 4} /\ c[2] <= 15) \/ c[2] = 15

(* The texts and numbers of the fields are no longer than the fields.      *)
LEMMA TextsFit ==
  /\ \A v \in {DeviceIp, Pending} \cup TargetIps : \E n \in 0 .. 15 : Long(v, n)
  /\ \A v \in Protos : Long(v, 4)
  /\ \A v \in Channels : Long(ito2a(v), 2)
  /\ \A v \in Counts : \E n \in 0 .. 15 : Long(ltoa(v), n)
<1>1. \A v \in Protos : Long(v, 4)
  BY DEF Protos, Rep, Long
<1>2. \A v : Long(ito2a(v), 2)
  BY DEF ito2a, Long
<1>3. \A v : \E n \in 0 .. 15 : Long(ltoa(v), n)
  <2> TAKE v
  <2>1. \E n \in 1 .. 5 : Long(ltoa(v), n)
    BY DEF ltoa, Long
  <2>2. QED
    BY <2>1
<1>4. \A v \in {DeviceIp, Pending} \cup TargetIps : \E n \in 0 .. 15 : Long(v, n)
  BY DisplayAssumption DEF Long
<1>5. QED
  BY <1>1, <1>2, <1>3, <1>4

(* What a field shows fits it.                                             *)
LEMMA Fits == NowInv => \A f \in TextFields : \E n \in 0 .. Width(f) : Long(Shown(f), n)
<1> SUFFICES ASSUME NowInv, NEW f \in TextFields PROVE \E n \in 0 .. Width(f) : Long(Shown(f), n)
  OBVIOUS
<1>1. CASE f \notin DOMAIN latest
  <2>1. Long(Shown(f), 0)
    BY <1>1 DEF Shown, Formatted, Value, Long
  <2>2. QED
    BY <2>1 DEF Width
<1>2. CASE f \in DOMAIN latest
  <2>1. latest[f] \in Given(f)
    BY <1>2 DEF NowInv
  <2>2. CASE f \in {"device", "target"}
    BY <1>2, <2>1, <2>2, TextsFit DEF Given, Inputs, Shown, Value, Width
  <2>3. CASE f = "proto"
    BY <1>2, <2>1, <2>3, TextsFit DEF Given, Inputs, Shown, Value, Width
  <2>4. CASE f = "channel"
    BY <1>2, <2>1, <2>4, TextsFit DEF Given, Inputs, Shown, Formatted, Width
  <2>5. CASE f = "count"
    BY <1>2, <2>1, <2>5, TextsFit DEF Given, Inputs, Shown, Formatted, Width
  <2>6. QED
    BY <2>2, <2>3, <2>4, <2>5 DEF TextFields, Fields
<1>3. QED
  BY <1>1, <1>2

(* Behind the text of a field there are blanks.                            *)
LEMMA Outside ==
  ASSUME NEW str, NEW x \in Int, NEW w \in Nat, NEW n \in 0 .. w, NEW c \in Cells,
         Long(str, n), ~(c[2] - x + 1 \in 1 .. w)
  PROVE  CharAt(str, x, c) = Space
<1>1. PICK k \in Int : k = c[2] - x + 1
  BY CellIs
<1>2. k \notin DOMAIN str
  BY <1>1 DEF Long
<1>3. QED
  BY <1>1, <1>2 DEF CharAt

Rest(c) == IF ~InRx(c) THEN Labels(c) ELSE IF RxOn THEN RxText(c) ELSE Space

(* One field, or the rest.                                                 *)
TextIs(c) ==
  /\ \A f \in TextFields : In(f, c) => Text(c) = CharAt(Shown(f), Left(f), c)
  /\ (\A f \in TextFields : ~In(f, c)) =>
       Text(c) = Rest(c)

Rows(a, b) ==
  /\ a = 0 => Text(<<a, b>>) = CharAt(Title, 0, <<a, b>>)
  /\ a = 1 /\ b <= 15 => Text(<<a, b>>) = CharAt(Rep("d", 10), 0, <<a, b>>)
  /\ a = 1 /\ b > 15 => Text(<<a, b>>) = CharAt(Value("proto"), 17, <<a, b>>)
  /\ a = 2 /\ b <= 15 => Text(<<a, b>>) = CharAt(Value("device"), 0, <<a, b>>)
  /\ a = 2 /\ b > 15 => Text(<<a, b>>) = CharAt(Formatted("channel", ito2a), 18, <<a, b>>)
  /\ a = 3 => Text(<<a, b>>) = CharAt(Rep("t", 10), 0, <<a, b>>)
  /\ a = 4 => Text(<<a, b>>) = CharAt(Value("target"), 0, <<a, b>>)
  /\ a = 5 /\ b <= 15 => Text(<<a, b>>) = CharAt(Rep("r", 12), 0, <<a, b>>)
  /\ a = 5 /\ b > 15 /\ RxOn => Text(<<a, b>>) = CharAt(<<"R", "X">>, 18, <<a, b>>)
  /\ a = 5 /\ b > 15 /\ ~RxOn => Text(<<a, b>>) = Space
  /\ a = 6 => Text(<<a, b>>) = CharAt(Formatted("count", ltoa), 0, <<a, b>>)
  /\ a = 7 => Text(<<a, b>>) = Space

(* The text of the layout, row by row.                                     *)
LEMMA RowIs == ASSUME NEW a \in 0 .. 7, NEW b \in 0 .. 20 PROVE Rows(a, b)
<1>1. a = 0 => Text(<<a, b>>) = CharAt(Title, 0, <<a, b>>)
  BY DEF Text
<1>2. a = 1 /\ b <= 15 => Text(<<a, b>>) = CharAt(Rep("d", 10), 0, <<a, b>>)
  BY DEF Text
<1>3. a = 1 /\ b > 15 => Text(<<a, b>>) = CharAt(Value("proto"), 17, <<a, b>>)
  BY DEF Text
<1>4. a = 2 /\ b <= 15 => Text(<<a, b>>) = CharAt(Value("device"), 0, <<a, b>>)
  BY DEF Text
<1>5. a = 2 /\ b > 15 => Text(<<a, b>>) = CharAt(Formatted("channel", ito2a), 18, <<a, b>>)
  BY DEF Text
<1>6. a = 3 => Text(<<a, b>>) = CharAt(Rep("t", 10), 0, <<a, b>>)
  BY DEF Text
<1>7. a = 4 => Text(<<a, b>>) = CharAt(Value("target"), 0, <<a, b>>)
  BY DEF Text
<1>8. a = 5 /\ b <= 15 => Text(<<a, b>>) = CharAt(Rep("r", 12), 0, <<a, b>>)
  BY DEF Text
<1>9. a = 5 /\ b > 15 /\ RxOn => Text(<<a, b>>) = CharAt(<<"R", "X">>, 18, <<a, b>>)
  BY DEF Text
<1>10. a = 5 /\ b > 15 /\ ~RxOn => Text(<<a, b>>) = Space
  BY DEF Text
<1>11. a = 6 => Text(<<a, b>>) = CharAt(Formatted("count", ltoa), 0, <<a, b>>)
  BY DEF Text
<1>12. a = 7 => Text(<<a, b>>) = Space
  BY DEF Text
<1>13. QED
  BY <1>1, <1>2, <1>3, <1>4, <1>5, <1>6, <1>7, <1>8, <1>9, <1>10, <1>11, <1>12 DEF Rows

Rests(a, b) ==
  /\ a = 0 => Rest(<<a, b>>) = CharAt(Title, 0, <<a, b>>)
  /\ a = 1 /\ b <= 15 => Rest(<<a, b>>) = CharAt(Rep("d", 10), 0, <<a, b>>)
  /\ a = 1 /\ b > 15 => Rest(<<a, b>>) = Space
  /\ a \in {2, 4, 6, 7} => Rest(<<a, b>>) = Space
  /\ a = 3 => Rest(<<a, b>>) = CharAt(Rep("t", 10), 0, <<a, b>>)
  /\ a = 5 /\ b <= 15 => Rest(<<a, b>>) = CharAt(Rep("r", 12), 0, <<a, b>>)
  /\ a = 5 /\ b \in {16, 17, 20} => Rest(<<a, b>>) = Space
  /\ a = 5 /\ b > 15 /\ ~RxOn => Rest(<<a, b>>) = Space
  /\ a = 5 /\ b = 18 /\ RxOn => Rest(<<a, b>>) = "R"
  /\ a = 5 /\ b = 19 /\ RxOn => Rest(<<a, b>>) = "X"

(* The labels and the sign for reception, row by row.                      *)
LEMMA RestIs == ASSUME NEW a \in 0 .. 7, NEW b \in 0 .. 20 PROVE Rests(a, b)
<1>1. a = 0 => Rest(<<a, b>>) = CharAt(Title, 0, <<a, b>>)
  BY DEF Rest, InRx, Labels, RxText
<1>2. a = 1 /\ b <= 15 => Rest(<<a, b>>) = CharAt(Rep("d", 10), 0, <<a, b>>)
  BY DEF Rest, InRx, Labels, RxText
<1>3. a = 1 /\ b > 15 => Rest(<<a, b>>) = Space
  BY DEF Rest, InRx, Labels, RxText
<1>4. a \in {2, 4, 6, 7} => Rest(<<a, b>>) = Space
  BY DEF Rest, InRx, Labels, RxText
<1>5. a = 3 => Rest(<<a, b>>) = CharAt(Rep("t", 10), 0, <<a, b>>)
  BY DEF Rest, InRx, Labels, RxText
<1>6. a = 5 /\ b <= 15 => Rest(<<a, b>>) = CharAt(Rep("r", 12), 0, <<a, b>>)
  BY DEF Rest, InRx, Labels, RxText
<1>7. a = 5 /\ b \in {16, 17, 20} => Rest(<<a, b>>) = Space
  BY DEF Rest, InRx, Labels, RxText
<1>8. a = 5 /\ b > 15 /\ ~RxOn => Rest(<<a, b>>) = Space
  BY DEF Rest, InRx, Labels, RxText
<1>9. a = 5 /\ b = 18 /\ RxOn => Rest(<<a, b>>) = "R"
  BY DEF Rest, InRx, Labels, RxText
<1>10. a = 5 /\ b = 19 /\ RxOn => Rest(<<a, b>>) = "X"
  BY DEF Rest, InRx, Labels, RxText
<1>11. QED
  BY <1>1, <1>2, <1>3, <1>4, <1>5, <1>6, <1>7, <1>8, <1>9, <1>10 DEF Rests

Inside(a, b) ==
  /\ In("device", <<a, b>>)  <=> a = 2 /\ b <= 14
  /\ In("target", <<a, b>>)  <=> a = 4 /\ b <= 14
  /\ In("proto", <<a, b>>)   <=> a = 1 /\ b >= 17
  /\ In("channel", <<a, b>>) <=> a = 2 /\ b \in {18, 19}
  /\ In("count", <<a, b>>)   <=> a = 6 /\ b <= 14

(* The cells of the fields.                                                *)
LEMMA InIs == ASSUME NEW a \in 0 .. 7, NEW b \in 0 .. 20 PROVE Inside(a, b)
  BY DEF Inside, In, Within, Left, Row, Width

(* The text of the layout is that of the fields, and the rest.             *)
LEMMA TextByField == NowInv => \A c \in Cells : TextIs(c)
<1> SUFFICES ASSUME NowInv, NEW cell \in Cells PROVE TextIs(cell)
  OBVIOUS
<1> PICK a \in 0 .. 7, b \in 0 .. 20 : cell = <<a, b>>
  BY DEF Cells, Pages, Columns
<1> DEFINE c == <<a, b>>
<1>1. c \in Cells /\ Rows(a, b) /\ Rests(a, b) /\ Inside(a, b)
  BY RowIs, RestIs, InIs
<1>2. ASSUME NEW f \in TextFields, ~(b - Left(f) + 1 \in 1 .. Width(f))
      PROVE  CharAt(Shown(f), Left(f), c) = Space
  <2>1. PICK n \in 0 .. Width(f) : Long(Shown(f), n)
    BY Fits
  <2>2. Left(f) \in Int /\ Width(f) \in Nat
    BY DEF Left, Width
  <2>3. QED
    BY <1>1, <1>2, <2>1, <2>2, Outside
<1>3. /\ b >= 15 => CharAt(Value("device"), 0, c) = Space
      /\ b >= 15 => CharAt(Value("target"), 0, c) = Space
      /\ b >= 15 => CharAt(Formatted("count", ltoa), 0, c) = Space
      /\ b \in {16, 17, 20} => CharAt(Formatted("channel", ito2a), 18, c) = Space
      /\ b <= 16 => CharAt(Value("proto"), 17, c) = Space
  BY <1>2 DEF Left, Width, Shown, TextFields, Fields
<1>4. ASSUME NEW f \in TextFields, In(f, c) PROVE Text(c) = CharAt(Shown(f), Left(f), c)
  BY <1>1, <1>4 DEF Rows, Inside, Left, Shown, TextFields, Fields
<1>5. ASSUME \A f \in TextFields : ~In(f, c) PROVE Text(c) = Rest(c)
  <2>1. ~In("device", c) /\ ~In("target", c) /\ ~In("proto", c) /\ ~In("channel", c) /\ ~In("count", c)
    BY <1>5 DEF TextFields, Fields
  <2>2. CASE a \in {0, 3, 7}
    BY <1>1, <2>2 DEF Rows, Rests
  <2>3. CASE a = 1
    BY <1>1, <1>3, <2>1, <2>3 DEF Rows, Rests, Inside
  <2>4. CASE a = 2
    BY <1>1, <1>3, <2>1, <2>4 DEF Rows, Rests, Inside
  <2>5. CASE a \in {4, 6}
    BY <1>1, <1>3, <2>1, <2>5 DEF Rows, Rests, Inside
  <2>6. CASE a = 5
    <3>1. /\ b = 18 => CharAt(<<"R", "X">>, 18, c) = "R"
          /\ b = 19 => CharAt(<<"R", "X">>, 18, c) = "X"
          /\ b \in {16, 17, 20} => CharAt(<<"R", "X">>, 18, c) = Space
      BY DEF CharAt
    <3>2. QED
      BY <1>1, <2>6, <3>1 DEF Rows, Rests
  <2>7. QED
    BY <2>2, <2>3, <2>4, <2>5, <2>6
<1>6. QED
  BY <1>4, <1>5 DEF TextIs

(* A cell of the layout.                                                   *)
LEMMA LayoutIs ==
  \A c \in Cells : Layout[c] = [ch |-> Text(c), inv |-> Inverted(c), line |-> Lined(c)]
<1> SUFFICES ASSUME NEW c \in Cells
      PROVE  Layout[c] = [ch |-> Text(c), inv |-> Inverted(c), line |-> Lined(c)]
  OBVIOUS
<1>1. PICK a \in 0 .. 7, b \in 0 .. 20 : c = <<a, b>>
  BY DEF Cells, Pages, Columns
<1>2. (c \in (4 .. 6) \X (17 .. 20)) = InRx(c)
  BY <1>1 DEF InRx
<1>3. (c \in Under(2) \cup Under(4) \cup Right) = Lined(c)
  BY <1>1 DEF Under, Right, Pages, Lined
<1>4. Layout[c] = [ch |-> Text(c), inv |-> c[1] = 0 \/ (RxOn /\ c \in (4 .. 6) \X (17 .. 20)),
                   line |-> c \in Under(2) \cup Under(4) \cup Right]
  BY DEF Layout
<1>5. QED
  BY <1>2, <1>3, <1>4, Zenon DEF Inverted

(* The same facts after a step.                                            *)
LEMMA TextByFieldNext == NowInv' => \A c \in Cells : TextIs(c)'
<1>1. (NowInv => \A c \in Cells : TextIs(c))'
  BY TextByField, PTL
<1>2. QED
  BY <1>1 DEF Cells, Pages, Columns
LEMMA FitsNext == NowInv' => \A f \in TextFields : \E n \in 0 .. Width(f) : Long(Shown(f)', n)
<1>1. (NowInv => \A f \in TextFields : \E n \in 0 .. Width(f) : Long(Shown(f), n))'
  BY Fits, PTL
<1>2. QED
  BY <1>1 DEF TextFields, Fields, Width, Long
LEMMA LayoutIsNext ==
  \A c \in Cells : Layout'[c] = [ch |-> Text(c)', inv |-> Inverted(c)', line |-> Lined(c)]
<1>1. (\A c \in Cells : Layout[c] = [ch |-> Text(c), inv |-> Inverted(c), line |-> Lined(c)])'
  BY LayoutIs, PTL
<1>2. QED
  BY <1>1 DEF Cells, Pages, Columns, Lined

(* A cell shows the same text if its field does.                           *)
LEMMA TextsUnchanged ==
  ASSUME NEW c \in Cells, NowInv, NowInv', 
         \A g \in TextFields : In(g, c) => Shown(g)' = Shown(g),
         InRx(c) => RxOn' = RxOn
  PROVE  Text(c)' = Text(c)
<1>1. TextIs(c) /\ TextIs(c)'
  BY TextByField, TextByFieldNext
<1>2. ASSUME NEW g \in TextFields, In(g, c) PROVE Text(c)' = Text(c)
  <2>1. Text(c) = CharAt(Shown(g), Left(g), c)
    BY <1>1, <1>2 DEF TextIs
  <2>2. Text(c)' = CharAt(Shown(g)', Left(g), c)
    BY <1>1, <1>2 DEF TextIs, CharAt, In, Within, Left, Row, Width, TextFields, Fields
  <2>3. QED
    BY <1>2, <2>1, <2>2
<1>3. ASSUME \A g \in TextFields : ~In(g, c) PROVE Text(c)' = Text(c)
  <2>1. Text(c) = Rest(c)
    BY <1>1, <1>3 DEF TextIs
  <2>2. Text(c)' = Rest(c)'
    BY <1>1, <1>3 DEF TextIs, In, Within, Left, Row, Width, TextFields, Fields
  <2>3. Rest(c)' = Rest(c)
    BY DEF Rest, InRx, Labels, RxText, CharAt, Title
  <2>4. QED
    BY <2>1, <2>2, <2>3
<1>4. QED
  BY <1>2, <1>3

(* A call of a GUI_ function, without its transfer.                        *)
Gives(f, v) ==
  /\ lcd' = Draw(lcd, f, v)
  /\ latest' = [x \in DOMAIN latest \cup {Place(f)} |-> IF x = Place(f) THEN v ELSE latest[x]]

Calls == Fields \cup {"pending"}

(* A call changes the value of one place.                                  *)
LEMMA ValuesGiven ==
  ASSUME NowInv, NEW f \in Calls, NEW v \in Inputs(f), Gives(f, v)
  PROVE  /\ NowInv'
         /\ DOMAIN latest' = DOMAIN latest \cup {Place(f)} /\ latest'[Place(f)] = v
         /\ \A g \in Fields : g # Place(f) => (g \in DOMAIN latest' <=> g \in DOMAIN latest)
         /\ \A g \in DOMAIN latest : g # Place(f) => latest'[g] = latest[g]
<1>1. Place(f) \in Fields /\ v \in Given(Place(f))
  <2>1. CASE f \in {"device", "pending"}
    BY <2>1 DEF Place, Given, Inputs, Fields
  <2>2. CASE f \notin {"device", "pending"}
    BY <2>2 DEF Place, Given, Calls, Fields
  <2>3. QED
    BY <2>1, <2>2
<1>2. /\ latest' = [g \in DOMAIN latest' |-> latest'[g]]
      /\ DOMAIN latest' = DOMAIN latest \cup {Place(f)} /\ latest'[Place(f)] = v
      /\ \A g \in DOMAIN latest : g # Place(f) => latest'[g] = latest[g]
  BY DEF Gives
<1>3. \A g \in DOMAIN latest' : latest'[g] \in Given(g)
  <2> TAKE g \in DOMAIN latest'
  <2>1. CASE g = Place(f)
    BY <1>1, <1>2, <2>1
  <2>2. CASE g # Place(f)
    BY <1>2, <2>2 DEF NowInv
  <2>3. QED
    BY <2>1, <2>2
<1>4. \A g : Given(g)' = Given(g)
  BY DEF Given, Inputs, Protos, Rep
<1>5. NowInv'
  <2>1. DOMAIN latest' \subseteq Fields
    BY <1>1, <1>2 DEF NowInv
  <2>2. QED
    BY <1>2, <1>3, <2>1 DEF NowInv, Given, Inputs, Protos, Rep, Fields
<1>6. QED
  BY <1>2, <1>5

(* The fields of the others, and what they show.                           *)
LEMMA OthersKept ==
  ASSUME NowInv, NEW f \in Calls, NEW v \in Inputs(f), Gives(f, v)
  PROVE  /\ \A g \in TextFields : g # Place(f) => Shown(g)' = Shown(g)
         /\ Place(f) # "rx" => RxOn' = RxOn
         /\ Place(f) = "rx" => RxOn' = v
<1>1. /\ DOMAIN latest' = DOMAIN latest \cup {Place(f)} /\ latest'[Place(f)] = v
      /\ \A g \in Fields : g # Place(f) => (g \in DOMAIN latest' <=> g \in DOMAIN latest)
      /\ \A g \in DOMAIN latest : g # Place(f) => latest'[g] = latest[g]
  BY ValuesGiven
<1>2. ASSUME NEW g \in TextFields, g # Place(f) PROVE Shown(g)' = Shown(g)
  <2>1. g \in Fields
    BY DEF TextFields
  <2>2. CASE g = "channel"
    BY <1>1, <1>2, <2>1, <2>2 DEF Shown, Formatted
  <2>3. CASE g = "count"
    BY <1>1, <1>2, <2>1, <2>3 DEF Shown, Formatted
  <2>4. CASE g \notin {"channel", "count"}
    BY <1>1, <1>2, <2>1, <2>4 DEF Shown, Value
  <2>5. QED
    BY <2>2, <2>3, <2>4
<1>3. Place(f) # "rx" => RxOn' = RxOn
  BY <1>1 DEF RxOn, Fields
<1>4. Place(f) = "rx" => RxOn' = v
  <2> SUFFICES ASSUME Place(f) = "rx" PROVE RxOn' = v
    OBVIOUS
  <2>1. v \in BOOLEAN
    BY DEF Place, Inputs, Calls, Fields
  <2>2. RxOn' <=> latest'["rx"]
    BY <1>1 DEF RxOn
  <2>3. QED
    BY <1>1, <2>1, <2>2 DEF RxOn
<1>5. QED
  BY <1>2, <1>3, <1>4

Cell(c) == [ch |-> Text(c), inv |-> Inverted(c), line |-> Lined(c)]

(* Reception is on or off.                                                 *)
LEMMA RxIsTruth == NowInv => RxOn \in BOOLEAN
  BY DEF NowInv, RxOn, Given, Inputs, Fields

(* The places of fields, lines and the sign for reception do not overlap.  *)
Apart(p, c) ==
  /\ In(p, c) => c[1] # 0 /\ ~InRx(c)
  /\ In(p, c) => (Lined(c) <=> p \in {"device", "target"})
  /\ \A g \in TextFields : g # p /\ In(p, c) => ~In(g, c)

LEMMA FieldsApart ==
  ASSUME NEW p \in TextFields, NEW c \in Cells
  PROVE  Apart(p, c)
<1> PICK a \in 0 .. 7, b \in 0 .. 20 : c = <<a, b>>
  BY DEF Cells, Pages, Columns
<1>1. Inside(a, b)
  BY InIs
<1>2. QED
  BY <1>1 DEF Apart, Inside, InRx, Lined, TextFields, Fields

(* Every field fits its page.                                              *)
LEMMA PlacesFit ==
  ASSUME NEW p \in TextFields
  PROVE  Left(p) \in 0 .. 20 /\ Row(p) \in Pages /\ Width(p) \in 0 .. 21 - Left(p)
  BY DEF Left, Row, Width, Pages, TextFields, Fields

Redrawn(p) == Field(lcd, Left(p), Row(p), Width(p), Shown(p)')

(* What the call of a function for a text draws.                           *)
LEMMA TextDrawn ==
  ASSUME NowInv, NEW f \in Calls \ {"rx"}, NEW v \in Inputs(f), Gives(f, v)
  PROVE  /\ Place(f) \in TextFields
         /\ Place(f) \notin {"device", "target"} => lcd' = Redrawn(Place(f))
         /\ Place(f) = "device" => lcd' = SSD1306_DrawLine(Redrawn("device"), Under(2))
         /\ Place(f) = "target" => lcd' = SSD1306_DrawLine(Redrawn("target"), Under(4))
<1>1. Place(f) \in DOMAIN latest' /\ latest'[Place(f)] = v
  BY ValuesGiven DEF Calls
<1>2. CASE f \in {"device", "pending"}
  <2>1. Place(f) = "device" /\ Shown("device")' = v
    BY <1>1, <1>2 DEF Place, Shown, Value
  <2>2. lcd' = GUI_ChangeDeviceIp(lcd, v)
    BY <1>2 DEF Gives, Draw
  <2>3. QED
    BY <2>1, <2>2 DEF GUI_ChangeDeviceIp, Redrawn, Left, Row, Width, TextFields, Fields
<1>3. CASE f = "target"
  <2>1. Place(f) = "target" /\ Shown("target")' = v
    BY <1>1, <1>3 DEF Place, Shown, Value
  <2>2. lcd' = GUI_ChangeTargetIp(lcd, v)
    BY <1>3 DEF Gives, Draw
  <2>3. QED
    BY <2>1, <2>2 DEF GUI_ChangeTargetIp, Redrawn, Left, Row, Width, TextFields, Fields
<1>4. CASE f = "proto"
  <2>1. Place(f) = "proto" /\ Shown("proto")' = v
    BY <1>1, <1>4 DEF Place, Shown, Value
  <2>2. lcd' = GUI_ChangeProto(lcd, v)
    BY <1>4 DEF Gives, Draw
  <2>3. QED
    BY <2>1, <2>2 DEF GUI_ChangeProto, Redrawn, Left, Row, Width, TextFields, Fields
<1>5. CASE f = "channel"
  <2>1. Place(f) = "channel" /\ Shown("channel")' = ito2a(v)
    BY <1>1, <1>5 DEF Place, Shown, Formatted
  <2>2. lcd' = GUI_ChangeChannel(lcd, v)
    BY <1>5 DEF Gives, Draw
  <2>3. QED
    BY <2>1, <2>2 DEF GUI_ChangeChannel, Redrawn, Left, Row, Width, TextFields, Fields
<1>6. CASE f = "count"
  <2>1. Place(f) = "count" /\ Shown("count")' = ltoa(v)
    BY <1>1, <1>6 DEF Place, Shown, Formatted
  <2>2. lcd' = GUI_PeriodicUpdate(lcd, v)
    BY <1>6 DEF Gives, Draw
  <2>3. QED
    BY <2>1, <2>2 DEF GUI_PeriodicUpdate, Redrawn, Left, Row, Width, TextFields, Fields
<1>7. QED
  BY <1>2, <1>3, <1>4, <1>5, <1>6 DEF Calls, Fields

(* A cell before its line is drawn again.                                  *)
LEMMA CellRedrawn ==
  ASSUME lcd = Layout, NowInv, NEW f \in Calls \ {"rx"}, NEW v \in Inputs(f), Gives(f, v),
         NEW p, p = Place(f), NEW c \in Cells
  PROVE  /\ In(p, c) => Redrawn(p)[c] = [ch |-> Text(c)', inv |-> Inverted(c)', line |-> FALSE]
         /\ ~In(p, c) => Redrawn(p)[c] = Cell(c)'
<1>1. p \in TextFields
  BY TextDrawn
<1>2. NowInv'
  BY ValuesGiven
<1>3. PICK n \in 0 .. Width(p) : Long(Shown(p)', n)
  BY <1>1, <1>2, FitsNext
<1>4. Drawn(Redrawn(p), lcd, Left(p), Row(p), Width(p), Shown(p)', FALSE, c)
  <2>1. Left(p) \in 0 .. 20 /\ Row(p) \in Pages /\ Width(p) \in 0 .. 21 - Left(p)
    BY <1>1, PlacesFit
  <2>2. QED
    BY <1>3, <2>1, FieldDrawn DEF Redrawn
<1>5. Apart(p, c) /\ p # "rx"
  BY <1>1, FieldsApart DEF TextFields
<1>6. CASE In(p, c)
  <2>1. Redrawn(p)[c] = Letter(Shown(p)', Left(p), c, FALSE)
    BY <1>4, <1>6 DEF Drawn, In
  <2>2. Text(c)' = CharAt(Shown(p)', Left(p), c)
    <3>1. TextIs(c)'
      BY <1>2, TextByFieldNext
    <3>2. QED
      BY <1>1, <1>6, <3>1 DEF TextIs, CharAt, In, Within, Left, Row, Width, TextFields, Fields
  <2>3. Inverted(c)' = FALSE
    BY <1>5, <1>6 DEF Inverted, Apart, InRx
  <2>4. QED
    BY <1>6, <2>1, <2>2, <2>3 DEF Letter
<1>7. CASE ~In(p, c)
  <2>1. Redrawn(p)[c] = lcd[c]
    BY <1>4, <1>7 DEF Drawn, In
  <2>2. lcd[c] = Cell(c)
    BY LayoutIs DEF Cell
  <2>3. RxOn' = RxOn /\ \A g \in TextFields : g # p => Shown(g)' = Shown(g)
    BY <1>5, OthersKept
  <2>4. Text(c)' = Text(c)
    BY <1>2, <1>7, <2>3, TextsUnchanged
  <2>5. Inverted(c)' = Inverted(c)
    BY <2>3 DEF Inverted, InRx
  <2>6. QED
    BY <1>7, <2>1, <2>2, <2>4, <2>5 DEF Cell, Lined
<1>8. QED
  BY <1>6, <1>7

(* A screen of the right cells is the layout.                              *)
LEMMA CellsDecide ==
  ASSUME lcd' = [c \in Cells |-> lcd'[c]], \A c \in Cells : lcd'[c] = Cell(c)'
  PROVE  lcd' = Layout'
<1>1. \A c \in Cells : Layout'[c] = Cell(c)'
  BY LayoutIsNext DEF Cell, Lined
<1>2. Layout' = [c \in Cells |-> Layout'[c]]
  BY DEF Layout, Cells, Pages, Columns
<1>3. QED
  BY <1>1, <1>2

(* A line on a cell.                                                       *)
LEMMA LineSet ==
  ASSUME NEW r, NEW ch, NEW inv, NEW line, r = [ch |-> ch, inv |-> inv, line |-> line]
  PROVE  [r EXCEPT !.line = TRUE] = [ch |-> ch, inv |-> inv, line |-> TRUE]
<1>1. \A new : [[ch |-> ch, inv |-> inv, line |-> line] EXCEPT !.line = new]
                 = [ch |-> ch, inv |-> inv, line |-> new]
  BY SMT
<1>2. QED
  BY <1>1, Zenon

(* The functions for texts and numbers draw the layout of the new values.  *)
LEMMA TextCall ==
  ASSUME lcd = Layout, NowInv, NEW f \in Calls \ {"rx"}, NEW v \in Inputs(f), Gives(f, v)
  PROVE  lcd' = Layout'
<1> PICK p \in TextFields : p = Place(f)
  BY TextDrawn
<1>1. lcd' = [c \in Cells |-> lcd'[c]]
  <2>1. lcd' = Redrawn(p) \/ \E cells : lcd' = SSD1306_DrawLine(Redrawn(p), cells)
    BY TextDrawn
  <2>2. CASE lcd' = Redrawn(p)
    BY <2>2 DEF Redrawn, Field, SSD1306_DrawString
  <2>3. ASSUME NEW cells, lcd' = SSD1306_DrawLine(Redrawn(p), cells) PROVE <1>1
    BY <2>3 DEF SSD1306_DrawLine
  <2>4. QED
    BY <2>1, <2>2, <2>3
<1>2. ASSUME NEW c \in Cells PROVE lcd'[c] = Cell(c)'
  <2>1. /\ In(p, c) => Redrawn(p)[c] = [ch |-> Text(c)', inv |-> Inverted(c)', line |-> FALSE]
        /\ ~In(p, c) => Redrawn(p)[c] = Cell(c)'
    BY CellRedrawn
  <2>2. Apart(p, c)
    BY FieldsApart
  <2>3. CASE p \notin {"device", "target"}
    <3>1. In(p, c) => Lined(c) = FALSE
      BY <2>2, <2>3 DEF Apart, Lined
    <3>2. lcd'[c] = Redrawn(p)[c]
      BY <2>3, TextDrawn
    <3>3. QED
      BY <2>1, <3>1, <3>2 DEF Cell, Lined
  <2>4. ASSUME NEW y \in {2, 4}, Row(p) = y, p \in {"device", "target"},
               lcd' = SSD1306_DrawLine(Redrawn(p), Under(y))
        PROVE  lcd'[c] = Cell(c)'
    <3>1. lcd'[c] = IF c \in Under(y) THEN [Redrawn(p)[c] EXCEPT !.line = TRUE] ELSE Redrawn(p)[c]
      BY <2>4 DEF SSD1306_DrawLine
    <3>2. (c \in Under(y) => Lined(c) = TRUE) /\ (In(p, c) => c \in Under(y))
      <4> PICK a \in 0 .. 7, b \in 0 .. 20 : c = <<a, b>>
        BY DEF Cells, Pages, Columns
      <4>1. c \in Under(y) => Lined(c)
        BY DEF Under, Lined
      <4>2. In(p, c) => c \in Under(y)
        <5>1. Inside(a, b)
          BY InIs
        <5>2. (p = "device" /\ y = 2) \/ (p = "target" /\ y = 4)
          BY <2>4 DEF Row
        <5>3. QED
          BY <5>1, <5>2 DEF Inside, Under
      <4>3. QED
        BY <4>1, <4>2 DEF Lined
    <3>3. CASE In(p, c)
      <4>1. lcd'[c] = [Redrawn(p)[c] EXCEPT !.line = TRUE]
        BY <3>1, <3>2, <3>3
      <4>2. Redrawn(p)[c] = [ch |-> Text(c)', inv |-> Inverted(c)', line |-> FALSE]
        BY <2>1, <3>3
      <4>3. lcd'[c] = [ch |-> Text(c)', inv |-> Inverted(c)', line |-> TRUE]
        BY <4>1, <4>2, LineSet
      <4>4. Lined(c) = TRUE
        BY <3>2, <3>3
      <4>5. QED
        BY <4>3, <4>4 DEF Cell, Lined
    <3>4. CASE ~In(p, c)
      <4>1. Redrawn(p)[c] = [ch |-> Text(c)', inv |-> Inverted(c)', line |-> Lined(c)]
        BY <2>1, <3>4 DEF Cell, Lined
      <4>2. CASE c \in Under(y)
        <5>1. Lined(c) = TRUE
          BY <3>2, <4>2
        <5>2. lcd'[c] = [Redrawn(p)[c] EXCEPT !.line = TRUE]
          BY <3>1, <4>2
        <5>3. lcd'[c] = [ch |-> Text(c)', inv |-> Inverted(c)', line |-> TRUE]
          BY <4>1, <5>2, LineSet
        <5>4. QED
          BY <5>1, <5>3 DEF Cell, Lined
      <4>3. CASE c \notin Under(y)
        BY <3>1, <4>1, <4>3 DEF Cell, Lined
      <4>4. QED
        BY <4>2, <4>3
    <3>5. QED
      BY <3>3, <3>4
  <2>5. QED
    BY <2>3, <2>4, TextDrawn DEF Row
<1>3. QED
  BY <1>1, <1>2, CellsDecide

(* GUI_ChangeRx draws the layout of the new values.                        *)
LEMMA RxCall ==
  ASSUME lcd = Layout, NowInv, NEW v \in BOOLEAN, Gives("rx", v)
  PROVE  lcd' = Layout'
<1> DEFINE none == Rep(Space, 4)
           sign == IF v THEN <<Space, "R", "X", Space>> ELSE Rep(Space, 4)
           s1 == SSD1306_DrawString(lcd, 17, 4, none, v)
           s2 == SSD1306_DrawString(s1, 17, 5, sign, v)
           s3 == SSD1306_DrawString(s2, 17, 6, none, v)
<1>1. lcd' = s3
  BY DEF Gives, Draw, GUI_ChangeRx
<1>2. lcd' = [c \in Cells |-> lcd'[c]]
  BY <1>1 DEF SSD1306_DrawString
<1>3. Long(none, 4) /\ Long(sign, 4)
  BY DEF Rep, Long
<1>4. ASSUME NEW c \in Cells PROVE lcd'[c] = Cell(c)'
  <2> PICK a \in 0 .. 7, b \in 0 .. 20 : c = <<a, b>>
    BY DEF Cells, Pages, Columns
  <2>1. /\ NowInv' /\ RxOn' = v
        /\ \A g \in TextFields : Shown(g)' = Shown(g)
    <3>1. v \in Inputs("rx") /\ "rx" \in Calls /\ Place("rx") = "rx"
      BY DEF Inputs, Calls, Fields, Place
    <3>2. QED
      BY <3>1, ValuesGiven, OthersKept DEF TextFields
  <2>2. /\ Drawn(s1, lcd, 17, 4, 4, none, v, c) /\ Drawn(s2, s1, 17, 5, 4, sign, v, c)
        /\ Drawn(s3, s2, 17, 6, 4, none, v, c)
    <3> HIDE DEF none, sign
    <3>1. 17 \in 0 .. 20 /\ 4 \in Pages /\ 5 \in Pages /\ 6 \in Pages /\ 4 \in 0 .. 21 - 17
      BY DEF Pages
    <3>2. Drawn(s1, lcd, 17, 4, 4, none, v, c)
      BY <1>3, <3>1, StringDrawn
    <3> HIDE DEF s1
    <3>3. Drawn(s2, s1, 17, 5, 4, sign, v, c)
      BY <1>3, <3>1, StringDrawn
    <3> HIDE DEF s2
    <3>4. Drawn(s3, s2, 17, 6, 4, none, v, c)
      BY <1>3, <3>1, StringDrawn
    <3>5. QED
      BY <3>2, <3>3, <3>4
  <2>3. CASE InRx(c)
    <3>1. \A g \in TextFields : ~In(g, c)
      <4>1. Inside(a, b) /\ a \in 4 .. 6 /\ b \in 17 .. 20
        BY <2>3, InIs DEF InRx
      <4>2. QED
        BY <4>1 DEF Inside, TextFields, Fields
    <3>2. Text(c)' = IF v THEN RxText(c) ELSE Space
      <4>1. TextIs(c)'
        BY <2>1, TextByFieldNext
      <4>2. Text(c)' = Rest(c)'
        BY <3>1, <4>1 DEF TextIs, In, Within, Left, Row, Width, TextFields, Fields
      <4>3. QED
        BY <2>1, <2>3, <4>2 DEF Rest, InRx, RxText
    <3>3. Inverted(c)' = v /\ Lined(c) = FALSE
      BY <2>1, <2>3 DEF Inverted, InRx, Lined
    <3>4. /\ CharAt(none, 17, c) = Space
          /\ a = 5 => CharAt(sign, 17, c) = IF v THEN RxText(c) ELSE Space
      BY <2>3 DEF CharAt, Rep, RxText, InRx
    <3>5. a # 5 => RxText(c) = Space
      BY DEF RxText
    <3> HIDE DEF none, sign, s1, s2, s3
    <3>6. s3[c] = [ch |-> IF v THEN RxText(c) ELSE Space, inv |-> v, line |-> FALSE]
      <4>1. a \in 4 .. 6 /\ b - 17 + 1 \in 1 .. 4
        BY <2>3 DEF InRx
      <4>2. (Within(c, 17, 4, 4) <=> a = 4) /\ (Within(c, 17, 5, 4) <=> a = 5) /\ (Within(c, 17, 6, 4) <=> a = 6)
        BY <4>1 DEF Within
      <4>3. CASE a = 4
        <5>1. s3[c] = s1[c] /\ s1[c] = Letter(none, 17, c, v)
          BY <2>2, <4>2, <4>3 DEF Drawn
        <5>2. (IF v THEN RxText(c) ELSE Space) = Space
          BY <3>5, <4>3
        <5>3. QED
          BY <3>4, <5>1, <5>2 DEF Letter
      <4>4. CASE a = 5
        <5>1. s3[c] = Letter(sign, 17, c, v)
          BY <2>2, <4>2, <4>4 DEF Drawn
        <5>2. QED
          BY <3>4, <4>4, <5>1 DEF Letter
      <4>5. CASE a = 6
        <5>1. s3[c] = Letter(none, 17, c, v)
          BY <2>2, <4>2, <4>5 DEF Drawn
        <5>2. (IF v THEN RxText(c) ELSE Space) = Space
          BY <3>5, <4>5
        <5>3. QED
          BY <3>4, <5>1, <5>2 DEF Letter
      <4>6. QED
        BY <4>1, <4>3, <4>4, <4>5
    <3>7. QED
      BY <1>1, <3>2, <3>3, <3>6 DEF Cell, Lined
  <2>4. CASE ~InRx(c)
    <3> HIDE DEF none, sign, s1, s2, s3
    <3>1. s3[c] = lcd[c]
      <4>1. ~Within(c, 17, 4, 4) /\ ~Within(c, 17, 5, 4) /\ ~Within(c, 17, 6, 4)
        BY <2>4 DEF Within, InRx
      <4>2. QED
        BY <2>2, <4>1 DEF Drawn
    <3>2. lcd[c] = Cell(c)
      BY LayoutIs DEF Cell
    <3>3. Text(c)' = Text(c)
      BY <2>1, <2>4, TextsUnchanged
    <3>4. Inverted(c)' = Inverted(c)
      BY <2>4 DEF Inverted, InRx
    <3>5. QED
      BY <1>1, <3>1, <3>2, <3>3, <3>4 DEF Cell, Lined
  <2>5. QED
    BY <2>3, <2>4
<1>5. QED
  BY <1>2, <1>4, CellsDecide

(* Every GUI_ function draws the layout of the new values.                 *)
LEMMA GivesStep ==
  ASSUME lcd = Layout, NowInv, NEW f \in Calls, NEW v \in Inputs(f), Gives(f, v)
  PROVE  lcd' = Layout' /\ NowInv'
<1>1. NowInv'
  BY ValuesGiven
<1>2. CASE f = "rx"
  <2>1. v \in BOOLEAN
    BY <1>2 DEF Inputs
  <2>2. QED
    BY <1>1, <1>2, <2>1, RxCall
<1>3. CASE f # "rx"
  BY <1>1, <1>3, TextCall
<1>4. QED
  BY <1>2, <1>3

(* Its transfer begins or waits, and then sends every page of the buffer.  *)
LEMMA CallStep ==
  ASSUME ScreenInv, NEW task \in Tasks, NEW f \in Calls, NEW v \in Inputs(f), Call(task, f, v)
  PROVE  lcd' = Layout' /\ NowInv' /\ TransferInv'
<1>1. lcd' = Layout' /\ NowInv'
  BY GivesStep DEF ScreenInv, Call, Gives
<1>2. TransferInv'
  <2>1. oled' = oled /\ busy' # Nobody
    BY DEF Call, SSD1306_UpdateScreen, Tasks, Nobody
  <2>2. row' \in Pages /\ busy' \in Tasks \cup {Nobody} /\ waits' \subseteq Tasks
    BY DEF ScreenInv, TransferInv, Call, SSD1306_UpdateScreen, Pages
  <2>3. waits' = {} => row' = 0
    BY DEF ScreenInv, TransferInv, Call, SSD1306_UpdateScreen
  <2>4. \A c \in Cells : ~(c[1] < 0)
    BY CellIs
  <2>5. oled' = [c \in Cells |-> oled'[c]]
    BY <2>1 DEF ScreenInv, TransferInv
  <2>6. QED
    BY <2>1, <2>2, <2>3, <2>4, <2>5 DEF TransferInv, Cells, Pages, Columns, Tasks, Nobody
<1>3. QED
  BY <1>1, <1>2

(* A step that draws nothing changes no layout.                            *)
LEMMA LayoutKept == UNCHANGED <<lcd, latest, boot>> /\ ScreenInv
                      => lcd' = Layout' /\ NowInv' /\ CallsInv'
<1> SUFFICES ASSUME UNCHANGED <<lcd, latest, boot>>, ScreenInv
             PROVE  lcd' = Layout' /\ NowInv' /\ CallsInv'
  OBVIOUS
<1>1. CallsInv'
  BY DEF ScreenInv, CallsInv, Fields
<1>2. NowInv'
  BY DEF ScreenInv, NowInv, Given, Inputs, Protos, Rep, Fields
<1>3. Layout' = Layout
  <2>1. \A c \in Cells : Text(c)' = Text(c)
    BY DEF Text, CharAt, Title, Rep, Value, Formatted, RxOn, ito2a, ltoa, Figure
  <2>2. RxOn' = RxOn
    BY DEF RxOn
  <2>3. QED
    BY <2>1, <2>2 DEF Layout, Cells, Pages, Columns, Under, Right
<1>4. QED
  BY <1>1, <1>2, <1>3 DEF ScreenInv

(* Every step keeps the invariant.                                         *)
LEMMA ScreenStep == ScreenInv /\ [DisplayNext]_displayVars => ScreenInv'
<1> SUFFICES ASSUME ScreenInv, [DisplayNext]_displayVars PROVE ScreenInv'
  OBVIOUS
<1>1. CASE InitTask
  <2>1. boot \in Seq(Calls) /\ boot # <<>> /\ boot' = Tail(boot)
    BY <1>1 DEF InitTask, ScreenInv, CallsInv, Calls
  <2>2. Head(boot) \in Calls /\ boot' \in Seq(Calls)
    BY <2>1, HeadTailProperties
  <2>3. PICK v \in Inputs(Head(boot)) : Call("init", Head(boot), v)
    BY <1>1 DEF InitTask
  <2>4. lcd' = Layout' /\ NowInv' /\ TransferInv'
    BY <2>2, <2>3, CallStep DEF Tasks
  <2>5. QED
    BY <2>2, <2>4 DEF ScreenInv, CallsInv, Calls, Fields
<1>2. CASE SetStatusProperty \/ Periodic \/ Sniffing_Main
  <2>1. PICK task \in Tasks, f \in Calls : \E v \in Inputs(f) : Call(task, f, v)
    <3>1. CASE SetStatusProperty
      <4>1. PICK f \in {"target", "proto", "channel", "rx"} : \E v \in Inputs(f) : Call("dashboard", f, v)
        BY <3>1 DEF SetStatusProperty
      <4>2. "dashboard" \in Tasks /\ f \in Calls
        BY DEF Tasks, Calls, Fields
      <4>3. QED
        BY <4>1, <4>2
    <3>2. CASE Periodic
      <4>1. "dashboard" \in Tasks /\ "count" \in Calls /\ Inputs("count") = Counts
        BY DEF Tasks, Calls, Fields, Inputs
      <4>2. QED
        BY <3>2, <4>1 DEF Periodic
    <3>3. CASE Sniffing_Main
      <4>1. "sniffing" \in Tasks /\ "rx" \in Calls /\ TRUE \in Inputs("rx")
        BY DEF Tasks, Calls, Fields, Inputs
      <4>2. QED
        BY <3>3, <4>1 DEF Sniffing_Main
    <3>4. QED
      BY <1>2, <3>1, <3>2, <3>3
  <2>2. lcd' = Layout' /\ NowInv' /\ TransferInv'
    BY <2>1, CallStep
  <2>3. boot' = boot
    BY <1>2 DEF SetStatusProperty, Periodic, Sniffing_Main
  <2>4. QED
    BY <2>2, <2>3 DEF ScreenInv, CallsInv, Fields
<1>3. CASE SendPage
  <2>1. lcd' = Layout' /\ NowInv' /\ CallsInv'
    BY <1>3, LayoutKept DEF SendPage
  <2>2. /\ oled' = [c \in Cells |-> IF c[1] = row THEN lcd[c] ELSE oled[c]]
        /\ row' = (row + 1) % 8 /\ lcd' = lcd /\ latest' = latest /\ busy # Nobody
    BY <1>3 DEF SendPage
  <2>3. TransferInv
    BY DEF ScreenInv
  <2>4. oled' = [c \in Cells |-> oled'[c]]
    BY <2>2
  <2>5. waits = {} => \A c \in Cells : c[1] <= row => oled'[c] = lcd[c]
    <3> SUFFICES ASSUME waits = {}, NEW c \in Cells, c[1] <= row PROVE oled'[c] = lcd[c]
      OBVIOUS
    <3>1. c[1] \in 0 .. 7 /\ row \in 0 .. 7
      BY <2>3, CellIs DEF TransferInv, Pages
    <3>2. c[1] < row => oled[c] = lcd[c]
      BY <2>2, <2>3 DEF TransferInv
    <3>3. QED
      BY <2>2, <3>1, <3>2
  <2>6. row \in 0 .. 7 /\ row' \in 0 .. 7
    BY <2>2, <2>3 DEF TransferInv, Pages
  <2>7. busy' \in Tasks \cup {Nobody} /\ waits' \subseteq Tasks
    BY <1>3, <2>3 DEF SendPage, NextTransfer, TransferInv
  <2>8. CASE row = 7
    <3>1. row' = 0 /\ \A c \in Cells : ~(c[1] < 0) /\ c[1] <= 7
      BY <2>2, <2>8, CellIs
    <3>2. busy' = Nobody => waits = {}
      BY <1>3, <2>3, <2>8 DEF SendPage, NextTransfer, TransferInv, Tasks, Nobody
    <3>3. waits = {} => oled' = lcd'
      <4>1. lcd = [c \in Cells |-> lcd[c]]
        BY DEF ScreenInv, Layout
      <4>2. QED
        BY <2>2, <2>4, <2>5, <2>8, <3>1, <4>1
    <3>4. QED
      BY <2>1, <2>4, <2>6, <2>7, <3>1, <3>2, <3>3 DEF ScreenInv, TransferInv, Cells, Pages, Columns, Tasks, Nobody
  <2>9. CASE row # 7
    <3>1. row' = row + 1 /\ busy' = busy /\ waits' = waits
      BY <1>3, <2>6, <2>9 DEF SendPage
    <3>2. waits = {} => \A c \in Cells : c[1] < row' => oled'[c] = lcd'[c]
      <4>1. \A c \in Cells : c[1] < row' => c[1] <= row
        BY <2>6, <3>1, CellIs
      <4>2. QED
        BY <2>2, <2>5, <4>1
    <3>3. QED
      BY <2>1, <2>2, <2>4, <2>6, <2>7, <3>1, <3>2 DEF ScreenInv, TransferInv, Cells, Pages, Columns, Tasks, Nobody
  <2>10. QED
    BY <2>8, <2>9
<1>4. CASE TransferFails
  <2>1. lcd' = Layout' /\ NowInv' /\ CallsInv'
    BY <1>4, LayoutKept DEF TransferFails
  <2>2. row' = 0 /\ oled' = oled /\ ok' = FALSE
    BY <1>4 DEF TransferFails
  <2>3. busy' \in Tasks \cup {Nobody} /\ waits' \subseteq Tasks
    BY <1>4 DEF TransferFails, NextTransfer, ScreenInv, TransferInv
  <2>4. \A c \in Cells : ~(c[1] < 0)
    BY CellIs
  <2>5. oled' = [c \in Cells |-> oled'[c]]
    BY <2>2 DEF ScreenInv, TransferInv
  <2>6. QED
    BY <2>1, <2>2, <2>3, <2>4, <2>5 DEF ScreenInv, TransferInv, Cells, Pages, Columns, Tasks, Nobody
<1>5. CASE UNCHANGED displayVars
  <2>1. lcd' = Layout' /\ NowInv' /\ CallsInv'
    BY <1>5, LayoutKept DEF displayVars
  <2>2. TransferInv'
    BY <1>5 DEF displayVars, ScreenInv, TransferInv, Cells, Pages, Columns, Tasks, Nobody
  <2>3. QED
    BY <2>1, <2>2 DEF ScreenInv
<1>6. QED
  BY <1>1, <1>2, <1>3, <1>4, <1>5 DEF DisplayNext

(* The title fills its page.                                               *)
LEMMA TitleFits == Long(Title, 21)
<1> DEFINE S == {"m", "S", "n", Space}
           begin == <<"m", "S", "n">>
           end == Rep(Space, 18)
<1>1. Title = begin \o end
  BY DEF Title
<1>2. begin \in Seq(S) /\ Len(begin) = 3
  OBVIOUS
<1>3. end \in Seq(S) /\ Len(end) = 18
  BY DEF Rep
<1> HIDE DEF S, begin, end
<1>4. begin \o end \in Seq(S) /\ Len(begin \o end) = Len(begin) + Len(end)
  BY <1>2, <1>3, ConcatProperties
<1>5. Title \in Seq(S) /\ Len(Title) = 21
  BY <1>1, <1>2, <1>3, <1>4
<1>6. QED
  BY <1>5 DEF Long

(* Before any value is given the layout shows the labels only.             *)
LEMMA EmptyText == latest = <<>> => \A c \in Cells : Text(c) = Labels(c)
<1> SUFFICES ASSUME latest = <<>>, NEW cell \in Cells PROVE Text(cell) = Labels(cell)
  OBVIOUS
<1> PICK a \in 0 .. 7, b \in 0 .. 20 : cell = <<a, b>>
  BY DEF Cells, Pages, Columns
<1> DEFINE c == <<a, b>>
<1>1. Rows(a, b)
  BY RowIs
<1>2. /\ Value("proto") = <<>> /\ Value("device") = <<>> /\ Value("target") = <<>>
      /\ Formatted("channel", ito2a) = <<>> /\ Formatted("count", ltoa) = <<>> /\ ~RxOn
  BY DEF Value, Formatted, RxOn
<1>3. \A x : CharAt(<<>>, x, c) = Space
  BY DEF CharAt
<1>4. QED
  BY <1>1, <1>2, <1>3 DEF Rows, Labels

(* GUI_Init draws the layout of no values.                                 *)
LEMMA FirstScreen == latest = <<>> => GUI_Init = Layout
<1> SUFFICES ASSUME latest = <<>> PROVE GUI_Init = Layout
  OBVIOUS
<1> PICK no \in BOOLEAN : no = FALSE
  OBVIOUS
<1> PICK yes \in BOOLEAN : yes = TRUE
  OBVIOUS
<1> DEFINE dd == Rep("d", 10)
           tt == Rep("t", 10)
           rr == Rep("r", 12)
           s1 == SSD1306_DrawString(Empty, 0, 0, Title, yes)
           q2 == SSD1306_DrawString(s1, 0, 1, dd, no)
           s2 == SSD1306_DrawLine(q2, Under(2))
           q3 == SSD1306_DrawString(s2, 0, 3, tt, no)
           s3 == SSD1306_DrawLine(q3, Under(4))
           q4 == SSD1306_DrawString(s3, 0, 5, rr, no)
           s4 == SSD1306_DrawLine(q4, Right)
<1>1. GUI_Init = s4
  BY DEF GUI_Init
<1>2. s4 = [c \in Cells |-> s4[c]] /\ Layout = [c \in Cells |-> Layout[c]]
  BY DEF SSD1306_DrawLine, Layout
<1>3. ASSUME NEW cell \in Cells PROVE s4[cell] = Layout[cell]
  <2> PICK a \in 0 .. 7, b \in 0 .. 20 : cell = <<a, b>>
    BY DEF Cells, Pages, Columns
  <2> DEFINE c == <<a, b>>
  <2>0. c \in Cells
    OBVIOUS
  <2>1. /\ 0 \in 0 .. 20 /\ 0 \in Pages /\ 1 \in Pages /\ 3 \in Pages /\ 5 \in Pages
        /\ 21 \in 0 .. 21 - 0 /\ 10 \in 0 .. 21 - 0 /\ 12 \in 0 .. 21 - 0
    BY DEF Pages
  <2>2. Long(Title, 21) /\ Long(dd, 10) /\ Long(tt, 10) /\ Long(rr, 12)
    BY TitleFits DEF Rep, Long
  <2> HIDE DEF dd, tt, rr
  <2>3. Drawn(s1, Empty, 0, 0, 21, Title, yes, c)
    BY <2>0, <2>1, <2>2, StringDrawn
  <2> HIDE DEF s1
  <2>4. Drawn(q2, s1, 0, 1, 10, dd, no, c)
    BY <2>0, <2>1, <2>2, StringDrawn
  <2>5. s2[c] = IF c \in Under(2) THEN [q2[c] EXCEPT !.line = TRUE] ELSE q2[c]
    BY <2>0 DEF SSD1306_DrawLine
  <2> HIDE DEF q2, s2
  <2>6. Drawn(q3, s2, 0, 3, 10, tt, no, c)
    BY <2>0, <2>1, <2>2, StringDrawn
  <2>7. s3[c] = IF c \in Under(4) THEN [q3[c] EXCEPT !.line = TRUE] ELSE q3[c]
    BY <2>0 DEF SSD1306_DrawLine
  <2> HIDE DEF q3, s3
  <2>8. Drawn(q4, s3, 0, 5, 12, rr, no, c)
    BY <2>0, <2>1, <2>2, StringDrawn
  <2>9. s4[c] = IF c \in Right THEN [q4[c] EXCEPT !.line = TRUE] ELSE q4[c]
    BY <2>0 DEF SSD1306_DrawLine
  <2> HIDE DEF q4, s4
  <2>10. /\ c \in Under(2) <=> a = 2 /\ b <= 15
         /\ c \in Under(4) <=> a = 4 /\ b <= 15
         /\ c \in Right <=> b = 15
    BY DEF Under, Right, Pages
  <2>11. /\ Within(c, 0, 0, 21) <=> a = 0
         /\ Within(c, 0, 1, 10) <=> a = 1 /\ b < 10
         /\ Within(c, 0, 3, 10) <=> a = 3 /\ b < 10
         /\ Within(c, 0, 5, 12) <=> a = 5 /\ b < 12
    BY DEF Within
  <2>12. Empty[c] = [ch |-> Space, inv |-> FALSE, line |-> FALSE]
    BY <2>0 DEF Empty, Blank
  <2>13. Layout[c] = [ch |-> Labels(c), inv |-> Inverted(c), line |-> Lined(c)]
    BY <2>0, EmptyText, LayoutIs
  <2>14. Inverted(c) = (a = 0) /\ Lined(c) = ((a \in {2, 4} /\ b <= 15) \/ b = 15)
    BY DEF Inverted, Lined, RxOn
  <2>15. PICK top \in BOOLEAN : top = (a = 0)
    OBVIOUS
  <2> DEFINE plain == [ch |-> Labels(c), inv |-> top, line |-> FALSE]
             lined == [ch |-> Labels(c), inv |-> top, line |-> TRUE]
  <2>16. Layout[c] = IF b = 15 \/ (a \in {2, 4} /\ b <= 15) THEN lined ELSE plain
    BY <2>13, <2>14, <2>15
  <2>17. [plain EXCEPT !.line = TRUE] = lined /\ [lined EXCEPT !.line = TRUE] = lined
    BY LineSet
  <2>18. /\ a = 0 => Labels(c) = CharAt(Title, 0, c)
         /\ a = 1 /\ b <= 15 => Labels(c) = CharAt(dd, 0, c)
         /\ a = 3 => Labels(c) = CharAt(tt, 0, c)
         /\ a = 5 /\ b <= 15 => Labels(c) = CharAt(rr, 0, c)
         /\ a \in {1, 5} /\ b > 15 => Labels(c) = Space
         /\ a \in {2, 4, 6, 7} => Labels(c) = Space
    BY DEF Labels, dd, tt, rr
  <2>19. /\ b >= 10 => CharAt(dd, 0, c) = Space /\ CharAt(tt, 0, c) = Space
         /\ b >= 12 => CharAt(rr, 0, c) = Space
    <3>1. b >= 10 => ~(c[2] - 0 + 1 \in 1 .. 10)
      OBVIOUS
    <3>2. b >= 12 => ~(c[2] - 0 + 1 \in 1 .. 12)
      OBVIOUS
    <3>3. 0 \in Int /\ 10 \in Nat /\ 10 \in 0 .. 10 /\ 12 \in Nat /\ 12 \in 0 .. 12
      OBVIOUS
    <3>4. b >= 10 => CharAt(dd, 0, c) = Space
      BY <2>0, <2>2, <3>1, <3>3, Outside
    <3>5. b >= 10 => CharAt(tt, 0, c) = Space
      BY <2>0, <2>2, <3>1, <3>3, Outside
    <3>6. b >= 12 => CharAt(rr, 0, c) = Space
      BY <2>0, <2>2, <3>2, <3>3, Outside
    <3>7. QED
      BY <3>4, <3>5, <3>6
  <2>20. /\ a = 0 => Letter(Title, 0, c, yes) = plain
         /\ a = 1 /\ b < 10 => Letter(dd, 0, c, no) = plain
         /\ a = 3 /\ b < 10 => Letter(tt, 0, c, no) = plain
         /\ a = 5 /\ b < 12 => Letter(rr, 0, c, no) = plain
    <3>1. (a = 0 => top = yes) /\ (a # 0 => top = no)
      BY <2>15
    <3>2. QED
      <4>1. a = 0 => Letter(Title, 0, c, yes) = plain
        BY <2>18, <3>1 DEF Letter
      <4>2. ASSUME NEW str, a # 0, Labels(c) = CharAt(str, 0, c) PROVE Letter(str, 0, c, no) = plain
        <5>1. top = no
          BY <3>1, <4>2
        <5>2. Letter(str, 0, c, no) = [ch |-> Labels(c), inv |-> top, line |-> FALSE]
          BY <4>2, <5>1, Zenon DEF Letter
        <5>3. QED
          BY <5>2, Zenon
      <4>3. /\ a = 1 /\ b < 10 => Labels(c) = CharAt(dd, 0, c)
            /\ a = 3 /\ b < 10 => Labels(c) = CharAt(tt, 0, c)
            /\ a = 5 /\ b < 12 => Labels(c) = CharAt(rr, 0, c)
        BY <2>18
      <4>4. a = 1 /\ b < 10 => Letter(dd, 0, c, no) = plain
        <5>1. a = 1 => a # 0
          OBVIOUS
        <5>2. QED
          BY <4>2, <4>3, <5>1, Zenon
      <4>5. a = 3 /\ b < 10 => Letter(tt, 0, c, no) = plain
        <5>1. a = 3 => a # 0
          OBVIOUS
        <5>2. QED
          BY <4>2, <4>3, <5>1, Zenon
      <4>6. a = 5 /\ b < 12 => Letter(rr, 0, c, no) = plain
        <5>1. a = 5 => a # 0
          OBVIOUS
        <5>2. QED
          BY <4>2, <4>3, <5>1, Zenon
      <4>7. QED
        BY <4>1, <4>4, <4>5, <4>6, Zenon
  <2>21. /\ a \in {1, 3} /\ b >= 10 => Empty[c] = plain
         /\ a = 5 /\ b >= 12 => Empty[c] = plain
         /\ a \in {2, 4, 6, 7} => Empty[c] = plain
    <3>1. a # 0 => top = FALSE
      BY <2>15
    <3>2. a # 0 /\ Labels(c) = Space => Empty[c] = plain
      BY <2>12, <3>1
    <3>3. QED
      BY <2>18, <2>19, <3>2
  <2> HIDE DEF plain, lined
  <2>22. ASSUME a \in {0, 6, 7} PROVE q4[c] = IF a \in {2, 4} /\ b <= 15 THEN lined ELSE plain
    <3>1. s1[c] = plain
      BY <2>3, <2>11, <2>20, <2>21, <2>22 DEF Drawn
    <3>2. q4[c] = s1[c]
      BY <2>4, <2>5, <2>6, <2>7, <2>8, <2>10, <2>11, <2>22 DEF Drawn
    <3>3. QED
      BY <2>22, <3>1, <3>2
  <2>23. ASSUME a = 1 PROVE q4[c] = IF a \in {2, 4} /\ b <= 15 THEN lined ELSE plain
    <3>1. q2[c] = plain
      BY <2>3, <2>4, <2>11, <2>20, <2>21, <2>23 DEF Drawn
    <3>2. q4[c] = q2[c]
      BY <2>5, <2>6, <2>7, <2>8, <2>10, <2>11, <2>23 DEF Drawn
    <3>3. QED
      BY <2>23, <3>1, <3>2
  <2>24. ASSUME a = 3 PROVE q4[c] = IF a \in {2, 4} /\ b <= 15 THEN lined ELSE plain
    <3>1. q3[c] = plain
      BY <2>3, <2>4, <2>5, <2>6, <2>10, <2>11, <2>20, <2>21, <2>24 DEF Drawn
    <3>2. q4[c] = q3[c]
      BY <2>7, <2>8, <2>10, <2>11, <2>24 DEF Drawn
    <3>3. QED
      BY <2>24, <3>1, <3>2
  <2>25. ASSUME a = 5 PROVE q4[c] = IF a \in {2, 4} /\ b <= 15 THEN lined ELSE plain
    <3>1. s3[c] = Empty[c]
      BY <2>3, <2>4, <2>5, <2>6, <2>7, <2>10, <2>11, <2>25 DEF Drawn
    <3>2. q4[c] = plain
      BY <2>8, <2>11, <2>20, <2>21, <2>25, <3>1 DEF Drawn
    <3>3. QED
      BY <2>25, <3>2
  <2>26. ASSUME a = 2 PROVE q4[c] = IF a \in {2, 4} /\ b <= 15 THEN lined ELSE plain
    <3>1. q2[c] = plain
      BY <2>3, <2>4, <2>11, <2>21, <2>26 DEF Drawn
    <3>2. s2[c] = IF b <= 15 THEN lined ELSE plain
      BY <2>5, <2>10, <2>17, <2>26, <3>1
    <3>3. q4[c] = s2[c]
      BY <2>6, <2>7, <2>8, <2>10, <2>11, <2>26 DEF Drawn
    <3>4. QED
      BY <2>26, <3>2, <3>3
  <2>27. ASSUME a = 4 PROVE q4[c] = IF a \in {2, 4} /\ b <= 15 THEN lined ELSE plain
    <3>1. q3[c] = plain
      BY <2>3, <2>4, <2>5, <2>6, <2>10, <2>11, <2>21, <2>27 DEF Drawn
    <3>2. s3[c] = IF b <= 15 THEN lined ELSE plain
      BY <2>7, <2>10, <2>17, <2>27, <3>1
    <3>3. q4[c] = s3[c]
      BY <2>8, <2>11, <2>27 DEF Drawn
    <3>4. QED
      BY <2>27, <3>2, <3>3
  <2>28. q4[c] = IF a \in {2, 4} /\ b <= 15 THEN lined ELSE plain
    BY <2>22, <2>23, <2>24, <2>25, <2>26, <2>27
  <2>29. s4[c] = Layout[c]
    BY <2>9, <2>10, <2>16, <2>17, <2>28
  <2>30. QED
    BY <2>29
<1>4. QED
  BY <1>1, <1>2, <1>3

(* The buffer shows the values given last, nothing of older ones, and all  *)
(* separators, whatever the three tasks draw and in which order; and when  *)
(* no transfer runs and the last succeeded, the display shows the buffer,  *)
(* whatever was drawn while earlier ones ran or failed (BufferIsLayout):   *)
(* for every text and number of gui.c.                                     *)
THEOREM BufferShowsLayout == DisplaySpec => []BufferIsLayout
<1>1. DisplayInit => ScreenInv
  <2> SUFFICES ASSUME DisplayInit PROVE ScreenInv
    OBVIOUS
  <2>1. lcd = Layout
    BY FirstScreen DEF DisplayInit
  <2>2. NowInv
    BY DEF DisplayInit, NowInv
  <2>3. CallsInv
    <3>1. Tail(InitCalls) = <<"device", "target", "rx", "proto", "channel">>
      BY DEF InitCalls
    <3>2. InitCalls \in Seq(Calls) /\ Tail(InitCalls) \in Seq(Calls)
      BY <3>1 DEF InitCalls, Calls, Fields
    <3>3. QED
      BY <3>2 DEF DisplayInit, CallsInv, Calls
  <2>4. TransferInv
    BY DEF DisplayInit, TransferInv, Empty, Pages
  <2>5. QED
    BY <2>1, <2>2, <2>3, <2>4 DEF ScreenInv
<1>2. ScreenInv /\ [DisplayNext]_displayVars => ScreenInv'
  BY ScreenStep
<1>3. ScreenInv => BufferIsLayout
  BY DEF ScreenInv, TransferInv, BufferIsLayout
<1>4. QED
  BY <1>1, <1>2, <1>3, PTL DEF DisplaySpec
=============================================================================
