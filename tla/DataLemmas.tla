----------------------------- MODULE DataLemmas -----------------------------
(***************************************************************************)
(* Facts the proofs of several modules need.  Pointers that wrap around:   *)
(* the W5500 counts them in P values and addresses the cells of a buffer   *)
(* of S modulo S, where S divides P.  Induction over numbers and           *)
(* sequences, and what FlattenSeq and the smallest and the largest member  *)
(* of a set are.                                                           *)
(***************************************************************************)
EXTENDS Integers, SequencesExt, SequenceTheorems, FiniteSetsExt, FiniteSetTheorems,
        WellFoundedInduction, TLAPS

(* A remainder is the only number below the modulus that fits.             *)
LEMMA ModUnique ==
  ASSUME NEW x \in Int, NEW m \in Nat, m > 0, NEW k \in Int, NEW y \in 0 .. m - 1,
         x = (k * m) + y
  PROVE  x % m = y
<1> DEFINE d == x \div m
           r == x % m
<1>1. d \in Int /\ r \in 0 .. m - 1 /\ x = (d * m) + r
  OBVIOUS
<1> SUFFICES y = r
  OBVIOUS
<1> HIDE DEF d, r
<1>2. CASE k = d
  BY <1>1, <1>2
<1>3. CASE k >= d + 1
  <2>1. PICK e \in Nat : k = d + 1 + e
    BY <1>1, <1>3
  <2>2. k * m = (d * m) + m + (e * m)
    BY <1>1, <2>1
  <2>3. e * m \in Nat
    BY <2>1
  <2>4. QED
    BY <1>1, <2>2, <2>3
<1>4. CASE k <= d - 1
  <2>1. PICK e \in Nat : d = k + 1 + e
    BY <1>1, <1>4
  <2>2. d * m = (k * m) + m + (e * m)
    BY <1>1, <2>1
  <2>3. e * m \in Nat
    BY <2>1
  <2>4. QED
    BY <1>1, <2>2, <2>3
<1>5. QED
  BY <1>1, <1>2, <1>3, <1>4

(* The buffer divides the range of the pointers.                           *)
LEMMA Multiple ==
  ASSUME NEW P \in Nat, NEW S \in Nat, S > 0, P % S = 0
  PROVE  \E q \in Nat : P = q * S
<1>1. P = ((P \div S) * S) + (P % S) /\ P \div S \in Nat
  OBVIOUS
<1>2. P = (P \div S) * S
  BY <1>1
<1>3. QED
  BY <1>1, <1>2

(* A pointer that wrapped addresses the cell it would have without.        *)
LEMMA WrappedCell ==
  ASSUME NEW P \in Nat, P > 0, NEW S \in Nat, S > 0, NEW q \in Nat, P = q * S,
         NEW x \in Int, NEW s \in Int
  PROVE  ((x % P) + s) % S = (x + s) % S
<1> DEFINE c == x \div P
           y == (x + s) % S
           d == (x + s) \div S
<1>1. c \in Int /\ x = (c * P) + (x % P) /\ x % P \in Int
  OBVIOUS
<1>2. d \in Int /\ y \in 0 .. S - 1 /\ x + s = (d * S) + y
  OBVIOUS
<1> HIDE DEF c, y, d
<1>3. c * P = (c * q) * S
  BY <1>1
<1>4. (x % P) + s = ((d - (c * q)) * S) + y
  BY <1>1, <1>2, <1>3
<1> DEFINE k == d - (c * q)
           z == (x % P) + s
<1>5. k \in Int /\ z \in Int /\ z = (k * S) + y
  BY <1>1, <1>2, <1>4
<1> HIDE DEF k, z
<1>6. z % S = y
  BY <1>2, <1>5, ModUnique
<1>7. QED
  BY <1>6 DEF y, z

(* A pointer moved on twice.                                               *)
Moved(P, x, n) == (x + n) % P
LEMMA MovedTwice ==
  \A P, x, m, n : P \in Nat /\ P > 0 /\ x \in Int /\ m \in Int /\ n \in Int
    => Moved(P, Moved(P, x, m), n) = Moved(P, x, m + n)
<1> SUFFICES ASSUME NEW P \in Nat, P > 0, NEW x \in Int, NEW m \in Int, NEW n \in Int
             PROVE  (((x + m) % P) + n) % P = (x + (m + n)) % P
  BY DEF Moved
<1>1. P = 1 * P
  OBVIOUS
<1> DEFINE y == x + m
<1>2. y \in Int
  OBVIOUS
<1>3. x + (m + n) = y + n
  OBVIOUS
<1> HIDE DEF y
<1>4. ((y % P) + n) % P = (y + n) % P
  BY <1>1, <1>2, WrappedCell
<1>5. QED
  BY <1>3, <1>4 DEF y

(* The difference of two pointers, as the size registers count it.         *)
LEMMA PointerDifference ==
  ASSUME NEW P \in Nat, P > 0, NEW a \in 0 .. P - 1, NEW b \in 0 .. P - 1
  PROVE  /\ (a - b) % P = IF a >= b THEN a - b ELSE a - b + P
         /\ (a - b) % P \in 0 .. P - 1
  OBVIOUS

(* A pointer moved on by less than its range.                              *)
LEMMA PointerMoved ==
  ASSUME NEW P \in Nat, P > 0, NEW a \in 0 .. P - 1, NEW n \in 0 .. P - 1
  PROVE  /\ (a + n) % P = IF a + n < P THEN a + n ELSE a + n - P
         /\ (a + n) % P \in 0 .. P - 1
  OBVIOUS

(* The bytes between a pointer and the same moved on by n are n.           *)
LEMMA DistanceMoved ==
  ASSUME NEW P \in Nat, P > 0, NEW a \in 0 .. P - 1, NEW n \in 0 .. P - 1
  PROVE  (((a + n) % P) - a) % P = n
<1>1. (a + n) % P = a + n \/ (a + n) % P = (a + n) - P
  BY PointerMoved
<1>2. (a + n) % P \in 0 .. P - 1
  BY PointerMoved
<1> DEFINE b == (a + n) % P
<1> HIDE DEF b
<1>3. b \in 0 .. P - 1 /\ (b = a + n \/ b = (a + n) - P)
  BY <1>1, <1>2 DEF b
<1>4. (b - a) % P = n
  BY <1>3, PointerDifference
<1>5. QED
  BY <1>4 DEF b

(* A buffer of S cells with pointers of P values.                          *)
IsRing(P, S) == P \in Nat /\ S \in Nat /\ S > 0 /\ P > S /\ P % S = 0

(* U bytes lie between the pointer rd and the pointer wr.                  *)
Holding(P, S, rd, wr, U) ==
  wr \in 0 .. P - 1 /\ rd \in 0 .. P - 1 /\ U \in 0 .. S /\ U = (wr - rd) % P

(* Of S cells from the pointer rd on, the distance of each from the        *)
(* pointer wr.                                                             *)
CellDistance(S, rd, wr, o) == (((rd + o) % S) - wr) % S
Distance(S, U, o) == IF o >= U THEN o - U ELSE o - U + S
LEMMA DistanceOfCell ==
  \A P, S, rd, wr, U, o : IsRing(P, S) /\ Holding(P, S, rd, wr, U) /\ o \in 0 .. S - 1
    => CellDistance(S, rd, wr, o) = Distance(S, U, o)
<1> SUFFICES ASSUME NEW P, NEW S, NEW rd, NEW wr, NEW U, NEW o,
                    IsRing(P, S), Holding(P, S, rd, wr, U), o \in 0 .. S - 1
             PROVE  CellDistance(S, rd, wr, o) = Distance(S, U, o)
  OBVIOUS
<1> USE DEF IsRing, Holding, Distance, CellDistance
<1>1. PICK q \in Nat : P = q * S
  BY Multiple
<1> DEFINE d == (rd + o) \div S
           i == (rd + o) % S
           y == IF o >= U THEN o - U ELSE o - U + S
<1>2. wr - rd = U \/ wr - rd = U - P
  BY PointerDifference
<1>3. d \in Int /\ i \in 0 .. S - 1 /\ rd + o = (d * S) + i
  OBVIOUS
<1> HIDE DEF d, i
<1>4. y \in 0 .. S - 1
  OBVIOUS
<1>5. PICK b \in Int : wr - rd = U - (b * S)
  <2>1. CASE wr - rd = U
    <3>1. wr - rd = U - (0 * S) /\ 0 \in Int
      BY <2>1
    <3>2. QED
      BY <3>1, Zenon
  <2>2. CASE wr - rd = U - P
    BY <1>1, <2>2
  <2>3. QED
    BY <1>2, <2>1, <2>2
<1>6. i - wr = (o - U) + ((b - d) * S)
  BY <1>3, <1>5
<1>7. PICK k \in Int : i - wr = (k * S) + y
  <2>1. CASE o >= U
    <3>1. i - wr = ((b - d) * S) + y
      BY <1>3, <1>5, <1>6, <2>1
    <3>2. b - d \in Int
      BY <1>3, <1>5
    <3>3. QED
      BY <3>1, <3>2, Zenon
  <2>2. CASE o < U
    <3>1. i - wr = ((b - d - 1) * S) + y
      BY <1>3, <1>5, <1>6, <2>2
    <3>2. b - d - 1 \in Int
      BY <1>3, <1>5
    <3>3. QED
      BY <3>1, <3>2, Zenon
  <2>3. QED
    BY <2>1, <2>2
<1>8. i - wr \in Int
  BY <1>3
<1>9. (i - wr) % S = y
  BY <1>4, <1>7, <1>8, ModUnique
<1>10. QED
  BY <1>9 DEF i

-----------------------------------------------------------------------------
(* The smaller of two numbers.                                             *)
LEMMA MinOfTwo ==
  ASSUME NEW a \in Nat, NEW b \in Nat
  PROVE  Min({a, b}) = IF a <= b THEN a ELSE b
<1> DEFINE m == IF a <= b THEN a ELSE b
<1>1. m \in {a, b} /\ \A y \in {a, b} : m <= y
  OBVIOUS
<1>2. \A x \in {a, b} : (\A y \in {a, b} : x <= y) => x = m
  OBVIOUS
<1> HIDE DEF m
<1>3. Min({a, b}) = m
  BY <1>1, <1>2 DEF Min
<1>4. QED
  BY <1>3 DEF m

(* A part of a sequence as a function.                                     *)
LEMMA PieceIs ==
  ASSUME NEW S, NEW s \in Seq(S), NEW a \in 0 .. Len(s), NEW b \in a .. Len(s)
  PROVE  SubSeq(s, a + 1, b) = [k \in 1 .. b - a |-> s[a + k]]
<1> DEFINE t == SubSeq(s, a + 1, b)
<1>1. Len(s) \in Nat /\ \A i \in a + 1 .. b : s[i] \in S
  OBVIOUS
<1>2. t \in Seq(S) /\ Len(t) = b - a /\ \A k \in 1 .. b - a : t[k] = s[a + k]
  <2>1. a + 1 \in Int /\ b \in Int /\ b - (a + 1) + 1 = b - a
    BY <1>1
  <2>2. /\ t \in Seq(S) /\ Len(t) = IF a + 1 <= b THEN b - (a + 1) + 1 ELSE 0
        /\ \A k \in 1 .. b - (a + 1) + 1 : t[k] = s[(a + 1) + k - 1]
    BY <1>1, <2>1, SubSeqProperties
  <2> HIDE DEF t
  <2>3. Len(t) = b - a
    BY <1>1, <2>1, <2>2
  <2>4. ASSUME NEW k \in 1 .. b - a PROVE t[k] = s[a + k]
    <3>1. k \in 1 .. b - (a + 1) + 1 /\ (a + 1) + k - 1 = a + k
      BY <1>1, <2>1
    <3>2. QED
      BY <2>2, <3>1
  <2>5. QED
    BY <2>2, <2>3, <2>4
<1> HIDE DEF t
<1>3. t = [k \in 1 .. b - a |-> t[k]]
  BY <1>2
<1>4. QED
  BY <1>2, <1>3 DEF t

(* The tail of a sequence as a function.                                   *)
LEMMA TailIs ==
  ASSUME NEW S, NEW s \in Seq(S), s # <<>>
  PROVE  Tail(s) = [k \in 1 .. Len(s) - 1 |-> s[k + 1]]
<1> DEFINE t == Tail(s)
<1>1. t \in Seq(S) /\ Len(t) = Len(s) - 1 /\ \A k \in 1 .. Len(t) : t[k] = s[k + 1]
  BY HeadTailProperties
<1> HIDE DEF t
<1>2. t = [k \in 1 .. Len(t) |-> t[k]]
  BY <1>1
<1>3. QED
  BY <1>1, <1>2 DEF t

-----------------------------------------------------------------------------
(* Induction over a set of numbers.                                        *)
LEMMA Counting ==
  ASSUME NEW S, 0 \in S, \A n \in Nat : n \in S => n + 1 \in S
  PROVE  Nat \subseteq S
<1> SUFFICES ASSUME Nat \ S # {} PROVE FALSE
  OBVIOUS
<1>1. PICK i \in Nat \ S : \A j \in Nat \ S : ~(<<j, i>> \in OpToRel(<, Nat))
  BY NatLessThanWellFounded, WFMin
<1>2. i - 1 \in Nat \ S
  <2>1. i # 0
    BY <1>1
  <2>2. i - 1 \in Nat /\ (i - 1) + 1 = i
    BY <2>1
  <2>3. QED
    BY <2>2
<1>3. <<i - 1, i>> \in OpToRel(<, Nat)
  BY <1>1, <1>2 DEF OpToRel
<1>4. QED
  BY <1>1, <1>2, <1>3

(* What FlattenSeq has flattened behind each member.                       *)
Flat(f, s) == f = [i \in 1 .. Len(s) |-> IF i = 1 THEN s[i] ELSE f[i - 1] \o s[i]]

LEMMA FlatExists ==
  ASSUME NEW s
  PROVE  \A n \in Nat : \E f : f = [i \in 1 .. n |-> IF i = 1 THEN s[i] ELSE f[i - 1] \o s[i]]
<1> DEFINE S == {n \in Nat : \E f : f = [i \in 1 .. n |-> IF i = 1 THEN s[i] ELSE f[i - 1] \o s[i]]}
<1>1. 0 \in S
  <2> DEFINE f == [i \in 1 .. 0 |-> <<>>]
  <2>1. f = [i \in 1 .. 0 |-> IF i = 1 THEN s[i] ELSE f[i - 1] \o s[i]]
    OBVIOUS
  <2>2. QED
    BY <2>1
<1>2. ASSUME NEW n \in Nat, n \in S PROVE n + 1 \in S
  <2>1. PICK f : f = [i \in 1 .. n |-> IF i = 1 THEN s[i] ELSE f[i - 1] \o s[i]]
    BY <1>2
  <2> DEFINE g == [i \in 1 .. n + 1 |-> IF i = 1 THEN s[i] ELSE f[i - 1] \o s[i]]
  <2>a. \A i \in 1 .. n : f[i] = IF i = 1 THEN s[i] ELSE f[i - 1] \o s[i]
    BY <2>1, Zenon
  <2>b. \A i \in 1 .. n + 1 : g[i] = IF i = 1 THEN s[i] ELSE f[i - 1] \o s[i]
    BY Zenon
  <2> HIDE DEF g
  <2>2. \A i \in 1 .. n : g[i] = f[i]
    BY <2>a, <2>b
  <2>3. \A i \in 1 .. n + 1 : g[i] = IF i = 1 THEN s[i] ELSE g[i - 1] \o s[i]
    <3> SUFFICES ASSUME NEW i \in 1 .. n + 1 PROVE g[i] = IF i = 1 THEN s[i] ELSE g[i - 1] \o s[i]
      OBVIOUS
    <3>1. CASE i = 1
      BY <2>b, <3>1
    <3>2. CASE i # 1
      <4>1. i - 1 \in 1 .. n
        BY <3>2
      <4>2. QED
        BY <2>2, <2>b, <3>2, <4>1
    <3>3. QED
      BY <3>1, <3>2
  <2>4. g = [i \in 1 .. n + 1 |-> IF i = 1 THEN s[i] ELSE g[i - 1] \o s[i]]
    <3>1. g = [i \in 1 .. n + 1 |-> g[i]]
      BY Zenon DEF g
    <3>2. QED
      BY <2>3, <3>1, Zenon
  <2>5. n + 1 \in Nat
    OBVIOUS
  <2>6. \E h : h = [i \in 1 .. n + 1 |-> IF i = 1 THEN s[i] ELSE h[i - 1] \o s[i]]
    <3> HIDE DEF g
    <3>1. QED
      BY <2>4, Zenon
  <2>7. QED
    BY <2>5, <2>6, Zenon
<1> HIDE DEF S
<1>3. Nat \subseteq S
  BY <1>1, <1>2, Counting
<1>4. QED
  BY <1>3 DEF S

LEMMA FlattenIs ==
  ASSUME NEW s, Len(s) \in Nat, Len(s) # 0
  PROVE  \E f : Flat(f, s) /\ FlattenSeq(s) = f[Len(s)]
<1>1. \E f : f = [i \in 1 .. Len(s) |-> IF i = 1 THEN s[i] ELSE f[i - 1] \o s[i]]
  BY FlatExists
<1>2. QED
  BY <1>1 DEF FlattenSeq, Flat

LEMMA FlatType ==
  ASSUME NEW T, NEW s \in Seq(Seq(T)), NEW f, Flat(f, s)
  PROVE  \A i \in 1 .. Len(s) : f[i] \in Seq(T)
<1> DEFINE S == {n \in Nat : n \in 1 .. Len(s) => f[n] \in Seq(T)}
<1>a. Len(s) \in Nat /\ \A i \in 1 .. Len(s) : s[i] \in Seq(T)
  OBVIOUS
<1>b. \A i \in 1 .. Len(s) : f[i] = IF i = 1 THEN s[i] ELSE f[i - 1] \o s[i]
  BY Zenon DEF Flat
<1>1. 0 \in S
  OBVIOUS
<1>2. ASSUME NEW n \in Nat, n \in S PROVE n + 1 \in S
  <2>1. SUFFICES ASSUME n + 1 \in 1 .. Len(s) PROVE f[n + 1] \in Seq(T)
    OBVIOUS
  <2>2. f[n + 1] = IF n + 1 = 1 THEN s[n + 1] ELSE f[(n + 1) - 1] \o s[n + 1]
    BY <1>b, <2>1
  <2>3. (n + 1) - 1 = n /\ s[n + 1] \in Seq(T)
    BY <1>a, <2>1
  <2>4. CASE n = 0
    BY <2>2, <2>3, <2>4
  <2>5. CASE n # 0
    <3>1. n \in 1 .. Len(s)
      BY <1>a, <2>1, <2>5
    <3>2. f[n] \in Seq(T)
      BY <1>2, <3>1
    <3>3. f[n + 1] = f[n] \o s[n + 1]
      <4>1. n + 1 # 1
        BY <2>5
      <4>2. f[n + 1] = f[(n + 1) - 1] \o s[n + 1]
        BY <2>2, <4>1, Zenon
      <4>3. QED
        BY <2>3, <4>2, Zenon
    <3>4. QED
      BY <2>3, <3>2, <3>3, ConcatProperties
  <2>6. QED
    BY <2>4, <2>5
<1> HIDE DEF S
<1>3. Nat \subseteq S
  BY <1>1, <1>2, Counting
<1>4. QED
  BY <1>3, <1>a DEF S

(* Two sequences flatten alike as far as they are the same.                *)
LEMMA FlatSame ==
  ASSUME NEW s, NEW t, NEW f, NEW g, Flat(f, s), Flat(g, t), NEW m \in Nat,
         Len(s) \in Nat, Len(t) \in Nat, m <= Len(s), m <= Len(t),
         \A i \in 1 .. m : s[i] = t[i]
  PROVE  \A i \in 1 .. m : f[i] = g[i]
<1> DEFINE S == {n \in Nat : n \in 1 .. m => f[n] = g[n]}
<1>a. \A i \in 1 .. Len(s) : f[i] = IF i = 1 THEN s[i] ELSE f[i - 1] \o s[i]
  BY Zenon DEF Flat
<1>b. \A i \in 1 .. Len(t) : g[i] = IF i = 1 THEN t[i] ELSE g[i - 1] \o t[i]
  BY Zenon DEF Flat
<1>1. 0 \in S
  OBVIOUS
<1>2. ASSUME NEW n \in Nat, n \in S PROVE n + 1 \in S
  <2>1. SUFFICES ASSUME n + 1 \in 1 .. m PROVE f[n + 1] = g[n + 1]
    OBVIOUS
  <2>2. f[n + 1] = IF n + 1 = 1 THEN s[n + 1] ELSE f[(n + 1) - 1] \o s[n + 1]
    BY <1>a, <2>1
  <2>3. g[n + 1] = IF n + 1 = 1 THEN t[n + 1] ELSE g[(n + 1) - 1] \o t[n + 1]
    BY <1>b, <2>1
  <2>4. (n + 1) - 1 = n /\ s[n + 1] = t[n + 1]
    BY <2>1
  <2>5. CASE n = 0
    BY <2>2, <2>3, <2>4, <2>5
  <2>6. CASE n # 0
    <3>1. n \in 1 .. m
      BY <2>1, <2>6
    <3>2. f[n] = g[n]
      BY <1>2, <3>1
    <3>3. QED
      BY <2>2, <2>3, <2>4, <2>6, <3>2
  <2>7. QED
    BY <2>5, <2>6
<1> HIDE DEF S
<1>3. Nat \subseteq S
  BY <1>1, <1>2, Counting
<1>4. QED
  BY <1>3 DEF S

(* The flattened sequence of n members, each of which is a sequence.       *)
LEMMA FlattenFirst ==
  ASSUME NEW g
  PROVE  FlattenSeq([i \in 1 .. 0 |-> g[i]]) = <<>>
<1>1. [i \in 1 .. 0 |-> g[i]] = <<>>
  OBVIOUS
<1>2. QED
  BY <1>1 DEF FlattenSeq

LEMMA FlattenNext ==
  ASSUME NEW T, NEW n \in Nat, NEW g, \A i \in 1 .. n + 1 : g[i] \in Seq(T)
  PROVE  /\ FlattenSeq([i \in 1 .. n |-> g[i]]) \in Seq(T)
         /\ FlattenSeq([i \in 1 .. n + 1 |-> g[i]]) = FlattenSeq([i \in 1 .. n |-> g[i]]) \o g[n + 1]
<1> DEFINE s == [i \in 1 .. n + 1 |-> g[i]]
           t == [i \in 1 .. n |-> g[i]]
<1>1. /\ s \in Seq(Seq(T)) /\ Len(s) = n + 1 /\ s[n + 1] = g[n + 1]
      /\ t \in Seq(Seq(T)) /\ Len(t) = n /\ \A i \in 1 .. n : s[i] = t[i]
  OBVIOUS
<1> HIDE DEF s, t
<1>2. PICK f : Flat(f, s) /\ FlattenSeq(s) = f[n + 1]
  BY <1>1, FlattenIs
<1>3. f[n + 1] = IF n + 1 = 1 THEN s[n + 1] ELSE f[(n + 1) - 1] \o s[n + 1]
  <2>1. \A i \in 1 .. n + 1 : f[i] = IF i = 1 THEN s[i] ELSE f[i - 1] \o s[i]
    BY <1>1, <1>2, Zenon DEF Flat
  <2>2. QED
    BY <2>1
<1>4. g[n + 1] \in Seq(T) /\ (n + 1) - 1 = n
  OBVIOUS
<1>5. CASE n = 0
  <2>1. FlattenSeq(t) = <<>>
    BY <1>5, FlattenFirst DEF t
  <2>2. FlattenSeq(s) = g[n + 1]
    BY <1>1, <1>2, <1>3, <1>5
  <2>3. <<>> \o g[n + 1] = g[n + 1] /\ <<>> \in Seq(T)
    BY <1>4, ConcatEmptySeq
  <2>4. QED
    BY <2>1, <2>2, <2>3 DEF s, t
<1>6. CASE n # 0
  <2>1. PICK h : Flat(h, t) /\ FlattenSeq(t) = h[n]
    BY <1>1, <1>6, FlattenIs
  <2>2. h[n] \in Seq(T)
    BY <1>1, <1>6, <2>1, FlatType
  <2>3. f[n] = h[n]
    <3>1. n \in 1 .. n /\ n <= n + 1 /\ n + 1 \in Nat
      BY <1>6
    <3>2. /\ Flat(f, s) /\ Flat(h, t) /\ Len(s) \in Nat /\ Len(t) \in Nat
          /\ n <= Len(s) /\ n <= Len(t) /\ \A i \in 1 .. n : s[i] = t[i]
      BY <1>1, <1>2, <2>1, <3>1
    <3>3. \A i \in 1 .. n : f[i] = h[i]
      BY ONLY n \in Nat, <3>2, FlatSame
    <3>4. QED
      BY <3>1, <3>3
  <2>4. FlattenSeq(s) = f[n] \o g[n + 1]
    <3>1. n + 1 # 1
      BY <1>6
    <3>2. f[n + 1] = f[(n + 1) - 1] \o s[n + 1]
      BY <1>3, <3>1, Zenon
    <3>3. QED
      BY <1>1, <1>2, <1>4, <3>2, Zenon
  <2>5. QED
    BY <2>1, <2>2, <2>3, <2>4 DEF s, t
<1>7. QED
  BY <1>5, <1>6

(* The least and the greatest of a set of numbers.                         *)
LEMMA MinIs ==
  ASSUME NEW S, S \subseteq Nat, S # {}
  PROVE  Min(S) \in S /\ \A y \in S : Min(S) <= y
<1>1. PICK i \in S : \A j \in S : ~(<<j, i>> \in OpToRel(<, Nat))
  BY NatLessThanWellFounded, WFMin
<1>2. \A j \in S : ~(j < i)
  <2> SUFFICES ASSUME NEW j \in S PROVE ~(j < i)
    OBVIOUS
  <2>1. <<j, i>> \in Nat \X Nat
    OBVIOUS
  <2>2. QED
    BY <1>1, <2>1, Zenon DEF OpToRel
<1>3. \A j \in S : i <= j
  BY <1>2
<1>4. QED
  BY <1>3 DEF Min

LEMMA MaxIs ==
  ASSUME NEW n \in Nat, NEW S, S \subseteq 0 .. n, S # {}
  PROVE  Max(S) \in S /\ \A y \in S : y <= Max(S)
<1> DEFINE T == {n - x : x \in S}
<1>1. T \subseteq Nat /\ T # {}
  <2>1. ASSUME NEW x \in S PROVE n - x \in Nat
    OBVIOUS
  <2>2. T \subseteq Nat
    BY <2>1
  <2>3. PICK x \in S : TRUE
    OBVIOUS
  <2>4. n - x \in T
    OBVIOUS
  <2>5. QED
    BY <2>2, <2>4
<1>2. PICK m \in T : \A y \in T : m <= y
  BY <1>1, MinIs
<1>3. PICK x \in S : m = n - x
  OBVIOUS
<1>4. \A y \in S : x >= y
  <2> SUFFICES ASSUME NEW y \in S PROVE x >= y
    OBVIOUS
  <2>1. n - x <= n - y
    BY <1>2, <1>3
  <2>2. QED
    BY <2>1
<1>5. QED
  <2>1. \E z \in S : \A y \in S : z >= y
    BY <1>4
  <2>2. Max(S) \in S /\ \A y \in S : Max(S) >= y
    BY <2>1, Zenon DEF Max
  <2>3. QED
    BY <2>2

(* Induction over a set of sequences.                                      *)
LEMMA Appending ==
  ASSUME NEW T, NEW S, <<>> \in S,
         \A s \in Seq(T) : \A x \in T : s \in S => Append(s, x) \in S
  PROVE  Seq(T) \subseteq S
<1> DEFINE N == {n \in Nat : \A s \in Seq(T) : Len(s) = n => s \in S}
<1>1. 0 \in N
  <2>1. \A s \in Seq(T) : Len(s) = 0 => s = <<>>
    BY EmptySeq
  <2>2. QED
    BY <2>1
<1>2. ASSUME NEW n \in Nat, n \in N PROVE n + 1 \in N
  <2>1. SUFFICES ASSUME NEW s \in Seq(T), Len(s) = n + 1 PROVE s \in S
    OBVIOUS
  <2>2. s # <<>>
    BY <2>1, EmptySeq
  <2>3. PICK r \in Seq(T), x \in T : s = Append(r, x)
    BY <2>2, SequenceEmptyOrAppend
  <2>4. Len(r) = n
    <3>1. Len(s) = Len(r) + 1 /\ Len(r) \in Nat
      BY <2>3, AppendProperties
    <3>2. QED
      BY <2>1, <3>1
  <2>5. r \in S
    BY <1>2, <2>4
  <2>6. QED
    BY <2>3, <2>5
<1> HIDE DEF N
<1>3. Nat \subseteq N
  BY <1>1, <1>2, Counting
<1>4. QED
  BY <1>3 DEF N

(* Appending a character behind a concatenation.                           *)
LEMMA ConcatAppend ==
  ASSUME NEW T, NEW s \in Seq(T), NEW r \in Seq(T), NEW x \in T
  PROVE  s \o Append(r, x) = Append(s \o r, x)
<1>1. /\ Append(r, x) = r \o <<x>> /\ Append(s \o r, x) = (s \o r) \o <<x>>
      /\ <<x>> \in Seq(T)
  BY ConcatProperties, AppendIsConcat
<1>2. QED
  BY <1>1, ConcatAssociative

(* Three sequences one behind the other.                                   *)
LEMMA Regroup ==
  \A s \in Seq(Nat) : \A t \in Seq(Nat) : \A u \in Seq(Nat) : (s \o t) \o u = s \o (t \o u)
<1>1. ASSUME NEW s \in Seq(Nat), NEW t \in Seq(Nat), NEW u \in Seq(Nat)
      PROVE  (s \o t) \o u = s \o (t \o u)
  BY ConcatAssociative, SMTT(90)
<1>2. QED
  BY <1>1, Zenon

-----------------------------------------------------------------------------
(* A name of DNS: each label behind its length, and the first m of them.   *)
LabelBytes(host) == [i \in DOMAIN host |-> <<Len(host[i])>> \o host[i]]
FirstBytes(host, m) == FlattenSeq([i \in 1 .. m |-> LabelBytes(host)[i]])

IsName(host) == host \in Seq(Seq(Nat)) /\ \A i \in DOMAIN host : Len(host[i]) \in 1 .. 255

LEMMA OneLabel ==
  ASSUME NEW host, IsName(host), NEW i \in 1 .. Len(host)
  PROVE  /\ LabelBytes(host)[i] \in Seq(Nat)
         /\ Len(LabelBytes(host)[i]) = 1 + Len(host[i])
         /\ LabelBytes(host)[i][1] = Len(host[i]) /\ Len(host[i]) \in 1 .. 255
<1>1. host[i] \in Seq(Nat) /\ Len(host[i]) \in 1 .. 255 /\ i \in DOMAIN host
  <2>1. host \in Seq(Seq(Nat)) /\ \A k \in DOMAIN host : Len(host[k]) \in 1 .. 255
    BY DEF IsName
  <2>2. i \in DOMAIN host /\ host[i] \in Seq(Nat)
    BY <2>1, ElementOfSeq
  <2>3. QED
    BY <2>1, <2>2, Zenon
<1> DEFINE t == host[i]
           h == <<Len(t)>>
<1>2. LabelBytes(host)[i] = h \o t
  BY <1>1 DEF LabelBytes
<1>3. t \in Seq(Nat) /\ h \in Seq(Nat) /\ Len(h) = 1 /\ h[1] = Len(t)
  BY <1>1
<1> HIDE DEF t, h
<1>4. h \o t \in Seq(Nat) /\ Len(h \o t) = 1 + Len(t) /\ (h \o t)[1] = Len(t)
  <2>1. Len(t) \in Nat /\ 1 \in 1 .. 1 + Len(t)
    BY <1>3
  <2>2. h \o t \in Seq(Nat) /\ Len(h \o t) = Len(h) + Len(t)
    BY <1>3, ConcatProperties
  <2>3. (h \o t)[1] = h[1]
    BY <1>3, <2>1, <2>2
  <2>4. QED
    BY <1>3, <2>2, <2>3
<1>5. QED
  BY <1>1, <1>2, <1>4 DEF t

LEMMA NoBytes ==
  ASSUME NEW host
  PROVE  FirstBytes(host, 0) = <<>>
BY FlattenFirst, Zenon DEF FirstBytes

LEMMA MoreBytes ==
  ASSUME NEW host, IsName(host), NEW m \in Nat, m + 1 <= Len(host)
  PROVE  /\ FirstBytes(host, m) \in Seq(Nat)
         /\ FirstBytes(host, m + 1) = FirstBytes(host, m) \o LabelBytes(host)[m + 1]
<1> DEFINE g == LabelBytes(host)
<1>1. \A i \in 1 .. m + 1 : g[i] \in Seq(Nat)
  <2> SUFFICES ASSUME NEW i \in 1 .. m + 1 PROVE g[i] \in Seq(Nat)
    OBVIOUS
  <2>1. i \in 1 .. Len(host)
    BY DEF IsName
  <2>2. QED
    BY <2>1, OneLabel
<1> HIDE DEF g
<1>2. /\ FlattenSeq([i \in 1 .. m |-> g[i]]) \in Seq(Nat)
      /\ FlattenSeq([i \in 1 .. m + 1 |-> g[i]]) = FlattenSeq([i \in 1 .. m |-> g[i]]) \o g[m + 1]
  BY <1>1, FlattenNext
<1>3. QED
  BY <1>2, Zenon DEF g, FirstBytes

(* Sequences are equal when their elements are.                            *)
LEMMA SameText ==
  ASSUME NEW T, NEW s \in Seq(T), NEW t \in Seq(T), Len(s) = Len(t),
         \A i \in 1 .. Len(s) : s[i] = t[i]
  PROVE  s = t
<1>1. Len(s) \in Nat /\ s = [i \in 1 .. Len(s) |-> s[i]] /\ t = [i \in 1 .. Len(t) |-> t[i]]
  OBVIOUS
<1>2. QED
  BY <1>1

(* A piece of a text, and two pieces that meet.                            *)
LEMMA Piece ==
  ASSUME NEW T, NEW s \in Seq(T), NEW a \in Nat, NEW b \in Nat, a <= b, b <= Len(s)
  PROVE  /\ SubSeq(s, a + 1, b) \in Seq(T) /\ Len(SubSeq(s, a + 1, b)) = b - a
         /\ \A i \in 1 .. b - a : SubSeq(s, a + 1, b)[i] = s[a + i]
<1>1. a \in 0 .. Len(s) /\ b \in a .. Len(s)
  OBVIOUS
<1>2. SubSeq(s, a + 1, b) = [k \in 1 .. b - a |-> s[a + k]]
  BY <1>1, PieceIs
<1>3. \A k \in 1 .. b - a : s[a + k] \in T
  OBVIOUS
<1>4. b - a \in Nat
  OBVIOUS
<1>5. [k \in 1 .. b - a |-> s[a + k]] \in Seq(T)
  BY <1>3, <1>4
<1>6. QED
  BY <1>2, <1>4, <1>5

LEMMA Meet ==
  ASSUME NEW T, NEW s \in Seq(T), NEW a \in Nat, NEW b \in Nat, NEW c \in Nat,
         a <= b, b <= c, c <= Len(s)
  PROVE  SubSeq(s, a + 1, b) \o SubSeq(s, b + 1, c) = SubSeq(s, a + 1, c)
<1>1. a + 1 \in 1 .. Len(s) + 1 /\ b \in (a + 1) - 1 .. Len(s) /\ c \in b .. Len(s)
  OBVIOUS
<1>2. QED
  BY <1>1, ConcatAdjacentSubSeq
=============================================================================
