---------------------------- MODULE CacheProofs ----------------------------
(***************************************************************************)
(* The associative cache, for every number of ways, lines and words: its   *)
(* invariants, and that with the memory below it is a flat memory.         *)
(***************************************************************************)
EXTENDS AssociativeCache, SequenceLemmas, TLAPS

-----------------------------------------------------------------------------
(* Addresses: a tag, a row and a column name one word, and each word has them. *)

LEMMA Division ==
    ASSUME NEW a \in Nat, NEW b \in Nat, b > 0
    PROVE  /\ a \div b \in Nat /\ a % b \in Nat /\ a % b < b
           /\ a = b * (a \div b) + (a % b)
<1>1. a % b = a - b * (a \div b)  BY SMTT(60)
<1>2. a \div b \in Nat            OBVIOUS
<1>3. a % b \in 0..(b - 1)        OBVIOUS
<1> DEFINE q == a \div b
           r == a % b
<1> HIDE DEF q, r
<1>4. r = a - b * q /\ q \in Nat /\ r \in 0..(b - 1)  BY <1>1, <1>2, <1>3 DEF q, r
<1>5. b * q \in Nat  BY <1>4
<1>6. q \in Nat /\ r \in Nat /\ r < b /\ a = b * q + r  BY <1>4, <1>5
<1> QED BY <1>6 DEF q, r

LEMMA Recombined ==
    ASSUME NEW b \in Nat, b > 0, NEW q \in Nat, NEW r \in Nat, r < b
    PROVE  (b * q + r) \div b = q /\ (b * q + r) % b = r
<1>1. (b * q + r) \div b = q  OBVIOUS
<1>2. (b * q + r) % b = r     OBVIOUS
<1> QED BY <1>1, <1>2

LEMMA QuotientBelow ==
    ASSUME NEW a \in Nat, NEW b \in Nat, b > 0, NEW n \in Nat, a < b * n
    PROVE  a \div b < n
<1> DEFINE q == a \div b
<1>1. q \in Nat /\ b * q <= a
  <2>1. q \in Nat /\ a % b \in Nat /\ a = b * q + (a % b)  BY Division
  <2>2. b * q \in Nat  BY <2>1
  <2> HIDE DEF q
  <2> QED BY <2>1, <2>2
<1> HIDE DEF q
<1>2. b * q < b * n  BY <1>1
<1>3. q < n  BY <1>1, <1>2
<1> QED BY <1>3 DEF q

LEMMA CellBelow ==
    ASSUME NEW b \in Nat, NEW n \in Nat, NEW q \in Nat, q < n, NEW r \in Nat, r < b
    PROVE  b * q + r < b * n
<1>1. b * (q + 1) <= b * n  OBVIOUS
<1>2. b * (q + 1) = b * q + b  OBVIOUS
<1> QED BY <1>1, <1>2

LEMMA Sizes ==
    /\ NumLines \in Nat /\ NumLines > 0 /\ LineSize \in Nat /\ LineSize > 0
    /\ WordSize \in Nat /\ WordSize > 0 /\ NumWays \in Nat /\ NumWays > 0
    /\ NumTags \in Nat /\ BelowLatency \in Nat /\ BelowLatency > 0
    /\ RowBytes \in Nat /\ RowBytes > 0 /\ RowBytes = WordSize * LineSize
    /\ NumLines * RowBytes \in Nat /\ NumLines * RowBytes > 0
<1>1. /\ NumLines \in Nat /\ NumLines > 0 /\ LineSize \in Nat /\ LineSize > 0
      /\ WordSize \in Nat /\ WordSize > 0 /\ NumWays \in Nat /\ NumWays > 0
      /\ NumTags \in Nat /\ BelowLatency \in Nat /\ BelowLatency > 0
  BY CacheAssumption
<1>2. ASSUME NEW m \in Nat, m > 0, NEW n \in Nat, n > 0
      PROVE  m * n \in Nat /\ m * n > 0 /\ m * n = n * m
  BY <1>2
<1>3. RowBytes \in Nat /\ RowBytes > 0 /\ RowBytes = WordSize * LineSize
  BY <1>1, <1>2 DEF RowBytes
<1> QED BY <1>1, <1>2, <1>3

LEMMA AddressIs ==
    ASSUME NEW a \in Address
    PROVE  /\ a \in Nat /\ a < (NumLines * RowBytes) * NumTags
           /\ \E k \in Nat : a = WordSize * k
<1> USE Sizes
<1>1. PICK k \in 0..(NumTags * NumLines * LineSize - 1) : a = WordSize * k
  BY DEF Address
<1> DEFINE S == NumLines * RowBytes
           K == NumTags * NumLines * LineSize
<1>2. WordSize * K = S * NumTags
  <2>1. S * NumTags = (NumLines * (WordSize * LineSize)) * NumTags  BY DEF RowBytes
  <2>2. ASSUME NEW n \in Nat, NEW w \in Nat, NEW l \in Nat, NEW t \in Nat
        PROVE  w * (t * n * l) = (n * (w * l)) * t
    OBVIOUS
  <2> QED BY <2>1, <2>2
<1>3. K \in Nat
  <2>1. NumTags * NumLines \in Nat  OBVIOUS
  <2> QED BY <2>1
<1> HIDE DEF K, S
<1>4. k \in Nat /\ k < K  BY <1>3 DEF K
<1>5. WordSize * k < WordSize * K  BY <1>3, <1>4
<1>6. WordSize * k \in Nat  BY <1>4
<1> QED BY <1>1, <1>2, <1>4, <1>5, <1>6 DEF S

LEMMA AddressParts ==
    ASSUME NEW a \in Address
    PROVE  /\ Tag(a) \in 0..(NumTags - 1) /\ Row(a) \in Rows /\ Col(a) \in Cols
           /\ WordAt(Tag(a), Row(a), Col(a)) = a
<1> USE Sizes
<1> DEFINE S == NumLines * RowBytes
           x == a % S
           y == a % RowBytes
<1>1. a \in Nat /\ a < S * NumTags  BY AddressIs
<1>2. PICK k \in Nat : a = WordSize * k  BY AddressIs
<1>3. /\ Tag(a) \in Nat /\ x \in Nat /\ x < S /\ a = S * Tag(a) + x
      /\ Tag(a) < NumTags
  BY <1>1, Division, QuotientBelow DEF Tag
<1>4. /\ Row(a) \in Nat /\ x % RowBytes \in Nat /\ x % RowBytes < RowBytes
      /\ x = RowBytes * Row(a) + (x % RowBytes) /\ Row(a) < NumLines
  <2>1. x < RowBytes * NumLines  BY <1>3
  <2> HIDE DEF x
  <2>2. /\ x \div RowBytes \in Nat /\ x % RowBytes \in Nat /\ x % RowBytes < RowBytes
        /\ x = RowBytes * (x \div RowBytes) + (x % RowBytes)
        /\ x \div RowBytes < NumLines
    BY <1>3, <2>1, Division, QuotientBelow
  <2> QED BY <2>2 DEF Row, x
<1> DEFINE q == NumLines * Tag(a) + Row(a)
<1>5. q \in Nat /\ a = RowBytes * q + (x % RowBytes)
  <2>1. NumLines * Tag(a) \in Nat  BY <1>3
  <2>2. S * Tag(a) = RowBytes * (NumLines * Tag(a))  BY <1>3
  <2>3. RowBytes * q = RowBytes * (NumLines * Tag(a)) + RowBytes * Row(a)
    BY <1>4, <2>1
  <2>4. RowBytes * (NumLines * Tag(a)) \in Nat /\ RowBytes * Row(a) \in Nat
    BY <1>4, <2>1
  <2> HIDE DEF x, S
  <2>5. PICK b \in Nat, r \in Nat, z \in Nat :
          /\ b = RowBytes * (NumLines * Tag(a)) /\ r = RowBytes * Row(a)
          /\ z = x % RowBytes
    BY <1>4, <2>4
  <2>6. a = S * Tag(a) + x /\ x = r + z /\ S * Tag(a) = b  BY <1>3, <1>4, <2>2, <2>5
  <2>7. RowBytes * q = b + r  BY <2>3, <2>5
  <2>8. q \in Nat  BY <1>4, <2>1
  <2>9. a = b + r + z  BY <2>6
  <2> HIDE DEF q
  <2>10. a = RowBytes * q + z  BY <2>7, <2>9
  <2> QED BY <2>5, <2>8, <2>10
<1> HIDE DEF x, q
<1>6. y = x % RowBytes
  <2> DEFINE z == x % RowBytes
  <2>1. q \in Nat /\ z \in Nat /\ z < RowBytes /\ a = RowBytes * q + z  BY <1>4, <1>5
  <2> HIDE DEF z
  <2>2. (RowBytes * q + z) % RowBytes = z  BY <2>1, Recombined
  <2>3. a % RowBytes = z  BY <2>1, <2>2
  <2> QED BY <2>3 DEF z
<1> HIDE DEF y
<1>7. /\ y \div WordSize \in Nat /\ y % WordSize \in Nat /\ y % WordSize < WordSize
      /\ y = WordSize * (y \div WordSize) + (y % WordSize)
      /\ y \div WordSize < LineSize
  <2>1. y \in Nat /\ y < WordSize * LineSize /\ LineSize \in Nat  BY <1>4, <1>6
  <2>2. y \div WordSize < LineSize  BY <2>1, QuotientBelow
  <2> QED BY <2>1, <2>2, Division
<1>8. Col(a) = y \div WordSize  BY DEF Col, y
<1> DEFINE p == LineSize * q + Col(a)
           e == y % WordSize
<1>9. p \in Nat /\ a = WordSize * p + e
  <2>1. LineSize * q \in Nat  BY <1>5
  <2>2. RowBytes * q = WordSize * (LineSize * q)  BY <1>5
  <2>3. WordSize * p = WordSize * (LineSize * q) + WordSize * Col(a)
    BY <1>7, <1>8, <2>1
  <2>4. WordSize * (LineSize * q) \in Nat /\ WordSize * Col(a) \in Nat
    BY <1>7, <1>8, <2>1
  <2> HIDE DEF p, e
  <2>5. y = WordSize * Col(a) + e  BY <1>7, <1>8 DEF e
  <2>6. p \in Nat  BY <1>7, <1>8, <2>1 DEF p
  <2>7. e \in Nat  BY <1>7 DEF e
  <2>8. a = RowBytes * q + y  BY <1>5, <1>6
  <2> DEFINE A == RowBytes * q
             B == WordSize * (LineSize * q)
             C == WordSize * Col(a)
             D == WordSize * p
  <2>9. A = B /\ D = B + C /\ B \in Nat /\ C \in Nat /\ y = C + e /\ a = A + y
    BY <2>2, <2>3, <2>4, <2>5, <2>8
  <2> HIDE DEF A, B, C, D
  <2>10. a = D + e  BY <2>7, <2>9
  <2> QED BY <2>6, <2>10 DEF D
<1> HIDE DEF p
<1>10. e = 0
  <2>1. a % WordSize = e  BY <1>7, <1>9, Recombined
  <2>2. (WordSize * k + 0) % WordSize = 0  BY Recombined
  <2>3. WordSize * k \in Nat  OBVIOUS
  <2> QED BY <1>2, <2>1, <2>2, <2>3
<1>11. WordAt(Tag(a), Row(a), Col(a)) = a
  <2>1. Tag(a) * NumLines * RowBytes = S * Tag(a)  BY <1>3
  <2>2. Row(a) * RowBytes = RowBytes * Row(a) /\ Col(a) * WordSize = WordSize * Col(a)
    BY <1>4, <1>7, <1>8
  <2>3. WordAt(Tag(a), Row(a), Col(a)) = S * Tag(a) + RowBytes * Row(a) + WordSize * Col(a)
    BY <2>1, <2>2 DEF WordAt
  <2>4. S * Tag(a) \in Nat /\ RowBytes * Row(a) \in Nat /\ WordSize * Col(a) \in Nat
    BY <1>3, <1>4, <1>7, <1>8
  <2>5. y = WordSize * Col(a)  BY <1>7, <1>8, <1>10, <2>4
  <2> HIDE DEF S
  <2> QED BY <1>3, <1>4, <1>6, <2>3, <2>4, <2>5
<1> QED BY <1>3, <1>4, <1>7, <1>8, <1>11 DEF Rows, Cols

LEMMA WordParts ==
    ASSUME NEW tag \in 0..(NumTags - 1), NEW row \in Rows, NEW col \in Cols
    PROVE  /\ WordAt(tag, row, col) \in Address
           /\ Tag(WordAt(tag, row, col)) = tag
           /\ Row(WordAt(tag, row, col)) = row
           /\ Col(WordAt(tag, row, col)) = col
<1> USE Sizes
<1> DEFINE S == NumLines * RowBytes
           d == WordSize * col
           x == RowBytes * row + d
           a == S * tag + x
<1>1. tag \in Nat /\ tag < NumTags /\ row \in Nat /\ row < NumLines
      /\ col \in Nat /\ col < LineSize
  BY DEF Rows, Cols
<1>2. d \in Nat /\ d < RowBytes
  <2>1. d \in Nat  BY <1>1
  <2>2. WordSize * col + 0 < WordSize * LineSize  BY <1>1, CellBelow
  <2> QED BY <2>1, <2>2
<1> HIDE DEF d
<1>3. x \in Nat /\ x < S
  <2>1. RowBytes * row \in Nat  BY <1>1
  <2>2. x < RowBytes * NumLines  BY <1>1, <1>2, CellBelow
  <2> QED BY <1>2, <2>1, <2>2
<1>4. WordAt(tag, row, col) = a
  <2>1. tag * NumLines * RowBytes = S * tag  BY <1>1
  <2>2. row * RowBytes = RowBytes * row /\ col * WordSize = d  BY <1>1 DEF d
  <2>3. S * tag \in Nat /\ RowBytes * row \in Nat  BY <1>1
  <2> QED BY <1>2, <2>1, <2>2, <2>3 DEF WordAt
<1>5. a \div S = tag /\ a % S = x
  <2> HIDE DEF x, S
  <2> QED BY <1>1, <1>3, Recombined DEF S
<1>6. x \div RowBytes = row  BY <1>1, <1>2, Recombined
<1> DEFINE q == NumLines * tag + row
<1>7. q \in Nat /\ a = RowBytes * q + d
  <2>1. NumLines * tag \in Nat  BY <1>1
  <2>2. S * tag = RowBytes * (NumLines * tag)  BY <1>1
  <2>3. RowBytes * q = RowBytes * (NumLines * tag) + RowBytes * row  BY <1>1, <2>1
  <2>4. RowBytes * (NumLines * tag) \in Nat /\ RowBytes * row \in Nat  BY <1>1, <2>1
  <2> HIDE DEF S
  <2> QED BY <1>1, <1>2, <2>1, <2>2, <2>3, <2>4
<1>8. a % RowBytes = d
  <2> HIDE DEF q, a
  <2> QED BY <1>2, <1>7, Recombined
<1>9. d \div WordSize = col
  <2>1. (WordSize * col + 0) \div WordSize = col  BY <1>1, Recombined
  <2>2. WordSize * col \in Nat  BY <1>1
  <2> QED BY <2>1, <2>2 DEF d
<1>10. a \in Address
  <2> DEFINE m == LineSize * q + col
             K == NumTags * NumLines * LineSize
  <2>1. m \in Nat /\ a = WordSize * m
    <3>1. LineSize * q \in Nat  BY <1>7
    <3>2. RowBytes * q = WordSize * (LineSize * q)  BY <1>7
    <3>3. WordSize * m = WordSize * (LineSize * q) + WordSize * col  BY <1>1, <3>1
    <3>4. WordSize * (LineSize * q) \in Nat  BY <3>1
    <3> HIDE DEF q, a
    <3> QED BY <1>1, <1>7, <3>1, <3>2, <3>3, <3>4 DEF d
  <2>2. q < NumLines * NumTags  BY <1>1, CellBelow
  <2>3. m < LineSize * (NumLines * NumTags)
    <3>1. NumLines * NumTags \in Nat  OBVIOUS
    <3> HIDE DEF q
    <3> QED BY <1>1, <1>7, <2>2, <3>1, CellBelow
  <2>4. K \in Nat /\ LineSize * (NumLines * NumTags) = K
    <3>1. NumTags * NumLines \in Nat /\ NumLines * NumTags = NumTags * NumLines  OBVIOUS
    <3>2. ASSUME NEW n \in Nat PROVE LineSize * n = n * LineSize /\ n * LineSize \in Nat
      OBVIOUS
    <3> QED BY <3>1, <3>2
  <2> HIDE DEF m, K, a
  <2>5. m \in 0..(K - 1)  BY <2>1, <2>3, <2>4
  <2> QED BY <2>1, <2>5 DEF Address, K
<1>11. Tag(a) = tag /\ Row(a) = row /\ Col(a) = col
  BY <1>5, <1>6, <1>8, <1>9 DEF Tag, Row, Col
<1> QED BY <1>4, <1>10, <1>11

-----------------------------------------------------------------------------
(* The replacement order names each of the first ways once. *)

Permutes(s, n) ==
    /\ \A k \in 1..n : s[k] \in 0..(n - 1)
    /\ \A j, k \in 1..n : s[j] = s[k] => j = k
    /\ \A w \in 0..(n - 1) : \E k \in 1..n : s[k] = w

Ordered(s) ==
    /\ s \in Seq(Ways)
    /\ Len(s) <= NumWays
    /\ Permutes(s, Len(s))

LEMMA MovedLast ==
    ASSUME NEW n \in Nat, NEW s, NEW t, Permutes(s, n), NEW k \in 1..n,
           \A j \in 1..n : j < k => t[j] = s[j],
           \A j \in 1..(n - 1) : ~(j < k) => t[j] = s[j + 1],
           t[n] = s[k]
    PROVE  Permutes(t, n)
<1> DEFINE g == [j \in 1..n |-> IF j < k THEN j ELSE IF j = n THEN k ELSE j + 1]
<1>1. \A j \in 1..n : g[j] \in 1..n /\ t[j] = s[g[j]]
  <2> TAKE j \in 1..n
  <2>1. CASE j < k  BY <2>1
  <2>2. CASE ~(j < k) /\ j = n  BY <2>2
  <2>3. CASE ~(j < k) /\ j # n
    <3>1. j \in 1..(n - 1) /\ j + 1 \in 1..n  BY <2>3
    <3> QED BY <2>3, <3>1
  <2> QED BY <2>1, <2>2, <2>3
<1>2. \A i, j \in 1..n : g[i] = g[j] => i = j  OBVIOUS
<1>3. \A i \in 1..n : \E j \in 1..n : g[j] = i
  <2> TAKE i \in 1..n
  <2>1. CASE i < k  BY <2>1
  <2>2. CASE i = k  BY <2>2
  <2>3. CASE i > k
    <3>1. i - 1 \in 1..n /\ ~(i - 1 < k) /\ i - 1 # n /\ i - 1 + 1 = i  BY <2>3
    <3>2. g[i - 1] = i  BY <3>1
    <3> HIDE DEF g
    <3> QED BY <3>1, <3>2
  <2> QED BY <2>1, <2>2, <2>3
<1> HIDE DEF g
<1>4. \A j \in 1..n : t[j] \in 0..(n - 1)
  <2> TAKE j \in 1..n
  <2>1. PICK i \in 1..n : i = g[j]  BY <1>1
  <2>2. t[j] = s[i] /\ s[i] \in 0..(n - 1)  BY <1>1, <2>1 DEF Permutes
  <2> QED BY <2>2
<1>5. \A i, j \in 1..n : t[i] = t[j] => i = j  BY <1>1, <1>2 DEF Permutes
<1>6. \A w \in 0..(n - 1) : \E j \in 1..n : t[j] = w
  <2> TAKE w \in 0..(n - 1)
  <2>1. PICK i \in 1..n : s[i] = w  BY DEF Permutes
  <2>2. PICK j \in 1..n : g[j] = i  BY <1>3
  <2> QED BY <1>1, <2>1, <2>2
<1> QED BY <1>4, <1>5, <1>6 DEF Permutes

LEMMA AddedLast ==
    ASSUME NEW n \in Nat, NEW s, NEW t, Permutes(s, n),
           \A j \in 1..n : t[j] = s[j], t[n + 1] = n
    PROVE  Permutes(t, n + 1)
<1>1. \A j \in 1..(n + 1) : j \in 1..n \/ j = n + 1  OBVIOUS
<1>2. \A j \in 1..n : t[j] \in 0..(n - 1)  BY DEF Permutes
<1>3. \A j \in 1..(n + 1) : t[j] \in 0..n  BY <1>1, <1>2
<1>4. \A i, j \in 1..(n + 1) : t[i] = t[j] => i = j
  <2> TAKE i, j \in 1..(n + 1)
  <2>1. CASE i \in 1..n /\ j \in 1..n  BY <2>1 DEF Permutes
  <2>2. CASE i = n + 1 /\ j \in 1..n
    <3>1. t[j] # n  BY <1>2, <2>2
    <3> QED BY <2>2, <3>1
  <2>3. CASE j = n + 1 /\ i \in 1..n
    <3>1. t[i] # n  BY <1>2, <2>3
    <3> QED BY <2>3, <3>1
  <2> QED BY <1>1, <2>1, <2>2, <2>3
<1>5. \A w \in 0..n : \E j \in 1..(n + 1) : t[j] = w
  <2> TAKE w \in 0..n
  <2>1. CASE w = n  BY <2>1
  <2>2. CASE w # n
    <3>1. w \in 0..(n - 1)  BY <2>2
    <3>2. PICK k \in 1..n : s[k] = w  BY <3>1 DEF Permutes
    <3>3. k \in 1..(n + 1)  OBVIOUS
    <3> QED BY <3>2, <3>3
  <2> QED BY <2>1, <2>2
<1>6. n + 1 - 1 = n  OBVIOUS
<1> QED BY <1>3, <1>4, <1>5, <1>6 DEF Permutes

LEMMA OrderedFacts ==
    ASSUME NEW s, Ordered(s)
    PROVE  /\ Len(s) \in Nat /\ Len(s) <= NumWays /\ DOMAIN s = 1..Len(s)
           /\ \A j \in 1..Len(s) : s[j] \in Ways
<1>1. s \in Seq(Ways) /\ Len(s) <= NumWays  BY DEF Ordered
<1> QED BY <1>1, LenProperties, ElementOfSeq

LEMMA MovedToEnd ==
    ASSUME NEW s, Ordered(s), NEW w \in 0..(Len(s) - 1)
    PROVE  LET t == Append(RemoveFirst(s, w), w)
           IN Ordered(t) /\ Len(t) = Len(s)
<1> DEFINE n == Len(s)
           t == Append(RemoveFirst(s, w), w)
<1>1. s \in Seq(Ways) /\ Permutes(s, n)  BY DEF Ordered
<1>2. n \in Nat /\ n <= NumWays /\ \A j \in 1..n : s[j] \in Ways
  BY OrderedFacts
<1>3. PICK k \in 1..n : s[k] = w  BY <1>1 DEF Permutes
<1>4. \A j \in 1..n : s[j] = w => j = k  BY <1>1, <1>3 DEF Permutes
<1>5. RemoveFirst(s, w) = RemoveAt(s, k)
  <2>1. {i \in 1..n : s[i] = w} = {k}  BY <1>3, <1>4
  <2>2. k \in Nat /\ k # 0
    <3> HIDE DEF n
    <3> QED BY <1>2, <1>3
  <2>3. Min({k}) = k  BY <2>2 DEF Min
  <2>4. SelectInSeq(s, LAMBDA v : v = w) = k  BY <2>1, <2>3 DEF SelectInSeq
  <2> QED BY <1>3, <2>4 DEF RemoveFirst
<1> DEFINE cut == RemoveAt(s, k)
<1>6. t = Append(cut, w)  BY <1>5
<1>7. /\ cut \in Seq(Ways) /\ Len(cut) = n - 1
      /\ \A j \in 1..(n - 1) : j < k => cut[j] = s[j]
      /\ \A j \in 1..(n - 1) : ~(j < k) => cut[j] = s[j + 1]
  BY <1>1, <1>3, RemovedAt
<1> HIDE DEF t, n, cut
<1>8. w \in Ways  BY <1>2, <1>3
<1>9. /\ t \in Seq(Ways) /\ Len(t) = Len(cut) + 1
      /\ \A j \in 1..Len(cut) : t[j] = cut[j]
      /\ t[Len(cut) + 1] = w
  BY <1>6, <1>7, <1>8, AppendProperties
<1>10. /\ t \in Seq(Ways) /\ Len(t) = n /\ t[n] = s[k]
       /\ \A j \in 1..(n - 1) : t[j] = cut[j]
  <2>1. Len(cut) + 1 = n  BY <1>2, <1>7
  <2> QED BY <1>3, <1>7, <1>9, <2>1
<1>11. \A j \in 1..n : j < k => t[j] = s[j]
  <2> SUFFICES ASSUME NEW j \in 1..n, j < k PROVE t[j] = s[j]
    OBVIOUS
  <2>1. j \in 1..(n - 1)  BY <1>2, <1>3
  <2> QED BY <1>7, <1>10, <2>1
<1>12. \A j \in 1..(n - 1) : ~(j < k) => t[j] = s[j + 1]
  BY <1>7, <1>10
<1>13. Permutes(t, n)  BY <1>1, <1>2, <1>10, <1>11, <1>12, MovedLast
<1>14. Ordered(t) /\ Len(t) = n  BY <1>2, <1>10, <1>13 DEF Ordered
<1> QED BY <1>14 DEF t, n

LEMMA HeadToEnd ==
    ASSUME NEW s, Ordered(s), Len(s) = NumWays
    PROVE  LET t == Append(Tail(s), Head(s))
           IN Ordered(t) /\ Len(t) = Len(s) /\ Head(s) \in Ways
<1> DEFINE n == Len(s)
           t == Append(Tail(s), Head(s))
<1>1. s \in Seq(Ways) /\ Permutes(s, n)  BY DEF Ordered
<1>2. n \in Nat /\ n > 0 /\ n <= NumWays /\ \A j \in 1..n : s[j] \in Ways
  BY Sizes, OrderedFacts
<1>3. s # <<>>  BY <1>2, EmptySeq
<1>4. Head(s) = s[1]  BY <1>1, <1>3
<1>5. /\ Tail(s) \in Seq(Ways) /\ Len(Tail(s)) = n - 1
      /\ \A j \in 1..Len(Tail(s)) : Tail(s)[j] = s[j + 1]
      /\ Head(s) \in Ways
  BY <1>1, <1>3, HeadTailProperties
<1> HIDE DEF n
<1>6. /\ t \in Seq(Ways) /\ Len(t) = n /\ t[n] = s[1]
      /\ \A j \in 1..(n - 1) : t[j] = s[j + 1]
  <2>1. /\ t \in Seq(Ways) /\ Len(t) = Len(Tail(s)) + 1
        /\ \A j \in 1..Len(Tail(s)) : t[j] = Tail(s)[j]
        /\ t[Len(Tail(s)) + 1] = Head(s)
    BY <1>5, AppendProperties
  <2>2. Len(Tail(s)) + 1 = n  BY <1>2, <1>5
  <2> QED BY <1>4, <1>5, <2>1, <2>2
<1> HIDE DEF t
<1>7. Permutes(t, n)
  <2>1. 1 \in 1..n /\ \A j \in 1..n : ~(j < 1)  BY <1>2
  <2> QED BY <1>1, <1>2, <1>6, <2>1, MovedLast
<1>8. Ordered(t) /\ Len(t) = n  BY <1>2, <1>6, <1>7 DEF Ordered
<1> QED BY <1>5, <1>8 DEF t, n

LEMMA OneMore ==
    ASSUME NEW s, Ordered(s), Len(s) # NumWays
    PROVE  LET t == Append(s, Len(s))
           IN Ordered(t) /\ Len(t) = Len(s) + 1 /\ Len(s) \in Ways
<1> DEFINE n == Len(s)
           t == Append(s, n)
<1>1. s \in Seq(Ways) /\ Permutes(s, n)  BY DEF Ordered
<1>2. n \in Nat /\ n < NumWays
  <2>1. n \in Nat /\ n <= NumWays /\ n # NumWays  BY OrderedFacts
  <2> HIDE DEF n
  <2> QED BY <2>1, Sizes
<1>3. n \in Ways
  <2> HIDE DEF n
  <2> QED BY <1>2, Sizes DEF Ways
<1>4. /\ t \in Seq(Ways) /\ Len(t) = n + 1
      /\ \A j \in 1..n : t[j] = s[j]
      /\ t[n + 1] = n
  BY <1>1, <1>3, AppendProperties
<1> HIDE DEF t, n
<1>5. Permutes(t, n + 1)  BY <1>1, <1>2, <1>4, AddedLast
<1>6. n + 1 <= NumWays  BY <1>2, Sizes
<1>7. Ordered(t)  BY <1>4, <1>5, <1>6 DEF Ordered
<1> QED BY <1>3, <1>4, <1>7 DEF t, n

-----------------------------------------------------------------------------
(* The lines of the ways: at most one has the tag and row of an address. *)

Consistent(ls) ==
    /\ ls \in [Ways -> [Rows -> Line]]
    /\ \A w, x \in Ways, r \in Rows :
         ls[w][r].tag = ls[x][r].tag /\ ls[w][r].tag # -1 => w = x
    /\ \A w \in Ways, r \in Rows : ls[w][r].tag # -1 => ls[w][r].valid >= 1

Tagged(ls, a) == {w \in Ways : ls[w][Row(a)].tag = Tag(a)}

HitsIn(ls, a) == {w \in Ways : /\ ls[w][Row(a)].tag = Tag(a)
                                /\ ls[w][Row(a)].valid >= 1}

ContentsAt(ls, mem, a) ==
    IF HitsIn(ls, a) = {} THEN mem[a]
    ELSE ls[First(HitsIn(ls, a))][Row(a)].words[Col(a)]

LEMMA FirstOfOne ==
    ASSUME NEW w \in Ways
    PROVE  First({w}) = w
<1>1. w <= w  BY DEF Ways
<1> QED BY <1>1 DEF First

LEMMA HitsAreTagged ==
    ASSUME NEW ls, Consistent(ls), NEW a \in Address
    PROVE  HitsIn(ls, a) = Tagged(ls, a)
<1>1. Row(a) \in Rows /\ Tag(a) # -1  BY AddressParts, Sizes
<1> QED BY <1>1 DEF HitsIn, Tagged, Consistent

LEMMA Hit ==
    ASSUME NEW ls, Consistent(ls), NEW mem, NEW a \in Address, NEW w \in Ways,
           ls[w][Row(a)].tag = Tag(a)
    PROVE  /\ HitsIn(ls, a) = {w} /\ Tagged(ls, a) = {w}
           /\ ContentsAt(ls, mem, a) = ls[w][Row(a)].words[Col(a)]
<1>1. Row(a) \in Rows /\ Tag(a) # -1  BY AddressParts, Sizes
<1>2. Tagged(ls, a) = {w}  BY <1>1 DEF Tagged, Consistent
<1>3. HitsIn(ls, a) = {w}  BY <1>2, HitsAreTagged
<1>4. First(HitsIn(ls, a)) = w  BY <1>3, FirstOfOne
<1> QED BY <1>2, <1>3, <1>4 DEF ContentsAt

LEMMA Miss ==
    ASSUME NEW ls, Consistent(ls), NEW mem, NEW a \in Address,
           \A w \in Ways : ls[w][Row(a)].tag # Tag(a)
    PROVE  /\ HitsIn(ls, a) = {} /\ Tagged(ls, a) = {}
           /\ ContentsAt(ls, mem, a) = mem[a]
<1>1. Tagged(ls, a) = {}  BY DEF Tagged
<1>2. HitsIn(ls, a) = {}  BY <1>1, HitsAreTagged
<1> QED BY <1>1, <1>2 DEF ContentsAt

\* A line put in a way where no other way has its tag.
LEMMA Placed ==
    ASSUME NEW ls, Consistent(ls), NEW w \in Ways, NEW r \in Rows, NEW line \in Line,
           line.tag # -1, line.valid >= 1,
           \A x \in Ways : x # w => ls[x][r].tag # line.tag
    PROVE  LET new == [ls EXCEPT ![w][r] = line]
           IN /\ Consistent(new)
              /\ new[w][r] = line
              /\ \A x \in Ways, q \in Rows : (x # w \/ q # r) => new[x][q] = ls[x][q]
<1> DEFINE new == [ls EXCEPT ![w][r] = line]
<1>1. ls \in [Ways -> [Rows -> Line]]  BY DEF Consistent
<1>2. /\ new \in [Ways -> [Rows -> Line]]
      /\ new[w][r] = line
      /\ \A x \in Ways, q \in Rows : (x # w \/ q # r) => new[x][q] = ls[x][q]
  BY <1>1
<1> HIDE DEF new
<1>3. \A x, y \in Ways, q \in Rows :
        new[x][q].tag = new[y][q].tag /\ new[x][q].tag # -1 => x = y
  BY <1>2 DEF Consistent
<1>4. \A x \in Ways, q \in Rows : new[x][q].tag # -1 => new[x][q].valid >= 1
  BY <1>2 DEF Consistent
<1>5. Consistent(new)  BY <1>2, <1>3, <1>4 DEF Consistent
<1> QED BY <1>2, <1>5 DEF new

\* On a miss the line replaced goes down and the new one comes in: no address
\* but those of the new line can change what it holds.
LEMMA Replaced ==
    ASSUME NEW ls, Consistent(ls), NEW mem \in [Address -> Value],
           NEW a \in Address, NEW w \in Ways, NEW line \in Line,
           \A x \in Ways : ls[x][Row(a)].tag # Tag(a),
           line.tag = Tag(a), NEW new, Consistent(new), new[w][Row(a)] = line,
           \A x \in Ways, q \in Rows : (x # w \/ q # Row(a)) => new[x][q] = ls[x][q],
           NEW mem2, NEW b \in Address,
           mem2[b] = IF /\ ls[w][Row(a)].valid # 0
                        /\ Tag(b) = ls[w][Row(a)].tag /\ Row(b) = Row(a)
                     THEN ls[w][Row(a)].words[Col(b)] ELSE mem[b]
    PROVE  /\ mem2[b] \in Value
           /\ Tag(b) = Tag(a) /\ Row(b) = Row(a) =>
                /\ ContentsAt(new, mem2, b) = line.words[Col(b)]
                /\ mem2[b] = ContentsAt(ls, mem, b)
           /\ ~(Tag(b) = Tag(a) /\ Row(b) = Row(a)) =>
                ContentsAt(new, mem2, b) = ContentsAt(ls, mem, b)
<1> DEFINE r == Row(a)
           old == ls[w][r]
<1>1. r \in Rows /\ Tag(a) # -1 /\ Row(b) \in Rows /\ Tag(b) # -1 /\ Col(b) \in Cols
  BY AddressParts, Sizes
<1>2. /\ Consistent(new) /\ new[w][r] = line
      /\ \A x \in Ways, q \in Rows : (x # w \/ q # r) => new[x][q] = ls[x][q]
  OBVIOUS
<1>3. old \in Line /\ (old.tag # -1 => old.valid >= 1)  BY <1>1 DEF Consistent
<1>4. mem2[b] = IF old.valid # 0 /\ Tag(b) = old.tag /\ Row(b) = r
                THEN old.words[Col(b)] ELSE mem[b]
  OBVIOUS
<1>5. mem2[b] \in Value
  <2>1. old.words[Col(b)] \in Value  BY <1>1, <1>3 DEF Line
  <2> QED BY <1>4, <2>1
<1>6. CASE Tag(b) = Tag(a) /\ Row(b) = Row(a)
  <2>1. ContentsAt(new, mem2, b) = line.words[Col(b)]  BY <1>2, <1>6, Hit
  <2>2. ContentsAt(ls, mem, b) = mem[b]  BY <1>6, Miss
  <2>3. mem2[b] = mem[b]  BY <1>4, <1>6
  <2> QED BY <1>2, <1>5, <1>6, <2>1, <2>2, <2>3
<1>7. CASE ~(Tag(b) = Tag(a) /\ Row(b) = Row(a))
  <2>1. CASE \E x \in Ways : ls[x][Row(b)].tag = Tag(b) /\ ~(x = w /\ Row(b) = r)
    <3>1. PICK x \in Ways : ls[x][Row(b)].tag = Tag(b) /\ ~(x = w /\ Row(b) = r)
      BY <2>1
    <3>2. new[x][Row(b)] = ls[x][Row(b)]  BY <1>1, <1>2, <3>1
    <3>3. ContentsAt(ls, mem, b) = ls[x][Row(b)].words[Col(b)]  BY <3>1, Hit
    <3>4. ContentsAt(new, mem2, b) = ls[x][Row(b)].words[Col(b)]
      BY <1>2, <3>1, <3>2, Hit
    <3> QED BY <1>2, <1>5, <1>7, <3>3, <3>4
  <2>2. CASE Row(b) = r /\ old.tag = Tag(b)
    <3>1. ContentsAt(ls, mem, b) = old.words[Col(b)]  BY <2>2, Hit
    <3>2. \A x \in Ways : new[x][Row(b)].tag # Tag(b)
      <4> SUFFICES ASSUME NEW x \in Ways PROVE new[x][Row(b)].tag # Tag(b)
        OBVIOUS
      <4>1. CASE x = w  BY <1>2, <1>7, <2>2, <4>1
      <4>2. CASE x # w
        <5>1. new[x][r] = ls[x][r]  BY <1>1, <1>2, <4>2
        <5>2. ls[x][r].tag # old.tag  BY <1>1, <2>2, <4>2 DEF Consistent
        <5> QED BY <2>2, <5>1, <5>2
      <4> QED BY <4>1, <4>2
    <3>3. ContentsAt(new, mem2, b) = mem2[b]  BY <1>2, <3>2, Miss
    <3>4. old.valid # 0
      <4>1. old.tag # -1 /\ old.valid \in Nat  BY <1>1, <1>3, <2>2 DEF Line
      <4> QED BY <1>3, <4>1
    <3>5. mem2[b] = old.words[Col(b)]  BY <1>4, <2>2, <3>4
    <3> QED BY <1>2, <1>5, <1>7, <3>1, <3>3, <3>5
  <2>3. CASE \A x \in Ways : ls[x][Row(b)].tag # Tag(b)
    <3>1. ContentsAt(ls, mem, b) = mem[b]  BY <2>3, Miss
    <3>2. \A x \in Ways : new[x][Row(b)].tag # Tag(b)
      <4> SUFFICES ASSUME NEW x \in Ways PROVE new[x][Row(b)].tag # Tag(b)
        OBVIOUS
      <4>1. CASE x = w /\ Row(b) = r  BY <1>2, <1>7, <4>1
      <4>2. CASE ~(x = w /\ Row(b) = r)  BY <1>1, <1>2, <2>3, <4>2
      <4> QED BY <4>1, <4>2
    <3>3. ContentsAt(new, mem2, b) = mem2[b]  BY <1>2, <3>2, Miss
    <3>4. mem2[b] = mem[b]
      <4>1. ~(Tag(b) = old.tag /\ Row(b) = r)  BY <2>3
      <4> QED BY <1>4, <4>1
    <3> QED BY <1>2, <1>5, <1>7, <3>1, <3>3, <3>4
  <2> QED BY <2>1, <2>2, <2>3
<1> QED BY <1>6, <1>7

-----------------------------------------------------------------------------
(* The invariant: besides the properties, the replacement order names all of  *)
(* the ways below its length, so that the way of a line that hits is in it.   *)

Inv ==
    /\ Consistent(lines)
    /\ below \in [Address -> Value]
    /\ value \in Value
    /\ Ordered(accessPattern)
    /\ \A w \in Ways, r \in Rows :
         w >= Len(accessPattern) => lines[w][r].valid = 0

LEMMA InvMeans == Inv => TypeOK /\ OneCopy /\ LinesAccounted
<1> SUFFICES ASSUME Inv PROVE TypeOK /\ OneCopy /\ LinesAccounted
  OBVIOUS
<1>1. TypeOK  BY DEF Inv, Consistent, Ordered, TypeOK
<1>2. OneCopy  BY DEF Inv, Consistent, OneCopy
<1> DEFINE n == Len(accessPattern)
<1>3. n \in Nat /\ DOMAIN accessPattern = 1..n /\ Permutes(accessPattern, n)
  BY OrderedFacts DEF Inv, Ordered
<1>4. \A w \in Ways, r \in Rows : w >= n => lines[w][r].valid = 0  BY DEF Inv
<1>5. \A w \in Ways, r \in Rows : lines[w][r].tag # -1 => lines[w][r].valid >= 1
  BY DEF Inv, Consistent
<1>6. LinesAccounted
  <2> HIDE DEF n
  <2>1. \A k \in 1..n : accessPattern[k] < n  BY <1>3 DEF Permutes
  <2>2. \A j, k \in 1..n : accessPattern[j] = accessPattern[k] => j = k
    BY <1>3 DEF Permutes
  <2> QED BY <1>3, <1>4, <1>5, <2>1, <2>2 DEF LinesAccounted, n
<1> QED BY <1>1, <1>2, <1>6

LEMMA InitInv == Init => Inv
<1> SUFFICES ASSUME Init PROVE Inv
  OBVIOUS
<1>1. PICK v \in Value :
        lines = [w \in Ways |-> [r \in Rows |->
                   [tag |-> -1, valid |-> 0, words |-> [c \in Cols |-> v]]]]
  BY DEF Init
<1>2. \A w \in Ways, r \in Rows :
        /\ lines[w][r] = [tag |-> -1, valid |-> 0, words |-> [c \in Cols |-> v]]
        /\ lines[w][r].tag = -1 /\ lines[w][r].valid = 0
  BY <1>1
<1>3. [tag |-> -1, valid |-> 0, words |-> [c \in Cols |-> v]] \in Line
  BY Sizes DEF Line
<1>4. Consistent(lines)
  <2>1. lines \in [Ways -> [Rows -> Line]]  BY <1>1, <1>3
  <2> QED BY <1>2, <2>1 DEF Consistent
<1>5. Ordered(accessPattern)
  <2>1. accessPattern = <<>>  BY DEF Init
  <2>2. <<>> \in Seq(Ways) /\ Len(<<>>) = 0  BY EmptySeq
  <2>3. Permutes(<<>>, 0)  BY DEF Permutes
  <2> QED BY <2>1, <2>2, <2>3, Sizes DEF Ordered
<1> QED BY <1>2, <1>4, <1>5 DEF Init, Inv

LEMMA UsedWay ==
    ASSUME Inv, NEW a \in Address, NEW w \in Ways, lines[w][Row(a)].tag = Tag(a)
    PROVE  Ordered(Used(w)) /\ Len(Used(w)) = Len(accessPattern)
<1> DEFINE n == Len(accessPattern)
<1>1. Row(a) \in Rows /\ Tag(a) # -1  BY AddressParts, Sizes
<1>2. lines[w][Row(a)].valid >= 1  BY <1>1 DEF Inv, Consistent
<1>3. w >= n => lines[w][Row(a)].valid = 0  BY <1>1 DEF Inv
<1>4. n \in Nat /\ Ordered(accessPattern)  BY OrderedFacts DEF Inv
<1>5. w \in 0..(n - 1)
  <2> HIDE DEF n
  <2> QED BY <1>2, <1>3, <1>4 DEF Ways
<1> QED BY <1>4, <1>5, MovedToEnd DEF Used

LEMMA VictimWay ==
    ASSUME Inv
    PROVE  /\ Victim \in Ways
           /\ Ordered(Allocated(Victim))
           /\ \A x \in Ways : x >= Len(Allocated(Victim)) =>
                                x >= Len(accessPattern) /\ x # Victim
<1> DEFINE s == accessPattern
<1>1. Ordered(s) /\ Len(s) \in Nat  BY OrderedFacts DEF Inv
<1>2. CASE Len(s) = NumWays
  <2>1. Victim = Head(s) /\ Allocated(Victim) = Append(Tail(s), Head(s))
    BY <1>2 DEF Victim, Allocated
  <2>2. /\ Ordered(Allocated(Victim)) /\ Len(Allocated(Victim)) = Len(s)
        /\ Victim \in Ways
    BY <1>1, <1>2, <2>1, HeadToEnd
  <2>3. \A x \in Ways : ~(x >= NumWays)  BY Sizes DEF Ways
  <2> QED BY <1>2, <2>2, <2>3
<1>3. CASE Len(s) # NumWays
  <2> DEFINE n == Len(s)
  <2>1. Victim = n /\ Allocated(Victim) = Append(s, n)
    BY <1>3 DEF Victim, Allocated
  <2>2. Ordered(Allocated(Victim)) /\ Len(Allocated(Victim)) = n + 1 /\ n \in Ways
    BY <1>1, <1>3, <2>1, OneMore
  <2>3. n \in Nat  BY <1>1
  <2> HIDE DEF n
  <2>4. \A x \in Ways : x >= n + 1 => x >= n /\ x # n  BY <2>3 DEF Ways
  <2> QED BY <2>1, <2>2, <2>4 DEF n
<1> QED BY <1>2, <1>3

LEMMA RefilledLine ==
    ASSUME NEW a \in Address, NEW mem \in [Address -> Value]
    PROVE  /\ Refilled(a, mem) \in Line
           /\ Refilled(a, mem).tag = Tag(a)
           /\ Refilled(a, mem).valid >= 1
           /\ \A b \in Address : Tag(b) = Tag(a) /\ Row(b) = Row(a) =>
                 Refilled(a, mem).words[Col(b)] = mem[b]
<1> DEFINE line == Refilled(a, mem)
<1>1. Tag(a) \in 0..(NumTags - 1) /\ Row(a) \in Rows  BY AddressParts
<1>2. line = [tag |-> Tag(a), valid |-> BelowLatency,
              words |-> [c \in Cols |-> mem[WordAt(Tag(a), Row(a), c)]]]
  BY DEF Refilled
<1>3. \A c \in Cols : mem[WordAt(Tag(a), Row(a), c)] \in Value  BY <1>1, WordParts
<1>4. line \in Line
  <2>1. Tag(a) \in -1..(NumTags - 1)  BY <1>1, Sizes
  <2> QED BY <1>2, <1>3, <2>1, Sizes DEF Line
<1>5. line.tag = Tag(a) /\ line.valid >= 1  BY <1>2, Sizes
<1>6. \A b \in Address : Tag(b) = Tag(a) /\ Row(b) = Row(a) => line.words[Col(b)] = mem[b]
  <2> SUFFICES ASSUME NEW b \in Address, Tag(b) = Tag(a), Row(b) = Row(a)
               PROVE  line.words[Col(b)] = mem[b]
    OBVIOUS
  <2>1. Col(b) \in Cols /\ WordAt(Tag(a), Row(a), Col(b)) = b  BY AddressParts
  <2> QED BY <1>2, <2>1
<1> QED BY <1>4, <1>5, <1>6

-----------------------------------------------------------------------------
(* What each step does to the invariant and to the contents. *)

LEMMA ContentsAre ==
    /\ Contents = [b \in Address |-> ContentsAt(lines, below, b)]
    /\ Contents' = [b \in Address |-> ContentsAt(lines', below', b)]
<1>1. \A b : HitsIn(lines, b) = ReadHits(b)  BY DEF HitsIn, ReadHits
<1>2. \A b : HitsIn(lines', b) = ReadHits(b)'  BY DEF HitsIn, ReadHits
<1>3. Contents = [b \in Address |-> ContentsAt(lines, below, b)]
  BY <1>1 DEF Contents, ContentsAt
<1>4. Contents' = [b \in Address |-> ContentsAt(lines', below', b)]
  BY <1>2 DEF Contents, ContentsAt
<1> QED BY <1>3, <1>4

LEMMA ContentsTyped ==
    ASSUME NEW ls, Consistent(ls), NEW mem \in [Address -> Value], NEW b \in Address
    PROVE  ContentsAt(ls, mem, b) \in Value
<1>1. Row(b) \in Rows /\ Col(b) \in Cols  BY AddressParts
<1>2. CASE \A w \in Ways : ls[w][Row(b)].tag # Tag(b)  BY <1>2, Miss
<1>3. CASE \E w \in Ways : ls[w][Row(b)].tag = Tag(b)
  <2>1. PICK w \in Ways : ls[w][Row(b)].tag = Tag(b)  BY <1>3
  <2>2. ls[w][Row(b)] \in Line  BY <1>1 DEF Consistent
  <2>3. ls[w][Row(b)].words[Col(b)] \in Value  BY <1>1, <2>2 DEF Line
  <2> QED BY <2>1, <2>3, Hit
<1> QED BY <1>2, <1>3

\* A miss puts some line with the tag of a in the place of the victim.
Evicts(a, line) ==
    /\ below' = WrittenBack(Victim, a)
    /\ lines' = [lines EXCEPT ![Victim][Row(a)] = line]
    /\ accessPattern' = Allocated(Victim)

LEMMA MissStep ==
    ASSUME Inv, NEW a \in Address, NEW line \in Line, Evicts(a, line), value' \in Value,
           \A x \in Ways : lines[x][Row(a)].tag # Tag(a),
           line.tag = Tag(a), line.valid >= 1
    PROVE  /\ Inv'
           /\ lines'[Victim][Row(a)] = line
           /\ \A b \in Address :
                /\ Tag(b) = Tag(a) /\ Row(b) = Row(a) =>
                     /\ Contents'[b] = line.words[Col(b)]
                     /\ below'[b] = Contents[b]
                /\ ~(Tag(b) = Tag(a) /\ Row(b) = Row(a)) => Contents'[b] = Contents[b]
<1> DEFINE w == Victim
           new == lines'
           mem2 == below'
<1>1. /\ w \in Ways /\ Ordered(Allocated(w))
      /\ \A x \in Ways : x >= Len(Allocated(w)) => x >= Len(accessPattern) /\ x # w
  BY VictimWay
<1>2. Row(a) \in Rows /\ Tag(a) # -1  BY AddressParts, Sizes
<1>3. Consistent(lines) /\ below \in [Address -> Value]  BY DEF Inv
<1> HIDE DEF w
<1>4. /\ Consistent(new) /\ new[w][Row(a)] = line
      /\ \A x \in Ways, q \in Rows :
           (x # w \/ q # Row(a)) => new[x][q] = lines[x][q]
  <2>1. lines' = [lines EXCEPT ![w][Row(a)] = line]  BY DEF Evicts, w
  <2>2. \A x \in Ways : x # w => lines[x][Row(a)].tag # line.tag  OBVIOUS
  <2>3. line.tag # -1  BY <1>2
  <2> DEFINE put == [lines EXCEPT ![w][Row(a)] = line]
  <2>4. /\ Consistent(put) /\ put[w][Row(a)] = line
        /\ \A x \in Ways, q \in Rows :
             (x # w \/ q # Row(a)) => put[x][q] = lines[x][q]
    BY <1>1, <1>2, <1>3, <2>2, <2>3, Placed
  <2>5. put = lines'  BY <2>1
  <2> HIDE DEF put
  <2> QED BY <2>4, <2>5
<1>5. \A b \in Address :
        mem2[b] = IF /\ lines[w][Row(a)].valid # 0
                     /\ Tag(b) = lines[w][Row(a)].tag /\ Row(b) = Row(a)
                  THEN lines[w][Row(a)].words[Col(b)] ELSE below[b]
  BY DEF Evicts, WrittenBack, w
<1>6. mem2 = [b \in Address |-> mem2[b]]
  BY DEF Evicts, WrittenBack
<1> HIDE DEF new, mem2
<1>7. \A b \in Address :
        /\ mem2[b] \in Value
        /\ Tag(b) = Tag(a) /\ Row(b) = Row(a) =>
             /\ ContentsAt(new, mem2, b) = line.words[Col(b)]
             /\ mem2[b] = ContentsAt(lines, below, b)
        /\ ~(Tag(b) = Tag(a) /\ Row(b) = Row(a)) =>
             ContentsAt(new, mem2, b) = ContentsAt(lines, below, b)
  <2> TAKE b \in Address
  <2> QED BY <1>1, <1>3, <1>4, <1>5, Replaced
<1>8. mem2 \in [Address -> Value]  BY <1>6, <1>7
<1>9. \A x \in Ways, r \in Rows :
        x >= Len(Allocated(w)) => new[x][r].valid = 0
  BY <1>1, <1>4 DEF Inv
<1>10. accessPattern' = Allocated(w)  BY DEF Evicts, w
<1>11. Inv'
  <2>1. Consistent(lines') /\ below' \in [Address -> Value]
    BY <1>4, <1>8 DEF new, mem2
  <2>2. Ordered(accessPattern')  BY <1>1, <1>10
  <2>3. \A x \in Ways, r \in Rows : x >= Len(accessPattern') => lines'[x][r].valid = 0
    BY <1>9, <1>10 DEF new
  <2> QED BY <2>1, <2>2, <2>3 DEF Inv, Consistent, Ordered
<1>12. \A b \in Address :
         /\ Tag(b) = Tag(a) /\ Row(b) = Row(a) =>
              /\ Contents'[b] = line.words[Col(b)]
              /\ below'[b] = Contents[b]
         /\ ~(Tag(b) = Tag(a) /\ Row(b) = Row(a)) => Contents'[b] = Contents[b]
  BY <1>7, ContentsAre DEF new, mem2
<1> QED BY <1>4, <1>11, <1>12 DEF new, w

LEMMA ReadHitStep ==
    ASSUME Inv, NEW a \in Address, ReadHit(a)
    PROVE  Inv' /\ Contents' = Contents /\ value' = Contents[a]
<1>1. Consistent(lines) /\ below \in [Address -> Value]  BY DEF Inv
<1>2. HitsIn(lines, a) = ReadHits(a)  BY DEF HitsIn, ReadHits
<1>3. PICK w \in Ways : lines[w][Row(a)].tag = Tag(a)
  BY DEF ReadHit, ReadHits
<1>4. /\ HitsIn(lines, a) = {w}
      /\ ContentsAt(lines, below, a) = lines[w][Row(a)].words[Col(a)]
  BY <1>1, <1>3, Hit
<1>5. First(ReadHits(a)) = w  BY <1>2, <1>4, FirstOfOne
<1>6. /\ value' = lines[w][Row(a)].words[Col(a)] /\ accessPattern' = Used(w)
      /\ lines' = lines /\ below' = below
  BY <1>5 DEF ReadHit
<1>7. Ordered(Used(w)) /\ Len(Used(w)) = Len(accessPattern)  BY <1>3, UsedWay
<1>8. value' = ContentsAt(lines, below, a)  BY <1>4, <1>6
<1>9. value' \in Value  BY <1>1, <1>8, ContentsTyped
<1>10. Inv'
  <2>1. Ordered(accessPattern') /\ Len(accessPattern') = Len(accessPattern)
    BY <1>6, <1>7
  <2>2. Consistent(lines')  BY <1>1, <1>6
  <2> QED BY <1>6, <1>9, <2>1, <2>2 DEF Inv, Consistent, Ordered
<1>11. Contents' = Contents  BY <1>6, ContentsAre
<1> QED BY <1>8, <1>10, <1>11, ContentsAre

LEMMA NoneTagged ==
    ASSUME Inv, NEW a \in Address, ReadHits(a) = {} \/ WriteHits(a) = {}
    PROVE  \A x \in Ways : lines[x][Row(a)].tag # Tag(a)
<1>1. Consistent(lines)  BY DEF Inv
<1>2. HitsIn(lines, a) = Tagged(lines, a)  BY <1>1, HitsAreTagged
<1>3. ReadHits(a) = HitsIn(lines, a) /\ WriteHits(a) = Tagged(lines, a)
  BY DEF ReadHits, WriteHits, HitsIn, Tagged
<1> QED BY <1>2, <1>3 DEF Tagged

LEMMA WrittenBackTyped ==
    ASSUME Inv, NEW a \in Address, NEW w \in Ways
    PROVE  WrittenBack(w, a) \in [Address -> Value]
<1>1. lines[w][Row(a)] \in Line  BY AddressParts DEF Inv, Consistent
<1>2. \A b \in Address : lines[w][Row(a)].words[Col(b)] \in Value
  BY <1>1, AddressParts DEF Line
<1>3. below \in [Address -> Value]  BY DEF Inv
<1> QED BY <1>2, <1>3 DEF WrittenBack

LEMMA ReadMissStep ==
    ASSUME Inv, NEW a \in Address, ReadMiss(a)
    PROVE  Inv' /\ Contents' = Contents /\ value' = Contents[a]
<1> DEFINE line == Refilled(a, below')
           w == Victim
<1>1. \A x \in Ways : lines[x][Row(a)].tag # Tag(a)  BY NoneTagged DEF ReadMiss
<1>2. w \in Ways /\ below' = WrittenBack(w, a)  BY VictimWay DEF ReadMiss
<1>3. below' \in [Address -> Value]  BY <1>2, WrittenBackTyped
<1>4. /\ line \in Line /\ line.tag = Tag(a) /\ line.valid >= 1
      /\ \A b \in Address : Tag(b) = Tag(a) /\ Row(b) = Row(a) =>
           line.words[Col(b)] = below'[b]
  BY <1>3, RefilledLine
<1>5. Evicts(a, line) /\ value' = lines'[w][Row(a)].words[Col(a)]
  BY DEF ReadMiss, Evicts
<1>6. Row(a) \in Rows /\ Col(a) \in Cols  BY AddressParts
<1> HIDE DEF line
<1>7. lines'[w][Row(a)] = line
  <2>1. lines' = [lines EXCEPT ![w][Row(a)] = line]  BY <1>5 DEF Evicts
  <2>2. lines \in [Ways -> [Rows -> Line]]  BY DEF Inv, Consistent
  <2> HIDE DEF w
  <2> QED BY <1>2, <1>6, <2>1, <2>2
<1>8. value' = line.words[Col(a)] /\ value' \in Value
  <2>1. value' = line.words[Col(a)]  BY <1>5, <1>7
  <2>2. line.words[Col(a)] \in Value  BY <1>4, <1>6 DEF Line
  <2> QED BY <2>1, <2>2
<1>9. /\ Inv'
      /\ \A b \in Address :
           /\ Tag(b) = Tag(a) /\ Row(b) = Row(a) =>
                /\ Contents'[b] = line.words[Col(b)]
                /\ below'[b] = Contents[b]
           /\ ~(Tag(b) = Tag(a) /\ Row(b) = Row(a)) => Contents'[b] = Contents[b]
  BY <1>1, <1>4, <1>5, <1>8, MissStep
<1>10. \A b \in Address : Contents'[b] = Contents[b]  BY <1>4, <1>9
<1>11. Contents' = Contents
  <2>1. Contents = [b \in Address |-> Contents[b]]  BY DEF Contents
  <2>2. Contents' = [b \in Address |-> Contents'[b]]  BY DEF Contents
  <2> QED BY <1>10, <2>1, <2>2
<1>12. value' = Contents[a]  BY <1>4, <1>8, <1>9
<1> QED BY <1>9, <1>11, <1>12

LEMMA WriteMissStep ==
    ASSUME Inv, NEW a \in Address, NEW v \in Value, WriteMiss(a, v)
    PROVE  Inv' /\ Contents' = [Contents EXCEPT ![a] = v] /\ value' = value
<1> DEFINE full == Refilled(a, below')
           line == [full EXCEPT !.words[Col(a)] = v, !.valid = 1]
           w == Victim
<1>1. \A x \in Ways : lines[x][Row(a)].tag # Tag(a)  BY NoneTagged DEF WriteMiss
<1>2. w \in Ways /\ below' = WrittenBack(w, a)  BY VictimWay DEF WriteMiss
<1>3. below' \in [Address -> Value]  BY <1>2, WrittenBackTyped
<1>4. /\ full \in Line /\ full.tag = Tag(a)
      /\ \A b \in Address : Tag(b) = Tag(a) /\ Row(b) = Row(a) =>
           full.words[Col(b)] = below'[b]
  BY <1>3, RefilledLine
<1>5. Evicts(a, line) /\ value' = value
  BY DEF WriteMiss, Evicts
<1>6. Row(a) \in Rows /\ Col(a) \in Cols  BY AddressParts
<1> HIDE DEF full
<1>7. /\ line \in Line /\ line.tag = Tag(a) /\ line.valid = 1
      /\ \A c \in Cols : line.words[c] = IF c = Col(a) THEN v ELSE full.words[c]
  BY <1>4, <1>6 DEF Line
<1>8. line.valid >= 1 /\ value' \in Value  BY <1>5, <1>7 DEF Inv
<1> HIDE DEF line
<1>9. /\ Inv'
      /\ \A b \in Address :
           /\ Tag(b) = Tag(a) /\ Row(b) = Row(a) =>
                /\ Contents'[b] = line.words[Col(b)]
                /\ below'[b] = Contents[b]
           /\ ~(Tag(b) = Tag(a) /\ Row(b) = Row(a)) => Contents'[b] = Contents[b]
  BY <1>1, <1>5, <1>7, <1>8, MissStep
<1>10. \A b \in Address : Contents'[b] = IF b = a THEN v ELSE Contents[b]
  <2> TAKE b \in Address
  <2>1. Col(b) \in Cols /\ WordAt(Tag(b), Row(b), Col(b)) = b  BY AddressParts
  <2>2. WordAt(Tag(a), Row(a), Col(a)) = a  BY AddressParts
  <2>3. CASE b = a  BY <1>7, <1>9, <2>1, <2>3
  <2>4. CASE b # a /\ Tag(b) = Tag(a) /\ Row(b) = Row(a)
    <3>1. Col(b) # Col(a)  BY <2>1, <2>2, <2>4
    <3> QED BY <1>4, <1>7, <1>9, <2>1, <2>4, <3>1
  <2>5. CASE ~(Tag(b) = Tag(a) /\ Row(b) = Row(a))  BY <1>9, <2>5
  <2> QED BY <2>3, <2>4, <2>5
<1>11. Contents' = [Contents EXCEPT ![a] = v]
  <2>1. Contents = [b \in Address |-> Contents[b]]  BY DEF Contents
  <2>2. Contents' = [b \in Address |-> Contents'[b]]  BY DEF Contents
  <2> QED BY <1>10, <2>1, <2>2
<1> QED BY <1>5, <1>9, <1>11

LEMMA WriteHitStep ==
    ASSUME Inv, NEW a \in Address, NEW v \in Value, WriteHit(a, v)
    PROVE  Inv' /\ Contents' = [Contents EXCEPT ![a] = v] /\ value' = value
<1>1. Consistent(lines) /\ below \in [Address -> Value]  BY DEF Inv
<1>2. PICK w \in Ways : lines[w][Row(a)].tag = Tag(a)  BY DEF WriteHit, WriteHits
<1>3. Row(a) \in Rows /\ Col(a) \in Cols /\ Tag(a) # -1  BY AddressParts, Sizes
<1>4. First(WriteHits(a)) = w
  <2>1. Tagged(lines, a) = {w}  BY <1>1, <1>2, Hit
  <2>2. WriteHits(a) = Tagged(lines, a)  BY DEF WriteHits, Tagged
  <2> QED BY <2>1, <2>2, FirstOfOne
<1> DEFINE old == lines[w][Row(a)]
           line == [old EXCEPT !.words[Col(a)] = v, !.valid = 1]
           put == [lines EXCEPT ![w][Row(a)] = line]
<1>5. old \in Line /\ old.tag = Tag(a)  BY <1>1, <1>2, <1>3 DEF Consistent
<1>6. /\ line \in Line /\ line.tag = Tag(a) /\ line.valid = 1
      /\ \A c \in Cols : line.words[c] = IF c = Col(a) THEN v ELSE old.words[c]
  <2> HIDE DEF old
  <2> QED BY <1>3, <1>5 DEF Line
<1>7. /\ lines' = [lines EXCEPT ![w][Row(a)].words[Col(a)] = v,
                                ![w][Row(a)].valid = 1]
      /\ accessPattern' = Used(w) /\ below' = below /\ value' = value
  BY <1>4 DEF WriteHit
<1>8. lines' = put
  <2>1. lines \in [Ways -> [Rows -> Line]]  BY <1>1 DEF Consistent
  <2> QED BY <1>3, <1>7, <2>1
<1> HIDE DEF line, old
<1>9. /\ Consistent(put) /\ put[w][Row(a)] = line
      /\ \A x \in Ways, q \in Rows :
           (x # w \/ q # Row(a)) => put[x][q] = lines[x][q]
  <2>1. \A x \in Ways : x # w => lines[x][Row(a)].tag # line.tag
    BY <1>1, <1>2, <1>3, <1>6 DEF Consistent
  <2>2. line.valid >= 1 /\ line.tag # -1  BY <1>3, <1>6
  <2> QED BY <1>1, <1>3, <1>6, <2>1, <2>2, Placed
<1> HIDE DEF put
<1>10. Ordered(accessPattern') /\ Len(accessPattern') = Len(accessPattern)
  BY <1>2, <1>7, UsedWay
<1>11. \A x \in Ways, r \in Rows : x >= Len(accessPattern) => put[x][r].valid = 0
  <2>1. \A x \in Ways, r \in Rows : x >= Len(accessPattern) => lines[x][r].valid = 0
    BY DEF Inv
  <2>2. ~(w >= Len(accessPattern))
    <3>1. lines[w][Row(a)].valid >= 1  BY <1>1, <1>2, <1>3 DEF Consistent
    <3> QED BY <1>3, <2>1, <3>1
  <2> QED BY <1>9, <2>1, <2>2
<1>12. Inv'
  <2>1. Consistent(lines')  BY <1>8, <1>9
  <2>2. below' \in [Address -> Value] /\ value' \in Value  BY <1>7 DEF Inv
  <2>3. \A x \in Ways, r \in Rows : x >= Len(accessPattern') => lines'[x][r].valid = 0
    BY <1>8, <1>10, <1>11
  <2> QED BY <1>10, <2>1, <2>2, <2>3 DEF Inv, Consistent, Ordered
<1>13. \A b \in Address : Contents'[b] = IF b = a THEN v ELSE Contents[b]
  <2> TAKE b \in Address
  <2>1. Col(b) \in Cols /\ Row(b) \in Rows /\ WordAt(Tag(b), Row(b), Col(b)) = b
    BY AddressParts
  <2>2. WordAt(Tag(a), Row(a), Col(a)) = a  BY AddressParts
  <2>3. Contents'[b] = ContentsAt(put, below, b) /\ Contents[b] = ContentsAt(lines, below, b)
    BY <1>7, <1>8, ContentsAre
  <2>4. CASE Tag(b) = Tag(a) /\ Row(b) = Row(a)
    <3>1. /\ ContentsAt(put, below, b) = line.words[Col(b)]
          /\ ContentsAt(lines, below, b) = old.words[Col(b)]
      BY <1>1, <1>2, <1>6, <1>9, <2>4, Hit DEF old
    <3>2. Col(b) = Col(a) <=> b = a  BY <2>1, <2>2, <2>4
    <3> QED BY <1>6, <2>1, <2>3, <3>1, <3>2
  <2>5. CASE ~(Tag(b) = Tag(a) /\ Row(b) = Row(a))
    <3>1. \A x \in Ways : put[x][Row(b)].tag = Tag(b) <=> lines[x][Row(b)].tag = Tag(b)
      BY <1>2, <1>6, <1>9, <2>1, <2>5
    <3>2. CASE \E x \in Ways : lines[x][Row(b)].tag = Tag(b)
      <4>1. PICK x \in Ways : lines[x][Row(b)].tag = Tag(b)  BY <3>2
      <4>2. put[x][Row(b)] = lines[x][Row(b)]  BY <1>2, <1>9, <2>1, <2>5, <4>1
      <4>3. ContentsAt(put, below, b) = ContentsAt(lines, below, b)
        BY <1>1, <1>9, <4>1, <4>2, Hit
      <4> QED BY <2>3, <2>5, <4>3
    <3>3. CASE \A x \in Ways : lines[x][Row(b)].tag # Tag(b)
      <4>1. ContentsAt(put, below, b) = ContentsAt(lines, below, b)
        BY <1>1, <1>9, <3>1, <3>3, Miss
      <4> QED BY <2>3, <2>5, <4>1
    <3> QED BY <3>2, <3>3
  <2> QED BY <2>4, <2>5
<1>14. Contents' = [Contents EXCEPT ![a] = v]
  <2>1. Contents = [b \in Address |-> Contents[b]]  BY DEF Contents
  <2>2. Contents' = [b \in Address |-> Contents'[b]]  BY DEF Contents
  <2> QED BY <1>13, <2>1, <2>2
<1> QED BY <1>7, <1>12, <1>14

LEMMA NextInv == Inv /\ [Next]_vars => Inv'
<1> SUFFICES ASSUME Inv, [Next]_vars PROVE Inv'
  OBVIOUS
<1>1. ASSUME NEW a \in Address, ReadHit(a) PROVE Inv'
  BY <1>1, ReadHitStep
<1>2. ASSUME NEW a \in Address, ReadMiss(a) PROVE Inv'
  BY <1>2, ReadMissStep
<1>3. ASSUME NEW a \in Address, NEW v \in Value, WriteHit(a, v) PROVE Inv'
  BY <1>3, WriteHitStep
<1>4. ASSUME NEW a \in Address, NEW v \in Value, WriteMiss(a, v) PROVE Inv'
  BY <1>4, WriteMissStep
<1>5. CASE UNCHANGED vars
  BY <1>5 DEF vars, Inv, Consistent, Ordered
<1> QED BY <1>1, <1>2, <1>3, <1>4, <1>5 DEF Next

\* Whatever is read and written, the variables keep their types.
THEOREM CacheTypeCorrect == Spec => []TypeOK
BY InitInv, NextInv, InvMeans, PTL DEF Spec

\* No address is ever cached in two ways: Cache and AssociativeCache take the
\* first way that hits for the only one.
THEOREM CopiesUnique == Spec => []OneCopy
BY InitInv, NextInv, InvMeans, PTL DEF Spec

\* A line with a tag is valid, and the replacement order accounts for every way
\* that holds lines: Cache::write may hit on the tag alone.
THEOREM LinesAlwaysAccounted == Spec => []LinesAccounted
BY InitInv, NextInv, InvMeans, PTL DEF Spec

LEMMA InitFlat == Init => Abstract!Init
<1> SUFFICES ASSUME Init PROVE Abstract!Init
  OBVIOUS
<1>1. Inv  BY InitInv
<1>2. \A b \in Address : ContentsAt(lines, below, b) \in Value
  BY <1>1, ContentsTyped DEF Inv
<1> QED BY <1>1, <1>2, ContentsAre DEF Inv, Abstract!Init

LEMMA NextFlat == Inv /\ [Next]_vars => [Abstract!Next]_<<Contents, value>>
<1> SUFFICES ASSUME Inv, [Next]_vars PROVE [Abstract!Next]_<<Contents, value>>
  OBVIOUS
<1>1. ASSUME NEW a \in Address, ReadHit(a) \/ ReadMiss(a) PROVE Abstract!Next
  <2>1. Contents' = Contents /\ value' = Contents[a]
    BY <1>1, ReadHitStep, ReadMissStep
  <2> QED BY <2>1 DEF Abstract!Next, Abstract!Read
<1>2. ASSUME NEW a \in Address, NEW v \in Value, WriteHit(a, v) \/ WriteMiss(a, v)
      PROVE  Abstract!Next
  <2>1. Contents' = [Contents EXCEPT ![a] = v] /\ value' = value
    BY <1>2, WriteHitStep, WriteMissStep
  <2> QED BY <2>1 DEF Abstract!Next, Abstract!Write
<1>3. CASE UNCHANGED vars
  <2>1. lines' = lines /\ below' = below /\ value' = value  BY <1>3 DEF vars
  <2>2. Contents' = Contents  BY <2>1, ContentsAre
  <2> QED BY <2>1, <2>2
<1> QED BY <1>1, <1>2, <1>3 DEF Next

\* The cache and the memory below it are one memory, for every number of ways,
\* lines, words and tags: a read returns what was last written to its address,
\* whatever was refilled, replaced and written back in between.
THEOREM CacheIsMemory == Spec => ImplementsFlatMemory
<1>1. Inv /\ [Next]_vars => [Abstract!Next]_<<Contents, value>>  BY NextFlat
<1>2. Spec => []Inv  BY InitInv, NextInv, PTL DEF Spec
<1> QED BY <1>1, <1>2, InitFlat, PTL DEF Spec, ImplementsFlatMemory, Abstract!Spec
=============================================================================
