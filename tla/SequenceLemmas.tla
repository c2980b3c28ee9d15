--------------------------- MODULE SequenceLemmas ---------------------------
(***************************************************************************)
(* Facts about numbers and sequences that the proofs have in common.       *)
(***************************************************************************)
EXTENDS Integers, SequencesExt, Filter, SequenceTheorems, WellFoundedInduction,
        FiniteSetTheorems, TLAPS

LEMMA Smallest ==
    ASSUME NEW S, S \subseteq Nat, S # {}
    PROVE  \E m \in S : \A k \in S : m <= k
<1>1. IsWellFoundedOn(OpToRel(<, Nat), Nat)  BY NatLessThanWellFounded
<1>2. PICK m \in S : \A k \in S : <<k, m>> \notin OpToRel(<, Nat)
  BY <1>1, WFMin
<1>3. \A k \in S : ~(k < m)
  <2> TAKE k \in S
  <2>1. <<k, m>> \in Nat \X Nat  OBVIOUS
  <2>2. <<k, m>> \notin OpToRel(<, Nat)  BY <1>2
  <2> QED BY <2>1, <2>2 DEF OpToRel
<1> QED BY <1>3

LEMMA GreatestOfFinite ==
    ASSUME NEW S \in SUBSET Nat, IsFiniteSet(S), S # {}
    PROVE  \E m \in S : \A k \in S : k <= m
<1> DEFINE Unbounded == {n \in Nat : \E f \in [1..n -> Nat] :
                                        ~\E b \in Nat : \A k \in 1..n : f[k] <= b}
<1>1. Unbounded = {}
  <2> SUFFICES ASSUME Unbounded # {} PROVE FALSE  OBVIOUS
  <2>1. PICK n \in Unbounded : \A k \in Unbounded : n <= k
    <3>1. Unbounded \subseteq Nat  OBVIOUS
    <3> HIDE DEF Unbounded
    <3> QED BY <3>1, Smallest
  <2>2. PICK f \in [1..n -> Nat] : ~\E b \in Nat : \A k \in 1..n : f[k] <= b  OBVIOUS
  <2>3. n \in Nat  OBVIOUS
  <2>4. n # 0
    <3>1. n = 0 => \A k \in 1..n : f[k] <= 0  OBVIOUS
    <3> QED BY <2>2, <3>1
  <2>5. n - 1 \in Nat /\ ~(n <= n - 1)  BY <2>3, <2>4
  <2>6. n - 1 \notin Unbounded  BY <2>1, <2>5
  <2>7. \E b \in Nat : \A k \in 1..(n - 1) : f[k] <= b
    <3> DEFINE g == [k \in 1..(n - 1) |-> f[k]]
    <3>1. \A k \in 1..(n - 1) : k \in 1..n  BY <2>3
    <3>2. g \in [1..(n - 1) -> Nat]  BY <3>1
    <3>3. PICK b \in Nat : \A k \in 1..(n - 1) : g[k] <= b
      <4> HIDE DEF g
      <4> QED BY <2>5, <2>6, <3>2
    <3> QED BY <3>3
  <2>8. PICK b \in Nat : \A k \in 1..(n - 1) : f[k] <= b  BY <2>7
  <2> HIDE DEF Unbounded
  <2>9. n \in 1..n /\ f[n] \in Nat  BY <2>3, <2>4
  <2>10. PICK c \in Nat : c = f[n]  BY <2>9
  <2>11. \A k \in 1..n : f[k] <= b + c
    <3> TAKE k \in 1..n
    <3>1. PICK d \in Nat : d = f[k]  OBVIOUS
    <3>2. CASE k = n  BY <2>10, <3>1, <3>2
    <3>3. CASE k # n
      <4>1. k \in 1..(n - 1)  BY <2>3, <3>3
      <4>2. d <= b  BY <2>8, <3>1, <4>1
      <4> QED BY <3>1, <4>2
    <3> QED BY <3>2, <3>3
  <2>12. b + c \in Nat  OBVIOUS
  <2> QED BY <2>2, <2>11, <2>12
<1>2. PICK f : IsFiniteSet(S) /\ f \in Surjection(1..Cardinality(S), S)
  BY FS_NatSurjection, FS_CardinalityType, FS_NatBijection
     DEF ExistsBijection, Bijection, ExistsSurjection
<1>3. Cardinality(S) \in Nat  BY FS_CardinalityType
<1>4. /\ f \in [1..Cardinality(S) -> S]
      /\ \A k \in S : \E i \in 1..Cardinality(S) : f[i] = k
  BY <1>2 DEF Surjection
<1>5. f \in [1..Cardinality(S) -> Nat]  BY <1>4
<1>6. PICK b \in Nat : \A i \in 1..Cardinality(S) : f[i] <= b
  BY <1>1, <1>3, <1>5
<1>7. \A k \in S : k <= b  BY <1>4, <1>6
<1> DEFINE Below == {b - k : k \in S}
<1>8. Below \subseteq Nat /\ Below # {}
  <2>1. \A k \in S : b - k \in Nat  BY <1>7
  <2> QED BY <2>1
<1>9. PICK d \in Below : \A e \in Below : d <= e
  <2> HIDE DEF Below
  <2> QED BY <1>8, Smallest
<1>10. PICK m \in S : d = b - m  OBVIOUS
<1>11. \A k \in S : k <= m
  <2> TAKE k \in S
  <2>1. b - k \in Below  OBVIOUS
  <2>2. b - m <= b - k /\ m \in Int /\ k \in Int  BY <1>9, <1>10, <2>1
  <2> QED BY <2>2
<1> QED BY <1>11

LEMMA GroupSeq ==
    ASSUME NEW S, NEW n \in Nat, NEW g \in [1..n -> S]
    PROVE  g \in Seq(S) /\ Len(g) = n
<1>1. g \in Seq(S)  BY SeqDef
<1>2. Len(g) \in Nat /\ DOMAIN g = 1..Len(g)  BY <1>1, LenProperties
<1>3. DOMAIN g = 1..n  OBVIOUS
<1> DEFINE m == Len(g)
<1>4. m \in Nat /\ 1..m = 1..n  BY <1>2, <1>3
<1> HIDE DEF m
<1>5. m = n
  <2>1. CASE m < n
    <3>1. n \in 1..n /\ n \notin 1..m  BY <1>4, <2>1
    <3> QED BY <1>4, <3>1
  <2>2. CASE n < m
    <3>1. m \in 1..m /\ m \notin 1..n  BY <1>4, <2>2
    <3> QED BY <1>4, <3>1
  <2> QED BY <1>4, <2>1, <2>2
<1> QED BY <1>1, <1>5 DEF m

LEMMA RemovedAt ==
    ASSUME NEW S, NEW s \in Seq(S), NEW k \in 1..Len(s)
    PROVE  /\ RemoveAt(s, k) \in Seq(S) /\ Len(RemoveAt(s, k)) = Len(s) - 1
           /\ \A j \in 1..(Len(s) - 1) : j < k => RemoveAt(s, k)[j] = s[j]
           /\ \A j \in 1..(Len(s) - 1) : ~(j < k) => RemoveAt(s, k)[j] = s[j + 1]
<1> DEFINE n == Len(s)
           a == SubSeq(s, 1, k - 1)
           b == SubSeq(s, k + 1, n)
           t == a \o b
<1>1. n \in Nat /\ \A j \in 1..n : s[j] \in S  BY LenProperties, ElementOfSeq
<1>2. RemoveAt(s, k) = t  BY DEF RemoveAt
<1>a. k \in 1..n  OBVIOUS
<1> HIDE DEF n
<1>3. a \in Seq(S) /\ Len(a) = k - 1 /\ \A j \in 1..(k - 1) : a[j] = s[j]
  <2>1. 1 \in Int /\ k - 1 \in Int /\ \A j \in 1..(k - 1) : s[j] \in S
    BY <1>1, <1>a
  <2>2. /\ a \in Seq(S) /\ Len(a) = IF 1 <= k - 1 THEN k - 1 - 1 + 1 ELSE 0
        /\ \A j \in 1..(k - 1 - 1 + 1) : a[j] = s[1 + j - 1]
    BY <2>1, SubSeqProperties
  <2> HIDE DEF a
  <2>3. k - 1 - 1 + 1 = k - 1 /\ (~(1 <= k - 1) => k - 1 = 0)  BY <1>1, <1>a
  <2>4. \A j \in 1..(k - 1) : 1 + j - 1 = j  BY <1>1, <1>a
  <2> QED BY <2>2, <2>3, <2>4
<1>4. b \in Seq(S) /\ Len(b) = n - k /\ \A j \in 1..(n - k) : b[j] = s[k + j]
  <2>1. k + 1 \in Int /\ n \in Int /\ \A j \in (k + 1)..n : s[j] \in S
    BY <1>1, <1>a
  <2>2. /\ b \in Seq(S) /\ Len(b) = IF k + 1 <= n THEN n - (k + 1) + 1 ELSE 0
        /\ \A j \in 1..(n - (k + 1) + 1) : b[j] = s[k + 1 + j - 1]
    BY <2>1, SubSeqProperties
  <2> HIDE DEF b
  <2>3. n - (k + 1) + 1 = n - k /\ (~(k + 1 <= n) => n - k = 0)  BY <1>1, <1>a
  <2>4. \A j \in 1..(n - k) : k + 1 + j - 1 = k + j  BY <1>1, <1>a
  <2> QED BY <2>2, <2>3, <2>4
<1> HIDE DEF a, b
<1>5. /\ t \in Seq(S) /\ Len(t) = n - 1
      /\ \A j \in 1..(n - 1) : t[j] = IF j <= k - 1 THEN a[j] ELSE b[j - (k - 1)]
  <2>1. /\ t \in Seq(S) /\ Len(t) = Len(a) + Len(b)
        /\ \A j \in 1..(Len(a) + Len(b)) : t[j] = IF j <= Len(a) THEN a[j] ELSE b[j - Len(a)]
    BY <1>3, <1>4, ConcatProperties
  <2>2. Len(a) + Len(b) = n - 1  BY <1>1, <1>a, <1>3, <1>4
  <2> QED BY <1>3, <2>1, <2>2
<1> HIDE DEF t
<1>6. \A j \in 1..(n - 1) : j < k => t[j] = s[j]
  <2> SUFFICES ASSUME NEW j \in 1..(n - 1), j < k PROVE t[j] = s[j]
    OBVIOUS
  <2>1. j <= k - 1 /\ j \in 1..(k - 1)  BY <1>1, <1>a
  <2> QED BY <1>3, <1>5, <2>1
<1>7. \A j \in 1..(n - 1) : ~(j < k) => t[j] = s[j + 1]
  <2> SUFFICES ASSUME NEW j \in 1..(n - 1), ~(j < k) PROVE t[j] = s[j + 1]
    OBVIOUS
  <2>1. ~(j <= k - 1) /\ j - (k - 1) \in 1..(n - k) /\ k + (j - (k - 1)) = j + 1
    BY <1>1, <1>a
  <2> QED BY <1>4, <1>5, <2>1
<1> QED BY <1>2, <1>5, <1>6, <1>7 DEF n

LEMMA Selected ==
    ASSUME NEW S, NEW s \in Seq(S), NEW T \in SUBSET (1..Len(s)), T # {}
    PROVE  Min(T) \in T /\ \A k \in T : Min(T) <= k
<1>1. T \subseteq Nat
  <2>1. Len(s) \in Nat  BY LenProperties
  <2>2. 1..Len(s) \subseteq Nat
    <3> DEFINE n == Len(s)
    <3>1. n \in Nat  BY <2>1
    <3> HIDE DEF n
    <3>2. 1..n \subseteq Nat  BY <3>1
    <3> QED BY <3>2 DEF n
  <2> QED BY <2>2
<1>2. \E m \in T : \A k \in T : m <= k  BY <1>1, Smallest
<1> QED BY <1>2 DEF Min

-----------------------------------------------------------------------------
(* Recursion *)

\* What holds at a point when it holds at all points of lower rank, holds.
LEMMA RankInduction ==
    ASSUME NEW D, NEW rank \in [D -> Nat], NEW S,
           \A d \in D : (\A e \in D : rank[e] < rank[d] => e \in S) => d \in S
    PROVE  D \subseteq S
<1> DEFINE Bad == {k \in Nat : \E d \in D : d \notin S /\ rank[d] = k}
<1> SUFFICES ASSUME NEW d \in D, d \notin S PROVE FALSE
  OBVIOUS
<1>1. rank[d] \in Bad /\ Bad \subseteq Nat  OBVIOUS
<1>2. PICK k \in Bad : \A j \in Bad : k <= j
  <2> HIDE DEF Bad
  <2> QED BY <1>1, Smallest
<1>3. PICK e \in D : e \notin S /\ rank[e] = k  BY <1>2
<1>4. \A c \in D : rank[c] < rank[e] => c \in S
  <2> SUFFICES ASSUME NEW c \in D, rank[c] < rank[e], c \notin S PROVE FALSE
    OBVIOUS
  <2>1. rank[c] \in Bad /\ rank[c] \in Nat /\ k \in Nat  OBVIOUS
  <2>2. k <= rank[c]  BY <1>2, <2>1
  <2> QED BY <1>3, <2>1, <2>2
<1> QED BY <1>3, <1>4

\* A rule gives a value at each point from the values at points of lower rank.
Ranked(D, V, rule, rank) ==
    \A d \in D : \A f, g \in [D -> V] :
        (\A e \in D : rank[e] < rank[d] => f[e] = g[e]) => rule[<<d, f>>] = rule[<<d, g>>]

Solvable(D, V, rule) ==
    \E f \in [D -> V] : \A d \in D : f[d] = rule[<<d, f>>]

\* The function it gives exists.
LEMMA Recursion ==
    ASSUME NEW D, NEW V, NEW rule \in [D \X [D -> V] -> V], V # {},
           NEW rank \in [D -> Nat], NEW bound \in Nat, \A d \in D : rank[d] < bound,
           Ranked(D, V, rule, rank)
    PROVE  Solvable(D, V, rule)
<1> DEFINE Solves(f, k) == \A d \in D : rank[d] < k => f[d] = rule[<<d, f>>]
           Bad == {k \in Nat : ~\E f \in [D -> V] : Solves(f, k)}
<1>1. Bad = {}
  <2> SUFFICES ASSUME Bad # {} PROVE FALSE
    OBVIOUS
  <2>1. PICK k \in Bad : \A j \in Bad : k <= j
    <3>1. Bad \subseteq Nat  OBVIOUS
    <3> HIDE DEF Bad
    <3> QED BY <3>1, Smallest
  <2>2. k \in Nat /\ ~\E f \in [D -> V] : Solves(f, k)  OBVIOUS
  <2>3. k # 0
    <3>1. PICK v \in V : TRUE  OBVIOUS
    <3> DEFINE f == [d \in D |-> v]
    <3>2. f \in [D -> V] /\ \A d \in D : rank[d] \in Nat  OBVIOUS
    <3>3. Solves(f, 0)  BY <3>2
    <3> QED BY <2>2, <3>2, <3>3
  <2>4. k - 1 \in Nat /\ ~(k <= k - 1)  BY <2>2, <2>3
  <2>5. k - 1 \notin Bad  BY <2>1, <2>4
  <2>6. PICK f \in [D -> V] : Solves(f, k - 1)  BY <2>4, <2>5
  <2> DEFINE g == [d \in D |-> IF rank[d] < k - 1 THEN f[d] ELSE rule[<<d, f>>]]
  <2>7. g \in [D -> V]  OBVIOUS
  <2>8. \A d \in D : rank[d] < k - 1 => g[d] = f[d]  OBVIOUS
  <2>9. \A d \in D : ~(rank[d] < k - 1) => g[d] = rule[<<d, f>>]  OBVIOUS
  <2> HIDE DEF g
  <2>10. Solves(g, k)
    <3> SUFFICES ASSUME NEW d \in D, rank[d] < k PROVE g[d] = rule[<<d, g>>]
      OBVIOUS
    <3>1. \A e \in D : rank[e] < rank[d] => f[e] = g[e]
      <4> TAKE e \in D
      <4>1. rank[d] \in Nat /\ rank[e] \in Nat  OBVIOUS
      <4>2. rank[e] < rank[d] => rank[e] < k - 1  BY <4>1, <2>2
      <4> QED BY <4>2, <2>8
    <3>2. rule[<<d, f>>] = rule[<<d, g>>]  BY <3>1, <2>7 DEF Ranked
    <3>3. g[d] = rule[<<d, f>>]  BY <2>6, <2>8, <2>9
    <3> QED BY <3>2, <3>3
  <2> QED BY <2>2, <2>7, <2>10
<1>2. PICK f \in [D -> V] : Solves(f, bound)
  <2>1. bound \notin Bad  BY <1>1
  <2> HIDE DEF Solves
  <2> QED BY <2>1
<1>3. \A d \in D : f[d] = rule[<<d, f>>]  BY <1>2
<1> QED BY <1>3 DEF Solvable

Stepwise(V, n, base, next) ==
    \E f \in [0..n -> V] :
        \A k \in 0..n : f[k] = IF k = 0 THEN base ELSE next[<<k, f[k - 1]>>]

\* A chain of n steps from a first value exists.
LEMMA StepwiseExists ==
    ASSUME NEW V, NEW n \in Nat, NEW base \in V, NEW next \in [(1..n) \X V -> V]
    PROVE  Stepwise(V, n, base, next)
<1> DEFINE D == 0..n
           W(k, f) == IF k = 0 THEN base ELSE next[<<k, f[k - 1]>>]
           rule == [x \in D \X [D -> V] |-> W(x[1], x[2])]
           rank == [k \in D |-> k]
<1>1. \A k \in D : k # 0 => k - 1 \in D /\ k \in 1..n /\ k - 1 < k  OBVIOUS
<1>2. rank \in [D -> Nat] /\ n + 1 \in Nat /\ \A k \in D : rank[k] = k /\ rank[k] < n + 1
  OBVIOUS
<1>3. \A k \in D, f \in [D -> V] : W(k, f) \in V
  <2> SUFFICES ASSUME NEW k \in D, NEW f \in [D -> V] PROVE W(k, f) \in V
    OBVIOUS
  <2>1. k # 0 => f[k - 1] \in V /\ k \in 1..n  BY <1>1
  <2> QED BY <2>1
<1>4. rule \in [D \X [D -> V] -> V]
      /\ \A k \in D, f \in [D -> V] : rule[<<k, f>>] = W(k, f)
  BY <1>3
<1>5. ASSUME NEW k \in D, NEW f, NEW g,
             \A e \in D : rank[e] < rank[k] => f[e] = g[e]
      PROVE  W(k, f) = W(k, g)
  <2>1. k # 0 => k - 1 \in D /\ rank[k - 1] < rank[k]  BY <1>1, <1>2
  <2>2. k # 0 => f[k - 1] = g[k - 1]
    <3> HIDE DEF rank, D
    <3> QED BY <1>5, <2>1
  <2> QED BY <2>2
<1> HIDE DEF W, rule, rank, D
<1>6. Ranked(D, V, rule, rank)
  <2> SUFFICES ASSUME NEW k \in D, NEW f \in [D -> V], NEW g \in [D -> V],
                      \A e \in D : rank[e] < rank[k] => f[e] = g[e]
               PROVE  rule[<<k, f>>] = rule[<<k, g>>]
    BY DEF Ranked
  <2>1. W(k, f) = W(k, g)  BY <1>5
  <2> QED BY <1>4, <2>1
<1>7. \A k \in D : rank[k] < n + 1  BY <1>2
<1>8. Solvable(D, V, rule)
  <2>1. V # {}  OBVIOUS
  <2>2. PICK bound \in Nat : bound = n + 1  BY <1>2
  <2>3. \A k \in D : rank[k] < bound  BY <1>7, <2>2
  <2> QED BY <1>2, <1>4, <1>6, <2>1, <2>3, Recursion
<1>9. PICK f \in [D -> V] : \A k \in D : f[k] = W(k, f)
  BY <1>4, <1>8 DEF Solvable
<1> QED BY <1>9 DEF W, D, Stepwise

\* What holds at first and after each step holds in the whole chain.
LEMMA Upwards ==
    ASSUME NEW n \in Nat, NEW S, 0 \in S,
           \A k \in 1..n : k - 1 \in S => k \in S
    PROVE  0..n \subseteq S
<1> DEFINE Bad == {k \in 0..n : k \notin S}
<1> SUFFICES ASSUME Bad # {} PROVE FALSE
  OBVIOUS
<1>1. Bad \subseteq Nat  OBVIOUS
<1>2. PICK k \in Bad : \A j \in Bad : k <= j
  <2> HIDE DEF Bad
  <2> QED BY <1>1, Smallest
<1>3. k \in 0..n /\ k \notin S /\ k # 0  OBVIOUS
<1>4. k \in 1..n /\ k - 1 \in 0..n /\ ~(k <= k - 1)  BY <1>3
<1>5. k - 1 \in S  BY <1>2, <1>4
<1> QED BY <1>3, <1>4, <1>5

\* What is kept of a sequence, member by member.
KeptStep(s, T, k, q) == IF s[k] \in T THEN Append(q, s[k]) ELSE q

LEMMA KeptSteps ==
    ASSUME NEW S, NEW s \in Seq(S), NEW T
    PROVE  \E f : /\ f[0] = <<>> /\ Kept(s, T) = f[Len(s)]
                  /\ \A k \in 1..Len(s) : f[k] = KeptStep(s, T, k, f[k - 1])
<1>1. PICK n \in Nat : n = Len(s)  BY LenProperties
<1> DEFINE W(k, f) == IF k = 0 THEN <<>>
                      ELSE IF s[k] \in T THEN Append(f[k - 1], s[k]) ELSE f[k - 1]
           Goes(k, f) == f = [j \in 0..k |-> W(j, f)]
           G == {k \in 0..n : \E f : Goes(k, f)}
<1>2. 0 \in G
  <2> DEFINE f == [j \in 0..0 |-> <<>>]
  <2>1. Goes(0, f)  OBVIOUS
  <2> HIDE DEF Goes, f
  <2> QED BY <2>1
<1>3. ASSUME NEW k \in 1..n, k - 1 \in G PROVE k \in G
  <2>1. PICK f : Goes(k - 1, f)  BY <1>3
  <2> DEFINE g == [j \in 0..k |-> IF j = k THEN W(k, f) ELSE f[j]]
  <2>2. \A j \in 0..k : j # k => j \in 0..(k - 1) /\ (j # 0 => j - 1 \in 0..k /\ j - 1 # k)
    OBVIOUS
  <2>3. k # 0 /\ k - 1 \in 0..k /\ k - 1 # k  OBVIOUS
  <2>4. \A j \in 0..k : g[j] = W(j, g)
    <3> TAKE j \in 0..k
    <3>1. CASE j = k  BY <2>3, <3>1
    <3>2. CASE j # k
      <4>1. g[j] = W(j, f)  BY <2>1, <2>2, <3>2
      <4> QED BY <2>2, <3>2, <4>1
    <3> QED BY <3>1, <3>2
  <2>5. Goes(k, g)
    <3> HIDE DEF W
    <3> QED BY <2>4
  <2> HIDE DEF Goes, g
  <2> QED BY <2>5
<1>4. n \in G
  <2>1. n \in 0..n  OBVIOUS
  <2> HIDE DEF G
  <2>2. 0..n \subseteq G  BY <1>2, <1>3, Upwards
  <2> QED BY <2>1, <2>2
<1> DEFINE h == CHOOSE f : Goes(n, f)
<1>5. Goes(n, h)
  <2>1. \E f : Goes(n, f)  BY <1>4
  <2> HIDE DEF Goes
  <2> QED BY <2>1
<1>6. Kept(s, T) = h[n]  BY <1>1 DEF Kept
<1> HIDE DEF h
<1>7. \A k \in 0..n : h[k] = W(k, h)
  <2> HIDE DEF W
  <2> QED BY <1>5
<1>8. h[0] = <<>> /\ \A k \in 1..n : h[k] = KeptStep(s, T, k, h[k - 1])
  <2>1. 0 \in 0..n /\ \A k \in 1..n : k \in 0..n /\ k # 0  OBVIOUS
  <2> QED BY <1>7, <2>1 DEF KeptStep
<1> QED BY <1>1, <1>6, <1>8

\* The members kept, and that a head that is not kept makes the sequence shorter.
LEMMA KeptOf ==
    ASSUME NEW S, NEW s \in Seq(S), NEW T
    PROVE  /\ Kept(s, T) \in Seq(S \cap T) /\ Len(Kept(s, T)) <= Len(s)
           /\ s # <<>> /\ Head(s) \notin T => Len(Kept(s, T)) < Len(s)
<1>1. PICK n \in Nat : n = Len(s)  BY LenProperties
<1>2. \A k \in 1..n : s[k] \in S  BY <1>1, ElementOfSeq
<1> DEFINE V == Seq(S \cap T)
           Step(k, q) == KeptStep(s, T, k, q)
<1>3. ASSUME NEW k \in 1..n, NEW q \in V
      PROVE  Step(k, q) \in V /\ Len(Step(k, q)) \in Nat
             /\ Len(q) \in Nat /\ Len(Step(k, q)) <= Len(q) + 1
             /\ (s[k] \notin T => Step(k, q) = q)
  <2> USE DEF KeptStep
  <2>1. Len(q) \in Nat  BY LenProperties
  <2>2. CASE s[k] \in T
    <3>1. s[k] \in S \cap T  BY <1>2, <2>2
    <3>2. Append(q, s[k]) \in V /\ Len(Append(q, s[k])) = Len(q) + 1
      BY <3>1, AppendProperties
    <3> QED BY <2>1, <2>2, <3>2
  <2>3. CASE s[k] \notin T  BY <2>1, <2>3
  <2> QED BY <2>2, <2>3
<1>4. <<>> \in V /\ Len(<<>>) = 0  OBVIOUS
<1>5. PICK h : /\ h[0] = <<>> /\ Kept(s, T) = h[Len(s)]
                /\ \A k \in 1..Len(s) : h[k] = KeptStep(s, T, k, h[k - 1])
  BY KeptSteps
<1>6. h[0] = <<>> /\ \A k \in 1..n : h[k] = Step(k, h[k - 1])  BY <1>1, <1>5
<1> HIDE DEF V, Step
<1> DEFINE G == {k \in 0..n : /\ h[k] \in V /\ Len(h[k]) \in Nat /\ Len(h[k]) <= k
                              /\ k # 0 /\ s[1] \notin T => Len(h[k]) < k}
<1>7. 0 \in G  BY <1>4, <1>6
<1>8. ASSUME NEW k \in 1..n, k - 1 \in G PROVE k \in G
  <2>1. PICK q \in V : q = h[k - 1]  BY <1>8
  <2>2. PICK a \in Nat : a = Len(q) /\ a <= k - 1 /\ (k - 1 # 0 /\ s[1] \notin T => a < k - 1)
    BY <1>8, <2>1
  <2>3. h[k] = Step(k, q)  BY <1>6, <2>1
  <2>4. PICK b \in Nat : b = Len(h[k]) /\ b <= a + 1 /\ (s[k] \notin T => b = a)
    BY <1>3, <2>2, <2>3
  <2>5. h[k] \in V  BY <1>3, <2>3
  <2>6. b <= k  BY <2>2, <2>4
  <2>7. s[1] \notin T => b < k
    <3>1. CASE k = 1  BY <2>2, <2>4, <3>1
    <3>2. CASE k # 1  BY <2>2, <2>4, <3>2
    <3> QED BY <3>1, <3>2
  <2> QED BY <2>4, <2>5, <2>6, <2>7
<1>9. n \in G
  <2>1. n \in 0..n  OBVIOUS
  <2> HIDE DEF G
  <2>2. 0..n \subseteq G  BY <1>7, <1>8, Upwards
  <2> QED BY <2>1, <2>2
<1>10. s # <<>> => n # 0 /\ Head(s) = s[1]  BY <1>1, EmptySeq, HeadTailProperties
<1> QED BY <1>1, <1>5, <1>9, <1>10 DEF V

-----------------------------------------------------------------------------
(* The members of a sequence *)

\* A sequence without repetitions.
Distinct(s) == \A j, k \in DOMAIN s : s[j] = s[k] => j = k

LEMMA RangeOf ==
    ASSUME NEW S, NEW s \in Seq(S)
    PROVE  /\ Len(s) \in Nat /\ DOMAIN s = 1..Len(s)
           /\ Range(s) \subseteq S /\ s \in Seq(Range(s))
<1>1. Len(s) \in Nat /\ DOMAIN s = 1..Len(s) /\ s \in [1..Len(s) -> S]
  BY LenProperties
<1>2. Range(s) \subseteq S  BY <1>1 DEF Range
<1>3. s \in [1..Len(s) -> Range(s)]  BY <1>1 DEF Range
<1>4. s \in Seq(Range(s))
  <2>1. PICK n \in Nat : n = Len(s)  BY <1>1
  <2>2. s \in [1..n -> Range(s)]  BY <1>3, <2>1
  <2> QED BY <2>2, SeqDef
<1> QED BY <1>1, <1>2, <1>4

LEMMA SeqWithin ==
    ASSUME NEW S, NEW s \in Seq(S), NEW T, Range(s) \subseteq T
    PROVE  s \in Seq(T)
<1>1. s \in Seq(Range(s))  BY RangeOf
<1>2. PICK n \in Nat : n = Len(s) /\ s \in [1..n -> Range(s)]
  BY <1>1, LenProperties
<1>3. s \in [1..n -> T]  BY <1>2
<1> QED BY <1>3, SeqDef

LEMMA SeqWiden ==
    ASSUME NEW S, NEW T, S \subseteq T
    PROVE  Seq(S) \subseteq Seq(T)
<1> SUFFICES ASSUME NEW s \in Seq(S) PROVE s \in Seq(T)
  OBVIOUS
<1>1. Range(s) \subseteq T  BY RangeOf
<1> QED BY <1>1, SeqWithin

LEMMA FiniteRange ==
    ASSUME NEW S, NEW s \in Seq(S)
    PROVE  IsFiniteSet(Range(s))
<1>1. PICK n \in Nat : n = Len(s) /\ DOMAIN s = 1..n  BY RangeOf
<1>2. IsFiniteSet(1..n)  BY FS_Interval, 1 \in Int, n \in Int
<1>3. s \in Surjection(1..n, Range(s))
  BY <1>1, RangeOf DEF Range, Surjection
<1> QED BY <1>2, <1>3, FS_Surjection

LEMMA Appended ==
    ASSUME NEW S, NEW s \in Seq(S), NEW e \in S
    PROVE  /\ Append(s, e) \in Seq(S) /\ Range(Append(s, e)) = Range(s) \cup {e}
           /\ Distinct(s) /\ e \notin Range(s) => Distinct(Append(s, e))
<1> DEFINE t == Append(s, e)
<1>1. PICK n \in Nat : n = Len(s) /\ DOMAIN s = 1..n  BY RangeOf
<1>2. /\ t \in Seq(S) /\ Len(t) = n + 1 /\ t[n + 1] = e
      /\ \A k \in 1..n : t[k] = s[k]
  BY <1>1, AppendProperties
<1>3. DOMAIN t = 1..(n + 1)  BY <1>2, LenProperties
<1> HIDE DEF t
<1>4. \A k \in 1..(n + 1) : k \in 1..n \/ k = n + 1  OBVIOUS
<1>5. \A k \in 1..n : k \in 1..(n + 1)  OBVIOUS
<1>6. n + 1 \in 1..(n + 1)  OBVIOUS
<1>7. Range(t) = Range(s) \cup {e}
  <2>1. Range(t) \subseteq Range(s) \cup {e}  BY <1>1, <1>2, <1>3, <1>4 DEF Range
  <2>2. Range(s) \cup {e} \subseteq Range(t)  BY <1>1, <1>2, <1>3, <1>5, <1>6 DEF Range
  <2> QED BY <2>1, <2>2
<1>8. ASSUME Distinct(s), e \notin Range(s) PROVE Distinct(t)
  <2> SUFFICES ASSUME NEW j \in 1..(n + 1), NEW k \in 1..(n + 1), t[j] = t[k] PROVE j = k
    BY <1>3 DEF Distinct
  <2>1. \A i \in 1..n : t[i] \in Range(s)  BY <1>1, <1>2 DEF Range
  <2>2. CASE j \in 1..n /\ k \in 1..n  BY <1>1, <1>2, <1>8, <2>2 DEF Distinct
  <2>3. CASE j = n + 1 /\ k \in 1..n  BY <1>2, <1>8, <2>1, <2>3
  <2>4. CASE k = n + 1 /\ j \in 1..n  BY <1>2, <1>8, <2>1, <2>4
  <2>5. CASE j = n + 1 /\ k = n + 1  BY <2>5
  <2> QED BY <1>4, <2>2, <2>3, <2>4, <2>5
<1> QED BY <1>2, <1>7, <1>8 DEF t

LEMMA Concatenated ==
    ASSUME NEW S, NEW s \in Seq(S), NEW u \in Seq(S)
    PROVE  /\ s \o u \in Seq(S) /\ Range(s \o u) = Range(s) \cup Range(u)
           /\ Distinct(s) /\ Distinct(u) /\ Range(s) \cap Range(u) = {} => Distinct(s \o u)
<1> DEFINE t == s \o u
<1>1. PICK n \in Nat : n = Len(s) /\ DOMAIN s = 1..n  BY RangeOf
<1>2. PICK m \in Nat : m = Len(u) /\ DOMAIN u = 1..m  BY RangeOf
<1>3. /\ t \in Seq(S) /\ Len(t) = n + m
      /\ \A k \in 1..(n + m) : t[k] = IF k <= n THEN s[k] ELSE u[k - n]
  BY <1>1, <1>2, ConcatProperties
<1>4. DOMAIN t = 1..(n + m)  BY <1>3, LenProperties
<1> HIDE DEF t
<1>5. \A k \in 1..(n + m) : \/ k \in 1..n /\ t[k] = s[k] /\ t[k] \in Range(s)
                            \/ k - n \in 1..m /\ ~(k <= n) /\ t[k] = u[k - n] /\ t[k] \in Range(u)
  <2> TAKE k \in 1..(n + m)
  <2>1. CASE k <= n
    <3>1. k \in 1..n  BY <2>1
    <3> QED BY <1>1, <1>3, <2>1, <3>1 DEF Range
  <2>2. CASE ~(k <= n)
    <3>1. k - n \in 1..m  BY <2>2
    <3> QED BY <1>2, <1>3, <2>2, <3>1 DEF Range
  <2> QED BY <2>1, <2>2
<1>6. Range(t) = Range(s) \cup Range(u)
  <2>1. Range(t) \subseteq Range(s) \cup Range(u)  BY <1>4, <1>5 DEF Range
  <2>2. \A k \in 1..n : k \in 1..(n + m) /\ s[k] = t[k]
    <3> TAKE k \in 1..n
    <3>1. k \in 1..(n + m) /\ k <= n  OBVIOUS
    <3> QED BY <1>3, <3>1
  <2>3. \A k \in 1..m : k + n \in 1..(n + m) /\ u[k] = t[k + n]
    <3> TAKE k \in 1..m
    <3>1. k + n \in 1..(n + m) /\ ~(k + n <= n) /\ k + n - n = k  OBVIOUS
    <3> QED BY <1>3, <3>1
  <2>4. Range(s) \subseteq Range(t)  BY <1>1, <1>4, <2>2 DEF Range
  <2>5. Range(u) \subseteq Range(t)  BY <1>2, <1>4, <2>3 DEF Range
  <2> QED BY <2>1, <2>4, <2>5
<1>7. ASSUME Distinct(s), Distinct(u), Range(s) \cap Range(u) = {} PROVE Distinct(t)
  <2> SUFFICES ASSUME NEW j \in 1..(n + m), NEW k \in 1..(n + m), t[j] = t[k] PROVE j = k
    BY <1>4 DEF Distinct
  <2>1. CASE j \in 1..n /\ t[j] = s[j] /\ k \in 1..n /\ t[k] = s[k]
    BY <1>1, <1>7, <2>1 DEF Distinct
  <2>2. CASE j - n \in 1..m /\ t[j] = u[j - n] /\ k - n \in 1..m /\ t[k] = u[k - n]
    <3>1. j - n = k - n  BY <1>2, <1>7, <2>2 DEF Distinct
    <3> QED BY <3>1
  <2>3. t[j] \notin Range(s) \/ t[k] \notin Range(u)  BY <1>7
  <2>4. t[k] \notin Range(s) \/ t[j] \notin Range(u)  BY <1>7
  <2> QED BY <1>5, <2>1, <2>2, <2>3, <2>4
<1> QED BY <1>3, <1>6, <1>7 DEF t

\* A stack and what is on top of it.
LEMMA Popped ==
    ASSUME NEW S, NEW s \in Seq(S), s # <<>>, Distinct(s)
    PROVE  /\ Last(s) \in Range(s) /\ Front(s) \in Seq(S) /\ Distinct(Front(s))
           /\ Range(Front(s)) = Range(s) \ {Last(s)} /\ (Len(s) > 1 <=> Front(s) # <<>>)
<1> DEFINE t == Front(s)
<1>1. PICK n \in Nat : n = Len(s) /\ DOMAIN s = 1..n /\ n # 0 /\ \A k \in 1..n : s[k] \in S
  BY RangeOf, EmptySeq, ElementOfSeq
<1>2. t \in Seq(S) /\ Len(t) = n - 1 /\ \A k \in 1..(n - 1) : t[k] = s[k]
  <2>1. 1 \in Int /\ n - 1 \in Int /\ \A k \in 1..(n - 1) : s[k] \in S
    <3>1. \A k \in 1..(n - 1) : k \in 1..n  OBVIOUS
    <3> QED BY <1>1, <3>1
  <2>2. /\ t \in Seq(S) /\ Len(t) = IF 1 <= n - 1 THEN n - 1 - 1 + 1 ELSE 0
        /\ \A k \in 1..(n - 1 - 1 + 1) : t[k] = s[1 + k - 1]
    BY <1>1, <2>1, SubSeqProperties DEF Front
  <2> HIDE DEF t
  <2>3. n - 1 - 1 + 1 = n - 1 /\ (~(1 <= n - 1) => n - 1 = 0)  BY <1>1
  <2>4. \A k \in 1..(n - 1) : 1 + k - 1 = k  OBVIOUS
  <2> QED BY <2>2, <2>3, <2>4
<1>3. DOMAIN t = 1..(n - 1)  BY <1>2, LenProperties
<1>4. Last(s) = s[n]  BY <1>1 DEF Last
<1> HIDE DEF t
<1>5. n \in 1..n /\ \A k \in 1..(n - 1) : k \in 1..n /\ k # n  BY <1>1
<1>6. \A k \in 1..n : k = n \/ k \in 1..(n - 1)  BY <1>1
<1>7. Last(s) \in Range(s)  BY <1>1, <1>4, <1>5 DEF Range
<1>8. Range(t) = Range(s) \ {Last(s)}
  <2>1. \A k \in 1..(n - 1) : s[k] # s[n]  BY <1>1, <1>5 DEF Distinct
  <2>2. Range(t) \subseteq Range(s) \ {Last(s)}
    BY <1>1, <1>2, <1>3, <1>4, <1>5, <2>1 DEF Range
  <2>3. Range(s) \ {Last(s)} \subseteq Range(t)
    BY <1>1, <1>2, <1>3, <1>4, <1>6 DEF Range
  <2> QED BY <2>2, <2>3
<1>9. Distinct(t)  BY <1>1, <1>2, <1>3, <1>5 DEF Distinct
<1>10. Len(s) > 1 <=> t # <<>>
  <2>1. t # <<>> <=> n - 1 # 0  BY <1>2, EmptySeq
  <2> QED BY <1>1, <2>1
<1> QED BY <1>2, <1>7, <1>8, <1>9, <1>10 DEF t

\* One more member at a place of a sequence.
LEMMA Inserted ==
    ASSUME NEW S, NEW s \in Seq(S), NEW e \in S, NEW k \in 1..(Len(s) + 1)
    PROVE  InsertAt(s, k, e) \in Seq(S) /\ Range(InsertAt(s, k, e)) = Range(s) \cup {e}
<1>1. PICK n \in Nat : n = Len(s) /\ DOMAIN s = 1..n /\ k \in 1..(n + 1)
                       /\ \A j \in 1..n : s[j] \in S
  BY RangeOf, ElementOfSeq
<1> DEFINE a == SubSeq(s, 1, k - 1)
           b == SubSeq(s, k, n)
<1>2. a \in Seq(S) /\ Len(a) = k - 1 /\ \A j \in 1..(k - 1) : a[j] = s[j]
  <2>1. 1 \in Int /\ k - 1 \in Int /\ \A j \in 1..(k - 1) : s[j] \in S
    <3>1. \A j \in 1..(k - 1) : j \in 1..n  BY <1>1
    <3> QED BY <1>1, <3>1
  <2>2. /\ a \in Seq(S) /\ Len(a) = IF 1 <= k - 1 THEN k - 1 - 1 + 1 ELSE 0
        /\ \A j \in 1..(k - 1 - 1 + 1) : a[j] = s[1 + j - 1]
    BY <2>1, SubSeqProperties
  <2> HIDE DEF a
  <2>3. k - 1 - 1 + 1 = k - 1 /\ (~(1 <= k - 1) => k - 1 = 0)  BY <1>1
  <2>4. \A j \in 1..(k - 1) : 1 + j - 1 = j  BY <1>1
  <2> QED BY <2>2, <2>3, <2>4
<1>3. b \in Seq(S) /\ Len(b) = n + 1 - k /\ \A j \in 1..(n + 1 - k) : b[j] = s[k + j - 1]
  <2>1. k \in Int /\ n \in Int /\ \A j \in k..n : s[j] \in S
    <3>1. \A j \in k..n : j \in 1..n  BY <1>1
    <3> QED BY <1>1, <3>1
  <2>2. /\ b \in Seq(S) /\ Len(b) = IF k <= n THEN n - k + 1 ELSE 0
        /\ \A j \in 1..(n - k + 1) : b[j] = s[k + j - 1]
    BY <2>1, SubSeqProperties
  <2> HIDE DEF b
  <2>3. n - k + 1 = n + 1 - k /\ (~(k <= n) => n + 1 - k = 0)  BY <1>1
  <2> QED BY <2>2, <2>3
<1> DEFINE u == <<e>>
           au == a \o u
<1>4. InsertAt(s, k, e) = au \o b  BY <1>1 DEF InsertAt
<1>5. u \in Seq(S) /\ Range(u) = {e}
  <2>1. Range(u) = {e}  BY DEF Range
  <2> QED BY <2>1
<1> HIDE DEF a, b, u
<1>6. au \in Seq(S) /\ Range(au) = Range(a) \cup Range(u)
  BY <1>2, <1>5, Concatenated
<1> HIDE DEF au
<1>7. au \o b \in Seq(S) /\ Range(au \o b) = Range(au) \cup Range(b)
  BY <1>3, <1>6, Concatenated
<1>8. Range(a) \cup Range(b) = Range(s)
  <2>1. DOMAIN a = 1..(k - 1) /\ DOMAIN b = 1..(n + 1 - k)  BY <1>2, <1>3, LenProperties
  <2>2. \A j \in 1..(k - 1) : j \in 1..n  BY <1>1
  <2>3. \A j \in 1..(n + 1 - k) : k + j - 1 \in 1..n  BY <1>1
  <2>4. Range(a) \subseteq Range(s)  BY <1>1, <1>2, <2>1, <2>2 DEF Range
  <2>7. Range(b) \subseteq Range(s)  BY <1>1, <1>3, <2>1, <2>3 DEF Range
  <2>5. \A j \in 1..n : s[j] \in Range(a) \cup Range(b)
    <3> TAKE j \in 1..n
    <3>1. CASE j < k
      <4>1. j \in 1..(k - 1)  BY <1>1, <3>1
      <4> QED BY <1>2, <2>1, <4>1 DEF Range
    <3>2. CASE ~(j < k)
      <4>1. j + 1 - k \in 1..(n + 1 - k) /\ k + (j + 1 - k) - 1 = j  BY <1>1, <3>2
      <4>2. b[j + 1 - k] = s[j]  BY <1>3, <4>1
      <4> QED BY <2>1, <4>1, <4>2 DEF Range
    <3> QED BY <3>1, <3>2
  <2>6. Range(s) \subseteq Range(a) \cup Range(b)  BY <1>1, <2>5 DEF Range
  <2> QED BY <2>4, <2>6, <2>7
<1> QED BY <1>4, <1>5, <1>6, <1>7, <1>8

LEMMA KeptMembers ==
    ASSUME NEW S, NEW s \in Seq(S), NEW T
    PROVE  /\ Kept(s, T) \in Seq(S) /\ Range(Kept(s, T)) = Range(s) \cap T
           /\ Distinct(s) => Distinct(Kept(s, T))
<1>1. PICK n \in Nat : n = Len(s) /\ DOMAIN s = 1..n /\ \A k \in 1..n : s[k] \in S
  BY RangeOf, ElementOfSeq
<1>2. PICK h : /\ h[0] = <<>> /\ Kept(s, T) = h[n]
               /\ \A k \in 1..n : h[k] = KeptStep(s, T, k, h[k - 1])
  BY <1>1, KeptSteps
<1> DEFINE Before(k) == {s[j] : j \in 1..k}
           G == {k \in 0..n : /\ h[k] \in Seq(S) /\ Range(h[k]) = Before(k) \cap T
                              /\ Distinct(s) => Distinct(h[k])}
<1>3. 0 \in G
  <2>1. <<>> \in Seq(S) /\ Range(<<>>) = {} /\ Distinct(<<>>)  BY DEF Range, Distinct
  <2>2. Before(0) = {} /\ 0 \in 0..n  OBVIOUS
  <2> HIDE DEF Before
  <2> QED BY <1>2, <2>1, <2>2
<1>4. ASSUME NEW k \in 1..n, k - 1 \in G PROVE k \in G
  <2>1. Before(k) = Before(k - 1) \cup {s[k]}
    <3>1. \A j \in 1..k : j = k \/ j \in 1..(k - 1)  OBVIOUS
    <3>2. k \in 1..k /\ \A j \in 1..(k - 1) : j \in 1..k  OBVIOUS
    <3> QED BY <3>1, <3>2
  <2>2. Distinct(s) => s[k] \notin Before(k - 1)
    <3>1. \A j \in 1..(k - 1) : j \in 1..n /\ j # k  OBVIOUS
    <3> QED BY <1>1, <3>1 DEF Distinct
  <2> HIDE DEF Before
  <2>3. PICK q \in Seq(S) : /\ q = h[k - 1] /\ Range(q) = Before(k - 1) \cap T
                            /\ Distinct(s) => Distinct(q)
    BY <1>4
  <2>4. h[k] = KeptStep(s, T, k, q) /\ k \in 0..n  BY <1>2, <2>3
  <2>5. CASE s[k] \in T
    <3>1. h[k] = Append(q, s[k])  BY <2>4, <2>5 DEF KeptStep
    <3>2. /\ h[k] \in Seq(S) /\ Range(h[k]) = Range(q) \cup {s[k]}
          /\ Distinct(q) /\ s[k] \notin Range(q) => Distinct(h[k])
      BY <1>1, <3>1, Appended
    <3> QED BY <2>1, <2>2, <2>3, <2>4, <2>5, <3>2
  <2>6. CASE s[k] \notin T
    <3>1. h[k] = q  BY <2>4, <2>6 DEF KeptStep
    <3> QED BY <2>1, <2>3, <2>4, <2>6, <3>1
  <2> QED BY <2>5, <2>6
<1>5. n \in G
  <2>1. n \in 0..n  OBVIOUS
  <2> HIDE DEF G
  <2>2. 0..n \subseteq G  BY <1>3, <1>4, Upwards
  <2> QED BY <2>1, <2>2
<1>6. Range(s) = Before(n)  BY <1>1 DEF Range
<1> QED BY <1>2, <1>5, <1>6

\* The places of a sequence with one more member.
LEMMA InsertedPlaces ==
    ASSUME NEW S, NEW s \in Seq(S), NEW e \in S, NEW k \in 1..(Len(s) + 1)
    PROVE  /\ Len(InsertAt(s, k, e)) = Len(s) + 1 /\ InsertAt(s, k, e)[k] = e
           /\ \A j \in 1..(k - 1) : InsertAt(s, k, e)[j] = s[j]
           /\ \A j \in k..Len(s) : InsertAt(s, k, e)[j + 1] = s[j]
<1>1. PICK n \in Nat : n = Len(s) /\ DOMAIN s = 1..n /\ k \in 1..(n + 1)
                       /\ \A j \in 1..n : s[j] \in S
  BY RangeOf, ElementOfSeq
<1> DEFINE a == SubSeq(s, 1, k - 1)
           b == SubSeq(s, k, n)
<1>2. a \in Seq(S) /\ Len(a) = k - 1 /\ \A j \in 1..(k - 1) : a[j] = s[j]
  <2>1. 1 \in Int /\ k - 1 \in Int /\ \A j \in 1..(k - 1) : s[j] \in S
    <3>1. \A j \in 1..(k - 1) : j \in 1..n  BY <1>1
    <3> QED BY <1>1, <3>1
  <2>2. /\ a \in Seq(S) /\ Len(a) = IF 1 <= k - 1 THEN k - 1 - 1 + 1 ELSE 0
        /\ \A j \in 1..(k - 1 - 1 + 1) : a[j] = s[1 + j - 1]
    BY <2>1, SubSeqProperties
  <2> HIDE DEF a
  <2>3. k - 1 - 1 + 1 = k - 1 /\ (~(1 <= k - 1) => k - 1 = 0)  BY <1>1
  <2>4. \A j \in 1..(k - 1) : 1 + j - 1 = j  BY <1>1
  <2> QED BY <2>2, <2>3, <2>4
<1>3. b \in Seq(S) /\ Len(b) = n + 1 - k /\ \A j \in 1..(n + 1 - k) : b[j] = s[k + j - 1]
  <2>1. k \in Int /\ n \in Int /\ \A j \in k..n : s[j] \in S
    <3>1. \A j \in k..n : j \in 1..n  BY <1>1
    <3> QED BY <1>1, <3>1
  <2>2. /\ b \in Seq(S) /\ Len(b) = IF k <= n THEN n - k + 1 ELSE 0
        /\ \A j \in 1..(n - k + 1) : b[j] = s[k + j - 1]
    BY <2>1, SubSeqProperties
  <2> HIDE DEF b
  <2>3. n - k + 1 = n + 1 - k /\ (~(k <= n) => n + 1 - k = 0)  BY <1>1
  <2> QED BY <2>2, <2>3
<1> DEFINE u == <<e>>
           au == a \o u
           t == au \o b
<1>4. InsertAt(s, k, e) = t  BY <1>1 DEF InsertAt
<1>5. u \in Seq(S) /\ Len(u) = 1 /\ u[1] = e  OBVIOUS
<1> HIDE DEF a, b, u
<1>6. /\ au \in Seq(S) /\ Len(au) = k /\ au[k] = e
      /\ \A j \in 1..(k - 1) : au[j] = s[j]
  <2>1. /\ au \in Seq(S) /\ Len(au) = Len(a) + Len(u)
        /\ \A j \in 1..(Len(a) + Len(u)) : au[j] = IF j <= Len(a) THEN a[j] ELSE u[j - Len(a)]
    BY <1>2, <1>5, ConcatProperties
  <2> HIDE DEF au
  <2>2. k - 1 + 1 = k /\ k \in 1..k /\ ~(k <= k - 1) /\ k - (k - 1) = 1  BY <1>1
  <2>3. \A j \in 1..(k - 1) : j \in 1..k /\ j <= k - 1  BY <1>1
  <2>4. Len(au) = k /\ \A j \in 1..k : au[j] = IF j <= k - 1 THEN a[j] ELSE u[j - (k - 1)]
    BY <1>2, <1>5, <2>1, <2>2
  <2>5. au[k] = e  BY <1>5, <2>2, <2>4
  <2>6. \A j \in 1..(k - 1) : au[j] = s[j]  BY <1>2, <2>3, <2>4
  <2> QED BY <2>1, <2>4, <2>5, <2>6
<1> HIDE DEF au
<1>7. /\ Len(t) = k + (n + 1 - k)
      /\ \A j \in 1..(k + (n + 1 - k)) : t[j] = IF j <= k THEN au[j] ELSE b[j - k]
  <2>1. /\ Len(t) = Len(au) + Len(b)
        /\ \A j \in 1..(Len(au) + Len(b)) : t[j] = IF j <= Len(au) THEN au[j] ELSE b[j - Len(au)]
    BY <1>3, <1>6, ConcatProperties
  <2> HIDE DEF t
  <2> QED BY <1>3, <1>6, <2>1
<1> HIDE DEF t
<1>8. k + (n + 1 - k) = n + 1  BY <1>1
<1>9. t[k] = e
  <2>1. k \in 1..(n + 1) /\ k <= k  BY <1>1
  <2>2. t[k] = au[k]  BY <1>7, <1>8, <2>1
  <2> QED BY <1>6, <2>2
<1>10. ASSUME NEW j \in 1..(k - 1) PROVE t[j] = s[j]
  <2>1. j \in 1..(n + 1) /\ j <= k  BY <1>1
  <2> QED BY <1>6, <1>7, <1>8, <2>1
<1>11. ASSUME NEW j \in k..n PROVE t[j + 1] = s[j]
  <2>1. /\ j + 1 \in 1..(n + 1) /\ ~(j + 1 <= k) /\ j + 1 - k \in 1..(n + 1 - k)
        /\ k + (j + 1 - k) - 1 = j
    BY <1>1
  <2>2. t[j + 1] = b[j + 1 - k]  BY <1>7, <1>8, <2>1
  <2> QED BY <1>3, <2>1, <2>2
<1> QED BY <1>1, <1>4, <1>7, <1>8, <1>9, <1>10, <1>11
=============================================================================
