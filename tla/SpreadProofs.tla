---------------------------- MODULE SpreadProofs ----------------------------
(***************************************************************************)
(* The spreading of instructions, for every machine and every routine: the *)
(* assertion of the conflict loop holds, no unit is claimed by more        *)
(* operations than it takes when the routine has been spread, and          *)
(* registers and memory are accessed in the order of the program.          *)
(***************************************************************************)
EXTENDS Spread, SequenceLemmas, FiniteSetTheorems, TLAPS

-----------------------------------------------------------------------------
(* Greatest and least numbers. *)

LEMMA Greatest ==
    ASSUME NEW S \in SUBSET Int, S # {}, NEW B \in Int, \A k \in S : k <= B
    PROVE  Max(S) \in S /\ \A k \in S : Max(S) >= k
<1> DEFINE D == {B - k : k \in S}
<1>1. D \subseteq Nat /\ D # {}
  <2>1. \A k \in S : B - k \in Nat  OBVIOUS
  <2> QED BY <2>1
<1>2. PICK d \in D : \A k \in D : d <= k
  <2> HIDE DEF D
  <2> QED BY <1>1, Smallest
<1>3. PICK m \in S : d = B - m  OBVIOUS
<1>4. \A k \in S : m >= k
  <2> TAKE k \in S
  <2>1. B - k \in D  OBVIOUS
  <2>2. B - m <= B - k /\ m \in Int /\ k \in Int  BY <1>2, <1>3, <2>1
  <2> QED BY <2>2
<1> QED BY <1>4 DEF Max

\* The greatest of 0 and numbers up to B.
LEMMA MaxUpTo ==
    ASSUME NEW B \in Nat, NEW S, \A k \in S : k \in Int /\ k <= B
    PROVE  Max({0} \union S) \in 0..B
<1> DEFINE T == {0} \union S
<1>1. T \in SUBSET Int /\ T # {} /\ 0 \in T /\ \A k \in T : k <= B  OBVIOUS
<1> HIDE DEF T
<1>2. Max(T) \in T /\ \A k \in T : Max(T) >= k  BY <1>1, Greatest
<1>3. Max(T) \in Int /\ Max(T) >= 0 /\ Max(T) <= B  BY <1>1, <1>2
<1> QED BY <1>3 DEF T

LEMMA MaxOfTwo ==
    ASSUME NEW B \in Nat, NEW a \in Int, a <= B
    PROVE  Max({0, a}) \in 0..B
<1>1. {0, a} = {0} \union {a}  OBVIOUS
<1>2. \A k \in {a} : k \in Int /\ k <= B  OBVIOUS
<1> QED BY <1>1, <1>2, MaxUpTo

-----------------------------------------------------------------------------
(* The cycles the pass counts are between 0 and the length of the pipeline. *)

Typed == ops \in [Op -> Operation]

LEMMA Times ==
    ASSUME Typed, NEW o \in Op
    PROVE  /\ ops[o].class \in Class
           /\ WriteTime[ops[o].class] \in Stage /\ ReadTime[ops[o].class] \in Stage
           /\ MemoryTime[ops[o].class] \in Stage
           /\ Deq[ops[o].class] \in Stage \union {-1}
           /\ Enq[ops[o].class] \in Stage \union {-1}
BY SpreadAssumption DEF Typed, Operation

LEMMA FlowCycles ==
    ASSUME Typed, NEW o1 \in Op, NEW o2 \in Op
    PROVE  NrFlowDepCycles(o1, o2) \in 0..PIPELENGTH
<1> DEFINE stages == WriteTime[ops[o1].class] - ReadTime[ops[o2].class]
           T == {Max({0, stages})} \union FeedbackLatencies(o1, o2)
<1>0. PIPELENGTH \in Nat  BY SpreadAssumption
<1>1. stages \in Int /\ stages <= PIPELENGTH  BY Times, <1>0 DEF Stage
<1>2. Max({0, stages}) \in 0..PIPELENGTH
  <2> HIDE DEF stages
  <2> QED BY <1>0, <1>1, MaxOfTwo
<1>3. FeedbackLatencies(o1, o2) \subseteq 0..PIPELENGTH
  <2>1. /\ Deq[ops[o1].class] \in -1..(PIPELENGTH - 1)
        /\ Enq[ops[o2].class] \in -1..(PIPELENGTH - 1)
    BY Times, <1>0 DEF Stage
  <2>2. \A d, e \in 0..(PIPELENGTH - 1) : Distance(d - e) \in 0..PIPELENGTH
    BY <1>0 DEF Distance
  <2> QED BY <1>0, <2>1, <2>2 DEF FeedbackLatencies
<1>4. T \subseteq 0..PIPELENGTH /\ T # {}  BY <1>2, <1>3
<1>5. Min(T) \in T
  <2> HIDE DEF T
  <2>1. \E m \in T : \A k \in T : m <= k
    <3>1. T \subseteq Nat  BY <1>0, <1>4
    <3> QED BY <1>4, <3>1, Smallest
  <2> QED BY <2>1 DEF Min
<1>6. NrFlowDepCycles(o1, o2) \in {0, Min(T)}  BY DEF NrFlowDepCycles
<1> HIDE DEF T
<1>7. Min(T) \in 0..PIPELENGTH  BY <1>4, <1>5
<1>8. 0 \in 0..PIPELENGTH  BY <1>0
<1> QED BY <1>6, <1>7, <1>8

LEMMA OutputAntiCycles ==
    ASSUME Typed, NEW o1 \in Op, NEW o2 \in Op
    PROVE  NrOutputAntiDepCycles(o1, o2) \in 0..PIPELENGTH
<1>0. PIPELENGTH \in Nat /\ PIPELENGTH >= 1  BY SpreadAssumption
<1>1. \A a \in Int : a <= PIPELENGTH => Max({1, a}) \in 0..PIPELENGTH
  <2> SUFFICES ASSUME NEW a \in Int, a <= PIPELENGTH PROVE Max({1, a}) \in 0..PIPELENGTH
    OBVIOUS
  <2> DEFINE T == {1, a}
  <2>1. T \in SUBSET Int /\ T # {} /\ 1 \in T /\ \A k \in T : k <= PIPELENGTH  BY <1>0
  <2> HIDE DEF T
  <2>2. Max(T) \in T /\ \A k \in T : Max(T) >= k  BY <1>0, <2>1, Greatest
  <2>3. Max(T) \in Int /\ Max(T) >= 1 /\ Max(T) <= PIPELENGTH  BY <2>1, <2>2
  <2> QED BY <2>3 DEF T
<1> DEFINE out == WriteTime[ops[o1].class] - WriteTime[ops[o2].class]
           ant == ReadTime[ops[o1].class] - WriteTime[ops[o2].class]
           output == IF EqualRegs(ops[o1].dest, ops[o2].dest) THEN Max({1, out}) ELSE 0
           anti == IF EqualRegs(ops[o1].src, ops[o2].dest) THEN Max({1, ant}) ELSE 0
<1>2. out \in Int /\ out <= PIPELENGTH /\ ant \in Int /\ ant <= PIPELENGTH
  BY Times, <1>0 DEF Stage
<1>3. NrOutputAntiDepCycles(o1, o2) = Max({output, anti})
  BY DEF NrOutputAntiDepCycles
<1> HIDE DEF out, ant
<1>4. output \in 0..PIPELENGTH /\ anti \in 0..PIPELENGTH  BY <1>0, <1>1, <1>2
<1> HIDE DEF output, anti
<1> DEFINE T == {output, anti}
<1>5. T \in SUBSET Int /\ T # {} /\ \A k \in T : k <= PIPELENGTH /\ k \in 0..PIPELENGTH
  BY <1>0, <1>4
<1> HIDE DEF T
<1>6. Max(T) \in T  BY <1>0, <1>5, Greatest
<1> QED BY <1>3, <1>5, <1>6 DEF T

LEMMA MemoryCycles ==
    ASSUME Typed, NEW o1 \in Op, NEW o2 \in Op
    PROVE  NrMemoryDepCycles(o1, o2) \in 0..PIPELENGTH
<1> DEFINE a == MemoryTime[ops[o1].class] - MemoryTime[ops[o2].class]
<1>0. PIPELENGTH \in Nat  BY SpreadAssumption
<1>1. a \in Int /\ a <= PIPELENGTH  BY Times, <1>0 DEF Stage
<1>2. NrMemoryDepCycles(o1, o2) \in {0, Max({0, a})}  BY DEF NrMemoryDepCycles
<1> HIDE DEF a
<1>3. Max({0, a}) \in 0..PIPELENGTH  BY <1>0, <1>1, MaxOfTwo
<1> QED BY <1>0, <1>2, <1>3

LEMMA DepCycles ==
    ASSUME Typed, NEW o1 \in Op, NEW o2 \in Op
    PROVE  ComputeNrDepCycles(o1, o2) \in 0..(PIPELENGTH + 1)
<1> DEFINE T == {NrFlowDepCycles(o1, o2), NrOutputAntiDepCycles(o1, o2),
                 NrMemoryDepCycles(o1, o2)}
<1>0. PIPELENGTH \in Nat  BY SpreadAssumption
<1>1. T \subseteq 0..PIPELENGTH /\ T # {}
  BY FlowCycles, OutputAntiCycles, MemoryCycles
<1>2. ComputeNrDepCycles(o1, o2) = Max(T) + (IF WriteThrough THEN 0 ELSE 1)
  BY DEF ComputeNrDepCycles, NrDepCycles
<1> HIDE DEF T
<1>3. T \in SUBSET Int /\ \A k \in T : k <= PIPELENGTH  BY <1>0, <1>1
<1>4. Max(T) \in T  BY <1>0, <1>1, <1>3, Greatest
<1>5. Max(T) \in 0..PIPELENGTH  BY <1>1, <1>4
<1>6. (IF WriteThrough THEN 0 ELSE 1) \in 0..1  OBVIOUS
<1> QED BY <1>0, <1>2, <1>5, <1>6

LEMMA Cycles ==
    ASSUME Typed, NEW i1 \in SUBSET Op, NEW i2 \in SUBSET Op
    PROVE  NrCycles(i1, i2) \in 0..(PIPELENGTH + 1)
<1> DEFINE S == {ComputeNrDepCycles(o1, o2) : o1 \in i1, o2 \in i2}
<1>0. PIPELENGTH + 1 \in Nat  BY SpreadAssumption
<1>1. \A k \in S : k \in 0..(PIPELENGTH + 1)  BY DepCycles
<1> HIDE DEF S
<1>2. Max({0} \union S) \in 0..(PIPELENGTH + 1)  BY <1>0, <1>1, MaxUpTo
<1> QED BY <1>2 DEF NrCycles, S

-----------------------------------------------------------------------------
(* Empty instructions in the middle of a block. *)

Spliced(s, p, e) == SubSeq(s, 1, p) \o e \o SubSeq(s, p + 1, Len(s))

\* t is s with e, of length n, behind its pth.
IsSplice(S, t, s, p, e, n) ==
    /\ t \in Seq(S) /\ Len(t) = Len(s) + n
    /\ \A j \in 1..p : t[j] = s[j]
    /\ \A j \in (p + 1)..(p + n) : t[j] = e[j - p]
    /\ \A j \in (p + n + 1)..(Len(s) + n) : t[j] = s[j - n]

LEMMA SplicedSequence ==
    ASSUME NEW S, NEW s \in Seq(S), NEW p \in 0..Len(s), NEW n \in Nat,
           NEW e \in [1..n -> S]
    PROVE  IsSplice(S, Spliced(s, p, e), s, p, e, n)
<1> DEFINE m == Len(s)
           a == SubSeq(s, 1, p)
           b == SubSeq(s, p + 1, m)
           ae == a \o e
           t == ae \o b
<1>1. m \in Nat /\ p \in 0..m /\ \A j \in 1..m : s[j] \in S
  BY LenProperties, ElementOfSeq
<1> HIDE DEF m
<1>2. a \in Seq(S) /\ Len(a) = p /\ \A j \in 1..p : a[j] = s[j]
  <2>1. 1 \in Int /\ p \in Int /\ \A j \in 1..p : s[j] \in S  BY <1>1
  <2>2. /\ a \in Seq(S) /\ Len(a) = IF 1 <= p THEN p - 1 + 1 ELSE 0
        /\ \A j \in 1..(p - 1 + 1) : a[j] = s[1 + j - 1]
    BY <2>1, SubSeqProperties
  <2> HIDE DEF a
  <2>3. p - 1 + 1 = p /\ (~(1 <= p) => p = 0)  BY <1>1
  <2>4. \A j \in 1..p : 1 + j - 1 = j  BY <1>1
  <2> QED BY <2>2, <2>3, <2>4
<1>3. b \in Seq(S) /\ Len(b) = m - p /\ \A j \in 1..(m - p) : b[j] = s[p + j]
  <2>1. p + 1 \in Int /\ m \in Int /\ \A j \in (p + 1)..m : s[j] \in S  BY <1>1
  <2>2. /\ b \in Seq(S) /\ Len(b) = IF p + 1 <= m THEN m - (p + 1) + 1 ELSE 0
        /\ \A j \in 1..(m - (p + 1) + 1) : b[j] = s[p + 1 + j - 1]
    BY <2>1, SubSeqProperties
  <2> HIDE DEF b
  <2>3. m - (p + 1) + 1 = m - p /\ (~(p + 1 <= m) => m - p = 0)  BY <1>1
  <2>4. \A j \in 1..(m - p) : p + 1 + j - 1 = p + j  BY <1>1
  <2> QED BY <2>2, <2>3, <2>4
<1>4. e \in Seq(S) /\ Len(e) = n  BY GroupSeq
<1> HIDE DEF a, b
<1>5. /\ ae \in Seq(S) /\ Len(ae) = p + n
      /\ \A j \in 1..(p + n) : ae[j] = IF j <= p THEN a[j] ELSE e[j - p]
  BY <1>2, <1>4, ConcatProperties
<1> HIDE DEF ae
<1>6. /\ t \in Seq(S) /\ Len(t) = m + n
      /\ \A j \in 1..(m + n) : t[j] = IF j <= p + n THEN ae[j] ELSE b[j - (p + n)]
  <2>1. /\ t \in Seq(S) /\ Len(t) = Len(ae) + Len(b)
        /\ \A j \in 1..(Len(ae) + Len(b)) :
             t[j] = IF j <= Len(ae) THEN ae[j] ELSE b[j - Len(ae)]
    BY <1>3, <1>5, ConcatProperties
  <2>2. Len(ae) + Len(b) = m + n  BY <1>1, <1>3, <1>5
  <2> QED BY <1>5, <2>1, <2>2
<1> HIDE DEF t
<1>7. \A j \in 1..p : t[j] = s[j]
  <2> SUFFICES ASSUME NEW j \in 1..p PROVE t[j] = s[j]  OBVIOUS
  <2>1. j \in 1..(m + n) /\ j <= p + n /\ j \in 1..(p + n) /\ j <= p  BY <1>1
  <2> QED BY <1>2, <1>5, <1>6, <2>1
<1>8. \A j \in (p + 1)..(p + n) : t[j] = e[j - p]
  <2> SUFFICES ASSUME NEW j \in (p + 1)..(p + n) PROVE t[j] = e[j - p]  OBVIOUS
  <2>1. j \in 1..(m + n) /\ j <= p + n /\ j \in 1..(p + n) /\ ~(j <= p)  BY <1>1
  <2> QED BY <1>5, <1>6, <2>1
<1>9. \A j \in (p + n + 1)..(m + n) : t[j] = s[j - n]
  <2> SUFFICES ASSUME NEW j \in (p + n + 1)..(m + n) PROVE t[j] = s[j - n]  OBVIOUS
  <2>1. /\ j \in 1..(m + n) /\ ~(j <= p + n) /\ j - (p + n) \in 1..(m - p)
        /\ p + (j - (p + n)) = j - n
    BY <1>1
  <2> QED BY <1>3, <1>6, <2>1
<1>10. t = Spliced(s, p, e)  BY DEF t, ae, a, b, m, Spliced
<1>11. IsSplice(S, t, s, p, e, n)
  BY <1>6, <1>7, <1>8, <1>9 DEF IsSplice, m
<1> QED BY <1>10, <1>11

-----------------------------------------------------------------------------
(* The claims on a unit, counted from one instruction on. *)

Instructions == SUBSET Op

Claimed(op, seq, from, cycle, u) ==
    {c \in (from..Len(seq)) \X Op :
       LET stage == cycle - (c[1] - from)
       IN /\ c[2] \in seq[c[1]]
          /\ stage \in Stage
          /\ u \in Table[op[c[2]].class][stage]}

\* What one instruction claims in a stage.
Alone(op, instr, cycle, u) == {o \in instr : u \in Table[op[o].class][cycle]}

LEMMA ClaimsFinite ==
    ASSUME NEW op, NEW seq \in Seq(Instructions), NEW from \in Nat, NEW cycle, NEW u
    PROVE  IsFiniteSet(Claimed(op, seq, from, cycle, u))
<1> DEFINE n == Len(seq)
           all == (from..n) \X Op
<1>1. IsFiniteSet(from..n)
  <2>1. n \in Int /\ from \in Int  BY LenProperties
  <2> HIDE DEF n
  <2> QED BY <2>1, FS_Interval
<1>2. IsFiniteSet(Op)  BY LayoutAssumption
<1>3. IsFiniteSet(all)
  <2> HIDE DEF n
  <2> QED BY <1>1, <1>2, FS_Product
<1>4. Claimed(op, seq, from, cycle, u) \in SUBSET all  BY DEF Claimed
<1> HIDE DEF all
<1> QED BY <1>3, <1>4, FS_Subset

\* The last instruction, or one before enough empty ones, claims for itself.
LEMMA ClaimsAlone ==
    ASSUME NEW op, NEW seq \in Seq(Instructions), NEW p \in 1..Len(seq),
           NEW cycle \in Stage, NEW u,
           \A k \in (p + 1)..Len(seq) : k - p <= cycle => seq[k] = {}
    PROVE  Cardinality(Claimed(op, seq, p, cycle, u)) =
             Cardinality(Alone(op, seq[p], cycle, u))
<1> DEFINE n == Len(seq)
           C == Claimed(op, seq, p, cycle, u)
           A == Alone(op, seq[p], cycle, u)
           f == [o \in A |-> <<p, o>>]
<1>0. n \in Nat /\ p \in 1..n /\ cycle \in Nat
  BY LenProperties, SpreadAssumption DEF Stage
<1>1. seq[p] \subseteq Op  BY ElementOfSeq DEF Instructions
<1>2. IsFiniteSet(C)
  <2>1. p \in Nat  BY <1>0
  <2> QED BY <2>1, ClaimsFinite
<1>3. \A o \in A : <<p, o>> \in C
  <2> TAKE o \in A
  <2>1. o \in seq[p] /\ o \in Op /\ u \in Table[op[o].class][cycle]
    BY <1>1 DEF Alone
  <2>2. p \in p..Len(seq) /\ cycle - (p - p) = cycle  BY <1>0
  <2> QED BY <2>1, <2>2 DEF Claimed
<1>4. \A c \in C : c[2] \in A /\ c = <<p, c[2]>>
  <2> SUFFICES ASSUME NEW c \in C PROVE c[2] \in A /\ c = <<p, c[2]>>  OBVIOUS
  <2> DEFINE k == c[1]
  <2>1. /\ c \in (p..n) \X Op /\ c[2] \in seq[k] /\ cycle - (k - p) \in Stage
        /\ u \in Table[op[c[2]].class][cycle - (k - p)]
    BY DEF Claimed
  <2>2. k \in p..n /\ c = <<k, c[2]>>  BY <2>1
  <2>3. cycle - (k - p) >= 0 /\ cycle - (k - p) \in Int  BY <2>1, SpreadAssumption DEF Stage
  <2> HIDE DEF k
  <2>4. k = p
    <3> SUFFICES ASSUME k # p PROVE FALSE  OBVIOUS
    <3> HIDE DEF n
    <3>1. k \in (p + 1)..n /\ k - p <= cycle  BY <1>0, <2>2, <2>3
    <3> QED BY <2>1, <3>1 DEF n
  <2>5. cycle - (k - p) = cycle  BY <1>0, <2>4
  <2> QED BY <2>1, <2>2, <2>4, <2>5 DEF Alone
<1> HIDE DEF C, A
<1>5. f \in Bijection(A, C)
  <2>1. f \in [A -> C]  BY <1>3
  <2>2. \A x, y \in A : f[x] = f[y] => x = y  OBVIOUS
  <2>3. \A c \in C : \E o \in A : f[o] = c  BY <1>4
  <2> QED BY <2>1, <2>2, <2>3 DEF Bijection, Injection, Surjection, IsInjective
<1>6. IsFiniteSet(A)
  <2>1. f \in Injection(A, C)  BY <1>5 DEF Bijection
  <2> QED BY <1>2, <2>1, FS_Injection
<1>7. Cardinality(C) = Cardinality(A)
  <2>1. ExistsBijection(A, C)  BY <1>5 DEF ExistsBijection
  <2> QED BY <1>6, <2>1, FS_Bijection
<1> QED BY <1>7 DEF A, C

\* From an instruction on, t is s with everything n later.
Delayed(s, t, n, from) ==
    Len(t) = Len(s) + n /\ \A k \in from..Len(s) : t[k + n] = s[k]

\* Instructions that come n later claim what they claimed.
LEMMA ClaimsMoved ==
    ASSUME NEW op, NEW s \in Seq(Instructions), NEW t \in Seq(Instructions), NEW n \in Nat,
           NEW from \in 1..Len(s), NEW to \in Nat, to = from + n, Delayed(s, t, n, from),
           NEW cycle \in Stage, NEW u
    PROVE  Cardinality(Claimed(op, t, to, cycle, u)) =
             Cardinality(Claimed(op, s, from, cycle, u))
<1> DEFINE m == Len(s)
           A == Claimed(op, s, from, cycle, u)
           C == Claimed(op, t, to, cycle, u)
           f == [a \in A |-> <<a[1] + n, a[2]>>]
<1>0. /\ m \in Nat /\ from \in 1..m /\ Len(t) = m + n /\ cycle \in Nat
      /\ \A k \in from..m : t[k + n] = s[k]
  BY LenProperties, SpreadAssumption DEF Stage, Delayed
<1> HIDE DEF m
<1>1. A = {c \in (from..m) \X Op :
             /\ c[2] \in s[c[1]] /\ cycle - (c[1] - from) \in Stage
             /\ u \in Table[op[c[2]].class][cycle - (c[1] - from)]}
  BY DEF Claimed, m
<1>2. C = {c \in ((from + n)..(m + n)) \X Op :
             /\ c[2] \in t[c[1]] /\ cycle - (c[1] - (from + n)) \in Stage
             /\ u \in Table[op[c[2]].class][cycle - (c[1] - (from + n))]}
  BY <1>0 DEF Claimed
<1>3. IsFiniteSet(A)
  <2>1. from \in Nat  BY <1>0
  <2> QED BY <2>1, ClaimsFinite
<1> HIDE DEF A, C
<1>4. \A a \in A : a[1] \in from..m /\ a[2] \in Op /\ a = <<a[1], a[2]>>  BY <1>1
<1>5. \A a \in A : <<a[1] + n, a[2]>> \in C
  <2> SUFFICES ASSUME NEW a \in A PROVE <<a[1] + n, a[2]>> \in C  OBVIOUS
  <2> DEFINE k == a[1]
             o == a[2]
  <2>1. /\ k \in from..m /\ o \in Op /\ o \in s[k] /\ cycle - (k - from) \in Stage
        /\ u \in Table[op[o].class][cycle - (k - from)]
    BY <1>1
  <2> HIDE DEF k, o
  <2>2. /\ k + n \in (from + n)..(m + n) /\ o \in t[k + n]
        /\ cycle - (k + n - (from + n)) = cycle - (k - from)
    BY <1>0, <2>1
  <2>3. <<k + n, o>> \in C  BY <1>2, <2>1, <2>2
  <2> QED BY <2>3 DEF k, o
<1>6. \A c \in C : \E a \in A : c = <<a[1] + n, a[2]>>
  <2> SUFFICES ASSUME NEW c \in C PROVE \E a \in A : c = <<a[1] + n, a[2]>>  OBVIOUS
  <2>1. PICK k \in (from + n)..(m + n), o \in Op :
          /\ c = <<k, o>> /\ o \in t[k] /\ cycle - (k - (from + n)) \in Stage
          /\ u \in Table[op[o].class][cycle - (k - (from + n))]
    BY <1>2
  <2>2. /\ k - n \in from..m /\ k - n + n = k
        /\ cycle - (k - n - from) = cycle - (k - (from + n))
    BY <1>0
  <2>3. o \in s[k - n]  BY <1>0, <2>1, <2>2
  <2>4. <<k - n, o>> \in A  BY <1>1, <2>1, <2>2, <2>3
  <2> QED BY <2>1, <2>2, <2>4
<1>7. f \in Bijection(A, C)
  <2>1. f \in [A -> C]  BY <1>5
  <2>2. \A x, y \in A : f[x] = f[y] => x = y
    <3> SUFFICES ASSUME NEW x \in A, NEW y \in A, f[x] = f[y] PROVE x = y  OBVIOUS
    <3>1. x[1] + n = y[1] + n /\ x[2] = y[2]  OBVIOUS
    <3>2. x[1] = y[1]  BY <1>0, <1>4, <3>1
    <3>3. x = <<x[1], x[2]>> /\ y = <<y[1], y[2]>>  BY <1>4
    <3> QED BY <3>1, <3>2, <3>3
  <2>3. \A c \in C : \E a \in A : f[a] = c  BY <1>6
  <2> QED BY <2>1, <2>2, <2>3 DEF Bijection, Injection, Surjection, IsInjective
<1>8. Cardinality(C) = Cardinality(A)
  <2>1. ExistsBijection(A, C)  BY <1>7 DEF ExistsBijection
  <2> QED BY <1>3, <2>1, FS_Bijection
<1> QED BY <1>8 DEF A, C

Silent(t, k, m, cycle) ==
    \A j \in k..(m - 1) : t[j] = {} \/ cycle - (j - k) \notin Stage

\* Instructions that claim nothing, or nothing yet, may be passed over.
LEMMA ClaimsLater ==
    ASSUME NEW op, NEW t \in Seq(Instructions), NEW k \in Nat, NEW m \in Nat, k <= m,
           NEW cycle \in Nat, NEW u, Silent(t, k, m, cycle)
    PROVE  Claimed(op, t, k, cycle, u) = Claimed(op, t, m, cycle - (m - k), u)
<1> DEFINE n == Len(t)
<1>0. n \in Nat  BY LenProperties
<1> HIDE DEF n
<1>1. \A j \in Int : cycle - (m - k) - (j - m) = cycle - (j - k)  OBVIOUS
<1>2. \A c \in (k..n) \X Op :
        c[2] \in t[c[1]] /\ cycle - (c[1] - k) \in Stage => c \in (m..n) \X Op
  <2> SUFFICES ASSUME NEW j \in k..n, NEW o \in Op,
                      o \in t[j], cycle - (j - k) \in Stage
               PROVE  j \in m..n
    OBVIOUS
  <2>1. j \notin k..(m - 1)  BY DEF Silent
  <2> QED BY <1>0, <2>1
<1>3. m..n \subseteq k..n  BY <1>0
<1>4. \A c \in (m..n) \X Op : cycle - (m - k) - (c[1] - m) = cycle - (c[1] - k)
  BY <1>0, <1>1
<1>5. Claimed(op, t, k, cycle, u) =
        {c \in (k..n) \X Op :
           /\ c[2] \in t[c[1]] /\ cycle - (c[1] - k) \in Stage
           /\ u \in Table[op[c[2]].class][cycle - (c[1] - k)]}
  BY DEF Claimed, n
<1>6. Claimed(op, t, m, cycle - (m - k), u) =
        {c \in (m..n) \X Op :
           /\ c[2] \in t[c[1]] /\ cycle - (m - k) - (c[1] - m) \in Stage
           /\ u \in Table[op[c[2]].class][cycle - (m - k) - (c[1] - m)]}
  BY DEF Claimed, n
<1> QED BY <1>2, <1>3, <1>4, <1>5, <1>6

\* From the kth instruction of a block on, no unit is claimed too often.
Fits(op, seq, k) ==
    \A cycle \in Stage, u \in Unit :
      Cardinality(Claimed(op, seq, k, cycle, u)) <= Capacity[u]

LEMMA ClaimsPastStage ==
    ASSUME NEW op, NEW t \in Seq(Instructions), NEW k \in Nat, NEW cycle \in Int, NEW u,
           cycle < 0 \/ k > Len(t)
    PROVE  Claimed(op, t, k, cycle, u) = {}
<1> DEFINE n == Len(t)
<1>0. n \in Nat /\ (cycle < 0 \/ k > n)  BY LenProperties
<1>1. \A j \in k..n : cycle - (j - k) \notin Stage
  <2> HIDE DEF n
  <2> TAKE j \in k..n
  <2>1. cycle - (j - k) < 0  BY <1>0
  <2> QED BY <1>0, <2>1, SpreadAssumption DEF Stage
<1> QED BY <1>1 DEF Claimed

LEMMA NothingFits ==
    ASSUME NEW u \in Unit
    PROVE  Cardinality({}) <= Capacity[u]
<1>1. Cardinality({}) = 0  BY FS_EmptySet
<1>2. Capacity[u] \in Nat  BY SpreadAssumption
<1> QED BY <1>1, <1>2

LEMMA FitsLater ==
    ASSUME NEW op, NEW t \in Seq(Instructions), NEW k \in Nat, NEW m \in Nat, k <= m,
           \A j \in k..(m - 1) : t[j] = {},
           m > 0, m \in 1..Len(t) => Fits(op, t, m)
    PROVE  Fits(op, t, k)
<1> SUFFICES ASSUME NEW cycle \in Stage, NEW u \in Unit
             PROVE  Cardinality(Claimed(op, t, k, cycle, u)) <= Capacity[u]
  BY DEF Fits
<1> DEFINE later == cycle - (m - k)
<1>0. cycle \in Nat /\ later \in Int /\ Len(t) \in Nat
  BY SpreadAssumption, LenProperties DEF Stage
<1>1. Claimed(op, t, k, cycle, u) = Claimed(op, t, m, later, u)
  <2>1. Silent(t, k, m, cycle)  BY DEF Silent
  <2> QED BY <1>0, <2>1, ClaimsLater
<1>2. CASE later < 0 \/ m > Len(t)
  <2> HIDE DEF later
  <2>1. Claimed(op, t, m, later, u) = {}  BY <1>0, <1>2, ClaimsPastStage
  <2> QED BY <1>1, <2>1, NothingFits
<1>3. CASE ~(later < 0 \/ m > Len(t))
  <2>1. later \in Stage /\ m \in 1..Len(t)
    BY <1>0, <1>3, SpreadAssumption DEF Stage
  <2> HIDE DEF later
  <2> QED BY <1>1, <2>1 DEF Fits
<1> QED BY <1>2, <1>3

-----------------------------------------------------------------------------
(* A block with n empty instructions behind its pth. *)

Spaced(seq, p, n) == SubSeq(seq, 1, p) \o Empties(n) \o SubSeq(seq, p + 1, Len(seq))

LEMMA SpacedBlock ==
    ASSUME NEW s \in Seq(Instructions), NEW p \in 1..Len(s), NEW n \in Nat
    PROVE  /\ Spaced(s, p, n) \in Seq(Instructions) /\ Len(Spaced(s, p, n)) = Len(s) + n
           /\ \A j \in 1..p : Spaced(s, p, n)[j] = s[j]
           /\ \A j \in (p + 1)..(p + n) : Spaced(s, p, n)[j] = {}
           /\ \A j \in (p + n + 1)..(Len(s) + n) : Spaced(s, p, n)[j] = s[j - n]
<1>1. p \in 0..Len(s)  BY LenProperties
<1>2. Empties(n) \in [1..n -> Instructions]  BY DEF Empties, Instructions
<1>3. \A j \in (p + 1)..(p + n) : Empties(n)[j - p] = {}
  <2>1. \A j \in (p + 1)..(p + n) : j - p \in 1..n  BY LenProperties
  <2> QED BY <2>1 DEF Empties
<1>4. PICK e \in [1..n -> Instructions] : e = Empties(n)  BY <1>2
<1>5. IsSplice(Instructions, Spliced(s, p, e), s, p, e, n)  BY <1>1, SplicedSequence
<1>6. PICK t : t = Spliced(s, p, e) /\ IsSplice(Instructions, t, s, p, e, n)  BY <1>5
<1>7. Spaced(s, p, n) = t  BY <1>4, <1>6 DEF Spaced, Spliced
<1>8. \A j \in (p + 1)..(p + n) : t[j] = {}  BY <1>3, <1>4, <1>6 DEF IsSplice
<1>9. /\ t \in Seq(Instructions) /\ Len(t) = Len(s) + n
      /\ \A j \in 1..p : t[j] = s[j]
      /\ \A j \in (p + n + 1)..(Len(s) + n) : t[j] = s[j - n]
  BY <1>6 DEF IsSplice
<1> QED BY <1>7, <1>8, <1>9

LEMMA SpacedFits ==
    ASSUME NEW op, NEW s \in Seq(Instructions), NEW p \in 1..Len(s), NEW n \in Nat,
           \A k \in (p + 1)..Len(s) : Fits(op, s, k)
    PROVE  \A k \in (p + 1)..Len(Spaced(s, p, n)) : Fits(op, Spaced(s, p, n), k)
<1> DEFINE m == Len(s)
<1>0. m \in Nat /\ p \in 1..m /\ \A k \in (p + 1)..m : Fits(op, s, k)
  BY LenProperties
<1>1. PICK t : t = Spaced(s, p, n)  OBVIOUS
<1>2. /\ t \in Seq(Instructions) /\ Len(t) = m + n
      /\ \A j \in (p + 1)..(p + n) : t[j] = {}
      /\ \A j \in (p + n + 1)..(m + n) : t[j] = s[j - n]
  <2>1. /\ Spaced(s, p, n) \in Seq(Instructions) /\ Len(Spaced(s, p, n)) = Len(s) + n
        /\ \A j \in (p + 1)..(p + n) : Spaced(s, p, n)[j] = {}
        /\ \A j \in (p + n + 1)..(Len(s) + n) : Spaced(s, p, n)[j] = s[j - n]
    BY SpacedBlock
  <2> QED BY <1>1, <2>1
<1>3. \A k \in (p + n + 1)..(m + n) : Fits(op, t, k)
  <2> SUFFICES ASSUME NEW k \in (p + n + 1)..(m + n), NEW cycle \in Stage, NEW u \in Unit
               PROVE  Cardinality(Claimed(op, t, k, cycle, u)) <= Capacity[u]
    BY DEF Fits
  <2> HIDE DEF m
  <2>1. k - n \in (p + 1)..m /\ k - n \in 1..m /\ k - n + n = k  BY <1>0
  <2>2. \A j \in (k - n)..m : t[j + n] = s[j]
    <3> TAKE j \in (k - n)..m
    <3>1. j + n \in (p + n + 1)..(m + n) /\ j + n - n = j  BY <1>0, <2>1
    <3> QED BY <1>2, <3>1
  <2>3. PICK from : from = k - n  OBVIOUS
  <2>4. from \in (p + 1)..m /\ from \in 1..Len(s) /\ from + n = k
    BY <2>1, <2>3 DEF m
  <2>5. Delayed(s, t, n, from)  BY <1>2, <2>2, <2>3 DEF m, Delayed
  <2>6. Cardinality(Claimed(op, t, k, cycle, u)) =
          Cardinality(Claimed(op, s, from, cycle, u))
    <3>1. k \in Nat /\ k = from + n  BY <1>0, <2>4
    <3>2. t \in Seq(Instructions) /\ from \in 1..Len(s)  BY <1>2, <2>4
    <3> QED BY <2>5, <3>1, <3>2, ClaimsMoved
  <2>7. Cardinality(Claimed(op, s, from, cycle, u)) <= Capacity[u]
    BY <1>0, <2>4 DEF Fits
  <2> QED BY <2>4, <2>6, <2>7
<1>4. \A k \in (p + 1)..(p + n) : Fits(op, t, k)
  <2> SUFFICES ASSUME NEW k \in (p + 1)..(p + n) PROVE Fits(op, t, k)  OBVIOUS
  <2> HIDE DEF m
  <2>1. PICK next : next = p + n + 1  OBVIOUS
  <2>2. next \in Nat /\ k \in Nat /\ k <= next /\ next > 0  BY <1>0, <2>1
  <2>3. \A j \in k..(next - 1) : t[j] = {}
    <3> TAKE j \in k..(next - 1)
    <3>1. j \in (p + 1)..(p + n)  BY <1>0, <2>1
    <3> QED BY <1>2, <3>1
  <2>4. next \in 1..Len(t) => Fits(op, t, next)
    <3> SUFFICES ASSUME next \in 1..Len(t) PROVE Fits(op, t, next)  OBVIOUS
    <3>1. next \in (p + n + 1)..(m + n)  BY <1>0, <1>2, <2>1
    <3> QED BY <1>3, <3>1
  <2> QED BY <1>2, <2>2, <2>3, <2>4, FitsLater
<1>5. \A k \in (p + 1)..Len(t) : Fits(op, t, k)
  <2> SUFFICES ASSUME NEW k \in (p + 1)..Len(t) PROVE Fits(op, t, k)  OBVIOUS
  <2> HIDE DEF m
  <2>1. k \in (p + 1)..(p + n) \/ k \in (p + n + 1)..(m + n)  BY <1>0, <1>2
  <2> QED BY <1>3, <1>4, <2>1
<1> QED BY <1>1, <1>5

-----------------------------------------------------------------------------
(* The invariant. *)

\* Every instruction by itself fits the units, stage by stage.
FitsAlone(seq) ==
    \A k \in 1..Len(seq), cycle \in Stage, u \in Unit :
      Cardinality(Alone(ops, seq[k], cycle, u)) <= Capacity[u]

\* What the loop has put behind the current instruction is still there.
Opened ==
    inserted >= 0 =>
      /\ block \in Block /\ pos > 0 /\ pos + inserted <= Len(code[block])
      /\ \A j \in (pos + 1)..(pos + inserted) : code[block][j] = {}

\* The blocks that are done, and the rest of the one being done.
SpreadSoFar ==
    \A b \in Block :
      /\ b < block => \A k \in 1..Len(code[b]) : Fits(ops, code[b], k)
      /\ b = block => \A k \in (pos + 1)..Len(code[b]) : Fits(ops, code[b], k)

Inv ==
    /\ Typed
    /\ code \in [Block -> Seq(Instructions)]
    /\ block \in 1..(Len(Layout) + 1)
    /\ block \in Block => pos \in 0..Len(code[block])
    /\ inserted \in -1..(PIPELENGTH - 1)
    /\ \A b \in Block : FitsAlone(code[b])
    /\ Opened
    /\ SpreadSoFar

LEMMA Blocks ==
    /\ Len(Layout) \in Nat /\ Block = 1..Len(Layout) /\ 1 \in Block
    /\ Layout \in [Block -> Seq(Instructions)]
<1>1. Layout \in Seq(Seq(Instructions)) /\ Layout # <<>>
  BY LayoutAssumption DEF Instructions
<1>2. Len(Layout) \in Nat /\ Layout \in [1..Len(Layout) -> Seq(Instructions)]
  BY <1>1, LenProperties
<1>3. Block = 1..Len(Layout)  BY <1>2 DEF Block
<1>4. Len(Layout) # 0  BY <1>1, EmptySeq
<1> QED BY <1>2, <1>3, <1>4

LEMMA InitInv == Init => Inv
<1> SUFFICES ASSUME Init PROVE Inv  OBVIOUS
<1> USE DEF Init
<1>1. code \in [Block -> Seq(Instructions)] /\ Typed  BY Blocks DEF Typed
<1>2. block = 1 /\ pos = Len(code[1]) /\ inserted = -1 /\ PIPELENGTH \in Nat
  BY SpreadAssumption
<1>3. code[1] \in Seq(Instructions) /\ Len(code[1]) \in Nat  BY <1>1, Blocks, LenProperties
<1>4. \A b \in Block : FitsAlone(code[b])
  <2> SUFFICES ASSUME NEW b \in Block, NEW k \in 1..Len(code[b]),
                      NEW cycle \in Stage, NEW u \in Unit
               PROVE  Cardinality(Alone(ops, code[b][k], cycle, u)) <= Capacity[u]
    BY DEF FitsAlone
  <2>1. code[b] \in Seq(Instructions) /\ code[b][k] \in Instructions /\ k \in DOMAIN code[b]
    BY <1>1, ElementOfSeq, LenProperties
  <2>2. PICK s : s = <<code[b][k]>>  OBVIOUS
  <2>3. s \in Seq(Instructions) /\ Len(s) = 1 /\ s[1] = code[b][k]  BY <2>1, <2>2
  <2>4. Cardinality(Claimed(ops, s, 1, cycle, u)) <= Capacity[u]
    <3>1. Claims(s, 1, cycle, u) = Claimed(ops, s, 1, cycle, u)  BY DEF Claims, Claimed
    <3>2. Cardinality(Claims(s, 1, cycle, u)) <= Capacity[u]  BY <2>1, <2>2
    <3> QED BY <3>1, <3>2
  <2>5. \A j \in (1 + 1)..Len(s) : j - 1 <= cycle => s[j] = {}  BY <2>3
  <2>6. Cardinality(Claimed(ops, s, 1, cycle, u)) = Cardinality(Alone(ops, s[1], cycle, u))
    <3>1. 1 \in 1..Len(s) /\ 1 + 1 = 2  BY <2>3
    <3> QED BY <2>3, <2>5, <3>1, ClaimsAlone
  <2> QED BY <2>3, <2>4, <2>6
<1>5. Opened  BY <1>2 DEF Opened
<1>6. SpreadSoFar
  <2>1. \A b \in Block : ~(b < 1)  BY Blocks
  <2>2. \A k \in (pos + 1)..Len(code[1]) : FALSE  BY <1>2, <1>3
  <2> QED BY <1>2, <2>1, <2>2 DEF SpreadSoFar
<1> QED BY <1>1, <1>2, <1>3, <1>4, <1>5, <1>6, Blocks DEF Inv

\* The number of empty instructions a dependence asks for.
LEMMA MissingNatural ==
    ASSUME Inv, block \in Block, pos > 0
    PROVE  Missing \in Nat
<1> DEFINE i == code[block][pos]
           cycles(next) == {NrCycles(i, next[j]) - j : j \in {j \in DOMAIN next : j < Lookahead}}
           S == UNION {cycles(next) : next \in Ahead}
<1>1. /\ code[block] \in Seq(Instructions) /\ pos \in Nat /\ pos \in 1..Len(code[block])
      /\ Len(code[block]) \in Nat /\ Typed
  <2>1. code[block] \in Seq(Instructions) /\ pos \in 0..Len(code[block]) /\ Typed
    BY DEF Inv
  <2> QED BY <2>1, LenProperties
<1>2. i \in SUBSET Op  BY <1>1, ElementOfSeq DEF Instructions
<1>3. AheadInBlock \in Seq(Instructions)
  <2>1. \A k \in (pos + 1)..Len(code[block]) : code[block][k] \in Instructions
    BY <1>1, ElementOfSeq
  <2>2. pos + 1 \in Int /\ Len(code[block]) \in Int  BY <1>1
  <2>3. SubSeq(code[block], pos + 1, Len(code[block])) \in Seq(Instructions)
    BY <2>1, <2>2, SubSeqProperties
  <2> QED BY <2>3 DEF AheadInBlock
<1>4. \A next \in Ahead : next \in Seq(Instructions)
  <2>1. \A c \in Successors[block] : code[c] \in Seq(Instructions)
    BY LayoutAssumption DEF Inv
  <2>2. \A c \in Successors[block] : AheadInBlock \o code[c] \in Seq(Instructions)
    BY <1>3, <2>1, ConcatProperties
  <2> QED BY <1>3, <2>2 DEF Ahead
<1>5. PIPELENGTH + 1 \in Nat  BY SpreadAssumption
<1>6. \A k \in S : k \in Int /\ k <= PIPELENGTH + 1
  <2> SUFFICES ASSUME NEW next \in Ahead, NEW j \in DOMAIN next
               PROVE  /\ NrCycles(i, next[j]) - j \in Int
                      /\ NrCycles(i, next[j]) - j <= PIPELENGTH + 1
    OBVIOUS
  <2>1. next \in Seq(Instructions)  BY <1>4
  <2>2. j \in Nat /\ next[j] \in SUBSET Op
    <3>1. DOMAIN next = 1..Len(next) /\ Len(next) \in Nat  BY <2>1, LenProperties
    <3> QED BY <2>1, <3>1, ElementOfSeq DEF Instructions
  <2>3. NrCycles(i, next[j]) \in 0..(PIPELENGTH + 1)  BY <1>1, <1>2, <2>2, Cycles
  <2> DEFINE c == NrCycles(i, next[j])
  <2> HIDE DEF c
  <2>4. c - j \in Int /\ c - j <= PIPELENGTH + 1  BY <1>5, <2>2, <2>3 DEF c
  <2> QED BY <2>4 DEF c
<1>7. Max({0} \union S) \in 0..(PIPELENGTH + 1)
  <2> HIDE DEF S
  <2> QED BY <1>5, <1>6, MaxUpTo
<1>8. Missing = Max({0} \union S)  BY DEF Missing
<1> HIDE DEF S
<1> QED BY <1>5, <1>7, <1>8

-----------------------------------------------------------------------------
(* Every step keeps the invariant. *)

\* Empty instructions disturb neither what an instruction claims by itself nor
\* what has been spread.
LEMMA Insertion ==
    ASSUME Inv, block \in Block, pos > 0, NEW n \in Nat,
           code' = [code EXCEPT ![block] = WithEmpties(n)],
           ops' = ops /\ block' = block /\ pos' = pos
    PROVE  /\ Typed'
           /\ code' \in [Block -> Seq(Instructions)]
           /\ block' \in 1..(Len(Layout) + 1)
           /\ block' \in Block => pos' \in 0..Len(code'[block'])
           /\ (\A b \in Block : FitsAlone(code[b]))'
           /\ SpreadSoFar'
           /\ Len(code'[block]) = Len(code[block]) + n
           /\ \A j \in (pos + 1)..(pos + n) : code'[block][j] = {}
           /\ \A j \in (pos + n + 1)..(Len(code[block]) + n) :
                code'[block][j] = code[block][j - n]
<1>1. PICK s : s = code[block]  OBVIOUS
<1>2. PICK t : t = code'[block]  OBVIOUS
<1>3. /\ s \in Seq(Instructions) /\ Len(s) \in Nat /\ pos \in 1..Len(s)
      /\ code \in [Block -> Seq(Instructions)]
  <2>1. s \in Seq(Instructions) /\ pos \in 0..Len(s)  BY <1>1 DEF Inv
  <2> QED BY <2>1, LenProperties DEF Inv
<1>4. t = Spaced(s, pos, n)
  BY <1>1, <1>2, <1>3 DEF WithEmpties, Spaced, AheadInBlock
<1>5. /\ t \in Seq(Instructions) /\ Len(t) = Len(s) + n
      /\ \A j \in 1..pos : t[j] = s[j]
      /\ \A j \in (pos + 1)..(pos + n) : t[j] = {}
      /\ \A j \in (pos + n + 1)..(Len(s) + n) : t[j] = s[j - n]
  <2>1. LET x == Spaced(s, pos, n) IN
        /\ x \in Seq(Instructions) /\ Len(x) = Len(s) + n
        /\ \A j \in 1..pos : x[j] = s[j]
        /\ \A j \in (pos + 1)..(pos + n) : x[j] = {}
        /\ \A j \in (pos + n + 1)..(Len(s) + n) : x[j] = s[j - n]
    BY <1>3, SpacedBlock
  <2> QED BY <1>4, <2>1
<1>6. \A b \in Block : code'[b] = IF b = block THEN t ELSE code[b]  BY <1>2, <1>3
<1>7. code' \in [Block -> Seq(Instructions)]  BY <1>2, <1>3, <1>5
<1>8. (\A b \in Block : FitsAlone(code[b]))'
  <2> SUFFICES ASSUME NEW b \in Block, NEW k \in 1..Len(code'[b]),
                      NEW cycle \in Stage, NEW u \in Unit
               PROVE  Cardinality(Alone(ops, code'[b][k], cycle, u)) <= Capacity[u]
    BY DEF FitsAlone
  <2>1. \A c \in Block : \A j \in 1..Len(code[c]) :
          Cardinality(Alone(ops, code[c][j], cycle, u)) <= Capacity[u]
    BY DEF Inv, FitsAlone
  <2>2. CASE b # block  BY <1>6, <2>1, <2>2
  <2>3. CASE b = block
    <3>1. k \in 1..(Len(s) + n) /\ code'[b][k] = t[k]  BY <1>5, <1>6, <2>3
    <3>2. CASE k \in 1..pos
      <4>1. k \in 1..Len(s) /\ t[k] = s[k]  BY <1>3, <1>5, <3>2
      <4> QED BY <1>1, <2>1, <3>1, <4>1
    <3>3. CASE k \in (pos + 1)..(pos + n)
      <4>1. Alone(ops, t[k], cycle, u) = {}  BY <1>5, <3>3 DEF Alone
      <4> QED BY <3>1, <4>1, NothingFits
    <3>4. CASE k \in (pos + n + 1)..(Len(s) + n)
      <4>1. k - n \in 1..Len(s) /\ t[k] = s[k - n]  BY <1>3, <1>5, <3>4
      <4> QED BY <1>1, <2>1, <3>1, <4>1
    <3> QED BY <1>3, <3>1, <3>2, <3>3, <3>4
  <2> QED BY <2>2, <2>3
<1>9. SpreadSoFar'
  <2>1. \A k \in (pos + 1)..Len(s) : Fits(ops, s, k)  BY <1>1 DEF Inv, SpreadSoFar
  <2>2. \A k \in (pos + 1)..Len(t) : Fits(ops, t, k)  BY <1>3, <1>4, <2>1, SpacedFits
  <2>3. \A b \in Block : b < block => \A k \in 1..Len(code[b]) : Fits(ops, code[b], k)
    BY DEF Inv, SpreadSoFar
  <2>4. \A b \in Block : b < block => b # block  BY Blocks
  <2> SUFFICES ASSUME NEW b \in Block
               PROVE  /\ b < block => \A k \in 1..Len(code'[b]) : Fits(ops, code'[b], k)
                      /\ b = block =>
                           \A k \in (pos + 1)..Len(code'[b]) : Fits(ops, code'[b], k)
    BY DEF SpreadSoFar
  <2>5. CASE b = block  BY <1>2, <2>2, <2>4, <2>5
  <2>6. CASE b # block  BY <1>6, <2>3, <2>6
  <2> QED BY <2>5, <2>6
<1>10. Typed' /\ block' \in 1..(Len(Layout) + 1)  BY DEF Inv, Typed
<1>11. block' \in Block => pos' \in 0..Len(code'[block'])  BY <1>2, <1>3, <1>5
<1> QED BY <1>1, <1>2, <1>5, <1>7, <1>8, <1>9, <1>10, <1>11

LEMMA DependencesInv == Inv /\ SpreadDependences => Inv'
<1> SUFFICES ASSUME Inv, SpreadDependences PROVE Inv'  OBVIOUS
<1>1. PICK n \in Nat : code' = [code EXCEPT ![block] = WithEmpties(n)]
  BY MissingNatural DEF SpreadDependences
<1>2. block \in Block /\ pos > 0 /\ ops' = ops /\ block' = block /\ pos' = pos /\ inserted' = 0
  BY DEF SpreadDependences
<1>3. /\ Typed' /\ code' \in [Block -> Seq(Instructions)]
      /\ block' \in 1..(Len(Layout) + 1)
      /\ block' \in Block => pos' \in 0..Len(code'[block'])
      /\ (\A b \in Block : FitsAlone(code[b]))'
      /\ SpreadSoFar'
  BY <1>1, <1>2, Insertion
<1>4. inserted' \in -1..(PIPELENGTH - 1)  BY <1>2, SpreadAssumption
<1>5. Opened'
  <2>1. pos' \in Nat /\ pos' <= Len(code'[block']) /\ Len(code'[block']) \in Nat
    BY <1>2, <1>3, LenProperties
  <2>2. pos' + inserted' <= Len(code'[block'])  BY <1>2, <2>1
  <2>3. \A j \in (pos' + 1)..(pos' + inserted') : FALSE  BY <1>2, <2>1
  <2> QED BY <1>2, <2>2, <2>3 DEF Opened
<1> QED BY <1>3, <1>4, <1>5 DEF Inv

\* With a pipeline of empty instructions behind it, an instruction has only its
\* own claims, and they fit.
LEMMA ConflictInTime ==
    ASSUME Inv, Conflicts, inserted >= 0
    PROVE  inserted < PIPELENGTH - 1
<1>0. PIPELENGTH \in Nat /\ inserted \in -1..(PIPELENGTH - 1)
  BY SpreadAssumption DEF Inv
<1> SUFFICES ASSUME inserted = PIPELENGTH - 1 PROVE FALSE  BY <1>0
<1>1. PICK s : s = code[block]  OBVIOUS
<1>2. /\ block \in Block /\ s \in Seq(Instructions) /\ Len(s) \in Nat /\ pos \in 1..Len(s)
      /\ \A j \in (pos + 1)..(pos + inserted) : s[j] = {}
  <2>1. /\ block \in Block /\ pos > 0
        /\ \A j \in (pos + 1)..(pos + inserted) : code[block][j] = {}
    BY DEF Inv, Opened
  <2>2. s \in Seq(Instructions) /\ pos \in 0..Len(s)  BY <1>1, <2>1 DEF Inv
  <2> QED BY <1>1, <2>1, <2>2, LenProperties
<1>3. PICK cycle \in Stage, u \in Unit : Cardinality(Claimed(ops, s, pos, cycle, u)) > Capacity[u]
  BY <1>1 DEF Conflicts, Claims, Claimed
<1>4. \A k \in (pos + 1)..Len(s) : k - pos <= cycle => s[k] = {}
  <2> SUFFICES ASSUME NEW k \in (pos + 1)..Len(s), k - pos <= cycle PROVE s[k] = {}
    OBVIOUS
  <2>1. k \in (pos + 1)..(pos + inserted)  BY <1>0, <1>2 DEF Stage
  <2> QED BY <1>2, <2>1
<1>5. Cardinality(Claimed(ops, s, pos, cycle, u)) = Cardinality(Alone(ops, s[pos], cycle, u))
  BY <1>2, <1>4, ClaimsAlone
<1>6. Cardinality(Alone(ops, s[pos], cycle, u)) <= Capacity[u]
  BY <1>1, <1>2 DEF Inv, FitsAlone
<1>7. Cardinality(Claimed(ops, s, pos, cycle, u)) \in Nat /\ Capacity[u] \in Nat
  <2>1. pos \in Nat  BY <1>2
  <2>2. IsFiniteSet(Claimed(ops, s, pos, cycle, u))  BY <1>2, <2>1, ClaimsFinite
  <2> QED BY <2>2, FS_CardinalityType, SpreadAssumption
<1> QED BY <1>3, <1>5, <1>6, <1>7

LEMMA ConflictInv == Inv /\ SpreadConflict => Inv'
<1> SUFFICES ASSUME Inv, SpreadConflict PROVE Inv'  OBVIOUS
<1>1. /\ block \in Block /\ ops' = ops /\ block' = block /\ pos' = pos
      /\ inserted \in 0..(PIPELENGTH - 1) /\ inserted' = inserted + 1
      /\ code' = [code EXCEPT ![block] = WithEmpties(1)]
  BY DEF SpreadConflict
<1>2. inserted \in Nat /\ PIPELENGTH \in Nat  BY <1>1, SpreadAssumption
<1>3. /\ pos > 0 /\ pos + inserted <= Len(code[block])
      /\ \A j \in (pos + 1)..(pos + inserted) : code[block][j] = {}
  BY <1>2 DEF Inv, Opened
<1>4. pos \in Nat /\ Len(code[block]) \in Nat
  <2>1. code[block] \in Seq(Instructions) /\ pos \in 0..Len(code[block])
    BY <1>1 DEF Inv
  <2> QED BY <2>1, LenProperties
<1>5. /\ Typed' /\ code' \in [Block -> Seq(Instructions)]
      /\ block' \in 1..(Len(Layout) + 1)
      /\ block' \in Block => pos' \in 0..Len(code'[block'])
      /\ (\A b \in Block : FitsAlone(code[b]))'
      /\ SpreadSoFar'
      /\ Len(code'[block]) = Len(code[block]) + 1
      /\ \A j \in (pos + 1)..(pos + 1) : code'[block][j] = {}
      /\ \A j \in (pos + 1 + 1)..(Len(code[block]) + 1) :
           code'[block][j] = code[block][j - 1]
  BY <1>1, <1>3, Insertion
<1>6. inserted' \in -1..(PIPELENGTH - 1)
  <2>1. inserted < PIPELENGTH - 1  BY <1>2, ConflictInTime DEF SpreadConflict
  <2> QED BY <1>1, <1>2, <2>1
<1>7. Opened'
  <2>1. pos' + inserted' <= Len(code'[block'])  BY <1>1, <1>2, <1>3, <1>4, <1>5
  <2>2. \A j \in (pos + 1)..(pos + (inserted + 1)) : code'[block][j] = {}
    <3> TAKE j \in (pos + 1)..(pos + (inserted + 1))
    <3>1. CASE j = pos + 1
      <4>1. j \in (pos + 1)..(pos + 1)  BY <1>4, <3>1
      <4> QED BY <1>5, <4>1
    <3>2. CASE j # pos + 1
      <4>1. /\ j \in (pos + 1 + 1)..(Len(code[block]) + 1)
            /\ j - 1 \in (pos + 1)..(pos + inserted)
        BY <1>2, <1>3, <1>4, <3>2
      <4> QED BY <1>3, <1>5, <4>1
    <3> QED BY <3>1, <3>2
  <2> QED BY <1>1, <1>3, <2>1, <2>2 DEF Opened
<1> QED BY <1>5, <1>6, <1>7 DEF Inv

LEMMA PreviousInv == Inv /\ PreviousInstr => Inv'
<1> SUFFICES ASSUME Inv, PreviousInstr PROVE Inv'  OBVIOUS
<1>1. /\ block \in Block /\ ops' = ops /\ block' = block /\ code' = code /\ pos' = pos - 1
      /\ inserted' = -1 /\ inserted \in Nat /\ PIPELENGTH \in Nat /\ ~Conflicts
  BY SpreadAssumption DEF PreviousInstr
<1>2. /\ code[block] \in Seq(Instructions) /\ Len(code[block]) \in Nat
      /\ pos \in 1..Len(code[block])
  <2>1. code[block] \in Seq(Instructions) /\ pos \in 0..Len(code[block]) /\ pos > 0
    BY <1>1 DEF Inv, Opened
  <2> QED BY <2>1, LenProperties
<1>3. Fits(ops, code[block], pos)
  <2> SUFFICES ASSUME NEW cycle \in Stage, NEW u \in Unit
               PROVE  Cardinality(Claimed(ops, code[block], pos, cycle, u)) <= Capacity[u]
    BY DEF Fits
  <2>1. ~(Cardinality(Claimed(ops, code[block], pos, cycle, u)) > Capacity[u])
    BY <1>1 DEF Conflicts, Claims, Claimed
  <2>2. Cardinality(Claimed(ops, code[block], pos, cycle, u)) \in Nat
    <3>1. pos \in Nat  BY <1>2
    <3>2. IsFiniteSet(Claimed(ops, code[block], pos, cycle, u))  BY <1>2, <3>1, ClaimsFinite
    <3> QED BY <3>2, FS_CardinalityType
  <2>3. Capacity[u] \in Nat  BY SpreadAssumption
  <2> QED BY <2>1, <2>2, <2>3
<1>4. SpreadSoFar'
  <2> SUFFICES ASSUME NEW b \in Block
               PROVE  /\ b < block => \A k \in 1..Len(code[b]) : Fits(ops, code[b], k)
                      /\ b = block =>
                           \A k \in (pos - 1 + 1)..Len(code[b]) : Fits(ops, code[b], k)
    BY <1>1 DEF SpreadSoFar
  <2>1. \A k \in (pos - 1 + 1)..Len(code[block]) : k = pos \/ k \in (pos + 1)..Len(code[block])
    BY <1>2
  <2>2. \A k \in (pos + 1)..Len(code[block]) : Fits(ops, code[block], k)
    BY <1>1 DEF Inv, SpreadSoFar
  <2>3. b < block => \A k \in 1..Len(code[b]) : Fits(ops, code[b], k)
    BY DEF Inv, SpreadSoFar
  <2> QED BY <1>3, <2>1, <2>2, <2>3
<1>5. pos - 1 \in 0..Len(code[block])  BY <1>2
<1>6. (\A b \in Block : FitsAlone(code[b]))'  BY <1>1 DEF Inv, FitsAlone
<1>7. Opened' /\ inserted' \in -1..(PIPELENGTH - 1)  BY <1>1 DEF Opened
<1>8. Typed' /\ code' \in [Block -> Seq(Instructions)] /\ block' \in 1..(Len(Layout) + 1)
  BY <1>1 DEF Inv, Typed
<1> QED BY <1>1, <1>4, <1>5, <1>6, <1>7, <1>8 DEF Inv

LEMMA NextBlockInv == Inv /\ NextBlock => Inv'
<1> SUFFICES ASSUME Inv, NextBlock PROVE Inv'  OBVIOUS
<1>1. /\ block \in Block /\ pos = 0 /\ ops' = ops /\ block' = block + 1 /\ code' = code
      /\ inserted' = inserted
      /\ pos' = IF block + 1 \in Block THEN Len(code[block + 1]) ELSE 0
  BY DEF NextBlock
<1>2. Len(Layout) \in Nat /\ Block = 1..Len(Layout)  BY Blocks
<1>3. block' \in 1..(Len(Layout) + 1)  BY <1>1, <1>2
<1>4. \A b \in Block : Len(code[b]) \in Nat
  <2>1. \A b \in Block : code[b] \in Seq(Instructions)  BY DEF Inv
  <2> QED BY <2>1, LenProperties
<1>5. block' \in Block => pos' \in 0..Len(code'[block'])  BY <1>1, <1>4
<1>6. inserted = -1
  <2>1. ~(inserted >= 0)  BY <1>1 DEF Inv, Opened
  <2>2. inserted \in -1..(PIPELENGTH - 1) /\ PIPELENGTH \in Nat  BY SpreadAssumption DEF Inv
  <2> QED BY <2>1, <2>2
<1>7. SpreadSoFar'
  <2> SUFFICES ASSUME NEW b \in Block
               PROVE  /\ b < block + 1 => \A k \in 1..Len(code[b]) : Fits(ops, code[b], k)
                      /\ b = block + 1 =>
                           \A k \in (pos' + 1)..Len(code[b]) : Fits(ops, code[b], k)
    BY <1>1 DEF SpreadSoFar
  <2>1. b < block + 1 => \A k \in 1..Len(code[b]) : Fits(ops, code[b], k)
    <3> SUFFICES ASSUME b < block + 1 PROVE \A k \in 1..Len(code[b]) : Fits(ops, code[b], k)
      OBVIOUS
    <3>1. b < block \/ b = block  BY <1>1, <1>2
    <3>2. b < block => \A k \in 1..Len(code[b]) : Fits(ops, code[b], k)
      BY DEF Inv, SpreadSoFar
    <3>3. b = block => \A k \in (pos + 1)..Len(code[b]) : Fits(ops, code[b], k)
      BY DEF Inv, SpreadSoFar
    <3>4. pos + 1 = 1  BY <1>1
    <3> QED BY <3>1, <3>2, <3>3, <3>4
  <2>2. b = block + 1 => \A k \in (pos' + 1)..Len(code[b]) : FALSE
    <3> SUFFICES ASSUME b = block + 1 PROVE \A k \in (pos' + 1)..Len(code[b]) : FALSE
      OBVIOUS
    <3>1. pos' = Len(code[b]) /\ Len(code[b]) \in Nat  BY <1>1, <1>4
    <3> QED BY <3>1
  <2> QED BY <2>1, <2>2
<1>8. (\A b \in Block : FitsAlone(code[b]))'  BY <1>1 DEF Inv, FitsAlone
<1>9. Opened' /\ inserted' \in -1..(PIPELENGTH - 1)  BY <1>1, <1>6 DEF Inv, Opened
<1>10. Typed' /\ code' \in [Block -> Seq(Instructions)]  BY <1>1 DEF Inv, Typed
<1> QED BY <1>3, <1>5, <1>7, <1>8, <1>9, <1>10 DEF Inv

LEMMA NextInv == Inv /\ [Next]_vars => Inv'
<1> SUFFICES ASSUME Inv, [Next]_vars PROVE Inv'  OBVIOUS
<1>1. CASE SpreadDependences  BY <1>1, DependencesInv
<1>2. CASE SpreadConflict     BY <1>2, ConflictInv
<1>3. CASE PreviousInstr      BY <1>3, PreviousInv
<1>4. CASE NextBlock          BY <1>4, NextBlockInv
<1>5. CASE UNCHANGED vars
  BY <1>5 DEF vars, Inv, Typed, FitsAlone, Opened, SpreadSoFar
<1> QED BY <1>1, <1>2, <1>3, <1>4, <1>5 DEF Next

-----------------------------------------------------------------------------
(* What the invariant gives. *)

LEMMA InvMeansAssertion == Inv => AssertionHolds
<1> SUFFICES ASSUME Inv PROVE AssertionHolds  OBVIOUS
<1>1. inserted \in -1..(PIPELENGTH - 1) /\ PIPELENGTH \in Nat
  BY SpreadAssumption DEF Inv
<1> QED BY <1>1 DEF AssertionHolds

\* Late in a block the claims of a cycle are those of the instructions that are
\* still in the pipeline.
LEMMA InvMeansClaims == Inv => NoUnitOverclaimed
<1> SUFFICES ASSUME Inv, Done, NEW b \in Block,
                    NEW cycle \in 0..(Len(code[b]) + PIPELENGTH), NEW u \in Unit
             PROVE  Cardinality(Claims(code[b], 1, cycle, u)) <= Capacity[u]
  BY DEF NoUnitOverclaimed
<1>1. PICK t : t = code[b]  OBVIOUS
<1>2. t \in Seq(Instructions) /\ Len(t) \in Nat /\ cycle \in Nat /\ PIPELENGTH \in Nat \ {0}
  <2>1. t \in Seq(Instructions)  BY <1>1 DEF Inv
  <2>2. Len(t) \in Nat  BY <2>1, LenProperties
  <2> QED BY <1>1, <2>1, <2>2, SpreadAssumption
<1>3. \A k \in 1..Len(t) : Fits(ops, t, k)
  <2>1. b < block  BY Blocks DEF Done
  <2> QED BY <1>1, <2>1 DEF Inv, SpreadSoFar
<1>4. Claims(code[b], 1, cycle, u) = Claimed(ops, t, 1, cycle, u)
  BY <1>1 DEF Claims, Claimed
<1>5. \A m \in Nat : m > Len(t) => Cardinality(Claimed(ops, t, m, PIPELENGTH - 1, u)) <= Capacity[u]
  <2> TAKE m \in Nat
  <2> HAVE m > Len(t)
  <2>1. PIPELENGTH - 1 \in Int  BY <1>2
  <2>2. Claimed(ops, t, m, PIPELENGTH - 1, u) = {}  BY <1>2, <2>1, ClaimsPastStage
  <2> QED BY <2>2, NothingFits
<1>6. CASE cycle < PIPELENGTH
  <2>1. cycle \in Stage  BY <1>2, <1>6 DEF Stage
  <2>2. CASE Len(t) = 0
    <3>1. Claimed(ops, t, 1, cycle, u) = {}
      <4>1. 1 > Len(t) /\ 1 \in Nat /\ cycle \in Int  BY <1>2, <2>2
      <4> QED BY <1>2, <4>1, ClaimsPastStage
    <3> QED BY <1>4, <3>1, NothingFits
  <2>3. CASE Len(t) # 0
    <3>1. 1 \in 1..Len(t)  BY <1>2, <2>3
    <3> QED BY <1>3, <1>4, <2>1, <3>1 DEF Fits
  <2> QED BY <2>2, <2>3
<1>7. CASE ~(cycle < PIPELENGTH)
  <2>1. PICK m \in Nat : m = cycle - PIPELENGTH + 2  BY <1>2, <1>7
  <2>2. 1 <= m /\ cycle - (m - 1) = PIPELENGTH - 1  BY <1>2, <1>7, <2>1
  <2>3. Silent(t, 1, m, cycle)
    <3> SUFFICES ASSUME NEW j \in 1..(m - 1) PROVE cycle - (j - 1) \notin Stage
      BY DEF Silent
    <3>1. cycle - (j - 1) > PIPELENGTH - 1  BY <1>2, <2>1
    <3> QED BY <1>2, <3>1 DEF Stage
  <2>4. Claimed(ops, t, 1, cycle, u) = Claimed(ops, t, m, PIPELENGTH - 1, u)
    <3>1. 1 \in Nat  OBVIOUS
    <3>2. Claimed(ops, t, 1, cycle, u) = Claimed(ops, t, m, cycle - (m - 1), u)
      BY <1>2, <2>2, <2>3, <3>1, ClaimsLater
    <3> QED BY <2>2, <3>2
  <2>5. CASE m > Len(t)  BY <1>4, <1>5, <2>4, <2>5
  <2>6. CASE ~(m > Len(t))
    <3>1. m \in 1..Len(t) /\ PIPELENGTH - 1 \in Stage  BY <1>2, <2>2, <2>6 DEF Stage
    <3> QED BY <1>3, <1>4, <2>4, <3>1 DEF Fits
  <2> QED BY <2>5, <2>6
<1> QED BY <1>6, <1>7

-----------------------------------------------------------------------------
\* _ASSERT(i<PIPELENGTH) never fails: the loop over the reservation tables of an
\* instruction comes to an end before it has put a whole pipeline of empty
\* instructions behind it, for all tables and capacities.
THEOREM AssertionNeverFails == Spec => []AssertionHolds
BY InitInv, NextInv, InvMeansAssertion, PTL DEF Spec

\* A routine that has been spread claims no unit more often than it can be
\* claimed in any cycle, for all routines, reservation tables and capacities.
THEOREM UnitsNeverOverclaimed == Spec => []NoUnitOverclaimed
BY InitInv, NextInv, InvMeansClaims, PTL DEF Spec

-----------------------------------------------------------------------------
(* How far apart two operations must be. *)

\* A class lists a unit in that stage or a later one.
Listed(c, stage) == \E j \in Stage : j >= stage /\ Table[c][j] # {}

\* The machine description as the pass takes it: a reservation table goes on to
\* the last access of its class, nothing is written in stage 0, no feedback
\* path is shorter than the pipeline, and the register file is read a cycle
\* after it is written (write_through_register_file is 0).
TimesListed ==
    /\ ~WriteThrough
    /\ \A c \in Class :
         /\ Listed(c, ReadTime[c])
         /\ Access[c] # "store" => (WriteTime[c] > 0 /\ Listed(c, WriteTime[c]))
         /\ Access[c] # "none" => (MemoryTime[c] > 0 /\ Listed(c, MemoryTime[c]))
    /\ \A c, e \in Class : Deq[c] = -1 \/ Enq[e] = -1 \/ Deq[c] = Enq[e]

\* What AccessesInOrder asks of two operations d cycles apart.
UsedInOrder(o1, o2, d) ==
    IsUse(o1, o2) => d + ReadTime[ops[o2].class] >= WriteTime[ops[o1].class] + 1
WrittenInOrder(o1, o2, d) ==
    /\ EqualRegs(ops[o1].dest, ops[o2].dest) =>
         d + WriteTime[ops[o2].class] > WriteTime[ops[o1].class]
    /\ ops[o1].src = ops[o2].dest =>
         d + WriteTime[ops[o2].class] > ReadTime[ops[o1].class]
MemoryInOrder(o1, o2, d) ==
    MemoryDependent(o1, o2) =>
      d + MemoryTime[ops[o2].class] > MemoryTime[ops[o1].class]
InOrder(o1, o2, d) ==
    UsedInOrder(o1, o2, d) /\ WrittenInOrder(o1, o2, d) /\ MemoryInOrder(o1, o2, d)

LEMMA MaxOfPair ==
    ASSUME NEW a \in Int, NEW b \in Int
    PROVE  Max({a, b}) \in Int /\ Max({a, b}) >= a /\ Max({a, b}) >= b
<1>1. PICK m \in Int : a <= m /\ b <= m
  <2>1. CASE a <= b  BY <2>1
  <2>2. CASE b <= a  BY <2>2
  <2> QED BY <2>1, <2>2
<1> DEFINE T == {a, b}
<1>2. T \in SUBSET Int /\ T # {} /\ a \in T /\ b \in T /\ \A k \in T : k <= m  BY <1>1
<1> HIDE DEF T
<1>3. Max(T) \in T /\ \A k \in T : Max(T) >= k  BY <1>1, <1>2, Greatest
<1>4. Max(T) \in Int /\ Max(T) >= a /\ Max(T) >= b  BY <1>2, <1>3
<1> QED BY <1>4 DEF T

\* A store writes no register.
LEMMA Destination ==
    ASSUME TimesListed, Typed, NEW o \in Op, ops[o].dest \in Reg
    PROVE  Access[ops[o].class] # "store"
<1>1. ops[o] \in Operation  BY DEF Typed
<1> QED BY <1>1, SpreadAssumption DEF Operation

LEMMA Sources ==
    ASSUME Typed, NEW o \in Op
    PROVE  ops[o].src \in Reg /\ ops[o].src # NoReg /\ ops[o].dest \in Reg \union {NoReg}
<1>1. ops[o] \in Operation  BY DEF Typed
<1> QED BY <1>1, SpreadAssumption DEF Operation

\* The cycles the pass counts are enough.
LEMMA EnoughCycles ==
    ASSUME TimesListed, Typed, NEW o1 \in Op, NEW o2 \in Op, NEW d \in Nat,
           d >= ComputeNrDepCycles(o1, o2)
    PROVE  InOrder(o1, o2, d)
<1> DEFINE flow == NrFlowDepCycles(o1, o2)
           regs == NrOutputAntiDepCycles(o1, o2)
           mem == NrMemoryDepCycles(o1, o2)
           T == {flow, regs, mem}
           w1 == WriteTime[ops[o1].class]
           w2 == WriteTime[ops[o2].class]
           r1 == ReadTime[ops[o1].class]
           r2 == ReadTime[ops[o2].class]
           m1 == MemoryTime[ops[o1].class]
           m2 == MemoryTime[ops[o2].class]
<1>0. PIPELENGTH \in Nat  BY SpreadAssumption
<1>1. w1 \in Int /\ w2 \in Int /\ r1 \in Int /\ r2 \in Int /\ m1 \in Int /\ m2 \in Int
  BY Times, <1>0 DEF Stage
<1>2. flow \in Int /\ regs \in Int /\ mem \in Int
      /\ d >= flow + 1 /\ d >= regs + 1 /\ d >= mem + 1
  <2>1. flow \in 0..PIPELENGTH /\ regs \in 0..PIPELENGTH /\ mem \in 0..PIPELENGTH
    BY FlowCycles, OutputAntiCycles, MemoryCycles
  <2>2. d >= Max(T) + 1
    <3>1. ComputeNrDepCycles(o1, o2) = Max(T) + 1
      BY DEF ComputeNrDepCycles, NrDepCycles, TimesListed
    <3> QED BY <3>1
  <2> HIDE DEF flow, regs, mem
  <2>3. T \in SUBSET Int /\ T # {} /\ (\A k \in T : k <= PIPELENGTH)
        /\ flow \in T /\ regs \in T /\ mem \in T
    BY <1>0, <2>1
  <2> HIDE DEF T
  <2>4. Max(T) \in T /\ \A k \in T : Max(T) >= k  BY <1>0, <2>3, Greatest
  <2>5. Max(T) \in Int /\ Max(T) >= flow /\ Max(T) >= regs /\ Max(T) >= mem
    BY <2>3, <2>4
  <2> QED BY <2>1, <2>2, <2>5
<1>3. UsedInOrder(o1, o2, d)
  <2> SUFFICES ASSUME IsUse(o1, o2) PROVE d + r2 >= w1 + 1  BY DEF UsedInOrder
  <2> DEFINE s == w1 - r2
             top == Max({0, s})
  <2>1. FeedbackLatencies(o1, o2) = {}
    <3>1. ops[o1].class \in Class /\ ops[o2].class \in Class  BY Times
    <3>2. Deq[ops[o1].class] = -1 \/ Enq[ops[o2].class] = -1
          \/ Deq[ops[o1].class] = Enq[ops[o2].class]
      BY <3>1 DEF TimesListed
    <3> QED BY <3>2 DEF FeedbackLatencies
  <2>2. flow = Min({top})
    <3>1. flow = Min({top} \union FeedbackLatencies(o1, o2))  BY DEF NrFlowDepCycles
    <3>2. {top} \union FeedbackLatencies(o1, o2) = {top}  BY <2>1
    <3> QED BY <3>1, <3>2
  <2> HIDE DEF w1, r2, flow
  <2>3. s \in Int /\ 0 \in Int  BY <1>1
  <2> HIDE DEF s
  <2>4. top \in Int /\ top >= s  BY <2>3, MaxOfPair
  <2> HIDE DEF top
  <2>5. Min({top}) = top  BY <2>4 DEF Min
  <2>6. d >= s + 1  BY <1>2, <2>2, <2>3, <2>4, <2>5
  <2> QED BY <1>1, <2>6 DEF s
<1>4. WrittenInOrder(o1, o2, d)
  <2> DEFINE output == IF EqualRegs(ops[o1].dest, ops[o2].dest) THEN Max({1, w1 - w2}) ELSE 0
             anti == IF EqualRegs(ops[o1].src, ops[o2].dest) THEN Max({1, r1 - w2}) ELSE 0
  <2>1. regs = Max({output, anti})  BY DEF NrOutputAntiDepCycles
  <2> HIDE DEF w1, w2, r1, regs
  <2>2. /\ 1 \in Int /\ w1 - w2 \in Int /\ r1 - w2 \in Int  BY <1>1
  <2>3. /\ Max({1, w1 - w2}) \in Int /\ Max({1, w1 - w2}) >= w1 - w2
        /\ Max({1, r1 - w2}) \in Int /\ Max({1, r1 - w2}) >= r1 - w2
    BY <2>2, MaxOfPair
  <2>4. output \in Int /\ anti \in Int  BY <2>3
  <2>5. regs >= output /\ regs >= anti
    <3> HIDE DEF output, anti
    <3> QED BY <2>1, <2>4, MaxOfPair
  <2>6. ASSUME EqualRegs(ops[o1].dest, ops[o2].dest) PROVE d + w2 > w1
    <3>1. output = Max({1, w1 - w2})  BY <2>6
    <3> HIDE DEF output
    <3> QED BY <1>1, <1>2, <2>3, <2>4, <2>5, <3>1
  <2>7. ASSUME ops[o1].src = ops[o2].dest PROVE d + w2 > r1
    <3>1. EqualRegs(ops[o1].src, ops[o2].dest)  BY <2>7, Sources DEF EqualRegs
    <3>2. anti = Max({1, r1 - w2})  BY <3>1
    <3> HIDE DEF anti
    <3> QED BY <1>1, <1>2, <2>3, <2>4, <2>5, <3>2
  <2> QED BY <2>6, <2>7 DEF WrittenInOrder, w1, w2, r1
<1>5. MemoryInOrder(o1, o2, d)
  <2> SUFFICES ASSUME MemoryDependent(o1, o2) PROVE d + m2 > m1  BY DEF MemoryInOrder
  <2>1. mem = Max({0, m1 - m2})  BY DEF NrMemoryDepCycles
  <2> HIDE DEF m1, m2, mem
  <2>2. 0 \in Int /\ m1 - m2 \in Int  BY <1>1
  <2>3. Max({0, m1 - m2}) >= m1 - m2  BY <2>2, MaxOfPair
  <2> QED BY <1>1, <1>2, <2>1, <2>3
<1> QED BY <1>3, <1>4, <1>5 DEF InOrder

LEMMA LongestTable ==
    ASSUME Typed, NEW instr \in SUBSET Op, NEW o \in instr, NEW t \in Int,
           Listed(ops[o].class, t)
    PROVE  /\ MaxReservationTableSize(instr) \in Nat
           /\ MaxReservationTableSize(instr) >= t
<1> DEFINE S == {j \in Stage : \E a \in instr : Table[ops[a].class][j] # {}}
           T == {0} \union S
<1>0. PIPELENGTH \in Nat \ {0}  BY SpreadAssumption
<1>1. PICK j \in Stage : j >= t /\ Table[ops[o].class][j] # {}  BY DEF Listed
<1>2. MaxReservationTableSize(instr) = Max(T)  BY DEF MaxReservationTableSize
<1>3. T \in SUBSET Nat /\ T \in SUBSET Int /\ T # {} /\ j \in T
      /\ \A k \in T : k <= PIPELENGTH
  BY <1>0, <1>1 DEF Stage
<1> HIDE DEF T
<1>4. Max(T) \in T /\ \A k \in T : Max(T) >= k  BY <1>0, <1>3, Greatest
<1>5. Max(T) \in Nat /\ Max(T) >= j /\ j \in Int  BY <1>3, <1>4
<1> QED BY <1>1, <1>2, <1>5

\* What is past the longest table of an instruction is past all its accesses.
LEMMA FarEnough ==
    ASSUME TimesListed, Typed, NEW instr \in SUBSET Op, NEW o1 \in instr, NEW o2 \in Op,
           NEW d \in Nat, d >= MaxReservationTableSize(instr)
    PROVE  InOrder(o1, o2, d)
<1> DEFINE w1 == WriteTime[ops[o1].class]
           w2 == WriteTime[ops[o2].class]
           r1 == ReadTime[ops[o1].class]
           r2 == ReadTime[ops[o2].class]
           m1 == MemoryTime[ops[o1].class]
           m2 == MemoryTime[ops[o2].class]
           long == MaxReservationTableSize(instr)
<1>0. PIPELENGTH \in Nat /\ o1 \in Op  BY SpreadAssumption
<1>1. w1 \in Int /\ w2 \in Int /\ r1 \in Int /\ r2 \in Int /\ m1 \in Int /\ m2 \in Int
      /\ r2 >= 1 /\ ops[o1].class \in Class /\ ops[o2].class \in Class
  <2>1. ReadTime \in [Class -> Stage \ {0}]  BY SpreadAssumption
  <2> QED BY Times, <1>0, <2>1 DEF Stage
<1>2. \A t \in Int : Listed(ops[o1].class, t) => d >= t
  <2> TAKE t \in Int
  <2> HAVE Listed(ops[o1].class, t)
  <2>1. long \in Nat /\ long >= t  BY LongestTable
  <2> HIDE DEF long
  <2>2. d >= long  BY DEF long
  <2> QED BY <2>1, <2>2
<1>3. UsedInOrder(o1, o2, d)
  <2> SUFFICES ASSUME IsUse(o1, o2) PROVE d + r2 >= w1 + 1  BY DEF UsedInOrder
  <2>1. ops[o1].dest \in Reg  BY Sources, <1>0 DEF IsUse
  <2>2. Listed(ops[o1].class, w1)  BY <1>0, <1>1, <2>1, Destination DEF TimesListed
  <2>3. d >= w1  BY <1>1, <1>2, <2>2
  <2> HIDE DEF w1, r2
  <2> QED BY <1>1, <2>3
<1>4. WrittenInOrder(o1, o2, d)
  <2>1. ASSUME EqualRegs(ops[o1].dest, ops[o2].dest) PROVE d + w2 > w1
    <3>1. ops[o1].dest \in Reg /\ ops[o2].dest \in Reg
      BY <1>0, <2>1, Sources DEF EqualRegs
    <3>2. Listed(ops[o1].class, w1) /\ w2 > 0
      BY <1>0, <1>1, <3>1, Destination DEF TimesListed
    <3>3. d >= w1  BY <1>1, <1>2, <3>2
    <3> HIDE DEF w1, w2
    <3> QED BY <1>1, <3>2, <3>3
  <2>2. ASSUME ops[o1].src = ops[o2].dest PROVE d + w2 > r1
    <3>1. ops[o2].dest \in Reg  BY <1>0, <2>2, Sources
    <3>2. Listed(ops[o1].class, r1) /\ w2 > 0
      BY <1>0, <1>1, <3>1, Destination DEF TimesListed
    <3>3. d >= r1  BY <1>1, <1>2, <3>2
    <3> HIDE DEF r1, w2
    <3> QED BY <1>1, <3>2, <3>3
  <2> QED BY <2>1, <2>2 DEF WrittenInOrder
<1>5. MemoryInOrder(o1, o2, d)
  <2> SUFFICES ASSUME MemoryDependent(o1, o2) PROVE d + m2 > m1  BY DEF MemoryInOrder
  <2>1. Access[ops[o1].class] # "none" /\ Access[ops[o2].class] # "none"
    BY DEF MemoryDependent
  <2>2. Listed(ops[o1].class, m1) /\ m2 > 0  BY <1>1, <2>1 DEF TimesListed
  <2>3. d >= m1  BY <1>1, <1>2, <2>2
  <2> HIDE DEF m1, m2
  <2> QED BY <1>1, <2>2, <2>3
<1> QED BY <1>3, <1>4, <1>5 DEF InOrder

\* Moving two operations apart leaves their accesses in order.
LEMMA FurtherApart ==
    ASSUME Typed, NEW o1 \in Op, NEW o2 \in Op, NEW d \in Int, NEW e \in Int, e >= d,
           InOrder(o1, o2, d)
    PROVE  InOrder(o1, o2, e)
<1>0. PIPELENGTH \in Nat  BY SpreadAssumption
<1>1. /\ WriteTime[ops[o1].class] \in Int /\ WriteTime[ops[o2].class] \in Int
      /\ ReadTime[ops[o1].class] \in Int /\ ReadTime[ops[o2].class] \in Int
      /\ MemoryTime[ops[o1].class] \in Int /\ MemoryTime[ops[o2].class] \in Int
  BY Times, <1>0 DEF Stage
<1> QED BY <1>1 DEF InOrder, UsedInOrder, WrittenInOrder, MemoryInOrder

-----------------------------------------------------------------------------
(* Empty instructions move instructions apart and change no use list. *)

\* w tells where in t the instructions of s are; the others of t are empty.
Stretched(s, t, w) ==
    /\ \A k \in 1..Len(s) :
         /\ w[k] \in 1..Len(t) /\ t[w[k]] = s[k]
         /\ w[k] >= k /\ Len(t) - w[k] >= Len(s) - k
         /\ \A l \in 1..Len(s) : k < l => w[l] - w[k] >= l - k
    /\ \A j \in 1..Len(t) : t[j] = {} \/ \E k \in 1..Len(s) : j = w[k]

Shift(n) ==
    [b \in Block |-> [k \in 1..Len(code[b]) |-> IF b = block /\ k > pos THEN k + n ELSE k]]

LEMMA InsertionStretches ==
    ASSUME Inv, block \in Block, pos > 0, NEW n \in Nat,
           code' = [code EXCEPT ![block] = WithEmpties(n)],
           ops' = ops /\ block' = block /\ pos' = pos
    PROVE  \A b \in Block : Stretched(code[b], code'[b], Shift(n)[b])
<1>1. /\ \A b \in Block : Len(code[b]) \in Nat
      /\ code \in [Block -> Seq(Instructions)] /\ pos \in 1..Len(code[block])
  <2>1. \A b \in Block : code[b] \in Seq(Instructions)  BY DEF Inv
  <2>2. \A b \in Block : Len(code[b]) \in Nat  BY <2>1, LenProperties
  <2>3. pos \in 0..Len(code[block])  BY DEF Inv
  <2> QED BY <2>2, <2>3 DEF Inv
<1> SUFFICES ASSUME NEW b \in Block PROVE Stretched(code[b], code'[b], Shift(n)[b])
  OBVIOUS
<1>2. PICK s : s = code[b]  OBVIOUS
<1>3. PICK t : t = code'[b]  OBVIOUS
<1>4. PICK w : w = Shift(n)[b]  OBVIOUS
<1>5. Len(s) \in Nat /\ w = [k \in 1..Len(s) |-> IF b = block /\ k > pos THEN k + n ELSE k]
  BY <1>1, <1>2, <1>4 DEF Shift
<1>6. CASE b # block
  <2>1. t = s  BY <1>1, <1>2, <1>3, <1>6
  <2>2. \A k \in 1..Len(s) : w[k] = k  BY <1>5, <1>6
  <2>3. Stretched(s, t, w)  BY <1>5, <2>1, <2>2 DEF Stretched
  <2> QED BY <1>2, <1>3, <1>4, <2>3
<1>7. CASE b = block
  <2>1. t = Spaced(s, pos, n) /\ s \in Seq(Instructions) /\ pos \in 1..Len(s)
    <3>1. t = WithEmpties(n)  BY <1>1, <1>3, <1>7
    <3> QED BY <1>1, <1>2, <1>7, <3>1 DEF WithEmpties, Spaced, AheadInBlock
  <2>2. /\ Len(t) = Len(s) + n
        /\ \A j \in 1..pos : t[j] = s[j]
        /\ \A j \in (pos + 1)..(pos + n) : t[j] = {}
        /\ \A j \in (pos + n + 1)..(Len(s) + n) : t[j] = s[j - n]
    <3>1. LET x == Spaced(s, pos, n) IN
          /\ Len(x) = Len(s) + n
          /\ \A j \in 1..pos : x[j] = s[j]
          /\ \A j \in (pos + 1)..(pos + n) : x[j] = {}
          /\ \A j \in (pos + n + 1)..(Len(s) + n) : x[j] = s[j - n]
      BY <2>1, SpacedBlock
    <3> QED BY <2>1, <3>1
  <2>3. PICK m : m = Len(s)  OBVIOUS
  <2>4. m \in Nat /\ pos \in 1..m /\ Len(t) = m + n  BY <1>5, <2>1, <2>2, <2>3
  <2>5. \A k \in 1..m : w[k] = IF k > pos THEN k + n ELSE k  BY <1>5, <1>7, <2>3
  <2>6. \A k \in 1..m : t[w[k]] = s[k]
    <3> TAKE k \in 1..m
    <3>1. CASE k > pos
      <4>1. w[k] = k + n /\ k + n \in (pos + n + 1)..(m + n) /\ k + n - n = k
        BY <2>4, <2>5, <3>1
      <4> QED BY <2>2, <2>3, <4>1
    <3>2. CASE ~(k > pos)
      <4>1. w[k] = k /\ k \in 1..pos  BY <2>4, <2>5, <3>2
      <4> QED BY <2>2, <4>1
    <3> QED BY <3>1, <3>2
  <2>7. \A k \in 1..m : /\ w[k] \in 1..(m + n) /\ w[k] >= k /\ m + n - w[k] >= m - k
                        /\ \A l \in 1..m : k < l => w[l] - w[k] >= l - k
    BY <2>4, <2>5
  <2>8. \A j \in 1..(m + n) : t[j] = {} \/ \E k \in 1..m : j = w[k]
    <3> TAKE j \in 1..(m + n)
    <3>1. CASE j <= pos
      <4>1. j \in 1..m /\ j = w[j]  BY <2>4, <2>5, <3>1
      <4> QED BY <4>1
    <3>2. CASE j > pos /\ j <= pos + n
      <4>1. j \in (pos + 1)..(pos + n)  BY <2>4, <3>2
      <4> QED BY <2>2, <4>1
    <3>3. CASE j > pos + n
      <4>1. j - n \in 1..m /\ j = w[j - n]  BY <2>4, <2>5, <3>3
      <4> QED BY <4>1
    <3> QED BY <2>4, <3>1, <3>2, <3>3
  <2>9. Stretched(s, t, w)
    <3>1. \A k \in 1..Len(s) : t[w[k]] = s[k]
      BY <2>3, <2>6
    <3>2. \A k \in 1..Len(s) :
            /\ w[k] \in 1..Len(t) /\ w[k] >= k /\ Len(t) - w[k] >= Len(s) - k
            /\ \A l \in 1..Len(s) : k < l => w[l] - w[k] >= l - k
      BY <2>3, <2>4, <2>7
    <3>3. \A j \in 1..Len(t) : t[j] = {} \/ \E k \in 1..Len(s) : j = w[k]
      BY <2>3, <2>4, <2>8
    <3> QED BY <3>1, <3>2, <3>3, Zenon DEF Stretched
  <2> QED BY <1>2, <1>3, <1>4, <2>9
<1> QED BY <1>6, <1>7

\* What an empty instruction does not define leaves the use lists as they are.
LEMMA UsesKept ==
    ASSUME NEW W, ops' = ops,
           \A b \in Block : Len(code[b]) \in Nat /\ Len(code'[b]) \in Nat,
           \A b \in Block : DOMAIN code[b] = 1..Len(code[b]) /\ DOMAIN code'[b] = 1..Len(code'[b]),
           \A b \in Block : Stretched(code[b], code'[b], W[b])
    PROVE  \A o1, o2 \in Op : IsUse(o1, o2)' => IsUse(o1, o2)
<1>1. /\ \A b, f, t, r : Clear(b, f, t, r)' <=> \A k \in f..t : ~Defines(code'[b][k], r)
      /\ \A b, f, t, r : Clear(b, f, t, r) <=> \A k \in f..t : ~Defines(code[b][k], r)
  BY DEF Clear, Defines
<1>2. \A r : ~Defines({}, r)  BY DEF Defines
<1>3. ASSUME NEW b \in Block, NEW k \in 1..Len(code[b])
      PROVE  /\ W[b][k] \in 1..Len(code'[b]) /\ code'[b][W[b][k]] = code[b][k]
             /\ \A l \in 1..Len(code[b]) : k < l <=> W[b][k] < W[b][l]
  <2>1. /\ W[b][k] \in 1..Len(code'[b]) /\ code'[b][W[b][k]] = code[b][k]
    BY DEF Stretched
  <2>2. ASSUME NEW l \in 1..Len(code[b])
        PROVE  k < l <=> W[b][k] < W[b][l]
    <3>1. /\ k < l => W[b][l] - W[b][k] >= l - k
          /\ l < k => W[b][k] - W[b][l] >= k - l
          /\ W[b][k] \in 1..Len(code'[b]) /\ W[b][l] \in 1..Len(code'[b])
      BY DEF Stretched
    <3>2. PICK x : x = W[b][k]  OBVIOUS
    <3>3. PICK y : y = W[b][l]  OBVIOUS
    <3>4. x \in Int /\ y \in Int /\ k \in Int /\ l \in Int
      BY <3>1, <3>2, <3>3
    <3>5. CASE k < l  BY <3>1, <3>2, <3>3, <3>4, <3>5
    <3>6. CASE l < k  BY <3>1, <3>2, <3>3, <3>4, <3>6
    <3>7. CASE k = l  BY <3>2, <3>3, <3>4, <3>7
    <3> QED BY <3>4, <3>5, <3>6, <3>7
  <2> QED BY <2>1, <2>2
<1>5. ASSUME NEW b \in Block, NEW r
      PROVE  Clear(b, 1, Len(code[b]), r)' <=> Clear(b, 1, Len(code[b]), r)
  <2>1. Clear(b, 1, Len(code[b]), r)' <=>
          \A k \in 1..Len(code'[b]) : ~Defines(code'[b][k], r)
    BY DEF Clear, Defines
  <2>2. ASSUME Clear(b, 1, Len(code[b]), r), NEW j \in 1..Len(code'[b])
        PROVE  ~Defines(code'[b][j], r)
    <3>1. CASE code'[b][j] = {}  BY <1>2, <3>1
    <3>2. CASE \E k \in 1..Len(code[b]) : j = W[b][k]
      <4>1. PICK k \in 1..Len(code[b]) : j = W[b][k]  BY <3>2
      <4>2. code'[b][j] = code[b][k]  BY <1>3, <4>1
      <4> QED BY <1>1, <2>2, <4>2
    <3> QED BY <3>1, <3>2 DEF Stretched
  <2>3. ASSUME \A k \in 1..Len(code'[b]) : ~Defines(code'[b][k], r)
        PROVE  Clear(b, 1, Len(code[b]), r)
    BY <1>1, <1>3, <2>3
  <2> QED BY <2>1, <2>2, <2>3
<1>6. \A b \in Block : \A r : Reached(b, r)' = Reached(b, r)
  <2>1. \A S \in SUBSET Block : \A r : Closed(S, r)' <=> Closed(S, r)
    BY <1>5 DEF Closed
  <2> QED BY <2>1 DEF Reached
\* Where an operation is now it came from.
<1>7. ASSUME NEW b \in Block, NEW j \in 1..Len(code'[b]), NEW o \in code'[b][j]
      PROVE  \E k \in 1..Len(code[b]) : j = W[b][k] /\ o \in code[b][k]
  <2>1. PICK k \in 1..Len(code[b]) : j = W[b][k]  BY DEF Stretched
  <2> QED BY <1>3, <2>1
<1> SUFFICES ASSUME NEW o1 \in Op, NEW o2 \in Op, IsUse(o1, o2)' PROVE IsUse(o1, o2)
  OBVIOUS
<1> DEFINE r == ops[o1].dest
<1>8. PICK b \in Block : \E p \in DOMAIN code'[b] :
        /\ o1 \in code'[b][p]
        /\ \/ \E q \in (p + 1)..Len(code'[b]) :
                o2 \in code'[b][q] /\ Clear(b, p + 1, q - 1, ops[o1].dest)'
           \/ /\ Clear(b, p + 1, Len(code[b]), ops[o1].dest)'
              /\ \E c \in Reached(b, ops[o1].dest)' : \E q \in DOMAIN code'[c] :
                   o2 \in code'[c][q] /\ Clear(c, 1, q - 1, ops[o1].dest)'
  BY DEF IsUse
<1>9. ops[o2].src = r /\ r # NoReg
  BY DEF IsUse
<1>10. PICK p \in 1..Len(code'[b]) :
         /\ o1 \in code'[b][p]
         /\ \/ \E q \in (p + 1)..Len(code'[b]) :
                 o2 \in code'[b][q] /\ \A k \in (p + 1)..(q - 1) : ~Defines(code'[b][k], r)
            \/ /\ \A k \in (p + 1)..Len(code'[b]) : ~Defines(code'[b][k], r)
               /\ \E c \in Reached(b, r) : \E q \in 1..Len(code'[c]) :
                    o2 \in code'[c][q] /\ \A k \in 1..(q - 1) : ~Defines(code'[c][k], r)
  <2>1. Reached(b, ops[o1].dest)' = Reached(b, r)
    BY <1>6
  <2>2. \A c \in Reached(b, r) : c \in Block  BY DEF Reached
  <2>3. PICK p \in 1..Len(code'[b]) :
        /\ o1 \in code'[b][p]
        /\ \/ \E q \in (p + 1)..Len(code'[b]) :
                o2 \in code'[b][q] /\ Clear(b, p + 1, q - 1, ops[o1].dest)'
           \/ /\ Clear(b, p + 1, Len(code[b]), ops[o1].dest)'
              /\ \E c \in Reached(b, ops[o1].dest)' : \E q \in DOMAIN code'[c] :
                   o2 \in code'[c][q] /\ Clear(c, 1, q - 1, ops[o1].dest)'
    BY <1>8
  <2>4. \A q : Clear(b, p + 1, q - 1, ops[o1].dest)' =>
               \A k \in (p + 1)..(q - 1) : ~Defines(code'[b][k], r)
    BY DEF Clear, Defines
  <2>5. Clear(b, p + 1, Len(code[b]), ops[o1].dest)' =>
          \A k \in (p + 1)..Len(code'[b]) : ~Defines(code'[b][k], r)
    BY DEF Clear, Defines
  <2>6. \A c, q : Clear(c, 1, q - 1, ops[o1].dest)' =>
                  \A k \in 1..(q - 1) : ~Defines(code'[c][k], r)
    BY DEF Clear, Defines
  <2>7. (\E c \in Reached(b, ops[o1].dest)' : \E q \in DOMAIN code'[c] :
           o2 \in code'[c][q] /\ Clear(c, 1, q - 1, ops[o1].dest)') =>
        (\E c \in Reached(b, r) : \E q \in 1..Len(code'[c]) :
           o2 \in code'[c][q] /\ \A k \in 1..(q - 1) : ~Defines(code'[c][k], r))
    BY <2>1, <2>2, <2>6
  <2> QED BY <2>3, <2>4, <2>5, <2>7
<1>11. PICK k \in 1..Len(code[b]) : p = W[b][k] /\ o1 \in code[b][k]
  BY <1>7, <1>10
<1>12. CASE \E q \in (p + 1)..Len(code'[b]) :
              o2 \in code'[b][q] /\ \A l \in (p + 1)..(q - 1) : ~Defines(code'[b][l], r)
  <2>1. PICK q \in (p + 1)..Len(code'[b]) :
          o2 \in code'[b][q] /\ \A l \in (p + 1)..(q - 1) : ~Defines(code'[b][l], r)
    BY <1>12
  <2>2. q \in 1..Len(code'[b])  BY <1>10, <2>1
  <2>3. PICK l \in 1..Len(code[b]) : q = W[b][l] /\ o2 \in code[b][l]
    BY <1>7, <2>1, <2>2
  <2>4. l \in (k + 1)..Len(code[b])
    <3>1. W[b][k] < W[b][l]  BY <1>10, <1>11, <2>1, <2>3
    <3>2. k < l  BY <1>3, <3>1
    <3> QED BY <3>2
  <2>5. Clear(b, k + 1, l - 1, r)
    <3>1. \A m \in (k + 1)..(l - 1) : m \in 1..Len(code[b]) /\ k < m /\ m < l
      OBVIOUS
    <3>2. \A m \in (k + 1)..(l - 1) :
            W[b][k] < W[b][m] /\ W[b][m] < W[b][l] /\ W[b][m] \in 1..Len(code'[b])
      BY <1>3, <3>1
    <3>3. \A m \in (k + 1)..(l - 1) : W[b][m] \in (p + 1)..(q - 1)
      <4> TAKE m \in (k + 1)..(l - 1)
      <4>1. PICK x, y : x = W[b][m] /\ y = Len(code'[b])  OBVIOUS
      <4>2. p < x /\ x < q /\ x \in 1..y  BY <1>11, <2>3, <3>2, <4>1
      <4>3. p \in 1..y /\ q \in 1..y  BY <2>2, <4>1
      <4>4. x \in (p + 1)..(q - 1)  BY <4>2, <4>3
      <4> QED BY <4>1, <4>4
    <3>4. \A m \in (k + 1)..(l - 1) : ~Defines(code[b][m], r)
      <4> TAKE m \in (k + 1)..(l - 1)
      <4>1. code'[b][W[b][m]] = code[b][m]  BY <1>3, <3>1
      <4> QED BY <2>1, <3>3, <4>1
    <3> QED BY <1>1, <3>4
  <2> QED BY <1>9, <1>11, <2>3, <2>4, <2>5 DEF IsUse
<1>13. CASE /\ \A l \in (p + 1)..Len(code'[b]) : ~Defines(code'[b][l], r)
            /\ \E c \in Reached(b, r) : \E q \in 1..Len(code'[c]) :
                 o2 \in code'[c][q] /\ \A l \in 1..(q - 1) : ~Defines(code'[c][l], r)
  <2>1. PICK c \in Reached(b, r) : \E q \in 1..Len(code'[c]) :
          o2 \in code'[c][q] /\ \A l \in 1..(q - 1) : ~Defines(code'[c][l], r)
    BY <1>13
  <2>2. PICK q \in 1..Len(code'[c]) :
          o2 \in code'[c][q] /\ \A l \in 1..(q - 1) : ~Defines(code'[c][l], r)
    BY <2>1
  <2>3. c \in Block  BY DEF Reached
  <2>4. PICK l \in 1..Len(code[c]) : q = W[c][l] /\ o2 \in code[c][l]
    BY <1>7, <2>2, <2>3
  <2>5. Clear(b, k + 1, Len(code[b]), r)
    <3>1. \A m \in (k + 1)..Len(code[b]) : m \in 1..Len(code[b]) /\ k < m
      OBVIOUS
    <3>2. \A m \in (k + 1)..Len(code[b]) :
            W[b][k] < W[b][m] /\ W[b][m] \in 1..Len(code'[b])
      BY <1>3, <3>1
    <3>3. \A m \in (k + 1)..Len(code[b]) : W[b][m] \in (p + 1)..Len(code'[b])
      <4> TAKE m \in (k + 1)..Len(code[b])
      <4>1. PICK x, y : x = W[b][m] /\ y = Len(code'[b])  OBVIOUS
      <4>2. p < x /\ x \in 1..y /\ p \in 1..y  BY <1>11, <3>2, <4>1
      <4>3. x \in (p + 1)..y  BY <4>2
      <4> QED BY <4>1, <4>3
    <3>4. \A m \in (k + 1)..Len(code[b]) : ~Defines(code[b][m], r)
      <4> TAKE m \in (k + 1)..Len(code[b])
      <4>1. code'[b][W[b][m]] = code[b][m]  BY <1>3, <3>1
      <4> QED BY <1>13, <3>3, <4>1
    <3> QED BY <1>1, <3>4
  <2>6. Clear(c, 1, l - 1, r)
    <3>1. \A m \in 1..(l - 1) : m \in 1..Len(code[c]) /\ m < l
      BY <2>3
    <3>2. \A m \in 1..(l - 1) :
            W[c][m] < W[c][l] /\ W[c][m] \in 1..Len(code'[c])
      BY <1>3, <2>3, <3>1
    <3>3. \A m \in 1..(l - 1) : W[c][m] \in 1..(q - 1)
      BY <2>2, <2>4, <3>2
    <3>4. \A m \in 1..(l - 1) : ~Defines(code[c][m], r)
      <4> TAKE m \in 1..(l - 1)
      <4>1. code'[c][W[c][m]] = code[c][m]  BY <1>3, <2>3, <3>1
      <4> QED BY <2>2, <3>3, <4>1
    <3> QED BY <1>1, <3>4
  <2> QED BY <1>9, <1>11, <2>1, <2>3, <2>4, <2>5, <2>6 DEF IsUse
<1> QED BY <1>10, <1>12, <1>13

-----------------------------------------------------------------------------
(* Every step leaves in order what has been spread. *)

\* The instructions whose dependences have been counted.
Handled(b, p) == b < block \/ (b = block /\ (p > pos \/ (p = pos /\ inserted >= 0)))

\* An operation and what follows it, in its block and in the next.
OrderedBehind(b, p, o1) ==
    /\ \A q \in (p + 1)..Len(code[b]) : \A o2 \in code[b][q] : InOrder(o1, o2, q - p)
    /\ \A c \in Successors[b] : \A q \in 1..Len(code[c]) : \A o2 \in code[c][q] :
         InOrder(o1, o2, q + Len(code[b]) - p)

OrderSoFar ==
    \A b \in Block : \A p \in 1..Len(code[b]) :
      Handled(b, p) => \A o1 \in code[b][p] : OrderedBehind(b, p, o1)

LEMMA CodeTypes ==
    ASSUME Inv
    PROVE  /\ \A b \in Block : /\ Len(code[b]) \in Nat /\ DOMAIN code[b] = 1..Len(code[b])
                               /\ \A p \in 1..Len(code[b]) : code[b][p] \in SUBSET Op
           /\ \A b \in Block : \A c \in Successors[b] : c \in Block
<1>1. \A b \in Block : code[b] \in Seq(Instructions)  BY DEF Inv
<1>2. \A b \in Block : Len(code[b]) \in Nat /\ DOMAIN code[b] = 1..Len(code[b])
  BY <1>1, LenProperties
<1>3. \A b \in Block : \A p \in 1..Len(code[b]) : code[b][p] \in SUBSET Op
  BY <1>1, <1>2, ElementOfSeq DEF Instructions
<1>4. \A b \in Block : \A c \in Successors[b] : c \in Block
  BY LayoutAssumption
<1> QED BY <1>2, <1>3, <1>4

\* What is stretched stays in order.
LEMMA StretchKeepsOrder ==
    ASSUME Inv, Inv', NEW W, ops' = ops,
           \A b \in Block : Stretched(code[b], code'[b], W[b]),
           NEW b \in Block, NEW p \in 1..Len(code[b]), NEW o1 \in code[b][p],
           OrderedBehind(b, p, o1), NEW x, x = W[b][p], NEW m, m = Len(code'[b])
    PROVE  /\ \A q \in (x + 1)..Len(code'[b]) : \A o2 \in code'[b][q] :
                InOrder(o1, o2, q - x)'
           /\ \A c \in Successors[b] : \A q \in 1..Len(code'[c]) : \A o2 \in code'[c][q] :
                InOrder(o1, o2, q + m - x)'
<1>1. /\ \A c \in Block : Len(code[c]) \in Nat /\ Len(code'[c]) \in Nat
      /\ \A c \in Block : DOMAIN code[c] = 1..Len(code[c]) /\ DOMAIN code'[c] = 1..Len(code'[c])
      /\ \A c \in Block : \A k \in 1..Len(code[c]) : code[c][k] \in SUBSET Op
      /\ \A c \in Successors[b] : c \in Block
      /\ o1 \in Op /\ Typed
  <2>1. /\ \A c \in Block : Len(code'[c]) \in Nat /\ DOMAIN code'[c] = 1..Len(code'[c])
    <3>1. code' \in [Block -> Seq(Instructions)]  BY DEF Inv
    <3> QED BY <3>1, LenProperties
  <2>2. Typed  BY DEF Inv
  <2> QED BY <2>1, <2>2, CodeTypes
<1>2. \A a1, a2 \in Op : IsUse(a1, a2)' => IsUse(a1, a2)
  BY <1>1, UsesKept
<1>3. ASSUME NEW o2 \in Op, NEW d \in Int, NEW e \in Int, e >= d, InOrder(o1, o2, d)
      PROVE  InOrder(o1, o2, e)'
  <2>1. InOrder(o1, o2, e)  BY <1>1, <1>3, FurtherApart
  <2>2. IsUse(o1, o2)' => IsUse(o1, o2)  BY <1>1, <1>2
  <2> QED BY <2>1, <2>2 DEF InOrder, UsedInOrder, WrittenInOrder, MemoryInOrder,
                            EqualRegs, MemoryDependent
<1>4. ASSUME NEW c \in Block, NEW q \in 1..Len(code'[c]), NEW o2 \in code'[c][q]
      PROVE  \E k \in 1..Len(code[c]) : q = W[c][k] /\ o2 \in code[c][k] /\ o2 \in Op
  <2>1. PICK k \in 1..Len(code[c]) : q = W[c][k]  BY <1>4 DEF Stretched
  <2>2. code'[c][q] = code[c][k]  BY <2>1 DEF Stretched
  <2> QED BY <1>1, <2>1, <2>2
<1>5. /\ x \in 1..Len(code'[b]) /\ x >= p /\ Len(code'[b]) - x >= Len(code[b]) - p
  BY DEF Stretched
<1>6. ASSUME NEW q \in (x + 1)..Len(code'[b]), NEW o2 \in code'[b][q]
      PROVE  InOrder(o1, o2, q - x)'
  <2>1. q \in 1..Len(code'[b]) /\ q > x /\ q \in Int /\ x \in Int  BY <1>1, <1>5, <1>6
  <2>2. PICK k \in 1..Len(code[b]) : q = W[b][k] /\ o2 \in code[b][k] /\ o2 \in Op
    BY <1>4, <1>6, <2>1
  <2>3. k > p
    <3>1. ~(k < p)
      <4>1. k < p => x - q >= p - k  BY <2>2 DEF Stretched
      <4> QED BY <2>1, <4>1
    <3>2. k # p  BY <2>1, <2>2
    <3> QED BY <3>1, <3>2
  <2>4. q - x >= k - p  BY <2>2, <2>3 DEF Stretched
  <2>5. k \in (p + 1)..Len(code[b])  BY <1>1, <2>3
  <2>6. InOrder(o1, o2, k - p)  BY <2>2, <2>5 DEF OrderedBehind
  <2>7. k - p \in Int /\ q - x \in Int  BY <2>1
  <2> QED BY <1>3, <2>2, <2>4, <2>6, <2>7
<1>7. ASSUME NEW c \in Successors[b], NEW q \in 1..Len(code'[c]), NEW o2 \in code'[c][q]
      PROVE  InOrder(o1, o2, q + m - x)'
  <2>1. c \in Block  BY <1>1
  <2>2. PICK k \in 1..Len(code[c]) : q = W[c][k] /\ o2 \in code[c][k] /\ o2 \in Op
    BY <1>4, <1>7, <2>1
  <2>3. q >= k  BY <2>1, <2>2 DEF Stretched
  <2>5. PICK n : n = Len(code[b])  OBVIOUS
  <2>6. m \in Nat /\ n \in Nat /\ x \in Int /\ m - x >= n - p /\ q \in Int /\ k \in Int
    BY <1>1, <1>5, <2>5
  <2>7. q + m - x >= k + n - p /\ q + m - x \in Int /\ k + n - p \in Int
    <3>1. PICK d \in Int : d = m - x  BY <2>6
    <3>2. PICK e \in Int : e = n - p  BY <2>6
    <3>3. d >= e  BY <2>6, <3>1, <3>2
    <3>4. q + d >= k + e  BY <2>3, <2>6, <3>3
    <3>5. q + m - x = q + d /\ k + n - p = k + e  BY <2>6, <3>1, <3>2
    <3> QED BY <2>6, <3>4, <3>5
  <2>8. InOrder(o1, o2, k + n - p)  BY <2>2, <2>5 DEF OrderedBehind
  <2> QED BY <1>3, <2>2, <2>7, <2>8
<1> QED BY <1>6, <1>7

\* SpreadDependences puts enough behind an instruction.
LEMMA MissingEnough ==
    ASSUME TimesListed, Inv, block \in Block, pos > 0,
           NEW o1 \in code[block][pos], NEW next \in Ahead, NEW j \in DOMAIN next,
           NEW o2 \in next[j], NEW n, n = Missing
    PROVE  InOrder(o1, o2, j + n)
<1> DEFINE i == code[block][pos]
           cycles(x) == {NrCycles(i, x[k]) - k : k \in {k \in DOMAIN x : k < Lookahead}}
           S == UNION {cycles(x) : x \in Ahead}
           T == {0} \union S
<1>1. i \in SUBSET Op /\ Typed /\ n \in Nat
  <2>1. pos \in 1..Len(code[block])
    <3>1. pos \in 0..Len(code[block])  BY DEF Inv
    <3> QED BY <3>1, CodeTypes
  <2> QED BY <2>1, CodeTypes, MissingNatural DEF Inv
<1>2. AheadInBlock \in Seq(Instructions)
  <2>1. code[block] \in Seq(Instructions) /\ Len(code[block]) \in Nat
    BY CodeTypes DEF Inv
  <2>2. pos \in 0..Len(code[block])  BY DEF Inv
  <2>3. \A k \in (pos + 1)..Len(code[block]) : code[block][k] \in Instructions
    BY <2>1, <2>2, ElementOfSeq
  <2>4. pos + 1 \in Int /\ Len(code[block]) \in Int  BY <2>1, <2>2
  <2> QED BY <2>1, <2>3, <2>4, SubSeqProperties DEF AheadInBlock
<1>3. \A x \in Ahead : x \in Seq(Instructions)
  <2>1. \A c \in Successors[block] : code[c] \in Seq(Instructions)
    BY LayoutAssumption DEF Inv
  <2>2. \A c \in Successors[block] : AheadInBlock \o code[c] \in Seq(Instructions)
    BY <1>2, <2>1, ConcatProperties
  <2> QED BY <1>2, <2>2 DEF Ahead
<1>4. \A x \in Ahead : \A k \in DOMAIN x : k \in Nat /\ x[k] \in SUBSET Op
  <2> TAKE x \in Ahead
  <2>1. DOMAIN x = 1..Len(x) /\ Len(x) \in Nat  BY <1>3, LenProperties
  <2> QED BY <1>3, <2>1, ElementOfSeq DEF Instructions
<1>5. PIPELENGTH \in Nat  BY SpreadAssumption
<1>6. \A x \in Ahead : \A k \in DOMAIN x : NrCycles(i, x[k]) \in 0..(PIPELENGTH + 1)
  BY <1>1, <1>4, Cycles
<1>7. o1 \in i /\ o1 \in Op /\ o2 \in Op /\ j \in Nat /\ j + n \in Nat
  BY <1>1, <1>4
<1>8. CASE j < Lookahead
  <2>1. n = Max(T)  BY DEF Missing
  <2>2. \A k \in S : k \in Int /\ k <= PIPELENGTH + 1
    <3> SUFFICES ASSUME NEW x \in Ahead, NEW k \in DOMAIN x
                 PROVE  /\ NrCycles(i, x[k]) - k \in Int
                        /\ NrCycles(i, x[k]) - k <= PIPELENGTH + 1
      OBVIOUS
    <3>1. PICK m : m = NrCycles(i, x[k])  OBVIOUS
    <3>2. m \in 0..(PIPELENGTH + 1) /\ k \in Nat  BY <1>4, <1>6, <3>1
    <3>3. m - k \in Int /\ m - k <= PIPELENGTH + 1  BY <1>5, <3>2
    <3> QED BY <3>1, <3>3
  <2>3. NrCycles(i, next[j]) - j \in T
    <3>1. NrCycles(i, next[j]) - j \in cycles(next)  BY <1>8
    <3> QED BY <3>1
  <2>4. T \in SUBSET Int /\ T # {} /\ \A k \in T : k <= PIPELENGTH + 1
    <3> HIDE DEF S
    <3> QED BY <1>5, <2>2
  <2> HIDE DEF T
  <2>5. PIPELENGTH + 1 \in Int  BY <1>5
  <2>6. \A k \in T : Max(T) >= k  BY <2>4, <2>5, Greatest
  <2>7. PICK m : m = NrCycles(i, next[j])  OBVIOUS
  <2>8. n >= m - j /\ m \in Int  BY <1>5, <1>6, <2>1, <2>3, <2>6, <2>7
  <2>9. m >= ComputeNrDepCycles(o1, o2)
    <3> DEFINE D == {ComputeNrDepCycles(a1, a2) : a1 \in i, a2 \in next[j]}
               U == {0} \union D
    <3>1. m = Max(U)  BY <2>7 DEF NrCycles
    <3>2. next[j] \in SUBSET Op  BY <1>4
    <3>3. \A k \in D : k \in 0..(PIPELENGTH + 1)  BY <1>1, <3>2, DepCycles
    <3>4. ComputeNrDepCycles(o1, o2) \in U  OBVIOUS
    <3>5. U \in SUBSET Int /\ U # {} /\ \A k \in U : k <= PIPELENGTH + 1
      <4> HIDE DEF D
      <4> QED BY <1>5, <3>3
    <3> HIDE DEF U
    <3>6. \A k \in U : Max(U) >= k  BY <2>5, <3>5, Greatest
    <3> QED BY <3>1, <3>4, <3>6
  <2>10. ComputeNrDepCycles(o1, o2) \in Int
    <3>1. ComputeNrDepCycles(o1, o2) \in 0..(PIPELENGTH + 1)  BY <1>1, <1>7, DepCycles
    <3> QED BY <1>5, <3>1
  <2>11. j + n >= ComputeNrDepCycles(o1, o2)
    <3>1. PICK a : a = ComputeNrDepCycles(o1, o2)  OBVIOUS
    <3>2. a \in Int /\ m >= a  BY <2>9, <2>10, <3>1
    <3>3. j + n >= a  BY <1>1, <1>7, <2>8, <3>2
    <3> QED BY <3>1, <3>3
  <2> QED BY <1>1, <1>7, <2>11, EnoughCycles
<1>9. CASE ~(j < Lookahead)
  <2>1. Lookahead \in Nat
    <3>1. ops[o1].class \in Class /\ ReadTime[ops[o1].class] \in Int
      BY <1>1, <1>5, <1>7, Times DEF Stage
    <3>2. Listed(ops[o1].class, ReadTime[ops[o1].class])  BY <3>1 DEF TimesListed
    <3> QED BY <1>1, <1>7, <3>1, <3>2, LongestTable DEF Lookahead
  <2>2. j + n >= Lookahead
    <3>1. PICK a : a = Lookahead  OBVIOUS
    <3> QED BY <1>1, <1>7, <1>9, <2>1, <3>1
  <2>3. j + n >= MaxReservationTableSize(i)  BY <2>2 DEF Lookahead
  <2> QED BY <1>1, <1>7, <2>3, FarEnough
<1> QED BY <1>8, <1>9

LEMMA OrderStretched ==
    ASSUME Inv, Inv', OrderSoFar, block \in Block, pos > 0, NEW n \in Nat,
           code' = [code EXCEPT ![block] = WithEmpties(n)],
           ops' = ops /\ block' = block /\ pos' = pos,
           NEW b \in Block, NEW x \in 1..Len(code'[b]), NEW o1 \in code'[b][x],
           Handled(b, x)', ~(b = block /\ x = pos /\ inserted < 0)
    PROVE  OrderedBehind(b, x, o1)'
<1>1. \A c \in Block : Stretched(code[c], code'[c], Shift(n)[c])
  BY InsertionStretches
<1>2. PICK p \in 1..Len(code[b]) : x = Shift(n)[b][p]
  BY <1>1 DEF Stretched
<1>3. code'[b][x] = code[b][p]  BY <1>1, <1>2 DEF Stretched
<1>4. x = IF b = block /\ p > pos THEN p + n ELSE p  BY <1>2 DEF Shift
<1>5. /\ Len(code[b]) \in Nat /\ pos \in Int /\ block \in Int /\ b \in Int
      /\ inserted \in Int /\ PIPELENGTH \in Nat
  <2>1. pos \in 0..Len(code[block]) /\ block \in 1..(Len(Layout) + 1)
        /\ inserted \in -1..(PIPELENGTH - 1)
    BY DEF Inv
  <2> QED BY <2>1, CodeTypes, Blocks, SpreadAssumption
<1>6. Handled(b, p)
  <2>1. CASE b < block  BY <2>1 DEF Handled
  <2>2. CASE b = block /\ x > pos
    <3>1. p > pos  BY <1>4, <1>5, <2>2
    <3> QED BY <2>2, <3>1 DEF Handled
  <2>3. CASE b = block /\ x = pos
    <3>1. p = pos  BY <1>4, <1>5, <2>3
    <3>2. inserted >= 0  BY <1>5, <2>3
    <3> QED BY <2>3, <3>1, <3>2 DEF Handled
  <2> QED BY <2>1, <2>2, <2>3 DEF Handled
<1>7. OrderedBehind(b, p, o1)  BY <1>3, <1>6 DEF OrderSoFar
<1>8. PICK m : m = Len(code'[b])  OBVIOUS
<1>9. /\ \A q \in (x + 1)..Len(code'[b]) : \A o2 \in code'[b][q] : InOrder(o1, o2, q - x)'
      /\ \A c \in Successors[b] : \A q \in 1..Len(code'[c]) : \A o2 \in code'[c][q] :
           InOrder(o1, o2, q + m - x)'
  BY <1>1, <1>2, <1>3, <1>7, <1>8, StretchKeepsOrder
<1> QED BY <1>8, <1>9 DEF OrderedBehind

\* The instruction whose dependences have just been counted.
LEMMA OrderCounted ==
    ASSUME TimesListed, Inv, Inv', SpreadDependences, NEW o1 \in code'[block][pos],
           NEW b, b = block, NEW x, x = pos
    PROVE  OrderedBehind(b, x, o1)'
<1>1. PICK n \in Nat : n = Missing
  BY MissingNatural DEF SpreadDependences
<1>2. /\ block \in Block /\ pos > 0 /\ ops' = ops /\ block' = block /\ pos' = pos
      /\ code' = [code EXCEPT ![block] = WithEmpties(n)]
  BY <1>1 DEF SpreadDependences
<1>3. PICK W : W = Shift(n)  OBVIOUS
<1>4. \A c \in Block : Stretched(code[c], code'[c], W[c])
  BY <1>2, <1>3, InsertionStretches
<1>5. PICK len : len = Len(code[block])  OBVIOUS
<1>6. /\ pos \in 1..len /\ len \in Nat /\ code[block] \in Seq(Instructions)
      /\ \A c \in Block : Len(code[c]) \in Nat /\ DOMAIN code[c] = 1..Len(code[c])
      /\ \A c \in Successors[block] : c \in Block /\ code[c] \in Seq(Instructions)
      /\ Typed
  <2>1. pos \in 0..Len(code[block]) /\ code \in [Block -> Seq(Instructions)] /\ Typed
    BY <1>2 DEF Inv
  <2> QED BY <1>2, <1>5, <2>1, CodeTypes
<1>7. /\ W[block][pos] = pos /\ Len(code'[block]) = len + n
      /\ \A k \in 1..len : k > pos => W[block][k] = k + n
  <2>1. \A k \in 1..len : W[block][k] = IF k > pos THEN k + n ELSE k
    BY <1>2, <1>3, <1>5 DEF Shift
  <2>2. Len(code'[block]) = len + n
    BY <1>2, <1>5, Insertion
  <2> QED BY <1>6, <2>1, <2>2
<1>8. o1 \in code[block][pos] /\ o1 \in Op
  <2>1. code'[block][pos] = code[block][pos]
    BY <1>2, <1>4, <1>5, <1>6, <1>7 DEF Stretched
  <2> QED BY <1>2, <1>5, <1>6, <2>1, CodeTypes
<1>9. PICK ahead : ahead = AheadInBlock  OBVIOUS
<1>10. /\ ahead \in Seq(Instructions) /\ Len(ahead) = len - pos
       /\ \A j \in 1..(len - pos) : ahead[j] = code[block][pos + j]
  <2>1. pos + 1 \in Int /\ len \in Int  BY <1>6
  <2>2. \A k \in (pos + 1)..len : code[block][k] \in Instructions
    BY <1>5, <1>6, ElementOfSeq
  <2>3. /\ SubSeq(code[block], pos + 1, len) \in Seq(Instructions)
        /\ Len(SubSeq(code[block], pos + 1, len)) =
             IF pos + 1 <= len THEN len - (pos + 1) + 1 ELSE 0
        /\ \A j \in 1..(len - (pos + 1) + 1) :
             SubSeq(code[block], pos + 1, len)[j] = code[block][pos + 1 + j - 1]
    BY <1>6, <2>1, <2>2, SubSeqProperties
  <2>4. ahead = SubSeq(code[block], pos + 1, len)  BY <1>5, <1>9 DEF AheadInBlock
  <2>5. PICK a : a = Len(ahead)  OBVIOUS
  <2>6. a = len - pos  BY <1>6, <2>3, <2>4, <2>5
  <2>7. \A j \in 1..(len - pos) : pos + 1 + j - 1 = pos + j
    BY <1>6
  <2>8. 1..(len - (pos + 1) + 1) = 1..(len - pos)  BY <1>6
  <2> QED BY <2>3, <2>4, <2>5, <2>6, <2>7, <2>8
<1>11. ahead \in Ahead /\ \A c \in Successors[block] : ahead \o code[c] \in Ahead
  BY <1>9 DEF Ahead
<1>12. \A a1, a2 \in Op : IsUse(a1, a2)' => IsUse(a1, a2)
  <2>1. \A c \in Block : Len(code'[c]) \in Nat /\ DOMAIN code'[c] = 1..Len(code'[c])
    <3>1. code' \in [Block -> Seq(Instructions)]  BY DEF Inv
    <3> QED BY <3>1, LenProperties
  <2> QED BY <1>2, <1>4, <1>6, <2>1, UsesKept
<1>13. ASSUME NEW o2 \in Op, NEW d \in Int, NEW e \in Int, e >= d, InOrder(o1, o2, d)
       PROVE  InOrder(o1, o2, e)'
  <2>1. InOrder(o1, o2, e)  BY <1>6, <1>8, <1>13, FurtherApart
  <2>2. IsUse(o1, o2)' => IsUse(o1, o2)  BY <1>8, <1>12
  <2> QED BY <1>2, <2>1, <2>2 DEF InOrder, UsedInOrder, WrittenInOrder, MemoryInOrder,
                                  EqualRegs, MemoryDependent
<1>14. ASSUME NEW q \in (pos + 1)..(len + n), NEW o2 \in code'[block][q]
       PROVE  InOrder(o1, o2, q - x)'
  <2>1. q \in 1..Len(code'[block]) /\ q > pos  BY <1>6, <1>7
  <2>2. PICK k \in 1..len : q = W[block][k] /\ code'[block][q] = code[block][k]
    <3>1. code'[block][q] # {}  BY <1>14
    <3>2. PICK k \in 1..len : q = W[block][k]
      BY <1>2, <1>4, <1>5, <2>1, <3>1 DEF Stretched
    <3>3. code'[block][W[block][k]] = code[block][k]
      BY <1>2, <1>4, <1>5 DEF Stretched
    <3> QED BY <3>2, <3>3
  <2>3. o2 \in code[block][k] /\ o2 \in Op  BY <1>2, <1>5, <2>2, CodeTypes
  <2>4. k > pos
    <3>1. W[block][k] = IF k > pos THEN k + n ELSE k  BY <1>2, <1>3, <1>5 DEF Shift
    <3> QED BY <1>6, <2>1, <2>2, <3>1
  <2>5. q = k + n  BY <1>7, <2>2, <2>4
  <2>6. k - pos \in 1..(len - pos) /\ pos + (k - pos) = k  BY <1>6, <2>4
  <2>7. ahead[k - pos] = code[block][k] /\ k - pos \in DOMAIN ahead
    <3>1. DOMAIN ahead = 1..(len - pos)  BY <1>10, LenProperties
    <3> QED BY <1>10, <2>6, <3>1
  <2>8. InOrder(o1, o2, (k - pos) + n)
    BY <1>1, <1>2, <1>8, <1>11, <2>3, <2>7, MissingEnough
  <2>9. (k - pos) + n \in Int /\ q - x \in Int /\ q - x >= (k - pos) + n
    BY <1>6, <2>5
  <2> QED BY <1>13, <2>3, <2>8, <2>9
<1>15. ASSUME NEW c \in Successors[block], NEW q \in 1..Len(code'[c]), NEW o2 \in code'[c][q]
       PROVE  InOrder(o1, o2, q + (len + n) - x)'
  <2>1. c \in Block /\ code[c] \in Seq(Instructions)  BY <1>6
  <2>2. PICK k \in 1..Len(code[c]) : q = W[c][k] /\ code'[c][q] = code[c][k] /\ q >= k
    BY <1>4, <1>15, <2>1 DEF Stretched
  <2>3. o2 \in code[c][k] /\ o2 \in Op /\ k \in Int /\ q \in Int
    BY <2>1, <2>2, CodeTypes
  <2>4. PICK m : m = Len(code[c])  OBVIOUS
  <2>5. PICK next : next = ahead \o code[c]  OBVIOUS
  <2>6. PICK j : j = (len - pos) + k  OBVIOUS
  <2>7. next[j] = code[c][k] /\ j \in DOMAIN next
    <3>1. m \in Nat /\ k \in 1..m  BY <1>6, <2>1, <2>2, <2>4
    <3>2. /\ Len(next) = (len - pos) + m /\ next \in Seq(Instructions)
          /\ \A i \in 1..((len - pos) + m) :
               next[i] = IF i <= len - pos THEN ahead[i] ELSE code[c][i - (len - pos)]
      <4>1. /\ Len(next) = Len(ahead) + Len(code[c]) /\ next \in Seq(Instructions)
            /\ \A i \in 1..(Len(ahead) + Len(code[c])) :
                 next[i] = IF i <= Len(ahead) THEN ahead[i] ELSE code[c][i - Len(ahead)]
        BY <1>10, <2>1, <2>5, ConcatProperties
      <4> QED BY <1>10, <2>4, <4>1
    <3>3. j \in 1..((len - pos) + m) /\ ~(j <= len - pos) /\ j - (len - pos) = k
      BY <1>6, <2>6, <3>1
    <3>4. DOMAIN next = 1..((len - pos) + m)  BY <3>2, LenProperties
    <3> QED BY <3>2, <3>3, <3>4
  <2>8. next \in Ahead  BY <1>11, <2>5
  <2>9. InOrder(o1, o2, j + n)
    BY <1>1, <1>2, <1>8, <2>3, <2>7, <2>8, MissingEnough
  <2>10. j + n \in Int /\ q + (len + n) - x \in Int /\ q + (len + n) - x >= j + n
    BY <1>6, <2>2, <2>3, <2>6
  <2> QED BY <1>13, <2>3, <2>9, <2>10
<1>16. PICK m : m = len + n  OBVIOUS
<1>17. /\ \A q \in (pos + 1)..m : \A o2 \in code'[block][q] : InOrder(o1, o2, q - x)'
       /\ \A c \in Successors[block] : \A q \in 1..Len(code'[c]) : \A o2 \in code'[c][q] :
            InOrder(o1, o2, q + m - x)'
  BY <1>14, <1>15, <1>16
<1> QED BY <1>2, <1>7, <1>16, <1>17 DEF OrderedBehind

LEMMA OrderInit == Init => OrderSoFar
<1> SUFFICES ASSUME Init, NEW b \in Block, NEW p \in 1..Len(code[b]) PROVE ~Handled(b, p)
  BY DEF OrderSoFar
<1>1. block = 1 /\ pos = Len(code[1]) /\ inserted = -1  BY DEF Init
<1>2. Len(code[1]) \in Nat  BY InitInv, Blocks, CodeTypes
<1>3. b \in Int /\ b >= 1  BY Blocks
<1> QED BY <1>1, <1>2, <1>3 DEF Handled

LEMMA OrderDependences ==
    ASSUME TimesListed, Inv, Inv', OrderSoFar, SpreadDependences
    PROVE  OrderSoFar'
<1>1. PICK n \in Nat : n = Missing
  BY MissingNatural DEF SpreadDependences
<1>2. /\ block \in Block /\ pos > 0 /\ ops' = ops /\ block' = block /\ pos' = pos
      /\ code' = [code EXCEPT ![block] = WithEmpties(n)]
  BY <1>1 DEF SpreadDependences
<1> SUFFICES ASSUME NEW b \in Block, NEW x \in 1..Len(code'[b]), NEW o1 \in code'[b][x],
                    Handled(b, x)'
             PROVE  OrderedBehind(b, x, o1)'
  BY DEF OrderSoFar
<1>3. CASE b = block /\ x = pos /\ inserted < 0  BY <1>3, OrderCounted
<1>4. CASE ~(b = block /\ x = pos /\ inserted < 0)  BY <1>2, <1>4, OrderStretched
<1> QED BY <1>3, <1>4

LEMMA OrderConflict ==
    ASSUME Inv, Inv', OrderSoFar, SpreadConflict
    PROVE  OrderSoFar'
<1>1. /\ block \in Block /\ ops' = ops /\ block' = block /\ pos' = pos
      /\ code' = [code EXCEPT ![block] = WithEmpties(1)]
      /\ inserted \in 0..(PIPELENGTH - 1)
  BY DEF SpreadConflict
<1>2. pos > 0 /\ ~(inserted < 0)
  <2>1. PIPELENGTH \in Nat  BY SpreadAssumption
  <2> QED BY <1>1, <2>1 DEF Inv, Opened
<1> SUFFICES ASSUME NEW b \in Block, NEW x \in 1..Len(code'[b]), NEW o1 \in code'[b][x],
                    Handled(b, x)'
             PROVE  OrderedBehind(b, x, o1)'
  BY DEF OrderSoFar
<1>3. 1 \in Nat  OBVIOUS
<1> QED BY <1>1, <1>2, <1>3, OrderStretched

LEMMA OrderQuiet ==
    ASSUME UNCHANGED <<ops, code>>, OrderSoFar,
           \A b \in Block : \A p \in 1..Len(code[b]) : Handled(b, p)' => Handled(b, p)
    PROVE  OrderSoFar'
<1>1. \A o1, o2 : IsUse(o1, o2)' = IsUse(o1, o2)
  BY DEF IsUse, Clear, Defines, Reached, Closed
<1>2. \A o1, o2, d : InOrder(o1, o2, d)' = InOrder(o1, o2, d)
  BY <1>1 DEF InOrder, UsedInOrder, WrittenInOrder, MemoryInOrder, MemoryDependent
<1>3. \A b, p, o1 : OrderedBehind(b, p, o1)' = OrderedBehind(b, p, o1)
  BY <1>2 DEF OrderedBehind
<1> QED BY <1>3 DEF OrderSoFar

LEMMA OrderPrevious ==
    ASSUME Inv, OrderSoFar, PreviousInstr
    PROVE  OrderSoFar'
<1>1. UNCHANGED <<ops, code, block>> /\ pos' = pos - 1 /\ inserted' = -1 /\ block \in Block
      /\ inserted \in 0..(PIPELENGTH - 1)
  BY DEF PreviousInstr
<1>2. ASSUME NEW b \in Block, NEW p \in 1..Len(code[b]), Handled(b, p)'
      PROVE  Handled(b, p)
  <2>1. pos \in Int /\ p \in Int /\ PIPELENGTH \in Nat
    <3>1. pos \in 0..Len(code[block])  BY <1>1 DEF Inv
    <3> QED BY <3>1, CodeTypes, SpreadAssumption
  <2>2. b < block \/ (b = block /\ p > pos - 1)
    BY <1>1, <1>2 DEF Handled
  <2>3. inserted >= 0  BY <1>1, <2>1
  <2> QED BY <2>1, <2>2, <2>3 DEF Handled
<1> QED BY <1>1, <1>2, OrderQuiet

LEMMA OrderNextBlock ==
    ASSUME Inv, OrderSoFar, NextBlock
    PROVE  OrderSoFar'
<1>1. /\ UNCHANGED <<ops, code, inserted>> /\ pos = 0 /\ block \in Block
      /\ block' = block + 1
      /\ pos' = IF block + 1 \in Block THEN Len(code[block + 1]) ELSE 0
  BY DEF NextBlock
<1>2. inserted = -1
  <2>1. ~(inserted >= 0)  BY <1>1 DEF Inv, Opened
  <2>2. inserted \in -1..(PIPELENGTH - 1) /\ PIPELENGTH \in Nat  BY SpreadAssumption DEF Inv
  <2> QED BY <2>1, <2>2
<1>3. ASSUME NEW b \in Block, NEW p \in 1..Len(code[b]), Handled(b, p)'
      PROVE  Handled(b, p)
  <2>1. block \in Int /\ b \in Int /\ p \in Int /\ p >= 1 /\ Len(code[b]) \in Nat
    BY <1>1, Blocks, CodeTypes
  <2>2. b < block + 1 \/ (b = block + 1 /\ p > pos')
    BY <1>1, <1>2, <1>3 DEF Handled
  <2>3. ~(b = block + 1 /\ p > pos')
    <3>1. b = block + 1 => pos' = Len(code[b])  BY <1>1
    <3> QED BY <2>1, <3>1
  <2>4. b < block \/ b = block  BY <2>1, <2>2, <2>3
  <2> QED BY <1>1, <2>1, <2>4 DEF Handled
<1> QED BY <1>1, <1>3, OrderQuiet

LEMMA OrderNext ==
    ASSUME TimesListed, Inv, OrderSoFar, [Next]_vars
    PROVE  OrderSoFar'
<1>0. Inv'  BY NextInv
<1>1. CASE SpreadDependences  BY <1>0, <1>1, OrderDependences
<1>2. CASE SpreadConflict     BY <1>0, <1>2, OrderConflict
<1>3. CASE PreviousInstr      BY <1>3, OrderPrevious
<1>4. CASE NextBlock          BY <1>4, OrderNextBlock
<1>5. CASE UNCHANGED vars     BY <1>5, OrderQuiet DEF vars, Handled
<1> QED BY <1>1, <1>2, <1>3, <1>4, <1>5 DEF Next

\* Two operations d cycles apart in one block or across an edge.
LEMMA OrderMeansAccesses ==
    ASSUME TimesListed, Inv, OrderSoFar
    PROVE  AccessesInOrder
<1> SUFFICES ASSUME Done, NEW o1 \in Op, NEW o2 \in Op, NEW d \in Distances, Apart(o1, o2, d)
             PROVE  InOrder(o1, o2, d)
  BY DEF AccessesInOrder, TimesListed, InOrder, UsedInOrder, WrittenInOrder, MemoryInOrder
<1>1. d \in Int /\ d >= 1 /\ PIPELENGTH \in Nat  BY SpreadAssumption DEF Distances
<1>2. PICK b \in Block : \E p \in DOMAIN code[b] :
        /\ o1 \in code[b][p]
        /\ \/ p + d \in DOMAIN code[b] /\ o2 \in code[b][p + d]
           \/ \E c \in Successors[b] :
                LET q == p + d - Len(code[b])
                IN q \in DOMAIN code[c] /\ o2 \in code[c][q]
  BY DEF Apart
<1>3. PICK p \in DOMAIN code[b] :
        /\ o1 \in code[b][p]
        /\ \/ p + d \in DOMAIN code[b] /\ o2 \in code[b][p + d]
           \/ \E c \in Successors[b] :
                LET q == p + d - Len(code[b])
                IN q \in DOMAIN code[c] /\ o2 \in code[c][q]
  BY <1>2
<1>4. /\ p \in 1..Len(code[b]) /\ Len(code[b]) \in Nat
      /\ OrderedBehind(b, p, o1)
  <2>1. p \in 1..Len(code[b]) /\ Len(code[b]) \in Nat  BY <1>3, CodeTypes
  <2>2. Handled(b, p)
    <3>1. b < block  BY Blocks DEF Done
    <3> QED BY <3>1 DEF Handled
  <2> QED BY <1>3, <2>1, <2>2 DEF OrderSoFar
<1>5. CASE p + d \in DOMAIN code[b] /\ o2 \in code[b][p + d]
  <2>1. PICK q : q = p + d  OBVIOUS
  <2>2. q \in (p + 1)..Len(code[b]) /\ q - p = d
    <3>1. q \in 1..Len(code[b])  BY <1>5, <2>1, CodeTypes
    <3> QED BY <1>1, <1>4, <2>1, <3>1
  <2>3. InOrder(o1, o2, q - p)  BY <1>4, <1>5, <2>1, <2>2 DEF OrderedBehind
  <2> QED BY <2>2, <2>3
<1>6. CASE \E c \in Successors[b] :
             LET q == p + d - Len(code[b])
             IN q \in DOMAIN code[c] /\ o2 \in code[c][q]
  <2>1. PICK c \in Successors[b] :
             LET q == p + d - Len(code[b])
             IN q \in DOMAIN code[c] /\ o2 \in code[c][q]
    BY <1>6
  <2>2. PICK q : q = p + d - Len(code[b])  OBVIOUS
  <2>3. PICK n : n = Len(code[b])  OBVIOUS
  <2>4. q + n - p = d  BY <1>1, <1>4, <2>2, <2>3
  <2>5. q \in 1..Len(code[c]) /\ o2 \in code[c][q]  BY <2>1, <2>2, CodeTypes
  <2>6. InOrder(o1, o2, q + n - p)  BY <1>4, <2>3, <2>5 DEF OrderedBehind
  <2> QED BY <2>4, <2>6
<1> QED BY <1>3, <1>5, <1>6

\* In a routine that has been spread a use comes a cycle after its definition
\* writes, and writes, reads and memory accesses that touch the same place come
\* in the order of the program, in a block and over the edge to the next one,
\* for every machine description that lists its accesses and every routine.
THEOREM AccessesStayInOrder == ASSUME TimesListed PROVE Spec => []AccessesInOrder
<1>1. Init => Inv /\ OrderSoFar  BY InitInv, OrderInit
<1>2. Inv /\ OrderSoFar /\ [Next]_vars => (Inv /\ OrderSoFar)'
  BY NextInv, OrderNext
<1>3. Inv /\ OrderSoFar => AccessesInOrder  BY OrderMeansAccesses
<1> QED BY <1>1, <1>2, <1>3, PTL DEF Spec
=============================================================================
