------------------------- MODULE TrailblazingProofs -------------------------
(***************************************************************************)
(* Proofs about trailblazing, for every routine, program and machine that  *)
(* the assumptions allow: no operation is lost, copied or put in a slot of *)
(* another kind, operations only move up and stay on their side of every   *)
(* if and loop, none passes what it depends on or a branch that reads what *)
(* it writes, a migration never runs into the block that ends the          *)
(* compiler, and every step of the schedule is progress.                   *)
(***************************************************************************)
EXTENDS Trailblazing, SequenceLemmas

-----------------------------------------------------------------------------
(* The tree *)

LEMMA AncestorsOf ==
    \A n \in Node : Ancestors[n] = {n} \cup (IF Up[n] = 0 THEN {} ELSE Ancestors[Up[n]])
<1> DEFINE Closed(S, n) == n \in S /\ \A m \in S : Up[m] # 0 => Up[m] \in S
           f == [n \in Node |-> {m \in Node : \A S \in SUBSET Node : Closed(S, n) => m \in S}]
           F == [n \in Node |-> {n} \cup (IF Up[n] = 0 THEN {} ELSE f[Up[n]])]
<1>1. \A n \in Node : Up[n] \in Node \cup {0} /\ n # 0  BY TreeAssumption
<1>2. f = F
  <2> SUFFICES ASSUME NEW n \in Node PROVE f[n] = F[n]
    OBVIOUS
  <2>1. ASSUME NEW m \in f[n] PROVE m \in F[n]
    <3> DEFINE S == {n} \cup (IF Up[n] = 0 THEN {} ELSE f[Up[n]])
    <3>1. S \in SUBSET Node  BY <1>1
    <3>2. ASSUME NEW k \in S, Up[k] # 0 PROVE Up[k] \in S
      <4>1. CASE k = n
        <5>1. Up[n] \in f[Up[n]]  BY <1>1, <3>2, <4>1
        <5> QED BY <3>2, <4>1, <5>1
      <4>2. CASE k # n
        <5>1. Up[n] # 0 /\ k \in f[Up[n]]  BY <4>2
        <5>2. Up[n] \in Node /\ Up[k] \in Node  BY <1>1, <3>1, <3>2, <5>1
        <5>3. Up[k] \in f[Up[n]]  BY <3>2, <5>1, <5>2
        <5> QED BY <5>1, <5>3
      <4> QED BY <4>1, <4>2
    <3>3. Closed(S, n)  BY <3>2
    <3> QED BY <2>1, <3>1, <3>3
  <2>2. ASSUME NEW m \in F[n] PROVE m \in f[n]
    <3>1. CASE m = n  BY <3>1
    <3>2. CASE m # n
      <4>1. Up[n] # 0 /\ m \in f[Up[n]] /\ Up[n] \in Node  BY <1>1, <2>2, <3>2
      <4>2. \A S \in SUBSET Node : Closed(S, n) => Closed(S, Up[n])  BY <4>1
      <4> QED BY <4>1, <4>2
    <3> QED BY <3>1, <3>2
  <2> QED BY <2>1, <2>2
<1>3. \E g : g = [n \in Node |-> {n} \cup (IF Up[n] = 0 THEN {} ELSE g[Up[n]])]
  BY <1>2
<1> HIDE DEF f, F
<1>4. Ancestors = [n \in Node |-> {n} \cup (IF Up[n] = 0 THEN {} ELSE Ancestors[Up[n]])]
  BY <1>3 DEF Ancestors
<1> QED BY <1>4

Nests == Cond \cup Loop

LEMMA AboveNests ==
    \A n \in Nests : Above[n] \subseteq Nests
<1> DEFINE Bad == {n \in Nests : ~(Above[n] \subseteq Nests)}
<1>1. Nests \subseteq Nat \ {0} /\ Nests \subseteq Node \ Instr
  BY TreeAssumption DEF Nests, Node
<1> SUFFICES ASSUME Bad # {} PROVE FALSE
  OBVIOUS
<1>2. PICK n \in Bad : \A m \in Bad : n <= m
  <2>1. Bad \subseteq Nat  BY <1>1
  <2> HIDE DEF Bad
  <2> QED BY <2>1, Smallest
<1>3. n \in Nests /\ n \in Node \ Instr /\ n \in Nat  BY <1>1
<1>4. Up[n] \in Nests \cup {0} /\ Up[n] < n  BY <1>3, TreeAssumption DEF Nests
<1>5. Up[n] # 0 => Up[n] \in Nests /\ Up[n] \in Nat /\ ~(n <= Up[n])
  <2>1. PICK u : u = Up[n]  OBVIOUS
  <2>2. u # 0 => u \in Nests /\ u \in Nat  BY <1>1, <1>4, <2>1
  <2>3. u \in Nat /\ u < n => ~(n <= u)  BY <1>3
  <2> QED BY <1>4, <2>1, <2>2, <2>3
<1>6. Up[n] # 0 => Above[Up[n]] \subseteq Nests  BY <1>2, <1>5
<1>7. Above[n] = {n} \cup (IF Up[n] = 0 THEN {} ELSE Above[Up[n]])
  BY <1>1, <1>3, <1>5, AncestorsOf DEF Above
<1> QED BY <1>2, <1>3, <1>6, <1>7

LEMMA AboveInstr ==
    ASSUME NEW i \in Instr
    PROVE  /\ Up[i] \in Simple /\ Up[Up[i]] \in Nests \cup {0}
           /\ Above[i] = {i} \cup Above[Up[i]]
           /\ Above[Up[i]] =
                {Up[i]} \cup (IF Up[Up[i]] = 0 THEN {} ELSE Above[Up[Up[i]]])
           /\ Above[Up[i]] \ {Up[i]} \subseteq Nests
<1>1. i \in Node /\ Up[i] \in Simple /\ Up[i] \in Node \ Instr /\ Up[i] # 0
  BY TreeAssumption DEF Node
<1>2. Up[Up[i]] \in Nests \cup {0}  BY <1>1, TreeAssumption DEF Nests
<1>3. Up[Up[i]] # 0 => Up[Up[i]] \in Node  BY <1>2 DEF Nests, Node
<1>4. Above[i] = {i} \cup Above[Up[i]]  BY <1>1, AncestorsOf DEF Above
<1>5. Above[Up[i]] = {Up[i]} \cup (IF Up[Up[i]] = 0 THEN {} ELSE Above[Up[Up[i]]])
  BY <1>1, <1>3, AncestorsOf DEF Above
<1>6. Up[Up[i]] # 0 => Above[Up[Up[i]]] \subseteq Nests  BY <1>2, AboveNests
<1> QED BY <1>1, <1>2, <1>4, <1>5, <1>6

LEMMA Closed ==
    \A n \in Node : n \in Above[n] /\ \A c \in Above[n] : c \in Node /\ (Up[c] # 0 => Up[c] \in Above[n])
<1> DEFINE Good(n) == /\ n \in Above[n]
                      /\ \A c \in Above[n] : c \in Node /\ (Up[c] # 0 => Up[c] \in Above[n])
           Bad == {n \in Node \ Instr : ~Good(n)}
<1>1. \A n \in Node : /\ Up[n] \in Node \cup {0}
                      /\ Above[n] = {n} \cup (IF Up[n] = 0 THEN {} ELSE Above[Up[n]])
  BY TreeAssumption, AncestorsOf DEF Above
<1>2. ASSUME NEW n \in Node, Up[n] # 0 => Good(Up[n])
      PROVE  Good(n)
  <2>1. n \in Above[n] /\ (Up[n] # 0 => Up[n] \in Above[n])  BY <1>1, <1>2
  <2>2. ASSUME NEW c \in Above[n], c # n
        PROVE  c \in Node /\ (Up[c] # 0 => Up[c] \in Above[n])
    <3>1. Up[n] # 0 /\ c \in Above[Up[n]] /\ Above[Up[n]] \subseteq Above[n]
      BY <1>1, <2>2
    <3> QED BY <1>2, <3>1
  <2> QED BY <2>1, <2>2
<1>3. \A n \in Node \ Instr : Good(n)
  <2> SUFFICES ASSUME Bad # {} PROVE FALSE
    OBVIOUS
  <2>1. Bad \subseteq Nat  BY TreeAssumption
  <2>2. PICK n \in Bad : \A m \in Bad : n <= m
    <3> HIDE DEF Bad
    <3> QED BY <2>1, Smallest
  <2>3. n \in Node \ Instr /\ n \in Nat /\ ~Good(n)  BY <2>1
  <2>4. Up[n] # 0 => Up[n] \in Node \ Instr /\ Up[n] \in Nat /\ ~(n <= Up[n])
    BY <2>3, TreeAssumption DEF Node
  <2>5. Up[n] # 0 => Good(Up[n])  BY <2>2, <2>4
  <2> QED BY <1>2, <2>3, <2>5
<1>4. \A n \in Instr : Good(n)
  <2> SUFFICES ASSUME NEW n \in Instr PROVE Good(n)
    OBVIOUS
  <2>1. n \in Node /\ Up[n] \in Node \ Instr  BY TreeAssumption DEF Node
  <2> HIDE DEF Good
  <2> QED BY <1>2, <1>3, <2>1
<1> QED BY <1>3, <1>4

LEMMA WithinNode ==
    /\ \A i \in Instr : Within[i] = {i}
    /\ \A b \in Simple : Within[b] = {i \in Instr : Up[i] = b}
    /\ \A n \in Node : Up[n] # 0 => Up[n] \in Node /\ Within[n] \subseteq Within[Up[n]]
    /\ \A n \in Node : Within[n] \subseteq Instr
<1>1. \A n \in Node : Within[n] = {i \in Instr : n \in Above[i]}  BY DEF Within
<1>2. Instr \subseteq Node /\ Simple \subseteq Node  BY DEF Node
<1>3. ASSUME NEW i \in Instr PROVE Within[i] = {i}
  <2>1. \A j \in Instr : i \in Above[j] => i = j
    <3> TAKE j \in Instr
    <3>1. i # Up[j] /\ i \notin Nests  BY TreeAssumption, AboveInstr DEF Nests
    <3> QED BY <3>1, AboveInstr
  <2> QED BY <1>1, <1>2, <2>1, Closed
<1>4. ASSUME NEW b \in Simple PROVE Within[b] = {i \in Instr : Up[i] = b}
  <2>1. \A j \in Instr : b \in Above[j] => Up[j] = b
    <3> TAKE j \in Instr
    <3>1. b # j /\ b \notin Nests  BY TreeAssumption DEF Nests
    <3> QED BY <3>1, AboveInstr
  <2>2. \A j \in Instr : Up[j] = b => b \in Above[j]  BY AboveInstr
  <2> QED BY <1>1, <1>2, <2>1, <2>2
<1>5. ASSUME NEW n \in Node, Up[n] # 0
      PROVE  Up[n] \in Node /\ Within[n] \subseteq Within[Up[n]]
  <2>1. Up[n] \in Node  BY <1>5, TreeAssumption
  <2>2. \A i \in Instr : n \in Above[i] => Up[n] \in Above[i]  BY <1>2, <1>5, Closed
  <2> QED BY <1>1, <2>1, <2>2
<1> QED BY <1>1, <1>3, <1>4, <1>5

\* The last instruction of a node.
LastIn(n) == CHOOSE i \in Within[n] : \A j \in Within[n] : j <= i

LEMMA LastWithin ==
    \A n \in Node : /\ LastIn(n) \in Within[n] /\ LastIn(n) \in Instr
                    /\ \A j \in Within[n] : j <= LastIn(n)
<1> SUFFICES ASSUME NEW n \in Node
             PROVE  /\ LastIn(n) \in Within[n] /\ LastIn(n) \in Instr
                    /\ \A j \in Within[n] : j <= LastIn(n)
  OBVIOUS
<1>1. Within[n] \subseteq Instr /\ Within[n] # {}  BY WithinNode, OrderAssumption
<1>2. Instr \subseteq Nat /\ NumInstr \in Nat /\ \A k \in Instr : k <= NumInstr
  BY TreeAssumption DEF Instr
<1>3. \E m \in Within[n] : \A k \in Within[n] : k <= m
  <2>1. IsFiniteSet(1..NumInstr)  BY <1>2, FS_Interval
  <2>2. Within[n] \in SUBSET (1..NumInstr)  BY <1>1 DEF Instr
  <2>3. IsFiniteSet(Within[n])  BY <2>1, <2>2, FS_Subset
  <2> QED BY <1>1, <1>2, <2>3, GreatestOfFinite
<1>4. LastIn(n) \in Within[n] /\ \A j \in Within[n] : j <= LastIn(n)
  BY <1>3 DEF LastIn
<1> QED BY <1>1, <1>4

\* prevTB goes to a sibling, or from a block's first instruction to a sibling of
\* the block, all of it above.
LEMMA PrevTBNode ==
    ASSUME NEW n \in Node, NEW g \in BOOLEAN, PrevTB(n, g) # 0
    PROVE  /\ PrevTB(n, g) \in Node
           /\ \A i \in Within[PrevTB(n, g)], j \in Within[n] : i < j
           /\ \/ Prev[n] = PrevTB(n, g) /\ Up[PrevTB(n, g)] = Up[n]
                 /\ (n \in Instr <=> PrevTB(n, g) \in Instr)
              \/ n \in Instr /\ g = FALSE /\ Prev[n] = 0 /\ Prev[Up[n]] = PrevTB(n, g)
                 /\ PrevTB(n, g) \notin Instr /\ Up[PrevTB(n, g)] = Up[Up[n]]
<1> DEFINE Sibling(m) ==
             Prev[m] # 0 => /\ Prev[m] \in Node /\ Up[Prev[m]] = Up[m]
                            /\ (m \in Instr <=> Prev[m] \in Instr)
                            /\ \A i \in Within[Prev[m]], j \in Within[m] : i < j
<1>1. ASSUME NEW m \in Node PROVE Sibling(m)
  <2> SUFFICES ASSUME Prev[m] # 0
               PROVE  /\ Prev[m] \in Node /\ Up[Prev[m]] = Up[m]
                      /\ (m \in Instr <=> Prev[m] \in Instr)
                      /\ \A i \in Within[Prev[m]], j \in Within[m] : i < j
    OBVIOUS
  <2>1. Prev[m] \in Node /\ Up[Prev[m]] = Up[m]  BY TreeAssumption
  <2>2. \A k \in Node : k \in Instr <=> Up[k] \in Simple
    <3> TAKE k \in Node
    <3>1. 0 \notin Simple  BY TreeAssumption DEF Node
    <3> QED BY <3>1, TreeAssumption
  <2>3. m \in Instr <=> Prev[m] \in Instr  BY <2>1, <2>2
  <2>4. \A i \in Within[Prev[m]], j \in Within[m] : i < j  BY OrderAssumption
  <2> QED BY <2>1, <2>3, <2>4
<1>2. CASE Prev[n] # 0
  <2>1. PrevTB(n, g) = Prev[n]  BY <1>2 DEF PrevTB
  <2> QED BY <1>1, <1>2, <2>1
<1>3. CASE Prev[n] = 0
  <2>1. n \in Instr /\ g = FALSE /\ PrevTB(n, g) = Prev[Up[n]] /\ Prev[Up[n]] # 0
    BY <1>3 DEF PrevTB
  <2>2. Up[n] \in Node /\ Up[n] \notin Instr  BY <2>1, TreeAssumption DEF Node
  <2>3. n \in Within[Up[n]] /\ Within[n] = {n}
    BY <2>1, <2>2, WithinNode, TreeAssumption
  <2>4. Sibling(Up[n])  BY <1>1, <2>2
  <2>5. \A i \in Within[Prev[Up[n]]], j \in Within[n] : i < j  BY <2>1, <2>3, <2>4
  <2> QED BY <1>3, <2>1, <2>2, <2>4, <2>5
<1> QED BY <1>2, <1>3

\* Every node, and none, has a rank below those the searches go on from it to.
Below(rank, n) ==
    /\ \A g \in BOOLEAN : /\ PrevTB(n, g) \in Node \cup {0}
                          /\ rank[PrevTB(n, g)] < rank[n]
    /\ n \in Simple => LastInstr[n] \in Instr /\ Up[LastInstr[n]] = n
                       /\ rank[LastInstr[n]] < rank[n]
    /\ n \in Cond => \A m \in LastNodes[n] :
                       m \in Node \ Instr /\ Up[m] = n /\ rank[m] < rank[n]

LEMMA Multiples ==
    ASSUME NEW K \in Nat, NEW a \in Nat, NEW b \in Nat, a < b
    PROVE  K * a \in Nat /\ K * b \in Nat /\ K * a + K <= K * b
<1>1. PICK d \in Nat : b = a + 1 + d
  <2>1. b - a - 1 \in Nat /\ b = a + 1 + (b - a - 1)  OBVIOUS
  <2> QED BY <2>1
<1>2. K * b = K * a + K + K * d  BY <1>1
<1>3. K * d \in Nat /\ K * a \in Nat  OBVIOUS
<1> QED BY <1>2, <1>3

LEMMA Ranks ==
    \E rank \in [Node \cup {0} -> Nat], bound \in Nat :
        /\ rank[0] = 0
        /\ \A n \in Node \cup {0} : rank[n] < bound
        /\ \A n \in Node : rank[n] # 0 /\ Below(rank, n)
<1>1. /\ Node \subseteq Nat \ {0} /\ IsFiniteSet(Node) /\ Instr \subseteq Node
      /\ Instr \subseteq Nat /\ NumInstr \in Nat /\ \A i \in Instr : i <= NumInstr
  BY TreeAssumption DEF Node, Instr
<1>2. PICK K \in Nat : \A n \in Node : n < K
  <2>1. Node # {} => \E b \in Node : \A n \in Node : n <= b
    BY <1>1, GreatestOfFinite
  <2>2. PICK b \in Nat : \A n \in Node : n <= b
    <3>1. Node = {} => \A n \in Node : n <= 0  OBVIOUS
    <3> QED BY <1>1, <2>1, <3>1
  <2>3. \A n \in Node : n < b + 1
    <3> TAKE n \in Node
    <3>1. n \in Nat /\ n <= b  BY <1>1, <2>2
    <3> QED BY <3>1
  <2>4. b + 1 \in Nat  OBVIOUS
  <2> QED BY <2>3, <2>4
<1> DEFINE R(n) == IF n \in Instr THEN K * n ELSE K * LastIn(n) + (K - n)
           rank == [n \in Node \cup {0} |-> IF n = 0 THEN 0 ELSE R(n)]
           bound == K * (NumInstr + 1) + 1
\* The rank of a node is in the range of its last instruction.
<1>3. ASSUME NEW n \in Node
      PROVE  /\ R(n) \in Nat /\ R(n) # 0 /\ LastIn(n) \in Nat
             /\ K * LastIn(n) <= R(n) /\ R(n) < K * LastIn(n) + K
             /\ (n \in Instr => LastIn(n) = n)
  <2>1. n \in Nat /\ n # 0 /\ n < K  BY <1>1, <1>2
  <2>2. PICK l \in Nat : l = LastIn(n)  BY <1>1, LastWithin
  <2>3. K * l \in Nat /\ K - n \in Nat /\ K - n # 0 /\ K - n < K  BY <2>1
  <2>4. CASE n \in Instr
    <3>1. l = n
      <4>1. l \in Within[n] /\ Within[n] = {n}  BY <2>2, <2>4, LastWithin, WithinNode
      <4> QED BY <4>1
    <3>2. K * n # 0
      <4>1. K * 0 + K <= K * n  BY <2>1, Multiples
      <4> QED BY <2>1, <4>1
    <3>3. R(n) = K * l  BY <2>4, <3>1
    <3> HIDE DEF R
    <3> QED BY <2>1, <2>2, <2>3, <3>1, <3>2, <3>3
  <2>5. CASE n \notin Instr
    <3>1. R(n) = K * l + (K - n)  BY <2>2, <2>5
    <3> HIDE DEF R
    <3>2. PICK p \in Nat : p = K * l  BY <2>3
    <3>3. PICK q \in Nat : q = K - n  BY <2>3
    <3>4. p + q \in Nat /\ p + q # 0 /\ p <= p + q /\ p + q < p + K
      BY <2>1, <2>3, <3>3
    <3> QED BY <2>2, <2>5, <3>1, <3>2, <3>3, <3>4
  <2> QED BY <2>4, <2>5
<1>4. rank \in [Node \cup {0} -> Nat] /\ rank[0] = 0
      /\ \A n \in Node : n # 0 /\ rank[n] = R(n)
  BY <1>1, <1>3
<1> HIDE DEF R, rank
\* What lies in earlier instructions has a lower rank.
<1>5. ASSUME NEW m \in Node, NEW n \in Node, LastIn(m) < LastIn(n)
      PROVE  R(m) < R(n)
  <2>1. PICK a \in Nat, b \in Nat : a = LastIn(m) /\ b = LastIn(n)  BY <1>3
  <2>2. PICK x \in Nat, y \in Nat : x = R(m) /\ y = R(n)  BY <1>3
  <2>3. K * a \in Nat /\ K * b \in Nat /\ K * a + K <= K * b  BY <1>5, <2>1, Multiples
  <2>4. x < K * a + K /\ K * b <= y  BY <1>3, <2>1, <2>2
  <2>5. x < y
    <3>1. PICK p \in Nat, q \in Nat : p = K * a /\ q = K * b  BY <2>3
    <3>2. p + K <= q /\ x < p + K /\ q <= y  BY <2>3, <2>4, <3>1
    <3> QED BY <3>2
  <2> QED BY <2>2, <2>5
<1>6. bound \in Nat /\ \A n \in Node \cup {0} : rank[n] < bound
  <2>1. K * (NumInstr + 1) \in Nat  BY <1>1
  <2>2. bound \in Nat /\ 0 < bound  BY <2>1
  <2>3. ASSUME NEW n \in Node PROVE R(n) < bound
    <3>1. PICK l \in Nat : l = LastIn(n) /\ l < NumInstr + 1
      <4>1. PICK l \in Nat : l = LastIn(n) /\ l <= NumInstr  BY <1>1, LastWithin
      <4>2. l < NumInstr + 1  BY <1>1, <4>1
      <4> QED BY <4>1, <4>2
    <3>2. PICK x \in Nat : x = R(n)  BY <1>3
    <3>3. K * l \in Nat /\ K * l + K <= K * (NumInstr + 1)  BY <1>1, <3>1, Multiples
    <3>4. x < K * l + K  BY <1>3, <3>1, <3>2
    <3>5. PICK p \in Nat, q \in Nat : p = K * l /\ q = K * (NumInstr + 1)  BY <2>1, <3>3
    <3>6. p + K <= q /\ x < p + K  BY <3>3, <3>4, <3>5
    <3>7. x < q + 1  BY <3>6
    <3> QED BY <3>2, <3>5, <3>7
  <2>4. rank[0] < bound
    <3> HIDE DEF bound
    <3> QED BY <1>4, <2>2
  <2> QED BY <1>4, <2>2, <2>3, <2>4
<1>7. ASSUME NEW n \in Node PROVE Below(rank, n)
  <2>1. ASSUME NEW g \in BOOLEAN
        PROVE  PrevTB(n, g) \in Node \cup {0} /\ rank[PrevTB(n, g)] < rank[n]
    <3>1. PICK m : m = PrevTB(n, g)  OBVIOUS
    <3>2. CASE m = 0
      <4>1. PICK x \in Nat : x = R(n) /\ x # 0  BY <1>3
      <4>2. 0 < x  BY <4>1
      <4> QED BY <1>4, <3>1, <3>2, <4>1, <4>2
    <3>3. CASE m # 0
      <4>1. m \in Node /\ \A i \in Within[m], j \in Within[n] : i < j
        BY <3>1, <3>3, PrevTBNode
      <4>2. LastIn(m) < LastIn(n)  BY <4>1, LastWithin
      <4>3. R(m) < R(n)  BY <1>5, <4>1, <4>2
      <4> QED BY <1>4, <3>1, <4>1, <4>3
    <3> QED BY <3>2, <3>3
  <2>2. ASSUME n \in Simple
        PROVE  LastInstr[n] \in Instr /\ Up[LastInstr[n]] = n /\ rank[LastInstr[n]] < rank[n]
    <3>1. LastInstr[n] = LastIn(n)  BY <2>2 DEF LastInstr, LastIn
    <3>2. LastIn(n) \in Instr /\ Up[LastIn(n)] = n  BY <2>2, LastWithin, WithinNode
    <3>3. R(LastIn(n)) < R(n)
      <4>1. n \notin Instr /\ n \in Nat /\ n < K  BY <1>1, <1>2, <2>2, TreeAssumption
      <4>2. PICK l \in Nat : l = LastIn(n)  BY <1>3
      <4>3. R(l) = K * l /\ R(n) = K * l + (K - n)  BY <3>2, <4>1, <4>2 DEF R
      <4>4. K * l < K * l + (K - n)
        <5>1. K * l \in Nat  OBVIOUS
        <5>2. PICK p \in Nat : p = K * l  BY <5>1
        <5> QED BY <4>1, <5>2
      <4> QED BY <4>2, <4>3, <4>4
    <3> QED BY <1>1, <1>4, <3>1, <3>2, <3>3
  <2>3. ASSUME n \in Cond, NEW m \in LastNodes[n]
        PROVE  m \in Node \ Instr /\ Up[m] = n /\ rank[m] < rank[n]
    <3>1. m \in Node /\ Up[m] = n  BY <2>3 DEF LastNodes
    <3>2. m \notin Instr /\ n \notin Instr /\ n < m
      BY <2>3, <3>1, TreeAssumption
    <3>3. PICK a \in Nat, b \in Nat : a = LastIn(m) /\ b = LastIn(n)  BY <1>3, <3>1
    <3>4. a <= b
      <4>1. n # 0  BY <1>1
      <4>2. Within[m] \subseteq Within[n]  BY <3>1, <4>1, WithinNode
      <4> QED BY <3>1, <3>3, <4>2, LastWithin
    <3>5. R(m) < R(n)
      <4>1. CASE a = b
        <5>1. R(m) = K * a + (K - m) /\ R(n) = K * a + (K - n)  BY <3>2, <3>3, <4>1 DEF R
        <5>2. m \in Nat /\ n \in Nat  BY <1>1, <3>1
        <5>3. PICK p \in Nat : p = K * a  OBVIOUS
        <5>4. p + (K - m) < p + (K - n)  BY <3>2, <5>2
        <5> QED BY <5>1, <5>3, <5>4
      <4>2. CASE a # b
        <5>1. a < b  BY <3>4, <4>2
        <5> QED BY <1>5, <3>1, <3>3, <5>1
      <4> QED BY <4>1, <4>2
    <3> QED BY <1>4, <3>1, <3>2, <3>5
  <2> QED BY <2>1, <2>2, <2>3 DEF Below
<1> QED BY <1>3, <1>4, <1>6, <1>7

-----------------------------------------------------------------------------
(* The instructions a search from a node comes to that may take the operation
   in, those of the loops it passes left out. *)

Passing(n, above, within) ==
    IF n = 0 THEN {}
    ELSE (IF n \in Instr THEN {n} ELSE {}) \cup above
         \cup (IF n \in Simple \cup Cond THEN within ELSE {})

OnTheWay[c \in Calls] ==
    Passing(c[1], OnTheWay[OnUp(c)], UNION {OnTheWay[<<m, TRUE>>] : m \in LastOf(c[1])})

\* The calls a call makes.
Goes(c) == {OnUp(c)} \cup (IF c[1] \in Simple \cup Cond
                          THEN {<<m, TRUE>> : m \in LastOf(c[1])} ELSE {})

\* The rank of a call is its node's.
LEMMA CallRanks ==
    \E rank \in [Calls -> Nat], bound \in Nat :
        /\ \A c \in Calls : rank[c] < bound
        /\ \A c \in Calls : c[1] # 0 =>
             \A d \in Goes(c) : d \in Calls /\ rank[d] < rank[c]
<1>1. PICK r \in [Node \cup {0} -> Nat], bound \in Nat :
        /\ r[0] = 0
        /\ \A n \in Node \cup {0} : r[n] < bound
        /\ \A n \in Node : r[n] # 0 /\ Below(r, n)
  BY Ranks
<1> DEFINE rank == [c \in Calls |-> r[c[1]]]
<1>2. \A c \in Calls : c = <<c[1], c[2]>> /\ c[1] \in Node \cup {0} /\ c[2] \in BOOLEAN
                       /\ rank[c] = r[c[1]]
  BY DEF Calls
<1>3. \A n \in Node \cup {0}, g \in BOOLEAN :
         <<n, g>> \in Calls /\ <<n, g>>[1] = n /\ rank[<<n, g>>] = r[n]
  BY DEF Calls
<1>4. rank \in [Calls -> Nat] /\ \A c \in Calls : rank[c] < bound
  BY <1>1 DEF Calls
<1> HIDE DEF rank
<1>5. ASSUME NEW c \in Calls, c[1] # 0, NEW d \in Goes(c)
      PROVE  d \in Calls /\ rank[d] < rank[c]
  <2>1. PICK n \in Node, g \in BOOLEAN : n = c[1] /\ g = c[2]  BY <1>2, <1>5
  <2>2. Below(r, n)  BY <1>1
  <2>3. CASE d = OnUp(c)
    <3>1. PrevTB(n, g) \in Node \cup {0} /\ r[PrevTB(n, g)] < r[n]  BY <2>2 DEF Below
    <3>2. d = <<PrevTB(n, g), g>>  BY <2>1, <2>3 DEF OnUp
    <3> QED BY <1>2, <1>3, <2>1, <3>1, <3>2
  <2>4. CASE d # OnUp(c)
    <3>1. n \in Simple \cup Cond /\ \E m \in LastOf(n) : d = <<m, TRUE>>
      BY <1>5, <2>1, <2>4 DEF Goes
    <3>2. PICK m \in LastOf(n) : d = <<m, TRUE>>  BY <3>1
    <3>3. m \in Node /\ r[m] < r[n]
      <4>1. CASE n \in Simple  BY <2>2, <4>1 DEF Below, LastOf, Node
      <4>2. CASE n \notin Simple  BY <2>2, <3>1, <4>2 DEF Below, LastOf
      <4> QED BY <4>1, <4>2
    <3> QED BY <1>2, <1>3, <2>1, <3>2, <3>3
  <2> QED BY <2>3, <2>4
<1> QED BY <1>4, <1>5

LEMMA WayOf ==
    /\ OnTheWay \in [Calls -> SUBSET Instr]
    /\ \A c \in Calls :
         OnTheWay[c] = Passing(c[1], OnTheWay[OnUp(c)],
                               UNION {OnTheWay[<<m, TRUE>>] : m \in LastOf(c[1])})
<1>1. PICK rank \in [Calls -> Nat], bound \in Nat :
        /\ \A c \in Calls : rank[c] < bound
        /\ \A c \in Calls : c[1] # 0 =>
             \A d \in Goes(c) : d \in Calls /\ rank[d] < rank[c]
  BY CallRanks
<1> DEFINE V == SUBSET Instr
           W(c, f) == Passing(c[1], f[OnUp(c)], UNION {f[<<m, TRUE>>] : m \in LastOf(c[1])})
           rule == [x \in Calls \X [Calls -> V] |-> W(x[1], x[2])]
<1>2. ASSUME NEW c \in Calls, NEW f, c[1] # 0 => \A d \in Goes(c) : f[d] \in V
      PROVE  W(c, f) \in V
  <2>1. CASE c[1] = 0  BY <2>1 DEF Passing
  <2>2. CASE c[1] # 0
    <3>1. f[OnUp(c)] \in V  BY <1>2, <2>2 DEF Goes
    <3>2. c[1] \in Simple \cup Cond => \A m \in LastOf(c[1]) : f[<<m, TRUE>>] \in V
      BY <1>2, <2>2 DEF Goes
    <3>3. c[1] \in Simple \cup Cond => UNION {f[<<m, TRUE>>] : m \in LastOf(c[1])} \in V
      BY <3>2
    <3> QED BY <2>2, <3>1, <3>3 DEF Passing
  <2> QED BY <2>1, <2>2
<1>3. rule \in [Calls \X [Calls -> V] -> V]
      /\ \A c \in Calls, f \in [Calls -> V] : rule[<<c, f>>] = W(c, f)
  <2>1. \A c \in Calls, f \in [Calls -> V] : W(c, f) \in V
    <3> SUFFICES ASSUME NEW c \in Calls, NEW f \in [Calls -> V] PROVE W(c, f) \in V
      OBVIOUS
    <3>1. c[1] # 0 => \A d \in Goes(c) : f[d] \in V  BY <1>1
    <3> HIDE DEF W
    <3> QED BY <1>2, <3>1
  <2> QED BY <2>1
<1>4. ASSUME NEW c \in Calls, NEW f \in [Calls -> V], NEW g \in [Calls -> V],
             \A d \in Calls : rank[d] < rank[c] => f[d] = g[d]
      PROVE  W(c, f) = W(c, g)
  <2>1. CASE c[1] = 0  BY <2>1 DEF Passing
  <2>2. CASE c[1] # 0
    <3>1. \A d \in Goes(c) : f[d] = g[d]  BY <1>1, <1>4, <2>2
    <3>2. f[OnUp(c)] = g[OnUp(c)]  BY <3>1 DEF Goes
    <3>3. c[1] \in Simple \cup Cond =>
            \A m \in LastOf(c[1]) : f[<<m, TRUE>>] = g[<<m, TRUE>>]
      BY <3>1 DEF Goes
    <3>4. c[1] \in Simple \cup Cond =>
            UNION {f[<<m, TRUE>>] : m \in LastOf(c[1])} = UNION {g[<<m, TRUE>>] : m \in LastOf(c[1])}
      BY <3>3
    <3> QED BY <3>2, <3>4 DEF Passing
  <2> QED BY <2>1, <2>2
<1> HIDE DEF W, rule
<1>5. Solvable(Calls, V, rule)
  <2>1. V # {}  OBVIOUS
  <2> HIDE DEF V
  <2>2. Ranked(Calls, V, rule, rank)  BY <1>3, <1>4 DEF Ranked
  <2>3. rule \in [Calls \X [Calls -> V] -> V] /\ \A c \in Calls : rank[c] < bound
    BY <1>1, <1>3
  <2> QED BY <1>1, <2>1, <2>2, <2>3, Recursion
<1>6. PICK f \in [Calls -> V] : \A c \in Calls : f[c] = W(c, f)
  BY <1>3, <1>5 DEF Solvable
<1>7. f = [c \in Calls |-> W(c, f)]  BY <1>6
<1>8. OnTheWay = CHOOSE g : g = [c \in Calls |-> W(c, g)]  BY DEF OnTheWay, W
<1>9. OnTheWay = [c \in Calls |-> W(c, OnTheWay)]
  <2>1. \E h : h = [c \in Calls |-> W(c, h)]  BY <1>7
  <2> QED BY <1>8, <2>1
<1>10. \A c \in Calls : OnTheWay[c] \in V
  <2> DEFINE S == {c \in Calls : OnTheWay[c] \in V}
  <2>1. ASSUME NEW c \in Calls, \A d \in Calls : rank[d] < rank[c] => d \in S
        PROVE  c \in S
    <3>1. c[1] # 0 => \A d \in Goes(c) : OnTheWay[d] \in V  BY <1>1, <2>1
    <3>2. W(c, OnTheWay) \in V  BY <1>2, <3>1
    <3>3. OnTheWay[c] = W(c, OnTheWay)  BY <1>9
    <3> QED BY <3>2, <3>3
  <2> HIDE DEF S
  <2>2. Calls \subseteq S  BY <2>1, RankInduction
  <2> QED BY <2>2 DEF S
<1> QED BY <1>9, <1>10 DEF W

-----------------------------------------------------------------------------
(* Migration *)

Outcome == [at : Instr \cup {0}, via : SUBSET Simple, last : Instr \cup {0},
            stop : {"no", "nullDereference", "forcedExit"}]

LEMMA InsertTyped ==
    ASSUME NEW o, NEW n \in Instr, NEW r \in Outcome
    PROVE  Insert(o, n, r) \in Outcome
<1>1. [r EXCEPT !.stop = "nullDereference"] \in Outcome
      /\ [r EXCEPT !.at = n, !.via = {}] \in Outcome
  BY DEF Outcome
<1> QED BY <1>1 DEF Insert

LEMMA MigratedTyped ==
    ASSUME NEW o, NEW n \in Node \cup {0}, lastCanMove \in Instr \cup {0},
           NEW above, NEW within, n # 0 => above \in Outcome,
           n \in Simple => within \in Outcome
    PROVE  Migrated(o, n, above, within) \in Outcome
<1>1. Stays(lastCanMove) \in Outcome /\ \A i \in Instr : Stays(i) \in Outcome
  BY DEF Stays, Outcome
<1>2. [Stays(lastCanMove) EXCEPT !.stop = "forcedExit"] \in Outcome
  BY DEF Stays, Outcome
<1>3. \A r \in Outcome, b \in Simple : Via(r, b) \in Outcome
  BY DEF Via, Outcome
<1>4. CASE n = 0  BY <1>1, <1>4 DEF Migrated
<1>5. CASE n # 0 /\ n \in Instr
  <2>1. Insert(o, n, Stays(n)) \in Outcome /\ Insert(o, n, above) \in Outcome
    BY <1>1, <1>5, InsertTyped
  <2> QED BY <1>5, <2>1 DEF Migrated
<1>6. CASE n # 0 /\ n \notin Instr /\ n \in Simple
  <2>1. Via(above, n) \in Outcome /\ Via(within, n) \in Outcome  BY <1>3, <1>6
  <2> QED BY <1>2, <1>6, <2>1 DEF Migrated
<1>7. CASE n # 0 /\ n \notin Instr /\ n \notin Simple  BY <1>1, <1>7 DEF Migrated
<1> QED BY <1>4, <1>5, <1>6, <1>7

\* Migrate is the value at the operation's instruction of a function that
\* follows the rule at every node.
LEMMA MigrateSteps ==
    ASSUME NEW o, lastCanMove \in Instr \cup {0}
    PROVE  \E f \in [Node \cup {0} -> Outcome] :
             /\ \A n \in Node \cup {0} :
                  f[n] = Migrated(o, n, f[PrevTB(n, FALSE)], f[LastInstr[n]])
             /\ Migrate(o) = f[Home(o)]
<1>1. PICK rank \in [Node \cup {0} -> Nat], bound \in Nat :
        /\ rank[0] = 0
        /\ \A n \in Node \cup {0} : rank[n] < bound
        /\ \A n \in Node : rank[n] # 0 /\ Below(rank, n)
  BY Ranks
<1> DEFINE D == Node \cup {0}
           W(n, f) == Migrated(o, n, f[PrevTB(n, FALSE)], f[LastInstr[n]])
           rule == [x \in D \X [D -> Outcome] |-> W(x[1], x[2])]
<1>2. ASSUME NEW n \in D, n # 0
      PROVE  /\ PrevTB(n, FALSE) \in D /\ rank[PrevTB(n, FALSE)] < rank[n]
             /\ n \in Simple => LastInstr[n] \in D /\ rank[LastInstr[n]] < rank[n]
  <2>1. Below(rank, n) /\ Instr \subseteq D  BY <1>1, <1>2 DEF Node
  <2> QED BY <2>1 DEF Below
<1>3. ASSUME NEW n \in D, NEW f,
             \A m \in D : rank[m] < rank[n] => f[m] \in Outcome
      PROVE  W(n, f) \in Outcome
  <2>1. n # 0 => f[PrevTB(n, FALSE)] \in Outcome  BY <1>2, <1>3
  <2>2. n \in Simple => f[LastInstr[n]] \in Outcome
    <3>1. n \in Simple => n # 0  BY TreeAssumption DEF Node
    <3> QED BY <1>2, <1>3, <3>1
  <2> QED BY <2>1, <2>2, MigratedTyped
<1>4. ASSUME NEW n \in D, NEW f, NEW g,
             \A m \in D : rank[m] < rank[n] => f[m] = g[m]
      PROVE  W(n, f) = W(n, g)
  <2>1. CASE n = 0  BY <2>1 DEF Migrated
  <2>2. CASE n # 0
    <3>1. f[PrevTB(n, FALSE)] = g[PrevTB(n, FALSE)]  BY <1>2, <1>4, <2>2
    <3>2. n \in Simple => f[LastInstr[n]] = g[LastInstr[n]]  BY <1>2, <1>4, <2>2
    <3>3. CASE n \in Simple  BY <3>1, <3>2, <3>3
    <3>4. CASE n \notin Simple  BY <3>1, <3>4 DEF Migrated
    <3> QED BY <3>3, <3>4
  <2> QED BY <2>1, <2>2
<1> HIDE DEF W
<1>5. /\ rule \in [D \X [D -> Outcome] -> Outcome]
      /\ \A n \in D, f \in [D -> Outcome] : rule[<<n, f>>] = W(n, f)
  <2>1. \A n \in D, f \in [D -> Outcome] : W(n, f) \in Outcome
    <3> SUFFICES ASSUME NEW n \in D, NEW f \in [D -> Outcome] PROVE W(n, f) \in Outcome
      OBVIOUS
    <3>1. \A m \in D : f[m] \in Outcome  OBVIOUS
    <3> HIDE DEF D
    <3> QED BY <1>3, <3>1
  <2> QED BY <2>1
<1> HIDE DEF rule
<1>6. Solvable(D, Outcome, rule)
  <2>1. Outcome # {}
    <3>1. Stays(0) \in Outcome  BY DEF Stays, Outcome
    <3> QED BY <3>1
  <2>2. rank \in [D -> Nat] /\ bound \in Nat /\ \A d \in D : rank[d] < bound  BY <1>1
  <2> HIDE DEF D
  <2>3. Ranked(D, Outcome, rule, rank)  BY <1>4, <1>5 DEF Ranked
  <2> QED BY <1>5, <2>1, <2>2, <2>3, Recursion
<1>7. PICK f \in [D -> Outcome] : \A n \in D : f[n] = W(n, f)
  BY <1>5, <1>6 DEF Solvable
<1>8. f = [n \in D |-> W(n, f)]  BY <1>7
<1> DEFINE h == CHOOSE g : g = [n \in D |-> W(n, g)]
<1>9. h = [n \in D |-> W(n, h)]
  <2>1. \E g : g = [n \in D |-> W(n, g)]  BY <1>8
  <2> QED BY <2>1
<1>10. Migrate(o) = h[Home(o)]  BY DEF Migrate, W
<1> HIDE DEF h
<1>11. \A n \in D : h[n] \in Outcome
  <2> DEFINE S == {n \in D : h[n] \in Outcome}
  <2>1. ASSUME NEW n \in D, \A m \in D : rank[m] < rank[n] => m \in S
        PROVE  n \in S
    <3>1. W(n, h) \in Outcome  BY <1>3, <2>1
    <3>2. h[n] = W(n, h)  BY <1>9
    <3> QED BY <3>1, <3>2
  <2>2. rank \in [D -> Nat]  BY <1>1
  <2> HIDE DEF S, D
  <2>3. D \subseteq S  BY <2>1, <2>2, RankInduction
  <2> QED BY <2>3 DEF S
<1>12. h \in [D -> Outcome] /\ \A n \in D : h[n] = W(n, h)  BY <1>9, <1>11
<1> QED BY <1>10, <1>12 DEF W

\* The ifs and loops around a node.
Outer(n) == IF Up[n] = 0 THEN {} ELSE Above[Up[n]] \cap Nests

LEMMA OuterInstr ==
    \A i \in Instr : Outer(i) = Above[i] \cap Nests /\ LastIn(i) = i /\ Up[i] # 0
<1> SUFFICES ASSUME NEW i \in Instr
             PROVE  Outer(i) = Above[i] \cap Nests /\ LastIn(i) = i /\ Up[i] # 0
  OBVIOUS
<1>1. i \in Node /\ Up[i] # 0 /\ i \notin Nests  BY TreeAssumption DEF Node, Nests
<1>2. Above[i] = {i} \cup Above[Up[i]]  BY AboveInstr
<1>3. LastIn(i) = i  BY <1>1, LastWithin, WithinNode
<1> QED BY <1>1, <1>2, <1>3 DEF Outer

LEMMA OuterUp ==
    ASSUME NEW n \in Node, PrevTB(n, FALSE) # 0
    PROVE  /\ PrevTB(n, FALSE) \in Node /\ Outer(PrevTB(n, FALSE)) = Outer(n)
           /\ LastIn(PrevTB(n, FALSE)) < LastIn(n)
<1>1. /\ PrevTB(n, FALSE) \in Node
      /\ \A i \in Within[PrevTB(n, FALSE)], j \in Within[n] : i < j
      /\ \/ Up[PrevTB(n, FALSE)] = Up[n]
         \/ n \in Instr /\ Up[PrevTB(n, FALSE)] = Up[Up[n]]
  BY PrevTBNode
<1>2. PICK m : m = PrevTB(n, FALSE)  OBVIOUS
<1>3. LastIn(m) < LastIn(n)  BY <1>1, <1>2, LastWithin
<1>4. CASE Up[m] = Up[n]  BY <1>1, <1>2, <1>3, <1>4 DEF Outer
<1>5. CASE n \in Instr /\ Up[m] = Up[Up[n]]
  <2>1. Up[n] # 0 /\ Up[n] \notin Nests  BY <1>5, TreeAssumption DEF Node, Nests
  <2>2. Above[Up[n]] = {Up[n]} \cup (IF Up[Up[n]] = 0 THEN {} ELSE Above[Up[Up[n]]])
    BY <1>5, AboveInstr
  <2>3. Outer(m) = Outer(n)  BY <1>5, <2>1, <2>2 DEF Outer
  <2> QED BY <1>1, <1>2, <1>3, <2>3
<1> QED BY <1>1, <1>2, <1>4, <1>5

LEMMA LastInBlock ==
    ASSUME NEW b \in Simple
    PROVE  /\ LastInstr[b] \in Instr /\ LastInstr[b] = LastIn(b) /\ Up[LastInstr[b]] = b
           /\ Outer(LastInstr[b]) = Outer(b) /\ LastIn(LastInstr[b]) = LastIn(b)
<1>1. LastInstr[b] = LastIn(b) /\ b \in Node  BY DEF LastInstr, LastIn, Node
<1>2. LastIn(b) \in Instr /\ Up[LastIn(b)] = b  BY <1>1, LastWithin, WithinNode
<1>3. PICK i \in Instr : i = LastIn(b)  BY <1>2
<1>4. Up[i] = b /\ b # 0 /\ b \notin Nests  BY <1>2, <1>3, TreeAssumption DEF Node, Nests
<1>5. Above[Up[i]] = {Up[i]} \cup (IF Up[Up[i]] = 0 THEN {} ELSE Above[Up[Up[i]]])
  BY AboveInstr
<1>6. Outer(i) = Outer(b)  BY <1>4, <1>5 DEF Outer
<1> QED BY <1>1, <1>2, <1>3, <1>6, OuterInstr

\* Where the migration from a node puts the operation: in an instruction with a
\* free slot for it, inside no other ifs and loops, and not below.
Settles(o, n, r) ==
    r.at # 0 => /\ r.at \in Instr /\ r.at # Home(o) /\ r.at # FirstInstr
                /\ AvailSlots(o, r.at) # {}
                /\ Outer(r.at) = Outer(n) /\ r.at <= LastIn(n)

LEMMA InsertSettles ==
    ASSUME NEW o, NEW n \in Instr, NEW r \in Outcome, Settles(o, n, r)
    PROVE  Settles(o, n, Insert(o, n, r))
<1>1. [r EXCEPT !.stop = "nullDereference"].at = r.at
      /\ [r EXCEPT !.at = n, !.via = {}].at = n
  BY DEF Outcome
<1>2. LastIn(n) = n /\ n <= n  BY OuterInstr, TreeAssumption DEF Node
<1> QED BY <1>1, <1>2 DEF Insert, Settles

LEMMA MigratedSettles ==
    ASSUME NEW o, NEW n \in Node \cup {0}, NEW above \in Outcome, NEW within,
           n # 0 /\ PrevTB(n, FALSE) # 0 => Settles(o, PrevTB(n, FALSE), above),
           PrevTB(n, FALSE) = 0 => above.at = 0,
           n \in Simple => within \in Outcome /\ Settles(o, LastInstr[n], within)
    PROVE  Settles(o, n, Migrated(o, n, above, within))
<1>1. n # 0 => Settles(o, n, above)
  <2> SUFFICES ASSUME n # 0, above.at # 0 PROVE Settles(o, n, above)
    BY DEF Settles
  <2>1. PrevTB(n, FALSE) # 0 /\ n \in Node  OBVIOUS
  <2>2. PICK m \in Node : m = PrevTB(n, FALSE)  BY <2>1, OuterUp
  <2>3. Outer(m) = Outer(n) /\ LastIn(m) < LastIn(n)  BY <2>1, <2>2, OuterUp
  <2>4. LastIn(m) \in Nat /\ LastIn(n) \in Nat
    BY <2>1, LastWithin, TreeAssumption DEF Node
  <2>5. Settles(o, m, above)  BY <2>1, <2>2
  <2>6. above.at \in Nat /\ above.at <= LastIn(m)
    BY <2>5, TreeAssumption DEF Settles, Node
  <2>7. above.at <= LastIn(n)
    <3>1. PICK x \in Nat, y \in Nat : x = LastIn(m) /\ y = LastIn(n)  BY <2>4
    <3> QED BY <2>3, <2>6, <3>1
  <2> QED BY <2>3, <2>5, <2>7 DEF Settles
<1>2. n \in Simple => Settles(o, n, within)  BY LastInBlock DEF Settles
<1>3. \A r, k : Stays(k).at = 0 /\ [Stays(k) EXCEPT !.stop = "forcedExit"].at = 0
  BY DEF Stays
<1>4. \A r \in Outcome, b \in Simple : Via(r, b).at = r.at  BY DEF Via, Outcome
<1>5. CASE n = 0  BY <1>3, <1>5 DEF Migrated, Settles
<1>6. CASE n # 0 /\ n \in Instr
  <2>1. Stays(n) \in Outcome  BY <1>6 DEF Stays, Outcome
  <2>2. Settles(o, n, Stays(n))  BY <1>3 DEF Settles
  <2>3. Settles(o, n, Insert(o, n, Stays(n))) /\ Settles(o, n, Insert(o, n, above))
    BY <1>1, <1>6, <2>1, <2>2, InsertSettles
  <2> QED BY <1>1, <1>6, <2>3 DEF Migrated
<1>7. CASE n # 0 /\ n \notin Instr /\ n \in Simple
  <2>1. Settles(o, n, Via(within, n)) /\ Settles(o, n, Via(above, n))
    BY <1>1, <1>2, <1>4, <1>7 DEF Settles
  <2>2. Settles(o, n, [Stays(lastCanMove) EXCEPT !.stop = "forcedExit"])
    BY <1>3 DEF Settles
  <2> QED BY <1>7, <2>1, <2>2 DEF Migrated
<1>8. CASE n # 0 /\ n \notin Instr /\ n \notin Simple
  <2>1. Settles(o, n, Stays(lastCanMove))  BY <1>3 DEF Settles
  <2> QED BY <1>1, <1>8, <2>1 DEF Migrated
<1> QED BY <1>5, <1>6, <1>7, <1>8

LEMMA MigrateSettles ==
    ASSUME NEW o, lastCanMove \in Instr \cup {0}, Home(o) \in Instr
    PROVE  /\ Migrate(o) \in Outcome
           /\ Settles(o, Home(o), Migrate(o))
<1>1. PICK f \in [Node \cup {0} -> Outcome] :
        /\ \A n \in Node \cup {0} :
             f[n] = Migrated(o, n, f[PrevTB(n, FALSE)], f[LastInstr[n]])
        /\ Migrate(o) = f[Home(o)]
  BY MigrateSteps
<1>2. PICK rank \in [Node \cup {0} -> Nat], bound \in Nat :
        /\ rank[0] = 0
        /\ \A n \in Node \cup {0} : rank[n] < bound
        /\ \A n \in Node : rank[n] # 0 /\ Below(rank, n)
  BY Ranks
<1> DEFINE D == Node \cup {0}
           Good(n) == IF n = 0 THEN f[n].at = 0 ELSE Settles(o, n, f[n])
           S == {n \in D : Good(n)}
<1>3. ASSUME NEW n \in D, \A m \in D : rank[m] < rank[n] => m \in S
      PROVE  n \in S
  <2>1. CASE n = 0
    <3>1. f[n] = Stays(lastCanMove)  BY <1>1, <2>1 DEF Migrated
    <3> QED BY <2>1, <3>1 DEF Stays
  <2>2. CASE n # 0
    <3>1. Below(rank, n)  BY <1>2, <2>2
    <3>2. PrevTB(n, FALSE) \in D /\ PrevTB(n, FALSE) \in S  BY <1>3, <3>1 DEF Below
    <3>3. n \in Simple => LastInstr[n] \in D /\ LastInstr[n] # 0 /\ LastInstr[n] \in S
      <4>1. \A i \in Instr : i \in D /\ i # 0  BY TreeAssumption DEF Node
      <4> QED BY <1>3, <3>1, <4>1 DEF Below
    <3>4. PICK a, w : a \in Outcome /\ a = f[PrevTB(n, FALSE)] /\ w = f[LastInstr[n]]
      BY <3>2
    <3>5. /\ PrevTB(n, FALSE) # 0 => Settles(o, PrevTB(n, FALSE), a)
          /\ PrevTB(n, FALSE) = 0 => a.at = 0
      BY <3>2, <3>4
    <3>6. n \in Simple => w \in Outcome /\ Settles(o, LastInstr[n], w)
      BY <3>3, <3>4
    <3>7. Settles(o, n, Migrated(o, n, a, w))  BY <3>4, <3>5, <3>6, MigratedSettles
    <3>8. f[n] = Migrated(o, n, a, w)  BY <1>1, <3>4
    <3> QED BY <2>2, <3>7, <3>8
  <2> QED BY <2>1, <2>2
<1>4. D \subseteq S
  <2>1. rank \in [D -> Nat]  BY <1>2
  <2> HIDE DEF D, S
  <2> QED BY <1>3, <2>1, RankInduction
<1>5. Home(o) \in Node /\ Home(o) # 0  BY TreeAssumption DEF Node
<1> QED BY <1>1, <1>4, <1>5

-----------------------------------------------------------------------------
(* The search and the migration go the same way up. *)

\* A search that may not go up out of its block stays inside the parent.
LEMMA WayWithin ==
    \A n \in Node : Up[n] # 0 => OnTheWay[<<n, TRUE>>] \subseteq Within[Up[n]]
<1>1. PICK rank \in [Calls -> Nat], bound \in Nat :
        /\ \A c \in Calls : rank[c] < bound
        /\ \A c \in Calls : c[1] # 0 =>
             \A d \in Goes(c) : d \in Calls /\ rank[d] < rank[c]
  BY CallRanks
<1> DEFINE Good(c) == c[2] = TRUE /\ c[1] # 0 /\ Up[c[1]] # 0
                        => OnTheWay[c] \subseteq Within[Up[c[1]]]
           S == {c \in Calls : Good(c)}
<1>2. ASSUME NEW c \in Calls, \A d \in Calls : rank[d] < rank[c] => d \in S
      PROVE  c \in S
  <2> SUFFICES ASSUME c[2] = TRUE, c[1] # 0, Up[c[1]] # 0
               PROVE  OnTheWay[c] \subseteq Within[Up[c[1]]]
    OBVIOUS
  <2>a. c[1] \in Node \cup {0} /\ c = <<c[1], c[2]>>  BY DEF Calls
  <2>1. PICK n \in Node : n = c[1] /\ c = <<n, TRUE>>  BY <2>a
  <2>2. \A d \in Goes(c) : d \in Calls /\ Good(d)  BY <1>1, <1>2
  <2>3. OnTheWay[c] = Passing(n, OnTheWay[OnUp(c)], UNION {OnTheWay[<<m, TRUE>>] : m \in LastOf(n)})
    BY <2>1, WayOf
  <2>4. OnTheWay[OnUp(c)] \subseteq Within[Up[n]]
    <3>1. OnUp(c) \in Goes(c) /\ OnUp(c) = <<PrevTB(n, TRUE), TRUE>>
      BY <2>1 DEF Goes, OnUp
    <3>2. CASE PrevTB(n, TRUE) = 0
      <4>1. OnTheWay[OnUp(c)] = {}
        <5>1. OnUp(c) \in Calls /\ OnUp(c)[1] = 0
          <6>1. OnUp(c)[1] = PrevTB(n, TRUE)
            <7>1. PICK x : x = PrevTB(n, TRUE)  OBVIOUS
            <7>2. OnUp(c) = <<x, TRUE>>  BY <3>1, <7>1
            <7> QED BY <7>1, <7>2
          <6>2. OnUp(c) \in Calls
            <7> HIDE DEF Good
            <7> QED BY <2>2, <3>1
          <6> QED BY <3>2, <6>1, <6>2
        <5> QED BY <5>1, WayOf DEF Passing
      <4> QED BY <4>1
    <3>3. CASE PrevTB(n, TRUE) # 0
      <4>1. Up[PrevTB(n, TRUE)] = Up[n]  BY <3>3, PrevTBNode
      <4>2. PICK m : m = PrevTB(n, TRUE)  OBVIOUS
      <4>3. PICK d \in Goes(c) : d = <<m, TRUE>> /\ d = OnUp(c)  BY <3>1, <4>2
      <4>4. d[1] = m /\ d[2] = TRUE /\ m # 0 /\ Up[m] = Up[n]
        <5>1. d[1] = m /\ d[2] = TRUE  BY <4>3
        <5>2. m # 0 /\ Up[m] = Up[n]  BY <3>3, <4>1, <4>2
        <5> QED BY <5>1, <5>2
      <4>5. Good(d)
        <5> HIDE DEF Good
        <5> QED BY <2>2
      <4> QED BY <2>1, <4>3, <4>4, <4>5
    <3> QED BY <3>2, <3>3
  <2>5. n \in Instr => n \in Within[Up[n]]
    BY WithinNode, TreeAssumption
  <2>6. ASSUME n \in Simple \cup Cond
        PROVE  UNION {OnTheWay[<<m, TRUE>>] : m \in LastOf(n)} \subseteq Within[Up[n]]
    <3>1. ASSUME NEW m \in LastOf(n) PROVE Up[m] = n
      <4>1. CASE n \in Simple  BY <3>1, <4>1, LastInBlock DEF LastOf
      <4>2. CASE n \notin Simple  BY <2>6, <3>1, <4>2 DEF LastOf, LastNodes
      <4> QED BY <4>1, <4>2
    <3>2. ASSUME NEW m \in LastOf(n) PROVE OnTheWay[<<m, TRUE>>] \subseteq Within[n]
      <4>1. <<m, TRUE>> \in Goes(c)  BY <2>1, <2>6 DEF Goes
      <4>2. m # 0
        <5>1. CASE n \in Simple
          <6>1. m \in Instr  BY <3>2, <5>1, LastInBlock DEF LastOf
          <6> QED BY <6>1, TreeAssumption DEF Node
        <5>2. CASE n \notin Simple
          <6>1. m \in Node  BY <2>6, <3>2, <5>2 DEF LastOf, LastNodes
          <6> QED BY <6>1, TreeAssumption
        <5> QED BY <5>1, <5>2
      <4>3. n # 0  BY TreeAssumption
      <4> QED BY <2>2, <3>1, <4>1, <4>2, <4>3
    <3>3. Within[n] \subseteq Within[Up[n]]  BY <2>1, WithinNode
    <3> QED BY <3>2, <3>3
  <2> QED BY <2>1, <2>3, <2>4, <2>5, <2>6 DEF Passing
<1>3. Calls \subseteq S
  <2> HIDE DEF S
  <2> QED BY <1>1, <1>2, RankInduction
<1>4. \A n \in Node : <<n, TRUE>> \in Calls /\ n # 0  BY TreeAssumption DEF Calls
<1> QED BY <1>3, <1>4

LEMMA InsideWithin ==
    ASSUME NEW n \in Simple \cup Cond
    PROVE  UNION {OnTheWay[<<m, TRUE>>] : m \in LastOf(n)} \subseteq Within[n]
<1> SUFFICES ASSUME NEW m \in LastOf(n) PROVE OnTheWay[<<m, TRUE>>] \subseteq Within[n]
  OBVIOUS
<1>1. n # 0  BY TreeAssumption DEF Node
<1>2. m \in Node /\ Up[m] = n
  <2>1. CASE n \in Simple
    <3>1. LastInstr[n] \in Instr /\ Up[LastInstr[n]] = n  BY <2>1, LastInBlock
    <3> QED BY <2>1, <3>1 DEF LastOf, Node
  <2>2. CASE n \notin Simple  BY <2>2 DEF LastOf, LastNodes
  <2> QED BY <2>1, <2>2
<1> QED BY <1>1, <1>2, WayWithin

\* A search from the end of a block comes to all its instructions.
LEMMA BlockWay ==
    ASSUME NEW b \in Simple, NEW g \in BOOLEAN
    PROVE  Within[b] \subseteq OnTheWay[<<LastInstr[b], g>>]
<1> DEFINE Bad == {i \in Within[b] : ~\A j \in Within[b] : j <= i => j \in OnTheWay[<<i, g>>]}
<1>1. b \in Node /\ Within[b] \subseteq Instr /\ Instr \subseteq Node /\ Instr \subseteq Nat
      /\ 0 \notin Instr
  BY WithinNode, TreeAssumption DEF Node
<1>2. Bad = {}
  <2> SUFFICES ASSUME Bad # {} PROVE FALSE
    OBVIOUS
  <2>1. Bad \subseteq Nat  BY <1>1
  <2>2. PICK i \in Bad : \A k \in Bad : i <= k
    <3> HIDE DEF Bad
    <3> QED BY <2>1, Smallest
  <2>3. PICK j \in Within[b] : j <= i /\ j \notin OnTheWay[<<i, g>>]  OBVIOUS
  <2>4. i \in Within[b] /\ i \in Instr /\ i \in Node /\ i # 0 /\ i \in Nat /\ j \in Nat
    BY <1>1
  <2>5. <<i, g>> \in Calls /\ <<i, g>>[1] = i  BY <2>4 DEF Calls
  <2>6. OnTheWay[<<i, g>>] = Passing(i, OnTheWay[OnUp(<<i, g>>)],
                                     UNION {OnTheWay[<<m, TRUE>>] : m \in LastOf(i)})
    BY <2>5, WayOf
  <2>7. i \in OnTheWay[<<i, g>>] /\ OnTheWay[OnUp(<<i, g>>)] \subseteq OnTheWay[<<i, g>>]
    BY <2>4, <2>6 DEF Passing
  <2>8. j < i /\ j <= i - 1  BY <2>3, <2>4, <2>7
  <2>9. i - 1 \in Within[b] /\ Prev[i] = i - 1
    <3>1. j..i \subseteq Within[b]  BY <1>1, <2>3, OrderAssumption
    <3>2. i - 1 \in j..i  BY <2>4, <2>8
    <3> QED BY <2>3, <2>8, <3>1, <3>2, OrderAssumption
  <2>10. i - 1 # 0  BY <1>1, <2>9
  <2>11. OnUp(<<i, g>>) = <<i - 1, g>>  BY <2>9, <2>10 DEF OnUp, PrevTB
  <2>12. i - 1 \notin Bad
    <3>1. ~(i <= i - 1)  BY <2>4
    <3> HIDE DEF Bad
    <3> QED BY <2>2, <3>1
  <2>13. j \in OnTheWay[<<i - 1, g>>]  BY <2>8, <2>9, <2>12
  <2> QED BY <2>3, <2>7, <2>11, <2>13
<1>3. LastIn(b) \in Within[b] /\ \A j \in Within[b] : j <= LastIn(b)
  BY <1>1, LastWithin
<1>4. LastInstr[b] = LastIn(b)  BY LastInBlock
<1> QED BY <1>2, <1>3, <1>4

Lists(o, instrs) == \E i \in instrs : o \in Range(unif[i])

\* A migration with a place that lists the operation still on its way does not
\* come to the block that ends the compiler.
LEMMA MigratedGoesOn ==
    ASSUME NEW o, NEW n \in Node, NEW above \in Outcome, NEW within,
           Lists(o, OnTheWay[<<n, FALSE>>]),
           Lists(o, OnTheWay[<<PrevTB(n, FALSE), FALSE>>]) => above.stop # "forcedExit",
           n \in Simple => within \in Outcome /\
             (Lists(o, OnTheWay[<<LastInstr[n], FALSE>>]) => within.stop # "forcedExit")
    PROVE  Migrated(o, n, above, within).stop # "forcedExit"
<1>1. n # 0 /\ <<n, FALSE>> \in Calls  BY TreeAssumption DEF Calls
<1>2. OnTheWay[<<n, FALSE>>] =
        Passing(n, OnTheWay[<<PrevTB(n, FALSE), FALSE>>],
                UNION {OnTheWay[<<m, TRUE>>] : m \in LastOf(n)})
  BY <1>1, WayOf DEF OnUp
<1>3. OnTheWay[<<n, FALSE>>] \subseteq OnTheWay[<<PrevTB(n, FALSE), FALSE>>] \cup Within[n]
  <2>1. PICK U : U = UNION {OnTheWay[<<m, TRUE>>] : m \in LastOf(n)}  OBVIOUS
  <2>2. n \in Simple \cup Cond => U \subseteq Within[n]  BY <2>1, InsideWithin
  <2>3. n \in Instr => {n} \subseteq Within[n]  BY WithinNode
  <2> QED BY <1>1, <1>2, <2>1, <2>2, <2>3 DEF Passing
<1>4. Unifiable(n, o) <=> Lists(o, Within[n])  BY DEF Unifiable, Lists
<1>5. ~Unifiable(n, o) => Lists(o, OnTheWay[<<PrevTB(n, FALSE), FALSE>>])
  BY <1>3, <1>4 DEF Lists
<1>6. ~Unifiable(n, o) => above.stop # "forcedExit"  BY <1>5
<1>7. \A k : Stays(k).stop = "no"  BY DEF Stays
<1>8. ASSUME NEW i \in Instr, NEW r \in Outcome, r.stop # "forcedExit"
      PROVE  Insert(o, i, r).stop # "forcedExit"
  <2>1. [r EXCEPT !.stop = "nullDereference"].stop = "nullDereference"
        /\ [r EXCEPT !.at = i, !.via = {}].stop = r.stop
    BY DEF Outcome
  <2> QED BY <1>8, <2>1 DEF Insert
<1>9. \A r \in Outcome, b \in Simple : Via(r, b).stop = r.stop  BY DEF Via, Outcome
<1>10. CASE n \in Instr
  <2>1. Stays(n) \in Outcome  BY <1>10 DEF Stays, Outcome
  <2>2. Insert(o, n, Stays(n)).stop # "forcedExit"  BY <1>7, <1>8, <1>10, <2>1
  <2>3. ~Unifiable(n, o) => Insert(o, n, above).stop # "forcedExit"
    BY <1>6, <1>8, <1>10
  <2> QED BY <1>1, <1>6, <1>10, <2>2, <2>3 DEF Migrated
<1>11. CASE n \notin Instr /\ n \in Simple
  <2>1. CASE Unifiable(n, o)
    <3>1. Lists(o, OnTheWay[<<LastInstr[n], FALSE>>])
      BY <1>4, <1>11, <2>1, BlockWay DEF Lists
    <3> QED BY <1>1, <1>9, <1>11, <2>1, <3>1 DEF Migrated
  <2>2. CASE ~Unifiable(n, o)
    <3>1. PrevTB(n, FALSE) # 0
      <4> SUFFICES ASSUME PrevTB(n, FALSE) = 0 PROVE FALSE
        OBVIOUS
      <4>1. <<0, FALSE>> \in Calls /\ OnTheWay[<<0, FALSE>>] = {}
        <5>1. <<0, FALSE>> \in Calls /\ <<0, FALSE>>[1] = 0  BY DEF Calls
        <5> QED BY <5>1, WayOf DEF Passing
      <4> QED BY <1>5, <2>2, <4>1 DEF Lists
    <3> QED BY <1>1, <1>6, <1>9, <1>11, <2>2, <3>1 DEF Migrated
  <2> QED BY <2>1, <2>2
<1>12. CASE n \notin Instr /\ n \notin Simple
  <2>1. Stays(lastCanMove).stop # "forcedExit"  BY <1>7
  <2>2. n \notin Cond => OnTheWay[<<n, FALSE>>] = OnTheWay[<<PrevTB(n, FALSE), FALSE>>]
    BY <1>1, <1>2, <1>12 DEF Passing
  <2>3. n \notin Cond => above.stop # "forcedExit"  BY <2>2
  <2> QED BY <1>1, <1>6, <1>12, <2>1, <2>3 DEF Migrated
<1> QED BY <1>10, <1>11, <1>12

LEMMA WayFromHome ==
    ASSUME NEW h \in Instr
    PROVE  OnTheWay[<<PrevTB(h, FALSE), FALSE>>] \subseteq OnTheWay[<<h, FALSE>>]
<1>2. h # 0 /\ <<h, FALSE>> \in Calls  BY TreeAssumption DEF Calls, Node
<1>3. OnUp(<<h, FALSE>>) = <<PrevTB(h, FALSE), FALSE>> /\ <<h, FALSE>>[1] = h
  BY DEF OnUp
<1>4. OnTheWay[<<h, FALSE>>] = Passing(h, OnTheWay[OnUp(<<h, FALSE>>)],
                                       UNION {OnTheWay[<<m, TRUE>>] : m \in LastOf(h)})
  BY <1>2, <1>3, WayOf
<1>5. OnTheWay[<<PrevTB(h, FALSE), FALSE>>] \subseteq OnTheWay[<<h, FALSE>>]
  BY <1>2, <1>3, <1>4 DEF Passing
<1> QED BY <1>5

LEMMA MigrateGoesOn ==
    ASSUME NEW o, lastCanMove \in Instr \cup {0}, Home(o) \in Instr,
           Lists(o, OnTheWay[<<PrevTB(Home(o), FALSE), FALSE>>])
    PROVE  Migrate(o).stop # "forcedExit"
<1>1. PICK f \in [Node \cup {0} -> Outcome] :
        /\ \A n \in Node \cup {0} :
             f[n] = Migrated(o, n, f[PrevTB(n, FALSE)], f[LastInstr[n]])
        /\ Migrate(o) = f[Home(o)]
  BY MigrateSteps
<1>2. PICK rank \in [Node \cup {0} -> Nat], bound \in Nat :
        /\ rank[0] = 0
        /\ \A n \in Node \cup {0} : rank[n] < bound
        /\ \A n \in Node : rank[n] # 0 /\ Below(rank, n)
  BY Ranks
<1> DEFINE D == Node \cup {0}
           Good(n) == Lists(o, OnTheWay[<<n, FALSE>>]) => f[n].stop # "forcedExit"
           S == {n \in D : Good(n)}
<1>3. ASSUME NEW n \in D, \A m \in D : rank[m] < rank[n] => m \in S
      PROVE  n \in S
  <2>1. CASE n = 0
    <3>1. f[n] = Stays(lastCanMove)  BY <1>1, <2>1 DEF Migrated
    <3> QED BY <2>1, <3>1 DEF Stays
  <2>2. CASE n # 0
    <3>1. Below(rank, n) /\ n \in Node  BY <1>2, <2>2
    <3>2. PrevTB(n, FALSE) \in D /\ PrevTB(n, FALSE) \in S  BY <1>3, <3>1 DEF Below
    <3>3. n \in Simple => LastInstr[n] \in D /\ LastInstr[n] \in S
      <4>1. \A i \in Instr : i \in D  BY DEF Node
      <4> QED BY <1>3, <3>1, <4>1 DEF Below
    <3>4. PICK a, w : a \in Outcome /\ a = f[PrevTB(n, FALSE)] /\ w = f[LastInstr[n]]
      BY <3>2
    <3>5. Lists(o, OnTheWay[<<PrevTB(n, FALSE), FALSE>>]) => a.stop # "forcedExit"
      BY <3>2, <3>4
    <3>6. n \in Simple => w \in Outcome /\
            (Lists(o, OnTheWay[<<LastInstr[n], FALSE>>]) => w.stop # "forcedExit")
      BY <3>3, <3>4
    <3>7. Lists(o, OnTheWay[<<n, FALSE>>]) => Migrated(o, n, a, w).stop # "forcedExit"
      BY <3>1, <3>4, <3>5, <3>6, MigratedGoesOn
    <3>8. f[n] = Migrated(o, n, a, w)  BY <1>1, <3>4
    <3> QED BY <2>2, <3>7, <3>8
  <2> QED BY <2>1, <2>2
<1>4. D \subseteq S
  <2>1. rank \in [D -> Nat]  BY <1>2
  <2> HIDE DEF D, S
  <2> QED BY <1>3, <2>1, RankInduction
<1>5. Home(o) \in Node  BY DEF Node
<1>6. Lists(o, OnTheWay[<<Home(o), FALSE>>])  BY WayFromHome DEF Lists
<1> QED BY <1>1, <1>4, <1>5, <1>6

-----------------------------------------------------------------------------
(* Where a migration ends: at a place that lists the operation or below one, and
   past every if that has the place in it and not the operation. *)

Under(i, d) ==
    i <= d /\ \A c \in Cond : c \in Above[i] /\ c \notin Above[d] => LastIn(c) < d

\* An if or a loop that a search comes into is one around the node it starts
\* from, or ends no later than that.
Enters(i, n) ==
    /\ i \in Instr /\ i <= LastIn(n) /\ Outer(n) \subseteq Above[i]
    /\ \A c \in Above[i] \cap Nests : c \in Outer(n) \/ LastIn(c) <= LastIn(n)

LEMMA OuterGo ==
    ASSUME NEW n \in Node, NEW g \in BOOLEAN, PrevTB(n, g) # 0
    PROVE  /\ PrevTB(n, g) \in Node /\ Outer(PrevTB(n, g)) = Outer(n)
           /\ LastIn(PrevTB(n, g)) < LastIn(n)
<1>1. CASE g = FALSE  BY <1>1, OuterUp
<1>2. CASE g = TRUE
  <2>1. PrevTB(n, TRUE) = Prev[n] /\ Prev[n] # 0  BY <1>2 DEF PrevTB
  <2>2. PrevTB(n, FALSE) = PrevTB(n, TRUE)  BY <2>1 DEF PrevTB
  <2> QED BY <1>2, <2>2, OuterUp
<1> QED BY <1>1, <1>2

LEMMA LastNumbers ==
    /\ \A n \in Node : LastIn(n) \in Nat
    /\ \A i \in Instr : i \in Nat /\ i \in Node /\ i # 0
    /\ \A n \in Node : n # 0 /\ n \in Nat
  BY LastWithin, TreeAssumption DEF Node

\* The last nodes of an if, and the last instruction of a block.
LEMMA LastOfNode ==
    ASSUME NEW n \in Simple \cup Cond, NEW m \in LastOf(n)
    PROVE  /\ m \in Node /\ Up[m] = n /\ LastIn(m) <= LastIn(n) /\ Outer(n) \subseteq Outer(m)
           /\ n \in Simple => Outer(m) = Outer(n) /\ LastIn(m) = LastIn(n)
           /\ n \in Cond => Outer(m) = Outer(n) \cup {n}
<1>1. n \in Node /\ n # 0  BY TreeAssumption DEF Node
<1>2. m \in Node /\ Up[m] = n
  <2>1. CASE n \in Simple
    <3>1. LastInstr[n] \in Instr /\ Up[LastInstr[n]] = n  BY <2>1, LastInBlock
    <3> QED BY <2>1, <3>1 DEF LastOf, Node
  <2>2. CASE n \notin Simple  BY <2>2 DEF LastOf, LastNodes
  <2> QED BY <2>1, <2>2
<1>3. Within[m] \subseteq Within[n]  BY <1>1, <1>2, WithinNode
<1>4. LastIn(m) <= LastIn(n)  BY <1>1, <1>2, <1>3, LastWithin
<1>5. CASE n \in Simple
  <2>1. m = LastInstr[n]  BY <1>5 DEF LastOf
  <2>2. n \notin Cond  BY <1>5, TreeAssumption
  <2> QED BY <1>2, <1>4, <1>5, <2>1, <2>2, LastInBlock
<1>6. CASE n \notin Simple
  <2>1. n \in Cond /\ n \in Nests  BY <1>6 DEF Nests
  <2>2. Above[n] = {n} \cup (IF Up[n] = 0 THEN {} ELSE Above[Up[n]])
    BY <1>1, TreeAssumption, AncestorsOf DEF Above
  <2>3. Outer(m) = Above[n] \cap Nests  BY <1>1, <1>2 DEF Outer
  <2>4. Outer(m) = Outer(n) \cup {n}  BY <2>1, <2>2, <2>3 DEF Outer
  <2> QED BY <1>2, <1>4, <1>6, <2>1, <2>4
<1> QED BY <1>5, <1>6

LEMMA WayEnters ==
    \A c \in Calls : c[1] # 0 => \A i \in OnTheWay[c] : Enters(i, c[1])
<1>1. PICK rank \in [Calls -> Nat], bound \in Nat :
        /\ \A c \in Calls : rank[c] < bound
        /\ \A c \in Calls : c[1] # 0 =>
             \A d \in Goes(c) : d \in Calls /\ rank[d] < rank[c]
  BY CallRanks
<1> DEFINE Good(c) == c[1] # 0 => \A i \in OnTheWay[c] : Enters(i, c[1])
           S == {c \in Calls : Good(c)}
<1>2. ASSUME NEW c \in Calls, \A d \in Calls : rank[d] < rank[c] => d \in S
      PROVE  c \in S
  <2> SUFFICES ASSUME c[1] # 0, NEW i \in OnTheWay[c]
               PROVE  Enters(i, c[1])
    OBVIOUS
  <2>1. PICK n \in Node, g \in BOOLEAN : n = c[1] /\ g = c[2] /\ c = <<n, g>>
    <3>1. c[1] \in Node \cup {0} /\ c[2] \in BOOLEAN /\ c = <<c[1], c[2]>>  BY DEF Calls
    <3> QED BY <3>1
  <2>2. \A d \in Goes(c) : d \in Calls /\ Good(d)  BY <1>1, <1>2
  <2>3. OnTheWay[c] = Passing(n, OnTheWay[OnUp(c)], UNION {OnTheWay[<<m, TRUE>>] : m \in LastOf(n)})
    BY <2>1, WayOf
  <2>4. LastIn(n) \in Nat /\ LastIn(n) <= LastIn(n)
    <3>1. PICK x \in Nat : x = LastIn(n)  BY LastNumbers
    <3> QED BY <3>1
  <2>5. CASE n \in Instr /\ i = n
    <3>1. Outer(n) = Above[n] \cap Nests /\ LastIn(n) = n  BY <2>5, OuterInstr
    <3> QED BY <2>1, <2>4, <2>5, <3>1 DEF Enters
  <2>6. CASE i \in OnTheWay[OnUp(c)]
    <3>1. PICK m : m = PrevTB(n, g)  OBVIOUS
    <3>2. OnUp(c) \in Goes(c) /\ OnUp(c) = <<m, g>> /\ OnUp(c)[1] = m
      BY <2>1, <3>1 DEF Goes, OnUp
    <3>3. m # 0
      <4> SUFFICES ASSUME m = 0 PROVE FALSE
        OBVIOUS
      <4>1. OnUp(c) \in Calls
        <5> HIDE DEF Good
        <5> QED BY <2>2, <3>2
      <4>2. OnTheWay[OnUp(c)] = {}  BY <3>2, <4>1, WayOf DEF Passing
      <4> QED BY <2>6, <4>2
    <3>4. Enters(i, m)
      <4>1. Good(OnUp(c))
        <5> HIDE DEF Good
        <5> QED BY <2>2, <3>2
      <4> QED BY <2>6, <3>2, <3>3, <4>1
    <3>5. m \in Node /\ Outer(m) = Outer(n) /\ LastIn(m) < LastIn(n)
      BY <3>1, <3>3, OuterGo
    <3>6. PICK x \in Nat, y \in Nat : x = LastIn(m) /\ y = LastIn(n) /\ x < y
      BY <3>5, LastNumbers
    <3>7. \A k \in Nat : k <= x => k <= y  BY <3>6
    <3>8. i \in Nat /\ \A e \in Above[i] \cap Nests : LastIn(e) \in Nat
      BY <3>4, LastNumbers DEF Enters, Nests, Node
    <3> QED BY <2>1, <3>4, <3>5, <3>6, <3>7, <3>8 DEF Enters
  <2>7. CASE n \in Simple \cup Cond /\ \E m \in LastOf(n) : i \in OnTheWay[<<m, TRUE>>]
    <3>1. PICK m \in LastOf(n) : i \in OnTheWay[<<m, TRUE>>]  BY <2>7
    <3>2. <<m, TRUE>> \in Goes(c) /\ <<m, TRUE>>[1] = m  BY <2>1, <2>7 DEF Goes
    <3>3. /\ m \in Node /\ m # 0 /\ LastIn(m) <= LastIn(n) /\ Outer(n) \subseteq Outer(m)
          /\ \A e \in Outer(m) : e \in Outer(n) \/ e = n
      <4>1. CASE n \in Simple  BY <4>1, LastOfNode, LastNumbers
      <4>2. CASE n \notin Simple  BY <2>7, <4>2, LastOfNode, LastNumbers
      <4> QED BY <4>1, <4>2
    <3>4. Enters(i, m)
      <4>1. Good(<<m, TRUE>>)
        <5> HIDE DEF Good
        <5> QED BY <2>2, <3>2
      <4> QED BY <3>1, <3>2, <3>3, <4>1
    <3>5. PICK x \in Nat, y \in Nat : x = LastIn(m) /\ y = LastIn(n) /\ x <= y
      BY <3>3, LastNumbers
    <3>6. \A k \in Nat : k <= x => k <= y  BY <3>5
    <3>7. i \in Nat /\ \A e \in Above[i] \cap Nests : LastIn(e) \in Nat
      BY <3>4, LastNumbers DEF Enters, Nests, Node
    <3>8. \A e \in Above[i] \cap Nests : e \in Outer(n) \/ LastIn(e) <= LastIn(n)
      <4> SUFFICES ASSUME NEW e \in Above[i] \cap Nests
                   PROVE  e \in Outer(n) \/ LastIn(e) <= LastIn(n)
        OBVIOUS
      <4>1. CASE LastIn(e) <= LastIn(m)  BY <3>5, <3>6, <3>7, <4>1
      <4>2. CASE e \in Outer(m)  BY <2>4, <3>3, <4>2
      <4> QED BY <3>4, <4>1, <4>2 DEF Enters
    <3>9. i <= LastIn(n)  BY <3>4, <3>5, <3>6, <3>7 DEF Enters
    <3> QED BY <2>1, <3>3, <3>4, <3>8, <3>9 DEF Enters
  <2>8. \/ n \in Instr /\ i = n
        \/ i \in OnTheWay[OnUp(c)]
        \/ n \in Simple \cup Cond /\ \E m \in LastOf(n) : i \in OnTheWay[<<m, TRUE>>]
    <3>1. PICK A, U : /\ A = OnTheWay[OnUp(c)]
                      /\ U = UNION {OnTheWay[<<m, TRUE>>] : m \in LastOf(n)}
      OBVIOUS
    <3>2. i \in Passing(n, A, U)  BY <2>3, <3>1
    <3>3. i \in U => \E m \in LastOf(n) : i \in OnTheWay[<<m, TRUE>>]  BY <3>1
    <3> QED BY <2>1, <3>1, <3>2, <3>3 DEF Passing
  <2> QED BY <2>5, <2>6, <2>7, <2>8
<1>3. Calls \subseteq S
  <2> HIDE DEF S
  <2> QED BY <1>1, <1>2, RankInduction
<1> QED BY <1>3

LEMMA UnderBelow ==
    ASSUME NEW n \in Instr, PrevTB(n, FALSE) # 0, NEW i, Enters(i, PrevTB(n, FALSE))
    PROVE  Under(i, n)
<1>1. PICK m \in Node : m = PrevTB(n, FALSE) /\ Outer(m) = Outer(n) /\ LastIn(m) < LastIn(n)
  BY OuterUp, LastNumbers
<1>2. LastIn(n) = n /\ Outer(n) = Above[n] \cap Nests  BY OuterInstr
<1>3. PICK x \in Nat : x = LastIn(m) /\ x < n  BY <1>1, <1>2, LastNumbers
<1>4. i \in Nat /\ i <= x /\ n \in Nat  BY <1>1, <1>3, LastNumbers DEF Enters
<1>5. i <= n  BY <1>3, <1>4
<1>6. ASSUME NEW c \in Cond, c \in Above[i], c \notin Above[n] PROVE LastIn(c) < n
  <2>1. c \in Nests /\ c \in Node  BY DEF Nests, Node
  <2>2. LastIn(c) <= LastIn(m)  BY <1>1, <1>2, <1>6, <2>1 DEF Enters
  <2>3. PICK y \in Nat : y = LastIn(c)  BY <2>1, LastNumbers
  <2> QED BY <1>3, <1>4, <2>2, <2>3
<1> QED BY <1>5, <1>6 DEF Under

\* What a migration from a node on comes to.
EndsUnder(o, r) ==
    r.at # 0 => \E i \in Instr : o \in Range(unif[i]) /\ Under(i, r.at)

LEMMA MigratedUnder ==
    ASSUME NEW o, NEW n \in Node, NEW above \in Outcome, NEW within,
           Lists(o, OnTheWay[<<n, FALSE>>]),
           Lists(o, OnTheWay[<<PrevTB(n, FALSE), FALSE>>]) => EndsUnder(o, above),
           n \in Simple => within \in Outcome /\
             (Lists(o, OnTheWay[<<LastInstr[n], FALSE>>]) => EndsUnder(o, within))
    PROVE  EndsUnder(o, Migrated(o, n, above, within))
<1>1. n # 0 /\ <<n, FALSE>> \in Calls  BY TreeAssumption DEF Calls
<1>2. OnTheWay[<<n, FALSE>>] =
        Passing(n, OnTheWay[<<PrevTB(n, FALSE), FALSE>>],
                UNION {OnTheWay[<<m, TRUE>>] : m \in LastOf(n)})
  BY <1>1, WayOf DEF OnUp
<1>3. OnTheWay[<<n, FALSE>>] \subseteq OnTheWay[<<PrevTB(n, FALSE), FALSE>>] \cup Within[n]
  <2>1. PICK U : U = UNION {OnTheWay[<<m, TRUE>>] : m \in LastOf(n)}  OBVIOUS
  <2>2. n \in Simple \cup Cond => U \subseteq Within[n]  BY <2>1, InsideWithin
  <2>3. n \in Instr => {n} \subseteq Within[n]  BY WithinNode
  <2> QED BY <1>1, <1>2, <2>1, <2>2, <2>3 DEF Passing
<1>4. Unifiable(n, o) <=> Lists(o, Within[n])  BY DEF Unifiable, Lists
<1>5. ~Unifiable(n, o) => Lists(o, OnTheWay[<<PrevTB(n, FALSE), FALSE>>])
  BY <1>3, <1>4 DEF Lists
<1>6. ~Unifiable(n, o) => EndsUnder(o, above)  BY <1>5
<1>7. \A k : Stays(k).at = 0 /\ [Stays(k) EXCEPT !.stop = "forcedExit"].at = 0
  BY DEF Stays
<1>8. \A r \in Outcome, b \in Simple : Via(r, b).at = r.at  BY DEF Via, Outcome
<1>9. CASE n \in Instr
  <2>1. ASSUME NEW r \in Outcome PROVE Insert(o, n, r).at \in {r.at, n}
    <3>1. [r EXCEPT !.stop = "nullDereference"].at = r.at
          /\ [r EXCEPT !.at = n, !.via = {}].at = n
      BY DEF Outcome
    <3> QED BY <3>1 DEF Insert
  <2>2. CASE Unifiable(n, o)
    <3>1. Stays(n) \in Outcome  BY <1>9 DEF Stays, Outcome
    <3>2. PICK r : r = Insert(o, n, Stays(n)) /\ r.at \in {0, n}  BY <1>7, <2>1, <3>1
    <3>3. o \in Range(unif[n])  BY <1>4, <1>9, <2>2, WithinNode DEF Lists
    <3>4. Under(n, n)  BY <1>9, LastNumbers DEF Under
    <3>5. Migrated(o, n, above, within) = r  BY <1>1, <1>9, <2>2, <3>2 DEF Migrated
    <3> QED BY <1>9, <3>2, <3>3, <3>4, <3>5 DEF EndsUnder
  <2>3. CASE ~Unifiable(n, o)
    <3>1. PICK m : m = PrevTB(n, FALSE)  OBVIOUS
    <3>2. PICK i \in OnTheWay[<<m, FALSE>>] : o \in Range(unif[i])
      BY <1>5, <2>3, <3>1 DEF Lists
    <3>3. m \in Node \cup {0} /\ <<m, FALSE>> \in Calls
      <4>1. m # 0 => m \in Node  BY <3>1, OuterUp
      <4> QED BY <4>1 DEF Calls
    <3>4. m # 0
      <4>1. m = 0 => OnTheWay[<<m, FALSE>>] = {}
        <5>1. <<m, FALSE>>[1] = m  OBVIOUS
        <5> QED BY <3>3, <5>1, WayOf DEF Passing
      <4> QED BY <3>2, <4>1
    <3>5. Enters(i, m)
      <4>1. <<m, FALSE>>[1] = m  OBVIOUS
      <4> QED BY <3>2, <3>3, <3>4, <4>1, WayEnters
    <3>6. i \in Instr /\ Under(i, n)  BY <1>9, <3>1, <3>4, <3>5, UnderBelow DEF Enters
    <3>7. EndsUnder(o, above)  BY <1>6, <2>3
    <3>8. Insert(o, n, above).at \in {above.at, n}  BY <2>1
    <3>9. EndsUnder(o, Insert(o, n, above))
      BY <3>2, <3>6, <3>7, <3>8 DEF EndsUnder
    <3> QED BY <1>1, <1>9, <2>3, <3>7, <3>9 DEF Migrated
  <2> QED BY <2>2, <2>3
<1>10. CASE n \notin Instr /\ n \in Simple
  <2>1. CASE Unifiable(n, o)
    <3>1. Lists(o, OnTheWay[<<LastInstr[n], FALSE>>])
      BY <1>4, <1>10, <2>1, BlockWay DEF Lists
    <3>2. EndsUnder(o, Via(within, n))  BY <1>8, <1>10, <3>1 DEF EndsUnder
    <3> QED BY <1>1, <1>10, <2>1, <3>2 DEF Migrated
  <2>2. CASE ~Unifiable(n, o)
    <3>1. EndsUnder(o, Via(above, n))  BY <1>6, <1>8, <1>10, <2>2 DEF EndsUnder
    <3>2. EndsUnder(o, [Stays(lastCanMove) EXCEPT !.stop = "forcedExit"])
      BY <1>7 DEF EndsUnder
    <3> QED BY <1>1, <1>10, <2>2, <3>1, <3>2 DEF Migrated
  <2> QED BY <2>1, <2>2
<1>11. CASE n \notin Instr /\ n \notin Simple
  <2>1. EndsUnder(o, Stays(lastCanMove))  BY <1>7 DEF EndsUnder
  <2>2. n \notin Cond => OnTheWay[<<n, FALSE>>] = OnTheWay[<<PrevTB(n, FALSE), FALSE>>]
    BY <1>1, <1>2, <1>11 DEF Passing
  <2>3. n \notin Cond => EndsUnder(o, above)  BY <2>2
  <2> QED BY <1>1, <1>6, <1>11, <2>1, <2>3 DEF Migrated
<1> QED BY <1>9, <1>10, <1>11

LEMMA MigrateUnder ==
    ASSUME NEW o, lastCanMove \in Instr \cup {0}, Home(o) \in Instr,
           Lists(o, OnTheWay[<<PrevTB(Home(o), FALSE), FALSE>>])
    PROVE  EndsUnder(o, Migrate(o))
<1>1. PICK f \in [Node \cup {0} -> Outcome] :
        /\ \A n \in Node \cup {0} :
             f[n] = Migrated(o, n, f[PrevTB(n, FALSE)], f[LastInstr[n]])
        /\ Migrate(o) = f[Home(o)]
  BY MigrateSteps
<1>2. PICK rank \in [Node \cup {0} -> Nat], bound \in Nat :
        /\ rank[0] = 0
        /\ \A n \in Node \cup {0} : rank[n] < bound
        /\ \A n \in Node : rank[n] # 0 /\ Below(rank, n)
  BY Ranks
<1> DEFINE D == Node \cup {0}
           Good(n) == Lists(o, OnTheWay[<<n, FALSE>>]) => EndsUnder(o, f[n])
           S == {n \in D : Good(n)}
<1>3. ASSUME NEW n \in D, \A m \in D : rank[m] < rank[n] => m \in S
      PROVE  n \in S
  <2>1. CASE n = 0
    <3>1. f[n] = Stays(lastCanMove)  BY <1>1, <2>1 DEF Migrated
    <3> QED BY <2>1, <3>1 DEF Stays, EndsUnder
  <2>2. CASE n # 0
    <3>1. Below(rank, n) /\ n \in Node  BY <1>2, <2>2
    <3>2. PrevTB(n, FALSE) \in D /\ PrevTB(n, FALSE) \in S  BY <1>3, <3>1 DEF Below
    <3>3. n \in Simple => LastInstr[n] \in D /\ LastInstr[n] \in S
      <4>1. \A i \in Instr : i \in D  BY DEF Node
      <4> QED BY <1>3, <3>1, <4>1 DEF Below
    <3>4. PICK a, w : a \in Outcome /\ a = f[PrevTB(n, FALSE)] /\ w = f[LastInstr[n]]
      BY <3>2
    <3>5. Lists(o, OnTheWay[<<PrevTB(n, FALSE), FALSE>>]) => EndsUnder(o, a)
      BY <3>2, <3>4
    <3>6. n \in Simple => w \in Outcome /\
            (Lists(o, OnTheWay[<<LastInstr[n], FALSE>>]) => EndsUnder(o, w))
      BY <3>3, <3>4
    <3>7. Lists(o, OnTheWay[<<n, FALSE>>]) => EndsUnder(o, Migrated(o, n, a, w))
      BY <3>1, <3>4, <3>5, <3>6, MigratedUnder
    <3>8. f[n] = Migrated(o, n, a, w)  BY <1>1, <3>4
    <3> QED BY <2>2, <3>7, <3>8
  <2> QED BY <2>1, <2>2
<1>4. D \subseteq S
  <2>1. rank \in [D -> Nat]  BY <1>2
  <2> HIDE DEF D, S
  <2> QED BY <1>3, <2>1, RankInduction
<1>5. Home(o) \in Node  BY DEF Node
<1>6. Lists(o, OnTheWay[<<Home(o), FALSE>>])  BY WayFromHome DEF Lists
<1> QED BY <1>1, <1>4, <1>5, <1>6

-----------------------------------------------------------------------------
(* The search *)

Searched == [at : SUBSET Instr, seen : SUBSET Instr]

LEMMA FoundTyped ==
    ASSUME NEW o, NEW cd, NEW lv, NEW n \in Node \cup {0}, NEW above, NEW within,
           n # 0 => above \in Searched,
           n \in Simple \cup Cond => within \in Searched
    PROVE  Found(o, n, cd, lv, above, within) \in Searched
<1>1. Nowhere \in Searched  BY DEF Nowhere, Searched
<1>2. ASSUME NEW f \in Searched, n \in Node PROVE Seen(f, n) \in Searched
  <2>1. Within[n] \subseteq Instr  BY <1>2, WithinNode
  <2> QED BY <2>1 DEF Seen, Searched
<1>3. ASSUME NEW f \in Searched, NEW g \in Searched PROVE Else(f, g) \in Searched
  BY DEF Else, Searched
<1>4. n \in Instr => [at |-> {n}, seen |-> {}] \in Searched  BY DEF Searched
<1>5. CASE n = 0  BY <1>1, <1>5 DEF Found
<1>6. CASE n # 0 /\ n \in Loop  BY <1>1, <1>6 DEF Found
<1>7. CASE n # 0 /\ n \notin Loop /\ n \in Instr
  <2>1. Else(above, [at |-> {n}, seen |-> {}]) \in Searched  BY <1>3, <1>4, <1>7
  <2>2. PICK f \in Searched : f = IF Depends(o, n, cd) THEN Nowhere
                                  ELSE Else(above, [at |-> {n}, seen |-> {}])
    BY <1>1, <2>1
  <2>3. Found(o, n, cd, lv, above, within) = Seen(f, n)  BY <1>7, <2>2 DEF Found
  <2> QED BY <1>2, <1>7, <2>3
<1>8. CASE n # 0 /\ n \notin Loop /\ n \notin Instr
  <2>1. n \in Simple \cup Cond  BY <1>8 DEF Node
  <2>2. Else(above, within) \in Searched  BY <1>3, <1>8, <2>1
  <2>3. PICK f \in Searched :
          f = IF DependsOn(o, n, cd) THEN within
              ELSE IF \/ HasLive(o, n, lv)
                      \/ n \in Simple /\ Cardinality(lv[n]) > MAXLIVE
              THEN Nowhere ELSE Else(above, within)
    BY <1>1, <2>1, <2>2
  <2>4. Found(o, n, cd, lv, above, within) = Seen(f, n)  BY <1>8, <2>3 DEF Found
  <2> QED BY <1>2, <1>8, <2>4
<1> QED BY <1>5, <1>6, <1>7, <1>8

\* A search finds places on its way only.
LEMMA FoundPassing ==
    ASSUME NEW o, NEW cd, NEW lv, NEW n \in Node \cup {0},
           NEW above, NEW within, NEW A, NEW W,
           n # 0 => above \in Searched /\ above.at \subseteq A,
           n \in Simple \cup Cond => within \in Searched /\ within.at \subseteq W
    PROVE  Found(o, n, cd, lv, above, within).at \subseteq Passing(n, A, W)
<1>1. Nowhere \in Searched /\ Nowhere.at = {}  BY DEF Nowhere, Searched
<1>2. \A f \in Searched : Seen(f, n).at = f.at  BY DEF Seen, Searched
<1>3. \A f, g : Else(f, g).at \subseteq f.at \cup g.at  BY DEF Else
<1>4. \A f, g \in Searched : Else(f, g) \in Searched  BY DEF Else, Searched
<1>5. CASE n = 0  BY <1>1, <1>5 DEF Found
<1>6. CASE n # 0 /\ n \in Loop
  <2>1. n \notin Instr /\ n \notin Simple \cup Cond  BY <1>6, TreeAssumption
  <2> QED BY <1>1, <1>6, <2>1 DEF Found, Passing
<1>7. CASE n # 0 /\ n \notin Loop /\ n \in Instr
  <2>1. PICK e \in Searched : e = [at |-> {n}, seen |-> {}] /\ e.at = {n}
    <3>1. [at |-> {n}, seen |-> {}] \in Searched  BY <1>7 DEF Searched
    <3> QED BY <3>1
  <2>2. PICK f \in Searched : /\ f = IF Depends(o, n, cd) THEN Nowhere ELSE Else(above, e)
                              /\ f.at \subseteq A \cup {n}
    <3>1. Else(above, e) \in Searched /\ Else(above, e).at \subseteq A \cup {n}
      BY <1>3, <1>4, <1>7, <2>1
    <3> QED BY <1>1, <3>1
  <2>3. Found(o, n, cd, lv, above, within) = Seen(f, n)  BY <1>7, <2>1, <2>2 DEF Found
  <2>4. A \cup {n} \subseteq Passing(n, A, W)  BY <1>7 DEF Passing
  <2> QED BY <1>2, <2>2, <2>3, <2>4
<1>8. CASE n # 0 /\ n \notin Loop /\ n \notin Instr
  <2>1. n \in Simple \cup Cond  BY <1>8 DEF Node
  <2>2. Else(above, within) \in Searched /\ Else(above, within).at \subseteq A \cup W
    BY <1>3, <1>4, <1>8, <2>1
  <2>3. PICK f \in Searched :
          /\ f = IF DependsOn(o, n, cd) THEN within
                 ELSE IF \/ HasLive(o, n, lv)
                         \/ n \in Simple /\ Cardinality(lv[n]) > MAXLIVE
                 THEN Nowhere ELSE Else(above, within)
          /\ f.at \subseteq A \cup W
    BY <1>1, <2>1, <2>2
  <2>4. Found(o, n, cd, lv, above, within) = Seen(f, n)  BY <1>8, <2>3 DEF Found
  <2>5. A \cup W \subseteq Passing(n, A, W)  BY <1>8, <2>1 DEF Passing
  <2> QED BY <1>2, <2>3, <2>4, <2>5
<1> QED BY <1>5, <1>6, <1>7, <1>8

\* What a search collects from the calls of one inside a block or an if.
Inside(f, n) == [at |-> UNION {f[<<m, TRUE>>].at : m \in LastOf(n)},
                 seen |-> UNION {f[<<m, TRUE>>].seen : m \in LastOf(n)}]

LEMMA FindSteps ==
    ASSUME NEW o, NEW cd, NEW lv
    PROVE  \E f \in [Calls -> Searched] :
             /\ \A c \in Calls : f[c] = Found(o, c[1], cd, lv, f[OnUp(c)], Inside(f, c[1]))
             /\ FindDestination(o, cd, lv) = f[<<PrevTB(HomeIn(cd, o), FALSE), FALSE>>]
<1>1. PICK rank \in [Calls -> Nat], bound \in Nat :
        /\ \A c \in Calls : rank[c] < bound
        /\ \A c \in Calls : c[1] # 0 =>
             \A d \in Goes(c) : d \in Calls /\ rank[d] < rank[c]
  BY CallRanks
<1> DEFINE W(c, f) == Found(o, c[1], cd, lv, f[OnUp(c)], Inside(f, c[1]))
           rule == [x \in Calls \X [Calls -> Searched] |-> W(x[1], x[2])]
<1>2. ASSUME NEW c \in Calls, NEW f, \A d \in Calls : rank[d] < rank[c] => f[d] \in Searched
      PROVE  W(c, f) \in Searched
  <2>1. c[1] \in Node \cup {0}  BY DEF Calls
  <2>2. c[1] # 0 => \A d \in Goes(c) : f[d] \in Searched  BY <1>1, <1>2
  <2>3. c[1] # 0 => f[OnUp(c)] \in Searched  BY <2>2 DEF Goes
  <2>4. c[1] \in Simple \cup Cond => Inside(f, c[1]) \in Searched
    <3> SUFFICES ASSUME c[1] \in Simple \cup Cond PROVE Inside(f, c[1]) \in Searched
      OBVIOUS
    <3>1. c[1] # 0  BY TreeAssumption DEF Node
    <3>2. \A m \in LastOf(c[1]) : f[<<m, TRUE>>] \in Searched  BY <2>2, <3>1 DEF Goes
    <3>3. \A m \in LastOf(c[1]) : /\ f[<<m, TRUE>>].at \subseteq Instr
                                  /\ f[<<m, TRUE>>].seen \subseteq Instr
      BY <3>2 DEF Searched
    <3> QED BY <3>3 DEF Inside, Searched
  <2> QED BY <2>1, <2>3, <2>4, FoundTyped
<1>3. ASSUME NEW c \in Calls, NEW f, NEW g,
             \A d \in Calls : rank[d] < rank[c] => f[d] = g[d]
      PROVE  W(c, f) = W(c, g)
  <2>1. CASE c[1] = 0  BY <2>1 DEF Found
  <2>2. CASE c[1] # 0
    <3>1. \A d \in Goes(c) : f[d] = g[d]  BY <1>1, <1>3, <2>2
    <3>2. f[OnUp(c)] = g[OnUp(c)]  BY <3>1 DEF Goes
    <3>3. c[1] \in Simple \cup Cond => Inside(f, c[1]) = Inside(g, c[1])
      BY <3>1 DEF Goes, Inside
    <3>4. CASE c[1] \in Simple \cup Cond  BY <3>2, <3>3, <3>4
    <3>5. CASE c[1] \notin Simple \cup Cond
      <4>1. c[1] \in Loop \/ c[1] \in Instr  BY <2>2, <3>5 DEF Calls, Node
      <4> QED BY <2>2, <3>2, <4>1 DEF Found
    <3> QED BY <3>4, <3>5
  <2> QED BY <2>1, <2>2
<1> HIDE DEF W
<1>4. /\ rule \in [Calls \X [Calls -> Searched] -> Searched]
      /\ \A c \in Calls, f \in [Calls -> Searched] : rule[<<c, f>>] = W(c, f)
  <2>1. \A c \in Calls, f \in [Calls -> Searched] : W(c, f) \in Searched
    <3> SUFFICES ASSUME NEW c \in Calls, NEW f \in [Calls -> Searched]
                 PROVE  W(c, f) \in Searched
      OBVIOUS
    <3>1. \A d \in Calls : f[d] \in Searched  OBVIOUS
    <3> QED BY <1>2, <3>1
  <2> QED BY <2>1
<1> HIDE DEF rule
<1>5. Solvable(Calls, Searched, rule)
  <2>1. Searched # {}
    <3>1. Nowhere \in Searched  BY DEF Nowhere, Searched
    <3> QED BY <3>1
  <2>2. Ranked(Calls, Searched, rule, rank)  BY <1>3, <1>4 DEF Ranked
  <2> QED BY <1>1, <1>4, <2>1, <2>2, Recursion
<1>6. PICK f \in [Calls -> Searched] : \A c \in Calls : f[c] = W(c, f)
  BY <1>4, <1>5 DEF Solvable
<1>7. f = [c \in Calls |-> W(c, f)]  BY <1>6
<1> DEFINE h == CHOOSE g : g = [c \in Calls |-> W(c, g)]
<1>8. h = [c \in Calls |-> W(c, h)]
  <2>1. \E g : g = [c \in Calls |-> W(c, g)]  BY <1>7
  <2> QED BY <2>1
<1>9. FindDestination(o, cd, lv) = h[<<PrevTB(HomeIn(cd, o), FALSE), FALSE>>]
  BY DEF FindDestination, W, Inside
<1> HIDE DEF h
<1>10. \A c \in Calls : h[c] \in Searched
  <2> DEFINE S == {c \in Calls : h[c] \in Searched}
  <2>1. ASSUME NEW c \in Calls, \A d \in Calls : rank[d] < rank[c] => d \in S
        PROVE  c \in S
    <3>1. W(c, h) \in Searched  BY <1>2, <2>1
    <3>2. h[c] = W(c, h)  BY <1>8
    <3> QED BY <3>1, <3>2
  <2> HIDE DEF S
  <2>2. Calls \subseteq S  BY <1>1, <2>1, RankInduction
  <2> QED BY <2>2 DEF S
<1>11. h \in [Calls -> Searched] /\ \A c \in Calls : h[c] = W(c, h)  BY <1>8, <1>10
<1> QED BY <1>9, <1>11 DEF W

LEMMA FindOnTheWay ==
    ASSUME NEW o, NEW cd, NEW lv, HomeIn(cd, o) \in Instr
    PROVE  /\ FindDestination(o, cd, lv).at \subseteq
                OnTheWay[<<PrevTB(HomeIn(cd, o), FALSE), FALSE>>]
           /\ FindDestination(o, cd, lv).at \subseteq Instr
<1>1. PICK f \in [Calls -> Searched] :
        /\ \A c \in Calls : f[c] = Found(o, c[1], cd, lv, f[OnUp(c)], Inside(f, c[1]))
        /\ FindDestination(o, cd, lv) = f[<<PrevTB(HomeIn(cd, o), FALSE), FALSE>>]
  BY FindSteps
<1>2. PICK rank \in [Calls -> Nat], bound \in Nat :
        /\ \A c \in Calls : rank[c] < bound
        /\ \A c \in Calls : c[1] # 0 =>
             \A d \in Goes(c) : d \in Calls /\ rank[d] < rank[c]
  BY CallRanks
<1> DEFINE S == {c \in Calls : f[c].at \subseteq OnTheWay[c]}
<1>3. ASSUME NEW c \in Calls, \A d \in Calls : rank[d] < rank[c] => d \in S
      PROVE  c \in S
  <2>1. c[1] \in Node \cup {0}  BY DEF Calls
  <2>2. c[1] # 0 => \A d \in Goes(c) : d \in Calls /\ d \in S  BY <1>2, <1>3
  <2>3. c[1] # 0 => f[OnUp(c)] \in Searched /\ f[OnUp(c)].at \subseteq OnTheWay[OnUp(c)]
    BY <2>2 DEF Goes
  <2>4. PICK W : W = UNION {OnTheWay[<<m, TRUE>>] : m \in LastOf(c[1])}  OBVIOUS
  <2>5. c[1] \in Simple \cup Cond => Inside(f, c[1]) \in Searched /\ Inside(f, c[1]).at \subseteq W
    <3> SUFFICES ASSUME c[1] \in Simple \cup Cond
                 PROVE  Inside(f, c[1]) \in Searched /\ Inside(f, c[1]).at \subseteq W
      OBVIOUS
    <3>1. c[1] # 0  BY TreeAssumption DEF Node
    <3>2. \A m \in LastOf(c[1]) : <<m, TRUE>> \in Calls /\ <<m, TRUE>> \in S
      BY <2>2, <3>1 DEF Goes
    <3>3. \A m \in LastOf(c[1]) : /\ f[<<m, TRUE>>].at \subseteq Instr
                                  /\ f[<<m, TRUE>>].seen \subseteq Instr
                                  /\ f[<<m, TRUE>>].at \subseteq OnTheWay[<<m, TRUE>>]
      BY <3>2 DEF Searched
    <3>4. Inside(f, c[1]) \in Searched  BY <3>3 DEF Inside, Searched
    <3>5. Inside(f, c[1]).at \subseteq W  BY <2>4, <3>3 DEF Inside
    <3> QED BY <3>4, <3>5
  <2>6. PICK x, y, A : x = f[OnUp(c)] /\ y = Inside(f, c[1]) /\ A = OnTheWay[OnUp(c)]
    OBVIOUS
  <2>7. Found(o, c[1], cd, lv, x, y).at \subseteq Passing(c[1], A, W)
    BY <2>1, <2>3, <2>5, <2>6, FoundPassing
  <2>8. OnTheWay[c] = Passing(c[1], A, W)  BY <2>4, <2>6, WayOf
  <2>9. f[c] = Found(o, c[1], cd, lv, x, y)  BY <1>1, <2>6
  <2> QED BY <2>7, <2>8, <2>9
<1>4. Calls \subseteq S
  <2> HIDE DEF S
  <2> QED BY <1>2, <1>3, RankInduction
<1>5. <<PrevTB(HomeIn(cd, o), FALSE), FALSE>> \in Calls
  <2>1. PICK h \in Instr : h = HomeIn(cd, o)  OBVIOUS
  <2>2. h \in Node /\ h # 0 /\ <<h, FALSE>> \in Calls
    BY TreeAssumption DEF Node, Calls
  <2>3. PrevTB(h, FALSE) \in Node \cup {0}
    <3>1. PrevTB(h, FALSE) # 0 => PrevTB(h, FALSE) \in Node  BY <2>2, OuterUp
    <3> QED BY <3>1
  <2> QED BY <2>1, <2>3 DEF Calls
<1>6. f[<<PrevTB(HomeIn(cd, o), FALSE), FALSE>>].at \subseteq Instr
  <2>1. f[<<PrevTB(HomeIn(cd, o), FALSE), FALSE>>] \in Searched  BY <1>5
  <2> QED BY <2>1 DEF Searched
<1> QED BY <1>1, <1>4, <1>5, <1>6

\* An if or a loop is not among those around it.
LEMMA NotAround ==
    \A n \in Nests : n \notin Outer(n)
<1> DEFINE Low(n) == \A c \in Above[n] : c \in Nat /\ c <= n
           Bad == {n \in Nests : ~Low(n)}
<1>1. /\ Nests \subseteq Nat \ {0} /\ Nests \subseteq Node \ Instr
      /\ \A n \in Nests : Up[n] \in Nests \cup {0} /\ Up[n] < n
  BY TreeAssumption DEF Nests, Node
<1>2. \A n \in Nests : Above[n] = {n} \cup (IF Up[n] = 0 THEN {} ELSE Above[Up[n]])
  BY <1>1, AncestorsOf DEF Above
<1>3. \A n \in Nests : Low(n)
  <2> SUFFICES ASSUME Bad # {} PROVE FALSE
    OBVIOUS
  <2>1. Bad \subseteq Nat  BY <1>1
  <2>2. PICK n \in Bad : \A m \in Bad : n <= m
    <3> HIDE DEF Bad
    <3> QED BY <2>1, Smallest
  <2>3. n \in Nests /\ n \in Nat /\ ~Low(n)  BY <1>1
  <2>4. PICK c \in Above[n] : ~(c \in Nat /\ c <= n)  BY <2>3
  <2>5. c # n  BY <2>3, <2>4
  <2>6. Up[n] # 0 /\ c \in Above[Up[n]] /\ Up[n] \in Nests  BY <1>1, <1>2, <2>3, <2>4, <2>5
  <2>7. PICK u \in Nat : u = Up[n] /\ u < n  BY <1>1, <2>3, <2>6
  <2>8. u \notin Bad
    <3>1. ~(n <= u)  BY <2>3, <2>7
    <3> HIDE DEF Bad
    <3> QED BY <2>2, <3>1
  <2>9. c \in Nat /\ c <= u  BY <2>6, <2>7, <2>8
  <2> QED BY <2>3, <2>4, <2>7, <2>9
<1> SUFFICES ASSUME NEW n \in Nests, n \in Outer(n) PROVE FALSE
  OBVIOUS
<1>4. Up[n] # 0 /\ n \in Above[Up[n]] /\ Up[n] \in Nests  BY <1>1 DEF Outer
<1>5. PICK u \in Nat : u = Up[n] /\ u < n  BY <1>1, <1>4
<1>6. n <= u /\ n \in Nat  BY <1>1, <1>3, <1>4, <1>5
<1> QED BY <1>5, <1>6

\* Between a node and the one that a search goes up to, there is nothing.
LEMMA NoGap ==
    ASSUME NEW n \in Node, NEW g \in BOOLEAN, PrevTB(n, g) # 0,
           NEW j \in Instr, LastIn(PrevTB(n, g)) < j, j <= LastIn(n)
    PROVE  j \in Within[n]
<1>1. PICK m \in Node : m = PrevTB(n, g)  BY OuterGo
<1>2. PICK x \in Nat, y \in Nat : x = LastIn(m) /\ y = LastIn(n)  BY <1>1, LastNumbers
<1>3. x \in Within[m] /\ y \in Within[n] /\ (\A k \in Within[m] : k <= x) /\ x < j /\ j <= y
      /\ j \in Nat
  BY <1>1, <1>2, LastWithin, LastNumbers
<1>4. j \notin Within[m] /\ j \in x..y  BY <1>3
<1>5. CASE Prev[n] = m
  <2>1. m # 0  BY <1>1
  <2>2. x..y \subseteq Within[m] \cup Within[n]  BY <1>3, <1>5, <2>1, OrderAssumption
  <2> QED BY <1>4, <2>2
<1>6. CASE Prev[n] # m
  <2>1. n \in Instr /\ Prev[n] = 0 /\ Prev[Up[n]] = m  BY <1>1, <1>6, PrevTBNode
  <2>2. Up[n] \in Simple /\ Up[n] \in Node /\ n \in Within[Up[n]] /\ Within[n] = {n} /\ y = n
    BY <1>2, <2>1, AboveInstr, WithinNode, OuterInstr DEF Node
  <2>3. m # 0  BY <1>1
  <2>4. x..y \subseteq Within[m] \cup Within[Up[n]]  BY <1>3, <2>1, <2>2, <2>3, OrderAssumption
  <2>5. j \in Within[Up[n]]  BY <1>4, <2>4
  <2>6. j < n => Prev[n] = n - 1 /\ n - 1 # 0
    <3>1. j < n => Prev[n] = n - 1  BY <2>2, <2>5, OrderAssumption
    <3>2. j # 0 /\ n \in Nat  BY <2>1, LastNumbers
    <3> QED BY <1>3, <3>1, <3>2
  <2>7. j = n  BY <1>3, <2>1, <2>2, <2>6, LastNumbers
  <2> QED BY <2>2, <2>7
<1> QED BY <1>5, <1>6

\* What the operation depends on from a place on to the end of a node lies in an
\* if that the place is in as well, and the node is not in.
Clear(o, cd, i, n) ==
    \A j \in Instr : i <= j /\ j <= LastIn(n) =>
        \/ ~Depends(o, j, cd)
        \/ \E c \in Cond : c \notin Outer(n) /\ i \in Within[c] /\ j \in Within[c]

\* A search for the operation from a node on finds nothing beyond what it depends on.
Finds(o, cd, at, n) == \A i \in at : i \in Instr /\ Clear(o, cd, i, n)

LEMMA ClearUp ==
    ASSUME NEW o, NEW cd, NEW n \in Node, NEW g \in BOOLEAN, PrevTB(n, g) # 0,
           ~DependsOn(o, n, cd), NEW at, Finds(o, cd, at, PrevTB(n, g))
    PROVE  Finds(o, cd, at, n)
<1> SUFFICES ASSUME NEW i \in at, NEW j \in Instr, i <= j, j <= LastIn(n), Depends(o, j, cd)
             PROVE  \E c \in Cond : c \notin Outer(n) /\ i \in Within[c] /\ j \in Within[c]
  BY DEF Finds, Clear
<1>1. PICK m \in Node : m = PrevTB(n, g) /\ Outer(m) = Outer(n)  BY OuterGo
<1>2. j \notin Within[n]  BY DEF DependsOn
<1>3. j <= LastIn(m)  BY <1>1, <1>2, NoGap, LastNumbers
<1> QED BY <1>1, <1>3 DEF Finds, Clear

LEMMA FoundClear ==
    ASSUME NEW o, NEW cd, NEW lv, NEW n \in Node, NEW g \in BOOLEAN,
           NEW above \in Searched, NEW within,
           PrevTB(n, g) = 0 => above.at = {},
           PrevTB(n, g) # 0 => Finds(o, cd, above.at, PrevTB(n, g)),
           n \in Simple \cup Cond => within \in Searched /\ Finds(o, cd, within.at, n)
    PROVE  Finds(o, cd, Found(o, n, cd, lv, above, within).at, n)
<1>1. Nowhere \in Searched /\ Nowhere.at = {}  BY DEF Nowhere, Searched
<1>2. \A f \in Searched : Seen(f, n).at = f.at  BY DEF Seen, Searched
<1>3. \A f, e \in Searched :
        Else(f, e) \in Searched /\ Else(f, e).at = IF f.at # {} THEN f.at ELSE e.at
  BY DEF Else, Searched
<1>4. n # 0  BY LastNumbers
<1>5. Finds(o, cd, {}, n)  BY DEF Finds
<1>6. ~DependsOn(o, n, cd) => Finds(o, cd, above.at, n)
  <2>1. CASE PrevTB(n, g) = 0  BY <1>5, <2>1
  <2>2. CASE PrevTB(n, g) # 0  BY <2>2, ClearUp
  <2> QED BY <2>1, <2>2
<1>7. CASE n \in Loop  BY <1>1, <1>4, <1>5, <1>6, <1>7 DEF Found
<1>8. CASE n \notin Loop /\ n \in Instr
  <2>1. PICK e \in Searched : e = [at |-> {n}, seen |-> {}] /\ e.at = {n}
    <3>1. [at |-> {n}, seen |-> {}] \in Searched  BY <1>8 DEF Searched
    <3> QED BY <3>1
  <2>2. Found(o, n, cd, lv, above, within) =
          Seen(IF Depends(o, n, cd) THEN Nowhere ELSE Else(above, e), n)
    BY <1>4, <1>8, <2>1 DEF Found
  <2>3. CASE Depends(o, n, cd)  BY <1>1, <1>2, <1>5, <2>2, <2>3
  <2>4. CASE ~Depends(o, n, cd)
    <3>1. Within[n] = {n}  BY <1>8, WithinNode
    <3>2. ~DependsOn(o, n, cd)  BY <2>4, <3>1 DEF DependsOn
    <3>3. Finds(o, cd, e.at, n)
      <4> SUFFICES ASSUME NEW j \in Instr, n <= j, j <= LastIn(n) PROVE ~Depends(o, j, cd)
        BY <1>8, <2>1 DEF Finds, Clear
      <4>1. j = n  BY <1>8, OuterInstr, LastNumbers
      <4> QED BY <2>4, <4>1
    <3>4. Found(o, n, cd, lv, above, within).at \in {above.at, e.at}
      BY <1>2, <1>3, <2>2, <2>4
    <3> QED BY <1>6, <3>2, <3>3, <3>4
  <2> QED BY <2>3, <2>4
<1>9. CASE n \notin Loop /\ n \notin Instr
  <2>1. n \in Simple \cup Cond  BY <1>9 DEF Node
  <2>2. PICK f \in Searched :
          /\ f = IF DependsOn(o, n, cd) THEN within
                 ELSE IF \/ HasLive(o, n, lv)
                         \/ n \in Simple /\ Cardinality(lv[n]) > MAXLIVE
                 THEN Nowhere ELSE Else(above, within)
          /\ \/ f.at = within.at \/ f.at = {}
             \/ ~DependsOn(o, n, cd) /\ f.at = above.at
    BY <1>1, <1>3, <2>1
  <2>3. Found(o, n, cd, lv, above, within) = Seen(f, n)  BY <1>4, <1>9, <2>2 DEF Found
  <2>4. Finds(o, cd, f.at, n)  BY <1>5, <1>6, <2>1, <2>2
  <2> QED BY <1>2, <2>3, <2>4
<1> QED BY <1>7, <1>8, <1>9

\* From the last node of an if or a block on is from the if or block on.
LEMMA InsideClear ==
    ASSUME NEW o, NEW cd, NEW n \in Simple \cup Cond, NEW m \in LastOf(n),
           NEW at, at \subseteq Within[n], Finds(o, cd, at, m)
    PROVE  Finds(o, cd, at, n)
<1>1. n \in Node  BY DEF Node
<1>2. CASE n \in Simple
  <2>1. Outer(m) = Outer(n) /\ LastIn(m) = LastIn(n)  BY <1>2, LastOfNode
  <2> QED BY <2>1 DEF Finds, Clear
<1>3. CASE n \in Cond
  <2> SUFFICES ASSUME NEW i \in at, NEW j \in Instr, i <= j, j <= LastIn(n)
               PROVE  \E c \in Cond : c \notin Outer(n) /\ i \in Within[c] /\ j \in Within[c]
    BY DEF Finds, Clear
  <2>1. i \in Within[n] /\ LastIn(n) \in Within[n] /\ n \notin Outer(n)
    BY <1>1, <1>3, LastWithin, NotAround DEF Nests
  <2>2. i..LastIn(n) \subseteq Within[n]  BY <1>1, <2>1, OrderAssumption
  <2>3. PICK y \in Nat : y = LastIn(n)  BY <1>1, LastNumbers
  <2>4. i \in Nat /\ j \in Nat  BY LastNumbers DEF Finds
  <2>5. j \in i..y  BY <2>3, <2>4
  <2> QED BY <1>3, <2>1, <2>2, <2>3, <2>5
<1> QED BY <1>2, <1>3

\* Where the search takes an operation, it depends on nothing from there on to its
\* own instruction, but for what is in an if that it goes into.
LEMMA FindClear ==
    ASSUME NEW o, NEW cd, NEW lv, NEW h \in Instr, h = HomeIn(cd, o),
           NEW i \in FindDestination(o, cd, lv).at
    PROVE  /\ i \in Instr /\ i < h /\ Outer(h) \subseteq Above[i]
           /\ \A j \in Instr : i <= j /\ j < h =>
                \/ ~Depends(o, j, cd)
                \/ \E c \in Cond : c \notin Outer(h) /\ i \in Within[c] /\ j \in Within[c]
<1>1. PICK f \in [Calls -> Searched] :
        /\ \A c \in Calls : f[c] = Found(o, c[1], cd, lv, f[OnUp(c)], Inside(f, c[1]))
        /\ FindDestination(o, cd, lv) = f[<<PrevTB(HomeIn(cd, o), FALSE), FALSE>>]
  BY FindSteps
<1>2. PICK rank \in [Calls -> Nat], bound \in Nat :
        /\ \A c \in Calls : rank[c] < bound
        /\ \A c \in Calls : c[1] # 0 =>
             \A d \in Goes(c) : d \in Calls /\ rank[d] < rank[c]
  BY CallRanks
<1> DEFINE S == {c \in Calls : /\ f[c].at \subseteq OnTheWay[c]
                               /\ c[1] = 0 => f[c].at = {}
                               /\ c[1] # 0 => Finds(o, cd, f[c].at, c[1])}
<1>3. ASSUME NEW c \in Calls, \A d \in Calls : rank[d] < rank[c] => d \in S
      PROVE  c \in S
  <2>1. PICK n \in Node \cup {0}, g \in BOOLEAN : n = c[1] /\ g = c[2] /\ c = <<n, g>>
    BY DEF Calls
  <2>2. n # 0 => \A d \in Goes(c) : d \in Calls /\ d \in S  BY <1>2, <1>3, <2>1
  <2>3. PICK u : u = PrevTB(n, g)  OBVIOUS
  <2>4. OnUp(c) = <<u, g>> /\ OnUp(c)[1] = u
    <3>1. OnUp(c) = <<u, g>>  BY <2>1, <2>3 DEF OnUp
    <3>2. <<u, g>>[1] = u  OBVIOUS
    <3> QED BY <3>1, <3>2
  <2>5. PICK x, y, A, W : /\ x = f[OnUp(c)] /\ y = Inside(f, n) /\ A = OnTheWay[OnUp(c)]
                          /\ W = UNION {OnTheWay[<<m, TRUE>>] : m \in LastOf(n)}
    OBVIOUS
  <2>6. n # 0 => /\ x \in Searched /\ x.at \subseteq A
                 /\ u = 0 => x.at = {}
                 /\ u # 0 => Finds(o, cd, x.at, u)
    <3>1. n # 0 => OnUp(c) \in Calls /\ OnUp(c) \in S  BY <2>2 DEF Goes
    <3> QED BY <2>4, <2>5, <3>1
  <2>7. n \in Simple \cup Cond => y \in Searched /\ y.at \subseteq W /\ Finds(o, cd, y.at, n)
    <3> SUFFICES ASSUME n \in Simple \cup Cond
                 PROVE  y \in Searched /\ y.at \subseteq W /\ Finds(o, cd, y.at, n)
      OBVIOUS
    <3>1. n # 0 /\ W \subseteq Within[n]  BY <2>5, InsideWithin, TreeAssumption DEF Node
    <3>2. \A m \in LastOf(n) : <<m, TRUE>> \in Calls /\ <<m, TRUE>> \in S
      BY <2>1, <2>2, <3>1 DEF Goes
    <3>3. \A m \in LastOf(n) : <<m, TRUE>>[1] = m /\ m # 0
      <4> TAKE m \in LastOf(n)
      <4>1. m \in Node  BY LastOfNode
      <4> QED BY <4>1, LastNumbers
    <3>4. \A m \in LastOf(n) : /\ f[<<m, TRUE>>].at \subseteq Instr
                               /\ f[<<m, TRUE>>].seen \subseteq Instr
                               /\ f[<<m, TRUE>>].at \subseteq OnTheWay[<<m, TRUE>>]
                               /\ Finds(o, cd, f[<<m, TRUE>>].at, m)
      BY <3>2, <3>3 DEF Searched
    <3>5. y \in Searched
      <4>1. \A m \in LastOf(n) : /\ f[<<m, TRUE>>].at \subseteq Instr
                                 /\ f[<<m, TRUE>>].seen \subseteq Instr
        BY <3>4
      <4>2. PICK a, b : /\ a = UNION {f[<<m, TRUE>>].at : m \in LastOf(n)}
                        /\ b = UNION {f[<<m, TRUE>>].seen : m \in LastOf(n)}
        OBVIOUS
      <4>3. a \subseteq Instr /\ b \subseteq Instr  BY <4>1, <4>2
      <4>4. y = [at |-> a, seen |-> b]  BY <2>5, <4>2 DEF Inside
      <4> QED BY <4>3, <4>4 DEF Searched
    <3>6. y.at \subseteq W  BY <2>5, <3>4 DEF Inside
    <3>7. ASSUME NEW m \in LastOf(n) PROVE Finds(o, cd, f[<<m, TRUE>>].at, n)
      <4>1. f[<<m, TRUE>>].at \subseteq Within[n]  BY <2>5, <3>1, <3>4
      <4> QED BY <3>4, <4>1, InsideClear
    <3>8. Finds(o, cd, y.at, n)
      <4> SUFFICES ASSUME NEW k \in y.at PROVE k \in Instr /\ Clear(o, cd, k, n)
        BY DEF Finds
      <4>1. PICK m \in LastOf(n) : k \in f[<<m, TRUE>>].at  BY <2>5 DEF Inside
      <4> QED BY <3>7, <4>1 DEF Finds
    <3> QED BY <3>5, <3>6, <3>8
  <2>8. f[c] = Found(o, n, cd, lv, x, y)  BY <1>1, <2>1, <2>5
  <2>9. f[c].at \subseteq OnTheWay[c]
    <3>1. Found(o, n, cd, lv, x, y).at \subseteq Passing(n, A, W)
      BY <2>6, <2>7, FoundPassing
    <3>2. OnTheWay[c] = Passing(n, A, W)  BY <2>1, <2>5, WayOf
    <3> QED BY <2>8, <3>1, <3>2
  <2>10. n = 0 => f[c].at = {}  BY <2>8 DEF Found, Nowhere
  <2>11. n # 0 => Finds(o, cd, f[c].at, n)
    <3> SUFFICES ASSUME n # 0 PROVE Finds(o, cd, f[c].at, n)
      OBVIOUS
    <3>1. Finds(o, cd, Found(o, n, cd, lv, x, y).at, n)
      BY <2>3, <2>6, <2>7, FoundClear
    <3> QED BY <2>8, <3>1
  <2> QED BY <2>1, <2>9, <2>10, <2>11
<1>4. Calls \subseteq S
  <2> HIDE DEF S
  <2> QED BY <1>2, <1>3, RankInduction
<1>5. h \in Node /\ h # 0 /\ LastIn(h) = h  BY LastNumbers, OuterInstr
<1>6. PICK m : m = PrevTB(h, FALSE)  OBVIOUS
<1>7. m # 0 => m \in Node /\ Outer(m) = Outer(h) /\ LastIn(m) < h  BY <1>5, <1>6, OuterUp
<1>8. <<m, FALSE>> \in Calls /\ <<m, FALSE>>[1] = m  BY <1>7 DEF Calls
<1>9. PICK c \in Calls : c = <<m, FALSE>> /\ c[1] = m /\ i \in f[c].at /\ c \in S
  BY <1>1, <1>4, <1>6, <1>8
<1>10. m # 0 /\ Finds(o, cd, f[c].at, m) /\ i \in OnTheWay[c]  BY <1>9
<1>11. Enters(i, m)  BY <1>9, <1>10, WayEnters
<1>12. i \in Instr /\ i < h /\ Outer(h) \subseteq Above[i]
  BY <1>7, <1>10, <1>11, LastNumbers DEF Enters
<1>13. ASSUME NEW j \in Instr, i <= j, j < h PROVE j <= LastIn(m)
  <2>1. j \notin Within[h]  BY <1>13, WithinNode, LastNumbers
  <2>2. ~(LastIn(m) < j)
    <3>1. PrevTB(h, FALSE) # 0 /\ j <= LastIn(h)
      <4>1. PrevTB(h, FALSE) # 0  BY <1>6, <1>10
      <4>2. j \in Nat /\ h \in Nat  BY LastNumbers
      <4>3. j <= h  BY <1>13, <4>2
      <4> QED BY <1>5, <4>1, <4>3
    <3>2. ~(LastIn(PrevTB(h, FALSE)) < j)  BY <1>5, <2>1, <3>1, NoGap
    <3> QED BY <1>6, <3>2
  <2> QED BY <1>7, <1>10, <2>2, LastNumbers
<1>14. Clear(o, cd, i, m)  BY <1>9, <1>10 DEF Finds
<1> QED BY <1>7, <1>10, <1>12, <1>13, <1>14 DEF Clear

-----------------------------------------------------------------------------
(* The branches of an if *)

\* What is above a node is nested.
LEMMA Nested ==
    \A n \in Node : \A x, y \in Above[n] :
        Above[x] \subseteq Above[n] /\ (x \in Above[y] \/ y \in Above[x])
<1> DEFINE Good(n) == \A x, y \in Above[n] :
                        Above[x] \subseteq Above[n] /\ (x \in Above[y] \/ y \in Above[x])
           Bad == {n \in Node \ Instr : ~Good(n)}
<1>1. \A n \in Node : Above[n] = {n} \cup (IF Up[n] = 0 THEN {} ELSE Above[Up[n]])
  BY AncestorsOf, TreeAssumption DEF Above
<1>2. ASSUME NEW n \in Node, Up[n] # 0 => Good(Up[n])
      PROVE  Good(n)
  <2> SUFFICES ASSUME NEW x \in Above[n], NEW y \in Above[n]
               PROVE  Above[x] \subseteq Above[n] /\ (x \in Above[y] \/ y \in Above[x])
    OBVIOUS
  <2>1. CASE x = n  BY <2>1
  <2>2. CASE x # n
    <3>1. Up[n] # 0 /\ x \in Above[Up[n]] /\ Above[Up[n]] \subseteq Above[n]  BY <1>1, <2>2
    <3>2. Above[x] \subseteq Above[n]  BY <1>2, <3>1
    <3>3. CASE y = n  BY <3>2, <3>3
    <3>4. CASE y # n
      <4>1. y \in Above[Up[n]]  BY <1>1, <3>4
      <4> QED BY <1>2, <3>1, <3>2, <4>1
    <3> QED BY <3>3, <3>4
  <2> QED BY <2>1, <2>2
<1>3. \A n \in Node \ Instr : Good(n)
  <2> SUFFICES ASSUME Bad # {} PROVE FALSE
    OBVIOUS
  <2>1. Bad \subseteq Nat  BY TreeAssumption
  <2>2. PICK n \in Bad : \A m \in Bad : n <= m
    <3> HIDE DEF Bad
    <3> QED BY <2>1, Smallest
  <2>3. n \in Node \ Instr /\ n \in Nat /\ ~Good(n)  BY <2>1
  <2>4. Up[n] # 0 => Up[n] \in Node \ Instr /\ Up[n] \in Nat /\ ~(n <= Up[n])
    BY <2>3, TreeAssumption DEF Node
  <2>5. Up[n] # 0 => Good(Up[n])  BY <2>2, <2>4
  <2> QED BY <1>2, <2>3, <2>5
<1>4. \A n \in Instr : Good(n)
  <2> SUFFICES ASSUME NEW n \in Instr PROVE Good(n)
    OBVIOUS
  <2>1. n \in Node /\ Up[n] \in Node \ Instr  BY TreeAssumption DEF Node
  <2> HIDE DEF Good
  <2> QED BY <1>2, <1>3, <2>1
<1> QED BY <1>3, <1>4

LEMMA WithinAbove ==
    ASSUME NEW n \in Node, NEW s \in Above[n]
    PROVE  s \in Node /\ Within[n] \subseteq Within[s]
<1>1. s \in Node  BY Closed
<1>2. \A i \in Instr : n \in Above[i] => s \in Above[i]
  <2> TAKE i \in Instr
  <2>1. i \in Node  BY DEF Node
  <2> QED BY <2>1, Nested
<1> QED BY <1>1, <1>2 DEF Within

LEMMA OuterWithin ==
    ASSUME NEW n \in Node, NEW c \in Outer(n)
    PROVE  c \in Nests /\ c \in Above[n] /\ Within[n] \subseteq Within[c]
<1>1. Up[n] # 0 /\ c \in Above[Up[n]] /\ c \in Nests  BY DEF Outer
<1>2. c \in Above[n]  BY <1>1, AncestorsOf, TreeAssumption DEF Above
<1> QED BY <1>1, <1>2, WithinAbove

\* A node that has an instruction in common with one directly in an if around it is
\* in that one.
LEMMA Overlap ==
    ASSUME NEW n \in Node, NEW s \in Node, Up[s] \in Outer(n),
           NEW k \in Within[n], k \in Within[s]
    PROVE  s \in Above[n]
<1>1. k \in Instr /\ k \in Node /\ n \in Above[k] /\ s \in Above[k]
  BY DEF Within, Node
<1>2. CASE s \in Above[n]  BY <1>2
<1>3. CASE n \in Above[s] /\ n # s
  <2>1. Up[s] # 0 /\ Up[s] \in Nests /\ Up[s] \in Node /\ Up[n] # 0 /\ Up[s] \in Above[Up[n]]
    BY LastNumbers DEF Outer, Nests, Node
  <2>2. n \in Above[Up[s]]  BY <1>3, <2>1, AncestorsOf DEF Above
  <2>3. n \in Nests  BY <2>1, <2>2, AboveNests
  <2>4. Up[n] \in Node  BY <2>1, TreeAssumption
  <2>5. n \in Above[Up[n]]  BY <2>1, <2>2, <2>4, Nested
  <2>6. n \in Outer(n)  BY <2>1, <2>3, <2>5 DEF Outer
  <2> QED BY <2>3, <2>6, NotAround
<1> QED BY <1>1, <1>2, <1>3, Nested

\* Where a branch begins, or past it in the if.
LEMMA StartOf ==
    ASSUME NEW s \in Starts
    PROVE  /\ s \in Node /\ Up[s] \in Cond /\ Up[s] \in Nests /\ Prev[s] = 0
           /\ s \notin Instr /\ Within[s] \subseteq Beyond(s) /\ Beyond(s) \subseteq Within[Up[s]]
           /\ \A i \in Beyond(s), j \in Within[Up[s]] : i <= j => j \in Beyond(s)
<1>1. s \in Node /\ Up[s] \in Cond /\ Prev[s] = 0  BY DEF Starts
<1>2. Up[s] # 0 /\ Up[s] \in Node /\ Up[s] \notin Simple
  BY <1>1, TreeAssumption DEF Node
<1>3. s \notin Instr  BY <1>2, TreeAssumption
<1>4. Within[s] \subseteq Within[Up[s]] /\ Within[s] \subseteq Instr
      /\ Within[Up[s]] \subseteq Instr
  BY <1>1, <1>2, WithinNode
<1>5. \A k \in Within[s] : k <= k  BY <1>4, LastNumbers
<1>6. Within[s] \subseteq Beyond(s)  BY <1>4, <1>5 DEF Beyond
<1>7. ASSUME NEW i \in Beyond(s), NEW j \in Within[Up[s]], i <= j PROVE j \in Beyond(s)
  <2>1. PICK k \in Within[s] : k <= i  BY <1>7 DEF Beyond
  <2>2. i \in Nat /\ j \in Nat /\ k \in Nat  BY <1>4, <1>7, LastNumbers DEF Beyond
  <2>3. k <= j  BY <1>7, <2>1, <2>2
  <2> QED BY <2>1, <2>3 DEF Beyond
<1> QED BY <1>1, <1>3, <1>6, <1>7 DEF Beyond, Nests

\* A search from below the beginning of a branch stays below it.
Keeps(i, n) ==
    \A s \in Starts : Up[s] \in Outer(n) /\ LastIn(n) \in Beyond(s) => i \in Beyond(s)

LEMMA BeyondUp ==
    ASSUME NEW n \in Node, NEW g \in BOOLEAN, PrevTB(n, g) # 0,
           NEW s \in Starts, Up[s] \in Outer(n), LastIn(n) \in Beyond(s)
    PROVE  LastIn(PrevTB(n, g)) \in Beyond(s)
<1>1. PICK m \in Node : m = PrevTB(n, g) /\ Outer(m) = Outer(n)  BY OuterGo
<1>2. /\ s \in Node /\ Up[s] \in Cond /\ Prev[s] = 0 /\ s \notin Instr
      /\ Within[s] \subseteq Beyond(s) /\ LastIn(m) \in Within[m] /\ LastIn(m) \in Instr
  BY <1>1, StartOf, LastWithin
<1>3. LastIn(m) \in Within[Up[s]]  BY <1>1, <1>2, OuterWithin
<1>4. PICK k \in Within[s] : k <= LastIn(n)  BY DEF Beyond
<1>5. k \in Instr /\ k \in Nat /\ LastIn(m) \in Nat  BY <1>2, WithinNode, LastNumbers
<1>6. CASE k <= LastIn(m)  BY <1>1, <1>3, <1>6 DEF Beyond
<1>7. CASE ~(k <= LastIn(m))
  <2>1. LastIn(m) < k  BY <1>5, <1>7
  <2>2. k \in Within[n]  BY <1>1, <1>4, <1>5, <2>1, NoGap
  <2>3. s \in Above[n]  BY <1>2, <2>2, Overlap
  <2>4. CASE s = n
    <3>1. m = 0  BY <1>1, <1>2, <2>4 DEF PrevTB
    <3> QED BY <1>1, <3>1
  <2>5. CASE s # n
    <3>1. Up[n] # 0 /\ s \in Above[Up[n]]  BY <2>3, <2>5, AncestorsOf, TreeAssumption DEF Above
    <3>2. CASE s \in Nests
      <4>1. s \in Outer(m)  BY <1>1, <3>1, <3>2 DEF Outer
      <4>2. LastIn(m) \in Within[s]  BY <1>2, <4>1, OuterWithin
      <4> QED BY <1>1, <1>2, <4>2
    <3>3. CASE s \notin Nests
      <4>1. n \in Instr
        <5>1. n \notin Instr => Up[n] \in Nests  BY <3>1, TreeAssumption DEF Nests
        <5> QED BY <3>1, <3>3, <5>1, AboveNests
      <4>2. s = Up[n]  BY <3>1, <3>3, <4>1, AboveInstr
      <4>3. (Prev[n] = m /\ Up[m] = Up[n]) \/ Prev[Up[n]] = m  BY <1>1, PrevTBNode
      <4>4. Up[m] = s /\ Up[m] # 0  BY <1>1, <1>2, <3>1, <4>2, <4>3
      <4>5. LastIn(m) \in Within[s]  BY <1>1, <1>2, <4>4, WithinNode
      <4> QED BY <1>1, <1>2, <4>5
    <3> QED BY <3>2, <3>3
  <2> QED BY <2>4, <2>5
<1> QED BY <1>6, <1>7

LEMMA BeyondLast ==
    ASSUME NEW n \in Simple \cup Cond, NEW m \in LastOf(n),
           NEW s \in Starts, Up[s] \in Outer(n), LastIn(n) \in Beyond(s)
    PROVE  LastIn(m) \in Beyond(s)
<1>1. n \in Node /\ m \in Node /\ Up[m] = n /\ n # 0 /\ LastIn(m) <= LastIn(n)
  BY LastOfNode, TreeAssumption DEF Node
<1>2. /\ s \in Node /\ Within[s] \subseteq Beyond(s)
      /\ LastIn(m) \in Within[m] /\ LastIn(m) \in Instr /\ LastIn(n) \in Within[n]
  BY <1>1, StartOf, LastWithin
<1>3. LastIn(m) \in Within[n]  BY <1>1, <1>2, WithinNode
<1>4. LastIn(m) \in Within[Up[s]]  BY <1>1, <1>3, OuterWithin
<1>5. PICK k \in Within[s] : k <= LastIn(n)  BY DEF Beyond
<1>6. PICK x \in Nat, y \in Nat : x = LastIn(m) /\ y = LastIn(n)  BY <1>1, LastNumbers
<1>7. k \in Nat  BY <1>2, WithinNode, LastNumbers
<1>8. CASE k <= x  BY <1>4, <1>6, <1>8 DEF Beyond
<1>9. CASE ~(k <= x)
  <2>1. k \in x..y  BY <1>5, <1>6, <1>7, <1>9
  <2>2. k \in Within[n]  BY <1>1, <1>2, <1>3, <1>6, <2>1, OrderAssumption
  <2>3. s \in Above[n]  BY <1>1, <1>2, <2>2, Overlap
  <2>4. LastIn(m) \in Within[s]  BY <1>1, <1>3, <2>3, WithinAbove
  <2> QED BY <1>2, <2>4
<1> QED BY <1>8, <1>9

LEMMA WayBeyond ==
    \A c \in Calls : c[1] # 0 => \A i \in OnTheWay[c] : Keeps(i, c[1])
<1>1. PICK rank \in [Calls -> Nat], bound \in Nat :
        /\ \A c \in Calls : rank[c] < bound
        /\ \A c \in Calls : c[1] # 0 =>
             \A d \in Goes(c) : d \in Calls /\ rank[d] < rank[c]
  BY CallRanks
<1> DEFINE Good(c) == c[1] # 0 => \A i \in OnTheWay[c] : Keeps(i, c[1])
           S == {c \in Calls : Good(c)}
<1>2. ASSUME NEW c \in Calls, \A d \in Calls : rank[d] < rank[c] => d \in S
      PROVE  c \in S
  <2> SUFFICES ASSUME c[1] # 0, NEW i \in OnTheWay[c]
               PROVE  Keeps(i, c[1])
    OBVIOUS
  <2>1. PICK n \in Node, g \in BOOLEAN : n = c[1] /\ g = c[2] /\ c = <<n, g>>
    <3>1. c[1] \in Node \cup {0} /\ c[2] \in BOOLEAN /\ c = <<c[1], c[2]>>  BY DEF Calls
    <3> QED BY <3>1
  <2>2. \A d \in Goes(c) : d \in Calls /\ Good(d)  BY <1>1, <1>2
  <2>3. OnTheWay[c] = Passing(n, OnTheWay[OnUp(c)], UNION {OnTheWay[<<m, TRUE>>] : m \in LastOf(n)})
    BY <2>1, WayOf
  <2>4. CASE n \in Instr /\ i = n
    <3>1. LastIn(n) = n  BY <2>4, OuterInstr
    <3> QED BY <2>1, <2>4, <3>1 DEF Keeps
  <2>5. CASE i \in OnTheWay[OnUp(c)]
    <3>1. PICK m : m = PrevTB(n, g)  OBVIOUS
    <3>2. OnUp(c) \in Goes(c) /\ OnUp(c) = <<m, g>> /\ OnUp(c)[1] = m
      BY <2>1, <3>1 DEF Goes, OnUp
    <3>3. m # 0
      <4> SUFFICES ASSUME m = 0 PROVE FALSE
        OBVIOUS
      <4>1. OnUp(c) \in Calls
        <5> HIDE DEF Good
        <5> QED BY <2>2, <3>2
      <4>2. OnTheWay[OnUp(c)] = {}  BY <3>2, <4>1, WayOf DEF Passing
      <4> QED BY <2>5, <4>2
    <3>4. Keeps(i, m)
      <4>1. Good(OnUp(c))
        <5> HIDE DEF Good
        <5> QED BY <2>2, <3>2
      <4> QED BY <2>5, <3>2, <3>3, <4>1
    <3>5. Outer(m) = Outer(n)  BY <3>1, <3>3, OuterGo
    <3>6. \A s \in Starts : Up[s] \in Outer(n) /\ LastIn(n) \in Beyond(s)
                              => LastIn(m) \in Beyond(s)
      BY <3>1, <3>3, BeyondUp
    <3> QED BY <2>1, <3>4, <3>5, <3>6 DEF Keeps
  <2>6. CASE n \in Simple \cup Cond /\ \E m \in LastOf(n) : i \in OnTheWay[<<m, TRUE>>]
    <3>1. PICK m \in LastOf(n) : i \in OnTheWay[<<m, TRUE>>]  BY <2>6
    <3>2. <<m, TRUE>> \in Goes(c) /\ <<m, TRUE>>[1] = m  BY <2>1, <2>6 DEF Goes
    <3>3. m \in Node /\ m # 0 /\ Outer(n) \subseteq Outer(m)
      BY <2>6, LastOfNode, LastNumbers
    <3>4. Keeps(i, m)
      <4>1. Good(<<m, TRUE>>)
        <5> HIDE DEF Good
        <5> QED BY <2>2, <3>2
      <4> QED BY <3>1, <3>2, <3>3, <4>1
    <3>5. \A s \in Starts : Up[s] \in Outer(n) /\ LastIn(n) \in Beyond(s)
                              => LastIn(m) \in Beyond(s)
      BY <2>6, BeyondLast
    <3> QED BY <2>1, <3>3, <3>4, <3>5 DEF Keeps
  <2>7. \/ n \in Instr /\ i = n
        \/ i \in OnTheWay[OnUp(c)]
        \/ n \in Simple \cup Cond /\ \E m \in LastOf(n) : i \in OnTheWay[<<m, TRUE>>]
    <3>1. PICK A, U : /\ A = OnTheWay[OnUp(c)]
                      /\ U = UNION {OnTheWay[<<m, TRUE>>] : m \in LastOf(n)}
      OBVIOUS
    <3>2. i \in Passing(n, A, U)  BY <2>3, <3>1
    <3>3. i \in U => \E m \in LastOf(n) : i \in OnTheWay[<<m, TRUE>>]  BY <3>1
    <3> QED BY <2>1, <3>1, <3>2, <3>3 DEF Passing
  <2> QED BY <2>4, <2>5, <2>6, <2>7
<1>3. Calls \subseteq S
  <2> HIDE DEF S
  <2> QED BY <1>1, <1>2, RankInduction
<1> QED BY <1>3

\* A search for the operation in an instruction stays in its branches.
LEMMA StaysBeyond ==
    ASSUME NEW h \in Instr, NEW i \in OnTheWay[<<PrevTB(h, FALSE), FALSE>>],
           NEW s \in Starts, h \in Beyond(s)
    PROVE  i \in Beyond(s)
<1>1. h \in Node /\ LastIn(h) = h /\ Outer(h) = Above[h] \cap Nests
  BY LastNumbers, OuterInstr
<1>2. i \in OnTheWay[<<h, FALSE>>]  BY WayFromHome
<1>3. <<h, FALSE>> \in Calls /\ <<h, FALSE>>[1] = h /\ h # 0  BY <1>1, LastNumbers DEF Calls
<1>4. PICK c \in Calls : c = <<h, FALSE>> /\ c[1] = h  BY <1>3
<1>5. Keeps(i, h)  BY <1>2, <1>3, <1>4, WayBeyond
<1>6. Up[s] \in Outer(h)
  <2>1. Up[s] \in Nests /\ h \in Within[Up[s]]  BY StartOf
  <2>2. Up[s] \in Node  BY <2>1 DEF Nests, Node
  <2> QED BY <1>1, <2>1, <2>2 DEF Within
<1> QED BY <1>1, <1>5, <1>6 DEF Keeps

-----------------------------------------------------------------------------
(* Lists *)

\* A relisting keeps every list within what may be listed there.
LEMMA RelistedOf ==
    ASSUME NEW L \in [Instr -> SUBSET Op], NEW u, \A i \in Instr : u[i] \in Seq(L[i]),
           NEW o, NEW found, \A i \in Instr : i \in found.at => o \in L[i]
    PROVE  \A i \in Instr : Relisted(u, o, found)[i] \in Seq(L[i])
<1> SUFFICES ASSUME NEW i \in Instr PROVE Relisted(u, o, found)[i] \in Seq(L[i])
  OBVIOUS
<1>1. PICK q, S : q = u[i] /\ S = L[i] /\ q \in Seq(S)  OBVIOUS
<1>2. Off(q, o) \in Seq(S)
  <2>1. Off(q, o) \in Seq(S \cap (Op \ {o}))  BY <1>1, KeptOf DEF Off
  <2> QED BY <2>1
<1>3. i \in found.at => Append(Off(q, o), o) \in Seq(S)
  <2>1. i \in found.at => o \in S  BY <1>1
  <2> QED BY <1>2, <2>1
<1> QED BY <1>1, <1>2, <1>3 DEF Relisted

\* Lists that hold only what may be listed, also after all relistings.
LEMMA ComputeOf ==
    ASSUME NEW L \in [Instr -> SUBSET Op], NEW un \in [Instr -> Seq(Op)],
           \A i \in Instr : un[i] \in Seq(L[i]),
           NEW P, NEW seq \in Seq(P), NEW cd, NEW lv,
           \A o \in P, i \in Instr : i \in FindDestination(o, cd, lv).at => o \in L[i]
    PROVE  /\ ComputeUnifiableOps(un, seq, cd, lv) \in [Instr -> Seq(Op)]
           /\ \A i \in Instr : ComputeUnifiableOps(un, seq, cd, lv)[i] \in Seq(L[i])
<1>1. PICK n \in Nat : n = Len(seq)  BY LenProperties
<1>2. \A k \in 1..n : seq[k] \in P  BY <1>1, ElementOfSeq
<1> DEFINE V == {u \in [Instr -> Seq(Op)] : \A i \in Instr : u[i] \in Seq(L[i])}
           Step(k, u) == Relisted(u, seq[k], FindDestination(seq[k], cd, lv))
           W(k, f) == IF k = 0 THEN un ELSE Step(k, f[k - 1])
           next == [x \in (1..n) \X V |-> Step(x[1], x[2])]
<1>3. ASSUME NEW k \in 1..n, NEW u \in V PROVE Step(k, u) \in V
  <2>1. PICK o \in P : o = seq[k]  BY <1>2
  <2>2. PICK found : found = FindDestination(o, cd, lv)  OBVIOUS
  <2>3. \A i \in Instr : i \in found.at => o \in L[i]  BY <2>2
  <2>4. \A i \in Instr : Relisted(u, o, found)[i] \in Seq(L[i])  BY <2>3, RelistedOf
  <2>5. \A i \in Instr : Seq(L[i]) \subseteq Seq(Op)
    <3> SUFFICES ASSUME NEW i \in Instr, NEW q \in Seq(L[i]) PROVE q \in Seq(Op)
      OBVIOUS
    <3>1. PICK S : S = L[i] /\ S \subseteq Op  OBVIOUS
    <3>2. Seq(S) \subseteq Seq(Op)  BY <3>1
    <3> QED BY <3>1, <3>2
  <2>6. Relisted(u, o, found) \in [Instr -> Seq(Op)]
    <3>1. \A i \in Instr : Relisted(u, o, found)[i] \in Seq(Op)  BY <2>4, <2>5
    <3>2. DOMAIN Relisted(u, o, found) = Instr
          /\ Relisted(u, o, found) = [i \in Instr |-> Relisted(u, o, found)[i]]
      BY DEF Relisted
    <3> QED BY <3>1, <3>2
  <2> QED BY <2>1, <2>2, <2>4, <2>6
<1>4. un \in V  OBVIOUS
<1>5. next \in [(1..n) \X V -> V] /\ \A k \in 1..n, u \in V : next[<<k, u>>] = Step(k, u)
  <2>1. \A k \in 1..n, u \in V : Step(k, u) \in V  BY <1>3
  <2> HIDE DEF Step
  <2> QED BY <2>1
<1> HIDE DEF V, next, Step
<1>6. PICK f \in [0..n -> V] :
        \A k \in 0..n : f[k] = IF k = 0 THEN un ELSE next[<<k, f[k - 1]>>]
  <2>1. Stepwise(V, n, un, next)  BY <1>4, <1>5, StepwiseExists
  <2> QED BY <2>1 DEF Stepwise
<1>7. \A k \in 0..n : k # 0 => k - 1 \in 0..n /\ k \in 1..n  OBVIOUS
<1>8. f = [k \in 0..n |-> W(k, f)]
  <2>1. ASSUME NEW k \in 0..n PROVE f[k] = W(k, f)
    <3>1. CASE k = 0  BY <1>6, <3>1
    <3>2. CASE k # 0
      <4>1. k - 1 \in 0..n /\ k \in 1..n /\ f[k - 1] \in V  BY <1>7, <3>2
      <4>2. f[k] = next[<<k, f[k - 1]>>]  BY <1>6, <3>2
      <4> QED BY <1>5, <3>2, <4>1, <4>2
    <3> QED BY <3>1, <3>2
  <2> HIDE DEF W
  <2> QED BY <2>1
<1> DEFINE h == CHOOSE g : g = [k \in 0..n |-> W(k, g)]
<1>9. h = [k \in 0..n |-> W(k, h)]
  <2>1. \E g : g = [k \in 0..n |-> W(k, g)]  BY <1>8
  <2> HIDE DEF W
  <2> QED BY <2>1
<1>10. ComputeUnifiableOps(un, seq, cd, lv) = h[n]
  BY <1>1 DEF ComputeUnifiableOps, Step
<1> HIDE DEF h
<1>11. h[0] = un /\ \A k \in 1..n : h[k] = Step(k, h[k - 1])
  <2>1. \A k \in 1..n : k \in 0..n /\ k # 0  OBVIOUS
  <2>2. 0 \in 0..n  OBVIOUS
  <2>3. \A k \in 0..n : h[k] = W(k, h)
    <3> HIDE DEF W
    <3> QED BY <1>9
  <2> QED BY <2>1, <2>2, <2>3
<1> DEFINE G == {k \in 0..n : h[k] \in V}
<1>12. 0 \in G  BY <1>4, <1>11
<1>13. \A k \in 1..n : k - 1 \in G => k \in G  BY <1>3, <1>11
<1>14. n \in G
  <2>1. n \in 0..n  OBVIOUS
  <2> HIDE DEF G
  <2>2. 0..n \subseteq G  BY <1>12, <1>13, Upwards
  <2> QED BY <2>1, <2>2
<1> QED BY <1>10, <1>14 DEF V

\* OpsOf lists operations that are in the instructions.
LEMMA OpsOfIn ==
    ASSUME NEW P, NEW cd, \A i \in Instr : cd[i] \in Seq(P \cup {0}),
           0 \notin Op, NEW instrs \in Seq(Instr)
    PROVE  OpsOf(cd, instrs) \in Seq(P)
<1>1. PICK n \in Nat : n = Len(instrs)  BY LenProperties
<1>2. \A k \in 1..n : instrs[k] \in Instr  BY <1>1, ElementOfSeq
<1> DEFINE V == Seq(P)
           Step(k, q) == q \o Kept(cd[instrs[k]], Op)
           W(k, f) == IF k = 0 THEN <<>> ELSE Step(k, f[k - 1])
           next == [x \in (1..n) \X V |-> Step(x[1], x[2])]
<1>3. ASSUME NEW k \in 1..n, NEW q \in V PROVE Step(k, q) \in V
  <2>1. PICK c : c = cd[instrs[k]] /\ c \in Seq(P \cup {0})  BY <1>2
  <2>2. Kept(c, Op) \in Seq((P \cup {0}) \cap Op)  BY <2>1, KeptOf
  <2>3. Kept(c, Op) \in Seq(P)
    <3>1. (P \cup {0}) \cap Op \subseteq P  OBVIOUS
    <3>2. PICK S : S = (P \cup {0}) \cap Op  OBVIOUS
    <3>3. Kept(c, Op) \in Seq(S) /\ S \subseteq P  BY <2>2, <3>1, <3>2
    <3> QED BY <3>3
  <2>4. q \o Kept(c, Op) \in Seq(P)  BY <2>3, ConcatProperties
  <2> QED BY <2>1, <2>4
<1>4. <<>> \in V  OBVIOUS
<1>5. next \in [(1..n) \X V -> V] /\ \A k \in 1..n, u \in V : next[<<k, u>>] = Step(k, u)
  <2>1. \A k \in 1..n, u \in V : Step(k, u) \in V  BY <1>3
  <2> HIDE DEF Step
  <2> QED BY <2>1
<1> HIDE DEF V, next, Step
<1>6. PICK f \in [0..n -> V] :
        \A k \in 0..n : f[k] = IF k = 0 THEN <<>> ELSE next[<<k, f[k - 1]>>]
  <2>1. Stepwise(V, n, <<>>, next)  BY <1>4, <1>5, StepwiseExists
  <2> QED BY <2>1 DEF Stepwise
<1>7. \A k \in 0..n : k # 0 => k - 1 \in 0..n /\ k \in 1..n  OBVIOUS
<1>8. f = [k \in 0..n |-> W(k, f)]
  <2>1. ASSUME NEW k \in 0..n PROVE f[k] = W(k, f)
    <3>1. CASE k = 0  BY <1>6, <3>1
    <3>2. CASE k # 0
      <4>1. k - 1 \in 0..n /\ k \in 1..n /\ f[k - 1] \in V  BY <1>7, <3>2
      <4>2. f[k] = next[<<k, f[k - 1]>>]  BY <1>6, <3>2
      <4> QED BY <1>5, <3>2, <4>1, <4>2
    <3> QED BY <3>1, <3>2
  <2> HIDE DEF W
  <2> QED BY <2>1
<1> DEFINE h == CHOOSE g : g = [k \in 0..n |-> W(k, g)]
<1>9. h = [k \in 0..n |-> W(k, h)]
  <2>1. \E g : g = [k \in 0..n |-> W(k, g)]  BY <1>8
  <2> HIDE DEF W
  <2> QED BY <2>1
<1>10. OpsOf(cd, instrs) = h[n]
  BY <1>1 DEF OpsOf, Step
<1> HIDE DEF h
<1>11. h[0] = <<>> /\ \A k \in 1..n : h[k] = Step(k, h[k - 1])
  <2>1. \A k \in 1..n : k \in 0..n /\ k # 0  OBVIOUS
  <2>2. 0 \in 0..n  OBVIOUS
  <2>3. \A k \in 0..n : h[k] = W(k, h)
    <3> HIDE DEF W
    <3> QED BY <1>9
  <2> QED BY <2>1, <2>2, <2>3
<1> DEFINE G == {k \in 0..n : h[k] \in V}
<1>12. 0 \in G  BY <1>4, <1>11
<1>13. \A k \in 1..n : k - 1 \in G => k \in G  BY <1>3, <1>11
<1>14. n \in G
  <2>1. n \in 0..n  OBVIOUS
  <2> HIDE DEF G
  <2>2. 0..n \subseteq G  BY <1>12, <1>13, Upwards
  <2> QED BY <2>1, <2>2
<1> QED BY <1>10, <1>14 DEF V

LEMMA AscendingOf ==
    ASSUME NEW S
    PROVE  /\ Ascending(S) \in Seq(Instr \cap S)
           /\ Descending(S) \in Seq(Instr \cap S)
<1>1. [k \in Instr |-> k] \in Seq(Instr)
  <2>1. [k \in Instr |-> k] \in [1..NumInstr -> Instr]  BY DEF Instr
  <2> QED BY <2>1, GroupSeq, TreeAssumption
<1>2. Ascending(S) \in Seq(Instr \cap S)  BY <1>1, KeptOf DEF Ascending
<1>3. Reverse(Ascending(S)) \in Seq(Instr \cap S)
  <2>1. PICK q, T : q = Ascending(S) /\ T = Instr \cap S /\ q \in Seq(T)  BY <1>2
  <2>2. PICK n \in Nat : n = Len(q)  BY <2>1, LenProperties
  <2>3. \A k \in 1..n : (n - k) + 1 \in 1..n /\ q[(n - k) + 1] \in T
    <3> TAKE k \in 1..n
    <3>1. (n - k) + 1 \in 1..n  OBVIOUS
    <3> QED BY <2>1, <2>2, <3>1, ElementOfSeq
  <2>4. Reverse(q) = [k \in 1..n |-> q[(n - k) + 1]]  BY <2>2 DEF Reverse
  <2>5. Reverse(q) \in [1..n -> T]  BY <2>3, <2>4
  <2>6. Reverse(q) \in Seq(T)  BY <2>5, GroupSeq
  <2> QED BY <2>1, <2>6
<1> QED BY <1>2, <1>3 DEF Descending

-----------------------------------------------------------------------------
(* The invariant *)

TypeInv ==
    /\ form \in [Instr -> OpForm]
    /\ code \in [Instr -> [Slot -> Present \cup {0}]]
    /\ unif \in [Instr -> Seq(Op)]
    /\ lastCanMove \in Instr \cup {0}
    /\ level \in Loop \cup {0} /\ cursor \in Instr \cup {0}

\* Every operation of the program is in one place, in a slot of its kind.
PlacedIn(cd) ==
    \A o \in Present : \E i \in Instr, s \in Slot :
        /\ s \in Range(form[o].slots)
        /\ \A j \in Instr, t \in Slot : cd[j][t] = o <=> j = i /\ t = s

\* The operations that may be listed in an instruction: those whose search
\* comes to it.
Listable(cd) ==
    [i \in Instr |-> {o \in Present :
        i \in OnTheWay[<<PrevTB(HomeIn(cd, o), FALSE), FALSE>>]}]

IInv ==
    /\ TypeInv
    /\ PlacedIn(code)
    /\ \A i \in Instr : unif[i] \in Seq(Listable(code)[i])
    /\ phase # "forcedExit"

LEMMA Numbers ==
    /\ 0 \notin Op /\ 0 \notin Instr /\ Op = Instr /\ Present \subseteq Op
    /\ Instr \subseteq Nat
  BY TreeAssumption DEF Op, Instr, Node, Present

LEMMA HomeOf ==
    ASSUME NEW cd, PlacedIn(cd), NEW o \in Present
    PROVE  /\ HomeIn(cd, o) \in Instr
           /\ \E s \in Slot : /\ s \in Range(form[o].slots)
                              /\ \A j \in Instr, t \in Slot :
                                   cd[j][t] = o <=> j = HomeIn(cd, o) /\ t = s
<1>1. PICK i \in Instr, s \in Slot :
        /\ s \in Range(form[o].slots)
        /\ \A j \in Instr, t \in Slot : cd[j][t] = o <=> j = i /\ t = s
  BY DEF PlacedIn
<1>2. o # 0  BY Numbers
<1>3. \A j \in Instr : o \in OpsIn(cd, j) <=> j = i  BY <1>1, <1>2 DEF OpsIn
<1>4. HomeIn(cd, o) = i
  <2>1. \E j \in Instr : o \in OpsIn(cd, j)  BY <1>3
  <2>2. HomeIn(cd, o) \in Instr /\ o \in OpsIn(cd, HomeIn(cd, o))  BY <2>1 DEF HomeIn
  <2> QED BY <1>3, <2>2
<1> QED BY <1>1, <1>4

LEMMA HomeIs ==
    ASSUME NEW cd, NEW o \in Present, NEW i \in Instr, NEW s \in Slot,
           \A j \in Instr, t \in Slot : cd[j][t] = o <=> j = i /\ t = s
    PROVE  HomeIn(cd, o) = i
<1>1. o # 0  BY Numbers
<1>2. \A j \in Instr : o \in OpsIn(cd, j) <=> j = i  BY <1>1 DEF OpsIn
<1>3. HomeIn(cd, o) \in Instr /\ o \in OpsIn(cd, HomeIn(cd, o))  BY <1>2 DEF HomeIn
<1> QED BY <1>2, <1>3

\* The slot a move takes is free and of the operation's kind.
LEMMA AvailSlotOf ==
    ASSUME TypeInv, NEW o \in Present, NEW i \in Instr, AvailSlots(o, i) # {}
    PROVE  /\ AvailSlot(o, i) \in Slot /\ AvailSlot(o, i) \in Range(form[o].slots)
           /\ code[i][AvailSlot(o, i)] = 0
<1>1. form[o].slots \in Seq(Slot)
  BY Numbers DEF TypeInv, OpForm
<1>2. PICK q : q = form[o].slots  OBVIOUS
<1>3. q \in Seq(Slot) /\ DOMAIN q = 1..Len(q) /\ Len(q) \in Nat
  BY <1>1, <1>2, LenProperties
<1>4. AvailSlots(o, i) = {k \in DOMAIN q : code[i][q[k]] = 0}  BY <1>2 DEF AvailSlots
<1>5. PICK T : T = AvailSlots(o, i)  OBVIOUS
<1>6. T \subseteq Nat /\ T # {}
  <2>1. 1..Len(q) \subseteq Nat
    <3>1. PICK n \in Nat : n = Len(q)  BY <1>3
    <3>2. 1..n \subseteq Nat  BY <3>1
    <3> QED BY <3>1, <3>2
  <2> QED BY <1>3, <1>4, <1>5, <2>1
<1>7. \E k \in T : \A j \in T : k <= j  BY <1>6, Smallest
<1>8. PICK k \in T : AvailSlot(o, i) = q[k]
  <2>1. AvailSlot(o, i) = q[CHOOSE k \in T : \A j \in T : k <= j]
    BY <1>2, <1>5 DEF AvailSlot
  <2> QED BY <1>7, <2>1
<1>9. k \in DOMAIN q /\ code[i][q[k]] = 0  BY <1>4, <1>5
<1>10. q[k] \in Slot /\ q[k] \in Range(q)
  BY <1>3, <1>9, ElementOfSeq DEF Range
<1> QED BY <1>2, <1>8, <1>9, <1>10

\* A move takes an operation from its one place to another.
LEMMA MovedPlaces ==
    ASSUME TypeInv, PlacedIn(code), NEW o \in Present, NEW i \in Instr, i # Home(o),
           AvailSlots(o, i) # {}
    PROVE  /\ Moved(o, i) \in [Instr -> [Slot -> Present \cup {0}]]
           /\ PlacedIn(Moved(o, i)) /\ HomeIn(Moved(o, i), o) = i
           /\ \A p \in Present \ {o} : HomeIn(Moved(o, i), p) = Home(p)
<1>1. PICK a \in Slot : /\ a = AvailSlot(o, i) /\ a \in Range(form[o].slots)
                        /\ code[i][a] = 0
  BY AvailSlotOf
<1>2. PICK h \in Instr, b \in Slot :
        /\ h = Home(o)
        /\ \A j \in Instr, t \in Slot : code[j][t] = o <=> j = h /\ t = b
  BY HomeOf DEF Home
<1>3. PICK m : m = Moved(o, i)  OBVIOUS
<1>4. code \in [Instr -> [Slot -> Present \cup {0}]] /\ h # i  BY <1>2 DEF TypeInv
<1>5. /\ m \in [Instr -> [Slot -> Present \cup {0}]]
      /\ \A j \in Instr, t \in Slot :
           m[j][t] = IF j = i /\ t = a THEN o
                     ELSE IF j = h /\ code[j][t] = o THEN 0 ELSE code[j][t]
  <2>1. PICK c : c = [code EXCEPT ![i][a] = o]  OBVIOUS
  <2>2. c \in [Instr -> [Slot -> Present \cup {0}]]
        /\ \A j \in Instr, t \in Slot : c[j][t] = IF j = i /\ t = a THEN o ELSE code[j][t]
    BY <1>4, <2>1
  <2>3. m = [c EXCEPT ![h] = [s \in Slot |-> IF @[s] = o THEN 0 ELSE @[s]]]
    BY <1>1, <1>2, <1>3, <2>1 DEF Moved, NotExtracted
  <2>4. m \in [Instr -> [Slot -> Present \cup {0}]]
        /\ \A j \in Instr, t \in Slot :
             m[j][t] = IF j = h THEN (IF c[h][t] = o THEN 0 ELSE c[h][t]) ELSE c[j][t]
    BY <2>2, <2>3
  <2> QED BY <1>4, <2>2, <2>4
<1>6. o # 0 /\ 0 \notin Present  BY Numbers
<1>7. \A j \in Instr, t \in Slot : m[j][t] = o <=> j = i /\ t = a
  BY <1>2, <1>4, <1>5, <1>6
<1>8. \A p \in Present \ {o}, j \in Instr, t \in Slot : m[j][t] = p <=> code[j][t] = p
  BY <1>1, <1>2, <1>5, <1>6
<1>9. HomeIn(m, o) = i  BY <1>7, HomeIs
<1>10. ASSUME NEW p \in Present \ {o}
       PROVE  /\ HomeIn(m, p) = Home(p)
              /\ \E k \in Instr, s \in Slot :
                   /\ s \in Range(form[p].slots)
                   /\ \A j \in Instr, t \in Slot : m[j][t] = p <=> j = k /\ t = s
  <2>1. PICK k \in Instr, s \in Slot :
          /\ k = Home(p) /\ s \in Range(form[p].slots)
          /\ \A j \in Instr, t \in Slot : code[j][t] = p <=> j = k /\ t = s
    BY HomeOf DEF Home
  <2>2. \A j \in Instr, t \in Slot : m[j][t] = p <=> j = k /\ t = s  BY <1>8, <2>1
  <2>3. HomeIn(m, p) = k  BY <2>2, HomeIs
  <2> QED BY <2>1, <2>2, <2>3
<1>11. PlacedIn(m)
  <2> SUFFICES ASSUME NEW p \in Present
               PROVE  \E k \in Instr, s \in Slot :
                        /\ s \in Range(form[p].slots)
                        /\ \A j \in Instr, t \in Slot : m[j][t] = p <=> j = k /\ t = s
    BY DEF PlacedIn
  <2>1. CASE p = o  BY <1>1, <1>7, <2>1
  <2>2. CASE p # o  BY <1>10, <2>2
  <2> QED BY <2>1, <2>2
<1> QED BY <1>3, <1>5, <1>9, <1>10, <1>11

-----------------------------------------------------------------------------
(* The steps *)

LEMMA InitInv == Init => IInv
<1> SUFFICES ASSUME Init PROVE IInv
  OBVIOUS
<1>1. PICK P \in SUBSET Instr : \E f \in [P -> Form] :
        form = [i \in Instr |-> IF i \in P THEN f[i] ELSE NoForm]
  <2>1. PICK f \in UNION {[Q -> Form] : Q \in {Q \in SUBSET Places : Cardinality(Q) <= MaxOps}} :
          form = [i \in Instr |-> IF i \in DOMAIN f THEN f[i] ELSE NoForm]
    BY DEF Init, Programs
  <2>2. PICK Q \in SUBSET Places : f \in [Q -> Form]  BY <2>1
  <2>3. Q \in SUBSET Instr /\ DOMAIN f = Q  BY <2>2 DEF Places
  <2> QED BY <2>1, <2>2, <2>3
<1>2. NoForm \in OpForm  BY DEF NoForm, OpForm
<1>3. form \in [Instr -> OpForm] /\ \A o \in Present : form[o].slots # <<>>
  <2>1. PICK f \in [P -> Form] : form = [i \in Instr |-> IF i \in P THEN f[i] ELSE NoForm]
    BY <1>1
  <2>2. \A i \in P : f[i] \in OpForm /\ f[i].slots # <<>>  BY CodeAssumption
  <2> QED BY <1>2, <2>1, <2>2 DEF Present, Op
<1>4. \A o \in Present : Head(form[o].slots) \in Slot
                         /\ Head(form[o].slots) \in Range(form[o].slots)
  <2> SUFFICES ASSUME NEW o \in Present
               PROVE  Head(form[o].slots) \in Slot
                      /\ Head(form[o].slots) \in Range(form[o].slots)
    OBVIOUS
  <2>1. form[o].slots \in Seq(Slot) /\ form[o].slots # <<>>
    BY <1>3, Numbers DEF OpForm
  <2>2. PICK q : q = form[o].slots  OBVIOUS
  <2>3. q \in Seq(Slot) /\ q # <<>>  BY <2>1, <2>2
  <2>4. Head(q) \in Slot /\ Head(q) = q[1] /\ 1 \in DOMAIN q
    <3>1. Len(q) \in Nat /\ DOMAIN q = 1..Len(q) /\ Len(q) # 0
      BY <2>3, LenProperties, EmptySeq
    <3>2. PICK n \in Nat : n = Len(q)  BY <3>1
    <3>3. 1 \in 1..n  BY <3>1, <3>2
    <3> QED BY <2>3, <3>1, <3>2, <3>3, HeadTailProperties
  <2> QED BY <2>2, <2>4 DEF Range
<1>5. \A i \in Instr, s \in Slot :
        code[i][s] = IF i \in Present /\ s = Head(form[i].slots) THEN i ELSE 0
  BY DEF Init, Present, Op
<1>6. code \in [Instr -> [Slot -> Present \cup {0}]]
  <2>1. code = [i \in Instr |-> [s \in Slot |->
                  IF form[i] # NoForm /\ s = Head(form[i].slots) THEN i ELSE 0]]
    BY DEF Init
  <2> QED BY <2>1 DEF Present, Op
<1>7. PlacedIn(code)
  <2> SUFFICES ASSUME NEW o \in Present
               PROVE  \E i \in Instr, s \in Slot :
                        /\ s \in Range(form[o].slots)
                        /\ \A j \in Instr, t \in Slot : code[j][t] = o <=> j = i /\ t = s
    BY DEF PlacedIn
  <2>1. PICK h \in Slot : h = Head(form[o].slots) /\ h \in Range(form[o].slots)  BY <1>4
  <2>2. o \in Instr /\ o # 0  BY Numbers
  <2>3. \A j \in Instr, t \in Slot : code[j][t] = o <=> j = o /\ t = h
    BY <1>5, <2>1, <2>2
  <2> QED BY <2>1, <2>2, <2>3
<1>8. \A i \in Instr : unif[i] = <<>>  BY DEF Init
<1>9. unif \in [Instr -> Seq(Op)]  BY DEF Init
<1>10. lastCanMove = 0 /\ level = 0 /\ cursor = 0 /\ phase = "compute"  BY DEF Init
<1> QED BY <1>3, <1>6, <1>7, <1>8, <1>9, <1>10 DEF IInv, TypeInv

\* The operations of some instructions are operations of the program.
LEMMA OpsPresent ==
    ASSUME NEW cd \in [Instr -> [Slot -> Present \cup {0}]], NEW S
    PROVE  OpsOf(cd, Ascending(S)) \in Seq(Present)
           /\ OpsOf(cd, Descending(S)) \in Seq(Present)
<1>1. \A i \in Instr : cd[i] \in Seq(Present \cup {0})
  <2> SUFFICES ASSUME NEW i \in Instr PROVE cd[i] \in Seq(Present \cup {0})
    OBVIOUS
  <2>1. cd[i] \in [1..NumSlots -> Present \cup {0}]  BY DEF Slot
  <2> QED BY <2>1, GroupSeq, TreeAssumption
<1>2. Ascending(S) \in Seq(Instr) /\ Descending(S) \in Seq(Instr)
  <2>1. PICK T : T = Instr \cap S  OBVIOUS
  <2>2. Ascending(S) \in Seq(T) /\ Descending(S) \in Seq(T) /\ T \subseteq Instr
    BY <2>1, AscendingOf
  <2> QED BY <2>2
<1> QED BY <1>1, <1>2, Numbers, OpsOfIn

\* What a move relists are operations of the program.
LEMMA DependentsPresent ==
    ASSUME NEW cd \in [Instr -> [Slot -> Present \cup {0}]], NEW o, NEW h \in Instr
    PROVE  Dependents(o, h, cd) \in Seq(Present)
<1>1. PICK T : T = {u \in Present : o \in ud[u] /\ u # o /\ HomeIn(cd, u) > h}  OBVIOUS
<1>2. PICK S : S = {j \in Within[Up[h]] : j > h}  OBVIOUS
<1>3. PICK a, U : a = Ascending(T) /\ U = Instr \cap T /\ a \in Seq(U) /\ U \subseteq Present
  <2>1. Ascending(T) \in Seq(Instr \cap T)  BY AscendingOf
  <2>2. Instr \cap T \subseteq Present  BY <1>1
  <2> QED BY <2>1, <2>2
<1>4. a \in Seq(Present)  BY <1>3
<1>5. OpsOf(cd, Descending(S)) \in Seq(Present)  BY OpsPresent
<1>6. a \o OpsOf(cd, Descending(S)) \in Seq(Present)  BY <1>4, <1>5, ConcatProperties
<1> QED BY <1>1, <1>2, <1>3, <1>6 DEF Dependents

\* The searches of operations in their places list only what may be listed.
LEMMA ComputeLists ==
    ASSUME NEW un \in [Instr -> Seq(Op)], NEW cd, NEW lv, PlacedIn(cd),
           \A i \in Instr : un[i] \in Seq(Listable(cd)[i]), NEW seq \in Seq(Present)
    PROVE  /\ ComputeUnifiableOps(un, seq, cd, lv) \in [Instr -> Seq(Op)]
           /\ \A i \in Instr :
                ComputeUnifiableOps(un, seq, cd, lv)[i] \in Seq(Listable(cd)[i])
<1>1. PICK L : L = Listable(cd)  OBVIOUS
<1>2. L \in [Instr -> SUBSET Op]  BY <1>1, Numbers DEF Listable
<1>3. \A o \in Present, i \in Instr : i \in FindDestination(o, cd, lv).at => o \in L[i]
  <2> SUFFICES ASSUME NEW o \in Present, NEW i \in Instr, i \in FindDestination(o, cd, lv).at
               PROVE  o \in L[i]
    OBVIOUS
  <2>1. HomeIn(cd, o) \in Instr  BY HomeOf
  <2>2. i \in OnTheWay[<<PrevTB(HomeIn(cd, o), FALSE), FALSE>>]  BY <2>1, FindOnTheWay
  <2> QED BY <1>1, <2>2 DEF Listable
<1>4. \A i \in Instr : un[i] \in Seq(L[i])  BY <1>1
<1> QED BY <1>1, <1>2, <1>3, <1>4, ComputeOf

LEMMA SameForm ==
    ASSUME form' = form
    PROVE  /\ Present' = Present
           /\ (\A i \in Instr : unif'[i] \in Seq(Listable(code')[i]))
                => (\A i \in Instr : unif[i] \in Seq(Listable(code)[i]))'
           /\ PlacedIn(code') => PlacedIn(code)'
<1>1. Present' = Present  BY DEF Present
<1>2. Listable(code)' = Listable(code')  BY <1>1 DEF Listable, HomeIn, OpsIn
<1> QED BY <1>1, <1>2 DEF PlacedIn

LEMMA ComputeStep ==
    IInv /\ Compute => IInv'
<1> SUFFICES ASSUME IInv, Compute PROVE IInv'
  OBVIOUS
<1>1. /\ unif' = ComputeUnifiableOps(unif, OpsOf(code, Ascending(InLevel[level])), code, live)
      /\ phase' = "schedule"
      /\ form' = form /\ code' = code /\ lastCanMove' = lastCanMove
      /\ level' = level /\ cursor' = cursor
  BY DEF Compute
<1>2. OpsOf(code, Ascending(InLevel[level])) \in Seq(Present)
  BY OpsPresent DEF IInv, TypeInv
<1>3. PICK seq \in Seq(Present) : seq = OpsOf(code, Ascending(InLevel[level]))  BY <1>2
<1>4. unif' \in [Instr -> Seq(Op)]
      /\ \A i \in Instr : unif'[i] \in Seq(Listable(code)[i])
  BY <1>1, <1>3, ComputeLists DEF IInv, TypeInv
<1> QED BY <1>1, <1>4, SameForm DEF IInv, TypeInv

\* What a step of the schedule does: it stops the pass, takes the operation off
\* the list, or moves it up to a free slot between the same ifs and loops.
LEMMA ScheduleOutcome ==
    ASSUME IInv, Schedule
    PROVE  /\ lastCanMove' \in Instr \cup {0} /\ cursor \in Instr
           /\ form' = form /\ ud' = ud /\ level' = level /\ cursor' = cursor
           /\ phase = "schedule" /\ unif[cursor] # <<>>
           /\ \E o \in Present :
                /\ o = Head(unif[cursor])
                /\ \/ /\ phase' \notin {"no", "forcedExit", "schedule"}
                      /\ code' = code /\ unif' = unif
                   \/ /\ phase' = phase /\ code' = code /\ unif' = Skipped(o)
                   \/ /\ phase' = phase
                      /\ \E i \in Instr :
                           /\ i < Home(o) /\ i # FirstInstr
                           /\ Above[i] \cap Nests = Above[Home(o)] \cap Nests
                           /\ \E k \in Instr : o \in Range(unif[k]) /\ Under(k, i)
                           /\ AvailSlots(o, i) # {} /\ code' = Moved(o, i)
                           /\ unif' = ComputeUnifiableOps([j \in Instr |-> Off(unif[j], o)],
                                        Dependents(o, Home(o), code'), code', live')
<1>1. cursor \in Instr /\ unif[cursor] # <<>> /\ phase = "schedule"
  BY DEF IInv, TypeInv, Schedule
<1>2. PICK q, T : /\ q = unif[cursor] /\ T = Listable(code)[cursor]
                  /\ q \in Seq(T) /\ q # <<>>
  BY <1>1 DEF IInv
<1>3. PICK o \in T : o = Head(q) /\ o \in Range(q)
  <2>1. Head(q) \in T /\ Head(q) = q[1]  BY <1>2, HeadTailProperties
  <2>2. 1 \in DOMAIN q
    <3>1. Len(q) \in Nat /\ DOMAIN q = 1..Len(q) /\ Len(q) # 0
      BY <1>2, LenProperties, EmptySeq
    <3>2. PICK n \in Nat : n = Len(q)  BY <3>1
    <3>3. 1 \in 1..n  BY <3>1, <3>2
    <3> QED BY <3>1, <3>2, <3>3
  <2> QED BY <2>1, <2>2 DEF Range
<1>4. o \in Present /\ cursor \in OnTheWay[<<PrevTB(Home(o), FALSE), FALSE>>]
  BY <1>1, <1>2, <1>3 DEF Listable, Home
<1>5. Home(o) \in Instr  BY <1>4, HomeOf DEF IInv, Home
<1>6. Lists(o, OnTheWay[<<PrevTB(Home(o), FALSE), FALSE>>])
  BY <1>2, <1>3, <1>4 DEF Lists
<1>7. lastCanMove \in Instr \cup {0}  BY DEF IInv, TypeInv
<1>8. PICK r : r = Migrate(o)  OBVIOUS
<1>9. r \in Outcome /\ Settles(o, Home(o), r) /\ r.stop # "forcedExit" /\ EndsUnder(o, r)
  BY <1>5, <1>6, <1>7, <1>8, MigrateSettles, MigrateGoesOn, MigrateUnder
<1>10. /\ lastCanMove' = r.last
       /\ IF r.stop # "no"
          THEN phase' = r.stop /\ code' = code /\ unif' = unif
          ELSE /\ phase' = phase
               /\ IF r.at = 0
                  THEN unif' = Skipped(o) /\ code' = code
                  ELSE /\ code' = Moved(o, r.at)
                       /\ unif' = ComputeUnifiableOps([j \in Instr |-> Off(unif[j], o)],
                                    Dependents(o, Home(o), code'), code', live')
       /\ form' = form /\ ud' = ud /\ level' = level /\ cursor' = cursor
  BY <1>2, <1>3, <1>8 DEF Schedule
<1>11. r.last \in Instr \cup {0} /\ r.stop \in {"no", "nullDereference", "forcedExit"}
  BY <1>9 DEF Outcome
<1>12. ASSUME r.stop = "no", r.at # 0
       PROVE  /\ r.at \in Instr /\ r.at < Home(o) /\ r.at # FirstInstr
              /\ Above[r.at] \cap Nests = Above[Home(o)] \cap Nests
              /\ AvailSlots(o, r.at) # {}
              /\ \E k \in Instr : o \in Range(unif[k]) /\ Under(k, r.at)
  <2>1. PICK i \in Instr, h \in Instr : i = r.at /\ h = Home(o)
    BY <1>5, <1>9, <1>12 DEF Settles
  <2>2. i # h /\ i # FirstInstr /\ AvailSlots(o, i) # {} /\ Outer(i) = Outer(h) /\ i <= LastIn(h)
    BY <1>9, <1>12, <2>1 DEF Settles
  <2>3. LastIn(h) = h /\ Outer(i) = Above[i] \cap Nests /\ Outer(h) = Above[h] \cap Nests
    BY OuterInstr
  <2>4. i \in Nat /\ h \in Nat  BY Numbers
  <2>5. i < h  BY <2>2, <2>3, <2>4
  <2>6. \E k \in Instr : o \in Range(unif[k]) /\ Under(k, r.at)
    BY <1>9, <1>12 DEF EndsUnder
  <2> QED BY <2>1, <2>2, <2>3, <2>5, <2>6
<1>13. CASE r.stop # "no"
  <2>1. phase' \notin {"no", "forcedExit", "schedule"} /\ code' = code /\ unif' = unif
    BY <1>9, <1>10, <1>11, <1>13
  <2> QED BY <1>1, <1>2, <1>3, <1>4, <1>10, <1>11, <2>1
<1>14. CASE r.stop = "no" /\ r.at = 0
  <2>1. phase' = phase /\ unif' = Skipped(o) /\ code' = code  BY <1>10, <1>14
  <2> QED BY <1>1, <1>2, <1>3, <1>4, <1>10, <1>11, <2>1
<1>15. CASE r.stop = "no" /\ r.at # 0
  <2>1. /\ phase' = phase /\ code' = Moved(o, r.at)
        /\ unif' = ComputeUnifiableOps([j \in Instr |-> Off(unif[j], o)],
                     Dependents(o, Home(o), code'), code', live')
    BY <1>10, <1>15
  <2> QED BY <1>1, <1>2, <1>3, <1>4, <1>10, <1>11, <1>12, <1>15, <2>1
<1> QED BY <1>13, <1>14, <1>15

\* Lists without an operation list only others, wherever that one goes.
LEMMA OffLists ==
    ASSUME NEW i \in Instr, NEW o, NEW q \in Seq(Listable(code)[i]), NEW cd,
           \A p \in Present \ {o} : HomeIn(cd, p) = Home(p)
    PROVE  Off(q, o) \in Seq(Listable(code)[i]) /\ Off(q, o) \in Seq(Listable(cd)[i])
<1>1. PICK S : S = Listable(code)[i]  OBVIOUS
<1>2. Off(q, o) \in Seq(S \cap (Op \ {o}))  BY <1>1, KeptOf DEF Off
<1>3. S \cap (Op \ {o}) \subseteq Listable(cd)[i]  BY <1>1 DEF Listable, Home
<1> QED BY <1>1, <1>2, <1>3

LEMMA ScheduleStep ==
    IInv /\ Schedule => IInv'
<1> SUFFICES ASSUME IInv, Schedule PROVE IInv'
  OBVIOUS
<1>1. /\ lastCanMove' \in Instr \cup {0} /\ cursor \in Instr
      /\ form' = form /\ level' = level /\ cursor' = cursor /\ phase = "schedule"
  BY ScheduleOutcome
<1>2. PICK o \in Present :
        \/ /\ phase' \notin {"no", "forcedExit", "schedule"}
           /\ code' = code /\ unif' = unif
        \/ /\ phase' = phase /\ code' = code /\ unif' = Skipped(o)
        \/ /\ phase' = phase
           /\ \E i \in Instr :
                /\ i < Home(o) /\ AvailSlots(o, i) # {} /\ code' = Moved(o, i)
                /\ unif' = ComputeUnifiableOps([j \in Instr |-> Off(unif[j], o)],
                             Dependents(o, Home(o), code'), code', live')
  BY ScheduleOutcome
<1>3. /\ form \in [Instr -> OpForm] /\ level \in Loop \cup {0}
      /\ code \in [Instr -> [Slot -> Present \cup {0}]]
      /\ unif \in [Instr -> Seq(Op)] /\ PlacedIn(code)
      /\ \A i \in Instr : unif[i] \in Seq(Listable(code)[i])
  BY DEF IInv, TypeInv
<1>4. SUFFICES ASSUME TRUE
               PROVE  /\ code' \in [Instr -> [Slot -> Present \cup {0}]] /\ PlacedIn(code')
                      /\ unif' \in [Instr -> Seq(Op)]
                      /\ \A i \in Instr : unif'[i] \in Seq(Listable(code')[i])
                      /\ phase' # "forcedExit"
  BY <1>1, <1>3, SameForm DEF IInv, TypeInv
<1>5. CASE phase' \notin {"no", "forcedExit", "schedule"} /\ code' = code /\ unif' = unif
  BY <1>3, <1>5
<1>6. CASE phase' = phase /\ code' = code /\ unif' = Skipped(o)
  <2>1. Off(unif[cursor], o) \in Seq(Listable(code)[cursor])
    BY <1>1, <1>3, OffLists DEF Home
  <2>2. Listable(code)[cursor] \subseteq Op  BY <1>1, Numbers DEF Listable
  <2>3. PICK q, S : /\ q = Off(unif[cursor], o) /\ S = Listable(code)[cursor]
                    /\ q \in Seq(S) /\ S \subseteq Op /\ unif' = [unif EXCEPT ![cursor] = q]
    BY <1>6, <2>1, <2>2 DEF Skipped
  <2>4. q \in Seq(Op)  BY <2>3
  <2>5. unif' \in [Instr -> Seq(Op)]
        /\ \A i \in Instr : unif'[i] = IF i = cursor THEN q ELSE unif[i]
    BY <1>1, <1>3, <2>3, <2>4
  <2>6. \A i \in Instr : unif'[i] \in Seq(Listable(code)[i])  BY <1>3, <2>3, <2>5
  <2> QED BY <1>1, <1>3, <1>6, <2>5, <2>6
<1>7. ASSUME NEW i \in Instr,
             phase' = phase, i < Home(o), AvailSlots(o, i) # {}, code' = Moved(o, i),
             unif' = ComputeUnifiableOps([j \in Instr |-> Off(unif[j], o)],
                       Dependents(o, Home(o), code'), code', live')
      PROVE  /\ code' \in [Instr -> [Slot -> Present \cup {0}]] /\ PlacedIn(code')
             /\ unif' \in [Instr -> Seq(Op)]
             /\ \A j \in Instr : unif'[j] \in Seq(Listable(code')[j])
  <2>1. PICK h \in Instr : h = Home(o)  BY <1>3, HomeOf DEF Home
  <2>2. i # h  BY <1>7, <2>1, Numbers
  <2>3. PICK cd : /\ cd = code' /\ cd \in [Instr -> [Slot -> Present \cup {0}]]
                  /\ PlacedIn(cd) /\ \A p \in Present \ {o} : HomeIn(cd, p) = Home(p)
    BY <1>3, <1>7, <2>1, <2>2, MovedPlaces DEF IInv
  <2>4. PICK un : un = [j \in Instr |-> Off(unif[j], o)]  OBVIOUS
  <2>5. un \in [Instr -> Seq(Op)] /\ \A j \in Instr : un[j] \in Seq(Listable(cd)[j])
    <3>1. \A j \in Instr : Off(unif[j], o) \in Seq(Listable(cd)[j])
      BY <1>3, <2>3, OffLists
    <3>2. \A j \in Instr : Off(unif[j], o) \in Seq(Op)
      <4> TAKE j \in Instr
      <4>1. PICK q, S : q = Off(unif[j], o) /\ S = Listable(cd)[j] /\ q \in Seq(S)
        BY <3>1
      <4>2. S \subseteq Op  BY <4>1, Numbers DEF Listable
      <4> QED BY <4>1, <4>2
    <3> QED BY <2>4, <3>1, <3>2
  <2>6. Dependents(o, h, cd) \in Seq(Present)  BY <2>3, DependentsPresent
  <2>7. PICK seq \in Seq(Present) : seq = Dependents(o, h, cd)  BY <2>6
  <2>8. PICK lv : lv = live'  OBVIOUS
  <2>9. unif' = ComputeUnifiableOps(un, seq, cd, lv)
    BY <1>7, <2>1, <2>3, <2>4, <2>7, <2>8
  <2>10. ComputeUnifiableOps(un, seq, cd, lv) \in [Instr -> Seq(Op)]
         /\ \A j \in Instr : ComputeUnifiableOps(un, seq, cd, lv)[j] \in Seq(Listable(cd)[j])
    BY <2>3, <2>5, ComputeLists
  <2> QED BY <2>3, <2>9, <2>10
<1> QED BY <1>1, <1>2, <1>5, <1>6, <1>7

LEMMA LevelStep ==
    IInv /\ (NextInstr \/ NextLevel) => IInv'
<1> SUFFICES ASSUME IInv, NextInstr \/ NextLevel PROVE IInv'
  OBVIOUS
<1>1. /\ form' = form /\ code' = code /\ unif' = unif /\ lastCanMove' = lastCanMove
      /\ phase = "schedule"
  BY DEF NextInstr, NextLevel
<1>2. level' \in Loop \cup {0} /\ cursor' \in Instr \cup {0} /\ phase' # "forcedExit"
  <2>1. CASE NextInstr
    <3>1. level \in Loop \cup {0}  BY DEF IInv, TypeInv
    <3>2. PICK l \in Loop \cup {0} : l = level  BY <3>1
    <3>3. InLevel[l] \subseteq Instr
      <4>1. InLevel[l] = {i \in IF l = 0 THEN Instr ELSE Within[l] :
                            \A m \in Above[i] \cap Loop : l # 0 /\ m \in Above[l]}
        BY DEF InLevel
      <4>2. l # 0 => Within[l] \subseteq Instr  BY DEF Within, Node
      <4> QED BY <4>1, <4>2
    <3> QED BY <1>1, <2>1, <3>1, <3>2, <3>3 DEF NextInstr
  <2>2. CASE NextLevel
    <3>1. PICK D : D = {l \in Loop : l > level}  OBVIOUS
    <3>2. CASE D = {}  BY <1>1, <2>2, <3>1, <3>2 DEF NextLevel, IInv, TypeInv
    <3>3. CASE D # {}
      <4>1. D \subseteq Nat  BY <3>1, TreeAssumption DEF Node
      <4>2. \E l \in D : \A m \in D : l <= m  BY <3>3, <4>1, Smallest
      <4>3. (CHOOSE l \in D : \A m \in D : l <= m) \in D  BY <4>2
      <4>4. /\ level' = (CHOOSE l \in D : \A m \in D : l <= m)
            /\ cursor' = 0 /\ phase' = "compute"
        BY <2>2, <3>1, <3>3 DEF NextLevel
      <4> QED BY <3>1, <4>3, <4>4
    <3> QED BY <3>2, <3>3
  <2> QED BY <2>1, <2>2
<1> QED BY <1>1, <1>2, SameForm DEF IInv, TypeInv

LEMMA Inductive ==
    IInv /\ [Next]_vars => IInv'
<1> SUFFICES ASSUME IInv, [Next]_vars PROVE IInv'
  OBVIOUS
<1>1. CASE Compute  BY <1>1, ComputeStep
<1>2. CASE Schedule  BY <1>2, ScheduleStep
<1>3. CASE NextInstr \/ NextLevel  BY <1>3, LevelStep
<1>4. CASE UNCHANGED vars
  BY <1>4, SameForm DEF vars, IInv, TypeInv
<1> QED BY <1>1, <1>2, <1>3, <1>4 DEF Next, Stopped

\* The invariant of the pass: operations are in their places, and an
\* instruction lists only operations whose search comes to it.
THEOREM Placed == Spec => []IInv
  BY InitInv, Inductive, PTL DEF Spec

-----------------------------------------------------------------------------
(* The order of the operations *)

\* The operations before an operation whose order with it matters, the branches
\* before it that read what it writes, and where they are.
Earlier(p)  == {q \in Present : q < p /\ ~Apart(q, p) /\ Conflict(q, p)}
Branches(p) == {i \in Instr : i < p /\ Dest(p) \cap BranchReads[i] # {}}
Floor(cd, p) == {HomeIn(cd, q) : q \in Earlier(p)} \cup Branches(p)

\* Everything of the program that must come before an operation is above it.
Ordered(cd) == \A p \in Present : \A j \in Floor(cd, p) : j < HomeIn(cd, p)

\* An operation that is taken to a place stays below the instruction: it is above
\* the place, or in an if with it that the operation does not end up in.
Reaches(i, j, p) == j < i \/ \E c \in Cond : i \in Within[c] /\ j \in Within[c] /\ p \notin Within[c]

\* The operations that may be listed in an instruction.
Safe(cd) == [i \in Instr |-> {p \in Present : \A j \in Floor(cd, p) : Reaches(i, j, p)}]

\* Instructions in the same ifs, branches and loops.
Alike(i, j) ==
    /\ Above[i] \cap Nests = Above[j] \cap Nests
    /\ \A s \in Starts : i \in Beyond(s) <=> j \in Beyond(s)

\* Every operation is in the ifs, branches and loops it started in.
InPlace(cd) == \A o \in Present : Alike(HomeIn(cd, o), o)

OrderInv ==
    /\ ud = Chains(form)
    /\ InPlace(code) /\ Ordered(code)
    /\ \A i \in Instr : unif[i] \in Seq(Safe(code)[i])

\* A conflicting operation before another is in its instruction one that it
\* depends on, or both conflict with one in between that the other reads.
Feeds(q, p) == /\ q \in Earlier(p) /\ q \in Chains(form)[p]

LEMMA LastWriter ==
    ASSUME NEW q \in Present, NEW p \in Present, q < p, ~Apart(q, p),
           NEW r \in Dest(q) \cap Src(p), Above[p] \cap Nests \subseteq Above[q],
           \A s \in Starts : q \in Within[Up[s]] /\ p \in Beyond(s) => q \in Beyond(s)
    PROVE  \/ Feeds(q, p)
           \/ \E t \in Present : q \in Earlier(t) /\ Feeds(t, p)
<1>1. q \in Instr /\ p \in Instr /\ Ways \subseteq Seq(Instr) /\ Instr \subseteq Nat
  BY Numbers, WaysAssumption
<1>2. PICK w \in Ways : \E b \in DOMAIN w : \E a \in 1..(b - 1) :
        /\ w[a] = q /\ w[b] = p
        /\ \A k \in (a + 1)..(b - 1) : q < w[k] /\ w[k] < p
  <2>1. \E w \in Ways : q \in Range(w) /\ p \in Range(w)  BY DEF Apart
  <2> QED BY <1>1, <2>1, WaysAssumption DEF Nests
<1>2b. PICK b \in DOMAIN w : \E a \in 1..(b - 1) :
        /\ w[a] = q /\ w[b] = p
        /\ \A k \in (a + 1)..(b - 1) : q < w[k] /\ w[k] < p
  BY <1>2
<1>3. PICK a \in 1..(b - 1) :
        /\ w[a] = q /\ w[b] = p
        /\ \A k \in (a + 1)..(b - 1) : q < w[k] /\ w[k] < p
  BY <1>2b
<1>4. PICK n \in Nat : n = Len(w) /\ DOMAIN w = 1..n  BY <1>1, LenProperties
<1>5. b \in 1..n /\ a \in 1..n /\ \A k \in a..b : k \in 1..n /\ w[k] \in Instr /\ w[k] \in Range(w)
  <2>1. b \in 1..n  BY <1>4
  <2>2. a \in 1..n /\ \A k \in a..b : k \in 1..n  BY <2>1
  <2>3. \A k \in 1..n : w[k] \in Instr  BY <1>1, <1>4, ElementOfSeq
  <2>4. \A k \in 1..n : w[k] \in Range(w)  BY <1>4 DEF Range
  <2> QED BY <2>1, <2>2, <2>3, <2>4
<1> DEFINE Writers == {k \in a..(b - 1) : r \in form[w[k]].dest}
<1>6. PICK k \in Writers : \A l \in Writers : l <= k
  <2>1. a \in Writers  BY <1>3 DEF Dest
  <2>2. Writers \in SUBSET (a..(b - 1)) /\ Writers \subseteq Nat
    <3>1. a..(b - 1) \subseteq Nat  OBVIOUS
    <3> QED BY <3>1
  <2>3. IsFiniteSet(a..(b - 1))
    <3>1. a \in Int /\ b - 1 \in Int  BY <1>5
    <3> QED BY <3>1, FS_Interval
  <2> HIDE DEF Writers
  <2>4. IsFiniteSet(Writers)  BY <2>2, <2>3, FS_Subset
  <2> QED BY <2>1, <2>2, <2>4, GreatestOfFinite
<1>7. k \in a..(b - 1) /\ k \in 1..n /\ r \in form[w[k]].dest /\ w[k] \in Instr /\ w[k] \in Range(w)
  BY <1>5, <1>6
<1>8. PICK t \in Instr : t = w[k] /\ t \in Range(w) /\ r \in Dest(t)
  BY <1>7 DEF Dest
<1>9. t \in Present  BY <1>8 DEF Present, Dest, NoForm, Op
<1>10. t \in Chains(form)[p]
  <2>1. Untouched(form, w, k, b, r)
    <3> SUFFICES ASSUME NEW l \in (k + 1)..(b - 1), r \in form[w[l]].dest PROVE FALSE
      BY DEF Untouched
    <3>1. l \in a..(b - 1) /\ ~(l <= k)  BY <1>7
    <3> QED BY <1>6, <3>1
  <2>2. k \in 1..(b - 1)  BY <1>7
  <2>3. r \in form[t].dest \cap form[p].srcs  BY <1>8 DEF Dest, Src
  <2>4. t \in Op /\ p \in Op  BY <1>1 DEF Op
  <2>5. \E r1 \in form[t].dest \cap form[p].srcs :
          \E w1 \in Ways : \E j \in DOMAIN w1 : \E i \in 1..(j - 1) :
            w1[i] = t /\ w1[j] = p /\ Untouched(form, w1, i, j, r1)
    BY <1>3, <1>8, <2>1, <2>2, <2>3
  <2> QED BY <2>4, <2>5 DEF Chains
<1>11. p \in Range(w) /\ q \in Range(w)
  <2>1. a \in a..b /\ b \in a..b  BY <1>5
  <2> QED BY <1>3, <1>5, <2>1
<1>12. t < p => Feeds(t, p)
  <2>1. ~Apart(t, p)  BY <1>8, <1>11 DEF Apart
  <2>2. Conflict(t, p)  BY <1>8 DEF Conflict
  <2> QED BY <1>9, <1>10, <2>1, <2>2 DEF Feeds, Earlier
<1>13. CASE k = a  BY <1>3, <1>8, <1>12, <1>13
<1>14. CASE k # a
  <2>1. k \in (a + 1)..(b - 1)  BY <1>7, <1>14
  <2>2. q < t /\ t < p  BY <1>3, <1>8, <2>1
  <2>3. ~Apart(q, t)  BY <1>8, <1>11 DEF Apart
  <2>4. Conflict(q, t)  BY <1>8 DEF Conflict
  <2>5. q \in Earlier(t)  BY <2>2, <2>3, <2>4 DEF Earlier
  <2> QED BY <1>9, <1>12, <2>2, <2>5
<1> QED BY <1>13, <1>14

\* What must be above an operation is below where the search takes it only in an
\* if that the operation does not end up in.
LEMMA ListedSafe ==
    ASSUME NEW cd, PlacedIn(cd), InPlace(cd), Ordered(cd), ud = Chains(form),
           NEW lv, NEW p \in Present, NEW i \in FindDestination(p, cd, lv).at
    PROVE  i \in Instr /\ p \in Safe(cd)[i]
<1>1. PICK h \in Instr : h = HomeIn(cd, p)  BY HomeOf
<1>2. /\ i \in Instr /\ i < h /\ Outer(h) \subseteq Above[i]
      /\ \A j \in Instr : i <= j /\ j < h =>
           \/ ~Depends(p, j, cd)
           \/ \E c \in Cond : c \notin Outer(h) /\ i \in Within[c] /\ j \in Within[c]
  BY <1>1, FindClear
<1>3. Outer(h) = Above[h] \cap Nests /\ Outer(h) = Above[p] \cap Nests
  BY <1>1, OuterInstr DEF InPlace, Alike
<1>4. p \in Instr  BY Numbers
<1>5. /\ \A c \in Cond \cup Loop : c \in Nests /\ c \in Node
      /\ \A c \in Node : \A k \in Instr : k \in Within[c] <=> c \in Above[k]
  BY DEF Nests, Node, Within
<1>6. ASSUME NEW j \in Instr, i <= j, j < h, Depends(p, j, cd) PROVE Reaches(i, j, p)
  <2>1. PICK c \in Cond : c \notin Outer(h) /\ i \in Within[c] /\ j \in Within[c]
    BY <1>2, <1>6
  <2>2. p \notin Within[c]  BY <1>3, <1>4, <1>5, <2>1
  <2> QED BY <2>1, <2>2 DEF Reaches
<1>7. ASSUME NEW q \in Present, q # p PROVE q \in OpsIn(cd, HomeIn(cd, q)) \ {p}
  <2>1. PICK k \in Instr, s \in Slot : k = HomeIn(cd, q) /\ cd[k][s] = q
    BY HomeOf
  <2> QED BY <1>7, <2>1, Numbers DEF OpsIn
<1>8. ASSUME NEW q \in Present, q < p, q \in Chains(form)[p],
             i <= HomeIn(cd, q), HomeIn(cd, q) < h
      PROVE  Depends(p, HomeIn(cd, q), cd)
  <2>1. q # p  BY <1>8, Numbers
  <2>2. q \in ud[p] \cap (OpsIn(cd, HomeIn(cd, q)) \ {p})  BY <1>7, <1>8, <2>1
  <2> QED BY <2>2 DEF Depends
<1>9. ASSUME NEW j \in Branches(p) PROVE Reaches(i, j, p)
  <2>1. j \in Instr /\ Dest(p) \cap BranchReads[j] # {} /\ j < h
    BY <1>1, <1>9 DEF Branches, Floor, Ordered
  <2>2. BranchReads[j] \subseteq CCReg  BY <2>1, CodeAssumption
  <2>3. CCOrder(p, j, OpsIn(cd, j) \ {p})  BY <2>1, <2>2 DEF CCOrder
  <2>4. Depends(p, j, cd)  BY <2>3 DEF Depends
  <2>5. CASE j < i  BY <2>5 DEF Reaches
  <2>6. CASE ~(j < i)
    <3>1. i <= j  BY <1>2, <2>1, <2>6, Numbers
    <3> QED BY <1>6, <2>1, <2>4, <3>1
  <2> QED BY <2>5, <2>6
<1>10. ASSUME NEW q \in Earlier(p) PROVE Reaches(i, HomeIn(cd, q), p)
  <2>1. q \in Present /\ q < p /\ ~Apart(q, p) /\ Conflict(q, p)  BY <1>10 DEF Earlier
  <2>2. PICK j \in Instr : j = HomeIn(cd, q) /\ j < h
    BY <1>1, <1>10, <2>1, HomeOf DEF Floor, Ordered
  <2>3. CASE j < i  BY <2>2, <2>3 DEF Reaches
  <2>4. CASE ~(j < i)
    <3>1. i <= j /\ i \in Nat /\ j \in Nat /\ h \in Nat  BY <1>2, <2>4, Numbers
    <3>2. PICK ops : ops = OpsIn(cd, j) \ {p} /\ q \in ops
      <4>1. q # p  BY <2>1, Numbers
      <4> QED BY <1>7, <2>1, <2>2, <4>1
    <3>3. CASE Dest(q) \cap (Dest(p) \cup Src(p)) = {} \/ Dest(q) \cap Src(p) = {}
      <4>1. \/ Dest(p) \cap Dest(q) # {} \/ Dest(p) \cap Src(q) # {} \/ MemoryOrder(q, {p})
        BY <2>1, <3>3 DEF Conflict
      <4>2. Dest(q) \subseteq Dests(ops) /\ Src(q) \subseteq Srcs(ops)
        BY <3>2 DEF Dest, Src, Dests, Srcs
      <4>3. MemoryOrder(q, {p}) => MemoryOrder(p, ops)  BY <3>2 DEF MemoryOrder
      <4>4. Depends(p, j, cd)  BY <3>2, <4>1, <4>2, <4>3 DEF Depends
      <4> QED BY <1>6, <2>2, <3>1, <4>4
    <3>4. CASE Dest(q) \cap Src(p) # {}
      <4>1. ASSUME NEW c \in Cond \cup Loop, NEW k \in Instr, NEW l \in Instr,
                   i <= k, k <= l, i \in Within[c], l \in Within[c]
            PROVE  k \in Within[c]
        <5>1. i..l \subseteq Within[c]  BY <1>5, <4>1, OrderAssumption
        <5>2. k \in i..l  BY <1>2, <4>1, Numbers
        <5> QED BY <5>1, <5>2
      <4>2. Above[p] \cap Nests \subseteq Above[q]
        <5> SUFFICES ASSUME NEW c \in Above[p] \cap Nests PROVE c \in Above[q]
          OBVIOUS
        <5>1. c \in Cond \cup Loop /\ i \in Within[c] /\ h \in Within[c]
          BY <1>2, <1>3, <1>5 DEF Nests
        <5>2. j \in Within[c]  BY <2>2, <3>1, <4>1, <5>1
        <5>3. c \in Above[j] \cap Nests  BY <1>5, <5>1, <5>2
        <5> QED BY <2>1, <2>2, <5>3 DEF InPlace, Alike
      <4>2a. ASSUME NEW s \in Starts, q \in Within[Up[s]], p \in Beyond(s)
            PROVE  q \in Beyond(s)
        <5>1. /\ Up[s] \in Nests /\ Up[s] \in Node
              /\ \A k \in Beyond(s), l \in Within[Up[s]] : k <= l => l \in Beyond(s)
          BY StartOf DEF Nests, Node
        <5>2. Above[j] \cap Nests = Above[q] \cap Nests
              /\ (h \in Beyond(s) <=> p \in Beyond(s)) /\ (j \in Beyond(s) <=> q \in Beyond(s))
          BY <1>1, <2>1, <2>2 DEF InPlace, Alike
        <5>3. q \in Instr  BY <2>1, Numbers
        <5>4. j \in Within[Up[s]]  BY <1>5, <4>2a, <5>1, <5>2, <5>3
        <5>5. i \in OnTheWay[<<PrevTB(h, FALSE), FALSE>>]  BY <1>1, FindOnTheWay
        <5>6. i \in Beyond(s)  BY <4>2a, <5>2, <5>5, StaysBeyond
        <5> QED BY <3>1, <5>1, <5>2, <5>4, <5>6
      <4>3. PICK r : r \in Dest(q) \cap Src(p)  BY <3>4
      <4>4. \/ Feeds(q, p)
            \/ \E t \in Present : q \in Earlier(t) /\ Feeds(t, p)
        BY <2>1, <4>2, <4>3, <4>2a, LastWriter
      <4>5. CASE Feeds(q, p)
        <5>1. Depends(p, j, cd)  BY <1>8, <2>1, <2>2, <3>1, <4>5 DEF Feeds
        <5> QED BY <1>6, <2>2, <3>1, <5>1
      <4>6. ASSUME NEW t \in Present, q \in Earlier(t), Feeds(t, p)
            PROVE  Reaches(i, j, p)
        <5>1. t \in Earlier(p) /\ t \in Chains(form)[p] /\ t < p
          BY <4>6 DEF Feeds, Earlier
        <5>2. PICK k \in Instr : k = HomeIn(cd, t)  BY HomeOf
        <5>3. j < k /\ k < h
          BY <1>1, <2>2, <4>6, <5>1, <5>2 DEF Floor, Ordered
        <5>4. i <= k  BY <3>1, <5>3, Numbers
        <5>5. Depends(p, k, cd)  BY <1>8, <5>1, <5>2, <5>3, <5>4
        <5>6. PICK c \in Cond : c \notin Outer(h) /\ i \in Within[c] /\ k \in Within[c]
          BY <1>2, <5>3, <5>4, <5>5
        <5>7. j <= k  BY <3>1, <5>3, Numbers
        <5>8. j \in Within[c]  BY <3>1, <4>1, <5>6, <5>7
        <5>9. p \notin Within[c]  BY <1>3, <1>4, <1>5, <5>6
        <5> QED BY <5>6, <5>8, <5>9 DEF Reaches
      <4> QED BY <2>2, <4>4, <4>5, <4>6
    <3> QED BY <3>3, <3>4
  <2> QED BY <2>3, <2>4
<1>11. \A j \in Floor(cd, p) : Reaches(i, j, p)  BY <1>9, <1>10 DEF Floor
<1> QED BY <1>2, <1>11 DEF Safe

\* The searches of operations in their places list only what is safe to list.
LEMMA ComputeSafe ==
    ASSUME NEW un \in [Instr -> Seq(Op)], NEW cd, NEW lv,
           PlacedIn(cd), InPlace(cd), Ordered(cd), ud = Chains(form),
           \A i \in Instr : un[i] \in Seq(Safe(cd)[i]), NEW seq \in Seq(Present)
    PROVE  \A i \in Instr : ComputeUnifiableOps(un, seq, cd, lv)[i] \in Seq(Safe(cd)[i])
<1>1. PICK L : L = Safe(cd)  OBVIOUS
<1>2. L \in [Instr -> SUBSET Op]  BY <1>1, Numbers DEF Safe
<1>3. \A o \in Present, i \in Instr : i \in FindDestination(o, cd, lv).at => o \in L[i]
  BY <1>1, ListedSafe
<1>4. \A i \in Instr : un[i] \in Seq(L[i])  BY <1>1
<1> QED BY <1>1, <1>2, <1>3, <1>4, ComputeOf

\* An operation stays in its branches.
LEMMA MovedAlike ==
    ASSUME NEW h \in Instr, NEW k \in OnTheWay[<<PrevTB(h, FALSE), FALSE>>], NEW d \in Instr,
           d < h, Above[d] \cap Nests = Above[h] \cap Nests, Under(k, d)
    PROVE  Alike(d, h)
<1> SUFFICES ASSUME NEW s \in Starts PROVE d \in Beyond(s) <=> h \in Beyond(s)
  BY DEF Alike
<1>1. /\ Up[s] \in Nests /\ Up[s] \in Node /\ Beyond(s) \subseteq Within[Up[s]]
      /\ \A i \in Beyond(s), j \in Within[Up[s]] : i <= j => j \in Beyond(s)
  BY StartOf DEF Nests, Node
<1>2. d \in Within[Up[s]] <=> h \in Within[Up[s]]  BY <1>1 DEF Within
<1>3. d <= h /\ k <= d  BY Numbers DEF Under
<1>4. d \in Beyond(s) => h \in Beyond(s)  BY <1>1, <1>2, <1>3
<1>5. h \in Beyond(s) => d \in Beyond(s)
  <2> SUFFICES ASSUME h \in Beyond(s) PROVE d \in Beyond(s)
    OBVIOUS
  <2>1. k \in Beyond(s)  BY StaysBeyond
  <2> QED BY <1>1, <1>2, <1>3, <2>1
<1> QED BY <1>4, <1>5

\* An operation that moves from where it is safe to list it stays below what must
\* come before it; what must come after it stays below it.
LEMMA MovedSafe ==
    ASSUME NEW cd, NEW cd2, PlacedIn(cd), InPlace(cd), Ordered(cd),
           NEW o \in Present, NEW d \in Instr, NEW k \in Instr,
           HomeIn(cd2, o) = d, d < HomeIn(cd, o),
           Alike(d, HomeIn(cd, o)), o \in Safe(cd)[k], Under(k, d),
           \A p \in Present \ {o} : HomeIn(cd2, p) = HomeIn(cd, p)
    PROVE  /\ InPlace(cd2) /\ Ordered(cd2)
           /\ \A i \in Instr : Safe(cd)[i] \ {o} \subseteq Safe(cd2)[i]
<1>1. PICK h \in Instr : h = HomeIn(cd, o)  BY HomeOf
<1>2. d < h /\ d \in Nat /\ h \in Nat /\ k \in Nat /\ k <= d
  BY <1>1, Numbers DEF Under
<1>3. Above[d] \cap Nests = Above[h] \cap Nests /\ Above[d] \cap Nests = Above[o] \cap Nests
      /\ Alike(d, o)
  BY <1>1 DEF InPlace, Alike
<1>4. /\ \A c \in Cond : c \in Nests /\ c \in Node
      /\ \A c \in Node : \A l \in Instr : l \in Within[c] <=> c \in Above[l]
  BY DEF Nests, Node, Within
<1>5. \A p \in Present : HomeIn(cd, p) \in Instr  BY HomeOf
<1>6. \A p \in Present : p \in Instr /\ p \in Nat  BY Numbers
<1>7. \A p \in Present : Branches(p) \subseteq Instr /\ Earlier(p) \subseteq Present
                         /\ p \notin Earlier(p)
  BY <1>6 DEF Branches, Earlier
<1>8. InPlace(cd2)
  <2> SUFFICES ASSUME NEW p \in Present
               PROVE  Alike(HomeIn(cd2, p), p)
    BY DEF InPlace
  <2>1. CASE p = o  BY <1>3, <2>1
  <2>2. CASE p # o  BY <2>2 DEF InPlace
  <2> QED BY <2>1, <2>2
<1>9. ASSUME NEW j \in Instr, Reaches(k, j, o) PROVE j < d
  <2>1. j \in Nat  BY Numbers
  <2>2. CASE j < k  BY <1>2, <2>1, <2>2
  <2>3. CASE \E c \in Cond : k \in Within[c] /\ j \in Within[c] /\ o \notin Within[c]
    <3>1. PICK c \in Cond : k \in Within[c] /\ j \in Within[c] /\ o \notin Within[c]
      BY <2>3
    <3>2. c \in Above[k] /\ c \notin Above[o] /\ c \in Nests /\ c \in Node
      BY <1>4, <1>6, <3>1
    <3>3. c \notin Above[d]  BY <1>3, <3>2
    <3>4. LastIn(c) < d /\ j <= LastIn(c)  BY <3>1, <3>2, <3>3, LastWithin DEF Under
    <3>5. PICK y \in Nat : y = LastIn(c)  BY <3>2, LastNumbers
    <3> QED BY <1>2, <2>1, <3>4, <3>5
  <2> QED BY <1>9, <2>2, <2>3 DEF Reaches
<1>10. Ordered(cd2)
  <2>1. ASSUME NEW p \in Present, NEW j \in Branches(p) PROVE j < HomeIn(cd2, p)
    <3>1. j \in Floor(cd, p) /\ j \in Instr  BY <1>7, <2>1 DEF Floor
    <3>2. CASE p = o
      <4>1. Reaches(k, j, o)  BY <3>1, <3>2 DEF Safe
      <4> QED BY <1>9, <3>1, <3>2, <4>1
    <3>3. CASE p # o  BY <3>1, <3>3 DEF Ordered
    <3> QED BY <3>2, <3>3
  <2>2. ASSUME NEW p \in Present, NEW q \in Earlier(p) PROVE HomeIn(cd2, q) < HomeIn(cd2, p)
    <3>1. PICK j \in Instr : j = HomeIn(cd, q) /\ j \in Floor(cd, p)
      BY <1>5, <1>7, <2>2 DEF Floor
    <3>2. q \in Present /\ q # p  BY <1>7, <2>2
    <3>3. CASE p = o
      <4>1. Reaches(k, j, o)  BY <3>1, <3>3 DEF Safe
      <4>2. HomeIn(cd2, q) = j  BY <3>1, <3>2, <3>3
      <4> QED BY <1>9, <3>3, <4>1, <4>2
    <3>4. CASE p # o
      <4>1. PICK l \in Instr : l = HomeIn(cd, p) /\ l = HomeIn(cd2, p)  BY <1>5, <3>4
      <4>2. j < l  BY <3>1, <4>1 DEF Ordered
      <4>3. CASE q = o  BY <1>1, <1>2, <3>1, <4>1, <4>2, <4>3, Numbers
      <4>4. CASE q # o  BY <3>1, <3>2, <4>1, <4>2, <4>4
      <4> QED BY <4>3, <4>4
    <3> QED BY <3>3, <3>4
  <2> QED BY <2>1, <2>2 DEF Ordered, Floor
<1>11. ASSUME NEW i \in Instr, NEW p \in Safe(cd)[i], p # o PROVE p \in Safe(cd2)[i]
  <2>1. p \in Present /\ \A j \in Floor(cd, p) : Reaches(i, j, p)  BY <1>11 DEF Safe
  <2>2. \A j \in Branches(p) : Reaches(i, j, p)  BY <2>1 DEF Floor
  <2>3. ASSUME NEW q \in Earlier(p) PROVE Reaches(i, HomeIn(cd2, q), p)
    <3>1. Reaches(i, HomeIn(cd, q), p) /\ q \in Present  BY <1>7, <2>1, <2>3 DEF Floor
    <3>2. CASE q # o  BY <3>1, <3>2
    <3>3. CASE q = o
      <4>1. Reaches(i, h, p)  BY <1>1, <3>1, <3>3
      <4>2. CASE h < i
        <5>1. d < i  BY <1>2, <4>2, Numbers
        <5> QED BY <3>3, <5>1 DEF Reaches
      <4>3. CASE \E c \in Cond : i \in Within[c] /\ h \in Within[c] /\ p \notin Within[c]
        <5>1. PICK c \in Cond : i \in Within[c] /\ h \in Within[c] /\ p \notin Within[c]
          BY <4>3
        <5>2. d \in Within[c]  BY <1>3, <1>4, <5>1
        <5> QED BY <3>3, <5>1, <5>2 DEF Reaches
      <4> QED BY <4>1, <4>2, <4>3 DEF Reaches
    <3> QED BY <3>2, <3>3
  <2> QED BY <2>1, <2>2, <2>3 DEF Safe, Floor
<1> QED BY <1>8, <1>10, <1>11

\* At the start, every operation is where the program has it.
LEMMA InitHomes ==
    Init => \A o \in Present : Home(o) = o
<1> SUFFICES ASSUME Init, NEW o \in Present PROVE Home(o) = o
  OBVIOUS
<1>1. o \in Instr /\ o # 0  BY Numbers
<1>2. \A j \in Instr : o \in OpsIn(code, j) => j = o
  BY <1>1 DEF Init, OpsIn
<1>3. Home(o) \in Instr /\ o \in OpsIn(code, Home(o))
  <2>1. PlacedIn(code)  BY InitInv DEF IInv
  <2>2. PICK h \in Instr, s \in Slot : h = Home(o) /\ code[h][s] = o
    BY <2>1, HomeOf DEF Home
  <2> QED BY <1>1, <2>2 DEF OpsIn
<1> QED BY <1>2, <1>3

LEMMA InitOrder == Init => OrderInv
<1> SUFFICES ASSUME Init PROVE OrderInv
  OBVIOUS
<1>1. ud = Chains(form) /\ \A i \in Instr : unif[i] = <<>>  BY DEF Init
<1>2. \A o \in Present : HomeIn(code, o) = o  BY InitHomes DEF Home
<1>3. InPlace(code)  BY <1>2 DEF InPlace, Alike
<1>4. Ordered(code)  BY <1>2 DEF Ordered, Floor, Earlier, Branches
<1>5. \A i \in Instr : unif[i] \in Seq(Safe(code)[i])
  <2> TAKE i \in Instr
  <2>1. PICK S : S = Safe(code)[i]  OBVIOUS
  <2>2. <<>> \in Seq(S)  OBVIOUS
  <2> QED BY <1>1, <2>1, <2>2
<1> QED BY <1>1, <1>3, <1>4, <1>5 DEF OrderInv

\* The invariant of a program that stays, over code and lists that change.
LEMMA SameOrder ==
    ASSUME form' = form, ud' = ud, ud = Chains(form),
           InPlace(code'), Ordered(code'),
           \A i \in Instr : unif'[i] \in Seq(Safe(code')[i])
    PROVE  OrderInv'
<1>1. Present' = Present  BY DEF Present
<1>2. \A q, p : Conflict(q, p)' <=> Conflict(q, p)
  BY DEF Conflict, MemoryOrder, Dest, Src
<1>3. \A p : Earlier(p)' = Earlier(p)  BY <1>1, <1>2 DEF Earlier, Apart
<1>4. \A p : Branches(p)' = Branches(p)  BY DEF Branches, Dest
<1>5. \A p : HomeIn(code, p)' = HomeIn(code', p)  BY DEF HomeIn, OpsIn
<1>6. \A p : Floor(code, p)' = Floor(code', p)  BY <1>3, <1>4, <1>5 DEF Floor
<1>7. InPlace(code)'  BY <1>1, <1>5 DEF InPlace, Alike
<1>8. Ordered(code)'  BY <1>1, <1>5, <1>6 DEF Ordered
<1>9. Safe(code)' = Safe(code')  BY <1>1, <1>6 DEF Safe, Reaches
<1>10. Chains(form)' = Chains(form)  BY DEF Chains, Untouched
<1> QED BY <1>7, <1>8, <1>9, <1>10 DEF OrderInv

\* Lists without an operation list only others, wherever that one goes.
LEMMA OffSafe ==
    ASSUME NEW i \in Instr, NEW o, NEW q \in Seq(Safe(code)[i]), NEW cd,
           Safe(code)[i] \ {o} \subseteq Safe(cd)[i]
    PROVE  Off(q, o) \in Seq(Safe(cd)[i]) /\ Off(q, o) \in Seq(Op)
<1>1. PICK S, T : S = Safe(code)[i] /\ T = Safe(cd)[i]  OBVIOUS
<1>2. Off(q, o) \in Seq(S \cap (Op \ {o}))  BY <1>1, KeptOf DEF Off
<1>3. S \cap (Op \ {o}) \subseteq T  BY <1>1
<1>4. S \cap (Op \ {o}) \subseteq Op  OBVIOUS
<1> QED BY <1>1, <1>2, <1>3, <1>4

LEMMA OrderCompute ==
    IInv /\ OrderInv /\ Compute => OrderInv'
<1> SUFFICES ASSUME IInv, OrderInv, Compute PROVE OrderInv'
  OBVIOUS
<1>1. /\ unif' = ComputeUnifiableOps(unif, OpsOf(code, Ascending(InLevel[level])), code, live)
      /\ form' = form /\ code' = code /\ ud' = ud
  BY DEF Compute
<1>2. OpsOf(code, Ascending(InLevel[level])) \in Seq(Present)
  BY OpsPresent DEF IInv, TypeInv
<1>3. PICK seq \in Seq(Present) : seq = OpsOf(code, Ascending(InLevel[level]))  BY <1>2
<1>4. /\ unif \in [Instr -> Seq(Op)] /\ PlacedIn(code) /\ InPlace(code) /\ Ordered(code)
      /\ ud = Chains(form) /\ \A i \in Instr : unif[i] \in Seq(Safe(code)[i])
  BY DEF IInv, TypeInv, OrderInv
<1>5. \A i \in Instr : ComputeUnifiableOps(unif, seq, code, live)[i] \in Seq(Safe(code)[i])
  BY <1>4, ComputeSafe
<1> QED BY <1>1, <1>3, <1>4, <1>5, SameOrder

LEMMA OrderSchedule ==
    IInv /\ OrderInv /\ Schedule => OrderInv'
<1> SUFFICES ASSUME IInv, OrderInv, Schedule PROVE OrderInv'
  OBVIOUS
<1>1. form' = form /\ ud' = ud /\ cursor \in Instr  BY ScheduleOutcome
<1>2. PICK o \in Present :
        \/ code' = code /\ unif' = unif
        \/ code' = code /\ unif' = Skipped(o)
        \/ \E i \in Instr :
             /\ i < Home(o) /\ Above[i] \cap Nests = Above[Home(o)] \cap Nests
             /\ \E k \in Instr : o \in Range(unif[k]) /\ Under(k, i)
             /\ AvailSlots(o, i) # {} /\ code' = Moved(o, i)
             /\ unif' = ComputeUnifiableOps([j \in Instr |-> Off(unif[j], o)],
                          Dependents(o, Home(o), code'), code', live')
  BY ScheduleOutcome
<1>3. /\ unif \in [Instr -> Seq(Op)] /\ PlacedIn(code) /\ InPlace(code) /\ Ordered(code)
      /\ ud = Chains(form) /\ \A i \in Instr : unif[i] \in Seq(Safe(code)[i])
  BY DEF IInv, TypeInv, OrderInv
<1>4. SUFFICES ASSUME TRUE
               PROVE  /\ InPlace(code') /\ Ordered(code')
                      /\ \A i \in Instr : unif'[i] \in Seq(Safe(code')[i])
  BY <1>1, <1>3, SameOrder
<1>5. CASE code' = code /\ unif' = unif  BY <1>3, <1>5
<1>6. CASE code' = code /\ unif' = Skipped(o)
  <2>1. Off(unif[cursor], o) \in Seq(Safe(code)[cursor])  BY <1>1, <1>3, OffSafe
  <2>2. \A i \in Instr : unif'[i] = IF i = cursor THEN Off(unif[cursor], o) ELSE unif[i]
    BY <1>1, <1>3, <1>6 DEF Skipped
  <2> QED BY <1>3, <1>6, <2>1, <2>2
<1>7. ASSUME NEW i \in Instr, NEW k \in Instr,
             i < Home(o), Above[i] \cap Nests = Above[Home(o)] \cap Nests,
             o \in Range(unif[k]), Under(k, i),
             AvailSlots(o, i) # {}, code' = Moved(o, i),
             unif' = ComputeUnifiableOps([j \in Instr |-> Off(unif[j], o)],
                       Dependents(o, Home(o), code'), code', live')
      PROVE  /\ InPlace(code') /\ Ordered(code')
             /\ \A j \in Instr : unif'[j] \in Seq(Safe(code')[j])
  <2>1. PICK h \in Instr : h = Home(o) /\ h = HomeIn(code, o)  BY <1>3, HomeOf DEF Home
  <2>2. i # h  BY <1>7, <2>1, Numbers
  <2>3. PICK cd : /\ cd = code' /\ cd \in [Instr -> [Slot -> Present \cup {0}]]
                  /\ PlacedIn(cd) /\ HomeIn(cd, o) = i
                  /\ \A p \in Present \ {o} : HomeIn(cd, p) = HomeIn(code, p)
    BY <1>3, <1>7, <2>1, <2>2, MovedPlaces DEF IInv, Home
  <2>4. o \in Safe(code)[k] /\ k \in OnTheWay[<<PrevTB(h, FALSE), FALSE>>]
    <3>1. PICK q, S, T : /\ q = unif[k] /\ S = Safe(code)[k] /\ T = Listable(code)[k]
                         /\ q \in Seq(S) /\ q \in Seq(T)
      BY <1>3 DEF IInv
    <3>2. Range(q) \subseteq S /\ Range(q) \subseteq T
      <4>1. DOMAIN q = 1..Len(q)  BY <3>1, LenProperties
      <4> QED BY <3>1, <4>1, ElementOfSeq DEF Range
    <3>3. o \in Listable(code)[k]  BY <1>7, <3>1, <3>2
    <3> QED BY <1>7, <2>1, <3>1, <3>2, <3>3 DEF Listable
  <2>4a. Alike(i, h)
    <3>1. i < h /\ Above[i] \cap Nests = Above[h] \cap Nests  BY <1>7, <2>1
    <3> QED BY <1>7, <2>4, <3>1, MovedAlike
  <2>5. /\ InPlace(cd) /\ Ordered(cd)
        /\ \A j \in Instr : Safe(code)[j] \ {o} \subseteq Safe(cd)[j]
    <3>1. PICK c : c = code /\ o \in Safe(c)[k] /\ i < HomeIn(c, o)
                   /\ Alike(i, HomeIn(c, o))
                   /\ PlacedIn(c) /\ InPlace(c) /\ Ordered(c)
                   /\ \A p \in Present \ {o} : HomeIn(cd, p) = HomeIn(c, p)
      BY <1>3, <1>7, <2>1, <2>3, <2>4, <2>4a
    <3>2. Under(k, i) /\ HomeIn(cd, o) = i  BY <1>7, <2>3
    <3>3. /\ InPlace(cd) /\ Ordered(cd)
          /\ \A j \in Instr : Safe(c)[j] \ {o} \subseteq Safe(cd)[j]
      BY <3>1, <3>2, MovedSafe
    <3> QED BY <3>1, <3>3
  <2>6. PICK un : un = [j \in Instr |-> Off(unif[j], o)]  OBVIOUS
  <2>7. un \in [Instr -> Seq(Op)] /\ \A j \in Instr : un[j] \in Seq(Safe(cd)[j])
    <3>1. \A j \in Instr : Off(unif[j], o) \in Seq(Safe(cd)[j]) /\ Off(unif[j], o) \in Seq(Op)
      BY <1>3, <2>5, OffSafe
    <3> QED BY <2>6, <3>1
  <2>8. Dependents(o, h, cd) \in Seq(Present)  BY <2>3, DependentsPresent
  <2>9. PICK seq \in Seq(Present) : seq = Dependents(o, h, cd)  BY <2>8
  <2>10. PICK lv : lv = live'  OBVIOUS
  <2>11. unif' = ComputeUnifiableOps(un, seq, cd, lv)
    BY <1>7, <2>1, <2>3, <2>6, <2>9, <2>10
  <2>12. \A j \in Instr : ComputeUnifiableOps(un, seq, cd, lv)[j] \in Seq(Safe(cd)[j])
    BY <1>3, <2>3, <2>5, <2>7, ComputeSafe
  <2> QED BY <2>3, <2>5, <2>11, <2>12
<1> QED BY <1>2, <1>5, <1>6, <1>7

LEMMA OrderInductive ==
    IInv /\ OrderInv /\ [Next]_vars => OrderInv'
<1> SUFFICES ASSUME IInv, OrderInv, [Next]_vars PROVE OrderInv'
  OBVIOUS
<1>1. CASE Compute  BY <1>1, OrderCompute
<1>2. CASE Schedule  BY <1>2, OrderSchedule
<1>3. CASE NextInstr \/ NextLevel \/ UNCHANGED vars
  <2>1. form' = form /\ ud' = ud /\ code' = code /\ unif' = unif
    BY <1>3 DEF NextInstr, NextLevel, vars
  <2> QED BY <2>1, SameOrder DEF OrderInv
<1> QED BY <1>1, <1>2, <1>3 DEF Next, Stopped

\* The invariant of the order: what must come before an operation is above it, and
\* an instruction lists only operations that may be taken to it without passing that.
THEOREM InOrder == Spec => []OrderInv
  BY InitOrder, OrderInductive, Placed, PTL DEF Spec

-----------------------------------------------------------------------------
(* The theorems *)

\* However often the passes move and relist the operations, each of them stays
\* in one slot of one instruction, of a kind it may be in.
THEOREM OperationsKept == Spec => []EveryOperationOnce
<1>1. IInv => EveryOperationOnce
  <2> SUFFICES ASSUME IInv, NEW o \in Op
               PROVE  /\ Cardinality({p \in Instr \X Slot : code[p[1]][p[2]] = o}) =
                            (IF form[o] = NoForm THEN 0 ELSE 1)
                      /\ \A i \in Instr, s \in Slot :
                            code[i][s] = o => s \in Range(form[o].slots)
    BY DEF EveryOperationOnce
  <2>1. code \in [Instr -> [Slot -> Present \cup {0}]] /\ PlacedIn(code)
    BY DEF IInv, TypeInv
  <2>2. PICK P : P = {p \in Instr \X Slot : code[p[1]][p[2]] = o}  OBVIOUS
  <2>3. CASE form[o] = NoForm
    <3>1. o \notin Present /\ o # 0  BY <2>3, Numbers DEF Present
    <3>2. \A i \in Instr, s \in Slot : code[i][s] # o  BY <2>1, <3>1
    <3>3. P = {}
      <4> SUFFICES ASSUME NEW p \in P PROVE FALSE
        OBVIOUS
      <4>1. p[1] \in Instr /\ p[2] \in Slot /\ code[p[1]][p[2]] = o  BY <2>2
      <4> QED BY <3>2, <4>1
    <3> QED BY <2>2, <2>3, <3>2, <3>3, FS_EmptySet
  <2>4. CASE form[o] # NoForm
    <3>1. o \in Present  BY <2>4 DEF Present
    <3>2. PICK i \in Instr, s \in Slot :
            /\ s \in Range(form[o].slots)
            /\ \A j \in Instr, t \in Slot : code[j][t] = o <=> j = i /\ t = s
      BY <2>1, <3>1 DEF PlacedIn
    <3>3. P = {<<i, s>>}
      <4>1. ASSUME NEW p \in P PROVE p = <<i, s>>
        <5>1. PICK j \in Instr, t \in Slot : p = <<j, t>>  BY <2>2, <4>1
        <5>2. code[p[1]][p[2]] = o  BY <2>2, <4>1
        <5>3. p[1] = j /\ p[2] = t  BY <5>1
        <5> QED BY <3>2, <5>1, <5>2, <5>3
      <4>2. <<i, s>> \in P
        <5>1. PICK p \in Instr \X Slot : p = <<i, s>>  OBVIOUS
        <5>2. p[1] = i /\ p[2] = s  BY <5>1
        <5>3. code[i][s] = o  BY <3>2
        <5> QED BY <2>2, <5>1, <5>2, <5>3
      <4> QED BY <4>1, <4>2
    <3>4. Cardinality(P) = 1  BY <3>3, FS_Singleton
    <3> QED BY <2>2, <2>4, <3>2, <3>4
  <2> QED BY <2>3, <2>4
<1> QED BY <1>1, Placed, PTL

\* Nothing a program can be trailblazed to makes a migration run into the block
\* that is marked as never executed and ends the compiler.
THEOREM GoesOn == Spec => []NeverForcedExit
<1>1. IInv => NeverForcedExit  BY DEF IInv, NeverForcedExit
<1> QED BY <1>1, Placed, PTL

\* Two operations of which one writes what the other reads or writes never meet or
\* change places, whichever of the routine's instructions they are moved between.
THEOREM KeepsDependences == Spec => []DependencesKept
<1>1. OrderInv => DependencesKept
  <2> SUFFICES ASSUME OrderInv, NEW o \in Present, NEW p \in Present,
                      o < p, ~Apart(o, p), Conflict(o, p)
               PROVE  Home(o) < Home(p)
    BY DEF DependencesKept
  <2>1. o \in Earlier(p)  BY DEF Earlier
  <2>2. HomeIn(code, o) \in Floor(code, p)  BY <2>1 DEF Floor
  <2> QED BY <2>2 DEF OrderInv, Ordered, Home
<1> QED BY <1>1, InOrder, PTL

\* An operation that writes a condition code stays below the branches that read the
\* one before.
THEOREM KeepsBranches == Spec => []BranchesKept
<1>1. IInv /\ OrderInv => BranchesKept
  <2> SUFFICES ASSUME IInv, OrderInv, NEW o \in Present, NEW i \in Instr,
                      o > i, Dest(o) \cap BranchReads[i] # {}
               PROVE  Home(o) > i
    BY DEF BranchesKept
  <2>1. PICK h \in Instr : h = HomeIn(code, o)  BY HomeOf DEF IInv
  <2>2. i \in Nat /\ o \in Nat /\ h \in Nat  BY Numbers
  <2>3. i \in Branches(o)  BY <2>2 DEF Branches
  <2>4. i < h  BY <2>1, <2>3 DEF OrderInv, Ordered, Floor
  <2> QED BY <2>1, <2>2, <2>4 DEF Home
<1> QED BY <1>1, InOrder, Placed, PTL

\* A step keeps every operation where it is, or moves one of them to an earlier
\* instruction between the same ifs and loops.
LEMMA HomesAfter ==
    ASSUME IInv, [Next]_vars
    PROVE  \/ \A o \in Present : HomeIn(code', o) = Home(o)
           \/ \E o \in Present :
                /\ HomeIn(code', o) \in Instr
                /\ HomeIn(code', o) < Home(o) /\ HomeIn(code', o) # FirstInstr
                /\ Above[HomeIn(code', o)] \cap Nests = Above[Home(o)] \cap Nests
                /\ \A p \in Present \ {o} : HomeIn(code', p) = Home(p)
<1>1. CASE code' = code  BY <1>1 DEF Home
<1>2. CASE Schedule
  <2>1. PICK o \in Present :
          \/ code' = code
          \/ \E i \in Instr :
               /\ i < Home(o) /\ i # FirstInstr
               /\ Above[i] \cap Nests = Above[Home(o)] \cap Nests
               /\ AvailSlots(o, i) # {} /\ code' = Moved(o, i)
    BY <1>2, ScheduleOutcome
  <2>2. CASE code' = code  BY <1>1, <2>2
  <2>3. ASSUME NEW i \in Instr,
               i < Home(o), i # FirstInstr,
               Above[i] \cap Nests = Above[Home(o)] \cap Nests,
               AvailSlots(o, i) # {}, code' = Moved(o, i)
        PROVE  /\ HomeIn(code', o) \in Instr
               /\ HomeIn(code', o) < Home(o) /\ HomeIn(code', o) # FirstInstr
               /\ Above[HomeIn(code', o)] \cap Nests = Above[Home(o)] \cap Nests
               /\ \A p \in Present \ {o} : HomeIn(code', p) = Home(p)
    <3>1. PICK h \in Instr : h = Home(o)  BY HomeOf DEF Home, IInv
    <3>2. i # h  BY <2>3, <3>1, Numbers
    <3>3. /\ HomeIn(code', o) = i
          /\ \A p \in Present \ {o} : HomeIn(code', p) = Home(p)
      BY <2>3, <3>1, <3>2, MovedPlaces DEF IInv
    <3> QED BY <2>3, <3>3
  <2> QED BY <2>1, <2>2, <2>3
<1>3. ~Schedule => code' = code
  BY DEF Next, Compute, NextInstr, NextLevel, Stopped, vars
<1> QED BY <1>1, <1>2, <1>3

\* An operation that moves goes to an earlier instruction, never the first, with
\* the same ifs and loops around it.
THEOREM MovesUp == Spec => OnlyUp
<1> DEFINE Rises(o) == \/ Home(o)' = Home(o)
                       \/ /\ Home(o)' < Home(o) /\ Home(o)' # FirstInstr
                          /\ Above[Home(o)'] \cap (Cond \cup Loop) =
                               Above[Home(o)] \cap (Cond \cup Loop)
<1>1. IInv /\ [Next]_vars => [\A o \in Present : Rises(o)]_vars
  <2> SUFFICES ASSUME IInv, [Next]_vars, NEW o \in Present PROVE Rises(o)
    OBVIOUS
  <2>1. Home(o)' = HomeIn(code', o)  BY DEF Home, HomeIn, OpsIn
  <2>2. \/ HomeIn(code', o) = Home(o)
        \/ /\ HomeIn(code', o) < Home(o) /\ HomeIn(code', o) # FirstInstr
           /\ Above[HomeIn(code', o)] \cap Nests = Above[Home(o)] \cap Nests
    BY HomesAfter
  <2> QED BY <2>1, <2>2 DEF Nests
<1> QED BY <1>1, Placed, PTL DEF Spec, OnlyUp

\* The places above the operations' own are finitely many, and fewer after a move.
LEMMA RankOf ==
    ASSUME IInv, [Next]_vars, form' = form
    PROVE  (\A o \in Present : HomeIn(code', o) = Home(o)) \/ Rank' < Rank
<1>1. PICK h, k : h = [o \in Present |-> Home(o)] /\ k = [o \in Present |-> HomeIn(code', o)]
  OBVIOUS
<1>2. PICK A : A = {p \in Present \X Instr : p[2] <= h[p[1]]}  OBVIOUS
<1>3. PICK B : B = {p \in Present \X Instr : p[2] <= k[p[1]]}  OBVIOUS
<1>4. Rank = Cardinality(A)
  <2>1. A = {p \in Present \X Instr : p[2] <= Home(p[1])}  BY <1>1, <1>2
  <2> QED BY <2>1 DEF Rank
<1>5. Rank' = Cardinality(B)
  <2>1. B = {p \in Present \X Instr : p[2] <= HomeIn(code', p[1])}  BY <1>1, <1>3
  <2> QED BY <2>1, SameForm DEF Rank, Home, HomeIn, OpsIn
<1>6. IsFiniteSet(A)
  <2>1. IsFiniteSet(Instr)
    <3>1. IsFiniteSet(1..NumInstr)  BY TreeAssumption, FS_Interval
    <3> QED BY <3>1 DEF Instr
  <2>2. IsFiniteSet(Present)  BY <2>1, Numbers, FS_Subset
  <2>3. IsFiniteSet(Present \X Instr)  BY <2>1, <2>2, FS_Product
  <2> QED BY <1>2, <2>3, FS_Subset
<1>7. \A o \in Present : h[o] \in Instr  BY <1>1, HomeOf DEF Home, IInv
<1>8. \/ k = h
      \/ \E o \in Present : /\ k[o] \in Instr /\ k[o] < h[o]
                            /\ \A p \in Present \ {o} : k[p] = h[p]
  BY <1>1, HomesAfter
<1>9. k = h => \A o \in Present : HomeIn(code', o) = Home(o)  BY <1>1
<1>10. ASSUME NEW o \in Present, k[o] \in Instr, k[o] < h[o],
              \A p \in Present \ {o} : k[p] = h[p]
       PROVE  \E m, n \in Nat : m = Cardinality(B) /\ n = Cardinality(A) /\ m < n
  <2>1. PICK i \in Nat, j \in Nat : i = k[o] /\ j = h[o] /\ j \in Instr /\ i < j
    BY <1>7, <1>10, Numbers
  <2>2. B \subseteq A
    <3> SUFFICES ASSUME NEW p \in B PROVE p \in A
      OBVIOUS
    <3>1. PICK u \in Present, m \in Instr : p = <<u, m>>  BY <1>3
    <3>2. p[1] = u /\ p[2] = m /\ m \in Nat  BY <3>1, Numbers
    <3>3. m <= k[u]  BY <1>3, <3>2
    <3>4. m <= h[u]
      <4>1. CASE u = o  BY <2>1, <3>2, <3>3, <4>1
      <4>2. CASE u # o  BY <1>10, <3>3, <4>2
      <4> QED BY <4>1, <4>2
    <3> QED BY <1>2, <3>1, <3>2, <3>4
  <2>3. PICK q \in Present \X Instr : q = <<o, j>> /\ q[1] = o /\ q[2] = j
    <3>1. <<o, j>> \in Present \X Instr  BY <2>1
    <3>2. <<o, j>>[1] = o /\ <<o, j>>[2] = j  OBVIOUS
    <3> QED BY <3>1, <3>2
  <2>4. j <= h[o] /\ ~(j <= k[o])  BY <2>1
  <2>5. q \in A /\ q \notin B  BY <1>2, <1>3, <2>3, <2>4
  <2>6. /\ IsFiniteSet(B) /\ Cardinality(B) <= Cardinality(A) /\ Cardinality(A) # Cardinality(B)
        /\ Cardinality(B) \in Nat /\ Cardinality(A) \in Nat
    BY <1>6, <2>2, <2>5, FS_Subset, FS_CardinalityType
  <2>7. PICK m \in Nat, n \in Nat : m = Cardinality(B) /\ n = Cardinality(A)  BY <2>6
  <2>8. m < n  BY <2>6, <2>7
  <2> QED BY <2>7, <2>8
<1> QED BY <1>4, <1>5, <1>8, <1>9, <1>10

\* A migration moves an operation up or takes it off the list it heads, so that
\* between two instructions the schedule never repeats itself.
THEOREM NeverRepeats == Spec => Advances
<1> DEFINE Progress == phase = "schedule" /\ cursor' = cursor /\ phase' = "schedule" =>
                         \/ Rank' < Rank
                         \/ Rank' = Rank /\ Len(unif'[cursor]) < Len(unif[cursor])
<1>1. IInv /\ [Next]_vars => [Progress]_vars
  <2> SUFFICES ASSUME IInv, Next, phase = "schedule", cursor' = cursor, phase' = "schedule"
               PROVE  \/ Rank' < Rank
                      \/ Rank' = Rank /\ Len(unif'[cursor]) < Len(unif[cursor])
    OBVIOUS
  <2>1. ~Compute /\ ~NextLevel /\ ~Stopped
    BY DEF Compute, NextLevel, Stopped
  <2>2. ~NextInstr
    <3> SUFFICES ASSUME NextInstr PROVE FALSE
      OBVIOUS
    <3>1. PICK i \in InLevel[level] : i > cursor /\ cursor' = i  BY DEF NextInstr
    <3>2. PICK c \in Nat : c = cursor  BY Numbers DEF IInv, TypeInv
    <3>3. ~(c > c)  OBVIOUS
    <3> QED BY <3>1, <3>2, <3>3
  <2>3. Schedule  BY <2>1, <2>2 DEF Next
  <2>4. form' = form /\ cursor \in Instr /\ unif[cursor] # <<>>  BY <2>3, ScheduleOutcome
  <2>5. PICK o \in Present :
          /\ o = Head(unif[cursor])
          /\ \/ code' = code /\ unif' = Skipped(o)
             \/ \E i \in Instr : i < Home(o) /\ AvailSlots(o, i) # {} /\ code' = Moved(o, i)
    BY <2>3, ScheduleOutcome
  <2>6. CASE code' = code /\ unif' = Skipped(o)
    <3>1. Rank' = Rank
      BY <2>4, <2>6, SameForm DEF Rank, Home, HomeIn, OpsIn
    <3>2. PICK q \in Seq(Op) : q = unif[cursor] /\ q # <<>> /\ o = Head(q)
      BY <2>4, <2>5 DEF IInv, TypeInv
    <3>3. unif'[cursor] = Off(q, o)
      BY <2>4, <2>6, <3>2 DEF Skipped, IInv, TypeInv
    <3>4. Head(q) \notin Op \ {o}  BY <3>2
    <3>5. Len(Off(q, o)) < Len(q)  BY <3>2, <3>4, KeptOf DEF Off
    <3> QED BY <3>1, <3>2, <3>3, <3>5
  <2>7. ASSUME NEW i \in Instr, i < Home(o), AvailSlots(o, i) # {}, code' = Moved(o, i)
        PROVE  Rank' < Rank
    <3>1. PICK h \in Instr : h = Home(o)  BY HomeOf DEF Home, IInv
    <3>2. i # h  BY <2>7, <3>1, Numbers
    <3>3. HomeIn(code', o) = i  BY <2>7, <3>1, <3>2, MovedPlaces DEF IInv
    <3> QED BY <2>4, <3>1, <3>2, <3>3, RankOf
  <2> QED BY <2>5, <2>6, <2>7
<1> QED BY <1>1, Placed, PTL DEF Spec, Advances
=============================================================================
