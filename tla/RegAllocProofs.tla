--------------------------- MODULE RegAllocProofs ---------------------------
(***************************************************************************)
(* Proofs about the register allocator, for every routine, register file   *)
(* and set of classes that the assumptions allow: whatever is merged,      *)
(* spilled and tried again, an allocated routine has for each name a       *)
(* register that the name would take and that no neighbour of it has, and  *)
(* every merge and every spill brings the end nearer.  Where moves are     *)
(* alone in their instructions, the lists name every operand, every two    *)
(* names that interfere are neighbours, and where besides branches write   *)
(* nothing, an allocated routine does what the original did.               *)
(***************************************************************************)
EXTENDS RegAlloc, SequenceLemmas

-----------------------------------------------------------------------------
(* The inductive invariant *)

\* Operations, instructions and routines over the names N.
OpOver(N) ==
    {o \in [id : Nat, kind : {"op", "move", "store", "load"}, dest : N \cup {None},
            srcs : Seq(N), slot : Nat] :
       IsMove(o) => o.dest # None /\ Len(o.srcs) = 1}
InstrOver(N) == [id : Nat, ops : Seq(OpOver(N))]
Routine(N) == [Block -> Seq(InstrOver(N))]

\* Names have classes, and no name is a register.
Names == DOMAIN class
NameSet(N) == IsFiniteSet(N) /\ N \subseteq Nat /\ N \cap Color = {}
Named ==
    /\ NameSet(Names) /\ code \in Routine(Names)
    /\ slots \in Nat

\* Each multichain is in the graph or on the stack, once.
OnceOver(ns, stack, N) ==
    /\ ns \in Seq(N) /\ stack \in Seq(N) /\ Distinct(ns) /\ Distinct(stack)
    /\ Range(ns) \cap Range(stack) = {} /\ Range(ns) \cup Range(stack) = N
Listed ==
    /\ DOMAIN mc \subseteq Names /\ DOMAIN color = DOMAIN mc
    /\ OnceOver(nodes, nodeStack, DOMAIN mc)
    /\ nodesToSpill \in Seq(DOMAIN mc) /\ Distinct(nodesToSpill)
    /\ Range(nodesToSpill) \subseteq Range(nodes)

\* What is empty in which phase.
Phases ==
    /\ phase \in {"chains", "build", "coalesce", "simplify", "select", "spill", "done"}
    /\ phase \notin {"simplify", "select"} => nodeStack = <<>>
    /\ phase \notin {"select", "spill"} => nodesToSpill = <<>>
    /\ phase = "chains" => DOMAIN mc = {}
    /\ phase # "coalesce" => pending = {} /\ marked = {}

\* The moves to come are moves of the routine that stay.
MovesToCome == pending \subseteq Moves(code) /\ pending \cap marked = {}

\* A name has an edge to every register that is not of its class.
Barred == \A n \in DOMAIN mc : \A r \in Color \ class[n] : {n, r} \in edges

\* What select has put back has a register of its class, unlike its neighbours.
Coloured == Range(nodes) \ Range(nodesToSpill)
SelectedRight ==
    phase \in {"select", "done"} =>
        \A n \in Coloured :
            /\ color[n] \in class[n] /\ color[n] \in Color
            /\ \A m \in Coloured : m # n /\ {n, m} \in edges => color[n] # color[m]

IInv ==
    /\ Named /\ Listed /\ Phases /\ MovesToCome /\ Barred /\ SelectedRight

-----------------------------------------------------------------------------
(* Names and routines *)

\* A list without a name.
LEMMA WithoutOf ==
    ASSUME NEW N, NEW s \in Seq(N), NEW n
    PROVE  /\ Without(s, n) \in Seq(N) /\ Range(Without(s, n)) = Range(s) \ {n}
           /\ Distinct(s) => Distinct(Without(s, n))
<1>1. Range(s) \cap (Range(s) \ {n}) = Range(s) \ {n}  OBVIOUS
<1> QED BY <1>1, KeptMembers DEF Without

LEMMA FreshOf ==
    ASSUME NEW cl, NameSet(DOMAIN cl), DOMAIN cl # {}
    PROVE  FreshName(cl) \notin DOMAIN cl /\ NameSet(DOMAIN cl \cup {FreshName(cl)})
<1> DEFINE N == DOMAIN cl
<1>1. N \in SUBSET Nat /\ IsFiniteSet(N) /\ N # {}  BY DEF NameSet
<1>2. PICK m \in N : \A k \in N : k <= m  BY <1>1, GreatestOfFinite
<1> DEFINE M == Max(N)
<1>3. M \in N /\ \A k \in N : M >= k
  <2>1. \E x \in N : \A y \in N : x >= y  BY <1>1, <1>2
  <2> HIDE DEF N
  <2> QED BY <2>1 DEF Max
<1>4. FreshName(cl) = 1 + M  BY DEF FreshName
<1> HIDE DEF M
<1>5. M \in Nat  BY <1>1, <1>3
<1>6. 1 + M \notin N  BY <1>3, <1>5
<1>7. 1 + M \notin Color
  <2>1. M \notin Color  BY <1>3 DEF NameSet
  <2> QED BY <1>5, <2>1, RegAllocAssumption DEF Color
<1>8. IsFiniteSet(N \cup {1 + M})  BY <1>1, FS_AddElement
<1> QED BY <1>1, <1>4, <1>5, <1>6, <1>7, <1>8 DEF NameSet

LEMMA RoutineWiden ==
    ASSUME NEW N, NEW M, N \subseteq M
    PROVE  Routine(N) \subseteq Routine(M)
<1>1. Seq(N) \subseteq Seq(M)  BY SeqWiden
<1>2. OpOver(N) \subseteq OpOver(M)  BY <1>1 DEF OpOver
<1>3. Seq(OpOver(N)) \subseteq Seq(OpOver(M))  BY <1>2, SeqWiden
<1>4. InstrOver(N) \subseteq InstrOver(M)  BY <1>3 DEF InstrOver
<1>5. Seq(InstrOver(N)) \subseteq Seq(InstrOver(M))  BY <1>4, SeqWiden
<1> QED BY <1>5 DEF Routine

\* What is in a routine, and how much of it.
LEMMA RoutineParts ==
    ASSUME NEW N, NEW cd \in Routine(N)
    PROVE  /\ InstrsOf(cd) \subseteq InstrOver(N) /\ OpsOf(cd) \subseteq OpOver(N)
           /\ IsFiniteSet(InstrsOf(cd)) /\ IsFiniteSet(OpsOf(cd)) /\ IsFiniteSet(Moves(cd))
<1>1. \A b \in Block : cd[b] \in Seq(InstrOver(N))  BY DEF Routine
<1>2. InstrsOf(cd) \subseteq InstrOver(N)  BY <1>1, RangeOf DEF InstrsOf
<1>3. \A i \in InstrsOf(cd) : i.ops \in Seq(OpOver(N))  BY <1>2 DEF InstrOver
<1>4. OpsOf(cd) \subseteq OpOver(N)  BY <1>3, RangeOf DEF OpsOf
<1>5. IsFiniteSet(InstrsOf(cd))
  <2> DEFINE T == {Range(cd[b]) : b \in Block}
  <2>1. [b \in Block |-> Range(cd[b])] \in Surjection(Block, T)  BY DEF Surjection
  <2>2. IsFiniteSet(T)  BY <2>1, FS_Surjection, RegAllocAssumption
  <2>3. \A x \in T : IsFiniteSet(x)  BY <1>1, FiniteRange
  <2> HIDE DEF T
  <2>4. IsFiniteSet(UNION T)  BY <2>2, <2>3, FS_UNION
  <2> QED BY <2>4 DEF T, InstrsOf
<1>6. IsFiniteSet(OpsOf(cd))
  <2> DEFINE T == {Range(i.ops) : i \in InstrsOf(cd)}
  <2>1. [i \in InstrsOf(cd) |-> Range(i.ops)] \in Surjection(InstrsOf(cd), T)  BY DEF Surjection
  <2>2. IsFiniteSet(T)  BY <1>5, <2>1, FS_Surjection
  <2>3. \A x \in T : IsFiniteSet(x)  BY <1>3, FiniteRange
  <2> HIDE DEF T
  <2>4. IsFiniteSet(UNION T)  BY <2>2, <2>3, FS_UNION
  <2> QED BY <2>4 DEF T, OpsOf
<1>7. IsFiniteSet(Moves(cd))
  <2> DEFINE S == {o \in OpsOf(cd) : IsMove(o)}
  <2>1. IsFiniteSet(S)  BY <1>6, FS_Subset
  <2>2. [o \in S |-> o.id] \in Surjection(S, Moves(cd))  BY DEF Surjection, Moves
  <2> HIDE DEF S
  <2> QED BY <2>1, <2>2, FS_Surjection
<1> QED BY <1>2, <1>4, <1>5, <1>6, <1>7

LEMMA FreshIdOf ==
    ASSUME NEW N, NEW cd \in Routine(N), InstrsOf(cd) # {}
    PROVE  /\ FreshId(cd) \in Nat
           /\ LET M == UNION {{i.id} \cup {o.id : o \in Range(i.ops)} : i \in InstrsOf(cd)}
              IN FreshId(cd) = 1 + Max(M) /\ Max(M) \in M /\ \A x \in M : Max(M) >= x
<1> DEFINE Of(i) == {i.id} \cup {o.id : o \in Range(i.ops)}
           T == {Of(i) : i \in InstrsOf(cd)}
           M == UNION T
<1>1. InstrsOf(cd) \subseteq InstrOver(N) /\ IsFiniteSet(InstrsOf(cd))  BY RoutineParts
<1>2. \A i \in InstrsOf(cd) : i.id \in Nat /\ i.ops \in Seq(OpOver(N))
  BY <1>1 DEF InstrOver
<1>3. \A i \in InstrsOf(cd) : Of(i) \subseteq Nat /\ IsFiniteSet(Of(i))
  <2> TAKE i \in InstrsOf(cd)
  <2>1. Range(i.ops) \subseteq OpOver(N) /\ IsFiniteSet(Range(i.ops))
    BY <1>2, RangeOf, FiniteRange
  <2> DEFINE I == {o.id : o \in Range(i.ops)}
  <2>2. [o \in Range(i.ops) |-> o.id] \in Surjection(Range(i.ops), I)  BY DEF Surjection
  <2>3. I \subseteq Nat  BY <2>1 DEF OpOver
  <2> HIDE DEF I
  <2>4. IsFiniteSet(I)  BY <2>1, <2>2, FS_Surjection
  <2>5. IsFiniteSet(I \cup {i.id})  BY <2>4, FS_AddElement
  <2>6. Of(i) = I \cup {i.id}  BY DEF I
  <2> QED BY <1>2, <2>3, <2>5, <2>6
<1> HIDE DEF Of
<1>4. [i \in InstrsOf(cd) |-> Of(i)] \in Surjection(InstrsOf(cd), T)  BY DEF Surjection
<1>5. (\A x \in T : IsFiniteSet(x)) /\ M \subseteq Nat  BY <1>3
<1>6. M # {}
  <2>1. PICK i \in InstrsOf(cd) : TRUE  OBVIOUS
  <2>2. i.id \in Of(i) /\ Of(i) \in T  BY DEF Of
  <2> QED BY <2>2
<1>7. FreshId(cd) = 1 + Max(M)  BY DEF FreshId, Of
<1> HIDE DEF T
<1>8. IsFiniteSet(T)  BY <1>1, <1>4, FS_Surjection
<1>9. IsFiniteSet(M)  BY <1>5, <1>8, FS_UNION
<1> HIDE DEF M
<1>10. PICK m \in M : \A k \in M : k <= m  BY <1>5, <1>6, <1>9, GreatestOfFinite
<1>11. \E x \in M : \A y \in M : x >= y  BY <1>5, <1>10
<1>12. Max(M) \in M /\ \A x \in M : Max(M) >= x  BY <1>11 DEF Max
<1>13. PICK x \in Nat : x = Max(M)  BY <1>5, <1>12
<1>14. FreshId(cd) \in Nat  BY <1>7, <1>13
<1> QED BY <1>7, <1>12, <1>14 DEF M, T, Of

\* Two instructions that differ in operands only.
Alike(i, j) ==
    /\ j.id = i.id /\ DOMAIN j.ops = DOMAIN i.ops
    /\ \A k \in DOMAIN i.ops : j.ops[k].id = i.ops[k].id /\ j.ops[k].kind = i.ops[k].kind
AlikeAll(cd, ce) ==
    \A b \in Block : /\ DOMAIN ce[b] = DOMAIN cd[b]
                     /\ \A k \in DOMAIN cd[b] : Alike(cd[b][k], ce[b][k])

Ids(cd) == {i.id : i \in InstrsOf(cd)}

LEMMA MovesIn ==
    ASSUME NEW cd, NEW id
    PROVE  id \in Moves(cd) <=>
             \E b \in Block : \E k \in DOMAIN cd[b] : \E j \in DOMAIN cd[b][k].ops :
                 IsMove(cd[b][k].ops[j]) /\ cd[b][k].ops[j].id = id
BY DEF Moves, OpsOf, InstrsOf, Range

LEMMA SameMoves ==
    ASSUME NEW cd, NEW ce, AlikeAll(cd, ce)
    PROVE  Moves(ce) = Moves(cd) /\ Ids(ce) = Ids(cd)
<1>1. ASSUME NEW id PROVE id \in Moves(ce) <=> id \in Moves(cd)
  BY MovesIn DEF AlikeAll, Alike, IsMove
<1>2. Ids(ce) = Ids(cd)  BY DEF AlikeAll, Alike, Ids, InstrsOf, Range
<1> QED BY <1>1, <1>2

LEMMA RenameOf ==
    ASSUME NEW N, NEW i \in InstrOver(N), NEW n, NEW m \in N, m # None
    PROVE  /\ RenameDef(i, n, m) \in InstrOver(N) /\ Alike(i, RenameDef(i, n, m))
           /\ RenameUse(i, n, m) \in InstrOver(N) /\ Alike(i, RenameUse(i, n, m))
<1>1. i.id \in Nat /\ i.ops \in Seq(OpOver(N)) /\ i = [id |-> i.id, ops |-> i.ops]
  BY DEF InstrOver
<1>2. PICK l \in Nat : l = Len(i.ops) /\ DOMAIN i.ops = 1..l /\ \A k \in 1..l : i.ops[k] \in OpOver(N)
  BY <1>1, RangeOf, ElementOfSeq
<1> DEFINE Def(o) == [o EXCEPT !.dest = IF o.dest = n THEN m ELSE o.dest]
           Src(o) == [j \in DOMAIN o.srcs |-> IF o.srcs[j] = n THEN m ELSE o.srcs[j]]
           Use(o) == [o EXCEPT !.srcs = Src(o)]
           d == [k \in 1..l |-> Def(i.ops[k])]
           u == [k \in 1..l |-> Use(i.ops[k])]
<1>3. RenameDef(i, n, m) = [i EXCEPT !.ops = d]  BY <1>2 DEF RenameDef
<1>4. RenameUse(i, n, m) = [i EXCEPT !.ops = u]  BY <1>2 DEF RenameUse
<1>5. \A o \in OpOver(N) : Def(o) \in OpOver(N) /\ Def(o).id = o.id /\ Def(o).kind = o.kind
  BY DEF OpOver, IsMove
<1>6. \A o \in OpOver(N) : Use(o) \in OpOver(N) /\ Use(o).id = o.id /\ Use(o).kind = o.kind
  <2> TAKE o \in OpOver(N)
  <2>1. o.srcs \in Seq(N)  BY DEF OpOver
  <2>2. PICK k \in Nat : k = Len(o.srcs) /\ DOMAIN o.srcs = 1..k /\ \A j \in 1..k : o.srcs[j] \in N
    BY <2>1, RangeOf, ElementOfSeq
  <2>3. Src(o) \in [1..k -> N]  BY <2>2
  <2> HIDE DEF Src
  <2>4. Src(o) \in Seq(N) /\ Len(Src(o)) = k  BY <2>3, GroupSeq
  <2>5. Use(o).id = o.id /\ Use(o).kind = o.kind /\ Use(o).srcs = Src(o)
        /\ Use(o).dest = o.dest /\ Use(o).slot = o.slot
    BY DEF OpOver
  <2>6. Use(o) \in [id : Nat, kind : {"op", "move", "store", "load"}, dest : N \cup {None},
                    srcs : Seq(N), slot : Nat]
    BY <2>4 DEF OpOver
  <2>7. IsMove(Use(o)) => Use(o).dest # None /\ Len(Use(o).srcs) = 1
    BY <2>2, <2>4, <2>5 DEF OpOver, IsMove
  <2> QED BY <2>5, <2>6, <2>7 DEF OpOver
<1>7. /\ \A k \in 1..l : d[k] = Def(i.ops[k]) /\ u[k] = Use(i.ops[k])
      /\ DOMAIN d = 1..l /\ DOMAIN u = 1..l
  OBVIOUS
<1> HIDE DEF Def, Use
<1>8. d \in [1..l -> OpOver(N)] /\ u \in [1..l -> OpOver(N)]  BY <1>2, <1>5, <1>6
<1> HIDE DEF d, u
<1>9. d \in Seq(OpOver(N)) /\ u \in Seq(OpOver(N))  BY <1>8, GroupSeq
<1>10. /\ RenameDef(i, n, m).ops = d /\ RenameDef(i, n, m).id = i.id
       /\ RenameDef(i, n, m) \in InstrOver(N)
  BY <1>1, <1>3, <1>9 DEF InstrOver
<1>11. /\ RenameUse(i, n, m).ops = u /\ RenameUse(i, n, m).id = i.id
       /\ RenameUse(i, n, m) \in InstrOver(N)
  BY <1>1, <1>4, <1>9 DEF InstrOver
<1>12. Alike(i, RenameDef(i, n, m))  BY <1>2, <1>5, <1>7, <1>10 DEF Alike
<1>13. Alike(i, RenameUse(i, n, m))  BY <1>2, <1>6, <1>7, <1>11 DEF Alike
<1> QED BY <1>10, <1>11, <1>12, <1>13

\* One instruction of a renamed routine.
NewInstr(i, defs, uses, n, m) ==
    LET d == IF i.id \in defs THEN RenameDef(i, n, m) ELSE i
    IN IF i.id \in uses THEN RenameUse(d, n, m) ELSE d

LEMMA RenamedOf ==
    ASSUME NEW N, NEW cd \in Routine(N), NEW defs, NEW uses, NEW n, NEW m \in N,
           m # None
    PROVE  /\ Renamed(cd, defs, uses, n, m) \in Routine(N)
           /\ AlikeAll(cd, Renamed(cd, defs, uses, n, m))
           /\ \A b \in Block : Len(Renamed(cd, defs, uses, n, m)[b]) = Len(cd[b])
<1> DEFINE ce == Renamed(cd, defs, uses, n, m)
           R(i) == NewInstr(i, defs, uses, n, m)
<1>1. ce = [b \in Block |-> [k \in DOMAIN cd[b] |-> R(cd[b][k])]]
  BY DEF Renamed, NewInstr
<1>2. \A i \in InstrOver(N) : R(i) \in InstrOver(N) /\ Alike(i, R(i))
  <2> TAKE i \in InstrOver(N)
  <2> DEFINE d == IF i.id \in defs THEN RenameDef(i, n, m) ELSE i
  <2>1. d \in InstrOver(N) /\ Alike(i, d)
    <3>1. Alike(i, i)  BY DEF Alike
    <3> QED BY <3>1, RenameOf
  <2> HIDE DEF d
  <2>2. RenameUse(d, n, m) \in InstrOver(N) /\ Alike(d, RenameUse(d, n, m))  BY <2>1, RenameOf
  <2>3. R(i) = IF i.id \in uses THEN RenameUse(d, n, m) ELSE d  BY DEF NewInstr, d
  <2>4. Alike(i, RenameUse(d, n, m))  BY <2>1, <2>2 DEF Alike
  <2> QED BY <2>1, <2>2, <2>3, <2>4
<1> HIDE DEF R
<1>3. ASSUME NEW b \in Block
      PROVE  /\ ce[b] \in Seq(InstrOver(N)) /\ Len(ce[b]) = Len(cd[b])
             /\ DOMAIN ce[b] = DOMAIN cd[b]
             /\ \A k \in DOMAIN cd[b] : Alike(cd[b][k], ce[b][k])
  <2>1. cd[b] \in Seq(InstrOver(N))  BY DEF Routine
  <2>2. PICK l \in Nat : l = Len(cd[b]) /\ DOMAIN cd[b] = 1..l
                         /\ \A k \in 1..l : cd[b][k] \in InstrOver(N)
    BY <2>1, RangeOf, ElementOfSeq
  <2>3. ce[b] = [k \in 1..l |-> R(cd[b][k])]  BY <1>1, <2>2
  <2>4. ce[b] \in [1..l -> InstrOver(N)] /\ \A k \in 1..l : ce[b][k] = R(cd[b][k])
    BY <1>2, <2>2, <2>3
  <2> HIDE DEF ce
  <2>5. ce[b] \in Seq(InstrOver(N)) /\ Len(ce[b]) = l  BY <2>4, GroupSeq
  <2> QED BY <1>2, <2>2, <2>4, <2>5
<1>4. ce = [b \in Block |-> ce[b]]  BY <1>1
<1> HIDE DEF ce
<1>5. ce \in Routine(N)  BY <1>3, <1>4 DEF Routine
<1> QED BY <1>3, <1>5 DEF ce, AlikeAll

-----------------------------------------------------------------------------
(* The actions *)

LEMMA EmptyOver == OnceOver(<<>>, <<>>, {}) /\ <<>> \in Seq({}) /\ Distinct(<<>>) /\ Range(<<>>) = {}
<1>1. DOMAIN <<>> = {} /\ Range(<<>>) = {}  BY DEF Range
<1>2. <<>> \in Seq({})  BY EmptySeq
<1> QED BY <1>1, <1>2 DEF OnceOver, Distinct

LEMMA ProgramIs ==
    ASSUME NEW p \in Programs
    PROVE  /\ p \in Routine(Name)
           /\ \A i \in InstrsOf(p) : \A o \in Range(i.ops) : o.kind \in {"op", "move"}
<1>1. /\ p \in [Block -> Seq(Instrs)]
      /\ \A b \in Block : \A i \in Range(p[b]) : \A o \in Range(i.ops) :
           IsMove(o) => o.dest # None /\ Len(o.srcs) = 1
  BY ProgramsAssumption DEF OpsOf, InstrsOf
<1>2. ASSUME NEW b \in Block, NEW i \in Range(p[b])
      PROVE  i \in Instrs /\ i.ops \in Seq(Ops) /\ Range(i.ops) \subseteq Ops
  <2>1. p[b] \in Seq(Instrs)  BY <1>1
  <2>2. i \in Instrs  BY <2>1, RangeOf
  <2>3. i.ops \in Seq(Ops)  BY <2>2 DEF Instrs
  <2> QED BY <2>2, <2>3, RangeOf
<1>3. ASSUME NEW b \in Block PROVE p[b] \in Seq(InstrOver(Name))
  <2>1. p[b] \in Seq(Instrs)  BY <1>1
  <2>2. ASSUME NEW i \in Range(p[b]) PROVE i \in InstrOver(Name)
    <3>1. Range(i.ops) \subseteq OpOver(Name)  BY <1>1, <1>2 DEF Ops, OpOver
    <3>2. i.ops \in Seq(OpOver(Name))  BY <1>2, <3>1, SeqWithin
    <3> QED BY <1>2, <3>2 DEF Instrs, InstrOver
  <2> QED BY <2>1, <2>2, SeqWithin
<1>4. \A i \in InstrsOf(p) : \A o \in Range(i.ops) : o.kind \in {"op", "move"}
  BY <1>2 DEF InstrsOf, Ops
<1> QED BY <1>1, <1>3, <1>4 DEF Routine

LEMMA InitHolds == ASSUME Init PROVE IInv
<1>1. Names = Name  BY DEF Init, Names, Name
<1>2. NameSet(Name)  BY RegAllocAssumption DEF NameSet
<1>3. code \in Routine(Name)  BY ProgramIs DEF Init
<1>4. Named  BY <1>1, <1>2, <1>3 DEF Named, Init
<1>5. mc = <<>> /\ color = <<>> /\ nodes = <<>> /\ nodeStack = <<>> /\ nodesToSpill = <<>>
  BY DEF Init
<1>6. DOMAIN <<>> = {}  OBVIOUS
<1>7. Listed  BY <1>5, <1>6, EmptyOver DEF Listed
<1>8. Phases /\ MovesToCome /\ Barred /\ SelectedRight
  BY <1>5, <1>6 DEF Init, Phases, MovesToCome, Barred, SelectedRight
<1> QED BY <1>4, <1>7, <1>8 DEF IInv

LEMMA UnchangedHolds == ASSUME IInv, UNCHANGED vars PROVE IInv'
BY DEF vars, IInv, Named, Listed, Phases, MovesToCome, Barred, SelectedRight, Names, Coloured

LEMMA RestartHolds == ASSUME IInv, Restart PROVE IInv'
<1> USE DEF IInv, Restart
<1>1. Named'  BY DEF Named, Names
<1>2. Listed'  BY DEF Listed, Names
<1>3. Phases' /\ MovesToCome' /\ SelectedRight'  BY DEF Phases, MovesToCome, SelectedRight
<1>4. Barred'  BY DEF Barred
<1> QED BY <1>1, <1>2, <1>3, <1>4

LEMMA BuildHolds == ASSUME IInv, Build PROVE IInv'
<1> USE DEF IInv, Build
<1>1. Named'  BY DEF Named, Names
<1>2. Listed'  BY DEF Listed, Names
<1>3. Phases' /\ MovesToCome' /\ SelectedRight'  BY DEF Phases, MovesToCome, SelectedRight
<1>4. Barred'  BY DEF Barred
<1> QED BY <1>1, <1>2, <1>3, <1>4

LEMMA UnmarkedOf ==
    ASSUME NEW N, NEW cd \in Routine(N)
    PROVE  Unmarked(cd) \in Routine(N)
<1> DEFINE Left(i) == [i EXCEPT !.ops = Kept(i.ops, {o \in Range(i.ops) : o.id \notin marked})]
           left(b) == [k \in DOMAIN cd[b] |-> Left(cd[b][k])]
           new(b) == Kept(left(b), {i \in Range(left(b)) : i.ops # <<>>})
<1>1. Unmarked(cd) = [b \in Block |-> new(b)]  BY DEF Unmarked
<1>2. ASSUME NEW i \in InstrOver(N) PROVE Left(i) \in InstrOver(N)
  <2>1. i.id \in Nat /\ i.ops \in Seq(OpOver(N))  BY DEF InstrOver
  <2>2. Kept(i.ops, {o \in Range(i.ops) : o.id \notin marked}) \in Seq(OpOver(N))
    BY <2>1, KeptMembers
  <2> QED BY <2>1, <2>2 DEF InstrOver
<1> HIDE DEF Left
<1>3. ASSUME NEW b \in Block PROVE new(b) \in Seq(InstrOver(N))
  <2>1. cd[b] \in Seq(InstrOver(N))  BY DEF Routine
  <2>2. PICK l \in Nat : l = Len(cd[b]) /\ DOMAIN cd[b] = 1..l
                         /\ \A k \in 1..l : cd[b][k] \in InstrOver(N)
    BY <2>1, RangeOf, ElementOfSeq
  <2>3. left(b) \in [1..l -> InstrOver(N)]  BY <1>2, <2>2
  <2> HIDE DEF left
  <2>4. left(b) \in Seq(InstrOver(N))  BY <2>3, GroupSeq
  <2> QED BY <2>4, KeptMembers
<1> HIDE DEF new
<1> QED BY <1>1, <1>3 DEF Routine

LEMMA DeleteHolds == ASSUME IInv, DeleteUselessIR PROVE IInv'
<1> USE DEF IInv, DeleteUselessIR
<1>1. Named'  BY UnmarkedOf DEF Named, Names
<1>2. Listed'  BY DEF Listed, Names
<1>3. Phases' /\ MovesToCome' /\ SelectedRight'  BY DEF Phases, MovesToCome, SelectedRight
<1>4. Barred'  BY DEF Barred
<1> QED BY <1>1, <1>2, <1>3, <1>4

\* Two neighbours, and the move that merges them.
LEMMA MoveOver ==
    ASSUME Named, NEW i \in InstrsOf(code), NEW o \in Range(i.ops)
    PROVE  /\ o \in OpOver(Names) /\ o \in OpsOf(code) /\ i.id \in Nat
           /\ IsMove(o) => Head(o.srcs) \in Names /\ o.id \in Moves(code)
<1>1. InstrsOf(code) \subseteq InstrOver(Names) /\ OpsOf(code) \subseteq OpOver(Names)
  BY RoutineParts DEF Named
<1>2. i \in InstrOver(Names)  BY <1>1
<1>3. o \in OpsOf(code)  BY DEF OpsOf
<1>4. o \in OpOver(Names) /\ i.id \in Nat  BY <1>1, <1>2, <1>3 DEF InstrOver
<1>5. ASSUME IsMove(o) PROVE Head(o.srcs) \in Names /\ o.id \in Moves(code)
  <2>1. o.srcs \in Seq(Names) /\ Len(o.srcs) = 1  BY <1>4, <1>5 DEF OpOver
  <2>2. Head(o.srcs) \in Names  BY <2>1, HeadTailProperties, EmptySeq
  <2> QED BY <1>3, <1>5, <2>2 DEF Moves
<1> QED BY <1>3, <1>4, <1>5

LEMMA CoalesceHolds ==
    ASSUME IInv, CoalesceOper
    PROVE  /\ IInv'
           /\ DOMAIN mc' # DOMAIN mc =>
                \E o \in OpsOf(code) :
                   /\ o.id \in Moves(code) \ marked /\ marked' = marked \cup {o.id}
                   /\ Moves(code') = Moves(code)
                   /\ \E use : \A n \in DOMAIN mc' : n = use \/ mc'[n] = mc[n]
                   /\ DOMAIN mc' \subseteq DOMAIN mc
<1> USE DEF IInv
<1>1. /\ phase = "coalesce" /\ pending # {}
      /\ UNCHANGED <<original, class, nodeStack, nodesToSpill, slots, phase>>
  BY DEF CoalesceOper
<1>2. PICK i \in InstrsOf(code) : \E o \in Range(i.ops) :
         /\ IsMove(o) /\ o.id \in pending /\ o = FirstOf(pending, code)
         /\ \/ /\ o.dest = Head(o.srcs)
               /\ RemoveMove(o.dest, i.id)
               /\ marked' = marked \cup {o.id}
            \/ /\ o.dest # Head(o.srcs) /\ CanCoalesce(Head(o.srcs), o.dest)
               /\ Coalesce(o.dest, Head(o.srcs), i.id)
               /\ marked' = marked \cup {o.id}
            \/ /\ o.dest # Head(o.srcs) /\ ~CanCoalesce(Head(o.srcs), o.dest)
               /\ UNCHANGED <<code, mc, color, edges, nodes, marked>>
         /\ pending' = pending \ {o.id}
  BY DEF CoalesceOper
<1>3. PICK o \in Range(i.ops) :
         /\ IsMove(o) /\ o.id \in pending /\ o = FirstOf(pending, code)
         /\ \/ /\ o.dest = Head(o.srcs)
               /\ RemoveMove(o.dest, i.id)
               /\ marked' = marked \cup {o.id}
            \/ /\ o.dest # Head(o.srcs) /\ CanCoalesce(Head(o.srcs), o.dest)
               /\ Coalesce(o.dest, Head(o.srcs), i.id)
               /\ marked' = marked \cup {o.id}
            \/ /\ o.dest # Head(o.srcs) /\ ~CanCoalesce(Head(o.srcs), o.dest)
               /\ UNCHANGED <<code, mc, color, edges, nodes, marked>>
         /\ pending' = pending \ {o.id}
  BY <1>2
<1>4. /\ o \in OpOver(Names) /\ o \in OpsOf(code) /\ Head(o.srcs) \in Names
      /\ o.id \in Moves(code) \ marked
  BY <1>3, MoveOver DEF MovesToCome
<1>5. o.dest \notin Color
  <2>1. o.dest \in Names \cup {None}  BY <1>4 DEF OpOver
  <2>2. None \notin Color  BY RegAllocAssumption DEF None, Color
  <2> QED BY <2>1, <2>2 DEF Named, NameSet
<1>6. Phases' /\ SelectedRight'  BY <1>1 DEF Phases, SelectedRight
<1>7. CASE o.dest = Head(o.srcs) /\ RemoveMove(o.dest, i.id) /\ marked' = marked \cup {o.id}
  <2>1. DOMAIN mc' = DOMAIN mc /\ UNCHANGED <<code, color, edges, nodes>>
    BY <1>7 DEF RemoveMove
  <2>2. Named' /\ Listed'  BY <1>1, <2>1 DEF Named, Listed, Names
  <2>3. MovesToCome'  BY <1>3, <1>7, <2>1 DEF MovesToCome
  <2>4. Barred'  BY <1>1, <2>1 DEF Barred
  <2> QED BY <1>6, <2>1, <2>2, <2>3, <2>4
<1>8. CASE /\ o.dest # Head(o.srcs) /\ ~CanCoalesce(Head(o.srcs), o.dest)
           /\ UNCHANGED <<code, mc, color, edges, nodes, marked>>
  <2>1. Named' /\ Listed'  BY <1>1, <1>8 DEF Named, Listed, Names
  <2>2. MovesToCome'  BY <1>3, <1>8 DEF MovesToCome
  <2>3. Barred'  BY <1>1, <1>8 DEF Barred
  <2> QED BY <1>6, <1>8, <2>1, <2>2, <2>3
<1>9. ASSUME o.dest # Head(o.srcs), Coalesce(o.dest, Head(o.srcs), i.id),
             marked' = marked \cup {o.id}
      PROVE  /\ IInv'
             /\ Moves(code') = Moves(code)
             /\ DOMAIN mc' # DOMAIN mc =>
                  /\ \E use : \A n \in DOMAIN mc' : n = use \/ mc'[n] = mc[n]
                  /\ DOMAIN mc' \subseteq DOMAIN mc
  <2> DEFINE def == o.dest
             use == Head(o.srcs)
  <2>1. /\ code' = Renamed(code, mc[def].defs, mc[def].uses, def, use)
        /\ mc' = [n \in DOMAIN mc \ {def} |->
                    IF n = use THEN Joined(def, use, code', i.id) ELSE mc[n]]
        /\ color' = [n \in DOMAIN color \ {def} |-> color[n]]
        /\ edges' = EdgesMoved(def, use)
        /\ nodes' = Without(nodes, def)
    BY <1>9 DEF Coalesce
  <2> HIDE DEF def, use
  <2>2. use \in Names /\ def \notin Color /\ def # use /\ use # None
    BY <1>4, <1>5, <1>9 DEF def, use, Named, NameSet, None
  <2>3. code' \in Routine(Names) /\ AlikeAll(code, code')
    BY <2>1, <2>2, RenamedOf DEF Named
  <2>4. Moves(code') = Moves(code)  BY <2>3, SameMoves
  <2>5. Named'  BY <1>1, <2>3 DEF Named, Names
  <2>6. DOMAIN mc' = DOMAIN mc \ {def} /\ DOMAIN color' = DOMAIN mc \ {def}
    BY <2>1 DEF Listed
  <2>7. Listed'
    <3>1. /\ nodes \in Seq(DOMAIN mc) /\ Distinct(nodes) /\ Range(nodes) = DOMAIN mc
          /\ nodeStack = <<>> /\ nodesToSpill = <<>>
      BY <1>1, EmptyOver DEF Listed, OnceOver, Phases
    <3>2. /\ nodes' \in Seq(DOMAIN mc) /\ Range(nodes') = DOMAIN mc' /\ Distinct(nodes')
      BY <2>1, <2>6, <3>1, WithoutOf
    <3>3. nodes' \in Seq(DOMAIN mc')  BY <3>2, SeqWithin
    <3>4. <<>> \in Seq(DOMAIN mc')  BY EmptySeq
    <3>5. OnceOver(nodes', <<>>, DOMAIN mc')  BY <3>2, <3>3, <3>4, EmptyOver DEF OnceOver
    <3> QED BY <1>1, <2>6, <3>1, <3>4, <3>5, EmptyOver DEF Listed, Names
  <2>8. MovesToCome'  BY <1>3, <1>9, <2>4 DEF MovesToCome
  <2>9. Barred'
    <3> SUFFICES ASSUME NEW n \in DOMAIN mc', NEW r \in Color \ class'[n]
                 PROVE  {n, r} \in edges'
      BY DEF Barred
    <3>1. {n, r} \in edges  BY <1>1, <2>6 DEF Barred
    <3>2. def \notin {n, r}  BY <2>2, <2>6
    <3> QED BY <2>1, <3>1, <3>2 DEF EdgesMoved
  <2>10. DOMAIN mc' # DOMAIN mc => \E u : \A n \in DOMAIN mc' : n = u \/ mc'[n] = mc[n]
    BY <2>1
  <2> QED BY <1>6, <2>4, <2>5, <2>6, <2>7, <2>8, <2>9, <2>10
<1> QED BY <1>3, <1>4, <1>7, <1>8, <1>9

LEMMA OperandsIn ==
    ASSUME NEW N, NEW cd \in Routine(N), None \notin N
    PROVE  Operands(cd) \subseteq N
<1>1. OpsOf(cd) \subseteq OpOver(N)  BY RoutineParts
<1>2. ASSUME NEW i \in InstrsOf(cd), NEW n \in Defs(i) \cup Uses(i) PROVE n \in N
  <2>1. \A o \in Range(i.ops) : o \in OpOver(N)  BY <1>1 DEF OpsOf
  <2>2. \A o \in Range(i.ops) : o.dest \in N \cup {None} /\ o.srcs \in Seq(N)
    BY <2>1 DEF OpOver
  <2>3. \A o \in Range(i.ops) : Range(o.srcs) \subseteq N  BY <2>2, RangeOf
  <2> QED BY <2>2, <2>3 DEF Defs, Uses
<1> QED BY <1>2 DEF Operands

LEMMA ChainsHolds == ASSUME IInv, Chains PROVE IInv'
<1> USE DEF IInv
<1> DEFINE names == Operands(code)
<1>1. /\ phase = "chains" /\ phase' = "build"
      /\ UNCHANGED <<original, code, class, pending, marked, nodeStack, nodesToSpill, slots>>
      /\ \E args : nodes' \in InOrderOf(names, args)
      /\ DOMAIN mc' = names /\ DOMAIN color' = names
      /\ edges' = UNION {ArchEdges(n, class[n]) : n \in names}
  BY DEF Chains
<1>2. names \subseteq Names /\ IsFiniteSet(names)
  <2>1. None \notin Names  BY DEF Named, NameSet, None
  <2>2. names \subseteq Names  BY <2>1, OperandsIn DEF Named
  <2> QED BY <2>2, FS_Subset DEF Named, NameSet
<1> HIDE DEF names
<1>3. nodes' \in Seq(names) /\ Distinct(nodes') /\ Range(nodes') = names
  <2>1. PICK c \in Nat : c = Cardinality(names)  BY <1>2, FS_CardinalityType
  <2>2. nodes' \in Bijection(1..c, names)  BY <1>1, <2>1 DEF InOrderOf
  <2>3. nodes' \in [1..c -> names] /\ nodes' \in Injection(1..c, names)
        /\ nodes' \in Surjection(1..c, names)
    BY <2>2 DEF Bijection, Injection, Surjection
  <2>4. nodes' \in Seq(names)  BY <2>3, GroupSeq
  <2>5. Distinct(nodes')  BY <2>3 DEF Injection, IsInjective, Distinct
  <2>6. Range(nodes') = names  BY <2>3 DEF Surjection, Range
  <2> QED BY <2>4, <2>5, <2>6
<1>4. nodeStack = <<>> /\ nodesToSpill = <<>>  BY <1>1 DEF Phases
<1>5. <<>> \in Seq(names)  BY EmptySeq
<1>6. Listed'
  <2>1. OnceOver(nodes', <<>>, names)  BY <1>3, <1>5, EmptyOver DEF OnceOver
  <2> QED BY <1>1, <1>2, <1>4, <1>5, <2>1, EmptyOver DEF Listed, Names
<1>7. Named'  BY <1>1 DEF Named, Names
<1>8. Phases' /\ MovesToCome' /\ SelectedRight'
  BY <1>1 DEF Phases, MovesToCome, SelectedRight
<1>9. Barred'  BY <1>1 DEF Barred, ArchEdges
<1> QED BY <1>6, <1>7, <1>8, <1>9

\* A multichain moves from the graph to the stack, or from the stack to the graph.
LEMMA Pushed ==
    ASSUME NEW N, NEW ns, NEW stack, OnceOver(ns, stack, N), NEW n \in Range(ns)
    PROVE  /\ OnceOver(Without(ns, n), Append(stack, n), N)
           /\ Range(Without(ns, n)) = Range(ns) \ {n}
<1>1. /\ ns \in Seq(N) /\ stack \in Seq(N) /\ Distinct(ns) /\ Distinct(stack)
      /\ Range(ns) \cap Range(stack) = {} /\ Range(ns) \cup Range(stack) = N
  BY DEF OnceOver
<1>2. n \in N /\ n \notin Range(stack)  BY <1>1
<1>3. /\ Without(ns, n) \in Seq(N) /\ Range(Without(ns, n)) = Range(ns) \ {n}
      /\ Distinct(Without(ns, n))
  BY <1>1, WithoutOf
<1>4. /\ Append(stack, n) \in Seq(N) /\ Range(Append(stack, n)) = Range(stack) \cup {n}
      /\ Distinct(Append(stack, n))
  BY <1>1, <1>2, Appended
<1> QED BY <1>1, <1>3, <1>4 DEF OnceOver

LEMMA PutBack ==
    ASSUME NEW N, NEW ns, NEW stack, OnceOver(ns, stack, N), stack # <<>>
    PROVE  /\ OnceOver(Append(ns, Last(stack)), Front(stack), N)
           /\ Range(Append(ns, Last(stack))) = Range(ns) \cup {Last(stack)}
           /\ Last(stack) \in N /\ Last(stack) \notin Range(ns)
           /\ (Len(stack) > 1 <=> Front(stack) # <<>>)
<1>1. /\ ns \in Seq(N) /\ stack \in Seq(N) /\ Distinct(ns) /\ Distinct(stack)
      /\ Range(ns) \cap Range(stack) = {} /\ Range(ns) \cup Range(stack) = N
  BY DEF OnceOver
<1>2. /\ Last(stack) \in Range(stack) /\ Front(stack) \in Seq(N) /\ Distinct(Front(stack))
      /\ Range(Front(stack)) = Range(stack) \ {Last(stack)}
      /\ (Len(stack) > 1 <=> Front(stack) # <<>>)
  BY <1>1, Popped
<1>3. Last(stack) \in N /\ Last(stack) \notin Range(ns)  BY <1>1, <1>2
<1>4. /\ Append(ns, Last(stack)) \in Seq(N) /\ Distinct(Append(ns, Last(stack)))
      /\ Range(Append(ns, Last(stack))) = Range(ns) \cup {Last(stack)}
  BY <1>1, <1>3, Appended
<1> QED BY <1>1, <1>2, <1>3, <1>4 DEF OnceOver

\* A pass of the simplification, node by node.
LowStep(limit, k, acc) ==
    IF Degree(nodes[k], acc.nodes) < limit
    THEN [nodes |-> Without(acc.nodes, nodes[k]), stack |-> Append(acc.stack, nodes[k])]
    ELSE acc

LEMMA LowSteps ==
    ASSUME NEW limit, Len(nodes) \in Nat
    PROVE  \E f : /\ f[0] = [nodes |-> nodes, stack |-> nodeStack]
                  /\ LowDegree(limit) = f[Len(nodes)]
                  /\ \A k \in 1..Len(nodes) : f[k] = LowStep(limit, k, f[k - 1])
<1>1. PICK n \in Nat : n = Len(nodes)  OBVIOUS
<1> DEFINE W(k, f) == IF k = 0 THEN [nodes |-> nodes, stack |-> nodeStack]
                      ELSE LowStep(limit, k, f[k - 1])
           Goes(k, f) == f = [j \in 0..k |-> W(j, f)]
           G == {k \in 0..n : \E f : Goes(k, f)}
<1>2. 0 \in G
  <2> DEFINE f == [j \in 0..0 |-> [nodes |-> nodes, stack |-> nodeStack]]
  <2>1. Goes(0, f)  OBVIOUS
  <2> HIDE DEF Goes, f
  <2> QED BY <2>1
<1>3. ASSUME NEW k \in 1..n, k - 1 \in G PROVE k \in G
  <2>1. PICK f : Goes(k - 1, f)  BY <1>3
  <2> DEFINE g == [j \in 0..k |-> IF j = k THEN W(k, f) ELSE f[j]]
  <2>2. \A j \in 0..k : j # k => j \in 0..(k - 1) /\ (j # 0 => j - 1 \in 0..k /\ j - 1 # k)
    OBVIOUS
  <2>3. k # 0 /\ k - 1 \in 0..k /\ k - 1 # k  OBVIOUS
  <2>4. \A j \in 0..k : g[j] = W(j, g)
    <3> TAKE j \in 0..k
    <3>1. CASE j = k  BY <2>3, <3>1
    <3>2. CASE j # k
      <4>1. g[j] = W(j, f)  BY <2>1, <2>2, <3>2
      <4> QED BY <2>2, <3>2, <4>1
    <3> QED BY <3>1, <3>2
  <2>5. Goes(k, g)
    <3> HIDE DEF W
    <3> QED BY <2>4
  <2> HIDE DEF Goes, g
  <2> QED BY <2>5
<1>4. n \in G
  <2>1. n \in 0..n  OBVIOUS
  <2> HIDE DEF G
  <2>2. 0..n \subseteq G  BY <1>2, <1>3, Upwards
  <2> QED BY <2>1, <2>2
<1> DEFINE h == CHOOSE f : Goes(n, f)
<1>5. Goes(n, h)
  <2>1. \E f : Goes(n, f)  BY <1>4
  <2> HIDE DEF Goes
  <2> QED BY <2>1
<1>6. LowDegree(limit) = h[n]  BY <1>1 DEF LowDegree, LowStep
<1> HIDE DEF h
<1>7. \A k \in 0..n : h[k] = W(k, h)
  <2> HIDE DEF W
  <2> QED BY <1>5
<1>8. h[0] = [nodes |-> nodes, stack |-> nodeStack]
      /\ \A k \in 1..n : h[k] = LowStep(limit, k, h[k - 1])
  <2>1. 0 \in 0..n /\ \A k \in 1..n : k \in 0..n /\ k # 0  OBVIOUS
  <2> QED BY <1>7, <2>1
<1> QED BY <1>1, <1>6, <1>8

LEMMA LowDegreeOf ==
    ASSUME NEW N, OnceOver(nodes, nodeStack, N), NEW limit
    PROVE  OnceOver(LowDegree(limit).nodes, LowDegree(limit).stack, N)
<1>1. nodes \in Seq(N) /\ Distinct(nodes)  BY DEF OnceOver
<1>2. PICK n \in Nat : n = Len(nodes) /\ DOMAIN nodes = 1..n  BY <1>1, RangeOf
<1>3. PICK h : /\ h[0] = [nodes |-> nodes, stack |-> nodeStack] /\ LowDegree(limit) = h[n]
               /\ \A k \in 1..n : h[k] = LowStep(limit, k, h[k - 1])
  BY <1>2, LowSteps
<1> DEFINE G == {k \in 0..n : /\ OnceOver(h[k].nodes, h[k].stack, N)
                              /\ \A j \in 1..n : j > k => nodes[j] \in Range(h[k].nodes)}
<1>4. 0 \in G
  <2>1. \A j \in 1..n : nodes[j] \in Range(nodes)  BY <1>2 DEF Range
  <2> QED BY <1>3, <2>1
<1>5. ASSUME NEW k \in 1..n, k - 1 \in G PROVE k \in G
  <2> DEFINE acc == h[k - 1]
  <2>1. /\ OnceOver(acc.nodes, acc.stack, N) /\ nodes[k] \in Range(acc.nodes)
        /\ \A j \in 1..n : j > k => nodes[j] \in Range(acc.nodes) /\ nodes[j] # nodes[k]
    <3>1. \A j \in 1..n : j > k => j > k - 1 /\ j # k  OBVIOUS
    <3>2. k > k - 1  OBVIOUS
    <3> QED BY <1>1, <1>2, <1>5, <3>1, <3>2 DEF Distinct
  <2>2. h[k] = LowStep(limit, k, acc) /\ k \in 0..n  BY <1>3
  <2> HIDE DEF acc
  <2>3. CASE Degree(nodes[k], acc.nodes) < limit
    <3>1. h[k].nodes = Without(acc.nodes, nodes[k]) /\ h[k].stack = Append(acc.stack, nodes[k])
      BY <2>2, <2>3 DEF LowStep
    <3>2. OnceOver(h[k].nodes, h[k].stack, N) /\ Range(h[k].nodes) = Range(acc.nodes) \ {nodes[k]}
      BY <2>1, <3>1, Pushed
    <3> QED BY <2>1, <2>2, <3>2
  <2>4. CASE ~(Degree(nodes[k], acc.nodes) < limit)
    <3>1. h[k] = acc  BY <2>2, <2>4 DEF LowStep
    <3> QED BY <2>1, <2>2, <3>1
  <2> QED BY <2>3, <2>4
<1>6. n \in G
  <2>1. n \in 0..n  OBVIOUS
  <2> HIDE DEF G
  <2>2. 0..n \subseteq G  BY <1>4, <1>5, Upwards
  <2> QED BY <2>1, <2>2
<1> QED BY <1>3, <1>6

LEMMA SimplifyHolds == ASSUME IInv, Simplify PROVE IInv'
<1> USE DEF IInv
<1>1. /\ phase = "simplify"
      /\ UNCHANGED <<original, code, mc, class, edges, pending, marked, nodesToSpill, color,
                     slots, phase>>
      /\ \/ nodes' = LowDegree(NumColors).nodes /\ nodeStack' = LowDegree(NumColors).stack
         \/ \E n \in Range(nodes) : nodes' = Without(nodes, n) /\ nodeStack' = Append(nodeStack, n)
  BY DEF Simplify
<1>2. OnceOver(nodes', nodeStack', DOMAIN mc)
  <2>1. OnceOver(nodes, nodeStack, DOMAIN mc)  BY DEF Listed
  <2>2. OnceOver(LowDegree(NumColors).nodes, LowDegree(NumColors).stack, DOMAIN mc)
    BY <2>1, LowDegreeOf
  <2>3. \A n \in Range(nodes) : OnceOver(Without(nodes, n), Append(nodeStack, n), DOMAIN mc)
    BY <2>1, Pushed
  <2> QED BY <1>1, <2>2, <2>3
<1>3. nodesToSpill = <<>>  BY <1>1 DEF Phases
<1>4. Listed'  BY <1>1, <1>2, <1>3, EmptyOver DEF Listed, Names
<1>5. Named'  BY <1>1 DEF Named, Names
<1>6. Phases' /\ MovesToCome' /\ SelectedRight'
  BY <1>1 DEF Phases, MovesToCome, SelectedRight
<1>7. Barred'  BY <1>1 DEF Barred
<1> QED BY <1>4, <1>5, <1>6, <1>7

\* What is free for a name will do for it, and no neighbour in the graph has it.
LEMMA FreeForIt ==
    ASSUME Barred, Listed, NameSet(Names), NEW n \in DOMAIN mc, FreeColors(n) # {}
    PROVE  /\ Max(FreeColors(n)) \in class[n] /\ Max(FreeColors(n)) \in Color
           /\ \A m \in Range(nodes) : m # n /\ {n, m} \in edges => color[m] # Max(FreeColors(n))
<1> DEFINE F == FreeColors(n)
<1>1. n \notin Color /\ \A m \in Range(nodes) : m \notin Color
  BY DEF Listed, OnceOver, NameSet
<1>2. F = Color \ {ColorOf(m) : m \in Neighbours(n, nodes)}  BY DEF FreeColors
<1>3. F \subseteq Color /\ F \subseteq class[n]
  <2> SUFFICES ASSUME NEW r \in Color, r \notin class[n] PROVE r \notin F
    BY <1>2
  <2>1. {n, r} \in edges /\ r # n  BY <1>1 DEF Barred
  <2>2. r \in Neighbours(n, nodes) /\ ColorOf(r) = r  BY <2>1 DEF Neighbours, ColorOf
  <2> QED BY <1>2, <2>2
<1>4. ASSUME NEW m \in Range(nodes), m # n, {n, m} \in edges PROVE color[m] \notin F
  <2>1. m \in Neighbours(n, nodes)  BY <1>4 DEF Neighbours
  <2>2. ColorOf(m) = color[m]  BY <1>1 DEF ColorOf
  <2> QED BY <1>2, <2>1, <2>2
<1>5. Max(F) \in F
  <2>1. NumColors \in Nat  BY RegAllocAssumption
  <2>2. IsFiniteSet(Color) /\ Color \subseteq Nat  BY <2>1, FS_Interval DEF Color
  <2>3. IsFiniteSet(F) /\ F \in SUBSET Nat /\ F # {}  BY <1>3, <2>2, FS_Subset
  <2> HIDE DEF F
  <2>4. PICK m \in F : \A k \in F : k <= m  BY <2>3, GreatestOfFinite
  <2>5. \E x \in F : \A y \in F : x >= y  BY <2>3, <2>4
  <2> QED BY <2>5 DEF Max
<1> QED BY <1>3, <1>4, <1>5

LEMMA SelectHolds == ASSUME IInv, Select PROVE IInv'
<1> USE DEF IInv
<1> DEFINE n == Last(nodeStack)
<1>1. /\ phase \in {"simplify", "select"} /\ nodeStack # <<>>
      /\ phase = "simplify" => nodes = <<>>
      /\ nodeStack' = Front(nodeStack) /\ nodes' = Append(nodes, n)
      /\ IF FreeColors(n) = {}
         THEN nodesToSpill' = Append(nodesToSpill, n) /\ UNCHANGED color
         ELSE /\ color' = [color EXCEPT ![n] = Max(FreeColors(n))]
              /\ UNCHANGED nodesToSpill
      /\ phase' = IF Len(nodeStack) > 1 THEN "select"
                  ELSE IF nodesToSpill' = <<>> THEN "done" ELSE "spill"
      /\ UNCHANGED <<original, code, mc, class, edges, pending, marked, slots>>
  BY DEF Select
<1> HIDE DEF n
<1>2. /\ OnceOver(nodes', nodeStack', DOMAIN mc) /\ Range(nodes') = Range(nodes) \cup {n}
      /\ n \in DOMAIN mc /\ n \notin Range(nodes)
      /\ (Len(nodeStack) > 1 <=> nodeStack' # <<>>)
  <2>1. OnceOver(nodes, nodeStack, DOMAIN mc)  BY DEF Listed
  <2>2. /\ OnceOver(Append(nodes, n), Front(nodeStack), DOMAIN mc)
        /\ Range(Append(nodes, n)) = Range(nodes) \cup {n}
        /\ n \in DOMAIN mc /\ n \notin Range(nodes)
        /\ (Len(nodeStack) > 1 <=> Front(nodeStack) # <<>>)
    BY <1>1, <2>1, PutBack DEF n
  <2> QED BY <1>1, <2>2
<1>3. /\ nodesToSpill \in Seq(DOMAIN mc) /\ Distinct(nodesToSpill)
      /\ Range(nodesToSpill) \subseteq Range(nodes) /\ DOMAIN mc \subseteq Names
      /\ DOMAIN color = DOMAIN mc
  BY DEF Listed
<1>4. /\ nodesToSpill' \in Seq(DOMAIN mc) /\ Distinct(nodesToSpill')
      /\ Range(nodesToSpill') = Range(nodesToSpill) \cup (IF FreeColors(n) = {} THEN {n} ELSE {})
  <2>1. CASE FreeColors(n) = {}
    <3>1. /\ Append(nodesToSpill, n) \in Seq(DOMAIN mc) /\ Distinct(Append(nodesToSpill, n))
          /\ Range(Append(nodesToSpill, n)) = Range(nodesToSpill) \cup {n}
      BY <1>2, <1>3, Appended
    <3> QED BY <1>1, <2>1, <3>1
  <2>2. CASE FreeColors(n) # {}  BY <1>1, <1>3, <2>2
  <2> QED BY <2>1, <2>2
<1>5. Listed'
  <2>1. DOMAIN color' = DOMAIN color  BY <1>1
  <2> QED BY <1>1, <1>2, <1>3, <1>4, <2>1 DEF Listed, Names
<1>6. Named' /\ Barred'  BY <1>1 DEF Named, Names, Barred
<1>7. Phases' /\ MovesToCome'  BY <1>1, <1>2 DEF Phases, MovesToCome
<1>8. SelectedRight'
  <2>1. \A m \in Coloured :
            /\ color[m] \in class[m] /\ color[m] \in Color
            /\ \A l \in Coloured : l # m /\ {m, l} \in edges => color[m] # color[l]
    <3>1. CASE phase = "simplify"  BY <1>1, <3>1, EmptyOver DEF Coloured
    <3>2. CASE phase = "select"  BY <3>2 DEF SelectedRight
    <3> QED BY <1>1, <3>1, <3>2
  <2>2. CASE FreeColors(n) = {}
    <3>1. Coloured' = Coloured /\ UNCHANGED <<color, class, edges>>
      BY <1>1, <1>2, <1>3, <1>4, <2>2 DEF Coloured
    <3> QED BY <2>1, <3>1 DEF SelectedRight
  <2>3. CASE FreeColors(n) # {}
    <3>1. Coloured' = Coloured \cup {n} /\ n \notin Coloured /\ Coloured \subseteq Range(nodes)
      BY <1>2, <1>3, <1>4, <2>3 DEF Coloured
    <3> DEFINE c == Max(FreeColors(n))
    <3>2. /\ c \in class[n] /\ c \in Color
          /\ \A m \in Range(nodes) : m # n /\ {n, m} \in edges => color[m] # c
      BY <1>2, <2>3, FreeForIt DEF Named
    <3>3. UNCHANGED <<class, edges>> /\ color'[n] = c /\ \A m \in Coloured : color'[m] = color[m]
      <4>1. UNCHANGED <<class, edges>> /\ color' = [color EXCEPT ![n] = c]  BY <1>1, <2>3
      <4> HIDE DEF c
      <4>2. color'[n] = c  BY <1>2, <1>3, <4>1
      <4>3. \A m \in Coloured : m \in DOMAIN color /\ m # n
        <5>1. nodes \in Seq(DOMAIN mc)  BY DEF Listed, OnceOver
        <5>2. Range(nodes) \subseteq DOMAIN mc  BY <5>1, RangeOf
        <5> QED BY <1>3, <3>1, <5>2
      <4> QED BY <4>1, <4>2, <4>3
    <3> HIDE DEF c
    <3>4. ASSUME NEW m \in Coloured' PROVE color'[m] \in class'[m] /\ color'[m] \in Color
      BY <2>1, <3>1, <3>2, <3>3
    <3>5. ASSUME NEW m \in Coloured', NEW l \in Coloured', l # m, {m, l} \in edges'
          PROVE  color'[m] # color'[l]
      <4>1. CASE m \in Coloured /\ l \in Coloured  BY <2>1, <3>3, <3>5, <4>1
      <4>2. CASE m = n /\ l \in Coloured  BY <3>1, <3>2, <3>3, <3>5, <4>2
      <4>3. CASE m \in Coloured /\ l = n
        <5>1. {n, m} \in edges
          <6>1. {n, m} = {m, l}  BY <4>3
          <6> QED BY <3>3, <3>5, <6>1
        <5> QED BY <3>1, <3>2, <3>3, <3>5, <4>3, <5>1
      <4> QED BY <3>1, <3>5, <4>1, <4>2, <4>3
    <3> QED BY <3>4, <3>5 DEF SelectedRight
  <2> QED BY <2>2, <2>3
<1> QED BY <1>5, <1>6, <1>7, <1>8

-----------------------------------------------------------------------------
(* Spilling *)

\* A routine with an instruction of E more in some blocks.
Grown(E, cd, ce) ==
    /\ ce = [b \in Block |-> ce[b]]
    /\ \A b \in Block :
         \/ ce[b] = cd[b]
         \/ \E k \in 1..(Len(cd[b]) + 1), e \in E : ce[b] = InsertAt(cd[b], k, e)

\* Instructions over N that hold no move.
Memories(E, N) == E \subseteq InstrOver(N) /\ \A e \in E : \A o \in Range(e.ops) : ~IsMove(o)

LEMMA GrownOf ==
    ASSUME NEW N, NEW cd \in Routine(N), NEW ce, NEW E, Memories(E, N), Grown(E, cd, ce)
    PROVE  /\ ce \in Routine(N) /\ Ids(cd) \subseteq Ids(ce) /\ Moves(ce) \subseteq Moves(cd)
           /\ InstrsOf(ce) \subseteq InstrsOf(cd) \cup E
<1>1. ASSUME NEW b \in Block
      PROVE  /\ ce[b] \in Seq(InstrOver(N)) /\ Range(cd[b]) \subseteq Range(ce[b])
             /\ \A i \in Range(ce[b]) : i \in Range(cd[b]) \/ i \in E
  <2>1. cd[b] \in Seq(InstrOver(N))  BY DEF Routine
  <2>2. CASE ce[b] = cd[b]  BY <2>1, <2>2
  <2>3. ASSUME NEW k \in 1..(Len(cd[b]) + 1), NEW e \in E, ce[b] = InsertAt(cd[b], k, e)
        PROVE  /\ ce[b] \in Seq(InstrOver(N)) /\ Range(cd[b]) \subseteq Range(ce[b])
               /\ \A i \in Range(ce[b]) : i \in Range(cd[b]) \/ i \in E
    <3>1. ce[b] \in Seq(InstrOver(N)) /\ Range(ce[b]) = Range(cd[b]) \cup {e}
      BY <2>1, <2>3, Inserted DEF Memories
    <3> QED BY <2>3, <3>1
  <2> QED BY <2>2, <2>3 DEF Grown
<1>2. ce \in Routine(N)
  <2>1. ce = [b \in Block |-> ce[b]]  BY DEF Grown
  <2> QED BY <1>1, <2>1 DEF Routine
<1>3. Ids(cd) \subseteq Ids(ce)  BY <1>1 DEF Ids, InstrsOf
<1>4. ASSUME NEW o \in OpsOf(ce), IsMove(o) PROVE o \in OpsOf(cd)
  <2>1. PICK b \in Block : \E i \in Range(ce[b]) : o \in Range(i.ops)
    BY DEF OpsOf, InstrsOf
  <2>2. PICK i \in Range(ce[b]) : o \in Range(i.ops)  BY <2>1
  <2>3. i \in Range(cd[b])  BY <1>1, <1>4, <2>2 DEF Memories
  <2> QED BY <2>2, <2>3 DEF OpsOf, InstrsOf
<1>5. InstrsOf(ce) \subseteq InstrsOf(cd) \cup E  BY <1>1 DEF InstrsOf
<1> QED BY <1>2, <1>3, <1>4, <1>5 DEF Moves

LEMMA MemoryOver ==
    ASSUME NEW N, NEW id \in Nat, NEW kind \in {"store", "load"}, NEW dest \in N \cup {None},
           NEW srcs \in Seq(N), slots \in Nat
    PROVE  /\ Memory(id, kind, dest, srcs) \in InstrOver(N)
           /\ \A o \in Range(Memory(id, kind, dest, srcs).ops) : ~IsMove(o)
<1> DEFINE o == [id |-> id, kind |-> kind, dest |-> dest, srcs |-> srcs, slot |-> slots]
           ops == <<o>>
<1>1. o \in OpOver(N) /\ ~IsMove(o)  BY DEF OpOver, IsMove
<1>2. Memory(id, kind, dest, srcs) = [id |-> id, ops |-> ops]  BY DEF Memory
<1> HIDE DEF o
<1>3. ops \in Seq(OpOver(N)) /\ Range(ops) = {o}
  <2>1. Range(ops) = {o}  BY DEF Range
  <2> QED BY <1>1, <2>1
<1> HIDE DEF ops
<1> QED BY <1>1, <1>2, <1>3 DEF InstrOver

\* Where an instruction is.
LEMMA Found ==
    ASSUME NEW cd, NEW id \in Ids(cd)
    PROVE  /\ BlockOf(cd, id) \in Block
           /\ PlaceOf(cd, BlockOf(cd, id), id) \in DOMAIN cd[BlockOf(cd, id)]
<1>1. PICK b \in Block : \E i \in Range(cd[b]) : i.id = id  BY DEF Ids, InstrsOf
<1>2. BlockOf(cd, id) \in Block /\ \E i \in Range(cd[BlockOf(cd, id)]) : i.id = id
  BY <1>1 DEF BlockOf
<1> DEFINE B == BlockOf(cd, id)
<1>3. PICK k \in DOMAIN cd[B] : cd[B][k].id = id  BY <1>2 DEF Range
<1> HIDE DEF B
<1>4. PlaceOf(cd, B, id) \in DOMAIN cd[B]  BY <1>3 DEF PlaceOf
<1> QED BY <1>2, <1>4 DEF B

LEMMA StorePlacesIn ==
    ASSUME NEW N, NEW cd \in Routine(N), NEW id \in Ids(cd)
    PROVE  \A p \in StorePlaces(cd, id) : p[1] \in Block /\ p[2] \in 1..(Len(cd[p[1]]) + 1)
<1> DEFINE b == BlockOf(cd, id)
           k == PlaceOf(cd, b, id)
<1>1. b \in Block /\ k \in DOMAIN cd[b]  BY Found
<1>2. \A s \in Block : Len(cd[s]) \in Nat /\ DOMAIN cd[s] = 1..Len(cd[s])
  BY LenProperties DEF Routine
<1>3. StorePlaces(cd, id) = IF k < Len(cd[b]) \/ Cardinality(Succ[b]) = 1 THEN {<<b, k + 1>>}
                            ELSE {<<s, 1>> : s \in Succ[b]}
  BY DEF StorePlaces
<1> HIDE DEF b, k
<1>4. k + 1 \in 1..(Len(cd[b]) + 1)
  <2>1. PICK l \in Nat : l = Len(cd[b]) /\ k \in 1..l  BY <1>1, <1>2
  <2> QED BY <2>1
<1>5. \A s \in Block : 1 \in 1..(Len(cd[s]) + 1)  BY <1>2
<1>6. Succ[b] \subseteq Block  BY <1>1, RegAllocAssumption
<1> QED BY <1>1, <1>3, <1>4, <1>5, <1>6

\* The code so far with the new multichains, which are new names.
Grows(acc) ==
    /\ NameSet(DOMAIN acc.class) /\ DOMAIN acc.class # {} /\ acc.code \in Routine(DOMAIN acc.class)
    /\ Names \subseteq DOMAIN acc.class /\ \A x \in Names : acc.class[x] = class[x]
    /\ Ids(code) \subseteq Ids(acc.code) /\ Moves(acc.code) \subseteq Moves(code)
    /\ acc.nodes \in Seq(DOMAIN acc.mc) /\ Distinct(acc.nodes)
    /\ Range(acc.nodes) = DOMAIN acc.mc /\ DOMAIN acc.mc = DOMAIN acc.class \ Names
    /\ \A m \in DOMAIN acc.mc : acc.mc[m].spilled

LEMMA SpillNewGrows ==
    ASSUME NEW acc, Grows(acc), NEW m, m = FreshName(acc.class),
           NEW cd \in Routine(DOMAIN acc.class \cup {m}),
           Ids(acc.code) \subseteq Ids(cd), Moves(cd) \subseteq Moves(acc.code),
           NEW c, c.spilled, NEW n
    PROVE  Grows(SpillNew(acc, n, cd, m, c))
<1> DEFINE new == SpillNew(acc, n, cd, m, c)
<1>1. m \notin DOMAIN acc.class /\ NameSet(DOMAIN acc.class \cup {m})  BY FreshOf DEF Grows
<1>2. /\ new.code = cd /\ new.class = With(acc.class, m, acc.class[n])
      /\ new.nodes = Append(acc.nodes, m) /\ new.mc = With(acc.mc, m, c)
  BY DEF SpillNew
<1> HIDE DEF new
<1>3. /\ DOMAIN new.class = DOMAIN acc.class \cup {m} /\ DOMAIN new.mc = DOMAIN acc.mc \cup {m}
      /\ \A x \in DOMAIN acc.class : new.class[x] = acc.class[x]
  BY <1>1, <1>2 DEF With
<1>4. m \notin Names /\ m \notin DOMAIN acc.mc  BY <1>1 DEF Grows
<1>5. new.mc[m] = c /\ \A x \in DOMAIN acc.mc : new.mc[x] = acc.mc[x]
  BY <1>2, <1>4 DEF With
<1>6. /\ new.nodes \in Seq(DOMAIN new.mc) /\ Distinct(new.nodes)
      /\ Range(new.nodes) = DOMAIN new.mc
  <2>1. acc.nodes \in Seq(DOMAIN acc.mc) /\ Distinct(acc.nodes) /\ Range(acc.nodes) = DOMAIN acc.mc
    BY DEF Grows
  <2>2. acc.nodes \in Seq(DOMAIN new.mc) /\ m \in DOMAIN new.mc  BY <1>3, <2>1, SeqWithin
  <2> QED BY <1>2, <1>3, <1>4, <2>1, <2>2, Appended
<1>7. \A x \in DOMAIN new.mc : new.mc[x].spilled  BY <1>3, <1>5 DEF Grows
<1>8. DOMAIN new.mc = DOMAIN new.class \ Names  BY <1>3, <1>4 DEF Grows
<1>9. /\ NameSet(DOMAIN new.class) /\ DOMAIN new.class # {}
      /\ new.code \in Routine(DOMAIN new.class)
  BY <1>1, <1>2, <1>3 DEF Grows
<1>10. Names \subseteq DOMAIN new.class /\ \A x \in Names : new.class[x] = class[x]
  BY <1>3 DEF Grows
<1>11. Ids(code) \subseteq Ids(new.code) /\ Moves(new.code) \subseteq Moves(code)
  BY <1>2 DEF Grows
<1> QED BY <1>6, <1>7, <1>8, <1>9, <1>10, <1>11 DEF Grows, new

\* The routine in which one name has become another, ready for stores or a load.
IsSplit(acc, M, split) ==
    /\ acc.code \in Routine(M) /\ split \in Routine(M)
    /\ Ids(split) = Ids(acc.code) /\ Moves(split) = Moves(acc.code)
    /\ split = [b \in Block |-> split[b]]
    /\ \A b \in Block : Len(split[b]) = Len(acc.code[b])

LEMMA Split ==
    ASSUME NEW acc, Grows(acc), NEW m, m = FreshName(acc.class), NEW n, NEW defs, NEW uses
    PROVE  IsSplit(acc, DOMAIN acc.class \cup {m}, Renamed(acc.code, defs, uses, n, m))
<1> DEFINE M == DOMAIN acc.class \cup {m}
           split == Renamed(acc.code, defs, uses, n, m)
<1>1. acc.code \in Routine(M)
  <2>1. DOMAIN acc.class \subseteq M  OBVIOUS
  <2>2. acc.code \in Routine(DOMAIN acc.class)  BY DEF Grows
  <2> HIDE DEF M
  <2> QED BY <2>1, <2>2, RoutineWiden
<1>2. m \in M /\ m # None
  <2>1. m \in Nat  BY FreshOf DEF Grows, NameSet
  <2> QED BY <2>1 DEF None
<1> HIDE DEF M
<1>3. /\ split \in Routine(M) /\ AlikeAll(acc.code, split)
      /\ \A b \in Block : Len(split[b]) = Len(acc.code[b])
  BY <1>1, <1>2, RenamedOf
<1>4. split = [b \in Block |-> split[b]]  BY DEF Renamed
<1> HIDE DEF split
<1>5. Ids(split) = Ids(acc.code) /\ Moves(split) = Moves(acc.code)  BY <1>3, SameMoves
<1> QED BY <1>1, <1>3, <1>4, <1>5 DEF M, split, IsSplit

\* What the split of a definition and of a use adds to the code.
Stores(acc, id, m) ==
    {Memory(FreshId(acc.code) + p[1], "store", None, <<m>>) : p \in StorePlaces(acc.code, id)}
Load(acc, m) == Memory(FreshId(acc.code), "load", m, <<>>)

LEMMA SpillDefGrows ==
    ASSUME Named, NEW acc, Grows(acc), NEW n, NEW id \in Ids(code)
    PROVE  LET m == FreshName(acc.class) IN
           /\ Grows(SpillDef(acc, n, id))
           /\ InstrsOf(SpillDef(acc, n, id).code)
                \subseteq InstrsOf(Renamed(acc.code, {id}, {}, n, m)) \cup Stores(acc, id, m)
<1> DEFINE m == FreshName(acc.class)
           M == DOMAIN acc.class \cup {m}
           places == StorePlaces(acc.code, id)
           fresh == FreshId(acc.code)
           split == Renamed(acc.code, {id}, {}, n, m)
           store(b) == Memory(fresh + b, "store", None, <<m>>)
           E == Stores(acc, id, m)
           at(b) == (CHOOSE p \in {q \in places : q[1] = b} : TRUE)[2]
           cd == [b \in Block |-> IF {p \in places : p[1] = b} = {} THEN split[b]
                                  ELSE InsertAt(split[b], at(b), store(b))]
           c == [defs |-> {id}, noDefs |-> Cardinality(places),
                 uses |-> {fresh + p[1] : p \in places}, noUses |-> Cardinality(places),
                 spilled |-> TRUE]
<1>1. SpillDef(acc, n, id) = SpillNew(acc, n, cd, m, c)  BY DEF SpillDef
<1>2. c.spilled  OBVIOUS
<1> HIDE DEF c
<1>0. m = FreshName(acc.class)  OBVIOUS
<1> HIDE DEF m
<1>3. /\ acc.code \in Routine(M) /\ split \in Routine(M)
      /\ Ids(split) = Ids(acc.code) /\ Moves(split) = Moves(acc.code)
      /\ \A b \in Block : Len(split[b]) = Len(acc.code[b])
  <2>1. IsSplit(acc, M, split)  BY <1>0, Split
  <2> HIDE DEF M, split
  <2> QED BY <2>1 DEF IsSplit
<1>4. id \in Ids(acc.code)  BY DEF Grows
<1>5. fresh \in Nat
  <2>1. InstrsOf(acc.code) # {}  BY <1>4 DEF Ids
  <2> QED BY <1>3, <2>1, FreshIdOf
<1>6. \A p \in places : p[1] \in Block /\ p[2] \in 1..(Len(acc.code[p[1]]) + 1)
  BY <1>3, <1>4, StorePlacesIn
<1>10. E = {store(p[1]) : p \in places}  BY DEF Stores
<1> HIDE DEF places, fresh, E
<1>7. ASSUME NEW b \in Block
      PROVE  store(b) \in InstrOver(M) /\ \A o \in Range(store(b).ops) : ~IsMove(o)
  <2>1. b \in Nat  BY FS_CardinalityType, RegAllocAssumption
  <2>2. fresh + b \in Nat  BY <1>5, <2>1
  <2>3. <<m>> \in Seq(M)  OBVIOUS
  <2> QED BY <2>2, <2>3, MemoryOver DEF Named
<1> HIDE DEF M, split, store
<1>11. Memories(E, M)  BY <1>6, <1>7, <1>10 DEF Memories
<1>8. Grown(E, split, cd)
  <2>1. ASSUME NEW b \in Block, {p \in places : p[1] = b} # {}
        PROVE  at(b) \in 1..(Len(split[b]) + 1)
    <3>1. PICK p \in places : p[1] = b /\ at(b) = p[2]  BY <2>1
    <3> QED BY <1>3, <1>6, <3>1
  <2> HIDE DEF at
  <2>2. ASSUME NEW b \in Block
        PROVE  \/ cd[b] = split[b]
               \/ \E k \in 1..(Len(split[b]) + 1), e \in E : cd[b] = InsertAt(split[b], k, e)
    <3>1. CASE {p \in places : p[1] = b} = {}  BY <3>1
    <3>2. CASE {p \in places : p[1] = b} # {}
      <4>1. PICK p \in places : p[1] = b  BY <3>2
      <4>2. store(b) \in E  BY <1>10, <4>1
      <4>3. cd[b] = InsertAt(split[b], at(b), store(b))  BY <3>2
      <4> HIDE DEF cd
      <4> QED BY <2>1, <3>2, <4>2, <4>3
    <3> QED BY <3>1, <3>2
  <2>3. cd = [b \in Block |-> cd[b]]  OBVIOUS
  <2> HIDE DEF cd
  <2> QED BY <2>2, <2>3 DEF Grown
<1> HIDE DEF cd
<1>9. /\ cd \in Routine(M) /\ Ids(acc.code) \subseteq Ids(cd) /\ Moves(cd) \subseteq Moves(acc.code)
      /\ InstrsOf(cd) \subseteq InstrsOf(split) \cup E
  BY <1>3, <1>8, <1>11, GrownOf
<1>12. Grows(SpillNew(acc, n, cd, m, c))  BY <1>2, <1>9, <1>0, SpillNewGrows DEF M
<1>13. SpillDef(acc, n, id).code = cd  BY <1>1 DEF SpillNew
<1> QED BY <1>1, <1>9, <1>12, <1>13 DEF m, split, E

LEMMA ReloadUseGrows ==
    ASSUME Named, NEW acc, Grows(acc), NEW n, NEW id \in Ids(code)
    PROVE  LET m == FreshName(acc.class) IN
           /\ Grows(ReloadUse(acc, n, id))
           /\ InstrsOf(ReloadUse(acc, n, id).code)
                \subseteq InstrsOf(Renamed(acc.code, {}, {id}, n, m)) \cup {Load(acc, m)}
<1> DEFINE m == FreshName(acc.class)
           M == DOMAIN acc.class \cup {m}
           load == FreshId(acc.code)
           split == Renamed(acc.code, {}, {id}, n, m)
           b == BlockOf(acc.code, id)
           k == PlaceOf(acc.code, b, id)
           e == Memory(load, "load", m, <<>>)
           cd == Insert(split, b, k, e)
           c == [defs |-> {load}, noDefs |-> 1, uses |-> {id},
                 noUses |-> CountUses(InstrOf(acc.code, id), n), spilled |-> TRUE]
<1>1. ReloadUse(acc, n, id) = SpillNew(acc, n, cd, m, c)  BY DEF ReloadUse
<1>2. c.spilled  OBVIOUS
<1> HIDE DEF c
<1>0. m = FreshName(acc.class)  OBVIOUS
<1> HIDE DEF m
<1>3. /\ acc.code \in Routine(M) /\ split \in Routine(M)
      /\ Ids(split) = Ids(acc.code) /\ Moves(split) = Moves(acc.code)
      /\ split = [a \in Block |-> split[a]]
      /\ \A a \in Block : Len(split[a]) = Len(acc.code[a])
  <2>1. IsSplit(acc, M, split)  BY <1>0, Split
  <2> HIDE DEF M, split
  <2> QED BY <2>1 DEF IsSplit
<1>4. id \in Ids(acc.code)  BY DEF Grows
<1>5. load \in Nat
  <2>1. InstrsOf(acc.code) # {}  BY <1>4 DEF Ids
  <2> QED BY <1>3, <2>1, FreshIdOf
<1>6. b \in Block /\ k \in DOMAIN acc.code[b]  BY <1>4, Found
<1> HIDE DEF load, b, k
<1>7. e \in InstrOver(M) /\ \A o \in Range(e.ops) : ~IsMove(o)
  <2>1. <<>> \in Seq(M) /\ m \in M \cup {None}  BY EmptySeq
  <2> HIDE DEF M
  <2> QED BY <1>5, <2>1, MemoryOver DEF Named
<1> HIDE DEF M, split, e
<1>8. k \in 1..(Len(split[b]) + 1)
  <2>1. acc.code[b] \in Seq(InstrOver(M))  BY <1>3, <1>6 DEF Routine
  <2>2. PICK l \in Nat : l = Len(acc.code[b]) /\ k \in 1..l  BY <1>6, <2>1, RangeOf
  <2> QED BY <1>3, <1>6, <2>2
<1>9. /\ cd = [a \in Block |-> cd[a]] /\ cd[b] = InsertAt(split[b], k, e)
      /\ \A a \in Block : a # b => cd[a] = split[a]
  BY <1>3, <1>6 DEF Insert
<1> HIDE DEF cd
<1>10. Grown({e}, split, cd) /\ Memories({e}, M)  BY <1>7, <1>8, <1>9 DEF Grown, Memories
<1>11. /\ cd \in Routine(M) /\ Ids(acc.code) \subseteq Ids(cd) /\ Moves(cd) \subseteq Moves(acc.code)
       /\ InstrsOf(cd) \subseteq InstrsOf(split) \cup {e}
  BY <1>3, <1>10, GrownOf
<1>12. Grows(SpillNew(acc, n, cd, m, c))  BY <1>2, <1>11, <1>0, SpillNewGrows DEF M
<1>13. ReloadUse(acc, n, id).code = cd  BY <1>1 DEF SpillNew
<1>14. e = Load(acc, m)  BY DEF e, Load, load
<1> QED BY <1>1, <1>11, <1>12, <1>13, <1>14 DEF m, split

\* The instructions of a routine in order are instructions of it.
\* The blocks are joined one by one.
JoinsIn(cd, S, n) ==
    \E h : /\ h[0] = <<>> /\ InOrder(cd) = h[n]
           /\ \A k \in 0..n : h[k] \in Seq(S)
           /\ \A k \in 1..n : h[k] = h[k - 1] \o cd[k]

LEMMA InOrderSteps ==
    ASSUME NEW N, NEW cd \in Routine(N), NEW n \in Nat, n = Cardinality(Block), Block = 1..n
    PROVE  JoinsIn(cd, InstrsOf(cd), n)
<1> DEFINE S == InstrsOf(cd)
<1>3. \A b \in Block : cd[b] \in Seq(S)
  <2> TAKE b \in Block
  <2>1. cd[b] \in Seq(InstrOver(N))  BY DEF Routine
  <2>2. Range(cd[b]) \subseteq S  BY DEF InstrsOf
  <2> HIDE DEF S
  <2> QED BY <2>1, <2>2, SeqWithin
<1>4. \A k \in 1..n : cd[k] \in Seq(S)  BY <1>3
<1> HIDE DEF S
<1> DEFINE W(k, f) == IF k = 0 THEN <<>> ELSE f[k - 1] \o cd[k]
           V == Seq(S)
           next == [x \in (1..n) \X V |-> x[2] \o cd[x[1]]]
<1>5. <<>> \in V  BY EmptySeq
<1>6. next \in [(1..n) \X V -> V] /\ \A k \in 1..n, q \in V : next[<<k, q>>] = q \o cd[k]
  <2>1. \A k \in 1..n, q \in V : q \o cd[k] \in V  BY <1>4, Concatenated
  <2> HIDE DEF V
  <2> QED BY <2>1
<1> HIDE DEF next, V
<1>7. PICK f \in [0..n -> V] : \A k \in 0..n : f[k] = IF k = 0 THEN <<>> ELSE next[<<k, f[k - 1]>>]
  <2>1. Stepwise(V, n, <<>>, next)  BY <1>5, <1>6, StepwiseExists
  <2> QED BY <2>1 DEF Stepwise
<1> DEFINE Goes(g) == g = [k \in 0..n |-> W(k, g)]
<1>8. Goes(f)
  <2>1. \A k \in 0..n : f[k] = W(k, f)
    <3> TAKE k \in 0..n
    <3>1. CASE k = 0  BY <1>7, <3>1
    <3>2. CASE k # 0
      <4>1. k \in 1..n /\ k - 1 \in 0..n  BY <3>2
      <4>2. f[k - 1] \in V  BY <4>1
      <4>3. f[k] = next[<<k, f[k - 1]>>]  BY <1>7, <3>2
      <4> QED BY <1>6, <3>2, <4>1, <4>2, <4>3
    <3> QED BY <3>1, <3>2
  <2> HIDE DEF W
  <2> QED BY <2>1
<1> DEFINE h == CHOOSE g : Goes(g)
<1>9. Goes(h)
  <2> HIDE DEF Goes
  <2> QED BY <1>8
<1>10. InOrder(cd) = h[n]  BY DEF InOrder
<1> HIDE DEF h
<1>11. \A k \in 0..n : h[k] = W(k, h)
  <2> HIDE DEF W
  <2> QED BY <1>9
<1> HIDE DEF Goes
<1> DEFINE G == {k \in 0..n : h[k] \in V}
<1>12. 0 \in G
  <2>1. 0 \in 0..n  OBVIOUS
  <2> QED BY <1>5, <1>11, <2>1
<1>13. ASSUME NEW k \in 1..n, k - 1 \in G PROVE k \in G
  <2>1. k \in 0..n /\ k # 0  OBVIOUS
  <2>2. h[k] = h[k - 1] \o cd[k] /\ cd[k] \in Seq(S)  BY <1>4, <1>11, <2>1
  <2>3. h[k - 1] \in Seq(S)  BY <1>13 DEF V
  <2>4. h[k] \in Seq(S)  BY <2>2, <2>3, Concatenated
  <2> QED BY <2>1, <2>4 DEF V
<1>14. \A k \in 0..n : h[k] \in Seq(S)
  <2>1. 0..n \subseteq G
    <3> HIDE DEF G
    <3> QED BY <1>12, <1>13, Upwards
  <2> QED BY <2>1 DEF V
<1>15. h[0] = <<>> /\ \A k \in 1..n : h[k] = h[k - 1] \o cd[k]
  <2>1. 0 \in 0..n /\ \A k \in 1..n : k \in 0..n /\ k # 0  OBVIOUS
  <2> QED BY <1>11, <2>1
<1> QED BY <1>10, <1>14, <1>15 DEF JoinsIn, S

LEMMA InOrderIn ==
    ASSUME NEW N, NEW cd \in Routine(N)
    PROVE  InOrder(cd) \in Seq(InstrsOf(cd)) /\ InstrsOf(cd) \subseteq Range(InOrder(cd))
<1> DEFINE S == InstrsOf(cd)
<1>1. PICK n \in Nat : n = Cardinality(Block) /\ Block = 1..n
  BY FS_CardinalityType, RegAllocAssumption
<1>2. PICK h : /\ h[0] = <<>> /\ InOrder(cd) = h[n]
               /\ \A k \in 0..n : h[k] \in Seq(S)
               /\ \A k \in 1..n : h[k] = h[k - 1] \o cd[k]
  <2>1. JoinsIn(cd, S, n)  BY <1>1, InOrderSteps
  <2> QED BY <2>1 DEF JoinsIn
<1>3. \A k \in 1..n : cd[k] \in Seq(S)
  <2> TAKE k \in 1..n
  <2>1. cd[k] \in Seq(InstrOver(N))  BY <1>1 DEF Routine
  <2>2. Range(cd[k]) \subseteq S  BY <1>1 DEF InstrsOf
  <2> HIDE DEF S
  <2> QED BY <2>1, <2>2, SeqWithin
<1>4. S = UNION {Range(cd[k]) : k \in 1..n}  BY <1>1 DEF InstrsOf
<1> HIDE DEF S
<1> DEFINE G == {k \in 0..n : \A j \in 1..k : Range(cd[j]) \subseteq Range(h[k])}
<1>5. 0 \in G
  <2>1. 0 \in 0..n /\ \A j \in 1..0 : FALSE  OBVIOUS
  <2> QED BY <2>1
<1>6. ASSUME NEW k \in 1..n, k - 1 \in G PROVE k \in G
  <2>1. k \in 0..n /\ k - 1 \in 0..n /\ \A j \in 1..k : j = k \/ j \in 1..(k - 1)  OBVIOUS
  <2>2. h[k] = h[k - 1] \o cd[k] /\ h[k - 1] \in Seq(S) /\ cd[k] \in Seq(S)  BY <1>2, <1>3, <2>1
  <2>3. Range(h[k]) = Range(h[k - 1]) \cup Range(cd[k])  BY <2>2, Concatenated
  <2> QED BY <1>6, <2>1, <2>3
<1>7. n \in 0..n /\ n \in G
  <2>1. n \in 0..n  OBVIOUS
  <2> HIDE DEF G
  <2>2. 0..n \subseteq G  BY <1>5, <1>6, Upwards
  <2> QED BY <2>1, <2>2
<1>8. S \subseteq Range(h[n])  BY <1>4, <1>7
<1> QED BY <1>2, <1>7, <1>8 DEF S

\* The stores, then the loads, instruction by instruction.
Spilling == [code |-> code, class |-> class, nodes |-> <<>>, mc |-> <<>>]
SpillStep(n, all, turn, k, acc) ==
    LET id == all[IF k <= turn THEN k ELSE k - turn].id
    IN IF k <= turn
       THEN IF id \in mc[n].defs THEN SpillDef(acc, n, id) ELSE acc
       ELSE IF id \in mc[n].uses THEN ReloadUse(acc, n, id) ELSE acc

SpillsIn(n, all, turn) ==
    \E f : /\ f[0] = Spilling /\ SpillsReloads(n) = f[2 * turn]
           /\ \A k \in 1..(2 * turn) : f[k] = SpillStep(n, all, turn, k, f[k - 1])

LEMMA SpillSteps ==
    ASSUME NEW n, NEW all, all = InOrder(code), NEW turn \in Nat, turn = Len(all)
    PROVE  SpillsIn(n, all, turn)
<1>1. PICK t \in Nat : t = 2 * turn  OBVIOUS
<1> DEFINE W(k, f) == IF k = 0 THEN Spilling ELSE SpillStep(n, all, turn, k, f[k - 1])
           Goes(k, f) == f = [j \in 0..k |-> W(j, f)]
           G == {k \in 0..t : \E f : Goes(k, f)}
<1>2. 0 \in G
  <2> DEFINE f == [j \in 0..0 |-> Spilling]
  <2>1. Goes(0, f)  OBVIOUS
  <2> HIDE DEF Goes, f
  <2> QED BY <2>1
<1>3. ASSUME NEW k \in 1..t, k - 1 \in G PROVE k \in G
  <2>1. PICK f : Goes(k - 1, f)  BY <1>3
  <2> DEFINE g == [j \in 0..k |-> IF j = k THEN W(k, f) ELSE f[j]]
  <2>2. \A j \in 0..k : j # k => j \in 0..(k - 1) /\ (j # 0 => j - 1 \in 0..k /\ j - 1 # k)
    OBVIOUS
  <2>3. k # 0 /\ k - 1 \in 0..k /\ k - 1 # k  OBVIOUS
  <2>4. \A j \in 0..k : g[j] = W(j, g)
    <3> TAKE j \in 0..k
    <3>1. CASE j = k  BY <2>3, <3>1
    <3>2. CASE j # k
      <4>1. g[j] = W(j, f)  BY <2>1, <2>2, <3>2
      <4> QED BY <2>2, <3>2, <4>1
    <3> QED BY <3>1, <3>2
  <2>5. Goes(k, g)
    <3> HIDE DEF W
    <3> QED BY <2>4
  <2> HIDE DEF Goes, g
  <2> QED BY <2>5
<1>4. t \in G
  <2>1. t \in 0..t  OBVIOUS
  <2> HIDE DEF G
  <2>2. 0..t \subseteq G  BY <1>2, <1>3, Upwards
  <2> QED BY <2>1, <2>2
<1> DEFINE h == CHOOSE f : Goes(t, f)
<1>5. Goes(t, h)
  <2>1. \E f : Goes(t, f)  BY <1>4
  <2> HIDE DEF Goes
  <2> QED BY <2>1
<1>6. SpillsReloads(n) = h[t]  BY <1>1 DEF SpillsReloads, SpillStep, Spilling
<1> HIDE DEF h
<1>7. \A k \in 0..t : h[k] = W(k, h)
  <2> HIDE DEF W
  <2> QED BY <1>5
<1>8. h[0] = Spilling /\ \A k \in 1..t : h[k] = SpillStep(n, all, turn, k, h[k - 1])
  <2>1. 0 \in 0..t /\ \A k \in 1..t : k \in 0..t /\ k # 0  OBVIOUS
  <2> QED BY <1>7, <2>1
<1> QED BY <1>1, <1>6, <1>8 DEF SpillsIn

LEMMA SpillsReloadsGrow ==
    ASSUME Named, Names # {}, NEW n
    PROVE  Grows(SpillsReloads(n))
<1>1. PICK all \in Seq(InstrsOf(code)) : all = InOrder(code)  BY InOrderIn DEF Named
<1>2. PICK turn \in Nat : turn = Len(all) /\ DOMAIN all = 1..turn
                          /\ \A k \in 1..turn : all[k] \in InstrsOf(code)
  BY RangeOf, ElementOfSeq
<1>3. PICK t \in Nat : t = 2 * turn  OBVIOUS
<1>4. PICK h : /\ h[0] = Spilling /\ SpillsReloads(n) = h[t]
               /\ \A k \in 1..t : h[k] = SpillStep(n, all, turn, k, h[k - 1])
  <2>1. SpillsIn(n, all, turn)  BY <1>1, <1>2, SpillSteps
  <2> QED BY <1>3, <2>1 DEF SpillsIn
<1> DEFINE G == {k \in 0..t : Grows(h[k])}
<1>5. 0 \in G
  <2>1. DOMAIN <<>> = {} /\ 0 \in 0..t  OBVIOUS
  <2>2. Grows(Spilling)
    BY <2>1, EmptyOver DEF Grows, Spilling, Named, Names
  <2> QED BY <1>4, <2>1, <2>2
<1>6. ASSUME NEW k \in 1..t, k - 1 \in G PROVE k \in G
  <2> DEFINE j == IF k <= turn THEN k ELSE k - turn
             acc == h[k - 1]
             id == all[j].id
  <2>1. j \in 1..turn /\ k \in 0..t  BY <1>3
  <2>2. Grows(acc)  BY <1>6
  <2>3. h[k] = SpillStep(n, all, turn, k, acc)  BY <1>4
  <2> HIDE DEF acc
  <2>4. \/ h[k] = SpillDef(acc, n, id)
        \/ h[k] = ReloadUse(acc, n, id)
        \/ h[k] = acc
    BY <2>3 DEF SpillStep
  <2>5. id \in Ids(code)  BY <1>2, <2>1 DEF Ids
  <2> HIDE DEF id
  <2>6. Grows(SpillDef(acc, n, id)) /\ Grows(ReloadUse(acc, n, id))
    BY <2>2, <2>5, SpillDefGrows, ReloadUseGrows
  <2> QED BY <2>1, <2>2, <2>4, <2>6
<1>7. t \in G
  <2>1. t \in 0..t  OBVIOUS
  <2> HIDE DEF G
  <2>2. 0..t \subseteq G  BY <1>5, <1>6, Upwards
  <2> QED BY <2>1, <2>2
<1> QED BY <1>4, <1>7

\* The names that a spill has not made.
Unspilled == {n \in DOMAIN mc : ~mc[n].spilled}

LEMMA SpillHolds ==
    ASSUME IInv, Spill
    PROVE  /\ IInv' /\ Moves(code') \subseteq Moves(code) /\ marked' = marked
           /\ \E n \in Unspilled : Unspilled' \subseteq Unspilled \ {n}
<1> USE DEF IInv
<1> DEFINE n == Last(nodesToSpill)
           done == SpillsReloads(n)
<1>1. /\ phase = "spill" /\ nodesToSpill # <<>>
      /\ ~mc[n].spilled
      /\ nodesToSpill' = Front(nodesToSpill)
      /\ code' = done.code /\ class' = done.class
      /\ mc' = [m \in (DOMAIN mc \ {n}) \cup DOMAIN done.mc |->
                  IF m \in DOMAIN done.mc THEN done.mc[m] ELSE mc[m]]
      /\ DOMAIN color' = DOMAIN mc'
      /\ nodes' = Without(nodes, n) \o done.nodes
      /\ edges' = {e \in edges : n \notin e}
                    \cup UNION {ArchEdges(m, done.class[m]) : m \in DOMAIN done.mc}
      /\ slots' = slots + 1
      /\ UNCHANGED <<original, pending, marked, nodeStack, phase>>
  BY DEF Spill
<1>2. /\ OnceOver(nodes, nodeStack, DOMAIN mc) /\ DOMAIN mc \subseteq Names
      /\ nodesToSpill \in Seq(DOMAIN mc) /\ Distinct(nodesToSpill)
      /\ Range(nodesToSpill) \subseteq Range(nodes)
  BY DEF Listed
<1>3. /\ n \in Range(nodesToSpill) /\ Front(nodesToSpill) \in Seq(DOMAIN mc)
      /\ Distinct(Front(nodesToSpill))
      /\ Range(Front(nodesToSpill)) = Range(nodesToSpill) \ {n}
  BY <1>1, <1>2, Popped
<1> HIDE DEF n
<1>4. nodeStack = <<>>  BY <1>1 DEF Phases
<1>5. /\ nodes \in Seq(DOMAIN mc) /\ Distinct(nodes) /\ Range(nodes) = DOMAIN mc
  BY <1>2, <1>4, EmptyOver DEF OnceOver
<1>6. n \in DOMAIN mc /\ n \in Names  BY <1>2, <1>3, <1>5
<1>7. Grows(done)  BY <1>6, SpillsReloadsGrow
<1> HIDE DEF done
<1>8. /\ NameSet(DOMAIN done.class) /\ done.code \in Routine(DOMAIN done.class)
      /\ Names \subseteq DOMAIN done.class /\ \A x \in Names : done.class[x] = class[x]
      /\ Moves(done.code) \subseteq Moves(code)
      /\ done.nodes \in Seq(DOMAIN done.mc) /\ Distinct(done.nodes)
      /\ Range(done.nodes) = DOMAIN done.mc /\ DOMAIN done.mc = DOMAIN done.class \ Names
      /\ \A m \in DOMAIN done.mc : done.mc[m].spilled
  BY <1>7 DEF Grows
<1>9. Names' = DOMAIN done.class  BY <1>1 DEF Names
<1>10. DOMAIN mc' = (DOMAIN mc \ {n}) \cup DOMAIN done.mc  BY <1>1
<1>11. Named'  BY <1>1, <1>8, <1>9 DEF Named
<1>12. nodes' \in Seq(DOMAIN mc') /\ Range(nodes') = DOMAIN mc' /\ Distinct(nodes')
  <2> DEFINE w == Without(nodes, n)
  <2>1. w \in Seq(DOMAIN mc) /\ Range(w) = DOMAIN mc \ {n} /\ Distinct(w)
    BY <1>5, WithoutOf
  <2> HIDE DEF w
  <2>2. w \in Seq(DOMAIN mc')  BY <1>10, <2>1, SeqWithin
  <2>3. done.nodes \in Seq(DOMAIN mc')  BY <1>8, <1>10, SeqWithin
  <2>4. Range(w) \cap Range(done.nodes) = {}  BY <1>2, <1>8, <2>1
  <2>5. /\ w \o done.nodes \in Seq(DOMAIN mc') /\ Distinct(w \o done.nodes)
        /\ Range(w \o done.nodes) = Range(w) \cup Range(done.nodes)
    BY <1>8, <2>1, <2>2, <2>3, <2>4, Concatenated
  <2>6. nodes' = w \o done.nodes  BY <1>1 DEF w
  <2> QED BY <1>8, <1>10, <2>1, <2>5, <2>6
<1>13. Listed'
  <2>1. Front(nodesToSpill) \in Seq(DOMAIN mc')  BY <1>2, <1>3, <1>5, <1>10, SeqWithin
  <2>2. <<>> \in Seq(DOMAIN mc')  BY EmptySeq
  <2>3. OnceOver(nodes', <<>>, DOMAIN mc')  BY <1>12, <2>2, EmptyOver DEF OnceOver
  <2>4. DOMAIN mc' \subseteq Names'  BY <1>2, <1>8, <1>9, <1>10
  <2>5. Range(Front(nodesToSpill)) \subseteq Range(nodes')  BY <1>2, <1>3, <1>5, <1>10, <1>12
  <2> QED BY <1>1, <1>3, <1>4, <2>1, <2>3, <2>4, <2>5 DEF Listed
<1>14. Phases' /\ MovesToCome' /\ SelectedRight'
  BY <1>1 DEF Phases, MovesToCome, SelectedRight
<1>15. Barred'
  <2> SUFFICES ASSUME NEW m \in DOMAIN mc', NEW r \in Color \ class'[m]
               PROVE  {m, r} \in edges'
    BY DEF Barred
  <2>1. CASE m \in DOMAIN done.mc
    <3>1. {m, r} \in ArchEdges(m, done.class[m])  BY <1>1 DEF ArchEdges
    <3> QED BY <1>1, <2>1, <3>1
  <2>2. CASE m \in DOMAIN mc \ {n}
    <3>1. m \in Names /\ class'[m] = class[m]  BY <1>1, <1>2, <1>8, <2>2
    <3>2. {m, r} \in edges  BY <2>2, <3>1 DEF Barred
    <3>3. n \notin {m, r}  BY <1>6, <2>2 DEF Named, NameSet
    <3> QED BY <1>1, <3>2, <3>3
  <2> QED BY <1>10, <2>1, <2>2
<1>16. n \in Unspilled /\ Unspilled' \subseteq Unspilled \ {n}
  <2>1. n \in Unspilled  BY <1>1, <1>6 DEF Unspilled
  <2>2. ASSUME NEW m \in DOMAIN mc', ~mc'[m].spilled PROVE m \in Unspilled \ {n}
    <3>1. m \notin DOMAIN done.mc  BY <1>1, <1>8, <1>10, <2>2
    <3>2. m \in DOMAIN mc \ {n} /\ mc'[m] = mc[m]  BY <1>1, <1>10, <3>1
    <3> QED BY <2>2, <3>2 DEF Unspilled
  <2> QED BY <2>1, <2>2 DEF Unspilled
<1> QED BY <1>1, <1>8, <1>11, <1>13, <1>14, <1>15, <1>16

-----------------------------------------------------------------------------
(* What holds *)

LEMMA NextHolds == ASSUME IInv, [Next]_vars PROVE IInv'
<1>1. CASE Next
  BY <1>1, ChainsHolds, BuildHolds, CoalesceHolds, DeleteHolds, SimplifyHolds, SelectHolds,
     SpillHolds, RestartHolds, UnchangedHolds DEF Next, Stopped
<1> QED BY <1>1, UnchangedHolds

\* The inductive invariant: names, multichains, graph, stack, moves and colours agree
\* in every state, whatever has been merged, deleted, coloured or spilled.
THEOREM AllocationInvariant == Spec => []IInv
BY InitHolds, NextHolds, PTL DEF Spec

\* A register of the class of every multichain of an allocated routine: a merge joins
\* names of one class only, and select looks no further than the edges to registers,
\* which merges and spills must therefore keep.
THEOREM ClassesKept == Spec => []ClassesRespected
<1>1. ASSUME IInv PROVE ClassesRespected
  <2> SUFFICES ASSUME phase = "done", NEW n \in DOMAIN mc PROVE color[n] \in class[n]
    BY DEF ClassesRespected
  <2>1. nodeStack = <<>> /\ nodesToSpill = <<>>  BY <1>1 DEF IInv, Phases
  <2>2. n \in Coloured
    BY <1>1, <2>1, EmptyOver DEF IInv, Listed, OnceOver, Coloured
  <2> QED BY <1>1, <2>2 DEF IInv, SelectedRight
<1> QED BY <1>1, AllocationInvariant, PTL

\* Names with an edge have different registers in an allocated routine.
NeighboursApart ==
    phase = "done" =>
        \A n, m \in DOMAIN mc : n # m /\ {n, m} \in edges => color[n] # color[m]

THEOREM NeighboursKeptApart == Spec => []NeighboursApart
<1>1. ASSUME IInv PROVE NeighboursApart
  <2> SUFFICES ASSUME phase = "done", NEW n \in DOMAIN mc, NEW m \in DOMAIN mc,
                      n # m, {n, m} \in edges
               PROVE  color[n] # color[m]
    BY DEF NeighboursApart
  <2>1. nodeStack = <<>> /\ nodesToSpill = <<>>  BY <1>1 DEF IInv, Phases
  <2>2. n \in Coloured /\ m \in Coloured
    BY <1>1, <2>1, EmptyOver DEF IInv, Listed, OnceOver, Coloured
  <2> QED BY <1>1, <2>2 DEF IInv, SelectedRight
<1> QED BY <1>1, AllocationInvariant, PTL

-----------------------------------------------------------------------------
(* The end *)

LEMMA FuelOf ==
    ASSUME IInv
    PROVE  /\ IsFiniteSet(Moves(code) \ marked) /\ IsFiniteSet(Unspilled)
           /\ Fuel = 2 * Cardinality(Moves(code) \ marked) + Cardinality(Unspilled)
<1>1. IsFiniteSet(Moves(code) \ marked)  BY RoutineParts, FS_Subset DEF IInv, Named
<1>2. Unspilled \subseteq Names  BY DEF IInv, Listed, Unspilled
<1>3. IsFiniteSet(Unspilled)  BY <1>2, FS_Subset DEF IInv, Named, NameSet
<1> QED BY <1>1, <1>3 DEF Fuel, Unspilled

\* Fewer moves or fewer names that were never spilled, and less fuel.
LEMMA Burnt ==
    ASSUME NEW M, NEW U, NEW M1, NEW U1, IsFiniteSet(M), IsFiniteSet(U),
           \/ \E o \in M : \E u : M1 \subseteq M \ {o} /\ U1 \subseteq U \cup {u}
           \/ \E n \in U : M1 \subseteq M /\ U1 \subseteq U \ {n}
    PROVE  2 * Cardinality(M1) + Cardinality(U1) < 2 * Cardinality(M) + Cardinality(U)
<1>1. PICK a \in Nat, b \in Nat : a = Cardinality(M) /\ b = Cardinality(U)
  BY FS_CardinalityType
<1>2. ASSUME NEW o \in M, NEW u, M1 \subseteq M \ {o}, U1 \subseteq U \cup {u}
      PROVE  2 * Cardinality(M1) + Cardinality(U1) < 2 * Cardinality(M) + Cardinality(U)
  <2>1. IsFiniteSet(M \ {o}) /\ Cardinality(M \ {o}) = a - 1  BY <1>1, FS_RemoveElement
  <2>2. IsFiniteSet(U \cup {u}) /\ (Cardinality(U \cup {u}) = b \/ Cardinality(U \cup {u}) = b + 1)
    BY <1>1, FS_AddElement
  <2>3. PICK c \in Nat : c = Cardinality(M1) /\ c <= a - 1
    BY <1>2, <2>1, FS_Subset, FS_CardinalityType
  <2>4. PICK d \in Nat : d = Cardinality(U1) /\ d <= b + 1
    <3>1. PICK e \in Nat : e = Cardinality(U \cup {u}) /\ e <= b + 1  BY <2>2
    <3>2. IsFiniteSet(U1) /\ Cardinality(U1) <= e  BY <1>2, <2>2, <3>1, FS_Subset
    <3>3. PICK d \in Nat : d = Cardinality(U1)  BY <3>2, FS_CardinalityType
    <3> QED BY <3>1, <3>2, <3>3
  <2> QED BY <1>1, <2>3, <2>4
<1>3. ASSUME NEW n \in U, M1 \subseteq M, U1 \subseteq U \ {n}
      PROVE  2 * Cardinality(M1) + Cardinality(U1) < 2 * Cardinality(M) + Cardinality(U)
  <2>1. IsFiniteSet(U \ {n}) /\ Cardinality(U \ {n}) = b - 1  BY <1>1, FS_RemoveElement
  <2>2. PICK c \in Nat : c = Cardinality(M1) /\ c <= a
    BY <1>1, <1>3, FS_Subset, FS_CardinalityType
  <2>3. PICK d \in Nat : d = Cardinality(U1) /\ d <= b - 1
    BY <1>3, <2>1, FS_Subset, FS_CardinalityType
  <2> QED BY <1>1, <2>2, <2>3
<1> QED BY <1>2, <1>3

LEMMA StepBurns ==
    ASSUME IInv, Next, phase # "chains", DOMAIN mc' # DOMAIN mc
    PROVE  Fuel' < Fuel
<1>1. IInv'  BY NextHolds
<1>2. CoalesceOper \/ Spill
  BY DEF Next, Chains, Build, DeleteUselessIR, Simplify, Select, Restart, Stopped, vars
<1> DEFINE M == Moves(code) \ marked
           M1 == Moves(code') \ marked'
<1>3. \/ \E o \in M : \E u : M1 \subseteq M \ {o} /\ Unspilled' \subseteq Unspilled \cup {u}
      \/ \E n \in Unspilled : M1 \subseteq M /\ Unspilled' \subseteq Unspilled \ {n}
  <2>1. CASE CoalesceOper
    <3>1. PICK o \in OpsOf(code) :
             /\ o.id \in M /\ marked' = marked \cup {o.id} /\ Moves(code') = Moves(code)
             /\ \E use : \A n \in DOMAIN mc' : n = use \/ mc'[n] = mc[n]
             /\ DOMAIN mc' \subseteq DOMAIN mc
      BY <2>1, CoalesceHolds
    <3>2. PICK use : \A n \in DOMAIN mc' : n = use \/ mc'[n] = mc[n]  BY <3>1
    <3>3. M1 \subseteq M \ {o.id}  BY <3>1
    <3>4. Unspilled' \subseteq Unspilled \cup {use}  BY <3>1, <3>2 DEF Unspilled
    <3> QED BY <3>1, <3>3, <3>4
  <2>2. CASE Spill
    <3>1. PICK n \in Unspilled : Unspilled' \subseteq Unspilled \ {n}  BY <2>2, SpillHolds
    <3>2. M1 \subseteq M  BY <2>2, SpillHolds
    <3> QED BY <3>1, <3>2
  <2> QED BY <1>2, <2>1, <2>2
<1>4. IsFiniteSet(M) /\ IsFiniteSet(Unspilled) /\ Fuel = 2 * Cardinality(M) + Cardinality(Unspilled)
  BY FuelOf
<1>5. Fuel' = 2 * Cardinality(M1) + Cardinality(Unspilled')
  BY DEF Fuel, Unspilled
<1> HIDE DEF M, M1
<1>6. 2 * Cardinality(M1) + Cardinality(Unspilled') < 2 * Cardinality(M) + Cardinality(Unspilled)
  BY <1>3, <1>4, Burnt
<1> QED BY <1>4, <1>5, <1>6

\* Once there are multichains, a step that makes, merges or removes one uses up fuel:
\* the moves still there, twice, and the names that no spill made.
THEOREM AllocationEnds == Spec => Ends
<1>1. ASSUME IInv, [Next]_vars
      PROVE  [phase # "chains" /\ DOMAIN mc' # DOMAIN mc => Fuel' < Fuel]_vars
  BY <1>1, StepBurns DEF vars
<1> QED BY <1>1, AllocationInvariant, PTL DEF Spec, Ends

-----------------------------------------------------------------------------
(* What an id tells *)

\* An operation of a renamed routine.
OpAfter(i, o, defs, uses, n, m) ==
    [id |-> o.id, kind |-> o.kind,
     dest |-> IF i.id \in defs /\ o.dest = n THEN m ELSE o.dest,
     srcs |-> IF i.id \in uses
              THEN [j \in DOMAIN o.srcs |-> IF o.srcs[j] = n THEN m ELSE o.srcs[j]] ELSE o.srcs,
     slot |-> o.slot]

LEMMA NewInstrOf ==
    ASSUME NEW N, NEW i \in InstrOver(N), NEW defs, NEW uses, NEW n, NEW m
    PROVE  /\ NewInstr(i, defs, uses, n, m) =
                [id |-> i.id, ops |-> [k \in DOMAIN i.ops |-> OpAfter(i, i.ops[k], defs, uses, n, m)]]
<1> DEFINE Dest(o) == [o EXCEPT !.dest = IF o.dest = n THEN m ELSE o.dest]
           Src(o) == [j \in DOMAIN o.srcs |-> IF o.srcs[j] = n THEN m ELSE o.srcs[j]]
           Srcs(o) == [o EXCEPT !.srcs = Src(o)]
           D == DOMAIN i.ops
           After(o) == OpAfter(i, o, defs, uses, n, m)
<1>1. i.ops \in Seq(OpOver(N)) /\ i = [id |-> i.id, ops |-> i.ops]  BY DEF InstrOver
<1>2. \A k \in D : i.ops[k] \in OpOver(N)
  <2>1. D = 1..Len(i.ops)  BY <1>1, RangeOf
  <2> QED BY <1>1, <2>1, ElementOfSeq
<1>3. RenameDef(i, n, m) = [id |-> i.id, ops |-> [k \in D |-> Dest(i.ops[k])]]
  <2> DEFINE d == [k \in D |-> Dest(i.ops[k])]
  <2>1. RenameDef(i, n, m) = [i EXCEPT !.ops = d]  BY DEF RenameDef
  <2> HIDE DEF d
  <2>2. [i EXCEPT !.ops = d] = [id |-> i.id, ops |-> d]  BY <1>1
  <2> QED BY <2>1, <2>2 DEF d
<1>4. \A j : j.id = i.id /\ j = [id |-> j.id, ops |-> j.ops] =>
         RenameUse(j, n, m) = [id |-> i.id, ops |-> [k \in DOMAIN j.ops |-> Srcs(j.ops[k])]]
  BY DEF RenameUse
<1>5. \A o \in OpOver(N) :
        o = [id |-> o.id, kind |-> o.kind, dest |-> o.dest, srcs |-> o.srcs, slot |-> o.slot]
  BY DEF OpOver
<1>6. i.ops = [k \in D |-> i.ops[k]]
  <2>1. i.ops \in [1..Len(i.ops) -> OpOver(N)] /\ D = 1..Len(i.ops)
    BY <1>1, LenProperties
  <2> QED BY <2>1
<1>7. CASE i.id \in defs /\ i.id \in uses
  <2> DEFINE j == RenameDef(i, n, m)
  <2>1. NewInstr(i, defs, uses, n, m) = RenameUse(j, n, m)
    <3>1. j.id = i.id  BY <1>3
    <3> QED BY <1>7, <3>1 DEF NewInstr
  <2>2. j.id = i.id /\ j = [id |-> j.id, ops |-> j.ops] /\ DOMAIN j.ops = D
        /\ \A k \in D : j.ops[k] = Dest(i.ops[k])
    BY <1>3
  <2> HIDE DEF j, Srcs, Dest
  <2>3. RenameUse(j, n, m) = [id |-> i.id, ops |-> [k \in D |-> Srcs(Dest(i.ops[k]))]]
    BY <1>4, <2>2
  <2>4. ASSUME NEW o \in OpOver(N) PROVE Srcs(Dest(o)) = After(o)
    <3> DEFINE dest == IF o.dest = n THEN m ELSE o.dest
               p == Dest(o)
    <3>1. p = [id |-> o.id, kind |-> o.kind, dest |-> dest, srcs |-> o.srcs, slot |-> o.slot]
      BY <1>5 DEF Dest
    <3>2. Src(p) = Src(o)  BY <3>1
    <3> HIDE DEF p, dest, Src
    <3>3. Srcs(p) = [id |-> o.id, kind |-> o.kind, dest |-> dest, srcs |-> Src(o), slot |-> o.slot]
      BY <3>1, <3>2 DEF Srcs
    <3> QED BY <1>7, <3>3 DEF OpAfter, Src, dest, p
  <2> HIDE DEF After
  <2>5. [k \in D |-> Srcs(Dest(i.ops[k]))] = [k \in D |-> After(i.ops[k])]
    BY <1>2, <2>4
  <2> QED BY <2>1, <2>3, <2>5 DEF After
<1>8. CASE i.id \in defs /\ i.id \notin uses
  <2>1. NewInstr(i, defs, uses, n, m) = RenameDef(i, n, m)
    <3>1. RenameDef(i, n, m).id = i.id  BY <1>3
    <3> QED BY <1>8, <3>1 DEF NewInstr
  <2>2. \A o \in OpOver(N) : Dest(o) = After(o)  BY <1>5, <1>8 DEF OpAfter
  <2> HIDE DEF Dest, After
  <2>3. [k \in D |-> Dest(i.ops[k])] = [k \in D |-> After(i.ops[k])]  BY <1>2, <2>2
  <2> QED BY <1>3, <2>1, <2>3 DEF After
<1>9. CASE i.id \notin defs /\ i.id \in uses
  <2>1. NewInstr(i, defs, uses, n, m) = RenameUse(i, n, m)  BY <1>9 DEF NewInstr
  <2> HIDE DEF Srcs
  <2>2. RenameUse(i, n, m) = [id |-> i.id, ops |-> [k \in D |-> Srcs(i.ops[k])]]
    BY <1>1, <1>4
  <2>3. \A o \in OpOver(N) : Srcs(o) = After(o)  BY <1>5, <1>9 DEF OpAfter, Srcs
  <2> HIDE DEF After
  <2>4. [k \in D |-> Srcs(i.ops[k])] = [k \in D |-> After(i.ops[k])]  BY <1>2, <2>3
  <2> QED BY <2>1, <2>2, <2>4 DEF After
<1>10. CASE i.id \notin defs /\ i.id \notin uses
  <2>1. NewInstr(i, defs, uses, n, m) = i  BY <1>10 DEF NewInstr
  <2>2. \A o \in OpOver(N) : o = After(o)  BY <1>5, <1>10 DEF OpAfter
  <2> HIDE DEF After
  <2>3. i.ops = [k \in D |-> After(i.ops[k])]  BY <1>2, <1>6, <2>2
  <2> QED BY <1>1, <2>1, <2>3 DEF After
<1> QED BY <1>7, <1>8, <1>9, <1>10

LEMMA InstrsRenamed ==
    ASSUME NEW N, NEW cd \in Routine(N), NEW defs, NEW uses, NEW n, NEW m
    PROVE  \A j \in InstrsOf(Renamed(cd, defs, uses, n, m)) :
             \E i \in InstrsOf(cd) :
               /\ i \in InstrOver(N) /\ j = NewInstr(i, defs, uses, n, m)
               /\ j.id = i.id /\ DOMAIN j.ops = DOMAIN i.ops
               /\ \A k \in DOMAIN i.ops :
                    i.ops[k] \in OpOver(N) /\ j.ops[k] = OpAfter(i, i.ops[k], defs, uses, n, m)
<1> DEFINE ce == Renamed(cd, defs, uses, n, m)
<1>1. ce = [b \in Block |-> [k \in DOMAIN cd[b] |-> NewInstr(cd[b][k], defs, uses, n, m)]]
  BY DEF Renamed, NewInstr
<1>2. SUFFICES ASSUME NEW j \in InstrsOf(ce)
               PROVE  \E i \in InstrsOf(cd) :
                        /\ i \in InstrOver(N) /\ j = NewInstr(i, defs, uses, n, m)
                        /\ j.id = i.id /\ DOMAIN j.ops = DOMAIN i.ops
                        /\ \A k \in DOMAIN i.ops :
                             /\ i.ops[k] \in OpOver(N)
                             /\ j.ops[k] = OpAfter(i, i.ops[k], defs, uses, n, m)
  OBVIOUS
<1> HIDE DEF ce
<1>3. PICK b \in Block : \E k \in DOMAIN cd[b] : j = NewInstr(cd[b][k], defs, uses, n, m)
  BY <1>1, <1>2 DEF InstrsOf, Range
<1>4. PICK i \in InstrsOf(cd) : j = NewInstr(i, defs, uses, n, m)
  BY <1>3 DEF InstrsOf, Range
<1>5. i \in InstrOver(N)  BY RoutineParts
<1>6. j = [id |-> i.id, ops |-> [l \in DOMAIN i.ops |-> OpAfter(i, i.ops[l], defs, uses, n, m)]]
  BY <1>4, <1>5, NewInstrOf
<1>7. \A l \in DOMAIN i.ops : i.ops[l] \in OpOver(N)
  <2>1. i.ops \in Seq(OpOver(N))  BY <1>5 DEF InstrOver
  <2>2. DOMAIN i.ops = 1..Len(i.ops)  BY <2>1, RangeOf
  <2> QED BY <2>1, <2>2, ElementOfSeq
<1>8. /\ j.id = i.id /\ DOMAIN j.ops = DOMAIN i.ops
      /\ \A l \in DOMAIN i.ops : j.ops[l] = OpAfter(i, i.ops[l], defs, uses, n, m)
  BY <1>6
<1> QED BY <1>4, <1>5, <1>7, <1>8

LEMMA ApartRenamed ==
    ASSUME NEW N, NEW cd \in Routine(N), Apart(cd), NEW defs, NEW uses, NEW n, NEW m
    PROVE  Apart(Renamed(cd, defs, uses, n, m))
<1> DEFINE ce == Renamed(cd, defs, uses, n, m)
<1> SUFFICES ASSUME NEW i \in InstrsOf(ce), NEW j \in InstrsOf(ce)
             PROVE  /\ i.id = j.id => i = j
                    /\ \A o \in Range(i.ops), p \in Range(j.ops) : o.id = p.id => i = j /\ o = p
  BY DEF Apart
<1>1. PICK x \in InstrsOf(cd) :
         /\ i = NewInstr(x, defs, uses, n, m) /\ i.id = x.id /\ DOMAIN i.ops = DOMAIN x.ops
         /\ \A k \in DOMAIN x.ops : i.ops[k] = OpAfter(x, x.ops[k], defs, uses, n, m)
  BY InstrsRenamed
<1>2. PICK y \in InstrsOf(cd) :
         /\ j = NewInstr(y, defs, uses, n, m) /\ j.id = y.id /\ DOMAIN j.ops = DOMAIN y.ops
         /\ \A k \in DOMAIN y.ops : j.ops[k] = OpAfter(y, y.ops[k], defs, uses, n, m)
  BY InstrsRenamed
<1> HIDE DEF ce
<1>3. i.id = j.id => i = j  BY <1>1, <1>2 DEF Apart
<1>4. ASSUME NEW o \in Range(i.ops), NEW p \in Range(j.ops), o.id = p.id PROVE i = j /\ o = p
  <2>1. PICK k \in DOMAIN x.ops : o = OpAfter(x, x.ops[k], defs, uses, n, m)
    BY <1>1 DEF Range
  <2>2. PICK l \in DOMAIN y.ops : p = OpAfter(y, y.ops[l], defs, uses, n, m)
    BY <1>2 DEF Range
  <2>3. x.ops[k].id = y.ops[l].id  BY <1>4, <2>1, <2>2 DEF OpAfter
  <2>4. x.ops[k] \in Range(x.ops) /\ y.ops[l] \in Range(y.ops)  BY DEF Range
  <2>5. x = y /\ x.ops[k] = y.ops[l]  BY <2>3, <2>4 DEF Apart
  <2> QED BY <1>1, <1>2, <2>1, <2>2, <2>5
<1> QED BY <1>3, <1>4

\* An instruction without the operations marked.
Left(i, K) == [i EXCEPT !.ops = Kept(i.ops, {o \in Range(i.ops) : o.id \notin K})]

LEMMA LeftOf ==
    ASSUME NEW N, NEW i \in InstrOver(N), NEW K
    PROVE  /\ Left(i, K) \in InstrOver(N) /\ Left(i, K).id = i.id
           /\ Range(Left(i, K).ops) = {o \in Range(i.ops) : o.id \notin K}
<1> DEFINE T == {o \in Range(i.ops) : o.id \notin K}
           q == Kept(i.ops, T)
<1>1. i.id \in Nat /\ i.ops \in Seq(OpOver(N))  BY DEF InstrOver
<1>2. q \in Seq(OpOver(N)) /\ Range(q) = Range(i.ops) \cap T  BY <1>1, KeptMembers
<1>3. Left(i, K) = [i EXCEPT !.ops = q]  BY DEF Left
<1>4. Range(i.ops) \cap T = T  OBVIOUS
<1> HIDE DEF q
<1>5. Left(i, K).ops = q /\ Left(i, K).id = i.id /\ Left(i, K) \in InstrOver(N)
  BY <1>1, <1>2, <1>3 DEF InstrOver
<1> QED BY <1>2, <1>4, <1>5

LEMMA ApartUnmarked ==
    ASSUME NEW N, NEW cd \in Routine(N), Apart(cd)
    PROVE  /\ Apart(Unmarked(cd))
           /\ \A j \in InstrsOf(Unmarked(cd)) : \E i \in InstrsOf(cd) : j = Left(i, marked)
<1> DEFINE left(b) == [k \in DOMAIN cd[b] |-> Left(cd[b][k], marked)]
<1>1. ASSUME NEW b \in Block PROVE Range(Unmarked(cd)[b]) \subseteq Range(left(b))
  <2> DEFINE s == left(b)
             T == {i \in Range(s) : i.ops # <<>>}
  <2>1. Unmarked(cd)[b] = Kept(s, T)  BY DEF Unmarked, Left
  <2>2. s \in Seq(InstrOver(N))
    <3>1. cd[b] \in Seq(InstrOver(N))  BY DEF Routine
    <3>2. PICK l \in Nat : DOMAIN cd[b] = 1..l /\ \A k \in 1..l : cd[b][k] \in InstrOver(N)
      BY <3>1, RangeOf, ElementOfSeq
    <3>3. s \in [1..l -> InstrOver(N)]  BY <3>2, LeftOf
    <3> QED BY <3>3, GroupSeq
  <2> HIDE DEF s
  <2>3. Range(Kept(s, T)) = Range(s) \cap T  BY <2>2, KeptMembers
  <2> QED BY <2>1, <2>3 DEF s
<1>2. \A j \in InstrsOf(Unmarked(cd)) : \E i \in InstrsOf(cd) : j = Left(i, marked)
  <2> SUFFICES ASSUME NEW j \in InstrsOf(Unmarked(cd))
               PROVE  \E i \in InstrsOf(cd) : j = Left(i, marked)
    OBVIOUS
  <2>1. PICK b \in Block : j \in Range(Unmarked(cd)[b])  BY DEF InstrsOf
  <2>2. j \in Range(left(b))  BY <1>1, <2>1
  <2>3. PICK k \in DOMAIN cd[b] : j = Left(cd[b][k], marked)  BY <2>2 DEF Range
  <2>4. cd[b][k] \in InstrsOf(cd)  BY DEF InstrsOf, Range
  <2> QED BY <2>3, <2>4
<1>3. Apart(Unmarked(cd))
  <2> SUFFICES ASSUME NEW i \in InstrsOf(Unmarked(cd)), NEW j \in InstrsOf(Unmarked(cd))
               PROVE  /\ i.id = j.id => i = j
                      /\ \A o \in Range(i.ops), p \in Range(j.ops) : o.id = p.id => i = j /\ o = p
    BY DEF Apart
  <2>1. PICK x \in InstrsOf(cd) : i = Left(x, marked)  BY <1>2
  <2>2. PICK y \in InstrsOf(cd) : j = Left(y, marked)  BY <1>2
  <2>3. x \in InstrOver(N) /\ y \in InstrOver(N)  BY RoutineParts
  <2>4. i.id = x.id /\ Range(i.ops) \subseteq Range(x.ops)  BY <2>1, <2>3, LeftOf
  <2>5. j.id = y.id /\ Range(j.ops) \subseteq Range(y.ops)  BY <2>2, <2>3, LeftOf
  <2>6. i.id = j.id => i = j  BY <2>1, <2>2, <2>4, <2>5 DEF Apart
  <2>7. ASSUME NEW o \in Range(i.ops), NEW p \in Range(j.ops), o.id = p.id PROVE i = j /\ o = p
    BY <2>1, <2>2, <2>4, <2>5, <2>7 DEF Apart
  <2> QED BY <2>6, <2>7
<1> QED BY <1>2, <1>3

\* A fresh id is above those of the routine.
Under(cd, F) ==
    \A i \in InstrsOf(cd) : i.id < F /\ \A o \in Range(i.ops) : o.id < F

LEMMA FreshIdAbove ==
    ASSUME NEW N, NEW cd \in Routine(N), InstrsOf(cd) # {}
    PROVE  FreshId(cd) \in Nat /\ Under(cd, FreshId(cd))
<1> DEFINE Of(i) == {i.id} \cup {o.id : o \in Range(i.ops)}
           M == UNION {Of(i) : i \in InstrsOf(cd)}
<1>1. FreshId(cd) = 1 + Max(M) /\ FreshId(cd) \in Nat  BY FreshIdOf
<1>2. Max(M) \in M /\ \A x \in M : Max(M) >= x  BY FreshIdOf
<1>3. \A i \in InstrsOf(cd) : i \in InstrOver(N)  BY RoutineParts
<1>4. ASSUME NEW x \in M PROVE x < FreshId(cd)
  <2>1. M \subseteq Nat
    <3> SUFFICES ASSUME NEW i \in InstrsOf(cd) PROVE Of(i) \subseteq Nat
      OBVIOUS
    <3>1. i.id \in Nat /\ i.ops \in Seq(OpOver(N))  BY <1>3 DEF InstrOver
    <3>2. \A o \in Range(i.ops) : o \in OpOver(N)  BY <3>1, RangeOf
    <3> QED BY <3>1, <3>2 DEF OpOver
  <2>2. PICK y \in Nat : y = Max(M)  BY <1>2, <2>1
  <2>3. PICK z \in Nat : z = x /\ y >= z  BY <1>2, <2>1, <2>2
  <2> QED BY <1>1, <2>2, <2>3
<1>5. \A i \in InstrsOf(cd) : i.id \in M /\ \A o \in Range(i.ops) : o.id \in M  OBVIOUS
<1> QED BY <1>1, <1>4, <1>5 DEF Under

LEMMA UnderRenamed ==
    ASSUME NEW N, NEW cd \in Routine(N), NEW F, Under(cd, F), NEW defs, NEW uses, NEW n, NEW m
    PROVE  Under(Renamed(cd, defs, uses, n, m), F)
<1> SUFFICES ASSUME NEW j \in InstrsOf(Renamed(cd, defs, uses, n, m))
             PROVE  j.id < F /\ \A o \in Range(j.ops) : o.id < F
  BY DEF Under
<1>1. PICK i \in InstrsOf(cd) :
         /\ j.id = i.id /\ DOMAIN j.ops = DOMAIN i.ops
         /\ \A k \in DOMAIN i.ops : j.ops[k] = OpAfter(i, i.ops[k], defs, uses, n, m)
  BY InstrsRenamed
<1>2. \A o : OpAfter(i, o, defs, uses, n, m).id = o.id  BY DEF OpAfter
<1>3. \A k \in DOMAIN i.ops : j.ops[k].id = i.ops[k].id  BY <1>1, <1>2
<1> QED BY <1>1, <1>3 DEF Under, Range

\* New instructions are known by their ids.
LEMMA ApartMore ==
    ASSUME NEW cd, Apart(cd), NEW F \in Nat, Under(cd, F), Ids(cd) \subseteq Nat,
           \A i \in InstrsOf(cd) : \A o \in Range(i.ops) : o.id \in Nat,
           NEW ce, NEW kind, NEW dest, NEW srcs,
           \A i \in InstrsOf(ce) : \/ i \in InstrsOf(cd)
                                   \/ \E id \in Nat : F <= id /\ i = Memory(id, kind, dest, srcs)
    PROVE  Apart(ce)
<1> SUFFICES ASSUME NEW i \in InstrsOf(ce), NEW j \in InstrsOf(ce)
             PROVE  /\ i.id = j.id => i = j
                    /\ \A o \in Range(i.ops), p \in Range(j.ops) : o.id = p.id => i = j /\ o = p
  BY DEF Apart
<1> DEFINE Op(id) == [id |-> id, kind |-> kind, dest |-> dest, srcs |-> srcs, slot |-> slots]
           Mem(id) == Memory(id, kind, dest, srcs)
<1>1. \A id : Mem(id).id = id /\ Range(Mem(id).ops) = {Op(id)}
  <2> TAKE id
  <2>1. Mem(id) = [id |-> id, ops |-> <<Op(id)>>]  BY DEF Memory
  <2> HIDE DEF Mem, Op
  <2>2. Range(<<Op(id)>>) = {Op(id)}  BY DEF Range
  <2> QED BY <2>1, <2>2
<1>2. \A id : Op(id).id = id  OBVIOUS
<1> HIDE DEF Mem, Op
<1>3. \A x \in InstrsOf(cd) : x.id \in Nat /\ x.id < F /\ \A o \in Range(x.ops) : o.id \in Nat /\ o.id < F
  BY DEF Under, Ids
<1>4. CASE i \in InstrsOf(cd) /\ j \in InstrsOf(cd)  BY <1>4 DEF Apart
<1>5. ASSUME NEW a \in Nat, F <= a, i = Mem(a), j \in InstrsOf(cd)
      PROVE  i.id # j.id /\ \A o \in Range(i.ops), p \in Range(j.ops) : o.id # p.id
  <2>1. \A b \in Nat : b < F => a # b  BY <1>5
  <2> QED BY <1>1, <1>2, <1>3, <1>5, <2>1
<1>6. ASSUME NEW a \in Nat, F <= a, j = Mem(a), i \in InstrsOf(cd)
      PROVE  i.id # j.id /\ \A o \in Range(i.ops), p \in Range(j.ops) : o.id # p.id
  <2>1. \A b \in Nat : b < F => a # b  BY <1>6
  <2> QED BY <1>1, <1>2, <1>3, <1>6, <2>1
<1>7. ASSUME NEW a \in Nat, NEW b \in Nat, i = Mem(a), j = Mem(b)
      PROVE  /\ i.id = j.id => i = j
             /\ \A o \in Range(i.ops), p \in Range(j.ops) : o.id = p.id => i = j /\ o = p
  BY <1>1, <1>2, <1>7
<1> QED BY <1>4, <1>5, <1>6, <1>7 DEF Mem

\* What ids there are.
LEMMA IdsIn ==
    ASSUME NEW N, NEW cd \in Routine(N)
    PROVE  /\ Ids(cd) \subseteq Nat
           /\ \A i \in InstrsOf(cd) : \A o \in Range(i.ops) : o.id \in Nat /\ o \in OpOver(N)
<1>1. \A i \in InstrsOf(cd) : i \in InstrOver(N)  BY RoutineParts
<1>2. \A i \in InstrsOf(cd) : i.id \in Nat /\ i.ops \in Seq(OpOver(N))  BY <1>1 DEF InstrOver
<1>3. \A i \in InstrsOf(cd) : \A o \in Range(i.ops) : o \in OpOver(N)  BY <1>2, RangeOf
<1>4. Ids(cd) \subseteq Nat  BY <1>2 DEF Ids
<1>5. \A o \in OpOver(N) : o.id \in Nat  BY DEF OpOver
<1> QED BY <1>3, <1>4, <1>5

LEMMA SplitApart ==
    ASSUME Named, NEW acc, Grows(acc), Apart(acc.code), NEW n, NEW id \in Ids(code)
    PROVE  Apart(SpillDef(acc, n, id).code) /\ Apart(ReloadUse(acc, n, id).code)
<1> DEFINE m == FreshName(acc.class)
           N == DOMAIN acc.class
           F == FreshId(acc.code)
           one == Renamed(acc.code, {id}, {}, n, m)
           two == Renamed(acc.code, {}, {id}, n, m)
<1>1. acc.code \in Routine(N) /\ id \in Ids(acc.code) /\ InstrsOf(acc.code) # {}
  BY DEF Grows, Ids
<1>2. F \in Nat /\ Under(acc.code, F)  BY <1>1, FreshIdAbove
<1>3. /\ Apart(one) /\ Under(one, F) /\ Apart(two) /\ Under(two, F)
  BY <1>1, <1>2, ApartRenamed, UnderRenamed
<1>4. /\ InstrsOf(SpillDef(acc, n, id).code) \subseteq InstrsOf(one) \cup Stores(acc, id, m)
      /\ InstrsOf(ReloadUse(acc, n, id).code) \subseteq InstrsOf(two) \cup {Load(acc, m)}
  BY SpillDefGrows, ReloadUseGrows
<1>5. m = FreshName(acc.class)  OBVIOUS
<1> HIDE DEF m
<1> DEFINE M == N \cup {m}
<1>6. one \in Routine(M) /\ two \in Routine(M)  BY <1>5, Split DEF IsSplit
<1> HIDE DEF M, one, two
<1>7. /\ Ids(one) \subseteq Nat /\ \A i \in InstrsOf(one) : \A o \in Range(i.ops) : o.id \in Nat
      /\ Ids(two) \subseteq Nat /\ \A i \in InstrsOf(two) : \A o \in Range(i.ops) : o.id \in Nat
  BY <1>6, IdsIn
<1>8. \A i \in Stores(acc, id, m) : \E x \in Nat : F <= x /\ i = Memory(x, "store", None, <<m>>)
  <2> SUFFICES ASSUME NEW p \in StorePlaces(acc.code, id)
               PROVE  F + p[1] \in Nat /\ F <= F + p[1]
    BY DEF Stores
  <2>1. p[1] \in Block  BY <1>1, StorePlacesIn
  <2>2. p[1] \in Nat  BY <2>1, FS_CardinalityType, RegAllocAssumption
  <2> QED BY <1>2, <2>2
<1>9. \E x \in Nat : F <= x /\ Load(acc, m) = Memory(x, "load", m, <<>>)
  BY <1>2 DEF Load
<1> HIDE DEF F
<1>10. Apart(SpillDef(acc, n, id).code)
  <2>1. \A i \in InstrsOf(SpillDef(acc, n, id).code) :
           \/ i \in InstrsOf(one)
           \/ \E x \in Nat : F <= x /\ i = Memory(x, "store", None, <<m>>)
    BY <1>4, <1>8
  <2> QED BY <1>2, <1>3, <1>7, <2>1, ApartMore
<1>11. Apart(ReloadUse(acc, n, id).code)
  <2>1. \A i \in InstrsOf(ReloadUse(acc, n, id).code) :
           \/ i \in InstrsOf(two)
           \/ \E x \in Nat : F <= x /\ i = Memory(x, "load", m, <<>>)
    BY <1>4, <1>9
  <2> QED BY <1>2, <1>3, <1>7, <2>1, ApartMore
<1> QED BY <1>10, <1>11

LEMMA SpillsReloadsApart ==
    ASSUME Named, Names # {}, Apart(code), NEW n
    PROVE  Apart(SpillsReloads(n).code)
<1>1. PICK all \in Seq(InstrsOf(code)) : all = InOrder(code)  BY InOrderIn DEF Named
<1>2. PICK turn \in Nat : turn = Len(all) /\ DOMAIN all = 1..turn
                          /\ \A k \in 1..turn : all[k] \in InstrsOf(code)
  BY RangeOf, ElementOfSeq
<1>3. PICK t \in Nat : t = 2 * turn  OBVIOUS
<1>4. PICK h : /\ h[0] = Spilling /\ SpillsReloads(n) = h[t]
               /\ \A k \in 1..t : h[k] = SpillStep(n, all, turn, k, h[k - 1])
  <2>1. SpillsIn(n, all, turn)  BY <1>1, <1>2, SpillSteps
  <2> QED BY <1>3, <2>1 DEF SpillsIn
<1> DEFINE G == {k \in 0..t : Grows(h[k]) /\ Apart(h[k].code)}
<1>5. 0 \in G
  <2>1. DOMAIN <<>> = {} /\ 0 \in 0..t  OBVIOUS
  <2>2. Grows(Spilling) /\ Apart(Spilling.code)
    BY <2>1, EmptyOver DEF Grows, Spilling, Named, Names
  <2> QED BY <1>4, <2>1, <2>2
<1>6. ASSUME NEW k \in 1..t, k - 1 \in G PROVE k \in G
  <2> DEFINE j == IF k <= turn THEN k ELSE k - turn
             acc == h[k - 1]
             id == all[j].id
  <2>1. j \in 1..turn /\ k \in 0..t  BY <1>3
  <2>2. Grows(acc) /\ Apart(acc.code)  BY <1>6
  <2>3. h[k] = SpillStep(n, all, turn, k, acc)  BY <1>4
  <2> HIDE DEF acc
  <2>4. \/ h[k] = SpillDef(acc, n, id)
        \/ h[k] = ReloadUse(acc, n, id)
        \/ h[k] = acc
    BY <2>3 DEF SpillStep
  <2>5. id \in Ids(code)  BY <1>2, <2>1 DEF Ids
  <2> HIDE DEF id
  <2>6. Grows(SpillDef(acc, n, id)) /\ Grows(ReloadUse(acc, n, id))
    BY <2>2, <2>5, SpillDefGrows, ReloadUseGrows
  <2>7. Apart(SpillDef(acc, n, id).code) /\ Apart(ReloadUse(acc, n, id).code)
    BY <2>2, <2>5, SplitApart
  <2> QED BY <2>1, <2>2, <2>4, <2>6, <2>7
<1>7. t \in G
  <2>1. t \in 0..t  OBVIOUS
  <2> HIDE DEF G
  <2>2. 0..t \subseteq G  BY <1>5, <1>6, Upwards
  <2> QED BY <2>1, <2>2
<1> QED BY <1>4, <1>7

LEMMA StaysApart ==
    ASSUME IInv, Apart(code), [Next]_vars
    PROVE  Apart(code')
<1>1. CASE CoalesceOper
  <2>1. code' = code \/ \E ds, us, n, m : code' = Renamed(code, ds, us, n, m)
    BY <1>1 DEF CoalesceOper, Coalesce, RemoveMove
  <2> QED BY <2>1, ApartRenamed DEF IInv, Named
<1>2. CASE DeleteUselessIR
  BY <1>2, ApartUnmarked DEF DeleteUselessIR, IInv, Named
<1>3. CASE Spill
  <2>1. code' = SpillsReloads(Last(nodesToSpill)).code /\ nodesToSpill # <<>>
    BY <1>3 DEF Spill
  <2>2. Names # {}
    <3>1. nodesToSpill \in Seq(DOMAIN mc) /\ Distinct(nodesToSpill)  BY DEF IInv, Listed
    <3>2. Last(nodesToSpill) \in Range(nodesToSpill)  BY <2>1, <3>1, Popped
    <3>3. Range(nodesToSpill) \subseteq DOMAIN mc  BY <3>1, RangeOf
    <3> QED BY <3>2, <3>3 DEF IInv, Listed
  <2> QED BY <2>1, <2>2, SpillsReloadsApart DEF IInv
<1>4. CASE Chains \/ Build \/ Simplify \/ Select \/ Restart \/ UNCHANGED vars
  BY <1>4 DEF Chains, Build, Simplify, Select, Restart, vars
<1> QED BY <1>1, <1>2, <1>3, <1>4 DEF Next, Stopped

\* An id goes on telling what it is the id of, through renaming, deletion and the
\* instructions that spills add, so that a multichain's lists say which operands are its.
THEOREM IdsKeptApart == Spec => []Apart(code)
<1>1. Init => Apart(code)  BY ProgramsAssumption DEF Init
<1>2. IInv /\ Apart(code) /\ [Next]_vars => Apart(code)'
  <2>1. Apart(code)' <=> Apart(code')  BY DEF Apart, InstrsOf
  <2> QED BY <2>1, StaysApart
<1> QED BY <1>1, <1>2, AllocationInvariant, PTL DEF Spec

-----------------------------------------------------------------------------
(* Liveness *)

\* What is read at a position of a block, O below its end.
ReadAt(s, O, j) == IF j <= Len(s) THEN Uses(s[j]) ELSE O

\* n is read below position k of a block before it is written.
AliveAt(s, O, k, n) ==
    \E j \in (k + 1)..(Len(s) + 1) :
        n \in ReadAt(s, O, j) /\ \A i \in (k + 1)..(j - 1) : n \notin Defs(s[i])

\* The iteration that goes up a block finds what is alive.
LEMMA LiveAfterIs ==
    ASSUME NEW cd, NEW b \in Block, NEW out, Len(cd[b]) \in Nat
    PROVE  \A k \in 0..Len(cd[b]) : \A n :
             n \in LiveAfter(cd, b, out)[k] <=> AliveAt(cd[b], out[b], k, n)
<1> DEFINE s == cd[b]
           O == out[b]
           all == O \cup UNION {Uses(s[j]) : j \in 1..Len(s)}
           Alive(k) == {n \in all : AliveAt(s, O, k, n)}
           F == [k \in 0..Len(s) |-> Alive(k)]
           W(k, f) == IF k = Len(s) THEN O ELSE (f[k + 1] \ Defs(s[k + 1])) \cup Uses(s[k + 1])
           Goes(f) == f = [k \in 0..Len(s) |-> W(k, f)]
           h == CHOOSE f : Goes(f)
<1>1. LiveAfter(cd, b, out) = h  BY DEF LiveAfter
<1>2. PICK L \in Nat : L = Len(s)  OBVIOUS
<1> HIDE DEF s, O
<1>3. ASSUME NEW k \in 0..L, NEW n
      PROVE  n \in Alive(k) <=> AliveAt(s, O, k, n)
  <2>1. \A j \in (k + 1)..(L + 1) : j <= L => j \in 1..L  OBVIOUS
  <2>2. ASSUME NEW j \in (k + 1)..(L + 1), n \in ReadAt(s, O, j) PROVE n \in all
    BY <1>2, <2>1, <2>2 DEF ReadAt
  <2>3. AliveAt(s, O, k, n) => n \in all  BY <1>2, <2>2 DEF AliveAt
  <2> QED BY <2>3
<1> HIDE DEF all, Alive
<1>4. Alive(L) = O
  <2>1. \A n : AliveAt(s, O, L, n) <=> n \in O
    <3> TAKE n
    <3>1. \A j \in (L + 1)..(L + 1) : j = L + 1 /\ ~(j <= L) /\ (L + 1)..(j - 1) = {}  OBVIOUS
    <3>2. L + 1 \in (L + 1)..(L + 1)  OBVIOUS
    <3> QED BY <1>2, <3>1, <3>2 DEF AliveAt, ReadAt
  <2>2. L \in 0..L  OBVIOUS
  <2> QED BY <1>3, <2>1, <2>2
<1>5. ASSUME NEW k \in 0..L, k # L
      PROVE  Alive(k) = (Alive(k + 1) \ Defs(s[k + 1])) \cup Uses(s[k + 1])
  <2>1. k + 1 \in 0..L /\ k + 1 <= L  BY <1>5
  <2>2. ASSUME NEW n
        PROVE  AliveAt(s, O, k, n) <=>
                 n \in Uses(s[k + 1]) \/ (AliveAt(s, O, k + 1, n) /\ n \notin Defs(s[k + 1]))
    <3>1. ASSUME NEW j \in (k + 1)..(L + 1), n \in ReadAt(s, O, j),
                 \A i \in (k + 1)..(j - 1) : n \notin Defs(s[i])
          PROVE  n \in Uses(s[k + 1]) \/ (AliveAt(s, O, k + 1, n) /\ n \notin Defs(s[k + 1]))
      <4>1. CASE j = k + 1  BY <1>2, <2>1, <3>1, <4>1 DEF ReadAt
      <4>2. CASE j # k + 1
        <5>1. j \in (k + 1 + 1)..(L + 1) /\ k + 1 \in (k + 1)..(j - 1)  BY <2>1, <4>2
        <5>2. \A i \in (k + 1 + 1)..(j - 1) : i \in (k + 1)..(j - 1)  BY <2>1
        <5>3. n \notin Defs(s[k + 1])  BY <3>1, <5>1
        <5>4. \A i \in (k + 1 + 1)..(j - 1) : n \notin Defs(s[i])  BY <3>1, <5>2
        <5>5. AliveAt(s, O, k + 1, n)  BY <1>2, <3>1, <5>1, <5>4 DEF AliveAt
        <5> QED BY <5>3, <5>5
      <4> QED BY <4>1, <4>2
    <3>2. ASSUME n \in Uses(s[k + 1]) PROVE AliveAt(s, O, k, n)
      <4>1. k + 1 \in (k + 1)..(L + 1) /\ (k + 1)..(k + 1 - 1) = {}  BY <2>1
      <4>2. n \in ReadAt(s, O, k + 1)  BY <1>2, <2>1, <3>2 DEF ReadAt
      <4> QED BY <1>2, <4>1, <4>2 DEF AliveAt
    <3>3. ASSUME AliveAt(s, O, k + 1, n), n \notin Defs(s[k + 1]) PROVE AliveAt(s, O, k, n)
      <4>1. PICK j \in (k + 1 + 1)..(L + 1) :
               n \in ReadAt(s, O, j) /\ \A i \in (k + 1 + 1)..(j - 1) : n \notin Defs(s[i])
        BY <1>2, <3>3 DEF AliveAt
      <4>2. j \in (k + 1)..(L + 1)
            /\ \A i \in (k + 1)..(j - 1) : i = k + 1 \/ i \in (k + 1 + 1)..(j - 1)
        BY <2>1
      <4>3. \A i \in (k + 1)..(j - 1) : n \notin Defs(s[i])  BY <3>3, <4>1, <4>2
      <4> QED BY <1>2, <4>1, <4>2, <4>3 DEF AliveAt
    <3>4. AliveAt(s, O, k, n) =>
            \E j \in (k + 1)..(L + 1) :
               n \in ReadAt(s, O, j) /\ \A i \in (k + 1)..(j - 1) : n \notin Defs(s[i])
      BY <1>2 DEF AliveAt
    <3> QED BY <3>1, <3>2, <3>3, <3>4
  <2>3. \A n : n \in Alive(k) <=> AliveAt(s, O, k, n)  BY <1>3
  <2>4. \A n : n \in Alive(k + 1) <=> AliveAt(s, O, k + 1, n)  BY <1>3, <2>1
  <2> QED BY <2>2, <2>3, <2>4
<1>6. Goes(F)
  <2>1. \A k \in 0..L : F[k] = Alive(k)  BY <1>2
  <2>2. \A k \in 0..L : F[k] = W(k, F)
    <3> TAKE k \in 0..L
    <3>1. k # L => k + 1 \in 0..L  OBVIOUS
    <3> HIDE DEF F
    <3> QED BY <1>2, <1>4, <1>5, <2>1, <3>1
  <2>3. F = [k \in 0..L |-> F[k]]  BY <1>2
  <2> HIDE DEF F, W
  <2> QED BY <1>2, <2>2, <2>3
<1>7. Goes(h)
  <2> HIDE DEF Goes, F
  <2> QED BY <1>6
<1> HIDE DEF h
<1>8. \A k \in 0..L : h[k] = W(k, h)
  <2> HIDE DEF W
  <2> QED BY <1>2, <1>7
<1> HIDE DEF Goes
<1> DEFINE G == {k \in 0..L : h[L - k] = Alive(L - k)}
<1>9. 0 \in G
  <2>1. 0 \in 0..L /\ L - 0 = L /\ L \in 0..L  OBVIOUS
  <2> QED BY <1>2, <1>4, <1>8, <2>1
<1>10. ASSUME NEW k \in 1..L, k - 1 \in G PROVE k \in G
  <2>1. PICK j \in 0..L : j = L - k /\ j # L /\ j + 1 = L - (k - 1) /\ k \in 0..L  OBVIOUS
  <2>2. h[j + 1] = Alive(j + 1)  BY <1>10, <2>1
  <2>3. h[j] = Alive(j)  BY <1>2, <1>5, <1>8, <2>1, <2>2
  <2> QED BY <2>1, <2>3
<1>11. 0..L \subseteq G
  <2> HIDE DEF G
  <2> QED BY <1>9, <1>10, Upwards
<1>12. \A k \in 0..L : h[k] = Alive(k)
  <2> TAKE k \in 0..L
  <2>1. L - k \in 0..L /\ L - (L - k) = k  OBVIOUS
  <2>2. L - k \in G  BY <1>11, <2>1
  <2> QED BY <2>1, <2>2
<1> QED BY <1>1, <1>2, <1>3, <1>12 DEF s, O

\* What lives at the end of a block, and the iteration of compIn.
Out(in, b) == UNION {in[s] : s \in Succ[b]}
InSteps(cd, h, C) ==
    /\ LiveOut(cd) = [b \in Block |-> Out(h[C], b)]
    /\ h[0] = [b \in Block |-> {}]
    /\ \A n \in 1..C : \A b \in Block :
         h[n][b] = UpwardUses(cd)[b] \cup (Out(h[n - 1], b) \ DefsOf(cd)[b])

LEMMA LiveOutSteps ==
    ASSUME NEW cd
    PROVE  \E h : InSteps(cd, h, Cardinality(Block))
<1>1. PICK t \in Nat : t = Cardinality(Block)  BY FS_CardinalityType, RegAllocAssumption
<1> DEFINE W(k, f) == IF k = 0 THEN [b \in Block |-> {}]
                      ELSE [b \in Block |-> UpwardUses(cd)[b]
                                              \cup (Out(f[k - 1], b) \ DefsOf(cd)[b])]
           Goes(k, f) == f = [j \in 0..k |-> W(j, f)]
           G == {k \in 0..t : \E f : Goes(k, f)}
<1>2. 0 \in G
  <2> DEFINE f == [j \in 0..0 |-> [b \in Block |-> {}]]
  <2>1. Goes(0, f)  OBVIOUS
  <2> HIDE DEF Goes, f
  <2> QED BY <2>1
<1>3. ASSUME NEW k \in 1..t, k - 1 \in G PROVE k \in G
  <2>1. PICK f : Goes(k - 1, f)  BY <1>3
  <2> DEFINE g == [j \in 0..k |-> IF j = k THEN W(k, f) ELSE f[j]]
  <2>2. \A j \in 0..k : j # k => j \in 0..(k - 1) /\ (j # 0 => j - 1 \in 0..k /\ j - 1 # k)
    OBVIOUS
  <2>3. k # 0 /\ k - 1 \in 0..k /\ k - 1 # k  OBVIOUS
  <2>4. \A j \in 0..k : g[j] = W(j, g)
    <3> TAKE j \in 0..k
    <3>1. CASE j = k  BY <2>3, <3>1
    <3>2. CASE j # k
      <4>1. g[j] = W(j, f)  BY <2>1, <2>2, <3>2
      <4> QED BY <2>2, <3>2, <4>1
    <3> QED BY <3>1, <3>2
  <2>5. Goes(k, g)
    <3> HIDE DEF W
    <3> QED BY <2>4
  <2> HIDE DEF Goes, g
  <2> QED BY <2>5
<1>4. t \in G
  <2>1. t \in 0..t  OBVIOUS
  <2> HIDE DEF G
  <2>2. 0..t \subseteq G  BY <1>2, <1>3, Upwards
  <2> QED BY <2>1, <2>2
<1> DEFINE h == CHOOSE f : Goes(t, f)
<1>5. Goes(t, h)
  <2>1. \E f : Goes(t, f)  BY <1>4
  <2> HIDE DEF Goes
  <2> QED BY <2>1
<1>6. LiveOut(cd) = [b \in Block |-> Out(h[t], b)]  BY <1>1 DEF LiveOut, Out
<1> HIDE DEF h
<1>7. \A k \in 0..t : h[k] = W(k, h)
  <2> HIDE DEF W
  <2> QED BY <1>5
<1>8. h[0] = [b \in Block |-> {}]
      /\ \A n \in 1..t : \A b \in Block :
           h[n][b] = UpwardUses(cd)[b] \cup (Out(h[n - 1], b) \ DefsOf(cd)[b])
  <2>1. 0 \in 0..t /\ \A k \in 1..t : k \in 0..t /\ k # 0  OBVIOUS
  <2>2. h[0] = [b \in Block |-> {}]  BY <1>7, <2>1
  <2>3. ASSUME NEW n \in 1..t, NEW b \in Block
        PROVE  h[n][b] = UpwardUses(cd)[b] \cup (Out(h[n - 1], b) \ DefsOf(cd)[b])
    <3>1. h[n] = W(n, h) /\ n # 0  BY <1>7, <2>1
    <3>2. h[n] = [c \in Block |-> UpwardUses(cd)[c] \cup (Out(h[n - 1], c) \ DefsOf(cd)[c])]
      BY <3>1
    <3> QED BY <3>2
  <2> QED BY <2>2, <2>3
<1> QED BY <1>1, <1>6, <1>8 DEF InSteps

\* What lives at the head of a block.
LEMMA InIs ==
    ASSUME NEW cd, NEW b \in Block, Len(cd[b]) \in Nat, DOMAIN cd[b] = 1..Len(cd[b]), NEW O, NEW n
    PROVE  n \in UpwardUses(cd)[b] \cup (O \ DefsOf(cd)[b]) <=> AliveAt(cd[b], O, 0, n)
<1> DEFINE s == cd[b]
<1>1. PICK L \in Nat : L = Len(s) /\ DOMAIN s = 1..L  OBVIOUS
<1>2. UpwardUses(cd)[b] = UNION {Uses(s[k]) \ UNION {Defs(s[j]) : j \in 1..(k - 1)} : k \in 1..L}
  BY <1>1 DEF UpwardUses
<1>3. DefsOf(cd)[b] = UNION {Defs(s[j]) : j \in 1..L}
  BY <1>1 DEF DefsOf, Range
<1> HIDE DEF s
<1>4. AliveAt(s, O, 0, n) <=>
        \/ \E k \in 1..L : n \in Uses(s[k]) /\ \A i \in 1..(k - 1) : n \notin Defs(s[i])
        \/ n \in O /\ \A i \in 1..L : n \notin Defs(s[i])
  <2>1. \A j \in 1..(L + 1) : j \in 1..L \/ j = L + 1  OBVIOUS
  <2>2. \A j \in 1..L : j \in 1..(L + 1) /\ j <= L  OBVIOUS
  <2>3. L + 1 \in 1..(L + 1) /\ ~(L + 1 <= L) /\ L + 1 - 1 = L /\ 0 + 1 = 1  OBVIOUS
  <2> QED BY <1>1, <2>1, <2>2, <2>3 DEF AliveAt, ReadAt
<1> QED BY <1>2, <1>3, <1>4 DEF s

\* What interferes.
LEMMA InterferencesIs ==
    ASSUME NEW N, NEW cd \in Routine(N)
    PROVE  \A e : e \in Interferences(cd) <=>
             \E b \in Block : \E k \in DOMAIN cd[b] : \E d \in Defs(cd[b][k]) : \E l :
                 AliveAt(cd[b], LiveOut(cd)[b], k, l) /\ e = {d, l}
<1> DEFINE out == LiveOut(cd)
<1>1. Interferences(cd) =
        UNION {UNION {{{d, l} : d \in Defs(cd[b][k]), l \in LiveAfter(cd, b, out)[k]} :
                        k \in DOMAIN cd[b]} : b \in Block}
  BY DEF Interferences
<1>2. ASSUME NEW b \in Block, NEW k \in DOMAIN cd[b], NEW l
      PROVE  l \in LiveAfter(cd, b, out)[k] <=> AliveAt(cd[b], out[b], k, l)
  <2>1. cd[b] \in Seq(InstrOver(N))  BY DEF Routine
  <2>2. PICK L \in Nat : L = Len(cd[b]) /\ DOMAIN cd[b] = 1..L  BY <2>1, RangeOf
  <2>3. k \in 0..Len(cd[b])  BY <2>2
  <2> HIDE DEF out
  <2> QED BY <2>2, <2>3, LiveAfterIs
<1> HIDE DEF out
<1> DEFINE At(b, k) == {{d, l} : d \in Defs(cd[b][k]), l \in LiveAfter(cd, b, out)[k]}
           In(b) == UNION {At(b, k) : k \in DOMAIN cd[b]}
<1>3. Interferences(cd) = UNION {In(b) : b \in Block}  BY <1>1
<1> DEFINE Meets(e, b, k) == \E d \in Defs(cd[b][k]) : \E l :
                               AliveAt(cd[b], out[b], k, l) /\ e = {d, l}
<1>4. ASSUME NEW b \in Block, NEW k \in DOMAIN cd[b], NEW e
      PROVE  e \in At(b, k) <=> Meets(e, b, k)
  BY <1>2
<1> HIDE DEF At, Meets
<1>5. ASSUME NEW e
      PROVE  e \in Interferences(cd) <=> \E b \in Block : \E k \in DOMAIN cd[b] : e \in At(b, k)
  BY <1>3
<1>6. ASSUME NEW e
      PROVE  e \in Interferences(cd) <=> \E b \in Block : \E k \in DOMAIN cd[b] : Meets(e, b, k)
  BY <1>4, <1>5
<1> QED BY <1>6 DEF out, Meets

-----------------------------------------------------------------------------
(* Merges and deletions make no interference *)

\* Block s is t with def renamed to use, without some instructions and without
\* moves that read use to write what is now use.
Image(def, use, y) == IF y = def THEN use ELSE y
TracesBy(e, s, t, def, use) ==
    /\ e \in [0..(Len(s) + 1) -> 0..(Len(t) + 1)]
    /\ e[0] = 0 /\ e[Len(s) + 1] = Len(t) + 1
    /\ \A j, k \in 0..(Len(s) + 1) : j < k => e[j] < e[k]
    /\ \A k \in 1..Len(s) :
         /\ \A n \in Uses(s[k]) : \E y \in Uses(t[e[k]]) : n = Image(def, use, y)
         /\ \A n \in Defs(s[k]) : \E y \in Defs(t[e[k]]) : n = Image(def, use, y)
    /\ \A i \in 1..Len(t) : \A y \in Defs(t[i]) :
         \/ \E k \in 1..Len(s) : e[k] = i /\ Image(def, use, y) \in Defs(s[k])
         \/ Image(def, use, y) = use /\ use \in Uses(t[i])
Traces(cd, ce, def, use) == \A b \in Block : \E e : TracesBy(e, cd[b], ce[b], def, use)

\* What is alive in s is the image of something alive in t: of the first that t reads.
LEMMA AliveTraced ==
    ASSUME NEW s, NEW t, Len(s) \in Nat, Len(t) \in Nat, NEW def, NEW use,
           NEW e, TracesBy(e, s, t, def, use),
           NEW O, NEW Q, \A n \in O : \E y \in Q : n = Image(def, use, y),
           NEW k \in 0..Len(s), NEW n, AliveAt(s, O, k, n)
    PROVE  \E y : AliveAt(t, Q, e[k], y) /\ n = Image(def, use, y)
<1>1. PICK L \in Nat, M \in Nat : L = Len(s) /\ M = Len(t)  OBVIOUS
<1>2. PICK j \in (k + 1)..(L + 1) :
         n \in ReadAt(s, O, j) /\ \A i \in (k + 1)..(j - 1) : n \notin Defs(s[i])
  BY <1>1 DEF AliveAt
<1>3. /\ e \in [0..(L + 1) -> 0..(M + 1)] /\ e[0] = 0 /\ e[L + 1] = M + 1
      /\ \A a, b \in 0..(L + 1) : a < b => e[a] < e[b]
      /\ \A a \in 1..L : \A x \in Uses(s[a]) : \E y \in Uses(t[e[a]]) : x = Image(def, use, y)
      /\ \A i \in 1..M : \A y \in Defs(t[i]) :
           \/ \E a \in 1..L : e[a] = i /\ Image(def, use, y) \in Defs(s[a])
           \/ Image(def, use, y) = use /\ use \in Uses(t[i])
  BY <1>1 DEF TracesBy
<1>4. PICK p \in Nat, q \in Nat : p = e[k] /\ q = e[j] /\ p < q /\ q <= M + 1
  <2>1. k \in 0..(L + 1) /\ j \in 0..(L + 1) /\ k < j  BY <1>1
  <2>2. e[k] \in 0..(M + 1) /\ e[j] \in 0..(M + 1) /\ e[k] < e[j]  BY <1>3, <2>1
  <2> QED BY <2>2
<1>5. \E y \in ReadAt(t, Q, q) : n = Image(def, use, y)
  <2>1. CASE j <= L
    <3>1. j \in 1..L /\ j \in 0..(L + 1) /\ L + 1 \in 0..(L + 1) /\ j < L + 1  BY <1>1, <2>1
    <3>2. e[j] < e[L + 1]  BY <1>3, <3>1
    <3>3. q <= M  BY <1>3, <1>4, <3>2
    <3>4. n \in Uses(s[j])  BY <1>1, <1>2, <2>1 DEF ReadAt
    <3> QED BY <1>1, <1>3, <1>4, <3>1, <3>3, <3>4 DEF ReadAt
  <2>2. CASE ~(j <= L)
    <3>1. j = L + 1  BY <1>1, <2>2
    <3>2. n \in O  BY <1>1, <1>2, <2>2 DEF ReadAt
    <3>3. q = M + 1 /\ ~(q <= M)  BY <1>3, <1>4, <3>1
    <3> QED BY <1>1, <3>2, <3>3 DEF ReadAt
  <2> QED BY <2>1, <2>2
<1> DEFINE P == {i \in (p + 1)..(M + 1) : \E y \in ReadAt(t, Q, i) : n = Image(def, use, y)}
<1>6. PICK m \in P : \A i \in P : m <= i
  <2>1. q \in P  BY <1>4, <1>5
  <2>2. P \subseteq Nat  OBVIOUS
  <2> HIDE DEF P
  <2> QED BY <2>1, <2>2, Smallest
<1>7. m \in (p + 1)..(M + 1) /\ m <= q  BY <1>4, <1>5, <1>6
<1>8. PICK y \in ReadAt(t, Q, m) : n = Image(def, use, y)  BY <1>6
<1>9. ASSUME NEW i \in (p + 1)..(m - 1) PROVE y \notin Defs(t[i])
  <2> SUFFICES ASSUME y \in Defs(t[i]) PROVE FALSE
    OBVIOUS
  <2>1. i \in 1..M /\ i \in (p + 1)..(M + 1) /\ i < m /\ i < q /\ p < i /\ i <= M
    BY <1>4, <1>7
  <2>2. CASE \E a \in 1..L : e[a] = i /\ n \in Defs(s[a])
    <3>1. PICK a \in 1..L : e[a] = i /\ n \in Defs(s[a])  BY <2>2
    <3>2. a \in 0..(L + 1) /\ k \in 0..(L + 1) /\ j \in 0..(L + 1)  BY <1>1
    <3>3. k < a
      <4>1. ~(e[a] < e[k]) /\ e[a] # e[k]  BY <1>4, <2>1, <3>1
      <4>2. ~(a < k) /\ a # k  BY <1>3, <3>2, <4>1
      <4> QED BY <3>2, <4>2
    <3>4. a < j
      <4>1. ~(e[j] < e[a]) /\ e[a] # e[j]  BY <1>4, <2>1, <3>1
      <4>2. ~(j < a) /\ a # j  BY <1>3, <3>2, <4>1
      <4> QED BY <3>2, <4>2
    <3>5. a \in (k + 1)..(j - 1)  BY <3>2, <3>3, <3>4
    <3> QED BY <1>2, <3>1, <3>5
  <2>3. CASE n = use /\ use \in Uses(t[i])
    <3>1. use \in ReadAt(t, Q, i)  BY <1>1, <2>1, <2>3 DEF ReadAt
    <3>2. Image(def, use, use) = use  BY DEF Image
    <3>3. i \in P  BY <2>1, <2>3, <3>1, <3>2
    <3> QED BY <1>6, <1>7, <2>1, <3>3
  <2> QED BY <1>3, <1>8, <2>1, <2>2, <2>3
<1>10. AliveAt(t, Q, p, y)  BY <1>1, <1>7, <1>8, <1>9 DEF AliveAt
<1> QED BY <1>4, <1>8, <1>10

LEMMA OutTraced ==
    ASSUME NEW N, NEW cd \in Routine(N), NEW M, NEW ce \in Routine(M),
           NEW def, NEW use, Traces(cd, ce, def, use)
    PROVE  \A b \in Block : \A n \in LiveOut(cd)[b] :
             \E y \in LiveOut(ce)[b] : n = Image(def, use, y)
<1>1. PICK C \in Nat : C = Cardinality(Block)  BY FS_CardinalityType, RegAllocAssumption
<1>2. PICK h : InSteps(cd, h, C)  BY <1>1, LiveOutSteps
<1>3. PICK g : InSteps(ce, g, C)  BY <1>1, LiveOutSteps
<1> DEFINE Below(H, G) == \A b \in Block : \A n \in H[b] : \E y \in G[b] : n = Image(def, use, y)
           I == {k \in 0..C : Below(h[k], g[k])}
<1>4. ASSUME NEW H, NEW G, Below(H, G), NEW b \in Block
      PROVE  \A n \in Out(H, b) : \E y \in Out(G, b) : n = Image(def, use, y)
  <2>1. Succ[b] \subseteq Block  BY RegAllocAssumption
  <2> QED BY <1>4, <2>1 DEF Out
<1>5. 0 \in I
  <2>1. \A b \in Block : h[0][b] = {}  BY <1>2 DEF InSteps
  <2> QED BY <2>1
<1>6. ASSUME NEW k \in 1..C, k - 1 \in I PROVE k \in I
  <2>1. k \in 0..C /\ Below(h[k - 1], g[k - 1])  BY <1>6
  <2>2. ASSUME NEW b \in Block, NEW n \in h[k][b]
        PROVE  \E y \in g[k][b] : n = Image(def, use, y)
    <3> DEFINE O == Out(h[k - 1], b)
               Q == Out(g[k - 1], b)
    <3>1. \A x \in O : \E y \in Q : x = Image(def, use, y)
      <4> HIDE DEF Below
      <4> QED BY <1>4, <2>1
    <3>2. h[k][b] = UpwardUses(cd)[b] \cup (O \ DefsOf(cd)[b])
          /\ g[k][b] = UpwardUses(ce)[b] \cup (Q \ DefsOf(ce)[b])
      BY <1>2, <1>3 DEF InSteps
    <3> HIDE DEF O, Q
    <3>3. /\ Len(cd[b]) \in Nat /\ DOMAIN cd[b] = 1..Len(cd[b])
          /\ Len(ce[b]) \in Nat /\ DOMAIN ce[b] = 1..Len(ce[b])
      <4>1. cd[b] \in Seq(InstrOver(N)) /\ ce[b] \in Seq(InstrOver(M))  BY DEF Routine
      <4> QED BY <4>1, RangeOf
    <3>4. AliveAt(cd[b], O, 0, n)  BY <2>2, <3>2, <3>3, InIs
    <3>5. PICK e : TracesBy(e, cd[b], ce[b], def, use)  BY DEF Traces
    <3>6. 0 \in 0..Len(cd[b]) /\ e[0] = 0  BY <3>3, <3>5 DEF TracesBy
    <3>7. PICK y : AliveAt(ce[b], Q, 0, y) /\ n = Image(def, use, y)
      <4>1. \E y : AliveAt(ce[b], Q, e[0], y) /\ n = Image(def, use, y)
        BY <3>1, <3>3, <3>4, <3>5, <3>6, AliveTraced
      <4> QED BY <3>6, <4>1
    <3>8. y \in g[k][b]  BY <3>2, <3>3, <3>7, InIs
    <3> QED BY <3>7, <3>8
  <2> QED BY <2>1, <2>2
<1>7. C \in I
  <2>1. C \in 0..C  OBVIOUS
  <2> HIDE DEF I
  <2>2. 0..C \subseteq I  BY <1>5, <1>6, Upwards
  <2> QED BY <2>1, <2>2
<1>8. Below(h[C], g[C])  BY <1>7
<1> HIDE DEF Below
<1>9. ASSUME NEW b \in Block
      PROVE  LiveOut(cd)[b] = Out(h[C], b) /\ LiveOut(ce)[b] = Out(g[C], b)
  BY <1>2, <1>3 DEF InSteps
<1> QED BY <1>4, <1>8, <1>9

MeetAs(cd, ce, def, use) ==
    \A x \in Interferences(cd) : \E d, l :
        {d, l} \in Interferences(ce) /\ x = {Image(def, use, d), Image(def, use, l)}

LEMMA InterferencesTraced ==
    ASSUME NEW N, NEW cd \in Routine(N), NEW M, NEW ce \in Routine(M),
           NEW def, NEW use, Traces(cd, ce, def, use)
    PROVE  MeetAs(cd, ce, def, use)
<1> SUFFICES ASSUME NEW x \in Interferences(cd)
             PROVE  \E d, l : /\ {d, l} \in Interferences(ce)
                              /\ x = {Image(def, use, d), Image(def, use, l)}
  BY DEF MeetAs
<1>1. PICK b \in Block : \E k \in DOMAIN cd[b] : \E d \in Defs(cd[b][k]) : \E l :
         AliveAt(cd[b], LiveOut(cd)[b], k, l) /\ x = {d, l}
  BY InterferencesIs
<1>2. PICK k \in DOMAIN cd[b] : \E d \in Defs(cd[b][k]) : \E l :
         AliveAt(cd[b], LiveOut(cd)[b], k, l) /\ x = {d, l}
  BY <1>1
<1>3. PICK d \in Defs(cd[b][k]) : \E l : AliveAt(cd[b], LiveOut(cd)[b], k, l) /\ x = {d, l}
  BY <1>2
<1>4. PICK l : AliveAt(cd[b], LiveOut(cd)[b], k, l) /\ x = {d, l}  BY <1>3
<1> DEFINE s == cd[b]
           t == ce[b]
           O == LiveOut(cd)[b]
           Q == LiveOut(ce)[b]
<1>5. /\ Len(s) \in Nat /\ DOMAIN s = 1..Len(s) /\ Len(t) \in Nat /\ DOMAIN t = 1..Len(t)
  <2>1. cd[b] \in Seq(InstrOver(N)) /\ ce[b] \in Seq(InstrOver(M))  BY DEF Routine
  <2> QED BY <2>1, RangeOf
<1>6. PICK e : TracesBy(e, s, t, def, use)  BY DEF Traces
<1>7. \A n \in O : \E y \in Q : n = Image(def, use, y)  BY OutTraced
<1>8. AliveAt(s, O, k, l) /\ k \in DOMAIN s /\ d \in Defs(s[k])  BY <1>4
<1>9. \A a \in DOMAIN t : \A f \in Defs(t[a]) : \A m :
         AliveAt(t, Q, a, m) => {f, m} \in Interferences(ce)
  BY InterferencesIs
<1> HIDE DEF s, t, O, Q
<1>10. PICK L \in Nat, R \in Nat : L = Len(s) /\ R = Len(t)  BY <1>5
<1>11. k \in 1..L /\ k \in 0..L  BY <1>5, <1>8, <1>10
<1>12. PICK y : AliveAt(t, Q, e[k], y) /\ l = Image(def, use, y)
  BY <1>5, <1>6, <1>7, <1>8, <1>10, <1>11, AliveTraced
<1>13. PICK f \in Defs(t[e[k]]) : d = Image(def, use, f)
  BY <1>6, <1>8, <1>10, <1>11 DEF TracesBy
<1>14. e[k] \in DOMAIN t
  <2>1. k \in 0..(L + 1) /\ 0 \in 0..(L + 1) /\ L + 1 \in 0..(L + 1) /\ 0 < k /\ k < L + 1
    BY <1>11
  <2>2. e[k] \in 0..(R + 1) /\ 0 < e[k] /\ e[k] < R + 1
    BY <1>6, <1>10, <2>1 DEF TracesBy
  <2>3. e[k] \in 1..R  BY <2>2
  <2> QED BY <1>5, <1>10, <2>3
<1>15. {f, y} \in Interferences(ce)  BY <1>9, <1>12, <1>13, <1>14
<1> QED BY <1>4, <1>12, <1>13, <1>15

\* A routine whose instructions stay where they are.
StepTraces(i, j, def, use) ==
    /\ \A n \in Uses(i) : \E y \in Uses(j) : n = Image(def, use, y)
    /\ \A n \in Defs(i) : \E y \in Defs(j) : n = Image(def, use, y)
    /\ \A y \in Defs(j) : \/ Image(def, use, y) \in Defs(i)
                          \/ Image(def, use, y) = use /\ use \in Uses(j)

LEMMA InPlace ==
    ASSUME NEW N, NEW cd \in Routine(N), NEW ce, NEW def, NEW use,
           \A b \in Block : /\ Len(ce[b]) = Len(cd[b])
                            /\ \A k \in 1..Len(cd[b]) : StepTraces(cd[b][k], ce[b][k], def, use)
    PROVE  Traces(cd, ce, def, use)
<1> SUFFICES ASSUME NEW b \in Block PROVE \E e : TracesBy(e, cd[b], ce[b], def, use)
  BY DEF Traces
<1>1. cd[b] \in Seq(InstrOver(N))  BY DEF Routine
<1>2. PICK L \in Nat : L = Len(cd[b]) /\ L = Len(ce[b])  BY <1>1, LenProperties
<1> DEFINE s == cd[b]
           t == ce[b]
           e == [k \in 0..(L + 1) |-> k]
<1>3. \A k \in 1..L : StepTraces(s[k], t[k], def, use)  BY <1>2
<1>4. L = Len(s) /\ L = Len(t)  BY <1>2
<1> HIDE DEF s, t
<1>5. e \in [0..(L + 1) -> 0..(L + 1)] /\ \A k \in 0..(L + 1) : e[k] = k  OBVIOUS
<1> HIDE DEF e
<1>6. 0 \in 0..(L + 1) /\ L + 1 \in 0..(L + 1) /\ \A k \in 1..L : k \in 0..(L + 1)  OBVIOUS
<1>7. e[0] = 0 /\ e[L + 1] = L + 1 /\ \A k \in 1..L : e[k] = k  BY <1>5, <1>6
<1>8. \A j, k \in 0..(L + 1) : j < k => e[j] < e[k]  BY <1>5
<1>9. \A k \in 1..L :
        /\ \A n \in Uses(s[k]) : \E y \in Uses(t[e[k]]) : n = Image(def, use, y)
        /\ \A n \in Defs(s[k]) : \E y \in Defs(t[e[k]]) : n = Image(def, use, y)
  <2> TAKE k \in 1..L
  <2>1. e[k] = k  BY <1>7
  <2>2. /\ \A n \in Uses(s[k]) : \E y \in Uses(t[k]) : n = Image(def, use, y)
        /\ \A n \in Defs(s[k]) : \E y \in Defs(t[k]) : n = Image(def, use, y)
    <3>1. StepTraces(s[k], t[k], def, use)  BY <1>3
    <3> QED BY <3>1 DEF StepTraces
  <2>3. t[e[k]] = t[k]  BY <2>1
  <2>4. \A n \in Uses(s[k]) : \E y \in Uses(t[e[k]]) : n = Image(def, use, y)
    BY <2>2, <2>3
  <2>5. \A n \in Defs(s[k]) : \E y \in Defs(t[e[k]]) : n = Image(def, use, y)
    BY <2>2, <2>3
  <2> QED BY <2>4, <2>5
<1>10. \A i \in 1..L : \A y \in Defs(t[i]) :
         \/ \E k \in 1..L : e[k] = i /\ Image(def, use, y) \in Defs(s[k])
         \/ Image(def, use, y) = use /\ use \in Uses(t[i])
  <2> SUFFICES ASSUME NEW i \in 1..L, NEW y \in Defs(t[i]),
                      ~(Image(def, use, y) = use /\ use \in Uses(t[i]))
               PROVE  \E k \in 1..L : e[k] = i /\ Image(def, use, y) \in Defs(s[k])
    OBVIOUS
  <2>1. Image(def, use, y) \in Defs(s[i])  BY <1>3 DEF StepTraces
  <2> QED BY <1>7, <2>1
<1>11. TracesBy(e, s, t, def, use)
  BY <1>4, <1>5, <1>7, <1>8, <1>9, <1>10 DEF TracesBy
<1> QED BY <1>11 DEF s, t

\* A routine without the operations marked, its empty instructions in place.
Bare(cd, K) == [b \in Block |-> [k \in DOMAIN cd[b] |-> Left(cd[b][k], K)]]

LEMMA BareOf ==
    ASSUME NEW N, NEW cd \in Routine(N), NEW K
    PROVE  /\ Bare(cd, K) \in Routine(N)
           /\ \A b \in Block : /\ Len(Bare(cd, K)[b]) = Len(cd[b])
                               /\ \A k \in 1..Len(cd[b]) : Bare(cd, K)[b][k] = Left(cd[b][k], K)
<1> DEFINE ce == Bare(cd, K)
<1>1. ASSUME NEW b \in Block
      PROVE  /\ ce[b] \in Seq(InstrOver(N)) /\ Len(ce[b]) = Len(cd[b])
             /\ \A k \in 1..Len(cd[b]) : ce[b][k] = Left(cd[b][k], K)
  <2>1. cd[b] \in Seq(InstrOver(N))  BY DEF Routine
  <2>2. PICK l \in Nat : /\ l = Len(cd[b]) /\ DOMAIN cd[b] = 1..l
                         /\ \A k \in 1..l : cd[b][k] \in InstrOver(N)
    BY <2>1, RangeOf, ElementOfSeq
  <2>3. ce[b] = [k \in 1..l |-> Left(cd[b][k], K)]  BY <2>2 DEF Bare
  <2> HIDE DEF ce
  <2>4. \A k \in 1..l : Left(cd[b][k], K) \in InstrOver(N)  BY <2>2, LeftOf
  <2>5. ce[b] \in [1..l -> InstrOver(N)] /\ \A k \in 1..l : ce[b][k] = Left(cd[b][k], K)
    BY <2>3, <2>4
  <2>6. ce[b] \in Seq(InstrOver(N)) /\ Len(ce[b]) = l  BY <2>5, GroupSeq
  <2> QED BY <2>2, <2>5, <2>6
<1>2. ce = [b \in Block |-> ce[b]]  BY DEF Bare
<1> HIDE DEF ce
<1>3. ce \in Routine(N)  BY <1>1, <1>2 DEF Routine
<1> QED BY <1>1, <1>3 DEF ce

\* The operands of what is left of an instruction.
LEMMA LeftOperands ==
    ASSUME NEW N, NEW i \in InstrOver(N), NEW K
    PROVE  /\ \A n : n \in Defs(Left(i, K)) <=>
                       n # None /\ \E o \in Range(i.ops) : o.id \notin K /\ n = o.dest
           /\ \A n : n \in Uses(Left(i, K)) <=>
                       \E o \in Range(i.ops) : o.id \notin K /\ n \in Range(o.srcs)
<1>1. Range(Left(i, K).ops) = {o \in Range(i.ops) : o.id \notin K}  BY LeftOf
<1> QED BY <1>1 DEF Defs, Uses

\* What is kept of a sequence, in place.
KeptBy(e, q, s, T) ==
    /\ e \in [0..(Len(q) + 1) -> 0..(Len(s) + 1)] /\ e[0] = 0 /\ e[Len(q) + 1] = Len(s) + 1
    /\ \A j, k \in 0..(Len(q) + 1) : j < k => e[j] < e[k]
    /\ \A k \in 1..Len(q) : q[k] = s[e[k]]
    /\ \A i \in 1..Len(s) : s[i] \in T => \E k \in 1..Len(q) : e[k] = i

LEMMA KeptInPlace ==
    ASSUME NEW S, NEW s \in Seq(S), NEW T
    PROVE  \E e : KeptBy(e, Kept(s, T), s, T)
<1>1. PICK n \in Nat : n = Len(s) /\ DOMAIN s = 1..n /\ \A k \in 1..n : s[k] \in S
  BY RangeOf, ElementOfSeq
<1>2. PICK h : /\ h[0] = <<>> /\ Kept(s, T) = h[n]
               /\ \A k \in 1..n : h[k] = KeptStep(s, T, k, h[k - 1])
  BY <1>1, KeptSteps
<1> DEFINE By(e, q, l, k) ==
               /\ e \in [0..l -> 0..k] /\ e[0] = 0
               /\ \A i, j \in 0..l : i < j => e[i] < e[j]
               /\ \A i \in 1..l : q[i] = s[e[i]]
               /\ \A i \in 1..k : s[i] \in T => \E j \in 1..l : e[j] = i
           G == {k \in 0..n : h[k] \in Seq(S) /\ \E e : By(e, h[k], Len(h[k]), k)}
<1>3. 0 \in G
  <2>1. h[0] \in Seq(S) /\ Len(h[0]) = 0 /\ 0 \in 0..n  BY <1>2, EmptySeq
  <2> DEFINE e == [j \in 0..0 |-> 0]
  <2>2. By(e, h[0], 0, 0)  OBVIOUS
  <2> HIDE DEF By, e
  <2> QED BY <2>1, <2>2
<1>4. ASSUME NEW k \in 1..n, k - 1 \in G PROVE k \in G
  <2>1. PICK q \in Seq(S) : q = h[k - 1] /\ \E e : By(e, q, Len(q), k - 1)  BY <1>4
  <2>2. PICK l \in Nat : l = Len(q)  BY LenProperties
  <2>3. PICK e : By(e, q, l, k - 1)  BY <2>1, <2>2
  <2>4. h[k] = KeptStep(s, T, k, q) /\ k \in 0..n  BY <1>2, <2>1
  <2>5. CASE s[k] \in T
    <3> DEFINE r == Append(q, s[k])
               f == [j \in 0..(l + 1) |-> IF j = l + 1 THEN k ELSE e[j]]
    <3>1. /\ r \in Seq(S) /\ Len(r) = l + 1 /\ r[l + 1] = s[k]
          /\ \A j \in 1..l : r[j] = q[j]
      BY <1>1, <2>2, AppendProperties
    <3>2. h[k] = r  BY <2>4, <2>5 DEF KeptStep
    <3> HIDE DEF r
    <3>3. /\ \A j \in 0..l : f[j] = e[j] /\ e[j] \in 0..(k - 1)
          /\ f[l + 1] = k
      <4>1. \A j \in 0..l : j \in 0..(l + 1) /\ j # l + 1  OBVIOUS
      <4>2. l + 1 \in 0..(l + 1)  OBVIOUS
      <4> QED BY <2>3, <4>1, <4>2
    <3>4. \A j \in 0..(l + 1) : j \in 0..l \/ j = l + 1  OBVIOUS
    <3>5. f \in [0..(l + 1) -> 0..k]
      <4>1. \A j \in 0..(l + 1) : f[j] \in 0..k
        <5> TAKE j \in 0..(l + 1)
        <5> HIDE DEF f
        <5>1. CASE j \in 0..l
          <6>1. PICK x \in 0..(k - 1) : x = f[j]  BY <3>3, <5>1
          <6> QED BY <6>1
        <5>2. CASE j = l + 1  BY <3>3, <5>2
        <5> QED BY <3>4, <5>1, <5>2
      <4>2. f = [j \in 0..(l + 1) |-> f[j]]  OBVIOUS
      <4> HIDE DEF f
      <4> QED BY <4>1, <4>2
    <3> HIDE DEF f
    <3>6. f[0] = 0
      <4>1. 0 \in 0..l  OBVIOUS
      <4> QED BY <2>3, <3>3, <4>1
    <3>7. ASSUME NEW i \in 0..(l + 1), NEW j \in 0..(l + 1), i < j PROVE f[i] < f[j]
      <4>1. i \in 0..l  BY <3>7
      <4>2. CASE j \in 0..l  BY <2>3, <3>3, <3>7, <4>1, <4>2
      <4>3. CASE j = l + 1
        <5>1. PICK x \in 0..(k - 1) : x = f[i]  BY <3>3, <4>1
        <5>2. x < k  OBVIOUS
        <5> QED BY <3>3, <4>3, <5>1, <5>2
      <4> QED BY <3>4, <4>2, <4>3
    <3>8. ASSUME NEW i \in 1..(l + 1) PROVE r[i] = s[f[i]]
      <4>1. CASE i = l + 1  BY <3>1, <3>3, <4>1
      <4>2. CASE i # l + 1
        <5>1. i \in 1..l /\ i \in 0..l  BY <4>2
        <5> QED BY <2>3, <3>1, <3>3, <5>1
      <4> QED BY <4>1, <4>2
    <3>9. ASSUME NEW i \in 1..k, s[i] \in T PROVE \E j \in 1..(l + 1) : f[j] = i
      <4>1. CASE i = k
        <5>1. l + 1 \in 1..(l + 1)  OBVIOUS
        <5> QED BY <3>3, <4>1, <5>1
      <4>2. CASE i # k
        <5>1. i \in 1..(k - 1)  BY <4>2
        <5>2. PICK j \in 1..l : e[j] = i  BY <2>3, <3>9, <5>1
        <5>3. j \in 0..l /\ j \in 1..(l + 1)  OBVIOUS
        <5> QED BY <3>3, <5>2, <5>3
      <4> QED BY <4>1, <4>2
    <3>10. By(f, r, l + 1, k)  BY <3>5, <3>6, <3>7, <3>8, <3>9
    <3> HIDE DEF By
    <3> QED BY <2>4, <3>1, <3>2, <3>10
  <2>6. CASE s[k] \notin T
    <3>1. h[k] = q  BY <2>4, <2>6 DEF KeptStep
    <3>2. By(e, q, l, k)
      <4>1. \A i \in 1..k : i = k \/ i \in 1..(k - 1)  OBVIOUS
      <4>2. e \in [0..l -> 0..k]
        <5>1. 0..(k - 1) \subseteq 0..k  OBVIOUS
        <5> QED BY <2>3, <5>1
      <4> QED BY <2>3, <2>6, <4>1, <4>2
    <3> HIDE DEF By
    <3> QED BY <2>1, <2>2, <2>4, <3>1, <3>2
  <2> QED BY <2>5, <2>6
<1>5. n \in G
  <2>1. n \in 0..n  OBVIOUS
  <2> HIDE DEF G
  <2>2. 0..n \subseteq G  BY <1>3, <1>4, Upwards
  <2> QED BY <2>1, <2>2
<1>6. PICK q \in Seq(S) : q = Kept(s, T) /\ \E e : By(e, q, Len(q), n)  BY <1>2, <1>5
<1>7. PICK l \in Nat : l = Len(q)  BY LenProperties
<1>8. PICK e : By(e, q, l, n)  BY <1>6, <1>7
<1> DEFINE f == [j \in 0..(l + 1) |-> IF j = l + 1 THEN n + 1 ELSE e[j]]
<1>9. \A j \in 0..(l + 1) : j \in 0..l \/ j = l + 1  OBVIOUS
<1>10. /\ \A j \in 0..l : f[j] = e[j] /\ e[j] \in 0..n
       /\ f[l + 1] = n + 1
  <2>1. \A j \in 0..l : j \in 0..(l + 1) /\ j # l + 1  OBVIOUS
  <2>2. l + 1 \in 0..(l + 1)  OBVIOUS
  <2> QED BY <1>8, <2>1, <2>2
<1>11. f = [j \in 0..(l + 1) |-> f[j]]  OBVIOUS
<1> HIDE DEF f
<1>12. \A j \in 0..l : \E x \in 0..n : x = f[j]  BY <1>10
<1>13. f \in [0..(l + 1) -> 0..(n + 1)]
  <2>1. \A j \in 0..(l + 1) : f[j] \in 0..(n + 1)
    <3> TAKE j \in 0..(l + 1)
    <3>1. CASE j \in 0..l
      <4>1. PICK x \in 0..n : x = f[j]  BY <1>12, <3>1
      <4> QED BY <4>1
    <3>2. CASE j = l + 1  BY <1>10, <3>2
    <3> QED BY <1>9, <3>1, <3>2
  <2> QED BY <1>11, <2>1
<1>14. f[0] = 0
  <2>1. 0 \in 0..l  OBVIOUS
  <2> QED BY <1>8, <1>10, <2>1
<1>15. \A i, j \in 0..(l + 1) : i < j => f[i] < f[j]
  <2> SUFFICES ASSUME NEW i \in 0..(l + 1), NEW j \in 0..(l + 1), i < j PROVE f[i] < f[j]
    OBVIOUS
  <2>1. i \in 0..l  OBVIOUS
  <2>2. CASE j \in 0..l  BY <1>8, <1>10, <2>1, <2>2
  <2>3. CASE j = l + 1
    <3>1. PICK x \in 0..n : x = f[i]  BY <1>12, <2>1
    <3>2. x < n + 1  OBVIOUS
    <3> QED BY <1>10, <2>3, <3>1, <3>2
  <2> QED BY <1>9, <2>2, <2>3
<1>16. \A k \in 1..l : q[k] = s[f[k]]
  <2>1. \A k \in 1..l : k \in 0..l  OBVIOUS
  <2> QED BY <1>8, <1>10, <2>1
<1>17. \A i \in 1..n : s[i] \in T => \E k \in 1..l : f[k] = i
  <2>1. \A k \in 1..l : k \in 0..l  OBVIOUS
  <2> QED BY <1>8, <1>10, <2>1
<1>18. KeptBy(f, q, s, T)
  <2>1. f \in [0..(Len(q) + 1) -> 0..(Len(s) + 1)] /\ f[Len(q) + 1] = Len(s) + 1
    BY <1>1, <1>7, <1>10, <1>13
  <2>2. \A j, k \in 0..(Len(q) + 1) : j < k => f[j] < f[k]  BY <1>7, <1>15
  <2>3. \A k \in 1..Len(q) : q[k] = s[f[k]]  BY <1>7, <1>16
  <2>4. \A i \in 1..Len(s) : s[i] \in T => \E k \in 1..Len(q) : f[k] = i  BY <1>1, <1>7, <1>17
  <2> QED BY <1>14, <2>1, <2>2, <2>3, <2>4 DEF KeptBy
<1> QED BY <1>6, <1>18

\* Deletion: an instruction left empty goes.
LEMMA UnmarkedTraces ==
    ASSUME NEW N, NEW cd \in Routine(N), NEW M, NEW ce \in Routine(M),
           \A b \in Block :
             /\ Len(ce[b]) = Len(cd[b])
             /\ \A k \in 1..Len(cd[b]) : /\ Defs(ce[b][k]) = Defs(Left(cd[b][k], marked))
                                         /\ Uses(ce[b][k]) = Uses(Left(cd[b][k], marked))
    PROVE  Traces(Unmarked(cd), ce, None, None)
<1> SUFFICES ASSUME NEW b \in Block
             PROVE  \E e : TracesBy(e, Unmarked(cd)[b], ce[b], None, None)
  BY DEF Traces
<1> DEFINE u == Bare(cd, marked)[b]
           T == {i \in Range(u) : i.ops # <<>>}
           q == Kept(u, T)
           t == ce[b]
<1>1. Unmarked(cd)[b] = q  BY DEF Unmarked, Bare, Left
<1>2. u \in Seq(InstrOver(N)) /\ Len(u) = Len(cd[b])
      /\ \A k \in 1..Len(cd[b]) : u[k] = Left(cd[b][k], marked)
  BY BareOf DEF Routine
<1>3. PICK n \in Nat : /\ n = Len(u) /\ DOMAIN u = 1..n /\ n = Len(t)
                       /\ \A k \in 1..n : /\ Defs(t[k]) = Defs(u[k]) /\ Uses(t[k]) = Uses(u[k])
                                          /\ u[k] \in InstrOver(N)
  BY <1>2, RangeOf, ElementOfSeq
<1>4. \A k \in 1..n : u[k] \notin T => Defs(u[k]) = {}
  <2> SUFFICES ASSUME NEW k \in 1..n, u[k] \notin T PROVE Defs(u[k]) = {}
    OBVIOUS
  <2>1. u[k] \in Range(u)  BY <1>3 DEF Range
  <2>2. u[k].ops = <<>>  BY <2>1
  <2>3. Range(<<>>) = {}  BY DEF Range
  <2> QED BY <2>2, <2>3 DEF Defs
<1> HIDE DEF u, T, t
<1>5. PICK e : KeptBy(e, q, u, T)  BY <1>2, KeptInPlace
<1> HIDE DEF q
<1>6. PICK l \in Nat : l = Len(q)
  <2>1. q \in Seq(InstrOver(N))  BY <1>2, KeptMembers DEF q
  <2> QED BY <2>1, LenProperties
<1>a. /\ e \in [0..(l + 1) -> 0..(n + 1)] /\ e[0] = 0 /\ e[l + 1] = n + 1
      /\ \A j, k \in 0..(l + 1) : j < k => e[j] < e[k]
      /\ \A k \in 1..l : q[k] = u[e[k]]
      /\ \A i \in 1..n : u[i] \in T => \E k \in 1..l : e[k] = i
  BY <1>3, <1>5, <1>6 DEF KeptBy
<1>7. \A y : Image(None, None, y) = y  BY DEF Image
<1>8. \A k \in 1..l : e[k] \in 1..n /\ q[k] = u[e[k]]
  <2> TAKE k \in 1..l
  <2>1. k \in 0..(l + 1) /\ 0 \in 0..(l + 1) /\ l + 1 \in 0..(l + 1) /\ 0 < k /\ k < l + 1
    OBVIOUS
  <2>2. e[k] \in 0..(n + 1) /\ 0 < e[k] /\ e[k] < n + 1
    BY <1>a, <2>1
  <2> QED BY <1>a, <2>2
<1>9. \A k \in 1..l :
        /\ \A m \in Uses(q[k]) : \E y \in Uses(t[e[k]]) : m = Image(None, None, y)
        /\ \A m \in Defs(q[k]) : \E y \in Defs(t[e[k]]) : m = Image(None, None, y)
  BY <1>3, <1>7, <1>8
<1>10. ASSUME NEW i \in 1..n, NEW y \in Defs(t[i])
       PROVE  \E k \in 1..l : e[k] = i /\ Image(None, None, y) \in Defs(q[k])
  <2>1. u[i] \in T /\ y \in Defs(u[i])  BY <1>3, <1>4, <1>10
  <2>2. PICK k \in 1..l : e[k] = i  BY <1>a, <2>1
  <2> QED BY <1>7, <1>8, <2>1, <2>2
<1>11. TracesBy(e, q, t, None, None)
  <2>1. \A i \in 1..n : \A y \in Defs(t[i]) :
          \/ \E k \in 1..l : e[k] = i /\ Image(None, None, y) \in Defs(q[k])
          \/ Image(None, None, y) = None /\ None \in Uses(t[i])
    BY <1>10
  <2>2. Len(q) = l /\ Len(t) = n  BY <1>3, <1>6
  <2> HIDE DEF q
  <2> QED BY <1>a, <1>9, <2>1, <2>2 DEF TracesBy
<1> QED BY <1>1, <1>11 DEF t

\* The lists of the multichains name every operand of what is not marked.
ListedBy(cd, ch, K) ==
    \A i \in InstrsOf(cd) : \A o \in Range(i.ops) : o.id \notin K =>
        /\ o.dest # None => o.dest \in DOMAIN ch /\ i.id \in ch[o.dest].defs
        /\ \A n \in Range(o.srcs) : n \in DOMAIN ch /\ i.id \in ch[n].uses
Complete == phase # "chains" => ListedBy(code, mc, marked)

\* An operation, renamed where the lists say.
OpImage(p, o, def, use) ==
    /\ p.dest = Image(def, use, o.dest)
    /\ Range(p.srcs) = {Image(def, use, y) : y \in Range(o.srcs)}

LEMMA OpMerged ==
    ASSUME NEW N, NEW i \in InstrOver(N), NEW o \in OpOver(N), NEW def, NEW use, def # None,
           NEW defs, NEW uses, o.dest = def => i.id \in defs, def \in Range(o.srcs) => i.id \in uses
    PROVE  OpImage(OpAfter(i, o, defs, uses, def, use), o, def, use)
<1> DEFINE p == OpAfter(i, o, defs, uses, def, use)
           new == [j \in DOMAIN o.srcs |-> IF o.srcs[j] = def THEN use ELSE o.srcs[j]]
<1>1. /\ p.dest = IF i.id \in defs /\ o.dest = def THEN use ELSE o.dest
      /\ p.srcs = IF i.id \in uses THEN new ELSE o.srcs
  BY DEF OpAfter
<1>2. p.dest = Image(def, use, o.dest)  BY <1>1 DEF Image
<1>3. Range(new) = {Image(def, use, y) : y \in Range(o.srcs)}  BY DEF Range, Image
<1>4. ASSUME def \notin Range(o.srcs)
      PROVE  Range(o.srcs) = {Image(def, use, y) : y \in Range(o.srcs)}
  <2>1. \A y \in Range(o.srcs) : Image(def, use, y) = y  BY <1>4 DEF Image
  <2> QED BY <2>1
<1> HIDE DEF new, p
<1>5. Range(p.srcs) = {Image(def, use, y) : y \in Range(o.srcs)}  BY <1>1, <1>3, <1>4
<1> QED BY <1>2, <1>5 DEF p, OpImage

\* A merge.
LEMMA MergeTraces ==
    ASSUME IInv, Apart(code), Complete, phase = "coalesce",
           NEW i \in InstrsOf(code), NEW o \in Range(i.ops), IsMove(o), o.id \notin marked,
           NEW def, def = o.dest, NEW use, use = Head(o.srcs), def # use
    PROVE  Traces(Bare(Renamed(code, mc[def].defs, mc[def].uses, def, use), marked \cup {o.id}),
                  Bare(code, marked), def, use)
<1> DEFINE N == Names
           defs == mc[def].defs
           uses == mc[def].uses
           K == marked \cup {o.id}
           cf == Renamed(code, defs, uses, def, use)
           New(x) == NewInstr(x, defs, uses, def, use)
           After(x, p) == OpAfter(x, p, defs, uses, def, use)
<1>1. /\ o \in OpOver(N) /\ use \in N /\ code \in Routine(N) /\ None \notin N
      /\ def # None /\ use # None /\ def \in N
  <2>1. o \in OpOver(N) /\ use \in N /\ code \in Routine(N)  BY MoveOver DEF IInv, Named
  <2>2. None \notin N  BY DEF IInv, Named, NameSet, None
  <2> QED BY <2>1, <2>2 DEF OpOver
<1>2. use \in Range(o.srcs)
  <2>1. o.srcs \in Seq(N) /\ Len(o.srcs) = 1  BY <1>1 DEF OpOver
  <2>2. DOMAIN o.srcs = 1..1  BY <2>1, LenProperties
  <2>3. Head(o.srcs) = o.srcs[1]  BY <2>1
  <2>4. 1 \in DOMAIN o.srcs  BY <2>2
  <2> QED BY <2>3, <2>4 DEF Range
<1>3. cf \in Routine(N) /\ \A b \in Block : Len(cf[b]) = Len(code[b])
  BY <1>1, RenamedOf
<1>4. \A b \in Block : \A k \in DOMAIN code[b] : cf[b][k] = New(code[b][k])
  BY DEF Renamed, NewInstr
<1> HIDE DEF cf
<1>5. ASSUME NEW x \in InstrsOf(code), x \in InstrOver(N), New(x) \in InstrOver(N)
      PROVE  StepTraces(Left(New(x), K), Left(x, marked), def, use)
  <2> DEFINE D == DOMAIN x.ops
  <2>1. \A p \in Range(x.ops) : p \in OpOver(N)
    <3>1. x.ops \in Seq(OpOver(N))  BY <1>5 DEF InstrOver
    <3> QED BY <3>1, RangeOf
  <2>2. New(x) = [id |-> x.id, ops |-> [k \in D |-> After(x, x.ops[k])]]
    BY <1>5, NewInstrOf
  <2> HIDE DEF After, New
  <2>3. Range(New(x).ops) = {After(x, p) : p \in Range(x.ops)}  BY <2>2 DEF Range
  <2>4. \A p : After(x, p).id = p.id  BY DEF After, OpAfter
  <2>5. ASSUME NEW p \in Range(x.ops), p.id \notin marked
        PROVE  /\ After(x, p).dest = Image(def, use, p.dest)
               /\ Range(After(x, p).srcs) = {Image(def, use, y) : y \in Range(p.srcs)}
    <3>1. /\ p.dest = def => x.id \in defs
          /\ def \in Range(p.srcs) => x.id \in uses
      BY <1>1, <2>5 DEF Complete, ListedBy
    <3>2. p \in OpOver(N) /\ x \in InstrOver(N) /\ def # None  BY <1>1, <1>5, <2>1
    <3>3. After(x, p) = OpAfter(x, p, defs, uses, def, use)  BY DEF After
    <3> HIDE DEF defs, uses, N
    <3>4. OpImage(OpAfter(x, p, defs, uses, def, use), p, def, use)
      BY <3>1, <3>2, OpMerged
    <3> QED BY <3>3, <3>4 DEF OpImage
  <2>6. Image(def, use, None) = None  BY <1>1 DEF Image
  <2>7. \A n : n \in Defs(Left(New(x), K)) <=>
           n # None /\ \E p \in Range(x.ops) : p.id \notin K /\ n = After(x, p).dest
    BY <1>5, <2>3, <2>4, LeftOperands
  <2>8. \A n : n \in Uses(Left(New(x), K)) <=>
           \E p \in Range(x.ops) : p.id \notin K /\ n \in Range(After(x, p).srcs)
    BY <1>5, <2>3, <2>4, LeftOperands
  <2>9. \A n : n \in Defs(Left(x, marked)) <=>
           n # None /\ \E p \in Range(x.ops) : p.id \notin marked /\ n = p.dest
    BY <1>5, LeftOperands
  <2>10. \A n : n \in Uses(Left(x, marked)) <=>
           \E p \in Range(x.ops) : p.id \notin marked /\ n \in Range(p.srcs)
    BY <1>5, LeftOperands
  <2>11. ASSUME NEW n \in Uses(Left(New(x), K))
         PROVE  \E y \in Uses(Left(x, marked)) : n = Image(def, use, y)
    <3>1. PICK p \in Range(x.ops) : p.id \notin K /\ n \in Range(After(x, p).srcs)
      BY <2>8, <2>11
    <3>2. PICK y \in Range(p.srcs) : n = Image(def, use, y)  BY <2>5, <3>1
    <3> QED BY <2>10, <3>1, <3>2
  <2>12. ASSUME NEW n \in Defs(Left(New(x), K))
         PROVE  \E y \in Defs(Left(x, marked)) : n = Image(def, use, y)
    <3>1. PICK p \in Range(x.ops) : p.id \notin K /\ n = After(x, p).dest /\ n # None
      BY <2>7, <2>12
    <3>2. n = Image(def, use, p.dest)  BY <2>5, <3>1
    <3>3. p.dest # None  BY <2>6, <3>1, <3>2
    <3> QED BY <2>9, <3>1, <3>2, <3>3
  <2>13. ASSUME NEW y \in Defs(Left(x, marked))
         PROVE  \/ Image(def, use, y) \in Defs(Left(New(x), K))
                \/ Image(def, use, y) = use /\ use \in Uses(Left(x, marked))
    <3>1. PICK p \in Range(x.ops) : p.id \notin marked /\ y = p.dest /\ y # None
      BY <2>9, <2>13
    <3>2. CASE p.id # o.id
      <4>1. Image(def, use, y) = After(x, p).dest  BY <2>5, <3>1
      <4>2. Image(def, use, y) # None  BY <1>1, <3>1 DEF Image
      <4> QED BY <2>7, <3>1, <3>2, <4>1, <4>2
    <3>3. CASE p.id = o.id
      <4>1. p = o  BY <3>3 DEF Apart
      <4>2. Image(def, use, y) = use  BY <3>1, <4>1 DEF Image
      <4> QED BY <1>2, <2>10, <3>1, <4>1, <4>2
    <3> QED BY <3>2, <3>3
  <2> QED BY <2>11, <2>12, <2>13 DEF StepTraces
<1>6. ASSUME NEW b \in Block, NEW k \in 1..Len(code[b])
      PROVE  StepTraces(Left(cf[b][k], K), Left(code[b][k], marked), def, use)
  <2>1. code[b] \in Seq(InstrOver(N)) /\ cf[b] \in Seq(InstrOver(N)) /\ Len(cf[b]) = Len(code[b])
    BY <1>1, <1>3 DEF Routine
  <2>2. k \in DOMAIN code[b] /\ code[b][k] \in InstrOver(N)  BY <2>1, RangeOf, ElementOfSeq
  <2>3. cf[b][k] \in InstrOver(N)  BY <2>1, ElementOfSeq
  <2>4. code[b][k] \in InstrsOf(code)  BY <2>2 DEF InstrsOf, Range
  <2>5. cf[b][k] = New(code[b][k])  BY <1>4, <2>2
  <2> HIDE DEF New
  <2> QED BY <1>5, <2>2, <2>3, <2>4, <2>5
<1> HIDE DEF New, After, K, N
<1> DEFINE cb == Bare(cf, K)
           ca == Bare(code, marked)
<1>7. /\ cb \in Routine(N)
      /\ \A b \in Block : /\ Len(cb[b]) = Len(code[b])
                          /\ \A k \in 1..Len(code[b]) : cb[b][k] = Left(cf[b][k], K)
  BY <1>3, BareOf
<1>8. \A b \in Block : /\ Len(ca[b]) = Len(code[b])
                       /\ \A k \in 1..Len(code[b]) : ca[b][k] = Left(code[b][k], marked)
  BY <1>1, BareOf
<1> HIDE DEF cb, ca
<1>9. \A b \in Block : /\ Len(ca[b]) = Len(cb[b])
                       /\ \A k \in 1..Len(cb[b]) : StepTraces(cb[b][k], ca[b][k], def, use)
  BY <1>6, <1>7, <1>8
<1>10. Traces(cb, ca, def, use)  BY <1>7, <1>9, InPlace
<1> QED BY <1>10 DEF cb, ca, cf, K

\* The deletion of a move within one multichain.
LEMMA RemoveTraces ==
    ASSUME IInv, Apart(code), NEW i \in InstrsOf(code), NEW o \in Range(i.ops), IsMove(o),
           o.id \notin marked, o.dest = Head(o.srcs)
    PROVE  Traces(Bare(code, marked \cup {o.id}), Bare(code, marked), o.dest, o.dest)
<1> DEFINE N == Names
           n == o.dest
           K == marked \cup {o.id}
<1>1. o \in OpOver(N) /\ code \in Routine(N)  BY MoveOver DEF IInv, Named
<1>2. n \in Range(o.srcs)
  <2>1. o.srcs \in Seq(N) /\ Len(o.srcs) = 1  BY <1>1 DEF OpOver
  <2>2. DOMAIN o.srcs = 1..1  BY <2>1, LenProperties
  <2>3. Head(o.srcs) = o.srcs[1]  BY <2>1
  <2>4. 1 \in DOMAIN o.srcs  BY <2>2
  <2> QED BY <2>3, <2>4 DEF Range
<1>3. \A y : Image(n, n, y) = y  BY DEF Image
<1> DEFINE cb == Bare(code, K)
           ca == Bare(code, marked)
<1>4. ASSUME NEW x \in InstrsOf(code), x \in InstrOver(N)
      PROVE  StepTraces(Left(x, K), Left(x, marked), n, n)
  <2>1. \A m : m \in Defs(Left(x, K)) <=>
           m # None /\ \E p \in Range(x.ops) : p.id \notin K /\ m = p.dest
    BY <1>4, LeftOperands
  <2>2. \A m : m \in Uses(Left(x, K)) <=>
           \E p \in Range(x.ops) : p.id \notin K /\ m \in Range(p.srcs)
    BY <1>4, LeftOperands
  <2>3. \A m : m \in Defs(Left(x, marked)) <=>
           m # None /\ \E p \in Range(x.ops) : p.id \notin marked /\ m = p.dest
    BY <1>4, LeftOperands
  <2>4. \A m : m \in Uses(Left(x, marked)) <=>
           \E p \in Range(x.ops) : p.id \notin marked /\ m \in Range(p.srcs)
    BY <1>4, LeftOperands
  <2>5. \A m \in Uses(Left(x, K)) : m \in Uses(Left(x, marked))  BY <2>2, <2>4
  <2>6. \A m \in Defs(Left(x, K)) : m \in Defs(Left(x, marked))  BY <2>1, <2>3
  <2>7. ASSUME NEW y \in Defs(Left(x, marked)), y \notin Defs(Left(x, K))
        PROVE  y = n /\ n \in Uses(Left(x, marked))
    <3>1. PICK p \in Range(x.ops) : p.id \notin marked /\ y = p.dest /\ y # None
      BY <2>3, <2>7
    <3>2. p.id = o.id  BY <2>1, <2>7, <3>1
    <3>3. p = o  BY <3>2 DEF Apart
    <3> QED BY <1>2, <2>4, <3>1, <3>3
  <2> QED BY <1>3, <2>5, <2>6, <2>7 DEF StepTraces
<1> HIDE DEF K, N, n
<1>5. /\ cb \in Routine(N)
      /\ \A b \in Block : /\ Len(cb[b]) = Len(code[b])
                          /\ \A k \in 1..Len(code[b]) : cb[b][k] = Left(code[b][k], K)
  BY <1>1, BareOf
<1>6. \A b \in Block : /\ Len(ca[b]) = Len(code[b])
                       /\ \A k \in 1..Len(code[b]) : ca[b][k] = Left(code[b][k], marked)
  BY <1>1, BareOf
<1>7. ASSUME NEW b \in Block, NEW k \in 1..Len(code[b])
      PROVE  code[b][k] \in InstrOver(N) /\ code[b][k] \in InstrsOf(code)
  <2>1. code[b] \in Seq(InstrOver(N))  BY <1>1 DEF Routine
  <2>2. k \in DOMAIN code[b] /\ code[b][k] \in InstrOver(N)  BY <2>1, RangeOf, ElementOfSeq
  <2> QED BY <2>2 DEF InstrsOf, Range
<1> HIDE DEF cb, ca
<1>8. \A b \in Block : /\ Len(ca[b]) = Len(cb[b])
                       /\ \A k \in 1..Len(cb[b]) : StepTraces(cb[b][k], ca[b][k], n, n)
  BY <1>4, <1>5, <1>6, <1>7
<1>9. Traces(cb, ca, n, n)  BY <1>5, <1>8, InPlace
<1> QED BY <1>9 DEF cb, ca, n, K

\* What build looks at is the routine with nothing marked.
LEMMA BuildTraces ==
    ASSUME NEW N, NEW cd \in Routine(N)
    PROVE  Traces(Bare(cd, {}), cd, None, None)
<1> DEFINE cb == Bare(cd, {})
<1>1. /\ cb \in Routine(N)
      /\ \A b \in Block : /\ Len(cb[b]) = Len(cd[b])
                          /\ \A k \in 1..Len(cd[b]) : cb[b][k] = Left(cd[b][k], {})
  BY BareOf
<1>2. ASSUME NEW i \in InstrOver(N) PROVE StepTraces(Left(i, {}), i, None, None)
  <2>1. \A n : n \in Defs(Left(i, {})) <=> n # None /\ \E o \in Range(i.ops) : n = o.dest
    BY LeftOperands
  <2>2. \A n : n \in Uses(Left(i, {})) <=> \E o \in Range(i.ops) : n \in Range(o.srcs)
    BY LeftOperands
  <2>3. \A n : n \in Defs(i) <=> n \in Defs(Left(i, {}))  BY <2>1 DEF Defs
  <2>4. \A n : n \in Uses(i) <=> n \in Uses(Left(i, {}))  BY <2>2 DEF Uses
  <2>5. \A y : Image(None, None, y) = y  BY DEF Image
  <2> QED BY <2>3, <2>4, <2>5 DEF StepTraces
<1> HIDE DEF cb
<1>3. ASSUME NEW b \in Block, NEW k \in 1..Len(cd[b]) PROVE cd[b][k] \in InstrOver(N)
  <2>1. cd[b] \in Seq(InstrOver(N))  BY DEF Routine
  <2> QED BY <2>1, ElementOfSeq
<1>4. \A b \in Block : /\ Len(cd[b]) = Len(cb[b])
                       /\ \A k \in 1..Len(cb[b]) : StepTraces(cb[b][k], cd[b][k], None, None)
  BY <1>1, <1>2, <1>3
<1>5. Traces(cb, cd, None, None)  BY <1>1, <1>4, InPlace
<1> QED BY <1>5 DEF cb

-----------------------------------------------------------------------------
(* The edges are enough *)

\* The edges E join the names of overlapping classes that interfere.
SparedBy(cd, cl, E) ==
    \A x \in Interferences(cd) :
        Cardinality(x) = 2 /\ (\A n, m \in x : cl[n] \cap cl[m] # {}) => x \in E

\* While moves are merged their instructions, empty or not, are still there.
Spared ==
    /\ phase = "coalesce" => SparedBy(Bare(code, marked), class, edges)
    /\ phase \in {"simplify", "select", "done"} => SparedBy(code, class, edges)

LEMMA SameSpared ==
    ASSUME NEW N, NEW cd \in Routine(N), NEW M, NEW ce \in Routine(M), NEW n,
           Traces(cd, ce, n, n), NEW cl, NEW E, SparedBy(ce, cl, E)
    PROVE  SparedBy(cd, cl, E)
<1>1. \A y : Image(n, n, y) = y  BY DEF Image
<1>2. MeetAs(cd, ce, n, n)  BY InterferencesTraced
<1>3. ASSUME NEW x \in Interferences(cd) PROVE x \in Interferences(ce)
  <2>1. PICK d, l : {d, l} \in Interferences(ce) /\ x = {Image(n, n, d), Image(n, n, l)}
    BY <1>2 DEF MeetAs
  <2>2. x = {d, l}  BY <1>1, <2>1
  <2> QED BY <2>1, <2>2
<1> QED BY <1>3 DEF SparedBy

LEMMA PairOf == ASSUME NEW a, NEW b, a # b PROVE Cardinality({a, b}) = 2
<1> DEFINE s == {a}
           t == {a, b}
<1>1. IsFiniteSet(s) /\ Cardinality(s) = 1  BY FS_Singleton
<1>2. t = s \cup {b} /\ b \notin s  OBVIOUS
<1> HIDE DEF s
<1>3. Cardinality(s \cup {b}) = Cardinality(s) + 1  BY <1>1, <1>2, FS_AddElement
<1> HIDE DEF t
<1>4. Cardinality(t) = 2  BY <1>1, <1>2, <1>3
<1> QED BY <1>4 DEF t

LEMMA MergeSpared ==
    ASSUME NEW N, NEW cd \in Routine(N), NEW M, NEW ce \in Routine(M), NEW def, NEW use,
           Traces(cd, ce, def, use), SparedBy(ce, class, edges), class[def] = class[use]
    PROVE  SparedBy(cd, class, EdgesMoved(def, use))
<1> SUFFICES ASSUME NEW x \in Interferences(cd), Cardinality(x) = 2,
                    \A n, m \in x : class[n] \cap class[m] # {}
             PROVE  x \in EdgesMoved(def, use)
  BY DEF SparedBy
<1>1. PICK d, l : /\ {d, l} \in Interferences(ce)
                  /\ x = {Image(def, use, d), Image(def, use, l)}
  <2>1. MeetAs(cd, ce, def, use)  BY InterferencesTraced
  <2> QED BY <2>1 DEF MeetAs
<1>2. Image(def, use, d) # Image(def, use, l)
  <2> SUFFICES ASSUME Image(def, use, d) = Image(def, use, l) PROVE FALSE
    OBVIOUS
  <2>1. x = {Image(def, use, d)}  BY <1>1
  <2>2. Cardinality(x) = 1  BY <2>1, FS_Singleton
  <2> QED BY <2>2
<1>3. d # l  BY <1>2
<1>4. Cardinality({d, l}) = 2  BY <1>3, PairOf
<1>5. \A n : class[Image(def, use, n)] = class[n]  BY DEF Image
<1>6. \A n, m \in {d, l} : class[n] \cap class[m] # {}  BY <1>1, <1>5
<1>7. {d, l} \in edges  BY <1>1, <1>4, <1>6 DEF SparedBy
<1>8. x = IF def \in {d, l} THEN ({d, l} \ {def}) \cup {use} ELSE {d, l}
  <2>1. CASE d = def
    <3>1. x = {use, l} /\ {d, l} \ {def} = {l}  BY <1>1, <1>3, <2>1 DEF Image
    <3> QED BY <2>1, <3>1
  <2>2. CASE l = def
    <3>1. x = {use, d} /\ {d, l} \ {def} = {d}  BY <1>1, <1>3, <2>2 DEF Image
    <3> QED BY <2>2, <3>1
  <2>3. CASE d # def /\ l # def
    <3>1. x = {d, l}  BY <1>1, <2>3 DEF Image
    <3> QED BY <2>3, <3>1
  <2> QED BY <2>1, <2>2, <2>3
<1> QED BY <1>7, <1>8 DEF EdgesMoved

LEMMA BuildSpares == ASSUME IInv, Build PROVE Spared'
<1>1. /\ code' = code /\ class' = class /\ marked' = marked /\ phase' = "coalesce"
      /\ edges' = edges \cup {e \in Interferences(code) : Cardinality(e) = 2 /\ Overlap(e)}
  BY DEF Build
<1>2. marked = {} /\ code \in Routine(Names)  BY DEF IInv, Phases, Named, Build
<1>3. SparedBy(code, class, edges')  BY <1>1 DEF SparedBy, Overlap
<1>4. Bare(code, {}) \in Routine(Names) /\ Traces(Bare(code, {}), code, None, None)
  BY <1>2, BareOf, BuildTraces
<1> DEFINE E == edges'
<1>5. SparedBy(code, class, E)  BY <1>3
<1> HIDE DEF E
<1>6. SparedBy(Bare(code, {}), class, E)  BY <1>2, <1>4, <1>5, SameSpared
<1> QED BY <1>1, <1>2, <1>6 DEF Spared, E

LEMMA CoalesceSpares ==
    ASSUME IInv, Apart(code), Complete, Spared, CoalesceOper
    PROVE  Spared'
<1>1. /\ phase = "coalesce" /\ phase' = "coalesce" /\ class' = class
      /\ SparedBy(Bare(code, marked), class, edges)
  BY DEF CoalesceOper, Spared
<1>2. PICK i \in InstrsOf(code) : \E o \in Range(i.ops) :
         /\ IsMove(o) /\ o.id \in pending
         /\ \/ /\ o.dest = Head(o.srcs)
               /\ RemoveMove(o.dest, i.id)
               /\ marked' = marked \cup {o.id}
            \/ /\ o.dest # Head(o.srcs) /\ CanCoalesce(Head(o.srcs), o.dest)
               /\ Coalesce(o.dest, Head(o.srcs), i.id)
               /\ marked' = marked \cup {o.id}
            \/ UNCHANGED <<code, mc, color, edges, nodes, marked>>
  BY DEF CoalesceOper
<1>3. PICK o \in Range(i.ops) :
         /\ IsMove(o) /\ o.id \in pending
         /\ \/ /\ o.dest = Head(o.srcs)
               /\ RemoveMove(o.dest, i.id)
               /\ marked' = marked \cup {o.id}
            \/ /\ o.dest # Head(o.srcs) /\ CanCoalesce(Head(o.srcs), o.dest)
               /\ Coalesce(o.dest, Head(o.srcs), i.id)
               /\ marked' = marked \cup {o.id}
            \/ UNCHANGED <<code, mc, color, edges, nodes, marked>>
  BY <1>2
<1>4. o.id \notin marked /\ code \in Routine(Names) /\ o \in OpOver(Names)
      /\ Head(o.srcs) \in Names
  BY <1>3, MoveOver DEF IInv, MovesToCome, Named
<1> DEFINE K == marked \cup {o.id}
<1>5. Bare(code, marked) \in Routine(Names)  BY <1>4, BareOf
<1>6. CASE o.dest = Head(o.srcs) /\ RemoveMove(o.dest, i.id) /\ marked' = K
  <2>1. code' = code /\ edges' = edges  BY <1>6 DEF RemoveMove
  <2>2. Traces(Bare(code, K), Bare(code, marked), o.dest, o.dest)
    BY <1>3, <1>4, <1>6, RemoveTraces
  <2>3. Bare(code, K) \in Routine(Names)  BY <1>4, BareOf
  <2> HIDE DEF K
  <2>4. SparedBy(Bare(code, K), class, edges)  BY <1>1, <1>5, <2>2, <2>3, SameSpared
  <2> QED BY <1>1, <1>6, <2>1, <2>4 DEF Spared
<1>7. CASE /\ o.dest # Head(o.srcs) /\ CanCoalesce(Head(o.srcs), o.dest)
           /\ Coalesce(o.dest, Head(o.srcs), i.id) /\ marked' = K
  <2> DEFINE def == o.dest
             use == Head(o.srcs)
             cf == Renamed(code, mc[def].defs, mc[def].uses, def, use)
  <2>1. code' = cf /\ edges' = EdgesMoved(def, use) /\ class[def] = class[use]
    BY <1>7 DEF Coalesce, CanCoalesce
  <2>2. Traces(Bare(cf, K), Bare(code, marked), def, use)
    BY <1>1, <1>3, <1>4, <1>7, MergeTraces
  <2>3. Bare(cf, K) \in Routine(Names)
    <3>1. def \in Names \cup {None} /\ use \in Names /\ None \notin Names
      BY <1>4 DEF OpOver, IInv, Named, NameSet, None
    <3>2. use # None  BY <3>1
    <3> HIDE DEF def, use
    <3>3. cf \in Routine(Names)  BY <1>4, <3>1, <3>2, RenamedOf
    <3> HIDE DEF cf
    <3> QED BY <3>3, BareOf
  <2> HIDE DEF K, cf, def, use
  <2>4. SparedBy(Bare(cf, K), class, EdgesMoved(def, use))
    BY <1>1, <1>5, <2>1, <2>2, <2>3, MergeSpared
  <2> QED BY <1>1, <1>7, <2>1, <2>4 DEF Spared
<1>8. CASE UNCHANGED <<code, mc, color, edges, nodes, marked>>
  BY <1>1, <1>8 DEF Spared
<1> QED BY <1>3, <1>6, <1>7, <1>8

\* A deletion, and what it would be while moves are merged.
LEMMA DeleteSpares ==
    ASSUME IInv, phase = "coalesce", Spared
    PROVE  SparedBy(Unmarked(code), class, edges)
<1>1. code \in Routine(Names) /\ SparedBy(Bare(code, marked), class, edges)
  BY DEF IInv, Named, Spared
<1> DEFINE ce == Bare(code, marked)
           cd == Unmarked(code)
<1>2. /\ ce \in Routine(Names)
      /\ \A b \in Block : /\ Len(ce[b]) = Len(code[b])
                          /\ \A k \in 1..Len(code[b]) : ce[b][k] = Left(code[b][k], marked)
  BY <1>1, BareOf
<1>3. cd \in Routine(Names)  BY <1>1, UnmarkedOf
<1> HIDE DEF ce
<1>4. Traces(cd, ce, None, None)  BY <1>1, <1>2, UnmarkedTraces
<1> HIDE DEF cd
<1>5. SparedBy(ce, class, edges)  BY <1>1 DEF ce
<1>6. SparedBy(cd, class, edges)  BY <1>2, <1>3, <1>4, <1>5, SameSpared
<1> QED BY <1>6 DEF cd

LEMMA StaysSpared ==
    ASSUME IInv, Apart(code), Complete, Spared, [Next]_vars
    PROVE  Spared'
<1>1. CASE Build  BY <1>1, BuildSpares
<1>2. CASE CoalesceOper  BY <1>2, CoalesceSpares
<1>3. CASE DeleteUselessIR
  BY <1>3, DeleteSpares DEF DeleteUselessIR, Spared
<1>4. CASE Simplify \/ Select
  BY <1>4 DEF Simplify, Select, Spared
<1>5. CASE Chains \/ Spill \/ Restart
  BY <1>5 DEF Chains, Spill, Restart, Spared
<1>6. CASE UNCHANGED vars  BY <1>6 DEF vars, Spared
<1> QED BY <1>1, <1>2, <1>3, <1>4, <1>5, <1>6 DEF Next, Stopped

\* Nothing to delete.
LEMMA SparedKeeps == ASSUME IInv, Spared PROVE InterferencesKept
<1>1. SUFFICES ASSUME phase \in {"coalesce", "simplify", "select"}
               PROVE  SparedBy(Unmarked(code), class, edges)
  BY DEF InterferencesKept, SparedBy, Overlap
<1>2. CASE phase = "coalesce"  BY <1>2, DeleteSpares
<1>3. CASE phase \in {"simplify", "select"}
  <2>1. marked = {} /\ code \in Routine(Names) /\ SparedBy(code, class, edges)
    BY <1>3 DEF IInv, Phases, Named, Spared
  <2>2. ASSUME NEW b \in Block, NEW k \in 1..Len(code[b])
        PROVE  /\ Defs(code[b][k]) = Defs(Left(code[b][k], marked))
               /\ Uses(code[b][k]) = Uses(Left(code[b][k], marked))
    <3>1. code[b] \in Seq(InstrOver(Names))  BY <2>1 DEF Routine
    <3>2. code[b][k] \in InstrOver(Names)  BY <3>1, ElementOfSeq
    <3>3. Range(Left(code[b][k], marked).ops)
            = {o \in Range(code[b][k].ops) : o.id \notin marked}
      BY <3>2, LeftOf
    <3>4. Range(Left(code[b][k], marked).ops) = Range(code[b][k].ops)  BY <2>1, <3>3
    <3> QED BY <3>4 DEF Defs, Uses
  <2>3. Traces(Unmarked(code), code, None, None)  BY <2>1, <2>2, UnmarkedTraces
  <2>4. Unmarked(code) \in Routine(Names)  BY <2>1, UnmarkedOf
  <2> QED BY <2>1, <2>3, <2>4, SameSpared
<1> QED BY <1>1, <1>2, <1>3

\* While colours are chosen the edges are enough, although liveness is never computed
\* again after a merge, as long as the lists of the multichains name every operand.
THEOREM InterferencesStay == Spec /\ []Complete => []InterferencesKept
<1>1. Init => Spared  BY DEF Init, Spared
<1>2. IInv /\ Apart(code) /\ Complete /\ Spared /\ [Next]_vars => Spared'
  BY StaysSpared
<1>3. IInv /\ Spared => InterferencesKept  BY SparedKeeps
<1> QED BY <1>1, <1>2, <1>3, AllocationInvariant, IdsKeptApart, PTL DEF Spec

-----------------------------------------------------------------------------
(* Moves alone in their instructions *)

\* An instruction with a move holds nothing else.
MovesAlone(cd) == \A i \in InstrsOf(cd) : \A o, p \in Range(i.ops) : IsMove(o) => p = o

LEMMA AloneRenamed ==
    ASSUME NEW N, NEW cd \in Routine(N), MovesAlone(cd), NEW defs, NEW uses, NEW n, NEW m
    PROVE  MovesAlone(Renamed(cd, defs, uses, n, m))
<1> SUFFICES ASSUME NEW j \in InstrsOf(Renamed(cd, defs, uses, n, m)),
                    NEW o \in Range(j.ops), NEW p \in Range(j.ops), IsMove(o)
             PROVE  p = o
  BY DEF MovesAlone
<1>1. PICK i \in InstrsOf(cd) :
         /\ DOMAIN j.ops = DOMAIN i.ops
         /\ \A k \in DOMAIN i.ops : j.ops[k] = OpAfter(i, i.ops[k], defs, uses, n, m)
  BY InstrsRenamed
<1>2. PICK k \in DOMAIN i.ops : o = OpAfter(i, i.ops[k], defs, uses, n, m)  BY <1>1 DEF Range
<1>3. PICK l \in DOMAIN i.ops : p = OpAfter(i, i.ops[l], defs, uses, n, m)  BY <1>1 DEF Range
<1>4. IsMove(i.ops[k])  BY <1>2 DEF IsMove, OpAfter
<1>5. i.ops[k] \in Range(i.ops) /\ i.ops[l] \in Range(i.ops)  BY DEF Range
<1>6. i.ops[l] = i.ops[k]  BY <1>4, <1>5 DEF MovesAlone
<1> QED BY <1>2, <1>3, <1>6

LEMMA AloneMore ==
    ASSUME NEW cd, MovesAlone(cd), NEW E, \A e \in E : \A o \in Range(e.ops) : ~IsMove(o),
           NEW ce, InstrsOf(ce) \subseteq InstrsOf(cd) \cup E
    PROVE  MovesAlone(ce)
BY DEF MovesAlone

LEMMA AloneUnmarked ==
    ASSUME NEW N, NEW cd \in Routine(N), Apart(cd), MovesAlone(cd)
    PROVE  MovesAlone(Unmarked(cd))
<1> SUFFICES ASSUME NEW j \in InstrsOf(Unmarked(cd)),
                    NEW o \in Range(j.ops), NEW p \in Range(j.ops), IsMove(o)
             PROVE  p = o
  BY DEF MovesAlone
<1>1. PICK i \in InstrsOf(cd) : j = Left(i, marked)  BY ApartUnmarked
<1>2. i \in InstrOver(N)  BY RoutineParts
<1>3. Range(j.ops) \subseteq Range(i.ops)  BY <1>1, <1>2, LeftOf
<1> QED BY <1>3 DEF MovesAlone

LEMMA MemoryOps ==
    ASSUME NEW id, NEW kind, NEW dest, NEW srcs
    PROVE  /\ Memory(id, kind, dest, srcs).id = id
           /\ \A o \in Range(Memory(id, kind, dest, srcs).ops) :
                o.kind = kind /\ o.dest = dest /\ o.srcs = srcs
<1> DEFINE o == [id |-> id, kind |-> kind, dest |-> dest, srcs |-> srcs, slot |-> slots]
<1>1. Memory(id, kind, dest, srcs) = [id |-> id, ops |-> <<o>>]  BY DEF Memory
<1>2. o.kind = kind /\ o.dest = dest /\ o.srcs = srcs  OBVIOUS
<1> HIDE DEF o
<1>3. Range(<<o>>) = {o}  BY DEF Range
<1> QED BY <1>1, <1>2, <1>3

-----------------------------------------------------------------------------
(* Spills keep the lists *)

\* While n is spilled: every operand is in a list of the new multichains, or in one
\* of the old, where those of n are of the instructions to come.
SpillListed(cd, ch, n, D, U) ==
    \A i \in InstrsOf(cd) : \A o \in Range(i.ops) :
        /\ o.dest # None =>
             \/ o.dest \in DOMAIN ch /\ i.id \in ch[o.dest].defs
             \/ o.dest \in DOMAIN mc /\ i.id \in mc[o.dest].defs /\ (o.dest = n => i.id \in D)
        /\ \A y \in Range(o.srcs) :
             \/ y \in DOMAIN ch /\ i.id \in ch[y].uses
             \/ y \in DOMAIN mc /\ i.id \in mc[y].uses /\ (y = n => i.id \in U)

\* Instructions of the name m, which lists them.
OfName(E, m, c) ==
    \A e \in E : \A o \in Range(e.ops) :
        /\ o.dest # None => o.dest = m /\ e.id \in c.defs
        /\ \A y \in Range(o.srcs) : y = m /\ e.id \in c.uses

LEMMA SplitListed ==
    ASSUME NEW N, NEW cd \in Routine(N), NEW ch, NEW m, m \notin DOMAIN ch, NEW n, NEW D, NEW U,
           SpillListed(cd, ch, n, D, U), NEW defs, NEW uses,
           NEW c, defs \subseteq c.defs, uses \subseteq c.uses, NEW E, OfName(E, m, c),
           NEW ce, InstrsOf(ce) \subseteq InstrsOf(Renamed(cd, defs, uses, n, m)) \cup E
    PROVE  SpillListed(ce, With(ch, m, c), n, D \ defs, U \ uses)
<1> DEFINE new == With(ch, m, c)
<1>1. /\ DOMAIN new = DOMAIN ch \cup {m} /\ new[m] = c
      /\ \A x \in DOMAIN ch : new[x] = ch[x]
  BY DEF With
<1> HIDE DEF new
<1>2. ASSUME NEW e \in E, NEW o \in Range(e.ops)
      PROVE  /\ o.dest # None => o.dest \in DOMAIN new /\ e.id \in new[o.dest].defs
             /\ \A y \in Range(o.srcs) : y \in DOMAIN new /\ e.id \in new[y].uses
  BY <1>1 DEF OfName
<1>3. ASSUME NEW j \in InstrsOf(Renamed(cd, defs, uses, n, m)), NEW p \in Range(j.ops)
      PROVE  /\ p.dest # None =>
                  \/ p.dest \in DOMAIN new /\ j.id \in new[p.dest].defs
                  \/ /\ p.dest \in DOMAIN mc /\ j.id \in mc[p.dest].defs
                     /\ p.dest = n => j.id \in D \ defs
             /\ \A y \in Range(p.srcs) :
                  \/ y \in DOMAIN new /\ j.id \in new[y].uses
                  \/ y \in DOMAIN mc /\ j.id \in mc[y].uses /\ (y = n => j.id \in U \ uses)
  <2>1. PICK i \in InstrsOf(cd) :
           /\ j.id = i.id /\ DOMAIN j.ops = DOMAIN i.ops
           /\ \A k \in DOMAIN i.ops : j.ops[k] = OpAfter(i, i.ops[k], defs, uses, n, m)
    BY InstrsRenamed
  <2>2. PICK k \in DOMAIN i.ops : p = OpAfter(i, i.ops[k], defs, uses, n, m)
    BY <2>1 DEF Range
  <2>3. PICK o \in Range(i.ops) : o = i.ops[k]  BY DEF Range
  <2>4. /\ p.dest = IF i.id \in defs /\ o.dest = n THEN m ELSE o.dest
        /\ p.srcs = IF i.id \in uses
                    THEN [l \in DOMAIN o.srcs |-> IF o.srcs[l] = n THEN m ELSE o.srcs[l]]
                    ELSE o.srcs
    BY <2>2, <2>3 DEF OpAfter
  <2>5. /\ o.dest # None =>
             \/ o.dest \in DOMAIN ch /\ i.id \in ch[o.dest].defs
             \/ o.dest \in DOMAIN mc /\ i.id \in mc[o.dest].defs /\ (o.dest = n => i.id \in D)
        /\ \A y \in Range(o.srcs) :
             \/ y \in DOMAIN ch /\ i.id \in ch[y].uses
             \/ y \in DOMAIN mc /\ i.id \in mc[y].uses /\ (y = n => i.id \in U)
    BY DEF SpillListed
  <2>6. ASSUME p.dest # None
        PROVE  \/ p.dest \in DOMAIN new /\ j.id \in new[p.dest].defs
               \/ /\ p.dest \in DOMAIN mc /\ j.id \in mc[p.dest].defs
                  /\ p.dest = n => j.id \in D \ defs
    <3>1. CASE i.id \in defs /\ o.dest = n  BY <1>1, <2>1, <2>4, <3>1
    <3>2. CASE ~(i.id \in defs /\ o.dest = n)  BY <1>1, <2>1, <2>4, <2>5, <2>6, <3>2
    <3> QED BY <3>1, <3>2
  <2>7. ASSUME NEW y \in Range(p.srcs)
        PROVE  \/ y \in DOMAIN new /\ j.id \in new[y].uses
               \/ y \in DOMAIN mc /\ j.id \in mc[y].uses /\ (y = n => j.id \in U \ uses)
    <3>1. CASE i.id \in uses
      <4>1. PICK l \in DOMAIN o.srcs : y = IF o.srcs[l] = n THEN m ELSE o.srcs[l]
        BY <2>4, <3>1 DEF Range
      <4>2. o.srcs[l] \in Range(o.srcs)  BY DEF Range
      <4>3. CASE o.srcs[l] = n  BY <1>1, <2>1, <3>1, <4>1, <4>3
      <4>4. CASE o.srcs[l] # n  BY <1>1, <2>1, <2>5, <4>1, <4>2, <4>4
      <4> QED BY <4>3, <4>4
    <3>2. CASE i.id \notin uses  BY <1>1, <2>1, <2>4, <2>5, <3>2
    <3> QED BY <3>1, <3>2
  <2> QED BY <2>6, <2>7
<1>4. SpillListed(ce, new, n, D \ defs, U \ uses)  BY <1>2, <1>3 DEF SpillListed
<1> QED BY <1>4 DEF new

\* Nothing to split.
LEMMA NotListed ==
    ASSUME NEW cd, NEW ch, NEW n, n \notin DOMAIN ch, NEW D, NEW U, SpillListed(cd, ch, n, D, U),
           NEW id
    PROVE  /\ id \notin mc[n].defs => SpillListed(cd, ch, n, D \ {id}, U)
           /\ id \notin mc[n].uses => SpillListed(cd, ch, n, D, U \ {id})
BY DEF SpillListed

LEMMA SplitLists ==
    ASSUME Named, NEW acc, Grows(acc), NEW n, NEW id \in Ids(code), NEW D, NEW U,
           SpillListed(acc.code, acc.mc, n, D, U), MovesAlone(acc.code)
    PROVE  /\ SpillListed(SpillDef(acc, n, id).code, SpillDef(acc, n, id).mc, n, D \ {id}, U)
           /\ SpillListed(ReloadUse(acc, n, id).code, ReloadUse(acc, n, id).mc, n, D, U \ {id})
           /\ MovesAlone(SpillDef(acc, n, id).code) /\ MovesAlone(ReloadUse(acc, n, id).code)
<1> DEFINE m == FreshName(acc.class)
           places == StorePlaces(acc.code, id)
           fresh == FreshId(acc.code)
           E == Stores(acc, id, m)
           e == Load(acc, m)
           one == Renamed(acc.code, {id}, {}, n, m)
           two == Renamed(acc.code, {}, {id}, n, m)
           ca == SpillDef(acc, n, id).code
           cb == ReloadUse(acc, n, id).code
           a == [defs |-> {id}, noDefs |-> Cardinality(places),
                 uses |-> {fresh + p[1] : p \in places}, noUses |-> Cardinality(places),
                 spilled |-> TRUE]
           b == [defs |-> {fresh}, noDefs |-> 1, uses |-> {id},
                 noUses |-> CountUses(InstrOf(acc.code, id), n), spilled |-> TRUE]
<1>1. /\ InstrsOf(ca) \subseteq InstrsOf(one) \cup E
      /\ InstrsOf(cb) \subseteq InstrsOf(two) \cup {e}
  BY SpillDefGrows, ReloadUseGrows
<1>2. SpillDef(acc, n, id).mc = With(acc.mc, m, a)  BY DEF SpillDef, SpillNew
<1>3. ReloadUse(acc, n, id).mc = With(acc.mc, m, b)  BY DEF ReloadUse, SpillNew
<1>4. m \notin DOMAIN acc.mc /\ acc.code \in Routine(DOMAIN acc.class)  BY FreshOf DEF Grows
<1>5. /\ \A x \in E : \E p \in places : x = Memory(fresh + p[1], "store", None, <<m>>)
      /\ e = Memory(fresh, "load", m, <<>>)
  BY DEF Stores, Load
<1>6. Range(<<m>>) = {m} /\ Range(<<>>) = {}  BY DEF Range
<1>7. /\ a.defs = {id} /\ a.uses = {fresh + p[1] : p \in places}
      /\ b.defs = {fresh} /\ b.uses = {id}
  OBVIOUS
<1> HIDE DEF a, b, E, e, m, fresh, places, ca, cb
<1>8. ASSUME NEW x \in E
      PROVE  x.id \in a.uses /\ \A o \in Range(x.ops) :
                                  o.kind = "store" /\ o.dest = None /\ Range(o.srcs) = {m}
  <2>1. PICK p \in places : x = Memory(fresh + p[1], "store", None, <<m>>)  BY <1>5
  <2>2. x.id = fresh + p[1]
        /\ \A o \in Range(x.ops) : o.kind = "store" /\ o.dest = None /\ o.srcs = <<m>>
    BY <2>1, MemoryOps
  <2> QED BY <1>6, <1>7, <2>2
<1>9. e.id \in b.defs /\ \A o \in Range(e.ops) : o.kind = "load" /\ o.dest = m /\ Range(o.srcs) = {}
  <2>1. e.id = fresh /\ \A o \in Range(e.ops) : o.kind = "load" /\ o.dest = m /\ o.srcs = <<>>
    BY <1>5, MemoryOps
  <2> QED BY <1>6, <1>7, <2>1
<1>10. OfName(E, m, a)  BY <1>8 DEF OfName
<1>11. OfName({e}, m, b)  BY <1>9 DEF OfName
<1>12. SpillListed(ca, With(acc.mc, m, a), n, D \ {id}, U \ {})
  <2> DEFINE K == {id}
             O == {}
             P == acc.code
             M == acc.mc
  <2>1. K \subseteq a.defs /\ O \subseteq a.uses  BY <1>7
  <2>2. P \in Routine(DOMAIN acc.class) /\ SpillListed(P, M, n, D, U) /\ m \notin DOMAIN M
    BY <1>4
  <2>3. InstrsOf(ca) \subseteq InstrsOf(Renamed(P, K, O, n, m)) \cup E  BY <1>1
  <2> HIDE DEF K, O, P, M
  <2>4. SpillListed(ca, With(M, m, a), n, D \ K, U \ O)
    BY <1>10, <2>1, <2>2, <2>3, SplitListed
  <2> QED BY <2>4 DEF K, O, M
<1>13. SpillListed(cb, With(acc.mc, m, b), n, D \ {}, U \ {id})
  <2> DEFINE K == {id}
             O == {}
             P == acc.code
             M == acc.mc
             F == {e}
  <2>1. O \subseteq b.defs /\ K \subseteq b.uses  BY <1>7
  <2>2. P \in Routine(DOMAIN acc.class) /\ SpillListed(P, M, n, D, U) /\ m \notin DOMAIN M
    BY <1>4
  <2>3. InstrsOf(cb) \subseteq InstrsOf(Renamed(P, O, K, n, m)) \cup F  BY <1>1
  <2>4. OfName(F, m, b)  BY <1>11
  <2> HIDE DEF K, O, P, M, F
  <2>5. SpillListed(cb, With(M, m, b), n, D \ O, U \ K)
    BY <2>1, <2>2, <2>3, <2>4, SplitListed
  <2> QED BY <2>5 DEF K, O, M
<1>14. U \ {} = U /\ D \ {} = D  OBVIOUS
<1>15. MovesAlone(ca)
  <2>1. \A x \in E : \A o \in Range(x.ops) : ~IsMove(o)  BY <1>8 DEF IsMove
  <2>2. MovesAlone(one)  BY <1>4, AloneRenamed
  <2> HIDE DEF one
  <2> QED BY <1>1, <2>1, <2>2, AloneMore
<1>16. MovesAlone(cb)
  <2>1. \A x \in {e} : \A o \in Range(x.ops) : ~IsMove(o)  BY <1>9 DEF IsMove
  <2>2. MovesAlone(two)  BY <1>4, AloneRenamed
  <2> HIDE DEF two
  <2> QED BY <1>1, <2>1, <2>2, AloneMore
<1> QED BY <1>2, <1>3, <1>12, <1>13, <1>14, <1>15, <1>16 DEF ca, cb

LEMMA SpillsReloadsList ==
    ASSUME Named, Names # {}, DOMAIN mc \subseteq Names, NEW n \in DOMAIN mc,
           SpillListed(code, <<>>, n, Ids(code), Ids(code)), MovesAlone(code)
    PROVE  /\ SpillListed(SpillsReloads(n).code, SpillsReloads(n).mc, n, {}, {})
           /\ MovesAlone(SpillsReloads(n).code)
<1>1. PICK all \in Seq(InstrsOf(code)) :
         all = InOrder(code) /\ InstrsOf(code) \subseteq Range(all)
  BY InOrderIn DEF Named
<1>2. PICK turn \in Nat : turn = Len(all) /\ DOMAIN all = 1..turn
                          /\ \A k \in 1..turn : all[k] \in InstrsOf(code)
  BY RangeOf, ElementOfSeq
<1>3. PICK t \in Nat : t = 2 * turn  OBVIOUS
<1>4. PICK h : /\ h[0] = Spilling /\ SpillsReloads(n) = h[t]
               /\ \A k \in 1..t : h[k] = SpillStep(n, all, turn, k, h[k - 1])
  <2>1. SpillsIn(n, all, turn)  BY <1>1, <1>2, SpillSteps
  <2> QED BY <1>3, <2>1 DEF SpillsIn
<1> DEFINE D(k) == Ids(code) \ {all[j].id : j \in {i \in 1..turn : i <= k}}
           U(k) == Ids(code) \ {all[j].id : j \in {i \in 1..turn : turn + i <= k}}
           Fine(k) == /\ Grows(h[k]) /\ MovesAlone(h[k].code)
                      /\ SpillListed(h[k].code, h[k].mc, n, D(k), U(k))
           G == {k \in 0..t : Fine(k)}
<1>5. 0 \in G
  <2>1. DOMAIN <<>> = {} /\ 0 \in 0..t  OBVIOUS
  <2>2. Grows(Spilling) /\ Spilling.code = code /\ Spilling.mc = <<>>
    BY <2>1, EmptyOver DEF Grows, Spilling, Named, Names
  <2>3. D(0) = Ids(code) /\ U(0) = Ids(code)
    <3>1. {i \in 1..turn : i <= 0} = {} /\ {i \in 1..turn : turn + i <= 0} = {}  OBVIOUS
    <3> QED BY <3>1
  <2> HIDE DEF D, U
  <2> QED BY <1>4, <2>1, <2>2, <2>3
<1>6. ASSUME NEW k \in 1..t, k - 1 \in G PROVE k \in G
  <2> DEFINE acc == h[k - 1]
             d == D(k - 1)
             u == U(k - 1)
  <2>1. k \in 0..t  OBVIOUS
  <2>2. /\ Grows(acc) /\ MovesAlone(acc.code) /\ SpillListed(acc.code, acc.mc, n, d, u)
    BY <1>6
  <2>3. h[k] = SpillStep(n, all, turn, k, acc)  BY <1>4
  <2>4. n \notin DOMAIN acc.mc  BY <2>2 DEF Grows
  <2>5. CASE k <= turn
    <3> DEFINE id == all[k].id
    <3>1. k \in 1..turn  BY <2>5
    <3>2. id \in Ids(code)  BY <1>2, <3>1 DEF Ids
    <3>3. D(k) = d \ {id}
      <4>1. {i \in 1..turn : i <= k} = {i \in 1..turn : i <= k - 1} \cup {k}  BY <3>1
      <4> QED BY <4>1
    <3>4. U(k) = u
      <4>1. \A i \in 1..turn : ~(turn + i <= k) /\ ~(turn + i <= k - 1)  BY <3>1
      <4>2. {i \in 1..turn : turn + i <= k} = {i \in 1..turn : turn + i <= k - 1}  BY <4>1
      <4> QED BY <4>2
    <3> HIDE DEF acc, d, u
    <3>5. h[k] = IF id \in mc[n].defs THEN SpillDef(acc, n, id) ELSE acc
      BY <2>3, <2>5 DEF SpillStep
    <3> HIDE DEF id, D, U
    <3>6. CASE id \in mc[n].defs
      <4>1. h[k] = SpillDef(acc, n, id)  BY <3>5, <3>6
      <4>2. Grows(SpillDef(acc, n, id))  BY <2>2, <3>2, SpillDefGrows
      <4>3. /\ SpillListed(SpillDef(acc, n, id).code, SpillDef(acc, n, id).mc, n, d \ {id}, u)
            /\ MovesAlone(SpillDef(acc, n, id).code)
        BY <2>2, <3>2, SplitLists
      <4> QED BY <2>1, <3>3, <3>4, <4>1, <4>2, <4>3
    <3>7. CASE id \notin mc[n].defs
      <4>1. h[k] = acc  BY <3>5, <3>7
      <4>2. SpillListed(acc.code, acc.mc, n, d \ {id}, u)  BY <2>2, <2>4, <3>7, NotListed
      <4> QED BY <2>1, <2>2, <3>3, <3>4, <4>1, <4>2
    <3> QED BY <3>6, <3>7
  <2>6. CASE ~(k <= turn)
    <3> DEFINE id == all[k - turn].id
    <3>1. k - turn \in 1..turn  BY <1>3, <2>6
    <3>2. id \in Ids(code)  BY <1>2, <3>1 DEF Ids
    <3>3. U(k) = u \ {id}
      <4>1. \A i \in 1..turn : turn + i <= k <=> turn + i <= k - 1 \/ i = k - turn  BY <3>1
      <4>2. {i \in 1..turn : turn + i <= k}
              = {i \in 1..turn : turn + i <= k - 1} \cup {k - turn}
        BY <3>1, <4>1
      <4> QED BY <4>2
    <3>4. D(k) = d
      <4>1. \A i \in 1..turn : i <= k /\ i <= k - 1  BY <2>6
      <4>2. {i \in 1..turn : i <= k} = {i \in 1..turn : i <= k - 1}  BY <4>1
      <4> QED BY <4>2
    <3> HIDE DEF acc, d, u
    <3>5. h[k] = IF id \in mc[n].uses THEN ReloadUse(acc, n, id) ELSE acc
      BY <2>3, <2>6 DEF SpillStep
    <3> HIDE DEF id, D, U
    <3>6. CASE id \in mc[n].uses
      <4>1. h[k] = ReloadUse(acc, n, id)  BY <3>5, <3>6
      <4>2. Grows(ReloadUse(acc, n, id))  BY <2>2, <3>2, ReloadUseGrows
      <4>3. /\ SpillListed(ReloadUse(acc, n, id).code, ReloadUse(acc, n, id).mc, n, d, u \ {id})
            /\ MovesAlone(ReloadUse(acc, n, id).code)
        BY <2>2, <3>2, SplitLists
      <4> QED BY <2>1, <3>3, <3>4, <4>1, <4>2, <4>3
    <3>7. CASE id \notin mc[n].uses
      <4>1. h[k] = acc  BY <3>5, <3>7
      <4>2. SpillListed(acc.code, acc.mc, n, d, u \ {id})  BY <2>2, <2>4, <3>7, NotListed
      <4> QED BY <2>1, <2>2, <3>3, <3>4, <4>1, <4>2
    <3> QED BY <3>6, <3>7
  <2> QED BY <2>5, <2>6
<1>7. Fine(t)
  <2>1. t \in 0..t  OBVIOUS
  <2> HIDE DEF Fine
  <2>2. t \in G
    <3> HIDE DEF G
    <3>1. 0..t \subseteq G  BY <1>5, <1>6, Upwards
    <3> QED BY <2>1, <3>1
  <2> QED BY <2>2
<1>8. D(t) = {} /\ U(t) = {}
  <2>1. ASSUME NEW x \in Ids(code) PROVE \E j \in 1..turn : x = all[j].id
    BY <1>1, <1>2 DEF Ids, Range
  <2>2. \A i \in 1..turn : i <= t /\ turn + i <= t  BY <1>3
  <2>3. {i \in 1..turn : i <= t} = 1..turn /\ {i \in 1..turn : turn + i <= t} = 1..turn
    BY <2>2
  <2> QED BY <2>1, <2>3
<1> HIDE DEF D, U
<1> QED BY <1>4, <1>7, <1>8

LEMMA SpillCompletes ==
    ASSUME IInv, Complete, MovesAlone(code), Spill
    PROVE  ListedBy(code', mc', {}) /\ MovesAlone(code')
<1> DEFINE n == Last(nodesToSpill)
           done == SpillsReloads(n)
<1>1. /\ phase = "spill" /\ nodesToSpill # <<>>
      /\ code' = done.code
      /\ mc' = [m \in (DOMAIN mc \ {n}) \cup DOMAIN done.mc |->
                  IF m \in DOMAIN done.mc THEN done.mc[m] ELSE mc[m]]
  BY DEF Spill
<1>2. /\ n \in DOMAIN mc /\ DOMAIN mc \subseteq Names
  <2>1. nodesToSpill \in Seq(DOMAIN mc) /\ Distinct(nodesToSpill) /\ DOMAIN mc \subseteq Names
    BY DEF IInv, Listed
  <2>2. n \in Range(nodesToSpill)  BY <1>1, <2>1, Popped
  <2>3. Range(nodesToSpill) \subseteq DOMAIN mc  BY <2>1, RangeOf
  <2> QED BY <2>1, <2>2, <2>3
<1> HIDE DEF n
<1>3. ListedBy(code, mc, {})  BY <1>1 DEF Complete, IInv, Phases
<1>4. SpillListed(code, <<>>, n, Ids(code), Ids(code))
  <2>1. \A i \in InstrsOf(code) : i.id \in Ids(code)  BY DEF Ids
  <2> QED BY <1>3, <2>1 DEF ListedBy, SpillListed
<1>5. SpillListed(done.code, done.mc, n, {}, {}) /\ MovesAlone(done.code)
  BY <1>2, <1>4, SpillsReloadsList DEF IInv
<1>6. DOMAIN done.mc \cap DOMAIN mc = {}
  <2>1. Grows(done)  BY <1>2, SpillsReloadsGrow DEF IInv
  <2> QED BY <1>2, <2>1 DEF Grows
<1> HIDE DEF done
<1>7. /\ \A m \in DOMAIN done.mc : m \in DOMAIN mc' /\ mc'[m] = done.mc[m]
      /\ \A m \in DOMAIN mc : m # n => m \in DOMAIN mc' /\ mc'[m] = mc[m]
  BY <1>1, <1>6
<1>8. ListedBy(done.code, mc', {})
  <2> DEFINE ch == mc'
  <2>1. /\ \A m \in DOMAIN done.mc : m \in DOMAIN ch /\ ch[m] = done.mc[m]
        /\ \A m \in DOMAIN mc : m # n => m \in DOMAIN ch /\ ch[m] = mc[m]
    BY <1>7
  <2> HIDE DEF ch
  <2>2. ListedBy(done.code, ch, {})  BY <1>5, <2>1 DEF SpillListed, ListedBy
  <2> QED BY <2>2 DEF ch
<1> QED BY <1>1, <1>5, <1>8

LEMMA ChainsComplete == ASSUME IInv, Chains PROVE ListedBy(code', mc', {})
<1>1. /\ code' = code /\ DOMAIN mc' = Operands(code)
      /\ \A n \in Operands(code) :
           /\ mc'[n].defs = {i.id : i \in {j \in InstrsOf(code) : n \in Defs(j)}}
           /\ mc'[n].uses = {i.id : i \in {j \in InstrsOf(code) : n \in Uses(j)}}
  BY DEF Chains
<1> DEFINE ch == mc'
<1>2. ASSUME NEW i \in InstrsOf(code), NEW o \in Range(i.ops)
      PROVE  /\ o.dest # None => o.dest \in DOMAIN ch /\ i.id \in ch[o.dest].defs
             /\ \A n \in Range(o.srcs) : n \in DOMAIN ch /\ i.id \in ch[n].uses
  <2>1. \A n \in Defs(i) \cup Uses(i) : n \in Operands(code)  BY DEF Operands
  <2>2. \A n \in Defs(i) : n \in DOMAIN ch /\ i.id \in ch[n].defs  BY <1>1, <2>1
  <2>3. \A n \in Uses(i) : n \in DOMAIN ch /\ i.id \in ch[n].uses  BY <1>1, <2>1
  <2>4. /\ o.dest # None => o.dest \in Defs(i)
        /\ \A n \in Range(o.srcs) : n \in Uses(i)
    BY DEF Defs, Uses
  <2> HIDE DEF ch
  <2> QED BY <2>2, <2>3, <2>4
<1> HIDE DEF ch
<1>3. ListedBy(code, ch, {})  BY <1>2 DEF ListedBy
<1> QED BY <1>1, <1>3 DEF ch

LEMMA DeleteCompletes ==
    ASSUME IInv, Apart(code), ListedBy(code, mc, marked)
    PROVE  ListedBy(Unmarked(code), mc, {})
<1> SUFFICES ASSUME NEW j \in InstrsOf(Unmarked(code)), NEW o \in Range(j.ops)
             PROVE  /\ o.dest # None => o.dest \in DOMAIN mc /\ j.id \in mc[o.dest].defs
                    /\ \A n \in Range(o.srcs) : n \in DOMAIN mc /\ j.id \in mc[n].uses
  BY DEF ListedBy
<1>1. code \in Routine(Names)  BY DEF IInv, Named
<1>2. PICK i \in InstrsOf(code) : j = Left(i, marked)  BY <1>1, ApartUnmarked
<1>3. i \in InstrOver(Names)  BY <1>1, RoutineParts
<1>4. j.id = i.id /\ Range(j.ops) = {p \in Range(i.ops) : p.id \notin marked}
  BY <1>2, <1>3, LeftOf
<1> QED BY <1>4 DEF ListedBy

\* The lists of a merge: those of both names without the move's instruction.
MergedLists(def, use, instr, ch) ==
    /\ DOMAIN ch = DOMAIN mc \ {def}
    /\ \A n \in DOMAIN ch : n # use => ch[n] = mc[n]
    /\ use \in DOMAIN ch =>
         /\ (mc[use].defs \cup mc[def].defs) \ {instr} \subseteq ch[use].defs
         /\ (mc[use].uses \cup mc[def].uses) \ {instr} \subseteq ch[use].uses

LEMMA MergeCompletes ==
    ASSUME IInv, Apart(code), MovesAlone(code), ListedBy(code, mc, marked),
           NEW i \in InstrsOf(code), NEW o \in Range(i.ops), IsMove(o), o.id \notin marked,
           NEW def, def = o.dest, NEW use, use = Head(o.srcs), def # use,
           NEW ch, MergedLists(def, use, i.id, ch)
    PROVE  ListedBy(Renamed(code, mc[def].defs, mc[def].uses, def, use), ch, marked \cup {o.id})
<1> DEFINE defs == mc[def].defs
           uses == mc[def].uses
           ce == Renamed(code, defs, uses, def, use)
<1>1. /\ o \in OpOver(Names) /\ use \in Names /\ code \in Routine(Names) /\ None \notin Names
      /\ def # None
  <2>1. o \in OpOver(Names) /\ use \in Names /\ code \in Routine(Names)
    BY MoveOver DEF IInv, Named
  <2>2. None \notin Names  BY DEF IInv, Named, NameSet, None
  <2> QED BY <2>1, <2>2 DEF OpOver
<1>2. use \in Range(o.srcs)
  <2>1. o.srcs \in Seq(Names) /\ Len(o.srcs) = 1  BY <1>1 DEF OpOver
  <2>2. DOMAIN o.srcs = 1..1  BY <2>1, LenProperties
  <2>3. Head(o.srcs) = o.srcs[1]  BY <2>1
  <2>4. 1 \in DOMAIN o.srcs  BY <2>2
  <2> QED BY <2>3, <2>4 DEF Range
<1>3. use \in DOMAIN ch  BY <1>2 DEF ListedBy, MergedLists
<1> SUFFICES ASSUME NEW j \in InstrsOf(ce), NEW q \in Range(j.ops), q.id \notin marked,
                    q.id # o.id
             PROVE  /\ q.dest # None => q.dest \in DOMAIN ch /\ j.id \in ch[q.dest].defs
                    /\ \A y \in Range(q.srcs) : y \in DOMAIN ch /\ j.id \in ch[y].uses
  BY DEF ListedBy
<1>4. PICK x \in InstrsOf(code) :
         /\ x \in InstrOver(Names) /\ j.id = x.id /\ DOMAIN j.ops = DOMAIN x.ops
         /\ \A k \in DOMAIN x.ops :
              x.ops[k] \in OpOver(Names) /\ j.ops[k] = OpAfter(x, x.ops[k], defs, uses, def, use)
  BY <1>1, InstrsRenamed
<1>5. PICK k \in DOMAIN x.ops : q = OpAfter(x, x.ops[k], defs, uses, def, use)
  BY <1>4 DEF Range
<1>6. PICK p \in Range(x.ops) :
         p \in OpOver(Names) /\ q = OpAfter(x, p, defs, uses, def, use)
  BY <1>4, <1>5 DEF Range
<1>7. p.id = q.id  BY <1>6 DEF OpAfter
<1>8. x.id # i.id
  <2> SUFFICES ASSUME x.id = i.id PROVE FALSE
    OBVIOUS
  <2>1. x = i  BY DEF Apart
  <2>2. p = o  BY <2>1 DEF MovesAlone
  <2> QED BY <1>7, <2>2
<1>9. /\ p.dest # None => p.dest \in DOMAIN mc /\ x.id \in mc[p.dest].defs
      /\ \A n \in Range(p.srcs) : n \in DOMAIN mc /\ x.id \in mc[n].uses
  BY <1>7 DEF ListedBy
<1>10. OpImage(q, p, def, use)
  <2>1. /\ p.dest = def => x.id \in defs
        /\ def \in Range(p.srcs) => x.id \in uses
    BY <1>1, <1>9
  <2> HIDE DEF defs, uses
  <2>2. OpImage(OpAfter(x, p, defs, uses, def, use), p, def, use)
    BY <1>1, <1>4, <1>6, <2>1, OpMerged
  <2> QED BY <1>6, <2>2
<1>11. ASSUME NEW y \in DOMAIN mc, x.id \in mc[y].defs
       PROVE  Image(def, use, y) \in DOMAIN ch /\ x.id \in ch[Image(def, use, y)].defs
  <2>1. CASE y = def \/ y = use
    <3>1. Image(def, use, y) = use  BY <2>1 DEF Image
    <3>2. x.id \in (mc[use].defs \cup mc[def].defs) \ {i.id}  BY <1>8, <1>11, <2>1
    <3> QED BY <1>3, <3>1, <3>2 DEF MergedLists
  <2>2. CASE y # def /\ y # use
    <3>1. Image(def, use, y) = y  BY <2>2 DEF Image
    <3> QED BY <1>11, <2>2, <3>1 DEF MergedLists
  <2> QED BY <2>1, <2>2
<1>12. ASSUME NEW y \in DOMAIN mc, x.id \in mc[y].uses
       PROVE  Image(def, use, y) \in DOMAIN ch /\ x.id \in ch[Image(def, use, y)].uses
  <2>1. CASE y = def \/ y = use
    <3>1. Image(def, use, y) = use  BY <2>1 DEF Image
    <3>2. x.id \in (mc[use].uses \cup mc[def].uses) \ {i.id}  BY <1>8, <1>12, <2>1
    <3> QED BY <1>3, <3>1, <3>2 DEF MergedLists
  <2>2. CASE y # def /\ y # use
    <3>1. Image(def, use, y) = y  BY <2>2 DEF Image
    <3> QED BY <1>12, <2>2, <3>1 DEF MergedLists
  <2> QED BY <2>1, <2>2
<1>13. ASSUME q.dest # None PROVE q.dest \in DOMAIN ch /\ j.id \in ch[q.dest].defs
  <2>1. q.dest = Image(def, use, p.dest)  BY <1>10 DEF OpImage
  <2>2. p.dest # None  BY <1>1, <1>13, <2>1 DEF Image
  <2> QED BY <1>4, <1>9, <1>11, <2>1, <2>2
<1>14. ASSUME NEW z \in Range(q.srcs) PROVE z \in DOMAIN ch /\ j.id \in ch[z].uses
  <2>1. PICK y \in Range(p.srcs) : z = Image(def, use, y)  BY <1>10 DEF OpImage
  <2> QED BY <1>4, <1>9, <1>12, <2>1
<1> QED BY <1>13, <1>14

LEMMA RemoveCompletes ==
    ASSUME IInv, Apart(code), MovesAlone(code), ListedBy(code, mc, marked),
           NEW i \in InstrsOf(code), NEW o \in Range(i.ops), IsMove(o),
           NEW ch, DOMAIN ch = DOMAIN mc,
           \A n \in DOMAIN mc : /\ mc[n].defs \ {i.id} \subseteq ch[n].defs
                                /\ mc[n].uses \ {i.id} \subseteq ch[n].uses
    PROVE  ListedBy(code, ch, marked \cup {o.id})
<1> SUFFICES ASSUME NEW x \in InstrsOf(code), NEW p \in Range(x.ops), p.id \notin marked,
                    p.id # o.id
             PROVE  /\ p.dest # None => p.dest \in DOMAIN ch /\ x.id \in ch[p.dest].defs
                    /\ \A n \in Range(p.srcs) : n \in DOMAIN ch /\ x.id \in ch[n].uses
  BY DEF ListedBy
<1>1. x.id # i.id
  <2> SUFFICES ASSUME x.id = i.id PROVE FALSE
    OBVIOUS
  <2>1. x = i  BY DEF Apart
  <2>2. p = o  BY <2>1 DEF MovesAlone
  <2> QED BY <2>2
<1>2. /\ p.dest # None => p.dest \in DOMAIN mc /\ x.id \in mc[p.dest].defs
      /\ \A n \in Range(p.srcs) : n \in DOMAIN mc /\ x.id \in mc[n].uses
  BY DEF ListedBy
<1> QED BY <1>1, <1>2

LEMMA CoalesceCompletes ==
    ASSUME IInv, Apart(code), MovesAlone(code), Complete, CoalesceOper
    PROVE  ListedBy(code', mc', marked') /\ MovesAlone(code')
<1>1. phase = "coalesce" /\ ListedBy(code, mc, marked) /\ code \in Routine(Names)
  BY DEF CoalesceOper, Complete, IInv, Named
<1>2. PICK i \in InstrsOf(code) : \E o \in Range(i.ops) :
         /\ IsMove(o) /\ o.id \in pending
         /\ \/ /\ o.dest = Head(o.srcs)
               /\ RemoveMove(o.dest, i.id)
               /\ marked' = marked \cup {o.id}
            \/ /\ o.dest # Head(o.srcs)
               /\ Coalesce(o.dest, Head(o.srcs), i.id)
               /\ marked' = marked \cup {o.id}
            \/ UNCHANGED <<code, mc, color, edges, nodes, marked>>
  BY DEF CoalesceOper
<1>3. PICK o \in Range(i.ops) :
         /\ IsMove(o) /\ o.id \in pending
         /\ \/ /\ o.dest = Head(o.srcs)
               /\ RemoveMove(o.dest, i.id)
               /\ marked' = marked \cup {o.id}
            \/ /\ o.dest # Head(o.srcs)
               /\ Coalesce(o.dest, Head(o.srcs), i.id)
               /\ marked' = marked \cup {o.id}
            \/ UNCHANGED <<code, mc, color, edges, nodes, marked>>
  BY <1>2
<1>4. o.id \notin marked  BY <1>3 DEF IInv, MovesToCome
<1> DEFINE ch == mc'
           K == marked \cup {o.id}
<1>5. CASE RemoveMove(o.dest, i.id) /\ marked' = K
  <2> DEFINE n == o.dest
  <2>1. /\ code' = code
        /\ mc' = [mc EXCEPT ![n].defs = @ \ {i.id}, ![n].noDefs = @ - 1,
                            ![n].uses = @ \ {i.id}, ![n].noUses = @ - 1]
    BY <1>5 DEF RemoveMove
  <2> HIDE DEF n
  <2>2. /\ DOMAIN ch = DOMAIN mc
        /\ \A m \in DOMAIN mc : /\ mc[m].defs \ {i.id} \subseteq ch[m].defs
                                /\ mc[m].uses \ {i.id} \subseteq ch[m].uses
    BY <2>1
  <2> HIDE DEF ch
  <2>3. ListedBy(code, ch, K)  BY <1>1, <1>3, <2>2, RemoveCompletes
  <2> QED BY <1>5, <2>1, <2>3 DEF ch
<1>6. CASE /\ o.dest # Head(o.srcs) /\ Coalesce(o.dest, Head(o.srcs), i.id) /\ marked' = K
  <2> DEFINE def == o.dest
             use == Head(o.srcs)
             J == Joined(def, use, code', i.id)
             ce == Renamed(code, mc[def].defs, mc[def].uses, def, use)
  <2>1. /\ code' = ce
        /\ mc' = [n \in DOMAIN mc \ {def} |-> IF n = use THEN J ELSE mc[n]]
    BY <1>6 DEF Coalesce
  <2>2. /\ (mc[use].defs \cup mc[def].defs) \ {i.id} \subseteq J.defs
        /\ (mc[use].uses \cup mc[def].uses) \ {i.id} \subseteq J.uses
    BY DEF Joined
  <2> HIDE DEF def, use, J
  <2>3. MergedLists(def, use, i.id, ch)  BY <2>1, <2>2 DEF MergedLists
  <2> HIDE DEF ch
  <2>4. def = o.dest /\ use = Head(o.srcs) /\ def # use  BY <1>6 DEF def, use
  <2>5. ListedBy(ce, ch, K)  BY <1>1, <1>3, <1>4, <2>3, <2>4, MergeCompletes
  <2>6. MovesAlone(ce)  BY <1>1, AloneRenamed
  <2> QED BY <1>6, <2>1, <2>5, <2>6 DEF ch
<1>7. CASE UNCHANGED <<code, mc, color, edges, nodes, marked>>
  BY <1>1, <1>7
<1> QED BY <1>3, <1>5, <1>6, <1>7

LEMMA StaysComplete ==
    ASSUME IInv, Apart(code), MovesAlone(code), Complete, [Next]_vars
    PROVE  MovesAlone(code') /\ (phase' # "chains" => ListedBy(code', mc', marked'))
<1>1. CASE Chains
  <2>1. code' = code /\ marked' = {}  BY <1>1 DEF Chains, IInv, Phases
  <2> QED BY <1>1, <2>1, ChainsComplete
<1>2. CASE CoalesceOper  BY <1>2, CoalesceCompletes
<1>3. CASE DeleteUselessIR
  <2>1. /\ code' = Unmarked(code) /\ mc' = mc /\ marked' = {} /\ ListedBy(code, mc, marked)
        /\ code \in Routine(Names)
    BY <1>3 DEF DeleteUselessIR, Complete, IInv, Named
  <2> QED BY <2>1, DeleteCompletes, AloneUnmarked
<1>4. CASE Spill
  <2>1. marked' = {}  BY <1>4 DEF Spill, IInv, Phases
  <2> QED BY <1>4, <2>1, SpillCompletes
<1>5. CASE Build \/ Simplify \/ Select \/ Restart
  BY <1>5 DEF Build, Simplify, Select, Restart, Complete
<1>6. CASE UNCHANGED vars  BY <1>6 DEF vars, Complete
<1> QED BY <1>1, <1>2, <1>3, <1>4, <1>5, <1>6 DEF Next, Stopped

\* Routines whose instructions hold a move or other operations, but not both: those of
\* a machine that issues one operation at a time.
Solitary == \A p \in Programs : MovesAlone(p)

\* Merges, deletions and spills keep every operand in the lists of its multichain, by
\* which registers are given, where moves are alone in their instructions.
THEOREM ListsStayComplete == Spec /\ Solitary => []Complete
<1> DEFINE Inv == MovesAlone(code) /\ Complete
<1>1. Init /\ Solitary => Inv  BY DEF Init, Solitary, Complete
<1>2. IInv /\ Apart(code) /\ Inv /\ [Next]_vars => Inv'
  BY StaysComplete DEF Complete
<1>3. Inv => Complete  OBVIOUS
<1> HIDE DEF Inv
<1> QED BY <1>1, <1>2, <1>3, AllocationInvariant, IdsKeptApart, PTL DEF Spec

\* The same of the code as it stands when no deletion is to come.
THEOREM OperandsStayListed == Spec /\ Solitary => []OperandsListed
<1>1. ASSUME IInv, Complete PROVE OperandsListed
  <2> SUFFICES ASSUME phase \in {"simplify", "select", "spill", "done"}, NEW i \in InstrsOf(code)
               PROVE  /\ \A n \in Defs(i) : i.id \in mc[n].defs
                      /\ \A n \in Uses(i) : i.id \in mc[n].uses
    BY DEF OperandsListed
  <2>1. ListedBy(code, mc, {})  BY <1>1 DEF Complete, IInv, Phases
  <2> QED BY <2>1 DEF ListedBy, Defs, Uses
<1> QED BY <1>1, AllocationInvariant, ListsStayComplete, PTL

\* Names that interfere have an edge while colours are chosen, for every routine whose
\* moves are alone.
THEOREM InterferencesKeptAlone == Spec /\ Solitary => []InterferencesKept
BY ListsStayComplete, InterferencesStay, PTL

\* What build is for, in an allocated routine: two names that interfere in the code as it
\* stands then have different registers, although the edges date from before the merges
\* and deletions of the last round.
RegistersApart ==
    phase = "done" =>
        \A n, m \in DOMAIN mc : n # m /\ {n, m} \in Interferences(code) => color[n] # color[m]

THEOREM RegistersStayApart == Spec /\ Solitary => []RegistersApart
<1>1. ASSUME IInv, Spared, NeighboursApart, ClassesRespected PROVE RegistersApart
  <2> SUFFICES ASSUME phase = "done", NEW n \in DOMAIN mc, NEW m \in DOMAIN mc, n # m,
                      {n, m} \in Interferences(code)
               PROVE  color[n] # color[m]
    BY DEF RegistersApart
  <2>1. color[n] \in class[n] /\ color[m] \in class[m]  BY <1>1 DEF ClassesRespected
  <2>2. CASE class[n] \cap class[m] = {}  BY <2>1, <2>2
  <2>3. CASE class[n] \cap class[m] # {}
    <3>1. Cardinality({n, m}) = 2  BY PairOf
    <3>2. \A x, y \in {n, m} : class[x] \cap class[y] # {}  BY <2>1, <2>3
    <3>3. {n, m} \in edges  BY <1>1, <3>1, <3>2 DEF Spared, SparedBy
    <3> QED BY <1>1, <3>3 DEF NeighboursApart
  <2> QED BY <2>2, <2>3
<1>2. Init => Spared  BY DEF Init, Spared
<1>3. IInv /\ Apart(code) /\ Complete /\ Spared /\ [Next]_vars => Spared'
  BY StaysSpared
<1> QED BY <1>1, <1>2, <1>3, AllocationInvariant, IdsKeptApart, ListsStayComplete,
           NeighboursKeptApart, ClassesKept, PTL DEF Spec

-----------------------------------------------------------------------------
(* What runs after a merge, and after colouring, does what ran before *)

\* An iteration from the empty set upwards is still after as many steps as there are
\* members.
Rises(F, B) ==
    /\ F \in [SUBSET B -> SUBSET B]
    /\ \A T, U \in SUBSET B : T \subseteq U => F[T] \subseteq F[U]
Rounds(S, F, B, C) ==
    /\ S \in [0..C -> SUBSET B] /\ S[0] = {}
    /\ \A k \in 1..C : S[k] = F[S[k - 1]]

LEMMA StillAtLast ==
    ASSUME NEW B, IsFiniteSet(B), NEW C \in Nat, C = Cardinality(B),
           NEW F, Rises(F, B), NEW S, Rounds(S, F, B, C)
    PROVE  F[S[C]] = S[C]
<1> USE DEF Rises, Rounds
<1>1. \A k \in 1..C : k \in 0..C /\ k - 1 \in 0..C  OBVIOUS
<1> DEFINE Up == {k \in 0..C : S[k] \subseteq F[S[k]]}
<1>2. 0 \in Up  OBVIOUS
<1>3. ASSUME NEW k \in 1..C, k - 1 \in Up PROVE k \in Up
  <2>1. S[k - 1] \subseteq F[S[k - 1]] /\ F[S[k - 1]] = S[k]  BY <1>3
  <2>2. S[k - 1] \in SUBSET B /\ S[k] \in SUBSET B  BY <1>1
  <2>3. F[S[k - 1]] \subseteq F[S[k]]  BY <2>1, <2>2
  <2> QED BY <1>1, <2>1, <2>3
<1>4. \A k \in 0..C : S[k] \subseteq F[S[k]]
  <2> SUFFICES ASSUME NEW k \in 0..C PROVE k \in Up
    OBVIOUS
  <2> HIDE DEF Up
  <2>1. 0..C \subseteq Up  BY <1>2, <1>3, Upwards
  <2> QED BY <2>1
<1>5. \A k \in 0..C : IsFiniteSet(S[k]) /\ Cardinality(S[k]) \in Nat
  BY FS_Subset, FS_CardinalityType
<1> DEFINE G == {k \in 0..C : F[S[k]] = S[k] \/ k <= Cardinality(S[k])}
<1>6. 0 \in G
  <2>1. 0 \in 0..C  OBVIOUS
  <2>2. PICK c \in Nat : c = Cardinality(S[0])  BY <1>5, <2>1
  <2>3. 0 <= Cardinality(S[0])  BY <2>2
  <2> QED BY <2>1, <2>3
<1>7. ASSUME NEW k \in 1..C, k - 1 \in G PROVE k \in G
  <2> DEFINE T == S[k - 1]
             U == S[k]
  <2>1. T \in SUBSET B /\ U \in SUBSET B /\ U = F[T] /\ k \in 0..C  BY <1>1
  <2>2. F[T] = T \/ k - 1 <= Cardinality(T)  BY <1>7
  <2>3. T \subseteq U  BY <1>1, <1>4
  <2>4. IsFiniteSet(T) /\ IsFiniteSet(U)  BY <1>1, <1>5
  <2>5. F[U] = U \/ k <= Cardinality(U) => k \in G  BY <2>1
  <2> HIDE DEF T, U, G
  <2>6. CASE U = T  BY <2>1, <2>5, <2>6
  <2>7. CASE U # T
    <3>1. PICK a \in Nat, c \in Nat : a = Cardinality(T) /\ c = Cardinality(U)
      BY <2>4, FS_CardinalityType
    <3>2. a <= c /\ a # c
      <4>1. Cardinality(T) <= Cardinality(U) /\ (Cardinality(U) = Cardinality(T) => U = T)
        BY <2>3, <2>4, FS_Subset
      <4> QED BY <2>7, <3>1, <4>1
    <3>3. k - 1 <= a  BY <2>1, <2>2, <2>7, <3>1
    <3> QED BY <2>5, <3>1, <3>2, <3>3
  <2> QED BY <2>6, <2>7
<1>8. C \in G
  <2>1. C \in 0..C  OBVIOUS
  <2> HIDE DEF G
  <2>2. 0..C \subseteq G  BY <1>6, <1>7, Upwards
  <2> QED BY <2>1, <2>2
<1>9. CASE C <= Cardinality(S[C])
  <2> DEFINE U == S[C]
  <2>1. U \in SUBSET B /\ U \subseteq F[U] /\ F[U] \in SUBSET B
    <3>1. C \in 0..C  OBVIOUS
    <3> QED BY <1>4, <3>1
  <2>2. C <= Cardinality(U)  BY <1>9
  <2> HIDE DEF U
  <2>3. U = B
    <3>1. IsFiniteSet(U) /\ Cardinality(U) <= C /\ (C = Cardinality(U) => B = U)
      BY <2>1, FS_Subset
    <3>2. PICK c \in Nat : c = Cardinality(U)  BY <3>1, FS_CardinalityType
    <3> QED BY <2>2, <3>1, <3>2
  <2> QED BY <2>1, <2>3 DEF U
<1> QED BY <1>8, <1>9

\* What a block after this one reads before it writes it, is live at the end of this one.
LEMMA LiveAcross ==
    ASSUME NEW N, NEW cd \in Routine(N), NEW b \in Block, NEW s \in Succ[b], NEW n,
           AliveAt(cd[s], LiveOut(cd)[s], 0, n)
    PROVE  n \in LiveOut(cd)[b]
<1>1. PICK C \in Nat : C = Cardinality(Block)  BY FS_CardinalityType, RegAllocAssumption
<1>2. PICK h : InSteps(cd, h, C)  BY <1>1, LiveOutSteps
<1>3. /\ \A c \in Block : LiveOut(cd)[c] = Out(h[C], c)
      /\ h[0] = [c \in Block |-> {}]
      /\ \A k \in 1..C : \A c \in Block :
           h[k][c] = UpwardUses(cd)[c] \cup (Out(h[k - 1], c) \ DefsOf(cd)[c])
  BY <1>2 DEF InSteps
<1> DEFINE F == [T \in SUBSET Block |->
                   {c \in Block : \/ n \in UpwardUses(cd)[c]
                                  \/ n \notin DefsOf(cd)[c] /\ \E t \in Succ[c] : t \in T}]
           S == [k \in 0..C |-> {c \in Block : n \in h[k][c]}]
<1>4. \A c \in Block : Succ[c] \subseteq Block  BY RegAllocAssumption
<1>5. Rises(F, Block)  BY DEF Rises
<1>6. S \in [0..C -> SUBSET Block] /\ S[0] = {}
  <2>1. 0 \in 0..C  OBVIOUS
  <2> QED BY <1>3, <2>1
<1>7. ASSUME NEW k \in 0..C, NEW c \in Block
      PROVE  n \in Out(h[k], c) <=> \E t \in Succ[c] : t \in S[k]
  <2>1. n \in Out(h[k], c) <=> \E t \in Succ[c] : n \in h[k][t]  BY DEF Out
  <2> QED BY <1>4, <2>1
<1>8. ASSUME NEW k \in 0..C
      PROVE  F[S[k]] = {c \in Block : n \in UpwardUses(cd)[c] \cup (Out(h[k], c) \ DefsOf(cd)[c])}
  <2>1. S[k] \in SUBSET Block  BY <1>6
  <2> HIDE DEF S
  <2>2. F[S[k]] = {c \in Block : \/ n \in UpwardUses(cd)[c]
                                 \/ n \notin DefsOf(cd)[c] /\ \E t \in Succ[c] : t \in S[k]}
    BY <2>1
  <2> QED BY <1>7, <2>2
<1>9. ASSUME NEW k \in 1..C PROVE S[k] = F[S[k - 1]]
  <2>1. k \in 0..C /\ k - 1 \in 0..C  OBVIOUS
  <2>2. S[k] = {c \in Block : n \in h[k][c]}  BY <2>1
  <2> HIDE DEF F, S
  <2> QED BY <1>3, <1>8, <2>1, <2>2
<1>10. F[S[C]] = S[C]
  <2>1. IsFiniteSet(Block)  BY RegAllocAssumption
  <2> HIDE DEF F, S
  <2>2. Rounds(S, F, Block, C)  BY <1>6, <1>9 DEF Rounds
  <2> QED BY <1>1, <1>5, <2>1, <2>2, StillAtLast
<1>11. C \in 0..C /\ s \in Block  BY <1>4
<1>12. s \in F[S[C]]
  <2>1. cd[s] \in Seq(InstrOver(N))  BY <1>11 DEF Routine
  <2>2. Len(cd[s]) \in Nat /\ DOMAIN cd[s] = 1..Len(cd[s])  BY <2>1, RangeOf
  <2>3. AliveAt(cd[s], Out(h[C], s), 0, n)  BY <1>3, <1>11
  <2>4. n \in UpwardUses(cd)[s] \cup (Out(h[C], s) \ DefsOf(cd)[s])
    BY <1>11, <2>2, <2>3, InIs
  <2> HIDE DEF F, S
  <2> QED BY <1>8, <1>11, <2>4
<1>13. n \in Out(h[C], b)
  <2> HIDE DEF F, S
  <2> QED BY <1>7, <1>10, <1>11, <1>12
<1> QED BY <1>3, <1>13

\* Operation o with every name where phi has it.
Recoded(o, phi) ==
    [id |-> o.id, kind |-> o.kind, dest |-> IF o.dest = None THEN None ELSE phi[o.dest],
     srcs |-> [k \in DOMAIN o.srcs |-> phi[o.srcs[k]]], slot |-> o.slot]
RecodedAll(T, phi) == {Recoded(o, phi) : o \in T}

\* Instruction j is i recoded, or a copy to where it is already that j leaves out.
Carries(i, j, phi) ==
    \/ /\ \A o, p \in Range(i.ops) : o.id = p.id => o = p
       /\ Range(j.ops) = RecodedAll(Range(i.ops), phi)
    \/ /\ Range(j.ops) = {}
       /\ \E o \in Range(i.ops) :
            Range(i.ops) = {o} /\ IsMove(o) /\ phi[o.dest] = phi[Head(o.srcs)]

\* State t has the names L of state s where phi has them.
Same(s, t, L, phi) ==
    s.mem = t.mem /\ s.read = t.read /\ \A n \in L : s.reg[n] = t.reg[phi[n]]
Covers(s, t, N, phi) == \A n \in N : n \in DOMAIN s.reg /\ phi[n] \in DOMAIN t.reg

\* No definition of i goes where a name of L is.
Clear(i, L, phi) == \A d \in Defs(i) : \A l \in L : phi[d] = phi[l] => d = l

\* U is what F makes of T, operations that it leaves apart.
ImageOf(F, T, U) ==
    /\ U = {} <=> T = {}
    /\ Alone(U) <=> Alone(T)
    /\ T # {} /\ Alone(T) => (CHOOSE p \in U : TRUE) = F[CHOOSE o \in T : TRUE]

LEMMA ImageOnly ==
    ASSUME NEW S, \A o, p \in S : o.id = p.id => o = p, NEW F, \A o \in S : F[o].id = o.id,
           NEW T \in SUBSET S, NEW U, \A p : p \in U <=> \E o \in T : p = F[o]
    PROVE  ImageOf(F, T, U)
<1>3. U = {} <=> T = {}  OBVIOUS
<1>4. Alone(U) <=> Alone(T)
  <2>1. ASSUME Alone(U), NEW o \in T, NEW p \in T PROVE o = p
    <3>1. F[o] = F[p]  BY <2>1 DEF Alone
    <3>2. o.id = p.id  BY <3>1
    <3> QED BY <3>2
  <2>2. ASSUME Alone(T), NEW p \in U, NEW q \in U PROVE p = q
    BY <2>2 DEF Alone
  <2> QED BY <2>1, <2>2 DEF Alone
<1>5. ASSUME T # {}, Alone(T) PROVE (CHOOSE p \in U : TRUE) = F[CHOOSE o \in T : TRUE]
  <2>1. PICK o \in T : TRUE  BY <1>5
  <2>2. (CHOOSE p \in T : TRUE) \in T  BY <2>1
  <2>3. (CHOOSE p \in T : TRUE) = o  BY <1>5, <2>1, <2>2 DEF Alone
  <2>4. F[o] \in U  OBVIOUS
  <2>5. (CHOOSE p \in U : TRUE) \in U  BY <2>4
  <2>6. (CHOOSE p \in U : TRUE) = F[o]  BY <1>4, <1>5, <2>4, <2>5 DEF Alone
  <2> QED BY <2>3, <2>6
<1> QED BY <1>3, <1>4, <1>5 DEF ImageOf

\* The operations of j are those of i as F has them, and read and leave what those do.
Mirrors(i, j, F, s, t) ==
    /\ \A o, p \in Range(i.ops) : o.id = p.id => o = p
    /\ \A p : p \in Range(j.ops) <=> \E o \in Range(i.ops) : p = F[o]
    /\ \A o \in Range(i.ops) :
         /\ F[o].id = o.id /\ F[o].kind = o.kind /\ F[o].slot = o.slot
         /\ ReadOf(t, F[o]) = ReadOf(s, o) /\ ResultOf(t, F[o]) = ResultOf(s, o)

LEMMA MirrorReads ==
    ASSUME NEW i, NEW j, NEW F, NEW s, NEW t, Mirrors(i, j, F, s, t)
    PROVE  ReadBy(t, j) = ReadBy(s, i)
<1>1. ASSUME NEW x \in ReadBy(t, j) PROVE x \in ReadBy(s, i)
  <2>1. PICK p \in Range(j.ops) : p.kind = "op" /\ x = <<p.id, ReadOf(t, p)>>  BY DEF ReadBy
  <2>2. PICK o \in Range(i.ops) : p = F[o]  BY DEF Mirrors
  <2>3. o.kind = "op" /\ x = <<o.id, ReadOf(s, o)>>  BY <2>1, <2>2 DEF Mirrors
  <2> QED BY <2>3 DEF ReadBy
<1>2. ASSUME NEW x \in ReadBy(s, i) PROVE x \in ReadBy(t, j)
  <2>1. PICK o \in Range(i.ops) : o.kind = "op" /\ x = <<o.id, ReadOf(s, o)>>  BY DEF ReadBy
  <2>2. PICK p \in Range(j.ops) : p = F[o]  BY DEF Mirrors
  <2>3. p.kind = "op" /\ x = <<p.id, ReadOf(t, p)>>  BY <2>1, <2>2 DEF Mirrors
  <2> QED BY <2>3 DEF ReadBy
<1> QED BY <1>1, <1>2

LEMMA MirrorStores ==
    ASSUME NEW i, NEW j, NEW F, NEW s, NEW t, Mirrors(i, j, F, s, t), NEW x
    PROVE  /\ Storing(j, x) = {} <=> Storing(i, x) = {}
           /\ s.mem[x] = t.mem[x] \/ Storing(i, x) # {} => SlotAfter(t, j, x) = SlotAfter(s, i, x)
<1> DEFINE S == Range(i.ops)
           T == Storing(i, x)
           U == Storing(j, x)
           o == CHOOSE o \in T : TRUE
<1>1. T \in SUBSET S  BY DEF Storing
<1>c. \A p : p \in U <=> \E q \in T : p = F[q]  BY DEF Storing, Mirrors
<1>2. \A p \in S : ReadOf(t, F[p]) = ReadOf(s, p)  BY DEF Mirrors
<1>a. \A p, q \in S : p.id = q.id => p = q  BY DEF Mirrors
<1>b. \A p \in S : F[p].id = p.id  BY DEF Mirrors
<1>3. T # {} => o \in S  BY <1>1
<1> HIDE DEF S, T, U, o
<1>e. ImageOf(F, T, U)  BY <1>1, <1>a, <1>b, <1>c, ImageOnly
<1>4. /\ U = {} <=> T = {}
      /\ Alone(U) <=> Alone(T)
      /\ T # {} /\ Alone(T) => (CHOOSE p \in U : TRUE) = F[CHOOSE q \in T : TRUE]
  BY <1>e DEF ImageOf
<1>d. T # {} /\ Alone(T) => (CHOOSE p \in U : TRUE) = F[o]  BY <1>4 DEF o
<1>5. CASE T = {}  BY <1>4, <1>5 DEF SlotAfter, T, U
<1>6. CASE T # {} /\ Alone(T)
  <2>1. SlotAfter(t, j, x) = ReadOf(t, F[o])[1]  BY <1>4, <1>d, <1>6 DEF SlotAfter, U
  <2>2. SlotAfter(s, i, x) = ReadOf(s, o)[1]  BY <1>6 DEF SlotAfter, T, o
  <2> QED BY <1>2, <1>3, <1>4, <1>6, <2>1, <2>2 DEF T, U
<1>7. CASE T # {} /\ ~Alone(T)  BY <1>4, <1>7 DEF SlotAfter, T, U
<1> QED BY <1>5, <1>6, <1>7

LEMMA MirrorWrites ==
    ASSUME NEW i, NEW j, NEW F, NEW s, NEW t, Mirrors(i, j, F, s, t), NEW l, NEW r,
           l # None, r # None, \A o \in Range(i.ops) : F[o].dest = r <=> o.dest = l,
           l \notin Defs(i) => s.reg[l] = t.reg[r]
    PROVE  RegisterAfter(t, j, r) = RegisterAfter(s, i, l)
<1> DEFINE S == Range(i.ops)
           T == Writers(i, l)
           U == Writers(j, r)
           o == CHOOSE o \in T : TRUE
<1>1. T \in SUBSET S  BY DEF Writers
<1>c. \A p : p \in U <=> \E q \in T : p = F[q]  BY DEF Writers, Mirrors
<1>2. \A p \in S : ResultOf(t, F[p]) = ResultOf(s, p)  BY DEF Mirrors
<1>a. \A p, q \in S : p.id = q.id => p = q  BY DEF Mirrors
<1>b. \A p \in S : F[p].id = p.id  BY DEF Mirrors
<1>3. T # {} => o \in S  BY <1>1
<1>d. T = {} => s.reg[l] = t.reg[r]
  <2>1. T = {} => l \notin Defs(i)  BY DEF Writers, Defs
  <2> QED BY <2>1
<1> HIDE DEF S, T, U
<1>e. ImageOf(F, T, U)  BY <1>1, <1>a, <1>b, <1>c, ImageOnly
<1>4. /\ U = {} <=> T = {}
      /\ Alone(U) <=> Alone(T)
      /\ T # {} /\ Alone(T) => (CHOOSE p \in U : TRUE) = F[o]
  BY <1>e DEF ImageOf, o
<1> HIDE DEF o
<1>5. CASE T = {}  BY <1>4, <1>5, <1>d DEF RegisterAfter, T, U
<1>6. CASE T # {} /\ Alone(T)
  <2>1. RegisterAfter(t, j, r) = ResultOf(t, F[o])  BY <1>4, <1>6 DEF RegisterAfter, U
  <2>2. RegisterAfter(s, i, l) = ResultOf(s, o)  BY <1>6 DEF RegisterAfter, T, o
  <2> QED BY <1>2, <1>3, <1>6, <2>1, <2>2
<1>7. CASE T # {} /\ ~Alone(T)
  <2>1. RegisterAfter(t, j, r) = Garbage  BY <1>4, <1>7 DEF RegisterAfter, U
  <2>2. RegisterAfter(s, i, l) = Garbage  BY <1>7 DEF RegisterAfter, T
  <2> QED BY <2>1, <2>2
<1> QED BY <1>5, <1>6, <1>7

\* A recoded operation reads what the operation read, and leaves what it left.
LEMMA RecodedDoes ==
    ASSUME NEW N, NEW phi, NEW o \in OpOver(N), NEW s, NEW t, NEW L,
           Same(s, t, L, phi), Range(o.srcs) \subseteq L
    PROVE  /\ ReadOf(t, Recoded(o, phi)) = ReadOf(s, o)
           /\ ResultOf(t, Recoded(o, phi)) = ResultOf(s, o)
<1> DEFINE p == Recoded(o, phi)
<1>1. /\ p.id = o.id /\ p.kind = o.kind /\ p.slot = o.slot
      /\ p.srcs = [k \in DOMAIN o.srcs |-> phi[o.srcs[k]]]
  BY DEF Recoded
<1> HIDE DEF p
<1>2. ReadOf(t, p) = ReadOf(s, o)
  <2>1. DOMAIN p.srcs = DOMAIN o.srcs  BY <1>1
  <2>2. \A k \in DOMAIN o.srcs : s.reg[o.srcs[k]] = t.reg[p.srcs[k]]
    <3> TAKE k \in DOMAIN o.srcs
    <3>1. o.srcs[k] \in L  BY DEF Range
    <3>2. p.srcs[k] = phi[o.srcs[k]]  BY <1>1
    <3> QED BY <3>1, <3>2 DEF Same
  <2> QED BY <2>1, <2>2 DEF ReadOf
<1>3. ResultOf(t, p) = ResultOf(s, o)
  <2>1. CASE o.kind = "move"  BY <1>1, <1>2, <2>1 DEF ResultOf
  <2>2. CASE o.kind = "load"  BY <1>1, <2>2 DEF ResultOf, Same
  <2>3. CASE o.kind # "move" /\ o.kind # "load"  BY <1>1, <2>3 DEF ResultOf, Same
  <2> QED BY <2>1, <2>2, <2>3
<1> QED BY <1>2, <1>3 DEF p

\* The parts of an instruction that is executed.
ExecutedAs(s, i, u) ==
    /\ DOMAIN u.reg = DOMAIN s.reg
    /\ \A r \in DOMAIN s.reg : u.reg[r] = RegisterAfter(s, i, r)
    /\ u.mem = [x \in DOMAIN s.mem |-> SlotAfter(s, i, x)]
    /\ u.read = IF ReadBy(s, i) = {} THEN s.read ELSE Append(s.read, ReadBy(s, i))

LEMMA Executed == ASSUME NEW s, NEW i PROVE ExecutedAs(s, i, Execute(s, i))
BY DEF Execute, ExecutedAs

\* What is live before an instruction, given what is live after it.
Before(i, L) == (L \ Defs(i)) \cup Uses(i)

LEMMA RecodedRuns ==
    ASSUME NEW N, None \notin N, NEW i \in InstrOver(N), NEW j, NEW R, None \notin R,
           NEW phi \in [N -> R], NEW L \in SUBSET N, Clear(i, L, phi),
           \A o, p \in Range(i.ops) : o.id = p.id => o = p,
           Range(j.ops) = RecodedAll(Range(i.ops), phi),
           NEW s, NEW t, Same(s, t, Before(i, L), phi), Covers(s, t, N, phi)
    PROVE  Same(Execute(s, i), Execute(t, j), L, phi)
<1>e. ExecutedAs(s, i, Execute(s, i)) /\ ExecutedAs(t, j, Execute(t, j))  BY Executed
<1> DEFINE S == Range(i.ops)
<1>1. S \subseteq OpOver(N)
  <2>1. i.ops \in Seq(OpOver(N))  BY DEF InstrOver
  <2> QED BY <2>1, RangeOf
<1>2. ASSUME NEW o \in S
      PROVE  /\ ReadOf(t, Recoded(o, phi)) = ReadOf(s, o)
             /\ ResultOf(t, Recoded(o, phi)) = ResultOf(s, o)
  <2>1. Range(o.srcs) \subseteq Before(i, L)  BY DEF Before, Uses
  <2> QED BY <1>1, <2>1, RecodedDoes
<1> DEFINE F == [o \in S |-> Recoded(o, phi)]
<1>3. \A p : p \in Range(j.ops) <=> \E o \in S : p = F[o]  BY DEF RecodedAll
<1>4. \A o \in S : /\ F[o].id = o.id /\ F[o].kind = o.kind /\ F[o].slot = o.slot
                   /\ F[o].dest = IF o.dest = None THEN None ELSE phi[o.dest]
  BY DEF Recoded
<1>5. \A o \in S : ReadOf(t, F[o]) = ReadOf(s, o) /\ ResultOf(t, F[o]) = ResultOf(s, o)
  BY <1>2
<1>6. \A o \in S : o.dest # None => o.dest \in Defs(i) /\ o.dest \in N
  BY <1>1 DEF Defs, OpOver
<1> HIDE DEF F
<1>7. Mirrors(i, j, F, s, t)  BY <1>3, <1>4, <1>5 DEF Mirrors
<1>8. ReadBy(t, j) = ReadBy(s, i)  BY <1>7, MirrorReads
<1>9. ASSUME NEW x PROVE SlotAfter(t, j, x) = SlotAfter(s, i, x)
  BY <1>7, MirrorStores DEF Same
<1>10. ASSUME NEW l \in L PROVE RegisterAfter(t, j, phi[l]) = RegisterAfter(s, i, l)
  <2>1. l \in N /\ l # None /\ phi[l] # None  OBVIOUS
  <2>2. \A p \in S : F[p].dest = phi[l] <=> p.dest = l
    BY <1>4, <1>6, <2>1 DEF Clear
  <2>3. l \notin Defs(i) => s.reg[l] = t.reg[phi[l]]  BY DEF Same, Before
  <2> QED BY <1>7, <2>1, <2>2, <2>3, MirrorWrites
<1>11. Execute(s, i).mem = Execute(t, j).mem
  <2>1. s.mem = t.mem  BY DEF Same
  <2> QED BY <1>9, <2>1, <1>e DEF ExecutedAs
<1>12. Execute(s, i).read = Execute(t, j).read
  <2>1. s.read = t.read  BY DEF Same
  <2> QED BY <1>8, <2>1, <1>e DEF ExecutedAs
<1>13. ASSUME NEW l \in L PROVE Execute(s, i).reg[l] = Execute(t, j).reg[phi[l]]
  <2>1. l \in DOMAIN s.reg /\ phi[l] \in DOMAIN t.reg  BY DEF Covers
  <2> QED BY <1>10, <2>1, <1>e DEF ExecutedAs
<1> QED BY <1>11, <1>12, <1>13 DEF Same

LEMMA DroppedRuns ==
    ASSUME NEW N, None \notin N, NEW i \in InstrOver(N), NEW j, NEW phi, NEW L \in SUBSET N,
           Range(j.ops) = {}, NEW o \in Range(i.ops), Range(i.ops) = {o}, IsMove(o),
           phi[o.dest] = phi[Head(o.srcs)],
           NEW s, NEW t, Same(s, t, Before(i, L), phi), Covers(s, t, N, phi)
    PROVE  Same(Execute(s, i), Execute(t, j), L, phi)
<1>e. ExecutedAs(s, i, Execute(s, i)) /\ ExecutedAs(t, j, Execute(t, j))  BY Executed
<1>1. o \in OpOver(N)
  <2>1. i.ops \in Seq(OpOver(N))  BY DEF InstrOver
  <2> QED BY <2>1, RangeOf
<1>2. o.srcs \in Seq(N) /\ Len(o.srcs) = 1 /\ o.kind = "move" /\ o.dest # None
  BY <1>1 DEF OpOver, IsMove
<1>3. DOMAIN o.srcs = 1..1 /\ Head(o.srcs) = o.srcs[1]  BY <1>2, LenProperties
<1>4. 1 \in DOMAIN o.srcs  BY <1>3
<1>5. Head(o.srcs) \in Uses(i)  BY <1>3, <1>4 DEF Uses, Range
<1>6. ReadOf(s, o)[1] = s.reg[Head(o.srcs)]  BY <1>3, <1>4 DEF ReadOf
<1>7. ReadBy(s, i) = {} /\ ReadBy(t, j) = {}  BY <1>2 DEF ReadBy
<1>8. \A x : Storing(i, x) = {} /\ Storing(j, x) = {}  BY <1>2 DEF Storing
<1>9. \A r : /\ Writers(j, r) = {}
             /\ Writers(i, r) = IF r = o.dest THEN {o} ELSE {}
  BY <1>2 DEF Writers
<1>10. Execute(s, i).mem = Execute(t, j).mem
  <2>1. s.mem = t.mem  BY DEF Same
  <2>2. \A x : SlotAfter(s, i, x) = s.mem[x] /\ SlotAfter(t, j, x) = s.mem[x]
    BY <1>8, <2>1 DEF SlotAfter
  <2> QED BY <2>1, <2>2, <1>e DEF ExecutedAs
<1>11. Execute(s, i).read = Execute(t, j).read
  <2>1. s.read = t.read  BY DEF Same
  <2> QED BY <1>7, <2>1, <1>e DEF ExecutedAs
<1>12. ASSUME NEW l \in L PROVE Execute(s, i).reg[l] = Execute(t, j).reg[phi[l]]
  <2>1. l \in DOMAIN s.reg /\ phi[l] \in DOMAIN t.reg  BY DEF Covers
  <2>2. Execute(t, j).reg[phi[l]] = t.reg[phi[l]]
    BY <1>9, <2>1, <1>e DEF ExecutedAs, RegisterAfter
  <2>3. CASE l = o.dest
    <3>1. Writers(i, l) = {o}  BY <1>9, <2>3
    <3>2. Alone({o}) /\ (CHOOSE p \in {o} : TRUE) = o  BY DEF Alone
    <3>3. RegisterAfter(s, i, l) = ResultOf(s, o)  BY <3>1, <3>2 DEF RegisterAfter
    <3>4. ResultOf(s, o) = s.reg[Head(o.srcs)]  BY <1>2, <1>6 DEF ResultOf
    <3>5. s.reg[Head(o.srcs)] = t.reg[phi[Head(o.srcs)]]  BY <1>5 DEF Same, Before
    <3> QED BY <2>1, <2>2, <2>3, <3>3, <3>4, <3>5, <1>e DEF ExecutedAs
  <2>4. CASE l # o.dest
    <3>1. l \notin Defs(i)  BY <2>4 DEF Defs
    <3>2. s.reg[l] = t.reg[phi[l]]  BY <3>1 DEF Same, Before
    <3>3. RegisterAfter(s, i, l) = s.reg[l]  BY <1>9, <2>4 DEF RegisterAfter
    <3> QED BY <2>1, <2>2, <3>2, <3>3, <1>e DEF ExecutedAs
  <2> QED BY <2>3, <2>4
<1> QED BY <1>10, <1>11, <1>12 DEF Same

\* An instruction and what carries it leave the same behind.
LEMMA CarriedRuns ==
    ASSUME NEW N, None \notin N, NEW i \in InstrOver(N), NEW j, NEW R, None \notin R,
           NEW phi \in [N -> R], NEW L \in SUBSET N, Clear(i, L, phi), Carries(i, j, phi),
           NEW s, NEW t, Same(s, t, Before(i, L), phi), Covers(s, t, N, phi)
    PROVE  Same(Execute(s, i), Execute(t, j), L, phi) /\ Covers(Execute(s, i), Execute(t, j), N, phi)
<1>e. ExecutedAs(s, i, Execute(s, i)) /\ ExecutedAs(t, j, Execute(t, j))  BY Executed
<1>1. Covers(Execute(s, i), Execute(t, j), N, phi)  BY <1>e DEF ExecutedAs, Covers
<1>2. CASE /\ \A o, p \in Range(i.ops) : o.id = p.id => o = p
           /\ Range(j.ops) = RecodedAll(Range(i.ops), phi)
  BY <1>1, <1>2, RecodedRuns
<1>3. CASE /\ Range(j.ops) = {}
           /\ \E o \in Range(i.ops) :
                Range(i.ops) = {o} /\ IsMove(o) /\ phi[o.dest] = phi[Head(o.srcs)]
  <2>1. PICK o \in Range(i.ops) :
           Range(i.ops) = {o} /\ IsMove(o) /\ phi[o.dest] = phi[Head(o.srcs)]
    BY <1>3
  <2> QED BY <1>1, <1>3, <2>1, DroppedRuns
<1> QED BY <1>2, <1>3 DEF Carries

\* A run of n instructions, and a way of n blocks, step by step.
RunsIn(st, q, n) ==
    \E f : /\ f[0] = st /\ Run(st, q) = f[n]
           /\ \A k \in 1..n : f[k] = Execute(f[k - 1], q[k])
MeansIn(st, cd, way, n) ==
    \E f : /\ f[0] = st /\ Meaning(st, cd, way) = f[n].read
           /\ \A k \in 1..n : f[k] = Run(f[k - 1], cd[way[k]])

LEMMA RunSteps == ASSUME NEW st, NEW q, NEW n \in Nat, n = Len(q) PROVE RunsIn(st, q, n)
<1> DEFINE W(k, f) == IF k = 0 THEN st ELSE Execute(f[k - 1], q[k])
           Goes(k, f) == f = [j \in 0..k |-> W(j, f)]
           G == {k \in 0..n : \E f : Goes(k, f)}
<1>2. 0 \in G
  <2> DEFINE f == [j \in 0..0 |-> st]
  <2>1. Goes(0, f)  OBVIOUS
  <2> HIDE DEF Goes, f
  <2> QED BY <2>1
<1>3. ASSUME NEW k \in 1..n, k - 1 \in G PROVE k \in G
  <2>1. PICK f : Goes(k - 1, f)  BY <1>3
  <2> DEFINE g == [j \in 0..k |-> IF j = k THEN W(k, f) ELSE f[j]]
  <2>2. \A j \in 0..k : j # k => j \in 0..(k - 1) /\ (j # 0 => j - 1 \in 0..k /\ j - 1 # k)
    OBVIOUS
  <2>3. k # 0 /\ k - 1 \in 0..k /\ k - 1 # k  OBVIOUS
  <2>4. \A j \in 0..k : g[j] = W(j, g)
    <3> TAKE j \in 0..k
    <3>1. CASE j = k  BY <2>3, <3>1
    <3>2. CASE j # k
      <4>1. g[j] = W(j, f)  BY <2>1, <2>2, <3>2
      <4> QED BY <2>2, <3>2, <4>1
    <3> QED BY <3>1, <3>2
  <2>5. Goes(k, g)
    <3> HIDE DEF W
    <3> QED BY <2>4
  <2> HIDE DEF Goes, g
  <2> QED BY <2>5
<1>4. n \in G
  <2>1. n \in 0..n  OBVIOUS
  <2> HIDE DEF G
  <2>2. 0..n \subseteq G  BY <1>2, <1>3, Upwards
  <2> QED BY <2>1, <2>2
<1> DEFINE h == CHOOSE f : Goes(n, f)
<1>5. Goes(n, h)
  <2>1. \E f : Goes(n, f)  BY <1>4
  <2> HIDE DEF Goes
  <2> QED BY <2>1
<1>6. Run(st, q) = h[n]  BY DEF Run
<1> HIDE DEF h
<1>7. \A k \in 0..n : h[k] = W(k, h)
  <2> HIDE DEF W
  <2> QED BY <1>5
<1>8. h[0] = st /\ \A k \in 1..n : h[k] = Execute(h[k - 1], q[k])
  <2>1. 0 \in 0..n /\ \A k \in 1..n : k \in 0..n /\ k # 0  OBVIOUS
  <2> QED BY <1>7, <2>1
<1> QED BY <1>6, <1>8 DEF RunsIn

LEMMA MeaningSteps ==
    ASSUME NEW st, NEW cd, NEW way, NEW n \in Nat, n = Len(way)
    PROVE  MeansIn(st, cd, way, n)
<1> DEFINE W(k, f) == IF k = 0 THEN st ELSE Run(f[k - 1], cd[way[k]])
           Goes(k, f) == f = [j \in 0..k |-> W(j, f)]
           G == {k \in 0..n : \E f : Goes(k, f)}
<1>2. 0 \in G
  <2> DEFINE f == [j \in 0..0 |-> st]
  <2>1. Goes(0, f)  OBVIOUS
  <2> HIDE DEF Goes, f
  <2> QED BY <2>1
<1>3. ASSUME NEW k \in 1..n, k - 1 \in G PROVE k \in G
  <2>1. PICK f : Goes(k - 1, f)  BY <1>3
  <2> DEFINE g == [j \in 0..k |-> IF j = k THEN W(k, f) ELSE f[j]]
  <2>2. \A j \in 0..k : j # k => j \in 0..(k - 1) /\ (j # 0 => j - 1 \in 0..k /\ j - 1 # k)
    OBVIOUS
  <2>3. k # 0 /\ k - 1 \in 0..k /\ k - 1 # k  OBVIOUS
  <2>4. \A j \in 0..k : g[j] = W(j, g)
    <3> TAKE j \in 0..k
    <3>1. CASE j = k  BY <2>3, <3>1
    <3>2. CASE j # k
      <4>1. g[j] = W(j, f)  BY <2>1, <2>2, <3>2
      <4> QED BY <2>2, <3>2, <4>1
    <3> QED BY <3>1, <3>2
  <2>5. Goes(k, g)
    <3> HIDE DEF W
    <3> QED BY <2>4
  <2> HIDE DEF Goes, g
  <2> QED BY <2>5
<1>4. n \in G
  <2>1. n \in 0..n  OBVIOUS
  <2> HIDE DEF G
  <2>2. 0..n \subseteq G  BY <1>2, <1>3, Upwards
  <2> QED BY <2>1, <2>2
<1> DEFINE h == CHOOSE f : Goes(n, f)
<1>5. Goes(n, h)
  <2>1. \E f : Goes(n, f)  BY <1>4
  <2> HIDE DEF Goes
  <2> QED BY <2>1
<1>6. Meaning(st, cd, way) = h[n].read  BY DEF Meaning
<1> HIDE DEF h
<1>7. \A k \in 0..n : h[k] = W(k, h)
  <2> HIDE DEF W
  <2> QED BY <1>5
<1>8. h[0] = st /\ \A k \in 1..n : h[k] = Run(h[k - 1], cd[way[k]])
  <2>1. 0 \in 0..n /\ \A k \in 1..n : k \in 0..n /\ k # 0  OBVIOUS
  <2> QED BY <1>7, <2>1
<1> QED BY <1>6, <1>8 DEF MeansIn

\* What is alive before an instruction of a block.
LEMMA AliveStep ==
    ASSUME NEW s, Len(s) \in Nat, NEW O, NEW k \in 1..Len(s), NEW n,
           n \in Uses(s[k]) \/ (AliveAt(s, O, k, n) /\ n \notin Defs(s[k]))
    PROVE  AliveAt(s, O, k - 1, n)
<1>1. PICK L \in Nat : L = Len(s)  OBVIOUS
<1>2. k - 1 + 1 = k /\ k <= L  BY <1>1
<1>3. ASSUME n \in Uses(s[k]) PROVE AliveAt(s, O, k - 1, n)
  <2>1. k \in k..(L + 1) /\ k..(k - 1) = {}  BY <1>1
  <2>2. n \in ReadAt(s, O, k)  BY <1>1, <1>2, <1>3 DEF ReadAt
  <2> QED BY <1>1, <1>2, <2>1, <2>2 DEF AliveAt
<1>4. ASSUME AliveAt(s, O, k, n), n \notin Defs(s[k]) PROVE AliveAt(s, O, k - 1, n)
  <2>1. PICK j \in (k + 1)..(L + 1) :
           n \in ReadAt(s, O, j) /\ \A i \in (k + 1)..(j - 1) : n \notin Defs(s[i])
    BY <1>1, <1>4 DEF AliveAt
  <2>2. j \in k..(L + 1) /\ \A i \in k..(j - 1) : i = k \/ i \in (k + 1)..(j - 1)
    BY <1>1
  <2>3. \A i \in k..(j - 1) : n \notin Defs(s[i])  BY <1>4, <2>1, <2>2
  <2> QED BY <1>1, <1>2, <2>1, <2>2, <2>3 DEF AliveAt
<1> QED BY <1>3, <1>4

LEMMA AliveLast ==
    ASSUME NEW s, Len(s) \in Nat, NEW O, NEW n
    PROVE  AliveAt(s, O, Len(s), n) <=> n \in O
<1>1. PICK L \in Nat : L = Len(s)  OBVIOUS
<1>2. \A j \in (L + 1)..(L + 1) : j = L + 1 /\ ~(j <= L) /\ (L + 1)..(j - 1) = {}  OBVIOUS
<1>3. L + 1 \in (L + 1)..(L + 1)  OBVIOUS
<1> QED BY <1>1, <1>2, <1>3 DEF AliveAt, ReadAt

\* The names of N that are alive below position k of block b.
Live(cd, N, b, k) == {n \in N : AliveAt(cd[b], LiveOut(cd)[b], k, n)}

\* phi gives names that interfere different places.
Splits(cd, N, phi) ==
    \A d, l \in N : {d, l} \in Interferences(cd) /\ phi[d] = phi[l] => d = l

LEMMA BlockRuns ==
    ASSUME NEW N, None \notin N, NEW cd \in Routine(N), NEW b \in Block,
           NEW R, None \notin R, NEW phi \in [N -> R], Splits(cd, N, phi),
           NEW q, Len(q) = Len(cd[b]), \A k \in 1..Len(cd[b]) : Carries(cd[b][k], q[k], phi),
           NEW s, NEW t, Same(s, t, Live(cd, N, b, 0), phi), Covers(s, t, N, phi)
    PROVE  /\ Same(Run(s, cd[b]), Run(t, q), Live(cd, N, b, Len(cd[b])), phi)
           /\ Covers(Run(s, cd[b]), Run(t, q), N, phi)
<1> DEFINE p == cd[b]
           O == LiveOut(cd)[b]
           L(k) == Live(cd, N, b, k)
<1>1. p \in Seq(InstrOver(N))  BY DEF Routine
<1>2. PICK n \in Nat : n = Len(p) /\ DOMAIN p = 1..n /\ \A k \in 1..n : p[k] \in InstrOver(N)
  BY <1>1, RangeOf, ElementOfSeq
<1>3. \A k \in 1..n : \A d \in Defs(p[k]) : \A l : AliveAt(p, O, k, l) => {d, l} \in Interferences(cd)
  BY <1>2, InterferencesIs
<1>4. \A k : L(k) = {x \in N : AliveAt(p, O, k, x)}  BY DEF Live
<1>5. \A k \in 1..n : Carries(p[k], q[k], phi)  BY <1>2
<1>6. PICK f : f[0] = s /\ Run(s, p) = f[n] /\ \A k \in 1..n : f[k] = Execute(f[k - 1], p[k])
  <2>1. RunsIn(s, p, n)  BY <1>2, RunSteps
  <2> QED BY <2>1 DEF RunsIn
<1>7. PICK g : g[0] = t /\ Run(t, q) = g[n] /\ \A k \in 1..n : g[k] = Execute(g[k - 1], q[k])
  <2>1. n = Len(q)  BY <1>2
  <2>2. RunsIn(t, q, n)  BY <2>1, RunSteps
  <2> QED BY <2>2 DEF RunsIn
<1>8. Same(s, t, L(0), phi)  OBVIOUS
<1> HIDE DEF p, O, L
<1> DEFINE G == {k \in 0..n : Same(f[k], g[k], L(k), phi) /\ Covers(f[k], g[k], N, phi)}
<1>9. 0 \in G  BY <1>6, <1>7, <1>8
<1>10. ASSUME NEW k \in 1..n, k - 1 \in G PROVE k \in G
  <2> DEFINE i == p[k]
             j == q[k]
             u == f[k - 1]
             v == g[k - 1]
             M == L(k)
  <2>1. i \in InstrOver(N) /\ Carries(i, j, phi) /\ M \in SUBSET N  BY <1>2, <1>4, <1>5
  <2>2. Clear(i, M, phi)
    <3> SUFFICES ASSUME NEW d \in Defs(i), NEW l \in M, phi[d] = phi[l] PROVE d = l
      BY DEF Clear
    <3>1. {d, l} \in Interferences(cd) /\ l \in N  BY <1>3, <1>4
    <3>2. d \in N
      <4>1. i.ops \in Seq(OpOver(N))  BY <2>1 DEF InstrOver
      <4>2. Range(i.ops) \subseteq OpOver(N)  BY <4>1, RangeOf
      <4> QED BY <4>2 DEF Defs, OpOver
    <3> QED BY <3>1, <3>2 DEF Splits
  <2>3. Before(i, M) \subseteq L(k - 1)
    <3> SUFFICES ASSUME NEW x \in Before(i, M) PROVE x \in L(k - 1)
      OBVIOUS
    <3>1. x \in Uses(i) \/ (AliveAt(p, O, k, x) /\ x \notin Defs(i) /\ x \in N)
      BY <1>4 DEF Before
    <3>2. AliveAt(p, O, k - 1, x)  BY <1>2, <3>1, AliveStep
    <3>3. x \in Uses(i) => x \in N
      <4>1. i.ops \in Seq(OpOver(N))  BY <2>1 DEF InstrOver
      <4>2. Range(i.ops) \subseteq OpOver(N)  BY <4>1, RangeOf
      <4>3. \A o \in Range(i.ops) : Range(o.srcs) \subseteq N
        <5> TAKE o \in Range(i.ops)
        <5>1. o.srcs \in Seq(N)  BY <4>2 DEF OpOver
        <5> QED BY <5>1, RangeOf
      <4> QED BY <4>3 DEF Uses
    <3> QED BY <1>4, <3>1, <3>2, <3>3
  <2>4. Same(u, v, L(k - 1), phi) /\ Covers(u, v, N, phi)  BY <1>10
  <2>5. Same(u, v, Before(i, M), phi)  BY <2>3, <2>4 DEF Same
  <2>6. f[k] = Execute(u, i) /\ g[k] = Execute(v, j) /\ k \in 0..n  BY <1>6, <1>7
  <2>7. M = L(k)  OBVIOUS
  <2> HIDE DEF i, j, u, v, M
  <2>8. Same(Execute(u, i), Execute(v, j), M, phi) /\ Covers(Execute(u, i), Execute(v, j), N, phi)
    BY <2>1, <2>2, <2>4, <2>5, CarriedRuns
  <2> QED BY <2>6, <2>7, <2>8
<1>11. n \in G
  <2>1. n \in 0..n  OBVIOUS
  <2> HIDE DEF G
  <2>2. 0..n \subseteq G  BY <1>9, <1>10, Upwards
  <2> QED BY <2>1, <2>2
<1> QED BY <1>2, <1>6, <1>7, <1>11 DEF p, L

\* Routine ce is cd with its names where phi has them, without copies that went nowhere.
Carried(cd, ce, phi) ==
    \A b \in Block : /\ Len(ce[b]) = Len(cd[b])
                     /\ \A k \in 1..Len(cd[b]) : Carries(cd[b][k], ce[b][k], phi)

LEMMA CarriedMeans ==
    ASSUME NEW M, NEW z, NEW N, None \notin N, N \subseteq M, NEW cd \in Routine(N), NEW ce,
           NEW R, None \notin R, R \subseteq Color \cup M, NEW phi \in [N -> R],
           Splits(cd, N, phi), Carried(cd, ce, phi), NEW way \in Ways
    PROVE  Meaning(StartOf(M, z), cd, way) = Meaning(StartOf(M, z), ce, way)
<1>1. way \in Seq(Block) /\ \A k \in 2..Len(way) : way[k] \in Succ[way[k - 1]]
  BY WaysAssumption
<1>2. PICK n \in Nat : n = Len(way) /\ \A k \in 1..n : way[k] \in Block
  BY <1>1, LenProperties, ElementOfSeq
<1> DEFINE st == StartOf(M, z)
<1> HIDE DEF st
<1>w. \A ch : MeansIn(st, ch, way, n)  BY <1>2, MeaningSteps
<1>3. PICK f : /\ f[0] = st /\ Meaning(st, cd, way) = f[n].read
               /\ \A k \in 1..n : f[k] = Run(f[k - 1], cd[way[k]])
  BY <1>w DEF MeansIn
<1>4. PICK g : /\ g[0] = st /\ Meaning(st, ce, way) = g[n].read
               /\ \A k \in 1..n : g[k] = Run(g[k - 1], ce[way[k]])
  BY <1>w DEF MeansIn
<1> DEFINE L(k) == IF k = n THEN {} ELSE Live(cd, N, way[k + 1], 0)
           G == {k \in 0..n : Same(f[k], g[k], L(k), phi) /\ Covers(f[k], g[k], N, phi)}
<1>5. \A k : L(k) \subseteq N  BY DEF Live
<1>6. 0 \in G
  <2>1. Covers(st, st, N, phi)  BY DEF Covers, StartOf, st
  <2>2. \A x \in N : st.reg[x] = Garbage /\ st.reg[phi[x]] = Garbage  BY DEF StartOf, st
  <2> HIDE DEF L
  <2>3. Same(st, st, L(0), phi)  BY <1>5, <2>2 DEF Same
  <2>4. Same(f[0], g[0], L(0), phi) /\ Covers(f[0], g[0], N, phi)
    BY <1>3, <1>4, <2>1, <2>3
  <2> QED BY <2>4 DEF L
<1>7. ASSUME NEW k \in 1..n, k - 1 \in G PROVE k \in G
  <2> DEFINE b == way[k]
             u == f[k - 1]
             v == g[k - 1]
  <2>1. b \in Block /\ k \in 0..n /\ k - 1 # n /\ k - 1 + 1 = k  BY <1>2
  <2>2. f[k] = Run(u, cd[b]) /\ g[k] = Run(v, ce[b])  BY <1>3, <1>4
  <2>3. L(k - 1) = Live(cd, N, b, 0)  BY <2>1
  <2>4. Same(u, v, L(k - 1), phi) /\ Covers(u, v, N, phi)  BY <1>7
  <2>5. Len(ce[b]) = Len(cd[b]) /\ \A x \in 1..Len(cd[b]) : Carries(cd[b][x], ce[b][x], phi)
    BY <2>1 DEF Carried
  <2>6. L(k) \subseteq Live(cd, N, b, Len(cd[b]))
    <3> SUFFICES ASSUME k # n, NEW x \in Live(cd, N, way[k + 1], 0)
                 PROVE  x \in Live(cd, N, b, Len(cd[b]))
      OBVIOUS
    <3>1. k + 1 \in 2..Len(way) /\ k + 1 - 1 = k  BY <1>2
    <3>2. way[k + 1] \in Succ[b]  BY <1>1, <3>1
    <3>3. x \in N /\ AliveAt(cd[way[k + 1]], LiveOut(cd)[way[k + 1]], 0, x)  BY DEF Live
    <3> HIDE DEF b
    <3>4. x \in LiveOut(cd)[b]  BY <2>1, <3>2, <3>3, LiveAcross
    <3>5. Len(cd[b]) \in Nat
      <4>1. cd[b] \in Seq(InstrOver(N))  BY <2>1 DEF Routine
      <4> QED BY <4>1, LenProperties
    <3>6. AliveAt(cd[b], LiveOut(cd)[b], Len(cd[b]), x)  BY <3>4, <3>5, AliveLast
    <3> QED BY <3>3, <3>6 DEF Live
  <2> HIDE DEF b, u, v, L
  <2>7. /\ Same(Run(u, cd[b]), Run(v, ce[b]), Live(cd, N, b, Len(cd[b])), phi)
        /\ Covers(Run(u, cd[b]), Run(v, ce[b]), N, phi)
    BY <2>1, <2>3, <2>4, <2>5, BlockRuns
  <2>8. Same(f[k], g[k], L(k), phi)  BY <2>2, <2>6, <2>7 DEF Same
  <2> QED BY <2>1, <2>2, <2>7, <2>8
<1>8. n \in G
  <2>1. n \in 0..n  OBVIOUS
  <2> HIDE DEF G
  <2>2. 0..n \subseteq G  BY <1>6, <1>7, Upwards
  <2> QED BY <2>1, <2>2
<1> QED BY <1>3, <1>4, <1>8 DEF Same, st

\* Instruction j does what i does, or leaves out its copy of a name to itself.
Repeats(i, j) ==
    \/ /\ \A o, p \in Range(i.ops) : o.id = p.id => o = p
       /\ Range(j.ops) = Range(i.ops)
    \/ /\ Range(j.ops) = {}
       /\ \E o \in Range(i.ops) : Range(i.ops) = {o} /\ IsMove(o) /\ o.dest = Head(o.srcs)

LEMMA RepeatedMeans ==
    ASSUME NEW M, NEW z, NEW N, None \notin N, N \subseteq M, NEW cd \in Routine(N), NEW ce,
           \A b \in Block : /\ Len(ce[b]) = Len(cd[b])
                            /\ \A k \in 1..Len(cd[b]) : Repeats(cd[b][k], ce[b][k]),
           NEW way \in Ways
    PROVE  Meaning(StartOf(M, z), cd, way) = Meaning(StartOf(M, z), ce, way)
<1> DEFINE phi == [n \in N |-> n]
<1>1. phi \in [N -> N] /\ \A n \in N : phi[n] = n  OBVIOUS
<1> HIDE DEF phi
<1>2. ASSUME NEW o \in OpOver(N) PROVE Recoded(o, phi) = o
  <2>1. /\ o.srcs \in Seq(N) /\ o.dest \in N \cup {None}
        /\ o = [id |-> o.id, kind |-> o.kind, dest |-> o.dest, srcs |-> o.srcs, slot |-> o.slot]
    BY DEF OpOver
  <2>2. o.srcs = [k \in DOMAIN o.srcs |-> o.srcs[k]] /\ \A k \in DOMAIN o.srcs : o.srcs[k] \in N
    <3>1. DOMAIN o.srcs = 1..Len(o.srcs)  BY <2>1, RangeOf
    <3>2. \A k \in 1..Len(o.srcs) : o.srcs[k] \in N  BY <2>1, ElementOfSeq
    <3>3. o.srcs \in [1..Len(o.srcs) -> N]  BY <2>1, LenProperties
    <3> QED BY <3>1, <3>2, <3>3
  <2>3. [k \in DOMAIN o.srcs |-> phi[o.srcs[k]]] = o.srcs  BY <1>1, <2>2
  <2>4. (IF o.dest = None THEN None ELSE phi[o.dest]) = o.dest  BY <1>1, <2>1
  <2> QED BY <2>1, <2>3, <2>4 DEF Recoded
<1>3. ASSUME NEW i \in InstrOver(N), NEW j, Repeats(i, j) PROVE Carries(i, j, phi)
  <2>1. Range(i.ops) \subseteq OpOver(N)
    <3>1. i.ops \in Seq(OpOver(N))  BY DEF InstrOver
    <3> QED BY <3>1, RangeOf
  <2>2. RecodedAll(Range(i.ops), phi) = Range(i.ops)  BY <1>2, <2>1 DEF RecodedAll
  <2>3. ASSUME NEW o \in Range(i.ops), IsMove(o), o.dest = Head(o.srcs)
        PROVE  phi[o.dest] = phi[Head(o.srcs)]
    BY <2>3
  <2> QED BY <1>3, <2>2, <2>3 DEF Repeats, Carries
<1>4. Carried(cd, ce, phi)
  <2> SUFFICES ASSUME NEW b \in Block, NEW k \in 1..Len(cd[b])
               PROVE  Carries(cd[b][k], ce[b][k], phi)
    BY DEF Carried
  <2>1. cd[b] \in Seq(InstrOver(N))  BY DEF Routine
  <2>2. cd[b][k] \in InstrOver(N)  BY <2>1, ElementOfSeq
  <2> QED BY <1>3, <2>2
<1>5. Splits(cd, N, phi)  BY <1>1 DEF Splits
<1>6. N \subseteq Color \cup M  OBVIOUS
<1> QED BY <1>1, <1>4, <1>5, <1>6, CarriedMeans

\* Nothing is lost where nothing is marked, nor with a copy of a name to itself.
LEMMA BareMeans ==
    ASSUME NEW M, NEW z, NEW N, None \notin N, N \subseteq M, NEW cd \in Routine(N), Apart(cd),
           NEW way \in Ways
    PROVE  Meaning(StartOf(M, z), cd, way) = Meaning(StartOf(M, z), Bare(cd, {}), way)
<1> DEFINE ce == Bare(cd, {})
<1>1. \A b \in Block : /\ Len(ce[b]) = Len(cd[b])
                       /\ \A k \in 1..Len(cd[b]) : ce[b][k] = Left(cd[b][k], {})
  BY BareOf
<1>2. ASSUME NEW b \in Block, NEW k \in 1..Len(cd[b])
      PROVE  Repeats(cd[b][k], Left(cd[b][k], {}))
  <2>1. cd[b] \in Seq(InstrOver(N))  BY DEF Routine
  <2>2. k \in DOMAIN cd[b] /\ cd[b][k] \in InstrOver(N)  BY <2>1, RangeOf, ElementOfSeq
  <2>3. cd[b][k] \in InstrsOf(cd)  BY <2>2 DEF InstrsOf, Range
  <2> DEFINE i == cd[b][k]
             none == {}
  <2> HIDE DEF i, none
  <2>4. Range(Left(i, none).ops) = {o \in Range(i.ops) : o.id \notin none}
    <3>1. i \in InstrOver(N)  BY <2>2 DEF i
    <3> QED BY <3>1, LeftOf
  <2>5. Range(Left(i, none).ops) = Range(i.ops)
    <3>1. \A o : o \notin none  BY DEF none
    <3> QED BY <2>4, <3>1
  <2> QED BY <2>3, <2>5 DEF Apart, Repeats, i, none
<1> HIDE DEF ce
<1>3. \A b \in Block : /\ Len(ce[b]) = Len(cd[b])
                       /\ \A k \in 1..Len(cd[b]) : Repeats(cd[b][k], ce[b][k])
  BY <1>1, <1>2
<1>4. Meaning(StartOf(M, z), cd, way) = Meaning(StartOf(M, z), ce, way)  BY <1>3, RepeatedMeans
<1> QED BY <1>4 DEF ce

LEMMA RemoveMeans ==
    ASSUME IInv, Apart(code), MovesAlone(code), NEW i \in InstrsOf(code), NEW o \in Range(i.ops),
           IsMove(o), o.id \notin marked, o.dest = Head(o.srcs), NEW way \in Ways
    PROVE  Meaning(Start, Bare(code, marked), way)
             = Meaning(Start, Bare(code, marked \cup {o.id}), way)
<1> DEFINE N == Names
           K == marked \cup {o.id}
           cd == Bare(code, marked)
           ce == Bare(code, K)
<1>1. code \in Routine(N) /\ None \notin N
  BY DEF IInv, Named, NameSet, None
<1>2. \A b \in Block : /\ Len(ce[b]) = Len(code[b])
                       /\ \A k \in 1..Len(code[b]) : ce[b][k] = Left(code[b][k], K)
  BY <1>1, BareOf
<1>3. cd \in Routine(N)
      /\ \A b \in Block : /\ Len(cd[b]) = Len(code[b])
                          /\ \A k \in 1..Len(code[b]) : cd[b][k] = Left(code[b][k], marked)
  BY <1>1, BareOf
<1>4. ASSUME NEW x \in InstrsOf(code), x \in InstrOver(N)
      PROVE  Repeats(Left(x, marked), Left(x, K))
  <2>1. /\ Range(Left(x, marked).ops) = {p \in Range(x.ops) : p.id \notin marked}
        /\ Range(Left(x, K).ops) = {p \in Range(x.ops) : p.id \notin K}
    BY <1>4, LeftOf
  <2>2. CASE x = i
    <3>1. Range(x.ops) = {o}  BY <2>2 DEF MovesAlone
    <3>2. Range(Left(x, marked).ops) = {o} /\ Range(Left(x, K).ops) = {}
      BY <2>1, <3>1
    <3> QED BY <3>2 DEF Repeats
  <2>3. CASE x # i
    <3>1. \A p \in Range(x.ops) : p.id # o.id  BY <2>3 DEF Apart
    <3>2. Range(Left(x, K).ops) = Range(Left(x, marked).ops)  BY <2>1, <3>1
    <3>3. \A p, q \in Range(Left(x, marked).ops) : p.id = q.id => p = q  BY <2>1 DEF Apart
    <3> QED BY <3>2, <3>3 DEF Repeats
  <2> QED BY <2>2, <2>3
<1>5. ASSUME NEW b \in Block, NEW k \in 1..Len(code[b])
      PROVE  code[b][k] \in InstrOver(N) /\ code[b][k] \in InstrsOf(code)
  <2>1. code[b] \in Seq(InstrOver(N))  BY <1>1 DEF Routine
  <2>2. k \in DOMAIN code[b] /\ code[b][k] \in InstrOver(N)  BY <2>1, RangeOf, ElementOfSeq
  <2> QED BY <2>2 DEF InstrsOf, Range
<1> HIDE DEF cd, ce, K
<1>6. \A b \in Block : /\ Len(ce[b]) = Len(cd[b])
                       /\ \A k \in 1..Len(cd[b]) : Repeats(cd[b][k], ce[b][k])
  BY <1>2, <1>3, <1>4, <1>5
<1>7. Meaning(StartOf(N, slots), cd, way) = Meaning(StartOf(N, slots), ce, way)
  BY <1>1, <1>3, <1>6, RepeatedMeans
<1> QED BY <1>7 DEF cd, ce, K, Start, Names

\* A merge that CanCoalesce allows.
LEMMA MergeMeans ==
    ASSUME IInv, Apart(code), MovesAlone(code), Complete, Spared, phase = "coalesce",
           NEW i \in InstrsOf(code), NEW o \in Range(i.ops), IsMove(o), o.id \notin marked,
           NEW def, def = o.dest, NEW use, use = Head(o.srcs), def # use,
           CanCoalesce(use, def), class[use] # {}, NEW way \in Ways
    PROVE  Meaning(Start, Bare(code, marked), way)
             = Meaning(Start, Bare(Renamed(code, mc[def].defs, mc[def].uses, def, use),
                                   marked \cup {o.id}), way)
<1> DEFINE N == Names
           defs == mc[def].defs
           uses == mc[def].uses
           K == marked \cup {o.id}
           cf == Renamed(code, defs, uses, def, use)
           New(x) == NewInstr(x, defs, uses, def, use)
           After(x, p) == OpAfter(x, p, defs, uses, def, use)
           phi == [n \in N |-> Image(def, use, n)]
<1>1. /\ o \in OpOver(N) /\ use \in N /\ code \in Routine(N) /\ None \notin N
      /\ def # None /\ use # None /\ def \in N
  <2>1. o \in OpOver(N) /\ use \in N /\ code \in Routine(N)  BY MoveOver DEF IInv, Named
  <2>2. None \notin N  BY DEF IInv, Named, NameSet, None
  <2> QED BY <2>1, <2>2 DEF OpOver
<1>2. phi \in [N -> N] /\ \A n \in N : phi[n] = Image(def, use, n)  BY <1>1 DEF Image
<1>3. cf \in Routine(N) /\ \A b \in Block : Len(cf[b]) = Len(code[b])
  BY <1>1, RenamedOf
<1>4. \A b \in Block : \A k \in DOMAIN code[b] : cf[b][k] = New(code[b][k])
  BY DEF Renamed, NewInstr
<1> HIDE DEF cf, phi
<1>5. ASSUME NEW x \in InstrsOf(code), x \in InstrOver(N), New(x) \in InstrOver(N)
      PROVE  Carries(Left(x, marked), Left(New(x), K), phi)
  <2> DEFINE D == DOMAIN x.ops
             S == Range(Left(x, marked).ops)
             T == Range(Left(New(x), K).ops)
  <2>1. \A p \in Range(x.ops) : p \in OpOver(N)
    <3>1. x.ops \in Seq(OpOver(N))  BY <1>5 DEF InstrOver
    <3> QED BY <3>1, RangeOf
  <2>2. New(x) = [id |-> x.id, ops |-> [k \in D |-> After(x, x.ops[k])]]
    BY <1>5, NewInstrOf
  <2>3. S = {p \in Range(x.ops) : p.id \notin marked}
    BY <1>5, LeftOf
  <2>4. T = {q \in Range(New(x).ops) : q.id \notin K}
    <3> DEFINE j == New(x)
    <3>1. j \in InstrOver(N)  BY <1>5
    <3> HIDE DEF j, K
    <3>2. Range(Left(j, K).ops) = {q \in Range(j.ops) : q.id \notin K}  BY <3>1, LeftOf
    <3> QED BY <3>2 DEF j
  <2> HIDE DEF After, New, S, T
  <2>5. Range(New(x).ops) = {After(x, p) : p \in Range(x.ops)}  BY <2>2 DEF Range
  <2>6. \A p : After(x, p).id = p.id  BY DEF After, OpAfter
  <2>7. CASE x = i
    <3>1. Range(x.ops) = {o}  BY <2>7 DEF MovesAlone
    <3>2. S = {o}  BY <2>3, <3>1
    <3>3. T = {}
      <4>1. \A q \in Range(New(x).ops) : q.id = o.id  BY <2>5, <2>6, <3>1
      <4> QED BY <2>4, <4>1
    <3>4. phi[def] = use /\ phi[use] = use  BY <1>1, <1>2 DEF Image
    <3> QED BY <3>2, <3>3, <3>4 DEF Carries, S, T
  <2>8. CASE x # i
    <3>1. \A p \in Range(x.ops) : p.id # o.id  BY <2>8 DEF Apart
    <3>2. ASSUME NEW p \in S PROVE After(x, p) = Recoded(p, phi)
      <4>1. p \in Range(x.ops) /\ p \in OpOver(N) /\ p.id \notin marked  BY <2>1, <2>3
      <4>2. /\ p.dest = def => x.id \in defs
            /\ def \in Range(p.srcs) => x.id \in uses
        BY <1>1, <4>1 DEF Complete, ListedBy
      <4>3. p.dest \in N \cup {None} /\ \A k \in DOMAIN p.srcs : p.srcs[k] \in N
        <5>1. p.srcs \in Seq(N) /\ p.dest \in N \cup {None}  BY <4>1 DEF OpOver
        <5> QED BY <5>1, ElementOfSeq, RangeOf
      <4>4. (IF x.id \in defs /\ p.dest = def THEN use ELSE p.dest)
              = IF p.dest = None THEN None ELSE phi[p.dest]
        BY <1>1, <1>2, <4>2, <4>3 DEF Image
      <4>5. (IF x.id \in uses
             THEN [j \in DOMAIN p.srcs |-> IF p.srcs[j] = def THEN use ELSE p.srcs[j]]
             ELSE p.srcs) = [j \in DOMAIN p.srcs |-> phi[p.srcs[j]]]
        <5>1. \A j \in DOMAIN p.srcs : phi[p.srcs[j]] = IF p.srcs[j] = def THEN use ELSE p.srcs[j]
          BY <1>2, <4>3 DEF Image
        <5>2. CASE x.id \in uses  BY <5>1, <5>2
        <5>3. CASE x.id \notin uses
          <6>1. \A j \in DOMAIN p.srcs : p.srcs[j] # def  BY <4>2, <5>3 DEF Range
          <6>2. \A j \in DOMAIN p.srcs : phi[p.srcs[j]] = p.srcs[j]  BY <5>1, <6>1
          <6>3. p.srcs = [j \in DOMAIN p.srcs |-> p.srcs[j]]
            <7>1. p.srcs \in Seq(N)  BY <4>1 DEF OpOver
            <7>2. p.srcs \in [1..Len(p.srcs) -> N]  BY <7>1, LenProperties
            <7> QED BY <7>2
          <6> QED BY <5>3, <6>2, <6>3
        <5> QED BY <5>2, <5>3
      <4> QED BY <4>4, <4>5 DEF After, OpAfter, Recoded
    <3>3. T = RecodedAll(S, phi)
      <4>1. ASSUME NEW q \in T PROVE q \in RecodedAll(S, phi)
        <5>1. PICK p \in Range(x.ops) : q = After(x, p)  BY <2>4, <2>5
        <5>2. p.id \notin marked  BY <2>4, <2>6, <5>1
        <5>3. p \in S  BY <2>3, <5>2
        <5> QED BY <3>2, <5>1, <5>3 DEF RecodedAll
      <4>2. ASSUME NEW q \in RecodedAll(S, phi) PROVE q \in T
        <5>1. PICK p \in S : q = Recoded(p, phi)  BY DEF RecodedAll
        <5>2. q = After(x, p)  BY <3>2, <5>1
        <5>3. p \in Range(x.ops) /\ p.id \notin marked  BY <2>3
        <5>4. p.id # o.id  BY <3>1, <5>3
        <5> QED BY <2>4, <2>5, <2>6, <5>2, <5>3, <5>4
      <4> QED BY <4>1, <4>2
    <3>4. \A p, q \in S : p.id = q.id => p = q  BY <2>3 DEF Apart
    <3> QED BY <3>3, <3>4 DEF Carries, S, T
  <2> QED BY <2>7, <2>8
<1>6. ASSUME NEW b \in Block, NEW k \in 1..Len(code[b])
      PROVE  Carries(Left(code[b][k], marked), Left(cf[b][k], K), phi)
  <2>1. code[b] \in Seq(InstrOver(N)) /\ cf[b] \in Seq(InstrOver(N)) /\ Len(cf[b]) = Len(code[b])
    BY <1>1, <1>3 DEF Routine
  <2>2. k \in DOMAIN code[b] /\ code[b][k] \in InstrOver(N)  BY <2>1, RangeOf, ElementOfSeq
  <2>3. cf[b][k] \in InstrOver(N)  BY <2>1, ElementOfSeq
  <2>4. code[b][k] \in InstrsOf(code)  BY <2>2 DEF InstrsOf, Range
  <2>5. cf[b][k] = New(code[b][k])  BY <1>4, <2>2
  <2> HIDE DEF New
  <2> QED BY <1>5, <2>2, <2>3, <2>4, <2>5
<1> HIDE DEF New, After, K
<1> DEFINE ce == Bare(cf, K)
           cd == Bare(code, marked)
<1>7. \A b \in Block : /\ Len(ce[b]) = Len(code[b])
                       /\ \A k \in 1..Len(code[b]) : ce[b][k] = Left(cf[b][k], K)
  BY <1>3, BareOf
<1>8. /\ cd \in Routine(N)
      /\ \A b \in Block : /\ Len(cd[b]) = Len(code[b])
                          /\ \A k \in 1..Len(code[b]) : cd[b][k] = Left(code[b][k], marked)
  BY <1>1, BareOf
<1>9. Splits(cd, N, phi)
  <2> SUFFICES ASSUME NEW d \in N, NEW l \in N, {d, l} \in Interferences(cd), phi[d] = phi[l],
                      d # l
               PROVE  FALSE
    BY DEF Splits
  <2>1. {d, l} = {def, use}  BY <1>2 DEF Image
  <2>2. Cardinality({def, use}) = 2  BY PairOf
  <2>3. \A n, m \in {def, use} : class[n] \cap class[m] # {}  BY DEF CanCoalesce
  <2>4. SparedBy(cd, class, edges)  BY DEF Spared
  <2>5. {def, use} \in edges  BY <2>1, <2>2, <2>3, <2>4 DEF SparedBy
  <2> QED BY <2>5 DEF CanCoalesce
<1> HIDE DEF cd, ce
<1>10. Carried(cd, ce, phi)  BY <1>6, <1>7, <1>8 DEF Carried
<1>11. N \subseteq Color \cup Names  OBVIOUS
<1> HIDE DEF N
<1>12. Meaning(StartOf(Names, slots), cd, way) = Meaning(StartOf(Names, slots), ce, way)
  <2>1. N \subseteq Names  BY DEF N
  <2> QED BY <1>1, <1>2, <1>8, <1>9, <1>10, <1>11, <2>1, CarriedMeans
<1> QED BY <1>12 DEF cd, ce, cf, K, Start, Names

\* Instructions that deletion leaves empty do nothing.
IsState(st) ==
    st = [reg  |-> [r \in DOMAIN st.reg |-> st.reg[r]],
          mem  |-> [s \in DOMAIN st.mem |-> st.mem[s]], read |-> st.read]

LEMMA StateAfter ==
    ASSUME NEW st, NEW i
    PROVE  IsState(Execute(st, i)) /\ (IsState(st) /\ Range(i.ops) = {} => Execute(st, i) = st)
<1>1. IsState(Execute(st, i))  BY DEF Execute, IsState
<1>2. ASSUME IsState(st), Range(i.ops) = {} PROVE Execute(st, i) = st
  <2>1. \A r : Writers(i, r) = {}  BY <1>2 DEF Writers
  <2>2. \A s : Storing(i, s) = {}  BY <1>2 DEF Storing
  <2>3. ReadBy(st, i) = {}  BY <1>2 DEF ReadBy
  <2>4. [r \in DOMAIN st.reg |-> RegisterAfter(st, i, r)] = [r \in DOMAIN st.reg |-> st.reg[r]]
    BY <2>1 DEF RegisterAfter
  <2>5. [s \in DOMAIN st.mem |-> SlotAfter(st, i, s)] = [s \in DOMAIN st.mem |-> st.mem[s]]
    BY <2>2 DEF SlotAfter
  <2> QED BY <1>2, <2>3, <2>4, <2>5 DEF Execute, IsState
<1> QED BY <1>1, <1>2

LEMMA RunAppend ==
    ASSUME NEW st, NEW S, NEW q \in Seq(S), NEW e \in S
    PROVE  Run(st, <<>>) = st /\ Run(st, Append(q, e)) = Execute(Run(st, q), e)
<1> DEFINE r == Append(q, e)
           z == <<>>
<1>1. PICK n \in Nat : n = Len(q)  BY LenProperties
<1>2. Len(r) = n + 1 /\ r[n + 1] = e /\ \A k \in 1..n : r[k] = q[k]
  BY <1>1, AppendProperties
<1>3. Len(z) = 0  OBVIOUS
<1> HIDE DEF r, z
<1>4. Run(st, z) = st
  <2>1. RunsIn(st, z, 0)  BY <1>3, RunSteps
  <2> QED BY <2>1 DEF RunsIn
<1>5. PICK f : f[0] = st /\ Run(st, q) = f[n] /\ \A k \in 1..n : f[k] = Execute(f[k - 1], q[k])
  <2>1. RunsIn(st, q, n)  BY <1>1, RunSteps
  <2> QED BY <2>1 DEF RunsIn
<1>6. PICK g : /\ g[0] = st /\ Run(st, r) = g[n + 1]
               /\ \A k \in 1..(n + 1) : g[k] = Execute(g[k - 1], r[k])
  <2>1. RunsIn(st, r, n + 1)  BY <1>2, RunSteps
  <2> QED BY <2>1 DEF RunsIn
<1> DEFINE G == {k \in 0..n : f[k] = g[k]}
<1>7. 0 \in G  BY <1>5, <1>6
<1>8. ASSUME NEW k \in 1..n, k - 1 \in G PROVE k \in G
  <2>1. k \in 1..(n + 1) /\ k \in 0..n  OBVIOUS
  <2>2. f[k] = Execute(f[k - 1], q[k]) /\ g[k] = Execute(g[k - 1], q[k])
    BY <1>2, <1>5, <1>6, <2>1
  <2> QED BY <1>8, <2>1, <2>2
<1>9. f[n] = g[n]
  <2>1. n \in 0..n  OBVIOUS
  <2> HIDE DEF G
  <2>2. 0..n \subseteq G  BY <1>7, <1>8, Upwards
  <2>3. n \in G  BY <2>1, <2>2
  <2> QED BY <2>3 DEF G
<1>10. g[n + 1] = Execute(g[n], e)
  <2>1. n + 1 \in 1..(n + 1) /\ n + 1 - 1 = n  OBVIOUS
  <2> QED BY <1>2, <1>6, <2>1
<1> QED BY <1>4, <1>5, <1>6, <1>9, <1>10 DEF r, z

LEMMA KeptRuns ==
    ASSUME NEW S, NEW u \in Seq(S), NEW T, \A i \in Range(u) : i \notin T => Range(i.ops) = {},
           NEW st, IsState(st)
    PROVE  Run(st, Kept(u, T)) = Run(st, u) /\ IsState(Run(st, u))
<1>1. PICK n \in Nat : n = Len(u) /\ DOMAIN u = 1..n /\ \A k \in 1..n : u[k] \in S
  BY RangeOf, ElementOfSeq
<1>2. PICK h : /\ h[0] = <<>> /\ Kept(u, T) = h[n]
               /\ \A k \in 1..n : h[k] = KeptStep(u, T, k, h[k - 1])
  BY <1>1, KeptSteps
<1>3. PICK f : f[0] = st /\ Run(st, u) = f[n] /\ \A k \in 1..n : f[k] = Execute(f[k - 1], u[k])
  <2>1. RunsIn(st, u, n)  BY <1>1, RunSteps
  <2> QED BY <2>1 DEF RunsIn
<1> DEFINE G == {k \in 0..n : h[k] \in Seq(S) /\ Run(st, h[k]) = f[k] /\ IsState(f[k])}
<1>4. 0 \in G
  <2>1. <<>> \in Seq(S) /\ 0 \in 0..n  OBVIOUS
  <2>2. Run(st, <<>>) = st
    <3> DEFINE z == <<>>
    <3>1. Len(z) = 0  OBVIOUS
    <3> HIDE DEF z
    <3>2. RunsIn(st, z, 0)  BY <3>1, RunSteps
    <3> QED BY <3>2 DEF RunsIn, z
  <2> QED BY <1>2, <1>3, <2>1, <2>2
<1>5. ASSUME NEW k \in 1..n, k - 1 \in G PROVE k \in G
  <2> DEFINE q == h[k - 1]
             e == u[k]
             v == f[k - 1]
  <2>1. q \in Seq(S) /\ Run(st, q) = v /\ IsState(v)  BY <1>5
  <2>2. h[k] = KeptStep(u, T, k, q) /\ f[k] = Execute(v, e) /\ e \in S /\ k \in 0..n
        /\ e \in Range(u)
    BY <1>1, <1>2, <1>3 DEF Range
  <2>3. h[k] = IF e \in T THEN Append(q, e) ELSE q  BY <2>2 DEF KeptStep
  <2> HIDE DEF q, e, v
  <2>4. IsState(Execute(v, e))  BY StateAfter
  <2>5. CASE e \in T
    <3>1. Append(q, e) \in Seq(S)  BY <2>1, <2>2
    <3>2. Run(st, Append(q, e)) = Execute(v, e)  BY <2>1, <2>2, RunAppend
    <3> QED BY <2>2, <2>3, <2>4, <2>5, <3>1, <3>2
  <2>6. CASE e \notin T
    <3>1. Execute(v, e) = v  BY <2>1, <2>2, <2>6, StateAfter
    <3> QED BY <2>1, <2>2, <2>3, <2>6, <3>1
  <2> QED BY <2>5, <2>6
<1>6. n \in G
  <2>1. n \in 0..n  OBVIOUS
  <2> HIDE DEF G
  <2>2. 0..n \subseteq G  BY <1>4, <1>5, Upwards
  <2> QED BY <2>1, <2>2
<1> QED BY <1>2, <1>3, <1>6

LEMMA DeletedMeans ==
    ASSUME NEW N, NEW cd \in Routine(N), NEW way \in Ways
    PROVE  Meaning(Start, Unmarked(cd), way) = Meaning(Start, Bare(cd, marked), way)
<1>1. way \in Seq(Block)  BY WaysAssumption
<1>2. PICK n \in Nat : n = Len(way) /\ \A k \in 1..n : way[k] \in Block
  BY <1>1, LenProperties, ElementOfSeq
<1> DEFINE st == Start
           ce == Bare(cd, marked)
           cf == Unmarked(cd)
<1>3. IsState(st)  BY DEF IsState, Start, StartOf
<1>4. ASSUME NEW b \in Block, NEW s, IsState(s)
      PROVE  Run(s, cf[b]) = Run(s, ce[b]) /\ IsState(Run(s, ce[b]))
  <2> DEFINE u == ce[b]
             T == {i \in Range(u) : i.ops # <<>>}
  <2>1. cf[b] = Kept(u, T)  BY DEF Unmarked, Bare, Left
  <2>2. u \in Seq(InstrOver(N))
    <3>1. ce \in Routine(N)  BY BareOf
    <3> HIDE DEF ce
    <3> QED BY <3>1 DEF Routine
  <2>3. \A i \in Range(u) : i \notin T => Range(i.ops) = {}
    <3> SUFFICES ASSUME NEW i \in Range(u), i \notin T PROVE Range(i.ops) = {}
      OBVIOUS
    <3>1. i.ops = <<>>  OBVIOUS
    <3>2. Range(<<>>) = {}  BY DEF Range
    <3> QED BY <3>1, <3>2
  <2> HIDE DEF u, T
  <2>4. Run(s, Kept(u, T)) = Run(s, u) /\ IsState(Run(s, u))  BY <1>4, <2>2, <2>3, KeptRuns
  <2> QED BY <2>1, <2>4 DEF u
<1> HIDE DEF st, ce, cf
<1>w. \A ch : MeansIn(st, ch, way, n)  BY <1>2, MeaningSteps
<1>5. PICK f : /\ f[0] = st /\ Meaning(st, cf, way) = f[n].read
               /\ \A k \in 1..n : f[k] = Run(f[k - 1], cf[way[k]])
  BY <1>w DEF MeansIn
<1>6. PICK g : /\ g[0] = st /\ Meaning(st, ce, way) = g[n].read
               /\ \A k \in 1..n : g[k] = Run(g[k - 1], ce[way[k]])
  BY <1>w DEF MeansIn
<1> DEFINE G == {k \in 0..n : f[k] = g[k] /\ IsState(g[k])}
<1>7. 0 \in G  BY <1>3, <1>5, <1>6
<1>8. ASSUME NEW k \in 1..n, k - 1 \in G PROVE k \in G
  <2>1. way[k] \in Block /\ k \in 0..n /\ f[k - 1] = g[k - 1] /\ IsState(g[k - 1])
    BY <1>2, <1>8
  <2>2. f[k] = Run(f[k - 1], cf[way[k]]) /\ g[k] = Run(g[k - 1], ce[way[k]])  BY <1>5, <1>6
  <2> QED BY <1>4, <2>1, <2>2
<1>9. n \in G
  <2>1. n \in 0..n  OBVIOUS
  <2> HIDE DEF G
  <2>2. 0..n \subseteq G  BY <1>7, <1>8, Upwards
  <2> QED BY <2>1, <2>2
<1> QED BY <1>5, <1>6, <1>9 DEF st, ce, cf

\* A merge or a deletion of a move.
LEMMA CoalesceMeans ==
    ASSUME IInv, Apart(code), MovesAlone(code), Complete, Spared, \A n \in Names : class[n] # {},
           CoalesceOper, NEW way \in Ways
    PROVE  Meaning(Start, Bare(code, marked), way) = Meaning(Start, Bare(code', marked'), way)
<1>1. PICK i \in InstrsOf(code) : \E o \in Range(i.ops) :
         /\ IsMove(o) /\ o.id \in pending
         /\ \/ /\ o.dest = Head(o.srcs)
               /\ RemoveMove(o.dest, i.id)
               /\ marked' = marked \cup {o.id}
            \/ /\ o.dest # Head(o.srcs) /\ CanCoalesce(Head(o.srcs), o.dest)
               /\ Coalesce(o.dest, Head(o.srcs), i.id)
               /\ marked' = marked \cup {o.id}
            \/ UNCHANGED <<code, mc, color, edges, nodes, marked>>
  BY DEF CoalesceOper
<1>2. PICK o \in Range(i.ops) :
         /\ IsMove(o) /\ o.id \in pending
         /\ \/ /\ o.dest = Head(o.srcs)
               /\ RemoveMove(o.dest, i.id)
               /\ marked' = marked \cup {o.id}
            \/ /\ o.dest # Head(o.srcs) /\ CanCoalesce(Head(o.srcs), o.dest)
               /\ Coalesce(o.dest, Head(o.srcs), i.id)
               /\ marked' = marked \cup {o.id}
            \/ UNCHANGED <<code, mc, color, edges, nodes, marked>>
  BY <1>1
<1>3. phase = "coalesce" /\ o.id \notin marked /\ Head(o.srcs) \in Names
  BY <1>2, MoveOver DEF IInv, MovesToCome, Named, CoalesceOper
<1>4. CASE /\ o.dest = Head(o.srcs) /\ RemoveMove(o.dest, i.id)
           /\ marked' = marked \cup {o.id}
  <2>1. code' = code  BY <1>4 DEF RemoveMove
  <2>2. Meaning(Start, Bare(code, marked), way)
          = Meaning(Start, Bare(code, marked \cup {o.id}), way)
    BY <1>2, <1>3, <1>4, RemoveMeans
  <2> QED BY <1>4, <2>1, <2>2
<1>5. CASE /\ o.dest # Head(o.srcs) /\ CanCoalesce(Head(o.srcs), o.dest)
           /\ Coalesce(o.dest, Head(o.srcs), i.id) /\ marked' = marked \cup {o.id}
  <2> DEFINE def == o.dest
             use == Head(o.srcs)
             cf == Renamed(code, mc[def].defs, mc[def].uses, def, use)
  <2>1. code' = cf  BY <1>5 DEF Coalesce
  <2>2. class[use] # {}  BY <1>3
  <2>3. Meaning(Start, Bare(code, marked), way)
          = Meaning(Start, Bare(cf, marked \cup {o.id}), way)
    BY <1>2, <1>3, <1>5, <2>2, MergeMeans
  <2> QED BY <1>5, <2>1, <2>3
<1>6. CASE UNCHANGED <<code, mc, color, edges, nodes, marked>>
  BY <1>6
<1> QED BY <1>2, <1>4, <1>5, <1>6

\* Every class has a register, those of the names that spills make included.
Willing == \A n \in Names : class[n] # {}

LEMMA SpillsWilling ==
    ASSUME Named, Names # {}, Willing, NEW n \in Names
    PROVE  \A m \in DOMAIN SpillsReloads(n).class : SpillsReloads(n).class[m] # {}
<1>1. PICK all \in Seq(InstrsOf(code)) : all = InOrder(code)  BY InOrderIn DEF Named
<1>2. PICK turn \in Nat : turn = Len(all) /\ DOMAIN all = 1..turn
                          /\ \A k \in 1..turn : all[k] \in InstrsOf(code)
  BY RangeOf, ElementOfSeq
<1>3. PICK t \in Nat : t = 2 * turn  OBVIOUS
<1>4. PICK h : /\ h[0] = Spilling /\ SpillsReloads(n) = h[t]
               /\ \A k \in 1..t : h[k] = SpillStep(n, all, turn, k, h[k - 1])
  <2>1. SpillsIn(n, all, turn)  BY <1>1, <1>2, SpillSteps
  <2> QED BY <1>3, <2>1 DEF SpillsIn
<1> DEFINE Good(acc) == \A m \in DOMAIN acc.class : acc.class[m] # {}
           G == {k \in 0..t : Grows(h[k]) /\ Good(h[k])}
<1>5. 0 \in G
  <2>1. DOMAIN <<>> = {} /\ 0 \in 0..t  OBVIOUS
  <2>2. Grows(Spilling)
    BY <2>1, EmptyOver DEF Grows, Spilling, Named, Names
  <2>3. Good(Spilling)  BY DEF Spilling, Willing, Names
  <2> QED BY <1>4, <2>1, <2>2, <2>3
<1>6. ASSUME NEW k \in 1..t, k - 1 \in G PROVE k \in G
  <2> DEFINE j == IF k <= turn THEN k ELSE k - turn
             acc == h[k - 1]
             id == all[j].id
  <2>1. j \in 1..turn /\ k \in 0..t  BY <1>3
  <2>2. Grows(acc) /\ Good(acc)  BY <1>6
  <2>3. h[k] = SpillStep(n, all, turn, k, acc)  BY <1>4
  <2> HIDE DEF acc
  <2>4. \/ h[k] = SpillDef(acc, n, id)
        \/ h[k] = ReloadUse(acc, n, id)
        \/ h[k] = acc
    BY <2>3 DEF SpillStep
  <2>5. id \in Ids(code)  BY <1>2, <2>1 DEF Ids
  <2> HIDE DEF id
  <2>6. Grows(SpillDef(acc, n, id)) /\ Grows(ReloadUse(acc, n, id))
    BY <2>2, <2>5, SpillDefGrows, ReloadUseGrows
  <2>7. acc.class[n] # {}  BY <2>2 DEF Grows
  <2>8. \A m : \A x \in DOMAIN With(acc.class, m, acc.class[n]) :
           With(acc.class, m, acc.class[n])[x] # {}
    BY <2>2, <2>7 DEF With
  <2>9. Good(SpillDef(acc, n, id)) /\ Good(ReloadUse(acc, n, id))
    BY <2>8 DEF SpillDef, ReloadUse, SpillNew
  <2> QED BY <2>1, <2>2, <2>4, <2>6, <2>9
<1>7. t \in G
  <2>1. t \in 0..t  OBVIOUS
  <2> HIDE DEF G
  <2>2. 0..t \subseteq G  BY <1>5, <1>6, Upwards
  <2> QED BY <2>1, <2>2
<1> QED BY <1>4, <1>7

LEMMA StaysWilling ==
    ASSUME IInv, Willing, [Next]_vars
    PROVE  Willing'
<1>1. CASE Spill
  <2> DEFINE n == Last(nodesToSpill)
  <2>1. class' = SpillsReloads(n).class /\ nodesToSpill # <<>>  BY <1>1 DEF Spill
  <2>2. n \in Names
    <3>1. nodesToSpill \in Seq(DOMAIN mc) /\ Distinct(nodesToSpill)  BY DEF IInv, Listed
    <3>2. n \in Range(nodesToSpill)  BY <2>1, <3>1, Popped
    <3>3. Range(nodesToSpill) \subseteq DOMAIN mc  BY <3>1, RangeOf
    <3> QED BY <3>2, <3>3 DEF IInv, Listed
  <2> HIDE DEF n
  <2>3. \A m \in DOMAIN SpillsReloads(n).class : SpillsReloads(n).class[m] # {}
    BY <2>2, SpillsWilling DEF IInv
  <2> QED BY <2>1, <2>3 DEF Willing, Names
<1>2. CASE Chains \/ Build \/ CoalesceOper \/ DeleteUselessIR \/ Simplify \/ Select \/ Restart
             \/ UNCHANGED vars
  BY <1>2 DEF Chains, Build, CoalesceOper, DeleteUselessIR, Simplify, Select, Restart, vars,
              Willing, Names
<1> QED BY <1>1, <1>2 DEF Next, Stopped

\* No step but a spill changes what the code means.
LEMMA StepMeans ==
    ASSUME IInv, Apart(code), MovesAlone(code), Complete, Spared, Willing, [Next]_vars, ~Spill,
           NEW way \in Ways
    PROVE  /\ class' = class /\ slots' = slots
           /\ Meaning(Start, Bare(code, marked), way) = Meaning(Start, Bare(code', marked'), way)
<1>1. CASE CoalesceOper
  BY <1>1, CoalesceMeans DEF CoalesceOper, Willing
<1>2. CASE DeleteUselessIR
  <2> DEFINE N == Names
             cd == Unmarked(code)
  <2>1. code' = cd /\ marked' = {} /\ class' = class /\ slots' = slots
    BY <1>2 DEF DeleteUselessIR
  <2>2. code \in Routine(N) /\ None \notin N  BY DEF IInv, Named, NameSet, None
  <2>3. cd \in Routine(N) /\ Apart(cd)  BY <2>2, UnmarkedOf, ApartUnmarked
  <2>4. Meaning(Start, cd, way) = Meaning(Start, Bare(code, marked), way)  BY <2>2, DeletedMeans
  <2> HIDE DEF cd
  <2>5. Meaning(StartOf(N, slots), cd, way) = Meaning(StartOf(N, slots), Bare(cd, {}), way)
    BY <2>2, <2>3, BareMeans
  <2>6. Start = StartOf(N, slots)  BY DEF Start, Names
  <2> QED BY <2>1, <2>4, <2>5, <2>6
<1>3. CASE Chains \/ Build \/ Simplify \/ Select \/ Restart \/ UNCHANGED vars
  BY <1>3 DEF Chains, Build, Simplify, Select, Restart, vars
<1> QED BY <1>1, <1>2, <1>3 DEF Next, Stopped

-----------------------------------------------------------------------------
(* What allocation keeps *)

\* Registers for names, as renameRegisters gives them.
LEMMA ColouredMeans ==
    ASSUME IInv, Apart(code), Complete, RegistersApart, phase = "done", NEW way \in Ways
    PROVE  Meaning(Start, code, way) = Meaning(Start, Allocated, way)
<1> DEFINE N == DOMAIN mc
           phi == [n \in N |-> color[n]]
<1>1. /\ N \subseteq Names /\ None \notin N /\ None \notin Color /\ code \in Routine(Names)
      /\ \A n \in N : color[n] \in Color
  <2>1. N \subseteq Names /\ code \in Routine(Names) /\ Names \subseteq Nat
    BY DEF IInv, Named, NameSet, Listed
  <2>2. nodeStack = <<>> /\ nodesToSpill = <<>>  BY DEF IInv, Phases
  <2>3. \A n \in N : n \in Coloured
    BY <2>2, EmptyOver DEF IInv, Listed, OnceOver, Coloured
  <2>4. None \notin Color
    <3>1. NumColors \in Nat  BY RegAllocAssumption
    <3> QED BY <3>1 DEF Color, None
  <2> QED BY <2>1, <2>3, <2>4 DEF IInv, SelectedRight, None
<1>2. ListedBy(code, mc, {})  BY DEF Complete, IInv, Phases
<1>3. phi \in [N -> Color] /\ \A n \in N : phi[n] = color[n]  BY <1>1
<1> HIDE DEF phi, N
<1>4. ASSUME NEW i \in InstrsOf(code), NEW o \in Range(i.ops)
      PROVE  /\ o \in OpOver(Names)
             /\ o.dest # None => o.dest \in N /\ i.id \in mc[o.dest].defs
             /\ \A n \in Range(o.srcs) : n \in N /\ i.id \in mc[n].uses
  <2>1. o \in OpOver(Names)  BY <1>1, IdsIn
  <2> QED BY <1>2, <2>1 DEF ListedBy, N
<1>5. ASSUME NEW i \in InstrsOf(code), NEW o \in Range(i.ops) PROVE o \in OpOver(N)
  <2>1. o.srcs \in Seq(Names)  BY <1>4 DEF OpOver
  <2>2. Range(o.srcs) \subseteq N  BY <1>4
  <2>3. o.srcs \in Seq(N)  BY <2>1, <2>2, SeqWithin
  <2> QED BY <1>4, <2>3 DEF OpOver
<1>6. ASSUME NEW i \in InstrsOf(code), i \in InstrOver(Names) PROVE i \in InstrOver(N)
  <2>1. i.ops \in Seq(OpOver(Names))  BY <1>6 DEF InstrOver
  <2>2. Range(i.ops) \subseteq OpOver(N)  BY <1>5
  <2>3. i.ops \in Seq(OpOver(N))  BY <2>1, <2>2, SeqWithin
  <2> QED BY <1>6, <2>3 DEF InstrOver
<1>7. code \in Routine(N)
  <2>1. \A b \in Block : code[b] \in Seq(InstrOver(N))
    <3> SUFFICES ASSUME NEW b \in Block PROVE code[b] \in Seq(InstrOver(N))
      OBVIOUS
    <3>1. code[b] \in Seq(InstrOver(Names))  BY <1>1 DEF Routine
    <3>2. Range(code[b]) \subseteq InstrOver(Names)  BY <3>1, RangeOf
    <3>3. Range(code[b]) \subseteq InstrsOf(code)  BY DEF InstrsOf
    <3>4. Range(code[b]) \subseteq InstrOver(N)  BY <1>6, <3>2, <3>3
    <3> QED BY <3>1, <3>4, SeqWithin
  <2> QED BY <1>1, <2>1 DEF Routine
<1>8. ASSUME NEW i \in InstrsOf(code), NEW o \in Range(i.ops) PROVE AllocatedOp(i, o) = Recoded(o, phi)
  <2>1. o.dest # None => RegisterOf(o.dest, mc[o.dest].defs, i.id) = phi[o.dest]
    BY <1>3, <1>4 DEF RegisterOf
  <2>2. ASSUME NEW k \in DOMAIN o.srcs
        PROVE  RegisterOf(o.srcs[k], mc[o.srcs[k]].uses, i.id) = phi[o.srcs[k]]
    <3>1. o.srcs[k] \in Range(o.srcs)  BY DEF Range
    <3> QED BY <1>3, <1>4, <3>1 DEF RegisterOf
  <2>3. o = [id |-> o.id, kind |-> o.kind, dest |-> o.dest, srcs |-> o.srcs, slot |-> o.slot]
    BY <1>4 DEF OpOver
  <2>4. [k \in DOMAIN o.srcs |-> RegisterOf(o.srcs[k], mc[o.srcs[k]].uses, i.id)]
          = [k \in DOMAIN o.srcs |-> phi[o.srcs[k]]]
    BY <2>2
  <2> DEFINE d == IF o.dest = None THEN None ELSE RegisterOf(o.dest, mc[o.dest].defs, i.id)
             s == [k \in DOMAIN o.srcs |-> RegisterOf(o.srcs[k], mc[o.srcs[k]].uses, i.id)]
  <2>5. AllocatedOp(i, o) = [o EXCEPT !.dest = d, !.srcs = s]  BY DEF AllocatedOp
  <2>6. d = (IF o.dest = None THEN None ELSE phi[o.dest])
        /\ s = [k \in DOMAIN o.srcs |-> phi[o.srcs[k]]]
    BY <2>1, <2>4
  <2> HIDE DEF d, s
  <2>7. AllocatedOp(i, o) = [id |-> o.id, kind |-> o.kind, dest |-> d, srcs |-> s, slot |-> o.slot]
    BY <2>3, <2>5
  <2> QED BY <2>6, <2>7 DEF Recoded
<1>9. Allocated = [b \in Block |-> [k \in DOMAIN code[b] |->
          [code[b][k] EXCEPT !.ops = [j \in DOMAIN code[b][k].ops |->
             AllocatedOp(code[b][k], code[b][k].ops[j])]]]]
  BY DEF Allocated
<1>10. ASSUME NEW b \in Block, NEW k \in 1..Len(code[b])
       PROVE  Carries(code[b][k], Allocated[b][k], phi)
  <2> DEFINE i == code[b][k]
             j == Allocated[b][k]
  <2>1. code[b] \in Seq(InstrOver(N))  BY <1>7 DEF Routine
  <2>2. k \in DOMAIN code[b] /\ i \in InstrOver(N)  BY <2>1, RangeOf, ElementOfSeq
  <2>3. i \in InstrsOf(code)  BY <2>2 DEF InstrsOf, Range
  <2>4. j = [i EXCEPT !.ops = [n \in DOMAIN i.ops |-> AllocatedOp(i, i.ops[n])]]  BY <1>9, <2>2
  <2> HIDE DEF i, j
  <2>5. j.ops = [n \in DOMAIN i.ops |-> AllocatedOp(i, i.ops[n])]  BY <2>2, <2>4 DEF InstrOver
  <2>6. Range(j.ops) = {AllocatedOp(i, o) : o \in Range(i.ops)}  BY <2>5 DEF Range
  <2>7. Range(j.ops) = RecodedAll(Range(i.ops), phi)  BY <1>8, <2>3, <2>6 DEF RecodedAll
  <2>8. \A o, p \in Range(i.ops) : o.id = p.id => o = p  BY <2>3 DEF Apart
  <2> QED BY <2>7, <2>8 DEF Carries, i, j
<1>11. Carried(code, Allocated, phi)
  <2> SUFFICES ASSUME NEW b \in Block
               PROVE  /\ Len(Allocated[b]) = Len(code[b])
                      /\ \A k \in 1..Len(code[b]) : Carries(code[b][k], Allocated[b][k], phi)
    BY DEF Carried
  <2>1. code[b] \in Seq(InstrOver(N))  BY <1>7 DEF Routine
  <2>2. PICK n \in Nat : n = Len(code[b]) /\ DOMAIN code[b] = 1..n  BY <2>1, RangeOf
  <2>3. \E S : Allocated[b] \in [1..n -> S]
    <3>1. DOMAIN Allocated[b] = 1..n
          /\ Allocated[b] = [k \in 1..n |-> Allocated[b][k]]
      BY <1>9, <2>2
    <3>2. Allocated[b] \in [1..n -> {Allocated[b][k] : k \in 1..n}]  BY <3>1
    <3> QED BY <3>2
  <2>4. Len(Allocated[b]) = n  BY <2>3, GroupSeq
  <2> QED BY <1>10, <2>2, <2>4
<1>12. Splits(code, N, phi)  BY <1>3 DEF Splits, RegistersApart, N
<1>13. Meaning(StartOf(Names, slots), code, way) = Meaning(StartOf(Names, slots), Allocated, way)
  <2>1. Color \subseteq Color \cup Names  OBVIOUS
  <2> QED BY <1>1, <1>3, <1>7, <1>11, <1>12, <2>1, CarriedMeans
<1> QED BY <1>13 DEF Start, Names

\* Merges that CanCoalesce allows, deletions and colours leave what the operations read
\* as it was: of all steps only a spill changes the code by what it means.
OnlySpillsMatter ==
    [][~Spill => \A way \in Ways :
          Meaning(Start', Bare(code', marked'), way) = Meaning(Start, Bare(code, marked), way)]_vars

\* The invariant of the proofs about what allocation keeps.
MeaningInv ==
    /\ IInv /\ Apart(code) /\ MovesAlone(code) /\ Complete /\ Spared /\ Willing

LEMMA MeaningInvariant == Spec /\ Solitary => []MeaningInv
<1>1. Init /\ Solitary => Apart(code) /\ MovesAlone(code) /\ Complete /\ Spared /\ Willing
  <2>1. Init => Willing  BY RegAllocAssumption DEF Init, Willing, Names, Name
  <2> QED BY <2>1, ProgramsAssumption DEF Init, Solitary, Complete, Spared
<1>2. MeaningInv /\ [Next]_vars => MeaningInv'
  <2> SUFFICES ASSUME MeaningInv, [Next]_vars PROVE MeaningInv'
    OBVIOUS
  <2>1. IInv'  BY NextHolds DEF MeaningInv
  <2>2. Apart(code)'
    <3>1. Apart(code)' <=> Apart(code')  BY DEF Apart, InstrsOf
    <3> QED BY <3>1, StaysApart DEF MeaningInv
  <2>3. MovesAlone(code)' /\ Complete'
    <3>1. MovesAlone(code') /\ (phase' # "chains" => ListedBy(code', mc', marked'))
      BY StaysComplete DEF MeaningInv
    <3> QED BY <3>1 DEF Complete
  <2>4. Spared'  BY StaysSpared DEF MeaningInv
  <2>5. Willing'  BY StaysWilling DEF MeaningInv
  <2> QED BY <2>1, <2>2, <2>3, <2>4, <2>5 DEF MeaningInv
<1>3. Init /\ Solitary => MeaningInv  BY <1>1, InitHolds DEF MeaningInv
<1> QED BY <1>2, <1>3, PTL DEF Spec

THEOREM OnlySpillsChangeMeaning == Spec /\ Solitary => OnlySpillsMatter
<1>1. MeaningInv /\ [Next]_vars =>
        [~Spill => \A way \in Ways :
           Meaning(Start', Bare(code', marked'), way) = Meaning(Start, Bare(code, marked), way)]_vars
  <2> SUFFICES ASSUME MeaningInv, [Next]_vars, ~Spill, NEW way \in Ways
               PROVE  Meaning(Start', Bare(code', marked'), way)
                        = Meaning(Start, Bare(code, marked), way)
    OBVIOUS
  <2>1. /\ class' = class /\ slots' = slots
        /\ Meaning(Start, Bare(code, marked), way) = Meaning(Start, Bare(code', marked'), way)
    BY StepMeans DEF MeaningInv
  <2>2. Start' = Start  BY <2>1 DEF Start
  <2> QED BY <2>1, <2>2
<1> QED BY <1>1, MeaningInvariant, PTL DEF Spec, OnlySpillsMatter

\* The registers of an allocated routine carry the values of its names, however many
\* rounds of spills went before: each operation reads what it would read if every name
\* had a register of its own.
ColoursKeepMeaning ==
    phase = "done" =>
        \A way \in Ways : Meaning(Start, Allocated, way) = Meaning(Start, code, way)

THEOREM ColoursMean == Spec /\ Solitary => []ColoursKeepMeaning
<1>1. MeaningInv /\ RegistersApart => ColoursKeepMeaning
  BY ColouredMeans DEF MeaningInv, ColoursKeepMeaning
<1> QED BY <1>1, MeaningInvariant, RegistersStayApart, PTL

\* A routine that was allocated without a spill does what the original did, for every
\* routine whose moves are alone, every register file and every way through the blocks.
THEOREM AllocatedMeans == Spec /\ Solitary => [](slots = 0 => SameMeaning)
<1> DEFINE Means == \A way \in Ways :
                      Meaning(Start, Bare(code, marked), way) = Meaning(Start, original, way)
           Inv == slots = 0 => Means
<1>1. Init => Inv
  <2> SUFFICES ASSUME Init, NEW way \in Ways
               PROVE  Meaning(Start, Bare(code, marked), way) = Meaning(Start, original, way)
    OBVIOUS
  <2>1. code = original /\ marked = {} /\ Apart(code)  BY ProgramsAssumption DEF Init
  <2>2. code \in Routine(Names) /\ None \notin Names
    BY InitHolds DEF IInv, Named, NameSet, None
  <2>3. Meaning(StartOf(Names, slots), code, way) = Meaning(StartOf(Names, slots), Bare(code, {}), way)
    BY <2>1, <2>2, BareMeans
  <2> QED BY <2>1, <2>3 DEF Start, Names
<1>2. MeaningInv /\ Inv /\ [Next]_vars => Inv'
  <2> SUFFICES ASSUME MeaningInv, Inv, [Next]_vars, slots' = 0 PROVE Means'
    OBVIOUS
  <2>1. ~Spill
    <3>1. slots \in Nat  BY DEF MeaningInv, IInv, Named
    <3> QED BY <3>1 DEF Spill
  <2>2. original' = original
    BY DEF Next, Chains, Build, CoalesceOper, DeleteUselessIR, Simplify, Select, Spill, Restart,
           Stopped, vars
  <2>3. ASSUME NEW way \in Ways
        PROVE  /\ class' = class /\ slots' = slots
               /\ Meaning(Start, Bare(code, marked), way) = Meaning(Start, Bare(code', marked'), way)
    BY <2>1, StepMeans DEF MeaningInv
  <2> SUFFICES ASSUME NEW way \in Ways
               PROVE  Meaning(Start', Bare(code', marked'), way) = Meaning(Start', original', way)
    OBVIOUS
  <2>4. Start' = Start  BY <2>3 DEF Start
  <2>5. Means  BY <2>3
  <2> QED BY <2>2, <2>3, <2>4, <2>5
<1>3. MeaningInv /\ Inv /\ ColoursKeepMeaning => (slots = 0 => SameMeaning)
  <2> SUFFICES ASSUME MeaningInv, Means, ColoursKeepMeaning, phase = "done", NEW way \in Ways
               PROVE  Meaning(Start, Allocated, way) = Meaning(Start, original, way)
    BY DEF SameMeaning
  <2>1. marked = {}  BY DEF MeaningInv, IInv, Phases
  <2>2. code \in Routine(Names) /\ None \notin Names /\ Apart(code)
    BY DEF MeaningInv, IInv, Named, NameSet, None
  <2>3. Meaning(StartOf(Names, slots), code, way) = Meaning(StartOf(Names, slots), Bare(code, {}), way)
    BY <2>2, BareMeans
  <2> QED BY <2>1, <2>3 DEF ColoursKeepMeaning, Start, Names
<1> HIDE DEF Inv
<1> QED BY <1>1, <1>2, <1>3, MeaningInvariant, ColoursMean, PTL DEF Spec

-----------------------------------------------------------------------------
(* A name that is a slot as well *)

\* An instruction where what goes to name n goes to slot z, and the other way about.
TiedExecute(st, i, n, z) ==
    [reg  |-> [r \in DOMAIN st.reg |->
                 IF r = n /\ Storing(i, z) # {} THEN SlotAfter(st, i, z)
                 ELSE RegisterAfter(st, i, r)],
     mem  |-> [x \in DOMAIN st.mem |->
                 IF x = z /\ Storing(i, z) = {} THEN RegisterAfter(st, i, n)
                 ELSE SlotAfter(st, i, x)],
     read |-> IF ReadBy(st, i) = {} THEN st.read ELSE Append(st.read, ReadBy(st, i))]
TiedRun(st, instrs, n, z) ==
    LET after[k \in 0..Len(instrs)] ==
          IF k = 0 THEN st ELSE TiedExecute(after[k - 1], instrs[k], n, z)
    IN after[Len(instrs)]
TiedMeaning(st, cd, way, n, z) ==
    LET after[k \in 0..Len(way)] ==
          IF k = 0 THEN st ELSE TiedRun(after[k - 1], cd[way[k]], n, z)
    IN after[Len(way)].read

TiedAs(s, i, n, z, u) ==
    /\ DOMAIN u.reg = DOMAIN s.reg /\ DOMAIN u.mem = DOMAIN s.mem
    /\ \A r \in DOMAIN s.reg :
         u.reg[r] = IF r = n /\ Storing(i, z) # {} THEN SlotAfter(s, i, z)
                    ELSE RegisterAfter(s, i, r)
    /\ \A x \in DOMAIN s.mem :
         u.mem[x] = IF x = z /\ Storing(i, z) = {} THEN RegisterAfter(s, i, n)
                    ELSE SlotAfter(s, i, x)
    /\ u.read = IF ReadBy(s, i) = {} THEN s.read ELSE Append(s.read, ReadBy(s, i))

LEMMA TiedExecuted ==
    ASSUME NEW s, NEW i, NEW n, NEW z PROVE TiedAs(s, i, n, z, TiedExecute(s, i, n, z))
BY DEF TiedExecute, TiedAs

\* Such a run of k instructions, and a way of k blocks, step by step.
TiedRunsIn(st, q, n, z, l) ==
    \E f : /\ f[0] = st /\ TiedRun(st, q, n, z) = f[l]
           /\ \A k \in 1..l : f[k] = TiedExecute(f[k - 1], q[k], n, z)
TiedMeansIn(st, cd, way, n, z, l) ==
    \E f : /\ f[0] = st /\ TiedMeaning(st, cd, way, n, z) = f[l].read
           /\ \A k \in 1..l : f[k] = TiedRun(f[k - 1], cd[way[k]], n, z)

LEMMA TiedRunSteps ==
    ASSUME NEW st, NEW q, NEW n, NEW z, NEW l \in Nat, l = Len(q)
    PROVE  TiedRunsIn(st, q, n, z, l)
<1> DEFINE W(k, f) == IF k = 0 THEN st ELSE TiedExecute(f[k - 1], q[k], n, z)
           Goes(k, f) == f = [j \in 0..k |-> W(j, f)]
           G == {k \in 0..l : \E f : Goes(k, f)}
<1>2. 0 \in G
  <2> DEFINE f == [j \in 0..0 |-> st]
  <2>1. Goes(0, f)  OBVIOUS
  <2> HIDE DEF Goes, f
  <2> QED BY <2>1
<1>3. ASSUME NEW k \in 1..l, k - 1 \in G PROVE k \in G
  <2>1. PICK f : Goes(k - 1, f)  BY <1>3
  <2> DEFINE g == [j \in 0..k |-> IF j = k THEN W(k, f) ELSE f[j]]
  <2>2. \A j \in 0..k : j # k => j \in 0..(k - 1) /\ (j # 0 => j - 1 \in 0..k /\ j - 1 # k)
    OBVIOUS
  <2>3. k # 0 /\ k - 1 \in 0..k /\ k - 1 # k  OBVIOUS
  <2>4. \A j \in 0..k : g[j] = W(j, g)
    <3> TAKE j \in 0..k
    <3>1. CASE j = k  BY <2>3, <3>1
    <3>2. CASE j # k
      <4>1. g[j] = W(j, f)  BY <2>1, <2>2, <3>2
      <4> QED BY <2>2, <3>2, <4>1
    <3> QED BY <3>1, <3>2
  <2>5. Goes(k, g)
    <3> HIDE DEF W
    <3> QED BY <2>4
  <2> HIDE DEF Goes, g
  <2> QED BY <2>5
<1>4. l \in G
  <2>1. l \in 0..l  OBVIOUS
  <2> HIDE DEF G
  <2>2. 0..l \subseteq G  BY <1>2, <1>3, Upwards
  <2> QED BY <2>1, <2>2
<1> DEFINE h == CHOOSE f : Goes(l, f)
<1>5. Goes(l, h)
  <2>1. \E f : Goes(l, f)  BY <1>4
  <2> HIDE DEF Goes
  <2> QED BY <2>1
<1>6. TiedRun(st, q, n, z) = h[l]  BY DEF TiedRun
<1> HIDE DEF h
<1>7. \A k \in 0..l : h[k] = W(k, h)
  <2> HIDE DEF W
  <2> QED BY <1>5
<1>8. h[0] = st /\ \A k \in 1..l : h[k] = TiedExecute(h[k - 1], q[k], n, z)
  <2>1. 0 \in 0..l /\ \A k \in 1..l : k \in 0..l /\ k # 0  OBVIOUS
  <2> QED BY <1>7, <2>1
<1> QED BY <1>6, <1>8 DEF TiedRunsIn

LEMMA TiedMeaningSteps ==
    ASSUME NEW st, NEW cd, NEW way, NEW n, NEW z, NEW l \in Nat, l = Len(way)
    PROVE  TiedMeansIn(st, cd, way, n, z, l)
<1> DEFINE W(k, f) == IF k = 0 THEN st ELSE TiedRun(f[k - 1], cd[way[k]], n, z)
           Goes(k, f) == f = [j \in 0..k |-> W(j, f)]
           G == {k \in 0..l : \E f : Goes(k, f)}
<1>2. 0 \in G
  <2> DEFINE f == [j \in 0..0 |-> st]
  <2>1. Goes(0, f)  OBVIOUS
  <2> HIDE DEF Goes, f
  <2> QED BY <2>1
<1>3. ASSUME NEW k \in 1..l, k - 1 \in G PROVE k \in G
  <2>1. PICK f : Goes(k - 1, f)  BY <1>3
  <2> DEFINE g == [j \in 0..k |-> IF j = k THEN W(k, f) ELSE f[j]]
  <2>2. \A j \in 0..k : j # k => j \in 0..(k - 1) /\ (j # 0 => j - 1 \in 0..k /\ j - 1 # k)
    OBVIOUS
  <2>3. k # 0 /\ k - 1 \in 0..k /\ k - 1 # k  OBVIOUS
  <2>4. \A j \in 0..k : g[j] = W(j, g)
    <3> TAKE j \in 0..k
    <3>1. CASE j = k  BY <2>3, <3>1
    <3>2. CASE j # k
      <4>1. g[j] = W(j, f)  BY <2>1, <2>2, <3>2
      <4> QED BY <2>2, <3>2, <4>1
    <3> QED BY <3>1, <3>2
  <2>5. Goes(k, g)
    <3> HIDE DEF W
    <3> QED BY <2>4
  <2> HIDE DEF Goes, g
  <2> QED BY <2>5
<1>4. l \in G
  <2>1. l \in 0..l  OBVIOUS
  <2> HIDE DEF G
  <2>2. 0..l \subseteq G  BY <1>2, <1>3, Upwards
  <2> QED BY <2>1, <2>2
<1> DEFINE h == CHOOSE f : Goes(l, f)
<1>5. Goes(l, h)
  <2>1. \E f : Goes(l, f)  BY <1>4
  <2> HIDE DEF Goes
  <2> QED BY <2>1
<1>6. TiedMeaning(st, cd, way, n, z) = h[l].read  BY DEF TiedMeaning
<1> HIDE DEF h
<1>7. \A k \in 0..l : h[k] = W(k, h)
  <2> HIDE DEF W
  <2> QED BY <1>5
<1>8. h[0] = st /\ \A k \in 1..l : h[k] = TiedRun(h[k - 1], cd[way[k]], n, z)
  <2>1. 0 \in 0..l /\ \A k \in 1..l : k \in 0..l /\ k # 0  OBVIOUS
  <2> QED BY <1>7, <2>1
<1> QED BY <1>6, <1>8 DEF TiedMeansIn

\* States that agree on the names L and the slots Z, and a state that ties n to slot z.
Agree(s, t, L, Z) ==
    /\ s.read = t.read
    /\ L \subseteq DOMAIN s.reg /\ L \subseteq DOMAIN t.reg /\ \A r \in L : s.reg[r] = t.reg[r]
    /\ Z \subseteq DOMAIN s.mem /\ Z \subseteq DOMAIN t.mem /\ \A x \in Z : s.mem[x] = t.mem[x]
Level(s, n, z) == n \in DOMAIN s.reg /\ z \in DOMAIN s.mem /\ s.reg[n] = s.mem[z]

IsMemory(o) == o.kind \in {"load", "store"}
OpsApart(i) == \A o, p \in Range(i.ops) : o.id = p.id => o = p
SlotsIn(i, Z) == \A o \in Range(i.ops) : IsMemory(o) => o.slot \in Z

LEMMA TiedSteps ==
    ASSUME NEW L, None \notin L, NEW Z, NEW i \in InstrOver(L), OpsApart(i), SlotsIn(i, Z),
           NEW n, n # None, NEW z, n \notin L \/ z \notin Z,
           NEW s, NEW t, Agree(s, t, L, Z), Level(t, n, z)
    PROVE  /\ Agree(Execute(s, i), TiedExecute(t, i, n, z), L, Z)
           /\ Level(TiedExecute(t, i, n, z), n, z)
<1> DEFINE S == Range(i.ops)
           F == [o \in S |-> o]
           u == Execute(s, i)
           v == TiedExecute(t, i, n, z)
<1>1. ExecutedAs(s, i, u) /\ TiedAs(t, i, n, z, v)  BY Executed, TiedExecuted
<1>2. \A o \in S : o \in OpOver(L)
  <2>1. i.ops \in Seq(OpOver(L))  BY DEF InstrOver
  <2> QED BY <2>1, RangeOf
<1>3. ASSUME NEW o \in S PROVE ReadOf(t, o) = ReadOf(s, o) /\ ResultOf(t, o) = ResultOf(s, o)
  <2>1. o.srcs \in Seq(L)  BY <1>2 DEF OpOver
  <2>2. \A k \in DOMAIN o.srcs : o.srcs[k] \in L  BY <2>1, RangeOf, ElementOfSeq
  <2>3. ReadOf(t, o) = ReadOf(s, o)  BY <2>2 DEF ReadOf, Agree
  <2>4. CASE o.kind = "move"  BY <2>3, <2>4 DEF ResultOf
  <2>5. CASE o.kind = "load"
    <3>1. o.slot \in Z  BY <2>5 DEF SlotsIn, IsMemory
    <3> QED BY <2>3, <2>5, <3>1 DEF ResultOf, Agree
  <2>6. CASE o.kind # "move" /\ o.kind # "load"  BY <2>3, <2>6 DEF ResultOf, Agree
  <2> QED BY <2>3, <2>4, <2>5, <2>6
<1>4. \A o \in S : F[o] = o  OBVIOUS
<1> HIDE DEF F, u, v
<1>5. Mirrors(i, i, F, s, t)  BY <1>3, <1>4 DEF Mirrors, OpsApart
<1>6. ReadBy(t, i) = ReadBy(s, i)  BY <1>5, MirrorReads
<1>7. \A x \in Z : SlotAfter(t, i, x) = SlotAfter(s, i, x)  BY <1>5, MirrorStores DEF Agree
<1>8. ASSUME NEW r \in L PROVE RegisterAfter(t, i, r) = RegisterAfter(s, i, r)
  <2>1. r # None /\ \A o \in Range(i.ops) : F[o].dest = r <=> o.dest = r  BY <1>4
  <2>2. r \notin Defs(i) => s.reg[r] = t.reg[r]  BY DEF Agree
  <2> QED BY <1>5, <2>1, <2>2, MirrorWrites
<1>9. n \notin L => RegisterAfter(t, i, n) = t.reg[n]
  <2>1. n \notin L => Writers(i, n) = {}  BY <1>2 DEF Writers, OpOver
  <2> QED BY <2>1 DEF RegisterAfter
<1>10. Storing(i, z) # {} => z \in Z  BY DEF Storing, SlotsIn, IsMemory
<1>11. u.read = v.read  BY <1>1, <1>6 DEF ExecutedAs, TiedAs, Agree
<1>12. L \subseteq DOMAIN u.reg /\ L \subseteq DOMAIN v.reg /\ \A r \in L : u.reg[r] = v.reg[r]
  BY <1>1, <1>8, <1>10 DEF ExecutedAs, TiedAs, Agree
<1>13. Z \subseteq DOMAIN u.mem /\ Z \subseteq DOMAIN v.mem
  BY <1>1 DEF ExecutedAs, TiedAs, Agree
<1>14. ASSUME NEW x \in Z PROVE u.mem[x] = v.mem[x]
  <2>1. u.mem[x] = SlotAfter(s, i, x)  BY <1>1 DEF ExecutedAs, Agree
  <2>2. CASE x = z /\ Storing(i, z) = {}
    <3>1. v.mem[x] = t.reg[n]  BY <1>1, <1>9, <2>2 DEF TiedAs, Agree
    <3>2. SlotAfter(s, i, x) = s.mem[x]  BY <2>2 DEF SlotAfter
    <3> QED BY <2>1, <2>2, <3>1, <3>2 DEF Agree, Level
  <2>3. CASE ~(x = z /\ Storing(i, z) = {})
    <3>1. v.mem[x] = SlotAfter(t, i, x)  BY <1>1, <2>3 DEF TiedAs, Agree
    <3> QED BY <1>7, <2>1, <3>1
  <2> QED BY <2>2, <2>3
<1>15. Level(v, n, z)
  <2>1. n \in DOMAIN v.reg /\ z \in DOMAIN v.mem  BY <1>1 DEF TiedAs, Level
  <2>2. CASE Storing(i, z) = {}  BY <1>1, <2>1, <2>2 DEF TiedAs, Level
  <2>3. CASE Storing(i, z) # {}  BY <1>1, <2>1, <2>3 DEF TiedAs, Level
  <2> QED BY <2>2, <2>3
<1> QED BY <1>11, <1>12, <1>13, <1>14, <1>15 DEF Agree, u, v

\* Operations have ids of their own, and the slots are in Z.
Quiet(cd, Z) == \A i \in InstrsOf(cd) : OpsApart(i) /\ SlotsIn(i, Z)

LEMMA TiedRuns ==
    ASSUME NEW L, None \notin L, NEW Z, NEW q \in Seq(InstrOver(L)),
           \A i \in Range(q) : OpsApart(i) /\ SlotsIn(i, Z),
           NEW n, n # None, NEW z, n \notin L \/ z \notin Z,
           NEW s, NEW t, Agree(s, t, L, Z), Level(t, n, z)
    PROVE  Agree(Run(s, q), TiedRun(t, q, n, z), L, Z) /\ Level(TiedRun(t, q, n, z), n, z)
<1>1. PICK l \in Nat : l = Len(q) /\ DOMAIN q = 1..l /\ \A k \in 1..l : q[k] \in InstrOver(L)
  BY RangeOf, ElementOfSeq
<1>2. PICK f : f[0] = s /\ Run(s, q) = f[l] /\ \A k \in 1..l : f[k] = Execute(f[k - 1], q[k])
  <2>1. RunsIn(s, q, l)  BY <1>1, RunSteps
  <2> QED BY <2>1 DEF RunsIn
<1>3. PICK g : /\ g[0] = t /\ TiedRun(t, q, n, z) = g[l]
               /\ \A k \in 1..l : g[k] = TiedExecute(g[k - 1], q[k], n, z)
  <2>1. TiedRunsIn(t, q, n, z, l)  BY <1>1, TiedRunSteps
  <2> QED BY <2>1 DEF TiedRunsIn
<1> DEFINE G == {k \in 0..l : Agree(f[k], g[k], L, Z) /\ Level(g[k], n, z)}
<1>4. 0 \in G  BY <1>2, <1>3
<1>5. ASSUME NEW k \in 1..l, k - 1 \in G PROVE k \in G
  <2> DEFINE i == q[k]
             u == f[k - 1]
             v == g[k - 1]
  <2>1. i \in InstrOver(L) /\ OpsApart(i) /\ SlotsIn(i, Z) /\ k \in 0..l  BY <1>1 DEF Range
  <2>2. f[k] = Execute(u, i) /\ g[k] = TiedExecute(v, i, n, z)  BY <1>2, <1>3
  <2>3. Agree(u, v, L, Z) /\ Level(v, n, z)  BY <1>5
  <2> HIDE DEF i, u, v
  <2> QED BY <2>1, <2>2, <2>3, TiedSteps
<1>6. l \in G
  <2>1. l \in 0..l  OBVIOUS
  <2> HIDE DEF G
  <2>2. 0..l \subseteq G  BY <1>4, <1>5, Upwards
  <2> QED BY <2>1, <2>2
<1> QED BY <1>2, <1>3, <1>6

\* A name that the code does not have, or a slot that it does not use, may be tied.
LEMMA TiedMeans ==
    ASSUME NEW L, None \notin L, NEW Z, NEW cd \in Routine(L), Quiet(cd, Z), NEW way \in Ways,
           NEW n, n # None, NEW z, n \notin L \/ z \notin Z,
           NEW s, NEW t, Agree(s, t, L, Z), Level(t, n, z)
    PROVE  Meaning(s, cd, way) = TiedMeaning(t, cd, way, n, z)
<1>1. PICK l \in Nat : l = Len(way) /\ \A k \in 1..l : way[k] \in Block
  <2>1. way \in Seq(Block)  BY WaysAssumption
  <2> QED BY <2>1, LenProperties, ElementOfSeq
<1>3. PICK f : /\ f[0] = s /\ Meaning(s, cd, way) = f[l].read
               /\ \A k \in 1..l : f[k] = Run(f[k - 1], cd[way[k]])
  <2>1. MeansIn(s, cd, way, l)  BY <1>1, MeaningSteps
  <2> QED BY <2>1 DEF MeansIn
<1>4. PICK g : /\ g[0] = t /\ TiedMeaning(t, cd, way, n, z) = g[l].read
               /\ \A k \in 1..l : g[k] = TiedRun(g[k - 1], cd[way[k]], n, z)
  <2>1. TiedMeansIn(t, cd, way, n, z, l)  BY <1>1, TiedMeaningSteps
  <2> QED BY <2>1 DEF TiedMeansIn
<1> DEFINE G == {k \in 0..l : Agree(f[k], g[k], L, Z) /\ Level(g[k], n, z)}
<1>5. 0 \in G  BY <1>3, <1>4
<1>6. ASSUME NEW k \in 1..l, k - 1 \in G PROVE k \in G
  <2> DEFINE q == cd[way[k]]
             u == f[k - 1]
             v == g[k - 1]
  <2>1. q \in Seq(InstrOver(L)) /\ k \in 0..l  BY <1>1 DEF Routine
  <2>2. \A i \in Range(q) : OpsApart(i) /\ SlotsIn(i, Z)  BY <1>1 DEF Quiet, InstrsOf
  <2>3. f[k] = Run(u, q) /\ g[k] = TiedRun(v, q, n, z)  BY <1>3, <1>4
  <2>4. Agree(u, v, L, Z) /\ Level(v, n, z)  BY <1>6
  <2> HIDE DEF q, u, v
  <2> QED BY <2>1, <2>2, <2>3, <2>4, TiedRuns
<1>7. l \in G
  <2>1. l \in 0..l  OBVIOUS
  <2> HIDE DEF G
  <2>2. 0..l \subseteq G  BY <1>5, <1>6, Upwards
  <2> QED BY <2>1, <2>2
<1> QED BY <1>3, <1>4, <1>7 DEF Agree

-----------------------------------------------------------------------------
(* A definition or a use that is split *)

\* The states of code in which n is being spilled to slot z, and of code in which it is
\* called m in one instruction: nothing differs but m; or the value of n is in m and has
\* to be stored; or it was loaded into m.
Even(s, t, Z, n, m, z) ==
    Agree(s, t, Nat \ {m}, Z) /\ Level(s, n, z) /\ m \in DOMAIN t.reg
Held(s, t, Z, n, m, z) ==
    /\ Agree(s, t, Nat \ {n, m}, Z \ {z}) /\ Level(s, n, z)
    /\ {n, m} \subseteq DOMAIN t.reg /\ z \in DOMAIN t.mem /\ t.reg[m] = s.mem[z]
Loaded(s, t, Z, n, m, z) == Even(s, t, Z, n, m, z) /\ t.reg[m] = s.reg[n]

LEMMA RenamedMirrors ==
    ASSUME NEW N, N \subseteq Nat, NEW i \in InstrOver(N), OpsApart(i), NEW Z, SlotsIn(i, Z),
           NEW n \in N, NEW m, m \notin N, NEW z, NEW defs, NEW uses,
           NEW s, NEW t, Even(s, t, Z, n, m, z),
           i.id \in uses => t.reg[m] = s.reg[n],
           NEW F, F = [o \in Range(i.ops) |-> OpAfter(i, o, defs, uses, n, m)]
    PROVE  Mirrors(i, NewInstr(i, defs, uses, n, m), F, s, t)
<1> DEFINE j == NewInstr(i, defs, uses, n, m)
           S == Range(i.ops)
<1>1. \A o \in S : o \in OpOver(N)
  <2>1. i.ops \in Seq(OpOver(N))  BY DEF InstrOver
  <2> QED BY <2>1, RangeOf
<1>2. j.ops = [k \in DOMAIN i.ops |-> OpAfter(i, i.ops[k], defs, uses, n, m)]  BY NewInstrOf
<1> HIDE DEF j
<1>3. \A p : p \in Range(j.ops) <=> \E o \in S : p = F[o]
  <2>1. Range(j.ops) = {OpAfter(i, o, defs, uses, n, m) : o \in S}  BY <1>2 DEF Range
  <2> QED BY <2>1
<1>4. ASSUME NEW o \in S
      PROVE  /\ F[o].id = o.id /\ F[o].kind = o.kind /\ F[o].slot = o.slot
             /\ DOMAIN F[o].srcs = DOMAIN o.srcs
             /\ \A k \in DOMAIN o.srcs :
                  F[o].srcs[k] = IF i.id \in uses /\ o.srcs[k] = n THEN m ELSE o.srcs[k]
  BY DEF OpAfter
<1>5. ASSUME NEW o \in S
      PROVE  ReadOf(t, F[o]) = ReadOf(s, o) /\ ResultOf(t, F[o]) = ResultOf(s, o)
  <2>1. o.srcs \in Seq(N)  BY <1>1 DEF OpOver
  <2>2. ASSUME NEW k \in DOMAIN o.srcs PROVE t.reg[F[o].srcs[k]] = s.reg[o.srcs[k]]
    <3>1. o.srcs[k] \in N  BY <2>1, RangeOf, ElementOfSeq
    <3>2. CASE i.id \in uses /\ o.srcs[k] = n  BY <1>4, <3>2
    <3>3. CASE ~(i.id \in uses /\ o.srcs[k] = n)
      <4>1. F[o].srcs[k] = o.srcs[k]  BY <1>4, <3>3
      <4>2. o.srcs[k] \in Nat \ {m}  BY <3>1
      <4> QED BY <4>1, <4>2 DEF Even, Agree
    <3> QED BY <3>2, <3>3
  <2>3. ReadOf(t, F[o]) = ReadOf(s, o)  BY <1>4, <2>2 DEF ReadOf
  <2>4. CASE o.kind = "move"  BY <1>4, <2>3, <2>4 DEF ResultOf
  <2>5. CASE o.kind = "load"
    <3>1. o.slot \in Z  BY <2>5 DEF SlotsIn, IsMemory
    <3>2. F[o].kind = "load" /\ F[o].slot = o.slot  BY <1>4, <2>5
    <3> QED BY <2>3, <2>5, <3>1, <3>2 DEF ResultOf, Even, Agree
  <2>6. CASE o.kind # "move" /\ o.kind # "load"
    <3>1. F[o].kind = o.kind /\ F[o].id = o.id  BY <1>4
    <3> QED BY <2>3, <2>6, <3>1 DEF ResultOf, Even, Agree
  <2> QED BY <2>3, <2>4, <2>5, <2>6
<1> QED BY <1>3, <1>4, <1>5 DEF Mirrors, OpsApart, j

\* An instruction whose definitions keep their names.
LEMMA RenamedUses ==
    ASSUME NEW N, N \subseteq Nat, NEW i \in InstrOver(N), OpsApart(i), NEW Z, SlotsIn(i, Z),
           NEW n \in N, NEW m, m \notin N, NEW z \in Z, NEW defs, i.id \notin defs, NEW uses,
           NEW s, NEW t, Even(s, t, Z, n, m, z), i.id \in uses => t.reg[m] = s.reg[n]
    PROVE  Even(TiedExecute(s, i, n, z), TiedExecute(t, NewInstr(i, defs, uses, n, m), n, z),
                Z, n, m, z)
<1> DEFINE j == NewInstr(i, defs, uses, n, m)
           F == [o \in Range(i.ops) |-> OpAfter(i, o, defs, uses, n, m)]
           u == TiedExecute(s, i, n, z)
           v == TiedExecute(t, j, n, z)
<1>1. Mirrors(i, j, F, s, t)
  <2> HIDE DEF F
  <2>1. F = [o \in Range(i.ops) |-> OpAfter(i, o, defs, uses, n, m)]  BY DEF F
  <2> QED BY <2>1, RenamedMirrors
<1>2. \A o \in Range(i.ops) : F[o].dest = o.dest  BY DEF OpAfter
<1> HIDE DEF j, F, u, v
<1>3. TiedAs(s, i, n, z, u) /\ TiedAs(t, j, n, z, v)  BY TiedExecuted DEF u, v
<1>4. ReadBy(t, j) = ReadBy(s, i)  BY <1>1, MirrorReads
<1>5. \A x : /\ Storing(j, x) = {} <=> Storing(i, x) = {}
             /\ x \in Z => SlotAfter(t, j, x) = SlotAfter(s, i, x)
  BY <1>1, MirrorStores DEF Even, Agree
<1>6. ASSUME NEW r \in Nat \ {m} PROVE RegisterAfter(t, j, r) = RegisterAfter(s, i, r)
  <2>1. r # None /\ \A o \in Range(i.ops) : F[o].dest = r <=> o.dest = r  BY <1>2 DEF None
  <2>2. r \notin Defs(i) => s.reg[r] = t.reg[r]  BY DEF Even, Agree
  <2> QED BY <1>1, <2>1, <2>2, MirrorWrites
<1>7. n \in Nat \ {m}  OBVIOUS
<1>8. u.read = v.read  BY <1>3, <1>4 DEF TiedAs, Even, Agree
<1>9. ASSUME NEW r \in Nat \ {m}
      PROVE  r \in DOMAIN u.reg /\ r \in DOMAIN v.reg /\ u.reg[r] = v.reg[r]
  <2>1. r \in DOMAIN s.reg /\ r \in DOMAIN t.reg  BY DEF Even, Agree
  <2>2. r \in DOMAIN u.reg /\ r \in DOMAIN v.reg  BY <1>3, <2>1 DEF TiedAs
  <2>3. u.reg[r] = IF r = n /\ Storing(i, z) # {} THEN SlotAfter(s, i, z)
                   ELSE RegisterAfter(s, i, r)
    BY <1>3, <2>1 DEF TiedAs
  <2>4. v.reg[r] = IF r = n /\ Storing(j, z) # {} THEN SlotAfter(t, j, z)
                   ELSE RegisterAfter(t, j, r)
    BY <1>3, <2>1 DEF TiedAs
  <2> QED BY <1>5, <1>6, <2>2, <2>3, <2>4
<1>10. ASSUME NEW x \in Z PROVE x \in DOMAIN u.mem /\ x \in DOMAIN v.mem /\ u.mem[x] = v.mem[x]
  <2>1. x \in DOMAIN s.mem /\ x \in DOMAIN t.mem  BY DEF Even, Agree
  <2>2. x \in DOMAIN u.mem /\ x \in DOMAIN v.mem  BY <1>3, <2>1 DEF TiedAs
  <2>3. u.mem[x] = IF x = z /\ Storing(i, z) = {} THEN RegisterAfter(s, i, n)
                   ELSE SlotAfter(s, i, x)
    BY <1>3, <2>1 DEF TiedAs
  <2>4. v.mem[x] = IF x = z /\ Storing(j, z) = {} THEN RegisterAfter(t, j, n)
                   ELSE SlotAfter(t, j, x)
    BY <1>3, <2>1 DEF TiedAs
  <2> QED BY <1>5, <1>6, <1>7, <2>2, <2>3, <2>4
<1>11. Level(u, n, z)
  <2>1. n \in DOMAIN s.reg /\ z \in DOMAIN s.mem  BY DEF Even, Level
  <2>2. CASE Storing(i, z) = {}  BY <1>3, <2>1, <2>2 DEF TiedAs, Level
  <2>3. CASE Storing(i, z) # {}  BY <1>3, <2>1, <2>3 DEF TiedAs, Level
  <2> QED BY <2>2, <2>3
<1>12. m \in DOMAIN v.reg  BY <1>3 DEF TiedAs, Even
<1>13. Agree(u, v, Nat \ {m}, Z)  BY <1>8, <1>9, <1>10 DEF Agree
<1> QED BY <1>11, <1>12, <1>13 DEF Even, u, v, j

\* The instruction that now defines m.
LEMMA RenamedDef ==
    ASSUME NEW N, N \subseteq Nat, NEW i \in InstrOver(N), OpsApart(i), NEW Z, SlotsIn(i, Z),
           NEW n \in N, NEW m \in Nat, m \notin N, NEW z \in Z, Storing(i, z) = {}, n \in Defs(i),
           NEW s, NEW t, Even(s, t, Z, n, m, z)
    PROVE  Held(TiedExecute(s, i, n, z), TiedExecute(t, NewInstr(i, {i.id}, {}, n, m), n, z),
                Z, n, m, z)
<1> DEFINE e == {}
           d == {i.id}
           j == NewInstr(i, d, e, n, m)
           F == [o \in Range(i.ops) |-> OpAfter(i, o, d, e, n, m)]
           u == TiedExecute(s, i, n, z)
           v == TiedExecute(t, j, n, z)
<1>1. Mirrors(i, j, F, s, t)
  <2>1. F = [o \in Range(i.ops) |-> OpAfter(i, o, d, e, n, m)] /\ i.id \notin e  OBVIOUS
  <2> HIDE DEF F, d, e
  <2> QED BY <2>1, RenamedMirrors
<1>2. \A o \in Range(i.ops) : F[o].dest = IF o.dest = n THEN m ELSE o.dest  BY DEF OpAfter
<1>o. \A o \in Range(i.ops) : o.dest # m
  <2>1. i.ops \in Seq(OpOver(N))  BY DEF InstrOver
  <2>2. \A o \in Range(i.ops) : o \in OpOver(N)  BY <2>1, RangeOf
  <2> QED BY <2>2 DEF OpOver, None
<1> HIDE DEF j, F, u, v, d, e
<1>3. TiedAs(s, i, n, z, u) /\ TiedAs(t, j, n, z, v)  BY TiedExecuted DEF u, v
<1>4. ReadBy(t, j) = ReadBy(s, i)  BY <1>1, MirrorReads
<1>5. \A x : /\ Storing(j, x) = {} <=> Storing(i, x) = {}
             /\ x \in Z => SlotAfter(t, j, x) = SlotAfter(s, i, x)
  BY <1>1, MirrorStores DEF Even, Agree
<1>6. ASSUME NEW r \in Nat \ {n, m} PROVE RegisterAfter(t, j, r) = RegisterAfter(s, i, r)
  <2>1. r # None /\ \A o \in Range(i.ops) : F[o].dest = r <=> o.dest = r  BY <1>2 DEF None
  <2>2. r \notin Defs(i) => s.reg[r] = t.reg[r]  BY DEF Even, Agree
  <2> QED BY <1>1, <2>1, <2>2, MirrorWrites
<1>7. RegisterAfter(t, j, m) = RegisterAfter(s, i, n)
  <2>1. /\ n # None /\ m # None
        /\ \A o \in Range(i.ops) : F[o].dest = m <=> o.dest = n
    BY <1>2, <1>o DEF None
  <2> QED BY <1>1, <2>1, MirrorWrites
<1>8. u.read = v.read  BY <1>3, <1>4 DEF TiedAs, Even, Agree
<1>9. ASSUME NEW r \in Nat \ {n, m}
      PROVE  r \in DOMAIN u.reg /\ r \in DOMAIN v.reg /\ u.reg[r] = v.reg[r]
  <2>1. r \in DOMAIN s.reg /\ r \in DOMAIN t.reg  BY DEF Even, Agree
  <2>2. r \in DOMAIN u.reg /\ r \in DOMAIN v.reg  BY <1>3, <2>1 DEF TiedAs
  <2>3. u.reg[r] = RegisterAfter(s, i, r) /\ v.reg[r] = RegisterAfter(t, j, r)
    BY <1>3, <2>1 DEF TiedAs
  <2> QED BY <1>6, <2>2, <2>3
<1>10. ASSUME NEW x \in Z \ {z}
       PROVE  x \in DOMAIN u.mem /\ x \in DOMAIN v.mem /\ u.mem[x] = v.mem[x]
  <2>1. x \in DOMAIN s.mem /\ x \in DOMAIN t.mem  BY DEF Even, Agree
  <2>2. x \in DOMAIN u.mem /\ x \in DOMAIN v.mem  BY <1>3, <2>1 DEF TiedAs
  <2>3. u.mem[x] = SlotAfter(s, i, x) /\ v.mem[x] = SlotAfter(t, j, x)
    BY <1>3, <2>1 DEF TiedAs
  <2> QED BY <1>5, <2>2, <2>3
<1>11. /\ Level(u, n, z) /\ n \in DOMAIN v.reg /\ m \in DOMAIN v.reg /\ z \in DOMAIN v.mem
       /\ u.mem[z] = RegisterAfter(s, i, n) /\ v.reg[m] = RegisterAfter(t, j, m)
  <2>1. /\ n \in DOMAIN s.reg /\ z \in DOMAIN s.mem /\ n \in DOMAIN t.reg /\ z \in DOMAIN t.mem
        /\ m \in DOMAIN t.reg
    BY DEF Even, Level, Agree
  <2>2. u.reg[n] = RegisterAfter(s, i, n) /\ u.mem[z] = RegisterAfter(s, i, n)
    BY <1>3, <2>1 DEF TiedAs
  <2>3. v.reg[m] = RegisterAfter(t, j, m)  BY <1>3, <2>1 DEF TiedAs
  <2> QED BY <1>3, <2>1, <2>2, <2>3 DEF TiedAs, Level
<1>12. Agree(u, v, Nat \ {n, m}, Z \ {z})  BY <1>8, <1>9, <1>10 DEF Agree
<1> QED BY <1>7, <1>11, <1>12 DEF Held, u, v, j, d, e

\* A store of m, and a load of it.
IsStore(j, m, z) == \E o : /\ Range(j.ops) = {o} /\ o.kind = "store" /\ o.dest = None
                           /\ o.srcs = <<m>> /\ o.slot = z
IsLoad(j, m, z) == \E o : /\ Range(j.ops) = {o} /\ o.kind = "load" /\ o.dest = m
                          /\ o.srcs = <<>> /\ o.slot = z

LEMMA Stored ==
    ASSUME NEW n \in Nat, NEW m \in Nat, n # m, NEW Z, NEW z \in Z, NEW j, IsStore(j, m, z),
           NEW s, NEW t, Held(s, t, Z, n, m, z)
    PROVE  Even(s, TiedExecute(t, j, n, z), Z, n, m, z)
<1> DEFINE v == TiedExecute(t, j, n, z)
<1>1. TiedAs(t, j, n, z, v)  BY TiedExecuted
<1> HIDE DEF v
<1>2. PICK o : /\ Range(j.ops) = {o} /\ o.kind = "store" /\ o.dest = None
               /\ o.srcs = <<m>> /\ o.slot = z
  BY DEF IsStore
<1>3. ReadBy(t, j) = {}  BY <1>2 DEF ReadBy
<1>4. \A r : Writers(j, r) = {}  BY <1>2 DEF Writers
<1>5. \A x : x # z => Storing(j, x) = {}  BY <1>2 DEF Storing
<1>6. SlotAfter(t, j, z) = t.reg[m] /\ Storing(j, z) # {}
  <2>1. Storing(j, z) = {o}  BY <1>2 DEF Storing
  <2>2. Alone({o}) /\ (CHOOSE p \in {o} : TRUE) = o  BY DEF Alone
  <2>3. ReadOf(t, o)[1] = t.reg[m]
    <3>1. DOMAIN o.srcs = 1..1 /\ o.srcs[1] = m  BY <1>2
    <3> QED BY <3>1 DEF ReadOf
  <2> QED BY <2>1, <2>2, <2>3 DEF SlotAfter
<1>7. v.read = t.read  BY <1>1, <1>3 DEF TiedAs
<1>8. ASSUME NEW r \in Nat \ {m}
      PROVE  r \in DOMAIN s.reg /\ r \in DOMAIN v.reg /\ s.reg[r] = v.reg[r]
  <2>1. r \in DOMAIN s.reg /\ r \in DOMAIN t.reg  BY DEF Held, Level, Agree
  <2>2. CASE r = n  BY <1>1, <1>6, <2>1, <2>2 DEF TiedAs, Held, Level
  <2>3. CASE r # n
    <3>1. v.reg[r] = t.reg[r]  BY <1>1, <1>4, <2>1, <2>3 DEF TiedAs, RegisterAfter
    <3> QED BY <1>1, <2>1, <2>3, <3>1 DEF TiedAs, Held, Agree
  <2> QED BY <2>2, <2>3
<1>9. ASSUME NEW x \in Z PROVE x \in DOMAIN s.mem /\ x \in DOMAIN v.mem /\ s.mem[x] = v.mem[x]
  <2>1. x \in DOMAIN s.mem /\ x \in DOMAIN t.mem  BY DEF Held, Level, Agree
  <2>2. CASE x = z  BY <1>1, <1>6, <2>1, <2>2 DEF TiedAs, Held
  <2>3. CASE x # z
    <3>1. v.mem[x] = t.mem[x]  BY <1>1, <1>5, <2>1, <2>3 DEF TiedAs, SlotAfter
    <3> QED BY <1>1, <2>1, <2>3, <3>1 DEF TiedAs, Held, Agree
  <2> QED BY <2>2, <2>3
<1>10. m \in DOMAIN v.reg /\ Level(s, n, z) /\ s.read = t.read  BY <1>1 DEF TiedAs, Held, Agree
<1>11. Agree(s, v, Nat \ {m}, Z)  BY <1>7, <1>8, <1>9, <1>10 DEF Agree
<1> QED BY <1>10, <1>11 DEF Even, v

LEMMA Reloaded ==
    ASSUME NEW n \in Nat, NEW m \in Nat, n # m, NEW Z, NEW z \in Z, NEW j, IsLoad(j, m, z),
           NEW s, NEW t, Even(s, t, Z, n, m, z)
    PROVE  Loaded(s, TiedExecute(t, j, n, z), Z, n, m, z)
<1> DEFINE v == TiedExecute(t, j, n, z)
<1>1. TiedAs(t, j, n, z, v)  BY TiedExecuted
<1> HIDE DEF v
<1>2. PICK o : /\ Range(j.ops) = {o} /\ o.kind = "load" /\ o.dest = m
               /\ o.srcs = <<>> /\ o.slot = z
  BY DEF IsLoad
<1>3. ReadBy(t, j) = {}  BY <1>2 DEF ReadBy
<1>4. \A r : r # m => Writers(j, r) = {}  BY <1>2 DEF Writers
<1>5. \A x : Storing(j, x) = {}  BY <1>2 DEF Storing
<1>6. RegisterAfter(t, j, m) = t.mem[z]
  <2>1. Writers(j, m) = {o}  BY <1>2 DEF Writers, None
  <2>2. Alone({o}) /\ (CHOOSE p \in {o} : TRUE) = o  BY DEF Alone
  <2>3. ResultOf(t, o) = t.mem[z]  BY <1>2 DEF ResultOf
  <2> QED BY <2>1, <2>2, <2>3 DEF RegisterAfter
<1>7. v.read = t.read  BY <1>1, <1>3 DEF TiedAs
<1>8. ASSUME NEW r \in Nat \ {m}
      PROVE  r \in DOMAIN s.reg /\ r \in DOMAIN v.reg /\ s.reg[r] = v.reg[r]
  <2>1. r \in DOMAIN s.reg /\ r \in DOMAIN t.reg  BY DEF Even, Agree
  <2>2. v.reg[r] = t.reg[r]  BY <1>1, <1>4, <1>5, <2>1 DEF TiedAs, RegisterAfter
  <2> QED BY <1>1, <2>1, <2>2 DEF TiedAs, Even, Agree
<1>9. ASSUME NEW x \in Z PROVE x \in DOMAIN s.mem /\ x \in DOMAIN v.mem /\ s.mem[x] = v.mem[x]
  <2>1. x \in DOMAIN s.mem /\ x \in DOMAIN t.mem  BY DEF Even, Agree
  <2>2. CASE x = z
    <3>1. v.mem[x] = t.reg[n]  BY <1>1, <1>4, <1>5, <2>1, <2>2 DEF TiedAs, RegisterAfter
    <3> QED BY <1>1, <2>1, <2>2, <3>1 DEF TiedAs, Even, Agree, Level
  <2>3. CASE x # z
    <3>1. v.mem[x] = t.mem[x]  BY <1>1, <1>5, <2>1, <2>3 DEF TiedAs, SlotAfter
    <3> QED BY <1>1, <2>1, <3>1 DEF TiedAs, Even, Agree
  <2> QED BY <2>2, <2>3
<1>10. m \in DOMAIN v.reg /\ Level(s, n, z) /\ s.read = t.read  BY <1>1 DEF TiedAs, Even, Agree
<1>11. v.reg[m] = s.reg[n]
  <2>1. v.reg[m] = t.mem[z]  BY <1>1, <1>5, <1>6 DEF TiedAs, Even
  <2> QED BY <2>1 DEF Even, Agree, Level
<1>12. Agree(s, v, Nat \ {m}, Z)  BY <1>7, <1>8, <1>9, <1>10 DEF Agree
<1> QED BY <1>10, <1>11, <1>12 DEF Loaded, Even, v

\* A run of instructions one of which was inserted: up to its place, and from there.
InsertedRunIn(t, q, p, e, n, z, l) ==
    \E g, h :
      /\ g[0] = t /\ \A k \in 1..(p - 1) : g[k] = TiedExecute(g[k - 1], q[k], n, z)
      /\ h[p - 1] = TiedExecute(g[p - 1], e, n, z)
      /\ \A k \in p..l : h[k] = TiedExecute(h[k - 1], q[k], n, z)
      /\ TiedRun(t, InsertAt(q, p, e), n, z) = h[l]

LEMMA InsertedRun ==
    ASSUME NEW S, NEW q \in Seq(S), NEW e \in S, NEW l \in Nat, l = Len(q), NEW p \in 1..(l + 1),
           NEW t, NEW n, NEW z
    PROVE  InsertedRunIn(t, q, p, e, n, z, l)
<1> DEFINE r == InsertAt(q, p, e)
<1>1. /\ Len(r) = l + 1 /\ r[p] = e /\ \A j \in 1..(p - 1) : r[j] = q[j]
      /\ \A j \in p..l : r[j + 1] = q[j]
  BY InsertedPlaces
<1> HIDE DEF r
<1>2. PICK g : /\ g[0] = t /\ TiedRun(t, r, n, z) = g[l + 1]
               /\ \A k \in 1..(l + 1) : g[k] = TiedExecute(g[k - 1], r[k], n, z)
  <2>1. TiedRunsIn(t, r, n, z, l + 1)
    <3>1. l + 1 \in Nat  OBVIOUS
    <3> QED BY <1>1, <3>1, TiedRunSteps
  <2> QED BY <2>1 DEF TiedRunsIn
<1> DEFINE h == [k \in (p - 1)..l |-> g[k + 1]]
<1>3. ASSUME NEW k \in 1..(p - 1) PROVE g[k] = TiedExecute(g[k - 1], q[k], n, z)
  <2>1. k \in 1..(l + 1)  OBVIOUS
  <2> QED BY <1>1, <1>2, <2>1
<1>4. h[p - 1] = TiedExecute(g[p - 1], e, n, z)
  <2>1. p - 1 \in (p - 1)..l /\ p - 1 + 1 = p  OBVIOUS
  <2>2. h[p - 1] = g[p]  BY <2>1
  <2> QED BY <1>1, <1>2, <2>2
<1>5. ASSUME NEW k \in p..l PROVE h[k] = TiedExecute(h[k - 1], q[k], n, z)
  <2>1. /\ k \in (p - 1)..l /\ k - 1 \in (p - 1)..l /\ k - 1 + 1 = k
        /\ k + 1 \in 1..(l + 1) /\ k + 1 - 1 = k
    OBVIOUS
  <2>2. h[k] = g[k + 1] /\ h[k - 1] = g[k]  BY <2>1
  <2>3. g[k + 1] = TiedExecute(g[k + 1 - 1], r[k + 1], n, z)  BY <1>2, <2>1
  <2> QED BY <1>1, <2>1, <2>2, <2>3
<1>6. h[l] = g[l + 1]
  <2>1. l \in (p - 1)..l  OBVIOUS
  <2> QED BY <2>1
<1> HIDE DEF h
<1>7. TiedRun(t, r, n, z) = h[l]  BY <1>2, <1>6
<1> QED BY <1>2, <1>3, <1>4, <1>5, <1>7 DEF InsertedRunIn, r

\* A stretch of a block, none of whose instructions is split.
Stretch(q, r, a, c, N, Z, defs, uses, n, m) ==
    \A k \in (a + 1)..c :
        /\ q[k] \in InstrOver(N) /\ OpsApart(q[k]) /\ SlotsIn(q[k], Z)
        /\ r[k] = NewInstr(q[k], defs, uses, n, m) /\ q[k].id \notin defs /\ q[k].id \notin uses
StepsOn(f, q, a, c, n, z) == \A k \in (a + 1)..c : f[k] = TiedExecute(f[k - 1], q[k], n, z)

LEMMA EvenStretch ==
    ASSUME NEW N, N \subseteq Nat, NEW Z, NEW n \in N, NEW m, m \notin N, NEW z \in Z,
           NEW c \in Nat, NEW a \in 0..c, NEW q, NEW r, NEW defs, NEW uses,
           Stretch(q, r, a, c, N, Z, defs, uses, n, m),
           NEW f, StepsOn(f, q, a, c, n, z), NEW g, StepsOn(g, r, a, c, n, z),
           Even(f[a], g[a], Z, n, m, z)
    PROVE  Even(f[c], g[c], Z, n, m, z)
<1> DEFINE G == {k \in 0..c : a <= k => Even(f[k], g[k], Z, n, m, z)}
<1>1. 0 \in G  OBVIOUS
<1>2. ASSUME NEW k \in 1..c, k - 1 \in G PROVE k \in G
  <2>1. CASE ~(a <= k - 1)
    <3>1. a <= k => k = a  BY <2>1
    <3> QED BY <3>1
  <2>2. CASE a <= k - 1
    <3> DEFINE i == q[k]
               u == f[k - 1]
               v == g[k - 1]
    <3>1. k \in (a + 1)..c /\ k \in 0..c  BY <2>2
    <3>2. Even(u, v, Z, n, m, z)  BY <1>2, <2>2
    <3>3. i \in InstrOver(N) /\ OpsApart(i) /\ SlotsIn(i, Z) /\ i.id \notin defs /\ i.id \notin uses
      BY <3>1 DEF Stretch
    <3>4. f[k] = TiedExecute(u, i, n, z) /\ g[k] = TiedExecute(v, NewInstr(i, defs, uses, n, m), n, z)
      BY <3>1 DEF Stretch, StepsOn
    <3> HIDE DEF i, u, v
    <3>5. Even(TiedExecute(u, i, n, z), TiedExecute(v, NewInstr(i, defs, uses, n, m), n, z),
               Z, n, m, z)
      BY <3>2, <3>3, RenamedUses
    <3> QED BY <3>1, <3>4, <3>5
  <2> QED BY <2>1, <2>2
<1>3. c \in G
  <2>1. c \in 0..c  OBVIOUS
  <2> HIDE DEF G
  <2>2. 0..c \subseteq G  BY <1>1, <1>2, Upwards
  <2> QED BY <2>1, <2>2
<1> QED BY <1>3

\* A block and the block after the split.
SplitFrom(q, r, l, N, Z, defs, uses, n, m) ==
    /\ q \in Seq(InstrOver(N)) /\ l = Len(q) /\ l = Len(r)
    /\ \A k \in 1..l : /\ q[k] \in InstrOver(N) /\ OpsApart(q[k]) /\ SlotsIn(q[k], Z)
                       /\ r[k] = NewInstr(q[k], defs, uses, n, m)

LEMMA PlainBlock ==
    ASSUME NEW N, N \subseteq Nat, NEW Z, NEW n \in N, NEW m, m \notin N, NEW z \in Z,
           NEW l \in Nat, NEW q, NEW r, NEW defs, NEW uses,
           SplitFrom(q, r, l, N, Z, defs, uses, n, m),
           \A k \in 1..l : q[k].id \notin defs /\ q[k].id \notin uses,
           NEW s, NEW t, Even(s, t, Z, n, m, z)
    PROVE  Even(TiedRun(s, q, n, z), TiedRun(t, r, n, z), Z, n, m, z)
<1>1. PICK f : f[0] = s /\ TiedRun(s, q, n, z) = f[l] /\ StepsOn(f, q, 0, l, n, z)
  <2>1. TiedRunsIn(s, q, n, z, l)  BY TiedRunSteps DEF SplitFrom
  <2> QED BY <2>1 DEF TiedRunsIn, StepsOn
<1>2. PICK g : g[0] = t /\ TiedRun(t, r, n, z) = g[l] /\ StepsOn(g, r, 0, l, n, z)
  <2>1. TiedRunsIn(t, r, n, z, l)  BY TiedRunSteps DEF SplitFrom
  <2> QED BY <2>1 DEF TiedRunsIn, StepsOn
<1>3. Stretch(q, r, 0, l, N, Z, defs, uses, n, m)  BY DEF Stretch, SplitFrom
<1>4. 0 \in 0..l /\ Even(f[0], g[0], Z, n, m, z)  BY <1>1, <1>2
<1>5. Even(f[l], g[l], Z, n, m, z)  BY <1>1, <1>2, <1>3, <1>4, EvenStretch
<1> QED BY <1>1, <1>2, <1>5

\* The instruction with this id, at place p and nowhere else, defines n.
DefinesAt(q, l, p, id, n, z) ==
    /\ p \in 1..l /\ \A k \in 1..l : q[k].id = id => k = p
    /\ q[p].id = id /\ n \in Defs(q[p]) /\ Storing(q[p], z) = {}

LEMMA LastBlock ==
    ASSUME NEW N, N \subseteq Nat, NEW Z, NEW n \in N, NEW m \in Nat, m \notin N, NEW z \in Z,
           NEW l \in Nat, NEW q, NEW r, NEW id, SplitFrom(q, r, l, N, Z, {id}, {}, n, m),
           DefinesAt(q, l, l, id, n, z), NEW s, NEW t, Even(s, t, Z, n, m, z)
    PROVE  Held(TiedRun(s, q, n, z), TiedRun(t, r, n, z), Z, n, m, z)
<1> DEFINE d == {id}
           e == {}
<1>1. PICK f : f[0] = s /\ TiedRun(s, q, n, z) = f[l] /\ StepsOn(f, q, 0, l, n, z)
  <2>1. TiedRunsIn(s, q, n, z, l)  BY TiedRunSteps DEF SplitFrom
  <2> QED BY <2>1 DEF TiedRunsIn, StepsOn
<1>2. PICK g : g[0] = t /\ TiedRun(t, r, n, z) = g[l] /\ StepsOn(g, r, 0, l, n, z)
  <2>1. TiedRunsIn(t, r, n, z, l)  BY TiedRunSteps DEF SplitFrom
  <2> QED BY <2>1 DEF TiedRunsIn, StepsOn
<1>3. /\ l - 1 \in Nat /\ 0 \in 0..(l - 1) /\ l \in (0 + 1)..l
      /\ \A k \in (0 + 1)..(l - 1) : k \in (0 + 1)..l /\ k # l
  BY DEF DefinesAt
<1>4. Stretch(q, r, 0, l - 1, N, Z, d, e, n, m)
  <2>1. ASSUME NEW k \in (0 + 1)..(l - 1) PROVE k \in 1..l /\ q[k].id # id
    <3>1. k \in 1..l /\ k # l  BY <1>3
    <3> QED BY <3>1 DEF DefinesAt
  <2> QED BY <2>1 DEF Stretch, SplitFrom
<1>5. StepsOn(f, q, 0, l - 1, n, z) /\ StepsOn(g, r, 0, l - 1, n, z)
  BY <1>1, <1>2, <1>3 DEF StepsOn
<1> DEFINE u == f[l - 1]
           v == g[l - 1]
           i == q[l]
<1>6. Even(u, v, Z, n, m, z)
  <2>1. Even(f[0], g[0], Z, n, m, z)  BY <1>1, <1>2
  <2> HIDE DEF d, e
  <2> QED BY <1>3, <1>4, <1>5, <2>1, EvenStretch
<1>7. /\ i \in InstrOver(N) /\ OpsApart(i) /\ SlotsIn(i, Z) /\ i.id = id
      /\ Storing(i, z) = {} /\ n \in Defs(i) /\ r[l] = NewInstr(i, {i.id}, {}, n, m)
  BY <1>3 DEF SplitFrom, DefinesAt
<1>8. f[l] = TiedExecute(u, i, n, z) /\ g[l] = TiedExecute(v, r[l], n, z)
  BY <1>1, <1>2, <1>3 DEF StepsOn
<1> HIDE DEF u, v, i
<1>9. Held(TiedExecute(u, i, n, z), TiedExecute(v, NewInstr(i, {i.id}, {}, n, m), n, z), Z, n, m, z)
  BY <1>6, <1>7, RenamedDef
<1> QED BY <1>1, <1>2, <1>7, <1>8, <1>9

\* The store follows the definition.
LEMMA DefBlock ==
    ASSUME NEW N, N \subseteq Nat, NEW Z, NEW n \in N, NEW m \in Nat, m \notin N, NEW z \in Z,
           NEW l \in Nat, NEW q, NEW r, NEW id, SplitFrom(q, r, l, N, Z, {id}, {}, n, m),
           NEW p, DefinesAt(q, l, p, id, n, z), NEW S, r \in Seq(S), NEW j \in S, IsStore(j, m, z),
           NEW s, NEW t, Even(s, t, Z, n, m, z)
    PROVE  Even(TiedRun(s, q, n, z), TiedRun(t, InsertAt(r, p + 1, j), n, z), Z, n, m, z)
<1> DEFINE d == {id}
           e == {}
           y == p + 1
<1>1. PICK f : f[0] = s /\ TiedRun(s, q, n, z) = f[l] /\ StepsOn(f, q, 0, l, n, z)
  <2>1. TiedRunsIn(s, q, n, z, l)  BY TiedRunSteps DEF SplitFrom
  <2> QED BY <2>1 DEF TiedRunsIn, StepsOn
<1>2. /\ p \in 1..l /\ p - 1 \in Nat /\ 0 \in 0..(p - 1) /\ p \in (0 + 1)..l /\ p \in 0..l
      /\ y \in 1..(l + 1) /\ p + 1 - 1 = p /\ p \in 1..p /\ p \in Nat
      /\ \A k \in (0 + 1)..(p - 1) : k \in (0 + 1)..l /\ k \in 1..p /\ k # p
      /\ \A k \in (p + 1)..l : k \in (0 + 1)..l /\ k # p
  BY DEF DefinesAt
<1>3. PICK g, h :
        /\ g[0] = t /\ \A k \in 1..p : g[k] = TiedExecute(g[k - 1], r[k], n, z)
        /\ h[p] = TiedExecute(g[p], j, n, z)
        /\ \A k \in (p + 1)..l : h[k] = TiedExecute(h[k - 1], r[k], n, z)
        /\ TiedRun(t, InsertAt(r, p + 1, j), n, z) = h[l]
  <2>1. l = Len(r)  BY DEF SplitFrom
  <2> HIDE DEF y
  <2>2. InsertedRunIn(t, r, y, j, n, z, l)  BY <1>2, <2>1, InsertedRun
  <2>3. y - 1 = p /\ y = p + 1  BY <1>2 DEF y
  <2> QED BY <2>2, <2>3 DEF InsertedRunIn
<1>4. Stretch(q, r, 0, p - 1, N, Z, d, e, n, m)
  <2>1. ASSUME NEW k \in (0 + 1)..(p - 1) PROVE k \in 1..l /\ q[k].id # id
    <3>1. k \in 1..l /\ k # p  BY <1>2
    <3> QED BY <3>1 DEF DefinesAt
  <2> QED BY <2>1 DEF Stretch, SplitFrom
<1>5. StepsOn(f, q, 0, p - 1, n, z) /\ StepsOn(g, r, 0, p - 1, n, z)
  BY <1>1, <1>2, <1>3 DEF StepsOn
<1> DEFINE u == f[p - 1]
           v == g[p - 1]
           i == q[p]
<1>6. Even(u, v, Z, n, m, z)
  <2>1. Even(f[0], g[0], Z, n, m, z)  BY <1>1, <1>3
  <2> HIDE DEF d, e
  <2> QED BY <1>2, <1>4, <1>5, <2>1, EvenStretch
<1>7. /\ i \in InstrOver(N) /\ OpsApart(i) /\ SlotsIn(i, Z) /\ i.id = id
      /\ Storing(i, z) = {} /\ n \in Defs(i) /\ r[p] = NewInstr(i, {i.id}, {}, n, m)
  BY <1>2 DEF SplitFrom, DefinesAt
<1>8. f[p] = TiedExecute(u, i, n, z) /\ g[p] = TiedExecute(v, r[p], n, z)
  BY <1>1, <1>2, <1>3 DEF StepsOn
<1> HIDE DEF u, v, i
<1>9. Held(f[p], g[p], Z, n, m, z)
  <2>1. Held(TiedExecute(u, i, n, z), TiedExecute(v, NewInstr(i, {i.id}, {}, n, m), n, z), Z, n, m, z)
    BY <1>6, <1>7, RenamedDef
  <2> QED BY <1>7, <1>8, <2>1
<1>10. Even(f[p], h[p], Z, n, m, z)
  <2>1. n \in Nat /\ n # m  OBVIOUS
  <2> QED BY <1>3, <1>9, <2>1, Stored
<1>11. Stretch(q, r, p, l, N, Z, d, e, n, m)
  <2>1. ASSUME NEW k \in (p + 1)..l PROVE k \in 1..l /\ q[k].id # id
    <3>1. k \in 1..l /\ k # p  BY <1>2
    <3> QED BY <3>1 DEF DefinesAt
  <2> QED BY <2>1 DEF Stretch, SplitFrom
<1>12. StepsOn(f, q, p, l, n, z) /\ StepsOn(h, r, p, l, n, z)
  BY <1>1, <1>2, <1>3 DEF StepsOn
<1>13. Even(f[l], h[l], Z, n, m, z)
  <2> HIDE DEF d, e
  <2> QED BY <1>2, <1>10, <1>11, <1>12, EvenStretch
<1> QED BY <1>1, <1>3, <1>13

\* The load comes before the use.
LEMMA UseBlock ==
    ASSUME NEW N, N \subseteq Nat, NEW Z, NEW n \in N, NEW m \in Nat, m \notin N, NEW z \in Z,
           NEW l \in Nat, NEW q, NEW r, NEW id, SplitFrom(q, r, l, N, Z, {}, {id}, n, m),
           NEW p \in 1..l, q[p].id = id, \A k \in 1..l : q[k].id = id => k = p,
           NEW S, r \in Seq(S), NEW j \in S, IsLoad(j, m, z),
           NEW s, NEW t, Even(s, t, Z, n, m, z)
    PROVE  Even(TiedRun(s, q, n, z), TiedRun(t, InsertAt(r, p, j), n, z), Z, n, m, z)
<1> DEFINE d == {}
           e == {id}
<1>1. PICK f : f[0] = s /\ TiedRun(s, q, n, z) = f[l] /\ StepsOn(f, q, 0, l, n, z)
  <2>1. TiedRunsIn(s, q, n, z, l)  BY TiedRunSteps DEF SplitFrom
  <2> QED BY <2>1 DEF TiedRunsIn, StepsOn
<1>2. /\ p - 1 \in Nat /\ 0 \in 0..(p - 1) /\ p \in (0 + 1)..l /\ p \in 0..l /\ p \in p..l
      /\ p \in 1..(l + 1)
      /\ \A k \in (0 + 1)..(p - 1) : k \in 1..l /\ k \in 1..(p - 1) /\ k # p
      /\ \A k \in (p + 1)..l : k \in p..l /\ k \in 1..l /\ k # p
  OBVIOUS
<1>3. PICK g, h :
        /\ g[0] = t /\ \A k \in 1..(p - 1) : g[k] = TiedExecute(g[k - 1], r[k], n, z)
        /\ h[p - 1] = TiedExecute(g[p - 1], j, n, z)
        /\ \A k \in p..l : h[k] = TiedExecute(h[k - 1], r[k], n, z)
        /\ TiedRun(t, InsertAt(r, p, j), n, z) = h[l]
  <2>1. l = Len(r)  BY DEF SplitFrom
  <2>2. InsertedRunIn(t, r, p, j, n, z, l)  BY <1>2, <2>1, InsertedRun
  <2> QED BY <2>2 DEF InsertedRunIn
<1>4. Stretch(q, r, 0, p - 1, N, Z, d, e, n, m)
  <2>1. ASSUME NEW k \in (0 + 1)..(p - 1) PROVE k \in 1..l /\ q[k].id # id  BY <1>2
  <2> QED BY <2>1 DEF Stretch, SplitFrom
<1>5. StepsOn(f, q, 0, p - 1, n, z) /\ StepsOn(g, r, 0, p - 1, n, z)
  BY <1>1, <1>2, <1>3 DEF StepsOn
<1> DEFINE u == f[p - 1]
           v == g[p - 1]
           w == h[p - 1]
           i == q[p]
<1>6. Even(u, v, Z, n, m, z)
  <2>1. Even(f[0], g[0], Z, n, m, z)  BY <1>1, <1>3
  <2> HIDE DEF d, e
  <2> QED BY <1>2, <1>4, <1>5, <2>1, EvenStretch
<1>7. i \in InstrOver(N) /\ OpsApart(i) /\ SlotsIn(i, Z) /\ i.id \notin d /\ r[p] = NewInstr(i, d, e, n, m)
  BY <1>2 DEF SplitFrom
<1>8. f[p] = TiedExecute(u, i, n, z) /\ h[p] = TiedExecute(w, r[p], n, z) /\ w = TiedExecute(v, j, n, z)
  BY <1>1, <1>2, <1>3 DEF StepsOn
<1> HIDE DEF u, v, w, i, d, e
<1>9. Loaded(u, w, Z, n, m, z)
  <2>1. n \in Nat /\ n # m  OBVIOUS
  <2> QED BY <1>6, <1>8, <2>1, Reloaded
<1>10. Even(f[p], h[p], Z, n, m, z)
  <2>1. Even(u, w, Z, n, m, z) /\ w.reg[m] = u.reg[n]  BY <1>9 DEF Loaded
  <2>2. Even(TiedExecute(u, i, n, z), TiedExecute(w, NewInstr(i, d, e, n, m), n, z), Z, n, m, z)
    BY <1>7, <2>1, RenamedUses
  <2> QED BY <1>7, <1>8, <2>2
<1>11. Stretch(q, r, p, l, N, Z, d, e, n, m)
  <2>1. ASSUME NEW k \in (p + 1)..l PROVE k \in 1..l /\ q[k].id # id  BY <1>2
  <2> QED BY <2>1 DEF Stretch, SplitFrom, d, e
<1>12. StepsOn(f, q, p, l, n, z) /\ StepsOn(h, r, p, l, n, z)
  BY <1>1, <1>2, <1>3 DEF StepsOn
<1>13. Even(f[l], h[l], Z, n, m, z)
  BY <1>2, <1>10, <1>11, <1>12, EvenStretch
<1> QED BY <1>1, <1>3, <1>13

\* An instruction at the head of a block runs before the block.
LEMMA HeadRun ==
    ASSUME NEW S, NEW r \in Seq(S), NEW j \in S, NEW t, NEW n, NEW z
    PROVE  TiedRun(t, InsertAt(r, 1, j), n, z) = TiedRun(TiedExecute(t, j, n, z), r, n, z)
<1> DEFINE u == TiedExecute(t, j, n, z)
<1>1. PICK l \in Nat : l = Len(r)  BY LenProperties
<1>2. PICK g, h :
        /\ g[0] = t /\ h[0] = TiedExecute(g[0], j, n, z)
        /\ \A k \in 1..l : h[k] = TiedExecute(h[k - 1], r[k], n, z)
        /\ TiedRun(t, InsertAt(r, 1, j), n, z) = h[l]
  <2> DEFINE p == 1
  <2>1. p \in 1..(l + 1) /\ p - 1 = 0 /\ p = 1  OBVIOUS
  <2> HIDE DEF p
  <2>2. InsertedRunIn(t, r, p, j, n, z, l)  BY <1>1, <2>1, InsertedRun
  <2> QED BY <2>1, <2>2 DEF InsertedRunIn
<1>3. PICK f : /\ f[0] = u /\ TiedRun(u, r, n, z) = f[l]
               /\ \A k \in 1..l : f[k] = TiedExecute(f[k - 1], r[k], n, z)
  <2> HIDE DEF u
  <2>1. TiedRunsIn(u, r, n, z, l)  BY <1>1, TiedRunSteps
  <2> QED BY <2>1 DEF TiedRunsIn
<1> DEFINE G == {k \in 0..l : f[k] = h[k]}
<1>4. 0 \in G  BY <1>2, <1>3
<1>5. ASSUME NEW k \in 1..l, k - 1 \in G PROVE k \in G
  BY <1>2, <1>3, <1>5
<1>6. l \in G
  <2>1. l \in 0..l  OBVIOUS
  <2> HIDE DEF G
  <2>2. 0..l \subseteq G  BY <1>4, <1>5, Upwards
  <2> QED BY <2>1, <2>2
<1> QED BY <1>2, <1>3, <1>6

\* The value of n is held in m between the blocks Tails and the blocks Heads.
Between(B, b, s, t, Z, n, m, z) ==
    IF b \in B THEN Held(s, t, Z, n, m, z) ELSE Even(s, t, Z, n, m, z)
Paired(Heads, Tails) == \A c \in Block : \A d \in Succ[c] : c \in Tails <=> d \in Heads
SplitBlocks(cd, ce, Heads, Tails, Z, n, m, z) ==
    \A b \in Block : \A s, t : Between(Heads, b, s, t, Z, n, m, z) =>
        Between(Tails, b, TiedRun(s, cd[b], n, z), TiedRun(t, ce[b], n, z), Z, n, m, z)

LEMMA SplitMeans ==
    ASSUME NEW cd, NEW ce, NEW Heads, NEW Tails, NEW Z, NEW n, NEW m, NEW z, Paired(Heads, Tails),
           SplitBlocks(cd, ce, Heads, Tails, Z, n, m, z),
           NEW st, Even(st, st, Z, n, m, z), Held(st, st, Z, n, m, z), NEW way \in Ways
    PROVE  TiedMeaning(st, ce, way, n, z) = TiedMeaning(st, cd, way, n, z)
<1>1. PICK l \in Nat : l = Len(way) /\ \A k \in 1..l : way[k] \in Block
  <2>1. way \in Seq(Block)  BY WaysAssumption
  <2> QED BY <2>1, LenProperties, ElementOfSeq
<1>2. PICK f : /\ f[0] = st /\ TiedMeaning(st, cd, way, n, z) = f[l].read
               /\ \A k \in 1..l : f[k] = TiedRun(f[k - 1], cd[way[k]], n, z)
  <2>1. TiedMeansIn(st, cd, way, n, z, l)  BY <1>1, TiedMeaningSteps
  <2> QED BY <2>1 DEF TiedMeansIn
<1>3. PICK g : /\ g[0] = st /\ TiedMeaning(st, ce, way, n, z) = g[l].read
               /\ \A k \in 1..l : g[k] = TiedRun(g[k - 1], ce[way[k]], n, z)
  <2>1. TiedMeansIn(st, ce, way, n, z, l)  BY <1>1, TiedMeaningSteps
  <2> QED BY <2>1 DEF TiedMeansIn
<1> DEFINE Fits(k) == Between(Tails, way[k], f[k], g[k], Z, n, m, z)
           G == {k \in 0..l : k # 0 => Fits(k)}
<1>4. 0 \in G  OBVIOUS
<1>5. ASSUME NEW k \in 1..l, k - 1 \in G PROVE k \in G
  <2> DEFINE b == way[k]
             u == f[k - 1]
             v == g[k - 1]
  <2>1. b \in Block /\ k \in 0..l  BY <1>1
  <2>2. f[k] = TiedRun(u, cd[b], n, z) /\ g[k] = TiedRun(v, ce[b], n, z)  BY <1>2, <1>3
  <2>3. Between(Heads, b, u, v, Z, n, m, z)
    <3>1. CASE k = 1
      <4>1. u = st /\ v = st  BY <1>2, <1>3, <3>1
      <4> QED BY <4>1 DEF Between
    <3>2. CASE k # 1
      <4> DEFINE c == way[k - 1]
      <4>1. k - 1 \in 1..l /\ k - 1 # 0 /\ k \in 2..l  BY <3>2
      <4>2. c \in Block /\ b \in Succ[c]  BY <1>1, <4>1, WaysAssumption
      <4>3. Between(Tails, c, u, v, Z, n, m, z)  BY <1>5, <4>1
      <4>4. c \in Tails <=> b \in Heads  BY <4>2 DEF Paired
      <4> QED BY <4>3, <4>4 DEF Between
    <3> QED BY <3>1, <3>2
  <2>4. Fits(k)
    <3> HIDE DEF u, v
    <3>1. Between(Tails, b, TiedRun(u, cd[b], n, z), TiedRun(v, ce[b], n, z), Z, n, m, z)
      BY <2>1, <2>3 DEF SplitBlocks
    <3> QED BY <2>2, <3>1
  <2> HIDE DEF Fits
  <2> QED BY <2>1, <2>4
<1>6. l \in G
  <2>1. l \in 0..l  OBVIOUS
  <2> HIDE DEF G
  <2>2. 0..l \subseteq G  BY <1>4, <1>5, Upwards
  <2> QED BY <2>1, <2>2
<1>7. CASE l = 0  BY <1>2, <1>3, <1>7
<1>8. CASE l # 0
  <2>1. Between(Tails, way[l], f[l], g[l], Z, n, m, z)  BY <1>6, <1>8
  <2>2. f[l].read = g[l].read  BY <2>1 DEF Between, Even, Held, Agree
  <2> QED BY <1>2, <1>3, <2>2
<1> QED BY <1>7, <1>8

LEMMA MemoryIs ==
    ASSUME NEW id, NEW m
    PROVE  /\ IsStore(Memory(id, "store", None, <<m>>), m, slots)
           /\ IsLoad(Memory(id, "load", m, <<>>), m, slots)
<1> DEFINE o == [id |-> id, kind |-> "store", dest |-> None, srcs |-> <<m>>, slot |-> slots]
           p == [id |-> id, kind |-> "load", dest |-> m, srcs |-> <<>>, slot |-> slots]
<1>1. Memory(id, "store", None, <<m>>).ops = <<o>> /\ Memory(id, "load", m, <<>>).ops = <<p>>
  BY DEF Memory
<1>2. Range(<<o>>) = {o} /\ Range(<<p>>) = {p}
  <2> HIDE DEF o, p
  <2>1. ASSUME NEW x PROVE Range(<<x>>) = {x}
    <3>1. DOMAIN <<x>> = {1} /\ <<x>>[1] = x  OBVIOUS
    <3> QED BY <3>1 DEF Range
  <2> QED BY <2>1
<1> QED BY <1>1, <1>2 DEF IsStore, IsLoad

\* Where a definition is stored.
StoreIn(acc, m, b) == Memory(FreshId(acc.code) + b, "store", None, <<m>>)
StoredAfter(acc, split, m, b, k, ce) ==
    \A c \in Block : ce[c] = IF c = b THEN InsertAt(split[c], k + 1, StoreIn(acc, m, c)) ELSE split[c]
StoredInHeads(acc, split, m, b, ce) ==
    \A c \in Block :
        ce[c] = IF c \in Succ[b] THEN InsertAt(split[c], 1, StoreIn(acc, m, c)) ELSE split[c]

LEMMA SpillDefShape ==
    ASSUME NEW acc, NEW n, NEW id, NEW m, m = FreshName(acc.class),
           NEW b, b = BlockOf(acc.code, id), NEW k, k = PlaceOf(acc.code, b, id),
           NEW split, split = Renamed(acc.code, {id}, {}, n, m),
           NEW ce, ce = SpillDef(acc, n, id).code
    PROVE  IF k < Len(acc.code[b]) \/ Cardinality(Succ[b]) = 1
           THEN StoredAfter(acc, split, m, b, k, ce) ELSE StoredInHeads(acc, split, m, b, ce)
<1> DEFINE places == StorePlaces(acc.code, id)
           here(c) == {p \in places : p[1] = c}
           store(c) == StoreIn(acc, m, c)
<1>1. ce = [c \in Block |-> IF here(c) = {} THEN split[c]
                            ELSE InsertAt(split[c], (CHOOSE p \in here(c) : TRUE)[2], store(c))]
  BY DEF SpillDef, SpillNew, StoreIn
<1>2. places = IF k < Len(acc.code[b]) \/ Cardinality(Succ[b]) = 1 THEN {<<b, k + 1>>}
               ELSE {<<s, 1>> : s \in Succ[b]}
  BY DEF StorePlaces
<1> HIDE DEF places, store
<1>3. CASE k < Len(acc.code[b]) \/ Cardinality(Succ[b]) = 1
  <2>1. places = {<<b, k + 1>>}  BY <1>2, <1>3
  <2>2. ASSUME NEW c \in Block
        PROVE  ce[c] = IF c = b THEN InsertAt(split[c], k + 1, store(c)) ELSE split[c]
    <3>1. CASE c = b
      <4>1. here(c) = {<<b, k + 1>>}  BY <2>1, <3>1
      <4>2. (CHOOSE p \in here(c) : TRUE)[2] = k + 1 /\ here(c) # {}
        <5>1. PICK x : x = <<b, k + 1>>  OBVIOUS
        <5>2. here(c) = {x} /\ x[2] = k + 1  BY <4>1, <5>1
        <5> HIDE DEF here
        <5>3. (CHOOSE p \in here(c) : TRUE) = x  BY <5>2
        <5> QED BY <5>2, <5>3
      <4> HIDE DEF here
      <4> QED BY <1>1, <3>1, <4>2
    <3>2. CASE c # b
      <4>1. here(c) = {}  BY <2>1, <3>2
      <4> HIDE DEF here
      <4> QED BY <1>1, <3>2, <4>1
    <3> QED BY <3>1, <3>2
  <2> QED BY <1>3, <2>2 DEF StoredAfter, store
<1>4. CASE ~(k < Len(acc.code[b]) \/ Cardinality(Succ[b]) = 1)
  <2>1. places = {<<s, 1>> : s \in Succ[b]}  BY <1>2, <1>4
  <2>2. ASSUME NEW c \in Block
        PROVE  ce[c] = IF c \in Succ[b] THEN InsertAt(split[c], 1, store(c)) ELSE split[c]
    <3>1. CASE c \in Succ[b]
      <4>1. here(c) = {<<c, 1>>}  BY <2>1, <3>1
      <4>2. (CHOOSE p \in here(c) : TRUE)[2] = 1 /\ here(c) # {}
        <5>1. PICK x : x = <<c, 1>>  OBVIOUS
        <5>2. here(c) = {x} /\ x[2] = 1  BY <4>1, <5>1
        <5> HIDE DEF here
        <5>3. (CHOOSE p \in here(c) : TRUE) = x  BY <5>2
        <5> QED BY <5>2, <5>3
      <4> HIDE DEF here
      <4> QED BY <1>1, <3>1, <4>2
    <3>2. CASE c \notin Succ[b]
      <4>1. here(c) = {}  BY <2>1, <3>2
      <4> HIDE DEF here
      <4> QED BY <1>1, <3>2, <4>1
    <3> QED BY <3>1, <3>2
  <2> QED BY <1>4, <2>2 DEF StoredInHeads, store
<1> QED BY <1>3, <1>4

\* The blocks of a routine that is split.
LEMMA BlocksSplit ==
    ASSUME NEW N, NEW cd \in Routine(N), NEW Z, Quiet(cd, Z), NEW defs, NEW uses, NEW n, NEW m,
           NEW b \in Block
    PROVE  SplitFrom(cd[b], Renamed(cd, defs, uses, n, m)[b], Len(cd[b]), N, Z, defs, uses, n, m)
<1> DEFINE r == Renamed(cd, defs, uses, n, m)[b]
           R(i) == NewInstr(i, defs, uses, n, m)
<1>1. r = [k \in DOMAIN cd[b] |-> R(cd[b][k])]  BY DEF Renamed, NewInstr
<1>2. cd[b] \in Seq(InstrOver(N))  BY DEF Routine
<1>3. PICK l \in Nat : l = Len(cd[b]) /\ DOMAIN cd[b] = 1..l
                       /\ \A k \in 1..l : cd[b][k] \in InstrOver(N)
  BY <1>2, RangeOf, ElementOfSeq
<1>4. \A k \in 1..l : OpsApart(cd[b][k]) /\ SlotsIn(cd[b][k], Z)
  BY <1>3 DEF Quiet, InstrsOf, Range
<1> HIDE DEF R
<1>5. DOMAIN r = 1..l /\ \A k \in 1..l : r[k] = R(cd[b][k])  BY <1>1, <1>3
<1> HIDE DEF r
<1>6. Len(r) = l
  <2>1. r = [k \in 1..l |-> r[k]]  BY <1>1, <1>3, <1>5
  <2> DEFINE T == {r[k] : k \in 1..l}
  <2>2. r \in [1..l -> T]  BY <2>1
  <2> HIDE DEF T
  <2> QED BY <2>2, GroupSeq
<1> QED BY <1>2, <1>3, <1>4, <1>5, <1>6 DEF SplitFrom, R, r

LEMMA StartEven ==
    ASSUME NEW z \in Nat, NEW n \in Nat, NEW m \in Nat, NEW st, st = StartOf(Nat, z)
    PROVE  Even(st, st, 0..z, n, m, z) /\ Held(st, st, 0..z, n, m, z)
<1>1. /\ DOMAIN st.reg = {None} \cup Color \cup Nat /\ DOMAIN st.mem = 0..z
      /\ \A r \in DOMAIN st.reg : st.reg[r] = Garbage
      /\ \A x \in DOMAIN st.mem : st.mem[x] = Garbage
  BY DEF StartOf
<1>2. z \in 0..z  OBVIOUS
<1>3. Even(st, st, 0..z, n, m, z)  BY <1>1, <1>2 DEF Even, Agree, Level
<1>4. Held(st, st, 0..z, n, m, z)  BY <1>1, <1>2 DEF Held, Agree, Level
<1> QED BY <1>3, <1>4

\* A block that branches into one that can be entered from elsewhere ends with an
\* instruction, such as the branch, that writes nothing.
Critical(b) == Cardinality(Succ[b]) # 1 /\ \E s \in Succ[b] : \E c \in Block : c # b /\ s \in Succ[c]
Closes(i) == Range(i.ops) # {} /\ Defs(i) = {}
Ended(cd) ==
    \A b \in Block : Critical(b) => \E k \in DOMAIN cd[b] : k = Len(cd[b]) /\ Closes(cd[b][k])

\* Code in which a name is being spilled to the next slot.
SlotFree(cd) == \A i \in InstrsOf(cd) : i.id \in Ids(code) => Storing(i, slots) = {}
Ready(acc) ==
    /\ Grows(acc) /\ Apart(acc.code) /\ Once(acc.code) /\ Ended(acc.code)
    /\ SlotFree(acc.code) /\ \A i \in InstrsOf(acc.code) : SlotsIn(i, 0..slots)

\* The place of an instruction.
LEMMA PlaceIs ==
    ASSUME NEW N, NEW cd \in Routine(N), Apart(cd), Once(cd), NEW id \in Ids(cd),
           NEW b, b = BlockOf(cd, id), NEW k, k = PlaceOf(cd, b, id)
    PROVE  /\ b \in Block /\ k \in 1..Len(cd[b]) /\ cd[b][k].id = id /\ cd[b][k] \in InstrsOf(cd)
           /\ \A i \in InstrsOf(cd) : i.id = id => i = cd[b][k]
           /\ \A c \in Block : \A j \in 1..Len(cd[c]) : cd[c][j].id = id => c = b /\ j = k
<1>1. b \in Block /\ k \in DOMAIN cd[b]  BY Found
<1>2. cd[b][k].id = id
  <2>1. PICK c \in Block : \E i \in Range(cd[c]) : i.id = id  BY DEF Ids, InstrsOf
  <2>2. \E i \in Range(cd[b]) : i.id = id  BY <2>1 DEF BlockOf
  <2>3. PICK j \in DOMAIN cd[b] : cd[b][j].id = id  BY <2>2 DEF Range
  <2> QED BY <2>3 DEF PlaceOf
<1>3. cd[b][k] \in InstrsOf(cd)  BY <1>1 DEF InstrsOf, Range
<1>4. \A c \in Block : DOMAIN cd[c] = 1..Len(cd[c])
  <2> TAKE c \in Block
  <2>1. cd[c] \in Seq(InstrOver(N))  BY DEF Routine
  <2> QED BY <2>1, LenProperties
<1>5. \A i \in InstrsOf(cd) : i.id = id => i = cd[b][k]  BY <1>2, <1>3 DEF Apart
<1>6. \A c \in Block : \A j \in 1..Len(cd[c]) : cd[c][j].id = id => c = b /\ j = k
  BY <1>1, <1>2, <1>4 DEF Once
<1> QED BY <1>1, <1>2, <1>3, <1>4, <1>5, <1>6

LEMMA SpillDefMeans ==
    ASSUME Named, NEW acc, Ready(acc), NEW n \in Names, NEW id \in Ids(code),
           NEW i \in InstrsOf(acc.code), i.id = id, n \in Defs(i), NEW way \in Ways
    PROVE  TiedMeaning(StartOf(Nat, slots), SpillDef(acc, n, id).code, way, n, slots)
             = TiedMeaning(StartOf(Nat, slots), acc.code, way, n, slots)
<1> DEFINE N == DOMAIN acc.class
           m == FreshName(acc.class)
           cd == acc.code
           b == BlockOf(cd, id)
           p == PlaceOf(cd, b, id)
           split == Renamed(cd, {id}, {}, n, m)
           ce == SpillDef(acc, n, id).code
           Z == 0..slots
           z == slots
           st == StartOf(Nat, slots)
<1>1. /\ N \subseteq Nat /\ n \in N /\ m \notin N /\ m \in Nat /\ cd \in Routine(N)
      /\ n \in Nat /\ z \in Nat /\ z \in Z /\ n # m
  <2>1. NameSet(N) /\ N # {} /\ Names \subseteq N /\ cd \in Routine(N) /\ slots \in Nat
    BY DEF Ready, Grows, Named
  <2>2. m \notin N /\ NameSet(N \cup {m})  BY <2>1, FreshOf
  <2> QED BY <2>1, <2>2 DEF NameSet
<1>2. Quiet(cd, Z)  BY DEF Quiet, Ready, OpsApart, Apart
<1>3. id \in Ids(cd)  BY DEF Ready, Grows
<1>4. IF p < Len(cd[b]) \/ Cardinality(Succ[b]) = 1
      THEN StoredAfter(acc, split, m, b, p, ce) ELSE StoredInHeads(acc, split, m, b, ce)
  BY SpillDefShape
<1>5. /\ b \in Block /\ p \in 1..Len(cd[b]) /\ cd[b][p].id = id /\ cd[b][p] \in InstrsOf(cd)
      /\ \A j \in InstrsOf(cd) : j.id = id => j = cd[b][p]
      /\ \A c \in Block : \A j \in 1..Len(cd[c]) : cd[c][j].id = id => c = b /\ j = p
  <2>1. Apart(cd) /\ Once(cd)  BY DEF Ready
  <2> HIDE DEF N, cd
  <2> QED BY <1>1, <1>3, <2>1, PlaceIs
<1>6. n \in Defs(cd[b][p]) /\ Storing(cd[b][p], z) = {}
  <2>1. i = cd[b][p]  BY <1>5
  <2> QED BY <2>1 DEF Ready, SlotFree
<1>7. Even(st, st, Z, n, m, z) /\ Held(st, st, Z, n, m, z)  BY <1>1, StartEven
<1>8. \A c \in Block : IsStore(StoreIn(acc, m, c), m, z)  BY MemoryIs DEF StoreIn
<1>9. ASSUME NEW c \in Block
      PROVE  SplitFrom(cd[c], split[c], Len(cd[c]), N, Z, {id}, {}, n, m)
  <2> HIDE DEF N, cd, Z, m
  <2> QED BY <1>1, <1>2, BlocksSplit
<1>10. \A c \in Block : Len(cd[c]) \in Nat
  <2> TAKE c \in Block
  <2>1. cd[c] \in Seq(InstrOver(N))  BY <1>1 DEF Routine
  <2> QED BY <2>1, LenProperties
<1>11. ASSUME NEW c \in Block, NEW S, S = InstrOver(N \cup {m}) \cup {StoreIn(acc, m, c)}
       PROVE  split[c] \in Seq(S) /\ StoreIn(acc, m, c) \in S
  <2>1. IsSplit(acc, N \cup {m}, split)  BY Split DEF Ready
  <2> DEFINE T == InstrOver(N \cup {m})
  <2>2. split[c] \in Seq(T)  BY <2>1 DEF IsSplit, Routine
  <2>3. T \subseteq S /\ StoreIn(acc, m, c) \in S  BY <1>11
  <2> HIDE DEF T, split
  <2> QED BY <2>2, <2>3, SeqWiden
<1> HIDE DEF N, m, cd, b, p, split, ce, Z, z, st
<1>12. ASSUME NEW c \in Block, c # b, NEW s, NEW t, Even(s, t, Z, n, m, z)
       PROVE  Even(TiedRun(s, cd[c], n, z), TiedRun(t, split[c], n, z), Z, n, m, z)
  <2> DEFINE l == Len(cd[c])
             q == cd[c]
             r == split[c]
             d == {id}
             e == {}
  <2>1. \A k \in 1..l : q[k].id \notin d /\ q[k].id \notin e  BY <1>5, <1>12
  <2>2. SplitFrom(q, r, l, N, Z, d, e, n, m) /\ l \in Nat  BY <1>9, <1>10
  <2>3. Even(s, t, Z, n, m, z)  BY <1>12
  <2> HIDE DEF l, q, r, d, e
  <2>4. Even(TiedRun(s, q, n, z), TiedRun(t, r, n, z), Z, n, m, z)
    BY <1>1, <2>1, <2>2, <2>3, PlainBlock
  <2> QED BY <2>4 DEF q, r
<1>13. DefinesAt(cd[b], Len(cd[b]), p, id, n, z)  BY <1>5, <1>6 DEF DefinesAt
<1>14. CASE p < Len(cd[b]) \/ Cardinality(Succ[b]) = 1
  <2> DEFINE O == {}
  <2>1. StoredAfter(acc, split, m, b, p, ce)  BY <1>4, <1>14
  <2>2. ASSUME NEW s, NEW t, Even(s, t, Z, n, m, z)
        PROVE  Even(TiedRun(s, cd[b], n, z), TiedRun(t, ce[b], n, z), Z, n, m, z)
    <3> DEFINE l == Len(cd[b])
               q == cd[b]
               r == split[b]
               j == StoreIn(acc, m, b)
               S == InstrOver(N \cup {m}) \cup {j}
    <3>1. SplitFrom(q, r, l, N, Z, {id}, {}, n, m) /\ l \in Nat /\ DefinesAt(q, l, p, id, n, z)
      BY <1>5, <1>9, <1>10, <1>13
    <3>2. r \in Seq(S) /\ j \in S /\ IsStore(j, m, z)  BY <1>5, <1>8, <1>11
    <3>3. ce[b] = InsertAt(r, p + 1, j)  BY <1>5, <2>1 DEF StoredAfter
    <3>4. Even(s, t, Z, n, m, z)  BY <2>2
    <3> HIDE DEF l, q, r, j, S
    <3>5. Even(TiedRun(s, q, n, z), TiedRun(t, InsertAt(r, p + 1, j), n, z), Z, n, m, z)
      BY <1>1, <3>1, <3>2, <3>4, DefBlock
    <3> QED BY <3>3, <3>5 DEF q
  <2>3. \A c \in Block : c # b => ce[c] = split[c]  BY <2>1 DEF StoredAfter
  <2>4. SplitBlocks(cd, ce, O, O, Z, n, m, z)
    BY <1>12, <2>2, <2>3 DEF SplitBlocks, Between
  <2>5. Paired(O, O)  BY DEF Paired
  <2> HIDE DEF O
  <2>6. TiedMeaning(st, ce, way, n, z) = TiedMeaning(st, cd, way, n, z)
    BY <1>7, <2>4, <2>5, SplitMeans
  <2> QED BY <2>6 DEF st, ce, cd, z
<1>15. CASE ~(p < Len(cd[b]) \/ Cardinality(Succ[b]) = 1)
  <2> DEFINE H == Succ[b]
             T == {b}
  <2>1. StoredInHeads(acc, split, m, b, ce)  BY <1>4, <1>15
  <2>2. p = Len(cd[b]) /\ Cardinality(Succ[b]) # 1
    <3>1. PICK l \in Nat : l = Len(cd[b]) /\ p \in 1..l  BY <1>5, <1>10
    <3> QED BY <1>15, <3>1
  <2>3. ~Critical(b)
    <3>1. ~Closes(cd[b][p])  BY <1>6 DEF Closes
    <3>2. Ended(cd)  BY DEF Ready, cd
    <3> QED BY <1>5, <2>2, <3>1, <3>2 DEF Ended
  <2>4. Paired(H, T)  BY <1>5, <2>2, <2>3 DEF Paired, Critical
  <2>5. ASSUME NEW c \in Block, NEW s, NEW t, Even(s, t, Z, n, m, z)
        PROVE  Between(T, c, TiedRun(s, cd[c], n, z), TiedRun(t, split[c], n, z), Z, n, m, z)
    <3>1. CASE c # b
      <4>1. Even(TiedRun(s, cd[c], n, z), TiedRun(t, split[c], n, z), Z, n, m, z)
        BY <1>12, <2>5, <3>1
      <4> QED BY <3>1, <4>1 DEF Between
    <3>2. CASE c = b
      <4> DEFINE q == cd[b]
                 r == split[b]
      <4>1. /\ SplitFrom(q, r, p, N, Z, {id}, {}, n, m) /\ p \in Nat
            /\ DefinesAt(q, p, p, id, n, z)
        BY <1>5, <1>9, <1>10, <1>13, <2>2
      <4>2. Even(s, t, Z, n, m, z)  BY <2>5
      <4> HIDE DEF q, r
      <4>3. Held(TiedRun(s, q, n, z), TiedRun(t, r, n, z), Z, n, m, z)
        BY <1>1, <4>1, <4>2, LastBlock
      <4> QED BY <3>2, <4>3 DEF Between, q, r
    <3> QED BY <3>1, <3>2
  <2>6. ASSUME NEW c \in Block, NEW s, NEW t, Between(H, c, s, t, Z, n, m, z)
        PROVE  Between(T, c, TiedRun(s, cd[c], n, z), TiedRun(t, ce[c], n, z), Z, n, m, z)
    <3>1. CASE c \notin H
      <4>1. Even(s, t, Z, n, m, z) /\ ce[c] = split[c]
        BY <2>1, <2>6, <3>1 DEF Between, StoredInHeads
      <4> HIDE DEF T
      <4> QED BY <2>5, <4>1
    <3>2. CASE c \in H
      <4> DEFINE r == split[c]
                 j == StoreIn(acc, m, c)
                 S == InstrOver(N \cup {m}) \cup {j}
                 u == TiedExecute(t, j, n, z)
      <4>1. Held(s, t, Z, n, m, z) /\ ce[c] = InsertAt(r, 1, j)
        BY <2>1, <2>6, <3>2 DEF Between, StoredInHeads
      <4>2. r \in Seq(S) /\ j \in S /\ IsStore(j, m, z)  BY <1>8, <1>11
      <4> HIDE DEF r, j, S
      <4>3. Even(s, u, Z, n, m, z)  BY <1>1, <4>1, <4>2, Stored
      <4>4. TiedRun(t, ce[c], n, z) = TiedRun(u, r, n, z)  BY <4>1, <4>2, HeadRun
      <4> HIDE DEF u, T
      <4>5. Between(T, c, TiedRun(s, cd[c], n, z), TiedRun(u, r, n, z), Z, n, m, z)
        BY <2>5, <4>3 DEF r
      <4> QED BY <4>4, <4>5
    <3> QED BY <3>1, <3>2
  <2> HIDE DEF H, T
  <2>7. SplitBlocks(cd, ce, H, T, Z, n, m, z)  BY <2>6 DEF SplitBlocks
  <2>8. TiedMeaning(st, ce, way, n, z) = TiedMeaning(st, cd, way, n, z)
    BY <1>7, <2>4, <2>7, SplitMeans
  <2> QED BY <2>8 DEF st, ce, cd, z
<1> QED BY <1>14, <1>15

LEMMA ReloadUseMeans ==
    ASSUME Named, NEW acc, Ready(acc), NEW n \in Names, NEW id \in Ids(code), NEW way \in Ways
    PROVE  TiedMeaning(StartOf(Nat, slots), ReloadUse(acc, n, id).code, way, n, slots)
             = TiedMeaning(StartOf(Nat, slots), acc.code, way, n, slots)
<1> DEFINE N == DOMAIN acc.class
           m == FreshName(acc.class)
           cd == acc.code
           b == BlockOf(cd, id)
           p == PlaceOf(cd, b, id)
           split == Renamed(cd, {}, {id}, n, m)
           j == Load(acc, m)
           ce == ReloadUse(acc, n, id).code
           Z == 0..slots
           z == slots
           st == StartOf(Nat, slots)
           O == {}
<1>1. /\ N \subseteq Nat /\ n \in N /\ m \notin N /\ m \in Nat /\ cd \in Routine(N)
      /\ n \in Nat /\ z \in Nat /\ z \in Z /\ n # m
  <2>1. NameSet(N) /\ N # {} /\ Names \subseteq N /\ cd \in Routine(N) /\ slots \in Nat
    BY DEF Ready, Grows, Named
  <2>2. m \notin N /\ NameSet(N \cup {m})  BY <2>1, FreshOf
  <2> QED BY <2>1, <2>2 DEF NameSet
<1>2. Quiet(cd, Z)  BY DEF Quiet, Ready, OpsApart, Apart
<1>3. id \in Ids(cd)  BY DEF Ready, Grows
<1>4. IsSplit(acc, N \cup {m}, split)  BY Split DEF Ready
<1>5. /\ b \in Block /\ p \in 1..Len(cd[b]) /\ cd[b][p].id = id
      /\ \A c \in Block : \A k \in 1..Len(cd[c]) : cd[c][k].id = id => c = b /\ k = p
  <2>1. Apart(cd) /\ Once(cd)  BY DEF Ready
  <2> HIDE DEF N, cd
  <2> QED BY <1>1, <1>3, <2>1, PlaceIs
<1>6. \A c \in Block : ce[c] = IF c = b THEN InsertAt(split[c], p, j) ELSE split[c]
  <2>1. ce = Insert(split, b, p, j)  BY DEF ReloadUse, SpillNew, Load
  <2>2. split = [c \in Block |-> split[c]]  BY <1>4 DEF IsSplit
  <2> HIDE DEF ce, split, b, p, j
  <2> QED BY <1>5, <2>1, <2>2 DEF Insert
<1>7. Even(st, st, Z, n, m, z) /\ Held(st, st, Z, n, m, z)  BY <1>1, StartEven
<1>8. IsLoad(j, m, z)  BY MemoryIs DEF Load
<1>9. ASSUME NEW c \in Block
      PROVE  SplitFrom(cd[c], split[c], Len(cd[c]), N, Z, {}, {id}, n, m)
  <2> DEFINE d == {}
             e == {id}
             r == Renamed(cd, d, e, n, m)
  <2> HIDE DEF N, cd, Z, m, d, e
  <2>1. SplitFrom(cd[c], r[c], Len(cd[c]), N, Z, d, e, n, m)
    BY <1>1, <1>2, BlocksSplit
  <2> QED BY <2>1 DEF d, e, m, cd
<1>10. \A c \in Block : Len(cd[c]) \in Nat
  <2> TAKE c \in Block
  <2>1. cd[c] \in Seq(InstrOver(N))  BY <1>1 DEF Routine
  <2> QED BY <2>1, LenProperties
<1>11. ASSUME NEW c \in Block, NEW S, S = InstrOver(N \cup {m}) \cup {j}
       PROVE  split[c] \in Seq(S) /\ j \in S
  <2> DEFINE T == InstrOver(N \cup {m})
  <2>2. split[c] \in Seq(T)  BY <1>4 DEF IsSplit, Routine
  <2>3. T \subseteq S /\ j \in S  BY <1>11
  <2> HIDE DEF T, split
  <2> QED BY <2>2, <2>3, SeqWiden
<1> HIDE DEF N, m, cd, b, p, split, ce, Z, z, st, j
<1>12. ASSUME NEW c \in Block, NEW s, NEW t, Even(s, t, Z, n, m, z)
       PROVE  Even(TiedRun(s, cd[c], n, z), TiedRun(t, ce[c], n, z), Z, n, m, z)
  <2> DEFINE l == Len(cd[c])
             q == cd[c]
             r == split[c]
             e == {id}
             S == InstrOver(N \cup {m}) \cup {j}
  <2>1. SplitFrom(q, r, l, N, Z, O, e, n, m) /\ l \in Nat  BY <1>9, <1>10
  <2>2. Even(s, t, Z, n, m, z)  BY <1>12
  <2>3. CASE c # b
    <3>1. \A k \in 1..l : q[k].id \notin O /\ q[k].id \notin e  BY <1>5, <2>3
    <3> HIDE DEF l, q, r, e, O
    <3>2. Even(TiedRun(s, q, n, z), TiedRun(t, r, n, z), Z, n, m, z)
      BY <1>1, <2>1, <2>2, <3>1, PlainBlock
    <3> QED BY <1>6, <2>3, <3>2 DEF q, r
  <2>4. CASE c = b
    <3>1. /\ p \in 1..l /\ q[p].id = id /\ \A k \in 1..l : q[k].id = id => k = p
          /\ r \in Seq(S) /\ j \in S
      BY <1>5, <1>11, <2>4
    <3>2. SplitFrom(q, r, l, N, Z, {}, {id}, n, m)  BY <2>1
    <3> HIDE DEF l, q, r, S
    <3>3. Even(TiedRun(s, q, n, z), TiedRun(t, InsertAt(r, p, j), n, z), Z, n, m, z)
      BY <1>1, <1>8, <2>1, <2>2, <3>1, <3>2, UseBlock
    <3> QED BY <1>6, <2>4, <3>3 DEF q, r
  <2> QED BY <2>3, <2>4
<1>13. SplitBlocks(cd, ce, O, O, Z, n, m, z)  BY <1>12 DEF SplitBlocks, Between
<1>14. Paired(O, O)  BY DEF Paired
<1> HIDE DEF O
<1>15. TiedMeaning(st, ce, way, n, z) = TiedMeaning(st, cd, way, n, z)
  BY <1>7, <1>13, <1>14, SplitMeans
<1> QED BY <1>15 DEF st, ce, cd, z

-----------------------------------------------------------------------------
(* Split code is as ready to be split *)

LEMMA OnceRenamed ==
    ASSUME NEW cd, Once(cd), NEW ce, AlikeAll(cd, ce)
    PROVE  Once(ce)
BY DEF Once, AlikeAll, Alike

LEMMA ClosesRenamed ==
    ASSUME NEW N, NEW i \in InstrOver(N), Closes(i), NEW defs, NEW uses, NEW n, n # None, NEW m
    PROVE  Closes(NewInstr(i, defs, uses, n, m))
<1> DEFINE j == NewInstr(i, defs, uses, n, m)
<1>1. j.ops = [k \in DOMAIN i.ops |-> OpAfter(i, i.ops[k], defs, uses, n, m)]  BY NewInstrOf
<1> HIDE DEF j
<1>2. Range(j.ops) = {OpAfter(i, o, defs, uses, n, m) : o \in Range(i.ops)}  BY <1>1 DEF Range
<1>3. \A o \in Range(i.ops) : o.dest = None  BY DEF Closes, Defs
<1>4. \A o \in Range(i.ops) : OpAfter(i, o, defs, uses, n, m).dest = None  BY <1>3 DEF OpAfter
<1>5. Range(j.ops) # {}  BY <1>2 DEF Closes
<1>6. Defs(j) = {}  BY <1>2, <1>4 DEF Defs
<1> QED BY <1>5, <1>6 DEF Closes, j

LEMMA EndedRenamed ==
    ASSUME NEW N, NEW cd \in Routine(N), Ended(cd), NEW defs, NEW uses, NEW n, n # None, NEW m
    PROVE  Ended(Renamed(cd, defs, uses, n, m))
<1> DEFINE ce == Renamed(cd, defs, uses, n, m)
<1>1. SUFFICES ASSUME NEW b \in Block, Critical(b)
               PROVE  \E k \in DOMAIN ce[b] : k = Len(ce[b]) /\ Closes(ce[b][k])
  BY DEF Ended
<1>2. PICK k \in DOMAIN cd[b] : k = Len(cd[b]) /\ Closes(cd[b][k])  BY <1>1 DEF Ended
<1>3. ce[b] = [l \in DOMAIN cd[b] |-> NewInstr(cd[b][l], defs, uses, n, m)]
  BY DEF Renamed, NewInstr
<1> HIDE DEF ce
<1>4. cd[b] \in Seq(InstrOver(N))  BY DEF Routine
<1>5. PICK l \in Nat : l = Len(cd[b]) /\ DOMAIN cd[b] = 1..l /\ cd[b][k] \in InstrOver(N)
  BY <1>2, <1>4, RangeOf, ElementOfSeq
<1>6. ce[b] = [x \in 1..l |-> ce[b][x]] /\ DOMAIN ce[b] = 1..l  BY <1>3, <1>5
<1>7. Len(ce[b]) = l
  <2> DEFINE T == {ce[b][x] : x \in 1..l}
  <2>1. ce[b] \in [1..l -> T]  BY <1>6
  <2> HIDE DEF T
  <2> QED BY <2>1, GroupSeq
<1>8. ce[b][k] = NewInstr(cd[b][k], defs, uses, n, m) /\ k \in DOMAIN ce[b]
  BY <1>2, <1>3, <1>5, <1>6
<1> DEFINE i == cd[b][k]
<1>9. Closes(NewInstr(i, defs, uses, n, m))
  <2>1. i \in InstrOver(N) /\ Closes(i)  BY <1>2, <1>5
  <2> HIDE DEF i
  <2> QED BY <2>1, ClosesRenamed
<1> QED BY <1>2, <1>5, <1>7, <1>8, <1>9

\* Where the instructions of a block come from that one more was put in.
From(s, t, e, o) ==
    /\ o \in [DOMAIN t -> 0..Len(s)] /\ \A i, j \in DOMAIN t : o[i] = o[j] => i = j
    /\ \A j \in DOMAIN t : IF o[j] = 0 THEN t[j] = e ELSE t[j] = s[o[j]]

LEMMA InsertedFrom ==
    ASSUME NEW S, NEW s \in Seq(S), NEW e \in S, NEW k \in 1..(Len(s) + 1)
    PROVE  \E o : From(s, InsertAt(s, k, e), e, o)
<1> DEFINE t == InsertAt(s, k, e)
<1>1. PICK n \in Nat : n = Len(s)  BY LenProperties
<1>2. t \in Seq(S)  BY Inserted
<1>3. /\ Len(t) = n + 1 /\ t[k] = e /\ \A j \in 1..(k - 1) : t[j] = s[j]
      /\ \A j \in k..n : t[j + 1] = s[j]
  BY <1>1, InsertedPlaces
<1>4. DOMAIN t = 1..(n + 1)  BY <1>2, <1>3, LenProperties
<1> HIDE DEF t
<1> DEFINE o == [j \in DOMAIN t |-> IF j = k THEN 0 ELSE IF j < k THEN j ELSE j - 1]
<1>5. k \in 1..(n + 1)  BY <1>1
<1>6. ASSUME NEW j \in DOMAIN t
      PROVE  /\ o[j] \in 0..n /\ (o[j] = 0 <=> j = k)
             /\ IF o[j] = 0 THEN t[j] = e ELSE t[j] = s[o[j]]
  <2>1. CASE j = k  BY <1>3, <2>1
  <2>2. CASE j < k
    <3>1. j \in 1..(k - 1) /\ j # 0 /\ j \in 0..n /\ j # k  BY <1>4, <1>5, <2>2
    <3>2. o[j] = j  BY <2>2, <3>1
    <3> QED BY <1>3, <3>1, <3>2
  <2>3. CASE j # k /\ ~(j < k)
    <3>1. j - 1 \in k..n /\ j - 1 + 1 = j /\ j - 1 # 0 /\ j - 1 \in 0..n  BY <1>4, <1>5, <2>3
    <3>2. o[j] = j - 1  BY <2>3
    <3>3. t[j - 1 + 1] = s[j - 1]  BY <1>3, <3>1
    <3> QED BY <2>3, <3>1, <3>2, <3>3
  <2> QED BY <2>1, <2>2, <2>3
<1>7. ASSUME NEW i \in DOMAIN t, NEW j \in DOMAIN t, o[i] = o[j] PROVE i = j
  <2>1. i \in 1..(n + 1) /\ j \in 1..(n + 1)  BY <1>4
  <2> QED BY <1>5, <1>7, <2>1
<1>8. From(s, t, e, o)
  <2>1. o \in [DOMAIN t -> 0..n]  BY <1>6
  <2> HIDE DEF o
  <2> QED BY <1>1, <1>6, <1>7, <2>1 DEF From
<1> HIDE DEF o
<1> QED BY <1>8 DEF t

\* In the blocks H there is one more instruction, which does not end a critical block.
Sprouted(cd, ce, E, H) ==
    /\ \A c \in Block :
         IF c \in H
         THEN \E k \in 1..(Len(cd[c]) + 1) :
                ce[c] = InsertAt(cd[c], k, E[c]) /\ (Critical(c) => k <= Len(cd[c]))
         ELSE ce[c] = cd[c]
    /\ \A c, d \in H : E[c].id = E[d].id => c = d
    /\ \A c \in H : E[c].id \notin Ids(cd)

LEMMA SproutedOnce ==
    ASSUME NEW N, NEW cd \in Routine(N), NEW ce, NEW E, NEW H, H \subseteq Block,
           Sprouted(cd, ce, E, H), Once(cd)
    PROVE  Once(ce) /\ \A c \in Block : Range(cd[c]) \subseteq Range(ce[c])
<1> DEFINE S(c) == InstrOver(N) \cup {E[c]}
<1>1. ASSUME NEW c \in Block PROVE cd[c] \in Seq(S(c)) /\ E[c] \in S(c) /\ DOMAIN cd[c] = 1..Len(cd[c])
  <2> DEFINE T == InstrOver(N)
  <2>1. cd[c] \in Seq(T) /\ T \subseteq S(c)  BY DEF Routine
  <2> HIDE DEF T
  <2> QED BY <2>1, SeqWiden, LenProperties
<1>2. ASSUME NEW c \in Block, c \in H
      PROVE  (\E o : From(cd[c], ce[c], E[c], o)) /\ Range(cd[c]) \subseteq Range(ce[c])
  <2>1. PICK k \in 1..(Len(cd[c]) + 1) : ce[c] = InsertAt(cd[c], k, E[c])  BY <1>2 DEF Sprouted
  <2> DEFINE s == cd[c]
             e == E[c]
             Q == S(c)
  <2>2. s \in Seq(Q) /\ e \in Q /\ k \in 1..(Len(s) + 1)  BY <1>1
  <2> HIDE DEF s, e, Q
  <2>3. \E o : From(s, InsertAt(s, k, e), e, o)  BY <2>2, InsertedFrom
  <2>4. Range(InsertAt(s, k, e)) = Range(s) \cup {e}  BY <2>2, Inserted
  <2> QED BY <2>1, <2>3, <2>4 DEF s, e
<1>3. ASSUME NEW b \in Block, NEW c \in Block, NEW j \in DOMAIN ce[b], NEW k \in DOMAIN ce[c],
             ce[b][j].id = ce[c][k].id
      PROVE  b = c /\ j = k
  <2>1. \A a \in Block : \A x \in DOMAIN cd[a] : cd[a][x].id \in Ids(cd)
    BY DEF Ids, InstrsOf, Range
  <2>2. ASSUME NEW a \in Block
        PROVE  \E o : /\ \A x \in DOMAIN ce[a] :
                            IF o[x] = 0 THEN a \in H /\ ce[a][x] = E[a]
                            ELSE o[x] \in DOMAIN cd[a] /\ ce[a][x] = cd[a][o[x]]
                      /\ \A x, y \in DOMAIN ce[a] : o[x] = o[y] => x = y
    <3>1. CASE a \in H
      <4>1. PICK o : From(cd[a], ce[a], E[a], o)  BY <1>2, <3>1
      <4>2. \A x \in DOMAIN ce[a] : o[x] # 0 => o[x] \in 1..Len(cd[a])
        <5>1. Len(cd[a]) \in Nat  BY <1>1, LenProperties
        <5>2. \A x \in DOMAIN ce[a] : o[x] \in 0..Len(cd[a])  BY <4>1 DEF From
        <5> QED BY <5>1, <5>2
      <4> QED BY <1>1, <3>1, <4>1, <4>2 DEF From
    <3>2. CASE a \notin H
      <4> DEFINE o == [x \in DOMAIN ce[a] |-> x]
      <4>1. ce[a] = cd[a]  BY <3>2 DEF Sprouted
      <4>2. \A x \in DOMAIN ce[a] : o[x] = x /\ x # 0  BY <1>1, <4>1
      <4> HIDE DEF o
      <4> QED BY <4>1, <4>2
    <3> QED BY <3>1, <3>2
  <2>3. PICK o : /\ \A x \in DOMAIN ce[b] :
                      IF o[x] = 0 THEN b \in H /\ ce[b][x] = E[b]
                      ELSE o[x] \in DOMAIN cd[b] /\ ce[b][x] = cd[b][o[x]]
                 /\ \A x, y \in DOMAIN ce[b] : o[x] = o[y] => x = y
    BY <2>2
  <2>4. PICK p : /\ \A x \in DOMAIN ce[c] :
                      IF p[x] = 0 THEN c \in H /\ ce[c][x] = E[c]
                      ELSE p[x] \in DOMAIN cd[c] /\ ce[c][x] = cd[c][p[x]]
                 /\ \A x, y \in DOMAIN ce[c] : p[x] = p[y] => x = y
    BY <2>2
  <2>5. CASE o[j] = 0 /\ p[k] = 0
    <3>1. E[b].id = E[c].id /\ b \in H /\ c \in H  BY <1>3, <2>3, <2>4, <2>5
    <3>2. b = c  BY <3>1 DEF Sprouted
    <3>3. \A x \in DOMAIN ce[b] : o[x] = 0 <=> p[x] = 0
      <4>1. ASSUME NEW x \in DOMAIN ce[b] PROVE o[x] = 0 <=> ce[b][x].id \notin Ids(cd)
        BY <2>1, <2>3 DEF Sprouted
      <4>2. ASSUME NEW x \in DOMAIN ce[b] PROVE p[x] = 0 <=> ce[b][x].id \notin Ids(cd)
        BY <2>1, <2>4, <3>2 DEF Sprouted
      <4> QED BY <4>1, <4>2
    <3>4. o[k] = 0 /\ k \in DOMAIN ce[b]  BY <2>5, <3>2, <3>3
    <3> QED BY <2>3, <2>5, <3>2, <3>4
  <2>6. CASE o[j] = 0 /\ p[k] # 0
    <3>1. E[b].id \in Ids(cd) /\ b \in H  BY <1>3, <2>1, <2>3, <2>4, <2>6
    <3> QED BY <3>1 DEF Sprouted
  <2>7. CASE o[j] # 0 /\ p[k] = 0
    <3>1. E[c].id \in Ids(cd) /\ c \in H  BY <1>3, <2>1, <2>3, <2>4, <2>7
    <3> QED BY <3>1 DEF Sprouted
  <2>8. CASE o[j] # 0 /\ p[k] # 0
    <3>1. cd[b][o[j]].id = cd[c][p[k]].id /\ o[j] \in DOMAIN cd[b] /\ p[k] \in DOMAIN cd[c]
      BY <1>3, <2>3, <2>4, <2>8
    <3>2. b = c /\ o[j] = p[k]  BY <3>1 DEF Once
    <3>3. o[k] # 0 /\ k \in DOMAIN ce[b]
      <4>1. ce[b][k].id \in Ids(cd)  BY <2>1, <2>4, <2>8, <3>2
      <4> QED BY <2>3, <3>2, <4>1 DEF Sprouted
    <3>4. cd[b][o[k]].id = ce[c][k].id /\ o[k] \in DOMAIN cd[b]  BY <2>3, <3>2, <3>3
    <3>5. cd[b][o[k]].id = cd[b][p[k]].id /\ p[k] \in DOMAIN cd[b]  BY <2>4, <2>8, <3>2, <3>4
    <3>6. o[k] = p[k]  BY <3>4, <3>5 DEF Once
    <3> QED BY <2>3, <3>2, <3>3, <3>6
  <2> QED BY <2>5, <2>6, <2>7, <2>8
<1>4. \A c \in Block : Range(cd[c]) \subseteq Range(ce[c])  BY <1>2 DEF Sprouted
<1> QED BY <1>3, <1>4 DEF Once

LEMMA SproutedEnded ==
    ASSUME NEW N, NEW cd \in Routine(N), NEW ce, NEW E, NEW H, Sprouted(cd, ce, E, H), Ended(cd)
    PROVE  Ended(ce)
<1>1. SUFFICES ASSUME NEW b \in Block, Critical(b)
               PROVE  \E k \in DOMAIN ce[b] : k = Len(ce[b]) /\ Closes(ce[b][k])
  BY DEF Ended
<1>2. PICK l \in DOMAIN cd[b] : l = Len(cd[b]) /\ Closes(cd[b][l])  BY <1>1 DEF Ended
<1>3. CASE b \notin H
  <2>1. ce[b] = cd[b]  BY <1>3 DEF Sprouted
  <2> QED BY <1>2, <2>1
<1>4. CASE b \in H
  <2> DEFINE s == cd[b]
             e == E[b]
             T == InstrOver(N)
             S == T \cup {e}
  <2>1. PICK k \in 1..(Len(s) + 1) : ce[b] = InsertAt(s, k, e) /\ k <= Len(s)
    BY <1>1, <1>4 DEF Sprouted
  <2>2. s \in Seq(T) /\ T \subseteq S /\ e \in S  BY DEF Routine
  <2> HIDE DEF s, e, T, S
  <2>3. s \in Seq(S) /\ Len(s) \in Nat  BY <2>2, SeqWiden, LenProperties
  <2>4. InsertAt(s, k, e) \in Seq(S)  BY <2>2, <2>3, Inserted
  <2>5. Len(InsertAt(s, k, e)) = Len(s) + 1 /\ \A j \in k..Len(s) : InsertAt(s, k, e)[j + 1] = s[j]
    BY <2>2, <2>3, InsertedPlaces
  <2>6. l = Len(s) /\ Len(s) \in k..Len(s) /\ Len(s) + 1 \in 1..(Len(s) + 1)
    BY <1>2, <2>1, <2>3 DEF s
  <2>7. DOMAIN InsertAt(s, k, e) = 1..(Len(s) + 1)  BY <2>4, <2>5, LenProperties
  <2>8. InsertAt(s, k, e)[l + 1] = s[l]  BY <2>5, <2>6
  <2> QED BY <1>2, <2>1, <2>5, <2>6, <2>7, <2>8 DEF s
<1> QED BY <1>3, <1>4

\* Another name does not change the slots of an instruction.
LEMMA SlotsRenamed ==
    ASSUME NEW N, NEW cd \in Routine(N), NEW defs, NEW uses, NEW n, NEW m,
           NEW j \in InstrsOf(Renamed(cd, defs, uses, n, m))
    PROVE  \E i \in InstrsOf(cd) :
             /\ j.id = i.id /\ \A Z : SlotsIn(i, Z) => SlotsIn(j, Z)
             /\ \A z : Storing(i, z) = {} => Storing(j, z) = {}
<1>1. PICK i \in InstrsOf(cd) :
        /\ j.id = i.id /\ DOMAIN j.ops = DOMAIN i.ops
        /\ \A k \in DOMAIN i.ops : j.ops[k] = OpAfter(i, i.ops[k], defs, uses, n, m)
  BY InstrsRenamed
<1>2. ASSUME NEW p \in Range(j.ops)
      PROVE  \E o \in Range(i.ops) : p.kind = o.kind /\ p.slot = o.slot
  <2>1. PICK k \in DOMAIN i.ops : p = OpAfter(i, i.ops[k], defs, uses, n, m)
    BY <1>1 DEF Range
  <2>2. i.ops[k] \in Range(i.ops)  BY DEF Range
  <2>3. p.kind = i.ops[k].kind /\ p.slot = i.ops[k].slot  BY <2>1 DEF OpAfter
  <2> QED BY <2>2, <2>3
<1>3. \A Z : SlotsIn(i, Z) => SlotsIn(j, Z)  BY <1>2 DEF SlotsIn, IsMemory
<1>4. \A z : Storing(i, z) = {} => Storing(j, z) = {}  BY <1>2 DEF Storing
<1> QED BY <1>1, <1>3, <1>4

\* A definition or a use that is split leaves the code as ready as it was.
Regrown(split, ce) == \A b \in Block : Range(split[b]) \subseteq Range(ce[b])

LEMMA SproutedReady ==
    ASSUME Named, NEW acc, Ready(acc), NEW m, m = FreshName(acc.class), NEW n \in Names,
           NEW defs, NEW uses, NEW split, split = Renamed(acc.code, defs, uses, n, m),
           NEW new, Grows(new), Apart(new.code), NEW E, NEW H, H \subseteq Block,
           Sprouted(split, new.code, E, H),
           NEW F, InstrsOf(new.code) \subseteq InstrsOf(split) \cup F,
           \A e \in F : e.id \notin Ids(acc.code) /\ SlotsIn(e, 0..slots)
    PROVE  Ready(new) /\ Regrown(split, new.code)
<1> DEFINE N == DOMAIN acc.class
           M == N \cup {m}
           cd == acc.code
           ce == new.code
<1>1. IsSplit(acc, M, split)  BY Split DEF Ready
<1>2. cd \in Routine(M) /\ split \in Routine(M)
  <2> HIDE DEF M
  <2> QED BY <1>1 DEF IsSplit
<1>3. n # None /\ m \in M /\ m # None
  <2>1. m \in Nat  BY FreshOf DEF Ready, Grows, NameSet
  <2> QED BY <2>1 DEF None, Named, NameSet
<1>4. Once(cd) /\ Ended(cd) /\ SlotFree(cd) /\ \A i \in InstrsOf(cd) : SlotsIn(i, 0..slots)
  BY DEF Ready
<1>5. Ids(code) \subseteq Ids(cd)  BY DEF Ready, Grows
<1> HIDE DEF M, cd, ce
<1>6. split = Renamed(cd, defs, uses, n, m)  BY DEF cd
<1>7. AlikeAll(cd, split)  BY <1>2, <1>3, <1>6, RenamedOf
<1>8. Once(split)  BY <1>4, <1>7, OnceRenamed
<1>9. Ended(split)  BY <1>2, <1>3, <1>4, <1>6, EndedRenamed
<1>10. Sprouted(split, ce, E, H)  BY DEF ce
<1>11. Once(ce) /\ \A c \in Block : Range(split[c]) \subseteq Range(ce[c])
  BY <1>2, <1>8, <1>10, SproutedOnce
<1>12. Ended(ce)  BY <1>2, <1>9, <1>10, SproutedEnded
<1>13. ASSUME NEW j \in InstrsOf(ce)
       PROVE  SlotsIn(j, 0..slots) /\ (j.id \in Ids(code) => Storing(j, slots) = {})
  <2>1. CASE j \in F  BY <1>5, <2>1 DEF cd
  <2>2. CASE j \in InstrsOf(split)
    <3>1. PICK i \in InstrsOf(cd) :
            /\ j.id = i.id /\ \A Z : SlotsIn(i, Z) => SlotsIn(j, Z)
            /\ \A z : Storing(i, z) = {} => Storing(j, z) = {}
      BY <1>2, <1>6, <2>2, SlotsRenamed
    <3> QED BY <1>4, <3>1 DEF SlotFree
  <2> QED BY <2>1, <2>2 DEF ce
<1> QED BY <1>11, <1>12, <1>13 DEF Ready, SlotFree, Regrown, ce

LEMMA SpillDefReady ==
    ASSUME Named, NEW acc, Ready(acc), NEW n \in Names, NEW id \in Ids(code)
    PROVE  /\ Ready(SpillDef(acc, n, id))
           /\ Regrown(Renamed(acc.code, {id}, {}, n, FreshName(acc.class)), SpillDef(acc, n, id).code)
<1> DEFINE m == FreshName(acc.class)
           cd == acc.code
           b == BlockOf(cd, id)
           p == PlaceOf(cd, b, id)
           d == {id}
           u == {}
           split == Renamed(cd, d, u, n, m)
           new == SpillDef(acc, n, id)
           ce == new.code
           E == [c \in Block |-> StoreIn(acc, m, c)]
           F == Stores(acc, id, m)
           N == DOMAIN acc.class
           K == FreshId(acc.code)
<1>1. /\ Grows(new) /\ InstrsOf(ce) \subseteq InstrsOf(split) \cup F
  BY SpillDefGrows DEF Ready
<1>2. Apart(ce)  BY SplitApart DEF Ready
<1>3. cd \in Routine(N) /\ id \in Ids(cd) /\ Apart(cd) /\ Once(cd) /\ Ended(cd)
  BY DEF Ready, Grows
<1>4. K \in Nat /\ \A x \in Ids(cd) : x < K
  <2>1. InstrsOf(cd) # {}  BY <1>3 DEF Ids
  <2>2. FreshId(cd) \in Nat /\ Under(cd, FreshId(cd))  BY <1>3, <2>1, FreshIdAbove
  <2> QED BY <2>2 DEF Under, Ids
<1>5. IF p < Len(cd[b]) \/ Cardinality(Succ[b]) = 1
      THEN StoredAfter(acc, split, m, b, p, ce) ELSE StoredInHeads(acc, split, m, b, ce)
  BY SpillDefShape
<1>6. b \in Block /\ p \in 1..Len(cd[b])
  <2> HIDE DEF cd
  <2> QED BY <1>3, PlaceIs
<1>7. \A c \in Block : Len(split[c]) = Len(cd[c]) /\ Len(cd[c]) \in Nat
  <2>1. IsSplit(acc, N \cup {m}, split)  BY Split DEF Ready
  <2>2. \A c \in Block : Len(cd[c]) \in Nat
    <3> TAKE c \in Block
    <3>1. cd[c] \in Seq(InstrOver(N))  BY <1>3 DEF Routine
    <3> QED BY <3>1, LenProperties
  <2> QED BY <2>1, <2>2 DEF IsSplit
<1>8. \A c \in Block : c \in Nat  BY FS_CardinalityType, RegAllocAssumption
<1>9. \A c \in Block : E[c] = StoreIn(acc, m, c) /\ E[c].id = K + c
  BY MemoryOps DEF StoreIn
<1>10. \A c \in Block : K + c \notin Ids(cd)
  <2> SUFFICES ASSUME NEW c \in Block PROVE ~(K + c < K)  BY <1>4
  <2> QED BY <1>4, <1>8
<1>11. Ids(split) = Ids(cd)
  <2>1. IsSplit(acc, N \cup {m}, split)  BY Split DEF Ready
  <2> QED BY <2>1 DEF IsSplit
<1>12. \A e \in F : e.id \notin Ids(cd) /\ SlotsIn(e, 0..slots)
  <2> TAKE e \in F
  <2>1. PICK q \in StorePlaces(cd, id) : e = Memory(K + q[1], "store", None, <<m>>)
    BY DEF Stores
  <2>2. q[1] \in Block  BY <1>3, StorePlacesIn
  <2>3. e.id = K + q[1]  BY <2>1, MemoryOps
  <2>4. IsStore(e, m, slots)  BY <2>1, MemoryIs
  <2>5. \A o \in Range(e.ops) : o.slot = slots  BY <2>4 DEF IsStore
  <2> QED BY <1>10, <2>2, <2>3, <2>5 DEF SlotsIn, Named
<1> HIDE DEF m, cd, b, p, split, E, F, K, d, u
<1>13. \A c, e \in Block : E[c].id = E[e].id => c = e  BY <1>4, <1>8, <1>9
<1>14. \E H : H \subseteq Block /\ Sprouted(split, ce, E, H)
  <2>1. CASE p < Len(cd[b]) \/ Cardinality(Succ[b]) = 1
    <3> DEFINE H == {b}
    <3>1. StoredAfter(acc, split, m, b, p, ce)  BY <1>5, <2>1
    <3>2. PICK l \in Nat : l = Len(cd[b]) /\ l = Len(split[b])  BY <1>6, <1>7
    <3>3. p + 1 \in 1..(l + 1) /\ (Critical(b) => p + 1 <= l)
      <4>1. p \in 1..l  BY <1>6, <3>2
      <4>2. Critical(b) => p < l  BY <2>1, <3>2 DEF Critical
      <4> QED BY <4>1, <4>2
    <3>4. ce[b] = InsertAt(split[b], p + 1, E[b])  BY <1>6, <1>9, <3>1 DEF StoredAfter
    <3>5. \A c \in Block : c \notin H => ce[c] = split[c]  BY <3>1 DEF StoredAfter
    <3>6. Sprouted(split, ce, E, H)
      BY <1>6, <1>9, <1>10, <1>11, <3>2, <3>3, <3>4, <3>5 DEF Sprouted
    <3> QED BY <1>6, <3>6
  <2>2. CASE ~(p < Len(cd[b]) \/ Cardinality(Succ[b]) = 1)
    <3> DEFINE H == Succ[b]
    <3>1. StoredInHeads(acc, split, m, b, ce)  BY <1>5, <2>2
    <3>2. H \subseteq Block  BY <1>6, RegAllocAssumption
    <3>3. ASSUME NEW c \in Block
          PROVE  1 \in 1..(Len(split[c]) + 1) /\ (Critical(c) => 1 <= Len(split[c]))
      <4>1. PICK l \in Nat : l = Len(cd[c]) /\ l = Len(split[c])  BY <1>7
      <4>2. Critical(c) => \E k \in DOMAIN cd[c] : k = l  BY <1>3, <4>1 DEF Ended
      <4>3. DOMAIN cd[c] = 1..l
        <5>1. cd[c] \in Seq(InstrOver(N))  BY <1>3 DEF Routine
        <5> QED BY <4>1, <5>1, LenProperties
      <4> QED BY <4>1, <4>2, <4>3
    <3>4. \A c \in Block : c \in H => ce[c] = InsertAt(split[c], 1, E[c])
      BY <1>9, <3>1 DEF StoredInHeads
    <3>5. \A c \in Block : c \notin H => ce[c] = split[c]  BY <3>1 DEF StoredInHeads
    <3> HIDE DEF H
    <3>6. Sprouted(split, ce, E, H)
      BY <1>9, <1>10, <1>11, <1>13, <3>2, <3>3, <3>4, <3>5 DEF Sprouted
    <3> QED BY <3>2, <3>6
  <2> QED BY <2>1, <2>2
<1>15. PICK H : H \subseteq Block /\ Sprouted(split, ce, E, H)  BY <1>14
<1>16. m = FreshName(acc.class) /\ split = Renamed(acc.code, d, u, n, m)  BY DEF m, split, cd
<1>17. \A e \in F : e.id \notin Ids(acc.code) /\ SlotsIn(e, 0..slots)  BY <1>12 DEF cd
<1> HIDE DEF new
<1>18. Ready(new) /\ Regrown(split, new.code)
  BY <1>1, <1>2, <1>15, <1>16, <1>17, SproutedReady
<1> QED BY <1>18 DEF new, split, cd, d, u, m

LEMMA ReloadUseReady ==
    ASSUME Named, NEW acc, Ready(acc), NEW n \in Names, NEW id \in Ids(code)
    PROVE  /\ Ready(ReloadUse(acc, n, id))
           /\ Regrown(Renamed(acc.code, {}, {id}, n, FreshName(acc.class)), ReloadUse(acc, n, id).code)
           /\ Load(acc, FreshName(acc.class)) \in InstrsOf(ReloadUse(acc, n, id).code)
<1> DEFINE m == FreshName(acc.class)
           cd == acc.code
           b == BlockOf(cd, id)
           p == PlaceOf(cd, b, id)
           d == {}
           u == {id}
           split == Renamed(cd, d, u, n, m)
           new == ReloadUse(acc, n, id)
           ce == new.code
           j == Load(acc, m)
           E == [c \in Block |-> j]
           F == {j}
           H == {b}
           N == DOMAIN acc.class
<1>1. Grows(new) /\ InstrsOf(ce) \subseteq InstrsOf(split) \cup F  BY ReloadUseGrows DEF Ready
<1>2. Apart(ce)  BY SplitApart DEF Ready
<1>3. cd \in Routine(N) /\ id \in Ids(cd) /\ Apart(cd) /\ Once(cd) /\ Ended(cd)
  BY DEF Ready, Grows
<1>4. FreshId(cd) \notin Ids(cd) /\ j.id = FreshId(cd)
  <2>1. InstrsOf(cd) # {}  BY <1>3 DEF Ids
  <2>2. FreshId(cd) \in Nat /\ Under(cd, FreshId(cd))  BY <1>3, <2>1, FreshIdAbove
  <2>3. j.id = FreshId(cd)  BY MemoryOps DEF Load
  <2> QED BY <2>2, <2>3 DEF Under, Ids
<1>5. IsSplit(acc, N \cup {m}, split)  BY Split DEF Ready
<1>6. b \in Block /\ p \in 1..Len(cd[b])
  <2> HIDE DEF cd
  <2> QED BY <1>3, PlaceIs
<1>7. \A c \in Block : ce[c] = IF c = b THEN InsertAt(split[c], p, j) ELSE split[c]
  <2>1. ce = Insert(split, b, p, j)  BY DEF ReloadUse, SpillNew, Load
  <2>2. split = [c \in Block |-> split[c]]  BY <1>5 DEF IsSplit
  <2> HIDE DEF ce, split, b, p, j
  <2> QED BY <1>6, <2>1, <2>2 DEF Insert
<1>8. IsLoad(j, m, slots)  BY MemoryIs DEF Load
<1> HIDE DEF m, cd, b, p, split, E, j, d, u, ce
<1>9. Ids(split) = Ids(cd) /\ \A c \in Block : Len(split[c]) = Len(cd[c])
  BY <1>5 DEF IsSplit, cd
<1>10. PICK l \in Nat : l = Len(cd[b]) /\ l = Len(split[b])
  <2>1. cd[b] \in Seq(InstrOver(N))  BY <1>3, <1>6 DEF Routine
  <2> QED BY <1>6, <1>9, <2>1, LenProperties
<1>11. p \in 1..(Len(split[b]) + 1) /\ p <= Len(split[b])  BY <1>6, <1>10
<1>12. Sprouted(split, ce, E, H)
  <2>1. \A c \in Block : E[c] = j  BY DEF E
  <2>2. ce[b] = InsertAt(split[b], p, E[b])  BY <1>6, <1>7, <2>1
  <2>3. \A c \in Block : c \notin H => ce[c] = split[c]  BY <1>7
  <2> QED BY <1>4, <1>6, <1>9, <1>11, <2>1, <2>2, <2>3 DEF Sprouted
<1>13. \A e \in F : e.id \notin Ids(acc.code) /\ SlotsIn(e, 0..slots)
  <2>1. \A o \in Range(j.ops) : o.slot = slots  BY <1>8 DEF IsLoad
  <2> QED BY <1>4, <2>1 DEF SlotsIn, Named, cd
<1>14. m = FreshName(acc.class) /\ split = Renamed(acc.code, d, u, n, m)  BY DEF m, split, cd
<1>15. j \in InstrsOf(ce)
  <2> DEFINE s == split[b]
             T == InstrOver(N \cup {m})
             S == T \cup {j}
  <2>1. s \in Seq(T) /\ T \subseteq S /\ j \in S  BY <1>5, <1>6 DEF IsSplit, Routine
  <2>2. p \in 1..(Len(s) + 1)  BY <1>11
  <2> HIDE DEF s, S, T
  <2>3. s \in Seq(S)  BY <2>1, SeqWiden
  <2>4. Range(InsertAt(s, p, j)) = Range(s) \cup {j}  BY <2>1, <2>2, <2>3, Inserted
  <2>5. ce[b] = InsertAt(s, p, j)  BY <1>6, <1>7 DEF s
  <2> QED BY <1>6, <2>4, <2>5 DEF InstrsOf
<1>16. Sprouted(split, new.code, E, H) /\ Apart(new.code) /\ H \subseteq Block
       /\ InstrsOf(new.code) \subseteq InstrsOf(split) \cup F
  BY <1>1, <1>2, <1>6, <1>12 DEF ce
<1> HIDE DEF new, F, H
<1>17. Ready(new) /\ Regrown(split, new.code)
  BY <1>1, <1>13, <1>14, <1>16, SproutedReady
<1> QED BY <1>15, <1>17 DEF new, ce, split, cd, d, u, m, j

-----------------------------------------------------------------------------
(* A spill, split by split *)

\* Instructions with these ids define x.
Defined(cd, x, ids) == \A id \in ids : \E i \in InstrsOf(cd) : i.id = id /\ x \in Defs(i)

LEMMA RenamedHas ==
    ASSUME NEW N, NEW cd \in Routine(N), NEW defs, NEW uses, NEW n, NEW m,
           NEW i \in InstrsOf(cd), NEW o \in Range(i.ops)
    PROVE  \E b \in Block : \E j \in Range(Renamed(cd, defs, uses, n, m)[b]) :
             j.id = i.id /\ OpAfter(i, o, defs, uses, n, m) \in Range(j.ops)
<1> DEFINE split == Renamed(cd, defs, uses, n, m)
           j == NewInstr(i, defs, uses, n, m)
<1>1. PICK b \in Block : i \in Range(cd[b])  BY DEF InstrsOf
<1>2. PICK k \in DOMAIN cd[b] : i = cd[b][k]  BY <1>1 DEF Range
<1>3. j \in Range(split[b])
  <2>1. split[b] = [l \in DOMAIN cd[b] |-> NewInstr(cd[b][l], defs, uses, n, m)]
    BY DEF Renamed, NewInstr
  <2> HIDE DEF split
  <2>2. split[b][k] = j /\ k \in DOMAIN split[b]  BY <1>2, <2>1
  <2> HIDE DEF j
  <2> QED BY <2>2 DEF Range
<1>4. i \in InstrOver(N)  BY RoutineParts
<1>5. j.id = i.id /\ j.ops = [l \in DOMAIN i.ops |-> OpAfter(i, i.ops[l], defs, uses, n, m)]
  BY <1>4, NewInstrOf
<1> HIDE DEF j, split
<1>6. PICK l \in DOMAIN i.ops : i.ops[l] = o  BY DEF Range
<1>7. l \in DOMAIN j.ops /\ j.ops[l] = OpAfter(i, o, defs, uses, n, m)  BY <1>5, <1>6
<1>8. OpAfter(i, o, defs, uses, n, m) \in Range(j.ops)  BY <1>7 DEF Range
<1> QED BY <1>3, <1>5, <1>8 DEF split

LEMMA SplitDefines ==
    ASSUME NEW N, NEW cd \in Routine(N), NEW defs, NEW uses, NEW n, NEW m, m # None,
           NEW ce, Regrown(Renamed(cd, defs, uses, n, m), ce)
    PROVE  /\ \A x, ids : Defined(cd, x, ids) /\ (x = n => ids \cap defs = {}) => Defined(ce, x, ids)
           /\ Defined(cd, n, defs) => Defined(ce, m, defs)
<1>1. ASSUME NEW i \in InstrsOf(cd), NEW x \in Defs(i)
      PROVE  \E j \in InstrsOf(ce) :
               j.id = i.id /\ (IF i.id \in defs /\ x = n THEN m ELSE x) \in Defs(j)
  <2>1. PICK o \in Range(i.ops) : o.dest = x /\ x # None  BY DEF Defs
  <2> DEFINE p == OpAfter(i, o, defs, uses, n, m)
  <2>2. PICK b \in Block : \E j \in Range(Renamed(cd, defs, uses, n, m)[b]) :
                             j.id = i.id /\ p \in Range(j.ops)
    BY RenamedHas
  <2>3. PICK j \in InstrsOf(ce) : j.id = i.id /\ p \in Range(j.ops)
    BY <2>2 DEF Regrown, InstrsOf
  <2>4. p.dest = IF i.id \in defs /\ x = n THEN m ELSE x  BY <2>1 DEF OpAfter
  <2> HIDE DEF p
  <2>5. p.dest \in Defs(j)  BY <2>1, <2>3, <2>4 DEF Defs
  <2> QED BY <2>3, <2>4, <2>5
<1>2. ASSUME NEW x, NEW ids, Defined(cd, x, ids), x = n => ids \cap defs = {}
      PROVE  Defined(ce, x, ids)
  <2>1. ASSUME NEW id \in ids PROVE \E j \in InstrsOf(ce) : j.id = id /\ x \in Defs(j)
    <3>1. PICK i \in InstrsOf(cd) : i.id = id /\ x \in Defs(i)  BY <1>2 DEF Defined
    <3>2. PICK j \in InstrsOf(ce) :
            j.id = i.id /\ (IF i.id \in defs /\ x = n THEN m ELSE x) \in Defs(j)
      BY <1>1, <3>1
    <3>3. ~(i.id \in defs /\ x = n)  BY <1>2, <3>1
    <3> QED BY <3>1, <3>2, <3>3
  <2> QED BY <2>1 DEF Defined
<1>3. ASSUME Defined(cd, n, defs) PROVE Defined(ce, m, defs)
  <2>1. ASSUME NEW id \in defs PROVE \E j \in InstrsOf(ce) : j.id = id /\ m \in Defs(j)
    <3>1. PICK i \in InstrsOf(cd) : i.id = id /\ n \in Defs(i)  BY <1>3 DEF Defined
    <3>2. PICK j \in InstrsOf(ce) :
            j.id = i.id /\ (IF i.id \in defs /\ n = n THEN m ELSE n) \in Defs(j)
      BY <1>1, <3>1
    <3> QED BY <3>1, <3>2
  <2> QED BY <2>1 DEF Defined
<1> QED BY <1>2, <1>3

\* No instruction is walked over twice.
LEMMA InOrderOnce ==
    ASSUME NEW N, NEW cd \in Routine(N), Once(cd), NEW all, all = InOrder(cd)
    PROVE  \A j, k \in DOMAIN all : all[j].id = all[k].id => j = k
<1> DEFINE S == InstrsOf(cd)
<1>1. PICK n \in Nat : n = Cardinality(Block) /\ Block = 1..n
  BY FS_CardinalityType, RegAllocAssumption
<1>2. PICK h : /\ h[0] = <<>> /\ InOrder(cd) = h[n]
               /\ \A k \in 0..n : h[k] \in Seq(S)
               /\ \A k \in 1..n : h[k] = h[k - 1] \o cd[k]
  <2>1. JoinsIn(cd, S, n)  BY <1>1, InOrderSteps
  <2> QED BY <2>1 DEF JoinsIn
<1> HIDE DEF S
<1> DEFINE Single(s) == \A i, j \in DOMAIN s : s[i].id = s[j].id => i = j
           Below(s, k) == \A i \in DOMAIN s : \E b \in 1..k : \E y \in DOMAIN cd[b] : s[i] = cd[b][y]
           G == {k \in 0..n : Single(h[k]) /\ Below(h[k], k)}
<1>3. 0 \in G
  <2>1. 0 \in 0..n /\ DOMAIN <<>> = {}  OBVIOUS
  <2> QED BY <1>2, <2>1
<1>4. ASSUME NEW k \in 1..n, k - 1 \in G PROVE k \in G
  <2> DEFINE s == h[k - 1]
             u == cd[k]
  <2>1. k \in 0..n /\ k - 1 \in 0..n /\ 1..(k - 1) \subseteq 1..k /\ k \in 1..k /\ k \notin 1..(k - 1)
    OBVIOUS
  <2>2. h[k] = s \o u /\ s \in Seq(S)  BY <1>2, <2>1
  <2>3. Single(s) /\ Below(s, k - 1)  BY <1>4
  <2>4. u \in Seq(InstrOver(N)) /\ k \in Block  BY <1>1 DEF Routine
  <2> HIDE DEF s
  <2>5. PICK l \in Nat, m \in Nat : l = Len(s) /\ m = Len(u)  BY <2>2, <2>4, RangeOf
  <2>6. /\ DOMAIN s = 1..l /\ DOMAIN u = 1..m /\ DOMAIN (s \o u) = 1..(l + m)
        /\ \A i \in 1..l : (s \o u)[i] = s[i]
        /\ \A i \in (l + 1)..(l + m) : i - l \in 1..m /\ (s \o u)[i] = u[i - l]
    <3> HIDE DEF u
    <3> QED BY <2>2, <2>4, <2>5
  <2>7. \A i, j \in 1..m : u[i].id = u[j].id => i = j
    <3>1. \A i, j \in DOMAIN cd[k] : cd[k][i].id = cd[k][j].id => i = j  BY <2>4 DEF Once
    <3> QED BY <2>6, <3>1
  <2>8. \A i \in 1..l, j \in 1..m : s[i].id # u[j].id
    <3> SUFFICES ASSUME NEW i \in 1..l, NEW j \in 1..m, s[i].id = u[j].id PROVE FALSE  OBVIOUS
    <3>1. PICK b \in 1..(k - 1) : \E y \in DOMAIN cd[b] : s[i] = cd[b][y]  BY <2>3, <2>6
    <3>2. PICK y \in DOMAIN cd[b] : s[i] = cd[b][y]  BY <3>1
    <3>3. b \in Block
      <4>1. b \in 1..n  OBVIOUS
      <4> QED BY <1>1, <4>1
    <3>4. b = k  BY <2>4, <2>6, <3>2, <3>3 DEF Once
    <3> QED BY <2>1, <3>1, <3>4
  <2>9. Single(s \o u)
    <3> SUFFICES ASSUME NEW i \in 1..(l + m), NEW j \in 1..(l + m),
                        (s \o u)[i].id = (s \o u)[j].id
                 PROVE  i = j
      BY <2>6
    <3>1. i \in 1..l \/ i \in (l + 1)..(l + m)  OBVIOUS
    <3>2. j \in 1..l \/ j \in (l + 1)..(l + m)  OBVIOUS
    <3> HIDE DEF u
    <3>3. CASE i \in 1..l /\ j \in 1..l  BY <2>3, <2>6, <3>3
    <3>4. CASE i \in 1..l /\ j \in (l + 1)..(l + m)  BY <2>6, <2>8, <3>4
    <3>5. CASE i \in (l + 1)..(l + m) /\ j \in 1..l  BY <2>6, <2>8, <3>5
    <3>6. CASE i \in (l + 1)..(l + m) /\ j \in (l + 1)..(l + m)
      <4>1. i - l = j - l  BY <2>6, <2>7, <3>6
      <4> QED BY <3>6, <4>1
    <3> QED BY <3>1, <3>2, <3>3, <3>4, <3>5, <3>6
  <2>10. Below(s \o u, k)
    <3> SUFFICES ASSUME NEW i \in 1..(l + m)
                 PROVE  \E b \in 1..k : \E y \in DOMAIN cd[b] : (s \o u)[i] = cd[b][y]
      BY <2>6
    <3>1. CASE i \in 1..l
      <4>1. PICK b \in 1..(k - 1) : \E y \in DOMAIN cd[b] : s[i] = cd[b][y]  BY <2>3, <2>6, <3>1
      <4>2. b \in 1..k /\ (s \o u)[i] = s[i]  BY <2>1, <2>6, <3>1, <4>1
      <4> HIDE DEF u
      <4> QED BY <4>1, <4>2
    <3>2. CASE i \in (l + 1)..(l + m)
      <4>1. i - l \in DOMAIN cd[k] /\ (s \o u)[i] = cd[k][i - l]  BY <2>6, <3>2
      <4> HIDE DEF u
      <4> QED BY <2>1, <4>1
    <3>3. i \in 1..l \/ i \in (l + 1)..(l + m)  OBVIOUS
    <3> HIDE DEF u
    <3> QED BY <3>1, <3>2, <3>3
  <2> HIDE DEF Single, Below, u
  <2> QED BY <2>1, <2>2, <2>9, <2>10
<1>5. n \in G
  <2>1. n \in 0..n  OBVIOUS
  <2> HIDE DEF G
  <2>2. 0..n \subseteq G  BY <1>3, <1>4, Upwards
  <2> QED BY <2>1, <2>2
<1> QED BY <1>2, <1>5

\* The names of these multichains, but n, are defined where their lists say.
Lists(cd, ch, n) == \A x \in DOMAIN ch \ {n} : Defined(cd, x, ch[x].defs)

\* How far a spill of n has come: ids are the definitions that are still to be split.
Keeping(acc, n, ids) ==
    /\ Ready(acc) /\ Lists(acc.code, mc, n) /\ Lists(acc.code, acc.mc, n)
    /\ Defined(acc.code, n, ids)
    /\ \A way \in Ways :
         TiedMeaning(StartOf(Nat, slots), acc.code, way, n, slots)
           = TiedMeaning(StartOf(Nat, slots), code, way, n, slots)

LEMMA ListsSplit ==
    ASSUME NEW N, NEW cd \in Routine(N), NEW defs, NEW uses, NEW n, NEW m, m # None,
           NEW ce, Regrown(Renamed(cd, defs, uses, n, m), ce), NEW ch, Lists(cd, ch, n)
    PROVE  Lists(ce, ch, n)
<1>1. \A x, ids : Defined(cd, x, ids) /\ (x = n => ids \cap defs = {}) => Defined(ce, x, ids)
  BY SplitDefines
<1> QED BY <1>1 DEF Lists

LEMMA ListsMore ==
    ASSUME NEW cd, NEW ch, NEW n, Lists(cd, ch, n), NEW m, NEW c, Defined(cd, m, c.defs)
    PROVE  Lists(cd, With(ch, m, c), n)
<1>1. DOMAIN With(ch, m, c) = DOMAIN ch \cup {m} /\ With(ch, m, c)[m] = c
  BY DEF With
<1>2. \A x \in DOMAIN ch \ {m} : With(ch, m, c)[x] = ch[x]  BY DEF With
<1> QED BY <1>1, <1>2 DEF Lists

LEMMA SpillDefKeeps ==
    ASSUME Named, DOMAIN mc \subseteq Names, NEW n \in Names, NEW id \in Ids(code),
           NEW ids, id \in ids, NEW acc, Keeping(acc, n, ids)
    PROVE  Keeping(SpillDef(acc, n, id), n, ids \ {id})
<1> DEFINE m == FreshName(acc.class)
           N == DOMAIN acc.class
           new == SpillDef(acc, n, id)
           K == {id}
           O == {}
           cd == acc.code
           ce == new.code
           ch == acc.mc
           c == [defs |-> {id}, noDefs |-> Cardinality(StorePlaces(acc.code, id)),
                 uses |-> {FreshId(acc.code) + p[1] : p \in StorePlaces(acc.code, id)},
                 noUses |-> Cardinality(StorePlaces(acc.code, id)), spilled |-> TRUE]
<1>1. Ready(acc) /\ Lists(cd, mc, n) /\ Lists(cd, ch, n) /\ Defined(cd, n, ids)  BY DEF Keeping
<1>2. /\ Ready(new) /\ Regrown(Renamed(cd, K, O, n, m), ce)  BY <1>1, SpillDefReady
<1>3. cd \in Routine(N) /\ m # None
  <2>1. Grows(acc)  BY <1>1 DEF Ready
  <2>2. NameSet(N) /\ N # {} /\ cd \in Routine(N)  BY <2>1 DEF Grows
  <2>3. NameSet(N \cup {m})  BY <2>2, FreshOf
  <2> QED BY <2>2, <2>3 DEF NameSet, None
<1>4. new.mc = With(ch, m, c)  BY DEF SpillDef, SpillNew
<1>5. PICK i \in InstrsOf(cd) : i.id = id /\ n \in Defs(i)  BY <1>1 DEF Defined
<1>6. \A way \in Ways : TiedMeaning(StartOf(Nat, slots), ce, way, n, slots)
                          = TiedMeaning(StartOf(Nat, slots), cd, way, n, slots)
  BY <1>1, <1>5, SpillDefMeans
<1>7. c.defs = K /\ ids \ {id} = ids \ K /\ Defined(cd, n, K) /\ Defined(cd, n, ids \ K)
  BY <1>1 DEF Defined
<1> HIDE DEF m, N, new, K, O, cd, ce, ch, c
<1>8. Lists(ce, mc, n) /\ Lists(ce, ch, n)  BY <1>1, <1>2, <1>3, ListsSplit
<1>9. Defined(ce, m, K) /\ Defined(ce, n, ids \ K)
  <2>1. (ids \ K) \cap K = {}  OBVIOUS
  <2> QED BY <1>2, <1>3, <1>7, <2>1, SplitDefines
<1>10. Lists(ce, With(ch, m, c), n)  BY <1>7, <1>8, <1>9, ListsMore
<1> QED BY <1>2, <1>4, <1>6, <1>7, <1>8, <1>9, <1>10 DEF Keeping, new, cd, ce

LEMMA ReloadUseKeeps ==
    ASSUME Named, DOMAIN mc \subseteq Names, NEW n \in Names, NEW id \in Ids(code),
           NEW ids, NEW acc, Keeping(acc, n, ids)
    PROVE  Keeping(ReloadUse(acc, n, id), n, ids)
<1> DEFINE m == FreshName(acc.class)
           N == DOMAIN acc.class
           new == ReloadUse(acc, n, id)
           K == {id}
           O == {}
           cd == acc.code
           ce == new.code
           ch == acc.mc
           e == Load(acc, m)
           c == [defs |-> {FreshId(acc.code)}, noDefs |-> 1, uses |-> {id},
                 noUses |-> CountUses(InstrOf(acc.code, id), n), spilled |-> TRUE]
<1>1. Ready(acc) /\ Lists(cd, mc, n) /\ Lists(cd, ch, n) /\ Defined(cd, n, ids)  BY DEF Keeping
<1>2. /\ Ready(new) /\ Regrown(Renamed(cd, O, K, n, m), ce) /\ e \in InstrsOf(ce)
  BY <1>1, ReloadUseReady
<1>3. cd \in Routine(N) /\ m # None
  <2>1. Grows(acc)  BY <1>1 DEF Ready
  <2>2. NameSet(N) /\ N # {} /\ cd \in Routine(N)  BY <2>1 DEF Grows
  <2>3. NameSet(N \cup {m})  BY <2>2, FreshOf
  <2> QED BY <2>2, <2>3 DEF NameSet, None
<1>4. new.mc = With(ch, m, c)  BY DEF ReloadUse, SpillNew
<1>5. e.id = FreshId(acc.code) /\ m \in Defs(e)
  <2> HIDE DEF m
  <2>1. PICK o : Range(e.ops) = {o} /\ o.dest = m
    <3>1. IsLoad(e, m, slots)  BY MemoryIs DEF Load
    <3> HIDE DEF e
    <3> QED BY <3>1 DEF IsLoad
  <2>2. e.id = FreshId(acc.code)  BY MemoryOps DEF Load
  <2> QED BY <1>3, <2>1, <2>2 DEF Defs
<1>6. \A way \in Ways : TiedMeaning(StartOf(Nat, slots), ce, way, n, slots)
                          = TiedMeaning(StartOf(Nat, slots), cd, way, n, slots)
  BY <1>1, ReloadUseMeans
<1>7. c.defs = {FreshId(acc.code)} /\ O = {}  OBVIOUS
<1>8. Defined(ce, m, c.defs)  BY <1>2, <1>5, <1>7 DEF Defined
<1> HIDE DEF m, N, new, K, O, cd, ce, ch, c
<1>9. Lists(ce, mc, n) /\ Lists(ce, ch, n)  BY <1>1, <1>2, <1>3, ListsSplit
<1>10. Defined(ce, n, ids)
  <2>1. ids \cap O = {}  BY <1>7
  <2> QED BY <1>1, <1>2, <1>3, <2>1, SplitDefines
<1>11. Lists(ce, With(ch, m, c), n)  BY <1>8, <1>9, ListsMore
<1> QED BY <1>2, <1>4, <1>6, <1>9, <1>10, <1>11 DEF Keeping, new, cd, ce

\* A spill of n keeps what the code means, and leaves lists that are right.
LEMMA SpillsReloadsKeep ==
    ASSUME Named, DOMAIN mc \subseteq Names, NEW n \in DOMAIN mc,
           Once(code), Keeping(Spilling, n, mc[n].defs)
    PROVE  \E ids : Keeping(SpillsReloads(n), n, ids)
<1>1. PICK all \in Seq(InstrsOf(code)) :
         all = InOrder(code) /\ InstrsOf(code) \subseteq Range(all)
  BY InOrderIn DEF Named
<1>2. PICK turn \in Nat : turn = Len(all) /\ DOMAIN all = 1..turn
                          /\ \A k \in 1..turn : all[k] \in InstrsOf(code)
  BY RangeOf, ElementOfSeq
<1>3. PICK t \in Nat : t = 2 * turn  OBVIOUS
<1>4. PICK h : /\ h[0] = Spilling /\ SpillsReloads(n) = h[t]
               /\ \A k \in 1..t : h[k] = SpillStep(n, all, turn, k, h[k - 1])
  <2>1. SpillsIn(n, all, turn)  BY <1>1, <1>2, SpillSteps
  <2> QED BY <1>3, <2>1 DEF SpillsIn
<1>5. \A j, k \in 1..turn : all[j].id = all[k].id => j = k
  BY <1>1, <1>2, InOrderOnce DEF Named
<1> DEFINE D(k) == mc[n].defs \ {all[j].id : j \in {i \in 1..turn : i <= k}}
           G == {k \in 0..t : Keeping(h[k], n, D(k))}
<1>6. 0 \in G
  <2>1. {i \in 1..turn : i <= 0} = {} /\ 0 \in 0..t  OBVIOUS
  <2>2. D(0) = mc[n].defs  BY <2>1
  <2> HIDE DEF D
  <2> QED BY <1>4, <2>1, <2>2
<1>7. ASSUME NEW k \in 1..t, k - 1 \in G PROVE k \in G
  <2> DEFINE acc == h[k - 1]
             d == D(k - 1)
  <2>1. k \in 0..t  OBVIOUS
  <2>2. Keeping(acc, n, d)  BY <1>7
  <2>3. h[k] = SpillStep(n, all, turn, k, acc) /\ n \in Names  BY <1>4
  <2>4. CASE k <= turn
    <3> DEFINE id == all[k].id
    <3>1. k \in 1..turn  BY <2>4
    <3>2. id \in Ids(code)  BY <1>2, <3>1 DEF Ids
    <3>3. D(k) = d \ {id}
      <4>1. {i \in 1..turn : i <= k} = {i \in 1..turn : i <= k - 1} \cup {k}  BY <3>1
      <4> QED BY <4>1
    <3>4. id \in mc[n].defs => id \in d
      <4>1. \A j \in 1..turn : j <= k - 1 => all[j].id # id
        <5>1. \A j \in 1..turn : j <= k - 1 => j # k  BY <3>1
        <5> QED BY <1>5, <3>1, <5>1
      <4> QED BY <4>1
    <3>5. id \notin mc[n].defs => d \ {id} = d  OBVIOUS
    <3> HIDE DEF acc, d
    <3>6. h[k] = IF id \in mc[n].defs THEN SpillDef(acc, n, id) ELSE acc
      BY <2>3, <2>4 DEF SpillStep
    <3> HIDE DEF id, D
    <3>7. CASE id \in mc[n].defs
      <4>1. Keeping(SpillDef(acc, n, id), n, d \ {id})
        BY <2>2, <2>3, <3>2, <3>4, <3>7, SpillDefKeeps
      <4> QED BY <2>1, <3>3, <3>6, <3>7, <4>1
    <3>8. CASE id \notin mc[n].defs  BY <2>1, <2>2, <3>3, <3>5, <3>6, <3>8
    <3> QED BY <3>7, <3>8
  <2>5. CASE ~(k <= turn)
    <3> DEFINE id == all[k - turn].id
    <3>1. k - turn \in 1..turn  BY <1>3, <2>5
    <3>2. id \in Ids(code)  BY <1>2, <3>1 DEF Ids
    <3>3. D(k) = d
      <4>1. \A i \in 1..turn : i <= k /\ i <= k - 1  BY <2>5
      <4>2. {i \in 1..turn : i <= k} = {i \in 1..turn : i <= k - 1}  BY <4>1
      <4> QED BY <4>2
    <3> HIDE DEF acc, d
    <3>4. h[k] = IF id \in mc[n].uses THEN ReloadUse(acc, n, id) ELSE acc
      BY <2>3, <2>5 DEF SpillStep
    <3> HIDE DEF id, D
    <3>5. CASE id \in mc[n].uses
      <4>1. Keeping(ReloadUse(acc, n, id), n, d)  BY <2>2, <2>3, <3>2, ReloadUseKeeps
      <4> QED BY <2>1, <3>3, <3>4, <3>5, <4>1
    <3>6. CASE id \notin mc[n].uses  BY <2>1, <2>2, <3>3, <3>4, <3>6
    <3> QED BY <3>5, <3>6
  <2> QED BY <2>4, <2>5
<1>8. Keeping(h[t], n, D(t))
  <2>1. t \in 0..t  OBVIOUS
  <2> HIDE DEF D
  <2>2. t \in G
    <3> HIDE DEF G
    <3> QED BY <1>6, <1>7, <2>1, Upwards
  <2> QED BY <2>2
<1> QED BY <1>4, <1>8

-----------------------------------------------------------------------------
(* Code in shape *)

\* What the code, the marks, the multichains and the slots in use are to each other.
Sound(cd, K, ch) ==
    \A x \in DOMAIN ch : \A id \in ch[x].defs :
        \E i \in InstrsOf(cd) : i.id = id /\ \E o \in Range(i.ops) : o.dest = x /\ o.id \notin K
Below(cd, z) == \A i \in InstrsOf(cd) : \A o \in Range(i.ops) : IsMemory(o) => o.slot < z
Shaped(cd, K, ch, z) ==
    /\ Once(cd) /\ Ended(cd) /\ K \subseteq Moves(cd) /\ Sound(cd, K, ch) /\ Below(cd, z)

LEMMA QuietBelow ==
    ASSUME NEW N, NEW cd \in Routine(N), Apart(cd), NEW z \in Nat, Below(cd, z)
    PROVE  Quiet(cd, 0..(z - 1))
<1> SUFFICES ASSUME NEW i \in InstrsOf(cd) PROVE OpsApart(i) /\ SlotsIn(i, 0..(z - 1))
  BY DEF Quiet
<1>1. OpsApart(i)  BY DEF Apart, OpsApart
<1>2. ASSUME NEW o \in Range(i.ops), IsMemory(o) PROVE o.slot \in 0..(z - 1)
  <2>1. o \in OpOver(N)  BY IdsIn
  <2>2. o.slot \in Nat  BY <2>1 DEF OpOver
  <2>3. o.slot < z  BY <1>2 DEF Below
  <2> QED BY <2>2, <2>3
<1> QED BY <1>1, <1>2 DEF SlotsIn

\* A routine that does not use a name.
LEMMA Narrowed ==
    ASSUME NEW N, NEW cd \in Routine(N), NEW n,
           \A i \in InstrsOf(cd) : \A o \in Range(i.ops) : o.dest # n /\ n \notin Range(o.srcs)
    PROVE  cd \in Routine(N \ {n})
<1> DEFINE M == N \ {n}
<1>1. ASSUME NEW b \in Block PROVE cd[b] \in Seq(InstrOver(M))
  <2>1. cd[b] \in Seq(InstrOver(N)) /\ Range(cd[b]) \subseteq InstrsOf(cd)
    BY DEF Routine, InstrsOf
  <2>2. ASSUME NEW i \in Range(cd[b]) PROVE i \in InstrOver(M)
    <3>1. i \in InstrsOf(cd) /\ i \in InstrOver(N)  BY <2>1, RoutineParts
    <3>2. i.ops \in Seq(OpOver(N)) /\ i.id \in Nat /\ i = [id |-> i.id, ops |-> i.ops]
      BY <3>1 DEF InstrOver
    <3>3. ASSUME NEW o \in Range(i.ops) PROVE o \in OpOver(M)
      <4>1. o \in OpOver(N) /\ o.dest # n /\ n \notin Range(o.srcs)  BY <3>1, IdsIn
      <4>2. o.srcs \in Seq(N)  BY <4>1 DEF OpOver
      <4>3. Range(o.srcs) \subseteq M  BY <4>1, <4>2, RangeOf
      <4>4. o.srcs \in Seq(M)
        <5> HIDE DEF M
        <5> QED BY <4>2, <4>3, SeqWithin
      <4> QED BY <4>1, <4>4 DEF OpOver
    <3>4. i.ops \in Seq(OpOver(M))
      <4>1. Range(i.ops) \subseteq OpOver(M)  BY <3>3
      <4> HIDE DEF M
      <4> QED BY <3>2, <4>1, SeqWithin
    <3> QED BY <3>2, <3>4 DEF InstrOver
  <2>3. Range(cd[b]) \subseteq InstrOver(M)  BY <2>2
  <2> HIDE DEF M
  <2> QED BY <2>1, <2>3, SeqWithin
<1>2. cd = [b \in Block |-> cd[b]]  BY DEF Routine
<1> HIDE DEF M
<1>3. cd \in Routine(M)  BY <1>1, <1>2 DEF Routine
<1> QED BY <1>3 DEF M

LEMMA SpillBegins ==
    ASSUME IInv, Apart(code), Shaped(code, {}, mc, slots), NEW n \in DOMAIN mc
    PROVE  Keeping(Spilling, n, mc[n].defs)
<1>1. DOMAIN <<>> = {}  OBVIOUS
<1>2. n \in Names /\ Names # {} /\ DOMAIN mc \subseteq Names  BY DEF IInv, Listed
<1>3. Grows(Spilling) /\ Spilling.code = code /\ Spilling.mc = <<>>
  BY <1>1, <1>2, EmptyOver DEF Grows, Spilling, IInv, Named, Names
<1>4. /\ Once(code) /\ Ended(code) /\ Sound(code, {}, mc) /\ Below(code, slots)
  BY DEF Shaped
<1>5. code \in Routine(Names) /\ slots \in Nat /\ None \notin Names
  BY DEF IInv, Named, NameSet, None
<1>6. ASSUME NEW i \in InstrsOf(code) PROVE SlotsIn(i, 0..slots) /\ Storing(i, slots) = {}
  <2>1. SlotsIn(i, 0..(slots - 1))  BY <1>4, <1>5, QuietBelow DEF Quiet
  <2>2. \A x \in 0..(slots - 1) : x \in 0..slots /\ x # slots  BY <1>5
  <2> QED BY <2>1, <2>2 DEF SlotsIn, Storing, IsMemory
<1>7. Ready(Spilling)  BY <1>3, <1>4, <1>6 DEF Ready, SlotFree
<1>8. ASSUME NEW x \in DOMAIN mc PROVE Defined(code, x, mc[x].defs)
  <2>1. x # None  BY <1>2, <1>5
  <2> QED BY <1>4, <2>1 DEF Sound, Defined, Defs
<1>9. Lists(code, mc, n) /\ Lists(code, <<>>, n)  BY <1>1, <1>8 DEF Lists
<1> QED BY <1>3, <1>7, <1>8, <1>9 DEF Keeping

LEMMA StartsAgree ==
    ASSUME NEW L, NEW Z, NEW M, L \subseteq M, NEW y, Z \subseteq 0..y,
           NEW N, L \subseteq N, NEW x, Z \subseteq 0..x, NEW n \in N, NEW z \in 0..x
    PROVE  Agree(StartOf(M, y), StartOf(N, x), L, Z) /\ Level(StartOf(N, x), n, z)
  BY DEF Agree, Level, StartOf

\* A spill leaves code and lists that are in shape, and code that means what it meant.
LEMMA SpillKeepsMeaning ==
    ASSUME IInv, Apart(code), Apart(code'), MovesAlone(code), Complete,
           Shaped(code, marked, mc, slots), Spill
    PROVE  /\ Shaped(code', marked', mc', slots') /\ marked = {} /\ marked' = {}
           /\ Names \subseteq DOMAIN class' /\ code' \in Routine(DOMAIN class') /\ None \notin DOMAIN class'
           /\ \A way \in Ways : Meaning(StartOf(DOMAIN class', slots'), code', way)
                                  = Meaning(StartOf(Names, slots), code, way)
<1> DEFINE n == Last(nodesToSpill)
           done == SpillsReloads(n)
<1>1. /\ phase = "spill" /\ nodesToSpill # <<>>
      /\ code' = done.code /\ class' = done.class /\ slots' = slots + 1 /\ marked' = marked
      /\ mc' = [m \in (DOMAIN mc \ {n}) \cup DOMAIN done.mc |->
                  IF m \in DOMAIN done.mc THEN done.mc[m] ELSE mc[m]]
  BY DEF Spill
<1>2. /\ n \in DOMAIN mc /\ DOMAIN mc \subseteq Names
  <2>1. nodesToSpill \in Seq(DOMAIN mc) /\ Distinct(nodesToSpill) /\ DOMAIN mc \subseteq Names
    BY DEF IInv, Listed
  <2>2. n \in Range(nodesToSpill)  BY <1>1, <2>1, Popped
  <2>3. Range(nodesToSpill) \subseteq DOMAIN mc  BY <2>1, RangeOf
  <2> QED BY <2>1, <2>2, <2>3
<1> HIDE DEF n
<1>3. marked = {} /\ ListedBy(code, mc, {})  BY <1>1 DEF Complete, IInv, Phases
<1>4. /\ code \in Routine(Names) /\ slots \in Nat /\ None \notin Names /\ Names \subseteq Nat
      /\ n \in Names /\ Named /\ Names # {}
  BY <1>2 DEF IInv, Named, NameSet, None
<1>5. Shaped(code, {}, mc, slots)  BY <1>3
<1>6. Keeping(Spilling, n, mc[n].defs)  BY <1>2, <1>5, SpillBegins
<1>7. PICK ids : Keeping(done, n, ids)
  <2>1. Once(code)  BY <1>5 DEF Shaped
  <2> QED BY <1>2, <1>4, <1>6, <2>1, SpillsReloadsKeep
<1>8. SpillListed(done.code, done.mc, n, {}, {})
  <2>1. \A i \in InstrsOf(code) : i.id \in Ids(code)  BY DEF Ids
  <2>2. SpillListed(code, <<>>, n, Ids(code), Ids(code))
    BY <1>3, <2>1 DEF ListedBy, SpillListed
  <2> QED BY <1>2, <1>4, <2>2, SpillsReloadsList
<1> HIDE DEF done
<1>9. /\ Ready(done) /\ Lists(done.code, mc, n) /\ Lists(done.code, done.mc, n)
      /\ \A way \in Ways : TiedMeaning(StartOf(Nat, slots), done.code, way, n, slots)
                             = TiedMeaning(StartOf(Nat, slots), code, way, n, slots)
  BY <1>7 DEF Keeping
<1> DEFINE M == DOMAIN done.class
<1>10. /\ NameSet(M) /\ done.code \in Routine(M) /\ Names \subseteq M
       /\ DOMAIN done.mc = M \ Names
  BY <1>9 DEF Ready, Grows
<1>11. None \notin M /\ M \subseteq Nat  BY <1>10 DEF NameSet, None
<1>12. Sound(done.code, {}, mc')
  <2> SUFFICES ASSUME NEW x \in DOMAIN mc', NEW id \in mc'[x].defs
               PROVE  \E i \in InstrsOf(done.code) :
                        i.id = id /\ \E o \in Range(i.ops) : o.dest = x /\ o.id \notin {}
    BY DEF Sound
  <2>1. Defined(done.code, x, mc'[x].defs)
    <3>1. CASE x \in DOMAIN done.mc
      <4>1. mc'[x] = done.mc[x] /\ x # n  BY <1>1, <1>4, <1>10, <3>1
      <4> QED BY <1>9, <3>1, <4>1 DEF Lists
    <3>2. CASE x \notin DOMAIN done.mc
      <4>1. x \in DOMAIN mc /\ x # n /\ mc'[x] = mc[x]  BY <1>1, <3>2
      <4> QED BY <1>9, <4>1 DEF Lists
    <3> QED BY <3>1, <3>2
  <2>2. PICK i \in InstrsOf(done.code) : i.id = id /\ x \in Defs(i)  BY <2>1 DEF Defined
  <2> QED BY <2>2 DEF Defs
<1>13. Below(done.code, slots + 1)
  <2>1. \A i \in InstrsOf(done.code) : SlotsIn(i, 0..slots)  BY <1>9 DEF Ready
  <2>2. \A x \in 0..slots : x < slots + 1  BY <1>4
  <2> QED BY <2>1, <2>2 DEF SlotsIn, Below
<1>14. Shaped(done.code, {}, mc', slots + 1)
  BY <1>9, <1>12, <1>13 DEF Shaped, Ready
<1>15. ASSUME NEW way \in Ways
       PROVE  Meaning(StartOf(Names, slots), code, way)
                = TiedMeaning(StartOf(Nat, slots), code, way, n, slots)
  <2> DEFINE Z == 0..(slots - 1)
  <2>1. Quiet(code, Z)  BY <1>4, <1>5, QuietBelow DEF Shaped
  <2>2. Z \subseteq 0..slots /\ slots \notin Z /\ slots \in 0..slots  BY <1>4
  <2> HIDE DEF Z
  <2> DEFINE s == StartOf(Names, slots)
             t == StartOf(Nat, slots)
  <2>3. Agree(s, t, Names, Z) /\ Level(t, n, slots)
    <3> DEFINE N == Nat
    <3>1. Names \subseteq N /\ n \in N  BY <1>4
    <3> HIDE DEF Z, N
    <3> QED BY <2>2, <3>1, StartsAgree DEF N
  <2> HIDE DEF Z, s, t
  <2>4. Meaning(s, code, way) = TiedMeaning(t, code, way, n, slots)
    BY <1>4, <2>1, <2>2, <2>3, TiedMeans
  <2> QED BY <2>4 DEF s, t
<1>16. ASSUME NEW way \in Ways
       PROVE  Meaning(StartOf(M, slots + 1), done.code, way)
                = TiedMeaning(StartOf(Nat, slots), done.code, way, n, slots)
  <2> DEFINE L == M \ {n}
             Z == 0..slots
             N == Nat
             y == slots + 1
  <2>1. done.code \in Routine(L)
    <3>1. n \notin DOMAIN done.mc /\ n # None  BY <1>4, <1>10
    <3>2. \A i \in InstrsOf(done.code) : \A o \in Range(i.ops) : o.dest # n /\ n \notin Range(o.srcs)
      BY <1>8, <3>1 DEF SpillListed
    <3> HIDE DEF M
    <3> QED BY <1>10, <3>2, Narrowed
  <2>2. Quiet(done.code, Z)
    <3>1. Apart(done.code) /\ \A i \in InstrsOf(done.code) : SlotsIn(i, Z)  BY <1>9 DEF Ready
    <3> QED BY <3>1 DEF Quiet, Apart, OpsApart
  <2>3. Z \subseteq 0..y /\ slots \in Z /\ n \notin L /\ n # None  BY <1>4
  <2>4. None \notin L /\ L \subseteq M /\ L \subseteq N /\ n \in N  BY <1>4, <1>11
  <2>5. Z = 0..slots  OBVIOUS
  <2> DEFINE s == StartOf(M, y)
             t == StartOf(N, slots)
  <2> HIDE DEF L, Z, N, y, M
  <2>6. Agree(s, t, L, Z) /\ Level(t, n, slots)
    BY <2>3, <2>4, <2>5, StartsAgree
  <2> HIDE DEF s, t
  <2>7. Meaning(s, done.code, way) = TiedMeaning(t, done.code, way, n, slots)
    BY <2>1, <2>2, <2>3, <2>4, <2>6, TiedMeans
  <2> QED BY <2>7 DEF N, y, s, t
<1>17. \A way \in Ways : Meaning(StartOf(M, slots + 1), done.code, way)
                           = Meaning(StartOf(Names, slots), code, way)
  BY <1>9, <1>15, <1>16
<1> QED BY <1>1, <1>3, <1>10, <1>11, <1>14, <1>17

\* What a deletion leaves of a block, in place.
LeftIn(e, u, q) ==
    /\ Len(u) \in Nat /\ DOMAIN u = 1..Len(u) /\ Len(q) \in Nat /\ DOMAIN q = 1..Len(q)
    /\ \A k \in 1..Len(u) : e[k] \in 1..Len(q) /\ u[k] = Left(q[e[k]], marked)
    /\ \A j, k \in 1..Len(u) : j < k => e[j] < e[k]
    /\ \A i \in 1..Len(q) : Left(q[i], marked).ops # <<>> => \E k \in 1..Len(u) : e[k] = i

LEMMA UnmarkedBlock ==
    ASSUME NEW N, NEW cd \in Routine(N), NEW b \in Block
    PROVE  \E e : LeftIn(e, Unmarked(cd)[b], cd[b])
<1> DEFINE q == cd[b]
           s == [k \in DOMAIN q |-> Left(q[k], marked)]
           T == {i \in Range(s) : i.ops # <<>>}
           u == Kept(s, T)
<1>1. Unmarked(cd)[b] = u  BY DEF Unmarked, Left
<1>2. q \in Seq(InstrOver(N))  BY DEF Routine
<1>3. PICK l \in Nat : l = Len(q) /\ DOMAIN q = 1..l /\ \A k \in 1..l : q[k] \in InstrOver(N)
  BY <1>2, RangeOf, ElementOfSeq
<1>4. s \in Seq(InstrOver(N)) /\ Len(s) = l
  <2>1. s \in [1..l -> InstrOver(N)]  BY <1>3, LeftOf
  <2> HIDE DEF s
  <2> QED BY <1>3, <2>1, GroupSeq
<1>5. \A k \in 1..l : s[k] = Left(q[k], marked) /\ s[k] \in Range(s)  BY <1>3 DEF Range
<1> HIDE DEF s
<1>6. u \in Seq(InstrOver(N))  BY <1>4, KeptMembers
<1>7. PICK e : KeptBy(e, u, s, T)  BY <1>4, KeptInPlace
<1>8. \A i \in 1..l : Left(q[i], marked).ops # <<>> => s[i] \in T  BY <1>5
<1> HIDE DEF T, u
<1>9. PICK m \in Nat : m = Len(u) /\ DOMAIN u = 1..m  BY <1>6, RangeOf
<1>10. /\ e \in [0..(m + 1) -> 0..(l + 1)] /\ e[0] = 0 /\ e[m + 1] = l + 1
       /\ \A j, k \in 0..(m + 1) : j < k => e[j] < e[k]
       /\ \A k \in 1..m : u[k] = s[e[k]]
       /\ \A i \in 1..l : s[i] \in T => \E k \in 1..m : e[k] = i
  BY <1>4, <1>7, <1>9 DEF KeptBy
<1>11. ASSUME NEW k \in 1..m PROVE e[k] \in 1..l
  <2>1. k \in 0..(m + 1) /\ 0 \in 0..(m + 1) /\ m + 1 \in 0..(m + 1) /\ 0 < k /\ k < m + 1
    OBVIOUS
  <2>2. e[0] < e[k] /\ e[k] < e[m + 1] /\ e[k] \in 0..(l + 1)  BY <1>10, <2>1
  <2> QED BY <1>10, <2>2
<1>12. \A j \in 1..m : j \in 0..(m + 1)  OBVIOUS
<1>13. LeftIn(e, u, q)
  BY <1>3, <1>5, <1>8, <1>9, <1>10, <1>11, <1>12 DEF LeftIn
<1> QED BY <1>1, <1>13

LEMMA DeleteShapes ==
    ASSUME NEW N, NEW cd \in Routine(N), Apart(cd), NEW ch, NEW z, Shaped(cd, marked, ch, z)
    PROVE  Shaped(Unmarked(cd), {}, ch, z)
<1> DEFINE ce == Unmarked(cd)
<1>1. /\ Once(cd) /\ Ended(cd) /\ marked \subseteq Moves(cd) /\ Sound(cd, marked, ch) /\ Below(cd, z)
  BY DEF Shaped
<1> DEFINE e(b) == CHOOSE f : LeftIn(f, ce[b], cd[b])
<1>2. ASSUME NEW b \in Block PROVE LeftIn(e(b), ce[b], cd[b])
  <2>1. \E f : LeftIn(f, ce[b], cd[b])  BY UnmarkedBlock
  <2> HIDE DEF ce
  <2> QED BY <2>1
<1> HIDE DEF e
<1>3. ASSUME NEW i \in InstrsOf(cd)
      PROVE  /\ Left(i, marked).id = i.id
             /\ Range(Left(i, marked).ops) = {o \in Range(i.ops) : o.id \notin marked}
             /\ Left(i, marked).ops # <<>> <=> Range(Left(i, marked).ops) # {}
  <2>1. i \in InstrOver(N)  BY RoutineParts
  <2> DEFINE j == Left(i, marked)
  <2>2. /\ j \in InstrOver(N) /\ j.id = i.id
        /\ Range(j.ops) = {o \in Range(i.ops) : o.id \notin marked}
    BY <2>1, LeftOf
  <2> HIDE DEF j
  <2>3. j.ops \in Seq(OpOver(N))  BY <2>2 DEF InstrOver
  <2>4. j.ops # <<>> <=> Range(j.ops) # {}
    <3> DEFINE t == j.ops
    <3>1. PICK l \in Nat : l = Len(t) /\ DOMAIN t = 1..l  BY <2>3, RangeOf
    <3>2. t = <<>> <=> l = 0  BY <2>3, <3>1, EmptySeq
    <3> HIDE DEF t
    <3>3. l = 0 <=> 1..l = {}
      <4>1. l # 0 => 1 \in 1..l  OBVIOUS
      <4>2. l = 0 => 1..l = {}  OBVIOUS
      <4> QED BY <4>1, <4>2
    <3>4. 1..l = {} <=> Range(t) = {}  BY <3>1 DEF Range
    <3> QED BY <3>2, <3>3, <3>4 DEF t
  <2> QED BY <2>2, <2>4 DEF j
<1> HIDE DEF ce
<1>4. ASSUME NEW b \in Block, NEW k \in DOMAIN cd[b] PROVE cd[b][k] \in InstrsOf(cd)
  BY DEF InstrsOf, Range
<1>5. Once(ce)
  <2> SUFFICES ASSUME NEW b \in Block, NEW c \in Block, NEW j \in DOMAIN ce[b], NEW k \in DOMAIN ce[c],
                      ce[b][j].id = ce[c][k].id
               PROVE  b = c /\ j = k
    BY DEF Once
  <2>1. LeftIn(e(b), ce[b], cd[b]) /\ LeftIn(e(c), ce[c], cd[c])  BY <1>2
  <2>2. e(b)[j] \in DOMAIN cd[b] /\ ce[b][j] = Left(cd[b][e(b)[j]], marked)  BY <2>1 DEF LeftIn
  <2>3. e(c)[k] \in DOMAIN cd[c] /\ ce[c][k] = Left(cd[c][e(c)[k]], marked)  BY <2>1 DEF LeftIn
  <2>4. cd[b][e(b)[j]].id = cd[c][e(c)[k]].id  BY <1>3, <1>4, <2>2, <2>3
  <2>5. b = c /\ e(b)[j] = e(c)[k]  BY <1>1, <2>2, <2>3, <2>4 DEF Once
  <2>6. PICK l \in Nat : l = Len(ce[b]) /\ DOMAIN ce[b] = 1..l
                         /\ \A x, y \in 1..l : x < y => e(b)[x] < e(b)[y]
    BY <2>1 DEF LeftIn
  <2>7. j \in 1..l /\ k \in 1..l /\ e(b)[j] \in Nat
    <3>1. e(b)[j] \in 1..Len(cd[b]) /\ Len(cd[b]) \in Nat  BY <2>1, <2>2 DEF LeftIn
    <3> QED BY <2>5, <2>6, <3>1
  <2>8. ~(j < k) /\ ~(k < j)  BY <2>5, <2>6, <2>7
  <2> QED BY <2>5, <2>7, <2>8
<1>6. ASSUME NEW i \in InstrsOf(cd), NEW o \in Range(i.ops), o.id \notin marked
      PROVE  \E j \in InstrsOf(ce) : j = Left(i, marked) /\ o \in Range(j.ops)
  <2>1. PICK b \in Block : i \in Range(cd[b])  BY DEF InstrsOf
  <2>2. PICK k \in DOMAIN cd[b] : i = cd[b][k]  BY <2>1 DEF Range
  <2>3. o \in Range(Left(i, marked).ops) /\ Left(i, marked).ops # <<>>  BY <1>3, <1>6
  <2>4. LeftIn(e(b), ce[b], cd[b])  BY <1>2
  <2>5. PICK l \in 1..Len(ce[b]) : e(b)[l] = k  BY <2>2, <2>3, <2>4 DEF LeftIn
  <2>6. l \in DOMAIN ce[b] /\ ce[b][l] = Left(i, marked)  BY <2>2, <2>4, <2>5 DEF LeftIn
  <2>7. Left(i, marked) \in InstrsOf(ce)  BY <2>6 DEF InstrsOf, Range
  <2> QED BY <2>3, <2>7
<1>7. Sound(ce, {}, ch)
  <2> SUFFICES ASSUME NEW x \in DOMAIN ch, NEW id \in ch[x].defs
               PROVE  \E j \in InstrsOf(ce) : j.id = id /\ \E o \in Range(j.ops) : o.dest = x /\ o.id \notin {}
    BY DEF Sound
  <2>1. PICK i \in InstrsOf(cd) : i.id = id /\ \E o \in Range(i.ops) : o.dest = x /\ o.id \notin marked
    BY <1>1 DEF Sound
  <2>2. PICK o \in Range(i.ops) : o.dest = x /\ o.id \notin marked  BY <2>1
  <2>3. PICK j \in InstrsOf(ce) : j = Left(i, marked) /\ o \in Range(j.ops)  BY <1>6, <2>2
  <2> QED BY <1>3, <2>1, <2>2, <2>3
<1>8. Below(ce, z)
  <2> SUFFICES ASSUME NEW j \in InstrsOf(ce), NEW o \in Range(j.ops), IsMemory(o) PROVE o.slot < z
    BY DEF Below
  <2>1. PICK i \in InstrsOf(cd) : j = Left(i, marked)  BY ApartUnmarked DEF ce
  <2>2. o \in Range(i.ops)  BY <1>3, <2>1
  <2> QED BY <1>1, <2>2 DEF Below
\* What ends a block is no move, so that nothing is deleted of it.
<1>9. ASSUME NEW i \in InstrsOf(cd), Closes(i)
      PROVE  Closes(Left(i, marked)) /\ Left(i, marked).ops # <<>>
  <2>1. ASSUME NEW o \in Range(i.ops) PROVE o.id \notin marked
    <3> SUFFICES ASSUME o.id \in marked PROVE FALSE  OBVIOUS
    <3>1. PICK p \in OpsOf(cd) : IsMove(p) /\ p.id = o.id  BY <1>1 DEF Moves
    <3>2. PICK h \in InstrsOf(cd) : p \in Range(h.ops)  BY DEF OpsOf
    <3>3. o = p  BY <3>1, <3>2 DEF Apart
    <3>4. p \in OpOver(N)  BY <3>2, IdsIn
    <3>5. o.dest # None  BY <3>1, <3>3, <3>4 DEF OpOver
    <3> QED BY <1>9, <3>5 DEF Closes, Defs
  <2>2. Range(Left(i, marked).ops) = Range(i.ops)  BY <1>3, <2>1
  <2> QED BY <1>3, <1>9, <2>2 DEF Closes, Defs
<1>10. Ended(ce)
  <2> SUFFICES ASSUME NEW b \in Block, Critical(b)
               PROVE  \E k \in DOMAIN ce[b] : k = Len(ce[b]) /\ Closes(ce[b][k])
    BY DEF Ended
  <2>1. PICK x \in DOMAIN cd[b] : x = Len(cd[b]) /\ Closes(cd[b][x])  BY <1>1 DEF Ended
  <2>2. Closes(Left(cd[b][x], marked)) /\ Left(cd[b][x], marked).ops # <<>>  BY <1>4, <1>9, <2>1
  <2>3. LeftIn(e(b), ce[b], cd[b])  BY <1>2
  <2>4. PICK l \in Nat, m \in Nat :
          /\ l = Len(ce[b]) /\ DOMAIN ce[b] = 1..l /\ m = Len(cd[b]) /\ DOMAIN cd[b] = 1..m
    BY <2>3 DEF LeftIn
  <2>5. PICK k \in 1..l : e(b)[k] = x  BY <2>1, <2>2, <2>3, <2>4 DEF LeftIn
  <2>6. k = l
    <3> SUFFICES ASSUME k < l PROVE FALSE  BY <2>4, <2>5
    <3>1. e(b)[k] < e(b)[l] /\ e(b)[l] \in 1..m  BY <2>3, <2>4, <2>5 DEF LeftIn
    <3>2. x = m  BY <2>1, <2>4
    <3> QED BY <2>4, <2>5, <3>1, <3>2
  <2>7. ce[b][k] = Left(cd[b][x], marked)  BY <2>3, <2>4, <2>5 DEF LeftIn
  <2> QED BY <2>2, <2>4, <2>5, <2>6, <2>7
<1>11. {} \subseteq Moves(ce)  OBVIOUS
<1>12. Shaped(ce, {}, ch, z)  BY <1>5, <1>7, <1>8, <1>10, <1>11 DEF Shaped
<1> QED BY <1>12 DEF ce

LEMMA RenamedBelow ==
    ASSUME NEW N, NEW cd \in Routine(N), NEW z, Below(cd, z), NEW defs, NEW uses, NEW n, NEW m
    PROVE  Below(Renamed(cd, defs, uses, n, m), z)
<1> DEFINE ce == Renamed(cd, defs, uses, n, m)
<1> SUFFICES ASSUME NEW j \in InstrsOf(ce), NEW p \in Range(j.ops), IsMemory(p) PROVE p.slot < z
  BY DEF Below
<1>1. PICK i \in InstrsOf(cd) :
        /\ DOMAIN j.ops = DOMAIN i.ops
        /\ \A k \in DOMAIN i.ops : j.ops[k] = OpAfter(i, i.ops[k], defs, uses, n, m)
  BY InstrsRenamed
<1> HIDE DEF ce
<1>2. PICK k \in DOMAIN i.ops : p = OpAfter(i, i.ops[k], defs, uses, n, m)  BY <1>1 DEF Range
<1>3. p.slot = i.ops[k].slot /\ p.kind = i.ops[k].kind  BY <1>2 DEF OpAfter
<1>4. i.ops[k] \in Range(i.ops)  BY DEF Range
<1> QED BY <1>3, <1>4 DEF Below, IsMemory

\* The lists of a merge: the names of both, without the move's instruction.
LEMMA MergeShapes ==
    ASSUME NEW N, NEW cd \in Routine(N), Apart(cd), NEW K, NEW ch, NEW z, Shaped(cd, K, ch, z),
           NEW i \in InstrsOf(cd), NEW o \in Range(i.ops), IsMove(o),
           NEW def \in DOMAIN ch, def = o.dest, def # None, NEW use \in N, use # None, NEW uses,
           NEW cj, DOMAIN cj \subseteq DOMAIN ch \ {def}, \A x \in DOMAIN cj : x # use => cj[x] = ch[x],
           use \in DOMAIN cj => cj[use].defs \subseteq (ch[use].defs \cup ch[def].defs) \ {i.id}
    PROVE  Shaped(Renamed(cd, ch[def].defs, uses, def, use), K \cup {o.id}, cj, z)
<1> DEFINE D == ch[def].defs
           ce == Renamed(cd, D, uses, def, use)
<1>1. /\ Once(cd) /\ Ended(cd) /\ K \subseteq Moves(cd) /\ Sound(cd, K, ch) /\ Below(cd, z)
  BY DEF Shaped
<1>2. AlikeAll(cd, ce)  BY RenamedOf
<1>3. Once(ce) /\ Moves(ce) = Moves(cd)
  <2> HIDE DEF ce
  <2> QED BY <1>1, <1>2, OnceRenamed, SameMoves
<1>4. Ended(ce) /\ Below(ce, z)  BY <1>1, EndedRenamed, RenamedBelow
<1>5. K \cup {o.id} \subseteq Moves(ce)
  <2>1. o.id \in Moves(cd)  BY DEF Moves, OpsOf
  <2> QED BY <1>1, <1>3, <2>1
<1>6. Sound(ce, K \cup {o.id}, cj)
  <2> SUFFICES ASSUME NEW x \in DOMAIN cj, NEW id \in cj[x].defs
               PROVE  \E j \in InstrsOf(ce) :
                        j.id = id /\ \E p \in Range(j.ops) : p.dest = x /\ p.id \notin K \cup {o.id}
    BY DEF Sound
  \* Which instruction, and which of its operations, gave the id.
  <2>1. \E h \in InstrsOf(cd) : h.id = id /\ \E p \in Range(h.ops) :
          /\ p.id \notin K /\ p.id # o.id
          /\ x = IF h.id \in D /\ p.dest = def THEN use ELSE p.dest
    <3>1. CASE id \in ch[x].defs
      <4>1. x \in DOMAIN ch /\ x # def  OBVIOUS
      <4>2. PICK h \in InstrsOf(cd) : h.id = id /\ \E p \in Range(h.ops) : p.dest = x /\ p.id \notin K
        BY <1>1, <3>1, <4>1 DEF Sound
      <4>3. PICK p \in Range(h.ops) : p.dest = x /\ p.id \notin K  BY <4>2
      <4>4. p.id # o.id  BY <4>1, <4>3 DEF Apart
      <4> QED BY <4>1, <4>2, <4>3, <4>4
    <3>2. CASE id \notin ch[x].defs
      <4>1. x = use /\ id \in D /\ id # i.id  BY <3>2
      <4>2. PICK h \in InstrsOf(cd) : h.id = id /\ \E p \in Range(h.ops) : p.dest = def /\ p.id \notin K
        BY <1>1, <4>1 DEF Sound
      <4>3. PICK p \in Range(h.ops) : p.dest = def /\ p.id \notin K  BY <4>2
      <4>4. p.id # o.id  BY <4>1, <4>2 DEF Apart
      <4> QED BY <4>1, <4>2, <4>3, <4>4
    <3> QED BY <3>1, <3>2
  <2>2. PICK h \in InstrsOf(cd) : h.id = id /\ \E p \in Range(h.ops) :
          /\ p.id \notin K /\ p.id # o.id
          /\ x = IF h.id \in D /\ p.dest = def THEN use ELSE p.dest
    BY <2>1
  <2>3. PICK p \in Range(h.ops) :
          /\ p.id \notin K /\ p.id # o.id
          /\ x = IF h.id \in D /\ p.dest = def THEN use ELSE p.dest
    BY <2>2
  <2> DEFINE q == OpAfter(h, p, D, uses, def, use)
  <2>4. PICK b \in Block : \E j \in Range(ce[b]) : j.id = h.id /\ q \in Range(j.ops)
    BY RenamedHas
  <2>5. PICK j \in Range(ce[b]) : j.id = h.id /\ q \in Range(j.ops)  BY <2>4
  <2>6. q.id = p.id /\ q.dest = x  BY <2>3 DEF OpAfter
  <2> HIDE DEF q, ce
  <2>7. j \in InstrsOf(ce)  BY DEF InstrsOf
  <2> QED BY <2>2, <2>3, <2>5, <2>6, <2>7
<1> QED BY <1>3, <1>4, <1>5, <1>6 DEF Shaped

LEMMA RemoveShapes ==
    ASSUME NEW cd, Apart(cd), NEW K, NEW ch, NEW z, Shaped(cd, K, ch, z),
           NEW i \in InstrsOf(cd), NEW o \in Range(i.ops), IsMove(o),
           NEW cj, DOMAIN cj = DOMAIN ch, \A x \in DOMAIN ch : cj[x].defs \subseteq ch[x].defs,
           o.dest \in DOMAIN ch => i.id \notin cj[o.dest].defs
    PROVE  Shaped(cd, K \cup {o.id}, cj, z)
<1>1. /\ Once(cd) /\ Ended(cd) /\ K \subseteq Moves(cd) /\ Sound(cd, K, ch) /\ Below(cd, z)
  BY DEF Shaped
<1>2. o.id \in Moves(cd)  BY DEF Moves, OpsOf
<1>3. Sound(cd, K \cup {o.id}, cj)
  <2> SUFFICES ASSUME NEW x \in DOMAIN cj, NEW id \in cj[x].defs
               PROVE  \E j \in InstrsOf(cd) :
                        j.id = id /\ \E p \in Range(j.ops) : p.dest = x /\ p.id \notin K \cup {o.id}
    BY DEF Sound
  <2>1. x \in DOMAIN ch /\ id \in ch[x].defs  OBVIOUS
  <2>2. PICK j \in InstrsOf(cd) : j.id = id /\ \E p \in Range(j.ops) : p.dest = x /\ p.id \notin K
    BY <1>1, <2>1 DEF Sound
  <2>3. PICK p \in Range(j.ops) : p.dest = x /\ p.id \notin K  BY <2>2
  <2>4. p.id # o.id
    <3> SUFFICES ASSUME p.id = o.id PROVE FALSE  OBVIOUS
    <3>1. j = i /\ p = o  BY DEF Apart
    <3> QED BY <2>1, <2>2, <2>3, <3>1
  <2> QED BY <2>2, <2>3, <2>4
<1> QED BY <1>1, <1>2, <1>3 DEF Shaped

LEMMA ChainsShapes ==
    ASSUME IInv, Shaped(code, {}, mc, slots), Chains
    PROVE  Shaped(code, {}, mc', slots)
<1>1. \A x \in DOMAIN mc' : mc'[x].defs = {i.id : i \in {i \in InstrsOf(code) : x \in Defs(i)}}
  BY DEF Chains
<1>2. Sound(code, {}, mc')
  <2> SUFFICES ASSUME NEW x \in DOMAIN mc', NEW id \in mc'[x].defs
               PROVE  \E i \in InstrsOf(code) :
                        i.id = id /\ \E o \in Range(i.ops) : o.dest = x /\ o.id \notin {}
    BY DEF Sound
  <2>1. PICK i \in InstrsOf(code) : x \in Defs(i) /\ i.id = id  BY <1>1
  <2> QED BY <2>1 DEF Defs
<1> QED BY <1>2 DEF Shaped

LEMMA CoalesceShapes ==
    ASSUME IInv, Apart(code), Complete, Shaped(code, marked, mc, slots), CoalesceOper
    PROVE  Shaped(code', marked', mc', slots')
<1>1. phase = "coalesce" /\ ListedBy(code, mc, marked) /\ code \in Routine(Names) /\ slots' = slots
      /\ Named /\ None \notin Names
  BY DEF CoalesceOper, Complete, IInv, Named, NameSet, None
<1>2. PICK i \in InstrsOf(code) : \E o \in Range(i.ops) :
         /\ IsMove(o) /\ o.id \in pending
         /\ \/ /\ o.dest = Head(o.srcs)
               /\ RemoveMove(o.dest, i.id)
               /\ marked' = marked \cup {o.id}
            \/ /\ o.dest # Head(o.srcs)
               /\ Coalesce(o.dest, Head(o.srcs), i.id)
               /\ marked' = marked \cup {o.id}
            \/ UNCHANGED <<code, mc, color, edges, nodes, marked>>
  BY DEF CoalesceOper
<1>3. PICK o \in Range(i.ops) :
         /\ IsMove(o) /\ o.id \in pending
         /\ \/ /\ o.dest = Head(o.srcs)
               /\ RemoveMove(o.dest, i.id)
               /\ marked' = marked \cup {o.id}
            \/ /\ o.dest # Head(o.srcs)
               /\ Coalesce(o.dest, Head(o.srcs), i.id)
               /\ marked' = marked \cup {o.id}
            \/ UNCHANGED <<code, mc, color, edges, nodes, marked>>
  BY <1>2
<1>4. o.id \notin marked  BY <1>3 DEF IInv, MovesToCome
<1> DEFINE ch == mc'
           K == marked \cup {o.id}
<1>5. CASE RemoveMove(o.dest, i.id) /\ marked' = K
  <2> DEFINE n == o.dest
  <2>1. /\ code' = code
        /\ mc' = [mc EXCEPT ![n].defs = @ \ {i.id}, ![n].noDefs = @ - 1,
                            ![n].uses = @ \ {i.id}, ![n].noUses = @ - 1]
    BY <1>5 DEF RemoveMove
  <2>2. n = o.dest  OBVIOUS
  <2> HIDE DEF n
  <2>3. /\ DOMAIN ch = DOMAIN mc /\ \A x \in DOMAIN mc : ch[x].defs \subseteq mc[x].defs
        /\ n \in DOMAIN mc => i.id \notin ch[n].defs
    BY <2>1
  <2> HIDE DEF ch
  <2>4. Shaped(code, K, ch, slots)  BY <1>3, <2>2, <2>3, RemoveShapes
  <2> QED BY <1>1, <1>5, <2>1, <2>4 DEF ch
<1>6. CASE /\ o.dest # Head(o.srcs) /\ Coalesce(o.dest, Head(o.srcs), i.id) /\ marked' = K
  <2> DEFINE def == o.dest
             use == Head(o.srcs)
             J == Joined(def, use, code', i.id)
             ce == Renamed(code, mc[def].defs, mc[def].uses, def, use)
  <2>1. /\ code' = ce
        /\ mc' = [n \in DOMAIN mc \ {def} |-> IF n = use THEN J ELSE mc[n]]
    BY <1>6 DEF Coalesce
  <2>2. J.defs = (mc[use].defs \cup mc[def].defs) \ {i.id}  BY DEF Joined
  <2>3. use \in Names /\ use # None /\ def # use /\ def = o.dest  BY <1>1, <1>3, <1>6, MoveOver
  <2>4. def # None /\ def \in DOMAIN mc
    <3>1. o \in OpOver(Names)  BY <1>1, MoveOver
    <3>2. o.dest # None  BY <1>3, <3>1 DEF OpOver
    <3> QED BY <1>1, <1>4, <3>2 DEF ListedBy
  <2> HIDE DEF def, use, J
  <2>5. /\ DOMAIN ch \subseteq DOMAIN mc \ {def}
        /\ \A x \in DOMAIN ch : x # use => ch[x] = mc[x]
        /\ use \in DOMAIN ch => ch[use].defs \subseteq (mc[use].defs \cup mc[def].defs) \ {i.id}
    BY <2>1, <2>2
  <2> DEFINE uses == mc[def].uses
  <2>6. ce = Renamed(code, mc[def].defs, uses, def, use)  OBVIOUS
  <2> HIDE DEF ch, uses, ce
  <2>7. Shaped(Renamed(code, mc[def].defs, uses, def, use), K, ch, slots)
    BY <1>1, <1>3, <2>3, <2>4, <2>5, MergeShapes
  <2> QED BY <1>1, <1>6, <2>1, <2>6, <2>7 DEF ch
<1>7. CASE UNCHANGED <<code, mc, color, edges, nodes, marked>>
  BY <1>1, <1>7
<1> QED BY <1>3, <1>5, <1>6, <1>7

LEMMA StaysShaped ==
    ASSUME IInv, Apart(code), Apart(code'), MovesAlone(code), Complete,
           Shaped(code, marked, mc, slots), [Next]_vars
    PROVE  Shaped(code', marked', mc', slots')
<1>1. CASE Chains
  <2>1. marked = {} /\ marked' = {} /\ code' = code /\ slots' = slots
    BY <1>1 DEF Chains, IInv, Phases
  <2> QED BY <1>1, <2>1, ChainsShapes
<1>2. CASE CoalesceOper  BY <1>2, CoalesceShapes
<1>3. CASE DeleteUselessIR
  <2>1. /\ code' = Unmarked(code) /\ marked' = {} /\ mc' = mc /\ slots' = slots
        /\ code \in Routine(Names)
    BY <1>3 DEF DeleteUselessIR, IInv, Named
  <2>2. Shaped(Unmarked(code), {}, mc, slots)  BY <2>1, DeleteShapes
  <2> QED BY <2>1, <2>2
<1>4. CASE Spill  BY <1>4, SpillKeepsMeaning
<1>5. CASE Build \/ Simplify \/ Select \/ Restart \/ UNCHANGED vars
  BY <1>5 DEF Build, Simplify, Select, Restart, vars
<1> QED BY <1>1, <1>2, <1>3, <1>4, <1>5 DEF Next, Stopped

-----------------------------------------------------------------------------
(* What allocation keeps, spills included *)

\* The routine as it was means the same from every start.
LEMMA ProgramMeans ==
    ASSUME NEW p \in Programs, NEW M, Name \subseteq M, NEW y, NEW way \in Ways
    PROVE  Meaning(StartOf(M, y), p, way) = TiedMeaning(StartOf(Nat, 0), p, way, 0, 0)
<1> DEFINE s == StartOf(M, y)
           t == StartOf(Nat, 0)
           n == 0
           z == 0
           Z == {}
           L == Name
<1>1. p \in Routine(L) /\ None \notin L /\ L \subseteq Nat
  BY ProgramIs, RegAllocAssumption DEF None
<1>2. Quiet(p, Z)
  <2>1. Apart(p)  BY ProgramsAssumption
  <2>2. \A i \in InstrsOf(p) : \A o \in Range(i.ops) : ~IsMemory(o)  BY ProgramIs DEF IsMemory
  <2> QED BY <2>1, <2>2 DEF Quiet, Apart, OpsApart, SlotsIn
<1>3. Agree(s, t, L, Z) /\ Level(t, n, z)
  <2>1. s.read = t.read /\ L \subseteq DOMAIN s.reg /\ L \subseteq DOMAIN t.reg
    BY <1>1 DEF StartOf
  <2>2. \A r \in L : s.reg[r] = t.reg[r]  BY <1>1 DEF StartOf
  <2>3. n \in DOMAIN t.reg /\ z \in DOMAIN t.mem /\ t.reg[n] = t.mem[z]  BY DEF StartOf
  <2> QED BY <2>1, <2>2, <2>3 DEF Agree, Level
<1>4. n # None /\ z \notin Z  BY DEF None
<1> HIDE DEF s, t, n, z, Z, L
<1>5. Meaning(s, p, way) = TiedMeaning(t, p, way, n, z)
  BY <1>1, <1>2, <1>3, <1>4, TiedMeans
<1> QED BY <1>5 DEF s, t, n, z

\* The invariant of the proof that allocation keeps what the routine means.
SameInv ==
    /\ MeaningInv /\ Shaped(code, marked, mc, slots)
    /\ original \in Programs /\ Name \subseteq Names
    /\ \A way \in Ways : Meaning(Start, Bare(code, marked), way) = Meaning(Start, original, way)

\* Routines whose blocks, where one branches into another that can be entered from
\* elsewhere, end with an instruction, as the branch is, that writes nothing.
Branched == \A p \in Programs : Ended(p)

LEMMA SameBegins == ASSUME Init, Solitary, Branched, MeaningInv PROVE SameInv
<1>1. code = original /\ original \in Programs /\ marked = {} /\ mc = <<>> /\ slots = 0 /\ Names = Name
  BY DEF Init, Names, Name
<1>2. Apart(code) /\ Once(code) /\ Ended(code)  BY <1>1, ProgramsAssumption DEF Branched
<1>3. code \in Routine(Names) /\ None \notin Names
  BY InitHolds DEF IInv, Named, NameSet, None
<1>4. Shaped(code, marked, mc, slots)
  <2>1. \A i \in InstrsOf(code) : \A o \in Range(i.ops) : ~IsMemory(o)
    BY <1>1, ProgramIs DEF IsMemory
  <2>2. DOMAIN <<>> = {}  OBVIOUS
  <2> QED BY <1>1, <1>2, <2>1, <2>2 DEF Shaped, Sound, Below
<1>5. ASSUME NEW way \in Ways
      PROVE  Meaning(Start, Bare(code, marked), way) = Meaning(Start, original, way)
  <2>1. Meaning(StartOf(Names, slots), code, way) = Meaning(StartOf(Names, slots), Bare(code, {}), way)
    BY <1>2, <1>3, BareMeans
  <2> QED BY <1>1, <2>1 DEF Start, Names
<1> QED BY <1>1, <1>4, <1>5 DEF SameInv

\* A spill changes the code and the start, and neither what the code nor what the
\* routine means.
LEMMA SpillSame ==
    ASSUME SameInv, Apart(code'), Spill, NEW way \in Ways
    PROVE  /\ Name \subseteq DOMAIN class'
           /\ Meaning(Start', Bare(code', marked'), way) = Meaning(Start', original, way)
<1>1. /\ IInv /\ Apart(code) /\ MovesAlone(code) /\ Complete /\ Shaped(code, marked, mc, slots)
      /\ original \in Programs /\ Name \subseteq Names
  BY DEF SameInv, MeaningInv
<1> DEFINE M == DOMAIN class'
           y == slots'
           cd == code'
<1>2. /\ marked = {} /\ marked' = {} /\ Names \subseteq M /\ cd \in Routine(M) /\ None \notin M
      /\ Meaning(StartOf(M, y), cd, way) = Meaning(StartOf(Names, slots), code, way)
  BY <1>1, SpillKeepsMeaning
<1>3. Apart(cd)  OBVIOUS
<1>4. code \in Routine(Names) /\ None \notin Names  BY <1>1 DEF IInv, Named, NameSet, None
<1>5. Meaning(StartOf(Names, slots), code, way) = Meaning(StartOf(Names, slots), Bare(code, {}), way)
  BY <1>1, <1>4, BareMeans
<1>6. Meaning(StartOf(Names, slots), Bare(code, {}), way) = Meaning(StartOf(Names, slots), original, way)
  BY <1>2 DEF SameInv, Start, Names
<1>7. Start' = StartOf(M, y)  BY DEF Start, StartOf
<1> HIDE DEF M, y, cd
<1>8. Meaning(StartOf(M, y), cd, way) = Meaning(StartOf(M, y), Bare(cd, {}), way)
  BY <1>2, <1>3, BareMeans
<1>9. /\ Meaning(StartOf(Names, slots), original, way)
           = TiedMeaning(StartOf(Nat, 0), original, way, 0, 0)
      /\ Name \subseteq M
      /\ Meaning(StartOf(M, y), original, way) = TiedMeaning(StartOf(Nat, 0), original, way, 0, 0)
  BY <1>1, <1>2, ProgramMeans
<1> QED BY <1>2, <1>5, <1>6, <1>7, <1>8, <1>9 DEF M, cd

LEMMA SameStays == ASSUME SameInv, MeaningInv', [Next]_vars PROVE SameInv'
<1>1. /\ IInv /\ Apart(code) /\ MovesAlone(code) /\ Complete /\ Spared /\ Willing
      /\ Shaped(code, marked, mc, slots) /\ original \in Programs /\ Name \subseteq Names
  BY DEF SameInv, MeaningInv
<1>2. Apart(code')
  <2>1. Apart(code)' <=> Apart(code')  BY DEF Apart, InstrsOf
  <2> QED BY <2>1 DEF MeaningInv
<1>3. original' = original
  BY DEF Next, Chains, Build, CoalesceOper, DeleteUselessIR, Simplify, Select, Spill, Restart,
         Stopped, vars
<1>4. Shaped(code', marked', mc', slots')  BY <1>1, <1>2, StaysShaped
<1>5. Shaped(code, marked, mc, slots)' <=> Shaped(code', marked', mc', slots')
  BY DEF Shaped, Once, Ended, Closes, Defs, Moves, OpsOf, Sound, Below, InstrsOf
<1>6. ASSUME NEW way \in Ways
      PROVE  /\ Name \subseteq DOMAIN class'
             /\ Meaning(Start', Bare(code', marked'), way) = Meaning(Start', original, way)
  <2>1. CASE Spill  BY <1>2, <2>1, SpillSame
  <2>2. CASE ~Spill
    <3>1. /\ class' = class /\ slots' = slots
          /\ Meaning(Start, Bare(code, marked), way) = Meaning(Start, Bare(code', marked'), way)
      BY <1>1, <2>2, StepMeans
    <3>2. Start' = Start  BY <3>1 DEF Start
    <3>3. Meaning(Start, Bare(code, marked), way) = Meaning(Start, original, way)
      BY DEF SameInv
    <3> QED BY <1>1, <3>1, <3>2, <3>3 DEF Names
  <2> QED BY <2>1, <2>2
<1>7. Name \subseteq DOMAIN class'
  <2>1. CASE Spill  BY <1>1, <1>2, <2>1, SpillKeepsMeaning
  <2>2. CASE ~Spill
    <3>1. class' = class
      BY <2>2 DEF Next, Chains, Build, CoalesceOper, DeleteUselessIR, Simplify, Select, Restart,
                  Stopped, vars
    <3> QED BY <1>1, <3>1 DEF Names
  <2> QED BY <2>1, <2>2
<1> QED BY <1>1, <1>3, <1>4, <1>5, <1>6, <1>7 DEF SameInv, Names

\* An allocated routine does what the original did, whatever was merged, coloured and
\* spilled, and in however many rounds: for every routine whose moves are alone and whose
\* branches write nothing, every register file and every way through the blocks.
THEOREM AllocationKeepsMeaning == Spec /\ Solitary /\ Branched => []SameMeaning
<1>1. Init /\ Solitary /\ Branched /\ MeaningInv => SameInv  BY SameBegins
<1>2. MeaningInv' /\ SameInv /\ [Next]_vars => SameInv'  BY SameStays
<1>3. SameInv /\ ColoursKeepMeaning => SameMeaning
  <2> SUFFICES ASSUME SameInv, ColoursKeepMeaning, phase = "done", NEW way \in Ways
               PROVE  Meaning(Start, Allocated, way) = Meaning(Start, original, way)
    BY DEF SameMeaning
  <2>1. marked = {} /\ code \in Routine(Names) /\ None \notin Names /\ Apart(code)
    BY DEF SameInv, MeaningInv, IInv, Phases, Named, NameSet, None
  <2>2. Meaning(StartOf(Names, slots), code, way) = Meaning(StartOf(Names, slots), Bare(code, {}), way)
    BY <2>1, BareMeans
  <2>3. Meaning(Start, Bare(code, marked), way) = Meaning(Start, original, way)  BY DEF SameInv
  <2> QED BY <2>1, <2>2, <2>3 DEF ColoursKeepMeaning, Start, Names
<1> QED BY <1>1, <1>2, <1>3, MeaningInvariant, ColoursMean, PTL DEF Spec
=============================================================================
