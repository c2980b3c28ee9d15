------------------------------ MODULE RegAlloc ------------------------------
(***************************************************************************)
(* The register allocator of EXPRESS: multichains, the interference graph, *)
(* coalescing of moves, simplification and colouring, and spilling, which  *)
(* starts the cycle again.  Operations are already compacted: those of one *)
(* instruction read before any of them writes.                             *)
(*                                                                         *)
(* A node of the graph is a register, its own colour, or the name of a     *)
(* multichain.  Doubles, delayed reads and serialized operations, which    *)
(* are off by default, are left out.                                       *)
(***************************************************************************)
EXTENDS Integers, FiniteSets, FiniteSetsExt, Sequences, SequencesExt, TLC, Filter

CONSTANTS
    Block,       \* 1..n, in the order of the routine
    Succ,        \* per block, the blocks after it
    Depth,       \* per block, the loops it is in
    Ways,        \* sequences of blocks that the routine may execute
    NumColors,
    Classes,     \* per name of the routine, the registers that will do
    Programs     \* functions from blocks to sequences of instructions

Color == 0..(NumColors - 1)
None  == -1                  \* no register, no operand; UNCOLORED
Name  == DOMAIN Classes

Ops    == [id : Nat, kind : {"op", "move"}, dest : Name \cup {None}, srcs : Seq(Name),
           slot : Nat]
Instrs == [id : Nat, ops : Seq(Ops)]

ASSUME RegAllocAssumption ==
    /\ NumColors \in Nat /\ Name \cap Color = {} /\ Name \subseteq Nat /\ IsFiniteSet(Name)
    /\ \A n \in Name : Classes[n] # {} /\ Classes[n] \subseteq Color
    /\ IsFiniteSet(Block) /\ Block = 1..Cardinality(Block)
    /\ \A b \in Block : Succ[b] \subseteq Block

ASSUME WaysAssumption ==
    \A way \in Ways : /\ way \in Seq(Block)
                      /\ \A k \in 2..Len(way) : way[k] \in Succ[way[k - 1]]

VARIABLES
    original,    \* the routine before allocation
    code,        \* per block, its instructions, [id, ops]
    mc,          \* the multichains, by name
    class,       \* per name, its register class
    edges,       \* the edges of the interference graph
    nodes,       \* _mcNodes
    pending,     \* the moves that coalescing has still to look at
    marked,      \* the operations marked for deletion
    nodeStack, nodesToSpill,
    color,       \* per multichain, its colour
    slots,       \* the memory slots spilled to
    phase

vars == <<original, code, mc, class, edges, nodes, pending, marked,
          nodeStack, nodesToSpill, color, slots, phase>>

Init ==
    /\ original \in Programs /\ code = original
    /\ mc = <<>> /\ class = Classes /\ edges = {} /\ nodes = <<>>
    /\ pending = {} /\ marked = {}
    /\ nodeStack = <<>> /\ nodesToSpill = <<>> /\ color = <<>>
    /\ slots = 0
    /\ phase = "chains"

-----------------------------------------------------------------------------
(* Instructions *)

InOrder(cd) ==
    LET upTo[b \in 0..Cardinality(Block)] == IF b = 0 THEN <<>> ELSE upTo[b - 1] \o cd[b]
    IN upTo[Cardinality(Block)]
InstrsOf(cd) == UNION {Range(cd[b]) : b \in Block}
InstrOf(cd, id) == CHOOSE i \in InstrsOf(cd) : i.id = id
BlockOf(cd, id) == CHOOSE b \in Block : \E i \in Range(cd[b]) : i.id = id
OpsOf(cd) == UNION {Range(i.ops) : i \in InstrsOf(cd)}
IsMove(o) == o.kind = "move"

\* An id tells what it is the id of.
Apart(cd) ==
    \A i, j \in InstrsOf(cd) :
        /\ i.id = j.id => i = j
        /\ \A o \in Range(i.ops), p \in Range(j.ops) : o.id = p.id => i = j /\ o = p

\* An instruction defines a name once.
DefinesOnce(i) ==
    \A j, k \in DOMAIN i.ops : i.ops[j].dest = i.ops[k].dest /\ i.ops[j].dest # None => j = k

\* An instruction is in one place.
Once(cd) ==
    \A b, c \in Block : \A j \in DOMAIN cd[b], k \in DOMAIN cd[c] :
        cd[b][j].id = cd[c][k].id => b = c /\ j = k

ASSUME ProgramsAssumption ==
    \A p \in Programs :
        /\ p \in [Block -> Seq(Instrs)] /\ Apart(p) /\ Once(p)
        /\ \A o \in OpsOf(p) : IsMove(o) => o.dest # None /\ Len(o.srcs) = 1
        /\ \A i \in InstrsOf(p) : DefinesOnce(i)

DefArgs(i) == SelectSeq([k \in DOMAIN i.ops |-> i.ops[k].dest], LAMBDA n : n # None)
UseArgs(i) == FoldLeft(LAMBDA args, o : args \o o.srcs, <<>>, i.ops)
Defs(i) == {o.dest : o \in Range(i.ops)} \ {None}
Uses(i) == UNION {Range(o.srcs) : o \in Range(i.ops)}

Operands(cd) == UNION {Defs(i) \cup Uses(i) : i \in InstrsOf(cd)}

CountUses(i, n) == Len(SelectSeq(UseArgs(i), LAMBDA m : m = n))

\* The definition, and the uses, of n in some instructions become m.
RenameDef(i, n, m) ==
    LET new(o) == [o EXCEPT !.dest = IF o.dest = n THEN m ELSE o.dest]
    IN [i EXCEPT !.ops = [k \in DOMAIN i.ops |-> new(i.ops[k])]]
RenameUse(i, n, m) ==
    LET srcs(o) == [j \in DOMAIN o.srcs |-> IF o.srcs[j] = n THEN m ELSE o.srcs[j]]
        new(o) == [o EXCEPT !.srcs = srcs(o)]
    IN [i EXCEPT !.ops = [k \in DOMAIN i.ops |-> new(i.ops[k])]]
Renamed(cd, defs, uses, n, m) ==
    [b \in Block |-> [k \in DOMAIN cd[b] |->
        LET i == cd[b][k]
            d == IF i.id \in defs THEN RenameDef(i, n, m) ELSE i
        IN IF i.id \in uses THEN RenameUse(d, n, m) ELSE d]]

-----------------------------------------------------------------------------
(* compLiveDead *)

UpwardUses(cd) ==
    [b \in Block |-> UNION {Uses(cd[b][k]) \ UNION {Defs(cd[b][j]) : j \in 1..(k - 1)} :
                              k \in DOMAIN cd[b]}]
DefsOf(cd) == [b \in Block |-> UNION {Defs(i) : i \in Range(cd[b])}]

\* The iteration of compIn: no path without a cycle is longer than the blocks.
LiveOut(cd) ==
    LET use == UpwardUses(cd)
        def == DefsOf(cd)
        out(in, b) == UNION {in[s] : s \in Succ[b]}
        in[n \in 0..Cardinality(Block)] ==
          IF n = 0 THEN [b \in Block |-> {}]
          ELSE LET before == in[n - 1]
               IN [b \in Block |-> use[b] \cup (out(before, b) \ def[b])]
        last == in[Cardinality(Block)]
    IN [b \in Block |-> out(last, b)]

\* The names live after each instruction of block b, from its last one up.
LiveAfter(cd, b, out) ==
    LET live[k \in 0..Len(cd[b])] ==
          IF k = Len(cd[b]) THEN out[b]
          ELSE (live[k + 1] \ Defs(cd[b][k + 1])) \cup Uses(cd[b][k + 1])
    IN live

\* What a definition meets: the pairs build makes edges of.
Interferences(cd) ==
    LET out == LiveOut(cd) IN
    UNION {LET live == LiveAfter(cd, b, out) IN
           UNION {{{d, l} : d \in Defs(cd[b][k]), l \in live[k]} : k \in DOMAIN cd[b]} :
           b \in Block}
Overlap(e) == \A n, m \in e : class[n] \cap class[m] # {}

-----------------------------------------------------------------------------
(* compMultiChains *)

\* The members of S in the order in which s has them first.
Place(s, n) == Min({k \in DOMAIN s : s[k] = n})
InOrderOf(S, s) ==
    {t \in Bijection(1..Cardinality(S), S) :
       \A k \in DOMAIN t : \A j \in 1..(k - 1) : Place(s, t[j]) < Place(s, t[k])}

ArchEdges(n, cl) == {{n, c} : c \in Color \ cl}

Chains ==
    /\ phase = "chains"
    /\ LET instrs == InstrsOf(code)
           defs(n) == {i \in instrs : n \in Defs(i)}
           uses(n) == {i \in instrs : n \in Uses(i)}
           args == FoldLeft(LAMBDA a, i : a \o DefArgs(i) \o UseArgs(i), <<>>, InOrder(code))
           names == Operands(code)
       IN /\ nodes' \in InOrderOf(names, args)
          /\ mc' = [n \in names |->
               [defs |-> {i.id : i \in defs(n)}, uses |-> {i.id : i \in uses(n)},
                noDefs |-> Cardinality(defs(n)),
                noUses |-> MapThenSumSet(LAMBDA i : CountUses(i, n), uses(n)), spilled |-> FALSE]]
          /\ color' = [n \in names |-> None]
          /\ edges' = UNION {ArchEdges(n, class[n]) : n \in names}
    /\ phase' = "build"
    /\ UNCHANGED <<original, code, class, pending, marked, nodeStack, nodesToSpill, slots>>

-----------------------------------------------------------------------------
(* build and registerCoalescing *)

Moves(cd) == {o.id : o \in {o \in OpsOf(cd) : IsMove(o)}}
OpsInOrder(cd) == FoldLeft(LAMBDA all, i : all \o i.ops, <<>>, InOrder(cd))
FirstOf(ids, cd) ==
    LET ops == OpsInOrder(cd) IN ops[Min({k \in DOMAIN ops : ops[k].id \in ids})]

\* The edges of the round before stay: the reset is commented out.
Build ==
    /\ phase = "build"
    /\ edges' = edges \cup {e \in Interferences(code) : Cardinality(e) = 2 /\ Overlap(e)}
    /\ pending' = Moves(code)
    /\ phase' = "coalesce"
    /\ UNCHANGED <<original, code, mc, class, nodes, marked, nodeStack, nodesToSpill,
                   color, slots>>

CanCoalesceOverlapping(src, dest) ==
    {src, dest} \notin edges /\ class[src] \cap class[dest] # {}
CanCoalesce(src, dest) == {src, dest} \notin edges /\ class[src] = class[dest]

\* The edges of def become edges of use.
EdgesDropped(def, use) == {e \in edges : def \notin e}
EdgesMoved(def, use) ==
    {IF def \in e THEN (e \ {def}) \cup {use} ELSE e : e \in edges}

Joined(def, use, cd, instr) ==
    [defs   |-> (mc[use].defs \cup mc[def].defs) \ {instr},
     uses   |-> (mc[use].uses \cup mc[def].uses)
                   \ (IF CountUses(InstrOf(cd, instr), use) = 1 THEN {instr} ELSE {}),
     noDefs |-> mc[use].noDefs + Cardinality(mc[def].defs) - 1,
     noUses |-> mc[use].noUses + Cardinality(mc[def].uses)
                   - (IF CountUses(InstrOf(cd, instr), use) = 1 THEN 1 ELSE 0),
     spilled |-> FALSE]

Without(ns, n) == Kept(ns, Range(ns) \ {n})

\* coalesceMCs: def is merged into use and the move marked.
Coalesce(def, use, instr) ==
    /\ code' = Renamed(code, mc[def].defs, mc[def].uses, def, use)
    /\ mc' = [n \in DOMAIN mc \ {def} |->
                IF n = use THEN Joined(def, use, code', instr) ELSE mc[n]]
    /\ color' = [n \in DOMAIN color \ {def} |-> color[n]]
    /\ edges' = EdgesMoved(def, use)
    /\ nodes' = Without(nodes, def)

\* A move within one multichain: the whole instruction leaves its lists.
RemoveMove(n, instr) ==
    /\ mc' = [mc EXCEPT ![n].defs = @ \ {instr}, ![n].noDefs = @ - 1,
                        ![n].uses = @ \ {instr}, ![n].noUses = @ - 1]
    /\ UNCHANGED <<code, color, edges, nodes>>

\* The walk over the routine meets its next move.  Where two names that one
\* instruction defines would be merged, the model stops: the code would rename
\* and colour the first of the two definitions only.
CoalesceOper ==
    /\ phase = "coalesce" /\ pending # {}
    /\ \E i \in InstrsOf(code) : \E o \in Range(i.ops) :
         /\ IsMove(o) /\ o.id \in pending /\ o = FirstOf(pending, code)
         /\ \/ /\ o.dest = Head(o.srcs)
               /\ RemoveMove(o.dest, i.id)
               /\ marked' = marked \cup {o.id}
            \/ /\ o.dest # Head(o.srcs) /\ CanCoalesce(Head(o.srcs), o.dest)
               /\ ~\E j \in InstrsOf(code) : {o.dest, Head(o.srcs)} \subseteq Defs(j)
               /\ Coalesce(o.dest, Head(o.srcs), i.id)
               /\ marked' = marked \cup {o.id}
            \/ /\ o.dest # Head(o.srcs) /\ ~CanCoalesce(Head(o.srcs), o.dest)
               /\ UNCHANGED <<code, mc, color, edges, nodes, marked>>
         /\ pending' = pending \ {o.id}
    /\ UNCHANGED <<original, class, nodeStack, nodesToSpill, slots, phase>>

\* deleteUselessIR: the marked operations go, and the instructions left empty.
Unmarked(cd) ==
    [b \in Block |->
       LET left == [k \in DOMAIN cd[b] |->
                      [cd[b][k] EXCEPT !.ops = Kept(@, {o \in Range(@) : o.id \notin marked})]]
       IN Kept(left, {i \in Range(left) : i.ops # <<>>})]

DeleteUselessIR ==
    /\ phase = "coalesce" /\ pending = {}
    /\ code' = Unmarked(code)
    /\ marked' = {}
    /\ phase' = "simplify"
    /\ UNCHANGED <<original, mc, class, edges, nodes, pending, nodeStack, nodesToSpill,
                   color, slots>>

-----------------------------------------------------------------------------
(* color: simplification and selection *)

\* What is still in the graph beside n.
Neighbours(n, ns) == {m \in Range(ns) \cup Color : m # n /\ {n, m} \in edges}
Degree(n, ns) == Cardinality(Neighbours(n, ns))

Huge == 100000               \* bound: DBL_MAX / 1000

GetSpillCostOfAll(n) ==
    MapThenSumSet(LAMBDA i : 10 ^ Depth[BlockOf(code, i)], mc[n].defs)
         + MapThenSumSet(LAMBDA i : 10 ^ Depth[BlockOf(code, i)], mc[n].uses)
GetSpillCost(n) ==
    IF mc[n].noDefs = 0 \/ mc[n].noUses = 0 \/ mc[n].spilled THEN Huge
    ELSE MapThenSumSet(LAMBDA i : 10 ^ Depth[BlockOf(code, i)], mc[n].defs)
         + MapThenSumSet(LAMBDA i : 10 ^ Depth[BlockOf(code, i)], mc[n].uses)

\* The first of the least cost by degree.
Cheaper(n, m) ==
    GetSpillCost(n) * Degree(m, nodes) < GetSpillCost(m) * Degree(n, nodes)
BestNodeToSpill == FoldLeft(LAMBDA best, n : IF Cheaper(n, best) THEN n ELSE best,
                            Head(nodes), nodes)

\* One pass over the nodes: those of low degree go on the stack.
LowDegree(limit) ==
    LET after[k \in 0..Len(nodes)] ==
          IF k = 0 THEN [nodes |-> nodes, stack |-> nodeStack]
          ELSE LET acc == after[k - 1] IN
               IF Degree(nodes[k], acc.nodes) < limit
               THEN [nodes |-> Without(acc.nodes, nodes[k]), stack |-> Append(acc.stack, nodes[k])]
               ELSE acc
    IN after[Len(nodes)]

Simplify ==
    /\ phase = "simplify" /\ nodes # <<>>
    /\ LET pass == LowDegree(NumColors) IN
         \/ pass.nodes # nodes /\ nodes' = pass.nodes /\ nodeStack' = pass.stack
         \/ /\ pass.nodes = nodes
            /\ \E n \in Range(nodes) :
                 /\ n = BestNodeToSpill
                 /\ nodes' = Without(nodes, n) /\ nodeStack' = Append(nodeStack, n)
    /\ UNCHANGED <<original, code, mc, class, edges, pending, marked, nodesToSpill, color,
                   slots, phase>>

ColorOf(n) == IF n \in Color THEN n ELSE color[n]
FreeOfNames(n) == Color \ {color[m] : m \in Neighbours(n, nodes) \ Color}
FreeColors(n) == Color \ {ColorOf(m) : m \in Neighbours(n, nodes)}

\* colorMCNode, for the node on top of the stack.
Select ==
    /\ phase \in {"simplify", "select"} /\ nodeStack # <<>>
    /\ phase = "simplify" => nodes = <<>>
    /\ LET n == Last(nodeStack) IN
         /\ nodeStack' = Front(nodeStack)
         /\ nodes' = Append(nodes, n)
         /\ IF FreeColors(n) = {}
            THEN nodesToSpill' = Append(nodesToSpill, n) /\ UNCHANGED color
            ELSE /\ color' = [color EXCEPT ![n] = Max(FreeColors(n))]
                 /\ UNCHANGED nodesToSpill
    /\ phase' = IF Len(nodeStack) > 1 THEN "select"
                ELSE IF nodesToSpill' = <<>> THEN "done" ELSE "spill"
    /\ UNCHANGED <<original, code, mc, class, edges, pending, marked, slots>>

-----------------------------------------------------------------------------
(* spillNode *)

FreshId(cd) == 1 + Max(UNION {{i.id} \cup {o.id : o \in Range(i.ops)} : i \in InstrsOf(cd)})
FreshName(cl) == 1 + Max(DOMAIN cl)

PlaceOf(cd, b, id) == CHOOSE k \in DOMAIN cd[b] : cd[b][k].id = id
Insert(cd, b, k, i) == [cd EXCEPT ![b] = InsertAt(@, k, i)]

Memory(id, kind, dest, srcs) ==
    [id |-> id,
     ops |-> <<[id |-> id, kind |-> kind, dest |-> dest, srcs |-> srcs, slot |-> slots]>>]

\* Where the stores of a definition go: just after it, at the end of its block,
\* or at the head of each block after it.
StorePlacesFirst(cd, id) ==
    LET b == BlockOf(cd, id)
        k == PlaceOf(cd, b, id)
    IN IF k < Len(cd[b]) THEN {<<b, k + 1>>}
       ELSE IF Cardinality(Succ[b]) = 1 THEN {<<b, k + 1>>}
       ELSE {<<Min(Succ[b]), 1>>}
StorePlaces(cd, id) ==
    LET b == BlockOf(cd, id)
        k == PlaceOf(cd, b, id)
    IN IF k < Len(cd[b]) \/ Cardinality(Succ[b]) = 1 THEN {<<b, k + 1>>}
       ELSE {<<s, 1>> : s \in Succ[b]}

\* acc is the code so far with the new multichains, their names and classes.  The
\* class of a new multichain is that of the operands it takes over.
With(f, m, v) == [x \in DOMAIN f \cup {m} |-> IF x = m THEN v ELSE f[x]]
SpillNewUnmarked(acc, n, cd, m, c) ==
    [code |-> cd, class |-> With(acc.class, m, acc.class[n]),
     nodes |-> Append(acc.nodes, m), mc |-> With(acc.mc, m, [c EXCEPT !.spilled = FALSE])]
SpillNew(acc, n, cd, m, c) ==
    [code |-> cd, class |-> With(acc.class, m, acc.class[n]),
     nodes |-> Append(acc.nodes, m), mc |-> With(acc.mc, m, c)]

\* The stores of a definition are numbered by their blocks.
SpillDef(acc, n, id) ==
    LET m == FreshName(acc.class)
        places == StorePlaces(acc.code, id)
        fresh == FreshId(acc.code)
        split == Renamed(acc.code, {id}, {}, n, m)
        cd == [b \in Block |->
                 LET here == {p \in places : p[1] = b} IN
                 IF here = {} THEN split[b]
                 ELSE InsertAt(split[b], (CHOOSE p \in here : TRUE)[2],
                               Memory(fresh + b, "store", None, <<m>>))]
    IN SpillNew(acc, n, cd, m,
         [defs |-> {id}, noDefs |-> Cardinality(places), uses |-> {fresh + p[1] : p \in places},
          noUses |-> Cardinality(places), spilled |-> TRUE])

ReloadUse(acc, n, id) ==
    LET m == FreshName(acc.class)
        load == FreshId(acc.code)
        b == BlockOf(acc.code, id)
    IN SpillNew(acc, n,
         Insert(Renamed(acc.code, {}, {id}, n, m), b, PlaceOf(acc.code, b, id),
                Memory(load, "load", m, <<>>)), m,
         [defs |-> {load}, noDefs |-> 1, uses |-> {id},
          noUses |-> CountUses(InstrOf(acc.code, id), n), spilled |-> TRUE])

\* insertSpillsReloads: a store after each definition, then a load before each use.
SpillsReloads(n) ==
    LET all == InOrder(code)
        turn == Len(all)
        after[k \in 0..(2 * turn)] ==
          IF k = 0 THEN [code |-> code, class |-> class, nodes |-> <<>>, mc |-> <<>>]
          ELSE LET acc == after[k - 1]
                   id == all[IF k <= turn THEN k ELSE k - turn].id
               IN IF k <= turn
                  THEN IF id \in mc[n].defs THEN SpillDef(acc, n, id) ELSE acc
                  ELSE IF id \in mc[n].uses THEN ReloadUse(acc, n, id) ELSE acc
    IN after[2 * turn]

\* The assertions of spillMultiChain are its guards, and so is that of
\* computeRegClass: a definition without a place for its store makes a multichain
\* without arguments.
Spill ==
    /\ phase = "spill" /\ nodesToSpill # <<>>
    /\ LET n == Last(nodesToSpill)
           done == SpillsReloads(n)
       IN /\ mc[n].uses # {} /\ ~mc[n].spilled
          /\ \A id \in mc[n].defs : StorePlaces(code, id) # {}
          /\ nodesToSpill' = Front(nodesToSpill)
          /\ code' = done.code
          /\ class' = done.class
          /\ mc' = [m \in (DOMAIN mc \ {n}) \cup DOMAIN done.mc |->
                      IF m \in DOMAIN done.mc THEN done.mc[m] ELSE mc[m]]
          /\ color' = [m \in DOMAIN mc' |-> IF m \in DOMAIN color THEN color[m] ELSE None]
          /\ nodes' = Without(nodes, n) \o done.nodes
          /\ edges' = {e \in edges : n \notin e}
                        \cup UNION {ArchEdges(m, done.class[m]) : m \in DOMAIN done.mc}
    /\ slots' = slots + 1
    /\ UNCHANGED <<original, pending, marked, nodeStack, phase>>

\* resetColors, and another round.
Restart ==
    /\ phase = "spill" /\ nodesToSpill = <<>>
    /\ color' = [n \in DOMAIN color |-> None]
    /\ phase' = "build"
    /\ UNCHANGED <<original, code, mc, class, edges, nodes, pending, marked, nodeStack,
                   nodesToSpill, slots>>

Stopped == phase = "done" /\ UNCHANGED vars

Next == Chains \/ Build \/ CoalesceOper \/ DeleteUselessIR \/ Simplify \/ Select
          \/ Spill \/ Restart \/ Stopped

Spec == Init /\ [][Next]_vars

-----------------------------------------------------------------------------
(* renameRegisters *)

\* The register an operand gets: the arguments of the listed instructions only.
RegisterOf(n, ids, id) == IF id \in ids THEN color[n] ELSE None

AllocatedOp(i, o) ==
    [o EXCEPT
       !.dest = IF o.dest = None THEN None ELSE RegisterOf(o.dest, mc[o.dest].defs, i.id),
       !.srcs = [s \in DOMAIN o.srcs |-> RegisterOf(o.srcs[s], mc[o.srcs[s]].uses, i.id)]]
Allocated ==
    [b \in Block |-> [k \in DOMAIN code[b] |->
       LET i == code[b][k] IN
       [i EXCEPT !.ops = [j \in DOMAIN i.ops |-> AllocatedOp(i, i.ops[j])]]]]

-----------------------------------------------------------------------------
(* What the code means *)

Garbage == <<>>

\* A state has the registers, the slots, and what was read so far.
StartOf(names, last) ==
    [reg  |-> [r \in {None} \cup Color \cup names |-> Garbage],
     mem  |-> [s \in 0..last |-> Garbage],
     read |-> <<>>]
Start == StartOf(DOMAIN class, slots)

ReadOf(st, o) == [k \in DOMAIN o.srcs |-> st.reg[o.srcs[k]]]

\* An operation that was there leaves what it alone leaves, at this time alone.
ResultOf(st, o) == CASE o.kind = "move" -> ReadOf(st, o)[1]
                     [] o.kind = "load" -> st.mem[o.slot]
                     [] OTHER -> <<o.id, Len(st.read)>>

\* Two writes of one register, or of one slot, in an instruction leave garbage.
Writers(i, r) == {o \in Range(i.ops) : o.dest = r /\ r # None}
Storing(i, s) == {o \in Range(i.ops) : o.kind = "store" /\ o.slot = s}
Alone(S) == \A o, p \in S : o = p
RegisterAfter(st, i, r) ==
    IF Writers(i, r) = {} THEN st.reg[r]
    ELSE IF Alone(Writers(i, r)) THEN ResultOf(st, CHOOSE o \in Writers(i, r) : TRUE)
    ELSE Garbage
SlotAfter(st, i, s) ==
    IF Storing(i, s) = {} THEN st.mem[s]
    ELSE IF Alone(Storing(i, s)) THEN ReadOf(st, CHOOSE o \in Storing(i, s) : TRUE)[1]
    ELSE Garbage

\* Every operation of an instruction reads before any of them writes.
ReadBy(st, i) == {<<o.id, ReadOf(st, o)>> : o \in {o \in Range(i.ops) : o.kind = "op"}}
Execute(st, i) ==
    [reg  |-> [r \in DOMAIN st.reg |-> RegisterAfter(st, i, r)],
     mem  |-> [s \in DOMAIN st.mem |-> SlotAfter(st, i, s)],
     read |-> IF ReadBy(st, i) = {} THEN st.read ELSE Append(st.read, ReadBy(st, i))]

Run(st, instrs) ==
    LET after[k \in 0..Len(instrs)] ==
          IF k = 0 THEN st ELSE Execute(after[k - 1], instrs[k])
    IN after[Len(instrs)]

\* What the operations read, instruction by instruction, along a way through the code.
Meaning(st, cd, way) ==
    LET after[k \in 0..Len(way)] ==
          IF k = 0 THEN st ELSE Run(after[k - 1], cd[way[k]])
    IN after[Len(way)].read

-----------------------------------------------------------------------------
(* Properties *)

\* An allocated routine does what the original did: along every way through it,
\* each operation that was there reads the values it read, whatever was
\* coalesced, coloured and spilled on the way.
SameMeaning ==
    phase = "done" =>
        \A way \in Ways : Meaning(Start, Allocated, way) = Meaning(Start, original, way)

\* Two names that interfere in the code as it stands have an edge while colours
\* are chosen, although build ran before the names were merged and moves deleted.
InterferencesKept ==
    phase \in {"coalesce", "simplify", "select"} =>
        \A cd \in {Unmarked(code)} : \A e \in Interferences(cd) :
            Cardinality(e) = 2 /\ Overlap(e) => e \in edges

\* Every multichain of an allocated routine, those of spills and reloads and
\* those merged included, has a register that each name it began as would take.
ClassesRespected == phase = "done" => \A n \in DOMAIN mc : color[n] \in class[n]

\* The assertions of spillMultiChain hold: a name that is left without a colour
\* has a use, and is not one that a spill made.
OnlySpillable ==
    phase = "spill" =>
        \A n \in Range(nodesToSpill) : mc[n].uses # {} /\ ~mc[n].spilled

\* Allocation comes to an end: a merge or a spill uses up moves or names that were
\* never spilled, although a merge makes a name of spilled ones spillable again.
Fuel == 2 * Cardinality(Moves(code) \ marked)
        + Cardinality({n \in DOMAIN mc : ~mc[n].spilled})
Ends == [][phase # "chains" /\ DOMAIN mc' # DOMAIN mc => Fuel' < Fuel]_vars

\* Every operand is in the lists of its multichain, by which registers are given.
OperandsListed ==
    phase \in {"simplify", "select", "spill", "done"} =>
        \A i \in InstrsOf(code) :
            /\ \A n \in Defs(i) : i.id \in mc[n].defs
            /\ \A n \in Uses(i) : i.id \in mc[n].uses
=============================================================================
