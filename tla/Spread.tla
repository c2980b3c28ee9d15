------------------------------- MODULE Spread -------------------------------
(***************************************************************************)
(* SpreadInstrs: the pass that puts empty instructions between the         *)
(* instructions of a routine until no pipeline hazard is left, first for   *)
(* the dependences an instruction has with those after it, then for the    *)
(* units their reservation tables claim.  An instruction is a set of       *)
(* operations, a basic block a sequence of instructions; the register      *)
(* file, the reservation tables and the feedback paths are parameters.     *)
(***************************************************************************)
EXTENDS Integers, FiniteSets, FiniteSetsExt, Sequences, SequencesExt

CONSTANTS
    PIPELENGTH,     \* stages of the pipeline
    Class, Unit,
    Table,          \* per class and stage, the units of the reservation table
    Capacity,
    WriteTime,      \* per class, the stage that writes the destination
    ReadTime,       \* per class, the stage that reads the sources
    Access,         \* per class, "load", "store" or "none"
    MemoryTime,     \* per class, the stage that accesses memory
    Enq, Deq,       \* per class, its stage on the feedback path, or -1
    WriteThrough,   \* write_through_register_file
    Reg, NoReg,
    Layout,         \* the blocks in HTG order, instructions as sets of operations
    Successors      \* per block, the blocks that may follow it

Block == DOMAIN Layout
Stage == 0..(PIPELENGTH - 1)
Op == UNION {UNION Range(Layout[b]) : b \in Block}

ASSUME SpreadAssumption ==
    /\ PIPELENGTH \in Nat \ {0} /\ WriteThrough \in BOOLEAN
    /\ NoReg \notin Reg
    /\ Table \in [Class -> [Stage -> SUBSET Unit]] /\ Capacity \in [Unit -> Nat]
    /\ WriteTime \in [Class -> Stage] /\ ReadTime \in [Class -> Stage \ {0}]
    /\ Access \in [Class -> {"load", "store", "none"}]
    /\ MemoryTime \in [Class -> Stage]
    /\ Enq \in [Class -> Stage \union {-1}] /\ Deq \in [Class -> Stage \union {-1}]

ASSUME LayoutAssumption ==
    /\ Layout \in Seq(Seq(SUBSET Op)) /\ Layout # <<>> /\ IsFiniteSet(Op)
    /\ Successors \in [Block -> SUBSET Block]
    /\ \A b \in Block : Cardinality(Successors[b]) <= 2

\* Only a store has no destination.
Operation ==
    {o \in [class : Class, dest : Reg \union {NoReg}, src : Reg] :
       o.dest = NoReg <=> Access[o.class] = "store"}

VARIABLES
    ops,      \* class, destination and source of every operation
    code,     \* per block, its instructions so far
    block,    \* the block being spread, the last one plus 1 when done
    pos,      \* the instruction of it, from the last to the first
    inserted  \* -1 until the dependences are done, then the conflict loop's i

vars == <<ops, code, block, pos, inserted>>

-----------------------------------------------------------------------------
(* Who uses what: the use lists that the data flow analysis leaves behind. *)
Defines(instr, r) == \E o \in instr : ops[o].dest = r

Clear(b, from, to, r) == \A k \in from..to : ~Defines(code[b][k], r)

\* Sets of blocks that a value in r does not leave.
Closed(S, r) == \A e \in S : Clear(e, 1, Len(code[e]), r) => Successors[e] \subseteq S

\* The blocks at whose start the value that b leaves in r may still be.
Reached(b, r) ==
    {c \in Block : \A S \in SUBSET Block :
                     (Successors[b] \subseteq S /\ Closed(S, r)) => c \in S}

IsUse(o1, o2) ==
    /\ ops[o2].src = ops[o1].dest /\ ops[o1].dest # NoReg
    /\ \E b \in Block : \E p \in DOMAIN code[b] :
         /\ o1 \in code[b][p]
         /\ \/ \E q \in (p + 1)..Len(code[b]) :
                 /\ o2 \in code[b][q]
                 /\ Clear(b, p + 1, q - 1, ops[o1].dest)
            \/ /\ Clear(b, p + 1, Len(code[b]), ops[o1].dest)
               /\ \E c \in Reached(b, ops[o1].dest) :
                    \E q \in DOMAIN code[c] :
                      /\ o2 \in code[c][q]
                      /\ Clear(c, 1, q - 1, ops[o1].dest)

-----------------------------------------------------------------------------
Distance(n) == IF n < 0 THEN -n ELSE n

\* get_feedback_latencies: the path is read by the first operation of the call
\* and written by the second.
FeedbackLatencies(o1, o2) ==
    LET deq == Deq[ops[o1].class]
        enq == Enq[ops[o2].class]
    IN IF deq >= 0 /\ enq >= 0 /\ deq # enq THEN {Distance(deq - enq)} ELSE {}

NrFlowDepCycles(o1, o2) ==
    LET stages == WriteTime[ops[o1].class] - ReadTime[ops[o2].class]
    IN IF ~IsUse(o1, o2) THEN 0
       ELSE Min({Max({0, stages})} \union FeedbackLatencies(o1, o2))

EqualRegs(r, s) == r = s /\ r # NoReg

NrOutputAntiDepCycles(o1, o2) ==
    LET written == WriteTime[ops[o2].class]
        output == IF EqualRegs(ops[o1].dest, ops[o2].dest)
                  THEN Max({1, WriteTime[ops[o1].class] - written}) ELSE 0
        anti == IF EqualRegs(ops[o1].src, ops[o2].dest)
                THEN Max({1, ReadTime[ops[o1].class] - written}) ELSE 0
    IN Max({output, anti})

\* disamb, which knows nothing of any two addresses here.
MemoryDependent(o1, o2) ==
    /\ "none" \notin {Access[ops[o1].class], Access[ops[o2].class]}
    /\ "store" \in {Access[ops[o1].class], Access[ops[o2].class]}

NrMemoryDepCycles(o1, o2) ==
    IF MemoryDependent(o1, o2)
    THEN Max({0, MemoryTime[ops[o1].class] - MemoryTime[ops[o2].class]}) ELSE 0

NrDepCycles(o1, o2) ==
    Max({NrFlowDepCycles(o1, o2), NrOutputAntiDepCycles(o1, o2),
         NrMemoryDepCycles(o1, o2)})
ComputeNrDepCycles(o1, o2) ==
    NrDepCycles(o1, o2) + (IF WriteThrough THEN 0 ELSE 1)

NrCycles(instr1, instr2) ==
    Max({0} \union {ComputeNrDepCycles(o1, o2) : o1 \in instr1, o2 \in instr2})

MaxReservationTableSize(instr) ==
    Max({0} \union {j \in Stage : \E o \in instr : Table[ops[o].class][j] # {}})

\* What follows the current instruction: the rest of its block and, when the
\* block ends first, the instructions of one successor.
AheadInBlock == SubSeq(code[block], pos + 1, Len(code[block]))
Ahead ==
    {AheadInBlock \o code[c] : c \in Successors[block]} \union {AheadInBlock}

Lookahead == MaxReservationTableSize(code[block][pos])

\* The most cycles that are missing between the instruction and one of those.
MissingInBlock ==
    Max({0} \union {NrCycles(code[block][pos], AheadInBlock[j]) - j :
                      j \in {j \in DOMAIN AheadInBlock : j < Lookahead}})
Missing ==
    Max({0} \union UNION {{NrCycles(code[block][pos], next[j]) - j :
                             j \in {j \in DOMAIN next : j < Lookahead}}
                            : next \in Ahead})

Empties(n) == [k \in 1..n |-> {}]

WithEmpties(n) ==
    SubSeq(code[block], 1, pos) \o Empties(n) \o AheadInBlock

\* NoPipelineConflicts adds up the tables of the instruction and of those after
\* it in its block, and compares every stage with the capacities.  A claim is an
\* instruction and an operation of it.
Claims(seq, from, cycle, u) ==
    {c \in (from..Len(seq)) \X Op :
       LET stage == cycle - (c[1] - from)
       IN /\ c[2] \in seq[c[1]]
          /\ stage \in Stage
          /\ u \in Table[ops[c[2]].class][stage]}
ConflictsNow ==
    \E u \in Unit : Cardinality(Claims(code[block], pos, 0, u)) > Capacity[u]
ConflictsAtCapacity ==
    \E cycle \in Stage : \E u \in Unit :
      LET n == Cardinality(Claims(code[block], pos, cycle, u))
      IN n > 0 /\ n >= Capacity[u]
Conflicts ==
    \E cycle \in Stage : \E u \in Unit :
      Cardinality(Claims(code[block], pos, cycle, u)) > Capacity[u]

-----------------------------------------------------------------------------
\* Every instruction fits its own reservation tables.
Init ==
    /\ ops \in [Op -> Operation]
    /\ code = Layout
    /\ \A b \in Block : \A k \in DOMAIN code[b] : \A cycle \in Stage, u \in Unit :
         Cardinality(Claims(<<code[b][k]>>, 1, cycle, u)) <= Capacity[u]
    /\ block = 1
    /\ pos = Len(code[block])
    /\ inserted = -1

SpreadDependences ==
    /\ block \in Block
    /\ pos > 0
    /\ inserted = -1
    /\ code' = [code EXCEPT ![block] = WithEmpties(Missing)]
    /\ inserted' = 0
    /\ UNCHANGED <<ops, block, pos>>

SpreadConflict ==
    /\ block \in Block
    /\ inserted \in 0..(PIPELENGTH - 1)
    /\ Conflicts
    /\ code' = [code EXCEPT ![block] = WithEmpties(1)]
    /\ inserted' = inserted + 1
    /\ UNCHANGED <<ops, block, pos>>

\* The assertion i < PIPELENGTH, then the instruction before it.
PreviousInstr ==
    /\ block \in Block
    /\ inserted \in 0..(PIPELENGTH - 1)
    /\ ~Conflicts
    /\ pos' = pos - 1
    /\ inserted' = -1
    /\ UNCHANGED <<ops, code, block>>

NextBlock ==
    /\ block \in Block
    /\ pos = 0
    /\ block' = block + 1
    /\ pos' = IF block' \in Block THEN Len(code[block']) ELSE 0
    /\ UNCHANGED <<ops, code, inserted>>

Next == SpreadDependences \/ SpreadConflict \/ PreviousInstr \/ NextBlock

Spec == Init /\ [][Next]_vars

-----------------------------------------------------------------------------
Done == block = Len(Layout) + 1

\* An instruction whose own operations fit the capacities never runs into
\* _ASSERT(i<PIPELENGTH): there is always a distance at which it conflicts with
\* nothing.
AssertionHolds ==
    inserted < PIPELENGTH

\* When the routine has been spread, no unit is ever claimed by more operations
\* than it takes: the instructions of a block issued one per cycle, every cycle.
NoUnitOverclaimed ==
    Done =>
      \A b \in Block : \A cycle \in 0..(Len(code[b]) + PIPELENGTH) :
        \A u \in Unit : Cardinality(Claims(code[b], 1, cycle, u)) <= Capacity[u]

\* Pairs of operations the pass answers for, in one block or in a block and in
\* one that may follow it, with the cycles between their issues.
Apart(o1, o2, d) ==
    \E b \in Block : \E p \in DOMAIN code[b] :
      /\ o1 \in code[b][p]
      /\ \/ p + d \in DOMAIN code[b] /\ o2 \in code[b][p + d]
         \/ \E c \in Successors[b] :
              LET q == p + d - Len(code[b])
              IN q \in DOMAIN code[c] /\ o2 \in code[c][q]
Distances == 1..(2 * PIPELENGTH)

\* The register file is read after it has been written and written in program
\* order: for every operation and a later one of its block or of a following
\* block, a use reads at least a cycle after its definition writes (in the same
\* cycle when the file writes through), and a later write comes after an earlier
\* read or write of the register; memory is accessed in program order around a
\* store.
AccessesInOrder ==
    Done =>
      \A o1, o2 \in Op, d \in Distances :
        LET c1 == ops[o1].class  c2 == ops[o2].class
            gap == IF WriteThrough THEN 0 ELSE 1 IN
        Apart(o1, o2, d) =>
        /\ IsUse(o1, o2) => d + ReadTime[c2] >= WriteTime[c1] + gap
        /\ EqualRegs(ops[o1].dest, ops[o2].dest) => d + WriteTime[c2] > WriteTime[c1]
        /\ ops[o1].src = ops[o2].dest => d + WriteTime[c2] > ReadTime[c1]
        /\ MemoryDependent(o1, o2) => d + MemoryTime[c2] > MemoryTime[c1]
=============================================================================
