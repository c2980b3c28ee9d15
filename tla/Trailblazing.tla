---------------------------- MODULE Trailblazing ----------------------------
(***************************************************************************)
(* Trailblazing, the code motion pass of EXPRESS without a pipeline model: *)
(* every operation is moved up the hierarchical task graph (HTG), over     *)
(* whole conditionals and loops, into the highest instruction that has a   *)
(* free slot for it.  Operations are neither split into the branches of a  *)
(* conditional nor moved out of them, the values tbz_allow_splitting and   *)
(* tbz_allow_speculative have.                                             *)
(*                                                                         *)
(* An operation is the instruction it starts in; 0 is no operation, no     *)
(* instruction and no node.                                                *)
(***************************************************************************)
EXTENDS Integers, FiniteSets, Sequences, SequencesExt, Filter

CONSTANTS
    NumInstr,     \* instructions, in program order
    Simple, Cond, Loop,   \* the other nodes: basic blocks, ifs and loops,
                          \* numbered from the outside in
    Up, Prev,     \* per node, its parent and the sibling before it, or 0
    Ways,         \* the ways through the routine, sequences of instructions
    Reg, CCReg,   \* the registers, and which of them are condition codes
    BranchReads,  \* per instruction, what the branch in it reads
    Barrier,      \* the instructions with a call or a return
    NumSlots,     \* the data slots of an instruction
    Form,         \* the operations a program is made of
    MaxOps,       \* bound: operations in a program
    MAXLIVE

Instr == 1..NumInstr
Node  == Instr \cup Simple \cup Cond \cup Loop
Op    == Instr
Slot  == 1..NumSlots

OpForm == [dest : SUBSET Reg, srcs : SUBSET Reg,
           memory : {"load", "store", "none"}, slots : Seq(Slot)]

ASSUME TreeAssumption ==
    /\ NumInstr \in Nat /\ NumSlots \in Nat
    /\ Node \subseteq Nat \ {0} /\ IsFiniteSet(Node)
    /\ Instr \cap (Simple \cup Cond \cup Loop) = {}
    /\ Simple \cap (Cond \cup Loop) = {} /\ Cond \cap Loop = {}
    /\ Up \in [Node -> Node \cup {0}] /\ Prev \in [Node -> Node \cup {0}]
    /\ \A n \in Instr : Up[n] \in Simple
    /\ \A n \in Node \ Instr : Up[n] \in Cond \cup Loop \cup {0} /\ Up[n] < n
    /\ \A n \in Node : Prev[n] # 0 => Up[Prev[n]] = Up[n]

ASSUME CodeAssumption ==
    /\ CCReg \subseteq Reg /\ BranchReads \in [Instr -> SUBSET CCReg]
    /\ Barrier \subseteq Instr
    /\ \A f \in Form : f \in OpForm /\ f.slots # <<>> /\ Cardinality(f.dest) <= 1

VARIABLES
    form,         \* the operation that starts in an instruction, NoForm if none
    code,         \* per instruction and slot, the operation in it
    ud,           \* per operation, the operations whose values it may read
    live,         \* per basic block, the registers live at its end
    unif,         \* per instruction, its _unifiableOps
    lastCanMove,  \* _lastCanMove
    level,        \* the loop being compacted, 0 for the code outside loops
    cursor,       \* the instruction being scheduled, 0 before them
    phase

vars == <<form, code, ud, live, unif, lastCanMove, level, cursor, phase>>

NoForm == [dest |-> {}, srcs |-> {}, memory |-> "none", slots |-> <<>>]

-----------------------------------------------------------------------------
(* The tree *)

Ancestors[n \in Node] == {n} \cup (IF Up[n] = 0 THEN {} ELSE Ancestors[Up[n]])

Above   == [n \in Node |-> Ancestors[n]]
Within  == [n \in Node |-> {i \in Instr : n \in Above[i]}]
Blocks  == [n \in Node |-> {b \in Simple : n \in Above[b]}]
LastInstr == [b \in Simple |-> CHOOSE i \in Within[b] : \A j \in Within[b] : j <= i]

\* No node is empty, a node is a run of instructions, siblings adjoin, and the
\* instructions of a block are each other's siblings.
ASSUME OrderAssumption ==
    /\ \A n \in Node : Within[n] # {} /\ \A i, j \in Within[n] : i..j \subseteq Within[n]
    /\ \A n \in Node : Prev[n] # 0 =>
          \A i \in Within[Prev[n]], j \in Within[n] :
            i < j /\ i..j \subseteq Within[Prev[n]] \cup Within[n]
    /\ \A b \in Simple : \A i, j \in Within[b] : i < j => Prev[j] = j - 1

\* The first nodes of the branches of an if, and what of the if is not before one.
Starts    == {n \in Node : Up[n] \in Cond /\ Prev[n] = 0}
Beyond(s) == {i \in Within[Up[s]] : \E k \in Within[s] : k <= i}

\* Other routines are skipped by buildHTG.  Of two instructions that are executed
\* both, the later one not in an if, a branch or a loop that the earlier is not in,
\* the later can follow with nothing executed between but what lies between them.
ASSUME WaysAssumption ==
    /\ Ways \subseteq Seq(Instr)
    /\ \A i, j \in Instr :
         /\ i < j /\ Above[j] \cap (Cond \cup Loop) \subseteq Above[i]
         /\ \A s \in Starts : i \in Within[Up[s]] /\ j \in Beyond(s) => i \in Beyond(s)
         /\ \E w \in Ways : i \in Range(w) /\ j \in Range(w)
         => \E w \in Ways : \E b \in DOMAIN w : \E a \in 1..(b - 1) :
              /\ w[a] = i /\ w[b] = j
              /\ \A k \in (a + 1)..(b - 1) : i < w[k] /\ w[k] < j

\* createOrGetLastTrueNode and createOrGetLastFalseNode.
LastNodes == [n \in Cond |-> {c \in Node : Up[c] = n /\ \A d \in Node : Prev[d] # c}]

\* The nodes with an if under them that has no true or no false branch.
OneArmed == UNION {Above[c] : c \in {c \in Cond : Cardinality(LastNodes[c]) < 2}}

\* The instructions in a loop but in no deeper one, those of schedule_instructions.
InLevel ==
    [l \in Loop \cup {0} |->
       {i \in IF l = 0 THEN Instr ELSE Within[l] :
          \A m \in Above[i] \cap Loop : l # 0 /\ m \in Above[l]}]

\* prevTB goes up from a block's first instruction and never out of an if or a
\* loop; setNotGoUp keeps it in the block.
PrevTBOutOfIf(n, notGoUp) ==
    IF Prev[n] # 0 THEN Prev[n]
    ELSE IF n \in Instr /\ ~notGoUp
    THEN IF Prev[Up[n]] # 0 \/ Up[Up[n]] = 0 THEN Prev[Up[n]] ELSE Prev[Up[Up[n]]]
    ELSE 0
PrevTB(n, notGoUp) ==
    IF Prev[n] # 0 THEN Prev[n]
    ELSE IF n \in Instr /\ ~notGoUp THEN Prev[Up[n]] ELSE 0

-----------------------------------------------------------------------------
(* Programs: use-definition chains and live sets that earlier passes leave *)

\* Register r, as operation or position i of way w leaves it, is not written in
\* between.
Untouched(frm, w, i, j, r) == \A k \in (i + 1)..(j - 1) : r \notin frm[w[k]].dest

Chains(frm) ==
    [o \in Op |-> {d \in Op : \E r \in frm[d].dest \cap frm[o].srcs :
        \E w \in Ways : \E j \in DOMAIN w : \E i \in 1..(j - 1) :
          w[i] = d /\ w[j] = o /\ Untouched(frm, w, i, j, r)}]

LiveAtEnd(frm) ==
    [b \in Simple |-> {r \in Reg :
        \E w \in Ways : \E i \in DOMAIN w : w[i] = LastInstr[b] /\
          \E j \in (i + 1)..Len(w) :
            /\ r \in frm[w[j]].srcs \cup BranchReads[w[j]]
            /\ Untouched(frm, w, i, j, r)}]

\* One operation per instruction, none in the first, which is a dummy.
FirstInstr == 1
Places == {i \in Instr \ ({FirstInstr} \cup Barrier) : BranchReads[i] = {}}
Programs ==
    {[i \in Instr |-> IF i \in DOMAIN f THEN f[i] ELSE NoForm] :
        f \in UNION {[P -> Form] : P \in {P \in SUBSET Places : Cardinality(P) <= MaxOps}}}

Init ==
    /\ form \in Programs
    /\ code = [i \in Instr |-> [s \in Slot |->
                 IF form[i] # NoForm /\ s = Head(form[i].slots) THEN i ELSE 0]]
    /\ ud = Chains(form)
    /\ live = LiveAtEnd(form)
    /\ unif = [i \in Instr |-> <<>>]
    /\ lastCanMove = 0
    /\ level = 0 /\ cursor = 0
    /\ phase = "compute"

-----------------------------------------------------------------------------
(* Dependences *)

OpsIn(cd, i) == {cd[i][s] : s \in Slot} \ {0}
HomeIn(cd, o) == CHOOSE i \in Instr : o \in OpsIn(cd, i)
Present == {o \in Op : form[o] # NoForm}
Home(o) == HomeIn(code, o)

Dests(ops) == UNION {form[o].dest : o \in ops}
Srcs(ops)  == UNION {form[o].srcs : o \in ops}
Dest(o) == form[o].dest
Src(o)  == form[o].srcs

\* disamb answers DONTKNOW.
MemoryOrder(o, ops) ==
    \E p \in ops : /\ form[o].memory # "none" /\ form[p].memory # "none"
                   /\ "store" \in {form[o].memory, form[p].memory}

\* surpassesRegisterCount keeps condition codes apart.
CCOrderNoBranch(o, i, ops) ==
    \/ Src(o) \cap CCReg # {} /\ Dests(ops) \cap CCReg # {}
    \/ Dest(o) \cap CCReg # {} /\ (Dests(ops) \cup Srcs(ops)) \cap CCReg # {}
CCOrder(o, i, ops) ==
    \/ Src(o) \cap CCReg # {} /\ Dests(ops) \cap CCReg # {}
    \/ /\ Dest(o) \cap CCReg # {}
       /\ (Dests(ops) \cup Srcs(ops) \cup BranchReads[i]) \cap CCReg # {}

\* cannotMoveBeyond: a barrier, or a dependence on the instruction.
DependsNoAnti(o, i, cd) ==
    LET ops == OpsIn(cd, i) \ {o} IN
    \/ i \in Barrier \/ ud[o] \cap ops # {} \/ Dest(o) \cap Dests(ops) # {}
    \/ MemoryOrder(o, ops) \/ CCOrder(o, i, ops)
Depends(o, i, cd) ==
    LET ops == OpsIn(cd, i) \ {o} IN
    \/ i \in Barrier
    \/ ud[o] \cap ops # {}
    \/ Dest(o) \cap Srcs(ops) # {}
    \/ Dest(o) \cap Dests(ops) # {}
    \/ MemoryOrder(o, ops)
    \/ CCOrder(o, i, ops)

DependsOn(o, n, cd) == \E i \in Within[n] : Depends(o, i, cd)

HasLive(o, n, lv) ==
    \/ \E b \in Blocks[n] : form[o].memory = "none" /\ Dest(o) \cap lv[b] # {}
    \/ n \in OneArmed

-----------------------------------------------------------------------------
(* find_unifop_destination *)

\* Where the search puts o, and the instructions it has taken o off before.
Nowhere == [at |-> {}, seen |-> {}]
Else(f, g) == [at |-> IF f.at # {} THEN f.at ELSE g.at, seen |-> f.seen \cup g.seen]
Seen(f, n) == [f EXCEPT !.seen = @ \cup Within[n]]

\* Where the search for o goes on inside a block or an if.
LastOf(n) == IF n \in Simple THEN {LastInstr[n]} ELSE LastNodes[n]

\* A call of the search: a node and notGoUp.
Calls == (Node \cup {0}) \X BOOLEAN
OnUp(c) == <<PrevTB(c[1], c[2]), c[2]>>

\* A block or an if that o depends on takes o in from below, as the last resort
\* too; a loop never takes it in.
Found(o, n, cd, lv, above, within) ==
    IF n = 0 THEN Nowhere
    ELSE IF n \in Loop
    THEN IF DependsOn(o, n, cd) THEN Nowhere ELSE above
    ELSE IF n \in Instr
    THEN Seen(IF Depends(o, n, cd) THEN Nowhere
              ELSE Else(above, [at |-> {n}, seen |-> {}]), n)
    ELSE Seen(IF DependsOn(o, n, cd) THEN within
              ELSE IF \/ HasLive(o, n, lv)
                      \/ n \in Simple /\ Cardinality(lv[n]) > MAXLIVE
              THEN Nowhere ELSE Else(above, within), n)
FindDestination(o, cd, lv) ==
    LET find[c \in Calls] ==
          Found(o, c[1], cd, lv, find[OnUp(c)],
                [at |-> UNION {find[<<m, TRUE>>].at : m \in LastOf(c[1])},
                 seen |-> UNION {find[<<m, TRUE>>].seen : m \in LastOf(c[1])}])
    IN find[<<PrevTB(HomeIn(cd, o), FALSE), FALSE>>]

Off(list, o) == Kept(list, Op \ {o})

\* BaseOperation::compute_unifiable_ops, for the operations of a sequence in turn.
Relisted(un, o, found) ==
    [i \in Instr |-> IF i \in found.at THEN Append(Off(un[i], o), o)
                     ELSE IF i \in found.seen THEN Off(un[i], o) ELSE un[i]]
ComputeUnifiableOps(un, seq, cd, lv) ==
    LET after[k \in 0..Len(seq)] ==
          IF k = 0 THEN un
          ELSE Relisted(after[k - 1], seq[k], FindDestination(seq[k], cd, lv))
    IN after[Len(seq)]

\* The operations of some instructions, in the order of instructions and slots.
OpsOf(cd, instrs) ==
    LET upTo[k \in 0..Len(instrs)] ==
          IF k = 0 THEN <<>> ELSE upTo[k - 1] \o Kept(cd[instrs[k]], Op)
    IN upTo[Len(instrs)]

Ascending(instrs)  == Kept([k \in Instr |-> k], instrs)
Descending(instrs) == Reverse(Ascending(instrs))

\* ::compute_unifiable_ops(list) at the start of a level.
Compute ==
    /\ phase = "compute"
    /\ unif' = ComputeUnifiableOps(unif, OpsOf(code, Ascending(InLevel[level])),
                                   code, live)
    /\ phase' = "schedule"
    /\ UNCHANGED <<form, code, ud, live, lastCanMove, level, cursor>>

-----------------------------------------------------------------------------
(* migrate *)

AvailSlots(o, i) == {k \in DOMAIN form[o].slots : code[i][form[o].slots[k]] = 0}
AvailSlot(o, i) ==
    form[o].slots[CHOOSE k \in AvailSlots(o, i) :
                    \A j \in AvailSlots(o, i) : k <= j]

\* What becomes of o on its way up: the instruction it goes into, the blocks on
\* the way after its own, _lastCanMove, and what stops the pass.
Stays(last) == [at |-> 0, via |-> {}, last |-> last, stop |-> "no"]

\* The first instruction takes nothing: setNoCodeMotionInstrs.
Insert(o, n, r) ==
    IF n = Home(o) \/ n = FirstInstr THEN r
    ELSE IF r.last = 0 THEN [r EXCEPT !.stop = "nullDereference"]
    ELSE IF AvailSlots(o, n) = {} THEN r
    ELSE [r EXCEPT !.at = n, !.via = {}]

UnifiableAtEnd(n, o) ==
    IF n \in Simple THEN o \in Range(unif[LastInstr[n]])
    ELSE \E i \in Within[n] : o \in Range(unif[i])
Unifiable(n, o) == \E i \in Within[n] : o \in Range(unif[i])

Settled(r) == r.at # 0 \/ r.stop # "no"

Via(r, b) == [r EXCEPT !.via = @ \cup {b}]

Migrated(o, n, above, within) ==
    IF n = 0 THEN Stays(lastCanMove)
    ELSE IF n \in Instr
    THEN IF Unifiable(n, o) THEN Insert(o, n, Stays(n))
         ELSE IF Settled(above) THEN above ELSE Insert(o, n, above)
    ELSE IF n \in Simple
    THEN IF Unifiable(n, o) THEN Via(within, n)
         ELSE IF PrevTB(n, FALSE) = 0
         THEN [Stays(lastCanMove) EXCEPT !.stop = "forcedExit"]
         ELSE Via(above, n)
    ELSE IF n \in Cond /\ Unifiable(n, o) THEN Stays(lastCanMove)
    ELSE above
Migrate(o) ==
    LET migrate[n \in Node \cup {0}] ==
          Migrated(o, n, migrate[PrevTB(n, FALSE)], migrate[LastInstr[n]])
    IN migrate[Home(o)]

\* updateSetsForDependents: the later uses of o's result, then everything below
\* o's old instruction in its block, from the last instruction up.
Dependents(o, i, cd) ==
    Ascending({u \in Present : o \in ud[u] /\ u # o /\ HomeIn(cd, u) > i})
    \o OpsOf(cd, Descending({j \in Within[Up[i]] : j > i}))

\* availSlot->addOperation and extract.
NotExtracted(o, i) == [code EXCEPT ![i][AvailSlot(o, i)] = o]
Moved(o, i) ==
    [NotExtracted(o, i) EXCEPT ![Home(o)] =
       [s \in Slot |-> IF @[s] = o THEN 0 ELSE @[s]]]

\* UpdateLive: the blocks o has passed and the one it is in get its result.
Carried(o) == IF \E u \in Present : o \in ud[u] THEN Dest(o) ELSE {}

NotRemoved(o) == unif
Skipped(o) == [unif EXCEPT ![cursor] = Off(@, o)]

\* NormalInstr::schedule, for the operation at the head of _unifiableOps.  The
\* operation that moves is a copy; what still lists the old one skips it.
Schedule ==
    /\ phase = "schedule" /\ cursor # 0 /\ unif[cursor] # <<>>
    /\ LET o == Head(unif[cursor])
           r == Migrate(o)
       IN /\ lastCanMove' = r.last
          /\ IF r.stop # "no"
             THEN /\ phase' = r.stop
                  /\ UNCHANGED <<code, live, unif>>
             ELSE /\ IF r.at = 0
                     THEN unif' = Skipped(o) /\ UNCHANGED <<code, live>>
                     ELSE /\ code' = Moved(o, r.at)
                          /\ live' = [b \in Simple |->
                                live[b] \cup IF b \in r.via THEN Carried(o) ELSE {}]
                          /\ unif' = ComputeUnifiableOps(
                                [i \in Instr |-> Off(unif[i], o)],
                                Dependents(o, Home(o), code'), code', live')
                  /\ UNCHANGED phase
    /\ UNCHANGED <<form, ud, level, cursor>>

NextInstr ==
    /\ phase = "schedule"
    /\ cursor # 0 => unif[cursor] = <<>>
    /\ \E i \in InLevel[level] :
         /\ i > cursor /\ \A j \in InLevel[level] : j > cursor => i <= j
         /\ cursor' = i
    /\ UNCHANGED <<form, code, ud, live, unif, lastCanMove, level, phase>>

\* Routine::trailblaze and LoopHTGNode::trailblaze: the loops come after the
\* code around them, in program order.
NextLevel ==
    /\ phase = "schedule" /\ cursor # 0 /\ unif[cursor] = <<>>
    /\ \A i \in InLevel[level] : i <= cursor
    /\ LET deeper == {l \in Loop : l > level} IN
         IF deeper = {} THEN phase' = "done" /\ UNCHANGED <<level, cursor>>
         ELSE /\ level' = CHOOSE l \in deeper : \A m \in deeper : l <= m
              /\ cursor' = 0 /\ phase' = "compute"
    /\ UNCHANGED <<form, code, ud, live, unif, lastCanMove>>

Stopped == phase \in {"done", "nullDereference", "forcedExit"} /\ UNCHANGED vars

Next == Compute \/ Schedule \/ NextInstr \/ NextLevel \/ Stopped

Spec == Init /\ [][Next]_vars

-----------------------------------------------------------------------------
\* Two operations that touch a common register or memory, one of them writing.
Conflict(o, p) ==
    \/ Dest(o) \cap (Dest(p) \cup Src(p)) # {} \/ Src(o) \cap Dest(p) # {}
    \/ MemoryOrder(o, {p})

\* Instructions that are never executed both.
Apart(i, j) == \A w \in Ways : i \notin Range(w) \/ j \notin Range(w)

\* Operations whose order matters keep it and never share an instruction,
\* however the passes over the levels and the updates interleave.
DependencesKept ==
    \A o, p \in Present :
        o < p /\ ~Apart(o, p) /\ Conflict(o, p) => Home(o) < Home(p)

\* A condition code is never written above or beside a branch that reads the
\* one before.
BranchesKept ==
    \A o \in Present, i \in Instr :
        o > i /\ Dest(o) \cap BranchReads[i] # {} /\ ~Apart(o, i) => Home(o) > i

\* Nothing is lost, copied, or put in a slot of another kind.
EveryOperationOnce ==
    \A o \in Op :
        Cardinality({p \in Instr \X Slot : code[p[1]][p[2]] = o}) =
            (IF form[o] = NoForm THEN 0 ELSE 1)
        /\ \A i \in Instr, s \in Slot :
             code[i][s] = o => s \in Range(form[o].slots)

\* "This piece of code should never be executed."
NeverForcedExit == phase # "forcedExit"

\* An operation stays on its side of every if and loop, so it is executed as
\* often as it was, and it only moves up.
OnlyUp ==
    [][\A o \in Present :
          \/ Home(o)' = Home(o)
          \/ /\ Home(o)' < Home(o) /\ Home(o)' # FirstInstr
             /\ Above[Home(o)'] \cap (Cond \cup Loop) =
                  Above[Home(o)] \cap (Cond \cup Loop)]_vars

\* The pass ends: a step that lengthens the list of the instruction being
\* scheduled has moved an operation up, and no other step repeats.
Rank == Cardinality({p \in Present \X Instr : p[2] <= Home(p[1])})
Advances ==
    [][phase = "schedule" /\ cursor' = cursor /\ phase' = "schedule" =>
         \/ Rank' < Rank
         \/ Rank' = Rank /\ Len(unif'[cursor]) < Len(unif[cursor])]_vars
=============================================================================
