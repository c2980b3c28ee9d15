------------------------------ MODULE Pipeline ------------------------------
(***************************************************************************)
(* One clock cycle of the SIMPRESS structural simulator, unit by unit:     *)
(* ControlUnit::doStep (systemDll/acesMIPSderivedClassDll) preprocesses    *)
(* every unit, steps the rows of the control table from WRITEBACK up to    *)
(* FETCH, recovers from a mispredicted branch, commits the register files  *)
(* and lets StallMechanism::setStall deliver the latches.                  *)
(*                                                                         *)
(* An operation is its position in the fetched stream, 0 is the empty      *)
(* opcode.  A register holds the operation that wrote it, 0 at the start.  *)
(***************************************************************************)
EXTENDS Naturals, Sequences, FiniteSets

CONSTANTS
    NumPipes,        \* lanes below DECODE, numbered in its successor order
    MemPipe,         \* the lane that ends in the LoadStoreUnit
    BranchPipe,      \* the lane that ends in the BranchUnit
    WBOrder,         \* the order of WRITEBACK's input latches
    Regs,
    Opcodes,         \* the operation forms a program is made of
    InstBufSize,     \* DecodeUnit parameters
    NumInstFetch,
    NumInstDecode,
    BufSize,         \* OpReadUnit station
    ResStationSize,  \* ExecuteUnit, BranchUnit and LoadStoreUnit station
    ProgramLength    \* bound: operations fetched in a behaviour

Pipes == 1..NumPipes

\* "missed" is a branch whose outcome is not the one FETCH followed.
Control == {"branch", "missed", "jr"}
Memory  == {"load", "store"}
Class   == {"alu", "nop"} \cup Control \cup Memory

\* The classes after which FETCH runs down the wrong path.
Diverting == {"missed", "jr"}

OpcodeForm == [class : Class, pipes : SUBSET Pipes, dest : SUBSET Regs,
               srcs : SUBSET Regs, timing : Nat]

ASSUME PipesAssumption ==
    /\ NumPipes \in Nat
    /\ MemPipe \in Pipes /\ BranchPipe \in Pipes /\ MemPipe # BranchPipe
    /\ WBOrder \in [Pipes -> Pipes]
    /\ \A p, q \in Pipes : WBOrder[p] = WBOrder[q] => p = q

ASSUME SizesAssumption ==
    /\ NumInstFetch \in Nat \ {0} /\ NumInstDecode \in Nat \ {0}
    /\ InstBufSize \in Nat /\ InstBufSize >= NumInstFetch
    /\ BufSize \in Nat \ {0} /\ ResStationSize \in Nat \ {0}
    /\ ProgramLength \in Nat

ASSUME OpcodesAssumption ==
    /\ Opcodes \subseteq OpcodeForm
    /\ \A o \in Opcodes :
         /\ o.class \in Memory <=> o.pipes = {MemPipe}
         /\ o.class \in Control <=> o.pipes = {BranchPipe}
         /\ o.class \notin Memory \cup Control =>
              o.pipes \cap {MemPipe, BranchPipe} = {}
         /\ o.class \notin {"alu", "load"} => o.dest = {}
         /\ Cardinality(o.dest) <= 1

VARIABLES
    phase,        \* where in ControlUnit::doStep the cycle is
    stream,       \* history: the operations fetched, [code, onPath]
    retired,      \* history: the operations written back, stored or dropped
    offPath,      \* the pc latch holds an address the program will not reach
    mispredicted, \* BranchMispredicted and BranchOperation, 0 when clear
    ended,        \* _END_OF_PROGRAM_
    fetDec,       \* FetDecLatch, [old, new]
    instBuffer,   \* DecodeUnit::InstBuffer
    decRd,        \* per lane, the DECODE to READ latch (it appends)
    rdStation,    \* per lane, OpReadUnit::ReservationStation
    rdEx,         \* per lane, the READ to EX latch with its operand values
    exStation,    \* per lane, the ReservationStation of the EX unit
    exCount,      \* per lane, ExecuteUnit::_count
    exWb,         \* per lane, the EX to WRITEBACK latch
    destTable,    \* IntDestTable and FltDestTable
    regs,         \* the register files
    regsNew,      \* their _newDataList, 0 where nothing is pending
    busyDecode, busyRead, busyEx,       \* BusyBit of the control table
    stallFetch, stallDecode, stallRead  \* StallBit of the control table

history  == <<stream, retired>>
front    == <<offPath, fetDec, instBuffer>>
lanes    == <<decRd, rdStation, rdEx, exStation, exCount, exWb>>
regfile  == <<regs, regsNew>>
busy     == <<busyDecode, busyRead, busyEx>>
stall    == <<stallFetch, stallDecode, stallRead>>
vars     == <<phase, history, front, mispredicted, ended, lanes, destTable,
              regfile, busy, stall>>

-----------------------------------------------------------------------------
OpId  == 1..Len(stream)
Entry == OpId \cup {0}

Code(i)   == stream[i].code
ClassOf(i) == Code(i).class
Dest(i)   == Code(i).dest
Srcs(i)   == Code(i).srcs
OnPath(i) == stream[i].onPath

NoValues  == [r \in Regs |-> 0]
EmptyRead == [op |-> 0, val |-> NoValues]

\* What a unit appends to its station when it reads a latch.
Arrived(i) == IF i = 0 THEN <<>> ELSE <<i>>

Init ==
    /\ phase = "preprocess"
    /\ stream = <<>> /\ retired = {}
    /\ offPath = FALSE /\ mispredicted = 0 /\ ended = FALSE
    /\ fetDec = [old |-> <<>>, new |-> <<>>]
    /\ instBuffer = <<>>
    /\ decRd = [p \in Pipes |-> [old |-> <<>>, new |-> <<>>]]
    /\ rdStation = [p \in Pipes |-> <<>>]
    /\ rdEx = [p \in Pipes |-> [old |-> EmptyRead, new |-> EmptyRead]]
    /\ exStation = [p \in Pipes |-> <<>>]
    /\ exCount = [p \in Pipes |-> 0]
    /\ exWb = [p \in Pipes |-> [old |-> 0, new |-> 0]]
    /\ destTable = {}
    /\ regs = NoValues /\ regsNew = NoValues
    /\ busyDecode = FALSE /\ busyRead = {} /\ busyEx = {}
    /\ stallFetch = FALSE /\ stallDecode = FALSE /\ stallRead = {}

-----------------------------------------------------------------------------
\* An EX unit reserves room for its latch even when the latch is empty: only
\* the program's own NOP counts for nothing.
ReservedNothing(i) == 0
Reserved(i) == IF i # 0 /\ ClassOf(i) = "nop" THEN 0 ELSE 1

\* DECODE is busy unless its buffer takes the latch and one more fetch group.
DecodeBusyTooLate == InstBufSize < Len(instBuffer) + Len(fetDec.old)
DecodeBusy == InstBufSize < Len(instBuffer) + Len(fetDec.old) + NumInstFetch

ReadBusy(p) == BufSize < Len(rdStation[p]) + Len(decRd[p].old)

ExBusy(p) == ResStationSize < Len(exStation[p]) + Reserved(rdEx[p].old.op)

Preprocess ==
    /\ phase = "preprocess" /\ ~ended
    /\ busyDecode' = DecodeBusy
    /\ busyRead' = {p \in Pipes : ReadBusy(p)}
    /\ busyEx' = {p \in Pipes : ExBusy(p)}
    /\ phase' = "writeback"
    /\ UNCHANGED <<history, front, mispredicted, ended, lanes, destTable,
                   regfile, stall>>

-----------------------------------------------------------------------------
\* The positions in WBOrder whose latch brings a value for register r.
Writers(r) ==
    {k \in Pipes : exWb[WBOrder[k]].old # 0 /\ r \in Dest(exWb[WBOrder[k]].old)}

ReleasedNever(done) == {}
Released(done) == UNION {Dest(i) : i \in done}

ReturnSeen(done) == \E i \in done : ClassOf(i) = "jr"

\* The register files keep the last of the values written to them in a cycle.
LastWritten(r) ==
    LET last == CHOOSE k \in Writers(r) : \A j \in Writers(r) : j <= k
    IN exWb[WBOrder[last]].old

WriteBack ==
    /\ phase = "writeback"
    /\ LET done == {exWb[p].old : p \in Pipes} \ {0} IN
         /\ retired' = retired \cup done
         /\ destTable' = destTable \ Released(done)
         /\ ended' = (ended \/ ReturnSeen(done))
    /\ regsNew' = [r \in Regs |-> IF Writers(r) = {} THEN regsNew[r]
                                  ELSE LastWritten(r)]
    /\ exWb' = [p \in Pipes |-> [exWb[p] EXCEPT !.old = 0]]
    /\ phase' = "execute"
    /\ UNCHANGED <<stream, front, mispredicted, decRd, rdStation, rdEx,
                   exStation, exCount, regs, busy, stall>>

-----------------------------------------------------------------------------
\* The station of an EX unit once it has read its latch.
Station(p) == exStation[p] \o Arrived(rdEx[p].old.op)

TimerRestarted(p) == Code(Head(Station(p))).timing
Timer(p) == IF exCount[p] = 0 THEN Code(Head(Station(p))).timing
            ELSE exCount[p]

IsNop(p) == Station(p) # <<>> /\ ClassOf(Head(Station(p))) = "nop"

\* ExecuteUnit keeps the head until its count runs out, BranchUnit never does.
Finishes(p) ==
    Station(p) # <<>> /\ (p = BranchPipe \/ IsNop(p) \/ Timer(p) <= 1)

\* The entries of the memory station that stay, as an increasing index map.
\* Only entries of an earlier cycle can be done: an address is calculated in
\* one cycle and the access is made in a later one.  The read queue answers
\* loads one at a time and in order.  Module LoadStore has the data path and
\* checks this contract, for the ResStationSize of 1 that the simulator is
\* built with.
Keeps ==
    LET len == Len(exStation[MemPipe]) IN
    {f \in UNION {[1..n -> 1..len] : n \in 0..len} :
        \A a, b \in DOMAIN f : a < b => f[a] < f[b]}

Done(keep) == (1..Len(exStation[MemPipe])) \ {keep[k] : k \in DOMAIN keep}

DoneOf(keep, class) ==
    {exStation[MemPipe][k] : k \in {j \in Done(keep) :
        ClassOf(exStation[MemPipe][j]) = class}}

LoadsInOrder(keep) ==
    \A k \in Done(keep) : ClassOf(exStation[MemPipe][k]) = "load" =>
        \A j \in 1..(k - 1) : ClassOf(exStation[MemPipe][j]) = "store"

LoadStoreStationEmptyOp(keep) ==
    [k \in DOMAIN keep |-> exStation[MemPipe][keep[k]]]
        \o <<rdEx[MemPipe].old.op>>
LoadStoreStation(keep) ==
    [k \in DOMAIN keep |-> exStation[MemPipe][keep[k]]]
        \o Arrived(rdEx[MemPipe].old.op)

Result(p, keep) ==
    IF p = MemPipe
    THEN IF DoneOf(keep, "load") = {} THEN 0
         ELSE CHOOSE i \in DoneOf(keep, "load") : TRUE
    ELSE IF Finishes(p) /\ ~IsNop(p) THEN Head(Station(p)) ELSE 0

\* completeBranchOperation: only a branch FETCH took the other way counts.
Mispredicts(branch) == branch # 0 /\ ClassOf(branch) = "missed"

Execute(keep) ==
    /\ phase = "execute"
    /\ LoadsInOrder(keep)
    /\ exStation' =
         [p \in Pipes |-> IF p = MemPipe THEN LoadStoreStation(keep)
                          ELSE IF Finishes(p) THEN Tail(Station(p))
                          ELSE Station(p)]
    /\ exCount' =
         [p \in Pipes |->
            IF p \in {MemPipe, BranchPipe} \/ Station(p) = <<>> \/ IsNop(p)
            THEN exCount[p]
            ELSE IF Timer(p) <= 1 THEN 0 ELSE Timer(p) - 1]
    /\ exWb' = [p \in Pipes |-> [exWb[p] EXCEPT !.new = Result(p, keep)]]
    /\ rdEx' = [p \in Pipes |-> [rdEx[p] EXCEPT !.old = EmptyRead]]
    /\ mispredicted' =
         LET branch == Result(BranchPipe, keep) IN
         IF Mispredicts(branch) THEN branch ELSE mispredicted
    /\ retired' = retired \cup DoneOf(keep, "store")
                    \cup {Head(Station(p)) : p \in {q \in Pipes : IsNop(q)}}
    /\ phase' = "opread"
    /\ UNCHANGED <<stream, front, ended, decRd, rdStation, destTable, regfile,
                   busy, stall>>

-----------------------------------------------------------------------------
Waiting(p) == rdStation[p] \o decRd[p].old

Operands(i) == [r \in Regs |-> IF r \in Srcs(i) THEN regs[r] ELSE 0]

OpRead ==
    /\ phase = "opread"
    /\ rdEx' =
         [p \in Pipes |->
            IF p \in stallRead THEN rdEx[p]
            ELSE [rdEx[p] EXCEPT !.new =
                    IF Waiting(p) = <<>> THEN EmptyRead
                    ELSE [op |-> Head(Waiting(p)),
                          val |-> Operands(Head(Waiting(p)))]]]
    /\ rdStation' =
         [p \in Pipes |->
            IF p \in stallRead THEN rdStation[p]
            ELSE IF Waiting(p) = <<>> THEN <<>> ELSE Tail(Waiting(p))]
    /\ decRd' =
         [p \in Pipes |-> IF p \in stallRead THEN decRd[p]
                          ELSE [decRd[p] EXCEPT !.old = <<>>]]
    /\ phase' = "decode"
    /\ UNCHANGED <<history, front, mispredicted, ended, exStation, exCount,
                   exWb, destTable, regfile, busy, stall>>

-----------------------------------------------------------------------------
Buffered == instBuffer \o fetDec.old

NoRawSkipped(i, claimed) == TRUE
NoRaw(i, claimed) == Srcs(i) \cap claimed = {}

NoWaw(i, claimed) == Dest(i) \cap claimed = {}

GroupAlwaysOpen(group) == TRUE
GroupOpen(group) == \A j \in group : ClassOf(j) \notin Control

\* Operation i may issue to lane p, the first free successor that has its
\* opcode, after the operations of group, which took the lanes of taken.
Issuable(i, p, group, taken) ==
    LET claimed == destTable \cup UNION {Dest(j) : j \in group} IN
    /\ NoRaw(i, claimed) /\ NoWaw(i, claimed) /\ GroupOpen(group)
    /\ p \in Code(i).pipes \ taken
    /\ \A q \in Code(i).pipes \ taken : p <= q

\* lane is a whole issue group: a prefix of the buffer, and no more could go.
IssueGroup(lane) ==
    LET n == Len(lane)
        ops(k) == {Buffered[j] : j \in 1..k}
        used(k) == {lane[j] : j \in 1..k}
    IN /\ \A k \in 1..n : Issuable(Buffered[k], lane[k], ops(k - 1), used(k - 1))
       /\ n < NumInstDecode /\ n < Len(Buffered) =>
            \A p \in Pipes : ~Issuable(Buffered[n + 1], p, ops(n), used(n))

Decode(lane) ==
    /\ phase = "decode" /\ ~stallDecode
    /\ Len(lane) <= Len(Buffered)
    /\ IssueGroup(lane)
    /\ decRd' =
         [p \in Pipes |->
            IF \E k \in 1..Len(lane) : lane[k] = p
            THEN [decRd[p] EXCEPT !.new = Append(@,
                    Buffered[CHOOSE k \in 1..Len(lane) : lane[k] = p])]
            ELSE decRd[p]]
    /\ instBuffer' = SubSeq(Buffered, Len(lane) + 1, Len(Buffered))
    /\ fetDec' = [fetDec EXCEPT !.old = <<>>]
    /\ destTable' = destTable \cup UNION {Dest(Buffered[k]) : k \in 1..Len(lane)}
    /\ phase' = "fetch"
    /\ UNCHANGED <<history, offPath, mispredicted, ended, rdStation, rdEx,
                   exStation, exCount, exWb, regfile, busy, stall>>

DecodeStalled ==
    /\ phase = "decode" /\ stallDecode
    /\ phase' = "fetch"
    /\ UNCHANGED <<history, front, mispredicted, ended, lanes, destTable,
                   regfile, busy, stall>>

-----------------------------------------------------------------------------
Diverts(group, k) == \E j \in 1..k : group[j].class \in Diverting

\* The group is whatever the instruction cache delivers: nothing on a miss or
\* beyond the program, less than a full group at a predicted-taken branch.
Fetch(group) ==
    /\ phase = "fetch" /\ ~stallFetch
    /\ Len(stream) + Len(group) <= ProgramLength
    /\ stream' = stream \o
         [k \in 1..Len(group) |->
            [code |-> group[k], onPath |-> ~offPath /\ ~Diverts(group, k - 1)]]
    /\ fetDec' = [fetDec EXCEPT
                    !.new = [k \in 1..Len(group) |-> Len(stream) + k]]
    /\ offPath' = (offPath \/ Diverts(group, Len(group)))
    /\ phase' = "update"
    /\ UNCHANGED <<retired, instBuffer, mispredicted, ended, lanes, destTable,
                   regfile, busy, stall>>

FetchStalled ==
    /\ phase = "fetch" /\ stallFetch
    /\ phase' = "update"
    /\ UNCHANGED <<history, front, mispredicted, ended, lanes, destTable,
                   regfile, busy, stall>>

-----------------------------------------------------------------------------
\* ControlUnit::flush, down to the output latches of READ.
FlushEx ==
    /\ fetDec' = [old |-> <<>>, new |-> <<>>]
    /\ instBuffer' = <<>>
    /\ decRd' = [p \in Pipes |-> [old |-> <<>>, new |-> <<>>]]
    /\ rdStation' = [p \in Pipes |-> <<>>]
    /\ rdEx' = [p \in Pipes |-> [old |-> EmptyRead, new |-> EmptyRead]]
    /\ exStation' = [p \in Pipes |-> <<>>]
    /\ exWb' = [p \in Pipes |-> [old |-> 0, new |-> 0]]
    /\ stallFetch' = TRUE /\ stallDecode' = TRUE /\ stallRead' = Pipes
    /\ UNCHANGED exCount
Flush ==
    /\ fetDec' = [old |-> <<>>, new |-> <<>>]
    /\ instBuffer' = <<>>
    /\ decRd' = [p \in Pipes |-> [old |-> <<>>, new |-> <<>>]]
    /\ rdStation' = [p \in Pipes |-> <<>>]
    /\ rdEx' = [p \in Pipes |-> [old |-> EmptyRead, new |-> EmptyRead]]
    /\ stallFetch' = TRUE /\ stallDecode' = TRUE /\ stallRead' = Pipes
    /\ UNCHANGED <<exStation, exCount, exWb>>

\* The destination tables are cleared and the pc latch is redirected.
Recover ==
    /\ phase = "update" /\ mispredicted # 0
    /\ Flush
    /\ busyDecode' = FALSE /\ busyRead' = {} /\ busyEx' = {}
    /\ destTable' = {}
    /\ offPath' = ~OnPath(mispredicted)
    /\ mispredicted' = 0
    /\ UNCHANGED <<phase, history, ended, regfile>>

\* setStall goes bottom up: a unit stalls when a successor is busy or stalled,
\* and setStall delivers the latches of the units that do not.
StallsDecodeIfBusy(stalled) == busyRead # {}
StallsDecode(stalled) == busyRead \cup stalled # {}

StallsFetchIfBusy(stalled) == busyDecode
StallsFetch(stalled) == busyDecode \/ stalled

Committed(r) == IF regsNew[r] = 0 THEN regs[r] ELSE regsNew[r]

\* updateStorageElements and setStall, the end of the cycle.
Update ==
    /\ phase = "update" /\ mispredicted = 0
    /\ regs' = [r \in Regs |-> Committed(r)]
    /\ regsNew' = NoValues
    /\ exWb' = [p \in Pipes |-> [old |-> exWb[p].new, new |-> 0]]
    /\ stallRead' = busyEx
    /\ rdEx' = [p \in Pipes |-> IF p \in stallRead' THEN rdEx[p]
                                ELSE [old |-> rdEx[p].new, new |-> EmptyRead]]
    /\ stallDecode' = StallsDecode(stallRead')
    /\ decRd' = [p \in Pipes |->
                   IF stallDecode' THEN decRd[p]
                   ELSE [old |-> decRd[p].old \o decRd[p].new, new |-> <<>>]]
    /\ stallFetch' = StallsFetch(stallDecode')
    /\ fetDec' = IF stallFetch' THEN fetDec
                 ELSE [old |-> fetDec.new, new |-> <<>>]
    /\ phase' = "preprocess"
    /\ UNCHANGED <<history, offPath, instBuffer, mispredicted, ended,
                   rdStation, exStation, exCount, destTable, busy>>

\* The simulator's main loop stops after the cycle that saw jr written back.
EndOfSimulation == phase = "preprocess" /\ ended /\ UNCHANGED vars

Lanes  == UNION {[1..n -> Pipes] : n \in 0..NumInstDecode}
Groups == UNION {[1..n -> Opcodes] : n \in 0..NumInstFetch}

Next ==
    \/ Preprocess
    \/ WriteBack
    \/ \E keep \in Keeps : Execute(keep)
    \/ OpRead
    \/ \E lane \in Lanes : Decode(lane)
    \/ DecodeStalled
    \/ \E group \in Groups : Fetch(group)
    \/ FetchStalled
    \/ Recover
    \/ Update
    \/ EndOfSimulation

Spec == Init /\ [][Next]_vars

\* The simulator never pauses within a cycle, and the memory subsystem
\* answers the oldest access it is asked for again and again.
OldestAccessDone == \E keep \in Keeps : 1 \in Done(keep) /\ Execute(keep)

FairSpec == Spec /\ WF_vars(Next) /\ SF_vars(OldestAccessDone)

-----------------------------------------------------------------------------
(* Where an operation is *)

Elements(s) == {s[k] : k \in 1..Len(s)}

FrontQueue == instBuffer \o fetDec.old \o fetDec.new

LaneQueue(p) ==
    exStation[p] \o Arrived(rdEx[p].old.op) \o Arrived(rdEx[p].new.op)
      \o rdStation[p] \o decRd[p].old \o decRd[p].new

WBLatches == (UNION {{exWb[p].old, exWb[p].new} : p \in Pipes}) \ {0}

Issued == WBLatches \cup UNION {Elements(LaneQueue(p)) : p \in Pipes}

\* Every place that holds operation i.
Places(i) ==
    {<<"lane", p>> : p \in {q \in Pipes : i \in Elements(LaneQueue(q))}}
    \cup {<<"wbOld", p>> : p \in {q \in Pipes : exWb[q].old = i}}
    \cup {<<"wbNew", p>> : p \in {q \in Pipes : exWb[q].new = i}}
    \cup (IF i \in Elements(FrontQueue) THEN {<<"front", 0>>} ELSE {})
    \cup (IF i \in retired THEN {<<"retired", 0>>} ELSE {})

\* The operation whose value a sequential machine would read from r for i.
LastWriter(i, r) ==
    LET earlier == {j \in 1..(i - 1) : OnPath(j) /\ r \in Dest(j)}
    IN IF earlier = {} THEN 0
       ELSE CHOOSE j \in earlier : \A k \in earlier : k <= j

-----------------------------------------------------------------------------
(* Types *)

Phases == {"preprocess", "writeback", "execute", "opread", "decode", "fetch",
           "update"}

ReadEntry == [op : Entry, val : [Regs -> Entry]]

\* The type of every variable; an operation in a buffer has been fetched.
TypeOK ==
    /\ phase \in Phases
    /\ stream \in Seq([code : Opcodes, onPath : BOOLEAN])
    /\ retired \subseteq OpId
    /\ offPath \in BOOLEAN /\ ended \in BOOLEAN
    /\ mispredicted \in Entry
    /\ fetDec \in [old : Seq(OpId), new : Seq(OpId)]
    /\ instBuffer \in Seq(OpId)
    /\ decRd \in [Pipes -> [old : Seq(OpId), new : Seq(OpId)]]
    /\ rdStation \in [Pipes -> Seq(OpId)]
    /\ rdEx \in [Pipes -> [old : ReadEntry, new : ReadEntry]]
    /\ exStation \in [Pipes -> Seq(OpId)]
    /\ exCount \in [Pipes -> Nat]
    /\ exWb \in [Pipes -> [old : Entry, new : Entry]]
    /\ destTable \subseteq Regs
    /\ regs \in [Regs -> Entry] /\ regsNew \in [Regs -> Entry]
    /\ busyDecode \in BOOLEAN
    /\ busyRead \subseteq Pipes /\ busyEx \subseteq Pipes
    /\ stallFetch \in BOOLEAN /\ stallDecode \in BOOLEAN
    /\ stallRead \subseteq Pipes

-----------------------------------------------------------------------------
(* Buffers and latches *)

\* The InstBuffer never outgrows InstBufSize, which DecodeUnit::doStep
\* asserts: preprocess has to see the overflow one fetch group ahead, because
\* the busy bit it sets only stalls FETCH in the next cycle.
NoInstBufferOverflow ==
    phase = "decode" /\ ~stallDecode => Len(Buffered) <= InstBufSize

NopLanes == UNION {o.pipes : o \in {c \in Opcodes : c.class = "nop"}}

\* The busy bit of an EX unit works one cycle late, and the program's NOP hides
\* even from that: a reservation station can go one entry over ResStationSize,
\* two in a lane that takes NOPs, and never further.
StationsBounded ==
    \A p \in Pipes : Len(exStation[p]) <=
        ResStationSize + (IF p \in NopLanes THEN 2 ELSE 1)

\* No latch is overwritten or appended to before its reader emptied it: a unit
\* that steps finds its output latch delivered, and a unit that is stalled, or
\* has stepped, finds its input latch empty.  The last operation of every lane
\* leaves READ in the cycle it enters it.
LatchDiscipline ==
    /\ ~stallFetch /\ phase # "update" => fetDec.new = <<>>
    /\ stallDecode \/ phase \in {"fetch", "update"} => fetDec.old = <<>>
    /\ \A p \in Pipes :
         /\ ~stallDecode /\ phase \notin {"fetch", "update"} =>
              decRd[p].new = <<>>
         /\ p \in stallRead \/ phase \in {"decode", "fetch", "update"} =>
              decRd[p].old = <<>>
         /\ p \notin stallRead /\ phase \notin {"decode", "fetch", "update"} =>
              rdEx[p].new = EmptyRead
         /\ phase \in {"opread", "decode", "fetch", "update"} =>
              rdEx[p].old = EmptyRead
         /\ rdStation[p] = <<>>

\* Every operation the program really reaches is in exactly one place, from
\* its fetch to its retirement: stalls, partial issue and the recovery from a
\* mispredicted branch neither lose nor repeat it.
ExactlyOnce == \A i \in OpId : OnPath(i) => Cardinality(Places(i)) = 1

-----------------------------------------------------------------------------
(* The inductive invariant behind the bounds *)

\* DECODE's buffer has room for its latch, and, where the busy bit is clear,
\* for the group FETCH may be putting into the latch in this cycle.
DecodeRoom ==
    /\ Len(fetDec.new) <= NumInstFetch
    /\ Len(instBuffer) + Len(fetDec.old) <= InstBufSize
    /\ phase # "preprocess" /\ ~busyDecode =>
         Len(instBuffer) + Len(fetDec.old) + NumInstFetch <= InstBufSize

\* What preprocess saw before it left lane p open: every entry of the station,
\* except that a NOP in the latch was not counted.
OpenRoom(p) == ResStationSize + (IF p \in NopLanes THEN 1 ELSE 0)

\* An operation travels from READ to an EX station only if the station was
\* open one cycle before.
StationRoom(p) ==
    /\ rdEx[p].old.op # 0 => Len(exStation[p]) <= OpenRoom(p)
    /\ phase \in {"writeback", "execute"} /\ p \notin busyEx =>
         Len(exStation[p]) + Reserved(rdEx[p].old.op) <= ResStationSize
    /\ phase \in {"opread", "decode", "fetch"} /\ p \notin busyEx =>
         Len(exStation[p]) <= OpenRoom(p)
    /\ phase = "update" /\ p \notin busyEx /\ rdEx[p].new.op # 0 =>
         Len(exStation[p]) <= OpenRoom(p)

\* DECODE gives a lane one operation in a cycle, and one that the lane takes.
LanesFit ==
    \A p \in Pipes :
      /\ Len(decRd[p].old) <= 1 /\ Len(decRd[p].new) <= 1
      /\ \A i \in Elements(decRd[p].old) \cup Elements(decRd[p].new) :
           p \in Code(i).pipes
      /\ \A i \in {rdEx[p].old.op, rdEx[p].new.op} \ {0} : p \in Code(i).pipes

BufferInv ==
    /\ TypeOK
    /\ LatchDiscipline
    /\ DecodeRoom
    /\ LanesFit
    /\ StationsBounded
    /\ \A p \in Pipes : StationRoom(p)

-----------------------------------------------------------------------------
(* Hazards between operations *)

\* RAW and WAR: the value an operation carries from READ to EX is the one a
\* sequential machine would have read, although lanes finish out of order.
ReadsLastWriter ==
    \A p \in Pipes : \A l \in {rdEx[p].old, rdEx[p].new} :
        l.op # 0 /\ OnPath(l.op) =>
            \A r \in Srcs(l.op) : l.val[r] = LastWriter(l.op, r)

\* The destination tables hold exactly the destinations of the operations that
\* have issued and not been written back: no entry is left behind, which would
\* stop DECODE for ever, and none is dropped early.
ScoreboardExact == destTable = UNION {Dest(i) : i \in Issued}

\* An operation of a wrong path never reaches an EX unit before the branch
\* that led there is recovered from, and none behind a jr is written back or
\* stored before the simulation ends.
SpeculationContained ==
    /\ \A i \in OpId : ~OnPath(i) =>
         /\ i \in retired => ClassOf(i) = "nop" /\ ended
         /\ \A r \in Regs : regs[r] # i /\ regsNew[r] # i
    /\ ~ended => \A p \in Pipes : \A i \in Elements(exStation[p]) : OnPath(i)

-----------------------------------------------------------------------------
(* Liveness *)

\* Every operation on the program's path is eventually retired: no stall holds
\* for ever, and no destination stays marked as busy.
EveryOpRetires ==
    \A i \in 1..ProgramLength : i \in OpId ~> i \in retired
=============================================================================
