# A verification development for EXPRESSION / SIMPRESS

EXPRESSION is an architecture description language with a retargetable compiler
(EXPRESS) and a cycle-accurate structural simulator (SIMPRESS).  Modelled here
are the parts whose correctness depends on the order of many small steps.  In
the simulator: units that run once a cycle, latches with an old and a new copy,
busy and stall bits that act a cycle late, queues that are searched while they
change, values read through another type than they were written with.  In the
compiler: passes that rewrite a routine while they walk over it, with sets,
lists and graphs that must be kept in step.  Paths below are relative to
`src/expr`; most of the simulator is in `systemDll/acesMIPSderivedClassDll` and
`systemDll/Memory Subsystem`, most of the compiler in `pcProDll`.

## The system

| Component | State | Operations | Modelled by |
|---|---|---|---|
| Pipeline: `ControlUnit`, `DecodeUnit`, `OpReadUnit`, `ExecuteUnit`, `BranchUnit`, `WriteBackUnit`, `StallMechanism` | latches, InstBuffer, reservation stations, `_count`, destination tables, busy and stall bits, register files | `preprocess`, `doStep` of every row, `flush`, `setStall`, `updateStorageElements` | `Pipeline` |
| Load/store lane: `LoadStoreUnit`, `MemorySubsystem` | station with `_statebit`, ReadQueue, WriteQueue, `_stallBit`, memory | `preprocess`, `doStep` of both, `SendReadRequest`, `SendWriteRequest`, `ReceiveData`, `hasDataWritten` | `LoadStore` |
| FETCH: `FetchUnit`, `readFromMem`, `BranchPrediction`, `completeBranchOperation` | pc latch, the static variables of `readFromMem`, `_branchHistoryMap` | fetching, prediction, verdict, redirection | `Fetch` |
| Caches: `AssociativeCache`, `Cache` | tags, valid counts, words, `_accessPattern` | `read`, `write`, `replace`, `refill` | `AssociativeCache` |
| `Dram`, `Sram`, `MemHierarchy` | a map from addresses to values | `read`, `write` | `FlatMemory`; the answers in `LoadStore` |
| Values: `Val`, the opcode functors, `mult64`, `div64` | type tag, union, HI/LO, bytes of memory | constructors, operators, loads and stores of every width | `Values` |
| Other memory modules: `DirectCache`, `StreamBuffer`, `SmartDram`, `Connectivity` | contents, wiring | `read`, `write`, prefetch | not modelled |
| System construction (`acesMIPSbuildSystem`) | none after the start | builds units, latches and ports | the constants of the modules |
| Main loop (`SimMain`, `FlowMechanism`, `singleStep`, `endOfProg`) | end flags | steps the controller | the phases and `EndOfSimulation` |
| System and Express calls, power models, functional simulator | host state, estimates | I/O | not modelled |
| EXPRESS, trailblazing: `TbzNormalInstr`, `TbzIfHTGNode`, `TbzLoopHTGNode`, ... | the HTG, `_unifiableOps`, `_lastCanMove`, live sets, slots | `canBeMoved`, `migrate`, `insert`, `Trailblaze` of every kind of node | `Trailblazing` |
| EXPRESS, spreading: `SpreadInstrs`, `ReservationTables` | the blocks of a routine, the table of each operation | empty instructions for dependences, then for units | `Spread` |
| EXPRESS, register allocation: `MultiChain`, `InterferenceGraph`, `RegCoalesce`, `Spills` | multichains, graph, use lists, colours | building, coalescing, simplification, selection, spilling | `RegAlloc` |
| Other EXPRESS passes: if-conversion, instruction selection, mutation, disambiguation, storage allocation, code generation | one routine's graph | sequential passes | not modelled |
| EXPRESSION front end (`expression dll`), GUIs, consoles, tools, scripts, benchmarks | none of interest | translation and display | not modelled |

How they interact.  `ControlUnit::doStep` is the clock.  In every cycle it calls
`preprocess` on each unit, which sets the busy bits, and steps the memory
subsystem; it steps the rows of the control table bottom up, WRITEBACK, EX, READ,
DECODE, FETCH; it recovers from a mispredicted branch if the EX row found one;
it updates the register files; and `setStall` computes the stall bits from the
busy bits and delivers the latches of the units that are not stalled.  Nothing
runs in parallel, but every unit sees a mixture of this cycle's and the last
cycle's state, and that is what the properties are about.  Units share the
latches, the control table, the destination tables and a few globals
(`BranchMispredicted`, `_END_OF_PROGRAM_`, the predictor).

The passes of EXPRESS run one after another over one routine.  Trailblazing
compacts it, the register allocator works on compacted code (the operations of
an instruction read before any of them writes), and spreading puts empty
instructions where the pipeline would need to stall.  Each walks the routine
and rewrites it under its own feet: what it looked up before a rewrite, it may
use after it.

What is hard: hazards between operations that finish out of order; stalls that
hold one lane and not the next; speculation and its recovery; buffers whose
only protection is a bit set one cycle ahead; loads and stores in two queues
that are searched by address; a cache port that keeps its state in static
variables; one replacement order for all rows of a cache; sign and width of
values that pass through a union; sets of movable operations that a move
makes stale; use lists that coalescing, deleting and spilling all edit.  The
lines where each may go wrong are the `hazards` of PROJECT.json, with the
properties that would catch it.

## Modules

The simulator:

* `Pipeline` -- one cycle of the controller, a phase per row.  Actions, in the
  order a cycle takes them: `Preprocess`, `WriteBack`, `Execute`, `OpRead`,
  `Decode` or `DecodeStalled`, `Fetch` or `FetchStalled`, `Recover`, `Update`.
  An operation is its number in the fetched stream; `stream` and `retired` are
  history.  A register holds the number of the operation that wrote it, which
  makes "the right operand" a statement about numbers.  What FETCH delivers is
  any group of opcode forms (class, lanes, destination, sources, timing).
  The outcome of a branch is part of its form: "missed" is a branch that goes
  where FETCH did not.  The LDST lane may let any set of its earlier entries go
  in a cycle as long as loads leave oldest first: the contract `LoadStore`
  checks.
* `InOrderIssue`, `PipelineRefinement` -- what the pipeline promises a program
  whose branches are predicted right: operations start in order, when nothing
  under way writes what they read or write, and finish once, in any order.  The
  refinement mapping counts an operation as started when DECODE issues it.
* `PipelineMC` -- the small machine for TLC: an ALU lane, the LDST lane, the BR
  lane, two registers, and for each run the forms of operation it is about.
* `LoadStore` -- the data path of the LDST lane, with addresses, latencies, the
  two queues and the two loops of `LoadStoreUnit::doStep`.  The second loop
  erases from a vector while it iterates to the old end.  What it reads past
  the new end is a destroyed copy of the last entry, and the model
  (`Walk`, `Sweep`, `ghost`) lets it read as that entry or as nothing.  A build
  in which the access itself faults is not considered.
* `SequentialMemory`, `LoadStoreRefinement` -- the promise of the lane: accesses
  are performed one at a time in program order.
* `Fetch` -- the front end over a fixed program: the i-cache port with misses
  and aborted accesses, the two bit predictor, the group cut at a taken branch,
  the verdict of the branch unit and the recovery.  What lies between FETCH and
  the branch unit is a queue; `Advance` takes any number of other operations
  out of it.
* `FetchMC` -- a program of nested loops, a goto and a jr.
* `AssociativeCache` -- ways, rows, tags, the one replacement order, write-back
  and refill, over a flat memory.  `CacheMC` bounds the words written.
* `FlatMemory` -- what a memory module promises.  A cache is shown to be one over
  another, so the result composes for a stack of caches.
* `Values` -- two registers, HI/LO and a word of memory.  A value is a type tag
  and a bit pattern; an action is an instruction, with the coercion its functor
  applies and the bytes its store moves, in words of four bytes of `ByteBits`
  bits.  `ValuesMC` has the programs checked: with HI and LO, with
  loads and stores, and with comparisons, shifts and bit-wise operations.

The compiler:

* `Trailblazing` -- the code motion pass.  `Compute` fills the sets of unifiable
  operations of an instruction from the nodes above, `Schedule` migrates one
  operation to the highest instruction it reaches, over whole conditionals and
  loops, and updates slots, live sets and `_unifiableOps` on its way;
  `NextInstr` and `NextLevel` are the walk.  `TrailblazingMC` is a routine with
  an if and a loop.
* `Spread` -- `SpreadDependences` is the first part of `SpreadInstrs` for one
  instruction, `SpreadConflict` one turn of the loop over reservation tables,
  `PreviousInstr` and `NextBlock` the walk, bottom up in each block.
  `SpreadMC` has two blocks in two loops.
* `RegAlloc` -- one action per pass of a round: `Chains`, `Build`,
  `CoalesceOper`, `DeleteUselessIR`, `Simplify`, `Select`, `Spill`, `Restart`.
  The routine is data, and `SameMeaning` runs the original and the allocated
  code side by side along every way through the blocks (`Meaning`: each operation
  leaves a value of its own, a move or a load what it copies, and two writes of one
  register in an instruction leave garbage).  `RegAllocMC` is a diamond in a loop.

`Filter` has what the passes that walk lists share, the members of a list that
are kept.

The proofs: `PipelineProofs`, `LoadStoreProofs`, `FetchProofs`, `CacheProofs`,
`SpreadProofs`, `TrailblazingProofs`, `RegAllocProofs`, and the facts they share,
`SequenceLemmas`.

How the models fit together.  `LoadStore` discharges the assumption of `Pipeline`
about its LDST lane (`StationContract`), `Fetch` the assumption that the stream
it is fed follows the predicted path (`PathKept`), and `AssociativeCache` the
assumption of `LoadStore` that the modules behind the queues hold one value per
address.

## Runs

| Run | Instance | Shows |
|---|---|---|
| `dataflow` | 4 operations, one- and three-cycle ALU, load, store; `FairSpec` | `ReadsLastWriter`, `ScoreboardExact`: no RAW, WAR or WAW hazard slips through and the destination tables are exact; `ImplementsInOrderIssue`; `EveryOpRetires` |
| `station` | 5 operations with NOPs and loads or stores, or mispredicted branches and jr; InstBuffer of 3 for groups of 2, stations of 1 | `NoInstBufferOverflow`, `StationsBounded`, `LatchDiscipline`; `ExactlyOnce` and `SpeculationContained` through flush and redirection |
| `lane` | 5 accesses, 2 addresses, latencies 1 to 3, a ReadQueue of 1 and a WriteQueue of 2 | `QueuesBounded` where `_stallBit` is reached; `StationContract`, `EveryAccessRetires`, `ImplementsSequentialMemory` |
| `front` | program of 7, groups of up to 3, latencies 1 to 3, 6 in flight | `PathKept`, `PredictionStands`, `PortHolds`, `FetchGoesOn` |
| `caches` | 2 ways of 2 lines of 2 words, 2 tags, 2 words written | `OneCopy`, `LinesAccounted`, `ImplementsFlatMemory` |
| `values` | bytes of one bit: words of 4 bits, all pairs of operands of all types | `ProductsExact`, `InstructionsAgree`, `StoresKeepNumbers` |
| `spread` | every choice of 4 operations of 3 classes, 2 registers, 2 blocks in 2 loops | `AssertionHolds`, `NoUnitOverclaimed`, `AccessesInOrder` |
| `trailblazing` | every choice of up to 3 operations in a routine of 12 instructions with an if and a loop | `DependencesKept`, `BranchesKept`, `EveryOperationOnce`, `NeverForcedExit`, `OnlyUp`, `Advances` |
| `regalloc` | programs of 4 names over 2 registers, a diamond and a loop | `SameMeaning`, `InterferencesKept`, `ClassesRespected`, `OnlySpillable`, `Ends` |
| `lost` | violated: `ExactlyOnce` | the flush discards an older, stalled memory operation |
| `products` | violated: `SignedProductsExact` | HI of a negative product is one too large |
| `unlisted` | violated: `OperandsListed` | coalescing forgets a use in an instruction that has another operation reading the register |

`Pipeline`, `LoadStore` and `AssociativeCache` also have a type invariant, checked
in one run of theirs; that of `Fetch` is a theorem.

Why the bounds are enough.  The depth of the machine is seven phases and five
stages with buffers of one, so that four or five operations fill every place
an operation can wait in and stall FETCH; groups of two give partial issue and
a branch in mid group; three lanes give out-of-order completion with a
three-cycle ALU; the smallest legal buffers make every limit bind.  The built
sizes (InstBuffer 12, groups of 4, stations of 1) differ only in the first two,
and the theorems cover them for the limits.  In `lane` a latency of three lets
two later accesses enter while one is under way, the most a station of one
entry and a latch allow.  In `front` six in flight let two executions of one
branch be predicted before the first is judged, which is what
`PredictionStands` needs.  In `caches` two rows share one replacement order, and
there are enough accesses to fill, reorder, write back and refill.  In `values`
bytes of one bit have every carry, sign and alignment case of wider ones: a
word is still four bytes, a halfword two.  In `spread` loads and stores hold
their unit for two cycles and a load writes a cycle later than an ALU
operation, so that dependences, units and loop edges each ask for a different
distance; the theorems cover all tables.  In `trailblazing` three operations
are enough for one to unblock, block or fill the slot of another; NeverForcedExit
is the branch of the code that gives up.  In `regalloc` four names need more
than the two registers, so that there are merges, spills and a second round.

Every property is broken by a mutant of the code it is about (PROJECT.json): a
dropped hazard check, a stall that does not propagate, an issue group that goes
on behind a branch, a queue checked only at its head, a redirection that always
takes the target, a write-back to the new tag, a sign dropped at a width, an
interference edge left out, a live set not updated after a move.

## Fairness

* `Pipeline!FairSpec`: `WF_vars(Next)`, for the main loop calls `singleStep`
  until the program ends and a step of a cycle always has a successor; and
  `SF_vars(OldestAccessDone)`, for the memory subsystem serves its queues in
  order with finite latencies.  `EveryAccessRetires` is this assumption, checked
  in the lane itself under weak fairness of its `Next` alone.
* `LoadStore!Spec`: `WF_vars(Next)`.
* `Fetch!Spec`: `WF_vars(Next)` and `SF_vars(Update(FALSE))`: the units below
  do not stall FETCH for ever, which is what `EveryOpRetires` says of them.
  Latencies are finite by `FetchAssumption`.
* The compiler passes need none.  That they end is an action property: the steps
  that could repeat make a measure smaller (`Advances`, `Ends`).

## Proofs

All theorems hold for every value of the constants that meets the modules'
assumptions, which TLC evaluates on the instances above.  Each is proved from an
inductive invariant, with a lemma for each action.

**Pipeline** (`PipelineProofs`), for every number of lanes,
registers, opcodes and operations and all buffer sizes.  The sizes assume no
more than that the InstBuffer takes one group (`InstBufSize >= NumInstFetch`;
built: 12 and 4).  That memory forms take the memory lane only, control forms
the branch lane only, and that an operation has at most one destination is the
shape of the machine description.

1. `TypeCorrect`: more than types, since an entry of a buffer is the number of a
   fetched operation: no unit ever works on an empty opcode it takes for an
   operation.
2. `BufferNeverOverflows`: the assertion in `DecodeUnit::doStep` never fails.
   `NoInstBufferOverflow` alone is not inductive, because the busy bit acts a
   cycle late; `DecodeRoom` adds that the latch holds at most a group and that,
   where the bit is clear, a group more still fits.
3. `LatchesDisciplined`: with `LanesFit`: DECODE gives a lane one operation a
   cycle, so the station of READ is emptied in every cycle and its appending
   latch never appends.
4. `StationsStayBounded`: with `StationRoom`, which says for each phase what an
   open lane has room for.  An operation reaches a station two steps after the
   bit that let it through, and a NOP is not counted: hence one entry over the
   size, two in a lane with NOPs.
5. `BuffersCorrect`: their conjunction, `BufferInv`.

The rest is about order and values.  `StageInv` says which
operations a unit may hold in each phase; `PlacesInv` that no operation is in two
places; `PathInv` that what is behind a misprediction or a jr has not executed.

6. `OneOfEach`, `WrongPathsContained` (`SpeculationContained`): for every program.

A misprediction makes the code lose operations (the run `lost`) and empties the
destination tables while loads are in flight, so the next four are about
programs without one: `Predicted` says that no opcode is a branch that goes
another way than FETCH took.  Stalls, partial issue, taken branches and loads of
every latency remain.  `CoverInv` says that what DECODE has issued is in flight or
retired; `ScoreInv` that the destination table has the registers of what is in
flight, and that no operation writes a register that an older one in flight
writes; `DataInv` that a register nobody is about to write holds what the next
operation to issue should read, that what waits in front of READ will find its
operands, and that what has passed READ carries them.

7. `NothingLost` (`ExactlyOnce`): every operation fetched is in exactly one place.
8. `ScoreboardStaysExact`: the tables neither forget a register nor keep one.
9. `OperandsRight` (`ReadsLastWriter`): an operation reads what a sequential
   machine would have given it.
10. `PipelineIssuesInOrder`: the refinement `ImplementsInOrderIssue`, step by step.

**Load/store lane** (`LoadStoreProofs`), for every size of station and queues and
all latencies.

11. `QueuesStayBounded`: `RoomKept` strengthens `QueuesBounded` for the phase in
   which the unit acts on a signal computed a step before.  The second loop is
   taken apart by `SweepSteps` into a chain of visits; `VisitEffect` says what one
   does whatever it reads past the end, so the bound does not depend on the
   stale slots.
12. `LaneTypeCorrect`: a latency in a queue counts down to zero and not past it.

For the station of one entry (`OneEntry`), as `acesMIPSbuildSystem.cpp` builds
it; with two entries TLC refutes both theorems, see below.  The inductive
invariant is `OrderInv`: the busy bit acts a cycle late, so there are two entries
at most (`StationRoom`); the station and both queues are in the order of the
program, a request that waits is of the next access to perform, and what has not
been performed is in the station or on its way to it (`StationInOrder`,
`Pending`); the first access has been performed before the second asks
(`FirstPerformed`); and memory holds the last store performed to each address
(`MemoryUpToDate`).  `SweepOutcome` says what the second loop of the unit comes
to, whatever its stale slot reads as.

13. `AccessesPerformedInOrder`: the safety part of `ImplementsSequentialMemory`.
14. `StationKeepsContract` (`StationContract`): what `Pipeline` takes for granted of
    the LDST lane, which it models without queues.

**Front end** (`FetchProofs`), for every program, group size and latency.  `Inv`
says that what is in flight is a chain in which each instruction is followed by
the one its recorded prediction names, and that the pc latch or the access under
way goes on from its end.

15. `FetchKeepsPath`, `PredictionsStand`, `PortStaysHeld`, `FetchTypeCorrect`.

**Caches** (`CacheProofs`), for every number of ways, lines, words and tags.
`Consistent` relates each valid line to the memory below through the tag, row and
column of an address; `Ordered` makes the replacement order a permutation of
the ways in use.

16. `CopiesUnique`, `LinesAlwaysAccounted`, `CacheTypeCorrect`.
17. `CacheIsMemory`: the refinement.  Every step, write-back and refill included,
    maps to a read or a write of one flat memory or to a stutter.

**Spreading** (`SpreadProofs`), for every routine, reservation table and number of
units.  `SpreadSoFar` says that below the instruction at hand no unit is claimed
more often than it can be; what is above may still conflict.

18. `AssertionNeverFails`: past the longest table two instructions share no
    cycle, so the loop stops before the distance the code asserts.
19. `UnitsNeverOverclaimed`: empty instructions only move claims apart.
20. `AccessesStayInOrder` (`AccessesInOrder`): for machine descriptions whose
    reservation tables list the cycles in which an operation reads, writes and
    accesses memory, with `WriteThrough` off, as `SpreadInstrs.cpp:98` has it, and
    no feedback path shorter than the pipeline (`TimesListed`).  A delay is
    computed against the instructions that reach one, in its block and through
    the blocks before; `Reached` is the least set closed under that step.

**Trailblazing** (`TrailblazingProofs`), for every task graph, routine, program,
set of live registers and number of slots.  `TreeAssumption` says that nodes
are numbered from the outside in, as they are in a graph built from the text;
`OrderAssumption` that no node is empty, that a node is a run of instructions,
that siblings adjoin, and that the instructions of a block are each other's
siblings.  `WaysAssumption` says what a structured routine has to do with its
graph: of two instructions that are executed both, the later one not in an if, a
branch or a loop that the earlier is not in, the later can follow the earlier
with nothing executed between but what lies between them.  Trailblazing sees no
other routines: `buildHTG` skips a routine with an if whose branches do not
rejoin (`support/BuildHTG.cpp:100`, `support/Routine.cpp:1150`), and a loop is
left at its last node (`LoopHTGNode.h:96`, where anything else is a panic).  A
loop that is only left by a break ahead of its last node is outside the
assumption, and the model has no node for breaks.  `TrailblazingMC` has TLC
evaluate the assumptions for its routine.

The search for a place
(`FindDestination`) and the migration (`Migrate`) are recursions over this graph,
so the proof first gives every call a rank below which its calls lie
(`CallRanks`) and derives from it that the functions exist and follow their rules
(`Recursion`, `FindSteps`, `MigrateSteps`).

What the theorems rest on is `IInv`: every operation is in one slot of its kind
(`PlacedIn`), and an instruction lists only operations whose search, from where
they are now, would pass it (`Listable`).  The second part is the hard one, for a
list is computed once for a level and read after other operations have moved.
`OnTheWay` is the set of instructions that a search could pass, whatever it
depends on; `FindOnTheWay` puts what a search lists in it, and `MigratedGoesOn`
follows the migration up the same way, so that it cannot come to the end of a
block without the operation on a list still ahead.

21. `OperationsKept` (`EveryOperationOnce`), `Placed` (`IInv` itself).
22. `GoesOn` (`NeverForcedExit`).
23. `MovesUp` (`OnlyUp`): `Settles` says of each node on the way where the operation
    may end up.
24. `NeverRepeats` (`Advances`): each turn makes a number smaller, the places above
    the operations' own, or the list at hand shorter and that number not greater.

That dependences are kept is a statement about three things that the code
relates only through `_unifiableOps`: the order of the program, the ways through
it, and where the operations are now.  The invariant is `OrderInv`: every operation
is in the ifs, branches and loops it started in (`InPlace`); what must come
before an operation, its `Floor`, is above it (`Ordered`); and an instruction
lists only operations that can be taken there without passing their floor
(`Safe`), whether the list was made before or after other operations moved.

* `FindClear`: a search stops at the first thing the operation depends on, so
  what lies between is free of dependences, but for an if that the
  operation goes past as a whole (`Reaches`).
* `LastWriter`: two operations that touch a register need not be on one chain of
  uses, for a third may write it in between, but then the third is.  This is
  where the ways come in: the writer that the later operation reads lies
  between the two, so that the search meets it.
* `Under`: a migration ends where the operation is listed or below that, past
  every if it is listed in and does not belong to.
* `StaysBeyond`: a search never comes out in the branch before the one it
  started in.

25. `KeepsDependences` (`DependencesKept`): two operations of which one writes what
    the other reads or writes never meet or change places, for every routine,
    every program in it and every order in which the levels and updates come.
26. `KeepsBranches` (`BranchesKept`): an operation that writes a condition code
    stays below the branches before it that read one.
27. `InOrder`: `OrderInv` itself.

**Register allocation** (`RegAllocProofs`), for every routine, set of classes and
number of registers.  The invariant, `IInv`, relates what the passes keep in
different places: the code is made of the names that have classes, through
renaming, deletion, stores and reloads (`Named`); every multichain is in the graph
or on the stack, once, and what waits to be spilled is in the graph (`Listed`); a
name has an edge to every register outside its class (`Barred`); and what select
has put back has a register of its class, unlike its neighbours'
(`SelectedRight`).  A merge moves edges and a spill throws them away, so `Barred` is
what both have to keep: a merge joins names of one class, and neither is a register.
`Grows` follows a spill through its stores and reloads, instruction by instruction,
while the routine, the names and the instructions' numbers change under it.

28. `ClassesKept` (`ClassesRespected`): select looks only at edges, so a register
    outside the class is avoided because its edge has never been lost.
29. `NeighboursKeptApart` (`NeighboursApart`): names with an edge have different
    registers.  That the edges are enough is 34.
30. `AllocationEnds` (`Ends`): a merge uses up a move and may make one name spillable
    again; a spill uses up such a name and makes only spilled ones.
31. `AllocationInvariant`: `IInv` itself.
32. `IdsKeptApart`: the lists of a multichain are of ids, and an id tells the
    instruction or the operation it is the id of; what a spill adds takes ids above
    those there, and a renaming changes none.
33. `InterferencesStay` (`InterferencesKept`): liveness is computed once a round, and
    then names are merged and moves deleted without computing it again; no
    interference comes out of that which has no edge.  `AliveTraced` is why: what is
    alive in the new code is the image of something alive in the old, the first that
    the old code reads of all that become one name.  (`Traces` relates the two,
    block by block; `LiveAfterIs` and `LiveOutSteps` say of the code's two iterations
    what they find.)  While moves are merged, the statement is about the code with the
    marked moves gone and their instructions in place (`Bare`).  It supposes that the
    multichains' lists are complete (`Complete`): a merge leaves the old name to an
    operand that they miss.
34. `InterferencesKeptAlone` (`InterferencesKept`), `ListsStayComplete` and
    `OperandsStayListed` (`OperandsListed`): the lists are complete where an
    instruction holds a move or other operations, never both (`Solitary`, the routines
    of a machine that issues one operation at a time).  Without it the run `unlisted`
    shows a list losing a use.  Stores and reloads are followed one by one
    (`SpillListed`): the operands of the name being spilled are, at each turn, those
    of the instructions whose turn is still to come.
35. `RegistersStayApart` (`RegistersApart`), for the same routines: two names that
    interfere in the code as it finally stands have different registers.

That an allocated routine does what the original did is a statement about running
both.  The argument is a simulation: of two routines, the second the first with its
names where some map has them and without copies that the map makes go nowhere
(`Carried`), each operation reads the same values in both, if no two names that
interfere go to one place (`CarriedMeans`).  What is kept at every point of a way is
that the names alive there have equal values in both states, so a name that is
dead may be overwritten; that what is alive at the head of a block is alive at the
end of those before it needs that the iteration of `compLiveDead` has come to rest
(`LiveAcross`).  A merge is the map that takes one name to the other, colouring the
map that takes names to registers; deleting what is left empty is `KeptRuns`.

36. `OnlySpillsChangeMeaning` (`OnlySpillsMatter`): of all steps only a spill changes
    the code by what it means.
37. `ColoursMean` (`ColoursKeepMeaning`): in an allocated routine, whatever was spilled
    before, each operation reads from registers what it would read if every name had a
    register of its own.
38. `AllocatedMeans` (`SameMeaning`): a routine allocated without a spill does what the
    original did.  36 to 38 are for the routines of 34.

Through a spill nothing like 36 holds: the code before it reads the name, the code after
it the slot.  What holds is about the stores and reloads one by one, while a name is
being spilled (`SpillsReloadsKeep`).  The code is then run with the name tied to its
slot (`TiedExecute`: what is written to one goes to the other), which changes nothing at
first, as nobody uses the slot (`TiedMeans`), nor at last, as nobody has the name any
more.  In between, to split one definition or one use gives it a name of its own, and
the two states differ in that name only, but for the stretch between the definition and
its store, or between the load and the use (`Even`, `Held`, `Loaded`; `DefBlock`,
`UseBlock`).  A store that does not follow its definition in the same block stands at
the heads of the blocks behind (`HeadRun`, `SplitMeans`), and each of those can be
entered from there only, or the store would overwrite the slot on another way.

39. `AllocationKeepsMeaning` (`SameMeaning`): an allocated routine does what the
    original did, whatever was merged, coloured and spilled, in however many rounds.
    `SameInv` adds to 34 that code and lists are in shape (`Shaped`): each name of a
    multichain that can be spilled is defined where its list says, and no slot beyond
    those given out is in use; so the walk of a spill, which goes by the lists, misses no
    definition (`SplitDefines`) and comes to none twice (`InOrderOnce`).

39 is for the routines of 34 that are also `Branched`: a block with several ways on,
one of them into a block that can be entered from elsewhere, ends with an instruction,
as a branch is, that writes nothing.  After a definition there the store would
have no place of its own.  The routines of `RegAllocMC` are `Branched`, and `Solitary`
but for one of the variants.  That an instruction is in one place (`Once`) and that
ids differ (`Apart`) is assumed of the routines given, and TLC evaluates it.

Induction over numbers is by the least counterexample (`Smallest` in
`SequenceLemmas`), since an induction theorem with an operator parameter is out
of the prover's reach.

Left to TLC: liveness under fairness (`EveryOpRetires`, `EveryAccessRetires`,
`FetchGoesOn`, and the fairness of `ImplementsSequentialMemory`), which is out of the
prover's reach; the module `Values`; in `RegAlloc` `OnlySpillable`, and `SameMeaning` and
`InterferencesKept` where a move shares its instruction, as in some
programs of `regalloc`; and the four theorems above that assume `Predicted`,
for programs with a misprediction, where the runs check what then holds.
`OnlySpillable` is about the routines checked: with too few registers for the
operands of one operation the assertion of `spillMultiChain` does fail.

## What the code does that its comments do not say

The three violated runs are listed as findings in PROJECT.json with the lines
they quote.

* `lost`: READ of the LDST lane is stalled behind a busy unit with an older store
  in its output latch; the branch behind it passes through its own lane, and
  `flush` resets the output latches of READ whole.
* `products`: `mult64` negates a two-word product by complementing both words and
  carries into the high one unless the complemented low word is zero.
* `unlisted`: when a copy within one multichain is deleted, its whole instruction
  leaves the use lists, and another operation of it keeps an operand that no
  list names.

Observations without a run:

* After a misprediction the destination tables are cleared, not restored
  (`ExecSemantics.cpp:2992`), while older loads may be in flight.  The model
  clears them, and operands are checked in programs without a misprediction.
* jr ends the simulation when it is written back, before older memory operations
  are done.  `SpeculationContained` is about the operations after the jr only.
* `DerivedUnit.h:155` gives the simple units ResStationSize entries; they hold
  one more, as `StationsBounded` says and `StationsStayBounded` proves.
* `DerivedUnit.h:179` gives the load/store station a default of two entries.
  With `ResStationSize = 2` TLC refutes `StationContract` and
  `ImplementsSequentialMemory`: the erasures then skip entries.  The simulator is
  built with one (`acesMIPSbuildSystem.cpp`).
* With `WriteThrough` on TLC refutes `AccessesInOrder`: two writes of a register may
  meet in one cycle.  `SpreadInstrs.cpp:98` sets it off.  TLC refutes it too with a
  feedback path shorter than the pipeline.
* `AssociativeCache.h:391` says that all the caches have valid data when a line
  is replaced; with one replacement order for all rows a valid line may go while
  the other way of its row is free.  Contents stay right (`ImplementsFlatMemory`).
* Values: `srl` and `sra` run the same `a >> b` (`DerivedOpExecSemantics.h:1847`
  and `:1881`), `slt` and `sltu` the same `a < b` (`acesMIPSbuildSystem.cpp`).  A
  logical shift of a negative INT brings its sign in, an arithmetic shift of the
  UINT an `lbu` loads does not, and `sltu` of two INTs is signed.  A SHORT, as
  `lh` leaves it, compared with an INT is read without its sign or cuts the INT
  in half, by which of them is on the left.  `InstructionsAgree` says what does
  hold, for operands of four bytes and by their types.
* A latency of zero, or `sim_cache` off, leaves a request in its queue for ever
  (`MemorySubsystem.cpp:202`).  `LoadStoreAssumption` excludes it.
* `insert` (`TbzNormalInstr.cpp:901`) dereferences `_lastCanMove` without asking
  whether an instruction above lists the operation; before the first that lists
  any, it is null.  The model stops there (phase `nullDereference`).

## What the models leave out

* Simulator: floating point; SysCall and Express function calls, which run on the
  host; predication; statistics and power.  ExecuteBit is left out:
  `ControlUnit::doStep` steps every unit that is not stalled, whatever that bit
  says.  Addresses are word aligned in the
  caches, as `Cache` drops the byte number; `Values` has the bytes.
* Trailblazing: splitting into and speculation out of branches (both off by
  default), copies renamed across moves, the pipelined modes.
* Spreading: static delay operations, queues and NOP operations.
* Register allocation: doubles and meta nodes, calls, delayed reads.  A register
  class belongs to a name, not to an operand: the code computes the class of a
  spill's new multichain from its own operands (`MultiChain.cpp:619`), and the
  two are the same when all operands of a name have one class.  An
  instruction of a program defines a name once (`DefinesOnce`), and the model
  stops before a merge of two names that one instruction defines, where the code
  would rename the first of the two definitions only (`InterferenceGraph.cpp:517`).
  Two definitions of an instruction interfere unless neither is live after it,
  so this takes dead code, and no run meets it.  It stops, as the code does at
  its assertions (`MultiChain.cpp:623`), before a spill of a definition in the last
  instruction of a block that has no block after it: there is no place for the
  store.
* Not modelled: instruction selection, mutation, if-conversion and code
  generation are tree and table rewriting over an intermediate representation
  of hundreds of classes, one pass at a time, with no state that survives a
  pass; the front end is a parser and a text generator; disambiguation is
  arithmetic on integer polyhedra; the functional simulator is a translation to
  C; the rest is display, I/O, numeric estimates and third-party code.

Bounds that are no parameters of the code: the program (`ProgramLength`), the
accesses (`NumAccesses`), the instructions in flight (`Depth`), the tags
(`NumTags`) and writes (`MaxWrites`), the operations moved (`MaxOps`), the bits of
a byte (`ByteBits`), and the programs of `ValuesMC` and `RegAllocMC`.

## Plan

Done: pipeline, load/store lane, front end, cache, values, trailblazing,
spreading, register allocation; the theorems above.  What would come next:

1. `StreamBuffer` (prefetching with a valid count that ages) and `Connectivity`: a
   stack of modules implementing `FlatMemory`.  Calls, doubles and meta nodes in
   `RegAlloc`; splitting and renamed copies in `Trailblazing`; the tables that
   trailblazing consults with a pipeline model.
2. Proofs: `InterferencesKept` and `SameMeaning` of `RegAlloc` for routines in which a move
   shares its instruction and no two operations of one multichain meet there.
