-------------------------------- MODULE Fetch --------------------------------
(***************************************************************************)
(* The front of the pipeline: FetchUnit with the instruction cache port of *)
(* readFromMem, the two bit BranchPrediction table, the verdict the        *)
(* BranchUnit gives on a prediction, and the recovery ControlUnit::doStep  *)
(* makes at the end of that cycle.                                         *)
(*                                                                         *)
(* Instructions have the addresses 1, 2, 3, ...; what lies between FETCH   *)
(* and the BranchUnit is a queue of the instructions in flight.            *)
(***************************************************************************)
EXTENDS Naturals, Sequences

CONSTANTS
    Program,       \* the instructions, [kind, target]
    NumInstFetch,  \* instructions FETCH asks for
    Latencies,     \* what the instruction cache may answer
    Depth          \* bound: instructions in flight

Kind == {"other", "branch", "goto", "ret"}

ASSUME ProgramAssumption ==
    /\ Program \in Seq([kind : Kind, target : Nat])
    /\ Program # <<>> /\ Program[Len(Program)].kind \in {"goto", "ret"}
    /\ \A a \in DOMAIN Program : Program[a].kind \in {"branch", "goto"} =>
         Program[a].target \in DOMAIN Program

ASSUME FetchAssumption ==
    /\ NumInstFetch \in Nat \ {0}
    /\ Latencies \subseteq Nat \ {0}
    /\ Depth \in Nat /\ Depth >= NumInstFetch

VARIABLES
    phase,      \* where in ControlUnit::doStep the cycle is
    pc,         \* the pc latch
    busy,       \* static busy of readFromMem
    prevAddr,   \* static prev_addr of readFromMem
    group,      \* static instrns and i of readFromMem, [addr, size]
    predictor,  \* BranchPrediction::_branchHistoryMap
    inFlight,   \* fetched and not executed, [addr, taken]
    missed,     \* BranchMispredicted and BranchOperation, 0 when clear
    stall,      \* StallBit of FETCH
    ended,      \* _END_OF_PROGRAM_
    position    \* history: where the program itself is

port == <<busy, prevAddr, group>>
vars == <<phase, pc, port, predictor, inFlight, missed, stall, ended, position>>

-----------------------------------------------------------------------------
Addr == DOMAIN Program
KindOf(a) == Program[a].kind

\* PREDICTION_STATE, and "none" for an address that is not in the map.
State == {"TAKEN1", "TAKEN2", "NOTTAKEN1", "NOTTAKEN2"}

\* BranchPrediction::read enters a branch it does not know as TAKEN1.
Known(state) == IF state = "none" THEN "TAKEN1" ELSE state
PredictsTaken(a) == Known(predictor[a]) \in {"TAKEN1", "TAKEN2"}

\* BranchPrediction::write.
AsPredictedFlips(state) ==
    IF state \in {"TAKEN1", "NOTTAKEN2"} THEN "TAKEN1" ELSE "NOTTAKEN1"
AsPredicted(state) ==
    IF state \in {"TAKEN1", "TAKEN2"} THEN "TAKEN1" ELSE "NOTTAKEN1"

Mispredicted(state) ==
    [TAKEN1 |-> "TAKEN2", TAKEN2 |-> "NOTTAKEN1",
     NOTTAKEN1 |-> "NOTTAKEN2", NOTTAKEN2 |-> "TAKEN1"][state]

Init ==
    /\ phase = "execute"
    /\ pc = 1 /\ position = 1
    /\ busy = 0 /\ prevAddr = 0 /\ group = [addr |-> 0, size |-> 0]
    /\ predictor = [a \in Addr |-> "none"]
    /\ inFlight = <<>> /\ missed = 0
    /\ stall = FALSE /\ ended = FALSE

-----------------------------------------------------------------------------
\* The address the program goes to after the instruction at a.
Successor(a, taken) == IF taken THEN Program[a].target ELSE a + 1

Idle ==
    /\ phase = "execute" /\ ~ended
    /\ phase' = "fetch"
    /\ UNCHANGED <<pc, port, predictor, inFlight, missed, stall, ended,
                   position>>

\* The instructions before the next control operation, some of them.
Advance(n) ==
    /\ phase = "execute" /\ ~ended
    /\ n <= Len(inFlight)
    /\ \A k \in 1..n : KindOf(inFlight[k].addr) = "other"
    /\ inFlight' = SubSeq(inFlight, n + 1, Len(inFlight))
    /\ position' = inFlight[n].addr + 1
    /\ phase' = "fetch"
    /\ UNCHANGED <<pc, port, predictor, missed, stall, ended>>

\* BranchUnit::doStep on a branch or a goto.  completeBranchOperation asks the
\* predictor again for what FETCH was told; a wrong prediction is written to it
\* only in Recover.
Branch(taken) ==
    /\ phase = "execute" /\ ~ended
    /\ inFlight # <<>>
    /\ LET a == Head(inFlight).addr IN
         /\ KindOf(a) \in {"branch", "goto"}
         /\ KindOf(a) = "goto" => taken
         /\ IF PredictsTaken(a) = taken
            THEN /\ predictor' =
                      [predictor EXCEPT ![a] = AsPredicted(Known(@))]
                 /\ UNCHANGED missed
            ELSE /\ predictor' = [predictor EXCEPT ![a] = Known(@)]
                 /\ missed' = a
         /\ position' = Successor(a, taken)
    /\ inFlight' = Tail(inFlight)
    /\ phase' = "fetch"
    /\ UNCHANGED <<pc, port, stall, ended>>

Return ==
    /\ phase = "execute" /\ ~ended
    /\ inFlight # <<>> /\ KindOf(Head(inFlight).addr) = "ret"
    /\ inFlight' = Tail(inFlight)
    /\ ended' = TRUE
    /\ UNCHANGED <<phase, pc, port, predictor, missed, stall, position>>

-----------------------------------------------------------------------------
\* readFromMem starts an access when none is under way, and gives up the one
\* that is when the address has changed.
StartsUnlessBusy == busy = 0
Starts == busy = 0 \/ prevAddr # pc

\* FETCH follows the operation at a to its target.
Follows(a) ==
    \/ KindOf(a) = "goto"
    \/ KindOf(a) = "branch" /\ PredictsTaken(a)

\* What FETCH passes on of the instructions from a on: up to the first one it
\* follows.
Passed(a, size) ==
    CHOOSE n \in 1..size :
        /\ \A k \in 0..(n - 2) : ~Follows(a + k)
        /\ n = size \/ Follows(a + n - 1)

NextGroupFull(a, size) == a + NumInstFetch
NextGroup(a, size) == a + size

Deliver(lines) ==
    LET n == Passed(lines.addr, lines.size)
        last == lines.addr + n - 1
    IN /\ inFlight' = inFlight \o
            [k \in 1..n |-> [addr |-> lines.addr + k - 1,
                             taken |-> Follows(lines.addr + k - 1)]]
       /\ predictor' =
            [a \in Addr |-> IF a \in lines.addr..last /\ KindOf(a) = "branch"
                            THEN Known(predictor[a]) ELSE predictor[a]]
       /\ pc' = (IF Follows(last) THEN Program[last].target
                 ELSE NextGroup(pc, lines.size))

\* prev_addr is overwritten on every call.
RememberNever == UNCHANGED prevAddr
Remember == prevAddr' = pc

\* latency is what the cache answers for pc, size how many instructions it has
\* ready from there.  Both count only if an access starts.
Fetch(latency, size) ==
    /\ phase = "fetch" /\ ~stall
    /\ pc \in Addr /\ pc + size - 1 \in Addr
    /\ LET lines == IF Starts THEN [addr |-> pc, size |-> size] ELSE group
           cycles == IF Starts THEN latency ELSE busy
       IN /\ group' = lines
          /\ busy' = cycles - 1
          /\ IF cycles = 1 THEN Deliver(lines)
             ELSE UNCHANGED <<inFlight, predictor, pc>>
    /\ Remember
    /\ phase' = "update"
    /\ UNCHANGED <<missed, stall, ended, position>>

\* The cache has nothing at the address: the pc latch gets -1, here 0.
FetchNothing ==
    /\ phase = "fetch" /\ ~stall
    /\ pc \notin Addr /\ Starts
    /\ group' = [addr |-> 0, size |-> 0]
    /\ busy' = 0
    /\ Remember
    /\ pc' = 0
    /\ phase' = "update"
    /\ UNCHANGED <<predictor, inFlight, missed, stall, ended, position>>

FetchStalled ==
    /\ phase = "fetch" /\ stall
    /\ phase' = "update"
    /\ UNCHANGED <<pc, port, predictor, inFlight, missed, stall, ended,
                   position>>

-----------------------------------------------------------------------------
\* setStall: the units below may stall FETCH in any cycle, and do when another
\* group would not fit the bound.
Update(stalled) ==
    /\ phase = "update" /\ missed = 0
    /\ ~stalled => Len(inFlight) + NumInstFetch <= Depth
    /\ stall' = stalled
    /\ phase' = "execute"
    /\ UNCHANGED <<pc, port, predictor, inFlight, missed, ended, position>>

\* ControlUnit::doStep after a wrong prediction: everything up to the read
\* operands is flushed, the pc latch gets the way not taken before, and only
\* then is the predictor written.
RedirectToTarget(a) == Program[a].target
Redirect(a) == IF PredictsTaken(a) THEN a + 1 ELSE Program[a].target

Recover ==
    /\ phase = "update" /\ missed # 0
    /\ inFlight' = <<>>
    /\ pc' = Redirect(missed)
    /\ predictor' = [predictor EXCEPT ![missed] = Mispredicted(@)]
    /\ missed' = 0
    /\ stall' = FALSE
    /\ phase' = "execute"
    /\ UNCHANGED <<port, ended, position>>

EndOfSimulation == ended /\ UNCHANGED vars

Next ==
    \/ Idle
    \/ \E n \in 1..Depth : Advance(n)
    \/ \E taken \in BOOLEAN : Branch(taken)
    \/ Return
    \/ \E latency \in Latencies, size \in 1..NumInstFetch : Fetch(latency, size)
    \/ FetchNothing
    \/ FetchStalled
    \/ \E stalled \in BOOLEAN : Update(stalled)
    \/ Recover
    \/ EndOfSimulation

\* The main loop never stops, and the units below never stall FETCH for good.
Fairness == WF_vars(Next) /\ SF_vars(Update(FALSE))

Spec == Init /\ [][Next]_vars /\ Fairness

-----------------------------------------------------------------------------
Flight == [addr : Addr, taken : BOOLEAN]

\* The variables have their types.
TypeOK ==
    /\ phase \in {"execute", "fetch", "update"}
    /\ pc \in 0..(Len(Program) + 1) /\ position \in Addr
    /\ busy \in Nat /\ prevAddr \in Nat
    /\ group \in [addr : Nat, size : 0..NumInstFetch]
    /\ predictor \in [Addr -> State \cup {"none"}]
    /\ inFlight \in Seq(Flight)
    /\ missed \in Addr \cup {0}
    /\ stall \in BOOLEAN /\ ended \in BOOLEAN

\* The address FETCH goes on with after an instruction in flight.
Then(f) == Successor(f.addr, f.taken)

\* What FETCH brings in is the program, all of it, in its order: the next
\* instruction in flight is the one the program is at, each is followed by the
\* one its prediction leads to, and the pc latch goes on from the last, through
\* misses, aborted accesses, redirections and branches in mid group.
PathKept ==
    LET n == Len(inFlight) IN
    missed = 0 /\ ~ended =>
      /\ n > 0 => Head(inFlight).addr = position
      /\ \A k \in 1..(n - 1) : inFlight[k + 1].addr = Then(inFlight[k])
      /\ LET next == IF n = 0 THEN position ELSE Then(inFlight[n]) IN
           pc = next \/ (pc = 0 /\ next \notin Addr)

\* A branch is judged by the predictor as it is when the branch executes, not
\* by what FETCH was told.  The two agree for every branch in flight, however
\* many of one address there are: no entry changes its mind under them.
PredictionStands ==
    missed = 0 =>
      \A k \in DOMAIN inFlight :
        KindOf(inFlight[k].addr) = "branch" =>
          inFlight[k].taken = PredictsTaken(inFlight[k].addr)

\* The access under way is for the address in the pc latch, unless a recovery
\* has just changed it.
PortHolds ==
    busy # 0 /\ prevAddr = pc => group.addr = pc /\ group.size > 0

\* A miss is answered, an aborted access is made again: as long as the program
\* has not returned FETCH brings in the next instruction.
FetchGoesOn == []<>(inFlight # <<>> \/ ended)
=============================================================================
