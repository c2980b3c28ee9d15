------------------------------ MODULE LoadStore ------------------------------
(***************************************************************************)
(* The data path of the LDST lane, cycle by cycle: LoadStoreUnit with its  *)
(* reservation station, and the MemorySubsystem with its two queues, which *)
(* ControlUnit::doStep steps before the units.  The module behind the      *)
(* queues (cache or DRAM) is its contents and the latency it answers with. *)
(*                                                                         *)
(* An access is its position in program, and a store stands for the value  *)
(* it writes; 0 is the value memory starts with.                           *)
(***************************************************************************)
EXTENDS Integers, Sequences, FiniteSets, SequencesExt

CONSTANTS
    Addresses,
    Latencies,       \* what read_access and write_access may answer
    ResStationSize,  \* LoadStoreUnit parameter
    MaxReadQ,        \* MAX_READQ_SIZE
    MaxWriteQ,       \* MAX_WRITEQ_SIZE
    NumAccesses      \* bound: accesses that enter the lane

ASSUME LoadStoreAssumption ==
    /\ Addresses \subseteq Nat
    /\ Latencies \subseteq Nat \ {0} /\ IsFiniteSet(Latencies) /\ Latencies # {}
    /\ ResStationSize \in Nat \ {0}
    /\ MaxReadQ \in Nat \ {0} /\ MaxWriteQ \in Nat \ {0}
    /\ NumAccesses \in Nat

VARIABLES
    phase,     \* where in ControlUnit::doStep the cycle is
    program,   \* history: the accesses that entered, [kind, addr]
    latch,     \* the READ to EX latch of the lane, 0 when empty
    busy,      \* BusyBit of the unit
    stallBit,  \* MemorySubsystem::_stallBit
    station,   \* LoadStoreUnit::ReservationStation, [op, state]
    readQ,     \* ReadQueue
    writeQ,    \* WriteQueue
    memory,    \* what the modules hold
    out,       \* the EX to WRITEBACK latch of the lane
    observed,  \* history: the values read or written, in order of access
    retired    \* history: the accesses the station has let go

queues == <<stallBit, readQ, writeQ, memory, observed>>
vars   == <<phase, program, latch, busy, station, out, retired, queues>>

-----------------------------------------------------------------------------
Access == 1..Len(program)
Addr(i) == program[i].addr
IsStore(i) == program[i].kind = "store"

NoAnswer == [op |-> 0, value |-> 0]

Request(i) == [op |-> i, value |-> IF IsStore(i) THEN i ELSE 0,
               latency |-> 0, state |-> "waiting"]

Phase == {"preprocess", "memory", "unit", "deliver"}

Init ==
    /\ phase = "preprocess"
    /\ program = <<>> /\ retired = {} /\ observed = <<>>
    /\ latch = 0 /\ out = NoAnswer
    /\ busy = FALSE /\ stallBit = FALSE
    /\ station = <<>> /\ readQ = <<>> /\ writeQ = <<>>
    /\ memory = [a \in Addresses |-> 0]

-----------------------------------------------------------------------------
\* Room is reserved for the latch whether it is full or not.
Preprocess ==
    /\ phase = "preprocess"
    /\ busy' = (ResStationSize < Len(station) + 1)
    /\ phase' = "memory"
    /\ UNCHANGED <<program, latch, station, out, retired, queues>>

-----------------------------------------------------------------------------
Waits(queue) == queue # <<>> /\ Head(queue).state = "waiting"

\* The head of a queue after a cycle; l is the latency the module answers
\* with if the access starts now.
AfterCyclePastZero(r, l) ==
    IF r.state = "waiting"
    THEN [r EXCEPT !.latency = l,
                   !.state = IF l = 1 THEN "done" ELSE "stalled"]
    ELSE [r EXCEPT !.latency = @ - 1,
                   !.state = IF r.latency <= 1 THEN "done" ELSE @]
AfterCycleStopsAtOne(r, l) ==
    IF r.state = "waiting"
    THEN [r EXCEPT !.latency = l,
                   !.state = IF l = 1 THEN "done" ELSE "stalled"]
    ELSE IF r.latency > 1 THEN [r EXCEPT !.latency = @ - 1]
    ELSE r
AfterCycle(r, l) ==
    IF r.state = "waiting"
    THEN [r EXCEPT !.latency = l,
                   !.state = IF l = 1 THEN "done" ELSE "stalled"]
    ELSE IF r.latency > 0
    THEN [r EXCEPT !.latency = @ - 1,
                   !.state = IF r.latency <= 1 THEN "done" ELSE @]
    ELSE r

ReadQueueAfter(l) ==
    IF readQ = <<>> THEN <<>>
    ELSE LET read == IF Waits(readQ)
                     THEN [Head(readQ) EXCEPT
                             !.value = memory[Addr(Head(readQ).op)]]
                     ELSE Head(readQ)
         IN <<AfterCycle(read, l)>> \o Tail(readQ)

WriteQueueAfter(l) ==
    IF writeQ = <<>> THEN <<>>
    ELSE LET written == AfterCycle(Head(writeQ), l) IN
         IF written.state = "done" THEN Tail(writeQ)
         ELSE <<written>> \o Tail(writeQ)

MemoryAfterLatency ==
    IF writeQ = <<>> \/ Head(writeQ).latency # 1 THEN memory
    ELSE [memory EXCEPT ![Addr(Head(writeQ).op)] = Head(writeQ).value]
MemoryAfter ==
    IF ~Waits(writeQ) THEN memory
    ELSE [memory EXCEPT ![Addr(Head(writeQ).op)] = Head(writeQ).value]

\* The queues as the unit will find them leave no room for a request.
FullTooLate(reads, writes) == Len(reads) > MaxReadQ \/ Len(writes) > MaxWriteQ
Full(reads, writes) ==
    Len(reads) + 1 > MaxReadQ \/ Len(writes) + 1 > MaxWriteQ

MemoryStep(readLatency, writeLatency) ==
    /\ phase = "memory"
    /\ readQ' = ReadQueueAfter(readLatency)
    /\ writeQ' = WriteQueueAfter(writeLatency)
    /\ memory' = MemoryAfter
    /\ observed' = observed
         \o (IF Waits(readQ) THEN <<Head(readQ').value>> ELSE <<>>)
         \o (IF Waits(writeQ) THEN <<Head(writeQ).value>> ELSE <<>>)
    /\ stallBit' = Full(readQ', writeQ')
    /\ phase' = "unit"
    /\ UNCHANGED <<program, latch, busy, station, out, retired>>

-----------------------------------------------------------------------------
\* The station once the unit has read its latch.
Arrived ==
    IF latch = 0 THEN station
    ELSE Append(station, [op |-> latch, state |-> "fresh"])

FirstIn(state) == SelectInSeq(Arrived, LAMBDA e : e.state = state)

\* The entry that makes its memory request in this cycle, 0 if none does.
Sender == IF stallBit THEN 0 ELSE FirstIn("addrcalc")

Marked(entries, k, state) ==
    IF k = 0 THEN entries ELSE [entries EXCEPT ![k].state = state]

\* The first loop: one address is calculated, one request is made.
Advanced ==
    Marked(Marked(Arrived, FirstIn("fresh"), "addrcalc"),
           Sender, IF Sender # 0 /\ IsStore(Arrived[Sender].op)
                   THEN "completed" ELSE "replay")

\* ReceiveData: the first request for the address whose data is ready.
ReadyFor(reads, a) ==
    SelectInSeq(reads, LAMBDA r : /\ Addr(r.op) = a
                                  /\ r.state = "done" /\ r.latency = 0)

HasDataWritten(writes, a) == \A k \in DOMAIN writes : Addr(writes[k].op) # a

(***************************************************************************)
(* The second loop keeps the end iterator it started with while entries    *)
(* are erased under it.  After an erasure it steps over the entry that     *)
(* moved up, and ends on slots past the last entry: destroyed copies of    *)
(* what was the last one.  ghost says whether such a slot still reads as   *)
(* that entry; erasing it takes the last entry of the vector.              *)
(***************************************************************************)
LetOldest(s, k) == [s EXCEPT !.station = Tail(@)]
Let(s, k) ==
    [s EXCEPT !.station = IF k <= Len(@) THEN RemoveAt(@, k) ELSE Front(@)]

Visit(s, k, e) ==
    LET ready == ReadyFor(s.readQ, Addr(e.op)) IN
    IF e.state = "replay" /\ ready # 0
    THEN [Let(s, k) EXCEPT
            !.out = [op |-> e.op, value |-> s.readQ[ready].value],
            !.readQ = RemoveAt(@, ready),
            !.retired = @ \cup {e.op}]
    ELSE IF e.state = "completed" /\ HasDataWritten(s.writeQ, Addr(e.op))
    THEN [Let(s, k) EXCEPT !.retired = @ \cup {e.op}]
    ELSE s

\* The loop at its kth entry; s is what the entries before have left.
Walk(start, ghost, s, k) ==
    IF k <= Len(s.station) THEN Visit(s, k, s.station[k])
    ELSE IF ghost /\ s.station # <<>> THEN Visit(s, k, Last(start.station))
    ELSE s

Sweep(start, ghost) ==
    LET n == Len(start.station)
        f[k \in 0..n] == IF k = 0 THEN start ELSE Walk(start, ghost, f[k - 1], k)
    IN f[n]

Requested(queue, store) ==
    IF Sender # 0 /\ IsStore(Arrived[Sender].op) = store
    THEN Append(queue, Request(Arrived[Sender].op))
    ELSE queue

UnitStep(ghost) ==
    /\ phase = "unit"
    /\ \E swept \in {Sweep([station |-> Advanced, out |-> NoAnswer,
                            readQ |-> Requested(readQ, FALSE),
                            writeQ |-> Requested(writeQ, TRUE),
                            retired |-> retired], ghost)} :
         /\ station' = swept.station
         /\ out' = swept.out
         /\ readQ' = swept.readQ
         /\ writeQ' = swept.writeQ
         /\ retired' = swept.retired
    /\ latch' = 0
    /\ phase' = "deliver"
    /\ UNCHANGED <<program, busy, stallBit, memory, observed>>

-----------------------------------------------------------------------------
\* READ is stalled and its latch is not delivered while the unit is busy.
Enter(kind, addr) ==
    /\ phase = "deliver" /\ ~busy
    /\ Len(program) < NumAccesses
    /\ program' = Append(program, [kind |-> kind, addr |-> addr])
    /\ latch' = Len(program')
    /\ phase' = "preprocess"
    /\ UNCHANGED <<busy, station, out, retired, queues>>

Bubble ==
    /\ phase = "deliver"
    /\ phase' = "preprocess"
    /\ UNCHANGED <<program, latch, busy, station, out, retired, queues>>

Next ==
    \/ Preprocess
    \/ \E l, m \in Latencies : MemoryStep(l, m)
    \/ \E ghost \in BOOLEAN : UnitStep(ghost)
    \/ \E kind \in {"load", "store"}, addr \in Addresses : Enter(kind, addr)
    \/ Bubble

\* The simulator's main loop never stops.
Spec == Init /\ [][Next]_vars /\ WF_vars(Next)

-----------------------------------------------------------------------------
EntryState == {"fresh", "addrcalc", "replay", "completed"}
MaxLatency == CHOOSE l \in Latencies : \A m \in Latencies : m <= l
QueueEntry == [op : Access, value : Access \cup {0}, latency : 0..MaxLatency,
               state : {"waiting", "stalled", "done"}]

\* The variables have their types; a latency in a queue never passes zero.
TypeOK ==
    /\ phase \in Phase
    /\ program \in Seq([kind : {"load", "store"}, addr : Addresses])
    /\ latch \in Access \cup {0}
    /\ busy \in BOOLEAN /\ stallBit \in BOOLEAN
    /\ station \in Seq([op : Access, state : EntryState])
    /\ readQ \in Seq(QueueEntry) /\ writeQ \in Seq(QueueEntry)
    /\ memory \in [Addresses -> Access \cup {0}]
    /\ out \in [op : Access \cup {0}, value : Access \cup {0}]
    /\ observed \in Seq(Access \cup {0})
    /\ retired \subseteq Access

\* The unit reads _stallBit a step after it was set and sends one request: the
\* queues, plain vectors, never grow past MAX_READQ_SIZE and MAX_WRITEQ_SIZE.
QueuesBounded == Len(readQ) <= MaxReadQ /\ Len(writeQ) <= MaxWriteQ

\* What the LDST lane of module Pipeline takes for granted of a cycle: the
\* latch is appended, only entries of an earlier cycle leave, in any number
\* but with at most one load and that the oldest, and its value goes out.
StationContract ==
    [][phase = "unit" =>
         LET gone == {k \in DOMAIN station : station[k].op \in retired'}
             loads == {k \in gone : ~IsStore(station[k].op)}
             stay == {k \in DOMAIN station : k \notin gone}
             rank(k) == Cardinality({j \in stay : j <= k})
         IN /\ Len(station') = Cardinality(stay) + (IF latch = 0 THEN 0 ELSE 1)
            /\ \A k \in stay : station'[rank(k)].op = station[k].op
            /\ latch # 0 => Last(station').op = latch
            /\ \A k \in loads : \A j \in 1..(k - 1) : IsStore(station[j].op)
            /\ out'.op = (IF loads = {} THEN 0
                          ELSE station[CHOOSE k \in loads : TRUE].op)]_vars

\* Under the simulator's main loop every access that enters the lane leaves
\* it: the queues, the timers and the erasures never strand one.
EveryAccessRetires ==
    \A i \in 1..NumAccesses : (i \in Access) ~> (i \in retired)
=============================================================================
