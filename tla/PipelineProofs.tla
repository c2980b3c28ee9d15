------------------------- MODULE PipelineProofs -------------------------
(***************************************************************************)
(* Proofs about Pipeline, for every machine the assumptions admit.  First  *)
(* the bounds of its buffers and stations.  Then the operations on their   *)
(* way: where each one is, which ones are on a wrong path, what the        *)
(* destination tables say about them, and which values they carry.         *)
(*                                                                         *)
(*   StageInv   what each buffer may hold in each phase of a cycle,        *)
(*   PlacesInv  no operation is in two of them,                            *)
(*   PathInv    what is off the predicted path is behind a diversion that  *)
(*              is ahead of it in the machine,                             *)
(*   CoverInv   nothing that DECODE issued is lost,                        *)
(*   ScoreInv   the destination tables are those of what is in flight,     *)
(*   DataInv    registers and latches hold what a sequential machine would *)
(*              have in them.                                              *)
(*                                                                         *)
(* The last three are about programs that are predicted right (Predicted). *)
(* The end of the module uses them to show that Pipeline implements        *)
(* InOrderIssue.                                                           *)
(***************************************************************************)
EXTENDS PipelineRefinement, SequenceTheorems, WellFoundedInduction,
        FiniteSetTheorems, TLAPS

-----------------------------------------------------------------------------
(* Lemmas *)

\* A nonempty set of lanes has a last one: what WRITEBACK writes last exists.
LEMMA LastPipe ==
    ASSUME NEW S, S \subseteq Pipes, S # {}
    PROVE  \E k \in S : \A j \in S : j <= k
<1> DEFINE T == {NumPipes - j : j \in S}
<1>0. NumPipes \in Nat /\ \A j \in S : j \in Nat /\ j <= NumPipes
  BY PipesAssumption DEF Pipes
<1>1. T \subseteq Nat /\ T # {}
  <2>1. \A j \in S : NumPipes - j \in Nat
    BY <1>0
  <2> QED BY <2>1
<1>2. PICK x \in T : \A y \in T : ~(<<y, x>> \in OpToRel(<, Nat))
  <2> HIDE DEF T
  <2> QED BY <1>1, NatLessThanWellFounded, WFMin
<1>3. PICK k \in S : x = NumPipes - k
  OBVIOUS
<1>4. ASSUME NEW j \in S
      PROVE  j <= k
  <2>1. NumPipes - j \in T
    OBVIOUS
  <2>2. ~(<<NumPipes - j, x>> \in OpToRel(<, Nat))
    BY <1>2, <2>1
  <2>3. ~(NumPipes - j < x)
    BY <1>1, <2>1, <2>2 DEF OpToRel
  <2> QED BY <2>3, <1>3, <1>0
<1> QED BY <1>4

\* Reading a latch yields a sequence of what the latch may hold.
LEMMA ArrivedType ==
    ASSUME NEW S, NEW i, i \in S \cup {0}
    PROVE  /\ Arrived(i) \in Seq(S)
           /\ Len(Arrived(i)) = IF i = 0 THEN 0 ELSE 1
BY DEF Arrived

LEMMA OpcodeType ==
    ASSUME TypeOK, NEW i, i \in OpId
    PROVE  /\ Code(i) \in Opcodes /\ Code(i) \in OpcodeForm
           /\ ClassOf(i) \in Class
           /\ Dest(i) \in SUBSET Regs /\ Srcs(i) \in SUBSET Regs
           /\ Code(i).pipes \in SUBSET Pipes /\ Code(i).timing \in Nat
           /\ OnPath(i) \in BOOLEAN
<1>1. stream[i] \in [code : Opcodes, onPath : BOOLEAN]
  BY ElementOfSeq DEF TypeOK, OpId
<1>2. Code(i) \in Opcodes /\ OnPath(i) \in BOOLEAN
  BY <1>1 DEF Code, OnPath
<1>3. Code(i) \in OpcodeForm
  BY <1>2, OpcodesAssumption
<1> QED BY <1>2, <1>3 DEF OpcodeForm, ClassOf, Dest, Srcs

-----------------------------------------------------------------------------
(* Type correctness *)

LEMMA InitType == Init => TypeOK
<1> SUFFICES ASSUME Init PROVE TypeOK
  OBVIOUS
<1>1. OpId = {} /\ Entry = {0}
  BY DEF Init, OpId, Entry
<1>2. EmptyRead \in ReadEntry /\ NoValues \in [Regs -> Entry]
  BY <1>1 DEF EmptyRead, ReadEntry, NoValues
<1>3. /\ stream \in Seq([code : Opcodes, onPath : BOOLEAN])
      /\ instBuffer \in Seq(OpId)
      /\ fetDec \in [old : Seq(OpId), new : Seq(OpId)]
  BY DEF Init
<1>4. /\ decRd \in [Pipes -> [old : Seq(OpId), new : Seq(OpId)]]
      /\ rdStation \in [Pipes -> Seq(OpId)]
      /\ exStation \in [Pipes -> Seq(OpId)]
      /\ rdEx \in [Pipes -> [old : ReadEntry, new : ReadEntry]]
      /\ exWb \in [Pipes -> [old : Entry, new : Entry]]
  BY <1>1, <1>2 DEF Init
<1> QED BY <1>1, <1>2, <1>3, <1>4 DEF Init, TypeOK, Phases

LEMMA PreprocessType == TypeOK /\ Preprocess => TypeOK'
<1> SUFFICES ASSUME TypeOK, Preprocess PROVE TypeOK'
  OBVIOUS
<1>1. OpId' = OpId /\ Entry' = Entry /\ ReadEntry' = ReadEntry
  BY DEF Preprocess, history, OpId, Entry, ReadEntry
<1>2. busyDecode' \in BOOLEAN /\ busyRead' \subseteq Pipes /\ busyEx' \subseteq Pipes
  BY DEF Preprocess, DecodeBusy
<1> QED BY <1>1, <1>2 DEF Preprocess, TypeOK, Phases, history, front, lanes, regfile, stall

LEMMA WriteBackType == TypeOK /\ WriteBack => TypeOK'
<1> SUFFICES ASSUME TypeOK, WriteBack PROVE TypeOK'
  OBVIOUS
<1>1. OpId' = OpId /\ Entry' = Entry /\ ReadEntry' = ReadEntry
  BY DEF WriteBack, OpId, Entry, ReadEntry
<1>2. \A p \in Pipes : exWb[p].old \in Entry
  BY DEF TypeOK
<1>3. retired' \subseteq OpId
  BY <1>2 DEF WriteBack, TypeOK, Entry
<1>4. destTable' \subseteq Regs
  BY DEF WriteBack, TypeOK
<1>5. ended' \in BOOLEAN
  BY DEF WriteBack, TypeOK, ReturnSeen
<1>6. \A r \in Regs : Writers(r) # {} => LastWritten(r) \in Entry
  <2> TAKE r \in Regs
  <2> HAVE Writers(r) # {}
  <2>1. Writers(r) \subseteq Pipes
    BY DEF Writers
  <2>2. (CHOOSE k \in Writers(r) : \A j \in Writers(r) : j <= k) \in Pipes
    BY <2>1, LastPipe
  <2> QED BY <2>2, <1>2, PipesAssumption DEF LastWritten
<1>7. regsNew' \in [Regs -> Entry]
  BY <1>6 DEF WriteBack, TypeOK
<1>8. exWb' \in [Pipes -> [old : Entry, new : Entry]]
  BY DEF WriteBack, TypeOK, Entry
<1> QED BY <1>1, <1>3, <1>4, <1>5, <1>7, <1>8
        DEF WriteBack, TypeOK, Phases, front, busy, stall
LEMMA StationType ==
    ASSUME TypeOK, NEW p \in Pipes
    PROVE  /\ Station(p) \in Seq(OpId)
           /\ Station(p) # <<>> => Head(Station(p)) \in OpId
           /\ Station(p) # <<>> => Timer(p) \in Nat
<1>1. rdEx[p].old.op \in OpId \cup {0} /\ exStation[p] \in Seq(OpId)
  BY DEF TypeOK, ReadEntry, Entry
<1>2. Station(p) \in Seq(OpId)
  BY <1>1, ArrivedType, ConcatProperties DEF Station
<1>3. Station(p) # <<>> => Head(Station(p)) \in OpId
  BY <1>2, HeadTailProperties
<1>4. Station(p) # <<>> => Code(Head(Station(p))).timing \in Nat
  BY <1>3, OpcodeType
<1>5. exCount[p] \in Nat
  BY DEF TypeOK
<1> QED BY <1>2, <1>3, <1>4, <1>5 DEF Timer

\* The entries the memory station keeps, and those it completes.
LEMMA KeepsType ==
    ASSUME TypeOK, NEW keep \in Keeps
    PROVE  /\ LoadStoreStation(keep) \in Seq(OpId)
           /\ Len(LoadStoreStation(keep)) <=
                Len(exStation[MemPipe]) + Len(Arrived(rdEx[MemPipe].old.op))
           /\ \A class : DoneOf(keep, class) \subseteq OpId
<1> DEFINE len == Len(exStation[MemPipe])
           kept == [k \in DOMAIN keep |-> exStation[MemPipe][keep[k]]]
<1>1. /\ exStation[MemPipe] \in Seq(OpId) /\ len \in Nat
      /\ rdEx[MemPipe].old.op \in OpId \cup {0}
  BY PipesAssumption, LenProperties DEF TypeOK, ReadEntry, Entry
<1>2. PICK n \in 0..len : keep \in [1..n -> 1..len]
  BY DEF Keeps
<1>3. \A j \in 1..len : exStation[MemPipe][j] \in OpId
  BY <1>1, ElementOfSeq
<1>4. kept \in Seq(OpId) /\ Len(kept) = n
  <2>1. kept \in [1..n -> OpId]
    BY <1>2, <1>3
  <2>2. n \in Nat
    BY <1>1, <1>2
  <2> QED BY <2>1, <2>2, LenProperties, SeqDef
<1>5. /\ LoadStoreStation(keep) \in Seq(OpId)
      /\ Len(LoadStoreStation(keep)) = n + Len(Arrived(rdEx[MemPipe].old.op))
  BY <1>1, <1>4, ArrivedType, ConcatProperties DEF LoadStoreStation
<1>6. \A class : DoneOf(keep, class) \subseteq OpId
  BY <1>3 DEF DoneOf, Done
<1>7. Len(Arrived(rdEx[MemPipe].old.op)) \in Nat
  BY <1>1, ArrivedType
<1> QED BY <1>1, <1>2, <1>5, <1>6, <1>7

LEMMA ResultType ==
    ASSUME TypeOK, NEW keep \in Keeps, NEW p \in Pipes
    PROVE  Result(p, keep) \in Entry
<1>1. CASE p = MemPipe
  <2>1. DoneOf(keep, "load") \subseteq OpId
    BY KeepsType
  <2> QED BY <1>1, <2>1 DEF Result, Entry
<1>2. CASE p # MemPipe
  BY <1>2, StationType DEF Result, Entry, Finishes
<1> QED BY <1>1, <1>2

LEMMA ExecuteType ==
    ASSUME TypeOK, NEW keep \in Keeps, Execute(keep)
    PROVE  TypeOK'
<1>1. OpId' = OpId /\ Entry' = Entry /\ ReadEntry' = ReadEntry
  BY DEF Execute, OpId, Entry, ReadEntry
<1>2. exStation' \in [Pipes -> Seq(OpId)]
  <2>1. \A p \in Pipes : Finishes(p) => Tail(Station(p)) \in Seq(OpId)
    BY StationType, HeadTailProperties DEF Finishes
  <2> QED BY <2>1, KeepsType, StationType DEF Execute
<1>3. exCount' \in [Pipes -> Nat]
  <2> DEFINE count(p) ==
        IF p \in {MemPipe, BranchPipe} \/ Station(p) = <<>> \/ IsNop(p)
        THEN exCount[p]
        ELSE IF Timer(p) <= 1 THEN 0 ELSE Timer(p) - 1
  <2>1. \A p \in Pipes : exCount[p] \in Nat
    BY DEF TypeOK
  <2>2. \A p \in Pipes : Station(p) # <<>> =>
            (IF Timer(p) <= 1 THEN 0 ELSE Timer(p) - 1) \in Nat
    BY StationType
  <2>3. exCount' = [p \in Pipes |-> count(p)]
    BY DEF Execute
  <2>4. \A p \in Pipes : count(p) \in Nat
    BY <2>1, <2>2
  <2> HIDE DEF count
  <2> QED BY <2>3, <2>4
<1>4. exWb' \in [Pipes -> [old : Entry, new : Entry]]
  BY ResultType DEF Execute, TypeOK
<1>5. rdEx' \in [Pipes -> [old : ReadEntry, new : ReadEntry]]
  <2>1. EmptyRead \in ReadEntry
    BY DEF EmptyRead, ReadEntry, NoValues, Entry
  <2> QED BY <2>1 DEF Execute, TypeOK
<1>6. mispredicted' \in Entry
  BY ResultType, PipesAssumption DEF Execute, TypeOK
<1>7. retired' \subseteq OpId
  <2>1. \A q \in Pipes : IsNop(q) => Head(Station(q)) \in OpId
    BY StationType DEF IsNop
  <2> QED BY <2>1, KeepsType DEF Execute, TypeOK
<1> QED BY <1>1, <1>2, <1>3, <1>4, <1>5, <1>6, <1>7
        DEF Execute, TypeOK, Phases, front, regfile, busy, stall

LEMMA WaitingType ==
    ASSUME TypeOK, NEW p \in Pipes
    PROVE  /\ Waiting(p) \in Seq(OpId)
           /\ Len(Waiting(p)) = Len(rdStation[p]) + Len(decRd[p].old)
           /\ Waiting(p) # <<>> =>
                Head(Waiting(p)) \in OpId /\ Tail(Waiting(p)) \in Seq(OpId)
<1>1. rdStation[p] \in Seq(OpId) /\ decRd[p].old \in Seq(OpId)
  BY DEF TypeOK
<1>2. /\ Waiting(p) \in Seq(OpId)
      /\ Len(Waiting(p)) = Len(rdStation[p]) + Len(decRd[p].old)
  BY <1>1, ConcatProperties DEF Waiting
<1> QED BY <1>2, HeadTailProperties

LEMMA OpReadType == TypeOK /\ OpRead => TypeOK'
<1> SUFFICES ASSUME TypeOK, OpRead PROVE TypeOK'
  OBVIOUS
<1>1. OpId' = OpId /\ Entry' = Entry /\ ReadEntry' = ReadEntry
  BY DEF OpRead, history, OpId, Entry, ReadEntry
<1>2. EmptyRead \in ReadEntry
  BY DEF EmptyRead, ReadEntry, NoValues, Entry
<1>3. \A p \in Pipes : Waiting(p) # <<>> =>
         [op |-> Head(Waiting(p)), val |-> Operands(Head(Waiting(p)))]
            \in ReadEntry
  <2>1. \A i : Operands(i) \in [Regs -> Entry]
    BY DEF Operands, TypeOK, Entry
  <2> QED BY <2>1, WaitingType DEF ReadEntry, Entry
<1>4. rdEx' \in [Pipes -> [old : ReadEntry, new : ReadEntry]]
  BY <1>2, <1>3 DEF OpRead, TypeOK
<1>5. rdStation' \in [Pipes -> Seq(OpId)]
  BY WaitingType DEF OpRead, TypeOK
<1>6. decRd' \in [Pipes -> [old : Seq(OpId), new : Seq(OpId)]]
  <2>1. <<>> \in Seq(OpId)
    OBVIOUS
  <2> QED BY <2>1 DEF OpRead, TypeOK
<1>7. phase' \in Phases
  BY DEF OpRead, Phases
<1> QED BY <1>1, <1>4, <1>5, <1>6, <1>7
        DEF OpRead, TypeOK, history, front, regfile, busy, stall

\* DECODE's buffer once it has read its latch.
LEMMA BufferedType ==
    ASSUME TypeOK
    PROVE  /\ Buffered \in Seq(OpId)
           /\ Len(Buffered) = Len(instBuffer) + Len(fetDec.old)
           /\ Len(Buffered) \in Nat
           /\ \A k \in 1..Len(Buffered) : Buffered[k] \in OpId
<1>1. instBuffer \in Seq(OpId) /\ fetDec.old \in Seq(OpId)
  BY DEF TypeOK
<1>2. /\ Buffered \in Seq(OpId)
      /\ Len(Buffered) = Len(instBuffer) + Len(fetDec.old)
  BY <1>1, ConcatProperties DEF Buffered
<1> QED BY <1>2, LenProperties, ElementOfSeq

\* A group DECODE issues, as a sequence of lanes.
LEMMA LaneType ==
    ASSUME NEW lane \in Lanes
    PROVE  /\ Len(lane) \in Nat /\ Len(lane) <= NumInstDecode
           /\ \A k \in 1..Len(lane) : lane[k] \in Pipes
<1>1. PICK n \in 0..NumInstDecode : lane \in [1..n -> Pipes]
  BY DEF Lanes
<1>2. n \in Nat
  BY SizesAssumption
<1>3. lane \in Seq(Pipes) /\ Len(lane) = n
  BY <1>1, <1>2, SeqDef, LenProperties
<1> QED BY <1>1, <1>2, <1>3, SizesAssumption

LEMMA DecodeType ==
    ASSUME TypeOK, NEW lane \in Lanes, Decode(lane)
    PROVE  TypeOK'
<1>1. OpId' = OpId /\ Entry' = Entry /\ ReadEntry' = ReadEntry
  BY DEF Decode, history, OpId, Entry, ReadEntry
<1>2. \A k \in 1..Len(lane) : Buffered[k] \in OpId
  BY BufferedType, LaneType DEF Decode
<1>3. decRd' \in [Pipes -> [old : Seq(OpId), new : Seq(OpId)]]
  <2>1. ASSUME NEW p \in Pipes, NEW k \in 1..Len(lane)
        PROVE  [decRd[p] EXCEPT !.new = Append(@, Buffered[k])]
                  \in [old : Seq(OpId), new : Seq(OpId)]
    <3>1. decRd[p] \in [old : Seq(OpId), new : Seq(OpId)]
      BY DEF TypeOK
    <3>2. Append(decRd[p].new, Buffered[k]) \in Seq(OpId)
      BY <1>2, <3>1, AppendProperties
    <3> QED BY <3>1, <3>2
  <2>2. ASSUME NEW p \in Pipes, \E k \in 1..Len(lane) : lane[k] = p
        PROVE  (CHOOSE k \in 1..Len(lane) : lane[k] = p) \in 1..Len(lane)
    BY <2>2
  <2> QED BY <2>1, <2>2 DEF Decode, TypeOK
<1>4. instBuffer' \in Seq(OpId)
  BY BufferedType, LaneType, SubSeqProperties DEF Decode
<1>5. fetDec' \in [old : Seq(OpId), new : Seq(OpId)]
  <2>1. <<>> \in Seq(OpId)
    OBVIOUS
  <2> QED BY <2>1 DEF Decode, TypeOK
<1>6. destTable' \subseteq Regs
  <2>1. \A k \in 1..Len(lane) : Dest(Buffered[k]) \subseteq Regs
    BY <1>2, OpcodeType
  <2> QED BY <2>1 DEF Decode, TypeOK
<1> QED BY <1>1, <1>3, <1>4, <1>5, <1>6
        DEF Decode, TypeOK, Phases, history, regfile, busy, stall

LEMMA GroupType ==
    ASSUME NEW group \in Groups
    PROVE  /\ Len(group) \in Nat /\ Len(group) <= NumInstFetch
           /\ \A k \in 1..Len(group) : group[k] \in Opcodes
<1>1. PICK n \in 0..NumInstFetch : group \in [1..n -> Opcodes]
  BY DEF Groups
<1>2. n \in Nat
  BY SizesAssumption
<1>3. group \in Seq(Opcodes) /\ Len(group) = n
  BY <1>1, <1>2, SeqDef, LenProperties
<1> QED BY <1>1, <1>2, <1>3, SizesAssumption

LEMMA FetchedGroup ==
    ASSUME TypeOK, NEW group \in Groups, Fetch(group)
    PROVE  /\ stream' \in Seq([code : Opcodes, onPath : BOOLEAN])
           /\ Len(stream') = Len(stream) + Len(group)
           /\ \A i \in OpId : stream'[i] = stream[i]
           /\ fetDec'.new \in Seq(1..(Len(stream) + Len(group)))
           /\ Len(fetDec'.new) = Len(group)
           /\ OpId \subseteq OpId'
<1> DEFINE R == [code : Opcodes, onPath : BOOLEAN]
           new == [k \in 1..Len(group) |->
                     [code |-> group[k],
                      onPath |-> ~offPath /\ ~Diverts(group, k - 1)]]
           ids == [k \in 1..Len(group) |-> Len(stream) + k]
<1>1. stream \in Seq(R) /\ Len(stream) \in Nat
  BY LenProperties DEF TypeOK
<1>2. new \in Seq(R) /\ Len(new) = Len(group)
  <2>1. new \in [1..Len(group) -> R]
    BY GroupType
  <2> QED BY <2>1, GroupType, SeqDef, LenProperties
<1>3. stream' = stream \o new /\ fetDec'.new = ids
  BY DEF Fetch, TypeOK
<1>4. /\ ids \in Seq(1..(Len(stream) + Len(group)))
      /\ Len(ids) = Len(group)
  <2>1. ids \in [1..Len(group) -> 1..(Len(stream) + Len(group))]
    BY <1>1, GroupType
  <2> QED BY <2>1, GroupType, SeqDef, LenProperties
<1>6. ids \in Seq(1..(Len(stream) + Len(group))) /\ Len(ids) = Len(group)
  BY <1>4
<1> HIDE DEF new, ids, R
<1>5. /\ stream' \in Seq(R)
      /\ Len(stream') = Len(stream) + Len(group)
      /\ \A i \in OpId : stream'[i] = stream[i]
  <2>1. /\ stream \o new \in Seq(R)
        /\ Len(stream \o new) = Len(stream) + Len(new)
        /\ \A i \in 1..(Len(stream) + Len(new)) :
             (stream \o new)[i] = IF i <= Len(stream) THEN stream[i]
                                  ELSE new[i - Len(stream)]
    BY <1>1, <1>2, ConcatProperties
  <2>2. \A i \in OpId : i <= Len(stream) /\ i \in 1..(Len(stream) + Len(new))
    BY <1>1, <1>2, GroupType DEF OpId
  <2> QED BY <1>2, <1>3, <2>1, <2>2
<1>7. fetDec'.new \in Seq(1..(Len(stream) + Len(group)))
  BY <1>3, <1>6
<1>8. Len(fetDec'.new) = Len(group)
  BY <1>3, <1>6
<1>9. OpId \subseteq OpId'
  <2>1. OpId' = 1..Len(stream')
    BY DEF OpId
  <2> QED BY <1>1, <1>5, <2>1, GroupType DEF OpId
<1> QED BY <1>5, <1>7, <1>8, <1>9 DEF R

LEMMA FetchType ==
    ASSUME TypeOK, NEW group \in Groups, Fetch(group)
    PROVE  TypeOK'
<1>1. OpId \subseteq OpId' /\ OpId' = 1..(Len(stream) + Len(group))
  BY FetchedGroup DEF OpId
<1>2. Entry \subseteq Entry' /\ ReadEntry \subseteq ReadEntry'
  BY <1>1 DEF Entry, ReadEntry
<1>3. \A s \in Seq(OpId) : s \in Seq(OpId')
  BY <1>1, SeqMonotonic
<1>4. fetDec' \in [old : Seq(OpId'), new : Seq(OpId')]
  <2>1. fetDec'.new \in Seq(OpId')
    BY <1>1, FetchedGroup
  <2> QED BY <1>3, <2>1 DEF Fetch, TypeOK
<1>5. instBuffer' \in Seq(OpId')
  BY <1>3 DEF Fetch, TypeOK
<1>6. /\ decRd' \in [Pipes -> [old : Seq(OpId'), new : Seq(OpId')]]
      /\ rdStation' \in [Pipes -> Seq(OpId')]
      /\ exStation' \in [Pipes -> Seq(OpId')]
  BY <1>3 DEF Fetch, TypeOK, lanes
<1>7. rdEx' \in [Pipes -> [old : ReadEntry', new : ReadEntry']]
  BY <1>2 DEF Fetch, TypeOK, lanes
<1>8. exWb' \in [Pipes -> [old : Entry', new : Entry']]
  BY <1>2 DEF Fetch, TypeOK, lanes
<1>9. /\ regs' \in [Regs -> Entry'] /\ regsNew' \in [Regs -> Entry']
      /\ mispredicted' \in Entry' /\ retired' \subseteq OpId'
  BY <1>1, <1>2 DEF Fetch, TypeOK, regfile
<1>10. offPath' \in BOOLEAN
  BY DEF Fetch, TypeOK, Diverts
<1>11. stream' \in Seq([code : Opcodes, onPath : BOOLEAN])
  BY FetchedGroup
<1> QED BY <1>4, <1>5, <1>6, <1>7, <1>8, <1>9, <1>10, <1>11
        DEF Fetch, TypeOK, Phases, lanes, busy, stall

LEMMA RecoverType == TypeOK /\ Recover => TypeOK'
<1> SUFFICES ASSUME TypeOK, Recover PROVE TypeOK'
  OBVIOUS
<1>1. OpId' = OpId /\ Entry' = Entry /\ ReadEntry' = ReadEntry
  BY DEF Recover, history, OpId, Entry, ReadEntry
<1>2. EmptyRead \in ReadEntry
  BY DEF EmptyRead, ReadEntry, NoValues, Entry
<1>3. /\ fetDec' \in [old : Seq(OpId), new : Seq(OpId)]
      /\ instBuffer' \in Seq(OpId)
      /\ decRd' \in [Pipes -> [old : Seq(OpId), new : Seq(OpId)]]
      /\ rdStation' \in [Pipes -> Seq(OpId)]
      /\ rdEx' \in [Pipes -> [old : ReadEntry, new : ReadEntry]]
  BY <1>2 DEF Recover, Flush
<1>4. offPath' \in BOOLEAN
  BY OpcodeType DEF Recover, TypeOK, Entry
<1>5. mispredicted' \in Entry /\ destTable' \subseteq Regs
  BY DEF Recover, Entry
<1> QED BY <1>1, <1>3, <1>4, <1>5
        DEF Recover, Flush, TypeOK, Phases, history, regfile

LEMMA UpdateType == TypeOK /\ Update => TypeOK'
<1> SUFFICES ASSUME TypeOK, Update PROVE TypeOK'
  OBVIOUS
<1>1. OpId' = OpId /\ Entry' = Entry /\ ReadEntry' = ReadEntry
  BY DEF Update, history, OpId, Entry, ReadEntry
<1>2. EmptyRead \in ReadEntry /\ NoValues \in [Regs -> Entry] /\ 0 \in Entry
  BY DEF EmptyRead, ReadEntry, NoValues, Entry
<1>3. regs' \in [Regs -> Entry] /\ regsNew' \in [Regs -> Entry]
  BY <1>2 DEF Update, TypeOK, Committed
<1>4. exWb' \in [Pipes -> [old : Entry, new : Entry]]
  BY <1>2 DEF Update, TypeOK
<1>5. rdEx' \in [Pipes -> [old : ReadEntry, new : ReadEntry]]
  BY <1>2 DEF Update, TypeOK
<1>6. decRd' \in [Pipes -> [old : Seq(OpId), new : Seq(OpId)]]
  <2>1. \A p \in Pipes : decRd[p].old \o decRd[p].new \in Seq(OpId)
    BY ConcatProperties DEF TypeOK
  <2> QED BY <2>1 DEF Update, TypeOK
<1>7. fetDec' \in [old : Seq(OpId), new : Seq(OpId)]
  BY DEF Update, TypeOK
<1>8. /\ stallFetch' \in BOOLEAN /\ stallDecode' \in BOOLEAN
      /\ stallRead' \subseteq Pipes
  BY DEF Update, TypeOK, StallsFetch, StallsDecode
<1> QED BY <1>1, <1>3, <1>4, <1>5, <1>6, <1>7, <1>8
        DEF Update, TypeOK, Phases, history, busy

LEMMA StalledType == TypeOK /\ (DecodeStalled \/ FetchStalled) => TypeOK'
<1> SUFFICES ASSUME TypeOK, DecodeStalled \/ FetchStalled PROVE TypeOK'
  OBVIOUS
<1>1. OpId' = OpId /\ Entry' = Entry /\ ReadEntry' = ReadEntry
  BY DEF DecodeStalled, FetchStalled, history, OpId, Entry, ReadEntry
<1> QED BY <1>1 DEF DecodeStalled, FetchStalled, TypeOK, Phases, history,
              front, lanes, regfile, busy, stall

LEMMA StutterType == TypeOK /\ UNCHANGED vars => TypeOK'
<1> SUFFICES ASSUME TypeOK, UNCHANGED vars PROVE TypeOK'
  OBVIOUS
<1>1. OpId' = OpId /\ Entry' = Entry /\ ReadEntry' = ReadEntry
  BY DEF vars, history, OpId, Entry, ReadEntry
<1> QED BY <1>1 DEF vars, TypeOK, history, front, lanes, regfile, busy, stall

LEMMA NextType == TypeOK /\ [Next]_vars => TypeOK'
<1> SUFFICES ASSUME TypeOK, [Next]_vars PROVE TypeOK'
  OBVIOUS
<1>1. CASE Preprocess
  BY <1>1, PreprocessType
<1>2. CASE WriteBack
  BY <1>2, WriteBackType
<1>3. CASE \E keep \in Keeps : Execute(keep)
  BY <1>3, ExecuteType
<1>4. CASE OpRead
  BY <1>4, OpReadType
<1>5. CASE \E lane \in Lanes : Decode(lane)
  BY <1>5, DecodeType
<1>6. CASE DecodeStalled \/ FetchStalled
  BY <1>6, StalledType
<1>7. CASE \E group \in Groups : Fetch(group)
  BY <1>7, FetchType
<1>8. CASE Recover
  BY <1>8, RecoverType
<1>9. CASE Update
  BY <1>9, UpdateType
<1>10. CASE EndOfSimulation \/ UNCHANGED vars
  BY <1>10, StutterType DEF EndOfSimulation
<1> QED BY <1>1, <1>2, <1>3, <1>4, <1>5, <1>6, <1>7, <1>8, <1>9, <1>10
        DEF Next

\* Type correctness, for every machine and every program.
THEOREM TypeCorrect == Spec => []TypeOK
BY InitType, NextType, PTL DEF Spec

-----------------------------------------------------------------------------
(***************************************************************************)
(* No buffer, station or latch of Pipeline outgrows its place, for every   *)
(* machine the assumptions admit: BufferInv is inductive.                  *)
(***************************************************************************)
(* DECODE's buffer *)

LEMMA DecodeRoomInit == Init => DecodeRoom
BY SizesAssumption DEF Init, DecodeRoom

LEMMA DecodeRoomNext == TypeOK /\ DecodeRoom /\ [Next]_vars => DecodeRoom'
<1> SUFFICES ASSUME TypeOK, DecodeRoom, [Next]_vars PROVE DecodeRoom'
  OBVIOUS
<1>0. /\ Len(instBuffer) \in Nat /\ Len(fetDec.old) \in Nat
      /\ Len(fetDec.new) \in Nat
      /\ NumInstFetch \in Nat /\ InstBufSize \in Nat
      /\ InstBufSize >= NumInstFetch
  BY LenProperties, SizesAssumption DEF TypeOK
<1>1. CASE Preprocess
  <2>1. ~busyDecode' => ~DecodeBusy
    BY <1>1 DEF Preprocess
  <2>2. ~DecodeBusy =>
          Len(instBuffer) + Len(fetDec.old) + NumInstFetch <= InstBufSize
    BY <1>0 DEF DecodeBusy
  <2> QED BY <1>1, <2>1, <2>2 DEF Preprocess, DecodeRoom, front
<1>2. CASE WriteBack
  BY <1>2 DEF WriteBack, DecodeRoom, front, busy
<1>3. CASE \E keep \in Keeps : Execute(keep)
  BY <1>3 DEF Execute, DecodeRoom, front, busy
<1>4. CASE OpRead
  BY <1>4 DEF OpRead, DecodeRoom, front, busy
<1>5. ASSUME NEW lane \in Lanes, Decode(lane)
      PROVE  DecodeRoom'
  <2>1. Len(instBuffer') <= Len(Buffered) /\ Len(instBuffer') \in Nat
    BY <1>5, BufferedType, LaneType, SubSeqProperties DEF Decode
  <2>2. fetDec'.old = <<>> /\ fetDec'.new = fetDec.new
    BY <1>5 DEF Decode, TypeOK
  <2>3. Len(Buffered) = Len(instBuffer) + Len(fetDec.old)
    BY BufferedType
  <2> QED BY <1>0, <1>5, <2>1, <2>2, <2>3 DEF Decode, DecodeRoom, busy
<1>6. CASE DecodeStalled \/ FetchStalled
  BY <1>6 DEF DecodeStalled, FetchStalled, DecodeRoom, front, busy
<1>7. ASSUME NEW group \in Groups, Fetch(group)
      PROVE  DecodeRoom'
  <2>1. Len(fetDec'.new) <= NumInstFetch
    BY <1>7, FetchedGroup, GroupType
  <2>2. fetDec'.old = fetDec.old
    BY <1>7 DEF Fetch, TypeOK
  <2> QED BY <1>7, <2>1, <2>2 DEF Fetch, DecodeRoom, busy
<1>8. CASE Recover
  BY <1>0, <1>8 DEF Recover, Flush, DecodeRoom
<1>9. CASE Update
  <2>1. fetDec' = fetDec \/ (~busyDecode /\ fetDec' = [old |-> fetDec.new, new |-> <<>>])
    BY <1>9 DEF Update, StallsFetch
  <2>2. instBuffer' = instBuffer /\ phase = "update" /\ phase' = "preprocess"
    BY <1>9 DEF Update
  <2>3. CASE fetDec' = fetDec
    BY <2>2, <2>3 DEF DecodeRoom
  <2>4. CASE ~busyDecode /\ fetDec' = [old |-> fetDec.new, new |-> <<>>]
    <3>1. Len(fetDec'.old) = Len(fetDec.new) /\ Len(fetDec'.new) = 0
      BY <2>4
    <3> QED BY <1>0, <2>2, <2>4, <3>1 DEF DecodeRoom
  <2> QED BY <2>1, <2>3, <2>4
<1>10. CASE EndOfSimulation \/ UNCHANGED vars
  BY <1>10 DEF EndOfSimulation, vars, DecodeRoom, front, busy
<1> QED BY <1>1, <1>2, <1>3, <1>4, <1>5, <1>6, <1>7, <1>8, <1>9, <1>10
        DEF Next

\* DECODE's buffer never overflows, the assertion of DecodeUnit::doStep.
THEOREM BufferNeverOverflows == Spec => []NoInstBufferOverflow
<1>1. TypeOK /\ DecodeRoom => NoInstBufferOverflow
  BY BufferedType DEF DecodeRoom, NoInstBufferOverflow
<1>2. TypeOK /\ DecodeRoom /\ [Next]_vars => TypeOK' /\ DecodeRoom'
  BY NextType, DecodeRoomNext
<1> QED BY <1>1, <1>2, InitType, DecodeRoomInit, PTL DEF Spec

-----------------------------------------------------------------------------
(* The latches *)

LatchInv == LatchDiscipline /\ LanesFit

LEMMA LatchInit == Init => LatchInv
<1> SUFFICES ASSUME Init PROVE LatchInv
  OBVIOUS
<1>1. LatchDiscipline
  BY DEF Init, LatchDiscipline
<1>2. LanesFit
  BY DEF Init, LanesFit, Elements, EmptyRead
<1> QED BY <1>1, <1>2 DEF LatchInv

\* READ has at most the operation of its latch to pass on.
LEMMA WaitingFits ==
    ASSUME TypeOK, LatchInv, NEW p \in Pipes
    PROVE  /\ rdStation[p] = <<>> /\ Waiting(p) = decRd[p].old
           /\ Waiting(p) # <<>> =>
                Tail(Waiting(p)) = <<>> /\ p \in Code(Head(Waiting(p))).pipes
<1>1. rdStation[p] = <<>> /\ decRd[p].old \in Seq(OpId)
  BY DEF LatchInv, LatchDiscipline, TypeOK
<1>2. Waiting(p) = decRd[p].old
  BY <1>1, ConcatEmptySeq DEF Waiting
<1>3. ASSUME Waiting(p) # <<>>
      PROVE  Tail(Waiting(p)) = <<>> /\ p \in Code(Head(Waiting(p))).pipes
  <2>1. Len(decRd[p].old) = 1
    <3>1. Len(decRd[p].old) \in Nat \ {0}
      BY <1>1, <1>2, <1>3, EmptySeq
    <3>2. Len(decRd[p].old) <= 1
      BY DEF LatchInv, LanesFit
    <3>3. \A n \in Nat \ {0} : n <= 1 => n = 1
      OBVIOUS
    <3> QED BY <3>1, <3>2, <3>3, Zenon
  <2>2. Len(Tail(decRd[p].old)) = 0 /\ Tail(decRd[p].old) \in Seq(OpId)
    BY <1>1, <2>1, <1>2, <1>3, HeadTailProperties
  <2>3. decRd[p].old[1] \in Elements(decRd[p].old)
    BY <2>1 DEF Elements
  <2>4. Tail(decRd[p].old) = <<>>
    BY <2>2, EmptySeq
  <2>5. p \in Code(Head(decRd[p].old)).pipes
    <3>1. \A i \in Elements(decRd[p].old) : p \in Code(i).pipes
      BY DEF LatchInv, LanesFit
    <3>2. Head(decRd[p].old) = decRd[p].old[1]
      BY <1>1, <2>1
    <3> QED BY <2>3, <3>1, <3>2
  <2> QED BY <1>2, <2>4, <2>5
<1> QED BY <1>1, <1>2, <1>3

LEMMA LatchQuiet ==
    ASSUME LatchInv,
           UNCHANGED <<fetDec, decRd, rdStation, rdEx, stall, stream>>,
           \/ UNCHANGED phase
           \/ phase \in {"preprocess", "writeback"}
                /\ phase' \in {"writeback", "execute"}
           \/ phase = "decode" /\ phase' = "fetch" /\ stallDecode
           \/ phase = "fetch" /\ phase' = "update" /\ stallFetch
    PROVE  LatchInv'
<1>1. LatchDiscipline'
  BY DEF LatchInv, LatchDiscipline, stall
<1>2. LanesFit'
  BY DEF LatchInv, LanesFit, Code
<1> QED BY <1>1, <1>2 DEF LatchInv

LEMMA LatchExecute ==
    ASSUME TypeOK, LatchInv, NEW keep \in Keeps, Execute(keep)
    PROVE  LatchInv'
<1>1. \A p \in Pipes : rdEx'[p].old = EmptyRead /\ rdEx'[p].new = rdEx[p].new
  BY DEF Execute, TypeOK
<1>2. EmptyRead' = EmptyRead /\ EmptyRead.op = 0
  BY DEF EmptyRead
<1>3. LatchDiscipline'
  BY <1>1, <1>2 DEF Execute, LatchInv, LatchDiscipline, front, stall
<1>4. LanesFit'
  <2>1. decRd' = decRd /\ \A i : Code(i)' = Code(i)
    BY DEF Execute, Code
  <2>2. \A p \in Pipes :
          {rdEx'[p].old.op, rdEx'[p].new.op} \ {0}
             \subseteq {rdEx[p].old.op, rdEx[p].new.op} \ {0}
    <3>1. \A p \in Pipes : rdEx'[p].old.op = 0 /\ rdEx'[p].new = rdEx[p].new
      BY <1>1, <1>2
    <3> QED BY <3>1
  <2> QED BY <2>1, <2>2 DEF LatchInv, LanesFit
<1> QED BY <1>3, <1>4 DEF LatchInv

LEMMA LatchOpRead == TypeOK /\ LatchInv /\ OpRead => LatchInv'
<1> SUFFICES ASSUME TypeOK, LatchInv, OpRead PROVE LatchInv'
  OBVIOUS
<1>0. EmptyRead' = EmptyRead /\ EmptyRead.op = 0
  BY DEF EmptyRead
<1>1. ASSUME NEW p \in Pipes, p \in stallRead
      PROVE  /\ rdEx'[p] = rdEx[p] /\ rdStation'[p] = <<>>
             /\ decRd'[p] = decRd[p] /\ decRd[p].old = <<>>
  BY <1>1, WaitingFits DEF OpRead, LatchInv, LatchDiscipline
<1>2. ASSUME NEW p \in Pipes, p \notin stallRead
      PROVE  /\ rdEx'[p].old = rdEx[p].old /\ rdStation'[p] = <<>>
             /\ decRd'[p].old = <<>> /\ decRd'[p].new = decRd[p].new
             /\ rdEx'[p].new.op # 0 => p \in Code(rdEx'[p].new.op).pipes
  <2>1. rdStation'[p] = <<>>
    BY <1>2, WaitingFits DEF OpRead
  <2>2. decRd'[p].old = <<>> /\ decRd'[p].new = decRd[p].new
    BY <1>2 DEF OpRead, TypeOK
  <2>3. rdEx'[p].old = rdEx[p].old
    BY <1>2 DEF OpRead, TypeOK
  <2>4. rdEx'[p].new.op = IF Waiting(p) = <<>> THEN 0 ELSE Head(Waiting(p))
    BY <1>0, <1>2 DEF OpRead, TypeOK
  <2> QED BY <2>1, <2>2, <2>3, <2>4, WaitingFits
<1>3. LatchDiscipline'
  <2>1. fetDec' = fetDec /\ stall' = stall /\ phase = "opread" /\ phase' = "decode"
    BY DEF OpRead, front
  <2>2. ASSUME NEW p \in Pipes
        PROVE  /\ decRd'[p].new = decRd[p].new /\ decRd'[p].old = <<>>
               /\ rdEx'[p].old = EmptyRead /\ rdStation'[p] = <<>>
    BY <1>1, <1>2 DEF OpRead, LatchInv, LatchDiscipline
  <2> QED BY <1>0, <2>1, <2>2 DEF LatchInv, LatchDiscipline, stall
<1>4. LanesFit'
  <2>1. \A i : Code(i)' = Code(i)
    BY DEF OpRead, Code, history
  <2>2. ASSUME NEW p \in Pipes
        PROVE  /\ Len(decRd'[p].old) <= 1 /\ Len(decRd'[p].new) <= 1
               /\ decRd'[p].new = decRd[p].new /\ Elements(decRd'[p].old) = {}
    <3>1. decRd'[p].old = <<>> /\ decRd'[p].new = decRd[p].new
      <4>1. CASE p \in stallRead
        BY <1>1, <4>1
      <4>2. CASE p \notin stallRead
        BY <1>2, <4>2
      <4> QED BY <4>1, <4>2
    <3>2. Elements(<<>>) = {} /\ Len(<<>>) = 0
      BY DEF Elements
    <3> QED BY <3>1, <3>2 DEF LatchInv, LanesFit
  <2>3. ASSUME NEW p \in Pipes
        PROVE  \A i \in {rdEx'[p].old.op, rdEx'[p].new.op} \ {0} :
                 p \in Code(i).pipes
    BY <1>1, <1>2 DEF LatchInv, LanesFit
  <2>4. ASSUME NEW p \in Pipes
        PROVE  \A i \in Elements(decRd'[p].old) \cup Elements(decRd'[p].new) :
                 p \in Code(i).pipes
    BY <2>2 DEF LatchInv, LanesFit
  <2>5. \A p \in Pipes : /\ Elements(decRd[p].old)' = Elements(decRd'[p].old)
                        /\ Elements(decRd[p].new)' = Elements(decRd'[p].new)
    BY DEF Elements
  <2> QED BY <2>1, <2>2, <2>3, <2>4, <2>5 DEF LanesFit
<1> QED BY <1>3, <1>4 DEF LatchInv

LEMMA LatchDecode ==
    ASSUME TypeOK, LatchInv, NEW lane \in Lanes, Decode(lane)
    PROVE  LatchInv'
<1> DEFINE turn(p) == CHOOSE k \in 1..Len(lane) : lane[k] = p
<1>0. rdEx' = rdEx /\ rdStation' = rdStation /\ stall' = stall /\ stream' = stream
      /\ phase = "decode" /\ phase' = "fetch" /\ ~stallDecode
  BY DEF Decode, history
<1>1. fetDec'.old = <<>> /\ fetDec'.new = fetDec.new
  BY DEF Decode, TypeOK
<1>2. ASSUME NEW p \in Pipes, \E k \in 1..Len(lane) : lane[k] = p
      PROVE  /\ decRd'[p].old = decRd[p].old
             /\ decRd'[p].new = <<Buffered[turn(p)]>>
             /\ p \in Code(Buffered[turn(p)]).pipes
  <2>1. turn(p) \in 1..Len(lane) /\ lane[turn(p)] = p
    BY <1>2
  <2>2. decRd'[p] = [decRd[p] EXCEPT !.new = Append(@, Buffered[turn(p)])]
    BY <1>2 DEF Decode
  <2>3. decRd[p].new = <<>> /\ decRd[p] \in [old : Seq(OpId), new : Seq(OpId)]
    BY <1>0 DEF LatchInv, LatchDiscipline, TypeOK
  <2>4. \A k \in 1..Len(lane) : lane[k] \in Code(Buffered[k]).pipes
    BY DEF Decode, IssueGroup, Issuable
  <2>5. Append(<<>>, Buffered[turn(p)]) = <<Buffered[turn(p)]>>
    OBVIOUS
  <2> QED BY <2>1, <2>2, <2>3, <2>4, <2>5
<1>3. ASSUME NEW p \in Pipes, ~(\E k \in 1..Len(lane) : lane[k] = p)
      PROVE  decRd'[p] = decRd[p]
  BY <1>3 DEF Decode
<1> HIDE DEF turn
<1>4. LatchDiscipline'
  <2>1. \A p \in Pipes : decRd'[p].old = decRd[p].old
    BY <1>2, <1>3
  <2>2. EmptyRead' = EmptyRead
    BY DEF EmptyRead, NoValues
  <2> QED BY <1>0, <1>1, <2>1, <2>2 DEF LatchInv, LatchDiscipline, stall
<1>5. LanesFit'
  <2>1. \A i : Code(i)' = Code(i)
    BY <1>0 DEF Code
  <2>2. ASSUME NEW x
        PROVE  Elements(<<x>>) = {x} /\ Len(<<x>>) = 1
    BY DEF Elements
  <2>3. ASSUME NEW p \in Pipes
        PROVE  /\ Len(decRd'[p].old) <= 1 /\ Len(decRd'[p].new) <= 1
               /\ \A i \in Elements(decRd'[p].old) \cup Elements(decRd'[p].new) :
                    p \in Code(i).pipes
    <3>1. CASE \E k \in 1..Len(lane) : lane[k] = p
      <4>1. /\ decRd'[p].old = decRd[p].old
            /\ decRd'[p].new = <<Buffered[turn(p)]>>
            /\ p \in Code(Buffered[turn(p)]).pipes
        BY <1>2, <3>1
      <4>2. /\ Len(decRd[p].old) <= 1
            /\ \A i \in Elements(decRd[p].old) : p \in Code(i).pipes
        BY DEF LatchInv, LanesFit
      <4>3. Elements(decRd'[p].new) = {Buffered[turn(p)]} /\ Len(decRd'[p].new) <= 1
        BY <2>2, <4>1
      <4> QED BY <4>1, <4>2, <4>3
    <3>2. CASE ~(\E k \in 1..Len(lane) : lane[k] = p)
      BY <1>3, <3>2 DEF LatchInv, LanesFit
    <3> QED BY <3>1, <3>2
  <2>4. \A p \in Pipes : /\ Elements(decRd[p].old)' = Elements(decRd'[p].old)
                        /\ Elements(decRd[p].new)' = Elements(decRd'[p].new)
    BY DEF Elements
  <2> QED BY <1>0, <2>1, <2>3, <2>4 DEF LatchInv, LanesFit
<1> QED BY <1>4, <1>5 DEF LatchInv

LEMMA LatchFetch ==
    ASSUME TypeOK, LatchInv, NEW group \in Groups, Fetch(group)
    PROVE  LatchInv'
<1>0. /\ decRd' = decRd /\ rdEx' = rdEx /\ rdStation' = rdStation
      /\ stall' = stall /\ phase = "fetch" /\ phase' = "update" /\ ~stallFetch
      /\ fetDec'.old = fetDec.old
  BY DEF Fetch, lanes, TypeOK
<1>1. EmptyRead' = EmptyRead
  BY DEF EmptyRead, NoValues
<1>2. LatchDiscipline'
  BY <1>0, <1>1 DEF LatchInv, LatchDiscipline, stall
<1>3. \A i \in OpId : Code(i)' = Code(i)
  BY FetchedGroup DEF Code
<1>4. ASSUME NEW p \in Pipes
      PROVE  /\ Elements(decRd[p].old) \cup Elements(decRd[p].new) \subseteq OpId
             /\ {rdEx[p].old.op, rdEx[p].new.op} \ {0} \subseteq OpId
  <2>1. \A s \in Seq(OpId) : Elements(s) \subseteq OpId
    BY ElementOfSeq DEF Elements
  <2>2. decRd[p].old \in Seq(OpId) /\ decRd[p].new \in Seq(OpId)
    BY DEF TypeOK
  <2>3. rdEx[p].old.op \in OpId \cup {0} /\ rdEx[p].new.op \in OpId \cup {0}
    BY DEF TypeOK, ReadEntry, Entry
  <2> QED BY <2>1, <2>2, <2>3
<1>5. \A p \in Pipes : /\ Elements(decRd[p].old)' = Elements(decRd[p].old)
                      /\ Elements(decRd[p].new)' = Elements(decRd[p].new)
  BY <1>0 DEF Elements
<1>6. LanesFit'
  BY <1>0, <1>3, <1>4, <1>5 DEF LatchInv, LanesFit
<1> QED BY <1>2, <1>6 DEF LatchInv

LEMMA LatchRecover == LatchInv /\ Recover => LatchInv'
<1> SUFFICES ASSUME LatchInv, Recover PROVE LatchInv'
  OBVIOUS
<1>1. /\ fetDec'.old = <<>> /\ fetDec'.new = <<>>
      /\ phase = "update" /\ phase' = "update"
  BY DEF Recover, Flush
<1>2. ASSUME NEW p \in Pipes
      PROVE  /\ decRd'[p].old = <<>> /\ decRd'[p].new = <<>>
             /\ rdStation'[p] = <<>>
             /\ rdEx'[p].old = EmptyRead /\ rdEx'[p].new = EmptyRead
  BY DEF Recover, Flush
<1>3. EmptyRead' = EmptyRead /\ EmptyRead.op = 0
  BY DEF EmptyRead, NoValues
<1>4. LatchDiscipline'
  BY <1>1, <1>2, <1>3 DEF LatchDiscipline
<1>5. LanesFit'
  <2>1. Elements(<<>>) = {} /\ Len(<<>>) = 0
    BY DEF Elements
  <2>2. \A p \in Pipes : /\ Elements(decRd[p].old)' = Elements(decRd'[p].old)
                        /\ Elements(decRd[p].new)' = Elements(decRd'[p].new)
    BY DEF Elements
  <2>3. \A p \in Pipes : rdEx'[p].old.op = 0 /\ rdEx'[p].new.op = 0
    BY <1>2, <1>3
  <2> QED BY <1>2, <2>1, <2>2, <2>3 DEF LanesFit
<1> QED BY <1>4, <1>5 DEF LatchInv

LEMMA LatchUpdate == TypeOK /\ LatchInv /\ Update => LatchInv'
<1> SUFFICES ASSUME TypeOK, LatchInv, Update PROVE LatchInv'
  OBVIOUS
<1>0. /\ phase = "update" /\ phase' = "preprocess"
      /\ rdStation' = rdStation /\ stream' = stream
  BY DEF Update, history
<1>1. EmptyRead' = EmptyRead /\ EmptyRead.op = 0
  BY DEF EmptyRead, NoValues
<1>2. /\ \A p \in stallRead' : stallDecode'
      /\ stallDecode' => stallFetch'
  BY DEF Update, StallsDecode, StallsFetch
<1>3. IF stallFetch' THEN fetDec' = fetDec ELSE fetDec'.new = <<>>
  BY DEF Update
<1>4. ASSUME NEW p \in Pipes
      PROVE  /\ stallDecode' => decRd'[p] = decRd[p]
             /\ ~stallDecode' => /\ decRd'[p].old = decRd[p].new
                                 /\ decRd'[p].new = <<>>
  <2>1. stallDecode' => decRd'[p] = decRd[p]
    BY DEF Update
  <2>2. decRd[p].old = <<>> /\ decRd[p].new \in Seq(OpId)
    BY <1>0 DEF LatchInv, LatchDiscipline, TypeOK
  <2>3. decRd[p].old \o decRd[p].new = decRd[p].new
    BY <2>2, ConcatEmptySeq
  <2>4. ~stallDecode' => /\ decRd'[p].old = decRd[p].old \o decRd[p].new
                         /\ decRd'[p].new = <<>>
    BY DEF Update
  <2> QED BY <2>1, <2>3, <2>4
<1>5. ASSUME NEW p \in Pipes
      PROVE  /\ p \in stallRead' => rdEx'[p] = rdEx[p]
             /\ p \notin stallRead' => /\ rdEx'[p].old = rdEx[p].new
                                      /\ rdEx'[p].new = EmptyRead
  BY DEF Update
<1>6. LatchDiscipline'
  BY <1>0, <1>1, <1>2, <1>3, <1>4, <1>5 DEF LatchInv, LatchDiscipline
<1>7. LanesFit'
  <2>1. Elements(<<>>) = {} /\ Len(<<>>) = 0
    BY DEF Elements
  <2>2. \A p \in Pipes : /\ Elements(decRd[p].old)' = Elements(decRd'[p].old)
                        /\ Elements(decRd[p].new)' = Elements(decRd'[p].new)
    BY DEF Elements
  <2>3. \A i : Code(i)' = Code(i)
    BY <1>0 DEF Code
  <2>4. ASSUME NEW p \in Pipes
        PROVE  /\ Len(decRd'[p].old) <= 1 /\ Len(decRd'[p].new) <= 1
               /\ \A i \in Elements(decRd'[p].old) \cup Elements(decRd'[p].new) :
                    p \in Code(i).pipes
    BY <1>4, <2>1 DEF LatchInv, LanesFit
  <2>5. ASSUME NEW p \in Pipes
        PROVE  \A i \in {rdEx'[p].old.op, rdEx'[p].new.op} \ {0} :
                 p \in Code(i).pipes
    BY <1>1, <1>5 DEF LatchInv, LanesFit
  <2> QED BY <2>2, <2>3, <2>4, <2>5 DEF LanesFit
<1> QED BY <1>6, <1>7 DEF LatchInv

LEMMA LatchNext == TypeOK /\ LatchInv /\ [Next]_vars => LatchInv'
<1> SUFFICES ASSUME TypeOK, LatchInv, [Next]_vars PROVE LatchInv'
  OBVIOUS
<1>1. CASE Preprocess
  BY <1>1, LatchQuiet DEF Preprocess, front, lanes, history
<1>2. CASE WriteBack
  BY <1>2, LatchQuiet DEF WriteBack, front
<1>3. CASE \E keep \in Keeps : Execute(keep)
  BY <1>3, LatchExecute
<1>4. CASE OpRead
  BY <1>4, LatchOpRead
<1>5. CASE \E lane \in Lanes : Decode(lane)
  BY <1>5, LatchDecode
<1>6. CASE DecodeStalled
  BY <1>6, LatchQuiet DEF DecodeStalled, front, lanes, history
<1>7. CASE FetchStalled
  BY <1>7, LatchQuiet DEF FetchStalled, front, lanes, history
<1>8. CASE \E group \in Groups : Fetch(group)
  BY <1>8, LatchFetch
<1>9. CASE Recover
  BY <1>9, LatchRecover
<1>10. CASE Update
  BY <1>10, LatchUpdate
<1>11. CASE EndOfSimulation \/ UNCHANGED vars
  BY <1>11, LatchQuiet DEF EndOfSimulation, vars, front, lanes, history
<1> QED BY <1>1, <1>2, <1>3, <1>4, <1>5, <1>6, <1>7, <1>8, <1>9, <1>10, <1>11
        DEF Next

\* No latch is overwritten, or appended to, before its reader emptied it.
THEOREM LatchesDisciplined == Spec => []LatchDiscipline
<1>1. TypeOK /\ LatchInv /\ [Next]_vars => TypeOK' /\ LatchInv'
  BY NextType, LatchNext
<1>2. LatchInv => LatchDiscipline
  BY DEF LatchInv
<1> QED BY <1>1, <1>2, InitType, LatchInit, PTL DEF Spec

-----------------------------------------------------------------------------
(* The stations of the EX units *)

RoomInv == StationsBounded /\ \A p \in Pipes : StationRoom(p)

LEMMA RoomInit == Init => RoomInv
<1> SUFFICES ASSUME Init PROVE RoomInv
  OBVIOUS
<1>1. \A p \in Pipes : Len(exStation[p]) = 0 /\ rdEx[p].old.op = 0
  BY DEF Init, EmptyRead
<1>2. StationsBounded
  BY <1>1, SizesAssumption DEF StationsBounded
<1>3. \A p \in Pipes : StationRoom(p)
  BY <1>1 DEF StationRoom, Init
<1> QED BY <1>2, <1>3 DEF RoomInv

LEMMA RoomQuiet ==
    ASSUME RoomInv, UNCHANGED <<exStation, busyEx, stream, rdEx>>,
           \/ UNCHANGED phase
           \/ phase = "writeback" /\ phase' = "execute"
           \/ phase = "decode" /\ phase' = "fetch"
           \/ phase = "fetch" /\ phase' = "update"
    PROVE  RoomInv'
<1>1. StationsBounded'
  BY DEF RoomInv, StationsBounded
<1>2. \A p \in Pipes : StationRoom(p)'
  BY DEF RoomInv, StationRoom, Reserved, ClassOf, Code
<1> QED BY <1>1, <1>2 DEF RoomInv

LEMMA RoomPreprocess == TypeOK /\ RoomInv /\ Preprocess => RoomInv'
<1> SUFFICES ASSUME TypeOK, RoomInv, Preprocess PROVE RoomInv'
  OBVIOUS
<1>1. /\ exStation' = exStation /\ rdEx' = rdEx /\ stream' = stream
      /\ phase' = "writeback" /\ busyEx' = {p \in Pipes : ExBusy(p)}
  BY DEF Preprocess, lanes, history
<1>2. StationsBounded'
  BY <1>1 DEF RoomInv, StationsBounded
<1>3. ASSUME NEW p \in Pipes
      PROVE  StationRoom(p)'
  <2>1. Reserved(rdEx[p].old.op)' = Reserved(rdEx[p].old.op)
    BY <1>1 DEF Reserved, ClassOf, Code
  <2>2. Reserved(rdEx[p].old.op) \in Nat /\ Len(exStation[p]) \in Nat
    BY LenProperties DEF Reserved, TypeOK
  <2>3. p \notin busyEx' =>
          Len(exStation[p]) + Reserved(rdEx[p].old.op) <= ResStationSize
    BY <1>1, <2>2, SizesAssumption DEF ExBusy
  <2> QED BY <1>1, <2>1, <2>3 DEF RoomInv, StationRoom
<1> QED BY <1>2, <1>3 DEF RoomInv

\* A NOP in a lane shows that the lane takes NOPs.
LEMMA NopsStayInTheirLanes ==
    ASSUME TypeOK, LatchInv, NEW p \in Pipes, rdEx[p].old.op # 0,
           ClassOf(rdEx[p].old.op) = "nop"
    PROVE  p \in NopLanes
<1>1. rdEx[p].old.op \in OpId
  BY DEF TypeOK, ReadEntry, Entry
<1>2. p \in Code(rdEx[p].old.op).pipes
  BY DEF LatchInv, LanesFit
<1> QED BY <1>1, <1>2, OpcodeType DEF NopLanes, ClassOf

LEMMA OpenRoomBounds ==
    ASSUME NEW p \in Pipes
    PROVE  /\ OpenRoom(p) \in Nat /\ ResStationSize \in Nat
           /\ ResStationSize <= OpenRoom(p)
           /\ p \in NopLanes => OpenRoom(p) = ResStationSize + 1
           /\ ResStationSize + (IF p \in NopLanes THEN 2 ELSE 1) = OpenRoom(p) + 1
BY SizesAssumption DEF OpenRoom

\* A step of an EX unit adds at most what its latch brings.
LEMMA StationGrowth ==
    ASSUME TypeOK, NEW keep \in Keeps, Execute(keep), NEW p \in Pipes
    PROVE  /\ Len(exStation[p]) \in Nat /\ Len(exStation'[p]) \in Nat
           /\ Len(exStation'[p]) <= Len(exStation[p]) + 1
           /\ rdEx[p].old.op = 0 => Len(exStation'[p]) <= Len(exStation[p])
<1> DEFINE before   == Len(exStation[p])
           arriving == Len(Arrived(rdEx[p].old.op))
           after    == Len(exStation'[p])
<1>1. exStation[p] \in Seq(OpId) /\ rdEx[p].old.op \in OpId \cup {0}
  BY DEF TypeOK, ReadEntry, Entry
<1>2. before \in Nat
  BY <1>1, LenProperties
<1>3. arriving \in {0, 1} /\ (rdEx[p].old.op = 0 => arriving = 0)
  BY <1>1, ArrivedType
<1>4. after \in Nat /\ after <= before + arriving
  <2>1. CASE p = MemPipe
    <3>1. exStation'[p] = LoadStoreStation(keep)
      BY <2>1 DEF Execute
    <3>2. Len(LoadStoreStation(keep)) \in Nat
      BY KeepsType, LenProperties
    <3> QED BY <2>1, <3>1, <3>2, KeepsType
  <2>2. CASE p # MemPipe
    <3> DEFINE all == Len(Station(p))
    <3>1. exStation'[p] = Station(p) \/
            (Station(p) # <<>> /\ exStation'[p] = Tail(Station(p)))
      BY <2>2 DEF Execute, Finishes
    <3>2. Station(p) \in Seq(OpId)
      BY StationType
    <3>3. all = before + arriving
      <4>1. Arrived(rdEx[p].old.op) \in Seq(OpId)
        BY <1>1, ArrivedType
      <4> QED BY <1>1, <4>1, ConcatProperties DEF Station
    <3>4. after = all \/ (all \in Nat \ {0} /\ after = all - 1)
      BY <3>1, <3>2, HeadTailProperties, EmptySeq
    <3>5. all \in Nat
      BY <3>2, LenProperties
    <3> HIDE DEF before, arriving, after, all
    <3> QED BY <1>2, <1>3, <3>3, <3>4, <3>5
  <2> QED BY <2>1, <2>2
<1> HIDE DEF before, arriving, after
<1>5. after <= before + 1 /\ (rdEx[p].old.op = 0 => after <= before)
  BY <1>2, <1>3, <1>4
<1> QED BY <1>2, <1>4, <1>5 DEF before, arriving, after

LEMMA RoomExecute ==
    ASSUME TypeOK, LatchInv, RoomInv, NEW keep \in Keeps, Execute(keep)
    PROVE  RoomInv'
<1>0. /\ phase = "execute" /\ phase' = "opread" /\ busyEx' = busyEx
      /\ \A p \in Pipes : rdEx'[p].old.op = 0
  BY DEF Execute, busy, TypeOK, EmptyRead
<1>1. ASSUME NEW p \in Pipes
      PROVE  Len(exStation'[p]) <= OpenRoom(p) + 1
  <2>1. CASE rdEx[p].old.op = 0
    <3>1. Len(exStation[p]) <= OpenRoom(p) + 1
      BY OpenRoomBounds DEF RoomInv, StationsBounded
    <3>2. Len(exStation'[p]) <= Len(exStation[p])
      BY <2>1, StationGrowth
    <3> QED BY <3>1, <3>2, StationGrowth, OpenRoomBounds
  <2>2. CASE rdEx[p].old.op # 0
    <3>1. Len(exStation[p]) <= OpenRoom(p)
      BY <2>2 DEF RoomInv, StationRoom
    <3> QED BY <3>1, StationGrowth, OpenRoomBounds
  <2> QED BY <2>1, <2>2
<1>2. ASSUME NEW p \in Pipes, p \notin busyEx
      PROVE  Len(exStation'[p]) <= OpenRoom(p)
  <2>0. Len(exStation[p]) + Reserved(rdEx[p].old.op) <= ResStationSize
    BY <1>0, <1>2 DEF RoomInv, StationRoom
  <2>1. CASE rdEx[p].old.op # 0 /\ ClassOf(rdEx[p].old.op) = "nop"
    <3>1. p \in NopLanes /\ Reserved(rdEx[p].old.op) = 0
      BY <2>1, NopsStayInTheirLanes DEF Reserved
    <3>2. Len(exStation[p]) <= ResStationSize
      BY <2>0, <3>1, StationGrowth, OpenRoomBounds
    <3> QED BY <3>1, <3>2, StationGrowth, OpenRoomBounds
  <2>2. CASE ~(rdEx[p].old.op # 0 /\ ClassOf(rdEx[p].old.op) = "nop")
    <3>1. Reserved(rdEx[p].old.op) = 1
      BY <2>2 DEF Reserved
    <3>2. Len(exStation[p]) + 1 <= ResStationSize
      BY <2>0, <3>1
    <3> QED BY <3>2, StationGrowth, OpenRoomBounds
  <2> QED BY <2>1, <2>2
<1>3. StationsBounded'
  BY <1>1, OpenRoomBounds DEF StationsBounded
<1>4. \A p \in Pipes : StationRoom(p)'
  BY <1>0, <1>2 DEF StationRoom, OpenRoom
<1> QED BY <1>3, <1>4 DEF RoomInv

LEMMA RoomOpRead == TypeOK /\ LatchInv /\ RoomInv /\ OpRead => RoomInv'
<1> SUFFICES ASSUME TypeOK, LatchInv, RoomInv, OpRead PROVE RoomInv'
  OBVIOUS
<1>1. /\ exStation' = exStation /\ busyEx' = busyEx
      /\ phase = "opread" /\ phase' = "decode"
  BY DEF OpRead, busy
<1>2. \A p \in Pipes : rdEx'[p].old.op = 0
  <2>1. \A p \in Pipes : rdEx'[p].old = rdEx[p].old
    BY DEF OpRead, TypeOK
  <2>2. \A p \in Pipes : rdEx[p].old.op = 0
    BY <1>1 DEF LatchInv, LatchDiscipline, EmptyRead
  <2> QED BY <2>1, <2>2
<1>3. StationsBounded'
  BY <1>1 DEF RoomInv, StationsBounded
<1>4. \A p \in Pipes : StationRoom(p)'
  BY <1>1, <1>2 DEF RoomInv, StationRoom
<1> QED BY <1>3, <1>4 DEF RoomInv

LEMMA RoomFetch ==
    ASSUME TypeOK, RoomInv, NEW group \in Groups, Fetch(group)
    PROVE  RoomInv'
<1>1. /\ exStation' = exStation /\ busyEx' = busyEx /\ rdEx' = rdEx
      /\ phase = "fetch" /\ phase' = "update"
  BY DEF Fetch, busy, lanes
<1>2. StationsBounded'
  BY <1>1 DEF RoomInv, StationsBounded
<1>3. \A p \in Pipes : StationRoom(p)'
  BY <1>1 DEF RoomInv, StationRoom
<1> QED BY <1>2, <1>3 DEF RoomInv

LEMMA RoomRecover == RoomInv /\ Recover => RoomInv'
<1> SUFFICES ASSUME RoomInv, Recover PROVE RoomInv'
  OBVIOUS
<1>1. exStation' = exStation /\ phase' = "update"
  BY DEF Recover, Flush
<1>2. \A p \in Pipes : rdEx'[p].old.op = 0 /\ rdEx'[p].new.op = 0
  BY DEF Recover, Flush, EmptyRead
<1>3. StationsBounded'
  BY <1>1 DEF RoomInv, StationsBounded
<1>4. \A p \in Pipes : StationRoom(p)'
  BY <1>1, <1>2 DEF StationRoom
<1> QED BY <1>3, <1>4 DEF RoomInv

LEMMA RoomUpdate == LatchInv /\ RoomInv /\ Update => RoomInv'
<1> SUFFICES ASSUME LatchInv, RoomInv, Update PROVE RoomInv'
  OBVIOUS
<1>1. /\ exStation' = exStation /\ stallRead' = busyEx
      /\ phase = "update" /\ phase' = "preprocess"
  BY DEF Update
<1>2. ASSUME NEW p \in Pipes
      PROVE  StationRoom(p)'
  <2>1. CASE p \in busyEx
    <3>1. rdEx'[p] = rdEx[p]
      BY <1>1, <2>1 DEF Update
    <3>2. rdEx[p].old.op = 0
      BY <1>1 DEF LatchInv, LatchDiscipline, EmptyRead
    <3> QED BY <1>1, <3>1, <3>2 DEF StationRoom
  <2>2. CASE p \notin busyEx
    <3>1. rdEx'[p].old = rdEx[p].new
      BY <1>1, <2>2 DEF Update
    <3>2. rdEx[p].new.op # 0 => Len(exStation[p]) <= OpenRoom(p)
      BY <1>1, <2>2 DEF RoomInv, StationRoom
    <3> QED BY <1>1, <3>1, <3>2 DEF StationRoom, OpenRoom
  <2> QED BY <2>1, <2>2
<1>3. StationsBounded'
  BY <1>1 DEF RoomInv, StationsBounded
<1> QED BY <1>2, <1>3 DEF RoomInv

LEMMA RoomNext == TypeOK /\ LatchInv /\ RoomInv /\ [Next]_vars => RoomInv'
<1> SUFFICES ASSUME TypeOK, LatchInv, RoomInv, [Next]_vars PROVE RoomInv'
  OBVIOUS
<1>1. CASE Preprocess
  BY <1>1, RoomPreprocess
<1>2. CASE WriteBack
  BY <1>2, RoomQuiet DEF WriteBack, busy
<1>3. CASE \E keep \in Keeps : Execute(keep)
  BY <1>3, RoomExecute
<1>4. CASE OpRead
  BY <1>4, RoomOpRead
<1>5. CASE \E lane \in Lanes : Decode(lane)
  BY <1>5, RoomQuiet DEF Decode, busy, history
<1>6. CASE DecodeStalled
  BY <1>6, RoomQuiet DEF DecodeStalled, lanes, busy, history
<1>7. CASE FetchStalled
  BY <1>7, RoomQuiet DEF FetchStalled, lanes, busy, history
<1>8. CASE \E group \in Groups : Fetch(group)
  BY <1>8, RoomFetch
<1>9. CASE Recover
  BY <1>9, RoomRecover
<1>10. CASE Update
  BY <1>10, RoomUpdate
<1>11. CASE EndOfSimulation \/ UNCHANGED vars
  BY <1>11, RoomQuiet DEF EndOfSimulation, vars, lanes, busy, history
<1> QED BY <1>1, <1>2, <1>3, <1>4, <1>5, <1>6, <1>7, <1>8, <1>9, <1>10, <1>11
        DEF Next

\* The station of an EX unit goes at most one entry over ResStationSize, two in
\* a lane that takes NOPs, although its busy bit works one cycle late.
THEOREM StationsStayBounded == Spec => []StationsBounded
<1>1. TypeOK /\ LatchInv /\ RoomInv /\ [Next]_vars
        => TypeOK' /\ LatchInv' /\ RoomInv'
  BY NextType, LatchNext, RoomNext
<1>2. RoomInv => StationsBounded
  BY DEF RoomInv
<1> QED BY <1>1, <1>2, InitType, LatchInit, RoomInit, PTL DEF Spec

\* All the parts together: the invariant behind the bounds.
THEOREM BuffersCorrect == Spec => []BufferInv
<1> DEFINE Parts == TypeOK /\ DecodeRoom /\ LatchInv /\ RoomInv
<1>1. Init => Parts
  BY InitType, DecodeRoomInit, LatchInit, RoomInit
<1>2. Parts /\ [Next]_vars => Parts'
  BY NextType, DecodeRoomNext, LatchNext, RoomNext
<1>3. Parts => BufferInv
  BY DEF LatchInv, RoomInv, BufferInv
<1> HIDE DEF Parts
<1> QED BY <1>1, <1>2, <1>3, PTL DEF Spec

-----------------------------------------------------------------------------
(* Where an operation is *)

\* The operations fetched before those in front of DECODE.
Base == Len(stream) - Len(instBuffer) - Len(fetDec.old) - Len(fetDec.new)

\* The front end holds the last operations fetched, in order.
FrontInOrder ==
    /\ Base \in Nat
    /\ \A k \in 1..Len(instBuffer) : instBuffer[k] = Base + k
    /\ \A k \in 1..Len(fetDec.old) : fetDec.old[k] = Base + Len(instBuffer) + k
    /\ \A k \in 1..Len(fetDec.new) :
         fetDec.new[k] = Base + Len(instBuffer) + Len(fetDec.old) + k

Op(i) == {i} \ {0}
Spots == {"wbOld", "wbNew", "ex", "rdOld", "rdNew", "decOld", "decNew"}
Holds(k, p) ==
    CASE k = "wbOld"  -> Op(exWb[p].old)
      [] k = "wbNew"  -> Op(exWb[p].new)
      [] k = "ex"     -> Elements(exStation[p])
      [] k = "rdOld"  -> Op(rdEx[p].old.op)
      [] k = "rdNew"  -> Op(rdEx[p].new.op)
      [] k = "decOld" -> Elements(decRd[p].old)
      [] k = "decNew" -> Elements(decRd[p].new)

Distinct(s) == \A a, b \in 1..Len(s) : s[a] = s[b] => a = b

PhaseInv ==
    /\ phase \notin {"preprocess", "writeback"} => \A p \in Pipes : exWb[p].old = 0
    /\ phase \in {"preprocess", "writeback", "execute"} =>
         \A p \in Pipes : exWb[p].new = 0
    /\ phase \in {"preprocess", "writeback"} => regsNew = NoValues
    /\ mispredicted # 0 => phase \in {"opread", "decode", "fetch", "update"}
    /\ exStation[BranchPipe] = <<>>
    /\ BranchPipe \notin busyEx
    /\ phase # "update" => BranchPipe \notin stallRead
    /\ stallDecode => \A p \in Pipes : decRd[p].old = <<>>
    /\ ended => phase # "writeback"

PlacesInv ==
    /\ \A k \in Spots, p \in Pipes : \A i \in Holds(k, p) :
         i \in 1..Base /\ i \notin retired /\ p \in Code(i).pipes
    /\ \A k, l \in Spots, p, q \in Pipes : \A i \in Holds(k, p) \cap Holds(l, q) :
         k = l /\ p = q
    /\ \A p \in Pipes : Distinct(exStation[p])
    /\ retired \subseteq 1..Base

-----------------------------------------------------------------------------
(* Wrong paths *)

Diverter(d) == d \in OpId /\ OnPath(d) /\ ClassOf(d) \in Diverting
Returns(i) == i # 0 /\ ClassOf(i) = "jr"

DivertsIn(k) == \E d \in Holds(k, BranchPipe) : Diverter(d)

\* Some operation past the named stage has turned the program elsewhere.
PastWriteBack == ended \/ Returns(exWb[BranchPipe].old)
PastEx     == PastWriteBack \/ Returns(exWb[BranchPipe].new) \/ mispredicted # 0
PastRead   == PastEx \/ DivertsIn("rdOld") \/ DivertsIn("rdNew")
PastDecode == PastRead \/ DivertsIn("decOld") \/ DivertsIn("decNew")

\* A wrong path in the front end starts behind an operation that diverts.
FrontPath ==
    /\ offPath => PastDecode \/ \E d \in (Base + 1)..Len(stream) : Diverter(d)
    /\ \A i \in (Base + 1)..Len(stream) : ~OnPath(i) =>
         PastDecode \/ \E d \in (Base + 1)..(i - 1) : Diverter(d)

\* An operation of a wrong path is behind the one that diverted.
LanePath ==
    \A p \in Pipes :
      /\ \A i \in Holds("decOld", p) \cup Holds("decNew", p) : ~OnPath(i) => PastRead
      /\ \A i \in Holds("rdNew", p) : ~OnPath(i) => PastEx
      /\ \A i \in Holds("rdOld", p) : ~OnPath(i) => PastWriteBack
      /\ \A i \in Holds("ex", p) :
           ~OnPath(i) => ended /\ phase \notin {"writeback", "execute"}
      /\ \A i \in Holds("wbNew", p) : ~OnPath(i) => ended
      /\ \A i \in Holds("wbOld", p) : ~OnPath(i) => ended /\ phase = "preprocess"

\* A wrong path leaves nothing behind.
NoTrace ==
    /\ mispredicted # 0 => OnPath(mispredicted) \/ ended
    /\ \A i \in OpId : ~OnPath(i) =>
         /\ i \in retired => ClassOf(i) = "nop" /\ ended
         /\ \A r \in Regs : regs[r] # i /\ regsNew[r] # i

PathInv == FrontPath /\ LanePath /\ NoTrace

-----------------------------------------------------------------------------
(* Programs that are predicted right *)

Predicted == \A o \in Opcodes : o.class # "missed"

InSpot(k) == UNION {Holds(k, p) : p \in Pipes}
InFlight == UNION {Holds(k, p) : k \in Spots, p \in Pipes}

\* Without a misprediction nothing that DECODE issued is lost.
CoverInv ==
    /\ mispredicted = 0
    /\ 1..Base = InFlight \cup retired

\* No operation behind it writes what an operation under way writes.
ScoreInv ==
    /\ destTable = UNION {Dest(i) : i \in InFlight}
    /\ \A j \in InFlight : \A i \in (j + 1)..Base : Dest(i) \cap Dest(j) = {}

\* A register nobody is about to write holds what a sequential machine would
\* have in it for the next operation to issue.
IdleRight == \A r \in Regs \ destTable : Committed(r) = LastWriter(Base + 1, r)

\* What waits in front of READ will find its operands, and nobody but its own
\* issue group is about to write them.
WaitRight ==
    \A k \in {"decOld", "decNew"} : \A i \in InSpot(k) : \A r \in Srcs(i) :
      /\ Committed(r) = LastWriter(i, r)
      /\ \A j \in InFlight : r \in Dest(j) => j \in InSpot(k)
      /\ k = "decOld" => regsNew[r] = 0

\* What has passed READ carries its operands.
ReadRight ==
    \A p \in Pipes : \A l \in {rdEx[p].old, rdEx[p].new} :
      l.op # 0 => \A r \in Srcs(l.op) : l.val[r] = LastWriter(l.op, r)

-----------------------------------------------------------------------------
(* The front end keeps the order of the program *)

LEMMA FrontTypes ==
    ASSUME TypeOK
    PROVE  /\ Len(stream) \in Nat /\ Len(instBuffer) \in Nat
           /\ Len(fetDec.old) \in Nat /\ Len(fetDec.new) \in Nat
BY LenProperties DEF TypeOK

LEMMA BufferedInOrder ==
    ASSUME TypeOK, FrontInOrder
    PROVE  \A k \in 1..Len(Buffered) : Buffered[k] = Base + k
<1>1. instBuffer \in Seq(OpId) /\ fetDec.old \in Seq(OpId)
  BY DEF TypeOK
<1> DEFINE a == Len(instBuffer)
           b == Len(fetDec.old)
<1>2. /\ \A k \in 1..(a + b) : Buffered[k] = IF k <= a THEN instBuffer[k]
                                              ELSE fetDec.old[k - a]
      /\ Len(Buffered) = a + b /\ a \in Nat /\ b \in Nat
  BY <1>1, ConcatProperties, LenProperties DEF Buffered
<1>3. /\ Base \in Nat
      /\ \A k \in 1..a : instBuffer[k] = Base + k
      /\ \A k \in 1..b : fetDec.old[k] = Base + a + k
  BY DEF FrontInOrder
<1> HIDE DEF a, b
<1>4. ASSUME NEW k \in 1..(a + b)
      PROVE  Buffered[k] = Base + k
  <2>1. CASE k <= a
    BY <1>2, <1>3, <2>1
  <2>2. CASE ~(k <= a)
    <3>0. a \in Nat /\ b \in Nat
      BY <1>2
    <3>1. k - a \in 1..b
      BY <2>2, <3>0
    <3>2. Buffered[k] = Base + a + (k - a)
      BY <1>2, <1>3, <2>2, <3>1
    <3>3. \A x \in Nat : x + a + (k - a) = x + k
      BY <3>0
    <3> QED BY <1>3, <3>2, <3>3
  <2> QED BY <2>1, <2>2
<1> QED BY <1>2, <1>4

LEMMA FrontInit == Init => FrontInOrder /\ Base = 0
<1> SUFFICES ASSUME Init PROVE FrontInOrder /\ Base = 0
  OBVIOUS
<1>1. /\ stream = <<>> /\ instBuffer = <<>>
      /\ fetDec.old = <<>> /\ fetDec.new = <<>>
  BY DEF Init
<1>2. Base = 0
  <2>1. Len(stream) = 0 /\ Len(instBuffer) = 0 /\ Len(fetDec.old) = 0 /\ Len(fetDec.new) = 0
    BY <1>1
  <2> QED BY <2>1 DEF Base
<1> QED BY <1>1, <1>2 DEF FrontInOrder

\* DECODE issues the operations that follow Base, and moves it past them.
LEMMA FrontDecode ==
    ASSUME TypeOK, FrontInOrder, NEW lane \in Lanes, Decode(lane)
    PROVE  /\ FrontInOrder' /\ Base' = Base + Len(lane)
           /\ \A k \in 1..Len(lane) : Buffered[k] = Base + k
<1> DEFINE n == Len(lane)
           m == Len(Buffered)
           a == Len(fetDec.new)
<1>1. n \in Nat /\ m \in Nat /\ n <= m /\ a \in Nat /\ Base \in Nat
  BY BufferedType, LaneType, FrontTypes DEF Decode, FrontInOrder
<1>2. /\ fetDec'.old = <<>> /\ fetDec'.new = fetDec.new
      /\ instBuffer' = SubSeq(Buffered, n + 1, m) /\ stream' = stream
  BY DEF Decode, TypeOK, history
<1>3. \A k \in 1..m : Buffered[k] = Base + k /\ Buffered[k] \in OpId
  BY BufferedInOrder, BufferedType
<1>4. Len(instBuffer') = m - n /\ \A k \in 1..(m - n) : instBuffer'[k] = Base + n + k
  <2>1. n + 1 \in Int /\ m \in Int /\ \A k \in (n + 1)..m : Buffered[k] \in OpId
    BY <1>1, <1>3
  <2>2. /\ Len(SubSeq(Buffered, n + 1, m)) = IF n + 1 <= m THEN m - (n + 1) + 1 ELSE 0
        /\ \A k \in 1..(m - (n + 1) + 1) :
             SubSeq(Buffered, n + 1, m)[k] = Buffered[n + 1 + k - 1]
    BY <2>1, SubSeqProperties
  <2> HIDE DEF n, m
  <2>3. m - (n + 1) + 1 = m - n /\ (~(n + 1 <= m) => m - n = 0)
    BY <1>1
  <2>4. \A k \in 1..(m - n) : n + 1 + k - 1 = n + k /\ n + k \in 1..m
                              /\ Base + (n + k) = Base + n + k
    BY <1>1
  <2> QED BY <1>2, <1>3, <2>2, <2>3, <2>4
<1>5. Base' = Base + n
  <2>1. Base = Len(stream) - Len(instBuffer) - Len(fetDec.old) - a
    BY DEF Base
  <2>2. Base' = Len(stream) - (m - n) - 0 - a
    BY <1>2, <1>4 DEF Base
  <2>3. m = Len(instBuffer) + Len(fetDec.old)
    BY BufferedType
  <2> HIDE DEF n, m, a
  <2> QED BY <1>1, <2>1, <2>2, <2>3, FrontTypes
<1>6. FrontInOrder'
  <2>1. \A k \in 1..a : fetDec.new[k] = Base + m + k
    <3>1. m = Len(instBuffer) + Len(fetDec.old)
      BY BufferedType
    <3>2. \A x, y, z \in Nat : x + y + z = x + (y + z)
      OBVIOUS
    <3>3. Base + Len(instBuffer) + Len(fetDec.old)
            = Base + (Len(instBuffer) + Len(fetDec.old))
      BY <1>1, <3>2, FrontTypes, Zenon
    <3>4. Base + Len(instBuffer) + Len(fetDec.old) = Base + m
      BY <3>1, <3>3, Zenon
    <3> QED BY <3>4 DEF FrontInOrder
  <2>2. \A k \in 1..a : fetDec'.new[k] = Base' + Len(instBuffer') + 0 + k
    <3>1. Base' + Len(instBuffer') + 0 = Base + m
      <4> HIDE DEF n, m, a
      <4> QED BY <1>1, <1>4, <1>5
    <3> QED BY <1>2, <2>1, <3>1
  <2>3. Base' \in Nat
    BY <1>1, <1>5
  <2>4. Len(fetDec'.old) = 0 /\ Len(fetDec'.new) = a
    BY <1>2
  <2> HIDE DEF n, m, a
  <2>5. \A k \in 1..Len(instBuffer') : instBuffer'[k] = Base' + k
    BY <1>4, <1>5
  <2>6. \A k \in 1..Len(fetDec'.old) : FALSE
    BY <2>4
  <2>7. \A k \in 1..Len(fetDec'.new) :
          fetDec'.new[k] = Base' + Len(instBuffer') + Len(fetDec'.old) + k
    BY <2>2, <2>4
  <2> QED BY <2>3, <2>5, <2>6, <2>7 DEF FrontInOrder
<1> QED BY <1>1, <1>3, <1>5, <1>6

LEMMA FrontFetch ==
    ASSUME TypeOK, LatchInv, FrontInOrder, NEW group \in Groups, Fetch(group)
    PROVE  FrontInOrder' /\ Base' = Base
<1> DEFINE n == Len(group)
           w == [k \in 1..n |-> Len(stream) + k]
<1>1. n \in Nat /\ Len(stream') = Len(stream) + n
  BY GroupType, FetchedGroup
<1>2. fetDec'.old = fetDec.old /\ fetDec'.new = w /\ instBuffer' = instBuffer
  BY DEF Fetch, TypeOK
<1>3. fetDec.new = <<>>
  BY DEF Fetch, LatchInv, LatchDiscipline
<1>4. Len(w) = n
  BY <1>1
<1>5. /\ Base' = Len(stream) + n - Len(instBuffer) - Len(fetDec.old) - n
      /\ Base = Len(stream) - Len(instBuffer) - Len(fetDec.old) - 0
  BY <1>1, <1>2, <1>3, <1>4 DEF Base
<1> HIDE DEF n
<1>6. Base' = Base /\ Base + Len(instBuffer) + Len(fetDec.old) = Len(stream)
  BY <1>1, <1>5, FrontTypes
<1>7. \A k \in 1..Len(w) : w[k] = Base + Len(instBuffer) + Len(fetDec.old) + k
  BY <1>4, <1>6
<1> HIDE DEF w
<1> QED BY <1>2, <1>6, <1>7 DEF FrontInOrder

LEMMA FrontRecover == TypeOK /\ Recover => FrontInOrder' /\ Base' = Len(stream)
<1> SUFFICES ASSUME TypeOK, Recover PROVE FrontInOrder' /\ Base' = Len(stream)
  OBVIOUS
<1>1. /\ fetDec'.old = <<>> /\ fetDec'.new = <<>> /\ instBuffer' = <<>>
      /\ stream' = stream
  BY DEF Recover, Flush, history
<1>2. Base' = Len(stream)
  BY <1>1, FrontTypes DEF Base
<1> QED BY <1>1, <1>2, FrontTypes DEF FrontInOrder

LEMMA FrontUpdate ==
    TypeOK /\ LatchInv /\ FrontInOrder /\ Update => FrontInOrder' /\ Base' = Base
<1> SUFFICES ASSUME TypeOK, LatchInv, FrontInOrder, Update
             PROVE  FrontInOrder' /\ Base' = Base
  OBVIOUS
<1>1. stream' = stream /\ instBuffer' = instBuffer /\ phase = "update"
  BY DEF Update, history
<1>2. CASE fetDec' = fetDec
  BY <1>1, <1>2 DEF FrontInOrder, Base
<1>3. CASE fetDec' = [old |-> fetDec.new, new |-> <<>>]
  <2>1. fetDec'.old = fetDec.new /\ fetDec'.new = <<>> /\ fetDec.old = <<>>
    BY <1>1, <1>3 DEF LatchInv, LatchDiscipline
  <2>2. Base' = Base
    BY <1>1, <2>1, FrontTypes DEF Base
  <2>3. Base \in Nat /\ Base + Len(instBuffer) + Len(fetDec.old) = Base + Len(instBuffer)
    BY <2>1, FrontTypes DEF FrontInOrder
  <2> QED BY <1>1, <2>1, <2>2, <2>3 DEF FrontInOrder
<1> QED BY <1>2, <1>3 DEF Update

LEMMA FrontQuiet ==
    ASSUME FrontInOrder, UNCHANGED <<stream, instBuffer, fetDec>>
    PROVE  FrontInOrder' /\ Base' = Base
BY DEF FrontInOrder, Base

LEMMA FrontNext == TypeOK /\ LatchInv /\ FrontInOrder /\ [Next]_vars => FrontInOrder'
<1> SUFFICES ASSUME TypeOK, LatchInv, FrontInOrder, [Next]_vars PROVE FrontInOrder'
  OBVIOUS
<1>1. CASE Preprocess \/ DecodeStalled \/ FetchStalled \/ EndOfSimulation \/ UNCHANGED vars
  BY <1>1, FrontQuiet
     DEF Preprocess, DecodeStalled, FetchStalled, EndOfSimulation, vars, history, front
<1>2. CASE WriteBack \/ (\E keep \in Keeps : Execute(keep)) \/ OpRead
  BY <1>2, FrontQuiet DEF WriteBack, Execute, OpRead, history, front
<1>3. CASE \E lane \in Lanes : Decode(lane)
  BY <1>3, FrontDecode
<1>4. CASE \E group \in Groups : Fetch(group)
  BY <1>4, FrontFetch
<1>5. CASE Recover \/ Update
  BY <1>5, FrontRecover, FrontUpdate
<1> QED BY <1>1, <1>2, <1>3, <1>4, <1>5 DEF Next

-----------------------------------------------------------------------------
(* What the phase of the cycle says of the latches *)

LEMMA PhaseInit == Init => PhaseInv
<1> SUFFICES ASSUME Init PROVE PhaseInv
  OBVIOUS
<1>1. \A p \in Pipes : exWb[p].old = 0 /\ exWb[p].new = 0 /\ decRd[p].old = <<>>
  BY DEF Init
<1>2. exStation[BranchPipe] = <<>>
  BY PipesAssumption DEF Init
<1> QED BY <1>1, <1>2 DEF Init, PhaseInv

LEMMA PhaseQuiet ==
    ASSUME PhaseInv,
           UNCHANGED <<mispredicted, decRd, exStation, exWb, regsNew, busyEx, stall>>,
           \/ phase \in {"decode", "fetch"} /\ phase' \in {"fetch", "update"}
           \/ UNCHANGED <<phase, ended>>
    PROVE  PhaseInv'
BY DEF PhaseInv, stall

LEMMA PhasePreprocess == PhaseInv /\ Preprocess => PhaseInv'
<1> SUFFICES ASSUME PhaseInv, Preprocess PROVE PhaseInv'
  OBVIOUS
<1>1. BranchPipe \notin busyEx'
  <2>1. Len(exStation[BranchPipe]) = 0
    BY DEF PhaseInv
  <2>2. Reserved(rdEx[BranchPipe].old.op) \in {0, 1}
    BY DEF Reserved
  <2>3. ~ExBusy(BranchPipe)
    BY <2>1, <2>2, SizesAssumption DEF ExBusy
  <2> QED BY <2>3 DEF Preprocess
<1> QED BY <1>1 DEF PhaseInv, Preprocess, lanes, regfile, stall

LEMMA PhaseWriteBack == TypeOK /\ PhaseInv /\ WriteBack => PhaseInv'
<1> SUFFICES ASSUME TypeOK, PhaseInv, WriteBack PROVE PhaseInv'
  OBVIOUS
<1>1. \A p \in Pipes : exWb'[p].old = 0 /\ exWb'[p].new = exWb[p].new
  BY DEF WriteBack, TypeOK
<1> QED BY <1>1 DEF PhaseInv, WriteBack, busy, stall

\* The BranchUnit keeps no operation from one cycle to the next.
LEMMA BranchUnitEmpties ==
    ASSUME TypeOK, PhaseInv
    PROVE  /\ Station(BranchPipe) = Arrived(rdEx[BranchPipe].old.op)
           /\ Station(BranchPipe) # <<>> => Tail(Station(BranchPipe)) = <<>>
<1>1. Arrived(rdEx[BranchPipe].old.op) \in Seq(OpId)
  BY ArrivedType, PipesAssumption DEF TypeOK, ReadEntry, Entry
<1>2. Station(BranchPipe) = Arrived(rdEx[BranchPipe].old.op)
  BY <1>1, ConcatEmptySeq DEF Station, PhaseInv
<1>3. Tail(<<rdEx[BranchPipe].old.op>>) = <<>>
  OBVIOUS
<1> QED BY <1>2, <1>3 DEF Arrived

LEMMA PhaseExecute ==
    ASSUME TypeOK, PhaseInv, NEW keep \in Keeps, Execute(keep)
    PROVE  PhaseInv'
<1>1. \A p \in Pipes : exWb'[p].old = exWb[p].old
  BY DEF Execute, TypeOK
<1>2. exStation'[BranchPipe] = <<>>
  <2>1. exStation'[BranchPipe] = IF Finishes(BranchPipe) THEN Tail(Station(BranchPipe))
                                 ELSE Station(BranchPipe)
    BY PipesAssumption DEF Execute
  <2>2. Finishes(BranchPipe) <=> Station(BranchPipe) # <<>>
    BY DEF Finishes
  <2> QED BY <2>1, <2>2, BranchUnitEmpties
<1> QED BY <1>1, <1>2 DEF PhaseInv, Execute, regfile, busy, stall

LEMMA PhaseOpRead == TypeOK /\ PhaseInv /\ OpRead => PhaseInv'
<1> SUFFICES ASSUME TypeOK, PhaseInv, OpRead PROVE PhaseInv'
  OBVIOUS
<1>1. \A p \in Pipes : decRd'[p].old = decRd[p].old \/ decRd'[p].old = <<>>
  BY DEF OpRead, TypeOK
<1> QED BY <1>1 DEF PhaseInv, OpRead, regfile, busy, stall

LEMMA PhaseDecode ==
    ASSUME PhaseInv, NEW lane \in Lanes, Decode(lane)
    PROVE  PhaseInv'
BY DEF PhaseInv, Decode, regfile, busy, stall

LEMMA PhaseRecover == PhaseInv /\ Recover => PhaseInv'
<1> SUFFICES ASSUME PhaseInv, Recover PROVE PhaseInv'
  OBVIOUS
<1>1. \A p \in Pipes : decRd'[p].old = <<>>
  BY DEF Recover, Flush
<1> QED BY <1>1 DEF PhaseInv, Recover, Flush, regfile

LEMMA PhaseUpdate == LatchInv /\ PhaseInv /\ Update => PhaseInv'
<1> SUFFICES ASSUME LatchInv, PhaseInv, Update PROVE PhaseInv'
  OBVIOUS
<1>1. \A p \in Pipes : exWb'[p].new = 0
  BY DEF Update
<1>2. stallDecode' => \A p \in Pipes : decRd'[p].old = <<>>
  BY DEF Update, LatchInv, LatchDiscipline
<1>3. NoValues' = NoValues
  BY DEF NoValues
<1> QED BY <1>1, <1>2, <1>3 DEF PhaseInv, Update, busy

LEMMA PhaseNext == TypeOK /\ LatchInv /\ PhaseInv /\ [Next]_vars => PhaseInv'
<1> SUFFICES ASSUME TypeOK, LatchInv, PhaseInv, [Next]_vars PROVE PhaseInv'
  OBVIOUS
<1>1. CASE Preprocess \/ WriteBack \/ OpRead
  BY <1>1, PhasePreprocess, PhaseWriteBack, PhaseOpRead
<1>2. CASE \E keep \in Keeps : Execute(keep)
  BY <1>2, PhaseExecute
<1>3. CASE \E lane \in Lanes : Decode(lane)
  BY <1>3, PhaseDecode
<1>4. CASE \E group \in Groups : Fetch(group)
  BY <1>4, PhaseQuiet DEF Fetch, lanes, regfile, busy
<1>5. CASE DecodeStalled \/ FetchStalled \/ EndOfSimulation \/ UNCHANGED vars
  BY <1>5, PhaseQuiet
     DEF DecodeStalled, FetchStalled, EndOfSimulation, vars, lanes, regfile, busy
<1>6. CASE Recover \/ Update
  BY <1>6, PhaseRecover, PhaseUpdate
<1> QED BY <1>1, <1>2, <1>3, <1>4, <1>5, <1>6 DEF Next

-----------------------------------------------------------------------------
(* How operations move between the spots *)

StageInv == TypeOK /\ LatchInv /\ FrontInOrder /\ PhaseInv

LEMMA StageNext == StageInv /\ [Next]_vars => StageInv'
BY NextType, LatchNext, FrontNext, PhaseNext DEF StageInv

LEMMA Held ==
    ASSUME NEW p
    PROVE  /\ Holds("wbOld", p) = Op(exWb[p].old) /\ Holds("wbNew", p) = Op(exWb[p].new)
           /\ Holds("ex", p) = Elements(exStation[p])
           /\ Holds("rdOld", p) = Op(rdEx[p].old.op) /\ Holds("rdNew", p) = Op(rdEx[p].new.op)
           /\ Holds("decOld", p) = Elements(decRd[p].old)
           /\ Holds("decNew", p) = Elements(decRd[p].new)
BY DEF Holds

LEMMA HeldNext ==
    ASSUME NEW p
    PROVE  /\ Holds("wbOld", p)' = Op(exWb'[p].old)
           /\ Holds("wbNew", p)' = Op(exWb'[p].new)
           /\ Holds("ex", p)' = Elements(exStation'[p])
           /\ Holds("rdOld", p)' = Op(rdEx'[p].old.op)
           /\ Holds("rdNew", p)' = Op(rdEx'[p].new.op)
           /\ Holds("decOld", p)' = Elements(decRd'[p].old)
           /\ Holds("decNew", p)' = Elements(decRd'[p].new)
BY DEF Holds, Elements, Op

LEMMA HoldsQuiet ==
    ASSUME UNCHANGED <<exWb, exStation, rdEx, decRd>>
    PROVE  \A k \in Spots, p \in Pipes : Holds(k, p)' = Holds(k, p)
<1>1. \A p \in Pipes :
         /\ Holds("wbOld", p)' = Holds("wbOld", p) /\ Holds("wbNew", p)' = Holds("wbNew", p)
         /\ Holds("ex", p)' = Holds("ex", p)
         /\ Holds("rdOld", p)' = Holds("rdOld", p) /\ Holds("rdNew", p)' = Holds("rdNew", p)
         /\ Holds("decOld", p)' = Holds("decOld", p)
         /\ Holds("decNew", p)' = Holds("decNew", p)
  BY Held, HeldNext
<1> QED BY <1>1 DEF Spots

LEMMA SingleElement ==
    ASSUME NEW x
    PROVE  Elements(<<x>>) = {x}
BY DEF Elements

LEMMA EmptyHolds == Op(0) = {} /\ Elements(<<>>) = {}
BY DEF Op, Elements

LEMMA HoldsType ==
    ASSUME TypeOK
    PROVE  \A k \in Spots, p \in Pipes : Holds(k, p) \subseteq OpId
<1>1. \A s \in Seq(OpId) : Elements(s) \subseteq OpId
  BY ElementOfSeq DEF Elements
<1>2. \A i \in Entry : Op(i) \subseteq OpId
  BY DEF Entry, Op
<1>3. ASSUME NEW p \in Pipes
      PROVE  /\ decRd[p].old \in Seq(OpId) /\ decRd[p].new \in Seq(OpId)
             /\ exStation[p] \in Seq(OpId)
             /\ exWb[p].old \in Entry /\ exWb[p].new \in Entry
             /\ rdEx[p].old.op \in Entry /\ rdEx[p].new.op \in Entry
  BY DEF TypeOK, ReadEntry
<1>4. ASSUME NEW p \in Pipes
      PROVE  /\ Holds("wbOld", p) \subseteq OpId /\ Holds("wbNew", p) \subseteq OpId
             /\ Holds("ex", p) \subseteq OpId
             /\ Holds("rdOld", p) \subseteq OpId /\ Holds("rdNew", p) \subseteq OpId
             /\ Holds("decOld", p) \subseteq OpId /\ Holds("decNew", p) \subseteq OpId
  BY <1>1, <1>2, <1>3, Held
<1> QED BY <1>4 DEF Spots

LEMMA MoveWriteBack ==
    ASSUME TypeOK, WriteBack, NEW p \in Pipes
    PROVE  /\ Holds("wbOld", p)' = {} /\ Holds("wbNew", p)' = Holds("wbNew", p)
           /\ Holds("ex", p)' = Holds("ex", p)
           /\ Holds("rdOld", p)' = Holds("rdOld", p) /\ Holds("rdNew", p)' = Holds("rdNew", p)
           /\ Holds("decOld", p)' = Holds("decOld", p)
           /\ Holds("decNew", p)' = Holds("decNew", p)
<1>1. exWb'[p].old = 0 /\ exWb'[p].new = exWb[p].new
  BY DEF WriteBack, TypeOK
<1>2. exStation' = exStation /\ rdEx' = rdEx /\ decRd' = decRd
  BY DEF WriteBack
<1> QED BY <1>1, <1>2, Held, HeldNext, EmptyHolds

\* READ's input latch goes to its output latch, or is empty.
LEMMA MoveOpRead ==
    ASSUME StageInv, OpRead, NEW p \in Pipes
    PROVE  /\ Holds("decOld", p)' = {} /\ Holds("rdOld", p)' = Holds("rdOld", p)
           /\ \/ Holds("rdNew", p) = {} /\ Holds("rdNew", p)' = Holds("decOld", p)
              \/ /\ p # BranchPipe /\ Holds("decOld", p) = {}
                 /\ Holds("rdNew", p)' = Holds("rdNew", p)
           /\ Holds("wbOld", p)' = Holds("wbOld", p) /\ Holds("wbNew", p)' = Holds("wbNew", p)
           /\ Holds("ex", p)' = Holds("ex", p)
           /\ Holds("decNew", p)' = Holds("decNew", p)
<1>0. exWb' = exWb /\ exStation' = exStation /\ phase = "opread"
  BY DEF OpRead
<1>1. CASE p \in stallRead
  <2>1. rdEx'[p] = rdEx[p] /\ decRd'[p] = decRd[p] /\ decRd[p].old = <<>>
    BY <1>1 DEF StageInv, OpRead, LatchInv, LatchDiscipline
  <2>2. p # BranchPipe
    BY <1>0, <1>1 DEF StageInv, PhaseInv
  <2> QED BY <1>0, <2>1, <2>2, Held, HeldNext, EmptyHolds
<1>2. CASE p \notin stallRead
  <2>1. rdEx[p].new.op = 0
    BY <1>0, <1>2 DEF StageInv, LatchInv, LatchDiscipline, EmptyRead
  <2>2. /\ rdEx'[p].old = rdEx[p].old
        /\ rdEx'[p].new.op = IF Waiting(p) = <<>> THEN 0 ELSE Head(Waiting(p))
        /\ decRd'[p].old = <<>> /\ decRd'[p].new = decRd[p].new
    BY <1>2 DEF StageInv, OpRead, TypeOK, EmptyRead
  <2>3. Waiting(p) = decRd[p].old /\ decRd[p].old \in Seq(OpId) /\ Len(decRd[p].old) <= 1
    BY WaitingFits DEF StageInv, LatchInv, LanesFit, TypeOK
  <2>4. decRd[p].old # <<>> => Elements(decRd[p].old) = {Head(decRd[p].old)}
    <3>0. \A n \in Nat \ {0} : n <= 1 => n = 1
      OBVIOUS
    <3>1. decRd[p].old # <<>> => Len(decRd[p].old) = 1
      BY <2>3, <3>0, EmptySeq, Zenon
    <3>2. Head(decRd[p].old) = decRd[p].old[1]
      BY <2>3
    <3> QED BY <3>1, <3>2 DEF Elements
  <2>5. decRd[p].old # <<>> => Head(decRd[p].old) \in OpId /\ Head(decRd[p].old) # 0
    BY <2>3, HeadTailProperties DEF OpId
  <2>6. Op(rdEx'[p].new.op) = Elements(decRd[p].old)
    BY <2>2, <2>3, <2>4, <2>5, EmptyHolds DEF Op
  <2> QED BY <1>0, <2>1, <2>2, <2>6, Held, HeldNext, EmptyHolds
<1> QED BY <1>1, <1>2

\* DECODE puts the k-th operation of its group into the k-th lane of the group.
LEMMA MoveDecode ==
    ASSUME StageInv, NEW lane \in Lanes, Decode(lane)
    PROVE  /\ Base' = Base + Len(lane) /\ Len(lane) \in Nat
           /\ \A p \in Pipes :
                /\ Holds("wbOld", p)' = Holds("wbOld", p)
                /\ Holds("wbNew", p)' = Holds("wbNew", p)
                /\ Holds("ex", p)' = Holds("ex", p)
                /\ Holds("rdOld", p)' = Holds("rdOld", p)
                /\ Holds("rdNew", p)' = Holds("rdNew", p)
                /\ Holds("decOld", p) = {} /\ Holds("decOld", p)' = {}
                /\ Holds("decNew", p) = {}
                /\ \A i \in Holds("decNew", p)' :
                     \E k \in 1..Len(lane) : i = Base + k /\ lane[k] = p
           /\ \A k \in 1..Len(lane) :
                /\ lane[k] \in Pipes /\ Base + k \in OpId
                /\ Base + k \in Holds("decNew", lane[k])'
                /\ lane[k] \in Code(Base + k).pipes
                /\ \A j \in 1..(k - 1) : lane[j] # lane[k]
<1> DEFINE turn(p) == CHOOSE k \in 1..Len(lane) : lane[k] = p
<1>0. /\ Base' = Base + Len(lane) /\ Len(lane) \in Nat
      /\ \A k \in 1..Len(lane) : Buffered[k] = Base + k
  BY FrontDecode, LaneType DEF StageInv
<1>1. /\ exWb' = exWb /\ exStation' = exStation /\ rdEx' = rdEx
      /\ phase = "decode" /\ ~stallDecode
  BY DEF Decode
<1>2. ASSUME NEW p \in Pipes
      PROVE  decRd[p].old = <<>> /\ decRd[p].new = <<>>
  BY <1>1 DEF StageInv, LatchInv, LatchDiscipline
<1>3. ASSUME NEW k \in 1..Len(lane)
      PROVE  /\ lane[k] \in Pipes /\ Base + k \in OpId
             /\ lane[k] \in Code(Base + k).pipes
             /\ \A j \in 1..(k - 1) : lane[j] # lane[k]
  <2>1. Base + k = Buffered[k] /\ k \in 1..Len(Buffered)
    BY <1>0, BufferedType DEF Decode, StageInv
  <2>2. lane[k] \in Code(Buffered[k]).pipes \ {lane[j] : j \in 1..(k - 1)}
    BY DEF Decode, IssueGroup, Issuable
  <2>3. Buffered[k] \in OpId
    BY <2>1, BufferedType DEF StageInv
  <2> QED BY <2>1, <2>2, <2>3, LaneType
<1>4. ASSUME NEW k \in 1..Len(lane)
      PROVE  turn(lane[k]) = k
  <2>1. turn(lane[k]) \in 1..Len(lane) /\ lane[turn(lane[k])] = lane[k]
    OBVIOUS
  <2> HIDE DEF turn
  <2>2. ~(turn(lane[k]) < k) /\ ~(k < turn(lane[k]))
    <3>1. ASSUME NEW a \in 1..Len(lane), NEW b \in 1..Len(lane), lane[a] = lane[b]
          PROVE  ~(a < b)
      <4>1. a < b => a \in 1..(b - 1)
        BY <1>0
      <4> QED BY <1>3, <3>1, <4>1
    <3> QED BY <2>1, <3>1
  <2> QED BY <1>0, <2>1, <2>2
<1>5. ASSUME NEW p \in Pipes
      PROVE  /\ decRd'[p].old = <<>>
             /\ (\E k \in 1..Len(lane) : lane[k] = p) =>
                  Elements(decRd'[p].new) = {Buffered[turn(p)]}
             /\ ~(\E k \in 1..Len(lane) : lane[k] = p) => decRd'[p].new = <<>>
  <2>1. CASE \E k \in 1..Len(lane) : lane[k] = p
    <3>1. decRd'[p] = [decRd[p] EXCEPT !.new = Append(@, Buffered[turn(p)])]
      BY <2>1 DEF Decode
    <3>2. decRd[p] \in [old : Seq(OpId), new : Seq(OpId)]
      BY DEF StageInv, TypeOK
    <3>3. Append(<<>>, Buffered[turn(p)]) = <<Buffered[turn(p)]>>
      OBVIOUS
    <3>4. decRd'[p].new = <<Buffered[turn(p)]>> /\ decRd'[p].old = <<>>
      BY <1>2, <3>1, <3>2, <3>3
    <3>5. Elements(<<Buffered[turn(p)]>>) = {Buffered[turn(p)]}
      BY SingleElement
    <3> QED BY <2>1, <3>4, <3>5
  <2>2. CASE ~(\E k \in 1..Len(lane) : lane[k] = p)
    BY <1>2, <2>2 DEF Decode
  <2> QED BY <2>1, <2>2
<1>6. ASSUME NEW p \in Pipes
      PROVE  /\ Holds("decOld", p) = {} /\ Holds("decNew", p) = {} /\ Holds("decOld", p)' = {}
             /\ \A i \in Holds("decNew", p)' :
                  \E k \in 1..Len(lane) : i = Base + k /\ lane[k] = p
  <2>1. (\E k \in 1..Len(lane) : lane[k] = p) =>
          turn(p) \in 1..Len(lane) /\ lane[turn(p)] = p
    OBVIOUS
  <2> HIDE DEF turn
  <2>2. /\ Holds("decOld", p) = {} /\ Holds("decNew", p) = {}
        /\ Holds("decOld", p)' = {}
    BY <1>2, <1>5, Held, HeldNext, EmptyHolds
  <2>3. ASSUME NEW i \in Holds("decNew", p)'
        PROVE  \E k \in 1..Len(lane) : i = Base + k /\ lane[k] = p
    <3>1. i \in Elements(decRd'[p].new)
      BY <2>3, HeldNext
    <3>2. \E k \in 1..Len(lane) : lane[k] = p
      BY <1>5, <3>1, EmptyHolds
    <3>3. i = Buffered[turn(p)]
      BY <1>5, <3>1, <3>2
    <3> QED BY <1>0, <2>1, <3>2, <3>3
  <2> QED BY <2>2, <2>3
<1>7. ASSUME NEW k \in 1..Len(lane)
      PROVE  Base + k \in Holds("decNew", lane[k])'
  <2> HIDE DEF turn
  <2>1. Elements(decRd'[lane[k]].new) = {Buffered[k]}
    BY <1>3, <1>4, <1>5
  <2> QED BY <1>0, <1>3, <2>1, HeldNext
<1>8. \A p \in Pipes :
         /\ Holds("wbOld", p)' = Holds("wbOld", p) /\ Holds("wbNew", p)' = Holds("wbNew", p)
         /\ Holds("ex", p)' = Holds("ex", p)
         /\ Holds("rdOld", p)' = Holds("rdOld", p) /\ Holds("rdNew", p)' = Holds("rdNew", p)
  BY <1>1, Held, HeldNext
<1> HIDE DEF turn
<1> QED BY <1>0, <1>3, <1>6, <1>7, <1>8

LEMMA MoveRecover ==
    ASSUME Recover, NEW p \in Pipes
    PROVE  /\ Holds("wbOld", p)' = Holds("wbOld", p) /\ Holds("wbNew", p)' = Holds("wbNew", p)
           /\ Holds("ex", p)' = Holds("ex", p)
           /\ Holds("rdOld", p)' = {} /\ Holds("rdNew", p)' = {}
           /\ Holds("decOld", p)' = {} /\ Holds("decNew", p)' = {}
<1>1. /\ exWb' = exWb /\ exStation' = exStation
      /\ rdEx'[p].old.op = 0 /\ rdEx'[p].new.op = 0
      /\ decRd'[p].old = <<>> /\ decRd'[p].new = <<>>
  BY DEF Recover, Flush, EmptyRead
<1> QED BY <1>1, Held, HeldNext, EmptyHolds

\* The latches are delivered, or stay as they are below a stalled unit.
LEMMA MoveUpdate ==
    ASSUME StageInv, Update, NEW p \in Pipes
    PROVE  /\ Holds("wbOld", p) = {} /\ Holds("wbOld", p)' = Holds("wbNew", p)
           /\ Holds("wbNew", p)' = {} /\ Holds("ex", p)' = Holds("ex", p)
           /\ Holds("rdOld", p) = {} /\ Holds("decOld", p) = {}
           /\ \/ Holds("rdOld", p)' = Holds("rdNew", p) /\ Holds("rdNew", p)' = {}
              \/ Holds("rdOld", p)' = {} /\ Holds("rdNew", p)' = Holds("rdNew", p)
           /\ \/ Holds("decOld", p)' = Holds("decNew", p) /\ Holds("decNew", p)' = {}
              \/ Holds("decOld", p)' = {} /\ Holds("decNew", p)' = Holds("decNew", p)
<1>0. /\ phase = "update" /\ exStation' = exStation
      /\ exWb'[p].old = exWb[p].new /\ exWb'[p].new = 0
  BY DEF Update
<1>1. exWb[p].old = 0 /\ rdEx[p].old.op = 0 /\ decRd[p].old = <<>>
  BY <1>0 DEF StageInv, PhaseInv, LatchInv, LatchDiscipline, EmptyRead
<1>2. \/ rdEx'[p].old.op = rdEx[p].new.op /\ rdEx'[p].new.op = 0
      \/ rdEx'[p].old.op = 0 /\ rdEx'[p].new.op = rdEx[p].new.op
  BY <1>1 DEF Update, EmptyRead
<1>3. \/ decRd'[p].old = decRd[p].new /\ decRd'[p].new = <<>>
      \/ decRd'[p].old = <<>> /\ decRd'[p].new = decRd[p].new
  <2>1. decRd'[p] = decRd[p] \/ decRd'[p] = [old |-> decRd[p].old \o decRd[p].new,
                                             new |-> <<>>]
    BY DEF Update
  <2>2. decRd[p].old \o decRd[p].new = decRd[p].new
    BY <1>1, ConcatEmptySeq DEF StageInv, TypeOK
  <2> QED BY <1>1, <2>1, <2>2
<1>4. Holds("rdOld", p) = {} /\ Holds("decOld", p) = {} /\ Holds("wbOld", p) = {}
  BY <1>1, Held, EmptyHolds
<1>5. \/ Holds("rdOld", p)' = Holds("rdNew", p) /\ Holds("rdNew", p)' = {}
      \/ Holds("rdOld", p)' = {} /\ Holds("rdNew", p)' = Holds("rdNew", p)
  BY <1>2, Held, HeldNext, EmptyHolds
<1>6. \/ Holds("decOld", p)' = Holds("decNew", p) /\ Holds("decNew", p)' = {}
      \/ Holds("decOld", p)' = {} /\ Holds("decNew", p)' = Holds("decNew", p)
  BY <1>3, Held, HeldNext, EmptyHolds
<1> QED BY <1>0, <1>4, <1>5, <1>6, Held, HeldNext, EmptyHolds

LEMMA EmptyDistinct == Distinct(<<>>)
BY DEF Distinct

\* A station that reads its latch.
LEMMA Joined ==
    ASSUME NEW S, NEW s \in Seq(S), NEW i \in S \cup {0}, 0 \notin S
    PROVE  /\ Elements(s \o Arrived(i)) = Elements(s) \cup Op(i)
           /\ Distinct(s) /\ Elements(s) \cap Op(i) = {} => Distinct(s \o Arrived(i))
<1>1. CASE i = 0
  <2>1. s \o Arrived(i) = s
    BY <1>1, ConcatEmptySeq DEF Arrived
  <2> QED BY <1>1, <2>1 DEF Op
<1>2. CASE i # 0
  <2> DEFINE n == Len(s)
             t == s \o <<i>>
  <2>1. <<i>> \in Seq(S) /\ Len(<<i>>) = 1 /\ <<i>>[1] = i
    BY <1>2
  <2>2. Len(t) = n + 1 /\ \A k \in 1..(n + 1) : t[k] = IF k <= n THEN s[k] ELSE <<i>>[k - n]
    BY <2>1, ConcatProperties
  <2>3. n \in Nat
    BY LenProperties
  <2>4. t = s \o Arrived(i) /\ Op(i) = {i}
    BY <1>2 DEF Arrived, Op
  <2> HIDE DEF n, t
  <2>5. (\A k \in 1..n : t[k] = s[k]) /\ t[n + 1] = i
    <3>1. n + 1 - n = 1
      BY <2>3
    <3> QED BY <2>1, <2>2, <2>3, <3>1
  <2>6. Elements(t) = Elements(s) \cup {i}
    <3>1. Elements(t) = {t[k] : k \in 1..(n + 1)} /\ Elements(s) = {s[k] : k \in 1..n}
      BY <2>2 DEF Elements, n
    <3>2. 1..(n + 1) = (1..n) \cup {n + 1}
      BY <2>3
    <3> QED BY <2>5, <3>1, <3>2
  <2>7. ASSUME Distinct(s), Elements(s) \cap {i} = {}
        PROVE  Distinct(t)
    <3>1. \A k \in 1..n : s[k] # i
      BY <2>7 DEF Elements, n
    <3>2. \A a, b \in 1..n : s[a] = s[b] => a = b
      BY <2>7 DEF Distinct, n
    <3>3. ASSUME NEW a \in 1..(n + 1), NEW b \in 1..(n + 1), t[a] = t[b]
          PROVE  a = b
      <4>1. a \in 1..n \/ a = n + 1
        BY <2>3
      <4>2. b \in 1..n \/ b = n + 1
        BY <2>3
      <4> QED BY <2>5, <3>1, <3>2, <3>3, <4>1, <4>2
    <3> QED BY <2>2, <3>3 DEF Distinct
  <2> QED BY <2>4, <2>6, <2>7
<1> QED BY <1>1, <1>2

\* A station that lets its head go.
LEMMA HeadLeaves ==
    ASSUME NEW S, NEW s \in Seq(S), s # <<>>, Distinct(s)
    PROVE  /\ Elements(s) = Elements(Tail(s)) \cup {Head(s)}
           /\ Head(s) \notin Elements(Tail(s)) /\ Distinct(Tail(s))
<1> DEFINE n == Len(s)
           t == Tail(s)
<1>1. n \in Nat /\ n # 0 /\ Len(t) = n - 1 /\ \A k \in 1..(n - 1) : t[k] = s[k + 1]
  BY HeadTailProperties, EmptySeq
<1>2. Head(s) = s[1]
  OBVIOUS
<1>3. Elements(s) = {s[k] : k \in 1..n} /\ Elements(t) = {t[k] : k \in 1..(n - 1)}
  BY <1>1 DEF Elements
<1>4. \A a, b \in 1..n : s[a] = s[b] => a = b
  BY DEF Distinct
<1> HIDE DEF n, t
<1>5. \A k \in 1..n : k = 1 \/ (k - 1 \in 1..(n - 1) /\ s[k] = t[k - 1])
  <2> TAKE k \in 1..n
  <2>1. k # 1 => k - 1 \in 1..(n - 1) /\ k - 1 + 1 = k
    BY <1>1
  <2> QED BY <1>1, <2>1
<1>6. \A k \in 1..(n - 1) : k + 1 \in 1..n /\ k + 1 # 1 /\ 1 \in 1..n
  BY <1>1
<1>7. s[1] \notin Elements(t)
  BY <1>1, <1>3, <1>4, <1>6
<1>8. Elements(s) = Elements(t) \cup {s[1]}
  <2>1. \A k \in 1..n : s[k] = s[1] \/ s[k] \in Elements(t)
    BY <1>3, <1>5
  <2>2. \A k \in 1..(n - 1) : t[k] \in Elements(s)
    BY <1>1, <1>3, <1>6
  <2>3. s[1] \in Elements(s)
    BY <1>1, <1>3
  <2> QED BY <1>3, <2>1, <2>2, <2>3, Zenon
<1>9. ASSUME NEW a \in 1..(n - 1), NEW b \in 1..(n - 1), t[a] = t[b]
      PROVE  a = b
  <2>1. a + 1 = b + 1
    BY <1>1, <1>4, <1>6, <1>9
  <2> QED BY <1>1, <2>1
<1>10. Distinct(t)
  BY <1>1, <1>9 DEF Distinct
<1> QED BY <1>2, <1>7, <1>8, <1>10 DEF t

\* The operations that leave lane p without passing through its latch: done
\* stores and NOPs.
Dropped(keep, p) ==
    IF p = MemPipe THEN DoneOf(keep, "store")
    ELSE IF IsNop(p) THEN {Head(Station(p))} ELSE {}

LEMMA InLane ==
    ASSUME TypeOK, PlacesInv, NEW k \in Spots, NEW p \in Pipes, NEW i \in Holds(k, p)
    PROVE  /\ i \in OpId /\ i \in 1..Base /\ i \notin retired
           /\ p = MemPipe => ClassOf(i) \in {"load", "store"}
           /\ p = BranchPipe => ClassOf(i) \in Control
           /\ ClassOf(i) = "nop" => p \notin {MemPipe, BranchPipe}
           /\ ClassOf(i) \in Control => p = BranchPipe
<1>1. i \in OpId /\ i \in 1..Base /\ i \notin retired /\ p \in Code(i).pipes
  BY HoldsType DEF PlacesInv
<1>2. Code(i) \in Opcodes /\ ClassOf(i) = Code(i).class
  BY <1>1, OpcodeType DEF ClassOf
<1> QED BY <1>1, <1>2, PipesAssumption, OpcodesAssumption DEF Memory, Control

\* What a lane's EX unit works on: its station and its latch.
LEMMA AtEx ==
    ASSUME TypeOK, PlacesInv, NEW p \in Pipes
    PROVE  /\ Elements(Station(p)) = Holds("ex", p) \cup Holds("rdOld", p)
           /\ Distinct(Station(p)) /\ Distinct(exStation[p])
           /\ Holds("ex", p) \cap Holds("rdOld", p) = {}
           /\ exStation[p] \in Seq(OpId) /\ rdEx[p].old.op \in OpId \cup {0}
<1>1. exStation[p] \in Seq(OpId) /\ rdEx[p].old.op \in OpId \cup {0} /\ 0 \notin OpId
  BY DEF TypeOK, ReadEntry, Entry, OpId
<1>2. Holds("ex", p) \cap Holds("rdOld", p) = {} /\ Distinct(exStation[p])
  BY DEF PlacesInv, Spots
<1> QED BY <1>1, <1>2, Joined, Held DEF Station

\* An EX unit other than the LoadStoreUnit.
LEMMA UnitExecute ==
    ASSUME TypeOK, PlacesInv, NEW keep \in Keeps, Execute(keep),
           NEW p \in Pipes, p # MemPipe
    PROVE  /\ Elements(exStation'[p]) \cup Op(Result(p, keep)) \cup Dropped(keep, p)
                = Holds("ex", p) \cup Holds("rdOld", p)
           /\ Elements(exStation'[p]) \cap Op(Result(p, keep)) = {}
           /\ Elements(exStation'[p]) \cap Dropped(keep, p) = {}
           /\ Op(Result(p, keep)) \cap Dropped(keep, p) = {}
           /\ \A i \in Dropped(keep, p) : ClassOf(i) = "nop"
           /\ Distinct(exStation'[p])
<1>1. /\ Station(p) \in Seq(OpId) /\ 0 \notin OpId
      /\ Station(p) # <<>> => Head(Station(p)) \in OpId
  BY StationType DEF OpId
<1>2. exStation'[p] = IF Finishes(p) THEN Tail(Station(p)) ELSE Station(p)
  BY DEF Execute
<1>3. CASE Finishes(p)
  <2>1. Station(p) # <<>>
    BY <1>3 DEF Finishes
  <2>2. /\ Elements(Station(p)) = Elements(Tail(Station(p))) \cup {Head(Station(p))}
        /\ Head(Station(p)) \notin Elements(Tail(Station(p)))
        /\ Distinct(Tail(Station(p)))
    BY <1>1, <2>1, HeadLeaves, AtEx
  <2>3. CASE IsNop(p)
    <3>1. Result(p, keep) = 0 /\ Dropped(keep, p) = {Head(Station(p))}
      BY <2>3 DEF Result, Dropped
    <3>2. ClassOf(Head(Station(p))) = "nop"
      BY <2>3 DEF IsNop
    <3> QED BY <1>2, <1>3, <2>2, <3>1, <3>2, AtEx, EmptyHolds
  <2>4. CASE ~IsNop(p)
    <3>1. Result(p, keep) = Head(Station(p)) /\ Dropped(keep, p) = {}
      BY <1>3, <2>4 DEF Result, Dropped
    <3>2. Op(Head(Station(p))) = {Head(Station(p))}
      BY <1>1, <2>1 DEF Op
    <3> QED BY <1>2, <1>3, <2>2, <3>1, <3>2, AtEx
  <2> QED BY <2>3, <2>4
<1>4. CASE ~Finishes(p)
  <2>1. Result(p, keep) = 0 /\ Dropped(keep, p) = {}
    BY <1>4 DEF Result, Dropped, Finishes, IsNop
  <2> QED BY <1>2, <1>4, <2>1, AtEx, EmptyHolds
<1> QED BY <1>3, <1>4

\* The LoadStoreUnit.
LEMMA MemoryExecute ==
    ASSUME TypeOK, PlacesInv, NEW keep \in Keeps, Execute(keep)
    PROVE  /\ Elements(exStation'[MemPipe]) \cup Op(Result(MemPipe, keep))
                  \cup Dropped(keep, MemPipe)
                = Holds("ex", MemPipe) \cup Holds("rdOld", MemPipe)
           /\ Elements(exStation'[MemPipe]) \cap Op(Result(MemPipe, keep)) = {}
           /\ Elements(exStation'[MemPipe]) \cap Dropped(keep, MemPipe) = {}
           /\ Op(Result(MemPipe, keep)) \cap Dropped(keep, MemPipe) = {}
           /\ \A i \in Dropped(keep, MemPipe) :
                ClassOf(i) = "store" /\ i \in Holds("ex", MemPipe)
           /\ Distinct(exStation'[MemPipe])
<1> DEFINE s == exStation[MemPipe]
           len == Len(s)
           kept == [k \in DOMAIN keep |-> s[keep[k]]]
           left == {s[k] : k \in Done(keep)}
           latch == rdEx[MemPipe].old.op
<1>0. MemPipe \in Pipes
  BY PipesAssumption
<1>1. /\ s \in Seq(OpId) /\ latch \in OpId \cup {0} /\ 0 \notin OpId /\ Distinct(s)
      /\ Elements(s) = Holds("ex", MemPipe) /\ Op(latch) = Holds("rdOld", MemPipe)
      /\ Elements(s) \cap Op(latch) = {}
  BY <1>0, AtEx, Held DEF OpId
<1>2. len \in Nat /\ (\A k \in 1..len : s[k] \in OpId)
      /\ \A a, b \in 1..len : s[a] = s[b] => a = b
  BY <1>1, LenProperties, ElementOfSeq DEF Distinct
<1>3. PICK n \in 0..len : keep \in [1..n -> 1..len]
  BY DEF Keeps
<1>4. \A a, b \in 1..n : a < b => keep[a] < keep[b]
  BY <1>3 DEF Keeps
<1>5. /\ exStation'[MemPipe] = kept \o Arrived(latch)
      /\ Done(keep) = (1..len) \ {keep[k] : k \in 1..n}
      /\ Elements(s) = {s[k] : k \in 1..len}
  BY <1>0, <1>3 DEF Execute, LoadStoreStation, Done, Elements
<1> HIDE DEF s, len, latch
<1>6. kept \in Seq(OpId) /\ Len(kept) = n /\ \A k \in 1..n : kept[k] = s[keep[k]]
  <2>1. kept \in [1..n -> OpId] /\ n \in Nat
    BY <1>2, <1>3
  <2> HIDE DEF kept
  <2>2. kept \in Seq(OpId) /\ DOMAIN kept = 1..n
    BY <2>1, SeqDef
  <2>3. Len(kept) = n
    BY <2>1, <2>2, LenProperties
  <2> QED BY <1>3, <2>2, <2>3 DEF kept
<1> HIDE DEF kept, left
<1>7. Distinct(kept)
  <2>1. ASSUME NEW a \in 1..n, NEW b \in 1..n, kept[a] = kept[b]
        PROVE  a = b
    <3>1. keep[a] \in 1..len /\ keep[b] \in 1..len
      BY <1>3
    <3>2. keep[a] = keep[b]
      BY <1>2, <1>6, <2>1, <3>1
    <3>3. ~(a < b) /\ ~(b < a)
      BY <1>2, <1>4, <3>1, <3>2
    <3> QED BY <1>3, <3>3
  <2> QED BY <1>6, <2>1 DEF Distinct
<1>8. Elements(kept) \cup left = Elements(s) /\ Elements(kept) \cap left = {}
  <2>1. Elements(kept) = {s[keep[k]] : k \in 1..n}
    BY <1>6 DEF Elements
  <2>2. \A k \in 1..n : keep[k] \in 1..len
    BY <1>3
  <2>3. left = {s[k] : k \in Done(keep)} /\ Done(keep) \subseteq 1..len
    BY <1>5 DEF left
  <2>4. \A a \in 1..len : a \in Done(keep) \/ \E k \in 1..n : a = keep[k]
    BY <1>5
  <2>5. Elements(kept) \cup left = Elements(s)
    <3>1. \A a \in 1..len : s[a] \in left \/ s[a] \in Elements(kept)
      BY <2>1, <2>3, <2>4
    <3>2. Elements(kept) \subseteq Elements(s) /\ left \subseteq Elements(s)
      BY <1>5, <2>1, <2>2, <2>3
    <3> QED BY <1>5, <3>1, <3>2
  <2>6. \A k \in 1..n : keep[k] \notin Done(keep)
    BY <1>5
  <2>7. \A k \in 1..n, b \in Done(keep) : s[keep[k]] # s[b]
    BY <1>2, <2>2, <2>3, <2>6
  <2> QED BY <2>1, <2>3, <2>5, <2>7, Zenon
<1>9. /\ Elements(exStation'[MemPipe]) = Elements(kept) \cup Op(latch)
      /\ Distinct(exStation'[MemPipe])
  <2>1. Elements(kept) \cap Op(latch) = {}
    BY <1>1, <1>8
  <2> QED BY <1>1, <1>5, <1>6, <1>7, <2>1, Joined
<1>10. /\ DoneOf(keep, "load") \cup DoneOf(keep, "store") = left
       /\ \A i \in DoneOf(keep, "load") : ClassOf(i) = "load"
       /\ \A i \in DoneOf(keep, "store") : ClassOf(i) = "store"
  <2>1. \A i \in left : ClassOf(i) \in {"load", "store"}
    <3>1. left \subseteq Holds("ex", MemPipe)
      BY <1>1, <1>8
    <3> QED BY <1>0, <3>1, InLane DEF Spots
  <2>2. \A c : DoneOf(keep, c) = {i \in left : ClassOf(i) = c}
    BY DEF DoneOf, left, s
  <2> QED BY <2>1, <2>2
<1>11. Op(Result(MemPipe, keep)) = DoneOf(keep, "load")
  <2>1. ASSUME NEW i \in DoneOf(keep, "load"), NEW j \in DoneOf(keep, "load")
        PROVE  i = j
    <3>1. PICK a \in Done(keep) : s[a] = i /\ ClassOf(s[a]) = "load"
      BY DEF DoneOf, s
    <3>2. PICK b \in Done(keep) : s[b] = j /\ ClassOf(s[b]) = "load"
      BY DEF DoneOf, s
    <3>3. \A c \in Done(keep) : ClassOf(s[c]) = "load" =>
            \A d \in 1..(c - 1) : ClassOf(s[d]) = "store"
      BY DEF Execute, LoadsInOrder, s
    <3>4. a \in 1..len /\ b \in 1..len
      BY <1>5
    <3>5. ~(a < b) /\ ~(b < a)
      <4>1. a < b => a \in 1..(b - 1)
        BY <1>2, <3>4
      <4>2. b < a => b \in 1..(a - 1)
        BY <1>2, <3>4
      <4> QED BY <3>1, <3>2, <3>3, <4>1, <4>2
    <3> QED BY <1>2, <3>1, <3>2, <3>4, <3>5
  <2>2. DoneOf(keep, "load") \subseteq OpId
    BY KeepsType
  <2>3. CASE DoneOf(keep, "load") = {}
    BY <2>3, EmptyHolds DEF Result
  <2>4. CASE DoneOf(keep, "load") # {}
    <3>1. Result(MemPipe, keep) \in DoneOf(keep, "load")
      BY <2>4 DEF Result
    <3> QED BY <1>1, <2>1, <2>2, <3>1 DEF Op
  <2> QED BY <2>3, <2>4
<1>12. Dropped(keep, MemPipe) = DoneOf(keep, "store")
  BY DEF Dropped
<1>13. left \cap Op(latch) = {}
  BY <1>1, <1>8
<1> QED BY <1>1, <1>8, <1>9, <1>10, <1>11, <1>12, <1>13

\* What the EX units do to the lanes.
LEMMA MoveExecute ==
    ASSUME StageInv, PlacesInv, NEW keep \in Keeps, Execute(keep)
    PROVE  /\ retired' = retired \cup UNION {Dropped(keep, p) : p \in Pipes}
           /\ \A p \in Pipes :
                /\ Holds("wbOld", p) = {} /\ Holds("wbOld", p)' = {}
                /\ Holds("wbNew", p) = {} /\ Holds("wbNew", p)' = Op(Result(p, keep))
                /\ Holds("rdOld", p)' = {} /\ Holds("rdNew", p)' = Holds("rdNew", p)
                /\ Holds("decOld", p)' = Holds("decOld", p)
                /\ Holds("decNew", p)' = Holds("decNew", p)
                /\ Holds("ex", p)' \cup Holds("wbNew", p)' \cup Dropped(keep, p)
                     = Holds("ex", p) \cup Holds("rdOld", p)
                /\ Holds("ex", p)' \cap Holds("wbNew", p)' = {}
                /\ Holds("ex", p)' \cap Dropped(keep, p) = {}
                /\ Holds("wbNew", p)' \cap Dropped(keep, p) = {}
                /\ \A i \in Dropped(keep, p) :
                     ClassOf(i) = "nop" \/ (ClassOf(i) = "store" /\ i \in Holds("ex", p))
                /\ Distinct(exStation'[p])
<1>0. TypeOK /\ LatchInv /\ PhaseInv
  BY DEF StageInv
<1>1. ASSUME NEW p \in Pipes
      PROVE  /\ exWb[p].old = 0 /\ exWb[p].new = 0
             /\ exWb'[p].old = 0 /\ exWb'[p].new = Result(p, keep)
             /\ rdEx'[p].old.op = 0 /\ rdEx'[p].new = rdEx[p].new
             /\ decRd' = decRd
  <2>1. exWb[p].old = 0 /\ exWb[p].new = 0
    BY <1>0 DEF PhaseInv, Execute
  <2>2. exWb'[p] = [exWb[p] EXCEPT !.new = Result(p, keep)]
        /\ rdEx'[p] = [rdEx[p] EXCEPT !.old = EmptyRead] /\ decRd' = decRd
    BY DEF Execute
  <2>3. exWb[p] \in [old : Entry, new : Entry] /\ rdEx[p] \in [old : ReadEntry, new : ReadEntry]
    BY <1>0 DEF TypeOK
  <2> QED BY <2>1, <2>2, <2>3 DEF EmptyRead
<1>2. retired' = retired \cup UNION {Dropped(keep, p) : p \in Pipes}
  <2>1. ~IsNop(MemPipe)
    <3> SUFFICES ASSUME IsNop(MemPipe) PROVE FALSE
      OBVIOUS
    <3>1. Station(MemPipe) # <<>> /\ ClassOf(Head(Station(MemPipe))) = "nop"
      BY DEF IsNop
    <3>2. MemPipe \in Pipes
      BY PipesAssumption
    <3>3. Head(Station(MemPipe)) \in Elements(Station(MemPipe))
      BY <1>0, <3>1, <3>2, StationType, HeadLeaves, AtEx
    <3> QED BY <1>0, <3>1, <3>2, <3>3, AtEx, InLane DEF Spots
  <2> DEFINE nops == {Head(Station(p)) : p \in {q \in Pipes : IsNop(q)}}
             drops == UNION {Dropped(keep, p) : p \in Pipes}
  <2>2. retired' = retired \cup DoneOf(keep, "store") \cup nops
    BY DEF Execute
  <2>3. MemPipe \in Pipes /\ Dropped(keep, MemPipe) = DoneOf(keep, "store")
    BY PipesAssumption DEF Dropped
  <2>4. ASSUME NEW i \in nops
        PROVE  i \in drops
    <3>1. PICK p \in Pipes : IsNop(p) /\ i = Head(Station(p))
      OBVIOUS
    <3>2. i \in Dropped(keep, p)
      BY <2>1, <3>1 DEF Dropped
    <3> QED BY <3>2
  <2>5. ASSUME NEW p \in Pipes, NEW i \in Dropped(keep, p)
        PROVE  i \in DoneOf(keep, "store") \cup nops
    BY DEF Dropped
  <2>6. drops = DoneOf(keep, "store") \cup nops
    <3> HIDE DEF nops
    <3> QED BY <2>3, <2>4, <2>5
  <2> QED BY <2>2, <2>6
<1>3. ASSUME NEW p \in Pipes
      PROVE  /\ Holds("wbOld", p) = {} /\ Holds("wbOld", p)' = {}
             /\ Holds("wbNew", p) = {} /\ Holds("wbNew", p)' = Op(Result(p, keep))
             /\ Holds("rdOld", p)' = {} /\ Holds("rdNew", p)' = Holds("rdNew", p)
             /\ Holds("decOld", p)' = Holds("decOld", p)
             /\ Holds("decNew", p)' = Holds("decNew", p)
             /\ Holds("ex", p)' = Elements(exStation'[p])
  BY <1>1, Held, HeldNext, EmptyHolds
<1>4. ASSUME NEW p \in Pipes
      PROVE  /\ Elements(exStation'[p]) \cup Op(Result(p, keep)) \cup Dropped(keep, p)
                  = Holds("ex", p) \cup Holds("rdOld", p)
             /\ Elements(exStation'[p]) \cap Op(Result(p, keep)) = {}
             /\ Elements(exStation'[p]) \cap Dropped(keep, p) = {}
             /\ Op(Result(p, keep)) \cap Dropped(keep, p) = {}
             /\ \A i \in Dropped(keep, p) :
                  ClassOf(i) = "nop" \/ (ClassOf(i) = "store" /\ i \in Holds("ex", p))
             /\ Distinct(exStation'[p])
  <2>1. CASE p = MemPipe
    BY <1>0, <2>1, MemoryExecute
  <2>2. CASE p # MemPipe
    BY <1>0, <2>2, UnitExecute
  <2> QED BY <2>1, <2>2
<1>5. ASSUME NEW p \in Pipes
      PROVE  /\ Holds("ex", p)' \cup Holds("wbNew", p)' \cup Dropped(keep, p)
                  = Holds("ex", p) \cup Holds("rdOld", p)
             /\ Holds("ex", p)' \cap Holds("wbNew", p)' = {}
             /\ Holds("ex", p)' \cap Dropped(keep, p) = {}
             /\ Holds("wbNew", p)' \cap Dropped(keep, p) = {}
             /\ \A i \in Dropped(keep, p) :
                  ClassOf(i) = "nop" \/ (ClassOf(i) = "store" /\ i \in Holds("ex", p))
             /\ Distinct(exStation'[p])
  BY <1>3, <1>4
<1> QED BY <1>2, <1>3, <1>5

\* What WRITEBACK finishes.
LEMMA FinishedByWriteBack ==
    {exWb[p].old : p \in Pipes} \ {0} = UNION {Holds("wbOld", p) : p \in Pipes}
<1>1. \A p : Holds("wbOld", p) = {exWb[p].old} \ {0}
  BY Held DEF Op
<1> QED BY <1>1

-----------------------------------------------------------------------------
(* An operation is in one place *)

LEMMA PlacesInit == Init => PlacesInv
<1> SUFFICES ASSUME Init PROVE PlacesInv
  OBVIOUS
<1>1. ASSUME NEW p \in Pipes
      PROVE  /\ exWb[p].old = 0 /\ exWb[p].new = 0 /\ exStation[p] = <<>>
             /\ rdEx[p].old.op = 0 /\ rdEx[p].new.op = 0
             /\ decRd[p].old = <<>> /\ decRd[p].new = <<>>
  BY DEF Init, EmptyRead
<1>2. ASSUME NEW p \in Pipes
      PROVE  /\ Holds("wbOld", p) = {} /\ Holds("wbNew", p) = {} /\ Holds("ex", p) = {}
             /\ Holds("rdOld", p) = {} /\ Holds("rdNew", p) = {}
             /\ Holds("decOld", p) = {} /\ Holds("decNew", p) = {}
  BY <1>1, Held, EmptyHolds
<1>3. \A k \in Spots, p \in Pipes : Holds(k, p) = {}
  BY <1>2 DEF Spots
<1>4. retired = {} /\ \A p \in Pipes : Distinct(exStation[p])
  BY <1>1, EmptyDistinct DEF Init
<1> QED BY <1>3, <1>4 DEF PlacesInv

LEMMA BaseBound ==
    ASSUME TypeOK, FrontInOrder
    PROVE  Base \in Nat /\ Len(stream) \in Nat /\ Base <= Len(stream)
<1>1. \A a, b, c, d \in Nat : a - b - c - d <= a
  OBVIOUS
<1> QED BY <1>1, FrontTypes DEF FrontInOrder, Base

\* Operations that move within their lanes, and some that leave.
LEMMA PlacesMoved ==
    ASSUME TypeOK, PlacesInv,
           \A k \in Spots, p \in Pipes : \A i \in Holds(k, p)' :
             i \notin retired' /\ \E l \in Spots : i \in Holds(l, p),
           \A p \in Pipes : \A k, l \in Spots : \A i \in Holds(k, p)' \cap Holds(l, p)' : k = l,
           Base \in Nat, Base' \in Nat, Base <= Base',
           \A i \in OpId : Code(i)' = Code(i),
           retired' \subseteq 1..Base,
           \A p \in Pipes : Distinct(exStation'[p])
    PROVE  PlacesInv'
<1>0. 1..Base \subseteq 1..Base'
  OBVIOUS
<1>1. ASSUME NEW k \in Spots, NEW p \in Pipes, NEW i \in Holds(k, p)'
      PROVE  i \in 1..Base' /\ i \notin retired' /\ p \in Code(i)'.pipes
  <2>1. PICK l \in Spots : i \in Holds(l, p)
    OBVIOUS
  <2>2. i \in 1..Base /\ p \in Code(i).pipes /\ i \in OpId
    BY <2>1, HoldsType DEF PlacesInv
  <2> QED BY <1>0, <2>2
<1>2. ASSUME NEW k \in Spots, NEW l \in Spots, NEW p \in Pipes, NEW q \in Pipes,
             NEW i \in Holds(k, p)' \cap Holds(l, q)'
      PROVE  k = l /\ p = q
  <2>1. PICK m \in Spots : i \in Holds(m, p)
    OBVIOUS
  <2>2. PICK n \in Spots : i \in Holds(n, q)
    OBVIOUS
  <2>3. p = q
    BY <2>1, <2>2 DEF PlacesInv
  <2> QED BY <2>3
<1>3. \A p \in Pipes : Distinct(exStation[p])'
  BY DEF Distinct
<1> QED BY <1>0, <1>1, <1>2, <1>3 DEF PlacesInv

LEMMA PlacesQuiet ==
    ASSUME StageInv, PlacesInv, UNCHANGED <<exWb, exStation, rdEx, decRd, retired>>,
           Base' = Base, \A i \in OpId : Code(i)' = Code(i)
    PROVE  PlacesInv'
<1>1. \A k \in Spots, p \in Pipes : Holds(k, p)' = Holds(k, p)
  BY HoldsQuiet
<1>2. /\ \A k \in Spots, p \in Pipes : \A i \in Holds(k, p)' :
           i \notin retired' /\ \E l \in Spots : i \in Holds(l, p)
      /\ \A p \in Pipes : \A k, l \in Spots : \A i \in Holds(k, p)' \cap Holds(l, p)' : k = l
      /\ retired' \subseteq 1..Base
      /\ \A p \in Pipes : Distinct(exStation'[p])
  BY <1>1 DEF PlacesInv
<1>3. TypeOK /\ Base \in Nat /\ Base <= Base'
  BY BaseBound DEF StageInv
<1> QED BY <1>2, <1>3, PlacesMoved

LEMMA PlacesWriteBack == StageInv /\ PlacesInv /\ WriteBack => PlacesInv'
<1> SUFFICES ASSUME StageInv, PlacesInv, WriteBack PROVE PlacesInv'
  OBVIOUS
<1>0. TypeOK /\ FrontInOrder
  BY DEF StageInv
<1>1. /\ UNCHANGED <<stream, exStation>>
      /\ retired' = retired \cup UNION {Holds("wbOld", p) : p \in Pipes}
  BY FinishedByWriteBack DEF WriteBack
<1>2. Base' = Base /\ \A i : Code(i)' = Code(i)
  BY <1>1, FrontQuiet DEF WriteBack, front, StageInv, Code
<1>3. ASSUME NEW k \in Spots, NEW p \in Pipes, NEW i \in Holds(k, p)'
      PROVE  k # "wbOld" /\ i \in Holds(k, p)
  BY <1>0, <1>3, MoveWriteBack DEF Spots
<1>4. \A k \in Spots, p \in Pipes : \A i \in Holds(k, p)' :
        i \notin retired' /\ \E l \in Spots : i \in Holds(l, p)
  <2> TAKE k \in Spots, p \in Pipes
  <2> TAKE i \in Holds(k, p)'
  <2>1. \A q \in Pipes : i \notin Holds("wbOld", q)
    BY <1>3 DEF PlacesInv, Spots
  <2>2. i \notin retired
    BY <1>3 DEF PlacesInv
  <2> QED BY <1>1, <1>3, <2>1, <2>2
<1>5. \A p \in Pipes : \A k, l \in Spots : \A i \in Holds(k, p)' \cap Holds(l, p)' : k = l
  BY <1>3 DEF PlacesInv
<1>6. retired' \subseteq 1..Base
  <2>1. \A p \in Pipes : Holds("wbOld", p) \subseteq 1..Base
    BY DEF PlacesInv, Spots
  <2>2. retired \subseteq 1..Base
    BY DEF PlacesInv
  <2> QED BY <1>1, <2>1, <2>2
<1>7. \A p \in Pipes : Distinct(exStation'[p])
  BY <1>1 DEF PlacesInv
<1> QED BY <1>0, <1>2, <1>4, <1>5, <1>6, <1>7, BaseBound, PlacesMoved

LEMMA PlacesExecute ==
    ASSUME StageInv, PlacesInv, NEW keep \in Keeps, Execute(keep)
    PROVE  PlacesInv'
<1>0. TypeOK /\ FrontInOrder
  BY DEF StageInv
<1>1. /\ stream' = stream
      /\ retired' = retired \cup UNION {Dropped(keep, p) : p \in Pipes}
  BY MoveExecute DEF Execute
<1>2. Base' = Base /\ \A i : Code(i)' = Code(i)
  BY <1>1, FrontQuiet DEF Execute, front, StageInv, Code
<1>3. ASSUME NEW k \in Spots, NEW p \in Pipes, NEW i \in Holds(k, p)'
      PROVE  /\ \/ k \in {"rdNew", "decOld", "decNew"} /\ i \in Holds(k, p)
                \/ k \in {"ex", "wbNew"} /\ i \in Holds("ex", p) \cup Holds("rdOld", p)
             /\ i \notin Dropped(keep, p) \/ k \in {"rdNew", "decOld", "decNew"}
  <2>1. /\ Holds("wbOld", p)' = {} /\ Holds("rdOld", p)' = {}
        /\ Holds("rdNew", p)' = Holds("rdNew", p)
        /\ Holds("decOld", p)' = Holds("decOld", p)
        /\ Holds("decNew", p)' = Holds("decNew", p)
        /\ Holds("ex", p)' \cup Holds("wbNew", p)' \subseteq Holds("ex", p) \cup Holds("rdOld", p)
        /\ Holds("ex", p)' \cap Dropped(keep, p) = {}
        /\ Holds("wbNew", p)' \cap Dropped(keep, p) = {}
    BY MoveExecute
  <2> QED BY <1>3, <2>1 DEF Spots
<1>4. \A k \in Spots, p \in Pipes : \A i \in Holds(k, p)' :
        i \notin retired' /\ \E l \in Spots : i \in Holds(l, p)
  <2> TAKE k \in Spots, p \in Pipes
  <2> TAKE i \in Holds(k, p)'
  <2>1. PICK l \in Spots :
          /\ i \in Holds(l, p)
          /\ l \in {"ex", "rdOld"} \/ (l = k /\ k \in {"rdNew", "decOld", "decNew"})
    BY <1>3 DEF Spots
  <2>2. ASSUME NEW q \in Pipes
        PROVE  i \notin Dropped(keep, q)
    <3> SUFFICES ASSUME i \in Dropped(keep, q) PROVE FALSE
      OBVIOUS
    <3>1. PICK m \in {"ex", "rdOld"} : i \in Holds(m, q)
      BY MoveExecute
    <3>2. m = l /\ q = p
      BY <2>1, <3>1 DEF PlacesInv, Spots
    <3>3. k \notin {"rdNew", "decOld", "decNew"}
      <4>1. k \in {"rdNew", "decOld", "decNew"} => i \in Holds(k, p)
        BY <1>3
      <4> QED BY <3>1, <4>1 DEF PlacesInv, Spots
    <3> QED BY <1>3, <3>2, <3>3
  <2>3. i \notin retired
    BY <2>1 DEF PlacesInv
  <2> QED BY <1>1, <2>1, <2>2, <2>3
<1>5. \A p \in Pipes : \A k, l \in Spots : \A i \in Holds(k, p)' \cap Holds(l, p)' : k = l
  <2> SUFFICES ASSUME NEW p \in Pipes, NEW k \in Spots, NEW l \in Spots,
                      NEW i \in Holds(k, p)' \cap Holds(l, p)'
               PROVE  k = l
    OBVIOUS
  <2>1. Holds("ex", p)' \cap Holds("wbNew", p)' = {}
    BY MoveExecute
  <2>2. \A m, n \in Spots : i \in Holds(m, p) /\ i \in Holds(n, p) => m = n
    BY DEF PlacesInv
  <2> QED BY <1>3, <2>1, <2>2 DEF Spots
<1>6. retired' \subseteq 1..Base
  <2>1. \A p \in Pipes : Dropped(keep, p) \subseteq Holds("ex", p) \cup Holds("rdOld", p)
    BY MoveExecute
  <2>2. \A p \in Pipes : Holds("ex", p) \cup Holds("rdOld", p) \subseteq 1..Base
    BY DEF PlacesInv, Spots
  <2>3. retired \subseteq 1..Base
    BY DEF PlacesInv
  <2> QED BY <1>1, <2>1, <2>2, <2>3
<1>7. \A p \in Pipes : Distinct(exStation'[p])
  BY MoveExecute
<1> QED BY <1>0, <1>2, <1>4, <1>5, <1>6, <1>7, BaseBound, PlacesMoved

LEMMA PlacesOpRead == StageInv /\ PlacesInv /\ OpRead => PlacesInv'
<1> SUFFICES ASSUME StageInv, PlacesInv, OpRead PROVE PlacesInv'
  OBVIOUS
<1>0. TypeOK /\ FrontInOrder
  BY DEF StageInv
<1>1. UNCHANGED <<stream, retired, exStation>>
  BY DEF OpRead, history
<1>2. Base' = Base /\ \A i : Code(i)' = Code(i)
  BY <1>1, FrontQuiet DEF OpRead, front, StageInv, Code
<1>3. ASSUME NEW k \in Spots, NEW p \in Pipes, NEW i \in Holds(k, p)'
      PROVE  k # "decOld" /\ (i \in Holds(k, p) \/ (k = "rdNew" /\ i \in Holds("decOld", p)))
  <2>1. /\ Holds("decOld", p)' = {} /\ Holds("rdOld", p)' = Holds("rdOld", p)
        /\ Holds("rdNew", p)' \subseteq Holds("rdNew", p) \cup Holds("decOld", p)
        /\ Holds("wbOld", p)' = Holds("wbOld", p) /\ Holds("wbNew", p)' = Holds("wbNew", p)
        /\ Holds("ex", p)' = Holds("ex", p)
        /\ Holds("decNew", p)' = Holds("decNew", p)
    BY MoveOpRead
  <2> QED BY <1>3, <2>1 DEF Spots
<1>4. \A k \in Spots, p \in Pipes : \A i \in Holds(k, p)' :
        i \notin retired' /\ \E l \in Spots : i \in Holds(l, p)
  BY <1>1, <1>3 DEF PlacesInv, Spots
<1>5. \A p \in Pipes : \A k, l \in Spots : \A i \in Holds(k, p)' \cap Holds(l, p)' : k = l
  BY <1>3 DEF PlacesInv, Spots
<1>6. retired' \subseteq 1..Base /\ \A p \in Pipes : Distinct(exStation'[p])
  BY <1>1 DEF PlacesInv
<1> QED BY <1>0, <1>2, <1>4, <1>5, <1>6, BaseBound, PlacesMoved

LEMMA PlacesDecode ==
    ASSUME StageInv, PlacesInv, NEW lane \in Lanes, Decode(lane)
    PROVE  PlacesInv'
<1>0. TypeOK /\ FrontInOrder /\ Base \in Nat
  BY DEF StageInv, FrontInOrder
<1>1. UNCHANGED <<stream, retired, exStation>> /\ \A i : Code(i)' = Code(i)
  BY DEF Decode, history, Code
<1>2. Base' = Base + Len(lane) /\ Len(lane) \in Nat
  BY MoveDecode
<1>3. ASSUME NEW k \in Spots, NEW p \in Pipes, NEW i \in Holds(k, p)'
      PROVE  \/ k # "decNew" /\ i \in Holds(k, p)
             \/ k = "decNew" /\ \E j \in 1..Len(lane) : i = Base + j /\ lane[j] = p
  BY <1>3, MoveDecode DEF Spots
<1>4. ASSUME NEW k \in Spots, NEW p \in Pipes, NEW i \in Holds(k, p)'
      PROVE  /\ i \in 1..Base' /\ i \notin retired' /\ p \in Code(i)'.pipes
             /\ k = "decNew" <=> i \notin 1..Base
  <2>1. CASE k # "decNew" /\ i \in Holds(k, p)
    BY <1>0, <1>1, <1>2, <2>1 DEF PlacesInv
  <2>2. CASE k = "decNew" /\ \E j \in 1..Len(lane) : i = Base + j /\ lane[j] = p
    <3>1. PICK j \in 1..Len(lane) : i = Base + j /\ lane[j] = p
      BY <2>2
    <3>2. p \in Code(i).pipes
      BY <3>1, MoveDecode
    <3>3. i \in 1..Base' /\ i \notin 1..Base
      BY <1>0, <1>2, <3>1
    <3>4. i \notin retired
      BY <3>3 DEF PlacesInv
    <3> QED BY <1>1, <2>2, <3>2, <3>3, <3>4
  <2> QED BY <1>3, <2>1, <2>2
<1>5. ASSUME NEW k \in Spots, NEW l \in Spots, NEW p \in Pipes, NEW q \in Pipes,
             NEW i \in Holds(k, p)' \cap Holds(l, q)'
      PROVE  k = l /\ p = q
  <2>1. CASE k = "decNew"
    <3>1. l = "decNew"
      BY <1>4, <2>1
    <3>2. PICK a \in 1..Len(lane) : i = Base + a /\ lane[a] = p
      BY <1>3, <2>1
    <3>3. PICK b \in 1..Len(lane) : i = Base + b /\ lane[b] = q
      BY <1>3, <3>1
    <3>4. a = b
      BY <1>0, <1>2, <3>2, <3>3
    <3> QED BY <2>1, <3>1, <3>2, <3>3, <3>4
  <2>2. CASE k # "decNew"
    <3>1. l # "decNew"
      BY <1>4, <2>2
    <3> QED BY <1>3, <2>2, <3>1 DEF PlacesInv
  <2> QED BY <2>1, <2>2
<1>6. \A p \in Pipes : Distinct(exStation[p])'
  BY <1>1 DEF PlacesInv, Distinct
<1>7. retired' \subseteq 1..Base'
  BY <1>0, <1>1, <1>2 DEF PlacesInv
<1> QED BY <1>4, <1>5, <1>6, <1>7 DEF PlacesInv

LEMMA PlacesRecover == StageInv /\ PlacesInv /\ Recover => PlacesInv'
<1> SUFFICES ASSUME StageInv, PlacesInv, Recover PROVE PlacesInv'
  OBVIOUS
<1>0. TypeOK /\ FrontInOrder
  BY DEF StageInv
<1>1. UNCHANGED <<stream, retired, exStation>> /\ \A i : Code(i)' = Code(i)
  BY DEF Recover, Flush, history, Code
<1>2. Base' = Len(stream)
  BY <1>0, FrontRecover
<1>3. ASSUME NEW k \in Spots, NEW p \in Pipes, NEW i \in Holds(k, p)'
      PROVE  i \in Holds(k, p)
  BY <1>3, MoveRecover DEF Spots
<1>4. /\ \A k \in Spots, p \in Pipes : \A i \in Holds(k, p)' :
           i \notin retired' /\ \E l \in Spots : i \in Holds(l, p)
      /\ \A p \in Pipes : \A k, l \in Spots : \A i \in Holds(k, p)' \cap Holds(l, p)' : k = l
      /\ retired' \subseteq 1..Base
      /\ \A p \in Pipes : Distinct(exStation'[p])
  BY <1>1, <1>3 DEF PlacesInv
<1> QED BY <1>0, <1>1, <1>2, <1>4, BaseBound, PlacesMoved

LEMMA PlacesUpdate == StageInv /\ PlacesInv /\ Update => PlacesInv'
<1> SUFFICES ASSUME StageInv, PlacesInv, Update PROVE PlacesInv'
  OBVIOUS
<1>0. TypeOK /\ FrontInOrder
  BY DEF StageInv
<1>1. UNCHANGED <<stream, retired, exStation>> /\ \A i : Code(i)' = Code(i)
  BY DEF Update, history, Code
<1>2. Base' = Base
  BY FrontUpdate DEF StageInv
<1>3. ASSUME NEW p \in Pipes
      PROVE  \A k, l \in Spots : \A i \in Holds(k, p)' \cap Holds(l, p)' : k = l
  <2>1. \A i : \A m, n \in Spots : i \in Holds(m, p) /\ i \in Holds(n, p) => m = n
    BY DEF PlacesInv
  <2> QED BY <2>1, MoveUpdate DEF Spots
<1>4. \A k \in Spots, p \in Pipes : \A i \in Holds(k, p)' : \E l \in Spots : i \in Holds(l, p)
  BY MoveUpdate DEF Spots
<1>5. retired' \subseteq 1..Base /\ \A p \in Pipes : Distinct(exStation'[p])
  BY <1>1 DEF PlacesInv
<1>6. \A k \in Spots, p \in Pipes : \A i \in Holds(k, p)' : i \notin retired'
  BY <1>1, <1>4 DEF PlacesInv
<1> QED BY <1>0, <1>1, <1>2, <1>3, <1>4, <1>5, <1>6, BaseBound, PlacesMoved

LEMMA PlacesNext == StageInv /\ PlacesInv /\ [Next]_vars => PlacesInv'
<1> SUFFICES ASSUME StageInv, PlacesInv, [Next]_vars PROVE PlacesInv'
  OBVIOUS
<1>0. TypeOK /\ LatchInv /\ FrontInOrder
  BY DEF StageInv
<1>1. CASE Preprocess \/ DecodeStalled \/ FetchStalled \/ EndOfSimulation \/ UNCHANGED vars
  <2>1. UNCHANGED <<exWb, exStation, rdEx, decRd, retired, stream, instBuffer, fetDec>>
    BY <1>1 DEF Preprocess, DecodeStalled, FetchStalled, EndOfSimulation, vars, lanes,
                history, front
  <2>2. Base' = Base /\ \A i : Code(i)' = Code(i)
    BY <2>1 DEF Base, Code
  <2> QED BY <2>1, <2>2, PlacesQuiet
<1>2. ASSUME NEW group \in Groups, Fetch(group)
      PROVE  PlacesInv'
  <2>1. UNCHANGED <<exWb, exStation, rdEx, decRd, retired>>
    BY <1>2 DEF Fetch, lanes
  <2>2. Base' = Base
    BY <1>0, <1>2, FrontFetch
  <2>3. \A i \in OpId : Code(i)' = Code(i)
    BY <1>0, <1>2, FetchedGroup DEF Code
  <2> QED BY <2>1, <2>2, <2>3, PlacesQuiet
<1>3. CASE WriteBack \/ OpRead \/ Recover \/ Update
  BY <1>3, PlacesWriteBack, PlacesOpRead, PlacesRecover, PlacesUpdate
<1>4. CASE \E keep \in Keeps : Execute(keep)
  BY <1>4, PlacesExecute
<1>5. CASE \E lane \in Lanes : Decode(lane)
  BY <1>5, PlacesDecode
<1> QED BY <1>1, <1>2, <1>3, <1>4, <1>5 DEF Next

-----------------------------------------------------------------------------
(* No operation is in two places *)

LaneSpots == {"ex", "rdOld", "rdNew", "decOld", "decNew"}

LEMMA JoinElements ==
    ASSUME NEW S, NEW s \in Seq(S), NEW t \in Seq(S)
    PROVE  s \o t \in Seq(S) /\ Elements(s \o t) = Elements(s) \cup Elements(t)
<1> DEFINE a == Len(s)
           b == Len(t)
           u == s \o t
<1>1. /\ u \in Seq(S) /\ Len(u) = a + b /\ a \in Nat /\ b \in Nat
      /\ \A k \in 1..(a + b) : u[k] = IF k <= a THEN s[k] ELSE t[k - a]
  BY ConcatProperties, LenProperties
<1>2. /\ Elements(u) = {u[k] : k \in 1..(a + b)}
      /\ Elements(s) = {s[k] : k \in 1..a} /\ Elements(t) = {t[k] : k \in 1..b}
  BY <1>1 DEF Elements
<1> HIDE DEF a, b, u
<1>a. a \in Nat /\ b \in Nat
  BY <1>1
<1>3. \A k \in 1..a : k \in 1..(a + b) /\ k <= a
  BY <1>a
<1>4. \A k \in 1..b : a + k \in 1..(a + b) /\ ~(a + k <= a) /\ a + k - a = k
  BY <1>a
<1>5. \A k \in 1..(a + b) : k \in 1..a \/ (~(k <= a) /\ k - a \in 1..b)
  BY <1>a
<1>6. \A k \in 1..a : s[k] \in Elements(u)
  BY <1>1, <1>2, <1>3
<1>7. ASSUME NEW k \in 1..b
      PROVE  t[k] \in Elements(u)
  <2>1. u[a + k] = t[k]
    BY <1>1, <1>4
  <2> QED BY <1>2, <1>4, <2>1
<1>8. \A k \in 1..(a + b) : u[k] \in Elements(s) \cup Elements(t)
  BY <1>1, <1>2, <1>3, <1>5
<1>9. Elements(u) = Elements(s) \cup Elements(t)
  BY <1>2, <1>6, <1>7, <1>8
<1> QED BY <1>1, <1>9 DEF u

LEMMA LaneElements ==
    ASSUME StageInv, NEW p \in Pipes
    PROVE  \A i : i \in Elements(LaneQueue(p)) <=> \E k \in LaneSpots : i \in Holds(k, p)
<1> DEFINE s1 == exStation[p] \o Arrived(rdEx[p].old.op)
           s2 == s1 \o Arrived(rdEx[p].new.op)
           s3 == s2 \o rdStation[p]
           s4 == s3 \o decRd[p].old
<1>1. /\ exStation[p] \in Seq(OpId) /\ rdStation[p] = <<>>
      /\ decRd[p].old \in Seq(OpId) /\ decRd[p].new \in Seq(OpId)
      /\ rdEx[p].old.op \in OpId \cup {0} /\ rdEx[p].new.op \in OpId \cup {0}
      /\ 0 \notin OpId /\ <<>> \in Seq(OpId)
  <2>1. rdEx[p].old.op \in Entry /\ rdEx[p].new.op \in Entry
    BY DEF StageInv, TypeOK, ReadEntry
  <2>2. rdStation[p] = <<>>
    BY DEF StageInv, LatchInv, LatchDiscipline
  <2>3. 0 \notin OpId /\ <<>> \in Seq(OpId)
    BY DEF OpId
  <2>4. /\ exStation[p] \in Seq(OpId)
        /\ decRd[p].old \in Seq(OpId) /\ decRd[p].new \in Seq(OpId)
    BY DEF StageInv, TypeOK
  <2> QED BY <2>1, <2>2, <2>3, <2>4 DEF Entry
<1>2. /\ Arrived(rdEx[p].old.op) \in Seq(OpId) /\ Arrived(rdEx[p].new.op) \in Seq(OpId)
      /\ Elements(Arrived(rdEx[p].new.op)) = Op(rdEx[p].new.op)
  <2>1. rdEx[p].new.op = 0 \/ Arrived(rdEx[p].new.op) = <<rdEx[p].new.op>>
    BY DEF Arrived
  <2>2. rdEx[p].new.op # 0 => Op(rdEx[p].new.op) = {rdEx[p].new.op}
    BY DEF Op
  <2>3. rdEx[p].new.op = 0 => Arrived(rdEx[p].new.op) = <<>>
    BY DEF Arrived
  <2> QED BY <1>1, <2>1, <2>2, <2>3, ArrivedType, SingleElement, EmptyHolds
<1>3. s1 \in Seq(OpId) /\ Elements(s1) = Holds("ex", p) \cup Holds("rdOld", p)
  BY <1>1, <1>2, Joined, JoinElements, Held
<1>4. LaneQueue(p) = s4 \o decRd[p].new
  BY DEF LaneQueue
<1> HIDE DEF s1
<1>5. s2 \in Seq(OpId) /\ Elements(s2) = Elements(s1) \cup Holds("rdNew", p)
  BY <1>2, <1>3, JoinElements, Held
<1> HIDE DEF s2
<1>6. s3 = s2
  BY <1>1, <1>5, ConcatEmptySeq
<1> HIDE DEF s3
<1>7. s4 \in Seq(OpId) /\ Elements(s4) = Elements(s2) \cup Holds("decOld", p)
  BY <1>1, <1>5, <1>6, JoinElements, Held
<1> HIDE DEF s4
<1>8. Elements(LaneQueue(p)) = Elements(s4) \cup Holds("decNew", p)
  BY <1>1, <1>4, <1>7, JoinElements, Held
<1>9. Elements(LaneQueue(p)) = Holds("ex", p) \cup Holds("rdOld", p) \cup Holds("rdNew", p)
                                 \cup Holds("decOld", p) \cup Holds("decNew", p)
  BY <1>3, <1>5, <1>7, <1>8
<1> QED BY <1>9 DEF LaneSpots

\* The front end holds what has been fetched and not issued.
LEMMA FrontElements ==
    ASSUME StageInv, NEW i \in OpId
    PROVE  i \in Elements(FrontQueue) <=> Base < i
<1> DEFINE a == Len(instBuffer)
           b == Len(fetDec.old)
           c == Len(fetDec.new)
<1>1. /\ instBuffer \in Seq(OpId) /\ fetDec.old \in Seq(OpId) /\ fetDec.new \in Seq(OpId)
      /\ a \in Nat /\ b \in Nat /\ c \in Nat /\ Base \in Nat
      /\ Len(stream) \in Nat /\ Base = Len(stream) - a - b - c
  BY FrontTypes DEF StageInv, TypeOK, FrontInOrder, Base
<1>2. Elements(FrontQueue) = Elements(instBuffer) \cup Elements(fetDec.old)
                               \cup Elements(fetDec.new)
  <2> DEFINE s == instBuffer \o fetDec.old
  <2>1. /\ s \in Seq(OpId)
        /\ Elements(s) = Elements(instBuffer) \cup Elements(fetDec.old)
    BY <1>1, JoinElements
  <2>2. FrontQueue = s \o fetDec.new
    BY DEF FrontQueue
  <2> HIDE DEF s
  <2>3. Elements(s \o fetDec.new) = Elements(s) \cup Elements(fetDec.new)
    BY <1>1, <2>1, JoinElements
  <2> QED BY <2>1, <2>2, <2>3
<1>3. /\ Elements(instBuffer) = {instBuffer[k] : k \in 1..a}
      /\ Elements(fetDec.old) = {fetDec.old[k] : k \in 1..b}
      /\ Elements(fetDec.new) = {fetDec.new[k] : k \in 1..c}
  BY DEF Elements
<1>4. /\ \A k \in 1..a : instBuffer[k] = Base + k
      /\ \A k \in 1..b : fetDec.old[k] = Base + a + k
      /\ \A k \in 1..c : fetDec.new[k] = Base + a + b + k
  BY DEF StageInv, FrontInOrder
<1> HIDE DEF a, b, c
<1>5. ASSUME i \in Elements(FrontQueue) PROVE Base < i
  <2>1. \/ \E k \in 1..a : i = Base + k
        \/ \E k \in 1..b : i = Base + a + k
        \/ \E k \in 1..c : i = Base + a + b + k
    BY <1>2, <1>3, <1>4, <1>5
  <2>2. \A x, y, z \in Nat : \A k \in 1..z : x < x + k /\ x < x + y + k
    OBVIOUS
  <2>3. \A w, x, y, z \in Nat : \A k \in 1..z : x < x + y + w + k
    OBVIOUS
  <2> QED BY <1>1, <2>1, <2>2, <2>3
<1>6. ASSUME Base < i PROVE i \in Elements(FrontQueue)
  <2> DEFINE k == i - Base
  <2>1. i \in Nat /\ i <= Len(stream) /\ Len(stream) = Base + a + b + c
    <3>1. \A l, x, y, z, w \in Nat : w = l - x - y - z => l = w + x + y + z
      OBVIOUS
    <3> QED BY <1>1, <3>1 DEF OpId
  <2>2. k \in Nat /\ k # 0 /\ i = Base + k /\ k <= a + b + c
    BY <1>1, <1>6, <2>1
  <2> HIDE DEF k
  <2>3. CASE k <= a
    <3>1. k \in 1..a
      BY <1>1, <2>2, <2>3
    <3> QED BY <1>2, <1>3, <1>4, <2>2, <3>1
  <2>4. CASE a < k /\ k <= a + b
    <3>1. k - a \in 1..b /\ Base + a + (k - a) = i
      BY <1>1, <2>2, <2>4
    <3> QED BY <1>2, <1>3, <1>4, <3>1
  <2>5. CASE a + b < k
    <3>1. k - a - b \in 1..c /\ Base + a + b + (k - a - b) = i
      BY <1>1, <2>2, <2>5
    <3> QED BY <1>2, <1>3, <1>4, <3>1
  <2> QED BY <1>1, <2>2, <2>3, <2>4, <2>5
<1> QED BY <1>5, <1>6

LEMMA PlacesAre ==
    ASSUME StageInv, PlacesInv, NEW i \in OpId
    PROVE  /\ Base < i => Places(i) = {<<"front", 0>>}
           /\ i \in retired => Places(i) = {<<"retired", 0>>}
           /\ (\E k \in Spots, p \in Pipes : i \in Holds(k, p)) => \E x : Places(i) = {x}
           /\ \/ Base < i \/ i \in retired
              \/ \E k \in Spots, p \in Pipes : i \in Holds(k, p)
              \/ Places(i) = {}
<1> DEFINE inLanes == {q \in Pipes : i \in Elements(LaneQueue(q))}
           inOld == {q \in Pipes : exWb[q].old = i}
           inNew == {q \in Pipes : exWb[q].new = i}
<1>1. /\ inLanes = {q \in Pipes : \E k \in LaneSpots : i \in Holds(k, q)}
      /\ inOld = {q \in Pipes : i \in Holds("wbOld", q)}
      /\ inNew = {q \in Pipes : i \in Holds("wbNew", q)}
  <2>1. i # 0
    BY DEF OpId
  <2> QED BY <2>1, LaneElements, Held DEF Op
<1>2. /\ i \in Elements(FrontQueue) <=> Base < i
      /\ Base \in Nat /\ i \in Nat
      /\ \A k \in Spots, p \in Pipes : i \in Holds(k, p) => ~(Base < i) /\ i \notin retired
      /\ i \in retired => ~(Base < i)
  <2>1. Base \in Nat /\ i \in Nat
    BY DEF StageInv, FrontInOrder, OpId
  <2>2. \A j \in 1..Base : ~(Base < j)
    BY <2>1
  <2> QED BY <2>1, <2>2, FrontElements DEF PlacesInv
<1>3. Places(i) = {<<"lane", p>> : p \in inLanes}
                   \cup {<<"wbOld", p>> : p \in inOld} \cup {<<"wbNew", p>> : p \in inNew}
                   \cup (IF Base < i THEN {<<"front", 0>>} ELSE {})
                   \cup (IF i \in retired THEN {<<"retired", 0>>} ELSE {})
  BY <1>2 DEF Places
<1>4. LaneSpots \subseteq Spots /\ "wbOld" \in Spots /\ "wbNew" \in Spots
      /\ "wbOld" \notin LaneSpots /\ "wbNew" \notin LaneSpots
      /\ \A k \in Spots : k \in LaneSpots \/ k = "wbOld" \/ k = "wbNew"
  BY DEF Spots, LaneSpots
<1> HIDE DEF inLanes, inOld, inNew
<1>5. ASSUME \A k \in Spots, p \in Pipes : i \notin Holds(k, p)
      PROVE  inLanes = {} /\ inOld = {} /\ inNew = {}
  BY <1>1, <1>4, <1>5
<1>6. ASSUME NEW k \in Spots, NEW p \in Pipes, i \in Holds(k, p)
      PROVE  \E x : Places(i) = {x}
  <2>1. \A l \in Spots, q \in Pipes : i \in Holds(l, q) => l = k /\ q = p
    BY <1>6 DEF PlacesInv
  <2>2. ~(Base < i) /\ i \notin retired
    BY <1>2, <1>6
  <2>3. CASE k \in LaneSpots
    <3>1. inLanes = {p} /\ inOld = {} /\ inNew = {}
      BY <1>1, <1>4, <1>6, <2>1, <2>3
    <3>2. Places(i) = {<<"lane", p>>}
      BY <1>3, <2>2, <3>1
    <3> QED BY <3>2
  <2>4. CASE k = "wbOld"
    <3>1. inLanes = {} /\ inOld = {p} /\ inNew = {}
      BY <1>1, <1>4, <1>6, <2>1, <2>4
    <3>2. Places(i) = {<<"wbOld", p>>}
      BY <1>3, <2>2, <3>1
    <3> QED BY <3>2
  <2>5. CASE k = "wbNew"
    <3>1. inLanes = {} /\ inOld = {} /\ inNew = {p}
      BY <1>1, <1>4, <1>6, <2>1, <2>5
    <3>2. Places(i) = {<<"wbNew", p>>}
      BY <1>3, <2>2, <3>1
    <3> QED BY <3>2
  <2> QED BY <1>4, <2>3, <2>4, <2>5
<1>7. ASSUME Base < i \/ i \in retired
      PROVE  \A k \in Spots, p \in Pipes : i \notin Holds(k, p)
  BY <1>2, <1>7
<1>8. Base < i => Places(i) = {<<"front", 0>>}
  <2> SUFFICES ASSUME Base < i PROVE Places(i) = {<<"front", 0>>}
    OBVIOUS
  <2>1. inLanes = {} /\ inOld = {} /\ inNew = {} /\ i \notin retired
    BY <1>2, <1>5, <1>7
  <2> QED BY <1>3, <2>1
<1>9. i \in retired => Places(i) = {<<"retired", 0>>}
  <2> SUFFICES ASSUME i \in retired PROVE Places(i) = {<<"retired", 0>>}
    OBVIOUS
  <2>1. inLanes = {} /\ inOld = {} /\ inNew = {} /\ ~(Base < i)
    BY <1>2, <1>5, <1>7
  <2> QED BY <1>3, <2>1
<1>10. ASSUME ~(Base < i), i \notin retired, \A k \in Spots, p \in Pipes : i \notin Holds(k, p)
       PROVE  Places(i) = {}
  <2>1. inLanes = {} /\ inOld = {} /\ inNew = {}
    BY <1>5, <1>10
  <2> QED BY <1>3, <1>10, <2>1
<1> QED BY <1>6, <1>8, <1>9, <1>10

\* An operation is in at most one of the places ExactlyOnce counts: no unit
\* hands on an operation and keeps it.
NeverTwice == \A i \in OpId : Cardinality(Places(i)) <= 1

\* An operation is never in two places: no latch or station repeats it, and
\* what has been retired is nowhere else, through every stall, partial issue
\* and recovery.
THEOREM OneOfEach == Spec => []NeverTwice
<1>1. StageInv /\ PlacesInv => NeverTwice
  <2> SUFFICES ASSUME StageInv, PlacesInv, NEW i \in OpId
               PROVE  Cardinality(Places(i)) <= 1
    BY DEF NeverTwice
  <2>1. Places(i) = {} \/ \E x : Places(i) = {x}
    BY PlacesAre
  <2>2. Cardinality(Places(i)) = 0 \/ Cardinality(Places(i)) = 1
    BY <2>1, FS_EmptySet, FS_Singleton
  <2> QED BY <2>2
<1>2. Init => StageInv /\ PlacesInv
  BY InitType, LatchInit, FrontInit, PhaseInit, PlacesInit DEF StageInv
<1>3. StageInv /\ PlacesInv /\ [Next]_vars => StageInv' /\ PlacesInv'
  BY StageNext, PlacesNext
<1> QED BY <1>1, <1>2, <1>3, PTL DEF Spec

-----------------------------------------------------------------------------
(* A wrong path stays behind the operation that led there *)

LEMMA PathInit == Init => PathInv
<1> SUFFICES ASSUME Init PROVE PathInv
  OBVIOUS
<1>1. /\ stream = <<>> /\ OpId = {} /\ offPath = FALSE /\ mispredicted = 0
      /\ Base = 0 /\ Len(stream) = 0
  BY FrontInit DEF Init, OpId
<1>2. \A k \in Spots, p \in Pipes : Holds(k, p) = {}
  <2>1. TypeOK
    BY InitType
  <2> QED BY <1>1, <2>1, HoldsType
<1>3. FrontPath
  BY <1>1 DEF FrontPath
<1>4. LanePath
  BY <1>2 DEF LanePath, Spots
<1>5. NoTrace
  BY <1>1 DEF NoTrace
<1> QED BY <1>3, <1>4, <1>5 DEF PathInv

LEMMA StreamSame ==
    ASSUME stream' = stream
    PROVE  /\ OpId' = OpId /\ Len(stream)' = Len(stream)
           /\ \A i : /\ OnPath(i)' = OnPath(i) /\ ClassOf(i)' = ClassOf(i)
                     /\ Dest(i)' = Dest(i) /\ Srcs(i)' = Srcs(i) /\ Code(i)' = Code(i)
                     /\ Diverter(i)' = Diverter(i) /\ Returns(i)' = Returns(i)
BY DEF OpId, OnPath, ClassOf, Dest, Srcs, Code, Diverter, Returns

LEMMA BranchLane ==
    /\ BranchPipe \in Pipes /\ MemPipe \in Pipes /\ BranchPipe # MemPipe
    /\ \A k \in {"wbOld", "wbNew", "ex", "rdOld", "rdNew", "decOld", "decNew"} : k \in Spots
BY PipesAssumption DEF Spots

\* An action that leaves the lanes, the flags and the path alone.
LEMMA PathQuiet ==
    ASSUME PathInv,
           UNCHANGED <<exWb, exStation, rdEx, decRd, retired, mispredicted, ended,
                       regfile, stream, offPath>>,
           Base' = Base,
           \/ UNCHANGED phase
           \/ phase \in {"decode", "fetch"} /\ phase' \in {"fetch", "update"}
    PROVE  PathInv'
<1>1. /\ \A k \in Spots, p \in Pipes : Holds(k, p)' = Holds(k, p)
      /\ \A k \in Spots : DivertsIn(k)' = DivertsIn(k)
  BY HoldsQuiet, StreamSame, BranchLane DEF DivertsIn
<1>2. /\ PastWriteBack' = PastWriteBack /\ PastEx' = PastEx
      /\ PastRead' = PastRead /\ PastDecode' = PastDecode
  BY <1>1, StreamSame, BranchLane DEF PastWriteBack, PastEx, PastRead, PastDecode
<1>3. FrontPath'
  BY <1>2, StreamSame DEF PathInv, FrontPath
<1>4. LanePath'
  BY <1>1, <1>2, StreamSame, BranchLane DEF PathInv, LanePath
<1>5. NoTrace'
  BY StreamSame DEF PathInv, NoTrace, regfile
<1> QED BY <1>3, <1>4, <1>5 DEF PathInv

LEMMA PathPreprocess == StageInv /\ PathInv /\ Preprocess => PathInv'
<1> SUFFICES ASSUME StageInv, PathInv, Preprocess PROVE PathInv'
  OBVIOUS
<1>0. /\ UNCHANGED <<exWb, exStation, rdEx, decRd, retired, mispredicted, ended,
                     regs, regsNew, stream, offPath, instBuffer, fetDec>>
      /\ ~ended
  BY DEF Preprocess, lanes, history, front, regfile
<1>1. /\ \A k \in Spots, p \in Pipes : Holds(k, p)' = Holds(k, p)
      /\ \A k \in Spots : DivertsIn(k)' = DivertsIn(k)
  BY <1>0, HoldsQuiet, StreamSame, BranchLane DEF DivertsIn
<1>2. /\ PastWriteBack' = PastWriteBack /\ PastEx' = PastEx
      /\ PastRead' = PastRead /\ PastDecode' = PastDecode
  BY <1>0, <1>1, StreamSame, BranchLane DEF PastWriteBack, PastEx, PastRead, PastDecode
<1>3. FrontPath'
  BY <1>0, <1>2, StreamSame DEF PathInv, FrontPath, Base
<1>4. LanePath'
  BY <1>0, <1>1, <1>2, StreamSame, BranchLane DEF PathInv, LanePath
<1>5. NoTrace'
  BY <1>0, StreamSame DEF PathInv, NoTrace
<1> QED BY <1>3, <1>4, <1>5 DEF PathInv

\* What WRITEBACK writes to a register is the result of some lane.
LEMMA WrittenBack ==
    ASSUME NEW r \in Regs, Writers(r) # {}
    PROVE  \E p \in Pipes : LastWritten(r) \in Holds("wbOld", p) /\ r \in Dest(LastWritten(r))
<1>1. Writers(r) \subseteq Pipes
  BY DEF Writers
<1>2. (CHOOSE k \in Writers(r) : \A j \in Writers(r) : j <= k) \in Writers(r)
  BY <1>1, LastPipe
<1>3. \E k \in Writers(r) : LastWritten(r) = exWb[WBOrder[k]].old
  BY <1>2 DEF LastWritten
<1>4. PICK k \in Pipes : /\ LastWritten(r) = exWb[WBOrder[k]].old /\ LastWritten(r) # 0
                         /\ r \in Dest(LastWritten(r))
  BY <1>3 DEF Writers
<1>5. WBOrder[k] \in Pipes /\ LastWritten(r) \in Holds("wbOld", WBOrder[k])
  BY <1>4, PipesAssumption, Held DEF Op
<1> QED BY <1>4, <1>5

LEMMA PathWriteBack == StageInv /\ PathInv /\ WriteBack => PathInv'
<1> SUFFICES ASSUME StageInv, PathInv, WriteBack PROVE PathInv'
  OBVIOUS
<1>0. /\ UNCHANGED <<stream, offPath, instBuffer, fetDec, mispredicted, regs>>
      /\ TypeOK /\ phase = "writeback" /\ phase' = "execute"
  BY DEF WriteBack, front, StageInv
<1>1. /\ ended => ended'
      /\ Returns(exWb[BranchPipe].old) => ended'
      /\ exWb'[BranchPipe].new = exWb[BranchPipe].new
  BY BranchLane DEF WriteBack, ReturnSeen, Returns, StageInv, TypeOK
<1>2. \A k \in Spots : k # "wbOld" => DivertsIn(k)' = DivertsIn(k)
  BY <1>0, MoveWriteBack, StreamSame, BranchLane DEF DivertsIn, Spots
<1>3. /\ PastWriteBack => ended' /\ PastWriteBack'
      /\ PastEx => PastEx'
      /\ PastRead => PastRead'
      /\ PastDecode => PastDecode'
  BY <1>0, <1>1, <1>2, StreamSame, BranchLane
     DEF PastWriteBack, PastEx, PastRead, PastDecode
<1>4. FrontPath'
  BY <1>0, <1>3, StreamSame DEF PathInv, FrontPath, Base
<1>5. ASSUME NEW p \in Pipes, NEW i \in Holds("wbOld", p)
      PROVE  OnPath(i)
  BY <1>0 DEF PathInv, LanePath
<1>6. LanePath'
  BY <1>0, <1>1, <1>3, MoveWriteBack, StreamSame DEF PathInv, LanePath
<1>7. NoTrace'
  <2>1. \A i \in OpId : ~OnPath(i) => (i \in retired' => i \in retired)
    BY <1>5, FinishedByWriteBack DEF WriteBack
  <2>2. ASSUME NEW r \in Regs, NEW i \in OpId, ~OnPath(i)
        PROVE  regsNew'[r] # i
    <3>1. CASE Writers(r) = {}
      BY <2>2, <3>1 DEF WriteBack, PathInv, NoTrace
    <3>2. CASE Writers(r) # {}
      BY <1>5, <2>2, <3>2, WrittenBack DEF WriteBack
    <3> QED BY <3>1, <3>2
  <2> QED BY <1>0, <1>1, <2>1, <2>2, StreamSame DEF PathInv, NoTrace
<1> QED BY <1>4, <1>6, <1>7 DEF PathInv

\* What diverts in READ's output latch is seen to do so as it goes through EX.
LEMMA DiverterExecutes ==
    ASSUME StageInv, PlacesInv, NEW keep \in Keeps, Execute(keep),
           NEW d \in Holds("rdOld", BranchPipe), Diverter(d)
    PROVE  /\ Result(BranchPipe, keep) = d
           /\ mispredicted' = d \/ Returns(exWb'[BranchPipe].new)
<1>0. TypeOK /\ PhaseInv /\ d # 0 /\ ClassOf(d) \in Diverting
  BY DEF StageInv, Diverter, OpId
<1>1. d = rdEx[BranchPipe].old.op
  BY Held DEF Op
<1>2. Station(BranchPipe) = <<d>>
  BY <1>0, <1>1, BranchUnitEmpties DEF Arrived
<1>3. Head(<<d>>) = d /\ <<d>> # <<>>
  OBVIOUS
<1>4. Finishes(BranchPipe) /\ ~IsNop(BranchPipe)
  BY <1>0, <1>2, <1>3 DEF Finishes, IsNop, Diverting
<1>5. Result(BranchPipe, keep) = d
  BY <1>2, <1>3, <1>4, BranchLane DEF Result
<1>6. exWb'[BranchPipe].new = d
  BY <1>0, <1>5, BranchLane DEF Execute, TypeOK
<1>7. ClassOf(d) = "missed" => mispredicted' = d
  BY <1>0, <1>5 DEF Execute, Mispredicts
<1> QED BY <1>0, <1>5, <1>6, <1>7 DEF Diverting, Returns

LEMMA PathExecute ==
    ASSUME StageInv, PlacesInv, PathInv, NEW keep \in Keeps, Execute(keep)
    PROVE  PathInv'
<1>0. /\ UNCHANGED <<stream, offPath, instBuffer, fetDec, ended, regs, regsNew>>
      /\ phase = "execute" /\ phase' = "opread" /\ TypeOK /\ TypeOK'
  <2>1. [Next]_vars
    BY DEF Next
  <2> QED BY <2>1, NextType DEF Execute, front, regfile, StageInv
<1>1. mispredicted = 0 /\ exWb[BranchPipe].old = 0 /\ exWb[BranchPipe].new = 0
  BY <1>0, BranchLane DEF StageInv, PhaseInv
<1>2. PastEx => ended
  BY <1>1 DEF PastEx, PastWriteBack, Returns
<1>3. /\ DivertsIn("decOld") => DivertsIn("decOld")'
      /\ DivertsIn("decNew") => DivertsIn("decNew")'
      /\ DivertsIn("rdNew") => DivertsIn("rdNew")'
  BY <1>0, MoveExecute, StreamSame, BranchLane DEF DivertsIn
<1>4. ended => PastEx'
  BY <1>0 DEF PastEx, PastWriteBack
<1>5. DivertsIn("rdOld") => PastEx'
  <2> SUFFICES ASSUME NEW d \in Holds("rdOld", BranchPipe), Diverter(d) PROVE PastEx'
    BY DEF DivertsIn
  <2>1. mispredicted' = d \/ Returns(exWb'[BranchPipe].new)
    BY DiverterExecutes
  <2>2. d # 0
    BY DEF Diverter, OpId
  <2> QED BY <2>1, <2>2, <1>0 DEF PastEx, Returns, ClassOf, Code
<1>6. /\ PastEx => PastEx'
      /\ PastRead => PastRead'
      /\ PastDecode => PastDecode'
  BY <1>2, <1>3, <1>4, <1>5 DEF PastRead, PastDecode
<1>7. FrontPath'
  BY <1>0, <1>6, StreamSame DEF PathInv, FrontPath, Base
<1>8. ASSUME NEW p \in Pipes, NEW i \in Holds("ex", p) \cup Holds("rdOld", p), ~OnPath(i)
      PROVE  i \in Holds("rdOld", p) /\ ended
  <2>1. PastWriteBack => ended
    BY <1>2 DEF PastEx
  <2> QED BY <1>0, <1>8, <2>1 DEF PathInv, LanePath
<1>9. LanePath'
  <2>1. ASSUME NEW p \in Pipes
        PROVE  /\ \A i \in Holds("decOld", p)' \cup Holds("decNew", p)' : ~OnPath(i) => PastRead'
               /\ \A i \in Holds("rdNew", p)' : ~OnPath(i) => PastEx'
               /\ Holds("rdOld", p)' = {} /\ Holds("wbOld", p)' = {}
    BY <1>6, MoveExecute DEF PathInv, LanePath
  <2>2. ASSUME NEW p \in Pipes
        PROVE  \A i \in Holds("ex", p)' \cup Holds("wbNew", p)' : ~OnPath(i) => ended
    BY <1>8, MoveExecute
  <2> QED BY <1>0, <2>1, <2>2, StreamSame DEF LanePath
<1>10. NoTrace'
  <2>1. ASSUME NEW p \in Pipes, NEW i \in Dropped(keep, p), ~OnPath(i)
        PROVE  ClassOf(i) = "nop" /\ ended
    <3>1. i \in Holds("ex", p) \cup Holds("rdOld", p)
      BY MoveExecute
    <3>2. i \notin Holds("ex", p)
      BY <1>0, <2>1 DEF PathInv, LanePath
    <3> QED BY <1>8, <2>1, <3>1, <3>2, MoveExecute
  <2>2. \A i \in OpId : ~OnPath(i) => (i \in retired' => ClassOf(i) = "nop" /\ ended)
    BY <2>1, MoveExecute DEF PathInv, NoTrace
  <2>3. mispredicted' # 0 => OnPath(mispredicted') \/ ended
    <3> SUFFICES ASSUME mispredicted' # 0, ~ended PROVE OnPath(mispredicted')
      OBVIOUS
    <3>1. mispredicted' = Result(BranchPipe, keep)
      BY <1>1 DEF Execute, Mispredicts
    <3>2. Result(BranchPipe, keep) \in Holds("ex", BranchPipe) \cup Holds("rdOld", BranchPipe)
      BY <3>1, MoveExecute, BranchLane DEF Op
    <3> QED BY <1>8, <3>1, <3>2, BranchLane
  <2> QED BY <1>0, <2>2, <2>3, StreamSame DEF PathInv, NoTrace
<1> QED BY <1>7, <1>9, <1>10 DEF PathInv

LEMMA PathOpRead == StageInv /\ PathInv /\ OpRead => PathInv'
<1> SUFFICES ASSUME StageInv, PathInv, OpRead PROVE PathInv'
  OBVIOUS
<1>0. /\ UNCHANGED <<stream, retired, offPath, instBuffer, fetDec, ended, mispredicted,
                     exWb, regs, regsNew>>
      /\ phase = "opread" /\ phase' = "decode"
  BY DEF OpRead, front, history, regfile
<1>1. Holds("rdOld", BranchPipe) = {} /\ Holds("rdNew", BranchPipe) = {}
  <2>1. rdEx[BranchPipe].old.op = 0
    BY <1>0, BranchLane DEF StageInv, LatchInv, LatchDiscipline, EmptyRead
  <2>2. rdEx[BranchPipe].new.op = 0
    BY <1>0, BranchLane DEF StageInv, PhaseInv, LatchInv, LatchDiscipline, EmptyRead
  <2> QED BY <2>1, <2>2, Held, EmptyHolds
<1>2. PastRead => PastEx
  BY <1>1 DEF PastRead, DivertsIn
<1>3. PastWriteBack' = PastWriteBack /\ PastEx' = PastEx
  BY <1>0, StreamSame DEF PastWriteBack, PastEx
<1>4. DivertsIn("decOld") => DivertsIn("rdNew")'
  BY <1>0, <1>1, MoveOpRead, StreamSame, BranchLane DEF DivertsIn
<1>5. DivertsIn("decNew") => DivertsIn("decNew")'
  BY <1>0, MoveOpRead, StreamSame, BranchLane DEF DivertsIn
<1>6. /\ PastRead => PastRead'
      /\ PastDecode => PastDecode'
  BY <1>2, <1>3, <1>4, <1>5 DEF PastRead, PastDecode
<1>7. FrontPath'
  BY <1>0, <1>6, StreamSame DEF PathInv, FrontPath, Base
<1>8. LanePath'
  <2>1. ASSUME NEW p \in Pipes
        PROVE  /\ \A i \in Holds("decOld", p)' \cup Holds("decNew", p)' : ~OnPath(i) => PastRead'
               /\ \A i \in Holds("rdNew", p)' : ~OnPath(i) => PastEx'
               /\ \A i \in Holds("rdOld", p)' : ~OnPath(i) => PastWriteBack'
    BY <1>2, <1>3, <1>6, MoveOpRead DEF PathInv, LanePath
  <2>2. ASSUME NEW p \in Pipes
        PROVE  /\ \A i \in Holds("ex", p)' : ~OnPath(i) => ended
               /\ \A i \in Holds("wbNew", p)' : ~OnPath(i) => ended
               /\ \A i \in Holds("wbOld", p)' : OnPath(i)
    BY <1>0, MoveOpRead DEF PathInv, LanePath
  <2> QED BY <1>0, <2>1, <2>2, StreamSame DEF LanePath
<1>9. NoTrace'
  BY <1>0, StreamSame DEF PathInv, NoTrace
<1> QED BY <1>7, <1>8, <1>9 DEF PathInv

\* Nothing issues in the group of a control operation and behind it.
LEMMA NothingBehindControl ==
    ASSUME StageInv, NEW lane \in Lanes, Decode(lane),
           NEW k \in 1..Len(lane), NEW j \in 1..(k - 1)
    PROVE  ClassOf(Base + j) \notin Control
<1>1. Len(lane) \in Nat /\ j \in 1..Len(lane)
  BY LaneType
<1>2. Base + j = Buffered[j]
  BY <1>1, FrontDecode DEF StageInv
<1>3. GroupOpen({Buffered[a] : a \in 1..(k - 1)})
  BY DEF Decode, IssueGroup, Issuable
<1> QED BY <1>2, <1>3 DEF GroupOpen

LEMMA PathDecode ==
    ASSUME StageInv, PathInv, NEW lane \in Lanes, Decode(lane)
    PROVE  PathInv'
<1> DEFINE n == Len(lane)
<1>0. /\ UNCHANGED <<stream, retired, offPath, ended, mispredicted, exWb, regs, regsNew>>
      /\ phase = "decode" /\ phase' = "fetch" /\ TypeOK
  BY DEF Decode, history, regfile, StageInv
<1>1. Base' = Base + n /\ n \in Nat /\ Base \in Nat /\ Len(stream) \in Nat
  BY MoveDecode, FrontTypes DEF StageInv, FrontInOrder
<1>2. PastDecode => PastRead
  BY MoveDecode, BranchLane DEF PastDecode, DivertsIn
<1>3. PastWriteBack' = PastWriteBack /\ PastEx' = PastEx /\ PastRead' = PastRead
  BY <1>0, MoveDecode, StreamSame, BranchLane
     DEF PastWriteBack, PastEx, PastRead, DivertsIn
<1>4. PastDecode => PastRead' /\ PastDecode'
  BY <1>2, <1>3 DEF PastDecode
<1>5. ASSUME NEW k \in 1..n, Diverter(Base + k)
      PROVE  PastDecode'
  <2>1. /\ lane[k] \in Pipes /\ Base + k \in OpId
        /\ Base + k \in Holds("decNew", lane[k])' /\ lane[k] \in Code(Base + k).pipes
    BY MoveDecode
  <2>2. Code(Base + k) \in Opcodes /\ Code(Base + k).class \in Control
    BY <1>0, <1>5, <2>1, OpcodeType DEF Diverter, ClassOf, Diverting, Control
  <2>3. lane[k] = BranchPipe
    BY <2>1, <2>2, OpcodesAssumption
  <2>4. DivertsIn("decNew")'
    BY <1>0, <1>5, <2>1, <2>3, StreamSame DEF DivertsIn
  <2> QED BY <2>4 DEF PastDecode
<1> HIDE DEF n
<1>6. ASSUME NEW m \in Nat, NEW d \in (Base + 1)..m, Diverter(d)
      PROVE  PastDecode' \/ d \in (Base' + 1)..m
  <2>1. d = Base + (d - Base) /\ (d - Base \in 1..n \/ d \in (Base + n + 1)..m)
    BY <1>1
  <2>2. CASE d - Base \in 1..n
    BY <1>5, <1>6, <2>1, <2>2
  <2>3. CASE d \in (Base + n + 1)..m
    BY <1>1, <2>3
  <2> QED BY <2>1, <2>2, <2>3
<1>7. FrontPath'
  <2>1. ASSUME offPath
        PROVE  PastDecode' \/ \E d \in (Base' + 1)..Len(stream) : Diverter(d)
    BY <1>1, <1>4, <1>6, <2>1 DEF PathInv, FrontPath
  <2>2. ASSUME NEW i \in (Base' + 1)..Len(stream), ~OnPath(i)
        PROVE  PastDecode' \/ \E d \in (Base' + 1)..(i - 1) : Diverter(d)
    <3>1. i \in (Base + 1)..Len(stream) /\ i - 1 \in Nat
      BY <1>1
    <3>2. PastDecode \/ \E d \in (Base + 1)..(i - 1) : Diverter(d)
      BY <2>2, <3>1 DEF PathInv, FrontPath
    <3> QED BY <1>4, <1>6, <3>1, <3>2
  <2> QED BY <1>0, <2>1, <2>2, StreamSame DEF FrontPath
<1>8. ASSUME NEW k \in 1..n, ~OnPath(Base + k)
      PROVE  PastRead'
  <2>1. Base + k \in (Base + 1)..Len(stream)
    <3>1. Base + k \in OpId
      BY MoveDecode DEF n
    <3> QED BY <1>1, <3>1 DEF OpId
  <2>2. PastDecode \/ \E d \in (Base + 1)..(Base + k - 1) : Diverter(d)
    <3>1. \A i \in (Base + 1)..Len(stream) : ~OnPath(i) =>
            PastDecode \/ \E d \in (Base + 1)..(i - 1) : Diverter(d)
      BY DEF PathInv, FrontPath
    <3> HIDE DEF Base
    <3>2. PICK i : i = Base + k
      OBVIOUS
    <3> QED BY <1>1, <1>8, <2>1, <3>1, <3>2
  <2>3. ASSUME NEW d \in (Base + 1)..(Base + k - 1), Diverter(d)
        PROVE  FALSE
    <3>1. d - Base \in 1..(k - 1) /\ Base + (d - Base) = d
      BY <1>1
    <3>2. ClassOf(d) \notin Control
      BY <3>1, NothingBehindControl DEF n
    <3> QED BY <2>3, <3>2 DEF Diverter, Diverting, Control
  <2> QED BY <1>4, <2>2, <2>3
<1>9. LanePath'
  <2>1. ASSUME NEW p \in Pipes, NEW i \in Holds("decNew", p)', ~OnPath(i)
        PROVE  PastRead'
    BY <1>8, <2>1, MoveDecode DEF n
  <2>2. ASSUME NEW p \in Pipes
        PROVE  /\ Holds("decOld", p)' = {} /\ Holds("rdNew", p)' = Holds("rdNew", p)
               /\ Holds("rdOld", p)' = Holds("rdOld", p) /\ Holds("ex", p)' = Holds("ex", p)
               /\ Holds("wbNew", p)' = Holds("wbNew", p)
               /\ Holds("wbOld", p)' = Holds("wbOld", p)
    BY MoveDecode
  <2>3. ASSUME NEW p \in Pipes
        PROVE  /\ \A i \in Holds("rdNew", p)' : ~OnPath(i) => PastEx'
               /\ \A i \in Holds("rdOld", p)' : ~OnPath(i) => PastWriteBack'
               /\ \A i \in Holds("ex", p)' : ~OnPath(i) => ended
               /\ \A i \in Holds("wbNew", p)' : ~OnPath(i) => ended
               /\ \A i \in Holds("wbOld", p)' : OnPath(i)
    BY <1>0, <1>3, <2>2 DEF PathInv, LanePath
  <2> QED BY <1>0, <2>1, <2>2, <2>3, StreamSame DEF LanePath
<1>10. NoTrace'
  BY <1>0, StreamSame DEF PathInv, NoTrace
<1> QED BY <1>7, <1>9, <1>10 DEF PathInv

\* The first of the operations that divert FETCH in a group.
LEMMA FirstDiverter ==
    ASSUME NEW group, NEW k \in Nat, Diverts(group, k)
    PROVE  \E j \in 1..k : group[j].class \in Diverting /\ ~Diverts(group, j - 1)
<1> DEFINE T == {j \in 1..k : group[j].class \in Diverting}
<1>1. T \subseteq Nat /\ T # {}
  BY DEF Diverts
<1>2. PICK j \in T : \A y \in T : ~(<<y, j>> \in OpToRel(<, Nat))
  <2> HIDE DEF T
  <2> QED BY <1>1, NatLessThanWellFounded, WFMin
<1>3. ASSUME Diverts(group, j - 1)
      PROVE  FALSE
  <2>1. PICK a \in 1..(j - 1) : group[a].class \in Diverting
    BY <1>3 DEF Diverts
  <2>2. a \in T /\ a < j /\ a \in Nat /\ j \in Nat
    BY <2>1
  <2>3. <<a, j>> \in OpToRel(<, Nat)
    BY <2>2 DEF OpToRel
  <2> QED BY <1>2, <2>2, <2>3
<1> QED BY <1>3

LEMMA PathFetch ==
    ASSUME StageInv, PathInv, NEW group \in Groups, Fetch(group)
    PROVE  PathInv'
<1> DEFINE n == Len(group)
           len == Len(stream)
<1>0. /\ UNCHANGED <<retired, ended, mispredicted, exWb, exStation, rdEx, decRd,
                     regs, regsNew>>
      /\ phase = "fetch" /\ phase' = "update" /\ TypeOK
      /\ offPath' = (offPath \/ Diverts(group, n))
  BY DEF Fetch, lanes, regfile, StageInv
<1>1. /\ Base' = Base /\ Base \in Nat /\ len \in Nat /\ n \in Nat /\ Base <= len
      /\ Len(stream') = len + n
  BY FrontFetch, BaseBound, GroupType, FetchedGroup DEF StageInv
<1>2. ASSUME NEW i \in OpId
      PROVE  /\ OnPath(i)' = OnPath(i) /\ ClassOf(i)' = ClassOf(i) /\ i \in OpId'
             /\ Diverter(i)' = Diverter(i) /\ Returns(i)' = Returns(i)
  BY <1>0, <1>1, FetchedGroup DEF OnPath, ClassOf, Code, Diverter, Returns, OpId
<1>3. ASSUME NEW i, NEW k \in 1..n, i = len + k
      PROVE  /\ OnPath(i)' = (~offPath /\ ~Diverts(group, k - 1))
             /\ ClassOf(i)' = group[k].class
             /\ i \in OpId'
  <2>1. stream'[len + k] = [code |-> group[k],
                            onPath |-> ~offPath /\ ~Diverts(group, k - 1)]
    <3> DEFINE new == [j \in 1..n |-> [code |-> group[j],
                                       onPath |-> ~offPath /\ ~Diverts(group, j - 1)]]
               E == [code : Opcodes, onPath : BOOLEAN]
    <3>1. stream' = stream \o new
      BY DEF Fetch
    <3>2. new \in Seq(E) /\ Len(new) = n
      <4>1. \A j \in 1..n : group[j] \in Opcodes
        BY GroupType
      <4>2. \A j \in 1..n : (~offPath /\ ~Diverts(group, j - 1)) \in BOOLEAN
        OBVIOUS
      <4>3. \A j \in 1..n : [code |-> group[j],
                             onPath |-> ~offPath /\ ~Diverts(group, j - 1)] \in E
        BY <4>1, <4>2
      <4>4. new \in [1..n -> E]
        BY <4>3
      <4> HIDE DEF n, new, E
      <4>5. new \in Seq(E) /\ DOMAIN new = 1..n
        BY <1>1, <4>4, SeqDef
      <4> QED BY <1>1, <4>4, <4>5, LenProperties
    <3>3. stream \in Seq(E)
      BY <1>0 DEF TypeOK
    <3> HIDE DEF n, len, E
    <3>4. len + k \in 1..(len + n) /\ ~(len + k <= len) /\ len + k - len = k
      BY <1>1
    <3> HIDE DEF new
    <3>5. \A j \in 1..(len + n) :
            (stream \o new)[j] = IF j <= len THEN stream[j] ELSE new[j - len]
      BY <3>2, <3>3, ConcatProperties DEF len
    <3>6. stream'[len + k] = new[k]
      BY <1>1, <3>1, <3>4, <3>5
    <3> QED BY <3>6 DEF new
  <2> HIDE DEF n, len
  <2>2. len + k \in 1..(len + n)
    BY <1>1
  <2>3. stream'[i].onPath = (~offPath /\ ~Diverts(group, k - 1))
        /\ stream'[i].code = group[k]
    BY <1>3, <2>1
  <2>4. i \in OpId'
    BY <1>1, <1>3, <2>2 DEF OpId
  <2> QED BY <2>3, <2>4 DEF OnPath, ClassOf, Code
<1> HIDE DEF n
<1>4. \A k \in Spots, p \in Pipes : Holds(k, p)' = Holds(k, p) /\ Holds(k, p) \subseteq OpId
  BY <1>0, HoldsQuiet, HoldsType
<1>5. \A k \in Spots : DivertsIn(k) => DivertsIn(k)'
  BY <1>2, <1>4, BranchLane DEF DivertsIn
<1>6. /\ exWb[BranchPipe].old \in OpId \cup {0} /\ exWb[BranchPipe].new \in OpId \cup {0}
  BY <1>0, BranchLane DEF TypeOK, Entry
<1>7. PastWriteBack => PastWriteBack'
  BY <1>0, <1>2, <1>6 DEF PastWriteBack, Returns
<1>8. PastEx => PastEx'
  BY <1>0, <1>2, <1>6, <1>7 DEF PastEx, Returns
<1>9. /\ PastRead => PastRead'
      /\ PastDecode => PastDecode'
  BY <1>5, <1>8, BranchLane DEF PastRead, PastDecode
<1>10. FrontPath'
  <2>a. \A d \in (Base + 1)..len : d \in OpId
    BY <1>1 DEF OpId
  <2>1. ASSUME NEW m \in 0..n, offPath \/ Diverts(group, m)
        PROVE  PastDecode' \/ \E d \in (Base + 1)..(len + m) : Diverter(d)'
    <3>1. CASE offPath
      <4>1. PastDecode \/ \E d \in (Base + 1)..len : Diverter(d)
        BY <3>1 DEF PathInv, FrontPath
      <4>2. \A d \in (Base + 1)..len : d \in (Base + 1)..(len + m)
        BY <1>1
      <4> QED BY <1>2, <1>9, <2>a, <4>1, <4>2
    <3>2. CASE ~offPath /\ Diverts(group, m)
      <4>1. PICK j \in 1..m : group[j].class \in Diverting /\ ~Diverts(group, j - 1)
        BY <1>1, <3>2, FirstDiverter
      <4> HIDE DEF len, Base
      <4>2. j \in 1..n /\ len + j \in (Base + 1)..(len + m)
        BY <1>1
      <4>3. PICK d : d = len + j
        OBVIOUS
      <4>4. OnPath(d)' /\ ClassOf(d)' \in Diverting /\ d \in OpId'
        BY <1>3, <3>2, <4>1, <4>2, <4>3
      <4>5. Diverter(d)'
        BY <4>4 DEF Diverter
      <4> QED BY <4>2, <4>3, <4>5
    <3> QED BY <2>1, <3>1, <3>2
  <2>2. ASSUME NEW i \in (Base + 1)..(len + n), ~OnPath(i)'
        PROVE  PastDecode' \/ \E d \in (Base + 1)..(i - 1) : Diverter(d)'
    <3>1. CASE i <= len
      <4>1. i \in (Base + 1)..len /\ i \in OpId /\ i - 1 <= len
        BY <1>1, <3>1 DEF OpId
      <4>2. \A d \in (Base + 1)..(i - 1) : d \in OpId
        BY <1>1, <4>1 DEF OpId
      <4>3. PastDecode \/ \E d \in (Base + 1)..(i - 1) : Diverter(d)
        BY <1>2, <2>2, <4>1 DEF PathInv, FrontPath
      <4> QED BY <1>2, <1>9, <4>2, <4>3
    <3>2. CASE len < i
      <4>1. i - len \in 1..n /\ len + (i - len) = i
            /\ i - len - 1 \in 0..n /\ len + (i - len - 1) = i - 1
        BY <1>1, <3>2
      <4>2. offPath \/ Diverts(group, i - len - 1)
        <5> HIDE DEF len
        <5>1. PICK k \in 1..n : k = i - len /\ i = len + k
          BY <4>1
        <5>2. OnPath(i)' = (~offPath /\ ~Diverts(group, k - 1))
          BY <1>3, <5>1
        <5> QED BY <2>2, <5>1, <5>2
      <4> QED BY <2>1, <4>1, <4>2
    <3> QED BY <1>1, <3>1, <3>2
  <2>3. offPath' => PastDecode' \/ \E d \in (Base + 1)..(len + n) : Diverter(d)'
    <3>1. n \in 0..n
      BY <1>1
    <3> QED BY <1>0, <2>1, <3>1 DEF n
  <2> QED BY <1>1, <2>2, <2>3 DEF FrontPath
<1>11. LanePath'
  <2>1. ASSUME NEW k \in Spots, NEW p \in Pipes, NEW i \in Holds(k, p)'
        PROVE  i \in Holds(k, p) /\ OnPath(i)' = OnPath(i)
    BY <1>2, <1>4
  <2> QED BY <1>0, <1>7, <1>8, <1>9, <2>1, BranchLane DEF PathInv, LanePath
<1>12. NoTrace'
  <2>1. mispredicted \in OpId \cup {0} /\ retired \subseteq OpId
    BY <1>0 DEF TypeOK, Entry
  <2>2. \A r \in Regs : regs[r] \in OpId \cup {0} /\ regsNew[r] \in OpId \cup {0}
    BY <1>0 DEF TypeOK, Entry
  <2>3. ASSUME NEW i \in OpId', ~OnPath(i)'
        PROVE  /\ i \in retired => ClassOf(i)' = "nop" /\ ended
               /\ \A r \in Regs : regs[r] # i /\ regsNew[r] # i
    <3>1. CASE i \in OpId
      BY <1>2, <2>3, <3>1 DEF PathInv, NoTrace
    <3>2. CASE i \notin OpId
      <4>1. i # 0
        BY DEF OpId
      <4> QED BY <2>1, <2>2, <3>2, <4>1
    <3> QED BY <3>1, <3>2
  <2> QED BY <1>0, <1>2, <2>1, <2>3 DEF PathInv, NoTrace
<1> QED BY <1>10, <1>11, <1>12 DEF PathInv

LEMMA PathRecover == StageInv /\ PathInv /\ Recover => PathInv'
<1> SUFFICES ASSUME StageInv, PathInv, Recover PROVE PathInv'
  OBVIOUS
<1>0. /\ UNCHANGED <<stream, retired, ended, regs, regsNew, phase>>
      /\ phase = "update" /\ mispredicted' = 0 /\ offPath' = ~OnPath(mispredicted)
      /\ mispredicted # 0
  BY DEF Recover, Flush, history, regfile
<1>1. Base' = Len(stream) /\ Len(stream) \in Nat
  BY FrontRecover, FrontTypes DEF StageInv
<1>2. FrontPath'
  <2>1. offPath' => PastDecode'
    BY <1>0 DEF PathInv, NoTrace, PastDecode, PastRead, PastEx, PastWriteBack
  <2>2. \A i : i \notin (Base' + 1)..Len(stream)
    BY <1>1
  <2> QED BY <1>0, <2>1, <2>2, StreamSame DEF FrontPath
<1>3. LanePath'
  <2>1. ASSUME NEW p \in Pipes
        PROVE  /\ \A i \in Holds("ex", p)' : ~OnPath(i) => ended
               /\ \A i \in Holds("wbNew", p)' : ~OnPath(i) => ended
               /\ \A i \in Holds("wbOld", p)' : OnPath(i)
               /\ Holds("rdOld", p)' = {} /\ Holds("rdNew", p)' = {}
               /\ Holds("decOld", p)' = {} /\ Holds("decNew", p)' = {}
    BY <1>0, MoveRecover DEF PathInv, LanePath
  <2> QED BY <1>0, <2>1, StreamSame DEF LanePath
<1>4. NoTrace'
  BY <1>0, StreamSame DEF PathInv, NoTrace
<1> QED BY <1>2, <1>3, <1>4 DEF PathInv

LEMMA PathUpdate == StageInv /\ PathInv /\ Update => PathInv'
<1> SUFFICES ASSUME StageInv, PathInv, Update PROVE PathInv'
  OBVIOUS
<1>0. /\ UNCHANGED <<stream, retired, ended, mispredicted, offPath>>
      /\ phase = "update" /\ phase' = "preprocess" /\ mispredicted = 0
      /\ exWb'[BranchPipe].old = exWb[BranchPipe].new /\ exWb[BranchPipe].old = 0
  BY BranchLane DEF Update, history, StageInv, PhaseInv
<1>1. Base' = Base
  BY FrontUpdate DEF StageInv
<1>2. PastEx => PastWriteBack' /\ PastEx'
  BY <1>0, StreamSame DEF PastEx, PastWriteBack, Returns, ClassOf, Code
<1>3. /\ DivertsIn("rdOld") \/ DivertsIn("rdNew") => DivertsIn("rdOld")' \/ DivertsIn("rdNew")'
      /\ DivertsIn("decOld") \/ DivertsIn("decNew") =>
           DivertsIn("decOld")' \/ DivertsIn("decNew")'
  BY <1>0, MoveUpdate, StreamSame, BranchLane DEF DivertsIn
<1>4. /\ PastRead => PastRead'
      /\ PastDecode => PastDecode'
  BY <1>2, <1>3 DEF PastRead, PastDecode
<1>5. FrontPath'
  BY <1>0, <1>1, <1>4, StreamSame DEF PathInv, FrontPath
<1>6. LanePath'
  <2>1. ASSUME NEW p \in Pipes
        PROVE  /\ \A i \in Holds("decOld", p)' \cup Holds("decNew", p)' : ~OnPath(i) => PastRead'
               /\ \A i \in Holds("rdNew", p)' \cup Holds("rdOld", p)' :
                    ~OnPath(i) => PastEx' /\ PastWriteBack'
               /\ \A i \in Holds("ex", p)' : ~OnPath(i) => ended
               /\ \A i \in Holds("wbOld", p)' : ~OnPath(i) => ended
               /\ Holds("wbNew", p)' = {}
    BY <1>2, <1>4, MoveUpdate DEF PathInv, LanePath
  <2> QED BY <1>0, <2>1, StreamSame DEF LanePath
<1>7. NoTrace'
  <2>1. \A r \in Regs : /\ regs'[r] = regs[r] \/ regs'[r] = regsNew[r]
                       /\ regsNew'[r] = 0
    BY DEF Update, Committed, NoValues
  <2>2. \A i \in OpId : i # 0
    BY DEF OpId
  <2> QED BY <1>0, <2>1, <2>2, StreamSame DEF PathInv, NoTrace
<1> QED BY <1>5, <1>6, <1>7 DEF PathInv

LEMMA PathNext == StageInv /\ PlacesInv /\ PathInv /\ [Next]_vars => PathInv'
<1> SUFFICES ASSUME StageInv, PlacesInv, PathInv, [Next]_vars PROVE PathInv'
  OBVIOUS
<1>1. CASE DecodeStalled \/ FetchStalled \/ EndOfSimulation \/ UNCHANGED vars
  <2>1. /\ UNCHANGED <<exWb, exStation, rdEx, decRd, retired, mispredicted, ended,
                       regfile, stream, offPath, instBuffer, fetDec>>
        /\ \/ UNCHANGED phase
           \/ phase \in {"decode", "fetch"} /\ phase' \in {"fetch", "update"}
    BY <1>1 DEF DecodeStalled, FetchStalled, EndOfSimulation, vars, lanes, history, front
  <2>2. Base' = Base
    BY <2>1 DEF Base
  <2> QED BY <2>1, <2>2, PathQuiet
<1>2. CASE Preprocess \/ WriteBack \/ OpRead \/ Recover \/ Update
  BY <1>2, PathPreprocess, PathWriteBack, PathOpRead, PathRecover, PathUpdate
<1>3. CASE \E keep \in Keeps : Execute(keep)
  BY <1>3, PathExecute
<1>4. CASE \E lane \in Lanes : Decode(lane)
  BY <1>4, PathDecode
<1>5. CASE \E group \in Groups : Fetch(group)
  BY <1>5, PathFetch
<1> QED BY <1>1, <1>2, <1>3, <1>4, <1>5 DEF Next

OrderInv == StageInv /\ PlacesInv /\ PathInv

LEMMA OrderInvariant == Spec => []OrderInv
<1>1. Init => OrderInv
  BY InitType, LatchInit, FrontInit, PhaseInit, PlacesInit, PathInit DEF OrderInv, StageInv
<1>2. OrderInv /\ [Next]_vars => OrderInv'
  BY StageNext, PlacesNext, PathNext DEF OrderInv
<1> QED BY <1>1, <1>2, PTL DEF Spec

\* An operation behind a mispredicted branch or a jr never reaches an EX unit
\* while the simulation runs, and never writes a register or is stored.
THEOREM WrongPathsContained == Spec => []SpeculationContained
<1>1. OrderInv => SpeculationContained
  <2> SUFFICES ASSUME PathInv PROVE SpeculationContained
    BY DEF OrderInv
  <2>1. \A p \in Pipes : Elements(exStation[p]) = Holds("ex", p)
    BY Held
  <2> QED BY <2>1 DEF PathInv, NoTrace, LanePath, SpeculationContained
<1> QED BY <1>1, OrderInvariant, PTL

-----------------------------------------------------------------------------
(* What is issued, what is under way and what is retired *)

LEMMA Flying ==
    /\ \A i : i \in InFlight <=> \E k \in Spots, p \in Pipes : i \in Holds(k, p)
    /\ \A i, k : i \in InSpot(k) <=> \E p \in Pipes : i \in Holds(k, p)
BY DEF InFlight, InSpot

LEMMA FlyingNext ==
    /\ \A i : i \in InFlight' <=> \E k \in Spots, p \in Pipes : i \in Holds(k, p)'
    /\ \A k : InSpot(k)' = UNION {Holds(k, p)' : p \in Pipes}
BY DEF InFlight, InSpot

LEMMA FlowWriteBack ==
    ASSUME StageInv, PlacesInv, WriteBack
    PROVE  /\ InFlight' = InFlight \ InSpot("wbOld") /\ InSpot("wbOld") \subseteq InFlight
           /\ retired' = retired \cup InSpot("wbOld")
           /\ Base' = Base
<1>1. /\ retired' = retired \cup InSpot("wbOld")
      /\ UNCHANGED <<stream, instBuffer, fetDec>>
  BY FinishedByWriteBack DEF WriteBack, InSpot, front
<1>2. ASSUME NEW k \in Spots, NEW p \in Pipes
      PROVE  Holds(k, p)' = IF k = "wbOld" THEN {} ELSE Holds(k, p)
  BY MoveWriteBack DEF StageInv, Spots
<1>3. "wbOld" \in Spots
  BY DEF Spots
<1>4. \A i : i \in InFlight' <=> \E k \in Spots \ {"wbOld"}, p \in Pipes : i \in Holds(k, p)
  BY <1>2, FlyingNext
<1>5. \A i : i \in InSpot("wbOld") =>
        i \in InFlight /\ \A k \in Spots \ {"wbOld"}, p \in Pipes : i \notin Holds(k, p)
  BY <1>3, Flying DEF PlacesInv
<1>6. InFlight' = InFlight \ InSpot("wbOld")
  BY <1>3, <1>4, <1>5, Flying
<1>7. Base' = Base
  BY <1>1 DEF Base
<1> QED BY <1>1, <1>5, <1>6, <1>7

AllDropped(keep) == UNION {Dropped(keep, p) : p \in Pipes}

LEMMA FlowExecute ==
    ASSUME StageInv, PlacesInv, NEW keep \in Keeps, Execute(keep)
    PROVE  /\ InFlight' = InFlight \ AllDropped(keep) /\ AllDropped(keep) \subseteq InFlight
           /\ retired' = retired \cup AllDropped(keep)
           /\ Base' = Base
           /\ \A i \in AllDropped(keep) : ClassOf(i) \in {"nop", "store"}
<1>1. retired' = retired \cup AllDropped(keep) /\ UNCHANGED <<stream, instBuffer, fetDec>>
  BY MoveExecute DEF Execute, front, AllDropped
<1>2. \A i : i \in AllDropped(keep) <=> \E p \in Pipes : i \in Dropped(keep, p)
  BY DEF AllDropped
<1>3. ASSUME NEW p \in Pipes
      PROVE  /\ Holds("wbOld", p) = {} /\ Holds("wbOld", p)' = {}
             /\ Holds("wbNew", p) = {} /\ Holds("rdOld", p)' = {}
             /\ Holds("rdNew", p)' = Holds("rdNew", p)
             /\ Holds("decOld", p)' = Holds("decOld", p)
             /\ Holds("decNew", p)' = Holds("decNew", p)
             /\ Holds("ex", p)' \cup Holds("wbNew", p)' \cup Dropped(keep, p)
                  = Holds("ex", p) \cup Holds("rdOld", p)
             /\ (Holds("ex", p)' \cup Holds("wbNew", p)') \cap Dropped(keep, p) = {}
             /\ \A i \in Dropped(keep, p) : ClassOf(i) \in {"nop", "store"}
  BY MoveExecute
<1>4. ASSUME NEW p \in Pipes, NEW i \in Dropped(keep, p)
      PROVE  i \in InFlight
  BY <1>3, <1>4, Flying, BranchLane
<1>5. ASSUME NEW i \in InFlight, i \notin AllDropped(keep)
      PROVE  i \in InFlight'
  <2>1. PICK k \in Spots, p \in Pipes : i \in Holds(k, p)
    BY Flying
  <2>2. i \notin Dropped(keep, p)
    BY <1>2, <1>5
  <2>3. \E l \in Spots : i \in Holds(l, p)'
    <3>1. CASE k \in {"rdNew", "decOld", "decNew"}
      BY <1>3, <2>1, <3>1
    <3>2. CASE k \notin {"rdNew", "decOld", "decNew"}
      <4>1. i \in Holds("ex", p) \cup Holds("rdOld", p)
        BY <1>3, <2>1, <3>2 DEF Spots
      <4>2. i \in Holds("ex", p)' \/ i \in Holds("wbNew", p)'
        BY <1>3, <2>2, <4>1
      <4> QED BY <4>2, BranchLane
    <3> QED BY <3>1, <3>2
  <2> QED BY <2>3, FlyingNext
<1>6. ASSUME NEW i \in InFlight'
      PROVE  i \in InFlight /\ i \notin AllDropped(keep)
  <2>1. PICK k \in Spots, p \in Pipes : i \in Holds(k, p)'
    BY FlyingNext
  <2>2. PICK l \in Spots :
          /\ i \in Holds(l, p)
          /\ l \in {"ex", "rdOld"} \/ (l = k /\ k \in {"rdNew", "decOld", "decNew"})
    <3>1. CASE k \in {"rdNew", "decOld", "decNew"}
      BY <1>3, <2>1, <3>1
    <3>2. CASE k \notin {"rdNew", "decOld", "decNew"}
      <4>1. i \in Holds("ex", p)' \cup Holds("wbNew", p)'
        BY <1>3, <2>1, <3>2 DEF Spots
      <4>2. i \in Holds("ex", p) \/ i \in Holds("rdOld", p)
        BY <1>3, <4>1
      <4> QED BY <4>2, BranchLane
    <3> QED BY <3>1, <3>2
  <2>3. i \notin AllDropped(keep)
    <3> SUFFICES ASSUME NEW q \in Pipes, i \in Dropped(keep, q) PROVE FALSE
      BY <1>2
    <3>1. PICK m \in {"ex", "rdOld"} : i \in Holds(m, q)
      BY <1>3
    <3>2. m = l /\ q = p
      BY <2>2, <3>1 DEF PlacesInv, Spots
    <3>3. k \in {"ex", "wbNew"}
      <4>1. k \in {"rdNew", "decOld", "decNew"} => i \in Holds(k, p)
        BY <1>3, <2>1
      <4>2. k \notin {"rdNew", "decOld", "decNew"}
        BY <2>2, <3>1, <3>2, <4>1 DEF PlacesInv, Spots
      <4> QED BY <1>3, <2>1, <4>2 DEF Spots
    <3> QED BY <1>3, <2>1, <3>2, <3>3
  <2> QED BY <2>2, <2>3, Flying
<1>7. Base' = Base
  BY <1>1 DEF Base
<1>8. AllDropped(keep) \subseteq InFlight /\ \A i \in AllDropped(keep) : ClassOf(i) \in {"nop", "store"}
  BY <1>2, <1>3, <1>4
<1>9. InFlight' = InFlight \ AllDropped(keep)
  BY <1>5, <1>6
<1> QED BY <1>1, <1>7, <1>8, <1>9

LEMMA FlowDecode ==
    ASSUME StageInv, NEW lane \in Lanes, Decode(lane)
    PROVE  /\ Base' = Base + Len(lane) /\ Len(lane) \in Nat /\ Base \in Nat
           /\ InFlight' = InFlight \cup ((Base + 1)..Base')
           /\ InSpot("decNew")' = (Base + 1)..Base'
           /\ retired' = retired /\ stream' = stream
           /\ \A k \in 1..Len(lane) : Buffered[k] = Base + k
<1> DEFINE n == Len(lane)
<1>1. Base' = Base + n /\ n \in Nat /\ Base \in Nat /\ retired' = retired /\ stream' = stream
  BY MoveDecode DEF Decode, history, StageInv, FrontInOrder
<1>2. \A k \in 1..n : Buffered[k] = Base + k
  BY FrontDecode DEF StageInv
<1> HIDE DEF n
<1>3. (Base + 1)..Base' = {Base + k : k \in 1..n}
  <2>1. \A i \in (Base + 1)..Base' : i - Base \in 1..n /\ i = Base + (i - Base)
    BY <1>1
  <2>2. \A k \in 1..n : Base + k \in (Base + 1)..Base'
    BY <1>1
  <2> QED BY <2>1, <2>2
<1>4. InSpot("decNew")' = (Base + 1)..Base'
  <2>1. ASSUME NEW i \in InSpot("decNew")'
        PROVE  i \in {Base + k : k \in 1..n}
    BY FlyingNext, MoveDecode DEF n
  <2>2. ASSUME NEW k \in 1..n
        PROVE  Base + k \in InSpot("decNew")'
    BY FlyingNext, MoveDecode DEF n
  <2> QED BY <1>3, <2>1, <2>2
<1>5. ASSUME NEW k \in Spots, NEW p \in Pipes, k # "decNew"
      PROVE  Holds(k, p)' = Holds(k, p)
  BY <1>5, MoveDecode DEF Spots
<1>6. \A p \in Pipes : Holds("decNew", p) = {} /\ "decNew" \in Spots
  BY MoveDecode DEF Spots
<1>7. InFlight' = InFlight \cup InSpot("decNew")'
  <2>1. ASSUME NEW i \in InFlight'
        PROVE  i \in InFlight \cup InSpot("decNew")'
    BY <1>5, Flying, FlyingNext
  <2>2. ASSUME NEW i \in InFlight
        PROVE  i \in InFlight'
    BY <1>5, <1>6, Flying, FlyingNext
  <2>3. InSpot("decNew")' \subseteq InFlight'
    BY <1>6, FlyingNext
  <2> QED BY <2>1, <2>2, <2>3
<1> QED BY <1>1, <1>2, <1>4, <1>7 DEF n

LEMMA FlowUpdate ==
    ASSUME StageInv, Update
    PROVE  /\ InFlight' = InFlight /\ retired' = retired /\ Base' = Base
           /\ UNCHANGED <<stream, destTable>>
<1>1. retired' = retired /\ Base' = Base /\ UNCHANGED <<stream, destTable>>
  BY FrontUpdate DEF Update, history, StageInv
<1>2. ASSUME NEW p \in Pipes, NEW k \in Spots, NEW i \in Holds(k, p)'
      PROVE  \E l \in Spots : i \in Holds(l, p)
  BY <1>2, MoveUpdate DEF Spots
<1>3. ASSUME NEW p \in Pipes, NEW k \in Spots, NEW i \in Holds(k, p)
      PROVE  \E l \in Spots : i \in Holds(l, p)'
  <2>1. CASE k \in {"wbOld", "rdOld", "decOld"}
    BY <1>3, <2>1, MoveUpdate
  <2>2. CASE k = "wbNew"
    BY <1>3, <2>2, MoveUpdate, BranchLane
  <2>3. CASE k = "ex"
    BY <1>3, <2>3, MoveUpdate, BranchLane
  <2>4. CASE k = "rdNew"
    BY <1>3, <2>4, MoveUpdate, BranchLane
  <2>5. CASE k = "decNew"
    BY <1>3, <2>5, MoveUpdate, BranchLane
  <2> QED BY <2>1, <2>2, <2>3, <2>4, <2>5 DEF Spots
<1>4. InFlight' = InFlight
  BY <1>2, <1>3, Flying, FlyingNext
<1> QED BY <1>1, <1>4

LEMMA FlowOpRead ==
    ASSUME StageInv, OpRead
    PROVE  /\ InFlight' = InFlight /\ retired' = retired /\ Base' = Base
           /\ UNCHANGED <<stream, destTable>>
<1>1. retired' = retired /\ UNCHANGED <<stream, destTable, instBuffer, fetDec>>
  BY DEF OpRead, history, front
<1>2. Base' = Base
  BY <1>1 DEF Base
<1>3. ASSUME NEW p \in Pipes, NEW k \in Spots, NEW i \in Holds(k, p)'
      PROVE  \E l \in Spots : i \in Holds(l, p)
  <2>1. CASE k = "rdNew"
    BY <1>3, <2>1, MoveOpRead, BranchLane
  <2>2. CASE k # "rdNew"
    BY <1>3, <2>2, MoveOpRead DEF Spots
  <2> QED BY <2>1, <2>2
<1>4. ASSUME NEW p \in Pipes, NEW k \in Spots, NEW i \in Holds(k, p)
      PROVE  \E l \in Spots : i \in Holds(l, p)'
  <2>1. CASE k \in {"rdNew", "decOld"}
    BY <1>4, <2>1, MoveOpRead, BranchLane
  <2>2. CASE k \notin {"rdNew", "decOld"}
    BY <1>4, <2>2, MoveOpRead DEF Spots
  <2> QED BY <2>1, <2>2
<1>5. InFlight' = InFlight
  BY <1>3, <1>4, Flying, FlyingNext
<1> QED BY <1>1, <1>2, <1>5

LEMMA FlowFetch ==
    ASSUME StageInv, NEW group \in Groups, Fetch(group)
    PROVE  /\ InFlight' = InFlight /\ retired' = retired /\ Base' = Base
           /\ UNCHANGED destTable
           /\ \A i \in OpId : Code(i)' = Code(i) /\ OnPath(i)' = OnPath(i) /\ i \in OpId'
           /\ \A i \in OpId : Dest(i)' = Dest(i) /\ Srcs(i)' = Srcs(i)
<1>1. retired' = retired /\ UNCHANGED <<destTable, exWb, exStation, rdEx, decRd>>
  BY DEF Fetch, lanes
<1>2. Base' = Base
  BY FrontFetch DEF StageInv
<1>3. InFlight' = InFlight
  <2>1. \A k \in Spots, p \in Pipes : Holds(k, p)' = Holds(k, p)
    BY <1>1, HoldsQuiet
  <2>2. \A i : i \in InFlight' <=> i \in InFlight
    BY <2>1, Flying, FlyingNext
  <2> QED BY <2>2
<1>4. \A i \in OpId : Code(i)' = Code(i) /\ OnPath(i)' = OnPath(i) /\ i \in OpId'
  <2>1. Len(stream) \in Nat /\ Len(group) \in Nat /\ Len(stream') = Len(stream) + Len(group)
    BY FetchedGroup, GroupType, FrontTypes DEF StageInv
  <2>2. \A i \in OpId : stream'[i] = stream[i]
    BY FetchedGroup DEF StageInv, OpId
  <2>3. \A i \in OpId : i \in OpId'
    BY <2>1 DEF OpId
  <2> QED BY <2>2, <2>3 DEF Code, OnPath
<1>5. \A i \in OpId : Dest(i)' = Dest(i) /\ Srcs(i)' = Srcs(i)
  BY <1>4 DEF Dest, Srcs
<1> QED BY <1>1, <1>2, <1>3, <1>4, <1>5

LEMMA FlowQuiet ==
    ASSUME Preprocess \/ DecodeStalled \/ FetchStalled \/ EndOfSimulation \/ UNCHANGED vars
    PROVE  /\ InFlight' = InFlight /\ retired' = retired /\ Base' = Base
           /\ UNCHANGED <<stream, destTable, mispredicted, regs, regsNew, rdEx>>
           /\ \A k \in Spots, p \in Pipes : Holds(k, p)' = Holds(k, p)
<1>1. UNCHANGED <<exWb, exStation, rdEx, decRd, retired, stream, instBuffer, fetDec,
                  destTable, mispredicted, regs, regsNew>>
  BY DEF Preprocess, DecodeStalled, FetchStalled, EndOfSimulation, vars, lanes,
         history, front, regfile
<1>2. \A k \in Spots, p \in Pipes : Holds(k, p)' = Holds(k, p)
  BY <1>1, HoldsQuiet
<1>3. InFlight' = InFlight
  BY <1>2, Flying, FlyingNext
<1>4. Base' = Base
  BY <1>1 DEF Base
<1> QED BY <1>1, <1>2, <1>3, <1>4

LEMMA CoverInit == Init => CoverInv
<1> SUFFICES ASSUME Init PROVE CoverInv
  OBVIOUS
<1>1. /\ mispredicted = 0 /\ retired = {} /\ OpId = {} /\ TypeOK /\ Base = 0
  BY InitType, FrontInit DEF Init, OpId
<1>2. InFlight = {}
  BY <1>1, Flying, HoldsType
<1> QED BY <1>1, <1>2 DEF CoverInv

LEMMA NoneMispredicted ==
    ASSUME Predicted, TypeOK, mispredicted = 0, [Next]_vars
    PROVE  mispredicted' = 0
<1>1. ASSUME NEW keep \in Keeps, Execute(keep)
      PROVE  mispredicted' = 0
  <2>1. Result(BranchPipe, keep) \in OpId \cup {0}
    BY ResultType, BranchLane DEF Entry
  <2>2. ~Mispredicts(Result(BranchPipe, keep))
    BY <2>1, OpcodeType DEF Mispredicts, ClassOf, Predicted
  <2> QED BY <1>1, <2>2 DEF Execute
<1>2. CASE WriteBack \/ OpRead \/ Recover \/ Update
  BY <1>2 DEF WriteBack, OpRead, Recover, Update
<1>3. CASE Preprocess \/ DecodeStalled \/ FetchStalled \/ EndOfSimulation \/ UNCHANGED vars
  BY <1>3, FlowQuiet
<1>4. CASE (\E lane \in Lanes : Decode(lane)) \/ \E group \in Groups : Fetch(group)
  BY <1>4 DEF Decode, Fetch
<1> QED BY <1>1, <1>2, <1>3, <1>4 DEF Next

LEMMA CoverNext ==
    Predicted /\ StageInv /\ PlacesInv /\ CoverInv /\ [Next]_vars => CoverInv'
<1> SUFFICES ASSUME Predicted, StageInv, PlacesInv, CoverInv, [Next]_vars PROVE CoverInv'
  OBVIOUS
<1>0. mispredicted = 0 /\ mispredicted' = 0
  BY NoneMispredicted DEF CoverInv, StageInv
<1>1. CASE Preprocess \/ DecodeStalled \/ FetchStalled \/ EndOfSimulation \/ UNCHANGED vars
  BY <1>0, <1>1, FlowQuiet DEF CoverInv
<1>2. CASE WriteBack
  BY <1>0, <1>2, FlowWriteBack DEF CoverInv
<1>3. ASSUME NEW keep \in Keeps, Execute(keep)
      PROVE  CoverInv'
  BY <1>0, <1>3, FlowExecute DEF CoverInv
<1>4. CASE OpRead \/ Update
  BY <1>0, <1>4, FlowOpRead, FlowUpdate DEF CoverInv
<1>5. ASSUME NEW lane \in Lanes, Decode(lane)
      PROVE  CoverInv'
  <2>1. 1..Base' = 1..Base \cup ((Base + 1)..Base')
    <3>1. Base \in Nat /\ Base' \in Nat /\ Base <= Base'
      BY <1>5, FlowDecode
    <3> QED BY <3>1
  <2> QED BY <1>0, <1>5, <2>1, FlowDecode DEF CoverInv
<1>6. ASSUME NEW group \in Groups, Fetch(group)
      PROVE  CoverInv'
  BY <1>0, <1>6, FlowFetch DEF CoverInv
<1>7. CASE Recover
  BY <1>0, <1>7 DEF Recover
<1> QED BY <1>1, <1>2, <1>3, <1>4, <1>5, <1>6, <1>7 DEF Next

\* When every branch goes the way FETCH took, every operation fetched is in
\* exactly one place until the end: no stall and no partial issue loses it.
THEOREM NothingLost == ASSUME Predicted PROVE Spec => []ExactlyOnce
<1> DEFINE Inv == StageInv /\ PlacesInv /\ CoverInv
<1>1. Init => Inv
  BY InitType, LatchInit, FrontInit, PhaseInit, PlacesInit, CoverInit DEF StageInv
<1>2. Inv /\ [Next]_vars => Inv'
  BY StageNext, PlacesNext, CoverNext
<1>3. Inv => ExactlyOnce
  <2> SUFFICES ASSUME Inv, NEW i \in OpId PROVE Cardinality(Places(i)) = 1
    BY DEF ExactlyOnce
  <2>1. Base < i \/ i \in retired \/ \E k \in Spots, p \in Pipes : i \in Holds(k, p)
    <3>1. Base \in Nat /\ i \in Nat /\ 1 <= i
      BY DEF StageInv, FrontInOrder, OpId
    <3>2. Base < i \/ i \in 1..Base
      BY <3>1
    <3> QED BY <3>2, Flying DEF CoverInv
  <2>2. \E x : Places(i) = {x}
    BY <2>1, PlacesAre
  <2> QED BY <2>2, FS_Singleton
<1> HIDE DEF Inv
<1> QED BY <1>1, <1>2, <1>3, PTL DEF Spec

-----------------------------------------------------------------------------
(* The destination tables *)

LEMMA IssuedIsInFlight == StageInv => Issued = InFlight
<1> SUFFICES ASSUME StageInv PROVE Issued = InFlight
  OBVIOUS
<1>1. \A i : i \in WBLatches <=>
        \E p \in Pipes : i \in Holds("wbOld", p) \/ i \in Holds("wbNew", p)
  <2>1. \A i : i \in WBLatches <=>
          i # 0 /\ \E p \in Pipes : i = exWb[p].old \/ i = exWb[p].new
    BY DEF WBLatches
  <2>2. \A i, p : /\ i \in Holds("wbOld", p) <=> i # 0 /\ i = exWb[p].old
                  /\ i \in Holds("wbNew", p) <=> i # 0 /\ i = exWb[p].new
    BY Held DEF Op
  <2> QED BY <2>1, <2>2
<1>2. \A i : i \in UNION {Elements(LaneQueue(p)) : p \in Pipes} <=>
        \E p \in Pipes : \E k \in LaneSpots : i \in Holds(k, p)
  BY LaneElements
<1>3. Spots = LaneSpots \cup {"wbOld", "wbNew"}
  BY DEF Spots, LaneSpots
<1>4. \A i : i \in Issued <=> i \in InFlight
  <2>1. \A i : i \in Issued <=>
          i \in WBLatches \/ i \in UNION {Elements(LaneQueue(p)) : p \in Pipes}
    BY DEF Issued
  <2> QED BY <1>1, <1>2, <1>3, <2>1, Flying
<1> QED BY <1>4

LEMMA FlyingBound ==
    ASSUME StageInv, PlacesInv
    PROVE  /\ InFlight \subseteq 1..Base /\ InFlight \subseteq OpId
           /\ InFlight \cap retired = {} /\ retired \subseteq 1..Base
           /\ 1..Base \subseteq OpId
<1>1. TypeOK
  BY DEF StageInv
<1>2. InFlight \subseteq 1..Base /\ InFlight \cap retired = {} /\ retired \subseteq 1..Base
  BY Flying DEF PlacesInv
<1>3. Base \in Nat /\ Len(stream) \in Nat /\ Base <= Len(stream)
  BY BaseBound DEF StageInv
<1>4. 1..Base \subseteq OpId
  BY <1>3 DEF OpId
<1> QED BY <1>2, <1>4

\* An operation that issues touches no destination of what is under way or
\* goes before it in its group.
LEMMA IssueClear ==
    ASSUME StageInv, PlacesInv, ScoreInv, NEW lane \in Lanes, Decode(lane),
           NEW i \in (Base + 1)..Base',
           NEW j \in InFlight \cup ((Base + 1)..(i - 1))
    PROVE  /\ i \in OpId /\ j \in OpId /\ j < i
           /\ Dest(j) \cap (Srcs(i) \cup Dest(i)) = {}
<1> DEFINE n == Len(lane)
           k == i - Base
           l == j - Base
<1>1. /\ Base' = Base + n /\ n \in Nat /\ Base \in Nat
      /\ \A m \in 1..n : Buffered[m] = Base + m
  BY FlowDecode
<1>2. \A m \in 1..n : Base + m \in OpId
  BY MoveDecode
<1> HIDE DEF n
<1>3. k \in 1..n /\ Base + k = i
  BY <1>1
<1>4. /\ Buffered[k] = i /\ i \in OpId
  BY <1>1, <1>2, <1>3
<1>5. Issuable(Buffered[k], lane[k], {Buffered[m] : m \in 1..(k - 1)},
               {lane[m] : m \in 1..(k - 1)})
  BY <1>3 DEF Decode, IssueGroup, n
<1>6. \/ j \in InFlight
      \/ /\ l \in 1..(k - 1) /\ l \in 1..n /\ Base + l = j /\ Buffered[l] = j
  <2>1. CASE j \in (Base + 1)..(i - 1)
    <3>1. l \in 1..(k - 1) /\ l \in 1..n /\ Base + l = j
      BY <1>1, <2>1
    <3> QED BY <1>1, <3>1
  <2> QED BY <2>1
<1>7. j \in OpId /\ j < i
  <2>1. CASE j \in InFlight
    <3>1. j \in 1..Base /\ j \in OpId
      BY <2>1, FlyingBound
    <3> QED BY <1>1, <3>1
  <2>2. CASE j \in (Base + 1)..(i - 1)
    BY <1>1, <1>2, <1>6, <2>2
  <2> QED BY <2>1, <2>2
<1> HIDE DEF k, l
<1>8. Dest(j) \subseteq destTable \cup UNION {Dest(m) : m \in {Buffered[x] : x \in 1..(k - 1)}}
  <2>1. CASE j \in InFlight
    BY <2>1 DEF ScoreInv
  <2>2. CASE l \in 1..(k - 1) /\ Buffered[l] = j
    BY <2>2
  <2> QED BY <1>6, <2>1, <2>2
<1> QED BY <1>4, <1>5, <1>7, <1>8 DEF Issuable, NoRaw, NoWaw

LEMMA ScoreInit == Init => ScoreInv
<1> SUFFICES ASSUME Init PROVE ScoreInv
  OBVIOUS
<1>1. OpId = {} /\ TypeOK /\ destTable = {}
  BY InitType DEF Init, OpId
<1>2. InFlight = {}
  BY <1>1, Flying, HoldsType
<1> QED BY <1>1, <1>2 DEF ScoreInv

\* Two operations under way never write the same register.
LEMMA OwnDestination ==
    ASSUME StageInv, PlacesInv, ScoreInv,
           NEW i \in InFlight, NEW j \in InFlight, i # j
    PROVE  Dest(i) \cap Dest(j) = {}
<1>1. i \in 1..Base /\ j \in 1..Base /\ Base \in Nat
  BY FlyingBound DEF StageInv, FrontInOrder
<1>2. CASE i < j
  <2>1. j \in (i + 1)..Base
    BY <1>1, <1>2
  <2> QED BY <2>1 DEF ScoreInv
<1>3. CASE j < i
  <2>1. i \in (j + 1)..Base
    BY <1>1, <1>3
  <2> QED BY <2>1 DEF ScoreInv
<1> QED BY <1>1, <1>2, <1>3

LEMMA ScoreWriteBack == StageInv /\ PlacesInv /\ ScoreInv /\ WriteBack => ScoreInv'
<1> SUFFICES ASSUME StageInv, PlacesInv, ScoreInv, WriteBack PROVE ScoreInv'
  OBVIOUS
<1> DEFINE done == InSpot("wbOld")
<1>1. /\ InFlight' = InFlight \ done /\ done \subseteq InFlight
      /\ Base' = Base /\ stream' = stream
  BY FlowWriteBack DEF WriteBack
<1>2. destTable' = destTable \ UNION {Dest(i) : i \in done}
  BY FinishedByWriteBack DEF WriteBack, Released, InSpot
<1> HIDE DEF done
<1>3. \A i \in InFlight \ done, d \in done : Dest(i) \cap Dest(d) = {}
  BY <1>1, OwnDestination
<1>4. destTable' = UNION {Dest(i) : i \in InFlight \ done}
  <2>1. \A r : r \in destTable <=> \E i \in InFlight : r \in Dest(i)
    BY DEF ScoreInv
  <2> QED BY <1>1, <1>2, <1>3, <2>1
<1> QED BY <1>1, <1>4, StreamSame DEF ScoreInv

LEMMA ScoreExecute ==
    ASSUME StageInv, PlacesInv, ScoreInv, NEW keep \in Keeps, Execute(keep)
    PROVE  ScoreInv'
<1>1. /\ InFlight' = InFlight \ AllDropped(keep) /\ AllDropped(keep) \subseteq InFlight
      /\ Base' = Base /\ stream' = stream /\ destTable' = destTable
  BY FlowExecute DEF Execute
<1>2. ASSUME NEW i \in AllDropped(keep)
      PROVE  Dest(i) = {}
  <2>1. ClassOf(i) \in {"nop", "store"} /\ i \in OpId
    BY <1>1, FlowExecute, FlyingBound
  <2>2. Code(i) \in Opcodes
    BY <2>1, OpcodeType DEF StageInv
  <2> QED BY <2>1, <2>2, OpcodesAssumption DEF ClassOf, Dest
<1>3. destTable = UNION {Dest(i) : i \in InFlight \ AllDropped(keep)}
  <2>1. \A r : r \in destTable <=> \E i \in InFlight : r \in Dest(i)
    BY DEF ScoreInv
  <2> QED BY <1>2, <2>1
<1> QED BY <1>1, <1>3, StreamSame DEF ScoreInv

LEMMA ScoreDecode ==
    ASSUME StageInv, PlacesInv, ScoreInv, NEW lane \in Lanes, Decode(lane)
    PROVE  ScoreInv'
<1> DEFINE n == Len(lane)
           new == (Base + 1)..Base'
<1>1. /\ InFlight' = InFlight \cup new /\ stream' = stream
      /\ Base' = Base + n /\ n \in Nat /\ Base \in Nat
      /\ \A k \in 1..n : Buffered[k] = Base + k
  BY FlowDecode
<1>2. destTable' = destTable \cup UNION {Dest(i) : i \in new}
  <2>1. destTable' = destTable \cup UNION {Dest(Buffered[k]) : k \in 1..n}
    BY DEF Decode
  <2> HIDE DEF n
  <2>2. \A i \in new : i - Base \in 1..n /\ Base + (i - Base) = i
    BY <1>1
  <2>3. \A k \in 1..n : Base + k \in new
    BY <1>1
  <2>4. UNION {Dest(Buffered[k]) : k \in 1..n} = UNION {Dest(i) : i \in new}
    <3> HIDE DEF new
    <3>1. \A k \in 1..n : Dest(Buffered[k]) = Dest(Base + k)
      BY <1>1
    <3>2. \A k \in 1..n : \E i \in new : Dest(Buffered[k]) = Dest(i)
      BY <2>3, <3>1
    <3>3. \A i \in new : \E k \in 1..n : Dest(Buffered[k]) = Dest(i)
      BY <2>2, <3>1
    <3> QED BY <3>2, <3>3
  <2> QED BY <2>1, <2>4
<1>3. ASSUME NEW j \in InFlight', NEW i \in (j + 1)..Base'
      PROVE  Dest(i) \cap Dest(j) = {}
  <2>1. j \in Nat /\ Base' \in Nat /\ Base' >= Base
    <3>1. InFlight \subseteq 1..Base
      BY FlyingBound
    <3> HIDE DEF n
    <3> QED BY <1>1, <3>1
  <2> HIDE DEF n
  <2>2. CASE i \in new
    <3>1. j \in InFlight \cup ((Base + 1)..(i - 1))
      BY <1>1, <2>1, <2>2
    <3> QED BY <2>2, <3>1, IssueClear
  <2>3. CASE i \notin new
    <3>1. i \in (j + 1)..Base /\ j \notin new
      BY <1>1, <2>1, <2>3
    <3> QED BY <1>1, <3>1 DEF ScoreInv
  <2> QED BY <2>2, <2>3
<1> HIDE DEF new
<1>4. destTable' = UNION {Dest(i) : i \in InFlight'}
  BY <1>1, <1>2 DEF ScoreInv
<1> QED BY <1>1, <1>3, <1>4, StreamSame DEF ScoreInv

LEMMA ScoreNext ==
    Predicted /\ StageInv /\ PlacesInv /\ CoverInv /\ ScoreInv /\ [Next]_vars => ScoreInv'
<1> SUFFICES ASSUME StageInv, PlacesInv, CoverInv, ScoreInv, [Next]_vars PROVE ScoreInv'
  OBVIOUS
<1>1. CASE Preprocess \/ DecodeStalled \/ FetchStalled \/ EndOfSimulation \/ UNCHANGED vars
  BY <1>1, FlowQuiet, StreamSame DEF ScoreInv
<1>2. CASE WriteBack
  BY <1>2, ScoreWriteBack
<1>3. ASSUME NEW keep \in Keeps, Execute(keep)
      PROVE  ScoreInv'
  BY <1>3, ScoreExecute
<1>4. CASE OpRead \/ Update
  BY <1>4, FlowOpRead, FlowUpdate, StreamSame DEF ScoreInv
<1>5. ASSUME NEW lane \in Lanes, Decode(lane)
      PROVE  ScoreInv'
  BY <1>5, ScoreDecode
<1>6. ASSUME NEW group \in Groups, Fetch(group)
      PROVE  ScoreInv'
  <2>1. \A i \in 1..Base : Dest(i)' = Dest(i)
    BY <1>6, FlowFetch, FlyingBound
  <2>2. \A j \in InFlight : Dest(j)' = Dest(j) /\ \A i \in (j + 1)..Base : Dest(i)' = Dest(i)
    <3>1. \A j \in InFlight : j \in 1..Base /\ \A i \in (j + 1)..Base : i \in 1..Base
      BY FlyingBound DEF StageInv, FrontInOrder
    <3> QED BY <2>1, <3>1
  <2> QED BY <1>6, <2>2, FlowFetch DEF ScoreInv
<1>7. CASE Recover
  BY <1>7 DEF Recover, CoverInv
<1> QED BY <1>1, <1>2, <1>3, <1>4, <1>5, <1>6, <1>7 DEF Next

FlowInv == StageInv /\ PlacesInv /\ CoverInv /\ ScoreInv

LEMMA FlowInvariant == ASSUME Predicted PROVE Spec => []FlowInv
<1>1. Init => FlowInv
  BY InitType, LatchInit, FrontInit, PhaseInit, PlacesInit, CoverInit, ScoreInit
     DEF FlowInv, StageInv
<1>2. FlowInv /\ [Next]_vars => FlowInv'
  BY StageNext, PlacesNext, CoverNext, ScoreNext DEF FlowInv
<1> QED BY <1>1, <1>2, PTL DEF Spec

\* When every branch goes the way FETCH took, the destination tables are what
\* the operations under way will write, neither more nor less.
THEOREM ScoreboardStaysExact == ASSUME Predicted PROVE Spec => []ScoreboardExact
<1>1. FlowInv => ScoreboardExact
  BY IssuedIsInFlight DEF FlowInv, ScoreInv, ScoreboardExact
<1> QED BY <1>1, FlowInvariant, PTL

-----------------------------------------------------------------------------
(* What the registers hold *)

\* WRITEBACK reads every latch.
LEMMA EveryLatchRead == \A p \in Pipes : \E k \in Pipes : WBOrder[k] = p
<1>1. WBOrder \in Injection(Pipes, Pipes)
  BY PipesAssumption DEF Injection, IsInjective
<1>2. IsFiniteSet(Pipes)
  BY FS_Interval, PipesAssumption DEF Pipes
<1>3. WBOrder \in Surjection(Pipes, Pipes)
  BY <1>1, <1>2, FS_Injection
<1> QED BY <1>3 DEF Surjection

LEMMA LastWriterIs ==
    ASSUME NEW i \in Nat, NEW r, NEW j \in 1..(i - 1), OnPath(j), r \in Dest(j),
           \A k \in (j + 1)..(i - 1) : r \notin Dest(k)
    PROVE  LastWriter(i, r) = j
<1> DEFINE earlier == {k \in 1..(i - 1) : OnPath(k) /\ r \in Dest(k)}
           last == CHOOSE k \in earlier : \A m \in earlier : m <= k
<1>1. j \in earlier /\ \A m \in earlier : m <= j
  <2>1. ASSUME NEW m \in earlier, ~(m <= j)
        PROVE  FALSE
    <3>1. m \in (j + 1)..(i - 1) /\ r \in Dest(m)
      BY <2>1
    <3> QED BY <3>1
  <2> QED BY <2>1
<1>2. last \in earlier /\ \A m \in earlier : m <= last
  BY <1>1
<1>3. \A m \in earlier : m \in Nat
  OBVIOUS
<1>4. LastWriter(i, r) = last
  BY <1>1 DEF LastWriter
<1> HIDE DEF earlier, last
<1>5. last <= j /\ j <= last /\ last \in Nat /\ j \in Nat
  BY <1>1, <1>2, <1>3
<1> QED BY <1>4, <1>5

Earlier(i, r) == {j \in 1..(i - 1) : OnPath(j) /\ r \in Dest(j)}
LastOf(S) == IF S = {} THEN 0 ELSE CHOOSE j \in S : \A k \in S : k <= j

LEMMA LastOfEarlier == \A i, r : LastWriter(i, r) = LastOf(Earlier(i, r))
BY DEF LastWriter, LastOf, Earlier

LEMMA LastOfEarlierNext ==
    /\ \A i, r : LastWriter(i, r)' = LastOf(Earlier(i, r)')
    /\ \A r : LastWriter(Base + 1, r)' = LastOf(Earlier(Base + 1, r)')
BY DEF LastWriter, LastOf, Earlier

LEMMA LastWriterSkips ==
    ASSUME NEW i \in Nat, NEW m \in Nat, i <= m, NEW r,
           \A k \in i..(m - 1) : r \notin Dest(k)
    PROVE  LastWriter(m, r) = LastWriter(i, r)
<1>1. \A j \in 1..(m - 1) : j \in 1..(i - 1) \/ j \in i..(m - 1)
  OBVIOUS
<1>2. \A j \in 1..(i - 1) : j \in 1..(m - 1)
  OBVIOUS
<1>3. Earlier(m, r) = Earlier(i, r)
  BY <1>1, <1>2 DEF Earlier
<1> QED BY <1>3, LastOfEarlier

LEMMA LastWriterStays ==
    ASSUME NEW i, NEW r,
           \A j \in 1..(i - 1) : OnPath(j)' = OnPath(j) /\ Dest(j)' = Dest(j)
    PROVE  LastWriter(i, r)' = LastWriter(i, r)
<1>1. Earlier(i, r)' = Earlier(i, r)
  BY DEF Earlier
<1> QED BY <1>1, LastOfEarlier, LastOfEarlierNext

LEMMA ValueInit == Init => IdleRight /\ WaitRight /\ ReadRight
<1> SUFFICES ASSUME Init PROVE IdleRight /\ WaitRight /\ ReadRight
  OBVIOUS
<1>1. OpId = {} /\ TypeOK /\ Base = 0 /\ regs = NoValues /\ regsNew = NoValues
      /\ \A p \in Pipes : rdEx[p].old.op = 0 /\ rdEx[p].new.op = 0
  BY InitType, FrontInit DEF Init, OpId, EmptyRead
<1>2. \A k \in Spots : InSpot(k) = {}
  BY <1>1, Flying, HoldsType
<1>3. IdleRight
  <2>1. \A r \in Regs : Committed(r) = 0
    BY <1>1 DEF Committed, NoValues
  <2>2. \A r : LastWriter(0 + 1, r) = 0
    BY DEF LastWriter
  <2> QED BY <1>1, <2>1, <2>2 DEF IdleRight
<1>4. WaitRight
  BY <1>2, BranchLane DEF WaitRight
<1>5. ReadRight
  BY <1>1 DEF ReadRight
<1> QED BY <1>3, <1>4, <1>5

\* An action that leaves the registers and the operations before READ alone.
LEMMA ValueQuiet ==
    ASSUME IdleRight, WaitRight,
           UNCHANGED <<stream, destTable, regs, regsNew>>, Base' = Base,
           InFlight' \subseteq InFlight,
           \A k \in {"decOld", "decNew"} : InSpot(k)' = InSpot(k)
    PROVE  IdleRight' /\ WaitRight'
<1>1. \A r : Committed(r)' = Committed(r)
  BY DEF Committed
<1>2. \A i, r : LastWriter(i, r)' = LastWriter(i, r)
  BY LastWriterStays, StreamSame
<1>3. \A r : LastWriter(Base + 1, r)' = LastWriter(Base + 1, r)
  <2>1. \A r : Earlier(Base + 1, r)' = Earlier(Base + 1, r)
    BY StreamSame DEF Earlier
  <2> QED BY <2>1, LastOfEarlier, LastOfEarlierNext
<1>4. IdleRight'
  BY <1>1, <1>3 DEF IdleRight
<1>5. WaitRight'
  BY <1>1, <1>2, StreamSame DEF WaitRight
<1> QED BY <1>4, <1>5

LEMMA ReadQuiet ==
    ASSUME ReadRight, UNCHANGED stream,
           \A p \in Pipes : \A l \in {rdEx'[p].old, rdEx'[p].new} :
             l.op = 0 \/ l \in {rdEx[p].old, rdEx[p].new}
    PROVE  ReadRight'
<1>1. \A i, r : LastWriter(i, r)' = LastWriter(i, r)
  BY LastWriterStays, StreamSame
<1>2. ASSUME NEW p \in Pipes, NEW l \in {rdEx'[p].old, rdEx'[p].new}, l.op # 0,
             NEW r \in Srcs(l.op)'
      PROVE  l.val[r] = LastWriter(l.op, r)'
  <2>1. l \in {rdEx[p].old, rdEx[p].new} /\ r \in Srcs(l.op)
    BY <1>2, StreamSame
  <2> QED BY <1>1, <1>2, <2>1 DEF ReadRight
<1> QED BY <1>2 DEF ReadRight

DataInv == IdleRight /\ WaitRight /\ ReadRight

\* What reads a register that is about to be written is no older than READ.
LEMMA WriteBackSparesWaiting ==
    ASSUME StageInv, PlacesInv, WaitRight, NEW k \in {"decOld", "decNew"},
           NEW i \in InSpot(k), NEW r \in Srcs(i)
    PROVE  Writers(r) = {}
<1> SUFFICES ASSUME NEW m \in Writers(r) PROVE FALSE
  OBVIOUS
<1> DEFINE w == exWb[WBOrder[m]].old
<1>1. m \in Pipes /\ w # 0 /\ r \in Dest(w) /\ WBOrder[m] \in Pipes
  BY PipesAssumption DEF Writers
<1>2. w \in Holds("wbOld", WBOrder[m])
  BY <1>1, Held DEF Op
<1>3. w \in InFlight
  BY <1>1, <1>2, Flying, BranchLane
<1> HIDE DEF w
<1>4. w \in InSpot(k)
  BY <1>1, <1>3 DEF WaitRight
<1>5. PICK p \in Pipes : w \in Holds(k, p)
  BY <1>4, Flying
<1> QED BY <1>1, <1>2, <1>5 DEF PlacesInv, Spots

LEMMA DataWriteBack ==
    ASSUME StageInv, PlacesInv, PathInv, ScoreInv, DataInv, WriteBack
    PROVE  DataInv'
<1> DEFINE done == InSpot("wbOld")
<1>0. /\ InFlight' = InFlight \ done /\ done \subseteq InFlight
      /\ Base' = Base /\ Base \in Nat /\ stream' = stream /\ rdEx' = rdEx
      /\ regs' = regs /\ TypeOK /\ phase = "writeback"
  BY FlowWriteBack DEF WriteBack, StageInv, FrontInOrder
<1>1. destTable' = destTable \ UNION {Dest(i) : i \in done}
  BY FinishedByWriteBack DEF WriteBack, Released, InSpot
<1>2. \A r \in Regs : regsNew'[r] = IF Writers(r) = {} THEN regsNew[r] ELSE LastWritten(r)
  BY DEF WriteBack
<1>3. \A i, r : LastWriter(i, r)' = LastWriter(i, r)
  BY <1>0, LastWriterStays, StreamSame
<1>4. \A i : i \in done <=> \E p \in Pipes : i \in Holds("wbOld", p)
  BY Flying
<1> HIDE DEF done
<1>5. ASSUME NEW r \in Regs, Writers(r) = {}
      PROVE  Committed(r)' = Committed(r) /\ regsNew'[r] = regsNew[r]
  BY <1>0, <1>2, <1>5 DEF Committed
<1>6. ASSUME NEW r \in Regs, Writers(r) = {}
      PROVE  r \notin UNION {Dest(i) : i \in done}
  <2> SUFFICES ASSUME NEW i \in done, r \in Dest(i) PROVE FALSE
    OBVIOUS
  <2>1. PICK p \in Pipes : i = exWb[p].old /\ i # 0
    BY <1>4, Held DEF Op
  <2>2. PICK k \in Pipes : WBOrder[k] = p
    BY EveryLatchRead
  <2> QED BY <1>6, <2>1, <2>2 DEF Writers
<1>7. ASSUME NEW r \in Regs, Writers(r) # {}
      PROVE  Committed(r)' = LastWriter(Base + 1, r)
  <2>1. PICK p \in Pipes : LastWritten(r) \in Holds("wbOld", p) /\ r \in Dest(LastWritten(r))
    BY <1>7, WrittenBack
  <2> DEFINE w == LastWritten(r)
  <2> HIDE DEF w
  <2>2. w \in Holds("wbOld", p) /\ r \in Dest(w) /\ regsNew'[r] = w
    BY <1>2, <1>7, <2>1 DEF w
  <2>3. w \in InFlight /\ w \in 1..Base /\ w # 0
    BY <2>2, Flying, FlyingBound, BranchLane
  <2>4. OnPath(w)
    BY <1>0, <2>2 DEF PathInv, LanePath
  <2>5. \A k \in (w + 1)..Base : r \notin Dest(k)
    BY <2>2, <2>3 DEF ScoreInv
  <2>6. PICK b : b = Base + 1
    OBVIOUS
  <2>7. LastWriter(Base + 1, r) = w
    <3>1. b \in Nat /\ b - 1 = Base
      BY <1>0, <2>6
    <3>2. w \in 1..(b - 1) /\ \A k \in (w + 1)..(b - 1) : r \notin Dest(k)
      BY <2>3, <2>5, <3>1
    <3>3. LastWriter(b, r) = w
      BY <2>2, <2>4, <3>1, <3>2, LastWriterIs
    <3> QED BY <2>6, <3>3
  <2>8. Committed(r)' = w
    BY <2>2, <2>3 DEF Committed
  <2> QED BY <2>7, <2>8
<1>8. \A r : LastWriter(Base + 1, r)' = LastWriter(Base + 1, r)
  <2>1. \A r : Earlier(Base + 1, r)' = Earlier(Base + 1, r)
    BY <1>0, StreamSame DEF Earlier
  <2> QED BY <2>1, LastOfEarlier, LastOfEarlierNext
<1>9. IdleRight'
  <2>1. ASSUME NEW r \in Regs, r \notin destTable'
        PROVE  Committed(r)' = LastWriter(Base + 1, r)
    <3>1. CASE Writers(r) = {}
      <4>1. r \notin destTable
        BY <1>1, <1>6, <2>1, <3>1
      <4> QED BY <1>5, <3>1, <4>1 DEF DataInv, IdleRight
    <3> QED BY <1>7, <3>1
  <2> QED BY <1>8, <2>1 DEF IdleRight
<1>10. WaitRight'
  <2>1. \A k \in {"decOld", "decNew"} : InSpot(k)' = InSpot(k)
    <3>1. \A k \in {"decOld", "decNew"}, p \in Pipes : Holds(k, p)' = Holds(k, p)
      BY <1>0, MoveWriteBack
    <3> QED BY <3>1 DEF InSpot
  <2>2. ASSUME NEW k \in {"decOld", "decNew"}, NEW i \in InSpot(k), NEW r \in Srcs(i)
        PROVE  /\ Committed(r)' = LastWriter(i, r)
               /\ \A j \in InFlight' : r \in Dest(j) => j \in InSpot(k)
               /\ k = "decOld" => regsNew'[r] = 0
    <3>1. r \in Regs
      <4>1. i \in OpId
        BY <1>0, Flying, HoldsType, BranchLane
      <4> QED BY <1>0, <4>1, OpcodeType
    <3>2. Writers(r) = {}
      BY WriteBackSparesWaiting DEF DataInv
    <3> QED BY <1>0, <1>5, <3>1, <3>2 DEF DataInv, WaitRight
  <2> QED BY <1>0, <1>3, <2>1, <2>2, StreamSame DEF WaitRight
<1>11. ReadRight'
  BY <1>0, ReadQuiet DEF DataInv
<1> QED BY <1>9, <1>10, <1>11 DEF DataInv

LEMMA DataExecute ==
    ASSUME StageInv, PlacesInv, DataInv, NEW keep \in Keeps, Execute(keep)
    PROVE  DataInv'
<1>1. /\ UNCHANGED <<stream, destTable, regs, regsNew>> /\ Base' = Base
      /\ InFlight' \subseteq InFlight
  BY FlowExecute DEF Execute, regfile
<1>2. \A k \in {"decOld", "decNew"} : InSpot(k)' = InSpot(k)
  <2>1. \A k \in {"decOld", "decNew"}, p \in Pipes : Holds(k, p)' = Holds(k, p)
    BY MoveExecute
  <2> QED BY <2>1 DEF InSpot
<1>3. \A p \in Pipes : rdEx'[p].old.op = 0 /\ rdEx'[p].new = rdEx[p].new
  BY DEF Execute, StageInv, TypeOK, EmptyRead
<1>4. \A p \in Pipes : \A l \in {rdEx'[p].old, rdEx'[p].new} :
        l.op = 0 \/ l \in {rdEx[p].old, rdEx[p].new}
  BY <1>3
<1> QED BY <1>1, <1>2, <1>4, ValueQuiet, ReadQuiet DEF DataInv

LEMMA DataOpRead ==
    ASSUME StageInv, PlacesInv, DataInv, OpRead
    PROVE  DataInv'
<1>1. /\ UNCHANGED <<stream, destTable, regs, regsNew>> /\ Base' = Base
      /\ InFlight' = InFlight
  BY FlowOpRead DEF OpRead, regfile
<1>2. /\ \A r : Committed(r)' = Committed(r)
      /\ \A i, r : LastWriter(i, r)' = LastWriter(i, r)
  BY <1>1, LastWriterStays, StreamSame DEF Committed
<1>3. InSpot("decOld")' = {} /\ InSpot("decNew")' = InSpot("decNew")
  <2>1. \A p \in Pipes : Holds("decOld", p)' = {} /\ Holds("decNew", p)' = Holds("decNew", p)
    BY MoveOpRead
  <2> QED BY <2>1 DEF InSpot
<1>4. IdleRight'
  <2>1. \A r : Earlier(Base + 1, r)' = Earlier(Base + 1, r)
    BY <1>1, StreamSame DEF Earlier
  <2>2. \A r : LastWriter(Base + 1, r)' = LastWriter(Base + 1, r)
    BY <2>1, LastOfEarlier, LastOfEarlierNext
  <2> QED BY <1>1, <1>2, <2>2 DEF DataInv, IdleRight
<1>5. WaitRight'
  BY <1>1, <1>2, <1>3, StreamSame DEF DataInv, WaitRight
<1>6. ASSUME NEW p \in Pipes, NEW l \in {rdEx'[p].old, rdEx'[p].new}, l.op # 0
      PROVE  \A r \in Srcs(l.op) : l.val[r] = LastWriter(l.op, r)
  <2>1. CASE l \in {rdEx[p].old, rdEx[p].new}
    BY <1>6, <2>1 DEF DataInv, ReadRight
  <2>2. CASE l \notin {rdEx[p].old, rdEx[p].new}
    <3>1. l = [op |-> Head(Waiting(p)), val |-> Operands(Head(Waiting(p)))]
          /\ Waiting(p) # <<>>
      <4>1. rdEx'[p] = rdEx[p] \/ rdEx'[p] = [rdEx[p] EXCEPT !.new =
                    IF Waiting(p) = <<>> THEN EmptyRead
                    ELSE [op |-> Head(Waiting(p)),
                          val |-> Operands(Head(Waiting(p)))]]
        BY DEF OpRead
      <4>2. rdEx[p] \in [old : ReadEntry, new : ReadEntry]
        BY DEF StageInv, TypeOK
      <4>3. /\ rdEx'[p].old = rdEx[p].old
            /\ \/ rdEx'[p].new = rdEx[p].new
               \/ rdEx'[p].new = IF Waiting(p) = <<>> THEN EmptyRead
                    ELSE [op |-> Head(Waiting(p)),
                          val |-> Operands(Head(Waiting(p)))]
        BY <4>1, <4>2
      <4> QED BY <1>6, <2>2, <4>3 DEF EmptyRead
    <3> DEFINE h == Head(Waiting(p))
    <3>2. h \in OpId /\ h \in InSpot("decOld")
      <4>1. Waiting(p) = decRd[p].old /\ decRd[p].old \in Seq(OpId)
        BY WaitingFits DEF StageInv, TypeOK
      <4>2. h \in OpId /\ h \in Elements(decRd[p].old)
        <5>1. Len(decRd[p].old) \in Nat /\ Len(decRd[p].old) # 0
          BY <3>1, <4>1, EmptySeq, LenProperties
        <5>2. h = decRd[p].old[1] /\ 1 \in 1..Len(decRd[p].old)
          BY <4>1, <5>1
        <5> QED BY <4>1, <5>2, ElementOfSeq DEF Elements
      <4> QED BY <4>2, Held, Flying
    <3> HIDE DEF h
    <3>3. l.op = h /\ l.val = Operands(h)
      BY <3>1 DEF h
    <3>4. ASSUME NEW r \in Srcs(h)
          PROVE  l.val[r] = LastWriter(h, r)
      <4>1. r \in Regs
        BY <3>2, OpcodeType DEF StageInv
      <4>2. l.val[r] = regs[r]
        BY <3>3, <4>1 DEF Operands
      <4>3. Committed(r) = LastWriter(h, r) /\ regsNew[r] = 0
        BY <3>2 DEF DataInv, WaitRight
      <4> QED BY <4>2, <4>3 DEF Committed
    <3> QED BY <3>3, <3>4
  <2> QED BY <2>1, <2>2
<1>7. ReadRight'
  BY <1>1, <1>2, <1>6, StreamSame DEF ReadRight
<1> QED BY <1>4, <1>5, <1>7 DEF DataInv

LEMMA DataDecode ==
    ASSUME StageInv, PlacesInv, ScoreInv, DataInv, NEW lane \in Lanes, Decode(lane)
    PROVE  DataInv'
<1> DEFINE new == (Base + 1)..Base'
<1>0. Base \in Nat /\ Base' \in Nat /\ Base <= Base'
  BY FlowDecode
<1>1. /\ InFlight' = InFlight \cup new /\ InSpot("decNew")' = new
      /\ UNCHANGED <<stream, regs, regsNew, rdEx>>
  BY FlowDecode DEF Decode, regfile
<1>2. \A i \in new : \A j \in InFlight \cup ((Base + 1)..(i - 1)) :
         i \in OpId /\ Dest(j) \cap (Srcs(i) \cup Dest(i)) = {}
  BY IssueClear
<1>3. \A i \in new : i \in OpId
  <2>1. \A i \in new : i - Base \in 1..Len(lane) /\ Base + (i - Base) = i
    BY FlowDecode
  <2> QED BY <2>1, MoveDecode
<1>4. /\ \A r : Committed(r)' = Committed(r)
      /\ \A i, r : LastWriter(i, r)' = LastWriter(i, r)
  BY <1>1, LastWriterStays, StreamSame DEF Committed
<1>5. InSpot("decOld")' = {}
  <2>1. \A p \in Pipes : Holds("decOld", p)' = {}
    BY MoveDecode
  <2> QED BY <2>1 DEF InSpot
<1>6. destTable' = UNION {Dest(i) : i \in InFlight'} /\ destTable \subseteq destTable'
  <2>1. ScoreInv'
    BY ScoreDecode
  <2>2. \A i : Dest(i)' = Dest(i)
    BY <1>1, StreamSame
  <2>3. destTable \subseteq destTable'
    BY DEF Decode
  <2> QED BY <2>1, <2>2, <2>3 DEF ScoreInv
<1> HIDE DEF new
<1>7. IdleRight'
  <2>1. ASSUME NEW r \in Regs, r \notin destTable'
        PROVE  Committed(r) = LastWriter(Base' + 1, r)
    <3>1. \A i \in new : r \notin Dest(i)
      BY <1>1, <1>6, <2>1
    <3>2. PICK a, b : a = Base /\ b = Base'
      OBVIOUS
    <3>3. a \in Nat /\ b \in Nat /\ a <= b /\ new = (a + 1)..b
      BY <1>0, <3>2, Zenon DEF new
    <3>4. LastWriter(Base' + 1, r) = LastWriter(Base + 1, r)
      <4>1. PICK c, d : c = a + 1 /\ d = b + 1
        OBVIOUS
      <4>2. c \in Nat /\ d \in Nat /\ c <= d /\ \A i \in c..(d - 1) : r \notin Dest(i)
        BY <3>1, <3>3, <4>1
      <4>3. LastWriter(d, r) = LastWriter(c, r)
        BY <4>2, LastWriterSkips
      <4> QED BY <3>2, <4>1, <4>3, Zenon
    <3>5. Committed(r) = LastWriter(Base + 1, r)
      BY <1>6, <2>1 DEF DataInv, IdleRight
    <3> QED BY <3>4, <3>5
  <2>2. \A r : LastWriter(Base + 1, r)' = LastWriter(Base' + 1, r)
    <3>1. \A r : Earlier(Base + 1, r)' = Earlier(Base' + 1, r)
      BY <1>1, StreamSame DEF Earlier
    <3> QED BY <3>1, LastOfEarlier, LastOfEarlierNext
  <2> QED BY <1>4, <2>1, <2>2 DEF IdleRight
<1>8. WaitRight'
  <2>1. ASSUME NEW i \in new, NEW r \in Srcs(i)
        PROVE  /\ Committed(r) = LastWriter(i, r)
               /\ \A j \in InFlight' : r \in Dest(j) => j \in new
    <3>1. \A j \in InFlight : r \notin Dest(j)
      BY <1>2
    <3>2. \A j \in (Base + 1)..(i - 1) : r \notin Dest(j)
      BY <1>2
    <3>3. r \in Regs
      BY <1>3, OpcodeType DEF StageInv
    <3>4. r \notin destTable
      BY <3>1 DEF ScoreInv
    <3>5. Committed(r) = LastWriter(Base + 1, r)
      BY <3>3, <3>4 DEF DataInv, IdleRight
    <3>6. i \in Nat /\ Base + 1 \in Nat /\ Base + 1 <= i
      BY <1>0 DEF new
    <3>7. LastWriter(i, r) = LastWriter(Base + 1, r)
      BY <3>2, <3>6, LastWriterSkips
    <3> QED BY <1>1, <3>1, <3>5, <3>7
  <2> QED BY <1>1, <1>4, <1>5, <2>1, StreamSame DEF WaitRight
<1>9. ReadRight'
  BY <1>1, ReadQuiet DEF DataInv
<1> QED BY <1>7, <1>8, <1>9 DEF DataInv

LEMMA DataFetch ==
    ASSUME StageInv, PlacesInv, DataInv, NEW group \in Groups, Fetch(group)
    PROVE  DataInv'
<1>1. /\ InFlight' = InFlight /\ Base' = Base /\ Base \in Nat
      /\ UNCHANGED <<destTable, regs, regsNew, rdEx, exWb, exStation, decRd>>
      /\ \A i \in OpId : Dest(i)' = Dest(i) /\ Srcs(i)' = Srcs(i) /\ OnPath(i)' = OnPath(i)
  BY FlowFetch DEF Fetch, regfile, lanes, StageInv, FrontInOrder
<1>2. 1..Base \subseteq OpId /\ InFlight \subseteq 1..Base
  BY FlyingBound
<1>3. ASSUME NEW i \in 1..(Base + 1), NEW r
      PROVE  LastWriter(i, r)' = LastWriter(i, r)
  <2>1. \A j \in 1..(i - 1) : j \in OpId
    <3>1. \A j \in 1..(i - 1) : j \in 1..Base
      BY <1>1
    <3> QED BY <1>2, <3>1
  <2> QED BY <1>1, <2>1, LastWriterStays
<1>4. \A r : Committed(r)' = Committed(r)
  BY <1>1 DEF Committed
<1>5. \A k \in {"decOld", "decNew"} : InSpot(k)' = InSpot(k)
  <2>1. \A k \in {"decOld", "decNew"}, p \in Pipes : Holds(k, p)' = Holds(k, p)
    BY <1>1, HoldsQuiet, BranchLane
  <2> QED BY <2>1 DEF InSpot
<1>6. IdleRight'
  <2>1. \A j \in 1..(Base + 1 - 1) : j \in OpId
    <3>1. Base + 1 - 1 = Base
      BY <1>1
    <3> QED BY <1>2, <3>1
  <2>2. \A r : Earlier(Base + 1, r)' = Earlier(Base + 1, r)
    BY <1>1, <2>1 DEF Earlier
  <2>3. \A r : LastWriter(Base + 1, r)' = LastWriter(Base + 1, r)
    BY <2>2, LastOfEarlier, LastOfEarlierNext
  <2> QED BY <1>1, <1>4, <2>3 DEF DataInv, IdleRight
<1>7. \A i \in InFlight : i \in OpId /\ i \in 1..(Base + 1)
  <2>1. \A i \in 1..Base : i \in 1..(Base + 1)
    BY <1>1
  <2> QED BY <1>2, <2>1
<1>8. WaitRight'
  <2>1. \A k \in {"decOld", "decNew"} : InSpot(k) \subseteq InFlight
    BY Flying, BranchLane
  <2>2. ASSUME NEW k \in {"decOld", "decNew"}, NEW i \in InSpot(k), NEW r \in Srcs(i)
        PROVE  Committed(r)' = LastWriter(i, r)'
    BY <1>3, <1>4, <1>7, <2>1 DEF DataInv, WaitRight
  <2>3. \A k \in {"decOld", "decNew"} : \A i \in InSpot(k) : Srcs(i)' = Srcs(i)
    BY <1>1, <1>7, <2>1
  <2>4. \A j \in InFlight : Dest(j)' = Dest(j)
    BY <1>1, <1>7
  <2> QED BY <1>1, <1>5, <2>2, <2>3, <2>4 DEF DataInv, WaitRight
<1>9. ReadRight'
  <2>1. ASSUME NEW p \in Pipes, NEW l \in {rdEx[p].old, rdEx[p].new}, l.op # 0
        PROVE  l.op \in InFlight
    <3>1. l.op \in Holds("rdOld", p) \/ l.op \in Holds("rdNew", p)
      BY <2>1, Held DEF Op
    <3> QED BY <3>1, Flying, BranchLane
  <2>2. ASSUME NEW p \in Pipes, NEW l \in {rdEx[p].old, rdEx[p].new}, l.op # 0,
               NEW r \in Srcs(l.op)'
        PROVE  l.val[r] = LastWriter(l.op, r)'
    <3>1. l.op \in OpId /\ l.op \in 1..(Base + 1)
      BY <1>7, <2>1, <2>2
    <3>2. r \in Srcs(l.op)
      BY <1>1, <2>2, <3>1
    <3> QED BY <1>3, <2>2, <3>1, <3>2 DEF DataInv, ReadRight
  <2> QED BY <1>1, <2>2 DEF ReadRight
<1> QED BY <1>6, <1>8, <1>9 DEF DataInv

LEMMA DataUpdate ==
    ASSUME StageInv, PlacesInv, DataInv, Update
    PROVE  DataInv'
<1>1. /\ InFlight' = InFlight /\ Base' = Base /\ UNCHANGED <<stream, destTable>>
      /\ regs' = [r \in Regs |-> Committed(r)] /\ regsNew' = NoValues
      /\ phase = "update" /\ TypeOK
  BY FlowUpdate DEF Update, StageInv
<1>2. \A i, r : LastWriter(i, r)' = LastWriter(i, r)
  BY <1>1, LastWriterStays, StreamSame
<1>3. \A r \in Regs : Committed(r)' = Committed(r) /\ regsNew'[r] = 0
  BY <1>1 DEF Committed, NoValues
<1>4. InSpot("decOld") = {}
  <2>1. \A p \in Pipes : Holds("decOld", p) = {}
    BY MoveUpdate
  <2> QED BY <2>1 DEF InSpot
<1>5. \/ InSpot("decOld")' = InSpot("decNew") /\ InSpot("decNew")' = {}
      \/ InSpot("decOld")' = {} /\ InSpot("decNew")' = InSpot("decNew")
  <2>1. \A p \in Pipes : decRd[p].old = <<>> /\ decRd[p].new \in Seq(OpId)
    BY <1>1 DEF StageInv, LatchInv, LatchDiscipline, TypeOK
  <2>2. \/ \A p \in Pipes : decRd'[p] = decRd[p]
        \/ \A p \in Pipes : decRd'[p] = [old |-> decRd[p].old \o decRd[p].new, new |-> <<>>]
    BY DEF Update
  <2>3. CASE \A p \in Pipes : decRd'[p] = decRd[p]
    <3>1. \A p \in Pipes : /\ Holds("decOld", p)' = {}
                          /\ Holds("decNew", p)' = Holds("decNew", p)
      BY <2>1, <2>3, Held, HeldNext, EmptyHolds
    <3> QED BY <3>1 DEF InSpot
  <2>4. CASE \A p \in Pipes : decRd'[p] = [old |-> decRd[p].old \o decRd[p].new, new |-> <<>>]
    <3>1. ASSUME NEW p \in Pipes
          PROVE  decRd'[p].old = decRd[p].new /\ decRd'[p].new = <<>>
      <4>1. <<>> \o decRd[p].new = decRd[p].new
        BY <2>1, ConcatEmptySeq
      <4>2. decRd'[p] = [old |-> decRd[p].old \o decRd[p].new, new |-> <<>>]
        BY <2>4, Zenon
      <4>3. decRd[p].old \o decRd[p].new = decRd[p].new
        BY <2>1, <4>1
      <4> QED BY <4>2, <4>3
    <3>2. \A p \in Pipes : /\ Holds("decOld", p)' = Holds("decNew", p)
                          /\ Holds("decNew", p)' = {}
      BY <3>1, Held, HeldNext, EmptyHolds
    <3> QED BY <3>2 DEF InSpot
  <2> QED BY <2>2, <2>3, <2>4
<1>6. IdleRight'
  <2>1. \A r : Earlier(Base + 1, r)' = Earlier(Base + 1, r)
    BY <1>1, StreamSame DEF Earlier
  <2>2. \A r : LastWriter(Base + 1, r)' = LastWriter(Base + 1, r)
    BY <2>1, LastOfEarlier, LastOfEarlierNext
  <2> QED BY <1>1, <1>3, <2>2 DEF DataInv, IdleRight
<1>7. WaitRight'
  <2>1. ASSUME NEW i \in InSpot("decNew"), NEW r \in Srcs(i)
        PROVE  /\ Committed(r)' = LastWriter(i, r) /\ regsNew'[r] = 0
               /\ \A j \in InFlight : r \in Dest(j) => j \in InSpot("decNew")
    <3>1. i \in OpId
      BY <1>1, Flying, HoldsType, BranchLane
    <3>2. r \in Regs
      BY <1>1, <3>1, OpcodeType
    <3> QED BY <1>3, <3>2 DEF DataInv, WaitRight
  <2> QED BY <1>1, <1>2, <1>5, <2>1, StreamSame DEF WaitRight
<1>8. ReadRight'
  <2>1. \A p \in Pipes : \A l \in {rdEx'[p].old, rdEx'[p].new} :
          l.op = 0 \/ l \in {rdEx[p].old, rdEx[p].new}
    BY DEF Update, EmptyRead
  <2> QED BY <1>1, <2>1, ReadQuiet DEF DataInv
<1> QED BY <1>6, <1>7, <1>8 DEF DataInv

LEMMA DataNext ==
    OrderInv /\ FlowInv /\ DataInv /\ [Next]_vars => DataInv'
<1> SUFFICES ASSUME OrderInv, FlowInv, DataInv, [Next]_vars PROVE DataInv'
  OBVIOUS
<1>0. StageInv /\ PlacesInv /\ PathInv /\ CoverInv /\ ScoreInv
  BY DEF OrderInv, FlowInv
<1>1. CASE Preprocess \/ DecodeStalled \/ FetchStalled \/ EndOfSimulation \/ UNCHANGED vars
  <2>1. \A k \in {"decOld", "decNew"} : InSpot(k)' = InSpot(k)
    <3>1. \A k \in {"decOld", "decNew"}, p \in Pipes : Holds(k, p)' = Holds(k, p)
      BY <1>1, FlowQuiet, BranchLane
    <3> QED BY <3>1 DEF InSpot
  <2> QED BY <1>1, <2>1, FlowQuiet, ValueQuiet, ReadQuiet DEF DataInv
<1>2. CASE WriteBack \/ OpRead \/ Update
  BY <1>0, <1>2, DataWriteBack, DataOpRead, DataUpdate
<1>3. CASE \E keep \in Keeps : Execute(keep)
  BY <1>0, <1>3, DataExecute
<1>4. CASE \E lane \in Lanes : Decode(lane)
  BY <1>0, <1>4, DataDecode
<1>5. CASE \E group \in Groups : Fetch(group)
  BY <1>0, <1>5, DataFetch
<1>6. CASE Recover
  BY <1>0, <1>6 DEF Recover, CoverInv
<1> QED BY <1>1, <1>2, <1>3, <1>4, <1>5, <1>6 DEF Next

\* When every branch goes the way FETCH took, an operation carries from READ
\* to EX what a sequential machine would have read, although lanes finish out
\* of order: the destination tables and the order of the units in a cycle
\* leave no RAW, WAR or WAW hazard open.
THEOREM OperandsRight == ASSUME Predicted PROVE Spec => []ReadsLastWriter
<1>1. Init => DataInv
  BY ValueInit DEF DataInv
<1>2. OrderInv /\ FlowInv /\ DataInv /\ [Next]_vars => DataInv'
  BY DataNext
<1>3. DataInv => ReadsLastWriter
  BY DEF DataInv, ReadRight, ReadsLastWriter
<1> QED BY <1>1, <1>2, <1>3, OrderInvariant, FlowInvariant, PTL DEF Spec

-----------------------------------------------------------------------------
(* The pipeline implements in-order issue *)

Form == [dest : SUBSET Regs, srcs : SUBSET Regs]
Started == Cardinality(Issued \cup retired)

\* What the abstract machine sees.
View ==
    /\ Started = Base /\ Base \in Nat
    /\ Len(stream) \in Nat /\ Base <= Len(stream)
    /\ Program \in Seq(Form) /\ Len(Program) = Len(stream)
    /\ \A i \in OpId : Program[i] = [dest |-> Dest(i), srcs |-> Srcs(i)]

LEMMA ViewHolds == FlowInv => View
<1> SUFFICES ASSUME FlowInv PROVE View
  OBVIOUS
<1>0. StageInv /\ CoverInv /\ TypeOK
  BY DEF FlowInv, StageInv
<1>1. Base \in Nat /\ Len(stream) \in Nat /\ Base <= Len(stream)
  BY <1>0, BaseBound DEF StageInv
<1>2. Started = Base
  <2>1. Issued \cup retired = 1..Base
    BY <1>0, IssuedIsInFlight DEF CoverInv
  <2>2. Cardinality(1..Base) = IF 1 > Base THEN 0 ELSE Base - 1 + 1
    BY <1>1, FS_Interval
  <2>3. Cardinality(1..Base) = Base
    BY <1>1, <2>2
  <2> QED BY <2>1, <2>3 DEF Started
<1>3. Program \in [1..Len(stream) -> Form]
  BY <1>0, OpcodeType DEF Program, Form, OpId
<1>4. Program \in Seq(Form)
  BY <1>1, <1>3, SeqDef
<1>5. Len(Program) = Len(stream)
  BY <1>1, <1>3, <1>4, LenProperties
<1>6. \A i \in OpId : Program[i] = [dest |-> Dest(i), srcs |-> Srcs(i)]
  BY DEF Program
<1> QED BY <1>1, <1>2, <1>4, <1>5, <1>6 DEF View

LEMMA PrefixAgrees ==
    ASSUME NEW S, NEW s \in Seq(S), NEW t \in Seq(S), Len(s) <= Len(t),
           \A i \in 1..Len(s) : t[i] = s[i]
    PROVE  SubSeq(t, 1, Len(s)) = s
<1> DEFINE n == Len(s)
           u == SubSeq(t, 1, n)
<1>1. n \in Nat /\ \A i \in 1..n : s[i] \in S
  BY LenProperties, ElementOfSeq
<1>2. /\ u \in Seq(S)
      /\ Len(u) = IF 1 <= n THEN n - 1 + 1 ELSE 0
      /\ \A i \in 1..(n - 1 + 1) : u[i] = t[1 + i - 1]
  <2>1. \A i \in 1..n : t[i] \in S
    BY <1>1
  <2>2. 1 \in Int /\ n \in Int
    BY <1>1
  <2> QED BY <2>1, <2>2, SubSeqProperties
<1> HIDE DEF u
<1>3. Len(u) = n /\ n - 1 + 1 = n /\ \A i \in 1..n : 1 + i - 1 = i
  BY <1>1, <1>2
<1>4. \A i \in 1..n : u[i] = s[i]
  BY <1>2, <1>3
<1> QED BY <1>2, <1>3, <1>4, SeqEqual DEF u

Seen == <<Program, Started, retired>>

LEMMA SeenSame ==
    ASSUME UNCHANGED <<stream, retired>>, Started' = Started
    PROVE  UNCHANGED Seen
<1>1. Program' = Program
  BY StreamSame DEF Program
<1> QED BY <1>1 DEF Seen

LEMMA AbstractFetch ==
    ASSUME FlowInv, View, View', NEW group \in Groups, Fetch(group)
    PROVE  Abstract!Next \/ UNCHANGED Seen
<1>0. TypeOK /\ StageInv
  BY DEF FlowInv, StageInv
<1>1. /\ Base' = Base /\ retired' = retired
      /\ \A i \in OpId : Dest(i)' = Dest(i) /\ Srcs(i)' = Srcs(i) /\ i \in OpId'
  BY <1>0, FlowFetch
<1>2. Started' = Started
  BY <1>1 DEF View
<1>3. PICK n : n = Len(group)
  OBVIOUS
<1>4. /\ n \in Nat /\ Len(stream) \in Nat
      /\ Len(stream') = Len(stream) + n /\ Len(stream) + n <= ProgramLength
      /\ n = 0 => stream' = stream
  <2>1. n \in Nat /\ Len(stream') = Len(stream) + n
    BY <1>0, <1>3, GroupType, FetchedGroup
  <2>2. n = 0 => stream' = stream
    <3> SUFFICES ASSUME n = 0 PROVE stream' = stream
      OBVIOUS
    <3> DEFINE new == [k \in 1..Len(group) |->
            [code |-> group[k], onPath |-> ~offPath /\ ~Diverts(group, k - 1)]]
    <3>1. new = <<>>
      BY <1>3
    <3>2. stream' = stream \o new
      BY DEF Fetch
    <3> HIDE DEF new
    <3> QED BY <1>0, <3>1, <3>2, ConcatEmptySeq DEF TypeOK
  <2> QED BY <1>3, <2>1, <2>2, FrontTypes, <1>0 DEF Fetch
<1>5. CASE n = 0
  BY <1>1, <1>2, <1>4, <1>5, SeenSame
<1>6. CASE n # 0
  <2>1. PICK m, t, s : /\ m = Len(Program) /\ t = Program' /\ s = Program
    OBVIOUS
  <2>2. /\ s \in Seq(Form) /\ t \in Seq(Form)
        /\ m = Len(s) /\ m = Len(stream) /\ Len(t) = Len(stream')
    BY <2>1 DEF View
  <2>3. Len(t) = m + n /\ m + n <= ProgramLength /\ m \in Nat
    BY <1>4, <2>2
  <2>4. Len(t) \in (m + 1)..ProgramLength /\ m <= Len(t)
    <3>1. ProgramLength \in Nat
      BY SizesAssumption
    <3> QED BY <1>4, <1>6, <2>3, <3>1
  <2>5. \A i \in 1..m : t[i] = s[i]
    <3>1. \A i \in 1..m : i \in OpId
      BY <2>2 DEF OpId
    <3>2. \A i \in OpId : Program[i] = [dest |-> Dest(i), srcs |-> Srcs(i)]
      BY DEF View
    <3>3. \A i \in OpId' : Program'[i] = [dest |-> Dest(i)', srcs |-> Srcs(i)']
      BY DEF View
    <3> QED BY <1>1, <2>1, <3>1, <3>2, <3>3
  <2>6. SubSeq(t, 1, m) = s
    BY <2>2, <2>4, <2>5, PrefixAgrees
  <2>7. Abstract!Extend
    BY <1>1, <1>2, <2>1, <2>4, <2>6 DEF Abstract!Extend, Started
  <2> QED BY <2>7 DEF Abstract!Next
<1> QED BY <1>5, <1>6

LEMMA AbstractDecode ==
    ASSUME FlowInv, View, View', NEW lane \in Lanes, Decode(lane)
    PROVE  Abstract!Next \/ UNCHANGED Seen
<1>0. StageInv /\ PlacesInv /\ CoverInv /\ ScoreInv
  BY DEF FlowInv
<1>1. PICK b, c : b = Base /\ c = Base'
  OBVIOUS
<1>2. /\ b \in Nat /\ c \in Nat /\ c <= Len(stream) /\ Started = b /\ Started' = c
      /\ retired' = retired /\ stream' = stream
  <2>1. retired' = retired /\ stream' = stream
    BY <1>0, FlowDecode
  <2>2. c <= Len(stream')
    BY <1>1 DEF View
  <2>3. b \in Nat /\ c \in Nat /\ Started = b /\ Started' = c
    BY <1>1 DEF View
  <2> QED BY <2>1, <2>2, <2>3
<1>3. c = b + Len(lane) /\ Len(lane) \in Nat
  BY <1>0, <1>1, FlowDecode
<1>4. CASE Len(lane) = 0
  <2>1. c = b
    BY <1>2, <1>3, <1>4
  <2> QED BY <1>2, <2>1, SeenSame
<1>5. CASE Len(lane) # 0
  <2>1. c \in (b + 1)..Len(Program)
    <3>1. Len(Program) = Len(stream) /\ Len(stream) \in Nat
      BY DEF View
    <3> QED BY <1>2, <1>3, <1>5, <3>1
  <2>2. (1..b) \ retired = InFlight
    BY <1>0, <1>1, FlyingBound DEF CoverInv
  <2>3. ASSUME NEW i \in (b + 1)..c, NEW j \in InFlight \cup ((b + 1)..(i - 1))
        PROVE  Program[j].dest \cap (Program[i].srcs \cup Program[i].dest) = {}
    <3>1. i \in OpId /\ j \in OpId /\ Dest(j) \cap (Srcs(i) \cup Dest(i)) = {}
      BY <1>0, <1>1, IssueClear
    <3>2. Program[i] = [dest |-> Dest(i), srcs |-> Srcs(i)]
          /\ Program[j] = [dest |-> Dest(j), srcs |-> Srcs(j)]
      BY <3>1 DEF View
    <3> QED BY <3>1, <3>2
  <2>4. \A i \in (b + 1)..c : Abstract!Independent(i, Abstract!UnderWay \cup ((b + 1)..(i - 1)))
    <3>1. Abstract!UnderWay = InFlight
      BY <1>2, <2>2 DEF Abstract!UnderWay, Started
    <3> QED BY <2>3, <3>1 DEF Abstract!Independent
  <2>5. Program' = Program
    BY <1>2, StreamSame DEF Program
  <2>6. Abstract!Start
    BY <1>2, <2>1, <2>4, <2>5 DEF Abstract!Start, Started
  <2> QED BY <2>6 DEF Abstract!Next
<1> QED BY <1>4, <1>5

\* WRITEBACK and EX retire operations that are under way.
LEMMA AbstractRetires ==
    ASSUME FlowInv, View, View', Base' = Base, stream' = stream, NEW done,
           done \subseteq InFlight, retired' = retired \cup done
    PROVE  Abstract!Next \/ UNCHANGED Seen
<1>1. Started' = Started /\ Started = Base
  BY DEF View
<1>2. Program' = Program
  BY StreamSame DEF Program
<1>3. (1..Base) \ retired = InFlight
  BY FlyingBound DEF FlowInv, CoverInv
<1>4. CASE retired' = retired
  BY <1>1, <1>4, SeenSame
<1>5. CASE retired' # retired
  <2>1. retired \subseteq retired' /\ retired' \ retired \subseteq InFlight
    OBVIOUS
  <2>2. Abstract!UnderWay = InFlight
    BY <1>1, <1>3 DEF Abstract!UnderWay, Started
  <2>3. Abstract!Finish
    BY <1>1, <1>2, <1>5, <2>1, <2>2 DEF Abstract!Finish, Started
  <2> QED BY <2>3 DEF Abstract!Next
<1> QED BY <1>4, <1>5

LEMMA AbstractStep ==
    FlowInv /\ View /\ View' /\ [Next]_vars => [Abstract!Next]_Seen
<1> SUFFICES ASSUME FlowInv, View, View', [Next]_vars
             PROVE  Abstract!Next \/ UNCHANGED Seen
  OBVIOUS
<1>0. StageInv /\ PlacesInv /\ CoverInv
  BY DEF FlowInv
<1>1. CASE \/ Preprocess \/ DecodeStalled \/ FetchStalled \/ EndOfSimulation \/ UNCHANGED vars
           \/ OpRead \/ Update
  <2>1. Base' = Base /\ retired' = retired /\ stream' = stream
    BY <1>0, <1>1, FlowQuiet, FlowOpRead, FlowUpdate
  <2>2. Started' = Started
    BY <2>1 DEF View
  <2> QED BY <2>1, <2>2, SeenSame
<1>2. CASE WriteBack
  <2>1. stream' = stream
    BY <1>2 DEF WriteBack
  <2> QED BY <1>0, <1>2, <2>1, FlowWriteBack, AbstractRetires
<1>3. ASSUME NEW keep \in Keeps, Execute(keep)
      PROVE  Abstract!Next \/ UNCHANGED Seen
  <2>1. stream' = stream
    BY <1>3 DEF Execute
  <2> QED BY <1>0, <1>3, <2>1, FlowExecute, AbstractRetires
<1>4. CASE \E lane \in Lanes : Decode(lane)
  BY <1>4, AbstractDecode
<1>5. CASE \E group \in Groups : Fetch(group)
  BY <1>5, AbstractFetch
<1>6. CASE Recover
  BY <1>0, <1>6 DEF Recover, CoverInv
<1> QED BY <1>1, <1>2, <1>3, <1>4, <1>5, <1>6 DEF Next

\* When every branch goes the way FETCH took, the pipeline implements in-order
\* issue with out-of-order completion.
THEOREM PipelineIssuesInOrder == ASSUME Predicted PROVE Spec => ImplementsInOrderIssue
<1>1. FlowInv => View
  BY ViewHolds
<1>2. FlowInv /\ View /\ View' /\ [Next]_vars => [Abstract!Next]_(Abstract!vars)
  BY AbstractStep DEF Seen, Started, Abstract!vars
<1>3. Init /\ FlowInv => Abstract!Init
  <2> SUFFICES ASSUME Init, FlowInv PROVE Abstract!Init
    OBVIOUS
  <2>1. Program = <<>>
    BY DEF Init, Program, OpId
  <2>2. Started = 0
    BY ViewHolds, FrontInit DEF View
  <2> QED BY <2>1, <2>2 DEF Abstract!Init, Started, Init
<1> QED BY <1>1, <1>2, <1>3, FlowInvariant, PTL DEF Spec, ImplementsInOrderIssue, Abstract!Spec
=============================================================================
