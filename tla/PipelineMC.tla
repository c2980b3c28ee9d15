---------------------------- MODULE PipelineMC ----------------------------
(* Small machines for TLC: an ALU lane, the LDST lane and the BR lane.     *)
EXTENDS PipelineRefinement

Form(class, pipes, dest, srcs, timing) ==
    [class |-> class, pipes |-> pipes, dest |-> dest, srcs |-> srcs,
     timing |-> timing]

\* WRITEBACK's input latches: the ALUs, BR, LDST.
MCWBOrder == <<1, 3, 2>>

\* r1 := f(r1) in one and in three cycles.
AluR1  == Form("alu", {1}, {"r1"}, {"r1"}, 1)
SlowR1 == Form("alu", {1}, {"r1"}, {}, 3)
AluR2  == Form("alu", {1}, {"r2"}, {"r1"}, 1)
Nop    == Form("nop", {1}, {}, {}, 1)
Load   == Form("load", {2}, {"r1"}, {"r2"}, 1)
Store  == Form("store", {2}, {}, {"r1"}, 1)
Branch == Form("branch", {3}, {}, {"r1"}, 1)
Missed == Form("missed", {3}, {}, {}, 1)
Jr     == Form("jr", {3}, {}, {}, 1)

DataflowOpcodes  == {AluR2, SlowR1, Load, Store}
LostOpcodes      == {Store, Missed}

\* Programs of slow operations and loads, of slow operations and stores, and of
\* branches, in one run.
Kinds == {{SlowR1, Nop, Load}, {SlowR1, Nop, Store}, {AluR1, Missed, Branch, Jr}}
FlowOpcodes == UNION Kinds
OfOneKind == \E kind \in Kinds : \A k \in DOMAIN stream : stream[k].code \in kind
FlowNext ==
    \/ \E group \in Groups : Fetch(group) /\ OfOneKind'
    \/ Preprocess
    \/ WriteBack
    \/ \E keep \in Keeps : Execute(keep)
    \/ OpRead
    \/ \E lane \in Lanes : Decode(lane)
    \/ DecodeStalled
    \/ FetchStalled
    \/ Recover
    \/ Update
    \/ EndOfSimulation
FlowSpec == Init /\ [][FlowNext]_vars
=============================================================================
