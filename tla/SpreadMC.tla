------------------------------ MODULE SpreadMC ------------------------------
(***************************************************************************)
(* Two blocks in two loops.  Loads and stores hold the memory unit for two *)
(* cycles and a load writes its register a cycle later than an "alu" does. *)
(***************************************************************************)
EXTENDS Spread

Stages(seq) == [j \in Stage |-> IF j < Len(seq) THEN seq[j + 1] ELSE {}]
MCTable ==
    [alu   |-> Stages(<<{"FETCH"}, {"DECODE"}, {"READ_OP"}, {"ALU"}, {"WRITE_OP"}>>),
     load  |-> Stages(<<{"FETCH"}, {"DECODE"}, {"READ_OP"}, {"MEM"}, {"MEM"}, {"WRITE_OP"}>>),
     store |-> Stages(<<{"FETCH"}, {"DECODE"}, {"READ_OP"}, {"MEM"}, {"MEM"}>>)]
MCUnit == {"FETCH", "DECODE", "READ_OP", "ALU", "MEM", "WRITE_OP"}
MCCapacity == [u \in MCUnit |-> IF u = "MEM" THEN 1 ELSE 2]
MCWriteTime == [alu |-> 4, load |-> 5, store |-> 5]
MCReadTime == [alu |-> 2, load |-> 2, store |-> 2]
MCAccess == [alu |-> "none", load |-> "load", store |-> "store"]
MCMemoryTime == [alu |-> 0, load |-> 3, store |-> 4]
MCNone == [c \in {"alu", "load", "store"} |-> -1]
MCDeq == [alu |-> 2, load |-> 2, store |-> 2]
MCEnq == [alu |-> 3, load |-> -1, store |-> -1]
MCSuccessors == <<{1, 2}, {1}>>
MCLayout == <<<<{1, 2}, {3}>>, <<{4}>>>>
=============================================================================
