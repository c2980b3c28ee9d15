-------------------------- MODULE SequentialMemory --------------------------
(***************************************************************************)
(* What the LDST lane promises the rest of the machine: the accesses that  *)
(* enter it are performed one at a time, in the order they came in, and a  *)
(* load observes the last store to its address.  A store stands for the    *)
(* value it writes, 0 for the value memory starts with.                    *)
(***************************************************************************)
EXTENDS Naturals, Sequences

CONSTANTS Addresses, NumAccesses

VARIABLES
    program,   \* the accesses that entered, in order
    observed   \* per access performed, the value it saw, or wrote

LastStore(i) ==
    LET older == {j \in 1..(i - 1) : /\ program[j].kind = "store"
                                     /\ program[j].addr = program[i].addr}
    IN IF older = {} THEN 0 ELSE CHOOSE j \in older : \A k \in older : k <= j

Init == program = <<>> /\ observed = <<>>

Enter(kind, addr) ==
    /\ Len(program) < NumAccesses
    /\ program' = Append(program, [kind |-> kind, addr |-> addr])
    /\ UNCHANGED observed

Perform ==
    LET i == Len(observed) + 1 IN
    /\ i <= Len(program)
    /\ observed' = Append(observed, IF program[i].kind = "store" THEN i
                                    ELSE LastStore(i))
    /\ UNCHANGED program

Next ==
    \/ \E kind \in {"load", "store"}, addr \in Addresses : Enter(kind, addr)
    \/ Perform

Safety == Init /\ [][Next]_<<program, observed>>

Spec == Safety /\ WF_observed(Perform)
=============================================================================
