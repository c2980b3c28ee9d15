---------------------------- MODULE InOrderIssue ----------------------------
(***************************************************************************)
(* What the simulated machine promises a program that is predicted right:  *)
(* operations start in program order, an operation starts only when no     *)
(* operation still under way writes a register it reads or writes, they    *)
(* finish in any order, and each of them finishes once.                    *)
(***************************************************************************)
EXTENDS Naturals, Sequences

CONSTANTS Regs, ProgramLength

VARIABLES
    program,   \* the operations known so far, by destinations and sources
    started,   \* how many of them have started
    finished   \* the set of those that have finished

vars == <<program, started, finished>>

Operation == [dest : SUBSET Regs, srcs : SUBSET Regs]

UnderWay == (1..started) \ finished

Independent(i, S) ==
    \A j \in S : program[j].dest \cap (program[i].srcs \cup program[i].dest) = {}

Init == program = <<>> /\ started = 0 /\ finished = {}

\* The program becomes known a few operations at a time.
Extend ==
    /\ Len(program') \in (Len(program) + 1)..ProgramLength
    /\ SubSeq(program', 1, Len(program)) = program
    /\ UNCHANGED <<started, finished>>

\* The next operations start together, each independent of all that is under
\* way and of those that start before it.
Start ==
    /\ started' \in (started + 1)..Len(program)
    /\ \A i \in (started + 1)..started' :
         Independent(i, UnderWay \cup ((started + 1)..(i - 1)))
    /\ UNCHANGED <<program, finished>>

Finish ==
    /\ finished \subseteq finished' /\ finished # finished'
    /\ finished' \ finished \subseteq UnderWay
    /\ UNCHANGED <<program, started>>

Next == Extend \/ Start \/ Finish

Spec == Init /\ [][Next]_vars
=============================================================================
