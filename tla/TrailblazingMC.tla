--------------------------- MODULE TrailblazingMC ---------------------------
(***************************************************************************)
(* A routine with an if and a loop at the outer level, b the branches:     *)
(*    1 2 3b | if: 4 5 / 6 | 7 8 | loop: 9 10 11b | 12                     *)
(***************************************************************************)
EXTENDS Trailblazing

CONSTANTS rx, ry, rc

MCUp   == <<13, 13, 13, 15, 15, 16, 17, 17, 19, 19, 19, 20,
            0, 0, 14, 14, 0, 0, 18, 0>>
MCPrev == <<0, 1, 2, 0, 4, 0, 0, 7, 0, 9, 10, 0, 0, 13, 0, 0, 14, 17, 0, 18>>
MCWays == {<<1, 2, 3, 4, 5, 7, 8, 9, 10, 11, 12>>,
           <<1, 2, 3, 6, 7, 8, 9, 10, 11, 9, 10, 11, 12>>}
MCBranch == [i \in 1..12 |-> IF i \in {3, 11} THEN {rc} ELSE {}]
MCForm == {[dest |-> {rx}, srcs |-> {}, memory |-> "none", slots |-> <<1>>],
           [dest |-> {ry}, srcs |-> {rx}, memory |-> "none", slots |-> <<1, 2>>],
           [dest |-> {rc}, srcs |-> {rx}, memory |-> "none", slots |-> <<1>>],
           [dest |-> {}, srcs |-> {ry}, memory |-> "store", slots |-> <<2>>]}
=============================================================================
