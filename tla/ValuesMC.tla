------------------------------ MODULE ValuesMC ------------------------------
(***************************************************************************)
(* Programs that compute with HI and LO; one that moves values of every    *)
(* width between the registers and memory; and one that compares, shifts   *)
(* and combines the bits of values of every type.                          *)
(***************************************************************************)
EXTENDS Values

MCPrograms == {
    {"li", "move", "mult", "div", "mflo"},
    {"subu", "move", "lbu", "mult", "mfhi"},
    {"addu", "subu", "sw", "sh", "sb", "lw", "lh", "lhu", "lb", "lbu"},
    {"li", "lh", "sb", "lbu", "subu", "slt", "sgt", "seq", "sne", "sge", "sle",
     "and", "or", "xor", "sll", "sra"}}
=============================================================================
