----------------------------- MODULE FlatMemory -----------------------------
(***************************************************************************)
(* What a memory module promises whoever reads and writes it: one value    *)
(* per address, and a read sees the last one written.                      *)
(***************************************************************************)
CONSTANTS Address, Value

VARIABLES
    contents,
    value      \* what the last read returned

Read(a) == value' = contents[a] /\ UNCHANGED contents

Write(a, v) == contents' = [contents EXCEPT ![a] = v] /\ UNCHANGED value

Init == contents \in [Address -> Value] /\ value \in Value

Next == \E a \in Address : Read(a) \/ \E v \in Value : Write(a, v)

Spec == Init /\ [][Next]_<<contents, value>>
=============================================================================
