------------------------------ MODULE CacheMC ------------------------------
(***************************************************************************)
(* Memory is empty at first and MaxWrites words of it are written: enough  *)
(* for two lines of two words in two ways to be filled, replaced, written  *)
(* back and read again.                                                    *)
(***************************************************************************)
EXTENDS AssociativeCache

CONSTANT MaxWrites

VARIABLE writes

BoundedInit == Init /\ writes = 0 /\ \A a \in Address : below[a] = value

BoundedNext == \E a \in Address :
    \/ (ReadHit(a) \/ ReadMiss(a)) /\ UNCHANGED writes
    \/ /\ writes < MaxWrites /\ writes' = writes + 1
       /\ \E v \in Value : WriteHit(a, v) \/ WriteMiss(a, v)

BoundedSpec == BoundedInit /\ [][BoundedNext]_<<vars, writes>>
=============================================================================
