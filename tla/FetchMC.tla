------------------------------- MODULE FetchMC -------------------------------
(* Programs for TLC: nested loops with a forward branch, a goto and a jr.   *)
EXTENDS Fetch

Op(kind, target) == [kind |-> kind, target |-> target]

MCProgram == <<Op("other", 0), Op("branch", 5), Op("branch", 1), Op("goto", 2),
               Op("branch", 2), Op("other", 0), Op("ret", 0)>>
=============================================================================
