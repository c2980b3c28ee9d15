------------------------------- MODULE Filter -------------------------------
(***************************************************************************)
(* What the passes of EXPRESS that walk lists have in common.              *)
(***************************************************************************)
EXTENDS Integers, Sequences

\* The members of s that are in S, in order.
Kept(s, S) ==
    LET upTo[k \in 0..Len(s)] ==
          IF k = 0 THEN <<>>
          ELSE IF s[k] \in S THEN Append(upTo[k - 1], s[k]) ELSE upTo[k - 1]
    IN upTo[Len(s)]
=============================================================================
