---------------------------- MODULE RegAllocMC ----------------------------
(***************************************************************************)
(* A diamond and a loop: 1 branches to 2 and 3, which join in 4; 4 repeats *)
(* or goes on to 5.  Registers are 0 and 1, names a, b, c and d.           *)
(***************************************************************************)
EXTENDS RegAlloc

a == 10
b0 == 11
c == 12
d == 13

MCBlock == 1..5
MCSucc  == <<{2, 3}, {4}, {4}, {4, 5}, {}>>
MCDepth == <<0, 0, 0, 1, 0>>
MCWays  == {<<1, 2, 4, 5>>, <<1, 3, 4, 5>>, <<1, 2, 4, 4, 5>>, <<1, 3, 4, 4, 4, 5>>}
MCClasses == (a :> {0, 1}) @@ (b0 :> {0, 1}) @@ (c :> {0, 1}) @@ (d :> {0})

O(dest, srcs) == [kind |-> "op", dest |-> dest, srcs |-> srcs]
M(dest, src)  == [kind |-> "move", dest |-> dest, srcs |-> <<src>>]

\* What block 1 ends with and blocks 2 and 3 do.
Starts == {<<<<O(b0, <<a>>)>>, <<M(c, a)>>, <<O(c, <<a, b0>>)>>>>,
           <<<<M(c, a)>>, <<M(a, b0)>>, <<O(b0, <<b0>>)>>>>,
           <<<<O(b0, <<a>>)>>, <<M(c, a)>>, <<M(c, a)>>>>,
           <<<<M(c, a)>>, <<O(c, <<a, b0>>)>>, <<M(a, b0)>>>>}
\* What block 4 does and block 5 reads.
Middle == {<<O(a, <<a, b0>>)>>, <<M(c, b0)>>, <<M(c, a), O(d, <<b0>>)>>,
           <<O(c, <<>>), O(b0, <<a>>)>>}
Reads  == {<<O(None, <<a, c>>)>>, <<O(None, <<b0, c>>)>>}

\* A program of instructions without ids; they are numbered in order.
Numbered(p) ==
    LET before(bl) == FoldLeft(LAMBDA s, k : s + Len(p[k]), 0, [k \in 1..(bl - 1) |-> k])
    IN [bl \in MCBlock |-> [k \in DOMAIN p[bl] |->
         [id |-> 10 * (before(bl) + k),
          ops |-> [j \in DOMAIN p[bl][k] |->
             [id |-> 10 * (before(bl) + k) + j, kind |-> p[bl][k][j].kind,
              dest |-> p[bl][k][j].dest, srcs |-> p[bl][k][j].srcs, slot |-> 0]]]]]

Body(start, m, n, u) ==
    <<<<<<O(a, <<>>)>>, <<O(b0, <<>>)>>, start[1]>>, <<start[2]>>, <<start[3]>>,
      <<m, n, <<O(None, <<b0>>)>>>>, <<u, <<O(None, <<>>)>>>>>>

\* The names read before they are written along a way.
Unwritten(p, way) ==
    LET all == FoldLeft(LAMBDA l, bl : l \o p[bl], <<>>, way) IN
    UNION {Uses([ops |-> all[k]]) \ UNION {Defs([ops |-> all[j]]) : j \in 1..(k - 1)} :
             k \in DOMAIN all}

MCPrograms ==
    {Numbered(p) :
       p \in {q \in {Body(start, mn[1], mn[2], u) : start \in Starts, u \in Reads,
                       mn \in {two \in Middle \X Middle : two[1] # two[2]}} :
                \A way \in MCWays : Unwritten(q, way) = {}}}

\* The same move on both sides, on one beside another reader of its source.
SharedPrograms ==
    {Numbered(Body(<<<<O(d, <<>>)>>, <<M(c, a)>>, <<M(c, a), O(d, <<a>>)>>>>,
                   <<O(c, <<d, c>>)>>, <<O(d, <<c>>)>>, <<O(None, <<c, d>>)>>))}
=============================================================================
