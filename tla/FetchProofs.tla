---------------------------- MODULE FetchProofs ----------------------------
(***************************************************************************)
(* The front end, for every program, group size, latency and predictor     *)
(* history: FETCH brings in the program, and no prediction changes its     *)
(* mind before the branch it was made for has executed.                    *)
(***************************************************************************)
EXTENDS Fetch, SequenceLemmas, TLAPS

-----------------------------------------------------------------------------
LEMMA ProgramFacts ==
    /\ Len(Program) \in Nat /\ Len(Program) > 0 /\ Addr = 1..Len(Program)
    /\ \A a \in Addr : /\ KindOf(a) \in Kind
                       /\ KindOf(a) \in {"branch", "goto"} => Program[a].target \in Addr
                       /\ KindOf(a) \in {"other", "branch"} => a + 1 \in Addr
<1> DEFINE n == Len(Program)
           R == [kind : Kind, target : Nat]
<1>1. Program \in Seq(R)  BY ProgramAssumption
<1>2. n \in Nat /\ DOMAIN Program = 1..n /\ \A a \in 1..n : Program[a] \in R
  BY <1>1, LenProperties, ElementOfSeq
<1>3. n > 0  BY <1>1, ProgramAssumption, EmptySeq
<1>4. Program[n].kind \in {"goto", "ret"}  BY ProgramAssumption
<1>5. \A a \in Addr : Program[a].kind \in {"branch", "goto"} => Program[a].target \in Addr
  BY ProgramAssumption DEF Addr
<1> HIDE DEF n
<1>6. Addr = 1..n  BY <1>2 DEF Addr
<1>7. \A a \in Addr : KindOf(a) \in Kind  BY <1>2, <1>6 DEF KindOf
<1>8. \A a \in Addr : KindOf(a) \in {"other", "branch"} => a + 1 \in Addr
  <2> SUFFICES ASSUME NEW a \in Addr, KindOf(a) \in {"other", "branch"}
               PROVE  a + 1 \in Addr
    OBVIOUS
  <2>1. a # n  BY <1>4 DEF KindOf
  <2> QED BY <1>2, <1>6, <2>1
<1> QED BY <1>2, <1>3, <1>5, <1>6, <1>7, <1>8 DEF n, KindOf

LEMMA PassedGroup ==
    ASSUME NEW a \in Nat, NEW size \in Nat, size > 0
    PROVE  /\ Passed(a, size) \in 1..size
           /\ \A k \in 0..(Passed(a, size) - 2) : ~Follows(a + k)
           /\ Passed(a, size) = size \/ Follows(a + Passed(a, size) - 1)
<1> DEFINE S == {m \in 1..size : m = size \/ Follows(a + m - 1)}
<1>1. S \subseteq Nat /\ S # {}
  <2>1. size \in S  OBVIOUS
  <2>2. 1..size \subseteq Nat  OBVIOUS
  <2>3. S \subseteq 1..size  OBVIOUS
  <2> QED BY <2>1, <2>2, <2>3
<1>2. PICK m \in S : \A k \in S : m <= k  BY <1>1, Smallest
<1>3. \A k \in 0..(m - 2) : ~Follows(a + k)
  <2> TAKE k \in 0..(m - 2)
  <2>1. k + 1 \in 1..size /\ ~(m <= k + 1) /\ a + (k + 1) - 1 = a + k  OBVIOUS
  <2>2. k + 1 \notin S  BY <1>2, <2>1
  <2> QED BY <2>1, <2>2
<1>4. m \in 1..size /\ (m = size \/ Follows(a + m - 1))  OBVIOUS
<1> QED BY <1>3, <1>4 DEF Passed

-----------------------------------------------------------------------------
(* The invariant.  What is in flight was fetched the way FETCH would fetch it *)
(* now; an access under way is for the address it was started for; and after a*)
(* wrong prediction the program is where Recover will redirect FETCH to.      *)

PortKept ==
    busy # 0 => /\ group.addr = prevAddr /\ group.size > 0
                /\ group.addr \in Addr /\ group.addr + group.size - 1 \in Addr

FollowsAsTold ==
    missed = 0 =>
      \A k \in 1..Len(inFlight) : inFlight[k].taken <=> Follows(inFlight[k].addr)

Chained ==
    \A k \in 1..(Len(inFlight) - 1) : inFlight[k + 1].addr = Then(inFlight[k])

GoesOnWith ==
    IF Len(inFlight) = 0 THEN position ELSE Then(inFlight[Len(inFlight)])

MissedOne ==
    missed # 0 => /\ phase \in {"fetch", "update"}
                  /\ KindOf(missed) \in {"branch", "goto"}
                  /\ predictor[missed] # "none"
                  /\ position = Redirect(missed)

Inv ==
    /\ TypeOK
    /\ PortKept
    /\ FollowsAsTold
    /\ MissedOne
    /\ missed = 0 /\ ~ended =>
         /\ Len(inFlight) > 0 => inFlight[1].addr = position
         /\ Chained
         /\ pc = GoesOnWith \/ (pc = 0 /\ GoesOnWith \notin Addr)

FollowsBy(p, a) ==
    \/ KindOf(a) = "goto"
    \/ KindOf(a) = "branch" /\ Known(p[a]) \in {"TAKEN1", "TAKEN2"}

LEMMA ToldPrimed ==
    FollowsAsTold' <=>
      (missed' = 0 =>
         \A k \in 1..Len(inFlight') :
           inFlight'[k].taken <=> FollowsBy(predictor', inFlight'[k].addr))
BY DEF FollowsAsTold, Follows, PredictsTaken, FollowsBy

LEMMA FlightFacts ==
    ASSUME TypeOK
    PROVE  /\ Len(inFlight) \in Nat /\ DOMAIN inFlight = 1..Len(inFlight)
           /\ \A k \in 1..Len(inFlight) :
                /\ inFlight[k] \in Flight /\ inFlight[k].addr \in Addr
                /\ inFlight[k].taken \in BOOLEAN
           /\ inFlight # <<>> <=> Len(inFlight) > 0
           /\ inFlight # <<>> => Head(inFlight) = inFlight[1]
<1>1. inFlight \in Seq(Flight)  BY DEF TypeOK
<1>2. Len(inFlight) \in Nat /\ DOMAIN inFlight = 1..Len(inFlight)
  BY <1>1, LenProperties
<1>3. \A k \in 1..Len(inFlight) : inFlight[k] \in Flight  BY <1>1, ElementOfSeq
<1>4. \A f \in Flight : f.addr \in Addr /\ f.taken \in BOOLEAN  BY DEF Flight
<1>5. inFlight # <<>> <=> Len(inFlight) > 0  BY <1>1, EmptySeq
<1>6. inFlight # <<>> => Head(inFlight) = inFlight[1]  BY <1>1
<1> QED BY <1>2, <1>3, <1>4, <1>5, <1>6

LEMMA InvMeans == Inv => PathKept /\ PredictionStands /\ PortHolds
<1> SUFFICES ASSUME Inv PROVE PathKept /\ PredictionStands /\ PortHolds
  OBVIOUS
<1>1. TypeOK  BY DEF Inv
<1>2. PathKept
  BY <1>1, FlightFacts DEF Inv, Chained, GoesOnWith, PathKept
<1>3. PredictionStands
  <2> SUFFICES ASSUME missed = 0, NEW k \in DOMAIN inFlight,
                      KindOf(inFlight[k].addr) = "branch"
               PROVE  inFlight[k].taken = PredictsTaken(inFlight[k].addr)
    BY DEF PredictionStands
  <2>1. inFlight[k].taken <=> Follows(inFlight[k].addr)
    BY <1>1, FlightFacts DEF Inv, FollowsAsTold
  <2>2. Follows(inFlight[k].addr) <=> PredictsTaken(inFlight[k].addr)
    BY DEF Follows
  <2>3. inFlight[k].taken \in BOOLEAN  BY <1>1, FlightFacts
  <2>4. PredictsTaken(inFlight[k].addr) \in BOOLEAN  BY DEF PredictsTaken
  <2> QED BY <2>1, <2>2, <2>3, <2>4
<1>4. PortHolds  BY DEF Inv, PortKept, PortHolds
<1> QED BY <1>2, <1>3, <1>4

LEMMA InitInv == Init => Inv
<1> SUFFICES ASSUME Init PROVE Inv
  OBVIOUS
<1>1. 1 \in Addr  BY ProgramFacts
<1>2. inFlight \in Seq(Flight) /\ Len(inFlight) = 0
  <2>1. inFlight = <<>>  BY DEF Init
  <2>2. <<>> \in Seq(Flight) /\ Len(<<>>) = 0  BY EmptySeq
  <2> QED BY <2>1, <2>2
<1>3. predictor \in [Addr -> State \cup {"none"}]  BY DEF Init
<1>4. group \in [addr : Nat, size : 0..NumInstFetch]  BY FetchAssumption DEF Init
<1>5. TypeOK
  <2>1. pc \in 0..(Len(Program) + 1) /\ position \in Addr
    BY <1>1, ProgramFacts DEF Init
  <2> QED BY <1>2, <1>3, <1>4, <2>1 DEF Init, TypeOK
<1>6. PortKept /\ FollowsAsTold /\ MissedOne
  BY <1>2 DEF Init, PortKept, FollowsAsTold, MissedOne
<1>7. Chained /\ GoesOnWith = position  BY <1>2 DEF Chained, GoesOnWith
<1> QED BY <1>2, <1>5, <1>6, <1>7 DEF Init, Inv

-----------------------------------------------------------------------------
(* The execute phase takes instructions off the front. *)

LEMMA IdleInv == Inv /\ Idle => Inv'
<1> SUFFICES ASSUME Inv, Idle PROVE Inv'
  OBVIOUS
<1>1. UNCHANGED <<pc, busy, prevAddr, group, predictor, inFlight, missed, stall, ended, position>>
      /\ phase' = "fetch"
  BY DEF Idle, port
<1> QED BY <1>1 DEF Inv, TypeOK, PortKept, FollowsAsTold, MissedOne, Chained, GoesOnWith,
              Follows, PredictsTaken, Redirect

LEMMA AdvanceInv ==
    ASSUME Inv, NEW n \in 1..Depth, Advance(n)
    PROVE  Inv'
<1> DEFINE m == Len(inFlight)
           rest == SubSeq(inFlight, n + 1, m)
<1>1. TypeOK /\ missed = 0 /\ ~ended
  BY DEF Inv, Advance, MissedOne
<1>2. /\ m \in Nat /\ n \in Nat /\ n > 0 /\ n <= m
      /\ \A k \in 1..m : inFlight[k] \in Flight /\ inFlight[k].addr \in Addr
  BY <1>1, FlightFacts, FetchAssumption DEF Advance
<1>3. /\ inFlight' = rest /\ phase' = "fetch" /\ position' = inFlight[n].addr + 1
      /\ UNCHANGED <<pc, busy, prevAddr, group, predictor, missed, stall, ended>>
  BY DEF Advance, port
<1>4. KindOf(inFlight[n].addr) = "other"
  <2>1. \A k \in 1..n : KindOf(inFlight[k].addr) = "other"  BY DEF Advance
  <2> QED BY <1>2, <2>1
<1> HIDE DEF m
<1>5. /\ rest \in Seq(Flight) /\ Len(rest) = m - n
      /\ \A k \in 1..(m - n) : rest[k] = inFlight[n + k]
  <2>1. n + 1 \in Int /\ m \in Int /\ \A k \in (n + 1)..m : inFlight[k] \in Flight
    BY <1>2
  <2>2. /\ rest \in Seq(Flight)
        /\ Len(rest) = IF n + 1 <= m THEN m - (n + 1) + 1 ELSE 0
        /\ \A k \in 1..(m - (n + 1) + 1) : rest[k] = inFlight[n + 1 + k - 1]
    BY <2>1, SubSeqProperties
  <2> HIDE DEF rest
  <2>3. m - (n + 1) + 1 = m - n /\ (~(n + 1 <= m) => m - n = 0)  BY <1>2
  <2>4. \A k \in 1..(m - n) : n + 1 + k - 1 = n + k  BY <1>2
  <2> QED BY <2>2, <2>3, <2>4
<1> HIDE DEF rest
<1>6. position' = Then(inFlight[n]) /\ position' \in Addr
  <2>1. ~inFlight[n].taken
    <3>1. ~Follows(inFlight[n].addr)  BY <1>4 DEF Follows
    <3>2. inFlight[n].taken <=> Follows(inFlight[n].addr)
      BY <1>1, <1>2 DEF Inv, FollowsAsTold, m
    <3> QED BY <3>1, <3>2
  <2>2. Then(inFlight[n]) = inFlight[n].addr + 1  BY <2>1 DEF Then, Successor
  <2>3. inFlight[n].addr + 1 \in Addr  BY <1>2, <1>4, ProgramFacts
  <2> QED BY <1>3, <2>2, <2>3
<1>7. Len(inFlight') = m - n /\ \A k \in 1..(m - n) : inFlight'[k] = inFlight[n + k]
  BY <1>3, <1>5
<1>8. TypeOK'
  <2>1. inFlight' \in Seq(Flight)  BY <1>3, <1>5
  <2> QED BY <1>1, <1>3, <1>6, <2>1 DEF TypeOK
<1>9. PortKept'  BY <1>3 DEF Inv, PortKept
<1>10. FollowsAsTold'
  <2>1. \A k \in 1..(m - n) : inFlight[n + k].taken <=> Follows(inFlight[n + k].addr)
    <3> TAKE k \in 1..(m - n)
    <3>1. n + k \in 1..m  BY <1>2
    <3> QED BY <1>1, <3>1 DEF Inv, FollowsAsTold, m
  <2> QED BY <1>3, <1>7, <2>1 DEF FollowsAsTold, Follows, PredictsTaken
<1>11. MissedOne'  BY <1>1, <1>3 DEF MissedOne
<1>12. /\ Chained
       /\ pc = GoesOnWith \/ (pc = 0 /\ GoesOnWith \notin Addr)
  BY <1>1 DEF Inv
<1>13. \A k \in 1..(m - 1) : inFlight[k + 1].addr = Then(inFlight[k])
  BY <1>12 DEF Chained, m
<1>14. Chained'
  <2> SUFFICES ASSUME NEW k \in 1..(m - n - 1)
               PROVE  inFlight'[k + 1].addr = Then(inFlight'[k])
    BY <1>7 DEF Chained, Then, Successor
  <2>1. n + k \in 1..(m - 1) /\ n + (k + 1) = n + k + 1 /\ k \in 1..(m - n)
        /\ k + 1 \in 1..(m - n)
    BY <1>2
  <2> QED BY <1>7, <1>13, <2>1
<1>15. m - n > 0 => inFlight'[1].addr = position'
  <2> SUFFICES ASSUME m - n > 0 PROVE inFlight'[1].addr = position'
    OBVIOUS
  <2>1. 1 \in 1..(m - n) /\ n \in 1..(m - 1)  BY <1>2
  <2> QED BY <1>6, <1>7, <1>13, <2>1
<1>16. GoesOnWith' = GoesOnWith
  <2>1. GoesOnWith = Then(inFlight[m])  BY <1>2 DEF GoesOnWith, m
  <2>2. CASE m = n  BY <1>6, <1>7, <2>1, <2>2 DEF GoesOnWith
  <2>3. CASE m # n
    <3>1. m - n \in 1..(m - n) /\ n + (m - n) = m /\ m - n # 0  BY <1>2, <2>3
    <3> QED BY <1>7, <2>1, <3>1 DEF GoesOnWith, Then, Successor
  <2> QED BY <2>2, <2>3
<1> QED BY <1>3, <1>7, <1>8, <1>9, <1>10, <1>11, <1>12, <1>14, <1>15, <1>16 DEF Inv

LEMMA TailFacts ==
    ASSUME TypeOK, inFlight # <<>>
    PROVE  LET m == Len(inFlight) IN
           /\ Tail(inFlight) \in Seq(Flight) /\ Len(Tail(inFlight)) = m - 1
           /\ \A k \in 1..(m - 1) : Tail(inFlight)[k] = inFlight[k + 1]
<1>1. inFlight \in Seq(Flight)  BY DEF TypeOK
<1> QED BY <1>1, HeadTailProperties

LEMMA SamePredictions ==
    ASSUME TypeOK, NEW a \in Addr,
           predictor' = [predictor EXCEPT ![a] = AsPredicted(Known(@))]
           \/ predictor' = [predictor EXCEPT ![a] = Known(@)]
    PROVE  /\ predictor' \in [Addr -> State \cup {"none"}]
           /\ predictor'[a] # "none"
           /\ \A x \in Addr : PredictsTaken(x)' <=> PredictsTaken(x)
           /\ \A x \in Addr : Follows(x)' <=> Follows(x)
<1>1. predictor \in [Addr -> State \cup {"none"}]  BY DEF TypeOK
<1>2. \A s \in State \cup {"none"} : Known(s) \in State /\ AsPredicted(Known(s)) \in State
  BY DEF Known, AsPredicted, State
<1>3. \A s \in State \cup {"none"} :
        /\ Known(AsPredicted(Known(s))) \in {"TAKEN1", "TAKEN2"}
              <=> Known(s) \in {"TAKEN1", "TAKEN2"}
        /\ Known(Known(s)) \in {"TAKEN1", "TAKEN2"}
              <=> Known(s) \in {"TAKEN1", "TAKEN2"}
  BY DEF Known, AsPredicted, State
<1>4. /\ predictor' \in [Addr -> State \cup {"none"}] /\ predictor'[a] \in State
      /\ predictor'[a] = AsPredicted(Known(predictor[a])) \/ predictor'[a] = Known(predictor[a])
      /\ \A x \in Addr : x # a => predictor'[x] = predictor[x]
  <2>1. CASE predictor' = [predictor EXCEPT ![a] = AsPredicted(Known(@))]
    BY <1>1, <1>2, <2>1
  <2>2. CASE predictor' = [predictor EXCEPT ![a] = Known(@)]
    BY <1>1, <1>2, <2>2
  <2> QED BY <2>1, <2>2
<1>5. \A x \in Addr : PredictsTaken(x)' <=> PredictsTaken(x)
  BY <1>1, <1>3, <1>4 DEF PredictsTaken
<1>6. \A x \in Addr : Follows(x)' <=> Follows(x)  BY <1>5 DEF Follows
<1>7. predictor'[a] # "none"  BY <1>4 DEF State
<1> QED BY <1>4, <1>5, <1>6, <1>7

LEMMA BranchInv ==
    ASSUME Inv, NEW taken \in BOOLEAN, Branch(taken)
    PROVE  Inv'
<1> DEFINE m == Len(inFlight)
<1>1. TypeOK /\ missed = 0 /\ ~ended /\ inFlight # <<>>
  BY DEF Inv, Branch, MissedOne
<1>2. /\ m \in Nat /\ m > 0 /\ inFlight[1].addr \in Addr
      /\ Head(inFlight) = inFlight[1]
      /\ \A k \in 1..m : inFlight[k] \in Flight /\ inFlight[k].addr \in Addr
      /\ \A k \in 1..m : inFlight[k].taken \in BOOLEAN
  BY <1>1, FlightFacts
<1>a. PICK a \in Addr : a = inFlight[1].addr  BY <1>2
<1>3. /\ inFlight' = Tail(inFlight) /\ phase' = "fetch" /\ position' = Successor(a, taken)
      /\ KindOf(a) \in {"branch", "goto"} /\ (KindOf(a) = "goto" => taken)
      /\ UNCHANGED <<pc, busy, prevAddr, group, stall, ended>>
  BY <1>2, <1>a DEF Branch, port
<1>4. \/ /\ PredictsTaken(a) <=> taken
         /\ predictor' = [predictor EXCEPT ![a] = AsPredicted(Known(@))]
         /\ missed' = missed
      \/ /\ PredictsTaken(a) <=> ~taken
         /\ predictor' = [predictor EXCEPT ![a] = Known(@)]
         /\ missed' = a
  <2>1. PredictsTaken(a) \in BOOLEAN  BY DEF PredictsTaken
  <2>2. \/ /\ PredictsTaken(a) = taken
           /\ predictor' = [predictor EXCEPT ![a] = AsPredicted(Known(@))]
           /\ missed' = missed
        \/ /\ PredictsTaken(a) # taken
           /\ predictor' = [predictor EXCEPT ![a] = Known(@)]
           /\ missed' = a
    BY <1>2, <1>a DEF Branch
  <2> QED BY <2>1, <2>2
<1>5. /\ predictor' \in [Addr -> State \cup {"none"}] /\ predictor'[a] # "none"
      /\ \A x \in Addr : PredictsTaken(x)' <=> PredictsTaken(x)
      /\ \A x \in Addr : Follows(x)' <=> Follows(x)
  <2>1. \/ predictor' = [predictor EXCEPT ![a] = AsPredicted(Known(@))]
        \/ predictor' = [predictor EXCEPT ![a] = Known(@)]
    BY <1>4
  <2> QED BY <1>1, <1>2, <2>1, SamePredictions
<1>6. /\ inFlight' \in Seq(Flight) /\ Len(inFlight') = m - 1
      /\ \A k \in 1..(m - 1) : inFlight'[k] = inFlight[k + 1]
  BY <1>1, <1>3, TailFacts
<1>7. position' \in Addr
  BY <1>2, <1>3, ProgramFacts DEF Successor
<1>8. TypeOK'
  <2>1. missed' \in Addr \cup {0}  BY <1>1, <1>2, <1>4
  <2> QED BY <1>1, <1>3, <1>5, <1>6, <1>7, <2>1 DEF TypeOK
<1>9. PortKept'  BY <1>3 DEF Inv, PortKept
<1> HIDE DEF m
<1>10. CASE (PredictsTaken(a) <=> ~taken) /\ missed' = a
  <2>1. a # 0  BY <1>2, ProgramFacts
  <2>2. FollowsAsTold'  BY <1>10, <2>1 DEF FollowsAsTold
  <2>3. PredictsTaken(a)' <=> ~taken  BY <1>5, <1>10
  <2>4. position' = IF PredictsTaken(a)' THEN a + 1 ELSE Program[a].target
    BY <1>3, <2>3 DEF Successor
  <2>5. MissedOne'
    BY <1>3, <1>5, <1>10, <2>4 DEF MissedOne, Redirect, PredictsTaken
  <2> QED BY <1>8, <1>9, <1>10, <2>1, <2>2, <2>5 DEF Inv
<1>11. CASE (PredictsTaken(a) <=> taken) /\ missed' = missed
  <2>1. inFlight[1].taken <=> taken
    <3>1. inFlight[1].taken <=> Follows(a)
      BY <1>1, <1>2, <1>a DEF Inv, FollowsAsTold, m
    <3>2. Follows(a) <=> taken  BY <1>3, <1>11 DEF Follows
    <3> QED BY <3>1, <3>2
  <2>2. position' = Then(inFlight[1])
    BY <1>3, <1>a, <2>1 DEF Then, Successor
  <2>3. FollowsAsTold'
    <3> SUFFICES ASSUME NEW k \in 1..(m - 1)
                 PROVE  inFlight'[k].taken <=> FollowsBy(predictor', inFlight'[k].addr)
      BY <1>6, ToldPrimed
    <3>1. k + 1 \in 1..m  BY <1>2
    <3>2. inFlight[k + 1].taken <=> Follows(inFlight[k + 1].addr)
      BY <1>1, <3>1 DEF Inv, FollowsAsTold, m
    <3>3. \A x \in Addr : FollowsBy(predictor', x) <=> Follows(x)
      BY <1>5 DEF FollowsBy, Follows, PredictsTaken
    <3> QED BY <1>2, <1>6, <3>1, <3>2, <3>3
  <2>4. MissedOne'  BY <1>1, <1>11 DEF MissedOne
  <2>5. /\ Chained
        /\ pc = GoesOnWith \/ (pc = 0 /\ GoesOnWith \notin Addr)
    BY <1>1 DEF Inv
  <2>6. \A k \in 1..(m - 1) : inFlight[k + 1].addr = Then(inFlight[k])
    BY <2>5 DEF Chained, m
  <2>7. Chained'
    <3> SUFFICES ASSUME NEW k \in 1..(m - 1 - 1)
                 PROVE  inFlight'[k + 1].addr = Then(inFlight'[k])
      BY <1>6 DEF Chained, Then, Successor
    <3>1. k + 1 \in 1..(m - 1) /\ k \in 1..(m - 1)  BY <1>2
    <3> QED BY <1>6, <2>6, <3>1
  <2>8. m - 1 > 0 => inFlight'[1].addr = position'
    <3> SUFFICES ASSUME m - 1 > 0 PROVE inFlight'[1].addr = position'
      OBVIOUS
    <3>1. 1 \in 1..(m - 1)  BY <1>2
    <3> QED BY <1>6, <2>2, <2>6, <3>1
  <2>9. GoesOnWith' = GoesOnWith
    <3>1. GoesOnWith = Then(inFlight[m])  BY <1>2 DEF GoesOnWith, m
    <3>2. CASE m = 1  BY <1>6, <2>2, <3>1, <3>2 DEF GoesOnWith
    <3>3. CASE m # 1
      <4>1. m - 1 \in 1..(m - 1) /\ m - 1 + 1 = m /\ m - 1 # 0  BY <1>2, <3>3
      <4> QED BY <1>6, <3>1, <4>1 DEF GoesOnWith, Then, Successor
    <3> QED BY <3>2, <3>3
  <2> QED BY <1>3, <1>6, <1>8, <1>9, <2>3, <2>4, <2>5, <2>7, <2>8, <2>9 DEF Inv
<1> QED BY <1>4, <1>10, <1>11

LEMMA ReturnInv == Inv /\ Return => Inv'
<1> SUFFICES ASSUME Inv, Return PROVE Inv'
  OBVIOUS
<1>1. TypeOK /\ missed = 0 /\ inFlight # <<>>
  BY DEF Inv, Return, MissedOne
<1>2. /\ inFlight' = Tail(inFlight) /\ ended' = TRUE
      /\ UNCHANGED <<phase, pc, busy, prevAddr, group, predictor, missed, stall, position>>
  BY DEF Return, port
<1> DEFINE m == Len(inFlight)
<1>3. /\ inFlight' \in Seq(Flight) /\ Len(inFlight') = m - 1
      /\ \A k \in 1..(m - 1) : inFlight'[k] = inFlight[k + 1]
  BY <1>1, <1>2, TailFacts
<1>4. m \in Nat /\ \A k \in 1..m : inFlight[k].taken <=> Follows(inFlight[k].addr)
  BY <1>1, FlightFacts DEF Inv, FollowsAsTold
<1> HIDE DEF m
<1>5. \A k \in 1..(m - 1) : inFlight'[k].taken <=> Follows(inFlight'[k].addr)
  <2> TAKE k \in 1..(m - 1)
  <2>1. k + 1 \in 1..m  BY <1>4
  <2> QED BY <1>3, <1>4, <2>1
<1>6. FollowsAsTold'
  BY <1>2, <1>3, <1>5 DEF FollowsAsTold, Follows, PredictsTaken
<1>7. TypeOK'  BY <1>1, <1>2, <1>3 DEF TypeOK
<1> QED BY <1>1, <1>2, <1>6, <1>7 DEF Inv, PortKept, MissedOne

-----------------------------------------------------------------------------
(* FETCH goes on from the pc latch. *)

LEMMA FetchInv ==
    ASSUME Inv, NEW latency \in Latencies, NEW size \in 1..NumInstFetch,
           Fetch(latency, size)
    PROVE  Inv'
<1> DEFINE lines == IF Starts THEN [addr |-> pc, size |-> size] ELSE group
           cycles == IF Starts THEN latency ELSE busy
<1>1. TypeOK  BY DEF Inv
<1>2. /\ pc \in Addr /\ pc + size - 1 \in Addr /\ phase = "fetch"
      /\ group' = lines /\ busy' = cycles - 1 /\ prevAddr' = pc /\ phase' = "update"
      /\ UNCHANGED <<missed, stall, ended, position>>
      /\ cycles = 1 => Deliver(lines)
      /\ cycles # 1 => UNCHANGED <<inFlight, predictor, pc>>
  BY DEF Fetch, Remember
<1>3. /\ lines \in [addr : Nat, size : 0..NumInstFetch]
      /\ lines.addr = pc /\ lines.size > 0 /\ lines.addr + lines.size - 1 \in Addr
      /\ cycles \in Nat /\ cycles > 0
  <2>1. CASE Starts
    BY <1>2, <2>1, FetchAssumption, ProgramFacts
  <2>2. CASE ~Starts
    <3>1. busy # 0 /\ prevAddr = pc  BY <2>2 DEF Starts
    <3>2. /\ group.addr = pc /\ group.size > 0 /\ group.addr + group.size - 1 \in Addr
      BY <3>1 DEF Inv, PortKept
    <3>3. busy \in Nat /\ group \in [addr : Nat, size : 0..NumInstFetch]
      BY <1>1 DEF TypeOK
    <3> QED BY <2>2, <3>1, <3>2, <3>3
  <2> QED BY <2>1, <2>2
<1> HIDE DEF lines, cycles
<1>4. /\ group' \in [addr : Nat, size : 0..NumInstFetch] /\ busy' \in Nat
      /\ prevAddr' \in Nat /\ PortKept'
  <2>1. pc \in Nat  BY <1>2, ProgramFacts
  <2> QED BY <1>2, <1>3, <2>1 DEF PortKept
<1>5. CASE cycles # 1
  <2>1. UNCHANGED <<inFlight, predictor, pc, missed, stall, ended, position>>
    BY <1>2, <1>5
  <2>2. TypeOK'  BY <1>1, <1>2, <1>4, <2>1 DEF TypeOK
  <2>3. FollowsAsTold' /\ MissedOne'
    BY <1>2, <2>1 DEF Inv, FollowsAsTold, MissedOne, Follows, PredictsTaken, Redirect
  <2>4. missed' = 0 /\ ~ended' =>
         /\ Len(inFlight') > 0 => inFlight'[1].addr = position'
         /\ Chained'
         /\ pc' = GoesOnWith' \/ (pc' = 0 /\ GoesOnWith' \notin Addr)
    BY <2>1 DEF Inv, Chained, GoesOnWith
  <2> QED BY <1>4, <2>2, <2>3, <2>4 DEF Inv
<1>6. CASE cycles = 1
  <2> DEFINE n == Passed(pc, lines.size)
             g == [k \in 1..n |-> [addr |-> pc + k - 1, taken |-> Follows(pc + k - 1)]]
             m == Len(inFlight)
  <2>1. /\ inFlight' = inFlight \o g
        /\ predictor' = [a \in Addr |-> IF a \in pc..(pc + n - 1) /\ KindOf(a) = "branch"
                                       THEN Known(predictor[a]) ELSE predictor[a]]
        /\ pc' = IF Follows(pc + n - 1) THEN Program[pc + n - 1].target
                 ELSE pc + lines.size
    BY <1>2, <1>3, <1>6 DEF Deliver, NextGroup
  <2>2. /\ pc \in Nat /\ pc > 0 /\ lines.size \in Nat /\ lines.size > 0
        /\ pc + lines.size - 1 \in Addr
    BY <1>2, <1>3, ProgramFacts, FetchAssumption
  <2>3. /\ n \in 1..lines.size /\ \A k \in 0..(n - 2) : ~Follows(pc + k)
        /\ n = lines.size \/ Follows(pc + n - 1)
    BY <2>2, PassedGroup
  <2> HIDE DEF n
  <2>4. n \in Nat /\ n > 0 /\ \A k \in 1..n : pc + k - 1 \in Addr
    BY <2>2, <2>3, ProgramFacts
  <2>5. /\ g \in Seq(Flight) /\ Len(g) = n
        /\ \A k \in 1..n : /\ g[k].addr = pc + k - 1
                           /\ g[k].taken <=> Follows(pc + k - 1)
    <3>1. \A k \in 1..n : [addr |-> pc + k - 1, taken |-> Follows(pc + k - 1)] \in Flight
      <4>1. \A k \in 1..n : Follows(pc + k - 1) \in BOOLEAN  BY DEF Follows
      <4> QED BY <2>4, <4>1 DEF Flight
    <3>2. g \in [1..n -> Flight]  BY <3>1
    <3>3. \A k \in 1..n : g[k] = [addr |-> pc + k - 1, taken |-> Follows(pc + k - 1)]
      OBVIOUS
    <3>4. \A k \in 1..n : g[k].addr = pc + k - 1 /\ (g[k].taken <=> Follows(pc + k - 1))
      BY <3>3
    <3> HIDE DEF g
    <3> QED BY <2>4, <3>2, <3>4, GroupSeq
  <2> HIDE DEF g
  <2>6. /\ m \in Nat /\ \A k \in 1..m : inFlight[k].addr \in Addr
        /\ inFlight \in Seq(Flight)
    BY <1>1, FlightFacts DEF TypeOK
  <2>7. /\ inFlight' \in Seq(Flight) /\ Len(inFlight') = m + n
        /\ \A k \in 1..m : inFlight'[k] = inFlight[k]
        /\ \A k \in 1..n : inFlight'[m + k] = g[k]
    <3> DEFINE f == inFlight \o g
    <3>1. /\ f \in Seq(Flight) /\ Len(f) = m + n
          /\ \A k \in 1..(m + n) : f[k] = IF k <= m THEN inFlight[k] ELSE g[k - m]
      BY <2>5, <2>6, ConcatProperties
    <3> HIDE DEF f, m
    <3>2. \A k \in 1..m : k \in 1..(m + n) /\ k <= m  BY <2>4, <2>6
    <3>3. \A k \in 1..n : m + k \in 1..(m + n) /\ ~(m + k <= m) /\ m + k - m = k
      BY <2>4, <2>6
    <3>4. \A k \in 1..m : f[k] = inFlight[k]  BY <3>1, <3>2
    <3>5. \A k \in 1..n : f[m + k] = g[k]
      <4> TAKE k \in 1..n
      <4> DEFINE i == m + k
      <4>1. i \in 1..(m + n) /\ ~(i <= m) /\ i - m = k  BY <2>4, <2>6
      <4> HIDE DEF i
      <4>2. f[i] = g[i - m]  BY <3>1, <4>1
      <4> QED BY <4>1, <4>2 DEF i
    <3> QED BY <2>1, <3>1, <3>4, <3>5 DEF f
  <2>8. /\ predictor' \in [Addr -> State \cup {"none"}]
        /\ \A a \in Addr : FollowsBy(predictor', a) <=> Follows(a)
        /\ \A a \in Addr : Known(predictor'[a]) = Known(predictor[a])
        /\ \A a \in Addr : predictor[a] # "none" => predictor'[a] # "none"
    <3>1. \A s \in State \cup {"none"} :
            Known(s) \in State /\ Known(Known(s)) = Known(s) /\ Known(s) # "none"
      BY DEF Known, State
    <3>2. predictor \in [Addr -> State \cup {"none"}]  BY <1>1 DEF TypeOK
    <3>3. \A a \in Addr : predictor'[a] = predictor[a] \/ predictor'[a] = Known(predictor[a])
      BY <2>1
    <3>4. predictor' \in [Addr -> State \cup {"none"}]  BY <2>1, <3>1, <3>2
    <3>5. \A a \in Addr : Known(predictor'[a]) = Known(predictor[a])
      BY <3>1, <3>2, <3>3
    <3>6. \A a \in Addr : predictor[a] # "none" => predictor'[a] # "none"
      BY <3>1, <3>2, <3>3
    <3> QED BY <3>4, <3>5, <3>6 DEF FollowsBy, Follows, PredictsTaken
  <2>9. pc' \in Addr \/ pc' = pc + n
    <3>1. pc + n - 1 \in Addr  BY <2>4
    <3>2. CASE Follows(pc + n - 1)
      <4>1. KindOf(pc + n - 1) \in {"branch", "goto"}  BY <3>2 DEF Follows
      <4> QED BY <2>1, <3>1, <3>2, <4>1, ProgramFacts
    <3>3. CASE ~Follows(pc + n - 1)  BY <2>1, <2>3, <3>3
    <3> QED BY <3>2, <3>3
  <2>10. pc' = Then(g[n])
    <3>1. n \in 1..n /\ pc + n - 1 + 1 = pc + n  BY <2>2, <2>4
    <3>2. Then(g[n]) = IF Follows(pc + n - 1) THEN Program[pc + n - 1].target ELSE pc + n
      BY <2>5, <3>1 DEF Then, Successor
    <3>3. pc' = IF Follows(pc + n - 1) THEN Program[pc + n - 1].target ELSE pc + n
      BY <2>1, <2>3
    <3> QED BY <3>2, <3>3
  <2>11. TypeOK'
    <3>1. pc' \in 0..(Len(Program) + 1)
      <4>1. pc + n - 1 \in Addr  BY <2>4
      <4> QED BY <2>2, <2>4, <2>9, <4>1, ProgramFacts
    <3> QED BY <1>1, <1>2, <1>4, <2>7, <2>8, <3>1 DEF TypeOK
  <2>12. MissedOne'
    <3> SUFFICES ASSUME missed' # 0
                 PROVE  /\ KindOf(missed') \in {"branch", "goto"}
                        /\ predictor'[missed'] # "none"
                        /\ position' = Redirect(missed)'
      BY <1>2 DEF MissedOne
    <3>1. missed' = missed /\ position' = position /\ missed # 0 /\ missed \in Addr
      BY <1>1, <1>2 DEF TypeOK
    <3>2. /\ KindOf(missed) \in {"branch", "goto"} /\ predictor[missed] # "none"
          /\ position = Redirect(missed)
      BY <3>1 DEF Inv, MissedOne
    <3>3. Redirect(missed)' = Redirect(missed)
      BY <2>8, <3>1 DEF Redirect, PredictsTaken
    <3> QED BY <2>8, <3>1, <3>2, <3>3
  <2> HIDE DEF m
  <2>13. \A k \in 1..(m + n) : k \in 1..m \/ \E j \in 1..n : k = m + j
    <3> TAKE k \in 1..(m + n)
    <3>1. CASE k <= m  BY <2>6, <3>1
    <3>2. CASE ~(k <= m)
      <4>1. k - m \in 1..n /\ k = m + (k - m)  BY <2>4, <2>6, <3>2
      <4> QED BY <4>1
    <3> QED BY <3>1, <3>2
  <2>14. FollowsAsTold'
    <3> SUFFICES ASSUME missed = 0, NEW k \in 1..(m + n)
                 PROVE  inFlight'[k].taken <=> FollowsBy(predictor', inFlight'[k].addr)
      BY <1>2, <2>7, ToldPrimed
    <3>1. CASE k \in 1..m
      <4>1. inFlight[k].taken <=> Follows(inFlight[k].addr)
        BY <3>1 DEF Inv, FollowsAsTold, m
      <4> QED BY <2>6, <2>7, <2>8, <3>1, <4>1
    <3>2. ASSUME NEW j \in 1..n, k = m + j
          PROVE  inFlight'[k].taken <=> FollowsBy(predictor', inFlight'[k].addr)
      BY <2>4, <2>5, <2>7, <2>8, <3>2
    <3> QED BY <2>13, <3>1, <3>2
  <2>15. ASSUME missed' = 0, ~ended'
         PROVE  /\ m + n > 0 => inFlight'[1].addr = position'
                /\ \A k \in 1..(m + n - 1) : inFlight'[k + 1].addr = Then(inFlight'[k])
                /\ pc' = Then(inFlight'[m + n])
    <3>1. /\ m > 0 => inFlight[1].addr = position
          /\ \A k \in 1..(m - 1) : inFlight[k + 1].addr = Then(inFlight[k])
          /\ pc = GoesOnWith
      BY <1>2, <2>2, <2>15 DEF Inv, Chained, m
    <3>2. g[1].addr = pc
      <4>1. 1 \in 1..n /\ pc + 1 - 1 = pc  BY <2>2, <2>4
      <4> QED BY <2>5, <4>1
    <3>3. inFlight'[1].addr = position'
      <4>1. CASE m = 0
        <5>1. 1 \in 1..n /\ m + 1 = 1  BY <2>4, <4>1
        <5>2. GoesOnWith = position  BY <4>1 DEF GoesOnWith, m
        <5> QED BY <1>2, <2>7, <3>1, <3>2, <5>1, <5>2
      <4>2. CASE m # 0
        <5>1. 1 \in 1..m /\ m > 0  BY <2>6, <4>2
        <5> QED BY <1>2, <2>7, <3>1, <5>1
      <4> QED BY <4>1, <4>2
    <3>4. \A k \in 1..(m + n - 1) : inFlight'[k + 1].addr = Then(inFlight'[k])
      <4> TAKE k \in 1..(m + n - 1)
      <4>1. CASE k < m
        <5>1. k \in 1..m /\ k + 1 \in 1..m /\ k \in 1..(m - 1)  BY <2>6, <4>1
        <5> QED BY <2>7, <3>1, <5>1
      <4>2. CASE k = m
        <5>1. m \in 1..m /\ 1 \in 1..n /\ m # 0  BY <2>4, <2>6, <4>2
        <5>2. GoesOnWith = Then(inFlight[m])  BY <5>1 DEF GoesOnWith, m
        <5> QED BY <2>7, <3>1, <3>2, <4>2, <5>1, <5>2
      <4>3. CASE k > m
        <5> DEFINE j == k - m
        <5>1. /\ j \in 1..n /\ j + 1 \in 1..n /\ m + j = k /\ m + (j + 1) = k + 1
              /\ j - 1 \in 0..(n - 2) /\ pc + (j - 1) = pc + j - 1
              /\ pc + (j + 1) - 1 = pc + j - 1 + 1
          BY <2>2, <2>4, <2>6, <4>3
        <5> HIDE DEF j
        <5>2. ~Follows(pc + j - 1)  BY <2>3, <5>1
        <5>3. g[j].addr = pc + j - 1 /\ ~g[j].taken  BY <2>5, <5>1, <5>2
        <5>4. Then(g[j]) = pc + j - 1 + 1  BY <5>3 DEF Then, Successor
        <5>5. g[j + 1].addr = pc + j - 1 + 1  BY <2>5, <5>1
        <5>6. inFlight'[k] = g[j] /\ inFlight'[k + 1] = g[j + 1]  BY <2>7, <5>1
        <5> QED BY <5>4, <5>5, <5>6
      <4> QED BY <2>6, <4>1, <4>2, <4>3
    <3>5. inFlight'[m + n] = g[n]
      <4>1. n \in 1..n  BY <2>4
      <4> QED BY <2>7, <4>1
    <3> QED BY <2>10, <3>3, <3>4, <3>5
  <2>16. missed' = 0 /\ ~ended' =>
           /\ Len(inFlight') > 0 => inFlight'[1].addr = position'
           /\ Chained'
           /\ pc' = GoesOnWith' \/ (pc' = 0 /\ GoesOnWith' \notin Addr)
    <3>1. m + n # 0  BY <2>4, <2>6
    <3>2. (\A k \in 1..(m + n - 1) : inFlight'[k + 1].addr = Then(inFlight'[k])) => Chained'
      <4>1. (\A k \in 1..(Len(inFlight') - 1) : inFlight'[k + 1].addr = Then(inFlight'[k]))
              => Chained'
        BY DEF Chained, Then, Successor
      <4>2. 1..(Len(inFlight') - 1) = 1..(m + n - 1)  BY <2>4, <2>6, <2>7
      <4> QED BY <4>1, <4>2
    <3>3. GoesOnWith' = Then(inFlight'[m + n])
      BY <2>7, <3>1 DEF GoesOnWith, Then, Successor
    <3> QED BY <2>7, <2>15, <3>2, <3>3
  <2> QED BY <1>4, <2>11, <2>12, <2>14, <2>16 DEF Inv
<1> QED BY <1>5, <1>6

LEMMA FetchNothingInv == Inv /\ FetchNothing => Inv'
<1> SUFFICES ASSUME Inv, FetchNothing PROVE Inv'
  OBVIOUS
<1>1. /\ TypeOK /\ pc \notin Addr
      /\ group' = [addr |-> 0, size |-> 0] /\ busy' = 0 /\ prevAddr' = pc
      /\ pc' = 0 /\ phase' = "update"
      /\ UNCHANGED <<predictor, inFlight, missed, stall, ended, position>>
  BY DEF Inv, FetchNothing, Remember
<1>2. TypeOK'
  <2>1. pc \in Nat /\ 0 \in 0..(Len(Program) + 1)  BY <1>1, ProgramFacts DEF TypeOK
  <2>2. group' \in [addr : Nat, size : 0..NumInstFetch]  BY <1>1, FetchAssumption
  <2> QED BY <1>1, <2>1, <2>2 DEF TypeOK
<1>3. PortKept'  BY <1>1 DEF PortKept
<1>4. FollowsAsTold' /\ MissedOne'
  BY <1>1 DEF Inv, FollowsAsTold, MissedOne, Follows, PredictsTaken, Redirect
<1>5. missed' = 0 /\ ~ended' =>
        /\ Len(inFlight') > 0 => inFlight'[1].addr = position'
        /\ Chained'
        /\ pc' = 0 /\ GoesOnWith' \notin Addr
  BY <1>1 DEF Inv, Chained, GoesOnWith
<1> QED BY <1>2, <1>3, <1>4, <1>5 DEF Inv

LEMMA StalledOrUpdateInv ==
    ASSUME Inv, FetchStalled \/ \E stalled \in BOOLEAN : Update(stalled)
    PROVE  Inv'
<1>1. /\ phase' \in {"execute", "update"} /\ (missed # 0 => phase' = "update")
      /\ stall' \in BOOLEAN
      /\ UNCHANGED <<pc, busy, prevAddr, group, predictor, inFlight, missed, ended, position>>
  BY DEF FetchStalled, Update, port, Inv, TypeOK
<1>2. TypeOK'  BY <1>1 DEF Inv, TypeOK
<1>3. PortKept' /\ FollowsAsTold' /\ MissedOne'
  BY <1>1 DEF Inv, PortKept, FollowsAsTold, MissedOne, Follows, PredictsTaken, Redirect
<1>4. Chained' = Chained /\ GoesOnWith' = GoesOnWith
  BY <1>1 DEF Chained, GoesOnWith, Then, Successor
<1> QED BY <1>1, <1>2, <1>3, <1>4 DEF Inv

LEMMA RecoverInv == Inv /\ Recover => Inv'
<1> SUFFICES ASSUME Inv, Recover PROVE Inv'
  OBVIOUS
<1>1. /\ TypeOK /\ missed # 0 /\ missed \in Addr
      /\ inFlight' = <<>> /\ pc' = Redirect(missed) /\ missed' = 0 /\ stall' = FALSE
      /\ phase' = "execute"
      /\ predictor' = [predictor EXCEPT ![missed] = Mispredicted(@)]
      /\ UNCHANGED <<busy, prevAddr, group, ended, position>>
  BY DEF Inv, Recover, port, TypeOK
<1>2. position = Redirect(missed) /\ predictor[missed] # "none"
  BY <1>1 DEF Inv, MissedOne
<1>3. predictor' \in [Addr -> State \cup {"none"}]
  <2>1. predictor \in [Addr -> State \cup {"none"}]  BY <1>1 DEF TypeOK
  <2>2. predictor[missed] \in State  BY <1>1, <1>2, <2>1
  <2>3. \A s \in State : Mispredicted(s) \in State  BY DEF Mispredicted, State
  <2> QED BY <1>1, <2>1, <2>2, <2>3
<1>4. inFlight' \in Seq(Flight) /\ Len(inFlight') = 0
  <2>1. <<>> \in Seq(Flight) /\ Len(<<>>) = 0  BY EmptySeq
  <2> QED BY <1>1, <2>1
<1>5. pc' = position /\ pc' \in 0..(Len(Program) + 1)
  BY <1>1, <1>2, ProgramFacts DEF TypeOK
<1>6. TypeOK'  BY <1>1, <1>3, <1>4, <1>5 DEF TypeOK
<1>7. PortKept'  BY <1>1 DEF Inv, PortKept
<1>8. FollowsAsTold' /\ MissedOne'
  BY <1>1, <1>4 DEF FollowsAsTold, MissedOne
<1>9. Chained' /\ GoesOnWith' = position  BY <1>1, <1>4 DEF Chained, GoesOnWith
<1> QED BY <1>4, <1>5, <1>6, <1>7, <1>8, <1>9 DEF Inv

LEMMA NextInv == Inv /\ [Next]_vars => Inv'
<1> SUFFICES ASSUME Inv, [Next]_vars PROVE Inv'
  OBVIOUS
<1>1. CASE Idle  BY <1>1, IdleInv
<1>2. CASE \E n \in 1..Depth : Advance(n)  BY <1>2, AdvanceInv
<1>3. CASE \E taken \in BOOLEAN : Branch(taken)  BY <1>3, BranchInv
<1>4. CASE Return  BY <1>4, ReturnInv
<1>5. CASE \E latency \in Latencies, size \in 1..NumInstFetch : Fetch(latency, size)
  BY <1>5, FetchInv
<1>6. CASE FetchNothing  BY <1>6, FetchNothingInv
<1>7. CASE FetchStalled \/ \E stalled \in BOOLEAN : Update(stalled)
  BY <1>7, StalledOrUpdateInv
<1>8. CASE Recover  BY <1>8, RecoverInv
<1>9. CASE EndOfSimulation \/ UNCHANGED vars
  <2>1. /\ UNCHANGED <<phase, pc, busy, prevAddr, group, predictor, inFlight>>
        /\ UNCHANGED <<missed, stall, ended, position>>
    BY <1>9 DEF EndOfSimulation, vars, port
  <2>2. TypeOK'  BY <2>1 DEF Inv, TypeOK
  <2>3. PortKept' /\ FollowsAsTold' /\ MissedOne'
    BY <2>1 DEF Inv, PortKept, FollowsAsTold, MissedOne, Follows, PredictsTaken, Redirect
  <2>4. Chained' = Chained /\ GoesOnWith' = GoesOnWith
    BY <2>1 DEF Chained, GoesOnWith, Then, Successor
  <2> QED BY <2>1, <2>2, <2>3, <2>4 DEF Inv
<1> QED BY <1>1, <1>2, <1>3, <1>4, <1>5, <1>6, <1>7, <1>8, <1>9 DEF Next

\* The variables of the front end keep their types: the pc latch never leaves the
\* program by more than one instruction, and is 0 (-1 in the code) after that.
THEOREM FetchTypeCorrect == Spec => []TypeOK
<1>1. Inv => TypeOK  BY DEF Inv
<1> QED BY <1>1, InitInv, NextInv, PTL DEF Spec

\* FETCH brings in the program in its order, for every program, every size of a
\* group and every latency of the instruction cache.
THEOREM FetchKeepsPath == Spec => []PathKept
BY InitInv, NextInv, InvMeans, PTL DEF Spec

\* No branch in flight is judged by another prediction than the one FETCH
\* followed, however often its address is in flight and whatever was fetched,
\* executed and recovered in between.
THEOREM PredictionsStand == Spec => []PredictionStands
BY InitInv, NextInv, InvMeans, PTL DEF Spec

\* The access under way in the static variables of readFromMem is for the pc.
THEOREM PortStaysHeld == Spec => []PortHolds
BY InitInv, NextInv, InvMeans, PTL DEF Spec
=============================================================================
