-------------------------- MODULE LoadStoreProofs --------------------------
(***************************************************************************)
(* The load/store lane, for every size of its station and of its queues    *)
(* and every latency: the types of its variables and the bounds of the     *)
(* queues; and for the station of one entry that the simulator is built    *)
(* with, that accesses are performed one by one in the order they came in. *)
(***************************************************************************)
EXTENDS LoadStoreRefinement, SequenceLemmas, FiniteSetTheorems, TLAPS

-----------------------------------------------------------------------------
(* The second loop of the unit. *)

\* The values of the recursion of Sweep, up to the mth.
Walks(f, start, ghost, m) ==
    f = [k \in 0..m |-> IF k = 0 THEN start ELSE Walk(start, ghost, f[k - 1], k)]

LEMMA WalksExist ==
    ASSUME NEW start, NEW ghost, NEW m \in Nat
    PROVE  \E f : Walks(f, start, ghost, m)
<1> DEFINE Bad == {n \in Nat : ~\E f : Walks(f, start, ghost, n)}
<1>1. Bad = {}
  <2> SUFFICES ASSUME Bad # {} PROVE FALSE  OBVIOUS
  <2>1. PICK n \in Bad : \A k \in Bad : n <= k
    <3>1. Bad \subseteq Nat  OBVIOUS
    <3> HIDE DEF Bad
    <3> QED BY <3>1, Smallest
  <2>2. n \in Nat /\ ~\E f : Walks(f, start, ghost, n)  OBVIOUS
  <2>3. CASE n = 0
    <3>1. Walks([k \in 0..0 |-> start], start, ghost, 0)  BY DEF Walks
    <3> QED BY <2>2, <2>3, <3>1
  <2>4. CASE n # 0
    <3>1. n - 1 \in Nat /\ ~(n <= n - 1)  BY <2>2, <2>4
    <3>2. n - 1 \notin Bad  BY <2>1, <3>1
    <3>3. PICK g : Walks(g, start, ghost, n - 1)  BY <3>1, <3>2
    <3> DEFINE f == [k \in 0..n |-> IF k = n THEN Walk(start, ghost, g[n - 1], n) ELSE g[k]]
    <3>4. \A k \in 0..(n - 1) :
            g[k] = IF k = 0 THEN start ELSE Walk(start, ghost, g[k - 1], k)
      BY <3>3 DEF Walks
    <3>5. \A k \in 0..n : f[k] = IF k = 0 THEN start ELSE Walk(start, ghost, f[k - 1], k)
      <4> SUFFICES ASSUME NEW k \in 0..n
                   PROVE  f[k] = IF k = 0 THEN start ELSE Walk(start, ghost, f[k - 1], k)
        OBVIOUS
      <4>1. CASE k = n
        <5>1. k # 0 /\ k - 1 \in 0..n /\ k - 1 # n  BY <2>2, <2>4, <4>1
        <5>2. f[k - 1] = g[n - 1]  BY <4>1, <5>1
        <5> QED BY <4>1, <5>1, <5>2
      <4>2. CASE k # n
        <5>1. k \in 0..(n - 1)  BY <2>2, <4>2
        <5>2. f[k] = g[k]  BY <4>2
        <5>3. CASE k = 0  BY <3>4, <5>1, <5>2, <5>3
        <5>4. CASE k # 0
          <6>1. k - 1 \in 0..n /\ k - 1 # n  BY <2>2, <5>1, <5>4
          <6>2. f[k - 1] = g[k - 1]  BY <6>1
          <6> QED BY <3>4, <5>1, <5>2, <5>4, <6>2
        <5> QED BY <5>3, <5>4
      <4> QED BY <4>1, <4>2
    <3>6. Walks(f, start, ghost, n)
      <4>1. f = [k \in 0..n |-> f[k]]  OBVIOUS
      <4> HIDE DEF f
      <4> QED BY <3>5, <4>1 DEF Walks
    <3> QED BY <2>2, <3>6
  <2> QED BY <2>3, <2>4
<1> QED BY <1>1

\* Sweep is the last of a chain of steps.
LEMMA SweepSteps ==
    ASSUME NEW start, NEW ghost, Len(start.station) \in Nat
    PROVE  \E f : /\ f[0] = start
                  /\ \A k \in 1..Len(start.station) :
                       f[k] = Walk(start, ghost, f[k - 1], k)
                  /\ Sweep(start, ghost) = f[Len(start.station)]
<1> DEFINE n == Len(start.station)
           f == CHOOSE f : Walks(f, start, ghost, n)
<1>1. n \in Nat  OBVIOUS
<1>2. Sweep(start, ghost) = f[n]  BY DEF Sweep, Walks
<1> HIDE DEF n
<1>3. Walks(f, start, ghost, n)
  <2>1. \E g : Walks(g, start, ghost, n)  BY <1>1, WalksExist
  <2> QED BY <2>1
<1> HIDE DEF f
<1>4. \A k \in 0..n : f[k] = IF k = 0 THEN start ELSE Walk(start, ghost, f[k - 1], k)
  BY <1>3 DEF Walks
<1>5. f[0] = start /\ \A k \in 1..n : f[k] = Walk(start, ghost, f[k - 1], k)
  BY <1>1, <1>4
<1> QED BY <1>2, <1>5 DEF n

-----------------------------------------------------------------------------
(* What a visit of the second loop does.  A is the set of accesses so far. *)

Entry(A)  == [op : A, state : EntryState]
Queued(A) == [op : A, value : A \cup {0}, latency : 0..MaxLatency,
              state : {"waiting", "stalled", "done"}]
Answer(A) == [op : A \cup {0}, value : A \cup {0}]
Swept(A)  == [station : Seq(Entry(A)), out : Answer(A), readQ : Seq(Queued(A)),
              writeQ : Seq(Queued(A)), retired : SUBSET A]

Ready(r, a) == Addr(r.op) = a /\ r.state = "done" /\ r.latency = 0

LEMMA FirstReady ==
    ASSUME NEW S, NEW q \in Seq(S), NEW a
    PROVE  \/ ReadyFor(q, a) = 0 /\ \A j \in 1..Len(q) : ~Ready(q[j], a)
           \/ ReadyFor(q, a) \in 1..Len(q) /\ Ready(q[ReadyFor(q, a)], a)
<1> DEFINE T == {j \in 1..Len(q) : Ready(q[j], a)}
<1>1. ReadyFor(q, a) = IF T # {} THEN Min(T) ELSE 0
  BY DEF ReadyFor, SelectInSeq, Ready
<1>2. T \in SUBSET (1..Len(q))  OBVIOUS
<1>3. CASE T = {}  BY <1>1, <1>3
<1>4. CASE T # {}
  <2>1. Min(T) \in T
    <3> HIDE DEF T
    <3> QED BY <1>2, <1>4, Selected
  <2> QED BY <1>1, <1>4, <2>1
<1> QED BY <1>3, <1>4

\* A station without its kth entry, or without its last when k is past the end.
Without(entries, k) ==
    IF k <= Len(entries) THEN RemoveAt(entries, k) ELSE Front(entries)

LEMMA WithoutTyped ==
    ASSUME NEW S, NEW q \in Seq(S), q # <<>>, NEW k \in Nat \ {0}
    PROVE  Without(q, k) \in Seq(S) /\ Len(Without(q, k)) = Len(q) - 1
<1>1. Len(q) \in Nat \ {0}  BY EmptySeq
<1>2. CASE k <= Len(q)
  <2>1. k \in 1..Len(q)  BY <1>1, <1>2
  <2> QED BY <1>2, <2>1, RemovedAt DEF Without
<1>3. CASE ~(k <= Len(q))
  <2> DEFINE n == Len(q)
  <2>1. Front(q) = SubSeq(q, 1, n - 1)  BY DEF Front
  <2>2. \A j \in 1..(n - 1) : q[j] \in S
    <3>1. \A j \in 1..(n - 1) : j \in 1..n  BY <1>1
    <3> QED BY <3>1, ElementOfSeq
  <2>3. n - 1 \in Int /\ 1 \in Int  BY <1>1
  <2>4. /\ SubSeq(q, 1, n - 1) \in Seq(S)
        /\ Len(SubSeq(q, 1, n - 1)) = IF 1 <= n - 1 THEN n - 1 - 1 + 1 ELSE 0
    BY <2>2, <2>3, SubSeqProperties
  <2>5. n \in Nat \ {0}  BY <1>1
  <2> HIDE DEF n
  <2>6. (IF 1 <= n - 1 THEN n - 1 - 1 + 1 ELSE 0) = n - 1  BY <2>5
  <2> QED BY <1>3, <2>1, <2>4, <2>6 DEF Without, n
<1> QED BY <1>2, <1>3

Leaves(s, e) ==
    \/ e.state = "replay" /\ ReadyFor(s.readQ, Addr(e.op)) # 0
    \/ e.state = "completed" /\ HasDataWritten(s.writeQ, Addr(e.op))

\* The reads left behind once e has taken its data.
ReadsAfter(s, e) ==
    IF e.state = "replay" THEN RemoveAt(s.readQ, ReadyFor(s.readQ, Addr(e.op)))
    ELSE s.readQ

LEMMA VisitEffect ==
    ASSUME NEW A, NEW s \in Swept(A), NEW k \in Nat \ {0}, NEW e \in Entry(A),
           s.station # <<>>
    PROVE  /\ Visit(s, k, e) \in Swept(A)
           /\ Visit(s, k, e).writeQ = s.writeQ
           /\ ~Leaves(s, e) => Visit(s, k, e) = s
           /\ Leaves(s, e) =>
                /\ Visit(s, k, e).station = Without(s.station, k)
                /\ Visit(s, k, e).readQ = ReadsAfter(s, e)
           /\ ReadsAfter(s, e) \in Seq(Queued(A)) \/ ~Leaves(s, e)
           /\ Len(Visit(s, k, e).readQ) <= Len(s.readQ)
<1> DEFINE r == ReadyFor(s.readQ, Addr(e.op))
           v == Visit(s, k, e)
           t == Let(s, k)
           w == Without(s.station, k)
<1>1. /\ s.station \in Seq(Entry(A)) /\ s.out \in Answer(A) /\ s.readQ \in Seq(Queued(A))
      /\ s.writeQ \in Seq(Queued(A)) /\ s.retired \in SUBSET A /\ e.op \in A
  BY DEF Swept, Entry
<1>2. w \in Seq(Entry(A))  BY <1>1, WithoutTyped
<1>3. t = [s EXCEPT !.station = w]  BY DEF Let, Without
<1>4. t \in Swept(A) /\ t.station = w /\ t.readQ = s.readQ /\ t.writeQ = s.writeQ
      /\ t.out = s.out /\ t.retired = s.retired
  <2> HIDE DEF w, t
  <2> QED BY <1>2, <1>3 DEF Swept
<1>5. r = 0 \/ r \in 1..Len(s.readQ)  BY <1>1, FirstReady
<1>6. Len(s.readQ) \in Nat  BY <1>1, LenProperties
<1>7. CASE e.state = "replay" /\ r # 0
  <2>1. PICK q : q = RemoveAt(s.readQ, r)  OBVIOUS
  <2>2. q \in Seq(Queued(A)) /\ Len(q) = Len(s.readQ) - 1  BY <1>1, <1>5, <1>7, <2>1, RemovedAt
  <2>3. PICK a : a = [op |-> e.op, value |-> s.readQ[r].value]  OBVIOUS
  <2>4. a \in Answer(A)
    <3>1. s.readQ[r] \in Queued(A)  BY <1>1, <1>5, <1>7, ElementOfSeq
    <3>2. s.readQ[r].value \in A \cup {0}  BY <3>1 DEF Queued
    <3> QED BY <1>1, <2>3, <3>2 DEF Answer
  <2>5. v = [t EXCEPT !.out = a, !.readQ = RemoveAt(@, r), !.retired = @ \cup {e.op}]
    BY <1>7, <2>3 DEF Visit
  <2> HIDE DEF t, v, r
  <2>6. v = [t EXCEPT !.out = a, !.readQ = q, !.retired = s.retired \cup {e.op}]
    BY <1>4, <2>1, <2>5
  <2>7. v \in Swept(A) /\ v.station = w /\ v.readQ = q /\ v.writeQ = s.writeQ
    <3> HIDE DEF w
    <3>1. s.retired \cup {e.op} \in SUBSET A  BY <1>1
    <3> QED BY <1>4, <2>2, <2>4, <2>6, <3>1 DEF Swept
  <2>8. Leaves(s, e) /\ ReadsAfter(s, e) = q  BY <1>7, <2>1 DEF Leaves, ReadsAfter, r
  <2>9. Len(q) <= Len(s.readQ)  BY <1>6, <2>2
  <2> QED BY <2>2, <2>7, <2>8, <2>9 DEF v
<1>8. CASE ~(e.state = "replay" /\ r # 0) /\ e.state = "completed"
           /\ HasDataWritten(s.writeQ, Addr(e.op))
  <2>1. v = [t EXCEPT !.retired = @ \cup {e.op}]  BY <1>8 DEF Visit
  <2> HIDE DEF t, v, r
  <2>2. v \in Swept(A) /\ v.station = w /\ v.readQ = s.readQ /\ v.writeQ = s.writeQ
    <3> HIDE DEF w
    <3>1. s.retired \cup {e.op} \in SUBSET A  BY <1>1
    <3> QED BY <1>4, <2>1, <3>1 DEF Swept
  <2>3. Leaves(s, e) /\ ReadsAfter(s, e) = s.readQ  BY <1>8 DEF Leaves, ReadsAfter
  <2> QED BY <1>1, <1>6, <2>2, <2>3 DEF v
<1>9. CASE ~(e.state = "replay" /\ r # 0)
           /\ ~(e.state = "completed" /\ HasDataWritten(s.writeQ, Addr(e.op)))
  <2>1. v = s  BY <1>9 DEF Visit
  <2>2. ~Leaves(s, e)  BY <1>9 DEF Leaves
  <2> QED BY <1>6, <2>1, <2>2
<1> QED BY <1>7, <1>8, <1>9

LEMMA WalkTyped ==
    ASSUME NEW A, NEW start \in Swept(A), NEW s \in Swept(A), NEW ghost,
           NEW k \in 1..Len(start.station)
    PROVE  /\ Walk(start, ghost, s, k) \in Swept(A)
           /\ Walk(start, ghost, s, k).writeQ = s.writeQ
           /\ Len(Walk(start, ghost, s, k).readQ) <= Len(s.readQ)
<1>1. /\ start.station \in Seq(Entry(A)) /\ s.station \in Seq(Entry(A))
      /\ s.readQ \in Seq(Queued(A))
  BY DEF Swept
<1>2. Len(start.station) \in Nat /\ Len(s.station) \in Nat /\ Len(s.readQ) \in Nat
  BY <1>1, LenProperties
<1>3. k \in Nat \ {0} /\ Len(start.station) \in 1..Len(start.station)  BY <1>2
<1>4. CASE k <= Len(s.station)
  <2>1. k \in 1..Len(s.station)  BY <1>2, <1>3, <1>4
  <2>2. s.station[k] \in Entry(A) /\ s.station # <<>>
    <3>1. s.station # <<>>
      <4>1. s.station = <<>> => Len(s.station) = 0  BY <1>1, EmptySeq
      <4> QED BY <1>2, <2>1, <4>1
    <3> QED BY <1>1, <2>1, <3>1, ElementOfSeq
  <2>3. Walk(start, ghost, s, k) = Visit(s, k, s.station[k])  BY <1>4 DEF Walk
  <2>4. PICK e : e = s.station[k]  OBVIOUS
  <2>5. e \in Entry(A)  BY <2>2, <2>4
  <2>6. PICK v : v = Visit(s, k, e)  OBVIOUS
  <2>7. v \in Swept(A) /\ v.writeQ = s.writeQ /\ Len(v.readQ) <= Len(s.readQ)
    BY <1>3, <2>2, <2>5, <2>6, VisitEffect
  <2>8. Walk(start, ghost, s, k) = v  BY <2>3, <2>4, <2>6
  <2> QED BY <2>7, <2>8
<1>5. CASE ~(k <= Len(s.station)) /\ ghost /\ s.station # <<>>
  <2>1. Last(start.station) \in Entry(A)  BY <1>1, <1>3, ElementOfSeq DEF Last
  <2>2. Walk(start, ghost, s, k) = Visit(s, k, Last(start.station))  BY <1>5 DEF Walk
  <2>3. PICK e : e = Last(start.station)  OBVIOUS
  <2>4. e \in Entry(A)  BY <2>1, <2>3
  <2>5. PICK v : v = Visit(s, k, e)  OBVIOUS
  <2>6. v \in Swept(A) /\ v.writeQ = s.writeQ /\ Len(v.readQ) <= Len(s.readQ)
    BY <1>3, <1>5, <2>4, <2>5, VisitEffect
  <2>7. Walk(start, ghost, s, k) = v  BY <2>2, <2>3, <2>5
  <2> QED BY <2>6, <2>7
<1>6. CASE ~(k <= Len(s.station)) /\ ~(ghost /\ s.station # <<>>)
  <2>1. Walk(start, ghost, s, k) = s  BY <1>6 DEF Walk
  <2> QED BY <1>2, <2>1
<1> QED BY <1>4, <1>5, <1>6

\* The loop takes nothing from the writes and adds nothing to the reads.
LEMMA SweepTyped ==
    ASSUME NEW A, NEW start \in Swept(A), NEW ghost
    PROVE  /\ Sweep(start, ghost) \in Swept(A)
           /\ Sweep(start, ghost).writeQ = start.writeQ
           /\ Len(Sweep(start, ghost).readQ) <= Len(start.readQ)
<1> DEFINE n == Len(start.station)
<1>1. n \in Nat /\ Len(start.readQ) \in Nat
  BY LenProperties DEF Swept
<1>2. PICK f : /\ f[0] = start
               /\ \A k \in 1..n : f[k] = Walk(start, ghost, f[k - 1], k)
               /\ Sweep(start, ghost) = f[n]
  BY <1>1, SweepSteps
<1> DEFINE Good(k) == /\ f[k] \in Swept(A) /\ f[k].writeQ = start.writeQ
                      /\ Len(f[k].readQ) <= Len(start.readQ)
           Bad == {k \in 0..n : ~Good(k)}
<1>3. Bad = {}
  <2> SUFFICES ASSUME Bad # {} PROVE FALSE  OBVIOUS
  <2>1. PICK k \in Bad : \A j \in Bad : k <= j
    <3>1. Bad \subseteq Nat  BY <1>1
    <3> HIDE DEF Bad
    <3> QED BY <3>1, Smallest
  <2>2. k \in 0..n /\ ~Good(k)  OBVIOUS
  <2>3. k # 0
    <3>1. Good(0)  BY <1>1, <1>2
    <3> QED BY <2>2, <3>1
  <2>4. k \in 1..n /\ k - 1 \in 0..n /\ ~(k <= k - 1)  BY <1>1, <2>2, <2>3
  <2>5. Good(k - 1)
    <3>1. k - 1 \notin Bad  BY <2>1, <2>4
    <3> QED BY <2>4, <3>1
  <2>6. f[k] = Walk(start, ghost, f[k - 1], k)  BY <1>2, <2>4
  <2>7. PICK u, v : u = f[k - 1] /\ v = f[k]  OBVIOUS
  <2>8. u \in Swept(A) /\ u.writeQ = start.writeQ /\ Len(u.readQ) <= Len(start.readQ)
    BY <2>5, <2>7
  <2>9. v = Walk(start, ghost, u, k)  BY <2>6, <2>7
  <2>10. v \in Swept(A) /\ v.writeQ = u.writeQ /\ Len(v.readQ) <= Len(u.readQ)
    BY <2>4, <2>8, <2>9, WalkTyped
  <2>11. Len(v.readQ) \in Nat /\ Len(u.readQ) \in Nat
    BY <2>8, <2>10, LenProperties DEF Swept
  <2>12. Len(v.readQ) <= Len(start.readQ)  BY <1>1, <2>8, <2>10, <2>11
  <2> QED BY <2>2, <2>7, <2>8, <2>10, <2>12
<1>4. Good(n)  BY <1>1, <1>3
<1> QED BY <1>2, <1>4

-----------------------------------------------------------------------------
(* Latencies, the station and the queues in their types. *)

LEMMA LatencyBound ==
    /\ MaxLatency \in Nat \ {0}
    /\ \A l \in Latencies : l \in Nat \ {0} /\ l <= MaxLatency
<1>1. Latencies \in SUBSET Nat /\ IsFiniteSet(Latencies) /\ Latencies # {}
      /\ Latencies \subseteq Nat \ {0}
  BY LoadStoreAssumption
<1>2. \E l \in Latencies : \A m \in Latencies : m <= l  BY <1>1, GreatestOfFinite
<1>3. MaxLatency \in Latencies /\ \A m \in Latencies : m <= MaxLatency
  BY <1>2 DEF MaxLatency
<1> QED BY <1>1, <1>3

LEMMA Wider ==
    ASSUME NEW S, NEW T, S \subseteq T, NEW q \in Seq(S)
    PROVE  q \in Seq(T)
<1>1. \A j \in 1..Len(q) : q[j] \in T  BY ElementOfSeq
<1>2. q = [j \in 1..Len(q) |-> q[j]] /\ Len(q) \in Nat  BY LenProperties
<1>3. [j \in 1..Len(q) |-> q[j]] \in Seq(T)  BY <1>1, <1>2, IsASeq
<1> QED BY <1>2, <1>3

LEMMA MarkedTyped ==
    ASSUME NEW A, NEW q \in Seq(Entry(A)), NEW k, k = 0 \/ k \in 1..Len(q),
           NEW st \in EntryState
    PROVE  Marked(q, k, st) \in Seq(Entry(A)) /\ Len(Marked(q, k, st)) = Len(q)
<1>1. CASE k = 0  BY <1>1 DEF Marked
<1>2. CASE k # 0
  <2>1. q[k] \in Entry(A)  BY <1>2, ElementOfSeq
  <2>2. PICK e : e = [q[k] EXCEPT !.state = st]  OBVIOUS
  <2>3. e \in Entry(A)  BY <2>1, <2>2 DEF Entry
  <2>4. Marked(q, k, st) = [q EXCEPT ![k] = e]  BY <1>2, <2>2 DEF Marked
  <2>5. [q EXCEPT ![k] = e] \in Seq(Entry(A)) /\ Len([q EXCEPT ![k] = e]) = Len(q)
    BY <1>2, <2>3, ExceptSeq
  <2> QED BY <2>4, <2>5
<1> QED BY <1>1, <1>2

\* An entry found by its state is one of the station's.
LEMMA FirstFound ==
    ASSUME NEW S, Arrived \in Seq(S), NEW state
    PROVE  FirstIn(state) = 0 \/ FirstIn(state) \in 1..Len(Arrived)
<1> DEFINE q == Arrived
           T == {j \in 1..Len(q) : q[j].state = state}
<1>1. FirstIn(state) = IF T # {} THEN Min(T) ELSE 0
  BY DEF FirstIn, SelectInSeq
<1>2. T \in SUBSET (1..Len(q)) /\ q \in Seq(S)  OBVIOUS
<1> HIDE DEF q, T
<1>3. T # {} => Min(T) \in T  BY <1>2, Selected
<1> QED BY <1>1, <1>2, <1>3 DEF q

-----------------------------------------------------------------------------
(* The station and the queues, their invariant and how each step keeps it. *)

\* The signal the unit will read leaves room for the one request it may make.
RoomKept ==
    phase = "unit" /\ ~stallBit =>
        Len(readQ) + 1 <= MaxReadQ /\ Len(writeQ) + 1 <= MaxWriteQ

LaneInv == TypeOK /\ QueuesBounded /\ RoomKept

Command == [kind : {"load", "store"}, addr : Addresses]

\* TypeOK with its sets named.
LEMMA Types ==
    TypeOK <=>
    /\ phase \in Phase /\ program \in Seq(Command) /\ latch \in Access \cup {0}
    /\ busy \in BOOLEAN /\ stallBit \in BOOLEAN
    /\ station \in Seq(Entry(Access))
    /\ readQ \in Seq(Queued(Access)) /\ writeQ \in Seq(Queued(Access))
    /\ memory \in [Addresses -> Access \cup {0}] /\ out \in Answer(Access)
    /\ observed \in Seq(Access \cup {0}) /\ retired \in SUBSET Access
BY DEF TypeOK, Command, Entry, Queued, Answer, QueueEntry

LEMMA AccessTyped ==
    ASSUME program \in Seq(Command)
    PROVE  /\ Len(program) \in Nat
           /\ \A i \in Access : /\ i \in Nat \ {0} /\ IsStore(i) \in BOOLEAN
                                /\ Addr(i) \in Addresses
<1> DEFINE n == Len(program)
<1>1. n \in Nat  BY LenProperties
<1>2. \A i \in 1..n : program[i] \in Command  BY ElementOfSeq
<1> HIDE DEF n
<1>3. \A i \in 1..n : i \in Nat \ {0}  BY <1>1
<1>4. \A i \in 1..n : IsStore(i) \in BOOLEAN /\ Addr(i) \in Addresses
  BY <1>2 DEF Command, IsStore, Addr
<1> QED BY <1>1, <1>3, <1>4 DEF n, Access

LEMMA TypesInit == Init => LaneInv
<1> SUFFICES ASSUME Init PROVE LaneInv  OBVIOUS
<1>1. Len(<<>>) = 0 /\ \A S : <<>> \in Seq(S)  BY EmptySeq
<1>2. MaxReadQ \in Nat \ {0} /\ MaxWriteQ \in Nat \ {0}  BY LoadStoreAssumption
<1>3. TypeOK  BY <1>1, Types DEF Init, Phase, Answer, NoAnswer
<1> QED BY <1>1, <1>2, <1>3 DEF Init, LaneInv, QueuesBounded, RoomKept

\* The head of a queue after its cycle is still an entry of the queue.
LEMMA CycleTyped ==
    ASSUME NEW A, NEW r \in Queued(A), NEW l \in Latencies
    PROVE  AfterCycle(r, l) \in Queued(A) /\ AfterCycle(r, l).op = r.op
           /\ AfterCycle(r, l).value = r.value
<1>1. l \in Nat \ {0} /\ l <= MaxLatency /\ MaxLatency \in Nat \ {0}  BY LatencyBound
<1>2. r.latency \in 0..MaxLatency /\ r.op \in A /\ r.value \in A \cup {0}
  BY DEF Queued
<1>3. CASE r.state = "waiting"
  <2>1. AfterCycle(r, l) = [r EXCEPT !.latency = l,
                                     !.state = IF l = 1 THEN "done" ELSE "stalled"]
    BY <1>3 DEF AfterCycle
  <2>2. l \in 0..MaxLatency  BY <1>1
  <2> QED BY <2>1, <2>2 DEF Queued
<1>4. CASE r.state # "waiting" /\ r.latency > 0
  <2>1. PICK c : c = r.latency - 1  OBVIOUS
  <2>2. c \in 0..MaxLatency  BY <1>1, <1>2, <1>4, <2>1
  <2>3. AfterCycle(r, l) = [r EXCEPT !.latency = c,
                              !.state = IF r.latency <= 1 THEN "done" ELSE r.state]
    BY <1>4, <2>1 DEF AfterCycle, Queued
  <2> QED BY <2>2, <2>3 DEF Queued
<1>5. CASE r.state # "waiting" /\ ~(r.latency > 0)
  BY <1>5 DEF AfterCycle
<1> QED BY <1>3, <1>4, <1>5

LEMMA HeadAndTail ==
    ASSUME NEW S, NEW q \in Seq(S), q # <<>>
    PROVE  /\ Head(q) \in S /\ Tail(q) \in Seq(S) /\ Len(Tail(q)) = Len(q) - 1
           /\ Len(q) \in Nat \ {0} /\ Head(q) = q[1]
           /\ \A e \in S : /\ <<e>> \o Tail(q) \in Seq(S)
                           /\ Len(<<e>> \o Tail(q)) = Len(q)
<1>1. Head(q) \in S /\ Tail(q) \in Seq(S) /\ Len(Tail(q)) = Len(q) - 1
  BY HeadTailProperties
<1>2. Len(q) \in Nat \ {0}  BY EmptySeq, LenProperties
<1>3. Head(q) = q[1]  OBVIOUS
<1> SUFFICES ASSUME NEW e \in S
             PROVE  <<e>> \o Tail(q) \in Seq(S) /\ Len(<<e>> \o Tail(q)) = Len(q)
  BY <1>1, <1>2, <1>3
<1>4. <<e>> \in Seq(S) /\ Len(<<e>>) = 1  OBVIOUS
<1> DEFINE t == Tail(q)
<1>5. t \in Seq(S)  BY <1>1
<1>6. PICK n \in Nat, m \in Nat : n = Len(q) /\ m = Len(t)  BY <1>2, <1>5, LenProperties
<1>7. m = n - 1  BY <1>1, <1>6
<1> HIDE DEF t
<1>8. <<e>> \o t \in Seq(S) /\ Len(<<e>> \o t) = 1 + m
  BY <1>4, <1>5, <1>6, ConcatProperties
<1> QED BY <1>6, <1>7, <1>8 DEF t

LEMMA QueuesAfterCycle ==
    ASSUME TypeOK, NEW l \in Latencies
    PROVE  /\ ReadQueueAfter(l) \in Seq(Queued(Access))
           /\ Len(ReadQueueAfter(l)) = Len(readQ)
           /\ WriteQueueAfter(l) \in Seq(Queued(Access))
           /\ Len(WriteQueueAfter(l)) <= Len(writeQ)
<1>1. readQ \in Seq(Queued(Access)) /\ writeQ \in Seq(Queued(Access))
      /\ memory \in [Addresses -> Access \cup {0}] /\ program \in Seq(Command)
  BY Types
<1>2. Len(readQ) \in Nat /\ Len(writeQ) \in Nat  BY <1>1, LenProperties
<1>3. <<>> \in Seq(Queued(Access)) /\ Len(<<>>) = 0  BY EmptySeq
<1>4. readQ = <<>> =>
        ReadQueueAfter(l) \in Seq(Queued(Access)) /\ Len(ReadQueueAfter(l)) = Len(readQ)
  BY <1>3 DEF ReadQueueAfter
<1>5. readQ # <<>> =>
        ReadQueueAfter(l) \in Seq(Queued(Access)) /\ Len(ReadQueueAfter(l)) = Len(readQ)
  <2> SUFFICES ASSUME readQ # <<>>
               PROVE  /\ ReadQueueAfter(l) \in Seq(Queued(Access))
                      /\ Len(ReadQueueAfter(l)) = Len(readQ)
    OBVIOUS
  <2>1. PICK h : h = Head(readQ)  OBVIOUS
  <2>2. h \in Queued(Access)  BY <1>1, <2>1, HeadAndTail
  <2>3. PICK r : r = IF Waits(readQ) THEN [h EXCEPT !.value = memory[Addr(h.op)]] ELSE h
    OBVIOUS
  <2>4. r \in Queued(Access)
    <3>1. h.op \in Access  BY <2>2 DEF Queued
    <3>2. memory[Addr(h.op)] \in Access \cup {0}  BY <1>1, <3>1, AccessTyped
    <3> QED BY <2>2, <2>3, <3>2 DEF Queued
  <2>5. PICK c : c = AfterCycle(r, l)  OBVIOUS
  <2>6. c \in Queued(Access)  BY <2>4, <2>5, CycleTyped
  <2>7. ReadQueueAfter(l) = <<c>> \o Tail(readQ)
    BY <2>1, <2>3, <2>5 DEF ReadQueueAfter
  <2> QED BY <1>1, <2>6, <2>7, HeadAndTail
<1>6. writeQ = <<>> =>
        WriteQueueAfter(l) \in Seq(Queued(Access)) /\ Len(WriteQueueAfter(l)) <= Len(writeQ)
  BY <1>2, <1>3 DEF WriteQueueAfter
<1>7. writeQ # <<>> =>
        WriteQueueAfter(l) \in Seq(Queued(Access)) /\ Len(WriteQueueAfter(l)) <= Len(writeQ)
  <2> SUFFICES ASSUME writeQ # <<>>
               PROVE  /\ WriteQueueAfter(l) \in Seq(Queued(Access))
                      /\ Len(WriteQueueAfter(l)) <= Len(writeQ)
    OBVIOUS
  <2>1. PICK h : h = Head(writeQ)  OBVIOUS
  <2>2. h \in Queued(Access)  BY <1>1, <2>1, HeadAndTail
  <2>3. PICK c : c = AfterCycle(h, l)  OBVIOUS
  <2>4. c \in Queued(Access)  BY <2>2, <2>3, CycleTyped
  <2>5. PICK t : t = Tail(writeQ)  OBVIOUS
  <2>6. t \in Seq(Queued(Access)) /\ Len(t) = Len(writeQ) - 1
        /\ <<c>> \o t \in Seq(Queued(Access)) /\ Len(<<c>> \o t) = Len(writeQ)
    BY <1>1, <2>4, <2>5, HeadAndTail
  <2>7. WriteQueueAfter(l) = IF c.state = "done" THEN t ELSE <<c>> \o t
    BY <2>1, <2>3, <2>5 DEF WriteQueueAfter
  <2>8. Len(t) <= Len(writeQ)  BY <1>2, <2>6
  <2>9. Len(<<c>> \o t) <= Len(writeQ)  BY <1>2, <2>6
  <2> QED BY <2>6, <2>7, <2>8, <2>9
<1> QED BY <1>4, <1>5, <1>6, <1>7

LEMMA TypesMemoryStep ==
    ASSUME LaneInv, NEW l \in Latencies, NEW m \in Latencies, MemoryStep(l, m)
    PROVE  LaneInv'
<1>1. TypeOK /\ QueuesBounded  BY DEF LaneInv
<1>2. readQ' = ReadQueueAfter(l) /\ writeQ' = WriteQueueAfter(m) /\ memory' = MemoryAfter
      /\ stallBit' = Full(readQ', writeQ') /\ phase' = "unit"
      /\ program' = program /\ latch' = latch /\ busy' = busy /\ station' = station
      /\ out' = out /\ retired' = retired
  BY DEF MemoryStep
<1>3. readQ' \in Seq(Queued(Access)) /\ Len(readQ') = Len(readQ)
      /\ writeQ' \in Seq(Queued(Access)) /\ Len(writeQ') <= Len(writeQ)
  BY <1>1, <1>2, QueuesAfterCycle
<1>4. readQ \in Seq(Queued(Access)) /\ writeQ \in Seq(Queued(Access))
      /\ memory \in [Addresses -> Access \cup {0}] /\ program \in Seq(Command)
      /\ observed \in Seq(Access \cup {0})
  BY <1>1, Types
<1>5. Access' = Access  BY <1>2 DEF Access
<1>6. memory' \in [Addresses -> Access \cup {0}]
  <2>1. CASE ~Waits(writeQ)  BY <1>2, <1>4, <2>1 DEF MemoryAfter
  <2>2. CASE Waits(writeQ)
    <3>1. PICK h : h = Head(writeQ)  OBVIOUS
    <3>2. h \in Queued(Access)  BY <1>4, <2>2, <3>1, HeadAndTail DEF Waits
    <3>3. h.op \in Access /\ h.value \in Access \cup {0}  BY <3>2 DEF Queued
    <3>4. memory' = [memory EXCEPT ![Addr(h.op)] = h.value]
      BY <1>2, <2>2, <3>1 DEF MemoryAfter
    <3> QED BY <1>4, <3>3, <3>4
  <2> QED BY <2>1, <2>2
<1>7. observed' \in Seq(Access \cup {0})
  <2>1. PICK a : a = IF Waits(readQ) THEN <<Head(readQ').value>> ELSE <<>>  OBVIOUS
  <2>2. PICK b : b = IF Waits(writeQ) THEN <<Head(writeQ).value>> ELSE <<>>  OBVIOUS
  <2>3. observed' = observed \o a \o b  BY <2>1, <2>2 DEF MemoryStep
  <2>4. a \in Seq(Access \cup {0})
    <3>1. CASE ~Waits(readQ)  BY <2>1, <3>1
    <3>2. CASE Waits(readQ)
      <4>1. readQ' # <<>>
        <5>1. readQ # <<>>  BY <3>2 DEF Waits
        <5>2. Len(readQ) # 0  BY <1>4, <5>1, EmptySeq
        <5>3. Len(<<>>) = 0  BY EmptySeq
        <5> QED BY <1>3, <5>2, <5>3
      <4>2. PICK h : h = Head(readQ')  OBVIOUS
      <4>3. h \in Queued(Access)  BY <1>3, <4>1, <4>2, HeadAndTail
      <4>4. h.value \in Access \cup {0}  BY <4>3 DEF Queued
      <4>5. a = <<h.value>>  BY <2>1, <3>2, <4>2
      <4> QED BY <4>4, <4>5
    <3> QED BY <3>1, <3>2
  <2>5. b \in Seq(Access \cup {0})
    <3>1. CASE ~Waits(writeQ)  BY <2>2, <3>1
    <3>2. CASE Waits(writeQ)
      <4>1. PICK h : h = Head(writeQ)  OBVIOUS
      <4>2. h \in Queued(Access)  BY <1>4, <3>2, <4>1, HeadAndTail DEF Waits
      <4>3. h.value \in Access \cup {0}  BY <4>2 DEF Queued
      <4>4. b = <<h.value>>  BY <2>2, <3>2, <4>1
      <4> QED BY <4>3, <4>4
    <3> QED BY <3>1, <3>2
  <2>6. PICK V : V = Access \cup {0}  OBVIOUS
  <2>7. observed \in Seq(V) /\ a \in Seq(V) /\ b \in Seq(V)
    BY <1>4, <2>4, <2>5, <2>6
  <2>8. observed \o a \in Seq(V)  BY <2>7, ConcatProperties
  <2>9. observed \o a \o b \in Seq(V)  BY <2>7, <2>8, ConcatProperties
  <2> QED BY <2>3, <2>6, <2>9
<1>8. stallBit' \in BOOLEAN  BY <1>2 DEF Full
<1>9. TypeOK'
  <2>1. phase' \in Phase  BY <1>2 DEF Phase
  <2>2. /\ program' \in Seq(Command) /\ latch' \in Access' \cup {0}
        /\ busy' \in BOOLEAN /\ station' \in Seq(Entry(Access'))
        /\ out' \in Answer(Access') /\ retired' \in SUBSET Access'
    BY <1>1, <1>2, <1>5, Types
  <2> QED BY <1>3, <1>5, <1>6, <1>7, <1>8, <2>1, <2>2
          DEF TypeOK, Command, Entry, Queued, Answer, QueueEntry
<1>10. QueuesBounded'
  <2>1. Len(readQ) \in Nat /\ Len(writeQ) \in Nat  BY <1>4, LenProperties
  <2>2. Len(readQ') \in Nat /\ Len(writeQ') \in Nat  BY <1>3, LenProperties
  <2>3. MaxReadQ \in Nat /\ MaxWriteQ \in Nat  BY LoadStoreAssumption
  <2> QED BY <1>1, <1>3, <2>1, <2>2, <2>3 DEF QueuesBounded
<1>11. RoomKept'
  <2>1. Len(readQ') \in Nat /\ Len(writeQ') \in Nat  BY <1>3, LenProperties
  <2>2. MaxReadQ \in Nat /\ MaxWriteQ \in Nat  BY LoadStoreAssumption
  <2>3. ~stallBit' => ~(Len(readQ') + 1 > MaxReadQ) /\ ~(Len(writeQ') + 1 > MaxWriteQ)
    BY <1>2 DEF Full
  <2> QED BY <2>1, <2>2, <2>3 DEF RoomKept
<1> QED BY <1>9, <1>10, <1>11 DEF LaneInv

LEMMA ArrivedTyped ==
    ASSUME TypeOK
    PROVE  Arrived \in Seq(Entry(Access))
<1>1. station \in Seq(Entry(Access)) /\ latch \in Access \cup {0}  BY Types
<1>2. CASE latch = 0  BY <1>1, <1>2 DEF Arrived
<1>3. CASE latch # 0
  <2>1. PICK e : e = [op |-> latch, state |-> "fresh"]  OBVIOUS
  <2>2. e \in Entry(Access)  BY <1>1, <1>3, <2>1 DEF Entry, EntryState
  <2>3. Arrived = Append(station, e)  BY <1>3, <2>1 DEF Arrived
  <2> QED BY <1>1, <2>2, <2>3, AppendProperties
<1> QED BY <1>2, <1>3

LEMMA AdvancedTyped ==
    ASSUME TypeOK
    PROVE  /\ Advanced \in Seq(Entry(Access))
           /\ Sender = 0 \/ (Sender \in 1..Len(Arrived) /\ Arrived[Sender].op \in Access)
<1>1. Arrived \in Seq(Entry(Access))  BY ArrivedTyped
<1>2. FirstIn("fresh") = 0 \/ FirstIn("fresh") \in 1..Len(Arrived)  BY <1>1, FirstFound
<1>3. FirstIn("addrcalc") = 0 \/ FirstIn("addrcalc") \in 1..Len(Arrived)
  BY <1>1, FirstFound
<1>4. Sender = 0 \/ Sender \in 1..Len(Arrived)  BY <1>3 DEF Sender
<1>5. Sender # 0 => Arrived[Sender].op \in Access
  <2> SUFFICES ASSUME Sender # 0 PROVE Arrived[Sender].op \in Access  OBVIOUS
  <2>1. Arrived[Sender] \in Entry(Access)  BY <1>1, <1>4, ElementOfSeq
  <2> QED BY <2>1 DEF Entry
<1>6. PICK q : q = Marked(Arrived, FirstIn("fresh"), "addrcalc")  OBVIOUS
<1>7. q \in Seq(Entry(Access)) /\ Len(q) = Len(Arrived)
  <2>1. "addrcalc" \in EntryState  BY DEF EntryState
  <2> QED BY <1>1, <1>2, <1>6, <2>1, MarkedTyped
<1>8. PICK st \in EntryState : st = IF Sender # 0 /\ IsStore(Arrived[Sender].op)
                                    THEN "completed" ELSE "replay"
  BY DEF EntryState
<1>9. Advanced = Marked(q, Sender, st)  BY <1>6, <1>8 DEF Advanced
<1>10. Advanced \in Seq(Entry(Access))  BY <1>4, <1>7, <1>9, MarkedTyped
<1> QED BY <1>4, <1>5, <1>10

\* One request at most is added, and only while the subsystem does not stall.
LEMMA RequestedTyped ==
    ASSUME TypeOK, NEW q \in Seq(Queued(Access)), NEW store \in BOOLEAN
    PROVE  /\ Requested(q, store) \in Seq(Queued(Access))
           /\ Requested(q, store) = q
              \/ (Len(Requested(q, store)) = Len(q) + 1 /\ ~stallBit)
<1>1. CASE Sender # 0 /\ IsStore(Arrived[Sender].op) = store
  <2>1. PICK i : i = Arrived[Sender].op  OBVIOUS
  <2>2. i \in Access  BY <1>1, <2>1, AdvancedTyped
  <2>3. PICK r : r = Request(i)  OBVIOUS
  <2>4. r \in Queued(Access)
    <3>1. 0 \in 0..MaxLatency  BY LatencyBound
    <3> QED BY <2>2, <2>3, <3>1 DEF Request, Queued
  <2>5. Requested(q, store) = Append(q, r)  BY <1>1, <2>1, <2>3 DEF Requested
  <2>6. ~stallBit  BY <1>1 DEF Sender
  <2> QED BY <2>4, <2>5, <2>6, AppendProperties
<1>2. CASE ~(Sender # 0 /\ IsStore(Arrived[Sender].op) = store)
  BY <1>2 DEF Requested
<1> QED BY <1>1, <1>2

LEMMA TypesUnitStep ==
    ASSUME LaneInv, NEW ghost, UnitStep(ghost)
    PROVE  LaneInv'
<1>1. TypeOK /\ QueuesBounded /\ RoomKept  BY DEF LaneInv
<1>2. phase = "unit" /\ latch' = 0 /\ phase' = "deliver" /\ program' = program
      /\ busy' = busy /\ stallBit' = stallBit /\ memory' = memory /\ observed' = observed
  BY DEF UnitStep
<1>3. Access' = Access  BY <1>2 DEF Access
<1>4. PICK start : start = [station |-> Advanced, out |-> NoAnswer,
                            readQ |-> Requested(readQ, FALSE),
                            writeQ |-> Requested(writeQ, TRUE), retired |-> retired]
  OBVIOUS
<1>5. readQ \in Seq(Queued(Access)) /\ writeQ \in Seq(Queued(Access))
      /\ retired \in SUBSET Access
  BY <1>1, Types
<1>6. start \in Swept(Access)
  <2>1. Advanced \in Seq(Entry(Access))  BY <1>1, AdvancedTyped
  <2>2. NoAnswer \in Answer(Access)  BY DEF NoAnswer, Answer
  <2>3. Requested(readQ, FALSE) \in Seq(Queued(Access))
        /\ Requested(writeQ, TRUE) \in Seq(Queued(Access))
    BY <1>1, <1>5, RequestedTyped
  <2> QED BY <1>4, <1>5, <2>1, <2>2, <2>3 DEF Swept
<1>7. PICK swept : swept = Sweep(start, ghost)  OBVIOUS
<1>8. swept \in Swept(Access) /\ swept.writeQ = start.writeQ
      /\ Len(swept.readQ) <= Len(start.readQ)
  BY <1>6, <1>7, SweepTyped
<1>9. station' = swept.station /\ out' = swept.out /\ readQ' = swept.readQ
      /\ writeQ' = swept.writeQ /\ retired' = swept.retired
  BY <1>4, <1>7 DEF UnitStep
<1>10. TypeOK'
  <2>1. /\ station' \in Seq(Entry(Access)) /\ out' \in Answer(Access)
        /\ readQ' \in Seq(Queued(Access)) /\ writeQ' \in Seq(Queued(Access))
        /\ retired' \in SUBSET Access
    BY <1>8, <1>9 DEF Swept
  <2>2. /\ program' \in Seq(Command) /\ busy' \in BOOLEAN /\ stallBit' \in BOOLEAN
        /\ memory' \in [Addresses -> Access \cup {0}] /\ observed' \in Seq(Access \cup {0})
    BY <1>1, <1>2, Types
  <2>3. phase' \in Phase /\ latch' \in Access \cup {0}  BY <1>2 DEF Phase
  <2> QED BY <1>3, <2>1, <2>2, <2>3
          DEF TypeOK, Command, Entry, Queued, Answer, QueueEntry
<1>11. QueuesBounded'
  <2>1. PICK rq, wq : rq = Requested(readQ, FALSE) /\ wq = Requested(writeQ, TRUE)
    OBVIOUS
  <2>2. /\ rq \in Seq(Queued(Access)) /\ wq \in Seq(Queued(Access))
        /\ rq = readQ \/ (Len(rq) = Len(readQ) + 1 /\ ~stallBit)
        /\ wq = writeQ \/ (Len(wq) = Len(writeQ) + 1 /\ ~stallBit)
    BY <1>1, <1>5, <2>1, RequestedTyped
  <2>3. start.readQ = rq /\ start.writeQ = wq  BY <1>4, <2>1
  <2>4. Len(rq) <= MaxReadQ /\ Len(wq) <= MaxWriteQ
    BY <1>1, <1>2, <2>2 DEF QueuesBounded, RoomKept
  <2>5. Len(readQ') <= Len(rq) /\ Len(writeQ') = Len(wq)  BY <1>8, <1>9, <2>3
  <2>6. Len(readQ') \in Nat /\ Len(rq) \in Nat
    BY <1>8, <1>9, <2>2, LenProperties DEF Swept
  <2>7. MaxReadQ \in Nat  BY LoadStoreAssumption
  <2> QED BY <2>4, <2>5, <2>6, <2>7 DEF QueuesBounded
<1>12. RoomKept'  BY <1>2 DEF RoomKept
<1> QED BY <1>10, <1>11, <1>12 DEF LaneInv

\* Enter makes one more access; what is in the lane stays an access.
LEMMA TypesEnter ==
    ASSUME LaneInv, NEW kind \in {"load", "store"}, NEW addr \in Addresses,
           Enter(kind, addr)
    PROVE  LaneInv'
<1>1. TypeOK /\ QueuesBounded  BY DEF LaneInv
<1>2. PICK c : c = [kind |-> kind, addr |-> addr]  OBVIOUS
<1>3. program' = Append(program, c) /\ latch' = Len(program') /\ phase' = "preprocess"
      /\ busy' = busy /\ station' = station /\ out' = out /\ retired' = retired
      /\ stallBit' = stallBit /\ readQ' = readQ /\ writeQ' = writeQ /\ memory' = memory
      /\ observed' = observed
  BY <1>2 DEF Enter, queues
<1>4. c \in Command  BY <1>2 DEF Command
<1>5. program \in Seq(Command)  BY <1>1, Types
<1>6. program' \in Seq(Command) /\ Len(program') = Len(program) + 1
  BY <1>3, <1>4, <1>5, AppendProperties
<1>7. PICK A, B : A = Access /\ B = Access'  OBVIOUS
<1>8. PICK n \in Nat : n = Len(program)  BY <1>5, LenProperties
<1>9. A = 1..n /\ B = 1..(n + 1) /\ Len(program') = n + 1
  BY <1>6, <1>7, <1>8 DEF Access
<1>10. A \subseteq B /\ n + 1 \in B  BY <1>9
<1>11. /\ station \in Seq(Entry(A)) /\ readQ \in Seq(Queued(A)) /\ writeQ \in Seq(Queued(A))
       /\ memory \in [Addresses -> A \cup {0}] /\ out \in Answer(A)
       /\ observed \in Seq(A \cup {0}) /\ retired \in SUBSET A
       /\ busy \in BOOLEAN /\ stallBit \in BOOLEAN
  BY <1>1, <1>7, Types
<1>12. /\ Entry(A) \subseteq Entry(B) /\ Queued(A) \subseteq Queued(B)
       /\ Answer(A) \subseteq Answer(B) /\ A \cup {0} \subseteq B \cup {0}
  BY <1>10 DEF Entry, Queued, Answer
<1>13. station \in Seq(Entry(B))  BY <1>11, <1>12, Wider
<1>14. readQ \in Seq(Queued(B)) /\ writeQ \in Seq(Queued(B))  BY <1>11, <1>12, Wider
<1>15. PICK V, W : V = A \cup {0} /\ W = B \cup {0}  OBVIOUS
<1>16. observed \in Seq(W) /\ memory \in [Addresses -> W]
  <2>1. V \subseteq W /\ observed \in Seq(V)  BY <1>11, <1>12, <1>15
  <2> QED BY <1>11, <1>12, <1>15, <2>1, Wider
<1>17. out \in Answer(B) /\ retired \in SUBSET B  BY <1>10, <1>11, <1>12
<1>18. latch' \in B \cup {0} /\ phase' \in Phase  BY <1>3, <1>9, <1>10 DEF Phase
<1>19. TypeOK'
  <2>1. /\ station' \in Seq(Entry(Access')) /\ readQ' \in Seq(Queued(Access'))
        /\ writeQ' \in Seq(Queued(Access')) /\ observed' \in Seq(Access' \cup {0})
        /\ memory' \in [Addresses -> Access' \cup {0}] /\ out' \in Answer(Access')
        /\ retired' \in SUBSET Access' /\ latch' \in Access' \cup {0}
    BY <1>3, <1>7, <1>13, <1>14, <1>15, <1>16, <1>17, <1>18
  <2>2. busy' \in BOOLEAN /\ stallBit' \in BOOLEAN  BY <1>3, <1>11
  <2> QED BY <1>6, <1>18, <2>1, <2>2
          DEF TypeOK, Command, Entry, Queued, Answer, QueueEntry
<1>20. QueuesBounded' /\ RoomKept'  BY <1>1, <1>3 DEF QueuesBounded, RoomKept
<1> QED BY <1>19, <1>20 DEF LaneInv

LEMMA TypesQuiet ==
    ASSUME LaneInv, Preprocess \/ Bubble \/ UNCHANGED vars
    PROVE  LaneInv'
<1>1. TypeOK /\ QueuesBounded /\ RoomKept  BY DEF LaneInv
<1>2. /\ program' = program /\ latch' = latch /\ station' = station /\ out' = out
      /\ retired' = retired /\ stallBit' = stallBit /\ readQ' = readQ
      /\ writeQ' = writeQ /\ memory' = memory /\ observed' = observed
  BY DEF Preprocess, Bubble, vars, queues
<1>3. phase' \in Phase /\ busy' \in BOOLEAN
  <2>1. CASE Preprocess  BY <2>1 DEF Preprocess, Phase
  <2>2. CASE Bubble  BY <1>1, <2>2 DEF Bubble, Phase, TypeOK
  <2>3. CASE UNCHANGED vars  BY <1>1, <2>3 DEF vars, TypeOK
  <2> QED BY <2>1, <2>2, <2>3
<1>4. Access' = Access  BY <1>2 DEF Access
<1>5. TypeOK'
  <2> HIDE DEF Phase
  <2>1. QueueEntry' = QueueEntry  BY <1>4 DEF QueueEntry
  <2> QED BY <1>1, <1>2, <1>3, <1>4, <2>1 DEF TypeOK
<1>6. QueuesBounded'  BY <1>1, <1>2 DEF QueuesBounded
<1>7. RoomKept'
  <2>1. phase' = "unit" => phase = "unit" /\ stallBit' = stallBit
    BY DEF Preprocess, Bubble, vars, queues
  <2> QED BY <1>1, <1>2, <2>1 DEF RoomKept
<1> QED BY <1>5, <1>6, <1>7 DEF LaneInv

LEMMA TypesStep == LaneInv /\ [Next]_vars => LaneInv'
<1> SUFFICES ASSUME LaneInv, [Next]_vars PROVE LaneInv'  OBVIOUS
<1>1. CASE Preprocess \/ Bubble \/ UNCHANGED vars  BY <1>1, TypesQuiet
<1>2. CASE \E l, m \in Latencies : MemoryStep(l, m)  BY <1>2, TypesMemoryStep
<1>3. CASE \E ghost \in BOOLEAN : UnitStep(ghost)  BY <1>3, TypesUnitStep
<1>4. CASE \E kind \in {"load", "store"}, addr \in Addresses : Enter(kind, addr)
  BY <1>4, TypesEnter
<1> QED BY <1>1, <1>2, <1>3, <1>4 DEF Next

-----------------------------------------------------------------------------
\* For every latency, station and queue size, and whatever stale slots the
\* second loop reads, the variables of LoadStoreUnit and MemorySubsystem keep
\* their types, and no latency in a queue passes zero.
THEOREM LaneTypeCorrect == Spec => []TypeOK
<1>1. LaneInv => TypeOK  BY DEF LaneInv
<1> QED BY <1>1, TypesInit, TypesStep, PTL DEF Spec

\* MemorySubsystem::doStep computes _stallBit with the room of one request and
\* LoadStoreUnit::doStep sends at most one before it is computed again: the
\* vectors ReadQueue and WriteQueue never outgrow their limits.
THEOREM QueuesStayBounded == Spec => []QueuesBounded
<1>1. LaneInv => QueuesBounded  BY DEF LaneInv
<1> QED BY <1>1, TypesInit, TypesStep, PTL DEF Spec

-----------------------------------------------------------------------------
(***************************************************************************)
(* The station of one entry, as acesMIPSbuildSystem.cpp builds it.  There  *)
(* are never more than two accesses in the lane, and what is below relates *)
(* the station, the two queues and the number of accesses performed; s is  *)
(* the lane as the sweep of the unit rewrites it.                          *)
(***************************************************************************)
OneEntry == ResStationSize = 1

Performed == Len(observed)

Waiting(r) == r.state = "waiting"

\* The requests of a queue are of entries in the given state, oldest first;
\* the one that waits is the next to be performed.
QueueInOrder(s, q, state, n) ==
    /\ \A j, k \in 1..Len(q) : j < k => q[j].op < q[k].op
    /\ \A k \in 1..Len(q) :
         /\ Waiting(q[k]) => q[k].op = n + 1
         /\ ~Waiting(q[k]) => q[k].op <= n
         /\ k # 1 => Waiting(q[k])
         /\ \E j \in 1..Len(s.station) :
              s.station[j].op = q[k].op /\ s.station[j].state = state

Requesting(q, i) == \E k \in 1..Len(q) : q[k].op = i

EntryInOrder(s, e, n) ==
    /\ e.state # "fresh" /\ e.op \notin s.retired
    /\ e.state = "addrcalc" => e.op > n
    /\ e.state # "addrcalc" => e.op <= n + 1
    /\ e.state = "replay" => ~IsStore(e.op) /\ Requesting(s.readQ, e.op)
    /\ e.state = "completed" =>
         IsStore(e.op) /\ (e.op > n => Requesting(s.writeQ, e.op))

Increasing(entries) ==
    \A j, k \in 1..Len(entries) : j < k => entries[j].op < entries[k].op

StationInOrder(s, n) ==
    /\ Increasing(s.station)
    /\ \A k \in 1..Len(s.station) : EntryInOrder(s, s.station[k], n)
    /\ QueueInOrder(s, s.readQ, "replay", n)
    /\ QueueInOrder(s, s.writeQ, "completed", n)
    /\ \A k \in 1..Len(s.writeQ) : s.writeQ[k].value = s.writeQ[k].op

\* What has not been performed is in the station or, l, on its way to it.
Pending(s, l, n) ==
    \A i \in (n + 1)..Len(program) :
        i = l \/ \E k \in 1..Len(s.station) : s.station[k].op = i

Lane == [station |-> station, out |-> out, readQ |-> readQ, writeQ |-> writeQ,
         retired |-> retired]

LatchInOrder ==
    latch # 0 => /\ latch = Len(program) /\ latch > Performed /\ latch \notin retired
                 /\ \A k \in 1..Len(station) : station[k].op < latch

\* The busy bit reserves room for one access, and it acts a cycle late.
StationRoom ==
    /\ Len(station) <= 2 /\ (latch # 0 => Len(station) <= 1)
    /\ phase \in {"memory", "unit"} /\ ~busy => station = <<>>
    /\ phase = "deliver" => latch = 0 /\ (~busy => Len(station) <= 1)

\* Before the second access asks, the first has been performed.
FirstPerformed ==
    phase = "unit" /\ station # <<>> /\ station[1].state # "addrcalc"
    => station[1].op <= Performed

MemoryUpToDate ==
    \A a \in Addresses :
        /\ memory[a] # 0 => /\ IsStore(memory[a]) /\ Addr(memory[a]) = a
                            /\ memory[a] <= Performed
        /\ \A i \in 1..Performed : IsStore(i) /\ Addr(i) = a => i <= memory[a]

OrderInv ==
    /\ LaneInv
    /\ Performed <= Len(program)
    /\ StationInOrder(Lane, Performed) /\ Pending(Lane, latch, Performed)
    /\ LatchInOrder /\ StationRoom /\ FirstPerformed /\ MemoryUpToDate

LEMMA PerformedTyped ==
    ASSUME TypeOK
    PROVE  /\ Performed \in Nat /\ Len(program) \in Nat
           /\ Lane \in Swept(Access)
           /\ program \in Seq(Command)
<1>1. observed \in Seq(Access \cup {0}) /\ program \in Seq(Command)
      /\ station \in Seq(Entry(Access)) /\ readQ \in Seq(Queued(Access))
      /\ writeQ \in Seq(Queued(Access)) /\ out \in Answer(Access)
      /\ retired \in SUBSET Access
  BY Types
<1>2. PICK V : V = Access \cup {0}  OBVIOUS
<1>3. observed \in Seq(V)  BY <1>1, <1>2
<1>4. Performed \in Nat /\ Len(program) \in Nat
  BY <1>1, <1>3, LenProperties DEF Performed
<1> QED BY <1>1, <1>4 DEF Lane, Swept

LEMMA OrderInit == Init => OrderInv
<1> SUFFICES ASSUME Init PROVE OrderInv  OBVIOUS
<1>1. Len(<<>>) = 0 /\ 1..0 = {}
  BY EmptySeq
<1>2. LaneInv  BY TypesInit
<1>3. /\ Performed = 0 /\ Len(program) = 0 /\ station = <<>> /\ latch = 0
      /\ phase = "preprocess" /\ Lane.station = <<>> /\ Lane.readQ = <<>>
      /\ Lane.writeQ = <<>>
  BY <1>1 DEF Init, Performed, Lane
<1>4. StationInOrder(Lane, Performed) /\ Pending(Lane, latch, Performed)
  BY <1>1, <1>3 DEF StationInOrder, Pending, Increasing, QueueInOrder
<1>5. LatchInOrder /\ StationRoom /\ FirstPerformed
  BY <1>1, <1>3 DEF LatchInOrder, StationRoom, FirstPerformed
<1>6. MemoryUpToDate  BY <1>3 DEF MemoryUpToDate, Init
<1> QED BY <1>2, <1>3, <1>4, <1>5, <1>6 DEF OrderInv

LEMMA OrderQuiet ==
    ASSUME OneEntry, OrderInv, Preprocess \/ Bubble \/ UNCHANGED vars
    PROVE  OrderInv'
<1>1. LaneInv'  BY TypesStep DEF OrderInv, Next
<1>2. /\ program' = program /\ latch' = latch /\ station' = station /\ out' = out
      /\ retired' = retired /\ readQ' = readQ /\ writeQ' = writeQ
      /\ memory' = memory /\ observed' = observed
  BY DEF Preprocess, Bubble, vars, queues
<1>3. Lane' = Lane /\ Performed' = Performed  BY <1>2 DEF Lane, Performed
<1>4. StationInOrder(Lane, Performed)' /\ Pending(Lane, latch, Performed)'
  BY <1>2, <1>3 DEF OrderInv, StationInOrder, Pending, QueueInOrder, EntryInOrder, IsStore
<1>5. LatchInOrder'  BY <1>2, <1>3 DEF OrderInv, LatchInOrder
<1>6. MemoryUpToDate'
  BY <1>2, <1>3 DEF OrderInv, MemoryUpToDate, IsStore, Addr
<1>7. StationRoom' /\ FirstPerformed'
  <2>1. StationRoom /\ FirstPerformed /\ TypeOK  BY DEF OrderInv, LaneInv
  <2>2. station \in Seq(Entry(Access)) /\ phase \in Phase  BY <2>1, Types
  <2>3. Len(station) \in Nat /\ (Len(station) = 0 => station = <<>>)
    BY <2>2, EmptySeq, LenProperties
  <2>4. CASE Preprocess
    <3>1. phase' = "memory" /\ busy' = (1 < Len(station) + 1)
      BY <2>4 DEF Preprocess, OneEntry
    <3>2. PICK k \in Nat : k = Len(station)  BY <2>3
    <3>3. ~(1 < k + 1) => k = 0  BY <3>2
    <3>4. ~busy' => station = <<>>  BY <2>3, <3>1, <3>2, <3>3
    <3> QED BY <1>2, <2>1, <3>1, <3>4 DEF StationRoom, FirstPerformed
  <2>5. CASE Bubble
    BY <1>2, <2>1, <2>5 DEF Bubble, StationRoom, FirstPerformed
  <2>6. CASE UNCHANGED vars
    BY <1>2, <1>3, <2>1, <2>6 DEF vars, StationRoom, FirstPerformed
  <2> QED BY <2>4, <2>5, <2>6
<1>8. (Performed <= Len(program))'  BY <1>2, <1>3 DEF OrderInv
<1> QED BY <1>1, <1>4, <1>5, <1>6, <1>7, <1>8 DEF OrderInv

LEMMA OrderEnter ==
    ASSUME OrderInv, NEW kind \in {"load", "store"}, NEW addr \in Addresses,
           Enter(kind, addr)
    PROVE  OrderInv'
<1>1. LaneInv'  BY TypesStep DEF OrderInv, Next
<1>2. TypeOK  BY DEF OrderInv, LaneInv
<1>3. PICK c : c = [kind |-> kind, addr |-> addr]  OBVIOUS
<1>4. c \in Command  BY <1>3 DEF Command
<1>5. /\ program' = Append(program, c) /\ latch' = Len(program')
      /\ phase = "deliver" /\ ~busy /\ phase' = "preprocess"
      /\ station' = station /\ out' = out /\ retired' = retired /\ readQ' = readQ
      /\ writeQ' = writeQ /\ memory' = memory /\ observed' = observed
  BY <1>3 DEF Enter, queues
<1>6. PICK m \in Nat, n \in Nat : m = Len(program) /\ n = Performed
  BY <1>2, PerformedTyped
<1>7. /\ Len(program') = m + 1 /\ latch' = m + 1
      /\ \A i \in 1..m : program'[i] = program[i]
  <2>1. program \in Seq(Command)  BY <1>2, PerformedTyped
  <2> QED BY <1>4, <1>5, <1>6, <2>1, AppendProperties
<1>8. Lane' = Lane /\ Performed' = n  BY <1>5, <1>6 DEF Lane, Performed
<1>9. \A i \in 1..m : IsStore(i)' = IsStore(i) /\ Addr(i)' = Addr(i)
  BY <1>7 DEF IsStore, Addr
<1>10. PICK s \in Swept(Access) : s = Lane  BY <1>2, PerformedTyped
<1>11. StationInOrder(s, n) /\ Pending(s, latch, n) /\ n <= m
       /\ latch = 0 /\ Len(station) <= 1 /\ MemoryUpToDate
  BY <1>5, <1>6, <1>10 DEF OrderInv, StationRoom
<1>12. Access = 1..m  BY <1>6 DEF Access
<1>13. /\ s.station = station /\ s.retired = retired /\ s.station \in Seq(Entry(Access))
       /\ \A k \in 1..Len(station) : station[k].op \in 1..m
  <2>1. s.station = station /\ s.retired = retired /\ s.station \in Seq(Entry(Access))
    BY <1>10 DEF Lane, Swept
  <2>2. \A k \in 1..Len(station) : station[k] \in Entry(Access)
    BY <2>1, ElementOfSeq
  <2>3. \A k \in 1..Len(station) : station[k].op \in Access
    BY <2>2 DEF Entry
  <2> QED BY <1>12, <2>1, <2>3
<1>14. StationInOrder(Lane, Performed)'
  <2>1. \A k \in 1..Len(s.station) : EntryInOrder(s, s.station[k], n)'
    <3> SUFFICES ASSUME NEW k \in 1..Len(s.station)
                 PROVE  EntryInOrder(s, s.station[k], n)'
      OBVIOUS
    <3>1. PICK e : e = s.station[k]  OBVIOUS
    <3>2. EntryInOrder(s, e, n) /\ e.op \in 1..m
      BY <1>11, <1>13, <3>1 DEF StationInOrder
    <3>3. IsStore(e.op)' = IsStore(e.op)  BY <1>9, <3>2
    <3>4. EntryInOrder(s, e, n)'  BY <3>2, <3>3 DEF EntryInOrder, Requesting
    <3> QED BY <3>1, <3>4
  <2>2. Lane' = s /\ Performed' = n  BY <1>8, <1>10
  <2>3. (StationInOrder(s, n))'
    BY <1>11, <2>1 DEF StationInOrder, QueueInOrder, Increasing
  <2> QED BY <2>2, <2>3 DEF StationInOrder, QueueInOrder, EntryInOrder
<1>15. Pending(Lane, latch, Performed)'
  <2>1. \A i \in (n + 1)..(m + 1) : i = m + 1 \/ i \in (n + 1)..m
    BY <1>6
  <2>2. \A i \in (n + 1)..(m + 1) :
          i = m + 1 \/ \E k \in 1..Len(s.station) : s.station[k].op = i
    <3> SUFFICES ASSUME NEW i \in (n + 1)..(m + 1), i # m + 1
                 PROVE  \E k \in 1..Len(s.station) : s.station[k].op = i
      OBVIOUS
    <3>1. i \in (n + 1)..m /\ i # 0  BY <2>1
    <3> QED BY <1>6, <1>11, <3>1 DEF Pending
  <2> QED BY <1>7, <1>8, <1>10, <2>2 DEF Pending
<1>16. LatchInOrder'
  <2>1. retired \in SUBSET Access  BY <1>2, Types
  <2>2. m + 1 \notin retired /\ m + 1 > n /\ \A k \in 1..Len(station) : station[k].op < m + 1
    BY <1>11, <1>12, <1>13, <2>1
  <2> QED BY <1>5, <1>7, <1>8, <2>2 DEF LatchInOrder
<1>17. StationRoom' /\ FirstPerformed'
  <2>1. Len(station) <= 2 /\ Len(station) <= 1  BY <1>5 DEF OrderInv, StationRoom
  <2> QED BY <1>5, <2>1 DEF StationRoom, FirstPerformed
<1>18. MemoryUpToDate'
  <2> SUFFICES ASSUME NEW a \in Addresses
               PROVE  /\ memory[a] # 0 => /\ IsStore(memory[a])' /\ Addr(memory[a])' = a
                                          /\ memory[a] <= n
                      /\ \A i \in 1..n : IsStore(i)' /\ Addr(i)' = a => i <= memory[a]
    BY <1>5, <1>8 DEF MemoryUpToDate, IsStore, Addr
  <2>1. memory[a] \in Access \cup {0}  BY <1>2, Types
  <2>2. PICK v : v = memory[a]  OBVIOUS
  <2>3. /\ v # 0 => IsStore(v) /\ Addr(v) = a /\ v <= n
        /\ \A i \in 1..n : IsStore(i) /\ Addr(i) = a => i <= v
    BY <1>6, <1>11, <2>2 DEF MemoryUpToDate
  <2>4. v # 0 => IsStore(v)' /\ Addr(v)' = a /\ v <= n
    BY <1>9, <1>12, <2>1, <2>2, <2>3
  <2>5. \A i \in 1..n : i \in 1..m  BY <1>11
  <2>6. \A i \in 1..n : IsStore(i)' /\ Addr(i)' = a => i <= v
    BY <1>9, <2>3, <2>5
  <2>7. v # 0 => IsStore(memory[a])' /\ Addr(memory[a])' = a
    BY <1>5, <2>2, <2>4 DEF IsStore, Addr
  <2> QED BY <2>2, <2>4, <2>6, <2>7
<1>19. (Performed <= Len(program))'
  <2>1. n <= m + 1  BY <1>11
  <2> QED BY <1>7, <1>8, <2>1
<1> QED BY <1>1, <1>14, <1>15, <1>16, <1>17, <1>18, <1>19 DEF OrderInv

-----------------------------------------------------------------------------
(* The step of the memory subsystem. *)

\* What was in the head of a queue is there after the cycle, and waits no more.
LEMMA HeadMoves ==
    ASSUME NEW A, NEW r \in Queued(A), NEW l \in Latencies
    PROVE  ~Waiting(AfterCycle(r, l))
<1>1. CASE r.state = "waiting"
  <2>1. AfterCycle(r, l).state = IF l = 1 THEN "done" ELSE "stalled"
    BY <1>1 DEF AfterCycle, Queued
  <2> QED BY <2>1 DEF Waiting
<1>2. CASE r.state # "waiting" /\ r.latency > 0
  <2>1. AfterCycle(r, l).state = IF r.latency <= 1 THEN "done" ELSE r.state
    BY <1>2 DEF AfterCycle, Queued
  <2> QED BY <1>2, <2>1 DEF Waiting
<1>3. CASE r.state # "waiting" /\ ~(r.latency > 0)
  BY <1>3 DEF AfterCycle, Waiting
<1> QED BY <1>1, <1>2, <1>3

\* A request that waits is the only one if it is at the head.
LEMMA WaitsAlone ==
    ASSUME NEW A, A \subseteq Nat, NEW s \in Swept(A), NEW q \in Seq(Queued(A)), NEW state,
           NEW n \in Nat, QueueInOrder(s, q, state, n), Waits(q)
    PROVE  Len(q) = 1 /\ q[1].op = n + 1 /\ Waiting(q[1])
<1>1. Len(q) \in Nat \ {0} /\ Head(q) = q[1]  BY HeadAndTail DEF Waits
<1>2. PICK m \in Nat \ {0} : m = Len(q)  BY <1>1
<1>3. Waiting(q[1])  BY <1>1 DEF Waits, Waiting
<1>4. q[1].op = n + 1
  <2>1. 1 \in 1..m  BY <1>2
  <2> QED BY <1>2, <1>3, <2>1 DEF QueueInOrder
<1>5. ~(2 <= m)
  <2> SUFFICES ASSUME 2 <= m PROVE FALSE  OBVIOUS
  <2>1. 1 \in 1..m /\ 2 \in 1..m /\ 1 < 2 /\ 2 # 1  BY <1>2
  <2>2. q[1].op < q[2].op  BY <1>2, <2>1 DEF QueueInOrder
  <2>3. q[2].op = n + 1  BY <1>2, <2>1 DEF QueueInOrder
  <2> QED BY <1>4, <2>2, <2>3
<1>6. m = 1  BY <1>2, <1>5
<1> QED BY <1>2, <1>3, <1>4, <1>6

\* The queue after a cycle in which n2 accesses have been performed: its head
\* has moved, or has left.
LEMMA QueueMoves ==
    ASSUME NEW A, A \subseteq Nat, NEW s \in Swept(A), NEW q \in Seq(Queued(A)), NEW state,
           NEW n \in Nat, NEW n2 \in Nat, n2 = n \/ (n2 = n + 1 /\ Len(q) <= 1),
           q # <<>>, q[1].op <= n2,
           QueueInOrder(s, q, state, n),
           NEW h \in Queued(A), h.op = q[1].op, ~Waiting(h)
    PROVE  /\ QueueInOrder(s, <<h>> \o Tail(q), state, n2)
           /\ QueueInOrder(s, Tail(q), state, n2)
           /\ \A i \in A : Requesting(q, i) => Requesting(<<h>> \o Tail(q), i)
           /\ \A i \in A : Requesting(q, i) /\ i > n2 => Requesting(Tail(q), i)
           /\ \A k \in 1..Len(Tail(q)) : k + 1 \in 1..Len(q) /\ Tail(q)[k] = q[k + 1]
           /\ (<<h>> \o Tail(q))[1] = h
           /\ \A k \in 2..Len(q) : (<<h>> \o Tail(q))[k] = q[k]
<1>1. Tail(q) \in Seq(Queued(A)) /\ Len(Tail(q)) = Len(q) - 1 /\ Len(q) \in Nat \ {0}
      /\ <<h>> \o Tail(q) \in Seq(Queued(A)) /\ Len(<<h>> \o Tail(q)) = Len(q)
  BY HeadAndTail
<1>2. PICK m \in Nat \ {0} : m = Len(q)  BY <1>1
<1>3. PICK t \in Seq(Queued(A)) : t = Tail(q)  BY <1>1
<1>4. PICK u \in Seq(Queued(A)) : u = <<h>> \o Tail(q)  BY <1>1
<1>5. Len(t) = m - 1 /\ Len(u) = m  BY <1>1, <1>2, <1>3, <1>4
<1>6. \A k \in 1..(m - 1) : k + 1 \in 1..m /\ t[k] = q[k + 1]
  <2>1. Len(Tail(q)) = Len(q) - 1 /\ \A k \in 1..Len(Tail(q)) : Tail(q)[k] = q[k + 1]
    BY HeadTailProperties
  <2> QED BY <1>2, <1>3, <1>5, <2>1
<1>7. u[1] = h /\ \A k \in 2..m : u[k] = q[k]
  <2>1. <<h>> \in Seq(Queued(A)) /\ Len(<<h>>) = 1 /\ <<h>>[1] = h  OBVIOUS
  <2>2. PICK g : g = <<h>>  OBVIOUS
  <2>3. \A k \in 1..(Len(g) + Len(t)) :
          (g \o t)[k] = IF k <= Len(g) THEN g[k] ELSE t[k - Len(g)]
    BY <2>1, <2>2, ConcatProperties
  <2>4. Len(g) = 1 /\ g[1] = h /\ g \o t = u /\ 1 + (m - 1) = m
    BY <1>2, <1>3, <1>4, <2>1, <2>2
  <2>5. \A k \in 1..m : u[k] = IF k <= 1 THEN g[k] ELSE t[k - 1]
    BY <1>5, <2>3, <2>4
  <2>6. 1 \in 1..m  BY <1>2
  <2>7. \A k \in 2..m : k \in 1..m /\ ~(k <= 1) /\ k - 1 \in 1..(m - 1) /\ (k - 1) + 1 = k
    BY <1>2
  <2> QED BY <1>6, <2>4, <2>5, <2>6, <2>7
<1>8. /\ \A j, k \in 1..m : j < k => q[j].op < q[k].op
      /\ \A k \in 1..m :
           /\ Waiting(q[k]) => q[k].op = n + 1
           /\ ~Waiting(q[k]) => q[k].op <= n
           /\ k # 1 => Waiting(q[k])
           /\ \E j \in 1..Len(s.station) :
                s.station[j].op = q[k].op /\ s.station[j].state = state
  BY <1>2 DEF QueueInOrder
<1>9. \A k \in 2..m : k \in 1..m /\ k # 1 /\ Waiting(q[k]) /\ q[k].op = n2 + 1
  <2> TAKE k \in 2..m
  <2>1. k \in 1..m /\ k # 1 /\ ~(m <= 1)  BY <1>2
  <2>2. n2 = n  BY <1>2, <2>1
  <2> QED BY <1>8, <2>1, <2>2
<1>10. \A k \in 1..m : u[k].op = q[k].op
  <2> TAKE k \in 1..m
  <2>1. k = 1 \/ k \in 2..m  BY <1>2
  <2> QED BY <1>7, <2>1
<1>11. QueueInOrder(s, u, state, n2)
  <2>1. \A j, k \in 1..m : j < k => u[j].op < u[k].op  BY <1>8, <1>10
  <2>2. ASSUME NEW k \in 1..m
        PROVE  /\ Waiting(u[k]) => u[k].op = n2 + 1
               /\ ~Waiting(u[k]) => u[k].op <= n2
               /\ k # 1 => Waiting(u[k])
    <3>1. k = 1 \/ k \in 2..m  BY <1>2
    <3>2. CASE k = 1  BY <1>7, <3>2
    <3>3. CASE k \in 2..m
      <4>1. Waiting(q[k]) /\ q[k].op = n2 + 1 /\ u[k] = q[k]  BY <1>7, <1>9, <3>3
      <4> QED BY <4>1
    <3> QED BY <3>1, <3>2, <3>3
  <2> QED BY <1>5, <1>8, <1>10, <2>1, <2>2 DEF QueueInOrder
<1>12. QueueInOrder(s, t, state, n2)
  <2>1. \A k \in 1..(m - 1) : k + 1 \in 2..m  BY <1>2
  <2>2. \A j, k \in 1..(m - 1) : j < k => t[j].op < t[k].op
    <3> SUFFICES ASSUME NEW j \in 1..(m - 1), NEW k \in 1..(m - 1), j < k
                 PROVE  t[j].op < t[k].op
      OBVIOUS
    <3>1. j + 1 \in 1..m /\ k + 1 \in 1..m /\ j + 1 < k + 1  BY <1>2
    <3> QED BY <1>6, <1>8, <3>1
  <2>3. \A k \in 1..(m - 1) : Waiting(t[k]) /\ t[k].op = n2 + 1
    BY <1>6, <1>9, <2>1
  <2>4. \A k \in 1..(m - 1) : \E j \in 1..Len(s.station) :
          s.station[j].op = t[k].op /\ s.station[j].state = state
    <3> TAKE k \in 1..(m - 1)
    <3>1. t[k] = q[k + 1] /\ k + 1 \in 1..m  BY <1>6
    <3>2. \E j \in 1..Len(s.station) :
            s.station[j].op = q[k + 1].op /\ s.station[j].state = state
      BY <1>8, <3>1
    <3> QED BY <3>1, <3>2
  <2> QED BY <1>5, <2>2, <2>3, <2>4 DEF QueueInOrder
<1>13. \A i \in A : Requesting(q, i) => Requesting(u, i)
  BY <1>2, <1>5, <1>10 DEF Requesting
<1>14. \A i \in A : Requesting(q, i) /\ i > n2 => Requesting(t, i)
  <2> SUFFICES ASSUME NEW i \in A, Requesting(q, i), i > n2
               PROVE  Requesting(t, i)
    OBVIOUS
  <2>1. PICK k \in 1..m : q[k].op = i  BY <1>2 DEF Requesting
  <2>2. k # 1
    <3>1. i \in Nat  OBVIOUS
    <3> QED BY <2>1, <3>1
  <2>3. k - 1 \in 1..(m - 1) /\ (k - 1) + 1 = k  BY <1>2, <2>2
  <2>4. t[k - 1].op = i  BY <1>6, <2>1, <2>3
  <2> QED BY <1>5, <2>3, <2>4 DEF Requesting
<1> QED BY <1>2, <1>3, <1>4, <1>5, <1>6, <1>7, <1>11, <1>12, <1>13, <1>14

\* Both queues cannot hold the access to be performed: one has loads, the
\* other stores.
LEMMA OneQueueWaits ==
    ASSUME TypeOK, NEW n \in Nat, StationInOrder(Lane, n),
           NEW j \in 1..Len(readQ), NEW k \in 1..Len(writeQ)
    PROVE  readQ[j].op # writeQ[k].op
<1>1. PICK s \in Swept(Access) : s = Lane  BY PerformedTyped
<1>2. s.station = station /\ s.readQ = readQ /\ s.writeQ = writeQ  BY <1>1 DEF Lane
<1>3. PICK i \in 1..Len(station) : station[i].op = readQ[j].op /\ station[i].state = "replay"
  <2>1. QueueInOrder(s, s.readQ, "replay", n)  BY <1>1 DEF StationInOrder
  <2> QED BY <1>2, <2>1 DEF QueueInOrder
<1>4. PICK h \in 1..Len(station) :
        station[h].op = writeQ[k].op /\ station[h].state = "completed"
  <2>1. QueueInOrder(s, s.writeQ, "completed", n)  BY <1>1 DEF StationInOrder
  <2> QED BY <1>2, <2>1 DEF QueueInOrder
<1>5. EntryInOrder(s, station[i], n) /\ EntryInOrder(s, station[h], n)
  BY <1>1, <1>2 DEF StationInOrder
<1> QED BY <1>3, <1>4, <1>5 DEF EntryInOrder

LEMMA QueueTyped ==
    ASSUME TypeOK
    PROVE  /\ Access \subseteq Nat
           /\ readQ \in Seq(Queued(Access)) /\ writeQ \in Seq(Queued(Access))
           /\ station \in Seq(Entry(Access))
           /\ \A k \in 1..Len(station) : station[k].op \in Access
           /\ \A k \in 1..Len(readQ) : readQ[k].op \in Access
           /\ \A k \in 1..Len(writeQ) : writeQ[k].op \in Access
<1>1. program \in Seq(Command) /\ station \in Seq(Entry(Access))
      /\ readQ \in Seq(Queued(Access)) /\ writeQ \in Seq(Queued(Access))
  BY Types
<1>2. \A i \in Access : i \in Nat \ {0}  BY <1>1, AccessTyped
<1>3. \A k \in 1..Len(station) : station[k] \in Entry(Access)  BY <1>1, ElementOfSeq
<1>4. \A k \in 1..Len(readQ) : readQ[k] \in Queued(Access)  BY <1>1, ElementOfSeq
<1>5. \A k \in 1..Len(writeQ) : writeQ[k] \in Queued(Access)  BY <1>1, ElementOfSeq
<1> QED BY <1>1, <1>2, <1>3, <1>4, <1>5 DEF Entry, Queued

LEMMA QueuesOfLane ==
    ASSUME OrderInv
    PROVE  /\ QueueInOrder(Lane, readQ, "replay", Performed)
           /\ QueueInOrder(Lane, writeQ, "completed", Performed)
           /\ \A k \in 1..Len(writeQ) : writeQ[k].value = writeQ[k].op
           /\ Lane.station = station /\ Lane.retired = retired
           /\ Lane.readQ = readQ /\ Lane.writeQ = writeQ
           /\ Increasing(station)
           /\ \A k \in 1..Len(station) : EntryInOrder(Lane, station[k], Performed)
<1>1. Lane.station = station /\ Lane.retired = retired
      /\ Lane.readQ = readQ /\ Lane.writeQ = writeQ
  BY DEF Lane
<1> QED BY <1>1 DEF OrderInv, StationInOrder

\* At most one access is performed in a cycle.
LEMMA PerformedNext ==
    ASSUME OrderInv, NEW l \in Latencies, NEW m \in Latencies, MemoryStep(l, m)
    PROVE  /\ Performed' \in Nat
           /\ ~(Waits(readQ) /\ Waits(writeQ))
           /\ Performed' = IF Waits(readQ) \/ Waits(writeQ) THEN Performed + 1 ELSE Performed
           /\ Waits(readQ) => observed' = Append(observed, Head(readQ').value)
           /\ Waits(writeQ) => observed' = Append(observed, Head(writeQ).value)
           /\ ~Waits(readQ) /\ ~Waits(writeQ) => observed' = observed
           /\ Performed' = Performed \/ (Len(readQ) <= 1 /\ Len(writeQ) <= 1)
<1>1. TypeOK /\ TypeOK'  BY TypesStep DEF OrderInv, LaneInv, Next
<1>2. PICK n \in Nat : n = Performed  BY <1>1, PerformedTyped
<1>3. PICK s \in Swept(Access) : s = Lane  BY <1>1, PerformedTyped
<1>4. /\ readQ \in Seq(Queued(Access)) /\ writeQ \in Seq(Queued(Access)) /\ Access \subseteq Nat
      /\ QueueInOrder(s, readQ, "replay", n) /\ QueueInOrder(s, writeQ, "completed", n)
  BY <1>1, <1>2, <1>3, QueueTyped, QueuesOfLane
<1>5. \A j \in 1..Len(readQ), k \in 1..Len(writeQ) : readQ[j].op # writeQ[k].op
  BY <1>1, <1>2, OneQueueWaits DEF OrderInv
<1>6. Waits(readQ) => /\ Len(readQ) = 1 /\ readQ[1].op = n + 1
                      /\ 1 \in 1..Len(readQ)
  <2>1. Waits(readQ) => Len(readQ) = 1 /\ readQ[1].op = n + 1
    <3>1. PICK A \in SUBSET Nat : A = Access  BY <1>4
    <3> QED BY <1>3, <1>4, <3>1, WaitsAlone
  <2>2. 1 \in 1..1  OBVIOUS
  <2> QED BY <2>1, <2>2
<1>7. Waits(writeQ) => /\ Len(writeQ) = 1 /\ writeQ[1].op = n + 1
                       /\ 1 \in 1..Len(writeQ)
  <2>1. Waits(writeQ) => Len(writeQ) = 1 /\ writeQ[1].op = n + 1
    <3>1. PICK A \in SUBSET Nat : A = Access  BY <1>4
    <3> QED BY <1>3, <1>4, <3>1, WaitsAlone
  <2>2. 1 \in 1..1  OBVIOUS
  <2> QED BY <2>1, <2>2
<1>8. ~(Waits(readQ) /\ Waits(writeQ))  BY <1>5, <1>6, <1>7
<1>9. Len(readQ) \in Nat /\ Len(writeQ) \in Nat  BY <1>4, LenProperties
<1>10. Waits(readQ) \/ Waits(writeQ) => Len(readQ) <= 1 /\ Len(writeQ) <= 1
  <2>1. ASSUME ~(Len(writeQ) <= 1), Waits(readQ) PROVE FALSE
    <3>1. 2 \in 1..Len(writeQ) /\ 2 # 1  BY <1>9, <2>1
    <3>2. writeQ[2].op = n + 1  BY <1>4, <3>1 DEF QueueInOrder
    <3> QED BY <1>5, <1>6, <2>1, <3>1, <3>2
  <2>2. ASSUME ~(Len(readQ) <= 1), Waits(writeQ) PROVE FALSE
    <3>1. 2 \in 1..Len(readQ) /\ 2 # 1  BY <1>9, <2>2
    <3>2. readQ[2].op = n + 1  BY <1>4, <3>1 DEF QueueInOrder
    <3> QED BY <1>5, <1>7, <2>2, <3>1, <3>2
  <2>3. 1 <= 1  OBVIOUS
  <2> QED BY <1>6, <1>7, <2>1, <2>2, <2>3
<1>11. PICK V : V = Access \cup {0}  OBVIOUS
<1>12. observed \in Seq(V) /\ observed' \in Seq(Access' \cup {0})
  <2>1. observed \in Seq(Access \cup {0})  BY <1>1, Types
  <2>2. observed' \in Seq(Access' \cup {0})  BY <1>1 DEF TypeOK
  <2> QED BY <1>11, <2>1, <2>2
<1>13. PICK a : a = IF Waits(readQ) THEN <<Head(readQ').value>> ELSE <<>>  OBVIOUS
<1>14. PICK b : b = IF Waits(writeQ) THEN <<Head(writeQ).value>> ELSE <<>>  OBVIOUS
<1>15. observed' = observed \o a \o b  BY <1>13, <1>14 DEF MemoryStep
<1>16. /\ observed \o <<>> = observed
       /\ \A v : observed \o <<v>> = Append(observed, v)
       /\ \A v : Append(observed, v) \o <<>> = Append(observed, v)
       /\ \A v : Len(Append(observed, v)) = n + 1
  <2> SUFFICES ASSUME NEW v
               PROVE  /\ observed \o <<>> = observed
                      /\ observed \o <<v>> = Append(observed, v)
                      /\ Append(observed, v) \o <<>> = Append(observed, v)
                      /\ Len(Append(observed, v)) = n + 1
    OBVIOUS
  <2>1. PICK W : W = V \cup {v}  OBVIOUS
  <2>2. observed \in Seq(W) /\ v \in W
    <3>1. V \subseteq W /\ v \in W  BY <2>1
    <3> QED BY <1>12, <3>1, Wider
  <2>3. /\ Append(observed, v) \in Seq(W) /\ Len(Append(observed, v)) = Len(observed) + 1
    BY <2>2, AppendProperties
  <2>4. observed \o <<>> = observed /\ Append(observed, v) \o <<>> = Append(observed, v)
    BY <2>2, <2>3, ConcatEmptySeq
  <2>5. Append(observed, v) = observed \o <<v>>  BY <2>2, AppendIsConcat
  <2> QED BY <1>2, <2>3, <2>4, <2>5 DEF Performed
<1>17. Waits(readQ) => observed' = Append(observed, Head(readQ').value)
  BY <1>8, <1>13, <1>14, <1>15, <1>16
<1>18. Waits(writeQ) => observed' = Append(observed, Head(writeQ).value)
  BY <1>8, <1>13, <1>14, <1>15, <1>16
<1>19. ~Waits(readQ) /\ ~Waits(writeQ) => observed' = observed
  BY <1>13, <1>14, <1>15, <1>16
<1>20. Performed' = IF Waits(readQ) \/ Waits(writeQ) THEN n + 1 ELSE n
  BY <1>2, <1>16, <1>17, <1>18, <1>19 DEF Performed
<1>21. Performed' \in Nat  BY <1>20
<1> QED BY <1>2, <1>8, <1>10, <1>17, <1>18, <1>19, <1>20, <1>21

\* The queues after the cycle still agree with the station.
LEMMA QueuesMove ==
    ASSUME OrderInv, NEW l \in Latencies, NEW m \in Latencies, MemoryStep(l, m)
    PROVE  /\ QueueInOrder(Lane, readQ', "replay", Performed')
           /\ QueueInOrder(Lane, writeQ', "completed", Performed')
           /\ \A i \in Access : Requesting(readQ, i) => Requesting(readQ', i)
           /\ \A i \in Access :
                Requesting(writeQ, i) /\ i > Performed' => Requesting(writeQ', i)
           /\ \A k \in 1..Len(writeQ') : writeQ'[k].value = writeQ'[k].op
<1>1. TypeOK  BY DEF OrderInv, LaneInv
<1>2. PICK n \in Nat, n2 \in Nat : n = Performed /\ n2 = Performed'
  BY <1>1, PerformedTyped, PerformedNext
<1>3. PICK s \in Swept(Access) : s = Lane  BY <1>1, PerformedTyped
<1>4. PICK A \in SUBSET Nat : A = Access  BY <1>1, QueueTyped
<1>5. PICK rq \in Seq(Queued(A)), wq \in Seq(Queued(A)) : rq = readQ /\ wq = writeQ
  BY <1>1, <1>4, QueueTyped
<1>6. /\ QueueInOrder(s, rq, "replay", n) /\ QueueInOrder(s, wq, "completed", n)
      /\ \A k \in 1..Len(wq) : wq[k].value = wq[k].op
      /\ s \in Swept(A)
  BY <1>2, <1>3, <1>4, <1>5, QueuesOfLane
<1>7. /\ n2 = IF Waits(rq) \/ Waits(wq) THEN n + 1 ELSE n
      /\ n2 = n \/ (n2 = n + 1 /\ Len(rq) <= 1 /\ Len(wq) <= 1)
  <2>1. /\ Performed' = IF Waits(readQ) \/ Waits(writeQ) THEN Performed + 1 ELSE Performed
        /\ Performed' = Performed \/ (Len(readQ) <= 1 /\ Len(writeQ) <= 1)
    BY PerformedNext
  <2>2. n2 = IF Waits(rq) \/ Waits(wq) THEN n + 1 ELSE n  BY <1>2, <1>5, <2>1
  <2> QED BY <1>2, <1>5, <2>1, <2>2
<1>8. readQ' = ReadQueueAfter(l) /\ writeQ' = WriteQueueAfter(m)  BY DEF MemoryStep
\* A head is at most the last access performed.
<1>9. ASSUME NEW q \in {rq, wq}, q # <<>>,
             \E state : QueueInOrder(s, q, state, n)
      PROVE  /\ q[1].op <= n2 /\ Head(q) = q[1] /\ Head(q) \in Queued(A)
             /\ 1 \in 1..Len(q)
  <2>1. Len(q) \in Nat \ {0} /\ Head(q) = q[1] /\ Head(q) \in Queued(A)
    BY <1>9, HeadAndTail
  <2>2. PICK k \in Nat \ {0} : k = Len(q)  BY <2>1
  <2>3. 1 \in 1..k  BY <2>2
  <2>4. PICK state : QueueInOrder(s, q, state, n)  BY <1>9
  <2>5. /\ Waiting(q[1]) => q[1].op = n + 1
        /\ ~Waiting(q[1]) => q[1].op <= n
    BY <2>2, <2>3, <2>4 DEF QueueInOrder
  <2>6. PICK i \in Nat : i = q[1].op
    <3>1. Head(q).op \in A  BY <2>1 DEF Queued
    <3> QED BY <2>1, <3>1
  <2>7. Waiting(q[1]) => Waits(q)  BY <1>9, <2>1 DEF Waits, Waiting
  <2>8. i <= n2
    <3>1. CASE Waiting(q[1])
      <4>1. n2 = n + 1  BY <1>7, <2>7, <3>1
      <4> QED BY <2>5, <2>6, <3>1, <4>1
    <3>2. CASE ~Waiting(q[1])
      <4>1. i <= n  BY <2>5, <2>6, <3>2
      <4> QED BY <1>7, <4>1
    <3> QED BY <3>1, <3>2
  <2> QED BY <2>1, <2>2, <2>3, <2>6, <2>8
<1>10. /\ QueueInOrder(s, readQ', "replay", n2)
       /\ \A i \in A : Requesting(rq, i) => Requesting(readQ', i)
  <2>1. CASE rq = <<>>
    <3>1. readQ' = rq  BY <1>5, <1>8, <2>1 DEF ReadQueueAfter
    <3>2. QueueInOrder(s, rq, "replay", n2)
      <4>1. Len(rq) = 0 /\ 1..0 = {}  BY <2>1, EmptySeq
      <4> QED BY <4>1 DEF QueueInOrder
    <3> QED BY <3>1, <3>2
  <2>2. CASE rq # <<>>
    <3>1. rq[1].op <= n2 /\ Head(rq) = rq[1] /\ Head(rq) \in Queued(A)
      BY <1>6, <1>9, <2>2
    <3>2. PICK h : h = Head(rq)  OBVIOUS
    <3>3. h \in Queued(A) /\ h = rq[1]  BY <3>1, <3>2
    <3>4. PICK r : r = IF Waits(rq) THEN [h EXCEPT !.value = memory[Addr(h.op)]] ELSE h
      OBVIOUS
    <3>5. r \in Queued(A) /\ r.op = h.op
      <4>1. h.op \in Access  BY <1>4, <3>3 DEF Queued
      <4>2. memory \in [Addresses -> Access \cup {0}] /\ program \in Seq(Command)
        BY <1>1, Types
      <4>3. memory[Addr(h.op)] \in A \cup {0}  BY <1>4, <4>1, <4>2, AccessTyped
      <4> QED BY <3>3, <3>4, <4>3 DEF Queued
    <3>6. PICK c : c = AfterCycle(r, l)  OBVIOUS
    <3>7. c \in Queued(A) /\ c.op = r.op /\ ~Waiting(c)
      BY <3>5, <3>6, CycleTyped, HeadMoves
    <3>8. readQ' = <<c>> \o Tail(rq)
      BY <1>5, <1>8, <2>2, <3>2, <3>4, <3>6 DEF ReadQueueAfter
    <3>9. c.op = rq[1].op  BY <3>3, <3>5, <3>7
    <3>10. n2 = n \/ (n2 = n + 1 /\ Len(rq) <= 1)  BY <1>7
    <3> QED BY <1>6, <2>2, <3>1, <3>7, <3>8, <3>9, <3>10, QueueMoves
  <2> QED BY <2>1, <2>2
<1>11. /\ QueueInOrder(s, writeQ', "completed", n2)
       /\ \A i \in A : Requesting(wq, i) /\ i > n2 => Requesting(writeQ', i)
       /\ \A k \in 1..Len(writeQ') : writeQ'[k].value = writeQ'[k].op
  <2>1. CASE wq = <<>>
    <3>1. writeQ' = wq  BY <1>5, <1>8, <2>1 DEF WriteQueueAfter
    <3>2. Len(wq) = 0 /\ 1..0 = {}  BY <2>1, EmptySeq
    <3>3. QueueInOrder(s, wq, "completed", n2)  BY <3>2 DEF QueueInOrder
    <3> QED BY <3>1, <3>2, <3>3
  <2>2. CASE wq # <<>>
    <3>1. wq[1].op <= n2 /\ Head(wq) = wq[1] /\ Head(wq) \in Queued(A) /\ 1 \in 1..Len(wq)
      BY <1>6, <1>9, <2>2
    <3>2. PICK h : h = Head(wq)  OBVIOUS
    <3>3. h \in Queued(A) /\ h = wq[1]  BY <3>1, <3>2
    <3>4. PICK c : c = AfterCycle(h, m)  OBVIOUS
    <3>5. c \in Queued(A) /\ c.op = h.op /\ c.value = h.value /\ ~Waiting(c)
      BY <3>3, <3>4, CycleTyped, HeadMoves
    <3>6. writeQ' = IF c.state = "done" THEN Tail(wq) ELSE <<c>> \o Tail(wq)
      BY <1>5, <1>8, <2>2, <3>2, <3>4 DEF WriteQueueAfter
    <3>7. c.op = wq[1].op  BY <3>3, <3>5
    <3>8. n2 = n \/ (n2 = n + 1 /\ Len(wq) <= 1)  BY <1>7
    <3>9. PICK t, u : t = Tail(wq) /\ u = <<c>> \o Tail(wq)  OBVIOUS
    <3>10. /\ QueueInOrder(s, u, "completed", n2) /\ QueueInOrder(s, t, "completed", n2)
           /\ \A i \in A : Requesting(wq, i) => Requesting(u, i)
           /\ \A i \in A : Requesting(wq, i) /\ i > n2 => Requesting(t, i)
           /\ \A k \in 1..Len(t) : k + 1 \in 1..Len(wq) /\ t[k] = wq[k + 1]
           /\ u[1] = c /\ \A k \in 2..Len(wq) : u[k] = wq[k]
      <4>1. QueueInOrder(s, wq, "completed", n) /\ wq # <<>> /\ wq[1].op <= n2
            /\ c \in Queued(A) /\ c.op = wq[1].op /\ ~Waiting(c) /\ s \in Swept(A)
        BY <1>6, <2>2, <3>1, <3>5, <3>7
      <4>2. /\ QueueInOrder(s, <<c>> \o Tail(wq), "completed", n2)
            /\ QueueInOrder(s, Tail(wq), "completed", n2)
        BY <3>8, <4>1, QueueMoves
      <4>3. /\ \A i \in A : Requesting(wq, i) => Requesting(<<c>> \o Tail(wq), i)
            /\ \A i \in A : Requesting(wq, i) /\ i > n2 => Requesting(Tail(wq), i)
        BY <3>8, <4>1, QueueMoves
      <4>4. /\ \A k \in 1..Len(Tail(wq)) : k + 1 \in 1..Len(wq) /\ Tail(wq)[k] = wq[k + 1]
            /\ (<<c>> \o Tail(wq))[1] = c
            /\ \A k \in 2..Len(wq) : (<<c>> \o Tail(wq))[k] = wq[k]
        BY <3>8, <4>1, QueueMoves
      <4> QED BY <3>9, <4>2, <4>3, <4>4
    <3>11. Len(u) = Len(wq) /\ Len(wq) \in Nat \ {0}
      BY <2>2, <3>5, <3>9, HeadAndTail
    <3>12. \A k \in 1..Len(t) : t[k].value = t[k].op
      <4> TAKE k \in 1..Len(t)
      <4>1. t[k] = wq[k + 1] /\ k + 1 \in 1..Len(wq)  BY <3>10
      <4>2. wq[k + 1].value = wq[k + 1].op  BY <1>6, <4>1
      <4> QED BY <4>1, <4>2
    <3>13. \A k \in 1..Len(u) : u[k].value = u[k].op
      <4> TAKE k \in 1..Len(u)
      <4>1. k = 1 \/ k \in 2..Len(wq)
        <5>1. PICK x \in Nat \ {0} : x = Len(wq)  BY <3>11
        <5> QED BY <3>11, <5>1
      <4>2. CASE k = 1
        <5>1. wq[1].value = wq[1].op  BY <1>6, <3>1
        <5> QED BY <3>3, <3>5, <3>10, <4>2, <5>1
      <4>3. CASE k \in 2..Len(wq)
        <5>1. u[k] = wq[k] /\ k \in 1..Len(wq)  BY <3>10, <3>11, <4>3
        <5>2. wq[k].value = wq[k].op  BY <1>6, <5>1
        <5> QED BY <5>1, <5>2
      <4> QED BY <4>1, <4>2, <4>3
    <3> QED BY <3>6, <3>9, <3>10, <3>12, <3>13
  <2> QED BY <2>1, <2>2
<1> QED BY <1>2, <1>3, <1>4, <1>5, <1>10, <1>11

LEMMA OrderMemoryStep ==
    ASSUME OrderInv, NEW l \in Latencies, NEW m \in Latencies, MemoryStep(l, m)
    PROVE  OrderInv'
<1>1. LaneInv' /\ TypeOK  BY TypesStep DEF OrderInv, LaneInv, Next
<1>2. PICK n \in Nat, n2 \in Nat, p \in Nat :
        n = Performed /\ n2 = Performed' /\ p = Len(program)
  BY <1>1, PerformedTyped, PerformedNext
<1>3. PICK A \in SUBSET Nat : A = Access  BY <1>1, QueueTyped
<1>4. /\ program' = program /\ latch' = latch /\ busy' = busy /\ station' = station
      /\ out' = out /\ retired' = retired /\ phase = "memory" /\ phase' = "unit"
      /\ memory' = MemoryAfter
  BY DEF MemoryStep
<1>5. /\ n2 = IF Waits(readQ) \/ Waits(writeQ) THEN n + 1 ELSE n
      /\ (n2 = n \/ n2 = n + 1) /\ n <= n2
  BY <1>2, PerformedNext
<1>6. /\ QueueInOrder(Lane, readQ, "replay", n)
      /\ QueueInOrder(Lane, writeQ, "completed", n)
      /\ \A k \in 1..Len(writeQ) : writeQ[k].value = writeQ[k].op
      /\ Lane.station = station /\ Lane.retired = retired
      /\ Lane.readQ = readQ /\ Lane.writeQ = writeQ
      /\ Increasing(station)
      /\ \A k \in 1..Len(station) : EntryInOrder(Lane, station[k], n)
  BY <1>2, QueuesOfLane
<1>7. /\ readQ \in Seq(Queued(A)) /\ writeQ \in Seq(Queued(A)) /\ station \in Seq(Entry(A))
      /\ \A k \in 1..Len(station) : station[k].op \in A
      /\ \A k \in 1..Len(readQ) : readQ[k].op \in A
      /\ \A k \in 1..Len(writeQ) : writeQ[k].op \in A
      /\ Lane \in Swept(A)
  BY <1>1, <1>3, QueueTyped, PerformedTyped
<1>w. /\ Waits(readQ) => Len(readQ) = 1 /\ readQ[1].op = n + 1
      /\ Waits(writeQ) => Len(writeQ) = 1 /\ writeQ[1].op = n + 1
  <2>1. PICK s \in Swept(A) : s = Lane  BY <1>7
  <2>2. Waits(readQ) => Len(readQ) = 1 /\ readQ[1].op = n + 1
    <3>1. readQ \in Seq(Queued(A)) /\ QueueInOrder(s, readQ, "replay", n)
      BY <1>6, <1>7, <2>1
    <3> QED BY <3>1, WaitsAlone
  <2>3. Waits(writeQ) => Len(writeQ) = 1 /\ writeQ[1].op = n + 1
    <3>1. writeQ \in Seq(Queued(A)) /\ QueueInOrder(s, writeQ, "completed", n)
      BY <1>6, <1>7, <2>1
    <3> QED BY <3>1, WaitsAlone
  <2> QED BY <2>2, <2>3
\* The access performed is one of the station whose request was made.
<1>8. n2 # n => \E j \in 1..Len(station) :
                  station[j].op = n2 /\ station[j].state # "addrcalc"
  <2>1. CASE Waits(readQ)
    <3>1. Len(readQ) = 1 /\ readQ[1].op = n + 1  BY <1>w, <2>1
    <3>2. 1 \in 1..Len(readQ)  BY <3>1
    <3>3. \E j \in 1..Len(station) :
            station[j].op = readQ[1].op /\ station[j].state = "replay"
      BY <1>6, <3>2 DEF QueueInOrder
    <3> QED BY <1>5, <2>1, <3>1, <3>3
  <2>2. CASE Waits(writeQ)
    <3>1. Len(writeQ) = 1 /\ writeQ[1].op = n + 1  BY <1>w, <2>2
    <3>2. 1 \in 1..Len(writeQ)  BY <3>1
    <3>3. \E j \in 1..Len(station) :
            station[j].op = writeQ[1].op /\ station[j].state = "completed"
      BY <1>6, <3>2 DEF QueueInOrder
    <3> QED BY <1>5, <2>2, <3>1, <3>3
  <2> QED BY <1>5, <2>1, <2>2
<1>9. \A j, k \in 1..Len(station) : station[j].op = station[k].op => j = k
  <2> SUFFICES ASSUME NEW j \in 1..Len(station), NEW k \in 1..Len(station),
                      station[j].op = station[k].op
               PROVE  j = k
    OBVIOUS
  <2>1. station[j].op \in Nat /\ j \in Nat /\ k \in Nat
    <3>1. station[j].op \in A  BY <1>7
    <3>2. PICK x \in Nat : x = Len(station)  BY <1>7, LenProperties
    <3>3. j \in 1..x /\ k \in 1..x  BY <3>2
    <3>4. j \in Nat /\ k \in Nat  BY <3>2, <3>3
    <3>5. station[j].op \in Nat  BY <3>1
    <3> QED BY <3>4, <3>5
  <2>2. ~(station[j].op < station[k].op) /\ ~(station[k].op < station[j].op)
    BY <2>1
  <2>3. ~(j < k) /\ ~(k < j)  BY <1>6, <2>2 DEF Increasing
  <2> QED BY <2>1, <2>3
<1>10. PICK t : t = Lane'  OBVIOUS
<1>11. /\ t.station = station /\ t.retired = retired /\ t.readQ = readQ'
       /\ t.writeQ = writeQ'
  BY <1>4, <1>10 DEF Lane
<1>12. /\ QueueInOrder(Lane, readQ', "replay", n2)
       /\ QueueInOrder(Lane, writeQ', "completed", n2)
       /\ \A i \in A : Requesting(readQ, i) => Requesting(readQ', i)
       /\ \A i \in A : Requesting(writeQ, i) /\ i > n2 => Requesting(writeQ', i)
       /\ \A k \in 1..Len(writeQ') : writeQ'[k].value = writeQ'[k].op
  BY <1>2, <1>3, QueuesMove
<1>13. ASSUME NEW k \in 1..Len(station)
       PROVE  EntryInOrder(t, station[k], n2)
  <2>1. PICK e : e = station[k]  OBVIOUS
  <2>2. EntryInOrder(Lane, e, n) /\ e.op \in A  BY <1>6, <1>7, <2>1
  <2>3. e.state # "fresh" /\ e.op \notin t.retired
    BY <1>6, <1>11, <2>2 DEF EntryInOrder
  <2>4. e.state = "addrcalc" => e.op > n2
    <3>1. e.state = "addrcalc" => e.op > n /\ e.op # n2
      <4>1. e.state = "addrcalc" => e.op > n  BY <2>2 DEF EntryInOrder
      <4>2. e.state = "addrcalc" /\ n2 # n => e.op # n2  BY <1>8, <1>9, <2>1
      <4>3. e.op > n => e.op # n  BY <2>2
      <4> QED BY <4>1, <4>2, <4>3
    <3>2. e.op \in Nat  BY <2>2
    <3> QED BY <1>5, <3>1, <3>2
  <2>5. e.state # "addrcalc" => e.op <= n2 + 1
    <3>1. e.state # "addrcalc" => e.op <= n + 1  BY <2>2 DEF EntryInOrder
    <3>2. e.op \in Nat  BY <2>2
    <3> QED BY <1>5, <3>1, <3>2
  <2>6. e.state = "replay" => ~IsStore(e.op) /\ Requesting(t.readQ, e.op)
    BY <1>6, <1>11, <1>12, <2>2 DEF EntryInOrder
  <2>7. e.state = "completed" =>
          IsStore(e.op) /\ (e.op > n2 => Requesting(t.writeQ, e.op))
    <3>1. e.op \in Nat  BY <2>2
    <3>2. e.op > n2 => e.op > n  BY <1>5, <3>1
    <3> QED BY <1>6, <1>11, <1>12, <2>2, <3>2 DEF EntryInOrder
  <2> QED BY <2>1, <2>3, <2>4, <2>5, <2>6, <2>7 DEF EntryInOrder
<1>14. StationInOrder(t, n2)
  <2>1. QueueInOrder(t, t.readQ, "replay", n2) /\ QueueInOrder(t, t.writeQ, "completed", n2)
    BY <1>6, <1>11, <1>12 DEF QueueInOrder
  <2> QED BY <1>6, <1>11, <1>12, <1>13, <2>1 DEF StationInOrder
<1>15. StationInOrder(Lane, Performed)'
  BY <1>2, <1>4, <1>10, <1>14 DEF StationInOrder, QueueInOrder, EntryInOrder, IsStore
<1>16. (Performed <= Len(program))'
  <2>1. n <= p  BY <1>2 DEF OrderInv
  <2>2. n2 # n => n2 \in 1..p
    BY <1>2, <1>3, <1>7, <1>8 DEF Access
  <2>3. n2 <= p  BY <2>1, <2>2
  <2> QED BY <1>2, <1>4, <2>3
<1>17. Pending(Lane, latch, Performed)'
  <2>1. Pending(Lane, latch, n)  BY <1>2 DEF OrderInv
  <2>2. \A i \in (n2 + 1)..p : i \in (n + 1)..p  BY <1>5
  <2>3. \A i \in (n2 + 1)..p : i = latch \/ \E k \in 1..Len(station) : station[k].op = i
    BY <1>2, <1>6, <2>1, <2>2 DEF Pending
  <2> QED BY <1>2, <1>4, <1>10, <1>11, <2>3 DEF Pending
<1>18. LatchInOrder'
  <2>1. LatchInOrder  BY DEF OrderInv
  <2>2. latch # 0 => latch > n2
    <3> SUFFICES ASSUME latch # 0 PROVE latch > n2  OBVIOUS
    <3>1. latch = p /\ latch > n /\ \A k \in 1..Len(station) : station[k].op < latch
      BY <1>2, <2>1 DEF LatchInOrder
    <3>2. n2 # n => n2 < latch  BY <1>8, <3>1
    <3> QED BY <1>5, <3>1, <3>2
  <2> QED BY <1>2, <1>4, <2>1, <2>2 DEF LatchInOrder
<1>19. StationRoom'
  <2>1. StationRoom  BY DEF OrderInv
  <2> QED BY <1>4, <2>1 DEF StationRoom
<1>20. FirstPerformed'
  <2> SUFFICES ASSUME station # <<>>, station[1].state # "addrcalc"
               PROVE  station[1].op <= n2
    BY <1>2, <1>4 DEF FirstPerformed
  <2>1. 1 \in 1..Len(station)
    <3>1. Len(station) \in Nat \ {0}  BY <1>7, EmptySeq, LenProperties
    <3>2. PICK x \in Nat \ {0} : x = Len(station)  BY <3>1
    <3>3. 1 \in 1..x  BY <3>2
    <3> QED BY <3>2, <3>3
  <2>2. PICK e \in Entry(A) : e = station[1]  BY <1>7, <2>1, ElementOfSeq
  <2>3. EntryInOrder(Lane, e, n) /\ e.op \in A /\ e.op \in Nat
    BY <1>6, <1>7, <2>1, <2>2
  <2>4. e.state = "replay" \/ e.state = "completed"
    BY <2>2, <2>3 DEF EntryInOrder, Entry, EntryState
  <2>5. CASE e.op <= n  BY <1>5, <2>2, <2>3, <2>5
  <2>6. CASE ~(e.op <= n)
    <3>1. e.op = n + 1
      <4>1. e.op <= n + 1  BY <2>2, <2>3 DEF EntryInOrder
      <4> QED BY <2>3, <2>6, <4>1
    \* Its request is the first of its queue, and waits.
    <3>2. ASSUME NEW q \in Seq(Queued(A)), NEW state, QueueInOrder(Lane, q, state, n),
                 Requesting(q, e.op)
          PROVE  Waits(q)
      <4>1. PICK k \in 1..Len(q) : q[k].op = e.op  BY <3>2 DEF Requesting
      <4>2. PICK x \in Nat : x = Len(q)  BY LenProperties
      <4>3. 1 \in 1..x /\ k \in 1..x /\ (k # 1 => 1 < k)  BY <4>1, <4>2
      <4>4. k = 1
        <5> SUFFICES ASSUME k # 1 PROVE FALSE  OBVIOUS
        <5>1. q[1].op < q[k].op  BY <3>2, <4>2, <4>3 DEF QueueInOrder
        <5>2. PICK j \in 1..Len(station) : station[j].op = q[1].op
          BY <1>6, <3>2, <4>2, <4>3 DEF QueueInOrder
        <5>3. station[j].op < e.op /\ station[j].op \in Nat /\ j \in Nat /\ j >= 1
          <6>1. station[j].op \in A  BY <1>7
          <6>2. PICK y \in Nat : y = Len(station)  BY <1>7, LenProperties
          <6>3. j \in 1..y  BY <6>2
          <6>4. j \in Nat /\ j >= 1  BY <6>2, <6>3
          <6> QED BY <4>1, <5>1, <5>2, <6>1, <6>4
        <5>4. j = 1 \/ 1 < j  BY <5>3
        <5>5. CASE j = 1  BY <2>2, <2>3, <5>3, <5>5
        <5>6. CASE 1 < j
          <6>1. station[1].op < station[j].op  BY <1>6, <2>1, <5>6 DEF Increasing
          <6> QED BY <2>2, <2>3, <5>3, <6>1
        <5> QED BY <5>4, <5>5, <5>6
      <4>5. Waiting(q[1])
        <5>1. ~Waiting(q[1]) => q[1].op <= n
          BY <3>2, <4>2, <4>3 DEF QueueInOrder
        <5> QED BY <2>6, <4>1, <4>4, <5>1
      <4>6. q # <<>>
        <5>1. q = <<>> => Len(q) = 0  BY EmptySeq
        <5> QED BY <4>2, <4>3, <5>1
      <4>7. Head(q) = q[1]  BY <4>6, HeadAndTail
      <4> QED BY <4>5, <4>6, <4>7 DEF Waits, Waiting
    <3>3. n2 = n + 1
      <4>1. CASE e.state = "replay"
        <5>1. Requesting(readQ, e.op)  BY <1>6, <2>3, <4>1 DEF EntryInOrder
        <5>2. Waits(readQ)  BY <1>6, <1>7, <3>2, <5>1
        <5> QED BY <1>5, <5>2
      <4>2. CASE e.state = "completed"
        <5>1. e.op > n  BY <2>3, <2>6
        <5>2. Requesting(writeQ, e.op)  BY <1>6, <2>3, <4>2, <5>1 DEF EntryInOrder
        <5>3. Waits(writeQ)  BY <1>6, <1>7, <3>2, <5>2
        <5> QED BY <1>5, <5>3
      <4> QED BY <2>4, <4>1, <4>2
    <3> QED BY <2>2, <2>3, <3>1, <3>3
  <2> QED BY <2>5, <2>6
<1>21. MemoryUpToDate'
  <2> SUFFICES ASSUME NEW a \in Addresses
               PROVE  /\ memory'[a] # 0 => /\ IsStore(memory'[a]) /\ Addr(memory'[a]) = a
                                           /\ memory'[a] <= n2
                      /\ \A i \in 1..n2 : IsStore(i) /\ Addr(i) = a => i <= memory'[a]
    BY <1>2, <1>4 DEF MemoryUpToDate, IsStore, Addr
  <2>1. /\ memory[a] # 0 => IsStore(memory[a]) /\ Addr(memory[a]) = a /\ memory[a] <= n
        /\ \A i \in 1..n : IsStore(i) /\ Addr(i) = a => i <= memory[a]
    BY <1>2 DEF OrderInv, MemoryUpToDate
  <2>2. memory \in [Addresses -> A \cup {0}] /\ program \in Seq(Command)
    BY <1>1, <1>3, Types
  <2>3. PICK v \in Nat : v = memory[a]
    <3>1. memory[a] \in A \cup {0} /\ A \cup {0} \subseteq Nat  BY <2>2
    <3> QED BY <3>1
  <2>4. CASE ~Waits(writeQ)
    <3>1. memory' = memory  BY <1>4, <2>4 DEF MemoryAfter
    <3>2. n2 # n => ~IsStore(n2)
      <4> SUFFICES ASSUME n2 # n PROVE ~IsStore(n2)  OBVIOUS
      <4>1. Waits(readQ) /\ n2 = n + 1  BY <1>5, <2>4
      <4>2. Len(readQ) = 1 /\ readQ[1].op = n + 1  BY <1>w, <4>1
      <4>3. 1 \in 1..Len(readQ)  BY <4>2
      <4>4. PICK j \in 1..Len(station) :
              station[j].op = readQ[1].op /\ station[j].state = "replay"
        BY <1>6, <4>3 DEF QueueInOrder
      <4>5. ~IsStore(station[j].op)  BY <1>6, <4>4 DEF EntryInOrder
      <4> QED BY <4>1, <4>2, <4>4, <4>5
    <3>3. v <= n => v <= n2  BY <1>5
    <3>4. \A i \in 1..n2 : IsStore(i) => i \in 1..n
      <4> SUFFICES ASSUME NEW i \in 1..n2, IsStore(i) PROVE i \in 1..n  OBVIOUS
      <4>1. n2 # n => i # n2  BY <3>2
      <4> QED BY <1>5, <4>1
    <3> QED BY <2>1, <2>3, <3>1, <3>3, <3>4
  <2>5. CASE Waits(writeQ)
    <3>1. Len(writeQ) = 1 /\ writeQ[1].op = n + 1  BY <1>w, <2>5
    <3>2. 1 \in 1..Len(writeQ)  BY <3>1
    <3>3. PICK j \in 1..Len(station) :
            station[j].op = writeQ[1].op /\ station[j].state = "completed"
      BY <1>6, <3>2 DEF QueueInOrder
    <3>4. IsStore(n + 1)  BY <1>6, <3>1, <3>3 DEF EntryInOrder
    <3>5. n2 = n + 1 /\ n2 \in Access  BY <1>3, <1>5, <1>7, <2>5, <3>1, <3>2
    <3>6. Head(writeQ) = writeQ[1] /\ writeQ[1].value = n2
      BY <1>6, <1>7, <2>5, <3>1, <3>2, <3>5, HeadAndTail DEF Waits
    <3>7. PICK b \in Addresses : b = Addr(n2)  BY <2>2, <3>5, AccessTyped
    <3>8. memory' = [memory EXCEPT ![b] = n2]
      BY <1>4, <2>5, <3>1, <3>5, <3>6, <3>7 DEF MemoryAfter
    <3>9. CASE b = a
      <4>1. memory'[a] = n2  BY <2>2, <3>8, <3>9
      <4> QED BY <3>4, <3>5, <3>7, <3>9, <4>1
    <3>10. CASE b # a
      <4>1. memory'[a] = v  BY <2>2, <2>3, <3>8, <3>10
      <4>2. \A i \in 1..n2 : Addr(i) = a => i \in 1..n
        <5> SUFFICES ASSUME NEW i \in 1..n2, Addr(i) = a PROVE i \in 1..n  OBVIOUS
        <5>1. i # n2  BY <3>7, <3>10
        <5> QED BY <3>5, <5>1
      <4>3. v <= n => v <= n2  BY <3>5
      <4> QED BY <2>1, <2>3, <4>1, <4>2, <4>3
    <3> QED BY <3>9, <3>10
  <2> QED BY <2>4, <2>5
<1> QED BY <1>1, <1>15, <1>16, <1>17, <1>18, <1>19, <1>20, <1>21 DEF OrderInv

-----------------------------------------------------------------------------
(* The first loop of the unit: the latch arrives, one address is           *)
(* calculated, one request is made.                                        *)

LEMMA FirstInIs ==
    ASSUME TypeOK, NEW state
    PROVE  \/ /\ FirstIn(state) = 0
              /\ \A k \in 1..Len(Arrived) : Arrived[k].state # state
           \/ /\ FirstIn(state) \in 1..Len(Arrived)
              /\ Arrived[FirstIn(state)].state = state
              /\ \A k \in 1..Len(Arrived) :
                   Arrived[k].state = state => FirstIn(state) <= k
<1> DEFINE q == Arrived
           T == {j \in 1..Len(q) : q[j].state = state}
<1>1. FirstIn(state) = IF T # {} THEN Min(T) ELSE 0
  BY DEF FirstIn, SelectInSeq
<1>2. T \in SUBSET (1..Len(q)) /\ q \in Seq(Entry(Access))  BY ArrivedTyped
<1>3. CASE T = {}  BY <1>1, <1>3
<1>4. CASE T # {}
  <2>1. Min(T) \in T /\ \A k \in T : Min(T) <= k
    <3> HIDE DEF T, q
    <3> QED BY <1>2, <1>4, Selected
  <2>2. PICK i : i = FirstIn(state)  OBVIOUS
  <2>3. i \in T /\ \A k \in T : i <= k  BY <1>1, <1>4, <2>1, <2>2
  <2> QED BY <2>2, <2>3
<1> QED BY <1>3, <1>4

LEMMA MarkedEntries ==
    ASSUME NEW A, NEW q \in Seq(Entry(A)), NEW k, k = 0 \/ k \in 1..Len(q), NEW st
    PROVE  /\ Len(Marked(q, k, st)) = Len(q)
           /\ \A j \in 1..Len(q) :
                /\ Marked(q, k, st)[j].op = q[j].op
                /\ Marked(q, k, st)[j].state = IF j = k THEN st ELSE q[j].state
<1>1. CASE k = 0
  <2>1. Marked(q, k, st) = q  BY <1>1 DEF Marked
  <2>2. PICK n \in Nat : n = Len(q)  BY LenProperties
  <2>3. \A j \in 1..n : j # 0  BY <2>2
  <2> QED BY <1>1, <2>1, <2>2, <2>3
<1>2. CASE k # 0
  <2>1. PICK e : e = [q[k] EXCEPT !.state = st]  OBVIOUS
  <2>2. q[k] \in Entry(A)  BY <1>2, ElementOfSeq
  <2>3. e.op = q[k].op /\ e.state = st  BY <2>1, <2>2 DEF Entry
  <2>4. Marked(q, k, st) = [q EXCEPT ![k] = e]  BY <1>2, <2>1 DEF Marked
  <2>5. PICK S : S = Entry(A) \cup {e}  OBVIOUS
  <2>6. q \in Seq(S) /\ e \in S  BY <2>5, Wider
  <2>7. Len([q EXCEPT ![k] = e]) = Len(q)  BY <1>2, <2>6, ExceptSeq
  <2>8. \A j \in 1..Len(q) : [q EXCEPT ![k] = e][j] = IF j = k THEN e ELSE q[j]
    BY LenProperties
  <2> QED BY <2>3, <2>4, <2>7, <2>8
<1> QED BY <1>1, <1>2

\* Only the latch is fresh, and it comes last.
LEMMA ArrivedEntries ==
    ASSUME OrderInv
    PROVE  /\ Len(Arrived) \in 0..2 /\ Len(station) \in 0..2
           /\ Len(Arrived) = Len(station) + (IF latch = 0 THEN 0 ELSE 1)
           /\ \A k \in 1..Len(station) : Arrived[k] = station[k]
           /\ latch # 0 => Arrived[Len(station) + 1] = [op |-> latch, state |-> "fresh"]
<1>1. TypeOK /\ StationRoom  BY DEF OrderInv, LaneInv
<1>2. station \in Seq(Entry(Access)) /\ latch \in Access \cup {0}  BY <1>1, Types
<1>3. PICK n \in Nat : n = Len(station)  BY <1>2, LenProperties
<1>4. n <= 2 /\ (latch # 0 => n <= 1)  BY <1>1, <1>3 DEF StationRoom
<1>5. CASE latch = 0
  <2>1. Arrived = station  BY <1>5 DEF Arrived
  <2> QED BY <1>3, <1>4, <1>5, <2>1
<1>6. CASE latch # 0
  <2>1. PICK e : e = [op |-> latch, state |-> "fresh"]  OBVIOUS
  <2>2. e \in Entry(Access)  BY <1>2, <1>6, <2>1 DEF Entry, EntryState
  <2>3. Arrived = Append(station, e)  BY <1>6, <2>1 DEF Arrived
  <2>4. /\ Len(Append(station, e)) = Len(station) + 1
        /\ \A k \in 1..Len(station) : Append(station, e)[k] = station[k]
        /\ Append(station, e)[Len(station) + 1] = e
    BY <1>2, <2>2, AppendProperties
  <2>5. n + 1 \in 0..2 /\ n \in 0..2  BY <1>4, <1>6
  <2> QED BY <1>3, <1>6, <2>1, <2>3, <2>4, <2>5
<1> QED BY <1>5, <1>6

\* The one that makes its request is the next to be performed.
LEMMA SenderIsNext ==
    ASSUME OrderInv, phase = "unit"
    PROVE  \/ Sender = 0
           \/ /\ Sender \in 1..Len(station) /\ Sender \in 1..Len(Arrived)
              /\ station[Sender].state = "addrcalc"
              /\ station[Sender].op = Performed + 1
<1> SUFFICES ASSUME Sender # 0
             PROVE  /\ Sender \in 1..Len(station) /\ Sender \in 1..Len(Arrived)
                    /\ station[Sender].state = "addrcalc"
                    /\ station[Sender].op = Performed + 1
  OBVIOUS
<1>1. TypeOK /\ FirstPerformed /\ LatchInOrder  BY DEF OrderInv, LaneInv
<1>2. PICK n \in Nat, p \in Nat : n = Performed /\ p = Len(program)
  BY <1>1, PerformedTyped
<1>3. PICK x \in 0..2 : x = Len(station)  BY ArrivedEntries
<1>4. /\ Len(Arrived) = x + (IF latch = 0 THEN 0 ELSE 1) /\ Len(Arrived) \in 0..2
      /\ \A k \in 1..x : Arrived[k] = station[k]
      /\ latch # 0 => Arrived[x + 1] = [op |-> latch, state |-> "fresh"]
  BY <1>3, ArrivedEntries
<1>5. PICK i : i = Sender  OBVIOUS
<1>6. /\ i \in 1..Len(Arrived) /\ Arrived[i].state = "addrcalc"
      /\ \A k \in 1..Len(Arrived) : Arrived[k].state = "addrcalc" => i <= k
  <2>1. Sender = FirstIn("addrcalc")  BY DEF Sender
  <2> QED BY <1>1, <1>5, <2>1, FirstInIs
<1>7. i \in 1..x
  <2>1. i \in 1..x \/ (latch # 0 /\ i = x + 1)  BY <1>4, <1>6
  <2>2. latch # 0 => Arrived[x + 1].state # "addrcalc"  BY <1>4
  <2> QED BY <1>6, <2>1, <2>2
<1>8. \A k \in 1..x : k \in 1..Len(Arrived)  BY <1>4
<1>9. station[i].state = "addrcalc" /\ \A k \in 1..x : station[k].state = "addrcalc" => i <= k
  BY <1>4, <1>6, <1>7, <1>8
<1>10. /\ \A k \in 1..x : EntryInOrder(Lane, station[k], n)
       /\ Increasing(station) /\ Lane.station = station
  BY <1>2, <1>3, QueuesOfLane
<1>11. /\ \A k \in 1..x : station[k].op \in 1..p /\ station[k].op \in Nat
       /\ latch \in (1..p) \cup {0}
  <2>1. Access = 1..p  BY <1>2 DEF Access
  <2>2. \A k \in 1..x : station[k].op \in 1..p  BY <1>1, <1>3, <2>1, QueueTyped
  <2>3. latch \in Access \cup {0}  BY <1>1, Types
  <2> QED BY <2>1, <2>2, <2>3
<1>12. station[i].op > n  BY <1>7, <1>9, <1>10 DEF EntryInOrder
<1>13. n + 1 \in (n + 1)..p  BY <1>7, <1>11, <1>12
<1>14. n + 1 = latch \/ \E k \in 1..x : station[k].op = n + 1
  <2>1. Pending(Lane, latch, n)  BY <1>2 DEF OrderInv
  <2> QED BY <1>2, <1>3, <1>10, <1>13, <2>1 DEF Pending
<1>15. n + 1 # latch
  <2> SUFFICES ASSUME n + 1 = latch PROVE FALSE  OBVIOUS
  <2>1. latch # 0  OBVIOUS
  <2>2. station[i].op < latch  BY <1>1, <1>3, <1>7, <2>1 DEF LatchInOrder
  <2> QED BY <1>7, <1>11, <1>12, <2>2
<1>16. PICK k \in 1..x : station[k].op = n + 1  BY <1>14, <1>15
<1>17. i = k
  <2>1. CASE k < i
    <3>1. station[k].op < station[i].op  BY <1>3, <1>7, <1>10, <2>1 DEF Increasing
    <3>2. station[k].state # "addrcalc"  BY <1>7, <1>9, <2>1
    <3>3. k = 1
      <4>1. x <= 2  OBVIOUS
      <4> QED BY <1>7, <2>1, <4>1
    <3>4. station # <<>>
      <4>1. station = <<>> => Len(station) = 0  BY EmptySeq
      <4> QED BY <1>3, <1>7, <4>1
    <3>5. station[1].op <= n
      BY <1>1, <1>2, <3>2, <3>3, <3>4 DEF FirstPerformed
    <3> QED BY <1>16, <3>3, <3>5
  <2>2. CASE i < k
    <3>1. station[i].op < station[k].op  BY <1>3, <1>7, <1>10, <2>2 DEF Increasing
    <3> QED BY <1>7, <1>11, <1>12, <1>16, <3>1
  <2> QED BY <1>7, <2>1, <2>2
<1>18. i \in 1..Len(Arrived)  BY <1>6
<1> QED BY <1>2, <1>3, <1>5, <1>7, <1>9, <1>16, <1>17, <1>18

LEMMA AdvancedEntries ==
    ASSUME OrderInv, phase = "unit"
    PROVE  /\ Len(Advanced) = Len(Arrived)
           /\ \A k \in 1..Len(Arrived) :
                /\ Advanced[k].op = Arrived[k].op
                /\ Advanced[k].state =
                     IF k = Sender
                     THEN IF IsStore(Arrived[k].op) THEN "completed" ELSE "replay"
                     ELSE IF Arrived[k].state = "fresh" THEN "addrcalc"
                     ELSE Arrived[k].state
<1>1. TypeOK  BY DEF OrderInv, LaneInv
<1>2. PICK x \in 0..2 : x = Len(station)  BY ArrivedEntries
<1>3. PICK q \in Seq(Entry(Access)) : q = Arrived  BY <1>1, ArrivedTyped
<1>4. /\ Len(q) = x + (IF latch = 0 THEN 0 ELSE 1) /\ Len(q) \in 0..2
      /\ \A k \in 1..x : q[k] = station[k]
      /\ latch # 0 => q[x + 1] = [op |-> latch, state |-> "fresh"]
  BY <1>2, <1>3, ArrivedEntries
<1>5. PICK f, g : f = FirstIn("fresh") /\ g = Sender  OBVIOUS
<1>6. \/ f = 0 /\ \A k \in 1..Len(q) : q[k].state # "fresh"
      \/ f \in 1..Len(q) /\ q[f].state = "fresh"
  BY <1>1, <1>3, <1>5, FirstInIs
<1>7. g = 0 \/ (g \in 1..Len(q) /\ q[g].state = "addrcalc")
  BY <1>2, <1>3, <1>4, <1>5, SenderIsNext
<1>8. \A k \in 1..Len(q) : q[k].state = "fresh" <=> k = f
  <2> TAKE k \in 1..Len(q)
  <2>1. k \in 1..x \/ (latch # 0 /\ k = x + 1)  BY <1>4
  <2>2. \A j \in 1..x : q[j].state # "fresh"
    <3>1. \A j \in 1..x : EntryInOrder(Lane, station[j], Performed)
      BY <1>2, QueuesOfLane
    <3> QED BY <1>4, <3>1 DEF EntryInOrder
  <2>3. f # 0 => f \in 1..x \/ (latch # 0 /\ f = x + 1)  BY <1>4, <1>6
  <2>4. f # 0 => f = x + 1
    <3>1. f # 0 => f \in 1..Len(q) /\ q[f].state = "fresh"
      <4>1. 0 \notin 1..Len(q)  BY <1>4
      <4> QED BY <1>6, <4>1
    <3> QED BY <2>2, <2>3, <3>1
  <2>5. k # 0  BY <1>4
  <2> QED BY <1>6, <2>1, <2>2, <2>4, <2>5
<1>9. PICK u : u = Marked(q, f, "addrcalc")  OBVIOUS
<1>10. f = 0 \/ f \in 1..Len(q)  BY <1>6
<1>11. /\ u \in Seq(Entry(Access)) /\ Len(u) = Len(q)
       /\ \A j \in 1..Len(q) :
            /\ u[j].op = q[j].op
            /\ u[j].state = IF j = f THEN "addrcalc" ELSE q[j].state
  <2>1. "addrcalc" \in EntryState  BY DEF EntryState
  <2>2. u \in Seq(Entry(Access))  BY <1>9, <1>10, <2>1, MarkedTyped
  <2> QED BY <1>9, <1>10, <2>2, MarkedEntries
<1>12. PICK st : st = IF g # 0 /\ IsStore(q[g].op) THEN "completed" ELSE "replay"
  OBVIOUS
<1>13. Advanced = Marked(u, g, st)
  BY <1>3, <1>5, <1>9, <1>12 DEF Advanced
<1>14. g = 0 \/ g \in 1..Len(u)  BY <1>7, <1>11
<1>15. PICK v : v = Marked(u, g, st)  OBVIOUS
<1>16. /\ Len(v) = Len(u)
       /\ \A j \in 1..Len(u) : v[j].op = u[j].op
                               /\ v[j].state = IF j = g THEN st ELSE u[j].state
  BY <1>11, <1>14, <1>15, MarkedEntries
<1>17. ASSUME NEW k \in 1..Len(q)
       PROVE  /\ v[k].op = q[k].op
              /\ v[k].state = IF k = g
                              THEN IF IsStore(q[k].op) THEN "completed" ELSE "replay"
                              ELSE IF q[k].state = "fresh" THEN "addrcalc"
                              ELSE q[k].state
  <2>1. v[k].op = q[k].op /\ u[k].state = (IF k = f THEN "addrcalc" ELSE q[k].state)
        /\ v[k].state = IF k = g THEN st ELSE u[k].state
    BY <1>11, <1>16
  <2>2. k # 0  BY <1>4
  <2>3. k = g => st = IF IsStore(q[k].op) THEN "completed" ELSE "replay"
    BY <1>12, <2>2
  <2> QED BY <1>8, <2>1, <2>3
<1> QED BY <1>3, <1>5, <1>11, <1>13, <1>15, <1>16, <1>17

\* The lane as the second loop finds it.
Start == [station |-> Advanced, out |-> NoAnswer, readQ |-> Requested(readQ, FALSE),
          writeQ |-> Requested(writeQ, TRUE), retired |-> retired]

LEMMA StartTyped ==
    ASSUME TypeOK
    PROVE  Start \in Swept(Access)
<1>1. readQ \in Seq(Queued(Access)) /\ writeQ \in Seq(Queued(Access))
      /\ retired \in SUBSET Access
  BY Types
<1>2. Advanced \in Seq(Entry(Access))  BY AdvancedTyped
<1>3. NoAnswer \in Answer(Access)  BY DEF NoAnswer, Answer
<1>4. Requested(readQ, FALSE) \in Seq(Queued(Access))
      /\ Requested(writeQ, TRUE) \in Seq(Queued(Access))
  BY <1>1, RequestedTyped
<1> QED BY <1>1, <1>2, <1>3, <1>4 DEF Start, Swept

\* A queue with the new request, if it is for it.
LEMMA RequestInOrder ==
    ASSUME OrderInv, phase = "unit", NEW q \in Seq(Queued(Access)), NEW state, NEW store,
           QueueInOrder(Lane, q, state, Performed),
           \/ state = "replay" /\ store = FALSE
           \/ state = "completed" /\ store = TRUE,
           \A k \in 1..Len(q) : q[k].value = q[k].op \/ ~store
    PROVE  /\ QueueInOrder(Start, Requested(q, store), state, Performed)
           /\ \A i : Requesting(q, i) => Requesting(Requested(q, store), i)
           /\ Sender # 0 /\ IsStore(Arrived[Sender].op) = store =>
                Requesting(Requested(q, store), Arrived[Sender].op)
           /\ \A k \in 1..Len(Requested(q, store)) :
                Requested(q, store)[k].value = Requested(q, store)[k].op \/ ~store
<1>1. TypeOK  BY DEF OrderInv, LaneInv
<1>2. PICK n \in Nat : n = Performed  BY <1>1, PerformedTyped
<1>3. PICK x \in 0..2, y \in 0..2 : x = Len(station) /\ y = Len(Arrived)
  BY ArrivedEntries
<1>4. /\ x <= y /\ \A k \in 1..x : k \in 1..y /\ Arrived[k] = station[k]
  BY <1>3, ArrivedEntries
<1>5. PICK a : a = Advanced  OBVIOUS
<1>6. Len(a) = y /\ \A k \in 1..y :
        /\ a[k].op = Arrived[k].op
        /\ a[k].state = IF k = Sender
                        THEN IF IsStore(Arrived[k].op) THEN "completed" ELSE "replay"
                        ELSE IF Arrived[k].state = "fresh" THEN "addrcalc"
                        ELSE Arrived[k].state
  BY <1>3, <1>5, AdvancedEntries
<1>7. Lane.station = station /\ Start.station = a  BY <1>5 DEF Lane, Start
<1>8. PICK g : g = Sender  OBVIOUS
<1>9. g = 0 \/ (g \in 1..x /\ g \in 1..y /\ station[g].state = "addrcalc"
                /\ station[g].op = n + 1)
  BY <1>2, <1>3, <1>8, SenderIsNext
<1>10. /\ \A j, k \in 1..Len(q) : j < k => q[j].op < q[k].op
       /\ \A k \in 1..Len(q) :
            /\ Waiting(q[k]) => q[k].op = n + 1
            /\ ~Waiting(q[k]) => q[k].op <= n
            /\ k # 1 => Waiting(q[k])
            /\ \E j \in 1..x : station[j].op = q[k].op /\ station[j].state = state
  BY <1>2, <1>3, <1>7 DEF QueueInOrder
<1>11. \A j \in 1..x : station[j].state = state => a[j].op = station[j].op /\ a[j].state = state
  <2> SUFFICES ASSUME NEW j \in 1..x, station[j].state = state
               PROVE  a[j].op = station[j].op /\ a[j].state = state
    OBVIOUS
  <2>1. j # g /\ j \in 1..y /\ Arrived[j] = station[j]
    BY <1>4, <1>9
  <2> QED BY <1>6, <1>8, <2>1
<1>12. \A k \in 1..Len(q) : \E j \in 1..y : a[j].op = q[k].op /\ a[j].state = state
  <2> TAKE k \in 1..Len(q)
  <2>1. PICK j \in 1..x : station[j].op = q[k].op /\ station[j].state = state  BY <1>10
  <2>2. j \in 1..y /\ a[j].op = station[j].op /\ a[j].state = state
    BY <1>4, <1>11, <2>1
  <2> QED BY <2>1, <2>2
<1>13. CASE ~(Sender # 0 /\ IsStore(Arrived[Sender].op) = store)
  <2>1. Requested(q, store) = q  BY <1>13 DEF Requested
  <2>2. QueueInOrder(Start, q, state, n)
    BY <1>6, <1>7, <1>10, <1>12 DEF QueueInOrder
  <2> QED BY <1>2, <1>13, <2>1, <2>2
<1>14. CASE Sender # 0 /\ IsStore(Arrived[Sender].op) = store
  <2>1. g \in 1..x /\ g \in 1..y /\ station[g].state = "addrcalc" /\ station[g].op = n + 1
        /\ Arrived[g] = station[g]
    BY <1>4, <1>8, <1>9, <1>14
  <2>2. IsStore(n + 1) = store /\ a[g].op = n + 1 /\ a[g].state = state
    BY <1>6, <1>8, <1>14, <2>1
  <2>3. PICK r : r = Request(n + 1)  OBVIOUS
  <2>4. r.op = n + 1 /\ Waiting(r) /\ (store => r.value = r.op)
    BY <2>2, <2>3 DEF Request, Waiting
  <2>5. PICK u : u = Append(q, r)  OBVIOUS
  <2>6. Requested(q, store) = u
    BY <1>8, <1>14, <2>1, <2>3, <2>5 DEF Requested
  <2>7. PICK m \in Nat : m = Len(q)  BY LenProperties
  <2>8. Len(u) = m + 1 /\ u[m + 1] = r /\ \A k \in 1..m : u[k] = q[k]
    <3>1. PICK S : S = Queued(Access) \cup {r}  OBVIOUS
    <3>2. q \in Seq(S) /\ r \in S  BY <3>1, Wider
    <3> QED BY <2>5, <2>7, <3>2, AppendProperties
  \* No older request waits: its access would be the sender.
  <2>9. \A k \in 1..m : q[k].op \in Nat /\ q[k].op < n + 1
    <3> TAKE k \in 1..m
    <3>1. q[k].op \in Nat
      <4>1. q[k] \in Queued(Access)  BY <2>7, ElementOfSeq
      <4>2. q[k].op \in Access  BY <4>1 DEF Queued
      <4> QED BY <1>1, <4>2, QueueTyped
    <3>2. ~Waiting(q[k])
      <4> SUFFICES ASSUME Waiting(q[k]) PROVE FALSE  OBVIOUS
      <4>1. q[k].op = n + 1  BY <1>10, <2>7
      <4>2. PICK j \in 1..x : station[j].op = n + 1 /\ station[j].state = state
        BY <1>10, <2>7, <4>1
      <4>3. j # g  BY <2>1, <4>2
      <4>4. Increasing(station)  BY QueuesOfLane
      <4>5. j < g \/ g < j  BY <2>1, <4>3
      <4>6. n + 1 < n + 1  BY <1>3, <2>1, <4>2, <4>4, <4>5 DEF Increasing
      <4> QED BY <4>6
    <3>3. q[k].op <= n  BY <1>10, <2>7, <3>2
    <3> QED BY <3>1, <3>3
  <2>10. \A k \in 1..(m + 1) : k \in 1..m \/ k = m + 1  BY <2>7
  <2>11. QueueInOrder(Start, u, state, n)
    <3>1. \A j, k \in 1..(m + 1) : j < k => u[j].op < u[k].op
      <4> SUFFICES ASSUME NEW j \in 1..(m + 1), NEW k \in 1..(m + 1), j < k
                   PROVE  u[j].op < u[k].op
        OBVIOUS
      <4>1. j \in 1..m  BY <2>7
      <4>2. u[j] = q[j]  BY <2>8, <4>1
      <4>3. CASE k \in 1..m
        <5>1. u[k] = q[k] /\ q[j].op < q[k].op  BY <1>10, <2>7, <2>8, <4>1, <4>3
        <5> QED BY <4>2, <5>1
      <4>4. CASE k = m + 1
        <5>1. u[k].op = n + 1  BY <2>4, <2>8, <4>4
        <5> QED BY <2>9, <4>1, <4>2, <5>1
      <4> QED BY <2>10, <4>3, <4>4
    <3>2. ASSUME NEW k \in 1..(m + 1)
          PROVE  /\ Waiting(u[k]) => u[k].op = n + 1
                 /\ ~Waiting(u[k]) => u[k].op <= n
                 /\ k # 1 => Waiting(u[k])
                 /\ \E j \in 1..y : a[j].op = u[k].op /\ a[j].state = state
      <4>1. CASE k \in 1..m
        <5>1. u[k] = q[k] /\ k \in 1..Len(q)  BY <2>7, <2>8, <4>1
        <5> QED BY <1>10, <1>12, <5>1
      <4>2. CASE k = m + 1
        <5>1. u[k] = r  BY <2>8, <4>2
        <5> QED BY <2>1, <2>2, <2>4, <5>1
      <4> QED BY <2>10, <4>1, <4>2
    <3> QED BY <1>6, <1>7, <2>8, <3>1, <3>2 DEF QueueInOrder
  <2>12. \A i : Requesting(q, i) => Requesting(u, i)
    <3> SUFFICES ASSUME NEW i, Requesting(q, i) PROVE Requesting(u, i)  OBVIOUS
    <3>1. PICK k \in 1..m : q[k].op = i  BY <2>7 DEF Requesting
    <3>2. k \in 1..(m + 1) /\ u[k].op = i  BY <2>7, <2>8, <3>1
    <3> QED BY <2>8, <3>2 DEF Requesting
  <2>13. Requesting(u, Arrived[Sender].op)
    <3>1. m + 1 \in 1..(m + 1) /\ u[m + 1].op = n + 1  BY <2>4, <2>8
    <3>2. Arrived[Sender].op = n + 1  BY <1>8, <2>1
    <3> QED BY <2>8, <3>1, <3>2 DEF Requesting
  <2>14. \A k \in 1..(m + 1) : u[k].value = u[k].op \/ ~store
    BY <2>4, <2>7, <2>8, <2>10
  <2> QED BY <1>2, <2>6, <2>8, <2>11, <2>12, <2>13, <2>14
<1> QED BY <1>13, <1>14

LEMMA StartInOrder ==
    ASSUME OrderInv, phase = "unit"
    PROVE  /\ StationInOrder(Start, Performed)
           /\ Pending(Start, 0, Performed)
<1>1. TypeOK /\ LatchInOrder  BY DEF OrderInv, LaneInv
<1>2. PICK n \in Nat, p \in Nat : n = Performed /\ p = Len(program)
  BY <1>1, PerformedTyped
<1>3. PICK x \in 0..2, y \in 0..2 : x = Len(station) /\ y = Len(Arrived)
  BY ArrivedEntries
<1>4. /\ y = x + (IF latch = 0 THEN 0 ELSE 1)
      /\ \A k \in 1..x : k \in 1..y /\ Arrived[k] = station[k]
      /\ latch # 0 => Arrived[x + 1] = [op |-> latch, state |-> "fresh"]
  BY <1>3, ArrivedEntries
<1>5. PICK a : a = Advanced  OBVIOUS
<1>6. Len(a) = y /\ \A k \in 1..y :
        /\ a[k].op = Arrived[k].op
        /\ a[k].state = IF k = Sender
                        THEN IF IsStore(Arrived[k].op) THEN "completed" ELSE "replay"
                        ELSE IF Arrived[k].state = "fresh" THEN "addrcalc"
                        ELSE Arrived[k].state
  BY <1>3, <1>5, AdvancedEntries
<1>7. PICK rq, wq : rq = Requested(readQ, FALSE) /\ wq = Requested(writeQ, TRUE)
  OBVIOUS
<1>8. /\ Start.station = a /\ Start.readQ = rq /\ Start.writeQ = wq
      /\ Start.retired = retired
  BY <1>5, <1>7 DEF Start
<1>9. PICK g : g = Sender  OBVIOUS
<1>10. g = 0 \/ (g \in 1..x /\ g \in 1..y /\ station[g].state = "addrcalc"
                 /\ station[g].op = n + 1)
  BY <1>2, <1>3, <1>9, SenderIsNext
<1>11. /\ QueueInOrder(Lane, readQ, "replay", n) /\ QueueInOrder(Lane, writeQ, "completed", n)
       /\ \A k \in 1..Len(writeQ) : writeQ[k].value = writeQ[k].op
       /\ Lane.readQ = readQ /\ Lane.writeQ = writeQ /\ Lane.retired = retired
       /\ Lane.station = station
       /\ \A k \in 1..x : EntryInOrder(Lane, station[k], n)
       /\ Increasing(station)
  BY <1>2, <1>3, QueuesOfLane
<1>12. readQ \in Seq(Queued(Access)) /\ writeQ \in Seq(Queued(Access))
  BY <1>1, Types
<1>13. /\ QueueInOrder(Start, rq, "replay", n)
       /\ \A i : Requesting(readQ, i) => Requesting(rq, i)
       /\ Sender # 0 /\ IsStore(Arrived[Sender].op) = FALSE =>
            Requesting(rq, Arrived[Sender].op)
  <2>1. \A k \in 1..Len(readQ) : readQ[k].value = readQ[k].op \/ ~FALSE  OBVIOUS
  <2> QED BY <1>2, <1>7, <1>11, <1>12, <2>1, RequestInOrder
<1>14. /\ QueueInOrder(Start, wq, "completed", n)
       /\ \A i : Requesting(writeQ, i) => Requesting(wq, i)
       /\ Sender # 0 /\ IsStore(Arrived[Sender].op) = TRUE =>
            Requesting(wq, Arrived[Sender].op)
       /\ \A k \in 1..Len(wq) : wq[k].value = wq[k].op
  <2>1. \A k \in 1..Len(writeQ) : writeQ[k].value = writeQ[k].op \/ ~TRUE  BY <1>11
  <2> QED BY <1>2, <1>7, <1>11, <1>12, <2>1, RequestInOrder
<1>15. \A k \in 1..y : k \in 1..x \/ (latch # 0 /\ k = x + 1)
  BY <1>4
<1>16. latch # 0 => /\ latch = p /\ latch > n /\ latch \notin retired /\ latch \in Nat
                    /\ \A k \in 1..x : station[k].op < latch
  BY <1>1, <1>2, <1>3 DEF LatchInOrder
<1>17. \A k \in 1..x : a[k].op = station[k].op
  BY <1>4, <1>6
<1>18. latch # 0 => a[x + 1].op = latch /\ a[x + 1].state = "addrcalc" /\ x + 1 \in 1..y
  <2> SUFFICES ASSUME latch # 0
               PROVE  a[x + 1].op = latch /\ a[x + 1].state = "addrcalc" /\ x + 1 \in 1..y
    OBVIOUS
  <2>1. x + 1 \in 1..y /\ x + 1 \notin 1..x /\ x + 1 # 0  BY <1>4
  <2>2. x + 1 # g  BY <1>10, <2>1
  <2> QED BY <1>4, <1>6, <1>9, <2>1, <2>2
<1>19. Increasing(a)
  <2> SUFFICES ASSUME NEW j \in 1..y, NEW k \in 1..y, j < k
               PROVE  a[j].op < a[k].op
    BY <1>6 DEF Increasing
  <2>1. j \in 1..x  BY <1>4
  <2>2. CASE k \in 1..x
    <3>1. station[j].op < station[k].op  BY <1>3, <1>11, <2>1, <2>2 DEF Increasing
    <3> QED BY <1>17, <2>1, <2>2, <3>1
  <2>3. CASE latch # 0 /\ k = x + 1
    BY <1>16, <1>17, <1>18, <2>1, <2>3
  <2> QED BY <1>15, <2>2, <2>3
<1>20. ASSUME NEW k \in 1..y
       PROVE  EntryInOrder(Start, a[k], n)
  <2>1. CASE latch # 0 /\ k = x + 1
    <3>1. a[k].op = latch /\ a[k].state = "addrcalc"  BY <1>18, <2>1
    <3> QED BY <1>8, <1>16, <2>1, <3>1 DEF EntryInOrder
  <2>2. CASE k \in 1..x /\ k # g
    <3>1. EntryInOrder(Lane, station[k], n)  BY <1>11, <2>2
    <3>2. a[k].op = station[k].op /\ a[k].state = station[k].state
      <4>1. station[k].state # "fresh"  BY <3>1 DEF EntryInOrder
      <4> QED BY <1>4, <1>6, <1>9, <2>2, <4>1
    <3>3. PICK e, d : e = station[k] /\ d = a[k]  OBVIOUS
    <3>4. EntryInOrder(Lane, e, n) /\ d.op = e.op /\ d.state = e.state
      BY <3>1, <3>2, <3>3
    <3>5. EntryInOrder(Start, d, n)
      BY <1>8, <1>11, <1>13, <1>14, <3>4 DEF EntryInOrder
    <3> QED BY <3>3, <3>5
  <2>3. CASE k \in 1..x /\ k = g
    <3>1. station[k].op = n + 1 /\ Arrived[k] = station[k] /\ Sender # 0 /\ k = Sender
      <4>1. 0 \notin 1..x  OBVIOUS
      <4> QED BY <1>4, <1>9, <1>10, <2>3, <4>1
    <3>2. PICK d : d = a[k]  OBVIOUS
    <3>3. d.op = n + 1 /\ d.state = IF IsStore(n + 1) THEN "completed" ELSE "replay"
      BY <1>6, <3>1, <3>2
    <3>4. d.op \notin retired
      <4>1. EntryInOrder(Lane, station[k], n)  BY <1>11, <2>3
      <4> QED BY <1>11, <3>1, <3>3, <4>1 DEF EntryInOrder
    <3>5. IsStore(n + 1) \in BOOLEAN
      <4>1. station[k].op \in Access  BY <1>1, <1>3, <2>3, QueueTyped
      <4>2. program \in Seq(Command)  BY <1>1, Types
      <4> QED BY <3>1, <4>1, <4>2, AccessTyped
    <3>6. IsStore(n + 1) => Requesting(wq, n + 1)  BY <1>14, <3>1
    <3>7. ~IsStore(n + 1) => Requesting(rq, n + 1)  BY <1>13, <3>1, <3>5
    <3>8. EntryInOrder(Start, d, n)
      <4>1. CASE IsStore(n + 1)
        <5>1. d.state = "completed"  BY <3>3, <4>1
        <5> QED BY <1>8, <3>3, <3>4, <3>6, <4>1, <5>1 DEF EntryInOrder
      <4>2. CASE ~IsStore(n + 1)
        <5>1. d.state = "replay"  BY <3>3, <4>2
        <5> QED BY <1>8, <3>3, <3>4, <3>7, <4>2, <5>1 DEF EntryInOrder
      <4> QED BY <4>1, <4>2
    <3> QED BY <3>2, <3>8
  <2> QED BY <1>15, <2>1, <2>2, <2>3
<1>21. StationInOrder(Start, n)
  BY <1>6, <1>8, <1>13, <1>14, <1>19, <1>20 DEF StationInOrder
<1>22. Pending(Start, 0, n)
  <2>1. Pending(Lane, latch, n)  BY <1>2 DEF OrderInv
  <2> SUFFICES ASSUME NEW i \in (n + 1)..p
               PROVE  \E k \in 1..y : a[k].op = i
    BY <1>2, <1>6, <1>8 DEF Pending
  <2>2. i # 0  BY <1>2
  <2>3. i = latch \/ \E k \in 1..x : station[k].op = i
    BY <1>2, <1>3, <1>11, <2>1 DEF Pending
  <2>4. CASE i = latch  BY <1>18, <2>2, <2>4
  <2>5. CASE \E k \in 1..x : station[k].op = i
    <3>1. PICK k \in 1..x : station[k].op = i  BY <2>5
    <3>2. k \in 1..y /\ a[k].op = i  BY <1>4, <1>17, <3>1
    <3> QED BY <3>2
  <2> QED BY <2>3, <2>4, <2>5
<1> QED BY <1>2, <1>21, <1>22

-----------------------------------------------------------------------------
(* The second loop of the unit. *)

\* The entries of a station without one of them.
OneLess(s, t, p) ==
    /\ Len(t) = Len(s) - 1
    /\ \A i \in 1..Len(t) : \E j \in 1..Len(s) : j # p /\ t[i] = s[j]
    /\ \A j \in 1..Len(s) : j # p => \E i \in 1..Len(t) : t[i] = s[j]
    /\ Increasing(s) => Increasing(t)

LEMMA RemovedEntries ==
    ASSUME NEW S, NEW s \in Seq(S), NEW p \in 1..Len(s), NEW t, t = RemoveAt(s, p)
    PROVE  OneLess(s, t, p)
<1>1. PICK n \in Nat : n = Len(s)  BY LenProperties
<1>2. /\ Len(t) = n - 1
      /\ \A j \in 1..(n - 1) : j < p => t[j] = s[j]
      /\ \A j \in 1..(n - 1) : ~(j < p) => t[j] = s[j + 1]
  BY <1>1, RemovedAt
<1>3. p \in 1..n  BY <1>1
<1>4. \A i \in 1..(n - 1) : \E j \in 1..n : j # p /\ t[i] = s[j]
  <2> TAKE i \in 1..(n - 1)
  <2>1. CASE i < p
    <3>1. i \in 1..n /\ i # p  BY <1>1, <1>3, <2>1
    <3> QED BY <1>2, <2>1, <3>1
  <2>2. CASE ~(i < p)
    <3>1. i + 1 \in 1..n /\ i + 1 # p  BY <1>1, <1>3, <2>2
    <3> QED BY <1>2, <2>2, <3>1
  <2> QED BY <2>1, <2>2
<1>5. \A j \in 1..n : j # p => \E i \in 1..(n - 1) : t[i] = s[j]
  <2> SUFFICES ASSUME NEW j \in 1..n, j # p
               PROVE  \E i \in 1..(n - 1) : t[i] = s[j]
    OBVIOUS
  <2>1. CASE j < p
    <3>1. j \in 1..(n - 1)  BY <1>1, <1>3, <2>1
    <3> QED BY <1>2, <2>1, <3>1
  <2>2. CASE ~(j < p)
    <3>1. j - 1 \in 1..(n - 1) /\ ~(j - 1 < p) /\ (j - 1) + 1 = j
      BY <1>1, <1>3, <2>2
    <3> QED BY <1>2, <3>1
  <2> QED BY <2>1, <2>2
<1>6. Increasing(s) => Increasing(t)
  <2> SUFFICES ASSUME Increasing(s), NEW i \in 1..(n - 1), NEW j \in 1..(n - 1), i < j
               PROVE  t[i].op < t[j].op
    BY <1>2 DEF Increasing
  <2>1. i \in 1..n /\ j \in 1..n /\ i + 1 \in 1..n /\ j + 1 \in 1..n
        /\ i < j + 1 /\ i + 1 < j + 1
    BY <1>1
  <2>2. s[i].op < s[j].op /\ s[i].op < s[j + 1].op /\ s[i + 1].op < s[j + 1].op
    BY <1>1, <2>1 DEF Increasing
  <2>3. CASE i < p /\ j < p  BY <1>2, <2>2, <2>3
  <2>4. CASE i < p /\ ~(j < p)  BY <1>2, <2>2, <2>4
  <2>5. CASE ~(i < p)
    <3>1. ~(j < p)  BY <1>3, <2>5
    <3> QED BY <1>2, <2>2, <2>5, <3>1
  <2> QED BY <2>3, <2>4, <2>5
<1> QED BY <1>1, <1>2, <1>4, <1>5, <1>6 DEF OneLess

\* Only the head of the read queue can be ready.
LEMMA ReadyIsFirst ==
    ASSUME NEW A, NEW q \in Seq(Queued(A)), NEW s, NEW state, NEW n,
           QueueInOrder(s, q, state, n), NEW a, ReadyFor(q, a) # 0
    PROVE  /\ ReadyFor(q, a) = 1 /\ 1 \in 1..Len(q) /\ Ready(q[1], a)
           /\ q[1].op <= n
<1>1. PICK k : k = ReadyFor(q, a)  OBVIOUS
<1>2. k \in 1..Len(q) /\ Ready(q[k], a)  BY <1>1, FirstReady
<1>3. ~Waiting(q[k])  BY <1>2 DEF Ready, Waiting
<1>4. k = 1 /\ q[k].op <= n  BY <1>2, <1>3 DEF QueueInOrder
<1> QED BY <1>1, <1>2, <1>4

\* From s to t the pth entry has left the station, a load with its data.
Left(s, t, p) ==
    /\ p \in 1..Len(s.station)
    /\ t.station = RemoveAt(s.station, p)
    /\ t.retired = s.retired \cup {s.station[p].op}
    /\ \/ s.station[p].state = "replay" /\ t.out.op = s.station[p].op
       \/ s.station[p].state = "completed" /\ t.out = s.out
    /\ s.station[p].state = "replay" =>
         \A j \in 1..(p - 1) : IsStore(s.station[j].op)

LEMMA DistinctEntries ==
    ASSUME TypeOK, NEW s \in Swept(Access), Increasing(s.station)
    PROVE  /\ \A k \in 1..Len(s.station) : s.station[k].op \in Nat \cap Access
           /\ \A j, k \in 1..Len(s.station) : s.station[j].op = s.station[k].op => j = k
           /\ \A j, k \in 1..Len(s.station) : s.station[j].op < s.station[k].op => j < k
<1>1. PICK q \in Seq(Entry(Access)) : q = s.station  BY DEF Swept
<1>2. PICK x \in Nat : x = Len(q)  BY <1>1, LenProperties
<1>3. \A k \in 1..x : q[k].op \in Nat \cap Access
  <2> TAKE k \in 1..x
  <2>1. q[k] \in Entry(Access)  BY <1>2, ElementOfSeq
  <2>2. q[k].op \in Access  BY <2>1 DEF Entry
  <2> QED BY <2>2, QueueTyped
<1>4. \A j, k \in 1..x : j < k => q[j].op < q[k].op
  BY <1>1, <1>2 DEF Increasing
<1>5. ASSUME NEW j \in 1..x, NEW k \in 1..x
      PROVE  /\ q[j].op = q[k].op => j = k
             /\ q[j].op < q[k].op => j < k
  <2>1. PICK g \in Nat, h \in Nat : g = q[j].op /\ h = q[k].op  BY <1>3
  <2>2. (j < k => g < h) /\ (k < j => h < g)  BY <1>4, <2>1
  <2>3. j < k \/ k < j \/ j = k  BY <1>2
  <2>4. (g = h => j = k) /\ (g < h => j < k)  BY <2>1, <2>2, <2>3
  <2> QED BY <2>1, <2>4
<1> QED BY <1>1, <1>2, <1>3, <1>5

\* The entry that takes data from the head of the read queue is the one whose
\* request that is, unless an earlier entry would take it.
LEMMA OwnData ==
    ASSUME TypeOK, NEW n \in Nat, NEW s \in Swept(Access), StationInOrder(s, n),
           NEW p \in 1..Len(s.station), NEW e, e = s.station[p],
           e.state = "replay", ReadyFor(s.readQ, Addr(e.op)) # 0,
           \A j \in 1..(p - 1) : ~Leaves(s, s.station[j])
    PROVE  /\ ReadyFor(s.readQ, Addr(e.op)) = 1 /\ 1 \in 1..Len(s.readQ)
           /\ s.readQ[1].op = e.op /\ e.op <= n
           /\ \A j \in 1..(p - 1) : IsStore(s.station[j].op)
<1>1. PICK q \in Seq(Queued(Access)) : q = s.readQ  BY DEF Swept
<1>2. QueueInOrder(s, q, "replay", n) /\ Increasing(s.station)
      /\ \A k \in 1..Len(s.station) : EntryInOrder(s, s.station[k], n)
  BY <1>1 DEF StationInOrder
<1>3. PICK a : a = Addr(e.op)  OBVIOUS
<1>4. ReadyFor(q, a) = 1 /\ 1 \in 1..Len(q) /\ Ready(q[1], a) /\ q[1].op <= n
  BY <1>1, <1>2, <1>3, ReadyIsFirst
<1>5. PICK x \in Nat : x = Len(s.station)
  <2>1. s.station \in Seq(Entry(Access))  BY DEF Swept
  <2> QED BY <2>1, LenProperties
<1>6. /\ \A k \in 1..x : s.station[k].op \in Nat \cap Access
      /\ \A j, k \in 1..x : s.station[j].op = s.station[k].op => j = k
      /\ \A j, k \in 1..x : s.station[j].op < s.station[k].op => j < k
      /\ \A j, k \in 1..x : j < k => s.station[j].op < s.station[k].op
  BY <1>2, <1>5, DistinctEntries DEF Increasing
<1>7. p \in 1..x  BY <1>5
<1>8. PICK k \in 1..Len(q) : q[k].op = e.op
  <2>1. EntryInOrder(s, e, n)  BY <1>2
  <2> QED BY <1>1, <2>1 DEF EntryInOrder, Requesting
<1>9. k = 1
  <2> SUFFICES ASSUME k # 1 PROVE FALSE  OBVIOUS
  <2>1. 1 < k
    <3>1. PICK y \in Nat : y = Len(q)  BY LenProperties
    <3>2. k \in 1..y  BY <3>1
    <3> QED BY <3>1, <3>2
  <2>2. q[1].op < q[k].op  BY <1>2, <1>4, <2>1 DEF QueueInOrder
  <2>3. PICK j \in 1..x : s.station[j].op = q[1].op /\ s.station[j].state = "replay"
    BY <1>2, <1>4, <1>5 DEF QueueInOrder
  <2>4. j < p  BY <1>6, <1>7, <1>8, <2>2, <2>3
  <2>5. j \in 1..(p - 1)  BY <1>5, <1>7, <2>4
  <2>6. Addr(s.station[j].op) = a  BY <1>4, <2>3 DEF Ready
  <2>7. Leaves(s, s.station[j])  BY <1>1, <1>4, <2>3, <2>6 DEF Leaves
  <2> QED BY <2>5, <2>7
<1>10. \A j \in 1..(p - 1) : IsStore(s.station[j].op)
  <2> SUFFICES ASSUME NEW j \in 1..(p - 1), ~IsStore(s.station[j].op) PROVE FALSE
    OBVIOUS
  <2>1. j \in 1..x /\ j < p  BY <1>5, <1>7
  <2>2. PICK d : d = s.station[j]  OBVIOUS
  <2>3. EntryInOrder(s, d, n) /\ d.op < e.op /\ d.op \in Nat /\ e.op \in Nat
    BY <1>2, <1>5, <1>6, <1>7, <2>1, <2>2
  <2>4. d.state \in EntryState
    <3>1. s.station \in Seq(Entry(Access))  BY DEF Swept
    <3>2. d \in Entry(Access)  BY <1>5, <2>1, <2>2, <3>1, ElementOfSeq
    <3> QED BY <3>2 DEF Entry
  <2>5. d.state # "addrcalc"
    <3>1. e.op <= n  BY <1>4, <1>8, <1>9
    <3> QED BY <2>3, <3>1 DEF EntryInOrder
  <2>6. d.state = "replay"
    BY <2>2, <2>3, <2>4, <2>5 DEF EntryInOrder, EntryState
  <2>7. PICK h \in 1..Len(q) : q[h].op = d.op
    BY <1>1, <2>3, <2>6 DEF EntryInOrder, Requesting
  <2>8. PICK y \in Nat : y = Len(q)  BY LenProperties
  <2>9. h \in 1..y  BY <2>8
  <2>10. h = 1 \/ 1 < h  BY <2>8, <2>9
  <2>11. CASE h = 1
    <3>1. d.op = e.op  BY <1>8, <1>9, <2>7, <2>11
    <3> QED BY <2>3, <3>1
  <2>12. CASE 1 < h
    <3>1. q[1].op < q[h].op  BY <1>2, <1>4, <2>12 DEF QueueInOrder
    <3> QED BY <1>8, <1>9, <2>3, <2>7, <3>1
  <2> QED BY <2>10, <2>11, <2>12
<1> QED BY <1>1, <1>3, <1>4, <1>8, <1>9, <1>10

NoneReady(reads) == \A a : ReadyFor(reads, a) = 0

\* Every visit that lets an entry go leaves the rest of the lane in order.
LEMMA LeavingKeepsOrder ==
    ASSUME TypeOK, NEW n \in Nat, NEW s \in Swept(Access), StationInOrder(s, n),
           Pending(s, 0, n), NEW p \in 1..Len(s.station), NEW e, e = s.station[p],
           Leaves(s, e), \A j \in 1..(p - 1) : ~Leaves(s, s.station[j]),
           NEW t \in Swept(Access), t.station = RemoveAt(s.station, p),
           t.readQ = ReadsAfter(s, e), t.writeQ = s.writeQ,
           t.retired = s.retired \cup {e.op}
    PROVE  /\ StationInOrder(t, n) /\ Pending(t, 0, n)
           /\ e.state = "replay" => NoneReady(t.readQ)
<1>1. PICK q \in Seq(Queued(Access)), w \in Seq(Queued(Access)) :
        q = s.readQ /\ w = s.writeQ
  BY DEF Swept
<1>2. /\ QueueInOrder(s, q, "replay", n) /\ QueueInOrder(s, w, "completed", n)
      /\ \A k \in 1..Len(w) : w[k].value = w[k].op
      /\ Increasing(s.station)
      /\ \A k \in 1..Len(s.station) : EntryInOrder(s, s.station[k], n)
  BY <1>1 DEF StationInOrder
<1>3. PICK b \in Seq(Entry(Access)), c \in Seq(Entry(Access)) :
        b = s.station /\ c = t.station
  BY DEF Swept
<1>4. PICK x \in Nat, y \in Nat, m \in Nat : x = Len(b) /\ y = Len(c) /\ m = Len(q)
  BY <1>1, <1>3, LenProperties
<1>5. /\ \A i \in 1..y : \E j \in 1..x : j # p /\ c[i] = b[j]
      /\ \A j \in 1..x : j # p => \E i \in 1..y : c[i] = b[j]
      /\ Increasing(c) /\ p \in 1..x /\ e = b[p]
  <2>1. c = RemoveAt(b, p) /\ p \in 1..Len(b)  BY <1>3
  <2>2. OneLess(b, c, p)  BY <2>1, RemovedEntries
  <2>3. Increasing(b) /\ e = b[p]  BY <1>2, <1>3
  <2> QED BY <1>4, <2>1, <2>2, <2>3 DEF OneLess
<1>6. /\ \A k \in 1..x : b[k].op \in Nat
      /\ \A j, k \in 1..x : b[j].op = b[k].op => j = k
  BY <1>2, <1>3, <1>4, DistinctEntries
<1>7. \A k \in 1..x : EntryInOrder(s, b[k], n)  BY <1>2, <1>3, <1>4
<1>8. PICK u \in Seq(Queued(Access)) : u = t.readQ  BY DEF Swept
<1>9. CASE e.state = "replay"
  <2>1. ReadyFor(q, Addr(e.op)) # 0  BY <1>1, <1>9 DEF Leaves
  <2>2. ReadyFor(q, Addr(e.op)) = 1 /\ 1 \in 1..m /\ q[1].op = e.op /\ e.op <= n
    <3>1. ReadyFor(s.readQ, Addr(e.op)) # 0  BY <1>1, <2>1
    <3>2. ReadyFor(s.readQ, Addr(e.op)) = 1 /\ 1 \in 1..Len(s.readQ)
          /\ s.readQ[1].op = e.op /\ e.op <= n
      BY <1>9, <3>1, OwnData
    <3> QED BY <1>1, <1>4, <3>2
  <2>3. u = RemoveAt(q, 1)  BY <1>1, <1>8, <1>9, <2>2 DEF ReadsAfter
  <2>4. Len(u) = m - 1 /\ \A k \in 1..(m - 1) : u[k] = q[k + 1] /\ k + 1 \in 1..m
    <3>1. /\ Len(u) = m - 1
          /\ \A k \in 1..(m - 1) : ~(k < 1) => u[k] = q[k + 1]
      BY <1>4, <2>2, <2>3, RemovedAt
    <3>2. \A k \in 1..(m - 1) : ~(k < 1) /\ k + 1 \in 1..m  BY <1>4
    <3> QED BY <3>1, <3>2
  <2>5. /\ \A j, k \in 1..m : j < k => q[j].op < q[k].op
        /\ \A k \in 1..m :
             /\ Waiting(q[k]) => q[k].op = n + 1
             /\ k # 1 => Waiting(q[k])
             /\ \E j \in 1..x : b[j].op = q[k].op /\ b[j].state = "replay"
    BY <1>2, <1>3, <1>4 DEF QueueInOrder
  <2>6. \A k \in 1..(m - 1) : k + 1 # 1 /\ 1 < k + 1  BY <1>4
  <2>7. \A k \in 1..(m - 1) : Waiting(u[k]) /\ u[k].op = n + 1
    <3> TAKE k \in 1..(m - 1)
    <3>1. u[k] = q[k + 1] /\ k + 1 \in 1..m /\ k + 1 # 1  BY <2>4, <2>6
    <3> QED BY <2>5, <3>1
  <2>8. \A j, k \in 1..(m - 1) : j < k => u[j].op < u[k].op
    <3> SUFFICES ASSUME NEW j \in 1..(m - 1), NEW k \in 1..(m - 1), j < k
                 PROVE  u[j].op < u[k].op
      OBVIOUS
    <3>1. j + 1 < k + 1 /\ j + 1 \in 1..m /\ k + 1 \in 1..m  BY <1>4
    <3> QED BY <2>4, <2>5, <3>1
  <2>9. \A k \in 1..(m - 1) : \E i \in 1..y : c[i].op = u[k].op /\ c[i].state = "replay"
    <3> TAKE k \in 1..(m - 1)
    <3>1. u[k] = q[k + 1] /\ k + 1 \in 1..m /\ 1 < k + 1  BY <2>4, <2>6
    <3>2. PICK j \in 1..x : b[j].op = u[k].op /\ b[j].state = "replay"
      BY <2>5, <3>1
    <3>3. u[k].op = n + 1  BY <2>7
    <3>4. j # p  BY <1>5, <2>2, <3>2, <3>3
    <3> QED BY <1>5, <3>2, <3>4
  <2>10. QueueInOrder(t, u, "replay", n)
    <3>1. Len(u) = m - 1 /\ t.station = c /\ Len(c) = y  BY <1>3, <1>4, <2>4
    <3> QED BY <2>7, <2>8, <2>9, <3>1 DEF QueueInOrder
  <2>11. \A k \in 1..Len(w) : \E i \in 1..y : c[i].op = w[k].op /\ c[i].state = "completed"
    <3> TAKE k \in 1..Len(w)
    <3>1. PICK j \in 1..x : b[j].op = w[k].op /\ b[j].state = "completed"
      BY <1>2, <1>3, <1>4 DEF QueueInOrder
    <3>2. j # p  BY <1>5, <1>9, <3>1
    <3> QED BY <1>5, <3>1, <3>2
  <2>12. QueueInOrder(t, w, "completed", n)
    BY <1>2, <1>3, <1>4, <2>11 DEF QueueInOrder
  <2>13. \A j \in 1..x : j # p => EntryInOrder(t, b[j], n)
    <3> SUFFICES ASSUME NEW j \in 1..x, j # p PROVE EntryInOrder(t, b[j], n)  OBVIOUS
    <3>1. PICK d : d = b[j]  OBVIOUS
    <3>2. EntryInOrder(s, d, n) /\ d.op # e.op  BY <1>5, <1>6, <1>7, <3>1
    <3>3. d.state = "replay" => Requesting(u, d.op)
      <4> SUFFICES ASSUME d.state = "replay" PROVE Requesting(u, d.op)  OBVIOUS
      <4>1. PICK k \in 1..m : q[k].op = d.op
        BY <1>1, <1>4, <3>2 DEF EntryInOrder, Requesting
      <4>2. k # 1  BY <2>2, <3>2, <4>1
      <4>3. k - 1 \in 1..(m - 1) /\ (k - 1) + 1 = k  BY <1>4, <4>2
      <4>4. u[k - 1].op = d.op  BY <2>4, <4>1, <4>3
      <4> QED BY <2>4, <4>3, <4>4 DEF Requesting
    <3>4. d.op \notin t.retired  BY <3>2 DEF EntryInOrder
    <3>5. EntryInOrder(t, d, n)  BY <1>8, <3>2, <3>3, <3>4 DEF EntryInOrder
    <3> QED BY <3>1, <3>5
  <2>14. \A k \in 1..y : EntryInOrder(t, c[k], n)
    <3> TAKE k \in 1..y
    <3>1. PICK j \in 1..x : j # p /\ c[k] = b[j]  BY <1>5
    <3> QED BY <2>13, <3>1
  <2>15. StationInOrder(t, n)
    BY <1>1, <1>2, <1>3, <1>4, <1>5, <1>8, <2>10, <2>12, <2>14 DEF StationInOrder
  <2>16. Pending(t, 0, n)
    <3> SUFFICES ASSUME NEW i \in (n + 1)..Len(program)
                 PROVE  \E k \in 1..y : c[k].op = i
      BY <1>3, <1>4 DEF Pending
    <3>1. Len(program) \in Nat  BY PerformedTyped
    <3>2. PICK z \in Nat : z = Len(program)  BY <3>1
    <3>3. i \in (n + 1)..z  BY <3>2
    <3>4. i # 0 /\ i > n /\ i \in Nat  BY <3>2, <3>3
    <3>5. PICK j \in 1..x : b[j].op = i  BY <1>3, <1>4, <3>4 DEF Pending
    <3>6. j # p
      <4>1. e.op \in Nat  BY <1>5, <1>6
      <4> QED BY <1>5, <2>2, <3>4, <3>5, <4>1
    <3> QED BY <1>5, <3>5, <3>6
  <2>17. NoneReady(u)
    <3> SUFFICES ASSUME NEW a PROVE ReadyFor(u, a) = 0  BY DEF NoneReady
    <3>1. \A k \in 1..Len(u) : ~Ready(u[k], a)
      BY <2>4, <2>7 DEF Ready, Waiting
    <3> QED BY <3>1, FirstReady
  <2> QED BY <1>8, <2>15, <2>16, <2>17
<1>10. CASE e.state # "replay"
  <2>1. e.state = "completed" /\ HasDataWritten(w, Addr(e.op))
    BY <1>1, <1>10 DEF Leaves
  <2>2. u = q  BY <1>1, <1>8, <1>10 DEF ReadsAfter
  <2>3. DOMAIN w = 1..Len(w)  BY LenProperties
  <2>4. \A k \in 1..Len(w) : w[k].op # e.op
    BY <2>1, <2>3 DEF HasDataWritten
  <2>5. e.op <= n
    <3>1. EntryInOrder(s, e, n) /\ e.op \in Nat  BY <1>5, <1>6, <1>7
    <3>2. ~Requesting(w, e.op)  BY <2>4 DEF Requesting
    <3>3. ~(e.op > n)  BY <1>1, <2>1, <3>1, <3>2 DEF EntryInOrder
    <3> QED BY <3>1, <3>3
  <2>6. \A k \in 1..Len(q) : \E i \in 1..y : c[i].op = q[k].op /\ c[i].state = "replay"
    <3> TAKE k \in 1..Len(q)
    <3>1. PICK j \in 1..x : b[j].op = q[k].op /\ b[j].state = "replay"
      BY <1>2, <1>3, <1>4 DEF QueueInOrder
    <3>2. j # p  BY <1>5, <1>10, <3>1
    <3> QED BY <1>5, <3>1, <3>2
  <2>7. \A k \in 1..Len(w) : \E i \in 1..y : c[i].op = w[k].op /\ c[i].state = "completed"
    <3> TAKE k \in 1..Len(w)
    <3>1. PICK j \in 1..x : b[j].op = w[k].op /\ b[j].state = "completed"
      BY <1>2, <1>3, <1>4 DEF QueueInOrder
    <3>2. j # p  BY <1>5, <2>4, <3>1
    <3> QED BY <1>5, <3>1, <3>2
  <2>8. QueueInOrder(t, q, "replay", n) /\ QueueInOrder(t, w, "completed", n)
    <3>1. QueueInOrder(t, q, "replay", n)
      BY <1>2, <1>3, <1>4, <2>6 DEF QueueInOrder
    <3>2. QueueInOrder(t, w, "completed", n)
      BY <1>2, <1>3, <1>4, <2>7 DEF QueueInOrder
    <3> QED BY <3>1, <3>2
  <2>9. \A j \in 1..x : j # p => EntryInOrder(t, b[j], n)
    <3> SUFFICES ASSUME NEW j \in 1..x, j # p PROVE EntryInOrder(t, b[j], n)  OBVIOUS
    <3>1. PICK d : d = b[j]  OBVIOUS
    <3>2. EntryInOrder(s, d, n) /\ d.op # e.op  BY <1>5, <1>6, <1>7, <3>1
    <3>3. EntryInOrder(t, d, n)  BY <1>1, <1>8, <2>2, <3>2 DEF EntryInOrder
    <3> QED BY <3>1, <3>3
  <2>10. \A k \in 1..y : EntryInOrder(t, c[k], n)
    <3> TAKE k \in 1..y
    <3>1. PICK j \in 1..x : j # p /\ c[k] = b[j]  BY <1>5
    <3> QED BY <2>9, <3>1
  <2>11. StationInOrder(t, n)
    BY <1>1, <1>2, <1>3, <1>4, <1>5, <1>8, <2>2, <2>8, <2>10 DEF StationInOrder
  <2>12. Pending(t, 0, n)
    <3> SUFFICES ASSUME NEW i \in (n + 1)..Len(program)
                 PROVE  \E k \in 1..y : c[k].op = i
      BY <1>3, <1>4 DEF Pending
    <3>1. Len(program) \in Nat  BY PerformedTyped
    <3>2. PICK z \in Nat : z = Len(program)  BY <3>1
    <3>3. i \in (n + 1)..z  BY <3>2
    <3>4. i # 0 /\ i > n /\ i \in Nat  BY <3>2, <3>3
    <3>5. PICK j \in 1..x : b[j].op = i  BY <1>3, <1>4, <3>4 DEF Pending
    <3>6. j # p
      <4>1. e.op \in Nat  BY <1>5, <1>6
      <4> QED BY <1>5, <2>5, <3>4, <3>5, <4>1
    <3> QED BY <1>5, <3>5, <3>6
  <2> QED BY <1>10, <2>11, <2>12
<1> QED BY <1>9, <1>10

\* A visit lets the entry go or changes nothing.  k is the slot of the vector
\* that is visited: with one entry left, the stale second slot as well.
LEMMA VisitOutcome ==
    ASSUME TypeOK, NEW n \in Nat, NEW s \in Swept(Access), StationInOrder(s, n),
           Pending(s, 0, n), NEW p \in 1..Len(s.station), NEW e, e = s.station[p],
           \A j \in 1..(p - 1) : ~Leaves(s, s.station[j]),
           NEW k \in Nat \ {0}, k = p \/ (Len(s.station) = 1 /\ k = 2),
           NEW t, t = Visit(s, k, e)
    PROVE  /\ t \in Swept(Access)
           /\ StationInOrder(t, n) /\ Pending(t, 0, n)
           /\ ~Leaves(s, e) => t = s
           /\ Leaves(s, e) => /\ Left(s, t, p)
                              /\ e.state = "replay" => NoneReady(t.readQ)
<1>1. s.station \in Seq(Entry(Access)) /\ s.readQ \in Seq(Queued(Access))  BY DEF Swept
<1>2. e \in Entry(Access) /\ s.station # <<>>
  <2>1. s.station = <<>> => Len(s.station) = 0  BY EmptySeq
  <2>2. s.station # <<>>  BY <2>1
  <2> QED BY <1>1, <2>2, ElementOfSeq
<1>3. /\ t \in Swept(Access) /\ t.writeQ = s.writeQ
      /\ ~Leaves(s, e) => t = s
      /\ Leaves(s, e) => t.station = Without(s.station, k) /\ t.readQ = ReadsAfter(s, e)
  <2>1. /\ Visit(s, k, e) \in Swept(Access) /\ Visit(s, k, e).writeQ = s.writeQ
        /\ ~Leaves(s, e) => Visit(s, k, e) = s
        /\ Leaves(s, e) => /\ Visit(s, k, e).station = Without(s.station, k)
                           /\ Visit(s, k, e).readQ = ReadsAfter(s, e)
    BY <1>2, VisitEffect
  <2> QED BY <2>1
<1>4. CASE ~Leaves(s, e)  BY <1>3, <1>4
<1>5. CASE Leaves(s, e)
  <2>1. Without(s.station, k) = RemoveAt(s.station, p)
    <3>1. CASE k = p
      <4>1. PICK x \in Nat : x = Len(s.station)  BY <1>1, LenProperties
      <4>2. k <= x  BY <3>1, <4>1
      <4> QED BY <3>1, <4>1, <4>2 DEF Without
    <3>2. CASE Len(s.station) = 1 /\ k = 2
      <4>1. Without(s.station, k) \in Seq(Entry(Access))
            /\ Len(Without(s.station, k)) = Len(s.station) - 1
        BY <1>1, <1>2, WithoutTyped
      <4>2. RemoveAt(s.station, p) \in Seq(Entry(Access))
            /\ Len(RemoveAt(s.station, p)) = Len(s.station) - 1
        BY <1>1, RemovedAt
      <4>3. PICK u \in Seq(Entry(Access)), v \in Seq(Entry(Access)) :
              u = Without(s.station, k) /\ v = RemoveAt(s.station, p)
        BY <4>1, <4>2
      <4>4. Len(u) = 0 /\ Len(v) = 0  BY <3>2, <4>1, <4>2, <4>3
      <4>5. u = <<>> /\ v = <<>>  BY <4>4, EmptySeq
      <4> QED BY <4>3, <4>5
    <3> QED BY <3>1, <3>2
  <2>2. t.station = RemoveAt(s.station, p) /\ t.readQ = ReadsAfter(s, e)
    BY <1>3, <1>5, <2>1
  <2>3. /\ t.retired = s.retired \cup {e.op}
        /\ e.state = "replay" => t.out.op = e.op
        /\ e.state # "replay" => t.out = s.out
    <3>1. PICK w : w = Without(s.station, k)  OBVIOUS
    <3>2. Let(s, k) = [s EXCEPT !.station = w]  BY <3>1 DEF Let, Without
    <3>3. PICK g : g = Let(s, k)  OBVIOUS
    <3>4. g.retired = s.retired /\ g.out = s.out
          /\ DOMAIN g = {"station", "out", "readQ", "writeQ", "retired"}
      BY <3>2, <3>3 DEF Swept
    <3>5. CASE e.state = "replay"
      <4>1. ReadyFor(s.readQ, Addr(e.op)) # 0  BY <1>5, <3>5 DEF Leaves
      <4>2. PICK a, b : /\ a = [op |-> e.op,
                                value |-> s.readQ[ReadyFor(s.readQ, Addr(e.op))].value]
                        /\ b = RemoveAt(g.readQ, ReadyFor(s.readQ, Addr(e.op)))
        OBVIOUS
      <4>3. t = [g EXCEPT !.out = a, !.readQ = b, !.retired = @ \cup {e.op}]
        BY <3>3, <3>5, <4>1, <4>2 DEF Visit
      <4>4. PICK r : r = g.retired \cup {e.op}  OBVIOUS
      <4>5. t = [g EXCEPT !.out = a, !.readQ = b, !.retired = r]  BY <4>3, <4>4
      <4>6. t.out = a /\ t.retired = r  BY <3>4, <4>5
      <4>7. a.op = e.op  BY <4>2
      <4> QED BY <3>4, <3>5, <4>4, <4>6, <4>7
    <3>6. CASE e.state # "replay"
      <4>1. e.state = "completed" /\ HasDataWritten(s.writeQ, Addr(e.op))
        BY <1>5, <3>6 DEF Leaves
      <4>2. t = [g EXCEPT !.retired = @ \cup {e.op}]
        BY <3>3, <3>6, <4>1 DEF Visit
      <4> QED BY <3>4, <3>6, <4>2
    <3> QED BY <3>5, <3>6
  <2>4. /\ StationInOrder(t, n) /\ Pending(t, 0, n)
        /\ e.state = "replay" => NoneReady(t.readQ)
    BY <1>3, <1>5, <2>2, <2>3, LeavingKeepsOrder
  <2>5. e.state = "replay" \/ e.state = "completed"  BY <1>5 DEF Leaves
  <2>6. e.state = "replay" => \A j \in 1..(p - 1) : IsStore(s.station[j].op)
    <3> SUFFICES ASSUME e.state = "replay"
                 PROVE  \A j \in 1..(p - 1) : IsStore(s.station[j].op)
      OBVIOUS
    <3>1. ReadyFor(s.readQ, Addr(e.op)) # 0  BY <1>5 DEF Leaves
    <3> QED BY <3>1, OwnData
  <2>7. Left(s, t, p)  BY <2>2, <2>3, <2>5, <2>6 DEF Left
  <2> QED BY <1>3, <1>5, <2>4, <2>7
<1> QED BY <1>4, <1>5

\* What the sweep comes to, whatever the stale slot reads as: nothing leaves,
\* one entry, or both, which are not both loads.
SweptFrom(s, t) ==
    \/ t = s
    \/ \E p \in 1..Len(s.station) : Left(s, t, p)
    \/ \E u : /\ Len(s.station) = 2 /\ Left(s, u, 1) /\ Left(u, t, 1)
              /\ u.station = <<s.station[2]>>
              /\ ~(s.station[1].state = "replay" /\ s.station[2].state = "replay")

LEMMA SweepOutcome ==
    ASSUME TypeOK, NEW n \in Nat, NEW s \in Swept(Access), StationInOrder(s, n),
           Pending(s, 0, n), Len(s.station) \in 0..2, NEW ghost,
           NEW t, t = Sweep(s, ghost)
    PROVE  /\ t \in Swept(Access) /\ StationInOrder(t, n) /\ Pending(t, 0, n)
           /\ SweptFrom(s, t)
<1>1. PICK x \in 0..2 : x = Len(s.station)  OBVIOUS
<1>2. s.station \in Seq(Entry(Access))  BY DEF Swept
<1>3. PICK f : /\ f[0] = s
               /\ \A k \in 1..x : f[k] = Walk(s, ghost, f[k - 1], k)
               /\ t = f[x]
  <2>1. Len(s.station) \in Nat  OBVIOUS
  <2> QED BY <1>1, <2>1, SweepSteps
<1>4. CASE x = 0
  BY <1>3, <1>4 DEF SweptFrom
<1>5. CASE x # 0
  <2>1. 1 \in 1..x /\ 1 - 1 = 0 /\ 1 <= x  BY <1>5
  <2>2. PICK u : u = f[1]  OBVIOUS
  <2>3. u = Walk(s, ghost, s, 1)  BY <1>3, <2>1, <2>2
  <2>4. u = Visit(s, 1, s.station[1])  BY <1>1, <2>1, <2>3 DEF Walk
  <2>5. PICK e : e = s.station[1]  OBVIOUS
  <2>6. /\ u \in Swept(Access) /\ StationInOrder(u, n) /\ Pending(u, 0, n)
        /\ ~Leaves(s, e) => u = s
        /\ Leaves(s, e) => Left(s, u, 1)
                           /\ (e.state = "replay" => NoneReady(u.readQ))
    <3>1. \A j \in 1..(1 - 1) : ~Leaves(s, s.station[j])  OBVIOUS
    <3>2. 1 \in 1..Len(s.station) /\ 1 \in Nat \ {0} /\ u = Visit(s, 1, e)
      BY <1>1, <2>1, <2>4, <2>5
    <3>3. u \in Swept(Access) /\ StationInOrder(u, n) /\ Pending(u, 0, n)
      BY <2>5, <3>1, <3>2, VisitOutcome
    <3>4. ~Leaves(s, e) => u = s
      BY <2>5, <3>1, <3>2, VisitOutcome
    <3>5. Leaves(s, e) => Left(s, u, 1)
      BY <2>5, <3>1, <3>2, VisitOutcome
    <3>6. Leaves(s, e) /\ e.state = "replay" => NoneReady(u.readQ)
      BY <2>5, <3>1, <3>2, VisitOutcome
    <3> QED BY <3>3, <3>4, <3>5, <3>6
  <2>7. CASE x = 1
    <3>1. t = u  BY <1>3, <2>2, <2>7
    <3> QED BY <1>1, <2>1, <2>6, <3>1 DEF SweptFrom
  <2>8. CASE x = 2
    <3>1. 2 \in 1..x /\ 2 - 1 = 1 /\ 2 \in Nat \ {0}  BY <2>8
    <3>2. t = Walk(s, ghost, u, 2)  BY <1>3, <2>2, <2>8, <3>1
    <3>3. PICK d : d = s.station[2]  OBVIOUS
    <3>4. CASE ~Leaves(s, e)
      <4>1. u = s  BY <2>6, <3>4
      <4>2. t = Visit(s, 2, d)
        <5>1. 2 <= Len(s.station)  BY <1>1, <2>8
        <5> QED BY <3>2, <3>3, <4>1, <5>1 DEF Walk
      <4>3. \A j \in 1..(2 - 1) : ~Leaves(s, s.station[j])
        <5>1. \A j \in 1..(2 - 1) : j = 1  OBVIOUS
        <5> QED BY <2>5, <3>4, <5>1
      <4>4. 2 \in 1..Len(s.station)  BY <1>1, <2>8
      <4>5. /\ t \in Swept(Access) /\ StationInOrder(t, n) /\ Pending(t, 0, n)
            /\ ~Leaves(s, d) => t = s
            /\ Leaves(s, d) => Left(s, t, 2)
        BY <3>1, <3>3, <4>2, <4>3, <4>4, VisitOutcome
      <4> QED BY <4>4, <4>5 DEF SweptFrom
    <3>5. CASE Leaves(s, e)
      <4>1. Left(s, u, 1) /\ (e.state = "replay" => NoneReady(u.readQ))
        BY <2>6, <3>5
      <4>2. u.station = RemoveAt(s.station, 1)  BY <4>1 DEF Left
      <4>3. u.station \in Seq(Entry(Access)) /\ Len(u.station) = 1 /\ u.station[1] = d
        <5>1. /\ RemoveAt(s.station, 1) \in Seq(Entry(Access))
              /\ Len(RemoveAt(s.station, 1)) = x - 1
              /\ \A j \in 1..(x - 1) : ~(j < 1) => RemoveAt(s.station, 1)[j] = s.station[j + 1]
          BY <1>1, <1>2, <2>1, RemovedAt
        <5>2. 1 \in 1..(x - 1) /\ ~(1 < 1) /\ 1 + 1 = 2 /\ x - 1 = 1  BY <2>8
        <5> QED BY <3>3, <4>2, <5>1, <5>2
      <4>4. u.station = <<d>>
        <5>1. PICK b \in Seq(Entry(Access)) : b = u.station  BY <4>3
        <5>2. b = [j \in 1..Len(b) |-> b[j]]  BY LenProperties
        <5>3. Len(b) = 1 /\ b[1] = d  BY <4>3, <5>1
        <5>4. \A j \in 1..1 : j = 1  OBVIOUS
        <5>5. b = [j \in 1..1 |-> d]  BY <5>2, <5>3, <5>4
        <5>6. <<d>> = [j \in 1..1 |-> d]  OBVIOUS
        <5> QED BY <5>1, <5>5, <5>6
      <4>5. CASE ghost
        <5>1. t = Visit(u, 2, d)
          <6>1. ~(2 <= Len(u.station)) /\ u.station # <<>>
            <7>1. u.station = <<>> => Len(u.station) = 0  BY EmptySeq
            <7> QED BY <4>3, <7>1
          <6>2. Last(s.station) = d  BY <1>1, <2>8, <3>3 DEF Last
          <6> QED BY <3>2, <4>5, <6>1, <6>2 DEF Walk
        <5>2. \A j \in 1..(1 - 1) : ~Leaves(u, u.station[j])  OBVIOUS
        <5>3. 1 \in 1..Len(u.station)  BY <4>3
        <5>4. /\ t \in Swept(Access) /\ StationInOrder(t, n) /\ Pending(t, 0, n)
              /\ ~Leaves(u, d) => t = u
              /\ Leaves(u, d) => Left(u, t, 1)
          BY <2>6, <3>1, <4>3, <5>1, <5>2, <5>3, VisitOutcome
        <5>5. CASE ~Leaves(u, d)
          BY <1>1, <2>1, <4>1, <5>4, <5>5 DEF SweptFrom
        <5>6. CASE Leaves(u, d)
          <6>1. ~(e.state = "replay" /\ d.state = "replay")
            <7> SUFFICES ASSUME e.state = "replay", d.state = "replay" PROVE FALSE
              OBVIOUS
            <7>1. ReadyFor(u.readQ, Addr(d.op)) = 0  BY <4>1 DEF NoneReady
            <7> QED BY <5>6, <7>1 DEF Leaves
          <6> QED BY <1>1, <2>5, <2>8, <3>3, <4>1, <4>4, <5>4, <5>6, <6>1 DEF SweptFrom
        <5> QED BY <5>5, <5>6
      <4>6. CASE ~ghost
        <5>1. t = u
          <6>1. ~(2 <= Len(u.station))  BY <4>3
          <6> QED BY <3>2, <4>6, <6>1 DEF Walk
        <5> QED BY <1>1, <2>1, <2>6, <4>1, <5>1 DEF SweptFrom
      <4> QED BY <4>5, <4>6
    <3> QED BY <3>4, <3>5
  <2> QED BY <1>5, <2>7, <2>8
<1> QED BY <1>4, <1>5

LEMMA OrderUnitStep ==
    ASSUME OrderInv, NEW ghost \in BOOLEAN, UnitStep(ghost)
    PROVE  OrderInv' /\ SweptFrom(Start, Lane')
<1>1. LaneInv' /\ TypeOK  BY TypesStep DEF OrderInv, LaneInv, Next
<1>2. PICK n \in Nat : n = Performed  BY <1>1, PerformedTyped
<1>3. phase = "unit" /\ phase' = "deliver" /\ latch' = 0 /\ program' = program
      /\ busy' = busy /\ memory' = memory /\ observed' = observed
  BY DEF UnitStep
<1>4. PICK t : t = Sweep(Start, ghost)  OBVIOUS
<1>5. station' = t.station /\ out' = t.out /\ readQ' = t.readQ
      /\ writeQ' = t.writeQ /\ retired' = t.retired
  BY <1>4 DEF UnitStep, Start
<1>6. PICK s \in Swept(Access) : s = Start  BY <1>1, StartTyped
<1>7. StationInOrder(s, n) /\ Pending(s, 0, n)  BY <1>2, <1>3, <1>6, StartInOrder
<1>8. Len(s.station) = Len(Arrived) /\ Len(Arrived) \in 0..2
  BY <1>3, <1>6, AdvancedEntries, ArrivedEntries DEF Start
<1>9. t \in Swept(Access) /\ StationInOrder(t, n) /\ Pending(t, 0, n) /\ SweptFrom(s, t)
  BY <1>1, <1>4, <1>6, <1>7, <1>8, SweepOutcome
<1>10. t = Lane'
  <2>1. t = [station |-> t.station, out |-> t.out, readQ |-> t.readQ,
             writeQ |-> t.writeQ, retired |-> t.retired]
    BY <1>9 DEF Swept
  <2> QED BY <1>5, <2>1 DEF Lane
<1>11. Performed' = n  BY <1>2, <1>3 DEF Performed
<1>12. StationInOrder(Lane, Performed)'
  BY <1>3, <1>9, <1>10, <1>11 DEF StationInOrder, QueueInOrder, EntryInOrder, IsStore
<1>13. Pending(Lane, latch, Performed)'
  BY <1>3, <1>9, <1>10, <1>11 DEF Pending
<1>14. LatchInOrder' /\ FirstPerformed' /\ (Performed <= Len(program))'
  BY <1>2, <1>3, <1>11 DEF LatchInOrder, FirstPerformed, OrderInv
<1>15. MemoryUpToDate'
  <2>1. MemoryUpToDate  BY DEF OrderInv
  <2> QED BY <1>2, <1>3, <1>11, <2>1 DEF MemoryUpToDate, IsStore, Addr
<1>16. StationRoom'
  <2>1. PICK x \in 0..2 : x = Len(s.station)  BY <1>8
  <2>2. s.station \in Seq(Entry(Access)) /\ t.station \in Seq(Entry(Access))
    BY <1>9 DEF Swept
  <2>3. PICK y \in Nat : y = Len(t.station)  BY <2>2, LenProperties
  <2>4. y <= x
    <3>1. CASE t = s  BY <2>1, <2>3, <3>1
    <3>2. CASE \E p \in 1..Len(s.station) : Left(s, t, p)
      <4>1. PICK p \in 1..Len(s.station) : t.station = RemoveAt(s.station, p)
        BY <3>2 DEF Left
      <4>2. Len(RemoveAt(s.station, p)) = Len(s.station) - 1  BY <2>2, RemovedAt
      <4> QED BY <2>1, <2>3, <4>1, <4>2
    <3>3. CASE \E u : Len(s.station) = 2 /\ Left(u, t, 1) /\ u.station = <<s.station[2]>>
      <4>1. PICK u : Len(s.station) = 2 /\ Left(u, t, 1) /\ u.station = <<s.station[2]>>
        BY <3>3
      <4>2. PICK e : e = s.station[2]  OBVIOUS
      <4>3. <<e>> \in Seq({e}) /\ Len(<<e>>) = 1 /\ 1 \in 1..1  OBVIOUS
      <4>4. PICK g : g = <<e>>  OBVIOUS
      <4>5. Len(RemoveAt(g, 1)) = Len(g) - 1  BY <4>3, <4>4, RemovedAt
      <4>6. t.station = RemoveAt(g, 1)  BY <4>1, <4>2, <4>4 DEF Left
      <4> QED BY <2>1, <2>3, <4>1, <4>3, <4>4, <4>5, <4>6
    <3> QED BY <1>9, <3>1, <3>2, <3>3 DEF SweptFrom
  <2>5. ~busy => y <= 1
    <3> SUFFICES ASSUME ~busy PROVE y <= 1  OBVIOUS
    <3>1. station = <<>>  BY <1>3 DEF OrderInv, StationRoom
    <3>2. Len(station) = 0  BY <3>1, EmptySeq
    <3>3. Len(Arrived) <= 1
      <4>1. Len(Arrived) = Len(station) + (IF latch = 0 THEN 0 ELSE 1)  BY ArrivedEntries
      <4> QED BY <3>2, <4>1
    <3> QED BY <1>8, <2>1, <2>4, <3>3
  <2>6. Len(station') = y  BY <1>5, <2>3
  <2>7. y <= 2  BY <2>4
  <2> QED BY <1>3, <2>5, <2>6, <2>7 DEF StationRoom
<1> QED BY <1>1, <1>6, <1>9, <1>10, <1>12, <1>13, <1>14, <1>15, <1>16 DEF OrderInv

LEMMA OrderStep == OneEntry /\ OrderInv /\ [Next]_vars => OrderInv'
<1> SUFFICES ASSUME OneEntry, OrderInv, [Next]_vars PROVE OrderInv'  OBVIOUS
<1>1. CASE Preprocess \/ Bubble \/ UNCHANGED vars  BY <1>1, OrderQuiet
<1>2. CASE \E l, m \in Latencies : MemoryStep(l, m)  BY <1>2, OrderMemoryStep
<1>3. CASE \E ghost \in BOOLEAN : UnitStep(ghost)  BY <1>3, OrderUnitStep
<1>4. CASE \E kind \in {"load", "store"}, addr \in Addresses : Enter(kind, addr)
  BY <1>4, OrderEnter
<1> QED BY <1>1, <1>2, <1>3, <1>4 DEF Next

-----------------------------------------------------------------------------
(* What it says of the lane as a whole. *)

\* The last store to the address of an access, as the memory has it.
LEMMA LastStoreInMemory ==
    ASSUME OrderInv, NEW i \in Access, i = Performed + 1
    PROVE  memory[Addr(i)] = Abstract!LastStore(i)
<1>1. TypeOK  BY DEF OrderInv, LaneInv
<1>2. PICK n \in Nat : n = Performed  BY <1>1, PerformedTyped
<1>3. program \in Seq(Command) /\ memory \in [Addresses -> Access \cup {0}]
  BY <1>1, Types
<1>4. PICK a \in Addresses : a = Addr(i)  BY <1>3, AccessTyped
<1>5. PICK v : v = memory[a]  OBVIOUS
<1>6. /\ v # 0 => IsStore(v) /\ Addr(v) = a /\ v <= n
      /\ \A j \in 1..n : IsStore(j) /\ Addr(j) = a => j <= v
  BY <1>2, <1>5 DEF OrderInv, MemoryUpToDate
<1>7. v \in Access \cup {0} /\ Access \subseteq Nat \ {0}
  BY <1>3, <1>5, AccessTyped
<1> DEFINE older == {j \in 1..(i - 1) : /\ program[j].kind = "store"
                                        /\ program[j].addr = program[i].addr}
<1>8. older = {j \in 1..n : IsStore(j) /\ Addr(j) = a}
  <2>1. 1..(i - 1) = 1..n  BY <1>2
  <2> QED BY <1>4, <2>1 DEF IsStore, Addr
<1>9. Abstract!LastStore(i) = IF older = {} THEN 0
                              ELSE CHOOSE j \in older : \A k \in older : k <= j
  BY DEF Abstract!LastStore
<1> HIDE DEF older
<1>10. CASE older = {}
  <2>1. v = 0
    <3> SUFFICES ASSUME v # 0 PROVE FALSE  OBVIOUS
    <3>1. v \in 1..n  BY <1>2, <1>6, <1>7
    <3>2. v \in older  BY <1>6, <1>8, <3>1
    <3> QED BY <1>10, <3>2
  <2> QED BY <1>4, <1>5, <1>9, <1>10, <2>1
<1>11. CASE older # {}
  <2>1. PICK j \in older : TRUE  BY <1>11
  <2>2. v # 0
    <3>1. j \in 1..n /\ j <= v  BY <1>6, <1>8
    <3> QED BY <1>2, <3>1
  <2>3. v \in 1..n  BY <1>2, <1>6, <1>7, <2>2
  <2>4. v \in older /\ \A k \in older : k <= v  BY <1>6, <1>8, <2>2, <2>3
  <2>5. \A w \in older : (\A k \in older : k <= w) => w = v
    <3> SUFFICES ASSUME NEW w \in older, \A k \in older : k <= w PROVE w = v  OBVIOUS
    <3>1. w \in 1..n /\ v <= w /\ w <= v  BY <1>8, <2>4
    <3> QED BY <1>2, <2>3, <3>1
  <2>6. (CHOOSE w \in older : \A k \in older : k <= w) = v  BY <2>4, <2>5
  <2> QED BY <1>4, <1>5, <1>9, <1>11, <2>6
<1> QED BY <1>10, <1>11

\* The value a load is performed with is the one the memory holds.
LEMMA ReadHead ==
    ASSUME TypeOK, NEW l \in Latencies, Waits(readQ)
    PROVE  Head(ReadQueueAfter(l)).value = memory[Addr(Head(readQ).op)]
<1>1. readQ # <<>>  BY DEF Waits
<1>2. /\ readQ \in Seq(Queued(Access)) /\ program \in Seq(Command)
      /\ memory \in [Addresses -> Access \cup {0}]
  BY Types
<1>3. PICK h \in Queued(Access) : h = Head(readQ)  BY <1>1, <1>2, HeadAndTail
<1>4. memory[Addr(h.op)] \in Access \cup {0}
  <2>1. h.op \in Access  BY DEF Queued
  <2> QED BY <1>2, <2>1, AccessTyped
<1>5. PICK v \in Access \cup {0} : v = memory[Addr(h.op)]  BY <1>4
<1>6. PICK r \in Queued(Access) : r = [h EXCEPT !.value = v]  BY DEF Queued
<1>7. r.value = v  BY <1>6 DEF Queued
<1>8. PICK c : c = AfterCycle(r, l)  OBVIOUS
<1>9. c \in Queued(Access) /\ c.value = v  BY <1>7, <1>8, CycleTyped
<1>10. ReadQueueAfter(l) = <<c>> \o Tail(readQ)
  BY <1>1, <1>3, <1>5, <1>6, <1>8 DEF ReadQueueAfter
<1>11. PICK t : t = Tail(readQ)  OBVIOUS
<1>12. t \in Seq(Queued(Access))  BY <1>1, <1>2, <1>11, HeadTailProperties
<1>13. Head(<<c>> \o t) = c
  <2>1. <<c>> \in Seq(Queued(Access)) /\ Len(<<c>>) = 1 /\ <<c>>[1] = c  BY <1>9
  <2>2. PICK q \in Seq(Queued(Access)) : q = <<c>>  BY <2>1
  <2>3. PICK n \in Nat : n = Len(t)  BY <1>12, LenProperties
  <2>4. /\ q \o t \in Seq(Queued(Access)) /\ Len(q \o t) = 1 + n
        /\ (q \o t)[1] = q[1]
    BY <1>12, <2>1, <2>2, <2>3, ConcatProperties
  <2>5. PICK w \in Seq(Queued(Access)) : w = q \o t  BY <2>4
  <2>6. w # <<>>
    <3>1. Len(w) = 1 + n  BY <2>4, <2>5
    <3>2. Len(w) # 0  BY <2>3, <3>1
    <3> QED BY <3>2, EmptySeq
  <2>7. Head(w) = w[1]  BY <2>6, HeadAndTail
  <2> QED BY <2>1, <2>2, <2>4, <2>5, <2>7
<1> QED BY <1>3, <1>5, <1>9, <1>10, <1>11, <1>13

\* What a waiting request is for.
LEMMA WaitingAccess ==
    ASSUME OrderInv
    PROVE  /\ Waits(readQ) => /\ Head(readQ).op = Performed + 1
                              /\ Performed + 1 \in Access /\ ~IsStore(Performed + 1)
           /\ Waits(writeQ) => /\ Head(writeQ).op = Performed + 1
                               /\ Head(writeQ).value = Performed + 1
                               /\ Performed + 1 \in Access /\ IsStore(Performed + 1)
<1>1. TypeOK  BY DEF OrderInv, LaneInv
<1>2. PICK n \in Nat : n = Performed  BY <1>1, PerformedTyped
<1>3. /\ QueueInOrder(Lane, readQ, "replay", n) /\ QueueInOrder(Lane, writeQ, "completed", n)
      /\ \A k \in 1..Len(writeQ) : writeQ[k].value = writeQ[k].op
      /\ Lane.station = station
      /\ \A k \in 1..Len(station) : EntryInOrder(Lane, station[k], n)
  BY <1>2, QueuesOfLane
<1>4. /\ readQ \in Seq(Queued(Access)) /\ writeQ \in Seq(Queued(Access))
      /\ \A k \in 1..Len(readQ) : readQ[k].op \in Access
      /\ \A k \in 1..Len(writeQ) : writeQ[k].op \in Access
  BY <1>1, QueueTyped
<1>5. ASSUME NEW q \in Seq(Queued(Access)), Waits(q)
      PROVE  1 \in 1..Len(q) /\ Head(q) = q[1] /\ Waiting(q[1])
  <2>1. q # <<>> /\ Waiting(Head(q))  BY <1>5 DEF Waits, Waiting
  <2>2. Len(q) \in Nat \ {0} /\ Head(q) = q[1]  BY <2>1, HeadAndTail
  <2>3. PICK m \in Nat \ {0} : m = Len(q)  BY <2>2
  <2>4. 1 \in 1..m  BY <2>3
  <2> QED BY <2>1, <2>2, <2>3, <2>4
<1>6. ASSUME Waits(readQ)
      PROVE  Head(readQ).op = n + 1 /\ n + 1 \in Access /\ ~IsStore(n + 1)
  <2>1. 1 \in 1..Len(readQ) /\ Head(readQ) = readQ[1] /\ Waiting(readQ[1])
    BY <1>4, <1>5, <1>6
  <2>2. readQ[1].op = n + 1 /\ \E j \in 1..Len(station) :
          station[j].op = readQ[1].op /\ station[j].state = "replay"
    BY <1>3, <2>1 DEF QueueInOrder
  <2>3. ~IsStore(n + 1)  BY <1>3, <2>2 DEF EntryInOrder
  <2> QED BY <1>4, <2>1, <2>2, <2>3
<1>7. ASSUME Waits(writeQ)
      PROVE  /\ Head(writeQ).op = n + 1 /\ Head(writeQ).value = n + 1
             /\ n + 1 \in Access /\ IsStore(n + 1)
  <2>1. 1 \in 1..Len(writeQ) /\ Head(writeQ) = writeQ[1] /\ Waiting(writeQ[1])
    BY <1>4, <1>5, <1>7
  <2>2. writeQ[1].op = n + 1 /\ \E j \in 1..Len(station) :
          station[j].op = writeQ[1].op /\ station[j].state = "completed"
    BY <1>3, <2>1 DEF QueueInOrder
  <2>3. IsStore(n + 1)  BY <1>3, <2>2 DEF EntryInOrder
  <2>4. writeQ[1].value = writeQ[1].op  BY <1>3, <2>1
  <2> QED BY <1>4, <2>1, <2>2, <2>3, <2>4
<1> QED BY <1>2, <1>6, <1>7

\* A step of the memory subsystem performs the next access or none.
LEMMA AbstractMemoryStep ==
    ASSUME OrderInv, NEW l \in Latencies, NEW m \in Latencies, MemoryStep(l, m)
    PROVE  Abstract!Perform \/ UNCHANGED <<program, observed>>
<1>1. TypeOK  BY DEF OrderInv, LaneInv
<1>2. PICK n \in Nat, p \in Nat : n = Performed /\ p = Len(program)
  BY <1>1, PerformedTyped
<1>3. program' = program /\ readQ' = ReadQueueAfter(l)  BY DEF MemoryStep
<1>4. /\ Waits(readQ) => observed' = Append(observed, Head(readQ').value)
      /\ Waits(writeQ) => observed' = Append(observed, Head(writeQ).value)
      /\ ~Waits(readQ) /\ ~Waits(writeQ) => observed' = observed
  BY PerformedNext
<1>5. Len(observed) + 1 = n + 1  BY <1>2 DEF Performed
<1>6. ASSUME Waits(readQ) PROVE Abstract!Perform
  <2>1. /\ Head(readQ).op = n + 1 /\ n + 1 \in Access /\ ~IsStore(n + 1)
    BY <1>2, <1>6, WaitingAccess
  <2>2. Head(readQ').value = memory[Addr(n + 1)]
    BY <1>1, <1>3, <1>6, <2>1, ReadHead
  <2>3. memory[Addr(n + 1)] = Abstract!LastStore(n + 1)
    <3>1. PICK i \in Access : i = n + 1  BY <2>1
    <3>2. memory[Addr(i)] = Abstract!LastStore(i)  BY <1>2, <3>1, LastStoreInMemory
    <3> QED BY <3>1, <3>2
  <2>4. n + 1 \in 1..p  BY <1>2, <2>1 DEF Access
  <2>5. n + 1 <= p  BY <1>2, <2>4
  <2>6. program[n + 1].kind # "store"  BY <2>1 DEF IsStore
  <2>7. observed' = Append(observed, Abstract!LastStore(n + 1))
    BY <1>4, <1>6, <2>2, <2>3
  <2> QED BY <1>2, <1>3, <1>5, <2>5, <2>6, <2>7 DEF Abstract!Perform
<1>7. ASSUME Waits(writeQ) PROVE Abstract!Perform
  <2>1. /\ Head(writeQ).value = n + 1 /\ n + 1 \in Access /\ IsStore(n + 1)
    BY <1>2, <1>7, WaitingAccess
  <2>2. n + 1 \in 1..p  BY <1>2, <2>1 DEF Access
  <2>3. n + 1 <= p  BY <1>2, <2>2
  <2>4. program[n + 1].kind = "store"  BY <2>1 DEF IsStore
  <2>5. observed' = Append(observed, n + 1)  BY <1>4, <1>7, <2>1
  <2> QED BY <1>2, <1>3, <1>5, <2>3, <2>4, <2>5 DEF Abstract!Perform
<1> QED BY <1>3, <1>4, <1>6, <1>7

LEMMA AbstractLaneStep == OrderInv /\ [Next]_vars => [Abstract!Next]_<<program, observed>>
<1> SUFFICES ASSUME OrderInv, [Next]_vars PROVE [Abstract!Next]_<<program, observed>>
  OBVIOUS
<1>1. CASE Preprocess \/ Bubble \/ (\E ghost \in BOOLEAN : UnitStep(ghost)) \/ UNCHANGED vars
  <2>1. UNCHANGED <<program, observed>>
    BY <1>1 DEF Preprocess, Bubble, UnitStep, vars, queues
  <2> QED BY <2>1
<1>2. CASE \E l, m \in Latencies : MemoryStep(l, m)
  BY <1>2, AbstractMemoryStep DEF Abstract!Next
<1>3. ASSUME NEW kind \in {"load", "store"}, NEW addr \in Addresses, Enter(kind, addr)
      PROVE  Abstract!Enter(kind, addr)
  BY <1>3 DEF Enter, Abstract!Enter, queues
<1> QED BY <1>1, <1>2, <1>3 DEF Next, Abstract!Next

\* With a station of one entry the lane performs the accesses one at a time,
\* in the order they came in, and a load observes the last store before it to
\* its address: what is safety in ImplementsSequentialMemory.
THEOREM AccessesPerformedInOrder == ASSUME OneEntry PROVE Spec => Abstract!Safety
<1>1. Init => Abstract!Init  BY DEF Init, Abstract!Init
<1>2. OneEntry  OBVIOUS
<1>3. OrderInv /\ [Next]_vars => OrderInv'  BY <1>2, OrderStep
<1> QED BY <1>1, <1>3, OrderInit, AbstractLaneStep, PTL DEF Spec, Abstract!Safety

-----------------------------------------------------------------------------
(* What it says of the cycle of the unit. *)

LEMMA SmallSets ==
    ASSUME NEW T, T \subseteq {1, 2}
    PROVE  Cardinality(T) = (IF 1 \in T THEN 1 ELSE 0) + (IF 2 \in T THEN 1 ELSE 0)
<1>1. Cardinality({}) = 0 /\ IsFiniteSet({})  BY FS_EmptySet
<1>2. Cardinality({1}) = 1 /\ Cardinality({2}) = 1 /\ IsFiniteSet({1})
  BY FS_Singleton
<1>3. Cardinality({1, 2}) = 2
  <2>1. Cardinality({1} \cup {2}) = Cardinality({1}) + 1
    <3>1. 2 \notin {1}  OBVIOUS
    <3> QED BY <1>2, <3>1, FS_AddElement
  <2>2. {1} \cup {2} = {1, 2}  OBVIOUS
  <2> QED BY <1>2, <2>1, <2>2
<1>4. CASE 1 \in T /\ 2 \in T
  <2>1. T = {1, 2}  BY <1>4
  <2> QED BY <1>3, <1>4, <2>1
<1>5. CASE 1 \in T /\ 2 \notin T
  <2>1. T = {1}  BY <1>5
  <2> QED BY <1>2, <1>5, <2>1
<1>6. CASE 1 \notin T /\ 2 \in T
  <2>1. T = {2}  BY <1>6
  <2> QED BY <1>2, <1>6, <2>1
<1>7. CASE 1 \notin T /\ 2 \notin T
  <2>1. T = {}  BY <1>7
  <2> QED BY <1>1, <1>7, <2>1
<1> QED BY <1>4, <1>5, <1>6, <1>7

\* The lane after the cycle, when the entries of the slots G have left it.
Outcome(G, t) ==
    /\ G \subseteq 1..Len(station)
    /\ \A k \in 1..Len(station) : k \in G <=> station[k].op \in t.retired
    /\ Len(t.station) = Len(station) - Cardinality(G) + (IF latch = 0 THEN 0 ELSE 1)
    /\ \A k \in 1..Len(station) :
         k \notin G => t.station[IF k = 2 /\ 1 \in G THEN 1 ELSE k].op = station[k].op
    /\ latch # 0 => t.station[Len(t.station)].op = latch
    /\ 2 \in G /\ ~IsStore(station[2].op) => IsStore(station[1].op)
    /\ t.out.op = IF 1 \in G /\ ~IsStore(station[1].op) THEN station[1].op
                  ELSE IF 2 \in G /\ ~IsStore(station[2].op) THEN station[2].op
                  ELSE 0

\* The lane before the second loop: the station, then what came from the latch.
Opening(x, a) ==
    /\ x \in 0..2 /\ a \in Seq(Entry(Access))
    /\ Len(a) = x + (IF latch = 0 THEN 0 ELSE 1) /\ Len(a) \in 0..2
    /\ \A k \in 1..x : a[k].op = station[k].op /\ a[k].op \notin retired
    /\ \A j, k \in 1..x : station[j].op = station[k].op => j = k
    /\ \A k \in 1..Len(a) : a[k].state \in {"replay", "completed"} =>
         k \in 1..x /\ (a[k].state = "completed" <=> IsStore(station[k].op))
    /\ latch # 0 => a[x + 1].op = latch
    /\ Start.retired = retired /\ Start.out.op = 0

LEMMA StartEntries ==
    ASSUME OrderInv, phase = "unit",
           NEW x, x = Len(station), NEW a, a = Start.station
    PROVE  Opening(x, a)
<1>1. TypeOK  BY DEF OrderInv, LaneInv
<1>2. PICK n \in Nat : n = Performed  BY <1>1, PerformedTyped
<1>3. x \in 0..2 /\ Len(Arrived) \in 0..2
      /\ Len(Arrived) = x + (IF latch = 0 THEN 0 ELSE 1)
      /\ (\A k \in 1..x : Arrived[k] = station[k])
      /\ (latch # 0 => Arrived[x + 1] = [op |-> latch, state |-> "fresh"])
  BY ArrivedEntries
<1>4. a = Advanced /\ Start.retired = retired /\ Start.out.op = 0
  BY DEF Start, NoAnswer
<1>5. PICK y \in 0..2 : y = Len(Arrived)  BY <1>3
<1>6. Len(a) = y /\ \A k \in 1..y :
        /\ a[k].op = Arrived[k].op
        /\ a[k].state = IF k = Sender
                        THEN IF IsStore(Arrived[k].op) THEN "completed" ELSE "replay"
                        ELSE IF Arrived[k].state = "fresh" THEN "addrcalc"
                        ELSE Arrived[k].state
  BY <1>4, <1>5, AdvancedEntries
<1>7. a \in Seq(Entry(Access))  BY <1>1, <1>4, AdvancedTyped
<1>8. /\ Increasing(station)
      /\ \A k \in 1..x : EntryInOrder(Lane, station[k], n)
      /\ Lane.retired = retired
  BY <1>2, QueuesOfLane
<1>9. \A k \in 1..x : k \in 1..y /\ a[k].op = station[k].op /\ a[k].op \notin retired
  <2> TAKE k \in 1..x
  <2>1. k \in 1..y /\ a[k].op = station[k].op  BY <1>3, <1>5, <1>6
  <2>2. station[k].op \notin retired  BY <1>8 DEF EntryInOrder
  <2> QED BY <2>1, <2>2
<1>10. \A j, k \in 1..x : station[j].op = station[k].op => j = k
  <2>1. PICK s \in Swept(Access) : s = Lane  BY <1>1, PerformedTyped
  <2>2. s.station = station  BY <2>1 DEF Lane
  <2> QED BY <1>1, <1>8, <2>2, DistinctEntries
<1>11. Sender = 0 \/ Sender \in 1..x  BY <1>2, SenderIsNext
<1>12. latch # 0 => a[x + 1].op = latch /\ a[x + 1].state = "addrcalc"
  <2> SUFFICES ASSUME latch # 0
               PROVE  a[x + 1].op = latch /\ a[x + 1].state = "addrcalc"
    OBVIOUS
  <2>1. x + 1 \in 1..y /\ x + 1 # 0 /\ x + 1 \notin 1..x  BY <1>3, <1>5
  <2>2. x + 1 # Sender  BY <1>11, <2>1
  <2> QED BY <1>3, <1>6, <2>1, <2>2
<1>13. \A k \in 1..y : k \in 1..x \/ (latch # 0 /\ k = x + 1)  BY <1>3, <1>5
<1>14. ASSUME NEW k \in 1..y, a[k].state \in {"replay", "completed"}
       PROVE  k \in 1..x /\ (a[k].state = "completed" <=> IsStore(station[k].op))
  <2>1. k \in 1..x  BY <1>12, <1>13, <1>14
  <2>2. StationInOrder(Start, n)  BY <1>2, StartInOrder
  <2>3. EntryInOrder(Start, a[k], n)  BY <1>6, <2>2 DEF StationInOrder
  <2>4. a[k].op = station[k].op  BY <1>9, <2>1
  <2>5. PICK e : e = a[k]  OBVIOUS
  <2>6. (e.state = "replay" => ~IsStore(e.op)) /\ (e.state = "completed" => IsStore(e.op))
    BY <2>3, <2>5 DEF EntryInOrder
  <2> QED BY <1>14, <2>1, <2>4, <2>5, <2>6
<1>15. \A k \in 1..y : a[k].state \in {"replay", "completed"} =>
         k \in 1..x /\ (a[k].state = "completed" <=> IsStore(station[k].op))
  BY <1>14
<1> QED BY <1>3, <1>4, <1>5, <1>6, <1>7, <1>9, <1>10, <1>12, <1>15 DEF Opening

LEMMA UnitOutcome ==
    ASSUME OrderInv, phase = "unit", NEW t, SweptFrom(Start, t)
    PROVE  \E G : Outcome(G, t)
<1>1. PICK x, a : x = Len(station) /\ a = Start.station  OBVIOUS
<1>2. /\ x \in 0..2 /\ a \in Seq(Entry(Access))
      /\ Len(a) = x + (IF latch = 0 THEN 0 ELSE 1) /\ Len(a) \in 0..2
      /\ \A k \in 1..x : a[k].op = station[k].op /\ a[k].op \notin retired
      /\ \A j, k \in 1..x : station[j].op = station[k].op => j = k
      /\ \A k \in 1..Len(a) : a[k].state \in {"replay", "completed"} =>
           k \in 1..x /\ (a[k].state = "completed" <=> IsStore(station[k].op))
      /\ latch # 0 => a[x + 1].op = latch
      /\ Start.retired = retired /\ Start.out.op = 0
  <2>1. Opening(x, a)  BY <1>1, StartEntries
  <2> QED BY <2>1 DEF Opening
<1>3. PICK y \in 0..2 : y = Len(a)  BY <1>2
<1>4. y = x + (IF latch = 0 THEN 0 ELSE 1)  BY <1>2, <1>3
<1>5. CASE t = Start
  <2>1. /\ \A k \in 1..x : ~(k \in {}) /\ station[k].op \notin t.retired
        /\ Len(t.station) = y /\ t.station = a /\ t.out.op = 0
    BY <1>1, <1>2, <1>3, <1>5
  <2>2. Cardinality({}) = 0  BY FS_EmptySet
  <2>3. \A k \in 1..x : (IF k = 2 /\ 1 \in {} THEN 1 ELSE k) = k  OBVIOUS
  <2>4. latch # 0 => a[y].op = latch  BY <1>2, <1>4
  <2>5. y = x - 0 + (IF latch = 0 THEN 0 ELSE 1)  BY <1>2, <1>4
  <2>6. Outcome({}, t)
    BY <1>1, <1>2, <1>3, <2>1, <2>2, <2>3, <2>4, <2>5 DEF Outcome
  <2> QED BY <2>6
<1>6. ASSUME NEW p \in 1..Len(Start.station), Left(Start, t, p)
      PROVE  Outcome({p}, t)
  <2>1. /\ t.station = RemoveAt(a, p) /\ t.retired = retired \cup {a[p].op}
        /\ \/ a[p].state = "replay" /\ t.out.op = a[p].op
           \/ a[p].state = "completed" /\ t.out.op = 0
        /\ a[p].state = "replay" => \A j \in 1..(p - 1) : IsStore(a[j].op)
        /\ p \in 1..y
    BY <1>1, <1>2, <1>3, <1>6 DEF Left
  <2>2. /\ p \in 1..x /\ a[p].op = station[p].op
        /\ a[p].state = "completed" <=> IsStore(station[p].op)
    BY <1>2, <1>3, <2>1
  <2>3. PICK c : c = t.station  OBVIOUS
  <2>4. /\ Len(c) = y - 1
        /\ \A j \in 1..(y - 1) : j < p => c[j] = a[j]
        /\ \A j \in 1..(y - 1) : ~(j < p) => c[j] = a[j + 1]
    BY <1>2, <1>3, <2>1, <2>3, RemovedAt
  <2>5. p = 1 \/ (p = 2 /\ x = 2 /\ y = 2 /\ latch = 0)  BY <1>2, <1>4, <2>2
  <2>6. \A k \in 1..x : k \in {p} <=> station[k].op \in t.retired
    <3> TAKE k \in 1..x
    <3>1. station[k].op \notin retired  BY <1>2
    <3>2. station[k].op = station[p].op => k = p  BY <1>2, <2>2
    <3> QED BY <2>1, <2>2, <3>1, <3>2
  <2>7. Cardinality({p}) = 1  BY FS_Singleton
  <2>8. y - 1 = x - 1 + (IF latch = 0 THEN 0 ELSE 1)  BY <1>2, <1>4
  <2>9. \A k \in 1..x :
          k \notin {p} => c[IF k = 2 /\ 1 \in {p} THEN 1 ELSE k].op = station[k].op
    <3> SUFFICES ASSUME NEW k \in 1..x, k # p
                 PROVE  c[IF k = 2 /\ 1 = p THEN 1 ELSE k].op = station[k].op
      OBVIOUS
    <3>1. a[k].op = station[k].op  BY <1>2
    <3>2. CASE p = 1
      <4>1. k = 2 /\ 1 \in 1..(y - 1) /\ ~(1 < p) /\ 1 + 1 = 2
        BY <1>2, <1>4, <2>2, <3>2
      <4>2. c[1] = a[2]  BY <2>4, <4>1
      <4> QED BY <3>1, <3>2, <4>1, <4>2
    <3>3. CASE p = 2
      <4>1. k = 1 /\ 1 \in 1..(y - 1) /\ 1 < p  BY <1>2, <1>4, <2>2, <3>3
      <4>2. c[1] = a[1]  BY <2>4, <4>1
      <4> QED BY <3>1, <3>3, <4>1, <4>2
    <3> QED BY <2>5, <3>2, <3>3
  <2>10. latch # 0 => c[Len(c)].op = latch
    <3> SUFFICES ASSUME latch # 0 PROVE c[Len(c)].op = latch  OBVIOUS
    <3>1. p = 1 /\ x = 1 /\ y = 2  BY <1>2, <1>4, <2>2, <2>5
    <3>2. 1 \in 1..(y - 1) /\ ~(1 < p) /\ 1 + 1 = 2 /\ y - 1 = 1 /\ x + 1 = 2  BY <3>1
    <3>3. c[1] = a[2] /\ Len(c) = 1  BY <2>4, <3>2
    <3> QED BY <1>2, <3>2, <3>3
  <2>11. 2 \in {p} /\ ~IsStore(station[2].op) => IsStore(station[1].op)
    <3> SUFFICES ASSUME p = 2, ~IsStore(station[2].op) PROVE IsStore(station[1].op)
      OBVIOUS
    <3>1. a[p].state = "replay"  BY <2>1, <2>2
    <3>2. 1 \in 1..(p - 1) /\ 1 \in 1..x  BY <1>2, <2>2
    <3>3. IsStore(a[1].op)  BY <2>1, <3>1, <3>2
    <3> QED BY <1>2, <3>2, <3>3
  <2>12. t.out.op = IF 1 \in {p} /\ ~IsStore(station[1].op) THEN station[1].op
                    ELSE IF 2 \in {p} /\ ~IsStore(station[2].op) THEN station[2].op
                    ELSE 0
    <3>1. CASE p = 1  BY <2>1, <2>2, <3>1
    <3>2. CASE p = 2  BY <2>1, <2>2, <3>2
    <3> QED BY <2>5, <3>1, <3>2
  <2>13. {p} \subseteq 1..x  BY <2>2
  <2>14. Len(c) = x - Cardinality({p}) + (IF latch = 0 THEN 0 ELSE 1)
    BY <2>4, <2>7, <2>8
  <2> HIDE <2>3
  <2> QED BY <1>1, <2>3, <2>6, <2>9, <2>10, <2>11, <2>12, <2>13, <2>14 DEF Outcome
<1>7. ASSUME NEW u, Len(Start.station) = 2, Left(Start, u, 1), Left(u, t, 1),
             u.station = <<Start.station[2]>>,
             ~(Start.station[1].state = "replay" /\ Start.station[2].state = "replay")
      PROVE  Outcome({1, 2}, t)
  <2>1. y = 2 /\ 1 \in 1..y /\ 2 \in 1..y  BY <1>1, <1>3, <1>7
  <2>2. PICK b : b = a[2]  OBVIOUS
  <2>3. u.station = <<b>>  BY <1>1, <1>7, <2>2
  <2>4. <<b>> \in Seq({b}) /\ Len(<<b>>) = 1 /\ 1 \in 1..1 /\ <<b>>[1] = b  OBVIOUS
  <2>5. PICK g \in Seq({b}) : g = <<b>>  BY <2>4
  <2>6. Len(RemoveAt(g, 1)) = Len(g) - 1
    <3>1. 1 \in 1..Len(g)  BY <2>4, <2>5
    <3> QED BY <3>1, RemovedAt
  <2>7. /\ u.retired = retired \cup {a[1].op}
        /\ \/ a[1].state = "replay" /\ u.out.op = a[1].op
           \/ a[1].state = "completed" /\ u.out.op = 0
    BY <1>1, <1>2, <1>7 DEF Left
  <2>8. /\ t.station = RemoveAt(g, 1) /\ t.retired = u.retired \cup {b.op}
        /\ \/ b.state = "replay" /\ t.out.op = b.op
           \/ b.state = "completed" /\ t.out.op = u.out.op
    BY <1>7, <2>3, <2>4, <2>5 DEF Left
  <2>9. 1 \in 1..x /\ 2 \in 1..x
        /\ (a[1].state = "completed" <=> IsStore(station[1].op))
        /\ (b.state = "completed" <=> IsStore(station[2].op))
    BY <1>2, <1>3, <2>1, <2>2, <2>7, <2>8
  <2>10. a[1].op = station[1].op /\ b.op = station[2].op  BY <1>2, <2>2, <2>9
  <2>11. x = 2 /\ latch = 0  BY <1>2, <1>4, <2>1, <2>9
  <2>12. {1, 2} \subseteq 1..x  BY <2>9
  <2>13. \A k \in 1..x : k \in {1, 2} /\ station[k].op \in t.retired
    <3>1. \A k \in 1..x : k = 1 \/ k = 2  BY <2>11
    <3> QED BY <2>7, <2>8, <2>10, <3>1
  <2>14. Cardinality({1, 2}) = 2  BY SmallSets
  <2>15. Len(t.station) = x - Cardinality({1, 2}) + (IF latch = 0 THEN 0 ELSE 1)
    <3>1. Len(t.station) = 0  BY <2>4, <2>5, <2>6, <2>8
    <3> QED BY <2>11, <2>14, <3>1
  <2>16. ~(a[1].state = "replay" /\ b.state = "replay")  BY <1>1, <1>7, <2>2
  <2>17. ~IsStore(station[2].op) => IsStore(station[1].op)
    BY <2>7, <2>8, <2>9, <2>16
  <2>18. t.out.op = IF ~IsStore(station[1].op) THEN station[1].op
                    ELSE IF ~IsStore(station[2].op) THEN station[2].op
                    ELSE 0
    BY <2>7, <2>8, <2>9, <2>10, <2>16
  <2> QED BY <1>1, <2>11, <2>12, <2>13, <2>15, <2>17, <2>18 DEF Outcome
<1> QED BY <1>5, <1>6, <1>7 DEF SweptFrom

\* The contract, from the slots that leave.
Contract(b, l, r, c, o) ==
    LET gone == {k \in DOMAIN b : b[k].op \in r}
        loads == {k \in gone : ~IsStore(b[k].op)}
        stay == {k \in DOMAIN b : k \notin gone}
        rank(k) == Cardinality({j \in stay : j <= k})
    IN /\ Len(c) = Cardinality(stay) + (IF l = 0 THEN 0 ELSE 1)
       /\ \A k \in stay : c[rank(k)].op = b[k].op
       /\ l # 0 => Last(c).op = l
       /\ \A k \in loads : \A j \in 1..(k - 1) : IsStore(b[j].op)
       /\ o.op = (IF loads = {} THEN 0 ELSE b[CHOOSE k \in loads : TRUE].op)

LEMMA ContractHolds ==
    ASSUME TypeOK, Len(station) \in 0..2, NEW G, NEW t, Outcome(G, t)
    PROVE  Contract(station, latch, t.retired, t.station, t.out)
<1>1. PICK x \in 0..2 : x = Len(station)  OBVIOUS
<1>2. DOMAIN station = 1..x
  <2>1. station \in Seq(Entry(Access))  BY Types
  <2> QED BY <1>1, <2>1, LenProperties
<1>3. /\ G \subseteq 1..x /\ 1..x \subseteq {1, 2}
      /\ \A k \in 1..x : k \in G <=> station[k].op \in t.retired
      /\ Len(t.station) = x - Cardinality(G) + (IF latch = 0 THEN 0 ELSE 1)
      /\ \A k \in 1..x :
           k \notin G => t.station[IF k = 2 /\ 1 \in G THEN 1 ELSE k].op = station[k].op
      /\ latch # 0 => t.station[Len(t.station)].op = latch
      /\ 2 \in G /\ ~IsStore(station[2].op) => IsStore(station[1].op)
      /\ t.out.op = IF 1 \in G /\ ~IsStore(station[1].op) THEN station[1].op
                    ELSE IF 2 \in G /\ ~IsStore(station[2].op) THEN station[2].op
                    ELSE 0
  BY <1>1 DEF Outcome
<1> DEFINE gone == {k \in DOMAIN station : station[k].op \in t.retired}
           loads == {k \in gone : ~IsStore(station[k].op)}
           stay == {k \in DOMAIN station : k \notin gone}
           rank(k) == Cardinality({j \in stay : j <= k})
<1>4. gone = G  BY <1>2, <1>3
<1>5. stay = (1..x) \ G  BY <1>2, <1>4
<1>6. loads = {k \in G : ~IsStore(station[k].op)}  BY <1>4
<1> HIDE DEF gone, loads, stay
<1>7. Len(t.station) = Cardinality(stay) + (IF latch = 0 THEN 0 ELSE 1)
  <2>1. stay \subseteq {1, 2} /\ G \subseteq {1, 2}  BY <1>3, <1>5
  <2>2. /\ Cardinality(stay) = (IF 1 \in stay THEN 1 ELSE 0) + (IF 2 \in stay THEN 1 ELSE 0)
        /\ Cardinality(G) = (IF 1 \in G THEN 1 ELSE 0) + (IF 2 \in G THEN 1 ELSE 0)
    BY <2>1, SmallSets
  <2>3. Cardinality(stay) = x - Cardinality(G)  BY <1>1, <1>3, <1>5, <2>2
  <2> QED BY <1>3, <2>3
<1>8. \A k \in stay : t.station[rank(k)].op = station[k].op
  <2> SUFFICES ASSUME NEW k \in stay PROVE t.station[rank(k)].op = station[k].op
    OBVIOUS
  <2>1. k \in 1..x /\ k \notin G /\ (k = 1 \/ k = 2)  BY <1>3, <1>5
  <2> DEFINE T == {j \in stay : j <= k}
  <2>2. T \subseteq {1, 2}  BY <1>3, <1>5
  <2>3. Cardinality(T) = (IF 1 \in T THEN 1 ELSE 0) + (IF 2 \in T THEN 1 ELSE 0)
    <3> HIDE DEF T
    <3> QED BY <2>2, SmallSets
  <2>4. rank(k) = Cardinality(T)  OBVIOUS
  <2>5. 1 \in T <=> 1 \in 1..x /\ 1 \notin G  BY <1>5, <2>1
  <2>6. 2 \in T <=> k = 2  BY <1>5, <2>1
  <2> HIDE DEF T, rank
  <2>7. Cardinality(T) = IF k = 2 /\ 1 \in G THEN 1 ELSE k
    <3>1. 1 \in 1..x  BY <1>1, <2>1
    <3> QED BY <2>1, <2>3, <2>5, <2>6, <3>1
  <2>8. rank(k) = IF k = 2 /\ 1 \in G THEN 1 ELSE k  BY <2>4, <2>7
  <2> QED BY <1>3, <2>1, <2>8
<1> HIDE DEF rank
<1>9. latch # 0 => Last(t.station).op = latch  BY <1>3 DEF Last
<1>10. ASSUME NEW k \in loads, NEW j \in 1..(k - 1)
       PROVE  IsStore(station[j].op)
  <2>1. k \in G /\ ~IsStore(station[k].op) /\ (k = 1 \/ k = 2)  BY <1>3, <1>6
  <2>2. k = 2 /\ j = 1  BY <2>1
  <2> QED BY <1>3, <2>1, <2>2
<1>11. t.out.op = IF loads = {} THEN 0 ELSE station[CHOOSE k \in loads : TRUE].op
  <2>1. CASE loads = {}
    BY <1>3, <1>6, <2>1
  <2>2. CASE loads # {}
    <3>1. PICK k : k = CHOOSE i \in loads : TRUE  OBVIOUS
    <3>2. k \in loads  BY <2>2, <3>1
    <3>3. k \in G /\ ~IsStore(station[k].op) /\ (k = 1 \/ k = 2)  BY <1>3, <1>6, <3>2
    <3>4. t.out.op = station[k].op  BY <1>3, <3>3
    <3> QED BY <2>2, <3>1, <3>4
  <2> QED BY <2>1, <2>2
<1> USE DEF rank
<1> QED BY <1>7, <1>8, <1>9, <1>10, <1>11 DEF Contract, gone, loads, stay

\* With a station of one entry, a cycle of the unit does what module Pipeline
\* takes for granted of it: only entries of an earlier cycle leave, in any
\* number but with at most one load and that the oldest, the others keep their
\* order, the latch comes last, and the value of the load goes out.
THEOREM StationKeepsContract == ASSUME OneEntry PROVE Spec => StationContract
<1>1. OrderInv /\ [Next]_vars => OrderInv'
  <2>1. OneEntry  OBVIOUS
  <2> QED BY <2>1, OrderStep
<1>2. OrderInv /\ [Next]_vars =>
        [phase = "unit" => Contract(station, latch, retired', station', out')]_vars
  <2> SUFFICES ASSUME OrderInv, Next, phase = "unit"
               PROVE  Contract(station, latch, retired', station', out')
    OBVIOUS
  <2>1. PICK ghost \in BOOLEAN : UnitStep(ghost)
    BY DEF Next, Preprocess, MemoryStep, Enter, Bubble
  <2>2. SweptFrom(Start, Lane')  BY <2>1, OrderUnitStep
  <2>3. PICK t : t = Lane'  OBVIOUS
  <2>4. PICK G : Outcome(G, t)  BY <2>2, <2>3, UnitOutcome
  <2>5. t.retired = retired' /\ t.station = station' /\ t.out = out'  BY <2>3 DEF Lane
  <2>6. TypeOK /\ Len(station) \in 0..2  BY ArrivedEntries DEF OrderInv, LaneInv
  <2>7. Contract(station, latch, t.retired, t.station, t.out)
    BY <2>4, <2>6, ContractHolds
  <2> QED BY <2>5, <2>7
<1> QED BY <1>1, <1>2, OrderInit, PTL DEF Spec, StationContract, Contract
=============================================================================
