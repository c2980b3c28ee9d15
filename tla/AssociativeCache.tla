-------------------------- MODULE AssociativeCache --------------------------
(***************************************************************************)
(* AssociativeCache over the module it is connected to: its ways are       *)
(* Caches of NumLines lines, it allocates on reads and on writes, writes   *)
(* lines back when it replaces them, and keeps one replacement order for   *)
(* all of its lines.  The module below is a flat memory, which a cache is  *)
(* shown to be in turn, so that what is shown holds for a stack of them.   *)
(***************************************************************************)
EXTENDS Integers, Sequences, SequencesExt

CONSTANTS
    NumLines, LineSize, NumWays, WordSize,  \* the module's parameters
    BelowLatency,                           \* latency of the module below
    NumTags,                                \* bound: tags in the address space
    Value

ASSUME CacheAssumption ==
    /\ NumLines \in Nat \ {0} /\ LineSize \in Nat \ {0}
    /\ NumWays \in Nat \ {0} /\ WordSize \in Nat \ {0}
    /\ BelowLatency \in Nat \ {0}
    /\ NumTags \in Nat

VARIABLES
    lines,         \* per way and row, _tag, _valid and _cache
    accessPattern, \* _accessPattern, the next way to be replaced first
    below,         \* what the module below holds
    value          \* the last value read

vars == <<lines, accessPattern, below, value>>

-----------------------------------------------------------------------------
Ways == 0..(NumWays - 1)
Rows == 0..(NumLines - 1)
Cols == 0..(LineSize - 1)
RowBytes == LineSize * WordSize

\* Words are aligned: Cache drops the byte number.
Address == {WordSize * k : k \in 0..(NumTags * NumLines * LineSize - 1)}

Tag(a) == a \div (NumLines * RowBytes)
Row(a) == (a % (NumLines * RowBytes)) \div RowBytes
Col(a) == (a % RowBytes) \div WordSize
WordAt(tag, row, col) == tag * NumLines * RowBytes + row * RowBytes + col * WordSize

Init ==
    /\ below \in [Address -> Value]
    /\ value \in Value
    /\ lines \in {[w \in Ways |-> [r \in Rows |->
                     [tag |-> -1, valid |-> 0, words |-> [c \in Cols |-> v]]]]
                   : v \in Value}
    /\ accessPattern = <<>>

-----------------------------------------------------------------------------
\* Cache::read wants the tag and the valid count, Cache::write only the tag.
ReadHitsReady(a) == {w \in Ways : /\ lines[w][Row(a)].tag = Tag(a)
                                  /\ lines[w][Row(a)].valid = 1}
ReadHits(a) == {w \in Ways : /\ lines[w][Row(a)].tag = Tag(a)
                              /\ lines[w][Row(a)].valid >= 1}
WriteHits(a) == {w \in Ways : lines[w][Row(a)].tag = Tag(a)}

\* The loops over the ways stop at the first hit.
First(hits) == CHOOSE w \in hits : \A v \in hits : w <= v

UsedFromOne(way) == Append(RemoveFirst(accessPattern, way), way + 1)
Used(way) == Append(RemoveFirst(accessPattern, way), way)

Victim ==
    IF Len(accessPattern) = NumWays THEN Head(accessPattern)
    ELSE Len(accessPattern)

AllocatedOnTop(way) == Append(accessPattern, way)
Allocated(way) ==
    Append(IF Len(accessPattern) = NumWays THEN Tail(accessPattern)
           ELSE accessPattern, way)

\* Cache::replace: the words of a valid line go down to the addresses they
\* have by its tag.
WrittenBackByNewTag(way, a) ==
    LET line == lines[way][Row(a)] IN
    [b \in Address |->
       IF line.valid # 0 /\ Tag(b) = Tag(a) /\ Row(b) = Row(a)
       THEN line.words[Col(b)] ELSE below[b]]
WrittenBack(way, a) ==
    LET line == lines[way][Row(a)] IN
    [b \in Address |->
       IF line.valid # 0 /\ Tag(b) = line.tag /\ Row(b) = Row(a)
       THEN line.words[Col(b)] ELSE below[b]]

\* Cache::refill: the valid count is the latency of the module below.
RefilledOneWord(a, mem) ==
    [tag |-> Tag(a), valid |-> BelowLatency,
     words |-> [c \in Cols |-> mem[a]]]
Refilled(a, mem) ==
    [tag |-> Tag(a), valid |-> BelowLatency,
     words |-> [c \in Cols |-> mem[WordAt(Tag(a), Row(a), c)]]]

ReadHit(a) ==
    /\ ReadHits(a) # {}
    /\ LET w == First(ReadHits(a)) IN
         /\ value' = lines[w][Row(a)].words[Col(a)]
         /\ accessPattern' = Used(w)
    /\ UNCHANGED <<lines, below>>

ReadMiss(a) ==
    /\ ReadHits(a) = {}
    /\ LET w == Victim IN
         /\ below' = WrittenBack(w, a)
         /\ lines' = [lines EXCEPT ![w][Row(a)] = Refilled(a, below')]
         /\ accessPattern' = Allocated(w)
         /\ value' = lines'[w][Row(a)].words[Col(a)]

WriteHit(a, v) ==
    /\ WriteHits(a) # {}
    /\ LET w == First(WriteHits(a)) IN
         /\ lines' = [lines EXCEPT ![w][Row(a)].words[Col(a)] = v,
                                   ![w][Row(a)].valid = 1]
         /\ accessPattern' = Used(w)
    /\ UNCHANGED <<below, value>>

WriteMiss(a, v) ==
    /\ WriteHits(a) = {}
    /\ LET w == Victim
           line == Refilled(a, below')
       IN /\ below' = WrittenBack(w, a)
          /\ lines' = [lines EXCEPT ![w][Row(a)] =
                         [line EXCEPT !.words[Col(a)] = v, !.valid = 1]]
          /\ accessPattern' = Allocated(w)
    /\ UNCHANGED value

Next == \E a \in Address :
    \/ ReadHit(a)
    \/ ReadMiss(a)
    \/ \E v \in Value : WriteHit(a, v) \/ WriteMiss(a, v)

Spec == Init /\ [][Next]_vars

-----------------------------------------------------------------------------
Line == [tag : -1..(NumTags - 1), valid : Nat, words : [Cols -> Value]]

\* The variables have their types.
TypeOK ==
    /\ lines \in [Ways -> [Rows -> Line]]
    /\ accessPattern \in Seq(Ways)
    /\ below \in [Address -> Value]
    /\ value \in Value

\* No address is cached twice: the loops over the ways, which stop at the first
\* hit, never leave a second and older copy behind.
OneCopy ==
    \A w, x \in Ways, r \in Rows :
        lines[w][r].tag = lines[x][r].tag /\ lines[w][r].tag # -1 => w = x

\* Cache::write hits on the tag alone.  It may, for a line that has a tag is
\* valid, and the replacement order names each way that has lines once, so that
\* a way it does not name is free.
LinesAccounted ==
    /\ \A w \in Ways, r \in Rows : lines[w][r].tag # -1 => lines[w][r].valid >= 1
    /\ \A k \in DOMAIN accessPattern : accessPattern[k] < Len(accessPattern)
    /\ \A j, k \in DOMAIN accessPattern :
         accessPattern[j] = accessPattern[k] => j = k
    /\ \A w \in Ways, r \in Rows :
         w >= Len(accessPattern) => lines[w][r].valid = 0

\* What the cache and the module below hold between them.
Contents ==
    [a \in Address |->
       IF ReadHits(a) = {} THEN below[a]
       ELSE lines[First(ReadHits(a))][Row(a)].words[Col(a)]]

Abstract == INSTANCE FlatMemory WITH contents <- Contents

\* Through hits, misses, refills and lines written back, the cache and what is
\* below it are one memory: a read sees the last value written to its address.
ImplementsFlatMemory == Abstract!Spec
=============================================================================
