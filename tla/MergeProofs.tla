---------------------------- MODULE MergeProofs ----------------------------
(***************************************************************************)
(* What the cold tier promises, proved for any spans, partitions, policy,  *)
(* mishaps and times. A pass plans chunks of indexed blocks, no block in   *)
(* two of them, and every step of a chunk keeps what the plan relied on.   *)
(* Types, the names of the blocks, the grace of what was retired and the   *)
(* uniqueness of the outputs of an hour hold without any condition. What   *)
(* is in the blocks needs that no chunk of a closed day takes the name of  *)
(* an indexed block that it does not replace: the run merge_day_collision  *)
(* shows what happens otherwise.                                           *)
(***************************************************************************)
EXTENDS Merge, FoldFacts

\* Sets of naturals have a smallest member.
LEMMA SmallestExists ==
    ASSUME NEW S \in SUBSET Nat, S # {}
    PROVE  \E m \in S : \A k \in S : m <= k
<1>1. PICK m \in S : \A k \in S : <<k, m>> \notin OpToRel(<, Nat)
  BY NatLessThanWellFounded, WFMin
<1>2. \A k \in S : ~(k < m)
  BY <1>1 DEF OpToRel
<1> QED
  BY <1>2

\* The newest hour of a set of spans.
LEMMA NewestFacts ==
    ASSUME NEW S \in SUBSET Spans, S # {}
    PROVE  /\ NewestHour(S) \in Hours
           /\ \A s \in S : HourOf[s] <= NewestHour(S)
           /\ \E s \in S : NewestHour(S) = HourOf[s]
<1> DEFINE T == {HourOf[s] : s \in S}
           f == [s \in S |-> HourOf[s]]
<1>1. IsFiniteSet(S)
  BY FS_Subset, PartitionAssumption
<1>2. f \in Surjection(S, T)
  BY DEF Surjection
<1>3. IsFiniteSet(T)
  BY <1>1, <1>2, FS_Surjection
<1>4. T \in SUBSET Nat /\ T # {} /\ T \subseteq Hours
  BY PartitionAssumption
<1>5. \E m \in T : \A k \in T : k <= m
  <2> HIDE DEF T
  <2> QED
    BY <1>3, <1>4, LargestExists
<1>6. \E h \in T : \A s \in S : HourOf[s] <= h
  BY <1>5
<1>7. NewestHour(S) \in T /\ \A s \in S : HourOf[s] <= NewestHour(S)
  BY <1>6 DEF NewestHour
<1> QED
  BY <1>4, <1>7

\* The range of segments of a chunk is that of its blocks.
LEMMA RangeFacts ==
    ASSUME NEW K \in SUBSET Blocks, K # {}, IsFiniteSet(K)
    PROVE  /\ \E b \in K : LowestSeqno(K) = b.lo
           /\ \E b \in K : HighestSeqno(K) = b.hi
<1> DEFINE L == {b.lo : b \in K}
           H == {b.hi : b \in K}
           f == [b \in K |-> b.hi]
<1>1. Seqnos \subseteq Nat
  BY PartitionAssumption DEF Seqnos
<1>2. L \in SUBSET Nat /\ L # {} /\ H \in SUBSET Nat /\ H # {}
  BY <1>1 DEF Blocks
<1>3. f \in Surjection(K, H)
  BY DEF Surjection
<1>4. IsFiniteSet(H)
  BY <1>3, FS_Surjection
<1>5. \E m \in H : \A k \in H : k <= m
  <2> HIDE DEF H
  <2> QED
    BY <1>2, <1>4, LargestExists
<1>6. \E m \in L : \A k \in L : m <= k
  <2> HIDE DEF L
  <2> QED
    BY <1>2, SmallestExists
<1>7. \E n \in L : \A b \in K : n <= b.lo
  BY <1>6
<1>8. \E n \in H : \A b \in K : b.hi <= n
  BY <1>5
<1>9. LowestSeqno(K) \in L /\ HighestSeqno(K) \in H
  BY <1>7, <1>8 DEF LowestSeqno, HighestSeqno
<1> QED
  BY <1>9

----------------------------------------------------------------------------
(***************************************************************************)
(* The planner.                                                            *)
(***************************************************************************)

\* The blocks of an hour or of a day: of its day blocks, all are that day's.
OneDay(C) == \A b, c \in C : b.kind = "day" /\ c.kind = "day" => b.place = c.place

\* They are in a strict order.
LEMMA OrderFacts ==
    ASSUME NEW C \in SUBSET Blocks, OneDay(C)
    PROVE  /\ \A b \in C : ~InSeqnoOrder(b, b)
           /\ \A b, c \in C : b # c => InSeqnoOrder(b, c) \/ InSeqnoOrder(c, b)
           /\ \A b, c, d \in C : InSeqnoOrder(b, c) /\ InSeqnoOrder(c, d) => InSeqnoOrder(b, d)
<1>0. Seqnos \subseteq Nat /\ Hours \cup Days \subseteq Nat
  BY PartitionAssumption DEF Seqnos
<1>1. \A b \in C : /\ b.kind \in Kinds /\ b.lo \in Nat /\ b.hi \in Nat /\ b.place \in Nat
                   /\ b = [kind |-> b.kind, place |-> b.place, lo |-> b.lo, hi |-> b.hi]
  <2> TAKE b \in C
  <2>1. b \in [kind : Kinds, place : Hours \cup Days, lo : Seqnos, hi : Seqnos]
    BY DEF Blocks
  <2>2. b.kind \in Kinds /\ b.lo \in Seqnos /\ b.hi \in Seqnos /\ b.place \in Hours \cup Days
    BY <2>1
  <2>3. b = [kind |-> b.kind, place |-> b.place, lo |-> b.lo, hi |-> b.hi]
    BY <2>1
  <2> QED
    BY <1>0, <2>2, <2>3
<1>2. \A b, c \in C : b # c => \/ b.kind # c.kind \/ b.place # c.place \/ b.lo # c.lo \/ b.hi # c.hi
  BY <1>1
<1>3. \A b \in C : ~InSeqnoOrder(b, b)
  BY <1>1 DEF InSeqnoOrder, PathBefore
<1>4. \A b, c \in C : b # c => InSeqnoOrder(b, c) \/ InSeqnoOrder(c, b)
  BY <1>1, <1>2 DEF InSeqnoOrder, PathBefore, OneDay, Kinds
<1>5. ASSUME NEW b \in C, NEW c \in C, NEW d \in C, InSeqnoOrder(b, c), InSeqnoOrder(c, d)
      PROVE  InSeqnoOrder(b, d)
  BY <1>1, <1>5 DEF InSeqnoOrder, PathBefore, OneDay, Kinds
<1> QED
  BY <1>3, <1>4, <1>5

\* So each has a rank, and their sequence has each of them once.
LEMMA InOrderFacts ==
    ASSUME NEW C \in SUBSET Blocks, IsFiniteSet(C), OneDay(C)
    PROVE  /\ Cardinality(C) \in Nat
           /\ DOMAIN InOrder(C) = 1 .. Cardinality(C)
           /\ \A n \in 1 .. Cardinality(C) : InOrder(C)[n] \in C
           /\ \A m, n \in 1 .. Cardinality(C) : InOrder(C)[m] = InOrder(C)[n] => m = n
<1> DEFINE N == Cardinality(C)
           Below(b) == {c \in C : InSeqnoOrder(c, b)}
           f == [b \in C |-> Cardinality(Below(b)) + 1]
<1>1. N \in Nat
  BY FS_CardinalityType
<1>2. ASSUME NEW b \in C
      PROVE  IsFiniteSet(Below(b)) /\ Cardinality(Below(b)) \in Nat /\ Cardinality(Below(b)) < N
  <2>1. IsFiniteSet(Below(b)) /\ Cardinality(Below(b)) \in Nat
    BY FS_Subset, FS_CardinalityType
  <2>2. b \notin Below(b)
    BY OrderFacts
  <2>3. Cardinality(Below(b)) <= N /\ (N = Cardinality(Below(b)) => C = Below(b))
    BY FS_Subset
  <2>4. N # Cardinality(Below(b))
    BY <2>2, <2>3
  <2> HIDE DEF N, Below
  <2> QED
    BY <1>1, <2>1, <2>3, <2>4
<1>3. ASSUME NEW b \in C, NEW c \in C, InSeqnoOrder(b, c)
      PROVE  Cardinality(Below(b)) < Cardinality(Below(c))
  <2>1. Below(b) \subseteq Below(c)
    BY <1>3, OrderFacts
  <2>2. b \in Below(c) /\ b \notin Below(b)
    BY <1>3, OrderFacts
  <2>3. /\ Cardinality(Below(b)) <= Cardinality(Below(c))
        /\ Cardinality(Below(c)) = Cardinality(Below(b)) => Below(c) = Below(b)
    BY <1>2, <2>1, FS_Subset
  <2>4. Cardinality(Below(b)) # Cardinality(Below(c))
    BY <2>2, <2>3
  <2>5. Cardinality(Below(b)) \in Nat /\ Cardinality(Below(c)) \in Nat
    BY <1>2
  <2> HIDE DEF Below
  <2> QED
    BY <2>3, <2>4, <2>5
<1>4. f \in Injection(C, 1 .. N)
  <2>1. f \in [C -> 1 .. N]
    BY <1>1, <1>2
  <2>2. \A b, c \in C : b # c => f[b] # f[c]
    <3> TAKE b, c \in C
    <3> SUFFICES ASSUME b # c PROVE f[b] # f[c]
      OBVIOUS
    <3>1. Cardinality(Below(b)) \in Nat /\ Cardinality(Below(c)) \in Nat
      BY <1>2
    <3>2. Cardinality(Below(b)) < Cardinality(Below(c)) \/ Cardinality(Below(c)) < Cardinality(Below(b))
      BY <1>3, OrderFacts
    <3>3. f[b] = Cardinality(Below(b)) + 1 /\ f[c] = Cardinality(Below(c)) + 1
      OBVIOUS
    <3> HIDE DEF f, Below
    <3> QED
      BY <3>1, <3>2, <3>3
  <2> QED
    BY <2>1, <2>2 DEF Injection, IsInjective
<1>5. IsFiniteSet(1 .. N) /\ Cardinality(1 .. N) = N
  BY <1>1, FS_Interval
<1>6. f \in Surjection(C, 1 .. N)
  <2> HIDE DEF f
  <2> QED
    BY <1>4, <1>5, FS_Injection
<1>7. ASSUME NEW n \in 1 .. N
      PROVE  InOrder(C)[n] \in C /\ Cardinality(Below(InOrder(C)[n])) = n - 1
  <2>1. \E b \in C : f[b] = n
    BY <1>6 DEF Surjection
  <2>2. PICK b \in C : f[b] = n
    BY <2>1
  <2>3. Cardinality(Below(b)) + 1 = n /\ Cardinality(Below(b)) \in Nat
    BY <1>2, <2>2
  <2>4. Cardinality(Below(b)) = n - 1
    <3> HIDE DEF Below
    <3> QED
      BY <2>3
  <2>5. \E c \in C : Cardinality(Below(c)) = n - 1
    BY <2>4
  <2> QED
    BY <2>5 DEF InOrder
<1>8. \A m, n \in 1 .. N : InOrder(C)[m] = InOrder(C)[n] => m = n
  <2> TAKE m, n \in 1 .. N
  <2> SUFFICES ASSUME InOrder(C)[m] = InOrder(C)[n] PROVE m = n
    OBVIOUS
  <2>1. m - 1 = n - 1
    BY <1>7
  <2> QED
    BY <1>1, <2>1
<1> QED
  BY <1>1, <1>7, <1>8 DEF InOrder

\* The chunking is a run of AddToChunk, whose results stay in Y.
Added(base, q) == FoldLeft(AddToChunk, base, q)
AddsStay(Y, q, n) == \A acc \in Y, i \in 1 .. n : AddToChunk(acc, q[i]) \in Y

LEMMA AddsRun ==
    ASSUME NEW Y, NEW base \in Y, NEW n \in Nat, NEW q, DOMAIN q = 1 .. n, AddsStay(Y, q, n)
    PROVE  \E g \in [0 .. n -> Y] : /\ g[0] = base /\ \A i \in 1 .. n : g[i] = AddToChunk(g[i - 1], q[i])
                                    /\ Added(base, q) = g[n]
<1> DEFINE adds == [i \in 1 .. n |-> [e \in Y |-> AddToChunk(e, q[i])]]
           Rec(it) == it = [T \in SUBSET (DOMAIN q) |->
                              IF T = {} THEN base ELSE AddToChunk(it[T \ {Max(T)}], q[Max(T)])]
           fold == CHOOSE it : Rec(it)
<1>1. adds \in [1 .. n -> [Y -> Y]]
  BY DEF AddsStay
<1>2. PICK it \in [SUBSET (1 .. n) -> Y] : FoldEquation(it, n, base, adds)
  <2> HIDE DEF adds
  <2> QED
    BY <1>1, FoldLeftExists
<1>3. \A T \in SUBSET (1 .. n) : T # {} => Max(T) \in 1 .. n /\ T \ {Max(T)} \in SUBSET (1 .. n)
  BY MaxOfIndices
<1>4. Rec(it)
  BY <1>2, <1>3 DEF FoldEquation
<1>5. Rec(fold)
  BY <1>4
<1>6. Added(base, q) = fold[1 .. n]
  BY DEF Added, FoldLeft, MapThenFoldSet
<1>7. FollowsFold(fold, n, Y, base, adds)
  <2> HIDE DEF fold
  <2> QED
    BY <1>3, <1>5 DEF FollowsFold
<1> HIDE DEF fold, Rec, adds
<1>8. \E g : RunsThrough(g, n, Y, base, adds) /\ fold[1 .. n] = g[n]
  BY <1>1, <1>7, FoldRun
<1>9. PICK g : RunsThrough(g, n, Y, base, adds) /\ fold[1 .. n] = g[n]
  BY <1>8
<1>10. \A i \in 1 .. n : i - 1 \in 0 .. n /\ \A e \in Y : adds[i][e] = AddToChunk(e, q[i])
  BY DEF adds
<1>11. g \in [0 .. n -> Y] /\ g[0] = base /\ \A i \in 1 .. n : g[i] = AddToChunk(g[i - 1], q[i])
  BY <1>9, <1>10 DEF RunsThrough
<1> QED
  BY <1>6, <1>9, <1>11

\* What is in the chunks made so far of the first blocks S: each block once, and
\* no more rows than the cap in a chunk of two.
Several(K) == \E b, c \in K : b # c
AccType(C) == [done : SUBSET (SUBSET C), open : SUBSET C, rows : Nat]
SoundAcc(acc, S) ==
    /\ acc.open \subseteq S /\ \A K \in acc.done : K \subseteq S /\ K \cap acc.open = {}
    /\ \A K, L \in acc.done : K = L \/ K \cap L = {}
    /\ \A K \in acc.done : Several(K) => Cardinality(MergedRows(K)) <= MaxSpans
    /\ Cardinality(MergedRows(acc.open)) <= acc.rows
    /\ Several(acc.open) => acc.rows <= MaxSpans

FiniteRows(C) == \A b \in C : IsFiniteSet(files[b].rows)

LEMMA RowsFinite ==
    ASSUME NEW C, IsFiniteSet(C), FiniteRows(C), NEW K \in SUBSET C
    PROVE  IsFiniteSet(K) /\ IsFiniteSet(MergedRows(K)) /\ Cardinality(MergedRows(K)) \in Nat
<1>1. IsFiniteSet(K)
  BY FS_Subset
<1> DEFINE T == {files[c].rows : c \in K}
           f == [c \in K |-> files[c].rows]
<1>2. f \in Surjection(K, T)
  BY DEF Surjection
<1>3. IsFiniteSet(T)
  BY <1>1, <1>2, FS_Surjection
<1>4. \A R \in T : IsFiniteSet(R)
  BY DEF FiniteRows
<1>5. IsFiniteSet(MergedRows(K))
  <2>1. IsFiniteSet(UNION T)
    <3> HIDE DEF T
    <3> QED
      BY <1>3, <1>4, FS_UNION
  <2> QED
    BY <2>1 DEF MergedRows
<1>6. Cardinality(MergedRows(K)) \in Nat
  BY <1>5, FS_CardinalityType
<1> QED
  BY <1>1, <1>5, <1>6

LEMMA RowsFacts ==
    ASSUME NEW C, IsFiniteSet(C), FiniteRows(C), NEW K \in SUBSET C, NEW b \in C
    PROVE  /\ Rows(b) \in Nat
           /\ Cardinality(MergedRows(K \cup {b})) <= Cardinality(MergedRows(K)) + Rows(b)
<1>1. IsFiniteSet(files[b].rows) /\ Rows(b) = Cardinality(files[b].rows)
  BY DEF FiniteRows, Rows
<1>2. MergedRows(K \cup {b}) = MergedRows(K) \cup files[b].rows
  BY DEF MergedRows
<1>3. IsFiniteSet(MergedRows(K)) /\ Cardinality(MergedRows(K)) \in Nat
  BY RowsFinite
<1>4. Rows(b) \in Nat /\ Cardinality(MergedRows(K) \cap files[b].rows) \in Nat
  <2>1. IsFiniteSet(MergedRows(K) \cap files[b].rows)
    BY <1>3, FS_Intersection
  <2> QED
    BY <1>1, <2>1, FS_CardinalityType
<1>5. Cardinality(MergedRows(K) \cup files[b].rows)
        = Cardinality(MergedRows(K)) + Cardinality(files[b].rows)
            - Cardinality(MergedRows(K) \cap files[b].rows)
  BY <1>1, <1>3, FS_Union
<1>6. Cardinality(MergedRows(K \cup {b}))
        = Cardinality(MergedRows(K)) + Rows(b) - Cardinality(MergedRows(K) \cap files[b].rows)
  BY <1>1, <1>2, <1>5
<1> QED
  BY ONLY <1>3, <1>4, <1>6, SMT

LEMMA AddIsTyped ==
    ASSUME NEW C, NEW acc \in AccType(C), NEW b \in C, Rows(b) \in Nat
    PROVE  /\ AddToChunk(acc, b) \in AccType(C)
           /\ Overflows(acc, b) => /\ AddToChunk(acc, b).done = acc.done \cup {acc.open}
                                   /\ AddToChunk(acc, b).open = {b}
                                   /\ AddToChunk(acc, b).rows = Rows(b)
           /\ ~Overflows(acc, b) => /\ AddToChunk(acc, b).done = acc.done
                                    /\ AddToChunk(acc, b).open = acc.open \cup {b}
                                    /\ AddToChunk(acc, b).rows = acc.rows + Rows(b)
<1>1. acc.open \in SUBSET C /\ acc.done \in SUBSET (SUBSET C) /\ acc.rows \in Nat
  BY DEF AccType
<1>2. CASE Overflows(acc, b)
  <2>1. AddToChunk(acc, b) = [done |-> acc.done \cup {acc.open}, open |-> {b}, rows |-> Rows(b)]
    BY <1>2 DEF AddToChunk
  <2> QED
    BY <1>1, <1>2, <2>1 DEF AccType
<1>3. CASE ~Overflows(acc, b)
  <2>1. AddToChunk(acc, b) = [acc EXCEPT !.open = @ \cup {b}, !.rows = @ + Rows(b)]
    BY <1>3 DEF AddToChunk
  <2>2. acc.open \cup {b} \in SUBSET C /\ acc.rows + Rows(b) \in Nat
    BY <1>1
  <2>3. AddToChunk(acc, b) = [done |-> acc.done, open |-> acc.open \cup {b}, rows |-> acc.rows + Rows(b)]
    BY <2>1 DEF AccType
  <2> QED
    BY <1>1, <1>3, <2>2, <2>3 DEF AccType
<1> QED
  BY <1>2, <1>3

LEMMA AddIsSound ==
    ASSUME NEW C, IsFiniteSet(C), FiniteRows(C), NEW acc \in AccType(C), NEW S \in SUBSET C, NEW b \in C,
           b \notin S, SoundAcc(acc, S)
    PROVE  /\ AddToChunk(acc, b) \in AccType(C)
           /\ SoundAcc(AddToChunk(acc, b), S \cup {b})
<1> DEFINE next == AddToChunk(acc, b)
<1>1. /\ acc.open \in SUBSET C /\ acc.done \in SUBSET (SUBSET C) /\ acc.rows \in Nat
      /\ Rows(b) \in Nat /\ MaxSpans \in Nat
  <2>1. Rows(b) \in Nat
    BY RowsFacts
  <2> QED
    BY <2>1, PolicyAssumption DEF AccType
<1>2. ~Several({b})
  BY DEF Several
<1>3. Cardinality(MergedRows({b})) <= Rows(b)
  <2>1. MergedRows({b}) = files[b].rows
    BY DEF MergedRows
  <2> QED
    BY <1>1, <2>1 DEF Rows
<1>4. CASE Overflows(acc, b)
  <2>2. next.done = acc.done \cup {acc.open} /\ next.open = {b} /\ next.rows = Rows(b)
    BY <1>1, <1>4, AddIsTyped
  <2>3. next \in AccType(C)
    BY <1>1, AddIsTyped
  <2>4. Several(acc.open) => Cardinality(MergedRows(acc.open)) <= MaxSpans
    <3>1. Cardinality(MergedRows(acc.open)) \in Nat
      BY <1>1, RowsFinite
    <3> QED
      BY <1>1, <3>1 DEF SoundAcc
  <2> HIDE DEF next
  <2>5. \A K \in next.done : K \subseteq S
    BY <2>2 DEF SoundAcc
  <2>6. \A K \in next.done : K \subseteq S \cup {b} /\ K \cap next.open = {}
    BY <2>2, <2>5
  <2>7. \A K, L \in next.done : K = L \/ K \cap L = {}
    BY <2>2 DEF SoundAcc
  <2>8. \A K \in next.done : Several(K) => Cardinality(MergedRows(K)) <= MaxSpans
    BY <2>2, <2>4 DEF SoundAcc
  <2>9. SoundAcc(next, S \cup {b})
    BY <1>2, <1>3, <2>2, <2>6, <2>7, <2>8 DEF SoundAcc
  <2> QED
    BY <2>3, <2>9 DEF next
<1>5. CASE ~Overflows(acc, b)
  <2>2. next.done = acc.done /\ next.open = acc.open \cup {b} /\ next.rows = acc.rows + Rows(b)
    BY <1>1, <1>5, AddIsTyped
  <2>3. next \in AccType(C)
    BY <1>1, AddIsTyped
  <2>4. Several(next.open) => next.rows <= MaxSpans
    <3>1. CASE acc.open = {}
      BY <1>2, <2>2, <3>1
    <3>2. CASE acc.open # {}
      <4>1. ~(acc.rows + Rows(b) > MaxSpans)
        BY <1>5, <3>2 DEF Overflows
      <4>2. next.rows <= MaxSpans
        BY <1>1, <2>2, <4>1
      <4> QED
        BY <4>2
    <3> QED
      BY <3>1, <3>2
  <2>5. Cardinality(MergedRows(next.open)) <= next.rows
    <3>1. /\ Cardinality(MergedRows(acc.open)) \in Nat
          /\ Cardinality(MergedRows(acc.open \cup {b})) <= Cardinality(MergedRows(acc.open)) + Rows(b)
      BY <1>1, RowsFacts, RowsFinite
    <3>2. acc.open \cup {b} \in SUBSET C
      BY <1>1
    <3>3. Cardinality(MergedRows(acc.open \cup {b})) \in Nat
      BY <3>2, RowsFinite
    <3>4. Cardinality(MergedRows(acc.open)) <= acc.rows
      BY DEF SoundAcc
    <3> QED
      BY <1>1, <2>2, <3>1, <3>3, <3>4
  <2> HIDE DEF next
  <2>6. /\ next.open \subseteq S \cup {b}
        /\ \A K \in next.done : K \subseteq S \cup {b} /\ K \cap next.open = {}
    BY <2>2 DEF SoundAcc
  <2>7. SoundAcc(next, S \cup {b})
    BY <2>2, <2>4, <2>5, <2>6 DEF SoundAcc
  <2> QED
    BY <2>3, <2>7 DEF next
<1> QED
  BY <1>4, <1>5

\* So no block is in two chunks, and a chunk of several keeps to the cap.
SoundChunks(C, P) ==
    /\ \A K \in P : K \subseteq C
    /\ \A K, L \in P : K = L \/ K \cap L = {}
    /\ \A K \in P : Several(K) => Cardinality(MergedRows(K)) <= MaxSpans

LEMMA ChunksFacts ==
    ASSUME NEW C \in SUBSET Blocks, IsFiniteSet(C), OneDay(C), FiniteRows(C)
    PROVE  SoundChunks(C, Chunks(C))
<1> DEFINE q == InOrder(C)
           n == Cardinality(C)
           base == [done |-> {}, open |-> {}, rows |-> 0]
           Y == AccType(C)
           First(i) == {q[k] : k \in 1 .. i}
<1>1. /\ n \in Nat /\ DOMAIN q = 1 .. n /\ \A i \in 1 .. n : q[i] \in C
      /\ \A i, j \in 1 .. n : q[i] = q[j] => i = j
  BY InOrderFacts
<1>2. base \in Y /\ SoundAcc(base, {})
  <2>1. MergedRows({}) = {} /\ Cardinality({}) = 0
    BY FS_EmptySet DEF MergedRows
  <2> QED
    BY <2>1 DEF AccType, SoundAcc, Several
<1>3. AddsStay(Y, q, n)
  <2> SUFFICES ASSUME NEW acc \in Y, NEW i \in 1 .. n PROVE AddToChunk(acc, q[i]) \in Y
    BY DEF AddsStay
  <2>1. q[i] \in C /\ Rows(q[i]) \in Nat
    BY <1>1, RowsFacts
  <2> QED
    BY <2>1, AddIsTyped
<1> HIDE DEF q, n, base, Y
<1>4. PICK g \in [0 .. n -> Y] :
        /\ g[0] = base /\ \A i \in 1 .. n : g[i] = AddToChunk(g[i - 1], q[i])
        /\ Added(base, q) = g[n]
  <2>1. n \in Nat /\ DOMAIN q = 1 .. n /\ base \in Y /\ AddsStay(Y, q, n)
    BY <1>1, <1>2, <1>3
  <2> QED
    BY ONLY <2>1, AddsRun, SMT
<1> DEFINE G == {i \in 0 .. n : SoundAcc(g[i], First(i))}
<1>5. 0 \in G
  <2>1. First(0) = {}
    OBVIOUS
  <2>2. 0 \in 0 .. n
    BY <1>1
  <2> HIDE DEF First
  <2> QED
    BY <1>2, <1>4, <2>1, <2>2
<1>6. ASSUME NEW i \in 1 .. n, i - 1 \in G PROVE i \in G
  <2>1. i \in 0 .. n /\ i - 1 \in 0 .. n /\ SoundAcc(g[i - 1], First(i - 1))
    BY <1>1, <1>6
  <2>2. \A k \in 1 .. (i - 1) : k \in 1 .. n /\ k # i
    BY <1>1
  <2>3. First(i - 1) \in SUBSET C /\ q[i] \in C /\ q[i] \notin First(i - 1)
    BY <1>1, <2>2
  <2>4. First(i) = First(i - 1) \cup {q[i]}
    <3>1. \A k \in 1 .. i : k \in 1 .. (i - 1) \/ k = i
      OBVIOUS
    <3>2. i \in 1 .. i /\ \A k \in 1 .. (i - 1) : k \in 1 .. i
      OBVIOUS
    <3> QED
      BY <3>1, <3>2
  <2>5. g[i - 1] \in AccType(C) /\ g[i] = AddToChunk(g[i - 1], q[i])
    BY <1>4, <2>1 DEF Y
  <2> HIDE DEF First
  <2>6. IsFiniteSet(C) /\ FiniteRows(C)
    OBVIOUS
  <2>7. SoundAcc(g[i], First(i))
    BY ONLY <2>1, <2>3, <2>4, <2>5, <2>6, AddIsSound
  <2> QED
    BY <2>1, <2>7
<1>7. 0 .. n \subseteq G
  <2> HIDE DEF G
  <2> QED
    BY <1>1, <1>5, <1>6, IntervalInduction
<1>8. SoundAcc(g[n], First(n)) /\ g[n] \in AccType(C)
  BY <1>1, <1>4, <1>7 DEF Y
<1>9. Chunks(C) = g[n].done \cup {g[n].open}
  BY <1>4 DEF Chunks, Added, q, base
<1>10. First(n) \subseteq C
  BY <1>1
<1>11. Cardinality(MergedRows(g[n].open)) \in Nat /\ g[n].rows \in Nat
  <2>1. g[n].open \in SUBSET C
    BY <1>8 DEF AccType
  <2> QED
    BY <1>8, <2>1, RowsFinite DEF AccType
<1>12. Several(g[n].open) => Cardinality(MergedRows(g[n].open)) <= MaxSpans
  BY <1>8, <1>11, PolicyAssumption DEF SoundAcc
<1> HIDE DEF First
<1>13. \A K \in Chunks(C) : K \subseteq C
  BY <1>8, <1>9, <1>10 DEF SoundAcc
<1>14. \A K, L \in Chunks(C) : K = L \/ K \cap L = {}
  BY <1>8, <1>9 DEF SoundAcc
<1>15. \A K \in Chunks(C) : Several(K) => Cardinality(MergedRows(K)) <= MaxSpans
  BY <1>8, <1>9, <1>12 DEF SoundAcc
<1> QED
  BY <1>13, <1>14, <1>15 DEF SoundChunks

----------------------------------------------------------------------------
(***************************************************************************)
(* The shape of the catalog and of a pass: the part of the inductive       *)
(* invariant that holds whatever the files are called.                     *)
(***************************************************************************)
FileType == [rows : (SUBSET Spans) \ {{}}, age : 0 .. Old]

CatalogOk ==
    /\ flushed \in 0 .. Len(Segments) /\ today \in Days /\ cutoff \in Nat /\ mishaps \in 0 .. MaxMishaps
    /\ \A b \in Present : files[b] \in FileType
    /\ \A b \in Indexed : index[b] \in Hours
    /\ Indexed \subseteq Present /\ IsFiniteSet(Indexed)
    /\ traces \subseteq Traces \X Blocks
    /\ DOMAIN retired \subseteq Present \ Indexed

\* A file is named after what was flushed. Among the indexed blocks of an hour
\* the lowest segment is a name already: a segment is in one of them.
NameOk(b) ==
    /\ b \in Blocks /\ b.lo <= flushed /\ b.hi <= flushed
    /\ IF b.kind = "day" THEN b.place \in Days ELSE b.place \in Hours
SameHour(b, c) == b.kind # "day" /\ c.kind # "day" /\ b.place = c.place
NamesOk ==
    /\ \A b \in Present : NameOk(b)
    /\ \A b, c \in Indexed : SameHour(b, c) /\ b.lo = c.lo => b = c

\* A chunk of a pass at st: indexed blocks, with an output named after them.
JobOk(j, st) ==
    /\ j.inputs # {} /\ j.inputs \subseteq Indexed
    /\ j.out \in Blocks
    /\ \E b \in j.inputs : j.out.lo = b.lo
    /\ \E b \in j.inputs : j.out.hi = b.hi
    /\ st = "hours" => /\ j.out.kind = "merged" /\ j.out.place \in Hours
                       /\ \A b \in j.inputs : SameHour(b, j.out)
    /\ st = "days" => j.out.kind = "day" /\ j.out.place \in Days

Apart(S) == \A j, k \in S : j = k \/ j.inputs \cap k.inputs = {}

\* No block is in two chunks, of those to do and the one in hand, whose output
\* is there, replaces none of its inputs, and is not a retired file.
PassOk ==
    /\ stage \in {"idle", "hours", "days", "sweep"} /\ scope \in {"tick", "full"}
    /\ step \in {"write", "stamp", "commit"} /\ (step = "write" <=> job = NoJob)
    /\ stage = "idle" => scope = "tick"
    /\ stage \in {"idle", "sweep"} => todo = {} /\ job = NoJob
    /\ \A j \in todo : JobOk(j, stage)
    /\ Apart(todo)
    /\ job # NoJob =>
        /\ JobOk(job, stage)
        /\ \A j \in todo : j.inputs \cap job.inputs = {}
        /\ job.out \in Present \ DOMAIN retired /\ job.out \notin job.inputs

Shape == CatalogOk /\ NamesOk /\ PassOk

\* A plan, and the rows of its chunks.
PlanOk(P, st) ==
    /\ \A j \in P : JobOk(j, st)
    /\ Apart(P)
    /\ \A j \in P : Cardinality(MergedRows(j.inputs)) <= MaxSpans

LEMMA SeveralFacts ==
    ASSUME NEW K, IsFiniteSet(K), Cardinality(K) >= 2
    PROVE  Several(K)
<1>1. K # {}
  BY FS_EmptySet
<1>2. PICK b : b \in K
  BY <1>1
<1>3. IsFiniteSet(K \ {b}) /\ Cardinality(K \ {b}) = Cardinality(K) - 1 /\ Cardinality(K) \in Nat
  BY <1>2, FS_RemoveElement, FS_CardinalityType
<1>4. K \ {b} # {}
  <2>1. Cardinality(K \ {b}) # 0
    BY <1>3
  <2> QED
    BY <2>1, FS_EmptySet
<1> QED
  BY <1>2, <1>4 DEF Several

\* The chunks of one group of blocks.
LEMMA JobsForFacts ==
    ASSUME Shape, NEW kind \in Kinds, NEW place \in Hours \cup Days, NEW C \in SUBSET Indexed, OneDay(C)
    PROVE  /\ Apart(JobsFor(kind, place, C))
           /\ \A j \in JobsFor(kind, place, C) :
                /\ j.inputs # {} /\ j.inputs \subseteq C
                /\ j.out \in Blocks /\ j.out.kind = kind /\ j.out.place = place
                /\ \E b \in j.inputs : j.out.lo = b.lo
                /\ \E b \in j.inputs : j.out.hi = b.hi
                /\ Cardinality(MergedRows(j.inputs)) <= MaxSpans
<1>1. /\ IsFiniteSet(C) /\ C \in SUBSET Blocks
  BY FS_Subset DEF Shape, CatalogOk, NamesOk, NameOk
<1>2. FiniteRows(C)
  <2> SUFFICES ASSUME NEW b \in C PROVE IsFiniteSet(files[b].rows)
    BY DEF FiniteRows
  <2>1. files[b].rows \in SUBSET Spans
    BY DEF Shape, CatalogOk, FileType
  <2> QED
    BY <2>1, FS_Subset, PartitionAssumption
<1>3. SoundChunks(C, Chunks(C))
  BY <1>1, <1>2, ChunksFacts
<1>4. \A j \in JobsFor(kind, place, C) : \E K \in Chunks(C) :
         /\ Cardinality(K) >= 2
         /\ j = [out |-> Block(kind, place, LowestSeqno(K), HighestSeqno(K)), inputs |-> K]
  BY DEF JobsFor
<1>5. Apart(JobsFor(kind, place, C))
  BY <1>3, <1>4 DEF SoundChunks, Apart
<1>6. ASSUME NEW j \in JobsFor(kind, place, C)
      PROVE  /\ j.inputs # {} /\ j.inputs \subseteq C
             /\ j.out \in Blocks /\ j.out.kind = kind /\ j.out.place = place
             /\ \E b \in j.inputs : j.out.lo = b.lo
             /\ \E b \in j.inputs : j.out.hi = b.hi
             /\ Cardinality(MergedRows(j.inputs)) <= MaxSpans
  <2>1. PICK K \in Chunks(C) :
           /\ Cardinality(K) >= 2
           /\ j = [out |-> Block(kind, place, LowestSeqno(K), HighestSeqno(K)), inputs |-> K]
    BY <1>4
  <2>2. K \subseteq C /\ IsFiniteSet(K)
    BY <1>1, <1>3, FS_Subset DEF SoundChunks
  <2>3. Several(K)
    BY <2>1, <2>2, SeveralFacts
  <2>4. K # {} /\ K \in SUBSET Blocks
    BY <1>1, <2>2, <2>3 DEF Several
  <2>5. /\ \E b \in K : LowestSeqno(K) = b.lo
        /\ \E b \in K : HighestSeqno(K) = b.hi
    BY <2>2, <2>4, RangeFacts
  <2>6. LowestSeqno(K) \in Seqnos /\ HighestSeqno(K) \in Seqnos
    BY <2>4, <2>5 DEF Blocks
  <2>7. j.inputs = K /\ j.out = [kind |-> kind, place |-> place, lo |-> LowestSeqno(K), hi |-> HighestSeqno(K)]
    BY <2>1 DEF Block
  <2>8. j.out \in Blocks
    BY <2>6, <2>7 DEF Blocks
  <2>9. Cardinality(MergedRows(K)) <= MaxSpans
    BY <1>3, <2>3 DEF SoundChunks
  <2> QED
    BY <2>2, <2>4, <2>5, <2>7, <2>8, <2>9
<1> QED
  BY <1>5, <1>6

\* The plan of the hours, by tiers or whole.
LEMMA HourPlan ==
    ASSUME Shape, NEW sc
    PROVE  PlanOk(HourJobs(sc), "hours")
<1>1. \A h \in Hours : \A C \in HourGroups(sc, h) :
         C \subseteq Indexed /\ \A b \in C : b.kind # "day" /\ b.place = h
  BY DEF HourGroups, InHour
<1>2. \A h \in Hours : \A C, D \in HourGroups(sc, h) : C = D \/ C \cap D = {}
  BY DEF HourGroups
<1>3. \A j \in HourJobs(sc) : \E h \in Hours : \E C \in HourGroups(sc, h) : j \in JobsFor("merged", h, C)
  BY DEF HourJobs
<1>4. ASSUME NEW h \in Hours, NEW C \in HourGroups(sc, h)
      PROVE  /\ Apart(JobsFor("merged", h, C))
             /\ \A j \in JobsFor("merged", h, C) :
                  /\ JobOk(j, "hours") /\ j.inputs \subseteq C
                  /\ Cardinality(MergedRows(j.inputs)) <= MaxSpans
  <2>1. C \in SUBSET Indexed /\ OneDay(C) /\ "merged" \in Kinds /\ h \in Hours \cup Days
    BY <1>1 DEF OneDay, Kinds
  <2>2. /\ Apart(JobsFor("merged", h, C))
        /\ \A j \in JobsFor("merged", h, C) :
             /\ j.inputs # {} /\ j.inputs \subseteq C
             /\ j.out \in Blocks /\ j.out.kind = "merged" /\ j.out.place = h
             /\ \E b \in j.inputs : j.out.lo = b.lo
             /\ \E b \in j.inputs : j.out.hi = b.hi
             /\ Cardinality(MergedRows(j.inputs)) <= MaxSpans
    BY <2>1, JobsForFacts
  <2>3. \A j \in JobsFor("merged", h, C) : JobOk(j, "hours")
    BY <1>1, <2>1, <2>2 DEF JobOk, SameHour
  <2> QED
    BY <2>2, <2>3
<1>5. ASSUME NEW j \in HourJobs(sc), NEW k \in HourJobs(sc), j # k PROVE j.inputs \cap k.inputs = {}
  <2>1. PICK h \in Hours : \E C \in HourGroups(sc, h) : j \in JobsFor("merged", h, C)
    BY <1>3
  <2>2. PICK C \in HourGroups(sc, h) : j \in JobsFor("merged", h, C)
    BY <2>1
  <2>3. PICK i \in Hours : \E D \in HourGroups(sc, i) : k \in JobsFor("merged", i, D)
    BY <1>3
  <2>4. PICK D \in HourGroups(sc, i) : k \in JobsFor("merged", i, D)
    BY <2>3
  <2>5. j.inputs \subseteq C /\ k.inputs \subseteq D
    BY <1>4, <2>2, <2>4
  <2>6. CASE h # i
    BY <1>1, <2>5, <2>6
  <2>7. CASE h = i /\ C # D
    BY <1>2, <2>5, <2>7
  <2>8. CASE h = i /\ C = D
    BY <1>4, <1>5, <2>2, <2>4, <2>8 DEF Apart
  <2> QED
    BY <2>6, <2>7, <2>8
<1>6. \A j \in HourJobs(sc) : JobOk(j, "hours") /\ Cardinality(MergedRows(j.inputs)) <= MaxSpans
  BY <1>3, <1>4
<1> QED
  BY <1>5, <1>6 DEF PlanOk, Apart

\* The plan of the closed days.
LEMMA DayPlan ==
    ASSUME Shape, NEW sc
    PROVE  PlanOk(DayJobs(sc), "days")
<1>1. \A j \in DayJobs(sc) : \E d \in Days : j \in JobsFor("day", d, InDay(d))
  BY DEF DayJobs
<1>2. ASSUME NEW d \in Days
      PROVE  /\ Apart(JobsFor("day", d, InDay(d)))
             /\ \A j \in JobsFor("day", d, InDay(d)) :
                  /\ JobOk(j, "days") /\ j.inputs \subseteq InDay(d)
                  /\ Cardinality(MergedRows(j.inputs)) <= MaxSpans
  <2>1. InDay(d) \in SUBSET Indexed /\ OneDay(InDay(d)) /\ "day" \in Kinds /\ d \in Hours \cup Days
    BY DEF InDay, OneDay, Kinds, DayOfBlock
  <2>2. /\ Apart(JobsFor("day", d, InDay(d)))
        /\ \A j \in JobsFor("day", d, InDay(d)) :
             /\ j.inputs # {} /\ j.inputs \subseteq InDay(d)
             /\ j.out \in Blocks /\ j.out.kind = "day" /\ j.out.place = d
             /\ \E b \in j.inputs : j.out.lo = b.lo
             /\ \E b \in j.inputs : j.out.hi = b.hi
             /\ Cardinality(MergedRows(j.inputs)) <= MaxSpans
    BY <2>1, JobsForFacts
  <2>3. \A j \in JobsFor("day", d, InDay(d)) : JobOk(j, "days")
    BY <2>1, <2>2 DEF JobOk
  <2> QED
    BY <2>2, <2>3
<1>3. ASSUME NEW j \in DayJobs(sc), NEW k \in DayJobs(sc), j # k PROVE j.inputs \cap k.inputs = {}
  <2>1. PICK d \in Days : j \in JobsFor("day", d, InDay(d))
    BY <1>1
  <2>2. PICK e \in Days : k \in JobsFor("day", e, InDay(e))
    BY <1>1
  <2>3. j.inputs \subseteq InDay(d) /\ k.inputs \subseteq InDay(e)
    BY <1>2, <2>1, <2>2
  <2>4. CASE d # e
    BY <2>3, <2>4 DEF InDay
  <2>5. CASE d = e
    BY <1>2, <1>3, <2>1, <2>2, <2>5 DEF Apart
  <2> QED
    BY <2>4, <2>5
<1>4. \A j \in DayJobs(sc) : JobOk(j, "days") /\ Cardinality(MergedRows(j.inputs)) <= MaxSpans
  BY <1>1, <1>2
<1> QED
  BY <1>3, <1>4 DEF PlanOk, Apart

----------------------------------------------------------------------------
(***************************************************************************)
(* Every step keeps the shape.                                             *)
(***************************************************************************)

LEMMA AgeFacts == Old \in Nat /\ Grace <= Old /\ 0 \in 0 .. Old
BY PolicyAssumption DEF Old

\* What the steps on files do, file by file.
LEMMA UnlinkFacts ==
    ASSUME NEW S, Unlink(S)
    PROVE  /\ Present' = Present \ S /\ \A b \in Present' : files'[b] = files[b]
           /\ DOMAIN retired' = DOMAIN retired \ S
           /\ \A b \in DOMAIN retired' : retired'[b] = retired[b]
BY DEF Unlink, Restrict, Present

LEMMA CreateFacts ==
    ASSUME NEW b, NEW R, Create(b, R)
    PROVE  /\ Present' = Present \cup {b} /\ files'[b] = [rows |-> R, age |-> 0]
           /\ \A c \in Present \ {b} : files'[c] = files[c]
           /\ DOMAIN retired' = DOMAIN retired \ {b}
           /\ \A c \in DOMAIN retired' : retired'[c] = retired[c]
BY DEF Create, Restrict, Present

LEMMA StampFacts ==
    ASSUME Shape, NEW S, Stamp(S)
    PROVE  /\ Present' = Present
           /\ \A b \in Present : /\ files'[b].rows = files[b].rows /\ files'[b] \in FileType
                                 /\ files'[b].age = IF b \in S THEN 0 ELSE files[b].age
<1>1. Present' = Present
  BY DEF Stamp, Present
<1>2. ASSUME NEW b \in Present
      PROVE  /\ files'[b].rows = files[b].rows /\ files'[b] \in FileType
             /\ files'[b].age = IF b \in S THEN 0 ELSE files[b].age
  <2>1. files[b] \in FileType
    BY DEF Shape, CatalogOk
  <2>2. files'[b] = IF b \in S THEN [files[b] EXCEPT !.age = 0] ELSE files[b]
    BY DEF Stamp
  <2> QED
    BY <2>1, <2>2, AgeFacts DEF FileType
<1> QED
  BY <1>1, <1>2

LEMMA TickFacts ==
    ASSUME Shape, Tick
    PROVE  /\ Present' = Present /\ DOMAIN retired' = DOMAIN retired
           /\ \A b \in Present :
                /\ files'[b].rows = files[b].rows /\ files'[b] \in FileType
                /\ files'[b].age = IF files[b].age < Old THEN files[b].age + 1 ELSE files[b].age
           /\ \A b \in DOMAIN retired : retired'[b] = IF retired[b] < Old THEN retired[b] + 1 ELSE Old
<1>1. /\ Present' = Present /\ DOMAIN retired' = DOMAIN retired
      /\ \A b \in DOMAIN retired : retired'[b] = IF retired[b] < Old THEN retired[b] + 1 ELSE Old
  BY DEF Tick, Present
<1>2. ASSUME NEW b \in Present
      PROVE  /\ files'[b].rows = files[b].rows /\ files'[b] \in FileType
             /\ files'[b].age = IF files[b].age < Old THEN files[b].age + 1 ELSE files[b].age
  <2>1. files[b] \in FileType
    BY DEF Shape, CatalogOk
  <2>2. files'[b] = [files[b] EXCEPT !.age = IF @ < Old THEN @ + 1 ELSE @]
    BY DEF Tick
  <2>3. files[b].age \in 0 .. Old /\ (IF files[b].age < Old THEN files[b].age + 1 ELSE files[b].age) \in 0 .. Old
    BY <2>1, AgeFacts DEF FileType
  <2> QED
    BY <2>1, <2>2, <2>3 DEF FileType
<1> QED
  BY <1>1, <1>2

\* A step that leaves the index alone, and of the files at most unlinks some
\* that are not in it.
Aside ==
    /\ UNCHANGED <<flushed, index, traces, cutoff>>
    /\ today' \in Days /\ mishaps' \in 0 .. MaxMishaps
    /\ Present' \subseteq Present /\ Indexed \subseteq Present'
    /\ \A b \in Present' : files'[b] \in FileType /\ files'[b].rows = files[b].rows
    /\ DOMAIN retired' \subseteq DOMAIN retired \cap Present'

LEMMA AsideKeeps ==
    ASSUME Shape, Aside
    PROVE  CatalogOk' /\ NamesOk'
<1>1. Indexed' = Indexed
  BY DEF Aside, Indexed
<1>2. CatalogOk'
  BY <1>1 DEF Aside, Shape, CatalogOk, Indexed, Present
<1>3. NamesOk'
  BY <1>1 DEF Aside, Shape, NamesOk, NameOk
<1> QED
  BY <1>2, <1>3

LEMMA MishapTyped ==
    ASSUME Shape, Mishap \/ UNCHANGED mishaps
    PROVE  mishaps' \in 0 .. MaxMishaps
BY PolicyAssumption DEF Mishap, Shape, CatalogOk

\* The steps that are such.
LEMMA AsideSteps ==
    ASSUME Shape, \/ StartTick \/ StartCompact \/ ChunkSkipped \/ ChunkStamps \/ HoursDone \/ DaysDone
                  \/ PassFails \/ Sweep \/ Tick \/ Midnight \/ Restart \/ UNCHANGED vars
    PROVE  Aside
<1>1. /\ today \in Days /\ mishaps \in 0 .. MaxMishaps /\ Indexed \subseteq Present
      /\ DOMAIN retired \subseteq Present /\ \A b \in Present : files[b] \in FileType
  BY DEF Shape, CatalogOk
<1>2. CASE StartTick \/ ChunkSkipped \/ HoursDone \/ DaysDone \/ UNCHANGED vars
  BY <1>1, <1>2 DEF Aside, StartTick, ChunkSkipped, HoursDone, DaysDone, vars, Present
<1>3. ASSUME NEW S, Unlink(S), S \subseteq Present \ Indexed, UNCHANGED <<flushed, index, traces, today, cutoff>>,
             Mishap \/ UNCHANGED mishaps
      PROVE  Aside
  <2>1. /\ Present' = Present \ S /\ \A b \in Present' : files'[b] = files[b]
        /\ DOMAIN retired' = DOMAIN retired \ S
    BY <1>3, UnlinkFacts
  <2>2. mishaps' \in 0 .. MaxMishaps
    BY <1>3, MishapTyped
  <2> QED
    BY <1>1, <1>3, <2>1, <2>2 DEF Aside
<1>4. CASE StartCompact \/ Restart
  BY <1>3, <1>4 DEF StartCompact, Restart
<1>5. CASE Sweep
  <2>1. Swept \subseteq Present \ Indexed
    BY DEF Swept
  <2> QED
    BY <1>3, <1>5, <2>1 DEF Sweep
<1>6. ASSUME NEW S, Stamp(S), UNCHANGED <<flushed, index, traces, today, cutoff, retired>>,
             Mishap \/ UNCHANGED mishaps
      PROVE  Aside
  <2>1. Present' = Present /\ \A b \in Present : files'[b] \in FileType /\ files'[b].rows = files[b].rows
    BY <1>6, StampFacts
  <2>2. mishaps' \in 0 .. MaxMishaps
    BY <1>6, MishapTyped
  <2> QED
    BY <1>1, <1>6, <2>1, <2>2 DEF Aside
<1>7. CASE ChunkStamps
  BY <1>6, <1>7 DEF ChunkStamps
<1>8. CASE PassFails
  <2>1. UNCHANGED files \/ \E S : Stamp(S)
    BY <1>8 DEF PassFails
  <2>2. UNCHANGED <<flushed, index, traces, today, cutoff, retired>> /\ mishaps' \in 0 .. MaxMishaps
    BY <1>8, MishapTyped DEF PassFails
  <2>3. CASE UNCHANGED files
    BY <1>1, <2>2, <2>3 DEF Aside, Present
  <2> QED
    BY <1>6, <1>8, <2>1, <2>2, <2>3 DEF PassFails
<1>9. CASE Tick
  <2>1. /\ Present' = Present /\ DOMAIN retired' = DOMAIN retired
        /\ \A b \in Present : files'[b] \in FileType /\ files'[b].rows = files[b].rows
    BY <1>9, TickFacts
  <2> QED
    BY <1>1, <1>9, <2>1 DEF Aside, Tick
<1>10. CASE Midnight
  <2>1. today' \in Days
    <3>1. PICK d \in Days : today < d
      BY <1>10 DEF Midnight
    <3>2. today + 1 \in today .. d
      BY <1>1, <3>1, PartitionAssumption
    <3> QED
      BY <1>1, <1>10, <3>2, PartitionAssumption DEF Midnight
  <2> QED
    BY <1>1, <1>10, <2>1 DEF Aside, Midnight, Present
<1> QED
  BY <1>2, <1>4, <1>5, <1>7, <1>8, <1>9, <1>10

\* Chunks stay what they were while the index does.
LEMMA JobsStay ==
    ASSUME NEW j, NEW st, JobOk(j, st), Indexed \subseteq Indexed'
    PROVE  JobOk(j, st)'
BY DEF JobOk

LEMMA NoJobFacts == \A j, st : JobOk(j, st) => j # NoJob
BY DEF JobOk, NoJob

\* A plan is a pass that begins.
LEMMA PlanBegins ==
    ASSUME NEW st \in {"hours", "days"}, PlanOk(todo', st), stage' = st, scope' \in {"tick", "full"},
           Shape, step = "write", UNCHANGED <<step, job, index>>
    PROVE  PassOk'
<1>1. job = NoJob
  BY DEF Shape, PassOk
<1>2. \A j \in todo' : JobOk(j, st)'
  BY DEF PlanOk, JobOk, Indexed
<1>3. Apart(todo')
  BY DEF PlanOk
<1> QED
  BY <1>1, <1>2, <1>3 DEF PassOk, Apart

LEMMA PassKept ==
    ASSUME Shape, \/ StartTick \/ StartCompact \/ ChunkSkipped \/ ChunkStamps \/ HoursDone \/ DaysDone
                  \/ PassFails \/ Sweep \/ Tick \/ Midnight \/ Restart \/ UNCHANGED vars
    PROVE  PassOk'
<1>1. Aside /\ PassOk
  BY AsideSteps DEF Shape
<1>2. Indexed' = Indexed
  BY <1>1 DEF Aside, Indexed
<1>3. ASSUME PassOver PROVE PassOk'
  BY <1>3 DEF PassOver, PassOk, Apart
<1>4. CASE PassFails \/ Restart
  BY <1>3, <1>4 DEF PassFails, Restart
<1>5. stage = "idle" => step = "write"
  BY DEF Shape, PassOk
<1>6. CASE StartTick
  <2>1. CASE stage' = "hours" /\ todo' = HourJobs("tick")
    <3>1. PlanOk(todo', "hours")
      BY <2>1, HourPlan
    <3> QED
      BY <1>5, <1>6, <2>1, <3>1, PlanBegins DEF StartTick
  <2>2. CASE stage' = "sweep" /\ todo' = {}
    BY <1>6, <2>2 DEF StartTick, Shape, PassOk, Apart
  <2> QED
    BY <1>6, <2>1, <2>2 DEF StartTick
<1>7. CASE StartCompact
  <2>1. PlanOk(todo', "hours")
    BY <1>7, HourPlan DEF StartCompact
  <2> QED
    BY <1>5, <1>7, <2>1, PlanBegins DEF StartCompact
<1>8. CASE HoursDone
  <2>1. PlanOk(todo', "days") /\ scope \in {"tick", "full"}
    BY <1>8, DayPlan DEF HoursDone, Shape, PassOk
  <2> QED
    BY <1>8, <2>1, PlanBegins DEF HoursDone
<1>9. CASE DaysDone \/ Sweep
  BY <1>9 DEF DaysDone, Sweep, Shape, PassOk, Apart
<1>10. ASSUME UNCHANGED <<stage, scope, job>>, todo' \subseteq todo, step' \in {"write", "stamp", "commit"},
              step' = "write" <=> step = "write", job # NoJob => job.out \in Present'
       PROVE  PassOk'
  <2>1. \A j \in todo' : JobOk(j, stage)'
    BY <1>2, <1>10, JobsStay DEF Shape, PassOk
  <2>2. job # NoJob => JobOk(job, stage)'
    BY <1>2, <1>10, JobsStay DEF Shape, PassOk
  <2>3. DOMAIN retired' \subseteq DOMAIN retired
    BY <1>1 DEF Aside
  <2>4. Apart(todo')
    BY <1>10 DEF Shape, PassOk, Apart
  <2> QED
    BY <1>1, <1>10, <2>1, <2>2, <2>3, <2>4 DEF PassOk, Apart
<1>11. CASE ChunkSkipped
  <2>1. UNCHANGED <<stage, scope, job, files>> /\ todo' \subseteq todo /\ UNCHANGED step
    BY <1>11 DEF ChunkSkipped
  <2> QED
    BY <1>10, <2>1 DEF Shape, PassOk, Present
<1>12. CASE ChunkStamps
  <2>1. UNCHANGED <<stage, scope, job, todo>> /\ step = "stamp" /\ step' = "commit" /\ Present' = Present
    BY <1>12, StampFacts DEF ChunkStamps
  <2> QED
    BY <1>10, <2>1 DEF Shape, PassOk, Present
<1>13. CASE Tick
  <2>1. UNCHANGED <<stage, scope, job, todo, step>> /\ Present' = Present
    BY <1>13, TickFacts DEF Tick, passVars
  <2> QED
    BY <1>10, <2>1 DEF Shape, PassOk, Present
<1>14. CASE Midnight \/ UNCHANGED vars
  <2>1. UNCHANGED <<stage, scope, job, todo, step, files>>
    BY <1>14 DEF Midnight, vars, passVars
  <2> QED
    BY <1>10, <2>1 DEF Shape, PassOk, Present
<1> QED
  BY <1>4, <1>6, <1>7, <1>8, <1>9, <1>11, <1>12, <1>13, <1>14

LEMMA SpanTraces == \A S \in SUBSET Spans : TracesIn(S) \subseteq Traces
BY PartitionAssumption DEF TracesIn

\* The rows of a chunk are spans, and not none.
LEMMA JobRows ==
    ASSUME Shape, NEW j, NEW st, JobOk(j, st)
    PROVE  MergedRows(j.inputs) \in (SUBSET Spans) \ {{}}
<1>1. \A b \in j.inputs : files[b].rows \in (SUBSET Spans) \ {{}}
  BY DEF Shape, CatalogOk, FileType, JobOk
<1>2. PICK b : b \in j.inputs
  BY DEF JobOk
<1> QED
  BY <1>1, <1>2 DEF MergedRows

\* The blocks of the next segment.
Fresh == {Block("flush", HourOf[s], flushed + 1, flushed + 1) : s \in Segments[flushed + 1]}
FreshRows(b) == {s \in Segments[flushed + 1] : HourOf[s] = b.place}

LEMMA FlushFacts ==
    ASSUME Shape, Flush
    PROVE  /\ flushed + 1 \in Seqnos /\ flushed' = flushed + 1 /\ Segments[flushed + 1] \in SUBSET Spans
           /\ Fresh \cap Present = {} /\ IsFiniteSet(Fresh)
           /\ \A b \in Fresh : /\ b \in Blocks /\ b.kind = "flush" /\ b.place \in Hours
                               /\ b.lo = flushed + 1 /\ b.hi = flushed + 1
                               /\ FreshRows(b) \in (SUBSET Spans) \ {{}}
                               /\ files'[b] = [rows |-> FreshRows(b), age |-> 0] /\ index'[b] = b.place
           /\ \A b, c \in Fresh : b.place = c.place => b = c
           /\ Present' = Present \cup Fresh /\ \A b \in Present : files'[b] = files[b]
           /\ Indexed' = Indexed \cup Fresh /\ \A b \in Indexed : index'[b] = index[b]
           /\ traces' = traces \cup UNION {TracesIn(FreshRows(b)) \X {b} : b \in Fresh}
<1>1. /\ flushed \in Nat /\ flushed + 1 \in Seqnos /\ flushed' = flushed + 1
      /\ Segments[flushed + 1] \in SUBSET Spans
  <2>1. Len(Segments) \in Nat /\ flushed \in 0 .. Len(Segments) /\ flushed < Len(Segments)
    BY PartitionAssumption DEF Shape, CatalogOk, Flush
  <2>2. flushed + 1 \in 1 .. Len(Segments)
    BY <2>1
  <2> QED
    BY <2>1, <2>2, PartitionAssumption DEF Seqnos, Flush
<1>2. IsFiniteSet(Fresh)
  <2> DEFINE f == [s \in Segments[flushed + 1] |-> Block("flush", HourOf[s], flushed + 1, flushed + 1)]
  <2>1. f \in Surjection(Segments[flushed + 1], Fresh)
    BY DEF Surjection, Fresh
  <2>2. IsFiniteSet(Segments[flushed + 1])
    BY <1>1, FS_Subset, PartitionAssumption
  <2> QED
    BY <2>1, <2>2, FS_Surjection
<1>3. \A b \in Fresh : \E s \in Segments[flushed + 1] :
         /\ HourOf[s] \in Hours
         /\ b = [kind |-> "flush", place |-> HourOf[s], lo |-> flushed + 1, hi |-> flushed + 1]
  BY <1>1, PartitionAssumption DEF Fresh, Block
<1>4. \A b \in Fresh : /\ b \in Blocks /\ b.kind = "flush" /\ b.place \in Hours
                       /\ b.lo = flushed + 1 /\ b.hi = flushed + 1
                       /\ FreshRows(b) \in (SUBSET Spans) \ {{}}
  BY <1>1, <1>3 DEF Blocks, Kinds, FreshRows
<1>5. \A b, c \in Fresh : b.place = c.place => b = c
  BY <1>3
<1>6. Fresh \cap Present = {}
  <2> SUFFICES ASSUME NEW b \in Fresh, b \in Present PROVE FALSE
    OBVIOUS
  <2>1. b.lo <= flushed /\ b.lo = flushed + 1
    BY <1>4 DEF Shape, NamesOk, NameOk
  <2> QED
    BY <1>1, <2>1
<1>7. /\ files' = [f \in Present \cup Fresh |->
                     IF f \in Fresh THEN [rows |-> FreshRows(f), age |-> 0] ELSE files[f]]
      /\ index' = [f \in Indexed \cup Fresh |-> IF f \in Fresh THEN f.place ELSE index[f]]
      /\ traces' = traces \cup UNION {TracesIn(FreshRows(b)) \X {b} : b \in Fresh}
  BY DEF Flush, Fresh, FreshRows
<1>8. Indexed \subseteq Present
  BY DEF Shape, CatalogOk
<1>9. /\ \A b \in Fresh : files'[b] = [rows |-> FreshRows(b), age |-> 0] /\ index'[b] = b.place
      /\ Present' = Present \cup Fresh /\ \A b \in Present : files'[b] = files[b]
      /\ Indexed' = Indexed \cup Fresh /\ \A b \in Indexed : index'[b] = index[b]
  BY <1>6, <1>7, <1>8 DEF Present, Indexed
<1> QED
  BY <1>1, <1>2, <1>4, <1>5, <1>6, <1>7, <1>9

LEMMA FlushShapes ==
    ASSUME Shape, Flush
    PROVE  Shape'
<1>1. /\ flushed + 1 \in Seqnos /\ flushed' = flushed + 1
      /\ Fresh \cap Present = {} /\ IsFiniteSet(Fresh)
      /\ \A b \in Fresh : /\ b \in Blocks /\ b.kind = "flush" /\ b.place \in Hours
                          /\ b.lo = flushed + 1 /\ b.hi = flushed + 1
                          /\ FreshRows(b) \in (SUBSET Spans) \ {{}}
                          /\ files'[b] = [rows |-> FreshRows(b), age |-> 0] /\ index'[b] = b.place
      /\ \A b, c \in Fresh : b.place = c.place => b = c
      /\ Present' = Present \cup Fresh /\ \A b \in Present : files'[b] = files[b]
      /\ Indexed' = Indexed \cup Fresh /\ \A b \in Indexed : index'[b] = index[b]
      /\ traces' = traces \cup UNION {TracesIn(FreshRows(b)) \X {b} : b \in Fresh}
  BY FlushFacts
<1>2. /\ flushed \in Nat /\ Len(Segments) \in Nat /\ flushed' \in 0 .. Len(Segments)
  BY <1>1, PartitionAssumption DEF Shape, CatalogOk, Seqnos
<1>3. UNCHANGED <<today, stage, scope, todo, step, job, cutoff, retired, mishaps>>
  BY DEF Flush, passVars
<1>4. CatalogOk'
  <2>1. \A b \in Present' : files'[b] \in FileType
    <3>1. ASSUME NEW b \in Fresh PROVE files'[b] \in FileType
      <4>1. /\ FreshRows(b) \in (SUBSET Spans) \ {{}}
            /\ files'[b] = [rows |-> FreshRows(b), age |-> 0] /\ 0 \in 0 .. Old
        BY <1>1, AgeFacts
      <4> QED
        BY ONLY <4>1 DEF FileType
    <3> QED
      BY <1>1, <3>1 DEF Shape, CatalogOk
  <2>2. \A b \in Indexed' : index'[b] \in Hours
    BY <1>1 DEF Shape, CatalogOk
  <2>3. IsFiniteSet(Indexed')
    BY <1>1, FS_Union DEF Shape, CatalogOk
  <2>4. traces' \subseteq Traces \X Blocks
    <3>1. ASSUME NEW b \in Fresh PROVE TracesIn(FreshRows(b)) \subseteq Traces /\ b \in Blocks
      <4>1. FreshRows(b) \in SUBSET Spans /\ b \in Blocks
        BY <1>1
      <4> QED
        BY <4>1, SpanTraces
    <3>2. \A m \in UNION {TracesIn(FreshRows(b)) \X {b} : b \in Fresh} : m \in Traces \X Blocks
      BY <3>1
    <3> QED
      BY <1>1, <3>2 DEF Shape, CatalogOk
  <2> QED
    BY <1>1, <1>2, <1>3, <2>1, <2>2, <2>3, <2>4 DEF Shape, CatalogOk
<1>5. NamesOk'
  <2>1. ASSUME NEW b \in Present' PROVE NameOk(b)'
    <3>1. CASE b \in Fresh
      <4>1. /\ b \in Blocks /\ b.kind = "flush" /\ b.place \in Hours
            /\ b.lo = flushed + 1 /\ b.hi = flushed + 1
        BY <1>1, <3>1
      <4>2. flushed' = flushed + 1 /\ flushed \in Nat
        BY <1>1, <1>2
      <4> QED
        BY ONLY <4>1, <4>2 DEF NameOk
    <3>2. CASE b \in Present
      <4>1. NameOk(b)
        BY <3>2 DEF Shape, NamesOk
      <4>2. b.lo \in Nat /\ b.hi \in Nat
        BY <4>1, PartitionAssumption DEF NameOk, Blocks, Seqnos
      <4> QED
        BY <1>1, <1>2, <4>1, <4>2 DEF NameOk
    <3> QED
      BY <1>1, <3>1, <3>2
  <2>2. ASSUME NEW b \in Indexed', NEW c \in Indexed', SameHour(b, c), b.lo = c.lo PROVE b = c
    <3>1. \A x \in Indexed : x.lo \in Nat /\ x.lo <= flushed
      BY PartitionAssumption DEF Shape, NamesOk, CatalogOk, NameOk, Blocks, Seqnos
    <3>2. CASE b \in Fresh /\ c \in Fresh
      BY <1>1, <2>2, <3>2 DEF SameHour
    <3>3. CASE b \in Indexed /\ c \in Indexed
      BY <2>2, <3>3 DEF Shape, NamesOk
    <3>4. ASSUME NEW x \in Indexed, NEW y \in Fresh PROVE x.lo # y.lo
      <4>1. x.lo \in Nat /\ x.lo <= flushed /\ flushed \in Nat /\ y.lo = flushed + 1
        BY <1>1, <1>2, <3>1
      <4> QED
        BY ONLY <4>1
    <3> QED
      BY <1>1, <2>2, <3>2, <3>3, <3>4
  <2> QED
    BY <2>1, <2>2 DEF NamesOk, SameHour
<1>6. PassOk'
  <2>1. \A j \in todo : JobOk(j, stage)'
    BY <1>1, <1>3, JobsStay DEF Shape, PassOk
  <2>2. job # NoJob => JobOk(job, stage)'
    BY <1>1, <1>3, JobsStay DEF Shape, PassOk
  <2> QED
    BY <1>1, <1>3, <2>1, <2>2 DEF Shape, PassOk, Apart
<1> QED
  BY <1>4, <1>5, <1>6 DEF Shape

\* A chunk is taken: its output is there, and all else is as it was.
LEMMA WriteFacts ==
    ASSUME Shape, ChunkWrites
    PROVE  /\ stage \in {"hours", "days"} /\ UNCHANGED <<flushed, index, traces, today, stage, scope, cutoff, mishaps>>
           /\ job' \in todo /\ todo' = todo \ {job'} /\ step' = "stamp"
           /\ job'.out \notin job'.inputs /\ JobOk(job', stage) /\ job' # NoJob
           /\ Present' = Present \cup {job'.out}
           /\ files'[job'.out] = [rows |-> MergedRows(job'.inputs), age |-> 0]
           /\ \A b \in Present \ {job'.out} : files'[b] = files[b]
           /\ DOMAIN retired' = DOMAIN retired \ {job'.out}
           /\ \A b \in DOMAIN retired' : retired'[b] = retired[b]
<1>1. /\ job' \in todo /\ todo' = todo \ {job'} /\ job'.out \notin job'.inputs
      /\ Create(job'.out, MergedRows(job'.inputs))
  BY DEF ChunkWrites
<1>2. JobOk(job', stage)
  BY <1>1 DEF Shape, PassOk
<1>3. job' # NoJob
  BY <1>2, NoJobFacts
<1> QED
  BY <1>1, <1>2, <1>3, CreateFacts DEF ChunkWrites

LEMMA OutputNamed ==
    ASSUME Shape, NEW j, NEW st \in {"hours", "days"}, JobOk(j, st)
    PROVE  NameOk(j.out)
<1>1. PICK b \in j.inputs : j.out.lo = b.lo
  BY DEF JobOk
<1>2. PICK c \in j.inputs : j.out.hi = c.hi
  BY DEF JobOk
<1>3. NameOk(b) /\ NameOk(c)
  BY DEF JobOk, Shape, CatalogOk, NamesOk
<1> QED
  BY <1>1, <1>2, <1>3 DEF NameOk, JobOk

LEMMA WriteShapes ==
    ASSUME Shape, ChunkWrites
    PROVE  Shape'
<1>1. /\ stage \in {"hours", "days"} /\ UNCHANGED <<flushed, index, traces, today, stage, scope, cutoff, mishaps>>
      /\ job' \in todo /\ todo' = todo \ {job'} /\ step' = "stamp"
      /\ job'.out \notin job'.inputs /\ JobOk(job', stage) /\ job' # NoJob
      /\ Present' = Present \cup {job'.out}
      /\ files'[job'.out] = [rows |-> MergedRows(job'.inputs), age |-> 0]
      /\ \A b \in Present \ {job'.out} : files'[b] = files[b]
      /\ DOMAIN retired' = DOMAIN retired \ {job'.out}
  BY WriteFacts
<1>2. Indexed' = Indexed
  BY <1>1 DEF Indexed
<1>3. CatalogOk'
  <2>1. \A b \in Present' : files'[b] \in FileType
    <3>1. MergedRows(job'.inputs) \in (SUBSET Spans) \ {{}}
      BY <1>1, JobRows
    <3>2. files'[job'.out] \in FileType
      BY <1>1, <3>1, AgeFacts DEF FileType
    <3> QED
      BY <1>1, <3>2 DEF Shape, CatalogOk
  <2> QED
    BY <1>1, <1>2, <2>1 DEF Shape, CatalogOk
<1>4. NamesOk'
  <2>1. NameOk(job'.out)
    BY <1>1, OutputNamed
  <2>2. \A b \in Present' : NameOk(b)
    BY <1>1, <2>1 DEF Shape, NamesOk
  <2>3. \A b \in Present' : NameOk(b)'
    BY <1>1, <2>2 DEF NameOk
  <2> QED
    BY <1>2, <2>3 DEF Shape, NamesOk, SameHour
<1>5. PassOk'
  <2>1. \A j \in todo : JobOk(j, stage)'
    BY <1>1, <1>2, JobsStay DEF Shape, PassOk
  <2> QED
    BY <1>1, <2>1 DEF Shape, PassOk, Apart
<1> QED
  BY <1>3, <1>4, <1>5 DEF Shape

\* Its commit: the inputs leave the index for the output, and are retired.
LEMMA CommitFacts ==
    ASSUME Shape, ChunkCommits
    PROVE  /\ stage \in {"hours", "days"} /\ step = "commit" /\ step' = "write" /\ job' = NoJob
           /\ UNCHANGED <<flushed, files, today, stage, scope, todo, cutoff, mishaps>>
           /\ job # NoJob /\ JobOk(job, stage) /\ job.out \in Present \ DOMAIN retired /\ job.out \notin job.inputs
           /\ Indexed' = (Indexed \ job.inputs) \cup {job.out}
           /\ index'[job.out] = NewestHour(MergedRows(job.inputs))
           /\ \A b \in Indexed' \ {job.out} : index'[b] = index[b]
           /\ traces' = (traces \ UNION {TracesIn(files[b].rows) \X {b} : b \in job.inputs})
                            \cup TracesIn(MergedRows(job.inputs)) \X {job.out}
           /\ DOMAIN retired' = DOMAIN retired \cup job.inputs
           /\ \A b \in job.inputs : retired'[b] = 0
           /\ \A b \in DOMAIN retired \ job.inputs : retired'[b] = retired[b]
<1>1. /\ index' = [f \in (Indexed \ job.inputs) \cup {job.out} |->
                     IF f = job.out THEN NewestHour(MergedRows(job.inputs)) ELSE index[f]]
      /\ traces' = (traces \ UNION {TracesIn(files[b].rows) \X {b} : b \in job.inputs})
                       \cup TracesIn(MergedRows(job.inputs)) \X {job.out}
  BY DEF ChunkCommits, CommitMerge
<1>2. /\ Indexed' = (Indexed \ job.inputs) \cup {job.out}
      /\ index'[job.out] = NewestHour(MergedRows(job.inputs))
      /\ \A b \in Indexed' \ {job.out} : index'[b] = index[b]
  BY <1>1 DEF Indexed
<1>3. /\ DOMAIN retired' = DOMAIN retired \cup job.inputs
      /\ \A b \in job.inputs : retired'[b] = 0
      /\ \A b \in DOMAIN retired \ job.inputs : retired'[b] = retired[b]
  BY DEF ChunkCommits
<1>4. step = "commit" /\ job # NoJob
  BY DEF ChunkCommits, Shape, PassOk
<1> QED
  BY <1>1, <1>2, <1>3, <1>4 DEF ChunkCommits, Shape, PassOk

LEMMA CommitShapes ==
    ASSUME Shape, ChunkCommits
    PROVE  Shape'
<1>1. /\ stage \in {"hours", "days"} /\ step' = "write" /\ job' = NoJob
      /\ UNCHANGED <<flushed, files, today, stage, scope, todo, cutoff, mishaps>>
      /\ job # NoJob /\ JobOk(job, stage) /\ job.out \in Present \ DOMAIN retired /\ job.out \notin job.inputs
      /\ Indexed' = (Indexed \ job.inputs) \cup {job.out}
      /\ index'[job.out] = NewestHour(MergedRows(job.inputs))
      /\ \A b \in Indexed' \ {job.out} : index'[b] = index[b]
      /\ traces' = (traces \ UNION {TracesIn(files[b].rows) \X {b} : b \in job.inputs})
                       \cup TracesIn(MergedRows(job.inputs)) \X {job.out}
      /\ DOMAIN retired' = DOMAIN retired \cup job.inputs
  BY CommitFacts
<1>2. Present' = Present
  BY <1>1 DEF Present
<1>3. MergedRows(job.inputs) \in (SUBSET Spans) \ {{}}
  BY <1>1, JobRows
<1>4. CatalogOk'
  <2>1. \A b \in Indexed' : index'[b] \in Hours
    <3>1. index'[job.out] \in Hours
      BY <1>1, <1>3, NewestFacts
    <3> QED
      BY <1>1, <3>1 DEF Shape, CatalogOk
  <2>2. Indexed' \subseteq Present' /\ IsFiniteSet(Indexed')
    <3>1. IsFiniteSet(Indexed \ job.inputs)
      BY FS_Difference DEF Shape, CatalogOk
    <3>2. IsFiniteSet(Indexed')
      BY <1>1, <3>1, FS_AddElement
    <3> QED
      BY <1>1, <1>2, <3>2 DEF Shape, CatalogOk
  <2>3. traces' \subseteq Traces \X Blocks
    <3>1. TracesIn(MergedRows(job.inputs)) \subseteq Traces /\ job.out \in Blocks
      BY <1>1, <1>3, SpanTraces DEF JobOk
    <3> QED
      BY <1>1, <3>1 DEF Shape, CatalogOk
  <2>4. DOMAIN retired' \subseteq Present' \ Indexed'
    BY <1>1, <1>2 DEF Shape, CatalogOk, JobOk
  <2> QED
    BY <1>1, <1>2, <2>1, <2>2, <2>3, <2>4 DEF Shape, CatalogOk
<1>5. NamesOk'
  <2>1. \A b \in Present' : NameOk(b)'
    BY <1>1, <1>2 DEF Shape, NamesOk, NameOk
  <2>2. ASSUME NEW c \in Indexed \ job.inputs, SameHour(job.out, c), job.out.lo = c.lo PROVE FALSE
    <3>1. stage = "hours"
      BY <1>1, <2>2 DEF SameHour, JobOk
    <3>2. PICK b \in job.inputs : job.out.lo = b.lo
      BY <1>1 DEF JobOk
    <3>3. SameHour(b, c) /\ b.lo = c.lo /\ b \in Indexed
      BY <1>1, <2>2, <3>1, <3>2 DEF JobOk, SameHour
    <3> QED
      BY <2>2, <3>2, <3>3 DEF Shape, NamesOk
  <2>3. \A b, c \in Indexed' : SameHour(b, c) /\ b.lo = c.lo => b = c
    BY <1>1, <2>2 DEF Shape, NamesOk, SameHour
  <2> QED
    BY <2>1, <2>3 DEF NamesOk, SameHour
<1>6. PassOk'
  <2>1. ASSUME NEW j \in todo PROVE JobOk(j, stage)'
    <3>1. JobOk(j, stage) /\ j.inputs \cap job.inputs = {}
      BY <1>1 DEF Shape, PassOk
    <3>2. j.inputs \subseteq Indexed'
      BY <1>1, <3>1 DEF JobOk
    <3> QED
      BY <1>1, <3>1, <3>2 DEF JobOk
  <2> QED
    BY <1>1, <2>1 DEF Shape, PassOk, Apart
<1> QED
  BY <1>4, <1>5, <1>6 DEF Shape

\* Retention drops the blocks whose newest row is before the cutoff, and
\* unlinks their files or some of them.
Dropped(c) == {b \in Indexed : index[b] < c}

LEMMA ReclaimFacts ==
    ASSUME Shape, NEW c \in Nat, Reclaim(c)
    PROVE  /\ todo = {} /\ job = NoJob /\ stage \in {"idle", "sweep"}
           /\ Indexed' = Indexed \ Dropped(c) /\ \A b \in Indexed' : index'[b] = index[b]
           /\ traces' = {m \in traces : m[2] \notin Dropped(c)}
           /\ Indexed' \subseteq Present' /\ Present' \subseteq Present
           /\ \A b \in Present' : files'[b] = files[b]
           /\ DOMAIN retired' = DOMAIN retired /\ \A b \in DOMAIN retired : b \in Present' /\ retired'[b] = retired[b]
           /\ mishaps' \in 0 .. MaxMishaps
           /\ cutoff' = IF cutoff < c THEN c ELSE cutoff
           /\ UNCHANGED <<flushed, today, stage, scope, todo, step, job>>
<1>1. todo = {} /\ job = NoJob /\ stage \in {"idle", "sweep"}
  BY DEF Reclaim, MutexFree, Shape, PassOk
<1>2. /\ index' = Restrict(index, Indexed \ Dropped(c))
      /\ traces' = {m \in traces : m[2] \notin Dropped(c)}
      /\ cutoff' = IF cutoff < c THEN c ELSE cutoff
      /\ UNCHANGED <<flushed, today, stage, scope, todo, step, job>>
  BY DEF Reclaim, Dropped, passVars
<1>3. PICK S \in SUBSET Dropped(c) : Unlink(S) /\ (Mishap \/ UNCHANGED mishaps)
  BY DEF Reclaim, Dropped
<1>4. Indexed' = Indexed \ Dropped(c) /\ \A b \in Indexed' : index'[b] = index[b]
  BY <1>2 DEF Indexed, Restrict
<1>5. /\ Present' = Present \ S /\ \A b \in Present' : files'[b] = files[b]
      /\ DOMAIN retired' = DOMAIN retired \ S
      /\ \A b \in DOMAIN retired' : retired'[b] = retired[b]
  BY <1>3, UnlinkFacts
<1>6. S \subseteq Dropped(c) /\ Dropped(c) \subseteq Indexed
  BY <1>3 DEF Dropped
<1>7. Indexed \subseteq Present /\ DOMAIN retired \subseteq Present \ Indexed
  BY DEF Shape, CatalogOk
<1>8. mishaps' \in 0 .. MaxMishaps
  BY <1>3, MishapTyped
<1> QED
  BY <1>1, <1>2, <1>4, <1>5, <1>6, <1>7, <1>8

LEMMA ReclaimShapes ==
    ASSUME Shape, NEW c \in Nat, Reclaim(c)
    PROVE  Shape'
<1>1. /\ todo = {} /\ job = NoJob /\ stage \in {"idle", "sweep"}
      /\ Indexed' = Indexed \ Dropped(c) /\ \A b \in Indexed' : index'[b] = index[b]
      /\ traces' = {m \in traces : m[2] \notin Dropped(c)}
      /\ Indexed' \subseteq Present' /\ Present' \subseteq Present
      /\ \A b \in Present' : files'[b] = files[b]
      /\ DOMAIN retired' = DOMAIN retired /\ \A b \in DOMAIN retired : b \in Present' /\ retired'[b] = retired[b]
      /\ mishaps' \in 0 .. MaxMishaps
      /\ cutoff' = IF cutoff < c THEN c ELSE cutoff
      /\ UNCHANGED <<flushed, today, stage, scope, todo, step, job>>
  BY ReclaimFacts
<1>2. CatalogOk'
  <2>1. IsFiniteSet(Indexed')
    BY <1>1, FS_Difference DEF Shape, CatalogOk
  <2>2. cutoff' \in Nat
    BY <1>1 DEF Shape, CatalogOk
  <2> QED
    BY <1>1, <2>1, <2>2 DEF Shape, CatalogOk
<1>3. NamesOk'
  BY <1>1 DEF Shape, NamesOk, NameOk, SameHour
<1>4. PassOk'
  BY <1>1 DEF Shape, PassOk, Apart
<1> QED
  BY <1>2, <1>3, <1>4 DEF Shape

LEMMA InitShapes == Init => Shape
<1> SUFFICES ASSUME Init PROVE Shape
  OBVIOUS
<1>1. Present = {} /\ Indexed = {} /\ DOMAIN retired = {}
  BY DEF Init, Present, Indexed
<1>2. Len(Segments) \in Nat /\ MaxMishaps \in Nat
  BY PartitionAssumption, PolicyAssumption
<1>3. CatalogOk
  BY <1>1, <1>2, FS_EmptySet DEF Init, CatalogOk
<1> QED
  BY <1>1, <1>3 DEF Init, Shape, NamesOk, PassOk, Apart

LEMMA StepShapes == Shape /\ [Next]_vars => Shape'
<1> SUFFICES ASSUME Shape, [Next]_vars PROVE Shape'
  OBVIOUS
<1>1. CASE Flush
  BY <1>1, FlushShapes
<1>2. CASE ChunkWrites
  BY <1>2, WriteShapes
<1>3. CASE ChunkCommits
  BY <1>3, CommitShapes
<1>4. CASE \E c \in {h + 1 : h \in Hours} : Reclaim(c)
  <2>1. PICK c \in {h + 1 : h \in Hours} : Reclaim(c)
    BY <1>4
  <2>2. c \in Nat
    BY PartitionAssumption
  <2> QED
    BY <2>1, <2>2, ReclaimShapes
<1>5. CASE \/ StartTick \/ StartCompact \/ ChunkSkipped \/ ChunkStamps \/ HoursDone \/ DaysDone
           \/ PassFails \/ Sweep \/ Tick \/ Midnight \/ Restart \/ UNCHANGED vars
  <2>1. Aside /\ PassOk'
    BY <1>5, AsideSteps, PassKept
  <2> QED
    BY <2>1, AsideKeeps DEF Shape
<1> QED
  BY <1>1, <1>2, <1>3, <1>4, <1>5 DEF Next, Pass

LEMMA AlwaysShape == Spec => []Shape
<1>1. Init => Shape
  BY InitShapes
<1>2. Shape /\ [Next]_vars => Shape'
  BY StepShapes
<1> QED
  BY <1>1, <1>2, PTL DEF Spec

\* The catalog, the files and the pass have their types, whatever the names of
\* the blocks: merge_cold, merge_chunk, sweep_unindexed and reclaim_before_in
\* leave no index entry without its file.
THEOREM TypeCorrect == Spec => []TypeOK
<1>1. Shape => TypeOK
  BY DEF Shape, CatalogOk, NamesOk, NameOk, PassOk, TypeOK, FileType
<1> QED
  BY <1>1, AlwaysShape, PTL

\* An hour's output never has the name of an indexed block that it does not
\* replace: the lowest segment tells the blocks of an hour apart.
LEMMA HourOutputs ==
    ASSUME Shape, NEW j, JobOk(j, "hours"), j.out \in Indexed
    PROVE  j.out \in j.inputs
<1>1. PICK b \in j.inputs : j.out.lo = b.lo
  BY DEF JobOk
<1>2. b \in Indexed /\ SameHour(b, j.out)
  BY <1>1 DEF JobOk
<1>3. b = j.out
  BY <1>1, <1>2 DEF Shape, NamesOk
<1> QED
  BY <1>3

\* What merge_chunk's guard is there for, in the hours: it never overwrites a
\* block that stays indexed. In the days it may, see NoDayClash.
THEOREM HourNamesAreFree ==
    Spec => [](stage = "hours" => \A j \in todo : j.out \in Indexed => j.out \in j.inputs)
<1>1. Shape => (stage = "hours" => \A j \in todo : j.out \in Indexed => j.out \in j.inputs)
  BY HourOutputs DEF Shape, PassOk
<1> QED
  BY <1>1, AlwaysShape, PTL

----------------------------------------------------------------------------
(***************************************************************************)
(* What the blocks hold, when no chunk of a day clashes with a day block.  *)
(***************************************************************************)

\* No chunk of a closed day takes the name of an indexed block it leaves alone.
NoDayClash == stage = "days" => \A j \in todo : j.out \in Indexed => j.out \in j.inputs

Copies(s) == {b \in Indexed : s \in files[b].rows}
Brought(s) == {n \in 1 .. flushed : s \in Segments[n]}

\* Every flushed span of the retained hours is in an indexed block, and the
\* index says of its blocks what they hold.
Kept ==
    \A n \in 1 .. flushed : \A s \in Segments[n] :
        HourOf[s] >= cutoff => \E b \in Indexed : s \in files[b].rows
Dated == \A b \in Indexed : index[b] = NewestHour(files[b].rows)
Mapped == \A t, b : <<t, b>> \in traces <=> b \in Indexed /\ t \in TracesIn(files[b].rows)
Single == \A s \in Spans : Cardinality(Copies(s)) <= Cardinality(Brought(s))
Capped == \A b \in Indexed : b.kind # "flush" => Cardinality(files[b].rows) <= MaxSpans

\* The output of the chunk in hand is new, and holds what its inputs hold.
ChunksHold ==
    /\ \A j \in todo : Cardinality(MergedRows(j.inputs)) <= MaxSpans
    /\ job # NoJob => /\ Cardinality(MergedRows(job.inputs)) <= MaxSpans
                      /\ job.out \notin Indexed
                      /\ files[job.out].rows = MergedRows(job.inputs)

BlocksHold == Kept /\ Dated /\ Mapped /\ Single /\ Capped
Contents == BlocksHold /\ ChunksHold

\* While the index and the rows of its blocks stay, so does what they hold.
LEMMA BlocksStay ==
    ASSUME Shape, BlocksHold, UNCHANGED <<flushed, index, traces, cutoff>>,
           \A b \in Indexed : files'[b].rows = files[b].rows
    PROVE  BlocksHold'
<1>1. Indexed' = Indexed
  BY DEF Indexed
<1>2. Kept'
  BY <1>1 DEF BlocksHold, Kept
<1>3. Dated'
  BY <1>1 DEF BlocksHold, Dated
<1>4. Mapped'
  BY <1>1 DEF BlocksHold, Mapped
<1>5. Single'
  <2>1. \A s : Copies(s)' = Copies(s) /\ Brought(s)' = Brought(s)
    BY <1>1 DEF Copies, Brought
  <2> QED
    BY <2>1 DEF BlocksHold, Single
<1>6. Capped'
  BY <1>1 DEF BlocksHold, Capped
<1> QED
  BY <1>2, <1>3, <1>4, <1>5, <1>6 DEF BlocksHold

LEMMA RowsStay ==
    ASSUME NEW K, \A b \in K : files'[b].rows = files[b].rows
    PROVE  MergedRows(K)' = MergedRows(K)
BY DEF MergedRows

\* The steps aside of the index.
LEMMA AsideHolds ==
    ASSUME Shape, Contents,
           \/ StartTick \/ StartCompact \/ ChunkSkipped \/ ChunkStamps \/ HoursDone \/ DaysDone
           \/ PassFails \/ Sweep \/ Tick \/ Midnight \/ Restart \/ UNCHANGED vars
    PROVE  Contents'
<1>1. Aside /\ PassOk'
  BY AsideSteps, PassKept
<1>2. Indexed' = Indexed /\ \A b \in Present' : files'[b].rows = files[b].rows
  BY <1>1 DEF Aside, Indexed
<1>3. \A b \in Indexed : files'[b].rows = files[b].rows
  BY <1>1, <1>2 DEF Aside
<1>4. BlocksHold'
  BY <1>1, <1>3, BlocksStay DEF Aside, Contents
<1>5. \/ todo' \subseteq todo
      \/ PlanOk(todo', "hours") \/ PlanOk(todo', "days")
  <2>1. CASE StartTick
    BY <2>1, HourPlan DEF StartTick, Shape, PassOk
  <2>2. CASE StartCompact
    BY <2>2, HourPlan DEF StartCompact
  <2>3. CASE HoursDone
    BY <2>3, DayPlan DEF HoursDone
  <2>4. CASE ChunkSkipped \/ ChunkStamps \/ DaysDone \/ Tick \/ Midnight \/ UNCHANGED vars
    BY <2>4 DEF ChunkSkipped, ChunkStamps, DaysDone, Tick, Midnight, passVars, vars
  <2>5. CASE PassFails \/ Sweep \/ Restart
    BY <2>5 DEF PassFails, Sweep, Restart, PassOver
  <2> QED
    BY <2>1, <2>2, <2>3, <2>4, <2>5
<1>6. \A j \in todo' : j.inputs \subseteq Indexed /\ Cardinality(MergedRows(j.inputs)) <= MaxSpans
  <2>1. \A j \in todo : j.inputs \subseteq Indexed /\ Cardinality(MergedRows(j.inputs)) <= MaxSpans
    BY DEF Contents, ChunksHold, Shape, PassOk, JobOk
  <2> QED
    BY <1>5, <2>1 DEF PlanOk, JobOk
<1>7. ASSUME NEW j \in todo' PROVE Cardinality(MergedRows(j.inputs)') <= MaxSpans
  <2>1. MergedRows(j.inputs)' = MergedRows(j.inputs)
    BY <1>3, <1>6, RowsStay
  <2> QED
    BY <1>6, <2>1
<1>8. job' = job \/ job' = NoJob
  BY DEF StartTick, StartCompact, ChunkSkipped, ChunkStamps, HoursDone, DaysDone, PassFails, Sweep, Tick,
         Midnight, Restart, vars, passVars, PassOver
<1>9. ASSUME job' # NoJob
      PROVE  /\ Cardinality(MergedRows(job.inputs)') <= MaxSpans
             /\ job.out \notin Indexed'
             /\ files'[job.out].rows = MergedRows(job.inputs)'
  <2>1. job' = job /\ job # NoJob /\ job.out \in Present' /\ job.inputs \subseteq Indexed
    BY <1>1, <1>8, <1>9 DEF Shape, PassOk, JobOk
  <2>2. UNION {files'[b].rows : b \in job.inputs} = UNION {files[b].rows : b \in job.inputs}
    BY <1>3, <2>1
  <2>3. MergedRows(job.inputs)' = MergedRows(job.inputs)
    BY <2>1, <2>2 DEF MergedRows
  <2> QED
    BY <1>2, <2>1, <2>3 DEF Contents, ChunksHold
<1>10. ChunksHold'
  BY <1>7, <1>8, <1>9 DEF ChunksHold, MergedRows
<1> QED
  BY <1>4, <1>10 DEF Contents

\* A chunk's output is written beside the index.
LEMMA WriteHolds ==
    ASSUME Shape, Contents, NoDayClash, ChunkWrites
    PROVE  Contents'
<1>1. /\ UNCHANGED <<flushed, index, traces, cutoff>> /\ stage \in {"hours", "days"}
      /\ job' \in todo /\ todo' = todo \ {job'}
      /\ job'.out \notin job'.inputs /\ JobOk(job', stage)
      /\ files'[job'.out] = [rows |-> MergedRows(job'.inputs), age |-> 0]
      /\ \A b \in Present \ {job'.out} : files'[b] = files[b]
  BY WriteFacts
<1>2. Indexed' = Indexed /\ Indexed \subseteq Present
  BY <1>1 DEF Indexed, Shape, CatalogOk
<1>3. job'.out \notin Indexed
  <2>1. CASE stage = "hours"
    BY <1>1, <2>1, HourOutputs
  <2>2. CASE stage = "days"
    BY <1>1, <2>2 DEF NoDayClash
  <2> QED
    BY <1>1, <2>1, <2>2
<1>4. \A b \in Indexed : files'[b].rows = files[b].rows
  BY <1>1, <1>2, <1>3
<1>5. BlocksHold'
  BY <1>1, <1>4, BlocksStay DEF Contents
<1>6. ASSUME NEW j \in todo
      PROVE  MergedRows(j.inputs)' = MergedRows(j.inputs) /\ Cardinality(MergedRows(j.inputs)) <= MaxSpans
  <2>1. j.inputs \subseteq Indexed
    BY DEF Shape, PassOk, JobOk
  <2> QED
    BY <1>4, <2>1, RowsStay DEF Contents, ChunksHold
<1>7. files'[job'.out].rows = MergedRows(job'.inputs)
  BY <1>1
<1>8. UNION {files'[b].rows : b \in job'.inputs} = UNION {files[b].rows : b \in job'.inputs}
  BY <1>1, <1>4 DEF JobOk
<1>9. ChunksHold'
  <2>1. \A j \in todo' : Cardinality(MergedRows(j.inputs)') <= MaxSpans
    BY <1>1, <1>6
  <2>2. Cardinality(MergedRows(job'.inputs)) <= MaxSpans
    BY <1>1, <1>6
  <2> QED
    BY <1>2, <1>3, <1>7, <1>8, <2>1, <2>2 DEF ChunksHold, MergedRows
<1> QED
  BY <1>5, <1>9 DEF Contents

LEMMA CopiesFinite ==
    ASSUME Shape, NEW s
    PROVE  IsFiniteSet(Copies(s)) /\ Cardinality(Copies(s)) \in Nat
<1>1. IsFiniteSet(Copies(s))
  <2>1. Copies(s) \subseteq Indexed /\ IsFiniteSet(Indexed)
    BY DEF Copies, Shape, CatalogOk
  <2> QED
    BY <2>1, FS_Subset
<1> QED
  BY <1>1, FS_CardinalityType

LEMMA BroughtFinite ==
    ASSUME Shape, NEW s
    PROVE  IsFiniteSet(Brought(s)) /\ Cardinality(Brought(s)) \in Nat
<1>1. IsFiniteSet(Brought(s))
  <2>1. Brought(s) \subseteq 1 .. flushed
    BY DEF Brought
  <2>2. IsFiniteSet(1 .. flushed)
    <3>1. flushed \in Int /\ 1 \in Int
      BY PartitionAssumption DEF Shape, CatalogOk
    <3> QED
      BY <3>1, FS_Interval
  <2> QED
    BY <2>1, <2>2, FS_Subset
<1> QED
  BY <1>1, FS_CardinalityType

\* Replacing copies by one of them all is no more copies.
LEMMA Replaced ==
    ASSUME NEW C, IsFiniteSet(C), NEW K, NEW out, C \cap K # {}
    PROVE  Cardinality((C \ K) \cup {out}) <= Cardinality(C)
<1>1. PICK b : b \in C \cap K
  OBVIOUS
<1>2. IsFiniteSet(C \ {b}) /\ Cardinality(C \ {b}) = Cardinality(C) - 1 /\ Cardinality(C) \in Nat
  <2>1. b \in C
    BY <1>1
  <2> QED
    BY <2>1, FS_RemoveElement, FS_CardinalityType
<1>3. C \ K \subseteq C \ {b}
  BY <1>1
<1>4. IsFiniteSet(C \ K) /\ Cardinality(C \ K) <= Cardinality(C \ {b}) /\ Cardinality(C \ K) \in Nat
  BY <1>2, <1>3, FS_Subset, FS_CardinalityType
<1>5. Cardinality((C \ K) \cup {out}) \in {Cardinality(C \ K), Cardinality(C \ K) + 1}
  <2>1. CASE out \in C \ K
    <3>1. (C \ K) \cup {out} = C \ K
      BY <2>1
    <3> QED
      BY <3>1
  <2>2. CASE out \notin C \ K
    <3>1. Cardinality((C \ K) \cup {out}) = Cardinality(C \ K) + 1
      BY ONLY <1>4, <2>2, FS_AddElement
    <3> QED
      BY <3>1
  <2> QED
    BY <2>1, <2>2
<1> QED
  BY ONLY <1>2, <1>4, <1>5

\* A commit leaves the rows of the index as they were, in fewer blocks.
LEMMA CommitHolds ==
    ASSUME Shape, Contents, ChunkCommits
    PROVE  Contents'
<1>1. /\ job' = NoJob /\ UNCHANGED <<flushed, files, todo, cutoff>>
      /\ job # NoJob /\ JobOk(job, stage) /\ job.out \in Present /\ job.out \notin job.inputs
      /\ Indexed' = (Indexed \ job.inputs) \cup {job.out}
      /\ index'[job.out] = NewestHour(MergedRows(job.inputs))
      /\ \A b \in Indexed' \ {job.out} : index'[b] = index[b]
      /\ traces' = (traces \ UNION {TracesIn(files[b].rows) \X {b} : b \in job.inputs})
                       \cup TracesIn(MergedRows(job.inputs)) \X {job.out}
  BY CommitFacts
<1>2. /\ job.inputs \subseteq Indexed /\ job.out \notin Indexed
      /\ files[job.out].rows = MergedRows(job.inputs) /\ Cardinality(MergedRows(job.inputs)) <= MaxSpans
  BY <1>1 DEF JobOk, Contents, ChunksHold
<1>3. Kept'
  <2> SUFFICES ASSUME NEW n \in 1 .. flushed, NEW s \in Segments[n], HourOf[s] >= cutoff
               PROVE  \E b \in Indexed' : s \in files[b].rows
    BY <1>1 DEF Kept
  <2>1. PICK b \in Indexed : s \in files[b].rows
    BY DEF Contents, BlocksHold, Kept
  <2>2. CASE b \in job.inputs
    BY <1>1, <1>2, <2>1, <2>2 DEF MergedRows
  <2> QED
    BY <1>1, <2>1, <2>2
<1>4. Dated'
  BY <1>1, <1>2 DEF Contents, BlocksHold, Dated
<1>5. Mapped'
  <2> SUFFICES ASSUME NEW t, NEW b
               PROVE  <<t, b>> \in traces' <=> b \in Indexed' /\ t \in TracesIn(files[b].rows)
    BY <1>1 DEF Mapped
  <2>1. <<t, b>> \in traces <=> b \in Indexed /\ t \in TracesIn(files[b].rows)
    BY DEF Contents, BlocksHold, Mapped
  <2>2. <<t, b>> \in UNION {TracesIn(files[c].rows) \X {c} : c \in job.inputs}
            <=> b \in job.inputs /\ t \in TracesIn(files[b].rows)
    OBVIOUS
  <2>3. <<t, b>> \in TracesIn(MergedRows(job.inputs)) \X {job.out}
            <=> b = job.out /\ t \in TracesIn(files[b].rows)
    BY <1>2
  <2> QED
    BY <1>1, <1>2, <2>1, <2>2, <2>3
<1>6. Single'
  <2> SUFFICES ASSUME NEW s \in Spans
               PROVE  Cardinality(Copies(s)') <= Cardinality(Brought(s))
    BY <1>1 DEF Single, Brought
  <2>1. /\ Cardinality(Copies(s)) <= Cardinality(Brought(s)) /\ IsFiniteSet(Copies(s))
        /\ Cardinality(Copies(s)) \in Nat /\ Cardinality(Brought(s)) \in Nat
    BY CopiesFinite, BroughtFinite DEF Contents, BlocksHold, Single
  <2>2. CASE s \in MergedRows(job.inputs)
    <3>1. Copies(s)' = (Copies(s) \ job.inputs) \cup {job.out}
      BY <1>1, <1>2, <2>2 DEF Copies
    <3>2. Copies(s) \cap job.inputs # {}
      BY <1>2, <2>2 DEF MergedRows, Copies
    <3>3. Cardinality((Copies(s) \ job.inputs) \cup {job.out}) <= Cardinality(Copies(s))
      BY ONLY <2>1, <3>2, Replaced
    <3>4. IsFiniteSet(Copies(s) \ job.inputs)
      BY <2>1, FS_Difference
    <3>5. Cardinality((Copies(s) \ job.inputs) \cup {job.out}) \in Nat
      BY <3>4, FS_AddElement, FS_CardinalityType
    <3> QED
      BY <2>1, <3>1, <3>3, <3>5
  <2>3. CASE s \notin MergedRows(job.inputs)
    <3>1. Copies(s)' = Copies(s)
      BY <1>1, <1>2, <2>3 DEF Copies, MergedRows
    <3> QED
      BY <2>1, <3>1
  <2> QED
    BY <2>2, <2>3
<1>7. Capped'
  BY <1>1, <1>2 DEF Contents, BlocksHold, Capped
<1>8. ChunksHold'
  BY <1>1 DEF Contents, ChunksHold, MergedRows
<1> QED
  BY <1>3, <1>4, <1>5, <1>6, <1>7, <1>8 DEF Contents, BlocksHold

\* A flush indexes the spans of its segment, each in the block of its hour.
LEMMA FlushHolds ==
    ASSUME Shape, Contents, Flush
    PROVE  Contents'
<1>1. /\ flushed + 1 \in Seqnos /\ flushed' = flushed + 1 /\ Segments[flushed + 1] \in SUBSET Spans
      /\ Fresh \cap Present = {}
      /\ \A b \in Fresh : /\ b.kind = "flush" /\ b.place \in Hours
                          /\ FreshRows(b) \in (SUBSET Spans) \ {{}}
                          /\ files'[b] = [rows |-> FreshRows(b), age |-> 0] /\ index'[b] = b.place
      /\ \A b, c \in Fresh : b.place = c.place => b = c
      /\ Present' = Present \cup Fresh /\ \A b \in Present : files'[b] = files[b]
      /\ Indexed' = Indexed \cup Fresh /\ \A b \in Indexed : index'[b] = index[b]
      /\ traces' = traces \cup UNION {TracesIn(FreshRows(b)) \X {b} : b \in Fresh}
  BY FlushFacts
<1>2. /\ cutoff' = cutoff /\ todo' = {} /\ job' = NoJob
  BY DEF Flush, MutexFree, passVars, Shape, PassOk
<1>3. flushed \in Nat /\ Indexed \subseteq Present
  BY PartitionAssumption DEF Shape, CatalogOk
<1>4. /\ \A b \in Indexed : files'[b] = files[b]
      /\ \A b \in Fresh : files'[b].rows = FreshRows(b) /\ b \notin Indexed
  <2>1. ASSUME NEW b \in Fresh PROVE files'[b].rows = FreshRows(b)
    <3>1. files'[b] = [rows |-> FreshRows(b), age |-> 0]
      BY <1>1
    <3> QED
      BY <3>1
  <2>2. (\A b \in Indexed : files'[b] = files[b]) /\ \A b \in Fresh : b \notin Indexed
    BY <1>1, <1>3
  <2> QED
    BY <2>1, <2>2
<1>5. Kept'
  <2> SUFFICES ASSUME NEW n \in 1 .. (flushed + 1), NEW s \in Segments[n], HourOf[s] >= cutoff
               PROVE  \E b \in Indexed' : s \in files'[b].rows
    BY <1>1, <1>2 DEF Kept
  <2>1. CASE n \in 1 .. flushed
    <3>1. \E b \in Indexed : s \in files[b].rows
      BY <2>1 DEF Contents, BlocksHold, Kept
    <3> QED
      BY <1>1, <1>4, <3>1
  <2>2. CASE n = flushed + 1
    <3>1. Block("flush", HourOf[s], flushed + 1, flushed + 1) \in Fresh
      BY <2>2 DEF Fresh
    <3>2. s \in FreshRows(Block("flush", HourOf[s], flushed + 1, flushed + 1))
      BY <2>2 DEF FreshRows, Block
    <3> QED
      BY <1>1, <1>4, <3>1, <3>2
  <2> QED
    BY <1>3, <2>1, <2>2
<1>6. Dated'
  <2>1. ASSUME NEW b \in Fresh PROVE index'[b] = NewestHour(FreshRows(b))
    <3>1. \E s \in FreshRows(b) : NewestHour(FreshRows(b)) = HourOf[s]
      BY <1>1, NewestFacts
    <3>2. \A s \in FreshRows(b) : HourOf[s] = b.place
      BY DEF FreshRows
    <3> QED
      BY <1>1, <3>1, <3>2
  <2> QED
    BY <1>1, <1>4, <2>1 DEF Contents, BlocksHold, Dated
<1>7. Mapped'
  <2> SUFFICES ASSUME NEW t, NEW b
               PROVE  <<t, b>> \in traces' <=> b \in Indexed' /\ t \in TracesIn(files'[b].rows)
    BY DEF Mapped, TracesIn
  <2>1. <<t, b>> \in traces <=> b \in Indexed /\ t \in TracesIn(files[b].rows)
    BY DEF Contents, BlocksHold, Mapped
  <2>2. <<t, b>> \in UNION {TracesIn(FreshRows(c)) \X {c} : c \in Fresh}
            <=> b \in Fresh /\ t \in TracesIn(FreshRows(b))
    OBVIOUS
  <2> QED
    BY <1>1, <1>4, <2>1, <2>2
<1>8. Single'
  <2> SUFFICES ASSUME NEW s \in Spans
               PROVE  Cardinality(Copies(s)') <= Cardinality(Brought(s)')
    BY DEF Single
  <2>1. /\ Cardinality(Copies(s)) <= Cardinality(Brought(s)) /\ IsFiniteSet(Copies(s))
        /\ Cardinality(Copies(s)) \in Nat /\ Cardinality(Brought(s)) \in Nat /\ IsFiniteSet(Brought(s))
    BY CopiesFinite, BroughtFinite DEF Contents, BlocksHold, Single
  <2>2. Copies(s)' = Copies(s) \cup {b \in Fresh : s \in FreshRows(b)}
    BY <1>1, <1>4 DEF Copies
  <2>3. \A n : n \in 1 .. (flushed + 1) <=> n \in 1 .. flushed \/ n = flushed + 1
    BY <1>3
  <2>4. CASE s \in Segments[flushed + 1]
    <3> DEFINE b == Block("flush", HourOf[s], flushed + 1, flushed + 1)
    <3>1. b \in Fresh /\ s \in FreshRows(b)
      BY <2>4 DEF Fresh, FreshRows, Block
    <3>2. \A c \in Fresh : s \in FreshRows(c) => c = b
      BY <1>1, <3>1 DEF FreshRows
    <3>3. Copies(s)' = Copies(s) \cup {b}
      BY <2>2, <3>1, <3>2
    <3>4. b \notin Copies(s)
      BY <1>4, <3>1 DEF Copies
    <3> HIDE DEF b
    <3>5. Cardinality(Copies(s) \cup {b}) = Cardinality(Copies(s)) + 1
      BY <2>1, <3>4, FS_AddElement
    <3>6. Brought(s)' = Brought(s) \cup {flushed + 1}
      BY <1>1, <2>3, <2>4 DEF Brought
    <3>7. flushed + 1 \notin Brought(s)
      BY <1>3 DEF Brought
    <3>8. Cardinality(Brought(s) \cup {flushed + 1}) = Cardinality(Brought(s)) + 1
      BY <2>1, <3>7, FS_AddElement
    <3> QED
      BY <2>1, <3>3, <3>5, <3>6, <3>8
  <2>5. CASE s \notin Segments[flushed + 1]
    <3>1. Copies(s)' = Copies(s)
      BY <2>2, <2>5 DEF FreshRows
    <3>2. Brought(s)' = Brought(s)
      BY <1>1, <2>3, <2>5 DEF Brought
    <3> QED
      BY <2>1, <3>1, <3>2
  <2> QED
    BY <2>4, <2>5
<1>9. Capped'
  BY <1>1, <1>4 DEF Contents, BlocksHold, Capped
<1>10. ChunksHold'
  BY <1>2 DEF ChunksHold
<1> QED
  BY <1>5, <1>6, <1>7, <1>8, <1>9, <1>10 DEF Contents, BlocksHold

\* Retention drops blocks of which every row is before the cutoff.
LEMMA ReclaimHolds ==
    ASSUME Shape, Contents, NEW c \in Nat, Reclaim(c)
    PROVE  Contents'
<1>1. /\ todo' = {} /\ job' = NoJob
      /\ Indexed' = Indexed \ Dropped(c) /\ \A b \in Indexed' : index'[b] = index[b]
      /\ traces' = {m \in traces : m[2] \notin Dropped(c)}
      /\ Indexed' \subseteq Present' /\ \A b \in Present' : files'[b] = files[b]
      /\ cutoff' = IF cutoff < c THEN c ELSE cutoff
      /\ UNCHANGED flushed
  BY ReclaimFacts
<1>2. \A b \in Indexed' : files'[b] = files[b]
  BY <1>1
<1>3. Kept'
  <2> SUFFICES ASSUME NEW n \in 1 .. flushed, NEW s \in Segments[n], HourOf[s] >= cutoff'
               PROVE  \E b \in Indexed' : s \in files'[b].rows
    BY <1>1 DEF Kept
  <2>1. s \in Spans /\ HourOf[s] \in Nat /\ cutoff \in Nat
    <3>1. n \in Seqnos
      BY PartitionAssumption DEF Shape, CatalogOk, Seqnos
    <3> QED
      BY <3>1, PartitionAssumption DEF Seqnos, Shape, CatalogOk
  <2>2. HourOf[s] >= cutoff /\ HourOf[s] >= c
    BY <1>1, <2>1
  <2>3. PICK b \in Indexed : s \in files[b].rows
    BY <2>2 DEF Contents, BlocksHold, Kept
  <2>4. index[b] \in Nat /\ HourOf[s] <= index[b]
    <3>1. files[b].rows \in (SUBSET Spans) \ {{}} /\ index[b] = NewestHour(files[b].rows)
      BY DEF Shape, CatalogOk, FileType, Contents, BlocksHold, Dated
    <3>2. NewestHour(files[b].rows) \in Hours /\ HourOf[s] <= NewestHour(files[b].rows)
      BY <2>3, <3>1, NewestFacts
    <3> QED
      BY <3>1, <3>2, PartitionAssumption
  <2>5. ~(index[b] < c)
    BY <2>1, <2>2, <2>4
  <2> QED
    BY <1>1, <1>2, <2>3, <2>5 DEF Dropped
<1>4. Dated'
  BY <1>1, <1>2 DEF Contents, BlocksHold, Dated
<1>5. Mapped'
  <2> SUFFICES ASSUME NEW t, NEW b
               PROVE  <<t, b>> \in traces' <=> b \in Indexed' /\ t \in TracesIn(files'[b].rows)
    BY DEF Mapped, TracesIn
  <2>1. <<t, b>> \in traces <=> b \in Indexed /\ t \in TracesIn(files[b].rows)
    BY DEF Contents, BlocksHold, Mapped
  <2>2. <<t, b>> \in traces' <=> <<t, b>> \in traces /\ b \notin Dropped(c)
    BY <1>1
  <2> QED
    BY <1>1, <1>2, <2>1, <2>2
<1>6. Single'
  <2> SUFFICES ASSUME NEW s \in Spans
               PROVE  Cardinality(Copies(s)') <= Cardinality(Brought(s))
    BY <1>1 DEF Single, Brought
  <2>1. /\ Cardinality(Copies(s)) <= Cardinality(Brought(s)) /\ IsFiniteSet(Copies(s))
        /\ Cardinality(Copies(s)) \in Nat /\ Cardinality(Brought(s)) \in Nat
    BY CopiesFinite, BroughtFinite DEF Contents, BlocksHold, Single
  <2>2. Copies(s)' \subseteq Copies(s)
    BY <1>1, <1>2 DEF Copies
  <2>3. Cardinality(Copies(s)') <= Cardinality(Copies(s)) /\ IsFiniteSet(Copies(s)')
    BY <2>1, <2>2, FS_Subset
  <2>4. Cardinality(Copies(s)') \in Nat
    BY <2>3, FS_CardinalityType
  <2> QED
    BY ONLY <2>1, <2>3, <2>4
<1>7. Capped'
  BY <1>1, <1>2 DEF Contents, BlocksHold, Capped
<1>8. ChunksHold'
  BY <1>1 DEF ChunksHold
<1> QED
  BY <1>3, <1>4, <1>5, <1>6, <1>7, <1>8 DEF Contents, BlocksHold

LEMMA InitHolds == Init => Contents
<1> SUFFICES ASSUME Init PROVE Contents
  OBVIOUS
<1>1. Indexed = {} /\ flushed = 0 /\ traces = {} /\ todo = {} /\ job = NoJob
  BY DEF Init, Indexed
<1>2. Kept /\ Dated /\ Mapped /\ Capped /\ ChunksHold
  BY <1>1 DEF Kept, Dated, Mapped, Capped, ChunksHold
<1>3. Single
  <2>1. \A s : Copies(s) = {} /\ Brought(s) = {}
    BY <1>1 DEF Copies, Brought
  <2>2. Cardinality({}) = 0
    BY FS_EmptySet
  <2> QED
    BY <2>1, <2>2 DEF Single
<1> QED
  BY <1>2, <1>3 DEF Contents, BlocksHold

LEMMA StepHolds == Shape /\ Contents /\ NoDayClash /\ [Next]_vars => Contents'
<1> SUFFICES ASSUME Shape, Contents, NoDayClash, [Next]_vars PROVE Contents'
  OBVIOUS
<1>1. CASE Flush
  BY <1>1, FlushHolds
<1>2. CASE ChunkWrites
  BY <1>2, WriteHolds
<1>3. CASE ChunkCommits
  BY <1>3, CommitHolds
<1>4. CASE \E c \in {h + 1 : h \in Hours} : Reclaim(c)
  <2>1. PICK c \in {h + 1 : h \in Hours} : Reclaim(c)
    BY <1>4
  <2>2. c \in Nat
    BY PartitionAssumption
  <2> QED
    BY <2>1, <2>2, ReclaimHolds
<1>5. CASE \/ StartTick \/ StartCompact \/ ChunkSkipped \/ ChunkStamps \/ HoursDone \/ DaysDone
           \/ PassFails \/ Sweep \/ Tick \/ Midnight \/ Restart \/ UNCHANGED vars
  BY <1>5, AsideHolds
<1> QED
  BY <1>1, <1>2, <1>3, <1>4, <1>5 DEF Next, Pass

LEMMA AlwaysHolds == Spec /\ []NoDayClash => []Contents
<1>1. Init => Contents
  BY InitHolds
<1>2. Shape /\ Contents /\ NoDayClash /\ [Next]_vars => Contents'
  BY StepHolds
<1> QED
  BY <1>1, <1>2, AlwaysShape, PTL DEF Spec

\* Merge, sweep, failed merge and restart lose no flushed span that retention
\* keeps: View is what the index names, and Kept says that it has them.
LEMMA HoldsNothingLost == Shape /\ Contents => NothingLost
<1> SUFFICES ASSUME Shape, Contents PROVE NothingLost
  OBVIOUS
<1>1. Indexed \subseteq Present
  BY DEF Shape, CatalogOk
<1> QED
  BY <1>1 DEF Contents, BlocksHold, Kept, NothingLost, View

LEMMA HoldsSound == Shape /\ Contents => ColdIsSound
<1> SUFFICES ASSUME Shape, Contents PROVE ColdIsSound
  OBVIOUS
<1>1. Indexed \subseteq Present /\ Indexed \cap Present = Indexed /\ traces \subseteq Traces \X Blocks
  BY DEF Shape, CatalogOk
<1>2. TypeOK
  BY DEF Shape, CatalogOk, NamesOk, NameOk, PassOk, TypeOK, FileType
<1>3. NotDoubled
  <2>1. \A s : Copies(s) = {b \in Indexed : b \in Present /\ s \in files[b].rows}
    BY <1>1 DEF Copies
  <2> QED
    BY <2>1 DEF Contents, BlocksHold, Single, Brought, NotDoubled
<1>4. IndexExact
  <2> DEFINE M == UNION {TracesIn(files[b].rows) \X {b} : b \in Indexed \cap Present}
  <2>1. \A t, b : <<t, b>> \in traces <=> b \in Indexed /\ t \in TracesIn(files[b].rows)
    BY DEF Contents, BlocksHold, Mapped
  <2>2. \A t, b : <<t, b>> \in M <=> b \in Indexed /\ t \in TracesIn(files[b].rows)
    BY <1>1
  <2>3. \A m \in traces : \E t, b : m = <<t, b>>
    BY <1>1
  <2>4. \A m \in M : \E t, b : m = <<t, b>>
    OBVIOUS
  <2> HIDE DEF M
  <2>5. traces = M
    BY <2>1, <2>2, <2>3, <2>4
  <2>6. \A b \in Indexed : b \in Present /\ index[b] = NewestHour(files[b].rows)
    BY <1>1 DEF Contents, BlocksHold, Dated
  <2> QED
    BY <2>5, <2>6 DEF IndexExact, M
<1>5. CapRespected
  BY <1>1 DEF Contents, BlocksHold, Capped, CapRespected, Rows
<1> QED
  BY <1>2, <1>3, <1>4, <1>5 DEF ColdIsSound

\* Without a clash, what was flushed and retention keeps is in a block that the
\* index names: merge_chunk, sweep_unindexed and sweep_orphans lose nothing.
THEOREM NothingIsLost == Spec /\ []NoDayClash => []NothingLost
BY AlwaysShape, AlwaysHolds, HoldsNothingLost, PTL

\* And commit_flush, commit_merge and drop_blocks keep the index exact, each span
\* no more often than it came, and merged blocks within the cap.
THEOREM ColdStaysSound == Spec /\ []NoDayClash => []ColdIsSound
BY AlwaysShape, AlwaysHolds, HoldsSound, PTL

----------------------------------------------------------------------------
(***************************************************************************)
(* When no chunk can clash: no merging of days, or no segment over several *)
(* hours of one day. Then the lowest segment tells the blocks of a whole   *)
(* day apart, and a day block merges the ones of its day.                  *)
(***************************************************************************)
TidySegments ==
    DayMerge =>
        \A n \in Seqnos : \A s, r \in Segments[n] :
            DayOf[HourOf[s]] = DayOf[HourOf[r]] => HourOf[s] = HourOf[r]

SameDay(b, c) == DayOfBlock(b) = DayOfBlock(c)
DaysApart == DayMerge => \A b, c \in Indexed : SameDay(b, c) /\ b.lo = c.lo => b = c

\* A chunk is of one day, that of its output.
DayJob(j) == \A b \in j.inputs : SameDay(b, j.out)
ChunksOfADay ==
    /\ stage = "days" => DayMerge \/ (todo = {} /\ job = NoJob)
    /\ \A j \in todo : DayJob(j)
    /\ job # NoJob => DayJob(job)
Tidy == DaysApart /\ ChunksOfADay

LEMMA DayOfHourJob ==
    ASSUME NEW j, JobOk(j, "hours")
    PROVE  DayJob(j)
BY DEF JobOk, DayJob, SameHour, SameDay, DayOfBlock

LEMMA DayOfDayJob ==
    ASSUME Shape, NEW sc, NEW j \in DayJobs(sc)
    PROVE  DayJob(j) /\ DayMerge
<1>1. DayMerge /\ \E d \in Days : j \in JobsFor("day", d, InDay(d))
  BY DEF DayJobs
<1>2. PICK d \in Days : j \in JobsFor("day", d, InDay(d))
  BY <1>1
<1>3. InDay(d) \in SUBSET Indexed /\ OneDay(InDay(d)) /\ "day" \in Kinds /\ d \in Hours \cup Days
  BY DEF InDay, OneDay, Kinds, DayOfBlock
<1>4. j.inputs \subseteq InDay(d) /\ j.out.kind = "day" /\ j.out.place = d
  BY <1>2, <1>3, JobsForFacts
<1> QED
  BY <1>1, <1>4 DEF DayJob, SameDay, InDay, DayOfBlock

LEMMA TidyPasses ==
    ASSUME Shape, ChunksOfADay, [Next]_vars
    PROVE  ChunksOfADay'
<1>1. CASE StartTick \/ StartCompact
  <2>1. todo' = {} \/ todo' = HourJobs("tick") \/ todo' = HourJobs("full")
    BY <1>1 DEF StartTick, StartCompact
  <2>2. \A sc : \A j \in HourJobs(sc) : DayJob(j)
    BY HourPlan, DayOfHourJob DEF PlanOk
  <2>3. stage' # "days" /\ job' = NoJob
    BY <1>1 DEF StartTick, StartCompact, Shape, PassOk
  <2> QED
    BY <2>1, <2>2, <2>3 DEF ChunksOfADay, DayJob
<1>2. CASE HoursDone
  <2>1. todo' = DayJobs(scope) /\ job' = NoJob
    BY <1>2 DEF HoursDone, Shape, PassOk
  <2>2. \A j \in DayJobs(scope) : DayJob(j) /\ DayMerge
    BY DayOfDayJob
  <2>3. DayMerge \/ todo' = {}
    BY <2>1, <2>2
  <2>4. \A j \in todo' : DayJob(j)
    BY <2>1, <2>2
  <2> QED
    BY <2>1, <2>3, <2>4 DEF ChunksOfADay, DayJob
<1>3. CASE ChunkWrites
  <2>1. stage' = stage /\ job' \in todo /\ todo' = todo \ {job'}
    BY <1>3, WriteFacts
  <2> QED
    BY <2>1 DEF ChunksOfADay, DayJob
<1>4. CASE \/ Flush \/ ChunkSkipped \/ ChunkStamps \/ ChunkCommits \/ DaysDone \/ PassFails \/ Sweep
           \/ (\E c \in {h + 1 : h \in Hours} : Reclaim(c)) \/ Tick \/ Midnight \/ Restart \/ UNCHANGED vars
  <2>1. /\ stage' \in {stage, "idle", "sweep"}
        /\ todo' \subseteq todo /\ job' \in {job, NoJob}
    <3>1. CASE PassFails \/ Restart
      BY <3>1 DEF PassFails, Restart, PassOver
    <3>2. CASE Flush \/ Tick \/ Midnight \/ UNCHANGED vars
      BY <3>2 DEF Flush, Tick, Midnight, passVars, vars
    <3>3. CASE \E c \in {h + 1 : h \in Hours} : Reclaim(c)
      BY <3>3 DEF Reclaim, passVars
    <3>4. CASE ChunkSkipped \/ ChunkStamps \/ ChunkCommits \/ DaysDone \/ Sweep
      BY <3>4 DEF ChunkSkipped, ChunkStamps, ChunkCommits, DaysDone, Sweep
    <3> QED
      BY <1>4, <3>1, <3>2, <3>3, <3>4
  <2> QED
    BY <2>1 DEF ChunksOfADay, DayJob
<1> QED
  BY <1>1, <1>2, <1>3, <1>4 DEF Next, Pass

LEMMA TidyIndex ==
    ASSUME TidySegments, Shape, Tidy, [Next]_vars
    PROVE  DaysApart'
<1>1. CASE Flush
  <2>1. /\ flushed + 1 \in Seqnos /\ Indexed' = Indexed \cup Fresh
        /\ \A b \in Fresh : b.kind = "flush" /\ b.lo = flushed + 1
    BY <1>1, FlushFacts
  <2>2. ASSUME NEW b \in Fresh, NEW c \in Fresh, SameDay(b, c), DayMerge PROVE b = c
    <3>1. PICK s \in Segments[flushed + 1] : b = Block("flush", HourOf[s], flushed + 1, flushed + 1)
      BY DEF Fresh
    <3>2. PICK r \in Segments[flushed + 1] : c = Block("flush", HourOf[r], flushed + 1, flushed + 1)
      BY DEF Fresh
    <3>3. DayOf[HourOf[s]] = DayOf[HourOf[r]]
      BY <2>2, <3>1, <3>2 DEF SameDay, DayOfBlock, Block
    <3> QED
      BY <2>1, <2>2, <3>1, <3>2, <3>3 DEF TidySegments
  <2>3. ASSUME NEW b \in Indexed, NEW c \in Fresh PROVE b.lo # c.lo
    <3>1. b.lo \in Nat /\ b.lo <= flushed /\ flushed \in Nat
      BY PartitionAssumption DEF Shape, NamesOk, CatalogOk, NameOk, Blocks, Seqnos
    <3>2. c.lo = flushed + 1
      BY <2>1
    <3> QED
      BY <3>1, <3>2
  <2> QED
    BY <2>1, <2>2, <2>3 DEF Tidy, DaysApart, SameDay
<1>2. CASE ChunkCommits
  <2>1. /\ job # NoJob /\ JobOk(job, stage)
        /\ Indexed' = (Indexed \ job.inputs) \cup {job.out}
    BY <1>2, CommitFacts
  <2>2. ASSUME DayMerge, NEW c \in Indexed \ job.inputs, SameDay(job.out, c), job.out.lo = c.lo PROVE FALSE
    <3>1. PICK b \in job.inputs : job.out.lo = b.lo
      BY <2>1 DEF JobOk
    <3>2. SameDay(b, c) /\ b.lo = c.lo /\ b \in Indexed
      BY <2>1, <2>2, <3>1 DEF Tidy, ChunksOfADay, DayJob, SameDay, JobOk
    <3> QED
      BY <2>2, <3>1, <3>2 DEF Tidy, DaysApart
  <2> QED
    BY <2>1, <2>2 DEF Tidy, DaysApart, SameDay
<1>3. CASE \E c \in {h + 1 : h \in Hours} : Reclaim(c)
  <2>1. PICK c \in {h + 1 : h \in Hours} : Reclaim(c)
    BY <1>3
  <2>2. c \in Nat
    BY PartitionAssumption
  <2>3. Indexed' = Indexed \ Dropped(c)
    BY <2>1, <2>2, ReclaimFacts
  <2> QED
    BY <2>3 DEF Tidy, DaysApart, SameDay
<1>4. CASE ChunkWrites \/ StartTick \/ StartCompact \/ ChunkSkipped \/ ChunkStamps \/ HoursDone \/ DaysDone
           \/ PassFails \/ Sweep \/ Tick \/ Midnight \/ Restart \/ UNCHANGED vars
  <2>1. Indexed' = Indexed
    BY <1>4 DEF ChunkWrites, StartTick, StartCompact, ChunkSkipped, ChunkStamps, HoursDone, DaysDone,
                PassFails, Sweep, Tick, Midnight, Restart, vars, Indexed
  <2> QED
    BY <2>1 DEF Tidy, DaysApart, SameDay
<1> QED
  BY <1>1, <1>2, <1>3, <1>4 DEF Next, Pass

LEMMA TidyClashesNot == Shape /\ Tidy => NoDayClash
<1> SUFFICES ASSUME Shape, Tidy, stage = "days", NEW j \in todo, j.out \in Indexed
             PROVE  j.out \in j.inputs
  BY DEF NoDayClash
<1>1. JobOk(j, stage) /\ DayJob(j) /\ DayMerge
  BY DEF Shape, PassOk, Tidy, ChunksOfADay
<1>2. PICK b \in j.inputs : j.out.lo = b.lo
  BY <1>1 DEF JobOk
<1>3. b \in Indexed /\ SameDay(b, j.out)
  BY <1>1, <1>2 DEF JobOk, DayJob
<1> QED
  BY <1>1, <1>2, <1>3 DEF Tidy, DaysApart

\* Then day chunks never clash, whatever the policy, the mishaps and the times.
THEOREM TidyDaysNeverClash ==
    ASSUME TidySegments PROVE Spec => []NoDayClash
<1>1. Init => Tidy
  BY DEF Init, Tidy, DaysApart, ChunksOfADay, Indexed
<1>2. Shape /\ Tidy /\ [Next]_vars => Tidy'
  BY TidyIndex, TidyPasses DEF Tidy
<1>3. Shape /\ Tidy => NoDayClash
  BY TidyClashesNot
<1> QED
  BY <1>1, <1>2, <1>3, AlwaysShape, PTL DEF Spec

\* And nothing is lost, and the cold tier is sound, without more conditions.
THEOREM TidyLosesNothing ==
    ASSUME TidySegments PROVE Spec => []NothingLost /\ []ColdIsSound
<1>1. Spec => []NoDayClash
  BY TidyDaysNeverClash
<1> QED
  BY <1>1, NothingIsLost, ColdStaysSound, PTL

----------------------------------------------------------------------------
(***************************************************************************)
(* Nothing leaves early and nothing comes back.                            *)
(***************************************************************************)

\* A retired file is not older, by its mtime, than its retirement; the inputs
\* of a chunk about to commit have just been stamped.
Aged ==
    /\ \A b \in DOMAIN retired : retired[b] \in Nat /\ files[b].age <= retired[b]
    /\ step = "commit" => \A b \in job.inputs : files[b].age = 0

LEMMA RetiredAges ==
    ASSUME Shape, NEW b \in DOMAIN retired
    PROVE  b \in Present /\ files[b].age \in Nat
<1>1. b \in Present /\ files[b] \in FileType
  BY DEF Shape, CatalogOk
<1> QED
  BY <1>1, AgeFacts DEF FileType

\* Where no clock moves and no chunk is about to commit.
LEMMA AgedStays ==
    ASSUME Aged, step' # "commit",
           \A b \in DOMAIN retired' : b \in DOMAIN retired /\ retired'[b] = retired[b] /\ files'[b].age \in {files[b].age, 0}
    PROVE  Aged'
BY DEF Aged

LEMMA AgedKept ==
    ASSUME SlowCommit = FALSE, Shape, Aged, [Next]_vars
    PROVE  Aged'
<1>1. DOMAIN retired \subseteq Present /\ Indexed \subseteq Present
  BY DEF Shape, CatalogOk
<1>2. stage \in {"idle", "sweep"} => step = "write"
  BY DEF Shape, PassOk
<1>3. CASE StartTick \/ ChunkSkipped \/ HoursDone \/ DaysDone
  <2>1. UNCHANGED <<files, retired, step>> /\ step # "commit"
    BY <1>2, <1>3 DEF StartTick, ChunkSkipped, HoursDone, DaysDone
  <2> QED
    BY <2>1, AgedStays
<1>4. CASE Midnight \/ UNCHANGED vars
  BY <1>4 DEF Midnight, passVars, vars, Aged
<1>5. ASSUME NEW S, Unlink(S), step' # "commit" PROVE Aged'
  <2>1. /\ Present' = Present \ S /\ \A b \in Present' : files'[b] = files[b]
        /\ DOMAIN retired' = DOMAIN retired \ S
        /\ \A b \in DOMAIN retired' : retired'[b] = retired[b]
    BY <1>5, UnlinkFacts
  <2> QED
    BY <1>1, <1>5, <2>1, AgedStays
<1>6. CASE StartCompact \/ Sweep \/ Restart
  <2>1. step' # "commit"
    BY <1>2, <1>6 DEF StartCompact, Sweep, Restart, PassOver
  <2> QED
    BY <1>5, <1>6, <2>1 DEF StartCompact, Sweep, Restart
<1>7. CASE \E c \in {h + 1 : h \in Hours} : Reclaim(c)
  <2>1. step' # "commit"
    BY <1>2, <1>7 DEF Reclaim, MutexFree, passVars
  <2> QED
    BY <1>5, <1>7, <2>1 DEF Reclaim
<1>8. CASE Flush
  <2>1. /\ \A b \in Present : files'[b] = files[b]
    BY <1>8, FlushFacts
  <2>2. retired' = retired /\ step' # "commit"
    BY <1>2, <1>8 DEF Flush, MutexFree, passVars
  <2> QED
    BY <1>1, <2>1, <2>2, AgedStays
<1>9. CASE ChunkWrites
  <2>1. /\ step' = "stamp"
        /\ \A b \in Present \ {job'.out} : files'[b] = files[b]
        /\ DOMAIN retired' = DOMAIN retired \ {job'.out}
        /\ \A b \in DOMAIN retired' : retired'[b] = retired[b]
    BY <1>9, WriteFacts
  <2> QED
    BY <1>1, <2>1, AgedStays
<1>10. CASE ChunkStamps
  <2>1. Stamp(job.inputs) /\ retired' = retired /\ job' = job /\ job # NoJob
    BY <1>10 DEF ChunkStamps, Shape, PassOk
  <2>2. \A b \in Present : files'[b].age = IF b \in job.inputs THEN 0 ELSE files[b].age
    BY <2>1, StampFacts
  <2>3. job.inputs \subseteq Present
    BY <1>1, <2>1 DEF Shape, PassOk, JobOk
  <2>4. \A b \in job.inputs : files'[b].age = 0
    BY <2>2, <2>3
  <2>5. \A b \in DOMAIN retired : retired[b] \in Nat /\ files'[b].age <= retired[b]
    BY <1>1, <2>2 DEF Aged
  <2> QED
    BY <2>1, <2>4, <2>5 DEF Aged
<1>11. CASE ChunkCommits
  <2>1. /\ step = "commit" /\ step' = "write" /\ files' = files
        /\ DOMAIN retired' = DOMAIN retired \cup job.inputs
        /\ \A b \in job.inputs : retired'[b] = 0
        /\ \A b \in DOMAIN retired \ job.inputs : retired'[b] = retired[b]
    BY <1>11, CommitFacts
  <2> QED
    BY <2>1 DEF Aged
<1>12. CASE PassFails
  <2>1. step' = "write" /\ retired' = retired /\ (UNCHANGED files \/ \E S : Stamp(S))
    BY <1>12 DEF PassFails, PassOver
  <2>2. CASE UNCHANGED files
    BY <2>1, <2>2, AgedStays
  <2>3. CASE \E S : Stamp(S)
    <3>1. PICK S : Stamp(S)
      BY <2>3
    <3>2. \A b \in Present : files'[b].age = IF b \in S THEN 0 ELSE files[b].age
      BY <3>1, StampFacts
    <3> QED
      BY <1>1, <2>1, <3>2, AgedStays
  <2> QED
    BY <2>1, <2>2, <2>3
<1>13. CASE Tick
  <2>1. step # "commit" /\ step' = step
    BY <1>13 DEF Tick, passVars
  <2>2. /\ DOMAIN retired' = DOMAIN retired
        /\ \A b \in Present :
             files'[b].age = IF files[b].age < Old THEN files[b].age + 1 ELSE files[b].age
        /\ \A b \in DOMAIN retired : retired'[b] = IF retired[b] < Old THEN retired[b] + 1 ELSE Old
    BY <1>13, TickFacts
  <2>3. ASSUME NEW b \in DOMAIN retired PROVE retired'[b] \in Nat /\ files'[b].age <= retired'[b]
    <3>1. /\ files[b].age \in 0 .. Old /\ Old \in Nat /\ b \in Present
          /\ retired[b] \in Nat /\ files[b].age <= retired[b]
      BY <1>1, AgeFacts DEF Aged, Shape, CatalogOk, FileType
    <3>2. /\ files'[b].age = IF files[b].age < Old THEN files[b].age + 1 ELSE files[b].age
          /\ retired'[b] = IF retired[b] < Old THEN retired[b] + 1 ELSE Old
      BY <2>2, <3>1
    <3> QED
      BY ONLY <3>1, <3>2
  <2> QED
    BY <2>1, <2>2, <2>3 DEF Aged
<1> QED
  BY <1>3, <1>4, <1>6, <1>7, <1>8, <1>9, <1>10, <1>11, <1>12, <1>13 DEF Next, Pass

\* Who unlinks a retired file: a tick's sweep, by its age.
LEMMA StepsGrace ==
    ASSUME Shape, Aged, [Next]_vars, NEW b \in DOMAIN retired \ DOMAIN files'
    PROVE  retired[b] >= Grace \/ scope = "full" \/ mishaps' # mishaps \/ scope' = "full"
<1>1. b \in Present \ Indexed /\ b \notin Present' /\ mishaps \in Nat
  BY PolicyAssumption DEF Shape, CatalogOk, Present
<1>2. CASE Flush
  BY <1>1, <1>2, FlushFacts
<1>3. CASE ChunkWrites
  BY <1>1, <1>3, WriteFacts
<1>4. CASE StartCompact
  BY <1>4 DEF StartCompact
<1>5. CASE Restart
  BY <1>1, <1>5 DEF Restart, Mishap
<1>6. CASE Sweep
  <2>1. CASE mishaps' # mishaps
    BY <2>1
  <2>2. CASE mishaps' = mishaps
    <3>1. PICK S \in SUBSET Swept : Unlink(S)
      BY <1>6 DEF Sweep
    <3>2. b \in Swept
      BY <1>1, <3>1, UnlinkFacts
    <3>3. scope = "full" \/ files[b].age >= Grace
      BY <3>2 DEF Swept, Window
    <3>4. files[b].age \in Nat /\ retired[b] \in Nat /\ files[b].age <= retired[b] /\ Grace \in Nat
      BY RetiredAges, PolicyAssumption DEF Aged
    <3> QED
      BY <3>3, <3>4
  <2> QED
    BY <2>1, <2>2
<1>7. CASE \E c \in {h + 1 : h \in Hours} : Reclaim(c)
  <2>1. PICK c \in {h + 1 : h \in Hours} : Reclaim(c)
    BY <1>7
  <2>2. c \in Nat
    BY PartitionAssumption
  <2> QED
    BY <1>1, <2>1, <2>2, ReclaimFacts
<1>8. CASE ChunkStamps
  BY <1>1, <1>8, StampFacts DEF ChunkStamps
<1>9. CASE PassFails
  <2>1. UNCHANGED files \/ \E S : Stamp(S)
    BY <1>9 DEF PassFails
  <2> QED
    BY <1>1, <2>1, StampFacts DEF Present
<1>10. CASE Tick
  BY <1>1, <1>10, TickFacts
<1>11. CASE StartTick \/ ChunkSkipped \/ ChunkCommits \/ HoursDone \/ DaysDone \/ Midnight \/ UNCHANGED vars
  <2>1. UNCHANGED files
    BY <1>11 DEF StartTick, ChunkSkipped, ChunkCommits, HoursDone, DaysDone, Midnight, vars
  <2> QED
    BY <1>1, <2>1 DEF Present
<1> QED
  BY <1>2, <1>3, <1>4, <1>5, <1>6, <1>7, <1>8, <1>9, <1>10, <1>11 DEF Next, Pass

\* A file that a merge retired outlives the grace, when a commit follows its
\* stamps at once: mark_retired's mtimes are the retirements'.
THEOREM GraceIsHonoured ==
    ASSUME SlowCommit = FALSE PROVE Spec => GraceHonoured
<1>1. Init => Aged
  BY DEF Init, Aged
<1>2. Shape /\ Aged /\ [Next]_vars => Aged'
  BY AgedKept
<1>3. Shape /\ Aged /\ [Next]_vars =>
        [\A b \in DOMAIN retired \ DOMAIN files' :
            retired[b] >= Grace \/ scope = "full" \/ mishaps' # mishaps \/ scope' = "full"]_vars
  BY StepsGrace
<1> QED
  BY <1>1, <1>2, <1>3, AlwaysShape, PTL DEF Spec, GraceHonoured

\* A read finds what the indexed blocks hold, and only a flush adds to it.
LEMMA StepsView ==
    ASSUME Shape, Contents, NoDayClash, [Next]_vars, flushed' = flushed
    PROVE  View' \subseteq View
<1>1. Indexed \subseteq Present
  BY DEF Shape, CatalogOk
<1>2. ASSUME Indexed' \subseteq Indexed, \A b \in Indexed' : b \in Present' => files'[b].rows = files[b].rows
      PROVE  View' \subseteq View
  BY <1>1, <1>2 DEF View
<1>3. CASE Flush
  <2>1. flushed' = flushed + 1 /\ flushed \in Nat
    BY <1>3, PartitionAssumption DEF Flush, Shape, CatalogOk
  <2> QED
    BY <2>1
<1>4. CASE ChunkCommits
  <2>1. /\ files' = files /\ job # NoJob /\ job.inputs \subseteq Indexed
        /\ Indexed' = (Indexed \ job.inputs) \cup {job.out}
    BY <1>4, CommitFacts DEF JobOk
  <2>2. files[job.out].rows = MergedRows(job.inputs)
    BY <2>1 DEF Contents, ChunksHold
  <2>3. files[job.out].rows \subseteq View
    BY <1>1, <2>1, <2>2 DEF View, MergedRows
  <2>4. \A b \in Indexed' : files'[b].rows \subseteq View
    BY <1>1, <2>1, <2>3 DEF View
  <2> QED
    BY <2>4 DEF View
<1>5. CASE \E c \in {h + 1 : h \in Hours} : Reclaim(c)
  <2>1. PICK c \in {h + 1 : h \in Hours} : Reclaim(c)
    BY <1>5
  <2>2. c \in Nat
    BY PartitionAssumption
  <2>3. Indexed' = Indexed \ Dropped(c) /\ \A b \in Present' : files'[b] = files[b]
    BY <2>1, <2>2, ReclaimFacts
  <2> QED
    BY <1>2, <2>3
<1>6. CASE ChunkWrites
  <2>1. /\ UNCHANGED index /\ stage \in {"hours", "days"}
        /\ job' \in todo /\ job'.out \notin job'.inputs /\ JobOk(job', stage)
        /\ \A b \in Present \ {job'.out} : files'[b] = files[b]
    BY <1>6, WriteFacts
  <2>2. job'.out \notin Indexed
    BY <2>1, HourOutputs DEF NoDayClash
  <2>3. Indexed' = Indexed
    BY <2>1 DEF Indexed
  <2> QED
    BY <1>1, <1>2, <2>1, <2>2, <2>3
<1>7. CASE \/ StartTick \/ StartCompact \/ ChunkSkipped \/ ChunkStamps \/ HoursDone \/ DaysDone
           \/ PassFails \/ Sweep \/ Tick \/ Midnight \/ Restart \/ UNCHANGED vars
  <2>1. Aside
    BY <1>7, AsideSteps
  <2>2. Indexed' = Indexed /\ \A b \in Present' : files'[b].rows = files[b].rows
    BY <2>1 DEF Aside, Indexed
  <2> QED
    BY <1>2, <2>2
<1> QED
  BY <1>3, <1>4, <1>5, <1>6, <1>7 DEF Next, Pass

LEMMA ViewOnlyShrinks == Spec /\ []NoDayClash => [][flushed' = flushed => View' \subseteq View]_vars
<1>1. Shape /\ Contents /\ NoDayClash /\ [Next]_vars => [flushed' = flushed => View' \subseteq View]_vars
  BY StepsView
<1> QED
  BY <1>1, AlwaysShape, AlwaysHolds, PTL DEF Spec

\* What retention dropped, or a failed merge left, is never served again.
THEOREM NothingReturns ==
    ASSUME SlowCommit = FALSE PROVE Spec /\ []NoDayClash => NothingComesBack
<1>1. Spec => GraceHonoured
  BY GraceIsHonoured
<1> QED
  BY <1>1, ViewOnlyShrinks, PTL DEF NothingComesBack

\* The same where no chunk can clash, without the condition on the behaviour.
THEOREM TidyBringsNothingBack ==
    ASSUME SlowCommit = FALSE, TidySegments PROVE Spec => NothingComesBack
<1>1. Spec => []NoDayClash
  BY TidyDaysNeverClash
<1> QED
  BY <1>1, NothingReturns, PTL

=============================================================================
