------------------------------ MODULE FoldFacts ------------------------------
(***************************************************************************)
(* Induction over data, stated first-order. The models fold over batches   *)
(* and sequences with FoldLeft, a recursive function over the subsets of   *)
(* the indices. A fold has a value because that function exists, and what  *)
(* it computes is an invariant of its prefixes; both facts are proved here *)
(* for a step given as a function, with sets of numbers in place of        *)
(* predicates, so that they can be cited for any fold.                     *)
(***************************************************************************)
EXTENDS Integers, FiniteSets, FiniteSetsExt, SequencesExt, FiniteSetTheorems, WellFoundedInduction, TLAPS

\* A set that has 0 and the successor of each of its members has every natural
\* number.
LEMMA NatSetInduction ==
    ASSUME NEW G, 0 \in G, \A n \in Nat : n \in G => n + 1 \in G
    PROVE  Nat \subseteq G
<1> DEFINE Bad == {n \in Nat : n \notin G}
<1> SUFFICES ASSUME Bad # {} PROVE FALSE
  OBVIOUS
<1>1. Bad \subseteq Nat
  OBVIOUS
<1>2. PICK m \in Bad : \A k \in Bad : <<k, m>> \notin OpToRel(<, Nat)
  <2> HIDE DEF Bad
  <2> QED
    BY <1>1, NatLessThanWellFounded, WFMin
<1>3. \A k \in Bad : ~(k < m)
  BY <1>2 DEF OpToRel
<1>4. m # 0 /\ m - 1 \in Nat
  OBVIOUS
<1>5. m - 1 \in G
  BY <1>3, <1>4
<1> QED
  BY <1>4, <1>5

\* Likewise up to a bound.
LEMMA IntervalInduction ==
    ASSUME NEW N \in Nat, NEW G, 0 \in G, \A i \in 1 .. N : i - 1 \in G => i \in G
    PROVE  0 .. N \subseteq G
<1> DEFINE H == {n \in Nat : n > N \/ n \in G}
<1>1. 0 \in H
  OBVIOUS
<1>2. \A n \in Nat : n \in H => n + 1 \in H
  OBVIOUS
<1>3. Nat \subseteq H
  <2> HIDE DEF H
  <2> QED
    BY <1>1, <1>2, NatSetInduction
<1> QED
  BY <1>3

\* A finite set of naturals has a largest member.
LEMMA LargestExists ==
    ASSUME NEW S \in SUBSET Nat, S # {}, IsFiniteSet(S)
    PROVE  \E m \in S : \A k \in S : k <= m
<1> DEFINE G == {n \in Nat : \A T \in SUBSET Nat : T # {} /\ IsFiniteSet(T) /\ Cardinality(T) = n
                               => \E m \in T : \A k \in T : k <= m}
<1>1. 0 \in G
  BY FS_EmptySet
<1>2. ASSUME NEW n \in Nat, n \in G PROVE n + 1 \in G
  <2> SUFFICES ASSUME NEW T \in SUBSET Nat, T # {}, IsFiniteSet(T), Cardinality(T) = n + 1
               PROVE  \E m \in T : \A k \in T : k <= m
    OBVIOUS
  <2>1. PICK x : x \in T
    OBVIOUS
  <2>2. IsFiniteSet(T \ {x}) /\ Cardinality(T \ {x}) = n
    <3>1. IsFiniteSet(T \ {x}) /\ Cardinality(T \ {x}) = Cardinality(T) - 1
      BY ONLY <2>1, IsFiniteSet(T), FS_RemoveElement
    <3> QED
      BY <3>1
  <2>3. CASE T \ {x} = {}
    <3>1. \A k \in T : k = x
      BY <2>3
    <3> QED
      BY <2>1, <3>1
  <2>4. CASE T \ {x} # {}
    <3>1. PICK m \in T \ {x} : \A k \in T \ {x} : k <= m
      BY <1>2, <2>2, <2>4
    <3> QED
      BY <2>1, <3>1
  <2> QED
    BY <2>3, <2>4
<1>3. Nat \subseteq G
  <2> HIDE DEF G
  <2> QED
    BY <1>1, <1>2, NatSetInduction
<1>4. Cardinality(S) \in G
  BY <1>3, FS_CardinalityType
<1> QED
  BY <1>4

\* The recursion of a fold over the subsets of a finite set S: step[x] is what
\* the element x does to the result so far, pick the order of the elements.
Picks(pick, S) == \A T \in SUBSET S : T # {} => pick[T] \in T
SolvesFold(it, S, Y, base, step, pick) ==
    /\ it \in [SUBSET S -> Y]
    /\ \A T \in SUBSET S :
          it[T] = IF T = {} THEN base ELSE step[pick[T]][it[T \ {pick[T]}]]

\* It has a solution.
LEMMA FoldExists ==
    ASSUME NEW S, IsFiniteSet(S), NEW Y, NEW base \in Y, NEW step \in [S -> [Y -> Y]],
           NEW pick, Picks(pick, S)
    PROVE  \E it : SolvesFold(it, S, Y, base, step, pick)
<1> USE DEF Picks
<1> DEFINE Small(n) == {T \in SUBSET S : Cardinality(T) <= n}
           Val(it, T) == IF T = {} THEN base ELSE step[pick[T]][it[T \ {pick[T]}]]
           Solves(g, n) == g \in [Small(n) -> Y] /\ \A T \in Small(n) : g[T] = Val(g, T)
           G == {n \in Nat : \E g : Solves(g, n)}
<1>1. \A T \in SUBSET S : IsFiniteSet(T) /\ Cardinality(T) \in Nat /\ Cardinality(T) <= Cardinality(S)
  BY FS_Subset, FS_CardinalityType
<1>2. \A T \in SUBSET S : T # {} => T \ {pick[T]} \in SUBSET S /\ Cardinality(T \ {pick[T]}) = Cardinality(T) - 1
  BY <1>1, FS_RemoveElement
<1>3. 0 \in G
  <2> DEFINE g == [T \in Small(0) |-> base]
  <2>1. \A T \in Small(0) : T = {}
    BY <1>1, FS_EmptySet
  <2>2. Solves(g, 0)
    BY <2>1
  <2> QED
    BY <2>2
<1>4. ASSUME NEW n \in Nat, n \in G PROVE n + 1 \in G
  <2>1. PICK g : Solves(g, n)
    BY <1>4
  <2> DEFINE h == [T \in Small(n + 1) |-> Val(g, T)]
  <2>2. \A T \in Small(n + 1) : T # {} => T \ {pick[T]} \in Small(n)
    BY <1>1, <1>2
  <2>3. \A T \in Small(n + 1) : Val(g, T) \in Y
    BY <2>1, <2>2
  <2>4. \A T \in Small(n) : T \in Small(n + 1)
    BY <1>1
  <2>5. \A T \in Small(n) : h[T] = g[T]
    BY <2>1, <2>4
  <2>6. \A T \in Small(n + 1) : h[T] = Val(h, T)
    BY <2>2, <2>5
  <2>7. Solves(h, n + 1)
    BY <2>3, <2>6
  <2> HIDE DEF Solves, h
  <2> QED
    BY <2>7
<1>5. Cardinality(S) \in G
  <2>1. Nat \subseteq G
    <3> HIDE DEF G
    <3> QED
      BY <1>3, <1>4, NatSetInduction
  <2> QED
    BY <2>1, <1>1
<1>6. PICK g : Solves(g, Cardinality(S))
  BY <1>5
<1>7. Small(Cardinality(S)) = SUBSET S
  BY <1>1
<1>8. g \in [SUBSET S -> Y] /\ \A T \in SUBSET S : g[T] = Val(g, T)
  BY <1>6, <1>7
<1> QED
  BY <1>8 DEF SolvesFold

\* The largest index of a prefix is its last.
LEMMA MaxOfPrefix == \A i \in Nat \ {0} : Max(1 .. i) = i
<1> SUFFICES ASSUME NEW i \in Nat, i # 0 PROVE Max(1 .. i) = i
  OBVIOUS
<1>1. i \in 1 .. i /\ \A y \in 1 .. i : i >= y
  OBVIOUS
<1>2. \A x \in 1 .. i : (\A y \in 1 .. i : x >= y) => x = i
  BY <1>1
<1> QED
  BY <1>1, <1>2 DEF Max

\* Any finite set of naturals that is not empty has a largest member.
LEMMA MaxOfIndices ==
    ASSUME NEW n \in Nat, NEW T \in SUBSET (1 .. n), T # {}
    PROVE  Max(T) \in T /\ \A y \in T : Max(T) >= y
<1> DEFINE Least == {k \in Nat : \E x \in T : n - x = k}
<1>0. \A x \in T : x \in Nat /\ x <= n /\ n - x \in Nat
  OBVIOUS
<1>1. Least \subseteq Nat /\ Least # {}
  <2>1. PICK x : x \in T
    OBVIOUS
  <2>2. n - x \in Least
    BY <1>0, <2>1
  <2> QED
    BY <2>2
<1>2. PICK k \in Least : \A j \in Least : <<j, k>> \notin OpToRel(<, Nat)
  <2> HIDE DEF Least
  <2> QED
    BY <1>1, NatLessThanWellFounded, WFMin
<1>3. \A j \in Least : ~(j < k)
  BY <1>2 DEF OpToRel
<1>4. PICK x \in T : n - x = k
  OBVIOUS
<1>5. \A y \in T : x >= y
  <2> TAKE y \in T
  <2>1. n - y \in Least
    BY <1>0
  <2>2. ~(n - y < n - x)
    BY <1>3, <1>4, <2>1
  <2> QED
    BY <1>0, <2>2
<1> QED
  BY <1>4, <1>5 DEF Max

\* The results of a fold after each of n elements: step[i] is what the i-th does.
RunsThrough(g, n, Y, base, step) ==
    /\ g \in [0 .. n -> Y] /\ g[0] = base
    /\ \A i \in 1 .. n : g[i] = step[i][g[i - 1]]

\* Whatever follows the recursion of FoldLeft, as long as it is typed, ends as
\* the run of its steps does.
FollowsFold(fold, n, Y, base, step) ==
    /\ fold[{}] = base
    /\ \A T \in SUBSET (1 .. n) :
          T # {} /\ fold[T \ {Max(T)}] \in Y => fold[T] = step[Max(T)][fold[T \ {Max(T)}]]

LEMMA FoldRun ==
    ASSUME NEW n \in Nat, NEW Y, NEW base \in Y, NEW step \in [1 .. n -> [Y -> Y]],
           NEW fold, FollowsFold(fold, n, Y, base, step)
    PROVE  \E g : RunsThrough(g, n, Y, base, step) /\ fold[1 .. n] = g[n]
<1> DEFINE g == [i \in 0 .. n |-> fold[1 .. i]]
<1>1. 1 .. 0 = {} /\ fold[1 .. 0] = base
  <2>1. 1 .. 0 = {}
    OBVIOUS
  <2> QED
    BY <2>1 DEF FollowsFold
<1>2. ASSUME NEW i \in 1 .. n, fold[1 .. (i - 1)] \in Y PROVE fold[1 .. i] = step[i][fold[1 .. (i - 1)]]
  <2>1. 1 .. i \in SUBSET (1 .. n) /\ 1 .. i # {} /\ (1 .. i) \ {i} = 1 .. (i - 1)
    OBVIOUS
  <2>2. Max(1 .. i) = i
    BY MaxOfPrefix
  <2> QED
    BY <1>2, <2>1, <2>2 DEF FollowsFold
<1> DEFINE G == {i \in 0 .. n : fold[1 .. i] \in Y}
<1>3. 0 \in G
  BY <1>1
<1>4. \A i \in 1 .. n : i - 1 \in G => i \in G
  BY <1>2
<1>5. 0 .. n \subseteq G
  <2> HIDE DEF G
  <2> QED
    BY <1>3, <1>4, IntervalInduction
<1>6. g \in [0 .. n -> Y] /\ g[0] = base /\ fold[1 .. n] = g[n]
  BY <1>1, <1>5
<1>7. \A i \in 1 .. n : g[i] = step[i][g[i - 1]]
  BY <1>2, <1>5
<1>8. RunsThrough(g, n, Y, base, step)
  BY <1>6, <1>7 DEF RunsThrough
<1> HIDE DEF g
<1> QED
  BY <1>6, <1>8

\* The recursion itself, over the sets of indices.
FoldEquation(it, n, base, step) ==
    \A T \in SUBSET (1 .. n) :
        it[T] = IF T = {} THEN base ELSE step[Max(T)][it[T \ {Max(T)}]]

\* The recursion of FoldLeft has a solution.
LEMMA FoldLeftExists ==
    ASSUME NEW n \in Nat, NEW Y, NEW base \in Y, NEW step \in [1 .. n -> [Y -> Y]]
    PROVE  \E it \in [SUBSET (1 .. n) -> Y] : FoldEquation(it, n, base, step)
<1> DEFINE S == 1 .. n
           pick == [T \in SUBSET S |-> Max(T)]
<1>1. IsFiniteSet(S)
  BY FS_Interval
<1>2. Picks(pick, S)
  BY MaxOfIndices DEF Picks
<1>3. step \in [S -> [Y -> Y]]
  OBVIOUS
<1>4. PICK it : SolvesFold(it, S, Y, base, step, pick)
  <2> HIDE DEF pick, S
  <2> QED
    BY <1>1, <1>2, <1>3, FoldExists
<1>5. \A T \in SUBSET S : pick[T] = Max(T)
  OBVIOUS
<1>6. it \in [SUBSET (1 .. n) -> Y] /\ FoldEquation(it, n, base, step)
  BY <1>4, <1>5 DEF SolvesFold, FoldEquation
<1> QED
  BY <1>6

\* Two sequences in one.
LEMMA ToSetConcat ==
    ASSUME NEW X, NEW s \in Seq(X), NEW t \in Seq(X)
    PROVE  s \o t \in Seq(X) /\ ToSet(s \o t) = ToSet(s) \cup ToSet(t)
<1>1. s \o t \in Seq(X) /\ Len(s \o t) = Len(s) + Len(t)
  OBVIOUS
<1>2. \A i \in 1 .. Len(s) : (s \o t)[i] = s[i]
  OBVIOUS
<1>3. \A i \in 1 .. Len(t) : (s \o t)[i + Len(s)] = t[i]
  OBVIOUS
<1>4. DOMAIN s = 1 .. Len(s) /\ DOMAIN t = 1 .. Len(t) /\ DOMAIN (s \o t) = 1 .. (Len(s) + Len(t))
  BY <1>1
<1>5. Len(s) \in Nat /\ Len(t) \in Nat
  OBVIOUS
<1>6. ASSUME NEW x \in ToSet(s \o t) PROVE x \in ToSet(s) \cup ToSet(t)
  <2>1. PICK i \in 1 .. (Len(s) + Len(t)) : x = (s \o t)[i]
    BY <1>4, <1>6 DEF ToSet
  <2>2. CASE i <= Len(s)
    BY <1>2, <1>4, <1>5, <2>1, <2>2 DEF ToSet
  <2>3. CASE i > Len(s)
    <3>1. i - Len(s) \in 1 .. Len(t) /\ (i - Len(s)) + Len(s) = i
      BY <1>5, <2>3
    <3>2. x = t[i - Len(s)]
      BY <1>3, <2>1, <3>1
    <3> QED
      BY <1>4, <3>1, <3>2 DEF ToSet
  <2> QED
    BY <1>5, <2>2, <2>3
<1>7. ASSUME NEW x \in ToSet(s) PROVE x \in ToSet(s \o t)
  <2>1. PICK i \in 1 .. Len(s) : x = s[i]
    BY <1>4, <1>7 DEF ToSet
  <2>2. i \in 1 .. (Len(s) + Len(t)) /\ x = (s \o t)[i]
    BY <1>2, <1>5, <2>1
  <2> QED
    BY <1>4, <2>2 DEF ToSet
<1>8. ASSUME NEW x \in ToSet(t) PROVE x \in ToSet(s \o t)
  <2>1. PICK i \in 1 .. Len(t) : x = t[i]
    BY <1>4, <1>8 DEF ToSet
  <2>2. i + Len(s) \in 1 .. (Len(s) + Len(t)) /\ x = (s \o t)[i + Len(s)]
    BY <1>3, <1>5, <2>1
  <2> QED
    BY <1>4, <2>2 DEF ToSet
<1> QED
  BY <1>1, <1>6, <1>7, <1>8

\* The recursion of a fold that appends the pieces of a sequence in turn.
Concatenates(it, n, piece) ==
    it = [T \in SUBSET (1 .. n) |-> IF T = {} THEN <<>> ELSE it[T \ {Max(T)}] \o piece[Max(T)]]

LEMMA ConcatenationExists ==
    ASSUME NEW n \in Nat, NEW E, NEW piece \in [1 .. n -> Seq(E)]
    PROVE  \E it : Concatenates(it, n, piece)
<1> DEFINE Y == Seq(E)
           step == [i \in 1 .. n |-> [got \in Y |-> got \o piece[i]]]
<1>1. step \in [1 .. n -> [Y -> Y]] /\ <<>> \in Y
  OBVIOUS
<1>2. PICK it \in [SUBSET (1 .. n) -> Y] : FoldEquation(it, n, <<>>, step)
  <2> HIDE DEF step, Y
  <2> QED
    BY <1>1, FoldLeftExists
<1>3. \A T \in SUBSET (1 .. n) : T # {} => Max(T) \in 1 .. n /\ T \ {Max(T)} \in SUBSET (1 .. n)
  BY MaxOfIndices
<1>4. Concatenates(it, n, piece)
  BY <1>2, <1>3 DEF FoldEquation, Concatenates
<1> QED
  BY <1>4

\* What the first k pieces make, one after the other.
JoinedUpTo(g, n, E, piece) ==
    /\ g \in [0 .. n -> Seq(E)]
    /\ \A k \in 1 .. n : g[k] = g[k - 1] \o piece[k]

\* Whatever follows that recursion ends with what appending the pieces gives.
LEMMA ConcatenationRuns ==
    ASSUME NEW n \in Nat, NEW E, NEW piece \in [1 .. n -> Seq(E)], NEW fold, Concatenates(fold, n, piece)
    PROVE  \E g : JoinedUpTo(g, n, E, piece) /\ fold[1 .. n] = g[n]
<1> DEFINE Y == Seq(E)
           step == [i \in 1 .. n |-> [got \in Y |-> got \o piece[i]]]
<1>1. step \in [1 .. n -> [Y -> Y]] /\ <<>> \in Y
  OBVIOUS
<1>2. \A T \in SUBSET (1 .. n) : T # {} => Max(T) \in 1 .. n /\ T \ {Max(T)} \in SUBSET (1 .. n)
  BY MaxOfIndices
<1>3. FollowsFold(fold, n, Y, <<>>, step)
  BY <1>2 DEF FollowsFold, Concatenates
<1>4. \A k \in 1 .. n : \A got \in Y : step[k][got] = got \o piece[k]
  OBVIOUS
<1> HIDE DEF step, Y
<1>5. \E g : RunsThrough(g, n, Y, <<>>, step) /\ fold[1 .. n] = g[n]
  BY ONLY n \in Nat, <1>1, <1>3, FoldRun
<1>6. PICK g : RunsThrough(g, n, Y, <<>>, step) /\ fold[1 .. n] = g[n]
  BY <1>5
<1>7. ASSUME NEW k \in 1 .. n PROVE g[k] = g[k - 1] \o piece[k]
  <2>1. k - 1 \in 0 .. n /\ g \in [0 .. n -> Y] /\ g[k] = step[k][g[k - 1]]
    BY <1>6 DEF RunsThrough
  <2>2. g[k - 1] \in Y
    BY <2>1
  <2> QED
    BY ONLY k \in 1 .. n, <1>4, <2>1, <2>2
<1>8. g \in [0 .. n -> Seq(E)]
  BY <1>6 DEF RunsThrough, Y
<1>9. JoinedUpTo(g, n, E, piece)
  BY <1>7, <1>8 DEF JoinedUpTo
<1> QED
  BY <1>6, <1>9

LEMMA ConcatenationIsSeq ==
    ASSUME NEW n \in Nat, NEW E, NEW piece \in [1 .. n -> Seq(E)], NEW fold, Concatenates(fold, n, piece)
    PROVE  fold[1 .. n] \in Seq(E)
<1>1. PICK g : JoinedUpTo(g, n, E, piece) /\ fold[1 .. n] = g[n]
  BY ONLY n \in Nat, piece \in [1 .. n -> Seq(E)], Concatenates(fold, n, piece), ConcatenationRuns
<1> QED
  BY <1>1 DEF JoinedUpTo

\* It has all of each piece.
LEMMA ConcatenationHas ==
    ASSUME NEW n \in Nat, NEW E, NEW piece \in [1 .. n -> Seq(E)], NEW fold, Concatenates(fold, n, piece),
           NEW i \in 1 .. n
    PROVE  ToSet(piece[i]) \subseteq ToSet(fold[1 .. n])
<1>1. PICK g : JoinedUpTo(g, n, E, piece) /\ fold[1 .. n] = g[n]
  BY ONLY n \in Nat, piece \in [1 .. n -> Seq(E)], Concatenates(fold, n, piece), ConcatenationRuns
<1>2. ASSUME NEW k \in 1 .. n PROVE ToSet(g[k]) = ToSet(g[k - 1]) \cup ToSet(piece[k])
  <2>1. k - 1 \in 0 .. n /\ g \in [0 .. n -> Seq(E)] /\ g[k] = g[k - 1] \o piece[k]
    BY <1>1 DEF JoinedUpTo
  <2>2. g[k - 1] \in Seq(E) /\ piece[k] \in Seq(E)
    BY <2>1
  <2> QED
    BY <2>1, <2>2, ToSetConcat
<1> DEFINE G == {k \in 0 .. n : k < i \/ ToSet(piece[i]) \subseteq ToSet(g[k])}
<1>3. 0 \in G
  OBVIOUS
<1>4. ASSUME NEW k \in 1 .. n, k - 1 \in G PROVE k \in G
  <2>1. ToSet(g[k]) = ToSet(g[k - 1]) \cup ToSet(piece[k])
    BY <1>2
  <2>2. CASE k < i
    BY <2>2
  <2>3. CASE k = i
    BY <2>1, <2>3
  <2>4. CASE k > i
    <3>1. ~(k - 1 < i)
      BY <2>4
    <3> QED
      BY <1>4, <2>1, <3>1
  <2> QED
    BY <2>2, <2>3, <2>4
<1>5. 0 .. n \subseteq G
  <2> HIDE DEF G
  <2> QED
    BY <1>3, <1>4, IntervalInduction
<1>6. n \in G
  BY <1>5
<1> QED
  BY <1>1, <1>6
=============================================================================
