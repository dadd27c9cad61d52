----------------------------- MODULE EvalsProofs -----------------------------
(***************************************************************************)
(* Proofs about Evals.tla, for every set of runs, configs, replies and     *)
(* every hash function: the judge cache pays for no question twice, a      *)
(* stored score of a judge is an answer to its own question, a run is      *)
(* stored whole or not at all, and its exit code is the verdict of what is *)
(* stored of it.                                                           *)
(*                                                                         *)
(* A question costs a call only while the cache has no entry of it, and    *)
(* every call whose score is kept leaves one; an entry is only displaced   *)
(* by a score of a question with the same hash, which the history counts   *)
(* as lost. So calls are bounded by losses plus the entry there is now.    *)
(* For a run's estimate the invariant also needs that only the owner of    *)
(* the cache's lock changes it, where the run stands in its work, and how  *)
(* much of what lies ahead has no entry. What is stored follows the        *)
(* answers through the cache, a run's outcomes and its results; and how    *)
(* much is stored, how many results a run has in each phase.               *)
(***************************************************************************)
EXTENDS Evals, FoldFacts, FiniteSetTheorems, SequenceTheorems, TLAPS

----------------------------------------------------------------------------
(***************************************************************************)
(* The inductive invariant.                                                *)
(***************************************************************************)

\* The cache has the answer of a question.
Own(q) == Canon(q, q)
Holds(q) == HashOf(Own(q)) \in DOMAIN cache /\ cache[HashOf(Own(q))].verify = Own(q)

\* Where a run stands, what it has ahead of it and what of that it must ask.
At(r) == <<judge[r], item[r]>>
Ahead(r) == {at \in Work(Config(r)) : at[1] > judge[r] \/ (at[1] = judge[r] /\ at[2] >= item[r])}
QuestionAt(r, at) == Question(Config(r).judges[at[1]], Config(r).items[at[2]])
ToAsk(r) == {at \in Ahead(r) : Applicable(Config(r).judges[at[1]], Config(r).items[at[2]])
                                   /\ ~Holds(QuestionAt(r, at))}

\* Two questions of the run share a hash.
Clashes(r) == \E p, q \in QuestionsOf(Config(r)) : p # q /\ HashOf(Own(p)) = HashOf(Own(q))

Phases == {"idle", "opening", "judging", "storing", "done", "failed", "dead"}

Typed ==
    /\ pc \in [Runs -> Phases]
    /\ judge \in [Runs -> Nat] /\ item \in [Runs -> Nat]
    /\ promised \in [Runs -> Int]
    /\ asked \in [Questions -> Nat] /\ lost \in [Questions -> Nat]
    /\ \A h \in DOMAIN cache : cache[h].value # None

\* A question was asked as often as its answer was lost, and once for the
\* answer that is there.
Accounted == \A q \in Questions : asked[q] <= lost[q] + (IF Holds(q) THEN 1 ELSE 0)

\* A run among its judges has the cache to itself and stands in its work.
Placed ==
    \A r \in Runs :
        /\ pc[r] = "opening" => Config(r).judges # <<>> /\ Config(r).items # <<>>
        /\ pc[r] = "judging" => cacheOwner = r /\ At(r) \in Work(Config(r))

\* What the estimate promised covers what is ahead.
Covered(r) == promised[r] >= 0 /\ (pc[r] = "judging" => promised[r] >= Cardinality(ToAsk(r)))
Budgeted == \A r \in Runs : Clashes(r) \/ Covered(r)

Paid == Typed /\ Accounted /\ Placed /\ Budgeted

----------------------------------------------------------------------------
(***************************************************************************)
(* Questions, the cache and what is ahead.                                 *)
(***************************************************************************)

\* A question carries all its cache key is built from.
LEMMA CanonOfQuestion ==
    ASSUME NEW spec, NEW it
    PROVE  Own(Question(spec, it)) = Canon(spec, it)
BY DEF Own, Canon, Question, Given

\* A judge's answer is cached exactly when the cache has its question.
LEMMA CachedWhenHeld ==
    ASSUME Typed, NEW spec, NEW it
    PROVE  Cached(cache, Canon(spec, it)) = None <=> ~Holds(Question(spec, it))
BY CanonOfQuestion DEF Cached, Holds, Typed

\* A config's work is the pairs up to its lengths, so it is finite.
LEMMA WorkIsFinite ==
    ASSUME NEW r \in Runs
    PROVE  /\ DOMAIN Config(r).judges = 1 .. Len(Config(r).judges) /\ Len(Config(r).judges) \in Nat
           /\ DOMAIN Config(r).items = 1 .. Len(Config(r).items) /\ Len(Config(r).items) \in Nat
           /\ IsFiniteSet(Work(Config(r)))
           /\ \A S : S \subseteq Work(Config(r)) => IsFiniteSet(S) /\ Cardinality(S) \in Nat
<1>1. /\ DOMAIN Config(r).judges = 1 .. Len(Config(r).judges) /\ Len(Config(r).judges) \in Nat
      /\ DOMAIN Config(r).items = 1 .. Len(Config(r).items) /\ Len(Config(r).items) \in Nat
  BY ConfigAssumption DEF Config
<1>2. IsFiniteSet(DOMAIN Config(r).judges) /\ IsFiniteSet(DOMAIN Config(r).items)
  BY <1>1, FS_Interval
<1>3. IsFiniteSet(Work(Config(r)))
  BY <1>2, FS_Product DEF Work
<1> QED
  BY <1>1, <1>3, FS_Subset, FS_CardinalityType

\* Each of a run's work is a question of it.
LEMMA WorkIsAsked ==
    ASSUME NEW r \in Runs, NEW at \in Work(Config(r))
    PROVE  QuestionAt(r, at) \in QuestionsOf(Config(r)) /\ QuestionAt(r, at) \in Questions
BY DEF QuestionAt, QuestionsOf, Questions, Config

\* What is to ask is part of that, before a step and after it.
LEMMA ToAskIsWork ==
    ASSUME NEW r \in Runs
    PROVE  ToAsk(r) \subseteq Work(Config(r)) /\ ToAsk(r)' \subseteq Work(Config(r))
BY DEF ToAsk, Ahead, Config

\* A run that has no more to ask than before stays covered.
LEMMA CoveredKept ==
    ASSUME NEW r \in Runs, promised[r] \in Int, Covered(r), promised'[r] = promised[r],
           pc'[r] = "judging" => pc[r] = "judging" /\ ToAsk(r)' \subseteq ToAsk(r)
    PROVE  Covered(r)'
<1>1. CASE pc'[r] # "judging"
  BY <1>1 DEF Covered
<1>2. CASE pc'[r] = "judging"
  <2>1. Cardinality(ToAsk(r)') <= Cardinality(ToAsk(r))
    BY <1>2, ToAskIsWork, WorkIsFinite, FS_Subset
  <2>2. Cardinality(ToAsk(r)') \in Nat /\ Cardinality(ToAsk(r)) \in Nat
    BY ToAskIsWork, WorkIsFinite
  <2> QED
    BY <1>2, <2>1, <2>2 DEF Covered
<1> QED
  BY <1>1, <1>2

\* Nothing is taken out of the account by a step that leaves the cache alone.
LEMMA CacheUntouched ==
    ASSUME UNCHANGED cache
    PROVE  /\ \A q : Holds(q)' <=> Holds(q)
           /\ Accounted /\ UNCHANGED <<asked, lost>> => Accounted'
           /\ \A r \in Runs : judge'[r] = judge[r] /\ item'[r] = item[r] => ToAsk(r)' = ToAsk(r)
<1>1. \A q : Holds(q)' <=> Holds(q)
  BY DEF Holds
<1>2. Accounted /\ UNCHANGED <<asked, lost>> => Accounted'
  BY <1>1 DEF Accounted
<1>3. ASSUME NEW r \in Runs, judge'[r] = judge[r], item'[r] = item[r] PROVE ToAsk(r)' = ToAsk(r)
  BY <1>1, <1>3 DEF ToAsk, Ahead, Config, QuestionAt
<1> QED
  BY <1>1, <1>2, <1>3

\* Only one run is among its judges.
LEMMA OneJudges ==
    ASSUME Placed, NEW r \in Runs, NEW s \in Runs, pc[r] = "judging", pc[s] = "judging"
    PROVE  r = s
BY DEF Placed

----------------------------------------------------------------------------
(***************************************************************************)
(* Steps.                                                                  *)
(***************************************************************************)

\* A step of one run away from its judges leaves the others where they are.
Leaves(r) ==
    /\ \E phase \in Phases \ {"opening", "judging"} : pc' = [pc EXCEPT ![r] = phase]
    /\ cacheOwner # r => cacheOwner' = cacheOwner
    /\ UNCHANGED <<judge, item, cache, history>>

\* Such a step keeps the invariant.
LEMMA LeavingKeeps ==
    ASSUME Paid, NEW r \in Runs, Leaves(r)
    PROVE  Paid'
<1>1. PICK phase \in Phases \ {"opening", "judging"} : pc' = [pc EXCEPT ![r] = phase]
  BY DEF Leaves
<1>2. UNCHANGED <<judge, item, cache, asked, lost, promised>>
  BY DEF Leaves, history
<1>3. pc'[r] = phase /\ \A s \in Runs \ {r} : pc'[s] = pc[s]
  BY <1>1 DEF Paid, Typed
<1>4. Typed'
  BY <1>1, <1>2 DEF Paid, Typed
<1>5. Accounted'
  BY <1>2, CacheUntouched DEF Paid
<1>6. Placed'
  <2> SUFFICES ASSUME NEW s \in Runs
               PROVE  /\ pc'[s] = "opening" => Config(s).judges # <<>> /\ Config(s).items # <<>>
                      /\ pc'[s] = "judging" => cacheOwner' = s /\ At(s)' \in Work(Config(s))
    BY DEF Placed, Config
  <2>1. CASE s = r
    BY <1>3, <2>1
  <2>2. CASE s # r
    <3>1. At(s)' = At(s) /\ pc'[s] = pc[s]
      BY <1>2, <1>3, <2>2 DEF At
    <3> QED
      BY <2>2, <3>1 DEF Paid, Placed, Leaves
  <2> QED
    BY <2>1, <2>2
<1>7. Budgeted'
  <2> SUFFICES ASSUME NEW s \in Runs, ~Clashes(s) PROVE Covered(s)'
    BY DEF Budgeted, Clashes, Config
  <2>1. Covered(s) /\ promised[s] \in Int
    BY DEF Paid, Budgeted, Typed
  <2>2. ToAsk(s)' = ToAsk(s) /\ (pc'[s] = "judging" => pc[s] = "judging")
    BY <1>2, <1>3, CacheUntouched
  <2> QED
    BY <1>2, <2>1, <2>2, CoveredKept
<1> QED
  BY <1>4, <1>5, <1>6, <1>7 DEF Paid

\* The outcome of an item moves its run on in its work, or out of it.
LEMMA OutcomeMoves ==
    ASSUME Typed, Placed, NEW r \in Runs, pc[r] = "judging", NEW outcome, Outcome(r, outcome)
    PROVE  /\ pc' \in [Runs -> Phases] /\ judge' \in [Runs -> Nat] /\ item' \in [Runs -> Nat]
           /\ \A s \in Runs \ {r} : pc'[s] = pc[s] /\ judge'[s] = judge[s] /\ item'[s] = item[s]
           /\ \/ pc'[r] = "storing"
              \/ /\ pc'[r] = "judging" /\ cacheOwner' = r
                 /\ At(r)' \in Work(Config(r)) /\ Ahead(r)' \subseteq Ahead(r) \ {At(r)}
<1>1. At(r) \in Work(Config(r)) /\ cacheOwner = r
  BY DEF Placed
<1>2. /\ judge[r] \in 1 .. Len(Config(r).judges) /\ item[r] \in 1 .. Len(Config(r).items)
      /\ Len(Config(r).judges) \in Nat /\ Len(Config(r).items) \in Nat
      /\ \A j, i : <<j, i>> \in Work(Config(r)) <=>
                       j \in 1 .. Len(Config(r).judges) /\ i \in 1 .. Len(Config(r).items)
      /\ \A at \in Work(Config(r)) : at = <<at[1], at[2]>>
                       /\ at[1] \in 1 .. Len(Config(r).judges) /\ at[2] \in 1 .. Len(Config(r).items)
  <2>1. PICK m \in Nat, n \in Nat : /\ m = Len(Config(r).judges) /\ n = Len(Config(r).items)
                                     /\ Work(Config(r)) = (1 .. m) \X (1 .. n)
    BY WorkIsFinite DEF Work
  <2>2. judge[r] \in 1 .. m /\ item[r] \in 1 .. n
    BY <1>1, <2>1 DEF At
  <2> QED
    BY <2>1, <2>2
<1>3. CASE item[r] < Len(Config(r).items)
  <2>1. item' = [item EXCEPT ![r] = @ + 1] /\ UNCHANGED <<judge, pc, cacheOwner>>
    BY <1>3 DEF Outcome
  <2>2. /\ item'[r] = item[r] + 1 /\ judge'[r] = judge[r] /\ item' \in [Runs -> Nat]
        /\ \A s \in Runs \ {r} : item'[s] = item[s]
    BY <2>1 DEF Typed
  <2>3. At(r)' \in Work(Config(r))
    BY <1>2, <1>3, <2>2 DEF At
  <2>4. Ahead(r)' \subseteq Ahead(r) \ {At(r)}
    BY <1>2, <2>2 DEF Ahead, At, Config
  <2> QED
    BY <1>1, <2>1, <2>2, <2>3, <2>4 DEF Typed
<1>4. CASE ~(item[r] < Len(Config(r).items)) /\ judge[r] = Len(Config(r).judges)
  <2>1. item' = [item EXCEPT ![r] = 1] /\ pc' = [pc EXCEPT ![r] = "storing"] /\ UNCHANGED judge
    BY <1>4 DEF Outcome
  <2>2. item' \in [Runs -> Nat] /\ pc' \in [Runs -> Phases] /\ pc'[r] = "storing"
    BY <2>1 DEF Typed, Phases
  <2>3. \A s \in Runs \ {r} : item'[s] = item[s] /\ pc'[s] = pc[s]
    BY <2>1 DEF Typed
  <2> QED
    BY <2>1, <2>2, <2>3 DEF Typed
<1>5. CASE ~(item[r] < Len(Config(r).items)) /\ judge[r] # Len(Config(r).judges)
  <2>1. /\ item' = [item EXCEPT ![r] = 1] /\ judge' = [judge EXCEPT ![r] = @ + 1]
        /\ UNCHANGED <<pc, cacheOwner>>
    BY <1>5 DEF Outcome
  <2>2. /\ item'[r] = 1 /\ judge'[r] = judge[r] + 1 /\ item' \in [Runs -> Nat] /\ judge' \in [Runs -> Nat]
        /\ \A s \in Runs \ {r} : item'[s] = item[s] /\ judge'[s] = judge[s]
    BY <2>1 DEF Typed
  <2>3. At(r)' \in Work(Config(r))
    BY <1>2, <1>5, <2>2 DEF At
  <2>4. Ahead(r)' \subseteq Ahead(r) \ {At(r)}
    BY <1>2, <2>2 DEF Ahead, At, Config
  <2> QED
    BY <1>1, <2>1, <2>2, <2>3, <2>4 DEF Typed
<1> QED
  BY <1>3, <1>4, <1>5

\* The run that got an outcome still has the cache to itself, or has left.
LEMMA OutcomePlaces ==
    ASSUME Paid, NEW r \in Runs, pc[r] = "judging", NEW outcome, Outcome(r, outcome)
    PROVE  Placed'
<1> SUFFICES ASSUME NEW s \in Runs
             PROVE  /\ pc'[s] = "opening" => Config(s).judges # <<>> /\ Config(s).items # <<>>
                    /\ pc'[s] = "judging" => cacheOwner' = s /\ At(s)' \in Work(Config(s))
  BY DEF Placed, Config
<1>1. CASE s = r
  BY <1>1, OutcomeMoves DEF Paid
<1>2. CASE s # r
  <2>1. pc'[s] = pc[s]
    BY <1>2, OutcomeMoves DEF Paid
  <2>2. pc[s] # "judging"
    BY <1>2, OneJudges DEF Paid
  <2> QED
    BY <2>1, <2>2 DEF Paid, Placed
<1> QED
  BY <1>1, <1>2

\* An item that is not asked changes neither the cache nor the account.
LEMMA SpareKeeps ==
    ASSUME Paid, NEW r \in Runs, Spare(r)
    PROVE  Paid'
<1>1. PICK outcome : Outcome(r, outcome)
  BY DEF Spare
<1>2. pc[r] = "judging" /\ UNCHANGED <<cache, asked, lost, promised>>
  BY DEF Spare, AtItem, history
<1>3. /\ pc' \in [Runs -> Phases] /\ judge' \in [Runs -> Nat] /\ item' \in [Runs -> Nat]
      /\ \A s \in Runs \ {r} : pc'[s] = pc[s] /\ judge'[s] = judge[s] /\ item'[s] = item[s]
      /\ pc'[r] = "storing" \/ (pc'[r] = "judging" /\ Ahead(r)' \subseteq Ahead(r) \ {At(r)})
  BY <1>1, <1>2, OutcomeMoves DEF Paid
<1>4. Typed' /\ Accounted' /\ Placed'
  BY <1>1, <1>2, <1>3, CacheUntouched, OutcomePlaces DEF Paid, Typed
<1>5. Budgeted'
  <2> SUFFICES ASSUME NEW s \in Runs, ~Clashes(s) PROVE Covered(s)'
    BY DEF Budgeted, Clashes, Config
  <2>1. Covered(s) /\ promised[s] \in Int
    BY DEF Paid, Budgeted, Typed
  <2>2. pc'[s] = "judging" => pc[s] = "judging" /\ ToAsk(s)' \subseteq ToAsk(s)
    <3>1. CASE s # r
      BY <1>2, <1>3, <3>1, CacheUntouched
    <3>2. ASSUME s = r, pc'[r] = "judging" PROVE ToAsk(r)' \subseteq ToAsk(r)
      <4>1. Ahead(r)' \subseteq Ahead(r) /\ \A q : Holds(q)' <=> Holds(q)
        BY <1>2, <1>3, <3>2, CacheUntouched
      <4> QED
        BY <4>1 DEF ToAsk, Config, QuestionAt
    <3> QED
      BY <1>2, <3>1, <3>2
  <2> QED
    BY <1>2, <2>1, <2>2, CoveredKept
<1> QED
  BY <1>4, <1>5 DEF Paid

\* A score that is put displaces the entry with its hash, and no other.
LEMMA PutHolds ==
    ASSUME NEW q, NEW value, cache' = CachePut(Own(q), value)
    PROVE  /\ DOMAIN cache' = DOMAIN cache \cup {HashOf(Own(q))}
           /\ \A h \in DOMAIN cache' : cache'[h].value = value \/ (h \in DOMAIN cache /\ cache'[h] = cache[h])
           /\ \A p : HashOf(Own(p)) # HashOf(Own(q)) => (Holds(p)' <=> Holds(p))
           /\ \A p : HashOf(Own(p)) = HashOf(Own(q)) => (Holds(p)' <=> Own(p) = Own(q))
<1>1. cache' = [h \in DOMAIN cache \cup {HashOf(Own(q))} |->
                   IF h = HashOf(Own(q)) THEN [value |-> value, verify |-> Own(q)] ELSE cache[h]]
  BY DEF CachePut
<1>2. \A p : Own(p)' = Own(p)
  BY DEF Own, Canon
<1>3. \A p : Holds(p)' <=> HashOf(Own(p)) \in DOMAIN cache' /\ cache'[HashOf(Own(p))].verify = Own(p)
  BY <1>2 DEF Holds
<1> HIDE DEF Own
<1>4. ASSUME NEW p, HashOf(Own(p)) # HashOf(Own(q)) PROVE Holds(p)' <=> Holds(p)
  BY <1>1, <1>3, <1>4 DEF Holds
<1>5. ASSUME NEW p, HashOf(Own(p)) = HashOf(Own(q)) PROVE Holds(p)' <=> Own(p) = Own(q)
  BY <1>1, <1>3, <1>5
<1>6. /\ DOMAIN cache' = DOMAIN cache \cup {HashOf(Own(q))}
      /\ \A h \in DOMAIN cache' : cache'[h].value = value \/ (h \in DOMAIN cache /\ cache'[h] = cache[h])
  BY <1>1
<1> QED
  BY <1>4, <1>5, <1>6

\* What a call leaves in the cache and in the history, by the question asked.
Call(r, q, value, stored) ==
    /\ stored => value # None
    /\ cache' = IF stored THEN CachePut(Own(q), value) ELSE cache
    /\ asked' = [asked EXCEPT ![q] = @ + 1]
    /\ promised' = [promised EXCEPT ![r] = @ - 1]
    /\ lost' \in [Questions -> Nat]
    /\ \A p \in Questions : lost'[p] >= lost[p]
    /\ ~stored => lost'[q] > lost[q]
    /\ \A p \in Questions \ {q} :
           stored /\ Holds(p) /\ HashOf(Own(p)) = HashOf(Own(q)) => lost'[p] > lost[p]

\* A provider's answer is such a call.
LEMMA AnsweredCalls ==
    ASSUME Typed, Placed, NEW r \in Runs, Answered(r)
    PROVE  \E value : \E stored \in BOOLEAN : Call(r, QuestionAt(r, At(r)), value, stored)
<1> DEFINE q == QuestionAt(r, At(r))
           Lost(p, stored) == \/ p = q /\ ~stored
                              \/ /\ p # q /\ stored /\ HashOf(Own(q)) \in DOMAIN cache
                                 /\ cache[HashOf(Own(q))].verify = Own(p)
<1>1. Own(q) = Canon(Judge(r), Item(r)) /\ q = Question(Judge(r), Item(r))
  BY CanonOfQuestion DEF QuestionAt, At, Judge, Item
<1>2. PICK reply \in Replies, kept \in BOOLEAN :
          /\ cache' = IF kept /\ ParseReply(reply) # None
                      THEN CachePut(Canon(Judge(r), Item(r)), ParseReply(reply)) ELSE cache
          /\ asked' = [asked EXCEPT ![Question(Judge(r), Item(r))] = @ + 1]
          /\ promised' = [promised EXCEPT ![r] = @ - 1]
          /\ lost' = [p \in Questions |->
                 lost[p] + IF \/ p = Question(Judge(r), Item(r)) /\ ~(kept /\ ParseReply(reply) # None)
                              \/ /\ p # Question(Judge(r), Item(r))
                                 /\ kept /\ ParseReply(reply) # None
                                 /\ HashOf(Canon(Judge(r), Item(r))) \in DOMAIN cache
                                 /\ cache[HashOf(Canon(Judge(r), Item(r)))].verify = Canon(p, p)
                           THEN 1 ELSE 0]
  BY DEF Answered
<1> DEFINE value == ParseReply(reply)
           stored == kept /\ value # None
<1>3. stored \in BOOLEAN /\ (stored => value # None)
  OBVIOUS
<1>4. /\ cache' = IF stored THEN CachePut(Own(q), value) ELSE cache
      /\ asked' = [asked EXCEPT ![q] = @ + 1]
      /\ promised' = [promised EXCEPT ![r] = @ - 1]
      /\ lost' = [p \in Questions |-> lost[p] + IF Lost(p, stored) THEN 1 ELSE 0]
  <2>1. \A p : Own(p) = Canon(p, p)
    BY DEF Own
  <2> HIDE DEF q
  <2>2. \A p \in Questions : lost'[p] = lost[p] + IF Lost(p, stored) THEN 1 ELSE 0
    BY <1>1, <1>2, <2>1
  <2>3. lost' = [p \in Questions |-> lost'[p]]
    BY <1>2
  <2> HIDE DEF Lost, stored, value
  <2>4. lost' = [p \in Questions |-> lost[p] + IF Lost(p, stored) THEN 1 ELSE 0]
    BY <2>2, <2>3
  <2> QED
    BY <1>1, <1>2, <2>4 DEF value, stored
<1> HIDE DEF value, stored, Lost
<1>5. \A p \in Questions : lost'[p] = lost[p] + IF Lost(p, stored) THEN 1 ELSE 0
  BY <1>4
<1>6. lost' \in [Questions -> Nat] /\ \A p \in Questions : lost'[p] >= lost[p]
  BY <1>4, <1>5 DEF Typed
<1>7. \A p \in Questions : Lost(p, stored) => lost'[p] > lost[p]
  BY <1>5 DEF Typed
<1>8. q \in Questions
  BY WorkIsAsked DEF Placed, Answered, MustAsk, AtItem
<1>9. ~stored => Lost(q, stored)
  BY DEF Lost
<1>10. \A p \in Questions \ {q} :
           stored /\ Holds(p) /\ HashOf(Own(p)) = HashOf(Own(q)) => Lost(p, stored)
  BY DEF Lost, Holds
<1>11. Call(r, q, value, stored)
  <2>1. ~stored => lost'[q] > lost[q]
    BY <1>7, <1>8, <1>9
  <2>2. \A p \in Questions \ {q} :
           stored /\ Holds(p) /\ HashOf(Own(p)) = HashOf(Own(q)) => lost'[p] > lost[p]
    BY <1>7, <1>10
  <2> HIDE DEF q
  <2> QED
    BY <1>3, <1>4, <1>6, <2>1, <2>2 DEF Call
<1> QED
  BY <1>3, <1>11

\* A call keeps the account: its answer is there now or counted as lost.
LEMMA CallAccounts ==
    ASSUME Typed, Accounted, NEW r, NEW q \in Questions, NEW value, NEW stored \in BOOLEAN,
           Call(r, q, value, stored), ~Holds(q)
    PROVE  Accounted'
<1> SUFFICES ASSUME NEW p \in Questions
             PROVE  asked'[p] <= lost'[p] + (IF Holds(p)' THEN 1 ELSE 0)
  BY DEF Accounted
<1>1. /\ asked[p] \in Nat /\ lost[p] \in Nat /\ lost'[p] \in Nat /\ lost'[p] >= lost[p]
      /\ asked[p] <= lost[p] + (IF Holds(p) THEN 1 ELSE 0)
      /\ asked'[p] = asked[p] + (IF p = q THEN 1 ELSE 0)
  BY DEF Typed, Accounted, Call
<1>2. CASE ~stored
  <2>1. (Holds(p)' <=> Holds(p)) /\ lost'[q] > lost[q]
    BY <1>2, CacheUntouched DEF Call
  <2> QED
    BY <1>1, <2>1
<1>3. CASE stored
  <2>1. /\ HashOf(Own(p)) # HashOf(Own(q)) => (Holds(p)' <=> Holds(p))
        /\ HashOf(Own(p)) = HashOf(Own(q)) => (Holds(p)' <=> Own(p) = Own(q))
    BY <1>3, PutHolds DEF Call
  <2>2. CASE p = q
    BY <1>1, <2>1, <2>2
  <2>3. CASE p # q /\ HashOf(Own(p)) = HashOf(Own(q)) /\ Holds(p)
    <3>1. lost'[p] > lost[p]
      BY <1>3, <2>3 DEF Call
    <3> QED
      BY <1>1, <2>3, <3>1
  <2>4. CASE p # q /\ ~(HashOf(Own(p)) = HashOf(Own(q)) /\ Holds(p))
    BY <1>1, <2>1, <2>4
  <2> QED
    BY <2>2, <2>3, <2>4
<1> QED
  BY <1>2, <1>3

\* A call leaves the run with that much less to ask.
LEMMA CallCovers ==
    ASSUME Paid, NEW r \in Runs, pc[r] = "judging", ~Clashes(r), At(r) \in ToAsk(r),
           NEW value, NEW stored \in BOOLEAN, Call(r, QuestionAt(r, At(r)), value, stored),
           pc'[r] = "judging" => Ahead(r)' \subseteq Ahead(r) \ {At(r)}
    PROVE  Covered(r)'
<1>1. ToAsk(r) \subseteq Work(Config(r)) /\ ToAsk(r)' \subseteq Work(Config(r))
  BY ToAskIsWork
<1>2. /\ IsFiniteSet(ToAsk(r)) /\ Cardinality(ToAsk(r)) \in Nat
      /\ IsFiniteSet(ToAsk(r)') /\ Cardinality(ToAsk(r)') \in Nat
  BY <1>1, WorkIsFinite
<1>3. Cardinality(ToAsk(r) \ {At(r)}) = Cardinality(ToAsk(r)) - 1 /\ IsFiniteSet(ToAsk(r) \ {At(r)})
  BY <1>2, FS_RemoveElement
<1>4. Cardinality(ToAsk(r)) >= 1
  <2>1. ToAsk(r) \ {At(r)} \subseteq Work(Config(r))
    BY <1>1
  <2>2. Cardinality(ToAsk(r) \ {At(r)}) \in Nat
    BY <2>1, WorkIsFinite
  <2> QED
    BY <1>2, <1>3, <2>2
<1>5. /\ promised[r] >= Cardinality(ToAsk(r)) /\ promised[r] \in Int
      /\ promised'[r] = promised[r] - 1
  BY DEF Paid, Budgeted, Covered, Typed, Call
<1>6. ASSUME pc'[r] = "judging" PROVE ToAsk(r)' \subseteq ToAsk(r) \ {At(r)}
  <2>1. ASSUME NEW at \in Work(Config(r)), Holds(QuestionAt(r, at)) PROVE Holds(QuestionAt(r, at))'
    <3>1. /\ QuestionAt(r, at) \in QuestionsOf(Config(r))
          /\ QuestionAt(r, At(r)) \in QuestionsOf(Config(r))
      BY <1>1, WorkIsAsked
    <3>2. CASE ~stored
      BY <2>1, <3>2, CacheUntouched DEF Call, QuestionAt, Config
    <3>3. CASE stored
      <4> DEFINE p == QuestionAt(r, at)
                 q == QuestionAt(r, At(r))
      <4>1. HashOf(Own(p)) = HashOf(Own(q)) => p = q
        BY <3>1 DEF Clashes
      <4>2. QuestionAt(r, at)' = p
        BY DEF QuestionAt, Config
      <4>3. cache' = CachePut(Own(q), value)
        BY <3>3 DEF Call
      <4> HIDE DEF p, q
      <4>4. Holds(p)'
        BY <4>1, <4>3, <2>1, PutHolds DEF p
      <4> QED
        BY <4>4 DEF p, QuestionAt, Config
    <3> QED
      BY <3>2, <3>3
  <2>2. Ahead(r)' \subseteq Ahead(r) \ {At(r)} /\ Ahead(r) \subseteq Work(Config(r))
    BY <1>6 DEF Ahead
  <2> QED
    BY <2>1, <2>2 DEF ToAsk, Config, QuestionAt
<1>7. CASE pc'[r] = "judging"
  <2>1. Cardinality(ToAsk(r)') <= Cardinality(ToAsk(r) \ {At(r)})
    BY <1>3, <1>6, <1>7, FS_Subset
  <2> QED
    BY <1>2, <1>3, <1>4, <1>5, <2>1 DEF Covered
<1>8. CASE pc'[r] # "judging"
  BY <1>2, <1>4, <1>5, <1>8 DEF Covered
<1> QED
  BY <1>7, <1>8

\* A call moves the run on, and is accounted for.
LEMMA AnsweredKeeps ==
    ASSUME Paid, NEW r \in Runs, Answered(r)
    PROVE  Paid'
<1> DEFINE q == QuestionAt(r, At(r))
<1>1. PICK outcome : Outcome(r, outcome)
  BY DEF Answered
<1>2. PICK value : \E stored \in BOOLEAN : Call(r, q, value, stored)
  BY AnsweredCalls DEF Paid
<1>3. PICK stored \in BOOLEAN : Call(r, q, value, stored)
  BY <1>2
<1>4. pc[r] = "judging" /\ At(r) \in Work(Config(r)) /\ q \in Questions
  BY WorkIsAsked DEF Answered, MustAsk, AtItem, Paid, Placed
<1>5. At(r) \in ToAsk(r) /\ ~Holds(q)
  <2>1. q = Question(Judge(r), Item(r)) /\ Applicable(Judge(r), Item(r)) /\ ~Holds(q)
    BY CachedWhenHeld DEF Answered, MustAsk, QuestionAt, At, Judge, Item, Paid
  <2>2. At(r) \in Ahead(r)
    BY <1>4 DEF Ahead, At, Paid, Typed
  <2> QED
    BY <2>1, <2>2 DEF ToAsk, At, Judge, Item
<1>6. /\ pc' \in [Runs -> Phases] /\ judge' \in [Runs -> Nat] /\ item' \in [Runs -> Nat]
      /\ \A s \in Runs \ {r} : pc'[s] = pc[s] /\ judge'[s] = judge[s] /\ item'[s] = item[s]
      /\ pc'[r] = "storing" \/ (pc'[r] = "judging" /\ Ahead(r)' \subseteq Ahead(r) \ {At(r)})
  BY <1>1, <1>4, OutcomeMoves DEF Paid
<1> HIDE DEF q
<1>7. Typed'
  <2>1. /\ asked' \in [Questions -> Nat] /\ lost' \in [Questions -> Nat]
        /\ promised' \in [Runs -> Int]
    BY <1>3, <1>4 DEF Call, Paid, Typed
  <2>2. \A h \in DOMAIN cache' : cache'[h].value # None
    <3>1. CASE stored
      BY <1>3, <3>1, PutHolds DEF Call, Paid, Typed
    <3>2. CASE ~stored
      BY <1>3, <3>2 DEF Call, Paid, Typed
    <3> QED
      BY <3>1, <3>2
  <2> QED
    BY <1>6, <2>1, <2>2 DEF Typed
<1>8. Accounted'
  BY <1>3, <1>4, <1>5, CallAccounts DEF Paid
<1>9. Placed'
  BY <1>1, <1>4, OutcomePlaces
<1>10. Budgeted'
  <2> SUFFICES ASSUME NEW s \in Runs, ~Clashes(s) PROVE Covered(s)'
    BY DEF Budgeted, Clashes, Config
  <2>1. CASE s = r
    BY <1>3, <1>4, <1>5, <1>6, <2>1, CallCovers DEF q
  <2>2. CASE s # r
    <3>1. promised'[s] = promised[s] /\ pc'[s] = pc[s] /\ pc[s] # "judging"
      BY <1>3, <1>4, <1>6, <2>2, OneJudges DEF Call, Paid, Typed
    <3> QED
      BY <3>1 DEF Covered, Paid, Budgeted
  <2> QED
    BY <2>1, <2>2
<1> QED
  BY <1>7, <1>8, <1>9, <1>10 DEF Paid

\* The promise is made of what is ahead when the cache is opened.
LEMMA OpenCacheKeeps ==
    ASSUME Paid, NEW r \in Runs, OpenCache(r), cacheOwner = None
    PROVE  Paid'
<1>1. /\ pc[r] = "opening" /\ cacheOwner' = r
      /\ pc' = [pc EXCEPT ![r] = "judging"]
      /\ judge' = [judge EXCEPT ![r] = 1] /\ item' = [item EXCEPT ![r] = 1]
      /\ promised' = [promised EXCEPT ![r] = Estimate(Config(r))]
      /\ UNCHANGED <<cache, asked, lost>>
  BY DEF OpenCache
<1>2. \A s \in Runs : pc[s] # "judging"
  BY ConfigAssumption DEF Paid, Placed
<1>3. /\ pc'[r] = "judging" /\ judge'[r] = 1 /\ item'[r] = 1 /\ promised'[r] = Estimate(Config(r))
      /\ \A s \in Runs \ {r} : pc'[s] = pc[s] /\ promised'[s] = promised[s]
  BY <1>1 DEF Paid, Typed
<1>4. Estimate(Config(r)) = Cardinality(ToAsk(r)') /\ Estimate(Config(r)) \in Nat
  <2> DEFINE S == {at \in Work(Config(r)) :
                      /\ Applicable(Config(r).judges[at[1]], Config(r).items[at[2]])
                      /\ Cached(cache, Canon(Config(r).judges[at[1]], Config(r).items[at[2]])) = None}
  <2>1. \A at \in Work(Config(r)) :
            Cached(cache, Canon(Config(r).judges[at[1]], Config(r).items[at[2]])) = None
                <=> ~Holds(QuestionAt(r, at))
    BY CachedWhenHeld DEF QuestionAt, Paid
  <2>2. \A at \in Work(Config(r)) : Holds(QuestionAt(r, at))' <=> Holds(QuestionAt(r, at))
    BY <1>1, CacheUntouched DEF QuestionAt, Config
  <2>3. Ahead(r)' = Work(Config(r))
    <3>1. PICK m \in Nat, n \in Nat : Work(Config(r)) = (1 .. m) \X (1 .. n)
      BY WorkIsFinite DEF Work
    <3>2. \A at \in Work(Config(r)) : at[1] > 1 \/ (at[1] = 1 /\ at[2] >= 1)
      BY <3>1
    <3> QED
      BY <1>3, <3>2 DEF Ahead, Config
  <2>4. ToAsk(r)' = {at \in Work(Config(r)) :
                        Applicable(Config(r).judges[at[1]], Config(r).items[at[2]])
                            /\ ~Holds(QuestionAt(r, at))'}
    BY <2>3 DEF ToAsk, Config, QuestionAt
  <2>5. S = ToAsk(r)'
    BY <2>1, <2>2, <2>4
  <2>6. Estimate(Config(r)) = Cardinality(S)
    BY DEF Estimate
  <2> HIDE DEF S
  <2> QED
    BY <2>5, <2>6, ToAskIsWork, WorkIsFinite
<1>5. Typed'
  BY <1>1, <1>4 DEF Paid, Typed, Phases
<1>6. Accounted'
  BY <1>1, CacheUntouched DEF Paid
<1>7. Placed'
  <2>1. At(r)' \in Work(Config(r))
    <3>1. PICK m \in Nat, n \in Nat : /\ m = Len(Config(r).judges) /\ n = Len(Config(r).items)
                                      /\ Work(Config(r)) = (1 .. m) \X (1 .. n)
      BY WorkIsFinite DEF Work
    <3>2. m # 0 /\ n # 0
      BY <1>1, <3>1, ConfigAssumption, EmptySeq DEF Paid, Placed, Config
    <3> QED
      BY <1>3, <3>1, <3>2 DEF At
  <2> QED
    BY <1>1, <1>2, <1>3, <2>1 DEF Paid, Placed, Config
<1>8. Budgeted'
  <2> SUFFICES ASSUME NEW s \in Runs, ~Clashes(s) PROVE Covered(s)'
    BY DEF Budgeted, Clashes, Config
  <2>1. CASE s = r
    BY <1>3, <1>4, <2>1 DEF Covered
  <2>2. CASE s # r
    BY <1>2, <1>3, <2>2 DEF Covered, Paid, Budgeted
  <2> QED
    BY <2>1, <2>2
<1> QED
  BY <1>5, <1>6, <1>7, <1>8 DEF Paid

\* A run that begins is not among its judges yet.
LEMMA BeginKeeps ==
    ASSUME Paid, NEW r \in Runs, Begin(r)
    PROVE  Paid'
<1>1. /\ UNCHANGED <<judge, item, cache, cacheOwner, asked, lost, promised>>
      /\ \E phase \in Phases \ {"judging"} :
             /\ pc' = [pc EXCEPT ![r] = phase]
             /\ phase = "opening" => Config(r).judges # <<>> /\ Config(r).items # <<>>
  <2>1. UNCHANGED <<judge, item, cache, cacheOwner, asked, lost, promised>>
    BY DEF Begin, history
  <2>2. CASE Loads(Config(r))
    BY <2>1, <2>2 DEF Begin, Loads, Phases
  <2>3. CASE ~Loads(Config(r))
    BY <2>1, <2>3 DEF Begin, Fails, Phases
  <2> QED
    BY <2>2, <2>3
<1>2. PICK phase \in Phases \ {"judging"} :
          /\ pc' = [pc EXCEPT ![r] = phase]
          /\ phase = "opening" => Config(r).judges # <<>> /\ Config(r).items # <<>>
  BY <1>1
<1>3. pc'[r] = phase /\ \A s \in Runs \ {r} : pc'[s] = pc[s]
  BY <1>2 DEF Paid, Typed
<1>4. Typed' /\ Accounted'
  BY <1>1, <1>2, CacheUntouched DEF Paid, Typed
<1>5. Placed'
  BY <1>1, <1>2, <1>3 DEF Paid, Placed, At, Config
<1>6. Budgeted'
  <2> SUFFICES ASSUME NEW s \in Runs, ~Clashes(s) PROVE Covered(s)'
    BY DEF Budgeted, Clashes, Config
  <2>1. Covered(s) /\ promised[s] \in Int /\ ToAsk(s)' = ToAsk(s) /\ (pc'[s] = "judging" => pc[s] = "judging")
    BY <1>1, <1>3, CacheUntouched DEF Paid, Budgeted, Typed
  <2> QED
    BY <1>1, <2>1, CoveredKept
<1> QED
  BY <1>4, <1>5, <1>6 DEF Paid

\* Every other step of a run takes it away from its judges.
LEMMA OthersLeave ==
    ASSUME Paid, NEW r \in Runs,
           \/ OpenCache(r) /\ cacheOwner # None
           \/ Refuse(r) \/ CallFails(r) \/ Persist(r) \/ PersistFails(r) \/ Kill(r)
    PROVE  Leaves(r)
<1>1. {"failed", "dead", "done"} \subseteq Phases \ {"opening", "judging"}
  BY DEF Phases
<1>2. pc[r] = "judging" => cacheOwner = r
  BY DEF Paid, Placed
<1>3. CASE OpenCache(r) /\ cacheOwner # None
  BY <1>1, <1>3 DEF OpenCache, Fails, Leaves, history
<1>4. CASE Refuse(r)
  BY <1>1, <1>2, <1>4 DEF Refuse, Fails, Leaves
<1>5. CASE CallFails(r)
  BY <1>1, <1>2, <1>5 DEF CallFails, Fails, Leaves, MustAsk, AtItem
<1>6. CASE Persist(r)
  BY <1>1, <1>6 DEF Persist, Leaves
<1>7. CASE PersistFails(r)
  BY <1>1, <1>7 DEF PersistFails, Fails, Leaves
<1>8. CASE Kill(r)
  BY <1>1, <1>8 DEF Kill, Leaves
<1> QED
  BY <1>3, <1>4, <1>5, <1>6, <1>7, <1>8

\* The server, a label, and a step of nobody.
LEMMA ElsewhereKeeps ==
    ASSUME Paid, UNCHANGED <<pc, judge, item, cache, cacheOwner, asked, lost, promised>>
    PROVE  Paid'
<1>1. Typed' /\ Accounted' /\ Placed'
  BY CacheUntouched DEF Paid, Typed, Placed, At, Config
<1>2. Budgeted'
  <2> SUFFICES ASSUME NEW s \in Runs, ~Clashes(s) PROVE Covered(s)'
    BY DEF Budgeted, Clashes, Config
  <2>1. Covered(s) /\ promised[s] \in Int /\ ToAsk(s)' = ToAsk(s)
    BY CacheUntouched DEF Paid, Budgeted, Typed
  <2> QED
    BY <2>1, CoveredKept
<1> QED
  BY <1>1, <1>2 DEF Paid

\* Nothing was asked yet.
LEMMA PaidInit == Init => Paid
<1> SUFFICES ASSUME Init PROVE Paid
  OBVIOUS
<1>1. \A r \in Runs : pc[r] = "idle" /\ promised[r] = 0
  BY DEF Init
<1>2. Typed
  <2>1. pc \in [Runs -> Phases] /\ DOMAIN cache = {}
    BY DEF Init, Phases
  <2> QED
    BY <2>1 DEF Init, Typed
<1>3. Accounted
  <2>1. \A q \in Questions : asked[q] = 0 /\ lost[q] = 0
    BY DEF Init
  <2>2. \A q : ~Holds(q)
    BY DEF Init, Holds
  <2> QED
    BY <2>1, <2>2 DEF Accounted
<1>4. Placed /\ Budgeted
  BY <1>1 DEF Placed, Budgeted, Covered
<1> QED
  BY <1>2, <1>3, <1>4 DEF Paid

\* Every step keeps it.
LEMMA PaidNext == Paid /\ [Next]_vars => Paid'
<1> SUFFICES ASSUME Paid, [Next]_vars PROVE Paid'
  OBVIOUS
<1>1. ASSUME NEW r \in Runs, Begin(r) PROVE Paid'
  BY <1>1, BeginKeeps
<1>2. ASSUME NEW r \in Runs, OpenCache(r) PROVE Paid'
  BY <1>2, OpenCacheKeeps, OthersLeave, LeavingKeeps
<1>3. ASSUME NEW r \in Runs, Spare(r) PROVE Paid'
  BY <1>3, SpareKeeps
<1>4. ASSUME NEW r \in Runs, Answered(r) PROVE Paid'
  BY <1>4, AnsweredKeeps
<1>5. ASSUME NEW r \in Runs, Refuse(r) \/ CallFails(r) \/ Persist(r) \/ PersistFails(r) \/ Kill(r)
      PROVE  Paid'
  BY <1>5, OthersLeave, LeavingKeeps
<1>6. CASE Serve
  BY <1>6, ElsewhereKeeps DEF Serve, evalVars, history
<1>7. CASE PostLabel
  BY <1>7, ElsewhereKeeps DEF PostLabel, evalVars, history
<1>8. CASE UNCHANGED vars
  BY <1>8, ElsewhereKeeps DEF vars, evalVars, worldVars, history
<1> QED
  BY <1>1, <1>2, <1>3, <1>4, <1>5, <1>6, <1>7, <1>8 DEF Next

\* The invariant says what NotPaidTwice does.
LEMMA PaidOnce ==
    ASSUME Paid
    PROVE  NotPaidTwice
<1>1. ASSUME NEW q \in Questions PROVE asked[q] <= 1 + lost[q]
  BY DEF Paid, Accounted, Typed
<1>2. ASSUME NEW r \in Runs, promised[r] < 0 PROVE Clashes(r)
  BY <1>2 DEF Paid, Budgeted, Covered, Typed
<1> QED
  BY <1>1, <1>2 DEF NotPaidTwice, Clashes, Own

\* "re-running an unchanged eval costs zero tokens": however runs of the same or
\* of different configs follow one another, are killed, fail or find the cache
\* locked, a question is asked again only for an answer that was not kept or was
\* displaced, and a run makes no more calls than --estimate counted unless two
\* of its own questions share a hash (judge.rs, JudgeCache; estimate_judges).
THEOREM NothingPaidTwice == Spec => []NotPaidTwice
<1>1. Init => Paid
  BY PaidInit
<1>2. Paid /\ [Next]_vars => Paid'
  BY PaidNext
<1>3. Paid => NotPaidTwice
  BY PaidOnce
<1> QED
  BY <1>1, <1>2, <1>3, PTL DEF Spec

\* A sequence has the members it has.
LEMMA SeqOfItsOwn ==
    ASSUME NEW E, NEW s \in Seq(E)
    PROVE  s \in Seq(ToSet(s)) /\ ToSet(s) \subseteq E /\ Len(s) \in Nat /\ DOMAIN s = 1 .. Len(s)
<1>1. /\ DOMAIN s = 1 .. Len(s) /\ Len(s) \in Nat /\ \A i \in 1 .. Len(s) : s[i] \in E
      /\ s = [i \in 1 .. Len(s) |-> s[i]]
  OBVIOUS
<1>2. \A i \in 1 .. Len(s) : s[i] \in ToSet(s)
  BY <1>1 DEF ToSet
<1>3. s \in [1 .. Len(s) -> ToSet(s)]
  BY <1>1, <1>2
<1>4. s \in Seq(ToSet(s))
  <2> DEFINE X == ToSet(s)
  <2> HIDE DEF X
  <2>1. s \in [1 .. Len(s) -> X]
    BY <1>3 DEF X
  <2>2. s \in Seq(X)
    BY <1>1, <2>1
  <2> QED
    BY <2>2 DEF X
<1> QED
  BY <1>1, <1>4 DEF ToSet

----------------------------------------------------------------------------
(***************************************************************************)
(* What a judge's score says.                                              *)
(***************************************************************************)

\* With the answers ans, a value is one of a question of a run's work, or the
\* failed 0 of a reply without a score; a score with the id of a judge's item
\* has such a value.
Answerable(ans, r, at, value) == \E v \in ans[QuestionAt(r, at)] : value = OrElse(v, 0)
JudgeAt(r, at) == JudgeName(Config(r).judges[at[1]])
Honest(ans, s) ==
    \A r \in Runs : \A at \in Work(Config(r)) :
        s.id = ItemId(r, JudgeAt(r, at), at[2]) => Answerable(ans, r, at, s.value)
AllHonest(ans, scores) == scores \in Seq(ToSet(scores)) /\ \A s \in ToSet(scores) : Honest(ans, s)

\* What was answered stays answered.
LEMMA HonestStays ==
    ASSUME NEW a, NEW b, \A q \in Questions : a[q] \subseteq b[q]
    PROVE  /\ \A r \in Runs : \A at \in Work(Config(r)) : \A value :
                  Answerable(a, r, at, value) => Answerable(b, r, at, value)
           /\ \A s : Honest(a, s) => Honest(b, s)
           /\ \A scores : AllHonest(a, scores) => AllHonest(b, scores)
<1>1. ASSUME NEW r \in Runs, NEW at \in Work(Config(r)), NEW value, Answerable(a, r, at, value)
      PROVE  Answerable(b, r, at, value)
  <2>1. QuestionAt(r, at) \in Questions
    BY WorkIsAsked
  <2> QED
    BY <1>1, <2>1 DEF Answerable
<1>2. ASSUME NEW s, Honest(a, s) PROVE Honest(b, s)
  BY <1>1, <1>2 DEF Honest
<1>3. ASSUME NEW scores, AllHonest(a, scores) PROVE AllHonest(b, scores)
  BY <1>2, <1>3 DEF AllHonest
<1> QED
  BY <1>1, <1>2, <1>3

\* The names of a config: its evaluators', then its judges'.
Named(r, names, m, n) ==
    /\ m \in Nat /\ DOMAIN Config(r).evaluators = 1 .. m
    /\ n \in Nat /\ DOMAIN Config(r).judges = 1 .. n
    /\ DOMAIN names = 1 .. m + n /\ Len(names) = m + n
    /\ \A e \in 1 .. m : names[e] = Config(r).evaluators[e].type
    /\ \A j \in 1 .. n : names[m + j] = JudgeName(Config(r).judges[j])

LEMMA NamesAre ==
    ASSUME NEW r \in Runs
    PROVE  Named(r, NamesOf(Config(r)), Len(Config(r).evaluators), Len(Config(r).judges))
<1> DEFINE names == NamesOf(Config(r))
           types == [k \in DOMAIN Config(r).evaluators |-> Config(r).evaluators[k].type]
           judges == [k \in DOMAIN Config(r).judges |-> JudgeName(Config(r).judges[k])]
           m == Len(Config(r).evaluators)
           n == Len(Config(r).judges)
           X == ToSet(types) \cup ToSet(judges)
<1>1. /\ m \in Nat /\ DOMAIN Config(r).evaluators = 1 .. m
      /\ n \in Nat /\ DOMAIN Config(r).judges = 1 .. n
  BY ConfigAssumption DEF Config
<1>2. types \in [1 .. m -> X] /\ judges \in [1 .. n -> X]
  BY <1>1 DEF ToSet
<1>3. types \in Seq(X) /\ judges \in Seq(X) /\ Len(types) = m /\ Len(judges) = n
  <2> HIDE DEF types, judges, X, m, n
  <2> QED
    BY <1>1, <1>2
<1>4. names = types \o judges
  BY DEF NamesOf
<1> HIDE DEF names, m, n, X
<1>5. /\ DOMAIN names = 1 .. m + n /\ Len(names) = m + n
      /\ \A e \in 1 .. m : names[e] = types[e]
      /\ \A j \in 1 .. n : names[m + j] = judges[j]
  <2> HIDE DEF types, judges
  <2>1. Len(types \o judges) = m + n /\ DOMAIN (types \o judges) = 1 .. m + n
    BY <1>1, <1>3
  <2>2. /\ \A e \in 1 .. m : (types \o judges)[e] = types[e]
        /\ \A j \in 1 .. n : (types \o judges)[m + j] = judges[j]
    BY <1>1, <1>3
  <2> QED
    BY <1>4, <2>1, <2>2
<1>6. /\ \A e \in 1 .. m : names[e] = Config(r).evaluators[e].type
      /\ \A j \in 1 .. n : names[m + j] = JudgeName(Config(r).judges[j])
  BY <1>1, <1>5
<1> QED
  BY <1>1, <1>5, <1>6 DEF Named, names, m, n

\* No two evaluators or judges of a config that was loaded share a name.
LEMMA NamesApart ==
    ASSUME NEW r \in Runs, Distinct(NamesOf(Config(r)))
    PROVE  /\ \A j, k \in DOMAIN Config(r).judges :
                  /\ JudgeName(Config(r).judges[j]) \in ToSet(NamesOf(Config(r)))
                  /\ JudgeName(Config(r).judges[j]) = JudgeName(Config(r).judges[k]) => j = k
           /\ \A e \in DOMAIN Config(r).evaluators : \A j \in DOMAIN Config(r).judges :
                  /\ Config(r).evaluators[e].type \in ToSet(NamesOf(Config(r)))
                  /\ Config(r).evaluators[e].type # JudgeName(Config(r).judges[j])
<1> DEFINE names == NamesOf(Config(r))
           m == Len(Config(r).evaluators)
           n == Len(Config(r).judges)
<1> HIDE DEF names, m, n
<1>1. Named(r, names, m, n)
  BY NamesAre DEF names, m, n
<1>2. \A i, j \in 1 .. m + n : i # j => names[i] # names[j]
  BY <1>1 DEF Distinct, names, Named
<1>3. \A i \in 1 .. m + n : names[i] \in ToSet(names)
  BY <1>1 DEF ToSet, Named
<1>4. /\ m \in Nat /\ n \in Nat
      /\ \A e \in 1 .. m : e \in 1 .. m + n /\ names[e] = Config(r).evaluators[e].type
      /\ \A j \in 1 .. n : m + j \in 1 .. m + n /\ names[m + j] = JudgeName(Config(r).judges[j])
  BY <1>1 DEF Named
<1>5. ASSUME NEW j \in 1 .. n, NEW k \in 1 .. n
      PROVE  /\ JudgeName(Config(r).judges[j]) \in ToSet(names)
             /\ JudgeName(Config(r).judges[j]) = JudgeName(Config(r).judges[k]) => j = k
  <2>1. j # k => m + j # m + k
    BY <1>4
  <2> QED
    BY <1>2, <1>3, <1>4, <2>1
<1>6. ASSUME NEW e \in 1 .. m, NEW j \in 1 .. n
       PROVE  /\ Config(r).evaluators[e].type \in ToSet(names)
              /\ Config(r).evaluators[e].type # JudgeName(Config(r).judges[j])
  <2>1. e # m + j
    BY <1>4
  <2> QED
    BY <1>2, <1>3, <1>4, <2>1
<1> QED
  BY <1>1, <1>5, <1>6 DEF names, Named

----------------------------------------------------------------------------
(***************************************************************************)
(* What finalize_evaluator makes of outcomes.                              *)
(***************************************************************************)

\* Only items that were scored get a score of their own.
Scored(outcomes, n) == {i \in 1 .. n : outcomes[i] # None}
AttachedOf(outcomes, items) == FoldLeftDomain(LAMBDA got1, i : got1 \o AttachedAt(outcomes, items, i), <<>>, items)

LEMMA AttachedAreScored ==
    ASSUME NEW n \in Nat, NEW items, DOMAIN items = 1 .. n, NEW outcomes
    PROVE  AttachedOf(outcomes, items) \in Seq(Scored(outcomes, n))
<1> DEFINE E == Scored(outcomes, n)
           piece == [i \in 1 .. n |-> AttachedAt(outcomes, items, i)]
           at == [i \in DOMAIN items |-> i]
           Recurs(it) == it = [T \in SUBSET (DOMAIN at) |->
                              IF T = {} THEN <<>> ELSE it[T \ {Max(T)}] \o AttachedAt(outcomes, items, at[Max(T)])]
           fold == CHOOSE it : Recurs(it)
<1>1. piece \in [1 .. n -> Seq(E)]
  <2>1. ASSUME NEW i \in 1 .. n PROVE AttachedAt(outcomes, items, i) \in Seq(E)
    <3>1. <<>> \in Seq(E) /\ (i \in E => <<i>> \in Seq(E))
      OBVIOUS
    <3>2. outcomes[i] # None => i \in E
      BY DEF Scored
    <3> QED
      BY <3>1, <3>2 DEF AttachedAt
  <2> QED
    BY <2>1
<1>2. \A T \in SUBSET (1 .. n) : T # {} => Max(T) \in 1 .. n
  BY MaxOfIndices
<1>3. ASSUME NEW it PROVE Recurs(it) <=> Concatenates(it, n, piece)
  <2>1. DOMAIN at = 1 .. n /\ \A i \in 1 .. n : at[i] = i
    OBVIOUS
  <2>2. \A T \in SUBSET (1 .. n) : T # {} => piece[Max(T)] = AttachedAt(outcomes, items, at[Max(T)])
    BY <1>2, <2>1
  <2> HIDE DEF piece, at
  <2> QED
    BY <2>1, <2>2 DEF Concatenates
<1>4. AttachedOf(outcomes, items) = fold[1 .. n]
  <2>1. DOMAIN at = 1 .. n
    OBVIOUS
  <2> QED
    BY <2>1 DEF AttachedOf, FoldLeftDomain, FoldLeft, MapThenFoldSet
<1>5. \E it : Concatenates(it, n, piece)
  <2> HIDE DEF piece, E
  <2> QED
    BY <1>1, ConcatenationExists
<1>6. Concatenates(fold, n, piece)
  <2>1. Recurs(fold)
    <3> HIDE DEF piece, at
    <3>1. PICK it : Recurs(it)
      BY <1>3, <1>5
    <3> QED
      BY <3>1
  <2> HIDE DEF Recurs, fold, piece
  <2> QED
    BY <1>3, <2>1
<1>7. fold[1 .. n] \in Seq(E)
  <2> HIDE DEF fold, piece, E
  <2> QED
    BY <1>1, <1>6, ConcatenationIsSeq
<1> QED
  BY <1>4, <1>7

\* The scores of an evaluator or judge: of its items, by their outcomes, and
\* the aggregate.
ScoreOf(s, run, name, outcomes, n) ==
    \/ \E k \in Scored(outcomes, n) : s.id = ItemId(run, name, k) /\ s.value = outcomes[k].value
    \/ s.id = AggregateId(run, name) /\ s.stats = StatsOf(outcomes)

LEMMA FinalizeGives ==
    ASSUME NEW n \in Nat, NEW items, DOMAIN items = 1 .. n, NEW outcomes, NEW name, NEW run,
           NEW threshold, NEW ts,
           NEW scores, scores = Finalize(name, outcomes, items, run, threshold, ts).scores
    PROVE  /\ scores \in Seq(ToSet(scores)) /\ \A s \in ToSet(scores) : ScoreOf(s, run, name, outcomes, n)
           /\ \E s \in ToSet(scores) : s.id = AggregateId(run, name)
<1> DEFINE attached == AttachedOf(outcomes, items)
           Of(k) == [id |-> ItemId(run, name, k), target |-> TargetFor(items[k], run),
                     name |-> name, value |-> outcomes[k].value, type |-> "numeric",
                     source |-> "eval", stats |-> None, ts |-> ts]
           stats == StatsOf(outcomes)
           agg == [id |-> AggregateId(run, name), target |-> <<"run", run>>, name |-> name,
                   value |-> stats.sum, type |-> "numeric", source |-> "eval",
                   stats |-> stats, ts |-> ts]
           each == [k \in DOMAIN attached |-> Of(attached[k])]
           Mine == {Of(k) : k \in Scored(outcomes, n)}
           All == Mine \cup {agg}
<1>1. attached \in Seq(Scored(outcomes, n))
  BY AttachedAreScored
<1>2. ItemScores(name, outcomes, items, run, ts) = each
  BY DEF ItemScores, AttachedOf
<1>3. each \in Seq(All)
  <2>1. PICK m \in Nat : attached \in [1 .. m -> Scored(outcomes, n)]
    <3> HIDE DEF attached
    <3> QED
      BY <1>1
  <2>2. each \in [1 .. m -> All]
    <3> HIDE DEF attached, Of, agg
    <3> QED
      BY <2>1
  <2> HIDE DEF each, All
  <2> QED
    BY <2>1, <2>2
<1>4. scores = Append(each, agg)
  BY <1>2 DEF Finalize
<1>5. \A s \in All : ScoreOf(s, run, name, outcomes, n)
  BY DEF ScoreOf
<1>6. agg \in All
  OBVIOUS
<1> HIDE DEF each, agg, All
<1>7. scores \in Seq(All)
  BY <1>3, <1>4, <1>6
<1>8. DOMAIN scores = 1 .. Len(scores) /\ Len(scores) \in Nat /\ \A i \in 1 .. Len(scores) : scores[i] \in All
  BY <1>7
<1>9. scores \in [1 .. Len(scores) -> ToSet(scores)] /\ ToSet(scores) \subseteq All
  <2>1. scores = [i \in 1 .. Len(scores) |-> scores[i]]
    BY <1>7
  <2>2. \A i \in 1 .. Len(scores) : scores[i] \in ToSet(scores)
    BY <1>8 DEF ToSet
  <2>3. ToSet(scores) \subseteq All
    BY <1>8 DEF ToSet
  <2> QED
    BY <2>1, <2>2, <2>3
<1>10. agg \in ToSet(scores) /\ agg.id = AggregateId(run, name)
  <2>1. Len(scores) \in 1 .. Len(scores) /\ scores[Len(scores)] = agg
    BY <1>3, <1>4, <1>6
  <2> QED
    BY <1>8, <2>1 DEF ToSet, agg
<1> QED
  BY <1>5, <1>8, <1>9, <1>10

\* A judge's scores are honest when its outcomes were.
LEMMA JudgeIsHonest ==
    ASSUME AggIsFree, NEW ans, NEW r \in Runs, Distinct(NamesOf(Config(r))), NEW j \in DOMAIN Config(r).judges,
           NEW s, NEW outcomes, NEW n, n = Len(Config(r).items),
           ScoreOf(s, r, JudgeName(Config(r).judges[j]), outcomes, n),
           \A i \in Scored(outcomes, n) : Answerable(ans, r, <<j, i>>, outcomes[i].value)
    PROVE  Honest(ans, s)
<1> DEFINE name == JudgeName(Config(r).judges[j])
<1>0. DOMAIN Config(r).items = 1 .. n /\ name \in ToSet(NamesOf(Config(r)))
  BY WorkIsFinite, NamesApart
<1> SUFFICES ASSUME NEW q \in Runs, NEW at \in Work(Config(q)), s.id = ItemId(q, JudgeAt(q, at), at[2])
             PROVE  Answerable(ans, q, at, s.value)
  BY DEF Honest
<1>1. at = <<at[1], at[2]>> /\ at[1] \in DOMAIN Config(q).judges /\ at[2] \in DOMAIN Config(q).items
  BY DEF Work
<1>2. CASE s.id = AggregateId(r, name)
  <2>1. q = r /\ JudgeAt(q, at) = "agg" /\ ToString(at[2]) = name
    BY <1>2 DEF AggregateId, ItemId
  <2>2. at[1] \in DOMAIN Config(r).judges /\ at[2] \in DOMAIN Config(r).items
    BY <1>1, <2>1
  <2>3. "agg" \in ToSet(NamesOf(Config(r)))
    BY <2>1, <2>2, NamesApart DEF JudgeAt
  <2> QED
    BY <1>0, <2>1, <2>2, <2>3 DEF AggIsFree
<1>3. ASSUME NEW k \in Scored(outcomes, n), s.id = ItemId(r, name, k), s.value = outcomes[k].value
      PROVE  Answerable(ans, q, at, s.value)
  <2>1. q = r /\ JudgeAt(q, at) = name /\ ToString(at[2]) = ToString(k)
    BY <1>3 DEF ItemId
  <2>2. at[1] = j
    BY <1>1, <2>1, NamesApart DEF JudgeAt
  <2>3. at[2] = k
    BY <1>0, <1>1, <1>3, <2>1, IdAssumption DEF Scored, Config
  <2> QED
    BY <1>1, <1>3, <2>1, <2>2, <2>3
<1> QED
  BY <1>2, <1>3 DEF ScoreOf

\* An evaluator's have no judge's name.
LEMMA EvaluatorIsHonest ==
    ASSUME AggIsFree, NEW ans, NEW r \in Runs, Distinct(NamesOf(Config(r))), NEW e \in DOMAIN Config(r).evaluators,
           NEW s, NEW outcomes, NEW n, ScoreOf(s, r, Config(r).evaluators[e].type, outcomes, n)
    PROVE  Honest(ans, s)
<1> DEFINE name == Config(r).evaluators[e].type
<1> SUFFICES ASSUME NEW q \in Runs, NEW at \in Work(Config(q)), s.id = ItemId(q, JudgeAt(q, at), at[2])
             PROVE  FALSE
  BY DEF Honest
<1>1. at[1] \in DOMAIN Config(q).judges /\ at[2] \in DOMAIN Config(q).items
  BY DEF Work
<1>2. s.id = AggregateId(r, name) \/ \E k : s.id = ItemId(r, name, k)
  BY DEF ScoreOf
<1>3. q = r
  BY <1>2 DEF AggregateId, ItemId
<1>4. name # JudgeAt(q, at) /\ name \in ToSet(NamesOf(Config(r)))
  BY <1>1, <1>3, NamesApart DEF JudgeAt
<1>5. CASE s.id = AggregateId(r, name)
  <2>1. JudgeAt(q, at) = "agg" /\ ToString(at[2]) = name
    BY <1>5 DEF AggregateId, ItemId
  <2> QED
    BY <1>1, <1>3, <1>4, <2>1, NamesApart DEF AggIsFree, JudgeAt
<1>6. CASE \E k : s.id = ItemId(r, name, k)
  BY <1>4, <1>6 DEF ItemId
<1> QED
  BY <1>2, <1>5, <1>6

----------------------------------------------------------------------------
(***************************************************************************)
(* Batches.                                                                *)
(***************************************************************************)

\* A concatenation has what its pieces have.
Joined(piece) == FoldLeft(LAMBDA a, b : a \o b, <<>>, piece)

LEMMA JoinedIs ==
    ASSUME NEW n \in Nat, NEW E, NEW piece \in [1 .. n -> Seq(E)]
    PROVE  Joined(piece) \in Seq(E) /\ \A k \in 1 .. n : ToSet(piece[k]) \subseteq ToSet(Joined(piece))
<1> DEFINE Recurs(it) == it = [T \in SUBSET (DOMAIN piece) |->
                              IF T = {} THEN <<>> ELSE it[T \ {Max(T)}] \o piece[Max(T)]]
           fold == CHOOSE it : Recurs(it)
<1>1. ASSUME NEW it PROVE Recurs(it) <=> Concatenates(it, n, piece)
  BY DEF Concatenates
<1>2. Joined(piece) = fold[1 .. n]
  BY DEF Joined, FoldLeft, MapThenFoldSet
<1>3. \E it : Concatenates(it, n, piece)
  BY ConcatenationExists
<1>4. Concatenates(fold, n, piece)
  <2>1. Recurs(fold)
    <3>1. PICK it : Recurs(it)
      BY <1>1, <1>3
    <3> QED
      BY <3>1
  <2> HIDE DEF Recurs, fold
  <2> QED
    BY <1>1, <2>1
<1> HIDE DEF fold
<1>5. fold[1 .. n] \in Seq(E)
  BY <1>4, ConcatenationIsSeq
<1>6. \A k \in 1 .. n : ToSet(piece[k]) \subseteq ToSet(fold[1 .. n])
  BY <1>4, ConcatenationHas
<1> QED
  BY <1>2, <1>5, <1>6

\* What a run hands to the store is honest when each evaluator's part is.
ResultsHonest(ans, res) == res \in Seq(ToSet(res)) /\ \A x \in ToSet(res) : AllHonest(ans, x.scores)

LEMMA AllScoresHonest ==
    ASSUME NEW ans, NEW r, ResultsHonest(ans, results[r])
    PROVE  AllHonest(ans, AllScores(r))
<1> DEFINE res == results[r]
           parts == [k \in DOMAIN res |-> res[k].scores]
           E == UNION {ToSet(x.scores) : x \in ToSet(res)}
<1>1. /\ Len(res) \in Nat /\ DOMAIN res = 1 .. Len(res)
      /\ \A k \in 1 .. Len(res) : res[k] \in ToSet(res)
  BY DEF ResultsHonest, ToSet
<1>2. \A x \in ToSet(res) : x.scores \in Seq(ToSet(x.scores)) /\ \A s \in ToSet(x.scores) : Honest(ans, s)
  BY DEF ResultsHonest, AllHonest
<1>3. \A s \in E : Honest(ans, s)
  BY <1>2
<1>4. parts \in [1 .. Len(res) -> Seq(E)]
  <2>1. ASSUME NEW k \in 1 .. Len(res) PROVE res[k].scores \in Seq(E)
    <3> DEFINE x == res[k]
    <3>1. x \in ToSet(res) /\ x.scores \in Seq(ToSet(x.scores)) /\ ToSet(x.scores) \subseteq E
      BY <1>1, <1>2
    <3> HIDE DEF E, x
    <3>2. x.scores \in Seq(E)
      BY <3>1
    <3> QED
      BY <3>2 DEF x
  <2> QED
    BY <1>1, <2>1
<1>5. AllScores(r) = Joined(parts)
  BY DEF AllScores, Joined
<1> HIDE DEF E, parts, res
<1>6. AllScores(r) \in Seq(E)
  BY <1>1, <1>4, <1>5, JoinedIs
<1>7. AllScores(r) \in Seq(ToSet(AllScores(r))) /\ ToSet(AllScores(r)) \subseteq E
  BY <1>6, SeqOfItsOwn
<1> QED
  BY <1>3, <1>7 DEF AllHonest

\* The rows of the score tables, each under its id.
IsDb(d) ==
    /\ d = [rows |-> d.rows, byTarget |-> d.byTarget]
    /\ d.rows = [id \in DOMAIN d.rows |-> d.rows[id]]
    /\ \A id \in DOMAIN d.rows : d.rows[id].id = id
RowsOf(d) == {d.rows[id] : id \in DOMAIN d.rows}
Dbs(S, T) ==
    {d \in [rows : UNION {[D -> S] : D \in SUBSET {s.id : s \in S}}, byTarget : SUBSET T] : IsDb(d)}

LEMMA DbsAre ==
    ASSUME NEW S, NEW T, NEW d
    PROVE  d \in Dbs(S, T) <=> IsDb(d) /\ RowsOf(d) \subseteq S /\ d.byTarget \subseteq T
<1>1. ASSUME d \in Dbs(S, T) PROVE IsDb(d) /\ RowsOf(d) \subseteq S /\ d.byTarget \subseteq T
  <2>1. IsDb(d) /\ d.rows \in UNION {[D -> S] : D \in SUBSET {s.id : s \in S}} /\ d.byTarget \in SUBSET T
    BY <1>1 DEF Dbs
  <2>2. PICK D : d.rows \in [D -> S]
    BY <2>1
  <2> QED
    BY <2>1, <2>2 DEF RowsOf
<1>2. ASSUME IsDb(d), RowsOf(d) \subseteq S, d.byTarget \subseteq T PROVE d \in Dbs(S, T)
  <2> DEFINE D == DOMAIN d.rows
  <2>1. \A id \in D : d.rows[id] \in S /\ d.rows[id].id = id
    BY <1>2 DEF IsDb, RowsOf
  <2>2. D \in SUBSET {s.id : s \in S}
    BY <2>1
  <2>3. d.rows \in [D -> S]
    BY <1>2, <2>1 DEF IsDb
  <2>4. d.rows \in UNION {[X -> S] : X \in SUBSET {s.id : s \in S}}
    BY <2>2, <2>3
  <2>5. d = [rows |-> d.rows, byTarget |-> d.byTarget]
    BY <1>2 DEF IsDb
  <2> QED
    BY <1>2, <2>4, <2>5 DEF Dbs
<1> QED
  BY <1>1, <1>2

LEMMA PutOneStays ==
    ASSUME NEW S, NEW T, NEW d \in Dbs(S, T), NEW s \in S, <<s.target, s.id>> \in T
    PROVE  PutOne(d, s) \in Dbs(S, T)
<1> DEFINE moved == s.id \in DOMAIN d.rows /\ d.rows[s.id].target # s.target
           stale == IF moved THEN {<<d.rows[s.id].target, s.id>>} ELSE {}
           rows == Bind(d.rows, s.id, s)
           tab == (d.byTarget \ stale) \cup {<<s.target, s.id>>}
           e == PutOne(d, s)
<1>1. IsDb(d) /\ RowsOf(d) \subseteq S /\ d.byTarget \subseteq T
  BY DbsAre
<1>2. e = [rows |-> rows, byTarget |-> tab]
  BY DEF PutOne
<1>3. rows = [x \in DOMAIN d.rows \cup {s.id} |-> IF x = s.id THEN s ELSE d.rows[x]]
  BY DEF Bind
<1>4. tab \subseteq T
  BY <1>1
<1> HIDE DEF rows, tab, e
<1>5. e.rows = rows /\ e.byTarget = tab
  BY <1>2
<1>6. IsDb(e)
  <2>1. rows = [x \in DOMAIN rows |-> rows[x]]
    BY <1>3
  <2>2. \A id \in DOMAIN rows : rows[id].id = id
    BY <1>1, <1>3 DEF IsDb
  <2> QED
    BY <1>2, <1>5, <2>1, <2>2 DEF IsDb
<1>7. RowsOf(e) \subseteq S
  BY <1>1, <1>3, <1>5 DEF RowsOf
<1> QED
  BY <1>4, <1>5, <1>6, <1>7, DbsAre DEF e

\* A batch of puts takes them in turn, and stays where each of them does.
PutsThrough(g, n, Y, d, scores) ==
    /\ g \in [0 .. n -> Y] /\ g[0] = d /\ g[n] = PutBatch(d, scores)
    /\ \A i \in 1 .. n : g[i] = PutOne(g[i - 1], scores[i])

LEMMA PutBatchRuns ==
    ASSUME NEW Y, NEW d \in Y, NEW n \in Nat, NEW scores, DOMAIN scores = 1 .. n,
           \A e \in Y : \A i \in 1 .. n : PutOne(e, scores[i]) \in Y
    PROVE  \E g : PutsThrough(g, n, Y, d, scores)
<1> DEFINE step == [i \in 1 .. n |-> [e \in Y |-> PutOne(e, scores[i])]]
           Recurs(it) == it = [T \in SUBSET (DOMAIN scores) |->
                                 IF T = {} THEN d ELSE PutOne(it[T \ {Max(T)}], scores[Max(T)])]
           fold == CHOOSE it : Recurs(it)
<1>1. step \in [1 .. n -> [Y -> Y]]
  OBVIOUS
<1>2. PICK it \in [SUBSET (1 .. n) -> Y] : FoldEquation(it, n, d, step)
  <2> HIDE DEF step
  <2> QED
    BY <1>1, FoldLeftExists
<1>3. \A T \in SUBSET (1 .. n) : T # {} => Max(T) \in 1 .. n /\ T \ {Max(T)} \in SUBSET (1 .. n)
  BY MaxOfIndices
<1>4. Recurs(it)
  BY <1>2, <1>3 DEF FoldEquation
<1>5. Recurs(fold)
  BY <1>4
<1>6. PutBatch(d, scores) = fold[1 .. n]
  BY DEF PutBatch, FoldLeft, MapThenFoldSet
<1>7. FollowsFold(fold, n, Y, d, step)
  <2> HIDE DEF fold
  <2> QED
    BY <1>3, <1>5 DEF FollowsFold
<1>8. \A i \in 1 .. n : \A e \in Y : step[i][e] = PutOne(e, scores[i])
  OBVIOUS
<1> HIDE DEF fold, Recurs, step
<1>9. \E g : RunsThrough(g, n, Y, d, step) /\ fold[1 .. n] = g[n]
  BY <1>1, <1>7, FoldRun
<1>10. PICK g : RunsThrough(g, n, Y, d, step) /\ fold[1 .. n] = g[n]
  BY <1>9
<1>11. g \in [0 .. n -> Y] /\ g[0] = d /\ g[n] = PutBatch(d, scores)
  BY <1>6, <1>10 DEF RunsThrough
<1>12. ASSUME NEW i \in 1 .. n PROVE g[i] = PutOne(g[i - 1], scores[i])
  <2>1. i - 1 \in 0 .. n /\ g[i] = step[i][g[i - 1]]
    BY <1>10 DEF RunsThrough
  <2>2. g[i - 1] \in Y
    BY ONLY i \in 1 .. n, <1>11, <2>1
  <2> QED
    BY <1>8, <2>1, <2>2
<1>13. PutsThrough(g, n, Y, d, scores)
  BY <1>11, <1>12 DEF PutsThrough
<1> QED
  BY <1>13

\* So the tables hold what they held and what was put, under their ids.
LEMMA PutBatchIs ==
    ASSUME NEW d, IsDb(d), NEW scores, scores \in Seq(ToSet(scores)),
           NEW e, e = PutBatch(d, scores)
    PROVE  /\ IsDb(e) /\ RowsOf(e) \subseteq RowsOf(d) \cup ToSet(scores)
           /\ DOMAIN e.rows = DOMAIN d.rows \cup {s.id : s \in ToSet(scores)}
<1> DEFINE S == RowsOf(d) \cup ToSet(scores)
           T == d.byTarget \cup {<<s.target, s.id>> : s \in ToSet(scores)}
           n == Len(scores)
           Y == Dbs(S, T)
<1>1. /\ n \in Nat /\ DOMAIN scores = 1 .. n
      /\ ToSet(scores) = {scores[i] : i \in 1 .. n}
  BY DEF ToSet
<1>2. d \in Y
  <2>1. RowsOf(d) \subseteq S /\ d.byTarget \subseteq T
    OBVIOUS
  <2> HIDE DEF S, T
  <2> QED
    BY <2>1, DbsAre
<1>3. \A i \in 1 .. n : scores[i] \in S /\ <<scores[i].target, scores[i].id>> \in T
  BY <1>1
<1> HIDE DEF S, T, n
<1>4. \A x \in Y : \A i \in 1 .. n : PutOne(x, scores[i]) \in Y
  BY <1>3, PutOneStays
<1> HIDE DEF Y
<1>5. \E g : PutsThrough(g, n, Y, d, scores)
  BY <1>1, <1>2, <1>4, PutBatchRuns
<1>6. PICK g : PutsThrough(g, n, Y, d, scores)
  BY <1>5
<1>7. n \in 0 .. n /\ e \in Y /\ e = g[n]
  BY <1>1, <1>6 DEF PutsThrough
<1>8. IsDb(e) /\ RowsOf(e) \subseteq S
  BY <1>7, DbsAre DEF Y
<1> DEFINE Put(i) == {scores[k].id : k \in 1 .. i}
           G == {i \in 0 .. n : DOMAIN g[i].rows = DOMAIN d.rows \cup Put(i)}
<1>9. 0 \in G
  <2>1. Put(0) = {} /\ g[0] = d
    BY <1>6 DEF PutsThrough
  <2> HIDE DEF Put
  <2> QED
    BY <1>1, <2>1
<1>10. ASSUME NEW i \in 1 .. n, i - 1 \in G PROVE i \in G
  <2>1. g[i] = PutOne(g[i - 1], scores[i])
    BY <1>6 DEF PutsThrough
  <2>2. DOMAIN g[i].rows = DOMAIN g[i - 1].rows \cup {scores[i].id}
    BY <2>1 DEF PutOne, Bind
  <2>3. Put(i) = Put(i - 1) \cup {scores[i].id}
    <3>1. \A k : k \in 1 .. i <=> k \in 1 .. i - 1 \/ k = i
      BY <1>1
    <3> QED
      BY <3>1
  <2> HIDE DEF Put
  <2> QED
    BY <1>1, <1>10, <2>2, <2>3
<1>11. 0 .. n \subseteq G
  <2> HIDE DEF G
  <2> QED
    BY <1>1, <1>9, <1>10, IntervalInduction
<1>12. DOMAIN e.rows = DOMAIN d.rows \cup Put(n)
  <2> HIDE DEF Put
  <2> QED
    BY <1>7, <1>11
<1>13. Put(n) = {s.id : s \in ToSet(scores)}
  BY <1>1
<1> QED
  BY <1>8, <1>12, <1>13 DEF S

HonestDb(ans, d) == IsDb(d) /\ \A s \in RowsOf(d) : Honest(ans, s)

LEMMA PutBatchHonest ==
    ASSUME NEW ans, NEW d, HonestDb(ans, d), NEW scores, AllHonest(ans, scores)
    PROVE  HonestDb(ans, PutBatch(d, scores))
<1>1. IsDb(d) /\ scores \in Seq(ToSet(scores))
  BY DEF HonestDb, AllHonest
<1>2. IsDb(PutBatch(d, scores)) /\ RowsOf(PutBatch(d, scores)) \subseteq RowsOf(d) \cup ToSet(scores)
  BY <1>1, PutBatchIs
<1> QED
  BY <1>2 DEF HonestDb, AllHonest

\* What is not a run's is no judge's.
LEMMA OthersAreHonest ==
    ASSUME NEW ans, NEW s, s.id[1] \notin Runs
    PROVE  Honest(ans, s)
BY DEF Honest, ItemId

----------------------------------------------------------------------------
(***************************************************************************)
(* The invariant: what the cache holds, what a run has of its judges and   *)
(* what is stored of them are answers to the questions they stand for.     *)
(***************************************************************************)

CacheHonest == \A q \in Questions : Holds(q) => cache[HashOf(Own(q))].value \in answers[q]

\* The outcomes of the j-th judge before its i-th item.
OutcomesHonest(ans, r, j, i, outcomes) ==
    /\ outcomes = [k \in 1 .. i - 1 |-> outcomes[k]]
    /\ \A k \in 1 .. i - 1 : outcomes[k] # None => Answerable(ans, r, <<j, k>>, outcomes[k].value)

RunHonest(r) ==
    /\ pc[r] \in {"idle", "opening"} => got[r] = <<>>
    /\ pc[r] \in {"opening", "judging"} => Distinct(NamesOf(Config(r)))
    /\ pc[r] = "judging" => OutcomesHonest(answers, r, judge[r], item[r], got[r])
    /\ pc[r] \in {"opening", "judging", "storing"} => ResultsHonest(answers, results[r])

Tables == DOMAIN got = Runs /\ DOMAIN results = Runs /\ DOMAIN answers = Questions

Judged == Tables /\ CacheHonest /\ (\A r \in Runs : RunHonest(r)) /\ HonestDb(answers, db)

\* Answers are never taken back.
Grown == \A q \in Questions : answers[q] \subseteq answers'[q]

LEMMA JudgedShows ==
    ASSUME Judged
    PROVE  JudgedByOwnAnswer
<1> SUFFICES ASSUME NEW r \in Ended, NEW j \in DOMAIN Config(r).judges, NEW i \in DOMAIN Config(r).items,
                    ItemId(r, JudgeName(Config(r).judges[j]), i) \in DOMAIN db.rows
             PROVE  \E v \in answers[Question(Config(r).judges[j], Config(r).items[i])] :
                        db.rows[ItemId(r, JudgeName(Config(r).judges[j]), i)].value = OrElse(v, 0)
  BY DEF JudgedByOwnAnswer
<1> DEFINE id == ItemId(r, JudgeName(Config(r).judges[j]), i)
           s == db.rows[id]
           at == <<j, i>>
<1>1. r \in Runs /\ at \in Work(Config(r)) /\ at[1] = j /\ at[2] = i
  BY DEF Ended, Work
<1>2. s.id = id /\ Honest(answers, s)
  BY DEF Judged, HonestDb, IsDb, RowsOf
<1>3. id = ItemId(r, JudgeAt(r, at), at[2])
  BY <1>1 DEF JudgeAt
<1> HIDE DEF s, at, id
<1>4. Answerable(answers, r, at, s.value)
  BY <1>1, <1>2, <1>3 DEF Honest
<1> QED
  BY <1>1, <1>4 DEF Answerable, QuestionAt, s, id

\* A run that stays where it is, or ends, keeps what it has.
LEMMA RunStays ==
    ASSUME NEW r \in Runs, RunHonest(r), Grown, pc'[r] = pc[r] \/ pc'[r] \in {"done", "failed", "dead"},
           judge'[r] = judge[r], item'[r] = item[r], got'[r] = got[r], results'[r] = results[r],
           pc[r] = "judging" => At(r) \in Work(Config(r))
    PROVE  RunHonest(r)'
<1>1. CASE pc'[r] \in {"done", "failed", "dead"}
  BY <1>1 DEF RunHonest
<1>2. CASE pc'[r] = pc[r]
  <2>1. ResultsHonest(answers, results[r]) => ResultsHonest(answers', results'[r])
    BY HonestStays DEF ResultsHonest, Grown
  <2>2. ASSUME pc[r] = "judging" PROVE OutcomesHonest(answers', r, judge'[r], item'[r], got'[r])
    <3>1. OutcomesHonest(answers, r, judge[r], item[r], got[r])
      BY <2>2 DEF RunHonest
    <3>2. \A k \in 1 .. item[r] - 1 : <<judge[r], k>> \in Work(Config(r))
      <4>1. /\ judge[r] \in DOMAIN Config(r).judges /\ item[r] \in DOMAIN Config(r).items
            /\ DOMAIN Config(r).items = 1 .. Len(Config(r).items) /\ Len(Config(r).items) \in Nat
        BY <2>2, WorkIsFinite DEF At, Work
      <4>2. \A k \in 1 .. item[r] - 1 : k \in DOMAIN Config(r).items
        BY <4>1
      <4> QED
        BY <4>1, <4>2 DEF Work
    <3>3. \A k \in 1 .. item[r] - 1 : \A value :
              Answerable(answers, r, <<judge[r], k>>, value) => Answerable(answers', r, <<judge[r], k>>, value)
      BY <3>2, HonestStays DEF Grown
    <3> QED
      BY <3>1, <3>3 DEF OutcomesHonest
  <2>3. Distinct(NamesOf(Config(r)))' <=> Distinct(NamesOf(Config(r)))
    BY DEF Distinct, NamesOf, Config
  <2> QED
    BY <1>2, <2>1, <2>2, <2>3 DEF RunHonest
<1> QED
  BY <1>1, <1>2

\* A step after which every run stays or has ended.
LEMMA QuietKeeps ==
    ASSUME Paid, Judged, UNCHANGED <<judge, item, got, results, answers, cache>>, HonestDb(answers, db'),
           \A r \in Runs : pc'[r] = pc[r] \/ pc'[r] \in {"done", "failed", "dead"}
    PROVE  Judged'
<1>1. Grown /\ Tables' /\ HonestDb(answers', db')
  BY DEF Grown, Judged, Tables
<1>2. CacheHonest'
  <2>1. \A q : (Holds(q)' <=> Holds(q)) /\ Own(q)' = Own(q)
    BY CacheUntouched DEF Own, Canon
  <2>2. \A q \in Questions : Holds(q)' => cache'[HashOf(Own(q))].value \in answers'[q]
    BY <2>1 DEF Judged, CacheHonest
  <2> QED
    BY <2>1, <2>2 DEF CacheHonest
<1>3. ASSUME NEW r \in Runs PROVE RunHonest(r)'
  <2>1. RunHonest(r) /\ (pc[r] = "judging" => At(r) \in Work(Config(r)))
    BY DEF Judged, Paid, Placed
  <2> QED
    BY <1>1, <2>1, RunStays
<1> QED
  BY <1>1, <1>2, <1>3 DEF Judged

\* A run ends with a phase of its own.
LEMMA EndsQuietly ==
    ASSUME Paid, NEW r \in Runs, NEW phase \in {"done", "failed", "dead"}, pc' = [pc EXCEPT ![r] = phase]
    PROVE  \A s \in Runs : pc'[s] = pc[s] \/ pc'[s] \in {"done", "failed", "dead"}
BY DEF Paid, Typed

LEMMA Tier1Honest ==
    ASSUME AggIsFree, NEW ans, NEW r \in Runs, Distinct(NamesOf(Config(r))), NEW ts
    PROVE  ResultsHonest(ans, Tier1(Config(r), Config(r).items, r, ts))
<1> DEFINE config == Config(r)
           m == Len(config.evaluators)
           n == Len(config.items)
           Outcomes(k) == [i \in DOMAIN config.items |-> Evaluate(config.evaluators[k], config.items[i])]
           Result(k) == Finalize(config.evaluators[k].type, Outcomes(k), config.items, r,
                                 ThresholdFor(config.thresholds, config.evaluators[k].type), ts)
           res == Tier1(config, config.items, r, ts)
<1>1. /\ m \in Nat /\ DOMAIN config.evaluators = 1 .. m
      /\ n \in Nat /\ DOMAIN config.items = 1 .. n
  BY ConfigAssumption DEF Config
<1>2. res = [k \in 1 .. m |-> Result(k)]
  BY <1>1 DEF Tier1
<1>3. ASSUME NEW k \in 1 .. m PROVE AllHonest(ans, Result(k).scores)
  <2> DEFINE scores == Result(k).scores
  <2>1. /\ scores \in Seq(ToSet(scores))
        /\ \A s \in ToSet(scores) : ScoreOf(s, r, config.evaluators[k].type, Outcomes(k), n)
    <3> HIDE DEF Outcomes, n
    <3> QED
      BY <1>1, FinalizeGives
  <2> HIDE DEF scores, Outcomes
  <2>2. \A s \in ToSet(scores) : Honest(ans, s)
    BY <1>1, <2>1, EvaluatorIsHonest
  <2> QED
    BY <2>1, <2>2 DEF AllHonest, scores
<1> HIDE DEF Result, res, m
<1>4. res \in Seq({Result(k) : k \in 1 .. m})
  BY <1>1, <1>2
<1>5. res \in Seq(ToSet(res)) /\ ToSet(res) \subseteq {Result(k) : k \in 1 .. m}
  BY <1>4, SeqOfItsOwn
<1>6. \A x \in ToSet(res) : AllHonest(ans, x.scores)
  BY <1>3, <1>5
<1> QED
  BY <1>5, <1>6 DEF ResultsHonest, res

LEMMA BeginJudges ==
    ASSUME AggIsFree, Paid, Judged, NEW r \in Runs, Begin(r)
    PROVE  Judged'
<1>1. UNCHANGED <<judge, item, got, answers, cache, db>> /\ pc[r] = "idle"
  BY DEF Begin, history
<1>2. HonestDb(answers, db')
  BY <1>1 DEF Judged
<1>3. CASE ~Loads(Config(r))
  <2>1. pc' = [pc EXCEPT ![r] = "failed"] /\ UNCHANGED results
    BY <1>3 DEF Begin, Fails
  <2> QED
    BY <1>1, <1>2, <2>1, EndsQuietly, QuietKeeps
<1>4. CASE Loads(Config(r))
  <2>1. /\ results' = [results EXCEPT ![r] = Tier1(Config(r), Config(r).items, r, clock + 1)]
        /\ \E phase \in {"storing", "opening"} : pc' = [pc EXCEPT ![r] = phase]
    BY <1>4 DEF Begin
  <2>2. PICK phase \in {"storing", "opening"} : pc' = [pc EXCEPT ![r] = phase]
    BY <2>1
  <2>3. /\ pc'[r] \in {"storing", "opening"} /\ \A s \in Runs \ {r} : pc'[s] = pc[s]
        /\ results'[r] = Tier1(Config(r), Config(r).items, r, clock + 1)
        /\ \A s \in Runs \ {r} : results'[s] = results[s]
        /\ DOMAIN results' = Runs
    BY <2>1, <2>2 DEF Paid, Typed, Judged, Tables
  <2>4. Grown /\ Tables' /\ HonestDb(answers', db')
    BY <1>1, <1>2, <2>3 DEF Grown, Judged, Tables
  <2>5. CacheHonest'
    <3>1. \A q : (Holds(q)' <=> Holds(q)) /\ Own(q)' = Own(q)
      BY <1>1, CacheUntouched DEF Own, Canon
    <3>2. \A q \in Questions : Holds(q)' => cache'[HashOf(Own(q))].value \in answers'[q]
      BY <1>1, <3>1 DEF Judged, CacheHonest
    <3> QED
      BY <3>1, <3>2 DEF CacheHonest
  <2>6. ASSUME NEW s \in Runs PROVE RunHonest(s)'
    <3>1. CASE s # r
      <4>1. RunHonest(s) /\ (pc[s] = "judging" => At(s) \in Work(Config(s)))
        BY DEF Judged, Paid, Placed
      <4> QED
        BY <1>1, <2>3, <2>4, <3>1, <4>1, RunStays
    <3>2. CASE s = r
      <4>1. Distinct(NamesOf(Config(r))) /\ Distinct(NamesOf(Config(r)))'
        BY <1>4 DEF Loads, Distinct, NamesOf, Config
      <4>2. ResultsHonest(answers', results'[r])
        BY <2>3, <4>1, Tier1Honest
      <4>3. got'[r] = <<>>
        BY <1>1 DEF Judged, RunHonest
      <4> QED
        BY <2>3, <3>2, <4>1, <4>2, <4>3 DEF RunHonest
    <3> QED
      BY <3>1, <3>2
  <2> QED
    BY <2>4, <2>5, <2>6 DEF Judged
<1> QED
  BY <1>3, <1>4

LEMMA OpenCacheJudges ==
    ASSUME Paid, Judged, NEW r \in Runs, OpenCache(r)
    PROVE  Judged'
<1>1. UNCHANGED <<got, results, answers, cache, db>> /\ pc[r] = "opening"
  BY DEF OpenCache
<1>2. HonestDb(answers, db')
  BY <1>1 DEF Judged
<1>3. CASE cacheOwner # None
  <2>1. pc' = [pc EXCEPT ![r] = "failed"] /\ UNCHANGED <<judge, item>>
    BY <1>3 DEF OpenCache, Fails
  <2> QED
    BY <1>1, <1>2, <2>1, EndsQuietly, QuietKeeps
<1>4. CASE cacheOwner = None
  <2>1. /\ pc'[r] = "judging" /\ judge'[r] = 1 /\ item'[r] = 1
        /\ \A s \in Runs \ {r} : pc'[s] = pc[s] /\ judge'[s] = judge[s] /\ item'[s] = item[s]
    BY <1>4 DEF OpenCache, Paid, Typed
  <2>2. Grown /\ Tables' /\ HonestDb(answers', db')
    BY <1>1, <1>2 DEF Grown, Judged, Tables
  <2>3. CacheHonest'
    <3>1. \A q : (Holds(q)' <=> Holds(q)) /\ Own(q)' = Own(q)
      BY <1>1, CacheUntouched DEF Own, Canon
    <3>2. \A q \in Questions : Holds(q)' => cache'[HashOf(Own(q))].value \in answers'[q]
      BY <1>1, <3>1 DEF Judged, CacheHonest
    <3> QED
      BY <3>1, <3>2 DEF CacheHonest
  <2>4. ASSUME NEW s \in Runs PROVE RunHonest(s)'
    <3>1. CASE s # r
      <4>1. RunHonest(s) /\ (pc[s] = "judging" => At(s) \in Work(Config(s)))
        BY DEF Judged, Paid, Placed
      <4> QED
        BY <1>1, <2>1, <2>2, <3>1, <4>1, RunStays
    <3>2. CASE s = r
      <4>1. got[r] = <<>> /\ Distinct(NamesOf(Config(r))) /\ ResultsHonest(answers, results[r])
        BY <1>1 DEF Judged, RunHonest
      <4>2. Distinct(NamesOf(Config(r)))'
        BY <4>1 DEF Distinct, NamesOf, Config
      <4>3. OutcomesHonest(answers', r, judge'[r], item'[r], got'[r])
        <5>1. 1 .. 1 - 1 = {} /\ <<>> = [k \in {} |-> <<>>[k]]
          OBVIOUS
        <5> QED
          BY <1>1, <2>1, <4>1, <5>1 DEF OutcomesHonest
      <4> QED
        BY <1>1, <2>1, <3>2, <4>1, <4>2, <4>3 DEF RunHonest
    <3> QED
      BY <3>1, <3>2
  <2> QED
    BY <2>2, <2>3, <2>4 DEF Judged
<1> QED
  BY <1>3, <1>4

\* One outcome more.
LEMMA OneMore ==
    ASSUME NEW ans, NEW r, NEW j, NEW i \in Nat \ {0}, NEW outcomes, OutcomesHonest(ans, r, j, i, outcomes),
           NEW o, o # None => Answerable(ans, r, <<j, i>>, o.value)
    PROVE  OutcomesHonest(ans, r, j, i + 1, Append(outcomes, o))
<1> DEFINE all == Append(outcomes, o)
           X == {outcomes[k] : k \in 1 .. i - 1} \cup {o}
<1>1. outcomes \in Seq(X) /\ Len(outcomes) = i - 1 /\ o \in X
  <2>1. outcomes \in [1 .. i - 1 -> X] /\ i - 1 \in Nat
    BY DEF OutcomesHonest
  <2> HIDE DEF X
  <2>2. outcomes \in Seq(X) /\ Len(outcomes) = i - 1
    BY <2>1
  <2> QED
    BY <2>2 DEF X
<1> HIDE DEF X
<1>2. /\ all \in Seq(X) /\ Len(all) = i /\ all[i] = o
      /\ \A k \in 1 .. i - 1 : all[k] = outcomes[k]
  BY <1>1
<1> HIDE DEF all
<1>3. all = [k \in 1 .. i |-> all[k]]
  BY <1>2
<1>4. (i + 1) - 1 = i /\ \A k \in 1 .. i : k = i \/ k \in 1 .. i - 1
  OBVIOUS
<1>5. ASSUME NEW k \in 1 .. i, all[k] # None PROVE Answerable(ans, r, <<j, k>>, all[k].value)
  BY <1>2, <1>4, <1>5 DEF OutcomesHonest
<1> QED
  BY <1>3, <1>4, <1>5 DEF OutcomesHonest, all

\* One evaluator or judge more.
LEMMA OneResultMore ==
    ASSUME NEW ans, NEW res, ResultsHonest(ans, res), NEW x, AllHonest(ans, x.scores)
    PROVE  ResultsHonest(ans, Append(res, x))
<1> DEFINE E == ToSet(res) \cup {x}
           all == Append(res, x)
<1>1. \A y \in E : AllHonest(ans, y.scores)
  BY DEF ResultsHonest
<1>2. res \in Seq(E) /\ x \in E
  <2>1. res \in Seq(ToSet(res)) /\ ToSet(res) \subseteq E
    BY DEF ResultsHonest
  <2> HIDE DEF E
  <2>2. res \in Seq(E)
    BY <2>1
  <2> QED
    BY <2>2 DEF E
<1> HIDE DEF E
<1>3. all \in Seq(E)
  BY <1>2
<1> HIDE DEF all
<1>4. all \in Seq(ToSet(all)) /\ ToSet(all) \subseteq E
  BY <1>3, SeqOfItsOwn
<1> QED
  BY <1>1, <1>4 DEF ResultsHonest, all

\* An outcome that is an answer leaves a run with answers only.
LEMMA OutcomeJudges ==
    ASSUME AggIsFree, Paid, Judged, NEW r \in Runs, pc[r] = "judging", Grown,
           NEW o, Outcome(r, o), o # None => Answerable(answers', r, At(r), o.value)
    PROVE  /\ DOMAIN got' = Runs /\ DOMAIN results' = Runs
           /\ \A s \in Runs : RunHonest(s)'
<1> DEFINE all == Append(got[r], o)
           name == JudgeName(Judge(r))
           n == Len(Config(r).items)
           last == Finalize(name, all, Config(r).items, r, ThresholdFor(Config(r).thresholds, name), started[r])
<1>1. /\ judge[r] \in 1 .. Len(Config(r).judges) /\ item[r] \in 1 .. n
      /\ Len(Config(r).judges) \in Nat /\ n \in Nat /\ DOMAIN Config(r).items = 1 .. n
      /\ DOMAIN Config(r).judges = 1 .. Len(Config(r).judges)
  BY WorkIsFinite DEF Paid, Placed, At, Work
<1>2. /\ Distinct(NamesOf(Config(r))) /\ Distinct(NamesOf(Config(r)))'
      /\ ResultsHonest(answers', results[r])
      /\ OutcomesHonest(answers', r, judge[r], item[r], got[r])
  <2>1. /\ Distinct(NamesOf(Config(r))) /\ ResultsHonest(answers, results[r])
        /\ OutcomesHonest(answers, r, judge[r], item[r], got[r])
    BY DEF Judged, RunHonest
  <2>2. Distinct(NamesOf(Config(r)))'
    BY <2>1 DEF Distinct, NamesOf, Config
  <2>3. ResultsHonest(answers', results[r])
    BY <2>1, HonestStays DEF ResultsHonest, Grown
  <2>4. \A k \in 1 .. item[r] - 1 : <<judge[r], k>> \in Work(Config(r))
    <3>1. \A k \in 1 .. item[r] - 1 : k \in 1 .. n
      BY <1>1
    <3> QED
      BY <1>1, <3>1 DEF Work
  <2>5. \A k \in 1 .. item[r] - 1 : \A value :
            Answerable(answers, r, <<judge[r], k>>, value) => Answerable(answers', r, <<judge[r], k>>, value)
    BY <2>4, HonestStays DEF Grown
  <2>6. OutcomesHonest(answers', r, judge[r], item[r], got[r])
    BY <2>1, <2>5 DEF OutcomesHonest
  <2> QED
    BY <2>1, <2>2, <2>3, <2>6
<1>3. OutcomesHonest(answers', r, judge[r], item[r] + 1, all)
  <2>1. item[r] \in Nat \ {0} /\ (o # None => Answerable(answers', r, <<judge[r], item[r]>>, o.value))
    BY <1>1 DEF At
  <2> QED
    BY <1>2, <2>1, OneMore
<1> HIDE DEF all, last, n
<1>4. ASSUME NEW s \in Runs \ {r}, got'[s] = got[s], results'[s] = results[s] PROVE RunHonest(s)'
  <2>1. pc'[s] = pc[s] /\ judge'[s] = judge[s] /\ item'[s] = item[s]
    BY OutcomeMoves DEF Paid
  <2>2. RunHonest(s) /\ (pc[s] = "judging" => At(s) \in Work(Config(s)))
    BY DEF Judged, Paid, Placed
  <2> QED
    BY <1>4, <2>1, <2>2, RunStays
<1>5. CASE item[r] < n
  <2>1. /\ item' = [item EXCEPT ![r] = @ + 1] /\ got' = [got EXCEPT ![r] = all]
        /\ UNCHANGED <<judge, results, pc, cacheOwner>>
    BY <1>5 DEF Outcome, all, n
  <2>2. /\ item'[r] = item[r] + 1 /\ got'[r] = all /\ DOMAIN got' = Runs
        /\ \A s \in Runs \ {r} : got'[s] = got[s]
    BY <2>1 DEF Paid, Typed, Judged, Tables
  <2>3. RunHonest(r)'
    BY <1>2, <1>3, <2>1, <2>2 DEF RunHonest
  <2> QED
    BY <1>4, <2>1, <2>2, <2>3 DEF Judged, Tables
<1>6. CASE ~(item[r] < n)
  <2>1. /\ got' = [got EXCEPT ![r] = <<>>] /\ item' = [item EXCEPT ![r] = 1]
        /\ results' = [results EXCEPT ![r] = Append(@, last)]
        /\ \/ pc' = [pc EXCEPT ![r] = "storing"] /\ UNCHANGED judge
           \/ judge' = [judge EXCEPT ![r] = @ + 1] /\ UNCHANGED pc
    BY <1>6 DEF Outcome, all, last, n
  <2>2. /\ item'[r] = 1 /\ got'[r] = <<>> /\ results'[r] = Append(results[r], last)
        /\ DOMAIN got' = Runs /\ DOMAIN results' = Runs
        /\ \A s \in Runs \ {r} : got'[s] = got[s] /\ results'[s] = results[s]
        /\ pc'[r] \in {"storing", "judging"}
    BY <2>1 DEF Paid, Typed, Judged, Tables
  <2>3. AllHonest(answers', last.scores)
    <3> DEFINE scores == last.scores
    <3>1. /\ scores \in Seq(ToSet(scores))
          /\ \A s \in ToSet(scores) : ScoreOf(s, r, name, all, n)
      BY <1>1, FinalizeGives DEF last
    <3>2. \A i \in Scored(all, n) : Answerable(answers', r, <<judge[r], i>>, all[i].value)
      <4>1. item[r] = n
        BY <1>1, <1>6
      <4> QED
        BY <1>1, <1>3, <4>1 DEF OutcomesHonest, Scored
    <3> DEFINE ans == answers'
               j == judge[r]
    <3>3. name = JudgeName(Config(r).judges[j]) /\ n = Len(Config(r).items) /\ j \in DOMAIN Config(r).judges
      BY <1>1 DEF Judge, n
    <3> HIDE DEF scores, name, ans, j
    <3>4. \A i \in Scored(all, n) : Answerable(ans, r, <<j, i>>, all[i].value)
      BY <3>2 DEF ans, j
    <3>5. ASSUME NEW s \in ToSet(scores) PROVE Honest(ans, s)
      <4>1. ScoreOf(s, r, JudgeName(Config(r).judges[j]), all, n)
        BY <3>1, <3>3
      <4> QED
        BY <1>2, <3>3, <3>4, <4>1, JudgeIsHonest
    <3> QED
      BY <3>1, <3>5 DEF AllHonest, scores, ans
  <2>4. ResultsHonest(answers', results'[r])
    BY <1>2, <2>2, <2>3, OneResultMore
  <2>5. OutcomesHonest(answers', r, judge'[r], item'[r], got'[r])
    <3>1. 1 .. 1 - 1 = {} /\ <<>> = [k \in {} |-> <<>>[k]]
      OBVIOUS
    <3> QED
      BY <2>2, <3>1 DEF OutcomesHonest
  <2>6. RunHonest(r)'
    BY <1>2, <2>2, <2>4, <2>5 DEF RunHonest
  <2> QED
    BY <1>4, <2>2, <2>6
<1> QED
  BY <1>5, <1>6

\* What a judge makes of an answer has its value.
LEMMA OutcomeIsAnswer ==
    ASSUME NEW ans, NEW r, NEW at, NEW spec, NEW value, value \in ans[QuestionAt(r, at)]
    PROVE  Answerable(ans, r, at, JudgeOutcome(spec, value).value)
BY DEF Answerable, JudgeOutcome, Verdict, Graded, OrElse

LEMMA SpareJudges ==
    ASSUME AggIsFree, Paid, Judged, NEW r \in Runs, Spare(r)
    PROVE  Judged'
<1>1. pc[r] = "judging" /\ UNCHANGED <<answers, cache, db>>
  BY DEF Spare, AtItem, history
<1>2. Grown /\ At(r) \in Work(Config(r)) /\ QuestionAt(r, At(r)) = Question(Judge(r), Item(r))
  BY <1>1 DEF Grown, Paid, Placed, QuestionAt, At, Judge, Item
<1>3. \E o : Outcome(r, o) /\ (o # None => Answerable(answers', r, At(r), o.value))
  <2>1. CASE ~Applicable(Judge(r), Item(r))
    BY <2>1 DEF Spare
  <2>2. CASE Applicable(Judge(r), Item(r))
    <3> DEFINE value == Cached(cache, Canon(Judge(r), Item(r)))
               q == QuestionAt(r, At(r))
    <3>1. value # None /\ Outcome(r, JudgeOutcome(Judge(r), value))
      BY <2>2 DEF Spare
    <3>2. Own(q) = Canon(Judge(r), Item(r)) /\ q \in Questions
      BY <1>2, CanonOfQuestion, WorkIsAsked
    <3>3. Holds(q) /\ value = cache[HashOf(Own(q))].value
      BY <3>1, <3>2 DEF Cached, Holds
    <3>4. value \in answers'[q]
      BY <1>1, <3>2, <3>3 DEF Judged, CacheHonest
    <3> HIDE DEF value
    <3> QED
      BY <3>1, <3>4, OutcomeIsAnswer
  <2> QED
    BY <2>1, <2>2
<1>4. DOMAIN got' = Runs /\ DOMAIN results' = Runs /\ \A s \in Runs : RunHonest(s)'
  BY <1>1, <1>2, <1>3, OutcomeJudges
<1>5. CacheHonest'
  <2>1. \A q : (Holds(q)' <=> Holds(q)) /\ Own(q)' = Own(q)
    BY <1>1, CacheUntouched DEF Own, Canon
  <2>2. \A q \in Questions : Holds(q)' => cache'[HashOf(Own(q))].value \in answers'[q]
    BY <1>1, <2>1 DEF Judged, CacheHonest
  <2> QED
    BY <2>1, <2>2 DEF CacheHonest
<1>6. Tables' /\ HonestDb(answers', db')
  BY <1>1, <1>4 DEF Judged, Tables
<1> QED
  BY <1>4, <1>5, <1>6 DEF Judged

\* Questions with one cache key are one question.
LEMMA OwnTellsApart ==
    ASSUME NEW p \in Questions, NEW q \in Questions, Own(p) = Own(q)
    PROVE  p = q
<1>1. PICK s, x : p = Question(s, x)
  BY DEF Questions, QuestionsOf
<1>2. PICK t, y : q = Question(t, y)
  BY DEF Questions, QuestionsOf
<1>3. Canon(s, x) = Canon(t, y)
  BY <1>1, <1>2, CanonOfQuestion
<1>4. /\ s.provider = t.provider /\ s.rail = t.rail /\ s.model = t.model
      /\ Given(s.criteria) = Given(t.criteria) /\ Given(x.input) = Given(y.input) /\ x.output = y.output
      /\ Given(x.expected) = Given(y.expected) /\ Given(x.context) = Given(y.context)
  BY <1>3 DEF Canon
<1> QED
  BY <1>1, <1>2, <1>4 DEF Question

LEMMA AnsweredJudges ==
    ASSUME AggIsFree, Paid, Judged, NEW r \in Runs, Answered(r)
    PROVE  Judged'
<1> DEFINE q == QuestionAt(r, At(r))
<1>1. pc[r] = "judging" /\ UNCHANGED db
  BY DEF Answered, MustAsk, AtItem
<1>2. /\ At(r) \in Work(Config(r)) /\ q = Question(Judge(r), Item(r)) /\ q \in Questions
      /\ Own(q) = Canon(Judge(r), Item(r))
  BY <1>1, CanonOfQuestion, WorkIsAsked DEF Paid, Placed, QuestionAt, At, Judge, Item
<1>3. PICK value :
          /\ Outcome(r, JudgeOutcome(Judge(r), value))
          /\ cache' = cache \/ cache' = CachePut(Own(q), value)
          /\ answers' = [answers EXCEPT ![q] = @ \cup {value}]
  <2>1. PICK reply \in Replies, kept \in BOOLEAN :
            /\ Outcome(r, JudgeOutcome(Judge(r), ParseReply(reply)))
            /\ cache' = IF kept /\ ParseReply(reply) # None
                        THEN CachePut(Canon(Judge(r), Item(r)), ParseReply(reply)) ELSE cache
            /\ answers' = [answers EXCEPT ![Question(Judge(r), Item(r))] = @ \cup {ParseReply(reply)}]
    BY DEF Answered
  <2> HIDE DEF q
  <2> QED
    BY <1>2, <2>1
<1> HIDE DEF q
<1>4. /\ DOMAIN answers' = Questions /\ value \in answers'[q] /\ Grown
  BY <1>2, <1>3 DEF Judged, Tables, Grown
<1>5. DOMAIN got' = Runs /\ DOMAIN results' = Runs /\ \A s \in Runs : RunHonest(s)'
  <2> DEFINE o == JudgeOutcome(Judge(r), value)
  <2>1. Answerable(answers', r, At(r), o.value)
    BY <1>4, OutcomeIsAnswer DEF q
  <2> HIDE DEF o
  <2>2. Outcome(r, o)
    BY <1>3 DEF o
  <2> QED
    BY <1>1, <1>4, <2>1, <2>2, OutcomeJudges
<1>6. CacheHonest'
  <2> SUFFICES ASSUME NEW p \in Questions, Holds(p)' PROVE cache'[HashOf(Own(p))].value \in answers'[p]
    BY DEF CacheHonest, Own, Canon
  <2>1. Holds(p) => cache[HashOf(Own(p))].value \in answers'[p]
    BY <1>4 DEF Judged, CacheHonest, Grown
  <2>2. CASE cache' = cache
    BY <2>1, <2>2, CacheUntouched
  <2>3. CASE cache' = CachePut(Own(q), value)
    <3>1. cache' = [h \in DOMAIN cache \cup {HashOf(Own(q))} |->
                       IF h = HashOf(Own(q)) THEN [value |-> value, verify |-> Own(q)] ELSE cache[h]]
      BY <2>3 DEF CachePut
    <3>2. CASE HashOf(Own(p)) = HashOf(Own(q))
      <4>1. Own(p) = Own(q)
        BY <2>3, <3>2, PutHolds
      <4>2. p = q
        BY <1>2, <4>1, OwnTellsApart
      <4>3. cache'[HashOf(Own(q))].value = value
        BY <3>1
      <4> QED
        BY <1>4, <4>2, <4>3
    <3>3. CASE HashOf(Own(p)) # HashOf(Own(q))
      <4>1. Holds(p)
        BY <2>3, <3>3, PutHolds
      <4>2. HashOf(Own(p)) \in DOMAIN cache
        BY <4>1 DEF Holds
      <4>3. cache'[HashOf(Own(p))] = cache[HashOf(Own(p))]
        BY <3>1, <3>3, <4>2
      <4> QED
        BY <2>1, <4>1, <4>3
    <3> QED
      BY <3>2, <3>3
  <2> QED
    BY <1>3, <2>2, <2>3
<1>7. Tables' /\ HonestDb(answers', db')
  <2>1. HonestDb(answers', db)
    BY <1>4, HonestStays DEF Judged, HonestDb, Grown
  <2> QED
    BY <1>1, <1>4, <1>5, <2>1 DEF Tables
<1> QED
  BY <1>5, <1>6, <1>7 DEF Judged

LEMMA JudgedInit == Init => Judged
<1> SUFFICES ASSUME Init PROVE Judged
  OBVIOUS
<1>1. Tables
  BY DEF Init, Tables
<1>2. CacheHonest
  <2>1. \A q : ~Holds(q)
    BY DEF Init, Holds
  <2> QED
    BY <2>1 DEF CacheHonest
<1>3. ASSUME NEW r \in Runs PROVE RunHonest(r)
  <2>1. pc[r] = "idle" /\ got[r] = <<>>
    BY DEF Init
  <2> QED
    BY <2>1 DEF RunHonest
<1>4. HonestDb(answers, db)
  <2>1. HonestDb(answers, EmptyDb)
    <3>1. DOMAIN <<>> = {} /\ <<>> = [id \in {} |-> <<>>[id]]
      OBVIOUS
    <3> QED
      BY <3>1 DEF HonestDb, IsDb, RowsOf, EmptyDb
  <2>2. AllHonest(answers, Earlier)
    BY IdAssumption, OthersAreHonest DEF AllHonest
  <2>3. db = PutBatch(EmptyDb, Earlier)
    BY DEF Init
  <2> QED
    BY <2>1, <2>2, <2>3, PutBatchHonest
<1> QED
  BY <1>1, <1>2, <1>3, <1>4 DEF Judged

LEMMA JudgedNext == AggIsFree /\ Paid /\ Judged /\ [Next]_vars => Judged'
<1> SUFFICES ASSUME AggIsFree, Paid, Judged, [Next]_vars PROVE Judged'
  OBVIOUS
<1>0. HonestDb(answers, db)
  BY DEF Judged
<1>1. ASSUME NEW r \in Runs, Refuse(r) \/ CallFails(r) \/ PersistFails(r) PROVE Judged'
  <2>1. pc' = [pc EXCEPT ![r] = "failed"] /\ UNCHANGED <<judge, item, got, results, answers, cache, db>>
    BY <1>1 DEF Refuse, CallFails, PersistFails, Fails, history
  <2> QED
    BY <1>0, <2>1, EndsQuietly, QuietKeeps
<1>2. ASSUME NEW r \in Runs, Kill(r) PROVE Judged'
  <2>1. pc' = [pc EXCEPT ![r] = "dead"] /\ UNCHANGED <<judge, item, got, results, answers, cache, db>>
    BY <1>2 DEF Kill, history
  <2> QED
    BY <1>0, <2>1, EndsQuietly, QuietKeeps
<1>3. ASSUME NEW r \in Runs, Persist(r) PROVE Judged'
  <2>1. /\ pc[r] = "storing" /\ pc' = [pc EXCEPT ![r] = "done"]
        /\ UNCHANGED <<judge, item, got, results, answers, cache>>
        /\ db' = PutBatch(db, AllScores(r))
    BY <1>3 DEF Persist, history
  <2>2. AllHonest(answers, AllScores(r))
    BY <2>1, AllScoresHonest DEF Judged, RunHonest
  <2>3. HonestDb(answers, db')
    BY <1>0, <2>1, <2>2, PutBatchHonest
  <2> QED
    BY <2>1, <2>3, EndsQuietly, QuietKeeps
<1>4. CASE PostLabel
  <2>1. PICK label \in Labels : db' = PutBatch(db, <<[label EXCEPT !.ts = clock + 1]>>)
    BY <1>4 DEF PostLabel
  <2> DEFINE s == [label EXCEPT !.ts = clock + 1]
             scores == <<s>>
  <2>2. s.id[1] \notin Runs
    BY IdAssumption
  <2> HIDE DEF s
  <2>3. AllHonest(answers, scores)
    <3>1. scores \in Seq({s}) /\ ToSet(scores) \subseteq {s}
      BY DEF ToSet
    <3>2. scores \in Seq(ToSet(scores))
      BY <3>1, SeqOfItsOwn
    <3> QED
      BY <2>2, <3>1, <3>2, OthersAreHonest DEF AllHonest
  <2>4. db' = PutBatch(db, scores)
    BY <2>1 DEF s
  <2> HIDE DEF scores
  <2>5. HonestDb(answers, db')
    BY <1>0, <2>3, <2>4, PutBatchHonest
  <2> QED
    BY <1>4, <2>5, QuietKeeps DEF PostLabel, evalVars, history
<1>5. CASE Serve
  BY <1>0, <1>5, QuietKeeps DEF Serve, evalVars, history
<1>6. CASE UNCHANGED vars
  BY <1>0, <1>6, QuietKeeps DEF vars, evalVars, worldVars, history
<1>7. ASSUME NEW r \in Runs, Begin(r) \/ OpenCache(r) \/ Spare(r) \/ Answered(r) PROVE Judged'
  BY <1>7, BeginJudges, OpenCacheJudges, SpareJudges, AnsweredJudges
<1> QED
  BY <1>1, <1>2, <1>3, <1>4, <1>5, <1>6, <1>7 DEF Next

\* A key collision is never served, and an answer never ends up under another
\* item (judge.rs, JudgeCache; eval.rs, finalize_evaluator): what is stored as a
\* judge's score of an item was answered to exactly that question, whatever runs
\* share the cache, are killed or fail, as long as no judge is named agg, whose
\* items would share ids with the aggregates (eval.rs:816).
THEOREM EveryScoreIsAnAnswer ==
    ASSUME AggIsFree
    PROVE  Spec => []JudgedByOwnAnswer
<1>1. Init => Paid /\ Judged
  BY PaidInit, JudgedInit
<1>2. (Paid /\ Judged) /\ [Next]_vars => (Paid /\ Judged)'
  BY PaidNext, JudgedNext
<1>3. Paid /\ Judged => JudgedByOwnAnswer
  BY JudgedShows
<1> QED
  BY <1>1, <1>2, <1>3, PTL DEF Spec

----------------------------------------------------------------------------
(***************************************************************************)
(* All of a run is stored or nothing. The invariant says how many of the   *)
(* config's evaluators and judges a run has the scores of in each phase,   *)
(* and that each of them has its own aggregate.                            *)
(***************************************************************************)

\* Scores under ids of the run: of its items, and the aggregate of the name,
\* which is there and has what the row of the report has.
OwnScores(r, name, x) ==
    /\ x.scores \in Seq(ToSet(x.scores))
    /\ \A s \in ToSet(x.scores) :
           \/ \E i \in DOMAIN Config(r).items : s.id = ItemId(r, name, i)
           \/ s.id = AggregateId(r, name) /\ s.stats = x.row.stats
    /\ \E s \in ToSet(x.scores) : s.id = AggregateId(r, name)
    /\ x.row.met = Met(x.row.stats, ThresholdFor(Config(r).thresholds, name))

\* The results of the first names of its config, as many as count.
Gathered(r, res, count) ==
    /\ res \in Seq(ToSet(res)) /\ Len(res) = count
    /\ \A k \in 1 .. count : OwnScores(r, NamesOf(Config(r))[k], res[k])

Due(r, phase, at) ==
    LET scored == Len(Config(r).evaluators)
    IN  CASE phase = "opening" -> scored
          [] phase = "judging" -> scored + at - 1
          [] OTHER -> Len(NamesOf(Config(r)))
Filling(r) == pc[r] \in {"opening", "judging", "storing"} => Gathered(r, results[r], Due(r, pc[r], judge[r]))

StoredOf(r) == {id \in DOMAIN db.rows : id[1] = r}
IdsOf(scores) == {s.id : s \in ToSet(scores)}
Kept(r) ==
    IF pc[r] = "done"
    THEN StoredOf(r) = IdsOf(AllScores(r)) /\ {AggregateId(r, name) : name \in ToSet(NamesOf(Config(r)))} \subseteq StoredOf(r)
    ELSE StoredOf(r) = {}

Whole == DOMAIN results = Runs /\ IsDb(db) /\ \A r \in Runs : Filling(r) /\ Kept(r)

LEMMA WholeShows ==
    ASSUME Whole
    PROVE  AllOrNothing
<1>1. \A r \in Runs : r \in Ended <=> pc[r] = "done"
  BY DEF Ended
<1>2. \A r \in Runs : Kept(r)
  BY DEF Whole
<1> QED
  BY <1>1, <1>2 DEF AllOrNothing, Kept, StoredOf, IdsOf

\* What a run hands to the store depends on its results alone.
ScoresIn(res) == [k \in DOMAIN res |-> res[k].scores]

LEMMA AllScoresStay ==
    ASSUME NEW r, results'[r] = results[r]
    PROVE  AllScores(r)' = AllScores(r)
<1>1. AllScores(r) = Joined(ScoresIn(results[r]))
  BY DEF AllScores, Joined, ScoresIn
<1>2. AllScores(r)' = Joined(ScoresIn(results'[r]))
  BY DEF AllScores, Joined, ScoresIn, FoldLeft, MapThenFoldSet
<1> QED
  BY <1>1, <1>2

\* A step that stores nothing keeps a run that stays where it is or fails.
LEMMA WholeStays ==
    ASSUME NEW r \in Runs, Filling(r), Kept(r), db' = db,
           pc'[r] = pc[r] \/ (pc[r] # "done" /\ pc'[r] \in {"failed", "dead"}),
           judge'[r] = judge[r], results'[r] = results[r]
    PROVE  Filling(r)' /\ Kept(r)'
<1>1. StoredOf(r)' = StoredOf(r) /\ AllScores(r)' = AllScores(r)
  BY AllScoresStay DEF StoredOf
<1>2. Kept(r)'
  BY <1>1 DEF Kept, NamesOf, Config
<1>3. Filling(r)'
  BY DEF Filling
<1> QED
  BY <1>2, <1>3

LEMMA WholeFails ==
    ASSUME Paid, Whole, UNCHANGED <<judge, results, db>>,
           NEW r \in Runs, pc[r] # "done", NEW phase \in {"failed", "dead"}, pc' = [pc EXCEPT ![r] = phase]
    PROVE  Whole'
<1>1. \A s \in Runs : pc'[s] = pc[s] \/ (pc[s] # "done" /\ pc'[s] \in {"failed", "dead"})
  BY DEF Paid, Typed
<1>2. ASSUME NEW s \in Runs PROVE Filling(s)' /\ Kept(s)'
  BY <1>1, WholeStays DEF Whole
<1> QED
  BY <1>2 DEF Whole, IsDb

\* A step of one run among its judges keeps the others, and itself when it fills up.
LEMMA WholeMoves ==
    ASSUME Paid, Whole, NEW r \in Runs, pc[r] \notin {"done"}, db' = db, DOMAIN results' = Runs,
           pc'[r] \in {"opening", "judging", "storing"},
           Gathered(r, results'[r], Due(r, pc'[r], judge'[r])),
           \A s \in Runs \ {r} : pc'[s] = pc[s] /\ judge'[s] = judge[s] /\ results'[s] = results[s]
    PROVE  Whole'
<1>1. ASSUME NEW s \in Runs \ {r} PROVE Filling(s)' /\ Kept(s)'
  BY WholeStays DEF Whole
<1>2. Filling(r)'
  BY DEF Filling
<1>3. Kept(r)'
  <2>1. StoredOf(r)' = {}
    BY DEF Whole, Kept, StoredOf
  <2> QED
    BY <2>1 DEF Kept
<1>4. IsDb(db)'
  BY DEF Whole, IsDb
<1> QED
  BY <1>1, <1>2, <1>3, <1>4 DEF Whole

LEMMA FinalizeIsOwn ==
    ASSUME NEW r \in Runs, NEW outcomes, NEW name, NEW ts
    PROVE  OwnScores(r, name, Finalize(name, outcomes, Config(r).items, r,
                                       ThresholdFor(Config(r).thresholds, name), ts))
<1> DEFINE items == Config(r).items
           n == Len(items)
           threshold == ThresholdFor(Config(r).thresholds, name)
           x == Finalize(name, outcomes, items, r, threshold, ts)
           scores == x.scores
<1>1. n \in Nat /\ DOMAIN items = 1 .. n
  BY WorkIsFinite
<1>2. x.row.stats = StatsOf(outcomes) /\ x.row.met = Met(StatsOf(outcomes), threshold)
  BY DEF Finalize
<1>3. /\ scores \in Seq(ToSet(scores)) /\ \A s \in ToSet(scores) : ScoreOf(s, r, name, outcomes, n)
      /\ \E s \in ToSet(scores) : s.id = AggregateId(r, name)
  <2> HIDE DEF items, n, threshold
  <2> QED
    BY <1>1, FinalizeGives
<1> HIDE DEF x
<1>4. ASSUME NEW s \in ToSet(scores)
      PROVE  \/ \E i \in DOMAIN items : s.id = ItemId(r, name, i)
             \/ s.id = AggregateId(r, name) /\ s.stats = x.row.stats
  BY <1>1, <1>2, <1>3 DEF ScoreOf, Scored
<1>5. OwnScores(r, name, x)
  BY <1>2, <1>3, <1>4 DEF OwnScores
<1> QED
  BY <1>5 DEF x

LEMMA Tier1Gathers ==
    ASSUME NEW r \in Runs, NEW ts
    PROVE  Gathered(r, Tier1(Config(r), Config(r).items, r, ts), Len(Config(r).evaluators))
<1> DEFINE config == Config(r)
           m == Len(config.evaluators)
           n == Len(config.items)
           Outcomes(k) == [i \in DOMAIN config.items |-> Evaluate(config.evaluators[k], config.items[i])]
           Result(k) == Finalize(config.evaluators[k].type, Outcomes(k), config.items, r,
                                 ThresholdFor(config.thresholds, config.evaluators[k].type), ts)
           res == Tier1(config, config.items, r, ts)
<1>1. /\ m \in Nat /\ DOMAIN config.evaluators = 1 .. m
      /\ n \in Nat /\ DOMAIN config.items = 1 .. n
      /\ \A k \in 1 .. m : NamesOf(config)[k] = config.evaluators[k].type
  BY WorkIsFinite, NamesAre DEF Named
<1>2. res = [k \in 1 .. m |-> Result(k)]
  BY <1>1 DEF Tier1
<1>3. ASSUME NEW k \in 1 .. m PROVE OwnScores(r, NamesOf(config)[k], Result(k))
  <2>1. OwnScores(r, config.evaluators[k].type, Result(k))
    <3> HIDE DEF Outcomes, n
    <3> QED
      BY <1>1, FinalizeIsOwn
  <2> QED
    BY <1>1, <2>1
<1> HIDE DEF Result, res, m
<1>4. res \in Seq({Result(k) : k \in 1 .. m}) /\ Len(res) = m
  BY <1>1, <1>2
<1>5. res \in Seq(ToSet(res))
  BY <1>4, SeqOfItsOwn
<1>6. \A k \in 1 .. m : OwnScores(r, NamesOf(config)[k], res[k])
  BY <1>2, <1>3
<1> QED
  BY <1>4, <1>5, <1>6 DEF Gathered, res, m

\* One more result, of the next name.
LEMMA GathersMore ==
    ASSUME NEW r \in Runs, NEW count \in Nat, NEW res, Gathered(r, res, count),
           NEW x, OwnScores(r, NamesOf(Config(r))[count + 1], x)
    PROVE  Gathered(r, Append(res, x), count + 1)
<1> DEFINE E == ToSet(res) \cup {x}
           all == Append(res, x)
<1>1. res \in Seq(E) /\ x \in E /\ Len(res) = count
  <2>1. res \in Seq(ToSet(res)) /\ ToSet(res) \subseteq E /\ Len(res) = count
    BY DEF Gathered
  <2> HIDE DEF E
  <2>2. res \in Seq(E)
    BY <2>1
  <2> QED
    BY <2>1, <2>2 DEF E
<1> HIDE DEF E
<1>2. /\ all \in Seq(E) /\ Len(all) = count + 1 /\ all[count + 1] = x
      /\ \A k \in 1 .. count : all[k] = res[k]
  BY <1>1
<1> HIDE DEF all
<1>3. all \in Seq(ToSet(all))
  BY <1>2, SeqOfItsOwn
<1>4. ASSUME NEW k \in 1 .. count + 1 PROVE OwnScores(r, NamesOf(Config(r))[k], all[k])
  <2>1. k = count + 1 \/ k \in 1 .. count
    OBVIOUS
  <2> QED
    BY <1>2, <2>1 DEF Gathered
<1> QED
  BY <1>2, <1>3, <1>4 DEF Gathered, all

\* What a run hands to the store when it has everything.
LEMMA AllIsGathered ==
    ASSUME NEW r \in Runs, NEW n \in Nat, Gathered(r, results[r], n)
    PROVE  /\ AllScores(r) \in Seq(ToSet(AllScores(r)))
           /\ \A s \in ToSet(AllScores(r)) : s.id[1] = r
           /\ \A k \in 1 .. n : \E s \in ToSet(AllScores(r)) : s.id = AggregateId(r, NamesOf(Config(r))[k])
           /\ \A s \in ToSet(AllScores(r)) : \E k \in 1 .. n : s \in ToSet(results[r][k].scores)
<1> DEFINE res == results[r]
           parts == [k \in DOMAIN res |-> res[k].scores]
           E == UNION {ToSet(res[k].scores) : k \in 1 .. n}
<1>1. DOMAIN res = 1 .. n
  BY DEF Gathered
<1>2. ASSUME NEW k \in 1 .. n
      PROVE  /\ res[k].scores \in Seq(ToSet(res[k].scores))
             /\ \A s \in ToSet(res[k].scores) : s.id[1] = r
             /\ \E s \in ToSet(res[k].scores) : s.id = AggregateId(r, NamesOf(Config(r))[k])
  BY DEF Gathered, OwnScores, ItemId, AggregateId
<1>3. \A s \in E : s.id[1] = r /\ \E k \in 1 .. n : s \in ToSet(res[k].scores)
  BY <1>2
<1>4. parts \in [1 .. n -> Seq(E)]
  <2>1. ASSUME NEW k \in 1 .. n PROVE res[k].scores \in Seq(E)
    <3> DEFINE x == res[k].scores
    <3>1. x \in Seq(ToSet(x)) /\ ToSet(x) \subseteq E
      BY <1>2
    <3> HIDE DEF E, x
    <3>2. x \in Seq(E)
      BY <3>1
    <3> QED
      BY <3>2 DEF x
  <2> QED
    BY <1>1, <2>1
<1>5. AllScores(r) = Joined(parts) /\ \A k \in 1 .. n : parts[k] = res[k].scores
  BY <1>1 DEF AllScores, Joined
<1> HIDE DEF E, parts, res
<1>6. AllScores(r) \in Seq(E) /\ \A k \in 1 .. n : ToSet(res[k].scores) \subseteq ToSet(AllScores(r))
  BY <1>4, <1>5, JoinedIs
<1>7. AllScores(r) \in Seq(ToSet(AllScores(r))) /\ ToSet(AllScores(r)) \subseteq E
  BY <1>6, SeqOfItsOwn
<1> QED
  BY <1>2, <1>3, <1>6, <1>7 DEF res

LEMMA BeginWhole ==
    ASSUME Paid, Whole, NEW r \in Runs, Begin(r)
    PROVE  Whole'
<1>1. pc[r] = "idle" /\ UNCHANGED <<judge, db>>
  BY DEF Begin
<1>2. CASE ~Loads(Config(r))
  <2>1. pc' = [pc EXCEPT ![r] = "failed"] /\ UNCHANGED results
    BY <1>2 DEF Begin, Fails
  <2> QED
    BY <1>1, <2>1, WholeFails
<1>3. CASE Loads(Config(r))
  <2>1. /\ results' = [results EXCEPT ![r] = Tier1(Config(r), Config(r).items, r, clock + 1)]
        /\ pc' = [pc EXCEPT ![r] = IF Config(r).judges = <<>> THEN "storing" ELSE "opening"]
    BY <1>3 DEF Begin
  <2>2. /\ pc'[r] = IF Config(r).judges = <<>> THEN "storing" ELSE "opening"
        /\ results'[r] = Tier1(Config(r), Config(r).items, r, clock + 1)
        /\ \A s \in Runs \ {r} : pc'[s] = pc[s] /\ judge'[s] = judge[s] /\ results'[s] = results[s]
        /\ DOMAIN results' = Runs
    BY <1>1, <2>1 DEF Paid, Typed, Whole
  <2>3. Due(r, pc'[r], judge'[r]) = Len(Config(r).evaluators)
    <3>1. Len(Config(r).evaluators) \in Nat
          /\ Len(NamesOf(Config(r))) = Len(Config(r).evaluators) + Len(Config(r).judges)
      BY NamesAre DEF Named
    <3>2. Config(r).judges = <<>> => Len(Config(r).judges) = 0
      OBVIOUS
    <3>3. CASE Config(r).judges = <<>>
      <4>1. pc'[r] = "storing" /\ Len(NamesOf(Config(r))) = Len(Config(r).evaluators)
        BY <2>2, <3>1, <3>2, <3>3
      <4> QED
        BY <4>1 DEF Due
    <3>4. CASE Config(r).judges # <<>>
      <4>1. pc'[r] = "opening"
        BY <2>2, <3>4
      <4> QED
        BY <4>1 DEF Due
    <3> QED
      BY <3>3, <3>4
  <2>4. Gathered(r, results'[r], Due(r, pc'[r], judge'[r]))
    BY <2>2, <2>3, Tier1Gathers
  <2>5. pc'[r] \in {"opening", "judging", "storing"}
    BY <2>2
  <2> QED
    BY <1>1, <2>2, <2>4, <2>5, WholeMoves
<1> QED
  BY <1>2, <1>3

LEMMA OpenCacheWhole ==
    ASSUME Paid, Whole, NEW r \in Runs, OpenCache(r)
    PROVE  Whole'
<1>1. pc[r] = "opening" /\ UNCHANGED <<results, db>>
  BY DEF OpenCache
<1>2. CASE cacheOwner # None
  <2>1. pc' = [pc EXCEPT ![r] = "failed"] /\ UNCHANGED judge
    BY <1>2 DEF OpenCache, Fails
  <2> QED
    BY <1>1, <2>1, WholeFails
<1>3. CASE cacheOwner = None
  <2>1. /\ pc'[r] = "judging" /\ judge'[r] = 1 /\ DOMAIN results' = Runs
        /\ \A s \in Runs \ {r} : pc'[s] = pc[s] /\ judge'[s] = judge[s] /\ results'[s] = results[s]
    BY <1>1, <1>3 DEF OpenCache, Paid, Typed, Whole
  <2>2. Due(r, pc'[r], judge'[r]) = Due(r, pc[r], judge[r])
    <3>1. Len(Config(r).evaluators) \in Nat
      BY NamesAre DEF Named
    <3> QED
      BY <1>1, <2>1, <3>1 DEF Due
  <2>3. Gathered(r, results'[r], Due(r, pc'[r], judge'[r]))
    BY <1>1, <2>2 DEF Whole, Filling
  <2> QED
    BY <1>1, <2>1, <2>3, WholeMoves
<1> QED
  BY <1>2, <1>3

LEMMA OutcomeWhole ==
    ASSUME Paid, Whole, NEW r \in Runs, pc[r] = "judging", NEW o, Outcome(r, o), db' = db
    PROVE  Whole'
<1> DEFINE name == JudgeName(Judge(r))
           all == Append(got[r], o)
           x == Finalize(name, all, Config(r).items, r, ThresholdFor(Config(r).thresholds, name), started[r])
           m == Len(Config(r).evaluators)
           n == Len(Config(r).judges)
<1>1. /\ m \in Nat /\ n \in Nat /\ judge[r] \in 1 .. n
      /\ Len(NamesOf(Config(r))) = m + n /\ NamesOf(Config(r))[m + judge[r]] = name
      /\ Len(Config(r).items) \in Nat /\ DOMAIN Config(r).items = 1 .. Len(Config(r).items)
  BY NamesAre, WorkIsFinite DEF Named, Paid, Placed, At, Work, Judge
<1>2. Gathered(r, results[r], m + judge[r] - 1)
  BY DEF Whole, Filling, Due
<1>3. \A s \in Runs \ {r} : pc'[s] = pc[s] /\ judge'[s] = judge[s]
  BY OutcomeMoves DEF Paid
<1>4. CASE item[r] < Len(Config(r).items)
  <2>1. UNCHANGED <<judge, results, pc>>
    BY <1>4 DEF Outcome
  <2>2. Gathered(r, results'[r], Due(r, pc'[r], judge'[r]))
    BY <2>1 DEF Whole, Filling
  <2> QED
    BY <2>1, <2>2, WholeMoves DEF Whole
<1>5. CASE ~(item[r] < Len(Config(r).items))
  <2>1. /\ results' = [results EXCEPT ![r] = Append(@, x)]
        /\ IF judge[r] = n THEN pc' = [pc EXCEPT ![r] = "storing"] /\ UNCHANGED judge
           ELSE judge' = [judge EXCEPT ![r] = @ + 1] /\ UNCHANGED pc
    BY <1>5 DEF Outcome
  <2>2. OwnScores(r, name, x)
    <3> HIDE DEF name, all
    <3> QED
      BY <1>1, FinalizeIsOwn
  <2> HIDE DEF x, m, n
  <2>3. /\ results'[r] = Append(results[r], x) /\ DOMAIN results' = Runs
        /\ \A s \in Runs \ {r} : results'[s] = results[s]
    BY <2>1 DEF Whole
  <2>4. Gathered(r, results'[r], m + judge[r])
    <3> DEFINE count == m + judge[r] - 1
    <3>1. count \in Nat /\ count + 1 = m + judge[r]
      BY <1>1
    <3> HIDE DEF count
    <3>2. OwnScores(r, NamesOf(Config(r))[count + 1], x)
      BY <1>1, <2>2, <3>1
    <3>3. Gathered(r, results[r], count)
      BY <1>2 DEF count
    <3> QED
      BY <2>3, <3>1, <3>2, <3>3, GathersMore
  <2>5. pc'[r] \in {"judging", "storing"} /\ Due(r, pc'[r], judge'[r]) = m + judge[r]
    <3>1. CASE judge[r] = n
      <4>1. pc'[r] = "storing"
        BY <2>1, <3>1 DEF Paid, Typed
      <4> QED
        BY <1>1, <3>1, <4>1 DEF Due
    <3>2. CASE judge[r] # n
      <4>1. pc'[r] = "judging" /\ judge'[r] = judge[r] + 1
        BY <2>1, <3>2 DEF Paid, Typed
      <4> QED
        BY <1>1, <4>1 DEF Due, m
    <3> QED
      BY <3>1, <3>2
  <2> QED
    BY <1>3, <2>3, <2>4, <2>5, WholeMoves
<1> QED
  BY <1>4, <1>5

LEMMA PersistWhole ==
    ASSUME Paid, Whole, NEW r \in Runs, Persist(r)
    PROVE  Whole'
<1> DEFINE n == Len(NamesOf(Config(r)))
           scores == AllScores(r)
<1>1. /\ pc[r] = "storing" /\ pc' = [pc EXCEPT ![r] = "done"]
      /\ UNCHANGED <<judge, results>> /\ db' = PutBatch(db, scores)
  BY DEF Persist
<1>2. n \in Nat /\ DOMAIN NamesOf(Config(r)) = 1 .. n
  BY NamesAre DEF Named
<1>3. Gathered(r, results[r], n)
  BY <1>1 DEF Whole, Filling, Due
<1> HIDE DEF n
<1>4. /\ scores \in Seq(ToSet(scores))
      /\ \A s \in ToSet(scores) : s.id[1] = r
      /\ \A k \in 1 .. n : \E s \in ToSet(scores) : s.id = AggregateId(r, NamesOf(Config(r))[k])
  BY <1>2, <1>3, AllIsGathered
<1> HIDE DEF scores
<1>5. IsDb(db)' /\ DOMAIN db'.rows = DOMAIN db.rows \cup IdsOf(scores)
  <2>1. IsDb(db') /\ DOMAIN db'.rows = DOMAIN db.rows \cup IdsOf(scores)
    BY <1>1, <1>4, PutBatchIs DEF Whole, IdsOf
  <2> QED
    BY <2>1 DEF IsDb
<1>6. /\ pc'[r] = "done" /\ \A s \in Runs \ {r} : pc'[s] = pc[s]
      /\ \A s \in Runs : judge'[s] = judge[s] /\ results'[s] = results[s]
  BY <1>1 DEF Paid, Typed
<1>7. ASSUME NEW s \in Runs PROVE Filling(s)'
  <2>1. Filling(s)
    BY DEF Whole
  <2>2. CASE s = r
    BY <1>6, <2>2 DEF Filling
  <2>3. CASE s # r
    BY <1>6, <2>1, <2>3 DEF Filling
  <2> QED
    BY <2>2, <2>3
<1>8. ASSUME NEW s \in Runs PROVE Kept(s)'
  <2>1. Kept(s) /\ AllScores(s)' = AllScores(s)
    BY <1>1, AllScoresStay DEF Whole
  <2>2. CASE s # r
    <3>1. StoredOf(s)' = StoredOf(s)
      BY <1>4, <1>5, <2>2 DEF StoredOf, IdsOf
    <3> QED
      BY <1>6, <2>1, <2>2, <3>1 DEF Kept, NamesOf, Config
  <2>3. CASE s = r
    <3>1. StoredOf(r) = {}
      BY <1>1, <2>1, <2>3 DEF Kept
    <3>2. StoredOf(r)' = IdsOf(scores)
      BY <1>4, <1>5, <3>1 DEF StoredOf, IdsOf
    <3>3. \A name \in ToSet(NamesOf(Config(r))) : AggregateId(r, name) \in IdsOf(scores)
      BY <1>2, <1>4 DEF ToSet, IdsOf
    <3>4. StoredOf(r)' = IdsOf(AllScores(r))'
      BY <2>1, <2>3, <3>2 DEF IdsOf, scores
    <3>5. {AggregateId(r, name) : name \in ToSet(NamesOf(Config(r)))} \subseteq StoredOf(r)'
      BY <3>2, <3>3
    <3> QED
      BY <1>6, <2>3, <3>4, <3>5 DEF Kept, NamesOf, Config
  <2> QED
    BY <2>2, <2>3
<1> QED
  BY <1>1, <1>5, <1>7, <1>8 DEF Whole

\* A label is no run's.
LEMMA LabelWhole ==
    ASSUME Paid, Whole, PostLabel
    PROVE  Whole'
<1>1. PICK label \in Labels : db' = PutBatch(db, <<[label EXCEPT !.ts = clock + 1]>>)
  BY DEF PostLabel
<1>2. UNCHANGED <<pc, judge, results>>
  BY DEF PostLabel, evalVars
<1> DEFINE s == [label EXCEPT !.ts = clock + 1]
           scores == <<s>>
<1>3. s.id[1] \notin Runs
  BY IdAssumption
<1> HIDE DEF s
<1>4. scores \in Seq(ToSet(scores)) /\ ToSet(scores) = {s}
  <2>1. scores \in Seq({s}) /\ ToSet(scores) = {s}
    BY DEF ToSet
  <2>2. scores \in Seq(ToSet(scores))
    BY <2>1, SeqOfItsOwn
  <2> QED
    BY <2>1, <2>2
<1>5. db' = PutBatch(db, scores)
  BY <1>1 DEF s
<1> HIDE DEF scores
<1>6. IsDb(db)' /\ DOMAIN db'.rows = DOMAIN db.rows \cup {s.id}
  <2>1. IsDb(db') /\ DOMAIN db'.rows = DOMAIN db.rows \cup {x.id : x \in ToSet(scores)}
    BY <1>4, <1>5, PutBatchIs DEF Whole
  <2> QED
    BY <1>4, <2>1 DEF IsDb
<1>7. ASSUME NEW r \in Runs PROVE Filling(r)' /\ Kept(r)'
  <2>1. Filling(r) /\ Kept(r)
    BY DEF Whole
  <2>2. StoredOf(r)' = StoredOf(r) /\ AllScores(r)' = AllScores(r)
    BY <1>2, <1>3, <1>6, AllScoresStay DEF StoredOf
  <2> QED
    BY <1>2, <2>1, <2>2 DEF Filling, Kept, NamesOf, Config
<1> QED
  BY <1>2, <1>6, <1>7 DEF Whole

LEMMA WholeInit == Init => Whole
<1> SUFFICES ASSUME Init PROVE Whole
  OBVIOUS
<1>1. DOMAIN results = Runs /\ \A r \in Runs : pc[r] = "idle"
  BY DEF Init
<1>2. IsDb(db) /\ DOMAIN db.rows = IdsOf(Earlier)
  <2>1. IsDb(EmptyDb) /\ DOMAIN EmptyDb.rows = {}
    <3>1. DOMAIN <<>> = {} /\ <<>> = [id \in {} |-> <<>>[id]]
      OBVIOUS
    <3> QED
      BY <3>1 DEF IsDb, EmptyDb
  <2>2. Earlier \in Seq(ToSet(Earlier)) /\ db = PutBatch(EmptyDb, Earlier)
    BY IdAssumption DEF Init
  <2>3. DOMAIN db.rows = DOMAIN EmptyDb.rows \cup {s.id : s \in ToSet(Earlier)}
    BY <2>1, <2>2, PutBatchIs
  <2>4. IsDb(db)
    BY <2>1, <2>2, PutBatchIs
  <2> QED
    BY <2>1, <2>3, <2>4 DEF IdsOf
<1>3. ASSUME NEW r \in Runs PROVE Filling(r) /\ Kept(r)
  <2>1. StoredOf(r) = {}
    BY <1>2, IdAssumption DEF StoredOf, IdsOf
  <2> QED
    BY <1>1, <2>1 DEF Filling, Kept
<1> QED
  BY <1>1, <1>2, <1>3 DEF Whole

LEMMA WholeNext == Paid /\ Whole /\ [Next]_vars => Whole'
<1> SUFFICES ASSUME Paid, Whole, [Next]_vars PROVE Whole'
  OBVIOUS
<1>1. ASSUME NEW r \in Runs, Refuse(r) \/ CallFails(r) \/ PersistFails(r) PROVE Whole'
  <2>1. /\ pc' = [pc EXCEPT ![r] = "failed"] /\ UNCHANGED <<judge, results, db>>
        /\ pc[r] # "done"
    BY <1>1 DEF Refuse, CallFails, PersistFails, Fails, MustAsk, AtItem
  <2> QED
    BY <2>1, WholeFails
<1>2. ASSUME NEW r \in Runs, Kill(r) PROVE Whole'
  <2>1. /\ pc' = [pc EXCEPT ![r] = "dead"] /\ UNCHANGED <<judge, results, db>>
        /\ pc[r] # "done"
    BY <1>2 DEF Kill
  <2> QED
    BY <2>1, WholeFails
<1>3. ASSUME NEW r \in Runs, Spare(r) \/ Answered(r) PROVE Whole'
  <2>1. pc[r] = "judging" /\ db' = db /\ \E o : Outcome(r, o)
    BY <1>3 DEF Spare, Answered, MustAsk, AtItem
  <2> QED
    BY <2>1, OutcomeWhole
<1>4. CASE Serve \/ UNCHANGED vars
  <2>1. UNCHANGED <<pc, judge, results, db>>
    BY <1>4 DEF Serve, vars, evalVars, worldVars
  <2>2. ASSUME NEW r \in Runs PROVE Filling(r)' /\ Kept(r)'
    BY <2>1, WholeStays DEF Whole
  <2> QED
    BY <2>1, <2>2 DEF Whole, IsDb
<1>5. ASSUME NEW r \in Runs, Begin(r) \/ OpenCache(r) \/ Persist(r) PROVE Whole'
  BY <1>5, BeginWhole, OpenCacheWhole, PersistWhole
<1> QED
  BY <1>1, <1>2, <1>3, <1>4, <1>5, LabelWhole DEF Next

\* put_scores is one transaction at the end of a run (eval.rs, run_report):
\* whatever fails or is killed, whatever runs and labels come in between, a run
\* has all of its scores stored, with an aggregate of each evaluator and judge,
\* or none.
THEOREM RunsAreAllOrNothing == Spec => []AllOrNothing
<1>1. Init => Paid /\ Whole
  BY PaidInit, WholeInit
<1>2. (Paid /\ Whole) /\ [Next]_vars => (Paid /\ Whole)'
  BY PaidNext, WholeNext
<1>3. Paid /\ Whole => AllOrNothing
  BY WholeShows
<1> QED
  BY <1>1, <1>2, <1>3, PTL DEF Spec
----------------------------------------------------------------------------
(***************************************************************************)
(* The verdict. A run that ended keeps what it stored, the results it      *)
(* stored it from and the report, and no other run or label writes under   *)
(* its ids; so its gate can be read off the tables.                        *)
(***************************************************************************)

\* How a run ends that is not stopped by an error.
Concluded(r) ==
    /\ exit[r] = IF GatePassed(Rows(r)) THEN "pass" ELSE "fail"
    /\ junit[r] = RunReport(Rows(r))

\* What is stored under a run's ids is its own.
OnlyOwn(r) == \A s \in RowsOf(db) : s.id[1] = r => s \in ToSet(AllScores(r))

Gated(r) ==
    /\ pc[r] \in {"opening", "judging", "storing", "done"} => Distinct(NamesOf(Config(r)))
    /\ pc[r] = "done" => /\ Gathered(r, results[r], Len(NamesOf(Config(r))))
                         /\ OnlyOwn(r)
                         /\ exit[r] = "error" \/ Concluded(r)

Verdicts == DOMAIN exit = Runs /\ DOMAIN junit = Runs /\ \A r \in Runs : Gated(r)

\* The row of the report and the stored aggregate have the same statistics.
LEMMA AggregateIsRow ==
    ASSUME AggIsFree, Whole, NEW r \in Runs, Gated(r), pc[r] = "done",
           NEW k \in 1 .. Len(NamesOf(Config(r)))
    PROVE  db.rows[AggregateId(r, NamesOf(Config(r))[k])].stats = results[r][k].row.stats
<1> DEFINE names == NamesOf(Config(r))
           n == Len(names)
           id == AggregateId(r, names[k])
           s == db.rows[id]
<1>1. n \in Nat /\ DOMAIN names = 1 .. n /\ \A i \in 1 .. n : names[i] \in ToSet(names)
  BY NamesAre DEF Named, ToSet
<1>2. Distinct(names) /\ Gathered(r, results[r], n) /\ OnlyOwn(r)
  BY DEF Gated
<1>3. id \in DOMAIN db.rows
  <2>1. {AggregateId(r, name) : name \in ToSet(names)} \subseteq StoredOf(r)
    BY DEF Whole, Kept
  <2>2. names[k] \in ToSet(names)
    BY <1>1
  <2> HIDE DEF names
  <2> QED
    BY <2>1, <2>2 DEF StoredOf
<1> HIDE DEF names
<1>4. s.id = id /\ s \in RowsOf(db)
  BY <1>3 DEF Whole, IsDb, RowsOf
<1>5. id[1] = r
  BY DEF AggregateId
<1> HIDE DEF s, id, n
<1>6. s \in ToSet(AllScores(r))
  BY <1>2, <1>4, <1>5 DEF OnlyOwn
<1>7. PICK j \in 1 .. n : s \in ToSet(results[r][j].scores)
  BY <1>1, <1>2, <1>6, AllIsGathered
<1>8. \/ \E i \in DOMAIN Config(r).items : s.id = ItemId(r, names[j], i)
      \/ s.id = AggregateId(r, names[j]) /\ s.stats = results[r][j].row.stats
  BY <1>2, <1>7 DEF Gathered, OwnScores, names
<1>9. k \in 1 .. n /\ names[k] \in ToSet(names) /\ names[j] \in ToSet(names)
  BY <1>1 DEF n, names
<1>10. ASSUME NEW i \in DOMAIN Config(r).items, s.id = ItemId(r, names[j], i) PROVE FALSE
  <2>1. names[j] = "agg" /\ ToString(i) = names[k]
    BY <1>4, <1>10 DEF id, ItemId, AggregateId
  <2> QED
    BY <1>9, <2>1 DEF AggIsFree, names
<1>11. CASE s.id = AggregateId(r, names[j]) /\ s.stats = results[r][j].row.stats
  <2>1. names[j] = names[k]
    BY <1>4, <1>11 DEF id, AggregateId
  <2>2. j = k
    BY <1>1, <1>2, <1>9, <2>1 DEF Distinct
  <2> QED
    BY <1>11, <2>2 DEF s, id, names
<1> QED
  BY <1>8, <1>10, <1>11

LEMMA GatesShow ==
    ASSUME AggIsFree, Whole, Verdicts
    PROVE  GateIsStored
<1> SUFFICES ASSUME NEW r \in Ended, exit[r] # "error"
             PROVE  /\ exit[r] = "pass" <=>
                           \A name \in ToSet(NamesOf(Config(r))) :
                               Met(db.rows[AggregateId(r, name)].stats, ThresholdFor(Config(r).thresholds, name))
                    /\ exit[r] = "fail" <=> "fail" \in ToSet(junit[r])
                    /\ "error" \notin ToSet(junit[r])
  BY DEF GateIsStored
<1> DEFINE names == NamesOf(Config(r))
           n == Len(names)
           res == results[r]
           rows == Rows(r)
<1>1. r \in Runs /\ pc[r] = "done" /\ Gated(r)
  BY DEF Ended, Verdicts
<1>2. n \in Nat /\ DOMAIN names = 1 .. n /\ ToSet(names) = {names[k] : k \in 1 .. n}
  BY <1>1, NamesAre DEF Named, ToSet
<1>3. /\ Gathered(r, res, n)
      /\ exit[r] = IF GatePassed(rows) THEN "pass" ELSE "fail"
      /\ junit[r] = RunReport(rows)
  BY <1>1 DEF Gated, Concluded
<1>4. DOMAIN rows = 1 .. n /\ \A k \in 1 .. n : rows[k] = res[k].row
  BY <1>2, <1>3 DEF Gathered, Rows
<1> HIDE DEF names, n, res, rows
<1>5. ASSUME NEW k \in 1 .. n
      PROVE  /\ rows[k].met = Met(rows[k].stats, ThresholdFor(Config(r).thresholds, names[k]))
             /\ db.rows[AggregateId(r, names[k])].stats = rows[k].stats
  <2>1. rows[k].met = Met(rows[k].stats, ThresholdFor(Config(r).thresholds, names[k]))
    BY <1>3, <1>4 DEF Gathered, OwnScores, names
  <2>2. db.rows[AggregateId(r, names[k])].stats = rows[k].stats
    BY <1>1, <1>4, AggregateIsRow DEF names, n, res
  <2> QED
    BY <2>1, <2>2
<1>6. GatePassed(rows) <=>
          \A name \in ToSet(names) :
              Met(db.rows[AggregateId(r, name)].stats, ThresholdFor(Config(r).thresholds, name))
  BY <1>2, <1>4, <1>5 DEF GatePassed
<1>7. ASSUME NEW k \in 1 .. n
      PROVE  /\ junit[r][k] \in {"skipped", "fail", "pass"}
             /\ junit[r][k] = "fail" <=> ~rows[k].met
  <2>1. junit[r][k] = CASE rows[k].stats.n = 0 -> "skipped" [] ~rows[k].met -> "fail" [] OTHER -> "pass"
    BY <1>3, <1>4 DEF RunReport
  <2>2. rows[k].stats.n = 0 => rows[k].met
    BY <1>5 DEF Met
  <2> QED
    BY <2>1, <2>2
<1>8. ToSet(junit[r]) = {junit[r][k] : k \in 1 .. n}
  BY <1>3, <1>4 DEF RunReport, ToSet
<1>9. "fail" \in ToSet(junit[r]) <=> ~GatePassed(rows)
  BY <1>4, <1>7, <1>8 DEF GatePassed
<1>10. "error" \notin ToSet(junit[r])
  BY <1>7, <1>8
<1> QED
  BY <1>3, <1>6, <1>9, <1>10 DEF names

\* A step keeps a run that it leaves where it is, if what it stores is not the run's.
LEMMA GatedStays ==
    ASSUME NEW r, Gated(r), pc'[r] = pc[r], results'[r] = results[r], exit'[r] = exit[r], junit'[r] = junit[r],
           \A s \in RowsOf(db') \ RowsOf(db) : s.id[1] # r
    PROVE  Gated(r)'
<1>1. AllScores(r)' = AllScores(r)
  BY AllScoresStay
<1>2. NamesOf(Config(r))' = NamesOf(Config(r)) /\ Rows(r)' = Rows(r) /\ RowsOf(db)' = RowsOf(db')
  BY DEF NamesOf, Config, Rows, RowsOf
<1>3. CASE pc[r] = "done"
  <2>1. OnlyOwn(r)'
    BY <1>1, <1>2, <1>3 DEF Gated, OnlyOwn
  <2>2. exit'[r] = "error" \/ Concluded(r)'
    BY <1>2, <1>3 DEF Gated, Concluded
  <2>3. Distinct(NamesOf(Config(r)))' /\ Gathered(r, results[r], Len(NamesOf(Config(r))))'
    BY <1>2, <1>3 DEF Gated, Distinct, Gathered
  <2> QED
    BY <1>3, <2>1, <2>2, <2>3 DEF Gated, Gathered
<1>4. CASE pc[r] # "done"
  BY <1>2, <1>4 DEF Gated, Distinct
<1> QED
  BY <1>3, <1>4

\* A step of one run that stores nothing.
Steps(r) ==
    /\ \A s \in Runs \ {r} : pc'[s] = pc[s] /\ results'[s] = results[s] /\ exit'[s] = exit[s] /\ junit'[s] = junit[s]
    /\ pc'[r] # "done" /\ db' = db /\ DOMAIN exit' = Runs /\ DOMAIN junit' = Runs

LEMMA GatesMove ==
    ASSUME Verdicts, NEW r \in Runs, Steps(r),
           \/ pc[r] \in {"opening", "judging", "storing"}
           \/ pc'[r] \in {"failed", "dead"}
           \/ Distinct(NamesOf(Config(r)))
    PROVE  Verdicts'
<1>1. ASSUME NEW s \in Runs \ {r} PROVE Gated(s)'
  BY GatedStays DEF Steps, Verdicts
<1>2. Gated(r)'
  BY DEF Verdicts, Gated, Steps, Distinct, NamesOf, Config
<1> QED
  BY <1>1, <1>2 DEF Verdicts, Steps

LEMMA FailsSteps ==
    ASSUME Paid, Verdicts, NEW r \in Runs, Fails(r), UNCHANGED <<results, db>>
    PROVE  Steps(r) /\ pc'[r] = "failed"
BY DEF Fails, Steps, Paid, Typed, Verdicts

LEMMA BeginGates ==
    ASSUME Paid, Whole, Verdicts, NEW r \in Runs, Begin(r)
    PROVE  Verdicts'
<1>1. CASE ~Loads(Config(r))
  <2>1. Fails(r) /\ UNCHANGED <<results, db>>
    BY <1>1 DEF Begin
  <2> QED
    BY <2>1, FailsSteps, GatesMove
<1>2. CASE Loads(Config(r))
  <2>1. /\ results' = [results EXCEPT ![r] = Tier1(Config(r), Config(r).items, r, clock + 1)]
        /\ pc' = [pc EXCEPT ![r] = IF Config(r).judges = <<>> THEN "storing" ELSE "opening"]
        /\ UNCHANGED <<exit, junit, db>>
    BY <1>2 DEF Begin
  <2>2. Steps(r)
    BY <2>1 DEF Steps, Paid, Typed, Whole, Verdicts
  <2>3. Distinct(NamesOf(Config(r)))
    BY <1>2 DEF Loads
  <2> QED
    BY <2>2, <2>3, GatesMove
<1> QED
  BY <1>1, <1>2

LEMMA OpenCacheGates ==
    ASSUME Paid, Whole, Verdicts, NEW r \in Runs, OpenCache(r)
    PROVE  Verdicts'
<1>1. pc[r] = "opening" /\ UNCHANGED <<results, db>>
  BY DEF OpenCache
<1>2. CASE cacheOwner # None
  <2>1. Fails(r)
    BY <1>2 DEF OpenCache
  <2> QED
    BY <1>1, <2>1, FailsSteps, GatesMove
<1>3. CASE cacheOwner = None
  <2>1. pc' = [pc EXCEPT ![r] = "judging"] /\ UNCHANGED <<exit, junit>>
    BY <1>3 DEF OpenCache
  <2>2. Steps(r)
    BY <1>1, <2>1 DEF Steps, Paid, Typed, Verdicts
  <2> QED
    BY <1>1, <2>2, GatesMove
<1> QED
  BY <1>2, <1>3

LEMMA OutcomeGates ==
    ASSUME Paid, Whole, Verdicts, NEW r \in Runs, pc[r] = "judging", NEW o, Outcome(r, o), UNCHANGED <<exit, junit, db>>
    PROVE  Verdicts'
<1>1. UNCHANGED pc \/ pc' = [pc EXCEPT ![r] = "storing"]
  BY DEF Outcome
<1>2. UNCHANGED results \/ \E x : results' = [results EXCEPT ![r] = x]
  BY DEF Outcome
<1>3. \A s \in Runs \ {r} : pc'[s] = pc[s] /\ results'[s] = results[s]
  BY <1>1, <1>2 DEF Paid, Typed, Whole
<1>4. pc'[r] # "done"
  BY <1>1 DEF Paid, Typed
<1>5. Steps(r)
  BY <1>3, <1>4 DEF Steps, Verdicts
<1> QED
  BY <1>5, GatesMove

\* The transaction, and the exit code from the same rows.
LEMMA PersistGates ==
    ASSUME Paid, Whole, Verdicts, NEW r \in Runs, Persist(r)
    PROVE  Verdicts'
<1> DEFINE n == Len(NamesOf(Config(r)))
           scores == AllScores(r)
<1>1. /\ pc[r] = "storing" /\ pc' = [pc EXCEPT ![r] = "done"]
      /\ UNCHANGED results /\ db' = PutBatch(db, scores)
  BY DEF Persist
<1>2. /\ DOMAIN exit' = Runs /\ DOMAIN junit' = Runs
      /\ \/ exit'[r] = "error"
         \/ /\ exit'[r] = IF GatePassed(Rows(r)) THEN "pass" ELSE "fail"
            /\ junit'[r] = RunReport(Rows(r))
      /\ \A s \in Runs \ {r} : pc'[s] = pc[s] /\ exit'[s] = exit[s] /\ junit'[s] = junit[s]
  <2>1. CASE /\ exit' = [exit EXCEPT ![r] = IF GatePassed(Rows(r)) THEN "pass" ELSE "fail"]
             /\ junit' = [junit EXCEPT ![r] = RunReport(Rows(r))]
    BY <1>1, <2>1 DEF Verdicts, Paid, Typed
  <2>2. CASE exit' = [exit EXCEPT ![r] = "error"] /\ UNCHANGED junit
    BY <1>1, <2>2 DEF Verdicts, Paid, Typed
  <2> QED
    BY <2>1, <2>2 DEF Persist
<1>3. Gathered(r, results[r], n) /\ n \in Nat /\ Distinct(NamesOf(Config(r)))
  BY <1>1, NamesAre DEF Whole, Filling, Due, Named, Verdicts, Gated
<1>4. scores \in Seq(ToSet(scores)) /\ \A s \in ToSet(scores) : s.id[1] = r
  BY <1>3, AllIsGathered
<1> HIDE DEF scores, n
<1>5. RowsOf(db') \subseteq RowsOf(db) \cup ToSet(scores)
  BY <1>1, <1>4, PutBatchIs DEF Whole
<1>6. ASSUME NEW s \in Runs \ {r} PROVE Gated(s)'
  <2>1. \A x \in RowsOf(db') \ RowsOf(db) : x.id[1] # s
    BY <1>4, <1>5
  <2> QED
    BY <1>1, <1>2, <2>1, GatedStays DEF Verdicts
<1>7. OnlyOwn(r)'
  <2>1. \A s \in RowsOf(db) : s.id[1] # r
    BY <1>1 DEF Whole, Kept, StoredOf, RowsOf, IsDb
  <2>2. AllScores(r)' = scores
    BY <1>1, AllScoresStay DEF scores
  <2> QED
    BY <1>5, <2>1, <2>2 DEF OnlyOwn, RowsOf
<1>8. exit'[r] = "error" \/ Concluded(r)'
  <2>1. Rows(r)' = Rows(r)
    BY <1>1 DEF Rows
  <2> QED
    BY <1>2, <2>1 DEF Concluded
<1>9. Gathered(r, results[r], Len(NamesOf(Config(r))))' /\ Distinct(NamesOf(Config(r)))'
  BY <1>1, <1>3 DEF Gathered, NamesOf, Config, Distinct, n
<1>10. Gated(r)'
  BY <1>7, <1>8, <1>9 DEF Gated
<1> QED
  BY <1>2, <1>6, <1>10 DEF Verdicts

\* A label is no run's.
LEMMA LabelGates ==
    ASSUME Whole, Verdicts, PostLabel
    PROVE  Verdicts'
<1>1. PICK label \in Labels : db' = PutBatch(db, <<[label EXCEPT !.ts = clock + 1]>>)
  BY DEF PostLabel
<1>2. UNCHANGED <<pc, results, exit, junit>>
  BY DEF PostLabel, evalVars
<1> DEFINE s == [label EXCEPT !.ts = clock + 1]
<1>3. s.id[1] \notin Runs
  BY IdAssumption
<1> HIDE DEF s
<1>4. <<s>> \in Seq(ToSet(<<s>>)) /\ ToSet(<<s>>) = {s}
  <2>1. <<s>> \in Seq({s}) /\ ToSet(<<s>>) = {s}
    BY DEF ToSet
  <2> QED
    BY <2>1
<1>5. RowsOf(db') \subseteq RowsOf(db) \cup {s}
  <2>1. db' = PutBatch(db, <<s>>)
    BY <1>1 DEF s
  <2> QED
    BY <1>4, <2>1, PutBatchIs DEF Whole
<1>6. ASSUME NEW r \in Runs PROVE Gated(r)'
  <2>1. \A x \in RowsOf(db') \ RowsOf(db) : x.id[1] # r
    BY <1>3, <1>5
  <2> QED
    BY <1>2, <2>1, GatedStays DEF Verdicts
<1> QED
  BY <1>2, <1>6 DEF Verdicts

LEMMA GatesNext == Paid /\ Whole /\ Verdicts /\ [Next]_vars => Verdicts'
<1> SUFFICES ASSUME Paid, Whole, Verdicts, [Next]_vars PROVE Verdicts'
  OBVIOUS
<1>1. ASSUME NEW r \in Runs, Refuse(r) \/ CallFails(r) \/ PersistFails(r) PROVE Verdicts'
  <2>1. /\ Fails(r) /\ UNCHANGED <<results, db>>
    BY <1>1 DEF Refuse, CallFails, PersistFails
  <2> QED
    BY <2>1, FailsSteps, GatesMove
<1>2. ASSUME NEW r \in Runs, Kill(r) PROVE Verdicts'
  <2>1. pc' = [pc EXCEPT ![r] = "dead"] /\ UNCHANGED <<results, exit, junit, db>>
    BY <1>2 DEF Kill
  <2>2. Steps(r) /\ pc'[r] = "dead"
    BY <2>1 DEF Steps, Paid, Typed, Verdicts
  <2> QED
    BY <2>2, GatesMove
<1>3. ASSUME NEW r \in Runs, Spare(r) \/ Answered(r) PROVE Verdicts'
  <2>1. pc[r] = "judging" /\ UNCHANGED <<exit, junit, db>> /\ \E o : Outcome(r, o)
    BY <1>3 DEF Spare, Answered, MustAsk, AtItem
  <2> QED
    BY <2>1, OutcomeGates
<1>4. CASE Serve \/ UNCHANGED vars
  <2>1. UNCHANGED <<pc, results, exit, junit, db>>
    BY <1>4 DEF Serve, vars, evalVars, worldVars
  <2>2. ASSUME NEW r \in Runs PROVE Gated(r)'
    BY <2>1, GatedStays DEF Verdicts
  <2> QED
    BY <2>1, <2>2 DEF Verdicts
<1>5. ASSUME NEW r \in Runs, Begin(r) \/ OpenCache(r) \/ Persist(r) PROVE Verdicts'
  BY <1>5, BeginGates, OpenCacheGates, PersistGates
<1> QED
  BY <1>1, <1>2, <1>3, <1>4, <1>5, LabelGates DEF Next

\* The exit code and the JUnit report are made of the rows whose statistics are
\* stored (eval.rs, finalize_evaluator, run_report; junit.rs): whatever else runs
\* or is labelled since, a run that ended without an error passed exactly when
\* every aggregate stored under its id meets its threshold, and its report has a
\* failure exactly when it did not; as long as nothing named agg shares ids with
\* the aggregates (eval.rs:816).
THEOREM TheGateIsStored ==
    ASSUME AggIsFree
    PROVE  Spec => []GateIsStored
<1>1. Init => Paid /\ Whole /\ Verdicts
  <2>1. Init => Verdicts
    BY DEF Init, Verdicts, Gated
  <2> QED
    BY <2>1, PaidInit, WholeInit
<1>2. (Paid /\ Whole /\ Verdicts) /\ [Next]_vars => (Paid /\ Whole /\ Verdicts)'
  BY PaidNext, WholeNext, GatesNext
<1>3. Paid /\ Whole /\ Verdicts => GateIsStored
  BY GatesShow
<1> QED
  BY <1>1, <1>2, <1>3, PTL DEF Spec
=============================================================================
