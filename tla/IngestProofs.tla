---------------------------- MODULE IngestProofs ----------------------------
(***************************************************************************)
(* What Ingest promises, proved for any requests, posts, capacity and      *)
(* faults: what was acknowledged is stored (AckedIsStored), a call within  *)
(* the ledger's reach is stored once (StoredOnce), nothing raw is stored   *)
(* (NothingRawStored), a strict post is refused for cause                  *)
(* (StrictRejectsOnlyAbsent), and references resolve (ReferencesResolve)   *)
(* while no power is lost and no two writers race for one blob key with    *)
(* different payloads. The folds of the ledger, the window and the score   *)
(* store are reasoned about by the invariants of their prefixes.           *)
(***************************************************************************)
EXTENDS Ingest, FoldFacts, FunctionTheorems, SequenceTheorems

WorkType == [kept : Seq(Nat), keys : Seq(Keys), bodies : Seq(Bodies), probe : 0 .. MaxProbe,
             reach : SUBSET Keys]
Labels == {"new", "prepare", "write", "sync", "queued", "remember", "scores", "replied", "gone"}
Replies == {None, "401", "UNAUTHENTICATED", "400", "INTERNAL"} \cup Success \cup Retryable

\* What reaches the log or a blob has been through the redactor.
Clean(body) == body \in Payloads => Redacted[body] = body

\* A span the log holds or need not hold again: it is owed, or it is the copy
\* of a call that is.
Covered(s, O) == s.id \in IdsIn(O) \/ (s.key # None /\ s.key \in Calls(O))

\* The payload a handler with locals w looks at next.
Load(r, w) == Batch[r].spans[w.kept[Len(w.bodies) + 1]].load

(***************************************************************************)
(* One request's handler, at l with the locals w, while the log owes O.    *)
(***************************************************************************)
HoldsBatch(l) == l \in {"prepare", "write", "sync", "queued", "remember", "scores"}

TypedWork(r, l, w) ==
    /\ w \in WorkType
    /\ ToSet(w.kept) \subseteq DOMAIN Batch[r].spans
    /\ Len(w.bodies) <= Len(w.kept)
    /\ ~HoldsBatch(l) => w = NoWork
    /\ l \in {"write", "sync"} =>
          /\ Len(w.bodies) < Len(w.kept)
          /\ Load(r, w) # None /\ Redacted[Load(r, w)] \in Oversized
    /\ l = "queued" => Len(w.bodies) = Len(w.kept)
    /\ \A b \in ToSet(w.bodies) : Clean(b)

\* The verdict of the filter holds as long as the batch is in hand: a span that
\* does not stay is the copy of a call that is owed, or of one that the batch
\* itself is about to store; and a call comes once, unless the ledger had it out
\* of its reach.
FilteredWork(r, l, w, O) ==
    LET spans == Batch[r].spans IN
    /\ HoldsBatch(l) =>
        /\ \A k \in ToSet(w.keys) : \E i \in ToSet(w.kept) : k = CallOf(spans[i])
        /\ \A i \in DOMAIN spans :
              \/ i \in ToSet(w.kept)
              \/ IsCopy(spans[i]) /\ spans[i].key \in Calls(O) \cup ToSet(w.keys)
    /\ \A m \in 1 .. Len(w.kept) : IsCopy(spans[w.kept[m]]) =>
        /\ spans[w.kept[m]].key \notin w.reach
        /\ \A j \in 1 .. Len(w.kept) : j # m => spans[w.kept[j]].key # spans[w.kept[m]].key

\* Once the writer has answered, the spans that stayed are owed.
AnsweredWork(r, l, w, O) ==
    l \in {"remember", "scores"} => \A i \in ToSet(w.kept) : \E x \in O : x.req = r /\ x.span = i

HandlerOk(r, t, l, w, a, O) ==
    /\ t \in 1 .. MaxTries[r] /\ l \in Labels /\ a \in Replies
    /\ TypedWork(r, l, w)
    /\ FilteredWork(r, l, w, O)
    /\ AnsweredWork(r, l, w, O)
    /\ a \in Success => \A i \in DOMAIN Batch[r].spans : Covered(Batch[r].spans[i], O)

(***************************************************************************)
(* One post, at l, when kn was owed as it began.                           *)
(***************************************************************************)
Absent(p, kn) ==
    \E item \in ToSet(Posted[p].items) :
        \/ item.ids["span"] # None /\ item.ids["span"] \notin kn
        \/ item.ids["trace"] # None /\ \A s \in kn : TraceOf[s] # item.ids["trace"]
        \/ item.ids["span"] # None /\ TraceOf[item.ids["span"]] # item.ids["trace"]

PostOk(p, l, rd, a, kn, O) ==
    /\ l \in {"new", "check", "put", "replied", "gone"}
    /\ l = "new" => DOMAIN rd = {} /\ a = None
    /\ l = "check" => kn \subseteq IdsIn(O)
    /\ \A t \in DOMAIN rd : rd[t] = None \/ {s \in kn : TraceOf[s] = t} \subseteq rd[t]
    /\ a = "dangling" => Absent(p, kn)

(***************************************************************************)
(* The parts of the inductive invariant.                                   *)
(***************************************************************************)
HandlersOk ==
    /\ try = [r \in Requests |-> try[r]] /\ pc = [r \in Requests |-> pc[r]]
    /\ work = [r \in Requests |-> work[r]] /\ reply = [r \in Requests |-> reply[r]]
    /\ \A r \in Requests : HandlerOk(r, try[r], pc[r], work[r], reply[r], owed)

PostsOk ==
    /\ ppc = [p \in Posts |-> ppc[p]] /\ read = [p \in Posts |-> read[p]]
    /\ answer = [p \in Posts |-> answer[p]] /\ known = [p \in Posts |-> known[p]]
    /\ \A p \in Posts : PostOk(p, ppc[p], read[p], answer[p], known[p], owed)

\* The log: a running store returns what it owes, and nothing in it is raw.
LogOk ==
    /\ up \in BOOLEAN /\ blocked \in BOOLEAN /\ low \in BOOLEAN
    /\ visible \subseteq Records /\ owed \subseteq Records /\ limbo \subseteq Records
    /\ \A b \in channel : b \subseteq Records
    /\ up => owed \subseteq visible
    /\ \A x \in visible \cup owed \cup limbo : Clean(x.body)
    /\ \A b \in channel : \A x \in b : Clean(x.body)

BlobsOk ==
    /\ unsynced \subseteq DOMAIN blobs
    /\ \A k \in DOMAIN blobs : k \in BlobKeys /\ blobs[k] \in Payloads /\ Redacted[blobs[k]] = blobs[k]

\* The ledger's queue has each key once, and the window of a key is the keys
\* behind it in the queue. Only calls that are owed are remembered.
Behind(q, n) == {q[m] : m \in (n + 1) .. Len(q)}
WindowIsExact(q, w) ==
    /\ \A m, n \in 1 .. Len(q) : m # n => q[m] # q[n]
    /\ \A k \in Keys : k \notin ToSet(q) => w[k] = None
    /\ \A n \in 1 .. Len(q) : w[q[n]] = Behind(q, n)
WindowType == [Keys -> (SUBSET Keys) \cup {None}]
LedgerOk ==
    /\ ledger \in Seq(Keys) /\ window \in WindowType
    /\ Len(ledger) <= Capacity /\ WindowIsExact(ledger, window)
    /\ ToSet(ledger) \subseteq Calls(owed)

\* The scores the requests and the posts carry, and the tables over them. A
\* score that came with spans is about a span that is owed.
PostedScores(p) == {ScoreOf(item, "api") : item \in ToSet(Posted[p].items)}
Scores ==
    (UNION {ToSet(Batch[r].scores) : r \in Requests}) \cup UNION {PostedScores(p) : p \in Posts}
ScoreIds == {s.id : s \in Scores}
DbType == [rows : UNION {[D -> Scores] : D \in SUBSET ScoreIds},
           byTarget : SUBSET ({s.target : s \in Scores} \X ScoreIds)]
ScoresOk ==
    /\ db \in DbType /\ TablesAgree(db)
    /\ \A id \in DOMAIN db.rows : db.rows[id].source = "eval" => db.rows[id].target[2] \in IdsIn(owed)

\* The inductive invariant.
IInv == LogOk /\ HandlersOk /\ PostsOk /\ BlobsOk /\ LedgerOk /\ ScoresOk
----------------------------------------------------------------------------
(***************************************************************************)
(* Sequences, and the score store.                                         *)
(***************************************************************************)

\* The members of a sequence, and of one with an element more.
LEMMA Members ==
    ASSUME NEW S, NEW s \in Seq(S)
    PROVE  /\ ToSet(s) \subseteq S
           /\ \A i \in 1 .. Len(s) : s[i] \in ToSet(s)
           /\ \A x \in ToSet(s) : \E i \in 1 .. Len(s) : x = s[i]
           /\ \A x : ToSet(Append(s, x)) = ToSet(s) \cup {x}
<1>1. DOMAIN s = 1 .. Len(s) /\ Len(s) \in Nat /\ \A i \in 1 .. Len(s) : s[i] \in S
  OBVIOUS
<1>2. ASSUME NEW x PROVE ToSet(Append(s, x)) = ToSet(s) \cup {x}
  <2>1. s \in Seq(S \cup {x})
    BY <1>1
  <2>2. /\ DOMAIN Append(s, x) = 1 .. Len(s) + 1 /\ Append(s, x)[Len(s) + 1] = x
        /\ \A i \in 1 .. Len(s) : Append(s, x)[i] = s[i]
    BY <2>1
  <2>3. \A i \in 1 .. Len(s) + 1 : i \in 1 .. Len(s) \/ i = Len(s) + 1
    BY <1>1
  <2>4. \A y \in ToSet(Append(s, x)) : y \in ToSet(s) \cup {x}
    BY <1>1, <2>2, <2>3 DEF ToSet
  <2>5. 1 .. Len(s) \subseteq 1 .. Len(s) + 1 /\ Len(s) + 1 \in 1 .. Len(s) + 1
    BY <1>1
  <2>6. \A y \in ToSet(s) : y \in ToSet(Append(s, x))
    BY <1>1, <2>2, <2>5 DEF ToSet
  <2>7. x \in ToSet(Append(s, x))
    BY <2>2, <2>5 DEF ToSet
  <2> QED
    BY <2>4, <2>6, <2>7
<1> QED
  BY <1>1, <1>2 DEF ToSet

\* A score put in a well-formed store leaves it well formed, with its row
\* added and the two tables in agreement.
LEMMA PutOneKeeps ==
    ASSUME NEW d \in DbType, NEW s \in Scores
    PROVE  /\ PutOne(d, s) \in DbType
           /\ DOMAIN PutOne(d, s).rows = DOMAIN d.rows \cup {s.id}
           /\ PutOne(d, s).rows[s.id] = s
           /\ \A id \in DOMAIN d.rows \ {s.id} : PutOne(d, s).rows[id] = d.rows[id]
           /\ TablesAgree(d) => TablesAgree(PutOne(d, s))
<1> DEFINE Rows == UNION {[D -> Scores] : D \in SUBSET ScoreIds}
           rows == Bind(d.rows, s.id, s)
           moved == s.id \in DOMAIN d.rows /\ d.rows[s.id].target # s.target
           stale == IF moved THEN {<<d.rows[s.id].target, s.id>>} ELSE {}
           tab == (d.byTarget \ stale) \cup {<<s.target, s.id>>}
<1>1. PutOne(d, s) = [rows |-> rows, byTarget |-> tab]
  BY DEF PutOne
<1>2. d.rows \in Rows /\ d.byTarget \subseteq {c.target : c \in Scores} \X ScoreIds
  BY DEF DbType
<1>3. PICK D \in SUBSET ScoreIds : d.rows \in [D -> Scores]
  BY <1>2
<1>4. s.id \in ScoreIds /\ s.target \in {c.target : c \in Scores}
  BY DEF ScoreIds
<1>5. /\ DOMAIN rows = D \cup {s.id} /\ rows[s.id] = s
      /\ \A x \in D : x # s.id => rows[x] = d.rows[x]
      /\ rows \in [D \cup {s.id} -> Scores]
  BY <1>3 DEF Bind
<1>6. rows \in [D \cup {s.id} -> Scores] /\ D \cup {s.id} \in SUBSET ScoreIds
  BY <1>3, <1>4, <1>5
<1>7. rows \in Rows
  BY <1>6
<1>8. tab \subseteq {c.target : c \in Scores} \X ScoreIds
  BY <1>2, <1>4
<1>9. PutOne(d, s) \in DbType
  BY <1>1, <1>7, <1>8 DEF DbType
<1>10. ASSUME TablesAgree(d) PROVE TablesAgree(PutOne(d, s))
  <2>1. d.byTarget = {<<d.rows[id].target, id>> : id \in D}
    BY <1>10, <1>3 DEF TablesAgree
  <2>2. \A e \in tab : \E id \in D \cup {s.id} : e = <<rows[id].target, id>>
    <3> TAKE e \in tab
    <3>1. CASE e = <<s.target, s.id>>
      BY <3>1, <1>5
    <3>2. CASE e # <<s.target, s.id>>
      <4>1. PICK id \in D : e = <<d.rows[id].target, id>>
        BY <3>2, <2>1
      <4>2. id # s.id
        BY <3>2, <4>1, <1>3
      <4> QED
        BY <4>1, <4>2, <1>5
    <3> QED
      BY <3>1, <3>2
  <2>3. \A id \in D \cup {s.id} : <<rows[id].target, id>> \in tab
    <3> TAKE id \in D \cup {s.id}
    <3>1. CASE id = s.id
      BY <3>1, <1>5
    <3>2. CASE id # s.id
      <4>1. rows[id] = d.rows[id] /\ id \in D
        BY <3>2, <1>5
      <4> QED
        BY <4>1, <3>2, <2>1
    <3> QED
      BY <3>1, <3>2
  <2>4. tab = {<<rows[id].target, id>> : id \in D \cup {s.id}}
    BY <2>2, <2>3
  <2> QED
    BY <2>4, <1>1, <1>6 DEF TablesAgree
<1> QED
  BY <1>1, <1>3, <1>5, <1>9, <1>10

\* PutBatch is a run of PutOne, whose results stay in Y.
StaysIn(Y, scores, n) == \A e \in Y, i \in 1 .. n : PutOne(e, scores[i]) \in Y

LEMMA PutBatchRuns ==
    ASSUME NEW Y, NEW d \in Y, NEW n \in Nat, NEW scores, DOMAIN scores = 1 .. n,
           StaysIn(Y, scores, n)
    PROVE  \E g \in [0 .. n -> Y] : /\ g[0] = d /\ \A i \in 1 .. n : g[i] = PutOne(g[i - 1], scores[i])
                                    /\ PutBatch(d, scores) = g[n]
<1> DEFINE step == [i \in 1 .. n |-> [e \in Y |-> PutOne(e, scores[i])]]
           Rec(it) == it = [T \in SUBSET (DOMAIN scores) |->
                              IF T = {} THEN d ELSE PutOne(it[T \ {Max(T)}], scores[Max(T)])]
           fold == CHOOSE it : Rec(it)
<1>1. step \in [1 .. n -> [Y -> Y]]
  BY DEF StaysIn
<1>2. PICK it \in [SUBSET (1 .. n) -> Y] : FoldEquation(it, n, d, step)
  <2> HIDE DEF step
  <2> QED
    BY <1>1, FoldLeftExists
<1>3. \A T \in SUBSET (1 .. n) : T # {} => Max(T) \in 1 .. n /\ T \ {Max(T)} \in SUBSET (1 .. n)
  BY MaxOfIndices
<1>4. Rec(it)
  BY <1>2, <1>3 DEF FoldEquation
<1>5. Rec(fold)
  BY <1>4
<1>6. PutBatch(d, scores) = fold[1 .. n]
  BY DEF PutBatch, FoldLeft, MapThenFoldSet
<1>7. FollowsFold(fold, n, Y, d, step)
  <2> HIDE DEF fold
  <2> QED
    BY <1>3, <1>5 DEF FollowsFold
<1> HIDE DEF fold, Rec, step
<1>8. \E g : RunsThrough(g, n, Y, d, step) /\ fold[1 .. n] = g[n]
  BY <1>1, <1>7, FoldRun
<1>9. PICK g : RunsThrough(g, n, Y, d, step) /\ fold[1 .. n] = g[n]
  BY <1>8
<1>10. \A i \in 1 .. n : i - 1 \in 0 .. n /\ \A e \in Y : step[i][e] = PutOne(e, scores[i])
  BY DEF step
<1>11. g \in [0 .. n -> Y] /\ g[0] = d /\ \A i \in 1 .. n : g[i] = PutOne(g[i - 1], scores[i])
  BY <1>9, <1>10 DEF RunsThrough
<1> QED
  BY <1>6, <1>9, <1>11

\* So a batch keeps the score store well formed, whatever ids it names twice or
\* puts under other targets, and every row is an old one or one of the batch.
LEMMA PutBatchKeeps ==
    ASSUME NEW d \in DbType, NEW n \in Nat, NEW scores, DOMAIN scores = 1 .. n,
           \A i \in 1 .. n : scores[i] \in Scores
    PROVE  /\ PutBatch(d, scores) \in DbType
           /\ TablesAgree(d) => TablesAgree(PutBatch(d, scores))
           /\ \A id \in DOMAIN PutBatch(d, scores).rows :
                 \/ id \in DOMAIN d.rows /\ PutBatch(d, scores).rows[id] = d.rows[id]
                 \/ \E i \in 1 .. n : PutBatch(d, scores).rows[id] = scores[i]
<1> DEFINE Fine(e) == /\ TablesAgree(d) => TablesAgree(e)
                      /\ \A id \in DOMAIN e.rows :
                            \/ id \in DOMAIN d.rows /\ e.rows[id] = d.rows[id]
                            \/ \E i \in 1 .. n : e.rows[id] = scores[i]
<1>1. StaysIn(DbType, scores, n)
  BY PutOneKeeps DEF StaysIn
<1>2. d \in DbType /\ n \in Nat /\ DOMAIN scores = 1 .. n
  OBVIOUS
<1>3. \E g \in [0 .. n -> DbType] :
        /\ g[0] = d /\ \A i \in 1 .. n : g[i] = PutOne(g[i - 1], scores[i])
        /\ PutBatch(d, scores) = g[n]
  BY ONLY <1>1, <1>2, PutBatchRuns, SMT
<1>4. PICK g \in [0 .. n -> DbType] :
        /\ g[0] = d /\ \A i \in 1 .. n : g[i] = PutOne(g[i - 1], scores[i])
        /\ PutBatch(d, scores) = g[n]
  BY <1>3
<1>5. \A i \in 1 .. n : i - 1 \in 0 .. n
  OBVIOUS
<1> DEFINE G == {i \in 0 .. n : Fine(g[i])}
<1>6. 0 \in G
  BY <1>4
<1>7. ASSUME NEW i \in 1 .. n, i - 1 \in G PROVE i \in G
  <2>1. g[i - 1] \in DbType /\ scores[i] \in Scores /\ Fine(g[i - 1]) /\ i \in 0 .. n
    BY <1>5, <1>7
  <2>2. /\ DOMAIN g[i].rows = DOMAIN g[i - 1].rows \cup {scores[i].id}
        /\ g[i].rows[scores[i].id] = scores[i]
        /\ \A id \in DOMAIN g[i - 1].rows \ {scores[i].id} : g[i].rows[id] = g[i - 1].rows[id]
        /\ TablesAgree(g[i - 1]) => TablesAgree(g[i])
    BY <1>4, <2>1, PutOneKeeps
  <2> QED
    BY <2>1, <2>2
<1>8. 0 .. n \subseteq G
  <2> HIDE DEF G
  <2> QED
    BY <1>6, <1>7, IntervalInduction
<1>9. Fine(g[n]) /\ g[n] \in DbType
  BY <1>4, <1>8
<1> QED
  BY <1>4, <1>9

----------------------------------------------------------------------------
(***************************************************************************)
(* The ledger.                                                             *)
(***************************************************************************)

\* One key pushed, and noted in the window.
LEMMA PushKeeps ==
    ASSUME NEW q \in Seq(Keys), NEW w \in WindowType, NEW k \in Keys, WindowIsExact(q, w)
    PROVE  /\ Pushed(q, k) \in Seq(Keys) /\ Noted(w, k) \in WindowType
           /\ WindowIsExact(Pushed(q, k), Noted(w, k))
           /\ ToSet(Pushed(q, k)) \subseteq ToSet(q) \cup {k}
<1>1. Noted(w, k) \in WindowType
  BY DEF Noted, WindowType
<1>2. \A i \in 1 .. Len(q) : q[i] \in Keys /\ q[i] \in ToSet(q)
  BY Members
<1>3. \A n \in Nat : Behind(q, n) \subseteq Keys
  BY <1>2 DEF Behind
<1>4. CASE k \in ToSet(q)
  <2>1. PICK n \in 1 .. Len(q) : k = q[n]
    BY <1>4, Members
  <2>2. w[k] # None
    BY <2>1, <1>3, NoneAssumption DEF WindowIsExact
  <2>3. Noted(w, k) = w
    BY <2>2 DEF Noted, WindowType
  <2> QED
    BY <1>4, <1>1, <2>3 DEF Pushed
<1>5. CASE k \notin ToSet(q)
  <2> DEFINE p == Append(q, k)
             v == Noted(w, k)
  <2>1. w[k] = None
    BY <1>5 DEF WindowIsExact
  <2>2. /\ p \in Seq(Keys) /\ Len(p) = Len(q) + 1 /\ p[Len(p)] = k /\ Len(q) \in Nat
        /\ \A i \in 1 .. Len(q) : p[i] = q[i]
    OBVIOUS
  <2>3. ToSet(p) = ToSet(q) \cup {k}
    BY Members
  <2>4. \A m, n \in 1 .. Len(p) : m # n => p[m] # p[n]
    <3>1. \A n \in 1 .. Len(p) : n \in 1 .. Len(q) \/ n = Len(p)
      BY <2>2
    <3> QED
      BY <2>2, <3>1, <1>2, <1>5 DEF WindowIsExact
  <2>5. \A j \in Keys : j \notin ToSet(p) => v[j] = None
    BY <2>3, <2>1 DEF WindowIsExact, Noted
  <2>6. \A n \in 1 .. Len(q) : Behind(p, n) = Behind(q, n) \cup {k}
    <3> TAKE n \in 1 .. Len(q)
    <3>1. (n + 1) .. Len(p) = ((n + 1) .. Len(q)) \cup {Len(p)}
      BY <2>2
    <3>2. \A m \in (n + 1) .. Len(q) : p[m] = q[m]
      BY <2>2
    <3> HIDE DEF p
    <3> QED
      BY <2>2, <3>1, <3>2 DEF Behind
  <2>7. \A n \in 1 .. Len(q) : v[p[n]] = Behind(p, n)
    <3> TAKE n \in 1 .. Len(q)
    <3>1. q[n] # k /\ q[n] \in Keys /\ w[q[n]] = Behind(q, n) /\ Behind(q, n) # None
      BY <1>2, <1>3, <1>5, NoneAssumption DEF WindowIsExact
    <3>2. v[q[n]] = w[q[n]] \cup {k}
      BY <3>1, <2>1 DEF Noted
    <3> QED
      BY <3>1, <3>2, <2>2, <2>6
  <2>8. v[p[Len(p)]] = Behind(p, Len(p))
    <3>1. v[k] = {}
      BY <2>1 DEF Noted
    <3>2. (Len(p) + 1) .. Len(p) = {}
      BY <2>2
    <3> QED
      BY <3>1, <3>2, <2>2 DEF Behind
  <2>9. \A n \in 1 .. Len(p) : v[p[n]] = Behind(p, n)
    <3>1. \A n \in 1 .. Len(p) : n \in 1 .. Len(q) \/ n = Len(p)
      BY <2>2
    <3> QED
      BY <3>1, <2>7, <2>8
  <2> QED
    BY <1>5, <1>1, <2>2, <2>3, <2>4, <2>5, <2>9 DEF Pushed, WindowIsExact
<1> QED
  BY <1>4, <1>5

\* A run of pushes, and of notes.
LEMMA PushesRun ==
    ASSUME NEW q \in Seq(Keys), NEW ks \in Seq(Keys)
    PROVE  \E g \in [0 .. Len(ks) -> Seq(Keys)] :
              /\ g[0] = q /\ \A i \in 1 .. Len(ks) : g[i] = Pushed(g[i - 1], ks[i])
              /\ FoldLeft(Pushed, q, ks) = g[Len(ks)]
<1> DEFINE n == Len(ks)
           Y == Seq(Keys)
           step == [i \in 1 .. n |-> [e \in Y |-> Pushed(e, ks[i])]]
           Rec(it) == it = [T \in SUBSET (DOMAIN ks) |->
                              IF T = {} THEN q ELSE Pushed(it[T \ {Max(T)}], ks[Max(T)])]
           fold == CHOOSE it : Rec(it)
<1>0. n \in Nat /\ DOMAIN ks = 1 .. n /\ \A i \in 1 .. n : ks[i] \in Keys
  OBVIOUS
<1>1. step \in [1 .. n -> [Y -> Y]]
  BY <1>0 DEF Pushed
<1>2. PICK it \in [SUBSET (1 .. n) -> Y] : FoldEquation(it, n, q, step)
  <2> HIDE DEF step, n, Y
  <2>1. q \in Y
    BY DEF Y
  <2> QED
    BY <1>0, <1>1, <2>1, FoldLeftExists
<1>3. \A T \in SUBSET (1 .. n) : T # {} => Max(T) \in 1 .. n /\ T \ {Max(T)} \in SUBSET (1 .. n)
  BY <1>0, MaxOfIndices
<1>4. Rec(it)
  BY <1>0, <1>2, <1>3 DEF FoldEquation
<1>5. Rec(fold)
  BY <1>4
<1>6. FoldLeft(Pushed, q, ks) = fold[1 .. n]
  BY <1>0 DEF FoldLeft, MapThenFoldSet
<1>7. FollowsFold(fold, n, Y, q, step)
  <2> HIDE DEF fold
  <2> QED
    BY <1>0, <1>3, <1>5 DEF FollowsFold
<1>8. q \in Y
  OBVIOUS
<1> HIDE DEF fold, Rec, step, n, Y
<1>9. PICK g : RunsThrough(g, n, Y, q, step) /\ fold[1 .. n] = g[n]
  BY <1>0, <1>1, <1>7, <1>8, FoldRun
<1>10. \A i \in 1 .. n : i - 1 \in 0 .. n /\ \A e \in Y : step[i][e] = Pushed(e, ks[i])
  BY <1>0 DEF step
<1>11. g \in [0 .. n -> Y] /\ g[0] = q /\ \A i \in 1 .. n : g[i] = Pushed(g[i - 1], ks[i])
  BY <1>9, <1>10 DEF RunsThrough
<1> QED
  BY <1>6, <1>9, <1>11 DEF n, Y

LEMMA NotesRun ==
    ASSUME NEW w \in WindowType, NEW ks \in Seq(Keys)
    PROVE  \E g \in [0 .. Len(ks) -> WindowType] :
              /\ g[0] = w /\ \A i \in 1 .. Len(ks) : g[i] = Noted(g[i - 1], ks[i])
              /\ FoldLeft(Noted, w, ks) = g[Len(ks)]
<1> DEFINE n == Len(ks)
           Y == WindowType
           step == [i \in 1 .. n |-> [e \in Y |-> Noted(e, ks[i])]]
           Rec(it) == it = [T \in SUBSET (DOMAIN ks) |->
                              IF T = {} THEN w ELSE Noted(it[T \ {Max(T)}], ks[Max(T)])]
           fold == CHOOSE it : Rec(it)
<1>0. n \in Nat /\ DOMAIN ks = 1 .. n /\ \A i \in 1 .. n : ks[i] \in Keys
  OBVIOUS
<1>1. step \in [1 .. n -> [Y -> Y]]
  <2>1. \A e \in Y, k \in Keys : Noted(e, k) \in Y
    BY DEF Noted, WindowType
  <2> QED
    BY <1>0, <2>1
<1>2. PICK it \in [SUBSET (1 .. n) -> Y] : FoldEquation(it, n, w, step)
  <2> HIDE DEF step, n, Y
  <2>1. w \in Y
    BY DEF Y
  <2> QED
    BY <1>0, <1>1, <2>1, FoldLeftExists
<1>3. \A T \in SUBSET (1 .. n) : T # {} => Max(T) \in 1 .. n /\ T \ {Max(T)} \in SUBSET (1 .. n)
  BY <1>0, MaxOfIndices
<1>4. Rec(it)
  BY <1>0, <1>2, <1>3 DEF FoldEquation
<1>5. Rec(fold)
  BY <1>4
<1>6. FoldLeft(Noted, w, ks) = fold[1 .. n]
  BY <1>0 DEF FoldLeft, MapThenFoldSet
<1>7. FollowsFold(fold, n, Y, w, step)
  <2> HIDE DEF fold
  <2> QED
    BY <1>0, <1>3, <1>5 DEF FollowsFold
<1>8. w \in Y
  OBVIOUS
<1> HIDE DEF fold, Rec, step, n, Y
<1>9. PICK g : RunsThrough(g, n, Y, w, step) /\ fold[1 .. n] = g[n]
  BY <1>0, <1>1, <1>7, <1>8, FoldRun
<1>10. \A i \in 1 .. n : i - 1 \in 0 .. n /\ \A e \in Y : step[i][e] = Noted(e, ks[i])
  BY <1>0 DEF step
<1>11. g \in [0 .. n -> Y] /\ g[0] = w /\ \A i \in 1 .. n : g[i] = Noted(g[i - 1], ks[i])
  BY <1>9, <1>10 DEF RunsThrough
<1> QED
  BY <1>6, <1>9, <1>11 DEF n, Y

\* The whole of a batch's keys.
LEMMA PushesKeep ==
    ASSUME NEW q \in Seq(Keys), NEW w \in WindowType, NEW ks \in Seq(Keys), WindowIsExact(q, w)
    PROVE  /\ FoldLeft(Pushed, q, ks) \in Seq(Keys) /\ FoldLeft(Noted, w, ks) \in WindowType
           /\ WindowIsExact(FoldLeft(Pushed, q, ks), FoldLeft(Noted, w, ks))
           /\ ToSet(FoldLeft(Pushed, q, ks)) \subseteq ToSet(q) \cup ToSet(ks)
<1> DEFINE n == Len(ks)
<1>0. n \in Nat /\ \A i \in 1 .. n : ks[i] \in Keys /\ ks[i] \in ToSet(ks) /\ i - 1 \in 0 .. n
  BY Members
<1>1. PICK g \in [0 .. n -> Seq(Keys)] :
        /\ g[0] = q /\ \A i \in 1 .. n : g[i] = Pushed(g[i - 1], ks[i])
        /\ FoldLeft(Pushed, q, ks) = g[n]
  BY PushesRun
<1>2. PICK h \in [0 .. n -> WindowType] :
        /\ h[0] = w /\ \A i \in 1 .. n : h[i] = Noted(h[i - 1], ks[i])
        /\ FoldLeft(Noted, w, ks) = h[n]
  BY NotesRun
<1> DEFINE Fine(p, v) == WindowIsExact(p, v) /\ ToSet(p) \subseteq ToSet(q) \cup ToSet(ks)
           G == {i \in 0 .. n : Fine(g[i], h[i])}
<1> HIDE DEF n
<1>3. 0 \in G
  BY <1>0, <1>1, <1>2
<1>4. ASSUME NEW i \in 1 .. n, i - 1 \in G PROVE i \in G
  <2>1. g[i - 1] \in Seq(Keys) /\ h[i - 1] \in WindowType /\ ks[i] \in Keys /\ i \in 0 .. n
    BY <1>0, <1>1, <1>2
  <2>2. WindowIsExact(g[i - 1], h[i - 1]) /\ ToSet(g[i - 1]) \subseteq ToSet(q) \cup ToSet(ks)
    BY <1>4
  <2>3. g[i] = Pushed(g[i - 1], ks[i]) /\ h[i] = Noted(h[i - 1], ks[i])
    BY <1>1, <1>2
  <2>4. WindowIsExact(g[i], h[i]) /\ ToSet(g[i]) \subseteq ToSet(g[i - 1]) \cup {ks[i]}
    BY ONLY <2>1, <2>2, <2>3, PushKeeps, SMT
  <2> QED
    BY <1>0, <2>1, <2>2, <2>4
<1>5. 0 .. n \subseteq G
  <2> HIDE DEF G
  <2> QED
    BY <1>0, <1>3, <1>4, IntervalInduction
<1>6. Fine(g[n], h[n]) /\ n \in 0 .. n
  BY <1>0, <1>5
<1> QED
  BY <1>1, <1>2, <1>6 DEF n

\* As many keys are behind one in the queue as there are places.
LEMMA BehindCount ==
    ASSUME NEW q \in Seq(Keys), NEW n \in 1 .. Len(q),
           \A i, j \in 1 .. Len(q) : i # j => q[i] # q[j]
    PROVE  Cardinality(Behind(q, n)) = Len(q) - n
<1> DEFINE S == (n + 1) .. Len(q)
           T == Behind(q, n)
           f == [m \in S |-> q[m]]
<1>1. Len(q) \in Nat /\ n \in Nat /\ n <= Len(q) /\ S \subseteq 1 .. Len(q)
  OBVIOUS
<1>2. f \in Bijection(S, T)
  <2>1. f \in [S -> T] /\ \A t \in T : \E m \in S : f[m] = t
    BY DEF Behind
  <2>2. \A i, j \in S : f[i] = f[j] => i = j
    BY <1>1
  <2> HIDE DEF f, S, T
  <2> QED
    BY <2>1, <2>2 DEF Bijection, Injection, Surjection, IsInjective
<1>3. IsFiniteSet(S) /\ Cardinality(S) = Len(q) - n
  <2>1. n + 1 \in Int /\ Len(q) \in Int
    BY <1>1
  <2>2. IsFiniteSet(S) /\ Cardinality(S) = IF n + 1 > Len(q) THEN 0 ELSE Len(q) - (n + 1) + 1
    BY <2>1, FS_Interval
  <2> QED
    BY <1>1, <2>2
<1> HIDE DEF S, T, f
<1>4. IsFiniteSet(T) /\ Cardinality(T) = Cardinality(S)
  <2>1. ExistsBijection(S, T)
    BY <1>2, Fun_ExistsBij
  <2> QED
    BY ONLY <1>3, <2>1, FS_Bijection, SMT
<1> QED
  BY <1>3, <1>4 DEF T

\* What CallLedger::remember leaves: a queue of distinct keys within the
\* capacity, and for each key in it exactly the keys remembered since.
LEMMA RememberKeeps ==
    ASSUME NEW q \in Seq(Keys), NEW w \in WindowType, NEW ks \in Seq(Keys), WindowIsExact(q, w)
    PROVE  /\ Remembered(q, ks) \in Seq(Keys) /\ Reach(w, ks) \in WindowType
           /\ Len(Remembered(q, ks)) <= Capacity
           /\ WindowIsExact(Remembered(q, ks), Reach(w, ks))
           /\ ToSet(Remembered(q, ks)) \subseteq ToSet(q) \cup ToSet(ks)
<1> DEFINE p == FoldLeft(Pushed, q, ks)
           v == FoldLeft(Noted, w, ks)
           L == Len(p)
           d == IF L > Capacity THEN L - Capacity ELSE 0
           t == Remembered(q, ks)
           u == Reach(w, ks)
<1>1. /\ p \in Seq(Keys) /\ v \in WindowType /\ WindowIsExact(p, v)
      /\ ToSet(p) \subseteq ToSet(q) \cup ToSet(ks)
  BY PushesKeep
<1>2. t = Trim(p)
  BY DEF Remembered
<1>3. u = [j \in Keys |-> IF v[j] # None /\ Cardinality(v[j]) >= Capacity THEN None ELSE v[j]]
  BY DEF Reach
<1> HIDE DEF p, v, t, u
<1>4. Capacity \in Nat /\ Capacity # 0 /\ L \in Nat /\ d \in Nat /\ d <= L
  BY <1>1, IngestAssumption
<1>5. t = SubSeq(p, d + 1, L)
  BY <1>2, <1>4 DEF Trim
<1>6. /\ t \in Seq(Keys) /\ Len(t) = L - d /\ \A m \in 1 .. (L - d) : t[m] = p[m + d]
  <2>1. \A i \in (d + 1) .. L : p[i] \in Keys
    BY <1>1, <1>4
  <2>2. d + 1 \in Int /\ L \in Int
    BY <1>4
  <2> HIDE DEF d, L
  <2>3. /\ SubSeq(p, d + 1, L) \in Seq(Keys)
        /\ Len(SubSeq(p, d + 1, L)) = IF d + 1 <= L THEN L - (d + 1) + 1 ELSE 0
        /\ \A i \in 1 .. L - (d + 1) + 1 : SubSeq(p, d + 1, L)[i] = p[d + 1 + i - 1]
    BY <2>1, <2>2, SubSeqProperties
  <2> QED
    BY <2>3, <1>4, <1>5
<1>7. L - d <= Capacity
  BY <1>4
<1>8. \A n \in 1 .. L : p[n] \in Keys /\ p[n] \in ToSet(p) /\ v[p[n]] = Behind(p, n)
                        /\ Cardinality(Behind(p, n)) = L - n
  BY <1>1, Members, BehindCount DEF WindowIsExact
<1>9. \A k \in ToSet(p) : \E n \in 1 .. L : k = p[n]
  BY <1>1, Members
<1>10. \A k \in ToSet(t) : \E n \in 1 .. (L - d) : k = t[n]
  BY <1>6, Members
<1>11. \A n \in 1 .. (L - d) : t[n] \in ToSet(t)
  BY <1>6, Members
<1>12. \A n \in 1 .. L : n <= d => u[p[n]] = None
  <2> TAKE n \in 1 .. L
  <2> SUFFICES ASSUME n <= d PROVE u[p[n]] = None
    OBVIOUS
  <2>1. L - n >= Capacity
    BY <1>4
  <2> HIDE DEF d, L
  <2> QED
    BY <2>1, <1>3, <1>8
<1>13. \A n \in 1 .. L : n > d => u[p[n]] = Behind(p, n)
  <2> TAKE n \in 1 .. L
  <2> SUFFICES ASSUME n > d PROVE u[p[n]] = Behind(p, n)
    OBVIOUS
  <2>1. ~(L - n >= Capacity)
    BY <1>4
  <2> HIDE DEF d, L
  <2> QED
    BY <2>1, <1>3, <1>8
<1> HIDE DEF d, L
<1>14. \A m \in 1 .. (L - d) : m + d \in 1 .. L /\ m + d > d
  BY <1>4
<1>15. \A m \in 1 .. (L - d) : Behind(t, m) = Behind(p, m + d)
  <2> TAKE m \in 1 .. (L - d)
  <2>1. \A i \in (m + 1) .. (L - d) : t[i] = p[i + d] /\ i + d \in (m + d + 1) .. L
    BY <1>4, <1>6
  <2>2. \A i \in (m + d + 1) .. L : i - d \in (m + 1) .. (L - d) /\ t[i - d] = p[i]
    BY <1>4, <1>6
  <2> QED
    BY <2>1, <2>2, <1>6 DEF Behind, L
<1>16. \A m \in 1 .. (L - d) : u[t[m]] = Behind(t, m)
  BY <1>6, <1>13, <1>14, <1>15
<1>17. \A m, n \in 1 .. (L - d) : m # n => t[m] # t[n]
  <2> TAKE m, n \in 1 .. (L - d)
  <2> SUFFICES ASSUME m # n PROVE t[m] # t[n]
    OBVIOUS
  <2>1. m + d # n + d /\ m + d \in 1 .. L /\ n + d \in 1 .. L
    BY <1>4, <1>14
  <2> QED
    BY <2>1, <1>1, <1>6 DEF WindowIsExact, L
<1>18. \A k \in Keys : k \notin ToSet(t) => u[k] = None
  <2> TAKE k \in Keys
  <2> SUFFICES ASSUME k \notin ToSet(t) PROVE u[k] = None
    OBVIOUS
  <2>1. CASE k \notin ToSet(p)
    BY <2>1, <1>1, <1>3 DEF WindowIsExact
  <2>2. CASE k \in ToSet(p)
    <3>1. PICK n \in 1 .. L : k = p[n]
      BY <2>2, <1>9
    <3>2. ~(n > d)
      <4> SUFFICES ASSUME n > d PROVE FALSE
        OBVIOUS
      <4>1. n - d \in 1 .. (L - d) /\ (n - d) + d = n
        BY <1>4
      <4> QED
        BY <3>1, <4>1, <1>6, <1>11
    <3> QED
      BY <3>1, <3>2, <1>4, <1>12
  <2> QED
    BY <2>1, <2>2
<1>19. ToSet(t) \subseteq ToSet(p)
  BY <1>6, <1>8, <1>10, <1>14
<1>20. u \in WindowType
  <2>1. \A j \in Keys : v[j] \in (SUBSET Keys) \cup {None}
    BY <1>1 DEF WindowType
  <2> QED
    BY <2>1, <1>3 DEF WindowType
<1>21. WindowIsExact(t, u)
  BY <1>6, <1>16, <1>17, <1>18 DEF WindowIsExact
<1> QED
  BY <1>1, <1>6, <1>7, <1>19, <1>20, <1>21 DEF t, u

----------------------------------------------------------------------------
(***************************************************************************)
(* The filter.                                                             *)
(***************************************************************************)

\* Spans as a request carries them: one that anchors a call has no key.
Calling(spans) ==
    \A i \in 1 .. Len(spans) :
        /\ spans[i].key \in Keys \cup {None} /\ spans[i].anchor \in Keys \cup {None}
        /\ spans[i].anchor # None => spans[i].key = None

Partition == [kept : Seq(Nat), keys : Seq(Keys)]

\* What the filter has made of the first n spans: the keys are those of calls
\* whose spans stay; a span that does not stay is a copy of a remembered call or
\* of one that stays; and each call that stays is noted, as a copy only once.
Sieved(acc, spans, n, remembered) ==
    /\ ToSet(acc.kept) \subseteq 1 .. n
    /\ \A k \in ToSet(acc.keys) : \E i \in ToSet(acc.kept) : k = CallOf(spans[i])
    /\ \A i \in 1 .. n : \/ i \in ToSet(acc.kept)
                         \/ IsCopy(spans[i]) /\ spans[i].key \in remembered \cup ToSet(acc.keys)
    /\ \A i \in ToSet(acc.kept) : CallOf(spans[i]) # None => CallOf(spans[i]) \in ToSet(acc.keys)
    /\ \A m \in 1 .. Len(acc.kept) : IsCopy(spans[acc.kept[m]]) =>
          /\ spans[acc.kept[m]].key \notin remembered
          /\ \A j \in 1 .. Len(acc.kept) : j # m => spans[acc.kept[j]].key # spans[acc.kept[m]].key

LEMMA RetainKeeps ==
    ASSUME NEW acc \in Partition, NEW spans, NEW n \in Nat, Len(spans) = n, Calling(spans),
           NEW i \in 1 .. n, NEW remembered, Sieved(acc, spans, i - 1, remembered)
    PROVE  /\ Retain(acc, spans[i], i, remembered) \in Partition
           /\ Sieved(Retain(acc, spans[i], i, remembered), spans, i, remembered)
<1> DEFINE s == spans[i]
           call == CallOf(s)
           seen == call \in ToSet(acc.keys)
           dropped == IsCopy(s) /\ (call \in remembered \/ seen)
           kept == Append(acc.kept, i)
           keys == IF call = None \/ seen THEN acc.keys ELSE Append(acc.keys, call)
           new == [kept |-> kept, keys |-> keys]
<1>1. /\ s.key \in Keys \cup {None} /\ s.anchor \in Keys \cup {None}
      /\ s.anchor # None => s.key = None
      /\ call \in Keys \cup {None} /\ (IsCopy(s) => call = s.key /\ call # None)
  BY DEF Calling, CallOf, IsCopy
<1>2. acc.kept \in Seq(Nat) /\ acc.keys \in Seq(Keys) /\ i \in Nat /\ i - 1 \in Nat
  BY DEF Partition
<1>3. ToSet(acc.kept) \subseteq 1 .. (i - 1)
  BY DEF Sieved
<1>4. \A j \in 1 .. i : j \in 1 .. (i - 1) \/ j = i
  BY <1>2
<1>5. CASE dropped
  <2>1. Retain(acc, s, i, remembered) = acc
    BY <1>5 DEF Retain
  <2>2. IsCopy(s) /\ s.key \in remembered \cup ToSet(acc.keys)
    BY <1>1, <1>5
  <2>3. 1 .. (i - 1) \subseteq 1 .. i
    BY <1>2
  <2> HIDE DEF s
  <2>4. \A j \in 1 .. i : \/ j \in ToSet(acc.kept)
                          \/ IsCopy(spans[j]) /\ spans[j].key \in remembered \cup ToSet(acc.keys)
    BY <1>4, <2>2 DEF Sieved, s
  <2>5. Sieved(acc, spans, i, remembered)
    BY <1>3, <2>3, <2>4 DEF Sieved
  <2> QED
    BY <2>1, <2>5 DEF s
<1>6. CASE ~dropped
  <2>1. Retain(acc, s, i, remembered) = new
    BY <1>6 DEF Retain
  <2>2. kept \in Seq(Nat) /\ ToSet(kept) = ToSet(acc.kept) \cup {i}
    BY <1>2, Members
  <2>3. keys \in Seq(Keys) /\ ToSet(keys) = ToSet(acc.keys) \cup ({call} \ {None})
    BY <1>1, <1>2, Members
  <2>4. /\ Len(kept) = Len(acc.kept) + 1 /\ kept[Len(kept)] = i /\ Len(acc.kept) \in Nat
        /\ \A m \in 1 .. Len(acc.kept) : kept[m] = acc.kept[m] /\ acc.kept[m] \in ToSet(acc.kept)
    BY <1>2, Members
  <2>5. \A m \in 1 .. Len(kept) : m \in 1 .. Len(acc.kept) \/ m = Len(kept)
    BY <2>4
  <2> HIDE DEF s, kept, keys, seen, call
  <2>6. ToSet(kept) \subseteq 1 .. i
    BY <1>2, <1>3, <2>2
  <2>7. \A k \in ToSet(keys) : \E j \in ToSet(kept) : k = CallOf(spans[j])
    BY <2>2, <2>3 DEF Sieved, call, s
  <2>8. \A j \in 1 .. i : \/ j \in ToSet(kept)
                          \/ IsCopy(spans[j]) /\ spans[j].key \in remembered \cup ToSet(keys)
    BY <1>4, <2>2, <2>3 DEF Sieved
  <2>9. \A j \in ToSet(kept) : CallOf(spans[j]) # None => CallOf(spans[j]) \in ToSet(keys)
    BY <2>2, <2>3 DEF Sieved, call, s
  <2>10. \A m \in 1 .. Len(acc.kept) :
            /\ IsCopy(spans[kept[m]]) => spans[kept[m]].key # s.key
            /\ IsCopy(s) => spans[kept[m]].key # s.key
    <3> TAKE m \in 1 .. Len(acc.kept)
    <3> DEFINE old == spans[kept[m]]
    <3>1. kept[m] \in ToSet(acc.kept) /\ kept[m] \in 1 .. n
      BY <2>4, <1>3, <1>2
    <3>2. old.anchor # None => old.key = None
      BY <3>1 DEF Calling
    <3>3. CallOf(old) # None => CallOf(old) \in ToSet(acc.keys)
      BY <3>1 DEF Sieved
    <3>4. IsCopy(s) => s.key \notin ToSet(acc.keys) /\ s.key # None
      BY <1>1, <1>6 DEF seen
    <3> HIDE DEF old
    <3>5. IsCopy(s) => old.key # s.key
      <4> SUFFICES ASSUME IsCopy(s), old.key = s.key PROVE FALSE
        OBVIOUS
      <4>1. old.anchor = None
        BY <3>2, <3>4
      <4>2. CallOf(old) = s.key
        BY <4>1 DEF CallOf
      <4> QED
        BY <4>2, <3>3, <3>4
    <3>6. IsCopy(old) => old.key # s.key
      <4> SUFFICES ASSUME IsCopy(old), ~IsCopy(s), old.key = s.key PROVE FALSE
        BY <3>5
      <4>1. s.key = None
        BY <1>1 DEF IsCopy
      <4> QED
        BY <4>1 DEF IsCopy
    <3> QED
      BY <3>5, <3>6 DEF old
  <2>11. IsCopy(s) => s.key \notin remembered
    BY <1>1, <1>6 DEF seen
  <2>12. \A m \in 1 .. Len(kept) : IsCopy(spans[kept[m]]) =>
            /\ spans[kept[m]].key \notin remembered
            /\ \A j \in 1 .. Len(kept) : j # m => spans[kept[j]].key # spans[kept[m]].key
    <3> TAKE m \in 1 .. Len(kept)
    <3>1. CASE m = Len(kept)
      BY <3>1, <2>4, <2>5, <2>10, <2>11 DEF s
    <3>2. CASE m \in 1 .. Len(acc.kept)
      <4>1. IsCopy(spans[kept[m]]) =>
              /\ spans[kept[m]].key \notin remembered
              /\ \A j \in 1 .. Len(acc.kept) : j # m => spans[kept[j]].key # spans[kept[m]].key
        BY <3>2, <2>4 DEF Sieved
      <4>2. IsCopy(spans[kept[m]]) => spans[kept[Len(kept)]].key # spans[kept[m]].key
        BY <3>2, <2>4, <2>10 DEF s
      <4> QED
        BY <4>1, <4>2, <2>5
    <3> QED
      BY <3>1, <3>2, <2>5
  <2>13. new.kept = kept /\ new.keys = keys /\ new \in Partition
    BY <2>2, <2>3 DEF Partition
  <2> HIDE DEF new
  <2>14. Sieved(new, spans, i, remembered)
    BY <2>6, <2>7, <2>8, <2>9, <2>12, <2>13 DEF Sieved
  <2> QED
    BY <2>1, <2>13, <2>14 DEF s
<1> QED
  BY <1>5, <1>6

\* The filter is a run of Retain over the spans.
FilterRun(spans, n, remembered) ==
    \E g \in [0 .. n -> Partition] :
        /\ g[0] = [kept |-> <<>>, keys |-> <<>>]
        /\ \A i \in 1 .. n : g[i] = Retain(g[i - 1], spans[i], i, remembered)
        /\ Filter(spans, remembered) = g[n]

LEMMA FilterRuns ==
    ASSUME NEW n \in Nat, NEW spans, DOMAIN spans = 1 .. n, Len(spans) = n, Calling(spans),
           NEW remembered
    PROVE  FilterRun(spans, n, remembered)
<1> DEFINE Y == Partition
           base == [kept |-> <<>>, keys |-> <<>>]
           step == [i \in 1 .. n |-> [e \in Y |-> Retain(e, spans[i], i, remembered)]]
           ids == [i \in DOMAIN spans |-> i]
           Rec(it) == it = [T \in SUBSET (DOMAIN ids) |->
                              IF T = {} THEN base
                              ELSE Retain(it[T \ {Max(T)}], spans[ids[Max(T)]], ids[Max(T)], remembered)]
           fold == CHOOSE it : Rec(it)
<1>0. base \in Y
  BY DEF Partition
<1>1. step \in [1 .. n -> [Y -> Y]]
  <2>1. ASSUME NEW e \in Y, NEW i \in 1 .. n PROVE Retain(e, spans[i], i, remembered) \in Y
    <3>1. CallOf(spans[i]) \in Keys \cup {None} /\ i \in Nat
      BY DEF Calling, CallOf
    <3> HIDE DEF Calling
    <3> QED
      BY <3>1 DEF Retain, Partition
  <2> QED
    BY <2>1
<1>2. PICK it \in [SUBSET (1 .. n) -> Y] : FoldEquation(it, n, base, step)
  <2>1. n \in Nat
    OBVIOUS
  <2> HIDE DEF step, Y, base
  <2>2. \E it \in [SUBSET (1 .. n) -> Y] : FoldEquation(it, n, base, step)
    BY <1>0, <1>1, <2>1, FoldLeftExists
  <2> QED
    BY ONLY <2>2
<1>3. \A T \in SUBSET (1 .. n) : T # {} => Max(T) \in 1 .. n /\ T \ {Max(T)} \in SUBSET (1 .. n)
  BY MaxOfIndices
<1>4. DOMAIN ids = 1 .. n /\ \A i \in 1 .. n : ids[i] = i
  OBVIOUS
<1> HIDE DEF base, ids
<1>5. Rec(it)
  <2>1. ASSUME NEW T \in SUBSET (1 .. n), T # {}
        PROVE  it[T] = Retain(it[T \ {Max(T)}], spans[ids[Max(T)]], ids[Max(T)], remembered)
    <3>1. it[T] = step[Max(T)][it[T \ {Max(T)}]]
      BY <1>2, <2>1 DEF FoldEquation
    <3>2. Max(T) \in 1 .. n /\ it[T \ {Max(T)}] \in Y /\ ids[Max(T)] = Max(T)
      BY <1>2, <1>3, <1>4, <2>1
    <3> HIDE DEF Y
    <3> QED
      BY <3>1, <3>2
  <2>2. it[{}] = base
    BY <1>2 DEF FoldEquation
  <2>3. DOMAIN it = SUBSET (DOMAIN ids) /\ it = [T \in DOMAIN it |-> it[T]]
    BY <1>2, <1>4
  <2>4. \A T \in DOMAIN it :
          it[T] = IF T = {} THEN base
                  ELSE Retain(it[T \ {Max(T)}], spans[ids[Max(T)]], ids[Max(T)], remembered)
    BY <2>1, <2>2, <2>3, <1>4
  <2> HIDE DEF Y, step
  <2> QED
    BY ONLY <2>3, <2>4
<1>6. Rec(fold)
  BY <1>5
<1>7. Filter(spans, remembered) = fold[1 .. n]
  BY <1>4 DEF Filter, FoldLeft, MapThenFoldSet, base, ids
<1>8. FollowsFold(fold, n, Y, base, step)
  <2> HIDE DEF fold
  <2> QED
    BY <1>3, <1>4, <1>6 DEF FollowsFold
<1> HIDE DEF fold, Rec, step, Y
<1>9. PICK g : RunsThrough(g, n, Y, base, step) /\ fold[1 .. n] = g[n]
  BY ONLY <1>0, <1>1, <1>8, n \in Nat, FoldRun, SMT
<1>10. \A i \in 1 .. n : i - 1 \in 0 .. n /\ \A e \in Y : step[i][e] = Retain(e, spans[i], i, remembered)
  BY DEF step
<1>11. g \in [0 .. n -> Y] /\ g[0] = base /\ \A i \in 1 .. n : g[i] = Retain(g[i - 1], spans[i], i, remembered)
  BY ONLY <1>9, <1>10 DEF RunsThrough
<1> QED
  BY <1>7, <1>9, <1>11 DEF Y, base, FilterRun

\* What the filter decides.
LEMMA FilterKeeps ==
    ASSUME NEW n \in Nat, NEW spans, DOMAIN spans = 1 .. n, Len(spans) = n, Calling(spans),
           NEW remembered
    PROVE  /\ Filter(spans, remembered) \in Partition
           /\ Sieved(Filter(spans, remembered), spans, n, remembered)
<1>1. PICK g \in [0 .. n -> Partition] :
        /\ g[0] = [kept |-> <<>>, keys |-> <<>>]
        /\ \A i \in 1 .. n : g[i] = Retain(g[i - 1], spans[i], i, remembered)
        /\ Filter(spans, remembered) = g[n]
  <2>1. n \in Nat /\ DOMAIN spans = 1 .. n /\ Len(spans) = n /\ Calling(spans)
    OBVIOUS
  <2>2. FilterRun(spans, n, remembered)
    BY ONLY <2>1, FilterRuns, SMT
  <2> QED
    BY ONLY <2>2 DEF FilterRun
<1> DEFINE G == {i \in 0 .. n : Sieved(g[i], spans, i, remembered)}
<1>2. 0 \in G
  <2>1. ToSet(g[0].kept) = {} /\ ToSet(g[0].keys) = {} /\ 1 .. Len(g[0].kept) = {} /\ 1 .. 0 = {}
    BY <1>1 DEF ToSet
  <2> QED
    BY <2>1 DEF Sieved
<1>3. ASSUME NEW i \in 1 .. n, i - 1 \in G PROVE i \in G
  <2>1. g[i - 1] \in Partition /\ Sieved(g[i - 1], spans, i - 1, remembered) /\ i \in 0 .. n
        /\ g[i] = Retain(g[i - 1], spans[i], i, remembered)
    BY <1>1, <1>3
  <2>2. Sieved(g[i], spans, i, remembered)
    BY <2>1, RetainKeeps
  <2> QED
    BY <2>1, <2>2
<1>4. 0 .. n \subseteq G
  <2> HIDE DEF G
  <2> QED
    BY <1>2, <1>3, IntervalInduction
<1> QED
  BY <1>1, <1>4

----------------------------------------------------------------------------
(***************************************************************************)
(* What the constants are, and what only grows.                            *)
(***************************************************************************)

LEMMA BatchFacts ==
    ASSUME NEW r \in Requests
    PROVE  /\ DOMAIN Batch[r].spans = 1 .. Len(Batch[r].spans) /\ Len(Batch[r].spans) \in Nat
           /\ Calling(Batch[r].spans)
           /\ \A i \in 1 .. Len(Batch[r].spans) :
                 /\ Batch[r].spans[i] \in ToSet(Batch[r].spans)
                 /\ Batch[r].spans[i].load \in Payloads \cup {None}
           /\ \A s \in ToSet(Batch[r].spans) : \E i \in 1 .. Len(Batch[r].spans) : s = Batch[r].spans[i]
           /\ Len(Batch[r].scores) \in Nat /\ DOMAIN Batch[r].scores = 1 .. Len(Batch[r].scores)
           /\ \A i \in 1 .. Len(Batch[r].scores) :
                 /\ Batch[r].scores[i] \in ToSet(Batch[r].scores)
                 /\ Batch[r].scores[i] \in Scores
<1> DEFINE SpanType == [id : SpanIds, key : Keys \cup {None}, anchor : Keys \cup {None},
                        load : Payloads \cup {None}]
           ScoreType == [id : STRING, target : {"span"} \X SpanIds, ts : Nat, source : {"eval"}]
           spans == Batch[r].spans
           scores == Batch[r].scores
<1>1. spans \in Seq(SpanType) /\ scores \in Seq(ScoreType)
  BY BatchAssumption DEF BatchType
<1>2. \A s \in SpanType : s.key \in Keys \cup {None} /\ s.anchor \in Keys \cup {None}
                          /\ s.load \in Payloads \cup {None}
  OBVIOUS
<1> HIDE DEF SpanType, ScoreType
<1>3. /\ \A i \in 1 .. Len(spans) : spans[i] \in SpanType /\ spans[i] \in ToSet(spans)
      /\ \A s \in ToSet(spans) : \E i \in 1 .. Len(spans) : s = spans[i]
      /\ \A i \in 1 .. Len(scores) : scores[i] \in ToSet(scores)
      /\ Len(spans) \in Nat /\ DOMAIN spans = 1 .. Len(spans)
      /\ Len(scores) \in Nat /\ DOMAIN scores = 1 .. Len(scores)
  BY <1>1, Members
<1>4. Calling(spans)
  <2>1. \A s \in ToSet(spans) : s.anchor # None => s.key = None
    BY BatchAssumption
  <2> QED
    BY <1>2, <1>3, <2>1 DEF Calling
<1>5. \A c \in ToSet(scores) : c \in Scores
  BY DEF Scores
<1> QED
  BY <1>2, <1>3, <1>4, <1>5

\* The scores of a post.
LEMMA PostedFacts ==
    ASSUME NEW p \in Posts
    PROVE  /\ Len(Posted[p].items) \in Nat /\ DOMAIN Posted[p].items = 1 .. Len(Posted[p].items)
           /\ \A i \in 1 .. Len(Posted[p].items) :
                 /\ Posted[p].items[i] \in ToSet(Posted[p].items)
                 /\ ScoreOf(Posted[p].items[i], "api") \in Scores
<1> DEFINE ItemType == [id : STRING, ts : Nat, valued : BOOLEAN,
                        ids : [{"span", "trace", "session", "run"} -> SpanIds \cup Traces \cup {None}]]
           items == Posted[p].items
<1>1. items \in Seq(ItemType)
  BY PostAssumption DEF PostType
<1> HIDE DEF ItemType
<1>2. Len(items) \in Nat /\ DOMAIN items = 1 .. Len(items) /\ \A i \in 1 .. Len(items) : items[i] \in ToSet(items)
  BY <1>1, Members
<1>3. \A item \in ToSet(items) : ScoreOf(item, "api") \in Scores
  <2>1. \A item \in ToSet(items) : ScoreOf(item, "api") \in PostedScores(p)
    BY DEF PostedScores
  <2>2. PostedScores(p) \in {PostedScores(q) : q \in Posts}
    OBVIOUS
  <2>3. PostedScores(p) \subseteq Scores
    BY <2>2 DEF Scores
  <2> QED
    BY <2>1, <2>3
<1> QED
  BY <1>2, <1>3

LEMMA OwedGrows ==
    ASSUME NEW O, NEW P, O \subseteq P
    PROVE  /\ IdsIn(O) \subseteq IdsIn(P) /\ Calls(O) \subseteq Calls(P)
           /\ \A s : Covered(s, O) => Covered(s, P)
BY DEF IdsIn, Calls, Covered

LEMMA HandlerGrows ==
    ASSUME NEW O, NEW P, O \subseteq P, NEW r, NEW t, NEW l, NEW w, NEW a, HandlerOk(r, t, l, w, a, O)
    PROVE  HandlerOk(r, t, l, w, a, P)
<1>1. Calls(O) \subseteq Calls(P) /\ \A s : Covered(s, O) => Covered(s, P)
  BY OwedGrows
<1>2. FilteredWork(r, l, w, P)
  BY <1>1 DEF HandlerOk, FilteredWork
<1>3. AnsweredWork(r, l, w, P)
  BY DEF HandlerOk, AnsweredWork
<1> QED
  BY <1>1, <1>2, <1>3 DEF HandlerOk

LEMMA PostGrows ==
    ASSUME NEW O, NEW P, O \subseteq P, NEW p, NEW l, NEW rd, NEW a, NEW kn, PostOk(p, l, rd, a, kn, O)
    PROVE  PostOk(p, l, rd, a, kn, P)
<1>1. IdsIn(O) \subseteq IdsIn(P)
  BY OwedGrows
<1> QED
  BY <1>1 DEF PostOk

\* The parts that look at what is owed keep holding when only that grows.
LEMMA PostsGrow ==
    ASSUME PostsOk, owed \subseteq owed', UNCHANGED postVars
    PROVE  PostsOk'
BY PostGrows DEF PostsOk, postVars

LEMMA LedgerGrows ==
    ASSUME LedgerOk, owed \subseteq owed', UNCHANGED <<ledger, window>>
    PROVE  LedgerOk'
<1>1. Calls(owed) \subseteq Calls(owed')
  BY OwedGrows
<1> QED
  BY <1>1 DEF LedgerOk

LEMMA ScoresGrow ==
    ASSUME ScoresOk, owed \subseteq owed', UNCHANGED db
    PROVE  ScoresOk'
<1>1. IdsIn(owed) \subseteq IdsIn(owed')
  BY OwedGrows
<1> QED
  BY <1>1 DEF ScoresOk

\* A step of one handler leaves the others alone.
Functional ==
    /\ try = [r \in Requests |-> try[r]] /\ pc = [r \in Requests |-> pc[r]]
    /\ work = [r \in Requests |-> work[r]] /\ reply = [r \in Requests |-> reply[r]]

Moves(r) ==
    /\ Functional'
    /\ \A q \in Requests \ {r} :
          try'[q] = try[q] /\ pc'[q] = pc[q] /\ work'[q] = work[q] /\ reply'[q] = reply[q]

LEMMA HandlersMove ==
    ASSUME HandlersOk, NEW r \in Requests, Moves(r), UNCHANGED owed,
           HandlerOk(r, try'[r], pc'[r], work'[r], reply'[r], owed)
    PROVE  HandlersOk'
<1>1. \A q \in Requests : HandlerOk(q, try'[q], pc'[q], work'[q], reply'[q], owed')
  BY DEF HandlersOk, Moves
<1>2. Functional'
  BY DEF Moves
<1> QED
  BY <1>1, <1>2 DEF HandlersOk, Functional

\* A handler without a batch.
LEMMA IdleOk ==
    ASSUME NEW r \in Requests, NEW t \in 1 .. MaxTries[r], NEW l \in {"new", "replied", "gone"},
           NEW a \in Replies, NEW O,
           a \in Success => \A i \in DOMAIN Batch[r].spans : Covered(Batch[r].spans[i], O)
    PROVE  HandlerOk(r, t, l, NoWork, a, O)
<1>1. /\ NoWork.kept = <<>> /\ NoWork.bodies = <<>> /\ NoWork.keys = <<>> /\ NoWork.probe = 0
      /\ NoWork.reach = {} /\ NoWork \in WorkType
  BY IngestAssumption DEF NoWork, WorkType
<1>2. ToSet(<<>>) = {} /\ Len(<<>>) = 0 /\ 1 .. 0 = {}
  BY DEF ToSet
<1>3. l \in Labels /\ ~HoldsBatch(l) /\ l \notin {"write", "sync", "queued", "remember", "scores"}
  BY DEF Labels, HoldsBatch
<1> HIDE DEF NoWork
<1>4. TypedWork(r, l, NoWork)
  BY <1>1, <1>2, <1>3 DEF TypedWork
<1>5. FilteredWork(r, l, NoWork, O)
  BY <1>1, <1>2, <1>3 DEF FilteredWork
<1>6. AnsweredWork(r, l, NoWork, O)
  BY <1>3 DEF AnsweredWork
<1> QED
  BY <1>3, <1>4, <1>5, <1>6 DEF HandlerOk

\* One payload more is prepared.
LEMMA LeavesOk ==
    ASSUME NEW r, NEW t, NEW l \in {"prepare", "write", "sync"}, NEW w, NEW a, NEW O,
           HandlerOk(r, t, l, w, a, O), Len(w.bodies) < Len(w.kept), NEW body \in Bodies, Clean(body)
    PROVE  HandlerOk(r, t, "prepare", [w EXCEPT !.bodies = Append(@, body), !.probe = 0], a, O)
<1> DEFINE v == [w EXCEPT !.bodies = Append(@, body), !.probe = 0]
<1>1. w \in WorkType /\ TypedWork(r, l, w)
  BY DEF HandlerOk, TypedWork
<1>2. /\ v.kept = w.kept /\ v.keys = w.keys /\ v.reach = w.reach /\ v.probe = 0
      /\ v.bodies = Append(w.bodies, body) /\ v \in WorkType
  <2>2. /\ v.kept = w.kept /\ v.keys = w.keys /\ v.reach = w.reach /\ v.probe = 0
        /\ v.bodies = Append(w.bodies, body)
    BY <1>1 DEF WorkType
  <2>3. w.bodies \in Seq(Bodies) /\ w.kept \in Seq(Nat) /\ w.keys \in Seq(Keys) /\ w.reach \subseteq Keys
    BY <1>1 DEF WorkType
  <2>4. Append(w.bodies, body) \in Seq(Bodies) /\ 0 \in 0 .. MaxProbe
    BY <2>3, IngestAssumption
  <2>5. v \in WorkType
    BY <1>1, <2>4 DEF WorkType
  <2> QED
    BY <2>2, <2>5
<1>3. Len(v.bodies) <= Len(v.kept) /\ ToSet(v.bodies) = ToSet(w.bodies) \cup {body}
  <2>1. w.bodies \in Seq(Bodies) /\ w.kept \in Seq(Nat)
    BY <1>1 DEF WorkType
  <2>2. Len(v.bodies) = Len(w.bodies) + 1 /\ Len(w.bodies) \in Nat /\ Len(w.kept) \in Nat
    BY <1>2, <2>1
  <2>3. ToSet(v.bodies) = ToSet(w.bodies) \cup {body}
    BY <1>2, <2>1, Members
  <2> HIDE DEF v
  <2> QED
    BY <1>2, <2>2, <2>3
<1>4. HoldsBatch("prepare") /\ HoldsBatch(l) /\ "prepare" \in Labels
  BY DEF HoldsBatch, Labels
<1> HIDE DEF v
<1>5. TypedWork(r, "prepare", v)
  BY <1>1, <1>2, <1>3, <1>4 DEF TypedWork
<1>6. FilteredWork(r, "prepare", v, O)
  BY <1>2, <1>4 DEF HandlerOk, FilteredWork
<1>7. AnsweredWork(r, "prepare", v, O)
  BY DEF AnsweredWork
<1>8. HandlerOk(r, t, "prepare", v, a, O)
  BY <1>4, <1>5, <1>6, <1>7 DEF HandlerOk
<1> QED
  BY <1>8 DEF v

----------------------------------------------------------------------------
(***************************************************************************)
(* One lemma per action, or per group of actions that move the same parts. *)
(***************************************************************************)

storeVars == <<logVars, channel, ledger, blocked, postVars, limbo, diskVars, low, db, window>>

\* A step that moves one handler, and nothing but it.
LEMMA HandlerOnly ==
    ASSUME IInv, NEW r \in Requests, Moves(r), UNCHANGED storeVars,
           HandlerOk(r, try'[r], pc'[r], work'[r], reply'[r], owed)
    PROVE  IInv'
<1>1. UNCHANGED <<up, visible, owed, channel, ledger, blocked, ppc, read, answer, known, limbo,
                  blobs, unsynced, low, db, window>>
  BY DEF storeVars, logVars, postVars, diskVars
<1>2. HandlersOk'
  BY <1>1, HandlersMove DEF IInv
<1>3. LogOk'
  BY <1>1 DEF IInv, LogOk
<1>4. PostsOk'
  BY <1>1 DEF IInv, PostsOk
<1>5. BlobsOk'
  BY <1>1 DEF IInv, BlobsOk
<1>6. LedgerOk'
  BY <1>1 DEF IInv, LedgerOk
<1>7. ScoresOk'
  BY <1>1 DEF IInv, ScoresOk
<1> QED
  BY <1>2, <1>3, <1>4, <1>5, <1>6, <1>7 DEF IInv

LEMMA HandlerFacts ==
    ASSUME IInv, NEW r \in Requests
    PROVE  /\ Functional /\ HandlerOk(r, try[r], pc[r], work[r], reply[r], owed)
           /\ try[r] \in 1 .. MaxTries[r] /\ pc[r] \in Labels /\ reply[r] \in Replies
           /\ work[r] \in WorkType
BY DEF IInv, HandlersOk, HandlerOk, TypedWork, Functional

\* A handler that ends with a refusal.
LEMMA EndsOk ==
    ASSUME IInv, NEW r \in Requests, NEW a \in Replies, a \notin Success, Ends(r, a), UNCHANGED try
    PROVE  /\ Moves(r)
           /\ HandlerOk(r, try'[r], pc'[r], work'[r], reply'[r], owed)
<1>1. Functional /\ try[r] \in 1 .. MaxTries[r]
  BY HandlerFacts
<1>2. /\ try'[r] = try[r] /\ pc'[r] = "replied" /\ work'[r] = NoWork /\ reply'[r] = a
      /\ Moves(r)
  BY <1>1 DEF Ends, Goto, Functional, Moves
<1>3. HandlerOk(r, try[r], "replied", NoWork, a, owed)
  BY <1>1, IdleOk
<1> QED
  BY <1>2, <1>3

LEMMA RefusalRetries ==
    \A door, err : Refusal(door, err) \in Replies /\ Refusal(door, err) \notin Success
BY DEF Refusal, Replies, Retryable, Success

\* The doors.
LEMMA DoorsKeep ==
    ASSUME IInv, NEW r \in Requests, Unauthorized(r) \/ Malformed(r)
    PROVE  IInv'
<1>1. \A a \in {"401", "UNAUTHENTICATED", "400", "INTERNAL"} : a \in Replies /\ a \notin Success
  BY DEF Replies, Success
<1>2. UNCHANGED storeVars /\ UNCHANGED try
  BY DEF Unauthorized, Malformed, storeVars
<1>3. \E a \in {"401", "UNAUTHENTICATED", "400", "INTERNAL"} : Ends(r, a)
  BY DEF Unauthorized, Malformed
<1> QED
  BY <1>1, <1>2, <1>3, EndsOk, HandlerOnly

LEMMA FilterKeepsInv ==
    ASSUME IInv, NEW r \in Requests, FilterCalls(r)
    PROVE  IInv'
<1> DEFINE spans == Batch[r].spans
           passed == Filter(spans, ToSet(ledger))
           reach == {k \in Keys : window[k] # None}
<1>1. UNCHANGED storeVars /\ UNCHANGED try
  BY DEF FilterCalls, storeVars
<1>2. CASE DiskFull(passed.kept)
  <2>1. Refuses(r, "disk")
    BY <1>2 DEF FilterCalls
  <2> QED
    BY <1>1, <2>1, EndsOk, RefusalRetries, HandlerOnly DEF Refuses
<1>3. CASE ~DiskFull(passed.kept)
  <2>1. /\ work' = [work EXCEPT ![r].kept = passed.kept, ![r].keys = passed.keys, ![r].reach = reach]
        /\ pc[r] = "new" /\ pc' = [pc EXCEPT ![r] = "prepare"] /\ UNCHANGED <<reply, try>>
    BY <1>1, <1>3 DEF FilterCalls, At, Goto
  <2>2. Functional /\ HandlerOk(r, try[r], pc[r], work[r], reply[r], owed) /\ work[r] \in WorkType
    BY HandlerFacts
  <2>3. work[r] = NoWork
    BY <2>1, <2>2 DEF HandlerOk, TypedWork, HoldsBatch
  <2>4. /\ passed \in Partition /\ Sieved(passed, spans, Len(spans), ToSet(ledger))
        /\ DOMAIN spans = 1 .. Len(spans)
    BY BatchFacts, FilterKeeps
  <2> DEFINE w == [kept |-> passed.kept, keys |-> passed.keys, bodies |-> <<>>, probe |-> 0,
                   reach |-> reach]
  <2> HIDE DEF passed
  <2>5. work'[r] = w /\ pc'[r] = "prepare" /\ try'[r] = try[r] /\ reply'[r] = reply[r]
    <3>1. pc'[r] = "prepare" /\ try'[r] = try[r] /\ reply'[r] = reply[r]
      BY <2>1, <2>2 DEF Functional
    <3>2. r \in DOMAIN work /\ work'[r] = [work[r] EXCEPT !.kept = passed.kept, !.keys = passed.keys,
                                                          !.reach = reach]
      <4> HIDE DEF reach
      <4>1. DOMAIN work = Requests
        BY <2>2 DEF Functional
      <4> QED
        BY <4>1, <2>1
    <3>3. work'[r] = [NoWork EXCEPT !.kept = passed.kept, !.keys = passed.keys, !.reach = reach]
      BY <2>3, <3>2
    <3>4. work'[r] = w
      <4> HIDE DEF reach
      <4> QED
        BY ONLY <3>3 DEF NoWork, w
    <3> QED
      BY <3>1, <3>4
  <2>6. Moves(r)
    BY <2>1, <2>2 DEF Functional, Moves
  <2>7. w \in WorkType
    BY <2>4, IngestAssumption DEF WorkType, Partition
  <2>8. /\ w.kept = passed.kept /\ w.keys = passed.keys /\ w.reach = reach /\ w.bodies = <<>>
        /\ Len(<<>>) = 0 /\ ToSet(<<>>) = {} /\ Len(passed.kept) \in Nat
    BY <2>4 DEF ToSet, Partition
  <2> HIDE DEF w
  <2>9. TypedWork(r, "prepare", w)
    BY <2>4, <2>7, <2>8 DEF TypedWork, Sieved, HoldsBatch
  <2>10. reach \subseteq ToSet(ledger)
    BY DEF IInv, LedgerOk, WindowIsExact
  <2>11. ToSet(ledger) \subseteq Calls(owed)
    BY DEF IInv, LedgerOk
  <2>12. FilteredWork(r, "prepare", w, owed)
    <3> HIDE DEF spans, reach
    <3>1. \A k \in ToSet(w.keys) : \E i \in ToSet(w.kept) : k = CallOf(spans[i])
      BY <2>4, <2>8 DEF Sieved
    <3>2. \A i \in DOMAIN spans :
             \/ i \in ToSet(w.kept)
             \/ IsCopy(spans[i]) /\ spans[i].key \in Calls(owed) \cup ToSet(w.keys)
      BY <2>4, <2>8, <2>11 DEF Sieved
    <3>3. \A m \in 1 .. Len(w.kept) : IsCopy(spans[w.kept[m]]) =>
            /\ spans[w.kept[m]].key \notin w.reach
            /\ \A j \in 1 .. Len(w.kept) : j # m => spans[w.kept[j]].key # spans[w.kept[m]].key
      BY <2>4, <2>8, <2>10 DEF Sieved
    <3> QED
      BY <3>1, <3>2, <3>3 DEF FilteredWork, spans
  <2>13. HandlerOk(r, try[r], "prepare", w, reply[r], owed)
    BY <2>2, <2>9, <2>12 DEF HandlerOk, AnsweredWork, Labels
  <2> QED
    BY <1>1, <2>5, <2>6, <2>13, HandlerOnly
<1> QED
  BY <1>2, <1>3

\* The payload a handler prepares, and the blob key it looks at.
LEMMA PreparedFacts ==
    ASSUME IInv, NEW r \in Requests, MoreToPrepare(r)
    PROVE  /\ Field(r) = Load(r, work[r]) /\ Field(r) \in Payloads \cup {None}
           /\ Prepared(r) \in Bodies /\ Clean(Prepared(r))
           /\ Prepared(r) \in Oversized =>
                /\ Field(r) # None /\ Prepared(r) = Redacted[Field(r)]
                /\ Prepared(r) \in Payloads /\ Redacted[Prepared(r)] = Prepared(r)
                /\ BlobKey(r) \in BlobKeys /\ Clean(BlobKey(r))
<1> DEFINE w == work[r]
           m == Len(w.bodies) + 1
<1>1. w \in WorkType /\ TypedWork(r, pc[r], w)
  BY HandlerFacts DEF HandlerOk
<1>2. m \in 1 .. Len(w.kept)
  <2>1. w.bodies \in Seq(Bodies) /\ w.kept \in Seq(Nat)
    BY <1>1 DEF WorkType
  <2>2. Len(w.bodies) \in Nat /\ Len(w.kept) \in Nat
    BY <2>1
  <2> QED
    BY <2>2 DEF MoreToPrepare
<1>3. w.kept[m] \in 1 .. Len(Batch[r].spans)
  <2>1. w.kept \in Seq(Nat)
    BY <1>1 DEF WorkType
  <2>2. w.kept[m] \in ToSet(w.kept)
    BY <1>2, <2>1, Members
  <2> QED
    BY <1>1, <2>2, BatchFacts DEF TypedWork
<1>4. Field(r) = Load(r, w) /\ Field(r) \in Payloads \cup {None}
  BY <1>3, BatchFacts DEF Field, Load
<1>5. \A p \in Payloads : Redacted[p] \in Payloads /\ Redacted[Redacted[p]] = Redacted[p]
  BY IngestAssumption
<1>6. Prepared(r) \in Bodies /\ Clean(Prepared(r))
  BY <1>4, <1>5, NoneAssumption DEF Prepared, Clean, Bodies
<1>7. ASSUME Prepared(r) \in Oversized
      PROVE  /\ Field(r) # None /\ Prepared(r) = Redacted[Field(r)]
             /\ Prepared(r) \in Payloads /\ Redacted[Prepared(r)] = Prepared(r)
             /\ BlobKey(r) \in BlobKeys /\ Clean(BlobKey(r))
  <2>1. Prepared(r) \in Payloads /\ None \notin Payloads
    BY <1>7, IngestAssumption, NoneAssumption
  <2>2. Field(r) # None /\ Prepared(r) = Redacted[Field(r)]
    BY <2>1 DEF Prepared
  <2>3. Redacted[Prepared(r)] = Prepared(r)
    BY <1>4, <1>5, <2>2
  <2>4. w.probe \in 0 .. MaxProbe
    BY <1>1 DEF WorkType
  <2>5. BlobKey(r) \in BlobKeys
    BY <2>1, <2>4 DEF BlobKey, BlobKeys
  <2> QED
    BY <2>1, <2>2, <2>3, <2>5, NoneAssumption DEF Clean
<1> QED
  BY <1>4, <1>6, <1>7

\* A handler's step that may also move the blob files.
LEMMA HandlerAndBlobs ==
    ASSUME IInv, NEW r \in Requests, Moves(r), BlobsOk',
           UNCHANGED <<logVars, channel, ledger, blocked, postVars, limbo, low, db, window>>,
           HandlerOk(r, try'[r], pc'[r], work'[r], reply'[r], owed)
    PROVE  IInv'
<1>1. UNCHANGED <<up, visible, owed, channel, ledger, blocked, ppc, read, answer, known, limbo,
                  low, db, window>>
  BY DEF logVars, postVars
<1>2. HandlersOk'
  BY <1>1, HandlersMove DEF IInv
<1>3. LogOk'
  BY <1>1 DEF IInv, LogOk
<1>4. PostsOk'
  BY <1>1 DEF IInv, PostsOk
<1>5. LedgerOk'
  BY <1>1 DEF IInv, LedgerOk
<1>6. ScoresOk'
  BY <1>1 DEF IInv, ScoresOk
<1> QED
  BY <1>2, <1>3, <1>4, <1>5, <1>6 DEF IInv

LEMMA LeavesMoves ==
    ASSUME IInv, NEW r \in Requests, pc[r] \in {"prepare", "write", "sync"}, MoreToPrepare(r),
           NEW body \in Bodies, Clean(body), Leaves(r, body), UNCHANGED <<try, reply>>
    PROVE  Moves(r) /\ HandlerOk(r, try'[r], pc'[r], work'[r], reply'[r], owed)
<1>1. Functional /\ HandlerOk(r, try[r], pc[r], work[r], reply[r], owed)
  BY HandlerFacts
<1>2. Moves(r) /\ pc'[r] = "prepare" /\ try'[r] = try[r] /\ reply'[r] = reply[r]
  BY <1>1 DEF Leaves, Goto, Functional, Moves
<1>3. work'[r] = [work[r] EXCEPT !.bodies = Append(@, body), !.probe = 0]
  BY <1>1 DEF Leaves, Functional
<1>4. /\ pc[r] \in {"prepare", "write", "sync"} /\ Len(work[r].bodies) < Len(work[r].kept)
      /\ body \in Bodies /\ Clean(body)
  BY DEF MoreToPrepare
<1>5. HandlerOk(r, try[r], "prepare", [work[r] EXCEPT !.bodies = Append(@, body), !.probe = 0],
                reply[r], owed)
  BY ONLY <1>1, <1>4, LeavesOk
<1> QED
  BY <1>2, <1>3, <1>5

\* A handler between two steps of a put has a payload to put.
LEMMA WriterFacts ==
    ASSUME IInv, NEW r \in Requests, pc[r] \in {"write", "sync"}
    PROVE  MoreToPrepare(r) /\ Prepared(r) \in Oversized
<1>1. MoreToPrepare(r) /\ Load(r, work[r]) # None /\ Redacted[Load(r, work[r])] \in Oversized
  BY HandlerFacts DEF HandlerOk, TypedWork, MoreToPrepare
<1> QED
  BY <1>1 DEF Prepared, Field, Load

LEMMA PrepareKeeps ==
    ASSUME IInv, NEW r \in Requests,
           \/ StaysInline(r) \/ DedupHit(r) \/ SyncBlobDir(r) \/ PutFails(r)
    PROVE  IInv'
<1>1. CASE StaysInline(r) \/ DedupHit(r)
  <2>1. UNCHANGED storeVars /\ UNCHANGED <<try, reply>> /\ pc[r] = "prepare" /\ MoreToPrepare(r)
    BY <1>1 DEF StaysInline, DedupHit, prepareRest, storeVars, At, Puts
  <2>2. \E body \in Bodies : Clean(body) /\ Leaves(r, body)
    <3>1. CASE StaysInline(r)
      BY <2>1, <3>1, PreparedFacts DEF StaysInline
    <3>2. CASE DedupHit(r)
      BY <2>1, <3>2, PreparedFacts DEF DedupHit, Puts, Bodies
    <3> QED
      BY <1>1, <3>1, <3>2
  <2> QED
    BY <2>1, <2>2, LeavesMoves, HandlerOnly
<1>2. CASE SyncBlobDir(r) \/ PutFails(r)
  <2>1. /\ UNCHANGED <<logVars, channel, ledger, blocked, postVars, limbo, low, db, window>>
        /\ UNCHANGED <<try, reply>> /\ pc[r] \in {"write", "sync"}
    BY <1>2 DEF SyncBlobDir, PutFails, prepareRest, At
  <2>2. MoreToPrepare(r) /\ Prepared(r) \in Oversized
    BY <2>1, WriterFacts
  <2>3. \E body \in Bodies : Clean(body) /\ Leaves(r, body)
    <3>1. CASE SyncBlobDir(r)
      BY <2>2, <3>1, PreparedFacts DEF SyncBlobDir, Bodies
    <3>2. CASE PutFails(r)
      BY <2>2, <3>2, PreparedFacts DEF PutFails
    <3> QED
      BY <1>2, <3>1, <3>2
  <2>4. blobs' = blobs /\ unsynced' \subseteq unsynced
    BY <1>2 DEF SyncBlobDir, PutFails, diskVars
  <2>5. BlobsOk'
    BY <2>4 DEF IInv, BlobsOk
  <2> QED
    BY <2>1, <2>2, <2>3, <2>5, LeavesMoves, HandlerAndBlobs
<1> QED
  BY <1>1, <1>2

\* The steps of BlobStore::put before its payload is stored.
LEMMA PutKeeps ==
    ASSUME IInv, NEW r \in Requests, Collision(r) \/ NotFound(r) \/ RenameBlob(r)
    PROVE  IInv'
<1>1. Functional /\ HandlerOk(r, try[r], pc[r], work[r], reply[r], owed) /\ work[r] \in WorkType
  BY HandlerFacts
<1>2. CASE Collision(r)
  <2>1. /\ UNCHANGED storeVars /\ UNCHANGED <<try, reply, pc>> /\ pc[r] = "prepare"
        /\ work' = [work EXCEPT ![r].probe = @ + 1] /\ work[r].probe < MaxProbe
    BY <1>2 DEF Collision, Puts, prepareRest, storeVars, At
  <2> DEFINE w == [work[r] EXCEPT !.probe = @ + 1]
  <2>2. Moves(r) /\ work'[r] = w
    BY <1>1, <2>1 DEF Functional, Moves
  <2>3. /\ w.kept = work[r].kept /\ w.keys = work[r].keys /\ w.reach = work[r].reach
        /\ w.bodies = work[r].bodies
    BY <1>1 DEF WorkType
  <2>4. w \in WorkType
    <3>1. work[r].probe + 1 \in 0 .. MaxProbe
      BY <1>1, <2>1, IngestAssumption DEF WorkType
    <3> QED
      BY <1>1, <3>1 DEF WorkType
  <2> HIDE DEF w
  <2>5. TypedWork(r, "prepare", w) /\ FilteredWork(r, "prepare", w, owed)
    BY <1>1, <2>1, <2>3, <2>4 DEF HandlerOk, TypedWork, FilteredWork, HoldsBatch
  <2>6. HandlerOk(r, try[r], pc[r], w, reply[r], owed)
    BY <1>1, <2>1, <2>5 DEF HandlerOk, AnsweredWork
  <2> QED
    BY <2>1, <2>2, <2>6, HandlerOnly
<1>3. CASE NotFound(r) \/ RenameBlob(r)
  <2>1. /\ UNCHANGED <<logVars, channel, ledger, blocked, postVars, limbo, low, db, window>>
        /\ UNCHANGED <<try, reply, work>>
        /\ pc[r] \in {"prepare", "write"} /\ MoreToPrepare(r) /\ Prepared(r) \in Oversized
        /\ \E l \in {"write", "sync"} : Goto(r, l)
    BY <1>3, WriterFacts DEF NotFound, RenameBlob, prepareRest, At, Puts
  <2>2. PICK l \in {"write", "sync"} : Goto(r, l)
    BY <2>1
  <2>3. Moves(r) /\ pc'[r] = l /\ work'[r] = work[r] /\ try'[r] = try[r] /\ reply'[r] = reply[r]
    BY <1>1, <2>1, <2>2 DEF Functional, Moves, Goto
  <2>4. /\ Load(r, work[r]) # None /\ Redacted[Load(r, work[r])] \in Oversized
        /\ Prepared(r) \in Payloads /\ Redacted[Prepared(r)] = Prepared(r) /\ BlobKey(r) \in BlobKeys
    BY <2>1, PreparedFacts
  <2>5. TypedWork(r, l, work[r]) /\ FilteredWork(r, l, work[r], owed)
    BY <1>1, <2>1, <2>4 DEF HandlerOk, TypedWork, FilteredWork, HoldsBatch, MoreToPrepare
  <2>6. HandlerOk(r, try[r], l, work[r], reply[r], owed)
    BY <1>1, <2>5 DEF HandlerOk, AnsweredWork, Labels
  <2>7. BlobsOk'
    <3>1. CASE NotFound(r)
      BY <3>1 DEF NotFound, IInv, BlobsOk, diskVars
    <3>2. CASE RenameBlob(r)
      <4>1. /\ blobs' = Bind(blobs, BlobKey(r), Prepared(r))
            /\ unsynced' = unsynced \cup {BlobKey(r)}
        BY <3>2 DEF RenameBlob
      <4>2. /\ DOMAIN blobs' = DOMAIN blobs \cup {BlobKey(r)}
            /\ \A k \in DOMAIN blobs' : blobs'[k] = IF k = BlobKey(r) THEN Prepared(r) ELSE blobs[k]
        BY <4>1 DEF Bind
      <4> QED
        BY <2>4, <4>1, <4>2 DEF IInv, BlobsOk
    <3> QED
      BY <1>3, <3>1, <3>2
  <2> QED
    BY <2>1, <2>3, <2>6, <2>7, HandlerAndBlobs
<1> QED
  BY <1>2, <1>3

\* What a handler sends is records of its request, cleaned, one for each span
\* that stays once all are prepared.
LEMMA SentFacts ==
    ASSUME IInv, NEW r \in Requests
    PROVE  /\ Sent(r) \subseteq Records /\ \A x \in Sent(r) : Clean(x.body)
           /\ Len(work[r].bodies) = Len(work[r].kept) =>
                 \A i \in ToSet(work[r].kept) : \E x \in Sent(r) : x.req = r /\ x.span = i
<1> DEFINE w == work[r]
           rec(i) == [req |-> r, try |-> try[r], span |-> w.kept[i], body |-> w.bodies[i]]
<1>1. w \in WorkType /\ TypedWork(r, pc[r], w) /\ try[r] \in 1 .. MaxTries[r]
  BY HandlerFacts DEF HandlerOk
<1>2. w.kept \in Seq(Nat) /\ w.bodies \in Seq(Bodies)
  BY <1>1 DEF WorkType
<1>3. /\ \A i \in 1 .. Len(w.kept) : w.kept[i] \in ToSet(w.kept)
      /\ \A i \in 1 .. Len(w.bodies) : w.bodies[i] \in ToSet(w.bodies) /\ w.bodies[i] \in Bodies
      /\ \A i \in ToSet(w.kept) : \E m \in 1 .. Len(w.kept) : i = w.kept[m]
  BY <1>2, Members
<1>4. /\ DOMAIN w.bodies = 1 .. Len(w.bodies) /\ Len(w.bodies) \in Nat /\ Len(w.kept) \in Nat
      /\ 1 .. Len(w.bodies) \subseteq 1 .. Len(w.kept)
  BY <1>1, <1>2 DEF TypedWork
<1>5. Sent(r) = {rec(i) : i \in 1 .. Len(w.bodies)}
  BY <1>4 DEF Sent
<1>6. \A i \in 1 .. Len(w.bodies) : rec(i) \in Records /\ Clean(rec(i).body)
  <2> TAKE i \in 1 .. Len(w.bodies)
  <2>1. w.kept[i] \in DOMAIN Batch[r].spans /\ Clean(w.bodies[i]) /\ w.bodies[i] \in Bodies
    BY <1>1, <1>3, <1>4 DEF TypedWork
  <2>2. w.kept[i] \in UNION {DOMAIN Batch[q].spans : q \in Requests}
    BY <2>1
  <2>3. try[r] \in UNION {1 .. MaxTries[q] : q \in Requests}
    BY <1>1
  <2> HIDE DEF w
  <2> QED
    BY <2>1, <2>2, <2>3 DEF Records
<1>7. ASSUME Len(w.bodies) = Len(w.kept), NEW i \in ToSet(w.kept)
      PROVE  \E x \in Sent(r) : x.req = r /\ x.span = i
  <2>1. PICK m \in 1 .. Len(w.kept) : i = w.kept[m]
    BY <1>3, <1>7
  <2>2. rec(m) \in Sent(r) /\ rec(m).req = r /\ rec(m).span = i
    BY <1>5, <1>7, <2>1
  <2> QED
    BY <2>2
<1> HIDE DEF rec
<1> QED
  BY <1>5, <1>6, <1>7

LEMMA AppendKeeps ==
    ASSUME IInv, NEW r \in Requests, AppendBatch(r) \/ ChannelFull(r)
    PROVE  IInv'
<1>1. /\ UNCHANGED <<logVars, ledger, blocked, try, postVars, limbo, diskVars, low, db, window>>
      /\ pc[r] = "prepare" /\ ~MoreToPrepare(r)
  BY DEF AppendBatch, ChannelFull, appendRest, At
<1>2. Functional /\ HandlerOk(r, try[r], pc[r], work[r], reply[r], owed) /\ work[r] \in WorkType
  BY HandlerFacts
<1>3. Len(work[r].bodies) = Len(work[r].kept)
  <2>1. Len(work[r].bodies) \in Nat /\ Len(work[r].kept) \in Nat
    BY <1>2 DEF WorkType
  <2> QED
    BY <1>1, <1>2, <2>1 DEF HandlerOk, TypedWork, MoreToPrepare
<1>4. CASE \E err : Refuses(r, err) /\ UNCHANGED channel
  BY <1>1, <1>4, EndsOk, RefusalRetries, HandlerOnly DEF Refuses, storeVars
<1>5. CASE work[r].kept = <<>> /\ Goto(r, "remember") /\ UNCHANGED <<channel, work, reply>>
  <2>1. Moves(r) /\ pc'[r] = "remember" /\ work'[r] = work[r] /\ try'[r] = try[r] /\ reply'[r] = reply[r]
    BY <1>1, <1>2, <1>5 DEF Functional, Moves, Goto
  <2>2. ToSet(work[r].kept) = {}
    BY <1>5 DEF ToSet
  <2>3. HandlerOk(r, try[r], "remember", work[r], reply[r], owed)
    BY <1>1, <1>2, <2>2
    DEF HandlerOk, TypedWork, FilteredWork, AnsweredWork, HoldsBatch, Labels
  <2> QED
    BY <1>1, <1>5, <2>1, <2>3, HandlerOnly DEF storeVars
<1>6. CASE channel' = channel \cup {Sent(r)} /\ Goto(r, "queued") /\ UNCHANGED <<work, reply>>
  <2>1. Moves(r) /\ pc'[r] = "queued" /\ work'[r] = work[r] /\ try'[r] = try[r] /\ reply'[r] = reply[r]
    BY <1>1, <1>2, <1>6 DEF Functional, Moves, Goto
  <2>2. HandlerOk(r, try[r], "queued", work[r], reply[r], owed)
    BY <1>1, <1>2, <1>3
    DEF HandlerOk, TypedWork, FilteredWork, AnsweredWork, HoldsBatch, Labels
  <2>3. UNCHANGED <<up, visible, owed, ledger, blocked, ppc, read, answer, known, limbo, blobs,
                    unsynced, low, db, window>>
    BY <1>1 DEF logVars, postVars, diskVars
  <2>4. HandlersOk'
    BY <2>1, <2>2, <2>3, HandlersMove DEF IInv
  <2>5. Sent(r) \subseteq Records /\ \A x \in Sent(r) : Clean(x.body)
    BY SentFacts
  <2>6. LogOk'
    BY <1>6, <2>3, <2>5 DEF IInv, LogOk
  <2>7. PostsOk' /\ BlobsOk' /\ LedgerOk' /\ ScoresOk'
    BY <2>3 DEF IInv, PostsOk, BlobsOk, LedgerOk, ScoresOk
  <2> QED
    BY <2>4, <2>6, <2>7 DEF IInv
<1> QED
  BY <1>4, <1>5, <1>6 DEF AppendBatch, ChannelFull

\* The writer's answers.
LEMMA AcceptKeeps ==
    ASSUME IInv, NEW b \in channel, Accept(b)
    PROVE  IInv'
<1>1. /\ UNCHANGED <<ledger, blocked, try, ppc, read, answer, known, blobs, unsynced, low, db, window,
                     work, reply, limbo, up>>
      /\ channel' = channel \ {b} /\ visible' = visible \cup b /\ owed' = owed \cup b /\ up
      /\ pc' = [r \in Requests |-> IF Awaits(r, b) THEN "remember" ELSE pc[r]]
  BY DEF Accept, Log!Accept, writerRest, postVars, diskVars
<1>2. \A r \in Requests : HandlerOk(r, try'[r], pc'[r], work'[r], reply'[r], owed')
  <2> TAKE r \in Requests
  <2>1. HandlerOk(r, try[r], pc[r], work[r], reply[r], owed')
    BY <1>1, HandlerFacts, HandlerGrows
  <2>2. CASE ~Awaits(r, b)
    BY <1>1, <2>1, <2>2
  <2>3. CASE Awaits(r, b)
    <3>1. pc[r] = "queued" /\ b = Sent(r) /\ pc'[r] = "remember"
      BY <1>1, <2>3 DEF Awaits
    <3>2. \A i \in ToSet(work[r].kept) : \E x \in owed' : x.req = r /\ x.span = i
      <4>1. Len(work[r].bodies) = Len(work[r].kept)
        BY <2>1, <3>1 DEF HandlerOk, TypedWork
      <4> QED
        BY <1>1, <3>1, <4>1, SentFacts
    <3>3. HandlerOk(r, try[r], "remember", work[r], reply[r], owed')
      BY <2>1, <3>1, <3>2 DEF HandlerOk, TypedWork, FilteredWork, AnsweredWork, HoldsBatch, Labels
    <3> QED
      BY <1>1, <3>1, <3>3
  <2> QED
    BY <2>2, <2>3
<1>3. HandlersOk'
  BY <1>1, <1>2 DEF IInv, HandlersOk
<1>4. LogOk'
  BY <1>1 DEF IInv, LogOk
<1>5. owed \subseteq owed'
  BY <1>1
<1>6. PostsOk' /\ LedgerOk' /\ ScoresOk'
  BY <1>1, <1>5, PostsGrow, LedgerGrows, ScoresGrow DEF IInv, postVars
<1>7. BlobsOk'
  BY <1>1 DEF IInv, BlobsOk
<1> QED
  BY <1>3, <1>4, <1>6, <1>7 DEF IInv

LEMMA RefusedKeeps ==
    ASSUME IInv, NEW b \in channel, Shed(b) \/ SyncFails(b)
    PROVE  IInv'
<1>1. /\ UNCHANGED <<ledger, blocked, try, ppc, read, answer, known, blobs, unsynced, low, db, window,
                     up, visible, owed>>
      /\ channel' = channel \ {b} /\ limbo' \subseteq limbo \cup b
      /\ \E err : Refused(b, err)
  BY DEF Shed, SyncFails, writerRest, postVars, diskVars, logVars
<1>2. PICK err : Refused(b, err)
  BY <1>1
<1>3. \A r \in Requests : HandlerOk(r, try'[r], pc'[r], work'[r], reply'[r], owed')
  <2> TAKE r \in Requests
  <2>1. HandlerOk(r, try[r], pc[r], work[r], reply[r], owed) /\ try[r] \in 1 .. MaxTries[r]
    BY HandlerFacts
  <2>2. CASE ~Awaits(r, b)
    BY <1>1, <1>2, <2>1, <2>2 DEF Refused
  <2>3. CASE Awaits(r, b)
    <3>1. pc'[r] = "replied" /\ work'[r] = NoWork /\ reply'[r] = Refusal(Batch[r].door, err)
      BY <1>2, <2>3 DEF Refused
    <3>2. HandlerOk(r, try[r], "replied", NoWork, Refusal(Batch[r].door, err), owed)
      BY <2>1, IdleOk, RefusalRetries
    <3> QED
      BY <1>1, <3>1, <3>2
  <2> QED
    BY <2>2, <2>3
<1>4. HandlersOk'
  BY <1>1, <1>2, <1>3 DEF IInv, HandlersOk, Refused
<1>5. LogOk'
  BY <1>1 DEF IInv, LogOk
<1>6. PostsOk' /\ LedgerOk' /\ ScoresOk' /\ BlobsOk'
  BY <1>1 DEF IInv, PostsOk, LedgerOk, ScoresOk, BlobsOk
<1> QED
  BY <1>4, <1>5, <1>6 DEF IInv

\* After the writer's answer every span of the request is covered.
LEMMA StoredIsCovered ==
    ASSUME IInv, NEW r \in Requests, pc[r] \in {"remember", "scores"}
    PROVE  /\ ToSet(work[r].keys) \subseteq Calls(owed) /\ work[r].keys \in Seq(Keys)
           /\ \A i \in DOMAIN Batch[r].spans : Covered(Batch[r].spans[i], owed)
<1> DEFINE spans == Batch[r].spans
           w == work[r]
<1>1. /\ w \in WorkType /\ FilteredWork(r, pc[r], w, owed) /\ AnsweredWork(r, pc[r], w, owed)
      /\ HoldsBatch(pc[r])
  BY HandlerFacts DEF HandlerOk, HoldsBatch
<1>2. \A i \in ToSet(w.kept) : \E x \in owed : SpanOf(x) = spans[i]
  BY <1>1 DEF AnsweredWork, SpanOf
<1>3. \A i \in ToSet(w.kept) : spans[i].id \in IdsIn(owed) /\ CallOf(spans[i]) \in Calls(owed)
  <2> TAKE i \in ToSet(w.kept)
  <2>1. PICK x \in owed : SpanOf(x) = spans[i]
    BY <1>2
  <2> HIDE DEF spans, w
  <2> QED
    BY <2>1 DEF IdsIn, Calls, CallOf
<1>4. ToSet(w.keys) \subseteq Calls(owed)
  BY <1>1, <1>3 DEF FilteredWork
<1>5. \A i \in DOMAIN spans : Covered(spans[i], owed)
  <2> TAKE i \in DOMAIN spans
  <2>1. CASE i \in ToSet(w.kept)
    BY <1>3, <2>1 DEF Covered
  <2>2. CASE IsCopy(spans[i]) /\ spans[i].key \in Calls(owed) \cup ToSet(w.keys)
    BY <1>4, <2>2 DEF Covered, IsCopy
  <2> QED
    BY <1>1, <2>1, <2>2 DEF FilteredWork
<1>6. w.keys \in Seq(Keys)
  BY <1>1 DEF WorkType
<1> QED
  BY <1>4, <1>5, <1>6

LEMMA RememberCallsKeeps ==
    ASSUME IInv, NEW r \in Requests, RememberCalls(r)
    PROVE  IInv'
<1>1. /\ UNCHANGED <<up, visible, owed, channel, blocked, ppc, read, answer, known, limbo, blobs,
                     unsynced, low, db, try, work, reply>>
      /\ ledger' = Remembered(ledger, work[r].keys) /\ window' = Reach(window, work[r].keys)
      /\ pc[r] = "remember" /\ pc' = [pc EXCEPT ![r] = "scores"]
  BY DEF RememberCalls, At, Goto, logVars, postVars, diskVars
<1>2. ToSet(work[r].keys) \subseteq Calls(owed) /\ work[r].keys \in Seq(Keys)
  BY <1>1, StoredIsCovered
<1>3. LedgerOk'
  <2>1. /\ ledger \in Seq(Keys) /\ window \in WindowType /\ WindowIsExact(ledger, window)
        /\ ToSet(ledger) \subseteq Calls(owed)
    BY DEF IInv, LedgerOk
  <2>2. /\ ledger' \in Seq(Keys) /\ window' \in WindowType /\ Len(ledger') <= Capacity
        /\ WindowIsExact(ledger', window') /\ ToSet(ledger') \subseteq ToSet(ledger) \cup ToSet(work[r].keys)
    BY ONLY <1>1, <1>2, <2>1, RememberKeeps
  <2> QED
    BY <1>1, <1>2, <2>1, <2>2 DEF LedgerOk
<1>4. Functional /\ HandlerOk(r, try[r], pc[r], work[r], reply[r], owed)
  BY HandlerFacts
<1>5. Moves(r) /\ pc'[r] = "scores" /\ work'[r] = work[r] /\ try'[r] = try[r] /\ reply'[r] = reply[r]
  BY <1>1, <1>4 DEF Functional, Moves
<1>6. HandlerOk(r, try[r], "scores", work[r], reply[r], owed)
  BY <1>1, <1>4 DEF HandlerOk, TypedWork, FilteredWork, AnsweredWork, HoldsBatch, Labels
<1>7. HandlersOk'
  BY <1>1, <1>5, <1>6, HandlersMove DEF IInv
<1>8. LogOk' /\ PostsOk' /\ BlobsOk' /\ ScoresOk'
  BY <1>1 DEF IInv, LogOk, PostsOk, BlobsOk, ScoresOk
<1> QED
  BY <1>3, <1>7, <1>8 DEF IInv

\* A score that comes with a request is about a span of it; when all of those
\* are covered, that span is owed.
LEMMA ScoredIsOwed ==
    ASSUME IInv, NEW r \in Requests, NEW c \in ToSet(Batch[r].scores),
           \A i \in DOMAIN Batch[r].spans : Covered(Batch[r].spans[i], owed)
    PROVE  c.target[2] \in IdsIn(owed)
<1>1. PICK s \in ToSet(Batch[r].spans) :
        /\ c.target[2] = s.id
        /\ s.key # None => \A q \in Requests : \A t \in ToSet(Batch[q].spans) :
                              s.key \in {t.key, t.anchor} => t.id = s.id
  BY BatchAssumption
<1>2. Covered(s, owed)
  BY BatchFacts
<1>3. CASE s.id \in IdsIn(owed)
  BY <1>1, <1>3
<1>4. CASE s.key # None /\ s.key \in Calls(owed)
  <2>1. PICK x \in owed : s.key \in {SpanOf(x).key, SpanOf(x).anchor}
    BY <1>4 DEF Calls
  <2>2. x.req \in Requests /\ x.span \in DOMAIN Batch[x.req].spans
    BY DEF IInv, LogOk, Records
  <2>3. SpanOf(x) \in ToSet(Batch[x.req].spans)
    BY <2>2, BatchFacts DEF SpanOf
  <2>4. SpanOf(x).id = s.id
    BY <1>1, <1>4, <2>1, <2>2, <2>3
  <2> QED
    BY <1>1, <2>4 DEF IdsIn
<1> QED
  BY <1>2, <1>3, <1>4 DEF Covered

\* A batch of scores, those with spans about spans that are owed, keeps the score
\* store's part.
LEMMA ScoresKept ==
    ASSUME IInv, NEW n \in Nat, NEW scores, DOMAIN scores = 1 .. n,
           \A i \in 1 .. n : /\ scores[i] \in Scores
                             /\ scores[i].source = "eval" => scores[i].target[2] \in IdsIn(owed),
           UNCHANGED owed, db' = PutBatch(db, scores)
    PROVE  ScoresOk'
<1>1. db \in DbType /\ TablesAgree(db)
  BY DEF IInv, ScoresOk
<1>2. n \in Nat /\ DOMAIN scores = 1 .. n /\ \A i \in 1 .. n : scores[i] \in Scores
  OBVIOUS
<1>3. /\ db' \in DbType /\ TablesAgree(db')
      /\ \A id \in DOMAIN db'.rows :
            \/ id \in DOMAIN db.rows /\ db'.rows[id] = db.rows[id]
            \/ \E i \in 1 .. n : db'.rows[id] = scores[i]
  <2>1. db' = PutBatch(db, scores)
    OBVIOUS
  <2> QED
    BY ONLY <1>1, <1>2, <2>1, PutBatchKeeps
<1> QED
  BY <1>3 DEF IInv, ScoresOk

LEMMA PutScoresKeeps ==
    ASSUME IInv, NEW r \in Requests, PutScores(r) \/ ScoresFail(r)
    PROVE  IInv'
<1>1. /\ UNCHANGED <<up, visible, owed, channel, ledger, blocked, ppc, read, answer, known, limbo,
                     blobs, unsynced, low, window, try>>
      /\ pc[r] = "scores"
  BY DEF PutScores, ScoresFail, scoresRest, At, logVars, postVars, diskVars
<1>2. CASE ScoresFail(r)
  BY <1>1, <1>2, EndsOk, RefusalRetries, HandlerOnly
  DEF Refuses, ScoresFail, storeVars, logVars, postVars, diskVars
<1>3. CASE PutScores(r)
  <2>1. \A i \in DOMAIN Batch[r].spans : Covered(Batch[r].spans[i], owed)
    BY <1>1, StoredIsCovered
  <2>2. PICK a \in {"200", "OK"} : Ends(r, a)
    BY <1>3 DEF PutScores
  <2>3. Functional /\ try[r] \in 1 .. MaxTries[r]
    BY HandlerFacts
  <2>4. HandlerOk(r, try[r], "replied", NoWork, a, owed)
    BY <2>1, <2>3, IdleOk DEF Replies, Success
  <2>5. /\ try'[r] = try[r] /\ pc'[r] = "replied" /\ work'[r] = NoWork /\ reply'[r] = a
        /\ Moves(r)
    BY <1>1, <2>2, <2>3 DEF Ends, Goto, Functional, Moves
  <2>6. HandlersOk'
    BY <1>1, <2>4, <2>5, HandlersMove DEF IInv
  <2>7. ScoresOk'
    <3> DEFINE scores == Batch[r].scores
               n == Len(scores)
    <3>1. /\ n \in Nat /\ DOMAIN scores = 1 .. n
          /\ \A i \in 1 .. n : scores[i] \in ToSet(scores) /\ scores[i] \in Scores
      BY BatchFacts
    <3>2. \A i \in 1 .. n : scores[i].target[2] \in IdsIn(owed)
      BY <2>1, <3>1, ScoredIsOwed
    <3>3. db' = PutBatch(db, scores) /\ UNCHANGED owed
      BY <1>1, <1>3 DEF PutScores
    <3> HIDE DEF scores, n
    <3> QED
      BY <3>1, <3>2, <3>3, ScoresKept
  <2>8. LogOk' /\ PostsOk' /\ BlobsOk' /\ LedgerOk'
    BY <1>1 DEF IInv, LogOk, PostsOk, BlobsOk, LedgerOk
  <2> QED
    BY <2>6, <2>7, <2>8 DEF IInv
<1> QED
  BY <1>2, <1>3

LEMMA ClientKeeps ==
    ASSUME IInv, NEW r \in Requests, HangUp(r) \/ Retry(r)
    PROVE  IInv'
<1>1. UNCHANGED storeVars
  BY DEF HangUp, Retry, storeVars
<1>2. Functional /\ HandlerOk(r, try[r], pc[r], work[r], reply[r], owed) /\ try[r] \in 1 .. MaxTries[r]
  BY HandlerFacts
<1>3. CASE HangUp(r)
  <2>1. /\ Moves(r) /\ pc'[r] = "gone" /\ work'[r] = NoWork /\ try'[r] = try[r] /\ reply'[r] = reply[r]
    BY <1>2, <1>3 DEF HangUp, Goto, Functional, Moves
  <2>2. HandlerOk(r, try[r], "gone", NoWork, reply[r], owed)
    BY <1>2, IdleOk DEF HandlerOk
  <2> QED
    BY <1>1, <2>1, <2>2, HandlerOnly
<1>4. CASE Retry(r)
  <2>1. /\ try' = [try EXCEPT ![r] = @ + 1] /\ reply' = [reply EXCEPT ![r] = None]
        /\ pc' = [pc EXCEPT ![r] = "new"] /\ work' = work
        /\ try[r] < MaxTries[r] /\ pc[r] \in {"gone", "replied"}
    BY <1>4 DEF Retry, Goto
  <2>2. work[r] = NoWork
    BY <1>2, <2>1 DEF HandlerOk, TypedWork, HoldsBatch
  <2>3. /\ Moves(r) /\ pc'[r] = "new" /\ work'[r] = NoWork /\ try'[r] = try[r] + 1 /\ reply'[r] = None
    BY <1>2, <2>1, <2>2 DEF Functional, Moves
  <2>4. try[r] + 1 \in 1 .. MaxTries[r]
    <3>1. MaxTries[r] \in Nat
      BY IngestAssumption
    <3> QED
      BY <1>2, <2>1, <3>1
  <2>5. None \in Replies /\ None \notin Success
    BY NoneAssumption DEF Replies, Success
  <2>6. HandlerOk(r, try[r] + 1, "new", NoWork, None, owed)
    BY <2>4, <2>5, IdleOk
  <2> QED
    BY <1>1, <2>3, <2>6, HandlerOnly
<1> QED
  BY <1>3, <1>4

\* The posts. All of them leave the log, the handlers, the blobs and the ledger.
PostFunctions ==
    /\ ppc = [p \in Posts |-> ppc[p]] /\ read = [p \in Posts |-> read[p]]
    /\ answer = [p \in Posts |-> answer[p]] /\ known = [p \in Posts |-> known[p]]

LEMMA PostMoves ==
    ASSUME IInv, NEW p \in Posts, UNCHANGED postRest, PostFunctions',
           \A q \in Posts \ {p} :
              ppc'[q] = ppc[q] /\ read'[q] = read[q] /\ answer'[q] = answer[q] /\ known'[q] = known[q],
           PostOk(p, ppc'[p], read'[p], answer'[p], known'[p], owed), ScoresOk'
    PROVE  IInv'
<1>1. UNCHANGED <<up, visible, owed, channel, ledger, blocked, pc, try, work, reply, limbo, blobs,
                  unsynced, low, window>>
  BY DEF postRest, logVars, handlerVars, diskVars
<1>2. \A q \in Posts : PostOk(q, ppc'[q], read'[q], answer'[q], known'[q], owed')
  BY <1>1 DEF IInv, PostsOk
<1>3. PostsOk'
  BY <1>2 DEF PostsOk, PostFunctions
<1>4. LogOk' /\ HandlersOk' /\ BlobsOk' /\ LedgerOk'
  BY <1>1 DEF IInv, LogOk, HandlersOk, BlobsOk, LedgerOk
<1> QED
  BY <1>3, <1>4 DEF IInv

LEMMA PostFacts ==
    ASSUME IInv, NEW p \in Posts
    PROVE  PostFunctions /\ PostOk(p, ppc[p], read[p], answer[p], known[p], owed)
BY DEF IInv, PostsOk, PostFunctions

\* A post that is answered, with what it knows.
LEMMA PostEnds ==
    ASSUME IInv, NEW p \in Posts, NEW a, PEnds(p, a), UNCHANGED postRest, ScoresOk',
           known' = [known EXCEPT ![p] = known'[p]], a = "dangling" => Absent(p, known'[p])
    PROVE  IInv'
<1>1. PostFunctions
  BY PostFacts
<1>2. /\ PostFunctions' /\ ppc'[p] = "replied" /\ read'[p] = <<>> /\ answer'[p] = a
      /\ \A q \in Posts \ {p} :
            ppc'[q] = ppc[q] /\ read'[q] = read[q] /\ answer'[q] = answer[q] /\ known'[q] = known[q]
  BY <1>1 DEF PostFunctions, PEnds
<1>3. DOMAIN <<>> = {}
  OBVIOUS
<1>4. PostOk(p, "replied", <<>>, a, known'[p], owed)
  BY <1>3 DEF PostOk
<1> QED
  BY <1>2, <1>4, PostMoves

LEMMA PostBeginsKeeps ==
    ASSUME IInv, NEW p \in Posts, PostBegins(p) \/ PostMalformed(p)
    PROVE  IInv'
<1>1. UNCHANGED <<postRest, db, owed>> /\ ppc[p] = "new"
  BY DEF PostBegins, PostMalformed, postRest, logVars, PAt
<1>2. PostFunctions /\ PostOk(p, ppc[p], read[p], answer[p], known[p], owed)
  BY PostFacts
<1>3. ScoresOk'
  BY <1>1 DEF IInv, ScoresOk
<1>4. CASE \E a \in {"400", "422"} : PEnds(p, a)
  <2>1. known' = [known EXCEPT ![p] = known'[p]]
    BY <1>2 DEF PostBegins, PostMalformed, PostFunctions
  <2> QED
    BY <1>1, <1>3, <1>4, <2>1, PostEnds
<1>5. CASE /\ ppc' = [ppc EXCEPT ![p] = "check"] /\ UNCHANGED <<answer, read>>
           /\ known' = [known EXCEPT ![p] = IdsIn(owed)]
  <2>1. /\ PostFunctions' /\ ppc'[p] = "check" /\ read'[p] = read[p] /\ answer'[p] = answer[p]
        /\ known'[p] = IdsIn(owed)
        /\ \A q \in Posts \ {p} :
              ppc'[q] = ppc[q] /\ read'[q] = read[q] /\ answer'[q] = answer[q] /\ known'[q] = known[q]
    BY <1>2, <1>5 DEF PostFunctions
  <2>2. PostOk(p, "check", read[p], answer[p], IdsIn(owed), owed)
    BY <1>1, <1>2, NoneAssumption DEF PostOk
  <2> QED
    BY <1>1, <1>3, <2>1, <2>2, PostMoves
<1> QED
  BY <1>4, <1>5 DEF PostBegins, PostMalformed

\* What a post reads of a trace holds what was owed of it as the post began.
LEMMA PostReadsKeeps ==
    ASSUME IInv, NEW p \in Posts, NEW t \in Traces, PostReads(p, t)
    PROVE  IInv'
<1> DEFINE got == {s \in IdsIn(visible) : TraceOf[s] = t}
<1>1. /\ UNCHANGED <<postRest, db, owed, ppc, answer, known>> /\ ppc[p] = "check" /\ up
      /\ \E v \in {got, None} : read' = [read EXCEPT ![p] = Bind(@, t, v)]
  BY DEF PostReads, postRest, logVars, PAt
<1>2. PICK v \in {got, None} : read' = [read EXCEPT ![p] = Bind(@, t, v)]
  BY <1>1
<1>3. PostFunctions /\ PostOk(p, ppc[p], read[p], answer[p], known[p], owed)
  BY PostFacts
<1>4. known[p] \subseteq IdsIn(visible)
  <2>1. known[p] \subseteq IdsIn(owed) /\ owed \subseteq visible
    BY <1>1, <1>3 DEF PostOk, IInv, LogOk
  <2> QED
    BY <2>1, OwedGrows
<1>5. v = None \/ {s \in known[p] : TraceOf[s] = t} \subseteq v
  BY <1>4
<1> HIDE DEF got
<1>6. /\ PostFunctions' /\ read'[p] = Bind(read[p], t, v)
      /\ ppc'[p] = ppc[p] /\ answer'[p] = answer[p] /\ known'[p] = known[p]
      /\ \A q \in Posts \ {p} :
            ppc'[q] = ppc[q] /\ read'[q] = read[q] /\ answer'[q] = answer[q] /\ known'[q] = known[q]
  BY <1>1, <1>2, <1>3 DEF PostFunctions
<1>7. /\ DOMAIN Bind(read[p], t, v) = DOMAIN read[p] \cup {t}
      /\ \A u \in DOMAIN read[p] \cup {t} :
            Bind(read[p], t, v)[u] = IF u = t THEN v ELSE read[p][u]
  BY DEF Bind
<1>8. PostOk(p, ppc[p], Bind(read[p], t, v), answer[p], known[p], owed)
  BY <1>1, <1>3, <1>5, <1>7 DEF PostOk
<1>9. ScoresOk'
  BY <1>1 DEF IInv, ScoresOk
<1> QED
  BY <1>1, <1>6, <1>8, <1>9, PostMoves

\* A strict post is refused for a target that was absent as it began.
LEMMA DanglingIsAbsent ==
    ASSUME IInv, NEW p \in Posts, WantedBy(p) \subseteq DOMAIN read[p],
           NEW item \in ToSet(Posted[p].items), NEW hot,
           JoinStatus(item, Hint(p, item), read[p], hot) = "unmatched"
    PROVE  Absent(p, known[p])
<1> DEFINE span == item.ids["span"]
           trace == item.ids["trace"]
           rd == read[p]
           kn == known[p]
<1>1. \A t \in DOMAIN rd : rd[t] = None \/ {s \in kn : TraceOf[s] = t} \subseteq rd[t]
  BY PostFacts DEF PostOk
<1>2. Posted[p].route \in {"scores", "annotations"}
  BY PostAssumption DEF PostType
<1>3. CASE span # None /\ Hint(p, item) # None
  <2>1. Posted[p].route = "scores" /\ Hint(p, item) = trace
    BY <1>3 DEF Hint
  <2>2. trace \in DOMAIN rd
    BY <1>3, <2>1 DEF WantedBy, Wanted
  <2>3. rd[trace] # None /\ span \notin rd[trace]
    BY <1>3, <2>1 DEF JoinStatus
  <2>4. span \notin kn \/ TraceOf[span] # trace
    BY <1>1, <2>2, <2>3
  <2> QED
    BY <1>3, <2>4 DEF Absent
<1>4. CASE span # None /\ Hint(p, item) = None
  BY <1>4 DEF JoinStatus
<1>5. CASE span = None /\ trace # None
  <2>1. Posted[p].route = "scores"
    BY <1>2, <1>5, PostAssumption
  <2>2. trace \in DOMAIN rd
    BY <1>5, <2>1 DEF WantedBy, Wanted
  <2>3. rd[trace] # None /\ rd[trace] = {}
    BY <1>5 DEF JoinStatus
  <2>4. \A s \in kn : TraceOf[s] # trace
    BY <1>1, <2>2, <2>3
  <2> QED
    BY <1>5, <2>4 DEF Absent
<1>6. CASE span = None /\ trace = None
  BY <1>6 DEF JoinStatus
<1> QED
  BY <1>3, <1>4, <1>5, <1>6

LEMMA PostDecidesKeeps ==
    ASSUME IInv, NEW p \in Posts, PostDecides(p)
    PROVE  IInv'
<1>1. /\ UNCHANGED <<postRest, db, owed, known>> /\ ppc[p] = "check"
      /\ WantedBy(p) \subseteq DOMAIN read[p]
  BY DEF PostDecides, postRest, logVars, PAt
<1>2. PostFunctions /\ PostOk(p, ppc[p], read[p], answer[p], known[p], owed)
  BY PostFacts
<1>3. ScoresOk'
  BY <1>1 DEF IInv, ScoresOk
<1>4. CASE ppc' = [ppc EXCEPT ![p] = "put"] /\ UNCHANGED <<answer, read>>
  <2>1. /\ PostFunctions' /\ ppc'[p] = "put" /\ read'[p] = read[p] /\ answer'[p] = answer[p]
        /\ known'[p] = known[p]
        /\ \A q \in Posts \ {p} :
              ppc'[q] = ppc[q] /\ read'[q] = read[q] /\ answer'[q] = answer[q] /\ known'[q] = known[q]
    BY <1>1, <1>2, <1>4 DEF PostFunctions
  <2>2. PostOk(p, "put", read[p], answer[p], known[p], owed)
    BY <1>2 DEF PostOk
  <2> QED
    BY <1>1, <1>3, <2>1, <2>2, PostMoves
<1>5. CASE /\ PEnds(p, "dangling")
           /\ \E hot : \E item \in ToSet(Posted[p].items) :
                 JoinStatus(item, Hint(p, item), read[p], hot) = "unmatched"
  <2>1. Absent(p, known[p]) /\ known' = [known EXCEPT ![p] = known'[p]] /\ known'[p] = known[p]
    BY <1>1, <1>2, <1>5, DanglingIsAbsent DEF PostFunctions
  <2> QED
    BY <1>1, <1>3, <1>5, <2>1, PostEnds
<1> QED
  BY <1>4, <1>5 DEF PostDecides

LEMMA PostPutsKeeps ==
    ASSUME IInv, NEW p \in Posts, PostPuts(p)
    PROVE  IInv'
<1> DEFINE scores == [i \in DOMAIN Posted[p].items |-> ScoreOf(Posted[p].items[i], "api")]
           n == Len(Posted[p].items)
<1>1. UNCHANGED <<postRest, owed, known>>
  BY DEF PostPuts, postRest, logVars
<1>2. PostFunctions
  BY PostFacts
<1>3. known' = [known EXCEPT ![p] = known'[p]]
  BY <1>1, <1>2 DEF PostFunctions
<1>4. db' = PutBatch(db, scores) \/ db' = db
  BY DEF PostPuts
<1>5. ScoresOk'
  <2>1. CASE db' = db
    BY <1>1, <2>1 DEF IInv, ScoresOk
  <2>2. CASE db' = PutBatch(db, scores)
    <3>1. /\ n \in Nat /\ DOMAIN scores = 1 .. n
          /\ \A i \in 1 .. n : scores[i] \in Scores
      BY PostedFacts
    <3>2. \A i \in 1 .. n : scores[i].source = "api"
      BY <3>1 DEF ScoreOf
    <3> HIDE DEF scores, n
    <3> QED
      BY <1>1, <2>2, <3>1, <3>2, ScoresKept
  <2> QED
    BY <1>4, <2>1, <2>2
<1>6. \E a \in {"201", "200", "500"} : PEnds(p, a)
  BY DEF PostPuts
<1> QED
  BY <1>1, <1>3, <1>5, <1>6, PostEnds

\* The environment, and the process.
LEMMA DiskKeeps ==
    ASSUME IInv, SpaceChanges \/ SampleDisk
    PROVE  IInv'
<1>1. /\ UNCHANGED <<up, visible, owed, channel, ledger, pc, try, work, reply, ppc, read, answer,
                     known, limbo, blobs, unsynced, db, window>>
      /\ low \in BOOLEAN /\ blocked \in BOOLEAN => low' \in BOOLEAN /\ blocked' \in BOOLEAN
  BY DEF SpaceChanges, SampleDisk, environmentRest, logVars, handlerVars, postVars, diskVars
<1>2. LogOk'
  BY <1>1 DEF IInv, LogOk
<1>3. HandlersOk' /\ PostsOk' /\ BlobsOk' /\ LedgerOk' /\ ScoresOk'
  BY <1>1 DEF IInv, HandlersOk, PostsOk, BlobsOk, LedgerOk, ScoresOk
<1> QED
  BY <1>2, <1>3 DEF IInv

LEMMA EmptyLedger ==
    ASSUME NEW q, NEW w, q = <<>>, w = NoWindow
    PROVE  /\ q \in Seq(Keys) /\ w \in WindowType /\ Len(q) <= Capacity /\ WindowIsExact(q, w)
           /\ ToSet(q) = {}
<1>1. Len(<<>>) = 0 /\ 1 .. 0 = {} /\ ToSet(<<>>) = {} /\ 0 <= Capacity
  BY IngestAssumption DEF ToSet
<1>2. NoWindow \in WindowType /\ \A k \in Keys : NoWindow[k] = None
  BY DEF NoWindow, WindowType
<1> QED
  BY <1>1, <1>2 DEF WindowIsExact

LEMMA CrashKeeps ==
    ASSUME IInv, Crash
    PROVE  IInv'
<1>1. /\ UNCHANGED <<owed, try, reply, answer, known, low, db>>
      /\ up' = FALSE /\ visible' = {} /\ channel' = {} /\ limbo' = limbo \cup UNION channel
      /\ ledger' = <<>> /\ window' = NoWindow /\ blocked' = FALSE
      /\ pc' = [r \in Requests |-> IF pc[r] \in {"new", "replied"} THEN pc[r] ELSE "gone"]
      /\ ppc' = [p \in Posts |-> IF ppc[p] \in {"new", "replied"} THEN ppc[p] ELSE "gone"]
      /\ work' = [r \in Requests |-> NoWork] /\ read' = [p \in Posts |-> <<>>]
      /\ unsynced' = {}
  BY DEF Crash, Log!Stop
<1>2. LogOk'
  <2>1. UNION channel \subseteq Records /\ \A x \in UNION channel : Clean(x.body)
    BY DEF IInv, LogOk
  <2> QED
    BY <1>1, <2>1 DEF IInv, LogOk
<1>3. HandlersOk'
  <2>1. \A r \in Requests : HandlerOk(r, try'[r], pc'[r], work'[r], reply'[r], owed')
    <3> TAKE r \in Requests
    <3>1. HandlerOk(r, try[r], pc[r], work[r], reply[r], owed) /\ try[r] \in 1 .. MaxTries[r]
      BY HandlerFacts
    <3>2. pc'[r] \in {"new", "replied", "gone"} /\ work'[r] = NoWork /\ try'[r] = try[r]
          /\ reply'[r] = reply[r]
      BY <1>1
    <3>3. HandlerOk(r, try[r], pc'[r], NoWork, reply[r], owed)
      BY <3>1, <3>2, IdleOk DEF HandlerOk
    <3> QED
      BY <1>1, <3>2, <3>3
  <2> QED
    BY <1>1, <2>1 DEF IInv, HandlersOk
<1>4. PostsOk'
  <2>1. \A p \in Posts : PostOk(p, ppc'[p], read'[p], answer'[p], known'[p], owed')
    <3> TAKE p \in Posts
    <3>1. PostOk(p, ppc[p], read[p], answer[p], known[p], owed)
      BY PostFacts
    <3>2. /\ ppc'[p] \in {"new", "replied", "gone"} /\ ppc'[p] = "new" => ppc[p] = "new"
          /\ read'[p] = <<>> /\ answer'[p] = answer[p] /\ known'[p] = known[p] /\ DOMAIN <<>> = {}
      BY <1>1
    <3> QED
      BY <1>1, <3>1, <3>2 DEF PostOk
  <2> QED
    BY <1>1, <2>1 DEF IInv, PostsOk
<1>5. BlobsOk'
  <2>1. PICK lost : blobs' = [k \in DOMAIN blobs \ lost |-> blobs[k]]
    BY DEF Crash
  <2> QED
    BY <1>1, <2>1 DEF IInv, BlobsOk
<1>6. LedgerOk'
  BY <1>1, EmptyLedger DEF LedgerOk
<1>7. ScoresOk'
  BY <1>1 DEF IInv, ScoresOk
<1> QED
  BY <1>2, <1>3, <1>4, <1>5, <1>6, <1>7 DEF IInv

LEMMA RestartKeeps ==
    ASSUME IInv, Restart
    PROVE  IInv'
<1>1. /\ UNCHANGED <<owed, channel, ledger, blocked, pc, try, work, reply, ppc, read, answer, known,
                     blobs, unsynced, low, db, window>>
      /\ up' = TRUE /\ \E found \in SUBSET limbo : visible' = owed \cup found /\ limbo' = found
  BY DEF Restart, Log!Start, handlerVars, postVars, diskVars
<1>2. LogOk'
  BY <1>1 DEF IInv, LogOk
<1>3. HandlersOk' /\ PostsOk' /\ BlobsOk' /\ LedgerOk' /\ ScoresOk'
  BY <1>1 DEF IInv, HandlersOk, PostsOk, BlobsOk, LedgerOk, ScoresOk
<1> QED
  BY <1>2, <1>3 DEF IInv

LEMMA InitEstablishes == Init => IInv
<1> SUFFICES ASSUME Init PROVE IInv
  OBVIOUS
<1> USE DEF Init, Log!Init
<1>1. LogOk
  BY DEF LogOk
<1>2. HandlersOk
  <2>1. None \in Replies /\ None \notin Success
    BY NoneAssumption DEF Replies, Success
  <2>2. \A r \in Requests : 1 \in 1 .. MaxTries[r]
    BY IngestAssumption
  <2>3. \A r \in Requests : HandlerOk(r, 1, "new", NoWork, None, owed)
    BY <2>1, <2>2, IdleOk
  <2> QED
    BY <2>3 DEF HandlersOk
<1>3. PostsOk
  <2>1. DOMAIN <<>> = {} /\ None # "dangling"
    BY NoneAssumption
  <2> QED
    BY <2>1 DEF PostsOk, PostOk
<1>4. BlobsOk
  BY DEF BlobsOk
<1>5. LedgerOk
  BY EmptyLedger DEF LedgerOk
<1>6. ScoresOk
  <2>1. /\ db.rows = <<>> /\ db.byTarget = {} /\ db = [rows |-> <<>>, byTarget |-> {}]
        /\ DOMAIN <<>> = {}
    BY DEF EmptyDb
  <2>2. <<>> \in [{} -> Scores] /\ {} \in SUBSET ScoreIds
    OBVIOUS
  <2>3. <<>> \in UNION {[D -> Scores] : D \in SUBSET ScoreIds}
    BY <2>2
  <2>4. db \in DbType
    BY <2>1, <2>3 DEF DbType
  <2> QED
    BY <2>1, <2>4 DEF ScoresOk, TablesAgree
<1> QED
  BY <1>1, <1>2, <1>3, <1>4, <1>5, <1>6 DEF IInv

LEMMA StutterKeeps ==
    ASSUME IInv, UNCHANGED vars
    PROVE  IInv'
BY DEF IInv, LogOk, HandlersOk, PostsOk, BlobsOk, LedgerOk, ScoresOk, vars, logVars, handlerVars,
       postVars, diskVars, Functional, PostFunctions

LEMMA StepKeeps == IInv /\ [Next]_vars => IInv'
<1> SUFFICES ASSUME IInv, [Next]_vars PROVE IInv'
  OBVIOUS
<1>1. ASSUME NEW r \in Requests, Handler(r) \/ HangUp(r) \/ Retry(r) PROVE IInv'
  BY <1>1, DoorsKeep, FilterKeepsInv, PrepareKeeps, PutKeeps, AppendKeeps, RememberCallsKeeps,
     PutScoresKeeps, ClientKeeps DEF Handler
<1>2. ASSUME NEW b \in channel, Accept(b) \/ Shed(b) \/ SyncFails(b) PROVE IInv'
  BY <1>2, AcceptKeeps, RefusedKeeps
<1>3. ASSUME NEW p \in Posts, Post(p) PROVE IInv'
  BY <1>3, PostBeginsKeeps, PostReadsKeeps, PostDecidesKeeps, PostPutsKeeps DEF Post
<1>4. CASE SpaceChanges \/ SampleDisk \/ Crash \/ Restart
  BY <1>4, DiskKeeps, CrashKeeps, RestartKeeps
<1>5. CASE UNCHANGED vars
  BY <1>5, StutterKeeps
<1> QED
  BY <1>1, <1>2, <1>3, <1>4, <1>5 DEF Next

\* The inductive invariant holds of every behaviour.
THEOREM Invariance == Spec => []IInv
<1>1. Init => IInv
  BY InitEstablishes
<1>2. IInv /\ [Next]_vars => IInv'
  BY StepKeeps
<1> QED
  BY <1>1, <1>2, PTL DEF Spec

----------------------------------------------------------------------------
(***************************************************************************)
(* What follows.                                                           *)
(***************************************************************************)

\* A request that was told it is stored is stored, in full, and a score that
\* came with spans is about a span that is owed.
THEOREM AcknowledgedIsStored == Spec => []AckedIsStored
<1>1. IInv => AckedIsStored
  <2> SUFFICES ASSUME IInv PROVE AckedIsStored
    OBVIOUS
  <2>1. ASSUME NEW r \in Requests, reply[r] \in Success, NEW s \in ToSet(Batch[r].spans)
        PROVE  s.id \in IdsIn(owed) \/ (s.key # None /\ s.key \in Calls(owed))
    <3>1. PICK i \in DOMAIN Batch[r].spans : s = Batch[r].spans[i]
      BY BatchFacts
    <3> QED
      BY <2>1, <3>1, HandlerFacts DEF HandlerOk, Covered
  <2>2. \A id \in DOMAIN db.rows : db.rows[id].source = "eval" => db.rows[id].target[2] \in IdsIn(owed)
    BY DEF IInv, ScoresOk
  <2> QED
    BY <2>1, <2>2 DEF AckedIsStored
<1> QED
  BY <1>1, Invariance, PTL

\* A call within the ledger's reach is stored once.
THEOREM CallsAreStoredOnce == Spec => []StoredOnce
<1>1. IInv => StoredOnce
  <2> SUFFICES ASSUME IInv, NEW r \in Requests, NEW i \in DOMAIN work[r].kept,
                      IsCopy(Batch[r].spans[work[r].kept[i]])
               PROVE  /\ Batch[r].spans[work[r].kept[i]].key \notin work[r].reach
                      /\ \A j \in DOMAIN work[r].kept \ {i} :
                            Batch[r].spans[work[r].kept[j]].key # Batch[r].spans[work[r].kept[i]].key
    BY DEF StoredOnce, IsCopy
  <2>1. FilteredWork(r, pc[r], work[r], owed) /\ work[r].kept \in Seq(Nat)
    BY HandlerFacts DEF HandlerOk, WorkType
  <2>2. DOMAIN work[r].kept = 1 .. Len(work[r].kept)
    BY <2>1
  <2> QED
    BY <2>1, <2>2 DEF FilteredWork
<1> QED
  BY <1>1, Invariance, PTL

\* Nothing the redactor removes reaches the log or a blob file.
THEOREM RedactionIsComplete == Spec => []NothingRawStored
<1>1. IInv => NothingRawStored
  BY DEF IInv, LogOk, BlobsOk, NothingRawStored, Clean
<1> QED
  BY <1>1, Invariance, PTL

\* A strict post is refused only for a target that was absent as it began.
THEOREM StrictPostsAreRight == Spec => []StrictRejectsOnlyAbsent
<1>1. IInv => StrictRejectsOnlyAbsent
  <2> SUFFICES ASSUME IInv, NEW p \in Posts, answer[p] = "dangling" PROVE Absent(p, known[p])
    BY DEF StrictRejectsOnlyAbsent, Absent
  <2> QED
    BY PostFacts DEF PostOk
<1> QED
  BY <1>1, Invariance, PTL

\* The types, and the agreement of the two tables of the score store.
THEOREM TablesAlwaysAgree == Spec => []ScoreTablesAgree
<1>1. IInv => ScoreTablesAgree
  <2> SUFFICES ASSUME IInv PROVE ScoreTablesAgree
    OBVIOUS
  <2>1. /\ up \in BOOLEAN /\ visible \subseteq Records /\ owed \subseteq Records
        /\ channel \subseteq SUBSET Records /\ limbo \subseteq Records
        /\ blocked \in BOOLEAN /\ low \in BOOLEAN
    BY DEF IInv, LogOk
  <2>2. ledger \in Seq(Keys) /\ Len(ledger) <= Capacity /\ window \in [Keys -> (SUBSET Keys) \cup {None}]
    BY DEF IInv, LedgerOk, WindowType
  <2>3. try \in [Requests -> Nat] /\ \A r \in Requests : try[r] \in 1 .. MaxTries[r]
    <3>1. \A r \in Requests : try[r] \in 1 .. MaxTries[r] /\ try[r] \in Nat
      BY HandlerFacts, IngestAssumption
    <3> QED
      BY <3>1 DEF IInv, HandlersOk
  <2>4. ASSUME NEW r \in Requests
        PROVE  /\ pc[r] \in {"new", "floor", "prepare", "write", "sync", "queued", "remember", "scores",
                             "replied", "gone"}
               /\ ToSet(work[r].kept) \subseteq DOMAIN Batch[r].spans /\ ToSet(work[r].keys) \subseteq Keys
               /\ ToSet(work[r].bodies) \subseteq Bodies /\ Len(work[r].bodies) <= Len(work[r].kept)
               /\ work[r].probe \in 0 .. MaxProbe /\ work[r].reach \subseteq Keys
    <3>1. pc[r] \in Labels /\ work[r] \in WorkType /\ TypedWork(r, pc[r], work[r])
      BY HandlerFacts DEF HandlerOk
    <3>2. work[r].keys \in Seq(Keys) /\ work[r].bodies \in Seq(Bodies)
      BY <3>1 DEF WorkType
    <3>3. ToSet(work[r].keys) \subseteq Keys /\ ToSet(work[r].bodies) \subseteq Bodies
      BY <3>2, Members
    <3> QED
      BY <3>1, <3>3 DEF Labels, WorkType, TypedWork
  <2>5. \A p \in Posts : ppc[p] \in {"new", "check", "put", "replied", "gone"}
    BY PostFacts DEF PostOk
  <2>6. DOMAIN blobs \subseteq BlobKeys /\ unsynced \subseteq DOMAIN blobs
    BY DEF IInv, BlobsOk
  <2>7. TypeOK
    BY <2>1, <2>2, <2>3, <2>4, <2>5, <2>6 DEF TypeOK
  <2> QED
    BY <2>7 DEF ScoreTablesAgree, IInv, ScoresOk
<1> QED
  BY <1>1, Invariance, PTL

----------------------------------------------------------------------------
(***************************************************************************)
(* The references. BlobStore::put looks for its file and then writes it,   *)
(* with nothing held in between: two puts of payloads whose keys are the   *)
(* same may both find nothing, and the second rename takes the first file  *)
(* from under its reference. And a power loss takes a file whose directory *)
(* was not synced from under one that found it there. Those are all the    *)
(* ways in which a reference can fail to resolve: without the fault and    *)
(* without that race, every one does, whatever collides one after another, *)
(* fails, is retried, abandoned or found again by a restart.               *)
(***************************************************************************)

NoRacingCollision ==
    \A q, r \in Requests :
        pc[q] = "write" /\ pc[r] = "write" /\ BlobKey(q) = BlobKey(r) => Prepared(q) = Prepared(r)

Resolves(body, load, B) == body \in BlobKeys => body \in DOMAIN B /\ B[body] = Redacted[load]

\* The key and the content of the put a handler with the locals w is at.
KeyOf(r, w) == <<Hash[Redacted[Load(r, w)]], w.probe>>
Holds(r, w, B) == KeyOf(r, w) \in DOMAIN B /\ B[KeyOf(r, w)] = Redacted[Load(r, w)]

RefsOk(r, l, w, B) ==
    /\ \A m \in 1 .. Len(w.bodies) : Resolves(w.bodies[m], Batch[r].spans[w.kept[m]].load, B)
    /\ l = "write" /\ KeyOf(r, w) \in DOMAIN B => Holds(r, w, B)
    /\ l = "sync" => Holds(r, w, B)

RecordsResolve(R, B) == \A x \in R : Resolves(x.body, SpanOf(x).load, B)

\* The invariant of the references, inductive beside IInv.
RInv ==
    /\ \A r \in Requests : RefsOk(r, pc[r], work[r], blobs)
    /\ RecordsResolve(visible \cup owed \cup limbo, blobs)
    /\ \A b \in channel : RecordsResolve(b, blobs)

\* A handler's step moves that handler alone.
LEMMA HandlerMoves ==
    ASSUME IInv, NEW r \in Requests, Handler(r) \/ HangUp(r) \/ Retry(r)
    PROVE  Moves(r)
<1>1. Functional
  BY HandlerFacts
<1>2. \A l : Goto(r, l) /\ UNCHANGED <<try, reply>> /\ (work' = work \/ work' = [work EXCEPT ![r] = work'[r]])
             => Moves(r)
  BY <1>1 DEF Goto, Functional, Moves
<1>3. \A a : Ends(r, a) /\ UNCHANGED try => Moves(r)
  BY <1>1 DEF Ends, Goto, Functional, Moves
<1>4. \A body : Leaves(r, body) /\ UNCHANGED <<try, reply>> => Moves(r)
  BY <1>1 DEF Leaves, Goto, Functional, Moves
<1>5. CASE Unauthorized(r) \/ Malformed(r) \/ ChannelFull(r) \/ PutScores(r) \/ ScoresFail(r)
  BY <1>3, <1>5 DEF Unauthorized, Malformed, ChannelFull, PutScores, ScoresFail, Refuses, appendRest,
                    scoresRest
<1>6. CASE StaysInline(r) \/ DedupHit(r) \/ SyncBlobDir(r) \/ PutFails(r)
  BY <1>4, <1>6 DEF StaysInline, DedupHit, SyncBlobDir, PutFails, prepareRest
<1>7. CASE NotFound(r) \/ RenameBlob(r) \/ RememberCalls(r)
  BY <1>2, <1>7 DEF NotFound, RenameBlob, RememberCalls, prepareRest
<1>8. CASE AppendBatch(r)
  <2>1. \/ \E l : Goto(r, l) /\ UNCHANGED <<try, reply, work>>
        \/ \E a : Ends(r, a) /\ UNCHANGED try
    BY <1>8 DEF AppendBatch, appendRest, Refuses
  <2> QED
    BY <1>2, <1>3, <2>1
<1>9. CASE HangUp(r)
  BY <1>1, <1>9 DEF HangUp, Goto, Functional, Moves
<1>10. CASE Retry(r)
  BY <1>1, <1>10 DEF Retry, Goto, Functional, Moves
<1>11. CASE Collision(r)
  BY <1>1, <1>11 DEF Collision, prepareRest, Functional, Moves
<1>12. CASE FilterCalls(r)
  <2>1. CASE \E err : Refuses(r, err)
    BY <1>3, <1>12, <2>1 DEF FilterCalls, Refuses
  <2>2. CASE /\ Goto(r, "prepare") /\ UNCHANGED <<try, reply>>
             /\ \E k, c, s : work' = [work EXCEPT ![r].kept = k, ![r].keys = c, ![r].reach = s]
    BY <1>1, <2>2 DEF Goto, Functional, Moves
  <2> QED
    BY <1>12, <2>1, <2>2 DEF FilterCalls
<1> QED
  BY <1>5, <1>6, <1>7, <1>8, <1>9, <1>10, <1>11, <1>12 DEF Handler

\* Blob files that are there stay as they are.
Extends(B, C) == \A k \in DOMAIN B : k \in DOMAIN C /\ C[k] = B[k]

LEMMA RefsGrow ==
    ASSUME NEW r, NEW l, NEW w, NEW B, NEW C, Extends(B, C), RefsOk(r, l, w, B),
           l = "write" /\ KeyOf(r, w) \in DOMAIN C => Holds(r, w, C)
    PROVE  RefsOk(r, l, w, C)
BY DEF RefsOk, Extends, Resolves, Holds

LEMMA RecordsGrow ==
    ASSUME NEW R, NEW B, NEW C, Extends(B, C), RecordsResolve(R, B)
    PROVE  RecordsResolve(R, C)
BY DEF RecordsResolve, Extends, Resolves

\* A handler that is not at a put, with what it had prepared or with nothing.
LEMMA RefsRest ==
    ASSUME NEW r, NEW l, NEW w, NEW B, RefsOk(r, l, w, B), NEW h, h \notin {"write", "sync"}, NEW v,
           (v.bodies = w.bodies /\ v.kept = w.kept) \/ v.bodies = <<>>
    PROVE  RefsOk(r, h, v, B)
<1>1. 1 .. Len(<<>>) = {}
  OBVIOUS
<1> QED
  BY <1>1 DEF RefsOk

With(w, body) == [w EXCEPT !.bodies = Append(@, body), !.probe = 0]

LEMMA RefsLeave ==
    ASSUME NEW r, NEW l, NEW w \in WorkType, NEW B, RefsOk(r, l, w, B), NEW body \in Bodies,
           Resolves(body, Load(r, w), B)
    PROVE  RefsOk(r, "prepare", With(w, body), B)
<1> DEFINE v == With(w, body)
<1>1. w.bodies \in Seq(Bodies) /\ v.bodies = Append(w.bodies, body) /\ v.kept = w.kept
  BY DEF WorkType, With
<1>2. /\ Len(v.bodies) = Len(w.bodies) + 1 /\ Len(w.bodies) \in Nat
      /\ v.bodies[Len(w.bodies) + 1] = body
      /\ \A m \in 1 .. Len(w.bodies) : v.bodies[m] = w.bodies[m]
  BY <1>1
<1> HIDE DEF v
<1>3. \A m \in 1 .. Len(v.bodies) : m \in 1 .. Len(w.bodies) \/ m = Len(w.bodies) + 1
  BY <1>2
<1>4. \A m \in 1 .. Len(v.bodies) : Resolves(v.bodies[m], Batch[r].spans[v.kept[m]].load, B)
  BY <1>1, <1>2, <1>3 DEF RefsOk, Load
<1>5. RefsOk(r, "prepare", v, B)
  BY <1>4 DEF RefsOk
<1> QED
  BY <1>5 DEF v

LEMMA RefsMove ==
    ASSUME RInv, NEW r \in Requests, Moves(r), UNCHANGED <<blobs, visible, owed, limbo>>,
           RefsOk(r, pc'[r], work'[r], blobs), \A b \in channel' : RecordsResolve(b, blobs)
    PROVE  RInv'
<1>1. \A q \in Requests : RefsOk(q, pc'[q], work'[q], blobs')
  BY DEF RInv, Moves
<1> QED
  BY <1>1 DEF RInv

\* The handler's steps that leave the blob files.
LEMMA HandlerRefs ==
    ASSUME IInv, RInv, NEW r \in Requests, Handler(r) \/ HangUp(r) \/ Retry(r), ~RenameBlob(r)
    PROVE  RInv'
<1>1. Moves(r) /\ UNCHANGED <<blobs, visible, owed, limbo>>
  BY HandlerMoves
  DEF Handler, Unauthorized, Malformed, FilterCalls, StaysInline, DedupHit, Collision, NotFound,
      SyncBlobDir, PutFails, AppendBatch, ChannelFull, RememberCalls, PutScores, ScoresFail, HangUp,
      Retry, prepareRest, appendRest, scoresRest, logVars, diskVars
<1>2. Functional /\ work[r] \in WorkType /\ RefsOk(r, pc[r], work[r], blobs)
  BY HandlerFacts DEF RInv
<1>3. channel' = channel \/ channel' = channel \cup {Sent(r)}
  BY DEF Handler, Unauthorized, Malformed, FilterCalls, StaysInline, DedupHit, Collision, NotFound,
      SyncBlobDir, PutFails, AppendBatch, ChannelFull, RememberCalls, PutScores, ScoresFail, HangUp,
      Retry, prepareRest, appendRest, scoresRest
<1>4. RecordsResolve(Sent(r), blobs)
  <2> SUFFICES ASSUME NEW x \in Sent(r) PROVE Resolves(x.body, SpanOf(x).load, blobs)
    BY DEF RecordsResolve
  <2>1. work[r].bodies \in Seq(Bodies)
    BY <1>2 DEF WorkType
  <2>2. PICK m \in 1 .. Len(work[r].bodies) :
          x = [req |-> r, try |-> try[r], span |-> work[r].kept[m], body |-> work[r].bodies[m]]
    BY <2>1 DEF Sent
  <2> QED
    BY <1>2, <2>2 DEF RefsOk, SpanOf
<1>5. \A b \in channel' : RecordsResolve(b, blobs)
  BY <1>3, <1>4 DEF RInv
<1>6. RefsOk(r, pc'[r], work'[r], blobs)
  <2>1. CASE /\ pc'[r] \notin {"write", "sync"}
             /\ (work'[r].bodies = work[r].bodies /\ work'[r].kept = work[r].kept) \/ work'[r].bodies = <<>>
    BY <1>2, <2>1, RefsRest
  <2>2. CASE /\ pc'[r] = "prepare"
             /\ \E body \in Bodies :
                   /\ Resolves(body, Load(r, work[r]), blobs)
                   /\ work'[r] = With(work[r], body)
    BY <1>2, <2>2, RefsLeave
  <2>3. \A a : Ends(r, a) => pc'[r] = "replied" /\ work'[r].bodies = <<>>
    BY <1>2 DEF Ends, Goto, Functional, NoWork
  <2>4. CASE Unauthorized(r) \/ Malformed(r) \/ ChannelFull(r) \/ PutScores(r) \/ ScoresFail(r)
    BY <2>1, <2>3, <2>4 DEF Unauthorized, Malformed, ChannelFull, PutScores, ScoresFail, Refuses
  <2>5. CASE RememberCalls(r)
    BY <1>2, <2>1, <2>5 DEF RememberCalls, Goto, Functional
  <2>6. CASE AppendBatch(r)
    <3>1. CASE \E l \in {"remember", "queued"} : Goto(r, l) /\ UNCHANGED work
      BY <1>2, <2>1, <3>1 DEF Goto, Functional
    <3>2. CASE \E a : Ends(r, a)
      BY <2>1, <2>3, <3>2
    <3> QED
      BY <2>6, <3>1, <3>2 DEF AppendBatch, Refuses
  <2>7. CASE HangUp(r)
    BY <1>2, <2>1, <2>7 DEF HangUp, Goto, Functional, NoWork
  <2>8. CASE Retry(r)
    BY <1>2, <2>1, <2>8 DEF Retry, Goto, Functional
  <2>9. CASE Collision(r)
    <3>1. pc'[r] = "prepare" /\ work'[r] = [work[r] EXCEPT !.probe = @ + 1]
      BY <1>2, <2>9 DEF Collision, Puts, At, Functional
    <3>2. work'[r].bodies = work[r].bodies /\ work'[r].kept = work[r].kept
      BY <1>2, <3>1 DEF WorkType
    <3> QED
      BY <2>1, <3>1, <3>2
  <2>10. CASE FilterCalls(r)
    <3>1. pc[r] = "new"
      BY <2>10 DEF FilterCalls, At
    <3>2. CASE \E a : Ends(r, a)
      BY <2>1, <2>3, <3>2
    <3>3. CASE /\ Goto(r, "prepare")
               /\ \E k, c, s : work' = [work EXCEPT ![r].kept = k, ![r].keys = c, ![r].reach = s]
      <4>1. work[r] = NoWork
        BY <3>1, HandlerFacts DEF HandlerOk, TypedWork, HoldsBatch
      <4>2. pc'[r] = "prepare" /\ work'[r].bodies = work[r].bodies
        BY <1>2, <3>3 DEF Goto, Functional, WorkType
      <4> QED
        BY <2>1, <4>1, <4>2 DEF NoWork
    <3> QED
      BY <2>10, <3>2, <3>3 DEF FilterCalls, Refuses
  <2>11. ASSUME MoreToPrepare(r), pc[r] \in {"prepare", "write", "sync"}, NEW body \in Bodies,
                Leaves(r, body), Resolves(body, Load(r, work[r]), blobs)
         PROVE  RefsOk(r, pc'[r], work'[r], blobs)
    <3>1. pc'[r] = "prepare" /\ work'[r] = With(work[r], body)
      BY <1>2, <2>11 DEF Leaves, Goto, Functional, With
    <3> QED
      BY <2>2, <2>11, <3>1
  <2>12. CASE StaysInline(r) \/ PutFails(r)
    <3>1. MoreToPrepare(r) /\ pc[r] \in {"prepare", "write", "sync"} /\ Leaves(r, Prepared(r))
      BY <2>12, WriterFacts DEF StaysInline, PutFails, At
    <3>2. Prepared(r) \in Bodies /\ Prepared(r) \in Payloads \cup {None}
      BY <3>1, PreparedFacts, IngestAssumption DEF Prepared
    <3>3. Resolves(Prepared(r), Load(r, work[r]), blobs)
      BY <3>2, NoneAssumption DEF Resolves
    <3> QED
      BY <2>11, <3>1, <3>2, <3>3
  <2>13. CASE DedupHit(r) \/ SyncBlobDir(r)
    <3>1. /\ MoreToPrepare(r) /\ pc[r] \in {"prepare", "write", "sync"} /\ Leaves(r, BlobKey(r))
          /\ Prepared(r) \in Oversized
      BY <2>13, WriterFacts DEF DedupHit, SyncBlobDir, Puts, At
    <3>2. BlobKey(r) \in Bodies /\ BlobKey(r) = KeyOf(r, work[r]) /\ Prepared(r) = Redacted[Load(r, work[r])]
      BY <3>1, PreparedFacts DEF Bodies, BlobKey, KeyOf
    <3>3. Holds(r, work[r], blobs)
      BY <1>2, <2>13, <3>2 DEF DedupHit, AlreadyStored, SyncBlobDir, At, RefsOk, Holds
    <3>4. Resolves(BlobKey(r), Load(r, work[r]), blobs)
      BY <3>2, <3>3 DEF Resolves, Holds
    <3> QED
      BY <2>11, <3>1, <3>2, <3>4
  <2>14. CASE NotFound(r)
    <3>1. /\ MoreToPrepare(r) /\ Prepared(r) \in Oversized /\ BlobKey(r) \notin DOMAIN blobs
          /\ Goto(r, "write") /\ UNCHANGED work
      BY <2>14 DEF NotFound, Puts
    <3>2. BlobKey(r) = KeyOf(r, work[r])
      BY <3>1, PreparedFacts DEF BlobKey, KeyOf
    <3>3. pc'[r] = "write" /\ work'[r] = work[r]
      BY <1>2, <3>1 DEF Goto, Functional
    <3> QED
      BY <1>2, <3>1, <3>2, <3>3 DEF RefsOk
  <2> QED
    BY <2>4, <2>5, <2>6, <2>7, <2>8, <2>9, <2>10, <2>12, <2>13, <2>14 DEF Handler
<1> QED
  BY <1>1, <1>5, <1>6, RefsMove

\* The step that makes a blob file. Where the file was there, it had what this
\* put writes; where it was not, no other put that is about to write it writes
\* anything else.
LEMMA RenameRefs ==
    ASSUME IInv, RInv, NoRacingCollision, NEW r \in Requests, RenameBlob(r)
    PROVE  RInv'
<1>1. /\ pc[r] = "write" /\ pc' = [pc EXCEPT ![r] = "sync"]
      /\ blobs' = Bind(blobs, BlobKey(r), Prepared(r))
      /\ UNCHANGED <<work, channel, visible, owed, limbo>>
  BY DEF RenameBlob, At, Goto, prepareRest, logVars
<1>2. \A q \in Requests : pc[q] = "write" =>
         BlobKey(q) = KeyOf(q, work[q]) /\ Prepared(q) = Redacted[Load(q, work[q])]
  <2> TAKE q \in Requests
  <2> SUFFICES ASSUME pc[q] = "write"
               PROVE  BlobKey(q) = KeyOf(q, work[q]) /\ Prepared(q) = Redacted[Load(q, work[q])]
    OBVIOUS
  <2>1. MoreToPrepare(q) /\ Prepared(q) \in Oversized
    BY WriterFacts
  <2> QED
    BY <2>1, PreparedFacts DEF BlobKey, KeyOf
<1>3. BlobKey(r) \in DOMAIN blobs' /\ blobs'[BlobKey(r)] = Prepared(r)
  BY <1>1 DEF Bind
<1>4. \A k \in DOMAIN blobs' : k = BlobKey(r) \/ k \in DOMAIN blobs
  BY <1>1 DEF Bind
<1>5. Extends(blobs, blobs')
  <2>1. BlobKey(r) \in DOMAIN blobs => blobs[BlobKey(r)] = Prepared(r)
    BY <1>1, <1>2 DEF RInv, RefsOk, Holds
  <2> QED
    BY <1>1, <2>1 DEF Extends, Bind
<1>6. ASSUME NEW q \in Requests PROVE RefsOk(q, pc'[q], work'[q], blobs')
  <2>1. RefsOk(q, pc[q], work[q], blobs)
    BY DEF RInv
  <2>2. pc[q] = "write" /\ KeyOf(q, work[q]) \in DOMAIN blobs' => Holds(q, work[q], blobs')
    <3> SUFFICES ASSUME pc[q] = "write", KeyOf(q, work[q]) \in DOMAIN blobs'
                 PROVE  Holds(q, work[q], blobs')
      OBVIOUS
    <3>1. CASE KeyOf(q, work[q]) = BlobKey(r)
      BY <1>1, <1>2, <1>3, <3>1 DEF NoRacingCollision, Holds
    <3>2. CASE KeyOf(q, work[q]) # BlobKey(r)
      BY <1>4, <1>5, <2>1, <3>2 DEF RefsOk, Holds, Extends
    <3> QED
      BY <3>1, <3>2
  <2>3. RefsOk(q, pc[q], work[q], blobs')
    BY ONLY <1>5, <2>1, <2>2, RefsGrow
  <2>4. CASE q = r
    <3>1. pc'[q] = "sync" /\ work'[q] = work[q]
      BY <1>1, <2>4 DEF IInv, HandlersOk
    <3>2. Holds(q, work[q], blobs')
      BY <1>1, <1>2, <1>3, <2>4 DEF Holds
    <3> QED
      BY <2>3, <3>1, <3>2 DEF RefsOk
  <2>5. CASE q # r
    BY <1>1, <2>3, <2>5
  <2> QED
    BY <2>4, <2>5
<1>7. RecordsResolve(visible' \cup owed' \cup limbo', blobs')
  BY <1>1, <1>5, RecordsGrow DEF RInv
<1>8. \A b \in channel' : RecordsResolve(b, blobs')
  BY <1>1, <1>5, RecordsGrow DEF RInv
<1> QED
  BY <1>6, <1>7, <1>8 DEF RInv

\* A handler with nothing in hand has no reference to keep.
LEMMA RefsIdle ==
    ASSUME NEW r, NEW l, l \notin {"write", "sync"}, NEW B
    PROVE  RefsOk(r, l, NoWork, B)
<1>1. 1 .. Len(<<>>) = {} /\ NoWork.bodies = <<>>
  BY DEF NoWork
<1> QED
  BY <1>1 DEF RefsOk

\* The writer's answers hand over what was in the channel.
LEMMA WriterRefs ==
    ASSUME RInv, NEW b \in channel, Accept(b) \/ Shed(b) \/ SyncFails(b)
    PROVE  RInv'
<1>1. /\ UNCHANGED blobs /\ channel' = channel \ {b}
      /\ visible' \cup owed' \cup limbo' \subseteq visible \cup owed \cup limbo \cup b
  BY DEF Accept, Log!Accept, Shed, SyncFails, writerRest, diskVars, logVars
<1>2. RecordsResolve(visible' \cup owed' \cup limbo', blobs')
  BY <1>1 DEF RInv, RecordsResolve
<1>3. ASSUME NEW r \in Requests PROVE RefsOk(r, pc'[r], work'[r], blobs')
  <2>1. RefsOk(r, pc[r], work[r], blobs)
    BY DEF RInv
  <2>2. \/ pc'[r] = pc[r] /\ work'[r] = work[r]
        \/ pc'[r] = "remember" /\ UNCHANGED work
        \/ pc'[r] = "replied" /\ work'[r] = NoWork
    BY DEF Accept, Shed, SyncFails, Refused
  <2>3. CASE pc'[r] = pc[r] /\ work'[r] = work[r]
    BY <1>1, <2>1, <2>3
  <2>4. CASE pc'[r] = "remember" /\ UNCHANGED work
    BY <1>1, <2>1, <2>4, RefsRest
  <2>5. CASE pc'[r] = "replied" /\ work'[r] = NoWork
    BY <2>5, RefsIdle
  <2> QED
    BY <2>2, <2>3, <2>4, <2>5
<1> QED
  BY <1>1, <1>2, <1>3 DEF RInv

\* The process dies, with its power or without, and is started again.
LEMMA ProcessRefs ==
    ASSUME RInv, "power" \notin Faults, Crash \/ Restart
    PROVE  RInv'
<1>1. CASE Crash
  <2>1. /\ visible' = {} /\ owed' = owed /\ channel' = {} /\ limbo' = limbo \cup UNION channel
        /\ pc' = [r \in Requests |-> IF pc[r] \in {"new", "replied"} THEN pc[r] ELSE "gone"]
        /\ work' = [r \in Requests |-> NoWork]
        /\ \E lost \in SUBSET {} : blobs' = [k \in DOMAIN blobs \ lost |-> blobs[k]]
    BY <1>1 DEF Crash, Log!Stop
  <2>2. Extends(blobs, blobs')
    BY <2>1 DEF Extends
  <2>3. RecordsResolve(visible' \cup owed' \cup limbo', blobs)
    BY <2>1 DEF RInv, RecordsResolve
  <2>4. RecordsResolve(visible' \cup owed' \cup limbo', blobs')
    BY <2>2, <2>3, RecordsGrow
  <2>5. \A r \in Requests : RefsOk(r, pc'[r], work'[r], blobs')
    BY <2>1, RefsIdle
  <2> QED
    BY <2>1, <2>4, <2>5 DEF RInv
<1>2. CASE Restart
  <2>1. /\ UNCHANGED <<owed, channel, pc, work, blobs>>
        /\ visible' \cup owed' \cup limbo' \subseteq visible \cup owed \cup limbo
    BY <1>2 DEF Restart, Log!Start, handlerVars, diskVars
  <2>2. RecordsResolve(visible' \cup owed' \cup limbo', blobs')
    BY <2>1 DEF RInv, RecordsResolve
  <2> QED
    BY <2>1, <2>2 DEF RInv
<1> QED
  BY <1>1, <1>2

\* The steps that touch neither the blobs nor what refers to them.
LEMMA OtherRefs ==
    ASSUME RInv, (\E p \in Posts : Post(p)) \/ SpaceChanges \/ SampleDisk \/ UNCHANGED vars
    PROVE  RInv'
<1>1. UNCHANGED <<pc, work, blobs, visible, owed, limbo, channel>>
  BY DEF Post, PostBegins, PostMalformed, PostDecides, PostPuts, PostReads, postRest, SpaceChanges,
         SampleDisk, environmentRest, vars, logVars, handlerVars, diskVars
<1> QED
  BY <1>1 DEF RInv

LEMMA StepRefs ==
    ASSUME "power" \notin Faults
    PROVE  IInv /\ RInv /\ NoRacingCollision /\ [Next]_vars => RInv'
<1> SUFFICES ASSUME IInv, RInv, NoRacingCollision, [Next]_vars PROVE RInv'
  OBVIOUS
<1>1. ASSUME NEW r \in Requests, Handler(r) \/ HangUp(r) \/ Retry(r) PROVE RInv'
  BY <1>1, HandlerRefs, RenameRefs
<1>2. ASSUME NEW b \in channel, Accept(b) \/ Shed(b) \/ SyncFails(b) PROVE RInv'
  BY <1>2, WriterRefs
<1>3. CASE Crash \/ Restart
  BY <1>3, ProcessRefs
<1>4. CASE (\E p \in Posts : Post(p)) \/ SpaceChanges \/ SampleDisk \/ UNCHANGED vars
  BY <1>4, OtherRefs
<1> QED
  BY <1>1, <1>2, <1>3, <1>4 DEF Next

LEMMA InitRefs == Init => RInv
<1> SUFFICES ASSUME Init PROVE RInv
  OBVIOUS
<1>1. \A r \in Requests : RefsOk(r, pc[r], work[r], blobs)
  BY RefsIdle DEF Init
<1> QED
  BY <1>1 DEF RInv, RecordsResolve, Init, Log!Init

\* What a run checks follows from the invariant.
LEMMA RefsFollow == IInv /\ RInv /\ ScoreTablesAgree => ReferencesResolve
BY DEF RInv, RecordsResolve, Resolves, ReferencesResolve

\* Without a power loss, and as long as no two puts race for one blob key with
\* different payloads, every reference a read can meet resolves to the bytes
\* that were offloaded.
THEOREM ReferencesAlwaysResolve ==
    ASSUME "power" \notin Faults
    PROVE  Spec /\ []NoRacingCollision => []ReferencesResolve
<1>1. Init => RInv
  BY InitRefs
<1>2. IInv /\ RInv /\ NoRacingCollision /\ [Next]_vars => RInv'
  BY StepRefs
<1>3. IInv /\ RInv /\ ScoreTablesAgree => ReferencesResolve
  BY RefsFollow
<1> QED
  BY <1>1, <1>2, <1>3, Invariance, TablesAlwaysAgree, PTL DEF Spec

\* Two puts under one key race only with payloads whose hashes are equal, so a
\* hash without collisions among the payloads that are offloaded is enough.
THEOREM DistinctHashesResolve ==
    ASSUME "power" \notin Faults,
           \A p, q \in Oversized : Hash[p] = Hash[q] => p = q
    PROVE  Spec => []ReferencesResolve
<1>1. IInv => NoRacingCollision
  <2> SUFFICES ASSUME IInv, NEW q \in Requests, NEW r \in Requests, pc[q] = "write",
                      pc[r] = "write", BlobKey(q) = BlobKey(r)
               PROVE  Prepared(q) = Prepared(r)
    BY DEF NoRacingCollision
  <2>1. Prepared(q) \in Oversized /\ Prepared(r) \in Oversized
    BY WriterFacts
  <2>2. Hash[Prepared(q)] = Hash[Prepared(r)]
    BY DEF BlobKey
  <2> QED
    BY <2>1, <2>2
<1> QED
  BY <1>1, Invariance, ReferencesAlwaysResolve, PTL

=============================================================================
