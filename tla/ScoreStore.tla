----------------------------- MODULE ScoreStore -----------------------------
(***************************************************************************)
(* The score store of evald (src/src/store/scores.rs): two redb tables,    *)
(* rows from a score's id to the score, and byTarget, a multimap from a    *)
(* target key to ids. A score is a record with at least the fields id,     *)
(* target and ts; the rest of it is carried and never looked at. The       *)
(* operators are pure: a batch is one redb transaction, so whoever calls   *)
(* PutBatch takes its result in one step or, when it fails, not at all.    *)
(***************************************************************************)
EXTENDS Sequences, SequencesExt, FiniteSetsExt, TLC

\* A map with one binding more, or another.
Bind(f, k, v) == [x \in DOMAIN f \cup {k} |-> IF x = k THEN v ELSE f[x]]

EmptyDb == [rows |-> <<>>, byTarget |-> {}]

\* One score of put_batch: a row stored under another target loses that
\* mapping, then the row and the mapping are written.
PutOne(db, s) ==
    LET moved == s.id \in DOMAIN db.rows /\ db.rows[s.id].target # s.target
        stale == IF moved THEN {<<db.rows[s.id].target, s.id>>} ELSE {}
    IN  [rows |-> Bind(db.rows, s.id, s),
         byTarget |-> (db.byTarget \ stale) \cup {<<s.target, s.id>>}]

\* The whole batch, in order, within one transaction.
PutBatch(db, scores) == FoldLeft(PutOne, db, scores)

\* The members of a set, each once; their order is not promised.
Listed(S) == FoldSet(LAMBDA x, listed : Append(listed, x), <<>>, S)

\* sort_newest_first is stable over what a table iterates in id order; the
\* order of equal times is not promised, so any of them may come first.
\* The faulty variant leaves them as the table iterates.
OldestFirst(S) == SortSeq(Listed(S), LAMBDA s, t : s.ts < t.ts)
NewestFirst(S) == SortSeq(Listed(S), LAMBDA s, t : s.ts > t.ts)

ByTarget(db, target) ==
    NewestFirst({db.rows[id] : id \in {i \in DOMAIN db.rows : <<target, i>> \in db.byTarget}})

List(db, limit) ==
    LET all == NewestFirst({db.rows[id] : id \in DOMAIN db.rows})
    IN  SubSeq(all, 1, IF limit < Len(all) THEN limit ELSE Len(all))

\* What the two tables have to agree on at every commit.
TablesAgree(db) ==
    db.byTarget = {<<db.rows[id].target, id>> : id \in DOMAIN db.rows}
=============================================================================
