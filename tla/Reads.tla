------------------------------- MODULE Reads -------------------------------
(***************************************************************************)
(* The read path of evald beside the compactor: Store::query, which the    *)
(* REST API uses (src/src/store/mod.rs), and register_spans, which /v1/sql *)
(* uses (src/src/sql.rs). Both combine the hot tier, the list of blocks in *)
(* the index and the block files, and take no lock across the three, while *)
(* flushes, merges, the aged sweep and retention change them.              *)
(*                                                                         *)
(* The unit of data is a WAL segment, which stands for its spans. A block  *)
(* is the set of segments whose spans it holds: {n} after a flush, more    *)
(* after a merge. Which blocks merge is module Merge's matter; here any    *)
(* may. Filters and limits are left out: they select from the same rows.   *)
(***************************************************************************)
EXTENDS Naturals, FiniteSets

CONSTANTS
    Readers,        \* clients that read, one call after another
    MaxSegments,    \* bound: segments written
    Grace           \* MergePolicy::unlink_grace, in ticks of the clock

ASSUME ReadsAssumption == MaxSegments \in Nat /\ Grace \in Nat

Segs == 1 .. MaxSegments
Blocks == (SUBSET Segs) \ {{}}

VARIABLES
    written,    \* segments acknowledged so far
    hot,        \* segments with a group in the hot tier
    index,      \* blocks the index lists
    files,      \* block files present
    age,        \* time since a block left the index by a merge
    flushing,   \* the segment committed to cold and not yet dropped from memory
    doomed,     \* blocks a retention sweep has still to unlink
    expired,    \* segments retention has dropped
    \* each reader
    kind,       \* "rest" for a call of Store::query, "sql" for one of /v1/sql
    rpc,        \* where it is
    attempt,    \* listings done
    hotSnap,    \* the hot tier as it saw it
    todo,       \* listed blocks it has still to open
    got,        \* blocks it has opened
    owed,       \* what was stored when it began
    waited,     \* time since its last listing
    robbed      \* retention dropped a block of its last listing

storeVars == <<written, hot, index, files, age, flushing, doomed, expired>>
readVars == <<kind, rpc, attempt, hotSnap, todo, got, owed>>
vars == <<storeVars, readVars, waited, robbed>>

Init ==
    /\ written = 0 /\ hot = {} /\ index = {} /\ files = {}
    /\ age = [b \in Blocks |-> 0]
    /\ flushing = 0 /\ doomed = {} /\ expired = {}
    /\ kind = [r \in Readers |-> "rest"] /\ rpc = [r \in Readers |-> "done"]
    /\ attempt = [r \in Readers |-> 0]
    /\ hotSnap = [r \in Readers |-> {}] /\ todo = [r \in Readers |-> {}]
    /\ got = [r \in Readers |-> {}] /\ owed = [r \in Readers |-> {}]
    /\ waited = [r \in Readers |-> 0] /\ robbed = [r \in Readers |-> FALSE]

----------------------------------------------------------------------------
(***************************************************************************)
(* The store: writer, compactor, retention, clock.                         *)
(***************************************************************************)

\* The compaction mutex is free.
MutexFree == flushing = 0 /\ doomed = {}

Cold == UNION index

\* The writer publishes a segment's spans and acknowledges them.
Publish ==
    /\ written < MaxSegments
    /\ written' = written + 1
    /\ hot' = hot \cup {written + 1}
    /\ UNCHANGED <<index, files, age, flushing, doomed, expired, readVars, waited, robbed>>

\* flush_one: the block is written and committed, then the group is dropped.
CommitFlush(n) ==
    /\ MutexFree
    /\ n \in hot /\ \A m \in hot : n <= m
    /\ index' = index \cup {{n}} /\ files' = files \cup {{n}}
    /\ flushing' = n
    /\ UNCHANGED <<written, hot, age, doomed, expired, readVars, waited, robbed>>

\* HotTier::drop_segment, and the mutex is released.
Drop(n) == hot' = hot \ {n} /\ flushing' = 0

DropGroup ==
    /\ flushing # 0 /\ Drop(flushing)
    /\ UNCHANGED <<written, index, files, age, doomed, expired, readVars, waited, robbed>>

\* merge_chunk: the inputs leave the index as the output enters it, and stay
\* on disk.
MergeUnlinksInputs(K) == files' = (files \ K) \cup {UNION K}   \* faulty variant
MergeKeepsInputs(K) == files' = files \cup {UNION K}

CommitMerge(K) ==
    /\ MutexFree
    /\ K \subseteq index /\ Cardinality(K) >= 2
    /\ index' = (index \ K) \cup {UNION K}
    /\ MergeKeepsInputs(K)
    /\ age' = [b \in Blocks |-> IF b \in K THEN 0 ELSE age[b]]
    /\ UNCHANGED <<written, hot, flushing, doomed, expired, readVars, waited, robbed>>

\* sweep_unindexed: un-indexed files past their grace.
Sweep ==
    /\ MutexFree
    /\ \E b \in files \ index : age[b] >= Grace
    /\ files' = {b \in files : b \in index \/ age[b] < Grace}
    /\ UNCHANGED <<written, hot, index, age, flushing, doomed, expired, readVars, waited, robbed>>

\* reclaim_before_in: the index first, then the files, with no grace.
Reclaim(S) ==
    /\ MutexFree /\ S # {} /\ S \subseteq index
    /\ index' = index \ S /\ doomed' = S
    /\ expired' = expired \cup UNION S
    /\ robbed' = [r \in Readers |-> robbed[r] \/ (todo[r] \cup got[r]) \cap S # {}]
    /\ UNCHANGED <<written, hot, files, age, flushing, readVars, waited>>

Unlink(b) ==
    /\ b \in doomed
    /\ files' = files \ {b} /\ doomed' = doomed \ {b}
    /\ UNCHANGED <<written, hot, index, age, flushing, expired, readVars, waited, robbed>>

Tick ==
    /\ \E b \in files \ index : age[b] < Grace
    /\ age' = [b \in Blocks |-> IF b \in files \ index /\ age[b] < Grace THEN age[b] + 1 ELSE age[b]]
    /\ waited' = [r \in Readers |-> IF waited[r] < Grace THEN waited[r] + 1 ELSE Grace]
    /\ UNCHANGED <<written, hot, index, files, flushing, doomed, expired, readVars, robbed>>

System ==
    \/ Publish \/ DropGroup \/ Sweep \/ Tick
    \/ \E n \in Segs : CommitFlush(n)
    \/ \E K \in SUBSET Blocks : CommitMerge(K) \/ Reclaim(K)
    \/ \E b \in Blocks : Unlink(b)

----------------------------------------------------------------------------
(***************************************************************************)
(* The readers. A REST read copies the hot tier, then goes through "list"  *)
(* and "open"; a SQL query resolves the paths it listed in "open", copies  *)
(* the hot tier, then opens the files in "scan". Both end in "done" or in  *)
(* "failed", and may be called again.                                      *)
(***************************************************************************)

Goto(r, pc) == rpc' = [rpc EXCEPT ![r] = pc]
Forget(r) == got' = [got EXCEPT ![r] = {}]

Discard(r) == Forget(r)

\* A new call: nothing read yet, and owed what is stored now.
Free(r) == rpc[r] \in {"done", "failed"}
Begins(r, k) ==
    /\ Free(r) /\ Forget(r)
    /\ kind' = [kind EXCEPT ![r] = k]
    /\ owed' = [owed EXCEPT ![r] = hot \cup Cold]

\* Index::all_block_paths, one read transaction.
List(r, n) ==
    /\ attempt' = [attempt EXCEPT ![r] = n]
    /\ todo' = [todo EXCEPT ![r] = index]
    /\ waited' = [waited EXCEPT ![r] = 0]
    /\ robbed' = [robbed EXCEPT ![r] = FALSE]

\* Under the hot tier's read lock.
SnapHot(r) == hotSnap' = [hotSnap EXCEPT ![r] = hot]

RestBegins(r) ==
    /\ Begins(r, "rest")
    /\ SnapHot(r)
    /\ Goto(r, "list")
    /\ UNCHANGED <<storeVars, attempt, todo, waited, robbed>>

RestLists(r) ==
    /\ rpc[r] = "list"
    /\ List(r, 1)
    /\ Goto(r, "open")
    /\ UNCHANGED <<storeVars, kind, hotSnap, got, owed>>

SqlBegins(r) ==
    /\ Begins(r, "sql")
    /\ List(r, 1)
    /\ Goto(r, "open")
    /\ UNCHANGED <<storeVars, hotSnap>>

\* read_block of a REST read, canonicalize of a SQL query: the file is there.
Opens(r, b) ==
    /\ rpc[r] = "open" /\ b \in todo[r] /\ b \in files
    /\ got' = [got EXCEPT ![r] = @ \cup {b}]
    /\ todo' = [todo EXCEPT ![r] = @ \ {b}]
    /\ UNCHANGED <<storeVars, kind, rpc, attempt, hotSnap, owed, waited, robbed>>

\* Faulty variant: a block that is gone is passed over.
PassesOver(r, b) ==
    /\ rpc[r] = "open" /\ b \in todo[r] /\ b \notin files
    /\ attempt[r] = 1
    /\ todo' = [todo EXCEPT ![r] = @ \ {b}]
    /\ UNCHANGED <<storeVars, kind, rpc, attempt, hotSnap, got, owed, waited, robbed>>

\* The first time a listed file is gone, everything is listed again and what
\* was read is discarded.
ListsAgain(r, b) ==
    /\ rpc[r] = "open" /\ b \in todo[r] /\ b \notin files
    /\ attempt[r] = 1
    /\ Discard(r)
    /\ List(r, 2)
    /\ UNCHANGED <<storeVars, kind, rpc, hotSnap, owed>>

\* The second time it is an error.
GivesUp(r, b) ==
    /\ rpc[r] = "open" /\ b \in todo[r] /\ b \notin files
    /\ attempt[r] = 2
    /\ Goto(r, "failed")
    /\ UNCHANGED <<storeVars, kind, attempt, hotSnap, todo, got, owed, waited, robbed>>

RestEnds(r) ==
    /\ kind[r] = "rest" /\ rpc[r] = "open" /\ todo[r] = {}
    /\ Goto(r, "done")
    /\ UNCHANGED <<storeVars, kind, attempt, hotSnap, todo, got, owed, waited, robbed>>

\* register_spans: with the listing table registered, the hot tier is copied.
SqlCopiesHot(r) ==
    /\ kind[r] = "sql" /\ rpc[r] = "open" /\ todo[r] = {}
    /\ SnapHot(r)
    /\ todo' = [todo EXCEPT ![r] = got[r]]
    /\ Forget(r)
    /\ Goto(r, "scan")
    /\ UNCHANGED <<storeVars, kind, attempt, owed, waited, robbed>>

\* The scan opens the registered files; it does not list again.
SqlScans(r, b) ==
    /\ rpc[r] = "scan" /\ b \in todo[r]
    /\ \/ b \in files /\ got' = [got EXCEPT ![r] = @ \cup {b}] /\ UNCHANGED rpc
       \/ b \notin files /\ Goto(r, "failed") /\ UNCHANGED got
    /\ todo' = [todo EXCEPT ![r] = @ \ {b}]
    /\ UNCHANGED <<storeVars, kind, attempt, hotSnap, owed, waited, robbed>>

SqlEnds(r) ==
    /\ rpc[r] = "scan" /\ todo[r] = {}
    /\ Goto(r, "done")
    /\ UNCHANGED <<storeVars, kind, attempt, hotSnap, todo, got, owed, waited, robbed>>

Read(r) ==
    \/ RestBegins(r) \/ RestLists(r) \/ RestEnds(r)
    \/ SqlBegins(r) \/ SqlCopiesHot(r) \/ SqlEnds(r)
    \/ \E b \in Blocks :
        Opens(r, b) \/ ListsAgain(r, b) \/ GivesUp(r, b) \/ SqlScans(r, b)

Next == System \/ \E r \in Readers : Read(r)

Spec == Init /\ [][Next]_vars

----------------------------------------------------------------------------

\* Every variable has its type; a reader has listed at most twice.
TypeOK ==
    /\ written \in 0 .. MaxSegments /\ hot \subseteq Segs /\ expired \subseteq Segs
    /\ index \subseteq Blocks /\ files \subseteq Blocks /\ doomed \subseteq Blocks
    /\ age \in [Blocks -> 0 .. Grace] /\ waited \in [Readers -> 0 .. Grace]
    /\ flushing \in {0} \cup hot
    /\ kind \in [Readers -> {"rest", "sql"}]
    /\ rpc \in [Readers -> {"list", "open", "scan", "done", "failed"}]
    /\ attempt \in [Readers -> 0 .. 2] /\ robbed \in [Readers -> BOOLEAN]
    /\ hotSnap \in [Readers -> SUBSET Segs] /\ owed \in [Readers -> SUBSET Segs]
    /\ todo \in [Readers -> SUBSET Blocks] /\ got \in [Readers -> SUBSET Blocks]

Answer(r) == hotSnap[r] \cup UNION got[r]
NothingMissed(r) == rpc[r] = "done" => owed[r] \ expired \subseteq Answer(r)

\* What sql.rs says of the spans view: a query never misses a span across an
\* in-flight compaction.
SqlReadsComplete == \A r \in Readers : kind[r] = "sql" => NothingMissed(r)

\* No answer counts a span of one segment from two blocks: a merge's inputs
\* and its output are never read together, across a retry neither, wherever
\* in Store::query each reader is.
NothingCountedTwice ==
    TypeOK /\ \A r \in Readers : \A b, c \in got[r] : b # c => b \cap c = {}

\* A REST read that succeeds returns every span stored when it began and not
\* expired since, and none from two blocks, whatever the compactor did
\* meanwhile: the hot tier is copied before the listing, so a flush in between
\* shows its spans twice, not never.
RestReadsComplete ==
    NothingCountedTwice /\ \A r \in Readers : kind[r] = "rest" => NothingMissed(r)

\* A read fails only if it outlived the grace since its last listing, or if
\* retention dropped a block it had listed: a merge alone never fails it.
FailsForCause ==
    \A r \in Readers : rpc[r] = "failed" => waited[r] >= Grace \/ robbed[r]
=============================================================================
