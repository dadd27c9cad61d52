# A verification project for evald

evald is a single-process trace store and evaluation tool for LLM applications. It accepts
OpenTelemetry spans and log records over HTTP and gRPC, acknowledges them once they are durable,
keeps recent spans in memory and older ones in Parquet files, and answers queries, reports and
evaluations over both. This directory holds TLA+ models of it, the TLC configurations that check
them, and TLAPS proofs about its store, its cold tier, its reads, its ingestion, its mapping of log
records, its processes and its evaluation runs. Paths below are relative to the repository.

To check: `tlc -config X.cfg M` for a run of `PROJECT.json`, `tlapm M.tla` for a proof module.

## 1. Inventory

### The parts and how they interact

| Part | Source | State it keeps | Operations that change it | Module |
|---|---|---|---|---|
| Writer task | `src/store/mod.rs` `writer_loop`, `src/store/wal.rs` | active WAL segment, its record count, the bounded channel, its group of pending ACKs | append, group commit (one fsync), seal and rotate, shed | `Store` |
| Hot tier | `mod.rs` `HotTier` | spans per segment, behind an `RwLock` | push (writer), drop a group (compactor), load (recovery) | `Store`, `Reads` |
| Compactor task | `mod.rs` `spawn_compactor`, `flush_pending`, `flush_one`; `cold.rs`; `index.rs` | the pass under way, under the compaction mutex | write blocks, commit blocks and watermark, delete the segment, drop the group | `Store` |
| Cold merge | `src/store/merge.rs` | the pass under way, under the same mutex; mtimes of retired files | plan, write, stamp, commit; aged sweep | `Merge` |
| Index | `src/store/index.rs` | redb tables: blocks, trace to blocks, watermark | `commit_flush`, `commit_merge`, `drop_blocks` | `Store`, `Merge` |
| Retention | `mod.rs` `spawn_retention`, `reclaim_before_in` | none of its own | drop expired blocks from the index, then unlink them | `Store`, `Merge`, `Reads` |
| Recovery | `mod.rs` `Store::open`, `sweep_orphans` | none: it builds the state | delete stale segments, replay, sweep, open a new segment | `Store` |
| Read path | `mod.rs` `Store::query`; `src/sql.rs` | a snapshot of the hot tier, a list of blocks, the attempt | two reads without a common lock, with one retry | `Reads`, `Answers` |
| Ingest batch | `mod.rs` `ingest_batch`, `src/calls.rs`, `src/blob.rs` | call ledger, blob files | dedup, floor check, redact, offload, append, remember, scores | `Ingest` |
| Scores | `src/store/scores.rs`, `src/ingest.rs` `post_scores` | two redb tables | upsert, retarget, validation of targets | `ScoreStore`, `Ingest` |
| Disk guard | `mod.rs` `spawn_disk_monitor`, `src/disk.rs` | one relaxed flag | sample | `Ingest` |
| Format marker, lock | `src/store/format.rs`, `Store::open` | one marker file, redb's file lock | stamp, migrate or refuse; open or give up | `Node` |
| Front doors | `src/ingest.rs`, `src/grpc.rs`, `src/auth.rs`, `src/mcp.rs`, `src/ui.rs` | two listeners, the tokens | let in, dispatch, answer, drain | `Node`, `Answers`, `Ingest` |
| Normalisation, log dialects | `src/normalize.rs`, `src/agent.rs`, `src/logs.rs`, `src/claude_code.rs`, `src/codex.rs`, `src/gemini_cli.rs`, `src/evalevent.rs` | what is remembered of each session (`logs::Recall`) | map a record, commit a request's layer | `Spans`, `Dialects`, `Telemetry` |
| Pricing, redaction | `src/price.rs`, `src/redact.rs` | the live price table; the compiled policy | reload when the file changes | `Pricing`, `Redaction`, `Telemetry` |
| Usage metrics | `src/usage.rs` | interned labels, series, histograms, score windows | record a batch, record scores | `Usage`, `Reports` |
| Reports | `src/rollup.rs`, `src/sessions.rs`, `src/latency.rs`, `src/cost.rs` | none | functions of stored spans and scores | `Summaries`, `Reports` |
| Evaluation | `src/eval.rs`, `src/judge.rs`, `src/suite.rs`, `src/calibrate.rs`, `src/stats.rs`, `src/junit.rs`, `src/dataset.rs` | `judge_cache.redb`, scores it stores, a report file | run, judge, persist, compare, gate | `Scoring`, `Evals` |
| Commands | `src/main.rs`, `src/doctor.rs`, `src/demo.rs`, `src/mcp.rs` | none: each opens the data directory | serve, mcp, demo, doctor, migrate, compact, retention | `Node` |

A client's request is let in by a front door, mapped to spans and scores with the price table and
the session memory of that moment, filtered by the call ledger, redacted, relieved of its large
values, and sent through the channel to the writer, which answers it after the group's fsync and
publishes the spans to the hot tier. Scores follow in a second store. The compactor reads the
sealed groups and moves them to blocks; retention and merges change the set of blocks; all three
take the compaction mutex. Readers take no lock across the tiers. The data directory (segments,
blocks, index, scores, blobs, marker) is what survives a crash; the call ledger, the session
memory and the metrics do not. One process at a time has a data directory open.

### What is hard about it

- Three tasks and any number of readers interleave, with one mutex among the writers of the cold
  tier and none between tiers. A span moves between three places in several durable steps, and a
  crash or an error may fall between any two.
- Requests are refused after they were written, retried, carried on two signals at once, abandoned
  by their client; what one request stores lands in three stores (blobs, spans, scores) with three
  commits.
- Decisions rest on values read earlier: the watermark and active segment that select what to
  flush, the hot length that sheds a group, the list of blocks a query opens, the ledger read
  before the append, the targets validated before the scores are put, the sampled disk verdict.
- What a log record becomes depends on records of the same session that came before it, in the
  same request or an earlier one, while others are mapped beside it.
- The same tokens are counted by providers in incompatible ways, arrive twice, and are priced by
  a table that may change.
- Reports reduce trees whose parents are missing or cyclic, under caps.
- A paid judge call must not be paid for again whatever fails between it and the stored run.
- Files are told apart only by their names. Progress depends on retries.

`PROJECT.json` lists each hazard at its line, with the properties that cover it. One has none:
`cold.rs:336`, the durability of new directories above an hour partition (section 6).

### What makes each part correct

- *Store*: nothing acknowledged is lost before retention expires it; it is readable at once and
  always; nothing unsynced is readable; nothing is replayed that is already cold; every request
  is answered; sealed segments drain; shedding ends; memory is bounded.
- *Merge*: rows are neither lost, multiplied nor revived; the index, its trace table and the
  files agree; retired files outlive the readers that listed them; garbage goes; days collapse.
- *Reads*: a read returns all that was stored when it began and nothing twice, or fails for a
  cause the code names; what it answers is the newest, one copy of each span, flagged if cut.
- *Ingest, scores*: what was acknowledged is stored; a call is stored once in spite of retries and
  of its second signal; every reference resolves; a redacted value reaches no tier; a post is
  refused only for a target that was absent.
- *Telemetry*: a span is what its record says, in its own turn, priced once, and clean.
- *Reports*: each scored span counts once; rows add up; caps lose nothing; a call is one call; what
  reads spans and what queries rows differ only by copies flushed twice.
- *Evaluation*: no answer is paid twice; a stored run is whole and its gates, report, suite and
  exit code agree; a comparison only fails what got worse.
- *Node*: one process changes a directory; its marker is read the same way by every later open;
  only what may write writes; a server told to stop does; doctor predicts what serve does.

## 2. The modules

| Module | What it is |
|---|---|
| `SpanLog` | The abstract promise of the store: a set of visible spans and a set owed to clients; accept, expire, stop, start. |
| `Store`, `MCStore` | The detailed store: one action per step of writer, compactor, retention and recovery, with faults and crashes. The instance has three requests, two hours, one span sent twice. |
| `StoreProofs`, `MergeProofs`, `ReadsProofs`, `IngestProofs`, `TelemetryProofs`, `NodeProofs`, `EvalsProofs` | The proofs, one module per component (section 4). |
| `FoldFacts` | Lemmas the proofs share: induction over numbers and folds, stated with sets. |
| `Merge`, `MCMerge` | The cold tier: flush, merge passes chunk by chunk, aged sweep, retention, clock, restarts. |
| `Reads` | Readers beside every step of the store that moves a span. It is its own instance. |
| `ScoreStore` | The two score tables as operators, used by `Ingest`, `Scoring`, `Summaries`, `Answers`. |
| `Ingest`, `MCIngest` | `ingest_batch` and the score posts for concurrent handlers, over an instance of `SpanLog`. |
| `Spans`, `Pricing`, `Redaction`, `Dialects` | Normalisation, cost, redaction and the log dialects as operators. |
| `Telemetry`, `MCTelemetry` | Requests mapped by them concurrently, with the session memory, the price file and restarts. |
| `Summaries`, `Usage` | Rollups, sessions, cost, latency; the metrics, as operators. |
| `Reports`, `MCReports` | A node that takes batches and scores, flushes and merges them, and what its reports say at any moment. |
| `Scoring` | Evaluators, aggregates, judges, comparison, suites, calibration as operators. |
| `Evals`, `MCEvals` | `evald eval` as processes on one directory, with a provider that fails and kills. |
| `Answers` | Queries, SQL, REST reads, MCP tools as operators. |
| `Node`, `MCNode` | A data directory and the processes started on it: the composition of marker, lock, doors and answers. |

Composition: `Store` implements `SpanLog` (proved), and `Ingest` builds on `SpanLog`, so what holds
of ingestion there holds over the detailed store. `Telemetry` ends where `Ingest` begins: its
`Receive`, `Accept` and `Refuse` are the outcome of a batch. `Reports` starts from spans that `Spans` and
`Pricing` made. `Node` takes an append as one step, because `Store` and `Ingest` have its steps.

### Store

State and code: `queue` is the mpsc channel; `wpc, group, pend, sealReq` are the locals of
`writer_loop`; `active, count` are those of `Wal` (the atomic copy of the segment number that the
compactor reads is written right after the rotation, in the same action); `hot` is the hot tier;
`cpc, plan, cur, doomed` are the locals of whoever holds the compaction mutex; `walFiles`,
`good`, `dirty`, `torn` are the segment files; `files, index, watermark` are blocks and redb. Ghost
variables remember what clients were told (`status`, `home`) and what retention took (`expired`).

A record is a pair of a request and a span, so a retry is told apart from its first copy. The
bytes of a segment are three sets: what replay would read (`good`), what was written and not yet
fsynced (`dirty`, of which a power loss keeps any part) and whether a partial frame sits in the
file (`torn`, after which replay reads nothing). `Crash` covers kill -9 and power loss. A group's
requests are written in any order, since nothing depends on it.

A request that fails its fsync was refused, but its records may be replayed after a restart, as the
code allows; `Refuse` stands for the disk guard and for a full channel, and may happen at any
time; `compact_now` runs the same pass as the tick, so `StartPass` stands for both.

### Merge and Reads

In `Merge` a block is its name: kind, directory, lowest and highest segment. A start time is known
by its hour. A pass is a set of chunks per phase (`todo`) and the chunk in hand with the progress
of `merge_chunk` on it (`write`, `stamp`, `commit`). The clock counts ticks; `age` is that of a
file's mtime, capped where no comparison can tell more. Between `merge_cold` and `sweep_unindexed`
a tick releases the mutex, which `MutexFree` models.

In `Reads` the unit of data is a segment; a block is the set of segments whose spans it holds. A
reader is either a REST read (`Store::query`: hot copy, list, open each, one retry) or a SQL one
(`register_spans`: list, check the files, list once more, copy the hot tier; then the DataFusion
scan, which is external). `owed` is what was stored when the reader began.

### Ingest

A handler is `pc[r]` and its locals `work[r]`: gate, decoding, ledger filter, floor check, one step
per payload of `prepare_for_storage` (a blob put is read, rename and directory fsync, with probing
on a collision), the send, the wait, `remember`, the scores, the reply. `channel` holds what waits
for the writer, whose answers are the steps of `Log`: accept, shed, failed sync. What was refused
or abandoned and may still be durable is `limbo`. A client retries what it was told to retry, and
may hang up, which drops the handler at its await. `Post` reads the traces of its targets one by one
and then decides and puts. `SpaceChanges` and `SampleDisk` are the disk and the monitor. `window`
and `reach` are ghosts that say which calls the bounded ledger had to know.

### Spans, Pricing, Redaction, Dialects, Telemetry

Attributes are the record of what lookups can tell apart (`Bare`): keys that read as text, as a
number, as neither, and the indexed messages. A span's normalised form is a record with the fields
of `NormalizedSpan` the rest of the program reads. Rates are integers of the smallest unit, so
that sums are exact. Text is a sequence of words, and a pattern the set of word runs it matches;
leftmost-first alternation, the wrapping groups and the Luhn gate are as in `redact.rs`. An id
that is hashed from parts is the tuple of those parts, so distinct parts give distinct ids.

In `Telemetry` a request takes the price table once (`Begin`), looks up what a dialect remembers of
the session when a record first needs it (`Look`), maps items in order (`Map`) and hands over what it
became (`Receive`), which is accepted or refused. `recall` is the shared layer, `local` the request's
own; `Edit` changes the price file; `Restart` empties all but what is stored.

### Summaries, Usage, Reports

`Commit` of a batch and `PostScores` add to the tiers, the score tables and the metrics; `Flush` makes a
block of the oldest batches and `Merge` one of several, each with the first copy of a span; `Restart`
empties the metrics. Reports read these tiers in two ways. `StoredSpans` is `Store::query`: one copy of
each span, the first in the hot tier or in the order of the listing; rollups and sessions are of
it. `SpansView` is the SQL view `spans`: rows, each a span with its `place` (0, or the first segment of
its block), where a hot span hides its cold copies and copies in two blocks are two rows; cost,
re-pricing and latency are of it. `Rolled` walks the subtree rule of `rollup.rs`, sessions merge calls
of two layers, cost rows group and re-price, latency is nearest rank over rows with one first token per
span, `FirstTokens` giving every choice an unordered query leaves. `FlushedTwice` names the only spans
`ReportsAgree` lets a session and its cost row differ by. The invariants compare each with a reference that is stated without the algorithm (for a
rolled score: any choice of carriers that counts each scored span once).

### Scoring, Evals

A score of 1.0 is the integer `Scale`; means and variances stay quotients, so comparisons are exact.
A run is `pc[r]`: it opens the cache, refuses a judge it cannot use, takes an answer from the cache or
asks, one call at a time, and persists everything in one transaction. `Serve` holds the lock a run
needs to store; `PostLabel` is a human label that comes meanwhile. The provider answers a number or
nothing, or fails; `Kill` may come anywhere. What was asked and answered is kept as history.

### Answers, Node

A store is a value `[hot, blocks, db]`. `Answers` has the reads: dedup with the hot tier first, the
bounded selection, defaults and caps, the shape of SQL statements that are allowed, the MCP
handshake and tools. `Node` has the processes: `Launch`, `Configure`, the marker's steps
(`Inspect`, directory, write, fsync, rename, directory fsync), the lock, the command's own work, and for a
server the two doors with one request each, SIGTERM, the listeners' closing and the exit. A
process may be killed at any step, and `PowerLoss` keeps of unsynced files any version.

## 3. The runs

| Run | Shows | Distinct states |
|---|---|---|
| `store_crash` | Nothing acknowledged is lost or hidden, places agree, listed blocks are immutable, and `Store` implements `SpanLog`, with one crash or power loss and one I/O error of any kind except a torn write. | 686,558 |
| `store_live` | Requests are answered, sealed groups drain, shedding ends, memory is bounded, with one failed block write or commit. | 23,625 |
| `merge` | Merges lose, double and revive nothing, keep the index exact and the caps, and the tree gets small and clean, with one failure or restart. | 117,747 |
| `reads` | REST reads are complete, count nothing twice, and fail only for cause. | 430,685 |
| `ingest` | What was acknowledged is stored once, clean, with what it refers to; posts are refused only for cause; one fault and one crash. | 433,885 |
| `telemetry` | A request's spans are what its records say, whatever other requests of the session, refusals, restarts and edits of the price file do. | 41,291 |
| `evals` | Runs with judges that fail, are killed and repeated beside labels: paid once, whole, honest. | 210,838 |
| `reports` | Rollups, sessions, cost, latency and metrics against their references after every sequence of batches, posts, flushes, merges and restarts. | 11,914 |
| `node` | Processes on one directory, over seven machines and sixteen setups: marker, lock, doors, answers, drain, doctor. | 362,351 |
| `reads_sql`, `merge_day_collision`, `store_torn_write` | One statement of the documentation each that the code violates (section 5). | |

### Bounds, and why they are enough

- *Store*: three requests, of which two share a span and one spans two hours; channel and group of
  two; seal threshold and hot bound of two. This gives a group of two requests, a segment with
  two blocks, a rotation after one or two requests, shedding, a retry whose copies land in one
  segment or in two. `MaxSeqno` is 6 and is not reached: each crash and each rotation consumes one
  number and the other bounds end the behaviour first. One crash reaches every step, recovery
  included. One fault suffices for the order of a failure and its retry.
- *Store, live*: no crash, so that a restart cannot reset the state that is stuck; groups of one.
  `MaxHot >= SealThreshold` matters: with a hot bound below the threshold an active segment that is
  too small to seal can hold the hot tier at the bound. The defaults (300000 and 50000)
  satisfy it; `Store::open` does not require it.
- *Merge*: four segments over three hours and two days, one spanning two hours, one two days, one
  in another tier, one repeating a span; threshold 2, cap 4, quiet window and grace of one
  tick, one mishap. In this data two chunks of a day never share a range; data without that limit is
  what `merge_day_collision` checks.
- *Reads*: one reader (readers share nothing and change nothing), three segments, grace 1.
- *Ingest*: three requests on both doors, of which one call comes twice as an anchor and one as an
  anchor and a droppable copy; two large payloads with one hash; a secret; a score post that
  retargets a stored score; a ledger of two keys, so that a third evicts one; one retry, one fault
  of eight kinds, one crash. `MaxProbe` is the number of collisions the payloads can produce.
- *Telemetry*: one conversation over two requests, records of all three agents, traced copies in a
  third request, an edit of the price file, a remembered-session capacity of one, a retry, a restart.
- *Evals*: four invocations of three suites, two at most started; two judges; suites that share a
  question, whose hashes collide; one failure or kill.
- *Reports*: four batches and three posts, four of them or restarts, at most three batches, with any
  flushes and merges between: every label, series and window cap is exceeded; two traces have a
  cycle or a missing parent; a batch comes again, and a span in two versions, before and after its
  first copy is flushed; three blocks, so that a merge can pass over one. All starts are within one hour,
  so a segment is one block; copies that start on different days would never meet.
- *Node*: two processes and two launches; `Launching = 1` lets one process at a time be between its
  start and the lock, because two first opens share `FORMAT.tmp` (section 5). One accepted write,
  since the copies `AnswersAgree` needs come from a demo's batch plus one.

### Fairness

`Store!Fairness`: tokio keeps polling the writer, so a step it can take is taken; the compactor's
interval keeps ticking and the mutex is held only across a finite pass; recovery goes on; an
unlink loop that began goes on. Clients, operators, the start of retention and crashes are not
fair. `Merge!Fairness`: the tick and the steps of a pass, and the passing of time. `Node!Fairness`:
what a server does alone once told to stop (`Settles`). Nothing makes a handler end, so `Drains`
assumes that requests in flight do. All of it is weak fairness.

Deadlock is checked in the runs of the store, where the tasks poll for ever. The other instances
end when every request, run or launch has been used up.

## 4. What is proved

Each theorem holds for every value of the constants (any spans, requests, hours, readers, bounds,
tokens, setups), from the assumptions the modules name, which TLC evaluates in the runs. Where it
needs a condition that the code does not guarantee, the theorem says so and so does this section.
`PROJECT.json` lists the theorems with the properties they state.

### Store

- `TypeCorrect`: `Spec => []TypeOK`, torn writes included.
- `Invariant`: `Spec => []IInv` when `"torn" \notin Faults`; and from it `DurableHolds`,
  `ReadYourWritesHolds`, `CommittedBlocksImmutableHolds`, `SegmentOutlivesCommitHolds`, `PlacesAgreeHolds`.
- `HotBoundedHolds`: memory exceeds the hot bound by one group's spans at most.
- `ImplementsLogHolds`: `Spec => Log!Spec` under the refinement mapping of `Store`;
  `PromiseHolds`: the abstract log shows what it owes whenever it is up; and `StoreKeepsPromise`, the
  two together: what a client may rely on.

The condition on torn writes is necessary: `store_torn_write` violates `Durable` without it.
`HotBoundedHolds` also excludes failed fsyncs: a refused group stays in the file, uncounted, and
recovery reads it back into memory.

`Durable` is not inductive: it says that a span is somewhere, not where. The
invariant gives each acknowledged record one address, decided by the watermark (`Located`): in its
segment file above it, in the committed block of its partition at or below it, unless retention
took that block. To carry a record across the watermark, the blocks written for a segment must
hold all its acknowledged records, so memory must hold them (`Resident`), the segment must not
grow any more (`ActiveIsLive`, and `cur < active` in `PassInOrder`), and the pass must not advance
the watermark past an older group (`PassInOrder`). To take a record in, the bytes must be on disk
when it is acknowledged (`Pended`). `DoomedUnlisted` keeps retention's unlinks away from listed
blocks. Each action is one lemma; steps that touch neither files, memory nor blocks share one.

The refinement adds `ExpiredIsCommitted` (retention has expired only blocks at or below the
watermark, so the ACK of a request in the active segment owes all its spans) and `Copied` (from its
commit until it leaves memory, a group is whole in listed blocks, so `DropGroup` hides nothing).
`PublishRequest` is then the log's `Accept`, `Reclaim` its `Expire`, `Crash` of an open store its
`Stop`, `OpenDone` its `Start`, and every other step leaves what a reader sees and what is owed.

The bound on memory is about three places at once: what is in memory, what the files above the
watermark would bring back, and what the writer holds. `Accounted` says that every record of the
second is in one of the others, and `Bounded` bounds their union, so that no move between them
counts; only draining a group adds to it, and it does so when memory is below the bound.

### Merge

The files have names and a merge replaces what has its name, so `TypeCorrect` and `HourNamesAreFree`
come first, from `Shape`: index and files (`CatalogOk`), which segments can be in which block of an
hour (`NamesOk`), and chunks that share no input (`PassOk`). In an hour a merge never overwrites a
block that stays indexed. In a day it may, as `merge_day_collision` shows. `NothingIsLost`, `ColdStaysSound`
and `NothingReturns` are therefore about behaviours with `[]NoDayClash`: no chunk of a day takes the
name of an indexed block it leaves alone. `TidyDaysNeverClash` shows that they are all behaviours
when days are not merged, or no segment has spans in several hours of one day (`TidySegments`), and
`TidyLosesNothing` and `TidyBringsNothingBack` draw the conclusions.

The invariant for the contents (`Contents`) says that every flushed span is in an indexed block
(`Kept`), the index has each block's newest hour and traces (`Dated`, `Mapped`), no span is more often
stored than it was flushed (`Single`), the cap holds (`Capped`), and the output in hand has the rows of
its inputs (`ChunksHold`). `GraceIsHonoured` and the two theorems on what returns assume
`SlowCommit = FALSE`: a commit follows its stamps within a tick (see Divergences); `Aged` compares each
retired file's mtime with its retirement.

### Reads

`ReadsAreWhole` and `FailuresHaveACause` are `RestReadsComplete` and `FailsForCause`, without conditions.
Invariant: the index never lists a segment in two blocks (`IndexSound`) and neither does what a
reader listed (`OneListing`); what it is owed is in its copy of the hot tier, in what it opened or in
what it has yet to open (`Reachable`); and a listed file is there, unless the grace has run out or
retention was there first (`Present`).

### Ingest

`AcknowledgedIsStored`, `CallsAreStoredOnce`, `RedactionIsComplete` and `StrictPostsAreRight` hold without
conditions; `TablesAlwaysAgree` is the agreement of the two score tables after any batch of puts.
The invariant follows a handler: the ledger's verdict stays true while the batch is in hand, because
a span leaves only as the copy of a call that is owed or that the batch itself brings
(`FilteredWork`); what is handed on is clean (`TypedWork`); what the writer answered is owed
(`AnsweredWork`). The ledger's queue holds only owed calls, and its window is exact (`LedgerOk`).

`ReferencesAlwaysResolve` assumes no power loss and `[]NoRacingCollision`: no two puts race for one key
with different payloads. Both are needed (see Divergences, `blob.rs:70` and `blob.rs:73`), and
`DistinctHashesResolve` replaces the second by a hash without collisions among the large payloads.

### Telemetry

`FactsHold` and `RequestHolds` are `FactsAreTheRecords` and `RequestIsExact`, without conditions on the
behaviour. `ItemsAssumption` says that items and span events are sequences, that a request carries one
signal, that attributes are read by `Bare`'s kinds of key, and that what a record gives a session to
remember is never the absent value.

For the facts (`FactsInv`) it is enough that whatever was remembered is of the type a dialect reads
(`Shape`) and that each item handed out so far carries what its record gives alone (`HaveFacts`): the
mappings read the memory for place, start and status only, lemma by lemma. `RequestIsExact` is
about what they do read. It is not inductive: a span is right because of what the request's own layer
holds when the span is mapped. The invariant (`KnowledgeInv`) says that this layer knows the last
prompt, the last request and the standing refusals of each session among the records mapped so far
(`Knows`), whatever is in the node's, whose order of sessions and refusals is well formed
(`NodeRemembers`); and that what a mapping saw at its first look is its own layer's wherever that
knows the session (`SawItsOwn`), so another request's commit between the two looks changes nothing.
For the refusals, which are kept in a bounded list, `Keeps` counts how many came later.

### Node

`OneHolder`: at most one process has the store open, and it holds the lock. `OnlyWritersWriteHolds`
follows from it without conditions: a reply comes from `Answer` only, and what `Handle` does to the
scores is nothing unless some message of the batch is a permitted `add_score` with an id.
`FormatRespectedHolds` and `DoctorAgreesHolds` assume `Launching = 1`, as the run does: two first opens at once
share `FORMAT.tmp` (see Divergences). Invariant: one process is between launch and lock (`Lone`);
what it is about to rename is whole, synced and honest, whoever is past the look at the marker has
one, and nobody gets past an unreadable one (`Directory`); a process has none of the faults it was
checked for (`Passed`).

### Evals

`NothingPaidTwice`: `Spec => []NotPaidTwice` for any runs, configs, replies, faults and hash function;
`ConfigAssumption` only says that evaluators, judges and items are sequences and that no run is
called None.
`NotPaidTwice` is not inductive: it says neither what the cache has nor where a run stands. The
invariant (`Paid`) has an account per question, asked at most as often as its answer was lost, and
once more while the cache has it (`Accounted`); a call is made only when it has not, and a score
displaces only an entry with its own hash, which the history counts as lost. For the estimate,
a run among its judges holds the cache's lock and stands in its work (`Placed`), so the cache
changes under nobody else, and what was promised covers what lies ahead and has no entry
(`Budgeted`): each call takes one item from both.

`EveryScoreIsAnAnswer`: `Spec => []JudgedByOwnAnswer`, when nothing is called agg beside an evaluator or
judge whose name is an item's number (`AggIsFree`), since their scores would share ids (see
Divergences, `eval.rs:816`); `IdAssumption` says that items are numbered apart and that labels and
earlier scores have no ids of runs. The invariant (`Judged`) follows an answer on its way: an entry
that counts for a question was answered to it (`CacheHonest`, where `Canon` tells questions apart by
everything a prompt shows), so was every outcome in hand (`OutcomesHonest`), every score of a
finished judge (`ResultsHonest`, by the concatenation `finalize_evaluator` makes and the ids it gives), and
every row of the score table (`HonestDb`, through any batch of puts).

`RunsAreAllOrNothing`: `Spec => []AllOrNothing`, the first part of `RunIsWhole`, without conditions: a run
that did not end has nothing stored, one that did has exactly its scores, with the aggregate of each
evaluator and judge. The invariant (`Whole`) says how many results a run has in each phase, and
that each holds the aggregate of its name with the statistics of its row (`Gathered`).

`TheGateIsStored`: `Spec => []GateIsStored`, the second part of `RunIsWhole`, under `AggIsFree`: the exit code
CI acts on can be read off the tables. A run passed exactly when each aggregate stored under its id
meets its threshold, and its JUnit report has a failure exactly when it did not, whatever was stored
since. The invariant (`Verdicts`) adds that an ended run keeps the results it was judged by and that
nothing but its own scores is under its ids (`OnlyOwn`).

### Folds

The models fold over batches and sequences. The library defines a fold by a recursive function
under CHOOSE, and its induction theorems take an operator as parameter, which no installed prover
instantiates. `FoldFacts` therefore states induction with sets in place of predicates
(`NatSetInduction`, `IntervalInduction`), shows that the recursion of a fold has a solution
(`FoldExists`, `FoldLeftExists`), that a fold ends where the run of its steps ends (`FoldRun`), and what a
fold that concatenates is made of (`ConcatenationIsSeq`, `ConcatenationHas`). That is how a batch of
score puts, the ledger and its window, a batch of messages, what a request becomes and the scores of
a run are reasoned about.

### Only model-checked

Liveness (`EveryRequestAnswered`, `SealedGroupsDrain`, `SheddingEnds`, `GarbageCollected`, `ClosedDaysCollapse`,
`Drains`), which rests on ENABLED. What is computed over data by sums, sorts or words, which needs
induction over the data: `AnswersAgree` (sorted, bounded folds against a reference), the sums and
the suite of `RunIsWhole`, `ComparisonIsHonest`, `CalibrationIsCurrent`, all of `Reports`, and
`StoredTextIsClean`. `OneCallOneIdentity` and `EachTokenPricedOnce` are about what emitters send, which the
instance gives. Violations, of course, are TLC's too.

## 5. Where code and documentation disagree

`PROJECT.json` "findings" has the quotations of the first three, each with a run.

1. `reads_sql`: SQL lists the blocks before it copies the hot tier (`sql.rs:273`); a flush in between
   hides the segment from the query. `Store::query` has the safe order.
2. `merge_day_collision`: two chunks of a closed day with the same segment range have the same
   file name (`merge.rs:405`). It needs a day whose rows exceed the cap while its blocks share a
   range, such as a backfill of more than a million spans over the hours of one day.
3. `store_torn_write`: a write that fails half way (`wal.rs:73`) hides what is acknowledged after it.

### Divergences

Met while modelling. The properties say what holds besides them: where a premise or a bound of a
run excludes one, the definition or the hazard says so.

*Store.* A failed unlink after the commit (`mod.rs:1899`) is never retried while the process lives, so
the group stays in memory. A seal is retried only after an append (`mod.rs:1487`): a failed rotation
at the hot bound sheds until a restart, although `mod.rs:120` has the compactor drain the backlog. The
branch `merge.rs:408` calls hardly reachable is reached by merges across tiers, and then the
blocks concerned stay apart. The grace of a retired block runs from its stamp and not from its
commit (`merge.rs:505-532`): with `SlowCommit = TRUE` in `merge.cfg` the clock may tick in between and
`NothingComesBack` fails. The comment on tiers (`merge.rs:256`) holds only when the inputs share no span.
`mod.rs:1606` says a sweep that cannot take the lock waits for the next tick; it waits for the lock.
Copies in two blocks count twice in SQL until merged, as `sql.rs:24` documents.

*Ingest.* A blob put that finds its key in a directory entry not yet fsynced (`blob.rs:73`, against
`105-109`) lets an acknowledged reference dangle after a power loss; two puts of one key and
different bytes race between the look and the rename (`blob.rs:70`). A batch of scores alone writes
below the disk floor. The ledger forgets in order of first registration. A handler dropped by its
client after the append neither remembers its calls nor stores its scores, so the retry is stored
and counted twice.

*Telemetry.* `logs.rs:33-36` says `Recall` is consulted only for place and start; `codex.rs` also takes
provider and refusals from it. Its eviction is by first registration, not by last sight. Requests
of one session that overlap lose each other's updates. A traced Claude Code call whose total is
corrected keeps the uncorrected attribute, which `reported_total` then prices by; a Gemini call with
as many cached tokens as thoughts is read on the default basis; a numeric string counts as a total
for `tokens.total` and not for `reported_total`. `scrub_span` leaves `status_message`, a run of the shape
of a card that fails the Luhn gate hides what overlaps it, and copies of `user.id` and `session.id` in
the raw attributes are scanned although the docs say they are not. `model.rs:112-113` calls deriving
a cost deferred; `price::apply` does it.

*Reports.* A span sent again after a flush counts twice in cost and latency and once in its session
until a merge, as `sql.rs:24-28` says of the view; the reports' own text does not. The copy reads keep is
not always the first to arrive (`mod.rs:1028`): a merged block is listed behind the flushed ones of its
hour, so a later copy in a block the merge passed over comes to be read. A trace's oldest own score wins, since newest-first scores are inserted one over the
other (rule 1 of `rollup.rs:20` says the measured score). A span off a cycle counts beside a carrier
above it. Span targets are matched by span id alone, across traces. A two-cycle of nested tool spans
vanishes from a session, and the merge of layers knows the first copy's span only. A span is marked
seen under its first TTFT name before a negative value is rejected. The literal `(untagged)` and an
absent tag share a group; `reprice` counts absent tokens as 0.

*Evaluation.* An evaluator that scored nothing persists mean 0.0, which `compare` reports as a
regression despite the comment in `finalize`. A threshold that names no evaluator is ignored. "Reject
both up front" (`JudgeSpec::validate`) holds per judge: the second is validated after the first one's
paid calls. Ids are joined text: item `i` of a judge called agg has the id `{run}:agg:{i}`, which is that
of the aggregate of a judge called `i` (`eval.rs:776`, `eval.rs:816`), and one row replaces the other.
A report that cannot be written turns a stored run into an error exit. Rows from spans
carry no latency or cost, so those gates skip. `--estimate` counts a repeated question each time.

*Node.* A kill between the rename and the directory fsync leaves a marker the next open trusts without
an fsync; a later power loss may drop it, and a new directory is then stamped `legacy`
(`format.rs:14-16`). Stamping precedes the lock: two first opens, or `evald migrate` beside one, share
`FORMAT.tmp`, and the marker may be read cut off, which every later open refuses. A gRPC bind failure
drops the HTTP requests in flight. `doctor` calls a port in use a warning that "would work", and `serve`
does not start; it does not look at the marker, the lock or what makes a token unusable, trims the
HTTP address `serve` does not, and takes the default floor. `list_sessions` with limit 0 gives no row
over REST and one over MCP.

## 6. Not modelled, and why

- Bytes, framing, CRC, Parquet, protobuf and JSON: replaced by what replay, a block read or a decoder
  returns. What a regular expression matches is a function of the instance.
- `connect.rs` (configuration snippets), the text of tables and of `/metrics`, the console, installers,
  recipes, scripts: wording and layout, without state.
- The p-value of Welch's test and Cohen's kappa in floating point: a verdict of the instance; the
  decisions taken on them are modelled.
- The durability of new directories above an hour partition (`cold.rs:336` fsyncs the innermost one
  only): it depends on the file system. It is the hazard without a property.
- DataFusion's scan, redb's pages, statvfs: external; a redb transaction is atomic and durable.

## 7. Plan

Done, in this order: `SpanLog`, `Store`, `Merge`, `Reads`, `ScoreStore` and `Ingest`, `Spans` to
`Telemetry`, `Scoring` and `Evals`, `Summaries` to `Reports`, `Answers` and `Node`; the proofs of `Store`,
`Reads`, `Ingest`, `Merge`, `Node`, `Evals` and `Telemetry`.

Left, in order of worth:

1. `Answers`: what the bounded selection keeps, by the invariant of its prefixes; then the REST half
   of `AnswersAgree`.
2. `Usage`: `UsageIsExact`, one batch being a fold of records.
3. `Telemetry`: `StoredTextIsClean`, which needs the redactor's passes as folds over words.
4. `Store` with directories as state, for the hazard at `cold.rs:336`.
