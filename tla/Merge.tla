------------------------------- MODULE Merge -------------------------------
(***************************************************************************)
(* The cold tier of evald (src/src/store/merge.rs, index.rs, and the       *)
(* retention sweep of mod.rs): Parquet blocks under blocks/YYYY/MM/DD/HH,  *)
(* the redb index that names the blocks readers may open, the merge passes *)
(* that replace many blocks of an hour or of a closed day by few, and the  *)
(* aged sweep that unlinks what the index no longer names.                 *)
(*                                                                         *)
(* A block is its name: kind, directory and the range of WAL segments it   *)
(* covers. A start time is known by its hour partition. Everything here    *)
(* runs under the compaction mutex, so a flush, a pass, a sweep and a      *)
(* retention sweep exclude each other; crashes and the clock do not wait.  *)
(***************************************************************************)
EXTENDS Naturals, FiniteSets, SequencesExt, Functions

CONSTANTS
    Spans, Traces,
    Hours,          \* hour partitions, numbered in time order
    HourOf,         \* the hour of a span's start time
    TraceOf,        \* the trace of a span
    Days,           \* UTC days, numbered in time order
    DayOf,          \* the day of an hour
    Segments,       \* the spans of each sealed WAL segment, by seqno from 1
    HourThreshold,  \* MergePolicy::hour_threshold, 0 for no merging on a tick
    MaxSpans,       \* MergePolicy::max_spans_per_block
    DayMerge,       \* MergePolicy::day_merge
    DayQuiet,       \* MergePolicy::day_quiet, in ticks of the clock
    Grace,          \* MergePolicy::unlink_grace, in ticks of the clock
    SlowCommit,     \* whether the clock may tick between a stamp and its commit
    MaxMishaps      \* bound: crashes and I/O errors explored, together

ASSUME PolicyAssumption ==
    /\ {HourThreshold, DayQuiet, Grace, MaxMishaps} \subseteq Nat
    /\ MaxSpans \in Nat \ {0} /\ DayMerge \in BOOLEAN /\ SlowCommit \in BOOLEAN

ASSUME PartitionAssumption ==
    /\ IsFiniteSet(Spans) /\ Hours \subseteq Nat
    /\ Days \subseteq Nat /\ \A d, e \in Days : d .. e \subseteq Days
    /\ HourOf \in [Spans -> Hours] /\ TraceOf \in [Spans -> Traces]
    /\ DayOf \in [Hours -> Days]
    /\ Segments \in Seq(SUBSET Spans)

Seqnos == DOMAIN Segments
Kinds == {"flush", "merged", "day"}
Block(kind, place, lo, hi) == [kind |-> kind, place |-> place, lo |-> lo, hi |-> hi]
Blocks == [kind : Kinds, place : Hours \cup Days, lo : Seqnos, hi : Seqnos]

\* No age past both windows is told apart from another.
Old == IF DayQuiet < Grace THEN Grace ELSE DayQuiet

VARIABLES
    flushed,    \* segments flushed so far: the watermark
    files,      \* Parquet files present: their spans and the age of their mtime
    index,      \* BLOCKS: the indexed blocks with their newest start hour
    traces,     \* TRACE_BLOCKS: pairs of a trace and a block
    today,      \* the UTC day of the clock
    stage,      \* where the pass is
    scope,      \* MergeScope of the pass
    todo,       \* chunks the current phase of the pass has still to merge
    step,       \* progress of merge_chunk on the chunk in hand
    job,        \* the chunk in hand, NoJob between chunks
    cutoff,     \* highest retention cutoff applied
    retired,    \* time since each file left the index by a merge
    mishaps

passVars == <<stage, scope, todo, step, job>>
vars == <<flushed, files, index, traces, today, passVars, cutoff, retired, mishaps>>

NoJob == [out |-> Block("none", 0, 0, 0), inputs |-> {}]

----------------------------------------------------------------------------
(***************************************************************************)
(* The planner: group, candidates, tier, chunks.                           *)
(***************************************************************************)

Indexed == DOMAIN index
Present == DOMAIN files
Rows(b) == Cardinality(files[b].rows)
DayOfBlock(b) == IF b.kind = "day" THEN b.place ELSE DayOf[b.place]

\* Faulty variant: a scan of the directory.
InDayOnDisk(d) == {b \in Present : DayOfBlock(b) = d}

\* An indexed block whose file is missing is left out with a warning.
InHour(h) == {b \in Indexed \cap Present : b.kind # "day" /\ b.place = h}
InDay(d) == {b \in Indexed \cap Present : DayOfBlock(b) = d}

\* floor(log2(rows))
Tier(rows) == CHOOSE t \in 0 .. rows : 2 ^ t <= rows /\ rows < 2 ^ (t + 1)

\* The order of paths inside one day: hour directories first, then the day
\* blocks; in an hour, a flush block's name before a merged one's.
PathBefore(b, c) ==
    \/ b.kind # "day" /\ c.kind = "day"
    \/ b.kind # "day" /\ c.kind # "day" /\ b.place < c.place
    \/ b.place = c.place /\ b.kind = "flush" /\ c.kind = "merged"
    \/ b.place = c.place /\ b.kind = c.kind /\ b.hi < c.hi

InSeqnoOrder(b, c) == b.lo < c.lo \/ (b.lo = c.lo /\ PathBefore(b, c))

\* Greedy row-capped chunks in seqno order.
Overflows(acc, b) == acc.open # {} /\ acc.rows + Rows(b) > MaxSpans

AddToChunk(acc, b) ==
    IF Overflows(acc, b)
    THEN [done |-> acc.done \cup {acc.open}, open |-> {b}, rows |-> Rows(b)]
    ELSE [acc EXCEPT !.open = @ \cup {b}, !.rows = @ + Rows(b)]

InOrder(C) ==
    [n \in 1 .. Cardinality(C) |-> CHOOSE b \in C : Cardinality({c \in C : InSeqnoOrder(c, b)}) = n - 1]

Chunks(C) ==
    LET end == FoldLeft(AddToChunk, [done |-> {}, open |-> {}, rows |-> 0], InOrder(C))
    IN  end.done \cup {end.open}

LowestSeqno(C) == CHOOSE n \in {b.lo : b \in C} : \A b \in C : n <= b.lo
HighestSeqno(C) == CHOOSE n \in {b.hi : b \in C} : \A b \in C : b.hi <= n

\* Faulty variant: a chunk of two is left alone.
JobsOfThree(kind, place, C) ==
    {[out |-> Block(kind, place, LowestSeqno(K), HighestSeqno(K)), inputs |-> K] :
        K \in {K \in Chunks(C) : Cardinality(K) > 2}}

\* A chunk of one block is not a merge.
JobsFor(kind, place, C) ==
    {[out |-> Block(kind, place, LowestSeqno(K), HighestSeqno(K)), inputs |-> K] :
        K \in {K \in Chunks(C) : Cardinality(K) >= 2}}

\* A tick merges blocks of one tier, compact the whole partition.
HourGroups(sc, h) ==
    IF sc = "full" THEN {InHour(h)}
    ELSE {T \in {{b \in InHour(h) : Tier(Rows(b)) = t} : t \in 0 .. Cardinality(Spans)} :
            Cardinality(T) >= HourThreshold}

HourJobs(sc) == UNION {UNION {JobsFor("merged", h, C) : C \in HourGroups(sc, h)} : h \in Hours}

Closed(d) == d < today
Quiet(d) == \A b \in InDay(d) : files[b].age >= DayQuiet

DayJobs(sc) ==
    IF ~DayMerge THEN {}
    ELSE UNION {JobsFor("day", d, InDay(d)) :
                    d \in {d \in Days : Closed(d) /\ (sc = "tick" => Quiet(d))}}

----------------------------------------------------------------------------

TracesIn(S) == {TraceOf[s] : s \in S}
OldestHour(S) == CHOOSE h \in {HourOf[s] : s \in S} : \A s \in S : HourOf[s] >= h   \* faulty variant
NewestHour(S) == CHOOSE h \in {HourOf[s] : s \in S} : \A s \in S : HourOf[s] <= h
MergedRows(K) == UNION {files[b].rows : b \in K}

\* A file created or replaced under its final name.
Create(b, rows) ==
    /\ files' = [f \in Present \cup {b} |->
                    IF f = b THEN [rows |-> rows, age |-> 0] ELSE files[f]]
    /\ retired' = Restrict(retired, DOMAIN retired \ {b})

Unlink(S) ==
    /\ files' = Restrict(files, Present \ S)
    /\ retired' = Restrict(retired, DOMAIN retired \ S)

\* mark_retired: the mtime becomes now.
Stamp(S) == files' = [f \in Present |-> IF f \in S THEN [files[f] EXCEPT !.age = 0] ELSE files[f]]

\* A tick holds the compaction mutex through merge_cold and takes it again for
\* the sweep; in between others may have it. Compact has no others.
MutexFree == stage = "idle" \/ (stage = "sweep" /\ scope = "tick")

Mishap == mishaps < MaxMishaps /\ mishaps' = mishaps + 1

Init ==
    /\ flushed = 0 /\ files = <<>> /\ index = <<>> /\ traces = {}
    /\ today \in Days /\ \A d \in Days : today <= d
    /\ stage = "idle" /\ scope = "tick" /\ todo = {} /\ step = "write" /\ job = NoJob
    /\ cutoff = 0 /\ retired = <<>> /\ mishaps = 0

\* The compactor flushes the next sealed segment: one block per hour, indexed
\* in one transaction (module Store has the steps).
Flush ==
    /\ MutexFree /\ flushed < Len(Segments)
    /\ flushed' = flushed + 1
    /\ LET rows == Segments[flushed + 1]
           fresh == {Block("flush", HourOf[s], flushed + 1, flushed + 1) : s \in rows}
           rowsOf(b) == {s \in rows : HourOf[s] = b.place}
       IN  /\ files' = [f \in Present \cup fresh |->
                            IF f \in fresh THEN [rows |-> rowsOf(f), age |-> 0] ELSE files[f]]
           /\ index' = [f \in Indexed \cup fresh |-> IF f \in fresh THEN f.place ELSE index[f]]
           /\ traces' = traces \cup UNION {TracesIn(rowsOf(b)) \X {b} : b \in fresh}
    /\ UNCHANGED <<today, passVars, cutoff, retired, mishaps>>

----------------------------------------------------------------------------
(***************************************************************************)
(* A merge pass: merge_cold and merge_chunk.                               *)
(***************************************************************************)

PassOver ==
    stage' = "idle" /\ scope' = "tick" /\ todo' = {} /\ step' = "write" /\ job' = NoJob

\* The compactor's tick; with merging disabled only the sweep remains.
StartTick ==
    /\ stage = "idle"
    /\ scope' = "tick"
    /\ \/ HourThreshold > 0 /\ stage' = "hours" /\ todo' = HourJobs("tick")
       \/ HourThreshold = 0 /\ stage' = "sweep" /\ todo' = {}
    /\ UNCHANGED <<flushed, files, index, traces, today, step, job, cutoff, retired, mishaps>>

\* `evald compact`: a process of its own with the data directory to itself.
\* It opens the store, which sweeps unindexed files, and has no compactor.
StartCompact ==
    /\ stage = "idle"
    /\ Unlink(Present \ Indexed)
    /\ scope' = "full" /\ stage' = "hours" /\ todo' = HourJobs("full")
    /\ UNCHANGED <<flushed, index, traces, today, step, job, cutoff, mishaps>>

\* Take a chunk and write its output: temp file, fsync, rename, fsync of the
\* directory. A file that has the output's name is replaced.
ChunkWrites ==
    /\ stage \in {"hours", "days"} /\ step = "write"
    /\ \E j \in todo :
        /\ j.out \notin j.inputs
        /\ Create(j.out, MergedRows(j.inputs))
        /\ job' = j /\ todo' = todo \ {j}
    /\ step' = "stamp"
    /\ UNCHANGED <<flushed, index, traces, today, stage, scope, cutoff, mishaps>>

\* The output would overwrite one of its own inputs: the chunk is left alone.
ChunkSkipped ==
    /\ stage \in {"hours", "days"} /\ step = "write"
    /\ \E j \in todo : j.out \in j.inputs /\ todo' = todo \ {j}
    /\ UNCHANGED <<flushed, files, index, traces, today, stage, scope, step, job, cutoff,
                   retired, mishaps>>

\* Every input is stamped before the commit retires it.
ChunkStamps ==
    /\ stage \in {"hours", "days"} /\ step = "stamp"
    /\ Stamp(job.inputs)
    /\ step' = "commit"
    /\ UNCHANGED <<flushed, index, traces, today, stage, scope, todo, job, cutoff, retired,
                   mishaps>>

\* Faulty variant: the trace mappings of the inputs stay.
CommitKeepsTraces(out, inputs) ==
    LET rows == MergedRows(inputs) IN
    /\ index' = [f \in (Indexed \ inputs) \cup {out} |->
                    IF f = out THEN NewestHour(rows) ELSE index[f]]
    /\ traces' = traces \cup TracesIn(rows) \X {out}

\* Index::commit_merge: blocks and trace mappings swapped in one transaction.
CommitMerge(out, inputs) ==
    LET rows == MergedRows(inputs) IN
    /\ index' = [f \in (Indexed \ inputs) \cup {out} |->
                    IF f = out THEN NewestHour(rows) ELSE index[f]]
    /\ traces' = (traces \ UNION {TracesIn(files[b].rows) \X {b} : b \in inputs})
                    \cup TracesIn(rows) \X {out}

ChunkCommits ==
    /\ stage \in {"hours", "days"} /\ step = "commit"
    /\ CommitMerge(job.out, job.inputs)
    /\ retired' = [f \in DOMAIN retired \cup job.inputs |->
                    IF f \in job.inputs THEN 0 ELSE retired[f]]
    /\ step' = "write" /\ job' = NoJob
    /\ UNCHANGED <<flushed, files, today, stage, scope, todo, cutoff, mishaps>>

\* After the hours the blocks are grouped again and the closed days follow.
HoursDone ==
    /\ stage = "hours" /\ step = "write" /\ todo = {}
    /\ stage' = "days" /\ todo' = DayJobs(scope)
    /\ UNCHANGED <<flushed, files, index, traces, today, scope, step, job, cutoff, retired,
                   mishaps>>

DaysDone ==
    /\ stage = "days" /\ step = "write" /\ todo = {}
    /\ stage' = "sweep"
    /\ UNCHANGED <<flushed, files, index, traces, today, scope, todo, step, job, cutoff,
                   retired, mishaps>>

\* An error in any step of a chunk ends the pass, and its sweep is skipped.
\* The output stays behind unindexed; the stamps may be done in part.
PassFails ==
    /\ stage \in {"hours", "days"}
    /\ todo # {} \/ job # NoJob
    /\ Mishap
    /\ IF step = "stamp" THEN \E S \in SUBSET job.inputs : Stamp(S) ELSE UNCHANGED files
    /\ PassOver
    /\ UNCHANGED <<flushed, index, traces, today, cutoff, retired>>

\* What sweep_unindexed takes: compact has no reader to wait for.
Window == IF scope = "full" THEN 0 ELSE Grace
SweptFlushBlocks ==   \* faulty variant: a failed merge's output is not collected
    {b \in Present \ Indexed : b.kind = "flush" /\ files[b].age >= Window}
Swept == {b \in Present \ Indexed : files[b].age >= Window}

Sweep ==
    /\ stage = "sweep"
    /\ \/ Unlink(Swept) /\ UNCHANGED mishaps
       \/ Mishap /\ \E S \in SUBSET Swept : S # Swept /\ Unlink(S)
    /\ stage' = "idle" /\ scope' = "tick"
    /\ UNCHANGED <<flushed, index, traces, today, todo, step, job, cutoff>>

Pass ==
    \/ ChunkWrites \/ ChunkSkipped \/ ChunkStamps \/ ChunkCommits
    \/ HoursDone \/ DaysDone \/ PassFails \/ Sweep

----------------------------------------------------------------------------
(***************************************************************************)
(* Retention, the clock, and crashes.                                      *)
(***************************************************************************)

\* reclaim_before_in with a cutoff at the start of hour c: Index::drop_blocks,
\* then the unlinks, of which an error may leave some undone.
Reclaim(c) ==
    /\ MutexFree
    /\ LET dropped == {b \in Indexed : index[b] < c} IN
        /\ dropped # {}
        /\ index' = Restrict(index, Indexed \ dropped)
        /\ traces' = {m \in traces : m[2] \notin dropped}
        /\ \/ Unlink(dropped) /\ UNCHANGED mishaps
           \/ Mishap /\ \E S \in SUBSET dropped : S # dropped /\ Unlink(S)
    /\ cutoff' = IF cutoff < c THEN c ELSE cutoff
    /\ UNCHANGED <<flushed, today, passVars>>

\* The clock moves: files age.
Tick ==
    /\ step = "commit" => SlowCommit
    /\ \E b \in Present : files[b].age < Old
    /\ files' = [b \in Present |-> [files[b] EXCEPT !.age = IF @ < Old THEN @ + 1 ELSE @]]
    /\ retired' = [b \in DOMAIN retired |-> IF retired[b] < Old THEN retired[b] + 1 ELSE Old]
    /\ UNCHANGED <<flushed, index, traces, today, passVars, cutoff, mishaps>>

Midnight ==
    /\ \E d \in Days : today < d
    /\ today' = today + 1
    /\ UNCHANGED <<flushed, files, index, traces, passVars, cutoff, retired, mishaps>>

\* The process dies anywhere and is started again: sweep_orphans.
Restart ==
    /\ Mishap
    /\ Unlink(Present \ Indexed)
    /\ PassOver
    /\ UNCHANGED <<flushed, index, traces, today, cutoff>>

Next ==
    \/ Flush \/ StartTick \/ StartCompact \/ Pass
    \/ \E c \in {h + 1 : h \in Hours} : Reclaim(c)
    \/ Tick \/ Midnight \/ Restart

Spec == Init /\ [][Next]_vars

\* The compactor's interval keeps ticking, a pass that started goes on, and
\* time passes. Nothing forces a flush, retention, a compact or a crash.
Fairness == WF_vars(StartTick) /\ WF_vars(Pass) /\ WF_vars(Tick) /\ WF_vars(Midnight)

LiveSpec == Spec /\ Fairness

----------------------------------------------------------------------------
(***************************************************************************)
(* What makes the cold tier correct.                                       *)
(***************************************************************************)

\* Every variable has its type, and the pass is where it can be.
TypeOK ==
    /\ flushed \in 0 .. Len(Segments) /\ today \in Days /\ cutoff \in Nat
    /\ Present \subseteq Blocks /\ \A b \in Present :
            files[b].rows \in (SUBSET Spans) \ {{}} /\ files[b].age \in 0 .. Old
    /\ Indexed \subseteq Blocks /\ \A b \in Indexed : index[b] \in Hours
    /\ traces \subseteq Traces \X Blocks
    /\ stage \in {"idle", "hours", "days", "sweep"} /\ scope \in {"tick", "full"}
    /\ stage = "idle" => scope = "tick"
    /\ stage \in {"idle", "sweep"} => todo = {} /\ job = NoJob
    /\ step \in {"write", "stamp", "commit"} /\ (step = "write" <=> job = NoJob)
    /\ DOMAIN retired \subseteq Present \ Indexed
    /\ mishaps \in 0 .. MaxMishaps

\* What a read of the cold tier returns.
View == UNION {files[b].rows : b \in Indexed \cap Present}

\* A flushed span stays readable until a retention cutoff passes its hour,
\* through every merge, failed merge, sweep and restart.
NothingLost ==
    \A n \in 1 .. flushed : \A s \in Segments[n] : HourOf[s] >= cutoff => s \in View

\* Merging never multiplies a span: it is in as many blocks as the segments
\* that brought it, at most.
NotDoubled ==
    \A s \in Spans :
        Cardinality({b \in Indexed : b \in Present /\ s \in files[b].rows})
            <= Cardinality({n \in 1 .. flushed : s \in Segments[n]})

\* The index agrees with the files it names: none is missing, the newest
\* start time retention goes by is the block's, and a lookup by trace finds
\* every block that holds the trace and no other.
IndexExact ==
    /\ \A b \in Indexed : b \in Present /\ index[b] = NewestHour(files[b].rows)
    /\ traces = UNION {TracesIn(files[b].rows) \X {b} : b \in Indexed \cap Present}

\* A merged block never holds more rows than the cap.
CapRespected == \A b \in Indexed \cap Present : b.kind # "flush" => Rows(b) <= MaxSpans

\* The cold tier as flush, merge and retention leave it between any two steps:
\* well typed, indexed exactly, merged within the cap, and each span no more
\* often than it came.
ColdIsSound == TypeOK /\ NotDoubled /\ IndexExact /\ CapRespected

\* A file that a merge took out of the index stays on disk for the grace, for
\* the queries that listed it before, as long as the process runs.
GraceHonoured ==
    [][\A b \in DOMAIN retired \ DOMAIN files' :
            retired[b] >= Grace \/ scope = "full" \/ mishaps' # mishaps \/ scope' = "full"]_vars

\* Nothing leaves early and nothing comes back: what retention dropped, or what
\* a failed merge left behind, is never served again by a merge, a sweep or a
\* restart. Only a flush adds to what a read finds.
NothingComesBack == GraceHonoured /\ [][flushed' = flushed => View' \subseteq View]_vars

\* Nothing litters the disk for good: when flushes and mishaps have ended, so
\* do in the end the files that the index does not name.
GarbageCollected == <>[](Present \subseteq Indexed)

\* A closed day whose blocks fit one ends up as one block. Copies count: two
\* blocks with the same span may have to stay apart.
ClosedDaysCollapse ==
    \A d \in Days :
        <>[](Closed(d) /\ MapThenSumSet(Rows, InDay(d)) <= MaxSpans
                => Cardinality(InDay(d)) <= 1)
=============================================================================
