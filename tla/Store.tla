------------------------------- MODULE Store -------------------------------
(***************************************************************************)
(* The durable store of evald (src/src/store/mod.rs, wal.rs, index.rs):    *)
(* one writer task that appends requests to a segmented write-ahead log    *)
(* and acknowledges them after a shared fsync, one compactor that moves    *)
(* sealed segments into Parquet blocks, a retention sweep that drops old   *)
(* blocks, and the recovery that Store::open performs after a crash.       *)
(*                                                                         *)
(* A record is one copy of a span as one request carried it, <<r, s>>.     *)
(* The bytes of a segment file are abstracted to three sets per segment:   *)
(* good (on disk and readable at replay), dirty (written, not yet fsynced, *)
(* so a power loss may take any of it), and the flag torn (a partial frame *)
(* sits in the file, so replay never reaches what was appended after it).  *)
(***************************************************************************)
EXTENDS Naturals, Sequences, FiniteSets

CONSTANTS
    Spans,          \* span identities, i.e. (trace_id, span_id) pairs
    Hours,          \* hour partitions of the cold tier, numbered in time order
    HourOf,         \* the partition of a span's start time
    Requests,       \* append requests; a retry is another request
    Batch,          \* the spans each request carries
    Seal,           \* the Seal command, as it sits in the channel
    ChannelCap,     \* StoreConfig::channel_capacity
    GroupMax,       \* GROUP_COMMIT_MAX
    SealThreshold,  \* StoreConfig::seal_threshold_spans
    MaxHot,         \* StoreConfig::max_hot_spans, 0 for no bound
    MaxSeqno,       \* bound: highest segment number explored
    MaxCrashes,     \* bound: crashes explored
    MaxFaults,      \* bound: I/O errors explored
    Faults          \* which I/O errors the environment may produce

FaultKinds == {"disk", "write", "torn", "sync", "seal", "block", "commit", "unlink"}

ASSUME BoundsAssumption ==
    /\ {ChannelCap, GroupMax, SealThreshold} \subseteq Nat \ {0}
    /\ {MaxHot, MaxSeqno, MaxCrashes, MaxFaults} \subseteq Nat
    /\ Faults \subseteq FaultKinds

ASSUME DataAssumption ==
    /\ Hours \subseteq Nat
    /\ HourOf \in [Spans -> Hours]
    /\ Batch \in [Requests -> (SUBSET Spans) \ {{}}]
    /\ \A r \in Requests : IsFiniteSet(Batch[r])
    /\ Seal \notin Requests

Seqnos == 1 .. MaxSeqno
Blocks == Seqnos \X Hours          \* a flush block: its segment and partition
Records == {rec \in Requests \X Spans : rec[2] \in Batch[rec[1]]}
RecordsOf(r) == {r} \X Batch[r]
SpansIn(R) == {rec[2] : rec \in R}

VARIABLES
    \* the process
    phase,      \* "down", then "sweep" inside Store::open, then "up"
    queue,      \* the bounded mpsc channel
    wpc,        \* where the writer task is in its loop
    group,      \* requests drained and not yet written
    pend,       \* requests written and awaiting the fsync or their ACK
    sealReq,    \* the group ended with a Seal command
    active,     \* Wal::active_seqno, and the atomic copy the compactor reads
    count,      \* Wal::active_count
    hot,        \* HotTier::segments, {} for a segment with no group
    cpc,        \* where the holder of the compaction mutex is
    plan,       \* segments the running flush pass has still to visit
    cur,        \* the segment it is flushing
    doomed,     \* blocks a retention sweep has dropped and has still to unlink
    \* the data directory
    walFiles,   \* segment files present
    good, dirty, torn,
    files,      \* Parquet files by name, {} where there is none
    index,      \* blocks the redb index lists
    watermark,  \* highest segment committed to cold
    \* what the clients know, and bookkeeping of the model
    status,     \* the fate of each request
    home,       \* segment of an acknowledged request, 0 before the ACK
    expired,    \* blocks retention has dropped
    crashes, faults

procVars == <<phase, queue, wpc, group, pend, sealReq, active, count>>
compVars == <<cpc, plan, cur, doomed>>
walVars == <<walFiles, good, dirty, torn>>
coldVars == <<files, index, watermark>>
ghostVars == <<home, expired, crashes>>
vars == <<procVars, hot, compVars, walVars, coldVars, status, ghostVars, faults>>

----------------------------------------------------------------------------
(***************************************************************************)
(* Derived state.                                                          *)
(***************************************************************************)

\* HotTier::len: every resident copy counts.
HotLen == Cardinality(UNION {hot[n] : n \in Seqnos})

SheddingOffByOne == MaxHot # 0 /\ HotLen > MaxHot   \* faulty variant

\* over_limit, as the writer evaluates it for a group.
Shedding == MaxHot # 0 /\ HotLen >= MaxHot

\* Spans a read finds: the hot tier and the blocks the index lists.
Visible == SpansIn(UNION {hot[n] : n \in Seqnos}) \cup UNION {files[b] : b \in index}

\* Spans Store::open would find if the process died now and lost every
\* unsynced byte: segments above the watermark and the committed blocks.
Recoverable ==
    SpansIn(UNION {good[n] : n \in {m \in walFiles : m > watermark}})
        \cup UNION {files[b] : b \in index}

\* Spans some client was told are stored and retention has not expired.
Owed ==
    {s \in Spans : \E r \in Requests :
        home[r] # 0 /\ s \in Batch[r] /\ <<home[r], HourOf[s]>> \notin expired}

Empty == [n \in Seqnos |-> {}]

Init ==
    /\ phase = "down" /\ queue = <<>> /\ wpc = "recv"
    /\ group = {} /\ pend = {} /\ sealReq = FALSE
    /\ active = 0 /\ count = 0 /\ hot = Empty
    /\ cpc = "idle" /\ plan = {} /\ cur = 0 /\ doomed = {}
    /\ walFiles = {} /\ good = Empty /\ dirty = Empty /\ torn = {}
    /\ files = [b \in Blocks |-> {}] /\ index = {} /\ watermark = 0
    /\ status = [r \in Requests |-> "new"]
    /\ home = [r \in Requests |-> 0]
    /\ expired = {} /\ crashes = 0 /\ faults = 0

Fault(kind) ==
    /\ kind \in Faults
    /\ faults < MaxFaults
    /\ faults' = faults + 1

Answer(R, s) == status' = [r \in Requests |-> IF r \in R THEN s ELSE status[r]]

----------------------------------------------------------------------------
(***************************************************************************)
(* Ingest: Store::append and Store::seal_now, up to the channel.           *)
(***************************************************************************)

Send(r) ==
    /\ phase = "up" /\ status[r] = "new"
    /\ Len(queue) < ChannelCap
    /\ queue' = Append(queue, r)
    /\ Answer({r}, "queued")
    /\ UNCHANGED <<phase, wpc, group, pend, sealReq, active, count, hot, compVars,
                   walVars, coldVars, ghostVars, faults>>

\* try_send on a full channel, or the disk floor: nothing is written.
Refuse(r) ==
    /\ phase = "up" /\ status[r] = "new"
    /\ \/ Len(queue) >= ChannelCap /\ UNCHANGED faults
       \/ Fault("disk")
    /\ Answer({r}, "refused")
    /\ UNCHANGED <<procVars, hot, compVars, walVars, coldVars, ghostVars>>

\* At most one Seal command is in the channel at a time (bound).
SealNow ==
    /\ phase = "up"
    /\ Len(queue) < ChannelCap
    /\ \A i \in 1 .. Len(queue) : queue[i] # Seal
    /\ queue' = Append(queue, Seal)
    /\ UNCHANGED <<phase, wpc, group, pend, sealReq, active, count, hot, compVars,
                   walVars, coldVars, status, ghostVars, faults>>

----------------------------------------------------------------------------
(***************************************************************************)
(* The writer task: one iteration of writer_loop.                          *)
(***************************************************************************)

\* Faulty variant: the drain stops in front of a Seal and does not take it.
IsDrainBeforeSeal(n) ==
    /\ n \in 1 .. Len(queue) /\ n <= GroupMax
    /\ \A i \in 1 .. n : queue[i] # Seal
    /\ n < Len(queue) => n = GroupMax \/ queue[n + 1] = Seal

\* The drained commands are a prefix of the channel that holds at most one
\* Seal, and then as its last command; the drain stops early only at a Seal,
\* at GROUP_COMMIT_MAX or when the channel is empty.
IsDrain(n) ==
    /\ n \in 1 .. Len(queue) /\ n <= GroupMax
    /\ \A i \in 1 .. n : queue[i] = Seal => i = n
    /\ n = Len(queue) \/ n = GroupMax \/ queue[n] = Seal

AfterGroup == IF sealReq' THEN "seal_cmd" ELSE "recv"

\* Drain a group and evaluate over_limit once for all of it.
DrainGroup ==
    /\ phase = "up" /\ wpc = "recv"
    /\ \E n \in 1 .. Len(queue) :
        LET drained == {queue[i] : i \in 1 .. n} IN
        /\ IsDrain(n)
        /\ queue' = SubSeq(queue, n + 1, Len(queue))
        /\ sealReq' = (Seal \in drained)
        /\ \/ /\ Shedding
              /\ Answer(drained \cap Requests, "refused")
              /\ UNCHANGED group
              /\ wpc' = AfterGroup
           \/ /\ ~Shedding
              /\ group' = drained \cap Requests
              /\ UNCHANGED status
              /\ wpc' = IF group' = {} THEN AfterGroup ELSE "write"
    /\ UNCHANGED <<phase, pend, active, count, hot, compVars, walVars, coldVars,
                   ghostVars, faults>>

\* Phase 1, one request: Wal::append_nosync. Behind a torn frame the bytes
\* reach the file and are counted, but no replay will reach them.
WriteRequest(r) ==
    /\ phase = "up" /\ wpc = "write" /\ r \in group
    /\ group' = group \ {r}
    /\ pend' = pend \cup {r}
    /\ count' = count + Cardinality(Batch[r])
    /\ dirty' = IF active \in torn THEN dirty
                ELSE [dirty EXCEPT ![active] = @ \cup RecordsOf(r)]
    /\ UNCHANGED <<phase, queue, wpc, sealReq, active, hot, compVars, walFiles, good,
                   torn, coldVars, status, ghostVars, faults>>

\* write_all fails: before the first byte, or part way through a frame. The
\* client is told; the writer goes on with the same file.
WriteFails(r) ==
    /\ phase = "up" /\ wpc = "write" /\ r \in group
    /\ \/ Fault("write") /\ UNCHANGED <<dirty, torn>>
       \/ /\ Fault("torn")
          /\ torn' = torn \cup {active}
          /\ \E whole \in SUBSET RecordsOf(r) :
                /\ whole # RecordsOf(r)
                /\ dirty' = IF active \in torn THEN dirty
                            ELSE [dirty EXCEPT ![active] = @ \cup whole]
    /\ group' = group \ {r}
    /\ Answer({r}, "refused")
    /\ UNCHANGED <<phase, queue, wpc, pend, sealReq, active, count, hot, compVars,
                   walFiles, good, coldVars, ghostVars>>

\* Every append of the group failed: no fsync and no threshold check.
GroupFailed ==
    /\ phase = "up" /\ wpc = "write" /\ group = {} /\ pend = {}
    /\ wpc' = IF sealReq THEN "seal_cmd" ELSE "recv"
    /\ UNCHANGED <<phase, queue, group, pend, sealReq, active, count, hot, compVars,
                   walVars, coldVars, status, ghostVars, faults>>

FlushWithoutFsync == UNCHANGED <<good, dirty>>   \* faulty variant

\* Wal::sync: flush and sync_data of the active segment.
Fsync ==
    /\ good' = [good EXCEPT ![active] = @ \cup dirty[active]]
    /\ dirty' = [dirty EXCEPT ![active] = {}]

\* Phase 2: one fsync commits the whole group.
SyncGroup ==
    /\ phase = "up" /\ wpc = "write" /\ group = {} /\ pend # {}
    /\ Fsync
    /\ wpc' = "publish"
    /\ UNCHANGED <<phase, queue, group, pend, sealReq, active, count, hot, compVars,
                   walFiles, torn, coldVars, status, ghostVars, faults>>

\* The fsync fails: every waiter is refused. The bytes stay in the file, and
\* active_count keeps counting them.
SyncFails ==
    /\ phase = "up" /\ wpc = "write" /\ group = {} /\ pend # {}
    /\ Fault("sync")
    /\ Answer(pend, "refused")
    /\ pend' = {}
    /\ wpc' = "seal_full"
    /\ UNCHANGED <<phase, queue, group, sealReq, active, count, hot, compVars,
                   walVars, coldVars, ghostVars>>

\* Push one request of the committed group to the hot tier, then ACK it.
PublishRequest(r) ==
    /\ phase = "up" /\ wpc = "publish" /\ r \in pend
    /\ hot' = [hot EXCEPT ![active] = @ \cup RecordsOf(r)]
    /\ home' = [home EXCEPT ![r] = active]
    /\ Answer({r}, "acked")
    /\ pend' = pend \ {r}
    /\ wpc' = IF pend' = {} THEN "seal_full" ELSE "publish"
    /\ UNCHANGED <<phase, queue, group, sealReq, active, count, compVars, walVars,
                   coldVars, expired, crashes, faults>>

\* Wal::seal_and_rotate, then active_seqno.store.
Rotate ==
    /\ active < MaxSeqno
    /\ walFiles' = walFiles \cup {active + 1}
    /\ active' = active + 1
    /\ count' = 0
    /\ UNCHANGED faults

\* open_segment_file fails, before or after the file was created.
RotateFails ==
    /\ active < MaxSeqno
    /\ Fault("seal")
    /\ walFiles' \in {walFiles, walFiles \cup {active + 1}}
    /\ UNCHANGED <<active, count>>

Overfull == count > SealThreshold   \* faulty variant
Full == count >= SealThreshold

\* The threshold check that follows a group with something written.
SealFull ==
    /\ phase = "up" /\ wpc = "seal_full"
    /\ \/ Full /\ (Rotate \/ RotateFails)
       \/ ~Full /\ UNCHANGED <<walFiles, active, count, faults>>
    /\ wpc' = IF sealReq THEN "seal_cmd" ELSE "recv"
    /\ UNCHANGED <<phase, queue, group, pend, sealReq, hot, compVars, good, dirty,
                   torn, coldVars, status, ghostVars>>

\* The Seal command at the end of the group; an empty segment is not sealed.
SealCommand ==
    /\ phase = "up" /\ wpc = "seal_cmd"
    /\ \/ count > 0 /\ (Rotate \/ RotateFails)
       \/ count = 0 /\ UNCHANGED <<walFiles, active, count, faults>>
    /\ sealReq' = FALSE
    /\ wpc' = "recv"
    /\ UNCHANGED <<phase, queue, group, pend, hot, compVars, good, dirty, torn,
                   coldVars, status, ghostVars>>

Writer ==
    \/ DrainGroup \/ GroupFailed \/ SyncGroup \/ SyncFails \/ SealFull \/ SealCommand
    \/ \E r \in Requests : WriteRequest(r) \/ WriteFails(r) \/ PublishRequest(r)

----------------------------------------------------------------------------
(***************************************************************************)
(* The compactor: flush_pending and flush_one, step by step, under the     *)
(* compaction mutex (cpc = "idle" is the free mutex).                      *)
(***************************************************************************)

\* Faulty variant: the newest segment first.
NewestSegment(P) ==
    \/ /\ P = {}
       /\ cpc' = "idle" /\ plan' = {} /\ cur' = 0
    \/ \E n \in P :
        /\ \A m \in P : n >= m
        /\ cpc' = "blocks" /\ plan' = P \ {n} /\ cur' = n

\* Take the lowest segment of a pass, or end the pass and free the mutex.
NextSegment(P) ==
    \/ /\ P = {}
       /\ cpc' = "idle" /\ plan' = {} /\ cur' = 0
    \/ \E n \in P :
        /\ \A m \in P : n <= m
        /\ cpc' = "blocks" /\ plan' = P \ {n} /\ cur' = n

\* The first `?` that fails ends the pass; the next tick starts over.
AbortPass == cpc' = "idle" /\ plan' = {} /\ cur' = 0

\* Faulty variants: the active segment too, and every group in memory.
PendingWithActive == {n \in Seqnos : hot[n] # {} /\ n > watermark}
PendingAll == {n \in Seqnos : hot[n] # {}}

\* Sealed groups not committed yet.
Pending == {n \in Seqnos : hot[n] # {} /\ n > watermark /\ n < active}

StartPass ==
    /\ phase = "up" /\ cpc = "idle" /\ Pending # {}
    /\ NextSegment(Pending)
    /\ UNCHANGED <<procVars, hot, doomed, walVars, coldVars, status, ghostVars, faults>>

\* One block per hour partition of the group; a span the group holds twice
\* is written once.
HoursIn(n) == {HourOf[s] : s \in SpansIn(hot[n])}
BlockOf(n, h) == {s \in SpansIn(hot[n]) : HourOf[s] = h}

AllWritten == \A h \in HoursIn(cur) : files[<<cur, h>>] = BlockOf(cur, h)

\* cold::write_block: durable once it returns.
WriteBlock(h) ==
    /\ phase = "up" /\ cpc = "blocks"
    /\ h \in HoursIn(cur)
    /\ files[<<cur, h>>] # BlockOf(cur, h)
    /\ files' = [files EXCEPT ![<<cur, h>>] = BlockOf(cur, h)]
    /\ UNCHANGED <<procVars, hot, compVars, walVars, index, watermark, status,
                   ghostVars, faults>>

WriteBlockFails ==
    /\ phase = "up" /\ cpc = "blocks" /\ ~AllWritten
    /\ Fault("block")
    /\ AbortPass
    /\ UNCHANGED <<procVars, hot, doomed, walVars, coldVars, status, ghostVars>>

\* Index::commit_flush: blocks and watermark in one transaction.
IndexFlush(n) ==
    /\ index' = index \cup ({n} \X HoursIn(n))
    /\ watermark' = n

CommitFlush ==
    /\ phase = "up" /\ cpc = "blocks" /\ AllWritten
    /\ IndexFlush(cur)
    /\ cpc' = "unlink"
    /\ UNCHANGED <<procVars, hot, plan, cur, doomed, walVars, files, status,
                   ghostVars, faults>>

CommitFails ==
    /\ phase = "up" /\ cpc = "blocks" /\ AllWritten
    /\ Fault("commit")
    /\ AbortPass
    /\ UNCHANGED <<procVars, hot, doomed, walVars, coldVars, status, ghostVars>>

\* wal::delete_segment.
Truncate(n) ==
    /\ walFiles' = walFiles \ {n}
    /\ good' = [good EXCEPT ![n] = {}]
    /\ dirty' = [dirty EXCEPT ![n] = {}]
    /\ torn' = torn \ {n}

DeleteSegment ==
    /\ phase = "up" /\ cpc = "unlink"
    /\ Truncate(cur)
    /\ cpc' = "drop"
    /\ UNCHANGED <<procVars, hot, plan, cur, doomed, coldVars, status, ghostVars, faults>>

\* The unlink fails after the commit: the pass ends before drop_segment.
DeleteFails ==
    /\ phase = "up" /\ cpc = "unlink"
    /\ Fault("unlink")
    /\ AbortPass
    /\ UNCHANGED <<procVars, hot, doomed, walVars, coldVars, status, ghostVars>>

\* Faulty variant: newer groups go too.
DropFrom(n) == hot' = [m \in Seqnos |-> IF m >= n THEN {} ELSE hot[m]]

\* HotTier::drop_segment.
DropSegment(n) == hot' = [hot EXCEPT ![n] = {}]

\* The group leaves memory; then the next segment of the pass.
DropGroup ==
    /\ phase = "up" /\ cpc = "drop"
    /\ DropSegment(cur)
    /\ NextSegment(plan)
    /\ UNCHANGED <<procVars, doomed, walVars, coldVars, status, ghostVars, faults>>

Compactor ==
    \/ StartPass \/ WriteBlockFails \/ CommitFlush \/ CommitFails
    \/ DeleteSegment \/ DeleteFails \/ DropGroup
    \/ \E h \in Hours : WriteBlock(h)

----------------------------------------------------------------------------
(***************************************************************************)
(* Retention: reclaim_before_in, with a cutoff at the start of hour c. The *)
(* index forgets the blocks first, then the files are unlinked one by one. *)
(***************************************************************************)

Reclaim(c) ==
    /\ phase = "up" /\ cpc = "idle"
    /\ doomed' = {b \in index : b[2] < c} /\ doomed' # {}
    /\ index' = index \ doomed'
    /\ expired' = expired \cup doomed'
    /\ cpc' = "reclaim"
    /\ UNCHANGED <<procVars, hot, plan, cur, walVars, files, watermark, status, home,
                   crashes, faults>>

Unlink(b) ==
    /\ phase = "up" /\ cpc = "reclaim" /\ b \in doomed
    /\ doomed' = doomed \ {b}
    /\ files' = [files EXCEPT ![b] = {}]
    /\ cpc' = IF doomed' = {} THEN "idle" ELSE "reclaim"
    /\ UNCHANGED <<procVars, hot, plan, cur, walVars, index, watermark, status,
                   ghostVars, faults>>

\* An unlink error ends the sweep: the file is an orphan for the next open.
UnlinkFails ==
    /\ phase = "up" /\ cpc = "reclaim"
    /\ Fault("unlink")
    /\ doomed' = {} /\ cpc' = "idle"
    /\ UNCHANGED <<procVars, hot, plan, cur, walVars, coldVars, status, ghostVars>>

Retention ==
    \/ \E c \in Hours \cup {h + 1 : h \in Hours} : Reclaim(c)
    \/ \E b \in Blocks : Unlink(b)
    \/ UnlinkFails

----------------------------------------------------------------------------
(***************************************************************************)
(* Crash and recovery.                                                     *)
(***************************************************************************)

\* The process dies, or the machine loses power. Memory is gone; of the
\* bytes never fsynced any part may survive (all of them after a kill -9);
\* a segment whose unlink had not reached the disk may be back.
Crash ==
    /\ phase # "down" /\ crashes < MaxCrashes
    /\ crashes' = crashes + 1
    /\ phase' = "down" /\ queue' = <<>> /\ wpc' = "recv"
    /\ group' = {} /\ pend' = {} /\ sealReq' = FALSE
    /\ active' = 0 /\ count' = 0 /\ hot' = Empty
    /\ cpc' = "idle" /\ plan' = {} /\ cur' = 0 /\ doomed' = {}
    /\ \E kept \in SUBSET UNION {dirty[n] : n \in Seqnos} :
        good' = [n \in Seqnos |-> good[n] \cup (dirty[n] \cap kept)]
    /\ dirty' = Empty
    /\ \E back \in SUBSET ((1 .. watermark) \ walFiles) : walFiles' = walFiles \cup back
    /\ Answer({r \in Requests : status[r] = "queued"}, "lost")
    /\ UNCHANGED <<torn, coldVars, home, expired, faults>>

StaleOffByOne(n) == n <= watermark + 1   \* faulty variant
Stale(n) == n <= watermark

\* Store::open, first part: segments at or below the watermark are deleted.
OpenDeletes(n) ==
    /\ phase = "down" /\ n \in walFiles /\ Stale(n)
    /\ walFiles' = walFiles \ {n}
    /\ good' = [good EXCEPT ![n] = {}]
    /\ torn' = torn \ {n}
    /\ UNCHANGED <<procVars, hot, compVars, dirty, coldVars, status, ghostVars, faults>>

\* Segments above the watermark are replayed, up to a torn record, which is
\* cut off together with what follows it; the next segment is chosen.
OpenLoads ==
    /\ phase = "down"
    /\ \A n \in walFiles : ~Stale(n)
    /\ hot' = [n \in Seqnos |-> IF n \in walFiles THEN good[n] ELSE {}]
    /\ torn' = {}
    /\ \E m \in walFiles \cup {watermark} :
        /\ \A n \in walFiles \cup {watermark} : n <= m
        /\ m < MaxSeqno
        /\ active' = m + 1
    /\ phase' = "sweep"
    /\ UNCHANGED <<queue, wpc, group, pend, sealReq, count, compVars, walFiles, good,
                   dirty, coldVars, status, ghostVars, faults>>

Orphans == {b \in Blocks : files[b] # {} /\ b \notin index}

\* sweep_orphans.
OpenSweeps(b) ==
    /\ phase = "sweep" /\ b \in Orphans
    /\ files' = [files EXCEPT ![b] = {}]
    /\ UNCHANGED <<procVars, hot, compVars, walVars, index, watermark, status,
                   ghostVars, faults>>

\* Wal::open creates the active segment; the tasks are spawned.
OpenDone ==
    /\ phase = "sweep" /\ Orphans = {}
    /\ walFiles' = walFiles \cup {active}
    /\ phase' = "up"
    /\ UNCHANGED <<queue, wpc, group, pend, sealReq, active, count, hot, compVars,
                   good, dirty, torn, coldVars, status, ghostVars, faults>>

Open ==
    \/ OpenLoads \/ OpenDone
    \/ \E n \in Seqnos : OpenDeletes(n)
    \/ \E b \in Blocks : OpenSweeps(b)

----------------------------------------------------------------------------

Clients == SealNow \/ \E r \in Requests : Send(r) \/ Refuse(r)

Next == Clients \/ Writer \/ Compactor \/ Retention \/ Crash \/ Open

Spec == Init /\ [][Next]_vars

\* The runtime keeps polling the writer task and the compactor's interval
\* keeps ticking; a supervisor restarts a process that died. Nothing forces
\* a client to send, an operator to seal, retention to run, or a crash.
Fairness ==
    /\ WF_vars(Writer) /\ WF_vars(Compactor) /\ WF_vars(Open)
    /\ WF_vars(\E b \in Blocks : Unlink(b))

LiveSpec == Spec /\ Fairness

----------------------------------------------------------------------------
(***************************************************************************)
(* What makes the store correct.                                           *)
(***************************************************************************)

ProcTypes ==
    /\ phase \in {"down", "sweep", "up"}
    /\ queue \in Seq(Requests \cup {Seal})
    /\ wpc \in {"recv", "write", "publish", "seal_full", "seal_cmd"}
    /\ group \subseteq Requests /\ pend \subseteq Requests /\ sealReq \in BOOLEAN
    /\ active \in 0 .. MaxSeqno /\ count \in Nat

CompTypes ==
    /\ cpc \in {"idle", "blocks", "unlink", "drop", "reclaim"}
    /\ plan \subseteq Seqnos /\ cur \in 0 .. MaxSeqno /\ doomed \subseteq Blocks

DiskTypes ==
    /\ walFiles \subseteq Seqnos /\ torn \subseteq Seqnos
    /\ good \in [Seqnos -> SUBSET Records] /\ dirty \in [Seqnos -> SUBSET Records]
    /\ files \in [Blocks -> SUBSET Spans] /\ index \subseteq Blocks
    /\ watermark \in 0 .. MaxSeqno

GhostTypes ==
    /\ status \in [Requests -> {"new", "queued", "acked", "refused", "lost"}]
    /\ home \in [Requests -> 0 .. MaxSeqno]
    /\ expired \subseteq Blocks /\ crashes \in Nat /\ faults \in Nat

\* The locals of the two tasks agree with where the tasks are, a process that
\* is not open runs neither, and segment numbers start at 1.
TaskLocals ==
    /\ wpc # "write" => group = {}
    /\ wpc = "recv" => sealReq = FALSE
    /\ wpc \notin {"write", "publish"} => pend = {}
    /\ wpc = "publish" => pend # {}
    /\ cpc \in {"idle", "reclaim"} <=> cur = 0
    /\ cpc \in {"idle", "reclaim"} => plan = {}
    /\ cpc # "reclaim" => doomed = {}
    /\ phase # "up" => wpc = "recv" /\ cpc = "idle"
    /\ phase # "down" => active # 0

\* Every variable has its type, and the two tasks are where they can be.
TypeOK ==
    /\ ProcTypes /\ CompTypes /\ DiskTypes /\ GhostTypes /\ TaskLocals
    /\ hot \in [Seqnos -> SUBSET Records]

\* An acknowledged span survives the death of the process at any instant,
\* whatever becomes of unsynced bytes, until retention drops its block: it
\* is in a segment recovery replays or in a block the index lists.
Durable == Owed \subseteq Recoverable

\* A running store shows every acknowledged span from the moment of the ACK,
\* through seal, flush, commit, WAL truncation and restart.
ReadYourWrites == phase = "up" => Owed \subseteq Visible

\* Memory never shows a record a crash would take back: what the hot tier
\* serves above the watermark has been fsynced into its segment.
HotIsDurable ==
    \A n \in Seqnos : n > watermark => hot[n] \subseteq good[n]

\* No span is counted from two places after a restart: blocks exist in the
\* index only for segments recovery deletes, never for one it replays.
ReplayedIsNotCommitted == \A b \in index : b[1] <= watermark

\* A block the index lists has its file, with the partition's spans in it:
\* flush writes before it commits, retention unlinks after it drops.
IndexedBlocksExist == \A b \in index : files[b] # {} /\ \A s \in files[b] : HourOf[s] = b[2]

\* The three places a span can be in agree with each other at every step of a
\* flush, a crash or a recovery: memory runs ahead of no segment, recovery
\* replays no segment the index lists, and no listed block lacks its file.
PlacesAgree == TypeOK /\ HotIsDurable /\ ReplayedIsNotCommitted /\ IndexedBlocksExist

\* The soft bound on memory overshoots by one commit group at most, whatever
\* the compactor does (given no failed fsync: what such a group left in the
\* WAL is resident after a restart although it was never accepted).
HotBounded ==
    MaxHot # 0 =>
        \E r \in Requests : HotLen < MaxHot + GroupMax * Cardinality(Batch[r])

\* The WAL is truncated only below the watermark: a segment file disappears
\* only after the commit that made its spans cold.
SegmentOutlivesCommit == [][\A n \in walFiles \ walFiles' : n <= watermark]_vars

\* A committed block never changes under a reader: no flush, after any number
\* of crashes, reuses a segment number and with it a block's name.
CommittedBlocksImmutable ==
    [][\A b \in index \cap index' : files'[b] = files[b]]_vars

\* The store implements what it promises: flushing, committing, truncating,
\* sweeping and replaying are invisible to a reader.
Log == INSTANCE SpanLog WITH
    up <- phase = "up",
    visible <- IF phase = "up" THEN Visible ELSE {},
    owed <- Owed

ImplementsLog == Log!Spec

\* Every request that entered the channel is answered: ACKed, refused, or
\* lost with the process. No waiter is left behind.
EveryRequestAnswered ==
    \A r \in Requests : (status[r] = "queued") ~> (status[r] # "queued")

\* A sealed segment leaves memory: the compactor keeps up in the end, through
\* failed passes and restarts.
SealedGroupsDrain ==
    \A n \in Seqnos : (phase = "up" /\ n < active /\ hot[n] # {}) ~> (hot[n] = {})

\* Shedding is temporary: once ingest is shed for a full hot tier, the
\* compactor brings the tier below its bound again.
SheddingEnds == Shedding ~> ~Shedding
=============================================================================
