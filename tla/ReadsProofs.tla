----------------------------- MODULE ReadsProofs -----------------------------
(***************************************************************************)
(* What Reads promises of Store::query, proved for any number of readers,  *)
(* segments and ticks of grace: a successful REST read holds every span    *)
(* it owes and counts none from two blocks (RestReadsComplete), and a read *)
(* fails only by outliving the grace or because of retention               *)
(* (FailsForCause).                                                        *)
(***************************************************************************)
EXTENDS Reads, FiniteSetTheorems, TLAPS

\* No segment has its spans in two blocks of B.
Disjoint(B) == \A b, c \in B : b # c => b \cap c = {}

\* The blocks of the index are files that no retention sweep is unlinking, each
\* holds written segments, and none holds a segment of another. Only the
\* segment being flushed is in memory and in a block.
IndexSound ==
    /\ index \subseteq files /\ index \cap doomed = {}
    /\ Cold \subseteq 1 .. written /\ hot \subseteq 1 .. written
    /\ Disjoint(index)
    /\ hot \cap Cold \subseteq {flushing}
    /\ flushing # 0 => flushing \in Cold

\* What a reader has listed and read comes from one listing, and nothing of an
\* earlier one is kept.
OneListing ==
    \A r \in Readers :
        /\ Disjoint(todo[r] \cup got[r])
        /\ rpc[r] = "list" => got[r] = {}

\* A REST read that has copied the hot tier will find the rest of what it owes
\* in the blocks that are listed now, and, once it has listed, in those it listed.
Reachable ==
    \A r \in Readers :
        /\ rpc[r] = "scan" => kind[r] = "sql"
        /\ kind[r] = "rest" /\ rpc[r] \in {"list", "open"} =>
              owed[r] \ expired \subseteq hotSnap[r] \cup Cold
        /\ kind[r] = "rest" /\ rpc[r] = "open" =>
              owed[r] \ expired \subseteq hotSnap[r] \cup UNION (todo[r] \cup got[r])
        /\ kind[r] = "rest" /\ rpc[r] = "done" =>
              owed[r] \ expired \subseteq hotSnap[r] \cup UNION got[r]

\* A block of the listing a reader works from (a SQL query opens those it found a
\* second time) is there, and has been out of the index for no longer than the
\* reader has known of it, unless the read may fail for one of its two causes.
Excused(r) == waited[r] >= Grace \/ robbed[r]
Present ==
    \A r \in Readers :
        /\ rpc[r] \in {"open", "scan"} =>
              Excused(r) \/ \A b \in todo[r] \cup got[r] :
                                 /\ b \in files /\ b \notin doomed
                                 /\ b \in index \/ age[b] <= waited[r]
        /\ rpc[r] = "failed" => Excused(r)

\* The inductive invariant.
IInv == TypeOK /\ IndexSound /\ OneListing /\ Reachable /\ Present

\* An empty store with idle readers satisfies the invariant.
LEMMA InitInv == Init => IInv
<1> SUFFICES ASSUME Init PROVE IInv
  OBVIOUS
<1> USE ReadsAssumption DEF Init
<1>1. TypeOK
  BY DEF TypeOK
<1>2. IndexSound
  BY DEF IndexSound, Cold, Disjoint
<1>3. OneListing
  BY DEF OneListing, Disjoint
<1>4. Reachable
  BY DEF Reachable
<1>5. Present
  BY DEF Present
<1> QED
  BY <1>1, <1>2, <1>3, <1>4, <1>5 DEF IInv

\* The segment numbers are the positive naturals up to the bound.
LEMMA SegsArePositive == 0 \notin Segs /\ \A n \in Segs : n \in Nat /\ n > 0
BY ReadsAssumption DEF Segs

\* Blocks hold segments.
LEMMA ColdIsSegs == TypeOK => Cold \subseteq Segs
BY DEF TypeOK, Cold, Blocks

\* A publication adds a segment that no block holds.
LEMMA PublishInv == ASSUME IInv, Publish PROVE IInv'
<1> USE ReadsAssumption DEF IInv, Publish, readVars
<1>0. written \in Nat /\ written' \in Nat /\ written' \in 1 .. written' /\ written' \in Segs
  BY DEF TypeOK, Segs
<1>1. TypeOK'
  BY <1>0 DEF TypeOK, Segs
<1>2. IndexSound'
  <2>1. Cold' = Cold
    BY DEF Cold
  <2>2. written' \notin Cold /\ 1 .. written \subseteq 1 .. written'
    BY <1>0 DEF IndexSound
  <2> QED
    BY <1>0, <2>1, <2>2 DEF IndexSound
<1>3. OneListing' /\ Reachable' /\ Present'
  BY DEF OneListing, Reachable, Cold, Present, Excused
<1> QED
  BY <1>1, <1>2, <1>3

\* A flush adds a block of its own: no block held the segment before.
LEMMA CommitFlushInv == ASSUME IInv, NEW n \in Segs, CommitFlush(n) PROVE IInv'
<1> USE DEF IInv, CommitFlush, MutexFree, readVars
<1>0. {n} \in Blocks /\ n # 0
  BY SegsArePositive DEF Blocks
<1>1. TypeOK'
  BY <1>0 DEF TypeOK
<1>2. Cold' = Cold \cup {n}
  BY DEF Cold
<1>3. IndexSound'
  <2>1. \A b \in index : n \notin b
    BY <1>0 DEF IndexSound, Cold
  <2>2. Disjoint(index')
    <3> SUFFICES ASSUME NEW b \in index', NEW c \in index', b # c PROVE b \cap c = {}
      BY DEF Disjoint
    <3>1. CASE b \in index /\ c \in index
      BY <3>1 DEF IndexSound, Disjoint
    <3>2. CASE b = {n} \/ c = {n}
      BY <2>1, <3>2
    <3> QED
      BY <3>1, <3>2
  <2> QED
    BY <1>0, <1>2, <2>2 DEF IndexSound
<1>4. OneListing' /\ Reachable' /\ Present'
  BY <1>2 DEF OneListing, Reachable, Present, Excused
<1> QED
  BY <1>1, <1>3, <1>4

\* The group that leaves memory is in its block.
LEMMA DropGroupInv == ASSUME IInv, DropGroup PROVE IInv'
<1> USE DEF IInv, DropGroup, Drop, readVars
<1>1. TypeOK'
  BY DEF TypeOK
<1>2. IndexSound'
  BY DEF IndexSound, Cold
<1>3. OneListing' /\ Reachable' /\ Present'
  BY DEF OneListing, Reachable, Cold, Present, Excused
<1> QED
  BY <1>1, <1>2, <1>3

\* A merge moves the spans of its inputs, and only those, to its output.
LEMMA CommitMergeInv ==
    ASSUME IInv, NEW K \in SUBSET Blocks, CommitMerge(K) PROVE IInv'
<1> USE DEF IInv, CommitMerge, MergeKeepsInputs, MutexFree, readVars
<1>0. K \subseteq index /\ K # {}
  <2>1. K = {} => Cardinality(K) = 0
    BY FS_EmptySet, Zenon
  <2>2. ~(0 >= 2)
    OBVIOUS
  <2> QED
    BY <2>1, <2>2
<1>a. UNION K \in Blocks
  BY <1>0 DEF Blocks
<1>1. TypeOK'
  <2>1. age' \in [Blocks -> 0 .. Grace]
    BY ReadsAssumption DEF TypeOK
  <2> QED
    BY <2>1, <1>a, <1>0 DEF TypeOK
<1>2. Cold' = Cold
  BY <1>0 DEF Cold
<1>3. IndexSound'
  <2>1. \A b \in index \ K : b \cap UNION K = {}
    BY <1>0 DEF IndexSound, Disjoint
  <2>2. Disjoint(index')
    BY <2>1 DEF IndexSound, Disjoint
  <2> QED
    BY <1>0, <1>2, <2>2 DEF IndexSound
<1>4. OneListing' /\ Reachable'
  BY <1>2 DEF OneListing, Reachable
<1>5. Present'
  <2>1. \A r \in Readers : 0 <= waited[r]
    BY ReadsAssumption DEF TypeOK
  <2>2. \A r \in Readers : todo[r] \cup got[r] \subseteq Blocks
    BY DEF TypeOK
  <2>3. \A b \in Blocks : age'[b] = IF b \in K THEN 0 ELSE age[b]
    OBVIOUS
  <2> QED
    BY <2>1, <2>2, <2>3 DEF Present, Excused
<1> QED
  BY <1>1, <1>3, <1>4, <1>5

\* The sweep takes no listed file, and none that a reader still needs.
LEMMA SweepInv == ASSUME IInv, Sweep PROVE IInv'
<1> USE DEF IInv, Sweep, MutexFree, readVars
<1>1. TypeOK'
  BY DEF TypeOK
<1>2. IndexSound'
  BY DEF IndexSound, Cold
<1>3. OneListing' /\ Reachable'
  BY DEF OneListing, Reachable, Cold
<1>4. Present'
  <2> SUFFICES ASSUME NEW r \in Readers, rpc[r] \in {"open", "scan"}, ~Excused(r), NEW b \in todo[r] \cup got[r]
               PROVE  b \in files'
    BY DEF Present, Excused
  <2>1. b \in files /\ (b \in index \/ age[b] <= waited[r])
    BY DEF Present
  <2>2. waited[r] \in Nat /\ Grace \in Nat /\ age[b] \in Nat
    BY ReadsAssumption DEF TypeOK
  <2> QED
    BY <2>1, <2>2 DEF Excused
<1> QED
  BY <1>1, <1>2, <1>3, <1>4

\* Retention marks what it drops expired, and robs the readers of it.
LEMMA ReclaimInv == ASSUME IInv, NEW S \in SUBSET Blocks, Reclaim(S) PROVE IInv'
<1> USE DEF IInv, Reclaim, MutexFree, readVars
<1>1. TypeOK'
  <2>1. UNION S \subseteq Segs
    BY DEF Blocks
  <2> QED
    BY <2>1 DEF TypeOK
<1>2. Cold \subseteq Cold' \cup UNION S /\ Cold' \subseteq Cold
  BY DEF Cold
<1>3. IndexSound'
  BY <1>2 DEF IndexSound, Disjoint
<1>4. OneListing'
  BY DEF OneListing
<1>5. Reachable'
  BY <1>2 DEF Reachable
<1>6. Present'
  BY DEF Present, Excused, TypeOK
<1> QED
  BY <1>1, <1>3, <1>4, <1>5, <1>6

\* What retention unlinks is not listed any more.
LEMMA UnlinkInv == ASSUME IInv, NEW b \in Blocks, Unlink(b) PROVE IInv'
<1> USE DEF IInv, Unlink, readVars
<1>1. TypeOK'
  BY DEF TypeOK
<1>2. IndexSound'
  BY DEF IndexSound, Cold
<1>3. OneListing' /\ Reachable' /\ Present'
  BY DEF OneListing, Reachable, Cold, Present, Excused
<1> QED
  BY <1>1, <1>2, <1>3

\* A tick ages the un-indexed files and the listings alike.
LEMMA TickInv == ASSUME IInv, Tick PROVE IInv'
<1> USE DEF IInv, Tick, readVars
<1>0. /\ Grace \in Nat
      /\ \A b \in Blocks : age[b] \in 0 .. Grace
      /\ \A r \in Readers : waited[r] \in 0 .. Grace
      /\ \A b \in Blocks : age'[b] = IF b \in files \ index /\ age[b] < Grace THEN age[b] + 1 ELSE age[b]
      /\ \A r \in Readers : waited'[r] = IF waited[r] < Grace THEN waited[r] + 1 ELSE Grace
  BY ReadsAssumption DEF TypeOK
<1>1. TypeOK'
  <2>1. age' \in [Blocks -> 0 .. Grace]
    BY <1>0
  <2>2. waited' \in [Readers -> 0 .. Grace]
    BY <1>0
  <2> QED
    BY <2>1, <2>2 DEF TypeOK
<1>2. IndexSound'
  BY DEF IndexSound, Cold
<1>3. OneListing' /\ Reachable'
  BY DEF OneListing, Reachable, Cold
<1>4. Present'
  <2>1. \A r \in Readers : Excused(r) => Excused(r)'
    BY <1>0 DEF Excused
  <2>2. ASSUME NEW r \in Readers, rpc[r] \in {"open", "scan"}, ~Excused(r)', NEW b \in todo[r] \cup got[r]
        PROVE  b \in files /\ b \notin doomed /\ (b \in index \/ age'[b] <= waited'[r])
    <3>1. b \in Blocks /\ ~Excused(r)
      BY <2>1, <2>2 DEF TypeOK
    <3>2. b \in files /\ b \notin doomed /\ (b \in index \/ age[b] <= waited[r])
      BY <2>2, <3>1 DEF Present
    <3> QED
      BY <1>0, <3>1, <3>2 DEF Excused
  <2> QED
    BY <2>1, <2>2 DEF Present
<1> QED
  BY <1>1, <1>2, <1>3, <1>4

\* No step of the writer, the compactor, retention or the clock breaks it.
LEMMA SystemInv == ASSUME IInv, System PROVE IInv'
BY PublishInv, CommitFlushInv, DropGroupInv, CommitMergeInv, SweepInv, ReclaimInv, UnlinkInv,
   TickInv DEF System

\* A call that begins has read nothing, and is owed what is in memory, which
\* it copies, or in a listed block.
LEMMA RestBeginsInv == ASSUME IInv, NEW r \in Readers, RestBegins(r) PROVE IInv'
<1> USE DEF IInv, RestBegins, Begins, Free, Forget, SnapHot, Goto, storeVars
<1>1. TypeOK'
  BY ColdIsSegs DEF TypeOK
<1>2. IndexSound'
  BY DEF IndexSound, Cold
<1>3. OneListing'
  BY DEF OneListing, Disjoint, TypeOK
<1>4. Reachable'
  BY DEF Reachable, Cold, TypeOK
<1>5. Present'
  BY DEF Present, Excused, TypeOK
<1> QED
  BY <1>1, <1>2, <1>3, <1>4, <1>5

\* A listing is of disjoint blocks, all present.
LEMMA RestListsInv == ASSUME IInv, NEW r \in Readers, RestLists(r) PROVE IInv'
<1> USE DEF IInv, RestLists, List, Goto, storeVars
<1>1. TypeOK'
  BY ReadsAssumption DEF TypeOK
<1>2. IndexSound'
  BY DEF IndexSound, Cold
<1>3. OneListing'
  BY DEF OneListing, IndexSound, TypeOK
<1>4. Reachable'
  BY DEF Reachable, Cold, TypeOK
<1>5. Present'
  BY DEF Present, Excused, IndexSound, OneListing, TypeOK
<1> QED
  BY <1>1, <1>2, <1>3, <1>4, <1>5

\* A SQL query lists as it begins.
LEMMA SqlBeginsInv == ASSUME IInv, NEW r \in Readers, SqlBegins(r) PROVE IInv'
<1> USE DEF IInv, SqlBegins, Begins, Free, Forget, List, Goto, storeVars
<1>1. TypeOK'
  BY ReadsAssumption, ColdIsSegs DEF TypeOK
<1>2. IndexSound'
  BY DEF IndexSound, Cold
<1>3. OneListing'
  BY DEF OneListing, IndexSound, TypeOK
<1>4. Reachable'
  BY DEF Reachable, Cold, TypeOK
<1>5. Present'
  BY DEF Present, Excused, IndexSound, TypeOK
<1> QED
  BY <1>1, <1>2, <1>3, <1>4, <1>5

\* An opened block moves from the listed ones to those read.
LEMMA OpensInv ==
    ASSUME IInv, NEW r \in Readers, NEW b \in Blocks, Opens(r, b) PROVE IInv'
<1> USE DEF IInv, Opens, storeVars
<1>0. todo'[r] \cup got'[r] = todo[r] \cup got[r]
  BY DEF TypeOK
<1>1. TypeOK'
  BY DEF TypeOK
<1>2. IndexSound'
  BY DEF IndexSound, Cold
<1>3. OneListing'
  BY <1>0 DEF OneListing, TypeOK
<1>4. Reachable'
  BY <1>0 DEF Reachable, Cold, TypeOK
<1>5. Present'
  BY DEF Present, Excused, TypeOK
<1> QED
  BY <1>1, <1>2, <1>3, <1>4, <1>5

\* The second listing starts from nothing read: what the first one had is
\* discarded.
LEMMA ListsAgainInv ==
    ASSUME IInv, NEW r \in Readers, NEW b \in Blocks, ListsAgain(r, b) PROVE IInv'
<1> USE DEF IInv, ListsAgain, Discard, Forget, List, storeVars
<1>1. TypeOK'
  BY ReadsAssumption DEF TypeOK
<1>2. IndexSound'
  BY DEF IndexSound, Cold
<1>3. OneListing'
  BY DEF OneListing, IndexSound, TypeOK
<1>4. Reachable'
  BY DEF Reachable, Cold, TypeOK
<1>5. Present'
  BY DEF Present, Excused, IndexSound, TypeOK
<1> QED
  BY <1>1, <1>2, <1>3, <1>4, <1>5

\* A listed file that is gone again has a cause: the grace or retention.
LEMMA GivesUpInv ==
    ASSUME IInv, NEW r \in Readers, NEW b \in Blocks, GivesUp(r, b) PROVE IInv'
<1> USE DEF IInv, GivesUp, Goto, storeVars
<1>1. TypeOK'
  BY DEF TypeOK
<1>2. IndexSound'
  BY DEF IndexSound, Cold
<1>3. OneListing'
  BY DEF OneListing, TypeOK
<1>4. Reachable'
  BY DEF Reachable, Cold, TypeOK
<1>5. Present'
  BY DEF Present, Excused, TypeOK
<1> QED
  BY <1>1, <1>2, <1>3, <1>4, <1>5

\* With nothing left to open, what was read is what was listed.
LEMMA EndsInv ==
    ASSUME IInv, NEW r \in Readers, RestEnds(r) \/ SqlEnds(r) PROVE IInv'
<1> USE DEF IInv, RestEnds, SqlEnds, Goto, storeVars
<1>1. TypeOK'
  BY DEF TypeOK
<1>2. IndexSound'
  BY DEF IndexSound, Cold
<1>3. OneListing'
  BY DEF OneListing, TypeOK
<1>4. Reachable'
  BY DEF Reachable, Cold, TypeOK
<1>5. Present'
  BY DEF Present, Excused, TypeOK
<1> QED
  BY <1>1, <1>2, <1>3, <1>4, <1>5

\* The registered files are those that were found, to be opened again.
LEMMA SqlCopiesHotInv == ASSUME IInv, NEW r \in Readers, SqlCopiesHot(r) PROVE IInv'
<1> USE DEF IInv, SqlCopiesHot, SnapHot, Forget, Goto, storeVars
<1>1. TypeOK'
  BY DEF TypeOK
<1>2. IndexSound'
  BY DEF IndexSound, Cold
<1>3. OneListing'
  BY DEF OneListing, Disjoint, TypeOK
<1>4. Reachable'
  BY DEF Reachable, Cold, TypeOK
<1>5. Present'
  BY DEF Present, Excused, TypeOK
<1> QED
  BY <1>1, <1>2, <1>3, <1>4, <1>5

\* A file the scan finds is read; one that is gone fails the query.
LEMMA SqlScansInv ==
    ASSUME IInv, NEW r \in Readers, NEW b \in Blocks, SqlScans(r, b) PROVE IInv'
<1> USE DEF IInv, SqlScans, Goto, storeVars
<1>0. todo'[r] \cup got'[r] \subseteq todo[r] \cup got[r]
  BY DEF TypeOK
<1>1. TypeOK'
  BY DEF TypeOK
<1>2. IndexSound'
  BY DEF IndexSound, Cold
<1>3. OneListing'
  BY <1>0 DEF OneListing, Disjoint, TypeOK
<1>4. Reachable'
  BY DEF Reachable, Cold, TypeOK
<1>5. Present'
  BY <1>0 DEF Present, Excused, TypeOK
<1> QED
  BY <1>1, <1>2, <1>3, <1>4, <1>5

\* No step of a reader breaks it.
LEMMA ReadInv == ASSUME IInv, NEW r \in Readers, Read(r) PROVE IInv'
BY RestBeginsInv, RestListsInv, SqlBeginsInv, OpensInv, ListsAgainInv, GivesUpInv, EndsInv,
   SqlCopiesHotInv, SqlScansInv DEF Read

\* Reads keeps the invariant: the index and its files, memory, and what each
\* reader has listed, read and is owed fit together at every step.
THEOREM Invariance == Spec => []IInv
<1>1. IInv /\ [Next]_vars => IInv'
  <2> SUFFICES ASSUME IInv, [Next]_vars PROVE IInv'
    OBVIOUS
  <2>1. CASE System
    BY <2>1, SystemInv
  <2>2. CASE \E r \in Readers : Read(r)
    BY <2>2, ReadInv
  <2>3. CASE UNCHANGED vars
    BY <2>3 DEF vars, storeVars, readVars, IInv, TypeOK, IndexSound, Cold, OneListing, Reachable,
                Present, Excused
  <2> QED
    BY <2>1, <2>2, <2>3 DEF Next
<1> QED
  BY <1>1, InitInv, PTL DEF Spec

\* Store::query returns every span stored when it began that retention has not
\* dropped since, and none from two blocks, for any readers beside any flushes,
\* merges, sweeps and retries.
THEOREM ReadsAreWhole == Spec => []RestReadsComplete
<1>1. IInv => RestReadsComplete
  BY DEF IInv, OneListing, Disjoint, Reachable, RestReadsComplete, NothingCountedTwice,
         NothingMissed, Answer
<1> QED
  BY <1>1, Invariance, PTL

\* A read fails only when it outlived MergePolicy::unlink_grace after its last
\* listing, or retention dropped a block it had listed.
THEOREM FailuresHaveACause == Spec => []FailsForCause
<1>1. IInv => FailsForCause
  BY DEF IInv, Present, Excused, FailsForCause
<1> QED
  BY <1>1, Invariance, PTL
=============================================================================
