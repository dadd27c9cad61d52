---------------------------- MODULE StoreProofs ----------------------------
(***************************************************************************)
(* Proofs about Store, for any spans, requests, hours, thresholds and      *)
(* bounds, and for every subset of I/O faults but one: a frame torn in the *)
(* middle of a segment, under which durability fails (see the README).     *)
(* Types first; then the inductive invariant, and the safety properties it *)
(* implies; then the refinement of SpanLog.                                *)
(***************************************************************************)
EXTENDS Store, FoldFacts, SequenceTheorems

\* What a request appends are records.
LEMMA RecordsOfType == ASSUME NEW r \in Requests PROVE RecordsOf(r) \subseteq Records
BY DataAssumption DEF RecordsOf, Records

\* The bounds are numbers.
LEMMA BoundsAreNat ==
    /\ ChannelCap \in Nat /\ GroupMax \in Nat /\ SealThreshold \in Nat
    /\ MaxSeqno \in Nat /\ MaxCrashes \in Nat /\ MaxFaults \in Nat
BY BoundsAssumption

\* A request appends a number of spans: batches are finite.
LEMMA BatchCount == \A r \in Requests : Cardinality(Batch[r]) \in Nat
<1> SUFFICES ASSUME NEW r \in Requests PROVE Cardinality(Batch[r]) \in Nat
  OBVIOUS
<1>1. IsFiniteSet(Batch[r])
  BY DataAssumption
<1>2. \A S : IsFiniteSet(S) => Cardinality(S) \in Nat
  BY FS_CardinalityType, Zenon
<1> QED
  BY <1>1, <1>2

\* The spans of a set of records are spans.
LEMMA SpansOfRecords == ASSUME NEW R \in SUBSET Records PROVE SpansIn(R) \subseteq Spans
<1> SUFFICES ASSUME NEW rec \in R PROVE rec[2] \in Spans
  BY DEF SpansIn
<1> QED
  BY DEF Records

\* Every group is partitioned by hours of the cold tier.
LEMMA HoursAreHours == TypeOK => \A n \in Seqnos : HoursIn(n) \subseteq Hours
<1> SUFFICES ASSUME TypeOK, NEW n \in Seqnos, NEW s \in SpansIn(hot[n])
             PROVE  HourOf[s] \in Hours
  BY DEF HoursIn
<1>1. hot[n] \in SUBSET Records
  BY DEF TypeOK
<1>2. s \in Spans
  BY <1>1, SpansOfRecords
<1> QED
  BY <1>2, DataAssumption

\* Every block holds spans.
LEMMA BlocksAreSpans ==
    TypeOK => \A n \in Seqnos, h \in Hours : BlockOf(n, h) \subseteq Spans
<1> SUFFICES ASSUME TypeOK, NEW n \in Seqnos, NEW h \in Hours
             PROVE  BlockOf(n, h) \subseteq Spans
  OBVIOUS
<1>1. hot[n] \in SUBSET Records
  BY DEF TypeOK
<1> QED
  BY <1>1, SpansOfRecords DEF BlockOf

\* Rotating the log, or failing to, leaves well-typed segment files.
LEMMA RotationTypes ==
    ASSUME TypeOK, Rotate \/ RotateFails
    PROVE  /\ walFiles' \in SUBSET Seqnos /\ active' \in 0 .. MaxSeqno /\ count' \in Nat
           /\ active # 0 => active' # 0
           /\ faults' \in Nat
<1>1. active + 1 \in Seqnos /\ active + 1 \in 0 .. MaxSeqno
  BY BoundsAreNat DEF TypeOK, ProcTypes, Seqnos, Rotate, RotateFails
<1>2. walFiles' \in SUBSET Seqnos
  BY <1>1 DEF TypeOK, DiskTypes, Rotate, RotateFails
<1> QED
  BY <1>1, <1>2 DEF TypeOK, ProcTypes, GhostTypes, Rotate, RotateFails, Fault

\* An empty data directory is well typed.
LEMMA InitType == Init => TypeOK
<1> SUFFICES ASSUME Init PROVE TypeOK
  OBVIOUS
<1>1. ProcTypes
  <2>1. queue \in Seq(Requests \cup {Seal})
    BY DEF Init
  <2>2. group \subseteq Requests /\ pend \subseteq Requests /\ sealReq \in BOOLEAN
    BY DEF Init
  <2>3. active \in 0 .. MaxSeqno /\ count \in Nat
    BY BoundsAreNat DEF Init
  <2> QED
    BY <2>1, <2>2, <2>3 DEF Init, ProcTypes
<1>2. CompTypes /\ TaskLocals
  BY BoundsAreNat DEF Init, CompTypes, TaskLocals
<1>3. DiskTypes
  BY BoundsAreNat DEF Init, DiskTypes, Empty
<1>4. GhostTypes
  BY BoundsAreNat DEF Init, GhostTypes
<1> QED
  BY <1>1, <1>2, <1>3, <1>4 DEF Init, Empty, TypeOK

\* Client steps keep every variable in its type.
LEMMA ClientsType == TypeOK /\ Clients => TypeOK'
<1> SUFFICES ASSUME TypeOK, Clients PROVE TypeOK'
  OBVIOUS
<1> USE DEF TypeOK, procVars, compVars, walVars, coldVars, ghostVars
<1>1. CASE SealNow
  <2>1. ProcTypes' /\ (hot \in [Seqnos -> SUBSET Records])'
    BY <1>1 DEF SealNow, ProcTypes, TaskLocals
  <2>2. CompTypes' /\ TaskLocals'
    BY <1>1 DEF SealNow, ProcTypes, CompTypes, TaskLocals
  <2>3. DiskTypes'
    BY <1>1 DEF SealNow, ProcTypes, CompTypes, TaskLocals, DiskTypes
  <2>4. GhostTypes'
    BY <1>1 DEF SealNow, ProcTypes, GhostTypes
  <2> QED
    BY <2>1, <2>2, <2>3, <2>4
<1>2. ASSUME NEW r \in Requests, Send(r) PROVE TypeOK'
  <2>1. ProcTypes' /\ (hot \in [Seqnos -> SUBSET Records])'
    BY <1>2 DEF Send, Answer, ProcTypes, TaskLocals
  <2>2. CompTypes' /\ TaskLocals'
    BY <1>2 DEF Send, Answer, ProcTypes, CompTypes, TaskLocals
  <2>3. DiskTypes'
    BY <1>2 DEF Send, Answer, ProcTypes, CompTypes, TaskLocals, DiskTypes
  <2>4. GhostTypes'
    BY <1>2 DEF Send, Answer, ProcTypes, GhostTypes
  <2> QED
    BY <2>1, <2>2, <2>3, <2>4
<1>3. ASSUME NEW r \in Requests, Refuse(r) PROVE TypeOK'
  <2>1. ProcTypes' /\ (hot \in [Seqnos -> SUBSET Records])'
    BY <1>3 DEF Refuse, Answer, Fault, ProcTypes, TaskLocals
  <2>2. CompTypes' /\ TaskLocals'
    BY <1>3 DEF Refuse, Answer, Fault, ProcTypes, CompTypes, TaskLocals
  <2>3. DiskTypes'
    BY <1>3 DEF Refuse, Answer, Fault, ProcTypes, CompTypes, TaskLocals, DiskTypes
  <2>4. GhostTypes'
    BY <1>3 DEF Refuse, Answer, Fault, ProcTypes, GhostTypes
  <2> QED
    BY <2>1, <2>2, <2>3, <2>4
<1> QED
  BY <1>1, <1>2, <1>3 DEF Clients

\* So does the writer task.
LEMMA WriterType == TypeOK /\ Writer => TypeOK'
<1> SUFFICES ASSUME TypeOK, Writer PROVE TypeOK'
  OBVIOUS
<1> USE DEF TypeOK, procVars, compVars, walVars, coldVars, ghostVars
<1>1. CASE DrainGroup
  <2>1. ProcTypes' /\ (hot \in [Seqnos -> SUBSET Records])'
    BY <1>1 DEF DrainGroup, Answer, AfterGroup, ProcTypes, TaskLocals
  <2>2. CompTypes' /\ TaskLocals'
    BY <1>1 DEF DrainGroup, Answer, AfterGroup, ProcTypes, CompTypes, TaskLocals
  <2>3. DiskTypes'
    BY <1>1 DEF DrainGroup, Answer, AfterGroup, ProcTypes, CompTypes, TaskLocals,
         DiskTypes
  <2>4. GhostTypes'
    BY <1>1 DEF DrainGroup, Answer, AfterGroup, ProcTypes, GhostTypes
  <2> QED
    BY <2>1, <2>2, <2>3, <2>4
<1>2. CASE GroupFailed
  <2>1. ProcTypes' /\ (hot \in [Seqnos -> SUBSET Records])'
    BY <1>2 DEF GroupFailed, ProcTypes, TaskLocals
  <2>2. CompTypes' /\ TaskLocals'
    BY <1>2 DEF GroupFailed, ProcTypes, CompTypes, TaskLocals
  <2>3. DiskTypes'
    BY <1>2 DEF GroupFailed, ProcTypes, CompTypes, TaskLocals, DiskTypes
  <2>4. GhostTypes'
    BY <1>2 DEF GroupFailed, ProcTypes, GhostTypes
  <2> QED
    BY <2>1, <2>2, <2>3, <2>4
<1>3. CASE SyncGroup
  <2>1. ProcTypes' /\ (hot \in [Seqnos -> SUBSET Records])'
    BY <1>3 DEF SyncGroup, Fsync, ProcTypes, TaskLocals
  <2>2. CompTypes' /\ TaskLocals'
    BY <1>3 DEF SyncGroup, Fsync, ProcTypes, CompTypes, TaskLocals
  <2>3. DiskTypes'
    BY <1>3 DEF SyncGroup, Fsync, ProcTypes, CompTypes, TaskLocals, DiskTypes
  <2>4. GhostTypes'
    BY <1>3 DEF SyncGroup, Fsync, ProcTypes, GhostTypes
  <2> QED
    BY <2>1, <2>2, <2>3, <2>4
<1>4. CASE SyncFails
  <2>1. ProcTypes' /\ (hot \in [Seqnos -> SUBSET Records])'
    BY <1>4 DEF SyncFails, Fault, Answer, ProcTypes, TaskLocals
  <2>2. CompTypes' /\ TaskLocals'
    BY <1>4 DEF SyncFails, Fault, Answer, ProcTypes, CompTypes, TaskLocals
  <2>3. DiskTypes'
    BY <1>4 DEF SyncFails, Fault, Answer, ProcTypes, CompTypes, TaskLocals,
         DiskTypes
  <2>4. GhostTypes'
    BY <1>4 DEF SyncFails, Fault, Answer, ProcTypes, GhostTypes
  <2> QED
    BY <2>1, <2>2, <2>3, <2>4
<1>5. CASE SealFull
  <2>1. ProcTypes' /\ (hot \in [Seqnos -> SUBSET Records])'
    BY <1>5, RotationTypes DEF SealFull, ProcTypes, TaskLocals
  <2>2. CompTypes' /\ TaskLocals'
    BY <1>5, RotationTypes DEF SealFull, ProcTypes, CompTypes, TaskLocals
  <2>3. DiskTypes'
    BY <1>5, RotationTypes DEF SealFull, ProcTypes, CompTypes, TaskLocals, DiskTypes
  <2>4. GhostTypes'
    BY <1>5, RotationTypes DEF SealFull, ProcTypes, GhostTypes
  <2> QED
    BY <2>1, <2>2, <2>3, <2>4
<1>6. CASE SealCommand
  <2>1. ProcTypes' /\ (hot \in [Seqnos -> SUBSET Records])'
    BY <1>6, RotationTypes DEF SealCommand, ProcTypes, TaskLocals
  <2>2. CompTypes' /\ TaskLocals'
    BY <1>6, RotationTypes DEF SealCommand, ProcTypes, CompTypes, TaskLocals
  <2>3. DiskTypes'
    BY <1>6, RotationTypes DEF SealCommand, ProcTypes, CompTypes, TaskLocals,
         DiskTypes
  <2>4. GhostTypes'
    BY <1>6, RotationTypes DEF SealCommand, ProcTypes, GhostTypes
  <2> QED
    BY <2>1, <2>2, <2>3, <2>4
<1>7. ASSUME NEW r \in Requests, WriteRequest(r) PROVE TypeOK'
  <2>1. ProcTypes' /\ (hot \in [Seqnos -> SUBSET Records])'
    BY <1>7, BatchCount, RecordsOfType DEF WriteRequest, ProcTypes, TaskLocals
  <2>2. CompTypes' /\ TaskLocals'
    BY <1>7, BatchCount, RecordsOfType DEF WriteRequest, ProcTypes, CompTypes,
         TaskLocals
  <2>3. DiskTypes'
    BY <1>7, BatchCount, RecordsOfType DEF WriteRequest, ProcTypes, CompTypes,
         TaskLocals, DiskTypes
  <2>4. GhostTypes'
    BY <1>7, BatchCount, RecordsOfType DEF WriteRequest, ProcTypes, GhostTypes
  <2> QED
    BY <2>1, <2>2, <2>3, <2>4
<1>8. ASSUME NEW r \in Requests, WriteFails(r) PROVE TypeOK'
  <2>1. ProcTypes' /\ (hot \in [Seqnos -> SUBSET Records])'
    BY <1>8, RecordsOfType DEF WriteFails, Fault, Answer, ProcTypes, TaskLocals
  <2>2. CompTypes' /\ TaskLocals'
    BY <1>8, RecordsOfType DEF WriteFails, Fault, Answer, ProcTypes, CompTypes,
         TaskLocals
  <2>3. DiskTypes'
    <3>1. active \in Seqnos
      BY <1>8, BoundsAreNat DEF WriteFails, ProcTypes, TaskLocals, Seqnos
    <3>2. torn' \subseteq Seqnos
      BY <1>8, <3>1 DEF WriteFails, DiskTypes
    <3>3. dirty' \in [Seqnos -> SUBSET Records]
      <4>1. CASE UNCHANGED dirty
        BY <4>1 DEF DiskTypes
      <4>2. ASSUME NEW whole \in SUBSET RecordsOf(r),
                   dirty' = [dirty EXCEPT ![active] = @ \cup whole]
            PROVE  dirty' \in [Seqnos -> SUBSET Records]
        BY <4>2, RecordsOfType DEF DiskTypes
      <4> QED
        BY <1>8, <4>1, <4>2 DEF WriteFails
    <3> QED
      BY <1>8, <3>2, <3>3 DEF WriteFails, DiskTypes
  <2>4. GhostTypes'
    BY <1>8, RecordsOfType DEF WriteFails, Fault, Answer, ProcTypes, GhostTypes
  <2> QED
    BY <2>1, <2>2, <2>3, <2>4
<1>9. ASSUME NEW r \in Requests, PublishRequest(r) PROVE TypeOK'
  <2>1. ProcTypes' /\ (hot \in [Seqnos -> SUBSET Records])'
    BY <1>9, RecordsOfType DEF PublishRequest, Answer, ProcTypes, TaskLocals
  <2>2. CompTypes' /\ TaskLocals'
    BY <1>9, RecordsOfType DEF PublishRequest, Answer, ProcTypes, CompTypes,
         TaskLocals
  <2>3. DiskTypes'
    BY <1>9, RecordsOfType DEF PublishRequest, Answer, ProcTypes, CompTypes,
         TaskLocals, DiskTypes
  <2>4. GhostTypes'
    BY <1>9, RecordsOfType DEF PublishRequest, Answer, ProcTypes, GhostTypes
  <2> QED
    BY <2>1, <2>2, <2>3, <2>4
<1> QED
  BY <1>1, <1>2, <1>3, <1>4, <1>5, <1>6, <1>7, <1>8, <1>9 DEF Writer

\* So does the compactor.
LEMMA CompactorType == TypeOK /\ Compactor => TypeOK'
<1> SUFFICES ASSUME TypeOK, Compactor PROVE TypeOK'
  OBVIOUS
<1> USE DEF TypeOK, procVars, compVars, walVars, coldVars, ghostVars
<1>1. CASE StartPass
  <2>1. ProcTypes' /\ (hot \in [Seqnos -> SUBSET Records])'
    BY <1>1, BoundsAreNat DEF StartPass, NextSegment, Pending, Seqnos, ProcTypes,
         TaskLocals
  <2>2. CompTypes' /\ TaskLocals'
    BY <1>1, BoundsAreNat DEF StartPass, NextSegment, Pending, Seqnos, ProcTypes,
         CompTypes, TaskLocals
  <2>3. DiskTypes'
    BY <1>1, BoundsAreNat DEF StartPass, NextSegment, Pending, Seqnos, ProcTypes,
         CompTypes, TaskLocals, DiskTypes
  <2>4. GhostTypes'
    BY <1>1, BoundsAreNat DEF StartPass, NextSegment, Pending, Seqnos, ProcTypes,
         GhostTypes
  <2> QED
    BY <2>1, <2>2, <2>3, <2>4
<1>2. CASE WriteBlockFails
  <2>1. ProcTypes' /\ (hot \in [Seqnos -> SUBSET Records])'
    BY <1>2, BoundsAreNat DEF WriteBlockFails, AbortPass, Fault, ProcTypes,
         TaskLocals
  <2>2. CompTypes' /\ TaskLocals'
    BY <1>2, BoundsAreNat DEF WriteBlockFails, AbortPass, Fault, ProcTypes,
         CompTypes, TaskLocals
  <2>3. DiskTypes'
    BY <1>2, BoundsAreNat DEF WriteBlockFails, AbortPass, Fault, ProcTypes,
         CompTypes, TaskLocals, DiskTypes
  <2>4. GhostTypes'
    BY <1>2, BoundsAreNat DEF WriteBlockFails, AbortPass, Fault, ProcTypes,
         GhostTypes
  <2> QED
    BY <2>1, <2>2, <2>3, <2>4
<1>3. CASE CommitFlush
  <2>1. ProcTypes' /\ (hot \in [Seqnos -> SUBSET Records])'
    BY <1>3, HoursAreHours, BoundsAreNat DEF CommitFlush, IndexFlush, Blocks,
         Seqnos, ProcTypes, TaskLocals
  <2>2. CompTypes' /\ TaskLocals'
    BY <1>3, HoursAreHours, BoundsAreNat DEF CommitFlush, IndexFlush, Blocks,
         Seqnos, ProcTypes, CompTypes, TaskLocals
  <2>3. DiskTypes'
    BY <1>3, HoursAreHours, BoundsAreNat DEF CommitFlush, IndexFlush, Blocks,
         Seqnos, ProcTypes, CompTypes, TaskLocals, DiskTypes
  <2>4. GhostTypes'
    BY <1>3, HoursAreHours, BoundsAreNat DEF CommitFlush, IndexFlush, Blocks,
         Seqnos, ProcTypes, GhostTypes
  <2> QED
    BY <2>1, <2>2, <2>3, <2>4
<1>4. CASE CommitFails
  <2>1. ProcTypes' /\ (hot \in [Seqnos -> SUBSET Records])'
    BY <1>4, BoundsAreNat DEF CommitFails, AbortPass, Fault, ProcTypes, TaskLocals
  <2>2. CompTypes' /\ TaskLocals'
    BY <1>4, BoundsAreNat DEF CommitFails, AbortPass, Fault, ProcTypes, CompTypes,
         TaskLocals
  <2>3. DiskTypes'
    BY <1>4, BoundsAreNat DEF CommitFails, AbortPass, Fault, ProcTypes, CompTypes,
         TaskLocals, DiskTypes
  <2>4. GhostTypes'
    BY <1>4, BoundsAreNat DEF CommitFails, AbortPass, Fault, ProcTypes, GhostTypes
  <2> QED
    BY <2>1, <2>2, <2>3, <2>4
<1>5. CASE DeleteSegment
  <2>1. ProcTypes' /\ (hot \in [Seqnos -> SUBSET Records])'
    BY <1>5 DEF DeleteSegment, Truncate, ProcTypes, TaskLocals
  <2>2. CompTypes' /\ TaskLocals'
    BY <1>5 DEF DeleteSegment, Truncate, ProcTypes, CompTypes, TaskLocals
  <2>3. DiskTypes'
    BY <1>5 DEF DeleteSegment, Truncate, ProcTypes, CompTypes, TaskLocals, DiskTypes
  <2>4. GhostTypes'
    BY <1>5 DEF DeleteSegment, Truncate, ProcTypes, GhostTypes
  <2> QED
    BY <2>1, <2>2, <2>3, <2>4
<1>6. CASE DeleteFails
  <2>1. ProcTypes' /\ (hot \in [Seqnos -> SUBSET Records])'
    BY <1>6, BoundsAreNat DEF DeleteFails, AbortPass, Fault, ProcTypes, TaskLocals
  <2>2. CompTypes' /\ TaskLocals'
    BY <1>6, BoundsAreNat DEF DeleteFails, AbortPass, Fault, ProcTypes, CompTypes,
         TaskLocals
  <2>3. DiskTypes'
    BY <1>6, BoundsAreNat DEF DeleteFails, AbortPass, Fault, ProcTypes, CompTypes,
         TaskLocals, DiskTypes
  <2>4. GhostTypes'
    BY <1>6, BoundsAreNat DEF DeleteFails, AbortPass, Fault, ProcTypes, GhostTypes
  <2> QED
    BY <2>1, <2>2, <2>3, <2>4
<1>7. CASE DropGroup
  <2>1. ProcTypes' /\ (hot \in [Seqnos -> SUBSET Records])'
    BY <1>7, BoundsAreNat DEF DropGroup, DropSegment, NextSegment, Seqnos,
         ProcTypes, TaskLocals
  <2>2. CompTypes' /\ TaskLocals'
    <3>1. CASE plan = {}
      BY <1>7, <3>1, BoundsAreNat DEF DropGroup, NextSegment, CompTypes, TaskLocals
    <3>2. ASSUME NEW n \in plan, cpc' = "blocks", plan' = plan \ {n}, cur' = n
          PROVE  CompTypes' /\ TaskLocals'
      <4>1. n \in 0 .. MaxSeqno /\ n # 0
        BY BoundsAreNat DEF CompTypes, Seqnos
      <4> QED
        BY <1>7, <3>2, <4>1 DEF DropGroup, CompTypes, TaskLocals
    <3> QED
      BY <1>7, <3>1, <3>2 DEF DropGroup, NextSegment
  <2>3. DiskTypes'
    BY <1>7, BoundsAreNat DEF DropGroup, DropSegment, NextSegment, Seqnos,
         ProcTypes, CompTypes, TaskLocals, DiskTypes
  <2>4. GhostTypes'
    BY <1>7, BoundsAreNat DEF DropGroup, DropSegment, NextSegment, Seqnos,
         ProcTypes, GhostTypes
  <2> QED
    BY <2>1, <2>2, <2>3, <2>4
<1>8. ASSUME NEW h \in Hours, WriteBlock(h) PROVE TypeOK'
  <2>1. ProcTypes' /\ (hot \in [Seqnos -> SUBSET Records])'
    BY <1>8, BlocksAreSpans DEF WriteBlock, Blocks, Seqnos, ProcTypes, TaskLocals
  <2>2. CompTypes' /\ TaskLocals'
    BY <1>8, BlocksAreSpans DEF WriteBlock, Blocks, Seqnos, ProcTypes, CompTypes,
         TaskLocals
  <2>3. DiskTypes'
    BY <1>8, BlocksAreSpans DEF WriteBlock, Blocks, Seqnos, ProcTypes, CompTypes,
         TaskLocals, DiskTypes
  <2>4. GhostTypes'
    BY <1>8, BlocksAreSpans DEF WriteBlock, Blocks, Seqnos, ProcTypes, GhostTypes
  <2> QED
    BY <2>1, <2>2, <2>3, <2>4
<1> QED
  BY <1>1, <1>2, <1>3, <1>4, <1>5, <1>6, <1>7, <1>8 DEF Compactor

\* So does the retention sweep.
LEMMA RetentionType == TypeOK /\ Retention => TypeOK'
<1> SUFFICES ASSUME TypeOK, Retention PROVE TypeOK'
  OBVIOUS
<1> USE DEF TypeOK, procVars, compVars, walVars, coldVars, ghostVars
<1>1. ASSUME NEW c \in Hours \cup {h + 1 : h \in Hours}, Reclaim(c) PROVE TypeOK'
  <2>1. ProcTypes' /\ (hot \in [Seqnos -> SUBSET Records])'
    BY <1>1 DEF Reclaim, ProcTypes, TaskLocals
  <2>2. CompTypes' /\ TaskLocals'
    BY <1>1 DEF Reclaim, ProcTypes, CompTypes, TaskLocals, DiskTypes
  <2>3. DiskTypes'
    BY <1>1 DEF Reclaim, ProcTypes, CompTypes, TaskLocals, DiskTypes
  <2>4. GhostTypes'
    BY <1>1 DEF Reclaim, ProcTypes, GhostTypes, DiskTypes
  <2> QED
    BY <2>1, <2>2, <2>3, <2>4
<1>2. ASSUME NEW b \in Blocks, Unlink(b) PROVE TypeOK'
  <2>1. ProcTypes' /\ (hot \in [Seqnos -> SUBSET Records])'
    BY <1>2 DEF Unlink, ProcTypes, TaskLocals
  <2>2. CompTypes' /\ TaskLocals'
    BY <1>2 DEF Unlink, ProcTypes, CompTypes, TaskLocals
  <2>3. DiskTypes'
    BY <1>2 DEF Unlink, ProcTypes, CompTypes, TaskLocals, DiskTypes
  <2>4. GhostTypes'
    BY <1>2 DEF Unlink, ProcTypes, GhostTypes
  <2> QED
    BY <2>1, <2>2, <2>3, <2>4
<1>3. CASE UnlinkFails
  <2>1. ProcTypes' /\ (hot \in [Seqnos -> SUBSET Records])'
    BY <1>3 DEF UnlinkFails, Fault, ProcTypes, TaskLocals
  <2>2. CompTypes' /\ TaskLocals'
    BY <1>3 DEF UnlinkFails, Fault, ProcTypes, CompTypes, TaskLocals
  <2>3. DiskTypes'
    BY <1>3 DEF UnlinkFails, Fault, ProcTypes, CompTypes, TaskLocals, DiskTypes
  <2>4. GhostTypes'
    BY <1>3 DEF UnlinkFails, Fault, ProcTypes, GhostTypes
  <2> QED
    BY <2>1, <2>2, <2>3, <2>4
<1> QED
  BY <1>1, <1>2, <1>3 DEF Retention

\* So does a crash.
LEMMA CrashType == TypeOK /\ Crash => TypeOK'
<1> SUFFICES ASSUME TypeOK, Crash PROVE TypeOK'
  OBVIOUS
<1> USE DEF TypeOK, procVars, compVars, walVars, coldVars, ghostVars
<1>1. CASE Crash
  <2>1. ProcTypes' /\ (hot \in [Seqnos -> SUBSET Records])'
    <3>1. queue' \in Seq(Requests \cup {Seal})
      BY <1>1 DEF Crash
    <3>2. /\ group' \subseteq Requests /\ pend' \subseteq Requests
          /\ sealReq' \in BOOLEAN
      BY <1>1 DEF Crash
    <3>3. active' \in 0 .. MaxSeqno /\ count' \in Nat
      BY <1>1, BoundsAreNat DEF Crash
    <3> QED
      BY <1>1, <3>1, <3>2, <3>3 DEF Crash, Empty, ProcTypes
  <2>2. CompTypes' /\ TaskLocals'
    BY <1>1, BoundsAreNat DEF Crash, Answer, Empty, Seqnos, ProcTypes, CompTypes,
         TaskLocals
  <2>3. DiskTypes'
    BY <1>1, BoundsAreNat DEF Crash, Answer, Empty, Seqnos, ProcTypes, CompTypes,
         TaskLocals, DiskTypes
  <2>4. GhostTypes'
    BY <1>1, BoundsAreNat DEF Crash, Answer, Empty, Seqnos, ProcTypes, GhostTypes
  <2> QED
    BY <2>1, <2>2, <2>3, <2>4
<1> QED
  BY <1>1 DEF Crash

\* So does recovery.
LEMMA OpenType == TypeOK /\ Open => TypeOK'
<1> SUFFICES ASSUME TypeOK, Open PROVE TypeOK'
  OBVIOUS
<1> USE DEF TypeOK, procVars, compVars, walVars, coldVars, ghostVars
<1>1. CASE OpenLoads
  <2>1. ProcTypes' /\ (hot \in [Seqnos -> SUBSET Records])'
    BY <1>1, BoundsAreNat DEF OpenLoads, Seqnos, ProcTypes, TaskLocals, DiskTypes
  <2>2. CompTypes' /\ TaskLocals'
    <3>1. active' # 0
      <4>1. PICK m \in walFiles \cup {watermark} : active' = m + 1
        BY <1>1 DEF OpenLoads
      <4>2. m \in Nat
        BY BoundsAreNat DEF DiskTypes, Seqnos
      <4> QED
        BY <4>1, <4>2
    <3> QED
      BY <1>1, <3>1 DEF OpenLoads, CompTypes, TaskLocals
  <2>3. DiskTypes'
    BY <1>1, BoundsAreNat DEF OpenLoads, Seqnos, ProcTypes, CompTypes, TaskLocals,
         DiskTypes
  <2>4. GhostTypes'
    BY <1>1, BoundsAreNat DEF OpenLoads, Seqnos, ProcTypes, GhostTypes
  <2> QED
    BY <2>1, <2>2, <2>3, <2>4
<1>2. CASE OpenDone
  <2>1. ProcTypes' /\ (hot \in [Seqnos -> SUBSET Records])'
    BY <1>2, BoundsAreNat DEF OpenDone, Seqnos, ProcTypes, TaskLocals
  <2>2. CompTypes' /\ TaskLocals'
    BY <1>2, BoundsAreNat DEF OpenDone, Seqnos, ProcTypes, CompTypes, TaskLocals
  <2>3. DiskTypes'
    BY <1>2, BoundsAreNat DEF OpenDone, Seqnos, ProcTypes, CompTypes, TaskLocals,
         DiskTypes
  <2>4. GhostTypes'
    BY <1>2, BoundsAreNat DEF OpenDone, Seqnos, ProcTypes, GhostTypes
  <2> QED
    BY <2>1, <2>2, <2>3, <2>4
<1>3. ASSUME NEW n \in Seqnos, OpenDeletes(n) PROVE TypeOK'
  <2>1. ProcTypes' /\ (hot \in [Seqnos -> SUBSET Records])'
    BY <1>3 DEF OpenDeletes, ProcTypes, TaskLocals
  <2>2. CompTypes' /\ TaskLocals'
    BY <1>3 DEF OpenDeletes, ProcTypes, CompTypes, TaskLocals
  <2>3. DiskTypes'
    BY <1>3 DEF OpenDeletes, ProcTypes, CompTypes, TaskLocals, DiskTypes
  <2>4. GhostTypes'
    BY <1>3 DEF OpenDeletes, ProcTypes, GhostTypes
  <2> QED
    BY <2>1, <2>2, <2>3, <2>4
<1>4. ASSUME NEW b \in Blocks, OpenSweeps(b) PROVE TypeOK'
  <2>1. ProcTypes' /\ (hot \in [Seqnos -> SUBSET Records])'
    BY <1>4 DEF OpenSweeps, ProcTypes, TaskLocals
  <2>2. CompTypes' /\ TaskLocals'
    BY <1>4 DEF OpenSweeps, ProcTypes, CompTypes, TaskLocals
  <2>3. DiskTypes'
    BY <1>4 DEF OpenSweeps, ProcTypes, CompTypes, TaskLocals, DiskTypes
  <2>4. GhostTypes'
    BY <1>4 DEF OpenSweeps, ProcTypes, GhostTypes
  <2> QED
    BY <2>1, <2>2, <2>3, <2>4
<1> QED
  BY <1>1, <1>2, <1>3, <1>4 DEF Open

\* So does every step.
LEMMA StepType == TypeOK /\ [Next]_vars => TypeOK'
<1> SUFFICES ASSUME TypeOK, [Next]_vars PROVE TypeOK'
  OBVIOUS
<1>1. CASE UNCHANGED vars
  BY <1>1 DEF vars, procVars, compVars, walVars, coldVars, ghostVars, TypeOK,
       ProcTypes, CompTypes, DiskTypes, GhostTypes, TaskLocals
<1> QED
  BY <1>1, ClientsType, WriterType, CompactorType, RetentionType, CrashType,
     OpenType
     DEF Next

\* Every variable keeps its type, and the tasks their shape, for any constants.
THEOREM TypeCorrect == Spec => []TypeOK
<1> QED
  BY InitType, StepType, PTL DEF Spec

----------------------------------------------------------------------------
(***************************************************************************)
(* The inductive invariant. An acknowledged record has one address, decided *)
(* by the watermark: its segment file above it, the committed block of its *)
(* partition at or below it. Every step moves the watermark, the files or the *)
(* address together.                                                       *)
(***************************************************************************)

\* The address of record <<r, s>> of segment n.
InSegment(n, r, s) == n > watermark /\ n \in walFiles /\ <<r, s>> \in good[n]
InBlock(n, s) == n <= watermark /\ <<n, HourOf[s]>> \in index /\ s \in files[<<n, HourOf[s]>>]
Expired(n, s) == n <= watermark /\ <<n, HourOf[s]>> \in expired

\* Every acknowledged record is at its address, or retention dropped it.
Located ==
    \A r \in Requests : home[r] # 0 =>
        \A s \in Batch[r] :
            InSegment(home[r], r, s) \/ InBlock(home[r], s) \/ Expired(home[r], s)

\* While the process runs, those of segments not yet committed are in memory,
\* so the compactor's blocks will hold them.
Resident ==
    phase # "down" =>
        \A r \in Requests : home[r] > watermark => RecordsOf(r) \subseteq hot[home[r]]

\* The requests awaiting the fsync are in the file, those awaiting their ACK
\* are on the disk.
Pended ==
    \A r \in pend : RecordsOf(r) \subseteq good[active] \cup
                                           (IF wpc = "publish" THEN {} ELSE dirty[active])

\* The active segment is never one that recovery would delete.
ActiveIsLive ==
    /\ phase # "down" => active > watermark
    /\ phase = "up" => active \in walFiles

\* A flush pass works below the active segment, lowest segment first, and
\* leaves no older group behind when it moves the watermark.
PassInOrder ==
    cpc \in {"blocks", "unlink", "drop"} =>
        /\ cur < active
        /\ cpc = "blocks" => cur > watermark
        /\ cpc # "blocks" => cur = watermark
        /\ \A m \in plan : cur < m /\ m < active
        /\ \A n \in Seqnos : hot[n] # {} /\ n > watermark =>
              n \in plan \cup {cur} \/ (n > cur /\ \A m \in plan : n > m)

\* Blocks being unlinked are out of the index.
DoomedUnlisted == doomed \cap index = {}

\* The inductive invariant.
IInv ==
    /\ TypeOK
    /\ torn = {}
    /\ Located /\ Resident /\ Pended /\ HotIsDurable
    /\ ActiveIsLive /\ PassInOrder /\ DoomedUnlisted /\ ReplayedIsNotCommitted

\* Segment numbers are naturals, and the nonzero ones name segments.
LEMMA Numbers ==
    ASSUME TypeOK
    PROVE  /\ active \in Nat /\ watermark \in Nat /\ cur \in Nat
           /\ \A n \in Seqnos : n \in Nat /\ n > 0
           /\ active # 0 => active \in Seqnos
           /\ cur # 0 => cur \in Seqnos
           /\ \A r \in Requests : home[r] \in Nat /\ (home[r] # 0 => home[r] \in Seqnos)
           /\ \A r \in Requests : home[r] > watermark => home[r] \in Seqnos
BY BoundsAreNat DEF TypeOK, ProcTypes, CompTypes, DiskTypes, GhostTypes, Seqnos

\* A store with an empty data directory satisfies the invariant.
LEMMA InitInv == Init => IInv
<1> SUFFICES ASSUME Init PROVE IInv
  OBVIOUS
<1>1. TypeOK
  BY InitType
<1>2. Located
  BY DEF Init, Located
<1>3. Resident /\ Pended /\ ActiveIsLive /\ PassInOrder
  BY DEF Init, Resident, Pended, ActiveIsLive, PassInOrder
<1>4. HotIsDurable
  BY DEF Init, HotIsDurable, Empty
<1> QED
  BY <1>1, <1>2, <1>3, <1>4 DEF Init, DoomedUnlisted, ReplayedIsNotCommitted, IInv

\* A step of the writer or a client that touches no file, no group in memory
\* and no block only has to keep the requests that await their ACK.
LEMMA ControlStep ==
    ASSUME IInv, TypeOK', pend' \subseteq pend, wpc' = "publish" => wpc = "publish",
           UNCHANGED <<phase, active, hot, compVars, walVars, coldVars, home, expired>>
    PROVE  IInv'
<1> USE DEF IInv, compVars, walVars, coldVars
<1>1. Located'
  BY DEF Located, InSegment, InBlock, Expired
<1>2. Resident'
  BY DEF Resident
<1>3. Pended'
  BY DEF Pended
<1>4. HotIsDurable' /\ ActiveIsLive'
  BY DEF HotIsDurable, ActiveIsLive
<1>5. PassInOrder'
  BY DEF PassInOrder
<1>6. DoomedUnlisted' /\ ReplayedIsNotCommitted' /\ torn' = {}
  BY DEF DoomedUnlisted, ReplayedIsNotCommitted
<1> QED
  BY <1>1, <1>2, <1>3, <1>4, <1>5, <1>6

\* Likewise a step that may rotate the log while no request awaits its ACK.
LEMMA SealStep ==
    ASSUME IInv, TypeOK', phase = "up", pend' = {},
           Rotate \/ RotateFails \/ UNCHANGED <<walFiles, active>>,
           UNCHANGED <<phase, hot, compVars, good, dirty, torn, coldVars, home, expired>>
    PROVE  IInv'
<1> USE DEF IInv, compVars, coldVars
<1>0. /\ walFiles \subseteq walFiles'
      /\ active' = active \/ (active' = active + 1 /\ active' \in walFiles')
  BY DEF Rotate, RotateFails
<1>1. Located'
  BY <1>0 DEF Located, InSegment, InBlock, Expired
<1>2. Resident'
  BY DEF Resident
<1>3. Pended'
  BY DEF Pended
<1>4. HotIsDurable' /\ ActiveIsLive'
  BY <1>0, Numbers DEF HotIsDurable, ActiveIsLive
<1>5. PassInOrder'
  BY <1>0, Numbers DEF PassInOrder, TypeOK, CompTypes
<1>6. DoomedUnlisted' /\ ReplayedIsNotCommitted' /\ torn' = {}
  BY DEF DoomedUnlisted, ReplayedIsNotCommitted
<1> QED
  BY <1>1, <1>2, <1>3, <1>4, <1>5, <1>6

\* Sending, refusing and asking for a seal touch nothing it speaks of.
LEMMA ClientsInv == ASSUME IInv, Clients PROVE IInv'
<1>0. TypeOK'
  BY ClientsType DEF IInv
<1> USE <1>0 DEF IInv, procVars, compVars, walVars, coldVars, ghostVars
<1>1. CASE SealNow
  BY <1>1, ControlStep DEF SealNow
<1>2. ASSUME NEW r \in Requests, Send(r) PROVE IInv'
  BY <1>2, ControlStep DEF Send, Answer
<1>3. ASSUME NEW r \in Requests, Refuse(r) PROVE IInv'
  BY <1>3, ControlStep DEF Refuse, Answer, Fault
<1> QED
  BY <1>1, <1>2, <1>3 DEF Clients

\* The writer publishes only what its fsync covered, in the active segment.
LEMMA WriterInv == ASSUME "torn" \notin Faults, IInv, Writer PROVE IInv'
<1>0. TypeOK'
  BY WriterType DEF IInv
<1> USE <1>0 DEF IInv, procVars, compVars, walVars, coldVars, ghostVars
<1>1. CASE DrainGroup
  BY <1>1, ControlStep DEF DrainGroup, Answer, AfterGroup
<1>2. CASE GroupFailed
  BY <1>2, ControlStep DEF GroupFailed
<1>3. CASE SyncGroup
  <2>3. Pended'
    <3>1. active \in Seqnos
      BY <1>3, Numbers DEF SyncGroup, TypeOK, TaskLocals
    <3> QED
      BY <1>3, <3>1 DEF SyncGroup, Fsync, Pended, TypeOK, DiskTypes
  <2>8. Located' /\ Resident'
    BY <1>3 DEF SyncGroup, Fsync, Located, InSegment, InBlock, Expired, Resident
  <2>9. /\ HotIsDurable' /\ ActiveIsLive' /\ PassInOrder' /\ DoomedUnlisted'
        /\ ReplayedIsNotCommitted' /\ torn' = {}
    BY <1>3 DEF SyncGroup, Fsync, HotIsDurable, ActiveIsLive, PassInOrder,
         DoomedUnlisted, ReplayedIsNotCommitted
  <2> QED
    BY <2>3, <2>8, <2>9
<1>4. CASE SyncFails
  BY <1>4, ControlStep DEF SyncFails, Fault, Answer
<1>5. CASE SealFull
  BY <1>5, SealStep DEF SealFull, TypeOK, TaskLocals
<1>6. CASE SealCommand
  BY <1>6, SealStep DEF SealCommand, TypeOK, TaskLocals
<1>7. ASSUME NEW r \in Requests, WriteRequest(r) PROVE IInv'
  <2>3. Pended'
    <3>1. active \in Seqnos
      BY <1>7, Numbers DEF WriteRequest, TypeOK, TaskLocals
    <3> QED
      BY <1>7, <3>1 DEF WriteRequest, Pended, TypeOK, DiskTypes
  <2>8. Located' /\ Resident'
    BY <1>7 DEF WriteRequest, Located, InSegment, InBlock, Expired, Resident
  <2>9. /\ HotIsDurable' /\ ActiveIsLive' /\ PassInOrder' /\ DoomedUnlisted'
        /\ ReplayedIsNotCommitted' /\ torn' = {}
    BY <1>7 DEF WriteRequest, HotIsDurable, ActiveIsLive, PassInOrder,
         DoomedUnlisted, ReplayedIsNotCommitted
  <2> QED
    BY <2>3, <2>8, <2>9
<1>8. ASSUME NEW r \in Requests, WriteFails(r) PROVE IInv'
  BY <1>8, ControlStep DEF WriteFails, Fault, Answer
<1>9. ASSUME NEW r \in Requests, PublishRequest(r) PROVE IInv'
  <2>0. active \in Seqnos /\ RecordsOf(r) \subseteq good[active]
    BY <1>9, Numbers DEF PublishRequest, TypeOK, TaskLocals, Pended
  <2>1. Located'
    <3> SUFFICES ASSUME NEW q \in Requests, home'[q] # 0, NEW s \in Batch[q]
                 PROVE  (InSegment(home[q], q, s) \/ InBlock(home[q], s) \/ Expired(home[q], s))'
      BY DEF Located
    <3>1. CASE q = r
      <4>1. home'[q] = active
        BY <1>9, <3>1 DEF PublishRequest, TypeOK, GhostTypes
      <4>2. <<q, s>> \in good[active]
        BY <2>0, <3>1 DEF RecordsOf
      <4> QED
        BY <1>9, <4>1, <4>2 DEF PublishRequest, ActiveIsLive, InSegment
    <3>2. CASE q # r
      <4>1. home'[q] = home[q]
        BY <1>9, <3>2 DEF PublishRequest, TypeOK, GhostTypes
      <4> QED
        BY <1>9, <4>1 DEF PublishRequest, Located, InSegment, InBlock, Expired
    <3> QED
      BY <3>1, <3>2
  <2>2. Resident'
    <3> SUFFICES ASSUME NEW q \in Requests, home'[q] > watermark'
                 PROVE  RecordsOf(q) \subseteq hot'[home'[q]]
      BY DEF Resident
    <3>1. CASE q = r
      <4>1. home'[q] = active
        BY <1>9, <3>1 DEF PublishRequest, TypeOK, GhostTypes
      <4> QED
        BY <1>9, <2>0, <3>1, <4>1 DEF PublishRequest, TypeOK
    <3>2. CASE q # r
      <4>1. home'[q] = home[q] /\ home[q] > watermark
        BY <1>9, <3>2 DEF PublishRequest, TypeOK, GhostTypes
      <4>2. home[q] \in Seqnos
        BY <4>1, Numbers
      <4>3. RecordsOf(q) \subseteq hot[home[q]]
        BY <1>9, <4>1 DEF PublishRequest, Resident
      <4> QED
        BY <1>9, <2>0, <4>1, <4>2, <4>3 DEF PublishRequest, TypeOK
    <3> QED
      BY <3>1, <3>2
  <2>4. HotIsDurable'
    BY <1>9, <2>0 DEF PublishRequest, HotIsDurable, TypeOK
  <2>6. PassInOrder'
    <3>1. \A n \in Seqnos : n # active => hot'[n] = hot[n]
      BY <1>9, <2>0 DEF PublishRequest, TypeOK
    <3> QED
      BY <1>9, <2>0, <3>1 DEF PublishRequest, PassInOrder
  <2>8. Pended'
    BY <1>9 DEF PublishRequest, Answer, RecordsOf, Pended
  <2>9. ActiveIsLive' /\ DoomedUnlisted' /\ ReplayedIsNotCommitted' /\ torn' = {}
    BY <1>9 DEF PublishRequest, Answer, RecordsOf, ActiveIsLive, DoomedUnlisted,
         ReplayedIsNotCommitted
  <2> QED
    BY <2>1, <2>2, <2>4, <2>6, <2>8, <2>9
<1> QED
  BY <1>1, <1>2, <1>3, <1>4, <1>5, <1>6, <1>7, <1>8, <1>9 DEF Writer

\* The compactor moves the watermark over one group, wholly in listed blocks.
LEMMA CompactorInv == ASSUME IInv, Compactor PROVE IInv'
<1>0. TypeOK'
  BY CompactorType DEF IInv
<1> USE <1>0 DEF IInv, procVars, compVars, walVars, coldVars, ghostVars
<1>1. CASE StartPass
  <2>6. PassInOrder'
    <3>1. PICK n \in Pending :
             (\A m \in Pending : n <= m) /\ plan' = Pending \ {n} /\ cur' = n /\ cpc' = "blocks"
      BY <1>1 DEF StartPass, NextSegment
    <3>2. \A m \in Pending :
             m \in Seqnos /\ m \in Nat /\ m < active /\ m > watermark
      BY Numbers DEF Pending
    <3>3. \A m \in plan' : n < m
      BY <3>1, <3>2
    <3>4. \A k \in Seqnos : hot[k] # {} /\ k > watermark =>
             k \in Pending \/ \A m \in Pending : k > m
      BY <3>2, Numbers DEF Pending
    <3> QED
      BY <1>1, <3>1, <3>2, <3>3, <3>4 DEF StartPass, PassInOrder
  <2>8. Located' /\ Resident' /\ Pended'
    BY <1>1 DEF StartPass, NextSegment, Pending, Seqnos, Located, InSegment,
         InBlock, Expired, Resident, Pended
  <2>9. /\ HotIsDurable' /\ ActiveIsLive' /\ DoomedUnlisted'
        /\ ReplayedIsNotCommitted' /\ torn' = {}
    BY <1>1 DEF StartPass, NextSegment, Pending, Seqnos, HotIsDurable,
         ActiveIsLive, DoomedUnlisted, ReplayedIsNotCommitted
  <2> QED
    BY <2>6, <2>8, <2>9
<1>2. CASE WriteBlockFails
  <2>8. Located' /\ Resident' /\ Pended'
    BY <1>2 DEF WriteBlockFails, AbortPass, Located, InSegment, InBlock, Expired,
         Resident, Pended
  <2>9. /\ HotIsDurable' /\ ActiveIsLive' /\ PassInOrder' /\ DoomedUnlisted'
        /\ ReplayedIsNotCommitted' /\ torn' = {}
    BY <1>2 DEF WriteBlockFails, AbortPass, HotIsDurable, ActiveIsLive,
         PassInOrder, DoomedUnlisted, ReplayedIsNotCommitted
  <2> QED
    BY <2>8, <2>9
<1>3. CASE CommitFlush
  <2>0. /\ cur \in Seqnos /\ cur > watermark /\ cur < active /\ watermark' = cur
        /\ \A n \in Seqnos : n > watermark /\ n < cur => hot[n] = {}
    <3>1. cur \in Seqnos /\ cur > watermark /\ cur < active /\ watermark' = cur
      BY <1>3, Numbers DEF CommitFlush, IndexFlush, TypeOK, TaskLocals, PassInOrder
    <3>2. ASSUME NEW n \in Seqnos, n > watermark, n < cur, hot[n] # {} PROVE FALSE
      <4>1. n \in plan \cup {cur} \/ n > cur
        BY <1>3, <3>2 DEF CommitFlush, PassInOrder
      <4>2. \A m \in plan : cur < m
        BY <1>3 DEF CommitFlush, PassInOrder
      <4> QED
        BY <3>2, <4>1, <4>2, Numbers
    <3> QED
      BY <3>1, <3>2
  <2>1. Located'
    <3> SUFFICES ASSUME NEW r \in Requests, home[r] # 0, NEW s \in Batch[r]
                 PROVE  (InSegment(home[r], r, s) \/ InBlock(home[r], s) \/ Expired(home[r], s))'
      BY <1>3 DEF CommitFlush, Located
    <3>1. home[r] \in Seqnos /\ home[r] \in Nat /\ cur \in Nat /\ watermark \in Nat
      BY Numbers
    <3>2. <<r, s>> \in RecordsOf(r)
      BY DEF RecordsOf
    <3>3. home[r] > watermark => RecordsOf(r) \subseteq hot[home[r]]
      BY <1>3 DEF CommitFlush, Resident
    <3>4. CASE home[r] > cur
      BY <1>3, <2>0, <3>1, <3>4 DEF CommitFlush, IndexFlush, Located, InSegment,
           InBlock, Expired
    <3>5. CASE home[r] = cur
      <4>1. s \in SpansIn(hot[cur])
        BY <2>0, <3>2, <3>3, <3>5 DEF SpansIn
      <4>2. HourOf[s] \in HoursIn(cur) /\ s \in BlockOf(cur, HourOf[s])
        BY <4>1 DEF HoursIn, BlockOf
      <4>3. s \in files[<<cur, HourOf[s]>>]
        BY <1>3, <4>2 DEF CommitFlush, AllWritten
      <4>4. <<cur, HourOf[s]>> \in index'
        BY <1>3, <4>2 DEF CommitFlush, IndexFlush
      <4> QED
        BY <1>3, <2>0, <3>1, <3>5, <4>3, <4>4 DEF CommitFlush, InBlock
    <3>6. CASE home[r] > watermark /\ home[r] < cur
      BY <2>0, <3>1, <3>2, <3>3, <3>6
    <3>7. CASE home[r] <= watermark
      BY <1>3, <2>0, <3>1, <3>7 DEF CommitFlush, IndexFlush, Located, InSegment,
           InBlock, Expired
    <3> QED
      BY <3>1, <3>4, <3>5, <3>6, <3>7
  <2>2. Resident'
    BY <1>3, <2>0, Numbers DEF CommitFlush, Resident
  <2>4. HotIsDurable'
    BY <1>3, <2>0, Numbers DEF CommitFlush, HotIsDurable
  <2>5. ActiveIsLive' /\ torn' = {}
    BY <1>3, <2>0 DEF CommitFlush, ActiveIsLive
  <2>6. PassInOrder'
    BY <1>3, <2>0, Numbers DEF CommitFlush, PassInOrder
  <2>7. DoomedUnlisted' /\ ReplayedIsNotCommitted'
    <3>1. doomed = {} /\ UNCHANGED doomed
      BY <1>3 DEF CommitFlush, TypeOK, TaskLocals
    <3>2. \A b \in index : b[1] \in Nat
      BY Numbers DEF TypeOK, DiskTypes, Blocks
    <3>3. \A b \in index' : b \in index \/ b[1] = cur
      BY <1>3 DEF CommitFlush, IndexFlush
    <3> QED
      BY <2>0, <3>1, <3>2, <3>3, Numbers DEF DoomedUnlisted, ReplayedIsNotCommitted
  <2>8. Pended'
    BY <1>3 DEF CommitFlush, IndexFlush, Seqnos, Pended
  <2> QED
    BY <2>1, <2>2, <2>4, <2>5, <2>6, <2>7, <2>8
<1>4. CASE CommitFails
  <2>8. Located' /\ Resident' /\ Pended'
    BY <1>4 DEF CommitFails, AbortPass, Located, InSegment, InBlock, Expired,
         Resident, Pended
  <2>9. /\ HotIsDurable' /\ ActiveIsLive' /\ PassInOrder' /\ DoomedUnlisted'
        /\ ReplayedIsNotCommitted' /\ torn' = {}
    BY <1>4 DEF CommitFails, AbortPass, HotIsDurable, ActiveIsLive, PassInOrder,
         DoomedUnlisted, ReplayedIsNotCommitted
  <2> QED
    BY <2>8, <2>9
<1>5. CASE DeleteSegment
  <2>0. cur \in Seqnos /\ cur = watermark /\ cur < active /\ active \in Seqnos
    BY <1>5, Numbers DEF DeleteSegment, TypeOK, TaskLocals, PassInOrder
  <2>1. Located'
    <3>1. \A n \in Seqnos :
             n > watermark => good'[n] = good[n] /\ (n \in walFiles => n \in walFiles')
      BY <1>5, <2>0, Numbers DEF DeleteSegment, Truncate, TypeOK, DiskTypes
    <3> QED
      BY <1>5, <3>1, Numbers DEF DeleteSegment, Located, InSegment, InBlock, Expired
  <2>3. Pended'
    <3>1. good'[active] = good[active] /\ dirty'[active] = dirty[active]
      BY <1>5, <2>0, Numbers DEF DeleteSegment, Truncate, TypeOK, DiskTypes
    <3> QED
      BY <1>5, <3>1 DEF DeleteSegment, Pended
  <2>4. HotIsDurable'
    BY <1>5, <2>0, Numbers DEF DeleteSegment, Truncate, HotIsDurable, TypeOK,
         DiskTypes
  <2>5. ActiveIsLive' /\ torn' = {}
    BY <1>5, <2>0, Numbers DEF DeleteSegment, Truncate, ActiveIsLive
  <2>8. Resident'
    BY <1>5 DEF DeleteSegment, Truncate, Resident
  <2>9. PassInOrder' /\ DoomedUnlisted' /\ ReplayedIsNotCommitted'
    BY <1>5 DEF DeleteSegment, Truncate, PassInOrder, DoomedUnlisted,
         ReplayedIsNotCommitted
  <2> QED
    BY <2>1, <2>3, <2>4, <2>5, <2>8, <2>9
<1>6. CASE DeleteFails
  <2>8. Located' /\ Resident' /\ Pended'
    BY <1>6 DEF DeleteFails, AbortPass, Located, InSegment, InBlock, Expired,
         Resident, Pended
  <2>9. /\ HotIsDurable' /\ ActiveIsLive' /\ PassInOrder' /\ DoomedUnlisted'
        /\ ReplayedIsNotCommitted' /\ torn' = {}
    BY <1>6 DEF DeleteFails, AbortPass, HotIsDurable, ActiveIsLive, PassInOrder,
         DoomedUnlisted, ReplayedIsNotCommitted
  <2> QED
    BY <2>8, <2>9
<1>7. CASE DropGroup
  <2>0. cur \in Seqnos /\ cur = watermark /\ cur < active
    BY <1>7, Numbers DEF DropGroup, TypeOK, TaskLocals, PassInOrder
  <2>2. Resident'
    <3>1. \A n \in Seqnos : n > watermark => hot'[n] = hot[n]
      BY <1>7, <2>0, Numbers DEF DropGroup, DropSegment, TypeOK
    <3> QED
      BY <1>7, <3>1, Numbers DEF DropGroup, Resident
  <2>6. PassInOrder'
    <3>1. CASE cpc' = "idle"
      BY <3>1 DEF PassInOrder
    <3>2. ASSUME NEW n \in plan, \A m \in plan : n <= m,
                 cpc' = "blocks", plan' = plan \ {n}, cur' = n
          PROVE  PassInOrder'
      <4>1. \A m \in plan : m \in Nat /\ cur < m /\ m < active
        BY <1>7, Numbers DEF DropGroup, PassInOrder, TypeOK, CompTypes
      <4>2. \A m \in plan' : n < m
        BY <3>2, <4>1
      <4>3. \A k \in Seqnos : hot'[k] # {} /\ k > watermark =>
               k \in plan \/ \A m \in plan : k > m
        BY <1>7, <2>0, Numbers DEF DropGroup, DropSegment, PassInOrder, TypeOK
      <4> QED
        BY <1>7, <2>0, <3>2, <4>1, <4>2, <4>3 DEF DropGroup, PassInOrder
    <3> QED
      BY <1>7, <3>1, <3>2 DEF DropGroup, NextSegment
  <2>8. Located' /\ Pended'
    BY <1>7 DEF DropGroup, DropSegment, NextSegment, Seqnos, Located, InSegment,
         InBlock, Expired, Pended
  <2>9. /\ HotIsDurable' /\ ActiveIsLive' /\ DoomedUnlisted'
        /\ ReplayedIsNotCommitted' /\ torn' = {}
    BY <1>7 DEF DropGroup, DropSegment, NextSegment, Seqnos, HotIsDurable,
         ActiveIsLive, DoomedUnlisted, ReplayedIsNotCommitted
  <2> QED
    BY <2>2, <2>6, <2>8, <2>9
<1>8. ASSUME NEW h \in Hours, WriteBlock(h) PROVE IInv'
  <2>1. Located'
    <3>1. cur > watermark
      BY <1>8 DEF WriteBlock, PassInOrder
    <3>2. \A b \in index : b[1] <= watermark => files'[b] = files[b]
      BY <1>8, <3>1, Numbers DEF WriteBlock, TypeOK, DiskTypes
    <3> QED
      BY <1>8, <3>2 DEF WriteBlock, Located, InSegment, InBlock, Expired
  <2>8. Resident' /\ Pended'
    BY <1>8 DEF WriteBlock, Resident, Pended
  <2>9. /\ HotIsDurable' /\ ActiveIsLive' /\ PassInOrder' /\ DoomedUnlisted'
        /\ ReplayedIsNotCommitted' /\ torn' = {}
    BY <1>8 DEF WriteBlock, HotIsDurable, ActiveIsLive, PassInOrder,
         DoomedUnlisted, ReplayedIsNotCommitted
  <2> QED
    BY <2>1, <2>8, <2>9
<1> QED
  BY <1>1, <1>2, <1>3, <1>4, <1>5, <1>6, <1>7, <1>8 DEF Compactor

\* Retention forgets blocks before it unlinks them.
LEMMA RetentionInv == ASSUME IInv, Retention PROVE IInv'
<1>0. TypeOK'
  BY RetentionType DEF IInv
<1> USE <1>0 DEF IInv, procVars, compVars, walVars, coldVars, ghostVars
<1>1. ASSUME NEW c \in Hours \cup {h + 1 : h \in Hours}, Reclaim(c) PROVE IInv'
  <2>8. Located' /\ Resident' /\ Pended'
    BY <1>1 DEF Reclaim, Blocks, Located, InSegment, InBlock, Expired, Resident,
         Pended
  <2>9. /\ HotIsDurable' /\ ActiveIsLive' /\ PassInOrder' /\ DoomedUnlisted'
        /\ ReplayedIsNotCommitted' /\ torn' = {}
    BY <1>1 DEF Reclaim, Blocks, HotIsDurable, ActiveIsLive, PassInOrder,
         DoomedUnlisted, ReplayedIsNotCommitted
  <2> QED
    BY <2>8, <2>9
<1>2. ASSUME NEW b \in Blocks, Unlink(b) PROVE IInv'
  <2>1. Located'
    <3>1. \A d \in index : files'[d] = files[d]
      BY <1>2 DEF Unlink, DoomedUnlisted, TypeOK, DiskTypes
    <3> QED
      BY <1>2, <3>1 DEF Unlink, Located, InSegment, InBlock, Expired
  <2>8. Resident' /\ Pended'
    BY <1>2 DEF Unlink, Blocks, Resident, Pended
  <2>9. /\ HotIsDurable' /\ ActiveIsLive' /\ PassInOrder' /\ DoomedUnlisted'
        /\ ReplayedIsNotCommitted' /\ torn' = {}
    BY <1>2 DEF Unlink, Blocks, HotIsDurable, ActiveIsLive, PassInOrder,
         DoomedUnlisted, ReplayedIsNotCommitted
  <2> QED
    BY <2>1, <2>8, <2>9
<1>3. CASE UnlinkFails
  <2>8. Located' /\ Resident' /\ Pended'
    BY <1>3 DEF UnlinkFails, Located, InSegment, InBlock, Expired, Resident, Pended
  <2>9. /\ HotIsDurable' /\ ActiveIsLive' /\ PassInOrder' /\ DoomedUnlisted'
        /\ ReplayedIsNotCommitted' /\ torn' = {}
    BY <1>3 DEF UnlinkFails, HotIsDurable, ActiveIsLive, PassInOrder,
         DoomedUnlisted, ReplayedIsNotCommitted
  <2> QED
    BY <2>8, <2>9
<1> QED
  BY <1>1, <1>2, <1>3 DEF Retention

\* A crash takes nothing that was fsynced.
LEMMA CrashInv == ASSUME IInv, Crash PROVE IInv'
<1>0. TypeOK'
  BY CrashType DEF IInv
<1> USE <1>0 DEF IInv, procVars, compVars, walVars, coldVars, ghostVars
<1>1. CASE Crash
  <2>1. Located'
    <3>1. \A n \in Seqnos : good[n] \subseteq good'[n]
      BY <1>1 DEF Crash
    <3>2. walFiles \subseteq walFiles' /\ walFiles \subseteq Seqnos
      BY <1>1 DEF Crash, TypeOK, DiskTypes
    <3> QED
      BY <1>1, <3>1, <3>2 DEF Crash, Located, InSegment, InBlock, Expired
  <2>8. Resident' /\ Pended'
    BY <1>1 DEF Crash, Empty, Resident, Pended
  <2>9. /\ HotIsDurable' /\ ActiveIsLive' /\ PassInOrder' /\ DoomedUnlisted'
        /\ ReplayedIsNotCommitted' /\ torn' = {}
    BY <1>1 DEF Crash, Empty, HotIsDurable, ActiveIsLive, PassInOrder,
         DoomedUnlisted, ReplayedIsNotCommitted
  <2> QED
    BY <2>1, <2>8, <2>9
<1> QED
  BY <1>1 DEF Crash

\* Recovery deletes only what is committed and loads all the rest.
LEMMA OpenInv == ASSUME IInv, Open PROVE IInv'
<1>0. TypeOK'
  BY OpenType DEF IInv
<1> USE <1>0 DEF IInv, procVars, compVars, walVars, coldVars, ghostVars
<1>1. CASE OpenLoads
  <2>2. Resident'
    <3> SUFFICES ASSUME NEW r \in Requests, home[r] > watermark, NEW s \in Batch[r]
                 PROVE  <<r, s>> \in hot'[home[r]]
      BY <1>1 DEF OpenLoads, Resident, RecordsOf
    <3>1. home[r] \in Seqnos
      BY Numbers
    <3>2. home[r] # 0 /\ ~(home[r] <= watermark)
      BY Numbers
    <3>3. InSegment(home[r], r, s)
      BY <3>2 DEF Located, InBlock, Expired
    <3> QED
      BY <1>1, <3>1, <3>3 DEF OpenLoads, InSegment
  <2>3. Pended'
    BY <1>1 DEF OpenLoads, Pended, TypeOK, TaskLocals
  <2>5. ActiveIsLive' /\ torn' = {}
    <3>1. PICK m \in walFiles \cup {watermark} : m >= watermark /\ active' = m + 1
      BY <1>1 DEF OpenLoads
    <3>2. m \in Nat
      BY Numbers DEF TypeOK, DiskTypes
    <3> QED
      BY <1>1, <3>1, <3>2, Numbers DEF OpenLoads, ActiveIsLive
  <2>6. PassInOrder'
    BY <1>1 DEF OpenLoads, PassInOrder, TypeOK, TaskLocals
  <2>8. Located'
    BY <1>1 DEF OpenLoads, Stale, Seqnos, Located, InSegment, InBlock, Expired
  <2>9. HotIsDurable' /\ DoomedUnlisted' /\ ReplayedIsNotCommitted'
    BY <1>1 DEF OpenLoads, Stale, Seqnos, HotIsDurable, DoomedUnlisted,
         ReplayedIsNotCommitted
  <2> QED
    BY <2>2, <2>3, <2>5, <2>6, <2>8, <2>9
<1>2. CASE OpenDone
  <2>8. Located' /\ Resident' /\ Pended'
    BY <1>2 DEF OpenDone, Seqnos, Located, InSegment, InBlock, Expired, Resident,
         Pended
  <2>9. /\ HotIsDurable' /\ ActiveIsLive' /\ PassInOrder' /\ DoomedUnlisted'
        /\ ReplayedIsNotCommitted' /\ torn' = {}
    BY <1>2 DEF OpenDone, Seqnos, HotIsDurable, ActiveIsLive, PassInOrder,
         DoomedUnlisted, ReplayedIsNotCommitted
  <2> QED
    BY <2>8, <2>9
<1>3. ASSUME NEW n \in Seqnos, OpenDeletes(n) PROVE IInv'
  <2>0. \A m \in Seqnos :
           m > watermark => good'[m] = good[m] /\ (m \in walFiles => m \in walFiles')
    BY <1>3, Numbers DEF OpenDeletes, Stale, TypeOK, DiskTypes
  <2>1. Located'
    BY <1>3, <2>0, Numbers DEF OpenDeletes, Located, InSegment, InBlock, Expired
  <2>3. Pended'
    BY <1>3 DEF OpenDeletes, Pended, TypeOK, TaskLocals
  <2>4. HotIsDurable'
    BY <1>3, <2>0 DEF OpenDeletes, HotIsDurable
  <2>8. Resident'
    BY <1>3 DEF OpenDeletes, Stale, Resident
  <2>9. /\ ActiveIsLive' /\ PassInOrder' /\ DoomedUnlisted'
        /\ ReplayedIsNotCommitted' /\ torn' = {}
    BY <1>3 DEF OpenDeletes, Stale, ActiveIsLive, PassInOrder, DoomedUnlisted,
         ReplayedIsNotCommitted
  <2> QED
    BY <2>1, <2>3, <2>4, <2>8, <2>9
<1>4. ASSUME NEW b \in Blocks, OpenSweeps(b) PROVE IInv'
  <2>8. Located' /\ Resident' /\ Pended'
    BY <1>4 DEF OpenSweeps, Orphans, Located, InSegment, InBlock, Expired,
         Resident, Pended
  <2>9. /\ HotIsDurable' /\ ActiveIsLive' /\ PassInOrder' /\ DoomedUnlisted'
        /\ ReplayedIsNotCommitted' /\ torn' = {}
    BY <1>4 DEF OpenSweeps, Orphans, HotIsDurable, ActiveIsLive, PassInOrder,
         DoomedUnlisted, ReplayedIsNotCommitted
  <2> QED
    BY <2>8, <2>9
<1> QED
  BY <1>1, <1>2, <1>3, <1>4 DEF Open

\* The invariant is inductive.
LEMMA StepInv == ASSUME "torn" \notin Faults, IInv, [Next]_vars PROVE IInv'
<1>1. CASE UNCHANGED vars
  <2>1. TypeOK'
    BY <1>1, StepType DEF IInv
  <2> QED
    BY <1>1, <2>1, ControlStep DEF vars, procVars, ghostVars
<1> QED
  BY <1>1, ClientsInv, WriterInv, CompactorInv, RetentionInv, CrashInv, OpenInv DEF Next

\* The invariant holds in every reachable state unless a frame can be torn.
THEOREM Invariant == ASSUME "torn" \notin Faults PROVE Spec => []IInv
<1>1. Init => IInv
  BY InitInv
<1>2. IInv /\ [Next]_vars => IInv'
  BY StepInv
<1> QED
  BY <1>1, <1>2, PTL DEF Spec

----------------------------------------------------------------------------
(***************************************************************************)
(* The properties, for any constants.                                      *)
(***************************************************************************)

\* What is owed is at its address, and every address is one recovery reads.
LEMMA InvDurable == IInv => Durable
<1> SUFFICES ASSUME IInv, NEW s \in Owed PROVE s \in Recoverable
  BY DEF Durable
<1>1. PICK r \in Requests :
          home[r] # 0 /\ s \in Batch[r] /\ <<home[r], HourOf[s]>> \notin expired
  BY DEF Owed
<1>2. InSegment(home[r], r, s) \/ InBlock(home[r], s)
  BY <1>1 DEF IInv, Located, Expired
<1>3. home[r] \in Seqnos
  BY <1>1, Numbers DEF IInv
<1>4. CASE InSegment(home[r], r, s)
  <2>1. <<r, s>> \in UNION {good[n] : n \in {m \in walFiles : m > watermark}}
    BY <1>4 DEF InSegment
  <2> QED
    BY <2>1 DEF Recoverable, SpansIn
<1>5. CASE InBlock(home[r], s)
  BY <1>5 DEF InBlock, Recoverable
<1> QED
  BY <1>2, <1>4, <1>5

\* Acknowledged spans survive a crash at any instant, up to retention.
THEOREM DurableHolds == ASSUME "torn" \notin Faults PROVE Spec => []Durable
BY Invariant, InvDurable, PTL

\* What is owed is in memory above the watermark and in a listed block below.
LEMMA InvReadYourWrites == IInv => ReadYourWrites
<1> SUFFICES ASSUME IInv, phase = "up", NEW s \in Owed PROVE s \in Visible
  BY DEF ReadYourWrites
<1>1. PICK r \in Requests :
          home[r] # 0 /\ s \in Batch[r] /\ <<home[r], HourOf[s]>> \notin expired
  BY DEF Owed
<1>2. home[r] \in Seqnos
  BY <1>1, Numbers DEF IInv
<1>3. CASE home[r] > watermark
  <2>1. <<r, s>> \in hot[home[r]]
    BY <1>1, <1>3 DEF IInv, Resident, RecordsOf
  <2>2. <<r, s>> \in UNION {hot[n] : n \in Seqnos}
    BY <1>2, <2>1
  <2> QED
    BY <2>2 DEF Visible, SpansIn
<1>4. CASE ~(home[r] > watermark)
  <2>1. InBlock(home[r], s)
    BY <1>1, <1>4 DEF IInv, Located, InSegment, Expired
  <2> QED
    BY <2>1 DEF InBlock, Visible
<1> QED
  BY <1>3, <1>4

\* A running store shows every acknowledged span, up to retention.
THEOREM ReadYourWritesHolds == ASSUME "torn" \notin Faults PROVE Spec => []ReadYourWrites
BY Invariant, InvReadYourWrites, PTL

\* Segment files disappear only below the watermark: the compactor unlinks the
\* segment it has just committed, recovery those it finds committed.
LEMMA InvSegmentStep ==
    ASSUME IInv, [Next]_vars PROVE \A n \in walFiles \ walFiles' : n <= watermark
<1> USE DEF procVars, compVars, walVars, coldVars, ghostVars
<1>1. CASE DeleteSegment
  BY <1>1, Numbers DEF DeleteSegment, Truncate, IInv, PassInOrder
<1>2. ASSUME NEW n \in Seqnos, OpenDeletes(n) PROVE \A m \in walFiles \ walFiles' : m <= watermark
  BY <1>2 DEF OpenDeletes, Stale
<1>3. CASE walFiles \subseteq walFiles'
  BY <1>3
<1>4. Clients => walFiles \subseteq walFiles'
  BY DEF Clients, SealNow, Send, Refuse
<1>5. Writer => walFiles \subseteq walFiles'
  BY DEF Writer, DrainGroup, GroupFailed, SyncGroup, SyncFails, SealFull,
       SealCommand,
         Rotate, RotateFails, WriteRequest, WriteFails, PublishRequest
<1>6. Compactor => DeleteSegment \/ walFiles \subseteq walFiles'
  BY DEF Compactor, StartPass, WriteBlockFails, CommitFlush, CommitFails,
       DeleteFails,
         DropGroup, WriteBlock
<1>7. Retention \/ Crash => walFiles \subseteq walFiles'
  BY DEF Retention, Reclaim, Unlink, UnlinkFails, Crash
<1>8. Open => (\E n \in Seqnos : OpenDeletes(n)) \/ walFiles \subseteq walFiles'
  BY DEF Open, OpenLoads, OpenDone, OpenSweeps
<1>9. CASE UNCHANGED vars
  BY <1>9 DEF vars
<1> QED
  BY <1>1, <1>2, <1>3, <1>4, <1>5, <1>6, <1>7, <1>8, <1>9 DEF Next

\* The WAL loses a segment only after the commit of its spans.
THEOREM SegmentOutlivesCommitHolds ==
    ASSUME "torn" \notin Faults PROVE Spec => SegmentOutlivesCommit
<1>1. IInv /\ [Next]_vars => [\A n \in walFiles \ walFiles' : n <= watermark]_vars
  BY InvSegmentStep
<1> QED
  BY <1>1, Invariant, PTL DEF Spec, SegmentOutlivesCommit

\* The three steps that touch a Parquet file touch none the index lists.
LEMMA InvBlockStep ==
    ASSUME IInv, [Next]_vars PROVE \A b \in index \cap index' : files'[b] = files[b]
<1> USE DEF procVars, compVars, walVars, coldVars, ghostVars
<1>1. ASSUME NEW h \in Hours, WriteBlock(h)
      PROVE  \A b \in index \cap index' : files'[b] = files[b]
  <2>1. cur > watermark
    BY <1>1 DEF WriteBlock, IInv, PassInOrder
  <2>2. \A b \in index : b # <<cur, h>>
    BY <2>1, Numbers DEF IInv, ReplayedIsNotCommitted
  <2> QED
    BY <1>1, <2>2 DEF WriteBlock, IInv, TypeOK, DiskTypes
<1>2. ASSUME NEW d \in Blocks, Unlink(d)
      PROVE  \A b \in index \cap index' : files'[b] = files[b]
  BY <1>2 DEF Unlink, IInv, DoomedUnlisted, TypeOK, DiskTypes
<1>3. ASSUME NEW d \in Blocks, OpenSweeps(d)
      PROVE  \A b \in index \cap index' : files'[b] = files[b]
  BY <1>3 DEF OpenSweeps, Orphans, IInv, TypeOK, DiskTypes
<1>4. CASE UNCHANGED files
  BY <1>4
<1>5. Clients \/ Writer => UNCHANGED files
  BY DEF Clients, SealNow, Send, Refuse,
         Writer, DrainGroup, GroupFailed, SyncGroup, SyncFails, SealFull, SealCommand,
         WriteRequest, WriteFails, PublishRequest
<1>6. Compactor => UNCHANGED files \/ \E h \in Hours : WriteBlock(h)
  BY DEF Compactor, StartPass, WriteBlockFails, CommitFlush, CommitFails,
       DeleteSegment,
         DeleteFails, DropGroup
<1>7. Retention => UNCHANGED files \/ \E b \in Blocks : Unlink(b)
  BY DEF Retention, Reclaim, UnlinkFails
<1>8. Crash => UNCHANGED files
  BY DEF Crash
<1>9. Open => UNCHANGED files \/ \E b \in Blocks : OpenSweeps(b)
  BY DEF Open, OpenLoads, OpenDone, OpenDeletes
<1>10. CASE UNCHANGED vars
  BY <1>10 DEF vars
<1> QED
  BY <1>1, <1>2, <1>3, <1>4, <1>5, <1>6, <1>7, <1>8, <1>9, <1>10 DEF Next

\* A committed block keeps its contents: no name is used twice.
THEOREM CommittedBlocksImmutableHolds ==
    ASSUME "torn" \notin Faults PROVE Spec => CommittedBlocksImmutable
<1>1. IInv /\ [Next]_vars =>
          [\A b \in index \cap index' : files'[b] = files[b]]_vars
  BY InvBlockStep
<1> QED
  BY <1>1, Invariant, PTL DEF Spec, CommittedBlocksImmutable

----------------------------------------------------------------------------
(***************************************************************************)
(* The bound on memory. What a group adds is decided once, when it is      *)
(* drained; from then on its records only move: from the writer's hands to *)
(* the file, from the file to memory, and after a crash back from the file *)
(* to memory. Load is all of that, and only a drain adds to it.            *)
(***************************************************************************)
Uncommitted == {n \in Seqnos : n > watermark}
InMemory == UNION {hot[n] : n \in Seqnos}
OnDisk == UNION {good[n] \cup dirty[n] : n \in Uncommitted}
InHand == UNION {RecordsOf(r) : r \in group \cup pend}
Load == InMemory \cup OnDisk \cup InHand

\* A segment without a file holds nothing; a process that is down left nothing
\* unsynced; what the files hold above the watermark is in memory or awaits its
\* ACK, so that a replay brings back no more than memory had.
Accounted ==
    /\ \A n \in Seqnos \ walFiles : good[n] = {} /\ dirty[n] = {}
    /\ phase = "down" => \A n \in Seqnos : dirty[n] = {}
    /\ phase # "down" =>
        \A n \in Uncommitted :
            good[n] \cup dirty[n] \subseteq
                hot[n] \cup (IF n = active THEN UNION {RecordsOf(r) : r \in pend} ELSE {})

Bounded ==
    /\ IsFiniteSet(Load)
    /\ MaxHot # 0 => \E r \in Requests : Cardinality(Load) < MaxHot + GroupMax * Cardinality(Batch[r])

LEMMA AccountedClients ==
    ASSUME IInv, Accounted, Clients
    PROVE  Accounted' /\ Load' = Load
<1>1. UNCHANGED <<phase, group, pend, active, hot, walFiles, good, dirty, watermark>>
  BY DEF Clients, SealNow, Send, Refuse, procVars, walVars, coldVars
<1> QED
  BY <1>1 DEF Accounted, Load, InMemory, OnDisk, InHand, Uncommitted

LEMMA AccountedWriter ==
    ASSUME "torn" \notin Faults, "sync" \notin Faults, IInv, Accounted, Writer
    PROVE  Accounted' /\ (Load' \subseteq Load \/ DrainGroup)
<1>1. /\ good \in [Seqnos -> SUBSET Records] /\ dirty \in [Seqnos -> SUBSET Records]
      /\ hot \in [Seqnos -> SUBSET Records] /\ torn = {}
      /\ phase = "up" => active \in Seqnos /\ active \in walFiles
  BY Numbers DEF IInv, TypeOK, DiskTypes, TaskLocals, ActiveIsLive
<1>2. CASE DrainGroup
  <2>1. UNCHANGED <<phase, pend, active, hot, walFiles, good, dirty, watermark>>
    BY <1>2 DEF DrainGroup, walVars, coldVars
  <2> QED
    BY <1>2, <2>1 DEF Accounted, Uncommitted
<1>3. ASSUME UNCHANGED <<phase, hot, good, dirty, watermark>>, group' \subseteq group,
             pend' = pend /\ (active' = active \/ pend = {}), walFiles \subseteq walFiles'
      PROVE  Accounted' /\ Load' \subseteq Load
  <2>1. InMemory' = InMemory /\ OnDisk' = OnDisk
    BY <1>3 DEF InMemory, OnDisk, Uncommitted
  <2>2. InHand' \subseteq InHand
    BY <1>3 DEF InHand
  <2> QED
    BY <1>3, <2>1, <2>2 DEF Accounted, Load, Uncommitted
<1>4. CASE GroupFailed
  BY <1>3, <1>4 DEF GroupFailed, walVars, coldVars
<1>5. CASE SealFull \/ SealCommand
  <2>1. pend = {} /\ UNCHANGED <<phase, hot, good, dirty, watermark, group, pend>>
    BY <1>5 DEF SealFull, SealCommand, IInv, TypeOK, TaskLocals, coldVars
  <2>2. walFiles \subseteq walFiles'
    BY <1>5 DEF SealFull, SealCommand, Rotate, RotateFails
  <2> QED
    BY <1>3, <2>1, <2>2
<1>6. CASE SyncGroup
  <2>1. /\ UNCHANGED <<phase, hot, group, pend, active, walFiles, watermark>> /\ phase = "up"
        /\ good' = [good EXCEPT ![active] = @ \cup dirty[active]]
        /\ dirty' = [dirty EXCEPT ![active] = {}]
    BY <1>6 DEF SyncGroup, Fsync, coldVars
  <2>2. \A n \in Seqnos : good'[n] \cup dirty'[n] = good[n] \cup dirty[n]
    BY <1>1, <2>1
  <2>3. \A n \in Seqnos \ walFiles : good'[n] = {} /\ dirty'[n] = {}
    BY <1>1, <2>1 DEF Accounted
  <2>4. Uncommitted' = Uncommitted
    BY <2>1 DEF Uncommitted
  <2>5. Accounted'
    BY <2>1, <2>2, <2>3, <2>4 DEF Accounted, Uncommitted
  <2>6. OnDisk' \subseteq OnDisk
    <3> SUFFICES ASSUME NEW x, x \in OnDisk' PROVE x \in OnDisk
      OBVIOUS
    <3>1. PICK n \in Uncommitted : x \in good'[n] \cup dirty'[n]
      BY <2>4 DEF OnDisk
    <3> QED
      BY <2>2, <3>1 DEF OnDisk, Uncommitted
  <2>7. InMemory' = InMemory /\ InHand' = InHand
    BY <2>1 DEF InMemory, InHand
  <2> QED
    BY <2>5, <2>6, <2>7 DEF Load
<1>7. CASE SyncFails
  BY <1>7 DEF SyncFails, Fault
<1>8. ASSUME NEW r \in Requests, WriteRequest(r) PROVE Accounted' /\ Load' \subseteq Load
  <2>1. /\ UNCHANGED <<phase, hot, active, walFiles, good, watermark>> /\ phase = "up" /\ r \in group
        /\ group' = group \ {r} /\ pend' = pend \cup {r}
        /\ dirty' = [dirty EXCEPT ![active] = @ \cup RecordsOf(r)]
    BY <1>1, <1>8 DEF WriteRequest, coldVars
  <2>2. /\ \A n \in Seqnos \ {active} : dirty'[n] = dirty[n]
        /\ dirty'[active] = dirty[active] \cup RecordsOf(r)
    BY <1>1, <2>1
  <2>3. Uncommitted' = Uncommitted /\ Uncommitted \subseteq Seqnos
    BY <2>1 DEF Uncommitted
  <2>4. Accounted'
    BY <1>1, <2>1, <2>2, <2>3 DEF Accounted
  <2>5. \A n \in Uncommitted : good'[n] \cup dirty'[n] \subseteq good[n] \cup dirty[n] \cup RecordsOf(r)
    BY <1>1, <2>1, <2>2, <2>3
  <2>6. OnDisk' \subseteq OnDisk \cup InHand
    <3> SUFFICES ASSUME NEW x, x \in OnDisk' PROVE x \in OnDisk \cup InHand
      OBVIOUS
    <3>1. PICK n \in Uncommitted : x \in good'[n] \cup dirty'[n]
      BY <2>3 DEF OnDisk
    <3>2. x \in good[n] \cup dirty[n] \/ x \in RecordsOf(r)
      BY <2>5, <3>1
    <3> QED
      BY <2>1, <3>1, <3>2 DEF OnDisk, InHand
  <2>7. InHand' \subseteq InHand
    BY <2>1 DEF InHand
  <2>8. InMemory' = InMemory
    BY <2>1 DEF InMemory
  <2>9. Load' \subseteq Load
    BY <2>6, <2>7, <2>8 DEF Load
  <2> QED
    BY <2>4, <2>9
<1>9. ASSUME NEW r \in Requests, WriteFails(r) PROVE Accounted' /\ Load' \subseteq Load
  BY <1>3, <1>9 DEF WriteFails, Fault, coldVars
<1>10. ASSUME NEW r \in Requests, PublishRequest(r) PROVE Accounted' /\ Load' \subseteq Load
  <2>1. /\ UNCHANGED <<phase, group, active, walFiles, good, dirty, watermark>> /\ phase = "up" /\ r \in pend
        /\ pend' = pend \ {r} /\ hot' = [hot EXCEPT ![active] = @ \cup RecordsOf(r)]
    BY <1>10 DEF PublishRequest, walVars, coldVars
  <2>2. /\ \A n \in Seqnos \ {active} : hot'[n] = hot[n]
        /\ hot'[active] = hot[active] \cup RecordsOf(r)
    BY <1>1, <2>1
  <2>3. Uncommitted' = Uncommitted /\ Uncommitted \subseteq Seqnos
    BY <2>1 DEF Uncommitted
  <2>4. \A x : x \in UNION {RecordsOf(q) : q \in pend} => x \in UNION {RecordsOf(q) : q \in pend'} \/ x \in RecordsOf(r)
    BY <2>1
  <2>5. Accounted'
    BY <1>1, <2>1, <2>2, <2>3, <2>4 DEF Accounted
  <2>6. \A n \in Seqnos : hot'[n] \subseteq hot[n] \cup RecordsOf(r)
    BY <1>1, <2>1, <2>2
  <2>7. InMemory' \subseteq InMemory \cup InHand
    <3> SUFFICES ASSUME NEW x, x \in InMemory' PROVE x \in InMemory \cup InHand
      OBVIOUS
    <3>1. PICK n \in Seqnos : x \in hot'[n]
      BY DEF InMemory
    <3>2. x \in hot[n] \/ x \in RecordsOf(r)
      BY <2>6, <3>1
    <3> QED
      BY <2>1, <3>1, <3>2 DEF InMemory, InHand
  <2>8. InHand' \subseteq InHand /\ OnDisk' = OnDisk
    BY <2>1, <2>3 DEF InHand, OnDisk
  <2> QED
    BY <2>5, <2>7, <2>8 DEF Load
<1> QED
  BY <1>2, <1>3, <1>4, <1>5, <1>6, <1>7, <1>8, <1>9, <1>10 DEF Writer

\* A flush only takes away: a commit retires the segment, its file goes, and then
\* its group, which by then recovery no longer replays.
LEMMA AccountedCompactor ==
    ASSUME IInv, Accounted, Compactor
    PROVE  Accounted' /\ Load' \subseteq Load
<1>1. /\ good \in [Seqnos -> SUBSET Records] /\ dirty \in [Seqnos -> SUBSET Records]
      /\ hot \in [Seqnos -> SUBSET Records] /\ walFiles \subseteq Seqnos
      /\ watermark \in Nat /\ \A n \in Seqnos : n \in Nat
  BY Numbers DEF IInv, TypeOK, DiskTypes
<1>2. UNCHANGED <<phase, group, pend, active>>
  BY DEF Compactor, StartPass, WriteBlockFails, CommitFlush, CommitFails, DeleteSegment,
         DeleteFails, DropGroup, WriteBlock, procVars
<1>3. InHand' = InHand
  BY <1>2 DEF InHand
<1>4. CASE UNCHANGED <<hot, walFiles, good, dirty, watermark>>
  <2>1. InMemory' = InMemory /\ OnDisk' = OnDisk
    BY <1>4 DEF InMemory, OnDisk, Uncommitted
  <2> QED
    BY <1>2, <1>3, <1>4, <2>1 DEF Accounted, Uncommitted, Load
<1>5. CASE CommitFlush
  <2>1. UNCHANGED <<hot, walFiles, good, dirty>> /\ watermark' = cur /\ cpc = "blocks"
    BY <1>5 DEF CommitFlush, IndexFlush, walVars
  <2>2. cur \in Nat /\ cur > watermark
    BY <2>1, Numbers DEF IInv, PassInOrder, TypeOK, TaskLocals
  <2>3. Uncommitted' \subseteq Uncommitted
    BY <1>1, <2>1, <2>2 DEF Uncommitted
  <2>4. InMemory' = InMemory
    BY <2>1 DEF InMemory
  <2>5. OnDisk' \subseteq OnDisk
    BY <2>1, <2>3 DEF OnDisk
  <2>6. Accounted'
    BY <1>2, <2>1, <2>3 DEF Accounted
  <2> QED
    BY <1>3, <2>4, <2>5, <2>6 DEF Load
<1>6. CASE DeleteSegment
  <2>1. /\ UNCHANGED <<hot, watermark>> /\ walFiles' = walFiles \ {cur}
        /\ good' = [good EXCEPT ![cur] = {}] /\ dirty' = [dirty EXCEPT ![cur] = {}]
    BY <1>6 DEF DeleteSegment, Truncate, coldVars
  <2>2. \A n \in Seqnos : \/ n # cur /\ good'[n] = good[n] /\ dirty'[n] = dirty[n]
                          \/ n = cur /\ good'[n] = {} /\ dirty'[n] = {}
    BY <1>1, <2>1
  <2>3. Uncommitted' = Uncommitted /\ Uncommitted \subseteq Seqnos
    BY <2>1 DEF Uncommitted
  <2>4. InMemory' = InMemory
    BY <2>1 DEF InMemory
  <2>5. OnDisk' \subseteq OnDisk
    BY <2>2, <2>3 DEF OnDisk
  <2>6. Accounted'
    BY <1>2, <2>1, <2>2, <2>3 DEF Accounted
  <2> QED
    BY <1>3, <2>4, <2>5, <2>6 DEF Load
<1>7. CASE DropGroup
  <2>1. UNCHANGED <<walFiles, good, dirty, watermark>> /\ hot' = [hot EXCEPT ![cur] = {}] /\ cpc = "drop"
    BY <1>7 DEF DropGroup, DropSegment, walVars, coldVars
  <2>2. cur = watermark
    BY <2>1 DEF IInv, PassInOrder
  <2>3. \A n \in Seqnos : hot'[n] \subseteq hot[n] /\ (n # cur => hot'[n] = hot[n])
    BY <1>1, <2>1
  <2>4. Uncommitted' = Uncommitted /\ \A n \in Uncommitted : n \in Seqnos /\ n # cur
    BY <1>1, <2>1, <2>2 DEF Uncommitted
  <2>5. InMemory' \subseteq InMemory /\ OnDisk' = OnDisk
    BY <2>1, <2>3, <2>4 DEF InMemory, OnDisk
  <2>6. Accounted'
    BY <1>2, <2>1, <2>3, <2>4 DEF Accounted
  <2> QED
    BY <1>3, <2>5, <2>6 DEF Load
<1>8. CASE StartPass \/ WriteBlockFails \/ CommitFails \/ DeleteFails \/ \E h \in Hours : WriteBlock(h)
  <2>1. UNCHANGED <<hot, walFiles, good, dirty, watermark>>
    BY <1>8 DEF StartPass, WriteBlockFails, CommitFails, DeleteFails, WriteBlock, walVars, coldVars
  <2> QED
    BY <1>4, <2>1
<1> QED
  BY <1>5, <1>6, <1>7, <1>8 DEF Compactor

\* Retention touches blocks only.
LEMMA AccountedRetention ==
    ASSUME Accounted, Retention PROVE Accounted' /\ Load' = Load
<1>1. UNCHANGED <<phase, group, pend, active, hot, walFiles, good, dirty, watermark>>
  BY DEF Retention, Reclaim, Unlink, UnlinkFails, procVars, walVars, coldVars
<1> QED
  BY <1>1 DEF Accounted, Load, InMemory, OnDisk, InHand, Uncommitted

\* A crash keeps of the files at most what they held.
LEMMA AccountedCrash ==
    ASSUME IInv, Accounted, Crash PROVE Accounted' /\ Load' \subseteq Load
<1>1. /\ good \in [Seqnos -> SUBSET Records] /\ dirty \in [Seqnos -> SUBSET Records]
      /\ walFiles \subseteq walFiles'
  BY DEF IInv, TypeOK, DiskTypes, Crash
<1>2. /\ phase' = "down" /\ group' = {} /\ pend' = {} /\ hot' = Empty /\ dirty' = Empty
      /\ watermark' = watermark
  BY DEF Crash, coldVars
<1>3. \A n \in Seqnos : good'[n] \subseteq good[n] \cup dirty[n] /\ dirty'[n] = {} /\ hot'[n] = {}
  BY <1>1, <1>2 DEF Crash, Empty
<1>4. Accounted'
  BY <1>1, <1>2, <1>3 DEF Accounted
<1>5. InMemory' = {} /\ InHand' = {}
  BY <1>2, <1>3 DEF InMemory, InHand
<1>6. Uncommitted' = Uncommitted /\ Uncommitted \subseteq Seqnos
  BY <1>2 DEF Uncommitted
<1>7. OnDisk' \subseteq OnDisk
  BY <1>3, <1>6 DEF OnDisk
<1> QED
  BY <1>4, <1>5, <1>7 DEF Load

\* Recovery brings to memory what the files hold above the watermark, no more.
LEMMA AccountedOpen ==
    ASSUME IInv, Accounted, Open PROVE Accounted' /\ Load' \subseteq Load
<1>1. /\ good \in [Seqnos -> SUBSET Records] /\ dirty \in [Seqnos -> SUBSET Records]
      /\ hot \in [Seqnos -> SUBSET Records] /\ walFiles \subseteq Seqnos
      /\ watermark \in Nat /\ \A n \in Seqnos : n \in Nat
  BY Numbers DEF IInv, TypeOK, DiskTypes
<1>2. UNCHANGED <<group, pend, watermark>>
  BY DEF Open, OpenDeletes, OpenLoads, OpenSweeps, OpenDone, procVars, coldVars
<1>3. InHand' = InHand /\ Uncommitted' = Uncommitted /\ Uncommitted \subseteq Seqnos
  BY <1>2 DEF InHand, Uncommitted
<1>4. ASSUME NEW n \in Seqnos, OpenDeletes(n) PROVE Accounted' /\ Load' \subseteq Load
  <2>1. /\ UNCHANGED <<phase, active, hot, dirty>> /\ phase = "down" /\ walFiles' = walFiles \ {n}
        /\ good' = [good EXCEPT ![n] = {}]
    BY <1>4 DEF OpenDeletes, procVars
  <2>2. \A m \in Seqnos : good'[m] \subseteq good[m] /\ (m # n => good'[m] = good[m]) /\ good'[n] = {}
    BY <1>1, <2>1
  <2>3. Accounted'
    BY <1>2, <1>3, <2>1, <2>2 DEF Accounted
  <2>4. InMemory' = InMemory
    BY <2>1 DEF InMemory
  <2>5. OnDisk' \subseteq OnDisk
    BY <1>3, <2>1, <2>2 DEF OnDisk
  <2> QED
    BY <1>3, <2>3, <2>4, <2>5 DEF Load
<1>5. CASE OpenLoads
  <2>1. /\ UNCHANGED <<walFiles, good, dirty>> /\ phase = "down" /\ phase' = "sweep"
        /\ hot' = [n \in Seqnos |-> IF n \in walFiles THEN good[n] ELSE {}]
        /\ \A n \in walFiles : n > watermark
    BY <1>1, <1>5 DEF OpenLoads, Stale
  <2>2. \A n \in Seqnos : dirty[n] = {} /\ (n \notin walFiles => good[n] = {})
    BY <2>1 DEF Accounted
  <2>3. \A n \in Seqnos : hot'[n] = good[n]
    BY <2>1, <2>2
  <2>4. Accounted'
    BY <1>2, <1>3, <2>1, <2>2, <2>3 DEF Accounted
  <2>5. OnDisk' = OnDisk
    BY <1>3, <2>1 DEF OnDisk
  <2>6. InMemory' \subseteq OnDisk
    <3> SUFFICES ASSUME NEW x, x \in InMemory' PROVE x \in OnDisk
      OBVIOUS
    <3>1. PICK n \in Seqnos : x \in hot'[n]
      BY DEF InMemory
    <3>2. n \in Uncommitted /\ x \in good[n]
      BY <2>1, <2>2, <2>3, <3>1 DEF Uncommitted
    <3> QED
      BY <3>2 DEF OnDisk
  <2> QED
    BY <1>3, <2>4, <2>5, <2>6 DEF Load
<1>6. ASSUME NEW b \in Blocks, OpenSweeps(b) PROVE Accounted' /\ Load' \subseteq Load
  <2>1. UNCHANGED <<phase, active, hot, walFiles, good, dirty>>
    BY <1>6 DEF OpenSweeps, procVars, walVars
  <2>2. InMemory' = InMemory /\ OnDisk' = OnDisk
    BY <1>3, <2>1 DEF InMemory, OnDisk
  <2> QED
    BY <1>2, <1>3, <2>1, <2>2 DEF Accounted, Load
<1>7. CASE OpenDone
  <2>1. UNCHANGED <<active, hot, good, dirty>> /\ walFiles \subseteq walFiles'
        /\ phase = "sweep" /\ phase' = "up"
    BY <1>7 DEF OpenDone
  <2>2. InMemory' = InMemory /\ OnDisk' = OnDisk
    BY <1>3, <2>1 DEF InMemory, OnDisk
  <2> QED
    BY <1>2, <1>3, <2>1, <2>2 DEF Accounted, Load
<1> QED
  BY <1>4, <1>5, <1>6, <1>7 DEF Open

\* The values of a function on a finite set are finitely many, and no more.
LEMMA ImageIsFinite ==
    ASSUME NEW S, IsFiniteSet(S), NEW f
    PROVE  /\ IsFiniteSet({f[x] : x \in S})
           /\ Cardinality({f[x] : x \in S}) <= Cardinality(S)
<1> DEFINE T == {f[x] : x \in S}
           g == [x \in S |-> f[x]]
<1>1. g \in Surjection(S, T)
  BY DEF Surjection
<1> HIDE DEF g, T
<1>2. IsFiniteSet(T) /\ Cardinality(T) <= Cardinality(S)
  BY <1>1, FS_Surjection
<1> QED
  BY <1>2 DEF T

\* The records of a set of requests: no more than its size times its largest batch.
Copies(G) == UNION {RecordsOf(r) : r \in G}

LEMMA CopiesOfOne ==
    ASSUME NEW r \in Requests
    PROVE  IsFiniteSet(RecordsOf(r)) /\ Cardinality(RecordsOf(r)) = Cardinality(Batch[r])
<1>1. IsFiniteSet(Batch[r]) /\ Cardinality(Batch[r]) \in Nat
  BY DataAssumption, BatchCount
<1>2. IsFiniteSet({r}) /\ Cardinality({r}) = 1
  BY FS_Singleton
<1>3. IsFiniteSet({r} \X Batch[r]) /\ Cardinality({r} \X Batch[r]) = 1 * Cardinality(Batch[r])
  BY <1>1, <1>2, FS_Product
<1> QED
  BY <1>1, <1>3 DEF RecordsOf

LEMMA CopiesOfGroup ==
    ASSUME NEW m \in Nat, NEW H \in SUBSET Requests, IsFiniteSet(H),
           \A r \in H : Cardinality(Batch[r]) <= m
    PROVE  IsFiniteSet(Copies(H)) /\ Cardinality(Copies(H)) <= Cardinality(H) * m
<1> DEFINE Fits(K) == IsFiniteSet(Copies(K)) /\ Cardinality(Copies(K)) <= Cardinality(K) * m
           G == {n \in Nat : \A K \in SUBSET H : IsFiniteSet(K) /\ Cardinality(K) = n => Fits(K)}
<1>1. 0 \in G
  <2> SUFFICES ASSUME NEW K \in SUBSET H, IsFiniteSet(K), Cardinality(K) = 0 PROVE Fits(K)
    OBVIOUS
  <2>1. K = {}
    BY FS_EmptySet
  <2>2. Copies(K) = {}
    BY <2>1 DEF Copies
  <2> QED
    BY <2>2, FS_EmptySet
<1>2. ASSUME NEW n \in Nat, n \in G PROVE n + 1 \in G
  <2> SUFFICES ASSUME NEW K \in SUBSET H, IsFiniteSet(K), Cardinality(K) = n + 1 PROVE Fits(K)
    OBVIOUS
  <2>1. K # {}
    BY FS_EmptySet
  <2>2. PICK r : r \in K
    BY <2>1
  <2>3. IsFiniteSet(K \ {r}) /\ Cardinality(K \ {r}) = n
    <3>1. /\ IsFiniteSet(K \ {r})
          /\ Cardinality(K \ {r}) = IF r \in K THEN Cardinality(K) - 1 ELSE Cardinality(K)
      BY FS_RemoveElement
    <3> QED
      BY <2>2, <3>1
  <2>4. Fits(K \ {r})
    BY <1>2, <2>3
  <2>5. Copies(K) = Copies(K \ {r}) \cup RecordsOf(r)
    BY <2>2 DEF Copies
  <2>6. /\ IsFiniteSet(RecordsOf(r)) /\ Cardinality(RecordsOf(r)) \in Nat
        /\ Cardinality(RecordsOf(r)) <= m
    BY <2>2, CopiesOfOne, FS_CardinalityType
  <2> HIDE DEF Fits
  <2>7. IsFiniteSet(Copies(K \ {r})) /\ Cardinality(Copies(K \ {r})) <= n * m
    BY <2>3, <2>4 DEF Fits
  <2>8. IsFiniteSet(Copies(K)) /\ Cardinality(Copies(K)) <= Cardinality(Copies(K \ {r})) + Cardinality(RecordsOf(r))
    <3> DEFINE A == Copies(K \ {r})
               B == RecordsOf(r)
    <3>1. IsFiniteSet(A) /\ IsFiniteSet(B)
      BY <2>6, <2>7
    <3> HIDE DEF A, B
    <3>2. IsFiniteSet(A \cup B) /\ Cardinality(A \cup B) = Cardinality(A) + Cardinality(B) - Cardinality(A \cap B)
      BY <3>1, FS_Union
    <3>3. IsFiniteSet(A \cap B)
      BY <3>1, FS_Subset
    <3>4. Cardinality(A) \in Nat /\ Cardinality(B) \in Nat /\ Cardinality(A \cap B) \in Nat
      BY <3>1, <3>3, FS_CardinalityType
    <3>5. Cardinality(A \cup B) <= Cardinality(A) + Cardinality(B)
      BY <3>2, <3>4
    <3> QED
      BY <2>5, <3>2, <3>5 DEF A, B
  <2>9. Cardinality(Copies(K)) \in Nat /\ Cardinality(Copies(K \ {r})) \in Nat
    BY <2>7, <2>8, FS_CardinalityType
  <2>10. Cardinality(Copies(K)) <= n * m + m
    <3> DEFINE c == Cardinality(Copies(K))
               d == Cardinality(Copies(K \ {r}))
               e == Cardinality(RecordsOf(r))
               p == n * m
    <3>1. c <= d + e /\ d <= p /\ e <= m /\ c \in Nat /\ d \in Nat /\ e \in Nat /\ p \in Nat
      BY <2>6, <2>7, <2>8, <2>9
    <3> HIDE DEF c, d, e, p
    <3>2. c <= p + m
      BY <3>1
    <3> QED
      BY <3>2 DEF c, p
  <2>11. n * m + m = (n + 1) * m
    OBVIOUS
  <2> QED
    BY <2>8, <2>10, <2>11 DEF Fits
<1>3. Nat \subseteq G
  <2> HIDE DEF G
  <2> QED
    BY <1>1, <1>2, NatSetInduction
<1>4. Cardinality(H) \in Nat
  BY FS_CardinalityType
<1> QED
  BY <1>3, <1>4

\* The one step that adds: a group of at most GROUP_COMMIT_MAX requests, drained
\* while memory is below its bound and nothing else is on its way there.
LEMMA DrainBounded ==
    ASSUME Requests # {}, IInv, Accounted, Bounded, DrainGroup PROVE Bounded'
<1>1. /\ phase = "up" /\ wpc = "recv" /\ group = {} /\ pend = {} /\ active \in Seqnos
      /\ good \in [Seqnos -> SUBSET Records] /\ dirty \in [Seqnos -> SUBSET Records]
      /\ queue \in Seq(Requests \cup {Seal})
  BY Numbers DEF DrainGroup, IInv, TypeOK, ProcTypes, DiskTypes, TaskLocals
<1>2. UNCHANGED <<pend, hot, good, dirty, watermark>>
  BY DEF DrainGroup, walVars, coldVars
<1>3. InMemory' = InMemory /\ OnDisk' = OnDisk
  BY <1>2 DEF InMemory, OnDisk, Uncommitted
<1>4. OnDisk \subseteq InMemory
  BY <1>1 DEF OnDisk, InMemory, Uncommitted, Accounted
<1>5. InHand = {} /\ InHand' = Copies(group')
  BY <1>1, <1>2 DEF InHand, Copies
<1>6. Load = InMemory /\ Load' = InMemory \cup Copies(group')
  BY <1>3, <1>4, <1>5 DEF Load
<1>7. IsFiniteSet(InMemory) /\ Cardinality(InMemory) \in Nat
  BY <1>6, FS_CardinalityType DEF Bounded
<1>8. CASE Shedding /\ group' = group
  <2>1. Load' = Load
    BY <1>1, <1>6, <1>8 DEF Copies
  <2> QED
    BY <2>1 DEF Bounded
<1>9. ASSUME ~Shedding, NEW n \in 1 .. Len(queue), IsDrain(n),
             group' = {queue[i] : i \in 1 .. n} \cap Requests
      PROVE  Bounded'
  <2>1. n \in Nat /\ n <= GroupMax /\ GroupMax \in Nat /\ MaxHot \in Nat
    BY <1>1, <1>9, BoundsAssumption DEF IsDrain
  <2>2. group' \in SUBSET Requests /\ IsFiniteSet(group') /\ Cardinality(group') <= GroupMax
    <3>1. IsFiniteSet(1 .. n) /\ Cardinality(1 .. n) = n
      BY <2>1, FS_Interval
    <3>2. IsFiniteSet({queue[i] : i \in 1 .. n}) /\ Cardinality({queue[i] : i \in 1 .. n}) <= n
      BY <3>1, ImageIsFinite
    <3>3. IsFiniteSet(group') /\ Cardinality(group') <= Cardinality({queue[i] : i \in 1 .. n})
      BY <1>9, <3>2, FS_Subset
    <3>4. Cardinality(group') \in Nat /\ Cardinality({queue[i] : i \in 1 .. n}) \in Nat
      BY <3>2, <3>3, FS_CardinalityType
    <3> QED
      BY <1>9, <2>1, <3>2, <3>3, <3>4
  <2>3. PICK q \in Requests : \A r \in group' : Cardinality(Batch[r]) <= Cardinality(Batch[q])
    <3> DEFINE size == [r \in Requests |-> Cardinality(Batch[r])]
               sizes == {size[r] : r \in group'}
    <3>1. CASE group' = {}
      BY <3>1
    <3>2. CASE group' # {}
      <4>1. IsFiniteSet(sizes)
        <5> HIDE DEF size
        <5> QED
          BY <2>2, ImageIsFinite
      <4>2. sizes \in SUBSET Nat /\ sizes # {}
        BY <2>2, <3>2, BatchCount
      <4>3. PICK k \in sizes : \A j \in sizes : j <= k
        <5> HIDE DEF sizes
        <5> QED
          BY <4>1, <4>2, LargestExists
      <4> QED
        BY <2>2, <4>3
    <3> QED
      BY <3>1, <3>2
  <2>4. Cardinality(Batch[q]) \in Nat
    BY BatchCount
  <2>5. /\ IsFiniteSet(Copies(group'))
        /\ Cardinality(Copies(group')) <= Cardinality(group') * Cardinality(Batch[q])
    <3> DEFINE H == group'
               m == Cardinality(Batch[q])
    <3>1. m \in Nat /\ H \in SUBSET Requests /\ IsFiniteSet(H) /\ \A r \in H : Cardinality(Batch[r]) <= m
      BY <2>2, <2>3, <2>4
    <3> HIDE DEF H, m
    <3>2. IsFiniteSet(Copies(H)) /\ Cardinality(Copies(H)) <= Cardinality(H) * m
      BY <3>1, CopiesOfGroup
    <3> QED
      BY <3>2 DEF H, m
  <2>6. Cardinality(group') * Cardinality(Batch[q]) <= GroupMax * Cardinality(Batch[q])
    <3>1. Cardinality(group') \in Nat
      BY <2>2, FS_CardinalityType
    <3>2. \A a, b, m \in Nat : a <= b => a * m <= b * m
      OBVIOUS
    <3> QED
      BY <2>1, <2>2, <2>4, <3>1, <3>2
  <2>7. /\ IsFiniteSet(Load')
        /\ Cardinality(Load') <= Cardinality(InMemory) + Cardinality(Copies(group'))
    <3> DEFINE A == InMemory
               B == Copies(group')
    <3>1. IsFiniteSet(A) /\ IsFiniteSet(B)
      BY <1>7, <2>5
    <3> HIDE DEF A, B
    <3>2. IsFiniteSet(A \cup B) /\ Cardinality(A \cup B) = Cardinality(A) + Cardinality(B) - Cardinality(A \cap B)
      BY <3>1, FS_Union
    <3>3. IsFiniteSet(A \cap B)
      BY <3>1, FS_Subset
    <3>4. Cardinality(A) \in Nat /\ Cardinality(B) \in Nat /\ Cardinality(A \cap B) \in Nat
      BY <3>1, <3>3, FS_CardinalityType
    <3>5. Cardinality(A \cup B) <= Cardinality(A) + Cardinality(B)
      BY <3>2, <3>4
    <3> QED
      BY <1>6, <3>2, <3>5 DEF A, B
  <2>8. MaxHot # 0 => Cardinality(InMemory) < MaxHot
    BY <1>7, <1>9, <2>1 DEF Shedding, HotLen, InMemory
  <2>9. MaxHot # 0 => Cardinality(Load') < MaxHot + GroupMax * Cardinality(Batch[q])
    <3> DEFINE c == Cardinality(Load')
               d == Cardinality(InMemory)
               e == Cardinality(Copies(group'))
               p == Cardinality(group') * Cardinality(Batch[q])
               t == GroupMax * Cardinality(Batch[q])
    <3>1. c \in Nat /\ d \in Nat /\ e \in Nat
      BY <1>7, <2>5, <2>7, FS_CardinalityType
    <3>2. p \in Nat /\ t \in Nat
      BY <2>1, <2>2, <2>4, FS_CardinalityType
    <3>3. c <= d + e /\ e <= p /\ p <= t /\ (MaxHot # 0 => d < MaxHot)
      BY <2>5, <2>6, <2>7, <2>8
    <3> HIDE DEF c, d, e, p, t
    <3>4. MaxHot # 0 => c < MaxHot + t
      BY <2>1, <3>1, <3>2, <3>3
    <3> QED
      BY <3>4 DEF c, t
  <2> QED
    BY <2>7, <2>9 DEF Bounded
<1> QED
  BY <1>8, <1>9 DEF DrainGroup

\* A step that adds nothing keeps the bound.
LEMMA BoundedShrinks ==
    ASSUME Bounded, Load' \subseteq Load PROVE Bounded'
<1>1. IsFiniteSet(Load') /\ Cardinality(Load') <= Cardinality(Load) /\ IsFiniteSet(Load)
  BY FS_Subset DEF Bounded
<1>2. Cardinality(Load') \in Nat /\ Cardinality(Load) \in Nat
  BY <1>1, FS_CardinalityType
<1>3. ASSUME NEW r \in Requests, MaxHot # 0, Cardinality(Load) < MaxHot + GroupMax * Cardinality(Batch[r])
      PROVE  Cardinality(Load') < MaxHot + GroupMax * Cardinality(Batch[r])
  <2>1. MaxHot \in Nat /\ GroupMax * Cardinality(Batch[r]) \in Nat
    BY BoundsAssumption, BatchCount
  <2> QED
    BY <1>1, <1>2, <1>3, <2>1
<1> QED
  BY <1>1, <1>3 DEF Bounded

LEMMA InitBounded == Requests # {} /\ Init => Accounted /\ Bounded
<1> SUFFICES ASSUME Requests # {}, Init PROVE Accounted /\ Bounded
  OBVIOUS
<1>1. Accounted
  BY DEF Init, Empty, Accounted
<1>2. Load = {}
  BY DEF Init, Empty, Load, InMemory, OnDisk, InHand, Uncommitted
<1>3. IsFiniteSet(Load) /\ Cardinality(Load) = 0
  BY <1>2, FS_EmptySet
<1>4. MaxHot \in Nat /\ \A r \in Requests : GroupMax * Cardinality(Batch[r]) \in Nat
  BY BoundsAssumption, BatchCount
<1>5. MaxHot # 0 => \E r \in Requests : Cardinality(Load) < MaxHot + GroupMax * Cardinality(Batch[r])
  BY <1>3, <1>4
<1> QED
  BY <1>1, <1>3, <1>5 DEF Bounded

LEMMA StepBounded ==
    ASSUME "torn" \notin Faults, "sync" \notin Faults, Requests # {},
           IInv, Accounted, Bounded, [Next]_vars
    PROVE  Accounted' /\ Bounded'
<1>1. CASE Clients
  BY <1>1, AccountedClients, BoundedShrinks
<1>2. CASE Writer
  BY <1>2, AccountedWriter, DrainBounded, BoundedShrinks
<1>3. CASE Compactor
  BY <1>3, AccountedCompactor, BoundedShrinks
<1>4. CASE Retention
  BY <1>4, AccountedRetention, BoundedShrinks
<1>5. CASE Crash
  BY <1>5, AccountedCrash, BoundedShrinks
<1>6. CASE Open
  BY <1>6, AccountedOpen, BoundedShrinks
<1>7. CASE UNCHANGED vars
  <2>1. UNCHANGED <<phase, group, pend, active, hot, walFiles, good, dirty, watermark>>
    BY <1>7 DEF vars, procVars, walVars, coldVars
  <2>2. Load' = Load
    BY <2>1 DEF Load, InMemory, OnDisk, InHand, Uncommitted
  <2> QED
    BY <2>1, <2>2 DEF Accounted, Bounded, Uncommitted
<1> QED
  BY <1>1, <1>2, <1>3, <1>4, <1>5, <1>6, <1>7 DEF Next

\* What memory holds is part of the load.
LEMMA MemoryIsBounded == Bounded => HotBounded
<1> SUFFICES ASSUME Bounded, MaxHot # 0
             PROVE  \E r \in Requests : HotLen < MaxHot + GroupMax * Cardinality(Batch[r])
  BY DEF HotBounded
<1>1. PICK r \in Requests : Cardinality(Load) < MaxHot + GroupMax * Cardinality(Batch[r])
  BY DEF Bounded
<1>2. IsFiniteSet(InMemory) /\ Cardinality(InMemory) <= Cardinality(Load) /\ IsFiniteSet(Load)
  BY FS_Subset DEF Bounded, Load
<1>3. Cardinality(InMemory) \in Nat /\ Cardinality(Load) \in Nat
  BY <1>2, FS_CardinalityType
<1>4. MaxHot \in Nat /\ GroupMax * Cardinality(Batch[r]) \in Nat
  BY BoundsAssumption, BatchCount
<1>5. Cardinality(InMemory) < MaxHot + GroupMax * Cardinality(Batch[r])
  BY <1>1, <1>2, <1>3, <1>4
<1> QED
  BY <1>5 DEF HotLen, InMemory

\* over_limit is evaluated once for a whole group, so memory overshoots max_hot_spans
\* by that one group at most, however the group is written, refused, published,
\* lost in a crash and replayed. A failed fsync is excluded: it leaves refused bytes
\* in the file, and a torn write leaves some.
THEOREM HotBoundedHolds ==
    ASSUME "torn" \notin Faults, "sync" \notin Faults, Requests # {}
    PROVE  Spec => []HotBounded
<1>1. Init => Accounted /\ Bounded
  BY InitBounded
<1>2. IInv /\ (Accounted /\ Bounded) /\ [Next]_vars => (Accounted /\ Bounded)'
  BY StepBounded
<1>3. Bounded => HotBounded
  BY MemoryIsBounded
<1> QED
  BY <1>1, <1>2, <1>3, Invariant, PTL DEF Spec

----------------------------------------------------------------------------
(***************************************************************************)
(* Store implements SpanLog. Publishing a request is the log's Accept,     *)
(* forgetting expired blocks its Expire, a crash its Stop and the end of   *)
(* recovery its Start. Every other step moves spans from one place to      *)
(* another, and must change nothing that a reader sees.                    *)
(***************************************************************************)

\* Retention drops only what was committed, so an ACK owes what it covers.
ExpiredIsCommitted == \A b \in expired : b[1] <= watermark

\* Between its commit and the end of its flush, a group is all in its blocks.
Copied ==
    cpc \in {"unlink", "drop"} =>
        \A h \in HoursIn(cur) :
            <<cur, h>> \in index /\ files[<<cur, h>>] = BlockOf(cur, h)

\* The inductive invariant of the refinement.
RInv == IInv /\ ExpiredIsCommitted /\ Copied /\ IndexedBlocksExist

\* The empty store satisfies it.
LEMMA InitRInv == Init => RInv
BY InitInv DEF Init, RInv, ExpiredIsCommitted, Copied, IndexedBlocksExist

\* The watermark never recedes, and only retention expires blocks: listed ones.
LEMMA ExpiredStep == ASSUME RInv, [Next]_vars PROVE ExpiredIsCommitted'
<1> USE DEF RInv, procVars, compVars, walVars, coldVars, ghostVars
<1>1. CASE UNCHANGED <<expired, watermark>>
  BY <1>1 DEF ExpiredIsCommitted
<1>2. CASE CommitFlush
  <2>1. cur > watermark /\ watermark' = cur /\ UNCHANGED expired
    BY <1>2 DEF CommitFlush, IndexFlush, IInv, PassInOrder
  <2>2. \A b \in expired : b[1] \in Nat
    BY Numbers DEF IInv, TypeOK, GhostTypes, Blocks
  <2> QED
    BY <2>1, <2>2, Numbers DEF ExpiredIsCommitted, IInv
<1>3. ASSUME NEW c \in Hours \cup {h + 1 : h \in Hours}, Reclaim(c) PROVE ExpiredIsCommitted'
  BY <1>3 DEF Reclaim, ExpiredIsCommitted, IInv, ReplayedIsNotCommitted
<1>4. Clients \/ Writer \/ Crash \/ Open => UNCHANGED <<expired, watermark>>
  BY DEF Clients, SealNow, Send, Refuse,
         Writer, DrainGroup, GroupFailed, SyncGroup, SyncFails, SealFull, SealCommand,
         WriteRequest, WriteFails, PublishRequest,
         Crash, Open, OpenLoads, OpenDone, OpenDeletes, OpenSweeps
<1>5. Compactor => CommitFlush \/ UNCHANGED <<expired, watermark>>
  BY DEF Compactor, StartPass, WriteBlock, WriteBlockFails, CommitFails, DeleteSegment,
         DeleteFails, DropGroup
<1>6. Retention => UNCHANGED <<expired, watermark>>
                   \/ \E c \in Hours \cup {h + 1 : h \in Hours} : Reclaim(c)
  BY DEF Retention, Unlink, UnlinkFails
<1>7. CASE UNCHANGED vars
  BY <1>7, <1>1 DEF vars
<1> QED
  BY <1>1, <1>2, <1>3, <1>4, <1>5, <1>6, <1>7 DEF Next

\* A block enters the index only at the commit of its segment, when all of
\* the group's blocks have been written.
LEMMA IndexStep ==
    ASSUME RInv, [Next]_vars
    PROVE  \A b \in index' \ index : CommitFlush /\ b \in {cur} \X HoursIn(cur)
<1> USE DEF procVars, compVars, walVars, coldVars, ghostVars
<1>1. CASE CommitFlush
  BY <1>1 DEF CommitFlush, IndexFlush
<1>2. CASE index' \subseteq index
  BY <1>2
<1>3. Clients \/ Writer \/ Crash \/ Open => index' \subseteq index
  BY DEF Clients, SealNow, Send, Refuse,
         Writer, DrainGroup, GroupFailed, SyncGroup, SyncFails, SealFull, SealCommand,
         WriteRequest, WriteFails, PublishRequest,
         Crash, Open, OpenLoads, OpenDone, OpenDeletes, OpenSweeps
<1>4. Compactor => CommitFlush \/ index' \subseteq index
  BY DEF Compactor, StartPass, WriteBlock, WriteBlockFails, CommitFails, DeleteSegment,
         DeleteFails, DropGroup
<1>5. Retention => index' \subseteq index
  BY DEF Retention, Reclaim, Unlink, UnlinkFails
<1>6. CASE UNCHANGED vars
  BY <1>6 DEF vars
<1> QED
  BY <1>1, <1>2, <1>3, <1>4, <1>5, <1>6 DEF Next

\* A listed block has its file, with spans of its hour.
LEMMA IndexedStep == ASSUME RInv, [Next]_vars PROVE IndexedBlocksExist'
<1> SUFFICES ASSUME NEW b \in index'
             PROVE  files'[b] # {} /\ \A s \in files'[b] : HourOf[s] = b[2]
  BY DEF IndexedBlocksExist
<1>1. CASE b \in index
  BY <1>1, InvBlockStep DEF RInv, IndexedBlocksExist
<1>2. CASE b \notin index
  <2>1. CommitFlush /\ b \in {cur} \X HoursIn(cur)
    BY <1>2, IndexStep
  <2>2. PICK h \in HoursIn(cur) : b = <<cur, h>>
    BY <2>1
  <2>3. files'[b] = BlockOf(cur, h)
    BY <2>1, <2>2 DEF CommitFlush, AllWritten
  <2> QED
    BY <2>2, <2>3 DEF BlockOf, HoursIn
<1> QED
  BY <1>1, <1>2

\* No step of another task reaches the group being flushed or its blocks.
LEMMA CopiedStep == ASSUME RInv, [Next]_vars PROVE Copied'
<1> USE DEF RInv, procVars, compVars, walVars, coldVars, ghostVars
<1>1. CASE cpc' \notin {"unlink", "drop"}
  BY <1>1 DEF Copied
<1>2. CASE UNCHANGED <<cpc, cur, hot, index, files>>
  BY <1>2 DEF Copied, HoursIn, BlockOf
<1>3. CASE CommitFlush
  BY <1>3 DEF CommitFlush, IndexFlush, AllWritten, Copied, HoursIn, BlockOf
<1>4. CASE DeleteSegment
  BY <1>4 DEF DeleteSegment, Copied, HoursIn, BlockOf
<1>5. ASSUME NEW r \in Requests, PublishRequest(r) PROVE Copied'
  <2>1. UNCHANGED <<cpc, cur, index, files>>
    BY <1>5 DEF PublishRequest
  <2>2. cpc \in {"unlink", "drop"} => hot'[cur] = hot[cur]
    BY <1>5, Numbers DEF PublishRequest, IInv, PassInOrder, TypeOK
  <2>3. cpc \in {"unlink", "drop"} =>
            HoursIn(cur)' = HoursIn(cur) /\ \A h : BlockOf(cur, h)' = BlockOf(cur, h)
    BY <2>1, <2>2 DEF HoursIn, BlockOf
  <2> QED
    BY <2>1, <2>3 DEF Copied
<1>6. Clients => UNCHANGED <<cpc, cur, hot, index, files>>
  BY DEF Clients, SealNow, Send, Refuse
<1>7. Writer => UNCHANGED <<cpc, cur, hot, index, files>>
                \/ \E r \in Requests : PublishRequest(r)
  BY DEF Writer, DrainGroup, GroupFailed, SyncGroup, SyncFails, SealFull, SealCommand,
         WriteRequest, WriteFails, PublishRequest
<1>8. Compactor => CommitFlush \/ DeleteSegment \/ cpc' \notin {"unlink", "drop"}
  BY DEF Compactor, StartPass, NextSegment, WriteBlock, WriteBlockFails, AbortPass, CommitFails,
         DeleteFails, DropGroup
<1>9. Retention \/ Crash => cpc' \notin {"unlink", "drop"}
  BY DEF Retention, Reclaim, Unlink, UnlinkFails, Crash
<1>10. Open => cpc' \notin {"unlink", "drop"}
  BY DEF Open, OpenLoads, OpenDone, OpenDeletes, OpenSweeps, IInv, TypeOK, TaskLocals
<1>11. CASE UNCHANGED vars
  BY <1>11, <1>2 DEF vars
<1> QED
  BY <1>1, <1>2, <1>3, <1>4, <1>5, <1>6, <1>7, <1>8, <1>9, <1>10, <1>11 DEF Next

\* The invariant of the refinement is inductive.
LEMMA StepRInv == ASSUME "torn" \notin Faults, RInv, [Next]_vars PROVE RInv'
BY StepInv, ExpiredStep, IndexedStep, CopiedStep DEF RInv

\* It holds in every reachable state unless a frame can be torn.
LEMMA RInvariant == ASSUME "torn" \notin Faults PROVE Spec => []RInv
<1>1. Init => RInv
  BY InitRInv
<1>2. RInv /\ [Next]_vars => RInv'
  BY StepRInv
<1> QED
  BY <1>1, <1>2, PTL DEF Spec

\* Memory serves above the watermark only what is on the disk, recovery
\* replays no segment the index lists, and a listed block has its file with
\* the spans of its own partition.
THEOREM PlacesAgreeHolds == ASSUME "torn" \notin Faults PROVE Spec => []PlacesAgree
<1>1. RInv => PlacesAgree
  BY DEF RInv, IInv, PlacesAgree
<1> QED
  BY <1>1, RInvariant, PTL

----------------------------------------------------------------------------
(***************************************************************************)
(* Every step is a step of the log or invisible to it.                     *)
(***************************************************************************)

\* A span is visible in a group in memory or in a listed block.
LEMMA VisibleIn ==
    /\ \A s : s \in Visible <=> \/ \E n \in Seqnos : \E rec \in hot[n] : rec[2] = s
                                \/ \E b \in index : s \in files[b]
    /\ \A s : s \in Visible' <=> \/ \E n \in Seqnos : \E rec \in hot'[n] : rec[2] = s
                                 \/ \E b \in index' : s \in files'[b]
BY DEF Visible, SpansIn

\* A span is owed if an unexpired record of it was acknowledged.
LEMMA OwedBy ==
    /\ \A s : s \in Owed <=> s \in Spans /\ \E r \in Requests :
            home[r] # 0 /\ s \in Batch[r] /\ <<home[r], HourOf[s]>> \notin expired
    /\ \A s : s \in Owed' <=> s \in Spans /\ \E r \in Requests :
            home'[r] # 0 /\ s \in Batch[r] /\ <<home'[r], HourOf[s]>> \notin expired'
BY DEF Owed

\* A reader sees spans and nothing else.
LEMMA VisibleSpans == TypeOK => Visible \subseteq Spans
<1> SUFFICES ASSUME TypeOK, NEW s \in Visible PROVE s \in Spans
  OBVIOUS
<1>1. CASE \E n \in Seqnos : \E rec \in hot[n] : rec[2] = s
  BY <1>1 DEF TypeOK, Records
<1>2. CASE \E b \in index : s \in files[b]
  BY <1>2 DEF TypeOK, DiskTypes
<1> QED
  BY <1>1, <1>2, VisibleIn

\* The log does not move when what a reader sees and what is owed stay.
LEMMA Stutter ==
    ASSUME UNCHANGED <<phase, home, expired>>, Visible' = Visible
    PROVE  UNCHANGED Log!vars
BY DEF Log!vars, Owed

\* Nor when no span is moved at all.
LEMMA Unmoved ==
    ASSUME UNCHANGED <<phase, home, expired, hot, index, files>>
    PROVE  UNCHANGED Log!vars
<1>1. Visible' = Visible
  BY DEF Visible
<1> QED
  BY <1>1, Stutter

\* An ACK is the log's Accept of the request's batch.
LEMMA PublishAccepts ==
    ASSUME RInv, NEW r \in Requests, PublishRequest(r)
    PROVE  Log!Accept(Batch[r])
<1> USE DEF RInv, IInv
<1>1. /\ active \in Seqnos /\ active > watermark
      /\ hot' = [hot EXCEPT ![active] = @ \cup RecordsOf(r)]
      /\ home' = [home EXCEPT ![r] = active]
      /\ UNCHANGED <<phase, index, files, expired>> /\ phase = "up"
  BY Numbers DEF PublishRequest, TypeOK, TaskLocals, ActiveIsLive, coldVars
<1>2. Visible' = Visible \cup Batch[r]
  <2>1. ASSUME NEW s \in Visible' PROVE s \in Visible \cup Batch[r]
    <3>1. CASE \E n \in Seqnos : \E rec \in hot'[n] : rec[2] = s
      <4>1. PICK n \in Seqnos : \E rec \in hot'[n] : rec[2] = s
        BY <3>1
      <4>2. PICK rec \in hot'[n] : rec[2] = s
        BY <4>1
      <4>3. rec \in hot[n] \/ rec \in RecordsOf(r)
        BY <1>1, <4>2 DEF TypeOK
      <4> QED
        BY <4>2, <4>3, VisibleIn DEF RecordsOf
    <3>2. CASE \E b \in index' : s \in files'[b]
      BY <1>1, <3>2, VisibleIn
    <3> QED
      BY <2>1, <3>1, <3>2, VisibleIn
  <2>2. ASSUME NEW s \in Visible PROVE s \in Visible'
    <3>1. \A n \in Seqnos : hot[n] \subseteq hot'[n]
      BY <1>1 DEF TypeOK
    <3> QED
      BY <1>1, <2>2, <3>1, VisibleIn
  <2>3. ASSUME NEW s \in Batch[r] PROVE s \in Visible'
    <3>1. <<r, s>> \in hot'[active]
      BY <1>1, <2>3 DEF TypeOK, RecordsOf
    <3> QED
      BY <1>1, <3>1, VisibleIn
  <2> QED
    BY <2>1, <2>2, <2>3
<1>3. Owed' = Owed \cup Batch[r]
  <2>0. expired' = expired
    BY <1>1
  <2>1. \A s \in Batch[r] : s \in Spans /\ <<active, HourOf[s]>> \notin expired
    BY <1>1, Numbers, DataAssumption DEF ExpiredIsCommitted
  <2>2. active # 0 /\ home'[r] = active /\ \A q \in Requests \ {r} : home'[q] = home[q]
    BY <1>1, Numbers DEF TypeOK, GhostTypes
  <2>3. ASSUME NEW s \in Owed' PROVE s \in Owed \cup Batch[r]
    <3>1. PICK q \in Requests :
              home'[q] # 0 /\ s \in Batch[q] /\ <<home'[q], HourOf[s]>> \notin expired'
      BY <2>3, OwedBy
    <3>2. CASE q = r
      BY <3>1, <3>2
    <3>3. CASE q # r
      <4>1. home[q] # 0 /\ <<home[q], HourOf[s]>> \notin expired
        BY <2>2, <2>0, <3>1, <3>3
      <4> QED
        BY <2>3, <3>1, <4>1, OwedBy
    <3> QED
      BY <3>2, <3>3
  <2>4. ASSUME NEW s \in Batch[r] PROVE s \in Owed'
    BY <2>0, <2>1, <2>2, <2>4, OwedBy
  <2>5. ASSUME NEW s \in Owed PROVE s \in Owed' \cup Batch[r]
    <3>1. PICK q \in Requests :
              home[q] # 0 /\ s \in Batch[q] /\ <<home[q], HourOf[s]>> \notin expired
      BY <2>5, OwedBy
    <3>2. CASE q = r
      BY <3>1, <3>2
    <3>3. CASE q # r
      <4>1. home'[q] # 0 /\ <<home'[q], HourOf[s]>> \notin expired'
        BY <2>2, <2>0, <3>1, <3>3
      <4> QED
        BY <2>5, <3>1, <4>1, OwedBy
    <3> QED
      BY <3>2, <3>3
  <2> QED
    BY <2>3, <2>4, <2>5
<1> QED
  BY <1>1, <1>2, <1>3 DEF Log!Accept

\* Writing a block before its commit shows a reader nothing.
LEMMA WriteUnseen ==
    ASSUME RInv, NEW h \in Hours, WriteBlock(h) PROVE UNCHANGED Log!vars
<1> USE DEF RInv, IInv, WriteBlock, procVars, compVars, ghostVars
<1>1. <<cur, h>> \notin index
  BY Numbers DEF PassInOrder, ReplayedIsNotCommitted
<1>2. \A b \in index : files'[b] = files[b]
  BY <1>1 DEF TypeOK, DiskTypes
<1>3. Visible' = Visible
  BY <1>2, VisibleIn
<1> QED
  BY <1>3, Stutter

\* The commit lists spans that are also in memory still.
LEMMA CommitUnseen == ASSUME RInv, CommitFlush PROVE UNCHANGED Log!vars
<1> USE DEF RInv, IInv, CommitFlush, IndexFlush, procVars, ghostVars
<1>1. cur \in Seqnos
  BY Numbers DEF TypeOK, TaskLocals
<1>2. \A b \in {cur} \X HoursIn(cur) : \A s \in files[b] : \E rec \in hot[cur] : rec[2] = s
  BY DEF AllWritten, BlockOf, SpansIn
<1>3. Visible' = Visible
  BY <1>1, <1>2, VisibleIn
<1> QED
  BY <1>3, Stutter

\* The group that leaves memory is all in listed blocks.
LEMMA DropUnseen == ASSUME RInv, DropGroup PROVE UNCHANGED Log!vars
<1> USE DEF RInv, IInv, DropGroup, DropSegment, procVars, coldVars, ghostVars
<1>1. cur \in Seqnos
  BY Numbers DEF TypeOK, TaskLocals
<1>2. ASSUME NEW rec \in hot[cur] PROVE \E b \in index : rec[2] \in files[b]
  <2>1. rec[2] \in SpansIn(hot[cur])
    BY <1>2 DEF SpansIn
  <2>2. HourOf[rec[2]] \in HoursIn(cur)
    BY <2>1 DEF HoursIn
  <2>3. <<cur, HourOf[rec[2]]>> \in index /\ rec[2] \in files[<<cur, HourOf[rec[2]]>>]
    BY <2>1, <2>2 DEF Copied, BlockOf
  <2> QED
    BY <2>3
<1>3. \A n \in Seqnos : hot'[n] = IF n = cur THEN {} ELSE hot[n]
  BY <1>1 DEF TypeOK
<1>4. Visible' \subseteq Visible
  BY <1>3, VisibleIn
<1>5. ASSUME NEW s \in Visible PROVE s \in Visible'
  <2>1. CASE \E n \in Seqnos : \E rec \in hot[n] : rec[2] = s
    <3>1. PICK n \in Seqnos : \E rec \in hot[n] : rec[2] = s
      BY <2>1
    <3>2. CASE n = cur
      BY <1>2, <3>1, <3>2, VisibleIn
    <3>3. CASE n # cur
      BY <1>3, <3>1, <3>3, VisibleIn
    <3> QED
      BY <3>2, <3>3
  <2>2. CASE \E b \in index : s \in files[b]
    BY <2>2, VisibleIn
  <2> QED
    BY <1>5, <2>1, <2>2, VisibleIn
<1>6. Visible' = Visible
  BY <1>4, <1>5
<1> QED
  BY <1>6, Stutter

\* An unlinked block is listed no more.
LEMMA UnlinkUnseen == ASSUME RInv, NEW b \in Blocks, Unlink(b) PROVE UNCHANGED Log!vars
<1> USE DEF RInv, IInv, Unlink, procVars, ghostVars
<1>1. \A d \in index : files'[d] = files[d]
  BY DEF DoomedUnlisted, TypeOK, DiskTypes
<1>2. Visible' = Visible
  BY <1>1, VisibleIn
<1> QED
  BY <1>2, Stutter

\* Forgetting blocks is the log's Expire: what is gone was not owed.
LEMMA ReclaimExpires ==
    ASSUME RInv, ReadYourWrites', NEW c, Reclaim(c)
    PROVE  Log!Expire(Owed \ Owed', Visible \ Visible')
<1> USE DEF Reclaim, procVars
<1>1. Visible' \subseteq Visible
  BY VisibleIn
<1>2. Owed' \subseteq Owed
  BY DEF Owed
<1>3. Owed' \subseteq Visible'
  BY DEF ReadYourWrites
<1> QED
  BY <1>1, <1>2, <1>3 DEF Log!Expire

\* The end of recovery is the log's Start: everything owed is shown.
LEMMA OpenStarts ==
    ASSUME OpenDone, ReadYourWrites', Visible' \subseteq Spans PROVE Log!Start
<1>1. Owed' = Owed
  BY DEF OpenDone, Owed, ghostVars
<1> QED
  BY <1>1 DEF OpenDone, ReadYourWrites, Log!Start

\* Until then the store is closed, and shows nothing.
LEMMA RecoveryUnseen ==
    ASSUME phase # "up", phase' # "up", UNCHANGED <<home, expired>>
    PROVE  UNCHANGED Log!vars
BY DEF Log!vars, Owed

\* The writer's only step a reader sees is the ACK.
LEMMA WriterLog == ASSUME RInv, Writer PROVE [Log!Next]_(Log!vars)
<1>1. CASE UNCHANGED <<phase, home, expired, hot, index, files>>
  BY <1>1, Unmoved
<1>2. ASSUME NEW r \in Requests, PublishRequest(r) PROVE Log!Next
  <2>1. Batch[r] \in SUBSET Spans
    BY DataAssumption
  <2> QED
    BY <1>2, <2>1, PublishAccepts DEF Log!Next
<1>3. \/ UNCHANGED <<phase, home, expired, hot, index, files>>
      \/ \E r \in Requests : PublishRequest(r)
  BY DEF Writer, DrainGroup, GroupFailed, SyncGroup, SyncFails, SealFull, SealCommand,
         WriteRequest, WriteFails, coldVars, ghostVars
<1> QED
  BY <1>1, <1>2, <1>3

\* No step of the compactor is seen.
LEMMA CompactorLog == ASSUME RInv, Compactor PROVE UNCHANGED Log!vars
<1>1. CASE UNCHANGED <<phase, home, expired, hot, index, files>>
  BY <1>1, Unmoved
<1>2. \/ UNCHANGED <<phase, home, expired, hot, index, files>>
      \/ CommitFlush \/ DropGroup \/ \E h \in Hours : WriteBlock(h)
  BY DEF Compactor, StartPass, WriteBlockFails, CommitFails, DeleteSegment, DeleteFails,
         procVars, coldVars, ghostVars
<1> QED
  BY <1>1, <1>2, WriteUnseen, CommitUnseen, DropUnseen

\* Retention is seen when the index forgets the blocks.
LEMMA RetentionLog ==
    ASSUME RInv, ReadYourWrites', Retention PROVE [Log!Next]_(Log!vars)
<1>1. ASSUME NEW c \in Hours \cup {h + 1 : h \in Hours}, Reclaim(c) PROVE Log!Next
  <2>1. Owed \ Owed' \in SUBSET Owed /\ Visible \ Visible' \in SUBSET Visible
    OBVIOUS
  <2>2. phase = "up"
    BY <1>1 DEF Reclaim
  <2> QED
    BY <1>1, <2>1, <2>2, ReclaimExpires DEF Log!Next
<1>2. CASE UnlinkFails
  BY <1>2, Unmoved DEF UnlinkFails, procVars, coldVars, ghostVars
<1> QED
  BY <1>1, <1>2, UnlinkUnseen DEF Retention

\* A crash stops the log, the end of recovery starts it.
LEMMA CrashLog == ASSUME RInv, Crash PROVE [Log!Next]_(Log!vars)
<1>1. UNCHANGED <<home, expired>> /\ phase # "down" /\ phase' = "down"
  BY DEF Crash
<1>2. CASE phase # "up"
  BY <1>1, <1>2, RecoveryUnseen
<1>3. CASE phase = "up"
  BY <1>1, <1>3 DEF Log!Next, Log!Stop, Owed
<1> QED
  BY <1>2, <1>3

\* Opening the store shows nothing until it is done.
LEMMA OpenLog ==
    ASSUME ReadYourWrites', Visible' \subseteq Spans, Open PROVE [Log!Next]_(Log!vars)
<1>1. CASE OpenDone
  BY <1>1, OpenStarts DEF Log!Next
<1>2. CASE ~OpenDone
  BY <1>2, RecoveryUnseen DEF Open, OpenLoads, OpenDeletes, OpenSweeps, procVars, ghostVars
<1> QED
  BY <1>1, <1>2

\* A step of the store is a step of the log, or stutters.
LEMMA StepLog ==
    ASSUME RInv, ReadYourWrites', Visible' \subseteq Spans, [Next]_vars
    PROVE  [Log!Next]_(Log!vars)
<1>1. CASE Clients
  BY <1>1, Unmoved DEF Clients, SealNow, Send, Refuse, procVars, coldVars, ghostVars
<1>2. CASE UNCHANGED vars
  BY <1>2, Unmoved DEF vars, procVars, coldVars, ghostVars
<1> QED
  BY <1>1, <1>2, WriterLog, CompactorLog, RetentionLog, CrashLog, OpenLog DEF Next

\* The store is a log of spans: flushing, committing, truncating, sweeping
\* and replaying are invisible, and only retention takes a span away.
THEOREM ImplementsLogHolds == ASSUME "torn" \notin Faults PROVE Spec => ImplementsLog
<1>1. Init => Log!Init
  BY DEF Init, Log!Init, Owed
<1>2. RInv /\ RInv' /\ [Next]_vars => [Log!Next]_(Log!vars)
  <2>1. RInv => ReadYourWrites /\ Visible \subseteq Spans
    BY InvReadYourWrites, VisibleSpans DEF RInv, IInv
  <2>2. RInv' => ReadYourWrites' /\ (Visible \subseteq Spans)'
    BY <2>1, PTL
  <2> SUFFICES ASSUME RInv, RInv', [Next]_vars PROVE [Log!Next]_(Log!vars)
    OBVIOUS
  <2>3. ReadYourWrites' /\ Visible' \subseteq Spans
    BY <2>2
  <2> QED
    BY <2>3, StepLog
<1> QED
  BY <1>1, <1>2, RInvariant, PTL DEF Spec, ImplementsLog, Log!Spec

\* What a client may rely on, stated without segments, groups or blocks. While
\* the log is up, no step hides a span that is owed: Expire drops only what is
\* no longer owed, and Start shows all that is.
LEMMA PromiseIsInductive == Log!PromiseKept /\ [Log!Next]_(Log!vars) => Log!PromiseKept'
<1> SUFFICES ASSUME Log!PromiseKept, [Log!Next]_(Log!vars) PROVE Log!PromiseKept'
  OBVIOUS
<1>1. ASSUME NEW S \in SUBSET Spans, Log!Accept(S) PROVE Log!PromiseKept'
  BY <1>1 DEF Log!PromiseKept, Log!Accept
<1>2. ASSUME NEW S \in SUBSET Owed, NEW T \in SUBSET (IF phase = "up" THEN Visible ELSE {}), Log!Expire(S, T)
      PROVE  Log!PromiseKept'
  BY <1>2 DEF Log!PromiseKept, Log!Expire
<1>3. CASE Log!Stop
  BY <1>3 DEF Log!PromiseKept, Log!Stop
<1>4. CASE Log!Start
  BY <1>4 DEF Log!PromiseKept, Log!Start
<1>5. CASE UNCHANGED Log!vars
  BY <1>5 DEF Log!PromiseKept, Log!vars
<1> QED
  BY <1>1, <1>2, <1>3, <1>4, <1>5 DEF Log!Next

\* The promise of Store::append and Store::query follows from the abstract log
\* alone: a running store returns every span it acknowledged and retention has
\* not expired.
THEOREM PromiseHolds == Log!Spec => []Log!PromiseKept
<1>1. Log!Init => Log!PromiseKept
  BY DEF Log!Init, Log!PromiseKept
<1> QED
  BY <1>1, PromiseIsInductive, PTL DEF Log!Spec

\* The store keeps the promise of the log it implements, through every flush,
\* commit, sweep, crash and recovery.
COROLLARY StoreKeepsPromise == ASSUME "torn" \notin Faults PROVE Spec => []Log!PromiseKept
BY ImplementsLogHolds, PromiseHolds, PTL DEF ImplementsLog
=============================================================================
