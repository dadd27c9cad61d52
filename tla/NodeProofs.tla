----------------------------- MODULE NodeProofs -----------------------------
(***************************************************************************)
(* What Node promises of a data directory and the processes on it, proved  *)
(* for any processes, setups, requests and machines: only a request that   *)
(* may write changes the store (OnlyWritersWrite); and, when processes     *)
(* start one at a time, the format marker is whole, honest and obeyed      *)
(* (FormatRespected) and doctor's verdict is that of serve (DoctorAgrees). *)
(***************************************************************************)
EXTENDS Node, FoldFacts

Stamping == {"create", "fill", "sync", "rename", "dirsync"}
Holding == {"open", "work", "serving"}
Ends == {None, "done", "killed", "dir", "marker", "locked", "port", "holds data",
         "auth", "address", "redaction", "rollup", "price", "disk"}

\* The shapes of the variables.
Typed ==
    /\ marker \in Markers \cup {None} /\ tmp \in Markers \cup {None}
    /\ entrySynced \in BOOLEAN /\ tree \in BOOLEAN
    /\ st = [hot |-> st.hot, blocks |-> st.blocks, db |-> st.db]
    /\ lock \in Procs \cup {None}
    /\ pc \in [Procs -> {"off", "config", "inspect", "lock"} \cup Stamping \cup Holding]
    /\ setup \in [Procs -> Setups \cup {None}] /\ ended \in [Procs -> Ends]
    /\ seen \in [Procs -> {None, "fresh", "legacy"}]
    /\ doors \in [Doors -> {"closed", "binding", "open"}]
    /\ slot = [d \in Doors |-> [req |-> slot[d].req, reply |-> slot[d].reply]]

\* One process has the store, and only it has doors with requests at them.
Exclusive ==
    /\ \A p \in Procs : pc[p] \in Holding <=> lock = p
    /\ \A p \in Procs : pc[p] # "off" => setup[p] \in Setups
    /\ \A d \in Doors : doors[d] # "closed" \/ slot[d] # Idle => lock # None /\ pc[lock] = "serving"
    /\ \A d \in Doors : slot[d].req \in Requests(d) \cup {None}

\* Processes start one at a time.
Lone == \A p, q \in Starting : p = q

\* The marker, the file it is made of, and who is past the look at it.
Honest(f) == f.whole /\ f.format = Version /\ (place.born = "legacy" => f.from = "legacy")
Stamper(p) ==
    /\ pc[p] \in {"create", "fill"} => (place.born = "legacy" => seen[p] = "legacy")
    /\ pc[p] \in {"sync", "rename"} => tmp # None /\ Honest(tmp)
    /\ pc[p] = "rename" => tmp.synced
    /\ pc[p] \in {"dirsync", "lock"} \cup Holding => marker # None
HonestMarker ==
    /\ place.born # "fresh" => tree
    /\ marker # None => /\ marker.whole /\ marker.synced
                        /\ place.born = "legacy" => marker.from = "legacy"
LeftAlone ==
    ~Readable => /\ tmp = None /\ entrySynced /\ lock = None
                 /\ \A p \in Procs : pc[p] \in {"off", "config", "inspect"}
Directory == HonestMarker /\ LeftAlone /\ \A p \in Procs : Stamper(p)

\* What a process has got past no longer stands in its way.
PassedAt(p) ==
    /\ pc[p] \notin {"off", "config"} /\ setup[p].cmd = "serve" => ServeRefusal(setup[p]) = None
    /\ pc[p] \notin {"off", "config", "inspect"} => place.dir # "file"
    /\ pc[p] \in Holding => place.dir # "readonly"
Passed == \A p \in Procs : PassedAt(p)

----------------------------------------------------------------------------
(***************************************************************************)
(* Shapes and the lock.                                                    *)
(***************************************************************************)

\* The end of a process takes its lock, its doors and what is at them along.
LEMMA LeaveKeeps ==
    ASSUME Typed, Exclusive, NEW p \in Procs, NEW why \in Ends, Leave(p, why)
    PROVE  /\ lock' \in Procs \cup {None}
           /\ pc' = [pc EXCEPT ![p] = "off"] /\ pc' \in [Procs -> {"off", "config", "inspect", "lock"} \cup Stamping \cup Holding]
           /\ setup' \in [Procs -> Setups \cup {None}] /\ ended' \in [Procs -> Ends]
           /\ ended' = [ended EXCEPT ![p] = why]
           /\ seen' \in [Procs -> {None, "fresh", "legacy"}]
           /\ doors' \in [Doors -> {"closed", "binding", "open"}]
           /\ slot' = [d \in Doors |-> [req |-> slot'[d].req, reply |-> slot'[d].reply]]
           /\ \A q \in Procs \ {p} : setup'[q] = setup[q] /\ seen'[q] = seen[q]
           /\ \A d \in Doors : slot'[d] \in {slot[d], Idle}
           /\ Exclusive'
<1> USE DEF Typed
<1>1. /\ pc' = [pc EXCEPT ![p] = "off"] /\ ended' = [ended EXCEPT ![p] = why]
      /\ setup' = [setup EXCEPT ![p] = None] /\ seen' = [seen EXCEPT ![p] = None]
  BY DEF Leave, Goto
<1>2. CASE lock = p
  <2>1. lock' = None /\ doors' = [d \in Doors |-> "closed"] /\ slot' = [d \in Doors |-> Idle]
    BY <1>2 DEF Leave
  <2>2. \A q \in Procs : pc'[q] \notin Holding
    BY <1>1, <1>2 DEF Exclusive, Holding
  <2>3. \A d \in Doors : doors'[d] = "closed" /\ slot'[d] = Idle /\ slot'[d].req = None /\ slot'[d].reply = None
    BY <2>1 DEF Idle
  <2>4. \A q \in Procs : pc'[q] # "off" => setup'[q] \in Setups
    BY <1>1 DEF Exclusive
  <2>5. Exclusive'
    BY <2>1, <2>2, <2>3, <2>4, InputAssumption DEF Exclusive
  <2> QED
    BY <1>1, <2>1, <2>3, <2>5 DEF Idle
<1>3. CASE lock # p
  <2>1. UNCHANGED <<lock, doors, slot>>
    BY <1>3 DEF Leave, doorVars
  <2>2. \A q \in Procs : pc'[q] \in Holding <=> lock' = q
    BY <1>1, <1>3, <2>1 DEF Exclusive, Holding
  <2>3. \A q \in Procs : pc'[q] # "off" => setup'[q] \in Setups
    BY <1>1 DEF Exclusive
  <2>4. \A d \in Doors : doors'[d] # "closed" \/ slot'[d] # Idle => lock' # None /\ pc'[lock'] = "serving"
    <3> TAKE d \in Doors
    <3> HAVE doors'[d] # "closed" \/ slot'[d] # Idle
    <3>1. lock # None /\ pc[lock] = "serving" /\ lock \in Procs /\ lock # p
      BY <1>3, <2>1 DEF Exclusive
    <3> QED
      BY <1>1, <2>1, <3>1
  <2>5. \A d \in Doors : slot'[d].req \in Requests(d) \cup {None}
    BY <2>1 DEF Exclusive
  <2>6. Exclusive'
    BY <2>2, <2>3, <2>4, <2>5 DEF Exclusive, Requests
  <2> QED
    BY <1>1, <2>1, <2>6
<1> QED
  BY <1>2, <1>3

\* A process that moves on, and neither takes the store nor leaves it.
LEMMA MoveKeeps ==
    ASSUME Typed, Exclusive, NEW p \in Procs, NEW where, Goto(p, where), where # "off",
           where \in {"config", "inspect", "lock"} \cup Stamping, pc[p] \notin Holding,
           setup'[p] \in Setups, \A q \in Procs \ {p} : setup'[q] = setup[q],
           UNCHANGED <<lock, doors, slot>>
    PROVE  Exclusive' /\ pc' \in [Procs -> {"off", "config", "inspect", "lock"} \cup Stamping \cup Holding]
<1> USE DEF Typed
<1>1. pc' = [pc EXCEPT ![p] = where] /\ where \notin Holding
  BY DEF Goto, Stamping, Holding
<1>2. pc' \in [Procs -> {"off", "config", "inspect", "lock"} \cup Stamping \cup Holding]
  BY <1>1
<1>3. \A q \in Procs : pc'[q] \in Holding <=> lock' = q
  BY <1>1 DEF Exclusive
<1>4. \A q \in Procs : pc'[q] # "off" => setup'[q] \in Setups
  BY <1>1 DEF Exclusive
<1>5. \A d \in Doors : doors'[d] # "closed" \/ slot'[d] # Idle => lock' # None /\ pc'[lock'] = "serving"
  <2> TAKE d \in Doors
  <2> HAVE doors'[d] # "closed" \/ slot'[d] # Idle
  <2>1. lock # None /\ pc[lock] = "serving" /\ lock \in Procs /\ lock # p
    BY DEF Exclusive, Holding
  <2> QED
    BY <1>1, <2>1
<1>6. \A d \in Doors : slot'[d].req \in Requests(d) \cup {None}
  BY DEF Exclusive
<1> QED
  BY <1>2, <1>3, <1>4, <1>5, <1>6 DEF Exclusive, Requests

\* A step at the doors of the process that serves.
LEMMA DoorKeeps ==
    ASSUME Typed, Exclusive, UNCHANGED procVars,
           \A d \in Doors : slot'[d].req \in Requests(d) \cup {None},
           \A d \in Doors : (doors'[d] # "closed" \/ slot'[d] # Idle) =>
               \E e \in Doors : doors[e] # "closed" \/ slot[e] # Idle
    PROVE  Exclusive'
<1>1. UNCHANGED <<pc, setup, ended, seen, lock>>
  BY DEF procVars
<1> QED
  BY <1>1 DEF Exclusive, Requests

\* What a request does to the store keeps its shape.
Shaped(s) == s = [hot |-> s.hot, blocks |-> s.blocks, db |-> s.db]

LEMMA UpdatesShape ==
    ASSUME NEW s, Shaped(s), NEW h, NEW b
    PROVE  /\ Shaped([s EXCEPT !.hot = h, !.blocks = b]) /\ Shaped([s EXCEPT !.blocks = b])
           /\ Shaped([s EXCEPT !.hot = h, !.db = b]) /\ Shaped([s EXCEPT !.db = b])
<1>1. \A x, y, z : [[hot |-> x, blocks |-> y, db |-> z] EXCEPT !.hot = h] = [hot |-> h, blocks |-> y, db |-> z]
  OBVIOUS
<1>2. \A x, y, z : [[hot |-> x, blocks |-> y, db |-> z] EXCEPT !.blocks = b] = [hot |-> x, blocks |-> b, db |-> z]
  OBVIOUS
<1>3. \A x, y, z : [[hot |-> x, blocks |-> y, db |-> z] EXCEPT !.db = b] = [hot |-> x, blocks |-> y, db |-> b]
  OBVIOUS
<1>4. \A x, y, z : Shaped([hot |-> x, blocks |-> y, db |-> z])
  BY DEF Shaped
<1>5. [s EXCEPT !.hot = h] = [hot |-> h, blocks |-> s.blocks, db |-> s.db]
  BY <1>1 DEF Shaped
<1>6. [s EXCEPT !.blocks = b] = [hot |-> s.hot, blocks |-> b, db |-> s.db]
  BY <1>2 DEF Shaped
<1>7. [s EXCEPT !.db = b] = [hot |-> s.hot, blocks |-> s.blocks, db |-> b]
  BY <1>3 DEF Shaped
<1>8. [s EXCEPT !.hot = h, !.blocks = b] = [[s EXCEPT !.hot = h] EXCEPT !.blocks = b]
  OBVIOUS
<1>9. [s EXCEPT !.hot = h, !.db = b] = [[s EXCEPT !.hot = h] EXCEPT !.db = b]
  OBVIOUS
<1>10. Shaped([[s EXCEPT !.hot = h] EXCEPT !.blocks = b]) /\ Shaped([[s EXCEPT !.hot = h] EXCEPT !.db = b])
  <2> DEFINE t == [s EXCEPT !.hot = h]
  <2>1. t = [hot |-> h, blocks |-> s.blocks, db |-> s.db]
    BY <1>5
  <2>2. [t EXCEPT !.blocks = b] = [hot |-> h, blocks |-> b, db |-> s.db]
    <3> HIDE DEF t
    <3> QED
      BY <1>2, <2>1
  <2>3. [t EXCEPT !.db = b] = [hot |-> h, blocks |-> s.blocks, db |-> b]
    <3> HIDE DEF t
    <3> QED
      BY <1>3, <2>1
  <2> QED
    BY <1>4, <2>2, <2>3
<1> QED
  BY <1>4, <1>6, <1>7, <1>8, <1>9, <1>10

LEMMA WorksShape ==
    ASSUME NEW s, Shaped(s), NEW cutoff
    PROVE  Shaped(Flushed(s)) /\ Shaped(Merged(s)) /\ Shaped(Reclaimed(s, cutoff))
<1>1. \A h, b : Shaped([s EXCEPT !.hot = h, !.blocks = b]) /\ Shaped([s EXCEPT !.blocks = b])
  BY UpdatesShape
<1>2. Shaped(Flushed(s))
  BY <1>1 DEF Flushed
<1>3. Shaped(Merged(s))
  BY <1>1 DEF Merged
<1>4. Shaped(Reclaimed(s, cutoff))
  BY <1>1 DEF Reclaimed
<1> QED
  BY <1>2, <1>3, <1>4

LEMMA OutcomeShape ==
    ASSUME Shaped(st), NEW d \in Doors, NEW r
    PROVE  Shaped(Outcome(d, r).st)
<1>1. \A h, b : Shaped([st EXCEPT !.hot = h, !.db = b]) /\ Shaped([st EXCEPT !.db = b])
  BY UpdatesShape
<1>2. Shaped(Accepts(r).st)
  BY <1>1 DEF Accepts
<1>3. Shaped(Mcp(r).st)
  BY <1>1 DEF Mcp
<1>4. Shaped(Routed(r).st)
  BY <1>2, <1>3 DEF Routed
<1> QED
  BY <1>2, <1>4 DEF Outcome

\* The steps of one process.
LEMMA ProceedKeeps ==
    ASSUME Typed, Exclusive, NEW p \in Procs, Proceed(p)
    PROVE  Typed' /\ Exclusive'
<1> DEFINE Phases == {"off", "config", "inspect", "lock"} \cup Stamping \cup Holding
<1>1. ASSUME NEW why \in Ends, Leave(p, why), tree' \in BOOLEAN, Shaped(st'),
             entrySynced' \in BOOLEAN, UNCHANGED <<marker, tmp>>
      PROVE  Typed' /\ Exclusive'
  BY <1>1, LeaveKeeps DEF Typed, Shaped
<1>2. ASSUME NEW where \in {"inspect", "lock"} \cup Stamping, Goto(p, where), pc[p] \notin Holding, pc[p] # "off",
             UNCHANGED <<setup, ended, lock, doors, slot, st, tree>>, entrySynced' \in BOOLEAN,
             seen' \in [Procs -> {None, "fresh", "legacy"}],
             marker' \in Markers \cup {None}, tmp' \in Markers \cup {None}
      PROVE  Typed' /\ Exclusive'
  <2>1. setup'[p] \in Setups /\ \A q \in Procs \ {p} : setup'[q] = setup[q]
    BY <1>2 DEF Exclusive
  <2>2. where # "off" /\ where \in {"config", "inspect", "lock"} \cup Stamping
    BY DEF Stamping
  <2>3. Exclusive' /\ pc' \in [Procs -> Phases]
    BY <1>2, <2>1, <2>2, MoveKeeps
  <2> QED
    BY <1>2, <2>3 DEF Typed
<1> HIDE DEF Phases
<1>3. CASE Configure(p)
  <2>1. pc[p] = "config" /\ UNCHANGED <<marker, tmp, entrySynced, tree, st>>
    BY <1>3 DEF Configure, dirVars
  <2>2. CASE Leave(p, Refusal(setup[p]))
    <3>1. Refusal(setup[p]) \in Ends
      BY DEF Refusal, ServeRefusal, Ends
    <3> QED
      BY <1>1, <2>1, <2>2, <3>1 DEF Typed, Shaped
  <2>3. CASE Leave(p, "done")
    BY <1>1, <2>1, <2>3 DEF Typed, Shaped, Ends
  <2>4. CASE Goto(p, "inspect") /\ UNCHANGED <<setup, ended, seen, lock, doorVars>>
    BY <1>2, <2>1, <2>4 DEF Typed, Holding, doorVars
  <2> QED
    BY <1>3, <2>2, <2>3, <2>4 DEF Configure
<1>4. CASE Inspect(p)
  <2>1. pc[p] = "inspect" /\ UNCHANGED <<marker, tmp, entrySynced, tree, st>> /\ Inspects(p)
    BY <1>4 DEF Inspect, Inspects, dirVars
  <2>2. ASSUME NEW why \in {"dir", "marker", "done"}, Leave(p, why) PROVE Typed' /\ Exclusive'
    BY <1>1, <2>1, <2>2 DEF Typed, Shaped, Ends
  <2>3. ASSUME NEW where \in {"create", "lock"}, Goto(p, where), seen' = [seen EXCEPT ![p] = FormatState],
               UNCHANGED <<setup, ended, lock, doorVars>>
        PROVE  Typed' /\ Exclusive'
    <3>1. seen' \in [Procs -> {None, "fresh", "legacy"}]
      BY <2>3 DEF Typed, FormatState
    <3>2. where \in {"inspect", "lock"} \cup Stamping
      BY DEF Stamping
    <3> QED
      BY <1>2, <2>1, <2>3, <3>1, <3>2 DEF Typed, Holding, doorVars
  <2> QED
    BY <2>1, <2>2, <2>3 DEF Inspects
<1>5. CASE TmpCreated(p) \/ TmpFilled(p) \/ TmpSynced(p) \/ Renamed(p)
  <2>1. \E from, to \in Stamping : Stamps(p, from, to)
    BY <1>5 DEF TmpCreated, TmpFilled, TmpSynced, Renamed, Stamping
  <2>2. PICK from, to \in Stamping : Stamps(p, from, to)
    BY <2>1
  <2>3. /\ pc[p] \in Stamping /\ pc[p] # "off" /\ pc[p] \notin Holding /\ Goto(p, to)
        /\ UNCHANGED <<setup, ended, seen, lock, doors, slot, st, tree>>
    BY <2>2 DEF Stamps, Stamping, Holding, doorVars
  <2>4. marker' \in Markers \cup {None} /\ tmp' \in Markers \cup {None}
    <3>1. CASE TmpCreated(p)
      BY <3>1 DEF TmpCreated, Typed, Markers, Version
    <3>2. CASE TmpFilled(p)
      BY <3>2 DEF TmpFilled, Typed, Markers, Version
    <3>3. CASE TmpSynced(p)
      <4>1. tmp \in Markers
        BY <3>3 DEF TmpSynced, Typed
      <4>2. [tmp EXCEPT !.synced = TRUE] \in Markers
        BY <4>1 DEF Markers
      <4> QED
        BY <3>3, <4>2 DEF TmpSynced, Typed
    <3>4. CASE Renamed(p)
      BY <3>4 DEF Renamed, Typed
    <3> QED
      BY <1>5, <3>1, <3>2, <3>3, <3>4
  <2>5. entrySynced' \in BOOLEAN
    BY <1>5 DEF TmpCreated, TmpFilled, TmpSynced, Renamed, Typed
  <2> QED
    BY <1>2, <2>3, <2>4, <2>5 DEF Typed
<1>6. CASE DirSynced(p)
  <2>1. pc[p] = "dirsync" /\ entrySynced' = TRUE /\ UNCHANGED <<marker, tmp, tree, st>>
    BY <1>6 DEF DirSynced
  <2>2. CASE Leave(p, "done")
    BY <1>1, <2>1, <2>2 DEF Typed, Shaped, Ends
  <2>3. CASE Goto(p, "lock") /\ UNCHANGED <<setup, ended, seen, lock, doorVars>>
    BY <1>2, <2>1, <2>3 DEF Typed, Holding, doorVars
  <2> QED
    BY <1>6, <2>2, <2>3 DEF DirSynced
<1>7. CASE StampFails(p) \/ Kill(p)
  <2>1. \E why \in {"dir", "killed"} : Leave(p, why)
    BY <1>7 DEF StampFails, Kill
  <2>2. UNCHANGED <<marker, tmp, entrySynced, tree, st>>
    BY <1>7 DEF StampFails, Kill, dirVars
  <2> QED
    BY <1>1, <2>1, <2>2 DEF Typed, Shaped, Ends
<1>8. CASE Opens(p)
  <2>1. pc[p] = "lock" /\ UNCHANGED <<marker, tmp, entrySynced, st>> /\ tree' \in BOOLEAN
    BY <1>8 DEF Opens, Typed
  <2>2. ASSUME NEW why \in {"dir", "locked"}, Leave(p, why) PROVE Typed' /\ Exclusive'
    BY <1>1, <2>1, <2>2 DEF Typed, Shaped, Ends
  <2>3. ASSUME lock = None, lock' = p, NEW where \in {"open", "work"}, Goto(p, where),
               UNCHANGED <<setup, ended, seen, doorVars>>
        PROVE  Typed' /\ Exclusive'
    <3>1. pc' = [pc EXCEPT ![p] = where] /\ UNCHANGED <<doors, slot>> /\ setup' = setup
      BY <2>3 DEF Goto, doorVars
    <3>2. \A q \in Procs : pc'[q] \in Holding <=> lock' = q
      BY <2>3, <3>1, InputAssumption DEF Exclusive, Holding, Typed
    <3>3. \A q \in Procs : pc'[q] # "off" => setup'[q] \in Setups
      BY <2>1, <3>1 DEF Exclusive, Typed
    <3>4. \A d \in Doors : doors'[d] = "closed" /\ slot'[d] = Idle
      BY <2>3, <3>1 DEF Exclusive
    <3>5. \A d \in Doors : slot'[d].req \in Requests(d) \cup {None}
      BY <3>1 DEF Exclusive
    <3>6. Exclusive'
      BY <3>2, <3>3, <3>4, <3>5 DEF Exclusive, Requests
    <3> QED
      BY <2>1, <2>3, <3>1, <3>6 DEF Typed, Holding
  <2> QED
    BY <1>8, <2>2, <2>3 DEF Opens
<1>9. CASE Works(p)
  <2>1. UNCHANGED <<marker, tmp, entrySynced, tree>> /\ Leave(p, "done")
    BY <1>9 DEF Works, dirVars
  <2>2. Shaped(st)
    BY DEF Typed, Shaped
  <2>3. Shaped(st')
    <3> DEFINE c == setup[p]
               demo == [st EXCEPT !.hot = @ \o DemoSpans, !.db = PutBatch(@, DemoScores)]
    <3>1. Shaped(demo)
      BY <2>2, UpdatesShape
    <3>2. st' \in {Merged(st), Reclaimed(st, c.cutoff), Flushed(demo), st}
      BY <1>9 DEF Works
    <3> HIDE DEF demo
    <3> QED
      BY <2>2, <3>1, <3>2, WorksShape
  <2> QED
    BY <1>1, <2>1, <2>3 DEF Typed, Ends
<1>10. CASE Serves(p)
  <2>1. pc[p] = "open" /\ UNCHANGED <<marker, tmp, entrySynced, tree, st>>
    BY <1>10 DEF Serves, dirVars
  <2>2. CASE Leave(p, "port")
    BY <1>1, <2>1, <2>2 DEF Typed, Shaped, Ends
  <2>3. ASSUME Goto(p, "serving"), UNCHANGED <<setup, ended, seen, lock, slot>>,
               \/ doors' = [doors EXCEPT !["stdio"] = "open"]
               \/ doors' = [doors EXCEPT !["http"] = "open", !["grpc"] = "binding"]
               \/ doors' = [doors EXCEPT !["http"] = "open"]
        PROVE  Typed' /\ Exclusive'
    <3>1. pc' = [pc EXCEPT ![p] = "serving"] /\ lock = p
      BY <2>1, <2>3 DEF Goto, Exclusive, Holding
    <3>2. pc' \in [Procs -> {"off", "config", "inspect", "lock"} \cup Stamping \cup Holding]
      BY <3>1 DEF Typed, Holding
    <3>3. doors' \in [Doors -> {"closed", "binding", "open"}]
      BY <2>3 DEF Typed, Doors
    <3>4. \A q \in Procs : pc'[q] \in Holding <=> lock' = q
      BY <2>1, <2>3, <3>1 DEF Exclusive, Holding, Typed
    <3>5. \A q \in Procs : pc'[q] # "off" => setup'[q] \in Setups
      BY <2>1, <2>3, <3>1 DEF Exclusive, Typed
    <3>6. lock' # None /\ pc'[lock'] = "serving"
      BY <2>3, <3>1, InputAssumption DEF Typed
    <3>7. \A d \in Doors : slot'[d].req \in Requests(d) \cup {None}
      BY <2>3 DEF Exclusive
    <3>8. Exclusive'
      BY <3>4, <3>5, <3>6, <3>7 DEF Exclusive, Requests
    <3> QED
      BY <2>1, <2>3, <3>2, <3>3, <3>8 DEF Typed
  <2> QED
    BY <1>10, <2>2, <2>3 DEF Serves
<1>11. CASE BindsGrpc(p)
  <2>1. doors["grpc"] = "binding" /\ UNCHANGED <<marker, tmp, entrySynced, tree, st>>
    BY <1>11 DEF BindsGrpc, dirVars
  <2>2. CASE Leave(p, "port")
    BY <1>1, <2>1, <2>2 DEF Typed, Shaped, Ends
  <2>3. CASE doors' = [doors EXCEPT !["grpc"] = "open"] /\ UNCHANGED <<procVars, slot>>
    <3>1. "grpc" \in Doors /\ doors["grpc"] # "closed"
      BY <2>1 DEF Doors
    <3>2. Exclusive'
      <4>1. \A d \in Doors : slot'[d].req \in Requests(d) \cup {None}
        BY <2>3 DEF Exclusive
      <4>2. \A d \in Doors : (doors'[d] # "closed" \/ slot'[d] # Idle) =>
                 \E e \in Doors : doors[e] # "closed" \/ slot[e] # Idle
        BY <3>1
      <4> QED
        BY <2>3, <4>1, <4>2, DoorKeeps
    <3>3. doors' \in [Doors -> {"closed", "binding", "open"}]
      BY <2>3 DEF Typed
    <3> QED
      BY <2>1, <2>3, <3>2, <3>3 DEF Typed, procVars
  <2> QED
    BY <1>11, <2>2, <2>3 DEF BindsGrpc
<1>12. CASE Terminate(p)
  <2>1. UNCHANGED <<marker, tmp, entrySynced, tree, st, procVars, doors, slot>>
    BY <1>12 DEF Terminate, dirVars
  <2>2. Exclusive'
    <3>1. \A d \in Doors : slot'[d].req \in Requests(d) \cup {None}
      BY <2>1 DEF Exclusive
    <3> QED
      BY <2>1, <3>1, DoorKeeps
  <2> QED
    BY <2>1, <2>2 DEF Typed, procVars
<1>13. CASE Exits(p)
  <2>1. UNCHANGED <<marker, tmp, entrySynced, tree, st>> /\ Leave(p, "done")
    BY <1>13 DEF Exits, dirVars
  <2> QED
    BY <1>1, <2>1 DEF Typed, Shaped, Ends
<1> QED
  BY <1>3, <1>4, <1>5, <1>6, <1>7, <1>8, <1>9, <1>10, <1>11, <1>12, <1>13 DEF Proceed

\* A process started.
LEMMA LaunchKeeps ==
    ASSUME Typed, Exclusive, NEW p \in Procs, NEW c \in Setups, Launch(p, c)
    PROVE  Typed' /\ Exclusive'
<1>1. /\ pc[p] = "off" /\ Goto(p, "config") /\ setup' = [setup EXCEPT ![p] = c]
      /\ ended' = [ended EXCEPT ![p] = None]
      /\ UNCHANGED <<marker, tmp, entrySynced, tree, st, seen, lock, doors, slot>>
  BY DEF Launch, dirVars, doorVars
<1>2. setup'[p] \in Setups /\ \A q \in Procs \ {p} : setup'[q] = setup[q]
  BY <1>1 DEF Typed
<1>3. Exclusive' /\ pc' \in [Procs -> {"off", "config", "inspect", "lock"} \cup Stamping \cup Holding]
  BY <1>1, <1>2, MoveKeeps DEF Holding
<1> QED
  BY <1>1, <1>3 DEF Typed, Ends

\* A step at a door, of a request or of the listener.
AtDoor(d) ==
    Answer(d) \/ Deliver(d) \/ HangUp(d) \/ Closes(d) \/ \E r \in Requests(d) : Receive(d, r)

LEMMA DoorStepKeeps ==
    ASSUME Typed, Exclusive, NEW d \in Doors, AtDoor(d)
    PROVE  Typed' /\ Exclusive'
<1>1. UNCHANGED <<marker, tmp, entrySynced, tree, procVars>> /\ (doors[d] # "closed" \/ slot[d] # Idle)
  BY DEF AtDoor, Answer, Deliver, HangUp, Closes, Receive, dirVars, Idle
<1>2. ASSUME NEW req \in Requests(d) \cup {None}, NEW reply, Put(d, req, reply), doors' = doors, Shaped(st'),
             doors[d] # "closed" \/ slot[d] # Idle, UNCHANGED <<marker, tmp, entrySynced, tree, procVars>>
      PROVE  Typed' /\ Exclusive'
  <2>1. slot' = [slot EXCEPT ![d] = [req |-> req, reply |-> reply]]
    BY <1>2 DEF Put
  <2>2. slot' = [e \in Doors |-> [req |-> slot'[e].req, reply |-> slot'[e].reply]]
    BY <2>1 DEF Typed
  <2>3. slot'[d].req = req /\ \A e \in Doors \ {d} : slot'[e] = slot[e]
    BY <2>1 DEF Typed
  <2>4. \A e \in Doors : slot'[e].req \in Requests(e) \cup {None}
    BY <2>3 DEF Exclusive
  <2>5. \A e \in Doors : (doors'[e] # "closed" \/ slot'[e] # Idle) =>
             \E f \in Doors : doors[f] # "closed" \/ slot[f] # Idle
    BY <1>2, <2>3
  <2>6. Exclusive'
    BY <1>2, <2>4, <2>5, DoorKeeps
  <2> QED
    BY <1>2, <2>2, <2>6 DEF Typed, Shaped, procVars
<1>3. Shaped(st)
  BY DEF Typed, Shaped
<1>4. CASE Answer(d)
  <2>1. /\ slot[d].req # None /\ doors' = doors /\ slot[d] # Idle
        /\ Put(d, slot[d].req, Outcome(d, slot[d].req).reply) /\ st' = Outcome(d, slot[d].req).st
        /\ UNCHANGED <<marker, tmp, entrySynced, tree, procVars>>
    BY <1>4 DEF Answer, Idle, dirVars
  <2>2. slot[d].req \in Requests(d) \cup {None}
    BY DEF Exclusive
  <2>3. Shaped(st')
    BY <1>3, <2>1, OutcomeShape
  <2> QED
    BY <1>2, <2>1, <2>2, <2>3
<1>5. CASE Deliver(d) \/ HangUp(d)
  <2>1. /\ slot[d] # Idle /\ doors' = doors /\ st' = st /\ Put(d, None, None)
        /\ UNCHANGED <<marker, tmp, entrySynced, tree, procVars>>
    BY <1>5 DEF Deliver, HangUp, Idle, dirVars
  <2> QED
    BY <1>2, <1>3, <2>1
<1>6. CASE \E r \in Requests(d) : Receive(d, r)
  <2>1. PICK r \in Requests(d) : Receive(d, r)
    BY <1>6
  <2>2. /\ doors[d] # "closed" /\ doors' = doors /\ st' = st /\ Put(d, r, None)
        /\ UNCHANGED <<marker, tmp, entrySynced, tree, procVars>>
    BY <2>1 DEF Receive, dirVars
  <2> QED
    BY <1>2, <1>3, <2>2
<1>7. CASE Closes(d)
  <2>1. doors' = [doors EXCEPT ![d] = "closed"] /\ UNCHANGED <<slot, st, marker, tmp, entrySynced, tree, procVars>>
    BY <1>7 DEF Closes, dirVars
  <2>2. \A e \in Doors : slot'[e].req \in Requests(e) \cup {None}
    BY <2>1 DEF Exclusive
  <2>3. \A e \in Doors : doors'[e] # "closed" => doors[e] # "closed"
    BY <2>1 DEF Typed
  <2>4. Exclusive'
    BY <2>1, <2>2, <2>3, DoorKeeps
  <2> QED
    BY <2>1, <2>4 DEF Typed, procVars
<1> QED
  BY <1>4, <1>5, <1>6, <1>7 DEF AtDoor

\* The compactor of a server.
LEMMA CompactKeeps ==
    ASSUME Typed, Exclusive, Compact
    PROVE  Typed' /\ Exclusive'
<1>1. UNCHANGED <<marker, tmp, entrySynced, tree, procVars, doors, slot>> /\ st' \in {Flushed(st), Merged(st)}
  BY DEF Compact, dirVars, doorVars
<1>2. Shaped(st)
  BY DEF Typed, Shaped
<1>3. Shaped(st')
  BY <1>1, <1>2, WorksShape
<1>4. \A d \in Doors : slot'[d].req \in Requests(d) \cup {None}
  BY <1>1 DEF Exclusive
<1>5. Exclusive'
  BY <1>1, <1>4, DoorKeeps
<1> QED
  BY <1>1, <1>3, <1>5 DEF Typed, Shaped, procVars

\* What a power loss leaves of a file is a file of its shape.
LEMMA TornMarker == ASSUME NEW f \in Markers PROVE Torn(f) \in Markers
BY DEF Torn, Markers

LEMMA PowerLossKeeps ==
    ASSUME Typed, Exclusive, PowerLoss
    PROVE  Typed' /\ Exclusive'
<1>1. \A f \in Markers \cup {None} : Survives(f) \subseteq Markers \cup {None}
  BY TornMarker DEF Survives
<1>2. marker' \in Markers \cup {None} /\ tmp' \in Markers \cup {None}
  <2>1. marker' \in Survives(marker) \cup {None} /\ tmp' \in Survives(tmp) \cup {None}
    BY DEF PowerLoss
  <2> QED
    BY <1>1, <2>1 DEF Typed
<1>3. /\ entrySynced' = TRUE /\ UNCHANGED <<tree, st>> /\ lock' = None
      /\ pc' = [p \in Procs |-> "off"] /\ ended' = [p \in Procs |-> "killed"]
      /\ doors' = [d \in Doors |-> "closed"] /\ slot' = [d \in Doors |-> Idle]
      /\ setup' = [p \in Procs |-> None] /\ seen' = [p \in Procs |-> None]
  BY DEF PowerLoss
<1>4. Exclusive'
  BY <1>3, InputAssumption DEF Exclusive, Idle, Holding
<1> QED
  BY <1>2, <1>3, <1>4 DEF Typed, Idle, Ends

\* Every machine starts well typed, with nobody on its directory.
LEMMA InitKeeps == Init => Typed /\ Exclusive
<1> SUFFICES ASSUME Init PROVE Typed /\ Exclusive
  OBVIOUS
<1>1. marker \in Markers \cup {None}
  BY DEF Init, Markers, Version
<1>2. tmp = None /\ entrySynced = TRUE /\ tree \in BOOLEAN /\ lock = None
  BY DEF Init
<1>3. st = [hot |-> st.hot, blocks |-> st.blocks, db |-> st.db]
  BY DEF Init
<1>4. /\ pc = [p \in Procs |-> "off"] /\ ended = [p \in Procs |-> None]
      /\ doors = [d \in Doors |-> "closed"] /\ slot = [d \in Doors |-> Idle]
      /\ setup = [p \in Procs |-> None] /\ seen = [p \in Procs |-> None]
  BY DEF Init
<1>5. Exclusive
  BY <1>2, <1>4, InputAssumption DEF Exclusive, Idle, Holding
<1> QED
  BY <1>1, <1>2, <1>3, <1>4, <1>5 DEF Typed, Idle, Ends

\* Every step keeps the types and the exclusive lock.
LEMMA StepKeeps == Typed /\ Exclusive /\ [Next]_vars => Typed' /\ Exclusive'
<1> SUFFICES ASSUME Typed, Exclusive, [Next]_vars PROVE Typed' /\ Exclusive'
  OBVIOUS
<1>1. CASE UNCHANGED vars
  <2>1. UNCHANGED <<marker, tmp, entrySynced, tree, st, lock, pc, setup, ended, seen, doors, slot>>
    BY <1>1 DEF vars, dirVars, procVars, doorVars
  <2>2. Exclusive'
    BY <2>1 DEF Exclusive, Requests
  <2> QED
    BY <2>1, <2>2 DEF Typed
<1>2. ASSUME NEW p \in Procs, Proceed(p) \/ \E c \in Setups : Launch(p, c) PROVE Typed' /\ Exclusive'
  BY <1>2, ProceedKeeps, LaunchKeeps
<1>3. ASSUME NEW d \in Doors, AtDoor(d) PROVE Typed' /\ Exclusive'
  BY <1>3, DoorStepKeeps
<1> QED
  BY <1>1, <1>2, <1>3, CompactKeeps, PowerLossKeeps DEF Next, AtDoor

\* At any time at most one process has the store open, it is the one that holds
\* redb's lock, and doors and requests are only ever its own: whatever commands
\* are started, killed and refused meanwhile.
THEOREM OneHolder == Spec => [](Typed /\ Exclusive)
BY InitKeeps, StepKeeps, PTL DEF Spec

----------------------------------------------------------------------------
(***************************************************************************)
(* Who writes.                                                             *)
(***************************************************************************)

\* A message that is to change the scores.
Writes(may, m) == may /\ AddsScore(m) /\ m.id # None

\* One message that is not, a notification of the same call included, does not.
LEMMA OneReads ==
    ASSUME NEW s, NEW may, NEW m, NEW now, ~Writes(may, m)
    PROVE  One(s, may, m, now).db = s.db
<1>1. \A reply : Replies(s, reply).db = s.db
  BY DEF Replies
<1>2. ASSUME m.form = "object", m.id # None, m.method = "tools/call"
      PROVE  Call(s, may, m, now).db = s.db
  <2>1. CASE m.tool = None \/ ~Known(may, m.tool)
    BY <1>1, <2>1 DEF Call
  <2>2. CASE m.tool # None /\ Known(may, m.tool)
    <3>1. m.tool \in ReadTools
      BY <1>2, <2>2 DEF Known, Tools, WriteTools, Writes, AddsScore
    <3> QED
      BY <1>1, <2>2, <3>1 DEF Call
  <2> QED
    BY <2>1, <2>2
<1>3. CASE m.form # "object"
  BY <1>1, <1>3 DEF One
<1>4. CASE m.form = "object" /\ None \in {m.method, m.id}
  BY <1>1, <1>4 DEF One
<1>5. CASE m.form = "object" /\ None \notin {m.method, m.id}
  <2>1. One(s, may, m, now) = Answered(s, may, m, now)
    BY <1>5 DEF One
  <2>2. CASE m.method = "tools/call"
    <3>1. Answered(s, may, m, now) = Call(s, may, m, now)
      BY <2>2 DEF Answered
    <3> QED
      BY <1>2, <1>5, <2>1, <2>2, <3>1
  <2>3. CASE m.method # "tools/call"
    <3>1. \E reply : Answered(s, may, m, now) = Replies(s, reply)
      BY <2>3 DEF Answered
    <3> QED
      BY <1>1, <2>1, <3>1
  <2> QED
    BY <2>2, <2>3
<1> QED
  BY <1>3, <1>4, <1>5

\* One more message of a batch, on what the last one left.
Taken(s, may, now, acc, item) ==
    [reply |-> IF One([s EXCEPT !.db = acc.db], may, item, now).reply = None THEN acc.reply
               ELSE Append(acc.reply, One([s EXCEPT !.db = acc.db], may, item, now).reply),
     db |-> One([s EXCEPT !.db = acc.db], may, item, now).db]

AllTaken(s, may, now, items) ==
    FoldLeft(LAMBDA acc, item : Taken(s, may, now, acc, item), Replies(s, <<>>), items)

LEMMA TakenReads ==
    ASSUME NEW s, Shaped(s), NEW may, NEW now, NEW item, ~Writes(may, item),
           NEW R, One(s, may, item, now).reply \in R, NEW q \in Seq(R)
    PROVE  \E t \in Seq(R) : Taken(s, may, now, [reply |-> q, db |-> s.db], item) = [reply |-> t, db |-> s.db]
<1>1. [s EXCEPT !.db = s.db] = s
  BY DEF Shaped
<1>2. One(s, may, item, now).db = s.db
  BY OneReads
<1>3. Taken(s, may, now, [reply |-> q, db |-> s.db], item) =
        [reply |-> IF One(s, may, item, now).reply = None THEN q ELSE Append(q, One(s, may, item, now).reply),
         db |-> s.db]
  BY <1>1, <1>2 DEF Taken
<1>4. Append(q, One(s, may, item, now).reply) \in Seq(R)
  OBVIOUS
<1> QED
  BY <1>3, <1>4

\* So neither does a batch of them.
LEMMA BatchReads ==
    ASSUME NEW s, Shaped(s), NEW may, NEW now, NEW n \in Nat, NEW items, DOMAIN items = 1 .. n,
           \A i \in 1 .. n : ~Writes(may, items[i])
    PROVE  \E q : AllTaken(s, may, now, items) = [reply |-> q, db |-> s.db]
<1> DEFINE R == {One(s, may, items[i], now).reply : i \in 1 .. n}
           Y == {[reply |-> q, db |-> s.db] : q \in Seq(R)}
           d == Replies(s, <<>>)
           step == [i \in 1 .. n |-> [e \in Y |-> Taken(s, may, now, e, items[i])]]
           Rec(it) == it = [T \in SUBSET (DOMAIN items) |->
                              IF T = {} THEN d ELSE Taken(s, may, now, it[T \ {Max(T)}], items[Max(T)])]
           fold == CHOOSE it : Rec(it)
<1>1. \A e \in Y, i \in 1 .. n : Taken(s, may, now, e, items[i]) \in Y
  <2> TAKE e \in Y, i \in 1 .. n
  <2>1. PICK q \in Seq(R) : e = [reply |-> q, db |-> s.db]
    OBVIOUS
  <2>2. One(s, may, items[i], now).reply \in R /\ ~Writes(may, items[i])
    OBVIOUS
  <2>3. \E t \in Seq(R) : Taken(s, may, now, [reply |-> q, db |-> s.db], items[i]) = [reply |-> t, db |-> s.db]
    <3> HIDE DEF R
    <3> QED
      BY <2>2, TakenReads
  <2> QED
    BY <2>1, <2>3
<1>2. d \in Y
  <2>1. <<>> \in Seq(R)
    OBVIOUS
  <2> QED
    BY <2>1 DEF Replies
<1> HIDE DEF Y, d, R
<1>3. step \in [1 .. n -> [Y -> Y]]
  BY <1>1
<1>4. PICK it \in [SUBSET (1 .. n) -> Y] : FoldEquation(it, n, d, step)
  <2> HIDE DEF step
  <2> QED
    BY <1>2, <1>3, FoldLeftExists
<1>5. \A T \in SUBSET (1 .. n) : T # {} => Max(T) \in 1 .. n /\ T \ {Max(T)} \in SUBSET (1 .. n)
  BY MaxOfIndices
<1>6. Rec(it)
  BY <1>4, <1>5 DEF FoldEquation
<1>7. Rec(fold)
  BY <1>6
<1>8. AllTaken(s, may, now, items) = fold[1 .. n]
  BY DEF AllTaken, FoldLeft, MapThenFoldSet, d
<1>9. FollowsFold(fold, n, Y, d, step)
  <2> HIDE DEF fold
  <2> QED
    BY <1>5, <1>7 DEF FollowsFold
<1> HIDE DEF fold, Rec, step
<1>10. PICK g : RunsThrough(g, n, Y, d, step) /\ fold[1 .. n] = g[n]
  BY <1>2, <1>3, <1>9, FoldRun
<1>11. AllTaken(s, may, now, items) \in Y
  BY <1>8, <1>10 DEF RunsThrough
<1> QED
  BY <1>11 DEF Y

\* Nor what an agent sends, as long as the items of a batch are an array.
LEMMA HandleReads ==
    ASSUME NEW s, Shaped(s), NEW may, NEW m, NEW now,
           m.form = "batch" => m.items \in Seq(ToSet(m.items)),
           \A x \in Messages(m) : ~Writes(may, x)
    PROVE  Handle(s, may, m, now).db = s.db
<1> DEFINE items == IF m.form = "batch" THEN m.items ELSE <<m>>
           all == AllTaken(s, may, now, items)
<1>1. PICK n \in Nat : DOMAIN items = 1 .. n
  <2>1. CASE m.form = "batch"
    <3>1. items = m.items /\ m.items \in Seq(ToSet(m.items))
      BY <2>1
    <3>2. Len(m.items) \in Nat /\ DOMAIN m.items = 1 .. Len(m.items)
      BY <3>1
    <3> QED
      BY <3>1, <3>2
  <2>2. CASE m.form # "batch"
    <3>1. items = <<m>> /\ DOMAIN <<m>> = 1 .. 1
      BY <2>2
    <3> QED
      BY <3>1
  <2> QED
    BY <2>1, <2>2
<1>2. \A i \in 1 .. n : ~Writes(may, items[i])
  <2> TAKE i \in 1 .. n
  <2>1. CASE m.form = "batch"
    <3>1. items = m.items /\ Messages(m) = ToSet(m.items)
      BY <2>1 DEF Messages
    <3> QED
      BY <1>1, <3>1 DEF ToSet
  <2>2. CASE m.form # "batch"
    <3>1. items = <<m>> /\ Messages(m) = {m}
      BY <2>2 DEF Messages
    <3>2. i = 1
      <4>1. i \in DOMAIN items
        BY <1>1
      <4> HIDE DEF items
      <4>2. DOMAIN items = 1 .. 1
        BY <3>1
      <4> QED
        BY <4>1, <4>2
    <3> QED
      BY <3>1, <3>2
  <2> QED
    BY <2>1, <2>2
<1> HIDE DEF items
<1>3. PICK q : all = [reply |-> q, db |-> s.db]
  BY <1>1, <1>2, BatchReads
<1>4. CASE items = <<>>
  BY <1>4 DEF Handle, Replies, items
<1>5. CASE items # <<>>
  <2>1. Handle(s, may, m, now) =
          [all EXCEPT !.reply = IF @ = <<>> THEN None ELSE IF m.form = "batch" THEN @ ELSE Head(@)]
    BY <1>5 DEF Handle, AllTaken, Taken, items
  <2> HIDE DEF all
  <2> QED
    BY <1>3, <2>1
<1> QED
  BY <1>4, <1>5

\* What a request that is answered does to the store, it may do.
LEMMA OutcomeAllowed ==
    ASSUME Typed, NEW d \in Doors, NEW r \in Requests(d)
    PROVE  /\ Outcome(d, r).st # st => MayWrite(d, r)
           /\ r.what = "probe" => Outcome(d, r).reply.status = 200
<1>1. Shaped(st)
  BY DEF Typed, Shaped
<1>2. CASE d = "grpc"
  <2>1. r.what = "ingest"
    BY <1>2, InputAssumption DEF Requests
  <2>2. CASE Check(r.header)
    BY <2>1, <2>2 DEF MayWrite
  <2>3. CASE ~Check(r.header)
    BY <1>2, <2>1, <2>3 DEF Outcome
  <2> QED
    BY <2>1, <2>2, <2>3
<1>3. CASE d # "grpc"
  <2>1. Outcome(d, r) = Routed(r) /\ r \in HttpRequests \cup StdioMessages
    BY <1>3 DEF Outcome, Requests, Doors
  <2>2. CASE r.what = "probe"
    BY <2>1, <2>2 DEF Routed, Reply
  <2>3. CASE r.what # "probe" /\ ~Check(r.header)
    BY <2>1, <2>3 DEF Routed
  <2>4. CASE r.what = "ingest" /\ Check(r.header)
    BY <2>4 DEF MayWrite
  <2>5. CASE r.what = "mcp" /\ Check(r.header)
    <3>1. Outcome(d, r) = Mcp(r)
      BY <2>1, <2>5 DEF Routed
    <3>2. SUFFICES ASSUME ~MayWrite(d, r) PROVE Mcp(r).st = st
      BY <2>5, <3>1
    <3>3. CASE r.origin \notin {None, "loopback"} \/ r.msg.form = "garbage"
      BY <3>3 DEF Mcp
    <3>4. CASE r.origin \in {None, "loopback"} /\ r.msg.form # "garbage"
      <4>1. \A x \in Messages(r.msg) : ~Writes(access, x)
        BY <2>5, <3>2, <3>4 DEF MayWrite, Writes
      <4>2. r.msg.form = "batch" => r.msg.items \in Seq(ToSet(r.msg.items))
        BY <2>1, <2>5, InputAssumption
      <4>3. Handle(st, access, r.msg, writes).db = st.db
        BY <1>1, <4>1, <4>2, HandleReads
      <4>4. Mcp(r).st = [st EXCEPT !.db = st.db]
        BY <3>4, <4>3 DEF Mcp
      <4> QED
        BY <1>1, <4>4 DEF Shaped
    <3> QED
      BY <3>3, <3>4
  <2>6. CASE r.what \notin {"probe", "ingest", "mcp"} /\ Check(r.header)
    BY <2>1, <2>6 DEF Routed
  <2> QED
    BY <2>2, <2>3, <2>4, <2>5, <2>6
<1> QED
  BY <1>2, <1>3

\* No step but an answer puts a reply at a door.
Replied(d) == slot[d].reply = None /\ slot'[d].reply # None

LEMMA OnlyAnswersReply ==
    ASSUME Typed, Exclusive, [Next]_vars, NEW d \in Doors, Replied(d)
    PROVE  Answer(d)
<1>1. Idle.reply = None
  BY DEF Idle
<1>2. ASSUME NEW p \in Procs, Proceed(p) PROVE FALSE
  <2>1. slot'[d] \in {slot[d], Idle} => FALSE
    BY <1>1 DEF Replied
  <2>2. ASSUME NEW why, Leave(p, why) PROVE FALSE
    BY <2>1, <2>2 DEF Leave, doorVars
  <2>3. CASE UNCHANGED slot
    BY <2>1, <2>3
  <2>4. CASE Configure(p) \/ Inspect(p) \/ DirSynced(p) \/ StampFails(p) \/ Opens(p)
    BY <2>2, <2>3, <2>4 DEF Configure, Inspect, Inspects, DirSynced, StampFails, Opens, doorVars
  <2>5. CASE TmpCreated(p) \/ TmpFilled(p) \/ TmpSynced(p) \/ Renamed(p)
    BY <2>3, <2>5 DEF TmpCreated, TmpFilled, TmpSynced, Renamed, Stamps, doorVars
  <2>6. CASE Works(p) \/ Exits(p) \/ Kill(p)
    BY <2>2, <2>6 DEF Works, Exits, Kill
  <2>7. CASE Serves(p) \/ BindsGrpc(p) \/ Terminate(p)
    BY <2>2, <2>3, <2>7 DEF Serves, BindsGrpc, Terminate
  <2> QED
    BY <1>2, <2>4, <2>5, <2>6, <2>7 DEF Proceed
<1>3. ASSUME NEW p \in Procs, NEW c \in Setups, Launch(p, c) PROVE FALSE
  BY <1>3 DEF Launch, doorVars, Replied
<1>4. ASSUME NEW e \in Doors, NEW req, NEW reply, Put(e, req, reply), reply = None \/ e # d PROVE FALSE
  <2>1. (slot'[d] = [req |-> req, reply |-> reply] /\ e = d) \/ slot'[d] = slot[d]
    BY <1>4 DEF Put, Typed
  <2> QED
    BY <1>4, <2>1 DEF Replied
<1>5. ASSUME NEW e \in Doors, AtDoor(e) PROVE Answer(d)
  <2>1. CASE Answer(e)
    <3>1. \E req, reply : Put(e, req, reply)
      BY <2>1 DEF Answer
    <3> QED
      BY <1>4, <2>1, <3>1
  <2>2. CASE Deliver(e) \/ HangUp(e) \/ \E r \in Requests(e) : Receive(e, r)
    <3>1. \E req : Put(e, req, None)
      BY <2>2 DEF Deliver, HangUp, Receive
    <3> QED
      BY <1>4, <3>1
  <2>3. CASE Closes(e)
    BY <2>3 DEF Closes, Replied
  <2> QED
    BY <1>5, <2>1, <2>2, <2>3 DEF AtDoor
<1>6. CASE Compact
  BY <1>6 DEF Compact, doorVars, Replied
<1>7. CASE PowerLoss
  BY <1>1, <1>7 DEF PowerLoss, Replied
<1>8. CASE UNCHANGED vars
  BY <1>8 DEF vars, doorVars, Replied
<1> QED
  BY <1>2, <1>3, <1>5, <1>6, <1>7, <1>8 DEF Next, AtDoor

\* A command that is at work alone has the store: while it is on a dry run,
\* nothing changes it.
LEMMA DryRunReads ==
    ASSUME Typed, Exclusive, [Next]_vars, NEW p \in Procs, pc[p] = "work", setup[p].dry
    PROVE  st' = st
<1>1. lock = p /\ p # None /\ setup[p] \in Setups
  BY InputAssumption DEF Exclusive, Holding
<1>2. \A d \in Doors : doors[d] = "closed" /\ slot[d] = Idle
  BY <1>1 DEF Exclusive
<1>3. ASSUME NEW q \in Procs, Works(q) PROVE st' = st
  <2>1. q = p
    BY <1>1, <1>3 DEF Works, Exclusive, Holding
  <2>2. setup[p].cmd # "demo"
    BY <1>1, InputAssumption
  <2> QED
    BY <1>3, <2>1, <2>2 DEF Works
<1>4. ASSUME NEW q \in Procs, Proceed(q), ~Works(q) PROVE st' = st
  <2>1. CASE Configure(q) \/ Inspect(q) \/ DirSynced(q) \/ StampFails(q) \/ Opens(q)
    BY <2>1 DEF Configure, Inspect, Inspects, DirSynced, StampFails, Opens
  <2>2. CASE TmpCreated(q) \/ TmpFilled(q) \/ TmpSynced(q) \/ Renamed(q)
    BY <2>2 DEF TmpCreated, TmpFilled, TmpSynced, Renamed, Stamps
  <2>3. CASE Exits(q) \/ Kill(q) \/ Serves(q) \/ BindsGrpc(q) \/ Terminate(q)
    BY <2>3 DEF Exits, Kill, Serves, BindsGrpc, Terminate
  <2> QED
    BY <1>4, <2>1, <2>2, <2>3 DEF Proceed
<1>5. ASSUME NEW q \in Procs, NEW c \in Setups, Launch(q, c) PROVE st' = st
  BY <1>5 DEF Launch
<1>6. ASSUME NEW d \in Doors, AtDoor(d) PROVE st' = st
  <2>1. ~Answer(d)
    BY <1>2 DEF Answer, Idle
  <2> QED
    BY <1>6, <2>1 DEF AtDoor, Deliver, HangUp, Closes, Receive
<1>7. ~Compact
  BY <1>1 DEF Compact
<1>8. CASE PowerLoss
  BY <1>8 DEF PowerLoss
<1>9. CASE UNCHANGED vars
  BY <1>9 DEF vars
<1> QED
  BY <1>3, <1>4, <1>5, <1>6, <1>7, <1>8, <1>9 DEF Next, AtDoor

WritersStep ==
    /\ \A d \in Doors : slot[d].reply = None /\ slot'[d].reply # None =>
          /\ st' # st => MayWrite(d, slot[d].req)
          /\ slot[d].req.what = "probe" => slot'[d].reply.status = 200
    /\ \A p \in Procs : pc[p] = "work" /\ setup[p].dry => st' = st

LEMMA StepWrites == Typed /\ Exclusive /\ [Next]_vars => WritersStep
<1> SUFFICES ASSUME Typed, Exclusive, [Next]_vars PROVE WritersStep
  OBVIOUS
<1>1. ASSUME NEW d \in Doors, Replied(d)
      PROVE  /\ st' # st => MayWrite(d, slot[d].req)
             /\ slot[d].req.what = "probe" => slot'[d].reply.status = 200
  <2>1. Answer(d)
    BY <1>1, OnlyAnswersReply
  <2>2. slot[d].req \in Requests(d)
    BY <2>1 DEF Answer, Exclusive
  <2>3. slot'[d].reply = Outcome(d, slot[d].req).reply /\ st' = Outcome(d, slot[d].req).st
    BY <2>1 DEF Answer, Put, Typed
  <2> QED
    BY <2>2, <2>3, OutcomeAllowed
<1> QED
  BY <1>1, DryRunReads DEF WritersStep, Replied

\* A request changes the store only when the gate lets it in and it is one that
\* writes; a probe is answered whatever it carries; and a dry run leaves the
\* store alone (router_with_auth, post_mcp, handle, compact_command): for any
\* tokens, requests, batches of messages and setups.
THEOREM OnlyWritersWriteHolds == Spec => OnlyWritersWrite
<1>1. Typed /\ Exclusive /\ [Next]_vars => [WritersStep]_vars
  BY StepWrites
<1> QED
  BY <1>1, OneHolder, PTL DEF Spec, OnlyWritersWrite, WritersStep

----------------------------------------------------------------------------
(***************************************************************************)
(* The format marker, and what doctor says of a setup, when one process    *)
(* starts at a time.                                                       *)
(***************************************************************************)

\* The machine stays what it is.
LEMMA SamePlace == [Next]_vars => place' = place
<1> SUFFICES ASSUME [Next]_vars PROVE place' = place
  OBVIOUS
<1>1. ASSUME NEW p \in Procs, Proceed(p) PROVE place' = place
  <2>1. CASE Configure(p) \/ Inspect(p) \/ DirSynced(p) \/ StampFails(p) \/ Opens(p)
    BY <2>1 DEF Configure, Inspect, Inspects, DirSynced, StampFails, Opens
  <2>2. CASE TmpCreated(p) \/ TmpFilled(p) \/ TmpSynced(p) \/ Renamed(p)
    BY <2>2 DEF TmpCreated, TmpFilled, TmpSynced, Renamed, Stamps
  <2>3. CASE Works(p) \/ Exits(p) \/ Kill(p) \/ Serves(p) \/ BindsGrpc(p) \/ Terminate(p)
    BY <2>3 DEF Works, Exits, Kill, Serves, BindsGrpc, Terminate
  <2> QED
    BY <1>1, <2>1, <2>2, <2>3 DEF Proceed
<1>2. ASSUME NEW p \in Procs, NEW c \in Setups, Launch(p, c) PROVE place' = place
  BY <1>2 DEF Launch
<1>3. ASSUME NEW d \in Doors, AtDoor(d) PROVE place' = place
  BY <1>3 DEF AtDoor, Answer, Deliver, HangUp, Closes, Receive
<1> QED
  BY <1>1, <1>2, <1>3 DEF Next, AtDoor, Compact, PowerLoss, vars

\* A step of one process is no step of another.
LEMMA OthersStay ==
    ASSUME Typed, NEW p \in Procs, Proceed(p) \/ \E c \in Setups : Launch(p, c), NEW q \in Procs, q # p
    PROVE  pc'[q] = pc[q] /\ setup'[q] = setup[q] /\ seen'[q] = seen[q]
<1> USE DEF Typed
<1>1. ASSUME NEW why, Leave(p, why) PROVE pc'[q] = pc[q] /\ setup'[q] = setup[q] /\ seen'[q] = seen[q]
  BY <1>1 DEF Leave, Goto
<1>2. ASSUME NEW where, Goto(p, where) PROVE pc'[q] = pc[q]
  BY <1>2 DEF Goto
<1>3. CASE Configure(p) \/ DirSynced(p) \/ StampFails(p) \/ Opens(p)
  BY <1>1, <1>2, <1>3 DEF Configure, DirSynced, StampFails, Opens
<1>4. CASE Inspect(p)
  <2>1. seen' = [seen EXCEPT ![p] = FormatState] => seen'[q] = seen[q]
    OBVIOUS
  <2> QED
    BY <1>1, <1>2, <1>4, <2>1 DEF Inspect, Inspects
<1>5. CASE TmpCreated(p) \/ TmpFilled(p) \/ TmpSynced(p) \/ Renamed(p)
  BY <1>2, <1>5 DEF TmpCreated, TmpFilled, TmpSynced, Renamed, Stamps
<1>6. CASE Works(p) \/ Exits(p) \/ Kill(p)
  BY <1>1, <1>6 DEF Works, Exits, Kill
<1>7. CASE Serves(p) \/ BindsGrpc(p) \/ Terminate(p)
  BY <1>1, <1>2, <1>7 DEF Serves, BindsGrpc, Terminate, procVars
<1>8. CASE \E c \in Setups : Launch(p, c)
  BY <1>2, <1>8 DEF Launch
<1> QED
  BY <1>3, <1>4, <1>5, <1>6, <1>7, <1>8 DEF Proceed

\* The marker is only replaced by one that is honest, and the file it is made of
\* only touched by a process that is stamping.
LEMMA MarkerKept ==
    ASSUME Typed, Exclusive, Directory, NEW p \in Procs, Proceed(p)
    PROVE  /\ HonestMarker' /\ (marker # None => marker' # None) /\ (Readable => Readable')
           /\ tmp' = tmp \/ pc[p] \in Stamping
           /\ UNCHANGED <<marker, tmp, entrySynced>> \/ pc[p] \in Stamping
           /\ tree' = tree \/ (pc[p] = "lock" /\ tree' = TRUE)
<1>1. place' = place
  BY SamePlace DEF Next
<1>2. CASE /\ UNCHANGED <<marker, tmp>>
           /\ tree' = tree \/ (pc[p] = "lock" /\ tree' = TRUE)
           /\ entrySynced' = entrySynced \/ pc[p] \in Stamping
  <2>1. Readable' = Readable
    BY <1>2 DEF Readable
  <2>2. place'.born # "fresh" => tree'
    BY <1>1, <1>2 DEF Directory, HonestMarker
  <2>3. marker' # None => /\ marker'.whole /\ marker'.synced
                          /\ place'.born = "legacy" => marker'.from = "legacy"
    BY <1>1, <1>2 DEF Directory, HonestMarker
  <2> QED
    BY <1>2, <2>1, <2>2, <2>3 DEF HonestMarker
<1>3. CASE TmpCreated(p) \/ TmpFilled(p) \/ TmpSynced(p)
  BY <1>1, <1>3 DEF TmpCreated, TmpFilled, TmpSynced, Stamps, Stamping, Directory, HonestMarker, Readable
<1>4. CASE Renamed(p)
  <2>1. pc[p] = "rename" /\ marker' = tmp /\ tree' = tree
    BY <1>4 DEF Renamed, Stamps
  <2>2. tmp # None /\ Honest(tmp) /\ tmp.synced
    BY <2>1 DEF Directory, Stamper
  <2> QED
    BY <1>1, <2>1, <2>2 DEF Directory, HonestMarker, Readable, Honest, Version, Stamping
<1>5. CASE Configure(p) \/ Inspect(p) \/ StampFails(p)
  BY <1>2, <1>5 DEF Configure, Inspect, StampFails, dirVars
<1>6. CASE DirSynced(p) \/ Opens(p)
  BY <1>2, <1>6 DEF DirSynced, Opens, Stamping
<1>7. CASE Works(p) \/ Exits(p) \/ Kill(p) \/ Serves(p) \/ BindsGrpc(p) \/ Terminate(p)
  BY <1>2, <1>7 DEF Works, Exits, Kill, Serves, BindsGrpc, Terminate, dirVars
<1> QED
  BY <1>3, <1>4, <1>5, <1>6, <1>7 DEF Proceed

\* Where a process gets, it has what it needs.
LEMMA OwnStep ==
    ASSUME Typed, Exclusive, Directory, Passed, NEW p \in Procs, Proceed(p)
    PROVE  Stamper(p)' /\ PassedAt(p)'
<1>1. place' = place
  BY SamePlace DEF Next
<1>2. Stamper(p) /\ PassedAt(p) /\ HonestMarker
  BY DEF Directory, Passed
<1>3. ASSUME NEW why, Leave(p, why) PROVE Stamper(p)' /\ PassedAt(p)'
  <2>1. pc'[p] = "off"
    BY <1>3 DEF Leave, Goto, Typed
  <2> QED
    BY <2>1 DEF Stamper, PassedAt, Holding
<1>4. CASE UNCHANGED <<pc, setup, seen, marker, tmp>>
  BY <1>1, <1>2, <1>4 DEF Stamper, PassedAt, Honest
<1>5. ASSUME NEW where, Goto(p, where) PROVE pc'[p] = where
  BY <1>5 DEF Goto, Typed
<1>6. CASE Configure(p)
  <2>1. CASE Refusal(setup[p]) = None /\ Goto(p, "inspect") /\ UNCHANGED setup
    BY <1>1, <1>5, <2>1 DEF Stamper, PassedAt, Holding, Refusal
  <2> QED
    BY <1>3, <1>6, <2>1 DEF Configure
<1>7. CASE Inspect(p)
  <2>1. CASE /\ pc[p] = "inspect" /\ place.dir # "file" /\ UNCHANGED <<setup, marker>> /\ seen' = [seen EXCEPT ![p] = FormatState]
             /\ Goto(p, IF marker = None THEN "create" ELSE "lock")
    <3>1. seen'[p] = FormatState
      BY <2>1 DEF Typed
    <3>2. place.born = "legacy" => FormatState = "legacy"
      BY <1>2 DEF HonestMarker, FormatState
    <3>3. Stamper(p)'
      BY <1>1, <1>5, <2>1, <3>1, <3>2 DEF Stamper, Holding
    <3> QED
      BY <1>1, <1>2, <1>5, <2>1, <3>3 DEF PassedAt, Holding
  <2> QED
    BY <1>3, <1>7, <2>1 DEF Inspect, Inspects, dirVars
<1>8. CASE TmpCreated(p)
  <2>1. pc[p] = "create" /\ pc'[p] = "fill" /\ UNCHANGED <<setup, seen, marker>>
    BY <1>5, <1>8 DEF TmpCreated, Stamps
  <2> QED
    BY <1>1, <1>2, <2>1 DEF Stamper, PassedAt, Holding
<1>9. CASE TmpFilled(p)
  <2>1. /\ pc[p] = "fill" /\ pc'[p] = "sync" /\ UNCHANGED <<setup, seen, marker>>
        /\ tmp' = [whole |-> TRUE, format |-> Version, from |-> seen[p], synced |-> FALSE]
    BY <1>5, <1>9 DEF TmpFilled, Stamps
  <2>2. tmp' # None
    <3>1. tmp' \in Markers
      BY <2>1 DEF Markers, Version, Typed
    <3> QED
      BY <3>1, InputAssumption
  <2>3. Honest(tmp)'
    BY <1>1, <1>2, <2>1 DEF Honest, Stamper
  <2> QED
    BY <1>1, <1>2, <2>1, <2>2, <2>3 DEF Stamper, PassedAt, Holding
<1>10. CASE TmpSynced(p)
  <2>1. /\ pc[p] = "sync" /\ pc'[p] = "rename" /\ UNCHANGED <<setup, seen, marker>>
        /\ tmp \in Markers /\ tmp' = [tmp EXCEPT !.synced = TRUE]
    BY <1>5, <1>10 DEF TmpSynced, Stamps, Typed
  <2>2. tmp' \in Markers /\ tmp'.synced /\ tmp'.whole = tmp.whole /\ tmp'.format = tmp.format /\ tmp'.from = tmp.from
    BY <2>1 DEF Markers
  <2>3. Honest(tmp)'
    BY <1>1, <1>2, <2>1, <2>2 DEF Honest, Stamper
  <2> QED
    BY <1>1, <1>2, <2>1, <2>2, <2>3, InputAssumption DEF Stamper, PassedAt, Holding
<1>11. CASE Renamed(p)
  <2>1. pc[p] = "rename" /\ pc'[p] = "dirsync" /\ UNCHANGED <<setup, seen>> /\ marker' = tmp /\ tmp # None
    BY <1>5, <1>11 DEF Renamed, Stamps
  <2> QED
    BY <1>1, <1>2, <2>1 DEF Stamper, PassedAt, Holding
<1>12. CASE DirSynced(p)
  <2>1. CASE pc[p] = "dirsync" /\ Goto(p, "lock") /\ UNCHANGED <<setup, marker>>
    BY <1>1, <1>2, <1>5, <2>1 DEF Stamper, PassedAt, Holding
  <2> QED
    BY <1>3, <1>12, <2>1 DEF DirSynced
<1>13. CASE Opens(p)
  <2>1. CASE /\ pc[p] = "lock" /\ place.dir # "readonly" /\ UNCHANGED <<setup, marker>>
             /\ Goto(p, IF setup[p].cmd \in {"serve", "mcp"} THEN "open" ELSE "work")
    BY <1>1, <1>2, <1>5, <2>1 DEF Stamper, PassedAt, Holding
  <2> QED
    BY <1>3, <1>13, <2>1 DEF Opens
<1>14. CASE Serves(p)
  <2>1. CASE pc[p] = "open" /\ Goto(p, "serving") /\ UNCHANGED <<setup, marker>>
    BY <1>1, <1>2, <1>5, <2>1 DEF Stamper, PassedAt, Holding
  <2> QED
    BY <1>3, <1>14, <2>1 DEF Serves, dirVars
<1>15. CASE StampFails(p) \/ Works(p) \/ Exits(p) \/ Kill(p)
  BY <1>3, <1>15 DEF StampFails, Works, Exits, Kill
<1>16. CASE BindsGrpc(p) \/ Terminate(p)
  BY <1>3, <1>4, <1>16 DEF BindsGrpc, Terminate, procVars, dirVars
<1> QED
  BY <1>6, <1>7, <1>8, <1>9, <1>10, <1>11, <1>12, <1>13, <1>14, <1>15, <1>16 DEF Proceed

\* Nobody gets past an unreadable marker: nothing of the directory changes.
LEMMA UnreadableKept ==
    ASSUME Typed, Exclusive, Directory, [Next]_vars, ~Readable
    PROVE  /\ UNCHANGED <<dirVars, st>> /\ lock' = None
           /\ \A p \in Procs : pc'[p] \in {"off", "config", "inspect"}
<1>1. /\ tmp = None /\ entrySynced /\ lock = None /\ \A p \in Procs : pc[p] \in {"off", "config", "inspect"}
      /\ marker # None /\ marker.synced
  BY DEF Directory, HonestMarker, LeftAlone, Readable
<1>2. ASSUME NEW p \in Procs, NEW why, Leave(p, why)
      PROVE  lock' = None /\ \A q \in Procs : pc'[q] \in {"off", "config", "inspect"}
  BY <1>1, <1>2 DEF Leave, Goto, Typed
<1>3. ASSUME NEW p \in Procs, NEW where \in {"config", "inspect"}, Goto(p, where), lock' = lock
      PROVE  lock' = None /\ \A q \in Procs : pc'[q] \in {"off", "config", "inspect"}
  BY <1>1, <1>3 DEF Goto, Typed
<1>4. ASSUME NEW p \in Procs, Proceed(p)
      PROVE  /\ UNCHANGED <<dirVars, st>> /\ lock' = None
             /\ \A q \in Procs : pc'[q] \in {"off", "config", "inspect"}
  <2>1. Configure(p) \/ Inspect(p) \/ Kill(p)
    <3>1. pc[p] \in {"off", "config", "inspect"}
      BY <1>1
    <3>2. ~TmpCreated(p) /\ ~TmpFilled(p) /\ ~TmpSynced(p) /\ ~Renamed(p)
      BY <3>1 DEF TmpCreated, TmpFilled, TmpSynced, Renamed, Stamps
    <3>3. ~DirSynced(p) /\ ~StampFails(p) /\ ~Opens(p) /\ ~Works(p)
      BY <3>1 DEF DirSynced, StampFails, Opens, Works
    <3>4. ~Serves(p) /\ ~BindsGrpc(p) /\ ~Terminate(p) /\ ~Exits(p)
      BY <3>1 DEF Serves, BindsGrpc, Terminate, Exits
    <3> QED
      BY <1>4, <3>2, <3>3, <3>4 DEF Proceed
  <2>2. UNCHANGED <<dirVars, st>>
    BY <2>1 DEF Configure, Inspect, Inspects, Kill
  <2>3. CASE Configure(p)
    BY <1>2, <1>3, <2>2, <2>3 DEF Configure
  <2>4. CASE Inspect(p)
    BY <1>2, <2>2, <2>4 DEF Inspect, Inspects
  <2>5. CASE Kill(p)
    BY <1>2, <2>2, <2>5 DEF Kill
  <2> QED
    BY <2>1, <2>3, <2>4, <2>5, <2>2
<1>5. ASSUME NEW p \in Procs, NEW c \in Setups, Launch(p, c)
      PROVE  /\ UNCHANGED <<dirVars, st>> /\ lock' = None
             /\ \A q \in Procs : pc'[q] \in {"off", "config", "inspect"}
  BY <1>3, <1>5 DEF Launch
<1>6. ASSUME NEW d \in Doors, AtDoor(d) PROVE UNCHANGED <<dirVars, st, pc, lock>>
  <2>1. slot[d] = Idle
    BY <1>1 DEF Exclusive
  <2>2. ~Answer(d)
    BY <2>1 DEF Answer, Idle
  <2> QED
    BY <1>6, <2>2 DEF AtDoor, Deliver, HangUp, Closes, Receive, procVars
<1>7. ~Compact
  BY <1>1 DEF Compact
<1>8. CASE PowerLoss
  <2>1. marker' = marker /\ tmp' = tmp
    BY <1>1, <1>8 DEF PowerLoss, Survives
  <2>2. entrySynced' = entrySynced
    BY <1>1, <1>8 DEF PowerLoss, Typed
  <2> QED
    BY <2>1, <2>2, <1>8 DEF PowerLoss, dirVars
<1>9. CASE UNCHANGED vars
  BY <1>1, <1>9 DEF vars, procVars
<1> QED
  BY <1>1, <1>4, <1>5, <1>6, <1>7, <1>8, <1>9 DEF Next, AtDoor

\* At most one process is between its launch and the lock.
LEMMA LoneKept ==
    ASSUME Launching = 1, Typed, Exclusive, Lone, [Next]_vars
    PROVE  Lone'
<1>1. ASSUME NEW p \in Procs, NEW c \in Setups, Launch(p, c) PROVE Lone'
  <2>1. Starting = {}
    <3>1. Cardinality(Starting) < 1
      BY <1>1 DEF Launch
    <3>2. ASSUME NEW q \in Starting PROVE FALSE
      <4>1. Starting = {q}
        BY <3>2 DEF Lone
      <4>2. Cardinality({q}) = 1
        BY FS_Singleton
      <4> QED
        BY <3>1, <4>1, <4>2
    <3> QED
      BY <3>2
  <2>2. \A q \in Procs : q # p => pc'[q] = pc[q]
    BY <1>1, OthersStay
  <2>3. Starting' \subseteq {p}
    BY <2>1, <2>2 DEF Starting
  <2> QED
    BY <2>3 DEF Lone
<1>2. ASSUME NEW p \in Procs, Proceed(p) PROVE Lone'
  <2>1. \A q \in Procs : q # p => pc'[q] = pc[q]
    BY <1>2, OthersStay
  <2>2. p \in Starting \/ p \notin Starting'
    <3>1. CASE pc[p] \in {"open", "work", "serving"}
      <4>1. ASSUME NEW why, Leave(p, why) PROVE pc'[p] = "off"
        BY <4>1 DEF Leave, Goto, Typed
      <4>2. Goto(p, "serving") => pc'[p] = "serving"
        BY DEF Goto, Typed
      <4>3. CASE Serves(p) \/ BindsGrpc(p) \/ Terminate(p)
        BY <3>1, <4>1, <4>2, <4>3 DEF Serves, BindsGrpc, Terminate, procVars, Starting
      <4>4. CASE Works(p) \/ Exits(p) \/ Kill(p)
        BY <4>1, <4>4 DEF Works, Exits, Kill, Starting
      <4>5. ~TmpCreated(p) /\ ~TmpFilled(p) /\ ~TmpSynced(p) /\ ~Renamed(p)
        BY <3>1 DEF TmpCreated, TmpFilled, TmpSynced, Renamed, Stamps
      <4>6. ~Configure(p) /\ ~Inspect(p) /\ ~DirSynced(p) /\ ~StampFails(p) /\ ~Opens(p)
        BY <3>1 DEF Configure, Inspect, Inspects, DirSynced, StampFails, Opens
      <4> QED
        BY <1>2, <4>3, <4>4, <4>5, <4>6 DEF Proceed
    <3>2. pc[p] # "off"
      BY <1>2 DEF Proceed, Configure, Inspect, Inspects, TmpCreated, TmpFilled, TmpSynced, Renamed, Stamps,
         DirSynced, StampFails, Opens, Works, Serves, BindsGrpc, Terminate, Exits, Kill
    <3> QED
      BY <3>1, <3>2 DEF Starting
  <2>3. Starting' \subseteq Starting
    BY <2>1, <2>2 DEF Starting
  <2> QED
    BY <2>3 DEF Lone
<1>3. CASE pc' = pc
  BY <1>3 DEF Lone, Starting
<1>4. ASSUME NEW d \in Doors, AtDoor(d) PROVE Lone'
  BY <1>3, <1>4 DEF AtDoor, Answer, Deliver, HangUp, Closes, Receive, procVars
<1>5. CASE Compact \/ UNCHANGED vars
  BY <1>3, <1>5 DEF Compact, vars, procVars
<1>6. CASE PowerLoss
  BY <1>6 DEF PowerLoss, Lone, Starting
<1> QED
  BY <1>1, <1>2, <1>4, <1>5, <1>6 DEF Next, AtDoor

\* The invariant of a directory on which one process starts at a time.
DirInv == Typed /\ Exclusive /\ Lone /\ Directory /\ Passed

LEMMA InitDirInv == Init => DirInv
<1> SUFFICES ASSUME Init PROVE DirInv
  OBVIOUS
<1>1. Typed /\ Exclusive
  BY InitKeeps
<1>2. pc = [p \in Procs |-> "off"] /\ tmp = None /\ entrySynced = TRUE /\ lock = None /\ tree = (place.born # "fresh")
  BY DEF Init
<1>3. Lone
  BY <1>2 DEF Lone, Starting
<1>4. \A p \in Procs : Stamper(p) /\ PassedAt(p)
  BY <1>2 DEF Stamper, PassedAt, Holding
<1>5. HonestMarker
  BY <1>2 DEF Init, HonestMarker
<1>6. LeftAlone
  BY <1>2 DEF LeftAlone
<1> QED
  BY <1>1, <1>3, <1>4, <1>5, <1>6 DEF DirInv, Directory, Passed

LEMMA StepDirInv == ASSUME Launching = 1, DirInv, [Next]_vars PROVE DirInv'
<1> USE DEF DirInv
<1>1. Typed' /\ Exclusive' /\ Lone' /\ place' = place
  BY StepKeeps, LoneKept, SamePlace
<1>2. ASSUME ~Readable, UNCHANGED marker PROVE LeftAlone'
  <2>1. /\ UNCHANGED <<dirVars, st>> /\ lock' = None /\ tmp = None /\ entrySynced
        /\ \A p \in Procs : pc'[p] \in {"off", "config", "inspect"}
    BY <1>2, UnreadableKept DEF Directory, LeftAlone
  <2> QED
    BY <2>1 DEF LeftAlone, dirVars
<1>3. (Readable => Readable') => LeftAlone'
  <2>1. CASE Readable /\ Readable'
    BY <2>1 DEF LeftAlone
  <2>2. CASE ~Readable
    BY <1>2, <2>2, UnreadableKept DEF dirVars
  <2> QED
    BY <2>1, <2>2
<1>4. ASSUME NEW p \in Procs, Proceed(p) PROVE DirInv'
  <2>1. /\ HonestMarker' /\ (marker # None => marker' # None) /\ (Readable => Readable')
        /\ tmp' = tmp \/ pc[p] \in Stamping
    BY <1>4, MarkerKept
  <2>2. Stamper(p)' /\ PassedAt(p)'
    BY <1>4, OwnStep
  <2>3. ASSUME NEW q \in Procs, q # p PROVE Stamper(q)' /\ PassedAt(q)'
    <3>1. pc'[q] = pc[q] /\ setup'[q] = setup[q] /\ seen'[q] = seen[q]
      BY <1>4, <2>3, OthersStay
    <3>2. pc[q] \in {"sync", "rename"} => pc[p] \notin Stamping
      BY <2>3 DEF Lone, Starting, Stamping
    <3>3. pc[q] \in {"sync", "rename"} => tmp' = tmp
      BY <2>1, <3>2
    <3>4. Stamper(q) /\ PassedAt(q)
      BY DEF Directory, Passed
    <3>5. Stamper(q)'
      BY <1>1, <2>1, <3>1, <3>3, <3>4 DEF Stamper, Honest
    <3>6. PassedAt(q)'
      BY <1>1, <3>1, <3>4 DEF PassedAt
    <3> QED
      BY <3>5, <3>6
  <2> QED
    BY <1>1, <1>3, <2>1, <2>2, <2>3 DEF Directory, Passed
<1>5. ASSUME UNCHANGED <<marker, tmp, entrySynced, tree>>,
             \A q \in Procs : \/ pc'[q] = pc[q] /\ setup'[q] = setup[q] /\ seen'[q] = seen[q]
                              \/ pc'[q] \in {"off", "config"}
      PROVE  DirInv'
  <2>1. HonestMarker' /\ Readable' = Readable
    BY <1>1, <1>5 DEF Directory, HonestMarker, Readable
  <2>2. ASSUME NEW q \in Procs PROVE Stamper(q)' /\ PassedAt(q)'
    <3>1. CASE pc'[q] \in {"off", "config"}
      BY <3>1 DEF Stamper, PassedAt, Holding
    <3>2. CASE pc'[q] = pc[q] /\ setup'[q] = setup[q] /\ seen'[q] = seen[q]
      BY <1>1, <1>5, <3>2 DEF Directory, Passed, Stamper, PassedAt, Honest
    <3> QED
      BY <1>5, <3>1, <3>2
  <2> QED
    BY <1>1, <1>3, <2>1, <2>2 DEF Directory, Passed
<1>6. ASSUME NEW p \in Procs, NEW c \in Setups, Launch(p, c) PROVE DirInv'
  <2>1. UNCHANGED <<marker, tmp, entrySynced, tree>>
    BY <1>6 DEF Launch, dirVars
  <2>2. pc'[p] = "config"
    BY <1>6 DEF Launch, Goto, Typed
  <2>3. \A q \in Procs : q # p => pc'[q] = pc[q] /\ setup'[q] = setup[q] /\ seen'[q] = seen[q]
    BY <1>6, OthersStay
  <2> QED
    BY <1>5, <2>1, <2>2, <2>3
<1>7. CASE UNCHANGED <<dirVars, procVars>>
  BY <1>5, <1>7 DEF dirVars, procVars
<1>8. ASSUME NEW d \in Doors, AtDoor(d) PROVE DirInv'
  BY <1>7, <1>8 DEF AtDoor, Answer, Deliver, HangUp, Closes, Receive
<1>9. CASE Compact \/ UNCHANGED vars
  BY <1>7, <1>9 DEF Compact, vars
<1>10. CASE PowerLoss
  <2>1. pc' = [p \in Procs |-> "off"] /\ tree' = tree
    BY <1>10 DEF PowerLoss
  <2>2. \A p \in Procs : Stamper(p)' /\ PassedAt(p)'
    BY <2>1 DEF Stamper, PassedAt, Holding
  <2>3. marker' \in {marker, None}
    <3>1. marker # None => marker.synced
      BY DEF Directory, HonestMarker
    <3> QED
      BY <1>10, <3>1 DEF PowerLoss, Survives
  <2>4. HonestMarker' /\ (Readable => Readable')
    BY <1>1, <2>1, <2>3 DEF Directory, HonestMarker, Readable
  <2> QED
    BY <1>1, <1>3, <2>2, <2>4 DEF Directory, Passed
<1> QED
  BY <1>4, <1>6, <1>8, <1>9, <1>10 DEF Next, AtDoor

\* The only step that makes anything in a new directory is the open, past the
\* marker.
LEMMA TreeStep == ASSUME DirInv, [Next]_vars, ~tree, tree' PROVE marker # None
<1> USE DEF DirInv
<1>1. ASSUME NEW p \in Procs, Proceed(p) PROVE marker # None
  <2>1. pc[p] = "lock"
    BY <1>1, MarkerKept
  <2> QED
    BY <2>1 DEF Directory, Stamper
<1>2. UNCHANGED dirVars => FALSE
  BY DEF dirVars
<1>3. ASSUME NEW p \in Procs, NEW c \in Setups, Launch(p, c) PROVE FALSE
  BY <1>2, <1>3 DEF Launch
<1>4. ASSUME NEW d \in Doors, AtDoor(d) PROVE FALSE
  BY <1>2, <1>4 DEF AtDoor, Answer, Deliver, HangUp, Closes, Receive
<1>5. ~Compact /\ ~UNCHANGED vars
  BY <1>2 DEF Compact, vars
<1>6. ~PowerLoss
  BY DEF PowerLoss
<1> QED
  BY <1>1, <1>3, <1>4, <1>5, <1>6 DEF Next, AtDoor

\* Whoever changes the store holds the lock.
LEMMA StoreStep == ASSUME DirInv, [Next]_vars, st' # st PROVE lock # None /\ Readable
<1> USE DEF DirInv
<1>1. Readable
  BY UnreadableKept
<1>2. ASSUME NEW p \in Procs, Proceed(p) PROVE lock # None
  <2>1. Works(p)
    <3>1. CASE Configure(p) \/ Inspect(p) \/ DirSynced(p) \/ StampFails(p) \/ Opens(p)
      BY <3>1 DEF Configure, Inspect, Inspects, DirSynced, StampFails, Opens
    <3>2. CASE TmpCreated(p) \/ TmpFilled(p) \/ TmpSynced(p) \/ Renamed(p)
      BY <3>2 DEF TmpCreated, TmpFilled, TmpSynced, Renamed, Stamps
    <3>3. CASE Exits(p) \/ Kill(p) \/ Serves(p) \/ BindsGrpc(p) \/ Terminate(p)
      BY <3>3 DEF Exits, Kill, Serves, BindsGrpc, Terminate
    <3> QED
      BY <1>2, <3>1, <3>2, <3>3 DEF Proceed
  <2> QED
    BY <2>1, InputAssumption DEF Works, Exclusive, Holding
<1>3. ASSUME NEW p \in Procs, NEW c \in Setups, Launch(p, c) PROVE FALSE
  BY <1>3 DEF Launch
<1>4. ASSUME NEW d \in Doors, AtDoor(d) PROVE lock # None
  <2>1. Answer(d)
    BY <1>4 DEF AtDoor, Deliver, HangUp, Closes, Receive
  <2>2. slot[d] # Idle
    BY <2>1 DEF Answer, Idle
  <2> QED
    BY <2>2 DEF Exclusive
<1>5. Compact => lock # None
  BY DEF Compact
<1>6. ~PowerLoss /\ ~UNCHANGED vars
  BY DEF PowerLoss, vars
<1> QED
  BY <1>1, <1>2, <1>3, <1>4, <1>5, <1>6 DEF Next, AtDoor

LEMMA OneStarter == ASSUME Launching = 1 PROVE Spec => []DirInv
<1>1. DirInv /\ [Next]_vars => DirInv'
  BY StepDirInv
<1> QED
  BY <1>1, InitDirInv, PTL DEF Spec

\* The format marker is whole whenever it is there, across kills and power
\* losses, honest about a directory older than it, there before anything else
\* is made, and a directory of another format is left alone by every command
\* (format::ensure, check_readable, stamp); when one process starts at a time:
\* two that open a new directory at once share FORMAT.tmp.
THEOREM FormatRespectedHolds == ASSUME Launching = 1 PROVE Spec => FormatRespected
<1>1. DirInv => (marker # None => marker.whole /\ (place.born = "legacy" => marker.from = "legacy"))
  BY DEF DirInv, Directory, HonestMarker
<1>2. DirInv /\ [Next]_vars => [~tree /\ tree' => marker # None]_vars
  BY TreeStep
<1>3. DirInv /\ [Next]_vars => [~Readable => UNCHANGED <<dirVars, st>>]_vars
  BY UnreadableKept DEF DirInv
<1>4. DirInv /\ [Next]_vars => [st' # st => lock # None /\ Readable]_vars
  BY StoreStep
<1> QED
  BY <1>1, <1>2, <1>3, <1>4, OneStarter, PTL DEF Spec, FormatRespected

\* A process ends for a reason of its own.
LEMMA EndsForReason ==
    ASSUME DirInv, [Next]_vars, NEW p \in Procs, pc[p] # "off", pc'[p] = "off",
           setup[p].cmd = "serve", ended'[p] \in {"dir", "address", "price"}
    PROVE  ended'[p] \in DoctorFails(setup[p]) \/ setup[p].http = "padded"
<1> USE DEF DirInv
<1>1. ASSUME NEW why, Leave(p, why) PROVE ended'[p] = why
  BY <1>1 DEF Leave, Typed
<1>2. DataDirFails => "dir" \in DoctorFails(setup[p])
  BY DEF DoctorFails
<1>3. ASSUME NEW where, Goto(p, where), where # "off" PROVE FALSE
  BY <1>3 DEF Goto, Typed
<1>4. CASE Configure(p)
  <2>1. ended'[p] = ServeRefusal(setup[p]) /\ Refusal(setup[p]) # None
    <3>1. Leave(p, Refusal(setup[p])) /\ Refusal(setup[p]) # None
      BY <1>3, <1>4 DEF Configure
    <3> QED
      BY <1>1, <3>1 DEF Refusal
  <2>2. CASE ended'[p] = "price"
    <3>1. setup[p].price = "bad"
      BY <2>1, <2>2, InputAssumption DEF ServeRefusal
    <3> QED
      BY <2>2, <3>1 DEF DoctorFails
  <2>3. CASE ended'[p] = "address"
    <3>1. ~Parses(setup[p].http) \/ ~GrpcOk(setup[p])
      BY <2>1, <2>3, InputAssumption DEF ServeRefusal
    <3>2. setup[p].http = "padded" \/ PortFails(setup[p])
      BY <3>1 DEF Parses, GrpcOk, PortFails, PortParses
    <3> QED
      BY <2>3, <3>2 DEF DoctorFails
  <2>4. ended'[p] # "dir"
    <3>1. ServeRefusal(setup[p]) # None
      BY <2>1 DEF Refusal
    <3> QED
      BY <2>1, <3>1 DEF ServeRefusal
  <2> QED
    BY <2>2, <2>3, <2>4
<1>5. CASE Inspect(p)
  <2>1. \/ place.dir = "file" /\ Leave(p, "dir")
        \/ Leave(p, "marker")
        \/ Leave(p, "done")
    BY <1>3, <1>5 DEF Inspect, Inspects
  <2>2. place.dir = "file" /\ ended'[p] = "dir"
    BY <1>1, <2>1
  <2> QED
    BY <1>2, <2>2 DEF DataDirFails
<1>6. CASE StampFails(p)
  <2>1. ended'[p] = "dir"
    BY <1>1, <1>6 DEF StampFails
  <2>2. place.dir = "readonly"
    BY <1>6 DEF StampFails, Directory, Stamper
  <2> QED
    BY <1>2, <2>1, <2>2 DEF DataDirFails
<1>7. CASE Opens(p)
  <2>1. \/ place.dir = "readonly" /\ Leave(p, "dir")
        \/ Leave(p, "locked")
    BY <1>3, <1>7 DEF Opens
  <2>2. place.dir = "readonly" /\ ended'[p] = "dir"
    BY <1>1, <2>1
  <2> QED
    BY <1>2, <2>2 DEF DataDirFails
<1>8. CASE TmpCreated(p) \/ TmpFilled(p) \/ TmpSynced(p) \/ Renamed(p)
  BY <1>3, <1>8 DEF TmpCreated, TmpFilled, TmpSynced, Renamed, Stamps
<1>9. CASE DirSynced(p) \/ Works(p) \/ Exits(p) \/ Kill(p)
  BY <1>1, <1>3, <1>9 DEF DirSynced, Works, Exits, Kill
<1>10. CASE Serves(p) \/ BindsGrpc(p) \/ Terminate(p)
  BY <1>1, <1>3, <1>10 DEF Serves, BindsGrpc, Terminate, procVars
<1>11. ASSUME NEW q \in Procs, Proceed(q) \/ \E c \in Setups : Launch(q, c), q # p PROVE FALSE
  BY <1>11, OthersStay
<1>12. ASSUME NEW c \in Setups, Launch(p, c) PROVE FALSE
  BY <1>12 DEF Launch
<1>13. ASSUME NEW d \in Doors, AtDoor(d) PROVE FALSE
  BY <1>13 DEF AtDoor, Answer, Deliver, HangUp, Closes, Receive, procVars
<1>14. ~Compact /\ ~UNCHANGED vars
  BY DEF Compact, vars, procVars
<1>15. CASE PowerLoss
  BY <1>15 DEF PowerLoss
<1>16. ASSUME Proceed(p) PROVE ended'[p] \in DoctorFails(setup[p]) \/ setup[p].http = "padded"
  BY <1>16, <1>4, <1>5, <1>6, <1>7, <1>8, <1>9, <1>10 DEF Proceed
<1> QED
  BY <1>11, <1>12, <1>13, <1>14, <1>15, <1>16 DEF Next, AtDoor

\* A process that got as far as its listeners has nothing doctor would fail but
\* an exposed store and a full disk.
LEMMA ServesForReason ==
    ASSUME DirInv, NEW p \in Procs, setup[p].cmd = "serve", pc[p] = "open"
    PROVE  DoctorFails(setup[p]) \subseteq {"exposure", "disk"}
<1>1. ServeRefusal(setup[p]) = None /\ place.dir # "file" /\ place.dir # "readonly"
  BY DEF DirInv, Passed, PassedAt, Holding
<1>2. Parses(setup[p].http) /\ GrpcOk(setup[p]) /\ setup[p].price # "bad"
  BY <1>1, InputAssumption DEF ServeRefusal
<1>3. ~PortFails(setup[p])
  BY <1>2 DEF PortFails, PortParses, Parses, GrpcOk
<1> QED
  BY <1>1, <1>2, <1>3 DEF DoctorFails, DataDirFails

DoctorStep ==
    \A p \in Procs : setup[p] # None /\ setup[p].cmd = "serve" =>
        /\ pc[p] = "open" /\ pc'[p] = "serving" => DoctorFails(setup[p]) \subseteq {"exposure", "disk"}
        /\ pc[p] # "off" /\ pc'[p] = "off" /\ ended'[p] \in {"dir", "address", "price"} =>
                ended'[p] \in DoctorFails(setup[p]) \/ setup[p].http = "padded"

\* evald doctor and evald serve agree on a setup (doctor.rs, main.rs): what the
\* one fails the other refuses, and the other way round, the exceptions named.
THEOREM DoctorAgreesHolds == ASSUME Launching = 1 PROVE Spec => DoctorAgrees
<1>1. DirInv /\ [Next]_vars => [DoctorStep]_vars
  BY EndsForReason, ServesForReason DEF DoctorStep
<1> QED
  BY <1>1, OneStarter, PTL DEF Spec, DoctorAgrees, DoctorStep

=============================================================================
