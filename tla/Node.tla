-------------------------------- MODULE Node --------------------------------
(***************************************************************************)
(* One data directory and the evald processes started on it: the commands  *)
(* of src/src/main.rs, the format marker (src/src/store/format.rs), the    *)
(* exclusive open (Store::open in src/src/store/mod.rs), the doors of a    *)
(* server and their bearer gate (src/src/ingest.rs, grpc.rs, auth.rs,      *)
(* mcp.rs, ui.rs), its drain on SIGTERM, kills and power losses, and what  *)
(* evald doctor says of a setup (src/src/doctor.rs).                       *)
(*                                                                         *)
(* A handler is one step and the store a value: how an append becomes      *)
(* durable is module Store's matter, what ingest does to a batch Ingest's, *)
(* and reads beside a compaction Reads's. A setup is the command line and  *)
(* the environment of a process: a record with field cmd and, for a        *)
(* server, its addresses, tokens and configurations.                       *)
(***************************************************************************)
EXTENDS Answers

CONSTANTS
    Procs, Setups,
    Launching,      \* bound: processes between launch and the lock at once
    MaxLaunches,    \* bound: processes launched
    MaxWrites,      \* bound: requests accepted that may write
    HttpRequests, GrpcRequests, StdioMessages,
    Places,         \* the machines: [born, dir, disk, taken]
    DemoSpans, DemoScores

ASSUME NodeAssumption == {Launching, MaxLaunches, MaxWrites} \subseteq Nat

Version == 1    \* FORMAT_VERSION
Doors == {"http", "grpc", "stdio"}
Markers == [whole : BOOLEAN, format : 0 .. Version + 1,
            from : {None, "fresh", "legacy", "newer"}, synced : BOOLEAN]

\* None is no process, no marker and no text; demo has no --dry-run; OTLP's only
\* call is Export; and the items of a JSON-RPC batch are an array.
ASSUME InputAssumption ==
    /\ None \notin Procs \cup Markers
    /\ None \notin {"auth", "address", "redaction", "rollup", "price", "disk", "holds data"}
    /\ \A c \in Setups : c.cmd = "demo" => ~c.dry
    /\ \A r \in GrpcRequests : r.what = "ingest"
    /\ \A r \in HttpRequests \cup StdioMessages :
          r.what = "mcp" /\ r.msg.form = "batch" => r.msg.items \in Seq(ToSet(r.msg.items))
Idle == [req |-> None, reply |-> None]

VARIABLES
    place,          \* the machine: what the directory was born as, whether it can be
                    \* written, the room on its disk, the ports others hold
    marker, tmp,    \* FORMAT and FORMAT.tmp: None or [whole, format, from, synced]
    entrySynced,    \* the rename of the marker is on disk
    tree,           \* wal/, blocks/ or the redb files exist
    st,             \* the store as [hot, blocks, db]
    lock,           \* the process that has it open
    pc, setup, ended,   \* each process: where it is, its setup, why the last one ended
    seen,           \* what its inspect made of the directory
    gate, access,   \* the server's tokens, and whether MCP may write
    doors,          \* "closed", "binding" or "open"
    slot,           \* a request at each door and its reply
    term,           \* SIGTERM arrived
    launches, writes

dirVars == <<marker, tmp, entrySynced, tree>>
procVars == <<pc, setup, ended, seen, lock>>
doorVars == <<gate, access, doors, slot, term>>
vars == <<place, dirVars, st, procVars, doorVars, launches, writes>>

Init ==
    /\ place \in Places
    /\ marker = IF place.born = "newer" THEN [whole |-> TRUE, format |-> Version + 1, from |-> "newer", synced |-> TRUE]
                ELSE None
    /\ tmp = None /\ entrySynced = TRUE
    /\ tree = (place.born # "fresh")
    /\ st = [hot |-> <<>>, blocks |-> <<>>, db |-> EmptyDb]
    /\ lock = None
    /\ pc = [p \in Procs |-> "off"] /\ setup = [p \in Procs |-> None]
    /\ ended = [p \in Procs |-> None] /\ seen = [p \in Procs |-> None]
    /\ gate = None /\ access = FALSE
    /\ doors = [d \in Doors |-> "closed"] /\ slot = [d \in Doors |-> Idle] /\ term = FALSE
    /\ launches = 0 /\ writes = 0

----------------------------------------------------------------------------
(***************************************************************************)
(* The bearer gate. A token is [name, quality]; the quality is "good",     *)
(* "short", "unsendable" (not printable ASCII) or "blank".                 *)
(***************************************************************************)

Refused == [ok |-> FALSE, tokens |-> None]
Real(tokens) == SelectSeq(tokens, LAMBDA t : t.quality # "blank")

\* Auth::from_tokens
FromTokens(tokens) ==
    IF tokens = <<>> \/ \E t \in ToSet(tokens) : t.quality # "good" THEN Refused
    ELSE [ok |-> TRUE, tokens |-> ToSet(tokens)]

\* Auth::from_sources: a file is [readable, tokens], its comments dropped.
FromSources(inline, file) ==
    IF Real(inline) = <<>> /\ file = None THEN [ok |-> TRUE, tokens |-> None]
    ELSE IF file = None THEN FromTokens(Real(inline))
    ELSE IF ~file.readable THEN Refused
    ELSE FromTokens(Real(inline) \o Real(file.tokens))

\* Auth::check, of a header [scheme, token].
Check(header) ==
    gate = None \/ (header # None /\ header.scheme = "bearer" /\ header.token \in gate)

----------------------------------------------------------------------------
(***************************************************************************)
(* Starting. Addresses are "loopback", "public", "padded" with blanks,     *)
(* "blank" or "bad".                                                       *)
(***************************************************************************)

Parses(address) == address \in {"loopback", "public"}
GrpcUntrimmed(c) == c.grpc = "blank" \/ Parses(c.grpc)   \* faulty variant
\* Only the gRPC address is trimmed; a blank one disables that listener.
GrpcOk(c) == Parses(c.grpc) \/ c.grpc \in {"padded", "blank"}
HasGrpc(c) == c.grpc # "blank"

\* What run checks of a server's setup before it opens anything, in order.
ServeRefusal(c) ==
    CASE ~FromSources(c.inline, c.file).ok -> "auth"
      [] ~Parses(c.http) \/ ~GrpcOk(c) -> "address"
      [] ~c.redact -> "redaction"
      [] ~c.rollup -> "rollup"
      [] c.price = "bad" -> "price"
      [] c.warn # 0 /\ c.min # 0 /\ c.warn <= c.min /\ c.probe -> "disk"
      [] OTHER -> None
\* demo_command refuses a directory with anything in it.
Refusal(c) ==
    CASE c.cmd = "serve" -> ServeRefusal(c)
      [] c.cmd = "demo" /\ (tree \/ marker # None \/ tmp # None \/ place.dir = "file") -> "holds data"
      [] OTHER -> None

Starting == {p \in Procs : pc[p] \notin {"off", "open", "work", "serving"}}
Goto(p, where) == pc' = [pc EXCEPT ![p] = where]

Launch(p, c) ==
    /\ pc[p] = "off" /\ launches < MaxLaunches /\ Cardinality(Starting) < Launching
    /\ Goto(p, "config")
    /\ setup' = [setup EXCEPT ![p] = c] /\ ended' = [ended EXCEPT ![p] = None]
    /\ launches' = launches + 1
    /\ UNCHANGED <<place, dirVars, st, seen, lock, doorVars, writes>>

\* The end of a process: the lock, and the doors with what is at them, go too.
Leave(p, why) ==
    /\ Goto(p, "off") /\ ended' = [ended EXCEPT ![p] = why]
    /\ IF lock = p
       THEN /\ lock' = None /\ gate' = None /\ access' = FALSE /\ term' = FALSE
            /\ doors' = [d \in Doors |-> "closed"] /\ slot' = [d \in Doors |-> Idle]
       ELSE UNCHANGED <<lock, doorVars>>
    /\ setup' = [setup EXCEPT ![p] = None] /\ seen' = [seen EXCEPT ![p] = None]

Configure(p) ==
    /\ pc[p] = "config"
    /\ IF Refusal(setup[p]) # None THEN Leave(p, Refusal(setup[p]))
       ELSE IF setup[p].cmd = "doctor" THEN Leave(p, "done")
       ELSE Goto(p, "inspect") /\ UNCHANGED <<setup, ended, seen, lock, doorVars>>
    /\ UNCHANGED <<place, dirVars, st, launches, writes>>

Readable == marker = None \/ (marker.whole /\ marker.format \in 1 .. Version)
FormatState == IF tree THEN "legacy" ELSE "fresh"

\* format::inspect and check_readable: by ensure, and by migrate, which ends
\* here unless it stamps.
Inspects(p) ==
    /\ pc[p] = "inspect"
    /\ LET c == setup[p]
       IN  IF place.dir = "file" THEN Leave(p, "dir")
           ELSE IF ~Readable THEN Leave(p, "marker")
           ELSE IF c.cmd = "migrate" /\ (marker # None \/ c.dry) THEN Leave(p, "done")
           ELSE /\ Goto(p, IF marker = None THEN "create" ELSE "lock")
                /\ seen' = [seen EXCEPT ![p] = FormatState]
                /\ UNCHANGED <<setup, ended, lock, doorVars>>
    /\ UNCHANGED <<place, st, launches, writes>>
\* The faulty variant makes the directories before it looks at the marker.
InspectAfterMkdir(p) ==
    Inspects(p) /\ tree' = (tree \/ place.dir = "dir") /\ UNCHANGED <<marker, tmp, entrySynced>>
Inspect(p) == Inspects(p) /\ UNCHANGED dirVars

\* format::stamp. fs::write truncates FORMAT.tmp, then fills it.
Stamps(p, from, to) == pc[p] = from /\ Goto(p, to) /\ UNCHANGED <<place, st, setup, ended, seen, lock, doorVars, tree, launches, writes>>
TmpCreated(p) ==
    /\ place.dir = "dir"
    /\ Stamps(p, "create", "fill")
    /\ tmp' = [whole |-> FALSE, format |-> 0, from |-> None, synced |-> FALSE]
    /\ UNCHANGED <<marker, entrySynced>>
TmpFilled(p) ==
    /\ Stamps(p, "fill", "sync")
    /\ tmp' = [whole |-> TRUE, format |-> Version, from |-> seen[p], synced |-> FALSE]
    /\ UNCHANGED <<marker, entrySynced>>
TmpSynced(p) ==
    /\ tmp # None
    /\ Stamps(p, "sync", "rename")
    /\ tmp' = [tmp EXCEPT !.synced = TRUE]
    /\ UNCHANGED <<marker, entrySynced>>
Renamed(p) ==
    /\ tmp # None
    /\ Stamps(p, "rename", "dirsync")
    /\ marker' = tmp /\ tmp' = None /\ entrySynced' = FALSE
DirSynced(p) ==
    /\ pc[p] = "dirsync"
    /\ entrySynced' = TRUE
    /\ IF setup[p].cmd = "migrate" THEN Leave(p, "done")
       ELSE Goto(p, "lock") /\ UNCHANGED <<setup, ended, seen, lock, doorVars>>
    /\ UNCHANGED <<place, st, marker, tmp, tree, launches, writes>>
\* The directory cannot be written, or another process renamed FORMAT.tmp.
StampFails(p) ==
    /\ \/ pc[p] = "create" /\ place.dir = "readonly"
       \/ pc[p] \in {"sync", "rename"} /\ tmp = None
    /\ Leave(p, "dir")
    /\ UNCHANGED <<place, dirVars, st, launches, writes>>

\* Store::open past the marker: the directories, then redb's exclusive lock.
Opens(p) ==
    /\ pc[p] = "lock"
    /\ IF place.dir = "readonly" THEN Leave(p, "dir") /\ UNCHANGED tree
       ELSE IF lock # None THEN Leave(p, "locked") /\ tree' = TRUE
       ELSE /\ tree' = TRUE /\ lock' = p
            /\ Goto(p, IF setup[p].cmd \in {"serve", "mcp"} THEN "open" ELSE "work")
            /\ UNCHANGED <<setup, ended, seen, doorVars>>
    /\ UNCHANGED <<place, marker, tmp, entrySynced, st, launches, writes>>

----------------------------------------------------------------------------
(***************************************************************************)
(* The commands that end by themselves.                                    *)
(***************************************************************************)

\* seal_now and compact_now: the hot tier becomes a block, one copy of a span.
Flushed(s) ==
    IF s.hot = <<>> THEN s
    ELSE [s EXCEPT !.hot = <<>>, !.blocks = Append(@, FirstCopies(s.hot).rows)]
\* merge_now over everything
Merged(s) ==
    IF Len(s.blocks) < 2 THEN s ELSE [s EXCEPT !.blocks = <<FirstCopies(FlattenSeq(@)).rows>>]
\* reclaim_before: blocks whose spans all started before the cutoff.
Reclaimed(s, cutoff) ==
    [s EXCEPT !.blocks = SelectSeq(@, LAMBDA b : \E x \in ToSet(b) : x.start >= cutoff)]

Works(p) ==
    /\ pc[p] = "work"
    /\ LET c == setup[p]
       IN  st' = CASE c.cmd = "compact" /\ ~c.dry -> Merged(st)
                   [] c.cmd = "retention" /\ ~c.dry -> Reclaimed(st, c.cutoff)
                   [] c.cmd = "demo" ->
                        Flushed([st EXCEPT !.hot = @ \o DemoSpans, !.db = PutBatch(@, DemoScores)])
                   [] OTHER -> st
    /\ Leave(p, "done")
    /\ UNCHANGED <<place, dirVars, launches, writes>>

----------------------------------------------------------------------------
(***************************************************************************)
(* The doors of the process that has the store open.                       *)
(***************************************************************************)

\* ingest::serve binds HTTP, and polls the two listeners together.
Serves(p) ==
    /\ pc[p] = "open"
    /\ LET c == setup[p]
       IN  IF c.cmd = "serve" /\ "http" \in place.taken THEN Leave(p, "port")
           ELSE /\ Goto(p, "serving")
                /\ doors' = CASE c.cmd = "mcp" -> [doors EXCEPT !["stdio"] = "open"]
                              [] HasGrpc(c) -> [doors EXCEPT !["http"] = "open", !["grpc"] = "binding"]
                              [] OTHER -> [doors EXCEPT !["http"] = "open"]
                /\ gate' = IF c.cmd = "mcp" THEN None ELSE FromSources(c.inline, c.file).tokens
                /\ access' = c.writes
                /\ UNCHANGED <<setup, ended, seen, lock, slot, term>>
    /\ UNCHANGED <<place, dirVars, st, launches, writes>>

\* try_join: the listener that fails takes the other one with it.
BindsGrpc(p) ==
    /\ pc[p] = "serving" /\ doors["grpc"] = "binding"
    /\ IF "grpc" \in place.taken THEN Leave(p, "port")
       ELSE doors' = [doors EXCEPT !["grpc"] = "open"] /\ UNCHANGED <<procVars, gate, access, slot, term>>
    /\ UNCHANGED <<place, dirVars, st, launches, writes>>

\* ingest_batch: an empty batch is not refused by a full disk.
Accepts(r) ==
    IF r.spans # <<>> /\ place.disk = "under" /\ setup[lock].probe
    THEN [reply |-> Reply(503), st |-> st]
    ELSE [reply |-> Reply(200),
          st |-> [st EXCEPT !.hot = @ \o r.spans, !.db = PutBatch(@, r.scores)]]

\* post_mcp: from a page of another origin nothing is taken.
Mcp(r) ==
    LET Said(h) == [reply |-> [Reply(IF h.reply = None THEN 202 ELSE 200) EXCEPT !.more = h.reply],
                    st |-> [st EXCEPT !.db = h.db]]
    IN  IF r.origin \notin {None, "loopback"} THEN [reply |-> Reply(403), st |-> st]
        ELSE IF r.msg.form = "garbage"
        THEN [reply |-> [Reply(400) EXCEPT !.more = Errs(None, "PARSE_ERROR")], st |-> st]
        ELSE Said(Handle(st, access, r.msg, writes))

\* static_handler: the console, for a browser.
Fallback(r) == Reply(IF r.method \in {"GET", "HEAD"} /\ ~r.api /\ ~r.dots THEN 200 ELSE 404)

\* router_with_auth: the probes are outside the gate, all else is within.
Routed(r) ==
    IF r.what = "probe" THEN [reply |-> Reply(200), st |-> st]
    ELSE IF ~Check(r.header) THEN [reply |-> Reply(401), st |-> st]
    ELSE IF r.what = "ingest" THEN Accepts(r)
    ELSE IF r.what = "mcp" THEN Mcp(r)
    ELSE [reply |-> IF r.what = "page" THEN Fallback(r) ELSE Get(st, r), st |-> st]

\* grpc: authorize_metadata before export. stdio: one message a line, from
\* the one process that holds its end.
Outcome(d, r) ==
    IF d # "grpc" THEN Routed(r)
    ELSE IF Check(r.header) THEN Accepts(r)
    ELSE [reply |-> Reply(401), st |-> st]

Messages(msg) == IF msg.form = "batch" THEN ToSet(msg.items) ELSE {msg}
AddsScore(m) == m.form = "object" /\ m.method = "tools/call" /\ m.tool = "add_score"
Counted(r) == r.what = "ingest" \/ (r.what = "mcp" /\ \E m \in Messages(r.msg) : AddsScore(m))

Put(d, req, reply) == slot' = [slot EXCEPT ![d] = [req |-> req, reply |-> reply]]

Receive(d, r) ==
    /\ doors[d] = "open" /\ slot[d] = Idle /\ ~term
    /\ Counted(r) => writes < MaxWrites
    /\ Put(d, r, None)
    /\ writes' = IF Counted(r) THEN writes + 1 ELSE writes
    /\ UNCHANGED <<place, dirVars, st, procVars, gate, access, doors, term, launches>>

Answer(d) ==
    /\ slot[d].req # None /\ slot[d].reply = None
    /\ \E out \in {Outcome(d, slot[d].req)} : Put(d, slot[d].req, out.reply) /\ st' = out.st
    /\ UNCHANGED <<place, dirVars, procVars, gate, access, doors, term, launches, writes>>

Deliver(d) ==
    /\ slot[d].reply # None
    /\ Put(d, None, None)
    /\ UNCHANGED <<place, dirVars, st, procVars, gate, access, doors, term, launches, writes>>

\* The client goes away, and the handler with it; one line of standard input
\* is answered before the next is read.
HangUp(d) ==
    /\ d # "stdio" /\ slot[d].req # None /\ slot[d].reply = None
    /\ Put(d, None, None)
    /\ UNCHANGED <<place, dirVars, st, procVars, gate, access, doors, term, launches, writes>>

\* The compactor of a server
Compact ==
    /\ lock # None /\ setup[lock].cmd = "serve" /\ pc[lock] = "serving"
    /\ \/ st.hot # <<>> /\ st' = Flushed(st)
       \/ Len(st.blocks) >= 2 /\ st' = Merged(st)
    /\ UNCHANGED <<place, dirVars, procVars, doorVars, launches, writes>>

\* shutdown_signal: docker stop, a pod deletion, systemd.
Terminate(p) ==
    /\ pc[p] = "serving" /\ setup[p].cmd = "serve" /\ ~term
    /\ term' = TRUE
    /\ UNCHANGED <<place, dirVars, st, procVars, gate, access, doors, slot, launches, writes>>

ToldHttpOnly(d) == term /\ d = "http"   \* faulty variant
\* on_shutdown: each listener has its own receiver of the signal; standard
\* input ends when the client says so.
Told(d) == d = "stdio" \/ term

\* A listener with nothing left to answer closes.
Closes(d) ==
    /\ doors[d] = "open" /\ Told(d) /\ slot[d] = Idle
    /\ doors' = [doors EXCEPT ![d] = "closed"]
    /\ UNCHANGED <<place, dirVars, st, procVars, gate, access, slot, term, launches, writes>>

Exits(p) ==
    /\ pc[p] = "serving" /\ \A d \in Doors : doors[d] = "closed"
    /\ Leave(p, "done")
    /\ UNCHANGED <<place, dirVars, st, launches, writes>>

----------------------------------------------------------------------------
(***************************************************************************)
(* Faults.                                                                 *)
(***************************************************************************)

Kill(p) ==
    /\ pc[p] # "off"
    /\ Leave(p, "killed")
    /\ UNCHANGED <<place, dirVars, st, launches, writes>>

\* What a power loss leaves of a file: all of it when it was synced.
Torn(f) == [f EXCEPT !.whole = FALSE]
Survives(f) == IF f = None \/ f.synced THEN {f} ELSE {f, Torn(f)}

PowerLoss ==
    /\ \E p \in Procs : pc[p] # "off"
    /\ marker' \in Survives(marker) \cup (IF entrySynced THEN {} ELSE {None})
    /\ tmp' \in Survives(tmp) \cup {None}
    /\ entrySynced' = TRUE
    /\ pc' = [p \in Procs |-> "off"] /\ ended' = [p \in Procs |-> "killed"]
    /\ lock' = None /\ gate' = None /\ access' = FALSE /\ term' = FALSE
    /\ doors' = [d \in Doors |-> "closed"] /\ slot' = [d \in Doors |-> Idle]
    /\ setup' = [p \in Procs |-> None] /\ seen' = [p \in Procs |-> None]
    /\ UNCHANGED <<place, tree, st, launches, writes>>

----------------------------------------------------------------------------

Proceed(p) ==
    \/ Configure(p) \/ Inspect(p) \/ TmpCreated(p) \/ TmpFilled(p) \/ TmpSynced(p) \/ Renamed(p)
    \/ DirSynced(p) \/ StampFails(p) \/ Opens(p) \/ Works(p) \/ Serves(p) \/ BindsGrpc(p)
    \/ Terminate(p) \/ Exits(p) \/ Kill(p)

Requests(d) ==
    CASE d = "http" -> HttpRequests [] d = "grpc" -> GrpcRequests [] d = "stdio" -> StdioMessages

Next ==
    \/ \E p \in Procs : Proceed(p) \/ \E c \in Setups : Launch(p, c)
    \/ \E d \in Doors : Answer(d) \/ Deliver(d) \/ HangUp(d) \/ Closes(d) \/ \E r \in Requests(d) : Receive(d, r)
    \/ Compact
    \/ PowerLoss

\* The part of a server that waits on nobody: a listener that may close does,
\* one that has to bind is polled, and a process with none left ends.
Settles ==
    \/ \E d \in Doors : Closes(d)
    \/ \E p \in Procs : BindsGrpc(p) \/ Exits(p)
Fairness == WF_vars(Settles)

Spec == Init /\ [][Next]_vars /\ Fairness

----------------------------------------------------------------------------
(***************************************************************************)
(* Properties.                                                             *)
(***************************************************************************)

\* The format marker is whole whenever it is there, across kills and power
\* losses, says legacy of a directory that predates it, and is there before
\* anything else is made in a new directory; a directory of another format is
\* left as it is by every command, and only the process that holds the lock
\* changes the store.
FormatRespected ==
    /\ [](marker # None => marker.whole /\ (place.born = "legacy" => marker.from = "legacy"))
    /\ [][~tree /\ tree' => marker # None]_vars
    /\ [][~Readable => UNCHANGED <<dirVars, st>>]_vars
    /\ [][st' # st => lock # None /\ Readable]_vars

MayWrite(d, r) ==
    /\ d # "stdio" => Check(r.header)
    /\ \/ r.what = "ingest"
       \/ /\ r.what = "mcp" /\ access /\ r.origin \in {None, "loopback"}
          /\ \E m \in Messages(r.msg) : AddsScore(m) /\ m.id # None

\* A request changes the store only when it is let in and is one that writes:
\* never a read, a statement of SQL, a notification, a request without a
\* token or from another origin, a tool the agent was not given, a dry run;
\* and a probe is answered whatever it carries.
OnlyWritersWrite ==
    [][/\ \A d \in Doors : slot[d].reply = None /\ slot'[d].reply # None =>
            /\ st' # st => MayWrite(d, slot[d].req)
            /\ slot[d].req.what = "probe" => slot'[d].reply.status = 200
       /\ \A p \in Procs : pc[p] = "work" /\ setup[p].dry => st' = st]_vars

\* The reference answers: the first copy of each span, the hot tier first.
Copies == st.hot \o FlattenSeq(st.blocks)
WinnersOf(copies, trace) ==
    {copies[i] : i \in {j \in DOMAIN copies :
        /\ trace \in {None, copies[j].trace}
        /\ \A k \in 1 .. j - 1 : SpanKey(copies[k]) # SpanKey(copies[j])}}
Winners(trace) == WinnersOf(Copies, trace)
Whole(rows, W) == ToSet(rows) = W /\ Len(rows) = Cardinality(W)
Newest(rows, W, n) ==
    /\ ToSet(rows) \subseteq W /\ Len(rows) = Min({n, Cardinality(W)})
    /\ \A i, j \in DOMAIN rows : i < j => rows[i] # rows[j] /\ rows[i].start >= rows[j].start
    /\ \A w \in W \ ToSet(rows), i \in DOMAIN rows : w.start <= rows[i].start
ExactUnlessFlagged(rows, W) ==
    \A i \in DOMAIN rows : \E of \in {Cardinality({w \in W : w.session = rows[i].session})} :
        IF rows[i].truncated THEN rows[i].spans <= of ELSE rows[i].spans = of
AllSpans(rows, truncated, W) ==
    /\ ToSet(rows) \subseteq ToSet(Copies)
    /\ ~truncated => {SpanKey(w) : w \in W} = {SpanKey(s) : s \in ToSet(rows)}
    /\ \A i, j \in DOMAIN rows : rows[i] \in ToSet(st.hot) /\ SpanKey(rows[i]) = SpanKey(rows[j]) => i = j
InOrder(rows) == \A i, j \in DOMAIN rows : i < j => rows[i].start <= rows[j].start
Asks(r, tool) == r.what = "mcp" /\ r.msg.form = "object" /\ r.msg.tool = tool
\* W: the spans a question is about.
Truthful(r, reply, W) ==
    CASE r.what = "spans" -> Newest(reply.rows, W, Clamped(r.limit, Caps["spans"]))
      [] r.what = "trace" ->
            Whole(reply.rows, W) /\ (reply.status = 404) = (W = {}) /\ InOrder(reply.rows)
      [] r.what \in {"sessions", "session"} -> ExactUnlessFlagged(reply.rows, W)
      [] r.what = "sql" /\ r.stmts[1].explains = <<>> /\ r.stmts[1].table = "spans" ->
            /\ AllSpans(reply.rows, reply.more, W)
            /\ reply.more => Len(reply.rows) = Clamped(r.limit, Caps["sql"])
      [] Asks(r, "get_trace") /\ r.msg.id # None /\ W # {} ->
            ToSet(reply.more.result.spans) = {[w EXCEPT !.text = IF @ = "long" THEN "cut" ELSE @] : w \in W}
      [] OTHER -> TRUE
About(r) ==
    CASE r.what \in {"spans", "trace"} -> r.trace
      [] Asks(r, "get_trace") -> r.msg.args.trace
      [] OTHER -> None

\* Whatever copies of a span the tiers and blocks hold, an answer has one of
\* it, the hot one first, the newest spans up to the limit and none passed
\* over; a report that is not flagged truncated counts all there is; and an
\* agent is given the trace REST gives.
AnswersAgree ==
    [][\A d \in Doors :
         slot[d].reply = None /\ slot'[d].reply # None /\ slot'[d].reply.status \in {200, 404} =>
            Truthful(slot[d].req, slot'[d].reply, Winners(About(slot[d].req)))]_vars

\* A server told to stop does: both listeners hear of it, and once each
\* request in flight has been answered and read, or given up, the process
\* ends and gives up the lock. No timeout ends a handler, so it waits for them.
Drains == (\A d \in Doors : []<>(slot[d] = Idle)) => (term ~> ~term)

----------------------------------------------------------------------------
(***************************************************************************)
(* evald doctor: the checks that fail, of a setup on this machine. A port  *)
(* in use is a warning.                                                    *)
(***************************************************************************)

DataDirFails == place.dir \in {"file", "readonly"}
DiskFails == place.dir # "file" /\ place.disk = "under"
PortParses(address) == address \in {"loopback", "public", "padded"}
PortFails(c) == ~PortParses(c.http) \/ (c.grpc # "blank" /\ ~PortParses(c.grpc))
AuthConfigured(c) == Real(c.inline) # <<>> \/ c.file # None
ExposureFails(c) == "public" \in {c.http, c.grpc} /\ ~AuthConfigured(c)
DoctorFails(c) ==
    {k \in {"dir", "disk", "address", "exposure", "price"} :
        CASE k = "dir" -> DataDirFails
          [] k = "disk" -> DiskFails
          [] k = "address" -> PortFails(c)
          [] k = "exposure" -> ExposureFails(c)
          [] k = "price" -> c.price = "bad"}

\* What doctor fails, serve refuses, an exposed store without a token and a
\* full disk aside; and what serve refuses for its directory, its addresses
\* or its price table, doctor fails, an HTTP address with blanks aside.
DoctorAgrees ==
    [][\A p \in Procs : setup[p] # None /\ setup[p].cmd = "serve" =>
        /\ pc[p] = "open" /\ pc'[p] = "serving" => DoctorFails(setup[p]) \subseteq {"exposure", "disk"}
        /\ pc[p] # "off" /\ pc'[p] = "off" /\ ended'[p] \in {"dir", "address", "price"} =>
                ended'[p] \in DoctorFails(setup[p]) \/ setup[p].http = "padded"]_vars
=============================================================================
