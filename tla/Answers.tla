------------------------------ MODULE Answers ------------------------------
(***************************************************************************)
(* What evald answers to a question about its store: Store::query and the  *)
(* reads built on it (src/src/store/mod.rs), /v1/sql (src/src/sql.rs), the *)
(* REST handlers (src/src/ingest.rs) and the MCP tools (src/src/mcp.rs).   *)
(* The operators are pure. A store is [hot, blocks, db]: the spans of the  *)
(* hot tier in order, those of every committed block in path order, and    *)
(* the score tables of ScoreStore. A span has fields trace, id, parent,    *)
(* session, start and text ("long" beyond MAX_STRING, or "short"), a score *)
(* also run, aggregate and value. Interleavings with the compactor are     *)
(* module Reads's matter, the contents of the reports Summaries's.         *)
(***************************************************************************)
EXTENDS Integers, ScoreStore

CONSTANTS
    None,
    Caps,       \* each bounded read's [default, max] rows
    ScanCap,    \* sessions::SCAN_CAP
    PlanLines   \* the rows EXPLAIN gives

ASSUME AnswersAssumption ==
    /\ ScanCap \in Nat \ {0} /\ PlanLines \in Nat
    /\ \A c \in DOMAIN Caps : Caps[c].default \in 1 .. Caps[c].max

\* unwrap_or(default).clamp(1, max)
Clamped(limit, cap) ==
    IF limit = None THEN cap.default
    ELSE IF limit < 1 THEN 1 ELSE IF limit > cap.max THEN cap.max ELSE limit
\* list_sessions of the REST API: no lower bound.
Capped(limit, cap) ==
    IF limit = None THEN cap.default ELSE IF limit > cap.max THEN cap.max ELSE limit
Cut(rows, n) == SubSeq(rows, 1, IF n < Len(rows) THEN n ELSE Len(rows))

----------------------------------------------------------------------------
(***************************************************************************)
(* Store::query: newest first, ties in the order of insertion.             *)
(***************************************************************************)

SpanKey(s) == <<s.trace, s.id>>

\* Rows::push. Rows are kept best first; over a limit the worst one goes. A
\* limit of None is usize::MAX.
Push(rows, s, limit) ==
    LET before == Cardinality({i \in DOMAIN rows : rows[i].start >= s.start})
        more == InsertAt(rows, before + 1, s)
    IN  IF limit # None /\ Len(more) > limit THEN Front(more) ELSE more

NothingSeen == [seen |-> {}, rows |-> <<>>]

\* The faulty variant remembers only the keys of the spans it kept.
OfferForgets(acc, s, limit) ==
    LET rows == IF SpanKey(s) \in acc.seen THEN acc.rows ELSE Push(acc.rows, s, limit)
    IN  [seen |-> {SpanKey(rows[i]) : i \in DOMAIN rows}, rows |-> rows]
\* The first span of a key is a candidate; every key is remembered, of a span
\* that lost its place too.
Offer(acc, s, limit) ==
    IF SpanKey(s) \in acc.seen THEN acc
    ELSE [seen |-> acc.seen \cup {SpanKey(s)}, rows |-> Push(acc.rows, s, limit)]

Selected(spans, limit) == FoldLeft(LAMBDA acc, s : Offer(acc, s, limit), NothingSeen, spans)
FirstCopies(spans) == FoldLeft(LAMBDA acc, s : Offer(acc, s, None), NothingSeen, spans)

\* The cold rows join those of the hot tier; one under a hot key is skipped.
Joined(hot, stored, limit) ==
    FoldLeft(LAMBDA acc, s : IF SpanKey(s) \in hot.seen THEN acc ELSE Offer(acc, s, limit),
             NothingSeen, stored)
WithCold(hot, cold, limit) == FoldLeft(LAMBDA rows, s : Push(rows, s, limit), hot.rows, cold.rows)
Query(st, trace, limit) ==
    LET Matching(spans) == SelectSeq(spans, LAMBDA s : trace \in {None, s.trace})
        Answer(hot) == WithCold(hot, Joined(hot, Matching(FlattenSeq(st.blocks)), limit), limit)
    IN  IF limit = 0 THEN <<>> ELSE Answer(Selected(Matching(st.hot), limit))

\* Store::trace: the stable sort by start of all of them.
Trace(st, trace) ==
    FoldLeft(LAMBDA rows, s :
                 InsertAt(rows, Cardinality({i \in DOMAIN rows : rows[i].start <= s.start}) + 1, s),
             <<>>, Query(st, trace, None))

\* views_in_trace: a parent the trace does not hold.
Orphans(spans) ==
    {i \in DOMAIN spans : spans[i].parent \notin {None} \cup {spans[j].id : j \in DOMAIN spans}}

\* trace_scores: the trace's own, then each of its spans'.
TraceScores(st, trace, spans) ==
    ByTarget(st.db, <<"trace", trace>>)
        \o FlattenSeq([i \in DOMAIN spans |-> ByTarget(st.db, <<"span", spans[i].id>>)])

\* sessions::rollups over one scan: sessions by their last span, each flagged
\* when the scan was full.
Sessions(scan) ==
    LET Row(id, of) ==
            [session |-> id, spans |-> Len(of), ended |-> Max({s.start : s \in ToSet(of)}),
             truncated |-> Len(scan) >= ScanCap]
        ids == {s.session : s \in ToSet(scan)} \ {None}
    IN  SortSeq(Listed({Row(id, SelectSeq(scan, LAMBDA s : s.session = id)) : id \in ids}),
                LAMBDA a, b : a.ended > b.ended \/ (a.ended = b.ended /\ a.session < b.session))
ListSessions(st, n) == Cut(Sessions(Query(st, None, ScanCap)), n)
GetSession(st, id) == SelectSeq(Sessions(Query(st, None, ScanCap)), LAMBDA r : r.session = id)

----------------------------------------------------------------------------
(***************************************************************************)
(* SQL. A statement is [explains, body, table]: the EXPLAINs around it,    *)
(* TRUE for ANALYZE, what it is ("query" or another) and what it reads.    *)
(***************************************************************************)

\* statement_is_read_only, of the only statement.
ReadOnly(stmts) ==
    Len(stmts) = 1 /\ stmts[1].body = "query" /\ TRUE \notin ToSet(stmts[1].explains)

\* The spans view: hot_spans, and the rows of the blocks under no hot key.
SpansView(st) ==
    LET View(hot) == hot.rows \o SelectSeq(FlattenSeq(st.blocks), LAMBDA s : SpanKey(s) \notin hot.seen)
    IN  View(FirstCopies(st.hot))

\* bound_rows fetches one row past the limit, which truncated tells of.
AllRows(st, stmts) ==
    IF stmts[1].explains # <<>> THEN [i \in 1 .. PlanLines |-> [plan |-> i]]
    ELSE IF stmts[1].table = "spans" THEN SpansView(st)
    ELSE List(st.db, Cardinality(DOMAIN st.db.rows))
BoundRows(all, limit) == [rows |-> Cut(all, limit), truncated |-> Len(all) > limit]
SqlQuery(st, stmts, limit) == BoundRows(Cut(AllRows(st, stmts), limit + 1), limit)

----------------------------------------------------------------------------
(***************************************************************************)
(* MCP. A message is [form, id, method, tool, args] of form "object", or   *)
(* one that is not an object; a batch has form "batch" and items, none of  *)
(* which is a batch. Handling one gives what is replied, None for nothing, *)
(* and the score tables after it.                                          *)
(***************************************************************************)

ReadTools == {"sql", "get_trace", "list_sessions", "get_session", "failing_items"}
WriteTools == {"add_score"}
\* tools
Tools(access) == ReadTools \cup (IF access THEN WriteTools ELSE {})

Known(access, tool) == tool \in Tools(access)

\* trim: a string past MAX_STRING is cut.
Trimmed(rows) ==
    [i \in DOMAIN rows |-> IF "text" \in DOMAIN rows[i] /\ rows[i].text = "long"
                           THEN [rows[i] EXCEPT !.text = "cut"] ELSE rows[i]]

Failure == [isError |-> TRUE]
Result(spans, more) == [isError |-> FALSE, spans |-> Trimmed(spans), more |-> more]
Unless(missing, result) == IF missing THEN Failure ELSE result

\* failing_items: the run's own scores below a value, the lowest first.
FailingItems(st, run, below) ==
    SortSeq(Listed({s \in Range(st.db.rows) :
                        s.run = run /\ ~s.aggregate /\ s.value # None /\ s.value < below}),
            LAMBDA s, t : s.value < t.value)

\* add_score: of a span, a trace or a session, a number or a label.
Addable(a) ==
    /\ None \notin {a.target[2], a.name} /\ a.target[1] \in {"span", "trace", "session"}
    /\ (a.value # None) # (a.label # None)
Added(a, now) ==
    [id |-> <<"mcp", a.target, a.name, now>>, target |-> a.target, name |-> a.name,
     ts |-> now, value |-> a.value, run |-> None, aggregate |-> FALSE]

\* run: the result of a tool that reads.
Run(st, tool, a) ==
    LET SqlResult(r) == Result(r.rows, r.truncated)
        TraceResult(spans) == Unless(spans = <<>>, Result(spans, TraceScores(st, a.trace, spans)))
        SessionResult(row) == Unless(row = <<>>, Result(<<>>, row))
    IN  CASE tool = "sql" ->
                IF ReadOnly(a.stmts) THEN SqlResult(SqlQuery(st, a.stmts, Clamped(a.limit, Caps["mcp_sql"])))
                ELSE Failure
          [] tool = "get_trace" -> TraceResult(Trace(st, a.trace))
          [] tool = "list_sessions" -> Result(<<>>, ListSessions(st, Clamped(a.limit, Caps["sessions"])))
          [] tool = "get_session" -> SessionResult(GetSession(st, a.session))
          [] tool = "failing_items" ->
                Result(<<>>, Cut(FailingItems(st, a.run, a.below), Clamped(a.limit, Caps["items"])))

Errs(id, code) == [id |-> id, error |-> code]
Okay(id, result) == [id |-> id, result |-> result]
Replies(st, reply) == [reply |-> reply, db |-> st.db]

\* call
Call(st, access, m, now) ==
    IF m.tool = None \/ ~Known(access, m.tool) THEN Replies(st, Errs(m.id, "INVALID_PARAMS"))
    ELSE IF m.tool \in ReadTools THEN Replies(st, Okay(m.id, Run(st, m.tool, m.args)))
    ELSE IF ~Addable(m.args) THEN Replies(st, Okay(m.id, Failure))
    ELSE [reply |-> Okay(m.id, Result(<<>>, Added(m.args, now))),
          db |-> PutBatch(st.db, <<Added(m.args, now)>>)]

\* initialize, with the newest revision for one this server does not speak.
Revisions == <<"2025-06-18", "2025-03-26", "2024-11-05">>
Initialize(m) == [revision |-> IF m.args.revision \in ToSet(Revisions) THEN m.args.revision ELSE Head(Revisions)]

\* handle, of one message. The faulty variant looks at the id after the call.
Answered(st, access, m, now) ==
    CASE m.method = "initialize" -> Replies(st, Okay(m.id, Initialize(m)))
      [] m.method = "tools/list" -> Replies(st, Okay(m.id, Tools(access)))
      [] m.method = "tools/call" -> Call(st, access, m, now)
      [] m.method \in {"ping", "resources/list", "prompts/list"} -> Replies(st, Okay(m.id, {}))
      [] OTHER -> Replies(st, Errs(m.id, "METHOD_NOT_FOUND"))
OneRunsNotifications(st, access, m, now) ==
    IF m.form # "object" THEN Replies(st, Errs(None, "INVALID_REQUEST"))
    ELSE IF m.method = None THEN Replies(st, None)
    ELSE [Answered(st, access, m, now) EXCEPT !.reply = IF m.id = None THEN None ELSE @]
One(st, access, m, now) ==
    IF m.form # "object" THEN Replies(st, Errs(None, "INVALID_REQUEST"))
    ELSE IF None \in {m.method, m.id} THEN Replies(st, None)
    ELSE Answered(st, access, m, now)

\* handle, of a message or a batch: in order, each on what the last one left.
Handle(st, access, m, now) ==
    LET Then(acc, r) ==
            [reply |-> IF r.reply = None THEN acc.reply ELSE Append(acc.reply, r.reply), db |-> r.db]
        Packed(all) ==
            [all EXCEPT !.reply = IF @ = <<>> THEN None ELSE IF m.form = "batch" THEN @ ELSE Head(@)]
        items == IF m.form = "batch" THEN m.items ELSE <<m>>
    IN  IF items = <<>> THEN Replies(st, Errs(None, "INVALID_REQUEST"))
        ELSE Packed(FoldLeft(LAMBDA acc, item : Then(acc, One([st EXCEPT !.db = acc.db], access, item, now)),
                             Replies(st, <<>>), items))

----------------------------------------------------------------------------
(***************************************************************************)
(* The REST reads. A reply is [status, rows, more].                        *)
(***************************************************************************)

Reply(status) == [status |-> status, rows |-> <<>>, more |-> None]
Found(rows, more) ==
    IF rows = <<>> THEN Reply(404) ELSE [status |-> 200, rows |-> rows, more |-> more]
Rows(rows) == [status |-> 200, rows |-> rows, more |-> None]

\* target_from_parts: the most specific id given, an empty one being none.
TargetFromParts(q) ==
    LET kinds == <<"span", "trace", "session", "run">>
        i == SelectInSeq(kinds, LAMBDA k : q[k] # None)
    IN  IF i = 0 THEN None ELSE <<kinds[i], q[kinds[i]]>>

\* get_spans, get_trace, get_trace_rollup's scores, list_sessions,
\* get_session, get_scores, get_score_by_id and post_sql.
Get(st, q) ==
    LET TraceReply(spans) == Found(spans, Orphans(spans))
        SqlReply(r) == [status |-> 200, rows |-> r.rows, more |-> r.truncated]
        ScoreReply(target) ==
            Rows(IF target # None THEN ByTarget(st.db, target)
                 ELSE List(st.db, Clamped(q.limit, Caps["spans"])))
    IN  CASE q.what = "spans" -> Rows(Query(st, q.trace, Clamped(q.limit, Caps["spans"])))
          [] q.what = "trace" -> TraceReply(Trace(st, q.trace))
          [] q.what = "sessions" -> Rows(ListSessions(st, Capped(q.limit, Caps["sessions"])))
          [] q.what = "session" -> Found(GetSession(st, q.session), None)
          [] q.what = "scores" -> ScoreReply(TargetFromParts(q))
          [] q.what = "score" ->
                IF q.id \in DOMAIN st.db.rows THEN Rows(<<st.db.rows[q.id]>>) ELSE Reply(404)
          [] q.what = "sql" ->
                IF ReadOnly(q.stmts) THEN SqlReply(SqlQuery(st, q.stmts, Clamped(q.limit, Caps["sql"])))
                ELSE Reply(400)
=============================================================================
