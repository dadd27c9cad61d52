------------------------------- MODULE MCNode -------------------------------
(***************************************************************************)
(* A finite instance of Node: machines whose directory is new, older than  *)
(* the marker, of a newer format or not writable; the commands and some    *)
(* setups that cannot start; a span sent twice with another content, a     *)
(* trace with a parent it does not hold, and limits small enough to bite.  *)
(***************************************************************************)
EXTENDS Node

Limits(default, max) == [default |-> default, max |-> max]
MCCaps ==
    "spans" :> Limits(2, 3) @@ "sessions" :> Limits(1, 2) @@ "sql" :> Limits(2, 3)
        @@ "mcp_sql" :> Limits(1, 2) @@ "items" :> Limits(1, 2)

Span(trace, id, parent, session, start, text) ==
    [trace |-> trace, id |-> id, parent |-> parent, session |-> session, start |-> start, text |-> text]
First == Span(1, 1, None, 1, 1, "short")
Again == Span(1, 1, None, 1, 5, "long")
Child == Span(1, 2, 1, 1, 2, "short")
Younger == Span(1, 2, 1, 2, 4, "long")
Other == Span(2, 1, 9, 2, 2, "long")

Score(id, target, value, run, ts) ==
    [id |-> id, target |-> target, name |-> "q", ts |-> ts, value |-> value, run |-> run, aggregate |-> FALSE]
MCDemoSpans == <<Child, Other>>
Id(name) == <<name>>
MCDemoScores ==
    <<Score(Id("d"), <<"span", 2>>, 0, 1, 1), Score(Id("e"), <<"trace", 1>>, 1, None, 2)>>

Token(name, quality) == [name |-> name, quality |-> quality]
Good == Token("k", "good")
Bearer(t) == [scheme |-> "bearer", token |-> t]

Plain ==
    [cmd |-> "serve", dry |-> FALSE, cutoff |-> 0, http |-> "loopback", grpc |-> "padded",
     inline |-> <<>>, file |-> None, redact |-> TRUE, rollup |-> TRUE, price |-> "good",
     min |-> 1, warn |-> 2, probe |-> TRUE, writes |-> TRUE]
Guarded ==
    [Plain EXCEPT !.http = "public", !.grpc = "blank", !.writes = FALSE, !.warn = 1, !.probe = FALSE,
                  !.inline = <<Token("", "blank")>>, !.file = [readable |-> TRUE, tokens |-> <<Good>>]]
Command(cmd, dry) == [Plain EXCEPT !.cmd = cmd, !.dry = dry]
MCSetups ==
    {Plain, Guarded, [Plain EXCEPT !.http = "padded"],
     [Plain EXCEPT !.grpc = "bad"], [Plain EXCEPT !.inline = <<Good, Token("s", "short")>>],
     [Plain EXCEPT !.redact = FALSE], [Plain EXCEPT !.price = "bad", !.rollup = TRUE],
     [Plain EXCEPT !.warn = 1],
     Command("mcp", FALSE), Command("demo", FALSE), Command("doctor", FALSE),
     Command("migrate", FALSE), Command("migrate", TRUE), Command("compact", FALSE),
     Command("compact", TRUE), [Command("retention", FALSE) EXCEPT !.cutoff = 3]}

Machine(born, dir, disk, taken) == [born |-> born, dir |-> dir, disk |-> disk, taken |-> taken]
MCPlaces ==
    {Machine("fresh", "dir", "fine", {}), Machine("legacy", "dir", "under", {}),
     Machine("newer", "dir", "fine", {}), Machine("fresh", "readonly", "fine", {}),
     Machine("fresh", "file", "fine", {}), Machine("fresh", "dir", "fine", {"grpc"}),
     Machine("legacy", "dir", "fine", {"http"})}

Ingest(header, spans, scores) == [what |-> "ingest", header |-> header, spans |-> spans, scores |-> scores]
Ask(what, more) == [what |-> what, header |-> None] @@ more
Select(table, explains) == <<[explains |-> explains, body |-> "query", table |-> table]>>

NoArgs == [trace |-> 1, session |-> 1, limit |-> None, stmts |-> Select("spans", <<>>), run |-> 1,
           below |-> 1, revision |-> "2024-11-05", target |-> <<"span", 2>>, name |-> "q", value |-> 1, label |-> None]
Message(id, method, tool) == [form |-> "object", id |-> id, method |-> method, tool |-> tool, args |-> NoArgs]
Tool(tool) == Message(7, "tools/call", tool)
Batch(items) == [form |-> "batch", items |-> items]
Post(msg) == [what |-> "mcp", header |-> None, origin |-> None, msg |-> msg]

MCHttpRequests ==
    {Ingest(None, <<First, Younger, Again>>, MCDemoScores),
     Ingest(None, <<>>, <<Score(Id("d"), <<"run", 1>>, 0, 1, 3)>>),
     Ask("probe", <<>>), Ask("page", [method |-> "GET", api |-> FALSE, dots |-> FALSE]),
     Ask("page", [method |-> "POST", api |-> TRUE, dots |-> FALSE]),
     [Ask("spans", [trace |-> None, limit |-> 1]) EXCEPT !.header = Bearer(Good)],
     Ask("spans", [trace |-> 1, limit |-> None]), Ask("trace", [trace |-> 1]), Ask("trace", [trace |-> 2]),
     Ask("sessions", [limit |-> 0]), Ask("session", [session |-> 1]),
     Ask("scores", [span |-> 2, trace |-> 1, session |-> None, run |-> None]),
     Ask("scores", [span |-> None, trace |-> None, session |-> None, run |-> None, limit |-> 1]),
     Ask("score", [id |-> Id("d")]),
     Ask("sql", [stmts |-> Select("spans", <<>>), limit |-> None]),
     Ask("sql", [stmts |-> Select("scores", <<FALSE>>), limit |-> None]),
     Ask("sql", [stmts |-> Select("spans", <<FALSE, TRUE>>), limit |-> 1]),
     Post(Tool("get_trace")), Post(Tool("add_score")), Post(Message(None, "tools/call", "add_score")),
     [Post(Tool("add_score")) EXCEPT !.origin = "other"],
     Post(Batch(<<Message(None, "initialized", None), Tool("add_score"), Tool("failing_items")>>)),
     Post([form |-> "garbage"])}
MCGrpcRequests == {Ingest(None, <<Again, Younger>>, <<>>)}
MCStdioMessages ==
    {Post(Tool("sql")), Post(Tool("list_sessions")), Post(Tool("get_session")), Post(Batch(<<>>)),
     Post(Batch(<<Message(1, "initialize", None), Message(2, "tools/list", None), Message(3, "ping", None)>>)),
     Post(Batch(<<Message(None, "ping", None)>>)), Post([form |-> "scalar"]),
     Post(Message(1, None, None)), Post(Message(1, "prompts", None)), Post(Tool("drop_all"))}
=============================================================================
