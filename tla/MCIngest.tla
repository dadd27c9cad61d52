------------------------------ MODULE MCIngest ------------------------------
(***************************************************************************)
(* A finite instance of Ingest. Call k1 comes on two signals, r1 and r2;   *)
(* k2 comes as an anchor in r1 and as a droppable copy in r2, with a third *)
(* call; r3 is a stranger. Payloads p and q are both large and share a     *)
(* hash; secret is a secret that the redactor turns into v. The post re-targets *)
(* the score of r1 to a span of r2.                                        *)
(***************************************************************************)
EXTENDS Ingest

CONSTANTS r1, r2, r3, p1, k1, k2, k3, p, q, v, secret

MCRequests == {r1, r2, r3}
SpanTraces == [s \in {"a", "b", "c", "z"} |-> IF s = "c" THEN "t2" ELSE "t1"]
Span(id, key, anchor, load) == [id |-> id, key |-> key, anchor |-> anchor, load |-> load]
Eval(id, span, ts) == [id |-> id, target |-> <<"span", span>>, ts |-> ts, source |-> "eval"]
Exports ==
    r1 :> [door |-> "http", token |-> "open",
           spans |-> <<Span("a", k1, None, p), Span("b", None, k2, q)>>,
           scores |-> <<Eval("s1", "a", 1)>>]
    @@ r2 :> [door |-> "grpc", token |-> "open",
              spans |-> <<Span("a", k1, None, None), Span("z", k2, None, None), Span("c", k3, None, secret)>>,
              scores |-> <<Eval("s2", "a", 1), Eval("s2", "c", 2)>>]
    @@ r3 :> [door |-> "grpc", token |-> None, spans |-> <<Span("a", None, None, None)>>,
              scores |-> <<>>]
MCTries == r1 :> 2 @@ r2 :> 1 @@ r3 :> 1
MCPosts == {p1}
Ids(span, trace) == [span |-> span, trace |-> trace, session |-> None, run |-> None]
Requested ==
    p1 :> [route |-> "scores", strict |-> TRUE,
           items |-> <<[id |-> "s1", ts |-> 3, valued |-> TRUE, ids |-> Ids("c", "t2")]>>]
Scrubbed == p :> p @@ q :> q @@ v :> v @@ secret :> v
Digests == [x \in {p, q, v, secret} |-> IF x \in {p, q} THEN "h" ELSE "g"]
MCOversized == {p, q, secret, v}

\* TLC evaluates a definition once, but not the body of one given to a constant.
MCTraceOf == SpanTraces
MCBatch == Exports
MCPosted == Requested
MCRedacted == Scrubbed
MCHash == Digests
=============================================================================
