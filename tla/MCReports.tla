----------------------------- MODULE MCReports -----------------------------
(***************************************************************************)
(* A finite instance of Reports: an agent whose tool calls are traced at   *)
(* two layers, a trace whose parents close on themselves, model calls with *)
(* derived, reported, unreadable and unknown costs, one of them exported   *)
(* twice with another content, and scores of spans and of traces.          *)
(***************************************************************************)
EXTENDS Reports

Id(stem) == [path |-> <<>>, region |-> None, stem |-> stem, versions |-> <<>>, at |-> None]
Rates(i, o) == [input |-> i, output |-> o, cache_read |-> 1, cache_write |-> None]
Priced ==
    [version |-> <<"c0", 1>>, as_of |-> 1,
     models |-> Id("gpt") :> [base |-> Rates(10, 80), reasoning |-> None, tiers |-> <<>>]
             @@ Id("flash") :> [base |-> Rates(7, 50), reasoning |-> 70, tiers |-> <<>>]]

Draft(trace, id, parent, start, end, status, str, num) ==
    [trace |-> trace, id |-> id, parent |-> parent, name |-> "work", kind |-> 1, start |-> start,
     end |-> end, status |-> status, message |-> None, attrs |-> [Bare EXCEPT !.str = str, !.num = num]]
Span(draft) == Apply(Priced, NormalizeSpan(draft, "app"))
Sid(id) == "session.id" :> id

Tool(trace, id, parent, start, status, more) ==
    Span(Draft(trace, id, parent, start, start + 1, status,
               Sid("s1") @@ "gen_ai.operation.name" :> "execute_tool" @@ more, <<>>))
Sh == "gen_ai.tool.name" :> "sh"
Ls == "gen_ai.tool.call.arguments" :> "ls"
Call(k) == "gen_ai.tool.call.id" :> k
Agent ==
    <<Span(Draft(1, 1, None, 0, 9, 0, Sid("s1") @@ "gen_ai.operation.name" :> "invoke_agent", <<>>)),
      Tool(1, 2, 1, 1, 0, Call("k") @@ Ls), Tool(1, 3, 2, 2, 2, Call("k") @@ Sh),
      Tool(1, 4, 2, 3, 0, Sh)>>
Again ==
    <<Tool(1, 5, 1, 5, 0, Sh @@ Ls), Tool(1, 6, 5, 6, 2, Sh), Tool(1, 7, 9, 7, 0, Sh @@ Ls)>>
Closed ==
    <<Tool(2, 2, 3, 1, 0, Sh), Tool(2, 3, 2, 2, 0, Call("m")), Tool(2, 1, 2, 3, 0, Sh), Tool(2, 4, 4, 4, 0, Sh)>>

Llm(id, model, end, str, num) ==
    Span(Draft(3, id, None, 0, end, 0, "gen_ai.operation.name" :> "chat" @@ "gen_ai.request.model" :> model @@ str, num))
Via(p) == "gen_ai.provider.name" :> p
In2(i, o) == "gen_ai.usage.input_tokens" :> i @@ "gen_ai.usage.output_tokens" :> o
Chat ==
    <<Llm(1, Id("gpt"), 3, Sid("s3") @@ "user.id" :> "u",
          In2(6, 2) @@ "gen_ai.usage.total_tokens" :> 12 @@ "gen_ai.usage.cache_read.input_tokens" :> 4
              @@ "time_to_first_token_ms" :> 1),
      Llm(2, Id("flash"), 8, Sid("s2") @@ Via("google"), In2(5, 1) @@ "gen_ai.response.time_to_first_chunk" :> 1),
      Llm(3, Id("new"), 2, Sid("s1"), In2(1, 1) @@ "time_to_first_token_ms" :> 4)>>
Retried ==
    <<Llm(1, Id("gpt"), 5, "gen_ai.usage.cost" :> "n/a", In2(6, 2) @@ "time_to_first_token_ms" :> 2),
      Llm(4, Id("gpt"), 1, Sid("s2") @@ "gen_ai.usage.cost" :> "n/a", In2(2, 2)),
      Llm(5, Id("flash"), 4, Sid("s2") @@ Via("google"), In2(3, 3) @@ "gen_ai.usage.cost" :> 33)>>

Score(id, target, name, value, type, ts) ==
    [id |-> id, target |-> target, name |-> name, value |-> value, type |-> type, ts |-> ts]
Human ==
    <<Score("a", <<"span", 3>>, "ok", 0, "boolean", 1), Score("b", <<"span", 2>>, "ok", 1, "boolean", 2),
      Score("c", <<"span", 1>>, "tone", None, "text", 3)>>
Judge ==
    <<Score("d", <<"span", 2>>, "good", 4, "numeric", 4), Score("e", <<"span", 1>>, "good", 7, "numeric", 5),
      Score("f", <<"trace", 1>>, "good", 9, "numeric", 6)>>
Revised ==
    <<Score("g", <<"span", 2>>, "ok", 0, "boolean", 7), Score("h", <<"trace", 2>>, "good", 2, "numeric", 8),
      Score("f", <<"span", 4>>, "good", 1, "numeric", 9)>>

AllBatches == {Agent, Again, Chat, Retried \o Closed}
AllPosts == {Human, Judge, Revised}

\* TLC evaluates a definition once, but not the body of one given to a constant.
MCBatches == AllBatches
MCPosts == AllPosts
MCTable == Priced
MCRules == <<<<"tone", "max">>, <<"good", "sum">>, <<"good", "mean">>>>
MCTimeBuckets == <<2, 4>>
=============================================================================
