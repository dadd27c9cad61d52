---------------------------- MODULE MCTelemetry ----------------------------
(***************************************************************************)
(* A finite instance of Telemetry. r1 and r2 carry records of one Codex    *)
(* conversation, each with a prompt of its own; r2 also one of Gemini CLI, *)
(* the two events of Claude Code whose spans r3 carries, and an evaluation *)
(* result. An edit of the price file re-prices a model.                    *)
(***************************************************************************)
EXTENDS Telemetry

CONSTANTS r1, r2, r3

MCRequests == {r1, r2, r3}

Id(stem, versions) == [path |-> <<>>, region |-> None, stem |-> stem, versions |-> versions, at |-> None]
Gpt == Id("gpt", <<>>)
Sonnet == Id("sonnet", <<>>)
Dated == [Id("sonnet", <<"v1">>) EXCEPT !.path = <<"bedrock">>, !.region = "eu"]
Flash == Id("flash", <<>>)
Rates(i, o, r) == [input |-> i, output |-> o, cache_read |-> r, cache_write |-> None]
CompiledIn ==
    [version |-> <<"c0", 1>>, as_of |-> 1,
     models |-> Sonnet :> [base |-> [Rates(30, 150, 3) EXCEPT !.cache_write = 37], reasoning |-> None,
                           tiers |-> <<[above |-> 200, rates |-> [f \in RateFields |-> IF f = "input" THEN 60 ELSE None]]>>]
             @@ Flash :> [base |-> Rates(7, 50, 2), reasoning |-> 70, tiers |-> <<>>]]
Entry(i, o, r) == [rates |-> [input |-> i, output |-> o, cache_read |-> r], above |-> <<>>]
PriceFile(commit, entries) == [commit |-> commit, date |-> None, mtime |-> 2, entries |-> entries]
Edits ==
    <<PriceFile("c1", Gpt :> Entry(10, 80, 1) @@ Id("free", <<>>) :> [rates |-> <<>>, above |-> <<>>]),
      PriceFile("c2", Gpt :> Entry(11, 90, 1))>>

Attrs(str, num) == [Bare EXCEPT !.str = str, !.num = num]
Record(service, event, time, str, num) ==
    LogItem([service |-> service, scope |-> "", field |-> "callsite", body |-> "", severity |-> "",
             trace |-> None, span |-> None, time |-> time, observed |-> 99,
             attrs |-> Attrs("event.name" :> event @@ str, num)])
Codex(event, time, str, num) ==
    Record("codex_exec", event, time, "conversation.id" :> "c" @@ "model" :> Gpt @@ str, num)
Gemini(event, time, str, num) ==
    Record("gemini-cli", event, time, "session.id" :> "g" @@ "model" :> Flash @@ str, num)
Claude(event, time, str, num) ==
    Record("claude-code", event, time, "session.id" :> "s" @@ "prompt.id" :> "p" @@ "model" :> Dated @@ str, num)

\* The words of a text: a card, an order number of the same shape, a badge, an
\* account with what its rule captures, and plain ones.
W(w) == <<w>>
Card == <<W("4111 1111"), W("1111 1111")>>
Order == <<W("4111 1111"), W("1111 1112")>>
Account == <<W("acct"), W("no 7")>>
Prompt == <<W("pay")>> \o Card \o <<W("B-17")>> \o Account
Reply == <<W("see")>> \o Order \o <<W("and"), W("B-17")>>
Shapes ==
    "credit_card" :> {Card, Order} @@ "account" :> {Account} @@ "badge" :> {<<W("B-17")>>}
Groups ==
    "credit_card" :> 0 @@ "account" :> 1 @@ "badge" :> 0
Digits ==
    [w \in {W("4111 1111"), W("1111 1111"), W("1111 1112")} |->
                  CASE w = W("4111 1111") -> <<4, 1, 1, 1, 1, 1, 1, 1>>
                    [] w = W("1111 1111") -> <<1, 1, 1, 1, 1, 1, 1, 1>>
                    [] OTHER -> <<1, 1, 1, 1, 1, 1, 1, 2>>]
Compiled ==
    [rules |-> Red!RulesOf({"credit_card"}, <<"account", "badge">>), action |-> "redact"]
MCTextKeys == {"input.value", "output.value", "prompt"}

ClaudeCounted ==
    "input_tokens" :> 5 @@ "output_tokens" :> 4 @@ "cache_read_tokens" :> 190 @@ "cache_creation_tokens" :> 10
Draft(id, name, end, str, num) ==
    [trace |-> <<"t1">>, id |-> <<id>>, parent |-> None, name |-> name, kind |-> Internal, start |-> 1,
     end |-> end, status |-> 0, message |-> None, attrs |-> Attrs(str, num)]
Verdict == [name |-> EvaluationResult, time |-> 0,
            attrs |-> Attrs("gen_ai.evaluation.name" :> "ok", "gen_ai.evaluation.score.value" :> 1)]

Exports ==
    r1 :> <<Codex("codex.user_prompt", 10, "prompt" :> Prompt, <<>>),
            Codex("codex.websocket_request", 13, "success" :> "true", "duration_ms" :> 2),
            Codex("codex.sse_event", 16, "event.kind" :> "response.completed",
                  "input_token_count" :> 9 @@ "cached_token_count" :> 4 @@ "output_token_count" :> 6
                  @@ "reasoning_token_count" :> 2 @@ "tool_token_count" :> 15),
            Codex("codex.tool_decision", 17, "call_id" :> "k" @@ "decision" :> "denied", <<>>),
            Codex("codex.tool_result", 18, "call_id" :> "k" @@ "tool_name" :> "sh" @@ "success" :> "true", <<>>)>>
    @@ r2 :> <<Codex("codex.user_prompt", 20, "prompt" :> Reply, <<>>),
               Codex("codex.tool_result", 22, "call_id" :> "k" @@ "tool_name" :> "sh", "output.exit_code" :> 3),
               Claude("api_request", 30, "request_id" :> "q", ClaudeCounted),
               Claude("tool_result", 31, "tool_use_id" :> "u" @@ "tool_name" :> "Bash", <<>>),
               Gemini("gemini_cli.user_prompt", 40, "prompt_id" :> "h", <<>>),
               Gemini("gemini_cli.api_response", 42, "prompt_id" :> "h",
                      "input_token_count" :> 8 @@ "cached_content_token_count" :> 3 @@ "tool_token_count" :> 2
                      @@ "output_token_count" :> 5 @@ "thoughts_token_count" :> 4 @@ "total_token_count" :> 19),
               Record("app", EvaluationResult, 43, "gen_ai.evaluation.name" :> "ok", <<>>)>>
    @@ r3 :> <<SpanItem("com.anthropic.claude_code.tracing", "claude-code",
                        Draft("a1", "claude_code.llm_request", 9, "request_id" :> "q" @@ "gen_ai.request.model" :> Sonnet,
                              ClaudeCounted), <<>>),
               SpanItem("com.anthropic.claude_code.tracing", "claude-code",
                        Draft("a2", "claude_code.tool", 9, "tool_use_id" :> "u", <<>>), <<>>),
               SpanItem("", "codex_exec",
                        Draft("a3", "handle_responses", 9, "gen_ai.operation.name" :> "chat" @@ "input.value" :> Reply
                              @@ "output.value" :> Prompt, "gen_ai.usage.input_tokens" :> 9), <<Verdict>>)>>
Tries ==
    r1 :> 1 @@ r2 :> 1 @@ r3 :> 2

\* TLC evaluates a definition once, but not the body of one given to a constant.
MCItems == Exports
MCBaseline == CompiledIn
MCFiles == Edits
MCPattern == Shapes
MCInner == Groups
MCDigitsOf == Digits
MCRedactor == Compiled
MCMaxTries == Tries
=============================================================================
