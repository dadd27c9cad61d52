------------------------------ MODULE Dialects ------------------------------
(***************************************************************************)
(* Log records read as spans and scores (src/src/logs.rs, claude_code.rs,  *)
(* codex.rs, gemini_cli.rs, evalevent.rs): what one record becomes, given  *)
(* what is remembered of its session, and what a received span of a coding *)
(* agent becomes.                                                          *)
(*                                                                         *)
(* A record has the fields service, scope, field (the OTLP event name),    *)
(* body and severity (strings, empty when absent), trace and span (None    *)
(* when absent or all zero), time and observed (milliseconds), attrs. An   *)
(* id derived from parts is the tuple of those parts; a formatted key or   *)
(* message likewise.                                                       *)
(***************************************************************************)
EXTENDS Pricing

StartsWith(s, prefix) == Len(s) >= Len(prefix) /\ SubSeq(s, 1, Len(prefix)) = prefix
StripPrefix(s, prefix) == SubSeq(s, Len(prefix) + 1, Len(s))

\* event_name: the attribute, the field, a string body; the first not empty.
EventName(rec) ==
    LET spellings == <<OrElse(AttrStr(rec.attrs, "event.name"), ""), rec.field, rec.body>>
        i == SelectInSeq(spellings, LAMBDA s : s # "")
    IN  IF i = 0 THEN None ELSE spellings[i]

RecordTime(rec) == IF rec.time > 0 THEN rec.time ELSE rec.observed
StartOf(rec) == Minus(RecordTime(rec), OrZero(AttrNum(rec.attrs, "duration_ms")))
OwnContext(rec) == IF None \in {rec.trace, rec.span} THEN None ELSE <<rec.trace, rec.span>>

\* add: an attribute the record has itself wins; an absent value adds nothing.
\* Texts are added as strings, counts as integers.
New(a, pairs) == {p \in ToSet(pairs) : p[2] # None /\ p[1] \notin KeysOf(a)}
ValueOf(pairs) == (CHOOSE p \in pairs : TRUE)[2]
Merged(pairs, old) ==
    LET added == {p[1] : p \in pairs}
    IN  [k \in added \cup DOMAIN old |-> IF k \in added THEN ValueOf({p \in pairs : p[1] = k}) ELSE old[k]]
AddAll(a, texts) == [a EXCEPT !.str = Merged(New(a, texts), @)]
AddCounts(a, counts) == [a EXCEPT !.num = Merged(New(a, counts), @)]

Text(a, k) == OrElse(AttrStr(a, k), "")
TextOrNone(a, k) == NonEmpty(Text(a, k))
SessionOf(dialect, rec) == Text(rec.attrs, IF dialect = "codex" THEN "conversation.id" ELSE "session.id")

\* SpanDraft::finish, of the fields a mapping gives; an error is its message.
Internal == 1
ErrorStatus == 2
Finish(rec, d) ==
    NormalizeSpan([trace |-> d.trace, id |-> d.id, parent |-> d.parent, name |-> d.name,
                   kind |-> Internal, start |-> d.start, end |-> RecordTime(rec),
                   status |-> IF d.error = None THEN 0 ELSE ErrorStatus, message |-> d.error,
                   attrs |-> d.attrs], rec.service)

\* A mapping: a span or none, and the session as it is remembered from now on,
\* a sequence that is empty when the mapping changes nothing.
Unchanged == <<>>
NotMine == [outcome |-> "not_mine", span |-> None, session |-> Unchanged]
Folds(session) == [outcome |-> "folded", span |-> None, session |-> session]
Becomes(span, session) == [outcome |-> "span", span |-> span, session |-> session]

Model(a) == <<<<"gen_ai.request.model", AttrStr(a, "model")>>, <<"gen_ai.response.model", AttrStr(a, "model")>>>>

----------------------------------------------------------------------------
(***************************************************************************)
(* Claude Code: every record is placed by itself.                          *)
(***************************************************************************)

IsClaude(rec) == StartsWith(rec.scope, "com.anthropic.claude_code") \/ rec.service = "claude-code"

ClaudeLlmId(key) == <<"claude_code.llm", key>>
ClaudeToolId(key) == <<"claude_code.tool", key>>
ClaudePromptId(key) == <<"claude_code.prompt", key>>

ClaudeTrace(rec) ==
    OrElse(rec.trace, <<"claude_code.trace", Text(rec.attrs, "session.id"), Text(rec.attrs, "prompt.id")>>)
ClaudeParent(rec) ==
    LET prompt == AttrStr(rec.attrs, "prompt.id")
    IN  IF rec.span # None THEN rec.span
        ELSE IF prompt # None THEN ClaudePromptId(<<prompt>>) ELSE None

RecordKey(rec) == <<Text(rec.attrs, "session.id"), Text(rec.attrs, "event.sequence"), RecordTime(rec)>>
KeyOr(id, key) == IF id = None THEN key ELSE <<id>>

ClaudeCounts(a) ==
    LET input == AttrNum(a, "input_tokens")
        output == AttrNum(a, "output_tokens")
        read == AttrNum(a, "cache_read_tokens")
        write == AttrNum(a, "cache_creation_tokens")
        total == IF {input, output} = {None} THEN None
                 ELSE OrZero(input) + OrZero(output) + OrZero(read) + OrZero(write)
    IN  <<<<"gen_ai.usage.input_tokens", input>>, <<"gen_ai.usage.output_tokens", output>>,
          <<"gen_ai.usage.cache_read.input_tokens", read>>,
          <<"gen_ai.usage.cache_creation.input_tokens", write>>,
          <<"gen_ai.usage.total_tokens", total>>, <<"gen_ai.usage.cost", AttrNum(a, "cost_usd")>>,
          <<"gen_ai.response.time_to_first_chunk", AttrNum(a, "ttft_ms")>>>>

ClaudeLlmSpan(rec, error) ==
    LET a == rec.attrs
        request == AttrStr(a, "request_id")
        key == KeyOr(request, KeyOr(AttrStr(a, "client_request_id"), RecordKey(rec)))
        named == AddAll(a, <<<<"gen_ai.operation.name", "chat">>, <<"gen_ai.provider.name", "anthropic">>>> \o Model(a))
    IN  Finish(rec, [trace |-> ClaudeTrace(rec), id |-> ClaudeLlmId(key), parent |-> ClaudeParent(rec),
                     name |-> "claude_code.llm_request", start |-> StartOf(rec), error |-> error,
                     attrs |-> AddAll(AddCounts(named, ClaudeCounts(a)),
                                      <<<<"gen_ai.response.id", request>>, <<"evald.source", "log">>,
                                        <<"evald.call_key", ClaudeLlmId(key)>>>>)])

\* The parts of tool_parameters are attributes of their own here.
ClaudeToolName(a) ==
    LET server == TextOrNone(a, "tool_parameters.mcp_server_name")
        tool == TextOrNone(a, "tool_parameters.mcp_tool_name")
    IN  IF AttrStr(a, "tool_name") # "mcp_tool" \/ None \in {server, tool} THEN AttrStr(a, "tool_name")
        ELSE "mcp__" \o server \o "__" \o tool

ClaudeToolSpan(rec, rejected) ==
    LET a == rec.attrs
        call == AttrStr(a, "tool_use_id")
        key == KeyOr(call, RecordKey(rec))
        failed == IF AttrStr(a, "success") # "false" THEN None
                  ELSE OrElse(AttrStr(a, "error_type"), "tool failed")
        error == OrElse(rejected, failed)
    IN  Finish(rec, [trace |-> ClaudeTrace(rec), id |-> ClaudeToolId(key), parent |-> ClaudeParent(rec),
                     name |-> "claude_code.tool", start |-> StartOf(rec), error |-> error,
                     attrs |-> AddAll(a, <<<<"gen_ai.operation.name", "execute_tool">>,
                                           <<"gen_ai.tool.name", ClaudeToolName(a)>>,
                                           <<"gen_ai.tool.call.id", call>>, <<"evald.source", "log">>,
                                           <<"evald.call_key", ClaudeToolId(key)>>>>)])

\* A prompt is its turn's marker: it has no parent but the one it was sent under.
ClaudePromptSpan(rec) ==
    Finish(rec, [trace |-> ClaudeTrace(rec), parent |-> rec.span, name |-> "claude_code.user_prompt",
                 id |-> ClaudePromptId(KeyOr(AttrStr(rec.attrs, "prompt.id"), RecordKey(rec))),
                 start |-> RecordTime(rec), error |-> None,
                 attrs |-> AddAll(rec.attrs, <<<<"evald.source", "log">>>>)])

\* An event's name may come with the agent's.
ClaudeEvent(rec) ==
    LET name == EventName(rec)
    IN  IF name # None /\ StartsWith(name, "claude_code.") THEN StripPrefix(name, "claude_code.") ELSE name

ClaudeMap(rec) ==
    LET event == ClaudeEvent(rec)
        a == rec.attrs
    IN  IF ~IsClaude(rec) THEN NotMine ELSE
        CASE event = "api_request" -> Becomes(ClaudeLlmSpan(rec, None), Unchanged)
          [] event = "api_error" ->
                 Becomes(ClaudeLlmSpan(rec, OrElse(AttrStr(a, "error"), "API request failed")), Unchanged)
          [] event = "tool_result" -> Becomes(ClaudeToolSpan(rec, None), Unchanged)
          [] event = "tool_decision" /\ AttrStr(a, "decision") = "reject" ->
                 Becomes(ClaudeToolSpan(rec, "rejected (" \o OrElse(AttrStr(a, "source"), "unknown") \o ")"), Unchanged)
          [] event = "user_prompt" -> Becomes(ClaudePromptSpan(rec), Unchanged)
          [] event \in {"tool_decision", "assistant_response", "api_refusal"} -> Folds(Unchanged)
          [] OTHER -> NotMine

\* fix_trace_span: tokens under Claude Code's own names, the identity an LLM
\* request shares with its event, and the call a tool span anchors. The faulty
\* variant of the total forgets that Claude Code counts the cache apart.
UncachedTotal(t) == OrZero(t.prompt) + OrZero(t.completion)
ClaudeTotal(t) == OrZero(t.prompt) + OrZero(t.completion) + OrZero(t.cache_read) + OrZero(t.cache_write)

ClaudeUsage(n) ==
    LET Own(field, key) == OrElse(n.tokens[field], AttrNum(n.raw, key))
        t == [n.tokens EXCEPT !.prompt = Own("prompt", "input_tokens"),
                              !.completion = Own("completion", "output_tokens"),
                              !.cache_read = Own("cache_read", "cache_read_tokens"),
                              !.cache_write = Own("cache_write", "cache_creation_tokens")]
        counted == {t.prompt, t.completion} # {None}
    IN  [t EXCEPT !.total = IF @ = None /\ counted THEN ClaudeTotal(t) ELSE @]

FixClaudeSpan(n) ==
    LET request == IF "request_id" \in DOMAIN n.raw.str THEN NonEmpty(n.raw.str["request_id"]) ELSE None
        call == IF "tool_use_id" \in DOMAIN n.raw.str THEN NonEmpty(n.raw.str["tool_use_id"]) ELSE None
        timed == AddCounts(n.raw, <<<<"gen_ai.response.time_to_first_chunk", AttrNum(n.raw, "ttft_ms")>>>>)
    IN  CASE n.name = "claude_code.llm_request" ->
                 LET m == [n EXCEPT !.tokens = ClaudeUsage(n), !.raw = timed]
                 IN  IF request = None THEN m
                     ELSE [m EXCEPT !.id = ClaudeLlmId(<<request>>),
                                    !.raw = WithStr(WithStr(@, "evald.otel.span_id", n.id),
                                                    "evald.call_key", ClaudeLlmId(<<request>>))]
          [] n.name = "claude_code.tool.execution" -> [n EXCEPT !.oi = None]
          [] n.name = "claude_code.tool" /\ call # None ->
                 [n EXCEPT !.raw = WithStr(@, "evald.call_anchor", ClaudeToolId(<<call>>))]
          [] OTHER -> n

----------------------------------------------------------------------------
(***************************************************************************)
(* Codex: a record is placed by what its conversation said before it. An   *)
(* operator takes the conversation as it was first looked at and as it is  *)
(* when it is looked at again (and updated): within one request they are   *)
(* the same unless the request has not updated it yet.                     *)
(***************************************************************************)

\* A Conversation: turn is <<trace, marker>>, request is [own, start], refused
\* a sequence of <<call, why>>.
NewConversation == [turn |-> None, request |-> None, provider |-> None, refused |-> <<>>]
RefusedKept == 16

IsCodex(rec) == StartsWith(rec.scope, "codex_otel") \/ StartsWith(rec.service, "codex")

CodexTurn(conv, rec) == <<<<"codex.turn", conv, RecordTime(rec)>>, <<"codex.prompt", conv, RecordTime(rec)>>>>
\* placement: the turn in progress, else a trace of the conversation's own.
CodexPlace(c, conv) == OrElse(c.turn, <<<<"codex.trace", conv>>, None>>)

\* common: what every span made from a Codex or Gemini CLI record carries.
Common(rec, session, own) ==
    LET kept == IF own = None THEN rec.attrs
                ELSE AddAll(rec.attrs, <<<<"evald.otel.trace_id", own[1]>>, <<"evald.otel.span_id", own[2]>>>>)
    IN  AddAll(kept, <<<<"gen_ai.conversation.id", NonEmpty(session)>>, <<"evald.source", "log">>>>)

CodexPromptSpan(rec, conv, turn) ==
    Finish(rec, [trace |-> turn[1], id |-> turn[2], parent |-> None, name |-> "codex.user_prompt",
                 start |-> RecordTime(rec), error |-> None, attrs |-> Common(rec, conv, OwnContext(rec))])

\* request_error
RequestError(rec) ==
    LET a == rec.attrs
        code == AttrNum(a, "http.response.status_code")
        refused == IF AttrStr(a, "success") = "false" THEN "websocket request failed" ELSE None
        answered == IF code = None THEN "no response"
                    ELSE IF code \in 200 .. 299 THEN None ELSE <<"HTTP", code>>
    IN  OrElse(TextOrNone(a, "error.message"), IF EventName(rec) = "codex.websocket_request" THEN refused ELSE answered)

\* A request of the model, and what of one that was sent is kept for its end.
IsRequest(rec) ==
    \/ EventName(rec) = "codex.websocket_request"
    \/ EventName(rec) = "codex.api_request" /\ AttrStr(rec.attrs, "endpoint") \in {None, "responses"}
SentRequest(rec) ==
    [own |-> IF rec.trace = None THEN None ELSE <<rec.trace, OrElse(rec.span, <<>>)>>, start |-> StartOf(rec)]

\* A decision against a call, and why.
Refuses(rec) ==
    /\ EventName(rec) = "codex.tool_decision"
    /\ AttrStr(rec.attrs, "call_id") # None /\ ~StartsWith(Text(rec.attrs, "decision"), "approved")
Refusal(rec) ==
    <<AttrStr(rec.attrs, "call_id"),
      <<Text(rec.attrs, "decision"), OrElse(AttrStr(rec.attrs, "source"), "unknown")>>>>

CodexCounts(a) ==
    <<<<"gen_ai.usage.input_tokens", AttrNum(a, "input_token_count")>>,
      <<"gen_ai.usage.output_tokens", AttrNum(a, "output_token_count")>>,
      <<"gen_ai.usage.cache_read.input_tokens", AttrNum(a, "cached_token_count")>>,
      <<"gen_ai.usage.cache_creation.input_tokens", AttrNum(a, "cache_write_token_count")>>,
      <<"gen_ai.usage.reasoning.output_tokens", AttrNum(a, "reasoning_token_count")>>,
      <<"gen_ai.usage.total_tokens", AttrNum(a, "tool_token_count")>>,
      <<"gen_ai.response.time_to_first_chunk", AttrNum(a, "ttft_ms")>>>>

\* llm_span: a record without a context of its own ends the request the
\* conversation sent last, and started when that did.
CodexLlmSpan(rec, conv, error, first, now) ==
    LET a == rec.attrs
        time == RecordTime(rec)
        r == first.request
        own == IF OwnContext(rec) # None \/ r = None THEN OwnContext(rec) ELSE r.own
        start == CASE OwnContext(rec) # None -> StartOf(rec)
                   [] OwnContext(rec) = None /\ r # None -> Min({r.start, time})
                   [] OTHER -> time
        named == AddAll(Common(rec, conv, own),
                        <<<<"gen_ai.operation.name", "chat">>, <<"gen_ai.provider.name", first.provider>>>> \o Model(a))
    IN  Finish(rec, [trace |-> CodexPlace(now, conv)[1], id |-> <<"codex.llm", conv, time, Text(a, "attempt")>>,
                     parent |-> CodexPlace(now, conv)[2], name |-> "codex.llm_request", start |-> start,
                     error |-> error, attrs |-> AddCounts(named, CodexCounts(a))])

CodexToolName(a) ==
    LET space == Text(a, "tool_namespace")
    IN  IF AttrStr(a, "tool_name") # None /\ StartsWith(space, "mcp__")
        THEN space \o "__" \o AttrStr(a, "tool_name") ELSE AttrStr(a, "tool_name")

\* The exit code in the output preview is an attribute of its own here.
ExitCode(a) == IF OrZero(AttrNum(a, "output.exit_code")) = 0 THEN None ELSE AttrNum(a, "output.exit_code")

RefusalAt(c, call) == SelectInSeq(c.refused, LAMBDA r : call # None /\ r[1] = call)

\* tool_span: a refusal is taken from the conversation by the result it is about.
CodexToolSpan(rec, conv, first, now) ==
    LET a == rec.attrs
        call == AttrStr(a, "call_id")
        i == RefusalAt(now, call)
        error == CASE i # 0 -> now.refused[i][2]
                   [] i = 0 /\ AttrStr(a, "success") = "false" -> "tool failed"
                   [] i = 0 /\ AttrStr(a, "success") # "false" /\ ExitCode(a) # None -> <<"exit code", ExitCode(a)>>
                   [] OTHER -> None
        attrs == AddAll(Common(rec, conv, OwnContext(rec)),
                        <<<<"gen_ai.operation.name", "execute_tool">>, <<"gen_ai.tool.name", CodexToolName(a)>>,
                          <<"gen_ai.tool.call.id", call>>, <<"gen_ai.tool.call.arguments", TextOrNone(a, "arguments")>>,
                          <<"mcp.server.name", TextOrNone(a, "mcp_server")>>>>)
    IN  Finish(rec, [trace |-> CodexPlace(first, conv)[1], parent |-> CodexPlace(first, conv)[2],
                     id |-> <<"codex.tool", IF call = None THEN <<conv, RecordTime(rec)>> ELSE <<call>>>>,
                     name |-> "codex.tool", start |-> StartOf(rec), error |-> error, attrs |-> attrs])

LastOf(s, n) == IF Len(s) > n THEN Tail(s) ELSE s

CodexMap(rec, first, now) ==
    LET event == EventName(rec)
        a == rec.attrs
        conv == Text(a, "conversation.id")
        provider == TextOrNone(a, "provider_name")
        kind == AttrStr(a, "event.kind")
        ended == kind \in {None, "response.completed", "response.failed"}
        broken == IF ended THEN AttrStr(a, "error.message") ELSE None
        failure == RequestError(rec)
        about == RefusalAt(now, AttrStr(a, "call_id"))
    IN  IF ~IsCodex(rec) THEN NotMine ELSE
        CASE event = "codex.conversation_starts" ->
                 Folds(IF provider = None THEN Unchanged ELSE <<[now EXCEPT !.provider = provider]>>)
          [] event = "codex.user_prompt" ->
                 Becomes(CodexPromptSpan(rec, conv, CodexTurn(conv, rec)),
                         <<[now EXCEPT !.turn = CodexTurn(conv, rec)]>>)
          [] event = "codex.api_request" /\ ~IsRequest(rec) -> Folds(Unchanged)
          [] IsRequest(rec) /\ failure = None -> Folds(<<[now EXCEPT !.request = SentRequest(rec)]>>)
          [] IsRequest(rec) /\ failure # None -> Becomes(CodexLlmSpan(rec, conv, failure, first, now), Unchanged)
          [] event = "codex.sse_event" ->
                 IF broken # None \/ (kind = "response.completed" /\ AttrNum(a, "input_token_count") # None)
                 THEN Becomes(CodexLlmSpan(rec, conv, broken, first, now), Unchanged) ELSE Folds(Unchanged)
          [] event = "codex.tool_decision" ->
                 Folds(IF ~Refuses(rec) THEN Unchanged
                       ELSE <<[now EXCEPT !.refused = LastOf(Append(@, Refusal(rec)), RefusedKept)]>>)
          [] event = "codex.tool_result" ->
                 Becomes(CodexToolSpan(rec, conv, first, now),
                         IF about = 0 THEN Unchanged ELSE <<[now EXCEPT !.refused = RemoveAt(@, about)]>>)
          [] OTHER -> NotMine

\* A traced copy of a call an event counts keeps its usage aside, and no span
\* is part of a session.
FixCodexSpan(n) ==
    LET copy == n.name = "handle_responses" /\ (n.tokens # NoTokens \/ n.cost # None)
    IN  [(IF copy THEN SetAside(n, "copy") ELSE n) EXCEPT !.session = None]

----------------------------------------------------------------------------
(***************************************************************************)
(* Gemini CLI: as Codex, with a Session of turn and request only.          *)
(***************************************************************************)

NewSession == [turn |-> None, request |-> None]

IsGemini(rec) == "gemini-cli" \in {rec.service, rec.scope}

GeminiTurn(session, rec) ==
    <<<<"gemini_cli.turn", session, Text(rec.attrs, "prompt_id"), RecordTime(rec)>>,
      <<"gemini_cli.prompt", session, RecordTime(rec)>>>>
GeminiPlace(s, rec, session) ==
    OrElse(s.turn, <<<<"gemini_cli.turn", session, Text(rec.attrs, "prompt_id")>>, None>>)

GeminiPromptSpan(rec, session, turn) ==
    Finish(rec, [trace |-> turn[1], id |-> turn[2], parent |-> None, name |-> "gemini_cli.user_prompt",
                 start |-> RecordTime(rec), error |-> None, attrs |-> Common(rec, session, None)])

GeminiCounts(a) ==
    LET input == AttrNum(a, "input_token_count")
    IN  <<<<"gen_ai.usage.input_tokens",
            IF input = None THEN None ELSE input + OrZero(AttrNum(a, "tool_token_count"))>>,
          <<"gen_ai.usage.output_tokens", AttrNum(a, "output_token_count")>>,
          <<"gen_ai.usage.cache_read.input_tokens", AttrNum(a, "cached_content_token_count")>>,
          <<"gen_ai.usage.reasoning.output_tokens", AttrNum(a, "thoughts_token_count")>>,
          <<"gen_ai.usage.total_tokens", AttrNum(a, "total_token_count")>>>>

GeminiLlmSpan(rec, session, error, first, now) ==
    LET a == rec.attrs
        own == OrElse(OwnContext(rec), now.request)
        provider == IF AttrStr(a, "auth_type") = "vertex-ai" THEN "gcp.vertex_ai" ELSE "gcp.gemini"
        place == GeminiPlace(first, rec, session)
        named == AddAll(Common(rec, session, own),
                        <<<<"gen_ai.operation.name", "chat">>, <<"gen_ai.provider.name", provider>>>> \o Model(a))
    IN  Finish(rec, [trace |-> place[1], parent |-> place[2], name |-> "gemini_cli.llm_request",
                     id |-> <<"gemini_cli.llm", session, RecordTime(rec), Text(a, "model")>>,
                     start |-> StartOf(rec), error |-> error, attrs |-> AddCounts(named, GeminiCounts(a))])

GeminiToolName(a) ==
    LET name == AttrStr(a, "function_name")
        prefix == "mcp_" \o Text(a, "mcp_server_name") \o "_"
    IN  IF name # None /\ TextOrNone(a, "mcp_server_name") # None /\ StartsWith(name, prefix)
        THEN "mcp__" \o Text(a, "mcp_server_name") \o "__" \o StripPrefix(name, prefix) ELSE name

GeminiToolSpan(rec, session, first) ==
    LET a == rec.attrs
        tool == GeminiToolName(a)
        place == GeminiPlace(first, rec, session)
        failed == IF AttrStr(a, "success") # "false" THEN None
                  ELSE OrElse(AttrStr(a, "error_type"), "tool failed")
        attrs == AddAll(Common(rec, session, OwnContext(rec)),
                        <<<<"gen_ai.operation.name", "execute_tool">>, <<"gen_ai.tool.name", tool>>,
                          <<"gen_ai.tool.call.arguments", TextOrNone(a, "function_args")>>,
                          <<"mcp.server.name", TextOrNone(a, "mcp_server_name")>>>>)
    IN  Finish(rec, [trace |-> place[1], parent |-> place[2], name |-> "gemini_cli.tool",
                     id |-> <<"gemini_cli.tool", session, RecordTime(rec), OrElse(tool, "")>>,
                     start |-> StartOf(rec), attrs |-> attrs,
                     error |-> IF AttrStr(a, "decision") = "reject" THEN "rejected" ELSE failed])

GeminiMap(rec, first, now) ==
    LET event == EventName(rec)
        a == rec.attrs
        session == Text(a, "session.id")
        turn == GeminiTurn(session, rec)
        why == OrElse(FirstStr(a, <<"error", "error.message", "error_type">>), "API request failed")
    IN  IF ~IsGemini(rec) THEN NotMine ELSE
        CASE event = "gemini_cli.user_prompt" ->
                 Becomes(GeminiPromptSpan(rec, session, turn), <<[now EXCEPT !.turn = turn]>>)
          [] event = "gemini_cli.api_response" -> Becomes(GeminiLlmSpan(rec, session, None, first, now), Unchanged)
          [] event = "gemini_cli.api_error" -> Becomes(GeminiLlmSpan(rec, session, why, first, now), Unchanged)
          [] event = "gemini_cli.tool_call" -> Becomes(GeminiToolSpan(rec, session, first), Unchanged)
          [] event = "gemini_cli.api_request" ->
                 Folds(IF OwnContext(rec) = None THEN Unchanged ELSE <<[now EXCEPT !.request = OwnContext(rec)]>>)
          [] event = "gen_ai.client.inference.operation.details" -> Folds(Unchanged)
          [] OTHER -> NotMine

FixGeminiSpan(n) ==
    [(IF n.name = "llm_call" THEN SetAside(n, "copy") ELSE n) EXCEPT !.session = None]

----------------------------------------------------------------------------
(***************************************************************************)
(* The logs door: what any record becomes, and evaluation results.         *)
(***************************************************************************)

\* generic_span: an unrecognised record, kept under the policy all.
GenericSpan(rec) ==
    LET name == OrElse(EventName(rec), "log")
        key == <<name, RecordTime(rec), rec.observed, rec.body>>
        trace == OrElse(rec.trace, <<"evald.log.trace", rec.service>> \o key)
    IN  Finish(rec, [trace |-> trace, id |-> <<"evald.log.span", trace>> \o key, parent |-> rec.span, name |-> name,
                     start |-> RecordTime(rec), error |-> None,
                     attrs |-> AddAll(rec.attrs, <<<<"log.body", NonEmpty(rec.body)>>,
                                                   <<"log.severity_text", NonEmpty(rec.severity)>>,
                                                   <<"evald.source", "log">>>>)])

EvaluationResult == "gen_ai.evaluation.result"

\* score_from_event: a score on the span the event names, else its trace.
ScoreFromEvent(trace, span, a, idTime, ts) ==
    LET name == TextOrNone(a, "gen_ai.evaluation.name")
        value == AttrNum(a, "gen_ai.evaluation.score.value")
        label == TextOrNone(a, "gen_ai.evaluation.score.label")
        error == TextOrNone(a, "error.type")
    IN  IF name = None \/ {value, label, error} = {None} \/ {trace, span} = {None} THEN None
        ELSE [id |-> <<"gaie", trace, span, name, idTime>>, name |-> name, value |-> value,
              label |-> IF {value, label} = {None} THEN "error" ELSE label,
              comment |-> <<TextOrNone(a, "gen_ai.evaluation.explanation"), error>>,
              target |-> IF span # None THEN <<"span", span>> ELSE <<"trace", trace>>,
              source |-> "eval", ts |-> ts]

\* to_score: a span event's own time names the score, the span's end dates it.
ScoreOfSpanEvent(draft, event) ==
    ScoreFromEvent(draft.trace, draft.id, event.attrs, event.time, IF event.time > 0 THEN event.time ELSE draft.end)

\* map_dialect: the first dialect that knows the record; only Codex and Gemini
\* CLI remember anything.
Result(outcome, span, score) ==
    [outcome |-> outcome, span |-> span, score |-> score, codex |-> Unchanged, gemini |-> Unchanged]
FirstMine(claude, codex, gemini) ==
    CASE claude.outcome # "not_mine" -> Result(claude.outcome, claude.span, None)
      [] claude.outcome = "not_mine" /\ codex.outcome # "not_mine" ->
             [Result(codex.outcome, codex.span, None) EXCEPT !.codex = codex.session]
      [] OTHER -> [Result(gemini.outcome, gemini.span, None) EXCEPT !.gemini = gemini.session]

\* normalize_logs, of one record: a span, a score, or an outcome only.
Scored(score) == Result(IF score = None THEN "malformed" ELSE "score", None, score)
Kept(rec, policy, mapped) ==
    CASE mapped.outcome # "not_mine" -> mapped
      [] mapped.outcome = "not_mine" /\ policy = "all" -> Result("span", GenericSpan(rec), None)
      [] OTHER -> Result("unmapped", None, None)
MapRecord(rec, policy, first, now) ==
    CASE policy = "off" -> Result("off", None, None)
      [] policy # "off" /\ EventName(rec) = EvaluationResult ->
             Scored(ScoreFromEvent(rec.trace, rec.span, rec.attrs, RecordTime(rec), RecordTime(rec)))
      [] OTHER -> Kept(rec, policy, FirstMine(ClaudeMap(rec), CodexMap(rec, first.codex, now.codex),
                                              GeminiMap(rec, first.gemini, now.gemini)))

\* normalize_request, of one span of a scope, before it is priced.
ReceiveSpan(scope, service, draft) ==
    LET n == NormalizeSpan(draft, service)
    IN  CASE scope = "com.anthropic.claude_code.tracing" -> FixClaudeSpan(n)
          [] scope # "com.anthropic.claude_code.tracing" /\ StartsWith(service, "codex") -> FixCodexSpan(n)
          [] scope # "com.anthropic.claude_code.tracing" /\ service = "gemini-cli" -> FixGeminiSpan(n)
          [] OTHER -> n
=============================================================================
