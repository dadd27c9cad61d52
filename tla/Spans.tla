------------------------------- MODULE Spans -------------------------------
(***************************************************************************)
(* Normalisation of a received span (src/src/normalize.rs, model.rs,       *)
(* agent.rs): the two conventions read into one record, an agent's usage   *)
(* set aside, and the accessors the reports use.                           *)
(*                                                                         *)
(* The attributes of a span are a record: str maps the keys whose value    *)
(* reads as text, num those that read as a count (an int, an integral      *)
(* double, a numeric string) and text those of them that came as a string  *)
(* or a double, other holds the keys with any other value; prompt and      *)
(* completion map the indexes of the deprecated indexed messages to what   *)
(* each slot holds. Letter case is abstracted.                             *)
(***************************************************************************)
EXTENDS Naturals, Sequences, FiniteSets, SequencesExt

CONSTANTS
    None,                \* an absent field, an empty id
    MaxIndexedMessages   \* normalize::MAX_INDEXED_MESSAGES

ASSUME SpansAssumption == MaxIndexedMessages \in Nat

Bare == [str |-> <<>>, num |-> <<>>, text |-> {}, other |-> {}, prompt |-> <<>>, completion |-> <<>>]

KeysOf(a) == DOMAIN a.str \cup DOMAIN a.num \cup a.other
\* Puts a text under a key, instead of what was there.
WithStr(a, k, v) ==
    [a EXCEPT !.str = [j \in DOMAIN @ \cup {k} |-> IF j = k THEN v ELSE @[j]],
              !.num = [j \in DOMAIN @ \ {k} |-> @[j]], !.other = @ \ {k}]

AttrStr(a, k) ==
    IF k \in DOMAIN a.str THEN a.str[k]
    ELSE IF k \in DOMAIN a.num THEN ToString(a.num[k])
    ELSE None
AttrNum(a, k) == IF k \in DOMAIN a.num THEN a.num[k] ELSE None

\* The first of the keys that reads as something.
FirstOf(Read(_, _), a, keys) ==
    LET i == SelectInSeq(keys, LAMBDA k : Read(a, k) # None)
    IN  IF i = 0 THEN None ELSE Read(a, keys[i])
FirstStr(a, keys) == FirstOf(AttrStr, a, keys)
FirstNum(a, keys) == FirstOf(AttrNum, a, keys)

OrElse(x, default) == IF x = None THEN default ELSE x
OrZero(x) == OrElse(x, 0)
NonEmpty(x) == IF x = "" THEN None ELSE x

\* gen_ai.request.*, gen_ai.response.*, gen_ai.usage.*: a model call's.
CallKeys ==
    {"gen_ai.request.model", "gen_ai.response.model", "gen_ai.response.id",
     "gen_ai.response.time_to_first_chunk", "gen_ai.usage.input_tokens",
     "gen_ai.usage.output_tokens", "gen_ai.usage.prompt_tokens", "gen_ai.usage.completion_tokens",
     "gen_ai.usage.total_tokens", "gen_ai.usage.cache_read.input_tokens",
     "gen_ai.usage.cache_creation.input_tokens", "gen_ai.usage.cache_write.input_tokens",
     "gen_ai.usage.reasoning_tokens", "gen_ai.usage.reasoning.output_tokens", "gen_ai.usage.cost"}
ToolKeys == {"gen_ai.tool.name", "gen_ai.tool.call.id", "gen_ai.tool.call.arguments"}
GenAiKeys ==
    CallKeys \cup ToolKeys \cup
    {"gen_ai.operation.name", "gen_ai.provider.name", "gen_ai.system", "gen_ai.conversation.id",
     "gen_ai.agent.name", "gen_ai.agent.id", "gen_ai.input.messages", "gen_ai.output.messages",
     "gen_ai.prompt", "gen_ai.completion"}
OpenInferenceKeys ==
    {"openinference.span.kind", "llm.model_name", "llm.provider", "llm.system", "llm.cost.total",
     "llm.token_count.prompt", "llm.token_count.completion", "llm.token_count.total",
     "llm.token_count.prompt_details.cache_read", "llm.token_count.prompt_details.cache_write",
     "llm.token_count.completion_details.reasoning"}

Carries(a, keys) == KeysOf(a) \cap keys # {}

DetectDialect(a) ==
    CASE Carries(a, OpenInferenceKeys) /\ Carries(a, GenAiKeys) -> "mixed"
      [] Carries(a, OpenInferenceKeys) -> "open_inference"
      [] Carries(a, GenAiKeys) -> "gen_ai"
      [] OTHER -> "unknown"

InferKind(a) ==
    LET op == AttrStr(a, "gen_ai.operation.name")
        call == Carries(a, CallKeys)
    IN  CASE op \in {"chat", "text_completion", "generate_content"} -> "LLM"
          [] op \in {"embeddings", "embedding"} -> "EMBEDDING"
          [] op \in {"execute_tool", "tool"} -> "TOOL"
          [] op \in {"create_agent", "invoke_agent", "agent"} -> "AGENT"
          [] op \in {"retrieval", "search_memory"} -> "RETRIEVER"
          [] op # None /\ ~call -> "CHAIN"
          [] call -> "LLM"
          [] Carries(a, ToolKeys) \/ AttrStr(a, "mcp.method.name") = "tools/call" -> "TOOL"
          [] OTHER -> None

\* Slots are read from 0 up to the first absent one; a slot that holds neither
\* a role nor a content does not end the list.
IndexedMessages(slots) ==
    LET kept == {i \in DOMAIN slots : i < MaxIndexedMessages}
        reach == {i \in kept : 0 .. i \subseteq kept}
        list == SelectSeq([n \in 1 .. Cardinality(reach) |-> slots[n - 1]],
                          LAMBDA m : m.role # None \/ m.content # None)
    IN  IF list = <<>> THEN None ELSE list

NoTokens == [prompt |-> None, completion |-> None, total |-> None, cache_read |-> None,
             cache_write |-> None, reasoning |-> None]

TokensOf(a) ==
    LET prompt == FirstNum(a, <<"llm.token_count.prompt", "gen_ai.usage.input_tokens",
                                "gen_ai.usage.prompt_tokens">>)
        completion == FirstNum(a, <<"llm.token_count.completion", "gen_ai.usage.output_tokens",
                                    "gen_ai.usage.completion_tokens">>)
        total == FirstNum(a, <<"llm.token_count.total", "gen_ai.usage.total_tokens">>)
        derived == IF None \in {prompt, completion} THEN None ELSE prompt + completion
    IN  [prompt |-> prompt, completion |-> completion, total |-> OrElse(total, derived),
         cache_read |-> FirstNum(a, <<"llm.token_count.prompt_details.cache_read",
                                      "gen_ai.usage.cache_read.input_tokens">>),
         cache_write |-> FirstNum(a, <<"llm.token_count.prompt_details.cache_write",
                                       "gen_ai.usage.cache_creation.input_tokens",
                                       "gen_ai.usage.cache_write.input_tokens">>),
         reasoning |-> FirstNum(a, <<"llm.token_count.completion_details.reasoning",
                                     "gen_ai.usage.reasoning_tokens",
                                     "gen_ai.usage.reasoning.output_tokens">>)]

CostAttributes == <<"llm.cost.total", "gen_ai.usage.cost">>

----------------------------------------------------------------------------
(***************************************************************************)
(* agent.rs: spellings of tool and agent facts, canonical key first, and   *)
(* usage that another span or record already counts.                       *)
(***************************************************************************)

ToolName == <<"gen_ai.tool.name", "tool.name", "ai.toolCall.name", "tool_name">>
ToolCallId == <<"gen_ai.tool.call.id", "tool_call.id", "ai.toolCall.id", "tool_use_id">>
ToolArguments == <<"gen_ai.tool.call.arguments", "ai.toolCall.args", "tool_input", "input.value">>
AgentName == <<"gen_ai.agent.name", "agent.name">>
AgentId == <<"gen_ai.agent.id", "agent.id">>

\* The first spelling with a text that is not empty.
Fact(n, keys) ==
    FirstOf(LAMBDA a, k : IF k \in DOMAIN a.str THEN NonEmpty(a.str[k]) ELSE None, n.raw, keys)

\* tool_arguments takes a value of any other type in its JSON form.
Arguments(n) ==
    FirstOf(LAMBDA a, k : IF k \in a.other THEN k ELSE IF AttrStr(a, k) = None THEN None
                          ELSE NonEmpty(AttrStr(a, k)), n.raw, ToolArguments)

Failed(n) == n.status = 2 \/ "error.type" \in KeysOf(n.raw)

Canonical(raw, keys) ==
    LET i == SelectInSeq(Tail(keys), LAMBDA k : k \in DOMAIN raw.str)
    IN  IF keys[1] \in KeysOf(raw) \/ i = 0 THEN raw
        ELSE WithStr(raw, keys[1], raw.str[Tail(keys)[i]])

SetAside(n, why) ==
    [n EXCEPT !.tokens = NoTokens, !.cost = None, !.oi = IF @ = "LLM" THEN "CHAIN" ELSE @,
              !.raw = WithStr(@, "evald.usage", why)]

Client == 3
AgentPass(n) ==
    CASE n.oi = "TOOL" ->
             [n EXCEPT !.raw = Canonical(Canonical(@, ToolName), ToolCallId)]
      [] n.oi \in {"AGENT", "CHAIN"} ->
             LET named == [n EXCEPT !.raw = Canonical(Canonical(@, AgentName), AgentId)]
             IN  IF n.kind # Client /\ (n.tokens # NoTokens \/ n.cost # None)
                 THEN SetAside(named, "aggregate") ELSE named
      [] OTHER -> n

----------------------------------------------------------------------------

\* normalize_span: a draft is a span as it came over the wire. It is read, and
\* then passed to agent.rs.
ReadSpan(d, service) ==
    LET a == d.attrs
    IN  [dialect |-> DetectDialect(a), trace |-> d.trace, id |-> d.id, parent |-> d.parent,
         name |-> d.name, kind |-> d.kind,
         oi |-> OrElse(AttrStr(a, "openinference.span.kind"), InferKind(a)),
         start |-> d.start, end |-> d.end, status |-> d.status, message |-> d.message,
         model |-> FirstStr(a, <<"gen_ai.response.model", "gen_ai.request.model", "llm.model_name">>),
         provider |-> FirstStr(a, <<"gen_ai.provider.name", "gen_ai.system", "llm.provider", "llm.system">>),
         tokens |-> TokensOf(a), cost |-> FirstNum(a, CostAttributes),
         input |-> OrElse(FirstStr(a, <<"input.value", "gen_ai.input.messages", "gen_ai.prompt">>),
                          IndexedMessages(a.prompt)),
         output |-> OrElse(FirstStr(a, <<"output.value", "gen_ai.output.messages", "gen_ai.completion">>),
                           IndexedMessages(a.completion)),
         session |-> FirstStr(a, <<"session.id", "gen_ai.conversation.id">>),
         user |-> AttrStr(a, "user.id"), service |-> service, raw |-> a]
NormalizeSpan(d, service) == AgentPass(ReadSpan(d, service))

\* NormalizedSpan::is_llm_span
IsLlmSpan(n) ==
    \/ n.oi = "LLM"
    \/ n.oi \notin {"AGENT", "CHAIN", "TOOL"} /\ (n.model # None \/ Carries(n.raw, CallKeys))

Duration(n) == IF n.end > n.start THEN n.end - n.start ELSE 0
=============================================================================
