----------------------------- MODULE Telemetry -----------------------------
(***************************************************************************)
(* Export requests on their way to the batch core of the store, which the  *)
(* module Ingest has from there on: a request is mapped item by item with  *)
(* a price table it takes at its start (src/src/logs.rs, normalize.rs,     *)
(* price.rs), the dialects remembering their sessions in two layers        *)
(* (logs::Recall), and what it became is redacted and stored, or refused   *)
(* and sent again. Requests are mapped concurrently, the price file is     *)
(* edited under them, and a restart forgets everything but what is stored. *)
(***************************************************************************)
EXTENDS Dialects

CONSTANTS
    Requests,        \* export requests
    Items,           \* what each carries, in order: see LogItem and SpanItem
    Policy,          \* --logs
    RecallCapacity,  \* logs::RECALL_CAPACITY
    Baseline,        \* the compiled-in price table
    Files,           \* what the price file holds after each edit; None does not parse
    Pattern, Inner, DigitsOf, \* see Redaction
    Redactor,        \* the compiled policy: rules and action
    TextKeys,        \* attributes whose value is a text
    MaxTries,        \* bound: times each request is sent
    MaxRestarts      \* bound: restarts explored

Red == INSTANCE Redaction

LogItem(rec) == [signal |-> "log", rec |-> rec]
SpanItem(scope, service, draft, events) ==
    [signal |-> "span", scope |-> scope, service |-> service, draft |-> draft, events |-> events]

ASSUME TelemetryAssumption ==
    /\ Policy \in {"off", "genai", "all"}
    /\ RecallCapacity \in Nat \ {0} /\ MaxTries \in [Requests -> Nat \ {0}] /\ MaxRestarts \in Nat
    /\ Files[1] # None

\* A request carries one signal, and what a record gives a session to remember
\* is never the absent value.
ASSUME ItemsAssumption ==
    \A r \in Requests :
        /\ Len(Items[r]) \in Nat /\ DOMAIN Items[r] = 1 .. Len(Items[r])
        /\ \A i, j \in DOMAIN Items[r] : Items[r][i].signal = Items[r][j].signal
        /\ \A i \in DOMAIN Items[r] :
               LET item == Items[r][i]
               IN  CASE item.signal = "log" ->
                            /\ DOMAIN item.rec.attrs = DOMAIN Bare
                            /\ CodexTurn(SessionOf("codex", item.rec), item.rec) # None
                            /\ GeminiTurn(SessionOf("gemini", item.rec), item.rec) # None
                            /\ SentRequest(item.rec) # None /\ Refusal(item.rec)[2] # None
                     [] OTHER ->
                            /\ item.signal = "span" /\ DOMAIN item.draft.attrs = DOMAIN Bare
                            /\ Len(item.events) \in Nat /\ DOMAIN item.events = 1 .. Len(item.events)

VARIABLES
    recall,    \* of each dialect that remembers, the sessions known to the node and their order
    file,      \* how often the price file was written; its mtime
    loaded,    \* the mtime Live::watch saw last
    table,     \* Live::table
    pc, try,   \* each request: new, mapping, stored, failed
    pos,       \* the item being mapped
    local,     \* the request's own layer of each dialect
    first,     \* what a mapping saw of the session when it first looked
    prices,    \* the table the request took
    out,       \* what it became: its spans and scores, each with its item
    outcomes,  \* of each log record, what became of it
    stored,    \* what the store accepted of it
    restarts

requestVars == <<pc, try, pos, local, first, prices, out, outcomes>>
priceVars == <<file, loaded, table>>
vars == <<recall, priceVars, requestVars, stored, restarts>>

NoRecall == [codex |-> [map |-> <<>>, order |-> <<>>], gemini |-> [map |-> <<>>, order |-> <<>>]]
NoLocal == [codex |-> <<>>, gemini |-> <<>>]

Init ==
    /\ recall = NoRecall
    /\ file = 1 /\ loaded = 1 /\ table = LoadOver(Baseline, Files[1])
    /\ pc = [r \in Requests |-> "new"] /\ try = [r \in Requests |-> 1]
    /\ pos = [r \in Requests |-> 1] /\ local = [r \in Requests |-> NoLocal]
    /\ first = [r \in Requests |-> None] /\ prices = [r \in Requests |-> None]
    /\ out = [r \in Requests |-> <<>>] /\ outcomes = [r \in Requests |-> <<>>]
    /\ stored = [r \in Requests |-> <<>>]
    /\ restarts = 0

----------------------------------------------------------------------------
(***************************************************************************)
(* Recall.                                                                 *)
(***************************************************************************)

\* Recall::get: the request's layer, then the node's, which never knows a
\* session without a name. The faulty variant asks the node first.
NodeFirst(mine, node, session, new) ==
    CASE session # "" /\ session \in DOMAIN node.map -> node.map[session]
      [] (session = "" \/ session \notin DOMAIN node.map) /\ session \in DOMAIN mine -> mine[session]
      [] OTHER -> new
Get(mine, node, session, new) ==
    CASE session \in DOMAIN mine -> mine[session]
      [] session \notin DOMAIN mine /\ session # "" /\ session \in DOMAIN node.map -> node.map[session]
      [] OTHER -> new

\* Recall::update, of the request's layer and of the node's, where a session
\* keeps the place it has; past the capacity the session first seen is forgotten.
Updated(mine, session, value) ==
    [s \in DOMAIN mine \cup {session} |-> IF s = session THEN value ELSE mine[s]]
Layered(mine, m, rec) ==
    [d \in DOMAIN mine |-> IF m[d] = Unchanged THEN mine[d] ELSE Updated(mine[d], SessionOf(d, rec), m[d][1])]
Remember(node, session, value) ==
    LET known == session \in DOMAIN node.map
        order == IF known THEN node.order ELSE Append(node.order, session)
        all == Updated(node.map, session, value)
        kept == SubSeq(order, IF Len(order) > RecallCapacity THEN Len(order) - RecallCapacity + 1 ELSE 1, Len(order))
    IN  IF session = "" THEN node
        ELSE [map |-> [s \in ToSet(kept) |-> all[s]], order |-> kept]

\* What a request can see of the session of a record.
Seen(r, rec) ==
    [codex |-> Get(local[r].codex, recall.codex, SessionOf("codex", rec), NewConversation),
     gemini |-> Get(local[r].gemini, recall.gemini, SessionOf("gemini", rec), NewSession)]

----------------------------------------------------------------------------
(***************************************************************************)
(* Prices.                                                                 *)
(***************************************************************************)

\* Live::reload_if_changed: a file that does not parse is not tried again
\* until it is edited again.
Reloaded == IF file = loaded \/ Files[file] = None THEN table ELSE LoadOver(Baseline, Files[file])

\* The operator edits the file.
Edit ==
    /\ file < Len(Files) /\ file' = file + 1
    /\ UNCHANGED <<recall, loaded, table, requestVars, stored, restarts>>

\* A request takes its table: Live::table looks at the file when a check is due.
Begin(r) ==
    /\ pc[r] = "new" /\ pc' = [pc EXCEPT ![r] = "mapping"]
    /\ \E due \in BOOLEAN :
           /\ loaded' = IF due THEN file ELSE loaded
           /\ table' = IF due THEN Reloaded ELSE table
    /\ prices' = [prices EXCEPT ![r] = table']
    /\ UNCHANGED <<recall, file, try, pos, local, first, out, outcomes, stored, restarts>>

----------------------------------------------------------------------------
(***************************************************************************)
(* Mapping.                                                                *)
(***************************************************************************)

Mapping(r, signal) ==
    /\ pc[r] = "mapping" /\ pos[r] <= Len(Items[r]) /\ Items[r][pos[r]].signal = signal
IsMapped(r) == pc[r] = "mapping" /\ pos[r] > Len(Items[r])

\* The table a request prices with is the one it took. The faulty variant asks
\* for the live one.
LiveTable(r) == table
TableOf(r) == prices[r]

\* What an item became, priced.
Entries(r, item, spans, scores) ==
    [i \in DOMAIN spans |-> [item |-> item, span |-> Apply(TableOf(r), spans[i]), score |-> None]]
    \o [i \in DOMAIN scores |-> [item |-> item, span |-> None, score |-> scores[i]]]

Some(x) == IF x = None THEN <<>> ELSE <<x>>

\* Recall is asked for a record that ends or belongs to what came before it.
Looks(rec) ==
    LET event == EventName(rec)
    IN  \/ event \in {"codex.sse_event", "codex.tool_result", "gemini_cli.api_response", "gemini_cli.api_error",
                      "gemini_cli.tool_call"}
        \/ event \in {"codex.api_request", "codex.websocket_request"} /\ RequestError(rec) # None

\* A mapping looks at the session twice; another request may step in between.
Look(r) ==
    /\ Mapping(r, "log") /\ first[r] = None /\ Looks(Items[r][pos[r]].rec)
    /\ first' = [first EXCEPT ![r] = Seen(r, Items[r][pos[r]].rec)]
    /\ UNCHANGED <<recall, priceVars, pc, try, pos, local, prices, out, outcomes, stored, restarts>>

\* One record of normalize_logs: mapped, its session remembered in both layers.
Map(r) ==
    /\ Mapping(r, "log") /\ (Looks(Items[r][pos[r]].rec) => first[r] # None)
    /\ \E rec \in {Items[r][pos[r]].rec} : \E now \in {Seen(r, rec)} :
       \E m \in {MapRecord(rec, Policy, OrElse(first[r], now), now)} :
           /\ out' = [out EXCEPT ![r] = @ \o Entries(r, pos[r], Some(m.span), Some(m.score))]
           /\ outcomes' = [outcomes EXCEPT ![r] = Append(@, m.outcome)]
           /\ local' = [local EXCEPT ![r] = Layered(@, m, rec)]
           /\ recall' = [d \in DOMAIN recall |->
                            IF m[d] = Unchanged THEN recall[d] ELSE Remember(recall[d], SessionOf(d, rec), m[d][1])]
    /\ first' = [first EXCEPT ![r] = None] /\ pos' = [pos EXCEPT ![r] = @ + 1]
    /\ UNCHANGED <<priceVars, pc, try, prices, stored, restarts>>

\* What a span of a traces request becomes, with the verdicts among its events.
Verdicts(item) ==
    FoldLeft(LAMBDA got, e :
                 got \o Some(IF e.name = EvaluationResult THEN ScoreOfSpanEvent(item.draft, e) ELSE None),
             <<>>, item.events)
Received(r, i) ==
    LET item == Items[r][i]
    IN  Entries(r, i, <<ReceiveSpan(item.scope, item.service, item.draft)>>, Verdicts(item))

\* A traces request: normalize_request and evalevent::extract, which share
\* nothing with another request but the table taken.
Receive(r) ==
    /\ Mapping(r, "span")
    /\ out' = [out EXCEPT ![r] = FoldLeftDomain(LAMBDA got, i : got \o Received(r, i), <<>>, Items[r])]
    /\ pos' = [pos EXCEPT ![r] = Len(Items[r]) + 1]
    /\ UNCHANGED <<recall, priceVars, pc, try, local, first, prices, outcomes, stored, restarts>>

----------------------------------------------------------------------------
(***************************************************************************)
(* The store.                                                              *)
(***************************************************************************)

\* Redactor::scrub_span: the captured texts and every string attribute.
ScrubSpan(n) ==
    [n EXCEPT !.input = IF @ = None THEN None ELSE Red!Clean(Redactor, @),
              !.output = IF @ = None THEN None ELSE Red!Clean(Redactor, @),
              !.raw.str = [k \in DOMAIN @ |-> IF k \in TextKeys THEN Red!Clean(Redactor, @[k]) ELSE @[k]]]

\* The locals of the handlers of R are gone.
Forget(R) ==
    /\ pos' = [r \in Requests |-> IF r \in R THEN 1 ELSE pos[r]]
    /\ local' = [r \in Requests |-> IF r \in R THEN NoLocal ELSE local[r]]
    /\ first' = [r \in Requests |-> IF r \in R THEN None ELSE first[r]]
    /\ prices' = [r \in Requests |-> IF r \in R THEN None ELSE prices[r]]
    /\ out' = [r \in Requests |-> IF r \in R THEN <<>> ELSE out[r]]
    /\ outcomes' = [r \in Requests |-> IF r \in R THEN <<>> ELSE outcomes[r]]

Accept(r) ==
    /\ IsMapped(r) /\ pc' = [pc EXCEPT ![r] = "stored"]
    /\ stored' = [stored EXCEPT ![r] =
                     [i \in DOMAIN out[r] |-> [out[r][i] EXCEPT !.span = IF @ = None THEN None ELSE ScrubSpan(@)]]]
    /\ Forget({r})
    /\ UNCHANGED <<recall, priceVars, try, restarts>>

\* The client sends the request again, until it gives up.
Abandon(R) ==
    /\ pc' = [r \in Requests |-> IF r \notin R THEN pc[r] ELSE IF try[r] < MaxTries[r] THEN "new" ELSE "failed"]
    /\ try' = [r \in Requests |-> IF r \in R /\ try[r] < MaxTries[r] THEN try[r] + 1 ELSE try[r]]
    /\ Forget(R)

\* A refusal of the store: what the mapping remembered stays remembered.
Refuse(r) ==
    /\ IsMapped(r) /\ Abandon({r})
    /\ UNCHANGED <<recall, priceVars, stored, restarts>>

\* A restart reads the price file again, which has to parse then.
Restart ==
    /\ restarts < MaxRestarts /\ restarts' = restarts + 1
    /\ Files[file] # None
    /\ Abandon({r \in Requests : pc[r] = "mapping"})
    /\ recall' = NoRecall /\ loaded' = file /\ table' = LoadOver(Baseline, Files[file])
    /\ UNCHANGED <<file, stored>>

Next ==
    \/ Edit \/ Restart
    \/ \E r \in Requests : Begin(r) \/ Look(r) \/ Map(r) \/ Receive(r) \/ Accept(r) \/ Refuse(r)

Spec == Init /\ [][Next]_vars

----------------------------------------------------------------------------
(***************************************************************************)
(* What holds of the result, whatever happens around a request.            *)
(***************************************************************************)

LogsOf(r) == {i \in DOMAIN Items[r] : Items[r][i].signal = "log"}
Rec(r, i) == Items[r][i].rec
\* The dialect a record speaks: of the agents that may have written it, the
\* first that knows the event.
ClaudeKnows ==
    {"api_request", "api_error", "tool_result", "tool_decision", "user_prompt", "assistant_response", "api_refusal"}
CodexKnows ==
    {"codex.conversation_starts", "codex.user_prompt", "codex.api_request", "codex.websocket_request",
     "codex.sse_event", "codex.tool_decision", "codex.tool_result"}
GeminiKnows ==
    {"gemini_cli.user_prompt", "gemini_cli.api_response", "gemini_cli.api_error", "gemini_cli.tool_call",
     "gemini_cli.api_request", "gen_ai.client.inference.operation.details"}
DialectOf(rec) ==
    IF IsClaude(rec) /\ ClaudeEvent(rec) \in ClaudeKnows THEN "claude"
    ELSE IF IsCodex(rec) /\ EventName(rec) \in CodexKnows THEN "codex"
    ELSE IF IsGemini(rec) /\ EventName(rec) \in GeminiKnows THEN "gemini" ELSE "none"

\* The spans a mapped request goes to the store with, those of its log records
\* and those it received, each with its place in the request.
Sent(r) == IF IsMapped(r) THEN {e \in ToSet(out[r]) : e.span # None} ELSE {}
LogSpans(r) == {e \in Sent(r) : e.item \in LogsOf(r)}
TracedSpans(r) == {e \in Sent(r) : e.item \notin LogsOf(r)}

\* The records of a session before the i-th of a request.
Before(r, i, dialect, session) ==
    {j \in LogsOf(r) : j < i /\ DialectOf(Rec(r, j)) = dialect /\ SessionOf(dialect, Rec(r, j)) = session}

Prompts(r, i, dialect, session) ==
    LET event == IF dialect = "codex" THEN "codex.user_prompt" ELSE "gemini_cli.user_prompt"
    IN  {j \in Before(r, i, dialect, session) : EventName(Rec(r, j)) = event}
SentBefore(r, i, session) ==
    {j \in Before(r, i, "codex", session) : IsRequest(Rec(r, j)) /\ RequestError(Rec(r, j)) = None}
Refusals(r, i, session) == {j \in Before(r, i, "codex", session) : Refuses(Rec(r, j))}
\* Those of a call whose result no record brought yet, and that the
\* conversation still has room for.
Standing(r, i, session, call) ==
    {j \in Refusals(r, i, session) :
        /\ AttrStr(Rec(r, j).attrs, "call_id") = call
        /\ Cardinality({k \in Refusals(r, i, session) : k > j}) < RefusedKept
        /\ \A k \in Before(r, i, "codex", session) :
               k > j /\ EventName(Rec(r, k)) = "codex.tool_result" => AttrStr(Rec(r, k).attrs, "call_id") # call}

TurnOf(dialect, rec) ==
    IF dialect = "codex" THEN CodexTurn(SessionOf("codex", rec), rec) ELSE GeminiTurn(SessionOf("gemini", rec), rec)

\* What the records before it in its request make of the span of one.
PlacedByPrompt(r, e, dialect) ==
    LET before == Prompts(r, e.item, dialect, SessionOf(dialect, Rec(r, e.item)))
    IN  before # {} /\ EventName(Rec(r, e.item)) \notin {"codex.user_prompt", "gemini_cli.user_prompt"} =>
            <<e.span.trace, e.span.parent>> = TurnOf(dialect, Rec(r, Max(before)))
StartedByRequest(r, e) ==
    LET rec == Rec(r, e.item)
        before == SentBefore(r, e.item, SessionOf("codex", rec))
    IN  before # {} /\ EventName(rec) = "codex.sse_event" /\ OwnContext(rec) = None =>
            e.span.start = Min({StartOf(Rec(r, Max(before))), RecordTime(rec)})
RefusedByDecision(r, e) ==
    LET rec == Rec(r, e.item)
        call == AttrStr(rec.attrs, "call_id")
    IN  Standing(r, e.item, SessionOf("codex", rec), call) # {} /\ EventName(rec) = "codex.tool_result" =>
            e.span.status = ErrorStatus

\* Within one request the first layer of Recall is exact (logs.rs, Recall): a
\* span after a prompt of its session sits in that prompt's turn, a stream
\* starts with the request it ends, and a refused call failed, whatever other
\* requests of the session, restarts and refusals of the store do meanwhile.
RequestIsExact ==
    \A r \in Requests : \A e \in LogSpans(r) :
        LET dialect == DialectOf(Rec(r, e.item))
        IN  /\ dialect \in {"codex", "gemini"} => PlacedByPrompt(r, e, dialect)
            /\ dialect = "codex" => StartedByRequest(r, e) /\ RefusedByDecision(r, e)

\* What a record becomes on its own: nothing remembered of any session.
Alone(rec) ==
    LET nothing == [codex |-> NewConversation, gemini |-> NewSession]
    IN  MapRecord(rec, Policy, nothing, nothing)
FactsOf(n) == <<n.id, n.tokens, n.cost, n.session, n.model, n.oi>>

\* Tokens, cost, session and identity never depend on Recall (logs.rs, module
\* docs), nor on an edit of the price file while the request is mapped: they are
\* what the record gives alone with the table the request took.
FactsAreTheRecords ==
    \A r \in Requests :
        /\ \A e \in LogSpans(r) :
               FactsOf(e.span) = FactsOf(Apply(prices[r], Alone(Rec(r, e.item)).span))
        /\ \A e \in TracedSpans(r) :
               LET i == Items[r][e.item]
               IN  FactsOf(e.span) = FactsOf(Apply(prices[r], ReceiveSpan(i.scope, i.service, i.draft)))

\* Both signals of one Claude Code call give it one key, one span id and the
\* same counts (claude_code.rs, module docs), so that the copy the call ledger
\* keeps does not matter to tokens; and a traced tool anchors its event's call.
OneCallOneIdentity ==
    LET spans == {e.span : e \in UNION {ToSet(out[r]) \cup ToSet(stored[r]) : r \in Requests}} \ {None}
        Key(n, k) == IF k \in DOMAIN n.raw.str THEN n.raw.str[k] ELSE None
    IN  \A m, n \in spans :
            /\ Key(m, "evald.call_key") # None /\ Key(m, "evald.call_key") = Key(n, "evald.call_key") =>
                   m.id = n.id /\ m.tokens = n.tokens
            /\ m.name = "claude_code.tool" /\ n.name = "claude_code.tool"
               /\ AttrStr(m.raw, "tool_use_id") = AttrStr(n.raw, "tool_use_id") =>
                   OrElse(Key(m, "evald.call_key"), Key(m, "evald.call_anchor"))
                       = OrElse(Key(n, "evald.call_key"), Key(n, "evald.call_anchor"))

\* What a call costs by what its emitter says of its counts: Claude Code leaves
\* the cache out of the input, Codex and Gemini CLI count it in; Codex counts
\* reasoning in the output, Gemini CLI thoughts on top of it.
TrueCost(dialect, a, price) ==
    LET N(k) == OrZero(AttrNum(a, k))
        Claude == [fresh |-> N("input_tokens"), read |-> N("cache_read_tokens"),
                   write |-> N("cache_creation_tokens"), said |-> N("output_tokens"), thought |-> 0]
        Codex == [fresh |-> N("input_token_count") - N("cached_token_count") - N("cache_write_token_count"),
                  read |-> N("cached_token_count"), write |-> N("cache_write_token_count"),
                  said |-> N("output_token_count") - N("reasoning_token_count"),
                  thought |-> N("reasoning_token_count")]
        Gemini == [fresh |-> N("input_token_count") + N("tool_token_count") - N("cached_content_token_count"),
                   read |-> N("cached_content_token_count"), write |-> 0,
                   said |-> N("output_token_count"), thought |-> N("thoughts_token_count")]
        u == CASE dialect = "claude" -> Claude [] dialect = "codex" -> Codex [] OTHER -> Gemini
        rates == RatesFor(price, u.fresh + u.read + u.write)
    IN  u.fresh * rates.input + u.read * OrElse(rates.cache_read, rates.input)
        + u.write * OrElse(rates.cache_write, rates.input)
        + u.said * rates.output + u.thought * OrElse(price.reasoning, rates.output)

\* Each token of a call is priced once, at its own rate (the module docs of
\* claude_code.rs, codex.rs and gemini_cli.rs), and a cost the emitter gave
\* stands. Two cases the counts cannot tell apart are left out: a Gemini call
\* with as many cached tokens as thoughts, and a traced Claude Code call whose
\* input is no smaller than its cache.
EachTokenPricedOnce ==
    \A r \in Requests : \A e \in {x \in LogSpans(r) : x.span.name \in
                                      {"claude_code.llm_request", "codex.llm_request", "gemini_cli.llm_request"}} :
        LET a == Rec(r, e.item).attrs
            dialect == DialectOf(Rec(r, e.item))
            price == Lookup(prices[r], e.span.model)
            told == AttrNum(a, "cost_usd")
            ambiguous == dialect = "gemini" /\ OrZero(AttrNum(a, "thoughts_token_count")) > 0
                         /\ AttrNum(a, "thoughts_token_count") = AttrNum(a, "cached_content_token_count")
        IN  e.span.tokens.prompt # None /\ e.span.model # None /\ ~ambiguous =>
                e.span.cost = IF dialect = "claude" /\ told # None THEN told
                              ELSE IF price = None THEN None ELSE TrueCost(dialect, a, price)

\* No text a rule of the policy matches is stored in a captured value or an
\* attribute (redact.rs, module docs), but for one that overlaps a card-shaped
\* run that is no card; and a run that no rule matches stays.
StoredTextIsClean ==
    \A r \in Requests : \A e \in {x \in ToSet(stored[r]) : x.span # None} :
        LET item == Items[r][e.item]
            sent == IF item.signal = "log" THEN item.rec.attrs.str ELSE item.draft.attrs.str
            Faithful(clean, key) == Red!Exact(Redactor, sent[key], clean)
        IN  /\ \A k \in DOMAIN sent \cap TextKeys : Faithful(e.span.raw.str[k], k)
            /\ "input.value" \in DOMAIN sent => Faithful(e.span.input, "input.value")
            /\ "output.value" \in DOMAIN sent => Faithful(e.span.output, "output.value")
=============================================================================
