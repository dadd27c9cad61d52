----------------------------- MODULE Summaries -----------------------------
(***************************************************************************)
(* What evald computes from stored spans and scores when it is asked: the  *)
(* scores of a trace (src/src/rollup.rs), sessions (sessions.rs), spend    *)
(* and re-priced spend (cost.rs), and latency percentiles (latency.rs).    *)
(* Spans are the records of the module Spans; scores those of ScoreStore   *)
(* with a name, a value and a type. Traces and sessions are given a set of *)
(* one copy of each span, Store::query's answer; spend and latency the     *)
(* rows of a SQL query, spans with the place each is held at, since a span *)
(* may be several of them.                                                 *)
(***************************************************************************)
EXTENDS Pricing, ScoreStore

CONSTANT LoopRun   \* sessions::LOOP_RUN

Total(Value(_), S) == MapThenSumSet(Value, S)
TotalSeq(s) == FoldLeft(+, 0, s)
Iterated(Step(_), x, n) == FoldLeft(LAMBDA y, i : Step(y), x, [i \in 1 .. n |-> i])
Smallest(S) == CHOOSE x \in S : \A y \in S : x <= y
Largest(S) == CHOOSE x \in S : \A y \in S : x >= y

----------------------------------------------------------------------------
(***************************************************************************)
(* The scores of a trace. A value is a quotient <<sum, n>>; only a mean    *)
(* has an n other than 1.                                                  *)
(***************************************************************************)

\* RollupFn::apply
ApplyFn(fn, values) ==
    LET all == ToSet(values)
    IN  CASE fn = "mean" -> <<TotalSeq(values), Len(values)>>
          [] fn = "sum" -> <<TotalSeq(values), 1>>
          [] fn = "min" -> <<Smallest(all), 1>>
          [] fn = "max" -> <<Largest(all), 1>>
          [] fn = "all" -> <<IF 0 \in all THEN 0 ELSE 1, 1>>
          [] fn = "any" -> <<IF all = {0} THEN 0 ELSE 1, 1>>

\* RollupConfig: the last rule of a name counts, and one that does not parse
\* refuses the start.
RollupFns == {"mean", "min", "max", "sum", "all", "any"}
RulesParse(rules) == \A i \in DOMAIN rules : rules[i][2] \in RollupFns
FunctionFor(rules, name, type) ==
    LET i == SelectLastInSeq(rules, LAMBDA rule : rule[1] = name)
    IN  IF i # 0 THEN rules[i][2] ELSE IF type = "boolean" THEN "all" ELSE "mean"

\* SpanTree::build. A parent that is absent, or the span itself, is none.
ParentsIn(spans) ==
    LET present == {s.id : s \in spans}
    IN  [id \in present |->
            LET s == CHOOSE x \in spans : x.id = id
            IN  IF s.parent \in present \ {id} THEN s.parent ELSE None]

\* What a walk down from some spans reaches, not past those of stop.
Walked(parents, from, stop) ==
    Iterated(LAMBDA reach : reach \cup {id \in DOMAIN parents : parents[id] \in reach \ stop},
             from, Cardinality(DOMAIN parents))

\* The faulty variant has no way into a cycle of parents.
OpenRoots(parents) == {id \in DOMAIN parents : parents[id] = None}

\* Spans whose parents close on themselves are entered at the smallest of them
\* not reached yet.
Roots(parents) ==
    FoldLeft(LAMBDA roots, id : IF id \in Walked(parents, roots, {}) THEN roots ELSE roots \cup {id},
             OpenRoots(parents), SetToSortSeq(DOMAIN parents, <))

\* shallowest_carriers: a carrier stands for everything below it.
Shallowest(parents, carriers) == carriers \cap Walked(parents, Roots(parents), carriers)

\* trace_scores: the scores of the trace and of its spans, each newest first.
OfTrace(db, trace) == ByTarget(db, <<"trace", trace>>)
Rollable(s) == s.value # None /\ s.type \notin {"categorical", "text"}
OfSpan(db, id, name) == SelectSeq(ByTarget(db, <<"span", id>>), LAMBDA s : Rollable(s) /\ s.name = name)

\* rollup_trace, the score of one name: what is stated of the trace, the last
\* of the list, or else what its shallowest carriers give; None when none has it.
Stated(db, trace, name) == SelectSeq(OfTrace(db, trace), LAMBDA s : s.value # None /\ s.name = name)
Carriers(spans, db, name) == {id \in {s.id : s \in spans} : OfSpan(db, id, name) # <<>>}
CommonType(types) == IF Cardinality(types) = 1 THEN CHOOSE t \in types : TRUE ELSE "numeric"
Measured(score) ==
    [measured |-> TRUE, value |-> <<score.value, 1>>, n |-> 1, spans |-> {}, type |-> score.type,
     function |-> None]
Derived(from, scores, type, fn) ==
    [measured |-> FALSE, value |-> ApplyFn(fn, [i \in DOMAIN scores |-> scores[i].value]),
     n |-> Len(scores), spans |-> from, type |-> type, function |-> fn]
FromSpans(rules, name, from, scores) ==
    LET type == CommonType({scores[i].type : i \in DOMAIN scores})
    IN  Derived(from, scores, type, FunctionFor(rules, name, type))
NewestOf(db, name, ids) == [i \in DOMAIN ids |-> OfSpan(db, ids[i], name)[1]]
Rolled(spans, db, rules, trace, name) ==
    LET from == Shallowest(ParentsIn(spans), Carriers(spans, db, name))
    IN  CASE Stated(db, trace, name) # <<>> -> Measured(Last(Stated(db, trace, name)))
          [] Stated(db, trace, name) = <<>> /\ Carriers(spans, db, name) = {} -> None
          [] OTHER -> FromSpans(rules, name, from, NewestOf(db, name, Listed(from)))

----------------------------------------------------------------------------
(***************************************************************************)
(* Sessions. A scan is the spans most recent first, as Store::query gives  *)
(* them.                                                                   *)
(***************************************************************************)

Scan(spans) == SortSeq(Listed(spans), LAMBDA s, t : s.start > t.start)

\* The call a tool span is of. The faulty variant knows a call by its span.
CallIsSpan(s) == <<"span", s.trace, s.id>>
CallOf(s) ==
    IF Fact(s, ToolCallId) # None THEN <<"id", Fact(s, ToolCallId)>> ELSE <<"span", s.trace, s.id>>

\* Acc::add of a tool span: the copy that names its tool names the call.
AddTool(calls, s) ==
    LET key == CallOf(s)
        named == Fact(s, ToolName)
        new == [name |-> s.name, named |-> FALSE, failed |-> FALSE, trace |-> s.trace, span |-> s.id,
                parent |-> s.parent, start |-> s.start, arguments |-> None, byId |-> Fact(s, ToolCallId) # None]
        call == IF key \in DOMAIN calls THEN calls[key] ELSE new
        takes == named # None /\ ~call.named
    IN  (key :> [call EXCEPT !.name = IF takes THEN named ELSE @,
                             !.named = @ \/ takes,
                             !.arguments = OrElse(@, Arguments(s)),
                             !.start = IF s.start < @ THEN s.start ELSE @,
                             !.failed = @ \/ Failed(s)]) @@ calls

\* merge_nested: a call without an id is part of the outermost call of its name
\* up its parents.
Outermost(calls, key) ==
    LET Up(at) ==
            LET above == {p \in DOMAIN calls \ {key} :
                             /\ calls[p].trace = calls[at].trace /\ calls[p].span = calls[at].parent
                             /\ calls[p].name = calls[key].name}
            IN  IF above = {} THEN at ELSE CHOOSE p \in above : TRUE
    IN  Iterated(Up, key, Cardinality(DOMAIN calls))
Into(calls, key) == IF calls[key].byId THEN key ELSE Outermost(calls, key)
MergeNested(calls) ==
    [key \in {k \in DOMAIN calls : Into(calls, k) = k} |->
        [calls[key] EXCEPT !.failed = @ \/ \E k \in DOMAIN calls : Into(calls, k) = key /\ calls[k].failed]]

\* repeats: of calls in order of their start, those identical to the one before
\* in their trace, and the longest run of them.
InOrder(calls, trace) ==
    SortSeq(Listed({calls[k] : k \in {k \in DOMAIN calls : calls[k].trace = trace}}),
            LAMBDA c, d : c.start < d.start)
Same(c, d) == c.name = d.name /\ c.arguments # None /\ c.arguments = d.arguments
AddCall(run, call) ==
    LET same == run.last # None /\ Same(run.last, call)
        length == CASE same -> run.length + 1 [] call.arguments = None -> 0 [] OTHER -> 1
    IN  [last |-> call, length |-> length, repeated |-> run.repeated + (IF same THEN 1 ELSE 0),
         longest |-> Largest({run.longest, length})]
RunsIn(order) == FoldLeft(AddCall, [last |-> None, length |-> 0, repeated |-> 0, longest |-> 0], order)
Repeats(calls) ==
    LET runs == {<<t, RunsIn(InOrder(calls, t))>> : t \in {calls[k].trace : k \in DOMAIN calls}}
    IN  [repeated |-> Total(LAMBDA r : r[2].repeated, runs),
         longest |-> Largest({0} \cup {r[2].longest : r \in runs})]

\* An absent sum stays absent.
OptionSum(Value(_), S) ==
    LET known == {s \in S : Value(s) # None}
    IN  IF known = {} THEN None ELSE Total(Value, known)
TokenFields == DOMAIN NoTokens

\* Acc::add over the spans of a session, and Acc::finish.
ToolCalls(spans) == MergeNested(FoldLeft(AddTool, <<>>, SelectSeq(Scan(spans), LAMBDA s : s.oi = "TOOL")))
Finished(id, mine, calls) ==
    LET llm == {s \in mine : s.oi = "LLM"}
    IN  [id |-> id, spans |-> Cardinality(mine), traces |-> {s.trace : s \in mine},
         cost |-> OptionSum(LAMBDA s : s.cost, mine),
         tokens |-> [f \in TokenFields |-> OptionSum(LAMBDA s : s.tokens[f], mine)],
         start |-> Smallest({s.start : s \in mine}), end |-> Largest({s.end : s \in mine}),
         llm |-> Cardinality(llm), llmErrors |-> Cardinality({s \in llm : s.status = 2}),
         models |-> {s.model : s \in llm} \ {None},
         agents |-> {Fact(s, AgentName) : s \in mine} \ {None},
         calls |-> {calls[k] : k \in DOMAIN calls},
         toolErrors |-> Cardinality({k \in DOMAIN calls : calls[k].failed}),
         repeats |-> Repeats(calls)]
Session(spans, id) ==
    LET mine == {s \in spans : s.session = id} IN Finished(id, mine, ToolCalls(mine))
Loops(session) == session.repeats.longest >= LoopRun

\* rollups: every session, the one active last first.
Sessions(spans) ==
    SortSeq(Listed({Session(spans, id) : id \in {s.session : s \in spans} \ {None}}),
            LAMBDA a, b : a.end > b.end)

----------------------------------------------------------------------------
(***************************************************************************)
(* Spend.                                                                  *)
(***************************************************************************)

Dimensions == {"model", "user", "session", "service", "provider"}

\* One row of a report: unknown costs are counted, not taken as 0.
SpendOf(S, Cost(_)) ==
    [spans |-> Cardinality(S), tokens |-> OptionSum(LAMBDA s : s.tokens.total, S),
     cost |-> OptionSum(Cost, S), missing |-> Cardinality({s \in S : Cost(s) = None})]
GroupsOf(spans, dimension) == {s[dimension] : s \in spans}
CostRows(spans, dimension, Cost(_)) ==
    [g \in GroupsOf(spans, dimension) |-> SpendOf({s \in spans : s[dimension] = g}, Cost)]
StoredCost(s) == s.cost
GrandTotal(spans, dimension) ==
    [total |-> SpendOf(spans, StoredCost),
     groups |-> Cardinality(GroupsOf(spans, dimension) \ {None})
                + IF None \in GroupsOf(spans, dimension) THEN 1 ELSE 0]

\* reprice: the rows are those of the report with what a span costs under a table. A derived cost is read by the
\* basis stamped on it; a missing one by the stored total, unless that is the
\* sum the normaliser makes up itself.
WasDerived(s) == s.cost # None /\ ~HasCostAttribute(s)
StampOf(s) == IF "evald.cost.basis" \in DOMAIN s.raw.str THEN s.raw.str["evald.cost.basis"] ELSE None
Stamped(s) ==
    [cache_excl |-> StampOf(s) \in {"cache_excl", "cache_excl,reasoning_add"},
     reasoning_add |-> StampOf(s) \in {"reasoning_add", "cache_excl,reasoning_add"}]
StoredTotal(t) ==
    IF None \notin {t.prompt, t.completion} /\ t.total = t.prompt + t.completion THEN None ELSE t.total
Repriced(table, s) ==
    IF s.cost # None /\ ~WasDerived(s) THEN s.cost
    ELSE IF s.model = None \/ {s.tokens.prompt, s.tokens.completion} = {None} THEN None
    ELSE IF Lookup(table, s.model) = None THEN None
    ELSE PriceTokens(Lookup(table, s.model), s.tokens,
                     IF WasDerived(s) THEN Stamped(s) ELSE DetectBasis(s.tokens, StoredTotal(s.tokens)))

----------------------------------------------------------------------------
(***************************************************************************)
(* Latency: exact nearest-rank percentiles over the LLM spans.             *)
(***************************************************************************)

\* ttft_seconds, in milliseconds: the first of the names with a usable value.
TtftSeconds == {"gen_ai.response.time_to_first_chunk"}
TtftAttrs == <<"gen_ai.response.time_to_first_chunk", "ai.response.msToFirstChunk",
               "ai.stream.msToFirstChunk", "time_to_first_token_ms">>
Ttft(s) ==
    FirstOf(LAMBDA a, k : IF AttrNum(a, k) = None THEN None
                          ELSE IF k \in TtftSeconds THEN AttrNum(a, k) * 1000 ELSE AttrNum(a, k),
            s.raw, TtftAttrs)

\* The rank ceil(p * n), at least 1.
Rank(percent, n) == IF n = 0 THEN 1 ELSE (percent * n + 99) \div 100
NearestRank(values, percent) == IF values = <<>> THEN None ELSE values[Rank(percent, Len(values))]

Ascending(spans, Value(_)) ==
    LET known == SelectSeq(Listed(spans), LAMBDA s : Value(s) # None)
    IN  SortSeq([i \in DOMAIN known |-> Value(known[i])], <)
RowOf(S, durations, ttft) ==
    [spans |-> Len(durations), errors |-> Cardinality({s \in S : s.status = 2}),
     p50 |-> NearestRank(durations, 50), p95 |-> NearestRank(durations, 95),
     p99 |-> NearestRank(durations, 99), max |-> Last(durations),
     ttft_known |-> Len(ttft), ttft_unknown |-> Len(durations) - Len(ttft),
     ttft_p50 |-> NearestRank(ttft, 50), ttft_p95 |-> NearestRank(ttft, 95)]
LatencyRow(S, timed) == RowOf(S, Ascending(S, Duration), Ascending(timed, Ttft))

\* The rows one of which gives each span its time to first token. A query is
\* made per name, and a span counts once, by the first that has it; of its
\* copies with that name any may come first.
TtftRank(s) == SelectInSeq(TtftAttrs, LAMBDA k : AttrNum(s.raw, k) # None)
SpanOf(s) == <<s.trace, s.id>>
FirstTokens(llm) ==
    LET known == {s \in llm : Ttft(s) # None}
        Leading(span) ==
            {s \in known : SpanOf(s) = span
                         /\ \A t \in known : SpanOf(t) = span => TtftRank(s) <= TtftRank(t)}
    IN  FoldSet(LAMBDA span, chosen : {timed \cup {s} : timed \in chosen, s \in Leading(span)},
                {{}}, {SpanOf(s) : s \in known})

\* latency_rows, of the LLM spans, with the rows their first tokens were read of.
LatencyRows(llm, timed, dimension) ==
    LET Of(S, g) == {s \in S : s[dimension] = g}
    IN  [g \in GroupsOf(llm, dimension) |-> LatencyRow(Of(llm, g), Of(timed, g))]
=============================================================================
