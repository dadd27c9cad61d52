------------------------------- MODULE Usage -------------------------------
(***************************************************************************)
(* The usage series of /metrics (src/src/usage.rs): what a process counts  *)
(* of the spans and scores it accepted, in memory whose size the traffic   *)
(* does not decide. Label values are interned up to a cap and the series   *)
(* themselves are capped; what is past a cap is counted under Other. The   *)
(* label of an absent value is None here and `unknown' on the page.        *)
(***************************************************************************)
EXTENDS Summaries

CONSTANTS
    Other,         \* the interned id 0
    ProviderCap, ModelCap, ServiceCap, ToolCap, MaxSeries, MaxToolSeries,
    ScoreWindow, ScoreNamesCap,
    TimeBuckets    \* TIME_BUCKETS_S, ascending

ASSUME UsageAssumption ==
    /\ {ProviderCap, ModelCap, ServiceCap, ToolCap, ScoreWindow, ScoreNamesCap} \subseteq Nat \ {0}
    /\ {MaxSeries, MaxToolSeries} \subseteq Nat \ {0}
    /\ \A i \in DOMAIN TimeBuckets : i > 1 => TimeBuckets[i - 1] < TimeBuckets[i]

\* The faulty variant admits one value past the cap.
InternPastCap(known, value, cap) ==
    IF value \in known \/ Cardinality(known) <= cap THEN value ELSE Other
\* Interner::intern: known holds the values admitted so far.
Intern(known, value, cap) ==
    IF value \in known \/ Cardinality(known) < cap THEN value ELSE Other
Admit(known, label) == (known \cup {label}) \ {Other}

\* Hist: an observation goes to the first bound not below it, or to none;
\* render accumulates.
EmptyHist == [counts |-> [i \in DOMAIN TimeBuckets |-> 0], sum |-> 0, count |-> 0]
Observe(h, v) ==
    LET i == SelectInSeq(TimeBuckets, LAMBDA bound : bound >= v)
    IN  [counts |-> [j \in DOMAIN h.counts |-> h.counts[j] + IF j = i THEN 1 ELSE 0],
         sum |-> h.sum + v, count |-> h.count + 1]
Cumulative(h) == [i \in DOMAIN TimeBuckets |-> TotalSeq(SubSeq(h.counts, 1, i))]

TokenCounters == {"prompt", "completion", "cache_read", "cache_write", "reasoning"}
NewSeries ==
    [requests |-> 0, errors |-> 0, cost |-> 0, without_cost |-> 0,
     tokens |-> [f \in TokenCounters |-> 0], duration |-> EmptyHist, ttft |-> EmptyHist]

FreshUsage ==
    [providers |-> {}, models |-> {}, services |-> {}, tools |-> {}, series |-> <<>>,
     toolSeries |-> <<>>, folded |-> 0, scores |-> <<>>, untracked |-> 0]

Counter(map, key, new) == IF key \in DOMAIN map THEN map[key] ELSE new

\* A label tuple, or the one of everything folded when the series are full: one
\* slot is kept for that.
Slot(map, key, folded, max) ==
    IF key \in DOMAIN map \/ Cardinality(DOMAIN map) < max - 1 THEN key ELSE folded

\* record, of an LLM span
RecordLlm(u, s) ==
    LET p == Intern(u.providers, s.provider, ProviderCap)
        m == Intern(u.models, s.model, ModelCap)
        v == Intern(u.services, s.service, ServiceCap)
        key == Slot(u.series, <<p, m, v>>, <<Other, Other, Other>>, MaxSeries)
        e == Counter(u.series, key, NewSeries)
        counted ==
            [requests |-> e.requests + 1, errors |-> e.errors + (IF s.status = 2 THEN 1 ELSE 0),
             cost |-> e.cost + OrZero(s.cost),
             without_cost |-> e.without_cost + (IF s.cost = None THEN 1 ELSE 0),
             tokens |-> [f \in TokenCounters |-> e.tokens[f] + OrZero(s.tokens[f])],
             duration |-> Observe(e.duration, Duration(s)),
             ttft |-> IF Ttft(s) = None THEN e.ttft ELSE Observe(e.ttft, Ttft(s))]
    IN  [u EXCEPT !.providers = Admit(@, p), !.models = Admit(@, m), !.services = Admit(@, v),
                  !.series = (key :> counted) @@ @,
                  !.folded = @ + IF Other \in {p, m, v} \/ key # <<p, m, v>> THEN 1 ELSE 0]

\* record_tool
RecordTool(u, s) ==
    LET v == Intern(u.services, s.service, ServiceCap)
        t == Intern(u.tools, Fact(s, ToolName), ToolCap)
        key == Slot(u.toolSeries, <<v, t>>, <<Other, Other>>, MaxToolSeries)
        e == Counter(u.toolSeries, key, [calls |-> 0, errors |-> 0])
    IN  [u EXCEPT !.services = Admit(@, v), !.tools = Admit(@, t),
                  !.toolSeries = (key :> [calls |-> e.calls + 1,
                                          errors |-> e.errors + IF Failed(s) THEN 1 ELSE 0]) @@ @,
                  !.folded = @ + IF Other \in {v, t} \/ key # <<v, t>> THEN 1 ELSE 0]

\* UsageMetrics::record, of a committed batch
RecordSpan(u, s) ==
    IF IsLlmSpan(s) THEN RecordLlm(u, s) ELSE IF s.oi = "TOOL" THEN RecordTool(u, s) ELSE u
RecordBatch(u, batch) == FoldLeft(RecordSpan, u, batch)

\* record_scores: numeric ones of a span or a trace, in windows by name. A score
\* with aggregate statistics is passed over too; only those of a run have any.
RecordScore(u, s) ==
    IF s.value = None \/ s.target[1] = "run" THEN u
    ELSE IF s.name \notin DOMAIN u.scores /\ Cardinality(DOMAIN u.scores) >= ScoreNamesCap
    THEN [u EXCEPT !.untracked = @ + 1]
    ELSE LET window == Append(Counter(u.scores, s.name, <<>>), s.value)
         IN  [u EXCEPT !.scores =
                 (s.name :> IF Len(window) > ScoreWindow THEN Tail(window) ELSE window) @@ @]
RecordScores(u, scores) == FoldLeft(RecordScore, u, scores)
=============================================================================
