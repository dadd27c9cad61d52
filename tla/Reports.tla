------------------------------ MODULE Reports ------------------------------
(***************************************************************************)
(* What an operator reads off a node while it takes spans and scores: the  *)
(* reports of the module Summaries, computed from the store whenever they  *)
(* are asked for, and the series of the module Usage, counted as batches   *)
(* are committed and lost by a restart. A batch arrives whole and may be   *)
(* sent again. Traces and sessions read one copy of each span              *)
(* (Store::query); spend and latency query the view `spans', where copies  *)
(* flushed from two segments are two rows until a merge (src/src/sql.rs).  *)
(* The store is at rest here: its steps and their races are in the modules *)
(* Store, Merge and Reads. The spans of a segment start within one hour,   *)
(* so that it becomes one block.                                           *)
(***************************************************************************)
EXTENDS Usage

CONSTANTS
    Batches,   \* batches of normalised, priced spans
    Posts,     \* batches of scores
    Table,     \* the price table every batch was priced with
    Rules,     \* --rollup
    MaxBatches, MaxSteps   \* bounds: batches; batches, posts and restarts

VARIABLES
    hot,       \* the batches in the hot tier, in order
    cold,      \* the listed blocks
    db,        \* the score store
    usage,     \* UsageMetrics
    accepted,  \* the spans this process committed, in order
    posted,    \* the scores it committed, in order
    sent, steps   \* what the bounds count

vars == <<hot, cold, db, usage, accepted, posted, sent, steps>>

ASSUME ReportsAssumption == RulesParse(Rules) /\ {MaxBatches, MaxSteps} \subseteq Nat

Init ==
    /\ hot = <<>> /\ cold = {} /\ db = EmptyDb /\ usage = FreshUsage
    /\ accepted = <<>> /\ posted = <<>> /\ sent = 0 /\ steps = 0

Counted == steps < MaxSteps /\ steps' = steps + 1

\* The writer commits a batch, counts it and acknowledges it.
Commit(batch) ==
    /\ hot' = Append(hot, batch)
    /\ usage' = RecordBatch(usage, batch)
    /\ accepted' = accepted \o batch
    /\ sent < MaxBatches /\ sent' = sent + 1
    /\ Counted
    /\ UNCHANGED <<cold, db, posted>>

SpansOf(S) == {SpanOf(s) : s \in S}
\* Of the copies of a span the first to arrive, in a segment and in the hot tier.
FirstCopies(spans) ==
    {spans[i] : i \in {i \in DOMAIN spans : \A j \in 1 .. i - 1 : SpanOf(spans[j]) # SpanOf(spans[i])}}

\* flush_one of the oldest segment, any number of batches: segments are numbered
\* in order, and a block is named for the first and last it holds.
Flush(n) ==
    LET seqno == Largest({0} \cup {b.hi : b \in cold}) + 1
    IN  /\ hot' = SubSeq(hot, n + 1, Len(hot))
        /\ cold' = cold \cup {[level |-> 0, lo |-> seqno, hi |-> seqno,
                                spans |-> FirstCopies(FlattenSeq(SubSeq(hot, 1, n)))]}
        /\ UNCHANGED <<db, usage, accepted, posted, sent, steps>>

\* The spans some blocks yield, read in an order: each by its first copy.
ReadIn(Before(_, _), blocks) ==
    UNION {{s \in b.spans : \A a \in blocks : Before(a, b) => SpanOf(s) \notin SpansOf(a.spans)} :
               b \in blocks}
InSeqno(a, b) == a.lo < b.lo

\* merge_chunk, at level 1 of blocks of an hour and at level 2 of any of a day;
\* an output of the name of an input is not written.
Merge(chunk, level) ==
    LET lo == Smallest({b.lo : b \in chunk})
        hi == Largest({b.hi : b \in chunk})
    IN  /\ Cardinality(chunk) > 1
        /\ level = 1 => \A b \in chunk : b.level < 2
        /\ \A b \in chunk : <<b.level, b.lo, b.hi>> # <<level, lo, hi>>
        /\ cold' = (cold \ chunk) \cup {[level |-> level, lo |-> lo, hi |-> hi,
                                          spans |-> ReadIn(InSeqno, chunk)]}
        /\ UNCHANGED <<hot, db, usage, accepted, posted, sent, steps>>

\* Store::put_scores
PostScores(scores) ==
    /\ db' = PutBatch(db, scores)
    /\ usage' = RecordScores(usage, scores)
    /\ posted' = posted \o scores
    /\ Counted
    /\ UNCHANGED <<hot, cold, accepted, sent>>

\* Recovery reads the store back and counts none of it.
Restart ==
    /\ accepted # <<>> \/ posted # <<>>
    /\ usage' = FreshUsage /\ accepted' = <<>> /\ posted' = <<>>
    /\ Counted
    /\ UNCHANGED <<hot, cold, db, sent>>

Next ==
    \/ \E batch \in Batches : Commit(batch)
    \/ \E scores \in Posts : PostScores(scores)
    \/ Restart
    \/ \E n \in DOMAIN hot : Flush(n)
    \/ \E chunk \in SUBSET cold, level \in 1 .. 2 : Merge(chunk, level)

Spec == Init /\ [][Next]_vars

----------------------------------------------------------------------------
(***************************************************************************)
(* What the reports read.                                                  *)
(***************************************************************************)

\* Store::hot_spans
HotSpans == FirstCopies(FlattenSeq(hot))

\* Index::all_block_paths, by name: flushed blocks, merged ones, those of a day.
ListedBefore(a, b) == a.level < b.level \/ (a.level = b.level /\ a.lo < b.lo)

\* Store::query: the hot tier, then the blocks as listed, the first copy of each span.
StoredSpans ==
    LET resident == SpansOf(HotSpans)
    IN  HotSpans \cup {s \in ReadIn(ListedBefore, cold) : SpanOf(s) \notin resident}

\* The rows of the view `spans'. The faulty variant is a union that lets a hot
\* span keep its cold copies.
Rows(place, S) == {("place" :> place) @@ s : s \in S}
SpansUnion == Rows(0, HotSpans) \cup UNION {Rows(b.lo, b.spans) : b \in cold}
SpansView ==
    LET resident == SpansOf(HotSpans)
    IN  Rows(0, HotSpans)
            \cup UNION {Rows(b.lo, {s \in b.spans : SpanOf(s) \notin resident}) : b \in cold}

----------------------------------------------------------------------------
(***************************************************************************)
(* Scores.                                                                 *)
(***************************************************************************)

Stored(kind, id, name) ==
    {s \in {db.rows[i] : i \in DOMAIN db.rows} :
        s.target = <<kind, id>> /\ s.name = name /\ s.value # None}
Newest(S) == CHOOSE s \in S : \A t \in S : t.ts <= s.ts
Names == {db.rows[i].name : i \in DOMAIN db.rows}

\* The spans above a span: its parent, the parent of that, and so on.
Above(parents, id) ==
    Iterated(LAMBDA up : up \cup ({parents[p] : p \in up} \ {None}), {parents[id]} \ {None},
             Cardinality(DOMAIN parents))

Usable(id, name) == {s \in Stored("span", id, name) : Rollable(s)}
MeanBetween(value, values) ==
    Smallest(values) * value[2] <= value[1] /\ value[1] <= Largest(values) * value[2]
DerivedWell(rolled, parents, carriers, values) ==
    LET Looped(id) == \E p \in Above(parents, id) : p \in Above(parents, p)
    IN  /\ ~rolled.measured /\ rolled.spans \subseteq carriers
        /\ rolled.n = Cardinality(rolled.spans)
        /\ \A id \in carriers \ rolled.spans : Above(parents, id) \cap rolled.spans # {}
        /\ \A id \in rolled.spans : Above(parents, id) \cap rolled.spans \subseteq {id} \/ Looped(id)
        /\ rolled.function = "mean" => MeanBetween(rolled.value, values)
        /\ rolled.function = "all" => (rolled.value = <<1, 1>> <=> 0 \notin values)
RolledWell(trace, spans, name) ==
    \E rolled \in {Rolled(spans, db, Rules, trace, name)}, parents \in {ParentsIn(spans)} :
        LET carriers == {id \in DOMAIN parents : Usable(id, name) # {}}
            stated == {s.value : s \in Stored("trace", trace, name)}
        IN  CASE stated # {} -> rolled.measured /\ rolled.value[1] \in stated
              [] stated = {} /\ carriers = {} -> rolled = None
              [] OTHER -> DerivedWell(rolled, parents, carriers,
                                      {Newest(Usable(id, name)).value : id \in rolled.spans})

\* The score of a trace is measured when one was stated of it, and otherwise
\* made of its spans' newest scores so that each scored span is counted in it
\* or stands below one that is, and none is counted under another; a name
\* nothing scored is absent. Parents that are missing, that name the span
\* itself or that close on themselves lose no score; only a span below such a
\* cycle may be counted besides it.
EveryScoreCounted ==
    \E stored \in {StoredSpans} : \A trace \in {s.trace : s \in stored}, name \in Names :
        RolledWell(trace, {s \in stored : s.trace = trace}, name)

----------------------------------------------------------------------------
(***************************************************************************)
(* Sessions.                                                               *)
(***************************************************************************)

SessionIds(stored) == {s.session : s \in stored} \ {None}
ToolsOf(stored, id) == {s \in stored : s.session = id /\ s.oi = "TOOL"}
ToolsAbove(tools, s) ==
    LET Up(t) == {p \in tools : p.trace = t.trace /\ p.id = t.parent}
    IN  Iterated(LAMBDA up : up \cup UNION {Up(t) : t \in up}, Up(s), Cardinality(tools))
CallsOk(tools, session) ==
    LET ById(s) == Fact(s, ToolCallId) # None
        Reported(s) == \E c \in session.calls : ~c.byId /\ c.trace = s.trace /\ c.span = s.id
    IN  /\ Cardinality({c \in session.calls : c.byId}) = Cardinality({Fact(s, ToolCallId) : s \in tools} \ {None})
        /\ Cardinality(session.calls) <= Cardinality(tools)
        /\ (\A s \in tools : s \notin ToolsAbove(tools, s)) =>
             /\ \A s \in tools : ById(s) \/ Reported(s) \/ \E t \in ToolsAbove(tools, s) : ById(t) \/ Reported(t)
             /\ session.toolErrors > 0 <=> \E s \in tools : Failed(s)
        /\ \A c, d \in session.calls :
               ~c.byId /\ c # d /\ c.trace = d.trace /\ c.parent = d.span => c.name # d.name
        /\ Loops(session) => \E c \in session.calls : c.arguments # None
        /\ session.repeats.longest <= session.repeats.repeated + 1
        /\ session.repeats.repeated + Cardinality({c.trace : c \in session.calls}) <= Cardinality(session.calls)

\* A session reports a tool call once, however many layers traced it: spans of
\* one call id are one call, a span without an id is a call or part of one above
\* it of the same tool, and a failure seen at any layer is the call's. It says
\* it loops when that many calls in a row of a trace ask the same.
CallsCountedOnce ==
    \E stored \in {StoredSpans} : \A id \in SessionIds(stored) :
        \E tools \in {ToolsOf(stored, id)}, session \in {Session(stored, id)} : CallsOk(tools, session)

----------------------------------------------------------------------------
(***************************************************************************)
(* Spend and latency.                                                      *)
(***************************************************************************)

SumRows(rows, Field(_)) == OptionSum(LAMBDA g : Field(rows[g]), DOMAIN rows)
AddsUp(rows, grand) ==
    /\ SumRows(rows, LAMBDA r : r.cost) = grand.total.cost
    /\ SumRows(rows, LAMBDA r : r.tokens) = grand.total.tokens
    /\ OrZero(SumRows(rows, LAMBDA r : r.spans)) = grand.total.spans
    /\ OrZero(SumRows(rows, LAMBDA r : r.missing)) = grand.total.missing
    /\ grand.groups = Cardinality(DOMAIN rows)

\* A span of the session was flushed from two segments that no merge has put
\* together, and the hot tier holds no copy to stand for them.
FlushedTwice(id) ==
    \E a, b \in cold : a # b /\ \E s \in a.spans, t \in b.spans :
        SpanOf(s) = SpanOf(t) /\ id \in {s.session, t.session} /\ SpanOf(s) \notin SpansOf(HotSpans)
SaysTheSame(row, session) ==
    row.spans = session.spans /\ row.cost = session.cost /\ row.tokens = session.tokens["total"]
SessionsAgree(rows, sessions) ==
    /\ {sessions[i].id : i \in DOMAIN sessions} \subseteq DOMAIN rows
    /\ \A id \in DOMAIN rows \ {None} :
           (\E i \in DOMAIN sessions : sessions[i].id = id) \/ FlushedTwice(id)
    /\ \A i \in DOMAIN sessions : \E row \in {rows[sessions[i].id]} :
           /\ SaysTheSame(row, sessions[i]) \/ FlushedTwice(sessions[i].id)
           /\ row.spans >= sessions[i].spans
           /\ i > 1 => sessions[i - 1].end >= sessions[i].end

\* A cost that was sent unreadable leaves the span unpriced when it comes in,
\* and priced when it is priced again.
UnreadableCost(s) == s.cost = None /\ HasCostAttribute(s)
RepricedCost(s) == IF UnreadableCost(s) THEN None ELSE Repriced(Table, s)

RankedWell(S, row) ==
    LET UpTo(v) == Cardinality({s \in S : Duration(s) <= v})
        Below(v) == Cardinality({s \in S : Duration(s) < v})
        Holds(v, percent) ==
            /\ \E s \in S : Duration(s) = v
            /\ UpTo(v) * 100 >= percent * Cardinality(S) /\ Below(v) * 100 < percent * Cardinality(S)
    IN  /\ Holds(row.p50, 50) /\ Holds(row.p95, 95) /\ Holds(row.p99, 99)
        /\ \A s \in S : Duration(s) <= row.max
        /\ row.spans = Cardinality(S) /\ row.ttft_known + row.ttft_unknown = row.spans
        /\ row.ttft_known <= Cardinality(SpansOf({s \in S : Ttft(s) # None}))
        /\ row.ttft_known = 0 <=> row.ttft_p50 = None
LatencyAgrees(llm, dimension) ==
    \A timed \in FirstTokens(llm) : \E rows \in {LatencyRows(llm, timed, dimension)} :
        /\ \A g \in DOMAIN rows : RankedWell({s \in llm : s[dimension] = g}, rows[g])
        /\ OrZero(SumRows(rows, LAMBDA r : r.ttft_known)) = Cardinality(SpansOf({s \in llm : Ttft(s) # None}))

\* However spend is grouped the rows add up to the total, unknown costs counted
\* and never taken for nothing, and a session's own report, which reads each
\* span once, says what its row says unless a span of it was flushed from two
\* segments not merged yet, which the row counts twice; pricing what is stored
\* again by the table that priced it changes no cost; every percentile is the
\* duration of a row that many per cent of the rows do not pass, and a span
\* gives one first token however many rows it is.
ReportsAgree ==
    \E view \in {SpansView}, sessions \in {Sessions(StoredSpans)} : \A dimension \in Dimensions :
        /\ \E rows \in {CostRows(view, dimension, StoredCost)}, grand \in {GrandTotal(view, dimension)} :
               /\ AddsUp(rows, grand)
               /\ dimension = "session" => SessionsAgree(rows, sessions)
               /\ rows = CostRows(view, dimension, RepricedCost)
        /\ LatencyAgrees({s \in view : IsLlmSpan(s)}, dimension)

----------------------------------------------------------------------------
(***************************************************************************)
(* Usage.                                                                  *)
(***************************************************************************)

TotalOf(map, Field(_)) == Total(LAMBDA k : Field(map[k]), DOMAIN map)
SumOver(s, Value(_)) == TotalSeq([i \in DOMAIN s |-> Value(s[i])])
LastOnes(s) == IF Len(s) > ScoreWindow THEN SubSeq(s, Len(s) - ScoreWindow + 1, Len(s)) ELSE s

Bounded(u) ==
    /\ Cardinality(DOMAIN u.series) <= MaxSeries /\ Cardinality(DOMAIN u.toolSeries) <= MaxToolSeries
    /\ Cardinality({k[1] : k \in DOMAIN u.series} \ {Other}) <= ProviderCap
    /\ Cardinality({k[2] : k \in DOMAIN u.series} \ {Other}) <= ModelCap
    /\ Cardinality({k[2] : k \in DOMAIN u.toolSeries} \ {Other}) <= ToolCap
    /\ Cardinality(DOMAIN u.scores) <= ScoreNamesCap
LlmCounted(series, llm) ==
    /\ TotalOf(series, LAMBDA e : e.requests) = Len(llm)
    /\ TotalOf(series, LAMBDA e : e.cost) = SumOver(llm, LAMBDA s : OrZero(s.cost))
    /\ TotalOf(series, LAMBDA e : e.without_cost) = Len(SelectSeq(llm, LAMBDA s : s.cost = None))
    /\ TotalOf(series, LAMBDA e : e.ttft.count) = Len(SelectSeq(llm, LAMBDA s : Ttft(s) # None))
    /\ \A i \in DOMAIN TimeBuckets :
           TotalOf(series, LAMBDA e : Cumulative(e.duration)[i]) =
               Len(SelectSeq(llm, LAMBDA s : Duration(s) <= TimeBuckets[i]))
    /\ \A key \in DOMAIN series : Other \notin ToSet(key) =>
           series[key].requests <= Len(SelectSeq(llm, LAMBDA s : <<s.provider, s.model, s.service>> = key))
ToolsCounted(series, tools) ==
    /\ TotalOf(series, LAMBDA e : e.calls) = Len(tools)
    /\ TotalOf(series, LAMBDA e : e.errors) = Len(SelectSeq(tools, Failed))
ScoresCounted(windows, untracked, scored) ==
    /\ \A name \in DOMAIN windows :
           windows[name] = LastOnes([i \in DOMAIN SelectSeq(scored, LAMBDA s : s.name = name) |->
                                        SelectSeq(scored, LAMBDA s : s.name = name)[i].value])
    /\ Len(SelectSeq(scored, LAMBDA s : s.name \notin DOMAIN windows)) = untracked

\* The series never outgrow their caps and lose nothing to them: what is past a
\* cap is counted under Other, so that over all series the counters are those
\* of every span this process committed, copies and all; a tuple that is
\* tracked by name counts only its own spans, every histogram counts the spans
\* at or below a bound, and a window holds the last scores of its name. A
\* process that was sent every row there is once reports what they cost.
UsageIsExact ==
    /\ Bounded(usage)
    /\ LlmCounted(usage.series, SelectSeq(accepted, IsLlmSpan))
    /\ ToolsCounted(usage.toolSeries, SelectSeq(accepted, LAMBDA s : ~IsLlmSpan(s) /\ s.oi = "TOOL"))
    /\ ScoresCounted(usage.scores, usage.untracked,
                     SelectSeq(posted, LAMBDA s : s.value # None /\ s.target[1] # "run"))
    /\ IsInjective(accepted) /\ ToSet(accepted) = StoredSpans /\ Cardinality(SpansView) = Len(accepted) =>
           TotalOf(usage.series, LAMBDA e : e.cost) =
               OrZero(GrandTotal({s \in SpansView : IsLlmSpan(s)}, "model").total.cost)
=============================================================================
