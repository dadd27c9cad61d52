------------------------------ MODULE Scoring ------------------------------
(***************************************************************************)
(* What `evald eval` computes, as operators: the deterministic evaluators  *)
(* and the aggregate of a run (src/src/eval.rs), the judges' prompts,      *)
(* cache keys and replies (judge.rs), Welch's test (stats.rs), the         *)
(* comparison of two runs, suites (suite.rs), calibration (calibrate.rs),  *)
(* the JUnit report (junit.rs) and datasets from spans (dataset.rs).       *)
(*                                                                         *)
(* A score of 1.0 is the integer Scale. Means and variances are kept as    *)
(* the integers they are quotients of, so every comparison of f64s is an   *)
(* exact one of products. A text is a sequence of characters.              *)
(***************************************************************************)
EXTENDS Spans, ScoreStore, Integers

CONSTANTS
    Scale,      \* a score of 1.0
    Numbers,    \* the texts that parse as an f64, and to what: an Int, or None
                \* for NaN
    Json,       \* the texts that parse as JSON
    NanosPerMs, \* the unit of latency_ms in that of duration_ns
    CritSq      \* the square of the critical value of t at the alpha in use

ASSUME ScoringAssumption == Scale \in Nat \ {0} /\ NanosPerMs \in Nat \ {0} /\ CritSq \in Nat

Plus(a, b) == a + b
SumOf(s) == FoldLeft(Plus, 0, s)
Squares(s) == [i \in DOMAIN s |-> s[i] * s[i]]
Abs(x) == IF x < 0 THEN -x ELSE x

----------------------------------------------------------------------------
(***************************************************************************)
(* Texts.                                                                  *)
(***************************************************************************)

Blank == " "
Trim(text) ==
    LET solid == {i \in DOMAIN text : text[i] # Blank}
    IN  IF solid = {} THEN <<>>
        ELSE SubSeq(text, CHOOSE i \in solid : \A j \in solid : i <= j,
                          CHOOSE i \in solid : \A j \in solid : i >= j)

Has(text, part) == \E i \in 0 .. Len(text) - Len(part) : SubSeq(text, i + 1, i + Len(part)) = part

\* levenshtein: the cell (i, j) of the table the two rows sweep.
Distance(a, b) ==
    LET d[i \in 0 .. Len(a), j \in 0 .. Len(b)] ==
            IF i = 0 THEN j
            ELSE IF j = 0 THEN i
            ELSE LET swap == d[i - 1, j - 1] + IF a[i] = b[j] THEN 0 ELSE 1
                 IN  CHOOSE m \in {d[i - 1, j] + 1, d[i, j - 1] + 1, swap} :
                         m <= d[i - 1, j] + 1 /\ m <= d[i, j - 1] + 1 /\ m <= swap
    IN  d[Len(a), Len(b)]

Similarity(a, b) ==
    LET longest == IF Len(a) > Len(b) THEN Len(a) ELSE Len(b)
    IN  IF longest = 0 THEN Scale ELSE Scale - (Scale * Distance(a, b)) \div longest

----------------------------------------------------------------------------
(***************************************************************************)
(* The deterministic evaluators (Tier 1). A spec is a record with a type,  *)
(* which is also its name, and the parameters of that type; an outcome is  *)
(* None when the item lacks what the evaluator needs.                      *)
(***************************************************************************)

Graded(value, passed) == [value |-> value, passed |-> passed]
Verdict(pass) == Graded(IF pass THEN Scale ELSE 0, pass)
Present(spec, item) == Len(SelectSeq(spec.substrings, LAMBDA s : Has(item.output, s)))

\* metadata_f64: None stands for a value that is no finite number, too.
Meta(item, key) ==
    IF key \in DOMAIN item.meta THEN item.meta[key] ELSE None
Nanos(item) ==
    IF Meta(item, "latency_ms") # None THEN Meta(item, "latency_ms") * NanosPerMs
    ELSE Meta(item, "duration_ns")

\* compile: parameters that are refused before any item is scored.
Compiles(spec) ==
    CASE spec.type = "regex" -> spec.accepts # None
      [] spec.type = "json_schema" -> spec.accepts # None
      [] spec.type \in {"contains_all", "contains_any"} -> spec.substrings # <<>>
      [] spec.type = "length_bounds" ->
             /\ spec.min # None \/ spec.max # None
             /\ spec.min # None /\ spec.max # None => spec.min <= spec.max
      [] spec.type = "numeric_tolerance" -> spec.tolerance >= 0
      [] spec.type \in {"latency", "cost"} -> spec.max >= 0
      [] OTHER -> TRUE

\* Evaluators that look at the output alone.
OutputScore(spec, output) ==
    CASE spec.type = "regex" -> Verdict(output \in spec.accepts)
      [] spec.type = "json_valid" -> Verdict(output \in Json)
      [] spec.type = "json_schema" -> Verdict(output \in Json /\ output \in spec.accepts)
      [] spec.type = "non_empty" -> Verdict(Trim(output) # <<>>)
      [] spec.type = "length_bounds" ->
             Verdict(/\ spec.min # None => Len(output) >= spec.min
                     /\ spec.max # None => Len(output) <= spec.max)

\* Evaluators that compare it with the reference, if there is one.
ReferenceScore(spec, output, expected) ==
    CASE expected = None -> None
      [] spec.type = "exact_match" -> Verdict(Trim(output) = Trim(expected))
      [] spec.type = "levenshtein" ->
             LET value == Similarity(output, expected) IN Graded(value, value >= spec.threshold)
      [] OTHER ->
             LET numbers == {Trim(output), Trim(expected)} \subseteq DOMAIN Numbers
                 a == Numbers[Trim(output)]
                 b == Numbers[Trim(expected)]
             IN  IF ~numbers THEN None
                 ELSE IF spec.type = "equals_numeric" THEN Verdict(a = b)
                 ELSE Verdict(None \notin {a, b} /\ Abs(a - b) <= spec.tolerance)

\* Evaluators of listed substrings and of the span's own facts.
FactScore(spec, item) ==
    CASE spec.type = "contains" ->
             LET needle == OrElse(spec.substring, item.expected)
             IN  IF needle = None THEN None ELSE Verdict(Has(item.output, needle))
      [] spec.type = "contains_all" ->
             LET n == Present(spec, item)
             IN  Graded((Scale * n) \div Len(spec.substrings), n = Len(spec.substrings))
      [] spec.type = "contains_any" -> Verdict(Present(spec, item) > 0)
      [] spec.type = "latency" ->
             IF Nanos(item) = None THEN None ELSE Verdict(Nanos(item) <= spec.max * NanosPerMs)
      [] spec.type = "cost" ->
             IF Meta(item, "cost_usd") = None THEN None ELSE Verdict(Meta(item, "cost_usd") <= spec.max)

OutputTypes == {"regex", "json_valid", "json_schema", "non_empty", "length_bounds"}
ReferenceTypes == {"exact_match", "levenshtein", "numeric_tolerance", "equals_numeric"}

Evaluate(spec, item) ==
    IF spec.type \in OutputTypes THEN OutputScore(spec, item.output)
    ELSE IF spec.type \in ReferenceTypes THEN ReferenceScore(spec, item.output, item.expected)
    ELSE FactScore(spec, item)

----------------------------------------------------------------------------
(***************************************************************************)
(* Judges (Tier 3).                                                        *)
(***************************************************************************)

JudgeName(spec) == IF spec.name # None THEN spec.name ELSE "judge_" \o spec.rail
JudgeValid(spec) ==
    /\ spec.cutoff \in 0 .. Scale
    /\ spec.rail = "g_eval" => spec.criteria # None /\ Trim(spec.criteria) # <<>>

\* The fields of an item a rail needs besides its output.
Needs(rail) ==
    CASE rail = "qa_correctness" -> {"input", "expected"}
      [] rail = "answer_relevancy" -> {"input"}
      [] rail \in {"faithfulness", "hallucination"} -> {"context"}
      [] rail = "context_precision" -> {"input", "context"}
      [] rail = "context_recall" -> {"expected", "context"}
      [] OTHER -> {}

\* build_prompt has a prompt for the item; passages are joined untrimmed.
Filled(item, field) ==
    IF item[field] = None THEN FALSE
    ELSE IF field = "context" THEN Len(item[field]) > 1 \/ \E c \in ToSet(item[field]) : c # <<>>
    ELSE Trim(item[field]) # <<>>
Applicable(spec, item) == \A field \in {"output"} \cup Needs(spec.rail) : Filled(item, field)

\* build_canon and build_prompt: an absent field and an empty one are the same.
Given(x) == IF x = None THEN <<>> ELSE x
Canon(spec, item) ==
    <<spec.provider, spec.rail, spec.model, Given(spec.criteria), Given(item.input),
      item.output, Given(item.expected), Given(item.context)>>

\* parse_score: None is a reply without a score, one beyond the scale is clamped.
ParseReply(reply) ==
    CASE reply = None -> None [] reply < 0 -> 0 [] reply > Scale -> Scale [] OTHER -> reply

\* A reply without a score fails the item, it does not skip it.
JudgeOutcome(spec, value) ==
    IF value = None THEN Verdict(FALSE) ELSE Graded(value, value >= spec.cutoff)

----------------------------------------------------------------------------
(***************************************************************************)
(* A run: outcomes to scores and aggregates, and the CI gate.              *)
(***************************************************************************)

Attached(item) == {item.span, item.trace} \ {None, ""} # {}
TargetFor(item, run) ==
    IF item.span \notin {None, ""} THEN <<"span", item.span>>
    ELSE IF item.trace \notin {None, ""} THEN <<"trace", item.trace>>
    ELSE <<"run", run>>

ItemId(run, name, i) == <<run, name, ToString(i)>>
AggregateId(run, name) == <<run, "agg", name>>

\* The faulty variant scores an item that was skipped as a failed one.
SkipsFail(outcomes) ==
    [i \in DOMAIN outcomes |-> IF outcomes[i] = None THEN Verdict(FALSE) ELSE outcomes[i]]
Counted(outcomes) == SelectSeq(outcomes, LAMBDA o : o # None)

\* The sufficient statistics: the mean is sum / n, the unbiased variance
\* (n * squares - sum^2) / (n * (n - 1)).
StatsOf(outcomes) ==
    LET scored == Counted(outcomes)
        values == [i \in DOMAIN scored |-> scored[i].value]
    IN  [n |-> Len(scored), passes |-> Len(SelectSeq(scored, LAMBDA o : o.passed)),
         sum |-> SumOf(values), squares |-> SumOf(Squares(values))]

\* mean, 0.0 of nothing, against the threshold in units of Scale.
Divisor(n) == IF n = 0 THEN 1 ELSE n
Met(stats, threshold) == stats.n = 0 \/ threshold = None \/ stats.sum >= threshold * stats.n

ThresholdFor(thresholds, name) == IF name \in DOMAIN thresholds THEN thresholds[name] ELSE None

AttachedAt(outcomes, items, i) == IF outcomes[i] # None /\ Attached(items[i]) THEN <<i>> ELSE <<>>

\* finalize_evaluator: the scores it appends, the aggregate last, and the row
\* of the report.
ItemScores(name, outcomes, items, run, ts) ==
    LET attached == FoldLeftDomain(LAMBDA got, i : got \o AttachedAt(outcomes, items, i), <<>>, items)
    IN  [k \in DOMAIN attached |->
            [id |-> ItemId(run, name, attached[k]), target |-> TargetFor(items[attached[k]], run),
             name |-> name, value |-> outcomes[attached[k]].value, type |-> "numeric",
             source |-> "eval", stats |-> None, ts |-> ts]]
Finalize(name, outcomes, items, run, threshold, ts) ==
    LET stats == StatsOf(outcomes)
    IN  [row |-> [name |-> name, stats |-> stats, skipped |-> Len(items) - stats.n,
                  threshold |-> threshold, met |-> Met(stats, threshold)],
         scores |-> Append(ItemScores(name, outcomes, items, run, ts),
                           [id |-> AggregateId(run, name), target |-> <<"run", run>>, name |-> name,
                            value |-> stats.sum, type |-> "numeric", source |-> "eval",
                            stats |-> stats, ts |-> ts])]

\* run_eval, in the order of the config.
Tier1(config, items, run, ts) ==
    [k \in DOMAIN config.evaluators |->
        LET spec == config.evaluators[k]
        IN  Finalize(spec.type, [i \in DOMAIN items |-> Evaluate(spec, items[i])], items, run,
                     ThresholdFor(config.thresholds, spec.type), ts)]

Distinct(names) == \A i, j \in DOMAIN names : i # j => names[i] # names[j]
NamesOf(config) ==
    [k \in DOMAIN config.evaluators |-> config.evaluators[k].type]
        \o [k \in DOMAIN config.judges |-> JudgeName(config.judges[k])]

GatePassed(rows) == \A i \in DOMAIN rows : rows[i].met

----------------------------------------------------------------------------
(***************************************************************************)
(* Comparing two runs.                                                     *)
(***************************************************************************)

\* run_aggregates of the scores that target the run.
AggregatesOf(scores, run) ==
    LET mine == {s \in scores : s.id[1] = run /\ s.id[2] = "agg"}
    IN  [name \in {s.name : s \in mine} |-> (CHOOSE s \in mine : s.name = name).stats]

\* b's mean minus a's, times both divisors.
Delta(a, b) == b.sum * Divisor(a.n) - a.sum * Divisor(b.n)
Regressed(a, b, tolerance) == Delta(a, b) < -(tolerance * Divisor(a.n) * Divisor(b.n))

\* welch_t_test gives no interval for a sample of less than two, nor for two
\* constant samples that differ; otherwise the upper end of the interval on the
\* difference is at least 0 when the half width, t * se, covers the drop.
Spread(s) == s.n * s.squares - s.sum * s.sum
Untestable(a, b) ==
    \/ a.n < 2 \/ b.n < 2
    \/ Spread(a) = 0 /\ Spread(b) = 0 /\ Delta(a, b) # 0
ProvenNoise(a, b) ==
    /\ ~Untestable(a, b)
    /\ \/ Delta(a, b) >= 0
       \/ LET da == a.n * a.n * (a.n - 1)
              db == b.n * b.n * (b.n - 1)
          IN  CritSq * (Spread(a) * db + Spread(b) * da) * (a.n * b.n) * (a.n * b.n)
                  >= Delta(a, b) * Delta(a, b) * da * db

\* The faulty variant forgives what it could not test.
GatesTestedOnly(a, b, tolerance, significance) ==
    Regressed(a, b, tolerance) /\ (significance => ~ProvenNoise(a, b) /\ ~Untestable(a, b))
Gates(a, b, tolerance, significance) ==
    Regressed(a, b, tolerance) /\ (significance => ~ProvenNoise(a, b))

\* The gate of `eval compare --fail-on-regression`: evaluators of one side do
\* not count. None of one side is an error.
Compared(aggA, aggB, tolerance, significance) ==
    IF DOMAIN aggA = {} \/ DOMAIN aggB = {} THEN "error"
    ELSE IF \E name \in DOMAIN aggA \cap DOMAIN aggB :
                Gates(aggA[name], aggB[name], tolerance, significance)
         THEN "fail" ELSE "pass"

----------------------------------------------------------------------------
(***************************************************************************)
(* Suites: epsilon aside, a rate meets its minimum, both in units of Scale.*)
(***************************************************************************)

CasePassed(passed, total, minPass) == total > 0 /\ passed * Scale >= minPass * total
CaseLoads(case) ==
    /\ case.items # <<>>
    /\ Distinct([k \in DOMAIN case.evaluators |-> case.evaluators[k].type])
    /\ \A k \in DOMAIN case.evaluators : Compiles(case.evaluators[k])
Repeats(suite) == IF suite.repeat = 0 THEN 1 ELSE suite.repeat
SuiteValid(suite) ==
    /\ suite.cases # <<>> /\ suite.minPassRate \in 0 .. Scale /\ suite.minPass \in 0 .. Scale
    /\ \A k \in DOMAIN suite.cases : CaseLoads(suite.cases[k])

\* run_suite: every case runs repeat times, what it scores is thrown away.
SuiteCases(suite) ==
    [k \in DOMAIN suite.cases |->
        LET case == suite.cases[k]
            results == Tier1(case, case.items, None, 0)
            rows == [j \in DOMAIN results |-> results[j].row]
        IN  CasePassed(IF GatePassed(rows) THEN Repeats(suite) ELSE 0, Repeats(suite), suite.minPass)]
SuitePassed(cases, minPassRate) ==
    Len(SelectSeq(cases, LAMBDA p : p)) * Scale >= minPassRate * Len(cases)

----------------------------------------------------------------------------
(***************************************************************************)
(* Calibration of a judge against human labels.                            *)
(***************************************************************************)

\* collect_pairs over the scores, newest first: the first value of a target
\* stands, and the targets with both are paired.
NewestValues(scores) ==
    FoldLeft(LAMBDA seen, s : seen @@ (s.target :> s.value), <<>>, scores)
Pairs(scores, judge, human) ==
    LET items == SelectSeq(scores, LAMBDA s : s.target[1] # "run" /\ s.value # None)
        judged == NewestValues(SelectSeq(items, LAMBDA s : s.source = "eval" /\ s.name = judge))
        labelled == NewestValues(SelectSeq(items, LAMBDA s : s.source = "human" /\ human \in {None, s.name}))
        order == Listed(DOMAIN judged \cap DOMAIN labelled)
    IN  [k \in DOMAIN order |-> [judge |-> judged[order[k]], human |-> labelled[order[k]]]]

\* calibrate: n * bias, n * mae, the numerator and denominator of the slope.
\* The bias is significant when its interval leaves 0 out.
Calibration(pairs, threshold) ==
    LET n == Len(pairs)
        j == [i \in DOMAIN pairs |-> pairs[i].judge]
        h == [i \in DOMAIN pairs |-> pairs[i].human]
        d == [i \in DOMAIN pairs |-> j[i] - h[i]]
        bias == SumOf(d)
        error == SumOf([i \in DOMAIN d |-> Abs(d[i])])
        spread == n * SumOf(Squares(j)) - SumOf(j) * SumOf(j)
        significant == bias * bias * (n - 1) > CritSq * (n * SumOf(Squares(d)) - bias * bias)
    IN  [n |-> n, bias |-> bias, error |-> error, significant |-> significant,
         slope |-> IF spread = 0 THEN <<0, 1>>
                   ELSE <<n * SumOf([i \in DOMAIN d |-> j[i] * h[i]]) - SumOf(j) * SumOf(h), spread>>,
         recalibrate |-> error > threshold * n \/ (Abs(bias) > threshold * n /\ significant)]

\* calibrate_command's verdict with --fail-on-divergence.
Calibrated(pairs, threshold) ==
    Len(pairs) >= 2 => ~Calibration(pairs, threshold).recalibrate

----------------------------------------------------------------------------
(***************************************************************************)
(* The JUnit report of a command: the outcome of each of its cases. Any    *)
(* command that errors has one case that says so.                          *)
(***************************************************************************)

ErrorReport == <<"error">>
RunReport(rows) ==
    [k \in DOMAIN rows |-> CASE rows[k].stats.n = 0 -> "skipped" [] ~rows[k].met -> "fail" [] OTHER -> "pass"]
CompareReport(aggA, aggB, tolerance, significance) ==
    LET names == Listed(DOMAIN aggA \cup DOMAIN aggB)
    IN  [k \in DOMAIN names |->
            CASE names[k] \notin DOMAIN aggA \cap DOMAIN aggB -> "skipped"
              [] Gates(aggA[names[k]], aggB[names[k]], tolerance, significance) -> "fail"
              [] OTHER -> "pass"]
SuiteReport(cases, passed) ==
    [k \in DOMAIN cases |-> IF cases[k] THEN "pass" ELSE "fail"] \o <<IF passed THEN "pass" ELSE "fail">>

----------------------------------------------------------------------------
(***************************************************************************)
(* `evald dataset from-spans`: rows of the spans that captured an output,  *)
(* a blob reference resolved, one that no longer resolves an absent field. *)
(***************************************************************************)

IsBlobRef(text) == text # None /\ Len(text) > 0 /\ Head(text) = "evald-blob:"
Resolve(blobs, text) ==
    IF ~IsBlobRef(text) THEN text ELSE IF text \in DOMAIN blobs THEN blobs[text] ELSE None

RowOf(span, blobs) ==
    [input |-> Resolve(blobs, span.input), output |-> Resolve(blobs, span.output), expected |-> None,
     context |-> None, span |-> span.id, trace |-> span.trace, meta |-> <<>>]
RowsFromSpans(spans, blobs, model) ==
    LET rows == [k \in DOMAIN spans |-> RowOf(spans[k], blobs)]
        kept == SelectSeq([k \in DOMAIN spans |-> k],
                          LAMBDA k : /\ model \in {None, spans[k].model}
                                     /\ rows[k].output \notin {None, <<>>})
    IN  [k \in DOMAIN kept |-> rows[kept[k]]]
=============================================================================
