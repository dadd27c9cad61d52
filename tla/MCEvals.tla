------------------------------ MODULE MCEvals ------------------------------
EXTENDS Evals

CONSTANTS n1, n2, n3, n4

Yes == <<"y", "e">>
No == <<"n", "o">>
One == <<"1">>
MCNumbers == (One :> 1) @@ (<<"1", ".">> :> 1) @@ (<<"N">> :> None)
MCJson == {One}

Row(output, expected, context, span) ==
    [input |-> <<"q">>, output |-> output, expected |-> expected, context |-> context,
     span |-> span, trace |-> "t1", meta |-> ("latency_ms" :> 3)]

Faithful == [name |-> None, rail |-> "faithfulness", provider |-> "anthropic", model |-> "m",
             criteria |-> None, cutoff |-> 2]
Relevant == [Faithful EXCEPT !.name = "relevant", !.rail = "answer_relevancy", !.cutoff = 3]
Lax == [Relevant EXCEPT !.name = "lax", !.cutoff = 9]

\* A regression suite, a later one whose first passage and last row changed,
\* and one of every deterministic evaluator with a judge refused in its turn.
Nightly == [evaluators |-> <<[type |-> "exact_match"]>>, judges |-> <<Faithful, Relevant>>,
            items |-> <<Row(Yes, Yes, <<<<"f">>>>, "s1"), Row(No, Yes, None, "s2")>>,
            thresholds |-> ("exact_match" :> 2) @@ ("judge_faithfulness" :> 3)]
Later1 == [Nightly EXCEPT !.items = <<Row(Yes, Yes, <<<<"g">>>>, "s1"), Row(Yes, Yes, <<<<"g">>>>, "s2")>>]
Every == [evaluators |-> <<
              [type |-> "exact_match"], [type |-> "contains", substring |-> None],
              [type |-> "regex", accepts |-> {One}], [type |-> "json_valid"],
              [type |-> "levenshtein", threshold |-> 2], [type |-> "non_empty"],
              [type |-> "contains_all", substrings |-> <<One, <<"y">>>>],
              [type |-> "contains_any", substrings |-> <<One, <<"y">>>>],
              [type |-> "length_bounds", min |-> 1, max |-> None],
              [type |-> "numeric_tolerance", tolerance |-> 0], [type |-> "equals_numeric"],
              [type |-> "json_schema", accepts |-> {One}], [type |-> "latency", max |-> 2],
              [type |-> "cost", max |-> 1]>>,
          judges |-> <<>>,
          items |-> <<Row(One, <<"1", ".">>, None, "s1"), [Row(Yes, <<" ", "y">>, None, None) EXCEPT !.trace = ""]>>,
          thresholds |-> ("latency" :> 2) @@ ("cost" :> 4)]

Ref == <<"evald-blob:", "b1">>
Gone == <<"evald-blob:", "b2">>
Span(id, input, output) == [id |-> id, trace |-> "t2", model |-> "m", input |-> input, output |-> output]
Curated == <<Span("s4", Ref, Yes), Span("s5", <<"q">>, Gone), Span("s6", <<"q">>, None)>>
Refused == [Nightly EXCEPT !.judges = <<Relevant, Lax>>, !.items = RowsFromSpans(Curated, Ref :> <<"q">>, None)]
Configs == (n4 :> Refused) @@ (n1 :> Nightly) @@ (n2 :> Later1) @@ (n3 :> Every)
MCConfigOf == Configs

\* The judge questions of the two suites share a hash.
MCHashOf(canon) == IF canon[2] = "faithfulness" THEN <<"h">> ELSE canon
MCReplies == {9, None}
Label(n, span, value) ==
    [id |-> <<"label", n>>, target |-> <<"span", span>>, name |-> "quality", value |-> value,
     type |-> "numeric", source |-> "human", stats |-> None, ts |-> 0]
Before == <<Label(1, "s1", 0), Label(2, "s2", 0)>>
MCEarlier == Before
MCLabels == {Label(3, "s1", 4)}

ASSUME MCNames == AggIsFree
=============================================================================
