------------------------------ MODULE Pricing ------------------------------
(***************************************************************************)
(* Deriving the cost of a span (src/src/price.rs): price tables and how a  *)
(* file is laid over the compiled-in one, the lookup of a model id, how    *)
(* the counts of a span are read, and the cost.                            *)
(*                                                                         *)
(* A rate is a whole number of the smallest unit; the rounding to 1e-12    *)
(* USD of the code is then exact. A model id is a record of what lookup    *)
(* takes apart: path (leading provider/ segments), region (a Bedrock       *)
(* prefix or None), stem, versions (trailing date or version segments) and *)
(* at (an @date or None); letter case is abstracted.                       *)
(***************************************************************************)
EXTENDS Spans

RateFields == {"input", "output", "cache_read", "cache_write"}

\* parse_entry: a price needs an input or an output rate; a rate above a
\* threshold becomes a field of the tier of that threshold, ascending.
ParseEntry(e) ==
    LET Field(f) == IF f \in DOMAIN e.rates THEN e.rates[f] ELSE None
        Above(n) == [f \in RateFields |-> IF <<f, n>> \in DOMAIN e.above THEN e.above[<<f, n>>] ELSE None]
        thresholds == SetToSortSeq({x[2] : x \in DOMAIN e.above}, <)
    IN  IF {Field("input"), Field("output")} = {None} THEN None
        ELSE [base |-> [f \in RateFields |->
                            IF f \in {"input", "output"} THEN OrZero(Field(f)) ELSE Field(f)],
              reasoning |-> Field("reasoning"),
              tiers |-> [i \in DOMAIN thresholds |->
                            [above |-> thresholds[i], rates |-> Above(thresholds[i])]]]

\* PriceTable::from_json: entries without a price are skipped.
FromJson(file) ==
    [version |-> IF None \in {file.commit, file.date} THEN <<"sha256", file.entries>>
                 ELSE <<file.commit, file.date>>,
     as_of |-> file.date,
     models |-> LET priced == {m \in DOMAIN file.entries : ParseEntry(file.entries[m]) # None}
                IN  [m \in priced |-> ParseEntry(file.entries[m])]]

Later(d, e) == IF d = None THEN e ELSE IF e = None \/ d > e THEN d ELSE e

\* load_over_baseline: the file wins for any model it names; without a date it
\* is as old as its last edit.
LoadOver(baseline, file) ==
    LET over == FromJson(file)
    IN  [version |-> <<over.version, baseline.version>>,
         as_of |-> Later(baseline.as_of, OrElse(over.as_of, file.mtime)),
         models |-> over.models @@ baseline.models]

\* The keys PriceTable::lookup tries, in order: the id as it is; then, for each
\* number of leading segments dropped, without its date and with or without
\* its region, at most four trailing versions trimmed one at a time.
Trims(id) ==
    [n \in 1 .. (IF Len(id.versions) < 4 THEN Len(id.versions) ELSE 4) + 1 |->
        [id EXCEPT !.versions = SubSeq(@, 1, Len(@) - n + 1)]]
Candidates(id) ==
    LET Rest(n) == [id EXCEPT !.path = SubSeq(@, n, Len(@)), !.at = None]
        Tried(rest) == Trims(rest) \o (IF rest.path = <<>> THEN Trims([rest EXCEPT !.region = None]) ELSE <<>>)
    IN  <<id>> \o FlattenSeq([n \in 1 .. Len(id.path) + 1 |-> Tried(Rest(n))])

Lookup(table, id) ==
    LET tried == Candidates(id)
        i == SelectInSeq(tried, LAMBDA k : k \in DOMAIN table.models)
    IN  IF i = 0 THEN None ELSE table.models[tried[i]]

\* The base rates overlaid by every tier the request passes, in order.
RatesFor(price, total) ==
    FoldLeft(LAMBDA r, t : IF total > t.above THEN [f \in RateFields |-> OrElse(t.rates[f], r[f])] ELSE r,
             price.base, price.tiers)

Minus(x, y) == IF x > y THEN x - y ELSE 0

Default == [cache_excl |-> FALSE, reasoning_add |-> FALSE]

\* The faulty variant takes every count as inclusive.
AssumeInclusive(t, total) == Default

\* detect_basis: what the reported total tells of the counts; when it tells
\* nothing, cached tokens cannot be part of a smaller input count.
DetectBasis(t, total) ==
    LET sum == OrZero(t.prompt) + OrZero(t.completion)
        cache == OrZero(t.cache_read) + OrZero(t.cache_write)
        r == OrZero(t.reasoning)
        known == total # None /\ total >= sum
        extra == total - sum
    IN  CASE known /\ extra = 0 -> Default
          [] known /\ cache # r /\ cache > 0 /\ extra = cache -> [Default EXCEPT !.cache_excl = TRUE]
          [] known /\ cache # r /\ r > 0 /\ extra = r -> [Default EXCEPT !.reasoning_add = TRUE]
          [] known /\ cache > 0 /\ r > 0 /\ extra = cache + r ->
                 [cache_excl |-> TRUE, reasoning_add |-> TRUE]
          [] OTHER -> [Default EXCEPT !.cache_excl = cache > 0 /\ OrZero(t.prompt) < cache]

\* price_tokens
PriceTokens(price, t, b) ==
    LET prompt == OrZero(t.prompt)
        cached == OrZero(t.cache_read) + OrZero(t.cache_write)
        r == OrZero(t.reasoning)
        rates == RatesFor(price, IF b.cache_excl THEN prompt + cached ELSE prompt)
    IN  (IF b.cache_excl THEN prompt ELSE Minus(prompt, cached)) * rates.input
        + OrZero(t.cache_read) * OrElse(rates.cache_read, rates.input)
        + OrZero(t.cache_write) * OrElse(rates.cache_write, rates.input)
        + (IF b.reasoning_add THEN OrZero(t.completion) ELSE Minus(OrZero(t.completion), r)) * rates.output
        + r * OrElse(price.reasoning, rates.output)

\* The total as reported, never the derived one, and only as a JSON integer.
ReportedTotal(n) ==
    FirstOf(LAMBDA a, k : IF k \in a.text THEN None ELSE AttrNum(a, k), n.raw,
            <<"llm.token_count.total", "gen_ai.usage.total_tokens">>)
HasCostAttribute(n) == Carries(n.raw, ToSet(CostAttributes))

\* Why a span is priced, and what it costs; None when it is left as it is.
Derivable(table, n) ==
    /\ n.cost = None /\ n.model # None /\ {n.tokens.prompt, n.tokens.completion} # {None}
    /\ Lookup(table, n.model) # None /\ ~HasCostAttribute(n)
BasisOf(n) == DetectBasis(n.tokens, ReportedTotal(n))

\* Basis::stamp
Stamp(b) ==
    CASE b = Default -> None
      [] b.cache_excl /\ b.reasoning_add -> "cache_excl,reasoning_add"
      [] b.cache_excl -> "cache_excl"
      [] OTHER -> "reasoning_add"

Without(a, k) == [a EXCEPT !.str = [j \in DOMAIN @ \ {k} |-> @[j]],
                           !.num = [j \in DOMAIN @ \ {k} |-> @[j]], !.other = @ \ {k}]

\* price::apply: a basis the sender stamped is dropped with the derivation.
Apply(table, n) ==
    IF ~Derivable(table, n) THEN n
    ELSE LET basis == BasisOf(n)
             bare == Without(n.raw, "evald.cost.basis")
         IN  [n EXCEPT !.cost = PriceTokens(Lookup(table, n.model), n.tokens, basis),
                       !.raw = IF basis = Default THEN bare
                               ELSE WithStr(bare, "evald.cost.basis", Stamp(basis))]
=============================================================================
