----------------------------- MODULE Redaction -----------------------------
(***************************************************************************)
(* The redactor (src/src/redact.rs): how a policy is compiled into one     *)
(* alternation of rules, and how it rewrites a text. A text is a sequence  *)
(* of words; a pattern is the set of word runs it matches, of which an     *)
(* alternation takes the leftmost and, at one place, that of the first     *)
(* rule.                                                                   *)
(***************************************************************************)
EXTENDS Naturals, Sequences, FiniteSets, SequencesExt

CONSTANTS
    Pattern,   \* the runs each rule matches
    Inner,     \* capture groups a rule's own pattern brings
    DigitsOf   \* the digits of each word, in order

\* Class::ALL, the order build puts the selected classes in; custom rules follow.
Classes == <<"email", "credit_card", "ssn", "phone", "ip", "api_key", "jwt">>
RulesOf(selected, custom) == SelectSeq(Classes, LAMBDA c : c \in selected) \o custom

\* The wrapping group of the i-th rule: each alternative before it brings its
\* own wrapper and its inner groups. The faulty variant counts wrappers only.
NumbersRules(rules, i) == i
GroupOf(rules, i) ==
    FoldLeft(LAMBDA next, rule : next + 1 + Inner[rule], 1, SubSeq(rules, 1, i - 1))

\* luhn_valid: every second digit from the right is doubled.
LuhnValid(ds) ==
    LET Digit(i) ==
            LET d == ds[Len(ds) + 1 - i]
            IN  IF i % 2 = 1 THEN d ELSE IF 2 * d > 9 THEN 2 * d - 9 ELSE 2 * d
    IN  Len(ds) \in 13 .. 19 /\ FoldLeft(LAMBDA sum, i : sum + Digit(i), 0, [i \in DOMAIN ds |-> i]) % 10 = 0
IsCard(run) == LuhnValid(FlattenSeq([i \in DOMAIN run |-> DigitsOf[run[i]]]))

\* Where a rule matches at a place: its longest run there.
EndsAt(rule, text, from) == {to \in from .. Len(text) : SubSeq(text, from, to) \in Pattern[rule]}

\* The next match of the alternation at or after a place: the groups that
\* captured are the wrapper of the rule and its inner ones.
NextHit(rules, text, from) ==
    LET starts == {s \in from .. Len(text) : \E i \in DOMAIN rules : EndsAt(rules[i], text, s) # {}}
        start == Min(starts)
        i == SelectInSeq(rules, LAMBDA r : EndsAt(r, text, start) # {})
        wrapper == FoldLeft(LAMBDA n, r : n + 1 + Inner[r], 1, SubSeq(rules, 1, i - 1))
    IN  IF starts = {} THEN {}
        ELSE {[start |-> start, end |-> Max(EndsAt(rules[i], text, start)),
               groups |-> wrapper .. wrapper + Inner[rules[i]]]}

\* captures_iter: matches do not overlap.
Hits(rules, text) ==
    LET upTo[n \in 0 .. Len(text)] ==
            IF n = 0 THEN <<>>
            ELSE LET before == upTo[n - 1]
                     from == IF before = <<>> THEN 1 ELSE before[Len(before)].end + 1
                     hit == NextHit(rules, text, from)
                 IN  before \o SetToSeq(hit)
    IN  upTo[Len(text)]

\* Action::Redact, Hash and Drop; a hash tells equal values apart from others.
Replacement(label, run, action) ==
    CASE action = "redact" -> <<<<"REDACTED", label>>>>
      [] action = "hash" -> <<<<label, run>>>>
      [] action = "drop" -> <<>>

\* Redactor::scrub: the rewritten text and the hits of each rule. The rule of
\* a hit is the first whose recorded group captured; a hit of the card rule
\* that fails the checksum is left alone, with all it spans.
Scrub(policy, text) ==
    LET rules == policy.rules
        Step(acc, hit) ==
            LET run == SubSeq(text, hit.start, hit.end)
                i == SelectInSeq([j \in DOMAIN rules |-> GroupOf(rules, j)], LAMBDA g : g \in hit.groups)
            IN  IF i = 0 \/ (rules[i] = "credit_card" /\ ~IsCard(run)) THEN acc
                ELSE [clean |-> acc.clean \o SubSeq(text, acc.last, hit.start - 1)
                                    \o Replacement(rules[i], run, policy.action),
                      last |-> hit.end + 1, counts |-> [acc.counts EXCEPT ![rules[i]] = @ + 1]]
        done == FoldLeft(Step, [clean |-> <<>>, last |-> 1, counts |-> [r \in ToSet(rules) |-> 0]],
                         Hits(rules, text))
    IN  [text |-> done.clean \o SubSeq(text, done.last, Len(text)), counts |-> done.counts]

\* Without a rule there is no policy, and nothing is touched.
Clean(policy, text) == IF policy.rules = <<>> THEN text ELSE Scrub(policy, text).text

----------------------------------------------------------------------------

\* What the redactor owes a reader of the text: with cards that are no cards
\* as bounds no match crosses, every run a rule matches is gone, and every
\* word that is in no such run is still there, in its order.
RunsOf(rules, text) ==
    {run \in (1 .. Len(text)) \X (1 .. Len(text)) :
        run[1] <= run[2] /\ \E i \in DOMAIN rules : SubSeq(text, run[1], run[2]) \in Pattern[rules[i]]}
FalseCards(rules, text) ==
    {run \in (1 .. Len(text)) \X (1 .. Len(text)) :
        /\ "credit_card" \in ToSet(rules) /\ run[1] <= run[2]
        /\ SubSeq(text, run[1], run[2]) \in Pattern["credit_card"] /\ ~IsCard(SubSeq(text, run[1], run[2]))}
Exact(policy, text, clean) ==
    LET spared == UNION {run[1] .. run[2] : run \in FalseCards(policy.rules, text)}
        owed == {run \in RunsOf(policy.rules, text) : (run[1] .. run[2]) \cap spared = {}}
        hidden == UNION {run[1] .. run[2] : run \in owed}
        Plain(s) == SelectSeq(s, LAMBDA word : word[1] \notin {"REDACTED"} \cup ToSet(policy.rules))
        kept == SelectSeq([i \in DOMAIN text |-> <<i, text[i]>>], LAMBDA p : p[1] \notin hidden)
    IN  Plain(clean) = [i \in DOMAIN kept |-> kept[i][2]]
=============================================================================
