--------------------------- MODULE TelemetryProofs ---------------------------
(***************************************************************************)
(* Proofs about Telemetry. What is counted of a span never depends on what *)
(* was remembered of its session (FactsAreTheRecords), and what a request  *)
(* remembers itself is exact, whatever other requests, restarts and the    *)
(* store do meanwhile (RequestIsExact).                                    *)
(***************************************************************************)
EXTENDS Telemetry, FoldFacts, SequenceTheorems

----------------------------------------------------------------------------
(***************************************************************************)
(* The first key that reads as something.                                  *)
(***************************************************************************)

\* A set of indices that is not empty has a least member.
LEMMA MinOfIndices ==
    ASSUME NEW n \in Nat, NEW T \in SUBSET (1 .. n), T # {}
    PROVE  Min(T) \in T /\ \A y \in T : Min(T) <= y
<1>1. T \subseteq Nat /\ T # {}
  OBVIOUS
<1>2. PICK k \in T : \A j \in T : <<j, k>> \notin OpToRel(<, Nat)
  BY <1>1, NatLessThanWellFounded, WFMin
<1>3. \A j \in T : ~(j < k)
  BY <1>1, <1>2 DEF OpToRel
<1>4. \A j \in T : k <= j
  BY <1>1, <1>3
<1> QED
  BY <1>4 DEF Min

\* Two records of attributes that read alike on some keys have the same first
\* text, and the same first count, among them.
LEMMA SameFirstStr ==
    ASSUME NEW a, NEW b, NEW keys, Len(keys) \in Nat,
           \A i \in 1 .. Len(keys) : AttrStr(a, keys[i]) = AttrStr(b, keys[i])
    PROVE  FirstStr(a, keys) = FirstStr(b, keys)
<1> DEFINE I(x) == {i \in 1 .. Len(keys) : AttrStr(x, keys[i]) # None}
           First(x) == IF I(x) = {} THEN None ELSE AttrStr(x, keys[Min(I(x))])
<1>1. ASSUME NEW x, I(x) # {} PROVE Min(I(x)) \in 1 .. Len(keys) /\ Min(I(x)) # 0
  <2>1. I(x) \in SUBSET (1 .. Len(keys))
    OBVIOUS
  <2>2. Min(I(x)) \in I(x)
    <3> HIDE DEF I
    <3> QED
      BY <1>1, <2>1, MinOfIndices
  <2> QED
    BY <2>1, <2>2
<1>2. ASSUME NEW x PROVE FirstStr(x, keys) = First(x)
  <2>1. CASE I(x) = {}
    BY <2>1 DEF FirstStr, FirstOf, SelectInSeq
  <2>2. CASE I(x) # {}
    <3>1. Min(I(x)) # 0
      BY <1>1, <2>2
    <3> QED
      BY <2>2, <3>1 DEF FirstStr, FirstOf, SelectInSeq
  <2> QED
    BY <2>1, <2>2
<1>3. I(a) = I(b)
  OBVIOUS
<1>4. First(a) = First(b)
  BY <1>1, <1>3
<1> QED
  BY <1>2, <1>4

LEMMA SameFirstNum ==
    ASSUME NEW a, NEW b, NEW keys, Len(keys) \in Nat,
           \A i \in 1 .. Len(keys) : AttrNum(a, keys[i]) = AttrNum(b, keys[i])
    PROVE  FirstNum(a, keys) = FirstNum(b, keys)
<1> DEFINE I(x) == {i \in 1 .. Len(keys) : AttrNum(x, keys[i]) # None}
           First(x) == IF I(x) = {} THEN None ELSE AttrNum(x, keys[Min(I(x))])
<1>1. ASSUME NEW x, I(x) # {} PROVE Min(I(x)) \in 1 .. Len(keys) /\ Min(I(x)) # 0
  <2>1. I(x) \in SUBSET (1 .. Len(keys))
    OBVIOUS
  <2>2. Min(I(x)) \in I(x)
    <3> HIDE DEF I
    <3> QED
      BY <1>1, <2>1, MinOfIndices
  <2> QED
    BY <2>1, <2>2
<1>2. ASSUME NEW x PROVE FirstNum(x, keys) = First(x)
  <2>1. CASE I(x) = {}
    BY <2>1 DEF FirstNum, FirstOf, SelectInSeq
  <2>2. CASE I(x) # {}
    <3>1. Min(I(x)) # 0
      BY <1>1, <2>2
    <3> QED
      BY <2>2, <3>1 DEF FirstNum, FirstOf, SelectInSeq
  <2> QED
    BY <2>1, <2>2
<1>3. I(a) = I(b)
  OBVIOUS
<1>4. First(a) = First(b)
  BY <1>1, <1>3
<1> QED
  BY <1>2, <1>4

----------------------------------------------------------------------------
(***************************************************************************)
(* Attributes that differ in what a session gives only.                    *)
(***************************************************************************)

\* The attributes a mapping adds from what is remembered of a session. None of
\* them is read for tokens, cost, session, model or kind.
Given == {"evald.otel.trace_id", "evald.otel.span_id", "gen_ai.provider.name"}
Alike(a, b) ==
    /\ DOMAIN a = DOMAIN Bare /\ DOMAIN b = DOMAIN Bare
    /\ a.text = b.text /\ a.other = b.other /\ a.prompt = b.prompt /\ a.completion = b.completion
    /\ \A k : k \notin Given => (k \in DOMAIN a.str <=> k \in DOMAIN b.str) /\ (k \in DOMAIN a.num <=> k \in DOMAIN b.num)
    /\ \A k \in DOMAIN a.str \ Given : a.str[k] = b.str[k]
    /\ \A k \in DOMAIN a.num \ Given : a.num[k] = b.num[k]

LEMMA AlikeSelf == \A a : DOMAIN a = DOMAIN Bare => Alike(a, a)
BY DEF Alike

LEMMA AlikeReads ==
    ASSUME NEW a, NEW b, Alike(a, b), NEW k, k \notin Given
    PROVE  /\ k \in KeysOf(a) <=> k \in KeysOf(b)
           /\ AttrStr(a, k) = AttrStr(b, k) /\ AttrNum(a, k) = AttrNum(b, k)
BY DEF Alike, KeysOf, AttrStr, AttrNum

LEMMA AlikeFirsts ==
    ASSUME NEW a, NEW b, Alike(a, b), NEW keys, Len(keys) \in Nat,
           \A i \in 1 .. Len(keys) : keys[i] \notin Given
    PROVE  FirstStr(a, keys) = FirstStr(b, keys) /\ FirstNum(a, keys) = FirstNum(b, keys)
<1>1. \A i \in 1 .. Len(keys) : AttrStr(a, keys[i]) = AttrStr(b, keys[i]) /\ AttrNum(a, keys[i]) = AttrNum(b, keys[i])
  BY AlikeReads
<1>2. FirstStr(a, keys) = FirstStr(b, keys)
  BY <1>1, SameFirstStr
<1>3. FirstNum(a, keys) = FirstNum(b, keys)
  BY <1>1, SameFirstNum
<1> QED
  BY <1>2, <1>3

LEMMA AlikeCarries ==
    ASSUME NEW a, NEW b, Alike(a, b), NEW keys, keys \cap Given = {}
    PROVE  Carries(a, keys) = Carries(b, keys)
<1>1. \A k \in keys : k \in KeysOf(a) <=> k \in KeysOf(b)
  BY AlikeReads
<1> QED
  BY <1>1 DEF Carries

\* Adding the same attributes to both, but for the given ones.
LEMMA AlikeMerged ==
    ASSUME NEW P, NEW Q, NEW f, NEW g,
           \A p : p[1] \notin Given => (p \in P <=> p \in Q),
           \A k : k \notin Given => (k \in DOMAIN f <=> k \in DOMAIN g),
           \A k \in DOMAIN f \ Given : f[k] = g[k]
    PROVE  /\ \A k : k \notin Given => (k \in DOMAIN Merged(P, f) <=> k \in DOMAIN Merged(Q, g))
           /\ \A k \in DOMAIN Merged(P, f) \ Given : Merged(P, f)[k] = Merged(Q, g)[k]
<1> DEFINE Keys(S) == {p[1] : p \in S}
           At(S, k) == {p \in S : p[1] = k}
<1>1. \A k : k \notin Given => (k \in Keys(P) <=> k \in Keys(Q))
  OBVIOUS
<1>2. ASSUME NEW k, k \notin Given PROVE At(P, k) = At(Q, k)
  BY <1>2
<1>3. ASSUME NEW k, k \notin Given PROVE ValueOf(At(P, k)) = ValueOf(At(Q, k))
  BY <1>2, <1>3
<1> HIDE DEF At
<1>4. /\ DOMAIN Merged(P, f) = Keys(P) \cup DOMAIN f
      /\ \A k \in Keys(P) \cup DOMAIN f : Merged(P, f)[k] = IF k \in Keys(P) THEN ValueOf(At(P, k)) ELSE f[k]
  BY DEF Merged, At
<1>5. /\ DOMAIN Merged(Q, g) = Keys(Q) \cup DOMAIN g
      /\ \A k \in Keys(Q) \cup DOMAIN g : Merged(Q, g)[k] = IF k \in Keys(Q) THEN ValueOf(At(Q, k)) ELSE g[k]
  BY DEF Merged, At
<1> HIDE DEF Keys
<1>6. \A k : k \notin Given => (k \in DOMAIN Merged(P, f) <=> k \in DOMAIN Merged(Q, g))
  BY <1>1, <1>4, <1>5
<1>7. ASSUME NEW k \in DOMAIN Merged(P, f) \ Given PROVE Merged(P, f)[k] = Merged(Q, g)[k]
  <2>1. k \in Keys(P) \cup DOMAIN f /\ k \in Keys(Q) \cup DOMAIN g /\ k \notin Given
    BY <1>4, <1>5, <1>6
  <2>2. CASE k \in Keys(P)
    BY <1>1, <1>3, <1>4, <1>5, <2>1, <2>2
  <2>3. CASE k \notin Keys(P)
    <3>1. k \in DOMAIN f /\ k \notin Keys(Q)
      BY <1>1, <2>1, <2>3
    <3> QED
      BY <1>4, <1>5, <2>1, <2>3, <3>1
  <2> QED
    BY <2>2, <2>3
<1> QED
  BY <1>6, <1>7

LEMMA AlikeNew ==
    ASSUME NEW a, NEW b, Alike(a, b), NEW s, NEW t,
           \A p : p[1] \notin Given => (p \in ToSet(s) <=> p \in ToSet(t))
    PROVE  \A p : p[1] \notin Given => (p \in New(a, s) <=> p \in New(b, t))
BY AlikeReads DEF New

LEMMA AlikeAddAll ==
    ASSUME NEW a, NEW b, Alike(a, b), NEW s, NEW t,
           \A p : p[1] \notin Given => (p \in ToSet(s) <=> p \in ToSet(t))
    PROVE  Alike(AddAll(a, s), AddAll(b, t))
<1>1. \A p : p[1] \notin Given => (p \in New(a, s) <=> p \in New(b, t))
  BY AlikeNew
<1> DEFINE f == Merged(New(a, s), a.str)
           g == Merged(New(b, t), b.str)
<1>2. /\ \A k : k \notin Given => (k \in DOMAIN f <=> k \in DOMAIN g)
      /\ \A k \in DOMAIN f \ Given : f[k] = g[k]
  <2>1. /\ \A k : k \notin Given => (k \in DOMAIN a.str <=> k \in DOMAIN b.str)
        /\ \A k \in DOMAIN a.str \ Given : a.str[k] = b.str[k]
    BY DEF Alike
  <2> QED
    BY <1>1, <2>1, AlikeMerged
<1>3. AddAll(a, s) = [a EXCEPT !.str = f] /\ AddAll(b, t) = [b EXCEPT !.str = g]
  BY DEF AddAll
<1> HIDE DEF f, g
<1> QED
  BY <1>2, <1>3 DEF Alike, Bare

LEMMA AlikeAddCounts ==
    ASSUME NEW a, NEW b, Alike(a, b), NEW s
    PROVE  Alike(AddCounts(a, s), AddCounts(b, s))
<1>1. \A p : p[1] \notin Given => (p \in New(a, s) <=> p \in New(b, s))
  BY AlikeNew
<1> DEFINE f == Merged(New(a, s), a.num)
           g == Merged(New(b, s), b.num)
<1>2. /\ \A k : k \notin Given => (k \in DOMAIN f <=> k \in DOMAIN g)
      /\ \A k \in DOMAIN f \ Given : f[k] = g[k]
  <2>1. /\ \A k : k \notin Given => (k \in DOMAIN a.num <=> k \in DOMAIN b.num)
        /\ \A k \in DOMAIN a.num \ Given : a.num[k] = b.num[k]
    BY DEF Alike
  <2> QED
    BY <1>1, <2>1, AlikeMerged
<1>3. AddCounts(a, s) = [a EXCEPT !.num = f] /\ AddCounts(b, s) = [b EXCEPT !.num = g]
  BY DEF AddCounts
<1> HIDE DEF f, g
<1> QED
  BY <1>2, <1>3 DEF Alike, Bare

LEMMA AlikeWithStr ==
    ASSUME NEW a, NEW b, Alike(a, b), NEW k, NEW v
    PROVE  Alike(WithStr(a, k, v), WithStr(b, k, v))
<1> DEFINE Str(x) == [j \in DOMAIN x.str \cup {k} |-> IF j = k THEN v ELSE x.str[j]]
           Num(x) == [j \in DOMAIN x.num \ {k} |-> x.num[j]]
<1>1. ASSUME NEW x, DOMAIN x = DOMAIN Bare
      PROVE  /\ DOMAIN WithStr(x, k, v) = DOMAIN Bare
             /\ WithStr(x, k, v).text = x.text /\ WithStr(x, k, v).other = x.other \ {k}
             /\ WithStr(x, k, v).prompt = x.prompt /\ WithStr(x, k, v).completion = x.completion
             /\ WithStr(x, k, v).str = Str(x) /\ WithStr(x, k, v).num = Num(x)
  BY <1>1 DEF WithStr, Bare
<1>2. DOMAIN a = DOMAIN Bare /\ DOMAIN b = DOMAIN Bare
  BY DEF Alike
<1>3. /\ \A j : j \notin Given => (j \in DOMAIN Str(a) <=> j \in DOMAIN Str(b)) /\ (j \in DOMAIN Num(a) <=> j \in DOMAIN Num(b))
      /\ \A j \in DOMAIN Str(a) \ Given : Str(a)[j] = Str(b)[j]
      /\ \A j \in DOMAIN Num(a) \ Given : Num(a)[j] = Num(b)[j]
  BY DEF Alike
<1> HIDE DEF Str, Num
<1>4. /\ WithStr(a, k, v).text = WithStr(b, k, v).text /\ WithStr(a, k, v).other = WithStr(b, k, v).other
      /\ WithStr(a, k, v).prompt = WithStr(b, k, v).prompt /\ WithStr(a, k, v).completion = WithStr(b, k, v).completion
      /\ WithStr(a, k, v).str = Str(a) /\ WithStr(b, k, v).str = Str(b)
      /\ WithStr(a, k, v).num = Num(a) /\ WithStr(b, k, v).num = Num(b)
      /\ DOMAIN WithStr(a, k, v) = DOMAIN Bare /\ DOMAIN WithStr(b, k, v) = DOMAIN Bare
  <2>1. a.text = b.text /\ a.other = b.other /\ a.prompt = b.prompt /\ a.completion = b.completion
    BY DEF Alike
  <2> QED
    BY <1>1, <1>2, <2>1
<1> QED
  BY <1>3, <1>4 DEF Alike

LEMMA AlikeCanonical ==
    ASSUME NEW a, NEW b, Alike(a, b), NEW keys, keys[1] \notin Given, Len(Tail(keys)) \in Nat,
           \A i \in 1 .. Len(Tail(keys)) : Tail(keys)[i] \notin Given
    PROVE  Alike(Canonical(a, keys), Canonical(b, keys))
<1> DEFINE rest == Tail(keys)
           I(x) == {i \in 1 .. Len(rest) : rest[i] \in DOMAIN x.str}
<1>1. I(a) = I(b) /\ I(a) \in SUBSET (1 .. Len(rest))
  BY DEF Alike
<1>2. keys[1] \in KeysOf(a) <=> keys[1] \in KeysOf(b)
  BY AlikeReads
<1>3. CASE keys[1] \in KeysOf(a) \/ I(a) = {}
  <2>1. Canonical(a, keys) = a /\ Canonical(b, keys) = b
    BY <1>1, <1>2, <1>3 DEF Canonical, SelectInSeq
  <2> QED
    BY <2>1
<1>4. CASE keys[1] \notin KeysOf(a) /\ I(a) # {}
  <2> DEFINE i == Min(I(a))
  <2>1. i \in I(a)
    <3> HIDE DEF I, rest
    <3> QED
      BY <1>1, <1>4, MinOfIndices
  <2>2. i # 0 /\ rest[i] \in DOMAIN a.str /\ rest[i] \notin Given
    <3> HIDE DEF i
    <3> QED
      BY <2>1
  <2>3. a.str[rest[i]] = b.str[rest[i]]
    BY <2>2 DEF Alike
  <2>4. Canonical(a, keys) = WithStr(a, keys[1], a.str[rest[i]])
    BY <1>4, <2>2 DEF Canonical, SelectInSeq
  <2>5. Canonical(b, keys) = WithStr(b, keys[1], b.str[rest[i]])
    BY <1>1, <1>2, <1>4, <2>2 DEF Canonical, SelectInSeq
  <2> QED
    BY <2>3, <2>4, <2>5, AlikeWithStr
<1> QED
  BY <1>3, <1>4

\* The spellings agent.rs looks for are none of the given attributes.
LEMMA AlikeNames ==
    ASSUME NEW a, NEW b, Alike(a, b)
    PROVE  /\ Alike(Canonical(a, ToolName), Canonical(b, ToolName))
           /\ Alike(Canonical(a, ToolCallId), Canonical(b, ToolCallId))
           /\ Alike(Canonical(a, AgentName), Canonical(b, AgentName))
           /\ Alike(Canonical(a, AgentId), Canonical(b, AgentId))
<1>1. \A keys \in {ToolName, ToolCallId, AgentName, AgentId} :
          /\ keys[1] \notin Given /\ Len(Tail(keys)) \in Nat
          /\ \A i \in 1 .. Len(Tail(keys)) : Tail(keys)[i] \notin Given
  <2>1. ToolName[1] \notin Given /\ ToolCallId[1] \notin Given /\ AgentName[1] \notin Given /\ AgentId[1] \notin Given
    BY DEF ToolName, ToolCallId, AgentName, AgentId, Given
  <2>2. /\ Tail(ToolName) = <<"tool.name", "ai.toolCall.name", "tool_name">>
        /\ Tail(ToolCallId) = <<"tool_call.id", "ai.toolCall.id", "tool_use_id">>
        /\ Tail(AgentName) = <<"agent.name">> /\ Tail(AgentId) = <<"agent.id">>
    BY DEF ToolName, ToolCallId, AgentName, AgentId
  <2>3. \A s \in {<<"tool.name", "ai.toolCall.name", "tool_name">>, <<"tool_call.id", "ai.toolCall.id", "tool_use_id">>,
                  <<"agent.name">>, <<"agent.id">>} :
            Len(s) \in Nat /\ \A i \in 1 .. Len(s) : s[i] \notin Given
    BY DEF Given
  <2> QED
    BY <2>1, <2>2, <2>3
<1> QED
  BY <1>1, AlikeCanonical

----------------------------------------------------------------------------
(***************************************************************************)
(* What is counted of a span does not depend on what was given.            *)
(***************************************************************************)

SpanFields ==
    {"dialect", "trace", "id", "parent", "name", "kind", "oi", "start", "end", "status", "message", "model",
     "provider", "tokens", "cost", "input", "output", "session", "user", "service", "raw"}
SameFacts(m, n) ==
    /\ DOMAIN m = SpanFields /\ DOMAIN n = SpanFields
    /\ m.id = n.id /\ m.tokens = n.tokens /\ m.cost = n.cost /\ m.session = n.session /\ m.model = n.model /\ m.oi = n.oi
    /\ m.kind = n.kind /\ Alike(m.raw, n.raw)

LEMMA AlikeTokens == ASSUME NEW a, NEW b, Alike(a, b) PROVE TokensOf(a) = TokensOf(b)
<1> DEFINE Counts == {<<"llm.token_count.prompt", "gen_ai.usage.input_tokens", "gen_ai.usage.prompt_tokens">>,
                      <<"llm.token_count.completion", "gen_ai.usage.output_tokens", "gen_ai.usage.completion_tokens">>,
                      <<"llm.token_count.total", "gen_ai.usage.total_tokens">>,
                      <<"llm.token_count.prompt_details.cache_read", "gen_ai.usage.cache_read.input_tokens">>,
                      <<"llm.token_count.prompt_details.cache_write", "gen_ai.usage.cache_creation.input_tokens",
                        "gen_ai.usage.cache_write.input_tokens">>,
                      <<"llm.token_count.completion_details.reasoning", "gen_ai.usage.reasoning_tokens",
                        "gen_ai.usage.reasoning.output_tokens">>}
<1>1. \A keys \in Counts : Len(keys) \in Nat /\ \A i \in 1 .. Len(keys) : keys[i] \notin Given
  BY DEF Given
<1>2. \A keys \in Counts : FirstNum(a, keys) = FirstNum(b, keys)
  <2> HIDE DEF Counts
  <2> QED
    BY <1>1, AlikeFirsts
<1> QED
  BY <1>2 DEF TokensOf

LEMMA AlikeKind == ASSUME NEW a, NEW b, Alike(a, b) PROVE InferKind(a) = InferKind(b)
<1>1. CallKeys \cap Given = {} /\ ToolKeys \cap Given = {}
  BY DEF CallKeys, ToolKeys, Given
<1>2. Carries(a, CallKeys) = Carries(b, CallKeys) /\ Carries(a, ToolKeys) = Carries(b, ToolKeys)
  BY <1>1, AlikeCarries
<1>3. "gen_ai.operation.name" \notin Given /\ "mcp.method.name" \notin Given
  BY DEF Given
<1>4. AttrStr(a, "gen_ai.operation.name") = AttrStr(b, "gen_ai.operation.name")
      /\ AttrStr(a, "mcp.method.name") = AttrStr(b, "mcp.method.name")
  BY <1>3, AlikeReads
<1> QED
  BY <1>2, <1>4 DEF InferKind

LEMMA ReadSame ==
    ASSUME NEW d, NEW e, NEW service, Alike(d.attrs, e.attrs), d.id = e.id, d.kind = e.kind
    PROVE  SameFacts(ReadSpan(d, service), ReadSpan(e, service))
<1> DEFINE a == d.attrs
           b == e.attrs
           Texts == {<<"gen_ai.response.model", "gen_ai.request.model", "llm.model_name">>,
                     <<"session.id", "gen_ai.conversation.id">>}
<1>1. \A keys \in Texts : Len(keys) \in Nat /\ \A i \in 1 .. Len(keys) : keys[i] \notin Given
  BY DEF Given
<1>2. \A keys \in Texts : FirstStr(a, keys) = FirstStr(b, keys)
  <2> HIDE DEF Texts
  <2> QED
    BY <1>1, AlikeFirsts
<1>3. FirstNum(a, CostAttributes) = FirstNum(b, CostAttributes)
  <2>1. Len(CostAttributes) \in Nat /\ \A i \in 1 .. Len(CostAttributes) : CostAttributes[i] \notin Given
    BY DEF CostAttributes, Given
  <2> QED
    BY <2>1, AlikeFirsts
<1>4. AttrStr(a, "openinference.span.kind") = AttrStr(b, "openinference.span.kind")
  BY AlikeReads DEF Given
<1>5. TokensOf(a) = TokensOf(b) /\ InferKind(a) = InferKind(b)
  BY AlikeTokens, AlikeKind
<1> DEFINE m == ReadSpan(d, service)
           n == ReadSpan(e, service)
<1>6. /\ m.oi = OrElse(AttrStr(a, "openinference.span.kind"), InferKind(a))
      /\ n.oi = OrElse(AttrStr(b, "openinference.span.kind"), InferKind(b))
      /\ m.model = FirstStr(a, <<"gen_ai.response.model", "gen_ai.request.model", "llm.model_name">>)
      /\ n.model = FirstStr(b, <<"gen_ai.response.model", "gen_ai.request.model", "llm.model_name">>)
      /\ m.tokens = TokensOf(a) /\ n.tokens = TokensOf(b)
      /\ m.cost = FirstNum(a, CostAttributes) /\ n.cost = FirstNum(b, CostAttributes)
      /\ m.session = FirstStr(a, <<"session.id", "gen_ai.conversation.id">>)
      /\ n.session = FirstStr(b, <<"session.id", "gen_ai.conversation.id">>)
      /\ m.raw = a /\ n.raw = b /\ m.id = d.id /\ n.id = e.id /\ m.kind = d.kind /\ n.kind = e.kind
  BY DEF ReadSpan
<1>7. DOMAIN m = SpanFields /\ DOMAIN n = SpanFields
  BY DEF ReadSpan, SpanFields
<1> QED
  BY <1>2, <1>3, <1>4, <1>5, <1>6, <1>7 DEF SameFacts

LEMMA AlikeSetAside ==
    ASSUME NEW m, NEW n, SameFacts(m, n), NEW why
    PROVE  SameFacts(SetAside(m, why), SetAside(n, why))
<1>1. Alike(WithStr(m.raw, "evald.usage", why), WithStr(n.raw, "evald.usage", why))
  BY AlikeWithStr DEF SameFacts
<1>2. ASSUME NEW x, DOMAIN x = SpanFields
      PROVE  /\ DOMAIN SetAside(x, why) = SpanFields
             /\ SetAside(x, why).tokens = NoTokens /\ SetAside(x, why).cost = None
             /\ SetAside(x, why).oi = IF x.oi = "LLM" THEN "CHAIN" ELSE x.oi
             /\ SetAside(x, why).raw = WithStr(x.raw, "evald.usage", why)
             /\ SetAside(x, why).id = x.id /\ SetAside(x, why).kind = x.kind
             /\ SetAside(x, why).session = x.session /\ SetAside(x, why).model = x.model
  BY <1>2 DEF SetAside, SpanFields
<1>3. DOMAIN m = SpanFields /\ DOMAIN n = SpanFields
  BY DEF SameFacts
<1> QED
  BY <1>1, <1>2, <1>3 DEF SameFacts

\* Only the attributes of a span change.
LEMMA SameRaw ==
    ASSUME NEW m, NEW n, SameFacts(m, n), NEW a, NEW b, Alike(a, b)
    PROVE  SameFacts([m EXCEPT !.raw = a], [n EXCEPT !.raw = b])
BY DEF SameFacts, SpanFields

LEMMA AgentSame ==
    ASSUME NEW m, NEW n, SameFacts(m, n)
    PROVE  SameFacts(AgentPass(m), AgentPass(n))
<1> DEFINE Tool(x) == Canonical(Canonical(x.raw, ToolName), ToolCallId)
           Agent(x) == Canonical(Canonical(x.raw, AgentName), AgentId)
           Named(x) == [x EXCEPT !.raw = Agent(x)]
<1>1. Alike(Tool(m), Tool(n)) /\ Alike(Agent(m), Agent(n))
  BY AlikeNames DEF SameFacts
<1>2. m.oi = n.oi /\ m.kind = n.kind /\ m.tokens = n.tokens /\ m.cost = n.cost
  BY DEF SameFacts
<1>3. CASE m.oi = "TOOL"
  <2>1. AgentPass(m) = [m EXCEPT !.raw = Tool(m)] /\ AgentPass(n) = [n EXCEPT !.raw = Tool(n)]
    BY <1>2, <1>3 DEF AgentPass
  <2> QED
    BY <1>1, <2>1, SameRaw
<1>4. CASE m.oi \in {"AGENT", "CHAIN"}
  <2> DEFINE aside == m.kind # Client /\ (m.tokens # NoTokens \/ m.cost # None)
  <2>1. SameFacts(Named(m), Named(n))
    <3> HIDE DEF Agent
    <3> QED
      BY <1>1, SameRaw
  <2>2. AgentPass(m) = IF aside THEN SetAside(Named(m), "aggregate") ELSE Named(m)
    BY <1>4 DEF AgentPass
  <2>3. AgentPass(n) = IF aside THEN SetAside(Named(n), "aggregate") ELSE Named(n)
    BY <1>2, <1>4 DEF AgentPass
  <2> HIDE DEF Named, aside
  <2>4. SameFacts(SetAside(Named(m), "aggregate"), SetAside(Named(n), "aggregate"))
    BY <2>1, AlikeSetAside
  <2> QED
    BY <2>1, <2>2, <2>3, <2>4
<1>5. CASE m.oi \notin {"TOOL", "AGENT", "CHAIN"}
  <2>1. AgentPass(m) = m /\ AgentPass(n) = n
    BY <1>2, <1>5 DEF AgentPass
  <2> QED
    BY <2>1
<1> QED
  BY <1>3, <1>4, <1>5

\* Deriving a cost looks at the counts, the model, the total as reported and
\* whether a cost was given.
LEMMA AlikeTotal ==
    ASSUME NEW m, NEW n, Alike(m.raw, n.raw) PROVE ReportedTotal(m) = ReportedTotal(n)
<1> DEFINE keys == <<"llm.token_count.total", "gen_ai.usage.total_tokens">>
           Read(x, k) == IF k \in x.raw.text THEN None ELSE AttrNum(x.raw, k)
           I(x) == {i \in 1 .. Len(keys) : Read(x, keys[i]) # None}
<1>1. \A i \in 1 .. Len(keys) : Read(m, keys[i]) = Read(n, keys[i])
  <2>1. \A i \in 1 .. Len(keys) : keys[i] \notin Given
    BY DEF Given
  <2>2. m.raw.text = n.raw.text
    BY DEF Alike
  <2>3. \A i \in 1 .. Len(keys) : AttrNum(m.raw, keys[i]) = AttrNum(n.raw, keys[i])
    BY <2>1, AlikeReads
  <2> QED
    BY <2>2, <2>3
<1>2. I(m) = I(n)
  BY <1>1
<1>3. ASSUME NEW x, I(x) # {} PROVE Min(I(x)) \in 1 .. Len(keys) /\ Min(I(x)) # 0
  <2>1. I(x) \in SUBSET (1 .. Len(keys)) /\ Len(keys) \in Nat
    OBVIOUS
  <2>2. Min(I(x)) \in I(x)
    <3> HIDE DEF I, keys
    <3> QED
      BY <1>3, <2>1, MinOfIndices
  <2> QED
    BY <2>1, <2>2
<1>4. ASSUME NEW x PROVE ReportedTotal(x) = IF I(x) = {} THEN None ELSE Read(x, keys[Min(I(x))])
  <2>1. CASE I(x) = {}
    BY <2>1 DEF ReportedTotal, FirstOf, SelectInSeq
  <2>2. CASE I(x) # {}
    <3>1. Min(I(x)) # 0
      BY <1>3, <2>2
    <3> QED
      BY <2>2, <3>1 DEF ReportedTotal, FirstOf, SelectInSeq
  <2> QED
    BY <2>1, <2>2
<1>5. CASE I(m) = {}
  BY <1>2, <1>4, <1>5
<1>6. CASE I(m) # {}
  <2>1. Min(I(m)) \in 1 .. Len(keys)
    BY <1>3, <1>6
  <2>2. Read(m, keys[Min(I(m))]) = Read(n, keys[Min(I(m))])
    <3> HIDE DEF Read, I, keys
    <3> QED
      BY <1>1, <2>1
  <2> HIDE DEF Read, I, keys
  <2> QED
    BY <1>2, <1>4, <1>6, <2>2
<1> QED
  BY <1>5, <1>6

LEMMA ApplySame ==
    ASSUME NEW m, NEW n, SameFacts(m, n), NEW t
    PROVE  FactsOf(Apply(t, m)) = FactsOf(Apply(t, n))
<1>1. Alike(m.raw, n.raw)
  BY DEF SameFacts
<1>2. HasCostAttribute(m) = HasCostAttribute(n)
  <2>1. ToSet(CostAttributes) \cap Given = {}
    BY DEF ToSet, CostAttributes, Given
  <2> QED
    BY <1>1, <2>1, AlikeCarries DEF HasCostAttribute
<1>3. Derivable(t, m) = Derivable(t, n)
  BY <1>2 DEF Derivable, SameFacts
<1>4. BasisOf(m) = BasisOf(n)
  BY <1>1, AlikeTotal DEF BasisOf, SameFacts
<1>5. CASE ~Derivable(t, m)
  BY <1>3, <1>5 DEF Apply, FactsOf, SameFacts
<1>6. CASE Derivable(t, m)
  <2> DEFINE Cost(x) == PriceTokens(Lookup(t, x.model), x.tokens, BasisOf(x))
             Raw(x) == IF BasisOf(x) = Default THEN Without(x.raw, "evald.cost.basis")
                       ELSE WithStr(Without(x.raw, "evald.cost.basis"), "evald.cost.basis", Stamp(BasisOf(x)))
  <2>1. Apply(t, m) = [m EXCEPT !.cost = Cost(m), !.raw = Raw(m)]
        /\ Apply(t, n) = [n EXCEPT !.cost = Cost(n), !.raw = Raw(n)]
    BY <1>3, <1>6 DEF Apply
  <2>2. Cost(m) = Cost(n)
    BY <1>4 DEF SameFacts
  <2> HIDE DEF Cost, Raw
  <2> QED
    BY <2>1, <2>2 DEF FactsOf, SameFacts, SpanFields
<1> QED
  BY <1>5, <1>6

\* A span is finished with the same facts from drafts that are alike.
LEMMA FinishSame ==
    ASSUME NEW rec, NEW d, NEW e, Alike(d.attrs, e.attrs), d.id = e.id, NEW t
    PROVE  FactsOf(Apply(t, Finish(rec, d))) = FactsOf(Apply(t, Finish(rec, e)))
<1> DEFINE Draft(x) == [trace |-> x.trace, id |-> x.id, parent |-> x.parent, name |-> x.name, kind |-> Internal,
                        start |-> x.start, end |-> RecordTime(rec), status |-> IF x.error = None THEN 0 ELSE ErrorStatus,
                        message |-> x.error, attrs |-> x.attrs]
<1>1. ASSUME NEW x PROVE Finish(rec, x) = AgentPass(ReadSpan(Draft(x), rec.service))
  BY DEF Finish, NormalizeSpan
<1>2. Draft(d).id = Draft(e).id /\ Draft(d).kind = Draft(e).kind /\ Alike(Draft(d).attrs, Draft(e).attrs)
  OBVIOUS
<1> HIDE DEF Draft
<1>3. SameFacts(ReadSpan(Draft(d), rec.service), ReadSpan(Draft(e), rec.service))
  BY <1>2, ReadSame
<1>4. SameFacts(Finish(rec, d), Finish(rec, e))
  BY <1>1, <1>3, AgentSame
<1> QED
  BY <1>4, ApplySame

----------------------------------------------------------------------------
(***************************************************************************)
(* What a record becomes, whatever was remembered.                         *)
(***************************************************************************)

LEMMA PairOf == ASSUME NEW x, NEW y PROVE <<x, y>> \in Seq({x, y}) /\ ToSet(<<x, y>>) = {x, y}
<1>1. DOMAIN <<x, y>> = {1, 2}
  OBVIOUS
<1> QED
  BY <1>1 DEF ToSet

LEMMA PairsOf ==
    ASSUME NEW x1, NEW x2, NEW x3, NEW x4
    PROVE  /\ ToSet(<<x1, x2>>) = {x1, x2}
           /\ ToSet(<<x1, x2>> \o <<x3, x4>>) = {x1, x2, x3, x4}
<1>1. <<x1, x2>> \in Seq({x1, x2, x3, x4}) /\ <<x3, x4>> \in Seq({x1, x2, x3, x4})
  OBVIOUS
<1>2. ToSet(<<x1, x2>> \o <<x3, x4>>) = ToSet(<<x1, x2>>) \cup ToSet(<<x3, x4>>)
  BY <1>1, ToSetConcat
<1>3. ToSet(<<x1, x2>>) = {x1, x2} /\ ToSet(<<x3, x4>>) = {x3, x4}
  BY PairOf
<1> QED
  BY <1>2, <1>3

\* Adding what is given only.
LEMMA AlikeGiven ==
    ASSUME NEW a, DOMAIN a = DOMAIN Bare, NEW s, \A p \in ToSet(s) : p[1] \in Given
    PROVE  Alike(AddAll(a, s), a)
<1> DEFINE P == New(a, s)
           f == Merged(P, a.str)
           Keys == {p[1] : p \in P}
<1>1. Keys \subseteq Given
  BY DEF New
<1>2. DOMAIN f = Keys \cup DOMAIN a.str /\ \A k \in DOMAIN f \ Keys : f[k] = a.str[k]
  BY DEF Merged
<1>3. AddAll(a, s) = [a EXCEPT !.str = f]
  BY DEF AddAll
<1> HIDE DEF f, Keys
<1> QED
  BY <1>1, <1>2, <1>3 DEF Alike, Bare

\* The trace context a record is kept with is given.
LEMMA CommonAlike ==
    ASSUME NEW rec, DOMAIN rec.attrs = DOMAIN Bare, NEW session, NEW own, NEW other
    PROVE  Alike(Common(rec, session, own), Common(rec, session, other))
<1> DEFINE Pairs(x) == <<<<"evald.otel.trace_id", x[1]>>, <<"evald.otel.span_id", x[2]>>>>
           Own(x) == IF x = None THEN rec.attrs ELSE AddAll(rec.attrs, Pairs(x))
           rest == <<<<"gen_ai.conversation.id", NonEmpty(session)>>, <<"evald.source", "log">>>>
<1>1. ASSUME NEW x PROVE Alike(AddAll(rec.attrs, Pairs(x)), rec.attrs)
  <2>1. \A p \in ToSet(Pairs(x)) : p[1] \in Given
    BY PairsOf DEF Given
  <2> QED
    BY <2>1, AlikeGiven
<1>2. ASSUME NEW x PROVE Alike(Own(x), rec.attrs)
  BY <1>1, AlikeSelf
<1>3. ASSUME NEW x, NEW y PROVE Alike(Own(x), Own(y))
  <2> HIDE DEF Own
  <2>1. Alike(Own(x), rec.attrs) /\ Alike(Own(y), rec.attrs)
    BY <1>2
  <2> QED
    BY <2>1 DEF Alike
<1>4. Common(rec, session, own) = AddAll(Own(own), rest) /\ Common(rec, session, other) = AddAll(Own(other), rest)
  BY DEF Common
<1> HIDE DEF Own, rest
<1> QED
  BY <1>3, <1>4, AlikeAddAll

LEMMA CodexLlmSame ==
    ASSUME NEW rec, DOMAIN rec.attrs = DOMAIN Bare, NEW conv, NEW error,
           NEW f, NEW n, NEW g, NEW h, NEW t
    PROVE  FactsOf(Apply(t, CodexLlmSpan(rec, conv, error, f, n))) = FactsOf(Apply(t, CodexLlmSpan(rec, conv, error, g, h)))
<1> DEFINE a == rec.attrs
           Own(x) == IF OwnContext(rec) # None \/ x.request = None THEN OwnContext(rec) ELSE x.request.own
           Start(x) == CASE OwnContext(rec) # None -> StartOf(rec)
                         [] OwnContext(rec) = None /\ x.request # None -> Min({x.request.start, RecordTime(rec)})
                         [] OTHER -> RecordTime(rec)
           Called(x) == <<<<"gen_ai.operation.name", "chat">>, <<"gen_ai.provider.name", x.provider>>>>
           Named(x) == AddAll(Common(rec, conv, Own(x)), Called(x) \o Model(a))
           Draft(x, y) == [trace |-> CodexPlace(y, conv)[1], id |-> <<"codex.llm", conv, RecordTime(rec), Text(a, "attempt")>>,
                           parent |-> CodexPlace(y, conv)[2], name |-> "codex.llm_request", start |-> Start(x),
                           error |-> error, attrs |-> AddCounts(Named(x), CodexCounts(a))]
<1>1. \A x, y : CodexLlmSpan(rec, conv, error, x, y) = Finish(rec, Draft(x, y))
  BY DEF CodexLlmSpan
<1>2. ASSUME NEW p, p[1] \notin Given
      PROVE  p \in ToSet(Called(f) \o Model(a)) <=> p \in ToSet(Called(g) \o Model(a))
  <2> DEFINE m1 == <<"gen_ai.request.model", AttrStr(a, "model")>>
             m2 == <<"gen_ai.response.model", AttrStr(a, "model")>>
             c == <<"gen_ai.operation.name", "chat">>
             Prov(x) == <<"gen_ai.provider.name", x.provider>>
  <2>1. Model(a) = <<m1, m2>>
    BY DEF Model
  <2>2. \A x : ToSet(Called(x) \o Model(a)) = {c, Prov(x), m1, m2}
    BY <2>1, PairsOf
  <2>3. \A x : Prov(x)[1] \in Given
    BY DEF Given
  <2> HIDE DEF Called, c, m1, m2, Prov
  <2> QED
    BY <1>2, <2>2, <2>3
<1>3. Alike(Named(f), Named(g))
  <2>1. Alike(Common(rec, conv, Own(f)), Common(rec, conv, Own(g)))
    BY CommonAlike
  <2> HIDE DEF Called, Own
  <2> QED
    BY <1>2, <2>1, AlikeAddAll
<1>4. Alike(Draft(f, n).attrs, Draft(g, h).attrs) /\ Draft(f, n).id = Draft(g, h).id
  <2> HIDE DEF Named, Start
  <2> QED
    BY <1>3, AlikeAddCounts
<1> HIDE DEF Draft
<1> QED
  BY <1>1, <1>4, FinishSame

LEMMA CodexToolSame ==
    ASSUME NEW rec, DOMAIN rec.attrs = DOMAIN Bare, NEW conv, NEW f, NEW n, NEW g, NEW h, NEW t
    PROVE  FactsOf(Apply(t, CodexToolSpan(rec, conv, f, n))) = FactsOf(Apply(t, CodexToolSpan(rec, conv, g, h)))
<1> DEFINE a == rec.attrs
           call == AttrStr(a, "call_id")
           About(y) == RefusalAt(y, call)
           Error(y) == CASE About(y) # 0 -> y.refused[About(y)][2]
                         [] About(y) = 0 /\ AttrStr(a, "success") = "false" -> "tool failed"
                         [] About(y) = 0 /\ AttrStr(a, "success") # "false" /\ ExitCode(a) # None -> <<"exit code", ExitCode(a)>>
                         [] OTHER -> None
           added == <<<<"gen_ai.operation.name", "execute_tool">>, <<"gen_ai.tool.name", CodexToolName(a)>>,
                      <<"gen_ai.tool.call.id", call>>, <<"gen_ai.tool.call.arguments", TextOrNone(a, "arguments")>>,
                      <<"mcp.server.name", TextOrNone(a, "mcp_server")>>>>
           attrs == AddAll(Common(rec, conv, OwnContext(rec)), added)
           Draft(x, y) == [trace |-> CodexPlace(x, conv)[1], parent |-> CodexPlace(x, conv)[2],
                           id |-> <<"codex.tool", IF call = None THEN <<conv, RecordTime(rec)>> ELSE <<call>>>>,
                           name |-> "codex.tool", start |-> StartOf(rec), error |-> Error(y), attrs |-> attrs]
<1>1. \A x, y : CodexToolSpan(rec, conv, x, y) = Finish(rec, Draft(x, y))
  BY DEF CodexToolSpan
<1>2. Alike(attrs, attrs)
  <2> HIDE DEF added
  <2> QED
    BY CommonAlike, AlikeAddAll
<1>3. Alike(Draft(f, n).attrs, Draft(g, h).attrs) /\ Draft(f, n).id = Draft(g, h).id
  <2> HIDE DEF attrs, Error
  <2> QED
    BY <1>2
<1> HIDE DEF Draft
<1> QED
  BY <1>1, <1>3, FinishSame

LEMMA GeminiLlmSame ==
    ASSUME NEW rec, DOMAIN rec.attrs = DOMAIN Bare, NEW session, NEW error,
           NEW f, NEW n, NEW g, NEW h, NEW t
    PROVE  FactsOf(Apply(t, GeminiLlmSpan(rec, session, error, f, n)))
               = FactsOf(Apply(t, GeminiLlmSpan(rec, session, error, g, h)))
<1> DEFINE a == rec.attrs
           provider == IF AttrStr(a, "auth_type") = "vertex-ai" THEN "gcp.vertex_ai" ELSE "gcp.gemini"
           called == <<<<"gen_ai.operation.name", "chat">>, <<"gen_ai.provider.name", provider>>>> \o Model(a)
           Named(y) == AddAll(Common(rec, session, OrElse(OwnContext(rec), y.request)), called)
           Draft(x, y) == [trace |-> GeminiPlace(x, rec, session)[1], parent |-> GeminiPlace(x, rec, session)[2],
                           name |-> "gemini_cli.llm_request",
                           id |-> <<"gemini_cli.llm", session, RecordTime(rec), Text(a, "model")>>,
                           start |-> StartOf(rec), error |-> error, attrs |-> AddCounts(Named(y), GeminiCounts(a))]
<1>1. \A x, y : GeminiLlmSpan(rec, session, error, x, y) = Finish(rec, Draft(x, y))
  BY DEF GeminiLlmSpan
<1>2. Alike(Named(n), Named(h))
  <2> HIDE DEF called
  <2> QED
    BY CommonAlike, AlikeAddAll
<1>3. Alike(Draft(f, n).attrs, Draft(g, h).attrs) /\ Draft(f, n).id = Draft(g, h).id
  <2> HIDE DEF Named
  <2> QED
    BY <1>2, AlikeAddCounts
<1> HIDE DEF Draft
<1> QED
  BY <1>1, <1>3, FinishSame

LEMMA GeminiToolSame ==
    ASSUME NEW rec, DOMAIN rec.attrs = DOMAIN Bare, NEW session, NEW f, NEW g, NEW t
    PROVE  FactsOf(Apply(t, GeminiToolSpan(rec, session, f))) = FactsOf(Apply(t, GeminiToolSpan(rec, session, g)))
<1> DEFINE a == rec.attrs
           tool == GeminiToolName(a)
           failed == IF AttrStr(a, "success") # "false" THEN None ELSE OrElse(AttrStr(a, "error_type"), "tool failed")
           added == <<<<"gen_ai.operation.name", "execute_tool">>, <<"gen_ai.tool.name", tool>>,
                      <<"gen_ai.tool.call.arguments", TextOrNone(a, "function_args")>>,
                      <<"mcp.server.name", TextOrNone(a, "mcp_server_name")>>>>
           attrs == AddAll(Common(rec, session, OwnContext(rec)), added)
           Draft(x) == [trace |-> GeminiPlace(x, rec, session)[1], parent |-> GeminiPlace(x, rec, session)[2],
                        name |-> "gemini_cli.tool",
                        id |-> <<"gemini_cli.tool", session, RecordTime(rec), OrElse(tool, "")>>,
                        start |-> StartOf(rec), attrs |-> attrs,
                        error |-> IF AttrStr(a, "decision") = "reject" THEN "rejected" ELSE failed]
<1>1. \A x : GeminiToolSpan(rec, session, x) = Finish(rec, Draft(x))
  BY DEF GeminiToolSpan
<1>2. Alike(attrs, attrs)
  <2> HIDE DEF added
  <2> QED
    BY CommonAlike, AlikeAddAll
<1>3. Alike(Draft(f).attrs, Draft(g).attrs) /\ Draft(f).id = Draft(g).id
  <2> HIDE DEF attrs
  <2> QED
    BY <1>2
<1> HIDE DEF Draft
<1> QED
  BY <1>1, <1>3, FinishSame

\* A mapping takes the same records, into spans with the same facts.
LEMMA CodexMapSame ==
    ASSUME NEW rec, DOMAIN rec.attrs = DOMAIN Bare, NEW f, NEW n, NEW g, NEW h, NEW t
    PROVE  /\ CodexMap(rec, f, n).outcome = CodexMap(rec, g, h).outcome
           /\ FactsOf(Apply(t, CodexMap(rec, f, n).span)) = FactsOf(Apply(t, CodexMap(rec, g, h).span))
<1> DEFINE a == rec.attrs
           event == EventName(rec)
           conv == Text(a, "conversation.id")
           kind == AttrStr(a, "event.kind")
           broken == IF kind \in {None, "response.completed", "response.failed"} THEN AttrStr(a, "error.message") ELSE None
           ends == broken # None \/ (kind = "response.completed" /\ AttrNum(a, "input_token_count") # None)
           Sse(x, y) == CodexLlmSpan(rec, conv, broken, x, y)
           Failed1(x, y) == CodexLlmSpan(rec, conv, RequestError(rec), x, y)
           Tool(x, y) == CodexToolSpan(rec, conv, x, y)
<1>1. FactsOf(Apply(t, Sse(f, n))) = FactsOf(Apply(t, Sse(g, h)))
  <2> HIDE DEF broken, conv
  <2> QED
    BY CodexLlmSame
<1>2. FactsOf(Apply(t, Failed1(f, n))) = FactsOf(Apply(t, Failed1(g, h)))
  <2> HIDE DEF conv
  <2> QED
    BY CodexLlmSame
<1>3. FactsOf(Apply(t, Tool(f, n))) = FactsOf(Apply(t, Tool(g, h)))
  <2> HIDE DEF conv
  <2> QED
    BY CodexToolSame
<1> DEFINE Outcome == IF ~IsCodex(rec) THEN "not_mine" ELSE
                      CASE event = "codex.conversation_starts" -> "folded"
                        [] event = "codex.user_prompt" -> "span"
                        [] event = "codex.api_request" /\ ~IsRequest(rec) -> "folded"
                        [] IsRequest(rec) /\ RequestError(rec) = None -> "folded"
                        [] IsRequest(rec) /\ RequestError(rec) # None -> "span"
                        [] event = "codex.sse_event" -> IF ends THEN "span" ELSE "folded"
                        [] event = "codex.tool_decision" -> "folded"
                        [] event = "codex.tool_result" -> "span"
                        [] OTHER -> "not_mine"
           Span(x, y) == IF ~IsCodex(rec) THEN None ELSE
                      CASE event = "codex.conversation_starts" -> None
                        [] event = "codex.user_prompt" -> CodexPromptSpan(rec, conv, CodexTurn(conv, rec))
                        [] event = "codex.api_request" /\ ~IsRequest(rec) -> None
                        [] IsRequest(rec) /\ RequestError(rec) = None -> None
                        [] IsRequest(rec) /\ RequestError(rec) # None -> Failed1(x, y)
                        [] event = "codex.sse_event" -> IF ends THEN Sse(x, y) ELSE None
                        [] event = "codex.tool_decision" -> None
                        [] event = "codex.tool_result" -> Tool(x, y)
                        [] OTHER -> None
<1>4. ASSUME NEW x, NEW y PROVE CodexMap(rec, x, y).outcome = Outcome /\ CodexMap(rec, x, y).span = Span(x, y)
  BY DEF CodexMap, NotMine, Folds, Becomes
<1>5. FactsOf(Apply(t, Span(f, n))) = FactsOf(Apply(t, Span(g, h)))
  <2> HIDE DEF Sse, Failed1, Tool, event, conv, ends
  <2> QED
    BY <1>1, <1>2, <1>3
<1> HIDE DEF Outcome, Span
<1> QED
  BY <1>4, <1>5

LEMMA GeminiMapSame ==
    ASSUME NEW rec, DOMAIN rec.attrs = DOMAIN Bare, NEW f, NEW n, NEW g, NEW h, NEW t
    PROVE  /\ GeminiMap(rec, f, n).outcome = GeminiMap(rec, g, h).outcome
           /\ FactsOf(Apply(t, GeminiMap(rec, f, n).span)) = FactsOf(Apply(t, GeminiMap(rec, g, h).span))
<1> DEFINE a == rec.attrs
           event == EventName(rec)
           session == Text(a, "session.id")
           why == OrElse(FirstStr(a, <<"error", "error.message", "error_type">>), "API request failed")
           Response(x, y) == GeminiLlmSpan(rec, session, None, x, y)
           Failed1(x, y) == GeminiLlmSpan(rec, session, why, x, y)
           Tool(x) == GeminiToolSpan(rec, session, x)
<1>1. FactsOf(Apply(t, Response(f, n))) = FactsOf(Apply(t, Response(g, h)))
  <2> HIDE DEF session
  <2> QED
    BY GeminiLlmSame
<1>2. FactsOf(Apply(t, Failed1(f, n))) = FactsOf(Apply(t, Failed1(g, h)))
  <2> HIDE DEF session, why
  <2> QED
    BY GeminiLlmSame
<1>3. FactsOf(Apply(t, Tool(f))) = FactsOf(Apply(t, Tool(g)))
  <2> HIDE DEF session
  <2> QED
    BY GeminiToolSame
<1> DEFINE Outcome == IF ~IsGemini(rec) THEN "not_mine" ELSE
                      CASE event = "gemini_cli.user_prompt" -> "span"
                        [] event = "gemini_cli.api_response" -> "span"
                        [] event = "gemini_cli.api_error" -> "span"
                        [] event = "gemini_cli.tool_call" -> "span"
                        [] event = "gemini_cli.api_request" -> "folded"
                        [] event = "gen_ai.client.inference.operation.details" -> "folded"
                        [] OTHER -> "not_mine"
           Span(x, y) == IF ~IsGemini(rec) THEN None ELSE
                      CASE event = "gemini_cli.user_prompt" -> GeminiPromptSpan(rec, session, GeminiTurn(session, rec))
                        [] event = "gemini_cli.api_response" -> Response(x, y)
                        [] event = "gemini_cli.api_error" -> Failed1(x, y)
                        [] event = "gemini_cli.tool_call" -> Tool(x)
                        [] event = "gemini_cli.api_request" -> None
                        [] event = "gen_ai.client.inference.operation.details" -> None
                        [] OTHER -> None
<1>4. ASSUME NEW x, NEW y PROVE GeminiMap(rec, x, y).outcome = Outcome /\ GeminiMap(rec, x, y).span = Span(x, y)
  BY DEF GeminiMap, NotMine, Folds, Becomes
<1>5. FactsOf(Apply(t, Span(f, n))) = FactsOf(Apply(t, Span(g, h)))
  <2> HIDE DEF Response, Failed1, Tool, event, session
  <2> QED
    BY <1>1, <1>2, <1>3
<1> HIDE DEF Outcome, Span
<1> QED
  BY <1>4, <1>5

\* Tokens, cost, session, model and identity of what a record becomes are its
\* own, whatever was remembered of its session when it was mapped.
LEMMA MapSame ==
    ASSUME NEW rec, DOMAIN rec.attrs = DOMAIN Bare, NEW f, NEW n, NEW g, NEW h, NEW t
    PROVE  FactsOf(Apply(t, MapRecord(rec, Policy, f, n).span)) = FactsOf(Apply(t, MapRecord(rec, Policy, g, h).span))
<1> DEFINE Claude == ClaudeMap(rec)
           Codex(x, y) == CodexMap(rec, x.codex, y.codex)
           Gemini(x, y) == GeminiMap(rec, x.gemini, y.gemini)
           Scoring1 == EventName(rec) = EvaluationResult
           Span(x, y) ==
               CASE Policy = "off" \/ Scoring1 -> None
                 [] Policy # "off" /\ ~Scoring1 /\ Claude.outcome # "not_mine" -> Claude.span
                 [] Policy # "off" /\ ~Scoring1 /\ Claude.outcome = "not_mine" /\ Codex(x, y).outcome # "not_mine" ->
                        Codex(x, y).span
                 [] Policy # "off" /\ ~Scoring1 /\ Claude.outcome = "not_mine" /\ Codex(x, y).outcome = "not_mine"
                    /\ Gemini(x, y).outcome # "not_mine" -> Gemini(x, y).span
                 [] OTHER -> IF Policy = "all" THEN GenericSpan(rec) ELSE None
<1>1. Codex(f, n).outcome = Codex(g, h).outcome /\ FactsOf(Apply(t, Codex(f, n).span)) = FactsOf(Apply(t, Codex(g, h).span))
  <2>1. \A x, y, u, v :
            /\ CodexMap(rec, x, y).outcome = CodexMap(rec, u, v).outcome
            /\ FactsOf(Apply(t, CodexMap(rec, x, y).span)) = FactsOf(Apply(t, CodexMap(rec, u, v).span))
    BY CodexMapSame
  <2> QED
    BY <2>1
<1>2. Gemini(f, n).outcome = Gemini(g, h).outcome /\ FactsOf(Apply(t, Gemini(f, n).span)) = FactsOf(Apply(t, Gemini(g, h).span))
  <2>1. \A x, y, u, v :
            /\ GeminiMap(rec, x, y).outcome = GeminiMap(rec, u, v).outcome
            /\ FactsOf(Apply(t, GeminiMap(rec, x, y).span)) = FactsOf(Apply(t, GeminiMap(rec, u, v).span))
    BY GeminiMapSame
  <2> QED
    BY <2>1
<1>3. ASSUME NEW x, NEW y PROVE MapRecord(rec, Policy, x, y).span = Span(x, y)
  BY DEF MapRecord, Scored, Kept, FirstMine, Result
<1>4. FactsOf(Apply(t, Span(f, n))) = FactsOf(Apply(t, Span(g, h)))
  <2> HIDE DEF Claude, Codex, Gemini, Scoring1
  <2> QED
    BY <1>1, <1>2
<1> HIDE DEF Span
<1> QED
  BY <1>3, <1>4

----------------------------------------------------------------------------
(***************************************************************************)
(* What a request becomes: sequences put together piece by piece.          *)
(***************************************************************************)

LEMMA SomeIsSeq == ASSUME NEW B, NEW x \in B PROVE Some(x) \in Seq(B)
<1>1. <<x>> \in Seq(B) /\ <<>> \in Seq(B)
  OBVIOUS
<1> QED
  BY <1>1 DEF Some

LEMMA VerdictsAreSeq ==
    ASSUME NEW item, Len(item.events) \in Nat, DOMAIN item.events = 1 .. Len(item.events)
    PROVE  \E B : Verdicts(item) \in Seq(B)
<1> DEFINE n == Len(item.events)
           Verdict(e) == IF e.name = EvaluationResult THEN ScoreOfSpanEvent(item.draft, e) ELSE None
           piece == [i \in 1 .. n |-> Some(Verdict(item.events[i]))]
           B == {Verdict(item.events[i]) : i \in 1 .. n}
           Recurs(it) == it = [T \in SUBSET (DOMAIN item.events) |->
                              IF T = {} THEN <<>> ELSE it[T \ {Max(T)}] \o Some(Verdict(item.events[Max(T)]))]
           fold == CHOOSE it : Recurs(it)
<1>1. piece \in [1 .. n -> Seq(B)]
  <2>1. ASSUME NEW i \in 1 .. n PROVE Some(Verdict(item.events[i])) \in Seq(B)
    <3>1. Verdict(item.events[i]) \in B
      OBVIOUS
    <3> HIDE DEF Verdict, B
    <3> QED
      BY <3>1, SomeIsSeq
  <2> QED
    BY <2>1
<1>2. \A T \in SUBSET (1 .. n) : T # {} => Max(T) \in 1 .. n
  BY MaxOfIndices
<1>3. ASSUME NEW it PROVE Recurs(it) <=> Concatenates(it, n, piece)
  <2> HIDE DEF Verdict
  <2>1. \A T \in SUBSET (1 .. n) : T # {} => piece[Max(T)] = Some(Verdict(item.events[Max(T)]))
    BY <1>2
  <2> HIDE DEF piece
  <2> QED
    BY <2>1 DEF Concatenates
<1>4. Verdicts(item) = fold[1 .. n]
  BY DEF Verdicts, FoldLeft, MapThenFoldSet
<1>5. \E it : Concatenates(it, n, piece)
  <2> HIDE DEF piece, B, n
  <2>1. n \in Nat
    BY DEF n
  <2> QED
    BY <1>1, <2>1, ConcatenationExists
<1>6. Concatenates(fold, n, piece)
  <2>1. Recurs(fold)
    <3> HIDE DEF piece
    <3>1. PICK it : Recurs(it)
      BY <1>3, <1>5
    <3> QED
      BY <3>1
  <2> HIDE DEF Recurs, fold, piece
  <2> QED
    BY <1>3, <2>1
<1>7. fold[1 .. n] \in Seq(B)
  <2> HIDE DEF fold, piece, B, n
  <2>1. n \in Nat
    BY DEF n
  <2> QED
    BY <1>1, <1>6, <2>1, ConcatenationIsSeq
<1> QED
  BY <1>4, <1>7

\* The entries of an item carry its place, and each span among them is priced
\* with the table the request took.
LEMMA EntriesAre ==
    ASSUME NEW r, NEW item, NEW A, NEW spans \in Seq(A), NEW B, NEW scores \in Seq(B)
    PROVE  /\ Entries(r, item, spans, scores) \in Seq(ToSet(Entries(r, item, spans, scores)))
           /\ \A e \in ToSet(Entries(r, item, spans, scores)) :
                 /\ e.item = item
                 /\ e.span # None => \E i \in DOMAIN spans : e.span = Apply(TableOf(r), spans[i])
<1> DEFINE s == [i \in DOMAIN spans |-> [item |-> item, span |-> Apply(TableOf(r), spans[i]), score |-> None]]
           t == [i \in DOMAIN scores |-> [item |-> item, span |-> None, score |-> scores[i]]]
           X == {s[i] : i \in DOMAIN spans} \cup {t[i] : i \in DOMAIN scores}
<1>1. DOMAIN spans = 1 .. Len(spans) /\ DOMAIN scores = 1 .. Len(scores) /\ Len(spans) \in Nat /\ Len(scores) \in Nat
  OBVIOUS
<1>2. /\ \A i \in DOMAIN spans : s[i].item = item /\ s[i].span = Apply(TableOf(r), spans[i])
      /\ \A i \in DOMAIN scores : t[i].item = item /\ t[i].span = None
  OBVIOUS
<1>3. DOMAIN s = DOMAIN spans /\ DOMAIN t = DOMAIN scores
  OBVIOUS
<1>4. \A i \in 1 .. Len(spans) : s[i] \in X
  BY <1>1
<1>5. \A i \in 1 .. Len(scores) : t[i] \in X
  BY <1>1
<1>6. s \in Seq(X)
  <2>1. s \in [1 .. Len(spans) -> X]
    BY <1>1, <1>4
  <2> HIDE DEF s, X
  <2> QED
    BY <1>1, <2>1
<1>7. t \in Seq(X)
  <2>1. t \in [1 .. Len(scores) -> X]
    BY <1>1, <1>5
  <2> HIDE DEF t, X
  <2> QED
    BY <1>1, <2>1
<1>8. Entries(r, item, spans, scores) = s \o t
  BY DEF Entries
<1> HIDE DEF s, t, X
<1>9. s \o t \in Seq(X) /\ ToSet(s \o t) = ToSet(s) \cup ToSet(t)
  BY <1>6, <1>7, ToSetConcat
<1>10. \A q \in Seq(X) : q \in Seq(ToSet(q))
  BY DEF ToSet
<1>11. \A e \in ToSet(s) : e.item = item /\ \E i \in DOMAIN spans : e.span = Apply(TableOf(r), spans[i])
  BY <1>2, <1>3 DEF ToSet
<1>12. \A e \in ToSet(t) : e.item = item /\ e.span = None
  BY <1>2, <1>3 DEF ToSet
<1> QED
  BY <1>8, <1>9, <1>10, <1>11, <1>12

\* The same of all that a traces request becomes.
LEMMA ReceivedAre ==
    ASSUME NEW r \in Requests, \A i \in DOMAIN Items[r] : Items[r][i].signal = "span"
    PROVE  LET got == FoldLeftDomain(LAMBDA got, i : got \o Received(r, i), <<>>, Items[r])
           IN  got \in Seq(UNION {ToSet(Received(r, i)) : i \in DOMAIN Items[r]})
<1> DEFINE n == Len(Items[r])
           E == UNION {ToSet(Received(r, i)) : i \in DOMAIN Items[r]}
           piece == [i \in 1 .. n |-> Received(r, i)]
           at == [i \in DOMAIN Items[r] |-> i]
           Recurs(it) == it = [T \in SUBSET (DOMAIN at) |->
                              IF T = {} THEN <<>> ELSE it[T \ {Max(T)}] \o Received(r, at[Max(T)])]
           fold == CHOOSE it : Recurs(it)
<1>0. n \in Nat /\ DOMAIN Items[r] = 1 .. n
  BY ItemsAssumption
<1>1. ASSUME NEW i \in 1 .. n PROVE Received(r, i) \in Seq(E)
  <2>1. Len(Items[r][i].events) \in Nat /\ DOMAIN Items[r][i].events = 1 .. Len(Items[r][i].events)
    <3>1. i \in DOMAIN Items[r] /\ Items[r][i].signal # "log"
      BY <1>0
    <3> QED
      BY <3>1, ItemsAssumption
  <2>2. PICK B : Verdicts(Items[r][i]) \in Seq(B)
    BY <2>1, VerdictsAreSeq
  <2> DEFINE span == ReceiveSpan(Items[r][i].scope, Items[r][i].service, Items[r][i].draft)
  <2>3. <<span>> \in Seq({span})
    OBVIOUS
  <2>4. Received(r, i) = Entries(r, i, <<span>>, Verdicts(Items[r][i]))
    BY DEF Received
  <2> DEFINE spans == <<span>>
             A == {span}
             verdicts == Verdicts(Items[r][i])
             entries == Entries(r, i, spans, verdicts)
  <2>5. Received(r, i) \in Seq(ToSet(Received(r, i)))
    <3>1. spans \in Seq(A) /\ verdicts \in Seq(B)
      BY <2>2, <2>3
    <3> HIDE DEF spans, A, verdicts
    <3>2. entries \in Seq(ToSet(entries))
      BY <3>1, EntriesAre
    <3>3. Received(r, i) = entries
      BY <2>4 DEF spans, verdicts
    <3> QED
      BY <3>2, <3>3
  <2>6. ToSet(Received(r, i)) \subseteq E
    BY <1>0
  <2> HIDE DEF E
  <2> QED
    BY <2>5, <2>6
<1>2. piece \in [1 .. n -> Seq(E)]
  BY <1>1
<1>3. \A T \in SUBSET (1 .. n) : T # {} => Max(T) \in 1 .. n
  BY <1>0, MaxOfIndices
<1>4. DOMAIN at = 1 .. n /\ \A i \in 1 .. n : at[i] = i
  BY <1>0
<1>5. ASSUME NEW it PROVE Recurs(it) <=> Concatenates(it, n, piece)
  <2>1. \A T \in SUBSET (1 .. n) : T # {} => piece[Max(T)] = Received(r, at[Max(T)])
    BY <1>3, <1>4
  <2> HIDE DEF piece, at, n
  <2> QED
    BY <1>4, <2>1 DEF Concatenates
<1>6. FoldLeftDomain(LAMBDA got, i : got \o Received(r, i), <<>>, Items[r]) = fold[1 .. n]
  BY <1>4 DEF FoldLeftDomain, FoldLeft, MapThenFoldSet
<1> HIDE DEF E, n, piece, at
<1>7. \E it : Concatenates(it, n, piece)
  BY <1>0, <1>2, ConcatenationExists
<1>8. Concatenates(fold, n, piece)
  <2>1. Recurs(fold)
    <3>1. PICK it : Recurs(it)
      BY <1>5, <1>7
    <3> QED
      BY <3>1
  <2> HIDE DEF Recurs, fold
  <2> QED
    BY <1>5, <2>1
<1> HIDE DEF fold
<1>9. fold[1 .. n] \in Seq(E)
  BY <1>0, <1>2, <1>8, ConcatenationIsSeq
<1> QED
  BY <1>6, <1>9 DEF E

----------------------------------------------------------------------------
(***************************************************************************)
(* Facts of the records.                                                   *)
(***************************************************************************)

\* What an item becomes when nothing is remembered.
ItsSpan(r, i) ==
    IF i \in LogsOf(r) THEN Alone(Rec(r, i)).span
    ELSE ReceiveSpan(Items[r][i].scope, Items[r][i].service, Items[r][i].draft)
HasItsFacts(r, t, e) == e.span # None => FactsOf(e.span) = FactsOf(Apply(t, ItsSpan(r, e.item)))

\* The variables are functions over the requests, and what a request became is
\* a sequence that is empty but while it is mapped.
Shape ==
    /\ DOMAIN pc = Requests /\ DOMAIN pos = Requests /\ DOMAIN local = Requests /\ DOMAIN first = Requests
    /\ DOMAIN prices = Requests /\ DOMAIN out = Requests
Placed(r) ==
    /\ pos[r] \in Nat \ {0} /\ out[r] \in Seq(ToSet(out[r]))
    /\ pc[r] # "mapping" => out[r] = <<>>
HaveFacts(r) == \A e \in ToSet(out[r]) : HasItsFacts(r, prices[r], e)
FactsInv == Shape /\ \A r \in Requests : Placed(r) /\ HaveFacts(r)

LEMMA LogItemIs ==
    ASSUME NEW r \in Requests, NEW i \in DOMAIN Items[r], Items[r][i].signal = "log"
    PROVE  i \in LogsOf(r) /\ DOMAIN Rec(r, i).attrs = DOMAIN Bare /\ \A j \in DOMAIN Items[r] : j \in LogsOf(r)
<1>1. \A j \in DOMAIN Items[r] : Items[r][j].signal = Items[r][i].signal
  BY ItemsAssumption
<1>2. DOMAIN Items[r][i].rec.attrs = DOMAIN Bare
  BY ItemsAssumption
<1> QED
  BY <1>1, <1>2 DEF LogsOf, Rec

\* The item a request is at is one of its items.
LEMMA PosIsItem ==
    ASSUME NEW r \in Requests, Placed(r), pos[r] <= Len(Items[r])
    PROVE  pos[r] \in DOMAIN Items[r]
<1>1. pos[r] \in Nat \ {0} /\ Len(Items[r]) \in Nat /\ DOMAIN Items[r] = 1 .. Len(Items[r])
  BY ItemsAssumption DEF Placed
<1> QED
  BY <1>1

\* A request that a step leaves alone, one that is forgotten, and one that
\* becomes something more.
LEMMA LeftAlone ==
    ASSUME NEW r \in Requests, Placed(r), pos'[r] = pos[r], out'[r] = out[r], pc'[r] = pc[r]
    PROVE  Placed(r)' /\ (prices'[r] = prices[r] /\ HaveFacts(r) => HaveFacts(r)')
<1>1. Placed(r)'
  BY DEF Placed, ToSet
<1>2. ASSUME prices'[r] = prices[r], HaveFacts(r) PROVE HaveFacts(r)'
  BY <1>2 DEF HaveFacts, ToSet
<1> QED
  BY <1>1, <1>2

LEMMA Emptied ==
    ASSUME NEW r \in Requests, pos'[r] \in Nat \ {0}, out'[r] = <<>>
    PROVE  Placed(r)' /\ HaveFacts(r)'
<1>1. <<>> \in Seq({}) /\ ToSet(<<>>) = {}
  BY DEF ToSet
<1> QED
  BY <1>1 DEF Placed, HaveFacts, ToSet

LEMMA Grown ==
    ASSUME NEW r \in Requests, pc'[r] = "mapping", pos'[r] \in Nat \ {0},
           NEW new, new \in Seq(ToSet(new)), out'[r] = new
    PROVE  /\ Placed(r)'
           /\ prices'[r] = prices[r] /\ (\A e \in ToSet(new) : HasItsFacts(r, prices[r], e)) => HaveFacts(r)'
BY DEF Placed, HaveFacts, HasItsFacts, FactsOf, Apply, ItsSpan, ToSet

\* A step that forgets what some requests became.
LEMMA ForgetKeepsFacts ==
    ASSUME FactsInv, NEW R \in SUBSET Requests, Forget(R), DOMAIN pc' = Requests,
           \A r \in Requests \ R : pc'[r] = pc[r]
    PROVE  FactsInv'
<1>1. Shape'
  BY DEF Forget, Shape
<1>2. ASSUME NEW r \in Requests PROVE Placed(r)' /\ HaveFacts(r)'
  <2>1. CASE r \in R
    <3>1. pos'[r] = 1 /\ out'[r] = <<>>
      BY <2>1 DEF Forget
    <3> QED
      BY <3>1, Emptied
  <2>2. CASE r \notin R
    <3>1. pos'[r] = pos[r] /\ out'[r] = out[r] /\ prices'[r] = prices[r] /\ pc'[r] = pc[r]
      BY <2>2 DEF Forget
    <3> QED
      BY <3>1, LeftAlone DEF FactsInv
  <2> QED
    BY <2>1, <2>2
<1> QED
  BY <1>1, <1>2 DEF FactsInv

\* What an item became has its facts.
LEMMA EntriesHaveFacts ==
    ASSUME NEW r \in Requests, NEW i, NEW A, NEW spans \in Seq(A), NEW B, NEW scores \in Seq(B),
           \A j \in DOMAIN spans : FactsOf(Apply(prices[r], spans[j])) = FactsOf(Apply(prices[r], ItsSpan(r, i)))
    PROVE  \A e \in ToSet(Entries(r, i, spans, scores)) : HasItsFacts(r, prices[r], e)
<1>1. \A e \in ToSet(Entries(r, i, spans, scores)) :
          e.item = i /\ (e.span # None => \E j \in DOMAIN spans : e.span = Apply(TableOf(r), spans[j]))
  BY EntriesAre
<1> QED
  BY <1>1 DEF HasItsFacts, TableOf

LEMMA MapKeepsFacts ==
    ASSUME FactsInv, NEW r \in Requests, Map(r)
    PROVE  FactsInv'
<1> DEFINE i == pos[r]
           rec == Items[r][i].rec
           now == Seen(r, rec)
           m == MapRecord(rec, Policy, OrElse(first[r], now), now)
           entries == Entries(r, i, Some(m.span), Some(m.score))
<1>1. pc[r] = "mapping" /\ i \in DOMAIN Items[r] /\ Items[r][i].signal = "log"
  BY PosIsItem DEF Map, Mapping, FactsInv
<1>2. i \in LogsOf(r) /\ DOMAIN rec.attrs = DOMAIN Bare /\ rec = Rec(r, i)
  BY <1>1, LogItemIs DEF Rec
<1>3. out' = [out EXCEPT ![r] = @ \o entries]
  BY DEF Map
<1>4. \A t : FactsOf(Apply(t, m.span)) = FactsOf(Apply(t, ItsSpan(r, i)))
  <2> DEFINE nothing == [codex |-> NewConversation, gemini |-> NewSession]
             old == OrElse(first[r], now)
  <2>1. ItsSpan(r, i) = MapRecord(rec, Policy, nothing, nothing).span
    BY <1>2 DEF ItsSpan, Alone
  <2> HIDE DEF nothing, now, old, rec
  <2>2. DOMAIN rec.attrs = DOMAIN Bare
    BY <1>2
  <2>3. ASSUME NEW t
        PROVE  FactsOf(Apply(t, MapRecord(rec, Policy, old, now).span))
               = FactsOf(Apply(t, MapRecord(rec, Policy, nothing, nothing).span))
    BY ONLY <2>2, MapSame
  <2> QED
    BY <2>1, <2>3 DEF old
<1> HIDE DEF rec, now, i, m
<1>5. Some(m.span) \in Seq({m.span}) /\ Some(m.score) \in Seq({m.score}) /\ \A j \in DOMAIN Some(m.span) : Some(m.span)[j] = m.span
  <2>1. Some(m.span) \in Seq({m.span}) /\ Some(m.score) \in Seq({m.score})
    BY SomeIsSeq
  <2>2. \A j \in DOMAIN Some(m.span) : Some(m.span)[j] = m.span
    BY DEF Some
  <2> QED
    BY <2>1, <2>2
<1>6. entries \in Seq(ToSet(entries)) /\ \A e \in ToSet(entries) : HasItsFacts(r, prices[r], e)
  <2> DEFINE spans == Some(m.span)
             scores == Some(m.score)
  <2>1. entries = Entries(r, i, spans, scores)
    OBVIOUS
  <2>2. spans \in Seq({m.span}) /\ scores \in Seq({m.score})
    BY <1>5
  <2>3. \A j \in DOMAIN spans : FactsOf(Apply(prices[r], spans[j])) = FactsOf(Apply(prices[r], ItsSpan(r, i)))
    BY <1>4, <1>5
  <2> HIDE DEF spans, scores, entries
  <2>4. /\ Entries(r, i, spans, scores) \in Seq(ToSet(Entries(r, i, spans, scores)))
        /\ \A e \in ToSet(Entries(r, i, spans, scores)) : HasItsFacts(r, prices[r], e)
    BY <2>2, <2>3, EntriesAre, EntriesHaveFacts
  <2> QED
    BY <2>1, <2>4
<1> HIDE DEF entries
<1>7. out[r] \o entries \in Seq(ToSet(out[r] \o entries)) /\ ToSet(out[r] \o entries) = ToSet(out[r]) \cup ToSet(entries)
  <2> DEFINE X == ToSet(out[r]) \cup ToSet(entries)
             both == out[r] \o entries
  <2>1. out[r] \in Seq(X) /\ entries \in Seq(X)
    <3>1. out[r] \in Seq(ToSet(out[r]))
      BY DEF FactsInv, Placed
    <3> QED
      BY <1>6, <3>1
  <2> HIDE DEF X
  <2>2. both \in Seq(X) /\ ToSet(both) = ToSet(out[r]) \cup ToSet(entries)
    BY <2>1, ToSetConcat
  <2>3. \A q \in Seq(X) : q \in Seq(ToSet(q))
    BY DEF ToSet
  <2> QED
    BY <2>2, <2>3
<1>8. /\ DOMAIN pos' = Requests /\ DOMAIN first' = Requests /\ DOMAIN local' = Requests /\ DOMAIN out' = Requests
      /\ pos'[r] = pos[r] + 1 /\ out'[r] = out[r] \o entries /\ pc' = pc /\ prices' = prices
      /\ \A s \in Requests \ {r} : pos'[s] = pos[s] /\ out'[s] = out[s]
  BY <1>3 DEF Map, FactsInv, Shape
<1>9. ASSUME NEW s \in Requests PROVE Placed(s)' /\ HaveFacts(s)'
  <2>1. CASE s # r
    BY <1>8, <2>1, LeftAlone DEF FactsInv
  <2>2. CASE s = r
    <3>1. \A e \in ToSet(out[r] \o entries) : HasItsFacts(r, prices[r], e)
      BY <1>6, <1>7 DEF FactsInv, HaveFacts
    <3>2. pos'[r] \in Nat \ {0} /\ pc'[r] = "mapping" /\ prices'[r] = prices[r]
      BY <1>1, <1>8 DEF FactsInv, Placed
    <3> QED
      BY <1>7, <1>8, <2>2, <3>1, <3>2, Grown
  <2> QED
    BY <2>1, <2>2
<1> QED
  BY <1>8, <1>9 DEF FactsInv, Shape

LEMMA ReceiveKeepsFacts ==
    ASSUME FactsInv, NEW r \in Requests, Receive(r)
    PROVE  FactsInv'
<1> DEFINE n == Len(Items[r])
           new == FoldLeftDomain(LAMBDA got, i : got \o Received(r, i), <<>>, Items[r])
<1>1. pc[r] = "mapping" /\ pos[r] \in DOMAIN Items[r] /\ Items[r][pos[r]].signal = "span"
  BY PosIsItem DEF Receive, Mapping, FactsInv
<1>2. \A i \in DOMAIN Items[r] : Items[r][i].signal = "span"
  BY <1>1, ItemsAssumption
<1>3. new \in Seq(UNION {ToSet(Received(r, i)) : i \in DOMAIN Items[r]})
  BY <1>2, ReceivedAre
<1>4. out' = [out EXCEPT ![r] = new]
  BY DEF Receive
<1> HIDE DEF new
<1>5. new \in Seq(ToSet(new)) /\ ToSet(new) \subseteq UNION {ToSet(Received(r, i)) : i \in DOMAIN Items[r]}
  BY <1>3 DEF ToSet
<1>6. ASSUME NEW i \in DOMAIN Items[r] PROVE \A e \in ToSet(Received(r, i)) : HasItsFacts(r, prices[r], e)
  <2> DEFINE span == ReceiveSpan(Items[r][i].scope, Items[r][i].service, Items[r][i].draft)
             spans == <<span>>
             verdicts == Verdicts(Items[r][i])
  <2>1. Len(Items[r][i].events) \in Nat /\ DOMAIN Items[r][i].events = 1 .. Len(Items[r][i].events)
    <3>1. Items[r][i].signal # "log"
      BY <1>2
    <3> QED
      BY <3>1, ItemsAssumption
  <2>2. PICK B : verdicts \in Seq(B)
    BY <2>1, VerdictsAreSeq
  <2>3. ItsSpan(r, i) = span
    <3>1. i \notin LogsOf(r)
      BY <1>2 DEF LogsOf
    <3> QED
      BY <3>1 DEF ItsSpan
  <2>4. Received(r, i) = Entries(r, i, spans, verdicts)
    BY DEF Received
  <2> HIDE DEF span, verdicts
  <2>5. spans \in Seq({span}) /\ \A j \in DOMAIN spans : spans[j] = ItsSpan(r, i)
    BY <2>3
  <2> HIDE DEF spans
  <2>6. \A e \in ToSet(Entries(r, i, spans, verdicts)) : HasItsFacts(r, prices[r], e)
    BY <2>2, <2>5, EntriesHaveFacts
  <2> QED
    BY <2>4, <2>6
<1>7. /\ DOMAIN pos' = Requests /\ DOMAIN out' = Requests /\ pos'[r] = n + 1 /\ out'[r] = new
      /\ pc' = pc /\ prices' = prices /\ first' = first /\ local' = local
      /\ \A s \in Requests \ {r} : pos'[s] = pos[s] /\ out'[s] = out[s]
  BY <1>4 DEF Receive, requestVars, FactsInv, Shape
<1>8. ASSUME NEW s \in Requests PROVE Placed(s)' /\ HaveFacts(s)'
  <2>1. CASE s # r
    BY <1>7, <2>1, LeftAlone DEF FactsInv
  <2>2. CASE s = r
    <3>1. \A e \in ToSet(new) : HasItsFacts(r, prices[r], e)
      BY <1>5, <1>6
    <3>2. n \in Nat
      BY ItemsAssumption
    <3>3. pos'[r] \in Nat \ {0} /\ pc'[r] = "mapping" /\ prices'[r] = prices[r]
      BY <1>1, <1>7, <3>2
    <3> QED
      BY <1>5, <1>7, <2>2, <3>1, <3>3, Grown
  <2> QED
    BY <2>1, <2>2
<1> QED
  BY <1>7, <1>8 DEF FactsInv, Shape

LEMMA AbandonKeepsFacts ==
    ASSUME FactsInv, NEW R \in SUBSET Requests, Abandon(R)
    PROVE  FactsInv'
BY ForgetKeepsFacts DEF Abandon

\* A step that leaves the entries, the place and the table of every request.
LEMMA OthersKeepFacts ==
    ASSUME FactsInv, Shape', pc' = pc, pos' = pos, out' = out, prices' = prices
    PROVE  FactsInv'
BY LeftAlone DEF FactsInv

LEMMA BeginKeepsFacts ==
    ASSUME FactsInv, NEW r \in Requests, Begin(r)
    PROVE  FactsInv'
<1>1. /\ pc[r] = "new" /\ pc' = [pc EXCEPT ![r] = "mapping"] /\ prices' = [prices EXCEPT ![r] = table']
      /\ pos' = pos /\ out' = out /\ first' = first /\ local' = local
  BY DEF Begin
<1>2. Shape'
  BY <1>1 DEF FactsInv, Shape
<1>3. ASSUME NEW s \in Requests PROVE Placed(s)' /\ HaveFacts(s)'
  <2>1. CASE s # r
    <3>1. pc'[s] = pc[s] /\ prices'[s] = prices[s]
      BY <1>1, <2>1 DEF FactsInv, Shape
    <3> QED
      BY <1>1, <3>1, LeftAlone DEF FactsInv
  <2>2. CASE s = r
    <3>1. out[r] = <<>> /\ pos[r] \in Nat \ {0}
      BY <1>1 DEF FactsInv, Placed
    <3> QED
      BY <1>1, <2>2, <3>1, Emptied
  <2> QED
    BY <2>1, <2>2
<1> QED
  BY <1>2, <1>3 DEF FactsInv

LEMMA FactsStep == FactsInv /\ [Next]_vars => FactsInv'
<1> SUFFICES ASSUME FactsInv, [Next]_vars PROVE FactsInv'
  OBVIOUS
<1>1. CASE Edit
  BY <1>1, OthersKeepFacts DEF Edit, requestVars, FactsInv, Shape
<1>2. CASE Restart
  <2>1. Abandon({r \in Requests : pc[r] = "mapping"})
    BY <1>2 DEF Restart
  <2> QED
    BY <2>1, AbandonKeepsFacts
<1>3. ASSUME NEW r \in Requests, Begin(r) PROVE FactsInv'
  BY <1>3, BeginKeepsFacts
<1>4. ASSUME NEW r \in Requests, Look(r) PROVE FactsInv'
  <2>1. DOMAIN first' = Requests /\ pc' = pc /\ pos' = pos /\ out' = out /\ prices' = prices /\ local' = local
    BY <1>4 DEF Look, FactsInv, Shape
  <2> QED
    BY <2>1, OthersKeepFacts DEF FactsInv, Shape
<1>5. ASSUME NEW r \in Requests, Map(r) PROVE FactsInv'
  BY <1>5, MapKeepsFacts
<1>6. ASSUME NEW r \in Requests, Receive(r) PROVE FactsInv'
  BY <1>6, ReceiveKeepsFacts
<1>7. ASSUME NEW r \in Requests, Accept(r) PROVE FactsInv'
  <2>1. Forget({r}) /\ pc' = [pc EXCEPT ![r] = "stored"]
    BY <1>7 DEF Accept
  <2>2. DOMAIN pc' = Requests /\ \A s \in Requests \ {r} : pc'[s] = pc[s]
    BY <2>1 DEF FactsInv, Shape
  <2> QED
    BY <2>1, <2>2, ForgetKeepsFacts
<1>8. ASSUME NEW r \in Requests, Refuse(r) PROVE FactsInv'
  <2>1. Abandon({r}) /\ {r} \in SUBSET Requests
    BY <1>8 DEF Refuse
  <2> QED
    BY <2>1, AbandonKeepsFacts
<1>9. CASE UNCHANGED vars
  BY <1>9, OthersKeepFacts DEF vars, requestVars, FactsInv, Shape
<1> QED
  BY <1>1, <1>2, <1>3, <1>4, <1>5, <1>6, <1>7, <1>8, <1>9 DEF Next

LEMMA FactsInit == Init => FactsInv
<1> SUFFICES ASSUME Init PROVE FactsInv
  OBVIOUS
<1>1. <<>> \in Seq({}) /\ ToSet(<<>>) = {}
  BY DEF ToSet
<1>2. \A r \in Requests : pos[r] = 1 /\ out[r] = <<>>
  BY DEF Init
<1> QED
  BY <1>1, <1>2 DEF Init, FactsInv, Shape, Placed, HaveFacts

LEMMA FactsInvariant == Spec => []FactsInv
BY FactsInit, FactsStep, PTL DEF Spec

\* Tokens, cost, session, model, kind and identity of a span are what its record
\* gives alone with the table its request took (logs.rs, module docs: Recall
\* only places a span), however the requests, the price file, restarts and
\* refusals of the store interleave.
THEOREM FactsHold == Spec => []FactsAreTheRecords
<1>1. FactsInv => FactsAreTheRecords
  <2> SUFFICES ASSUME FactsInv, NEW r \in Requests
               PROVE  /\ \A e \in LogSpans(r) :
                             FactsOf(e.span) = FactsOf(Apply(prices[r], Alone(Rec(r, e.item)).span))
                      /\ \A e \in TracedSpans(r) :
                             FactsOf(e.span) = FactsOf(Apply(prices[r],
                                 ReceiveSpan(Items[r][e.item].scope, Items[r][e.item].service, Items[r][e.item].draft)))
    BY DEF FactsAreTheRecords
  <2>1. \A e \in Sent(r) : FactsOf(e.span) = FactsOf(Apply(prices[r], ItsSpan(r, e.item)))
    BY DEF FactsInv, HaveFacts, HasItsFacts, Sent
  <2> QED
    BY <2>1 DEF LogSpans, TracedSpans, ItsSpan
<1> QED
  BY <1>1, FactsInvariant, PTL

----------------------------------------------------------------------------
(***************************************************************************)
(* What a request remembers itself.                                        *)
(***************************************************************************)

\* What is remembered has the fields of a conversation or a session, and the
\* refusals of a conversation are those of records.
RefusalsSent == UNION {{Refusal(Rec(r, i)) : i \in LogsOf(r)} : r \in Requests}
IsConversation(c) == DOMAIN c = DOMAIN NewConversation /\ c.refused \in Seq(RefusalsSent)
IsSession(c) == DOMAIN c = DOMAIN NewSession
Remembers(codex, gemini) ==
    /\ \A s \in DOMAIN codex : IsConversation(codex[s])
    /\ \A s \in DOMAIN gemini : IsSession(gemini[s])

\* The layer of the node names the sessions it knows in order.
Ordered(node) == node.order \in Seq(DOMAIN node.map)
NodeRemembers ==
    /\ Ordered(recall.codex) /\ Ordered(recall.gemini)
    /\ DOMAIN recall = {"codex", "gemini"}
    /\ Remembers(recall.codex.map, recall.gemini.map)

\* What the records before the i-th said of their sessions, a request knows.
SessionsOf(r, d) == {SessionOf(d, Rec(r, j)) : j \in LogsOf(r)}
KnowsTurn(r, i, d, mine) ==
    \A s \in SessionsOf(r, d) :
        Prompts(r, i, d, s) # {} =>
            s \in DOMAIN mine /\ mine[s].turn = TurnOf(d, Rec(r, Max(Prompts(r, i, d, s))))
KnowsRequest(r, i, mine) ==
    \A s \in SessionsOf(r, "codex") :
        SentBefore(r, i, s) # {} =>
            s \in DOMAIN mine /\ mine[s].request = SentRequest(Rec(r, Max(SentBefore(r, i, s))))
LaterRefusals(r, i, s, j) == {k \in Refusals(r, i, s) : k > j}
Keeps(c, refusal, room) == \E p \in DOMAIN c.refused : c.refused[p] = refusal /\ Len(c.refused) - p <= room
KnowsRefusals(r, i, mine) ==
    \A s \in SessionsOf(r, "codex") : \A j \in Refusals(r, i, s) :
        j \in Standing(r, i, s, AttrStr(Rec(r, j).attrs, "call_id")) =>
            s \in DOMAIN mine /\ Keeps(mine[s], Refusal(Rec(r, j)), Cardinality(LaterRefusals(r, i, s, j)))
Knows(r, i, mine) ==
    /\ KnowsTurn(r, i, "codex", mine.codex) /\ KnowsTurn(r, i, "gemini", mine.gemini)
    /\ KnowsRequest(r, i, mine.codex) /\ KnowsRefusals(r, i, mine.codex)

\* What a mapping saw when it first looked is its own layer's, where that knows
\* the session.
SawItsOwn(r) ==
    LET rec == Rec(r, pos[r])
    IN  first[r] # None =>
            /\ pos[r] \in LogsOf(r)
            /\ SessionOf("codex", rec) \in DOMAIN local[r].codex =>
                   first[r].codex = local[r].codex[SessionOf("codex", rec)]
            /\ SessionOf("gemini", rec) \in DOMAIN local[r].gemini =>
                   first[r].gemini = local[r].gemini[SessionOf("gemini", rec)]

\* What RequestIsExact says of one span.
IsExact(r, e) ==
    e.span # None /\ e.item \in LogsOf(r) =>
        LET dialect == DialectOf(Rec(r, e.item))
        IN  /\ dialect \in {"codex", "gemini"} => PlacedByPrompt(r, e, dialect)
            /\ dialect = "codex" => StartedByRequest(r, e) /\ RefusedByDecision(r, e)

KnowsItsOwn(r) ==
    /\ DOMAIN local[r] = {"codex", "gemini"} /\ Remembers(local[r].codex, local[r].gemini)
    /\ Policy # "off" => Knows(r, pos[r], local[r])
    /\ SawItsOwn(r)
    /\ \A e \in ToSet(out[r]) : IsExact(r, e)
KnowledgeInv == Shape /\ NodeRemembers /\ \A r \in Requests : Placed(r) /\ KnowsItsOwn(r)

----------------------------------------------------------------------------
(***************************************************************************)
(* Where a mapping puts a span, when it starts and whether it failed.      *)
(***************************************************************************)

PlaceOf(n) == <<n.trace, n.parent, n.start, n.status>>

LEMMA AgentPlace ==
    ASSUME NEW n, DOMAIN n = SpanFields
    PROVE  DOMAIN AgentPass(n) = SpanFields /\ PlaceOf(AgentPass(n)) = PlaceOf(n)
<1> DEFINE Tool == Canonical(Canonical(n.raw, ToolName), ToolCallId)
           Agent == Canonical(Canonical(n.raw, AgentName), AgentId)
           Named == [n EXCEPT !.raw = Agent]
           aside == n.kind # Client /\ (n.tokens # NoTokens \/ n.cost # None)
<1>1. AgentPass(n) \in {n, [n EXCEPT !.raw = Tool], Named, SetAside(Named, "aggregate")}
  <2>1. CASE n.oi = "TOOL"
    BY <2>1 DEF AgentPass
  <2>2. CASE n.oi \in {"AGENT", "CHAIN"}
    <3>1. AgentPass(n) = IF aside THEN SetAside(Named, "aggregate") ELSE Named
      BY <2>2 DEF AgentPass
    <3> HIDE DEF Named, aside
    <3> QED
      BY <3>1
  <2>3. CASE n.oi \notin {"TOOL", "AGENT", "CHAIN"}
    BY <2>3 DEF AgentPass
  <2> QED
    BY <2>1, <2>2, <2>3
<1>2. ASSUME NEW x PROVE DOMAIN [n EXCEPT !.raw = x] = SpanFields /\ PlaceOf([n EXCEPT !.raw = x]) = PlaceOf(n)
  BY DEF PlaceOf, SpanFields
<1>3. ASSUME NEW m, DOMAIN m = SpanFields
      PROVE  DOMAIN SetAside(m, "aggregate") = SpanFields /\ PlaceOf(SetAside(m, "aggregate")) = PlaceOf(m)
  BY <1>3 DEF SetAside, PlaceOf, SpanFields
<1> HIDE DEF Tool, Agent
<1>4. DOMAIN Named = SpanFields /\ PlaceOf(Named) = PlaceOf(n)
  BY <1>2
<1> HIDE DEF Named
<1> QED
  BY <1>1, <1>2, <1>3, <1>4

LEMMA ApplyPlace ==
    ASSUME NEW t, NEW n, DOMAIN n = SpanFields
    PROVE  PlaceOf(Apply(t, n)) = PlaceOf(n)
<1> DEFINE Cost == PriceTokens(Lookup(t, n.model), n.tokens, BasisOf(n))
           Raw == IF BasisOf(n) = Default THEN Without(n.raw, "evald.cost.basis")
                  ELSE WithStr(Without(n.raw, "evald.cost.basis"), "evald.cost.basis", Stamp(BasisOf(n)))
<1>1. Apply(t, n) \in {n, [n EXCEPT !.cost = Cost, !.raw = Raw]}
  BY DEF Apply
<1> HIDE DEF Cost, Raw
<1>2. PlaceOf([n EXCEPT !.cost = Cost, !.raw = Raw]) = PlaceOf(n)
  BY DEF PlaceOf, SpanFields
<1> QED
  BY <1>1, <1>2

\* A span sits where its mapping put it.
LEMMA FinishPlace ==
    ASSUME NEW t, NEW rec, NEW d
    PROVE  PlaceOf(Apply(t, Finish(rec, d))) = <<d.trace, d.parent, d.start, IF d.error = None THEN 0 ELSE ErrorStatus>>
<1> DEFINE draft == [trace |-> d.trace, id |-> d.id, parent |-> d.parent, name |-> d.name, kind |-> Internal,
                     start |-> d.start, end |-> RecordTime(rec), status |-> IF d.error = None THEN 0 ELSE ErrorStatus,
                     message |-> d.error, attrs |-> d.attrs]
           read == ReadSpan(draft, rec.service)
<1>1. DOMAIN read = SpanFields /\ read.trace = draft.trace /\ read.parent = draft.parent
      /\ read.start = draft.start /\ read.status = draft.status
  <2> HIDE DEF draft
  <2> QED
    BY DEF ReadSpan, SpanFields
<1>2. PlaceOf(read) = <<d.trace, d.parent, d.start, IF d.error = None THEN 0 ELSE ErrorStatus>>
  BY <1>1 DEF PlaceOf
<1>3. Finish(rec, d) = AgentPass(read)
  BY DEF Finish, NormalizeSpan
<1> HIDE DEF draft, read
<1> QED
  BY <1>1, <1>2, <1>3, AgentPlace, ApplyPlace

\* Where a Codex record is put when both looks at the conversation agree.
CodexPlaced(rec, f, n, x) ==
    LET at == RefusalAt(n, AttrStr(rec.attrs, "call_id"))
    IN  /\ EventName(rec) # "codex.user_prompt" /\ f.turn = n.turn /\ n.turn # None =>
               x.trace = n.turn[1] /\ x.parent = n.turn[2]
        /\ EventName(rec) = "codex.sse_event" /\ OwnContext(rec) = None /\ f.request # None =>
               x.start = Min({f.request.start, RecordTime(rec)})
        /\ EventName(rec) = "codex.tool_result" /\ at # 0 /\ n.refused[at][2] # None => x.status = ErrorStatus

LEMMA CodexPlaces ==
    ASSUME NEW t, NEW rec, NEW f, NEW n, CodexMap(rec, f, n).span # None, NEW x, x = Apply(t, CodexMap(rec, f, n).span)
    PROVE  CodexPlaced(rec, f, n, x)
<1> DEFINE a == rec.attrs
           event == EventName(rec)
           conv == Text(a, "conversation.id")
           kind == AttrStr(a, "event.kind")
           broken == IF kind \in {None, "response.completed", "response.failed"} THEN AttrStr(a, "error.message") ELSE None
           call == AttrStr(a, "call_id")
           i == RefusalAt(n, call)
           place == CodexPlace(n, conv)
<1>1. \/ event = "codex.user_prompt"
      \/ event \notin {"codex.user_prompt", "codex.sse_event", "codex.tool_result"}
         /\ CodexMap(rec, f, n).span = CodexLlmSpan(rec, conv, RequestError(rec), f, n)
      \/ event = "codex.sse_event" /\ CodexMap(rec, f, n).span = CodexLlmSpan(rec, conv, broken, f, n)
      \/ event = "codex.tool_result" /\ CodexMap(rec, f, n).span = CodexToolSpan(rec, conv, f, n)
  BY DEF CodexMap, NotMine, Folds, Becomes, IsRequest
<1>2. ASSUME NEW error, NEW span, span = Apply(t, CodexLlmSpan(rec, conv, error, f, n))
      PROVE  /\ span.trace = place[1] /\ span.parent = place[2]
             /\ OwnContext(rec) = None /\ f.request # None => span.start = Min({f.request.start, RecordTime(rec)})
  <2> DEFINE own == IF OwnContext(rec) # None \/ f.request = None THEN OwnContext(rec) ELSE f.request.own
             start == CASE OwnContext(rec) # None -> StartOf(rec)
                        [] OwnContext(rec) = None /\ f.request # None -> Min({f.request.start, RecordTime(rec)})
                        [] OTHER -> RecordTime(rec)
             named == AddAll(Common(rec, conv, own),
                        <<<<"gen_ai.operation.name", "chat">>, <<"gen_ai.provider.name", f.provider>>>> \o Model(a))
             attrs == AddCounts(named, CodexCounts(a))
             d == [trace |-> place[1], id |-> <<"codex.llm", conv, RecordTime(rec), Text(a, "attempt")>>,
                   parent |-> place[2], name |-> "codex.llm_request", start |-> start,
                   error |-> error, attrs |-> attrs]
  <2>1. CodexLlmSpan(rec, conv, error, f, n) = Finish(rec, d)
    BY DEF CodexLlmSpan
  <2>2. d.trace = place[1] /\ d.parent = place[2] /\ d.start = start
    <3> HIDE DEF place, start, attrs, conv
    <3> QED
      OBVIOUS
  <2>3. OwnContext(rec) = None /\ f.request # None => start = Min({f.request.start, RecordTime(rec)})
    OBVIOUS
  <2> HIDE DEF d, start, place
  <2>4. PlaceOf(Apply(t, Finish(rec, d))) = <<d.trace, d.parent, d.start, IF d.error = None THEN 0 ELSE ErrorStatus>>
    BY FinishPlace
  <2> QED
    BY <1>2, <2>1, <2>2, <2>3, <2>4 DEF PlaceOf
<1>3. ASSUME NEW span, span = Apply(t, CodexToolSpan(rec, conv, f, n))
      PROVE  /\ f.turn = n.turn => span.trace = place[1] /\ span.parent = place[2]
             /\ i # 0 /\ n.refused[i][2] # None => span.status = ErrorStatus
  <2> DEFINE error == CASE i # 0 -> n.refused[i][2]
                        [] i = 0 /\ AttrStr(a, "success") = "false" -> "tool failed"
                        [] i = 0 /\ AttrStr(a, "success") # "false" /\ ExitCode(a) # None -> <<"exit code", ExitCode(a)>>
                        [] OTHER -> None
             attrs == AddAll(Common(rec, conv, OwnContext(rec)),
                        <<<<"gen_ai.operation.name", "execute_tool">>, <<"gen_ai.tool.name", CodexToolName(a)>>,
                          <<"gen_ai.tool.call.id", call>>, <<"gen_ai.tool.call.arguments", TextOrNone(a, "arguments")>>,
                          <<"mcp.server.name", TextOrNone(a, "mcp_server")>>>>)
             id == <<"codex.tool", IF call = None THEN <<conv, RecordTime(rec)>> ELSE <<call>>>>
             there == CodexPlace(f, conv)
             d == [trace |-> there[1], parent |-> there[2], id |-> id,
                   name |-> "codex.tool", start |-> StartOf(rec), error |-> error, attrs |-> attrs]
  <2>1. CodexToolSpan(rec, conv, f, n) = Finish(rec, d)
    BY DEF CodexToolSpan
  <2>2. d.trace = there[1] /\ d.parent = there[2] /\ d.error = error
    <3> HIDE DEF there, error, attrs, id
    <3> QED
      OBVIOUS
  <2>3. i # 0 => error = n.refused[i][2]
    <3> HIDE DEF i
    <3> QED
      OBVIOUS
  <2>4. f.turn = n.turn => there = place
    BY DEF CodexPlace
  <2> HIDE DEF d, error, there, place, i
  <2>5. PlaceOf(Apply(t, Finish(rec, d))) = <<d.trace, d.parent, d.start, IF d.error = None THEN 0 ELSE ErrorStatus>>
    BY FinishPlace
  <2> QED
    BY <1>3, <2>1, <2>2, <2>3, <2>4, <2>5 DEF PlaceOf
<1>4. n.turn # None => place = n.turn
  BY DEF CodexPlace, OrElse
<1> HIDE DEF place, i, broken, conv
<1>5. i = RefusalAt(n, AttrStr(rec.attrs, "call_id"))
  BY DEF i
<1> HIDE DEF event
<1>6. event = EventName(rec)
  BY DEF event
<1> QED
  BY <1>1, <1>2, <1>3, <1>4, <1>5, <1>6 DEF CodexPlaced

\* The same of Gemini CLI, which the turn alone is kept for.
LEMMA GeminiPlaces ==
    ASSUME NEW t, NEW rec, NEW f, NEW n, GeminiMap(rec, f, n).span # None,
           EventName(rec) # "gemini_cli.user_prompt", f.turn # None, NEW span, span = Apply(t, GeminiMap(rec, f, n).span)
    PROVE  span.trace = f.turn[1] /\ span.parent = f.turn[2]
<1> DEFINE a == rec.attrs
           event == EventName(rec)
           session == Text(a, "session.id")
           why == OrElse(FirstStr(a, <<"error", "error.message", "error_type">>), "API request failed")
           place == GeminiPlace(f, rec, session)
<1>1. GeminiMap(rec, f, n).span \in {GeminiLlmSpan(rec, session, None, f, n), GeminiLlmSpan(rec, session, why, f, n),
                                     GeminiToolSpan(rec, session, f)}
  BY DEF GeminiMap, NotMine, Folds, Becomes
<1>2. place = f.turn
  BY DEF GeminiPlace, OrElse
<1>3. ASSUME NEW x, NEW d, x = Finish(rec, d), d.trace = place[1], d.parent = place[2]
      PROVE  Apply(t, x).trace = f.turn[1] /\ Apply(t, x).parent = f.turn[2]
  <2>1. PlaceOf(Apply(t, Finish(rec, d))) = <<d.trace, d.parent, d.start, IF d.error = None THEN 0 ELSE ErrorStatus>>
    BY FinishPlace
  <2> HIDE DEF place
  <2> QED
    BY <1>2, <1>3, <2>1 DEF PlaceOf
<1>4. ASSUME NEW error PROVE Apply(t, GeminiLlmSpan(rec, session, error, f, n)).trace = f.turn[1]
                             /\ Apply(t, GeminiLlmSpan(rec, session, error, f, n)).parent = f.turn[2]
  <2> DEFINE own == OrElse(OwnContext(rec), n.request)
             provider == IF AttrStr(a, "auth_type") = "vertex-ai" THEN "gcp.vertex_ai" ELSE "gcp.gemini"
             named == AddAll(Common(rec, session, own),
                        <<<<"gen_ai.operation.name", "chat">>, <<"gen_ai.provider.name", provider>>>> \o Model(a))
             attrs == AddCounts(named, GeminiCounts(a))
             d == [trace |-> place[1], parent |-> place[2], name |-> "gemini_cli.llm_request",
                   id |-> <<"gemini_cli.llm", session, RecordTime(rec), Text(a, "model")>>,
                   start |-> StartOf(rec), error |-> error, attrs |-> attrs]
  <2>1. GeminiLlmSpan(rec, session, error, f, n) = Finish(rec, d)
    BY DEF GeminiLlmSpan
  <2>2. d.trace = place[1] /\ d.parent = place[2]
    <3> HIDE DEF place, attrs, session
    <3> QED
      OBVIOUS
  <2> HIDE DEF d, place, session
  <2> QED
    BY <1>3, <2>1, <2>2
<1>5. Apply(t, GeminiToolSpan(rec, session, f)).trace = f.turn[1] /\ Apply(t, GeminiToolSpan(rec, session, f)).parent = f.turn[2]
  <2> DEFINE tool == GeminiToolName(a)
             failed == IF AttrStr(a, "success") # "false" THEN None ELSE OrElse(AttrStr(a, "error_type"), "tool failed")
             attrs == AddAll(Common(rec, session, OwnContext(rec)),
                        <<<<"gen_ai.operation.name", "execute_tool">>, <<"gen_ai.tool.name", tool>>,
                          <<"gen_ai.tool.call.arguments", TextOrNone(a, "function_args")>>,
                          <<"mcp.server.name", TextOrNone(a, "mcp_server_name")>>>>)
             d == [trace |-> place[1], parent |-> place[2], name |-> "gemini_cli.tool",
                   id |-> <<"gemini_cli.tool", session, RecordTime(rec), OrElse(tool, "")>>,
                   start |-> StartOf(rec), attrs |-> attrs,
                   error |-> IF AttrStr(a, "decision") = "reject" THEN "rejected" ELSE failed]
  <2>1. GeminiToolSpan(rec, session, f) = Finish(rec, d)
    BY DEF GeminiToolSpan
  <2>2. d.trace = place[1] /\ d.parent = place[2]
    <3> HIDE DEF place, attrs, session, tool, failed
    <3> QED
      OBVIOUS
  <2> HIDE DEF d, place, session
  <2> QED
    BY <1>3, <2>1, <2>2
<1> HIDE DEF session, why, place
<1> QED
  BY <1>1, <1>4, <1>5

----------------------------------------------------------------------------
(***************************************************************************)
(* What a mapping remembers of its record.                                 *)
(***************************************************************************)

IsSent(rec) == IsRequest(rec) /\ RequestError(rec) = None
\* The conversation after a record, but for its provider.
CodexAfter(rec, c, d) ==
    LET at == RefusalAt(c, AttrStr(rec.attrs, "call_id"))
    IN  /\ DOMAIN d = DOMAIN NewConversation
        /\ d.turn = IF EventName(rec) = "codex.user_prompt" THEN CodexTurn(SessionOf("codex", rec), rec) ELSE c.turn
        /\ d.request = IF IsSent(rec) THEN SentRequest(rec) ELSE c.request
        /\ d.refused = IF Refuses(rec) THEN LastOf(Append(c.refused, Refusal(rec)), RefusedKept)
                       ELSE IF EventName(rec) = "codex.tool_result" /\ at # 0 THEN RemoveAt(c.refused, at)
                       ELSE c.refused
GeminiAfter(rec, c, d) ==
    /\ DOMAIN d = DOMAIN NewSession
    /\ d.turn = IF EventName(rec) = "gemini_cli.user_prompt" THEN GeminiTurn(SessionOf("gemini", rec), rec) ELSE c.turn

\* A mapping says nothing of a session it leaves as it is.
CodexSays(rec, c, said) ==
    \/ /\ said = Unchanged /\ CodexAfter(rec, c, c)
       /\ EventName(rec) # "codex.user_prompt" /\ ~IsSent(rec) /\ ~Refuses(rec)
    \/ said # Unchanged /\ CodexAfter(rec, c, said[1])
GeminiSays(rec, c, said) ==
    \/ said = Unchanged /\ GeminiAfter(rec, c, c) /\ EventName(rec) # "gemini_cli.user_prompt"
    \/ said # Unchanged /\ GeminiAfter(rec, c, said[1])

LEMMA CodexRemembers ==
    ASSUME NEW rec, IsCodex(rec), NEW f, NEW n, DOMAIN n = DOMAIN NewConversation
    PROVE  CodexSays(rec, n, CodexMap(rec, f, n).session)
<1> DEFINE event == EventName(rec)
           conv == SessionOf("codex", rec)
           said == CodexMap(rec, f, n).session
           at == RefusalAt(n, AttrStr(rec.attrs, "call_id"))
           provider == TextOrNone(rec.attrs, "provider_name")
<1>0. DOMAIN n = {"turn", "request", "provider", "refused"}
  BY DEF NewConversation
<1>1. ASSUME NEW x PROVE <<x>> # Unchanged /\ <<x>>[1] = x
  BY DEF Unchanged
<1>2. conv = Text(rec.attrs, "conversation.id")
  BY DEF SessionOf
<1>3. CASE event = "codex.conversation_starts"
  <2>1. said = IF provider = None THEN Unchanged ELSE <<[n EXCEPT !.provider = provider]>>
    BY <1>3 DEF CodexMap, Folds, IsRequest
  <2>2. ~IsSent(rec) /\ ~Refuses(rec)
    BY <1>3 DEF IsSent, IsRequest, Refuses
  <2> HIDE DEF said, provider
  <2>9. CodexSays(rec, n, said)
    BY <1>0, <1>1, <1>3, <2>1, <2>2 DEF CodexAfter, NewConversation, CodexSays
  <2> QED
    BY <2>9 DEF said
<1>4. CASE event = "codex.user_prompt"
  <2>1. said = <<[n EXCEPT !.turn = CodexTurn(conv, rec)]>>
    BY <1>2, <1>4 DEF CodexMap, Becomes, IsRequest
  <2>2. ~IsSent(rec) /\ ~Refuses(rec)
    BY <1>4 DEF IsSent, IsRequest, Refuses
  <2> HIDE DEF said, conv
  <2>3. conv = SessionOf("codex", rec)
    BY DEF conv
  <2>9. CodexSays(rec, n, said)
    BY <1>0, <1>1, <1>4, <2>1, <2>2, <2>3 DEF CodexAfter, NewConversation, CodexSays
  <2> QED
    BY <2>9 DEF said
<1>5. CASE IsSent(rec)
  <2>1. event \in {"codex.websocket_request", "codex.api_request"} /\ ~Refuses(rec)
    BY <1>5 DEF IsSent, IsRequest, Refuses
  <2>2. said = <<[n EXCEPT !.request = SentRequest(rec)]>>
    BY <1>5, <2>1 DEF CodexMap, Folds, IsSent
  <2> HIDE DEF said, conv
  <2>9. CodexSays(rec, n, said)
    BY <1>0, <1>1, <1>5, <2>1, <2>2 DEF CodexAfter, NewConversation, CodexSays
  <2> QED
    BY <2>9 DEF said
<1>6. CASE Refuses(rec)
  <2>1. event = "codex.tool_decision" /\ ~IsSent(rec)
    BY <1>6 DEF IsSent, IsRequest, Refuses
  <2>2. said = <<[n EXCEPT !.refused = LastOf(Append(@, Refusal(rec)), RefusedKept)]>>
    BY <1>6, <2>1 DEF CodexMap, Folds, IsRequest
  <2> HIDE DEF said, conv
  <2>9. CodexSays(rec, n, said)
    BY <1>0, <1>1, <1>6, <2>1, <2>2 DEF CodexAfter, NewConversation, CodexSays
  <2> QED
    BY <2>9 DEF said
<1>7. CASE event = "codex.tool_result"
  <2>1. ~IsSent(rec) /\ ~Refuses(rec)
    BY <1>7 DEF IsSent, IsRequest, Refuses
  <2>2. said = IF at = 0 THEN Unchanged ELSE <<[n EXCEPT !.refused = RemoveAt(@, at)]>>
    BY <1>7 DEF CodexMap, Becomes, IsRequest
  <2>3. at = RefusalAt(n, AttrStr(rec.attrs, "call_id"))
    OBVIOUS
  <2> HIDE DEF said, conv, at
  <2>9. CodexSays(rec, n, said)
    BY <1>0, <1>1, <1>7, <2>1, <2>2, <2>3 DEF CodexAfter, NewConversation, CodexSays
  <2> QED
    BY <2>9 DEF said
<1>8. CASE /\ event \notin {"codex.conversation_starts", "codex.user_prompt", "codex.tool_result"}
           /\ ~IsSent(rec) /\ ~Refuses(rec)
  <2>1. said = Unchanged
    BY <1>8 DEF CodexMap, Becomes, Folds, NotMine, IsSent
  <2> HIDE DEF said, conv
  <2>9. CodexSays(rec, n, said)
    BY <1>0, <1>8, <2>1 DEF CodexAfter, NewConversation, CodexSays
  <2> QED
    BY <2>9 DEF said
<1> QED
  BY <1>3, <1>4, <1>5, <1>6, <1>7, <1>8

LEMMA GeminiRemembers ==
    ASSUME NEW rec, IsGemini(rec), NEW f, NEW n, DOMAIN n = DOMAIN NewSession
    PROVE  GeminiSays(rec, n, GeminiMap(rec, f, n).session)
<1> DEFINE event == EventName(rec)
           session == SessionOf("gemini", rec)
           said == GeminiMap(rec, f, n).session
           own == OwnContext(rec)
<1>0. DOMAIN n = {"turn", "request"}
  BY DEF NewSession
<1>1. ASSUME NEW x PROVE <<x>> # Unchanged /\ <<x>>[1] = x
  BY DEF Unchanged
<1>2. session = Text(rec.attrs, "session.id")
  BY DEF SessionOf
<1>3. CASE event = "gemini_cli.user_prompt"
  <2>1. said = <<[n EXCEPT !.turn = GeminiTurn(session, rec)]>>
    BY <1>2, <1>3 DEF GeminiMap, Becomes
  <2> HIDE DEF said, session
  <2>2. session = SessionOf("gemini", rec)
    BY DEF session
  <2>9. GeminiSays(rec, n, said)
    BY <1>0, <1>1, <1>3, <2>1, <2>2 DEF GeminiAfter, NewSession, GeminiSays
  <2> QED
    BY <2>9 DEF said
<1>4. CASE event = "gemini_cli.api_request"
  <2>1. said = IF own = None THEN Unchanged ELSE <<[n EXCEPT !.request = own]>>
    BY <1>4 DEF GeminiMap, Folds
  <2> HIDE DEF said, session, own
  <2>9. GeminiSays(rec, n, said)
    BY <1>0, <1>1, <1>4, <2>1 DEF GeminiAfter, NewSession, GeminiSays
  <2> QED
    BY <2>9 DEF said
<1>5. CASE event \notin {"gemini_cli.user_prompt", "gemini_cli.api_request"}
  <2>1. said = Unchanged
    BY <1>5 DEF GeminiMap, Becomes, Folds, NotMine
  <2> HIDE DEF said, session
  <2>9. GeminiSays(rec, n, said)
    BY <1>0, <1>5, <2>1 DEF GeminiAfter, NewSession, GeminiSays
  <2> QED
    BY <2>9 DEF said
<1> QED
  BY <1>3, <1>4, <1>5

----------------------------------------------------------------------------
(***************************************************************************)
(* The refusals of a conversation.                                         *)
(***************************************************************************)

\* The refusal found is of the call asked for, and one that is there is found.
LEMMA RefusalFound ==
    ASSUME NEW X, NEW c, c.refused \in Seq(X), NEW call
    PROVE  /\ RefusalAt(c, call) # 0 => RefusalAt(c, call) \in 1 .. Len(c.refused) /\ c.refused[RefusalAt(c, call)][1] = call
           /\ (call # None /\ \E p \in DOMAIN c.refused : c.refused[p][1] = call) => RefusalAt(c, call) # 0
<1> DEFINE n == Len(c.refused)
           I == {i \in 1 .. n : call # None /\ c.refused[i][1] = call}
<1>1. n \in Nat /\ DOMAIN c.refused = 1 .. n /\ I \in SUBSET (1 .. n)
  OBVIOUS
<1>2. RefusalAt(c, call) = IF I # {} THEN Min(I) ELSE 0
  BY DEF RefusalAt, SelectInSeq
<1>3. \A i \in I : c.refused[i][1] = call
  OBVIOUS
<1>4. (call # None /\ \E p \in DOMAIN c.refused : c.refused[p][1] = call) => I # {}
  BY <1>1
<1> HIDE DEF I, n
<1>5. I # {} => Min(I) \in I
  BY <1>1, MinOfIndices
<1>6. ASSUME NEW i \in I PROVE i \in 1 .. n /\ i # 0
  <2>1. i \in 1 .. n /\ n \in Nat
    BY <1>1
  <2> QED
    BY <2>1
<1> QED
  BY <1>2, <1>3, <1>4, <1>5, <1>6 DEF n

LEMMA RemovedIs ==
    ASSUME NEW X, NEW s \in Seq(X), NEW at \in 1 .. Len(s)
    PROVE  /\ RemoveAt(s, at) \in Seq(X) /\ Len(RemoveAt(s, at)) = Len(s) - 1
           /\ \A p \in 1 .. Len(s) - 1 : RemoveAt(s, at)[p] = IF p < at THEN s[p] ELSE s[p + 1]
<1> DEFINE a == SubSeq(s, 1, at - 1)
           b == SubSeq(s, at + 1, Len(s))
<1>0. Len(s) \in Nat /\ at \in Int /\ 1 <= at /\ at <= Len(s) /\ \A i \in 1 .. Len(s) : s[i] \in X
  OBVIOUS
<1>1. a \in Seq(X) /\ Len(a) = at - 1 /\ \A i \in 1 .. at - 1 : a[i] = s[i]
  <2>1. \A i \in 1 .. at - 1 : s[i] \in X
    BY <1>0
  <2>2. a \in Seq(X) /\ Len(a) = (IF 1 <= at - 1 THEN at - 1 - 1 + 1 ELSE 0) /\ \A i \in 1 .. (at - 1) - 1 + 1 : a[i] = s[1 + i - 1]
    BY <1>0, <2>1, SubSeqProperties
  <2> HIDE DEF a
  <2> QED
    BY <1>0, <2>2
<1>2. b \in Seq(X) /\ Len(b) = Len(s) - at /\ \A i \in 1 .. Len(s) - at : b[i] = s[at + i]
  <2>1. \A i \in at + 1 .. Len(s) : s[i] \in X
    BY <1>0
  <2>2. /\ b \in Seq(X) /\ Len(b) = (IF at + 1 <= Len(s) THEN Len(s) - (at + 1) + 1 ELSE 0)
        /\ \A i \in 1 .. Len(s) - (at + 1) + 1 : b[i] = s[(at + 1) + i - 1]
    BY <1>0, <2>1, SubSeqProperties
  <2> HIDE DEF b
  <2>3. \A i \in 1 .. Len(s) - at : (at + 1) + i - 1 = at + i /\ i \in 1 .. Len(s) - (at + 1) + 1
    BY <1>0
  <2> QED
    BY <1>0, <2>2, <2>3
<1>3. RemoveAt(s, at) = a \o b
  BY DEF RemoveAt
<1> HIDE DEF a, b
<1>4. a \o b \in Seq(X) /\ Len(a \o b) = Len(s) - 1
  <2>1. a \o b \in Seq(X) /\ Len(a \o b) = Len(a) + Len(b)
    BY ONLY <1>1, <1>2, ConcatProperties
  <2>2. Len(a) + Len(b) = Len(s) - 1
    BY <1>0, <1>1, <1>2
  <2> QED
    BY <2>1, <2>2
<1>5. ASSUME NEW p \in 1 .. Len(s) - 1 PROVE (a \o b)[p] = IF p < at THEN s[p] ELSE s[p + 1]
  <2>1. CASE p < at
    <3>1. p \in 1 .. Len(a) /\ p \in 1 .. at - 1
      BY <1>0, <1>1, <2>1
    <3>2. (a \o b)[p] = a[p]
      BY <1>1, <1>2, <3>1
    <3> QED
      BY <1>1, <2>1, <3>1, <3>2
  <2>2. CASE ~(p < at)
    <3>1. p - (at - 1) \in 1 .. Len(s) - at /\ at + (p - (at - 1)) = p + 1 /\ p > Len(a) /\ p <= Len(a) + Len(b)
      BY <1>0, <1>1, <1>2, <2>2
    <3>2. (a \o b)[p] = b[p - Len(a)]
      BY <1>1, <1>2, <3>1
    <3>3. b[p - (at - 1)] = s[p + 1]
      BY <1>2, <3>1
    <3> QED
      BY <1>1, <2>2, <3>2, <3>3
  <2> QED
    BY <2>1, <2>2
<1> QED
  BY <1>3, <1>4, <1>5

\* The refusals kept of a conversation that got one more.
Grew(X, s, x, last) ==
    /\ last \in Seq(X) /\ Len(last) \in Nat \ {0} /\ last[Len(last)] = x
    /\ \/ Len(last) = Len(s) + 1 /\ \A p \in 1 .. Len(s) : last[p] = s[p]
       \/ Len(s) >= RefusedKept /\ Len(last) = Len(s) /\ \A p \in 2 .. Len(s) : last[p - 1] = s[p]

LEMMA LastOfAppend ==
    ASSUME NEW X, NEW s \in Seq(X), NEW x \in X, NEW last, last = LastOf(Append(s, x), RefusedKept)
    PROVE  Grew(X, s, x, last)
<1> DEFINE all == Append(s, x)
<1>1. /\ Len(s) \in Nat /\ all \in Seq(X) /\ Len(all) = Len(s) + 1 /\ all[Len(s) + 1] = x
      /\ \A p \in 1 .. Len(s) : all[p] = s[p]
  OBVIOUS
<1>2. last = IF Len(all) > RefusedKept THEN Tail(all) ELSE all
  BY DEF LastOf
<1> HIDE DEF all
<1>3. Tail(all) \in Seq(X) /\ Len(Tail(all)) = Len(s) /\ \A p \in 1 .. Len(s) : Tail(all)[p] = all[p + 1]
  <2>1. all # <<>>
    BY <1>1
  <2>2. Tail(all) \in Seq(X) /\ Len(Tail(all)) = Len(all) - 1 /\ \A p \in 1 .. Len(Tail(all)) : Tail(all)[p] = all[p + 1]
    BY <1>1, <2>1, HeadTailProperties
  <2> QED
    BY <1>1, <2>2
<1>4. CASE Len(all) > RefusedKept
  <2>1. Len(s) >= RefusedKept /\ Len(s) \in 1 .. Len(s) /\ Len(s) # 0
    BY <1>1, <1>4 DEF RefusedKept
  <2>2. \A p \in 2 .. Len(s) : Tail(all)[p - 1] = s[p]
    <3>1. \A p \in 2 .. Len(s) : p - 1 \in 1 .. Len(s) /\ p \in 1 .. Len(s) /\ (p - 1) + 1 = p
      BY <1>1
    <3> QED
      BY <1>1, <1>3, <3>1
  <2>3. Tail(all)[Len(s)] = x
    BY <1>1, <1>3, <2>1
  <2>4. last = Tail(all)
    BY <1>2, <1>4
  <2> QED
    BY <1>1, <1>3, <2>1, <2>2, <2>3, <2>4 DEF Grew
<1>5. CASE ~(Len(all) > RefusedKept)
  BY <1>1, <1>2, <1>5 DEF Grew
<1> QED
  BY <1>4, <1>5

LEMMA KeepsNew ==
    ASSUME NEW X, NEW c, c.refused \in Seq(X), NEW x \in X,
           NEW d, d.refused = LastOf(Append(c.refused, x), RefusedKept)
    PROVE  Keeps(d, x, 0) /\ d.refused \in Seq(X)
<1> DEFINE s == c.refused
           last == d.refused
<1>1. s \in Seq(X) /\ last = LastOf(Append(s, x), RefusedKept)
  OBVIOUS
<1> HIDE DEF s, last
<1>2. Grew(X, s, x, last)
  BY <1>1, LastOfAppend
<1>3. last \in Seq(X) /\ Len(last) \in DOMAIN last /\ last[Len(last)] = x /\ Len(last) - Len(last) <= 0
  BY <1>2 DEF Grew
<1> QED
  BY <1>3 DEF Keeps, last

LEMMA KeepsMore ==
    ASSUME NEW X, NEW c, c.refused \in Seq(X), NEW x \in X, NEW y, NEW room \in Nat, room + 1 < RefusedKept, Keeps(c, y, room),
           NEW d, d.refused = LastOf(Append(c.refused, x), RefusedKept)
    PROVE  Keeps(d, y, room + 1)
<1> DEFINE s == c.refused
           last == d.refused
<1>1. /\ last \in Seq(X) /\ Len(last) \in Nat \ {0} /\ Len(s) \in Nat
      /\ \/ Len(last) = Len(s) + 1 /\ \A p \in 1 .. Len(s) : last[p] = s[p]
         \/ Len(s) >= RefusedKept /\ Len(last) = Len(s) /\ \A p \in 2 .. Len(s) : last[p - 1] = s[p]
  <2>1. last = LastOf(Append(s, x), RefusedKept) /\ s \in Seq(X) /\ Len(s) \in Nat
    OBVIOUS
  <2> HIDE DEF s, last
  <2>2. Grew(X, s, x, last)
    BY <2>1, LastOfAppend
  <2> QED
    BY <2>1, <2>2 DEF Grew
<1>2. PICK p \in 1 .. Len(s) : s[p] = y /\ Len(s) - p <= room
  BY DEF Keeps
<1>3. CASE Len(last) = Len(s) + 1 /\ \A q \in 1 .. Len(s) : last[q] = s[q]
  <2>1. last[p] = y /\ p \in 1 .. Len(last) /\ Len(last) - p <= room + 1
    BY <1>1, <1>2, <1>3
  <2> QED
    BY <1>1, <2>1 DEF Keeps
<1>4. CASE Len(s) >= RefusedKept /\ Len(last) = Len(s) /\ \A q \in 2 .. Len(s) : last[q - 1] = s[q]
  <2>1. p \in 2 .. Len(s) /\ p - 1 \in 1 .. Len(last) /\ Len(last) - (p - 1) <= room + 1
    BY <1>1, <1>2, <1>4 DEF RefusedKept
  <2>2. last[p - 1] = y
    BY <1>2, <1>4, <2>1
  <2> QED
    BY <1>1, <2>1, <2>2 DEF Keeps
<1> QED
  BY <1>1, <1>3, <1>4

LEMMA KeepsOthers ==
    ASSUME NEW X, NEW c, c.refused \in Seq(X), NEW call, RefusalAt(c, call) # 0,
           NEW y, y[1] # call, NEW room \in Nat, Keeps(c, y, room),
           NEW d, d.refused = RemoveAt(c.refused, RefusalAt(c, call))
    PROVE  Keeps(d, y, room)
<1> DEFINE s == c.refused
           at == RefusalAt(c, call)
           left == d.refused
<1>1. at \in 1 .. Len(s) /\ s[at][1] = call /\ Len(s) \in Nat
  BY RefusalFound
<1>2. PICK p \in 1 .. Len(s) : s[p] = y /\ Len(s) - p <= room
  BY DEF Keeps
<1>3. p # at
  BY <1>1, <1>2
<1>4. left = RemoveAt(s, at)
  OBVIOUS
<1> HIDE DEF at, s, left
<1>5. s \in Seq(X)
  BY DEF s
<1>6. left \in Seq(X) /\ Len(left) = Len(s) - 1 /\ \A q \in 1 .. Len(s) - 1 : left[q] = IF q < at THEN s[q] ELSE s[q + 1]
  BY <1>1, <1>4, <1>5, RemovedIs
<1>7. \E q \in 1 .. Len(left) : left[q] = y /\ Len(left) - q <= room
  <2>1. CASE p < at
    <3>1. p \in 1 .. Len(s) - 1 /\ p \in 1 .. Len(left) /\ Len(left) - p <= room
      BY <1>1, <1>2, <1>6, <2>1
    <3> QED
      BY <1>2, <1>6, <2>1, <3>1
  <2>2. CASE p > at
    <3>1. p - 1 \in 1 .. Len(s) - 1 /\ p - 1 \in 1 .. Len(left) /\ ~(p - 1 < at) /\ (p - 1) + 1 = p /\ Len(left) - (p - 1) <= room
      BY <1>1, <1>2, <1>6, <2>2
    <3>2. left[p - 1] = y
      BY <1>2, <1>6, <3>1
    <3> QED
      BY <3>1, <3>2
  <2> QED
    BY <1>1, <1>2, <1>3, <2>1, <2>2
<1> QED
  BY <1>6, <1>7 DEF Keeps, left

----------------------------------------------------------------------------
(***************************************************************************)
(* What a request knows after one more record.                             *)
(***************************************************************************)

Told(r, i, d, s) == DialectOf(Rec(r, i)) = d /\ SessionOf(d, Rec(r, i)) = s

LEMMA LogsAreIndices ==
    ASSUME NEW r \in Requests
    PROVE  LogsOf(r) \in SUBSET (1 .. Len(Items[r])) /\ Len(Items[r]) \in Nat
BY ItemsAssumption DEF LogsOf

LEMMA BeforeNext ==
    ASSUME NEW r \in Requests, NEW i \in LogsOf(r), NEW d, NEW s
    PROVE  /\ i \in Nat \ {0} /\ Before(r, i, d, s) \in SUBSET (1 .. i - 1)
           /\ Before(r, i + 1, d, s) = IF Told(r, i, d, s) THEN Before(r, i, d, s) \cup {i} ELSE Before(r, i, d, s)
<1>1. \A j \in LogsOf(r) : j \in Nat /\ 1 <= j
  BY LogsAreIndices
<1>2. i \in Nat /\ 1 <= i
  BY <1>1
<1>3. Before(r, i, d, s) \in SUBSET (1 .. i - 1)
  <2>1. ASSUME NEW j \in Before(r, i, d, s) PROVE j \in 1 .. i - 1
    <3>1. j \in Nat /\ 1 <= j /\ j < i
      BY <1>1 DEF Before
    <3> QED
      BY <1>2, <3>1
  <2> QED
    BY <2>1
<1>4. \A j \in LogsOf(r) : j < i + 1 <=> j < i \/ j = i
  BY <1>1, <1>2
<1>5. ASSUME NEW j PROVE j \in Before(r, i + 1, d, s) <=> j \in Before(r, i, d, s) \/ (j = i /\ Told(r, i, d, s))
  BY <1>4 DEF Before, Told
<1>6. Before(r, i + 1, d, s) = IF Told(r, i, d, s) THEN Before(r, i, d, s) \cup {i} ELSE Before(r, i, d, s)
  BY <1>5
<1> QED
  BY <1>2, <1>3, <1>6

\* The last of some indices and a later one is the later one.
LEMMA LatestIs ==
    ASSUME NEW i \in Nat \ {0}, NEW T \in SUBSET (1 .. i - 1)
    PROVE  Max(T \cup {i}) = i
<1> DEFINE S == T \cup {i}
<1>1. S \in SUBSET (1 .. i) /\ S # {} /\ i \in S
  OBVIOUS
<1> HIDE DEF S
<1>2. Max(S) \in S /\ Max(S) >= i
  BY <1>1, MaxOfIndices
<1>3. Max(S) \in 1 .. i
  BY <1>1, <1>2
<1>4. Max(S) = i
  BY <1>2, <1>3
<1> QED
  BY <1>4 DEF S

\* The layer new is the layer old after the i-th record: the sessions of no
\* other record change, and that of the record is what the record says.
Carried(r, i, d, old, new) ==
    \A s \in SessionsOf(r, d) : ~Told(r, i, d, s) /\ s \in DOMAIN old => s \in DOMAIN new /\ new[s] = old[s]
CodexTold(rec, old, new) ==
    LET s == SessionOf("codex", rec)
    IN  /\ EventName(rec) = "codex.user_prompt" \/ IsSent(rec) \/ Refuses(rec) \/ s \in DOMAIN old => s \in DOMAIN new
        /\ s \in DOMAIN new =>
               \E c : IsConversation(c) /\ CodexAfter(rec, c, new[s]) /\ (s \in DOMAIN old => c = old[s])
GeminiTold(rec, old, new) ==
    LET s == SessionOf("gemini", rec)
    IN  /\ EventName(rec) = "gemini_cli.user_prompt" \/ s \in DOMAIN old => s \in DOMAIN new
        /\ s \in DOMAIN new => \E c : GeminiAfter(rec, c, new[s]) /\ (s \in DOMAIN old => c = old[s])
Grows(r, i, old, new) ==
    /\ Carried(r, i, "codex", old.codex, new.codex) /\ Carried(r, i, "gemini", old.gemini, new.gemini)
    /\ DialectOf(Rec(r, i)) = "codex" => CodexTold(Rec(r, i), old.codex, new.codex)
    /\ DialectOf(Rec(r, i)) = "gemini" => GeminiTold(Rec(r, i), old.gemini, new.gemini)

PromptOf(d) == IF d = "codex" THEN "codex.user_prompt" ELSE "gemini_cli.user_prompt"

LEMMA PromptsNext ==
    ASSUME NEW r \in Requests, NEW i \in LogsOf(r), NEW d, NEW s
    PROVE  /\ Prompts(r, i, d, s) \in SUBSET (1 .. i - 1)
           /\ Prompts(r, i + 1, d, s) = IF Told(r, i, d, s) /\ EventName(Rec(r, i)) = PromptOf(d)
                                        THEN Prompts(r, i, d, s) \cup {i} ELSE Prompts(r, i, d, s)
<1> DEFINE B == Before(r, i, d, s)
           P(j) == EventName(Rec(r, j)) = PromptOf(d)
<1>1. /\ B \in SUBSET (1 .. i - 1)
      /\ Before(r, i + 1, d, s) = IF Told(r, i, d, s) THEN B \cup {i} ELSE B
  BY BeforeNext
<1>2. Prompts(r, i, d, s) = {j \in B : P(j)} /\ Prompts(r, i + 1, d, s) = {j \in Before(r, i + 1, d, s) : P(j)}
  BY DEF Prompts, PromptOf
<1> HIDE DEF B
<1> QED
  BY <1>1, <1>2

LEMMA SentNext ==
    ASSUME NEW r \in Requests, NEW i \in LogsOf(r), NEW s
    PROVE  /\ SentBefore(r, i, s) \in SUBSET (1 .. i - 1)
           /\ SentBefore(r, i + 1, s) = IF Told(r, i, "codex", s) /\ IsSent(Rec(r, i))
                                        THEN SentBefore(r, i, s) \cup {i} ELSE SentBefore(r, i, s)
<1> DEFINE B == Before(r, i, "codex", s)
           P(j) == IsSent(Rec(r, j))
<1>1. /\ B \in SUBSET (1 .. i - 1)
      /\ Before(r, i + 1, "codex", s) = IF Told(r, i, "codex", s) THEN B \cup {i} ELSE B
  BY BeforeNext
<1>2. SentBefore(r, i, s) = {j \in B : P(j)} /\ SentBefore(r, i + 1, s) = {j \in Before(r, i + 1, "codex", s) : P(j)}
  BY DEF SentBefore, IsSent
<1> HIDE DEF B
<1> QED
  BY <1>1, <1>2

LEMMA RefusalsNext ==
    ASSUME NEW r \in Requests, NEW i \in LogsOf(r), NEW s
    PROVE  /\ Refusals(r, i, s) \in SUBSET (1 .. i - 1)
           /\ Refusals(r, i + 1, s) = IF Told(r, i, "codex", s) /\ Refuses(Rec(r, i))
                                      THEN Refusals(r, i, s) \cup {i} ELSE Refusals(r, i, s)
<1> DEFINE B == Before(r, i, "codex", s)
           P(j) == Refuses(Rec(r, j))
<1>1. /\ B \in SUBSET (1 .. i - 1)
      /\ Before(r, i + 1, "codex", s) = IF Told(r, i, "codex", s) THEN B \cup {i} ELSE B
  BY BeforeNext
<1>2. Refusals(r, i, s) = {j \in B : P(j)} /\ Refusals(r, i + 1, s) = {j \in Before(r, i + 1, "codex", s) : P(j)}
  BY DEF Refusals
<1> HIDE DEF B
<1> QED
  BY <1>1, <1>2

LEMMA KnowsTurnNext ==
    ASSUME NEW r \in Requests, NEW i \in LogsOf(r), NEW d \in {"codex", "gemini"}, NEW old, NEW new,
           KnowsTurn(r, i, d, old), Carried(r, i, d, old, new),
           \A s : Told(r, i, d, s) /\ (EventName(Rec(r, i)) = PromptOf(d) \/ s \in DOMAIN old) =>
                      s \in DOMAIN new /\ new[s].turn = IF EventName(Rec(r, i)) = PromptOf(d) THEN TurnOf(d, Rec(r, i))
                                                        ELSE old[s].turn
    PROVE  KnowsTurn(r, i + 1, d, new)
<1> SUFFICES ASSUME NEW s \in SessionsOf(r, d), Prompts(r, i + 1, d, s) # {}
             PROVE  s \in DOMAIN new /\ new[s].turn = TurnOf(d, Rec(r, Max(Prompts(r, i + 1, d, s))))
  BY DEF KnowsTurn
<1> DEFINE T == Prompts(r, i, d, s)
           prompted == EventName(Rec(r, i)) = PromptOf(d)
<1>1. /\ T \in SUBSET (1 .. i - 1) /\ i \in Nat \ {0}
      /\ Prompts(r, i + 1, d, s) = IF Told(r, i, d, s) /\ prompted THEN T \cup {i} ELSE T
  BY PromptsNext, BeforeNext
<1>2. T # {} => s \in DOMAIN old /\ old[s].turn = TurnOf(d, Rec(r, Max(T)))
  BY DEF KnowsTurn
<1> HIDE DEF T, prompted
<1>3. CASE Told(r, i, d, s) /\ prompted
  <2>1. Max(Prompts(r, i + 1, d, s)) = i
    BY <1>1, <1>3, LatestIs
  <2> QED
    BY <1>3, <2>1 DEF prompted
<1>4. CASE ~(Told(r, i, d, s) /\ prompted)
  <2>1. Prompts(r, i + 1, d, s) = T /\ s \in DOMAIN old /\ old[s].turn = TurnOf(d, Rec(r, Max(T)))
    BY <1>1, <1>2, <1>4
  <2>2. s \in DOMAIN new /\ new[s].turn = old[s].turn
    <3>1. CASE Told(r, i, d, s)
      BY <1>4, <2>1, <3>1 DEF prompted
    <3>2. CASE ~Told(r, i, d, s)
      BY <2>1, <3>2 DEF Carried
    <3> QED
      BY <3>1, <3>2
  <2> QED
    BY <2>1, <2>2
<1> QED
  BY <1>3, <1>4

LEMMA KnowsRequestNext ==
    ASSUME NEW r \in Requests, NEW i \in LogsOf(r), NEW old, NEW new,
           KnowsRequest(r, i, old), Carried(r, i, "codex", old, new),
           DialectOf(Rec(r, i)) = "codex" => CodexTold(Rec(r, i), old, new)
    PROVE  KnowsRequest(r, i + 1, new)
<1> SUFFICES ASSUME NEW s \in SessionsOf(r, "codex"), SentBefore(r, i + 1, s) # {}
             PROVE  s \in DOMAIN new /\ new[s].request = SentRequest(Rec(r, Max(SentBefore(r, i + 1, s))))
  BY DEF KnowsRequest
<1> DEFINE T == SentBefore(r, i, s)
           sent == IsSent(Rec(r, i))
<1>1. /\ T \in SUBSET (1 .. i - 1) /\ i \in Nat \ {0}
      /\ SentBefore(r, i + 1, s) = IF Told(r, i, "codex", s) /\ sent THEN T \cup {i} ELSE T
  BY SentNext, BeforeNext
<1>2. T # {} => s \in DOMAIN old /\ old[s].request = SentRequest(Rec(r, Max(T)))
  BY DEF KnowsRequest
<1>3. Told(r, i, "codex", s) /\ (sent \/ s \in DOMAIN old) =>
          s \in DOMAIN new /\ new[s].request = IF sent THEN SentRequest(Rec(r, i)) ELSE old[s].request
  BY DEF Told, CodexTold, CodexAfter
<1> HIDE DEF T, sent
<1>4. CASE Told(r, i, "codex", s) /\ sent
  <2>1. Max(SentBefore(r, i + 1, s)) = i
    BY <1>1, <1>4, LatestIs
  <2> QED
    BY <1>3, <1>4, <2>1
<1>5. CASE ~(Told(r, i, "codex", s) /\ sent)
  <2>1. SentBefore(r, i + 1, s) = T /\ s \in DOMAIN old /\ old[s].request = SentRequest(Rec(r, Max(T)))
    BY <1>1, <1>2, <1>5
  <2>2. s \in DOMAIN new /\ new[s].request = old[s].request
    <3>1. CASE Told(r, i, "codex", s)
      BY <1>3, <1>5, <2>1, <3>1
    <3>2. CASE ~Told(r, i, "codex", s)
      BY <2>1, <3>2 DEF Carried
    <3> QED
      BY <3>1, <3>2
  <2> QED
    BY <2>1, <2>2
<1> QED
  BY <1>4, <1>5

CallOf(r, j) == AttrStr(Rec(r, j).attrs, "call_id")

\* A refusal that stands after the i-th record stood before it, unless it is
\* that record's.
LEMMA StoodBefore ==
    ASSUME NEW r \in Requests, NEW i \in LogsOf(r), NEW s, NEW j, NEW call, j \in Standing(r, i + 1, s, call)
    PROVE  /\ Cardinality(LaterRefusals(r, i + 1, s, j)) < RefusedKept
           /\ j # i => /\ j \in Refusals(r, i, s) /\ j \in Standing(r, i, s, call) /\ j < i
                       /\ Cardinality(LaterRefusals(r, i, s, j)) \in Nat
                       /\ Cardinality(LaterRefusals(r, i + 1, s, j)) =
                              IF Told(r, i, "codex", s) /\ Refuses(Rec(r, i)) THEN Cardinality(LaterRefusals(r, i, s, j)) + 1
                              ELSE Cardinality(LaterRefusals(r, i, s, j))
           /\ j # i /\ Told(r, i, "codex", s) /\ EventName(Rec(r, i)) = "codex.tool_result" => CallOf(r, i) # call
           /\ j = i => Cardinality(LaterRefusals(r, i + 1, s, j)) = 0 /\ Told(r, i, "codex", s) /\ Refuses(Rec(r, i))
<1> DEFINE T == Refusals(r, i, s)
           old == LaterRefusals(r, i, s, j)
           new == LaterRefusals(r, i + 1, s, j)
           B == Before(r, i, "codex", s)
           told == Told(r, i, "codex", s)
           refuses == Refuses(Rec(r, i))
<1>1. /\ T \in SUBSET (1 .. i - 1) /\ i \in Nat \ {0}
      /\ Refusals(r, i + 1, s) = IF told /\ refuses THEN T \cup {i} ELSE T
  BY RefusalsNext, BeforeNext
<1>2. B \in SUBSET (1 .. i - 1) /\ Before(r, i + 1, "codex", s) = IF told THEN B \cup {i} ELSE B
  BY BeforeNext
<1>3. /\ j \in Refusals(r, i + 1, s) /\ CallOf(r, j) = call /\ Cardinality(new) < RefusedKept
      /\ \A k \in Before(r, i + 1, "codex", s) : k > j /\ EventName(Rec(r, k)) = "codex.tool_result" => CallOf(r, k) # call
  BY DEF Standing, LaterRefusals, CallOf
<1>4. old = {k \in T : k > j} /\ new = {k \in Refusals(r, i + 1, s) : k > j}
  BY DEF LaterRefusals
<1>5. j \in Standing(r, i, s, call) <=>
          /\ j \in T /\ CallOf(r, j) = call /\ Cardinality(old) < RefusedKept
          /\ \A k \in B : k > j /\ EventName(Rec(r, k)) = "codex.tool_result" => CallOf(r, k) # call
  BY DEF Standing, LaterRefusals, CallOf
<1> HIDE DEF T, B, told, refuses, old, new
<1>6. IsFiniteSet(old) /\ Cardinality(old) \in Nat
  <2>1. old \in SUBSET (1 .. i - 1)
    BY <1>1, <1>4
  <2>2. i - 1 \in Int
    BY <1>1
  <2>3. IsFiniteSet(1 .. i - 1)
    BY <2>2, FS_Interval
  <2>4. IsFiniteSet(old)
    BY <2>1, <2>3, FS_Subset
  <2> QED
    BY <2>4, FS_CardinalityType
<1>7. CASE j # i
  <2>1. j \in T /\ j \in Nat /\ j < i
    <3>1. j \in T
      BY <1>1, <1>3, <1>7
    <3> QED
      BY <1>1, <3>1
  <2>2. new = IF told /\ refuses THEN old \cup {i} ELSE old
    BY <1>1, <1>4, <2>1
  <2>3. Cardinality(new) = IF told /\ refuses THEN Cardinality(old) + 1 ELSE Cardinality(old)
    <3>1. i \notin old
      <4>1. \A k \in T : k # i
        BY <1>1
      <4> QED
        BY <1>4, <4>1
    <3>2. Cardinality(old \cup {i}) = Cardinality(old) + 1
      BY <1>6, <3>1, FS_AddElement
    <3> QED
      BY <2>2, <3>2
  <2>4. j \in Standing(r, i, s, call)
    <3>1. Cardinality(old) < RefusedKept
      BY <1>3, <1>6, <2>3 DEF RefusedKept
    <3>2. \A k \in B : k \in Before(r, i + 1, "codex", s)
      BY <1>2
    <3> QED
      BY <1>3, <1>5, <2>1, <3>1, <3>2
  <2>5. told /\ EventName(Rec(r, i)) = "codex.tool_result" => CallOf(r, i) # call
    <3>1. told => i \in Before(r, i + 1, "codex", s)
      BY <1>2
    <3>2. i > j
      BY <1>1, <2>1
    <3> QED
      BY <1>3, <3>1, <3>2
  <2> QED
    BY <1>3, <1>6, <1>7, <2>1, <2>3, <2>4, <2>5 DEF T, old, new, told, refuses
<1>8. CASE j = i
  <2>1. told /\ refuses
    <3>1. \A k \in T : k # i
      BY <1>1
    <3> QED
      BY <1>1, <1>3, <1>8, <3>1
  <2>2. new = {}
    <3>1. \A k \in T \cup {i} : ~(k > i)
      BY <1>1
    <3> QED
      BY <1>1, <1>4, <1>8, <2>1, <3>1
  <2>3. Cardinality(new) = 0
    BY <2>2, FS_EmptySet
  <2> QED
    BY <1>3, <1>8, <2>1, <2>3 DEF new, told, refuses
<1> QED
  BY <1>7, <1>8

LEMMA KnowsRefusalsNext ==
    ASSUME NEW r \in Requests, NEW i \in LogsOf(r), NEW old, NEW new,
           KnowsRefusals(r, i, old), Carried(r, i, "codex", old, new),
           DialectOf(Rec(r, i)) = "codex" => CodexTold(Rec(r, i), old, new)
    PROVE  KnowsRefusals(r, i + 1, new)
<1> DEFINE rec == Rec(r, i)
           room(s, j) == Cardinality(LaterRefusals(r, i, s, j))
           more(s, j) == Cardinality(LaterRefusals(r, i + 1, s, j))
<1> SUFFICES ASSUME NEW s \in SessionsOf(r, "codex"), NEW j, j \in Standing(r, i + 1, s, CallOf(r, j))
             PROVE  s \in DOMAIN new /\ Keeps(new[s], Refusal(Rec(r, j)), more(s, j))
  BY DEF KnowsRefusals, CallOf
<1>1. j # i => s \in DOMAIN old /\ Keeps(old[s], Refusal(Rec(r, j)), room(s, j))
  <2>1. j # i => j \in Refusals(r, i, s) /\ j \in Standing(r, i, s, CallOf(r, j))
    BY StoodBefore
  <2> QED
    BY <2>1 DEF KnowsRefusals, CallOf
<1>2. CASE ~Told(r, i, "codex", s)
  <2>1. j # i /\ more(s, j) = room(s, j)
    BY <1>2, StoodBefore
  <2>2. s \in DOMAIN new /\ new[s] = old[s]
    BY <1>1, <1>2, <2>1 DEF Carried
  <2> HIDE DEF room, more
  <2> QED
    BY <1>1, <2>1, <2>2
<1>3. CASE Told(r, i, "codex", s)
  <2>1. CodexTold(rec, old, new) /\ s = SessionOf("codex", rec)
    BY <1>3 DEF Told
  <2>2. s \in DOMAIN new
    <3>1. j = i => Refuses(rec)
      BY StoodBefore
    <3> QED
      BY <1>1, <2>1, <3>1 DEF CodexTold
  <2>3. PICK c : IsConversation(c) /\ CodexAfter(rec, c, new[s]) /\ (s \in DOMAIN old => c = old[s])
    BY <2>1, <2>2 DEF CodexTold
  <2>4. c.refused \in Seq(RefusalsSent)
    BY <2>3 DEF IsConversation
  <2>5. Refusal(rec) \in RefusalsSent
    BY DEF RefusalsSent
  <2> DEFINE d == new[s]
             y == Refusal(Rec(r, j))
  <2>6. CASE Refuses(rec)
    <3>1. d.refused = LastOf(Append(c.refused, Refusal(rec)), RefusedKept)
      BY <2>3, <2>6 DEF CodexAfter
    <3>2. CASE j = i
      <4>1. more(s, j) = 0
        BY <3>2, StoodBefore
      <4>2. y = Refusal(rec)
        BY <3>2
      <4> HIDE DEF d, y, more, rec
      <4>3. Keeps(d, Refusal(rec), 0)
        BY <2>4, <2>5, <3>1, KeepsNew
      <4> QED
        BY <2>2, <4>1, <4>2, <4>3 DEF d, y
    <3>3. CASE j # i
      <4>1. room(s, j) \in Nat /\ more(s, j) = room(s, j) + 1 /\ more(s, j) < RefusedKept
        BY <1>3, <2>6, <3>3, StoodBefore
      <4>2. Keeps(c, y, room(s, j))
        BY <1>1, <2>3, <3>3
      <4> HIDE DEF d, y, more, rec, room
      <4>3. Keeps(d, y, room(s, j) + 1)
        BY <2>4, <2>5, <3>1, <4>1, <4>2, KeepsMore
      <4> QED
        BY <2>2, <4>1, <4>3 DEF d, y
    <3> QED
      BY <3>2, <3>3
  <2>7. CASE ~Refuses(rec)
    <3>1. j # i /\ room(s, j) \in Nat /\ more(s, j) = room(s, j)
      BY <2>7, StoodBefore
    <3>2. Keeps(c, y, room(s, j))
      BY <1>1, <2>3, <3>1
    <3> DEFINE call == AttrStr(rec.attrs, "call_id")
    <3>3. CASE EventName(rec) = "codex.tool_result" /\ RefusalAt(c, call) # 0
      <4>1. d.refused = RemoveAt(c.refused, RefusalAt(c, call))
        BY <2>3, <2>7, <3>3 DEF CodexAfter
      <4>2. CallOf(r, i) # CallOf(r, j)
        BY <1>3, <3>1, <3>3, StoodBefore
      <4>3. y[1] # call
        BY <4>2 DEF Refusal, CallOf
      <4> HIDE DEF d, y, more, rec, room, call
      <4>4. Keeps(d, y, room(s, j))
        BY <2>4, <3>1, <3>2, <3>3, <4>1, <4>3, KeepsOthers
      <4> QED
        BY <2>2, <3>1, <4>4 DEF d, y
    <3>4. CASE ~(EventName(rec) = "codex.tool_result" /\ RefusalAt(c, call) # 0)
      <4>1. d.refused = c.refused
        BY <2>3, <2>7, <3>4 DEF CodexAfter
      <4> HIDE DEF y, more, rec, room
      <4>2. Keeps(d, y, room(s, j))
        BY <3>2, <4>1 DEF Keeps
      <4> QED
        BY <2>2, <3>1, <4>2 DEF y
    <3> QED
      BY <3>3, <3>4
  <2> QED
    BY <2>6, <2>7
<1> QED
  BY <1>2, <1>3

\* Whatever the i-th record says, what the request knows stays exact.
LEMMA KnowsNext ==
    ASSUME NEW r \in Requests, NEW i \in LogsOf(r), NEW old, NEW new, Knows(r, i, old), Grows(r, i, old, new)
    PROVE  Knows(r, i + 1, new)
<1> DEFINE rec == Rec(r, i)
           codex == old.codex
           gemini == old.gemini
           codex1 == new.codex
           gemini1 == new.gemini
<1>1. /\ KnowsTurn(r, i, "codex", codex) /\ KnowsTurn(r, i, "gemini", gemini)
      /\ KnowsRequest(r, i, codex) /\ KnowsRefusals(r, i, codex)
  BY DEF Knows
<1>2. /\ Carried(r, i, "codex", codex, codex1) /\ Carried(r, i, "gemini", gemini, gemini1)
      /\ DialectOf(Rec(r, i)) = "codex" => CodexTold(Rec(r, i), codex, codex1)
      /\ DialectOf(Rec(r, i)) = "gemini" => GeminiTold(Rec(r, i), gemini, gemini1)
  BY DEF Grows
<1> HIDE DEF codex, gemini, codex1, gemini1
<1>3. KnowsTurn(r, i + 1, "codex", codex1)
  <2>1. \A s : Told(r, i, "codex", s) /\ (EventName(rec) = PromptOf("codex") \/ s \in DOMAIN codex) =>
                   s \in DOMAIN codex1 /\ codex1[s].turn = IF EventName(rec) = PromptOf("codex") THEN TurnOf("codex", rec)
                                                           ELSE codex[s].turn
    BY <1>2 DEF Told, CodexTold, CodexAfter, PromptOf, TurnOf
  <2> QED
    BY <1>1, <1>2, <2>1, KnowsTurnNext
<1>4. KnowsTurn(r, i + 1, "gemini", gemini1)
  <2>1. \A s : Told(r, i, "gemini", s) /\ (EventName(rec) = PromptOf("gemini") \/ s \in DOMAIN gemini) =>
                   s \in DOMAIN gemini1 /\ gemini1[s].turn = IF EventName(rec) = PromptOf("gemini") THEN TurnOf("gemini", rec)
                                                             ELSE gemini[s].turn
    BY <1>2 DEF Told, GeminiTold, GeminiAfter, PromptOf, TurnOf
  <2> QED
    BY <1>1, <1>2, <2>1, KnowsTurnNext
<1>5. KnowsRequest(r, i + 1, codex1) /\ KnowsRefusals(r, i + 1, codex1)
  BY <1>1, <1>2, KnowsRequestNext, KnowsRefusalsNext
<1> QED
  BY <1>3, <1>4, <1>5 DEF Knows, codex1, gemini1

----------------------------------------------------------------------------
(***************************************************************************)
(* What a record becomes is exact when what the request knows is.          *)
(***************************************************************************)

\* The dialect that takes a record decides its span and what is remembered.
LEMMA RecordSays ==
    ASSUME NEW rec, DOMAIN rec.attrs = DOMAIN Bare, NEW f, NEW n, NEW m, m = MapRecord(rec, Policy, f, n)
    PROVE  /\ Policy = "off" => m.span = None /\ m.codex = Unchanged /\ m.gemini = Unchanged
           /\ Policy # "off" /\ DialectOf(rec) = "codex" =>
                  LET mapped == CodexMap(rec, f.codex, n.codex)
                  IN  IsCodex(rec) /\ m.span = mapped.span /\ m.codex = mapped.session /\ m.gemini = Unchanged
           /\ Policy # "off" /\ DialectOf(rec) = "gemini" =>
                  LET mapped == GeminiMap(rec, f.gemini, n.gemini)
                  IN  IsGemini(rec) /\ m.span = mapped.span /\ m.gemini = mapped.session /\ m.codex = Unchanged
           /\ DialectOf(rec) \notin {"codex", "gemini"} => m.codex = Unchanged /\ m.gemini = Unchanged
<1> DEFINE claude == ClaudeMap(rec)
           codex == CodexMap(rec, f.codex, n.codex)
           gemini == GeminiMap(rec, f.gemini, n.gemini)
           scoring == EventName(rec) = EvaluationResult
           takes(x) == x.outcome # "not_mine"
<1>1. /\ takes(claude) <=> IsClaude(rec) /\ ClaudeEvent(rec) \in ClaudeKnows
      /\ takes(codex) <=> IsCodex(rec) /\ EventName(rec) \in CodexKnows
      /\ takes(gemini) <=> IsGemini(rec) /\ EventName(rec) \in GeminiKnows
  <2>1. takes(claude) <=> IsClaude(rec) /\ ClaudeEvent(rec) \in ClaudeKnows
    BY DEF ClaudeMap, ClaudeKnows, NotMine, Folds, Becomes
  <2>2. takes(codex) <=> IsCodex(rec) /\ EventName(rec) \in CodexKnows
    BY DEF CodexMap, CodexKnows, IsRequest, NotMine, Folds, Becomes
  <2>3. takes(gemini) <=> IsGemini(rec) /\ EventName(rec) \in GeminiKnows
    BY DEF GeminiMap, GeminiKnows, NotMine, Folds, Becomes
  <2> QED
    BY <2>1, <2>2, <2>3
<1>2. /\ DialectOf(rec) = "codex" <=> ~takes(claude) /\ takes(codex)
      /\ DialectOf(rec) = "gemini" <=> ~takes(claude) /\ ~takes(codex) /\ takes(gemini)
  <2> HIDE DEF claude, codex, gemini
  <2> QED
    BY <1>1 DEF DialectOf
<1>3. takes(codex) => IsCodex(rec)
  BY DEF CodexMap, NotMine
<1>4. takes(gemini) => IsGemini(rec)
  BY DEF GeminiMap, NotMine
<1>5. scoring => ~takes(codex) /\ ~takes(gemini)
  <2>1. scoring => codex.outcome = "not_mine"
    BY DEF CodexMap, NotMine, EvaluationResult, IsRequest
  <2>2. scoring => gemini.outcome = "not_mine"
    BY DEF GeminiMap, NotMine, EvaluationResult
  <2> QED
    BY <2>1, <2>2
<1>6. ~takes(gemini) => gemini.session = Unchanged
  BY DEF GeminiMap, NotMine, Folds, Becomes
<1>7. /\ Policy = "off" => m.span = None /\ m.codex = Unchanged /\ m.gemini = Unchanged
      /\ Policy # "off" /\ scoring => m.codex = Unchanged /\ m.gemini = Unchanged
      /\ Policy # "off" /\ ~scoring /\ takes(claude) => m.codex = Unchanged /\ m.gemini = Unchanged
      /\ Policy # "off" /\ ~scoring /\ ~takes(claude) /\ takes(codex) =>
             m.span = codex.span /\ m.codex = codex.session /\ m.gemini = Unchanged
      /\ Policy # "off" /\ ~scoring /\ ~takes(claude) /\ ~takes(codex) /\ takes(gemini) =>
             m.span = gemini.span /\ m.gemini = gemini.session /\ m.codex = Unchanged
      /\ Policy # "off" /\ ~scoring /\ ~takes(claude) /\ ~takes(codex) /\ ~takes(gemini) =>
             m.codex = Unchanged /\ m.gemini = Unchanged
  <2>1. m = CASE Policy = "off" -> Result("off", None, None)
              [] Policy # "off" /\ scoring ->
                     Scored(ScoreFromEvent(rec.trace, rec.span, rec.attrs, RecordTime(rec), RecordTime(rec)))
              [] OTHER -> Kept(rec, Policy, FirstMine(claude, codex, gemini))
    BY DEF MapRecord
  <2> DEFINE score == ScoreFromEvent(rec.trace, rec.span, rec.attrs, RecordTime(rec), RecordTime(rec))
  <2> HIDE DEF claude, codex, gemini, scoring, score
  <2>2. /\ Policy = "off" => m = Result("off", None, None)
        /\ Policy # "off" /\ scoring => m = Scored(score)
        /\ Policy # "off" /\ ~scoring => m = Kept(rec, Policy, FirstMine(claude, codex, gemini))
    BY <2>1 DEF score
  <2>3. ASSUME NEW outcome, NEW span, NEW x
        PROVE  /\ Result(outcome, span, x).codex = Unchanged /\ Result(outcome, span, x).gemini = Unchanged
               /\ Result(outcome, span, x).span = span /\ Result(outcome, span, x).outcome = outcome
    BY DEF Result
  <2>4. Scored(score).codex = Unchanged /\ Scored(score).gemini = Unchanged
    BY <2>3 DEF Scored
  <2>5. takes(claude) =>
            FirstMine(claude, codex, gemini) = Result(claude.outcome, claude.span, None)
    BY DEF FirstMine
  <2>6. ~takes(claude) /\ takes(codex) =>
            /\ FirstMine(claude, codex, gemini).outcome = codex.outcome
            /\ FirstMine(claude, codex, gemini).span = codex.span
            /\ FirstMine(claude, codex, gemini).codex = codex.session
            /\ FirstMine(claude, codex, gemini).gemini = Unchanged
    BY DEF FirstMine, Result
  <2>7. ~takes(claude) /\ ~takes(codex) =>
            /\ FirstMine(claude, codex, gemini).outcome = gemini.outcome
            /\ FirstMine(claude, codex, gemini).span = gemini.span
            /\ FirstMine(claude, codex, gemini).gemini = gemini.session
            /\ FirstMine(claude, codex, gemini).codex = Unchanged
    BY DEF FirstMine, Result
  <2>8. ASSUME NEW x
        PROVE  /\ takes(x) => Kept(rec, Policy, x) = x
               /\ ~takes(x) => Kept(rec, Policy, x).codex = Unchanged /\ Kept(rec, Policy, x).gemini = Unchanged
    BY <2>3 DEF Kept
  <2> QED
    BY <2>2, <2>3, <2>4, <2>5, <2>6, <2>7, <2>8
<1> HIDE DEF claude, codex, gemini, scoring
<1>8. Policy # "off" /\ DialectOf(rec) = "codex" =>
          IsCodex(rec) /\ m.span = codex.span /\ m.codex = codex.session /\ m.gemini = Unchanged
  BY <1>2, <1>3, <1>5, <1>7
<1>9. Policy # "off" /\ DialectOf(rec) = "gemini" =>
          IsGemini(rec) /\ m.span = gemini.span /\ m.gemini = gemini.session /\ m.codex = Unchanged
  BY <1>2, <1>4, <1>5, <1>7
<1>10. DialectOf(rec) \notin {"codex", "gemini"} => m.codex = Unchanged /\ m.gemini = Unchanged
  BY <1>2, <1>7
<1> QED
  BY <1>7, <1>8, <1>9, <1>10 DEF codex, gemini

\* Both looks at a session the request knows see what the request knows.
SeesItsOwn(rec, mine, f, n) ==
    /\ SessionOf("codex", rec) \in DOMAIN mine.codex =>
           f.codex = mine.codex[SessionOf("codex", rec)] /\ n.codex = mine.codex[SessionOf("codex", rec)]
    /\ SessionOf("gemini", rec) \in DOMAIN mine.gemini => f.gemini = mine.gemini[SessionOf("gemini", rec)]

LEMMA TurnIsTurn ==
    ASSUME NEW r \in Requests, NEW j \in LogsOf(r)
    PROVE  /\ TurnOf("codex", Rec(r, j)) # None /\ TurnOf("gemini", Rec(r, j)) # None
           /\ \A d : <<TurnOf(d, Rec(r, j))[1], TurnOf(d, Rec(r, j))[2]>> = TurnOf(d, Rec(r, j))
           /\ SentRequest(Rec(r, j)) # None /\ Refusal(Rec(r, j))[2] # None
<1>1. j \in DOMAIN Items[r] /\ Items[r][j].signal = "log" /\ Rec(r, j) = Items[r][j].rec
  BY DEF LogsOf, Rec
<1>2. /\ CodexTurn(SessionOf("codex", Rec(r, j)), Rec(r, j)) # None
      /\ GeminiTurn(SessionOf("gemini", Rec(r, j)), Rec(r, j)) # None
      /\ SentRequest(Rec(r, j)) # None /\ Refusal(Rec(r, j))[2] # None
  BY <1>1, ItemsAssumption
<1>3. \A conv, rec : <<CodexTurn(conv, rec)[1], CodexTurn(conv, rec)[2]>> = CodexTurn(conv, rec)
  BY DEF CodexTurn
<1>4. \A session, rec : <<GeminiTurn(session, rec)[1], GeminiTurn(session, rec)[2]>> = GeminiTurn(session, rec)
  BY DEF GeminiTurn
<1> QED
  BY <1>2, <1>3, <1>4 DEF TurnOf

LEMMA LatestOf ==
    ASSUME NEW r \in Requests, NEW i \in LogsOf(r), NEW d, NEW s, NEW T \in SUBSET Before(r, i, d, s), T # {}
    PROVE  Max(T) \in T /\ Max(T) \in LogsOf(r)
<1>1. T \in SUBSET (1 .. i - 1) /\ i - 1 \in Nat
  <2>1. Before(r, i, d, s) \in SUBSET (1 .. i - 1) /\ i \in Nat \ {0}
    BY BeforeNext
  <2> QED
    BY <2>1
<1>2. Max(T) \in T
  BY <1>1, MaxOfIndices
<1> QED
  BY <1>2 DEF Before

LEMMA CodexIsExact ==
    ASSUME NEW r \in Requests, NEW i \in LogsOf(r), NEW mine, Knows(r, i, mine),
           \A s \in DOMAIN mine.codex : IsConversation(mine.codex[s]),
           DialectOf(Rec(r, i)) = "codex", NEW f, NEW n, SeesItsOwn(Rec(r, i), mine, f, n),
           NEW t, NEW e, e.item = i, CodexMap(Rec(r, i), f.codex, n.codex).span # None,
           e.span = Apply(t, CodexMap(Rec(r, i), f.codex, n.codex).span)
    PROVE  IsExact(r, e)
<1> DEFINE rec == Rec(r, i)
           s == SessionOf("codex", rec)
           c == mine.codex[s]
           call == AttrStr(rec.attrs, "call_id")
           cf == f.codex
           cn == n.codex
           span == Apply(t, CodexMap(rec, cf, cn).span)
           P == Prompts(r, i, "codex", s)
           S == SentBefore(r, i, s)
           Q == Standing(r, i, s, call)
<1>0. s \in SessionsOf(r, "codex")
  BY DEF SessionsOf
<1>1. e.span = span
  OBVIOUS
<1>2. s \in DOMAIN mine.codex => cf = c /\ cn = c
  BY DEF SeesItsOwn
<1>3. P # {} => s \in DOMAIN mine.codex /\ c.turn = TurnOf("codex", Rec(r, Max(P))) /\ Max(P) \in LogsOf(r)
  <2>1. P # {} => s \in DOMAIN mine.codex /\ c.turn = TurnOf("codex", Rec(r, Max(P)))
    BY <1>0 DEF Knows, KnowsTurn
  <2>2. P \in SUBSET Before(r, i, "codex", s)
    BY DEF Prompts
  <2> HIDE DEF P, s
  <2> QED
    BY <2>1, <2>2, LatestOf
<1>4. S # {} => s \in DOMAIN mine.codex /\ c.request = SentRequest(Rec(r, Max(S))) /\ Max(S) \in LogsOf(r)
  <2>1. S # {} => s \in DOMAIN mine.codex /\ c.request = SentRequest(Rec(r, Max(S)))
    BY <1>0 DEF Knows, KnowsRequest
  <2>2. S \in SUBSET Before(r, i, "codex", s)
    BY DEF SentBefore
  <2> HIDE DEF S, s
  <2> QED
    BY <2>1, <2>2, LatestOf
<1>5. Q # {} => s \in DOMAIN mine.codex /\ RefusalAt(c, call) # 0 /\ c.refused[RefusalAt(c, call)][2] # None
  <2> SUFFICES ASSUME NEW j \in Q
               PROVE  s \in DOMAIN mine.codex /\ RefusalAt(c, call) # 0 /\ c.refused[RefusalAt(c, call)][2] # None
    OBVIOUS
  <2>1. j \in Refusals(r, i, s) /\ AttrStr(Rec(r, j).attrs, "call_id") = call
    BY DEF Standing
  <2>2. s \in DOMAIN mine.codex /\ Keeps(c, Refusal(Rec(r, j)), Cardinality(LaterRefusals(r, i, s, j)))
    BY <1>0, <2>1 DEF Knows, KnowsRefusals
  <2>3. PICK p \in DOMAIN c.refused : c.refused[p] = Refusal(Rec(r, j))
    BY <2>2 DEF Keeps
  <2>4. c.refused[p][1] = call /\ call # None
    BY <2>1, <2>3 DEF Refusal, Refusals, Refuses
  <2>5. c.refused \in Seq(RefusalsSent)
    BY <2>2 DEF IsConversation
  <2> DEFINE at == RefusalAt(c, call)
  <2> HIDE DEF c, call, s
  <2>6. at # 0 /\ at \in 1 .. Len(c.refused)
    BY <2>3, <2>4, <2>5, RefusalFound
  <2>7. c.refused[at] \in RefusalsSent
    BY <2>5, <2>6
  <2>8. \A x \in RefusalsSent : x[2] # None
    BY TurnIsTurn DEF RefusalsSent
  <2> QED
    BY <2>2, <2>6, <2>7, <2>8
<1>6. /\ EventName(rec) # "codex.user_prompt" /\ cf.turn = cn.turn /\ cn.turn # None =>
             span.trace = cn.turn[1] /\ span.parent = cn.turn[2]
      /\ EventName(rec) = "codex.sse_event" /\ OwnContext(rec) = None /\ cf.request # None =>
             span.start = Min({cf.request.start, RecordTime(rec)})
      /\ EventName(rec) = "codex.tool_result" /\ RefusalAt(cn, call) # 0 /\ cn.refused[RefusalAt(cn, call)][2] # None =>
             span.status = ErrorStatus
  <2>1. CodexMap(rec, cf, cn).span # None /\ span = Apply(t, CodexMap(rec, cf, cn).span)
    OBVIOUS
  <2> HIDE DEF rec, cf, cn, span
  <2>2. CodexPlaced(rec, cf, cn, span)
    BY <2>1, CodexPlaces
  <2> QED
    BY <2>2 DEF CodexPlaced
<1> HIDE DEF span, c, cf, cn
<1>7. PlacedByPrompt(r, e, "codex")
  <2>1. P # {} /\ EventName(rec) \notin {"codex.user_prompt", "gemini_cli.user_prompt"} =>
            <<e.span.trace, e.span.parent>> = TurnOf("codex", Rec(r, Max(P)))
    BY <1>1, <1>2, <1>3, <1>6, TurnIsTurn
  <2> QED
    BY <2>1 DEF PlacedByPrompt
<1>8. StartedByRequest(r, e)
  <2>1. S # {} /\ EventName(rec) = "codex.sse_event" /\ OwnContext(rec) = None =>
            e.span.start = Min({StartOf(Rec(r, Max(S))), RecordTime(rec)})
    <3>1. \A q : SentRequest(q).start = StartOf(q)
      BY DEF SentRequest
    <3> QED
      BY <1>1, <1>2, <1>4, <1>6, <3>1, TurnIsTurn
  <2> QED
    BY <2>1 DEF StartedByRequest
<1>9. RefusedByDecision(r, e)
  <2>1. Q # {} /\ EventName(rec) = "codex.tool_result" => e.span.status = ErrorStatus
    BY <1>1, <1>2, <1>5, <1>6
  <2> QED
    BY <2>1 DEF RefusedByDecision
<1> QED
  BY <1>7, <1>8, <1>9 DEF IsExact

LEMMA GeminiIsExact ==
    ASSUME NEW r \in Requests, NEW i \in LogsOf(r), NEW mine, Knows(r, i, mine),
           DialectOf(Rec(r, i)) = "gemini", NEW f, NEW n, SeesItsOwn(Rec(r, i), mine, f, n),
           NEW t, NEW e, e.item = i, GeminiMap(Rec(r, i), f.gemini, n.gemini).span # None,
           e.span = Apply(t, GeminiMap(Rec(r, i), f.gemini, n.gemini).span)
    PROVE  IsExact(r, e)
<1> DEFINE rec == Rec(r, i)
           s == SessionOf("gemini", rec)
           cf == f.gemini
           cn == n.gemini
           P == Prompts(r, i, "gemini", s)
<1>0. s \in SessionsOf(r, "gemini")
  BY DEF SessionsOf
<1>1. P # {} => s \in DOMAIN mine.gemini /\ mine.gemini[s].turn = TurnOf("gemini", Rec(r, Max(P))) /\ Max(P) \in LogsOf(r)
  <2>1. P # {} => s \in DOMAIN mine.gemini /\ mine.gemini[s].turn = TurnOf("gemini", Rec(r, Max(P)))
    BY <1>0 DEF Knows, KnowsTurn
  <2>2. P \in SUBSET Before(r, i, "gemini", s)
    BY DEF Prompts
  <2> HIDE DEF P, s
  <2> QED
    BY <2>1, <2>2, LatestOf
<1>2. s \in DOMAIN mine.gemini => cf = mine.gemini[s]
  BY DEF SeesItsOwn
<1>3. EventName(rec) # "gemini_cli.user_prompt" /\ cf.turn # None => e.span.trace = cf.turn[1] /\ e.span.parent = cf.turn[2]
  <2>1. GeminiMap(rec, cf, cn).span # None /\ e.span = Apply(t, GeminiMap(rec, cf, cn).span)
    OBVIOUS
  <2> HIDE DEF rec, cf, cn
  <2> QED
    BY <2>1, GeminiPlaces
<1> HIDE DEF cf
<1>4. PlacedByPrompt(r, e, "gemini")
  <2>1. P # {} /\ EventName(rec) \notin {"codex.user_prompt", "gemini_cli.user_prompt"} =>
            <<e.span.trace, e.span.parent>> = TurnOf("gemini", Rec(r, Max(P)))
    BY <1>1, <1>2, <1>3, TurnIsTurn
  <2> QED
    BY <2>1 DEF PlacedByPrompt
<1> QED
  BY <1>4 DEF IsExact

----------------------------------------------------------------------------
(***************************************************************************)
(* What is remembered stays what it is: conversations and sessions.        *)
(***************************************************************************)

\* What is seen of a session is what a layer remembers of it, or nothing.
LEMMA SeenIs ==
    ASSUME NEW mine, NEW node, NEW session, NEW nothing
    PROVE  /\ session \in DOMAIN mine => Get(mine, node, session, nothing) = mine[session]
           /\ session \notin DOMAIN mine =>
                  \/ session \in DOMAIN node.map /\ Get(mine, node, session, nothing) = node.map[session]
                  \/ Get(mine, node, session, nothing) = nothing
BY DEF Get

LEMMA NewAreTyped == IsConversation(NewConversation) /\ IsSession(NewSession)
<1>1. NewConversation.refused = <<>> /\ <<>> \in Seq(RefusalsSent)
  BY DEF NewConversation
<1> QED
  BY <1>1 DEF IsConversation, IsSession

LEMMA AfterIsConversation ==
    ASSUME NEW r \in Requests, NEW i \in LogsOf(r), NEW c, IsConversation(c), NEW d, CodexAfter(Rec(r, i), c, d)
    PROVE  IsConversation(d)
<1> DEFINE rec == Rec(r, i)
           call == AttrStr(rec.attrs, "call_id")
           s == c.refused
           at == RefusalAt(c, call)
<1>1. s \in Seq(RefusalsSent) /\ Refusal(rec) \in RefusalsSent
  BY DEF IsConversation, RefusalsSent
<1>2. /\ DOMAIN d = DOMAIN NewConversation
      /\ \/ d.refused = LastOf(Append(s, Refusal(rec)), RefusedKept)
         \/ at # 0 /\ d.refused = RemoveAt(s, at)
         \/ d.refused = s
  BY DEF CodexAfter
<1>3. at # 0 => at \in 1 .. Len(s)
  BY <1>1, RefusalFound
<1>4. ASSUME d.refused = LastOf(Append(s, Refusal(rec)), RefusedKept) PROVE d.refused \in Seq(RefusalsSent)
  <2> HIDE DEF rec
  <2> QED
    BY <1>1, <1>4, KeepsNew
<1>5. ASSUME at # 0, d.refused = RemoveAt(s, at) PROVE d.refused \in Seq(RefusalsSent)
  <2> HIDE DEF s, at
  <2> QED
    BY <1>1, <1>3, <1>5, RemovedIs
<1> QED
  BY <1>1, <1>2, <1>4, <1>5 DEF IsConversation

LEMMA RememberedIs ==
    ASSUME NEW node, Ordered(node), NEW session, NEW value, NEW new, new = Remember(node, session, value)
    PROVE  /\ Ordered(new)
           /\ \A s \in DOMAIN new.map : new.map[s] = value \/ (s \in DOMAIN node.map /\ new.map[s] = node.map[s])
<1> DEFINE known == session \in DOMAIN node.map
           order == IF known THEN node.order ELSE Append(node.order, session)
           all == Updated(node.map, session, value)
           from == IF Len(order) > RecallCapacity THEN Len(order) - RecallCapacity + 1 ELSE 1
           kept == SubSeq(order, from, Len(order))
<1>1. CASE session = ""
  BY <1>1 DEF Remember
<1>2. CASE session # ""
  <2>1. new = [map |-> [s \in ToSet(kept) |-> all[s]], order |-> kept]
    BY <1>2 DEF Remember
  <2>2. order \in Seq(DOMAIN node.map \cup {session})
    BY DEF Ordered
  <2>3. RecallCapacity \in Nat \ {0}
    BY TelemetryAssumption
  <2>4. /\ DOMAIN all = DOMAIN node.map \cup {session}
        /\ \A s \in DOMAIN all : all[s] = IF s = session THEN value ELSE node.map[s]
    BY DEF Updated
  <2> HIDE DEF order, all
  <2>5. kept \in Seq(DOMAIN node.map \cup {session})
    <3>1. from \in Int /\ Len(order) \in Int /\ from >= 1
      BY <2>2, <2>3
    <3>2. \A j \in from .. Len(order) : order[j] \in DOMAIN node.map \cup {session}
      <4>1. \A j \in from .. Len(order) : j \in 1 .. Len(order)
        BY <3>1
      <4> QED
        BY <2>2, <4>1
    <3> HIDE DEF from
    <3> QED
      BY <3>1, <3>2, SubSeqProperties
  <2> HIDE DEF kept
  <2>6. kept \in Seq(ToSet(kept)) /\ ToSet(kept) \subseteq DOMAIN all
    BY <2>4, <2>5 DEF ToSet
  <2>7. new.order = kept /\ DOMAIN new.map = ToSet(kept) /\ \A s \in ToSet(kept) : new.map[s] = all[s]
    BY <2>1
  <2>8. Ordered(new)
    BY <2>6, <2>7 DEF Ordered
  <2> QED
    BY <2>4, <2>6, <2>7, <2>8
<1> QED
  BY <1>1, <1>2

----------------------------------------------------------------------------
(***************************************************************************)
(* The steps.                                                              *)
(***************************************************************************)

LEMMA KnowsLeftAlone ==
    ASSUME NEW r \in Requests, KnowsItsOwn(r), pos'[r] = pos[r], local'[r] = local[r], first'[r] = first[r], out'[r] = out[r]
    PROVE  KnowsItsOwn(r)'
<1>1. SawItsOwn(r)'
  BY DEF KnowsItsOwn, SawItsOwn
<1> QED
  BY <1>1 DEF KnowsItsOwn, ToSet

\* Nothing is known of a request that starts over, and there is nothing to know.
LEMMA KnowsFromTheStart ==
    ASSUME NEW r \in Requests
    PROVE  Knows(r, 1, NoLocal) /\ DOMAIN NoLocal = {"codex", "gemini"} /\ Remembers(NoLocal.codex, NoLocal.gemini)
<1>1. \A d, s : Before(r, 1, d, s) = {}
  <2>1. \A j \in LogsOf(r) : ~(j < 1)
    BY LogsAreIndices
  <2> QED
    BY <2>1 DEF Before
<1>2. \A d, s : Prompts(r, 1, d, s) = {} /\ SentBefore(r, 1, s) = {} /\ Refusals(r, 1, s) = {}
  BY <1>1 DEF Prompts, SentBefore, Refusals
<1>3. Knows(r, 1, NoLocal)
  BY <1>2 DEF Knows, KnowsTurn, KnowsRequest, KnowsRefusals
<1>4. NoLocal.codex = <<>> /\ NoLocal.gemini = <<>> /\ DOMAIN <<>> = {}
  BY DEF NoLocal
<1> QED
  BY <1>3, <1>4 DEF NoLocal, Remembers

LEMMA KnowsEmptied ==
    ASSUME NEW r \in Requests, pos'[r] = 1, local'[r] = NoLocal, first'[r] = None, out'[r] = <<>>
    PROVE  KnowsItsOwn(r)'
<1>1. SawItsOwn(r)'
  BY DEF SawItsOwn
<1>2. ToSet(<<>>) = {}
  BY DEF ToSet
<1> QED
  BY <1>1, <1>2, KnowsFromTheStart DEF KnowsItsOwn, ToSet

LEMMA ForgetKeepsKnowledge ==
    ASSUME KnowledgeInv, NEW R \in SUBSET Requests, Forget(R), DOMAIN pc' = Requests,
           \A r \in Requests \ R : pc'[r] = pc[r], NodeRemembers'
    PROVE  KnowledgeInv'
<1>1. Shape'
  BY DEF Forget, Shape
<1>2. ASSUME NEW r \in Requests PROVE Placed(r)' /\ KnowsItsOwn(r)'
  <2>1. CASE r \in R
    <3>1. pos'[r] = 1 /\ out'[r] = <<>> /\ local'[r] = NoLocal /\ first'[r] = None
      BY <2>1 DEF Forget
    <3> QED
      BY <3>1, Emptied, KnowsEmptied
  <2>2. CASE r \notin R
    <3>1. pos'[r] = pos[r] /\ out'[r] = out[r] /\ local'[r] = local[r] /\ first'[r] = first[r] /\ pc'[r] = pc[r]
      BY <2>2 DEF Forget
    <3> QED
      BY <3>1, LeftAlone, KnowsLeftAlone DEF KnowledgeInv
  <2> QED
    BY <2>1, <2>2
<1> QED
  BY <1>1, <1>2 DEF KnowledgeInv

\* The two layers after a record, and the first.
LEMMA LayerGrows ==
    ASSUME NEW r \in Requests, NEW i \in LogsOf(r), Policy # "off", NEW mine, NEW f, NEW now, NEW m,
           m = MapRecord(Rec(r, i), Policy, f, now), DOMAIN Rec(r, i).attrs = DOMAIN Bare,
           IsConversation(now.codex), IsSession(now.gemini), SeesItsOwn(Rec(r, i), mine, now, now),
           NEW new,
           new.codex = IF m.codex = Unchanged THEN mine.codex
                       ELSE Updated(mine.codex, SessionOf("codex", Rec(r, i)), m.codex[1]),
           new.gemini = IF m.gemini = Unchanged THEN mine.gemini
                        ELSE Updated(mine.gemini, SessionOf("gemini", Rec(r, i)), m.gemini[1])
    PROVE  Grows(r, i, mine, new)
<1> DEFINE rec == Rec(r, i)
           sc == SessionOf("codex", rec)
           sg == SessionOf("gemini", rec)
<1>1. /\ DialectOf(rec) = "codex" => CodexSays(rec, now.codex, m.codex) /\ m.gemini = Unchanged
      /\ DialectOf(rec) = "gemini" => GeminiSays(rec, now.gemini, m.gemini) /\ m.codex = Unchanged
      /\ DialectOf(rec) \notin {"codex", "gemini"} => m.codex = Unchanged /\ m.gemini = Unchanged
  <2> DEFINE cf == f.codex
             cn == now.codex
             gf == f.gemini
             gn == now.gemini
  <2>1. /\ DialectOf(rec) = "codex" => IsCodex(rec) /\ m.codex = CodexMap(rec, cf, cn).session /\ m.gemini = Unchanged
        /\ DialectOf(rec) = "gemini" => IsGemini(rec) /\ m.gemini = GeminiMap(rec, gf, gn).session /\ m.codex = Unchanged
        /\ DialectOf(rec) \notin {"codex", "gemini"} => m.codex = Unchanged /\ m.gemini = Unchanged
    BY RecordSays
  <2>2. DOMAIN cn = DOMAIN NewConversation /\ DOMAIN gn = DOMAIN NewSession
    BY DEF IsConversation, IsSession
  <2> HIDE DEF cf, cn, gf, gn, rec
  <2>3. IsCodex(rec) => CodexSays(rec, cn, CodexMap(rec, cf, cn).session)
    BY <2>2, CodexRemembers
  <2>4. IsGemini(rec) => GeminiSays(rec, gn, GeminiMap(rec, gf, gn).session)
    BY <2>2, GeminiRemembers
  <2> QED
    BY <2>1, <2>3, <2>4 DEF cn, gn
<1>2. /\ \A s \in DOMAIN mine.codex : s # sc \/ m.codex = Unchanged => s \in DOMAIN new.codex /\ new.codex[s] = mine.codex[s]
      /\ m.codex # Unchanged => sc \in DOMAIN new.codex /\ new.codex[sc] = m.codex[1]
      /\ m.codex = Unchanged => new.codex = mine.codex
  BY DEF Updated
<1>3. /\ \A s \in DOMAIN mine.gemini : s # sg \/ m.gemini = Unchanged => s \in DOMAIN new.gemini /\ new.gemini[s] = mine.gemini[s]
      /\ m.gemini # Unchanged => sg \in DOMAIN new.gemini /\ new.gemini[sg] = m.gemini[1]
      /\ m.gemini = Unchanged => new.gemini = mine.gemini
  BY DEF Updated
<1>4. Carried(r, i, "codex", mine.codex, new.codex)
  BY <1>1, <1>2 DEF Carried, Told
<1>5. Carried(r, i, "gemini", mine.gemini, new.gemini)
  BY <1>1, <1>3 DEF Carried, Told
<1>6. DialectOf(rec) = "codex" => CodexTold(rec, mine.codex, new.codex)
  <2> SUFFICES ASSUME CodexSays(rec, now.codex, m.codex) PROVE CodexTold(rec, mine.codex, new.codex)
    BY <1>1
  <2>1. sc \in DOMAIN mine.codex => now.codex = mine.codex[sc]
    BY DEF SeesItsOwn
  <2>2. CASE m.codex = Unchanged
    <3>1. CodexAfter(rec, now.codex, now.codex) /\ EventName(rec) # "codex.user_prompt" /\ ~IsSent(rec) /\ ~Refuses(rec)
      BY <2>2 DEF CodexSays
    <3> QED
      BY <1>2, <2>1, <2>2, <3>1 DEF CodexTold
  <2>3. CASE m.codex # Unchanged
    <3>1. CodexAfter(rec, now.codex, new.codex[sc]) /\ sc \in DOMAIN new.codex
      BY <1>2, <2>3 DEF CodexSays
    <3> QED
      BY <2>1, <3>1 DEF CodexTold
  <2> QED
    BY <2>2, <2>3
<1>7. DialectOf(rec) = "gemini" => GeminiTold(rec, mine.gemini, new.gemini)
  <2> SUFFICES ASSUME GeminiSays(rec, now.gemini, m.gemini) PROVE GeminiTold(rec, mine.gemini, new.gemini)
    BY <1>1
  <2>1. sg \in DOMAIN mine.gemini => now.gemini = mine.gemini[sg]
    BY DEF SeesItsOwn
  <2>2. CASE m.gemini = Unchanged
    <3>1. GeminiAfter(rec, now.gemini, now.gemini) /\ EventName(rec) # "gemini_cli.user_prompt"
      BY <2>2 DEF GeminiSays
    <3> QED
      BY <1>3, <2>1, <2>2, <3>1 DEF GeminiTold
  <2>3. CASE m.gemini # Unchanged
    <3>1. GeminiAfter(rec, now.gemini, new.gemini[sg]) /\ sg \in DOMAIN new.gemini
      BY <1>3, <2>3 DEF GeminiSays
    <3> QED
      BY <2>1, <3>1 DEF GeminiTold
  <2> QED
    BY <2>2, <2>3
<1> QED
  BY <1>4, <1>5, <1>6, <1>7 DEF Grows

\* What a mapping says to remember is a conversation, or a session.
LEMMA SaidIsTyped ==
    ASSUME NEW r \in Requests, NEW i \in LogsOf(r), NEW f, NEW now, NEW m,
           m = MapRecord(Rec(r, i), Policy, f, now), DOMAIN Rec(r, i).attrs = DOMAIN Bare,
           IsConversation(now.codex), IsSession(now.gemini)
    PROVE  /\ m.codex # Unchanged => IsConversation(m.codex[1])
           /\ m.gemini # Unchanged => IsSession(m.gemini[1])
<1> DEFINE rec == Rec(r, i)
           cf == f.codex
           cn == now.codex
           gf == f.gemini
           gn == now.gemini
<1>1. /\ m.codex # Unchanged => IsCodex(rec) /\ m.codex = CodexMap(rec, cf, cn).session
      /\ m.gemini # Unchanged => IsGemini(rec) /\ m.gemini = GeminiMap(rec, gf, gn).session
  BY RecordSays
<1>2. DOMAIN cn = DOMAIN NewConversation /\ DOMAIN gn = DOMAIN NewSession
  BY DEF IsConversation, IsSession
<1> HIDE DEF cf, cn, gf, gn, rec
<1>3. IsCodex(rec) => CodexSays(rec, cn, CodexMap(rec, cf, cn).session)
  BY <1>2, CodexRemembers
<1>4. IsGemini(rec) => GeminiSays(rec, gn, GeminiMap(rec, gf, gn).session)
  BY <1>2, GeminiRemembers
<1>5. m.codex # Unchanged => CodexAfter(rec, cn, m.codex[1])
  BY <1>1, <1>3 DEF CodexSays
<1>6. m.gemini # Unchanged => GeminiAfter(rec, gn, m.gemini[1])
  BY <1>1, <1>4 DEF GeminiSays
<1>7. m.codex # Unchanged => IsConversation(m.codex[1])
  BY <1>5, AfterIsConversation DEF cn, rec
<1> QED
  BY <1>6, <1>7 DEF GeminiAfter, IsSession

\* What a request sees of a session, at either look.
LEMMA LooksAreTyped ==
    ASSUME NodeRemembers, NEW r \in Requests, Remembers(local[r].codex, local[r].gemini), NEW rec
    PROVE  IsConversation(Seen(r, rec).codex) /\ IsSession(Seen(r, rec).gemini)
<1> DEFINE mc == local[r].codex
           mg == local[r].gemini
           nc == recall.codex
           ng == recall.gemini
           sc == SessionOf("codex", rec)
           sg == SessionOf("gemini", rec)
<1>1. Seen(r, rec).codex = Get(mc, nc, sc, NewConversation) /\ Seen(r, rec).gemini = Get(mg, ng, sg, NewSession)
  BY DEF Seen
<1>2. /\ \A s \in DOMAIN mc : IsConversation(mc[s])
      /\ \A s \in DOMAIN mg : IsSession(mg[s])
      /\ \A s \in DOMAIN nc.map : IsConversation(nc.map[s])
      /\ \A s \in DOMAIN ng.map : IsSession(ng.map[s])
  BY DEF NodeRemembers, Remembers
<1> HIDE DEF mc, mg, nc, ng, sc, sg
<1>3. IsConversation(Get(mc, nc, sc, NewConversation))
  BY <1>2, SeenIs, NewAreTyped
<1>4. IsSession(Get(mg, ng, sg, NewSession))
  BY <1>2, SeenIs, NewAreTyped
<1> QED
  BY <1>1, <1>3, <1>4

LEMMA SeesOwnNow ==
    ASSUME NEW r \in Requests, NEW rec
    PROVE  SeesItsOwn(rec, local[r], Seen(r, rec), Seen(r, rec))
BY SeenIs DEF SeesItsOwn, Seen

\* The node remembers what a mapping says.
LEMMA NodeStep ==
    ASSUME NodeRemembers, NEW rec, NEW m,
           m.codex # Unchanged => IsConversation(m.codex[1]), m.gemini # Unchanged => IsSession(m.gemini[1]),
           recall' = [d \in DOMAIN recall |->
                         IF m[d] = Unchanged THEN recall[d] ELSE Remember(recall[d], SessionOf(d, rec), m[d][1])]
    PROVE  NodeRemembers'
<1> DEFINE nc == recall.codex
           ng == recall.gemini
           sc == SessionOf("codex", rec)
           sg == SessionOf("gemini", rec)
           nc1 == recall'.codex
           ng1 == recall'.gemini
<1>1. /\ DOMAIN recall' = {"codex", "gemini"}
      /\ nc1 = IF m.codex = Unchanged THEN nc ELSE Remember(nc, sc, m.codex[1])
      /\ ng1 = IF m.gemini = Unchanged THEN ng ELSE Remember(ng, sg, m.gemini[1])
  BY DEF NodeRemembers
<1>2. /\ Ordered(nc) /\ Ordered(ng)
      /\ \A s \in DOMAIN nc.map : IsConversation(nc.map[s])
      /\ \A s \in DOMAIN ng.map : IsSession(ng.map[s])
  BY DEF NodeRemembers, Remembers
<1> HIDE DEF nc, ng, sc, sg, nc1, ng1
<1>3. Ordered(nc1) /\ \A s \in DOMAIN nc1.map : IsConversation(nc1.map[s])
  <2>1. CASE m.codex = Unchanged
    BY <1>1, <1>2, <2>1
  <2>2. CASE m.codex # Unchanged
    <3>1. Ordered(nc1) /\ \A s \in DOMAIN nc1.map :
              nc1.map[s] = m.codex[1] \/ (s \in DOMAIN nc.map /\ nc1.map[s] = nc.map[s])
      BY <1>1, <1>2, <2>2, RememberedIs
    <3> QED
      BY <1>2, <2>2, <3>1
  <2> QED
    BY <2>1, <2>2
<1>4. Ordered(ng1) /\ \A s \in DOMAIN ng1.map : IsSession(ng1.map[s])
  <2>1. CASE m.gemini = Unchanged
    BY <1>1, <1>2, <2>1
  <2>2. CASE m.gemini # Unchanged
    <3>1. Ordered(ng1) /\ \A s \in DOMAIN ng1.map :
              ng1.map[s] = m.gemini[1] \/ (s \in DOMAIN ng.map /\ ng1.map[s] = ng.map[s])
      BY <1>1, <1>2, <2>2, RememberedIs
    <3> QED
      BY <1>2, <2>2, <3>1
  <2> QED
    BY <2>1, <2>2
<1> QED
  BY <1>1, <1>3, <1>4 DEF NodeRemembers, Remembers, Ordered, IsConversation, IsSession, RefusalsSent, nc1, ng1

LEMMA MapKeepsKnowledge ==
    ASSUME KnowledgeInv, NEW r \in Requests, Map(r)
    PROVE  KnowledgeInv'
<1> DEFINE i == pos[r]
           rec == Items[r][i].rec
           now == Seen(r, rec)
           seen == OrElse(first[r], now)
           m == MapRecord(rec, Policy, seen, now)
           spans == Some(m.span)
           scores == Some(m.score)
           entries == Entries(r, i, spans, scores)
           mine == local[r]
           new == local'[r]
<1>1. pc[r] = "mapping" /\ i \in DOMAIN Items[r] /\ Items[r][i].signal = "log"
  BY PosIsItem DEF Map, Mapping, KnowledgeInv
<1>2. i \in LogsOf(r) /\ DOMAIN rec.attrs = DOMAIN Bare /\ rec = Rec(r, i)
  BY <1>1, LogItemIs DEF Rec
<1>3. /\ out' = [out EXCEPT ![r] = @ \o entries]
      /\ local' = [local EXCEPT ![r] = Layered(@, m, rec)]
      /\ recall' = [d \in DOMAIN recall |->
                       IF m[d] = Unchanged THEN recall[d] ELSE Remember(recall[d], SessionOf(d, rec), m[d][1])]
      /\ first' = [first EXCEPT ![r] = None] /\ pos' = [pos EXCEPT ![r] = @ + 1] /\ pc' = pc
  <2>1. out' = [out EXCEPT ![r] = @ \o entries]
    BY DEF Map
  <2>2. local' = [local EXCEPT ![r] = Layered(@, m, rec)]
    BY DEF Map
  <2>3. recall' = [d \in DOMAIN recall |->
                      IF m[d] = Unchanged THEN recall[d] ELSE Remember(recall[d], SessionOf(d, rec), m[d][1])]
    BY DEF Map
  <2>4. first' = [first EXCEPT ![r] = None] /\ pos' = [pos EXCEPT ![r] = @ + 1] /\ pc' = pc
    BY DEF Map
  <2> HIDE DEF i, rec, now, seen, m, spans, scores, entries
  <2> QED
    BY <2>1, <2>2, <2>3, <2>4
<1>4. DOMAIN mine = {"codex", "gemini"} /\ Remembers(mine.codex, mine.gemini) /\ (Policy # "off" => Knows(r, i, mine))
      /\ \A e \in ToSet(out[r]) : IsExact(r, e)
  BY DEF KnowledgeInv, KnowsItsOwn
<1>5. IsConversation(now.codex) /\ IsSession(now.gemini)
  <2> HIDE DEF rec
  <2> QED
    BY <1>4, LooksAreTyped DEF KnowledgeInv
<1>6. SeesItsOwn(rec, mine, now, now) /\ SeesItsOwn(rec, mine, seen, now)
  <2>1. SeesItsOwn(rec, mine, now, now)
    <3> HIDE DEF rec
    <3> QED
      BY SeesOwnNow
  <2>2. CASE first[r] = None
    <3>1. seen = now
      BY <2>2 DEF OrElse
    <3> QED
      BY <2>1, <3>1
  <2>3. CASE first[r] # None
    <3>1. seen = first[r]
      BY <2>3 DEF OrElse
    <3>2. /\ SessionOf("codex", rec) \in DOMAIN mine.codex => first[r].codex = mine.codex[SessionOf("codex", rec)]
          /\ SessionOf("gemini", rec) \in DOMAIN mine.gemini => first[r].gemini = mine.gemini[SessionOf("gemini", rec)]
      BY <1>2, <2>3 DEF KnowledgeInv, KnowsItsOwn, SawItsOwn
    <3> HIDE DEF now, seen, rec
    <3> QED
      BY <2>1, <3>1, <3>2 DEF SeesItsOwn
  <2> QED
    BY <2>2, <2>3
<1>7. m = MapRecord(rec, Policy, seen, now)
  OBVIOUS
<1>8. /\ DOMAIN new = {"codex", "gemini"}
      /\ new.codex = IF m.codex = Unchanged THEN mine.codex ELSE Updated(mine.codex, SessionOf("codex", rec), m.codex[1])
      /\ new.gemini = IF m.gemini = Unchanged THEN mine.gemini ELSE Updated(mine.gemini, SessionOf("gemini", rec), m.gemini[1])
  <2>1. new = [d \in DOMAIN mine |-> IF m[d] = Unchanged THEN mine[d] ELSE Updated(mine[d], SessionOf(d, rec), m[d][1])]
    BY <1>3 DEF KnowledgeInv, Shape, Layered
  <2> HIDE DEF new, mine, m, rec
  <2> QED
    BY <1>4, <2>1
<1>9. entries \in Seq(ToSet(entries))
  <2>1. spans \in Seq({m.span}) /\ scores \in Seq({m.score})
    BY SomeIsSeq
  <2> HIDE DEF spans, scores, m
  <2> QED
    BY <2>1, EntriesAre
<1>10. \A e \in ToSet(entries) : e.item = i /\ (e.span # None => e.span = Apply(TableOf(r), m.span) /\ m.span # None)
  <2>1. spans \in Seq({m.span}) /\ scores \in Seq({m.score})
    BY SomeIsSeq
  <2>2. \A j \in DOMAIN spans : spans[j] = m.span /\ m.span # None
    BY DEF Some
  <2> HIDE DEF spans, scores, m
  <2>3. \A e \in ToSet(entries) : e.item = i /\ (e.span # None => \E j \in DOMAIN spans : e.span = Apply(TableOf(r), spans[j]))
    BY <2>1, EntriesAre
  <2> QED
    BY <2>2, <2>3
<1> HIDE DEF rec, now, seen, m, entries, spans, scores, mine, new, i
<1>11. /\ m.codex # Unchanged => IsConversation(m.codex[1])
       /\ m.gemini # Unchanged => IsSession(m.gemini[1])
  BY <1>2, <1>5, <1>7, SaidIsTyped
<1>12. NodeRemembers'
  BY <1>3, <1>11, NodeStep DEF KnowledgeInv
<1>13. Remembers(new.codex, new.gemini)
  BY <1>4, <1>8, <1>11 DEF Remembers, Updated
<1>14. Policy # "off" => Knows(r, i + 1, new)
  <2>1. Policy # "off" => Grows(r, i, mine, new)
    BY <1>2, <1>5, <1>6, <1>7, <1>8, LayerGrows
  <2> QED
    BY <1>2, <1>4, <2>1, KnowsNext
<1>15. \A e \in ToSet(entries) : IsExact(r, e)
  <2> SUFFICES ASSUME NEW e \in ToSet(entries), e.span # None, DialectOf(rec) \in {"codex", "gemini"}
               PROVE  IsExact(r, e)
    BY <1>2, <1>10 DEF IsExact
  <2> DEFINE t == TableOf(r)
             cm == CodexMap(rec, seen.codex, now.codex)
             gm == GeminiMap(rec, seen.gemini, now.gemini)
  <2>1. e.item = i /\ e.span = Apply(t, m.span) /\ m.span # None
    BY <1>10
  <2>2. /\ Policy # "off"
        /\ DialectOf(rec) = "codex" => m.span = cm.span
        /\ DialectOf(rec) = "gemini" => m.span = gm.span
    BY <1>2, <1>7, <2>1, RecordSays
  <2>3. Knows(r, i, mine)
    BY <1>4, <2>2
  <2> HIDE DEF t
  <2>4. CASE DialectOf(rec) = "codex"
    <3>1. cm.span # None /\ e.span = Apply(t, cm.span)
      BY <2>1, <2>2, <2>4
    <3>2. \A s \in DOMAIN mine.codex : IsConversation(mine.codex[s])
      BY <1>4 DEF Remembers
    <3> QED
      BY <1>2, <1>6, <2>1, <2>3, <2>4, <3>1, <3>2, CodexIsExact
  <2>5. CASE DialectOf(rec) = "gemini"
    <3>1. gm.span # None /\ e.span = Apply(t, gm.span)
      BY <2>1, <2>2, <2>5
    <3> QED
      BY <1>2, <1>6, <2>1, <2>3, <2>5, <3>1, GeminiIsExact
  <2> QED
    BY <2>4, <2>5
<1>16. out[r] \o entries \in Seq(ToSet(out[r] \o entries)) /\ ToSet(out[r] \o entries) = ToSet(out[r]) \cup ToSet(entries)
  <2> DEFINE X == ToSet(out[r]) \cup ToSet(entries)
             both == out[r] \o entries
  <2>1. out[r] \in Seq(X) /\ entries \in Seq(X)
    <3>1. out[r] \in Seq(ToSet(out[r]))
      BY DEF KnowledgeInv, Placed
    <3> QED
      BY <1>9, <3>1
  <2> HIDE DEF X
  <2>2. both \in Seq(X) /\ ToSet(both) = ToSet(out[r]) \cup ToSet(entries)
    BY <2>1, ToSetConcat
  <2>3. \A q \in Seq(X) : q \in Seq(ToSet(q))
    BY DEF ToSet
  <2> QED
    BY <2>2, <2>3
<1>17. Shape'
  BY <1>3 DEF KnowledgeInv, Shape, Map
<1>18. /\ pos'[r] = i + 1 /\ first'[r] = None /\ out'[r] = out[r] \o entries /\ local'[r] = new
       /\ \A s \in Requests \ {r} : pos'[s] = pos[s] /\ first'[s] = first[s] /\ out'[s] = out[s] /\ local'[s] = local[s]
  BY <1>3 DEF KnowledgeInv, Shape, i, new
<1>19. ASSUME NEW s \in Requests PROVE Placed(s)' /\ KnowsItsOwn(s)'
  <2>1. CASE s # r
    BY <1>3, <1>18, <2>1, LeftAlone, KnowsLeftAlone DEF KnowledgeInv
  <2>2. CASE s = r
    <3>1. i \in Nat \ {0}
      BY DEF KnowledgeInv, Placed, i
    <3>2. Placed(r)'
      <4>1. pos'[r] \in Nat \ {0} /\ pc'[r] = "mapping"
        BY <1>1, <1>3, <1>18, <3>1
      <4> QED
        BY <1>16, <1>18, <4>1, Grown
    <3>3. SawItsOwn(r)'
      BY <1>18 DEF SawItsOwn
    <3>4. \A e \in ToSet(out'[r]) : IsExact(r, e)
      BY <1>4, <1>15, <1>16, <1>18
    <3>5. DOMAIN local'[r] = {"codex", "gemini"} /\ Remembers(local'[r].codex, local'[r].gemini)
          /\ (Policy # "off" => Knows(r, pos'[r], local'[r]))
      BY <1>8, <1>13, <1>14, <1>18
    <3> QED
      BY <2>2, <3>2, <3>3, <3>4, <3>5 DEF KnowsItsOwn, ToSet
  <2> QED
    BY <2>1, <2>2
<1> QED
  BY <1>12, <1>17, <1>19 DEF KnowledgeInv

\* A traces request carries no log record: there is nothing to know of it.
LEMMA NothingToKnow ==
    ASSUME NEW r \in Requests, LogsOf(r) = {}, NEW i, NEW mine
    PROVE  Knows(r, i, mine)
<1>1. \A d, s : Before(r, i, d, s) = {}
  BY DEF Before
<1>2. \A d, s : Prompts(r, i, d, s) = {} /\ SentBefore(r, i, s) = {} /\ Refusals(r, i, s) = {}
  BY <1>1 DEF Prompts, SentBefore, Refusals
<1> QED
  BY <1>2 DEF Knows, KnowsTurn, KnowsRequest, KnowsRefusals

LEMMA ReceiveKeepsKnowledge ==
    ASSUME KnowledgeInv, NEW r \in Requests, Receive(r)
    PROVE  KnowledgeInv'
<1> DEFINE n == Len(Items[r])
           new == FoldLeftDomain(LAMBDA got, i : got \o Received(r, i), <<>>, Items[r])
<1>1. pc[r] = "mapping" /\ pos[r] \in DOMAIN Items[r] /\ Items[r][pos[r]].signal = "span"
  BY PosIsItem DEF Receive, Mapping, KnowledgeInv
<1>2. \A i \in DOMAIN Items[r] : Items[r][i].signal = "span"
  BY <1>1, ItemsAssumption
<1>3. LogsOf(r) = {}
  BY <1>2 DEF LogsOf
<1>4. new \in Seq(UNION {ToSet(Received(r, i)) : i \in DOMAIN Items[r]})
  BY <1>2, ReceivedAre
<1>5. out' = [out EXCEPT ![r] = new]
  BY DEF Receive
<1> HIDE DEF new
<1>6. new \in Seq(ToSet(new))
  BY <1>4 DEF ToSet
<1>7. /\ DOMAIN pos' = Requests /\ DOMAIN out' = Requests /\ pos'[r] = n + 1 /\ out'[r] = new
      /\ pc' = pc /\ prices' = prices /\ first' = first /\ local' = local /\ recall' = recall
      /\ \A s \in Requests \ {r} : pos'[s] = pos[s] /\ out'[s] = out[s]
  BY <1>5 DEF Receive, requestVars, KnowledgeInv, Shape
<1>8. ASSUME NEW s \in Requests PROVE Placed(s)' /\ KnowsItsOwn(s)'
  <2>1. CASE s # r
    BY <1>7, <2>1, LeftAlone, KnowsLeftAlone DEF KnowledgeInv
  <2>2. CASE s = r
    <3>1. n \in Nat
      BY ItemsAssumption
    <3>2. pos'[r] \in Nat \ {0} /\ pc'[r] = "mapping"
      BY <1>1, <1>7, <3>1
    <3>3. Placed(r)'
      BY <1>6, <1>7, <3>2, Grown
    <3>4. first[r] = None
      BY <1>3 DEF KnowledgeInv, KnowsItsOwn, SawItsOwn
    <3>5. SawItsOwn(r)'
      BY <1>7, <3>4 DEF SawItsOwn
    <3>6. \A e \in ToSet(out'[r]) : IsExact(r, e)
      BY <1>3 DEF IsExact
    <3>7. Knows(r, pos'[r], local'[r])
      BY <1>3, NothingToKnow
    <3>8. DOMAIN local'[r] = {"codex", "gemini"} /\ Remembers(local'[r].codex, local'[r].gemini)
      BY <1>7 DEF KnowledgeInv, KnowsItsOwn
    <3> QED
      BY <2>2, <3>3, <3>5, <3>6, <3>7, <3>8 DEF KnowsItsOwn, ToSet
  <2> QED
    BY <2>1, <2>2
<1>9. NodeRemembers'
  BY <1>7 DEF KnowledgeInv, NodeRemembers
<1> QED
  BY <1>7, <1>8, <1>9 DEF KnowledgeInv, Shape

\* A step that leaves both layers, the entries and the place of every request.
LEMMA OthersKeepKnowledge ==
    ASSUME KnowledgeInv, Shape', pc' = pc, pos' = pos, out' = out, local' = local, first' = first, recall' = recall
    PROVE  KnowledgeInv'
<1>1. NodeRemembers'
  BY DEF KnowledgeInv, NodeRemembers
<1> QED
  BY <1>1, LeftAlone, KnowsLeftAlone DEF KnowledgeInv

LEMMA BeginKeepsKnowledge ==
    ASSUME KnowledgeInv, NEW r \in Requests, Begin(r)
    PROVE  KnowledgeInv'
<1>1. /\ pc[r] = "new" /\ pc' = [pc EXCEPT ![r] = "mapping"] /\ prices' = [prices EXCEPT ![r] = table']
      /\ pos' = pos /\ out' = out /\ first' = first /\ local' = local /\ recall' = recall
  BY DEF Begin
<1>2. Shape'
  BY <1>1 DEF KnowledgeInv, Shape
<1>3. NodeRemembers'
  BY <1>1 DEF KnowledgeInv, NodeRemembers
<1>4. ASSUME NEW s \in Requests PROVE Placed(s)' /\ KnowsItsOwn(s)'
  <2>1. KnowsItsOwn(s)'
    BY <1>1, KnowsLeftAlone DEF KnowledgeInv
  <2>2. CASE s # r
    <3>1. pc'[s] = pc[s]
      BY <1>1, <2>2 DEF KnowledgeInv, Shape
    <3> QED
      BY <1>1, <2>1, <3>1, LeftAlone DEF KnowledgeInv
  <2>3. CASE s = r
    <3>1. out[r] = <<>> /\ pos[r] \in Nat \ {0}
      BY <1>1 DEF KnowledgeInv, Placed
    <3> QED
      BY <1>1, <2>1, <2>3, <3>1, Emptied
  <2> QED
    BY <2>2, <2>3
<1> QED
  BY <1>2, <1>3, <1>4 DEF KnowledgeInv

LEMMA LookKeepsKnowledge ==
    ASSUME KnowledgeInv, NEW r \in Requests, Look(r)
    PROVE  KnowledgeInv'
<1> DEFINE rec == Rec(r, pos[r])
           now == Seen(r, rec)
<1>1. pos[r] \in DOMAIN Items[r] /\ Items[r][pos[r]].signal = "log"
  BY PosIsItem DEF Look, Mapping, KnowledgeInv
<1>2. pos[r] \in LogsOf(r)
  BY <1>1, LogItemIs
<1>3. first' = [first EXCEPT ![r] = now]
  BY DEF Look, Rec
<1>4. pc' = pc /\ pos' = pos /\ out' = out /\ local' = local /\ recall' = recall /\ prices' = prices
  BY DEF Look
<1>5. SeesItsOwn(rec, local[r], now, now)
  BY SeesOwnNow
<1> HIDE DEF now
<1>6. Shape'
  BY <1>3, <1>4 DEF KnowledgeInv, Shape
<1>7. NodeRemembers'
  BY <1>4 DEF KnowledgeInv, NodeRemembers
<1>8. first'[r] = now /\ \A s \in Requests \ {r} : first'[s] = first[s]
  BY <1>3 DEF KnowledgeInv, Shape
<1>9. ASSUME NEW s \in Requests PROVE Placed(s)' /\ KnowsItsOwn(s)'
  <2>1. Placed(s)'
    BY <1>4, LeftAlone DEF KnowledgeInv
  <2>2. CASE s # r
    BY <1>4, <1>8, <2>1, <2>2, KnowsLeftAlone DEF KnowledgeInv
  <2>3. CASE s = r
    <3>1. SawItsOwn(r)'
      BY <1>2, <1>4, <1>5, <1>8 DEF SawItsOwn, SeesItsOwn
    <3> QED
      BY <1>4, <2>1, <2>3, <3>1 DEF KnowledgeInv, KnowsItsOwn, ToSet
  <2> QED
    BY <2>2, <2>3
<1> QED
  BY <1>6, <1>7, <1>9 DEF KnowledgeInv

LEMMA NothingRemembered ==
    /\ DOMAIN NoRecall = {"codex", "gemini"}
    /\ Ordered(NoRecall.codex) /\ Ordered(NoRecall.gemini) /\ Remembers(NoRecall.codex.map, NoRecall.gemini.map)
<1>1. NoRecall.codex.map = <<>> /\ NoRecall.gemini.map = <<>> /\ DOMAIN <<>> = {}
      /\ NoRecall.codex.order = <<>> /\ NoRecall.gemini.order = <<>> /\ DOMAIN NoRecall = {"codex", "gemini"}
  BY DEF NoRecall
<1> QED
  BY <1>1 DEF Ordered, Remembers

LEMMA KnowledgeStep == KnowledgeInv /\ [Next]_vars => KnowledgeInv'
<1> SUFFICES ASSUME KnowledgeInv, [Next]_vars PROVE KnowledgeInv'
  OBVIOUS
<1>1. CASE Edit
  BY <1>1, OthersKeepKnowledge DEF Edit, requestVars, KnowledgeInv, Shape
<1>2. CASE Restart
  <2> DEFINE R == {r \in Requests : pc[r] = "mapping"}
  <2>1. Forget(R) /\ DOMAIN pc' = Requests /\ \A r \in Requests \ R : pc'[r] = pc[r]
    BY <1>2 DEF Restart, Abandon
  <2>2. recall' = NoRecall
    BY <1>2 DEF Restart
  <2>3. NodeRemembers'
    BY <2>2, NothingRemembered DEF NodeRemembers, Ordered, Remembers
  <2> QED
    BY <2>1, <2>3, ForgetKeepsKnowledge
<1>3. ASSUME NEW r \in Requests, Begin(r) PROVE KnowledgeInv'
  BY <1>3, BeginKeepsKnowledge
<1>4. ASSUME NEW r \in Requests, Look(r) PROVE KnowledgeInv'
  BY <1>4, LookKeepsKnowledge
<1>5. ASSUME NEW r \in Requests, Map(r) PROVE KnowledgeInv'
  BY <1>5, MapKeepsKnowledge
<1>6. ASSUME NEW r \in Requests, Receive(r) PROVE KnowledgeInv'
  BY <1>6, ReceiveKeepsKnowledge
<1>7. ASSUME NEW r \in Requests, Accept(r) PROVE KnowledgeInv'
  <2>1. Forget({r}) /\ pc' = [pc EXCEPT ![r] = "stored"] /\ recall' = recall
    BY <1>7 DEF Accept
  <2>2. DOMAIN pc' = Requests /\ \A s \in Requests \ {r} : pc'[s] = pc[s]
    BY <2>1 DEF KnowledgeInv, Shape
  <2>3. NodeRemembers'
    BY <2>1 DEF KnowledgeInv, NodeRemembers
  <2> QED
    BY <2>1, <2>2, <2>3, ForgetKeepsKnowledge
<1>8. ASSUME NEW r \in Requests, Refuse(r) PROVE KnowledgeInv'
  <2>1. Abandon({r}) /\ recall' = recall
    BY <1>8 DEF Refuse
  <2>2. Forget({r}) /\ DOMAIN pc' = Requests /\ \A s \in Requests \ {r} : pc'[s] = pc[s]
    BY <2>1 DEF Abandon
  <2>3. NodeRemembers'
    BY <2>1 DEF KnowledgeInv, NodeRemembers
  <2> QED
    BY <2>2, <2>3, ForgetKeepsKnowledge
<1>9. CASE UNCHANGED vars
  BY <1>9, OthersKeepKnowledge DEF vars, requestVars, KnowledgeInv, Shape
<1> QED
  BY <1>1, <1>2, <1>3, <1>4, <1>5, <1>6, <1>7, <1>8, <1>9 DEF Next

LEMMA KnowledgeInit == Init => KnowledgeInv
<1> SUFFICES ASSUME Init PROVE KnowledgeInv
  OBVIOUS
<1>1. <<>> \in Seq({}) /\ ToSet(<<>>) = {}
  BY DEF ToSet
<1>2. recall = NoRecall /\ \A r \in Requests :
          pos[r] = 1 /\ out[r] = <<>> /\ local[r] = NoLocal /\ first[r] = None /\ pc[r] = "new"
  BY DEF Init
<1>3. Shape
  BY DEF Init, Shape
<1>4. NodeRemembers
  BY <1>2, NothingRemembered DEF NodeRemembers
<1>5. ASSUME NEW r \in Requests PROVE Placed(r) /\ KnowsItsOwn(r)
  <2>1. Placed(r)
    <3>1. pos[r] = 1 /\ out[r] = <<>> /\ ToSet(out[r]) = {}
      BY <1>1, <1>2
    <3>2. out[r] \in Seq(ToSet(out[r]))
      BY <1>1, <3>1
    <3> QED
      BY <3>1, <3>2 DEF Placed
  <2>2. SawItsOwn(r)
    BY <1>2 DEF SawItsOwn
  <2> QED
    BY <1>1, <1>2, <2>1, <2>2, KnowsFromTheStart DEF KnowsItsOwn
<1> QED
  BY <1>3, <1>4, <1>5 DEF KnowledgeInv

LEMMA KnowledgeInvariant == Spec => []KnowledgeInv
BY KnowledgeInit, KnowledgeStep, PTL DEF Spec

\* What a request's own records say of their sessions decides where its spans
\* sit, when a stream starts and whether a refused call failed (logs.rs,
\* Recall: the layer of the request is asked first), whatever the other
\* requests, restarts and refusals of the store do to the layer of the node
\* between the two looks of a mapping.
THEOREM RequestHolds == Spec => []RequestIsExact
<1>1. KnowledgeInv => RequestIsExact
  <2> SUFFICES ASSUME KnowledgeInv, NEW r \in Requests, NEW e \in LogSpans(r)
               PROVE  LET dialect == DialectOf(Rec(r, e.item))
                      IN  /\ dialect \in {"codex", "gemini"} => PlacedByPrompt(r, e, dialect)
                          /\ dialect = "codex" => StartedByRequest(r, e) /\ RefusedByDecision(r, e)
    BY DEF RequestIsExact
  <2>1. e \in ToSet(out[r]) /\ e.span # None /\ e.item \in LogsOf(r)
    BY DEF LogSpans, Sent
  <2>2. IsExact(r, e)
    BY <2>1 DEF KnowledgeInv, KnowsItsOwn
  <2> QED
    BY <2>1, <2>2 DEF IsExact
<1> QED
  BY <1>1, KnowledgeInvariant, PTL
=============================================================================
