------------------------------- MODULE Evals -------------------------------
(***************************************************************************)
(* The evaluation loop of evald over one data directory: `evald eval run`  *)
(* as a process that scores a dataset, asks the judges it has no cached    *)
(* answer of, and persists its scores in one transaction at the end        *)
(* (src/src/eval.rs, judge.rs); a server that holds the store's lock and   *)
(* takes human labels meanwhile; and the commands that read back what is   *)
(* stored: compare, calibrate, suite, estimate and the reports.            *)
(*                                                                         *)
(* Every run is one invocation with its own id; a retry is another run of  *)
(* the same config. The provider, the disk and the moment a process is     *)
(* killed are the environment.                                             *)
(***************************************************************************)
EXTENDS Scoring

CONSTANTS
    Runs,        \* invocations of `evald eval run`
    ConfigOf,    \* run -> the config it was given, its dataset resolved and read
    Replies,     \* what the provider may answer: an Int, or None for no score
    HashOf(_),   \* the primary hash of a canonical question
    Labels,      \* human scores the server may be sent
    Earlier,     \* scores stored before the first run
    MaxFaults,   \* bound: kills, failed calls and writes
    MaxRuns      \* bound: runs begun

ASSUME EvalsAssumption == MaxFaults \in Nat /\ MaxRuns \in Nat
ASSUME ConfigAssumption ==
    /\ None \notin Runs
    /\ \A r \in Runs : /\ ConfigOf[r].evaluators \in Seq(ToSet(ConfigOf[r].evaluators))
                       /\ ConfigOf[r].judges \in Seq(ToSet(ConfigOf[r].judges))
                       /\ ConfigOf[r].items \in Seq(ToSet(ConfigOf[r].items))

\* Items are numbered apart, and a score that is not a run's does not take an
\* id of one.
ASSUME IdAssumption ==
    /\ \A r \in Runs : \A i, j \in DOMAIN ConfigOf[r].items : ToString(i) = ToString(j) => i = j
    /\ Earlier \in Seq(ToSet(Earlier))
    /\ \A s \in ToSet(Earlier) \cup Labels : s.id[1] \notin Runs
    /\ \A s \in Labels : "id" \in DOMAIN s

VARIABLES
    pc,          \* run -> "idle", "opening", "judging", "storing", "done", "failed", "dead"
    judge, item, \* run -> the judge and the item it is at
    got,         \* run -> that judge's outcomes so far
    results,     \* run -> the finished evaluators' rows and scores
    started,     \* run -> its timestamp
    exit,        \* run -> "none", "pass", "fail", "error"
    junit,       \* run -> the report it wrote, None when it wrote none
    cache,       \* judge_cache.redb: hash -> value and verify hash
    cacheOwner,  \* the run that holds its lock, or None
    db,          \* the score tables
    serving,     \* `evald serve` holds the store's lock
    clock, faults,
    asked, answers, lost, \* history: of each question, calls, scores given, answers not kept
    promised     \* history: run -> calls `--estimate` promised before it and not made

evalVars == <<pc, judge, item, got, results, started, exit, junit>>
worldVars == <<cache, cacheOwner, db, serving, clock, faults>>
history == <<asked, answers, lost, promised>>
vars == <<evalVars, worldVars, history>>

Config(r) == ConfigOf[r]
Judge(r) == Config(r).judges[judge[r]]
Item(r) == Config(r).items[item[r]]

\* What a judge is asked, by everything its prompt shows.
Question(spec, it) ==
    [provider |-> spec.provider, rail |-> spec.rail, model |-> spec.model, criteria |-> Given(spec.criteria),
     input |-> Given(it.input), output |-> it.output, expected |-> Given(it.expected),
     context |-> Given(it.context)]
\* A run's work: each of its judges at each of its items, <<judge, item>>.
Work(config) == (DOMAIN config.judges) \X (DOMAIN config.items)
QuestionsOf(config) == {Question(config.judges[at[1]], config.items[at[2]]) : at \in Work(config)}
Questions == UNION {QuestionsOf(ConfigOf[r]) : r \in Runs}

\* Nothing named agg numbers its items beside the names of the aggregates.
AggIsFree ==
    \A r \in Runs : "agg" \in ToSet(NamesOf(Config(r))) =>
        \A i \in DOMAIN Config(r).items : ToString(i) \notin ToSet(NamesOf(Config(r)))

Init ==
    /\ pc = [r \in Runs |-> "idle"]
    /\ judge = [r \in Runs |-> 0] /\ item = [r \in Runs |-> 0]
    /\ got = [r \in Runs |-> <<>>] /\ results = [r \in Runs |-> <<>>]
    /\ started = [r \in Runs |-> 0]
    /\ exit = [r \in Runs |-> "none"] /\ junit = [r \in Runs |-> None]
    /\ cache = <<>> /\ cacheOwner = None
    /\ db = PutBatch(EmptyDb, Earlier) /\ serving = FALSE
    /\ clock = 0 /\ faults = 0
    /\ asked = [q \in Questions |-> 0] /\ lost = [q \in Questions |-> 0]
    /\ answers = [q \in Questions |-> {}]
    /\ promised = [r \in Runs |-> 0]

----------------------------------------------------------------------------
(***************************************************************************)
(* The judge cache: an entry counts only for the question whose second     *)
(* hash it carries; the canonical question itself stands for that hash.    *)
(***************************************************************************)

\* The faulty variant trusts the key.
CachedUnverified(c, canon) ==
    IF HashOf(canon) \in DOMAIN c THEN c[HashOf(canon)].value ELSE None
Cached(c, canon) ==
    IF HashOf(canon) \in DOMAIN c /\ c[HashOf(canon)].verify = canon
    THEN c[HashOf(canon)].value ELSE None

\* The faulty variant leaves an entry with the same hash where it is.
CachePutIfAbsent(canon, value) == cache @@ (HashOf(canon) :> [value |-> value, verify |-> canon])
CachePut(canon, value) ==
    [h \in DOMAIN cache \cup {HashOf(canon)} |->
        IF h = HashOf(canon) THEN [value |-> value, verify |-> canon] ELSE cache[h]]

\* estimate_judges: the calls a run of the config would make now.
Estimate(config) ==
    Cardinality({at \in Work(config) :
                    /\ Applicable(config.judges[at[1]], config.items[at[2]])
                    /\ Cached(cache, Canon(config.judges[at[1]], config.items[at[2]])) = None})

----------------------------------------------------------------------------
(***************************************************************************)
(* One `evald eval run`.                                                   *)
(***************************************************************************)

Fault == faults < MaxFaults /\ faults' = faults + 1

\* The command fails: its report, which is best effort, has one error.
Fails(r) ==
    /\ pc' = [pc EXCEPT ![r] = "failed"]
    /\ exit' = [exit EXCEPT ![r] = "error"]
    /\ junit' = [junit EXCEPT ![r] = ErrorReport]

\* run_report up to the judges: load, refuse, score with the evaluators.
Loads(config) ==
    /\ config.items # <<>>
    /\ Distinct(NamesOf(config))
    /\ \A k \in DOMAIN config.evaluators : Compiles(config.evaluators[k])
Begin(r) ==
    /\ pc[r] = "idle" /\ Cardinality({s \in Runs : pc[s] # "idle"}) < MaxRuns
    /\ clock' = clock + 1
    /\ started' = [started EXCEPT ![r] = clock + 1]
    /\ IF Loads(Config(r))
       THEN /\ results' = [results EXCEPT ![r] = Tier1(Config(r), Config(r).items, r, clock + 1)]
            /\ pc' = [pc EXCEPT ![r] = IF Config(r).judges = <<>> THEN "storing" ELSE "opening"]
            /\ UNCHANGED <<exit, junit, faults>>
       ELSE Fails(r) /\ UNCHANGED <<results, faults>>
    /\ UNCHANGED <<judge, item, got, cache, cacheOwner, db, serving, history>>

\* JudgeCache::open takes the file's lock, or the command fails.
OpenCache(r) ==
    /\ pc[r] = "opening"
    /\ IF cacheOwner = None
       THEN /\ cacheOwner' = r
            /\ pc' = [pc EXCEPT ![r] = "judging"]
            /\ judge' = [judge EXCEPT ![r] = 1] /\ item' = [item EXCEPT ![r] = 1]
            /\ promised' = [promised EXCEPT ![r] = Estimate(Config(r))]
            /\ UNCHANGED <<exit, junit>>
       ELSE Fails(r) /\ UNCHANGED <<cacheOwner, judge, item, promised>>
    /\ UNCHANGED <<got, results, started, cache, db, serving, clock, faults, asked, answers, lost>>

\* The outcome of the item at hand; after the last item the judge's aggregate,
\* after the last judge the store.
Outcome(r, outcome) ==
    LET all == Append(got[r], outcome)
        config == Config(r)
        name == JudgeName(Judge(r))
    IN  IF item[r] < Len(config.items)
        THEN /\ item' = [item EXCEPT ![r] = @ + 1] /\ got' = [got EXCEPT ![r] = all]
             /\ UNCHANGED <<judge, results, pc, cacheOwner>>
        ELSE /\ got' = [got EXCEPT ![r] = <<>>] /\ item' = [item EXCEPT ![r] = 1]
             /\ results' = [results EXCEPT ![r] =
                    Append(@, Finalize(name, all, config.items, r, ThresholdFor(config.thresholds, name),
                                       started[r]))]
             /\ IF judge[r] = Len(config.judges)
                THEN pc' = [pc EXCEPT ![r] = "storing"] /\ cacheOwner' = None /\ UNCHANGED judge
                ELSE judge' = [judge EXCEPT ![r] = @ + 1] /\ UNCHANGED <<pc, cacheOwner>>

AtItem(r) == pc[r] = "judging" /\ JudgeValid(Judge(r))

\* A judge is validated when its turn comes, after the calls of those before.
Refuse(r) ==
    /\ pc[r] = "judging" /\ ~JudgeValid(Judge(r))
    /\ Fails(r)
    /\ cacheOwner' = None
    /\ UNCHANGED <<judge, item, got, results, started, cache, db, serving, clock, faults, history>>

\* score_items: an item without what the rail needs is skipped, and one whose
\* question is cached is not asked.
Spare(r) ==
    /\ AtItem(r)
    /\ \/ ~Applicable(Judge(r), Item(r)) /\ Outcome(r, None)
       \/ /\ Applicable(Judge(r), Item(r))
          /\ Cached(cache, Canon(Judge(r), Item(r))) # None
          /\ Outcome(r, JudgeOutcome(Judge(r), Cached(cache, Canon(Judge(r), Item(r)))))
    /\ UNCHANGED <<started, exit, junit, cache, db, serving, clock, faults, history>>

MustAsk(r) ==
    /\ AtItem(r)
    /\ Applicable(Judge(r), Item(r))
    /\ Cached(cache, Canon(Judge(r), Item(r))) = None

\* The provider answers. A score is cached, best effort; it takes the place of
\* an entry with the same hash.
Answered(r) ==
    /\ MustAsk(r)
    /\ \E reply \in Replies, kept \in BOOLEAN :
        LET q == Question(Judge(r), Item(r))
            canon == Canon(Judge(r), Item(r))
            value == ParseReply(reply)
            stored == kept /\ value # None
            Evicts(p) == /\ p # q /\ stored /\ HashOf(canon) \in DOMAIN cache
                         /\ cache[HashOf(canon)].verify = Canon(p, p)
        IN  /\ kept \/ value # None
            /\ IF kept THEN UNCHANGED faults ELSE Fault
            /\ Outcome(r, JudgeOutcome(Judge(r), value))
            /\ cache' = IF stored THEN CachePut(canon, value) ELSE cache
            /\ asked' = [asked EXCEPT ![q] = @ + 1]
            /\ promised' = [promised EXCEPT ![r] = @ - 1]
            /\ answers' = [answers EXCEPT ![q] = @ \cup {value}]
            /\ lost' = [p \in Questions |->
                            lost[p] + IF (p = q /\ ~stored) \/ Evicts(p) THEN 1 ELSE 0]
    /\ UNCHANGED <<started, exit, junit, db, serving, clock>>

\* The call fails, and with it the run: no partial gate.
CallFails(r) ==
    /\ MustAsk(r) /\ Fault
    /\ Fails(r)
    /\ cacheOwner' = None
    /\ UNCHANGED <<judge, item, got, results, started, cache, db, serving, clock, history>>

\* Store::open and put_scores, one transaction; then the exit code, which a
\* report that cannot be written turns into an error.
Rows(r) == [k \in DOMAIN results[r] |-> results[r][k].row]
AllScores(r) == FoldLeft(LAMBDA a, b : a \o b, <<>>, [k \in DOMAIN results[r] |-> results[r][k].scores])
Persist(r) ==
    /\ pc[r] = "storing" /\ ~serving
    /\ db' = PutBatch(db, AllScores(r))
    /\ pc' = [pc EXCEPT ![r] = "done"]
    /\ \/ /\ exit' = [exit EXCEPT ![r] = IF GatePassed(Rows(r)) THEN "pass" ELSE "fail"]
          /\ junit' = [junit EXCEPT ![r] = RunReport(Rows(r))]
          /\ UNCHANGED faults
       \/ Fault /\ exit' = [exit EXCEPT ![r] = "error"] /\ UNCHANGED junit
    /\ UNCHANGED <<judge, item, got, results, started, cache, cacheOwner, serving, clock, history>>

\* The lock is held by the server, or the transaction fails.
PersistFails(r) ==
    /\ pc[r] = "storing"
    /\ IF serving THEN UNCHANGED faults ELSE Fault
    /\ Fails(r)
    /\ UNCHANGED <<judge, item, got, results, started, cache, cacheOwner, db, serving, clock, history>>

\* The process is killed; its locks go with it.
Kill(r) ==
    /\ pc[r] \in {"opening", "judging", "storing"} /\ Fault
    /\ pc' = [pc EXCEPT ![r] = "dead"]
    /\ cacheOwner' = IF cacheOwner = r THEN None ELSE cacheOwner
    /\ UNCHANGED <<judge, item, got, results, started, exit, junit, cache, db, serving, clock, history>>

----------------------------------------------------------------------------
(***************************************************************************)
(* The server: up or down, and a human label it is sent.                   *)
(***************************************************************************)

Serve ==
    /\ serving' = ~serving
    /\ UNCHANGED <<evalVars, cache, cacheOwner, db, clock, faults, history>>

PostLabel ==
    /\ serving
    /\ \E label \in Labels :
        /\ label.id \notin DOMAIN db.rows
        /\ db' = PutBatch(db, <<[label EXCEPT !.ts = clock + 1]>>)
    /\ clock' = clock + 1
    /\ UNCHANGED <<evalVars, cache, cacheOwner, serving, faults, history>>

Next ==
    \/ \E r \in Runs :
           \/ Begin(r) \/ OpenCache(r) \/ Refuse(r) \/ Spare(r) \/ Answered(r) \/ CallFails(r)
           \/ Persist(r) \/ PersistFails(r) \/ Kill(r)
    \/ Serve
    \/ PostLabel

Spec == Init /\ [][Next]_vars

----------------------------------------------------------------------------
(***************************************************************************)
(* What is stored of a run.                                                *)
(***************************************************************************)

ScoresOf(r) == {db.rows[id] : id \in {i \in DOMAIN db.rows : i[1] = r}}
IsAggregate(s) == s.stats # None
Aggregates(r) == {s \in ScoresOf(r) : IsAggregate(s)}
Ended == {r \in Runs : pc[r] = "done"}

----------------------------------------------------------------------------

\* "re-running an unchanged eval costs zero tokens" (judge.rs, module docs): a
\* question is asked again only for an answer that was not kept; and a run
\* makes no more calls than --estimate counted, unless two of its own questions
\* share a hash.
NotPaidTwice ==
    /\ \A q \in Questions : asked[q] <= 1 + lost[q]
    /\ \A r \in Runs : promised[r] < 0 =>
           \E p, q \in QuestionsOf(Config(r)) : p # q /\ HashOf(Canon(p, p)) = HashOf(Canon(q, q))

\* A judge's stored score of an item is what the provider said of exactly that
\* question, in this run or an earlier one, or a failed 0 for a reply without a
\* score (judge.rs: "a key collision ... never served").
JudgedByOwnAnswer ==
    \A r \in Ended : \A j \in DOMAIN Config(r).judges : \A i \in DOMAIN Config(r).items :
        LET spec == Config(r).judges[j]
            id == ItemId(r, JudgeName(spec), i)
        IN  id \in DOMAIN db.rows =>
                \E v \in answers[Question(spec, Config(r).items[i])] : db.rows[id].value = OrElse(v, 0)

\* What `evald eval suite` says of a suite of this one case, run twice.
SuiteVerdict(config) ==
    LET suite == [cases |-> <<config>>, repeat |-> 2, minPass |-> Scale, minPassRate |-> Scale]
        cases == SuiteCases(suite)
        passed == SuitePassed(cases, suite.minPassRate)
    IN  IF ~SuiteValid(suite) THEN "error" ELSE Last(SuiteReport(cases, passed))

\* All of a run is stored or nothing: one that errored before its transaction,
\* or was killed, leaves no score; one that ended has all of its own, an
\* aggregate of each evaluator and judge among them (eval.rs, run_report).
AllOrNothing ==
    \A r \in Runs :
        LET stored == {id \in DOMAIN db.rows : id[1] = r}
        IN  IF r \notin Ended THEN stored = {}
            ELSE /\ stored = {s.id : s \in ToSet(AllScores(r))}
                 /\ {AggregateId(r, name) : name \in ToSet(NamesOf(Config(r)))} \subseteq stored

\* The exit code CI acts on is the verdict of the aggregates that are stored
\* under the run and of the report it wrote: the run passed exactly when each
\* of them meets its threshold, failed when the report has a failure.
GateIsStored ==
    \A r \in Ended : exit[r] # "error" =>
        /\ exit[r] = "pass" <=>
               \A name \in ToSet(NamesOf(Config(r))) :
                   Met(db.rows[AggregateId(r, name)].stats, ThresholdFor(Config(r).thresholds, name))
        /\ exit[r] = "fail" <=> "fail" \in ToSet(junit[r])
        /\ "error" \notin ToSet(junit[r])

\* And what is stored of a run is one aggregate of each evaluator and judge,
\* equal to what its item scores add up to; and a suite of the same config
\* gives the verdict of the run.
RunIsWhole ==
    /\ AllOrNothing
    /\ GateIsStored
    /\ \A r \in Ended :
           /\ {s.name : s \in Aggregates(r)} = ToSet(NamesOf(Config(r)))
           /\ Cardinality(Aggregates(r)) = Len(NamesOf(Config(r)))
           /\ \A s \in Aggregates(r) :
                  LET each == {t \in ScoresOf(r) \ Aggregates(r) : t.name = s.name}
                  IN  (\A i \in DOMAIN Config(r).items : Attached(Config(r).items[i])) =>
                          /\ s.stats.n = Cardinality(each)
                          /\ s.stats.sum = MapThenSumSet(LAMBDA t : t.value, each)
           /\ exit[r] # "error" /\ Config(r).judges = <<>> => SuiteVerdict(Config(r)) = exit[r]

\* The gate of a comparison: it fails no run against itself and never both
\* ways; --significance only forgives, and only a drop it could test; the
\* report has a failure exactly when the gate fails (eval.rs, junit.rs).
ComparisonIsHonest ==
    \E aggs \in {[r \in Ended |-> AggregatesOf(ToSet(ByTarget(db, <<"run", r>>)), r)]} :
    \A a, b \in Ended : \A tolerance \in 0 .. 1 :
        LET aggA == aggs[a]
            aggB == aggs[b]
            shared == DOMAIN aggA \cap DOMAIN aggB
        IN  /\ Compared(aggA, aggA, tolerance, FALSE) = "pass"
            /\ \A name \in shared :
                   /\ ~(Regressed(aggA[name], aggB[name], tolerance) /\ Regressed(aggB[name], aggA[name], tolerance))
                   /\ Gates(aggA[name], aggB[name], tolerance, TRUE) => Gates(aggA[name], aggB[name], tolerance, FALSE)
                   /\ Regressed(aggA[name], aggB[name], tolerance) /\ ~Gates(aggA[name], aggB[name], tolerance, TRUE)
                          => /\ aggA[name].n >= 2 /\ aggB[name].n >= 2
                             /\ \E r \in {a, b} : \E s, t \in ScoresOf(r) \ Aggregates(r) :
                                    s.name = name /\ t.name = name /\ s.value # t.value
            /\ \A significance \in BOOLEAN :
                   Compared(aggA, aggB, tolerance, significance) = "fail"
                       <=> "fail" \in ToSet(CompareReport(aggA, aggB, tolerance, significance))

\* A judge is calibrated on the newest score and the newest label of every span
\* or trace that has both (calibrate.rs, collect_pairs), whatever runs and labels
\* came in between; and the verdict is that of the mean absolute error alone,
\* which a systematic offset never exceeds.
CalibrationIsCurrent ==
    \A name \in UNION {{JudgeName(Config(r).judges[j]) : j \in DOMAIN Config(r).judges} : r \in Ended} :
        LET items == {s \in {db.rows[id] : id \in DOMAIN db.rows} : s.target[1] # "run"}
            Values(S) == {s.value : s \in {x \in S : \A y \in S : y.ts <= x.ts}}
            Judged(t) == Values({s \in items : s.target = t /\ s.source = "eval" /\ s.name = name})
            Labelled(t) == Values({s \in items : s.target = t /\ s.source = "human"})
            both == {t \in {s.target : s \in items} : Judged(t) # {} /\ Labelled(t) # {}}
        IN  \E pairs \in {Pairs(List(db, Cardinality(DOMAIN db.rows)), name, None)} :
                /\ Len(pairs) = Cardinality(both)
                /\ \A t \in both : \E p \in ToSet(pairs) : p.judge \in Judged(t) /\ p.human \in Labelled(t)
                /\ Len(pairs) >= 2 =>
                       \E error \in {Calibration(pairs, 0).error} : \A threshold \in 0 .. Scale :
                           Calibrated(pairs, threshold) <=> error <= threshold * Len(pairs)
=============================================================================
