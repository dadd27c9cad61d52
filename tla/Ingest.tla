------------------------------- MODULE Ingest -------------------------------
(***************************************************************************)
(* The ingest path of evald: the front doors (src/src/ingest.rs, grpc.rs,  *)
(* auth.rs), the batch core Store::ingest_batch (store/mod.rs) with the    *)
(* call ledger (calls.rs), the disk floor, redaction and the blob offload  *)
(* (blob.rs), and the scores that follow the spans (store/scores.rs), for  *)
(* any number of concurrent requests, clients that retry, clients that     *)
(* hang up, and a process that dies and restarts.                          *)
(*                                                                         *)
(* The log the spans go to is not the detailed Store but what Store is     *)
(* proved to implement: the module SpanLog, whose steps are the writer's   *)
(* answers here. A span is what its identity, its call and its payload     *)
(* are; a payload is a value with a size class and a hash.                 *)
(***************************************************************************)
EXTENDS Naturals, FiniteSets, ScoreStore

CONSTANTS
    Requests,   \* export requests, on either signal; each may be sent again
    Batch,      \* what a request carries: see BatchType
    Posts,      \* calls of /v1/scores and /v1/span_annotations
    Posted,     \* what a post carries: see PostType
    TraceOf,    \* the trace of each span id
    Tokens,     \* the bearer tokens configured; {} leaves the gate open
    Capacity,   \* calls::CAPACITY
    Redacted,   \* what the redactor makes of a payload
    Oversized,  \* payloads above --blob-offload-bytes
    Hash,       \* BlobStore::key_for
    MaxProbe,   \* bound: keys probed after a collision
    MaxTries,   \* bound: times the client of each request sends it
    MaxFaults,  \* bound: I/O errors, refusals and hang-ups explored
    MaxCrashes, \* bound: restarts explored
    Faults,     \* which of them the environment may produce
    None        \* no key, no anchor, no payload, no id

SpanIds == DOMAIN TraceOf
Payloads == DOMAIN Redacted
Traces == {TraceOf[s] : s \in SpanIds}
Keys == (UNION {{c.key, c.anchor} : c \in UNION {ToSet(Batch[r].spans) : r \in Requests}}) \ {None}
FaultKinds == {"shed", "sync", "blob", "scores", "read", "disk", "hangup", "power", "body"}

BlobKeys == {Hash[p] : p \in Payloads} \X (0 .. MaxProbe)
Bodies == Payloads \cup {None} \cup BlobKeys

\* One stored copy of a span: the i-th of the t-th sending of r.
Records ==
    {x \in [req : Requests, try : UNION {1 .. MaxTries[r] : r \in Requests},
            span : UNION {DOMAIN Batch[r].spans : r \in Requests}, body : Bodies] :
        x.span \in DOMAIN Batch[x.req].spans}

BatchType == [door : {"http", "grpc"}, token : Tokens \cup {None},
              spans : Seq([id : SpanIds, key : Keys \cup {None}, anchor : Keys \cup {None},
                           load : Payloads \cup {None}]),
              scores : Seq([id : STRING, target : {"span"} \X SpanIds, ts : Nat, source : {"eval"}])]
PostType == [route : {"scores", "annotations"}, strict : BOOLEAN, items : Seq([id : STRING, ts : Nat,
             valued : BOOLEAN, ids : [{"span", "trace", "session", "run"} -> SpanIds \cup Traces \cup {None}]])]

ASSUME IngestAssumption ==
    /\ Capacity \in Nat \ {0} /\ MaxTries \in [Requests -> Nat \ {0}]
    /\ {MaxProbe, MaxFaults, MaxCrashes} \subseteq Nat
    /\ Faults \subseteq FaultKinds
    /\ Oversized \subseteq Payloads
    /\ Redacted \in [Payloads -> Payloads] /\ Hash \in [Payloads -> {Hash[p] : p \in Payloads}]
    /\ \A p \in Payloads : Redacted[Redacted[p]] = Redacted[p]

\* What a request carries. A span that anchors a call is not a copy of one. The
\* scores are those of the trace doors: each is about a span of its request,
\* and one whose span may be dropped is about a model call, whose copies all
\* have one id (claude_code.rs).
ASSUME BatchAssumption ==
    /\ Batch \in [Requests -> BatchType]
    /\ \A r \in Requests :
        /\ \A s \in ToSet(Batch[r].spans) : s.anchor # None => s.key = None
        /\ \A c \in ToSet(Batch[r].scores) :
              \E s \in ToSet(Batch[r].spans) :
                  /\ c.target[2] = s.id
                  /\ s.key # None => \A q \in Requests : \A t \in ToSet(Batch[q].spans) :
                                        s.key \in {t.key, t.anchor} => t.id = s.id

\* An annotation names its span.
ASSUME PostAssumption ==
    /\ Posted \in [Posts -> PostType]
    /\ \A p \in Posts : Posted[p].route = "annotations" =>
          \A item \in ToSet(Posted[p].items) : item.ids["span"] # None

\* None is no value of what it is the absence of, and a payload is not a key.
ASSUME NoneAssumption ==
    /\ None \notin Payloads \cup BlobKeys /\ Payloads \cap BlobKeys = {}
    /\ \A K \in SUBSET Keys : K # None
    /\ None \notin {"200", "OK", "dangling"}

VARIABLES
    \* the log, as SpanLog has it
    up, visible, owed,
    \* the process
    channel,    \* batches on their way to an answer of the writer
    ledger,     \* CallLedger::order; its set is the same keys
    blocked,    \* disk_blocked, as the monitor last saw it
    pc, try, work, reply,   \* each request's handler
    ppc, read, answer,      \* each post's handler
    \* the data directory
    limbo,      \* records of refused or abandoned batches that may be durable
    blobs,      \* the blob files
    unsynced,   \* blob files whose directory entry is not known to be durable
    low,        \* free space is under --disk-min-free
    db,         \* scores.redb
    \* bookkeeping of the model
    window,     \* of each key, the keys remembered since it was, None when it is not in the ledger's reach
    known,      \* spans that were owed when the post began
    faults, crashes

logVars == <<up, visible, owed>>
handlerVars == <<pc, try, work, reply>>
postVars == <<ppc, read, answer, known>>
diskVars == <<blobs, unsynced>>
boundVars == <<faults, crashes>>
vars == <<logVars, channel, ledger, blocked, handlerVars, postVars, limbo, diskVars, low, db,
          window, boundVars>>

Log == INSTANCE SpanLog WITH Spans <- Records

SpanOf(x) == Batch[x.req].spans[x.span]
IdsIn(R) == {SpanOf(x).id : x \in R}
NoWindow == [k \in Keys |-> None]

\* A handler's locals: the spans that stay, the keys to remember for them, what
\* became of their payloads so far, and the blob key probed; reach is a ghost, the
\* keys that were within the ledger's reach at the filter.
NoWork == [kept |-> <<>>, keys |-> <<>>, bodies |-> <<>>, probe |-> 0, reach |-> {}]

Init ==
    /\ Log!Init
    /\ channel = {} /\ ledger = <<>> /\ blocked = FALSE
    /\ pc = [r \in Requests |-> "new"] /\ try = [r \in Requests |-> 1]
    /\ work = [r \in Requests |-> NoWork] /\ reply = [r \in Requests |-> None]
    /\ ppc = [p \in Posts |-> "new"] /\ read = [p \in Posts |-> <<>>]
    /\ answer = [p \in Posts |-> None] /\ known = [p \in Posts |-> {}]
    /\ limbo = {} /\ blobs = <<>> /\ unsynced = {} /\ low = FALSE /\ db = EmptyDb
    /\ window = NoWindow
    /\ faults = 0 /\ crashes = 0

At(r, l) == up /\ pc[r] = l
Goto(r, l) == pc' = [pc EXCEPT ![r] = l]

Fault(kind) == kind \in Faults /\ faults < MaxFaults /\ faults' = faults + 1

----------------------------------------------------------------------------
(***************************************************************************)
(* The front doors: who is let in, and what a refusal is called.           *)
(***************************************************************************)

\* Auth::check: an unarmed gate passes everything.
Authorized(token) == Tokens = {} \/ token \in Tokens

\* store_error_response for HTTP, refusal for gRPC. Every one of them tells
\* an exporter to send the same request again.
Refusal(door, err) ==
    IF door = "http"
    THEN CASE err = "backpressure" -> "429" [] err = "disk" -> "503 after 30" [] OTHER -> "503"
    ELSE IF err = "backpressure" THEN "RESOURCE_EXHAUSTED" ELSE "UNAVAILABLE"

Retryable == {"429", "503 after 30", "503", "RESOURCE_EXHAUSTED", "UNAVAILABLE"}

Ends(r, answered) ==
    /\ Goto(r, "replied")
    /\ work' = [work EXCEPT ![r] = NoWork]
    /\ reply' = [reply EXCEPT ![r] = answered]

Refuses(r, err) == Ends(r, Refusal(Batch[r].door, err))

\* The gate is the outermost layer, so nothing is decoded for a stranger.
Unauthorized(r) ==
    /\ At(r, "new") /\ ~Authorized(Batch[r].token)
    /\ Ends(r, IF Batch[r].door = "http" THEN "401" ELSE "UNAUTHENTICATED")
    /\ UNCHANGED <<logVars, channel, ledger, blocked, try, postVars, limbo, diskVars, low, db,
                   window, boundVars>>

\* A body that cannot be decoded (cut short on its way) is refused for good.
Malformed(r) ==
    /\ At(r, "new") /\ Authorized(Batch[r].token) /\ Fault("body")
    /\ Ends(r, IF Batch[r].door = "http" THEN "400" ELSE "INTERNAL")
    /\ UNCHANGED <<logVars, channel, ledger, blocked, try, postVars, limbo, diskVars, low, db,
                   window, crashes>>

----------------------------------------------------------------------------
(***************************************************************************)
(* Store::ingest_batch.                                                    *)
(***************************************************************************)

\* CallLedger::filter: which spans stay, and the keys to remember for them.
\* An anchor always stays; a key stays unless it was stored or came earlier
\* in the batch; a span with neither is no call.
CallOf(s) == IF s.anchor # None THEN s.anchor ELSE s.key
IsCopy(s) == s.anchor = None /\ s.key # None

Retain(acc, s, i, remembered) ==
    LET call == CallOf(s)
        seen == call \in ToSet(acc.keys)
    IN  IF IsCopy(s) /\ (call \in remembered \/ seen) THEN acc
        ELSE [kept |-> Append(acc.kept, i),
              keys |-> IF call = None \/ seen THEN acc.keys ELSE Append(acc.keys, call)]

Filter(spans, remembered) ==
    FoldLeft(LAMBDA acc, i : Retain(acc, spans[i], i, remembered),
             [kept |-> <<>>, keys |-> <<>>], [i \in DOMAIN spans |-> i])

\* reject_if_disk_full: an empty batch is not refused.
DiskFull(kept) == kept # <<>> /\ blocked

\* A request that is let in and decoded is filtered first, under the ledger's
\* lock, which it then releases; then the floor is looked at, before the
\* offload writes anything.
FilterCalls(r) ==
    /\ At(r, "new") /\ Authorized(Batch[r].token)
    /\ LET passed == Filter(Batch[r].spans, ToSet(ledger))
       IN  IF DiskFull(passed.kept) THEN Refuses(r, "disk")
           ELSE /\ work' = [work EXCEPT ![r].kept = passed.kept, ![r].keys = passed.keys,
                                        ![r].reach = {k \in Keys : window[k] # None}]
                /\ Goto(r, "prepare") /\ UNCHANGED reply
    /\ UNCHANGED <<logVars, channel, ledger, blocked, try, postVars, limbo, diskVars, low, db, window,
                   boundVars>>

\* prepare_for_storage: redact, then offload, one field after another.
Field(r) == Batch[r].spans[work[r].kept[Len(work[r].bodies) + 1]].load
OffloadsRaw(r) == Field(r)   \* faulty variant
Prepared(r) == IF Field(r) = None THEN None ELSE Redacted[Field(r)]

MoreToPrepare(r) == Len(work[r].bodies) < Len(work[r].kept)
Leaves(r, body) ==
    /\ work' = [work EXCEPT ![r].bodies = Append(@, body), ![r].probe = 0]
    /\ Goto(r, "prepare")

prepareRest == <<logVars, channel, ledger, blocked, try, reply, postVars, limbo, low, db, window,
                 crashes>>

\* A field within the cap stays where it is.
StaysInline(r) ==
    /\ At(r, "prepare") /\ MoreToPrepare(r)
    /\ Prepared(r) \notin Oversized
    /\ Leaves(r, Prepared(r))
    /\ UNCHANGED <<prepareRest, diskVars, faults>>

BlobKey(r) == <<Hash[Prepared(r)], work[r].probe>>

\* BlobStore::put looks at the file its key names.
Puts(r) == At(r, "prepare") /\ MoreToPrepare(r) /\ Prepared(r) \in Oversized

\* The faulty variant takes any file under the key for its own.
TrustsKey(r) == BlobKey(r) \in DOMAIN blobs
AlreadyStored(r) == BlobKey(r) \in DOMAIN blobs /\ blobs[BlobKey(r)] = Prepared(r)

DedupHit(r) ==
    /\ Puts(r) /\ AlreadyStored(r)
    /\ Leaves(r, BlobKey(r))
    /\ UNCHANGED <<prepareRest, diskVars, faults>>

Collision(r) ==
    /\ Puts(r) /\ BlobKey(r) \in DOMAIN blobs /\ ~AlreadyStored(r)
    /\ work[r].probe < MaxProbe
    /\ work' = [work EXCEPT ![r].probe = @ + 1]
    /\ UNCHANGED <<prepareRest, diskVars, pc, faults>>

NotFound(r) ==
    /\ Puts(r) /\ BlobKey(r) \notin DOMAIN blobs
    /\ Goto(r, "write")
    /\ UNCHANGED <<prepareRest, diskVars, work, faults>>

\* write_atomic: the file appears whole, by a rename, then its directory
\* entry is made durable.
RenameBlob(r) ==
    /\ At(r, "write")
    /\ blobs' = Bind(blobs, BlobKey(r), Prepared(r))
    /\ unsynced' = unsynced \cup {BlobKey(r)}
    /\ Goto(r, "sync")
    /\ UNCHANGED <<prepareRest, work, faults>>

SyncBlobDir(r) ==
    /\ At(r, "sync")
    /\ unsynced' = {}
    /\ Leaves(r, BlobKey(r))
    /\ UNCHANGED <<prepareRest, blobs, faults>>

\* A put that fails, before its rename or after it, leaves the field inline.
PutFails(r) ==
    /\ pc[r] \in {"write", "sync"} /\ up
    /\ Fault("blob")
    /\ Leaves(r, Prepared(r))
    /\ UNCHANGED <<prepareRest, diskVars>>

\* Store::append. No span, no work; else the floor once more, and the
\* channel, which may be full.
Sent(r) ==
    LET w == work[r]
    IN  {[req |-> r, try |-> try[r], span |-> w.kept[i], body |-> w.bodies[i]] : i \in DOMAIN w.bodies}

appendRest == <<logVars, ledger, blocked, try, postVars, limbo, diskVars, low, db, window, crashes>>

AppendBatch(r) ==
    /\ At(r, "prepare") /\ ~MoreToPrepare(r)
    /\ IF work[r].kept = <<>> THEN Goto(r, "remember") /\ UNCHANGED <<channel, work, reply>>
       ELSE IF DiskFull(work[r].kept) THEN Refuses(r, "disk") /\ UNCHANGED channel
       ELSE /\ channel' = channel \cup {Sent(r)}
            /\ Goto(r, "queued") /\ UNCHANGED <<work, reply>>
    /\ UNCHANGED <<appendRest, faults>>

ChannelFull(r) ==
    /\ At(r, "prepare") /\ ~MoreToPrepare(r) /\ work[r].kept # <<>> /\ ~DiskFull(work[r].kept)
    /\ Fault("shed")
    /\ Refuses(r, "backpressure")
    /\ UNCHANGED <<appendRest, channel>>

\* The handler waits for its ack, unless the client hung up and it is gone.
Awaits(r, b) == pc[r] = "queued" /\ b = Sent(r)

writerRest == <<ledger, blocked, try, postVars, diskVars, low, db, window, crashes>>

\* The writer's group is synced and published.
Accept(b) ==
    /\ b \in channel /\ Log!Accept(b)
    /\ channel' = channel \ {b}
    /\ pc' = [r \in Requests |-> IF Awaits(r, b) THEN "remember" ELSE pc[r]]
    /\ UNCHANGED <<writerRest, work, reply, limbo, faults>>

\* The faulty variant goes on to remember the keys of a refused batch.
RefusedIsRemembered(b, err) ==
    /\ pc' = [r \in Requests |-> IF Awaits(r, b) THEN "remember" ELSE pc[r]]
    /\ UNCHANGED <<work, reply>>
Refused(b, err) ==
    /\ pc' = [r \in Requests |-> IF Awaits(r, b) THEN "replied" ELSE pc[r]]
    /\ reply' = [r \in Requests |-> IF Awaits(r, b) THEN Refusal(Batch[r].door, err) ELSE reply[r]]
    /\ work' = [r \in Requests |-> IF Awaits(r, b) THEN NoWork ELSE work[r]]

\* It sheds, or the write or the fsync fails; after a failed fsync the bytes
\* may be found again by a replay.
Shed(b) ==
    /\ up /\ b \in channel /\ Fault("shed")
    /\ channel' = channel \ {b}
    /\ Refused(b, "backpressure")
    /\ UNCHANGED <<logVars, writerRest, limbo>>

SyncFails(b) ==
    /\ up /\ b \in channel /\ Fault("sync")
    /\ channel' = channel \ {b} /\ limbo' = limbo \cup b
    /\ Refused(b, "io")
    /\ UNCHANGED <<logVars, writerRest>>

\* CallLedger::remember.
TrimsEarly(q) == IF Len(q) >= Capacity THEN Tail(q) ELSE q   \* faulty variant
Trim(q) == SubSeq(q, IF Len(q) > Capacity THEN Len(q) - Capacity + 1 ELSE 1, Len(q))
Pushed(q, k) == IF k \in ToSet(q) THEN q ELSE Append(q, k)
Remembered(q, ks) == Trim(FoldLeft(Pushed, q, ks))

\* What the ledger promises, key by key: a key is within reach until
\* Capacity others have been remembered after it.
Noted(w, k) ==
    [j \in Keys |->
        IF j = k THEN (IF w[k] = None THEN {} ELSE w[k])
        ELSE IF w[j] = None \/ w[k] # None THEN w[j]
        ELSE w[j] \cup {k}]
Reach(w, ks) ==
    LET late == FoldLeft(Noted, w, ks)
    IN  [j \in Keys |-> IF late[j] # None /\ Cardinality(late[j]) >= Capacity THEN None ELSE late[j]]

RememberCalls(r) ==
    /\ At(r, "remember")
    /\ ledger' = Remembered(ledger, work[r].keys)
    /\ window' = Reach(window, work[r].keys)
    /\ Goto(r, "scores")
    /\ UNCHANGED <<logVars, channel, blocked, try, work, reply, postVars, limbo,
                   diskVars, low, db, boundVars>>

scoresRest == <<logVars, channel, ledger, blocked, try, postVars, limbo, diskVars, low, window,
                crashes>>

\* put_scores, one transaction, then the reply.
PutScores(r) ==
    /\ At(r, "scores")
    /\ db' = PutBatch(db, Batch[r].scores)
    /\ Ends(r, IF Batch[r].door = "http" THEN "200" ELSE "OK")
    /\ UNCHANGED <<scoresRest, faults>>

ScoresFail(r) ==
    /\ At(r, "scores") /\ Batch[r].scores # <<>>
    /\ Fault("scores")
    /\ Refuses(r, "io")
    /\ UNCHANGED <<scoresRest, db>>

\* The client hangs up while its handler waits for the writer. The handler
\* is dropped there, the batch it sent is not.
HangUp(r) ==
    /\ At(r, "queued") /\ Fault("hangup")
    /\ Goto(r, "gone") /\ work' = [work EXCEPT ![r] = NoWork]
    /\ UNCHANGED <<logVars, channel, ledger, blocked, try, reply, postVars, limbo, diskVars, low, db,
                   window, crashes>>

\* An exporter sends a refused or unanswered request again.
Retry(r) ==
    /\ up /\ try[r] < MaxTries[r]
    /\ pc[r] = "gone" \/ (pc[r] = "replied" /\ reply[r] \in Retryable)
    /\ try' = [try EXCEPT ![r] = @ + 1]
    /\ reply' = [reply EXCEPT ![r] = None]
    /\ Goto(r, "new")
    /\ UNCHANGED <<logVars, channel, ledger, blocked, work, postVars, limbo, diskVars, low, db,
                   window, boundVars>>

Handler(r) ==
    \/ Unauthorized(r) \/ Malformed(r) \/ FilterCalls(r)
    \/ StaysInline(r) \/ DedupHit(r) \/ Collision(r) \/ NotFound(r)
    \/ RenameBlob(r) \/ SyncBlobDir(r) \/ PutFails(r)
    \/ AppendBatch(r) \/ ChannelFull(r)
    \/ RememberCalls(r) \/ PutScores(r) \/ ScoresFail(r)

----------------------------------------------------------------------------
(***************************************************************************)
(* /v1/scores and /v1/span_annotations: the targets are looked up, then    *)
(* the scores are stored, with nothing held in between.                    *)
(***************************************************************************)

\* target_from_parts: the most specific id that is present.
Kinds == <<"span", "trace", "session", "run">>
TargetOf(item) ==
    LET given == SelectSeq(Kinds, LAMBDA k : item.ids[k] # None)
    IN  IF given = <<>> THEN None ELSE <<given[1], item.ids[given[1]]>>

\* resolve_score refuses an item without a target or without a value; an
\* annotation has a span and need not have a value.
Resolved(p, item) ==
    Posted[p].route = "scores" => TargetOf(item) # None /\ item.valued
ScoreOf(item, source) == [id |-> item.id, target |-> TargetOf(item), ts |-> item.ts, source |-> source]

\* validate_targets reads the trace of a span that came with its trace id,
\* and the trace of a trace target. An annotation carries no trace id.
Hint(p, item) == IF Posted[p].route = "scores" THEN item.ids["trace"] ELSE None
Wanted(p) == {item.ids["trace"] : item \in ToSet(Posted[p].items)} \ {None}
WantedBy(p) == IF Posted[p].route = "scores" THEN Wanted(p) ELSE {}

\* How a target joined the spans that were read; hot is what the hot tier held.
HotIsAll(item, hint, spans, hot) ==   \* faulty variant: absent from memory is absent
    IF item.ids["span"] = None THEN "n/a"
    ELSE IF item.ids["span"] \in hot THEN "matched" ELSE "unmatched"
JoinStatus(item, hint, spans, hot) ==
    LET span == item.ids["span"]
        trace == item.ids["trace"]
        Found(t, matches) == IF spans[t] = None THEN "unverified"
                             ELSE IF matches THEN "matched" ELSE "unmatched"
    IN  IF span # None
        THEN IF hint # None THEN Found(hint, span \in spans[hint])
             ELSE IF span \in hot THEN "matched" ELSE "unverified"
        ELSE IF trace # None THEN Found(trace, spans[trace] # {}) ELSE "n/a"

PAt(p, l) == up /\ ppc[p] = l
PEnds(p, a) ==
    /\ ppc' = [ppc EXCEPT ![p] = "replied"] /\ answer' = [answer EXCEPT ![p] = a]
    /\ read' = [read EXCEPT ![p] = <<>>]

postRest == <<logVars, channel, ledger, blocked, handlerVars, limbo, diskVars, low, window, crashes>>

PostBegins(p) ==
    /\ PAt(p, "new")
    /\ IF \A item \in ToSet(Posted[p].items) : Resolved(p, item)
       THEN ppc' = [ppc EXCEPT ![p] = "check"] /\ UNCHANGED <<answer, read>>
       ELSE PEnds(p, "400")
    /\ known' = [known EXCEPT ![p] = IdsIn(owed)]
    /\ UNCHANGED <<postRest, db, faults>>

\* Each route has a refusal of its own for a body that does not parse.
PostMalformed(p) ==
    /\ PAt(p, "new") /\ Fault("body")
    /\ PEnds(p, IF Posted[p].route = "scores" THEN "400" ELSE "422")
    /\ UNCHANGED <<postRest, known, db>>

\* Store::trace, for one trace after another.
PostReads(p, t) ==
    /\ PAt(p, "check") /\ t \in WantedBy(p) \ DOMAIN read[p]
    /\ \/ /\ read' = [read EXCEPT ![p] = Bind(@, t, {s \in IdsIn(visible) : TraceOf[s] = t})]
          /\ UNCHANGED faults
       \/ read' = [read EXCEPT ![p] = Bind(@, t, None)] /\ Fault("read")
    /\ UNCHANGED <<postRest, db, ppc, answer, known>>

\* The verdict (422 in either route when it is "dangling"), with what the hot tier held by then (all of it, or what is
\* left after a flush: it only tells matched from unverified).
PostDecides(p) ==
    /\ PAt(p, "check") /\ WantedBy(p) \subseteq DOMAIN read[p]
    /\ \E hot \in {{}, IdsIn(visible)} :
        LET dangling == \E item \in ToSet(Posted[p].items) :
                JoinStatus(item, Hint(p, item), read[p], hot) = "unmatched"
        IN  IF dangling /\ Posted[p].strict THEN PEnds(p, "dangling")
            ELSE ppc' = [ppc EXCEPT ![p] = "put"] /\ UNCHANGED <<answer, read>>
    /\ UNCHANGED <<postRest, db, known, faults>>

PostPuts(p) ==
    /\ PAt(p, "put")
    /\ \/ /\ db' = PutBatch(db, [i \in DOMAIN Posted[p].items |-> ScoreOf(Posted[p].items[i], "api")])
          /\ PEnds(p, IF Posted[p].route = "scores" THEN "201" ELSE "200") /\ UNCHANGED faults
       \/ PEnds(p, "500") /\ Fault("scores") /\ UNCHANGED db
    /\ UNCHANGED <<postRest, known>>

Post(p) ==
    \/ PostBegins(p) \/ PostMalformed(p) \/ PostDecides(p) \/ PostPuts(p)
    \/ \E t \in Traces : PostReads(p, t)

----------------------------------------------------------------------------
(***************************************************************************)
(* The disk monitor, and the process.                                      *)
(***************************************************************************)

environmentRest == <<logVars, channel, ledger, handlerVars, postVars, limbo, diskVars, db, window,
                     crashes>>

\* A co-tenant fills the volume, or it is freed.
SpaceChanges ==
    /\ up /\ Fault("disk")
    /\ low' = ~low
    /\ UNCHANGED <<environmentRest, blocked>>

\* spawn_disk_monitor samples on a timer, and fails open.
SampleDisk ==
    /\ up
    /\ \/ blocked' = low /\ UNCHANGED faults
       \/ blocked' = FALSE /\ Fault("read")
    /\ blocked' # blocked
    /\ UNCHANGED <<environmentRest, low>>

\* The process dies: memory and handlers go, the clients see no reply. All
\* that was in the channel may have reached the disk. A power loss may also
\* take directory entries that were not synced.
Crash ==
    /\ up /\ crashes < MaxCrashes /\ crashes' = crashes + 1
    /\ Log!Stop
    /\ channel' = {} /\ limbo' = limbo \cup UNION channel
    /\ ledger' = <<>> /\ window' = NoWindow /\ blocked' = FALSE
    /\ pc' = [r \in Requests |-> IF pc[r] \in {"new", "replied"} THEN pc[r] ELSE "gone"]
    /\ ppc' = [p \in Posts |-> IF ppc[p] \in {"new", "replied"} THEN ppc[p] ELSE "gone"]
    /\ work' = [r \in Requests |-> NoWork]
    /\ \E lost \in SUBSET (IF "power" \in Faults THEN unsynced ELSE {}) :
        blobs' = [k \in DOMAIN blobs \ lost |-> blobs[k]]
    /\ unsynced' = {} /\ read' = [p \in Posts |-> <<>>]
    /\ UNCHANGED <<try, reply, answer, known, low, db, faults>>

\* Store::open: the log finds what it owes and may find what it refused.
Restart ==
    /\ ~up
    /\ \E found \in SUBSET limbo : visible' = owed \cup found /\ limbo' = found
    /\ Log!Start
    /\ UNCHANGED <<channel, ledger, blocked, handlerVars, postVars, diskVars, low, db, window,
                   boundVars>>

Next ==
    \/ \E r \in Requests : Handler(r) \/ HangUp(r) \/ Retry(r)
    \/ \E b \in channel : Accept(b) \/ Shed(b) \/ SyncFails(b)
    \/ \E p \in Posts : Post(p)
    \/ SpaceChanges \/ SampleDisk \/ Crash \/ Restart

Spec == Init /\ [][Next]_vars

----------------------------------------------------------------------------

\* Every variable has its type; the ledger is bounded (its deque and its set
\* never outgrow the capacity); a handler has prepared no more than it kept.
TypeOK ==
    /\ up \in BOOLEAN /\ visible \subseteq Records /\ owed \subseteq Records
    /\ channel \subseteq SUBSET Records /\ limbo \subseteq Records
    /\ ledger \in Seq(Keys) /\ Len(ledger) <= Capacity /\ blocked \in BOOLEAN /\ low \in BOOLEAN
    /\ try \in [Requests -> Nat] /\ \A r \in Requests : try[r] \in 1 .. MaxTries[r]
    /\ \A r \in Requests :
        /\ pc[r] \in {"new", "floor", "prepare", "write", "sync", "queued", "remember", "scores",
                      "replied", "gone"}
        /\ ToSet(work[r].kept) \subseteq DOMAIN Batch[r].spans /\ ToSet(work[r].keys) \subseteq Keys
        /\ ToSet(work[r].bodies) \subseteq Bodies /\ Len(work[r].bodies) <= Len(work[r].kept)
        /\ work[r].probe \in 0 .. MaxProbe /\ work[r].reach \subseteq Keys
    /\ \A p \in Posts : ppc[p] \in {"new", "check", "put", "replied", "gone"}
    /\ DOMAIN blobs \subseteq BlobKeys /\ unsynced \subseteq DOMAIN blobs
    /\ window \in [Keys -> (SUBSET Keys) \cup {None}]

Success == {"200", "OK"}

\* The keys a stored span answers for.
Calls(R) == {SpanOf(x).key : x \in R} \cup {SpanOf(x).anchor : x \in R}

\* A request that was told it is stored is stored: each of its spans is owed
\* by the log, or the ledger dropped it as the copy of a call that is. This
\* ties the ledger (read before the append, written after it), the order of
\* append and remember, refusals, hang-ups and restarts together. A score that
\* came with spans, acknowledged or not, is in scores.redb only if the span it
\* is about is owed: two stores, two commits, a crash or an error between.
AckedIsStored ==
    /\ \A r \in Requests : reply[r] \in Success =>
        \A s \in ToSet(Batch[r].spans) :
            s.id \in IdsIn(owed) \/ (s.key # None /\ s.key \in Calls(owed))
    /\ \A id \in DOMAIN db.rows :
        db.rows[id].source = "eval" => db.rows[id].target[2] \in IdsIn(owed)

\* A call is stored and counted once (calls.rs): nothing on its way to the log
\* is the keyed span of a call that was within the ledger's reach when it was
\* filtered, or comes twice in its batch. So of two copies that do not
\* overlap, with fewer than Capacity calls and no restart between them, one is
\* dropped.
StoredOnce ==
    \A r \in Requests : \A i \in DOMAIN work[r].kept :
        LET SpanAt(n) == Batch[r].spans[work[r].kept[n]]
        IN  (SpanAt(i).anchor = None /\ SpanAt(i).key # None) =>
                /\ SpanAt(i).key \notin work[r].reach
                /\ \A j \in DOMAIN work[r].kept \ {i} : SpanAt(j).key # SpanAt(i).key

\* Every variable has its type, and by_target names each id under its present
\* target and under no other, though ids are put again under other targets,
\* by either route.
ScoreTablesAgree == TypeOK /\ TablesAgree(db)

\* Every reference a read can meet resolves: a blob's to the bytes that were
\* offloaded, whatever collided, failed or was retried (blobs come before the
\* append), and by_target's to the score under that target.
ReferencesResolve ==
    /\ \A x \in visible \cup owed : x.body \in BlobKeys =>
            /\ x.body \in DOMAIN blobs
            /\ blobs[x.body] = Redacted[SpanOf(x).load]
    /\ ScoreTablesAgree

\* prepare_for_storage: a value the redactor removes reaches no tier, neither
\* a log record nor a blob file, that of a refused batch included.
NothingRawStored ==
    /\ \A x \in visible \cup limbo \cup UNION channel : x.body \in Payloads => Redacted[x.body] = x.body
    /\ \A k \in DOMAIN blobs : Redacted[blobs[k]] = blobs[k]

\* A post is refused for its targets only when one of them was not in the store
\* as it began: no reader of it is wrong about an acknowledged span.
StrictRejectsOnlyAbsent ==
    \A p \in Posts : answer[p] = "dangling" =>
        \E item \in ToSet(Posted[p].items) :
            \/ item.ids["span"] # None /\ item.ids["span"] \notin known[p]
            \/ item.ids["trace"] # None /\ \A s \in known[p] : TraceOf[s] # item.ids["trace"]
            \/ item.ids["span"] # None /\ TraceOf[item.ids["span"]] # item.ids["trace"]
=============================================================================
