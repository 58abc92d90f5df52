# Verification of kbd

`kbd` is a knowledge-base server: users upload documents, workers parse them and
import them into a vector store and an entity graph, and questions are answered
from what was imported. This directory holds TLA+ models of the parts of it where
several things happen at once, the TLC runs that check them on small instances, and
proofs, checked by TLAPS, of what holds on all instances.

Paths are relative to the repository. `PROJECT.json` lists, for every definition
that models code, the lines it stands for (`map`), the runs, the hazards with the
properties aimed at them, the findings, and the theorems.

## The system

| component | source | state it keeps | operations |
|---|---|---|---|
| ingest queue and worker | `internal/ingest/ingest.go`, `worker.go` | rows of `document` and `ingest_job`; per goroutine the claimed job | `Enqueue`, `Retry`, `claim`, `process`, `fail`, `DocumentStatus` |
| source parsing, fetch | `internal/ingest/parse*.go`, `internal/fetch` | none | text of a pdf, docx, url or plain source, or an error |
| document and kb deletion | `internal/ingest/delete.go` | the same rows, and the rag store | `DeleteDocument`, `DeleteAllDocumentsForKB` |
| rag adapter | `internal/ragsvc` | chunks, entity graph and communities per namespace (a kb) | `Import`, `RemoveGraphBySource`, `RemoveChunks`, `Answer`, `StreamAnswer`, `RecomputeCommunities`, `PrewarmCommunityReports` |
| retrieval and ask | `internal/retrieval` | none of its own | `Ask`, `AskGlobal`, `AskDrift`, `AskStream`, `persist` |
| sessions | `internal/sessions` | `qa_session`, `qa_message` | `EnsureSession`, `AppendPair`, `ListByKB`, `Transcript` |
| eval | `internal/eval` | `eval_run` | `RunEval`, `Insert`, `LatestBenchmark`, `ListByKB` |
| orgs, kbs, roles | `internal/orgkb` (and the external authz module) | `auth_org`, `knowledge_base`, `auth_membership` | `CreateOrg`, `Create`, `Get`, `ListByOrg`, `DeleteRow` |
| request budgets | `internal/limits` | a window per user, in memory | `Allow` |
| HTTP API | `internal/httpapi` | none | one handler per route; progress as server-sent events |
| process | `cmd/kbd/main.go` | the pool, the workers' context | start, serve, drain, clean up |
| storage | `internal/storage` | the tables, foreign keys and migrations | |
| configuration, tracing | `internal/config`, `internal/obs` | none after start | |
| web: ask page | `web/src/features/ask`, `lib/sse.ts` | the answer being shown | run, abort, reconnect |
| web: documents table | `web/src/features/documents` | one progress stream per document | subscribe, refetch |
| communities | `internal/ragsvc`, called by `delete.go` and `worker.go` | the communities of a kb and their reports, in the rag store | `RecomputeCommunities`, `PrewarmCommunityReports`, `ListCommunities`, `CommunityReport` |
| web: tokens | `web/src/lib/apiClient.ts`, `web/src/app/auth.tsx` | the access token, the refresh under way, whether a user is signed in | `apiFetch`, `login`, `logout` |
| web: other pages | `web/src` | none beyond the query cache | |

How they interact. An upload handler checks role, kb and quota, and `Enqueue` inserts the
document and its job in one transaction. Workers of every `kbd` process poll the job table,
claim a due job by writing a lease into its row (`FOR UPDATE SKIP LOCKED`), parse and import
outside any transaction, and then write the result into both rows. Delete and retry requests
change the same rows and the same rag store at any time. A question runs the rag pipeline,
stores a pair of messages and answers; the stream variant emits pieces while the model
produces them. The progress handler and the documents table only poll the status. Deletions
and imports recompute the communities of the kb from the whole graph. All pages share one
access token, and one refresh when it has expired. At SIGTERM `main` stops serving, cancels
the workers' context, waits for the workers and closes the pool.

What is hard. Everything between two statements: a worker is a sequence of
statements with an unfenced `UPDATE ... WHERE id=$1` at the end, its lease is never
renewed, and its import has no deadline. Processes die between any two of them.
Deletion, quota, duplicates and the creation of a kb are sequences of statements that race
and that may fail in the middle. Communities are computed from a snapshot and written over
whatever is there. Streams break and clients ask again. Clocks are read
before locks are taken.

What makes each component correct:

* **queue**: no job is lost or stranded; no two workers do the same job while
  leases cover the work; a done job was indexed and stays done; the bytes stay as
  long as they may be needed; attempts are bounded; every job settles.
* **deletion**: nothing of a deleted document or kb is left behind; a failed delete
  can be repeated.
* **ask and sessions**: a question is stored with its whole answer or not at all, in
  a session of the asker; what the client was told of is stored; the page shows it.
* **eval**: a drift run is compared with an earlier drift run of its kb.
* **orgs and kbs**: who creates something can administer it; the quota is kept; the same
  content is one document.
* **communities**: they are those of the graph, with a report each, and nothing that was
  deleted with its chunks comes back in them.
* **budgets**: at most the budget per minute, and no refusal below it.
* **lists**: a walk shows every row that stays, once and in order.
* **documents table**: unfinished rows are watched, and none is shown unfinished for ever.
* **tokens**: a request is repeated with a newer token than was refused, no token replaces a
  newer one, no request waits for ever; and no token should survive a sign-out, which the
  code does not achieve.
* **process**: it ends, its pool outlives its users, and it abandons a job only by a failure
  or by stopping the worker that has it.

## The modules

One module per component, in the order of importance in which they were written. All
of them follow the same conventions: an action is one SQL statement, one transaction
or one external call; a goroutine or request that makes several has a program counter;
and an operator commented `Slip:` is not part of the specification but a plausible
mistake, used to show that a property notices it (`mutants` in `PROJECT.json`).

### IngestQueue, with JobLifecycle, MCIngestQueue, IngestQueueProofs

| model | code |
|---|---|
| `document`, `job` | the rows of `document` and `ingest_job`; `job.run` and `job.lease` are `next_run_at` and `locked_until` compared with `now()` |
| `chunks`, `graph` | what the rag store has under a document's id |
| `worker[w]` | `Worker.Run`, `claim`, `process`, `fail`: the statement it is about to issue, the claimed attempts, the bytes `loadRaw` returned |
| `request[q]` | a running `Retry` or `DeleteDocument` |
| `Enqueue`, `Claim`, `Commit` | one transaction each |
| `LoadRaw`, `ParseOK/Error`, `SetPhase`, `ImportOK/Error` | the steps of `process` |
| `FailJob`, `FailDoc` | the two statements of `fail` |
| `RetryJob`, `RetryDoc`; `DeleteList`, `DeleteGraph`, `DeleteChunks`, `DeleteRow` | the statements of `Retry` and `DeleteDocument` |
| `WorkerGone`, `LoadRawError`, `StatementError`, `RequestGone` | crashes, cancelled contexts and failed statements; at most `MaxFaults` |
| `BackoffElapses`, `AbandonedLeaseLapses`, `HeldLeaseLapses` | time |

Two switches say what the environment does. `LeaseCoversWork` restricts leases to run
out after their holder is gone; `ReadFaults` allows the `SELECT` of `loadRaw` to fail.
The code guarantees neither; the runs say what holds with and without. Workers of all
processes are one set: every process names its workers `kbd-0`, `kbd-1`, ... in
`locked_by`, but no statement reads that column back, so `owner` records the goroutine.

External, from its use in `src/`: `Import` with `ReplaceSource` replaces the chunks of
a source by those of the text (none, for an empty text) and keeps the graph in step; it
may fail before, between or after. `PrewarmCommunityReports` and the recomputation after
a delete change only communities, which this module does not have.

`JobLifecycle` is the abstract specification: a document waits, is worked on, ends
indexed or given up, may be revived or removed. `IngestQueue!Stage` is the refinement
mapping, `ImplementsLifecycle` the property.

### RateLimit, MCRateLimit, RateLimitProofs

`Guard.Allow` reads the clock, then takes the lock and counts in a window. `call[c]` is
a request on its way through the guard of every route and, for eval runs, a second
guard. `now` is the minute of the wall clock; `LockIsQuick` excludes that it changes
between clock and lock.

### KeysetPaging, MCKeysetPaging, RowOrderProofs

The four lists. `rows` are the rows the WHERE clause selects, under random ids; a page
is one SELECT; a client walks with the cursors while rows come and go. `Descending`
selects between documents and kbs (up) and sessions and eval runs (down).

### ServerShutdown, MCServerShutdown, ServerShutdownProofs

`main`, the goroutine that drains, handlers (which take a connection per statement) and
workers (`Run`'s loop). A second signal after `stop()` kills the process (`SecondSignal`).

Of a job only its state is kept, with whether its lease has run out: `LeaseLapses` takes no
notice of a worker that is still at work, so `Claim` may give a job to a second worker of the
process while the first has it, and both then write the row by its id. `ClaimFails` and
`ProcessFails` are the error paths of `claim`, of the success transaction and of `fail`: the
statement fails, got through or not, and the worker lets go. With a cancelled context every
statement does; while the process serves, `Fault` counts them in `faults`, up to `MaxFaults`.
`Rewritten` stands for the requests that change a job meanwhile. Rows that an earlier process
has left running are not among the jobs: they are somebody else's.

### AskStream, with Transcript, MCAskStream, AskStreamProofs

`req[q]` is a handler of `/ask`, of `/ask/global` or `/ask/drift` (kind `graph`, without a
mode) or of `/ask/stream`, through mode check, answer,
`EnsureSession`, the two INSERTs and the commit of `AppendPair`, and the reply. `page` is
the state of `useAskStream`; `wire` holds the frames on their way to it. External:
`fetch-event-source` posts the request again when its connection breaks and no `onerror`
throws.

`Transcript` is the abstract specification: a question is asked, its pair is kept or not, and
it is over. `Stage`, `Asker` and `Kept` are the refinement mapping: a message is kept when it
is committed, and an assistant's is whole if its request got the model's answer to the end.
`Transcript` promises `Paired`: whoever reads a session finds whole pairs of its owner, each
question before its answer, and nothing else at their places. `PairsOnly` is that promise about
the messages of `AskStream`.

### KbLifecycle, MCKbLifecycle, KbLifecycleProofs

`slot[s]` is a request that creates an org or a kb, uploads, or deletes a kb; the kbs,
documents and chunks are the rows and what the rag store has. Membership grants are separate
statements after the row. A row's `source` and `size` stand for its content: two uploads
have the same checksum and idempotency key exactly if they agree in both. `Dedup`, `Enqueue`
and `Existing` are the SELECT for a ready document, the transaction that the unique index
may refuse, and the SELECT of the document that has the key; a url has size 0, as its
content is not known, and is found by its key only. `Most` is the largest size, which
`MaxUploadBytes` bounds; `Total`, the sum over rows, is the number of their `Bytes`. `told` is
history: what the answers were. `blind`, of a request and of the row it makes, is history: the sum
for the quota could not be read, which lets an upload through. `Reliable` excludes failing statements, `Quiet`
excludes that a kb is used while it is deleted. External: roles of the authz module (an org
admin may do everything in the kbs of the org, a kb admin in the kb).

### Communities, MCCommunities, CommunitiesProofs

| model | code |
|---|---|
| `doc`, `chunks`, `graph` | the document rows; which documents have chunks, and which have entities, in the rag store |
| `comms`, `reports` | the stored communities and those with a report |
| `op[o]` | a `DeleteDocument`, a `DeleteAllDocumentsForKB` or an import |
| `ReplaceChunks`, `WriteGraph` | `Import`: the chunks are replaced, then their entities are written |
| `List`, `RemoveGraph`, `RemoveChunks`, `RemoveRow` | the cascade of one document: `ids` says whether `ListChunkIDs` found any, without which `RemoveGraphBySource` does nothing |
| `Snapshot`, `Upsert`, `Prewarm`, `WriteReports` | `RecomputeCommunities` (and the detection inside `Import`, with the prewarming of the worker) |
| `Fails` | any of these calls fails, or the process dies |

A community is known by the documents over whose graph it was detected: that is what makes a
stale one differ from a fresh one. `alone` and `forgotten` are history; only documents whose
chunks were found are `forgotten`, since entities that have lost their chunks to a race (an import
that went on during a deletion) stay in the graph whatever is deleted later. External: `Detect` is a
function of the graph, `UpsertCommunities` replaces the whole set, and `Import` detects over a
snapshot after it has written the entities, like a deletion does.

### TokenRefresh, MCTokenRefresh, WebProofs

| model | code |
|---|---|
| `token`, `flight` | `accessToken` and `refreshInFlight` of `apiClient.ts` |
| `call[c]` | a call of `apiFetch`, of a page or (`out`) of `logout` |
| `signedIn`, `login` | `isAuthenticated` and the request of the login page (`auth.tsx`) |
| `Send`, `Denied`, `Refreshed`, `RefreshFailed` | the callbacks of `apiFetch` and `refresh` |
| `Served`, `Unauthorized`, `ServeRefresh`, `RefreshLost`, `Fails`, `Expires` | servers and network |

Tokens are numbered as they are issued. Callbacks that are queued by one promise run in a row,
so all calls that wait for a refresh are repeated, or end, in one action. `Quiet` says that
users sign out when nothing is under way, that pages ask nothing while nobody is signed in, and
that only who is signed out signs in; the code does not enforce it, and `SignedOutToken` shows
what happens to a sign-out without it: that no token outlives it is not a property of this code. External: the
authz module refuses an expired access token with 401 and a void cookie with an error, and a
sign-out voids the cookie.

### EvalRuns, MCEvalRuns, RowOrderProofs

Eval requests of two sorts (drift, which has a baseline, and the others), the rows they
leave and the baseline they read. The evaluators are external; any score may come out,
none included (NaN). `None` stands for the empty id, which no kb and no run has.

### ProgressView, MCProgressView, WebProofs

The documents table of the browser. Of a document only its status is kept, which is all that
table and progress handler read. It is not taken from the state of the job: `fail` and `Retry`
write it with a statement of its own, which may fail or come late (`StatusStuck`), so `Written`
lets any statement of the queue write it at any time, and nothing makes it final.

| model | code |
|---|---|
| `list`, `loaded`, `fetch`, `seen` | the documents query of `DocStatusTable`: its cache, and the GET under way with what it has read |
| `stream[d]` | the subscription of row `d` and its handler; `frames` says that a frame is on its way |
| `ReadList`, `ShowList`, `FetchFails` | the GET, and the effect that closes and opens subscriptions when an id or a status changed |
| `Connect`, `Emit`, `StreamEnds` | `progressHandler`: its first frame, one every second, the last one |
| `Frame`, `Touched` | a frame, or a mutation of the page, invalidates the query |
| `Break`, `Reopen` | the connection breaks; `fetch-event-source` tries again |

External: react-query 5 lets `invalidateQueries` cancel a GET under way for a new one,
except the first; `fetch-event-source` connects again after a break but not after a
regular end, and with the headers, hence the token, of the first time.
`Reopens` lets a final status be overwritten while this page shows the row unfinished: by a
retry elsewhere, by the late second statement of `fail` or `Retry`, or by the claim of a job whose
own statement in `fail` has failed. `StatusFaults` lets the SELECT of `DocumentStatus` fail, which
ends the stream.

## The runs

Runs that pass:

| run | instance | what it shows |
|---|---|---|
| `IngestCovered` | 1 document; a text, a pdf and a url key; 2 workers; 2 requests; 2 attempts; 2 faults; leases cover the work, reads succeed | ownership (`HolderOwnsJob`), completeness (`DoneMeansIndexed`, `RawKeptWhileNeeded`, `ReadyMeansDone`), the attempt budget, `DoneIsFinal`, and the refinement `ImplementsLifecycle` |
| `IngestLive` | the same with 1 request and 1 fault; leases may lapse under a live holder, reads may fail | what holds in every regime: no stranded job, locks are never stolen, and `JobSettles`: every job ends done, dead or deleted |
| `RateCapped` | 2 users, 3 calls, 2 minutes, an unlimited user guard and an eval guard of 2 | `CapPerMinute` and `RefusalJustified`, when no minute ends between clock and lock |
| `Paging` | 4 ids, limits -1..3 with a maximum of 2, descending | `PagesInOrder`, `NothingMissed` |
| `Shutdown` | 2 workers, 3 jobs, 1 request, 1 failing statement while serving, any number after; lapsing leases, second signal | `PoolOutlivesUsers`, `EachAbandonsOne` (no more abandoned jobs than failed statements and stopped workers), `SignalEndsProcess` |
| `AskAnswers` | 2 requests, of the page or of programs of 2 owners, 2 sessions, 2 pieces, 2 questions | the refinement `ImplementsTranscript` (whole pairs, once); `OnlyOwnSessions`; `PairsOnly`; what the page was told of is stored, and it has shown it; `RunEnds` |
| `KbQuiet` | 1 user, 1 org, 1 kb, 4 documents of size 1 under 3 names, quota 1, 2 concurrent requests, failing statements | `ReportedHasAdmin`, `OneDocPerContent`, `ChunksHaveRow`, `KbEmptied` (nothing is left of a kb that was deleted while nobody used it), `QuotaSlack` |
| `EvalBaseline` | 3 runs, 2 kbs, 2 concurrent requests | `ComparedWithDrift`, `NoBaselineMissed` |
| `Progress` | 2 documents, without `Reopens` and `StatusFaults` | `Watched`, `TableCatchesUp` (once the status is final) |
| `Recompute` | 3 documents, 3 operations that overlap and fail | `FreshWhenAlone`, `ReportsFollow`, `QuietDeleteForgets` |
| `Tokens` | 3 calls, 3 tokens, sign-outs when nothing is under way | `RepeatIsFresh`, `TokenNeverOlder`, `CallsEnd` |

One run ends in a violation, the smallest instance that shows what a comment of the code
promises and the code does not do (`findings` quotes the lines):

| run | property | what happens |
|---|---|---|
| `ReimportHarmful` | `DoneMeansIndexed` | a worker whose lease lapsed imports an empty text over the finished import of another one |

### Further configurations

They are kept for reference, outside the list of runs. All but `KbTwo` end in a violation
and mark where a regime, or a promise, ends; the lines they quote are with the properties. The other
regimes of `IngestQueue` end as plainly: with `ReadFaults` a failed read of the content, which is only
logged, indexes an empty text, and without `LeaseCoversWork` the unfenced UPDATE of `fail` reopens a
done job.

| configuration | module | property | what happens |
|---|---|---|---|
| `StatusStuck` | `MCIngestQueue` | `StatusSettles` | the second statement of `fail` overwrites the `ready` of the next attempt: the progress stream, which `handlers.go:134-135` says ends with a terminal state, never does |
| `EvalNotLatest` | `MCEvalRuns` | `BaselineIsLatest` | the baseline is the run with the greatest random id, not "the most recent" one of `store.go:105` |
| `StaleCommunities` | `MCCommunities` | `RestIsFresh` | of two overlapping operations the one with the older snapshot stores its communities last, and nothing recomputes them |
| `SignedOutToken` | `MCTokenRefresh` | `SignedOutHasNoToken` | a refresh that was under way at the sign-out is answered later and leaves its token in the page |
| `StaysSignedIn` | `MCTokenRefresh` | `FailedRefreshSignsOut` | after a failed refresh the token is gone, but `isAuthenticated` stays, and nothing redirects to `/login` |
| `KbTwo` | `MCKbLifecycle` | those of `KbQuiet`, with `TypeOK` | passes: two kbs, of which one may be deleted while the other is used, and 3 documents |
| `DeleteRace` | `MCIngestQueue` | `DeleteLeavesNothing` | a document deleted during its import leaves chunks, or graph entries |
| `RateFlip` | `MCRateLimit` | `CapPerMinute` | two calls around the change of the minute reopen each other's window |
| `NewestLast` | `MCKeysetPaging` | `NewestFirst` | random ids are listed in their order, not by age |
| `RequestsCut` | `MCServerShutdown` | `RequestsDrained` | `main` returns while `Shutdown` still waits for a handler |
| `AnswerTwice` | `MCAskStream` | `ShownIsAnswer` | the page appends a second answer after a reconnect |
| `KbOverQuota` | `MCKbLifecycle` | `QuotaHeld` | two uploads read the same sum |
| `KbLeftovers` | `MCKbLifecycle` | `DeletedLeavesNoChunks` | a document uploaded after the ids were listed is left behind |
| `KbOrphan` | `MCKbLifecycle` | `RetryRecovers` | the repeated Create makes a second kb, the first has no admin |
| `EvalMixed` | `MCEvalRuns` | `BaselineOfDataset` | all datasets have one name |
| `Unwatched` | `MCProgressView` | `Watched` | with `Reopens`: a document that failed and was retried by somebody else between two fetches is still shown `parsing`, and its stream has ended |

Bounds. Two workers and two requests are the smallest numbers at which a lock, a lease,
a sum or a list can be contended, and a third adds no new kind of conflict: every action
involves one actor and at most one row. Two attempts give a first, a last and, with the
faults, an attempt beyond the last; one or two faults put a crash or an overrun between
any two statements. One document at a time suffices for what concerns one job, since
jobs share nothing but their idempotency key; that keys stay unique is a theorem. Three
calls are one more than the budget of `RateCapped`, and the unlimited user guard before it
lets all of them reach it. Four ids and pages of one and two give walks of several pages
with insertions before, in and after them; ascending lists mirror descending ones. Three
jobs are one more than the workers that can be in the middle of one, and with one failure
(`MaxFaults`) and two stopped workers all three can be abandoned; a second request would meet
nothing that the first does not, as handlers share only the pool. Two sessions and
requests of two owners let a request name its own, a foreign and a new session. With a
quota of one document, two uploads at a time show the slack; three names of content and four
ids leave one for an upload that is repeated after a deletion. One kb is enough for what two
requests can do to each other in it; `KbTwo` has two. Three operations on communities let two
overlap and a third come after them, alone. Three calls let one wait for a refresh when another
is refused and a third one begins; three tokens are a sign-in, a refresh and one more of either.
No run
repeats the type invariants, which are all proved. Two documents let the answer to one row's
frame overtake the other's.
The theorems below remove the bounds from every safety property of the runs; the bounds
matter for liveness alone.

Deadlock is checked except in `AskStream`, `KbLifecycle`, `EvalRuns`, `Communities` and
`TokenRefresh`, where a behaviour ends because the requests or ids of the instance are used
up. `ServerShutdown` ends in `exited`, where it stutters by `Over`.

Fairness. `IngestQueue`: weak fairness of each worker's and request's own steps, as
statements return and the parse has a timeout; weak fairness of `BackoffElapses` and
`AbandonedLeaseLapses`, as time passes; strong fairness of the claim of each job, as
the workers never stop polling and the query takes due jobs in the order of
`next_run_at`, so a due job is not passed over for ever, though it may be not claimable
in between. Faults need not occur. `ServerShutdown`: goroutines run, statements return,
`Shutdown` ends; signals and requests need not come, and a handler need not answer.
`AskStream`: handlers run and frames on an open connection arrive; connections need not
break. `ProgressView`: the server
answers, ticks and frames arrive; strong fairness of `ShowList`, as an answer takes less
than the second between two frames, so a list that is asked for again and again is shown
at last. Nothing repairs a broken connection or a failed fetch there: `TableCatchesUp`
makes an exception of both. `TokenRefresh`: a request is answered or fails (by the
browser's timeout if by nothing else), so is a refresh, and callbacks run; nobody need sign in.
The other modules state safety only.

## The proofs

| module | assumptions | theorems |
|---|---|---|
| `IngestQueueProofs` | none beyond the named ones of the constants | `TypeCorrect`, `KeysStayUnique`, `NoJobStranded`, `RawDropped`, `LockNeverStolen` |
| | `LeaseCoversWork` | `OwnershipCorrect`, `QueueCorrect`, `RawKept`, `AttemptsCorrect`, `DoneStays`, `RefinesLifecycle` |
| | `LeaseCoversWork`, `~ReadFaults` | `IndexedCorrect` |
| `RateLimitProofs` | none | `TypeCorrect`, `RefusalsJustified` |
| | `LockIsQuick` | `CapHolds` |
| `RowOrderProofs` | none (ids are finitely many) | `TypeCorrect`, `PagesStayInOrder`, `WalkIsComplete` |
| | none beyond `EvalAssumption` | `RunsCorrect`, `RunsTypeCorrect`, `ComparedRight`, `BaselineFound` |
| `ServerShutdownProofs` | none (jobs and workers are finitely many) | `TypeCorrect`, `PoolCorrect`, `NothingAbandoned`, `StopAbandonsFew` |
| `AskStreamProofs` | none | `AskCorrect`, `TypeCorrect`, `SessionsOwn`, `ToldIsStored`, `RefinesTranscript`, `PairsStored`, `AnswerShown` |
| `KbLifecycleProofs` | none (`ChunksHaveRow` and `KbEmptied` name `Quiet` themselves; documents and requests are finitely many) | `KbsCorrect`, `TypeCorrect`, `AdminsKept`, `UploadsShared`, `ChunksKept`, `DeletedEmpty`, `QuotaCounted`, `QuotaOverrun` |
| `CommunitiesProofs` | none | `CommunitiesCorrect`, `TypeCorrect`, `FreshAfterAlone`, `ReportsComplete`, `DeletedStaysForgotten` |
| `WebProofs` | none | `TypeCorrect`, `ViewTypeCorrect` |
| | `Quiet` (of `TokenRefresh`) | `TokensCorrect`, `RepeatsAreFresh`, `TokensAdvance` |
| | `~Reopens`, `~StatusFaults` (of `ProgressView`) | `TableCorrect`, `RowsWatched` |

Two modules hold the proofs of two components each: `RowOrderProofs` those about rows under
random ids, which lists walk through (`KeysetPaging`) and eval runs are compared in
(`EvalRuns`), and `WebProofs` those of the browser (`TokenRefresh` and `ProgressView`). Each
extends both of its modules, which is why the specifications of `EvalRuns` and `ProgressView`
have names of their own (`EvalSpec` with `EvalOK`, `TableSpec` with `TableOK`); the two of a pair
share no state, and no proof uses an assumption of the other one.

A theorem about a property of a run assumes what that run assumes, no more: `~Reopens` and `~StatusFaults`
are the regime of `Progress`, and `Unwatched` shows what happens without.

*IngestQueue.* The properties are not inductive. `RowInv` ties the columns of the two
rows to each other (a job is locked exactly while it runs, a deleted document has no
job). `HolderInv`, under `LeaseCoversWork`, says that a worker between its claim and the
statement that gives the job up is the one named in the row, with its attempts and a
live lease; since a row names one worker, holders are unique, and the unfenced UPDATEs
write the rows they mean. `QueueInv` adds which phases of a worker go with which bytes
and statuses, and `BudgetInv` that the attempts in the row exceed `MaxAttempts` by no more
than the faults that took a worker away. `IndexInv`, with reads that succeed, says that a
holder past its read has the bytes, and that from the import to the end the chunks are
there unless a delete has begun. The refinement is proved step by step: each action is a
step of `JobLifecycle` on one document or leaves `Stage` alone.

*RateLimit.* `Counted` says that the window's counter is at most what was granted in that
minute, which justifies refusals in any case; `CapInv`, with `LockIsQuick`, that no window
is of a later or skipped minute, so that the counter is exactly what was granted.

*KeysetPaging.* `CursorInv` places the cursor at the end of what was shown; `PagingInv` says
that every row that stayed and is not beyond the cursor has been shown.

*ServerShutdown.* `ShutdownInv` adds to the properties that a worker has a job exactly while
it works; nobody leaves `returned`, so what `WorkersDone` saw stays true. `CountInv` is stronger
than `EachAbandonsOne`: of the idle workers only those past a claim may have left a job, so a
claim whose commit got through uses up a worker of its own. Each step abandons at most one job,
and only by a failure, which either is counted or is that of a worker which then lets go and, as
its context is cancelled, never claims again. `NothingAbandoned` is the case without failures.

*AskStream.* `ReqOK` says, for each place a handler can be at, what it has drawn, written and
sent; `SeqOK` that no two have drawn one `seq`; `MessageOK` that a message's request is past its
commit, with the whole answer, in a session of the asker; `PageOK` that frames are only on the
open connection of the page, and that a `done` frame tells of a stored answer. With these every
step is one of `Transcript` or leaves its variables alone; a failing commit that got through is
the one step that is two things at once, `Pair` and `End`. `PairsStored` is proved of `Transcript`
(`LedgerInv`: its types, `AskedBefore` and `Paired` are inductive there) and carried over by the
refinement. `AnswerShown` is about the page: `Streaming` says that what the page has shown of the
request it is connected to, and then the frames on the wire, are the pieces that request has sent,
each once and in order; `OfPageShown` that nothing of another question is shown; `ToldIsShown`
that the page has all of a request whose end it was told.

*KbLifecycle.* `SlotsOK` and `DrawnOK` tie requests to the ids that were drawn. `RowsOK`
says that no two rows have one content and that what clients were told of a row is true,
which the unique index keeps and the SELECTs outside the transaction rely on. `DeletionsOK`,
under `Quiet`, says that a document which a deletion has not yet reached is in its list, and
that the chunks of the one in its hands are gone: that is what a second attempt finds again.
`DeletedEmpty` needs besides that the id of a kb that is gone is not drawn again (`GoneOK`).
The quota is counted with requests: `QuotaInv` bounds the bytes of the rows that were let in by a
sum and, with them, those of the requests that have passed the sum and may still insert
(`Cleared`). An upload that passes the sum finds at most `Quota` with its own bytes, and each of
the other requests adds at most `Most`. A sum over rows is the cardinality of a set of bytes, not
a fold, so that the library's theorems about finite sets apply.

*Communities.* `AloneOK` and `OpsOK` follow an operation that is alone from its snapshot
(which is of the graph as long as nobody else writes it) to its reports, and a document in its
hands from the ids that were found to its entities, which are then gone; `ForgottenOK` adds
that the row of what was forgotten is gone, so no worker claims it again; nor does any
operation have it in its snapshot.

*TokenRefresh.* `AnswerOK` says that a token on its way to the page is newer than all that
were used; this needs `ScreenOK`, that while one answer is on its way nobody else is given a
token, and hence `Quiet`.

*EvalRuns.* `RowsBorn` says that a row is numbered when it is stored, after it was asked for;
`BaselineOK` that the baseline in the hands of a request is a stored drift run of its kb with the
metric it has, and that a drift request without one began before any of its kb was stored.
Rows of `eval_run` are never changed, so what was compared stays true.

*ProgressView.* `EndSettled` says that the stream of a row shown unfinished ends only when the
document is finished, and that a page which hears no more of such a row has asked for a list
that will show it finished: the GET is not answered yet, failed, or has read it. This needs that
no final status is overwritten behind a row that is shown unfinished.

What is only model-checked: liveness (`JobSettles`, `SignalEndsProcess`, `RunEnds`,
`TableCatchesUp`, `CallsEnd`), which is out of the prover's reach. Every invariant and every
other action property of the passing runs is a theorem.

## What is not modelled

* Parsers and the fetcher: functions of their input; their outcome is success or failure.
* The rag, authz and LLM modules: other repositories, external here.
* Migrations, configuration, tracing: straight-line code run once at the start, which
  `ServerShutdown!Init` takes as done.
* Citations, diagnostics, token budgets and the layout of pages: data that no property
  tells apart.
* Why the fetcher is left out: it keeps nothing between calls, and no caller sees more of it than
  text or an error. Its limits are comparisons on one response.
* Global and drift questions of the ask page, and the kb, eval and session pages: one request
  each, whose state is kept by the query library.
* `getDocHandler`, `getKBHandler` and the transcript: one SELECT each.
* How long a backoff or a poll interval is: time is an order of events here.

## Plan

All components that keep state are modelled. What could follow:

1. A composition of `IngestQueue` with the deletion of a whole kb, in place of the two views
   of it in `KbLifecycle` and `Communities`.
2. An abstract specification of the documents of a kb (an upload is answered with the one
   document that has its content), which `KbLifecycle` implements.
