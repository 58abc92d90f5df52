----------------------------- MODULE IngestQueue -----------------------------
(***************************************************************************)
(* The asynchronous ingest queue of kbd: the document and ingest_job rows  *)
(* (internal/storage), the worker that drains the queue                    *)
(* (internal/ingest/worker.go), and the API requests that touch the same   *)
(* rows while it runs: Enqueue, Retry (ingest.go) and DeleteDocument       *)
(* (delete.go).                                                            *)
(*                                                                         *)
(* One action is one statement or one transaction against Postgres, or one *)
(* call of the rag backend; a worker or a request that issues several has  *)
(* a program counter, and anything may happen between two of them.         *)
(*                                                                         *)
(* Data is abstracted to what the queue can tell apart.  The raw bytes are *)
(* there ("raw") or not ("null").  A document has no chunks (0) or the     *)
(* chunks of its text (1), and the entity graph holds contributions of     *)
(* those chunks (1) or not (0).  A job and its document are born and die   *)
(* together (one INSERT transaction, ON DELETE CASCADE), so the job of     *)
(* document d is job[d].  The clock is abstracted to what the queries      *)
(* compare with now(): job.run says whether next_run_at has come,          *)
(* job.lease whether locked_until has passed.                              *)
(***************************************************************************)
EXTENDS Naturals, FiniteSets

CONSTANTS
  Docs,            \* document ids newID() may draw; each is drawn once
  Keys,            \* idempotency keys, one per (kb, source, checksum)
  TextKeys,        \* keys of md / txt / paste sources: parsing cannot fail
  UrlKeys,         \* keys of url sources: no raw bytes are stored
  NoKey,           \* the key of an id that was never used
  Workers,         \* the Worker goroutines, of every kbd process; see owner below
  NoWorker,        \* locked_by = ''
  NoDoc,           \* a worker or a request that works on nothing
  Requests,        \* API requests in flight
  MaxAttempts,     \* WorkerConfig.MaxAttempts
  MaxFaults,       \* bound: crashes, failed statements and lease overruns
  LeaseCoversWork, \* TRUE: a lease only runs out once its holder is gone
  ReadFaults       \* TRUE: the SELECT of loadRaw may fail

\* NewWorker replaces a MaxAttempts that is not positive by 5.
ASSUME MaxAttemptsAssumption == MaxAttempts \in Nat \ {0}

ASSUME MaxFaultsAssumption == MaxFaults \in Nat

ASSUME SentinelAssumption ==
  /\ NoWorker \notin Workers
  /\ NoDoc \notin Docs
  /\ NoKey \notin Keys

ASSUME SwitchAssumption ==
  /\ LeaseCoversWork \in BOOLEAN
  /\ ReadFaults \in BOOLEAN

VARIABLES
  document, \* the document row of each id, and the key of its job
  job,      \* the ingest_job row of each document id
  chunks,   \* rag store: number of chunks filed under each document id
  graph,    \* rag store: graph contributions of those chunks
  worker,   \* what each Worker is doing
  request,  \* what each API request is doing
  doomed,   \* history: ids some delete request has removed the chunks of
  faults    \* number of faults so far

vars == <<document, job, chunks, graph, worker, request, doomed, faults>>
------------------------------------------------------------------------------
WorkerPCs == {"idle", "load", "parse", "phase", "import", "commit",
              "failJob", "failDoc"}

RequestPCs == {"idle", "retryDoc", "graph", "chunks", "row"}

DocStatuses == {"unused", "pending", "parsing", "ready", "failed", "deleted"}

DocPhases == {"none", "parsing", "indexing", "ready", "failed", "retry-scheduled"}

DocumentRow == [status: DocStatuses, phase: DocPhases,
                content: {"raw", "null"}, chunkCount: 0..1,
                key: Keys \cup {NoKey}]

\* owner stands for locked_by: the goroutine that wrote it.  (Every process names
\* its workers kbd-0, kbd-1, ...; no statement reads the column back.)
JobRow == [state: {"none", "pending", "running", "done", "dead"},
           attempts: Nat, run: {"now", "later"},
           lease: {"none", "live", "lapsed"},
           owner: Workers \cup {NoWorker}]

WorkerState == [pc: WorkerPCs, doc: Docs \cup {NoDoc}, attempts: Nat,
                raw: {"raw", "null"}]

RequestState == [pc: RequestPCs, doc: Docs \cup {NoDoc}, ids: 0..1]

\* Every row, program counter and counter has its type, and whoever is busy
\* is busy with a document.
TypeOK ==
  /\ document \in [Docs -> DocumentRow]
  /\ job \in [Docs -> JobRow]
  /\ chunks \in [Docs -> 0..1]
  /\ graph \in [Docs -> 0..1]
  /\ worker \in [Workers -> WorkerState]
  /\ \A w \in Workers : worker[w].pc # "idle" => worker[w].doc \in Docs
  /\ request \in [Requests -> RequestState]
  /\ \A q \in Requests : request[q].pc # "idle" => request[q].doc \in Docs
  /\ doomed \subseteq Docs
  /\ faults \in 0..MaxFaults

NoJob == [state |-> "none", attempts |-> 0, run |-> "now",
          lease |-> "none", owner |-> NoWorker]

IdleWorker == [pc |-> "idle", doc |-> NoDoc, attempts |-> 0, raw |-> "null"]

IdleRequest == [pc |-> "idle", doc |-> NoDoc, ids |-> 0]

Init ==
  /\ document = [d \in Docs |-> [status |-> "unused", phase |-> "none",
                                 content |-> "null", chunkCount |-> 0,
                                 key |-> NoKey]]
  /\ job = [d \in Docs |-> NoJob]
  /\ chunks = [d \in Docs |-> 0]
  /\ graph = [d \in Docs |-> 0]
  /\ worker = [w \in Workers |-> IdleWorker]
  /\ request = [q \in Requests |-> IdleRequest]
  /\ doomed = {}
  /\ faults = 0
------------------------------------------------------------------------------
\* The row is there (and, by the foreign key, so is its job).
Exists(d) == document[d].status \notin {"unused", "deleted"}

\* UPDATE ... WHERE id=$1: touches no row, without an error, if it is gone.
UpdateDocument(d, row) ==
  document' = IF Exists(d) THEN [document EXCEPT ![d] = row] ELSE document

UpdateJob(d, row) ==
  job' = IF Exists(d) THEN [job EXCEPT ![d] = row] ELSE job

Goto(w, pc) == worker' = [worker EXCEPT ![w].pc = pc]

IsUrl(d) == document[d].key \in UrlKeys

IsText(d) == document[d].key \in TextKeys

\* A pdf or docx, which has no text without its bytes.
IsFile(d) == ~IsText(d) /\ ~IsUrl(d)

\* Number of chunks of the text that the worker has parsed: an empty text
\* has none.  The text of a url comes from the fetcher, all other texts
\* from the raw bytes that loadRaw returned.
TextChunks(w) ==
  IF IsUrl(worker[w].doc) \/ worker[w].raw = "raw" THEN 1 ELSE 0
------------------------------------------------------------------------------
(* Enqueue: document(pending) and ingest_job(pending) in one transaction.  *)
(* A key that some job already has makes the second INSERT fail (23505),   *)
(* and the transaction rolls back: nothing changes.                        *)

KeyTaken(k) == \E d \in Docs : Exists(d) /\ document[d].key = k

Enqueue(d, k) ==
  /\ document[d].status = "unused"
  /\ ~KeyTaken(k)
  /\ document' = [document EXCEPT ![d] =
                    [status |-> "pending", phase |-> "none",
                     content |-> IF k \in UrlKeys THEN "null" ELSE "raw",
                     chunkCount |-> 0, key |-> k]]
  /\ job' = [job EXCEPT ![d] = [NoJob EXCEPT !.state = "pending"]]
  /\ UNCHANGED <<chunks, graph, worker, request, doomed, faults>>
------------------------------------------------------------------------------
(* The worker: claim, then process.                                        *)

\* Slip: a running job is taken whatever its locked_until says.
ClaimableAnyLease(d) ==
  \/ job[d].state = "pending" /\ job[d].run = "now"
  \/ job[d].state = "running"

\* Slip: a running job is never taken again.
ClaimablePendingOnly(d) == job[d].state = "pending" /\ job[d].run = "now"

Claimable(d) ==
  \/ job[d].state = "pending" /\ job[d].run = "now"
  \/ job[d].state = "running" /\ job[d].lease = "lapsed"

\* Slip: process gets the attempts read by the SELECT, not the new value.
ClaimedBeforeIncrement(d) == [pc |-> "load", doc |-> d,
                              attempts |-> job[d].attempts, raw |-> "null"]

\* The claimed value handed to process.
Claimed(d) == [pc |-> "load", doc |-> d,
               attempts |-> job[d].attempts + 1, raw |-> "null"]

\* claim up to its COMMIT.  ORDER BY next_run_at picks one claimable job;
\* SKIP LOCKED can skip any of them.
Claim(w, d) ==
  /\ worker[w].pc = "idle"
  /\ Claimable(d)
  /\ job' = [job EXCEPT ![d] = [state |-> "running",
                                attempts |-> job[d].attempts + 1,
                                run |-> job[d].run,
                                lease |-> "live",
                                owner |-> w]]
  /\ document' = [document EXCEPT ![d].status = "parsing",
                                  ![d].phase = "parsing"]
  /\ worker' = [worker EXCEPT ![w] = Claimed(d)]
  /\ UNCHANGED <<chunks, graph, request, doomed, faults>>

\* loadRaw runs after that transaction, on the pool.
LoadRaw(w) ==
  /\ worker[w].pc = "load"
  /\ worker' = [worker EXCEPT
       ![w].pc = "parse",
       ![w].raw = IF Exists(worker[w].doc)
                  THEN document[worker[w].doc].content ELSE "null"]
  /\ UNCHANGED <<document, job, chunks, graph, request, doomed, faults>>

\* parseSource returns a text.
ParseOK(w) ==
  /\ worker[w].pc = "parse"
  /\ IsFile(worker[w].doc) => worker[w].raw = "raw"
  /\ Goto(w, "phase")
  /\ UNCHANGED <<document, job, chunks, graph, request, doomed, faults>>

\* parseSource returns an error: an unreadable file, a failed fetch, or the
\* parse timeout.  The text sources are returned as they are.
ParseError(w) ==
  /\ worker[w].pc = "parse"
  /\ IsFile(worker[w].doc) \/ IsUrl(worker[w].doc)
  /\ Goto(w, "failJob")
  /\ UNCHANGED <<document, job, chunks, graph, request, doomed, faults>>

\* setPhase("indexing"); nothing reads the phase column of ingest_job.
SetPhase(w) ==
  LET d == worker[w].doc IN
  /\ worker[w].pc = "phase"
  /\ UpdateDocument(d, [document[d] EXCEPT !.phase = "indexing"])
  /\ Goto(w, "import")
  /\ UNCHANGED <<job, chunks, graph, request, doomed, faults>>

\* Rag.Import with ReplaceSource: the chunks of this source become those of
\* the text, and the graph holds their contributions.
ImportOK(w) ==
  LET d == worker[w].doc IN
  /\ worker[w].pc = "import"
  /\ chunks' = [chunks EXCEPT ![d] = TextChunks(w)]
  /\ graph' = [graph EXCEPT ![d] = TextChunks(w)]
  /\ Goto(w, "commit")
  /\ UNCHANGED <<document, job, request, doomed, faults>>

\* Slip: the error of Import is not looked at.
ImportErrorIgnored(w) ==
  /\ worker[w].pc = "import"
  /\ chunks' = [chunks EXCEPT ![worker[w].doc] = 0]
  /\ graph' = [graph EXCEPT ![worker[w].doc] = 0]
  /\ Goto(w, "commit")
  /\ UNCHANGED <<document, job, request, doomed, faults>>

\* Rag.Import fails before it has replaced anything, after it has removed
\* the old chunks, or after it has written the new ones.
ImportError(w) ==
  LET d == worker[w].doc IN
  /\ worker[w].pc = "import"
  /\ \E n \in {chunks[d], 0, TextChunks(w)} :
       /\ chunks' = [chunks EXCEPT ![d] = n]
       /\ graph' = [graph EXCEPT ![d] = IF n = 0 THEN 0 ELSE graph[d]]
  /\ Goto(w, "failJob")
  /\ UNCHANGED <<document, job, request, doomed, faults>>

\* The document row the success transaction writes.
Indexed(row, n) ==
  [row EXCEPT !.status = "ready", !.phase = "ready", !.chunkCount = n,
              !.content = "null"]

\* Slip: the job row is left for a second transaction that never comes.
DoneLater(row) == row

\* The job row the success transaction writes.
Done(row) ==
  [row EXCEPT !.state = "done", !.lease = "none", !.owner = NoWorker]

\* The success transaction.  Neither UPDATE looks at locked_by.
Commit(w) ==
  LET d == worker[w].doc IN
  /\ worker[w].pc = "commit"
  /\ UpdateDocument(d, Indexed(document[d], TextChunks(w)))
  /\ UpdateJob(d, Done(job[d]))
  /\ worker' = [worker EXCEPT ![w] = IdleWorker]
  /\ UNCHANGED <<chunks, graph, request, doomed, faults>>

\* Slip: one attempt too many.
SpentOneLate(w) == worker[w].attempts > MaxAttempts

Spent(w) == worker[w].attempts >= MaxAttempts

Buried(row) ==
  [row EXCEPT !.state = "dead", !.lease = "none", !.owner = NoWorker]

\* Slip: the lock is not released.
RescheduledStillLocked(row) == [row EXCEPT !.state = "pending", !.run = "later"]

Rescheduled(row) ==
  [row EXCEPT !.state = "pending", !.run = "later", !.lease = "none",
              !.owner = NoWorker]

\* fail, first statement: the job is dead, or pending again after a backoff.
FailJob(w) ==
  LET d == worker[w].doc IN
  /\ worker[w].pc = "failJob"
  /\ UpdateJob(d, IF Spent(w) THEN Buried(job[d]) ELSE Rescheduled(job[d]))
  /\ Goto(w, "failDoc")
  /\ UNCHANGED <<document, chunks, graph, request, doomed, faults>>

\* fail, second statement: the document.
FailDoc(w) ==
  LET d == worker[w].doc IN
  /\ worker[w].pc = "failDoc"
  /\ UpdateDocument(d,
       IF Spent(w)
       THEN [document[d] EXCEPT !.status = "failed", !.phase = "failed"]
       ELSE [document[d] EXCEPT !.status = "pending",
                                !.phase = "retry-scheduled"])
  /\ worker' = [worker EXCEPT ![w] = IdleWorker]
  /\ UNCHANGED <<job, chunks, graph, request, doomed, faults>>
------------------------------------------------------------------------------
(* Faults of the worker.                                                   *)

Fault == faults < MaxFaults /\ faults' = faults + 1

\* The process dies, its context is cancelled at shutdown, or the success
\* transaction fails: the worker drops the job, which stays as it is.
WorkerGone(w) ==
  /\ worker[w].pc # "idle"
  /\ Fault
  /\ worker' = [worker EXCEPT ![w] = IdleWorker]
  /\ UNCHANGED <<document, job, chunks, graph, request, doomed>>

\* loadRaw logs the error of its SELECT and returns no bytes.
LoadRawError(w) ==
  /\ ReadFaults
  /\ worker[w].pc = "load"
  /\ Fault
  /\ Goto(w, "parse")
  /\ UNCHANGED <<document, job, chunks, graph, request, doomed>>

\* setPhase and fail log the error of a statement and carry on.
StatementError(w) ==
  /\ \/ worker[w].pc = "phase" /\ Goto(w, "import")
     \/ worker[w].pc = "failJob" /\ Goto(w, "failDoc")
  /\ Fault
  /\ UNCHANGED <<document, job, chunks, graph, request, doomed>>
------------------------------------------------------------------------------
(* Time.                                                                   *)

\* The worker is between its claim and the statement that gives the job up.
Holds(w, d) == worker[w].pc \notin {"idle", "failDoc"} /\ worker[w].doc = d

\* next_run_at comes.
BackoffElapses(d) ==
  /\ job[d].state = "pending"
  /\ job[d].run = "later"
  /\ job' = [job EXCEPT ![d].run = "now"]
  /\ UNCHANGED <<document, chunks, graph, worker, request, doomed, faults>>

LeaseLapses(d) ==
  /\ job[d].state = "running"
  /\ job[d].lease = "live"
  /\ job' = [job EXCEPT ![d].lease = "lapsed"]

\* locked_until passes after the holder is gone.
AbandonedLeaseLapses(d) ==
  /\ LeaseLapses(d)
  /\ \A w \in Workers : ~Holds(w, d)
  /\ UNCHANGED <<document, chunks, graph, worker, request, doomed, faults>>

\* locked_until passes while a worker is still busy with the job: nothing
\* renews the lease, and Import has no deadline.
HeldLeaseLapses(d) ==
  /\ ~LeaseCoversWork
  /\ LeaseLapses(d)
  /\ \E w \in Workers : Holds(w, d)
  /\ Fault
  /\ UNCHANGED <<document, chunks, graph, worker, request, doomed>>
------------------------------------------------------------------------------
(* Retry and DeleteDocument.                                               *)

\* Slip: a job that has finished can be retried too.
RetryableOnceFinished(d) == job[d].state \in {"dead", "done"}

Retryable(d) == job[d].state = "dead"

\* Retry, first statement; without a dead job it reports an error.
RetryJob(q, d) ==
  /\ request[q].pc = "idle"
  /\ Retryable(d)
  /\ job' = [job EXCEPT ![d] = [NoJob EXCEPT !.state = "pending"]]
  /\ request' = [request EXCEPT ![q] = [pc |-> "retryDoc", doc |-> d, ids |-> 0]]
  /\ UNCHANGED <<document, chunks, graph, worker, doomed, faults>>

\* Retry, second statement.
RetryDoc(q) ==
  LET d == request[q].doc IN
  /\ request[q].pc = "retryDoc"
  /\ UpdateDocument(d, [document[d] EXCEPT !.status = "pending", !.phase = "none"])
  /\ request' = [request EXCEPT ![q] = IdleRequest]
  /\ UNCHANGED <<job, chunks, graph, worker, doomed, faults>>

\* DeleteDocument asks for the chunk ids of any id it is given, also of one
\* that is deleted already.
DeleteList(q, d) ==
  /\ request[q].pc = "idle"
  /\ document[d].status # "unused"
  /\ request' = [request EXCEPT ![q] = [pc |-> "graph", doc |-> d,
                                        ids |-> chunks[d]]]
  /\ UNCHANGED <<document, job, chunks, graph, worker, doomed, faults>>

\* RemoveGraphBySource reconciles the chunk ids that were listed.
DeleteGraph(q) ==
  LET d == request[q].doc IN
  /\ request[q].pc = "graph"
  /\ graph' = [graph EXCEPT ![d] = IF request[q].ids = 1 THEN 0 ELSE @]
  /\ request' = [request EXCEPT ![q].pc = "chunks"]
  /\ UNCHANGED <<document, job, chunks, worker, doomed, faults>>

DeleteChunks(q) ==
  LET d == request[q].doc IN
  /\ request[q].pc = "chunks"
  /\ chunks' = [chunks EXCEPT ![d] = 0]
  /\ doomed' = doomed \cup {d}
  /\ request' = [request EXCEPT ![q].pc = "row"]
  /\ UNCHANGED <<document, job, graph, worker, faults>>

\* The id of a deleted row keeps its key: nothing else of the row is left.
Deleted(row) == [status |-> "deleted", phase |-> "none", content |-> "null",
                 chunkCount |-> 0, key |-> row.key]

\* DELETE FROM document; the job row goes with it.
DeleteRow(q) ==
  LET d == request[q].doc IN
  /\ request[q].pc = "row"
  /\ UpdateDocument(d, Deleted(document[d]))
  /\ UpdateJob(d, NoJob)
  /\ request' = [request EXCEPT ![q] = IdleRequest]
  /\ UNCHANGED <<chunks, graph, worker, doomed, faults>>

\* A call fails and the request returns, its context is cancelled because
\* the client went away, or the process dies.
RequestGone(q) ==
  /\ request[q].pc # "idle"
  /\ Fault
  /\ request' = [request EXCEPT ![q] = IdleRequest]
  /\ UNCHANGED <<document, job, chunks, graph, worker, doomed>>
------------------------------------------------------------------------------
WorkerStep(w) ==
  \/ LoadRaw(w) \/ ParseOK(w) \/ ParseError(w) \/ SetPhase(w)
  \/ ImportOK(w) \/ ImportError(w) \/ Commit(w) \/ FailJob(w) \/ FailDoc(w)

WorkerFault(w) == WorkerGone(w) \/ LoadRawError(w) \/ StatementError(w)

RequestStep(q) ==
  \/ RetryDoc(q) \/ DeleteGraph(q) \/ DeleteChunks(q) \/ DeleteRow(q)

Time(d) == BackoffElapses(d) \/ AbandonedLeaseLapses(d) \/ HeldLeaseLapses(d)

Next ==
  \/ \E d \in Docs, k \in Keys : Enqueue(d, k)
  \/ \E w \in Workers, d \in Docs : Claim(w, d)
  \/ \E w \in Workers : WorkerStep(w) \/ WorkerFault(w)
  \/ \E d \in Docs : Time(d)
  \/ \E q \in Requests, d \in Docs : RetryJob(q, d) \/ DeleteList(q, d)
  \/ \E q \in Requests : RequestStep(q) \/ RequestGone(q)

Spec == Init /\ [][Next]_vars

\* Worker.Run never stops polling, and the claim query serves the due jobs
\* oldest next_run_at first, so a claimable job is not passed over for ever.
\* Statements and rag calls return; next_run_at and locked_until come.
Fairness ==
  /\ \A d \in Docs : SF_vars(\E w \in Workers : Claim(w, d))
  /\ \A w \in Workers : WF_vars(WorkerStep(w))
  /\ \A q \in Requests : WF_vars(RequestStep(q))
  /\ \A d \in Docs : WF_vars(BackoffElapses(d)) /\ WF_vars(AbandonedLeaseLapses(d))

FairSpec == Spec /\ Fairness
------------------------------------------------------------------------------
(* What holds whether or not leases are long enough.                       *)

\* No two live documents carry the same idempotency key, whatever uploads,
\* deletes and re-uploads interleave (the UNIQUE index Enqueue relies on).
OneJobPerKey ==
  \A d, e \in Docs :
    Exists(d) /\ Exists(e) /\ document[d].key = document[e].key => d = e

\* A job is locked exactly while it runs, and a running job has a lease that
\* will lapse: the claim query skips a running job without locked_until, so
\* otherwise a crash would strand it for ever.
NoStrandedJob ==
  \A d \in Docs :
    /\ job[d].state = "running" <=> job[d].owner # NoWorker
    /\ job[d].state = "running" <=> job[d].lease # "none"

\* The raw bytes are gone once the document is ready, whichever worker made
\* it ready, and no later statement brings them back.
ReadyDropsRaw ==
  \A d \in Docs : document[d].status = "ready" => document[d].content = "null"

\* A lock passes from one worker to another only after its lease lapsed.
LockTakenOnlyWhenLapsed ==
  [][\A d \in Docs :
       (/\ job[d].owner # NoWorker
        /\ job'[d].owner \notin {NoWorker, job[d].owner})
       => job[d].lease = "lapsed"]_vars

\* Every job that waits or runs is eventually done, dead or deleted: no
\* crash, failed statement or lost lease leaves it behind.
JobSettles ==
  \A d \in Docs :
    job[d].state \in {"pending", "running"}
      ~> job[d].state \in {"done", "dead", "none"}
------------------------------------------------------------------------------
(* What holds if a lease only runs out once its holder is gone.            *)

\* No job is processed by two workers at once.
SingleHolder ==
  \A d \in Docs : \A v, w \in Workers : Holds(v, d) /\ Holds(w, d) => v = w

\* The row of a job that a worker is processing names that worker, its lease
\* is live and its attempts are those the worker decides with: the unfenced
\* UPDATEs of process and fail hit the row they mean.
HolderOwnsJob ==
  \A w \in Workers, d \in Docs :
    Holds(w, d) /\ Exists(d) =>
      /\ job[d].state = "running"
      /\ job[d].owner = w
      /\ job[d].lease = "live"
      /\ job[d].attempts = worker[w].attempts

\* A job that can still be processed, now or by Retry, has its raw bytes.
RawKeptWhileNeeded ==
  \A d \in Docs :
    Exists(d) /\ ~IsUrl(d) /\ job[d].state # "done"
      => document[d].content = "raw"

\* A done job was indexed: its chunks are in the store, and chunk_count says
\* so, unless a delete request has begun to remove them.
DoneMeansIndexed ==
  \A d \in Docs :
    job[d].state = "done" /\ d \notin doomed =>
      chunks[d] = 1 /\ document[d].chunkCount = 1

\* A ready document never has work left in the queue.
ReadyMeansDone ==
  \A d \in Docs : document[d].status = "ready" => job[d].state = "done"

\* A job is tried at most MaxAttempts times, and once more for every fault.
AttemptsBounded == \A d \in Docs : job[d].attempts <= MaxAttempts + faults

\* A job is given up only after MaxAttempts attempts.
DeadOnlyWhenSpent ==
  \A d \in Docs : job[d].state = "dead" => job[d].attempts >= MaxAttempts

\* A done job stays done until its document is deleted.
DoneIsFinal ==
  [][\A d \in Docs : job[d].state = "done" => job'[d].state \in {"done", "none"}]_vars
\* The queue implements the life cycle of JobLifecycle: every statement of a
\* worker or a request is one of its steps or changes no document's stage.
StageOf(state) ==
  CASE state = "pending" -> "queued"
    [] state = "running" -> "working"
    [] state = "done"    -> "indexed"
    [] state = "dead"    -> "givenUp"

Stage ==
  [d \in Docs |-> IF document[d].status = "unused" THEN "absent"
                  ELSE IF document[d].status = "deleted" THEN "removed"
                  ELSE StageOf(job[d].state)]

Lifecycle == INSTANCE JobLifecycle WITH stage <- Stage

ImplementsLifecycle == Lifecycle!Spec
------------------------------------------------------------------------------
(* What comments of the code promise and the code does not keep.           *)

\* Once a delete has finished and no worker is busy with the document,
\* nothing of it is left in the store.
DeleteLeavesNothing ==
  \A d \in Docs :
    /\ document[d].status = "deleted"
    /\ \A q \in Requests : request[q].doc # d
    /\ \A w \in Workers : worker[w].doc # d
    => chunks[d] = 0 /\ graph[d] = 0

\* The status the progress stream waits for is eventually there.
StatusSettles ==
  \A d \in Docs :
    document[d].status \in {"pending", "parsing"}
      ~> document[d].status \in {"ready", "failed", "deleted"}
==============================================================================
