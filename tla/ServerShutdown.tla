--------------------------- MODULE ServerShutdown ----------------------------
(***************************************************************************)
(* How a kbd process ends (cmd/kbd/main.go): main serves until a goroutine *)
(* that waits for SIGTERM calls srv.Shutdown; then main runs its deferred  *)
(* calls: stop() gives the signals their default effect back, cleanup()    *)
(* cancels the workers' context, waits for the workers and closes the pool *)
(* of connections.  Requests are still running meanwhile, and the workers  *)
(* (Worker.Run) may be anywhere in their loop.                             *)
(*                                                                         *)
(* Of a job only its state and the claim are kept: IngestQueue has the     *)
(* rest, and the workers of other processes.  net/http, os/signal, pgxpool *)
(* and Postgres are external.                                              *)
(***************************************************************************)
EXTENDS Integers, FiniteSets

CONSTANTS
  Workers,    \* goroutines running Worker.Run
  Jobs,       \* rows of ingest_job
  Requests,   \* bound: the requests that arrive
  SecondSignal, \* whether the process may get another signal after the first
  MaxFaults   \* bound: statements of workers that fail while the process serves

VARIABLES
  main,       \* where main() is
  drainer,    \* the goroutine that calls srv.Shutdown
  stopped,    \* workerCtx is cancelled
  pool,       \* the pool of connections to Postgres
  request,    \* where the handler of each request is
  worker,     \* where each worker is, and the job it has
  job,        \* the state of each job's row
  faults      \* history: the failures of workers while the process served

vars == <<main, drainer, stopped, pool, request, worker, job, faults>>

NoJob == "none"
ASSUME ShutdownAssumption ==
  /\ NoJob \notin Jobs /\ IsFiniteSet(Jobs) /\ IsFiniteSet(Workers)
  /\ SecondSignal \in BOOLEAN /\ MaxFaults \in Nat
------------------------------------------------------------------------------
\* A row is "lapsed" when it says "running" and locked_until has passed; "done"
\* stands for dead jobs and missing rows too, "pending" also for rows that are
\* not due yet.  Rows that another process has left running are no jobs of
\* this one.  A process that has exited runs nothing.
TypeOK ==
  /\ main \in {"serving", "waiting", "closing", "exited"}
  /\ drainer \in {"waiting", "draining", "drained", "timed_out"}
  /\ stopped \in BOOLEAN
  /\ pool \in {"open", "closing", "closed"}
  /\ request \in [Requests -> {"new", "running", "querying", "answered", "failed",
                               "refused", "cut"}]
  /\ worker \in [Workers -> [pc: {"top", "claiming", "working", "sleeping", "returned"},
                             job: Jobs \cup {NoJob}]]
  /\ job \in [Jobs -> {"pending", "running", "lapsed", "done"}]
  /\ faults \in 0 .. MaxFaults
  /\ \A w \in Workers : worker[w].pc = "working" => worker[w].job # NoJob

Init ==
  /\ main = "serving" /\ drainer = "waiting" /\ stopped = FALSE /\ pool = "open"
  /\ request = [r \in Requests |-> "new"]
  /\ worker = [w \in Workers |-> [pc |-> "top", job |-> NoJob]]
  /\ job \in [Jobs -> {"pending", "done"}] /\ faults = 0

Alive == main # "exited"
Returned(w) == worker[w].pc = "returned"
InFlight(r) == request[r] \in {"running", "querying"}
Goto(w, pc) == worker' = [worker EXCEPT ![w] = [pc |-> pc, job |-> NoJob]]

\* The end of the process: what its handlers did is lost.
Exit ==
  /\ main' = "exited"
  /\ request' = [r \in Requests |-> IF InFlight(r) THEN "cut" ELSE request[r]]
------------------------------------------------------------------------------
(* The goroutine that drains, and main.                                    *)

\* SIGTERM: Shutdown closes the listener, so that ListenAndServe returns at
\* once, and then waits for the handlers.
Signal ==
  /\ main = "serving" /\ drainer = "waiting"
  /\ drainer' = "draining"
  /\ UNCHANGED <<main, stopped, pool, request, worker, job, faults>>

DrainEnds ==
  /\ Alive /\ drainer = "draining"
  /\ \/ (\A r \in Requests : ~InFlight(r)) /\ drainer' = "drained"
     \/ drainer' = "timed_out"
  /\ UNCHANGED <<main, stopped, pool, request, worker, job, faults>>

\* ListenAndServe returns ErrServerClosed, whatever Shutdown still waits for;
\* main runs stop() and, in cleanup(), stopWorkers().
ServeReturns ==
  /\ main = "serving" /\ drainer # "waiting"
  /\ main' = "waiting" /\ stopped' = TRUE
  /\ UNCHANGED <<drainer, pool, request, worker, job, faults>>

\* The address is taken: log.Fatalf exits without the deferred calls.
ServeFails ==
  /\ main = "serving" /\ drainer = "waiting"
  /\ \A r \in Requests : request[r] = "new"
  /\ Exit
  /\ UNCHANGED <<drainer, stopped, pool, worker, job, faults>>

\* Slip: cleanup() closes the pool as soon as the workers are told to stop.
CloseAtOnce ==
  /\ main = "waiting" /\ main' = "closing"
  /\ pool' = "closing"
  /\ UNCHANGED <<drainer, stopped, request, worker, job, faults>>

\* wg.Wait() returns; Close() begins: no connection is given out any more.
WorkersDone ==
  /\ main = "waiting" /\ \A w \in Workers : Returned(w)
  /\ main' = "closing" /\ pool' = "closing"
  /\ UNCHANGED <<drainer, stopped, request, worker, job, faults>>

\* Close() returns when every connection is back.
PoolCloses ==
  /\ main = "closing" /\ pool = "closing"
  /\ \A r \in Requests : request[r] # "querying"
  /\ pool' = "closed"
  /\ UNCHANGED <<main, drainer, stopped, request, worker, job, faults>>

\* main returns.
MainReturns ==
  /\ main = "closing" /\ pool = "closed"
  /\ Exit
  /\ UNCHANGED <<drainer, stopped, pool, worker, job, faults>>

\* A second signal, after stop(): it ends the process.
Kill ==
  /\ SecondSignal /\ main \in {"waiting", "closing"}
  /\ Exit
  /\ UNCHANGED <<drainer, stopped, pool, worker, job, faults>>
------------------------------------------------------------------------------
(* Handlers: a connection is taken for each statement.                     *)

Arrive(r) ==
  /\ Alive /\ request[r] = "new"
  /\ request' = [request EXCEPT ![r] = IF drainer = "waiting" THEN "running" ELSE "refused"]
  /\ UNCHANGED <<main, drainer, stopped, pool, worker, job, faults>>

Acquire(r) ==
  /\ Alive /\ request[r] = "running"
  /\ request' = [request EXCEPT ![r] = IF pool = "open" THEN "querying" ELSE "failed"]
  /\ UNCHANGED <<main, drainer, stopped, pool, worker, job, faults>>

Release(r) ==
  /\ Alive /\ request[r] = "querying"
  /\ request' = [request EXCEPT ![r] = "running"]
  /\ UNCHANGED <<main, drainer, stopped, pool, worker, job, faults>>

Answer(r) ==
  /\ Alive /\ request[r] = "running"
  /\ request' = [request EXCEPT ![r] = "answered"]
  /\ UNCHANGED <<main, drainer, stopped, pool, worker, job, faults>>
------------------------------------------------------------------------------
(* Worker.Run.                                                             *)

\* Slip: the loop looks at its context only while it sleeps.
TopUnchecked(w) ==
  /\ Alive /\ worker[w].pc = "top"
  /\ Goto(w, "claiming")
  /\ UNCHANGED <<main, drainer, stopped, pool, request, job, faults>>

\* if ctx.Err() != nil { return }
Top(w) ==
  /\ Alive /\ worker[w].pc = "top"
  /\ Goto(w, IF stopped THEN "returned" ELSE "claiming")
  /\ UNCHANGED <<main, drainer, stopped, pool, request, job, faults>>

\* A claim is one transaction: the row is due, or its lease has lapsed, even
\* if another worker of this process is still at work on it.
Claim(w, j) ==
  /\ Alive /\ worker[w].pc = "claiming" /\ ~stopped
  /\ job[j] \in {"pending", "lapsed"}
  /\ job' = [job EXCEPT ![j] = "running"]
  /\ worker' = [worker EXCEPT ![w] = [pc |-> "working", job |-> j]]
  /\ UNCHANGED <<main, drainer, stopped, pool, request, faults>>

\* No row is due, or those that are are locked by other transactions.
NothingDue(w) ==
  /\ Alive /\ worker[w].pc = "claiming" /\ ~stopped
  /\ Goto(w, "sleeping")
  /\ UNCHANGED <<main, drainer, stopped, pool, request, job, faults>>

\* A statement of a worker fails: because its context is cancelled, or of
\* itself, which is counted and bounded.
Fault ==
  IF stopped THEN UNCHANGED faults ELSE faults < MaxFaults /\ faults' = faults + 1

\* A statement of the claim fails, and the worker goes to sleep; the commit
\* may have reached Postgres all the same.
ClaimFails(w) ==
  /\ Alive /\ worker[w].pc = "claiming" /\ Fault
  /\ \/ UNCHANGED job
     \/ \E j \in Jobs : job[j] \in {"pending", "lapsed"} /\ job' = [job EXCEPT ![j] = "running"]
  /\ Goto(w, "sleeping")
  /\ UNCHANGED <<main, drainer, stopped, pool, request>>

\* The poll interval has passed, or the context is cancelled; if both, either.
Wake(w) ==
  /\ Alive /\ worker[w].pc = "sleeping"
  /\ \/ Goto(w, "top")
     \/ stopped /\ Goto(w, "returned")
  /\ UNCHANGED <<main, drainer, stopped, pool, request, job, faults>>

\* Slip: an attempt that failed is not written into the row.
ProcessUnrecorded(w) ==
  /\ Alive /\ worker[w].pc = "working" /\ ~stopped
  /\ job' \in {job, [job EXCEPT ![worker[w].job] = "done"]}
  /\ Goto(w, "top")
  /\ UNCHANGED <<main, drainer, stopped, pool, request, faults>>

\* process returns: the job is done or dead, or failed and due again later.
\* The rows are written by id, whoever holds the job by now.
Process(w) ==
  /\ Alive /\ worker[w].pc = "working" /\ ~stopped
  /\ \E s \in {"done", "pending"} : job' = [job EXCEPT ![worker[w].job] = s]
  /\ Goto(w, "top")
  /\ UNCHANGED <<main, drainer, stopped, pool, request, faults>>

\* process returns though its success transaction or fail's UPDATE of the job
\* failed: the error is only logged, and the row stays "running" unless the
\* statement got through.  With a cancelled context every statement fails.
ProcessFails(w) ==
  /\ Alive /\ worker[w].pc = "working" /\ Fault
  /\ \/ UNCHANGED job
     \/ \E s \in {"done", "pending"} : job' = [job EXCEPT ![worker[w].job] = s]
  /\ Goto(w, "top")
  /\ UNCHANGED <<main, drainer, stopped, pool, request>>

\* locked_until passes, whether or not a worker is still at work on the job.
LeaseLapses(j) ==
  /\ job[j] = "running"
  /\ job' = [job EXCEPT ![j] = "lapsed"]
  /\ UNCHANGED <<main, drainer, stopped, pool, request, worker, faults>>

\* A request, of this process or of another: Retry makes a job due again, an
\* upload adds one, and the deletion of a document takes its job along.
Rewritten(j) ==
  /\ \/ job[j] = "done" /\ job' = [job EXCEPT ![j] = "pending"]
     \/ job[j] # "done" /\ job' = [job EXCEPT ![j] = "done"]
  /\ UNCHANGED <<main, drainer, stopped, pool, request, worker, faults>>
------------------------------------------------------------------------------
WorkerStep(w) ==
  \/ Top(w) \/ NothingDue(w) \/ ClaimFails(w)
  \/ Wake(w) \/ Process(w) \/ ProcessFails(w)
  \/ \E j \in Jobs : Claim(w, j)

MainStep == ServeReturns \/ WorkersDone \/ PoolCloses \/ MainReturns

HandlerStep(r) == Acquire(r) \/ Release(r) \/ Answer(r)

\* Nothing is left to do after the end.
Over == main = "exited" /\ UNCHANGED vars

Next ==
  \/ Signal \/ DrainEnds \/ MainStep \/ ServeFails \/ Kill
  \/ \E r \in Requests : Arrive(r) \/ HandlerStep(r)
  \/ \E w \in Workers : WorkerStep(w)
  \/ \E j \in Jobs : LeaseLapses(j) \/ Rewritten(j)
  \/ Over

\* Goroutines that can run do, statements return (and their connection with
\* them), and Shutdown ends.  Nothing makes a signal or a request come, nor a
\* handler that computes end.
Fairness ==
  /\ WF_vars(MainStep) /\ WF_vars(DrainEnds)
  /\ \A r \in Requests : WF_vars(Release(r))
  /\ \A w \in Workers : WF_vars(WorkerStep(w))

Spec == Init /\ [][Next]_vars /\ Fairness
------------------------------------------------------------------------------
\* The pool is closed only when nothing uses it: the workers have returned
\* and no handler has a connection.  (The order of the calls in cleanup.)
PoolOutlivesUsers ==
  /\ pool # "open" => \A w \in Workers : Returned(w)
  /\ pool = "closed" => \A r \in Requests : request[r] # "querying"

\* The jobs whose rows say "running" though no worker has them: each has to
\* wait until its lease has lapsed.
Abandoned ==
  {j \in Jobs : job[j] \in {"running", "lapsed"} /\ \A w \in Workers : worker[w].job # j}

\* However leases lapse and jobs change hands, an abandoned job is owed to a
\* failure of its own: while the process serves there are no more of them than
\* statements that failed, and a stop adds at most one for each worker that has
\* let go, since the loop of Run does not come back for another.
EachAbandonsOne ==
  Cardinality(Abandoned)
    <= faults + IF stopped THEN Cardinality({w \in Workers : worker[w].job = NoJob}) ELSE 0

\* A signal ends the process, with workers and handlers anywhere, and even if
\* a handler never answers.
SignalEndsProcess == drainer = "draining" ~> main = "exited"

\* "drain in flight requests before exit" (main.go:50): no handler is cut
\* while Shutdown still waits for it.
RequestsDrained == \A r \in Requests : request[r] = "cut" => drainer # "draining"
==============================================================================
