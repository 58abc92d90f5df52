------------------------------ MODULE EvalRuns -------------------------------
(***************************************************************************)
(* Evaluation runs and their history: evalRunHandler, Runner.RunEval and   *)
(* the Store of eval_run rows.  A drift run is compared with the baseline  *)
(* that an earlier one left in metrics_json.                               *)
(*                                                                         *)
(* RunIds are random: a number stands for an id's place in the order of ids.  *)
(* Of a run's metrics one is kept, which is NaN if nothing was scored.     *)
(* The evaluators and Postgres are external; they may fail.                *)
(***************************************************************************)
EXTENDS Integers, FiniteSets

CONSTANTS
  RunIds,     \* the ids newID() may draw
  Kbs,
  Datasets,   \* contents of the dataset field of requests
  Scores,     \* bound: values of the metric
  Slots,      \* bound: the requests that are served at a time
  NaN, None   \* no score; no row, kb or dataset

ASSUME EvalAssumption ==
  /\ RunIds \subseteq Int /\ Scores \subseteq Nat /\ NaN \notin Scores
  /\ None \notin Kbs \cup RunIds

VARIABLES
  run,    \* eval_run
  next,   \* history: the number of rows inserted so far, and one
  slot    \* the requests

evalVars == <<run, next, slot>>
------------------------------------------------------------------------------
\* "other" stands for retrieval, triad and global, which are stored alike.
Kinds == {"other", "drift"}

\* LoadDataset is called with this name, whatever the request names.
DatasetName == "inline"

NoRow == [kb |-> None, kind |-> "other", name |-> DatasetName, metric |-> 0,
          data |-> None, base |-> None, prev |-> 0, born |-> 0, began |-> 0]

Idle == [pc |-> "idle", kb |-> None, kind |-> "other", data |-> None,
         base |-> None, prev |-> 0, began |-> 0]

\* A row: its columns, and as history the dataset it is about, the baseline
\* it was compared with and when it was inserted and begun.  Stored metrics
\* are numbers.
EvalOK ==
  /\ run \in [RunIds -> [kb: Kbs \cup {None}, kind: Kinds, name: {DatasetName},
                      metric: Scores \cup {0}, data: Datasets \cup {None},
                      base: RunIds \cup {None}, prev: Scores \cup {0, NaN}, born: Nat, began: Nat]]
  /\ next \in Nat
  /\ slot \in [Slots -> [pc: {"idle", "baseline", "bench"}, kb: Kbs \cup {None}, kind: Kinds,
                         data: Datasets \cup {None}, base: RunIds \cup {None},
                         prev: Scores \cup {0, NaN}, began: Nat]]

EvalInit ==
  /\ run = [i \in RunIds |-> NoRow]
  /\ next = 1
  /\ slot = [s \in Slots |-> Idle]

Stored == {i \in RunIds : run[i].kb # None}
Put(s, r) == slot' = [slot EXCEPT ![s] = r]
------------------------------------------------------------------------------
\* POST /eval/run: a dataset that is not empty, of a kb that exists.
Request(s, k, kind, d) ==
  /\ slot[s].pc = "idle"
  /\ Put(s, [Idle EXCEPT !.pc = IF kind = "drift" THEN "baseline" ELSE "bench",
                         !.kb = k, !.kind = kind, !.data = d, !.began = next])
  /\ UNCHANGED <<run, next>>

\* Slip: runs of any kind serve as baselines.
OfAnyKind(k) == {i \in Stored : run[i].kb = k /\ run[i].name = DatasetName}

\* The rows LatestBenchmark chooses from.
Candidates(k) ==
  {i \in Stored : run[i].kb = k /\ run[i].kind = "drift" /\ run[i].name = DatasetName}

\* Slip: a baseline that cannot be read counts as none.
BaselineOptional(s) ==
  LET C == Candidates(slot[s].kb) IN
  /\ slot[s].pc = "baseline"
  /\ \/ Put(s, [slot[s] EXCEPT !.pc = "bench", !.prev = 0])
     \/ \E i \in C :
          /\ \A j \in C : j <= i
          /\ Put(s, [slot[s] EXCEPT !.pc = "bench", !.base = i, !.prev = run[i].metric])
  /\ UNCHANGED <<run, next>>

\* LatestBenchmark takes the greatest id; without a row the baseline is the
\* zero value.
Baseline(s) ==
  LET C == Candidates(slot[s].kb) IN
  /\ slot[s].pc = "baseline"
  /\ \/ C = {} /\ Put(s, [slot[s] EXCEPT !.pc = "bench", !.prev = 0])
     \/ \E i \in C :
          /\ \A j \in C : j <= i
          /\ Put(s, [slot[s] EXCEPT !.pc = "bench", !.base = i, !.prev = run[i].metric])
  /\ UNCHANGED <<run, next>>

\* Slip: the metric is stored as it is.
Unscrubbed(x) == x

\* marshalBaseline: NaN does not survive JSON.
Scrub(x) == IF x = NaN THEN 0 ELSE x

\* The evaluator ends, and Insert stores its metrics under a new id.  What is
\* not a drift run fails if it scored nothing: NaN cannot be marshalled.
Finish(s) ==
  /\ slot[s].pc = "bench"
  /\ \E i \in RunIds \ Stored, x \in IF slot[s].kind = "drift" THEN Scores \cup {NaN} ELSE Scores :
       run' = [run EXCEPT ![i] =
                 [kb |-> slot[s].kb, kind |-> slot[s].kind, name |-> DatasetName,
                  metric |-> Scrub(x), data |-> slot[s].data, base |-> slot[s].base,
                  prev |-> slot[s].prev, born |-> next, began |-> slot[s].began]]
  /\ next' = next + 1
  /\ Put(s, Idle)

\* The baseline cannot be read, the evaluator or Insert fails.
Fail(s) ==
  /\ slot[s].pc # "idle"
  /\ Put(s, Idle)
  /\ UNCHANGED <<run, next>>

EvalNext ==
  \E s \in Slots :
    \/ \E k \in Kbs, kind \in Kinds, d \in Datasets : Request(s, k, kind, d)
    \/ Baseline(s) \/ Finish(s) \/ Fail(s)

EvalSpec == EvalInit /\ [][EvalNext]_evalVars
------------------------------------------------------------------------------
Drifts == {i \in Stored : run[i].kind = "drift"}

\* A drift run is compared with a drift run of its own kb, with what that run
\* measured, and only a drift run is compared; the baseline was stored before.
ComparedWithDrift ==
  \A i \in Stored : run[i].base # None =>
    LET b == run[run[i].base] IN
    /\ run[i].kind = "drift" /\ run[i].base \in Drifts
    /\ b.kb = run[i].kb /\ b.metric = run[i].prev /\ b.born < run[i].born

\* A drift run goes without a baseline only if the kb had none when it began,
\* however many runs are under way.
NoBaselineMissed ==
  \A i \in Drifts : run[i].base = None =>
    \A j \in Drifts : run[j].kb = run[i].kb => run[j].born >= run[i].began

\* "the most recent drift-kind run" (store.go:105): nothing newer was there
\* when the run began.
BaselineIsLatest ==
  \A i \in Drifts : run[i].base # None =>
    \A j \in Drifts : run[j].kb = run[i].kb /\ run[j].born < run[i].began
                        => run[j].born <= run[run[i].base].born

\* "for kb+dataset" (store.go:105-106): the baseline is of the same dataset.
BaselineOfDataset == \A i \in Drifts : run[i].base # None => run[run[i].base].data = run[i].data
==============================================================================
