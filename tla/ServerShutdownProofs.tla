------------------------- MODULE ServerShutdownProofs -------------------------
(***************************************************************************)
(* Safety of ServerShutdown for any number of workers, jobs and requests.  *)
(* A worker has a job exactly while it works on it, and no worker leaves   *)
(* "returned": from these two facts each step is local to one actor.  What *)
(* is abandoned is counted by the failures, and after the stop also by the *)
(* workers that are past a claim.                                          *)
(***************************************************************************)
EXTENDS ServerShutdown, FiniteSetTheorems, TLAPS

\* A worker has a job exactly while it works.
BusyInv == \A w \in Workers : worker[w].pc = "working" <=> worker[w].job # NoJob

ShutdownInv == TypeOK /\ BusyInv /\ PoolOutlivesUsers

\* A worker that lets go of what it had is typed.
LEMMA GotoTyped ==
  ASSUME TypeOK, NEW w \in Workers,
         NEW pc \in {"top", "claiming", "sleeping", "returned"}, Goto(w, pc)
  PROVE  /\ worker' \in [Workers -> [pc: {"top", "claiming", "working", "sleeping", "returned"},
                                     job: Jobs \cup {NoJob}]]
         /\ \A v \in Workers : worker'[v].pc = "working" => worker'[v].job # NoJob
         /\ worker'[w] = [pc |-> pc, job |-> NoJob]
         /\ \A v \in Workers \ {w} : worker'[v] = worker[v]
BY DEF Goto, TypeOK

\* The initial states satisfy the invariant.
LEMMA InitInv == Init => ShutdownInv
<1> SUFFICES ASSUME Init PROVE ShutdownInv
  OBVIOUS
<1>1. TypeOK
  <2>1. faults \in 0 .. MaxFaults
    BY ShutdownAssumption DEF Init
  <2>2. job \in [Jobs -> {"pending", "running", "lapsed", "done"}]
    BY DEF Init
  <2> QED
    BY <2>1, <2>2 DEF Init, TypeOK
<1>2. BusyInv /\ PoolOutlivesUsers
  BY DEF Init, BusyInv, PoolOutlivesUsers
<1> QED
  BY <1>1, <1>2 DEF ShutdownInv

\* A failure is counted within its bound.
LEMMA FaultTyped ==
  ASSUME TypeOK, Fault
  PROVE  /\ faults' \in 0 .. MaxFaults
         /\ stopped => faults' = faults
         /\ ~stopped => faults' = faults + 1
BY ShutdownAssumption DEF Fault, TypeOK

\* A step of a worker keeps the invariant: it lets go of its job or takes one,
\* and no worker has returned while it can still take a step.
LEMMA WorkerInv ==
  ASSUME ShutdownInv, NEW w \in Workers, WorkerStep(w)
  PROVE  ShutdownInv'
<1> USE DEF ShutdownInv
<1>0. UNCHANGED <<main, drainer, stopped, pool, request>> /\ ~Returned(w)
  BY DEF WorkerStep, Top, NothingDue, ClaimFails, Wake, Process, ProcessFails, Claim, Returned
<1>p. pool = "open"
  BY <1>0 DEF PoolOutlivesUsers, TypeOK
<1>q. PoolOutlivesUsers'
  BY <1>0, <1>p DEF PoolOutlivesUsers
<1>f. faults' \in 0 .. MaxFaults
  <2>1. CASE Fault
    BY <2>1, FaultTyped
  <2>2. CASE UNCHANGED faults
    BY <2>2 DEF TypeOK
  <2> QED
    BY <2>1, <2>2
    DEF WorkerStep, Top, NothingDue, ClaimFails, Wake, Process, ProcessFails, Claim
<1>j. job' \in [Jobs -> {"pending", "running", "lapsed", "done"}]
  BY DEF TypeOK, WorkerStep, Top, NothingDue, ClaimFails, Wake, Process, ProcessFails, Claim
<1>1. CASE \E pc \in {"top", "claiming", "sleeping", "returned"} : Goto(w, pc)
  <2> PICK pc \in {"top", "claiming", "sleeping", "returned"} : Goto(w, pc)
    BY <1>1
  <2>1. /\ worker' \in [Workers -> [pc: {"top", "claiming", "working", "sleeping", "returned"},
                                    job: Jobs \cup {NoJob}]]
        /\ \A v \in Workers : worker'[v].pc = "working" => worker'[v].job # NoJob
        /\ worker'[w] = [pc |-> pc, job |-> NoJob]
        /\ \A v \in Workers \ {w} : worker'[v] = worker[v]
    BY GotoTyped
  <2>2. TypeOK'
    BY <1>0, <1>f, <1>j, <2>1 DEF TypeOK
  <2>3. BusyInv'
    BY <2>1 DEF BusyInv
  <2> QED
    BY <1>q, <2>2, <2>3
<1>2. ASSUME NEW j \in Jobs, Claim(w, j) PROVE ShutdownInv'
  <2>1. /\ worker' \in [Workers -> [pc: {"top", "claiming", "working", "sleeping", "returned"},
                                    job: Jobs \cup {NoJob}]]
        /\ worker'[w] = [pc |-> "working", job |-> j]
        /\ \A v \in Workers \ {w} : worker'[v] = worker[v]
    BY <1>2 DEF Claim, TypeOK
  <2>2. j # NoJob
    BY ShutdownAssumption
  <2>3. TypeOK'
    BY <1>0, <1>f, <1>j, <2>1, <2>2 DEF TypeOK
  <2>4. BusyInv'
    BY <2>1, <2>2 DEF BusyInv
  <2> QED
    BY <1>q, <2>3, <2>4
<1> QED
  BY <1>1, <1>2
  DEF WorkerStep, Top, NothingDue, ClaimFails, Wake, Process, ProcessFails

\* A step of main, of the drain or of a handler leaves workers and jobs alone,
\* and takes the pool down in order.
LEMMA OtherInv ==
  ASSUME ShutdownInv,
         \/ Signal \/ DrainEnds \/ MainStep \/ ServeFails \/ Kill
         \/ \E r \in Requests : Arrive(r) \/ HandlerStep(r)
  PROVE  ShutdownInv'
<1> USE DEF ShutdownInv
<1>1. UNCHANGED <<worker, job, faults>> /\ (stopped => stopped')
  BY DEF Signal, DrainEnds, MainStep, ServeReturns, WorkersDone, PoolCloses, MainReturns,
         ServeFails, Kill, Exit, Arrive, HandlerStep, Acquire, Release, Answer
<1>2. BusyInv'
  BY <1>1 DEF BusyInv
<1>3. TypeOK' /\ PoolOutlivesUsers'
  <2>1. CASE Signal \/ DrainEnds \/ ServeReturns
    BY <1>1, <2>1 DEF Signal, DrainEnds, ServeReturns, TypeOK, PoolOutlivesUsers, Returned
  <2>2. CASE WorkersDone
    BY <1>1, <2>2 DEF WorkersDone, TypeOK, PoolOutlivesUsers, Returned
  <2>3. CASE PoolCloses
    BY <1>1, <2>3 DEF PoolCloses, TypeOK, PoolOutlivesUsers, Returned
  <2>4. CASE MainReturns \/ ServeFails \/ Kill
    BY <1>1, <2>4 DEF MainReturns, ServeFails, Kill, Exit, TypeOK, PoolOutlivesUsers, Returned
  <2>5. ASSUME NEW r \in Requests, Arrive(r) \/ HandlerStep(r)
        PROVE  TypeOK' /\ PoolOutlivesUsers'
    BY <1>1, <2>5
    DEF Arrive, HandlerStep, Acquire, Release, Answer, TypeOK, PoolOutlivesUsers, Returned
  <2> QED
    BY <2>1, <2>2, <2>3, <2>4, <2>5 DEF MainStep
<1> QED
  BY <1>2, <1>3

\* A step of a row alone leaves the process as it is.
LEMMA RowInv ==
  ASSUME ShutdownInv, NEW j \in Jobs, LeaseLapses(j) \/ Rewritten(j)
  PROVE  ShutdownInv'
<1> USE DEF ShutdownInv
<1>1. /\ UNCHANGED <<main, drainer, stopped, pool, request, worker, faults>>
      /\ job' \in [Jobs -> {"pending", "running", "lapsed", "done"}]
  BY DEF LeaseLapses, Rewritten, TypeOK
<1>2. TypeOK'
  BY <1>1 DEF TypeOK
<1>3. BusyInv' /\ PoolOutlivesUsers'
  BY <1>1 DEF BusyInv, PoolOutlivesUsers, Returned
<1> QED
  BY <1>2, <1>3

\* The invariant is kept by every step.
LEMMA StepInv == ShutdownInv /\ [Next]_vars => ShutdownInv'
<1> SUFFICES ASSUME ShutdownInv, [Next]_vars PROVE ShutdownInv'
  OBVIOUS
<1>1. CASE UNCHANGED vars
  BY <1>1 DEF vars, ShutdownInv, TypeOK, BusyInv, PoolOutlivesUsers, Returned
<1>2. CASE Next
  BY <1>1, <1>2, WorkerInv, OtherInv, RowInv DEF Next, Over
<1> QED
  BY <1>1, <1>2

\* The invariant holds in every reachable state.
LEMMA Invariance == Spec => []ShutdownInv
  BY InitInv, StepInv, PTL DEF Spec

------------------------------------------------------------------------------
(* What is left to its lease.                                              *)

\* The workers that may have left a job to the stop: one that is still in its
\* claim has not, and none begins another claim.
Past == {w \in Workers : worker[w].job = NoJob /\ worker[w].pc # "claiming"}

CountInv == Cardinality(Abandoned) <= faults + IF stopped THEN Cardinality(Past) ELSE 0

\* The sets that are counted are finite.
LEMMA Countable ==
  /\ IsFiniteSet(Abandoned) /\ Cardinality(Abandoned) \in Nat
  /\ IsFiniteSet(Past) /\ Cardinality(Past) \in Nat
<1>1. Abandoned \subseteq Jobs /\ Past \subseteq Workers
  BY DEF Abandoned, Past
<1>2. IsFiniteSet(Abandoned) /\ IsFiniteSet(Past)
  BY <1>1, ShutdownAssumption, FS_Subset
<1> QED
  BY <1>2, FS_CardinalityType

\* One more job makes a set larger by one at most.
LEMMA OneMore ==
  ASSUME NEW A, IsFiniteSet(A), NEW C, NEW j, C \subseteq A \cup {j}
  PROVE  Cardinality(C) \in Nat /\ Cardinality(C) <= Cardinality(A) + 1
<1>1. IsFiniteSet(A \cup {j}) /\ Cardinality(A \cup {j}) <= Cardinality(A) + 1
  <2>1. /\ IsFiniteSet(A \cup {j})
        /\ Cardinality(A \cup {j}) = IF j \in A THEN Cardinality(A) ELSE Cardinality(A) + 1
    BY FS_AddElement
  <2> QED
    BY <2>1, FS_CardinalityType
<1>2. IsFiniteSet(C) /\ Cardinality(C) <= Cardinality(A \cup {j})
  BY <1>1, FS_Subset
<1>3. /\ Cardinality(A) \in Nat /\ Cardinality(C) \in Nat
      /\ Cardinality(A \cup {j}) \in Nat
  BY <1>1, <1>2, FS_CardinalityType
<1> QED
  BY <1>1, <1>2, <1>3

\* A step that abandons no job keeps the bound, ...
LEMMA NoMore ==
  ASSUME ShutdownInv, CountInv, Abandoned' \subseteq Abandoned,
         faults' = faults, Past \subseteq Past', IsFiniteSet(Past'), stopped => stopped'
  PROVE  CountInv'
<1>1. Cardinality(Abandoned') \in Nat /\ Cardinality(Abandoned') <= Cardinality(Abandoned)
  BY Countable, FS_Subset, FS_CardinalityType
<1>2. Cardinality(Past') \in Nat /\ Cardinality(Past) <= Cardinality(Past')
  BY FS_Subset, FS_CardinalityType
<1>3. faults \in Nat
  BY DEF ShutdownInv, TypeOK
<1> QED
  BY <1>1, <1>2, <1>3, Countable DEF CountInv

\* ... and so does one that abandons a job by a failure, or by the stop.
LEMMA OneLeft ==
  ASSUME ShutdownInv, CountInv, NEW w \in Workers, NEW j, Fault, UNCHANGED stopped,
         Abandoned' \subseteq Abandoned \cup {j}, w \notin Past, Past' = Past \cup {w}
  PROVE  CountInv'
<1>1. Cardinality(Abandoned') \in Nat /\ Cardinality(Abandoned') <= Cardinality(Abandoned) + 1
  BY Countable, OneMore
<1>2. Cardinality(Past') = Cardinality(Past) + 1
  BY Countable, FS_AddElement
<1>3. faults \in Nat /\ (stopped => faults' = faults) /\ (~stopped => faults' = faults + 1)
  BY FaultTyped DEF ShutdownInv, TypeOK
<1> QED
  BY <1>1, <1>2, <1>3, Countable DEF CountInv

\* A step of a worker abandons a job only by failing: the one it had or claimed,
\* and then the worker is past its claim.
LEMMA WorkerCount ==
  ASSUME ShutdownInv, CountInv, NEW w \in Workers, WorkerStep(w)
  PROVE  CountInv'
<1> USE DEF ShutdownInv
<1>0. UNCHANGED stopped
  BY DEF WorkerStep, Top, NothingDue, ClaimFails, Wake, Process, ProcessFails, Claim
<1>g. ASSUME NEW pc \in {"top", "claiming", "sleeping", "returned"}, Goto(w, pc)
      PROVE  /\ worker'[w] = [pc |-> pc, job |-> NoJob]
             /\ \A v \in Workers \ {w} : worker'[v] = worker[v]
  BY <1>g, GotoTyped
<1>s. Past' \subseteq Workers /\ IsFiniteSet(Past')
  <2>1. Past' \subseteq Workers
    BY DEF Past
  <2> QED
    BY <2>1, ShutdownAssumption, FS_Subset
<1>1. CASE Wake(w) \/ (Top(w) /\ stopped)
  <2>1. PICK pc \in {"top", "returned"} : Goto(w, pc) /\ UNCHANGED <<job, faults>>
    BY <1>1 DEF Wake, Top
  <2>2. worker[w].job = NoJob /\ worker[w].pc \in {"sleeping", "top"}
    BY <1>1 DEF Wake, Top, BusyInv
  <2>3. Past' = Past
    BY <1>g, <2>1, <2>2 DEF Past
  <2>4. Abandoned' = Abandoned
    BY <1>g, <2>1, <2>2 DEF Abandoned
  <2> QED
    BY <1>0, <1>s, <2>1, <2>3, <2>4, NoMore
<1>2. CASE ~stopped /\ Top(w)
  <2>1. Goto(w, "claiming") /\ UNCHANGED <<job, faults>> /\ worker[w].job = NoJob
    BY <1>2 DEF Top, BusyInv
  <2>2. Abandoned' = Abandoned
    BY <1>g, <2>1 DEF Abandoned
  <2> QED
    BY <1>0, <1>2, <2>1, <2>2 DEF CountInv
<1>3. CASE NothingDue(w)
  <2>1. Goto(w, "sleeping") /\ UNCHANGED <<job, faults>> /\ worker[w].job = NoJob /\ ~stopped
    BY <1>3 DEF NothingDue, BusyInv
  <2>2. Abandoned' = Abandoned
    BY <1>g, <2>1 DEF Abandoned
  <2> QED
    BY <1>0, <2>1, <2>2 DEF CountInv
<1>4. CASE ClaimFails(w)
  <2>1. PICK j : \A i \in Jobs : i # j => job'[i] = job[i]
    BY <1>4 DEF ClaimFails, TypeOK
  <2>2. /\ worker'[w] = [pc |-> "sleeping", job |-> NoJob]
        /\ \A v \in Workers \ {w} : worker'[v] = worker[v]
    BY <1>4, <1>g DEF ClaimFails
  <2>3. worker[w].job = NoJob /\ worker[w].pc = "claiming"
    BY <1>4 DEF ClaimFails, BusyInv
  <2>4. w \notin Past /\ Past' = Past \cup {w}
    BY <2>2, <2>3 DEF Past
  <2>5. Abandoned' \subseteq Abandoned \cup {j}
    BY <2>1, <2>2, <2>3 DEF Abandoned
  <2> QED
    BY <1>0, <1>4, <2>4, <2>5, OneLeft DEF ClaimFails
<1>5. CASE ProcessFails(w)
  <2>1. \A i \in Jobs : i # worker[w].job => job'[i] = job[i]
    BY <1>5 DEF ProcessFails, TypeOK
  <2>2. /\ worker'[w] = [pc |-> "top", job |-> NoJob]
        /\ \A v \in Workers \ {w} : worker'[v] = worker[v]
    BY <1>5, <1>g DEF ProcessFails
  <2>3. worker[w].job # NoJob
    BY <1>5 DEF ProcessFails, BusyInv
  <2>4. w \notin Past /\ Past' = Past \cup {w}
    BY <2>2, <2>3 DEF Past
  <2>5. Abandoned' \subseteq Abandoned \cup {worker[w].job}
    BY <2>1, <2>2 DEF Abandoned
  <2> QED
    BY <1>0, <1>5, <2>4, <2>5, OneLeft DEF ProcessFails
<1>6. CASE Process(w)
  <2>1. /\ worker[w].job \in Jobs /\ ~stopped /\ UNCHANGED faults
        /\ job'[worker[w].job] \in {"done", "pending"}
        /\ \A i \in Jobs : i # worker[w].job => job'[i] = job[i]
    BY <1>6 DEF Process, TypeOK
  <2>2. \A v \in Workers \ {w} : worker'[v] = worker[v]
    BY <1>6, <1>g DEF Process
  <2>3. Abandoned' \subseteq Abandoned
    BY <2>1, <2>2 DEF Abandoned
  <2>4. Cardinality(Abandoned') \in Nat /\ Cardinality(Abandoned') <= Cardinality(Abandoned)
    BY <2>3, Countable, FS_Subset, FS_CardinalityType
  <2> QED
    BY <1>0, <2>1, <2>4, Countable DEF CountInv, TypeOK
<1>7. ASSUME NEW j \in Jobs, Claim(w, j) PROVE CountInv'
  <2>1. /\ worker'[w] = [pc |-> "working", job |-> j] /\ ~stopped /\ UNCHANGED faults
        /\ \A v \in Workers \ {w} : worker'[v] = worker[v]
        /\ \A i \in Jobs : i # j => job'[i] = job[i]
    BY <1>7 DEF Claim, TypeOK
  <2>2. worker[w].job = NoJob
    BY <1>7 DEF Claim, BusyInv
  <2>3. Abandoned' \subseteq Abandoned
    BY <2>1, <2>2, ShutdownAssumption DEF Abandoned
  <2>4. Cardinality(Abandoned') \in Nat /\ Cardinality(Abandoned') <= Cardinality(Abandoned)
    BY <2>3, Countable, FS_Subset, FS_CardinalityType
  <2> QED
    BY <1>0, <2>1, <2>4, Countable DEF CountInv, TypeOK
<1>8. CASE \E j \in Jobs : Claim(w, j)
  BY <1>7, <1>8
<1>9. CASE Top(w)
  BY <1>1, <1>2, <1>9
<1> QED
  BY <1>1, <1>3, <1>4, <1>5, <1>6, <1>8, <1>9 DEF WorkerStep

\* The bound is kept by every step.
LEMMA StepCount == ShutdownInv /\ CountInv /\ [Next]_vars => CountInv'
<1> SUFFICES ASSUME ShutdownInv, CountInv, [Next]_vars PROVE CountInv'
  OBVIOUS
<1>1. CASE UNCHANGED worker /\ UNCHANGED faults /\ Abandoned' \subseteq Abandoned
           /\ (stopped => stopped')
  <2>1. Past' = Past
    BY <1>1 DEF Past
  <2> QED
    BY <1>1, <2>1, Countable, NoMore
<1>2. ASSUME NEW w \in Workers, WorkerStep(w) PROVE CountInv'
  BY <1>2, WorkerCount
<1>3. ASSUME NEW j \in Jobs, LeaseLapses(j) \/ Rewritten(j) PROVE CountInv'
  <2>1. UNCHANGED <<worker, faults, stopped>>
    BY <1>3 DEF LeaseLapses, Rewritten
  <2>2. \A i \in Jobs : job'[i] \in {"running", "lapsed"} => job[i] \in {"running", "lapsed"}
    BY <1>3 DEF LeaseLapses, Rewritten, ShutdownInv, TypeOK
  <2>3. Abandoned' \subseteq Abandoned
    BY <2>1, <2>2 DEF Abandoned
  <2> QED
    BY <1>1, <2>1, <2>3
<1>4. CASE \/ Signal \/ DrainEnds \/ MainStep \/ ServeFails \/ Kill \/ Over \/ UNCHANGED vars
           \/ \E r \in Requests : Arrive(r) \/ HandlerStep(r)
  <2>1. UNCHANGED <<worker, job, faults>> /\ (stopped => stopped')
    BY <1>4 DEF Signal, DrainEnds, MainStep, ServeReturns, WorkersDone, PoolCloses, MainReturns,
                ServeFails, Kill, Arrive, HandlerStep, Acquire, Release, Answer, Over, vars
  <2>2. Abandoned' = Abandoned
    BY <2>1 DEF Abandoned
  <2> QED
    BY <1>1, <2>1, <2>2
<1> QED
  BY <1>2, <1>3, <1>4 DEF Next

\* The bound holds in every reachable state.
LEMMA Counted == Spec => []CountInv
<1>1. Init => CountInv
  <2> SUFFICES ASSUME Init PROVE CountInv
    OBVIOUS
  <2>1. Abandoned = {}
    BY DEF Init, Abandoned
  <2> QED
    BY <2>1, FS_EmptySet DEF Init, CountInv
<1> QED
  BY <1>1, Invariance, StepCount, PTL DEF Spec

\* However leases lapse and jobs change hands, every abandoned job is owed to a
\* failed statement of its own or to a worker of its own that was stopped.
THEOREM StopAbandonsFew == Spec => []EachAbandonsOne
<1>1. ShutdownInv /\ CountInv => EachAbandonsOne
  <2> SUFFICES ASSUME ShutdownInv, CountInv PROVE EachAbandonsOne
    OBVIOUS
  <2> DEFINE Free == {w \in Workers : worker[w].job = NoJob}
  <2>1. IsFiniteSet(Free) /\ Past \subseteq Free
    <3>1. Free \subseteq Workers
      OBVIOUS
    <3> QED
      BY <3>1, ShutdownAssumption, FS_Subset DEF Past
  <2>2. Cardinality(Free) \in Nat /\ Cardinality(Past) <= Cardinality(Free)
    BY <2>1, FS_Subset, FS_CardinalityType
  <2>3. faults \in Nat
    BY DEF ShutdownInv, TypeOK
  <2> QED
    BY <2>2, <2>3, Countable DEF CountInv, EachAbandonsOne
<1> QED
  BY <1>1, Invariance, Counted, PTL

------------------------------------------------------------------------------
\* Type correctness for any number of workers, jobs and requests.
THEOREM TypeCorrect == Spec => []TypeOK
<1>1. ShutdownInv => TypeOK
  BY DEF ShutdownInv
<1> QED
  BY <1>1, Invariance, PTL

\* The pool is closed only after every worker has returned and every handler
\* has given its connection back, wherever the signal finds them.
THEOREM PoolCorrect == Spec => []PoolOutlivesUsers
<1>1. ShutdownInv => PoolOutlivesUsers
  BY DEF ShutdownInv
<1> QED
  BY <1>1, Invariance, PTL

\* While the process serves and none of its workers' statements has failed, no
\* job is left to its lease.
THEOREM NothingAbandoned == Spec => [](~stopped /\ faults = 0 => Abandoned = {})
<1>1. CountInv => (~stopped /\ faults = 0 => Abandoned = {})
  <2> SUFFICES ASSUME CountInv, ~stopped, faults = 0 PROVE Abandoned = {}
    OBVIOUS
  <2>1. Cardinality(Abandoned) = 0
    BY Countable DEF CountInv
  <2> QED
    BY <2>1, Countable, FS_EmptySet
<1> QED
  BY <1>1, Counted, PTL
==============================================================================
