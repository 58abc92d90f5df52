-------------------------- MODULE IngestQueueProofs --------------------------
(* Theorems about IngestQueue, for any number of documents, workers and    *)
(* requests, any MaxAttempts and any number of faults.                     *)
EXTENDS IngestQueue, TLAPS

\* What any write makes of a document's row is a row.
LEMMA RowTypes ==
  ASSUME NEW row \in DocumentRow
  PROVE  /\ [row EXCEPT !.phase = "indexing"] \in DocumentRow
         /\ [row EXCEPT !.status = "failed", !.phase = "failed"] \in DocumentRow
         /\ [row EXCEPT !.status = "pending", !.phase = "retry-scheduled"] \in DocumentRow
         /\ [row EXCEPT !.status = "pending", !.phase = "none"] \in DocumentRow
         /\ [row EXCEPT !.status = "parsing", !.phase = "parsing"] \in DocumentRow
         /\ Deleted(row) \in DocumentRow
         /\ \A n \in 0..1 : Indexed(row, n) \in DocumentRow
<1> USE DEF DocumentRow, DocStatuses, DocPhases
<1>1. [row EXCEPT !.phase = "indexing"] \in DocumentRow
  OBVIOUS
<1>2. [row EXCEPT !.status = "failed", !.phase = "failed"] \in DocumentRow
  OBVIOUS
<1>3. [row EXCEPT !.status = "pending", !.phase = "retry-scheduled"] \in DocumentRow
  OBVIOUS
<1>4. [row EXCEPT !.status = "pending", !.phase = "none"] \in DocumentRow
  OBVIOUS
<1>5. [row EXCEPT !.status = "parsing", !.phase = "parsing"] \in DocumentRow
  OBVIOUS
<1>6. Deleted(row) \in DocumentRow
  BY DEF Deleted
<1>7. \A n \in 0..1 : Indexed(row, n) \in DocumentRow
  BY DEF Indexed
<1> QED
  BY <1>1, <1>2, <1>3, <1>4, <1>5, <1>6, <1>7

\* What any write makes of a job's row is a row.
LEMMA JobTypes ==
  ASSUME NEW row \in JobRow
  PROVE  /\ Done(row) \in JobRow
         /\ Buried(row) \in JobRow
         /\ Rescheduled(row) \in JobRow
         /\ [row EXCEPT !.run = "now"] \in JobRow
         /\ [row EXCEPT !.lease = "lapsed"] \in JobRow
         /\ NoJob \in JobRow
         /\ [NoJob EXCEPT !.state = "pending"] \in JobRow
BY DEF JobRow, Done, Buried, Rescheduled, NoJob

\* The fields of what a worker is doing have their types.
LEMMA WorkerTypes ==
  ASSUME NEW s \in WorkerState, NEW pc \in WorkerPCs
  PROVE  [s EXCEPT !.pc = pc] \in WorkerState /\ IdleWorker \in WorkerState
BY DEF WorkerState, WorkerPCs, IdleWorker

\* A write of one document keeps the table of documents typed.
LEMMA UpdateDocumentTyped ==
  ASSUME document \in [Docs -> DocumentRow], NEW d \in Docs,
         NEW row \in DocumentRow, UpdateDocument(d, row)
  PROVE  document' \in [Docs -> DocumentRow]
BY DEF UpdateDocument

\* A write of one job keeps the table of jobs typed.
LEMMA UpdateJobTyped ==
  ASSUME job \in [Docs -> JobRow], NEW d \in Docs,
         NEW row \in JobRow, UpdateJob(d, row)
  PROVE  job' \in [Docs -> JobRow]
BY DEF UpdateJob

\* A worker that moves on keeps the workers typed.
LEMMA GotoTyped ==
  ASSUME TypeOK, NEW w \in Workers, NEW pc \in WorkerPCs, worker[w].pc # "idle",
         Goto(w, pc)
  PROVE  /\ worker' \in [Workers -> WorkerState]
         /\ \A v \in Workers : worker'[v].pc # "idle" => worker'[v].doc \in Docs
<1>1. worker' \in [Workers -> WorkerState]
  BY WorkerTypes DEF TypeOK, Goto
<1>2. \A v \in Workers : worker'[v].pc # "idle" => worker'[v].doc \in Docs
  BY DEF TypeOK, Goto, WorkerState
<1> QED BY <1>1, <1>2

\* A worker that ends its job keeps the workers typed.
LEMMA IdleTyped ==
  ASSUME TypeOK, NEW w \in Workers, worker' = [worker EXCEPT ![w] = IdleWorker]
  PROVE  /\ worker' \in [Workers -> WorkerState]
         /\ \A v \in Workers : worker'[v].pc # "idle" => worker'[v].doc \in Docs
BY DEF TypeOK, IdleWorker, WorkerState, WorkerPCs

\* A request that ends keeps the requests typed.
LEMMA IdleRequestTyped ==
  ASSUME TypeOK, NEW q \in Requests, request' = [request EXCEPT ![q] = IdleRequest]
  PROVE  /\ request' \in [Requests -> RequestState]
         /\ \A p \in Requests : request'[p].pc # "idle" => request'[p].doc \in Docs
BY DEF TypeOK, IdleRequest, RequestState, RequestPCs

\* The empty tables have their types.
LEMMA TypeInit == Init => TypeOK
BY MaxFaultsAssumption DEF Init, TypeOK, DocumentRow, JobRow, NoJob, IdleWorker,
   IdleRequest, DocStatuses, DocPhases, WorkerPCs, RequestPCs, WorkerState,
   RequestState

\* Every step keeps the types.
LEMMA TypeStep == TypeOK /\ [Next]_vars => TypeOK'
<1> SUFFICES ASSUME TypeOK, [Next]_vars PROVE TypeOK'
  OBVIOUS
<1>a. /\ document \in [Docs -> DocumentRow]
      /\ job \in [Docs -> JobRow]
      /\ \A w \in Workers : TextChunks(w) \in 0..1
      /\ \A w \in Workers : worker[w].pc # "idle" => worker[w].doc \in Docs
      /\ \A q \in Requests : request[q].pc # "idle" => request[q].doc \in Docs
  BY DEF TypeOK, TextChunks
<1>1. CASE UNCHANGED vars
  BY <1>1 DEF vars, TypeOK
<1>2. ASSUME NEW d \in Docs, NEW k \in Keys, Enqueue(d, k) PROVE TypeOK'
  <2>1. document' \in [Docs -> DocumentRow]
    BY <1>2, <1>a DEF Enqueue, DocumentRow, DocStatuses, DocPhases
  <2>2. job' \in [Docs -> JobRow]
    BY <1>2, <1>a, JobTypes DEF Enqueue
  <2> QED BY <1>2, <2>1, <2>2 DEF Enqueue, TypeOK
<1>3. ASSUME NEW w \in Workers, NEW d \in Docs, Claim(w, d) PROVE TypeOK'
  <2>1. document' \in [Docs -> DocumentRow]
    BY <1>3, <1>a, RowTypes DEF Claim
  <2>2. job' \in [Docs -> JobRow]
    BY <1>3, <1>a DEF Claim, JobRow
  <2>3. Claimed(d) \in WorkerState /\ Claimed(d).doc = d
    BY <1>a DEF Claimed, WorkerState, WorkerPCs, JobRow
  <2>4. /\ worker' \in [Workers -> WorkerState]
        /\ \A v \in Workers : worker'[v].pc # "idle" => worker'[v].doc \in Docs
    BY <1>3, <2>3 DEF Claim, TypeOK
  <2> QED BY <1>3, <2>1, <2>2, <2>4 DEF Claim, TypeOK
<1>4. ASSUME NEW w \in Workers, WorkerStep(w) PROVE TypeOK'
  <2> DEFINE d == worker[w].doc
  <2>1. CASE LoadRaw(w)
    <3>1. d \in Docs
      BY <2>1, <1>a DEF LoadRaw
    <3>2. document[d].content \in {"raw", "null"}
      BY <3>1, <1>a DEF DocumentRow
    <3>4. \A r \in {"raw", "null"} :
            [worker[w] EXCEPT !.pc = "parse", !.raw = r] \in WorkerState
      BY DEF TypeOK, WorkerState, WorkerPCs
    <3>5. PICK r \in {"raw", "null"} :
            worker' = [worker EXCEPT ![w].pc = "parse", ![w].raw = r]
      BY <2>1, <3>2 DEF LoadRaw
    <3>6. worker' \in [Workers -> WorkerState]
      BY <3>4, <3>5 DEF TypeOK
    <3>3. \A v \in Workers : worker'[v].pc # "idle" => worker'[v].doc \in Docs
      BY <2>1 DEF LoadRaw, TypeOK, WorkerState
    <3> QED BY <2>1, <3>6, <3>3 DEF LoadRaw, TypeOK
  <2>2. CASE ParseOK(w)
    BY <2>2, GotoTyped DEF ParseOK, TypeOK, WorkerPCs
  <2>3. CASE ParseError(w)
    BY <2>3, GotoTyped DEF ParseError, TypeOK, WorkerPCs
  <2>4. CASE SetPhase(w)
    <3>1. document' \in [Docs -> DocumentRow]
      BY <2>4, <1>a, RowTypes, UpdateDocumentTyped DEF SetPhase
    <3> QED BY <2>4, <3>1, GotoTyped DEF SetPhase, TypeOK, WorkerPCs
  <2>5. CASE ImportOK(w)
    BY <2>5, <1>a, GotoTyped DEF ImportOK, TypeOK, WorkerPCs
  <2>6. CASE ImportError(w)
    BY <2>6, <1>a, GotoTyped DEF ImportError, TypeOK, WorkerPCs
  <2>7. CASE Commit(w)
    <3>1. document' \in [Docs -> DocumentRow]
      BY <2>7, <1>a, RowTypes, UpdateDocumentTyped DEF Commit
    <3>2. job' \in [Docs -> JobRow]
      BY <2>7, <1>a, JobTypes, UpdateJobTyped DEF Commit
    <3> QED BY <2>7, <3>1, <3>2, IdleTyped DEF Commit, TypeOK
  <2>8. CASE FailJob(w)
    <3>1. job' \in [Docs -> JobRow]
      BY <2>8, <1>a, JobTypes, UpdateJobTyped DEF FailJob
    <3> QED BY <2>8, <3>1, GotoTyped DEF FailJob, TypeOK, WorkerPCs
  <2>9. CASE FailDoc(w)
    <3>1. document' \in [Docs -> DocumentRow]
      BY <2>9, <1>a, RowTypes, UpdateDocumentTyped DEF FailDoc
    <3> QED BY <2>9, <3>1, IdleTyped DEF FailDoc, TypeOK
  <2> QED
    BY <1>4, <2>1, <2>2, <2>3, <2>4, <2>5, <2>6, <2>7, <2>8, <2>9 DEF WorkerStep
<1>5. ASSUME NEW w \in Workers, WorkerFault(w) PROVE TypeOK'
  <2>1. Fault => faults' \in 0..MaxFaults
    BY MaxFaultsAssumption DEF TypeOK, Fault
  <2>2. CASE WorkerGone(w)
    BY <2>1, <2>2, IdleTyped DEF WorkerGone, TypeOK
  <2>3. CASE LoadRawError(w)
    BY <2>1, <2>3, GotoTyped DEF LoadRawError, TypeOK, WorkerPCs
  <2>4. CASE StatementError(w)
    <3>1. PICK pc \in WorkerPCs : worker[w].pc # "idle" /\ Goto(w, pc)
      BY <2>4 DEF StatementError, WorkerPCs
    <3> QED BY <2>1, <2>4, <3>1, GotoTyped DEF StatementError, TypeOK
  <2> QED BY <1>5, <2>2, <2>3, <2>4 DEF WorkerFault
<1>6. ASSUME NEW d \in Docs, Time(d) PROVE TypeOK'
  <2>3. /\ [job[d] EXCEPT !.run = "now"] \in JobRow
        /\ [job[d] EXCEPT !.lease = "lapsed"] \in JobRow
    BY <1>a, JobTypes
  <2>4. \/ job' = [job EXCEPT ![d] = [job[d] EXCEPT !.run = "now"]]
        \/ job' = [job EXCEPT ![d] = [job[d] EXCEPT !.lease = "lapsed"]]
    BY <1>6
    DEF Time, BackoffElapses, AbandonedLeaseLapses, HeldLeaseLapses, LeaseLapses
  <2>1. job' \in [Docs -> JobRow]
    BY <2>3, <2>4, <1>a
  <2>2. faults' \in 0..MaxFaults
    BY <1>6, MaxFaultsAssumption
    DEF TypeOK, Time, BackoffElapses, AbandonedLeaseLapses, HeldLeaseLapses, Fault
  <2> QED
    BY <1>6, <2>1, <2>2
    DEF TypeOK, Time, BackoffElapses, AbandonedLeaseLapses, HeldLeaseLapses
<1>7. ASSUME NEW q \in Requests, NEW d \in Docs, RetryJob(q, d) \/ DeleteList(q, d)
      PROVE TypeOK'
  <2>1. job' \in [Docs -> JobRow]
    BY <1>7, <1>a, JobTypes DEF RetryJob, DeleteList
  <2>2. /\ request' \in [Requests -> RequestState]
        /\ \A p \in Requests : request'[p].pc # "idle" => request'[p].doc \in Docs
    BY <1>7 DEF RetryJob, DeleteList, TypeOK, RequestState, RequestPCs
  <2> QED BY <1>7, <2>1, <2>2 DEF RetryJob, DeleteList, TypeOK
<1>8. ASSUME NEW q \in Requests, RequestStep(q) PROVE TypeOK'
  <2>1. CASE RetryDoc(q)
    <3>1. request[q].doc \in Docs
      BY <2>1, <1>a DEF RetryDoc
    <3> DEFINE d == request[q].doc
               row == [document[d] EXCEPT !.status = "pending", !.phase = "none"]
    <3>3. row \in DocumentRow
      BY <3>1, <1>a, RowTypes
    <3>4. UpdateDocument(d, row)
      BY <2>1 DEF RetryDoc
    <3>2. document' \in [Docs -> DocumentRow]
      BY <3>1, <3>3, <3>4, <1>a, UpdateDocumentTyped
    <3> QED BY <2>1, <3>2, IdleRequestTyped DEF RetryDoc, TypeOK
  <2>2. CASE DeleteGraph(q)
    BY <2>2 DEF DeleteGraph, TypeOK, RequestState, RequestPCs
  <2>3. CASE DeleteChunks(q)
    BY <2>3 DEF DeleteChunks, TypeOK, RequestState, RequestPCs
  <2>4. CASE DeleteRow(q)
    <3>0. request[q].doc \in Docs
      BY <2>4, <1>a DEF DeleteRow
    <3> DEFINE d == request[q].doc
    <3>3. Deleted(document[d]) \in DocumentRow
      BY <3>0, <1>a, RowTypes
    <3>4. UpdateDocument(d, Deleted(document[d]))
      BY <2>4 DEF DeleteRow
    <3>1. document' \in [Docs -> DocumentRow]
      BY <3>0, <3>3, <3>4, <1>a, UpdateDocumentTyped
    <3>2. job' \in [Docs -> JobRow]
      BY <2>4, <3>0, <1>a, JobTypes, UpdateJobTyped DEF DeleteRow
    <3> QED BY <2>4, <3>1, <3>2, IdleRequestTyped DEF DeleteRow, TypeOK
  <2> QED
    BY <1>8, <2>1, <2>2, <2>3, <2>4 DEF RequestStep
<1>9. ASSUME NEW q \in Requests, RequestGone(q) PROVE TypeOK'
  <2>1. faults' \in 0..MaxFaults
    BY <1>9, MaxFaultsAssumption DEF TypeOK, RequestGone, Fault
  <2> QED BY <1>9, <2>1, IdleRequestTyped DEF RequestGone, TypeOK
<1> QED
  BY <1>1, <1>2, <1>3, <1>4, <1>5, <1>6, <1>7, <1>8, <1>9 DEF Next

\* Every row, program counter and counter keeps its type.
THEOREM TypeCorrect == Spec => []TypeOK
BY TypeInit, TypeStep, PTL DEF Spec

------------------------------------------------------------------------------
(* Whatever the leases do.                                                 *)

\* A job row is there exactly when its document row is.
RowsTied == \A d \in Docs : job[d].state = "none" <=> ~Exists(d)

\* Nobody is busy with an id that was never used.
BusyWithUsed ==
  /\ \A w \in Workers :
       worker[w].pc # "idle" => document[worker[w].doc].status # "unused"
  /\ \A q \in Requests :
       request[q].pc # "idle" => document[request[q].doc].status # "unused"

RowInv ==
  TypeOK /\ RowsTied /\ BusyWithUsed /\ NoStrandedJob /\ OneJobPerKey /\ ReadyDropsRaw

\* The part of RowInv that only speaks of the two rows.
RowsOnly == RowsTied /\ NoStrandedJob /\ OneJobPerKey /\ ReadyDropsRaw

\* Steps that write no row keep what RowInv says of the rows.
LEMMA RowsUnchanged ==
  ASSUME RowsOnly, UNCHANGED <<document, job>>
  PROVE  RowsOnly'
BY DEF RowsOnly, RowsTied, NoStrandedJob, OneJobPerKey, ReadyDropsRaw, Exists

\* RowInv holds of the empty tables.
LEMMA RowInit == Init => RowInv
BY TypeInit, SentinelAssumption
   DEF Init, RowInv, RowsTied, BusyWithUsed, NoStrandedJob, OneJobPerKey,
       ReadyDropsRaw, Exists, NoJob, IdleWorker, IdleRequest

\* A statement that keeps the key of a document, and leaves it alone, or
\* ready without its bytes, or not ready.
LEMMA DocumentUpdate ==
  ASSUME TypeOK, RowsOnly, NEW d \in Docs, NEW row \in DocumentRow,
         UpdateDocument(d, row), job' = job,
         row.key = document[d].key,
         row.status \notin {"unused", "deleted", "ready"}
  PROVE  RowsOnly' /\ \A e \in Docs : Exists(e)' <=> Exists(e)
BY DEF TypeOK, RowsOnly, RowsTied, NoStrandedJob, OneJobPerKey, ReadyDropsRaw,
       Exists, UpdateDocument

\* Every step keeps RowInv, whatever overlaps or crashes.
LEMMA RowStep == RowInv /\ [Next]_vars => RowInv'
<1> SUFFICES ASSUME RowInv, [Next]_vars PROVE RowInv'
  OBVIOUS
<1>a. TypeOK /\ TypeOK' /\ RowsOnly
  BY TypeStep DEF RowInv, RowsOnly
<1>b. /\ document \in [Docs -> DocumentRow]
      /\ job \in [Docs -> JobRow]
      /\ \A w \in Workers : worker[w].pc # "idle" => worker[w].doc \in Docs
      /\ \A q \in Requests : request[q].pc # "idle" => request[q].doc \in Docs
  BY <1>a DEF TypeOK
<1> SUFFICES RowsOnly' /\ BusyWithUsed'
  BY <1>a DEF RowInv, RowsOnly
<1> USE DEF RowInv
<1>1. CASE UNCHANGED vars
  BY <1>1, <1>a, RowsUnchanged DEF vars, BusyWithUsed
<1>2. ASSUME NEW d \in Docs, NEW k \in Keys, Enqueue(d, k)
      PROVE RowsOnly' /\ BusyWithUsed'
  <2>1. RowsTied' /\ NoStrandedJob'
    BY <1>2, <1>b, SentinelAssumption DEF Enqueue, RowsTied, NoStrandedJob, Exists, NoJob, DocumentRow, JobRow
  <2>2. OneJobPerKey' /\ ReadyDropsRaw'
    BY <1>2, <1>b DEF Enqueue, KeyTaken, OneJobPerKey, ReadyDropsRaw, Exists
  <2>3. BusyWithUsed'
    BY <1>2, <1>b DEF Enqueue, BusyWithUsed
  <2> QED BY <2>1, <2>2, <2>3 DEF RowsOnly
<1>3. ASSUME NEW w \in Workers, NEW d \in Docs, Claim(w, d)
      PROVE RowsOnly' /\ BusyWithUsed'
  <2>0. Exists(d)
    BY <1>3 DEF Claim, Claimable, RowsTied
  <2>1. RowsTied' /\ NoStrandedJob'
    BY <1>3, <1>b, <2>0, SentinelAssumption DEF Claim, RowsTied, NoStrandedJob, Exists
  <2>2. OneJobPerKey' /\ ReadyDropsRaw'
    BY <1>3, <1>b, <2>0 DEF Claim, OneJobPerKey, ReadyDropsRaw, Exists, DocumentRow
  <2>3. BusyWithUsed'
    BY <1>3, <1>b, <2>0 DEF Claim, Claimed, BusyWithUsed, Exists, TypeOK
  <2> QED BY <2>1, <2>2, <2>3 DEF RowsOnly
<1>4. ASSUME NEW w \in Workers, WorkerStep(w) PROVE RowsOnly' /\ BusyWithUsed'
  <2> DEFINE d == worker[w].doc
  <2>0. \A pc \in WorkerPCs :
          Goto(w, pc) /\ UNCHANGED <<document, request>> /\ worker[w].pc # "idle"
            => BusyWithUsed'
    BY <1>a DEF TypeOK, WorkerState, Goto, BusyWithUsed
  <2>1. CASE LoadRaw(w)
    BY <2>1, <1>a, RowsUnchanged DEF LoadRaw, BusyWithUsed, TypeOK, WorkerState
  <2>2. CASE ParseOK(w) \/ ParseError(w) \/ ImportOK(w) \/ ImportError(w)
    BY <2>0, <2>2, <1>a, RowsUnchanged
    DEF ParseOK, ParseError, ImportOK, ImportError, WorkerPCs
  <2>3. CASE SetPhase(w)
    <3>1. d \in Docs
      BY <2>3, <1>b DEF SetPhase
    <3>2. RowsOnly'
      <4>1. CASE Exists(d) /\ document[d].status = "ready"
        BY <2>3, <3>1, <4>1, <1>b DEF SetPhase, UpdateDocument, RowsOnly, RowsTied, NoStrandedJob, OneJobPerKey,
           ReadyDropsRaw, Exists, DocumentRow
      <4>2. CASE ~Exists(d) \/ document[d].status # "ready"
        BY <2>3, <3>1, <4>2, <1>b DEF SetPhase, UpdateDocument, RowsOnly, RowsTied, NoStrandedJob, OneJobPerKey,
           ReadyDropsRaw, Exists, DocumentRow
      <4> QED BY <4>1, <4>2
    <3>3. BusyWithUsed'
      BY <2>3, <3>1, <1>b, <1>a DEF SetPhase, UpdateDocument, Goto, BusyWithUsed, TypeOK, WorkerState, DocumentRow
    <3> QED BY <3>2, <3>3
  <2>4. CASE Commit(w)
    <3>1. d \in Docs
      BY <2>4, <1>b DEF Commit
    <3>2. RowsTied' /\ NoStrandedJob'
      BY <2>4, <3>1, <1>b DEF Commit, UpdateDocument, UpdateJob, Indexed, Done, RowsTied, NoStrandedJob, Exists,
         DocumentRow, JobRow
    <3>3. OneJobPerKey' /\ ReadyDropsRaw'
      BY <2>4, <3>1, <1>b DEF Commit, UpdateDocument, Indexed, OneJobPerKey, ReadyDropsRaw, Exists,
         DocumentRow
    <3>4. BusyWithUsed'
      BY <2>4, <3>1, <1>b, <1>a DEF Commit, UpdateDocument, Indexed, IdleWorker, BusyWithUsed, TypeOK, DocumentRow
    <3> QED BY <3>2, <3>3, <3>4 DEF RowsOnly
  <2>5. CASE FailJob(w)
    <3>1. d \in Docs
      BY <2>5, <1>b DEF FailJob
    <3>2. RowsTied' /\ NoStrandedJob'
      BY <2>5, <3>1, <1>b DEF FailJob, UpdateJob, Buried, Rescheduled, RowsTied, NoStrandedJob, Exists, JobRow
    <3>3. OneJobPerKey' /\ ReadyDropsRaw'
      BY <2>5 DEF FailJob, OneJobPerKey, ReadyDropsRaw, Exists
    <3> QED BY <2>0, <2>5, <3>2, <3>3 DEF FailJob, RowsOnly, WorkerPCs
  <2>6. CASE FailDoc(w)
    <3>1. d \in Docs
      BY <2>6, <1>b DEF FailDoc
    <3> DEFINE row == IF Spent(w)
                      THEN [document[d] EXCEPT !.status = "failed", !.phase = "failed"]
                      ELSE [document[d] EXCEPT !.status = "pending", !.phase = "retry-scheduled"]
    <3>2. row \in DocumentRow
      BY <3>1, <1>b, RowTypes
    <3>3. row.key = document[d].key /\ row.status \in {"failed", "pending"}
      BY <3>1, <1>b DEF DocumentRow
    <3>4. UpdateDocument(d, row) /\ job' = job
      BY <2>6 DEF FailDoc
    <3> HIDE DEF row
    <3>5. RowsOnly' /\ \A e \in Docs : Exists(e)' <=> Exists(e)
      BY <1>a, <3>1, <3>2, <3>3, <3>4, DocumentUpdate
    <3>6. BusyWithUsed'
      BY <2>6, <3>1, <3>3, <3>4, <1>b, <1>a DEF FailDoc, UpdateDocument, IdleWorker, BusyWithUsed, TypeOK
    <3> QED BY <3>5, <3>6
  <2> QED
    BY <1>4, <2>1, <2>2, <2>3, <2>4, <2>5, <2>6 DEF WorkerStep
<1>5. ASSUME NEW w \in Workers, WorkerFault(w) PROVE RowsOnly' /\ BusyWithUsed'
  <2>1. RowsOnly'
    BY <1>5, <1>a, RowsUnchanged DEF WorkerFault, WorkerGone, LoadRawError, StatementError
  <2>2. BusyWithUsed'
    BY <1>5, <1>a DEF WorkerFault, WorkerGone, LoadRawError, StatementError, Goto,
       BusyWithUsed, TypeOK, WorkerState, IdleWorker
  <2> QED BY <2>1, <2>2
<1>6. ASSUME NEW d \in Docs, Time(d) PROVE RowsOnly' /\ BusyWithUsed'
  <2>1. RowsTied' /\ NoStrandedJob'
    BY <1>6, <1>b DEF Time, BackoffElapses, AbandonedLeaseLapses, HeldLeaseLapses,
       LeaseLapses, RowsTied, NoStrandedJob, Exists, JobRow
  <2>2. OneJobPerKey' /\ ReadyDropsRaw' /\ BusyWithUsed'
    BY <1>6 DEF Time, BackoffElapses, AbandonedLeaseLapses, HeldLeaseLapses,
       OneJobPerKey, ReadyDropsRaw, BusyWithUsed, Exists
  <2> QED BY <2>1, <2>2 DEF RowsOnly
<1>7. ASSUME NEW q \in Requests, NEW d \in Docs, RetryJob(q, d) \/ DeleteList(q, d)
      PROVE RowsOnly' /\ BusyWithUsed'
  <2>1. CASE RetryJob(q, d)
    <3>1. Exists(d)
      BY <2>1 DEF RetryJob, Retryable, RowsTied
    <3>2. RowsTied' /\ NoStrandedJob'
      BY <2>1, <3>1, <1>b DEF RetryJob, NoJob, RowsTied, NoStrandedJob, Exists, JobRow
    <3>3. OneJobPerKey' /\ ReadyDropsRaw'
      BY <2>1 DEF RetryJob, OneJobPerKey, ReadyDropsRaw, Exists
    <3>4. BusyWithUsed'
      BY <2>1, <3>1, <1>a DEF RetryJob, BusyWithUsed, Exists, TypeOK, RequestState
    <3> QED BY <3>2, <3>3, <3>4 DEF RowsOnly
  <2>2. CASE DeleteList(q, d)
    BY <2>2, <1>a, RowsUnchanged DEF DeleteList, BusyWithUsed, TypeOK, RequestState
  <2> QED BY <1>7, <2>1, <2>2
<1>8. ASSUME NEW q \in Requests, RequestStep(q) PROVE RowsOnly' /\ BusyWithUsed'
  <2> DEFINE d == request[q].doc
  <2>1. CASE RetryDoc(q)
    <3>1. d \in Docs
      BY <2>1, <1>b DEF RetryDoc
    <3> DEFINE row == [document[d] EXCEPT !.status = "pending", !.phase = "none"]
    <3>2. row \in DocumentRow
      BY <3>1, <1>b, RowTypes
    <3>3. row.key = document[d].key /\ row.status = "pending"
      BY <3>1, <1>b DEF DocumentRow
    <3>4. UpdateDocument(d, row) /\ job' = job
      BY <2>1 DEF RetryDoc
    <3> HIDE DEF row
    <3>5. RowsOnly' /\ \A e \in Docs : Exists(e)' <=> Exists(e)
      BY <1>a, <3>1, <3>2, <3>3, <3>4, DocumentUpdate
    <3>6. BusyWithUsed'
      BY <2>1, <3>1, <3>3, <3>4, <1>b, <1>a DEF RetryDoc, UpdateDocument, IdleRequest, BusyWithUsed, TypeOK
    <3> QED BY <3>5, <3>6
  <2>2. CASE DeleteGraph(q)
    BY <2>2, <1>a, RowsUnchanged DEF DeleteGraph, BusyWithUsed, TypeOK, RequestState
  <2>3. CASE DeleteChunks(q)
    BY <2>3, <1>a, RowsUnchanged DEF DeleteChunks, BusyWithUsed, TypeOK, RequestState
  <2>4. CASE DeleteRow(q)
    <3>1. d \in Docs
      BY <2>4, <1>b DEF DeleteRow
    <3>2. RowsTied' /\ NoStrandedJob'
      BY <2>4, <3>1, <1>b DEF DeleteRow, UpdateDocument, UpdateJob, Deleted, NoJob, RowsTied, NoStrandedJob, Exists,
         DocumentRow, JobRow
    <3>3. OneJobPerKey' /\ ReadyDropsRaw'
      BY <2>4, <3>1, <1>b DEF DeleteRow, UpdateDocument, Deleted, OneJobPerKey, ReadyDropsRaw, Exists,
         DocumentRow
    <3>4. BusyWithUsed'
      BY <2>4, <3>1, <1>b, <1>a DEF DeleteRow, UpdateDocument, Deleted, IdleRequest, BusyWithUsed, TypeOK
    <3> QED BY <3>2, <3>3, <3>4 DEF RowsOnly
  <2> QED
    BY <1>8, <2>1, <2>2, <2>3, <2>4 DEF RequestStep
<1>9. ASSUME NEW q \in Requests, RequestGone(q) PROVE RowsOnly' /\ BusyWithUsed'
  BY <1>9, <1>a, RowsUnchanged DEF RequestGone, BusyWithUsed, TypeOK, IdleRequest
<1> QED
  BY <1>1, <1>2, <1>3, <1>4, <1>5, <1>6, <1>7, <1>8, <1>9 DEF Next

\* The first inductive invariant, which needs no assumption about leases.
LEMMA RowsAlways == Spec => []RowInv
BY RowInit, RowStep, PTL DEF Spec

------------------------------------------------------------------------------
(* If a lease only runs out once its holder is gone.                       *)

HolderInv == HolderOwnsJob /\ SingleHolder

\* Nobody holds a job in the empty tables.
LEMMA HolderInit == Init => HolderInv
BY DEF Init, HolderInv, HolderOwnsJob, SingleHolder, Holds, IdleWorker

\* Steps in which nobody starts to hold a job, no row appears, and no held
\* job changes.
LEMMA HolderKept ==
  ASSUME HolderInv,
         \A w \in Workers, d \in Docs :
           Holds(w, d)' => Holds(w, d) /\ worker'[w].attempts = worker[w].attempts,
         \A d \in Docs : Exists(d)' => Exists(d),
         \A w \in Workers, d \in Docs :
           Holds(w, d)' /\ Exists(d)' =>
             /\ job'[d].state = job[d].state
             /\ job'[d].owner = job[d].owner
             /\ job'[d].lease = job[d].lease
             /\ job'[d].attempts = job[d].attempts
  PROVE  HolderInv'
<1>1. HolderOwnsJob'
  BY DEF HolderInv, HolderOwnsJob
<1>2. SingleHolder'
  BY DEF HolderInv, SingleHolder
<1> QED BY <1>1, <1>2 DEF HolderInv

\* Every step keeps the ownership of jobs, if leases cover the work.
LEMMA HolderStep ==
  LeaseCoversWork /\ RowInv /\ HolderInv /\ [Next]_vars => HolderInv'
<1> SUFFICES ASSUME LeaseCoversWork, RowInv, HolderInv, [Next]_vars PROVE HolderInv'
  OBVIOUS
<1>a. TypeOK /\ TypeOK' /\ RowsTied
  BY TypeStep DEF RowInv
<1>b. /\ document \in [Docs -> DocumentRow]
      /\ job \in [Docs -> JobRow]
      /\ worker \in [Workers -> WorkerState]
      /\ worker' \in [Workers -> WorkerState]
      /\ \A w \in Workers : worker[w].pc # "idle" => worker[w].doc \in Docs
      /\ \A q \in Requests : request[q].pc # "idle" => request[q].doc \in Docs
  BY <1>a DEF TypeOK
<1>q. UNCHANGED <<document, job, worker>> => HolderInv'
  BY HolderKept DEF HolderInv, Holds, Exists
<1>1. CASE UNCHANGED vars
  BY <1>1, <1>q DEF vars
<1>2. ASSUME NEW d \in Docs, NEW k \in Keys, Enqueue(d, k) PROVE HolderInv'
  <2>1. \A w \in Workers : ~Holds(w, d)
    BY <1>2 DEF Enqueue, RowInv, BusyWithUsed, Holds
  <2>2. \A w \in Workers, e \in Docs : Holds(w, e)' <=> Holds(w, e)
    BY <1>2 DEF Enqueue, Holds
  <2>3. HolderOwnsJob'
    BY <1>2, <1>b, <2>1, <2>2 DEF Enqueue, HolderInv, HolderOwnsJob, Exists
  <2>4. SingleHolder'
    BY <2>2 DEF HolderInv, SingleHolder
  <2> QED BY <2>3, <2>4 DEF HolderInv
<1>3. ASSUME NEW w \in Workers, NEW d \in Docs, Claim(w, d) PROVE HolderInv'
  <2>1. Exists(d)
    BY <1>3 DEF Claim, Claimable, RowInv, RowsTied
  <2>2. \A v \in Workers : ~Holds(v, d)
    BY <1>3, <2>1 DEF Claim, Claimable, HolderInv, HolderOwnsJob
  <2>3. \A v \in Workers, e \in Docs :
          Holds(v, e)' <=> (v = w /\ e = d) \/ Holds(v, e)
    BY <1>3, <1>b DEF Claim, Claimed, Holds
  <2>4. \A v \in Workers \ {w} : worker'[v] = worker[v]
    BY <1>3, <1>b DEF Claim
  <2>5. worker'[w].attempts = job[d].attempts + 1
    BY <1>3, <1>b DEF Claim, Claimed
  <2>6. \A e \in Docs : Exists(e)' <=> Exists(e)
    BY <1>3, <2>1, <1>b DEF Claim, Exists, DocumentRow
  <2>7. \A e \in Docs \ {d} : job'[e] = job[e]
    BY <1>3, <1>b DEF Claim
  <2>8. /\ job'[d].state = "running"
        /\ job'[d].owner = w
        /\ job'[d].lease = "live"
        /\ job'[d].attempts = job[d].attempts + 1
    BY <1>3, <1>b DEF Claim
  <2>9. ASSUME NEW v \in Workers, NEW e \in Docs, Holds(v, e)', Exists(e)'
        PROVE  /\ job'[e].state = "running"
               /\ job'[e].owner = v
               /\ job'[e].lease = "live"
               /\ job'[e].attempts = worker'[v].attempts
    <3>1. CASE e = d
      BY <2>9, <3>1, <2>2, <2>3, <2>5, <2>8
    <3>2. CASE e # d
      <4>1. Holds(v, e) /\ Exists(e)
        BY <2>9, <3>2, <2>3, <2>6
      <4>2. v # w
        BY <4>1, <1>3 DEF Claim, Holds
      <4> QED BY <4>1, <4>2, <3>2, <2>4, <2>7 DEF HolderInv, HolderOwnsJob
    <3> QED BY <3>1, <3>2
  <2>10. HolderOwnsJob'
    BY <2>9 DEF HolderOwnsJob
  <2>11. SingleHolder'
    BY <2>2, <2>3 DEF HolderInv, SingleHolder
  <2> QED BY <2>10, <2>11 DEF HolderInv
<1>4. ASSUME NEW w \in Workers, WorkerStep(w) PROVE HolderInv'
  <2> DEFINE d == worker[w].doc
  <2>0. ASSUME NEW pc \in WorkerPCs, worker[w].pc \notin {"idle", "failDoc"},
               UNCHANGED <<document, job>>, Goto(w, pc)
        PROVE  HolderInv'
    <3>1. \A v \in Workers, e \in Docs :
            Holds(v, e)' => Holds(v, e) /\ worker'[v].attempts = worker[v].attempts
      BY <2>0, <1>b DEF Goto, Holds, WorkerState
    <3> QED BY <2>0, <3>1, HolderKept DEF Exists
  <2>1. CASE LoadRaw(w)
    <3>1. \A v \in Workers, e \in Docs :
            Holds(v, e)' => Holds(v, e) /\ worker'[v].attempts = worker[v].attempts
      BY <2>1, <1>b DEF LoadRaw, Holds, WorkerState
    <3> QED BY <2>1, <3>1, HolderKept DEF LoadRaw, Exists
  <2>2. CASE ParseOK(w) \/ ParseError(w) \/ ImportOK(w) \/ ImportError(w)
    BY <2>0, <2>2 DEF ParseOK, ParseError, ImportOK, ImportError, WorkerPCs
  <2>3. CASE SetPhase(w)
    <3>1. d \in Docs
      BY <2>3, <1>b DEF SetPhase
    <3>2. \A v \in Workers, e \in Docs :
            Holds(v, e)' => Holds(v, e) /\ worker'[v].attempts = worker[v].attempts
      BY <2>3, <1>b DEF SetPhase, Goto, Holds, WorkerState
    <3>3. \A e \in Docs : Exists(e)' => Exists(e)
      BY <2>3, <3>1, <1>b DEF SetPhase, UpdateDocument, Exists, DocumentRow
    <3> QED BY <2>3, <3>2, <3>3, HolderKept DEF SetPhase
  <2>4. CASE Commit(w)
    <3>1. d \in Docs /\ Holds(w, d)
      BY <2>4, <1>b DEF Commit, Holds
    <3>2. \A v \in Workers, e \in Docs :
            Holds(v, e)' => v # w /\ Holds(v, e) /\ worker'[v].attempts = worker[v].attempts
      BY <2>4, <1>b DEF Commit, IdleWorker, Holds
    <3>3. \A e \in Docs : Exists(e)' => Exists(e)
      BY <2>4, <3>1, <1>b DEF Commit, UpdateDocument, Indexed, Exists, DocumentRow
    <3>4. \A v \in Workers, e \in Docs : Holds(v, e)' => e # d
      BY <3>1, <3>2 DEF HolderInv, SingleHolder
    <3>5. \A e \in Docs : e # d => job'[e] = job[e]
      BY <2>4, <3>1, <1>b DEF Commit, UpdateJob
    <3> HIDE DEF d
    <3> QED BY <3>2, <3>3, <3>4, <3>5, HolderKept
  <2>5. CASE FailJob(w)
    <3>1. d \in Docs /\ Holds(w, d)
      BY <2>5, <1>b DEF FailJob, Holds
    <3>2. \A v \in Workers, e \in Docs :
            Holds(v, e)' => v # w /\ Holds(v, e) /\ worker'[v].attempts = worker[v].attempts
      BY <2>5, <1>b DEF FailJob, Goto, Holds, WorkerState
    <3>3. \A e \in Docs : Exists(e)' => Exists(e)
      BY <2>5 DEF FailJob, Exists
    <3>4. \A v \in Workers, e \in Docs : Holds(v, e)' => e # d
      BY <3>1, <3>2 DEF HolderInv, SingleHolder
    <3>5. \A e \in Docs : e # d => job'[e] = job[e]
      BY <2>5, <3>1, <1>b DEF FailJob, UpdateJob
    <3> HIDE DEF d
    <3> QED BY <3>2, <3>3, <3>4, <3>5, HolderKept
  <2>6. CASE FailDoc(w)
    <3>1. d \in Docs
      BY <2>6, <1>b DEF FailDoc
    <3>2. \A v \in Workers, e \in Docs :
            Holds(v, e)' => Holds(v, e) /\ worker'[v].attempts = worker[v].attempts
      BY <2>6, <1>b DEF FailDoc, IdleWorker, Holds
    <3>3. \A e \in Docs : Exists(e)' => Exists(e)
      BY <2>6, <3>1, <1>b DEF FailDoc, UpdateDocument, Exists
    <3> QED BY <2>6, <3>2, <3>3, HolderKept DEF FailDoc
  <2> QED
    BY <1>4, <2>1, <2>2, <2>3, <2>4, <2>5, <2>6 DEF WorkerStep
<1>5. ASSUME NEW w \in Workers, WorkerFault(w) PROVE HolderInv'
  <2>1. \A v \in Workers, e \in Docs :
          Holds(v, e)' => Holds(v, e) /\ worker'[v].attempts = worker[v].attempts
    BY <1>5, <1>b DEF WorkerFault, WorkerGone, LoadRawError, StatementError, Goto,
       Holds, WorkerState, IdleWorker
  <2> QED
    BY <1>5, <2>1, HolderKept
    DEF WorkerFault, WorkerGone, LoadRawError, StatementError, Exists
<1>6. ASSUME NEW d \in Docs, Time(d) PROVE HolderInv'
  <2>1. ~HeldLeaseLapses(d)
    BY DEF HeldLeaseLapses
  <2>2. /\ UNCHANGED <<document, worker>>
        /\ \A e \in Docs : e # d => job'[e] = job[e]
    BY <1>6, <2>1, <1>b DEF Time, BackoffElapses, AbandonedLeaseLapses, LeaseLapses
  <2>3. \A w \in Workers : ~(Holds(w, d) /\ Exists(d))
    BY <1>6, <2>1 DEF Time, BackoffElapses, AbandonedLeaseLapses, HolderInv, HolderOwnsJob
  <2>4. \A w \in Workers, e \in Docs : Holds(w, e)' <=> Holds(w, e)
    BY <2>2 DEF Holds
  <2>5. \A e \in Docs : Exists(e)' <=> Exists(e)
    BY <2>2 DEF Exists
  <2> QED BY <2>2, <2>3, <2>4, <2>5, HolderKept
<1>7. ASSUME NEW q \in Requests, NEW d \in Docs, RetryJob(q, d) \/ DeleteList(q, d)
      PROVE HolderInv'
  <2>1. CASE RetryJob(q, d)
    <3>1. \A w \in Workers : ~(Holds(w, d) /\ Exists(d))
      BY <2>1 DEF RetryJob, Retryable, HolderInv, HolderOwnsJob
    <3>2. /\ UNCHANGED <<document, worker>>
          /\ \A e \in Docs : e # d => job'[e] = job[e]
      BY <2>1, <1>b DEF RetryJob
    <3>3. \A w \in Workers, e \in Docs : Holds(w, e)' <=> Holds(w, e)
      BY <3>2 DEF Holds
    <3>4. \A e \in Docs : Exists(e)' <=> Exists(e)
      BY <3>2 DEF Exists
    <3> QED BY <3>1, <3>2, <3>3, <3>4, HolderKept
  <2>2. CASE DeleteList(q, d)
    BY <2>2, <1>q DEF DeleteList
  <2> QED BY <1>7, <2>1, <2>2
<1>8. ASSUME NEW q \in Requests, RequestStep(q) PROVE HolderInv'
  <2> DEFINE d == request[q].doc
  <2>1. CASE RetryDoc(q)
    <3>1. d \in Docs
      BY <2>1, <1>b DEF RetryDoc
    <3>2. \A e \in Docs : Exists(e)' => Exists(e)
      BY <2>1, <3>1, <1>b DEF RetryDoc, UpdateDocument, Exists
    <3> QED BY <2>1, <3>2, HolderKept DEF RetryDoc, Holds
  <2>2. CASE DeleteGraph(q) \/ DeleteChunks(q)
    BY <2>2, <1>q DEF DeleteGraph, DeleteChunks
  <2>3. CASE DeleteRow(q)
    <3>1. d \in Docs
      BY <2>3, <1>b DEF DeleteRow
    <3>2. \A e \in Docs : Exists(e)' => Exists(e) /\ e # d
      BY <2>3, <3>1, <1>b DEF DeleteRow, UpdateDocument, Deleted, Exists
    <3>3. \A e \in Docs : e # d => job'[e] = job[e]
      BY <2>3, <3>1, <1>b DEF DeleteRow, UpdateJob
    <3>4. worker' = worker
      BY <2>3 DEF DeleteRow
    <3>5. \A w \in Workers, e \in Docs : Holds(w, e)' <=> Holds(w, e)
      BY <3>4 DEF Holds
    <3> HIDE DEF d
    <3> QED BY <3>2, <3>3, <3>4, <3>5, HolderKept
  <2> QED
    BY <1>8, <2>1, <2>2, <2>3 DEF RequestStep
<1>9. ASSUME NEW q \in Requests, RequestGone(q) PROVE HolderInv'
  BY <1>9, <1>q DEF RequestGone
<1> QED
  BY <1>1, <1>2, <1>3, <1>4, <1>5, <1>6, <1>7, <1>8, <1>9 DEF Next

\* Both theorems of this part need the two invariants proved so far.
Covered == LeaseCoversWork /\ RowInv /\ HolderInv

QueueInv == RawKeptWhileNeeded /\ ReadyMeansDone /\ DeadOnlyWhenSpent

\* QueueInv holds of the empty tables.
LEMMA QueueInit == Init => QueueInv
BY DEF Init, QueueInv, RawKeptWhileNeeded, ReadyMeansDone, DeadOnlyWhenSpent, Exists, NoJob

\* Steps that write no row keep QueueInv.
LEMMA QueueUnchanged ==
  ASSUME QueueInv, UNCHANGED <<document, job>>
  PROVE  QueueInv'
BY DEF QueueInv, RawKeptWhileNeeded, ReadyMeansDone, DeadOnlyWhenSpent, Exists, IsUrl

\* It is enough to look at the rows of the one document a step writes.
LEMMA QueueOneRow ==
  ASSUME QueueInv, NEW d \in Docs,
         \A e \in Docs : e # d => document'[e] = document[e] /\ job'[e] = job[e],
         /\ Exists(d)' /\ ~IsUrl(d)' /\ job'[d].state # "done"
              => document'[d].content = "raw"
         /\ document'[d].status = "ready" => job'[d].state = "done"
         /\ job'[d].state = "dead" => job'[d].attempts >= MaxAttempts
  PROVE  QueueInv'
BY DEF QueueInv, RawKeptWhileNeeded, ReadyMeansDone, DeadOnlyWhenSpent, Exists, IsUrl

\* Every step keeps QueueInv, if leases cover the work.
LEMMA QueueStep == Covered /\ QueueInv /\ [Next]_vars => QueueInv'
<1> SUFFICES ASSUME Covered, QueueInv, [Next]_vars PROVE QueueInv'
  OBVIOUS
<1>a. TypeOK /\ RowsTied /\ HolderOwnsJob
  BY DEF Covered, RowInv, HolderInv
<1>b. /\ document \in [Docs -> DocumentRow]
      /\ job \in [Docs -> JobRow]
      /\ \A w \in Workers : worker[w].pc # "idle" => worker[w].doc \in Docs
      /\ \A q \in Requests : request[q].pc # "idle" => request[q].doc \in Docs
  BY <1>a DEF TypeOK
<1>c. \A d \in Docs :
        /\ Exists(d) /\ ~IsUrl(d) /\ job[d].state # "done" => document[d].content = "raw"
        /\ document[d].status = "ready" => job[d].state = "done"
        /\ job[d].state = "dead" => job[d].attempts >= MaxAttempts
  BY DEF QueueInv, RawKeptWhileNeeded, ReadyMeansDone, DeadOnlyWhenSpent
<1>1. CASE UNCHANGED vars
  BY <1>1, QueueUnchanged DEF vars
<1>2. ASSUME NEW d \in Docs, NEW k \in Keys, Enqueue(d, k) PROVE QueueInv'
  BY <1>2, <1>b, QueueOneRow DEF Enqueue, NoJob, IsUrl
<1>3. ASSUME NEW w \in Workers, NEW d \in Docs, Claim(w, d) PROVE QueueInv'
  <2>1. Exists(d) /\ job[d].state # "done"
    BY <1>3, <1>a DEF Claim, Claimable, RowsTied
  <2>2. /\ \A e \in Docs : e # d => document'[e] = document[e] /\ job'[e] = job[e]
        /\ job'[d].state = "running"
        /\ document'[d].status = "parsing"
        /\ document'[d].content = document[d].content
        /\ document'[d].key = document[d].key
    BY <1>3, <1>b DEF Claim, DocumentRow
  <2> QED BY <1>c, <2>1, <2>2, QueueOneRow DEF IsUrl
<1>4. ASSUME NEW w \in Workers, WorkerStep(w) PROVE QueueInv'
  <2> DEFINE d == worker[w].doc
  <2>1. CASE LoadRaw(w) \/ ParseOK(w) \/ ParseError(w) \/ ImportOK(w) \/ ImportError(w)
    BY <2>1, QueueUnchanged DEF LoadRaw, ParseOK, ParseError, ImportOK, ImportError
  <2>2. CASE SetPhase(w)
    <3>1. d \in Docs
      BY <2>2, <1>b DEF SetPhase
    <3>2. /\ \A e \in Docs : e # d => document'[e] = document[e]
          /\ document'[d].status = document[d].status
          /\ document'[d].content = document[d].content
          /\ document'[d].key = document[d].key
          /\ job' = job
      BY <2>2, <3>1, <1>b DEF SetPhase, UpdateDocument, DocumentRow
    <3> HIDE DEF d
    <3> QED BY <1>c, <3>1, <3>2, QueueOneRow DEF IsUrl, Exists
  <2>3. CASE Commit(w)
    <3>1. d \in Docs
      BY <2>3, <1>b DEF Commit
    <3>2. /\ \A e \in Docs : e # d => document'[e] = document[e] /\ job'[e] = job[e]
          /\ Exists(d) => job'[d].state = "done"
          /\ ~Exists(d) => document' = document /\ job' = job
      BY <2>3, <3>1, <1>b DEF Commit, UpdateDocument, UpdateJob, Done, JobRow
    <3> HIDE DEF d
    <3>3. CASE Exists(d)
      BY <3>1, <3>2, <3>3, QueueOneRow
    <3>4. CASE ~Exists(d)
      BY <3>2, <3>4, QueueUnchanged
    <3> QED BY <3>3, <3>4
  <2>4. CASE FailJob(w)
    <3>1. d \in Docs /\ Holds(w, d)
      BY <2>4, <1>b DEF FailJob, Holds
    <3>2. CASE ~Exists(d)
      BY <2>4, <3>2, QueueUnchanged DEF FailJob, UpdateJob
    <3>3. CASE Exists(d)
      <4>1. job[d].state = "running" /\ job[d].attempts = worker[w].attempts
        BY <1>a, <3>1, <3>3 DEF HolderOwnsJob
      <4>2. document[d].status # "ready" /\ (~IsUrl(d) => document[d].content = "raw")
        BY <1>c, <3>1, <3>3, <4>1
      <4>3. /\ \A e \in Docs : e # d => job'[e] = job[e]
            /\ job'[d].attempts = job[d].attempts
            /\ job'[d].state = IF Spent(w) THEN "dead" ELSE "pending"
            /\ document' = document
        BY <2>4, <3>1, <3>3, <1>b DEF FailJob, UpdateJob, Buried, Rescheduled, JobRow
      <4> HIDE DEF d
      <4>4. job'[d].state = "dead" => job'[d].attempts >= MaxAttempts
        BY <4>1, <4>3 DEF Spent
      <4> QED BY <3>1, <4>2, <4>3, <4>4, QueueOneRow DEF IsUrl
    <3> QED BY <3>2, <3>3
  <2>5. CASE FailDoc(w)
    <3>1. d \in Docs
      BY <2>5, <1>b DEF FailDoc
    <3>2. /\ \A e \in Docs : e # d => document'[e] = document[e]
          /\ job' = job
          /\ ~Exists(d) => document' = document
          /\ Exists(d) => /\ document'[d].status \in {"failed", "pending"}
                          /\ document'[d].content = document[d].content
                          /\ document'[d].key = document[d].key
      BY <2>5, <3>1, <1>b DEF FailDoc, UpdateDocument, DocumentRow
    <3> HIDE DEF d
    <3>3. CASE Exists(d)
      BY <1>c, <3>1, <3>2, <3>3, QueueOneRow DEF IsUrl
    <3>4. CASE ~Exists(d)
      BY <3>2, <3>4, QueueUnchanged
    <3> QED BY <3>3, <3>4
  <2> QED
    BY <1>4, <2>1, <2>2, <2>3, <2>4, <2>5 DEF WorkerStep
<1>5. ASSUME NEW w \in Workers, WorkerFault(w) PROVE QueueInv'
  BY <1>5, QueueUnchanged DEF WorkerFault, WorkerGone, LoadRawError, StatementError
<1>6. ASSUME NEW d \in Docs, Time(d) PROVE QueueInv'
  <2>1. /\ \A e \in Docs : e # d => document'[e] = document[e] /\ job'[e] = job[e]
        /\ document' = document
        /\ job'[d].state = job[d].state
        /\ job'[d].attempts = job[d].attempts
    BY <1>6, <1>b DEF Time, BackoffElapses, AbandonedLeaseLapses, HeldLeaseLapses,
       LeaseLapses, JobRow
  <2> QED BY <1>c, <2>1, QueueOneRow DEF IsUrl, Exists
<1>7. ASSUME NEW q \in Requests, NEW d \in Docs, RetryJob(q, d) \/ DeleteList(q, d)
      PROVE QueueInv'
  <2>1. CASE RetryJob(q, d)
    <3>1. Exists(d) /\ job[d].state = "dead"
      BY <2>1, <1>a DEF RetryJob, Retryable, RowsTied
    <3>2. /\ \A e \in Docs : e # d => job'[e] = job[e]
          /\ document' = document
          /\ job'[d].state = "pending"
      BY <2>1, <1>b DEF RetryJob, NoJob
    <3> QED BY <1>c, <3>1, <3>2, QueueOneRow DEF IsUrl
  <2>2. CASE DeleteList(q, d)
    BY <2>2, QueueUnchanged DEF DeleteList
  <2> QED BY <1>7, <2>1, <2>2
<1>8. ASSUME NEW q \in Requests, RequestStep(q) PROVE QueueInv'
  <2> DEFINE d == request[q].doc
  <2>1. CASE RetryDoc(q)
    <3>1. d \in Docs
      BY <2>1, <1>b DEF RetryDoc
    <3>2. /\ \A e \in Docs : e # d => document'[e] = document[e]
          /\ job' = job
          /\ ~Exists(d) => document' = document
          /\ Exists(d) => /\ document'[d].status = "pending"
                          /\ document'[d].content = document[d].content
                          /\ document'[d].key = document[d].key
      BY <2>1, <3>1, <1>b DEF RetryDoc, UpdateDocument, DocumentRow
    <3> HIDE DEF d
    <3>3. CASE Exists(d)
      BY <1>c, <3>1, <3>2, <3>3, QueueOneRow DEF IsUrl
    <3>4. CASE ~Exists(d)
      BY <3>2, <3>4, QueueUnchanged
    <3> QED BY <3>3, <3>4
  <2>2. CASE DeleteGraph(q) \/ DeleteChunks(q)
    BY <2>2, QueueUnchanged DEF DeleteGraph, DeleteChunks
  <2>3. CASE DeleteRow(q)
    <3>1. d \in Docs
      BY <2>3, <1>b DEF DeleteRow
    <3>2. /\ \A e \in Docs : e # d => document'[e] = document[e] /\ job'[e] = job[e]
          /\ Exists(d) => document'[d].status = "deleted" /\ job'[d].state = "none"
          /\ ~Exists(d) => document' = document /\ job' = job
      BY <2>3, <3>1, <1>b DEF DeleteRow, UpdateDocument, UpdateJob, Deleted, NoJob
    <3> HIDE DEF d
    <3>3. CASE Exists(d)
      BY <3>1, <3>2, <3>3, QueueOneRow DEF Exists
    <3>4. CASE ~Exists(d)
      BY <3>2, <3>4, QueueUnchanged
    <3> QED BY <3>3, <3>4
  <2> QED
    BY <1>8, <2>1, <2>2, <2>3 DEF RequestStep
<1>9. ASSUME NEW q \in Requests, RequestGone(q) PROVE QueueInv'
  BY <1>9, QueueUnchanged DEF RequestGone
<1> QED
  BY <1>1, <1>2, <1>3, <1>4, <1>5, <1>6, <1>7, <1>8, <1>9 DEF Next

\* A job that waits has an attempt left, and one that was abandoned while it
\* ran has one left or was abandoned by a fault.
BudgetInv ==
  \A d \in Docs :
    /\ job[d].attempts <= MaxAttempts + faults
    /\ job[d].state = "pending" => job[d].attempts < MaxAttempts
    /\ job[d].state = "running" /\ (\A w \in Workers : ~Holds(w, d))
         => job[d].attempts < MaxAttempts + faults

\* The attempt budget holds of the empty tables.
LEMMA BudgetInit == Init => BudgetInv
BY MaxAttemptsAssumption DEF Init, BudgetInv, NoJob

\* Steps that change no attempts, put no job back and abandon none.
LEMMA BudgetKept ==
  ASSUME TypeOK, BudgetInv, faults' = faults,
         \A d \in Docs :
           /\ job'[d].attempts = job[d].attempts
           /\ job'[d].state = "pending" => job[d].state = "pending"
           /\ job'[d].state = "running" =>
                /\ job[d].state = "running"
                /\ \A w \in Workers : Holds(w, d) => Holds(w, d)'
  PROVE  BudgetInv'
BY DEF BudgetInv

\* A fault pays for whatever it abandons.
LEMMA BudgetFault ==
  ASSUME TypeOK, BudgetInv, faults' = faults + 1,
         \A d \in Docs : job'[d].attempts = job[d].attempts
                         /\ job'[d].state = job[d].state
  PROVE  BudgetInv'
<1>1. \A d \in Docs : job[d].attempts \in Nat
  BY DEF TypeOK, JobRow
<1>2. MaxAttempts \in Nat /\ faults \in Nat
  BY MaxAttemptsAssumption, MaxFaultsAssumption DEF TypeOK
<1> QED BY <1>1, <1>2 DEF BudgetInv

\* Every step keeps the attempt budget, if leases cover the work.
LEMMA BudgetStep == Covered /\ BudgetInv /\ [Next]_vars => BudgetInv'
<1> SUFFICES ASSUME Covered, BudgetInv, [Next]_vars PROVE BudgetInv'
  OBVIOUS
<1>a. TypeOK /\ RowsTied /\ HolderOwnsJob
  BY DEF Covered, RowInv, HolderInv
<1>b. /\ document \in [Docs -> DocumentRow]
      /\ job \in [Docs -> JobRow]
      /\ worker \in [Workers -> WorkerState]
      /\ \A d \in Docs : job[d].attempts \in Nat
      /\ MaxAttempts \in Nat \ {0} /\ faults \in Nat
      /\ \A w \in Workers : worker[w].pc # "idle" => worker[w].doc \in Docs
      /\ \A q \in Requests : request[q].pc # "idle" => request[q].doc \in Docs
  BY <1>a, MaxAttemptsAssumption, MaxFaultsAssumption DEF TypeOK, JobRow
<1>q. UNCHANGED <<job, worker, faults>> => BudgetInv'
  BY <1>a, BudgetKept DEF Holds
<1>1. CASE UNCHANGED vars
  BY <1>1, <1>q DEF vars
<1>2. ASSUME NEW d \in Docs, NEW k \in Keys, Enqueue(d, k) PROVE BudgetInv'
  <2>1. /\ \A e \in Docs : e # d => job'[e] = job[e]
        /\ job'[d].attempts = 0 /\ job'[d].state = "pending"
        /\ UNCHANGED <<worker, faults>>
    BY <1>2, <1>b DEF Enqueue, NoJob
  <2> QED BY <2>1, <1>b DEF BudgetInv, Holds
<1>3. ASSUME NEW w \in Workers, NEW d \in Docs, Claim(w, d) PROVE BudgetInv'
  <2>1. Exists(d)
    BY <1>3, <1>a DEF Claim, Claimable, RowsTied
  <2>2. \A v \in Workers : ~Holds(v, d)
    BY <1>3, <2>1, <1>a DEF Claim, Claimable, HolderOwnsJob
  <2>3. job[d].attempts < MaxAttempts + faults
    BY <1>3, <2>2, <1>b DEF Claim, Claimable, BudgetInv
  <2>4. /\ \A e \in Docs : e # d => job'[e] = job[e]
        /\ job'[d].attempts = job[d].attempts + 1 /\ job'[d].state = "running"
        /\ faults' = faults
    BY <1>3, <1>b DEF Claim
  <2>5. /\ Holds(w, d)'
        /\ \A v \in Workers, e \in Docs : Holds(v, e) => Holds(v, e)'
    BY <1>3, <1>b DEF Claim, Claimed, Holds
  <2>6. \A e \in Docs : e # d =>
          /\ job'[e].attempts <= MaxAttempts + faults'
          /\ job'[e].state = "pending" => job'[e].attempts < MaxAttempts
          /\ job'[e].state = "running" /\ (\A v \in Workers : ~Holds(v, e)')
               => job'[e].attempts < MaxAttempts + faults'
    BY <2>4, <2>5 DEF BudgetInv
  <2>7. /\ job'[d].attempts <= MaxAttempts + faults'
        /\ job'[d].state # "pending"
        /\ ~(\A v \in Workers : ~Holds(v, d)')
    BY <2>3, <2>4, <2>5, <1>b
  <2> QED BY <2>6, <2>7 DEF BudgetInv
<1>4. ASSUME NEW w \in Workers, WorkerStep(w) PROVE BudgetInv'
  <2> DEFINE d == worker[w].doc
  <2>1. CASE LoadRaw(w) \/ ParseOK(w) \/ ParseError(w) \/ SetPhase(w)
             \/ ImportOK(w) \/ ImportError(w) \/ FailDoc(w)
    <3>1. \A v \in Workers, e \in Docs : Holds(v, e) => Holds(v, e)'
      BY <2>1, <1>b DEF LoadRaw, ParseOK, ParseError, SetPhase, ImportOK, ImportError,
         FailDoc, Goto, Holds, WorkerState, IdleWorker
    <3>2. UNCHANGED <<job, faults>>
      BY <2>1 DEF LoadRaw, ParseOK, ParseError, SetPhase, ImportOK, ImportError, FailDoc
    <3> QED BY <3>1, <3>2, <1>a, BudgetKept
  <2>2. CASE Commit(w)
    <3>1. d \in Docs
      BY <2>2, <1>b DEF Commit
    <3>2. /\ \A e \in Docs : e # d => job'[e] = job[e]
          /\ job'[d].attempts = job[d].attempts
          /\ job'[d].state \in {"done", "none"}
          /\ faults' = faults
      BY <2>2, <3>1, <1>a, <1>b DEF Commit, UpdateJob, Done, JobRow, RowsTied
    <3>3. \A v \in Workers, e \in Docs : e # d /\ Holds(v, e) => Holds(v, e)'
      BY <2>2, <1>b DEF Commit, IdleWorker, Holds
    <3> HIDE DEF d
    <3> QED BY <3>1, <3>2, <3>3, <1>a, BudgetKept
  <2>3. CASE FailJob(w)
    <3>1. d \in Docs /\ Holds(w, d)
      BY <2>3, <1>b DEF FailJob, Holds
    <3>2. \A v \in Workers, e \in Docs : e # d /\ Holds(v, e) => Holds(v, e)'
      BY <2>3, <1>b DEF FailJob, Goto, Holds, WorkerState
    <3>3. CASE ~Exists(d)
      <4>1. job' = job /\ job[d].state = "none" /\ faults' = faults
        BY <2>3, <3>1, <3>3, <1>a DEF FailJob, UpdateJob, RowsTied
      <4> HIDE DEF d
      <4> QED BY <3>2, <4>1, <1>a, BudgetKept
    <3>4. CASE Exists(d)
      <4>1. job[d].attempts = worker[w].attempts
        BY <3>1, <3>4, <1>a DEF HolderOwnsJob
      <4>2. /\ \A e \in Docs : e # d => job'[e] = job[e]
            /\ job'[d].attempts = job[d].attempts
            /\ job'[d].state = IF Spent(w) THEN "dead" ELSE "pending"
            /\ faults' = faults
        BY <2>3, <3>1, <3>4, <1>b DEF FailJob, UpdateJob, Buried, Rescheduled, JobRow
      <4>3. job'[d].state = "pending" => job'[d].attempts < MaxAttempts
        BY <4>1, <4>2, <3>1, <1>b DEF Spent
      <4> HIDE DEF d
      <4> QED BY <3>1, <3>2, <4>2, <4>3, <1>b DEF BudgetInv
    <3> QED BY <3>3, <3>4
  <2> QED BY <1>4, <2>1, <2>2, <2>3 DEF WorkerStep
<1>5. ASSUME NEW w \in Workers, WorkerFault(w) PROVE BudgetInv'
  <2>1. faults' = faults + 1 /\ job' = job
    BY <1>5 DEF WorkerFault, WorkerGone, LoadRawError, StatementError, Fault
  <2> QED BY <2>1, <1>a, BudgetFault
<1>6. ASSUME NEW d \in Docs, Time(d) PROVE BudgetInv'
  <2>1. /\ \A e \in Docs : job'[e].attempts = job[e].attempts
                           /\ job'[e].state = job[e].state
        /\ worker' = worker
        /\ faults' = faults
    BY <1>6, <1>b DEF Time, BackoffElapses, AbandonedLeaseLapses, HeldLeaseLapses,
       LeaseLapses, JobRow, Covered
  <2> QED BY <2>1, <1>a, BudgetKept DEF Holds
<1>7. ASSUME NEW q \in Requests, NEW d \in Docs, RetryJob(q, d) \/ DeleteList(q, d)
      PROVE BudgetInv'
  <2>1. CASE RetryJob(q, d)
    <3>1. /\ \A e \in Docs : e # d => job'[e] = job[e]
          /\ job'[d].attempts = 0 /\ job'[d].state = "pending"
          /\ UNCHANGED <<worker, faults>>
      BY <2>1, <1>b DEF RetryJob, NoJob
    <3> QED BY <3>1, <1>b DEF BudgetInv, Holds
  <2>2. CASE DeleteList(q, d)
    BY <2>2, <1>q DEF DeleteList
  <2> QED BY <1>7, <2>1, <2>2
<1>8. ASSUME NEW q \in Requests, RequestStep(q) PROVE BudgetInv'
  <2> DEFINE d == request[q].doc
  <2>1. CASE RetryDoc(q) \/ DeleteGraph(q) \/ DeleteChunks(q)
    BY <2>1, <1>q DEF RetryDoc, DeleteGraph, DeleteChunks
  <2>2. CASE DeleteRow(q)
    <3>1. d \in Docs
      BY <2>2, <1>b DEF DeleteRow
    <3>2. /\ \A e \in Docs : e # d => job'[e] = job[e]
          /\ \/ job'[d] = job[d]
             \/ job'[d].attempts = 0 /\ job'[d].state = "none"
          /\ UNCHANGED <<worker, faults>>
      BY <2>2, <3>1, <1>b DEF DeleteRow, UpdateJob, NoJob
    <3> HIDE DEF d
    <3>3. CASE job'[d] = job[d]
      BY <3>1, <3>2, <3>3, <1>b DEF BudgetInv, Holds
    <3>4. CASE job'[d].attempts = 0 /\ job'[d].state = "none"
      BY <3>1, <3>2, <3>4, <1>b DEF BudgetInv, Holds
    <3> QED BY <3>2, <3>3, <3>4
  <2> QED BY <1>8, <2>1, <2>2 DEF RequestStep
<1>9. ASSUME NEW q \in Requests, RequestGone(q) PROVE BudgetInv'
  <2>1. faults' = faults + 1 /\ job' = job
    BY <1>9 DEF RequestGone, Fault
  <2> QED BY <2>1, <1>a, BudgetFault
<1> QED
  BY <1>1, <1>2, <1>3, <1>4, <1>5, <1>6, <1>7, <1>8, <1>9 DEF Next

\* From loadRaw on a worker has the bytes, and before its success transaction
\* the chunks they give are in the store.
Loaded(w, d) ==
  worker[w].pc \in {"parse", "phase", "import", "commit"} /\ worker[w].doc = d

Filed(w, d) == worker[w].pc = "commit" /\ worker[w].doc = d

IndexInv ==
  /\ \A w \in Workers, d \in Docs :
       /\ Loaded(w, d) /\ Exists(d) /\ ~IsUrl(d) => worker[w].raw = "raw"
       /\ Filed(w, d) /\ Exists(d) /\ d \notin doomed => chunks[d] = 1
  /\ DoneMeansIndexed

\* The index is complete for the empty tables.
LEMMA IndexInit == Init => IndexInv
BY DEF Init, IndexInv, DoneMeansIndexed, NoJob, IdleWorker, Loaded, Filed

\* Steps that store no chunks, finish no job and take no worker forward to
\* the bytes or to the success transaction.
LEMMA IndexKept ==
  ASSUME IndexInv, chunks' = chunks, doomed \subseteq doomed',
         \A w \in Workers, d \in Docs :
           /\ Loaded(w, d)' => Loaded(w, d) /\ worker'[w].raw = worker[w].raw
           /\ Filed(w, d)' => Filed(w, d)
           /\ Loaded(w, d)' /\ Exists(d)' =>
                Exists(d) /\ document'[d].key = document[d].key,
         \A d \in Docs :
           job'[d].state = "done" =>
             job[d].state = "done" /\ document'[d].chunkCount = document[d].chunkCount
  PROVE  IndexInv'
<1>1. DoneMeansIndexed'
  BY DEF IndexInv, DoneMeansIndexed
<1>2. ASSUME NEW w \in Workers, NEW d \in Docs, Loaded(w, d)', Exists(d)', ~IsUrl(d)'
      PROVE  worker'[w].raw = "raw"
  BY <1>2 DEF IndexInv, IsUrl
<1>3. ASSUME NEW w \in Workers, NEW d \in Docs, Filed(w, d)', Exists(d)', d \notin doomed'
      PROVE  chunks'[d] = 1
  BY <1>3 DEF IndexInv, Loaded, Filed
<1> QED BY <1>1, <1>2, <1>3 DEF IndexInv

\* Steps that leave the rows of existing documents to the same workers.
LEMMA IndexIdle ==
  ASSUME IndexInv, UNCHANGED <<document, job, chunks>>, doomed \subseteq doomed',
         \A w \in Workers, d \in Docs :
           /\ Loaded(w, d)' => Loaded(w, d) /\ worker'[w].raw = worker[w].raw
           /\ Filed(w, d)' => Filed(w, d)
  PROVE  IndexInv'
BY IndexKept DEF Exists

\* Every step keeps the index complete, if leases cover the work and the content
\* can be read.
LEMMA IndexStep ==
  ~ReadFaults /\ Covered /\ QueueInv /\ IndexInv /\ [Next]_vars => IndexInv'
<1> SUFFICES ASSUME ~ReadFaults, Covered, QueueInv, IndexInv, [Next]_vars
             PROVE  IndexInv'
  OBVIOUS
<1>a. TypeOK /\ RowsTied /\ BusyWithUsed /\ HolderOwnsJob /\ SingleHolder
      /\ RawKeptWhileNeeded
  BY DEF Covered, RowInv, HolderInv, QueueInv
<1>b. /\ document \in [Docs -> DocumentRow]
      /\ job \in [Docs -> JobRow]
      /\ chunks \in [Docs -> 0..1]
      /\ worker \in [Workers -> WorkerState]
      /\ \A w \in Workers : worker[w].pc # "idle" => worker[w].doc \in Docs
      /\ \A q \in Requests : request[q].pc # "idle" => request[q].doc \in Docs
  BY <1>a DEF TypeOK
<1>c. \A w \in Workers, d \in Docs : Holds(w, d) => job[d].state # "done"
  BY <1>a DEF HolderOwnsJob, RowsTied
<1>w. worker' = worker => \A w \in Workers, d \in Docs :
        /\ Loaded(w, d)' => Loaded(w, d) /\ worker'[w].raw = worker[w].raw
        /\ Filed(w, d)' => Filed(w, d)
  BY DEF Loaded, Filed
<1>1. CASE UNCHANGED vars
  BY <1>1, <1>w, IndexIdle DEF vars
<1>2. ASSUME NEW d \in Docs, NEW k \in Keys, Enqueue(d, k) PROVE IndexInv'
  <2>1. /\ UNCHANGED <<chunks, worker, doomed>>
        /\ \A e \in Docs : e # d => document'[e] = document[e] /\ job'[e] = job[e]
        /\ job'[d].state = "pending"
    BY <1>2, <1>b DEF Enqueue, NoJob
  <2>2. \A w \in Workers : ~Loaded(w, d)
    BY <1>2, <1>a DEF Enqueue, BusyWithUsed, Loaded
  <2>3. \A w \in Workers, e \in Docs : Loaded(w, e)' /\ Exists(e)' =>
          Exists(e) /\ document'[e].key = document[e].key
    BY <2>1, <2>2 DEF Loaded, Exists
  <2> QED BY <1>w, <2>1, <2>3, IndexKept
<1>3. ASSUME NEW w \in Workers, NEW d \in Docs, Claim(w, d) PROVE IndexInv'
  <2>1. /\ UNCHANGED <<chunks, doomed>>
        /\ \A e \in Docs : /\ document'[e].key = document[e].key
                           /\ document'[e].chunkCount = document[e].chunkCount
        /\ \A e \in Docs : e # d => document'[e] = document[e] /\ job'[e] = job[e]
        /\ job'[d].state = "running"
    BY <1>3, <1>b DEF Claim, DocumentRow
  <2>2. Exists(d)
    BY <1>3, <1>a DEF Claim, Claimable, RowsTied
  <2>3. \A v \in Workers, e \in Docs :
          /\ Loaded(v, e)' => Loaded(v, e) /\ worker'[v].raw = worker[v].raw
          /\ Filed(v, e)' => Filed(v, e)
    BY <1>3, <1>b DEF Claim, Claimed, Loaded, Filed
  <2>4. \A e \in Docs : Exists(e)' => Exists(e)
    BY <2>1, <2>2 DEF Exists
  <2> QED BY <2>1, <2>3, <2>4, IndexKept
<1>4. ASSUME NEW w \in Workers, WorkerStep(w) PROVE IndexInv'
  <2> DEFINE d == worker[w].doc
  <2>1. CASE LoadRaw(w)
    <3>1. d \in Docs /\ Holds(w, d)
      BY <2>1, <1>b DEF LoadRaw, Holds
    <3>2. Exists(d) /\ ~IsUrl(d) => document[d].content = "raw"
      BY <3>1, <1>a, <1>c DEF RawKeptWhileNeeded
    <3>3. UNCHANGED <<document, job, chunks, doomed>>
      BY <2>1 DEF LoadRaw
    <3>4. /\ \A v \in Workers : v # w => worker'[v] = worker[v]
          /\ worker'[w].doc = d /\ worker'[w].pc = "parse"
          /\ Exists(d) => worker'[w].raw = document[d].content
      BY <2>1, <1>b DEF LoadRaw, WorkerState
    <3> HIDE DEF d
    <3>5. ASSUME NEW v \in Workers, NEW e \in Docs, Loaded(v, e)', Exists(e)', ~IsUrl(e)'
          PROVE  worker'[v].raw = "raw"
      <4>1. Exists(e) /\ ~IsUrl(e)
        BY <3>5, <3>3 DEF Exists, IsUrl
      <4>2. CASE v = w
        BY <3>5, <4>1, <4>2, <3>2, <3>4 DEF Loaded
      <4>3. CASE v # w
        BY <3>5, <4>1, <4>3, <3>4 DEF Loaded, IndexInv
      <4> QED BY <4>2, <4>3
    <3>6. ASSUME NEW v \in Workers, NEW e \in Docs, Filed(v, e)', Exists(e)', e \notin doomed'
          PROVE  chunks'[e] = 1
      BY <3>6, <3>3, <3>4 DEF Filed, IndexInv, Exists
    <3>7. DoneMeansIndexed'
      BY <3>3 DEF IndexInv, DoneMeansIndexed
    <3> QED BY <3>5, <3>6, <3>7 DEF IndexInv
  <2>2. CASE ParseOK(w) \/ ParseError(w)
    <3>1. \A v \in Workers, e \in Docs :
            /\ Loaded(v, e)' => Loaded(v, e) /\ worker'[v].raw = worker[v].raw
            /\ Filed(v, e)' => Filed(v, e)
      BY <2>2, <1>b DEF ParseOK, ParseError, Goto, Loaded, Filed, WorkerState
    <3> QED BY <2>2, <3>1, IndexIdle DEF ParseOK, ParseError
  <2>3. CASE SetPhase(w)
    <3>1. d \in Docs
      BY <2>3, <1>b DEF SetPhase
    <3>2. \A v \in Workers, e \in Docs :
            /\ Loaded(v, e)' => Loaded(v, e) /\ worker'[v].raw = worker[v].raw
            /\ Filed(v, e)' => Filed(v, e)
      BY <2>3, <1>b DEF SetPhase, Goto, Loaded, Filed, WorkerState
    <3>3. /\ UNCHANGED <<job, chunks, doomed>>
          /\ \A e \in Docs : /\ document'[e].status = document[e].status
                             /\ document'[e].key = document[e].key
                             /\ document'[e].chunkCount = document[e].chunkCount
      BY <2>3, <3>1, <1>b DEF SetPhase, UpdateDocument, DocumentRow
    <3> QED BY <3>2, <3>3, IndexKept DEF Exists
  <2>4. CASE ImportOK(w)
    <3>1. d \in Docs /\ Holds(w, d) /\ Loaded(w, d)
      BY <2>4, <1>b DEF ImportOK, Holds, Loaded
    <3>2. Exists(d) => TextChunks(w) = 1
      BY <3>1 DEF IndexInv, TextChunks
    <3>3. /\ UNCHANGED <<document, job, doomed>>
          /\ chunks'[d] = TextChunks(w)
          /\ \A e \in Docs : e # d => chunks'[e] = chunks[e]
          /\ \A v \in Workers : v # w => worker'[v] = worker[v]
          /\ worker'[w].doc = d /\ worker'[w].raw = worker[w].raw
      BY <2>4, <3>1, <1>b DEF ImportOK, Goto, WorkerState
    <3>4. \A v \in Workers, e \in Docs : Loaded(v, e)' =>
            Loaded(v, e) /\ worker'[v].raw = worker[v].raw
      BY <3>1, <3>3 DEF Loaded
    <3>5. \A e \in Docs : job[e].state = "done" => e # d
      BY <3>1, <1>c
    <3>6. \A v \in Workers, e \in Docs : Filed(v, e)' => e = d \/ Filed(v, e)
      BY <3>1, <3>3 DEF Filed
    <3> HIDE DEF d
    <3> QED
      BY <3>2, <3>3, <3>4, <3>5, <3>6 DEF IndexInv, DoneMeansIndexed, Exists, IsUrl
  <2>5. CASE ImportError(w)
    <3>1. d \in Docs /\ Holds(w, d)
      BY <2>5, <1>b DEF ImportError, Holds
    <3>2. /\ UNCHANGED <<document, job, doomed>>
          /\ \A e \in Docs : e # d => chunks'[e] = chunks[e]
      BY <2>5, <3>1, <1>b DEF ImportError
    <3>3. \A v \in Workers, e \in Docs :
            /\ Loaded(v, e)' => Loaded(v, e) /\ worker'[v].raw = worker[v].raw
            /\ Filed(v, e)' => Filed(v, e) /\ v # w
      BY <2>5, <1>b DEF ImportError, Goto, Loaded, Filed, WorkerState
    <3>4. \A v \in Workers, e \in Docs : Filed(v, e)' => e # d
      BY <3>1, <3>3, <1>a DEF SingleHolder, Holds, Filed
    <3>5. \A e \in Docs : job[e].state = "done" => e # d
      BY <3>1, <1>c
    <3> HIDE DEF d
    <3> QED
      BY <3>2, <3>3, <3>4, <3>5 DEF IndexInv, DoneMeansIndexed, Exists, IsUrl
  <2>6. CASE Commit(w)
    <3>1. d \in Docs /\ Filed(w, d) /\ Loaded(w, d)
      BY <2>6, <1>b DEF Commit, Filed, Loaded
    <3>2. Exists(d) => TextChunks(w) = 1 /\ (d \notin doomed => chunks[d] = 1)
      BY <3>1 DEF IndexInv, TextChunks
    <3>3. /\ UNCHANGED <<chunks, doomed>>
          /\ \A e \in Docs : e # d => document'[e] = document[e] /\ job'[e] = job[e]
          /\ ~Exists(d) => document' = document /\ job' = job
          /\ Exists(d) => /\ document'[d].key = document[d].key
                          /\ document'[d].chunkCount = TextChunks(w)
      BY <2>6, <3>1, <1>b DEF Commit, UpdateDocument, UpdateJob, Indexed, DocumentRow
    <3>4. \A v \in Workers, e \in Docs :
            /\ Loaded(v, e)' => Loaded(v, e) /\ worker'[v].raw = worker[v].raw
            /\ Filed(v, e)' => Filed(v, e)
      BY <2>6, <1>b DEF Commit, IdleWorker, Loaded, Filed
    <3> HIDE DEF d
    <3>5. CASE ~Exists(d)
      BY <3>3, <3>4, <3>5, IndexIdle
    <3>6. CASE Exists(d)
      <4>1. DoneMeansIndexed'
        BY <3>2, <3>3, <3>6 DEF IndexInv, DoneMeansIndexed
      <4>2. \A e \in Docs : Exists(e)' => Exists(e)
        BY <3>3, <3>6 DEF Exists
      <4>3. \A e \in Docs : document'[e].key = document[e].key
        BY <3>3, <3>6
      <4> QED BY <3>3, <3>4, <4>1, <4>2, <4>3 DEF IndexInv, IsUrl
    <3> QED BY <3>5, <3>6
  <2>7. CASE FailJob(w)
    <3>1. d \in Docs
      BY <2>7, <1>b DEF FailJob
    <3>2. \A v \in Workers, e \in Docs :
            /\ Loaded(v, e)' => Loaded(v, e) /\ worker'[v].raw = worker[v].raw
            /\ Filed(v, e)' => Filed(v, e)
      BY <2>7, <1>b DEF FailJob, Goto, Loaded, Filed, WorkerState
    <3>3. /\ UNCHANGED <<document, chunks, doomed>>
          /\ \A e \in Docs : e # d => job'[e] = job[e]
          /\ job'[d] = job[d] \/ job'[d].state # "done"
      BY <2>7, <3>1, <1>b DEF FailJob, UpdateJob, Buried, Rescheduled, JobRow
    <3> HIDE DEF d
    <3> QED BY <3>2, <3>3, IndexKept DEF Exists
  <2>8. CASE FailDoc(w)
    <3>1. d \in Docs
      BY <2>8, <1>b DEF FailDoc
    <3>2. \A v \in Workers, e \in Docs :
            /\ Loaded(v, e)' => Loaded(v, e) /\ worker'[v].raw = worker[v].raw
            /\ Filed(v, e)' => Filed(v, e)
      BY <2>8, <1>b DEF FailDoc, IdleWorker, Loaded, Filed
    <3>3. /\ UNCHANGED <<job, chunks, doomed>>
          /\ \A e \in Docs : /\ Exists(e)' => Exists(e)
                             /\ document'[e].key = document[e].key
                             /\ document'[e].chunkCount = document[e].chunkCount
      BY <2>8, <3>1, <1>b DEF FailDoc, UpdateDocument, DocumentRow, Exists
    <3>4. \A v \in Workers, e \in Docs : Loaded(v, e)' /\ Exists(e)' =>
            Exists(e) /\ document'[e].key = document[e].key
      BY <3>3
    <3> QED BY <3>2, <3>3, <3>4, IndexKept
  <2> QED
    BY <1>4, <2>1, <2>2, <2>3, <2>4, <2>5, <2>6, <2>7, <2>8 DEF WorkerStep
<1>5. ASSUME NEW w \in Workers, WorkerFault(w) PROVE IndexInv'
  <2>1. ~LoadRawError(w)
    BY DEF LoadRawError
  <2>2. \A v \in Workers, e \in Docs :
          /\ Loaded(v, e)' => Loaded(v, e) /\ worker'[v].raw = worker[v].raw
          /\ Filed(v, e)' => Filed(v, e)
    BY <1>5, <2>1, <1>b DEF WorkerFault, WorkerGone, StatementError, Goto, IdleWorker,
       Loaded, Filed, WorkerState
  <2> QED BY <1>5, <2>1, <2>2, IndexIdle DEF WorkerFault, WorkerGone, StatementError
<1>6. ASSUME NEW d \in Docs, Time(d) PROVE IndexInv'
  <2>1. /\ UNCHANGED <<document, chunks, worker, doomed>>
        /\ \A e \in Docs : job'[e].state = job[e].state
    BY <1>6, <1>b DEF Time, BackoffElapses, AbandonedLeaseLapses, HeldLeaseLapses,
       LeaseLapses, JobRow
  <2> QED BY <1>w, <2>1, IndexKept DEF Exists
<1>7. ASSUME NEW q \in Requests, NEW d \in Docs, RetryJob(q, d) \/ DeleteList(q, d)
      PROVE IndexInv'
  <2>1. CASE RetryJob(q, d)
    <3>1. /\ UNCHANGED <<document, chunks, worker, doomed>>
          /\ \A e \in Docs : e # d => job'[e] = job[e]
          /\ job'[d].state = "pending"
      BY <2>1, <1>b DEF RetryJob, NoJob
    <3> QED BY <1>w, <3>1, IndexKept DEF Exists
  <2>2. CASE DeleteList(q, d)
    BY <2>2, <1>w, IndexIdle DEF DeleteList
  <2> QED BY <1>7, <2>1, <2>2
<1>8. ASSUME NEW q \in Requests, RequestStep(q) PROVE IndexInv'
  <2> DEFINE d == request[q].doc
  <2>1. CASE RetryDoc(q)
    <3>1. d \in Docs
      BY <2>1, <1>b DEF RetryDoc
    <3>2. /\ UNCHANGED <<job, chunks, worker, doomed>>
          /\ \A e \in Docs : /\ Exists(e)' => Exists(e)
                             /\ document'[e].key = document[e].key
                             /\ document'[e].chunkCount = document[e].chunkCount
      BY <2>1, <3>1, <1>b DEF RetryDoc, UpdateDocument, DocumentRow, Exists
    <3>3. \A v \in Workers, e \in Docs : Loaded(v, e)' /\ Exists(e)' =>
            Exists(e) /\ document'[e].key = document[e].key
      BY <3>2
    <3> QED BY <1>w, <3>2, <3>3, IndexKept
  <2>2. CASE DeleteGraph(q)
    BY <2>2, <1>w, IndexIdle DEF DeleteGraph
  <2>3. CASE DeleteChunks(q)
    <3>1. d \in Docs
      BY <2>3, <1>b DEF DeleteChunks
    <3>2. /\ UNCHANGED <<document, job, worker>>
          /\ doomed' = doomed \cup {d}
          /\ \A e \in Docs : e # d => chunks'[e] = chunks[e]
      BY <2>3, <3>1, <1>b DEF DeleteChunks
    <3> HIDE DEF d
    <3> QED
      BY <1>w, <3>2 DEF IndexInv, DoneMeansIndexed, Exists, IsUrl
  <2>4. CASE DeleteRow(q)
    <3>1. d \in Docs
      BY <2>4, <1>b DEF DeleteRow
    <3>2. /\ UNCHANGED <<chunks, worker, doomed>>
          /\ \A e \in Docs : e # d => document'[e] = document[e] /\ job'[e] = job[e]
          /\ ~Exists(d) => document' = document /\ job' = job
          /\ Exists(d) => document'[d].status = "deleted" /\ job'[d].state = "none"
      BY <2>4, <3>1, <1>b DEF DeleteRow, UpdateDocument, UpdateJob, Deleted, NoJob
    <3> HIDE DEF d
    <3>3. CASE ~Exists(d)
      BY <1>w, <3>2, <3>3, IndexIdle
    <3>4. CASE Exists(d)
      <4>1. \A e \in Docs : Exists(e)' => e # d /\ Exists(e) /\ document'[e] = document[e]
        BY <3>2, <3>4 DEF Exists
      <4>2. \A e \in Docs : job'[e].state = "done" => e # d
        BY <3>2, <3>4
      <4> QED BY <1>w, <3>2, <4>1, <4>2, IndexKept
    <3> QED BY <3>3, <3>4
  <2> QED
    BY <1>8, <2>1, <2>2, <2>3, <2>4 DEF RequestStep
<1>9. ASSUME NEW q \in Requests, RequestGone(q) PROVE IndexInv'
  BY <1>9, <1>w, IndexIdle DEF RequestGone
<1> QED
  BY <1>1, <1>2, <1>3, <1>4, <1>5, <1>6, <1>7, <1>8, <1>9 DEF Next

------------------------------------------------------------------------------
(* What a step may never do.                                               *)

\* Only a claim takes over a lock, and only where the lease has lapsed.
LEMMA LockStep ==
  RowInv /\ [Next]_vars =>
    \A d \in Docs :
      (/\ job[d].owner # NoWorker
       /\ job'[d].owner \notin {NoWorker, job[d].owner})
      => job[d].lease = "lapsed"
<1> SUFFICES ASSUME RowInv, [Next]_vars, NEW d \in Docs, job[d].owner # NoWorker,
                    job'[d].owner \notin {NoWorker, job[d].owner}
             PROVE  job[d].lease = "lapsed"
  OBVIOUS
<1>a. /\ job \in [Docs -> JobRow]
      /\ NoStrandedJob
      /\ \A w \in Workers : worker[w].pc # "idle" => worker[w].doc \in Docs
      /\ \A q \in Requests : request[q].pc # "idle" => request[q].doc \in Docs
  BY DEF RowInv, TypeOK
<1>1. ASSUME NEW w \in Workers, NEW e \in Docs, Claim(w, e) PROVE job[d].lease = "lapsed"
  BY <1>1, <1>a DEF Claim, Claimable, NoStrandedJob
<1>2. ASSUME NEW w \in Workers, WorkerStep(w) PROVE FALSE
  <2>1. CASE Commit(w)
    BY <2>1, <1>a DEF Commit, UpdateJob, Done, JobRow
  <2>2. CASE FailJob(w)
    BY <2>2, <1>a DEF FailJob, UpdateJob, Buried, Rescheduled, JobRow
  <2> QED
    BY <1>2, <2>1, <2>2 DEF WorkerStep, LoadRaw, ParseOK, ParseError, SetPhase, ImportOK,
       ImportError, FailDoc
<1>3. ASSUME NEW e \in Docs, Time(e) PROVE FALSE
  BY <1>3, <1>a DEF Time, BackoffElapses, AbandonedLeaseLapses, HeldLeaseLapses,
     LeaseLapses, JobRow
<1>4. ASSUME NEW q \in Requests, RequestStep(q) PROVE FALSE
  BY <1>4, <1>a DEF RequestStep, RetryDoc, DeleteGraph, DeleteChunks, DeleteRow, UpdateJob,
     NoJob
<1> QED
  BY <1>a, <1>1, <1>2, <1>3, <1>4
  DEF Next, vars, Enqueue, NoJob, WorkerFault, WorkerGone, LoadRawError, StatementError,
      RetryJob, DeleteList, RequestGone

\* Under the lease assumption only DeleteRow touches the row of a done job.
LEMMA DoneStep ==
  Covered /\ [Next]_vars =>
    \A d \in Docs : job[d].state = "done" => job'[d].state \in {"done", "none"}
<1> SUFFICES ASSUME Covered, [Next]_vars, NEW d \in Docs, job[d].state = "done"
             PROVE  job'[d].state \in {"done", "none"}
  OBVIOUS
<1>a. /\ job \in [Docs -> JobRow]
      /\ RowsTied /\ HolderOwnsJob
      /\ Exists(d)
      /\ \A w \in Workers : worker[w].pc # "idle" => worker[w].doc \in Docs
      /\ \A q \in Requests : request[q].pc # "idle" => request[q].doc \in Docs
  BY DEF Covered, RowInv, HolderInv, TypeOK, RowsTied
<1>1. ASSUME NEW w \in Workers, WorkerStep(w) PROVE job'[d].state \in {"done", "none"}
  <2>1. CASE Commit(w)
    BY <2>1, <1>a DEF Commit, UpdateJob, Done, JobRow
  <2>2. CASE FailJob(w)
    <3>1. worker[w].doc # d
      BY <2>2, <1>a DEF FailJob, HolderOwnsJob, Holds
    <3> QED BY <2>2, <3>1, <1>a DEF FailJob, UpdateJob
  <2> QED
    BY <1>1, <2>1, <2>2 DEF WorkerStep, LoadRaw, ParseOK, ParseError, SetPhase, ImportOK,
       ImportError, FailDoc
<1>2. ASSUME NEW e \in Docs, Time(e) PROVE job'[d].state \in {"done", "none"}
  BY <1>2, <1>a DEF Time, BackoffElapses, AbandonedLeaseLapses, HeldLeaseLapses,
     LeaseLapses, JobRow
<1>3. ASSUME NEW q \in Requests, RequestStep(q) PROVE job'[d].state \in {"done", "none"}
  BY <1>3, <1>a DEF RequestStep, RetryDoc, DeleteGraph, DeleteChunks, DeleteRow, UpdateJob,
     NoJob
<1>4. ASSUME NEW e \in Docs, NEW k \in Keys, Enqueue(e, k)
      PROVE job'[d].state \in {"done", "none"}
  BY <1>4, <1>a DEF Enqueue, Exists
<1>5. ASSUME NEW w \in Workers, NEW e \in Docs, Claim(w, e)
      PROVE job'[d].state \in {"done", "none"}
  BY <1>5, <1>a DEF Claim, Claimable
<1>6. ASSUME NEW q \in Requests, NEW e \in Docs, RetryJob(q, e)
      PROVE job'[d].state \in {"done", "none"}
  BY <1>6, <1>a DEF RetryJob, Retryable
<1> QED
  BY <1>a, <1>1, <1>2, <1>3, <1>4, <1>5, <1>6
  DEF Next, vars, WorkerFault, WorkerGone, LoadRawError, StatementError, DeleteList,
      RequestGone

------------------------------------------------------------------------------
(* The queue implements JobLifecycle.                                      *)

\* A step that writes the rows of one document moves its stage, or none.
LEMMA StageMoves ==
  ASSUME NEW d \in Docs,
         \A e \in Docs : e # d => document'[e] = document[e] /\ job'[e] = job[e]
  PROVE  Stage' = [Stage EXCEPT ![d] = Stage'[d]]
BY DEF Stage

\* Steps that leave states alone, and neither add nor remove a document, keep the
\* stages.
LEMMA StageKept ==
  ASSUME \A d \in Docs :
           /\ document'[d].status \in {"unused", "deleted"} \/
              document[d].status \in {"unused", "deleted"}
                => document'[d].status = document[d].status
           /\ job'[d].state = job[d].state
  PROVE  Stage' = Stage
BY DEF Stage

\* The empty tables are an initial state of the life cycle.
LEMMA LifecycleInit == Init => Lifecycle!Init
BY DEF Init, Lifecycle!Init, Stage

\* Every step of the queue is a step of the life cycle, or none.
LEMMA LifecycleStep == Covered /\ [Next]_vars => [Lifecycle!Next]_Stage
<1> SUFFICES ASSUME Covered, [Next]_vars PROVE Lifecycle!Next \/ Stage' = Stage
  OBVIOUS
<1>a. /\ document \in [Docs -> DocumentRow]
      /\ job \in [Docs -> JobRow]
      /\ RowsTied /\ HolderOwnsJob
      /\ \A w \in Workers : worker[w].pc # "idle" => worker[w].doc \in Docs
      /\ \A q \in Requests : request[q].pc # "idle" => request[q].doc \in Docs
  BY DEF Covered, RowInv, HolderInv, TypeOK
<1>b. UNCHANGED <<document, job>> => Stage' = Stage
  BY DEF Stage
<1>1. CASE UNCHANGED vars
  BY <1>1, <1>b DEF vars
<1>2. ASSUME NEW d \in Docs, NEW k \in Keys, Enqueue(d, k) PROVE Lifecycle!Next
  <2>1. Stage' = [Stage EXCEPT ![d] = Stage'[d]]
    BY <1>2, <1>a, StageMoves DEF Enqueue
  <2>2. Stage[d] = "absent" /\ Stage'[d] = "queued"
    BY <1>2, <1>a DEF Enqueue, NoJob, Stage, StageOf
  <2> QED BY <2>1, <2>2 DEF Lifecycle!Next, Lifecycle!Accept, Lifecycle!Move
<1>3. ASSUME NEW w \in Workers, NEW d \in Docs, Claim(w, d)
      PROVE Lifecycle!Next \/ Stage' = Stage
  <2>1. Stage' = [Stage EXCEPT ![d] = Stage'[d]]
    BY <1>3, <1>a, StageMoves DEF Claim
  <2>2. Exists(d) /\ job[d].state \in {"pending", "running"}
    BY <1>3, <1>a DEF Claim, Claimable, RowsTied
  <2>3. Stage'[d] = "working"
    BY <1>3, <1>a DEF Claim, Stage, StageOf
  <2>4. Stage[d] \in {"queued", "working"}
    BY <2>2 DEF Stage, StageOf, Exists
  <2>5. CASE Stage[d] = "queued"
    BY <2>1, <2>3, <2>5 DEF Lifecycle!Next, Lifecycle!Take, Lifecycle!Move
  <2>6. CASE Stage[d] = "working"
    BY <2>1, <2>3, <2>6 DEF Stage
  <2> QED BY <2>4, <2>5, <2>6
<1>4. ASSUME NEW w \in Workers, WorkerStep(w) PROVE Lifecycle!Next \/ Stage' = Stage
  <2> DEFINE d == worker[w].doc
  <2>1. CASE LoadRaw(w) \/ ParseOK(w) \/ ParseError(w) \/ ImportOK(w) \/ ImportError(w)
    BY <2>1, <1>b DEF LoadRaw, ParseOK, ParseError, ImportOK, ImportError
  <2>2. CASE SetPhase(w) \/ FailDoc(w)
    <3>1. d \in Docs
      BY <2>2, <1>a DEF SetPhase, FailDoc
    <3>2. \A e \in Docs :
            \/ document'[e] = document[e]
            \/ /\ Exists(e)
               /\ document'[e].status \in {document[e].status, "failed", "pending"}
      <4>1. CASE SetPhase(w)
        BY <4>1, <3>1, <1>a DEF SetPhase, UpdateDocument, DocumentRow
      <4>2. CASE FailDoc(w)
        BY <4>2, <3>1, <1>a DEF FailDoc, UpdateDocument, DocumentRow
      <4> QED BY <2>2, <4>1, <4>2
    <3>3. job' = job
      BY <2>2 DEF SetPhase, FailDoc
    <3> QED BY <3>2, <3>3, StageKept DEF Exists
  <2>3. CASE Commit(w)
    <3>1. d \in Docs /\ Holds(w, d)
      BY <2>3, <1>a DEF Commit, Holds
    <3>2. /\ \A e \in Docs : e # d => document'[e] = document[e] /\ job'[e] = job[e]
          /\ ~Exists(d) => document' = document /\ job' = job
          /\ Exists(d) => document'[d].status = "ready" /\ job'[d].state = "done"
      BY <2>3, <3>1, <1>a
      DEF Commit, UpdateDocument, UpdateJob, Indexed, Done, DocumentRow, JobRow
    <3>3. Exists(d) => job[d].state = "running"
      BY <3>1, <1>a DEF HolderOwnsJob
    <3> HIDE DEF d
    <3>4. CASE ~Exists(d)
      BY <3>2, <3>4, <1>b
    <3>5. CASE Exists(d)
      <4>1. Stage' = [Stage EXCEPT ![d] = Stage'[d]]
        BY <3>1, <3>2, StageMoves
      <4>2. Stage[d] = "working" /\ Stage'[d] = "indexed"
        BY <3>1, <3>2, <3>3, <3>5 DEF Stage, StageOf, Exists
      <4> QED BY <3>1, <4>1, <4>2 DEF Lifecycle!Next, Lifecycle!Finish, Lifecycle!Move
    <3> QED BY <3>4, <3>5
  <2>4. CASE FailJob(w)
    <3>1. d \in Docs /\ Holds(w, d)
      BY <2>4, <1>a DEF FailJob, Holds
    <3>2. /\ document' = document
          /\ \A e \in Docs : e # d => job'[e] = job[e]
          /\ ~Exists(d) => job' = job
          /\ Exists(d) => job'[d].state \in {"dead", "pending"}
      BY <2>4, <3>1, <1>a DEF FailJob, UpdateJob, Buried, Rescheduled, JobRow
    <3>3. Exists(d) => job[d].state = "running"
      BY <3>1, <1>a DEF HolderOwnsJob
    <3> HIDE DEF d
    <3>4. CASE ~Exists(d)
      BY <3>2, <3>4, <1>b
    <3>5. CASE Exists(d)
      <4>1. Stage' = [Stage EXCEPT ![d] = Stage'[d]]
        BY <3>1, <3>2, StageMoves
      <4>2. Stage[d] = "working" /\ Stage'[d] \in {"givenUp", "queued"}
        BY <3>1, <3>2, <3>3, <3>5 DEF Stage, StageOf, Exists
      <4> QED
        BY <3>1, <4>1, <4>2
        DEF Lifecycle!Next, Lifecycle!GiveUp, Lifecycle!HandBack, Lifecycle!Move
    <3> QED BY <3>4, <3>5
  <2> QED BY <1>4, <2>1, <2>2, <2>3, <2>4 DEF WorkerStep
<1>5. ASSUME NEW w \in Workers, WorkerFault(w) PROVE Stage' = Stage
  BY <1>5, <1>b DEF WorkerFault, WorkerGone, LoadRawError, StatementError
<1>6. ASSUME NEW d \in Docs, Time(d) PROVE Stage' = Stage
  <2>1. document' = document /\ \A e \in Docs : job'[e].state = job[e].state
    BY <1>6, <1>a DEF Time, BackoffElapses, AbandonedLeaseLapses, HeldLeaseLapses,
       LeaseLapses, JobRow
  <2> QED BY <2>1, StageKept
<1>7. ASSUME NEW q \in Requests, NEW d \in Docs, RetryJob(q, d) \/ DeleteList(q, d)
      PROVE Lifecycle!Next \/ Stage' = Stage
  <2>1. CASE RetryJob(q, d)
    <3>1. Stage' = [Stage EXCEPT ![d] = Stage'[d]]
      BY <2>1, <1>a, StageMoves DEF RetryJob
    <3>2. Exists(d) /\ job[d].state = "dead"
      BY <2>1, <1>a DEF RetryJob, Retryable, RowsTied
    <3>3. document' = document /\ job'[d].state = "pending"
      BY <2>1, <1>a DEF RetryJob, NoJob
    <3>4. Stage[d] = "givenUp" /\ Stage'[d] = "queued"
      BY <3>2, <3>3 DEF Stage, StageOf, Exists
    <3> QED BY <3>1, <3>4 DEF Lifecycle!Next, Lifecycle!Revive, Lifecycle!Move
  <2>2. CASE DeleteList(q, d)
    BY <2>2, <1>b DEF DeleteList
  <2> QED BY <1>7, <2>1, <2>2
<1>8. ASSUME NEW q \in Requests, RequestStep(q) PROVE Lifecycle!Next \/ Stage' = Stage
  <2> DEFINE d == request[q].doc
  <2>1. CASE RetryDoc(q)
    <3>1. d \in Docs
      BY <2>1, <1>a DEF RetryDoc
    <3>2. \A e \in Docs :
            \/ document'[e] = document[e]
            \/ Exists(e) /\ document'[e].status = "pending"
      BY <2>1, <3>1, <1>a DEF RetryDoc, UpdateDocument, DocumentRow
    <3>3. job' = job
      BY <2>1 DEF RetryDoc
    <3> QED BY <3>2, <3>3, StageKept DEF Exists
  <2>2. CASE DeleteGraph(q) \/ DeleteChunks(q)
    BY <2>2, <1>b DEF DeleteGraph, DeleteChunks
  <2>3. CASE DeleteRow(q)
    <3>1. d \in Docs
      BY <2>3, <1>a DEF DeleteRow
    <3>2. /\ \A e \in Docs : e # d => document'[e] = document[e] /\ job'[e] = job[e]
          /\ ~Exists(d) => document' = document /\ job' = job
          /\ Exists(d) => document'[d].status = "deleted"
      BY <2>3, <3>1, <1>a DEF DeleteRow, UpdateDocument, UpdateJob, Deleted
    <3> HIDE DEF d
    <3>3. CASE ~Exists(d)
      BY <3>2, <3>3, <1>b
    <3>4. CASE Exists(d)
      <4>1. Stage' = [Stage EXCEPT ![d] = Stage'[d]]
        BY <3>1, <3>2, StageMoves
      <4>2. job[d].state \in {"pending", "running", "done", "dead"}
        BY <3>1, <3>4, <1>a DEF RowsTied, JobRow
      <4>3. /\ Stage[d] \in {"queued", "working", "indexed", "givenUp"}
            /\ Stage'[d] = "removed"
        BY <3>1, <3>2, <3>4, <4>2 DEF Stage, StageOf, Exists
      <4> QED BY <3>1, <4>1, <4>3 DEF Lifecycle!Next, Lifecycle!Remove, Lifecycle!Move
    <3> QED BY <3>3, <3>4
  <2> QED BY <1>8, <2>1, <2>2, <2>3 DEF RequestStep
<1>9. ASSUME NEW q \in Requests, RequestGone(q) PROVE Stage' = Stage
  BY <1>9, <1>b DEF RequestGone
<1> QED
  BY <1>1, <1>2, <1>3, <1>4, <1>5, <1>6, <1>7, <1>8, <1>9 DEF Next

------------------------------------------------------------------------------
(* The theorems about every behaviour.                                     *)

\* No two live documents carry the same idempotency key, however uploads,
\* deletes and re-uploads interleave and whatever leases and reads do: the
\* UNIQUE index behind Enqueue, carried through every statement of the queue.
THEOREM KeysStayUnique == Spec => []OneJobPerKey
BY RowsAlways, PTL DEF RowInv

\* No crash, failed statement or lost lease leaves a job running without the
\* locked_until that lets the claim query find it again.
THEOREM NoJobStranded == Spec => []NoStrandedJob
BY RowsAlways, PTL DEF RowInv

\* Once a document is ready its raw bytes are gone for good.
THEOREM RawDropped == Spec => []ReadyDropsRaw
BY RowsAlways, PTL DEF RowInv

\* A lock passes from one worker to another only after its lease lapsed: the
\* claim query and FOR UPDATE SKIP LOCKED never take a live lock.
THEOREM LockNeverStolen == Spec => LockTakenOnlyWhenLapsed
<1>1. RowInv /\ [Next]_vars =>
        [\A d \in Docs :
           (/\ job[d].owner # NoWorker
            /\ job'[d].owner \notin {NoWorker, job[d].owner})
           => job[d].lease = "lapsed"]_vars
  BY LockStep
<1> QED BY RowsAlways, <1>1, PTL DEF Spec, LockTakenOnlyWhenLapsed

\* If leases cover the work, no two workers process the same job, and what a
\* worker knows of its job is what the row says: the UPDATEs of process and
\* fail, which do not look at locked_by, hit the attempt they mean.
THEOREM OwnershipCorrect ==
  ASSUME LeaseCoversWork
  PROVE  Spec => [](SingleHolder /\ HolderOwnsJob)
<1>1. Init => Covered
  BY RowInit, HolderInit DEF Covered
<1>2. Covered /\ [Next]_vars => Covered'
  BY RowStep, HolderStep DEF Covered
<1>3. Covered => SingleHolder /\ HolderOwnsJob
  BY DEF Covered, HolderInv
<1> QED BY <1>1, <1>2, <1>3, PTL DEF Spec

\* If leases cover the work, raw bytes are there as long as they may be
\* needed, a ready document has no work left in the queue, and a job is given
\* up only after MaxAttempts attempts.
THEOREM QueueCorrect ==
  ASSUME LeaseCoversWork
  PROVE  Spec => [](RawKeptWhileNeeded /\ ReadyMeansDone /\ DeadOnlyWhenSpent)
<1>1. Init => Covered /\ QueueInv
  BY RowInit, HolderInit, QueueInit DEF Covered
<1>2. Covered /\ QueueInv /\ [Next]_vars => (Covered /\ QueueInv)'
  BY RowStep, HolderStep, QueueStep DEF Covered
<1>3. QueueInv => RawKeptWhileNeeded /\ ReadyMeansDone /\ DeadOnlyWhenSpent
  BY DEF QueueInv
<1> QED BY <1>1, <1>2, <1>3, PTL DEF Spec

\* The raw bytes of a document outlive every attempt that may read them, retries by
\* hand and crashes between the statements of a worker included.
THEOREM RawKept ==
  ASSUME LeaseCoversWork
  PROVE  Spec => []RawKeptWhileNeeded
BY QueueCorrect, PTL

\* If leases cover the work, a job is tried MaxAttempts times, and at most
\* once more for every crash: only a crash after the last attempt began can
\* make the claim query hand the job out again.
THEOREM AttemptsCorrect ==
  ASSUME LeaseCoversWork
  PROVE  Spec => []AttemptsBounded
<1>1. Init => Covered /\ BudgetInv
  BY RowInit, HolderInit, BudgetInit DEF Covered
<1>2. Covered /\ BudgetInv /\ [Next]_vars => (Covered /\ BudgetInv)'
  BY RowStep, HolderStep, BudgetStep DEF Covered
<1>3. BudgetInv => AttemptsBounded
  BY DEF BudgetInv, AttemptsBounded
<1> QED BY <1>1, <1>2, <1>3, PTL DEF Spec

\* If leases cover the work and loadRaw can read the row it has just claimed,
\* a done job was indexed: what Enqueue tells a caller who uploads the same
\* content again is true.
THEOREM IndexedCorrect ==
  ASSUME LeaseCoversWork, ~ReadFaults
  PROVE  Spec => []DoneMeansIndexed
<1>1. Init => Covered /\ QueueInv /\ IndexInv
  BY RowInit, HolderInit, QueueInit, IndexInit DEF Covered
<1>2. Covered /\ QueueInv /\ IndexInv /\ [Next]_vars => (Covered /\ QueueInv /\ IndexInv)'
  BY RowStep, HolderStep, QueueStep, IndexStep DEF Covered
<1>3. IndexInv => DoneMeansIndexed
  BY DEF IndexInv
<1> QED BY <1>1, <1>2, <1>3, PTL DEF Spec

\* If leases cover the work, a done job stays done until its document is
\* deleted: neither a worker nor Retry starts it again.
THEOREM DoneStays ==
  ASSUME LeaseCoversWork
  PROVE  Spec => DoneIsFinal
<1>1. Init => Covered
  BY RowInit, HolderInit DEF Covered
<1>2. Covered /\ [Next]_vars => Covered'
  BY RowStep, HolderStep DEF Covered
<1>3. Covered /\ [Next]_vars =>
        [\A d \in Docs : job[d].state = "done" => job'[d].state \in {"done", "none"}]_vars
  BY DoneStep
<1> QED BY <1>1, <1>2, <1>3, PTL DEF Spec, DoneIsFinal

\* If leases cover the work, every behaviour of the queue is one of
\* JobLifecycle: workers, leases, attempts and the two-statement updates of
\* fail and Retry are not visible in what happens to a document.
THEOREM RefinesLifecycle ==
  ASSUME LeaseCoversWork
  PROVE  Spec => ImplementsLifecycle
<1>1. Init => Covered
  BY RowInit, HolderInit DEF Covered
<1>2. Covered /\ [Next]_vars => Covered'
  BY RowStep, HolderStep DEF Covered
<1> QED
  BY <1>1, <1>2, LifecycleInit, LifecycleStep, PTL
  DEF Spec, ImplementsLifecycle, Lifecycle!Spec
==============================================================================
