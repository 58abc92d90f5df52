---------------------------- MODULE ProgressView -----------------------------
(***************************************************************************)
(* How a browser follows the documents of a kb.  DocStatusTable keeps the  *)
(* list in the query cache; for every row that is not finished it holds a  *)
(* stream of progressHandler, which reads the status of the document once  *)
(* a second and sends it until it is final.  A frame carries nothing the   *)
(* table uses: it makes the table fetch the list again.                    *)
(*                                                                         *)
(* Of a document only the status column is kept, which is all that the     *)
(* handler and the table read.  Its writers are the statements of Enqueue, *)
(* claim, process, fail, Retry and DeleteDocument; in fail and Retry it is *)
(* a statement of its own after that of the job, which may fail or come    *)
(* late, so the status may stay behind its job (IngestQueue).  The query   *)
(* library (@tanstack/react-query 5) and fetch-event-source are external,  *)
(* as are React and the network.                                           *)
(***************************************************************************)
CONSTANTS
  Docs,
  Reopens,       \* a final status may be overwritten while the row is shown unfinished:
                 \* by a retry elsewhere, a late second statement of fail or Retry, or
                 \* the claim of a job whose own statement in fail has failed
  StatusFaults   \* the SELECT of DocumentStatus may fail

ASSUME ViewAssumption == Reopens \in BOOLEAN /\ StatusFaults \in BOOLEAN

VARIABLES
  status,  \* document.status; "absent" before and "gone" after there is a row
  list,    \* the status of each row in the query cache, "gone" without a row
  loaded,  \* whether the cache has a list at all
  fetch,   \* the GET of the list: on its way, read, answered or failed
  seen,    \* what that GET has read
  stream   \* per document: the connection, and whether frames are on their way

tableVars == <<status, list, loaded, fetch, seen, stream>>
------------------------------------------------------------------------------
Statuses == {"pending", "parsing", "ready", "failed", "gone"}
Unfinished(s) == s \in {"pending", "parsing"}

\* One connection per document at most; only a loaded list has rows.
TableOK ==
  /\ status \in [Docs -> Statuses \cup {"absent"}]
  /\ list \in [Docs -> Statuses] /\ seen \in [Docs -> Statuses]
  /\ loaded \in BOOLEAN
  /\ fetch \in {"idle", "sent", "read", "failed"}
  /\ stream \in [Docs -> [pc: {"none", "opening", "open", "ended", "broken"},
                          frames: BOOLEAN]]
  /\ ~loaded => \A d \in Docs : list[d] = "gone" /\ stream[d].pc = "none"

NoStream == [pc |-> "none", frames |-> FALSE]
Opening == [pc |-> "opening", frames |-> FALSE]

\* The page is opened, at any time: it fetches the list.
TableInit ==
  /\ status \in [Docs -> {"absent", "pending", "parsing", "ready", "failed"}]
  /\ list = [d \in Docs |-> "gone"] /\ seen = list
  /\ loaded = FALSE /\ fetch = "sent"
  /\ stream = [d \in Docs |-> NoStream]

\* What a SELECT finds of a document.
Status(d) == IF status[d] = "absent" THEN "gone" ELSE status[d]
------------------------------------------------------------------------------
\* One statement that writes the status of d: Enqueue inserts the row, a claim
\* sets parsing, the success transaction ready, fail pending or failed, Retry
\* pending, and a deletion takes the row away.
Written(d, s) ==
  /\ status[d] \notin {"gone", s}
  /\ status[d] = "absent" => s = "pending"
  /\ status[d] \in {"ready", "failed"} /\ Unfinished(s) => Reopens \/ ~Unfinished(list[d])
  /\ status' = [status EXCEPT ![d] = s]
  /\ UNCHANGED <<list, loaded, fetch, seen, stream>>

\* The queue, and all users of the kb.
Queue == \E d \in Docs, s \in Statuses : Written(d, s)

\* Slip: a GET that is under way will do.
InvalidateJoins == fetch' = IF fetch \in {"idle", "failed"} THEN "sent" ELSE fetch

\* invalidateQueries: a GET under way is dropped for a new one, but not the
\* first.
Invalidate ==
  fetch' = IF fetch \in {"idle", "failed"} \/ loaded THEN "sent" ELSE fetch

\* A retry, a deletion or an upload of this page has succeeded, or its window
\* gets the focus.
Touched ==
  /\ Invalidate
  /\ UNCHANGED <<status, list, loaded, seen, stream>>

\* ListDocuments.
ReadList ==
  /\ fetch = "sent"
  /\ fetch' = "read" /\ seen' = [d \in Docs |-> Status(d)]
  /\ UNCHANGED <<status, list, loaded, stream>>

\* The request fails for good: the list stays as it is.
FetchFails ==
  /\ fetch \in {"sent", "read"}
  /\ fetch' = "failed"
  /\ UNCHANGED <<status, list, loaded, seen, stream>>

\* Slip: rows that are being parsed are forgotten.
PendingOnly(l, d) == IF l[d] = "pending" THEN Opening ELSE NoStream

\* The effect closes all streams and opens one for each unfinished row.
Subscribed(l, d) == IF Unfinished(l[d]) THEN Opening ELSE NoStream

\* The answer is rendered; the effect runs only if an id or a status has
\* changed.
ShowList ==
  /\ fetch = "read"
  /\ fetch' = "idle" /\ list' = seen /\ loaded' = TRUE
  /\ stream' = IF seen = list THEN stream ELSE [d \in Docs |-> Subscribed(seen, d)]
  /\ UNCHANGED <<status, seen>>
------------------------------------------------------------------------------
Put(d, r) == stream' = [stream EXCEPT ![d] = r]

\* The handler has found the kb and sends its headers.
Connect(d) ==
  /\ stream[d].pc = "opening"
  /\ Put(d, [stream[d] EXCEPT !.pc = "open"])
  /\ UNCHANGED <<status, list, loaded, fetch, seen>>

\* emit, at once and with every tick: a frame, the last one if the status is
\* final or cannot be read.
Emit(d) ==
  /\ stream[d].pc = "open"
  /\ \/ Unfinished(Status(d)) /\ Put(d, [stream[d] EXCEPT !.frames = TRUE])
     \/ ~Unfinished(Status(d)) /\ Put(d, [pc |-> "ended", frames |-> TRUE])
     \/ StatusFaults /\ Put(d, [pc |-> "ended", frames |-> TRUE])
  /\ UNCHANGED <<status, list, loaded, fetch, seen>>

\* onmessage.
Frame(d) ==
  /\ stream[d].frames
  /\ Put(d, [stream[d] EXCEPT !.frames = FALSE])
  /\ Invalidate
  /\ UNCHANGED <<status, list, loaded, seen>>

\* The end of the stream: fetch-event-source returns, and does not come back.
StreamEnds(d) ==
  /\ stream[d].pc = "ended" /\ ~stream[d].frames
  /\ Put(d, NoStream)
  /\ UNCHANGED <<status, list, loaded, fetch, seen>>

\* The connection breaks or is refused; frames on their way are lost.
Break(d) ==
  /\ stream[d].pc \in {"opening", "open", "ended"}
  /\ Put(d, [pc |-> "broken", frames |-> FALSE])
  /\ UNCHANGED <<status, list, loaded, fetch, seen>>

\* fetch-event-source tries again, every second, with the headers of the
\* first time.
Reopen(d) ==
  /\ stream[d].pc = "broken"
  /\ Put(d, Opening)
  /\ UNCHANGED <<status, list, loaded, fetch, seen>>
------------------------------------------------------------------------------
StreamStep(d) == Connect(d) \/ Emit(d) \/ Frame(d) \/ StreamEnds(d)

FetchStep == ReadList \/ ShowList

TableNext ==
  \/ Queue \/ Touched \/ FetchStep \/ FetchFails
  \/ \E d \in Docs : StreamStep(d) \/ Break(d) \/ Reopen(d)

\* The server answers, its ticker ticks and frames arrive.  A list that is
\* asked for again and again is still shown at last: answers come faster than
\* ticks.  Nothing makes a broken connection whole.
TableFairness ==
  /\ WF_tableVars(ReadList) /\ SF_tableVars(ShowList)
  /\ \A d \in Docs : WF_tableVars(Connect(d)) /\ WF_tableVars(Emit(d))
                     /\ WF_tableVars(Frame(d)) /\ WF_tableVars(StreamEnds(d))

TableSpec == TableInit /\ [][TableNext]_tableVars /\ TableFairness
------------------------------------------------------------------------------
\* "Subscribe to live progress for any non-terminal document; refetch on
\* update" (DocStatusTable.tsx:63): a row shown as unfinished has a stream, or
\* the list is being fetched, or the last fetch has failed.
Watched ==
  \A d \in Docs : Unfinished(list[d]) => stream[d].pc # "none" \/ fetch # "idle"

\* A row is not shown as unfinished for ever once the status of its document is
\* final or its row is gone, unless the last fetch fails or its connection
\* breaks.  (Whether the status ever gets final is IngestQueue's matter.)
TableCatchesUp ==
  \A d \in Docs :
    Unfinished(list[d]) /\ ~Unfinished(Status(d)) ~>
      \/ ~Unfinished(list[d]) \/ Unfinished(Status(d))
      \/ fetch = "failed" \/ stream[d].pc = "broken"
==============================================================================
