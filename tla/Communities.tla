------------------------------ MODULE Communities ------------------------------
(***************************************************************************)
(* The communities of one kb: clusters of its entity graph with a report   *)
(* each, from which global questions are answered.  They are computed over *)
(* the whole graph, so every change of it is followed by a recomputation:  *)
(* after a document or all documents of the kb were deleted                *)
(* (ingest/delete.go, ragsvc.RecomputeCommunities) and during the import   *)
(* of a document (worker.go).  A recomputation reads the graph, runs       *)
(* Louvain, stores the result over the old one and has the missing reports *)
(* written by the model; nothing keeps another one from running beside it. *)
(*                                                                         *)
(* A community is known by the documents over whose graph it was detected. *)
(* The rag store and Louvain are external: Detect is a function of the     *)
(* graph, UpsertCommunities replaces the whole set, reports are kept under *)
(* a hash of their community, and Import detects like a delete does.  The  *)
(* graph is kept by chunk: what the chunks of a document contribute leaves *)
(* it only under their ids, and stays without them if the chunks go first. *)
(* Every document has text and entities.  Jobs are in IngestQueue.         *)
(***************************************************************************)
CONSTANTS
  Docs,    \* the ids newID() may draw
  NoDoc,
  Ops      \* bound: deletions of documents and kbs, and imports

ASSUME CommunityAssumption == NoDoc \notin Docs

VARIABLES
  doc,        \* the document rows: not drawn yet, there, or deleted
  chunks,     \* the documents with chunks in the store
  graph,      \* the documents whose chunks have entities in the graph
  comms,      \* the stored communities
  reports,    \* the communities with a report
  op,         \* the operations; alone is history: no other one was under way
              \* when it began, and none has begun since
  forgotten   \* history: documents that an operation found the chunks of and
              \* deleted, and that was alone until it had stored the communities

vars == <<doc, chunks, graph, comms, reports, op, forgotten>>
------------------------------------------------------------------------------
\* An operation: where it is, the documents it has yet to delete, the one at
\* hand, whether ListChunkIDs found chunks of it, those so found and deleted,
\* and the communities it has computed.
Idle == [pc |-> "idle", todo |-> {}, one |-> NoDoc, ids |-> FALSE, done |-> {},
         seen |-> {}, alone |-> FALSE]

Op == [pc: {"idle", "replace", "write", "list", "graph", "chunks", "row",
            "snapshot", "upsert", "prewarm", "reports", "done", "failed"},
       todo: SUBSET Docs, one: Docs \cup {NoDoc}, ids: BOOLEAN,
       done: SUBSET Docs, seen: SUBSET SUBSET Docs, alone: BOOLEAN]

TypeOK ==
  /\ doc \in [Docs -> {"new", "row", "gone"}]
  /\ chunks \subseteq Docs /\ graph \subseteq Docs /\ forgotten \subseteq Docs
  /\ comms \subseteq SUBSET Docs /\ reports \subseteq SUBSET Docs
  /\ op \in [Ops -> Op]

Init ==
  /\ doc = [d \in Docs |-> "new"]
  /\ chunks = {} /\ graph = {} /\ comms = {} /\ reports = {} /\ forgotten = {}
  /\ op = [o \in Ops |-> Idle]
------------------------------------------------------------------------------
At(o, pc) == op[o].pc = pc
Active(o) == op[o].pc \notin {"idle", "done", "failed"}
Goto(o, pc) == op' = [op EXCEPT ![o].pc = pc]
End(o, pc) == op' = [op EXCEPT ![o] = [Idle EXCEPT !.pc = pc, !.alone = op[o].alone]]

Rows == {d \in Docs : doc[d] = "row"}

\* Louvain over the graph of these documents: none without entities.
Detect(docs) == {docs} \ {{}}

\* An operation begins; those under way, and the last one, are alone no longer.
Begin(o, r) ==
  /\ At(o, "idle")
  /\ op' = [p \in Ops |-> IF p = o
                          THEN [r EXCEPT !.alone = \A q \in Ops : ~Active(q)]
                          ELSE [op[p] EXCEPT !.alone = FALSE]]
  /\ UNCHANGED <<doc, chunks, graph, comms, reports, forgotten>>

\* A call fails, or the process dies: the operation ends where it is.
Fails(o) ==
  /\ Active(o)
  /\ End(o, "failed")
  /\ UNCHANGED <<doc, chunks, graph, comms, reports, forgotten>>
------------------------------------------------------------------------------
(* Uploads and imports.                                                    *)

Upload(d) ==
  /\ doc[d] = "new"
  /\ doc' = [doc EXCEPT ![d] = "row"]
  /\ UNCHANGED <<chunks, graph, comms, reports, op, forgotten>>

\* A worker claims the job of a document, for the first time or again.
Claim(o, d) ==
  /\ doc[d] = "row"
  /\ Begin(o, [Idle EXCEPT !.pc = "replace", !.one = d])

\* Import with ReplaceSource: the chunks of the text are stored; those of an
\* earlier import go, and what they contribute to the graph with them.
ReplaceChunks(o) ==
  LET d == op[o].one IN
  /\ At(o, "replace")
  /\ chunks' = chunks \cup {d}
  /\ graph' = IF d \in chunks THEN graph \ {d} ELSE graph
  /\ Goto(o, "write")
  /\ UNCHANGED <<doc, comms, reports, forgotten>>

\* Their entities are written, whether or not chunks and row are still there.
WriteGraph(o) ==
  /\ At(o, "write")
  /\ graph' = graph \cup {op[o].one}
  /\ Goto(o, "snapshot")
  /\ UNCHANGED <<doc, chunks, comms, reports, forgotten>>
------------------------------------------------------------------------------
(* DeleteDocument and DeleteAllDocumentsForKB.                             *)

\* DELETE of a document that is there or was, or of all that are there.
Delete(o, docs) ==
  /\ docs = Rows \/ \E d \in Docs : docs = {d} /\ doc[d] # "new"
  /\ Begin(o, [Idle EXCEPT !.todo = docs, !.pc = IF docs = {} THEN "snapshot" ELSE "list"])

\* ListChunkIDs of the next document.
List(o) ==
  /\ At(o, "list")
  /\ \E d \in op[o].todo :
       op' = [op EXCEPT ![o].pc = "graph", ![o].one = d, ![o].ids = d \in chunks]
  /\ UNCHANGED <<doc, chunks, graph, comms, reports, forgotten>>

\* Slip: the chunks go first, and no id is left for the graph.
GraphAfterChunks(o) ==
  /\ At(o, "graph")
  /\ chunks' = chunks \ {op[o].one}
  /\ Goto(o, "chunks")
  /\ UNCHANGED <<doc, graph, comms, reports, forgotten>>

\* RemoveGraphBySource takes out what the listed ids have contributed; with no
\* ids it does nothing.
RemoveGraph(o) ==
  /\ At(o, "graph")
  /\ graph' = IF op[o].ids THEN graph \ {op[o].one} ELSE graph
  /\ Goto(o, "chunks")
  /\ UNCHANGED <<doc, chunks, comms, reports, forgotten>>

\* RemoveChunks: those that are there by now.
RemoveChunks(o) ==
  /\ At(o, "chunks")
  /\ chunks' = chunks \ {op[o].one}
  /\ Goto(o, "row")
  /\ UNCHANGED <<doc, graph, comms, reports, forgotten>>

\* Slip: nothing is recomputed.
RemoveRowOnly(o) ==
  LET d == op[o].one
      rest == op[o].todo \ {d} IN
  /\ At(o, "row")
  /\ doc' = [doc EXCEPT ![d] = "gone"]
  /\ IF rest = {} THEN End(o, "done")
     ELSE op' = [op EXCEPT ![o].todo = rest, ![o].one = NoDoc, ![o].pc = "list"]
  /\ UNCHANGED <<chunks, graph, comms, reports, forgotten>>

\* Its row goes, and after the last one the communities are recomputed.
RemoveRow(o) ==
  LET d == op[o].one
      rest == op[o].todo \ {d} IN
  /\ At(o, "row")
  /\ doc' = [doc EXCEPT ![d] = "gone"]
  /\ op' = [op EXCEPT ![o].todo = rest, ![o].one = NoDoc, ![o].ids = FALSE,
                      ![o].done = IF op[o].ids THEN @ \cup {d} ELSE @,
                      ![o].pc = IF rest = {} THEN "snapshot" ELSE "list"]
  /\ UNCHANGED <<chunks, graph, comms, reports, forgotten>>
------------------------------------------------------------------------------
(* RecomputeCommunities, and the same inside Import.                       *)

\* GraphSnapshot, and Detect over it.
Snapshot(o) ==
  /\ At(o, "snapshot")
  /\ op' = [op EXCEPT ![o].pc = "upsert", ![o].seen = Detect(graph)]
  /\ UNCHANGED <<doc, chunks, graph, comms, reports, forgotten>>

\* Slip: no reports are asked for.
UpsertOnly(o) ==
  /\ At(o, "upsert")
  /\ comms' = op[o].seen
  /\ forgotten' = IF op[o].alone THEN forgotten \cup op[o].done ELSE forgotten
  /\ End(o, "done")
  /\ UNCHANGED <<doc, chunks, graph, reports>>

\* UpsertCommunities.
Upsert(o) ==
  /\ At(o, "upsert")
  /\ comms' = op[o].seen
  /\ forgotten' = IF op[o].alone THEN forgotten \cup op[o].done ELSE forgotten
  /\ Goto(o, "prewarm")
  /\ UNCHANGED <<doc, chunks, graph, reports>>

\* PrewarmCommunityReports reads the communities ...
Prewarm(o) ==
  /\ At(o, "prewarm")
  /\ op' = [op EXCEPT ![o].pc = "reports", ![o].seen = comms \ reports, ![o].done = {}]
  /\ UNCHANGED <<doc, chunks, graph, comms, reports, forgotten>>

\* ... and stores a report for each that has none.
WriteReports(o) ==
  /\ At(o, "reports")
  /\ reports' = reports \cup op[o].seen
  /\ End(o, "done")
  /\ UNCHANGED <<doc, chunks, graph, comms, forgotten>>
------------------------------------------------------------------------------
Step(o) ==
  \/ ReplaceChunks(o) \/ WriteGraph(o)
  \/ List(o) \/ RemoveGraph(o) \/ RemoveChunks(o) \/ RemoveRow(o)
  \/ Snapshot(o) \/ Upsert(o) \/ Prewarm(o) \/ WriteReports(o) \/ Fails(o)

Next ==
  \/ \E d \in Docs : Upload(d)
  \/ \E o \in Ops :
       \/ \E d \in Docs : Claim(o, d)
       \/ \E docs \in SUBSET Docs : Delete(o, docs)
       \/ Step(o)

Spec == Init /\ [][Next]_vars
------------------------------------------------------------------------------
\* What clients are shown: the list, and the report of a community or a 404.
ListCommunities == comms
CommunityReport(c) == c \in reports

\* An operation that has stored its communities.
Stored(o) == op[o].pc \in {"prewarm", "reports", "done"}

\* The communities are those of the graph once an operation has stored them that
\* no other overlapped, whatever stale set earlier ones have left.
FreshWhenAlone == (\E o \in Ops : op[o].alone /\ Stored(o)) => comms = Detect(graph)

\* "prewarm so the first AskGlobal is all-cache-hits" (worker.go:218): after it has
\* ended every community that is listed has its report.
ReportsFollow ==
  (\E o \in Ops : op[o].alone /\ At(o, "done")) =>
     \A c \in ListCommunities : CommunityReport(c)

\* A document that was deleted with its chunks while nothing else was under way is
\* out of graph and communities, and never comes back, however later operations
\* overlap.  (Entities that have lost their chunks in a race before have no id to
\* be removed by: IngestQueue, DeleteRace.cfg.)
QuietDeleteForgets == \A c \in comms \cup {graph} : c \cap forgotten = {}

\* "then recomputes the namespace's communities over the now-reduced graph"
\* (delete.go:9-10): when no operation is under way and none has failed, the
\* communities are those of the graph.
RestIsFresh ==
  (\A o \in Ops : ~Active(o) /\ ~At(o, "failed")) => comms = Detect(graph)
==============================================================================
