----------------------------- MODULE KbLifecycle -----------------------------
(***************************************************************************)
(* Organisations and knowledge bases: how they are created, filled up to   *)
(* their quota and deleted (orgkb.Repo, uploadHandler, deleteKBHandler and *)
(* ingest.DeleteAllDocumentsForKB).  Requests are served concurrently;     *)
(* each is several statements, and any statement may fail.                 *)
(*                                                                         *)
(* Of a document only its row, its size and its chunks are kept: the jobs  *)
(* and the deletion of one document are in IngestQueue.  Roles come from   *)
(* the authz module, which is external: an org-level admin may do all in   *)
(* the kbs of the org, a kb-level admin all in the kb.                     *)
(***************************************************************************)
EXTENDS Integers, FiniteSets

CONSTANTS
  Users,
  Orgs,       \* the ids of organisations
  Kbs,        \* the ids newID() may draw for kbs
  Docs,       \* the ids newID() may draw for documents
  Slots,      \* bound: the requests that are served at a time
  None,       \* no org, kb, user or document
  Sources,    \* what uploads are named: file names, titles, urls
  Sizes,      \* bound: sizes of uploads; a url has size 0
  Most,       \* the largest content of an upload, which MaxUploadBytes bounds
  Quota,      \* KBStorageQuotaBytes
  Reliable,   \* no statement fails
  Quiet       \* nobody uses a kb while it is being deleted

ASSUME KbAssumption ==
  /\ Most \in Nat /\ Sizes \subseteq 0..Most /\ Quota \in Nat
  /\ Reliable \in BOOLEAN /\ Quiet \in BOOLEAN
  /\ None \notin Users \cup Orgs \cup Kbs \cup Docs \cup Sources
  /\ Orgs \cap Kbs = {}
  /\ IsFiniteSet(Docs) /\ IsFiniteSet(Slots) /\ Slots # {}

VARIABLES
  org,     \* auth_org: who created each organisation, None if nobody has
  kb,      \* knowledge_base: the org of each row, None if there is no row
  drawn,   \* the kb ids that have been drawn, with who asked for them
  member,  \* auth_membership: <<user, org>> and <<user, kb>>
  doc,     \* document: kb, source and size of each row (the last two stand for its
           \* checksum and key), and whether its sum was not read
  used,    \* the document ids that have been drawn
  chunks,  \* the documents with chunks in the rag store, and in which kb's namespace
  work,    \* the documents that workers are importing, and into which
  slot,    \* the requests
  told     \* what clients were told: orgs and kbs created, documents that have
           \* their upload (as long as the row is there), kbs deleted

vars == <<org, kb, drawn, member, doc, used, chunks, work, slot, told>>
rows == <<org, kb, drawn, member, doc, used, chunks, work>>
------------------------------------------------------------------------------
Idle == [pc |-> "idle", user |-> None, at |-> None, source |-> None, size |-> 0,
         blind |-> FALSE, todo |-> {}, one |-> None]

Slot == [pc: {"idle", "org_grant", "insert", "grant", "get", "quota", "dedup", "enqueue",
              "existing", "get_delete", "list", "docs", "row", "kb_row"},
         user: Users \cup {None}, at: Orgs \cup Kbs \cup {None},
         source: Sources \cup {None}, size: Sizes \cup {0},
         blind: BOOLEAN, todo: SUBSET Docs, one: Docs \cup {None}]

\* An answer to an upload: the document that holds it.
Answer == [doc: Docs, kb: Kbs, source: Sources, size: Sizes]

\* The foreign key of document: a row's kb exists.
TypeOK ==
  /\ org \in [Orgs -> Users \cup {None}]
  /\ kb \in [Kbs -> Orgs \cup {None}]
  /\ drawn \in [Kbs -> Users \cup {None}]
  /\ member \subseteq Users \X (Orgs \cup Kbs)
  /\ doc \in [Docs -> [kb: Kbs \cup {None}, source: Sources \cup {None},
                   size: Sizes \cup {0}, blind: BOOLEAN]]
  /\ used \subseteq Docs /\ chunks \cup work \subseteq Docs \X Kbs
  /\ slot \in [Slots -> Slot]
  /\ told \in [created: SUBSET (Orgs \cup Kbs), uploads: SUBSET Answer, deleted: SUBSET Kbs]
  /\ \A d \in Docs : doc[d].kb # None => kb[doc[d].kb] # None

Forget(docs) == {a \in told.uploads : a.doc \notin docs}

NoRow == [kb |-> None, source |-> None, size |-> 0, blind |-> FALSE]

Init ==
  /\ org = [g \in Orgs |-> None] /\ kb = [k \in Kbs |-> None]
  /\ drawn = [k \in Kbs |-> None] /\ member = {}
  /\ doc = [d \in Docs |-> NoRow] /\ used = {} /\ chunks = {} /\ work = {}
  /\ slot = [s \in Slots |-> Idle]
  /\ told = [created |-> {}, uploads |-> {}, deleted |-> {}]
------------------------------------------------------------------------------
At(s, pc) == slot[s].pc = pc
Put(s, r) == slot' = [slot EXCEPT ![s] = r]
Goto(s, pc) == Put(s, [slot[s] EXCEPT !.pc = pc])
End(s) == Put(s, Idle)

DocsOf(k) == {d \in Docs : doc[d].kb = k}

\* The sum of the sizes of some rows: their bytes, counted.
Bytes(S, row) == UNION {{x} \X (1..row[x].size) : x \in S}
Total(S, row) == Cardinality(Bytes(S, row))

Used(k) == Total(DocsOf(k), doc)

\* RequireScopeRole, with the org that OrgIDForKB finds.
MayEnter(u, k) == kb[k] # None /\ (<<u, kb[k]>> \in member \/ <<u, k>> \in member)

Uploading(s, k) == slot[s].at = k /\ slot[s].pc \in {"get", "quota", "dedup", "enqueue", "existing"}
Deleting(s, k) ==
  slot[s].at = k /\ slot[s].pc \in {"get_delete", "list", "docs", "row", "kb_row"}

\* The assumption Quiet makes of the users of a kb.
NoDelete(k) == Quiet => \A s \in Slots : ~Deleting(s, k)
NoUse(k) == Quiet => (\A s \in Slots : ~Uploading(s, k)) /\ \A x \in work : x[2] # k

\* A statement fails, or the client is gone: the handler answers with an error.
Fails(s) ==
  /\ ~Reliable /\ ~At(s, "idle")
  /\ End(s)
  /\ UNCHANGED <<rows, told>>
------------------------------------------------------------------------------
(* POST /api/orgs, POST /api/orgs/{org}/kbs                                *)

\* CreateOrg: the org, and then the membership of its creator.
CreateOrg(s, u, g) ==
  /\ At(s, "idle") /\ org[g] = None
  /\ org' = [org EXCEPT ![g] = u]
  /\ Put(s, [Idle EXCEPT !.pc = "org_grant", !.user = u, !.at = g])
  /\ UNCHANGED <<kb, drawn, member, doc, used, chunks, work, told>>

OrgGrant(s) ==
  /\ At(s, "org_grant")
  /\ member' = member \cup {<<slot[s].user, slot[s].at>>}
  /\ End(s)
  /\ told' = [told EXCEPT !.created = @ \cup {slot[s].at}]
  /\ UNCHANGED <<org, kb, drawn, doc, used, chunks, work>>

\* An org-level admin asks for a kb.
AskKb(s, u, g) ==
  /\ At(s, "idle") /\ <<u, g>> \in member
  /\ Put(s, [Idle EXCEPT !.pc = "insert", !.user = u, !.at = g])
  /\ UNCHANGED <<rows, told>>

\* Slip: the client is told of the kb as soon as its row is committed.
InsertKbAndAnswer(s) ==
  /\ At(s, "insert")
  /\ \E k \in Kbs :
       /\ drawn[k] = None
       /\ drawn' = [drawn EXCEPT ![k] = slot[s].user]
       /\ kb' = [kb EXCEPT ![k] = slot[s].at]
       /\ Put(s, [slot[s] EXCEPT !.pc = "grant", !.at = k])
       /\ told' = [told EXCEPT !.created = @ \cup {k}]
  /\ UNCHANGED <<org, member, doc, used, chunks, work>>

\* Create commits the row under a new id.
InsertKb(s) ==
  /\ At(s, "insert")
  /\ \E k \in Kbs :
       /\ drawn[k] = None
       /\ drawn' = [drawn EXCEPT ![k] = slot[s].user]
       /\ kb' = [kb EXCEPT ![k] = slot[s].at]
       /\ Put(s, [slot[s] EXCEPT !.pc = "grant", !.at = k])
  /\ UNCHANGED <<org, member, doc, used, chunks, work, told>>

\* UpsertMembership, on another connection.
Grant(s) ==
  /\ At(s, "grant")
  /\ member' = member \cup {<<slot[s].user, slot[s].at>>}
  /\ End(s)
  /\ told' = [told EXCEPT !.created = @ \cup {slot[s].at}]
  /\ UNCHANGED <<org, kb, drawn, doc, used, chunks, work>>
------------------------------------------------------------------------------
(* POST /api/kb/{id}/documents, and the worker that indexes the document.  *)

Upload(s, u, k, x, n) ==
  /\ At(s, "idle") /\ MayEnter(u, k) /\ NoDelete(k)
  /\ Put(s, [Idle EXCEPT !.pc = "get", !.user = u, !.at = k, !.source = x, !.size = n])
  /\ UNCHANGED <<rows, told>>

GetForUpload(s) ==
  /\ At(s, "get")
  /\ IF kb[slot[s].at] = None THEN End(s) ELSE Goto(s, "quota")
  /\ UNCHANGED <<rows, told>>

\* Slip: the size of the upload itself is not counted.
OverQuotaAlready(k, n) == Used(k) > Quota

OverQuota(k, n) == Used(k) + n > Quota

\* KBContentBytes.  The upload is let through if the sum cannot be read.
CheckQuota(s) ==
  /\ At(s, "quota")
  /\ \/ OverQuota(slot[s].at, slot[s].size) /\ End(s)
     \/ ~OverQuota(slot[s].at, slot[s].size) /\ Goto(s, "dedup")
     \/ ~Reliable /\ Put(s, [slot[s] EXCEPT !.pc = "dedup", !.blind = TRUE])
  /\ UNCHANGED <<rows, told>>

\* The row that has the content of this upload, in its kb.
Holds(s, d) ==
  doc[d].kb = slot[s].at /\ doc[d].source = slot[s].source /\ doc[d].size = slot[s].size

\* The client is told of a document that was there or has just been made.
AnswerWith(s, d) ==
  /\ End(s)
  /\ told' = [told EXCEPT !.uploads = @ \cup
                 {[doc |-> d, kb |-> slot[s].at, source |-> slot[s].source,
                   size |-> slot[s].size]}]

\* Enqueue looks for a document with this content that has been indexed.  The
\* content of a url is not known, and an error of the SELECT is passed over.
Dedup(s) ==
  /\ At(s, "dedup")
  /\ \/ \E d \in Docs : /\ Holds(s, d) /\ <<d, slot[s].at>> \in chunks /\ slot[s].size > 0
                        /\ AnswerWith(s, d)
     \/ /\ \/ \A d \in Docs : Holds(s, d) => <<d, slot[s].at>> \notin chunks
           \/ slot[s].size = 0 \/ ~Reliable
        /\ Goto(s, "enqueue") /\ UNCHANGED told
  /\ UNCHANGED rows

\* The row and the job of the upload, under a new id.
Insert(s) ==
  \E d \in Docs \ used :
    /\ used' = used \cup {d}
    /\ doc' = [doc EXCEPT ![d] = [kb |-> slot[s].at, source |-> slot[s].source,
                                 size |-> slot[s].size, blind |-> slot[s].blind]]
    /\ AnswerWith(s, d)

\* Slip: the SELECT is all that there is against duplicates.
EnqueueAnyway(s) ==
  /\ At(s, "enqueue")
  /\ IF kb[slot[s].at] = None THEN End(s) /\ UNCHANGED <<doc, used, told>> ELSE Insert(s)
  /\ UNCHANGED <<org, kb, drawn, member, chunks, work>>

\* The transaction of Enqueue: the foreign key refuses the row if the kb is gone,
\* the idempotency key if a job with this content is there.
Enqueue(s) ==
  /\ At(s, "enqueue")
  /\ \/ kb[slot[s].at] = None /\ End(s) /\ UNCHANGED <<doc, used, told>>
     \/ (\E d \in Docs : Holds(s, d)) /\ Goto(s, "existing") /\ UNCHANGED <<doc, used, told>>
     \/ kb[slot[s].at] # None /\ (\A d \in Docs : ~Holds(s, d)) /\ Insert(s)
  /\ UNCHANGED <<org, kb, drawn, member, chunks, work>>

\* The key's document, which may have gone after the rollback.
Existing(s) ==
  /\ At(s, "existing")
  /\ \/ \E d \in Docs : Holds(s, d) /\ AnswerWith(s, d)
     \/ (\A d \in Docs : ~Holds(s, d)) /\ End(s) /\ UNCHANGED told
  /\ UNCHANGED rows

\* A worker claims the job of a document and imports its chunks, which does
\* not look at the rows again.
Claim(d) ==
  LET x == <<d, doc[d].kb>> IN
  /\ doc[d].kb # None /\ x \notin work \cup chunks /\ NoDelete(doc[d].kb)
  /\ work' = work \cup {x}
  /\ UNCHANGED <<org, kb, drawn, member, doc, used, chunks, slot, told>>

Import(x) ==
  /\ chunks' = chunks \cup {x} /\ work' = work \ {x}
  /\ UNCHANGED <<org, kb, drawn, member, doc, used, slot, told>>
------------------------------------------------------------------------------
(* DELETE /api/kb/{id}                                                     *)

Delete(s, u, k) ==
  /\ At(s, "idle") /\ MayEnter(u, k) /\ NoUse(k)
  /\ Put(s, [Idle EXCEPT !.pc = "get_delete", !.user = u, !.at = k])
  /\ UNCHANGED <<rows, told>>

GetForDelete(s) ==
  /\ At(s, "get_delete")
  /\ IF kb[slot[s].at] = None THEN End(s) ELSE Goto(s, "list")
  /\ UNCHANGED <<rows, told>>

\* The ids of the documents are read once.
ListDocs(s) ==
  /\ At(s, "list")
  /\ Put(s, [slot[s] EXCEPT !.pc = "docs", !.todo = DocsOf(slot[s].at)])
  /\ UNCHANGED <<rows, told>>

\* Slip: the row goes first.
RemoveRowFirst(s) ==
  /\ At(s, "docs")
  /\ \E d \in slot[s].todo :
       /\ doc' = [doc EXCEPT ![d] = NoRow]
       /\ told' = [told EXCEPT !.uploads = Forget({d})]
       /\ Put(s, [slot[s] EXCEPT !.pc = "row", !.one = d, !.todo = @ \ {d}])
  /\ UNCHANGED <<org, kb, drawn, member, used, chunks, work>>

\* The next document: the graph is reconciled and the chunks removed.
RemoveChunks(s) ==
  /\ At(s, "docs")
  /\ \E d \in slot[s].todo :
       /\ chunks' = chunks \ {<<d, slot[s].at>>}
       /\ Put(s, [slot[s] EXCEPT !.pc = "row", !.one = d, !.todo = @ \ {d}])
  /\ UNCHANGED <<org, kb, drawn, member, doc, used, work, told>>

RemoveRow(s) ==
  /\ At(s, "row")
  /\ doc' = [doc EXCEPT ![slot[s].one] = NoRow]
  /\ told' = [told EXCEPT !.uploads = Forget({slot[s].one})]
  /\ Put(s, [slot[s] EXCEPT !.pc = "docs", !.one = None])
  /\ UNCHANGED <<org, kb, drawn, member, used, chunks, work>>

\* Slip: a document that cannot be deleted is passed over.
RecomputeAnyway(s) ==
  /\ At(s, "docs")
  /\ Goto(s, "kb_row")
  /\ UNCHANGED <<rows, told>>

\* One recompute of the communities after all documents.
Recompute(s) ==
  /\ At(s, "docs") /\ slot[s].todo = {}
  /\ Goto(s, "kb_row")
  /\ UNCHANGED <<rows, told>>

\* DeleteRow: the row, with the documents that are left (the foreign key
\* cascades), and the memberships, in one transaction; ErrNotFound if another
\* request was faster.
DeleteRow(s) ==
  LET k == slot[s].at IN
  /\ At(s, "kb_row")
  /\ IF kb[k] = None THEN UNCHANGED <<kb, doc, member, told>>
     ELSE /\ kb' = [kb EXCEPT ![k] = None]
          /\ doc' = [d \in Docs |-> IF doc[d].kb = k THEN NoRow ELSE doc[d]]
          /\ member' = {m \in member : m[2] # k}
          /\ told' = [told EXCEPT !.deleted = @ \cup {k}, !.uploads = Forget(DocsOf(k))]
  /\ End(s)
  /\ UNCHANGED <<org, drawn, used, chunks, work>>
------------------------------------------------------------------------------
Next ==
  \/ \E s \in Slots :
       \/ \E u \in Users :
            \/ \E g \in Orgs : CreateOrg(s, u, g) \/ AskKb(s, u, g)
            \/ \E k \in Kbs : Delete(s, u, k) \/ \E x \in Sources, n \in Sizes : Upload(s, u, k, x, n)
       \/ OrgGrant(s) \/ InsertKb(s) \/ Grant(s)
       \/ GetForUpload(s) \/ CheckQuota(s) \/ Dedup(s) \/ Enqueue(s) \/ Existing(s)
       \/ GetForDelete(s) \/ ListDocs(s) \/ RemoveChunks(s) \/ RemoveRow(s)
       \/ Recompute(s) \/ DeleteRow(s) \/ Fails(s)
  \/ \E d \in Docs : Claim(d)
  \/ \E x \in work : Import(x)

Spec == Init /\ [][Next]_vars
------------------------------------------------------------------------------
\* An org or kb that a client was told of has its creator as admin, until the
\* kb is deleted: the creator is never locked out.
ReportedHasAdmin ==
  /\ \A g \in Orgs \cap told.created : <<org[g], g>> \in member
  /\ \A k \in Kbs \cap told.created : kb[k] # None => <<drawn[k], k>> \in member

\* Uploads of the same content into a kb are answered with one document, at whatever
\* time they overlap, as long as its row is there; and with the right one.
OneDocPerContent ==
  \A a \in told.uploads : doc[a.doc].kb # None =>
    \A d \in Docs :
      (doc[d].kb = a.kb /\ doc[d].source = a.source /\ doc[d].size = a.size) <=> d = a.doc

\* If kbs are left alone while they are deleted, chunks never lose their row:
\* a delete that fails anywhere can be repeated and finds what is left.
ChunksHaveRow == Quiet => \A x \in chunks \cup work : doc[x[1]].kb = x[2]

\* If nobody uses a kb while it is deleted, the cascade leaves nothing of it: no row,
\* no chunks and no import, however often deletions fail and are repeated.
KbEmptied ==
  Quiet => \A k \in told.deleted : DocsOf(k) = {} /\ \A x \in chunks \cup work : x[2] # k

\* The documents that were let in by a sum.
Counted(k) == {d \in DocsOf(k) : ~doc[d].blind}

\* The uploads that were let in by a sum overrun the quota by at most the largest
\* one for every request served beside: each counts what is there when it reads.
QuotaSlack ==
  \A k \in Kbs : Total(Counted(k), doc) <= Quota + (Cardinality(Slots) - 1) * Most

\* "the per-kb storage quota BEFORE enqueueing" (handlers.go:21): no kb holds
\* more than its quota.
QuotaHeld == \A k \in Kbs : Used(k) <= Quota

\* "applies the cascade to every document in a kb" (delete.go:49): a deleted
\* kb has no chunks left when nothing works on its documents any more.
DeletedLeavesNoChunks ==
  \A k \in told.deleted : \A x \in chunks : x[2] = k => \E y \in work : y[2] = k

\* "UpsertMembership is idempotent so a retry recovers it" (orgkb.go:62-63):
\* when a client's creation succeeds at last, no kb of theirs is left without
\* its admin by the attempts before.
RetryRecovers ==
  [][told'.created # told.created =>
       \A k \in Kbs : kb'[k] # None => <<drawn'[k], k>> \in member']_vars
==============================================================================
