-------------------------- MODULE KbLifecycleProofs --------------------------
(***************************************************************************)
(* Proofs about KbLifecycle: who administers the kbs, that uploads of one  *)
(* content share one document, that chunks keep their row, that nothing is *)
(* left of a deleted kb, and by how much overlapping uploads overrun the   *)
(* quota.                                                                  *)
(***************************************************************************)
EXTENDS KbLifecycle, FiniteSetTheorems, TLAPS

\* What each request works on.
SlotOK(s) ==
  /\ At(s, "org_grant") => /\ slot[s].user \in Users /\ slot[s].at \in Orgs
                           /\ org[slot[s].at] = slot[s].user
  /\ At(s, "insert") => slot[s].user \in Users /\ slot[s].at \in Orgs
  /\ At(s, "grant") => /\ slot[s].user \in Users /\ slot[s].at \in Kbs
                       /\ drawn[slot[s].at] = slot[s].user
  /\ slot[s].pc \notin {"idle", "org_grant", "insert", "grant"} => slot[s].at \in Kbs
  /\ slot[s].pc \in {"get", "quota", "dedup", "enqueue", "existing"} =>
       slot[s].source \in Sources /\ slot[s].size \in Sizes
  /\ At(s, "row") => slot[s].one \in Docs

SlotsOK == \A s \in Slots : SlotOK(s)

\* A kb that was created or is there has had its id drawn, so it is not drawn again.
DrawnOK == \A k \in Kbs : kb[k] # None \/ k \in told.created => drawn[k] # None

\* Ids of documents are not drawn twice; what clients were told of a row is true;
\* and no two rows have one content.
RowsOK ==
  /\ \A d \in Docs : doc[d].kb # None => d \in used
  /\ \A a \in told.uploads :
       /\ a.doc \in used
       /\ doc[a.doc].kb # None => /\ doc[a.doc].kb = a.kb /\ doc[a.doc].source = a.source
                                  /\ doc[a.doc].size = a.size
  /\ \A d, e \in Docs :
       doc[d].kb # None /\ doc[e].kb = doc[d].kb
       /\ doc[e].source = doc[d].source /\ doc[e].size = doc[d].size => d = e

\* A deletion works on documents of its kb only, and nobody uses the kb meanwhile:
\* when it comes to the row of a document the chunks are gone, and when it comes
\* to the row of the kb the documents are.
DeletionOK(s, k) ==
  /\ \A r \in Slots : ~Uploading(r, k)
  /\ \A x \in work : x[2] # k
  /\ \A d \in slot[s].todo : d \in used /\ doc[d].kb \in {k, None}
  /\ At(s, "docs") => DocsOf(k) \subseteq slot[s].todo
  /\ At(s, "row") => /\ slot[s].one \in used /\ doc[slot[s].one].kb \in {k, None}
                     /\ <<slot[s].one, k>> \notin chunks
                     /\ DocsOf(k) \subseteq slot[s].todo \cup {slot[s].one}
  /\ At(s, "kb_row") => DocsOf(k) = {}

DeletionsOK == Quiet => \A s \in Slots, k \in Kbs : Deleting(s, k) => DeletionOK(s, k)

IInv ==
  TypeOK /\ SlotsOK /\ DrawnOK /\ ReportedHasAdmin /\ RowsOK /\ DeletionsOK /\ ChunksHaveRow
------------------------------------------------------------------------------
\* A request that is put has its type, and the others stay.
LEMMA PutOne ==
  ASSUME TypeOK, NEW s \in Slots, NEW r \in Slot, Put(s, r)
  PROVE  /\ slot' \in [Slots -> Slot] /\ slot'[s] = r
         /\ \A t \in Slots \ {s} : slot'[t] = slot[t]
BY DEF TypeOK, Put

\* The slots after a request is put, whatever its type.
LEMMA PutAny ==
  ASSUME TypeOK, NEW s \in Slots, NEW r, Put(s, r)
  PROVE  slot'[s] = r /\ \A t \in Slots \ {s} : slot'[t] = slot[t]
BY DEF TypeOK, Put

\* A request that goes on keeps what it works on.
LEMMA GotoOne ==
  ASSUME TypeOK, NEW s \in Slots,
         NEW pc \in {"quota", "dedup", "enqueue", "existing", "list", "docs", "kb_row"}, Goto(s, pc)
  PROVE  /\ slot' \in [Slots -> Slot]
         /\ slot'[s].pc = pc /\ slot'[s].at = slot[s].at /\ slot'[s].user = slot[s].user
         /\ slot'[s].source = slot[s].source /\ slot'[s].size = slot[s].size
         /\ slot'[s].todo = slot[s].todo /\ slot'[s].one = slot[s].one
         /\ \A t \in Slots \ {s} : slot'[t] = slot[t]
<1>1. slot[s] \in Slot
  BY DEF TypeOK
<1>2. [slot[s] EXCEPT !.pc = pc] \in Slot
  BY <1>1 DEF Slot
<1> QED
  BY <1>1, <1>2, PutOne DEF Goto, Slot

\* A request that ends is idle.
LEMMA EndOne ==
  ASSUME TypeOK, NEW s \in Slots, End(s)
  PROVE  /\ slot' \in [Slots -> Slot] /\ slot'[s].pc = "idle"
         /\ \A t \in Slots \ {s} : slot'[t] = slot[t]
<1>1. Idle \in Slot /\ Idle.pc = "idle"
  BY DEF Idle, Slot
<1> QED
  BY <1>1, PutOne DEF End

\* A request on its way to being dealt with, and the others: their slots stay right
\* if no org or kb id changes its owner.
LEMMA OthersOK ==
  ASSUME TypeOK, SlotsOK, NEW s \in Slots,
         \A t \in Slots \ {s} : slot'[t] = slot[t],
         \A g \in Orgs : org[g] # None => org'[g] = org[g],
         \A k \in Kbs : drawn[k] # None => drawn'[k] = drawn[k]
  PROVE  \A t \in Slots \ {s} : SlotOK(t)'
BY KbAssumption DEF SlotsOK, SlotOK, At

\* What clients are told has its type if the answer to an upload has.
Told == [created: SUBSET (Orgs \cup Kbs), uploads: SUBSET Answer, deleted: SUBSET Kbs]

LEMMA AnswerTyped ==
  ASSUME TypeOK, NEW s \in Slots, NEW d \in Docs, AnswerWith(s, d),
         slot[s].at \in Kbs, slot[s].source \in Sources, slot[s].size \in Sizes
  PROVE  told' \in Told
<1>1. [doc |-> d, kb |-> slot[s].at, source |-> slot[s].source, size |-> slot[s].size] \in Answer
  BY DEF Answer
<1> QED
  BY <1>1 DEF TypeOK, Told, AnswerWith

\* A step keeps the types, and what each request works on.
LEMMA TypeStep ==
  ASSUME TypeOK, SlotsOK, [Next]_vars
  PROVE  TypeOK' /\ SlotsOK'
<1> USE KbAssumption
<1>1. ASSUME NEW s \in Slots, NEW u \in Users, NEW g \in Orgs, CreateOrg(s, u, g)
      PROVE  TypeOK' /\ SlotsOK'
  <2>1. slot[s] \in Slot /\ SlotOK(s)
    BY DEF TypeOK, SlotsOK
  <2>2. /\ slot' \in [Slots -> Slot] /\ \A t \in Slots \ {s} : slot'[t] = slot[t]
        /\ SlotOK(s)'
    <3> DEFINE r == [Idle EXCEPT !.pc = "org_grant", !.user = u, !.at = g]
    <3>1. r \in Slot
      BY <1>1 DEF Idle, Slot, SlotOK, At
    <3>2. Put(s, r)
      BY <1>1 DEF CreateOrg
    <3>3. slot'[s] = r /\ slot' \in [Slots -> Slot] /\ \A t \in Slots \ {s} : slot'[t] = slot[t]
      BY <3>1, <3>2, PutOne
    <3>4. SlotOK(s)'
      BY <1>1, <3>3 DEF CreateOrg, Idle, SlotOK, At, TypeOK
    <3> QED
      BY <3>3, <3>4
  <2>3. \A t \in Slots \ {s} : SlotOK(t)'
    BY <1>1, <2>2, OthersOK DEF CreateOrg, rows
  <2>4. TypeOK'
    BY <1>1, <2>1, <2>2 DEF TypeOK, SlotOK, At, CreateOrg, rows
  <2> QED
    BY <2>2, <2>3, <2>4 DEF SlotsOK
<1>2. ASSUME NEW s \in Slots, NEW u \in Users, NEW g \in Orgs, AskKb(s, u, g)
      PROVE  TypeOK' /\ SlotsOK'
  <2>1. slot[s] \in Slot /\ SlotOK(s)
    BY DEF TypeOK, SlotsOK
  <2>2. /\ slot' \in [Slots -> Slot] /\ \A t \in Slots \ {s} : slot'[t] = slot[t]
        /\ SlotOK(s)'
    <3> DEFINE r == [Idle EXCEPT !.pc = "insert", !.user = u, !.at = g]
    <3>1. r \in Slot
      BY <1>2 DEF Idle, Slot, SlotOK, At
    <3>2. Put(s, r)
      BY <1>2 DEF AskKb
    <3>3. slot'[s] = r /\ slot' \in [Slots -> Slot] /\ \A t \in Slots \ {s} : slot'[t] = slot[t]
      BY <3>1, <3>2, PutOne
    <3>4. SlotOK(s)'
      BY <1>2, <3>3 DEF AskKb, Idle, SlotOK, At, TypeOK
    <3> QED
      BY <3>3, <3>4
  <2>3. \A t \in Slots \ {s} : SlotOK(t)'
    BY <1>2, <2>2, OthersOK DEF AskKb, rows
  <2>4. TypeOK'
    BY <1>2, <2>1, <2>2 DEF TypeOK, SlotOK, At, AskKb, rows
  <2> QED
    BY <2>2, <2>3, <2>4 DEF SlotsOK
<1>3. ASSUME NEW s \in Slots, NEW u \in Users, NEW k \in Kbs, Delete(s, u, k)
      PROVE  TypeOK' /\ SlotsOK'
  <2>1. slot[s] \in Slot /\ SlotOK(s)
    BY DEF TypeOK, SlotsOK
  <2>2. /\ slot' \in [Slots -> Slot] /\ \A t \in Slots \ {s} : slot'[t] = slot[t]
        /\ SlotOK(s)'
    <3> DEFINE r == [Idle EXCEPT !.pc = "get_delete", !.user = u, !.at = k]
    <3>1. r \in Slot
      BY <1>3 DEF Idle, Slot, SlotOK, At
    <3>2. Put(s, r)
      BY <1>3 DEF Delete
    <3>3. slot'[s] = r /\ slot' \in [Slots -> Slot] /\ \A t \in Slots \ {s} : slot'[t] = slot[t]
      BY <3>1, <3>2, PutOne
    <3>4. SlotOK(s)'
      BY <1>3, <3>3 DEF Delete, Idle, SlotOK, At, TypeOK
    <3> QED
      BY <3>3, <3>4
  <2>3. \A t \in Slots \ {s} : SlotOK(t)'
    BY <1>3, <2>2, OthersOK DEF Delete, rows
  <2>4. TypeOK'
    BY <1>3, <2>1, <2>2 DEF TypeOK, SlotOK, At, Delete, rows
  <2> QED
    BY <2>2, <2>3, <2>4 DEF SlotsOK
<1>4. ASSUME NEW s \in Slots, NEW u \in Users, NEW k \in Kbs, NEW x \in Sources, NEW n \in Sizes, Upload(s, u, k, x, n)
      PROVE  TypeOK' /\ SlotsOK'
  <2>1. slot[s] \in Slot /\ SlotOK(s)
    BY DEF TypeOK, SlotsOK
  <2>2. /\ slot' \in [Slots -> Slot] /\ \A t \in Slots \ {s} : slot'[t] = slot[t]
        /\ SlotOK(s)'
    <3> DEFINE r == [Idle EXCEPT !.pc = "get", !.user = u, !.at = k, !.source = x, !.size = n]
    <3>1. r \in Slot
      BY <1>4 DEF Idle, Slot, SlotOK, At
    <3>2. Put(s, r)
      BY <1>4 DEF Upload
    <3>3. slot'[s] = r /\ slot' \in [Slots -> Slot] /\ \A t \in Slots \ {s} : slot'[t] = slot[t]
      BY <3>1, <3>2, PutOne
    <3>4. SlotOK(s)'
      BY <1>4, <3>3 DEF Upload, Idle, SlotOK, At, TypeOK
    <3> QED
      BY <3>3, <3>4
  <2>3. \A t \in Slots \ {s} : SlotOK(t)'
    BY <1>4, <2>2, OthersOK DEF Upload, rows
  <2>4. TypeOK'
    BY <1>4, <2>1, <2>2 DEF TypeOK, SlotOK, At, Upload, rows
  <2> QED
    BY <2>2, <2>3, <2>4 DEF SlotsOK
<1>5. ASSUME NEW s \in Slots, OrgGrant(s)
      PROVE  TypeOK' /\ SlotsOK'
  <2>1. slot[s] \in Slot /\ SlotOK(s)
    BY DEF TypeOK, SlotsOK
  <2>2. /\ slot' \in [Slots -> Slot] /\ \A t \in Slots \ {s} : slot'[t] = slot[t]
        /\ SlotOK(s)'
    BY <1>5, <2>1, GotoOne, EndOne DEF OrgGrant, SlotOK, At, Slot
  <2>3. \A t \in Slots \ {s} : SlotOK(t)'
    BY <1>5, <2>2, OthersOK DEF OrgGrant, rows
  <2>4. TypeOK'
    BY <1>5, <2>1, <2>2 DEF TypeOK, SlotOK, At, OrgGrant, rows
  <2> QED
    BY <2>2, <2>3, <2>4 DEF SlotsOK
<1>6. ASSUME NEW s \in Slots, InsertKb(s)
      PROVE  TypeOK' /\ SlotsOK'
  <2>1. slot[s] \in Slot /\ SlotOK(s)
    BY DEF TypeOK, SlotsOK
  <2>2. /\ slot' \in [Slots -> Slot] /\ \A t \in Slots \ {s} : slot'[t] = slot[t]
        /\ SlotOK(s)'
    <3> PICK k \in Kbs : InsertKb(s)!2!(k)
      BY <1>6 DEF InsertKb
    <3> DEFINE r == [slot[s] EXCEPT !.pc = "grant", !.at = k]
    <3>1. r \in Slot
      BY <2>1 DEF Slot
    <3>3. slot'[s] = r /\ slot' \in [Slots -> Slot] /\ \A t \in Slots \ {s} : slot'[t] = slot[t]
      BY <3>1, PutOne
    <3>2. drawn'[k] = slot[s].user /\ slot[s].user \in Users
      BY <1>6, <2>1 DEF InsertKb, TypeOK, SlotOK, At
    <3> QED
      BY <2>1, <3>1, <3>2, <3>3 DEF SlotOK, At, Slot
  <2>3. \A t \in Slots \ {s} : SlotOK(t)'
    BY <1>6, <2>2, OthersOK DEF InsertKb, rows
  <2>4. TypeOK'
    BY <1>6, <2>1, <2>2 DEF TypeOK, SlotOK, At, InsertKb, rows
  <2> QED
    BY <2>2, <2>3, <2>4 DEF SlotsOK
<1>7. ASSUME NEW s \in Slots, Grant(s)
      PROVE  TypeOK' /\ SlotsOK'
  <2>1. slot[s] \in Slot /\ SlotOK(s)
    BY DEF TypeOK, SlotsOK
  <2>2. /\ slot' \in [Slots -> Slot] /\ \A t \in Slots \ {s} : slot'[t] = slot[t]
        /\ SlotOK(s)'
    BY <1>7, <2>1, GotoOne, EndOne DEF Grant, SlotOK, At, Slot
  <2>3. \A t \in Slots \ {s} : SlotOK(t)'
    BY <1>7, <2>2, OthersOK DEF Grant, rows
  <2>4. TypeOK'
    BY <1>7, <2>1, <2>2 DEF TypeOK, SlotOK, At, Grant, rows
  <2> QED
    BY <2>2, <2>3, <2>4 DEF SlotsOK
<1>8. ASSUME NEW s \in Slots, GetForUpload(s)
      PROVE  TypeOK' /\ SlotsOK'
  <2>1. slot[s] \in Slot /\ SlotOK(s)
    BY DEF TypeOK, SlotsOK
  <2>2. /\ slot' \in [Slots -> Slot] /\ \A t \in Slots \ {s} : slot'[t] = slot[t]
        /\ SlotOK(s)'
    BY <1>8, <2>1, GotoOne, EndOne DEF GetForUpload, SlotOK, At, Slot
  <2>3. \A t \in Slots \ {s} : SlotOK(t)'
    BY <1>8, <2>2, OthersOK DEF GetForUpload, rows
  <2>4. TypeOK'
    BY <1>8, <2>1, <2>2 DEF TypeOK, SlotOK, At, GetForUpload, rows
  <2> QED
    BY <2>2, <2>3, <2>4 DEF SlotsOK
<1>9. ASSUME NEW s \in Slots, CheckQuota(s)
      PROVE  TypeOK' /\ SlotsOK'
  <2>1. slot[s] \in Slot /\ SlotOK(s)
    BY DEF TypeOK, SlotsOK
  <2>2. /\ slot' \in [Slots -> Slot] /\ \A t \in Slots \ {s} : slot'[t] = slot[t]
        /\ SlotOK(s)'
    <3>1. CASE End(s) \/ Goto(s, "dedup")
      BY <1>9, <2>1, <3>1, GotoOne, EndOne DEF CheckQuota, SlotOK, At
    <3>2. CASE Put(s, [slot[s] EXCEPT !.pc = "dedup", !.blind = TRUE])
      <4> DEFINE r == [slot[s] EXCEPT !.pc = "dedup", !.blind = TRUE]
      <4>1. r \in Slot
        BY <2>1 DEF Slot
      <4>2. slot'[s] = r /\ slot' \in [Slots -> Slot] /\ \A t \in Slots \ {s} : slot'[t] = slot[t]
        BY <3>2, <4>1, PutOne
      <4> QED
        BY <1>9, <2>1, <4>2 DEF CheckQuota, SlotOK, At, Slot
    <3> QED
      BY <1>9, <3>1, <3>2 DEF CheckQuota
  <2>3. \A t \in Slots \ {s} : SlotOK(t)'
    BY <1>9, <2>2, OthersOK DEF CheckQuota, rows
  <2>4. TypeOK'
    BY <1>9, <2>1, <2>2 DEF TypeOK, SlotOK, At, CheckQuota, rows
  <2> QED
    BY <2>2, <2>3, <2>4 DEF SlotsOK
<1>10. ASSUME NEW s \in Slots, Dedup(s)
      PROVE  TypeOK' /\ SlotsOK'
  <2>1. slot[s] \in Slot /\ SlotOK(s)
    BY DEF TypeOK, SlotsOK
  <2>2. /\ slot' \in [Slots -> Slot] /\ \A t \in Slots \ {s} : slot'[t] = slot[t]
        /\ SlotOK(s)'
    BY <1>10, <2>1, GotoOne, EndOne DEF Dedup, SlotOK, At, Slot, AnswerWith
  <2>3. \A t \in Slots \ {s} : SlotOK(t)'
    BY <1>10, <2>2, OthersOK DEF Dedup, rows
  <2>4. TypeOK'
    <3>1. told' \in Told
      BY <1>10, <2>1, AnswerTyped DEF Dedup, SlotOK, At, TypeOK, Told
    <3> QED
      BY <1>10, <2>2, <3>1 DEF TypeOK, Told, Dedup, rows
  <2> QED
    BY <2>2, <2>3, <2>4 DEF SlotsOK
<1>11. ASSUME NEW s \in Slots, Enqueue(s)
      PROVE  TypeOK' /\ SlotsOK'
  <2>1. slot[s] \in Slot /\ SlotOK(s)
    BY DEF TypeOK, SlotsOK
  <2>2. /\ slot' \in [Slots -> Slot] /\ \A t \in Slots \ {s} : slot'[t] = slot[t]
        /\ SlotOK(s)'
    BY <1>11, <2>1, GotoOne, EndOne DEF Enqueue, SlotOK, At, Slot, Insert, AnswerWith
  <2>3. \A t \in Slots \ {s} : SlotOK(t)'
    BY <1>11, <2>2, OthersOK DEF Enqueue, rows
  <2>4. TypeOK'
    <3>0. slot[s].at \in Kbs /\ slot[s].source \in Sources /\ slot[s].size \in Sizes
      BY <1>11, <2>1 DEF Enqueue, SlotOK, At
    <3>1. CASE Insert(s) /\ kb[slot[s].at] # None
      <4> PICK d \in Docs \ used :
             /\ used' = used \cup {d}
             /\ doc' = [doc EXCEPT ![d] = [kb |-> slot[s].at, source |-> slot[s].source,
                                         size |-> slot[s].size, blind |-> slot[s].blind]]
             /\ AnswerWith(s, d)
        BY <3>1 DEF Insert
      <4>1. told' \in Told
        BY <3>0, AnswerTyped
      <4>2. [kb |-> slot[s].at, source |-> slot[s].source, size |-> slot[s].size, blind |-> slot[s].blind]
              \in [kb: Kbs \cup {None}, source: Sources \cup {None}, size: Sizes \cup {0}, blind: BOOLEAN]
        BY <2>1, <3>0 DEF Slot
      <4>3. UNCHANGED <<org, kb, drawn, member, chunks, work>>
        BY <1>11 DEF Enqueue
      <4> QED
        BY <2>2, <3>1, <4>1, <4>2, <4>3 DEF TypeOK, Told
    <3>2. CASE UNCHANGED <<doc, used, told>>
      BY <1>11, <2>2, <3>2 DEF TypeOK, Enqueue
    <3> QED
      BY <1>11, <3>1, <3>2 DEF Enqueue
  <2> QED
    BY <2>2, <2>3, <2>4 DEF SlotsOK
<1>12. ASSUME NEW s \in Slots, Existing(s)
      PROVE  TypeOK' /\ SlotsOK'
  <2>1. slot[s] \in Slot /\ SlotOK(s)
    BY DEF TypeOK, SlotsOK
  <2>2. /\ slot' \in [Slots -> Slot] /\ \A t \in Slots \ {s} : slot'[t] = slot[t]
        /\ SlotOK(s)'
    BY <1>12, <2>1, GotoOne, EndOne DEF Existing, SlotOK, At, Slot, AnswerWith
  <2>3. \A t \in Slots \ {s} : SlotOK(t)'
    BY <1>12, <2>2, OthersOK DEF Existing, rows
  <2>4. TypeOK'
    <3>1. told' \in Told
      BY <1>12, <2>1, AnswerTyped DEF Existing, SlotOK, At, TypeOK, Told
    <3> QED
      BY <1>12, <2>2, <3>1 DEF TypeOK, Told, Existing, rows
  <2> QED
    BY <2>2, <2>3, <2>4 DEF SlotsOK
<1>13. ASSUME NEW s \in Slots, GetForDelete(s)
      PROVE  TypeOK' /\ SlotsOK'
  <2>1. slot[s] \in Slot /\ SlotOK(s)
    BY DEF TypeOK, SlotsOK
  <2>2. /\ slot' \in [Slots -> Slot] /\ \A t \in Slots \ {s} : slot'[t] = slot[t]
        /\ SlotOK(s)'
    BY <1>13, <2>1, GotoOne, EndOne DEF GetForDelete, SlotOK, At, Slot
  <2>3. \A t \in Slots \ {s} : SlotOK(t)'
    BY <1>13, <2>2, OthersOK DEF GetForDelete, rows
  <2>4. TypeOK'
    BY <1>13, <2>1, <2>2 DEF TypeOK, SlotOK, At, GetForDelete, rows
  <2> QED
    BY <2>2, <2>3, <2>4 DEF SlotsOK
<1>14. ASSUME NEW s \in Slots, ListDocs(s)
      PROVE  TypeOK' /\ SlotsOK'
  <2>1. slot[s] \in Slot /\ SlotOK(s)
    BY DEF TypeOK, SlotsOK
  <2>2. /\ slot' \in [Slots -> Slot] /\ \A t \in Slots \ {s} : slot'[t] = slot[t]
        /\ SlotOK(s)'
    <3> DEFINE r == [slot[s] EXCEPT !.pc = "docs", !.todo = DocsOf(slot[s].at)]
    <3>1. r \in Slot
      BY <2>1, <1>14 DEF Slot, DocsOf
    <3>2. Put(s, r)
      BY <1>14 DEF ListDocs
    <3>3. slot'[s] = r /\ slot' \in [Slots -> Slot] /\ \A t \in Slots \ {s} : slot'[t] = slot[t]
      BY <3>1, <3>2, PutOne
    <3>4. SlotOK(s)'
      BY <1>14, <2>1, <3>3 DEF ListDocs, SlotOK, At, Slot
    <3> QED
      BY <3>3, <3>4
  <2>3. \A t \in Slots \ {s} : SlotOK(t)'
    BY <1>14, <2>2, OthersOK DEF ListDocs, rows
  <2>4. TypeOK'
    BY <1>14, <2>1, <2>2 DEF TypeOK, SlotOK, At, ListDocs, rows
  <2> QED
    BY <2>2, <2>3, <2>4 DEF SlotsOK
<1>15. ASSUME NEW s \in Slots, RemoveChunks(s)
      PROVE  TypeOK' /\ SlotsOK'
  <2>1. slot[s] \in Slot /\ SlotOK(s)
    BY DEF TypeOK, SlotsOK
  <2>2. /\ slot' \in [Slots -> Slot] /\ \A t \in Slots \ {s} : slot'[t] = slot[t]
        /\ SlotOK(s)'
    <3> PICK d \in slot[s].todo : RemoveChunks(s)!2!(d)
      BY <1>15 DEF RemoveChunks
    <3>0. d \in Docs
      BY <2>1 DEF Slot
    <3> DEFINE r == [slot[s] EXCEPT !.pc = "row", !.one = d, !.todo = @ \ {d}]
    <3>1. r \in Slot
      BY <2>1, <3>0 DEF Slot
    <3>3. slot'[s] = r /\ slot' \in [Slots -> Slot] /\ \A t \in Slots \ {s} : slot'[t] = slot[t]
      BY <3>1, PutOne
    <3>2. slot[s].at \in Kbs
      BY <1>15, <2>1 DEF RemoveChunks, SlotOK, At
    <3> QED
      BY <2>1, <3>0, <3>2, <3>3 DEF SlotOK, At, Slot
  <2>3. \A t \in Slots \ {s} : SlotOK(t)'
    BY <1>15, <2>2, OthersOK DEF RemoveChunks, rows
  <2>4. TypeOK'
    BY <1>15, <2>1, <2>2 DEF TypeOK, SlotOK, At, RemoveChunks, rows
  <2> QED
    BY <2>2, <2>3, <2>4 DEF SlotsOK
<1>16. ASSUME NEW s \in Slots, RemoveRow(s)
      PROVE  TypeOK' /\ SlotsOK'
  <2>1. slot[s] \in Slot /\ SlotOK(s)
    BY DEF TypeOK, SlotsOK
  <2>2. /\ slot' \in [Slots -> Slot] /\ \A t \in Slots \ {s} : slot'[t] = slot[t]
        /\ SlotOK(s)'
    <3> DEFINE r == [slot[s] EXCEPT !.pc = "docs", !.one = None]
    <3>1. r \in Slot
      BY <2>1, <1>16 DEF Slot, DocsOf
    <3>2. Put(s, r)
      BY <1>16 DEF RemoveRow
    <3>3. slot'[s] = r /\ slot' \in [Slots -> Slot] /\ \A t \in Slots \ {s} : slot'[t] = slot[t]
      BY <3>1, <3>2, PutOne
    <3>4. SlotOK(s)'
      BY <1>16, <2>1, <3>3 DEF RemoveRow, SlotOK, At, Slot
    <3> QED
      BY <3>3, <3>4
  <2>3. \A t \in Slots \ {s} : SlotOK(t)'
    BY <1>16, <2>2, OthersOK DEF RemoveRow, rows
  <2>4. TypeOK'
    BY <1>16, <2>1, <2>2 DEF TypeOK, SlotOK, At, RemoveRow, rows, Forget, NoRow
  <2> QED
    BY <2>2, <2>3, <2>4 DEF SlotsOK
<1>17. ASSUME NEW s \in Slots, Recompute(s)
      PROVE  TypeOK' /\ SlotsOK'
  <2>1. slot[s] \in Slot /\ SlotOK(s)
    BY DEF TypeOK, SlotsOK
  <2>2. /\ slot' \in [Slots -> Slot] /\ \A t \in Slots \ {s} : slot'[t] = slot[t]
        /\ SlotOK(s)'
    BY <1>17, <2>1, GotoOne, EndOne DEF Recompute, SlotOK, At, Slot
  <2>3. \A t \in Slots \ {s} : SlotOK(t)'
    BY <1>17, <2>2, OthersOK DEF Recompute, rows
  <2>4. TypeOK'
    BY <1>17, <2>1, <2>2 DEF TypeOK, SlotOK, At, Recompute, rows
  <2> QED
    BY <2>2, <2>3, <2>4 DEF SlotsOK
<1>18. ASSUME NEW s \in Slots, DeleteRow(s)
      PROVE  TypeOK' /\ SlotsOK'
  <2>1. slot[s] \in Slot /\ SlotOK(s)
    BY DEF TypeOK, SlotsOK
  <2>2. /\ slot' \in [Slots -> Slot] /\ \A t \in Slots \ {s} : slot'[t] = slot[t]
        /\ SlotOK(s)'
    BY <1>18, <2>1, GotoOne, EndOne DEF DeleteRow, SlotOK, At, Slot
  <2>3. \A t \in Slots \ {s} : SlotOK(t)'
    BY <1>18, <2>2, OthersOK DEF DeleteRow, rows
  <2>4. TypeOK'
    <3>1. CASE kb[slot[s].at] = None
      BY <1>18, <2>2, <3>1 DEF TypeOK, DeleteRow
    <3>2. CASE kb[slot[s].at] # None
      <4>1. slot[s].at \in Kbs
        BY <1>18, <2>1 DEF DeleteRow, SlotOK, At
      <4>2. doc' \in [Docs -> [kb: Kbs \cup {None}, source: Sources \cup {None},
                           size: Sizes \cup {0}, blind: BOOLEAN]]
        <5> DEFINE R == [kb: Kbs \cup {None}, source: Sources \cup {None},
                         size: Sizes \cup {0}, blind: BOOLEAN]
        <5>1. NoRow \in R /\ \A d \in Docs : doc[d] \in R
          BY DEF TypeOK, NoRow
        <5>2. doc' = [d \in Docs |-> IF doc[d].kb = slot[s].at THEN NoRow ELSE doc[d]]
          BY <1>18, <3>2 DEF DeleteRow
        <5> HIDE DEF R
        <5> QED
          <6>1. doc' \in [Docs -> R]
            BY <5>1, <5>2
          <6> QED
            BY <6>1 DEF R
      <4>3. told' \in Told
        <5>1. /\ told \in Told
              /\ told' = [told EXCEPT !.deleted = @ \cup {slot[s].at},
                                    !.uploads = Forget(DocsOf(slot[s].at))]
          BY <1>18, <3>2 DEF TypeOK, Told, DeleteRow
        <5>2. Forget(DocsOf(slot[s].at)) \subseteq Answer
          BY <5>1 DEF Forget, Told
        <5> QED
          BY <4>1, <5>1, <5>2 DEF Told
      <4>4. \A d \in Docs : doc'[d].kb # None => kb'[doc'[d].kb] # None
        <5>1. /\ kb' = [kb EXCEPT ![slot[s].at] = None]
              /\ doc' = [d \in Docs |-> IF doc[d].kb = slot[s].at THEN NoRow ELSE doc[d]]
          BY <1>18, <3>2 DEF DeleteRow
        <5> QED
          BY <5>1 DEF TypeOK, NoRow
      <4> QED
        BY <1>18, <2>2, <3>2, <4>1, <4>2, <4>3, <4>4 DEF TypeOK, Told, DeleteRow
    <3> QED
      BY <3>1, <3>2
  <2> QED
    BY <2>2, <2>3, <2>4 DEF SlotsOK
<1>19. ASSUME NEW s \in Slots, Fails(s)
      PROVE  TypeOK' /\ SlotsOK'
  <2>1. slot[s] \in Slot /\ SlotOK(s)
    BY DEF TypeOK, SlotsOK
  <2>2. /\ slot' \in [Slots -> Slot] /\ \A t \in Slots \ {s} : slot'[t] = slot[t]
        /\ SlotOK(s)'
    BY <1>19, <2>1, GotoOne, EndOne DEF Fails, SlotOK, At, Slot
  <2>3. \A t \in Slots \ {s} : SlotOK(t)'
    BY <1>19, <2>2, OthersOK DEF Fails, rows
  <2>4. TypeOK'
    BY <1>19, <2>1, <2>2 DEF TypeOK, SlotOK, At, Fails, rows
  <2> QED
    BY <2>2, <2>3, <2>4 DEF SlotsOK
<1>20. ASSUME NEW d \in Docs, Claim(d) PROVE TypeOK' /\ SlotsOK'
  BY <1>20 DEF TypeOK, SlotsOK, SlotOK, Claim, At
<1>21. ASSUME NEW x \in work, Import(x) PROVE TypeOK' /\ SlotsOK'
  BY <1>21 DEF TypeOK, SlotsOK, SlotOK, Import, At
<1>22. CASE UNCHANGED vars
  BY <1>22 DEF TypeOK, SlotsOK, SlotOK, At, vars
<1> QED
  BY <1>1, <1>2, <1>3, <1>4, <1>5, <1>6, <1>7, <1>8, <1>9, <1>10, <1>11, <1>12, <1>13, <1>14,
     <1>15, <1>16, <1>17, <1>18, <1>19, <1>20, <1>21, <1>22 DEF Next

\* Most steps leave organisations, kbs, members and what was created alone.
LEMMA AdminStep ==
  ASSUME TypeOK, TypeOK', SlotsOK, DrawnOK, ReportedHasAdmin, [Next]_vars
  PROVE  DrawnOK' /\ ReportedHasAdmin'
<1> USE KbAssumption
<1>0. CASE UNCHANGED <<org, kb, drawn, member>> /\ told'.created = told.created
  BY <1>0 DEF DrawnOK, ReportedHasAdmin
<1>1. ASSUME NEW s \in Slots, NEW u \in Users, NEW g \in Orgs, CreateOrg(s, u, g)
      PROVE  DrawnOK' /\ ReportedHasAdmin'
  <2>1. <<None, g>> \notin member
    BY DEF TypeOK
  <2> QED
    BY <1>1, <2>1 DEF CreateOrg, DrawnOK, ReportedHasAdmin, TypeOK
<1>2. ASSUME NEW s \in Slots, OrgGrant(s) PROVE DrawnOK' /\ ReportedHasAdmin'
  <2>1. slot[s].at \in Orgs /\ org[slot[s].at] = slot[s].user
    BY <1>2 DEF OrgGrant, SlotsOK, SlotOK
  <2>2. told'.created = told.created \cup {slot[s].at}
    BY <1>2 DEF OrgGrant, TypeOK
  <2> QED
    BY <1>2, <2>1, <2>2 DEF OrgGrant, DrawnOK, ReportedHasAdmin
<1>3. ASSUME NEW s \in Slots, InsertKb(s) PROVE DrawnOK' /\ ReportedHasAdmin'
  <2>1. slot[s].user # None
    BY <1>3 DEF InsertKb, SlotsOK, SlotOK
  <2>2. PICK k \in Kbs : InsertKb(s)!2!(k)
    BY <1>3 DEF InsertKb
  <2> QED
    BY <1>3, <2>1, <2>2 DEF InsertKb, DrawnOK, ReportedHasAdmin, TypeOK
<1>4. ASSUME NEW s \in Slots, Grant(s) PROVE DrawnOK' /\ ReportedHasAdmin'
  <2>1. slot[s].at \in Kbs /\ slot[s].user # None /\ drawn[slot[s].at] = slot[s].user
    BY <1>4 DEF Grant, SlotsOK, SlotOK
  <2>2. told'.created = told.created \cup {slot[s].at}
    BY <1>4 DEF Grant, TypeOK
  <2> QED
    BY <1>4, <2>1, <2>2 DEF Grant, DrawnOK, ReportedHasAdmin
<1>5. ASSUME NEW s \in Slots, DeleteRow(s) PROVE DrawnOK' /\ ReportedHasAdmin'
  <2>1. slot[s].at \in Kbs
    BY <1>5 DEF DeleteRow, SlotsOK, SlotOK, At
  <2>2. CASE kb[slot[s].at] = None
    BY <1>5, <2>2, <1>0 DEF DeleteRow
  <2>3. CASE kb[slot[s].at] # None
    <3>1. /\ told'.created = told.created /\ UNCHANGED <<org, drawn>>
          /\ kb' = [kb EXCEPT ![slot[s].at] = None]
          /\ member' = {m \in member : m[2] # slot[s].at}
      BY <1>5, <2>3 DEF DeleteRow, TypeOK
    <3>2. \A u, x : <<u, x>> \in member /\ x # slot[s].at => <<u, x>> \in member'
      BY <3>1
    <3> QED
      BY <2>1, <3>1, <3>2 DEF DrawnOK, ReportedHasAdmin, TypeOK
  <2> QED
    BY <2>2, <2>3
<1>6. ASSUME NEW s \in Slots, NEW d \in Docs, AnswerWith(s, d)
      PROVE  told'.created = told.created
  BY <1>6 DEF AnswerWith, TypeOK
<1>7. ASSUME NEW s \in Slots, Dedup(s) \/ Enqueue(s) \/ Existing(s)
      PROVE  DrawnOK' /\ ReportedHasAdmin'
  BY <1>0, <1>6, <1>7 DEF Dedup, Enqueue, Existing, Insert, rows
<1>8. ASSUME NEW s \in Slots, RemoveRow(s) PROVE DrawnOK' /\ ReportedHasAdmin'
  <2>1. told'.created = told.created
    BY <1>8 DEF RemoveRow, TypeOK
  <2> QED
    BY <1>0, <1>8, <2>1 DEF RemoveRow
<1>9. ASSUME NEW s \in Slots,
             \/ \E u \in Users, g \in Orgs : AskKb(s, u, g)
             \/ \E u \in Users, k \in Kbs : Delete(s, u, k)
             \/ \E u \in Users, k \in Kbs, x \in Sources, n \in Sizes : Upload(s, u, k, x, n)
             \/ GetForUpload(s) \/ CheckQuota(s) \/ GetForDelete(s) \/ ListDocs(s)
             \/ RemoveChunks(s) \/ Recompute(s) \/ Fails(s)
      PROVE  DrawnOK' /\ ReportedHasAdmin'
  BY <1>0, <1>9 DEF AskKb, Delete, Upload, GetForUpload, CheckQuota, GetForDelete, ListDocs,
     RemoveChunks, Recompute, Fails, rows
<1>10. ASSUME (\E d \in Docs : Claim(d)) \/ (\E x \in work : Import(x)) \/ UNCHANGED vars
       PROVE  DrawnOK' /\ ReportedHasAdmin'
  BY <1>0, <1>10 DEF Claim, Import, vars
<1> QED
  BY <1>1, <1>2, <1>3, <1>4, <1>5, <1>7, <1>8, <1>9, <1>10 DEF Next

\* Rows come from Insert alone, which draws a new id and has looked for the content.
LEMMA RowsStep ==
  ASSUME TypeOK, TypeOK', SlotsOK, RowsOK, [Next]_vars
  PROVE  RowsOK'
<1> USE KbAssumption
<1>0. CASE UNCHANGED <<doc, used>> /\ told'.uploads = told.uploads
  BY <1>0 DEF RowsOK
<1>1. ASSUME UNCHANGED used, told'.uploads \subseteq told.uploads,
             \A d \in Docs : doc'[d] \in {doc[d], NoRow}
      PROVE  RowsOK'
  <2>1. \A a \in told.uploads : a.doc \in Docs /\ a.kb # None
    BY DEF TypeOK, Answer
  <2>2. \A d \in Docs : doc'[d].kb # None => doc'[d] = doc[d]
    BY <1>1 DEF NoRow
  <2> QED
    BY <1>1, <2>1, <2>2 DEF RowsOK
<1>2. ASSUME NEW s \in Slots, NEW d \in Docs, Holds(s, d), AnswerWith(s, d), UNCHANGED <<doc, used>>,
             slot[s].at \in Kbs
      PROVE  RowsOK'
  <2>1. told'.uploads = told.uploads \cup {[doc |-> d, kb |-> slot[s].at,
                          source |-> slot[s].source, size |-> slot[s].size]}
    BY <1>2 DEF AnswerWith, TypeOK
  <2> QED
    BY <1>2, <2>1 DEF RowsOK, Holds
<1>3. ASSUME NEW s \in Slots, Dedup(s) \/ Existing(s) PROVE RowsOK'
  <2>1. slot[s].at \in Kbs /\ UNCHANGED <<doc, used>>
    BY <1>3 DEF Dedup, Existing, SlotsOK, SlotOK, At, rows
  <2> QED
    BY <1>0, <1>2, <1>3, <2>1 DEF Dedup, Existing
<1>4. ASSUME NEW s \in Slots, Enqueue(s) PROVE RowsOK'
  <2>1. slot[s].at \in Kbs
    BY <1>4 DEF Enqueue, SlotsOK, SlotOK, At
  <2>2. CASE UNCHANGED <<doc, used, told>>
    BY <1>0, <2>2
  <2>3. CASE (\A d \in Docs : ~Holds(s, d)) /\ Insert(s)
    <3>1. PICK d \in Docs \ used :
            /\ used' = used \cup {d}
            /\ doc' = [doc EXCEPT ![d] = [kb |-> slot[s].at, source |-> slot[s].source,
                                         size |-> slot[s].size, blind |-> slot[s].blind]]
            /\ AnswerWith(s, d)
      BY <2>3 DEF Insert
    <3>2. told'.uploads = told.uploads \cup {[doc |-> d, kb |-> slot[s].at,
                            source |-> slot[s].source, size |-> slot[s].size]}
      BY <3>1 DEF AnswerWith, TypeOK
    <3>3. /\ doc'[d].kb = slot[s].at /\ doc'[d].source = slot[s].source
          /\ doc'[d].size = slot[s].size
          /\ \A e \in Docs \ {d} : doc'[e] = doc[e]
      BY <3>1 DEF TypeOK
    <3>4. \A a \in told.uploads : a.doc \in Docs \ {d}
      BY <3>1 DEF RowsOK, TypeOK, Answer
    <3> QED
      BY <2>1, <2>3, <3>1, <3>2, <3>3, <3>4 DEF RowsOK, Holds
  <2> QED
    BY <1>4, <2>2, <2>3 DEF Enqueue
<1>5. ASSUME NEW s \in Slots, RemoveRow(s) PROVE RowsOK'
  BY <1>1, <1>5 DEF RemoveRow, Forget, TypeOK
<1>6. ASSUME NEW s \in Slots, DeleteRow(s) PROVE RowsOK'
  <2>1. CASE kb[slot[s].at] = None
    BY <1>0, <1>6, <2>1 DEF DeleteRow
  <2>2. CASE kb[slot[s].at] # None
    <3>1. /\ UNCHANGED used
          /\ doc' = [d \in Docs |-> IF doc[d].kb = slot[s].at THEN NoRow ELSE doc[d]]
          /\ told'.uploads = Forget(DocsOf(slot[s].at))
      BY <1>6, <2>2 DEF DeleteRow, TypeOK
    <3>2. told'.uploads \subseteq told.uploads
      BY <3>1 DEF Forget
    <3> QED
      BY <1>1, <3>1, <3>2
  <2> QED
    BY <2>1, <2>2
<1>7. ASSUME NEW s \in Slots, OrgGrant(s) \/ Grant(s) PROVE RowsOK'
  BY <1>0, <1>7 DEF OrgGrant, Grant, TypeOK
<1>8. ASSUME NEW s \in Slots,
             \/ \E u \in Users, g \in Orgs : CreateOrg(s, u, g) \/ AskKb(s, u, g)
             \/ \E u \in Users, k \in Kbs : Delete(s, u, k)
             \/ \E u \in Users, k \in Kbs, x \in Sources, n \in Sizes : Upload(s, u, k, x, n)
             \/ InsertKb(s) \/ GetForUpload(s) \/ CheckQuota(s) \/ GetForDelete(s)
             \/ ListDocs(s) \/ RemoveChunks(s) \/ Recompute(s) \/ Fails(s)
      PROVE  RowsOK'
  BY <1>0, <1>8 DEF CreateOrg, AskKb, Delete, Upload, InsertKb, GetForUpload, CheckQuota,
     GetForDelete, ListDocs, RemoveChunks, Recompute, Fails, rows
<1>9. ASSUME (\E d \in Docs : Claim(d)) \/ (\E x \in work : Import(x)) \/ UNCHANGED vars
      PROVE  RowsOK'
  BY <1>0, <1>9 DEF Claim, Import, vars
<1> QED
  BY <1>3, <1>4, <1>5, <1>6, <1>7, <1>8, <1>9 DEF Next

\* A deletion that is not at work itself stays right if no use of its kb begins.
LEMMA DeletionWaits ==
  ASSUME TypeOK, NEW s \in Slots, NEW k \in Kbs, DeletionOK(s, k), slot'[s] = slot[s],
         \A r \in Slots : Uploading(r, k)' => Uploading(r, k),
         \A x \in work' : x \in work \/ x[2] # k,
         \A x \in chunks' : x \in chunks \/ x[2] # k,
         used \subseteq used',
         \A d \in Docs : doc'[d].kb \in {doc[d].kb, None} \/ (d \notin used /\ doc'[d].kb # k)
  PROVE  DeletionOK(s, k)'
<1>1. slot[s].todo \subseteq Docs
  BY DEF TypeOK, Slot
<1>2. slot[s].one \in used => slot[s].one \in Docs
  BY DEF TypeOK
<1>3. \A d \in Docs : doc'[d].kb = k => doc[d].kb = k
  BY KbAssumption DEF DeletionOK
<1>4. \A d \in used : doc[d].kb \in {k, None} => doc'[d].kb \in {k, None}
  BY DEF TypeOK
<1> QED
  BY <1>1, <1>2, <1>3, <1>4 DEF DeletionOK, DocsOf, At

\* If one request moves and uses no other kb than before, the deletions of others
\* wait if the rows do not get in their way.
LEMMA OthersWait ==
  ASSUME TypeOK, Quiet, DeletionsOK, NEW a \in Slots, \A t \in Slots \ {a} : slot'[t] = slot[t],
         \A k \in Kbs : Uploading(a, k)' => Uploading(a, k) \/ \A s \in Slots : ~Deleting(s, k),
         UNCHANGED work, \A x \in chunks' : x \in chunks,
         used \subseteq used',
         \A d \in Docs : doc'[d].kb \in {doc[d].kb, None}
                        \/ (d \notin used /\ Uploading(a, doc'[d].kb))
  PROVE  \A s \in Slots \ {a}, k \in Kbs : Deleting(s, k)' => DeletionOK(s, k)'
<1> SUFFICES ASSUME NEW s \in Slots \ {a}, NEW k \in Kbs, Deleting(s, k)' PROVE DeletionOK(s, k)'
  OBVIOUS
<1>1. Deleting(s, k) /\ DeletionOK(s, k)
  BY DEF Deleting, DeletionsOK
<1>2. \A r \in Slots : Uploading(r, k)' => Uploading(r, k)
  BY <1>1 DEF Uploading
<1>3. ~Uploading(a, k)
  BY <1>1 DEF DeletionOK
<1> QED
  BY <1>1, <1>2, <1>3, DeletionWaits

\* A request that does not delete, before and after its step.
LEMMA NoDeletionHere ==
  ASSUME TypeOK, Quiet, DeletionsOK, NEW a \in Slots, \A t \in Slots \ {a} : slot'[t] = slot[t],
         \A k \in Kbs : ~Deleting(a, k)',
         \A k \in Kbs : Uploading(a, k)' => Uploading(a, k) \/ \A s \in Slots : ~Deleting(s, k),
         UNCHANGED <<work, chunks>>, used \subseteq used',
         \A d \in Docs : doc'[d].kb \in {doc[d].kb, None}
                        \/ (d \notin used /\ Uploading(a, doc'[d].kb))
  PROVE  DeletionsOK'
<1>1. \A s \in Slots \ {a}, k \in Kbs : Deleting(s, k)' => DeletionOK(s, k)'
  BY OthersWait
<1> QED
  BY <1>1 DEF DeletionsOK

LEMMA DeletionsStep ==
  ASSUME TypeOK, TypeOK', SlotsOK, RowsOK, DeletionsOK, Quiet, [Next]_vars
  PROVE  DeletionsOK'
<1> USE KbAssumption
<1>1. ASSUME NEW a \in Slots,
             \/ \E u \in Users, g \in Orgs : CreateOrg(a, u, g) \/ AskKb(a, u, g)
             \/ \E u \in Users, k \in Kbs, x \in Sources, n \in Sizes : Upload(a, u, k, x, n)
             \/ InsertKb(a) \/ OrgGrant(a) \/ Grant(a) \/ GetForUpload(a) \/ CheckQuota(a)
             \/ Dedup(a) \/ Existing(a) \/ Fails(a)
      PROVE  DeletionsOK'
  <2>1. UNCHANGED <<doc, used, work, chunks>>
    BY <1>1 DEF CreateOrg, AskKb, Upload, InsertKb, OrgGrant, Grant, GetForUpload, CheckQuota,
       Dedup, Existing, Fails, rows
  <2>2. PICK r : Put(a, r)
    BY <1>1 DEF CreateOrg, AskKb, Upload, InsertKb, OrgGrant, Grant, GetForUpload, CheckQuota,
       Dedup, Existing, Fails, Goto, End, AnswerWith
  <2>3. \A t \in Slots \ {a} : slot'[t] = slot[t]
    BY <2>2 DEF Put, TypeOK
  <2>4. \/ slot'[a].pc \notin {"get_delete", "list", "docs", "row", "kb_row"}
           /\ slot'[a].pc \notin {"get", "quota", "dedup", "enqueue", "existing"}
        \/ /\ slot'[a].pc \in {"quota", "dedup", "enqueue", "existing"} /\ slot'[a].at = slot[a].at
           /\ slot[a].pc \in {"get", "quota", "dedup", "enqueue", "existing"}
        \/ slot'[a].pc = "get" /\ NoDelete(slot'[a].at)
    <3>0. CASE InsertKb(a)
      <4>1. PICK k \in Kbs : InsertKb(a)!2!(k)
        BY <3>0 DEF InsertKb
      <4>2. slot[a] \in Slot /\ slot' = [slot EXCEPT ![a] = [slot[a] EXCEPT !.pc = "grant", !.at = k]]
        BY <4>1 DEF Put, TypeOK
      <4> QED
        BY <4>2 DEF Slot, TypeOK
    <3>1. CASE \E u \in Users, g \in Orgs : CreateOrg(a, u, g) \/ AskKb(a, u, g)
      <4>1. \E u \in Users, g \in Orgs :
              \/ slot'[a] = [Idle EXCEPT !.pc = "org_grant", !.user = u, !.at = g]
              \/ slot'[a] = [Idle EXCEPT !.pc = "insert", !.user = u, !.at = g]
        BY <3>1, PutAny DEF CreateOrg, AskKb
      <4> QED
        BY <4>1 DEF Idle
    <3>2. CASE \E u \in Users, k \in Kbs, x \in Sources, n \in Sizes : Upload(a, u, k, x, n)
      BY <3>2 DEF Upload, Put, Idle, TypeOK
    <3>3. CASE OrgGrant(a) \/ Grant(a) \/ GetForUpload(a) \/ Dedup(a) \/ Existing(a) \/ Fails(a)
      BY <3>3, EndOne, GotoOne DEF OrgGrant, Grant, GetForUpload, Dedup, Existing, Fails, AnswerWith, At
    <3>4. CASE CheckQuota(a)
      <4>1. CASE End(a) \/ Goto(a, "dedup")
        BY <3>4, <4>1, EndOne, GotoOne DEF CheckQuota, At
      <4>2. CASE Put(a, [slot[a] EXCEPT !.pc = "dedup", !.blind = TRUE])
        BY <3>4, <4>2 DEF CheckQuota, Put, At, TypeOK, Slot
      <4> QED
        BY <3>4, <4>1, <4>2 DEF CheckQuota
    <3> QED
      BY <1>1, <3>0, <3>1, <3>2, <3>3, <3>4
  <2> QED
    BY <2>1, <2>3, <2>4, NoDeletionHere DEF Deleting, Uploading, NoDelete
<1>2. ASSUME NEW a \in Slots, Enqueue(a) PROVE DeletionsOK'
  <2>1. UNCHANGED <<work, chunks>> /\ slot[a].at \in Kbs /\ Uploading(a, slot[a].at)
    BY <1>2 DEF Enqueue, SlotsOK, SlotOK, At, Uploading
  <2>2. /\ \A t \in Slots \ {a} : slot'[t] = slot[t]
        /\ slot'[a].pc \in {"idle", "existing"} /\ (slot'[a].pc = "existing" => slot'[a].at = slot[a].at)
    BY <1>2, EndOne, GotoOne DEF Enqueue, Insert, AnswerWith
  <2>3. /\ used \subseteq used'
        /\ \A d \in Docs : doc'[d].kb = doc[d].kb \/ (d \notin used /\ doc'[d].kb = slot[a].at)
    BY <1>2 DEF Enqueue, Insert, TypeOK
  <2> QED
    BY <2>1, <2>2, <2>3, NoDeletionHere DEF Deleting, Uploading
<1>3. ASSUME NEW a \in Slots, DeleteRow(a) PROVE DeletionsOK'
  <2>1. UNCHANGED <<work, chunks, used>>
    BY <1>3 DEF DeleteRow
  <2>2. (\A t \in Slots \ {a} : slot'[t] = slot[t]) /\ slot'[a].pc = "idle"
    BY <1>3, EndOne DEF DeleteRow
  <2>3. \A d \in Docs : doc'[d].kb \in {doc[d].kb, None}
    BY <1>3 DEF DeleteRow, NoRow
  <2> QED
    BY <2>1, <2>2, <2>3, NoDeletionHere DEF Deleting, Uploading
<1>4. ASSUME NEW a \in Slots,
             \/ \E u \in Users, k \in Kbs : Delete(a, u, k)
             \/ GetForDelete(a) \/ ListDocs(a) \/ RemoveChunks(a) \/ RemoveRow(a) \/ Recompute(a)
      PROVE  DeletionsOK'
  <2>1. UNCHANGED <<work, used>> /\ chunks' \subseteq chunks
    BY <1>4 DEF Delete, GetForDelete, ListDocs, RemoveChunks, RemoveRow, Recompute, rows
  <2>2. PICK r : Put(a, r)
    BY <1>4 DEF Delete, GetForDelete, ListDocs, RemoveChunks, RemoveRow, Recompute, Goto, End
  <2>3. \A t \in Slots \ {a} : slot'[t] = slot[t]
    BY <2>2 DEF Put, TypeOK
  <2>4. \A d \in Docs : doc'[d].kb \in {doc[d].kb, None}
    <3>1. UNCHANGED doc \/ doc' = [doc EXCEPT ![slot[a].one] = NoRow]
      BY <1>4 DEF Delete, GetForDelete, ListDocs, RemoveChunks, RemoveRow, Recompute, rows
    <3> QED
      BY <3>1 DEF NoRow, TypeOK
  <2>5. slot'[a].pc \in {"idle", "get_delete", "list", "docs", "row", "kb_row"}
    <3>1. CASE \E u \in Users, k \in Kbs : Delete(a, u, k)
      BY <3>1 DEF Delete, Put, Idle, TypeOK
    <3>2. CASE GetForDelete(a) \/ Recompute(a)
      BY <3>2, EndOne, GotoOne DEF GetForDelete, Recompute
    <3>3. CASE ListDocs(a) \/ RemoveChunks(a) \/ RemoveRow(a)
      <4>1. slot[a] \in Slot
        BY DEF TypeOK
      <4>2. CASE ListDocs(a) \/ RemoveRow(a)
        <5>1. \/ slot'[a] = [slot[a] EXCEPT !.pc = "docs", !.todo = DocsOf(slot[a].at)]
              \/ slot'[a] = [slot[a] EXCEPT !.pc = "docs", !.one = None]
          BY <4>2, PutAny DEF ListDocs, RemoveRow
        <5> QED
          BY <4>1, <5>1 DEF Slot
      <4>3. CASE RemoveChunks(a)
        <5>1. PICK d \in slot[a].todo : RemoveChunks(a)!2!(d)
          BY <4>3 DEF RemoveChunks
        <5> QED
          BY <4>1, <5>1 DEF Put, TypeOK, Slot
      <4> QED
        BY <3>3, <4>2, <4>3
    <3> QED
      BY <1>4, <3>1, <3>2, <3>3
  <2>6. \A s \in Slots \ {a}, k \in Kbs : Deleting(s, k)' => DeletionOK(s, k)'
    BY <2>1, <2>3, <2>4, <2>5, OthersWait DEF Uploading
  <2>7. ASSUME NEW k \in Kbs, Deleting(a, k)' PROVE DeletionOK(a, k)'
    <3>0. slot[a] \in Slot
      BY DEF TypeOK
    <3>1. CASE \E u \in Users, l \in Kbs : Delete(a, u, l)
      <4>1. slot'[a].pc = "get_delete" /\ slot'[a].at = k /\ slot'[a].todo = {} /\ NoUse(k)
        BY <2>7, <3>1 DEF Delete, Put, Idle, TypeOK, Deleting
      <4>2. \A t \in Slots : ~Uploading(t, k)'
        BY <2>3, <4>1 DEF NoUse, Uploading
      <4> QED
        BY <2>1, <4>1, <4>2 DEF NoUse, DeletionOK, At
    <3>2. CASE GetForDelete(a) \/ ListDocs(a) \/ RemoveChunks(a) \/ RemoveRow(a) \/ Recompute(a)
      <4>1. Deleting(a, k) /\ slot'[a].pc # "idle"
        <5>1. CASE GetForDelete(a) \/ Recompute(a)
          BY <2>7, <5>1, EndOne, GotoOne DEF Deleting, GetForDelete, Recompute, At
        <5>2. CASE ListDocs(a) \/ RemoveChunks(a) \/ RemoveRow(a)
          <6>1. slot'[a].at = slot[a].at
            <7>1. CASE ListDocs(a) \/ RemoveRow(a)
              <8>1. \/ slot'[a] = [slot[a] EXCEPT !.pc = "docs", !.todo = DocsOf(slot[a].at)]
                    \/ slot'[a] = [slot[a] EXCEPT !.pc = "docs", !.one = None]
                BY <7>1, PutAny DEF ListDocs, RemoveRow
              <8> QED
                BY <3>0, <8>1 DEF Slot
            <7>2. CASE RemoveChunks(a)
              <8>1. PICK d \in slot[a].todo : RemoveChunks(a)!2!(d)
                BY <7>2 DEF RemoveChunks
              <8> QED
                BY <3>0, <8>1 DEF Put, TypeOK, Slot
            <7> QED
              BY <5>2, <7>1, <7>2
          <6>2. slot[a].pc \in {"list", "docs", "row"}
            BY <5>2 DEF ListDocs, RemoveChunks, RemoveRow, At
          <6> QED
            BY <2>7, <6>1, <6>2 DEF Deleting
        <5> QED
          BY <3>2, <5>1, <5>2
      <4>2. DeletionOK(a, k) /\ slot[a].at = k
        BY <4>1 DEF DeletionsOK, Deleting
      <4>3. \A t \in Slots : ~Uploading(t, k)'
        BY <2>3, <2>5, <4>2 DEF DeletionOK, Uploading
      <4>4. \A x \in work' : x[2] # k
        BY <2>1, <4>2 DEF DeletionOK
      <4>5. CASE GetForDelete(a)
        <5>1. slot'[a].pc = "list" /\ slot'[a].todo = slot[a].todo /\ UNCHANGED doc
          BY <4>1, <4>5, EndOne, GotoOne DEF GetForDelete, rows
        <5> QED
          BY <2>1, <4>2, <4>3, <4>4, <5>1 DEF DeletionOK, At
      <4>6. CASE ListDocs(a)
        <5>1. slot'[a].pc = "docs" /\ slot'[a].todo = DocsOf(k) /\ UNCHANGED doc
          BY <3>0, <4>2, <4>6 DEF ListDocs, Put, TypeOK, rows, Slot
        <5>2. \A d \in DocsOf(k) : d \in used /\ doc[d].kb = k
          BY DEF DocsOf, RowsOK
        <5> QED
          BY <2>1, <4>3, <4>4, <5>1, <5>2 DEF DeletionOK, At, DocsOf
      <4>7. CASE RemoveChunks(a)
        <5>1. PICK d \in slot[a].todo :
                /\ chunks' = chunks \ {<<d, slot[a].at>>}
                /\ Put(a, [slot[a] EXCEPT !.pc = "row", !.one = d, !.todo = @ \ {d}])
          BY <4>7 DEF RemoveChunks
        <5>2. slot'[a].pc = "row" /\ slot'[a].one = d /\ slot'[a].todo = slot[a].todo \ {d}
          BY <3>0, <5>1 DEF Put, TypeOK, Slot
        <5>3. UNCHANGED doc /\ At(a, "docs")
          BY <4>7 DEF RemoveChunks
        <5> QED
          BY <2>1, <4>2, <4>3, <4>4, <5>1, <5>2, <5>3 DEF DeletionOK, At, DocsOf
      <4>8. CASE RemoveRow(a)
        <5>1. slot'[a].pc = "docs" /\ slot'[a].todo = slot[a].todo
          BY <3>0, <4>8 DEF RemoveRow, Put, TypeOK, Slot
        <5>2. doc' = [doc EXCEPT ![slot[a].one] = NoRow] /\ At(a, "row")
          BY <4>8 DEF RemoveRow
        <5>3. slot[a].one \in Docs /\ slot[a].todo \subseteq Docs
          BY <3>0, <5>2 DEF SlotsOK, SlotOK, Slot
        <5>4. DocsOf(k)' \subseteq slot[a].todo
          BY <4>2, <5>2, <5>3 DEF DeletionOK, DocsOf, NoRow, TypeOK
        <5>5. \A d \in slot[a].todo : d \in used' /\ doc'[d].kb \in {k, None}
          BY <2>1, <2>4, <4>2, <5>3 DEF DeletionOK
        <5> QED
          BY <4>3, <4>4, <5>1, <5>4, <5>5 DEF DeletionOK, At
      <4>9. CASE Recompute(a)
        <5>1. slot'[a].pc = "kb_row" /\ slot'[a].todo = {} /\ UNCHANGED doc /\ At(a, "docs")
              /\ slot[a].todo = {}
          BY <4>9, GotoOne DEF Recompute, rows
        <5>2. DocsOf(k)' = {}
          BY <4>2, <5>1 DEF DeletionOK, DocsOf
        <5> QED
          BY <4>3, <4>4, <5>1, <5>2 DEF DeletionOK, At
      <4> QED
        BY <3>2, <4>5, <4>6, <4>7, <4>8, <4>9
    <3> QED
      BY <1>4, <3>1, <3>2
  <2> QED
    BY <2>6, <2>7 DEF DeletionsOK
<1>5. ASSUME (\E d \in Docs : Claim(d)) \/ (\E x \in work : Import(x)) PROVE DeletionsOK'
  <2>1. UNCHANGED <<doc, used, slot>>
    BY <1>5 DEF Claim, Import
  <2> SUFFICES ASSUME NEW s \in Slots, NEW k \in Kbs, Deleting(s, k)' PROVE DeletionOK(s, k)'
    BY DEF DeletionsOK
  <2>2. Deleting(s, k) /\ DeletionOK(s, k)
    BY <2>1 DEF Deleting, DeletionsOK
  <2>3. \A x \in work' : x \in work \/ x[2] # k
    <3>1. ASSUME NEW d \in Docs, Claim(d) PROVE \A x \in work' : x \in work \/ x[2] # k
      <4>1. work' = work \cup {<<d, doc[d].kb>>} /\ NoDelete(doc[d].kb)
        BY <3>1 DEF Claim
      <4>2. doc[d].kb # k
        BY <2>2, <4>1 DEF NoDelete
      <4> QED
        BY <4>1, <4>2
    <3> QED
      BY <1>5, <3>1 DEF Import
  <2>4. \A x \in chunks' : x \in chunks \/ x[2] # k
    BY <1>5, <2>2 DEF Claim, Import, DeletionOK
  <2> QED
    BY <2>1, <2>2, <2>3, <2>4, DeletionWaits DEF Uploading
<1>6. CASE UNCHANGED vars
  BY <1>6 DEF vars, DeletionsOK, DeletionOK, Deleting, Uploading, DocsOf, At
<1> QED
  BY <1>1, <1>2, <1>3, <1>4, <1>5, <1>6 DEF Next

\* Chunks are looked at by few steps: imports, and deletions.
LEMMA ChunksStep ==
  ASSUME TypeOK, SlotsOK, RowsOK, DeletionsOK, ChunksHaveRow, Quiet, [Next]_vars
  PROVE  ChunksHaveRow'
<1> USE KbAssumption
<1>0. \A x \in chunks \cup work : x = <<x[1], x[2]>> /\ x[1] \in Docs /\ x[2] \in Kbs
  BY DEF TypeOK
<1>1. CASE UNCHANGED doc /\ work' \subseteq work /\ chunks' \subseteq chunks \cup work
  BY <1>1 DEF ChunksHaveRow
<1>2. ASSUME NEW d \in Docs, Claim(d) PROVE ChunksHaveRow'
  BY <1>2 DEF Claim, ChunksHaveRow
<1>3. ASSUME NEW s \in Slots, Enqueue(s) PROVE ChunksHaveRow'
  <2>1. UNCHANGED <<chunks, work>>
    BY <1>3 DEF Enqueue
  <2>2. \A d \in used : doc'[d] = doc[d]
    BY <1>3 DEF Enqueue, Insert, TypeOK
  <2>3. \A x \in chunks \cup work : x[1] \in used
    BY <1>0 DEF ChunksHaveRow, RowsOK
  <2> QED
    BY <2>1, <2>2, <2>3 DEF ChunksHaveRow
<1>4. ASSUME NEW s \in Slots, RemoveRow(s) PROVE ChunksHaveRow'
  <2>1. UNCHANGED <<chunks, work>> /\ doc' = [doc EXCEPT ![slot[s].one] = NoRow]
    BY <1>4 DEF RemoveRow
  <2>2. slot[s].at \in Kbs /\ Deleting(s, slot[s].at) /\ At(s, "row")
    BY <1>4 DEF RemoveRow, SlotsOK, SlotOK, At, Deleting
  <2>3. /\ <<slot[s].one, slot[s].at>> \notin chunks /\ \A x \in work : x[2] # slot[s].at
        /\ doc[slot[s].one].kb \in {slot[s].at, None}
    BY <2>2 DEF DeletionsOK, DeletionOK
  <2>4. \A x \in chunks \cup work : x[1] # slot[s].one
    BY <1>0, <2>3 DEF ChunksHaveRow
  <2>5. \A x \in chunks \cup work : doc'[x[1]] = doc[x[1]]
    BY <1>0, <2>1, <2>4 DEF TypeOK
  <2> QED
    BY <2>1, <2>5 DEF ChunksHaveRow
<1>5. ASSUME NEW s \in Slots, DeleteRow(s) PROVE ChunksHaveRow'
  <2>1. UNCHANGED <<chunks, work>>
    BY <1>5 DEF DeleteRow
  <2>2. slot[s].at \in Kbs /\ Deleting(s, slot[s].at) /\ At(s, "kb_row")
    BY <1>5 DEF DeleteRow, SlotsOK, SlotOK, At, Deleting
  <2>3. DocsOf(slot[s].at) = {}
    BY <2>2 DEF DeletionsOK, DeletionOK
  <2>4. \/ UNCHANGED doc
        \/ doc' = [d \in Docs |-> IF doc[d].kb = slot[s].at THEN NoRow ELSE doc[d]]
    BY <1>5 DEF DeleteRow
  <2>5. \A d \in Docs : doc'[d] = doc[d]
    BY <2>3, <2>4 DEF DocsOf
  <2> QED
    BY <1>0, <2>1, <2>5 DEF ChunksHaveRow
<1>6. ASSUME NEW s \in Slots,
             \/ \E u \in Users, g \in Orgs : CreateOrg(s, u, g) \/ AskKb(s, u, g)
             \/ \E u \in Users, k \in Kbs : Delete(s, u, k)
             \/ \E u \in Users, k \in Kbs, x \in Sources, n \in Sizes : Upload(s, u, k, x, n)
             \/ OrgGrant(s) \/ InsertKb(s) \/ Grant(s) \/ GetForUpload(s) \/ CheckQuota(s)
             \/ Dedup(s) \/ Existing(s) \/ GetForDelete(s) \/ ListDocs(s)
             \/ RemoveChunks(s) \/ Recompute(s) \/ Fails(s)
      PROVE  ChunksHaveRow'
  BY <1>1, <1>6 DEF CreateOrg, AskKb, Delete, Upload, OrgGrant, InsertKb, Grant, GetForUpload,
     CheckQuota, Dedup, Existing, GetForDelete, ListDocs, RemoveChunks, Recompute, Fails, rows
<1>7. ASSUME (\E x \in work : Import(x)) \/ UNCHANGED vars PROVE ChunksHaveRow'
  BY <1>1, <1>7 DEF Import, vars
<1> QED
  BY <1>2, <1>3, <1>4, <1>5, <1>6, <1>7 DEF Next

LEMMA InitInv == Init => IInv
<1> SUFFICES ASSUME Init PROVE IInv
  OBVIOUS
<1>1. TypeOK
  BY KbAssumption DEF Init, TypeOK, Idle, Slot, NoRow
<1>2. SlotsOK /\ DeletionsOK
  BY DEF Init, SlotsOK, SlotOK, DeletionsOK, Deleting, Idle, At
<1>3. DrawnOK /\ ReportedHasAdmin /\ ChunksHaveRow
  BY DEF Init, DrawnOK, ReportedHasAdmin, ChunksHaveRow
<1>4. RowsOK
  BY DEF Init, RowsOK, NoRow
<1> QED
  BY <1>1, <1>2, <1>3, <1>4 DEF IInv

LEMMA StepInv == IInv /\ [Next]_vars => IInv'
<1> SUFFICES ASSUME IInv, [Next]_vars PROVE IInv'
  OBVIOUS
<1> USE DEF IInv
<1>1. TypeOK' /\ SlotsOK'
  BY TypeStep
<1>2. DrawnOK' /\ ReportedHasAdmin' /\ RowsOK'
  BY <1>1, AdminStep, RowsStep
<1>3. DeletionsOK'
  BY <1>1, DeletionsStep DEF DeletionsOK
<1>4. ChunksHaveRow'
  BY ChunksStep DEF ChunksHaveRow
<1> QED
  BY <1>1, <1>2, <1>3, <1>4

\* The invariant holds at all times.
THEOREM KbsCorrect == Spec => []IInv
BY InitInv, StepInv, PTL DEF Spec

\* The types of the rows, and the foreign key of document, hold at all times.
THEOREM TypeCorrect == Spec => []TypeOK
BY KbsCorrect, PTL DEF IInv

\* Whoever was told that their organisation or kb exists is its admin, whatever
\* requests fail and whoever deletes other kbs.
THEOREM AdminsKept == Spec => []ReportedHasAdmin
BY KbsCorrect, PTL DEF IInv

\* Any number of overlapping uploads of one content share one document.
THEOREM UploadsShared == Spec => []OneDocPerContent
<1>1. IInv => OneDocPerContent
  <2> SUFFICES ASSUME IInv, NEW a \in told.uploads, doc[a.doc].kb # None, NEW d \in Docs
               PROVE  (doc[d].kb = a.kb /\ doc[d].source = a.source /\ doc[d].size = a.size)
                        <=> d = a.doc
    BY DEF OneDocPerContent
  <2>1. a.doc \in Docs
    BY DEF IInv, TypeOK, Answer
  <2> QED
    BY <2>1 DEF IInv, RowsOK
<1> QED
  BY <1>1, KbsCorrect, PTL

\* In kbs that are left alone while they are deleted no chunks lose their row,
\* however many deletions of one kb overlap and wherever they fail.
THEOREM ChunksKept == Spec => []ChunksHaveRow
BY KbsCorrect, PTL DEF IInv
------------------------------------------------------------------------------
\* The id of a kb that is gone is not drawn again.
GoneOK == \A k \in told.deleted : kb[k] = None /\ drawn[k] # None

LEMMA GoneStep ==
  ASSUME IInv, GoneOK, [Next]_vars
  PROVE  GoneOK'
<1>1. /\ told \in Told /\ kb \in [Kbs -> Orgs \cup {None}] /\ drawn \in [Kbs -> Users \cup {None}]
      /\ told.deleted \subseteq Kbs
  BY DEF IInv, TypeOK, Told
<1>2. ASSUME told'.deleted = told.deleted, UNCHANGED <<kb, drawn>> PROVE GoneOK'
  BY <1>2 DEF GoneOK
<1>3. ASSUME NEW s \in Slots, InsertKb(s) PROVE GoneOK'
  <2>1. PICK k \in Kbs :
          /\ drawn[k] = None /\ drawn' = [drawn EXCEPT ![k] = slot[s].user]
          /\ kb' = [kb EXCEPT ![k] = slot[s].at]
    BY <1>3 DEF InsertKb
  <2>2. UNCHANGED told /\ k \notin told.deleted
    BY <1>3, <2>1 DEF InsertKb, GoneOK
  <2> QED
    BY <1>1, <2>1, <2>2 DEF GoneOK
<1>4. ASSUME NEW s \in Slots, DeleteRow(s) PROVE GoneOK'
  <2>1. CASE kb[slot[s].at] = None
    BY <1>2, <1>4, <2>1 DEF DeleteRow
  <2>2. CASE kb[slot[s].at] # None
    <3>1. PICK k \in Kbs : k = slot[s].at
      BY <1>4 DEF DeleteRow, IInv, SlotsOK, SlotOK, At
    <3>2. kb' = [kb EXCEPT ![k] = None] /\ UNCHANGED drawn /\ drawn[k] # None
      BY <1>4, <2>2, <3>1 DEF DeleteRow, IInv, DrawnOK
    <3>3. told'.deleted = told.deleted \cup {k}
      BY <1>1, <1>4, <2>2, <3>1 DEF DeleteRow, Told
    <3> QED
      BY <1>1, <3>2, <3>3 DEF GoneOK
  <2> QED
    BY <2>1, <2>2
<1>5. ASSUME NEW s \in Slots,
             OrgGrant(s) \/ Grant(s) \/ Dedup(s) \/ Enqueue(s) \/ Existing(s) \/ RemoveRow(s)
      PROVE  GoneOK'
  <2>1. told'.deleted = told.deleted
    BY <1>1, <1>5 DEF Told, OrgGrant, Grant, Dedup, Enqueue, Existing, RemoveRow, Insert, AnswerWith
  <2> QED
    BY <1>2, <1>5, <2>1 DEF OrgGrant, Grant, Dedup, Enqueue, Existing, RemoveRow, rows
<1>6. ASSUME NEW s \in Slots,
             \/ \E u \in Users :
                  \/ \E g \in Orgs : CreateOrg(s, u, g) \/ AskKb(s, u, g)
                  \/ \E k \in Kbs : Delete(s, u, k) \/ \E x \in Sources, n \in Sizes : Upload(s, u, k, x, n)
             \/ GetForUpload(s) \/ CheckQuota(s) \/ GetForDelete(s) \/ ListDocs(s)
             \/ RemoveChunks(s) \/ Recompute(s) \/ Fails(s)
      PROVE  GoneOK'
  BY <1>2, <1>6
     DEF CreateOrg, AskKb, Delete, Upload, GetForUpload, CheckQuota, GetForDelete, ListDocs,
         RemoveChunks, Recompute, Fails, rows
<1>7. ASSUME (\E d \in Docs : Claim(d)) \/ (\E x \in work : Import(x)) \/ UNCHANGED vars
      PROVE  GoneOK'
  BY <1>2, <1>7 DEF Claim, Import, vars
<1> QED
  BY <1>3, <1>4, <1>5, <1>6, <1>7 DEF Next

\* A kb that was deleted while nobody used it is gone, with all that was in it, from
\* Postgres and from the rag store.
THEOREM DeletedEmpty == Spec => []KbEmptied
<1>1. Init => GoneOK
  BY DEF Init, GoneOK
<1>2. IInv /\ GoneOK /\ [Next]_vars => GoneOK'
  BY GoneStep
<1>3. IInv /\ GoneOK => KbEmptied
  <2> SUFFICES ASSUME IInv, GoneOK, Quiet, NEW k \in told.deleted
               PROVE  DocsOf(k) = {} /\ \A x \in chunks \cup work : x[2] # k
    BY DEF KbEmptied
  <2>1. kb[k] = None /\ k \in Kbs /\ k # None
    BY KbAssumption DEF GoneOK, IInv, TypeOK
  <2>2. DocsOf(k) = {}
    BY <2>1 DEF IInv, TypeOK, DocsOf
  <2>3. ASSUME NEW x \in chunks \cup work PROVE x[2] # k
    <3>1. x[1] \in Docs /\ doc[x[1]].kb = x[2]
      BY DEF IInv, TypeOK, ChunksHaveRow
    <3> QED
      BY <2>1, <2>2, <3>1 DEF DocsOf
  <2> QED
    BY <2>2, <2>3
<1> QED
  BY <1>1, <1>2, <1>3, KbsCorrect, PTL DEF Spec
------------------------------------------------------------------------------
(* The quota.                                                              *)

\* The requests whose upload was let in by a sum and that may still add a row.
Cleared(k) ==
  {s \in Slots : slot[s].at = k /\ slot[s].pc \in {"dedup", "enqueue"} /\ ~slot[s].blind}

\* The bytes let in by a sum, as rows and as requests.
QuotaInv ==
  \A k \in Kbs : Total(Counted(k), doc) + Total(Cleared(k), slot)
                   <= Quota + (Cardinality(Slots) - 1) * Most

\* A sum is at most the largest content for each of its rows.
LEMMA TotalBound ==
  ASSUME NEW S, IsFiniteSet(S), NEW row, \A x \in S : row[x].size \in 0..Most
  PROVE  /\ IsFiniteSet(Bytes(S, row)) /\ Total(S, row) \in Nat
         /\ Total(S, row) <= Cardinality(S) * Most
<1>1. Most \in Nat
  BY KbAssumption
<1>2. Bytes(S, row) \subseteq S \X (1..Most)
  BY <1>1 DEF Bytes
<1>3. IsFiniteSet(1..Most) /\ Cardinality(1..Most) = Most
  BY <1>1, FS_Interval
<1>4. IsFiniteSet(S \X (1..Most)) /\ Cardinality(S \X (1..Most)) = Cardinality(S) * Most
  BY <1>3, FS_Product
<1> QED
  BY <1>2, <1>4, FS_Subset, FS_CardinalityType DEF Total

\* A sum over fewer rows is no larger.
LEMMA TotalShrinks ==
  ASSUME NEW S, IsFiniteSet(S), NEW row, \A x \in S : row[x].size \in 0..Most,
         NEW T \in SUBSET S, NEW new, \A x \in T : new[x].size = row[x].size
  PROVE  Total(T, new) <= Total(S, row)
<1>1. Bytes(T, new) \subseteq Bytes(S, row)
  BY DEF Bytes
<1> QED
  BY <1>1, TotalBound, FS_Subset DEF Total

\* The bytes of one row.
LEMMA RowBytes ==
  ASSUME NEW z, NEW n \in Nat
  PROVE  IsFiniteSet({z} \X (1..n)) /\ Cardinality({z} \X (1..n)) = n
<1>1. IsFiniteSet({z}) /\ Cardinality({z}) = 1
  BY FS_Singleton
<1>2. IsFiniteSet(1..n) /\ Cardinality(1..n) = n
  BY FS_Interval
<1>3. IsFiniteSet({z} \X (1..n)) /\ Cardinality({z} \X (1..n)) = Cardinality({z}) * Cardinality(1..n)
  BY <1>1, <1>2, FS_Product
<1> QED
  BY <1>1, <1>2, <1>3

\* One more row adds its size to a sum.
LEMMA TotalGrows ==
  ASSUME NEW S, IsFiniteSet(S), NEW row, \A x \in S : row[x].size \in 0..Most,
         NEW z, z \notin S, NEW new, NEW n \in Nat, new[z].size = n,
         \A x \in S : new[x].size = row[x].size
  PROVE  Total(S \cup {z}, new) = Total(S, row) + n
<1> DEFINE B == Bytes(S, row)
           C == {z} \X (1..n)
<1>1. Bytes(S \cup {z}, new) = B \cup C
  BY DEF Bytes
<1>2. B \cap C = {}
  BY DEF Bytes
<1>3. IsFiniteSet(C) /\ Cardinality(C) = n
  BY RowBytes
<1>4. IsFiniteSet(B) /\ Cardinality(B) \in Nat
  BY TotalBound DEF Total
<1> HIDE DEF B, C
<1>5. Cardinality(B \cup C) = Cardinality(B) + Cardinality(C) - Cardinality(B \cap C)
  BY <1>3, <1>4, FS_Union
<1>6. Cardinality(B \cap C) = 0
  BY <1>2, FS_EmptySet
<1>7. Cardinality(B \cup C) = Cardinality(B) + n
  BY <1>3, <1>4, <1>5, <1>6
<1> QED
  BY <1>1, <1>7 DEF Total, B

\* A sum without one of its rows.
LEMMA TotalWithout ==
  ASSUME NEW S, IsFiniteSet(S), NEW row, \A x \in S : row[x].size \in 0..Most,
         NEW z \in S
  PROVE  Total(S, row) = Total(S \ {z}, row) + row[z].size
<1>0. PICK n \in Nat : row[z].size = n
  BY KbAssumption
<1>1. PICK new : new = row
  OBVIOUS
<1>2. new[z].size = n /\ \A x \in S \ {z} : new[x].size = row[x].size
  BY <1>0, <1>1
<1>3. IsFiniteSet(S \ {z}) /\ z \notin S \ {z} /\ (S \ {z}) \cup {z} = S
  BY FS_RemoveElement
<1>4. Total((S \ {z}) \cup {z}, new) = Total(S \ {z}, row) + n
  BY <1>0, <1>2, <1>3, TotalGrows
<1> QED
  BY <1>0, <1>1, <1>3, <1>4

\* The rows and the requests that are summed are finitely many, and each has a size.
LEMMA SummedTyped ==
  ASSUME TypeOK, NEW k
  PROVE  /\ IsFiniteSet(Counted(k)) /\ IsFiniteSet(DocsOf(k)) /\ IsFiniteSet(Cleared(k))
         /\ \A d \in Docs : doc[d].size \in 0..Most
         /\ \A s \in Slots : slot[s].size \in 0..Most
         /\ Counted(k) \subseteq Docs /\ Cleared(k) \subseteq Slots /\ Counted(k) \subseteq DocsOf(k)
         /\ DocsOf(k) \subseteq Docs
<1>1. Counted(k) \subseteq DocsOf(k) /\ DocsOf(k) \subseteq Docs /\ Cleared(k) \subseteq Slots
  BY DEF Counted, DocsOf, Cleared
<1>2. Sizes \cup {0} \subseteq 0..Most
  BY KbAssumption
<1>3. \A d \in Docs : doc[d].size \in Sizes \cup {0}
  BY DEF TypeOK
<1>4. \A s \in Slots : slot[s].size \in Sizes \cup {0}
  BY DEF TypeOK, Slot
<1> QED
  BY <1>1, <1>2, <1>3, <1>4, KbAssumption, FS_Subset

\* If no row and no request is added to the sums, they stay within the bound.
LEMMA NothingAdded ==
  ASSUME TypeOK, QuotaInv, TypeOK', NEW k \in Kbs,
         \A d \in Counted(k)' : d \in Counted(k) /\ doc'[d].size = doc[d].size,
         \A s \in Cleared(k)' : s \in Cleared(k) /\ slot'[s].size = slot[s].size
  PROVE  Total(Counted(k), doc)' + Total(Cleared(k), slot)' <= Quota + (Cardinality(Slots) - 1) * Most
<1>1. Total(Counted(k)', doc') <= Total(Counted(k), doc)
  BY SummedTyped, TotalShrinks
<1>2. Total(Cleared(k)', slot') <= Total(Cleared(k), slot)
  BY SummedTyped, TotalShrinks
<1>3. /\ Total(Counted(k), doc) \in Nat /\ Total(Cleared(k), slot) \in Nat
      /\ Total(Counted(k)', doc') \in Nat /\ Total(Cleared(k)', slot') \in Nat
  <2>1. Total(Counted(k), doc) \in Nat /\ Total(Cleared(k), slot) \in Nat
    BY SummedTyped, TotalBound
  <2>2. /\ IsFiniteSet(Counted(k)') /\ \A d \in Counted(k)' : doc'[d].size \in 0..Most
        /\ IsFiniteSet(Cleared(k)') /\ \A s \in Cleared(k)' : slot'[s].size \in 0..Most
    BY SummedTyped, FS_Subset
  <2> QED
    BY <2>1, <2>2, TotalBound
<1>4. Quota \in Nat /\ Cardinality(Slots) \in Nat /\ Most \in Nat
  BY KbAssumption, FS_CardinalityType
<1>5. Total(Counted(k), doc) + Total(Cleared(k), slot) <= Quota + (Cardinality(Slots) - 1) * Most
  BY DEF QuotaInv
<1>6. Total(Counted(k), doc)' = Total(Counted(k)', doc') /\ Total(Cleared(k), slot)' = Total(Cleared(k)', slot')
  BY DEF Total, Bytes
<1> QED
  BY <1>1, <1>2, <1>3, <1>4, <1>5, <1>6

\* A request that goes on stays blind or not.
LEMMA GotoBlind ==
  ASSUME TypeOK, NEW s \in Slots, NEW pc, Goto(s, pc)
  PROVE  slot'[s].blind = slot[s].blind
<1>1. slot[s] \in Slot
  BY DEF TypeOK
<1>2. slot'[s] = [slot[s] EXCEPT !.pc = pc]
  BY PutAny DEF Goto
<1> QED
  BY <1>1, <1>2 DEF Slot

\* A step adds to the sums only what CheckQuota has counted, or what is counted
\* as a request already.
LEMMA QuotaStep ==
  ASSUME TypeOK, SlotsOK, RowsOK, TypeOK', QuotaInv, [Next]_vars
  PROVE  QuotaInv'
<1> USE KbAssumption
<1> SUFFICES ASSUME NEW k \in Kbs
             PROVE  Total(Counted(k), doc)' + Total(Cleared(k), slot)'
                      <= Quota + (Cardinality(Slots) - 1) * Most
  BY DEF QuotaInv
<1> DEFINE Goal == Total(Counted(k), doc)' + Total(Cleared(k), slot)'
                     <= Quota + (Cardinality(Slots) - 1) * Most
<1>0. \A t \in Slots : slot'[t].size \in 0..Most
  <2>1. \A t \in Slots : slot'[t].size \in Sizes \cup {0}
    BY DEF TypeOK, Slot
  <2>2. Sizes \cup {0} \subseteq 0..Most
    OBVIOUS
  <2> QED
    BY <2>1, <2>2
<1>1. CASE /\ \A d \in Docs : doc'[d] = doc[d] \/ doc'[d] = NoRow
           /\ \A t \in Cleared(k)' : t \in Cleared(k) /\ slot'[t].size = slot[t].size
  <2>1. \A d \in Counted(k)' : d \in Counted(k) /\ doc'[d].size = doc[d].size
    BY <1>1 DEF Counted, DocsOf, NoRow
  <2> QED
    BY <1>1, <2>1, NothingAdded
<1>2. ASSUME NEW s \in Slots, CheckQuota(s) PROVE Goal
  <2>1. UNCHANGED doc /\ At(s, "quota") /\ slot[s] \in Slot
    BY <1>2 DEF CheckQuota, rows, TypeOK
  <2>2. \A t \in Slots \ {s} : slot'[t] = slot[t]
    BY <1>2, PutAny DEF CheckQuota, End, Goto
  <2>3. \A t \in Cleared(k)' : t # s => t \in Cleared(k) /\ slot'[t].size = slot[t].size
    BY <2>2 DEF Cleared
  <2>4. CASE s \notin Cleared(k)'
    BY <1>1, <2>1, <2>3, <2>4
  <2>5. CASE s \in Cleared(k)'
    <3>1. slot'[s].pc \in {"dedup", "enqueue"} /\ slot'[s].at = k /\ ~slot'[s].blind
      BY <2>5 DEF Cleared
    <3>2. ~End(s)
      BY <3>1, EndOne
    <3>3. ~Put(s, [slot[s] EXCEPT !.pc = "dedup", !.blind = TRUE])
      <4>1. [slot[s] EXCEPT !.pc = "dedup", !.blind = TRUE].blind
        BY <2>1 DEF Slot
      <4> QED
        BY <3>1, <4>1, PutAny
    <3>4. Goto(s, "dedup") /\ ~OverQuota(slot[s].at, slot[s].size)
      BY <1>2, <3>2, <3>3 DEF CheckQuota
    <3>5. slot[s].at = k /\ slot'[s].size = slot[s].size
      BY <3>1, <3>4, GotoOne
    <3> DEFINE C == Cleared(k)' \ {s}
    <3>6. PICK n \in Nat : n = slot[s].size
      BY SummedTyped
    <3>7. Total(Counted(k), doc) + n <= Quota
      <4>1. Total(Counted(k), doc) <= Used(k)
        BY SummedTyped, TotalShrinks DEF Used
      <4>2. Total(Counted(k), doc) \in Nat /\ Used(k) \in Nat
        BY SummedTyped, TotalBound DEF Used
      <4>3. ~(Used(k) + n > Quota)
        BY <3>4, <3>5, <3>6 DEF OverQuota
      <4> QED
        BY <3>6, <4>1, <4>2, <4>3
    <3>8. /\ IsFiniteSet(C) /\ Total(C, slot') \in Nat
          /\ Total(C, slot') <= (Cardinality(Slots) - 1) * Most
      <4>1. C \subseteq Slots \ {s}
        BY DEF Cleared
      <4>2. /\ IsFiniteSet(Slots \ {s}) /\ Cardinality(Slots \ {s}) = Cardinality(Slots) - 1
            /\ Cardinality(Slots) \in Nat
        BY FS_RemoveElement, FS_CardinalityType
      <4>3. \A t \in Slots \ {s} : slot'[t].size \in 0..Most
        BY <1>0
      <4>4. IsFiniteSet(C)
        BY <4>1, <4>2, FS_Subset
      <4>5. Total(Slots \ {s}, slot') \in Nat /\ Total(Slots \ {s}, slot') <= (Cardinality(Slots) - 1) * Most
        BY <4>2, <4>3, TotalBound
      <4>6. Total(C, slot') <= Total(Slots \ {s}, slot')
        BY <4>1, <4>2, <4>3, TotalShrinks
      <4>7. Total(C, slot') \in Nat
        BY <4>1, <4>3, <4>4, TotalBound
      <4>8. Most \in Nat /\ (Cardinality(Slots) - 1) * Most \in Int
        BY <4>2
      <4> QED
        BY <4>4, <4>5, <4>6, <4>7, <4>8
    <3>9. Total(Cleared(k)', slot') = Total(C, slot') + n
      <4>1. Cleared(k)' = C \cup {s}
        BY <2>5
      <4>2. \A t \in C : slot'[t].size \in 0..Most
        BY <1>0 DEF Cleared
      <4>3. Total(C \cup {s}, slot') = Total(C, slot') + n
        <5>1. slot'[s].size = n /\ s \notin C
          BY <3>5, <3>6
        <5> QED
          BY <3>6, <3>8, <4>2, <5>1, TotalGrows
      <4> QED
        BY <4>1, <4>3
    <3>10. Total(Counted(k)', doc') = Total(Counted(k), doc)
      BY <2>1 DEF Counted, DocsOf
    <3>11. Cardinality(Slots) \in Nat /\ Most \in Nat /\ Quota \in Nat
      BY FS_CardinalityType
    <3>12. Total(Counted(k), doc) \in Nat
      BY SummedTyped, TotalBound
    <3> HIDE DEF C
    <3>13. Total(Counted(k)', doc') + Total(Cleared(k)', slot') <= Quota + (Cardinality(Slots) - 1) * Most
      BY <3>6, <3>7, <3>8, <3>9, <3>10, <3>11, <3>12
    <3> QED
      BY <3>13 DEF Total, Bytes
  <2> QED
    BY <2>4, <2>5
<1>3. ASSUME NEW s \in Slots, Enqueue(s) PROVE Goal
  <2>1. \A t \in Slots \ {s} : slot'[t] = slot[t]
    BY <1>3, EndOne, GotoOne DEF Enqueue, Insert, AnswerWith
  <2>2. slot'[s].pc \notin {"dedup", "enqueue"}
    BY <1>3, EndOne, GotoOne DEF Enqueue, Insert, AnswerWith
  <2>3. /\ s \notin Cleared(k)'
        /\ \A t \in Cleared(k)' : t # s /\ t \in Cleared(k) /\ slot'[t].size = slot[t].size
    BY <2>1, <2>2 DEF Cleared
  <2>4. CASE UNCHANGED doc
    BY <1>1, <2>3, <2>4
  <2>5. CASE Insert(s)
    <3>1. PICK e \in Docs \ used :
            doc' = [doc EXCEPT ![e] = [kb |-> slot[s].at, source |-> slot[s].source,
                                       size |-> slot[s].size, blind |-> slot[s].blind]]
      BY <2>5 DEF Insert
    <3>2. /\ doc'[e].kb = slot[s].at /\ doc'[e].size = slot[s].size /\ doc'[e].blind = slot[s].blind
          /\ \A d \in Docs \ {e} : doc'[d] = doc[d]
      BY <3>1 DEF TypeOK
    <3>3. doc[e].kb = None /\ k # None
      BY DEF RowsOK
    <3>4. e \notin Counted(k)
      BY <3>3 DEF Counted, DocsOf
    <3>5. CASE e \notin Counted(k)'
      <4>1. \A d \in Counted(k)' : d \in Counted(k) /\ doc'[d].size = doc[d].size
        BY <3>2, <3>5 DEF Counted, DocsOf
      <4> QED
        BY <2>3, <4>1, NothingAdded
    <3>6. CASE e \in Counted(k)'
      <4>1. slot[s].at = k /\ ~slot[s].blind /\ slot[s].pc = "enqueue"
        BY <1>3, <3>2, <3>6 DEF Counted, DocsOf, Enqueue, At
      <4>2. s \in Cleared(k)
        BY <4>1 DEF Cleared
      <4> DEFINE C == Cleared(k) \ {s}
      <4>3. PICK n \in Nat : n = slot[s].size
        BY SummedTyped
      <4>4. Counted(k)' = Counted(k) \cup {e}
        BY <3>2, <3>6 DEF Counted, DocsOf
      <4>5. Total(Counted(k)', doc') = Total(Counted(k), doc) + n
        <5>1. \A d \in Counted(k) : doc'[d].size = doc[d].size
          BY <3>2, <3>4 DEF Counted, DocsOf
        <5>2. IsFiniteSet(Counted(k)) /\ \A d \in Counted(k) : doc[d].size \in 0..Most
          BY SummedTyped
        <5>3. doc'[e].size = n
          BY <3>2, <4>3
        <5>4. Total(Counted(k) \cup {e}, doc') = Total(Counted(k), doc) + n
          BY <3>4, <4>3, <5>1, <5>2, <5>3, TotalGrows
        <5> QED
          BY <4>4, <5>4
      <4>6. IsFiniteSet(C) /\ \A t \in C : slot[t].size \in 0..Most
        BY SummedTyped, FS_RemoveElement
      <4>7. Total(Cleared(k), slot) = Total(C, slot) + n
        <5>1. IsFiniteSet(Cleared(k)) /\ \A t \in Cleared(k) : slot[t].size \in 0..Most
          BY SummedTyped
        <5> QED
          BY <4>2, <4>3, <5>1, TotalWithout
      <4>8. Total(Cleared(k)', slot') <= Total(C, slot)
        BY <2>3, <4>6, TotalShrinks
      <4>9. /\ Total(Counted(k), doc) \in Nat /\ Total(C, slot) \in Nat
            /\ Total(Cleared(k)', slot') \in Nat
        <5>1. Cleared(k)' \subseteq C
          BY <2>3
        <5>2. IsFiniteSet(Cleared(k)') /\ \A t \in Cleared(k)' : slot'[t].size \in 0..Most
          BY <2>3, <4>6, <5>1, FS_Subset
        <5> QED
          BY <4>6, <5>2, SummedTyped, TotalBound
      <4>10. Cardinality(Slots) \in Nat /\ Most \in Nat /\ Quota \in Nat
        BY FS_CardinalityType
      <4>11. Total(Counted(k), doc) + Total(Cleared(k), slot)
               <= Quota + (Cardinality(Slots) - 1) * Most
        BY DEF QuotaInv
      <4> HIDE DEF C
      <4>12. Total(Counted(k)', doc') + Total(Cleared(k)', slot')
               <= Quota + (Cardinality(Slots) - 1) * Most
        BY <4>3, <4>5, <4>7, <4>8, <4>9, <4>10, <4>11
      <4> QED
        BY <4>12 DEF Total, Bytes
    <3> QED
      BY <3>5, <3>6
  <2> QED
    BY <1>3, <2>4, <2>5 DEF Enqueue
<1>4. ASSUME NEW s \in Slots, Dedup(s) PROVE Goal
  <2>1. UNCHANGED doc /\ At(s, "dedup") /\ \A t \in Slots \ {s} : slot'[t] = slot[t]
    BY <1>4, EndOne, GotoOne DEF Dedup, AnswerWith, rows
  <2>2. \/ slot'[s].pc = "idle"
        \/ slot'[s].at = slot[s].at /\ slot'[s].size = slot[s].size /\ slot'[s].blind = slot[s].blind
    BY <1>4, EndOne, GotoOne, GotoBlind DEF Dedup, AnswerWith
  <2>3. \A t \in Cleared(k)' : t \in Cleared(k) /\ slot'[t].size = slot[t].size
    BY <2>1, <2>2 DEF Cleared, At
  <2> QED
    BY <1>1, <2>1, <2>3
<1>5. ASSUME NEW s \in Slots, \A t \in Slots \ {s} : slot'[t] = slot[t],
             slot'[s].pc \notin {"dedup", "enqueue"},
             \A d \in Docs : doc'[d] = doc[d] \/ doc'[d] = NoRow
      PROVE  Goal
  BY <1>1, <1>5 DEF Cleared
<1>6. ASSUME NEW s \in Slots, NEW u \in Users,
             \/ \E g \in Orgs : CreateOrg(s, u, g) \/ AskKb(s, u, g)
             \/ \E l \in Kbs : Delete(s, u, l) \/ \E x \in Sources, n \in Sizes : Upload(s, u, l, x, n)
      PROVE  Goal
  <2>1. ASSUME NEW g \in Orgs, CreateOrg(s, u, g)
       PROVE  Goal
    <3>1. Put(s, [Idle EXCEPT !.pc = "org_grant", !.user = u, !.at = g]) /\ UNCHANGED doc
      BY <2>1 DEF CreateOrg, rows
    <3>2. [Idle EXCEPT !.pc = "org_grant", !.user = u, !.at = g].pc = "org_grant"
      BY DEF Idle
    <3> QED
      BY <1>5, <3>1, <3>2, PutAny
  <2>2. ASSUME NEW g \in Orgs, AskKb(s, u, g)
       PROVE  Goal
    <3>1. Put(s, [Idle EXCEPT !.pc = "insert", !.user = u, !.at = g]) /\ UNCHANGED doc
      BY <2>2 DEF AskKb, rows
    <3>2. [Idle EXCEPT !.pc = "insert", !.user = u, !.at = g].pc = "insert"
      BY DEF Idle
    <3> QED
      BY <1>5, <3>1, <3>2, PutAny
  <2>3. ASSUME NEW l \in Kbs, Delete(s, u, l)
       PROVE  Goal
    <3>1. Put(s, [Idle EXCEPT !.pc = "get_delete", !.user = u, !.at = l]) /\ UNCHANGED doc
      BY <2>3 DEF Delete, rows
    <3>2. [Idle EXCEPT !.pc = "get_delete", !.user = u, !.at = l].pc = "get_delete"
      BY DEF Idle
    <3> QED
      BY <1>5, <3>1, <3>2, PutAny
  <2>4. ASSUME NEW l \in Kbs, NEW x \in Sources, NEW n \in Sizes, Upload(s, u, l, x, n)
       PROVE  Goal
    <3>1. Put(s, [Idle EXCEPT !.pc = "get", !.user = u, !.at = l, !.source = x, !.size = n]) /\ UNCHANGED doc
      BY <2>4 DEF Upload, rows
    <3>2. [Idle EXCEPT !.pc = "get", !.user = u, !.at = l, !.source = x, !.size = n].pc = "get"
      BY DEF Idle
    <3> QED
      BY <1>5, <3>1, <3>2, PutAny
  <2> QED
    BY <1>6, <2>1, <2>2, <2>3, <2>4
<1>7. ASSUME NEW s \in Slots,
             \/ OrgGrant(s) \/ Grant(s) \/ GetForUpload(s) \/ Existing(s)
             \/ GetForDelete(s) \/ Recompute(s) \/ DeleteRow(s) \/ Fails(s)
      PROVE  Goal
  <2>1. \A d \in Docs : doc'[d] = doc[d] \/ doc'[d] = NoRow
    BY <1>7 DEF OrgGrant, Grant, GetForUpload, Existing, GetForDelete, Recompute, DeleteRow, Fails, rows
  <2>2. End(s) \/ Goto(s, "quota") \/ Goto(s, "list") \/ Goto(s, "kb_row")
    BY <1>7 DEF OrgGrant, Grant, GetForUpload, Existing, GetForDelete, Recompute, DeleteRow, Fails, AnswerWith
  <2>3. slot'[s].pc \notin {"dedup", "enqueue"} /\ \A t \in Slots \ {s} : slot'[t] = slot[t]
    BY <2>2, EndOne, GotoOne
  <2> QED
    BY <1>5, <2>1, <2>3
<1>8. ASSUME NEW s \in Slots, InsertKb(s) \/ ListDocs(s) \/ RemoveChunks(s) \/ RemoveRow(s)
      PROVE  Goal
  <2>0. slot[s] \in Slot
    BY DEF TypeOK
  <2>1. \A d \in Docs : doc'[d] = doc[d] \/ doc'[d] = NoRow
    <3>1. UNCHANGED doc \/ doc' = [doc EXCEPT ![slot[s].one] = NoRow]
      BY <1>8 DEF InsertKb, ListDocs, RemoveChunks, RemoveRow, rows
    <3> QED
      BY <3>1 DEF TypeOK
  <2>2. PICK r : Put(s, r) /\ r.pc \notin {"dedup", "enqueue"}
    <3>1. CASE InsertKb(s)
      <4>1. PICK l \in Kbs : Put(s, [slot[s] EXCEPT !.pc = "grant", !.at = l])
        BY <3>1 DEF InsertKb
      <4>2. [slot[s] EXCEPT !.pc = "grant", !.at = l].pc = "grant"
        BY <2>0 DEF Slot
      <4> QED
        BY <4>1, <4>2
    <3>2. CASE ListDocs(s)
      <4>1. Put(s, [slot[s] EXCEPT !.pc = "docs", !.todo = DocsOf(slot[s].at)])
        BY <3>2 DEF ListDocs
      <4>2. [slot[s] EXCEPT !.pc = "docs", !.todo = DocsOf(slot[s].at)].pc = "docs"
        BY <2>0 DEF Slot
      <4> QED
        BY <4>1, <4>2
    <3>3. CASE RemoveChunks(s)
      <4>1. PICK d : Put(s, [slot[s] EXCEPT !.pc = "row", !.one = d, !.todo = @ \ {d}])
        BY <3>3 DEF RemoveChunks
      <4>2. [slot[s] EXCEPT !.pc = "row", !.one = d, !.todo = @ \ {d}].pc = "row"
        BY <2>0 DEF Slot
      <4> QED
        BY <4>1, <4>2
    <3>4. CASE RemoveRow(s)
      <4>1. Put(s, [slot[s] EXCEPT !.pc = "docs", !.one = None])
        BY <3>4 DEF RemoveRow
      <4>2. [slot[s] EXCEPT !.pc = "docs", !.one = None].pc = "docs"
        BY <2>0 DEF Slot
      <4> QED
        BY <4>1, <4>2
    <3> QED
      BY <1>8, <3>1, <3>2, <3>3, <3>4
  <2> QED
    BY <1>5, <2>1, <2>2, PutAny
<1>9. ASSUME (\E d \in Docs : Claim(d)) \/ (\E x \in work : Import(x)) \/ UNCHANGED vars
      PROVE  Goal
  <2>1. UNCHANGED <<doc, slot>>
    BY <1>9 DEF Claim, Import, vars
  <2> QED
    BY <1>1, <2>1 DEF Cleared
<1> QED
  BY <1>2, <1>3, <1>4, <1>6, <1>7, <1>8, <1>9 DEF Next

LEMMA QuotaInit == Init => QuotaInv
<1> SUFFICES ASSUME Init, NEW k \in Kbs
             PROVE  Total(Counted(k), doc) + Total(Cleared(k), slot)
                      <= Quota + (Cardinality(Slots) - 1) * Most
  BY DEF QuotaInv
<1> USE KbAssumption
<1>1. Counted(k) = {} /\ Cleared(k) = {}
  BY DEF Init, Counted, DocsOf, Cleared, NoRow, Idle
<1>2. Total(Counted(k), doc) = 0 /\ Total(Cleared(k), slot) = 0
  <2>1. Bytes({}, doc) = {} /\ Bytes({}, slot) = {}
    BY DEF Bytes
  <2> QED
    BY <1>1, <2>1, FS_EmptySet DEF Total
<1>3. Cardinality(Slots) \in Nat \ {0}
  BY FS_CardinalityType, FS_EmptySet
<1>4. (Cardinality(Slots) - 1) * Most \in Nat
  <2> DEFINE c == Cardinality(Slots) - 1
  <2>1. c \in Nat
    BY <1>3
  <2> HIDE DEF c
  <2>2. c * Most \in Nat
    BY <2>1
  <2> QED
    BY <2>2 DEF c
<1> QED
  BY <1>2, <1>4

\* What was let in by a sum, with what still may follow it, stays within the quota
\* and the uploads served beside it.
THEOREM QuotaCounted == Spec => []QuotaInv
<1>1. IInv /\ QuotaInv /\ [Next]_vars => QuotaInv'
  <2> SUFFICES ASSUME IInv, QuotaInv, [Next]_vars PROVE QuotaInv'
    OBVIOUS
  <2>1. IInv'
    BY StepInv
  <2> QED
    BY <2>1, QuotaStep DEF IInv
<1> QED
  BY <1>1, KbsCorrect, QuotaInit, PTL DEF Spec

\* The uploads that were let in by a sum overrun the quota by at most the largest one
\* for every other request served beside, for any number of requests and any sizes.
THEOREM QuotaOverrun == Spec => []QuotaSlack
<1>1. IInv /\ QuotaInv => QuotaSlack
  <2> SUFFICES ASSUME IInv, QuotaInv, NEW k \in Kbs
               PROVE  Total(Counted(k), doc) <= Quota + (Cardinality(Slots) - 1) * Most
    BY DEF QuotaSlack
  <2>1. Total(Counted(k), doc) + Total(Cleared(k), slot) <= Quota + (Cardinality(Slots) - 1) * Most
    BY DEF QuotaInv
  <2>2. Total(Counted(k), doc) \in Nat /\ Total(Cleared(k), slot) \in Nat
    BY SummedTyped, TotalBound DEF IInv
  <2>3. Cardinality(Slots) \in Nat /\ Most \in Nat /\ Quota \in Nat
    BY KbAssumption, FS_CardinalityType
  <2>4. (Cardinality(Slots) - 1) * Most \in Int
    BY <2>3
  <2> QED
    BY <2>1, <2>2, <2>3, <2>4
<1> QED
  BY <1>1, KbsCorrect, QuotaCounted, PTL
==============================================================================
