----------------------------- MODULE RowOrderProofs -----------------------------
(***************************************************************************)
(* Proofs about rows and the order of their random ids: KeysetPaging and,  *)
(* in its second half, EvalRuns.  They share no state.                     *)
(*                                                                         *)
(* KeysetPaging, for both directions and every set of ids and of limits.   *)
(* The invariant says what the cursor means: everything shown is at or     *)
(* before it, and what is at or before it and has been there all the time  *)
(* is shown.                                                               *)
(*                                                                         *)
(* EvalRuns, for any number of requests.  A run under way carries what it  *)
(* has read of its baseline, and rows never change once they are stored.   *)
(***************************************************************************)
EXTENDS KeysetPaging, EvalRuns, FiniteSetTheorems, TLAPS

AtOrBefore(i, c) == i = c \/ Before(i, c)

Shown == walk.got \cup walk.page

\* While a client reads, the cursor splits the ids in shown and to come.
CursorInv ==
  walk.pc = "reading" =>
    /\ walk.cursor = NoCursor => Shown = {}
    /\ walk.cursor # NoCursor =>
         /\ \A i \in Shown : AtOrBefore(i, walk.cursor)
         /\ \A i \in walk.stable : AtOrBefore(i, walk.cursor) => i \in Shown

PagingInv == TypeOK /\ CursorInv /\ PagesInOrder /\ NothingMissed

\* Before is the strict order of the list.
LEMMA BeforeIsOrder ==
  ASSUME NEW i \in Ids, NEW j \in Ids
  PROVE  /\ ~(Before(i, j) /\ Before(j, i))
         /\ i = j \/ Before(i, j) \/ Before(j, i)
         /\ \A k \in Ids : Before(i, j) /\ Before(j, k) => Before(i, k)
<1>1. i \in Int /\ j \in Int /\ \A k \in Ids : k \in Int
  BY IdAssumption
<1> QED
  BY <1>1 DEF Before

\* A statement that selects beyond the cursor shows nothing again: what was
\* shown comes before the new page.
LEMMA NewPageComesAfter ==
  ASSUME TypeOK, CursorInv, walk.pc = "reading",
         NEW P \in SUBSET Beyond(walk.cursor)
  PROVE  \A i \in Shown, j \in P : Before(i, j)
<1> SUFFICES ASSUME NEW i \in Shown, NEW j \in P
             PROVE  Before(i, j)
  OBVIOUS
<1>1. walk.cursor \in Ids /\ AtOrBefore(i, walk.cursor)
  BY DEF TypeOK, Walk, CursorInv
<1>2. i \in Ids /\ j \in Ids
  BY DEF TypeOK, Walk, Shown, Beyond
<1>3. Before(walk.cursor, j)
  BY <1>1, IdAssumption DEF Beyond
<1> QED
  BY <1>1, <1>2, <1>3, BeforeIsOrder DEF AtOrBefore

\* A row that was there all the time and is not shown yet is selected.
LEMMA UnshownIsSelected ==
  ASSUME TypeOK, CursorInv, walk.pc = "reading",
         NEW i \in walk.stable, i \notin Shown
  PROVE  i \in Beyond(walk.cursor)
<1>1. i \in rows /\ i \in Ids
  BY DEF TypeOK
<1>2. CASE walk.cursor = NoCursor
  BY <1>1, <1>2 DEF Beyond
<1>3. CASE walk.cursor # NoCursor
  <2>1. walk.cursor \in Ids /\ ~AtOrBefore(i, walk.cursor)
    BY <1>3 DEF TypeOK, Walk, CursorInv
  <2> QED
    BY <1>1, <2>1, BeforeIsOrder DEF AtOrBefore, Beyond
<1> QED
  BY <1>2, <1>3

\* A page of n rows, read with the cursor of the previous one, keeps the
\* invariant.
LEMMA FullPageKeeps ==
  ASSUME PagingInv, NEW limit \in Limits, FullPage(limit)
  PROVE  PagingInv'
<1> USE DEF PagingInv
<1>1. PICK P \in SUBSET Beyond(walk.cursor) :
        /\ IsPage(P, Beyond(walk.cursor), Clamp(limit))
        /\ \E i \in rows :
             /\ NextCursor(i, P)
             /\ walk' = [walk EXCEPT !.cursor = i, !.page = P,
                                     !.got = walk.got \cup walk.page]
  BY DEF FullPage
<1>2. PICK c \in rows :
        /\ NextCursor(c, P)
        /\ walk' = [walk EXCEPT !.cursor = c, !.page = P,
                                !.got = walk.got \cup walk.page]
  BY <1>1
<1>3. walk.pc = "reading" /\ rows' = rows /\ born' = born
  BY DEF FullPage
<1>4. P \subseteq rows /\ P \subseteq Ids /\ c \in P /\ c \in Ids
  BY <1>2 DEF Beyond, TypeOK, NextCursor, IsLast
<1>5. /\ walk'.pc = "reading" /\ walk'.cursor = c /\ walk'.page = P
      /\ walk'.got = Shown /\ walk'.stable = walk.stable
  BY <1>2, <1>3 DEF TypeOK, Walk, Shown
<1>6. TypeOK'
  BY <1>2, <1>3, <1>4 DEF TypeOK, Walk
<1>7. PagesInOrder'
  <2>1. \A i \in Shown, j \in P : Before(i, j)
    BY <1>3, NewPageComesAfter
  <2> QED
    BY <2>1, <1>5 DEF PagesInOrder, Before
<1>8. CursorInv'
  <2>1. \A i \in Shown \cup P : AtOrBefore(i, c)
    BY <1>2, <1>3, <1>4, NewPageComesAfter DEF NextCursor, IsLast, AtOrBefore
  <2>2. ASSUME NEW i \in walk.stable, AtOrBefore(i, c), i \notin Shown
        PROVE  i \in P
    <3>1. i \in Beyond(walk.cursor)
      BY <1>3, <2>2, UnshownIsSelected
    <3> QED
      BY <3>1, <2>2, <1>1, <1>4 DEF IsPage, AtOrBefore
  <2>3. c # NoCursor
    BY <1>4, IdAssumption
  <2> QED
    BY <2>1, <2>2, <2>3, <1>5 DEF CursorInv, Shown, AtOrBefore, Before
<1>9. NothingMissed'
  BY <1>5 DEF NothingMissed
<1> QED
  BY <1>6, <1>7, <1>8, <1>9

\* A short page shows all that was left: the walk may end.
LEMMA LastPageKeeps ==
  ASSUME PagingInv, NEW limit \in Limits, LastPage(limit)
  PROVE  PagingInv'
<1> USE DEF PagingInv
<1>1. PICK P \in SUBSET Beyond(walk.cursor) :
        /\ IsPage(P, Beyond(walk.cursor), Clamp(limit))
        /\ Cardinality(P) < Clamp(limit)
        /\ walk' = [walk EXCEPT !.pc = "done", !.page = P,
                                !.got = walk.got \cup walk.page]
  BY DEF LastPage
<1>2. P = Beyond(walk.cursor)
  BY <1>1 DEF IsPage
<1>3. walk.pc = "reading" /\ rows' = rows /\ born' = born
  BY DEF LastPage
<1>4. P \subseteq Ids
  BY DEF Beyond, TypeOK
<1>5. /\ walk'.pc = "done" /\ walk'.page = P
      /\ walk'.got = Shown /\ walk'.stable = walk.stable
  BY <1>1 DEF TypeOK, Walk, Shown
<1>6. TypeOK'
  BY <1>1, <1>3, <1>4 DEF TypeOK, Walk
<1>7. PagesInOrder'
  <2>1. \A i \in Shown, j \in P : Before(i, j)
    BY <1>3, NewPageComesAfter
  <2> QED
    BY <2>1, <1>5 DEF PagesInOrder, Before
<1>8. CursorInv'
  BY <1>5 DEF CursorInv
<1>9. NothingMissed'
  <2>1. \A i \in walk.stable : i \in Shown \/ i \in P
    BY <1>2, <1>3, UnshownIsSelected
  <2> QED
    BY <2>1, <1>5 DEF NothingMissed
<1> QED
  BY <1>6, <1>7, <1>8, <1>9

\* Requests of other users and a new walk keep the invariant.
LEMMA OtherStepsKeep ==
  ASSUME PagingInv,
         \/ Start
         \/ \E i \in Ids : Insert(i) \/ Delete(i)
         \/ UNCHANGED vars
  PROVE  PagingInv'
<1> USE DEF PagingInv
<1>1. CASE Start
  BY <1>1 DEF Start, TypeOK, Walk, CursorInv, PagesInOrder, NothingMissed, Shown
<1>2. ASSUME NEW i \in Ids, Insert(i)
      PROVE  PagingInv'
  <2>1. 1 + Cardinality({j \in Ids : born[j] > 0}) \in Nat
    BY IdAssumption, FS_Subset, FS_CardinalityType
  <2> QED
    BY <1>2, <2>1 DEF Insert, TypeOK, Walk, CursorInv, PagesInOrder, NothingMissed, Shown, AtOrBefore, Before
<1>3. ASSUME NEW i \in Ids, Delete(i)
      PROVE  PagingInv'
  <2>1. /\ walk'.pc = walk.pc /\ walk'.cursor = walk.cursor /\ walk'.page = walk.page
        /\ walk'.got = walk.got /\ walk'.stable = walk.stable \ {i}
    BY <1>3 DEF Delete, TypeOK, Walk
  <2>2. TypeOK'
    BY <1>3 DEF Delete, TypeOK, Walk
  <2> QED
    BY <2>1, <2>2 DEF CursorInv, PagesInOrder, NothingMissed, Shown, AtOrBefore, Before
<1>4. CASE UNCHANGED vars
  BY <1>4 DEF vars, TypeOK, Walk, CursorInv, PagesInOrder, NothingMissed, Shown, AtOrBefore, Before
<1> QED
  BY <1>1, <1>2, <1>3, <1>4

\* The invariant holds in every reachable state.
LEMMA PagingInvariant == Spec => []PagingInv
<1>1. Init => PagingInv
  BY DEF Init, PagingInv, TypeOK, Walk, CursorInv, PagesInOrder, NothingMissed
<1>2. PagingInv /\ [Next]_vars => PagingInv'
  BY FullPageKeeps, LastPageKeeps, OtherStepsKeep DEF Next
<1> QED
  BY <1>1, <1>2, PTL DEF Spec

\* Type correctness, for every set of ids and of limits and both directions.
THEOREM TypeCorrect == Spec => []TypeOK
BY PagingInvariant, PTL DEF PagingInv

\* No walk shows a row twice or out of order, whatever is inserted and
\* deleted meanwhile (the WHERE and ORDER BY clauses of the four lists).
THEOREM PagesStayInOrder == Spec => []PagesInOrder
BY PagingInvariant, PTL DEF PagingInv

\* A walk that ends has shown every row that was there all the time (the
\* next_cursor of the four handlers).
THEOREM WalkIsComplete == Spec => []NothingMissed
BY PagingInvariant, PTL DEF PagingInv
------------------------------------------------------------------------------
(* EvalRuns: the rows of eval_run and what drift runs are compared with.   *)

Row == [kb: Kbs \cup {None}, kind: Kinds, name: {DatasetName},
        metric: Scores \cup {0}, data: Datasets \cup {None}, base: RunIds \cup {None},
        prev: Scores \cup {0, NaN}, born: Nat, began: Nat]

Slot == [pc: {"idle", "baseline", "bench"}, kb: Kbs \cup {None}, kind: Kinds,
         data: Datasets \cup {None}, base: RunIds \cup {None}, prev: Scores \cup {0, NaN}, began: Nat]

\* What a run knows of its baseline: a row that was stored before with what it
\* measured; none, if no drift run of the kb was stored when it began.
BaselineOK(s) ==
  /\ slot[s].base # None =>
       /\ slot[s].kind = "drift" /\ slot[s].base \in Drifts
       /\ run[slot[s].base].kb = slot[s].kb /\ run[slot[s].base].metric = slot[s].prev
  /\ slot[s].pc = "bench" /\ slot[s].kind = "drift" /\ slot[s].base = None =>
       \A j \in Drifts : run[j].kb = slot[s].kb => run[j].born >= slot[s].began

SlotInv(s) ==
  /\ slot[s].began <= next
  /\ slot[s].pc # "idle" => slot[s].kb \in Kbs
  /\ slot[s].pc = "baseline" => slot[s].kind = "drift"
  /\ slot[s].pc # "bench" => slot[s].base = None
  /\ BaselineOK(s)

\* Rows are numbered as they are stored, which is after they were asked for.
RowsBorn == \A i \in Stored : run[i].born < next /\ run[i].began <= run[i].born

RunsInv ==
  /\ EvalOK /\ RowsBorn /\ \A s \in Slots : SlotInv(s)
  /\ ComparedWithDrift /\ NoBaselineMissed

\* The types, folded.
LEMMA RunsTypes ==
  EvalOK <=> run \in [RunIds -> Row] /\ next \in Nat /\ slot \in [Slots -> Slot]
BY DEF EvalOK, Row, Slot

\* A slot that is put has its type, and the others stay.
LEMMA PutSlot ==
  ASSUME EvalOK, NEW s \in Slots, NEW r \in Slot, Put(s, r)
  PROVE  /\ slot' \in [Slots -> Slot] /\ slot'[s] = r
         /\ \A t \in Slots \ {s} : slot'[t] = slot[t]
BY RunsTypes DEF Put

\* A slot without a request.
LEMMA IdleSlot == Idle \in Slot /\ Idle.pc = "idle" /\ Idle.base = None /\ Idle.began = 0
BY DEF Idle, Slot, Kinds

\* Nothing is stored and nobody asks.
LEMMA RunsInit == EvalInit => RunsInv
<1> SUFFICES ASSUME EvalInit PROVE RunsInv
  OBVIOUS
<1>1. /\ run = [i \in RunIds |-> NoRow] /\ next = 1 /\ slot = [s \in Slots |-> Idle]
  BY DEF EvalInit
<1>2. NoRow \in Row /\ NoRow.kb = None
  BY DEF NoRow, Row, Kinds
<1>3. EvalOK
  BY <1>1, <1>2, IdleSlot, RunsTypes
<1>4. Stored = {} /\ Drifts = {}
  BY <1>1, <1>2 DEF Stored, Drifts
<1>5. RowsBorn /\ ComparedWithDrift /\ NoBaselineMissed
  BY <1>4 DEF RowsBorn, ComparedWithDrift, NoBaselineMissed
<1>6. ASSUME NEW s \in Slots PROVE SlotInv(s)
  <2>1. slot[s].pc = "idle" /\ slot[s].base = None /\ slot[s].began = 0
    BY <1>1, IdleSlot
  <2> QED
    BY <1>1, <2>1 DEF SlotInv, BaselineOK
<1> QED
  BY <1>3, <1>5, <1>6 DEF RunsInv

\* A step that stores nothing: the rows stay right, and so do the other requests.
LEMMA NothingStored ==
  ASSUME RunsInv, NEW s \in Slots, NEW r \in Slot, Put(s, r), UNCHANGED <<run, next>>,
         SlotInv(s)'
  PROVE  RunsInv'
<1>1. EvalOK /\ \A t \in Slots : SlotInv(t)
  BY DEF RunsInv
<1>2. slot' \in [Slots -> Slot] /\ \A t \in Slots \ {s} : slot'[t] = slot[t]
  BY <1>1, PutSlot
<1>3. EvalOK'
  BY <1>1, <1>2, RunsTypes DEF EvalOK, Slot
<1>4. \A t \in Slots \ {s} : SlotInv(t)'
  BY <1>1, <1>2 DEF SlotInv, BaselineOK, Drifts, Stored
<1>5. RowsBorn' /\ ComparedWithDrift' /\ NoBaselineMissed'
  BY DEF RunsInv, RowsBorn, ComparedWithDrift, NoBaselineMissed, Drifts, Stored
<1> QED
  BY <1>3, <1>4, <1>5 DEF RunsInv

\* The request.
LEMMA RequestKeeps ==
  ASSUME RunsInv, NEW s \in Slots, NEW k \in Kbs, NEW kind \in Kinds,
         NEW d \in Datasets, Request(s, k, kind, d)
  PROVE  RunsInv'
<1> DEFINE r == [Idle EXCEPT !.pc = IF kind = "drift" THEN "baseline" ELSE "bench",
                                  !.kb = k, !.kind = kind, !.data = d, !.began = next]
<1>1. EvalOK /\ next \in Nat
  BY DEF RunsInv, EvalOK
<1>2. /\ r \in Slot /\ r.base = None /\ r.began = next /\ r.kb = k /\ r.kind = kind
      /\ r.pc = IF kind = "drift" THEN "baseline" ELSE "bench"
  BY <1>1 DEF Idle, Slot, Kinds
<1>3. Put(s, r) /\ UNCHANGED <<run, next>>
  BY DEF Request
<1> HIDE DEF r
<1>4. slot'[s] = r
  BY <1>1, <1>2, <1>3, PutSlot
<1>5. SlotInv(s)'
  BY <1>1, <1>2, <1>3, <1>4 DEF SlotInv, BaselineOK
<1> QED
  BY <1>2, <1>3, <1>5, NothingStored

\* The baseline is read: the last of the kb's, or none if there is none.
LEMMA BaselineKeeps ==
  ASSUME RunsInv, NEW s \in Slots, Baseline(s)
  PROVE  RunsInv'
<1>1. /\ EvalOK /\ SlotInv(s) /\ slot[s] \in Slot /\ run \in [RunIds -> Row]
      /\ slot[s].pc = "baseline" /\ UNCHANGED <<run, next>>
  BY RunsTypes DEF RunsInv, Baseline
<1>2. Candidates(slot[s].kb) = {i \in Drifts : run[i].kb = slot[s].kb}
  BY <1>1 DEF Candidates, Drifts, Stored, Row
<1>3. CASE Candidates(slot[s].kb) = {} /\ Put(s, [slot[s] EXCEPT !.pc = "bench", !.prev = 0])
  <2> DEFINE r == [slot[s] EXCEPT !.pc = "bench", !.prev = 0]
  <2>1. r \in Slot /\ r.base = None /\ r.kb = slot[s].kb /\ r.began = slot[s].began /\ r.pc = "bench" /\ r.kind = slot[s].kind
    BY <1>1 DEF Slot, SlotInv
  <2> HIDE DEF r
  <2>2. Put(s, r)
    BY <1>3 DEF r
  <2>3. slot'[s] = r
    BY <1>1, <2>1, <2>2, PutSlot
  <2>4. \A j \in Drifts : run[j].kb # r.kb
    BY <1>2, <1>3, <2>1
  <2>5. SlotInv(s)'
    BY <1>1, <2>1, <2>3, <2>4 DEF SlotInv, BaselineOK, Drifts, Stored
  <2> QED
    BY <1>1, <2>1, <2>2, <2>5, NothingStored
<1>4. ASSUME NEW i \in Candidates(slot[s].kb),
             Put(s, [slot[s] EXCEPT !.pc = "bench", !.base = i, !.prev = run[i].metric])
      PROVE  RunsInv'
  <2> DEFINE r == [slot[s] EXCEPT !.pc = "bench", !.base = i, !.prev = run[i].metric]
  <2>1. i \in RunIds /\ i \in Drifts /\ run[i] \in Row /\ run[i].kb = slot[s].kb
    BY <1>1, <1>2, <1>4 DEF Drifts, Stored
  <2>2. /\ r \in Slot /\ r.base = i /\ r.kb = slot[s].kb /\ r.began = slot[s].began /\ r.pc = "bench"
        /\ r.kind = slot[s].kind /\ r.prev = run[i].metric
    BY <1>1, <2>1 DEF Slot, Row
  <2> HIDE DEF r
  <2>3. Put(s, r)
    BY <1>4 DEF r
  <2>4. slot'[s] = r
    BY <1>1, <2>2, <2>3, PutSlot
  <2>5. i # None
    BY <2>1, EvalAssumption
  <2>6. SlotInv(s)'
    BY <1>1, <2>1, <2>2, <2>4, <2>5 DEF SlotInv, BaselineOK, Drifts, Stored
  <2> QED
    BY <1>1, <2>2, <2>3, <2>6, NothingStored
<1> QED
  BY <1>3, <1>4 DEF Baseline

\* A request that ends without a row.
LEMMA EndsEmpty ==
  ASSUME RunsInv, NEW s \in Slots, Fail(s)
  PROVE  RunsInv'
<1>1. Put(s, Idle) /\ UNCHANGED <<run, next>> /\ EvalOK
  BY DEF Fail, RunsInv
<1>2. slot'[s] = Idle /\ next \in Nat
  BY <1>1, IdleSlot, PutSlot DEF EvalOK
<1>3. SlotInv(s)'
  BY <1>1, <1>2, IdleSlot DEF SlotInv, BaselineOK
<1> QED
  BY <1>1, <1>3, IdleSlot, NothingStored

\* A row is stored: it is younger than all that are there, so none of them loses its
\* baseline or finds it had missed one.
LEMMA FinishKeeps ==
  ASSUME RunsInv, NEW s \in Slots, Finish(s)
  PROVE  RunsInv'
<1>1. /\ EvalOK /\ slot[s] \in Slot /\ run \in [RunIds -> Row] /\ next \in Nat
      /\ slot[s].pc = "bench" /\ SlotInv(s) /\ RowsBorn
      /\ next' = next + 1 /\ Put(s, Idle)
  BY RunsTypes DEF RunsInv, Finish
<1>2. PICK i \in RunIds \ Stored, x \in Scores \cup {NaN} :
        run' = [run EXCEPT ![i] =
                 [kb |-> slot[s].kb, kind |-> slot[s].kind, name |-> DatasetName,
                  metric |-> Scrub(x), data |-> slot[s].data, base |-> slot[s].base,
                  prev |-> slot[s].prev, born |-> next, began |-> slot[s].began]]
  BY DEF Finish
<1> DEFINE row == [kb |-> slot[s].kb, kind |-> slot[s].kind, name |-> DatasetName,
                   metric |-> Scrub(x), data |-> slot[s].data, base |-> slot[s].base,
                   prev |-> slot[s].prev, born |-> next, began |-> slot[s].began]
<1>3. Scrub(x) \in Scores \cup {0}
  BY DEF Scrub
<1>4. /\ row \in Row /\ row.kb = slot[s].kb /\ row.kind = slot[s].kind /\ row.base = slot[s].base
      /\ row.prev = slot[s].prev /\ row.born = next /\ row.began = slot[s].began
  BY <1>1, <1>3 DEF Row, Slot
<1> HIDE DEF row
<1>5. /\ run' \in [RunIds -> Row] /\ run'[i] = row /\ \A j \in RunIds \ {i} : run'[j] = run[j]
  BY <1>1, <1>2, <1>4 DEF row
<1>6. slot' \in [Slots -> Slot] /\ slot'[s] = Idle /\ \A t \in Slots \ {s} : slot'[t] = slot[t]
  BY <1>1, IdleSlot, PutSlot
<1>7. EvalOK'
  BY <1>1, <1>5, <1>6 DEF EvalOK, Row, Slot
<1>8. /\ Stored' = Stored \cup {i}
      /\ \A j \in Stored : j \in RunIds /\ j # i /\ run'[j] = run[j] /\ run[j] \in Row
      /\ \A j \in Stored : run[j].born < next /\ run[j].began <= run[j].born
      /\ Drifts \subseteq Stored /\ Drifts \subseteq Drifts'
      /\ Drifts' \subseteq Drifts \cup {i}
      /\ row.kind = "drift" => i \in Drifts'
      /\ i \in Drifts' => row.kind = "drift"
  BY <1>1, <1>2, <1>4, <1>5, EvalAssumption DEF Stored, Drifts, SlotInv, RowsBorn
<1>9. RowsBorn'
  BY <1>1, <1>4, <1>5, <1>8 DEF RowsBorn, Row, SlotInv
<1>10. ASSUME NEW t \in Slots PROVE SlotInv(t)'
  <2>1. CASE t = s
    BY <1>1, <1>6, <2>1, IdleSlot DEF SlotInv, BaselineOK
  <2>2. CASE t # s
    <3>1. slot'[t] = slot[t] /\ SlotInv(t) /\ slot[t] \in Slot
      BY <1>1, <1>6, <2>2, RunsTypes DEF RunsInv
    <3>2. slot[t].began <= next
      BY <3>1 DEF SlotInv
    <3>3. BaselineOK(t)'
      BY <1>1, <1>4, <1>5, <1>8, <3>1, <3>2 DEF SlotInv, BaselineOK
    <3> QED
      BY <1>1, <3>1, <3>2, <3>3 DEF SlotInv, Slot
  <2> QED
    BY <2>1, <2>2
<1>11. ComparedWithDrift'
  <2> SUFFICES ASSUME NEW j \in Stored', run'[j].base # None
               PROVE  LET b == run'[run'[j].base] IN
                      /\ run'[j].kind = "drift" /\ run'[j].base \in Drifts'
                      /\ b.kb = run'[j].kb /\ b.metric = run'[j].prev /\ b.born < run'[j].born
    BY DEF ComparedWithDrift
  <2>1. CASE j = i
    BY <1>1, <1>4, <1>5, <1>8, <2>1 DEF SlotInv, BaselineOK
  <2>2. CASE j \in Stored
    <3>1. run'[j] = run[j] /\ run[j].base \in Drifts
      BY <1>8, <2>2 DEF RunsInv, ComparedWithDrift
    <3> QED
      BY <1>8, <2>2, <3>1 DEF RunsInv, ComparedWithDrift
  <2> QED
    BY <1>8, <2>1, <2>2
<1>12. NoBaselineMissed'
  <2> SUFFICES ASSUME NEW j \in Drifts', run'[j].base = None,
                      NEW l \in Drifts', run'[l].kb = run'[j].kb
               PROVE  run'[l].born >= run'[j].began
    BY DEF NoBaselineMissed
  <2>1. CASE j = i /\ l = i
    BY <1>1, <1>4, <1>5, <2>1 DEF SlotInv
  <2>2. CASE j = i /\ l \in Drifts
    BY <1>1, <1>4, <1>5, <1>8, <2>2 DEF SlotInv, BaselineOK
  <2>3. CASE j \in Drifts /\ l \in Drifts
    BY <1>8, <2>3 DEF RunsInv, NoBaselineMissed
  <2>4. CASE j \in Drifts /\ l = i
    BY <1>1, <1>4, <1>5, <1>8, <2>4 DEF Row
  <2> QED
    BY <1>8, <2>1, <2>2, <2>3, <2>4
<1> QED
  BY <1>7, <1>9, <1>10, <1>11, <1>12 DEF RunsInv

\* The invariant of the runs holds at all times.
THEOREM RunsCorrect == EvalSpec => []RunsInv
<1>1. RunsInv /\ UNCHANGED evalVars => RunsInv'
  BY DEF evalVars, RunsInv, EvalOK, RowsBorn, SlotInv, BaselineOK, ComparedWithDrift,
     NoBaselineMissed, Drifts, Stored
<1>2. RunsInv /\ [EvalNext]_evalVars => RunsInv'
  BY <1>1, RequestKeeps, BaselineKeeps, FinishKeeps, EndsEmpty DEF EvalNext
<1> QED
  BY <1>2, RunsInit, PTL DEF EvalSpec

\* The types hold: what is stored of a metric is a number.
THEOREM RunsTypeCorrect == EvalSpec => []EvalOK
<1>1. RunsInv => EvalOK
  BY DEF RunsInv
<1> QED
  BY <1>1, RunsCorrect, PTL

\* A drift run is compared with an earlier drift run of its kb and with what that run
\* measured, however many runs are served beside it (LatestBenchmark, store.go:105).
THEOREM ComparedRight == EvalSpec => []ComparedWithDrift
<1>1. RunsInv => ComparedWithDrift
  BY DEF RunsInv
<1> QED
  BY <1>1, RunsCorrect, PTL

\* A drift run without a baseline began before any drift run of its kb was stored.
THEOREM BaselineFound == EvalSpec => []NoBaselineMissed
<1>1. RunsInv => NoBaselineMissed
  BY DEF RunsInv
<1> QED
  BY <1>1, RunsCorrect, PTL
==============================================================================
