---------------------------- MODULE KeysetPaging -----------------------------
(***************************************************************************)
(* The paginated lists of the API: documents of a kb                       *)
(* (ingest.ListDocuments) and kbs of an org (orgkb.ListByOrg) ascend by    *)
(* id, sessions and eval runs (sessions.ListByKB, eval.Store.ListByKB)     *)
(* descend.  A client walks a list page by page with the next_cursor of    *)
(* each answer, while rows are inserted and deleted.                       *)
(*                                                                         *)
(* Every page is one SELECT.  Ids are random hex strings: a number stands  *)
(* for an id's place in the order of strings, and rows appear in any       *)
(* order.  The rows are those the WHERE clause of the list selects.        *)
(***************************************************************************)
EXTENDS Integers, FiniteSets

CONSTANTS
  Ids,          \* the ids newID() may draw; each is drawn once
  NoCursor,     \* the empty cursor
  Descending,   \* FALSE: id > cursor ORDER BY id ASC;  TRUE: id < cursor DESC
  MaxLimit,     \* 100 in the source
  DefaultLimit, \* 50 in the source
  Limits        \* bound: the ?limit= values clients send, 0 if unreadable

\* newID() draws 16 bytes: there are finitely many ids.
ASSUME IdAssumption == Ids \subseteq Int /\ IsFiniteSet(Ids) /\ NoCursor \notin Ids

ASSUME LimitAssumption ==
  /\ Descending \in BOOLEAN
  /\ DefaultLimit \in Nat \ {0} /\ MaxLimit \in Nat /\ Limits \subseteq Int

VARIABLES
  rows,   \* ids of the rows that are there
  born,   \* history: the rows in the order in which they were inserted
  walk    \* the client's walk: its cursor, the last page and those before it

vars == <<rows, born, walk>>
------------------------------------------------------------------------------
Walk == [pc: {"reading", "done"}, cursor: Ids \cup {NoCursor},
         page: SUBSET Ids, got: SUBSET Ids, stable: SUBSET Ids]

\* The walk reads known ids, and its cursor is a row of the last page; stable
\* are the rows that have been there since it began.
TypeOK ==
  /\ rows \subseteq Ids
  /\ born \in [Ids -> Nat]
  /\ walk \in Walk
  /\ walk.stable \subseteq rows
  /\ walk.pc = "reading" => walk.cursor \in walk.page \cup {NoCursor}

Init ==
  /\ rows = {}
  /\ born = [i \in Ids |-> 0]
  /\ walk = [pc |-> "done", cursor |-> NoCursor, page |-> {}, got |-> {}, stable |-> {}]
------------------------------------------------------------------------------
Before(i, j) == IF Descending THEN i > j ELSE i < j

\* Slip: the row under the cursor is selected again.
FromCursor(c) == {i \in rows : c = NoCursor \/ c = i \/ Before(c, i)}

\* The rows the WHERE clause selects.
Beyond(c) == {i \in rows : c = NoCursor \/ Before(c, i)}

Clamp(limit) == IF limit <= 0 \/ limit > MaxLimit THEN DefaultLimit ELSE limit

\* Slip: ORDER BY is forgotten.
UnorderedPage(P, C, n) ==
  /\ P \subseteq C
  /\ IsFiniteSet(P)
  /\ Cardinality(P) <= n
  /\ Cardinality(P) < n => P = C

\* P is what ORDER BY ... LIMIT n leaves of the selected rows C.
IsPage(P, C, n) ==
  /\ P \subseteq C
  /\ IsFiniteSet(P)
  /\ Cardinality(P) <= n
  /\ Cardinality(P) < n => P = C
  /\ \A i \in P, j \in C : Before(j, i) => j \in P

IsLast(i, P) == i \in P /\ \A j \in P : j = i \/ Before(j, i)

\* The id that next_cursor names: the last one of the page.
NextCursor(i, P) == IsLast(i, P)

\* A page with as many rows as asked for: there may be more.
FullPage(limit) ==
  LET C == Beyond(walk.cursor)
      n == Clamp(limit) IN
  /\ walk.pc = "reading"
  /\ \E P \in SUBSET C :
       /\ IsPage(P, C, n)
       /\ Cardinality(P) = n
       /\ \E i \in rows :
            /\ NextCursor(i, P)
            /\ walk' = [walk EXCEPT !.cursor = i, !.page = P,
                                    !.got = walk.got \cup walk.page]
  /\ UNCHANGED <<rows, born>>

\* A page with fewer rows, and no next_cursor: the walk is over.
LastPage(limit) ==
  LET C == Beyond(walk.cursor)
      n == Clamp(limit) IN
  /\ walk.pc = "reading"
  /\ \E P \in SUBSET C :
       /\ IsPage(P, C, n)
       /\ Cardinality(P) < n
       /\ walk' = [walk EXCEPT !.pc = "done", !.page = P,
                               !.got = walk.got \cup walk.page]
  /\ UNCHANGED <<rows, born>>

\* A client starts over, without a cursor.
Start ==
  /\ walk.pc = "done"
  /\ walk' = [pc |-> "reading", cursor |-> NoCursor, page |-> {}, got |-> {},
              stable |-> rows]
  /\ UNCHANGED <<rows, born>>

\* A row is inserted, under an id anywhere in the order.
Insert(i) ==
  /\ born[i] = 0
  /\ rows' = rows \cup {i}
  /\ born' = [born EXCEPT ![i] = 1 + Cardinality({j \in Ids : born[j] > 0})]
  /\ UNCHANGED walk

Delete(i) ==
  /\ i \in rows
  /\ rows' = rows \ {i}
  /\ walk' = [walk EXCEPT !.stable = @ \ {i}]
  /\ UNCHANGED born

Next ==
  \/ \E limit \in Limits : FullPage(limit) \/ LastPage(limit)
  \/ Start
  \/ \E i \in Ids : Insert(i) \/ Delete(i)

Spec == Init /\ [][Next]_vars
------------------------------------------------------------------------------
\* Pages do not overlap and come in the order of the list, whatever is
\* inserted or deleted between two of them: no row is shown twice.
PagesInOrder == \A i \in walk.got, j \in walk.page : Before(i, j)

\* A walk that has ended has shown every row that was there all the time,
\* with any mixture of limits.
NothingMissed == walk.pc = "done" => walk.stable \subseteq walk.got \cup walk.page

\* Of two rows, the one created later is shown first.
NewestFirst == \A i \in walk.got, j \in walk.page : born[i] > born[j]
==============================================================================
