-------------------------- MODULE CommunitiesProofs --------------------------
(***************************************************************************)
(* Proofs about Communities for any number of documents and operations: an *)
(* operation that nothing overlaps leaves fresh communities with their     *)
(* reports, and a document that such a deletion has removed with its       *)
(* chunks never comes back.                                                *)
(***************************************************************************)
EXTENDS Communities, TLAPS

\* While an operation is alone no other is under way.
AloneOK == \A o, p \in Ops : op[o].alone /\ o # p => ~Active(p)

\* What an operation has in its hands; one that is not under way has nothing.
OpOK(o) ==
  /\ ~Active(o) => op[o].seen = {} /\ op[o].done = {}
  /\ op[o].pc \in {"replace", "write", "graph", "chunks", "row"} => op[o].one \in Docs
  /\ op[o].pc \in {"replace", "write"} => op[o].done = {} /\ op[o].one \notin forgotten
  /\ \A d \in op[o].done : doc[d] = "gone"
  /\ At(o, "upsert") => \A c \in op[o].seen : c \cap forgotten = {}
  \* Alone it has the graph to itself.
  /\ op[o].alone =>
       /\ op[o].pc \notin {"prewarm", "reports", "done"} => graph \cap op[o].done = {}
       /\ op[o].pc \in {"chunks", "row"} /\ op[o].ids => op[o].one \notin graph
       /\ At(o, "upsert") => op[o].seen = Detect(graph)
       /\ Stored(o) => comms = Detect(graph)
       /\ At(o, "reports") => op[o].seen = comms \ reports
       /\ At(o, "done") => comms \subseteq reports

OpsOK == \A o \in Ops : OpOK(o)

\* What was forgotten is gone from the rows as well, so nobody imports it again.
ForgottenOK == (\A d \in forgotten : doc[d] = "gone") /\ QuietDeleteForgets

IInv == TypeOK /\ AloneOK /\ OpsOK /\ ForgottenOK
------------------------------------------------------------------------------
\* A step of one operation leaves the others as they are: none of them is alone, and
\* those that are not under way have nothing that could be forgotten.
LEMMA OthersStay ==
  ASSUME IInv, NEW o \in Ops, Active(o), \A p \in Ops \ {o} : op'[p] = op[p],
         op'[o].alone = op[o].alone,
         \A d \in Docs : doc[d] = "gone" => doc'[d] = "gone",
         forgotten' = forgotten \/ op[o].alone
  PROVE  AloneOK' /\ \A p \in Ops \ {o} : OpOK(p)'
<1>1. AloneOK'
  BY DEF IInv, AloneOK, Active
<1>2. ASSUME NEW p \in Ops \ {o} PROVE OpOK(p)'
  <2>1. ~op[p].alone /\ OpOK(p) /\ (op[o].alone => ~Active(p)) /\ op'[p] = op[p]
    BY DEF IInv, AloneOK, OpsOK
  <2>2. op[p].done \subseteq Docs
    BY DEF IInv, TypeOK, Op
  <2> QED
    BY <2>1, <2>2 DEF OpOK, Active, At
<1> QED
  BY <1>1, <1>2

\* The operation of a step after it.
LEMMA OpAfter ==
  ASSUME TypeOK, NEW o \in Ops, NEW r \in Op, op' = [op EXCEPT ![o] = r]
  PROVE  op' \in [Ops -> Op] /\ op'[o] = r /\ \A p \in Ops \ {o} : op'[p] = op[p]
BY DEF TypeOK

\* An operation that ends has nothing any more.
LEMMA EndStays ==
  ASSUME TypeOK, NEW o \in Ops, NEW pc \in {"done", "failed"}, End(o, pc)
  PROVE  /\ op' \in [Ops -> Op] /\ \A p \in Ops \ {o} : op'[p] = op[p]
         /\ op'[o] = [Idle EXCEPT !.pc = pc, !.alone = op[o].alone]
<1>1. [Idle EXCEPT !.pc = pc, !.alone = op[o].alone] \in Op
  BY DEF TypeOK, Op, Idle
<1> QED
  BY <1>1, OpAfter DEF End

\* An operation begins: it alone may be alone.
LEMMA BeginInv ==
  ASSUME IInv, NEW o \in Ops, NEW r \in Op, Begin(o, r),
         r.seen = {}, r.done = {}, r.pc \in {"replace", "list", "snapshot"},
         r.pc = "replace" => r.one \in Docs /\ doc[r.one] = "row"
  PROVE  IInv'
<1> DEFINE r1 == [r EXCEPT !.alone = \A q \in Ops : ~Active(q)]
<1>0. UNCHANGED <<doc, chunks, graph, comms, reports, forgotten>>
  BY DEF Begin
<1>1. r1 \in Op /\ r1.pc = r.pc /\ r1.seen = {} /\ r1.done = {} /\ r1.one = r.one
      /\ r1.alone = \A q \in Ops : ~Active(q)
  BY DEF Op
<1>2. /\ op'[o] = r1
      /\ \A p \in Ops \ {o} : op'[p] = [op[p] EXCEPT !.alone = FALSE]
      /\ op' = [p \in Ops |-> IF p = o THEN r1 ELSE [op[p] EXCEPT !.alone = FALSE]]
  BY DEF Begin
<1> HIDE DEF r1
<1>3. \A p \in Ops : op[p] \in Op /\ [op[p] EXCEPT !.alone = FALSE] \in Op
  BY DEF IInv, TypeOK, Op
<1>4. op' \in [Ops -> Op]
  BY <1>1, <1>2, <1>3
<1>5. TypeOK'
  BY <1>0, <1>4 DEF IInv, TypeOK
<1>6. \A p \in Ops \ {o} : /\ op'[p].pc = op[p].pc /\ op'[p].one = op[p].one /\ op'[p].ids = op[p].ids
                           /\ op'[p].done = op[p].done /\ op'[p].seen = op[p].seen /\ ~op'[p].alone
  BY <1>2, <1>3 DEF Op
<1>7. AloneOK'
  BY <1>1, <1>2, <1>6 DEF AloneOK, Active
<1>8. \A p \in Ops \ {o} : OpOK(p)'
  BY <1>0, <1>6 DEF IInv, OpsOK, OpOK, Active, At
<1>9. OpOK(o)'
  BY <1>0, <1>1, <1>2 DEF IInv, ForgottenOK, OpOK, Active, At, Stored
<1> QED
  BY <1>0, <1>5, <1>7, <1>8, <1>9 DEF IInv, OpsOK, ForgottenOK, QuietDeleteForgets

\* Each step of an operation that is under way.
LEMMA StepInv ==
  ASSUME IInv, NEW o \in Ops, Step(o)
  PROVE  IInv'
<1> USE CommunityAssumption
<1>a. op[o] \in Op /\ OpOK(o) /\ TypeOK /\ ForgottenOK
  BY DEF IInv, TypeOK, OpsOK
<1>0. CASE ReplaceChunks(o)
  <2> DEFINE d == op[o].one
             r == [op[o] EXCEPT !.pc = "write"]
  <2>0. /\ Active(o) /\ d \in Docs /\ op[o].pc = "replace" /\ chunks' = chunks \cup {d}
        /\ graph' \subseteq graph
        /\ UNCHANGED <<doc, comms, reports, forgotten>> /\ op' = [op EXCEPT ![o] = r]
    BY <1>0, <1>a DEF ReplaceChunks, Active, At, Goto, OpOK
  <2>1. r \in Op /\ r.pc = "write" /\ r.done = op[o].done /\ r.alone = op[o].alone /\ r.one = d
    BY <1>a, <2>0 DEF Op
  <2> HIDE DEF r
  <2>2. op' \in [Ops -> Op] /\ op'[o] = r /\ \A p \in Ops \ {o} : op'[p] = op[p]
    BY <1>a, <2>0, <2>1, OpAfter
  <2>3. AloneOK' /\ \A p \in Ops \ {o} : OpOK(p)'
    BY <2>0, <2>1, <2>2, OthersStay
  <2>4. OpOK(o)'
    BY <1>a, <2>0, <2>1, <2>2 DEF OpOK, Active, At, Stored
  <2>5. TypeOK'
    BY <1>a, <2>0, <2>2 DEF TypeOK
  <2>6. ForgottenOK'
    BY <1>a, <2>0 DEF ForgottenOK, QuietDeleteForgets
  <2> QED
    BY <2>2, <2>3, <2>4, <2>5, <2>6 DEF IInv, OpsOK
<1>1. CASE WriteGraph(o)
  <2> DEFINE r == [op[o] EXCEPT !.pc = "snapshot"]
  <2>0. /\ Active(o) /\ op[o].one \in Docs \ forgotten /\ graph' = graph \cup {op[o].one}
        /\ UNCHANGED <<doc, chunks, comms, reports, forgotten>> /\ op' = [op EXCEPT ![o] = r]
        /\ op[o].done = {}
    BY <1>1, <1>a DEF WriteGraph, Active, At, Goto, OpOK
  <2>1. r \in Op /\ r.pc = "snapshot" /\ r.done = {} /\ r.alone = op[o].alone
    BY <1>a, <2>0 DEF Op
  <2> HIDE DEF r
  <2>2. op' \in [Ops -> Op] /\ op'[o] = r /\ \A p \in Ops \ {o} : op'[p] = op[p]
    BY <1>a, <2>0, <2>1, OpAfter
  <2>3. AloneOK' /\ \A p \in Ops \ {o} : OpOK(p)'
    BY <2>0, <2>1, <2>2, OthersStay
  <2>4. OpOK(o)'
    BY <2>0, <2>1, <2>2 DEF OpOK, Active, At, Stored
  <2>5. TypeOK'
    BY <1>a, <2>0, <2>2 DEF TypeOK
  <2>6. ForgottenOK'
    BY <1>a, <2>0 DEF ForgottenOK, QuietDeleteForgets
  <2> QED
    BY <2>2, <2>3, <2>4, <2>5, <2>6 DEF IInv, OpsOK
<1>2. CASE List(o)
  <2>0. PICK d \in op[o].todo :
          op' = [op EXCEPT ![o].pc = "graph", ![o].one = d, ![o].ids = d \in chunks]
    BY <1>2 DEF List
  <2> DEFINE found == d \in chunks
  <2>a. found \in BOOLEAN /\ found = (d \in chunks)
    OBVIOUS
  <2> HIDE DEF found
  <2> DEFINE r == [op[o] EXCEPT !.pc = "graph", !.one = d, !.ids = found]
  <2>1. /\ Active(o) /\ d \in Docs /\ op[o].pc = "list"
        /\ UNCHANGED <<doc, chunks, graph, comms, reports, forgotten>>
    BY <1>2, <1>a, <2>0 DEF List, Active, At, Op
  <2>b. op' = [op EXCEPT ![o] = r]
    <3>1. op' = [op EXCEPT ![o].pc = "graph", ![o].one = d, ![o].ids = found]
      BY <2>0 DEF found
    <3> QED
      BY <3>1, <1>a DEF Op, TypeOK
  <2>2. /\ r \in Op /\ r.pc = "graph" /\ r.one = d /\ r.done = op[o].done
        /\ r.alone = op[o].alone /\ op' = [op EXCEPT ![o] = r]
    BY <1>a, <2>a, <2>b, <2>1 DEF Op
  <2> HIDE DEF r
  <2>3. op' \in [Ops -> Op] /\ op'[o] = r /\ \A p \in Ops \ {o} : op'[p] = op[p]
    BY <1>a, <2>2, OpAfter
  <2>4. AloneOK' /\ \A p \in Ops \ {o} : OpOK(p)'
    BY <2>1, <2>2, <2>3, OthersStay
  <2>5. OpOK(o)'
    BY <1>a, <2>1, <2>2, <2>3 DEF OpOK, Active, At, Stored
  <2> QED
    BY <1>a, <2>1, <2>3, <2>4, <2>5 DEF IInv, OpsOK, TypeOK, ForgottenOK, QuietDeleteForgets
<1>3. CASE RemoveGraph(o)
  <2> DEFINE d == op[o].one
             r == [op[o] EXCEPT !.pc = "chunks"]
  <2>1. /\ Active(o) /\ d \in Docs /\ op[o].pc = "graph" /\ op' = [op EXCEPT ![o] = r]
        /\ graph' = IF op[o].ids THEN graph \ {d} ELSE graph
        /\ UNCHANGED <<doc, chunks, comms, reports, forgotten>>
    BY <1>3, <1>a DEF RemoveGraph, Active, At, Goto, OpOK
  <2>2. /\ r \in Op /\ r.pc = "chunks" /\ r.one = d /\ r.ids = op[o].ids
        /\ r.done = op[o].done /\ r.alone = op[o].alone
    BY <1>a, <2>1 DEF Op
  <2> HIDE DEF r
  <2>3. op' \in [Ops -> Op] /\ op'[o] = r /\ \A p \in Ops \ {o} : op'[p] = op[p]
    BY <1>a, <2>1, <2>2, OpAfter
  <2>4. AloneOK' /\ \A p \in Ops \ {o} : OpOK(p)'
    BY <2>1, <2>2, <2>3, OthersStay
  <2>5. OpOK(o)'
    BY <1>a, <2>1, <2>2, <2>3 DEF OpOK, Active, At, Stored
  <2>6. TypeOK'
    BY <1>a, <2>1, <2>3 DEF TypeOK
  <2>7. ForgottenOK'
    BY <1>a, <2>1 DEF ForgottenOK, QuietDeleteForgets
  <2> QED
    BY <2>3, <2>4, <2>5, <2>6, <2>7 DEF IInv, OpsOK
<1>9. CASE RemoveChunks(o)
  <2> DEFINE r == [op[o] EXCEPT !.pc = "row"]
  <2>1. /\ Active(o) /\ op[o].pc = "chunks" /\ op' = [op EXCEPT ![o] = r]
        /\ chunks' \subseteq chunks /\ UNCHANGED <<doc, graph, comms, reports, forgotten>>
    BY <1>9 DEF RemoveChunks, Active, At, Goto
  <2>2. /\ r \in Op /\ r.pc = "row" /\ r.one = op[o].one /\ r.ids = op[o].ids
        /\ r.done = op[o].done /\ r.alone = op[o].alone
    BY <1>a, <2>1 DEF Op
  <2> HIDE DEF r
  <2>3. op' \in [Ops -> Op] /\ op'[o] = r /\ \A p \in Ops \ {o} : op'[p] = op[p]
    BY <1>a, <2>1, <2>2, OpAfter
  <2>4. AloneOK' /\ \A p \in Ops \ {o} : OpOK(p)'
    BY <2>1, <2>2, <2>3, OthersStay
  <2>5. OpOK(o)'
    BY <1>a, <2>1, <2>2, <2>3 DEF OpOK, Active, At, Stored
  <2> QED
    BY <1>a, <2>1, <2>3, <2>4, <2>5 DEF IInv, OpsOK, TypeOK, ForgottenOK, QuietDeleteForgets
<1>10. CASE RemoveRow(o)
  <2> DEFINE d == op[o].one
             rest == op[o].todo \ {d}
             more == IF op[o].ids THEN op[o].done \cup {d} ELSE op[o].done
             r == [op[o] EXCEPT !.todo = rest, !.one = NoDoc, !.ids = FALSE, !.done = more,
                                !.pc = IF rest = {} THEN "snapshot" ELSE "list"]
  <2>1. /\ Active(o) /\ d \in Docs /\ doc' = [doc EXCEPT ![d] = "gone"]
        /\ UNCHANGED <<chunks, graph, comms, reports, forgotten>> /\ op[o].pc = "row"
    BY <1>10, <1>a DEF RemoveRow, Active, At, OpOK
  <2>2. op' = [op EXCEPT ![o] = r]
    BY <1>10, <1>a DEF RemoveRow, Op, TypeOK
  <2>3. /\ r \in Op /\ r.pc \in {"list", "snapshot"} /\ r.done = more
        /\ r.alone = op[o].alone
    BY <1>a, <2>1 DEF Op
  <2> HIDE DEF r
  <2>4. op' \in [Ops -> Op] /\ op'[o] = r /\ \A p \in Ops \ {o} : op'[p] = op[p]
    BY <1>a, <2>2, <2>3, OpAfter
  <2>5. \A e \in Docs : doc[e] = "gone" => doc'[e] = "gone"
    BY <1>a, <2>1 DEF TypeOK
  <2>6. AloneOK' /\ \A p \in Ops \ {o} : OpOK(p)'
    BY <2>1, <2>3, <2>4, <2>5, OthersStay
  <2>7. OpOK(o)'
    <3>1. \A e \in r.done : doc'[e] = "gone"
      BY <1>a, <2>1, <2>3, <2>5 DEF OpOK, TypeOK, Op
    <3>2. r.alone => graph \cap r.done = {}
      BY <1>a, <2>1, <2>3 DEF OpOK, At
    <3>3. r.pc = "list" \/ r.pc = "snapshot"
      BY <2>3
    <3> QED
      BY <2>1, <2>4, <3>1, <3>2, <3>3 DEF OpOK, Active, At, Stored
  <2>8. TypeOK'
    BY <1>a, <2>1, <2>4 DEF TypeOK
  <2>9. ForgottenOK'
    BY <1>a, <2>1, <2>5 DEF ForgottenOK, QuietDeleteForgets, TypeOK
  <2> QED
    BY <2>4, <2>6, <2>7, <2>8, <2>9 DEF IInv, OpsOK
<1>4. CASE Snapshot(o)
  <2> DEFINE r == [op[o] EXCEPT !.pc = "upsert", !.seen = Detect(graph)]
  <2>1. Active(o) /\ op[o].pc = "snapshot" /\ UNCHANGED <<doc, chunks, graph, comms, reports, forgotten>>
    BY <1>4 DEF Snapshot, Active, At
  <2>2. Detect(graph) \subseteq SUBSET Docs /\ \A c \in Detect(graph) : c \cap forgotten = {}
    BY <1>a DEF Detect, TypeOK, ForgottenOK, QuietDeleteForgets
  <2>3. /\ r \in Op /\ r.pc = "upsert" /\ r.seen = Detect(graph) /\ r.done = op[o].done
        /\ r.alone = op[o].alone
        /\ op' = [op EXCEPT ![o] = r]
    BY <1>4, <1>a, <2>2 DEF Snapshot, Op, TypeOK
  <2> HIDE DEF r
  <2>4. op' \in [Ops -> Op] /\ op'[o] = r /\ \A p \in Ops \ {o} : op'[p] = op[p]
    BY <1>a, <2>3, OpAfter
  <2>5. AloneOK' /\ \A p \in Ops \ {o} : OpOK(p)'
    BY <2>1, <2>3, <2>4, OthersStay
  <2>6. OpOK(o)'
    BY <1>a, <2>1, <2>2, <2>3, <2>4 DEF OpOK, Active, At, Stored, Detect
  <2> QED
    BY <1>a, <2>1, <2>4, <2>5, <2>6 DEF IInv, OpsOK, TypeOK, ForgottenOK, QuietDeleteForgets
<1>5. CASE Upsert(o)
  <2> DEFINE r == [op[o] EXCEPT !.pc = "prewarm"]
  <2>1. /\ Active(o) /\ op[o].pc = "upsert" /\ UNCHANGED <<doc, chunks, graph, reports>>
        /\ comms' = op[o].seen /\ op[o].seen \subseteq SUBSET Docs
        /\ forgotten' = IF op[o].alone THEN forgotten \cup op[o].done ELSE forgotten
    BY <1>5, <1>a DEF Upsert, Active, At, Op
  <2>2. /\ r \in Op /\ r.pc = "prewarm" /\ r.seen = op[o].seen /\ r.done = op[o].done
        /\ r.alone = op[o].alone
        /\ op' = [op EXCEPT ![o] = r]
    BY <1>5, <1>a DEF Upsert, Op, TypeOK, Goto
  <2> HIDE DEF r
  <2>3. op' \in [Ops -> Op] /\ op'[o] = r /\ \A p \in Ops \ {o} : op'[p] = op[p]
    BY <1>a, <2>2, OpAfter
  <2>4. AloneOK' /\ \A p \in Ops \ {o} : OpOK(p)'
    BY <2>1, <2>2, <2>3, OthersStay
  <2>5. OpOK(o)'
    BY <1>a, <2>1, <2>2, <2>3 DEF OpOK, Active, At, Stored
  <2>6. TypeOK'
    BY <1>a, <2>1, <2>3 DEF TypeOK, Op
  <2>7. ForgottenOK'
    <3>1. \A d \in forgotten' : doc'[d] = "gone"
      BY <1>a, <2>1 DEF ForgottenOK, OpOK
    <3>2. CASE op[o].alone
      <4>1. graph \cap op[o].done = {} /\ comms' = Detect(graph)
        BY <1>a, <2>1, <3>2 DEF OpOK, At
      <4>2. graph \cap forgotten = {}
        BY <1>a DEF ForgottenOK, QuietDeleteForgets
      <4> QED
        BY <2>1, <3>1, <3>2, <4>1, <4>2 DEF ForgottenOK, QuietDeleteForgets, Detect
    <3>3. CASE ~op[o].alone
      BY <1>a, <2>1, <3>1, <3>3 DEF ForgottenOK, QuietDeleteForgets, OpOK, At
    <3> QED
      BY <3>2, <3>3
  <2> QED
    BY <2>3, <2>4, <2>5, <2>6, <2>7 DEF IInv, OpsOK
<1>6. CASE Prewarm(o)
  <2> DEFINE r == [op[o] EXCEPT !.pc = "reports", !.seen = comms \ reports, !.done = {}]
  <2>1. Active(o) /\ op[o].pc = "prewarm" /\ UNCHANGED <<doc, chunks, graph, comms, reports, forgotten>>
    BY <1>6 DEF Prewarm, Active, At
  <2>2. /\ r \in Op /\ r.pc = "reports" /\ r.seen = comms \ reports /\ r.done = {}
        /\ r.alone = op[o].alone
        /\ op' = [op EXCEPT ![o] = r]
    BY <1>6, <1>a DEF Prewarm, Op, TypeOK
  <2> HIDE DEF r
  <2>3. op' \in [Ops -> Op] /\ op'[o] = r /\ \A p \in Ops \ {o} : op'[p] = op[p]
    BY <1>a, <2>2, OpAfter
  <2>4. AloneOK' /\ \A p \in Ops \ {o} : OpOK(p)'
    BY <2>1, <2>2, <2>3, OthersStay
  <2>5. OpOK(o)'
    BY <1>a, <2>1, <2>2, <2>3 DEF OpOK, Active, At, Stored, Detect
  <2> QED
    BY <1>a, <2>1, <2>3, <2>4, <2>5 DEF IInv, OpsOK, TypeOK, ForgottenOK, QuietDeleteForgets
<1>7. CASE WriteReports(o)
  <2>1. /\ Active(o) /\ op[o].pc = "reports" /\ UNCHANGED <<doc, chunks, graph, comms, forgotten>>
        /\ reports' = reports \cup op[o].seen /\ op[o].seen \subseteq SUBSET Docs /\ End(o, "done")
    BY <1>7, <1>a DEF WriteReports, Active, At, Op
  <2>2. /\ op' \in [Ops -> Op] /\ \A p \in Ops \ {o} : op'[p] = op[p]
        /\ op'[o] = [Idle EXCEPT !.pc = "done", !.alone = op[o].alone]
    BY <1>a, <2>1, EndStays
  <2>3. /\ op'[o].pc = "done" /\ op'[o].seen = {} /\ op'[o].done = {} /\ op'[o].alone = op[o].alone
    BY <2>2 DEF Idle
  <2>4. AloneOK' /\ \A p \in Ops \ {o} : OpOK(p)'
    BY <2>1, <2>2, <2>3, OthersStay
  <2>5. OpOK(o)'
    BY <1>a, <2>1, <2>3 DEF OpOK, Active, At, Stored, Detect
  <2> QED
    BY <1>a, <2>1, <2>2, <2>4, <2>5 DEF IInv, OpsOK, TypeOK, ForgottenOK, QuietDeleteForgets
<1>8. CASE Fails(o)
  <2>1. Active(o) /\ UNCHANGED <<doc, chunks, graph, comms, reports, forgotten>> /\ End(o, "failed")
    BY <1>8 DEF Fails
  <2>2. /\ op' \in [Ops -> Op] /\ \A p \in Ops \ {o} : op'[p] = op[p]
        /\ op'[o] = [Idle EXCEPT !.pc = "failed", !.alone = op[o].alone]
    BY <1>a, <2>1, EndStays
  <2>3. /\ op'[o].pc = "failed" /\ op'[o].seen = {} /\ op'[o].done = {} /\ op'[o].alone = op[o].alone
    BY <2>2 DEF Idle
  <2>4. AloneOK' /\ \A p \in Ops \ {o} : OpOK(p)'
    BY <2>1, <2>2, <2>3, OthersStay
  <2>5. OpOK(o)'
    BY <2>3 DEF OpOK, Active, At, Stored
  <2> QED
    BY <1>a, <2>1, <2>2, <2>4, <2>5 DEF IInv, OpsOK, TypeOK, ForgottenOK, QuietDeleteForgets
<1> QED
  BY <1>0, <1>1, <1>2, <1>3, <1>4, <1>5, <1>6, <1>7, <1>8, <1>9, <1>10 DEF Step

LEMMA InitInv == Init => IInv
<1> SUFFICES ASSUME Init PROVE IInv
  OBVIOUS
<1>1. TypeOK
  BY DEF Init, TypeOK, Idle, Op
<1>2. AloneOK /\ OpsOK
  BY DEF Init, AloneOK, OpsOK, OpOK, Idle, Active, At, Stored
<1>3. ForgottenOK
  BY DEF Init, ForgottenOK, QuietDeleteForgets
<1> QED
  BY <1>1, <1>2, <1>3 DEF IInv

LEMMA NextInv == IInv /\ [Next]_vars => IInv'
<1> SUFFICES ASSUME IInv, [Next]_vars PROVE IInv'
  OBVIOUS
<1>1. ASSUME NEW d \in Docs, Upload(d) PROVE IInv'
  <2>1. /\ UNCHANGED <<chunks, graph, comms, reports, op, forgotten>>
        /\ doc' \in [Docs -> {"new", "row", "gone"}]
        /\ \A e \in Docs : doc[e] = "gone" => doc'[e] = "gone"
    BY <1>1 DEF Upload, IInv, TypeOK
  <2>2. OpsOK'
    BY <2>1 DEF IInv, OpsOK, OpOK, Active, At, Stored, TypeOK, Op
  <2> QED
    BY <2>1, <2>2 DEF IInv, TypeOK, AloneOK, Active, ForgottenOK, QuietDeleteForgets
<1>2. ASSUME NEW o \in Ops, NEW d \in Docs, Claim(o, d) PROVE IInv'
  <2> DEFINE r == [Idle EXCEPT !.pc = "replace", !.one = d]
  <2>1. r \in Op /\ r.seen = {} /\ r.done = {} /\ r.pc = "replace" /\ r.one = d
    BY DEF Idle, Op
  <2>2. Begin(o, r) /\ doc[d] = "row"
    BY <1>2 DEF Claim
  <2> QED
    BY <2>1, <2>2, BeginInv
<1>3. ASSUME NEW o \in Ops, NEW docs \in SUBSET Docs, Delete(o, docs) PROVE IInv'
  <2> DEFINE r == [Idle EXCEPT !.todo = docs,
                               !.pc = IF docs = {} THEN "snapshot" ELSE "list"]
  <2>1. r \in Op /\ r.seen = {} /\ r.done = {} /\ r.pc \in {"list", "snapshot"}
    BY DEF Idle, Op
  <2>2. Begin(o, r)
    BY <1>3 DEF Delete
  <2> HIDE DEF r
  <2> QED
    BY <2>1, <2>2, BeginInv
<1>4. CASE UNCHANGED vars
  BY <1>4 DEF vars, IInv, TypeOK, AloneOK, OpsOK, OpOK, ForgottenOK, QuietDeleteForgets,
     Active, At, Stored
<1> QED
  BY <1>1, <1>2, <1>3, <1>4, StepInv DEF Next

\* The invariant holds at all times.
THEOREM CommunitiesCorrect == Spec => []IInv
BY InitInv, NextInv, PTL DEF Spec

\* The types hold at all times.
THEOREM TypeCorrect == Spec => []TypeOK
BY CommunitiesCorrect, PTL DEF IInv

\* One operation without another beside it heals what overlaps have left.
THEOREM FreshAfterAlone == Spec => []FreshWhenAlone
<1>1. IInv => FreshWhenAlone
  BY DEF IInv, OpsOK, OpOK, FreshWhenAlone
<1> QED
  BY <1>1, CommunitiesCorrect, PTL

\* Every community that such an operation leaves has its report.
THEOREM ReportsComplete == Spec => []ReportsFollow
<1>1. IInv => ReportsFollow
  BY DEF IInv, OpsOK, OpOK, ReportsFollow, ListCommunities, CommunityReport
<1> QED
  BY <1>1, CommunitiesCorrect, PTL

\* No later import, deletion or recomputation brings back a document that was
\* deleted with its chunks while nothing overlapped.
THEOREM DeletedStaysForgotten == Spec => []QuietDeleteForgets
<1>1. IInv => QuietDeleteForgets
  BY DEF IInv, ForgottenOK
<1> QED
  BY <1>1, CommunitiesCorrect, PTL
==============================================================================
