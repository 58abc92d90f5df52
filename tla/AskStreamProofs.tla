---------------------------- MODULE AskStreamProofs ----------------------------
(***************************************************************************)
(* Proofs about AskStream for any number of requests, owners, sessions and *)
(* pieces: the types, that messages go to sessions of the asker, that what *)
(* a client is told of is stored, that the handlers implement the          *)
(* Transcript, hence that sessions hold whole pairs only, and that the     *)
(* page shows the answer that was stored.                                  *)
(***************************************************************************)
EXTENDS AskStream, TLAPS

Stored(q) == \E m \in message : m.of = q

\* What a handler has done by the time it is at a step.
ReqOK(q) ==
  /\ req[q].pc \in {"idle", "mode", "answer", "ensure", "user"} => req[q].written = {}
  /\ At(q, "assistant") => \E m \in 1..seq : req[q].written = {<<m, "user">>}
  /\ At(q, "commit") =>
       \E m, n \in 1..seq : m < n /\ req[q].written = {<<m, "user">>, <<n, "assistant">>}
  /\ req[q].pc \in {"user", "assistant", "commit", "reply"} =>
       req[q].session \in Sessions /\ session[req[q].session] = req[q].owner
  /\ req[q].pc \in {"ensure", "user", "assistant", "commit", "reply"} => req[q].eof
  /\ req[q].pc # "ended" => req[q].status = 0
  /\ At(q, "reply") => Stored(q)
  /\ req[q].kind # "stream" /\ req[q].status = 200 => Stored(q)

\* No two requests have drawn one seq.
SeqOK ==
  /\ \A q \in Requests : \A w \in req[q].written : w[1] <= seq
  /\ \A p, q \in Requests : p # q =>
       \A v \in req[p].written, w \in req[q].written : v[1] # w[1]

\* A message was inserted by its request, which has its whole answer and is past
\* the commit; it is in a session of the asker.
MessageOK(m) ==
  /\ req[m.of].pc \in {"reply", "ended"}
  /\ session[m.session] = req[m.of].owner
  /\ Whole(m)
  /\ <<m.seq, m.role>> \in req[m.of].written

\* Frames are on their way on the open connection of the page only, and the end
\* that one of them tells, or that the page was told, is of a stored answer.
PageOK ==
  /\ page.req # NoRequest =>
       ~At(page.req, "idle") /\ page.ask # NoAsk /\ req[page.req].ask = page.ask
  /\ \A q \in Requests : wire[q] # << >> => q = page.req /\ Open(q)
  /\ \A q \in Requests : \A i \in DOMAIN wire[q] : wire[q][i].ev = "done" =>
       At(q, "ended") /\ wire[q][i].session = req[q].session /\ Stored(q)
  /\ page.session # NoSession => \E q \in Finished : Stored(q)

IInv ==
  /\ TypeOK /\ SeqOK /\ PageOK
  /\ \A q \in Requests : ReqOK(q)
  /\ \A m \in message : MessageOK(m)
------------------------------------------------------------------------------
Pc == {"idle", "mode", "answer", "ensure", "user", "assistant", "commit", "reply", "ended"}

\* A request whose fields are set one by one stays one.
LEMMA PcSet == ASSUME NEW r \in Req, NEW x \in Pc PROVE [r EXCEPT !.pc = x] \in Req
  BY DEF Req, Pc
LEMMA EofSet == ASSUME NEW r \in Req, NEW x \in BOOLEAN PROVE [r EXCEPT !.eof = x] \in Req
  BY DEF Req
LEMMA SentSet == ASSUME NEW r \in Req, NEW x \in 0..MaxPieces PROVE [r EXCEPT !.sent = x] \in Req
  BY DEF Req
LEMMA SessionSet == ASSUME NEW r \in Req, NEW x \in Sessions PROVE [r EXCEPT !.session = x] \in Req
  BY DEF Req
LEMMA StatusSet == ASSUME NEW r \in Req, NEW x \in {0, 200, 400} PROVE [r EXCEPT !.status = x] \in Req
  BY DEF Req
LEMMA KindSet == ASSUME NEW r \in Req, NEW x \in Kinds PROVE [r EXCEPT !.kind = x] \in Req
  BY DEF Req
LEMMA OwnerSet == ASSUME NEW r \in Req, NEW x \in Owners PROVE [r EXCEPT !.owner = x] \in Req
  BY DEF Req
LEMMA AskSet == ASSUME NEW r \in Req, NEW x \in 0..MaxAsks PROVE [r EXCEPT !.ask = x] \in Req
  BY DEF Req
LEMMA InboundSet ==
  ASSUME NEW r \in Req, NEW x \in Sessions \cup {NoSession}
  PROVE  [r EXCEPT !.inbound = x] \in Req
  BY DEF Req
LEMMA EndedSet == ASSUME NEW r \in Req PROVE Ended(r) \in Req
<1>1. PICK d \in Req : d = [r EXCEPT !.pc = "ended"]
  BY PcSet DEF Pc
<1>2. CASE r.status = 0
  <2>1. Ended(r) = [r EXCEPT !.pc = "ended", !.status = 200]
    BY <1>2 DEF Ended
  <2>2. [d EXCEPT !.status = 200] = [r EXCEPT !.pc = "ended", !.status = 200]
    BY <1>1 DEF Req
  <2>3. ASSUME NEW x \in Req PROVE [x EXCEPT !.status = 200] \in Req
    BY DEF Req
  <2>4. [d EXCEPT !.status = 200] \in Req
    BY <1>1, <2>3, Zenon
  <2> QED
    BY <2>1, <2>2, <2>4, Zenon
<1>3. CASE r.status # 0
  <2>1. Ended(r) = [r EXCEPT !.pc = "ended", !.status = r.status]
    BY <1>3 DEF Ended
  <2>2. [r EXCEPT !.pc = "ended", !.status = r.status] = [r EXCEPT !.pc = "ended"]
    BY DEF Req
  <2> QED
    BY <1>1, <2>1, <2>2
<1> QED
  BY <1>2, <1>3
LEMMA LinkSet ==
  ASSUME NEW r \in Req, NEW x \in {"none", "open", "broken", "closed"}
  PROVE  [r EXCEPT !.link = x] \in Req
  BY DEF Req
LEMMA LinkFields ==
  ASSUME NEW r \in Req, NEW x
  PROVE  LET e == [r EXCEPT !.link = x]
         IN  /\ e.pc = r.pc /\ e.ask = r.ask /\ e.owner = r.owner /\ e.kind = r.kind
             /\ e.session = r.session /\ e.sent = r.sent /\ e.eof = r.eof
             /\ e.written = r.written /\ e.status = r.status
  BY DEF Req
LEMMA WrittenSet ==
  ASSUME NEW r \in Req, NEW x \in SUBSET (Nat \X {"user", "assistant"})
  PROVE  [r EXCEPT !.written = x] \in Req
  BY DEF Req
------------------------------------------------------------------------------
\* What a handler step of request q does to the frames on their way: an end is
\* sent in the step of the reply only.
Frames(q) ==
  /\ wire' \in [Requests -> Seq(Frame)]
  /\ \A p \in Requests \ {q} : wire'[p] = wire[p]
  /\ wire'[q] # wire[q] => q = page.req /\ Open(q)
  /\ \A i \in DOMAIN wire'[q] :
       \/ i \in DOMAIN wire[q] /\ wire'[q][i] = wire[q][i]
       \/ wire'[q][i].ev # "done"
       \/ At(q, "reply") /\ wire'[q][i].session = req[q].session

\* What a handler step of request q leaves alone.
Moved(q) ==
  /\ req' \in [Requests -> Req] /\ \A p \in Requests \ {q} : req'[p] = req[p]
  /\ req[q].pc \notin {"idle", "ended"} /\ req'[q].pc # "idle"
  /\ req'[q].ask = req[q].ask /\ req'[q].owner = req[q].owner
  /\ req'[q].kind = req[q].kind /\ req'[q].link = req[q].link
  /\ req[q].pc \in {"commit", "reply"} =>
       /\ req'[q].pc \in {"reply", "ended"} /\ req'[q].session = req[q].session
       /\ req'[q].eof = req[q].eof /\ req'[q].sent = req[q].sent
       /\ req'[q].written = req[q].written
  /\ At(q, "reply") => req'[q].pc = "ended"
  /\ session' \in [Sessions -> Owners \cup {NoOwner}]
  /\ \A s \in Sessions : session[s] # NoOwner => session'[s] = session[s]
  /\ seq' \in Nat /\ seq' >= seq
  /\ UNCHANGED page
  /\ Frames(q)

\* What is sent is at the end of the stream.
LEMMA SendFrames ==
  ASSUME TypeOK, NEW q \in Requests, NEW f \in Frame,
         Send(q, f), f.ev = "done" => At(q, "reply") /\ f.session = req[q].session
  PROVE  Frames(q)
<1>1. wire[q] \in Seq(Frame) /\ wire \in [Requests -> Seq(Frame)]
  BY DEF TypeOK
<1>2. CASE wire' = wire
  BY <1>1, <1>2 DEF Frames
<1>3. CASE Open(q) /\ q = page.req /\ wire' = [wire EXCEPT ![q] = Append(wire[q], f)]
  <2>1. wire'[q] = Append(wire[q], f) /\ wire' \in [Requests -> Seq(Frame)]
        /\ \A p \in Requests \ {q} : wire'[p] = wire[p]
    BY <1>1, <1>3
  <2>2. \A i \in DOMAIN Append(wire[q], f) :
          Append(wire[q], f)[i] = f \/ (i \in DOMAIN wire[q] /\ Append(wire[q], f)[i] = wire[q][i])
    BY <1>1
  <2> QED
    BY <1>3, <2>1, <2>2 DEF Frames
<1> QED
  BY <1>2, <1>3 DEF Send

LEMMA QuietFrames == ASSUME TypeOK, NEW q \in Requests, UNCHANGED wire PROVE Frames(q)
  BY DEF TypeOK, Frames

\* A rejected request is over, with nothing but its pc and status changed.
LEMMA RejectMoves ==
  ASSUME TypeOK, NEW q \in Requests, Reject(q)
  PROVE  /\ req' \in [Requests -> Req] /\ \A p \in Requests \ {q} : req'[p] = req[p]
         /\ req'[q].pc = "ended" /\ req'[q].kind = req[q].kind
         /\ req'[q].ask = req[q].ask /\ req'[q].owner = req[q].owner
         /\ req'[q].link = req[q].link /\ req'[q].session = req[q].session
         /\ req'[q].eof = req[q].eof /\ req'[q].sent = req[q].sent
         /\ req'[q].written = req[q].written
         /\ req'[q].kind = "stream" \/ req'[q].status = 400
         /\ Frames(q)
<1>1. req[q] \in Req
  BY DEF TypeOK
<1>2. Ended(req[q]) \in Req /\ [Ended(req[q]) EXCEPT !.status = 400] \in Req
  BY <1>1, EndedSet, StatusSet
<1>3. CASE req[q].kind = "stream"
  <2>1. req' = [req EXCEPT ![q] = Ended(req[q])] /\ Send(q, [ev |-> "error"])
    BY <1>3 DEF Reject, Set
  <2>2. Frames(q)
    <3>1. [ev |-> "error"] \in Frame
      BY DEF Frame
    <3> QED
      BY <2>1, <3>1, SendFrames
  <2> QED
    BY <1>1, <1>2, <1>3, <2>1, <2>2 DEF Ended, TypeOK, Req
<1>4. CASE req[q].kind # "stream"
  <2>1. req' = [req EXCEPT ![q] = [Ended(req[q]) EXCEPT !.status = 400]] /\ UNCHANGED wire
    BY <1>4 DEF Reject, Set
  <2> QED
    BY <1>1, <1>2, <2>1, QuietFrames DEF Ended, TypeOK, Req
<1> QED
  BY <1>3, <1>4
------------------------------------------------------------------------------
(* What the step of one request leaves true of all others.                 *)

LEMMA OthersKeep ==
  ASSUME IInv, NEW q \in Requests, Moved(q), message \subseteq message'
  PROVE  \A p \in Requests \ {q} : ReqOK(p)'
<1> SUFFICES ASSUME NEW p \in Requests \ {q} PROVE ReqOK(p)'
  OBVIOUS
<1>1. req'[p] = req[p] /\ ReqOK(p) /\ seq \in Nat /\ seq' \in Nat /\ seq' >= seq
  BY DEF IInv, TypeOK, Moved
<1>2. Stored(p) => Stored(p)'
  BY DEF Stored
<1>3. req[p].owner # NoOwner
  BY AskAssumption DEF IInv, TypeOK, Req
<1>4. req[p].pc \in {"user", "assistant", "commit", "reply"} =>
        session'[req[p].session] = session[req[p].session]
  BY <1>1, <1>3 DEF Moved, ReqOK
<1>5. \A m \in 1..seq : m \in 1..seq'
  BY <1>1
<1> QED
  BY <1>1, <1>2, <1>4, <1>5 DEF ReqOK, At

LEMMA PageKeeps ==
  ASSUME IInv, NEW q \in Requests, Moved(q), message \subseteq message'
  PROVE  PageOK'
<1>1. \A p \in Requests : Stored(p) => Stored(p)' /\ req[p].pc \in {"reply", "ended"}
  BY DEF Stored, IInv, MessageOK
<1>2. \A p \in Requests : req'[p].ask = req[p].ask /\ req'[p].link = req[p].link
                          /\ (req[p].pc # "idle" => req'[p].pc # "idle")
  BY DEF Moved
<1>3. page' = page /\ (page.req # NoRequest => page.req \in Requests)
  BY DEF Moved, IInv, TypeOK, Page
<1>4. page'.req # NoRequest =>
        ~At(page.req, "idle")' /\ page'.ask # NoAsk /\ req'[page'.req].ask = page'.ask
  BY <1>2, <1>3 DEF IInv, PageOK, At
<1>5. \A p \in Requests : wire'[p] # << >> => p = page'.req /\ Open(p)'
  BY <1>2, <1>3 DEF IInv, PageOK, Open, Moved, Frames
<1>6. ASSUME NEW p \in Requests, NEW i \in DOMAIN wire'[p], wire'[p][i].ev = "done"
      PROVE  At(p, "ended")' /\ wire'[p][i].session = req'[p].session /\ Stored(p)'
  <2>1. CASE p # q
    BY <1>1, <1>6, <2>1 DEF IInv, PageOK, Moved, Frames, At
  <2>2. CASE p = q
    <3>1. At(q, "reply") /\ wire'[q][i].session = req[q].session
      BY <1>6, <2>2 DEF IInv, PageOK, Moved, Frames, At
    <3> QED
      BY <1>1, <2>2, <3>1 DEF IInv, ReqOK, Moved, At
  <2> QED
    BY <2>1, <2>2
<1>7. page'.session # NoSession => \E p \in Finished' : Stored(p)'
  <2> SUFFICES ASSUME page.session # NoSession PROVE \E p \in Finished' : Stored(p)'
    BY <1>3
  <2>1. PICK p \in Finished : Stored(p)
    BY DEF IInv, PageOK
  <2>2. p \in Requests /\ req'[p].session = req[p].session
    BY <1>1, <2>1 DEF Moved, Finished, OfPage
  <2> QED
    BY <1>1, <1>2, <1>3, <2>1, <2>2 DEF Finished, OfPage
<1> QED
  BY <1>4, <1>5, <1>6, <1>7 DEF PageOK

LEMMA MessagesKeep ==
  ASSUME IInv, NEW q \in Requests, Moved(q)
  PROVE  \A m \in message : MessageOK(m)'
<1> SUFFICES ASSUME NEW m \in message PROVE MessageOK(m)'
  OBVIOUS
<1>1. m.of \in Requests /\ m.session \in Sessions /\ MessageOK(m) /\ req[m.of].owner \in Owners
  BY DEF IInv, TypeOK, Message, Req
<1>2. session'[m.session] = session[m.session]
  BY <1>1, AskAssumption DEF Moved, MessageOK
<1>3. CASE m.of # q
  BY <1>1, <1>2, <1>3 DEF Moved, MessageOK, Whole
<1>4. CASE m.of = q
  BY <1>1, <1>2, <1>4 DEF Moved, MessageOK, Whole, At
<1> QED
  BY <1>3, <1>4

LEMMA SeqKeeps ==
  ASSUME IInv, NEW q \in Requests, Moved(q), req'[q].written = req[q].written
  PROVE  SeqOK'
<1>1. \A p \in Requests : req'[p].written = req[p].written
  BY DEF Moved
<1>2. seq \in Nat /\ seq' \in Nat /\ seq' >= seq
  BY DEF IInv, TypeOK, Moved
<1>3. \A p \in Requests : \A w \in req[p].written : w[1] \in Nat
  BY DEF IInv, TypeOK, Req
<1> QED
  BY <1>1, <1>2, <1>3 DEF IInv, SeqOK

\* A step of q that neither stores nor draws a seq keeps the invariant if q is as it should be.
LEMMA PlainStep ==
  ASSUME IInv, NEW q \in Requests, Moved(q), UNCHANGED message,
         req'[q].written = req[q].written, ReqOK(q)'
  PROVE  IInv'
<1>1. TypeOK'
  BY DEF IInv, TypeOK, Moved, Frames
<1>2. \A p \in Requests : ReqOK(p)'
  BY OthersKeep
<1>3. (\A m \in message : MessageOK(m))'
  BY MessagesKeep
<1> QED
  BY <1>1, <1>2, <1>3, PageKeeps, SeqKeeps DEF IInv
------------------------------------------------------------------------------
(* The steps of a handler.                                                 *)

\* A step that changes the record of q, before its commit.
LEMMA SetMoves ==
  ASSUME TypeOK, NEW q \in Requests, NEW r \in Req, Set(q, r), Frames(q), UNCHANGED page,
         req[q].pc \notin {"idle", "commit", "reply", "ended"}, r.pc # "idle",
         r.ask = req[q].ask, r.owner = req[q].owner, r.kind = req[q].kind, r.link = req[q].link,
         session' \in [Sessions -> Owners \cup {NoOwner}],
         \A s \in Sessions : session[s] # NoOwner => session'[s] = session[s],
         seq' \in Nat, seq' >= seq
  PROVE  Moved(q) /\ req'[q] = r
  BY DEF TypeOK, Set, Moved, At

LEMMA RejectInv ==
  ASSUME IInv, NEW q \in Requests, Reject(q), UNCHANGED <<session, message, seq, page>>,
         req[q].pc \notin {"idle", "reply", "ended"}
  PROVE  Moved(q) /\ IInv'
<1>1. TypeOK /\ seq \in Nat
  BY DEF IInv, TypeOK
<1>2. Moved(q)
  BY <1>1, RejectMoves DEF Moved, TypeOK, At
<1>3. req'[q].written = req[q].written /\ ReqOK(q)'
  BY <1>1, RejectMoves DEF ReqOK, At
<1> QED
  BY <1>2, <1>3, PlainStep

LEMMA AnswerInv ==
  ASSUME IInv, NEW q \in Requests,
         CheckMode(q) \/ Piece(q) \/ StreamEnds(q) \/ Answered(q) \/ AnswerFails(q)
  PROVE  Moved(q) /\ IInv'
<1>1. TypeOK /\ seq \in Nat /\ req[q] \in Req /\ ReqOK(q)
  BY DEF IInv, TypeOK
<1>2. /\ UNCHANGED <<session, message, seq, page>> /\ req[q].pc \in {"mode", "answer"}
      /\ session \in [Sessions -> Owners \cup {NoOwner}]
  BY <1>1 DEF CheckMode, Piece, StreamEnds, Answered, AnswerFails, At, TypeOK
<1>3. CASE Reject(q)
  BY <1>2, <1>3, RejectInv
<1>4. ASSUME NEW r \in Req, Set(q, r), Frames(q),
             r.pc = "answer" \/ (r.pc = "ensure" /\ r.eof),
             r.ask = req[q].ask, r.owner = req[q].owner, r.kind = req[q].kind,
             r.link = req[q].link, r.written = req[q].written, r.status = req[q].status
      PROVE  Moved(q) /\ IInv'
  <2>1. Moved(q) /\ req'[q] = r
    BY <1>1, <1>2, <1>4, SetMoves
  <2>2. ReqOK(q)'
    BY <1>1, <1>2, <1>4, <2>1 DEF ReqOK, At
  <2> QED
    BY <1>2, <1>4, <2>1, <2>2, PlainStep
<1>5. CASE Goto(q, "answer") /\ UNCHANGED wire
  <2>1. [req[q] EXCEPT !.pc = "answer"] \in Req
    BY <1>1 DEF Req
  <2>2. Set(q, [req[q] EXCEPT !.pc = "answer"]) /\ Frames(q)
    BY <1>1, <1>5, QuietFrames DEF Goto
  <2> QED
    BY <1>1, <1>4, <2>1, <2>2 DEF Req
<1>6. CASE Piece(q) /\ ~Reject(q)
  <2>1. [req[q] EXCEPT !.sent = @ + 1] \in Req /\ [ev |-> "token", piece |-> req[q].sent + 1] \in Frame
    BY <1>1, <1>6, AskAssumption DEF Req, Frame, Piece
  <2>2. Set(q, [req[q] EXCEPT !.sent = @ + 1]) /\ Frames(q)
    BY <1>1, <1>6, <2>1, SendFrames DEF Piece
  <2> QED
    BY <1>1, <1>4, <1>6, <2>1, <2>2 DEF Req, Piece, At
<1>7. CASE StreamEnds(q)
  <2> DEFINE r == [req[q] EXCEPT !.pc = "ensure", !.eof = TRUE]
  <2>1. r \in Req
    <3>1. r = [[req[q] EXCEPT !.pc = "ensure"] EXCEPT !.eof = TRUE]
      BY <1>1 DEF Req
    <3> QED
      BY <1>1, <3>1, PcSet, EofSet DEF Pc
  <2>2. Set(q, r) /\ Frames(q)
    BY <1>1, <1>7, QuietFrames DEF StreamEnds
  <2>3. r.pc = "ensure" /\ r.eof /\ r.ask = req[q].ask /\ r.owner = req[q].owner
        /\ r.kind = req[q].kind /\ r.link = req[q].link /\ r.written = req[q].written
        /\ r.status = req[q].status
    BY <1>1 DEF Req
  <2> HIDE DEF r
  <2> QED
    BY <1>4, <2>1, <2>2, <2>3
<1>8. CASE Answered(q)
  <2> DEFINE r == [req[q] EXCEPT !.pc = "ensure", !.sent = MaxPieces, !.eof = TRUE]
  <2>1. r \in Req
    <3>1. r = [[[req[q] EXCEPT !.pc = "ensure"] EXCEPT !.sent = MaxPieces] EXCEPT !.eof = TRUE]
      BY <1>1 DEF Req
    <3>2. MaxPieces \in 0..MaxPieces
      BY AskAssumption
    <3>3. [[req[q] EXCEPT !.pc = "ensure"] EXCEPT !.sent = MaxPieces] \in Req
      BY <1>1, <3>2, PcSet, SentSet DEF Pc
    <3> QED
      BY <3>1, <3>3, EofSet
  <2>2. Set(q, r) /\ Frames(q)
    BY <1>1, <1>8, QuietFrames DEF Answered
  <2>3. r.pc = "ensure" /\ r.eof /\ r.ask = req[q].ask /\ r.owner = req[q].owner
        /\ r.kind = req[q].kind /\ r.link = req[q].link /\ r.written = req[q].written
        /\ r.status = req[q].status
    BY <1>1 DEF Req
  <2> HIDE DEF r
  <2> QED
    BY <1>4, <2>1, <2>2, <2>3
<1> QED
  BY <1>3, <1>5, <1>6, <1>7, <1>8 DEF CheckMode, AnswerFails

\* The step finds or opens a session of the asker.
LEMMA EnsureMoves ==
  ASSUME IInv, NEW q \in Requests, EnsureSession(q)
  PROVE  /\ Moved(q) /\ req'[q].pc = "user" /\ req'[q].eof = req[q].eof
         /\ req'[q].written = req[q].written /\ req'[q].status = req[q].status
         /\ \E s \in Sessions :
              /\ req'[q].session = s /\ session'[s] = req[q].owner
              /\ \/ UNCHANGED session
                 \/ session[s] = NoOwner /\ session' = [session EXCEPT ![s] = req[q].owner]
<1>1. TypeOK /\ seq \in Nat /\ req[q] \in Req /\ session \in [Sessions -> Owners \cup {NoOwner}]
  BY DEF IInv, TypeOK
<1>2. PICK s \in Sessions :
        /\ IF Owned(q, req[q].inbound)
           THEN s = req[q].inbound /\ UNCHANGED session
           ELSE session[s] = NoOwner /\ session' = [session EXCEPT ![s] = req[q].owner]
        /\ Set(q, [req[q] EXCEPT !.pc = "user", !.session = s])
  BY DEF EnsureSession
<1>3. /\ session'[s] = req[q].owner /\ session' \in [Sessions -> Owners \cup {NoOwner}]
      /\ \A t \in Sessions : session[t] # NoOwner => session'[t] = session[t]
      /\ \/ UNCHANGED session
         \/ session[s] = NoOwner /\ session' = [session EXCEPT ![s] = req[q].owner]
  BY <1>1, <1>2 DEF Owned, Req
<1> DEFINE r == [req[q] EXCEPT !.pc = "user", !.session = s]
<1>4. r \in Req
  <2>1. r = [[req[q] EXCEPT !.pc = "user"] EXCEPT !.session = s]
    BY <1>1 DEF Req
  <2>2. [req[q] EXCEPT !.pc = "user"] \in Req
    BY <1>1, PcSet DEF Pc
  <2> HIDE DEF r
  <2> QED
    BY <2>1, <2>2, SessionSet
<1>5. r.pc = "user" /\ r.session = s /\ r.eof = req[q].eof /\ r.ask = req[q].ask
      /\ r.owner = req[q].owner /\ r.kind = req[q].kind /\ r.link = req[q].link
      /\ r.written = req[q].written /\ r.status = req[q].status
  BY <1>1 DEF Req
<1>6. UNCHANGED <<seq, page>> /\ Frames(q) /\ At(q, "ensure") /\ Set(q, r)
  BY <1>1, <1>2, QuietFrames DEF EnsureSession
<1> HIDE DEF r
<1>7. Moved(q) /\ req'[q] = r
  BY <1>1, <1>3, <1>4, <1>5, <1>6, SetMoves DEF At
<1> QED
  BY <1>3, <1>5, <1>7

LEMMA EnsureInv ==
  ASSUME IInv, NEW q \in Requests, EnsureSession(q)
  PROVE  Moved(q) /\ IInv'
<1>1. ReqOK(q) /\ At(q, "ensure") /\ UNCHANGED message
  BY DEF IInv, EnsureSession
<1>2. ReqOK(q)'
  BY <1>1, EnsureMoves DEF ReqOK, Moved, At
<1> QED
  BY <1>1, <1>2, EnsureMoves, PlainStep

\* The seq of a message is greater than all that were drawn before.
LEMMA InsertInv ==
  ASSUME IInv, NEW q \in Requests, InsertUser(q) \/ InsertAssistant(q)
  PROVE  Moved(q) /\ IInv'
<1>1. TypeOK /\ seq \in Nat /\ req[q] \in Req /\ ReqOK(q)
      /\ session \in [Sessions -> Owners \cup {NoOwner}]
  BY DEF IInv, TypeOK
<1>2. PICK role \in {"user", "assistant"}, next \in {"assistant", "commit"} :
        Insert(q, role, next) /\ (role = "user") = (next = "assistant")
  BY DEF InsertUser, InsertAssistant
<1>3. UNCHANGED <<wire, session, message, page>> /\ At(q, role) /\ seq' = seq + 1 /\ Frames(q)
  BY <1>1, <1>2, QuietFrames DEF Insert
<1>4. DEFINE r == [req[q] EXCEPT !.pc = next, !.written = @ \cup {<<seq + 1, role>>}]
<1>5. r \in Req /\ r.pc = next /\ r.written = req[q].written \cup {<<seq + 1, role>>}
      /\ r.ask = req[q].ask /\ r.owner = req[q].owner /\ r.kind = req[q].kind /\ r.link = req[q].link
      /\ r.session = req[q].session /\ r.eof = req[q].eof /\ r.status = req[q].status
  <2> DEFINE w == req[q].written \cup {<<seq + 1, role>>}
  <2>1. r = [[req[q] EXCEPT !.pc = next] EXCEPT !.written = w]
    BY <1>1 DEF Req
  <2>2. [req[q] EXCEPT !.pc = next] \in Req
    BY <1>1, PcSet DEF Pc
  <2>3. r \in Req
    <3>1. w \in SUBSET (Nat \X {"user", "assistant"})
      BY <1>1 DEF Req
    <3> HIDE DEF w
    <3> QED
      BY <2>1, <2>2, <3>1, WrittenSet
  <2> QED
    BY <1>1, <2>3 DEF Req
<1>6. Set(q, r) /\ seq' \in Nat /\ seq' >= seq
  BY <1>1, <1>2, <1>3 DEF Insert
<1> HIDE DEF r
<1>7. Moved(q) /\ req'[q] = r
  BY <1>1, <1>3, <1>5, <1>6, SetMoves DEF At
<1>8. ReqOK(q)'
  <2>1. CASE role = "user"
    <3>1. next = "assistant" /\ r.written = {<<seq + 1, "user">>} /\ seq + 1 \in 1..seq'
      BY <1>1, <1>2, <1>3, <1>5, <2>1 DEF ReqOK, At
    <3> QED
      BY <1>1, <1>3, <1>5, <1>7, <2>1, <3>1 DEF ReqOK, At
  <2>2. CASE role = "assistant"
    <3>1. PICK m \in 1..seq : req[q].written = {<<m, "user">>}
      BY <1>1, <1>3, <2>2 DEF ReqOK, At
    <3>2. m \in 1..seq' /\ seq + 1 \in 1..seq' /\ m < seq + 1
      BY <1>1, <1>3, <3>1
    <3>3. next = "commit" /\ r.written = {<<m, "user">>, <<seq + 1, "assistant">>}
      BY <1>2, <1>5, <2>2, <3>1
    <3> QED
      BY <1>1, <1>3, <1>5, <1>7, <2>2, <3>2, <3>3 DEF ReqOK, At
  <2> QED
    BY <2>1, <2>2
<1>9. SeqOK'
  <2>1. \A p \in Requests : \A w \in req[p].written : w[1] \in Nat /\ w[1] <= seq
    BY DEF IInv, TypeOK, Req, SeqOK
  <2>2. \A p \in Requests : \A w \in req'[p].written :
          w \in req[p].written \/ (p = q /\ w[1] = seq + 1)
    BY <1>5, <1>7 DEF Moved
  <2>3. \A p \in Requests : \A w \in req'[p].written : w[1] <= seq'
    BY <1>1, <1>3, <2>1, <2>2
  <2>4. \A p, t \in Requests : p # t =>
          \A v \in req'[p].written, w \in req'[t].written : v[1] # w[1]
    BY <1>1, <2>1, <2>2 DEF IInv, SeqOK
  <2> QED
    BY <2>3, <2>4 DEF SeqOK
<1>10. TypeOK'
  BY <1>3, <1>7 DEF IInv, TypeOK, Moved, Frames
<1>11. (\A p \in Requests : ReqOK(p)) ' /\ (\A m \in message : MessageOK(m))' /\ PageOK'
  BY <1>3, <1>7, <1>8, OthersKeep, MessagesKeep, PageKeeps
<1> QED
  BY <1>7, <1>9, <1>10, <1>11 DEF IInv

\* The pair of a request at its commit.
LEMMA PairRows ==
  ASSUME IInv, NEW q \in Requests, At(q, "commit")
  PROVE  \E m, n \in 1..seq :
           LET x == [session |-> req[q].session, seq |-> m, role |-> "user", of |-> q, pieces |-> 0]
               y == [session |-> req[q].session, seq |-> n, role |-> "assistant", of |-> q,
                     pieces |-> req[q].sent]
           IN  /\ m < n /\ Rows(q) = {x, y} /\ Rows(q) \subseteq Message
               /\ req[q].written = {<<m, "user">>, <<n, "assistant">>}
<1>1. PICK m, n \in 1..seq : m < n /\ req[q].written = {<<m, "user">>, <<n, "assistant">>}
  BY DEF IInv, ReqOK
<1>2. req[q].session \in Sessions /\ req[q].sent \in 0..MaxPieces /\ 0 \in 0..MaxPieces /\ m \in Nat /\ n \in Nat
  BY AskAssumption DEF IInv, TypeOK, Req, ReqOK, At
<1> DEFINE x == [session |-> req[q].session, seq |-> m, role |-> "user", of |-> q, pieces |-> 0]
           y == [session |-> req[q].session, seq |-> n, role |-> "assistant", of |-> q,
                 pieces |-> req[q].sent]
<1>3. Rows(q) = {x, y}
  BY <1>1 DEF Rows
<1>4. x \in Message /\ y \in Message
  BY <1>2 DEF Message
<1> QED
  BY <1>1, <1>3, <1>4
\* The commit, or a failure that comes after it.
LEMMA StoreInv ==
  ASSUME IInv, NEW q \in Requests, At(q, "commit"), Moved(q), message' = message \cup Rows(q),
         req'[q].pc = "reply" => req'[q].status = 0, UNCHANGED <<session, seq>>
  PROVE  IInv'
<1>1. TypeOK /\ ReqOK(q) /\ req[q] \in Req
  BY DEF IInv, TypeOK
<1>2. PICK m, n \in 1..seq :
        /\ m < n /\ Rows(q) = {[session |-> req[q].session, seq |-> m, role |-> "user", of |-> q, pieces |-> 0],
                     [session |-> req[q].session, seq |-> n, role |-> "assistant", of |-> q,
                      pieces |-> req[q].sent]}
        /\ Rows(q) \subseteq Message
        /\ req[q].written = {<<m, "user">>, <<n, "assistant">>}
  BY PairRows
<1>3. TypeOK'
  BY <1>1, <1>2 DEF TypeOK, Moved, Frames
<1>4. Stored(q)'
  BY <1>2 DEF Stored
<1>5. /\ req'[q].written = req[q].written /\ req'[q].pc \in {"reply", "ended"}
      /\ req'[q].eof /\ req'[q].session = req[q].session /\ req'[q].owner = req[q].owner
      /\ req'[q].sent = req[q].sent /\ req[q].session \in Sessions
      /\ session[req[q].session] = req[q].owner
  BY <1>1 DEF Moved, At, ReqOK
<1>6. ReqOK(q)'
  BY <1>4, <1>5 DEF ReqOK, At
<1>7. \A x \in Rows(q) : MessageOK(x)'
  BY <1>2, <1>5 DEF MessageOK, Whole
<1>8. (\A x \in message : MessageOK(x))'
  BY <1>7, MessagesKeep
<1>9. (\A p \in Requests : ReqOK(p))'
  BY <1>6, OthersKeep
<1> QED
  BY <1>3, <1>5, <1>8, <1>9, PageKeeps, SeqKeeps DEF IInv

LEMMA CommitMoves ==
  ASSUME IInv, NEW q \in Requests, Commit(q)
  PROVE  Moved(q) /\ req'[q].pc = "reply" /\ req'[q].status = 0
<1>1. TypeOK /\ req[q] \in Req /\ req[q].status = 0 /\ At(q, "commit") /\ UNCHANGED <<wire, session, seq, page>>
  BY DEF IInv, TypeOK, ReqOK, Commit, At
<1> DEFINE r == [req[q] EXCEPT !.pc = "reply"]
<1>2. r \in Req
  BY <1>1, PcSet DEF Pc
<1>3. r.pc = "reply" /\ r.eof = req[q].eof /\ r.ask = req[q].ask /\ r.owner = req[q].owner
      /\ r.kind = req[q].kind /\ r.link = req[q].link /\ r.session = req[q].session
      /\ r.sent = req[q].sent /\ r.written = req[q].written /\ r.status = req[q].status
  BY <1>1 DEF Req
<1>4. req' = [req EXCEPT ![q] = r]
  BY DEF Commit, Goto, Set
<1>5. Frames(q)
  BY <1>1, QuietFrames
<1> HIDE DEF r
<1> QED
  BY <1>1, <1>2, <1>3, <1>4, <1>5 DEF TypeOK, Moved, At

LEMMA PersistInv ==
  ASSUME IInv, NEW q \in Requests, Commit(q) \/ PersistFails(q)
  PROVE  Moved(q) /\ IInv'
<1>1. CASE Commit(q)
  BY <1>1, CommitMoves, StoreInv DEF Commit
<1>2. CASE PersistFails(q) /\ UNCHANGED message
  BY <1>2, RejectInv DEF PersistFails
<1>3. CASE PersistFails(q) /\ At(q, "commit") /\ message' = message \cup Rows(q)
  <2>1. TypeOK /\ Reject(q) /\ UNCHANGED <<session, seq, page>> /\ ReqOK(q)
    BY <1>3 DEF IInv, PersistFails
  <2>2. Moved(q)
    BY <1>3, <2>1, RejectMoves DEF Moved, TypeOK, At
  <2>3. req'[q].pc = "ended"
    BY <2>1, RejectMoves
  <2> QED
    BY <1>3, <2>1, <2>2, <2>3, StoreInv
<1> QED
  BY <1>1, <1>2, <1>3 DEF PersistFails

\* The end that a client is told is of a stored answer.
LEMMA ReplyInv ==
  ASSUME IInv, NEW q \in Requests, Reply(q)
  PROVE  Moved(q) /\ IInv'
<1>1. TypeOK /\ ReqOK(q) /\ req[q] \in Req /\ At(q, "reply") /\ UNCHANGED <<session, message, seq, page>>
  BY DEF IInv, TypeOK, Reply
<1>2. req[q].session \in Sessions /\ Stored(q) /\ req[q].status = 0
  BY <1>1 DEF ReqOK, At
<1>3. PICK r \in Req : r = Ended(req[q])
  BY <1>1, EndedSet
<1>4. r.pc = "ended" /\ r.ask = req[q].ask /\ r.owner = req[q].owner
      /\ r.kind = req[q].kind /\ r.link = req[q].link /\ r.session = req[q].session
      /\ r.sent = req[q].sent /\ r.eof = req[q].eof /\ r.written = req[q].written
  BY <1>1, <1>3 DEF Ended, Req
<1>5. req' = [req EXCEPT ![q] = r]
  BY <1>3 DEF Reply, Set
<1>6. Frames(q)
  <2>1. CASE req[q].kind = "stream"
    <3>1. [ev |-> "done", session |-> req[q].session] \in Frame
      BY <1>2 DEF Frame
    <3> QED
      BY <1>1, <2>1, <3>1, SendFrames DEF Reply
  <2>2. CASE req[q].kind # "stream"
    BY <1>1, <2>2, QuietFrames DEF Reply
  <2> QED
    BY <2>1, <2>2
<1>7. Moved(q) /\ req'[q].pc = "ended" /\ req'[q].written = req[q].written
  BY <1>1, <1>3, <1>4, <1>5, <1>6 DEF TypeOK, Moved, At
<1>8. ReqOK(q)'
  BY <1>1, <1>2, <1>7 DEF ReqOK, At, Stored
<1> QED
  BY <1>1, <1>7, <1>8, PlainStep
------------------------------------------------------------------------------
(* The network and the page.                                               *)

\* A request that stays as it is but for its connection, and one that begins.
SameRun(p) ==
  /\ req'[p].pc = req[p].pc /\ req'[p].ask = req[p].ask /\ req'[p].owner = req[p].owner
  /\ req'[p].kind = req[p].kind /\ req'[p].session = req[p].session
  /\ req'[p].sent = req[p].sent /\ req'[p].eof = req[p].eof
  /\ req'[p].written = req[p].written /\ req'[p].status = req[p].status

Begins(p) ==
  /\ At(p, "idle") /\ req'[p].pc \in {"mode", "answer"}
  /\ req'[p].written = {} /\ req'[p].status = 0

LEMMA OutsideKeeps ==
  ASSUME IInv, UNCHANGED <<session, message, seq>>,
         \A p \in Requests : SameRun(p) \/ Begins(p)
  PROVE  SeqOK' /\ (\A p \in Requests : ReqOK(p))' /\ (\A m \in message : MessageOK(m))'
<1>1. \A p \in Requests : Stored(p)' = Stored(p)
  BY DEF Stored
<1>2. \A p \in Requests : ReqOK(p)'
  <2> SUFFICES ASSUME NEW p \in Requests PROVE ReqOK(p)'
    OBVIOUS
  <2>1. ReqOK(p)
    BY DEF IInv
  <2>2. CASE SameRun(p)
    BY <1>1, <2>1, <2>2 DEF SameRun, ReqOK, At
  <2>3. CASE Begins(p)
    BY <2>3 DEF Begins, ReqOK, At
  <2> QED
    BY <2>2, <2>3
<1>3. \A m \in message : MessageOK(m)'
  <2> SUFFICES ASSUME NEW m \in message PROVE MessageOK(m)'
    OBVIOUS
  <2>1. MessageOK(m) /\ m.of \in Requests
    BY DEF IInv, TypeOK, Message
  <2>2. SameRun(m.of)
    BY <2>1 DEF MessageOK, Begins, At
  <2> QED
    BY <2>1, <2>2 DEF SameRun, MessageOK, Whole
<1>4. \A p \in Requests : \A w \in req'[p].written : w \in req[p].written
  BY DEF SameRun, Begins
<1>5. SeqOK'
  BY <1>4 DEF IInv, SeqOK
<1> QED
  BY <1>2, <1>3, <1>5

\* Nothing is on its way, and the page is told no more than it was.
LEMMA SilentPage ==
  ASSUME IInv, UNCHANGED message, \A p \in Requests : SameRun(p) \/ Begins(p),
         \A p \in Requests : wire'[p] = << >> \/ (wire'[p] = wire[p] /\ req'[p].link = req[p].link /\ page'.req = page.req),
         page'.session # NoSession => page'.session = page.session /\ page'.ask = page.ask,
         page'.req # NoRequest =>
           req'[page'.req].pc # "idle" /\ page'.ask # NoAsk /\ req'[page'.req].ask = page'.ask
  PROVE  PageOK'
<1>1. \A p \in Requests : Stored(p) => Stored(p)' /\ SameRun(p)
  BY DEF Stored, IInv, MessageOK, Begins, At
<1>2. ASSUME NEW p \in Requests, wire'[p] # << >>
      PROVE  /\ wire'[p] = wire[p] /\ p = page'.req /\ Open(p)' /\ SameRun(p)
  BY <1>2, AskAssumption DEF IInv, PageOK, Open, Begins, At
<1>3. ASSUME NEW p \in Requests, NEW i \in DOMAIN wire'[p], wire'[p][i].ev = "done"
      PROVE  At(p, "ended")' /\ wire'[p][i].session = req'[p].session /\ Stored(p)'
  <2>1. wire'[p] # << >>
    BY <1>3
  <2>2. wire'[p] = wire[p] /\ SameRun(p)
    BY <1>2, <2>1
  <2> QED
    BY <1>1, <1>3, <2>2 DEF IInv, PageOK, SameRun, At
<1>4. page'.session # NoSession => \E p \in Finished' : Stored(p)'
  <2> SUFFICES ASSUME page'.session # NoSession PROVE \E p \in Finished' : Stored(p)'
    OBVIOUS
  <2>1. PICK p \in Finished : Stored(p)
    BY DEF IInv, PageOK
  <2> QED
    BY <1>1, <2>1 DEF Finished, OfPage, SameRun
<1> QED
  BY <1>2, <1>3, <1>4 DEF PageOK, At
------------------------------------------------------------------------------
\* A request begins.
LEMMA IdleSet ==
  ASSUME NEW k \in Kinds, NEW o \in Owners, NEW s \in Sessions \cup {NoSession},
         NEW a \in 0..MaxAsks, NEW pc \in {"mode", "answer"}
  PROVE  /\ IdleReq \in Req
         /\ [IdleReq EXCEPT !.pc = pc, !.kind = k, !.owner = o, !.inbound = s, !.link = "open"] \in Req
         /\ [IdleReq EXCEPT !.pc = pc, !.kind = k, !.ask = a, !.link = "open"] \in Req
<1>1. PICK r \in Req : r = IdleReq
  <2>1. 0 \in 0..MaxAsks /\ 0 \in 0..MaxPieces /\ PageOwner \in Owners
    BY AskAssumption
  <2>2. {} \in SUBSET (Nat \X {"user", "assistant"}) /\ "ask" \in Kinds
    BY DEF Kinds
  <2> QED
    BY <2>1, <2>2 DEF IdleReq, Req, NoAsk
<1>2. PICK t \in Req : t = [r EXCEPT !.pc = pc]
  BY <1>1, PcSet DEF Pc
<1>3. PICK u \in Req : u = [t EXCEPT !.kind = k]
  BY <1>2, KindSet
<1>4. [r EXCEPT !.pc = pc, !.kind = k, !.owner = o, !.inbound = s, !.link = "open"] \in Req
  <2>1. PICK v \in Req : v = [u EXCEPT !.owner = o]
    BY <1>3, OwnerSet
  <2>2. PICK w \in Req : w = [v EXCEPT !.inbound = s]
    BY <2>1, InboundSet
  <2>3. PICK x \in Req : x = [w EXCEPT !.link = "open"]
    BY <2>2, LinkSet
  <2>4. x = [r EXCEPT !.pc = pc, !.kind = k, !.owner = o, !.inbound = s, !.link = "open"]
    BY <1>2, <1>3, <2>1, <2>2, <2>3 DEF Req
  <2> QED
    BY <2>3, <2>4
<1>5. [r EXCEPT !.pc = pc, !.kind = k, !.ask = a, !.link = "open"] \in Req
  <2>1. PICK v \in Req : v = [u EXCEPT !.ask = a]
    BY <1>3, AskSet
  <2>2. PICK x \in Req : x = [v EXCEPT !.link = "open"]
    BY <2>1, LinkSet
  <2>3. x = [r EXCEPT !.pc = pc, !.kind = k, !.ask = a, !.link = "open"]
    BY <1>2, <1>3, <2>1, <2>2 DEF Req
  <2> QED
    BY <2>2, <2>3
<1> QED
  BY <1>1, <1>4, <1>5

LEMMA ApiAskInv ==
  ASSUME IInv, NEW q \in Requests, NEW k \in Kinds, NEW o \in Owners,
         NEW s \in Sessions \cup {NoSession}, ApiAsk(q, k, o, s)
  PROVE  IInv'
<1>1. TypeOK /\ req \in [Requests -> Req] /\ PageOK /\ At(q, "idle")
      /\ UNCHANGED <<wire, session, message, seq, page>>
  BY DEF IInv, TypeOK, ApiAsk
<1>2. PICK pc \in {"mode", "answer"} : pc = IF k = "graph" THEN "answer" ELSE "mode"
  OBVIOUS
<1> DEFINE r == [IdleReq EXCEPT !.pc = pc, !.kind = k, !.owner = o, !.inbound = s, !.link = "open"]
<1>3. r \in Req
  <2>1. 0 \in 0..MaxAsks
    BY AskAssumption
  <2> QED
    BY <2>1, IdleSet
<1>4. r.pc = pc /\ r.written = {} /\ r.status = 0
  BY DEF IdleReq
<1>5. req' = [req EXCEPT ![q] = r]
  BY <1>2 DEF ApiAsk, Set
<1> HIDE DEF r
<1>6. req' \in [Requests -> Req] /\ req'[q] = r /\ \A p \in Requests \ {q} : req'[p] = req[p]
  BY <1>1, <1>3, <1>5
<1>7. Begins(q) /\ \A p \in Requests : SameRun(p) \/ Begins(p)
  BY <1>1, <1>2, <1>4, <1>6 DEF Begins, SameRun
<1>8. page.req # NoRequest => page.req \in Requests /\ page.req # q
  BY <1>1 DEF PageOK, TypeOK, Page
<1>9. \A p \in Requests : wire'[p] = << >> \/ (wire'[p] = wire[p] /\ req'[p].link = req[p].link /\ page'.req = page.req)
  BY <1>1, <1>6, <1>8, AskAssumption DEF PageOK
<1>10. page'.req # NoRequest =>
         req'[page'.req].pc # "idle" /\ page'.ask # NoAsk /\ req'[page'.req].ask = page'.ask
  BY <1>1, <1>6, <1>8 DEF PageOK, At
<1>11. PageOK'
  BY <1>1, <1>7, <1>9, <1>10, SilentPage
<1>12. TypeOK'
  BY <1>1, <1>6 DEF TypeOK
<1> QED
  BY <1>1, <1>7, <1>11, <1>12, OutsideKeeps DEF IInv

\* A connection ends, by the network or at the end of its stream.
LEMMA LinkInv ==
  ASSUME IInv, NEW q \in Requests, NEW l \in {"broken", "closed"}, q = page.req,
         req' = [req EXCEPT ![q] = [req[q] EXCEPT !.link = l]], UNCHANGED <<session, message, seq>>,
         wire' \in [Requests -> Seq(Frame)], wire'[q] = << >>,
         \A p \in Requests \ {q} : wire'[p] = wire[p],
         page' \in Page, page'.req = page.req, page'.ask = page.ask, page'.session = page.session
  PROVE  IInv'
<1>1. TypeOK /\ req[q] \in Req /\ req \in [Requests -> Req] /\ PageOK
  BY DEF IInv, TypeOK
<1> DEFINE r == [req[q] EXCEPT !.link = l]
<1>2. r \in Req /\ r.pc = req[q].pc /\ r.ask = req[q].ask /\ r.owner = req[q].owner
      /\ r.kind = req[q].kind /\ r.session = req[q].session /\ r.sent = req[q].sent
      /\ r.eof = req[q].eof /\ r.written = req[q].written /\ r.status = req[q].status
  <2>1. r \in Req
    BY <1>1, LinkSet
  <2> QED
    BY <1>1, <2>1, LinkFields
<1> HIDE DEF r
<1>3. req' \in [Requests -> Req] /\ req'[q] = r /\ \A p \in Requests \ {q} : req'[p] = req[p]
  BY <1>1, <1>2 DEF r
<1>4. \A p \in Requests : SameRun(p)
  BY <1>2, <1>3 DEF SameRun
<1>5. page.req # NoRequest /\ ~At(q, "idle") /\ page.ask # NoAsk /\ req[q].ask = page.ask
  BY <1>1, AskAssumption DEF PageOK
<1>6. \A p \in Requests : wire'[p] = << >> \/ (wire'[p] = wire[p] /\ req'[p].link = req[p].link /\ page'.req = page.req)
  BY <1>3
<1>7. PageOK'
  BY <1>2, <1>3, <1>4, <1>5, <1>6, SilentPage DEF At
<1>8. TypeOK'
  BY <1>1, <1>3 DEF TypeOK
<1> QED
  BY <1>4, <1>7, <1>8, OutsideKeeps DEF IInv

LEMMA BreakInv == ASSUME IInv, NEW q \in Requests, Break(q) PROVE IInv'
<1>1. TypeOK /\ wire \in [Requests -> Seq(Frame)] /\ page \in Page /\ << >> \in Seq(Frame)
  BY DEF IInv, TypeOK
<1>2. /\ req' = [req EXCEPT ![q] = [req[q] EXCEPT !.link = "broken"]] /\ q = page.req
      /\ UNCHANGED <<session, message, seq, page>> /\ wire' = [wire EXCEPT ![q] = << >>]
  BY DEF Break
<1>3. wire' \in [Requests -> Seq(Frame)] /\ wire'[q] = << >> /\ \A p \in Requests \ {q} : wire'[p] = wire[p]
  BY <1>1, <1>2
<1> QED
  BY <1>1, <1>2, <1>3, LinkInv

LEMMA CloseInv == ASSUME IInv, Close PROVE IInv'
<1>1. TypeOK /\ wire \in [Requests -> Seq(Frame)] /\ page \in Page
  BY DEF IInv, TypeOK
<1>2. PICK q \in Requests : q = page.req /\ wire[q] = << >>
  BY <1>1 DEF Close, Page
<1>3. /\ req' = [req EXCEPT ![q] = [req[q] EXCEPT !.link = "closed"]]
      /\ UNCHANGED <<wire, session, message, seq>>
      /\ page' = [page EXCEPT !.running = FALSE, !.busy = FALSE]
  BY <1>2 DEF Close
<1>4. page' \in Page /\ page'.req = page.req /\ page'.ask = page.ask /\ page'.session = page.session
  BY <1>1, <1>3 DEF Page
<1> QED
  BY <1>1, <1>2, <1>3, <1>4, LinkInv

\* A new question, or the old one again: nothing is on its way any more.
LEMMA BeginInv ==
  ASSUME IInv, NEW q \in Requests, At(q, "idle"), NEW a \in 0..MaxAsks, a # NoAsk,
         UNCHANGED <<session, message, seq>>,
         req'[q] = [IdleReq EXCEPT !.pc = "mode", !.kind = "stream", !.ask = a, !.link = "open"],
         req' \in [Requests -> Req], \A p \in Requests \ {q} : SameRun(p),
         wire' \in [Requests -> Seq(Frame)], \A p \in Requests : wire'[p] = << >>,
         page' \in Page, page'.req = q, page'.ask = a,
         page'.session # NoSession => page'.session = page.session /\ page'.ask = page.ask
  PROVE  IInv'
<1>1. req'[q].pc = "mode" /\ req'[q].written = {} /\ req'[q].status = 0 /\ req'[q].ask = a
  BY DEF IdleReq
<1>2. \A p \in Requests : SameRun(p) \/ Begins(p)
  BY <1>1 DEF Begins
<1>3. PageOK'
  BY <1>1, <1>2, SilentPage
<1>4. TypeOK'
  BY DEF IInv, TypeOK
<1> QED
  BY <1>2, <1>3, <1>4, OutsideKeeps DEF IInv

\* Outside the page's open stream nothing is on its way.
LEMMA WireEmpty ==
  ASSUME IInv, NEW p \in Requests, p # page.req \/ ~Open(p)
  PROVE  wire[p] = << >>
  BY DEF IInv, PageOK

LEMMA RunInv == ASSUME IInv, NEW q \in Requests, Run(q) PROVE IInv'
<1>1. TypeOK /\ req \in [Requests -> Req] /\ page \in Page /\ wire \in [Requests -> Seq(Frame)]
      /\ << >> \in Seq(Frame)
  BY DEF IInv, TypeOK
<1>2. page.ask \in 0..MaxAsks /\ page.ask < MaxAsks /\ MaxAsks \in Nat /\ page.running \in BOOLEAN
  BY <1>1, AskAssumption DEF Run, Page
<1>3. PICK a \in 0..MaxAsks : a = page.ask + 1 /\ a # NoAsk
  BY <1>2 DEF NoAsk
<1>4. At(q, "idle") /\ UNCHANGED <<session, message, seq>>
  BY DEF Run
<1>5. page' = [ask |-> a, req |-> q, running |-> TRUE, busy |-> ~page.running,
               shown |-> << >>, session |-> NoSession, error |-> FALSE]
  BY <1>3 DEF Run
<1>6. page' \in Page
  BY <1>2, <1>5 DEF Page
<1>7. req' = [p \in Requests |->
                IF p = q THEN [IdleReq EXCEPT !.pc = "mode", !.kind = "stream", !.ask = a, !.link = "open"]
                ELSE IF p = page.req /\ Open(p) THEN [req[p] EXCEPT !.link = "broken"]
                ELSE req[p]]
  BY <1>3 DEF Run
<1>8. [IdleReq EXCEPT !.pc = "mode", !.kind = "stream", !.ask = a, !.link = "open"] \in Req
  <2>1. "stream" \in Kinds /\ PageOwner \in Owners
    BY AskAssumption DEF Kinds
  <2> QED
    BY <2>1, IdleSet
<1>9. \A p \in Requests : [req[p] EXCEPT !.link = "broken"] \in Req
  BY <1>1, LinkSet
<1>10. req' \in [Requests -> Req]
  BY <1>1, <1>7, <1>8, <1>9
<1>11. \A p \in Requests \ {q} : SameRun(p)
  BY <1>1, <1>7 DEF SameRun, Req
<1>12. wire' \in [Requests -> Seq(Frame)] /\ \A p \in Requests : wire'[p] = << >>
  BY <1>1, WireEmpty DEF Run
<1> QED
  BY <1>3, <1>4, <1>5, <1>6, <1>7, <1>10, <1>11, <1>12, BeginInv

LEMMA ReconnectInv == ASSUME IInv, NEW q \in Requests, Reconnect(q) PROVE IInv'
<1>1. TypeOK /\ req \in [Requests -> Req] /\ page \in Page /\ wire \in [Requests -> Seq(Frame)]
  BY DEF IInv, TypeOK
<1>2. PICK a \in 0..MaxAsks : a = page.ask /\ a # NoAsk
  BY <1>1 DEF Reconnect, Page, IInv, PageOK
<1>3. At(q, "idle") /\ UNCHANGED <<wire, session, message, seq>> /\ page' = [page EXCEPT !.req = q]
      /\ req' = [req EXCEPT ![q] = [IdleReq EXCEPT !.pc = "mode", !.kind = "stream", !.ask = a, !.link = "open"]]
  BY <1>2 DEF Reconnect, Set
<1>4. [IdleReq EXCEPT !.pc = "mode", !.kind = "stream", !.ask = a, !.link = "open"] \in Req
  <2>1. "stream" \in Kinds /\ PageOwner \in Owners
    BY AskAssumption DEF Kinds
  <2> QED
    BY <2>1, IdleSet
<1>5. req' \in [Requests -> Req] /\ \A p \in Requests \ {q} : req'[p] = req[p]
      /\ req'[q] = [IdleReq EXCEPT !.pc = "mode", !.kind = "stream", !.ask = a, !.link = "open"]
  BY <1>1, <1>3, <1>4
<1>6. page' \in Page /\ page'.req = q /\ page'.ask = a /\ page'.session = page.session
  BY <1>1, <1>2, <1>3 DEF Page
<1>7. \A p \in Requests : wire'[p] = << >>
  <2>1. \A p \in Requests : p # page.req \/ ~Open(p)
    BY DEF Reconnect, Open
  <2> QED
    BY <1>3, <2>1, WireEmpty
<1>8. \A p \in Requests \ {q} : SameRun(p)
  BY <1>5 DEF SameRun
<1> QED
  BY <1>1, <1>2, <1>3, <1>5, <1>6, <1>7, <1>8, BeginInv
\* The page takes a frame: the end, if it is one, is of a stored answer.
LEMMA ReceiveInv == ASSUME IInv, Receive PROVE IInv'
<1>1. TypeOK /\ page \in Page /\ wire \in [Requests -> Seq(Frame)] /\ PageOK
  BY DEF IInv, TypeOK
<1>2. PICK q \in Requests : q = page.req /\ Open(q) /\ wire[q] # << >>
  BY <1>1 DEF Receive, Page
<1>3. PICK f \in Frame : f = wire[q][1] /\ f = Head(wire[q])
  BY <1>1, <1>2
<1>4. UNCHANGED <<req, session, message, seq>> /\ wire' = [wire EXCEPT ![q] = Tail(wire[q])]
  BY <1>2 DEF Receive
<1>5. page' = CASE f.ev = "token" -> [page EXCEPT !.shown = Append(@, <<q, f.piece>>)]
                [] f.ev = "done" -> [page EXCEPT !.session = f.session]
                [] f.ev = "error" -> [page EXCEPT !.error = TRUE]
  BY <1>2, <1>3 DEF Receive
<1>6. \/ f.ev = "token" /\ f.piece \in 1..MaxPieces
      \/ f.ev = "done" /\ f.session \in Sessions
      \/ f.ev = "error"
  BY DEF Frame
<1>7. /\ page' \in Page /\ page'.req = page.req /\ page'.ask = page.ask
      /\ page'.session = page.session \/ (f.ev = "done" /\ page'.session = f.session)
  <2>1. CASE f.ev = "token"
    <3>1. page' = [page EXCEPT !.shown = Append(page.shown, <<q, f.piece>>)] /\ f.piece \in 1..MaxPieces
      BY <1>5, <1>6, <2>1
    <3>2. Append(page.shown, <<q, f.piece>>) \in Seq(Requests \X (1..MaxPieces))
      BY <1>1, <3>1 DEF Page
    <3> QED
      BY <1>1, <3>1, <3>2 DEF Page
  <2>2. CASE f.ev = "done"
    <3>1. page' = [page EXCEPT !.session = f.session] /\ f.session \in Sessions
      BY <1>5, <1>6, <2>2
    <3> QED
      BY <1>1, <2>2, <3>1 DEF Page
  <2>3. CASE f.ev = "error"
    <3>1. page' = [page EXCEPT !.error = TRUE]
      BY <1>5, <2>3
    <3> QED
      BY <1>1, <3>1 DEF Page
  <2> QED
    BY <1>6, <2>1, <2>2, <2>3
<1>8. /\ wire' \in [Requests -> Seq(Frame)] /\ \A p \in Requests \ {q} : wire'[p] = wire[p]
      /\ \A i \in DOMAIN wire'[q] : i + 1 \in DOMAIN wire[q] /\ wire'[q][i] = wire[q][i + 1]
  <2>1. wire[q] \in Seq(Frame)
    BY <1>1
  <2>2. /\ Tail(wire[q]) \in Seq(Frame)
        /\ \A i \in DOMAIN Tail(wire[q]) : i + 1 \in DOMAIN wire[q] /\ Tail(wire[q])[i] = wire[q][i + 1]
    BY <1>2, <2>1
  <2> QED
    BY <1>1, <1>4, <2>2
<1>9. PageOK'
  <2>1. \A p \in Requests : Stored(p)' = Stored(p) /\ (At(p, "ended"))' = At(p, "ended")
    BY <1>4 DEF Stored, At
  <2>2. page'.req # NoRequest =>
          req'[page'.req].pc # "idle" /\ page'.ask # NoAsk /\ req'[page'.req].ask = page'.ask
    BY <1>1, <1>4, <1>7 DEF PageOK, At
  <2>3. \A p \in Requests : wire'[p] # << >> => p = page'.req /\ Open(p)'
    BY <1>1, <1>2, <1>4, <1>7, <1>8 DEF PageOK, Open
  <2>4. ASSUME NEW p \in Requests, NEW i \in DOMAIN wire'[p], wire'[p][i].ev = "done"
        PROVE  At(p, "ended")' /\ wire'[p][i].session = req'[p].session /\ Stored(p)'
    BY <1>1, <1>4, <1>8, <2>1, <2>4 DEF PageOK
  <2>5. page'.session # NoSession => \E p \in Finished' : Stored(p)'
    <3>1. CASE page'.session = page.session
      BY <1>1, <1>4, <1>7, <2>1, <3>1 DEF PageOK, Finished, OfPage
    <3>2. CASE f.ev = "done" /\ page'.session = f.session
      <4>1. 1 \in DOMAIN wire[q]
        BY <1>1, <1>2
      <4>2. f.session = req[q].session /\ Stored(q)
        BY <1>1, <1>3, <3>2, <4>1 DEF PageOK
      <4>3. page.ask # NoAsk /\ req[q].ask = page.ask
        BY <1>1, <1>2, AskAssumption DEF PageOK
      <4> QED
        BY <1>4, <1>7, <2>1, <3>2, <4>2, <4>3 DEF Finished, OfPage
    <3> QED
      BY <1>7, <3>1, <3>2
  <2> QED
    BY <2>2, <2>3, <2>4, <2>5 DEF PageOK, At
<1>10. TypeOK'
  BY <1>1, <1>4, <1>7, <1>8 DEF TypeOK
<1>11. \A p \in Requests : SameRun(p)
  BY <1>4 DEF SameRun
<1> QED
  BY <1>4, <1>9, <1>10, <1>11, OutsideKeeps DEF IInv
------------------------------------------------------------------------------
(* The theorems.                                                           *)

LEMMA StepInv == ASSUME IInv, [Next]_vars PROVE IInv'
<1>1. ASSUME NEW q \in Requests, HandlerStep(q) PROVE IInv'
  BY <1>1, AnswerInv, EnsureInv, InsertInv, PersistInv, ReplyInv DEF HandlerStep
<1>2. CASE UNCHANGED vars
  <2>1. \A p \in Requests : ReqOK(p)' = ReqOK(p)
    BY <1>2 DEF vars, ReqOK, At, Stored
  <2>2. \A m \in message : MessageOK(m)' = MessageOK(m)
    BY <1>2 DEF vars, MessageOK, Whole
  <2>3. TypeOK' /\ SeqOK' /\ PageOK'
    BY <1>2 DEF vars, IInv, TypeOK, SeqOK, PageOK, At, Open, Stored, Finished, OfPage
  <2> QED
    BY <1>2, <2>1, <2>2, <2>3 DEF vars, IInv
<1> QED
  BY <1>1, <1>2, ApiAskInv, BreakInv, RunInv, ReconnectInv, ReceiveInv, CloseInv DEF Next, PageStep

LEMMA InitInv == ASSUME Init PROVE IInv
<1>1. TypeOK
  <2>1. IdleReq \in Req
    <3>1. "ask" \in Kinds /\ PageOwner \in Owners /\ NoSession \in Sessions \cup {NoSession}
          /\ 0 \in 0..MaxAsks
      BY AskAssumption DEF Kinds
    <3> QED
      BY <3>1, IdleSet
  <2>2. page \in Page
    <3>1. 0 \in 0..MaxAsks /\ << >> \in Seq(Requests \X (1..MaxPieces))
      BY AskAssumption
    <3> QED
      BY <3>1 DEF Init, Page, NoAsk
  <2> QED
    BY <2>1, <2>2 DEF Init, TypeOK
<1>2. \A q \in Requests : ReqOK(q)
  BY DEF Init, ReqOK, At, IdleReq
<1>3. SeqOK /\ PageOK
  BY DEF Init, SeqOK, PageOK, IdleReq
<1> QED
  BY <1>1, <1>2, <1>3 DEF Init, IInv

\* The invariant holds at all times.
THEOREM AskCorrect == Spec => []IInv
<1>1. Init => IInv
  BY InitInv
<1>2. IInv /\ [Next]_vars => IInv'
  BY StepInv
<1> QED
  BY <1>1, <1>2, PTL DEF Spec

\* The types hold at all times.
THEOREM TypeCorrect == Spec => []TypeOK
<1>1. IInv => TypeOK
  BY DEF IInv
<1> QED
  BY <1>1, AskCorrect, PTL

\* No message ever goes to a session of somebody else.
THEOREM SessionsOwn == Spec => []OnlyOwnSessions
<1>1. IInv => OnlyOwnSessions
  BY DEF IInv, OnlyOwnSessions, MessageOK
<1> QED
  BY <1>1, AskCorrect, PTL

\* What a client is told of can be read again.
THEOREM ToldIsStored == Spec => []ReportedIsStored
<1>1. ASSUME IInv PROVE ReportedIsStored
  <2>1. \A q \in Requests : Stored(q) => MessagesOf(q) # {}
    BY DEF Stored, MessagesOf
  <2>2. page.session # NoSession => \E q \in Finished : MessagesOf(q) # {}
    BY <1>1, <2>1 DEF IInv, PageOK, Finished, OfPage
  <2>3. \A q \in Requests : req[q].kind # "stream" /\ req[q].status = 200 => MessagesOf(q) # {}
    BY <1>1, <2>1 DEF IInv, ReqOK
  <2> QED
    BY <2>2, <2>3 DEF ReportedIsStored
<1> QED
  BY <1>1, AskCorrect, PTL
------------------------------------------------------------------------------
(* The handlers implement the Transcript.                                  *)

Entry(m) == [session |-> m.session, seq |-> m.seq, role |-> m.role, of |-> m.of, whole |-> TRUE]

\* All that is stored is whole.
LEMMA KeptIs == IInv => Kept = {Entry(m) : m \in message}
<1> SUFFICES ASSUME IInv PROVE Kept = {Entry(m) : m \in message}
  OBVIOUS
<1>1. \A m \in message : Whole(m) = TRUE
  BY DEF IInv, MessageOK, Whole
<1>2. \A m \in message : Entry(m) = [session |-> m.session, seq |-> m.seq, role |-> m.role,
                                     of |-> m.of, whole |-> Whole(m)]
  BY <1>1 DEF Entry
<1> QED
  BY <1>2 DEF Kept

LEMMA KeptNext == ASSUME IInv' PROVE Kept' = {Entry(m) : m \in message'}
<1>1. (IInv => Kept = {Entry(m) : m \in message})'
  BY KeptIs, PTL
<1> QED
  BY <1>1 DEF Entry

LEMMA KeptStays == ASSUME IInv, IInv', UNCHANGED message PROVE UNCHANGED Kept
  BY KeptIs, KeptNext

\* A handler step moves its own question on, at most to its end.
LEMMA MovedView ==
  ASSUME NEW q \in Requests, Moved(q)
  PROVE  /\ UNCHANGED Asker /\ Stage[q] = "asked" /\ Asker[q] = req[q].owner
         /\ Stage' = IF At(q, "ended")' THEN [Stage EXCEPT ![q] = "over"] ELSE Stage
<1>1. \A p \in Requests : (req'[p].pc = "idle") = (req[p].pc = "idle") /\ req'[p].owner = req[p].owner
  BY DEF Moved
<1>2. UNCHANGED Asker
  BY <1>1 DEF Asker, At
<1>3. Stage[q] = "asked" /\ Asker[q] = req[q].owner
  BY DEF Moved, Stage, Asker, At
<1>4. CASE At(q, "ended")'
  <2>1. \A p \in Requests : Stage'[p] = IF p = q THEN "over" ELSE Stage[p]
    BY <1>4 DEF Moved, Stage, At
  <2> QED
    BY <1>2, <1>3, <1>4, <2>1 DEF Stage
<1>5. CASE ~At(q, "ended")'
  <2>1. \A p \in Requests : Stage'[p] = Stage[p]
    BY <1>3, <1>5 DEF Moved, Stage, At
  <2> QED
    BY <1>2, <1>3, <1>5, <2>1 DEF Stage
<1> QED
  BY <1>4, <1>5

\* At a commit the pair of the request is kept.
LEMMA PairKept ==
  ASSUME IInv, IInv', NEW q \in Requests, At(q, "commit"), Moved(q),
         message' = message \cup Rows(q), UNCHANGED session
  PROVE  Ledger!Pair(q)
<1> DEFINE u(m) == [session |-> req[q].session, seq |-> m, role |-> "user", of |-> q, pieces |-> 0]
           v(n) == [session |-> req[q].session, seq |-> n, role |-> "assistant", of |-> q,
                    pieces |-> req[q].sent]
<1>1. PICK m, n \in 1..seq :
        m < n /\ Rows(q) = {u(m), v(n)} /\ req[q].written = {<<m, "user">>, <<n, "assistant">>}
  BY PairRows
<1> DEFINE x == [session |-> req[q].session, seq |-> m, role |-> "user", of |-> q, whole |-> TRUE]
           y == [session |-> req[q].session, seq |-> n, role |-> "assistant", of |-> q, whole |-> TRUE]
<1>2. Kept = {Entry(k) : k \in message}
  BY KeptIs
<1>3. Kept' = {Entry(k) : k \in message'}
  BY KeptNext
<1>4. Kept' = Kept \cup {x, y}
  <2>1. Entry(u(m)) = x /\ Entry(v(n)) = y
    BY DEF Entry
  <2> HIDE DEF u, v, x, y
  <2> QED
    BY <1>1, <1>2, <1>3, <2>1
<1>5. \A k \in message : k.of \in Requests /\ k.of # q /\ <<k.seq, k.role>> \in req[k.of].written
  BY DEF IInv, TypeOK, Message, MessageOK, At
<1>6. ASSUME NEW k \in message PROVE k.seq # m /\ k.seq # n
  <2>1. \A w \in req[q].written : <<k.seq, k.role>>[1] # w[1]
    BY <1>5 DEF IInv, SeqOK
  <2>2. <<k.seq, k.role>>[1] # <<m, "user">>[1] /\ <<k.seq, k.role>>[1] # <<n, "assistant">>[1]
    BY <1>1, <2>1
  <2> QED
    BY <2>2
<1>7. ASSUME NEW z \in Kept PROVE z.of # q /\ z.seq \notin {m, n}
  <2>1. PICK k \in message : z = Entry(k)
    BY <1>2
  <2>2. z.of = k.of /\ z.seq = k.seq
    BY <2>1 DEF Entry
  <2> QED
    BY <1>5, <1>6, <2>2
<1>8. session[req[q].session] = Asker[q] /\ Stage[q] = "asked" /\ UNCHANGED Asker
  BY MovedView DEF IInv, ReqOK, At
<1>10. req[q].session \in Sessions /\ m \in Nat /\ n \in Nat
  BY DEF IInv, TypeOK, ReqOK, At
<1>9. /\ x \in Kept' /\ y \in Kept' /\ Kept' = Kept \cup {x, y}
      /\ x.of = q /\ x.role = "user" /\ x.whole /\ y.of = q /\ y.role = "assistant" /\ y.whole
      /\ x.session = y.session /\ x.session \in Sessions /\ session[x.session] = Asker[q]
      /\ {x.seq, y.seq} \subseteq Nat /\ x.seq < y.seq
      /\ \A z \in Kept : z.seq \notin {x.seq, y.seq}
  BY <1>1, <1>4, <1>7, <1>8, <1>10
<1> HIDE DEF x, y
<1> QED
  BY <1>7, <1>8, <1>9 DEF Ledger!Pair

\* A new request asks.
LEMMA AskView ==
  ASSUME IInv, IInv', NEW q \in Requests, At(q, "idle"), ~At(q, "idle")', ~At(q, "ended")',
         \A p \in Requests \ {q} : SameRun(p), UNCHANGED <<session, message>>
  PROVE  Ledger!Ask(q)
<1>1. Stage[q] = "none" /\ Stage' = [Stage EXCEPT ![q] = "asked"]
  BY DEF Stage, At, SameRun
<1>2. Asker' = [Asker EXCEPT ![q] = req'[q].owner]
  BY DEF Asker, At, SameRun
<1>3. req'[q].owner \in Owners
  BY DEF IInv, TypeOK, Req
<1> QED
  BY <1>1, <1>2, <1>3, KeptStays DEF Ledger!Ask

\* Whatever happens to connections and on the page is not seen.
LEMMA SameView ==
  ASSUME IInv, IInv', \A p \in Requests : SameRun(p), UNCHANGED <<session, message>>
  PROVE  UNCHANGED <<Stage, Asker, session, Kept>>
<1>1. UNCHANGED <<Stage, Asker>>
  BY DEF Stage, Asker, At, SameRun
<1> QED
  BY <1>1, KeptStays
\* Each step of a handler is one of the Transcript, or is not seen.
LEMMA HandlerView ==
  ASSUME IInv, IInv', NEW q \in Requests, HandlerStep(q)
  PROVE  Ledger!Next \/ UNCHANGED <<Stage, Asker, session, Kept>>
<1>1. Moved(q)
  BY AnswerInv, EnsureMoves, InsertInv, PersistInv, ReplyInv DEF HandlerStep
<1>2. UNCHANGED Asker /\ Stage[q] = "asked" /\ Asker[q] = req[q].owner
      /\ Stage' = IF At(q, "ended")' THEN [Stage EXCEPT ![q] = "over"] ELSE Stage
  BY <1>1, MovedView
<1>3. CASE UNCHANGED <<session, message>>
  <2>1. UNCHANGED Kept
    BY <1>3, KeptStays
  <2> QED
    BY <1>2, <1>3, <2>1 DEF Ledger!Next, Ledger!End
<1>4. CASE EnsureSession(q)
  <2>1. ~At(q, "ended")' /\ UNCHANGED message
    BY <1>4, EnsureMoves DEF At, EnsureSession
  <2>2. UNCHANGED <<Stage, Kept>>
    BY <1>2, <2>1, KeptStays
  <2>3. CASE UNCHANGED session
    BY <1>2, <2>2, <2>3
  <2>4. ASSUME NEW s \in Sessions, session[s] = NoOwner, session' = [session EXCEPT ![s] = req[q].owner]
        PROVE  Ledger!Open(s)
    BY <1>2, <2>2, <2>4 DEF Ledger!Open
  <2> QED
    BY <1>4, <2>3, <2>4, EnsureMoves DEF Ledger!Next
<1>5. CASE At(q, "commit") /\ message' = message \cup Rows(q) /\ UNCHANGED session
  <2>1. Ledger!Pair(q)
    BY <1>1, <1>5, PairKept
  <2> QED
    BY <1>2, <2>1 DEF Ledger!Next, Ledger!Keep, Ledger!End
<1>6. CASE Commit(q) \/ PersistFails(q)
  BY <1>3, <1>5, <1>6 DEF Commit, PersistFails
<1>7. CASE CheckMode(q) \/ Piece(q) \/ StreamEnds(q) \/ Answered(q) \/ AnswerFails(q) \/ Reply(q)
  BY <1>3, <1>7 DEF CheckMode, Piece, StreamEnds, Answered, AnswerFails, Reply
<1>8. CASE InsertUser(q) \/ InsertAssistant(q)
  BY <1>3, <1>8 DEF InsertUser, InsertAssistant, Insert
<1> QED
  BY <1>4, <1>6, <1>7, <1>8 DEF HandlerStep

\* A request whose link may have changed.
LEMMA Relinked ==
  ASSUME TypeOK, NEW p \in Requests, NEW l,
         req'[p] = req[p] \/ req'[p] = [req[p] EXCEPT !.link = l]
  PROVE  SameRun(p)
<1>1. req[p] \in Req
  BY DEF TypeOK
<1>2. CASE req'[p] = req[p]
  BY <1>2 DEF SameRun
<1>3. CASE req'[p] = [req[p] EXCEPT !.link = l]
  BY <1>1, <1>3, LinkFields DEF SameRun
<1> QED
  BY <1>2, <1>3

LEMMA BeginView ==
  ASSUME IInv, IInv', NEW q \in Requests,
         Run(q) \/ Reconnect(q)
           \/ \E k \in Kinds, o \in Owners, s \in Sessions \cup {NoSession} : ApiAsk(q, k, o, s)
  PROVE  Ledger!Ask(q)
<1>1. At(q, "idle") /\ UNCHANGED <<session, message>> /\ req \in [Requests -> Req] /\ TypeOK
  BY DEF Run, Reconnect, ApiAsk, IInv, TypeOK
<1>2. /\ req'[q].pc \in {"mode", "answer"}
      /\ \A p \in Requests \ {q} : req'[p] = req[p] \/ req'[p] = [req[p] EXCEPT !.link = "broken"]
  <2>1. CASE Run(q)
    <3>1. req' = [p \in Requests |->
             IF p = q THEN [IdleReq EXCEPT !.pc = "mode", !.kind = "stream",
                                           !.ask = page.ask + 1, !.link = "open"]
             ELSE IF p = page.req /\ Open(p) THEN [req[p] EXCEPT !.link = "broken"]
             ELSE req[p]]
      BY <2>1 DEF Run
    <3>2. [IdleReq EXCEPT !.pc = "mode", !.kind = "stream", !.ask = page.ask + 1,
                          !.link = "open"].pc = "mode"
      BY DEF IdleReq
    <3> QED
      BY <3>1, <3>2
  <2>2. CASE Reconnect(q)
    <3>1. req' = [req EXCEPT ![q] = [IdleReq EXCEPT !.pc = "mode", !.kind = "stream",
                                                    !.ask = page.ask, !.link = "open"]]
      BY <2>2 DEF Reconnect, Set
    <3>2. [IdleReq EXCEPT !.pc = "mode", !.kind = "stream", !.ask = page.ask, !.link = "open"].pc = "mode"
      BY DEF IdleReq
    <3> QED
      BY <1>1, <3>1, <3>2
  <2>3. ASSUME NEW k \in Kinds, NEW o \in Owners, NEW s \in Sessions \cup {NoSession}, ApiAsk(q, k, o, s)
        PROVE  req'[q].pc \in {"mode", "answer"} /\ \A p \in Requests \ {q} : req'[p] = req[p]
    <3>1. PICK pc \in {"mode", "answer"} : pc = IF k = "graph" THEN "answer" ELSE "mode"
      OBVIOUS
    <3>2. req' = [req EXCEPT ![q] = [IdleReq EXCEPT !.pc = pc, !.kind = k, !.owner = o,
                                                    !.inbound = s, !.link = "open"]]
      BY <2>3, <3>1 DEF ApiAsk, Set
    <3>3. [IdleReq EXCEPT !.pc = pc, !.kind = k, !.owner = o, !.inbound = s, !.link = "open"].pc = pc
      BY DEF IdleReq
    <3> QED
      BY <1>1, <3>2, <3>3
  <2> QED
    BY <2>1, <2>2, <2>3
<1>3. \A p \in Requests \ {q} : SameRun(p)
  BY <1>1, <1>2, Relinked
<1> QED
  BY <1>1, <1>2, <1>3, AskView DEF At

LEMMA LinkView ==
  ASSUME IInv, IInv', Receive \/ Close \/ \E q \in Requests : Break(q)
  PROVE  UNCHANGED <<Stage, Asker, session, Kept>>
<1>1. UNCHANGED <<session, message>> /\ req \in [Requests -> Req] /\ TypeOK
  BY DEF Receive, Close, Break, IInv, TypeOK
<1>2. \A p \in Requests : SameRun(p)
  <2>1. CASE Receive
    BY <2>1 DEF Receive, SameRun
  <2>2. CASE Close
    <3>1. req' = [req EXCEPT ![page.req] = [req[page.req] EXCEPT !.link = "closed"]]
      BY <2>2 DEF Close
    <3>2. \A p \in Requests : req'[p] = req[p] \/ req'[p] = [req[p] EXCEPT !.link = "closed"]
      BY <1>1, <3>1
    <3> QED
      BY <1>1, <3>2, Relinked
  <2>3. ASSUME NEW q \in Requests, Break(q) PROVE \A p \in Requests : SameRun(p)
    <3>1. req' = [req EXCEPT ![q] = [req[q] EXCEPT !.link = "broken"]]
      BY <2>3 DEF Break
    <3>2. \A p \in Requests : req'[p] = req[p] \/ req'[p] = [req[p] EXCEPT !.link = "broken"]
      BY <1>1, <3>1
    <3> QED
      BY <1>1, <3>2, Relinked
  <2> QED
    BY <2>1, <2>2, <2>3
<1> QED
  BY <1>1, <1>2, SameView

\* Every step is one of the Transcript or is not seen: nothing is kept but whole
\* pairs, in sessions of the asker, for any number of requests and whatever fails.
THEOREM RefinesTranscript == Spec => ImplementsTranscript
<1>1. Init => Ledger!Init
  BY DEF Init, Ledger!Init, Stage, Asker, Kept, At, IdleReq
<1>2. IInv /\ IInv' /\ [Next]_vars => [Ledger!Next]_<<Stage, Asker, session, Kept>>
  <2> SUFFICES ASSUME IInv, IInv', [Next]_vars
               PROVE  Ledger!Next \/ UNCHANGED <<Stage, Asker, session, Kept>>
    OBVIOUS
  <2>1. CASE UNCHANGED vars
    BY <2>1 DEF vars, Stage, Asker, Kept, Whole, At
  <2>2. ASSUME NEW q \in Requests,
               Run(q) \/ Reconnect(q)
                 \/ \E k \in Kinds, o \in Owners, s \in Sessions \cup {NoSession} : ApiAsk(q, k, o, s)
        PROVE  Ledger!Next
    BY <2>2, BeginView DEF Ledger!Next
  <2> QED
    BY <2>1, <2>2, HandlerView, LinkView DEF Next, PageStep
<1> QED
  BY <1>1, <1>2, AskCorrect, PTL DEF Spec, ImplementsTranscript, Ledger!Spec
------------------------------------------------------------------------------
(* What the Transcript promises holds of the messages.                     *)

LedgerInv == Ledger!TypeOK /\ Ledger!AskedBefore /\ Ledger!Paired

\* A question is asked or over, or a session opened: what is kept stays in sessions of
\* the same owner.
LEMMA LedgerSame ==
  ASSUME LedgerInv, Ledger!TypeOK', UNCHANGED Kept,
         \A q \in Requests : Stage[q] # "none" => Asker'[q] = Asker[q] /\ Stage'[q] # "none",
         \A q \in Requests : Stage'[q] # "none" => Asker'[q] \in Owners,
         \A s \in Sessions : session[s] # NoOwner => session'[s] = session[s]
  PROVE  LedgerInv'
<1>1. \A q : Ledger!KeptOf(q)' = Ledger!KeptOf(q)
  BY DEF Ledger!KeptOf
<1>2. Ledger!AskedBefore'
  BY <1>1 DEF LedgerInv, Ledger!AskedBefore
<1>3. ASSUME NEW q \in Requests, Ledger!KeptOf(q) # {}
      PROVE  Asker'[q] = Asker[q] /\ Asker[q] # NoOwner
  BY <1>3, AskAssumption DEF LedgerInv, Ledger!AskedBefore
<1>4. Ledger!Paired'
  BY <1>1, <1>3 DEF LedgerInv, Ledger!Paired
<1> QED
  BY <1>2, <1>4 DEF LedgerInv

\* A pair is added to what is kept.
LEMMA LedgerPair ==
  ASSUME LedgerInv, NEW q \in Requests, Ledger!Pair(q), Ledger!TypeOK',
         \A p \in Requests : Stage[p] = "none" <=> Stage'[p] = "none"
  PROVE  LedgerInv'
<1>1. PICK x, y :
        /\ Kept' = Kept \cup {x, y} /\ x.of = q /\ y.of = q /\ x.whole /\ y.whole
        /\ x.role = "user" /\ y.role = "assistant" /\ {x.seq, y.seq} \subseteq Nat /\ x.seq < y.seq
        /\ x.session = y.session /\ x.session \in Sessions /\ session[x.session] = Asker[q]
        /\ \A z \in Kept : z.seq \notin {x.seq, y.seq}
  BY DEF Ledger!Pair
<1>2. Ledger!KeptOf(q) = {} /\ UNCHANGED <<Asker, session>> /\ Stage[q] = "asked"
  BY DEF Ledger!Pair, Ledger!KeptOf
<1>3. Ledger!KeptOf(q)' = {x, y} /\ \A p \in Requests \ {q} : Ledger!KeptOf(p)' = Ledger!KeptOf(p)
  BY <1>1, <1>2 DEF Ledger!KeptOf
<1>4. Ledger!AskedBefore'
  BY <1>2, <1>3 DEF LedgerInv, Ledger!AskedBefore
<1>5. Ledger!Paired'
  <2>1. ASSUME NEW p \in Requests, Ledger!KeptOf(p)' # {}
        PROVE  \E u, v \in Kept' :
                 /\ Ledger!KeptOf(p)' = {u, v} /\ u.whole /\ v.whole
                 /\ u.role = "user" /\ v.role = "assistant" /\ u.seq < v.seq
                 /\ u.session = v.session /\ u.session \in Sessions
                 /\ session'[u.session] = Asker'[p]
    <3>1. CASE p = q
      BY <1>1, <1>2, <1>3, <3>1
    <3>2. CASE p # q
      BY <1>1, <1>2, <1>3, <2>1, <3>2 DEF LedgerInv, Ledger!Paired
    <3> QED
      BY <3>1, <3>2
  <2>2. \A u, v \in Kept' : u.seq = v.seq => u = v
    BY <1>1 DEF LedgerInv, Ledger!Paired
  <2> QED
    BY <2>1, <2>2 DEF Ledger!Paired
<1> QED
  BY <1>4, <1>5 DEF LedgerInv

LEMMA LedgerStep ==
  ASSUME LedgerInv, [Ledger!Next]_<<Stage, Asker, session, Kept>>
  PROVE  LedgerInv'
<1>1. /\ Stage \in [Requests -> {"none", "asked", "over"}]
      /\ Asker \in [Requests -> Owners \cup {NoOwner}]
      /\ session \in [Sessions -> Owners \cup {NoOwner}]
      /\ \A q \in Requests : Stage[q] # "none" => Asker[q] \in Owners
  BY DEF LedgerInv, Ledger!TypeOK, Ledger!AskedBefore
<1>2. CASE UNCHANGED <<Stage, Asker, session, Kept>>
  BY <1>1, <1>2, LedgerSame DEF Ledger!TypeOK
<1>3. ASSUME NEW q \in Requests, Ledger!Ask(q) PROVE LedgerInv'
  <2>1. Stage[q] = "none" /\ Stage' = [Stage EXCEPT ![q] = "asked"] /\ UNCHANGED <<session, Kept>>
    BY <1>3 DEF Ledger!Ask
  <2>2. PICK o \in Owners : Asker' = [Asker EXCEPT ![q] = o]
    BY <1>3 DEF Ledger!Ask
  <2> QED
    BY <1>1, <2>1, <2>2, LedgerSame DEF Ledger!TypeOK
<1>4. ASSUME NEW s \in Sessions, Ledger!Open(s) PROVE LedgerInv'
  <2>1. session[s] = NoOwner /\ UNCHANGED <<Stage, Asker, Kept>>
    BY <1>4 DEF Ledger!Open
  <2>2. PICK q \in Requests : session' = [session EXCEPT ![s] = Asker[q]]
    BY <1>4 DEF Ledger!Open
  <2> QED
    BY <1>1, <2>1, <2>2, LedgerSame DEF Ledger!TypeOK
<1>5. ASSUME NEW q \in Requests, Ledger!Keep(q) PROVE LedgerInv'
  <2>1. Ledger!Pair(q) /\ UNCHANGED <<Stage, Asker, session>>
    BY <1>5 DEF Ledger!Keep, Ledger!Pair
  <2> QED
    BY <1>1, <2>1, LedgerPair DEF Ledger!TypeOK
<1>6. ASSUME NEW q \in Requests, Ledger!End(q) PROVE LedgerInv'
  <2>1. Stage[q] = "asked" /\ Stage' = [Stage EXCEPT ![q] = "over"] /\ UNCHANGED <<Asker, session>>
    BY <1>6 DEF Ledger!End, Ledger!Pair
  <2>2. Ledger!TypeOK' /\ \A p \in Requests : Stage[p] = "none" <=> Stage'[p] = "none"
    BY <1>1, <2>1 DEF Ledger!TypeOK
  <2>3. CASE Ledger!Pair(q)
    BY <2>2, <2>3, LedgerPair
  <2>4. CASE UNCHANGED Kept
    BY <1>1, <2>1, <2>2, <2>4, LedgerSame
  <2> QED
    BY <1>6, <2>3, <2>4 DEF Ledger!End
<1> QED
  BY <1>2, <1>3, <1>4, <1>5, <1>6 DEF Ledger!Next

\* Whoever reads a session finds whole pairs, each question before its answer, and only
\* questions of the owner: this follows from the Transcript alone, which the handlers
\* implement.
THEOREM PairsStored == Spec => []PairsOnly
<1>1. Ledger!Init => LedgerInv
  BY DEF Ledger!Init, LedgerInv, Ledger!TypeOK, Ledger!AskedBefore, Ledger!Paired, Ledger!KeptOf
<1>2. LedgerInv /\ [Ledger!Next]_<<Stage, Asker, session, Kept>> => LedgerInv'
  BY LedgerStep
<1>3. LedgerInv => Ledger!Paired
  BY DEF LedgerInv
<1> QED
  BY <1>1, <1>2, <1>3, RefinesTranscript, PTL DEF ImplementsTranscript, Ledger!Spec, PairsOnly
------------------------------------------------------------------------------
(* The page shows the answer that was stored.  Of the answer on its way,   *)
(* some pieces are shown and exactly the others are in the open stream, in *)
(* order; of a request that begins nothing is shown.                       *)

\* If n pieces of q are shown, the rest of what was sent is on its way, and perhaps
\* the end after it.
Coming(q, n) ==
  LET rest == req[q].sent - n
  IN  /\ Len(wire[q]) \in {rest, rest + 1}
      /\ \A i \in 1..rest : wire[q][i].ev = "token" /\ wire[q][i].piece = n + i
      /\ Len(wire[q]) = rest + 1 => At(q, "ended") /\ wire[q][rest + 1].ev # "token"

\* Of the answer that is streamed to the page some pieces are shown, and the others
\* are on their way unless the connection is gone.
Streaming ==
  page.req # NoRequest =>
    /\ req[page.req].kind = "stream"
    /\ \E n \in 0..req[page.req].sent : Shows(page.req, n) /\ (Open(page.req) => Coming(page.req, n))

OfPageShown ==
  \A i \in DOMAIN page.shown : page.shown[i][1] \in OfPage /\ ~At(page.shown[i][1], "idle")

ToldIsShown ==
  page.session # NoSession => \E q \in Finished : At(q, "ended") /\ Shows(q, req[q].sent)

ShownInv == Streaming /\ OfPageShown /\ ToldIsShown

\* What is shown stays so while the page shows the same.
LEMMA ShowsStays ==
  ASSUME page'.shown = page.shown, NEW q, NEW n, Shows(q, n)
  PROVE  Shows(q, n)'
BY DEF Shows, PlacesOf

\* One more piece of q is shown.
LEMMA ShowsNext ==
  ASSUME TypeOK, NEW q \in Requests, NEW n \in Nat, page'.shown = Append(page.shown, <<q, n + 1>>)
  PROVE  /\ Shows(q, n) => Shows(q, n + 1)'
         /\ \A p \in Requests \ {q} : \A m \in Nat : Shows(p, m) => Shows(p, m)'
<1> DEFINE s == page.shown
           k == Len(page.shown) + 1
<1>1. s \in Seq(Requests \X (1..MaxPieces))
  BY DEF TypeOK, Page
<1>2. /\ DOMAIN page'.shown = DOMAIN s \cup {k} /\ k \notin DOMAIN s
      /\ page'.shown[k] = <<q, n + 1>> /\ \A i \in DOMAIN s : page'.shown[i] = s[i] /\ i < k
  BY <1>1
<1>k. k \in Nat /\ \A i \in DOMAIN s : i \in Nat
  BY <1>1
<1>3. PlacesOf(q)' = PlacesOf(q) \cup {k}
  BY <1>2 DEF PlacesOf
<1>4. \A p \in Requests \ {q} : PlacesOf(p)' = PlacesOf(p)
  BY <1>2 DEF PlacesOf
<1>5. \A p : PlacesOf(p) \subseteq DOMAIN s
  BY DEF PlacesOf
<1> HIDE DEF k
<1>6. ASSUME NEW p \in Requests \ {q}, NEW m \in Nat, Shows(p, m) PROVE Shows(p, m)'
  BY <1>2, <1>4, <1>5, <1>6 DEF Shows
<1>7. ASSUME Shows(q, n) PROVE Shows(q, n + 1)'
  <2>1. PICK w, P, v : w = page'.shown /\ P = PlacesOf(q) /\ v = s
    OBVIOUS
  <2>2. /\ k \in Nat /\ P \in SUBSET Nat /\ \A i \in P : i < k
        /\ w[k][2] = n + 1 /\ \A i \in P : w[i][2] = v[i][2]
    BY <1>k, <1>2, <1>5, <2>1
  <2>3. {v[i][2] : i \in P} = 1..n /\ \A i, j \in P : i < j => v[i][2] < v[j][2]
    BY <1>7, <2>1 DEF Shows
  <2>4. {w[i][2] : i \in P \cup {k}} = 1..(n + 1)
    <3>1. {w[i][2] : i \in P \cup {k}} = {v[i][2] : i \in P} \cup {n + 1}
      BY <2>2
    <3>2. (1..n) \cup {n + 1} = 1..(n + 1)
      OBVIOUS
    <3> QED
      BY <2>3, <3>1, <3>2
  <2>5. \A i, j \in P \cup {k} : i < j => w[i][2] < w[j][2]
    <3>1. \A i \in P : w[i][2] \in 1..n
      BY <2>2, <2>3
    <3>2. \A x \in P \cup {k} : x \in Nat /\ x <= k
      BY <2>2
    <3>3. ASSUME NEW i \in P \cup {k}, NEW j \in P \cup {k}, i < j PROVE w[i][2] < w[j][2]
      <4>1. i \in P
        BY <2>2, <3>2, <3>3
      <4> QED
        BY <2>2, <2>3, <3>1, <3>3, <4>1
    <3> QED
      BY <3>3
  <2>6. /\ {page'.shown[i][2] : i \in PlacesOf(q)'} = 1..(n + 1)
        /\ \A i, j \in PlacesOf(q)' : i < j => page'.shown[i][2] < page'.shown[j][2]
    BY <1>3, <2>1, <2>4, <2>5, Zenon
  <2> QED
    BY <2>6, Zenon DEF Shows
<1> QED
  BY <1>6, <1>7

\* What the page was told and shows stays true while it shows the same, if requests
\* keep their question, and those that are over their answer.
LEMMA PageStays ==
  ASSUME OfPageShown, ToldIsShown, page'.shown = page.shown, page'.ask = page.ask,
         page'.session = page.session,
         \A p \in Requests : At(p, "idle") \/ (~At(p, "idle")' /\ req'[p].ask = req[p].ask),
         \A p \in Requests : At(p, "ended") => SameRun(p)
  PROVE  OfPageShown' /\ ToldIsShown'
<1>1. OfPageShown'
  BY DEF OfPageShown, OfPage
<1>2. ASSUME page'.session # NoSession PROVE \E q \in Finished' : At(q, "ended")' /\ Shows(q, req[q].sent)'
  <2>1. PICK q \in Finished : At(q, "ended") /\ Shows(q, req[q].sent)
    BY <1>2 DEF ToldIsShown
  <2>2. q \in Requests /\ SameRun(q) /\ q \in Finished' /\ At(q, "ended")'
    BY <2>1 DEF Finished, OfPage, SameRun, At
  <2>3. Shows(q, req[q].sent)'
    BY <2>1, <2>2 DEF Shows, PlacesOf, SameRun
  <2> QED
    BY <2>2, <2>3
<1> QED
  BY <1>1, <1>2 DEF ToldIsShown

\* A step that does not touch the stream of the page.
LEMMA AsideShown ==
  ASSUME ShownInv, UNCHANGED page, OfPageShown', ToldIsShown',
         page.req # NoRequest => req'[page.req] = req[page.req] /\ wire'[page.req] = wire[page.req]
  PROVE  ShownInv'
<1> SUFFICES ASSUME page.req # NoRequest
             PROVE  /\ req'[page.req].kind = "stream"
                    /\ \E n \in 0..req'[page.req].sent :
                         Shows(page.req, n)' /\ (Open(page.req)' => Coming(page.req, n)')
  BY DEF ShownInv, Streaming
<1>1. PICK n \in 0..req[page.req].sent :
        Shows(page.req, n) /\ (Open(page.req) => Coming(page.req, n))
  BY DEF ShownInv, Streaming
<1>2. Shows(page.req, n)' /\ (Open(page.req)' => Coming(page.req, n)')
  BY <1>1 DEF Shows, PlacesOf, Open, Coming, At
<1> QED
  BY <1>1, <1>2 DEF ShownInv, Streaming

\* What a handler step does to the stream of the page: nothing, or it sends the next
\* piece, or the end.
Writes(q) ==
  \/ req'[q].sent = req[q].sent /\ wire'[q] = wire[q]
  \/ /\ req'[q].sent = req[q].sent + 1
     /\ Open(q) => \E f \in Frame : /\ f.ev = "token" /\ f.piece = req[q].sent + 1
                                    /\ wire'[q] = Append(wire[q], f)
  \/ /\ req'[q].sent = req[q].sent /\ req'[q].pc = "ended"
     /\ Open(q) => \E f \in Frame : f.ev # "token" /\ wire'[q] = Append(wire[q], f)

LEMMA WritesShown ==
  ASSUME IInv, ShownInv, NEW q \in Requests, Moved(q), q = page.req => Writes(q)
  PROVE  ShownInv'
<1>1. UNCHANGED page /\ (page.req # NoRequest => page.req \in Requests)
  BY DEF Moved, IInv, TypeOK, Page
<1>2. OfPageShown' /\ ToldIsShown'
  <2>1. \A p \in Requests : At(p, "idle") \/ (~At(p, "idle")' /\ req'[p].ask = req[p].ask)
    BY DEF Moved, At
  <2>2. \A p \in Requests : At(p, "ended") => SameRun(p)
    BY DEF Moved, At, SameRun
  <2> QED
    BY <1>1, <2>1, <2>2, PageStays DEF ShownInv
<1>3. CASE page.req # q
  BY <1>1, <1>2, <1>3, AsideShown DEF Moved, Frames
<1>4. CASE page.req = q
  <2>1. q # NoRequest
    BY AskAssumption
  <2>2. PICK n \in 0..req[q].sent : Shows(q, n) /\ (Open(q) => Coming(q, n))
    BY <1>4, <2>1 DEF ShownInv, Streaming
  <2>3. /\ req'[q].kind = "stream" /\ Shows(q, n)' /\ Open(q)' = Open(q) /\ ~At(q, "ended")
        /\ req[q].sent \in Nat /\ n \in Nat /\ wire[q] \in Seq(Frame)
    <3>1. req[q] \in Req /\ wire[q] \in Seq(Frame)
      BY DEF IInv, TypeOK
    <3>2. req'[q].kind = "stream"
      BY <1>4, <2>1 DEF ShownInv, Streaming, Moved
    <3>3. req[q].sent \in Nat
      BY <3>1, AskAssumption DEF Req
    <3> QED
      BY <1>1, <2>2, <3>1, <3>2, <3>3, ShowsStays DEF Moved, Open, At
  <2>4. n \in 0..req'[q].sent
    BY <1>4, <2>2, <2>3 DEF Writes
  <2>5. ASSUME Open(q) PROVE Coming(q, n)'
    <3> DEFINE rest == req[q].sent - n
    <3>1. /\ Len(wire[q]) = rest /\ rest \in Nat
          /\ \A i \in 1..rest : wire[q][i].ev = "token" /\ wire[q][i].piece = n + i
      BY <2>2, <2>3, <2>5 DEF Coming
    <3>2. CASE req'[q].sent = req[q].sent /\ wire'[q] = wire[q]
      BY <3>1, <3>2 DEF Coming
    <3>3. ASSUME NEW f \in Frame, wire'[q] = Append(wire[q], f), req'[q].sent = req[q].sent + 1,
                 f.ev = "token", f.piece = req[q].sent + 1
          PROVE  Coming(q, n)'
      <4>1. /\ Len(wire'[q]) = rest + 1 /\ wire'[q][rest + 1] = f
            /\ \A i \in 1..rest : wire'[q][i] = wire[q][i]
        BY <2>3, <3>1, <3>3
      <4>2. req'[q].sent - n = rest + 1 /\ f.piece = n + (rest + 1)
        BY <2>3, <3>3
      <4>3. \A i \in 1..(rest + 1) : wire'[q][i].ev = "token" /\ wire'[q][i].piece = n + i
        <5> SUFFICES ASSUME NEW i \in 1..(rest + 1)
                     PROVE  wire'[q][i].ev = "token" /\ wire'[q][i].piece = n + i
          OBVIOUS
        <5>1. i \in 1..rest \/ i = rest + 1
          BY <3>1
        <5> QED
          BY <3>1, <3>3, <4>1, <4>2, <5>1
      <4> HIDE DEF rest
      <4> QED
        BY <3>1, <4>1, <4>2, <4>3 DEF Coming
    <3>4. ASSUME NEW f \in Frame, wire'[q] = Append(wire[q], f), req'[q].sent = req[q].sent,
                 f.ev # "token", req'[q].pc = "ended"
          PROVE  Coming(q, n)'
      <4>1. /\ Len(wire'[q]) = rest + 1 /\ wire'[q][rest + 1] = f
            /\ \A i \in 1..rest : wire'[q][i] = wire[q][i]
        BY <2>3, <3>1, <3>4
      <4>2. req'[q].sent - n = rest
        BY <3>4
      <4> HIDE DEF rest
      <4> QED
        BY <3>1, <3>4, <4>1, <4>2 DEF Coming, At
    <3> QED
      BY <1>4, <2>5, <3>2, <3>3, <3>4 DEF Writes
  <2>6. Streaming'
    BY <1>1, <1>4, <2>3, <2>4, <2>5 DEF Streaming
  <2> QED
    BY <1>2, <2>6 DEF ShownInv
<1> QED
  BY <1>3, <1>4

\* A frame that the page's handler sends.
LEMMA Sends ==
  ASSUME IInv, NEW q \in Requests, NEW f \in Frame, Send(q, f), q = page.req
  PROVE  Open(q) => wire'[q] = Append(wire[q], f)
  BY DEF Send, IInv, TypeOK

LEMMA HandlerWrites ==
  ASSUME IInv, NEW q \in Requests, HandlerStep(q), q = page.req, req[q].kind = "stream"
  PROVE  Writes(q)
<1>1. req \in [Requests -> Req] /\ req[q] \in Req /\ TypeOK
  BY DEF IInv, TypeOK
<1>2. CASE Reject(q)
  <2>1. req'[q].sent = req[q].sent /\ req'[q].pc = "ended"
    BY <1>1, <1>2, RejectMoves
  <2>2. Send(q, [ev |-> "error"]) /\ [ev |-> "error"] \in Frame
    BY <1>2 DEF Reject, Frame
  <2>3. Open(q) => wire'[q] = Append(wire[q], [ev |-> "error"])
    BY <2>2, Sends
  <2> QED
    BY <2>1, <2>2, <2>3 DEF Writes
<1>3. CASE Reply(q)
  <2>1. At(q, "reply") /\ req' = [req EXCEPT ![q] = Ended(req[q])]
        /\ Send(q, [ev |-> "done", session |-> req[q].session])
    BY <1>3 DEF Reply, Set
  <2>2. Ended(req[q]).sent = req[q].sent /\ Ended(req[q]).pc = "ended"
    BY <1>1 DEF Ended, Req
  <2>3. [ev |-> "done", session |-> req[q].session] \in Frame
    BY <2>1 DEF Frame, IInv, ReqOK, At
  <2>4. Open(q) => wire'[q] = Append(wire[q], [ev |-> "done", session |-> req[q].session])
    BY <2>1, <2>3, Sends
  <2>5. req'[q].sent = req[q].sent /\ req'[q].pc = "ended"
    BY <1>1, <2>1, <2>2
  <2> QED
    BY <2>3, <2>4, <2>5 DEF Writes
<1>4. CASE Piece(q) /\ ~Reject(q)
  <2>1. req' = [req EXCEPT ![q] = [req[q] EXCEPT !.sent = @ + 1]] /\ req[q].sent < MaxPieces
        /\ Send(q, [ev |-> "token", piece |-> req[q].sent + 1])
    BY <1>4 DEF Piece, Set
  <2>2. [ev |-> "token", piece |-> req[q].sent + 1] \in Frame
    BY <1>1, <2>1, AskAssumption DEF Req, Frame
  <2>3. Open(q) => wire'[q] = Append(wire[q], [ev |-> "token", piece |-> req[q].sent + 1])
    BY <2>1, <2>2, Sends
  <2>4. req'[q].sent = req[q].sent + 1
    BY <1>1, <2>1 DEF Req
  <2> QED
    BY <2>2, <2>3, <2>4 DEF Writes
<1>5. ASSUME UNCHANGED wire, NEW r, r.sent = req[q].sent, req' = [req EXCEPT ![q] = r]
      PROVE  Writes(q)
  BY <1>1, <1>5 DEF Writes
<1>6. CASE CheckMode(q) /\ ~Reject(q)
  <2>1. [req[q] EXCEPT !.pc = "answer"].sent = req[q].sent
    BY <1>1 DEF Req
  <2> QED
    BY <1>5, <1>6, <2>1 DEF CheckMode, Goto, Set
<1>7. CASE StreamEnds(q)
  <2>1. [req[q] EXCEPT !.pc = "ensure", !.eof = TRUE].sent = req[q].sent
    BY <1>1 DEF Req
  <2> QED
    BY <1>5, <1>7, <2>1 DEF StreamEnds, Set
<1>8. ASSUME NEW s \in Sessions, Set(q, [req[q] EXCEPT !.pc = "user", !.session = s]), UNCHANGED wire
      PROVE  Writes(q)
  <2>1. [req[q] EXCEPT !.pc = "user", !.session = s].sent = req[q].sent
    BY <1>1 DEF Req
  <2> QED
    BY <1>5, <1>8, <2>1 DEF Set
<1>9. ASSUME NEW role, NEW next, Insert(q, role, next) PROVE Writes(q)
  <2>1. [req[q] EXCEPT !.pc = next, !.written = @ \cup {<<seq + 1, role>>}].sent = req[q].sent
    BY <1>1 DEF Req
  <2> QED
    BY <1>5, <1>9, <2>1 DEF Insert, Set
<1>10. CASE Commit(q)
  <2>1. [req[q] EXCEPT !.pc = "reply"].sent = req[q].sent
    BY <1>1 DEF Req
  <2> QED
    BY <1>5, <1>10, <2>1 DEF Commit, Goto, Set
<1>11. EnsureSession(q) => Writes(q)
  BY <1>8 DEF EnsureSession
<1> QED
  BY <1>2, <1>3, <1>4, <1>6, <1>7, <1>9, <1>10, <1>11
     DEF HandlerStep, CheckMode, Answered, AnswerFails, InsertUser, InsertAssistant, PersistFails

LEMMA HandlerShown ==
  ASSUME IInv, ShownInv, NEW q \in Requests, HandlerStep(q)
  PROVE  ShownInv'
<1>1. Moved(q)
  BY AnswerInv, EnsureMoves, InsertInv, PersistInv, ReplyInv DEF HandlerStep
<1>2. q = page.req => Writes(q)
  BY HandlerWrites, AskAssumption DEF ShownInv, Streaming
<1> QED
  BY <1>1, <1>2, WritesShown

\* A connection that ends leaves what was shown.
LEMMA LinkShown ==
  ASSUME IInv, ShownInv, \A p \in Requests : SameRun(p), page'.req = page.req,
         page'.shown = page.shown, page'.ask = page.ask, page'.session = page.session,
         page.req # NoRequest => ~Open(page.req)'
  PROVE  ShownInv'
<1>1. OfPageShown' /\ ToldIsShown'
  BY PageStays DEF ShownInv, SameRun, At
<1>2. page.req # NoRequest => page.req \in Requests /\ SameRun(page.req)
  BY DEF IInv, TypeOK, Page
<1>3. Streaming'
  <2> SUFFICES ASSUME page.req # NoRequest
               PROVE  req'[page.req].kind = "stream" /\ \E n \in 0..req'[page.req].sent : Shows(page.req, n)'
    BY DEF Streaming
  <2> QED
    BY <1>2, ShowsStays DEF ShownInv, Streaming, SameRun
<1> QED
  BY <1>1, <1>3 DEF ShownInv

\* Of a request that begins nothing is shown.
LEMMA BegunShown ==
  ASSUME NEW q \in Requests, page'.req = q, wire'[q] = << >>, PlacesOf(q)' = {},
         req'[q] = [IdleReq EXCEPT !.pc = "mode", !.kind = "stream", !.ask = page'.ask, !.link = "open"]
  PROVE  Streaming'
<1>1. req'[q].kind = "stream" /\ req'[q].sent = 0
  BY DEF IdleReq
<1>2. Shows(q, 0)'
  BY DEF Shows
<1>3. Coming(q, 0)'
  BY <1>1 DEF Coming
<1> QED
  BY <1>1, <1>2, <1>3 DEF Streaming

LEMMA RunShown == ASSUME IInv, NEW q \in Requests, Run(q) PROVE ShownInv'
<1>1. page' = [ask |-> page.ask + 1, req |-> q, running |-> TRUE, busy |-> ~page.running,
               shown |-> << >>, session |-> NoSession, error |-> FALSE]
  BY DEF Run
<1>2. page'.ask = page.ask + 1 /\ page'.req = q /\ page'.shown = << >> /\ page'.session = NoSession
  BY <1>1
<1>3. req'[q] = [IdleReq EXCEPT !.pc = "mode", !.kind = "stream", !.ask = page'.ask, !.link = "open"]
  BY <1>2 DEF Run
<1>4. wire'[q] = << >>
  BY WireEmpty DEF Run
<1>5. PlacesOf(q)' = {}
  BY <1>2 DEF PlacesOf
<1>6. OfPageShown' /\ ToldIsShown'
  BY <1>2 DEF OfPageShown, ToldIsShown
<1> QED
  BY <1>2, <1>3, <1>4, <1>5, <1>6, BegunShown DEF ShownInv

LEMMA ReconnectShown == ASSUME IInv, ShownInv, NEW q \in Requests, Reconnect(q) PROVE ShownInv'
<1>1. page \in Page /\ req \in [Requests -> Req] /\ At(q, "idle") /\ UNCHANGED wire
  BY DEF IInv, TypeOK, Reconnect
<1>2. page'.ask = page.ask /\ page'.req = q /\ page'.shown = page.shown /\ page'.session = page.session
  BY <1>1 DEF Reconnect, Page
<1>3. /\ req'[q] = [IdleReq EXCEPT !.pc = "mode", !.kind = "stream", !.ask = page'.ask, !.link = "open"]
      /\ \A p \in Requests \ {q} : req'[p] = req[p]
  BY <1>1, <1>2 DEF Reconnect, Set
<1>4. wire'[q] = << >>
  <2>1. q # page.req \/ ~Open(q)
    BY DEF Reconnect, Open
  <2> QED
    BY <1>1, <2>1, WireEmpty
<1>5. PlacesOf(q)' = {}
  BY <1>1, <1>2 DEF PlacesOf, ShownInv, OfPageShown
<1>6. OfPageShown' /\ ToldIsShown'
  <2>1. \A p \in Requests : At(p, "idle") \/ (~At(p, "idle")' /\ req'[p].ask = req[p].ask)
    BY <1>1, <1>3 DEF At
  <2>2. \A p \in Requests : At(p, "ended") => SameRun(p)
    BY <1>1, <1>3 DEF At, SameRun
  <2> QED
    BY <1>2, <2>1, <2>2, PageStays DEF ShownInv
<1> QED
  BY <1>2, <1>3, <1>4, <1>5, <1>6, BegunShown DEF ShownInv

LEMMA ApiAskShown ==
  ASSUME IInv, ShownInv, NEW q \in Requests, NEW k \in Kinds, NEW o \in Owners,
         NEW s \in Sessions \cup {NoSession}, ApiAsk(q, k, o, s)
  PROVE  ShownInv'
<1>1. /\ page \in Page /\ req \in [Requests -> Req] /\ At(q, "idle") /\ UNCHANGED <<wire, page>>
      /\ \A p \in Requests \ {q} : req'[p] = req[p]
  BY DEF IInv, TypeOK, ApiAsk, Set
<1>2. OfPageShown' /\ ToldIsShown'
  <2>1. \A p \in Requests : At(p, "idle") \/ (~At(p, "idle")' /\ req'[p].ask = req[p].ask)
    BY <1>1 DEF At
  <2>2. \A p \in Requests : At(p, "ended") => SameRun(p)
    BY <1>1 DEF At, SameRun
  <2> QED
    BY <1>1, <2>1, <2>2, PageStays DEF ShownInv
<1>3. page.req # NoRequest => page.req \in Requests \ {q}
  BY <1>1 DEF Page, IInv, PageOK
<1> QED
  BY <1>1, <1>2, <1>3, AsideShown

\* Two initial segments that are equal.
LEMMA SameLength == ASSUME NEW a \in Nat, NEW b \in Nat, 1..a = 1..b PROVE a = b
<1>1. a > b => a \in 1..a /\ a \notin 1..b
  OBVIOUS
<1>2. b > a => b \in 1..b /\ b \notin 1..a
  OBVIOUS
<1> QED
  BY <1>1, <1>2

\* The page takes the next piece, or the end when it has shown all that was sent.
LEMMA ReceiveShown == ASSUME IInv, ShownInv, Receive PROVE ShownInv'
<1>1. TypeOK /\ page \in Page /\ wire \in [Requests -> Seq(Frame)] /\ PageOK /\ UNCHANGED req
  BY DEF IInv, TypeOK, Receive
<1>2. PICK q \in Requests : q = page.req /\ q # NoRequest /\ Open(q) /\ wire[q] # << >>
  BY <1>1, AskAssumption DEF Receive, Page
<1>3. PICK f \in Frame : f = wire[q][1] /\ f = Head(wire[q])
  BY <1>1, <1>2
<1>4. page' = CASE f.ev = "token" -> [page EXCEPT !.shown = Append(@, <<q, f.piece>>)]
                [] f.ev = "done" -> [page EXCEPT !.session = f.session]
                [] f.ev = "error" -> [page EXCEPT !.error = TRUE]
  BY <1>2, <1>3 DEF Receive
<1>5. wire[q] \in Seq(Frame) /\ Len(wire[q]) \in Nat \ {0} /\ wire'[q] = Tail(wire[q])
  BY <1>1, <1>2 DEF Receive
<1>6. /\ wire'[q] \in Seq(Frame) /\ Len(wire'[q]) = Len(wire[q]) - 1
      /\ \A i \in 1..(Len(wire[q]) - 1) : wire'[q][i] = wire[q][i + 1]
  BY <1>2, <1>5
<1>7. PICK n \in 0..req[q].sent : Shows(q, n) /\ Coming(q, n)
  BY <1>2 DEF ShownInv, Streaming
<1>8. req[q].sent \in Nat /\ n \in Nat /\ req[q].kind = "stream"
  BY <1>1, <1>2, <1>7, AskAssumption DEF TypeOK, Req, ShownInv, Streaming
<1>9. PICK rest \in Nat : rest = req[q].sent - n
  BY <1>7, <1>8
<1>10. /\ Len(wire[q]) \in {rest, rest + 1}
       /\ \A i \in 1..rest : wire[q][i].ev = "token" /\ wire[q][i].piece = n + i
       /\ Len(wire[q]) = rest + 1 => At(q, "ended") /\ wire[q][rest + 1].ev # "token"
  BY <1>7, <1>9 DEF Coming
<1>11. q \in OfPage /\ ~At(q, "idle")
  BY <1>1, <1>2 DEF PageOK, OfPage
<1>12. UNCHANGED OfPage \/ page'.ask # page.ask
  BY <1>1 DEF OfPage
<1>13. CASE f.ev = "token"
  <2>1. page' = [page EXCEPT !.shown = Append(page.shown, <<q, f.piece>>)]
    BY <1>4, <1>13
  <2>2. rest > 0 /\ f.piece = n + 1
    BY <1>3, <1>5, <1>9, <1>10, <1>13
  <2>3. /\ page'.shown = Append(page.shown, <<q, n + 1>>) /\ page'.req = q
        /\ page'.ask = page.ask /\ page'.session = page.session
    BY <1>1, <1>2, <2>1, <2>2 DEF Page
  <2>4. /\ Shows(q, n + 1)'
        /\ \A p \in Requests \ {q} : \A m \in Nat : Shows(p, m) => Shows(p, m)'
    BY <1>1, <1>7, <1>8, <2>3, ShowsNext
  <2>5. Coming(q, n + 1)'
    <3>1. req'[q].sent - (n + 1) = rest - 1 /\ rest - 1 \in Nat
      BY <1>1, <1>8, <1>9, <2>2
    <3>2. \A i \in 1..(rest - 1) : wire'[q][i].ev = "token" /\ wire'[q][i].piece = n + 1 + i
      <4> SUFFICES ASSUME NEW i \in 1..(rest - 1)
                   PROVE  wire'[q][i].ev = "token" /\ wire'[q][i].piece = n + 1 + i
        OBVIOUS
      <4>1. i + 1 \in 1..rest /\ i \in 1..(Len(wire[q]) - 1)
        BY <1>10, <2>2
      <4>2. wire[q][i + 1].ev = "token" /\ wire[q][i + 1].piece = n + (i + 1)
        BY <1>10, <4>1
      <4> QED
        <5>1. wire'[q][i] = wire[q][i + 1]
          BY <1>6, <4>1
        <5>2. n + (i + 1) = n + 1 + i
          BY <1>8
        <5> QED
          BY <4>2, <5>1, <5>2
    <3>3. Len(wire'[q]) \in {rest - 1, rest}
      BY <1>5, <1>6, <1>10
    <3>4. ASSUME Len(wire'[q]) = rest PROVE At(q, "ended")' /\ wire'[q][rest].ev # "token"
      <4>1. Len(wire[q]) = rest + 1 /\ rest \in 1..(Len(wire[q]) - 1)
        BY <1>5, <1>6, <2>2, <3>4
      <4> QED
        BY <1>1, <1>6, <1>10, <4>1 DEF At
    <3>5. rest - 1 + 1 = rest
      OBVIOUS
    <3> QED
      BY <3>1, <3>2, <3>3, <3>4, <3>5 DEF Coming
  <2>6. n + 1 \in 0..req'[q].sent
    BY <1>1, <1>8, <1>9, <2>2
  <2>7. Streaming'
    BY <1>1, <1>8, <2>3, <2>4, <2>5, <2>6 DEF Streaming
  <2>8. OfPageShown'
    <3>1. page.shown \in Seq(Requests \X (1..MaxPieces))
      BY <1>1 DEF Page
    <3>2. \A i \in DOMAIN page'.shown :
            (i \in DOMAIN page.shown /\ page'.shown[i] = page.shown[i]) \/ page'.shown[i][1] = q
      BY <2>3, <3>1
    <3>3. UNCHANGED OfPage /\ \A p : At(p, "idle")' = At(p, "idle")
      BY <1>1, <1>12, <2>3 DEF At
    <3> QED
      BY <1>11, <3>2, <3>3 DEF ShownInv, OfPageShown
  <2>9. ToldIsShown'
    <3> SUFFICES ASSUME page.session # NoSession
                 PROVE  \E p \in Finished' : At(p, "ended")' /\ Shows(p, req[p].sent)'
      BY <2>3 DEF ToldIsShown
    <3>1. PICK p \in Finished : At(p, "ended") /\ Shows(p, req[p].sent)
      BY DEF ShownInv, ToldIsShown
    <3>2. p \in Requests /\ req[p].sent \in Nat
      BY <1>1, <3>1, AskAssumption DEF Finished, OfPage, TypeOK, Req
    <3>3. p # q
      <4> SUFFICES ASSUME p = q PROVE FALSE
        OBVIOUS
      <4>1. 1..req[q].sent = 1..n
        BY <1>7, <3>1 DEF Shows
      <4> QED
        BY <1>8, <1>9, <2>2, <4>1, SameLength
    <3>4. Shows(p, req[p].sent)'
      <4>1. PICK m \in Nat : m = req[p].sent
        BY <3>2
      <4>2. Shows(p, m)'
        BY <2>4, <3>1, <3>2, <3>3, <4>1
      <4> QED
        BY <1>1, <4>1, <4>2 DEF Shows
    <3> QED
      BY <1>1, <1>12, <2>3, <3>1, <3>4 DEF Finished, At
  <2> QED
    BY <2>7, <2>8, <2>9 DEF ShownInv
<1>14. CASE f.ev # "token"
  <2>1. rest = 0 /\ Len(wire[q]) = 1 /\ At(q, "ended") /\ n = req[q].sent
    <3>1. rest = 0
      <4>1. rest > 0 => 1 \in 1..rest
        OBVIOUS
      <4> QED
        BY <1>3, <1>10, <1>14, <4>1
    <3>2. Len(wire[q]) = 1
      BY <1>5, <1>10, <3>1
    <3>3. At(q, "ended")
      BY <1>10, <3>1, <3>2
    <3> QED
      BY <1>8, <1>9, <3>1, <3>2, <3>3
  <2>2. page' = [page EXCEPT !.session = f.session] \/ page' = [page EXCEPT !.error = TRUE]
    BY <1>4, <1>14 DEF Frame
  <2>3. page'.shown = page.shown /\ page'.ask = page.ask /\ page'.req = q
    BY <1>1, <1>2, <2>2 DEF Page
  <2>4. Shows(q, n)'
    BY <1>7, <2>3, ShowsStays
  <2>5. Coming(q, n)'
    BY <1>1, <1>6, <1>8, <2>1 DEF Coming
  <2>6. Streaming'
    BY <1>1, <1>7, <1>8, <2>3, <2>4, <2>5 DEF Streaming
  <2>7. CASE page'.session = page.session
    <3>1. OfPageShown' /\ ToldIsShown'
      BY <1>1, <2>3, <2>7, PageStays DEF ShownInv, SameRun, At
    <3> QED
      BY <2>6, <3>1 DEF ShownInv
  <2>8. CASE f.ev = "done" /\ page'.session = f.session
    <3>1. f.session = req[q].session
      BY <1>1, <1>3, <1>5, <2>8 DEF PageOK
    <3>2. q \in Finished' /\ At(q, "ended")' /\ Shows(q, req[q].sent)'
      BY <1>1, <1>11, <1>12, <2>1, <2>3, <2>4, <2>8, <3>1 DEF Finished, At, Shows
    <3>3. OfPageShown'
      BY <1>1, <1>12, <2>3 DEF ShownInv, OfPageShown, At
    <3> QED
      BY <2>6, <3>2, <3>3 DEF ShownInv, ToldIsShown
  <2>9. page'.session = page.session \/ (f.ev = "done" /\ page'.session = f.session)
    BY <1>1, <1>4, <1>14 DEF Page, Frame
  <2> QED
    BY <2>7, <2>8, <2>9
<1> QED
  BY <1>13, <1>14

LEMMA BreakShown == ASSUME IInv, ShownInv, Close \/ \E q \in Requests : Break(q) PROVE ShownInv'
<1>1. page \in Page /\ req \in [Requests -> Req] /\ TypeOK
  BY DEF IInv, TypeOK
<1>2. PICK q \in Requests, l \in {"broken", "closed"} :
        q = page.req /\ req' = [req EXCEPT ![q] = [req[q] EXCEPT !.link = l]]
  BY <1>1 DEF Break, Close, Page
<1>3. \A p \in Requests : SameRun(p)
  <2>1. \A p \in Requests : req'[p] = req[p] \/ req'[p] = [req[p] EXCEPT !.link = l]
    BY <1>1, <1>2
  <2> QED
    BY <1>1, <2>1, Relinked
<1>4. /\ page'.req = page.req /\ page'.shown = page.shown /\ page'.ask = page.ask
      /\ page'.session = page.session
  BY <1>1 DEF Break, Close, Page
<1>5. req'[q].link = l
  BY <1>1, <1>2 DEF Req
<1> QED
  BY <1>2, <1>3, <1>4, <1>5, LinkShown DEF Open

LEMMA ShownInit == ASSUME Init PROVE ShownInv
  BY DEF Init, ShownInv, Streaming, OfPageShown, ToldIsShown

LEMMA ShownStep == ASSUME IInv, ShownInv, [Next]_vars PROVE ShownInv'
<1>1. CASE UNCHANGED vars
  <2>1. OfPageShown' /\ ToldIsShown'
    BY <1>1, PageStays DEF vars, ShownInv, SameRun, At
  <2> QED
    BY <1>1, <2>1, AsideShown DEF vars
<1> QED
  BY <1>1, HandlerShown, ApiAskShown, BreakShown, RunShown, ReconnectShown, ReceiveShown
     DEF Next, PageStep

\* When the page is told the end it has shown the stored answer, every piece once and
\* in order, and nothing of another question, whatever connections broke before.
THEOREM AnswerShown == Spec => []ShowsStoredAnswer
<1>1. Init => ShownInv
  BY ShownInit
<1>2. IInv /\ ShownInv /\ [Next]_vars => ShownInv'
  BY ShownStep
<1>3. ShownInv => ShowsStoredAnswer
  BY DEF ShownInv, OfPageShown, ToldIsShown, ShowsStoredAnswer
<1> QED
  BY <1>1, <1>2, <1>3, AskCorrect, PTL DEF Spec
==============================================================================
