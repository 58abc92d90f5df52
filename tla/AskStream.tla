------------------------------ MODULE AskStream ------------------------------
(***************************************************************************)
(* A question and its answer.  The handlers of the four /ask routes run    *)
(* the rag pipeline, store the question and the answer as a pair of        *)
(* messages in a session (retrieval.persist, sessions.EnsureSession and    *)
(* AppendPair) and answer: with a JSON body, or with server-sent events,   *)
(* one for every piece of the answer and one at the end.  On the ask page  *)
(* useAskStream puts the pieces together; fetch-event-source, which it     *)
(* uses, opens the stream again when the connection breaks.                *)
(*                                                                         *)
(* An answer is known by the request that produced it and its number of    *)
(* pieces.  An owner is a user in a kb.  The pipeline, the model, Postgres *)
(* and the network are external; they fail when they like.                 *)
(***************************************************************************)
EXTENDS Integers, Sequences, FiniteSets

CONSTANTS
  Requests,   \* bound: the HTTP requests that arrive
  NoRequest,
  Owners,     \* users in kbs
  Sessions,   \* the session ids newID() may draw
  NoSession,  \* the empty session id
  PageOwner,  \* the owner whose browser shows the ask page
  MaxPieces,  \* bound: pieces of an answer
  MaxAsks     \* bound: questions asked on the page

NoOwner == "none"
NoAsk == 0

ASSUME AskAssumption ==
  /\ NoSession \notin Sessions /\ NoRequest \notin Requests
  /\ PageOwner \in Owners /\ NoOwner \notin Owners
  /\ MaxPieces \in Nat /\ MaxAsks \in Nat

VARIABLES
  req,      \* the handler of each request
  wire,     \* the frames on their way to the client
  session,  \* rows of qa_session: the owner of each session
  message,  \* rows of qa_message
  seq,      \* the sequence behind qa_message.seq
  page      \* the state of the ask page

vars == <<req, wire, session, message, seq, page>>
------------------------------------------------------------------------------
\* The routes: /ask; /ask/global and /ask/drift, which take no mode; /ask/stream.
Kinds == {"ask", "graph", "stream"}

IdleReq == [pc |-> "idle", kind |-> "ask", ask |-> NoAsk, owner |-> PageOwner,
            inbound |-> NoSession, session |-> NoSession, sent |-> 0, eof |-> FALSE,
            written |-> {}, status |-> 0, link |-> "none"]

Req == [pc: {"idle", "mode", "answer", "ensure", "user", "assistant", "commit", "reply", "ended"},
        kind: Kinds, ask: 0..MaxAsks, owner: Owners,
        inbound: Sessions \cup {NoSession}, session: Sessions \cup {NoSession},
        sent: 0..MaxPieces, eof: BOOLEAN, written: SUBSET (Nat \X {"user", "assistant"}),
        status: {0, 200, 400}, link: {"none", "open", "broken", "closed"}]

\* Frames: a piece of the answer, or the end of it.
Frame == [ev: {"token"}, piece: 1..MaxPieces]
         \cup [ev: {"done"}, session: Sessions] \cup [ev: {"error"}]

Message == [session: Sessions, seq: Nat, role: {"user", "assistant"},
            of: Requests, pieces: 0..MaxPieces]

\* The page shows pieces of answers.
Page == [ask: 0..MaxAsks, req: Requests \cup {NoRequest}, running: BOOLEAN, busy: BOOLEAN,
         shown: Seq(Requests \X (1..MaxPieces)), session: Sessions \cup {NoSession},
         error: BOOLEAN]

TypeOK ==
  /\ req \in [Requests -> Req]
  /\ wire \in [Requests -> Seq(Frame)]
  /\ session \in [Sessions -> Owners \cup {NoOwner}]
  /\ message \subseteq Message
  /\ seq \in Nat
  /\ page \in Page

Init ==
  /\ req = [q \in Requests |-> IdleReq]
  /\ wire = [q \in Requests |-> << >>]
  /\ session = [s \in Sessions |-> NoOwner]
  /\ message = {} /\ seq = 0
  /\ page = [ask |-> NoAsk, req |-> NoRequest, running |-> FALSE, busy |-> FALSE,
             shown |-> << >>, session |-> NoSession, error |-> FALSE]
------------------------------------------------------------------------------
Set(q, r) == req' = [req EXCEPT ![q] = r]
At(q, pc) == req[q].pc = pc
Goto(q, pc) == Set(q, [req[q] EXCEPT !.pc = pc])
Open(q) == req[q].link = "open"

\* writeFrame.  A frame written on a broken connection is lost; those to other
\* clients than the page are not followed.
Send(q, f) ==
  wire' = IF Open(q) /\ q = page.req THEN [wire EXCEPT ![q] = Append(@, f)] ELSE wire

\* The handler returns and the server ends the response.
Ended(r) == [r EXCEPT !.pc = "ended", !.status = IF @ = 0 THEN 200 ELSE @]

\* An error reaches the handler: http.Error with 400; for the stream, whose
\* headers say 200, a frame.
Reject(q) ==
  IF req[q].kind = "stream"
  THEN Set(q, Ended(req[q])) /\ Send(q, [ev |-> "error"])
  ELSE Set(q, [Ended(req[q]) EXCEPT !.status = 400]) /\ UNCHANGED wire
------------------------------------------------------------------------------
(* The handlers.                                                           *)

\* A request of a program, with any session id it has seen.
ApiAsk(q, k, o, s) ==
  /\ At(q, "idle")
  /\ s # NoSession => session[s] # NoOwner
  /\ Set(q, [IdleReq EXCEPT !.pc = IF k = "graph" THEN "answer" ELSE "mode",
                            !.kind = k, !.owner = o, !.inbound = s, !.link = "open"])
  /\ UNCHANGED <<wire, session, message, seq, page>>

\* The request body names a mode, perhaps one that there is not.
CheckMode(q) ==
  /\ At(q, "mode")
  /\ \/ Goto(q, "answer") /\ UNCHANGED wire
     \/ Reject(q)
  /\ UNCHANGED <<session, message, seq, page>>

\* StreamAnswer emits a piece.  If the write fails the stream is aborted.
Piece(q) ==
  /\ At(q, "answer") /\ req[q].kind = "stream" /\ req[q].sent < MaxPieces
  /\ \/ /\ Set(q, [req[q] EXCEPT !.sent = @ + 1])
        /\ Send(q, [ev |-> "token", piece |-> req[q].sent + 1])
     \/ ~Open(q) /\ Reject(q)
  /\ UNCHANGED <<session, message, seq, page>>

\* The stream of the model is at its end: what was sent is the answer.
StreamEnds(q) ==
  /\ At(q, "answer") /\ req[q].kind = "stream"
  /\ Set(q, [req[q] EXCEPT !.pc = "ensure", !.eof = TRUE])
  /\ UNCHANGED <<wire, session, message, seq, page>>

\* Ask, AskGlobal or AskDrift of the rag service returns the answer in one
\* piece, whose size nobody looks at.
Answered(q) ==
  /\ At(q, "answer") /\ req[q].kind # "stream"
  /\ Set(q, [req[q] EXCEPT !.pc = "ensure", !.sent = MaxPieces, !.eof = TRUE])
  /\ UNCHANGED <<wire, session, message, seq, page>>

\* Retrieval or the model fails, at any point of the answer.
AnswerFails(q) ==
  /\ At(q, "answer")
  /\ Reject(q)
  /\ UNCHANGED <<session, message, seq, page>>

\* Slip: any session that exists will do.
OwnedByAnyone(q, s) == s # NoSession /\ session[s] # NoOwner

\* The SELECT of EnsureSession, which names the kb and the user.
Owned(q, s) == s # NoSession /\ session[s] = req[q].owner

\* EnsureSession: the session of the request if it is the asker's own, else
\* a new one.
EnsureSession(q) ==
  /\ At(q, "ensure")
  /\ \E s \in Sessions :
       /\ IF Owned(q, req[q].inbound)
          THEN s = req[q].inbound /\ UNCHANGED session
          ELSE /\ session[s] = NoOwner
               /\ session' = [session EXCEPT ![s] = req[q].owner]
       /\ Set(q, [req[q] EXCEPT !.pc = "user", !.session = s])
  /\ UNCHANGED <<wire, message, seq, page>>

\* AppendPair inserts one message: its seq is drawn at once, the row is seen
\* after the commit.
Insert(q, role, next) ==
  /\ At(q, role)
  /\ seq' = seq + 1
  /\ Set(q, [req[q] EXCEPT !.pc = next, !.written = @ \cup {<<seq + 1, role>>}])
  /\ UNCHANGED <<wire, session, message, page>>

\* Slip: each message is committed with its own statement.
InsertUserAlone(q) ==
  /\ At(q, "user")
  /\ seq' = seq + 1
  /\ Set(q, [req[q] EXCEPT !.pc = "assistant"])
  /\ message' = message \cup {[session |-> req[q].session, seq |-> seq + 1, role |-> "user",
                               of |-> q, pieces |-> 0]}
  /\ UNCHANGED <<wire, session, page>>

InsertUser(q) == Insert(q, "user", "assistant")
InsertAssistant(q) == Insert(q, "assistant", "commit")

\* The rows that request q has inserted.
Rows(q) == {[session |-> req[q].session, seq |-> w[1], role |-> w[2], of |-> q,
             pieces |-> IF w[2] = "user" THEN 0 ELSE req[q].sent] : w \in req[q].written}

\* Slip: the transaction is left to the deferred Rollback.
CommitForgotten(q) ==
  /\ At(q, "commit")
  /\ Goto(q, "reply")
  /\ UNCHANGED <<wire, session, message, seq, page>>

\* Both messages become visible.
Commit(q) ==
  /\ At(q, "commit")
  /\ message' = message \cup Rows(q)
  /\ Goto(q, "reply")
  /\ UNCHANGED <<wire, session, seq, page>>

\* A statement fails, or the commit; a commit may have been done all the same.
PersistFails(q) ==
  /\ req[q].pc \in {"ensure", "user", "assistant", "commit"}
  /\ Reject(q)
  /\ \/ UNCHANGED message
     \/ At(q, "commit") /\ message' = message \cup Rows(q)
  /\ UNCHANGED <<session, seq, page>>

\* The session is named to the client: in the body, or in the last frame.
Reply(q) ==
  /\ At(q, "reply")
  /\ Set(q, Ended(req[q]))
  /\ IF req[q].kind = "stream"
     THEN Send(q, [ev |-> "done", session |-> req[q].session])
     ELSE UNCHANGED wire
  /\ UNCHANGED <<session, message, seq, page>>
------------------------------------------------------------------------------
(* The network and the ask page.                                           *)

\* The connection breaks; frames on their way are lost.
Break(q) ==
  /\ Open(q) /\ q = page.req
  /\ req' = [req EXCEPT ![q].link = "broken"]
  /\ wire' = [wire EXCEPT ![q] = << >>]
  /\ UNCHANGED <<session, message, seq, page>>

\* Slip: the page keeps what it shows.
RunKeepsAnswer(q) ==
  /\ At(q, "idle") /\ page.ask < MaxAsks
  /\ page' = [page EXCEPT !.ask = @ + 1, !.req = q, !.running = TRUE,
                         !.busy = ~page.running]
  /\ req' = [p \in Requests |->
       IF p = q THEN [IdleReq EXCEPT !.pc = "mode", !.kind = "stream",
                                     !.ask = page.ask + 1, !.link = "open"]
       ELSE IF p = page.req /\ Open(p) THEN [req[p] EXCEPT !.link = "broken"]
       ELSE req[p]]
  /\ wire' = [p \in Requests |-> IF p = page.req THEN << >> ELSE wire[p]]
  /\ UNCHANGED <<session, message, seq>>

\* useAskStream's run: the previous run is aborted, the page cleared.  An
\* aborted run returns at once and takes the busy flag of this one with it.
\* The page does not pass a session.
Run(q) ==
  /\ At(q, "idle") /\ page.ask < MaxAsks
  /\ page' = [ask |-> page.ask + 1, req |-> q, running |-> TRUE, busy |-> ~page.running,
              shown |-> << >>, session |-> NoSession, error |-> FALSE]
  /\ req' = [p \in Requests |->
       IF p = q THEN [IdleReq EXCEPT !.pc = "mode", !.kind = "stream",
                                     !.ask = page.ask + 1, !.link = "open"]
       ELSE IF p = page.req /\ Open(p) THEN [req[p] EXCEPT !.link = "broken"]
       ELSE req[p]]
  /\ wire' = [p \in Requests |-> IF p = page.req THEN << >> ELSE wire[p]]
  /\ UNCHANGED <<session, message, seq>>

\* fetch-event-source opens a broken stream again, with the same body.
Reconnect(q) ==
  /\ At(q, "idle") /\ page.req # NoRequest
  /\ page.running /\ req[page.req].link = "broken"
  /\ Set(q, [IdleReq EXCEPT !.pc = "mode", !.kind = "stream", !.ask = page.ask,
                            !.link = "open"])
  /\ page' = [page EXCEPT !.req = q]
  /\ UNCHANGED <<wire, session, message, seq>>

\* The page takes a frame of its stream.
Receive ==
  LET q == page.req IN
  /\ q # NoRequest /\ Open(q) /\ wire[q] # << >>
  /\ LET f == Head(wire[q]) IN
       page' = CASE f.ev = "token" -> [page EXCEPT !.shown = Append(@, <<q, f.piece>>)]
                 [] f.ev = "done" -> [page EXCEPT !.session = f.session]
                 [] f.ev = "error" -> [page EXCEPT !.error = TRUE]
  /\ wire' = [wire EXCEPT ![q] = Tail(@)]
  /\ UNCHANGED <<req, session, message, seq>>

\* Slip: only a run that ends in an error clears the busy flag.
CloseOnError ==
  LET q == page.req IN
  /\ q # NoRequest /\ Open(q) /\ At(q, "ended") /\ wire[q] = << >>
  /\ page' = [page EXCEPT !.running = FALSE, !.busy = ~page.error]
  /\ req' = [req EXCEPT ![q].link = "closed"]
  /\ UNCHANGED <<wire, session, message, seq>>

\* The end of the stream: streamAsk returns, and run with it.
Close ==
  LET q == page.req IN
  /\ q # NoRequest /\ Open(q) /\ At(q, "ended") /\ wire[q] = << >>
  /\ page' = [page EXCEPT !.running = FALSE, !.busy = FALSE]
  /\ req' = [req EXCEPT ![q].link = "closed"]
  /\ UNCHANGED <<wire, session, message, seq>>
------------------------------------------------------------------------------
HandlerStep(q) ==
  \/ CheckMode(q) \/ Piece(q) \/ StreamEnds(q) \/ Answered(q) \/ AnswerFails(q)
  \/ EnsureSession(q) \/ InsertUser(q) \/ InsertAssistant(q) \/ Commit(q)
  \/ PersistFails(q) \/ Reply(q)

PageStep == Receive \/ Close

Next ==
  \/ \E q \in Requests :
       \/ \E k \in Kinds, o \in Owners, s \in Sessions \cup {NoSession} :
            ApiAsk(q, k, o, s)
       \/ HandlerStep(q) \/ Break(q) \/ Run(q) \/ Reconnect(q)
  \/ PageStep

\* Handlers run, the calls they make return (an answer ends, as the model's
\* reply is bounded), and frames on an open connection arrive.  A connection
\* need not break, and a client need not ask.
Fairness ==
  /\ WF_vars(PageStep)
  /\ \A q \in Requests : WF_vars(HandlerStep(q))

Spec == Init /\ [][Next]_vars /\ Fairness
------------------------------------------------------------------------------
MessagesOf(q) == {m \in message : m.of = q}

\* The abstract view of a request, and of the messages: those of the user are
\* whole, and those of the assistant if they are all that the model answered.
Stage == [q \in Requests |-> IF At(q, "idle") THEN "none"
                             ELSE IF At(q, "ended") THEN "over" ELSE "asked"]
Asker == [q \in Requests |-> IF At(q, "idle") THEN NoOwner ELSE req[q].owner]
Whole(m) == m.role = "user" \/ (req[m.of].eof /\ m.pieces = req[m.of].sent)
Kept == {[session |-> m.session, seq |-> m.seq, role |-> m.role, of |-> m.of,
          whole |-> Whole(m)] : m \in message}

\* The messages are a transcript of questions that were kept with their answers.
\* A stored answer is the whole answer of the model, never what a broken connection
\* or a failing model left of it; a question is never stored without it, nor twice
\* by one request; the pair is in a session of the asker, in this order.
Ledger == INSTANCE Transcript WITH
  Questions <- Requests, stage <- Stage, asker <- Asker, owner <- session, kept <- Kept
ImplementsTranscript == Ledger!Spec

\* Whoever reads a session finds whole pairs: of every question nothing, or it and
\* its answer after it, in a session of the asker, whichever inserts come between
\* and whichever commits fail.
PairsOnly == Ledger!Paired

\* Whatever session id comes with a request, messages go to sessions of the
\* asker only.
OnlyOwnSessions == \A m \in message : session[m.session] = req[m.of].owner

\* The requests the page made for its question, the first and those after a
\* broken connection, and the one whose end it was told.
OfPage == {q \in Requests : page.ask # NoAsk /\ req[q].ask = page.ask}
Finished == {q \in OfPage : req[q].session = page.session}

\* A session that the page was told of, or that a body with status 200 names,
\* has the pair: the answer can be read again.
ReportedIsStored ==
  /\ page.session # NoSession => \E q \in Finished : MessagesOf(q) # {}
  /\ \A q \in Requests : req[q].kind # "stream" /\ req[q].status = 200 => MessagesOf(q) # {}

\* Where the page shows a piece of the answer of q.
PlacesOf(q) == {i \in DOMAIN page.shown : page.shown[i][1] = q}

\* The page shows the first n pieces of the answer of q, each once and in order.
Shows(q, n) ==
  /\ {page.shown[i][2] : i \in PlacesOf(q)} = 1..n
  /\ \A i, j \in PlacesOf(q) : i < j => page.shown[i][2] < page.shown[j][2]

\* When the page is told the end, it has shown every piece of the answer that
\* was stored, once and in order; and nothing of another question, even if
\* its run was aborted for this one.
ShowsStoredAnswer ==
  /\ page.session # NoSession => \E q \in Finished : Shows(q, req[q].sent)
  /\ \A i \in DOMAIN page.shown : page.shown[i][1] \in OfPage

\* A run of the page ends and leaves the page ready for a question, unless its
\* connection breaks.
RunEnds == page.running ~> (~page.running /\ ~page.busy) \/ req[page.req].link = "broken"

\* "accumulates the streamed answer" (useAskStream.ts:16): when its run is over
\* the page shows the answer.
ShownIsAnswer ==
  page.session # NoSession /\ ~page.running => Len(page.shown) = req[page.req].sent
==============================================================================
