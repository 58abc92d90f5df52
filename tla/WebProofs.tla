------------------------------- MODULE WebProofs -------------------------------
(***************************************************************************)
(* Proofs about the browser's side: TokenRefresh and, in its second half,  *)
(* ProgressView.  They share no state.                                     *)
(*                                                                         *)
(* TokenRefresh, for any number of calls and tokens.  A token that is on   *)
(* its way is newer than all that the page has used, because nobody else   *)
(* is given one meanwhile: while a refresh is under way the user is signed *)
(* in, and while a login is under way nothing else is.                     *)
(*                                                                         *)
(* ProgressView, for any number of documents.  A row that is shown as      *)
(* unfinished and is not listened to any more belongs to a document whose  *)
(* status is final, and the list that shows it so is on its way.           *)
(***************************************************************************)
EXTENDS TokenRefresh, ProgressView, TLAPS

\* No token is newer than the last one that was issued.
IssuedOK ==
  /\ token <= issued /\ \A c \in Calls : call[c].first <= issued /\ call[c].with <= issued

\* Signed out, nothing is under way; a login is sent only then; a logout is the
\* only call; a refresh has a call that waits for it.
ScreenOK ==
  /\ ~signedIn => /\ token = NoToken /\ flight.pc = "none"
                  /\ \A c \in Calls : ~Pending(c)
  /\ login.pc # "none" => ~signedIn
  /\ \A c, d \in Calls : call[c].out /\ Pending(c) /\ Pending(d) => c = d
  /\ flight.pc # "none" => \E c \in Calls : At(c, "waiting")

\* The token of an answer that the page has not seen is newer than all it has used.
AnswerOK ==
  /\ flight.pc = "answered" => /\ flight.with = issued /\ token < issued
                               /\ \A c \in Calls : At(c, "idle") \/ (call[c].first < issued /\ call[c].with < issued)
  /\ login.pc = "answered" => /\ login.with = issued /\ login.with > 0
                              /\ \A c \in Calls : At(c, "idle") \/ call[c].with < issued

IInv == TypeOK /\ IssuedOK /\ ScreenOK /\ AnswerOK /\ RepeatIsFresh
------------------------------------------------------------------------------
\* A call that ends.
LEMMA EndCall ==
  ASSUME TypeOK, NEW c \in Calls, NEW result \in {"ok", "unauthorized", "failed"}, End(c, result)
  PROVE  /\ call' \in [Calls -> Call] /\ \A d \in Calls \ {c} : call'[d] = call[d]
         /\ call'[c].pc = "ended" /\ call'[c].out = call[c].out
         /\ call'[c].first = call[c].first /\ call'[c].with = call[c].with
         /\ IF call[c].out THEN token' = NoToken /\ ~signedIn' ELSE UNCHANGED <<token, signedIn>>
<1>1. call[c] \in Call
  BY DEF TypeOK
<1>2. [call[c] EXCEPT !.pc = "ended", !.result = result] \in Call
  BY <1>1 DEF Call
<1>3. call' = [call EXCEPT ![c] = [call[c] EXCEPT !.pc = "ended", !.result = result]]
  BY DEF End
<1> QED
  BY <1>1, <1>2, <1>3 DEF End, TypeOK, Call

\* The steps of one call of apiFetch, apart from its end.
LEMMA CallTyped ==
  ASSUME TypeOK, NEW c \in Calls, Send(c) \/ SignOut(c) \/ Denied(c) \/ Unauthorized(c),
         ~\E result \in {"ok", "unauthorized", "failed"} : End(c, result)
  PROVE  /\ call' \in [Calls -> Call] /\ \A d \in Calls \ {c} : call'[d] = call[d]
         /\ UNCHANGED <<token, signedIn>>
         /\ call'[c].pc \in {"first", "denied", "waiting"}
         /\ \/ call'[c].first = token /\ call'[c].with = token
            \/ /\ call'[c].first = call[c].first /\ call'[c].with = call[c].with
               /\ call'[c].out = call[c].out /\ ~At(c, "idle") /\ Pending(c)
<1>1. call[c] \in Call /\ token \in Token
  BY DEF TypeOK
<1>2. CASE Send(c) \/ SignOut(c)
  <2>1. PICK r \in Call : /\ call' = [call EXCEPT ![c] = r]
                          /\ r.pc = "first" /\ r.first = token /\ r.with = token
    <3>1. CASE Send(c)
      <4>1. [Idle EXCEPT !.pc = "first", !.first = token, !.with = token] \in Call
        BY <1>1 DEF Idle, Call, NoToken, Token
      <4> QED
        BY <3>1, <4>1 DEF Send, Idle
    <3>2. CASE SignOut(c)
      <4>1. [Idle EXCEPT !.pc = "first", !.out = TRUE, !.first = token, !.with = token] \in Call
        BY <1>1 DEF Idle, Call, NoToken, Token
      <4> QED
        BY <3>2, <4>1 DEF SignOut, Idle
    <3> QED
      BY <1>2, <3>1, <3>2
  <2> QED
    BY <1>2, <2>1 DEF Send, SignOut, TypeOK
<1>3. CASE Denied(c) \/ Unauthorized(c)
  <2>1. PICK pc \in {"denied", "waiting"} :
          call' = [call EXCEPT ![c] = [call[c] EXCEPT !.pc = pc]]
    BY <1>3 DEF Denied, Unauthorized
  <2>2. [call[c] EXCEPT !.pc = pc] \in Call
    BY <1>1 DEF Call
  <2> QED
    BY <1>1, <1>3, <2>1, <2>2 DEF Denied, Unauthorized, TypeOK, Call, At, Pending
<1> QED
  BY <1>2, <1>3

\* All that wait go on together.
LEMMA WaitingTyped ==
  ASSUME TypeOK, Refreshed \/ RefreshFailed
  PROVE  /\ call' \in [Calls -> Call]
         /\ \A c \in Calls :
              /\ call'[c].out = call[c].out /\ call'[c].first = call[c].first
              /\ ~At(c, "waiting") => call'[c] = call[c]
              /\ At(c, "waiting") /\ Refreshed =>
                   call'[c].pc = "again" /\ call'[c].with = flight.with
              /\ At(c, "waiting") /\ RefreshFailed =>
                   call'[c].pc = "ended" /\ call'[c].with = call[c].with
<1>1. \A c \in Calls : call[c] \in Call
  BY DEF TypeOK
<1>2. flight.with \in Token
  BY DEF TypeOK
<1>3. CASE Refreshed
  <2>1. \A c \in Calls : [call[c] EXCEPT !.pc = "again", !.with = flight.with] \in Call
    BY <1>1, <1>2 DEF Call
  <2> QED
    BY <1>1, <1>3, <2>1 DEF Refreshed, RefreshFailed, Call, At
<1>4. CASE RefreshFailed
  <2>1. \A c \in Calls : [call[c] EXCEPT !.pc = "ended", !.result = "error"] \in Call
    BY <1>1 DEF Call
  <2> QED
    BY <1>1, <1>4, <2>1 DEF Refreshed, RefreshFailed, Call, At
<1> QED
  BY <1>3, <1>4

\* What the requests of a call have to do with the rest, for each way one can end.
LEMMA EndSteps ==
  ASSUME NEW c \in Calls, Served(c) \/ Unauthorized(c) \/ Fails(c)
  PROVE  /\ UNCHANGED <<flight, login, issued, valid>> /\ session' \in {session, 0}
         /\ \/ /\ call[c].pc \in {"first", "denied", "again"}
               /\ \E result \in {"ok", "unauthorized", "failed"} : End(c, result)
            \/ At(c, "first") /\ call' = [call EXCEPT ![c].pc = "denied"] /\ UNCHANGED <<token, signedIn>>
BY DEF Served, Unauthorized, Fails, authz, At

LEMMA TypeStep ==
  ASSUME TypeOK, [Next]_vars
  PROVE  TypeOK'
<1>0. 0 \in Token /\ (TypeOK /\ issued < MaxTokens => issued + 1 \in Token)
  BY TokenAssumption DEF Token, TypeOK
<1> USE <1>0 DEF NoToken
<1>1. ASSUME NEW c \in Calls, Send(c) \/ SignOut(c) \/ Denied(c)
      PROVE  TypeOK'
  <2>1. call' \in [Calls -> Call] /\ UNCHANGED <<token, signedIn>>
    <3>1. CASE \E result \in {"ok", "unauthorized", "failed"} : End(c, result)
      BY <1>1, <3>1, EndCall DEF Send, SignOut, Denied
    <3> QED
      BY <1>1, <3>1, CallTyped
  <2>2. flight' \in [pc: {"none", "sent", "answered", "refused"}, with: Token]
    BY <1>1 DEF Send, SignOut, Denied, TypeOK
  <2>3. UNCHANGED <<login, issued, valid, session>>
    BY <1>1 DEF Send, SignOut, Denied, authz
  <2> QED
    BY <2>1, <2>2, <2>3 DEF TypeOK
<1>2. ASSUME NEW c \in Calls, Served(c) \/ Unauthorized(c) \/ Fails(c) PROVE TypeOK'
  <2>1. CASE \E result \in {"ok", "unauthorized", "failed"} : End(c, result)
    <3>0. PICK result \in {"ok", "unauthorized", "failed"} : End(c, result)
      BY <2>1
    <3>1. call' \in [Calls -> Call] /\ token' \in Token
      BY <3>0, EndCall DEF TypeOK
    <3>2. signedIn' \in BOOLEAN
      BY <3>0 DEF End, TypeOK
    <3> QED
      BY <1>2, <3>1, <3>2, EndSteps DEF TypeOK
  <2>2. CASE /\ call' = [call EXCEPT ![c].pc = "denied"] /\ UNCHANGED <<token, signedIn>>
    <3>0. call[c] \in Call /\ [call[c] EXCEPT !.pc = "denied"] \in Call
      BY DEF TypeOK, Call
    <3>1. call' \in [Calls -> Call]
      BY <2>2, <3>0 DEF TypeOK
    <3> QED
      BY <1>2, <2>2, <3>1, EndSteps DEF TypeOK
  <2> QED
    BY <1>2, <2>1, <2>2, EndSteps
<1>3. CASE ServeRefresh \/ RefreshLost
  <2>1. UNCHANGED <<token, call, signedIn, login, session>>
    BY <1>3 DEF ServeRefresh, RefreshLost, authz
  <2>2. /\ flight' \in [pc: {"none", "sent", "answered", "refused"}, with: Token]
        /\ issued' \in Token /\ valid' \subseteq Token
    BY <1>3 DEF ServeRefresh, RefreshLost, authz, Issue, TypeOK
  <2> QED
    BY <2>1, <2>2 DEF TypeOK
<1>4. CASE Refreshed \/ RefreshFailed
  <2>1. call' \in [Calls -> Call]
    BY <1>4, WaitingTyped
  <2> QED
    <3>1. signedIn' \in BOOLEAN
      BY <1>4 DEF Refreshed, RefreshFailed, TypeOK
    <3>2. /\ token' \in Token /\ flight' \in [pc: {"none", "sent", "answered", "refused"}, with: Token]
          /\ UNCHANGED <<login, issued, valid, session>>
      <4>1. /\ token' \in {flight.with, 0} /\ flight' = NoRequest
            /\ UNCHANGED <<login, issued, valid, session>>
        BY <1>4 DEF Refreshed, RefreshFailed, authz
      <4> QED
        BY <4>1 DEF TypeOK, NoRequest
    <3> QED
      BY <2>1, <3>1, <3>2 DEF TypeOK
<1>5. CASE SignIn \/ ServeLogin \/ LoginFails \/ SignedIn
  <2>1. signedIn' \in BOOLEAN
    BY <1>5 DEF SignIn, ServeLogin, LoginFails, SignedIn, TypeOK
  <2>2. /\ token' \in Token /\ login' \in [pc: {"none", "sent", "answered"}, with: Token]
        /\ UNCHANGED <<flight, call>>
    BY <1>5 DEF SignIn, ServeLogin, LoginFails, SignedIn, Issue, TypeOK, NoRequest
  <2>3. issued' \in Token /\ valid' \subseteq Token /\ session' \in Token
    BY <1>5 DEF SignIn, ServeLogin, LoginFails, SignedIn, Issue, TypeOK, authz
  <2> QED
    BY <2>1, <2>2, <2>3 DEF TypeOK
<1>6. CASE Expires
  <2>1. valid' \subseteq Token /\ session' \in Token
    BY <1>6 DEF Expires, TypeOK
  <2>2. UNCHANGED <<token, flight, call, signedIn, login, issued>>
    BY <1>6 DEF Expires
  <2> QED
    BY <2>1, <2>2 DEF TypeOK
<1>7. CASE UNCHANGED vars
  BY <1>7 DEF vars, TypeOK
<1> QED
  BY <1>1, <1>2, <1>3, <1>4, <1>5, <1>6, <1>7 DEF Next, Network

\* Tokens are numbers.
LEMMA Numbers ==
  ASSUME TypeOK
  PROVE  /\ token \in Nat /\ issued \in Nat /\ flight.with \in Nat /\ login.with \in Nat
         /\ \A c \in Calls : call[c].first \in Nat /\ call[c].with \in Nat
BY TokenAssumption DEF TypeOK, Token, Call

\* A call that ends: if it was a logout, nothing else was under way.
LEMMA EndInv ==
  ASSUME IInv, NEW c \in Calls, NEW result \in {"ok", "unauthorized", "failed"},
         call[c].pc \in {"first", "denied", "again"}, End(c, result), UNCHANGED <<flight, login, issued>>
  PROVE  (IssuedOK /\ ScreenOK /\ AnswerOK /\ RepeatIsFresh)'
<1> USE DEF NoToken
<1>1. /\ \A d \in Calls \ {c} : call'[d] = call[d]
      /\ call'[c].pc = "ended" /\ call'[c].out = call[c].out
      /\ call'[c].first = call[c].first /\ call'[c].with = call[c].with
      /\ IF call[c].out THEN token' = 0 /\ ~signedIn' ELSE UNCHANGED <<token, signedIn>>
  BY EndCall DEF IInv
<1>2. Pending(c) /\ signedIn /\ login.pc = "none"
  BY DEF IInv, ScreenOK, Pending
<1>3. \A d \in Calls : Pending(d)' => Pending(d) /\ d # c
  BY <1>1 DEF Pending
<1>4. \A d \in Calls : At(d, "waiting") => At(d, "waiting")'
  BY <1>1 DEF At
<1>5. IssuedOK' /\ AnswerOK' /\ RepeatIsFresh'
  BY <1>1, Numbers DEF IInv, IssuedOK, AnswerOK, RepeatIsFresh, At
<1>6. call[c].out => /\ flight.pc = "none" /\ \A d \in Calls : ~Pending(d)'
  BY <1>2, <1>3 DEF IInv, ScreenOK, At, Pending
<1>7. \A d, e \in Calls : call'[d].out /\ Pending(d)' /\ Pending(e)' => d = e
  BY <1>1, <1>3 DEF IInv, ScreenOK
<1>8. ScreenOK'
  BY <1>1, <1>2, <1>3, <1>4, <1>6, <1>7 DEF IInv, ScreenOK
<1> QED
  BY <1>5, <1>8

\* The other steps of a call, which somebody who is signed in makes.
LEMMA CallInv ==
  ASSUME IInv, Quiet, NEW c \in Calls,
         \/ Send(c) \/ SignOut(c) \/ Denied(c)
         \/ /\ At(c, "first") /\ call' = [call EXCEPT ![c].pc = "denied"]
            /\ UNCHANGED <<token, signedIn, flight, login, issued>>
  PROVE  (IssuedOK /\ ScreenOK /\ AnswerOK /\ RepeatIsFresh)'
<1> USE DEF NoToken
<1>0. TypeOK /\ call[c] \in Call
  BY DEF IInv, TypeOK
<1>1. UNCHANGED <<token, signedIn, login, issued>> /\ signedIn /\ login.pc = "none"
  <2>1. UNCHANGED <<token, signedIn, login, issued>>
    BY DEF Send, SignOut, Denied, authz
  <2>2. signedIn
    BY DEF Send, SignOut, Denied, IInv, ScreenOK, Pending, At
  <2> QED
    BY <2>1, <2>2 DEF IInv, ScreenOK
<1>2. CASE Send(c) \/ SignOut(c)
  <2>1. /\ \A d \in Calls \ {c} : call'[d] = call[d]
        /\ call'[c].pc = "first" /\ call'[c].first = token /\ call'[c].with = token
        /\ call'[c].out => \A d \in Calls : ~Pending(d)
        /\ ~LeavingNow
    <3>1. CASE Send(c)
      BY <1>0, <3>1 DEF Send, TypeOK, Idle
    <3>2. CASE SignOut(c)
      BY <1>0, <3>2 DEF SignOut, TypeOK, Idle, LeavingNow
    <3> QED
      BY <1>2, <3>1, <3>2
  <2>2. UNCHANGED flight /\ At(c, "idle")
    BY <1>2 DEF Send, SignOut
  <2>3. IssuedOK' /\ AnswerOK' /\ RepeatIsFresh'
    BY <1>0, <1>1, <2>1, <2>2, Numbers DEF IInv, IssuedOK, AnswerOK, RepeatIsFresh, At
  <2>4. \A d, e \in Calls : call'[d].out /\ Pending(d)' /\ Pending(e)' => d = e
    BY <2>1 DEF Pending, LeavingNow
  <2>5. \A d \in Calls : At(d, "waiting") => At(d, "waiting")'
    BY <2>1, <2>2 DEF At
  <2>6. ScreenOK'
    BY <1>1, <2>2, <2>4, <2>5 DEF IInv, ScreenOK
  <2> QED
    BY <2>3, <2>6
<1>3. CASE ~(Send(c) \/ SignOut(c))
  <2>1. PICK pc \in {"denied", "waiting"} :
          /\ call' = [call EXCEPT ![c] = [call[c] EXCEPT !.pc = pc]]
          /\ UNCHANGED flight \/ (pc = "waiting" /\ flight'.pc = "sent")
          /\ Pending(c) /\ ~At(c, "waiting")
    BY <1>3 DEF Denied, At, Pending
  <2>2. /\ \A d \in Calls \ {c} : call'[d] = call[d]
        /\ call'[c].pc = pc /\ call'[c].first = call[c].first /\ call'[c].with = call[c].with
        /\ call'[c].out = call[c].out
    BY <1>0, <2>1 DEF TypeOK, Call
  <2>3. IssuedOK' /\ AnswerOK' /\ RepeatIsFresh'
    BY <1>0, <1>1, <2>1, <2>2, Numbers DEF IInv, IssuedOK, AnswerOK, RepeatIsFresh, At, Pending
  <2>4. \A d \in Calls : Pending(d)' => Pending(d)
    BY <2>1, <2>2 DEF Pending
  <2>5. flight'.pc # "none" => \E d \in Calls : At(d, "waiting")'
    BY <2>1, <2>2 DEF IInv, ScreenOK, At
  <2>6. \A d, e \in Calls : call'[d].out /\ Pending(d)' /\ Pending(e)' => d = e
    BY <2>2, <2>4 DEF IInv, ScreenOK
  <2>7. ScreenOK'
    BY <1>1, <2>5, <2>6 DEF IInv, ScreenOK
  <2> QED
    BY <2>3, <2>7
<1> QED
  BY <1>2, <1>3

\* The answer of a refresh reaches the page.
LEMMA RefreshInv ==
  ASSUME IInv, Refreshed \/ RefreshFailed
  PROVE  (IssuedOK /\ ScreenOK /\ AnswerOK /\ RepeatIsFresh)'
<1> USE DEF NoToken
<1>0. TypeOK
  BY DEF IInv
<1>1. PICK w \in Calls : At(w, "waiting")
  BY DEF IInv, ScreenOK, Refreshed, RefreshFailed
<1>2. signedIn /\ login.pc = "none"
  BY <1>1 DEF IInv, ScreenOK, Pending, At
<1>3. flight' = NoRequest /\ UNCHANGED <<login, issued>>
  BY DEF Refreshed, RefreshFailed, authz
<1>4. \A d \in Calls : Pending(d)' => Pending(d)
  BY <1>0, WaitingTyped DEF Pending, At
<1>5. \A d, e \in Calls : call'[d].out /\ Pending(d)' /\ Pending(e)' => d = e
  BY <1>0, <1>4, WaitingTyped DEF IInv, ScreenOK
<1>6. CASE Refreshed
  <2>1. flight.with = issued /\ token' = issued /\ UNCHANGED signedIn
    BY <1>6 DEF Refreshed, IInv, AnswerOK
  <2>2. /\ \A d \in Calls : At(d, "waiting") => call[d].first < issued
        /\ \A d \in Calls : At(d, "again")' => At(d, "again") \/ At(d, "waiting")
    BY <1>0, <1>6, WaitingTyped DEF Refreshed, IInv, AnswerOK, At
  <2>3. IssuedOK' /\ RepeatIsFresh'
    BY <1>0, <1>3, <1>6, <2>1, <2>2, WaitingTyped, Numbers DEF IInv, IssuedOK, RepeatIsFresh, At
  <2>4. AnswerOK'
    BY <1>2, <1>3 DEF AnswerOK, NoRequest
  <2>5. ScreenOK'
    BY <1>2, <1>3, <1>5, <2>1 DEF ScreenOK, NoRequest
  <2> QED
    BY <2>3, <2>4, <2>5
<1>7. CASE RefreshFailed
  <2>1. token' = 0 /\ (signedIn' \/ \E c \in Calls : At(c, "waiting") /\ call[c].out)
    BY <1>2, <1>7 DEF RefreshFailed
  <2>2. IssuedOK' /\ RepeatIsFresh'
    BY <1>0, <1>3, <1>7, <2>1, WaitingTyped, Numbers DEF IInv, IssuedOK, RepeatIsFresh, At
  <2>3. AnswerOK'
    BY <1>2, <1>3 DEF AnswerOK, NoRequest
  <2>4. ~signedIn' => \A d \in Calls : ~Pending(d)'
    <3>1. SUFFICES ASSUME NEW c \in Calls, At(c, "waiting"), call[c].out
                   PROVE  \A d \in Calls : ~Pending(d)'
      BY <2>1
    <3>2. \A d \in Calls : Pending(d) => d = c
      BY <3>1 DEF IInv, ScreenOK, Pending, At
    <3>3. ~Pending(c)'
      BY <1>0, <1>7, <3>1, WaitingTyped DEF Pending
    <3> QED
      BY <1>4, <3>2, <3>3
  <2>5. ScreenOK'
    BY <1>2, <1>3, <1>5, <2>1, <2>4 DEF ScreenOK, NoRequest
  <2> QED
    BY <2>2, <2>3, <2>5
<1> QED
  BY <1>6, <1>7

\* While users sign out when nothing is under way, each step keeps the invariant.
LEMMA StepInv ==
  ASSUME IInv, Quiet, [Next]_vars
  PROVE  IInv'
<1> USE DEF NoToken
<1>1. TypeOK'
  BY TypeStep DEF IInv
<1> SUFFICES (IssuedOK /\ ScreenOK /\ AnswerOK /\ RepeatIsFresh)'
  BY <1>1 DEF IInv
<1>2. ASSUME NEW c \in Calls, Send(c) \/ SignOut(c) \/ Denied(c)
      PROVE  (IssuedOK /\ ScreenOK /\ AnswerOK /\ RepeatIsFresh)'
  BY <1>2, CallInv
<1>3. ASSUME NEW c \in Calls, Served(c) \/ Unauthorized(c) \/ Fails(c)
      PROVE  (IssuedOK /\ ScreenOK /\ AnswerOK /\ RepeatIsFresh)'
  BY <1>3, EndSteps, EndInv, CallInv
<1>4. CASE ServeRefresh \/ RefreshLost
  <2>1. UNCHANGED <<token, call, signedIn, login>> /\ flight.pc # "none" /\ signedIn /\ login.pc = "none"
    BY <1>4 DEF ServeRefresh, RefreshLost, authz, IInv, ScreenOK
  <2>2. \/ flight'.pc # "answered" /\ UNCHANGED issued
        \/ flight'.pc = "answered" /\ flight'.with = issued + 1 /\ issued' = issued + 1
    BY <1>4 DEF ServeRefresh, RefreshLost, authz, Issue, IInv, TypeOK
  <2>3. IssuedOK' /\ AnswerOK' /\ RepeatIsFresh'
    BY <2>1, <2>2, Numbers DEF IInv, IssuedOK, AnswerOK, RepeatIsFresh, At
  <2>4. ScreenOK'
    BY <2>1 DEF IInv, ScreenOK, Pending, At
  <2> QED
    BY <2>3, <2>4
<1>5. CASE Refreshed \/ RefreshFailed
  BY <1>5, RefreshInv
<1>6. CASE SignIn \/ ServeLogin \/ LoginFails \/ SignedIn
  <2>1. UNCHANGED <<flight, call>> /\ ~signedIn /\ flight.pc = "none" /\ token = 0
    BY <1>6 DEF SignIn, ServeLogin, LoginFails, SignedIn, IInv, ScreenOK
  <2>2. CASE SignIn \/ LoginFails
    <3>1. login'.pc # "answered" /\ UNCHANGED <<token, signedIn, issued>>
      BY <2>2 DEF SignIn, LoginFails, authz, NoRequest
    <3> QED
      BY <2>1, <3>1 DEF IInv, IssuedOK, ScreenOK, AnswerOK, RepeatIsFresh, At, Pending
  <2>3. CASE ServeLogin
    <3>1. /\ login'.pc = "answered" /\ login'.with = issued + 1 /\ issued' = issued + 1
          /\ UNCHANGED <<token, signedIn>>
      BY <2>3 DEF ServeLogin, Issue
    <3>2. IssuedOK' /\ AnswerOK' /\ RepeatIsFresh'
      BY <2>1, <3>1, Numbers DEF IInv, IssuedOK, AnswerOK, RepeatIsFresh, At
    <3>3. ScreenOK'
      BY <2>1, <3>1 DEF IInv, ScreenOK, Pending, At
    <3> QED
      BY <3>2, <3>3
  <2>4. CASE SignedIn
    <3>1. /\ login' = NoRequest /\ token' = issued /\ UNCHANGED issued /\ signedIn'
      BY <2>4 DEF SignedIn, authz, IInv, AnswerOK
    <3>2. IssuedOK' /\ AnswerOK' /\ RepeatIsFresh'
      BY <2>1, <3>1, Numbers DEF IInv, IssuedOK, AnswerOK, RepeatIsFresh, At, NoRequest
    <3>3. ScreenOK'
      BY <2>1, <3>1 DEF IInv, ScreenOK, Pending, At, NoRequest
    <3> QED
      BY <3>2, <3>3
  <2> QED
    BY <1>6, <2>2, <2>3, <2>4
<1>7. CASE Expires \/ UNCHANGED vars
  BY <1>7 DEF Expires, vars, IInv, IssuedOK, ScreenOK, AnswerOK, RepeatIsFresh, At, Pending
<1> QED
  BY <1>2, <1>3, <1>4, <1>5, <1>6, <1>7 DEF Next, Network

\* The initial states.
LEMMA InitInv == Init => IInv
<1> SUFFICES ASSUME Init PROVE IInv
  OBVIOUS
<1>1. TypeOK
  <2>1. 0 \in Token
    BY TokenAssumption DEF Token
  <2>2. Idle \in Call
    BY <2>1 DEF Idle, Call, NoToken
  <2>3. call \in [Calls -> Call]
    BY <2>2 DEF Init
  <2>4. NoRequest \in [pc: {"none"}, with: Token]
    BY <2>1 DEF NoRequest
  <2> QED
    BY <2>1, <2>3, <2>4 DEF Init, TypeOK, NoRequest, NoToken
<1>2. IssuedOK /\ ScreenOK /\ AnswerOK /\ RepeatIsFresh
  BY DEF Init, IssuedOK, ScreenOK, AnswerOK, RepeatIsFresh, Idle, NoRequest, NoToken, At, Pending
<1> QED
  BY <1>1, <1>2 DEF IInv

\* The types hold at all times, however users sign in and out.
THEOREM TypeCorrect == Spec => []TypeOK
<1>1. Init => TypeOK
  BY InitInv DEF IInv
<1> QED
  BY <1>1, TypeStep, PTL DEF Spec

\* The invariant holds at all times if users sign out when nothing is under way.
THEOREM TokensCorrect == ASSUME Quiet PROVE Spec => []IInv
<1>1. IInv /\ [Next]_vars => IInv'
  BY StepInv
<1> QED
  BY <1>1, InitInv, PTL DEF Spec

\* The one repetition of a request carries a newer token than was refused, for any
\* number of calls that share refreshes.
THEOREM RepeatsAreFresh == ASSUME Quiet PROVE Spec => []RepeatIsFresh
<1>1. IInv => RepeatIsFresh
  BY DEF IInv
<1> QED
  BY <1>1, TokensCorrect, PTL

\* Each token that the page takes is newer than all that its calls carry.
THEOREM TokensAdvance == ASSUME Quiet PROVE Spec => TokenNeverOlder
<1>1. IInv /\ [Next]_vars =>
        [token' \notin {token, NoToken} => \A c \in Calls : call[c].with < token' \/ At(c, "idle")]_vars
  <2> SUFFICES ASSUME IInv, Next, token' \notin {token, NoToken}, NEW c \in Calls
               PROVE  call[c].with < token' \/ At(c, "idle")
    OBVIOUS
  <2>1. CASE Refreshed
    BY <2>1, Numbers DEF Refreshed, IInv, AnswerOK
  <2>2. CASE SignedIn
    BY <2>2, Numbers DEF SignedIn, IInv, AnswerOK
  <2>3. CASE ~Refreshed /\ ~SignedIn
    <3>1. token' \in {token, NoToken}
      BY <2>3 DEF Next, Network, Send, SignOut, Denied, Served, Unauthorized, Fails, End, ServeRefresh,
         RefreshLost, RefreshFailed, SignIn, ServeLogin, LoginFails, Expires
    <3> QED
      BY <3>1
  <2> QED
    BY <2>1, <2>2, <2>3
<1> QED
  BY <1>1, TokensCorrect, PTL DEF Spec, TokenNeverOlder
------------------------------------------------------------------------------
(* ProgressView: the documents table.                                      *)

Stream == [pc: {"none", "opening", "open", "ended", "broken"}, frames: BOOLEAN]

\* A row is shown as unfinished, or soon will be.
Shown(d) == Unfinished(list[d])
Over(d) == ~Unfinished(Status(d))

\* A document that some list has shown is there or was.
ListedWasThere ==
  \A d \in Docs : status[d] = "absent" => ~Shown(d) /\ ~Unfinished(seen[d])

\* The page hears no more of the document: its stream is closed, or is about to be.
Unheard(d) == stream[d].pc = "none" \/ (stream[d].pc = "ended" /\ ~stream[d].frames)

\* A stream is at its end because the status is final.  The page that hears no
\* more of an unfinished row has asked for the list, and is to see it finished.
EndSettled ==
  \A d \in Docs : Shown(d) =>
    /\ stream[d].pc = "ended" => Over(d)
    /\ Unheard(d) =>
         /\ Over(d)
         /\ \/ fetch \in {"sent", "failed"}
            \/ fetch = "read" /\ ~Unfinished(seen[d])

ViewInv == TableOK /\ ListedWasThere /\ EndSettled

\* The status of a document is one of those that a list may have.
LEMMA StatusTyped ==
  ASSUME TableOK, NEW d \in Docs
  PROVE  /\ Status(d) \in Statuses
         /\ status[d] = "absent" => Over(d)
         /\ Over(d) <=> status[d] \notin {"pending", "parsing"}
BY DEF TableOK, Status, Statuses, Unfinished, Over

\* One stream is put, the others stay.
LEMMA PutStream ==
  ASSUME TableOK, NEW d \in Docs, NEW r \in Stream, Put(d, r)
  PROVE  /\ stream' \in [Docs -> Stream] /\ stream'[d] = r
         /\ \A e \in Docs \ {d} : stream'[e] = stream[e]
BY DEF TableOK, Put, Stream

\* The initial state.
LEMMA ViewInit == TableInit => ViewInv
<1> SUFFICES ASSUME TableInit PROVE ViewInv
  OBVIOUS
<1>1. /\ status \in [Docs -> {"absent", "pending", "parsing", "ready", "failed"}]
      /\ list = [d \in Docs |-> "gone"] /\ seen = list
      /\ loaded = FALSE /\ fetch = "sent" /\ stream = [d \in Docs |-> NoStream]
  BY DEF TableInit
<1>2. NoStream \in Stream /\ NoStream.pc = "none"
  BY DEF NoStream, Stream
<1>3. TableOK
  BY <1>1, <1>2 DEF TableOK, Statuses, Stream
<1>4. \A d \in Docs : ~Shown(d) /\ ~Unfinished(seen[d])
  BY <1>1 DEF Shown, Unfinished
<1> QED
  BY <1>3, <1>4 DEF ViewInv, ListedWasThere, EndSettled

\* What a statement of the queue does to the status of one document.
LEMMA QueueStep ==
  ASSUME TableOK, Queue
  PROVE  /\ status' \in [Docs -> Statuses \cup {"absent"}]
         /\ UNCHANGED <<list, loaded, fetch, seen, stream>>
         /\ \A d \in Docs : status'[d] = "absent" => status[d] = "absent"
         /\ \A d \in Docs : Over(d) /\ status[d] # "absent" => Over(d)' \/ Reopens \/ ~Shown(d)
<1>1. PICK e \in Docs, s \in Statuses : Written(e, s)
  BY DEF Queue
<1>2. status \in [Docs -> Statuses \cup {"absent"}]
  BY DEF TableOK
<1>3. /\ status' \in [Docs -> Statuses \cup {"absent"}]
      /\ status'[e] = s /\ \A d \in Docs \ {e} : status'[d] = status[d]
      /\ UNCHANGED <<list, loaded, fetch, seen, stream>>
  BY <1>1, <1>2 DEF Written
<1>4. s # "absent"
  BY DEF Statuses
<1>5. ASSUME NEW d \in Docs, Over(d), status[d] # "absent", ~Reopens, Shown(d)
      PROVE  Over(d)'
  <2>1. CASE d # e
    BY <1>3, <1>5, <2>1 DEF Over, Status
  <2>2. CASE d = e
    <3>1. status[d] \in {"ready", "failed"}
      BY <1>1, <1>2, <1>5, <2>2, StatusTyped DEF Written, Statuses
    <3>2. ~Unfinished(s)
      BY <1>1, <1>5, <2>2, <3>1 DEF Written, Shown
    <3> QED
      BY <1>3, <1>4, <2>2, <3>2 DEF Over, Status
  <2> QED
    BY <2>1, <2>2
<1> QED
  BY <1>3, <1>4, <1>5

\* The steps of one stream.
LEMMA StreamTyped ==
  ASSUME TableOK, NEW d \in Docs, StreamStep(d) \/ Break(d) \/ Reopen(d)
  PROVE  \E r \in Stream :
           /\ Put(d, r) /\ UNCHANGED <<status, list, loaded, seen>>
           /\ fetch' = fetch \/ Invalidate
           /\ stream[d].pc = "none" => r.pc = "none"
           /\ r.pc = "none" => Unheard(d)
           /\ r.pc = "ended" => \/ (Over(d) \/ StatusFaults) /\ r.frames
                                \/ stream[d].pc = "ended" /\ Invalidate
<1>0. stream[d] \in Stream
  BY DEF TableOK, Stream
<1>1. CASE Connect(d)
  <2>1. [stream[d] EXCEPT !.pc = "open"] \in Stream
    BY <1>0 DEF Stream
  <2> QED
    BY <1>0, <1>1, <2>1 DEF Connect, Stream
<1>2. CASE Emit(d)
  <2>1. [stream[d] EXCEPT !.frames = TRUE] \in Stream /\ [pc |-> "ended", frames |-> TRUE] \in Stream
    BY <1>0 DEF Stream
  <2> QED
    BY <1>0, <1>2, <2>1 DEF Emit, Stream, Over
<1>3. CASE Frame(d)
  <2>1. [stream[d] EXCEPT !.frames = FALSE] \in Stream
    BY <1>0 DEF Stream
  <2> QED
    BY <1>0, <1>3, <2>1 DEF Frame, Stream, Unheard
<1>4. CASE StreamEnds(d)
  <2>1. NoStream \in Stream /\ NoStream.pc = "none"
    BY DEF NoStream, Stream
  <2> QED
    BY <1>4, <2>1 DEF StreamEnds, Unheard
<1>5. CASE Break(d)
  <2> DEFINE r == [pc |-> "broken", frames |-> FALSE]
  <2>1. r \in Stream /\ r.pc = "broken"
    BY DEF Stream
  <2>2. Put(d, r) /\ stream[d].pc # "none" /\ UNCHANGED <<status, list, loaded, fetch, seen>>
    BY <1>5 DEF Break
  <2> HIDE DEF r
  <2> QED
    BY <2>1, <2>2
<1>6. CASE Reopen(d)
  <2>1. Opening \in Stream /\ Opening.pc = "opening"
    BY DEF Opening, Stream
  <2> QED
    BY <1>6, <2>1 DEF Reopen
<1> QED
  BY <1>1, <1>2, <1>3, <1>4, <1>5, <1>6 DEF StreamStep

\* Types are kept, whoever writes and whatever fails; and what has no list has no
\* stream.
LEMMA ViewTypeStep ==
  ASSUME TableOK, [TableNext]_tableVars
  PROVE  TableOK'
<1>1. CASE Queue
  BY <1>1, QueueStep DEF TableOK
<1>2. CASE Touched \/ FetchFails \/ UNCHANGED tableVars
  BY <1>2 DEF Touched, Invalidate, FetchFails, tableVars, TableOK
<1>3. CASE ReadList
  <2>1. seen' = [d \in Docs |-> Status(d)] /\ \A d \in Docs : Status(d) \in Statuses
    BY <1>3, StatusTyped DEF ReadList
  <2> QED
    BY <1>3, <2>1 DEF ReadList, TableOK
<1>4. CASE ShowList
  <2>1. stream \in [Docs -> Stream] /\ \A d \in Docs : Subscribed(seen, d) \in Stream
    BY DEF TableOK, Stream, Subscribed, Opening, NoStream
  <2> QED
    BY <1>4, <2>1 DEF ShowList, TableOK, Stream
<1>5. ASSUME NEW d \in Docs, StreamStep(d) \/ Break(d) \/ Reopen(d)
      PROVE  TableOK'
  <2>1. PICK r \in Stream :
          /\ Put(d, r) /\ UNCHANGED <<status, list, loaded, seen>>
          /\ fetch' = fetch \/ Invalidate
          /\ stream[d].pc = "none" => r.pc = "none"
    BY <1>5, StreamTyped
  <2>2. /\ stream' \in [Docs -> Stream] /\ stream'[d] = r
        /\ \A e \in Docs \ {d} : stream'[e] = stream[e]
    BY <2>1, PutStream
  <2> QED
    BY <2>1, <2>2 DEF Invalidate, TableOK, Stream
<1> QED
  BY <1>1, <1>2, <1>3, <1>4, <1>5 DEF TableNext, FetchStep

\* A list that is shown anew opens the streams it needs.
LEMMA ShowListStep ==
  ASSUME ViewInv, ShowList
  PROVE  ViewInv'
<1>1. /\ fetch = "read" /\ fetch' = "idle" /\ list' = seen /\ seen' = seen
      /\ status' = status /\ loaded' = TRUE
      /\ stream' = IF seen = list THEN stream ELSE [d \in Docs |-> Subscribed(seen, d)]
  BY DEF ShowList
<1>2. stream \in [Docs -> Stream]
  BY DEF ViewInv, TableOK, Stream
<1>3. TableOK'
  BY ViewTypeStep DEF ViewInv, TableNext, FetchStep
<1>4. ListedWasThere'
  BY <1>1 DEF ViewInv, ListedWasThere, Shown
<1>5. ASSUME NEW d \in Docs, Shown(d)'
      PROVE  stream'[d].pc # "none" /\ (stream'[d].pc = "ended" => Over(d)' /\ stream'[d].frames)
  <2>1. CASE seen = list
    <3>1. Shown(d) /\ stream'[d] = stream[d] /\ Unfinished(seen[d])
      BY <1>1, <1>5, <2>1 DEF Shown
    <3>2. ~Unheard(d) /\ (stream[d].pc = "ended" => Over(d))
      BY <1>1, <3>1 DEF ViewInv, EndSettled
    <3>3. Over(d)' = Over(d)
      BY <1>1 DEF Over, Status
    <3> QED
      BY <1>2, <3>1, <3>2, <3>3 DEF Unheard, Stream
  <2>2. CASE seen # list
    <3>1. stream'[d] = Opening
      BY <1>1, <1>5, <2>2 DEF Subscribed, Shown
    <3> QED
      BY <3>1 DEF Opening
  <2> QED
    BY <2>1, <2>2
<1>6. EndSettled'
  BY <1>5 DEF EndSettled, Unheard
<1> QED
  BY <1>3, <1>4, <1>6 DEF ViewInv

\* The steps of one stream, and what the browser asks for after a frame.
LEMMA StreamStepKeeps ==
  ASSUME ViewInv, ~StatusFaults, NEW d \in Docs,
         StreamStep(d) \/ Break(d) \/ Reopen(d)
  PROVE  ViewInv'
<1>0. TableOK /\ stream[d] \in Stream /\ stream \in [Docs -> Stream]
  BY DEF ViewInv, TableOK, Stream
<1>1. PICK r \in Stream :
        /\ Put(d, r) /\ UNCHANGED <<status, list, loaded, seen>>
        /\ fetch' = fetch \/ Invalidate
        /\ r.pc = "none" => Unheard(d)
        /\ r.pc = "ended" => \/ Over(d) /\ r.frames
                             \/ stream[d].pc = "ended" /\ Invalidate
  BY <1>0, StreamTyped
<1>2. /\ stream' \in [Docs -> Stream] /\ stream'[d] = r
      /\ \A e \in Docs \ {d} : stream'[e] = stream[e]
  BY <1>0, <1>1, PutStream
<1>3. /\ loaded => fetch' = fetch \/ fetch' = "sent"
      /\ loaded /\ Invalidate => fetch' = "sent"
  BY <1>1 DEF Invalidate
<1>4. TableOK'
  BY <1>0, ViewTypeStep DEF TableNext
<1>5. \A e \in Docs : Shown(e)' = Shown(e) /\ Over(e)' = Over(e)
  BY <1>1 DEF Shown, Over, Status
<1>6. ListedWasThere'
  BY <1>1, <1>5 DEF ViewInv, ListedWasThere
<1>7. ASSUME NEW e \in Docs, Shown(e)
      PROVE  /\ stream'[e].pc = "ended" => Over(e)
             /\ stream'[e].pc = "none" \/ (stream'[e].pc = "ended" /\ ~stream'[e].frames) =>
                  /\ Over(e)
                  /\ \/ fetch' \in {"sent", "failed"}
                     \/ fetch' = "read" /\ ~Unfinished(seen[e])
  <2>1. loaded
    BY <1>0, <1>7 DEF TableOK, Shown, Unfinished
  <2>2. fetch' = fetch \/ fetch' = "sent"
    BY <1>3, <2>1
  <2>3. stream[e].pc = "ended" => Over(e)
    BY <1>7 DEF ViewInv, EndSettled
  <2>4. Unheard(e) => Over(e) /\ (fetch \in {"sent", "failed"} \/ (fetch = "read" /\ ~Unfinished(seen[e])))
    BY <1>7 DEF ViewInv, EndSettled
  <2>5. CASE e # d
    BY <1>2, <2>2, <2>3, <2>4, <2>5 DEF Unheard
  <2>6. CASE e = d
    BY <1>1, <1>2, <1>3, <2>1, <2>2, <2>3, <2>4, <2>6
  <2> QED
    BY <2>5, <2>6
<1>8. EndSettled'
  BY <1>1, <1>5, <1>7 DEF EndSettled, Unheard
<1> QED
  BY <1>4, <1>6, <1>8 DEF ViewInv

\* The queue goes on, lists are asked for and read, or nothing happens.
LEMMA OtherViewStepsKeep ==
  ASSUME ViewInv, ~Reopens,
         \/ Queue \/ Touched \/ ReadList \/ FetchFails
         \/ UNCHANGED tableVars
  PROVE  ViewInv'
<1>0. TableOK /\ ListedWasThere /\ EndSettled
  BY DEF ViewInv
<1>6. TableOK'
  BY <1>0, ViewTypeStep DEF TableNext, FetchStep
<1>1. CASE Queue
  <2>1. /\ status' \in [Docs -> Statuses \cup {"absent"}]
        /\ UNCHANGED <<list, loaded, fetch, seen, stream>>
        /\ \A d \in Docs : status'[d] = "absent" => status[d] = "absent"
        /\ \A d \in Docs : Over(d) /\ status[d] # "absent" => Over(d)' \/ ~Shown(d)
    BY <1>0, <1>1, QueueStep
  <2>2. ListedWasThere'
    BY <1>0, <2>1 DEF ListedWasThere, Shown
  <2>3. \A d \in Docs : Shown(d) => Shown(d)' /\ status[d] # "absent"
    BY <1>0, <2>1 DEF ListedWasThere, Shown
  <2>4. \A d \in Docs : Shown(d) /\ Over(d) => Over(d)'
    BY <2>1, <2>3
  <2>5. \A d \in Docs : Shown(d)' = Shown(d)
    BY <2>1 DEF Shown
  <2>6. EndSettled'
    BY <1>0, <2>1, <2>4, <2>5 DEF EndSettled, Unheard
  <2> QED
    BY <1>6, <2>2, <2>6 DEF ViewInv
<1>2. CASE Touched
  BY <1>0, <1>6, <1>2 DEF Touched, Invalidate, ViewInv, TableOK, ListedWasThere,
     EndSettled, Shown, Over, Unheard, Status
<1>3. CASE ReadList
  <2>1. /\ fetch' = "read" /\ seen' = [d \in Docs |-> Status(d)]
        /\ UNCHANGED <<status, list, loaded, stream>>
    BY <1>3 DEF ReadList
  <2>2. \A d \in Docs : /\ seen'[d] \in Statuses /\ seen'[d] = Status(d)
                        /\ status[d] = "absent" => Over(d)
    BY <1>0, <2>1, StatusTyped
  <2>6. \A d \in Docs : /\ Unfinished(seen'[d]) <=> ~Over(d)
                        /\ Over(d)' <=> Over(d)
                        /\ Shown(d)' <=> Shown(d)
    BY <2>1, <2>2 DEF Over, Shown, Status, Unfinished
  <2>4. ListedWasThere'
    BY <1>0, <2>1, <2>2, <2>6 DEF ListedWasThere
  <2>5. EndSettled'
    BY <1>0, <2>1, <2>6 DEF EndSettled, Unheard
  <2> QED
    BY <1>6, <2>4, <2>5 DEF ViewInv
<1>4. CASE FetchFails
  BY <1>0, <1>6, <1>4 DEF FetchFails, ViewInv, TableOK, ListedWasThere,
     EndSettled, Shown, Over, Unheard, Status
<1>5. CASE UNCHANGED tableVars
  BY <1>0, <1>6, <1>5 DEF tableVars, ViewInv, TableOK, ListedWasThere,
     EndSettled, Shown, Over, Unheard, Status
<1> QED
  BY <1>1, <1>2, <1>3, <1>4, <1>5

\* The types hold whoever writes the status and whatever fails, and a page without a list has
\* no streams.
THEOREM ViewTypeCorrect == TableSpec => []TableOK
<1>1. TableInit => TableOK
  BY ViewInit DEF ViewInv
<1> QED
  BY <1>1, ViewTypeStep, PTL DEF TableSpec

\* The invariant of the table holds at all times, if no final status is overwritten
\* while the page shows the row unfinished, and the status can be read.
THEOREM TableCorrect == ASSUME ~Reopens, ~StatusFaults PROVE TableSpec => []ViewInv
<1>1. ViewInv /\ [TableNext]_tableVars => ViewInv'
  BY ShowListStep, StreamStepKeeps, OtherViewStepsKeep DEF TableNext, FetchStep
<1> QED
  BY <1>1, ViewInit, PTL DEF TableSpec

\* No row stays shown as unfinished without a stream or a fetch behind it: each lost
\* or finished stream of DocStatusTable.tsx leaves the list asked for.
THEOREM RowsWatched == ASSUME ~Reopens, ~StatusFaults PROVE TableSpec => []Watched
<1>1. ViewInv => Watched
  BY DEF ViewInv, EndSettled, Watched, Shown, Unheard
<1> QED
  BY <1>1, TableCorrect, PTL
==============================================================================
