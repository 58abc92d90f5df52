----------------------------- MODULE TokenRefresh -----------------------------
(***************************************************************************)
(* The access token of the browser: apiFetch of web/src/lib/apiClient.ts,  *)
(* through which all pages send their requests, and signing in and out     *)
(* (web/src/app/auth.tsx).  A request that is answered with 401 waits for  *)
(* a refresh, which it shares with all that wait already, and is repeated  *)
(* once.                                                                   *)
(*                                                                         *)
(* One action is one callback of the page, or what a server does with one  *)
(* request.  Callbacks of one promise run in a row, before any other       *)
(* answer is looked at.  Tokens are numbered in the order in which they    *)
(* are issued.  The authz module, which issues and refuses them, is        *)
(* external, as is the cookie jar: a refresh carries the cookie of the     *)
(* sign-in that was the last when it was sent.                             *)
(***************************************************************************)
EXTENDS Naturals

CONSTANTS
  Calls,      \* bound: the calls of apiFetch
  MaxTokens,  \* bound: the tokens that are issued
  Quiet       \* users sign out when nothing is under way, pages ask nothing while
              \* nobody is signed in, and nobody signs in twice

ASSUME TokenAssumption == MaxTokens \in Nat /\ Quiet \in BOOLEAN

VARIABLES
  token,     \* accessToken
  flight,    \* refreshInFlight: the refresh, with its cookie or the token it brings
  call,      \* the calls of apiFetch
  signedIn,  \* isAuthenticated
  login,     \* the request of the login page
  issued,    \* authz: how many tokens there are
  valid,     \* authz: the access tokens that have not expired
  session    \* authz: the sign-in whose refresh cookie is good, by its first token

vars == <<token, flight, call, signedIn, login, issued, valid, session>>
authz == <<issued, valid, session>>
------------------------------------------------------------------------------
NoToken == 0
Token == 0..MaxTokens

NoRequest == [pc |-> "none", with |-> 0]

\* A call: whether logout makes it, the token it was first sent with, and the
\* one that its present request carries.
Idle == [pc |-> "idle", out |-> FALSE, first |-> NoToken, with |-> NoToken, result |-> "none"]

Call == [pc: {"idle", "first", "denied", "waiting", "again", "ended"}, out: BOOLEAN,
         first: Token, with: Token, result: {"none", "ok", "unauthorized", "error", "failed"}]

TypeOK ==
  /\ token \in Token /\ signedIn \in BOOLEAN
  /\ flight \in [pc: {"none", "sent", "answered", "refused"}, with: Token]
  /\ login \in [pc: {"none", "sent", "answered"}, with: Token]
  /\ call \in [Calls -> Call]
  /\ issued \in Token /\ valid \subseteq Token /\ session \in Token

Init ==
  /\ token = NoToken /\ signedIn = FALSE
  /\ flight = NoRequest /\ login = NoRequest
  /\ call = [c \in Calls |-> Idle]
  /\ issued = 0 /\ valid = {} /\ session = 0
------------------------------------------------------------------------------
At(c, pc) == call[c].pc = pc
Pending(c) == call[c].pc \notin {"idle", "ended"}
LeavingNow == \E c \in Calls : call[c].out /\ Pending(c)

\* The authz module issues the next token.
Issue ==
  /\ issued < MaxTokens
  /\ issued' = issued + 1
  /\ valid' = valid \cup {issued + 1}

\* A call ends; logout then forgets token and user, whatever came out.
End(c, result) ==
  /\ call' = [call EXCEPT ![c].pc = "ended", ![c].result = result]
  /\ IF call[c].out THEN token' = NoToken /\ signedIn' = FALSE
     ELSE UNCHANGED <<token, signedIn>>
------------------------------------------------------------------------------
(* apiFetch.                                                               *)

\* A page sends a request with the token there is.  After a sign-out the pages stay
\* until the next navigation.
Send(c) ==
  /\ At(c, "idle")
  /\ signedIn \/ \E d \in Calls : call[d].out
  /\ Quiet => signedIn /\ ~LeavingNow
  /\ call' = [call EXCEPT ![c] = [Idle EXCEPT !.pc = "first", !.first = token, !.with = token]]
  /\ UNCHANGED <<token, flight, signedIn, login, authz>>

\* logout sends its own.
SignOut(c) ==
  /\ At(c, "idle") /\ signedIn
  /\ Quiet => \A d \in Calls : ~Pending(d)
  /\ call' = [call EXCEPT ![c] = [Idle EXCEPT !.pc = "first", !.out = TRUE,
                                  !.first = token, !.with = token]]
  /\ UNCHANGED <<token, flight, signedIn, login, authz>>

\* The server serves a request whose token is good.  It may let a logout in
\* without one; the refresh cookie is then void.
Served(c) ==
  /\ call[c].pc \in {"first", "again"}
  /\ call[c].with \in valid \/ call[c].out
  /\ End(c, "ok")
  /\ session' = IF call[c].out THEN 0 ELSE session
  /\ UNCHANGED <<flight, login, issued, valid>>

\* It answers 401, which the second time is the result.
Unauthorized(c) ==
  /\ call[c].with \notin valid
  /\ \/ /\ At(c, "first")
        /\ call' = [call EXCEPT ![c].pc = "denied"]
        /\ UNCHANGED <<token, signedIn>>
     \/ At(c, "again") /\ End(c, "unauthorized")
  /\ UNCHANGED <<flight, login, authz>>

\* fetch rejects: the network.
Fails(c) ==
  /\ call[c].pc \in {"first", "denied", "again"}
  /\ End(c, "failed")
  /\ UNCHANGED <<flight, login, authz>>

\* The 401 is there: refresh shares the promise there is, or makes one.
Denied(c) ==
  /\ At(c, "denied")
  /\ call' = [call EXCEPT ![c].pc = "waiting"]
  /\ flight' = IF flight.pc = "none" THEN [pc |-> "sent", with |-> session] ELSE flight
  /\ UNCHANGED <<token, signedIn, login, authz>>

\* The authz module takes the cookie, or does not.
ServeRefresh ==
  /\ flight.pc = "sent"
  /\ IF flight.with # 0 /\ flight.with = session
     THEN Issue /\ flight' = [pc |-> "answered", with |-> issued + 1]
     ELSE flight' = [flight EXCEPT !.pc = "refused"] /\ UNCHANGED <<issued, valid>>
  /\ UNCHANGED <<token, call, signedIn, login, session>>

\* The refresh, or its answer, is lost.
RefreshLost ==
  /\ flight.pc \in {"sent", "answered"}
  /\ flight' = [flight EXCEPT !.pc = "refused"]
  /\ UNCHANGED <<token, call, signedIn, login, authz>>

\* Slip: the settled promise stays where it is.
RefreshedKept ==
  /\ flight.pc = "answered"
  /\ token' = flight.with
  /\ call' = [c \in Calls |-> IF At(c, "waiting")
                              THEN [call[c] EXCEPT !.pc = "again", !.with = flight.with]
                              ELSE call[c]]
  /\ UNCHANGED <<flight, signedIn, login, authz>>

\* Slip: only a new token wakes those that wait.
RefreshFailedUnheard ==
  /\ flight.pc = "refused"
  /\ token' = NoToken /\ flight' = NoRequest
  /\ UNCHANGED <<call, signedIn, login, authz>>

\* Slip: the requests are repeated as they were.
RepeatedAsBefore ==
  /\ flight.pc = "answered"
  /\ token' = flight.with /\ flight' = NoRequest
  /\ call' = [c \in Calls |-> IF At(c, "waiting") THEN [call[c] EXCEPT !.pc = "again"] ELSE call[c]]
  /\ UNCHANGED <<signedIn, login, authz>>

\* The new token is there: all that wait repeat their requests with it.
Refreshed ==
  /\ flight.pc = "answered"
  /\ token' = flight.with
  /\ flight' = NoRequest
  /\ call' = [c \in Calls |-> IF At(c, "waiting")
                              THEN [call[c] EXCEPT !.pc = "again", !.with = flight.with]
                              ELSE call[c]]
  /\ UNCHANGED <<signedIn, login, authz>>

\* There is none: all that wait drop the token and end in an AuthError.
RefreshFailed ==
  /\ flight.pc = "refused"
  /\ token' = NoToken
  /\ flight' = NoRequest
  /\ call' = [c \in Calls |-> IF At(c, "waiting")
                              THEN [call[c] EXCEPT !.pc = "ended", !.result = "error"]
                              ELSE call[c]]
  /\ signedIn' = (signedIn /\ ~\E c \in Calls : At(c, "waiting") /\ call[c].out)
  /\ UNCHANGED <<login, authz>>
------------------------------------------------------------------------------
(* The login page, and time.                                               *)

\* The login page, which somebody who is signed in reaches by going back.
SignIn ==
  /\ login.pc = "none"
  /\ Quiet => ~signedIn
  /\ login' = [pc |-> "sent", with |-> NoToken]
  /\ UNCHANGED <<token, flight, call, signedIn, authz>>

ServeLogin ==
  /\ login.pc = "sent"
  /\ Issue
  /\ session' = issued + 1
  /\ login' = [pc |-> "answered", with |-> issued + 1]
  /\ UNCHANGED <<token, flight, call, signedIn>>

\* Wrong credentials, or the network.
LoginFails ==
  /\ login.pc # "none"
  /\ login' = NoRequest
  /\ UNCHANGED <<token, flight, call, signedIn, authz>>

SignedIn ==
  /\ login.pc = "answered"
  /\ token' = login.with /\ signedIn' = TRUE
  /\ login' = NoRequest
  /\ UNCHANGED <<flight, call, authz>>

\* An access token expires, or the refresh session does.
Expires ==
  /\ \/ \E t \in valid : valid' = valid \ {t} /\ UNCHANGED session
     \/ session # 0 /\ session' = 0 /\ UNCHANGED valid
  /\ UNCHANGED <<token, flight, call, signedIn, login, issued>>
------------------------------------------------------------------------------
Network ==
  \/ \E c \in Calls : Served(c) \/ Unauthorized(c) \/ Fails(c)
  \/ ServeRefresh \/ RefreshLost

Next ==
  \/ \E c \in Calls : Send(c) \/ SignOut(c) \/ Denied(c)
  \/ Network \/ Refreshed \/ RefreshFailed
  \/ SignIn \/ ServeLogin \/ LoginFails \/ SignedIn \/ Expires

\* Requests are answered or fail, and the page looks at every answer.
Fairness ==
  /\ \A c \in Calls : WF_vars(Denied(c)) /\ WF_vars(Served(c) \/ Unauthorized(c) \/ Fails(c))
  /\ WF_vars(ServeRefresh \/ RefreshLost) /\ WF_vars(Refreshed \/ RefreshFailed)

Spec == Init /\ [][Next]_vars /\ Fairness
------------------------------------------------------------------------------
\* "then retries the original request a single time" (apiClient.ts:45): a call is
\* never repeated with the token that was refused, however many calls share the
\* refresh and whenever their 401s arrive.
RepeatIsFresh == \A c \in Calls : At(c, "again") => call[c].with > call[c].first

\* Whoever has signed out leaves no token behind: no answer that comes later
\* brings one.  (False of the code; see SignedOutToken.cfg.)
SignedOutHasNoToken == ~signedIn => token = NoToken

\* The page never goes back to an older token: each one it takes was issued after
\* all that calls have been sent with.
TokenNeverOlder ==
  [][token' \notin {token, NoToken} => \A c \in Calls : call[c].with < token' \/ At(c, "idle")]_vars

\* Every call ends, those that share a refresh of another one among them.
CallsEnd == \A c \in Calls : Pending(c) ~> ~Pending(c)

\* "throws AuthError (callers redirect to /login)" (apiClient.ts:46): once a refresh
\* has failed the user is asked to sign in.
FailedRefreshSignsOut ==
  (signedIn /\ \E c \in Calls : call[c].result = "error" /\ token = NoToken) ~> ~signedIn
==============================================================================
