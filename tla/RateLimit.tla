------------------------------ MODULE RateLimit ------------------------------
(***************************************************************************)
(* The per-user request budgets of the API (internal/limits, wired in      *)
(* internal/httpapi): a fixed-window counter per user in front of every    *)
(* route, and a second, smaller one in front of the eval runs.             *)
(*                                                                         *)
(* A call is an HTTP request on a goroutine of its own.  Allow reads the   *)
(* clock first and takes the lock afterwards, so the minute a call decides *)
(* with may be over by the time it decides.                                *)
(***************************************************************************)
EXTENDS Integers

CONSTANTS
  Users,
  Calls,          \* goroutines serving requests
  PerMinute,      \* Deps.PerUserLimit
  EvalPerMinute,  \* Deps.EvalRunsPerUserMinute
  LastMinute,     \* bound: the wall clock stops here
  LockIsQuick     \* TRUE: the minute never ends between clock and lock

ASSUME LimitAssumption == PerMinute \in Int /\ EvalPerMinute \in Int

ASSUME ClockAssumption == LastMinute \in Nat /\ LockIsQuick \in BOOLEAN

VARIABLES
  now,      \* the minute of the wall clock
  bucket,   \* per guard and user: the current window
  call,     \* what each call is doing
  granted   \* history: admissions per guard, user and minute

vars == <<now, bucket, call, granted>>
------------------------------------------------------------------------------
Guards == {"user", "eval"}

Limit == [g \in Guards |-> IF g = "user" THEN PerMinute ELSE EvalPerMinute]

Minutes == 0..LastMinute

\* No bucket yet: any minute differs from it.
NoWindow == -1

Call == [pc: {"idle", "clock", "lock", "refused", "served"}, guard: Guards,
         user: Users, route: Guards, minute: Minutes]

\* Buckets, calls and the admission counts have their types.
TypeOK ==
  /\ now \in Minutes
  /\ bucket \in [Guards -> [Users -> [minute: Minutes \cup {NoWindow}, count: Nat]]]
  /\ call \in [Calls -> Call]
  /\ granted \in [Guards -> [Users -> [Minutes -> Nat]]]

IdleCall(u) == [pc |-> "idle", guard |-> "user", user |-> u, route |-> "user",
                minute |-> 0]

Init ==
  /\ now = 0
  /\ bucket = [g \in Guards |-> [u \in Users |-> [minute |-> NoWindow, count |-> 0]]]
  /\ \E u \in Users : call = [c \in Calls |-> IdleCall(u)]
  /\ granted = [g \in Guards |-> [u \in Users |-> [m \in Minutes |-> 0]]]
------------------------------------------------------------------------------
\* A request of user u arrives; withUserLimit comes first on every route, and
\* evalRunHandler asks the second guard before anything else.
Arrive(c, u, route) ==
  /\ call[c].pc = "idle"
  /\ call' = [call EXCEPT ![c] = [pc |-> "clock", guard |-> "user", user |-> u,
                                  route |-> route, minute |-> 0]]
  /\ UNCHANGED <<now, bucket, granted>>

Unlimited(g) == Limit[g] <= 0

\* Slip: only a later minute opens a new window, and none is compared.
WindowNeverReset(b, m) == IF b.minute = NoWindow THEN [minute |-> m, count |-> 0] ELSE b

\* The window a call of minute m counts in.
Window(b, m) == IF b.minute # m THEN [minute |-> m, count |-> 0] ELSE b

\* Slip: one request more than the limit.
FullOneLate(g, b) == b.count > Limit[g]

Full(g, b) == b.count >= Limit[g]

Pass(c) ==
  call' = [call EXCEPT ![c] =
    IF call[c].guard = call[c].route
    THEN [call[c] EXCEPT !.pc = "served"]
    ELSE [call[c] EXCEPT !.pc = "clock", !.guard = "eval"]]

\* Allow reads time.Now() and is about to call AllowAt.
ReadClock(c) ==
  /\ call[c].pc = "clock"
  /\ call' = [call EXCEPT ![c].pc = "lock", ![c].minute = now]
  /\ UNCHANGED <<now, bucket, granted>>

\* AllowAt without a limit takes no lock and keeps no bucket.
AllowUnlimited(c) ==
  LET g == call[c].guard IN
  /\ call[c].pc = "lock"
  /\ Unlimited(g)
  /\ Pass(c)
  /\ UNCHANGED <<now, bucket, granted>>

\* AllowAt under the lock.  A refused call has opened the window all the same.
AllowAt(c) ==
  LET g == call[c].guard
      u == call[c].user
      m == call[c].minute
      w == Window(bucket[g][u], m) IN
  /\ call[c].pc = "lock"
  /\ ~Unlimited(g)
  /\ \/ /\ Full(g, w)
        /\ bucket' = [bucket EXCEPT ![g][u] = w]
        /\ call' = [call EXCEPT ![c].pc = "refused"]
        /\ UNCHANGED granted
     \/ /\ ~Full(g, w)
        /\ bucket' = [bucket EXCEPT ![g][u] = [w EXCEPT !.count = @ + 1]]
        /\ granted' = [granted EXCEPT ![g][u][m] = @ + 1]
        /\ Pass(c)
  /\ UNCHANGED now

\* 429 or the handler's answer goes out.
Respond(c) ==
  /\ call[c].pc \in {"refused", "served"}
  /\ call' = [call EXCEPT ![c] = IdleCall(call[c].user)]
  /\ UNCHANGED <<now, bucket, granted>>

Tick ==
  /\ now < LastMinute
  /\ LockIsQuick => \A c \in Calls : call[c].pc # "lock"
  /\ now' = now + 1
  /\ UNCHANGED <<bucket, call, granted>>

Next ==
  \/ \E c \in Calls, u \in Users, route \in Guards : Arrive(c, u, route)
  \/ \E c \in Calls : ReadClock(c) \/ AllowUnlimited(c) \/ AllowAt(c) \/ Respond(c)
  \/ Tick

Spec == Init /\ [][Next]_vars
------------------------------------------------------------------------------
\* Nobody is refused before the budget of that minute is used up: the 429 of
\* a call means that the guard admitted the full budget in the call's minute.
RefusalJustified ==
  \A c \in Calls :
    call[c].pc = "refused" =>
      granted[call[c].guard][call[c].user][call[c].minute] >= Limit[call[c].guard]

\* Guard caps requests per user per minute.  It does if no minute ends between
\* the clock and the lock.
CapPerMinute ==
  \A g \in Guards, u \in Users, m \in Minutes :
    ~Unlimited(g) => granted[g][u][m] <= Limit[g]
==============================================================================
