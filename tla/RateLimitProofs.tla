--------------------------- MODULE RateLimitProofs ---------------------------
(***************************************************************************)
(* Proofs about RateLimit: types, the justification of every 429 whatever  *)
(* the scheduling, and the cap per minute if the lock is quick.            *)
(***************************************************************************)
EXTENDS RateLimit, TLAPS

\* Limits are integers and windows are records the types allow.
LEMMA WindowType ==
  ASSUME NEW b \in [minute: Minutes \cup {NoWindow}, count: Nat], NEW m \in Minutes
  PROVE  /\ Window(b, m) \in [minute: Minutes \cup {NoWindow}, count: Nat]
         /\ Window(b, m).minute = m
BY DEF Window

\* The guard of a call is one of the two, and its limit is an integer.
LEMMA LimitType == \A g \in Guards : Limit[g] \in Int
BY LimitAssumption DEF Limit, Guards

\* A call that is let through goes on to the second guard or to its handler.
LEMMA PassType ==
  ASSUME TypeOK, NEW c \in Calls, Pass(c)
  PROVE  call' \in [Calls -> Call]
<1>1. call[c] \in Call
  BY DEF TypeOK
<1>2. [call[c] EXCEPT !.pc = "served"] \in Call
  BY <1>1 DEF Call
<1>3. [call[c] EXCEPT !.pc = "clock", !.guard = "eval"] \in Call
  BY <1>1 DEF Call, Guards
<1> QED BY <1>2, <1>3 DEF TypeOK, Pass

\* Every step keeps the types.
LEMMA TypeStep == TypeOK /\ [Next]_vars => TypeOK'
<1> SUFFICES ASSUME TypeOK, [Next]_vars PROVE TypeOK'
  OBVIOUS
<1> USE ClockAssumption
<1>1. ASSUME NEW c \in Calls, NEW u \in Users, NEW route \in Guards, Arrive(c, u, route)
      PROVE  TypeOK'
  BY <1>1 DEF TypeOK, Arrive, Call, Guards, Minutes
<1>2. ASSUME NEW c \in Calls, ReadClock(c)
      PROVE  TypeOK'
  BY <1>2 DEF TypeOK, ReadClock, Call
<1>3. ASSUME NEW c \in Calls, AllowUnlimited(c)
      PROVE  TypeOK'
  BY <1>3, PassType DEF TypeOK, AllowUnlimited
<1>4. ASSUME NEW c \in Calls, AllowAt(c)
      PROVE  TypeOK'
  <2> DEFINE g == call[c].guard
             u == call[c].user
             m == call[c].minute
             w == Window(bucket[g][u], m)
  <2>1. g \in Guards /\ u \in Users /\ m \in Minutes
    BY DEF TypeOK, Call
  <2>2. bucket[g][u] \in [minute: Minutes \cup {NoWindow}, count: Nat]
    BY <2>1 DEF TypeOK
  <2>3. w \in [minute: Minutes \cup {NoWindow}, count: Nat]
    BY <2>1, <2>2, WindowType
  <2>4. CASE /\ bucket' = [bucket EXCEPT ![g][u] = w]
             /\ call' = [call EXCEPT ![c].pc = "refused"]
             /\ UNCHANGED granted
    <3>1. call' \in [Calls -> Call]
      BY <2>4 DEF TypeOK, Call
    <3>2. bucket' \in [Guards -> [Users -> [minute: Minutes \cup {NoWindow}, count: Nat]]]
      BY <2>4, <2>3, <2>1 DEF TypeOK
    <3> QED BY <3>1, <3>2, <2>4, <1>4 DEF TypeOK, AllowAt
  <2>5. CASE /\ bucket' = [bucket EXCEPT ![g][u] = [w EXCEPT !.count = @ + 1]]
             /\ granted' = [granted EXCEPT ![g][u][m] = @ + 1]
             /\ Pass(c)
    <3>1. call' \in [Calls -> Call]
      BY <2>5, PassType
    <3>2. [w EXCEPT !.count = @ + 1] \in [minute: Minutes \cup {NoWindow}, count: Nat]
      BY <2>3
    <3>3. bucket' \in [Guards -> [Users -> [minute: Minutes \cup {NoWindow}, count: Nat]]]
      BY <2>5, <3>2, <2>1 DEF TypeOK
    <3>4. granted' \in [Guards -> [Users -> [Minutes -> Nat]]]
      BY <2>5, <2>1 DEF TypeOK
    <3> QED BY <3>1, <3>3, <3>4, <1>4 DEF TypeOK, AllowAt
  <2> QED BY <2>4, <2>5, <1>4 DEF AllowAt
<1>5. ASSUME NEW c \in Calls, Respond(c)
      PROVE  TypeOK'
  BY <1>5 DEF TypeOK, Respond, IdleCall, Call, Guards, Minutes
<1>6. CASE Tick
  BY <1>6 DEF TypeOK, Tick, Minutes
<1>7. CASE UNCHANGED vars
  BY <1>7 DEF TypeOK, vars
<1> QED BY <1>1, <1>2, <1>3, <1>4, <1>5, <1>6, <1>7 DEF Next

\* The initial state has the types.
LEMMA TypeInit == Init => TypeOK
BY ClockAssumption DEF Init, TypeOK, IdleCall, Call, Guards, Minutes, NoWindow

\* Type correctness of every reachable state.
THEOREM TypeCorrect == Spec => []TypeOK
BY TypeInit, TypeStep, PTL DEF Spec
------------------------------------------------------------------------------
\* A window never counts more than was granted in its minute.
Counted ==
  \A g \in Guards, u \in Users :
    bucket[g][u].minute \in Minutes =>
      bucket[g][u].count <= granted[g][u][bucket[g][u].minute]

RefusalInv == Counted /\ RefusalJustified

\* What AllowAt does to one guard g, user u and minute m, where n is the count
\* of the window it found or opened: either n is the limit and the call is
\* refused, or both the window and the minute count one more.
Admission(c, g, u, m, n) ==
  /\ call[c].pc = "lock" /\ ~Unlimited(g) /\ now' = now
  /\ call[c].guard = g /\ call[c].user = u /\ call[c].minute = m
  /\ bucket[g][u].minute = m => n = bucket[g][u].count
  /\ bucket[g][u].minute # m => n = 0
  /\ bucket'[g][u].minute = m
  /\ \A h \in Guards, v \in Users :
       h # g \/ v # u => bucket'[h][v] = bucket[h][v] /\ granted'[h][v] = granted[h][v]
  /\ \A k \in Minutes : k # m => granted'[g][u][k] = granted[g][u][k]
  /\ \/ /\ n >= Limit[g]
        /\ bucket'[g][u].count = n
        /\ granted'[g][u][m] = granted[g][u][m]
        /\ call' = [call EXCEPT ![c].pc = "refused"]
     \/ /\ n < Limit[g]
        /\ bucket'[g][u].count = n + 1
        /\ granted'[g][u][m] = granted[g][u][m] + 1
        /\ Pass(c)

\* AllowAt refuses or admits, after it has found or opened a window.
LEMMA AllowAtCases ==
  ASSUME TypeOK, NEW c \in Calls, AllowAt(c)
  PROVE  \E g \in Guards, u \in Users, m \in Minutes, n \in Nat : Admission(c, g, u, m, n)
<1> DEFINE g == call[c].guard
           u == call[c].user
           m == call[c].minute
           n == IF bucket[g][u].minute # m THEN 0 ELSE bucket[g][u].count
           w == Window(bucket[g][u], m)
<1>1. g \in Guards /\ u \in Users /\ m \in Minutes
  BY DEF TypeOK, Call
<1>2. bucket[g][u] \in [minute: Minutes \cup {NoWindow}, count: Nat]
  BY <1>1 DEF TypeOK
<1>3. n \in Nat
  BY <1>2
<1>4. w = [minute |-> m, count |-> n]
  BY <1>2 DEF Window
<1>5. [w EXCEPT !.count = @ + 1] = [minute |-> m, count |-> n + 1]
  BY <1>4
<1>6. Full(g, w) <=> n >= Limit[g]
  BY <1>4 DEF Full
<1>7. ~(n >= Limit[g]) <=> n < Limit[g]
  BY <1>3, <1>1, LimitType
<1>8. \/ /\ n >= Limit[g]
         /\ bucket' = [bucket EXCEPT ![g][u] = [minute |-> m, count |-> n]]
         /\ call' = [call EXCEPT ![c].pc = "refused"]
         /\ granted' = granted
      \/ /\ n < Limit[g]
         /\ bucket' = [bucket EXCEPT ![g][u] = [minute |-> m, count |-> n + 1]]
         /\ granted' = [granted EXCEPT ![g][u][m] = @ + 1]
         /\ Pass(c)
  BY <1>4, <1>5, <1>6, <1>7 DEF AllowAt
<1>9. call[c].pc = "lock" /\ ~Unlimited(g) /\ now' = now
  BY DEF AllowAt
<1>10. /\ bucket[g][u].minute = m => n = bucket[g][u].count
       /\ bucket[g][u].minute # m => n = 0
  OBVIOUS
<1>11. call[c].guard = g /\ call[c].user = u /\ call[c].minute = m
  OBVIOUS
<1> HIDE DEF g, u, m, n, w
<1>12. CASE /\ n >= Limit[g]
            /\ bucket' = [bucket EXCEPT ![g][u] = [minute |-> m, count |-> n]]
            /\ call' = [call EXCEPT ![c].pc = "refused"]
            /\ granted' = granted
  <2>1. bucket'[g][u] = [minute |-> m, count |-> n]
    BY <1>12, <1>1 DEF TypeOK
  <2>2. \A h \in Guards, v \in Users : h # g \/ v # u => bucket'[h][v] = bucket[h][v]
    BY <1>12, <1>1 DEF TypeOK
  <2>3. Admission(c, g, u, m, n)
    BY <2>1, <2>2, <1>12, <1>9, <1>10, <1>11 DEF Admission
  <2> QED BY <2>3, <1>1, <1>3
<1>13. CASE /\ n < Limit[g]
            /\ bucket' = [bucket EXCEPT ![g][u] = [minute |-> m, count |-> n + 1]]
            /\ granted' = [granted EXCEPT ![g][u][m] = @ + 1]
            /\ Pass(c)
  <2>1. bucket'[g][u] = [minute |-> m, count |-> n + 1]
    BY <1>13, <1>1 DEF TypeOK
  <2>2. \A h \in Guards, v \in Users :
          h # g \/ v # u => bucket'[h][v] = bucket[h][v] /\ granted'[h][v] = granted[h][v]
    BY <1>13, <1>1 DEF TypeOK
  <2>3. granted'[g][u][m] = granted[g][u][m] + 1
    BY <1>13, <1>1 DEF TypeOK
  <2>4. \A k \in Minutes : k # m => granted'[g][u][k] = granted[g][u][k]
    BY <1>13, <1>1 DEF TypeOK
  <2>5. Admission(c, g, u, m, n)
    BY <2>1, <2>2, <2>3, <2>4, <1>13, <1>9, <1>10, <1>11 DEF Admission
  <2> QED BY <2>5, <1>1, <1>3
<1> QED BY <1>8, <1>12, <1>13

\* A pass never leaves a refused call, and touches no other call.
LEMMA PassCalls ==
  ASSUME TypeOK, NEW c \in Calls, Pass(c)
  PROVE  /\ call'[c].pc \in {"served", "clock"}
         /\ \A d \in Calls : d # c => call'[d] = call[d]
BY DEF TypeOK, Pass, Call

\* Every step keeps the justification of refusals.
LEMMA RefusalStep == TypeOK /\ RefusalInv /\ [Next]_vars => RefusalInv'
<1> SUFFICES ASSUME TypeOK, RefusalInv, [Next]_vars PROVE RefusalInv'
  OBVIOUS
<1> USE DEF RefusalInv
<1>1. ASSUME NEW c \in Calls, NEW u \in Users, NEW route \in Guards, Arrive(c, u, route)
      PROVE  RefusalInv'
  BY <1>1 DEF TypeOK, Arrive, Counted, RefusalJustified
<1>2. ASSUME NEW c \in Calls, ReadClock(c)
      PROVE  RefusalInv'
  BY <1>2 DEF TypeOK, ReadClock, Counted, RefusalJustified
<1>3. ASSUME NEW c \in Calls, AllowUnlimited(c)
      PROVE  RefusalInv'
  <2>1. call'[c].pc # "refused" /\ \A d \in Calls : d # c => call'[d] = call[d]
    BY <1>3, PassCalls DEF AllowUnlimited
  <2> QED BY <2>1, <1>3 DEF AllowUnlimited, Counted, RefusalJustified
<1>4. ASSUME NEW c \in Calls, AllowAt(c)
      PROVE  RefusalInv'
  <2>1. PICK g \in Guards, u \in Users, m \in Minutes, n \in Nat : Admission(c, g, u, m, n)
    BY <1>4, AllowAtCases
  <2>2. granted[g][u][m] \in Nat /\ n <= granted[g][u][m]
    BY <2>1 DEF TypeOK, Counted, Admission
  <2>3. Limit[g] \in Int
    BY LimitType
  <2>4. \A h \in Guards, v \in Users, k \in Minutes : granted[h][v][k] \in Nat
    BY DEF TypeOK
  <2>5. /\ granted'[g][u][m] \in Nat /\ granted'[g][u][m] >= granted[g][u][m]
        /\ bucket'[g][u].count <= granted'[g][u][m]
    BY <2>1, <2>2 DEF Admission
  <2>6. \A h \in Guards, v \in Users, k \in Minutes : granted'[h][v][k] >= granted[h][v][k]
    BY <2>1, <2>4, <2>5 DEF Admission
  <2>7. Counted'
    BY <2>1, <2>5 DEF Counted, Admission
  <2>8. \A d \in Calls : d # c => call'[d] = call[d]
    BY <2>1, PassCalls DEF Admission, TypeOK
  <2>9. call'[c].pc = "refused" => call'[c].guard = g /\ call'[c].user = u
                                   /\ call'[c].minute = m /\ n >= Limit[g]
    <3>1. CASE n < Limit[g] /\ Pass(c)
      BY <3>1, PassCalls
    <3>2. CASE n >= Limit[g] /\ call' = [call EXCEPT ![c].pc = "refused"]
      BY <3>2, <2>1 DEF Admission, TypeOK, Call
    <3> QED BY <3>1, <3>2, <2>1 DEF Admission
  <2>10. ASSUME NEW d \in Calls, call'[d].pc = "refused"
         PROVE  granted'[call'[d].guard][call'[d].user][call'[d].minute]
                  >= Limit[call'[d].guard]
    <3>1. CASE d = c
      <4>1. granted'[g][u][m] >= Limit[g]
        BY <3>1, <2>10, <2>9, <2>2, <2>3, <2>5
      <4> QED BY <4>1, <3>1, <2>10, <2>9
    <3>2. CASE d # c
      <4>1. call'[d] = call[d]
        BY <3>2, <2>8
      <4>2. /\ call[d].guard \in Guards /\ call[d].user \in Users
            /\ call[d].minute \in Minutes
        BY DEF TypeOK, Call
      <4>3. granted[call[d].guard][call[d].user][call[d].minute] >= Limit[call[d].guard]
        BY <4>1, <2>10 DEF RefusalJustified
      <4>4. Limit[call[d].guard] \in Int
        BY <4>2, LimitType
      <4>5. granted'[call[d].guard][call[d].user][call[d].minute]
              >= granted[call[d].guard][call[d].user][call[d].minute]
        BY <4>2, <2>6
      <4>6. granted'[call[d].guard][call[d].user][call[d].minute] \in Nat
        BY <4>2, TypeStep DEF TypeOK
      <4> DEFINE x == granted[call[d].guard][call[d].user][call[d].minute]
                 y == granted'[call[d].guard][call[d].user][call[d].minute]
                 l == Limit[call[d].guard]
      <4>7. x \in Nat
        BY <4>2, <2>4
      <4>8. x \in Nat /\ y \in Nat /\ l \in Int /\ x >= l /\ y >= x
        BY <4>3, <4>4, <4>5, <4>6, <4>7
      <4>9. y >= l
        <5> HIDE DEF x, y, l
        <5> QED BY <4>8
      <4> QED BY <4>1, <4>9
    <3> QED BY <3>1, <3>2
  <2> QED BY <2>7, <2>10 DEF RefusalJustified
<1>5. ASSUME NEW c \in Calls, Respond(c)
      PROVE  RefusalInv'
  BY <1>5 DEF TypeOK, Respond, IdleCall, Counted, RefusalJustified
<1>6. CASE Tick
  BY <1>6 DEF Tick, Counted, RefusalJustified
<1>7. CASE UNCHANGED vars
  BY <1>7 DEF vars, Counted, RefusalJustified
<1> QED BY <1>1, <1>2, <1>3, <1>4, <1>5, <1>6, <1>7 DEF Next

\* Nobody is refused before the budget of the minute is used up, however the
\* calls interleave and however late they reach the lock (AllowAt).
THEOREM RefusalsJustified == Spec => []RefusalJustified
<1>1. Init => RefusalInv
  BY DEF Init, RefusalInv, Counted, RefusalJustified, IdleCall, NoWindow, Minutes
<1> QED BY <1>1, TypeCorrect, RefusalStep, PTL DEF Spec, RefusalInv
------------------------------------------------------------------------------
\* With a quick lock the clock of every call at the lock is right, no window
\* is ahead of it, and a window counts exactly what its minute granted.
CapInv ==
  /\ \A c \in Calls : call[c].pc = "lock" => call[c].minute = now
  /\ \A g \in Guards, u \in Users :
       /\ bucket[g][u].minute <= now
       /\ \A m \in Minutes :
            /\ ~Unlimited(g) => granted[g][u][m] <= Limit[g]
            /\ m = bucket[g][u].minute => granted[g][u][m] = bucket[g][u].count
            /\ m > bucket[g][u].minute => granted[g][u][m] = 0

\* Every step keeps the exact count, if no minute ends at the lock.
LEMMA CapStep == LockIsQuick /\ TypeOK /\ CapInv /\ [Next]_vars => CapInv'
<1> SUFFICES ASSUME LockIsQuick, TypeOK, CapInv, [Next]_vars PROVE CapInv'
  OBVIOUS
<1>1. ASSUME NEW c \in Calls, NEW u \in Users, NEW route \in Guards, Arrive(c, u, route)
      PROVE  CapInv'
  BY <1>1 DEF TypeOK, Arrive, CapInv
<1>2. ASSUME NEW c \in Calls, ReadClock(c)
      PROVE  CapInv'
  BY <1>2 DEF TypeOK, ReadClock, CapInv
<1>3. ASSUME NEW c \in Calls, AllowUnlimited(c)
      PROVE  CapInv'
  <2>1. call'[c].pc # "lock" /\ \A d \in Calls : d # c => call'[d] = call[d]
    BY <1>3, PassCalls DEF AllowUnlimited
  <2> QED BY <2>1, <1>3 DEF AllowUnlimited, CapInv
<1>4. ASSUME NEW c \in Calls, AllowAt(c)
      PROVE  CapInv'
  <2>1. PICK g \in Guards, u \in Users, m \in Minutes, n \in Nat : Admission(c, g, u, m, n)
    BY <1>4, AllowAtCases
  <2>2. m = now
    BY <2>1 DEF CapInv, Admission
  <2>3. /\ bucket[g][u].minute \in Int /\ bucket[g][u].count \in Nat
        /\ m \in Int /\ granted[g][u] \in [Minutes -> Nat]
    BY ClockAssumption DEF TypeOK, Minutes, NoWindow
  <2>4. /\ ~Unlimited(g)
        /\ bucket[g][u].minute <= m
        /\ \A k \in Minutes :
             /\ granted[g][u][k] <= Limit[g]
             /\ k = bucket[g][u].minute => granted[g][u][k] = bucket[g][u].count
             /\ k > bucket[g][u].minute => granted[g][u][k] = 0
    BY <2>1, <2>2 DEF CapInv, Admission
  <2>5. granted[g][u][m] = n
    <3>1. CASE bucket[g][u].minute = m
      BY <3>1, <2>1, <2>4 DEF Admission
    <3>2. CASE bucket[g][u].minute # m
      BY <3>2, <2>1, <2>3, <2>4 DEF Admission
    <3> QED BY <3>1, <3>2
  <2>6. Limit[g] \in Int
    BY LimitType
  <2>7. \A d \in Calls : call'[d].pc = "lock" => call'[d] = call[d]
    <3>1. CASE Pass(c)
      BY <3>1, PassCalls
    <3>2. CASE call' = [call EXCEPT ![c].pc = "refused"]
      BY <3>2 DEF TypeOK, Call
    <3> QED BY <3>1, <3>2, <2>1 DEF Admission
  <2>8. now' = now
    BY <2>1 DEF Admission
  <2>9. \A d \in Calls : call'[d].pc = "lock" => call'[d].minute = now'
    BY <2>7, <2>8 DEF CapInv
  <2>10. /\ bucket'[g][u].minute = m
         /\ granted'[g][u][m] = bucket'[g][u].count
         /\ granted'[g][u][m] <= Limit[g]
    BY <2>1, <2>5, <2>6, <2>4 DEF Admission
  <2>11. \A k \in Minutes : k # m => granted'[g][u][k] = granted[g][u][k]
    BY <2>1 DEF Admission
  <2>12. \A k \in Minutes : k > m => granted'[g][u][k] = 0
    <3> SUFFICES ASSUME NEW k \in Minutes, k > m PROVE granted'[g][u][k] = 0
      OBVIOUS
    <3>1. k \in Int /\ k # m /\ k > bucket[g][u].minute
      BY <2>3, <2>4, ClockAssumption DEF Minutes
    <3> QED BY <3>1, <2>11, <2>4
  <2>13. \A k \in Minutes : granted'[g][u][k] <= Limit[g]
    BY <2>10, <2>11, <2>4
  <2>14. ASSUME NEW h \in Guards, NEW v \in Users
         PROVE  /\ bucket'[h][v].minute <= now'
                /\ \A k \in Minutes :
                     /\ ~Unlimited(h) => granted'[h][v][k] <= Limit[h]
                     /\ k = bucket'[h][v].minute => granted'[h][v][k] = bucket'[h][v].count
                     /\ k > bucket'[h][v].minute => granted'[h][v][k] = 0
    <3>1. CASE h = g /\ v = u
      <4>1. bucket'[g][u].minute <= now'
        BY <2>2, <2>3, <2>8, <2>10
      <4> QED BY <3>1, <4>1, <2>10, <2>12, <2>13
    <3>2. CASE h # g \/ v # u
      <4>1. bucket'[h][v] = bucket[h][v] /\ granted'[h][v] = granted[h][v]
        BY <3>2, <2>1 DEF Admission
      <4> QED BY <4>1, <2>8 DEF CapInv
    <3> QED BY <3>1, <3>2
  <2>15. CapInv'
    BY <2>9, <2>14 DEF CapInv, Unlimited
  <2> QED BY <2>15
<1>5. ASSUME NEW c \in Calls, Respond(c)
      PROVE  CapInv'
  BY <1>5 DEF TypeOK, Respond, IdleCall, CapInv
<1>6. CASE Tick
  <2>1. \A c \in Calls : call'[c].pc # "lock"
    BY <1>6 DEF Tick
  <2>2. \A g \in Guards, u \in Users : bucket[g][u].minute \in Int
    BY ClockAssumption DEF TypeOK, Minutes, NoWindow
  <2>3. now \in Int /\ now' = now + 1
    BY <1>6, ClockAssumption DEF Tick, TypeOK, Minutes
  <2>4. \A g \in Guards, u \in Users : bucket'[g][u].minute <= now'
    BY <2>2, <2>3, <1>6 DEF Tick, CapInv
  <2>5. UNCHANGED <<bucket, call, granted>>
    BY <1>6 DEF Tick
  <2>6. \A g \in Guards, u \in Users :
          bucket'[g][u] = bucket[g][u] /\ granted'[g][u] = granted[g][u]
    BY <2>5
  <2> QED BY <2>1, <2>4, <2>6 DEF CapInv, Unlimited
<1>7. CASE UNCHANGED vars
  BY <1>7 DEF vars, CapInv
<1> QED BY <1>1, <1>2, <1>3, <1>4, <1>5, <1>6, <1>7 DEF Next

\* If no minute ends between a call's clock and its lock, both guards cap what
\* every user is admitted in every minute.
THEOREM CapHolds == LockIsQuick => (Spec => []CapPerMinute)
<1>1. Init => CapInv
  BY LimitType DEF Init, CapInv, IdleCall, NoWindow, Minutes, Unlimited
<1>2. TypeOK /\ CapInv => CapPerMinute
  BY DEF CapInv, CapPerMinute
<1>3. ASSUME LockIsQuick PROVE TypeOK /\ CapInv /\ [Next]_vars => CapInv'
  BY <1>3, CapStep
<1> SUFFICES ASSUME LockIsQuick PROVE Spec => []CapPerMinute
  OBVIOUS
<1>4. TypeOK /\ CapInv /\ [Next]_vars => CapInv'
  BY <1>3
<1> QED BY <1>1, <1>2, <1>4, TypeCorrect, PTL DEF Spec
==============================================================================
