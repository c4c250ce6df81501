--------------------------- MODULE ServiceProofs ---------------------------
(***************************************************************************)
(* The two services that run on timers.  The lease watcher, for any number  *)
(* of writes to the lease file: no change is hidden by the hash that        *)
(* suppresses duplicates.  The rate limiter, R below, for every set of      *)
(* addresses, every window of time and every rate and burst for which an    *)
(* idle period refills a bucket: the bound on what an address gets through. *)
(***************************************************************************)
EXTENDS LeaseWatcher, TLAPS

-----------------------------------------------------------------------------
(* The lease watcher: the inductive invariant. *)

\* What the steps need of the types.
ShapeInv ==
  /\ pc \in [Dispatches -> DispatchSteps]
  /\ DOMAIN got = Dispatches
  /\ debounce \in Dispatches \cup {0} /\ taken \in Dispatches \cup {0}
  /\ event \in BOOLEAN
  /\ writes \in 0 .. MaxWrites
  /\ env # "busy" => chan # "closed" /\ stopper # "cancel"

\* Timers are numbered as the loop arms them, and each one answers a write of its own.
TimerInv ==
  \E k \in 0 .. MaxWrites :
    /\ \A d \in Dispatches \ {1} : pc[d] # "none" <=> d <= k + 1
    /\ k <= writes
    /\ event => k < writes

Watching == loop \in {"initial", "select"}

\* Something will look at the state file again.
Awaited == event \/ \E d \in Dispatches : pc[d] = "armed"

\* The lease on disk was dispatched, or a dispatch will read it, or has just read it.
Covered ==
  \/ last = lease
  \/ Awaited
  \/ \E d \in Dispatches : pc[d] = "read" \/ (pc[d] = "compare" /\ got[d] = lease)

\* A dispatch that has read a lease which is no longer on disk is followed by another.
Superseded == \A d \in Dispatches : pc[d] = "compare" /\ got[d] # lease => Awaited

Inv ==
  /\ ShapeInv
  /\ TimerInv
  /\ starter = "add" => loop = "none"
  /\ loop = "none" => \A d \in Dispatches : pc[d] = "none"
  /\ ~Overlap /\ Watching => Covered /\ Superseded

-----------------------------------------------------------------------------
\* The timer that time.AfterFunc makes for an event is a new one.
LEMMA FreshTimer ==
  ASSUME MaxWrites \in Nat, ShapeInv, TimerInv, event
  PROVE  /\ Fresh \in Dispatches \ {1}
         /\ Fresh <= writes + 1
         /\ \A d \in Dispatches \ {1} : pc[d] # "none" <=> d < Fresh
<1> USE DEF Dispatches
<1>0. writes \in 0 .. MaxWrites
  BY DEF ShapeInv
<1>1. PICK k \in 0 .. MaxWrites :
        /\ \A d \in Dispatches \ {1} : pc[d] # "none" <=> d <= k + 1
        /\ k < writes
  BY DEF TimerInv
<1>2. k + 2 \in Dispatches \ {1} /\ pc[k + 2] = "none" /\ \A e \in 2 .. (k + 2) - 1 : pc[e] # "none"
  BY <1>0, <1>1
<1>3. Fresh \in Dispatches \ {1} /\ pc[Fresh] = "none" /\ \A e \in 2 .. Fresh - 1 : pc[e] # "none"
  BY <1>2 DEF Fresh
<1>4. Fresh = k + 2
  BY <1>1, <1>2, <1>3
<1> QED BY <1>0, <1>1, <1>3, <1>4

\* debounce.Stop() keeps a timer that is armed from firing, and does nothing else.
LEMMA CancelledTimer ==
  ASSUME ShapeInv, NEW t \in Dispatches \cup {0}
  PROVE  /\ Cancelled(t) \in [Dispatches -> DispatchSteps]
         /\ \A d \in Dispatches : Cancelled(t)[d] # pc[d] => pc[d] = "armed" /\ Cancelled(t)[d] = "stopped"
BY DEF ShapeInv, Cancelled, DispatchSteps, Running, Dispatches

\* The variables keep their types.
LEMMA ShapeStep ==
  ASSUME MaxWrites \in Nat, ShapeInv, TimerInv, [Next]_vars
  PROVE  ShapeInv'
<1> USE DEF ShapeInv, DispatchSteps, Running
<1>1. CASE LeaseWritten
  BY <1>1 DEF LeaseWritten, lifecycle, dispatch
<1>2. CASE StartMarks
  BY <1>2 DEF StartMarks, input, dispatch
<1>3. CASE StartAdds
  BY <1>3 DEF StartAdds, input, Ok, Fault
<1>4. CASE InitialDispatched
  BY <1>4 DEF InitialDispatched, input, dispatch
<1>5. CASE TakeEvent
  <2>1. /\ Fresh \in Dispatches
        /\ Cancelled(debounce) \in [Dispatches -> DispatchSteps]
        /\ pc' = [Cancelled(debounce) EXCEPT ![Fresh] = "armed"]
    BY <1>5, FreshTimer, CancelledTimer DEF TakeEvent
  <2>2. pc' \in [Dispatches -> DispatchSteps]
    BY <2>1
  <2> QED BY Zenon, <1>5, <2>1, <2>2 DEF TakeEvent, lifecycle
<1>6. CASE LoopExits
  BY <1>6 DEF LoopExits, input, dispatch
<1>7. CASE StopTakes
  BY <1>7 DEF StopTakes, input
<1>8. CASE StopCancels
  <2>1. pc' \in [Dispatches -> DispatchSteps]
    BY <1>8, CancelledTimer DEF StopCancels
  <2> QED BY <1>8, <2>1 DEF StopCancels, input
<1>9. CASE StopReturns
  BY <1>9 DEF StopReturns, input, dispatch
<1>10. CASE \E d \in Dispatches : TimerFires(d)
  BY <1>10 DEF TimerFires, Goto, input, lifecycle
<1>11. CASE \E d \in Dispatches : ReadStatus(d)
  BY <1>11 DEF ReadStatus, Goto, input, lifecycle, Ok, Fault
<1>12. CASE \E d \in Dispatches : CompareHash(d)
  BY <1>12 DEF CompareHash, Goto, input, lifecycle
<1>13. CASE \E d \in Dispatches : RenderRA(d)
  BY <1>13 DEF RenderRA, Goto, input, lifecycle
<1>14. CASE \E d \in Dispatches : WriteRA(d)
  BY <1>14 DEF WriteRA, Goto, input, lifecycle, Ok, Fault
<1>15. CASE \E d \in Dispatches : Callback(d)
  BY <1>15 DEF Callback, Goto, input, lifecycle
<1>16. CASE UNCHANGED vars
  BY <1>16 DEF vars
<1> QED BY <1>1, <1>2, <1>3, <1>4, <1>5, <1>6, <1>7, <1>8, <1>9, <1>10, <1>11, <1>12, <1>13, <1>14, <1>15, <1>16
       DEF Next, Loop, Stopping, DispatchStep

\* Timers stay numbered from 2; one is armed for a write that raised an event.
LEMMA TimerStep ==
  ASSUME MaxWrites \in Nat, ShapeInv, TimerInv, [Next]_vars
  PROVE  TimerInv'
<1>0. ASSUME TakeEvent
      PROVE  /\ Fresh \in Dispatches \ {1} /\ Fresh <= writes + 1
             /\ \A d \in Dispatches \ {1} : pc[d] # "none" <=> d < Fresh
             /\ writes \in 0 .. MaxWrites
  BY <1>0, FreshTimer DEF TakeEvent, ShapeInv
<1> USE DEF ShapeInv, TimerInv, DispatchSteps, Running
<1>1. CASE LeaseWritten
  BY <1>1 DEF LeaseWritten, lifecycle, dispatch
<1>2. CASE StartMarks
  BY <1>2 DEF StartMarks, input, dispatch
<1>3. CASE StartAdds
  BY <1>3 DEF StartAdds, input, Ok, Fault
<1>4. CASE InitialDispatched
  BY <1>4 DEF InitialDispatched, input, dispatch
<1>5. CASE TakeEvent
  <2>1. /\ Fresh \in Dispatches
        /\ Cancelled(debounce) \in [Dispatches -> DispatchSteps]
        /\ pc' = [Cancelled(debounce) EXCEPT ![Fresh] = "armed"]
    BY <1>5, FreshTimer, CancelledTimer DEF TakeEvent
  <2>2. \A d \in Dispatches \ {1} : pc'[d] # "none" <=> d <= Fresh
    BY <1>0, <1>5, <2>1, CancelledTimer DEF Dispatches
  <2>3. Fresh - 1 \in 0 .. MaxWrites /\ Fresh - 1 <= writes /\ (Fresh - 1) + 1 = Fresh
    BY <1>0, <1>5 DEF Dispatches
  <2>4. writes' = writes /\ event' = FALSE
    BY <1>5 DEF TakeEvent
  <2> QED BY <2>2, <2>3, <2>4
<1>6. CASE LoopExits
  BY <1>6 DEF LoopExits, input, dispatch
<1>7. CASE StopTakes
  BY <1>7 DEF StopTakes, input
<1>8. CASE StopCancels
  <2>1. \A d \in Dispatches : pc'[d] = "none" <=> pc[d] = "none"
    BY <1>8, CancelledTimer DEF StopCancels
  <2> QED BY <1>8, <2>1 DEF StopCancels, input
<1>9. CASE StopReturns
  BY <1>9 DEF StopReturns, input, dispatch
<1>10. CASE \E d \in Dispatches : TimerFires(d)
  BY <1>10 DEF TimerFires, Goto, input, lifecycle
<1>11. CASE \E d \in Dispatches : ReadStatus(d)
  BY <1>11 DEF ReadStatus, Goto, input, lifecycle, Ok, Fault
<1>12. CASE \E d \in Dispatches : CompareHash(d)
  BY <1>12 DEF CompareHash, Goto, input, lifecycle
<1>13. CASE \E d \in Dispatches : RenderRA(d)
  BY <1>13 DEF RenderRA, Goto, input, lifecycle
<1>14. CASE \E d \in Dispatches : WriteRA(d)
  BY <1>14 DEF WriteRA, Goto, input, lifecycle, Ok, Fault
<1>15. CASE \E d \in Dispatches : Callback(d)
  BY <1>15 DEF Callback, Goto, input, lifecycle
<1>16. CASE UNCHANGED vars
  BY <1>16 DEF vars
<1> QED BY <1>1, <1>2, <1>3, <1>4, <1>5, <1>6, <1>7, <1>8, <1>9, <1>10, <1>11, <1>12, <1>13, <1>14, <1>15, <1>16
       DEF Next, Loop, Stopping, DispatchStep

\* No step loses the lease on disk: what dispatches it next is still to come.
LEMMA CoverStep ==
  ASSUME MaxWrites \in Nat, Inv, [Next]_vars
  PROVE  (~Overlap /\ Watching => Covered /\ Superseded)'
<1> USE DEF Inv, ShapeInv, Overlap, Watching, Covered, Superseded, Awaited, Running
<1>1. CASE LeaseWritten
  BY Zenon, <1>1 DEF LeaseWritten, lifecycle, dispatch
<1>2. CASE StartMarks
  BY <1>2 DEF StartMarks, input, dispatch
<1>3. CASE StartAdds
  <2>1. CASE Fault
    BY <1>3, <2>1 DEF StartAdds, Fault, input
  <2>2. CASE loop' = "initial" /\ pc' = [pc EXCEPT ![1] = "read"] /\ Ok
    <3>1. 1 \in Dispatches /\ pc'[1] = "read" /\ env' = env /\ lease' = lease /\ got' = got
      BY <1>3, <2>2 DEF StartAdds, input, Dispatches
    <3>2. \A d \in Dispatches : pc'[d] # "compare"
      BY <1>3, <2>2 DEF StartAdds
    <3> QED BY <3>1, <3>2
  <2> QED BY <1>3, <2>1, <2>2 DEF StartAdds
<1>4. CASE InitialDispatched
  BY <1>4 DEF InitialDispatched, input, dispatch
<1>5. CASE TakeEvent
  <2>1. /\ Fresh \in Dispatches
        /\ Cancelled(debounce) \in [Dispatches -> DispatchSteps]
        /\ pc' = [Cancelled(debounce) EXCEPT ![Fresh] = "armed"]
    BY <1>5, FreshTimer, CancelledTimer DEF TakeEvent
  <2>2. pc'[Fresh] = "armed"
    BY <2>1
  <2> QED BY <1>5, <2>1, <2>2 DEF TakeEvent
<1>6. CASE LoopExits
  BY <1>6 DEF LoopExits, input, dispatch
<1>7. CASE StopTakes
  BY <1>7 DEF StopTakes, input
<1>8. CASE StopCancels
  BY <1>8 DEF StopCancels, input
<1>9. CASE StopReturns
  BY <1>9 DEF StopReturns, input, dispatch
<1>10. CASE \E d \in Dispatches : TimerFires(d)
  BY <1>10 DEF TimerFires, Goto, input, lifecycle
<1>11. CASE \E d \in Dispatches : ReadStatus(d)
  BY <1>11 DEF ReadStatus, Goto, input, lifecycle, Ok, Fault
<1>12. CASE \E d \in Dispatches : CompareHash(d)
  BY <1>12 DEF CompareHash, Goto, input, lifecycle
<1>13. CASE \E d \in Dispatches : RenderRA(d)
  BY <1>13 DEF RenderRA, Goto, input, lifecycle
<1>14. CASE \E d \in Dispatches : WriteRA(d)
  BY <1>14 DEF WriteRA, Goto, input, lifecycle, Ok, Fault
<1>15. CASE \E d \in Dispatches : Callback(d)
  BY <1>15 DEF Callback, Goto, input, lifecycle
<1>16. CASE UNCHANGED vars
  BY <1>16 DEF vars
<1> QED BY <1>1, <1>2, <1>3, <1>4, <1>5, <1>6, <1>7, <1>8, <1>9, <1>10, <1>11, <1>12, <1>13, <1>14, <1>15, <1>16
       DEF Next, Loop, Stopping, DispatchStep

\* Nothing is dispatched before the goroutine starts, and StartLeaseWatcher starts one.
LEMMA StartStep ==
  ASSUME MaxWrites \in Nat, Inv, [Next]_vars
  PROVE  (/\ starter = "add" => loop = "none"
          /\ loop = "none" => \A d \in Dispatches : pc[d] = "none")'
<1> USE DEF Inv, ShapeInv
<1>1. CASE LeaseWritten
  BY <1>1 DEF LeaseWritten, lifecycle, dispatch
<1>2. CASE StartMarks
  BY <1>2 DEF StartMarks, input, dispatch
<1>3. CASE StartAdds
  BY <1>3 DEF StartAdds, input, Ok, Fault
<1>4. CASE InitialDispatched
  BY <1>4 DEF InitialDispatched, input, dispatch
<1>5. CASE TakeEvent
  BY <1>5 DEF TakeEvent, lifecycle
<1>6. CASE LoopExits
  BY <1>6 DEF LoopExits, input, dispatch
<1>7. CASE StopTakes
  BY <1>7 DEF StopTakes, input
<1>8. CASE StopCancels
  BY <1>8, CancelledTimer DEF StopCancels, input
<1>9. CASE StopReturns
  BY <1>9 DEF StopReturns, input, dispatch
<1>10. CASE \E d \in Dispatches : DispatchStep(d)
  BY <1>10 DEF DispatchStep, TimerFires, ReadStatus, CompareHash, RenderRA, WriteRA, Callback, lifecycle
<1>11. CASE UNCHANGED vars
  BY <1>11 DEF vars
<1> QED BY <1>1, <1>2, <1>3, <1>4, <1>5, <1>6, <1>7, <1>8, <1>9, <1>10, <1>11 DEF Next, Loop, Stopping

\* The watcher before it is started.
LEMMA InvInit == ASSUME MaxWrites \in Nat, Init PROVE Inv
<1>1. ShapeInv
  <2>1. pc \in [Dispatches -> DispatchSteps]
    BY DEF Init, DispatchSteps
  <2>2. DOMAIN got = Dispatches
    BY DEF Init
  <2>3. debounce \in Dispatches \cup {0} /\ taken \in Dispatches \cup {0} /\ writes \in 0 .. MaxWrites
    BY DEF Init
  <2>4. event \in BOOLEAN /\ chan = "none" /\ stopper = "idle"
    BY Zenon DEF Init
  <2> QED BY <2>1, <2>2, <2>3, <2>4 DEF ShapeInv
<1>2. TimerInv
  <2>1. \A d \in Dispatches \ {1} : pc[d] # "none" <=> d <= 0 + 1
    BY DEF Init, Dispatches
  <2> QED BY <2>1 DEF Init, TimerInv
<1> QED BY <1>1, <1>2 DEF Init, Inv, Watching

\* The invariant holds in every reachable state.
THEOREM Invariance == ASSUME MaxWrites \in Nat PROVE Spec => []Inv
<1>1. Init => Inv
  BY InvInit
<1>2. Inv /\ [Next]_vars => Inv'
  BY ShapeStep, TimerStep, StartStep, CoverStep DEF Inv
<1> QED BY <1>1, <1>2, PTL DEF Spec

\* leaseHash never hides a change of the lease: when dispatches do not overlap, and no
\* event, timer or dispatch is left, the lease dispatched last is the one on disk, for
\* any set of leases and however often the hook writes.
THEOREM ChangesAreDispatched == ASSUME MaxWrites \in Nat PROVE Spec => []NoChangeSwallowed
<1>1. Inv => NoChangeSwallowed
  BY DEF Inv, NoChangeSwallowed, Watching, Covered, Awaited, Running
<1> QED BY <1>1, Invariance, PTL

-----------------------------------------------------------------------------
(* The rate limiter. *)

CONSTANTS Clients, rate, burst, Period, MaxTime
VARIABLES now, ticker, clients, since, passed

R == INSTANCE Limiter


\* What newRateLimiter is called with: (1, 2), (30, 60) and (1, 5) tokens, and a
\* period of 300 s.  A bucket that was idle for a period is full again, which is
\* what makes it harmless to drop it.
RatesFit ==
  /\ rate \in Nat
  /\ burst \in Nat \ {0}
  /\ Period \in Nat \ {0}
  /\ MaxTime \in Nat
  /\ rate * Period >= burst

\* The tokens c could spend now.
Available(c) == IF clients[c] = R!Absent THEN burst ELSE R!Filled(clients[c])

\* No time stamp lies in the future, and a bucket that exists is not overdrawn.
ClockInv ==
  \A c \in Clients :
    /\ clients[c].lastCheck <= now
    /\ since[c] <= now
    /\ clients[c] # R!Absent => clients[c].tokens >= 0

\* What was let through and what could still be spent come out of one burst and of
\* the refill since the window began.
BudgetInv ==
  \A c \in Clients : passed[c] + Available(c) <= burst + rate * (now - since[c])

LimitInv == R!TypeOK /\ ClockInv /\ BudgetInv

-----------------------------------------------------------------------------
\* What a bucket gains over a span of time is a natural number, and grows by `rate`
\* in each unit of it.
LEMMA Refill ==
  ASSUME RatesFit, NEW t \in Nat
  PROVE  /\ rate * t \in Nat
         /\ rate * (t + 1) = rate * t + rate
  BY SMT DEF RatesFit

\* A bucket that was idle for a whole period is full.
LEMMA IdleIsFull ==
  ASSUME RatesFit, NEW t \in Nat, t > Period
  PROVE  rate * t >= burst
  BY SMT DEF RatesFit

\* What can be spent lies between nothing and the burst, and does not exceed it.
LEMMA AvailableBounds ==
  ASSUME RatesFit, R!TypeOK, ClockInv, NEW c \in Clients
  PROVE  Available(c) \in 0 .. burst
<1>1. CASE clients[c] = R!Absent
  BY <1>1 DEF Available, RatesFit
<1>2. CASE clients[c] # R!Absent
  <2>1. now - clients[c].lastCheck \in Nat /\ clients[c].tokens \in 0 .. burst
    BY <1>2 DEF R!TypeOK, ClockInv, RatesFit
  <2>2. rate * (now - clients[c].lastCheck) \in Nat
    BY <2>1, Refill
  <2>3. QED
    BY <1>2, <2>1, <2>2 DEF Available, R!Filled, RatesFit
<1>3. QED
  BY <1>1, <1>2
-----------------------------------------------------------------------------
\* The type invariant and the time stamps: every action keeps them.
LEMMA LimitTypes ==
  ASSUME RatesFit
  PROVE  R!TypeOK /\ ClockInv /\ [R!Next]_(R!vars) => R!TypeOK' /\ ClockInv'
<1> SUFFICES ASSUME R!TypeOK, ClockInv, [R!Next]_(R!vars)
             PROVE  R!TypeOK' /\ ClockInv'
  OBVIOUS
<1> USE DEF R!TypeOK, ClockInv, R!Absent, RatesFit
<1>1. CASE R!Cleanup
  BY <1>1 DEF R!Cleanup
<1>2. CASE R!Tick
  BY <1>2 DEF R!Tick
<1>3. ASSUME NEW c \in Clients, R!Allow(c)
      PROVE  R!TypeOK' /\ ClockInv'
  <2> DEFINE left == Available(c)
             let == clients[c] = R!Absent \/ left >= 1
  <2>1. left \in 0 .. burst
    BY AvailableBounds
  <2>2. clients[c] = R!Absent => left = burst
    BY DEF Available
  <2>3. /\ clients' = [clients EXCEPT ![c] = [tokens |-> IF let THEN left - 1 ELSE left,
                                              lastCheck |-> now]]
        /\ passed' = [passed EXCEPT ![c] = IF let THEN @ + 1 ELSE @]
        /\ UNCHANGED <<now, ticker, since>>
    BY <1>3 DEF R!Allow, Available
  <2>4. (IF let THEN left - 1 ELSE left) \in 0 .. burst
    BY <2>1, <2>2
  <2> HIDE DEF left, let
  <2>5. QED
    BY <2>3, <2>4
<1>4. ASSUME NEW c \in Clients, R!Watch(c)
      PROVE  R!TypeOK' /\ ClockInv'
  BY <1>4 DEF R!Watch
<1>5. CASE UNCHANGED R!vars
  BY <1>5 DEF R!vars
<1>6. QED
  BY <1>1, <1>2, <1>3, <1>4, <1>5 DEF R!Next
-----------------------------------------------------------------------------
\* A request is paid for with a token, a refused one costs nothing, and a dropped
\* bucket had been refilled: every action keeps the budget.
LEMMA BudgetStep ==
  ASSUME RatesFit
  PROVE  LimitInv /\ [R!Next]_(R!vars) => BudgetInv'
<1> SUFFICES ASSUME LimitInv, [R!Next]_(R!vars), NEW c \in Clients
             PROVE  passed'[c] + Available(c)' <= burst + rate * (now' - since'[c])
  BY DEF BudgetInv
<1>t. R!TypeOK' /\ ClockInv'
  BY LimitTypes DEF LimitInv
<1>a. Available(c) \in 0 .. burst
  BY AvailableBounds DEF LimitInv
<1>b. passed[c] \in Nat /\ passed[c] + Available(c) <= burst + rate * (now - since[c])
  BY DEF LimitInv, R!TypeOK, BudgetInv
<1>r. now - since[c] \in Nat /\ rate * (now - since[c]) \in Nat
  BY Refill DEF LimitInv, R!TypeOK, ClockInv, RatesFit
<1> USE DEF LimitInv, R!TypeOK, ClockInv, RatesFit
<1>1. CASE R!Cleanup
  <2>1. Available(c)' = Available(c)
    <3>1. CASE clients[c] = R!Absent
      <4>1. clients'[c] = R!Absent
        BY <1>1, <3>1 DEF R!Cleanup
      <4>2. QED
        BY <3>1, <4>1 DEF Available
    <3>2. CASE clients[c] # R!Absent /\ now - clients[c].lastCheck > Period
      <4>1. clients'[c] = R!Absent
        BY <1>1, <3>2 DEF R!Cleanup
      <4>2. rate * (now - clients[c].lastCheck) >= burst
        BY <3>2, IdleIsFull
      <4>3. rate * (now - clients[c].lastCheck) \in Nat
        BY <3>2, Refill
      <4>4. R!Filled(clients[c]) = burst
        BY <3>2, <4>2, <4>3 DEF R!Filled
      <4>5. QED
        BY <3>2, <4>1, <4>4 DEF Available
    <3>3. CASE clients[c] # R!Absent /\ ~(now - clients[c].lastCheck > Period)
      <4>1. clients'[c] = clients[c] /\ now' = now
        BY <1>1, <3>3 DEF R!Cleanup
      <4>2. QED
        BY <4>1 DEF Available, R!Filled
    <3>4. QED
      BY <3>1, <3>2, <3>3
  <2>2. UNCHANGED <<now, since, passed>>
    BY <1>1 DEF R!Cleanup
  <2>3. QED
    BY <2>1, <2>2, <1>b
<1>2. CASE R!Tick
  <2>1. now' = now + 1 /\ UNCHANGED <<clients, since, passed>>
    BY <1>2 DEF R!Tick
  <2>2. rate * (now' - since'[c]) = rate * (now - since[c]) + rate
    <3>1. now' - since'[c] = (now - since[c]) + 1
      BY <2>1
    <3>2. QED
      BY <3>1, <1>r, Refill
  <2>3. Available(c)' \in Int /\ Available(c)' <= Available(c) + rate
    <3>1. CASE clients[c] = R!Absent
      BY <3>1, <2>1 DEF Available
    <3>2. CASE clients[c] # R!Absent
      <4> DEFINE t == now - clients[c].lastCheck
      <4>1. t \in Nat /\ now' - clients[c].lastCheck = t + 1
        BY <2>1
      <4>2. rate * (t + 1) = rate * t + rate /\ rate * t \in Nat
        BY <4>1, Refill
      <4>3. clients[c].tokens \in Int
        OBVIOUS
      <4>4. Available(c) = IF clients[c].tokens + rate * t > burst THEN burst
                           ELSE clients[c].tokens + rate * t
        BY <3>2 DEF Available, R!Filled
      <4>5. Available(c)' = IF clients[c].tokens + rate * (t + 1) > burst THEN burst
                            ELSE clients[c].tokens + rate * (t + 1)
        BY <3>2, <2>1, <4>1 DEF Available, R!Filled
      <4> HIDE DEF t
      <4>6. QED
        BY <4>1, <4>2, <4>3, <4>4, <4>5
    <3>3. QED
      BY <3>1, <3>2
  <2>4. QED
    BY <1>a, <1>b, <1>r, <2>1, <2>2, <2>3
<1>3. ASSUME NEW d \in Clients, R!Allow(d)
      PROVE  passed'[c] + Available(c)' <= burst + rate * (now' - since'[c])
  <2>1. UNCHANGED <<now, since>>
    BY <1>3 DEF R!Allow
  <2>2. CASE c # d
    <3>1. clients'[c] = clients[c] /\ passed'[c] = passed[c]
      BY <1>3, <2>2 DEF R!Allow
    <3>2. Available(c)' = Available(c)
      BY <2>1, <3>1 DEF Available, R!Filled
    <3>3. QED
      BY <2>1, <3>1, <3>2, <1>b
  <2>3. CASE c = d
    <3> DEFINE left == Available(c)
               let == clients[c] = R!Absent \/ left >= 1
               new == [tokens |-> IF let THEN left - 1 ELSE left, lastCheck |-> now]
    <3>1. clients'[c] = new /\ passed'[c] = IF let THEN passed[c] + 1 ELSE passed[c]
      BY <1>3, <2>3 DEF R!Allow, Available
    <3>2. new.tokens \in 0 .. burst /\ new.lastCheck = now
      BY <1>a DEF Available
    <3>3. rate * (now - now) = 0
      OBVIOUS
    <3>4. Available(c)' = new.tokens
      BY <2>1, <3>1, <3>2, <3>3 DEF Available, R!Filled, R!Absent
    <3>5. QED
      BY <2>1, <3>1, <3>4, <1>a, <1>b, <1>r
  <2>4. QED
    BY <2>2, <2>3
<1>4. ASSUME NEW d \in Clients, R!Watch(d)
      PROVE  passed'[c] + Available(c)' <= burst + rate * (now' - since'[c])
  <2>1. Available(c)' = Available(c)
    BY <1>4 DEF R!Watch, Available, R!Filled
  <2>2. CASE c # d
    BY <1>4, <2>1, <2>2, <1>b DEF R!Watch
  <2>3. CASE c = d
    <3>1. passed'[c] = 0 /\ since'[c] = now /\ now' = now
      BY <1>4, <2>3 DEF R!Watch
    <3>2. rate * (now - now) = 0
      OBVIOUS
    <3>3. QED
      BY <2>1, <3>1, <3>2, <1>a
  <2>4. QED
    BY <2>2, <2>3
<1>5. CASE UNCHANGED R!vars
  <2>1. Available(c)' = Available(c)
    BY <1>5 DEF R!vars, Available, R!Filled
  <2>2. QED
    BY <1>5, <2>1, <1>b DEF R!vars
<1>6. QED
  BY <1>1, <1>2, <1>3, <1>4, <1>5 DEF R!Next

\* A limiter starts with no buckets and nothing counted.
LEMMA LimitInit ==
  ASSUME RatesFit
  PROVE  R!Init => LimitInv
<1> SUFFICES ASSUME R!Init PROVE LimitInv
  OBVIOUS
<1> USE DEF R!Init, RatesFit
<1>1. R!TypeOK /\ ClockInv
  BY DEF R!TypeOK, ClockInv, R!Absent
<1>2. BudgetInv
  <2> SUFFICES ASSUME NEW c \in Clients
               PROVE  passed[c] + Available(c) <= burst + rate * (now - since[c])
    BY Zenon DEF BudgetInv
  <2>1. Available(c) = burst /\ passed[c] = 0 /\ now - since[c] = 0
    BY DEF Available
  <2>2. rate * 0 = 0
    OBVIOUS
  <2>3. QED
    BY <2>1, <2>2
<1>3. QED
  BY <1>1, <1>2 DEF LimitInv

\* The inductive invariant holds in every reachable state of a limiter.
THEOREM LimitInvariance ==
  ASSUME RatesFit
  PROVE  R!Spec => []LimitInv
<1>1. LimitInv /\ [R!Next]_(R!vars) => LimitInv'
  BY LimitTypes, BudgetStep DEF LimitInv
<1>2. QED
  BY LimitInit, <1>1, PTL DEF R!Spec

\* No window of time lets more requests of an address through than one burst and
\* what the rate allows for the length of the window, although the cleanup drops
\* buckets and a new bucket starts full.
THEOREM RateIsHeld ==
  ASSUME RatesFit
  PROVE  R!Spec => []R!RateHeld
<1>1. LimitInv => R!RateHeld
  <2> SUFFICES ASSUME LimitInv, NEW c \in Clients
               PROVE  passed[c] <= burst + rate * (now - since[c])
    BY Zenon DEF R!RateHeld
  <2>1. Available(c) \in 0 .. burst
    BY AvailableBounds DEF LimitInv
  <2>2. passed[c] \in Nat /\ passed[c] + Available(c) <= burst + rate * (now - since[c])
    BY DEF LimitInv, R!TypeOK, BudgetInv
  <2>3. rate * (now - since[c]) \in Nat
    BY Refill DEF LimitInv, R!TypeOK, ClockInv, RatesFit
  <2>4. QED
    BY <2>1, <2>2, <2>3 DEF RatesFit
<1>2. QED
  BY LimitInvariance, <1>1, PTL
=============================================================================
