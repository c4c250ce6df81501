--------------------------- MODULE FirewallProofs ---------------------------
(***************************************************************************)
(* Invariants of Firewall, proved for every set of rulesets and every bound *)
(* on changes, failed commands and restarts, with calls that overlap.       *)
(***************************************************************************)
EXTENDS Firewall, TLAPS

\* The calls that act on s.change do so on the current one: s.mu is held from
\* the read of s.change to the assignment that clears it.
CallInv ==
  /\ op.step = "apply" => op.ac = born /\ op.ac # 0 /\ wd[op.ac] = "none"
  /\ op.step \in {"confirm", "rollback", "flush", "load"} =>
       op.ac = change /\ change # 0

\* An AtomicChange that was not created, or whose rules were not loaded, has no
\* watchdog; the pending change was created.
BornInv ==
  /\ change <= born
  /\ \A c \in Changes : c > born => wd[c] = "none"

Inv ==
  /\ TypeOK
  /\ CallInv
  /\ BornInv
  /\ PendingGuarded
  /\ PendingIsNewest

\* With one change at a time: only the newest change can be waiting or rolling back,
\* never while its successor is being loaded, and a change that was confirmed in
\* time is neither.
SerialInv ==
  /\ \A c \in Changes : Outstanding(c) => c = born /\ op.step # "apply"
  /\ \A c \in kept : c <= born /\ wd[c] # "none" /\ ~Outstanding(c)

\* When moreover no command fails and the process does not restart: the change that
\* waits is the newest, its snapshot is what the kernel held when Apply began, the
\* two rollbacks of a change exclude each other, each loads its snapshot into an
\* empty kernel, and a watchdog that is done has put its snapshot back.
CalmInv ==
  /\ late = {}
  /\ change # 0 /\ op.step # "apply" => change = born
  /\ op.step = "apply" => snapshot[op.ac] = kernel /\ \E r \in Rulesets : op.file = {r}
  /\ op.step \in {"flush", "load"} => snapshot[op.ac] # {} /\ wd[op.ac] # "armed"
  /\ op.step = "load" => kernel = {}
  /\ \A c \in Changes :
       /\ wd[c] \in {"flush", "load"} => snapshot[c] # {} /\ op.step \notin {"flush", "load"}
       /\ wd[c] = "load" => kernel = {}
       /\ c = born /\ wd[c] = "done" /\ snapshot[c] # {} /\ op.step \notin {"flush", "load"}
            => kernel = snapshot[c]

USE FirewallAssumption DEF Changes

-----------------------------------------------------------------------------
\* What a command does to the variables it may change, for the type invariant.
LEMMA RunOkType ==
  ASSUME TypeOK, NEW cmd \in Commands, RunOk(cmd)
  PROVE  kernel' \in SUBSET Rulesets /\ late' = late /\ faults' = faults
  BY DEF TypeOK, RunOk, Effect, Commands

\* A command that reports an error leaves the kernel alone, but may run late.
LEMMA RunErrorType ==
  ASSUME TypeOK, NEW cmd \in Commands, RunError(cmd)
  PROVE  /\ kernel' = kernel
         /\ late' \in SUBSET (Nat \X Commands)
         /\ faults' \in 0 .. MaxFaults
  BY DEF TypeOK, RunError

\* The three kinds of nft command the service runs are commands.
LEMMA CommandTypes ==
  /\ FlushCmd \in Commands
  /\ \A rules \in SUBSET Rulesets : FileCmd(rules) \in Commands
  /\ \A rules \in SUBSET Rulesets : SnapshotCmd(rules) \in Commands
  BY DEF Commands, FlushCmd, FileCmd, SnapshotCmd

-----------------------------------------------------------------------------
\* Every action keeps the type invariant.
LEMMA TypeStep == TypeOK /\ CallInv /\ [Next]_vars => TypeOK'
<1> SUFFICES ASSUME TypeOK, CallInv, [Next]_vars
             PROVE  TypeOK'
  OBVIOUS
<1> USE DEF TypeOK, WdStates, OpSteps, Callers, Idle
<1>1. ASSUME NEW by \in Callers, ApplyBegins(by)
      PROVE  TypeOK'
  BY SMTT(20), <1>1 DEF ApplyBegins, Rendered
<1>2. ASSUME NEW by \in Callers, ConfirmBegins(by)
      PROVE  TypeOK'
  BY <1>2, Zenon DEF ConfirmBegins
<1>3. CASE LeaseConfirmsNothing
  BY <1>3 DEF LeaseConfirmsNothing
<1>4. CASE RollbackBegins
  BY <1>4, Zenon DEF RollbackBegins
<1>5. CASE ApplyLoads
  <2>1. FileCmd(op.file) \in Commands
    BY CommandTypes
  <2>2. op.ac \in 0 .. MaxChanges
    OBVIOUS
  <2>3. kernel' \in SUBSET Rulesets /\ late' \in SUBSET (Nat \X Commands)
        /\ faults' \in 0 .. MaxFaults
    BY <1>5, <2>1, RunOkType, RunErrorType DEF ApplyLoads
  <2>4. QED
    BY <1>5, <2>2, <2>3 DEF ApplyLoads
<1>6. CASE ConfirmEnds
  <2>1. op.ac \in Changes
    BY <1>6 DEF ConfirmEnds, CallInv
  <2>2. StopTimer(op.ac) \in [Changes -> WdStates]
    BY <2>1 DEF StopTimer
  <2>3. kept' \in SUBSET Changes
    BY Zenon, <1>6, <2>1 DEF ConfirmEnds
  <2>4. QED
    BY <1>6, <2>2, <2>3 DEF ConfirmEnds
<1>7. CASE RollbackLocks
  <2>1. op.ac \in Changes
    BY <1>7 DEF RollbackLocks, CallInv
  <2>2. StopTimer(op.ac) \in [Changes -> WdStates]
    BY <2>1 DEF StopTimer
  <2>3. QED
    BY SMTT(20), <1>7, <2>1, <2>2 DEF RollbackLocks
<1>8. CASE RollbackFlushes
  <2>1. kernel' \in SUBSET Rulesets /\ late' \in SUBSET (Nat \X Commands)
        /\ faults' \in 0 .. MaxFaults
    BY <1>8, CommandTypes, RunOkType, RunErrorType DEF RollbackFlushes
  <2>2. /\ op' \in {[op EXCEPT !.step = "load"], Idle}
        /\ change' \in {change, 0}
        /\ UNCHANGED <<cfg, born, snapshot, wd, lease, crashes, kept>>
    BY <1>8 DEF RollbackFlushes
  <2>3. op' \in [step : OpSteps, by : Callers, ac : 0 .. MaxChanges, file : SUBSET Rulesets]
    BY <2>2
  <2>4. change' \in 0 .. MaxChanges
    BY <2>2
  <2>5. QED
    BY <2>1, <2>2, <2>3, <2>4
<1>9. CASE RollbackLoads
  <2>1. kernel' \in SUBSET Rulesets /\ late' \in SUBSET (Nat \X Commands)
        /\ faults' \in 0 .. MaxFaults
    <3>1. SnapshotCmd(snapshot[op.ac]) \in Commands
      BY <1>9, CommandTypes DEF RollbackLoads, CallInv
    <3>2. QED
      BY <1>9, <3>1, RunOkType, RunErrorType DEF RollbackLoads
  <2>2. QED
    BY <1>9, <2>1 DEF RollbackLoads
<1>10. ASSUME NEW c \in Changes, Watchdog(c)
       PROVE  TypeOK'
  <2>1. CASE WatchdogFires(c)
    BY <2>1 DEF WatchdogFires
  <2>2. CASE WatchdogLocks(c)
    BY <2>2 DEF WatchdogLocks
  <2>3. CASE WatchdogFlushes(c)
    <3>1. kernel' \in SUBSET Rulesets /\ late' \in SUBSET (Nat \X Commands)
          /\ faults' \in 0 .. MaxFaults
      BY <2>3, CommandTypes, RunOkType, RunErrorType DEF WatchdogFlushes
    <3>2. QED
      BY <2>3, <3>1 DEF WatchdogFlushes
  <2>4. CASE WatchdogLoads(c)
    <3>1. SnapshotCmd(snapshot[c]) \in Commands
      BY CommandTypes
    <3>2. kernel' \in SUBSET Rulesets /\ late' \in SUBSET (Nat \X Commands)
          /\ faults' \in 0 .. MaxFaults
      BY <2>4, <3>1, RunOkType, RunErrorType DEF WatchdogLoads
    <3>3. QED
      BY <2>4, <3>2 DEF WatchdogLoads
  <2>5. QED
    BY Zenon, <1>10, <2>1, <2>2, <2>3, <2>4 DEF Watchdog
<1>11. CASE LateLands
  <2>1. PICK l \in late : kernel' = Effect(l[2]) /\ late' = late \ {l}
    BY <1>11 DEF LateLands
  <2>2. l[2] \in Commands
    OBVIOUS
  <2>3. kernel' \in SUBSET Rulesets
    BY <2>1, <2>2 DEF Effect, Commands
  <2>4. QED
    BY <1>11, <2>1, <2>3 DEF LateLands
<1>12. CASE EditConfig
  BY <1>12 DEF EditConfig
<1>13. CASE Restart
  BY <1>13 DEF Restart
<1>14. CASE UNCHANGED vars
  BY <1>14 DEF vars
<1>15. QED
  BY Zenon, <1>1, <1>2, <1>3, <1>4, <1>5, <1>6, <1>7, <1>8, <1>9, <1>10, <1>11, <1>12,
     <1>13, <1>14
  DEF Next, Progress, LeaseConfirms
-----------------------------------------------------------------------------
\* Every action keeps the rest of the inductive invariant.
LEMMA InvStep == Inv /\ [Next]_vars => Inv'
<1> SUFFICES ASSUME Inv, [Next]_vars
             PROVE  Inv'
  OBVIOUS
<1>t. TypeOK'
  BY TypeStep DEF Inv
<1> SUFFICES CallInv' /\ BornInv' /\ PendingGuarded' /\ PendingIsNewest'
  BY <1>t DEF Inv
<1> USE <1>t DEF Inv, TypeOK, CallInv, BornInv, PendingGuarded, PendingIsNewest,
                 WdStates, OpSteps, Idle
<1>1. ASSUME NEW by \in Callers, ApplyBegins(by)
      PROVE  CallInv' /\ BornInv' /\ PendingGuarded' /\ PendingIsNewest'
  BY <1>1 DEF ApplyBegins, Rendered
<1>2. ASSUME NEW by \in Callers, ConfirmBegins(by)
      PROVE  CallInv' /\ BornInv' /\ PendingGuarded' /\ PendingIsNewest'
  BY <1>2 DEF ConfirmBegins
<1>3. CASE LeaseConfirmsNothing
  BY <1>3 DEF LeaseConfirmsNothing
<1>4. CASE RollbackBegins
  BY <1>4 DEF RollbackBegins
<1>5. CASE ApplyLoads
  BY <1>5 DEF ApplyLoads
<1>6. CASE ConfirmEnds
  BY <1>6 DEF ConfirmEnds, StopTimer
<1>7. CASE RollbackLocks
  BY <1>7 DEF RollbackLocks, StopTimer
<1>8. CASE RollbackFlushes
  BY <1>8 DEF RollbackFlushes
<1>9. CASE RollbackLoads
  BY <1>9 DEF RollbackLoads
<1>10. ASSUME NEW c \in Changes, Watchdog(c)
       PROVE  CallInv' /\ BornInv' /\ PendingGuarded' /\ PendingIsNewest'
  <2>1. /\ wd[c] \in {"armed", "fired", "flush", "load"}
        /\ \E s \in {"fired", "flush", "load", "done"} : wd' = [wd EXCEPT ![c] = s]
        /\ UNCHANGED <<change, born, op>>
    BY <1>10 DEF Watchdog, WatchdogFires, WatchdogLocks, WatchdogFlushes, WatchdogLoads
  <2>2. QED
    BY <2>1
<1>11. CASE LateLands
  BY <1>11 DEF LateLands
<1>12. CASE EditConfig
  BY <1>12 DEF EditConfig
<1>13. CASE Restart
  BY <1>13 DEF Restart
<1>14. CASE UNCHANGED vars
  BY <1>14 DEF vars
<1>15. QED
  BY Zenon, <1>1, <1>2, <1>3, <1>4, <1>5, <1>6, <1>7, <1>8, <1>9, <1>10, <1>11, <1>12,
     <1>13, <1>14
  DEF Next, Progress, LeaseConfirms, Callers

\* The inductive invariant holds when the web process first starts.
LEMMA InvInit == Init => Inv
  BY DEF Init, Inv, TypeOK, CallInv, BornInv, PendingGuarded, PendingIsNewest,
         WdStates, OpSteps, Callers, Idle

\* The inductive invariant holds in every reachable state of the service.
THEOREM Invariance == Spec => []Inv
  BY InvInit, InvStep, PTL DEF Spec

\* The type invariant.
THEOREM TypeCorrect == Spec => []TypeOK
  BY Invariance, PTL DEF Inv

\* A pending change always has its watchdog, or was rolled back by it.
THEOREM PendingChangeIsGuarded == Spec => []PendingGuarded
  BY Invariance, PTL DEF Inv

\* The pending change is the newest one that reached the kernel.
THEOREM PendingChangeIsNewest == Spec => []PendingIsNewest
  BY Invariance, PTL DEF Inv
-----------------------------------------------------------------------------
(* One change at a time.                                                    *)

\* When Apply waits for the outstanding watchdog, every action keeps SerialInv.
LEMMA SerialStep ==
  ASSUME ~Overlap
  PROVE  Inv /\ SerialInv /\ [Next]_vars => SerialInv'
<1> SUFFICES ASSUME Inv, SerialInv, [Next]_vars
             PROVE  SerialInv'
  OBVIOUS
<1>t. TypeOK'
  BY TypeStep DEF Inv
<1> USE <1>t DEF SerialInv, Outstanding, Inv, TypeOK, CallInv, BornInv, WdStates, OpSteps, Idle
<1>1. ASSUME NEW by \in Callers, ApplyBegins(by)
      PROVE  SerialInv'
  BY <1>1 DEF ApplyBegins, Rendered
<1>2. ASSUME NEW by \in Callers, ConfirmBegins(by)
      PROVE  SerialInv'
  BY <1>2 DEF ConfirmBegins
<1>3. CASE LeaseConfirmsNothing
  BY <1>3 DEF LeaseConfirmsNothing
<1>4. CASE RollbackBegins
  BY <1>4 DEF RollbackBegins
<1>5. CASE ApplyLoads
  BY <1>5 DEF ApplyLoads
<1>6. CASE ConfirmEnds
  BY <1>6 DEF ConfirmEnds, StopTimer
<1>7. CASE RollbackLocks
  BY <1>7 DEF RollbackLocks, StopTimer
<1>8. CASE RollbackFlushes
  BY <1>8 DEF RollbackFlushes
<1>9. CASE RollbackLoads
  BY <1>9 DEF RollbackLoads
<1>10. ASSUME NEW c \in Changes, Watchdog(c)
       PROVE  SerialInv'
  <2>1. /\ wd[c] \in {"armed", "fired", "flush", "load"}
        /\ \E s \in {"fired", "flush", "load", "done"} : wd' = [wd EXCEPT ![c] = s]
        /\ UNCHANGED <<born, op, kept>>
    BY <1>10 DEF Watchdog, WatchdogFires, WatchdogLocks, WatchdogFlushes, WatchdogLoads
  <2>2. QED
    BY <2>1
<1>11. CASE LateLands
  BY <1>11 DEF LateLands
<1>12. CASE EditConfig
  BY <1>12 DEF EditConfig
<1>13. CASE Restart
  BY <1>13 DEF Restart
<1>14. CASE UNCHANGED vars
  BY <1>14 DEF vars
<1>15. QED
  BY <1>1, <1>2, <1>3, <1>4, <1>5, <1>6, <1>7, <1>8, <1>9, <1>10, <1>11, <1>12,
     <1>13, <1>14
  DEF Next, Progress, LeaseConfirms, Callers

\* No change is outstanding when the web process first starts.
LEMMA SerialInit == Init => SerialInv
  BY DEF Init, SerialInv, Outstanding

\* SerialInv holds in every reachable state when changes do not overlap.
THEOREM SerialInvariance ==
  ASSUME ~Overlap
  PROVE  Spec => []SerialInv
<1>1. Inv /\ SerialInv /\ [Next]_vars => SerialInv'
  BY SerialStep
<1>2. QED
  BY SerialInit, <1>1, Invariance, PTL DEF Spec

\* A change confirmed before its watchdog fired is not undone, neither by that
\* watchdog nor by an older one, whatever commands fail, land late or are cut off by
\* a restart: provided no Apply is made while a watchdog is outstanding.
THEOREM ConfirmedChangeStays ==
  ASSUME ~Overlap
  PROVE  Spec => []ConfirmedStays
<1>1. Inv /\ SerialInv => ConfirmedStays
  <2> SUFFICES ASSUME Inv, SerialInv, NEW c \in kept, NEW d \in 1 .. c
               PROVE  wd[d] \notin {"flush", "load"}
    BY DEF ConfirmedStays
  <2>1. c \in Changes /\ d \in Changes /\ c <= born /\ born \in Nat
    BY DEF Inv, TypeOK, SerialInv
  <2>2. Outstanding(d) => d = c
    BY <2>1 DEF SerialInv
  <2>3. QED
    BY <2>1, <2>2 DEF SerialInv, Outstanding
<1>2. QED
  BY <1>1, Invariance, SerialInvariance, PTL
-----------------------------------------------------------------------------
(* The promise of GuardedChange, with commands that succeed and no restart.  *)

Calm == ~Overlap /\ MaxFaults = 0 /\ MaxCrashes = 0

\* No command reports an error, so none runs late; and the process stays up.
LEMMA NoErrors ==
  ASSUME Calm, TypeOK
  PROVE  /\ \A cmd : ~RunError(cmd)
         /\ ~(faults < MaxFaults)
         /\ ~Restart
  BY DEF Calm, TypeOK, RunError, Restart

\* What the three commands leave in the kernel.
LEMMA Effects ==
  /\ RunOk(FlushCmd) => kernel' = {} /\ late' = late
  /\ \A rules : RunOk(FileCmd(rules)) => kernel' = rules /\ late' = late
  /\ \A rules : RunOk(SnapshotCmd(rules)) => kernel' = kernel \cup rules /\ late' = late
  BY DEF RunOk, Effect, FlushCmd, FileCmd, SnapshotCmd

\* Every action keeps CalmInv.
LEMMA CalmStep ==
  ASSUME Calm
  PROVE  Inv /\ SerialInv /\ CalmInv /\ [Next]_vars => CalmInv'
<1> SUFFICES ASSUME Inv, SerialInv, CalmInv, [Next]_vars
             PROVE  CalmInv'
  OBVIOUS
<1>e. (\A cmd : ~RunError(cmd)) /\ ~(faults < MaxFaults) /\ ~Restart
  BY NoErrors DEF Inv
<1> USE DEF CalmInv, Inv, TypeOK, CallInv, BornInv, PendingGuarded, SerialInv, Outstanding,
            WdStates, OpSteps, Idle
<1>1. ASSUME NEW by \in Callers, ApplyBegins(by)
      PROVE  CalmInv'
  BY <1>1, <1>e DEF ApplyBegins, Rendered, Calm
<1>2. ASSUME NEW by \in Callers, ConfirmBegins(by)
      PROVE  CalmInv'
  BY <1>2 DEF ConfirmBegins
<1>3. CASE LeaseConfirmsNothing
  BY <1>3 DEF LeaseConfirmsNothing
<1>4. CASE RollbackBegins
  BY <1>4 DEF RollbackBegins
<1>5. CASE ApplyLoads
  BY <1>5, <1>e, Effects DEF ApplyLoads
<1>6. CASE ConfirmEnds
  BY <1>6 DEF ConfirmEnds, StopTimer
<1>7. CASE RollbackLocks
  BY <1>7 DEF RollbackLocks, StopTimer, NoSnapshot, Locked
<1>8. CASE RollbackFlushes
  BY <1>8, <1>e, Effects DEF RollbackFlushes
<1>9. CASE RollbackLoads
  <2>1. kernel' = kernel \cup snapshot[op.ac] /\ late' = late
    BY <1>9, <1>e, Effects DEF RollbackLoads
  <2>2. kernel = {} /\ op.ac = born /\ op.ac \in Changes
    BY <1>9 DEF RollbackLoads
  <2>3. kernel' = snapshot[op.ac]
    BY <2>1, <2>2
  <2>4. op' = Idle /\ change' = 0 /\ UNCHANGED <<born, snapshot, wd>>
    BY <1>9 DEF RollbackLoads
  <2>5. \A c \in Changes : wd[c] # "load"
    BY <1>9 DEF RollbackLoads
  <2>6. QED
    BY <2>1, <2>2, <2>3, <2>4, <2>5
<1>10. ASSUME NEW c \in Changes, WatchdogFires(c)
       PROVE  CalmInv'
  BY <1>10 DEF WatchdogFires
<1>11. ASSUME NEW c \in Changes, WatchdogLocks(c)
       PROVE  CalmInv'
  BY <1>11 DEF WatchdogLocks, NoSnapshot, Locked
<1>12. ASSUME NEW c \in Changes, WatchdogFlushes(c)
       PROVE  CalmInv'
  BY <1>12, <1>e, Effects DEF WatchdogFlushes
<1>13. ASSUME NEW c \in Changes, WatchdogLoads(c)
       PROVE  CalmInv'
  <2>1. kernel' = kernel \cup snapshot[c] /\ late' = late
    BY <1>13, <1>e, Effects DEF WatchdogLoads
  <2>2. kernel = {} /\ c = born /\ op.step \notin {"apply", "flush", "load"}
    BY <1>13 DEF WatchdogLoads
  <2>3. kernel' = snapshot[c]
    BY <2>1, <2>2
  <2>4. wd' = [wd EXCEPT ![c] = "done"] /\ UNCHANGED <<change, born, snapshot, op>>
    BY <1>13 DEF WatchdogLoads
  <2>5. \A d \in Changes \ {c} : wd[d] \notin {"flush", "load"}
    BY <2>2
  <2>6. QED
    BY <2>1, <2>2, <2>3, <2>4, <2>5
<1>14. CASE LateLands
  BY <1>14 DEF LateLands
<1>15. CASE EditConfig
  BY <1>15 DEF EditConfig
<1>16. CASE UNCHANGED vars
  BY <1>16 DEF vars
<1>17. QED
  BY Zenon, <1>1, <1>2, <1>3, <1>4, <1>5, <1>6, <1>7, <1>8, <1>9, <1>10, <1>11, <1>12,
     <1>13, <1>14, <1>15, <1>16, <1>e
  DEF Next, Progress, LeaseConfirms, Watchdog, Callers

\* CalmInv holds when the web process first starts.
LEMMA CalmInit == Init => CalmInv
  BY DEF Init, CalmInv, Idle

\* CalmInv holds in every reachable state.
LEMMA CalmInvariance ==
  ASSUME Calm
  PROVE  Spec => [](Inv /\ SerialInv /\ CalmInv)
<1>1. Inv /\ SerialInv /\ CalmInv /\ [Next]_vars => CalmInv'
  BY CalmStep
<1>2. Spec => []SerialInv
  BY SerialInvariance DEF Calm
<1>3. QED
  BY CalmInit, <1>1, <1>2, Invariance, PTL DEF Spec

\* Every step of the service is a step of the promise, or leaves what the promise
\* speaks of unchanged.
LEMMA StepSimulation ==
  ASSUME Calm
  PROVE  Inv /\ SerialInv /\ CalmInv /\ [Next]_vars
           => [Promise!Next]_<<kernel, TrialPrev, TrialPhase>>
<1> SUFFICES ASSUME Inv, SerialInv, CalmInv, [Next]_vars
             PROVE  Promise!Next \/ UNCHANGED <<kernel, TrialPrev, TrialPhase>>
  OBVIOUS
<1>e. (\A cmd : ~RunError(cmd)) /\ ~(faults < MaxFaults) /\ ~Restart
  BY NoErrors DEF Inv
<1> USE DEF CalmInv, Inv, TypeOK, CallInv, BornInv, PendingGuarded, SerialInv, Outstanding,
            WdStates, OpSteps, Idle
<1>1. ASSUME NEW by \in Callers, ApplyBegins(by)
      PROVE  UNCHANGED <<kernel, TrialPrev, TrialPhase>>
  <2>1. op.step = "idle" /\ op'.step = "apply" /\ born' = born + 1 /\ UNCHANGED <<kernel, wd>>
    BY <1>1 DEF ApplyBegins
  <2>2. \A c \in Changes : c # born + 1 => snapshot'[c] = snapshot[c]
    BY <1>1, <1>e DEF ApplyBegins
  <2>3. LastTried' = born /\ LastTried = born
    BY <2>1 DEF LastTried
  <2>4. TrialPrev' = TrialPrev
    BY <2>2, <2>3 DEF TrialPrev
  <2>5. TrialPhase' = TrialPhase
    BY <2>1 DEF TrialPhase
  <2>6. QED
    BY <2>1, <2>4, <2>5
<1>2. ASSUME NEW by \in Callers, ConfirmBegins(by)
      PROVE  UNCHANGED <<kernel, TrialPrev, TrialPhase>>
  BY <1>2 DEF ConfirmBegins, TrialPrev, TrialPhase, LastTried
<1>3. CASE LeaseConfirmsNothing
  BY <1>3 DEF LeaseConfirmsNothing, TrialPrev, TrialPhase, LastTried
<1>4. CASE RollbackBegins
  BY <1>4 DEF RollbackBegins, TrialPrev, TrialPhase, LastTried
<1>5. CASE ApplyLoads
  <2>1. PICK r \in Rulesets : op.file = {r}
    BY <1>5 DEF ApplyLoads
  <2>2. kernel' = {r} /\ wd' = [wd EXCEPT ![op.ac] = "armed"] /\ op' = Idle
        /\ UNCHANGED <<born, snapshot>>
    BY <1>5, <1>e, <2>1, Effects DEF ApplyLoads
  <2>3. TrialPrev' = kernel
    <3>1. op.step = "apply" /\ op.ac = born /\ born \in Changes /\ snapshot[born] = kernel
      BY <1>5 DEF ApplyLoads
    <3>2. LastTried' = born
      BY <2>2 DEF LastTried
    <3>3. QED
      BY <2>2, <3>1, <3>2 DEF TrialPrev
  <2>4. TrialPhase = "settled"
    BY <1>5 DEF ApplyLoads, TrialPhase
  <2>5. TrialPhase' = "trial"
    BY <1>5, <2>2 DEF ApplyLoads, TrialPhase
  <2>6. Promise!Try
    BY <2>1, <2>2, <2>3, <2>4, <2>5 DEF Promise!Try
  <2>7. QED
    BY <2>6 DEF Promise!Next
<1>6. CASE ConfirmEnds
  <2>1. kernel' = kernel /\ TrialPrev' = TrialPrev
    BY <1>6 DEF ConfirmEnds, TrialPrev, LastTried
  <2>2. CASE wd[op.ac] = "armed"
    <3>1. TrialPhase = "trial" /\ TrialPhase' = "settled"
      BY <1>6, <2>2 DEF ConfirmEnds, StopTimer, TrialPhase
    <3>2. QED
      BY <2>1, <3>1 DEF Promise!Next, Promise!Confirm
  <2>3. CASE wd[op.ac] # "armed"
    BY <1>6, <2>1, <2>3 DEF ConfirmEnds, StopTimer, TrialPhase
  <2>4. QED
    BY <2>2, <2>3
<1>7. CASE RollbackLocks
  <2>1. kernel' = kernel /\ UNCHANGED <<born, snapshot>>
    BY <1>7 DEF RollbackLocks
  <2>2. op.step = "rollback" /\ op.ac = born /\ op.ac \in Changes /\ op.ac = change
    BY <1>7 DEF RollbackLocks
  <2>3. wd[op.ac] \in {"armed", "fired", "done"} /\ wd' = StopTimer(op.ac)
    BY <1>7, <2>2 DEF RollbackLocks, Locked
  <2>4. IF snapshot[op.ac] = {} THEN op'.step = "idle" ELSE op'.step = "flush"
    BY <1>7 DEF RollbackLocks, NoSnapshot
  <2>5. TrialPrev = snapshot[op.ac] /\ TrialPrev' = TrialPrev
    BY <2>1, <2>2, <2>4 DEF TrialPrev, LastTried
  <2>6. CASE wd[op.ac] = "armed" /\ snapshot[op.ac] = {}
    <3>1. TrialPhase = "trial" /\ TrialPhase' = "settled"
      BY <2>2, <2>3, <2>4, <2>6 DEF TrialPhase, StopTimer
    <3>2. QED
      BY <2>1, <2>5, <2>6, <3>1 DEF Promise!Next, Promise!NothingToRestore
  <2>7. CASE wd[op.ac] = "armed" /\ snapshot[op.ac] # {}
    <3>1. TrialPhase = "trial" /\ TrialPhase' = "expired"
      BY <2>2, <2>3, <2>4, <2>7 DEF TrialPhase, StopTimer
    <3>2. QED
      BY <2>1, <2>5, <3>1 DEF Promise!Next, Promise!Expire
  <2>8. CASE wd[op.ac] = "fired"
    <3>1. TrialPhase = "expired" /\ TrialPhase' = "expired"
      BY <2>2, <2>3, <2>8 DEF TrialPhase, StopTimer
    <3>2. QED
      BY <2>1, <2>5, <3>1
  <2>9. CASE wd[op.ac] = "done"
    <3>1. wd' = wd /\ \A c \in Changes : ~Outstanding(c)
      BY <2>2, <2>3, <2>9 DEF StopTimer
    <3>2. CASE snapshot[op.ac] = {}
      <4>1. TrialPhase' = TrialPhase
        BY <2>2, <2>4, <3>1, <3>2 DEF TrialPhase
      <4>2. QED
        BY <2>1, <2>5, <4>1
    <3>3. CASE snapshot[op.ac] # {}
      <4>1. TrialPhase = "settled" /\ TrialPhase' = "expired"
        BY <2>2, <2>4, <3>1, <3>3 DEF TrialPhase
      <4>2. kernel = snapshot[op.ac]
        BY <2>2, <2>9, <3>3
      <4>3. QED
        BY <2>1, <2>5, <4>1, <4>2 DEF Promise!Next, Promise!RestoreAgain
    <3>4. QED
      BY <3>2, <3>3
  <2>10. QED
    BY <2>3, <2>6, <2>7, <2>8, <2>9
<1>8. CASE RollbackFlushes
  <2>1. kernel' = {} /\ op.step = "flush" /\ op'.step = "load" /\ UNCHANGED <<born, snapshot, wd>>
    BY <1>8, <1>e, Effects DEF RollbackFlushes
  <2>2. TrialPhase = "expired" /\ TrialPhase' = "expired"
    BY <2>1 DEF TrialPhase
  <2>3. TrialPrev = snapshot[op.ac] /\ TrialPrev # {} /\ TrialPrev' = TrialPrev
    BY <2>1 DEF TrialPrev, LastTried
  <2>4. QED
    BY <2>1, <2>2, <2>3 DEF Promise!Next, Promise!Drop
<1>9. CASE RollbackLoads
  <2>1. op.step = "load" /\ kernel = {} /\ op.ac = born /\ op.ac \in Changes
    BY <1>9 DEF RollbackLoads
  <2>2. kernel' = snapshot[op.ac] /\ op'.step = "idle" /\ UNCHANGED <<born, snapshot, wd>>
    <3>1. kernel' = kernel \cup snapshot[op.ac]
      BY <1>9, <1>e, Effects DEF RollbackLoads
    <3>2. QED
      BY <1>9, <2>1, <3>1 DEF RollbackLoads
  <2>3. TrialPrev = snapshot[op.ac] /\ TrialPrev' = TrialPrev
    BY <2>1, <2>2 DEF TrialPrev, LastTried
  <2>4. TrialPhase = "expired" /\ TrialPhase' \in {"settled", "expired"}
    BY <2>1, <2>2 DEF TrialPhase
  <2>5. QED
    BY <2>2, <2>3, <2>4 DEF Promise!Next, Promise!Restore
<1>10. ASSUME NEW c \in Changes, Watchdog(c)
       PROVE  Promise!Next \/ UNCHANGED <<kernel, TrialPrev, TrialPhase>>
  <2>1. /\ c = born /\ op.step # "apply"
        /\ UNCHANGED <<born, snapshot, op>>
    BY <1>10 DEF Watchdog, WatchdogFires, WatchdogLocks, WatchdogFlushes, WatchdogLoads
  <2>2. TrialPrev = snapshot[c] /\ TrialPrev' = TrialPrev
    BY <2>1 DEF TrialPrev, LastTried
  <2>3. CASE WatchdogFires(c)
    <3>1. op.step \notin {"flush", "load"}
      BY <2>1, <2>3 DEF WatchdogFires
    <3>2. TrialPhase = "trial" /\ TrialPhase' = "expired"
      BY <2>1, <2>3, <3>1 DEF WatchdogFires, TrialPhase
    <3>3. QED
      BY <2>2, <2>3, <3>2 DEF WatchdogFires, Promise!Next, Promise!Expire
  <2>4. CASE WatchdogLocks(c)
    <3>1. op.step \notin {"flush", "load"}
      BY <2>1, <2>4 DEF WatchdogLocks, Locked
    <3>2. kernel' = kernel /\ TrialPhase = "expired"
      BY <2>4 DEF WatchdogLocks, TrialPhase
    <3>3. CASE snapshot[c] = {}
      <4>1. TrialPhase' = "settled"
        BY <2>1, <2>4, <3>1, <3>3 DEF WatchdogLocks, NoSnapshot, TrialPhase
      <4>2. QED
        BY <2>2, <3>2, <3>3, <4>1 DEF Promise!Next, Promise!NothingToRestore
    <3>4. CASE snapshot[c] # {}
      <4>1. TrialPhase' = "expired"
        BY <2>4, <3>4 DEF WatchdogLocks, NoSnapshot, TrialPhase
      <4>2. QED
        BY <2>2, <3>2, <4>1
    <3>5. QED
      BY <3>3, <3>4
  <2>5. CASE WatchdogFlushes(c)
    <3>1. kernel' = {} /\ wd' = [wd EXCEPT ![c] = "load"] /\ snapshot[c] # {}
      BY <2>5, <1>e, Effects DEF WatchdogFlushes
    <3>2. TrialPhase = "expired" /\ TrialPhase' = "expired"
      BY <2>5, <3>1 DEF WatchdogFlushes, TrialPhase
    <3>3. QED
      BY <2>2, <3>1, <3>2 DEF Promise!Next, Promise!Drop
  <2>6. CASE WatchdogLoads(c)
    <3>1. kernel' = kernel \cup snapshot[c] /\ wd' = [wd EXCEPT ![c] = "done"]
      BY <2>6, <1>e, Effects DEF WatchdogLoads
    <3>2. kernel = {} /\ op.step \notin {"flush", "load"}
      BY <2>6 DEF WatchdogLoads
    <3>3. TrialPhase = "expired" /\ TrialPhase' = "settled"
      BY <2>1, <2>6, <3>1, <3>2 DEF WatchdogLoads, TrialPhase
    <3>4. QED
      BY <2>2, <3>1, <3>2, <3>3 DEF Promise!Next, Promise!Restore
  <2>7. QED
    BY <1>10, <2>3, <2>4, <2>5, <2>6 DEF Watchdog
<1>11. CASE LateLands
  BY <1>11 DEF LateLands
<1>12. CASE EditConfig
  BY <1>12 DEF EditConfig, TrialPrev, TrialPhase, LastTried
<1>13. CASE UNCHANGED vars
  BY <1>13 DEF vars, TrialPrev, TrialPhase, LastTried
<1>14. QED
  BY <1>1, <1>2, <1>3, <1>4, <1>5, <1>6, <1>7, <1>8, <1>9, <1>10, <1>11, <1>12,
     <1>13, <1>e
  DEF Next, Progress, LeaseConfirms, Callers

\* The service starts where the promise starts.
LEMMA InitSimulation == Init => Promise!Init
  BY DEF Init, Promise!Init, TrialPrev, TrialPhase, LastTried, Idle

\* The watchdog-guarded change keeps its promise: with one change at a time and
\* commands that succeed, the rules on trial are confirmed, or the rules in force
\* before them come back, whatever the order of Confirm, Rollback and the watchdog.
THEOREM ServiceKeepsPromise ==
  ASSUME Calm
  PROVE  Spec => Implements
<1>1. Inv /\ SerialInv /\ CalmInv /\ [Next]_vars
        => [Promise!Next]_<<kernel, TrialPrev, TrialPhase>>
  BY StepSimulation
<1>2. QED
  BY InitSimulation, <1>1, CalmInvariance, PTL DEF Spec, Implements, Promise!Spec
=============================================================================
