------------------------------ MODULE Firewall ------------------------------
(***************************************************************************)
(* The firewall service and its watchdog-guarded nftables change            *)
(* (internal/services/firewall.go, internal/netutil/atomic.go), run by the  *)
(* web handlers and by the lease callback of internal/web/server.go.        *)
(*                                                                          *)
(* A ruleset is opaque.  The kernel holds the SET of rulesets loaded since  *)
(* the last flush: a rendered file starts with "flush ruleset" and replaces *)
(* what is loaded, a snapshot printed by `nft list ruleset` has no flush    *)
(* and is added to what is loaded.  A change is one AtomicChange object,    *)
(* numbered in creation order; 0 is the nil pointer.                        *)
(***************************************************************************)
EXTENDS Integers, FiniteSets

CONSTANTS
  Rulesets,    \* what the template may render to
  MaxChanges,  \* bound: AtomicChange objects created
  MaxFaults,   \* bound: nft commands that report an error
  MaxCrashes,  \* bound: restarts of the web process
  Overlap      \* may Apply be called while a watchdog is outstanding?

ASSUME FirewallAssumption ==
  /\ MaxChanges \in Nat
  /\ MaxFaults \in Nat
  /\ MaxCrashes \in Nat
  /\ Overlap \in BOOLEAN

Changes == 1 .. MaxChanges

VARIABLES
  kernel,    \* rulesets loaded in the kernel since the last flush
  cfg,       \* the ruleset the current configuration renders to
  change,    \* s.change: the change waiting for confirmation, or 0
  born,      \* number of AtomicChange objects created so far
  snapshot,  \* ac.snapshot of each change; {} is the empty string
  wd,        \* the watchdog timer and callback of each change
  op,        \* what the holder of s.mu is doing
  lease,     \* the lease callback: "idle", or "confirm" once its Apply returned
  late,      \* commands the agent still runs after the client gave up
  faults, crashes,
  kept       \* history: changes confirmed before their timer fired

vars == <<kernel, cfg, change, born, snapshot, wd, op, lease, late, faults,
          crashes, kept>>

Callers == {"operator", "lease"}
Idle == [step |-> "idle", by |-> "operator", ac |-> 0, file |-> {}]

\* "flush" and "load" are the two commands of ac.Rollback, run under ac.mu.
WdStates == {"none", "armed", "fired", "flush", "load", "stopped", "done", "gone"}
OpSteps == {"idle", "apply", "confirm", "rollback", "flush", "load"}

Commands == [flush : BOOLEAN, rules : SUBSET Rulesets]

TypeOK ==
  /\ kernel \in SUBSET Rulesets
  /\ cfg \in Rulesets
  /\ change \in 0 .. MaxChanges
  /\ born \in 0 .. MaxChanges
  /\ snapshot \in [Changes -> SUBSET Rulesets]
  /\ wd \in [Changes -> WdStates]
  /\ op \in [step : OpSteps, by : Callers, ac : 0 .. MaxChanges,
             file : SUBSET Rulesets]
  /\ lease \in {"idle", "confirm"}
  /\ late \in SUBSET (Nat \X Commands)
  /\ faults \in 0 .. MaxFaults
  /\ crashes \in 0 .. MaxCrashes
  /\ kept \in SUBSET Changes

Init ==
  /\ kernel \in {{}} \cup {{r} : r \in Rulesets}
  /\ cfg \in Rulesets
  /\ change = 0
  /\ born = 0
  /\ snapshot = [c \in Changes |-> {}]
  /\ wd = [c \in Changes |-> "none"]
  /\ op = Idle
  /\ lease = "idle"
  /\ late = {}
  /\ faults = 0
  /\ crashes = 0
  /\ kept = {}

-----------------------------------------------------------------------------
(* Commands sent to the agent.                                              *)

FlushCmd == [flush |-> TRUE, rules |-> {}]
FileCmd(rules) == [flush |-> TRUE, rules |-> rules]
SnapshotCmd(rules) == [flush |-> FALSE, rules |-> rules]

Effect(cmd) == (IF cmd.flush THEN {} ELSE kernel) \cup cmd.rules

RunOk(cmd) == kernel' = Effect(cmd) /\ UNCHANGED <<late, faults>>

\* The command failed, or the client's 10 s deadline passed while the agent,
\* whose own limit is 30 s, keeps running it.
RunError(cmd) ==
  /\ faults < MaxFaults
  /\ faults' = faults + 1
  /\ kernel' = kernel
  /\ late' \in {late, late \cup {<<faults, cmd>>}}

LateLands ==
  \E l \in late :
    /\ kernel' = Effect(l[2])
    /\ late' = late \ {l}
    /\ UNCHANGED <<cfg, change, born, snapshot, wd, op, lease, faults, crashes, kept>>

-----------------------------------------------------------------------------
(* AtomicChange.                                                            *)

\* Mutant: ac.Rollback returns without unlocking ac.mu.
LockedForever(c) ==
  \/ wd[c] \in {"flush", "load", "done"}
  \/ op.step \in {"flush", "load"} /\ op.ac = c

\* ac.mu of c is held by a rollback that is between its commands.
Locked(c) ==
  \/ wd[c] \in {"flush", "load"}
  \/ op.step \in {"flush", "load"} /\ op.ac = c

\* Mutant: Confirm and Rollback leave the timer running.
StopTimerNot(c) == wd

\* timer.Stop(): prevents a callback that has not started.
StopTimer(c) == [wd EXCEPT ![c] = IF @ = "armed" THEN "stopped" ELSE @]

\* The snapshot of the empty ruleset is the empty string, as is a failed one.
NoSnapshot(c) == snapshot[c] = {}

WatchdogFires(c) ==
  /\ wd[c] = "armed"
  /\ wd' = [wd EXCEPT ![c] = "fired"]
  /\ UNCHANGED <<kernel, cfg, change, born, snapshot, op, lease, late, faults, crashes, kept>>

WatchdogLocks(c) ==
  /\ wd[c] = "fired"
  /\ ~Locked(c)
  /\ wd' = [wd EXCEPT ![c] = IF NoSnapshot(c) THEN "done" ELSE "flush"]
  /\ UNCHANGED <<kernel, cfg, change, born, snapshot, op, lease, late, faults, crashes, kept>>

WatchdogFlushes(c) ==
  /\ wd[c] = "flush"
  /\ \/ RunOk(FlushCmd) /\ wd' = [wd EXCEPT ![c] = "load"]
     \/ RunError(FlushCmd) /\ wd' = [wd EXCEPT ![c] = "done"]
  /\ UNCHANGED <<cfg, change, born, snapshot, op, lease, crashes, kept>>

\* Mutant: the rollback ends after the flush.
WatchdogLoadsNothing(c) ==
  /\ wd[c] = "load"
  /\ wd' = [wd EXCEPT ![c] = "done"]
  /\ UNCHANGED <<kernel, cfg, change, born, snapshot, op, lease, late, faults, crashes, kept>>

WatchdogLoads(c) ==
  /\ wd[c] = "load"
  /\ RunOk(SnapshotCmd(snapshot[c])) \/ RunError(SnapshotCmd(snapshot[c]))
  /\ wd' = [wd EXCEPT ![c] = "done"]
  /\ UNCHANGED <<cfg, change, born, snapshot, op, lease, crashes, kept>>

-----------------------------------------------------------------------------
(* FirewallService.  op.step # "idle" means s.mu is held.                    *)

Outstanding(c) == wd[c] \in {"armed", "fired", "flush", "load"}

\* renderToFile: what the template makes of the configuration.
Rendered == {cfg}

\* Mutant: the snapshot is the new file, not the rules in force.
ApplyBeginsSnapshotsFile(by) ==
  /\ op.step = "idle"
  /\ by = "lease" => lease = "idle"
  /\ born < MaxChanges
  /\ Overlap \/ \A c \in Changes : ~Outstanding(c)
  /\ born' = born + 1
  /\ snapshot' = [snapshot EXCEPT ![born + 1] = {cfg}]
  /\ op' = [step |-> "apply", by |-> by, ac |-> born + 1, file |-> Rendered]
  /\ UNCHANGED <<kernel, cfg, change, wd, lease, late, faults, crashes, kept>>

\* Apply takes s.mu, renders the configuration and takes the snapshot.
ApplyBegins(by) ==
  /\ op.step = "idle"
  /\ by = "lease" => lease = "idle"
  /\ born < MaxChanges
  /\ Overlap \/ \A c \in Changes : ~Outstanding(c)
  /\ born' = born + 1
  /\ \/ /\ snapshot' = [snapshot EXCEPT ![born + 1] = kernel]
        /\ UNCHANGED faults
     \/ /\ faults < MaxFaults
        /\ faults' = faults + 1
        /\ UNCHANGED snapshot
  /\ op' = [step |-> "apply", by |-> by, ac |-> born + 1, file |-> Rendered]
  /\ UNCHANGED <<kernel, cfg, change, wd, lease, late, crashes, kept>>

\* Mutant: a change that is still pending is not replaced by the new one.
ApplyLoadsKeepsPending ==
  /\ op.step = "apply"
  /\ RunOk(FileCmd(op.file))
  /\ change' = IF change = 0 THEN op.ac ELSE change
  /\ wd' = [wd EXCEPT ![op.ac] = "armed"]
  /\ lease' = IF op.by = "lease" THEN "confirm" ELSE lease
  /\ op' = Idle
  /\ UNCHANGED <<cfg, born, snapshot, crashes, kept>>

\* Validate and load the file; on success record the change, start its
\* watchdog and release s.mu.  The lease callback goes on to Confirm only if
\* Apply returned nil.
ApplyLoads ==
  /\ op.step = "apply"
  /\ \/ /\ RunOk(FileCmd(op.file))
        /\ change' = op.ac
        /\ wd' = [wd EXCEPT ![op.ac] = "armed"]
        /\ lease' = IF op.by = "lease" THEN "confirm" ELSE lease
     \/ RunError(FileCmd(op.file)) /\ UNCHANGED <<change, wd, lease>>
  /\ op' = Idle
  /\ UNCHANGED <<cfg, born, snapshot, crashes, kept>>

ConfirmBegins(by) ==
  /\ op.step = "idle"
  /\ change # 0
  /\ by = "lease" => lease = "confirm"
  /\ op' = [Idle EXCEPT !.step = "confirm", !.by = by, !.ac = change]
  /\ UNCHANGED <<kernel, cfg, change, born, snapshot, wd, lease, late, faults, crashes, kept>>

\* Mutant: Confirm stops the watchdog but does not reset s.change.
ConfirmEndsNoReset ==
  /\ op.step = "confirm"
  /\ ~Locked(op.ac)
  /\ wd' = StopTimer(op.ac)
  /\ lease' = IF op.by = "lease" THEN "idle" ELSE lease
  /\ op' = Idle
  /\ UNCHANGED <<kernel, cfg, change, born, snapshot, late, faults, crashes, kept>>

ConfirmEnds ==
  /\ op.step = "confirm"
  /\ ~Locked(op.ac)
  /\ wd' = StopTimer(op.ac)
  /\ kept' = IF wd[op.ac] = "armed" THEN kept \cup {op.ac} ELSE kept
  /\ change' = 0
  /\ lease' = IF op.by = "lease" THEN "idle" ELSE lease
  /\ op' = Idle
  /\ UNCHANGED <<kernel, cfg, born, snapshot, late, faults, crashes>>

\* The lease callback's Confirm when another call already cleared s.change.
LeaseConfirmsNothing ==
  /\ op.step = "idle"
  /\ change = 0
  /\ lease = "confirm"
  /\ lease' = "idle"
  /\ UNCHANGED <<kernel, cfg, change, born, snapshot, wd, op, late, faults, crashes, kept>>

RollbackBegins ==
  /\ op.step = "idle"
  /\ change # 0
  /\ op' = [Idle EXCEPT !.step = "rollback", !.ac = change]
  /\ UNCHANGED <<kernel, cfg, change, born, snapshot, wd, lease, late, faults, crashes, kept>>

RollbackLocks ==
  /\ op.step = "rollback"
  /\ ~Locked(op.ac)
  /\ wd' = StopTimer(op.ac)
  /\ IF NoSnapshot(op.ac)
       THEN op' = Idle /\ change' = 0
       ELSE op' = [op EXCEPT !.step = "flush"] /\ UNCHANGED change
  /\ UNCHANGED <<kernel, cfg, born, snapshot, lease, late, faults, crashes, kept>>

RollbackFlushes ==
  /\ op.step = "flush"
  /\ \/ RunOk(FlushCmd) /\ op' = [op EXCEPT !.step = "load"] /\ UNCHANGED change
     \/ RunError(FlushCmd) /\ op' = Idle /\ change' = 0
  /\ UNCHANGED <<cfg, born, snapshot, wd, lease, crashes, kept>>

RollbackLoads ==
  /\ op.step = "load"
  /\ \/ RunOk(SnapshotCmd(snapshot[op.ac]))
     \/ RunError(SnapshotCmd(snapshot[op.ac]))
  /\ op' = Idle
  /\ change' = 0
  /\ UNCHANGED <<cfg, born, snapshot, wd, lease, crashes, kept>>

\* Add, Remove or Toggle of an entry, persisted: the next Apply renders cfg'.
EditConfig ==
  /\ \E r \in Rulesets \ {cfg} : cfg' = r
  /\ UNCHANGED <<kernel, change, born, snapshot, wd, op, lease, late, faults, crashes, kept>>

\* The web process restarts: the service state and the timers are in memory,
\* the kernel and the agent are not affected.
Restart ==
  /\ crashes < MaxCrashes
  /\ crashes' = crashes + 1
  /\ change' = 0
  /\ wd' = [c \in Changes |-> IF wd[c] = "none" THEN "none" ELSE "gone"]
  /\ op' = Idle
  /\ lease' = "idle"
  /\ UNCHANGED <<kernel, cfg, born, snapshot, late, faults, kept>>

-----------------------------------------------------------------------------
Watchdog(c) ==
  \/ WatchdogFires(c)
  \/ WatchdogLocks(c)
  \/ WatchdogFlushes(c)
  \/ WatchdogLoads(c)

\* The steps of a call that already holds s.mu.
Progress ==
  \/ ApplyLoads
  \/ ConfirmEnds
  \/ RollbackLocks
  \/ RollbackFlushes
  \/ RollbackLoads

LeaseConfirms == ConfirmBegins("lease") \/ LeaseConfirmsNothing

Next ==
  \/ \E by \in Callers : ApplyBegins(by)
  \/ ConfirmBegins("operator")
  \/ LeaseConfirms
  \/ RollbackBegins
  \/ Progress
  \/ \E c \in Changes : Watchdog(c)
  \/ LateLands
  \/ EditConfig
  \/ Restart

Spec == Init /\ [][Next]_vars

\* Goroutines that can run do run, timers expire, and a lock that keeps
\* becoming free is eventually granted (Go mutexes are starvation free).
Fairness ==
  /\ \A c \in Changes : WF_vars(Watchdog(c))
  /\ WF_vars(Progress)
  /\ SF_vars(LeaseConfirms)

FairSpec == Spec /\ Fairness
-----------------------------------------------------------------------------
(* Properties.                                                              *)

\* While s.change is set, the watchdog of that change is still armed, is
\* rolling back or has rolled back: only Confirm and Rollback stop it, and both
\* clear s.change before they release s.mu (AtomicChange.Confirm and Rollback).
PendingGuarded ==
  /\ change # 0
  /\ ~(op.step \in {"flush", "load"} /\ op.ac = change)
  => wd[change] \in {"armed", "fired", "flush", "load", "done"}

\* s.change is the newest change that reached the kernel: no later change has a
\* watchdog, so Confirm and Rollback never act on rules that were replaced.
PendingIsNewest ==
  change # 0 => \A c \in Changes : c > change => wd[c] = "none"

\* A call that took s.mu releases it, although Confirm and Rollback wait under
\* it for ac.mu, which a watchdog rollback holds while it runs two commands;
\* and the lease callback's Confirm returns.
CallsReturn ==
  /\ op.step # "idle" ~> op.step = "idle"
  /\ lease = "confirm" ~> lease = "idle"

\* "New rules applied. Will be reverted in 30 seconds if not confirmed.": when no
\* command fails, an armed watchdog is stopped (by Confirm or by the operator's
\* Rollback), dies with the process, or loads its snapshot again.
RevertsUnlessConfirmed ==
  \A c \in Changes :
    wd[c] = "armed" ~>
      wd[c] \in {"stopped", "gone"} \/ snapshot[c] \subseteq kernel \/ faults > 0

\* A change confirmed in time is not undone: no watchdog of it or of an older
\* change rolls the rules back.
ConfirmedStays ==
  \A c \in kept : \A d \in 1 .. c : wd[d] \notin {"flush", "load"}

\* The last change that was loaded into the kernel (one at a time, no faults).
LastTried == IF op.step = "apply" THEN born - 1 ELSE born

\* The rules the last change would go back to, and how far its trial has come.
TrialPrev == IF LastTried = 0 THEN {} ELSE snapshot[LastTried]
TrialPhase ==
  IF (\E c \in Changes : wd[c] \in {"fired", "flush", "load"}) \/ op.step \in {"flush", "load"}
    THEN "expired"
    ELSE IF \E c \in Changes : wd[c] = "armed" THEN "trial" ELSE "settled"

\* One change at a time: the service implements the promise of GuardedChange.
Promise == INSTANCE GuardedChange WITH
  live <- kernel, prev <- TrialPrev, phase <- TrialPhase
Implements == Promise!Spec
=============================================================================
