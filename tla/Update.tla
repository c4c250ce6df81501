------------------------------- MODULE Update -------------------------------
(***************************************************************************)
(* The over-the-air update service (internal/services/update.go): the       *)
(* installed binary and its .bak copy, the state file that survives a       *)
(* restart, the in-memory pending update and its 60 s watchdog goroutines,  *)
(* and the download that an update begins with.                             *)
(*                                                                          *)
(* A version is a number; Tag gives its release tag, which CompareSemver    *)
(* orders.  `cp -f` onto a file is two steps, with the destination torn in  *)
(* between.                                                                 *)
(***************************************************************************)
EXTENDS Integers, Sequences

CONSTANTS
  MaxVersion,   \* bound: releases 1 .. MaxVersion, 1 is installed first
  Tag,          \* per release, the numbers of its tag, a pre-release suffix dropped
  MaxFaults,    \* bound: commands and file operations that fail
  MaxCrashes,   \* bound: restarts and power losses
  Envs          \* the surroundings a behaviour may have

ASSUME UpdateAssumption ==
  /\ MaxVersion \in Nat \ {0}
  /\ MaxFaults \in Nat
  /\ MaxCrashes \in Nat
  /\ Envs \subseteq {"calm", "faulty", "power", "hasty", "broken", "damaged"}
  /\ Tag \in [1 .. MaxVersion -> Seq(Nat)]

Versions == 1 .. MaxVersion
Torn == 0
None == -1
Watchdogs == 1 .. MaxFaults + 2

VARIABLES
  env,      \* what this behaviour is exposed to, see below
  bin,      \* /usr/local/bin/lankeeper: a version or Torn
  bak,      \* the .bak copy: a version, Torn or None
  file,     \* the pending version in update-state.json, or None
  up,       \* is the web process running?
  running,  \* s.currentVersion of the process
  pend,     \* s.pendingVersion, or None
  wds,      \* the watchdog goroutines of this process
  cancel,   \* the goroutine s.watchdogCancel stops, or 0
  op,       \* the call that holds s.mu: its next step, the version it installs, whether
            \* the release has checksums, and what the downloaded file holds
  faults, crashes,
  good,     \* history: the last version that was confirmed
  kept      \* history: the version confirmed by the last call, or None

vars == <<env, bin, bak, file, up, running, pend, wds, cancel, op, faults, crashes, good, kept>>
disk == <<bin, bak, file>>
memory == <<up, running, pend, wds, cancel>>
history == <<good, kept>>

Idle == [step |-> "idle", ver |-> None, sums |-> FALSE, new |-> None]
Steps == {"idle", "download", "verify", "extract", "backup", "backing", "install", "installing", "check", "save",
          "undo", "undoing", "restart", "restore", "restoring", "clear", "rm", "forget"}
Ops == [step : Steps, ver : Versions \cup {None}, sums : BOOLEAN, new : Versions \cup {Torn, None}]
WdStates == {"none", "waiting", "expired", "cancelled", "done"}

\* calm: restarts between calls, nothing else.  faulty: commands may fail.
\* power: the power may also fail in the middle of a call.  broken: `version` of
\* the newest release works, but its server does not start.  damaged: a download
\* may hold garbage, or another release.  hasty: the operator
\* is not disciplined.  A disciplined operator starts an update when none is
\* pending, and confirms or rolls back when one is, but does not confirm after a
\* rollback that failed.
Disciplined == env # "hasty"
Broken == IF env = "broken" THEN {MaxVersion} ELSE {}

TypeOK ==
  /\ env \in Envs
  /\ bin \in Versions \cup {Torn}
  /\ bak \in Versions \cup {Torn, None}
  /\ file \in Versions \cup {None}
  /\ up \in BOOLEAN
  /\ running \in Versions
  /\ pend \in Versions \cup {None}
  /\ wds \in [Watchdogs -> WdStates]
  /\ cancel \in Watchdogs \cup {0}
  /\ op \in Ops
  /\ faults \in 0 .. MaxFaults
  /\ crashes \in 0 .. MaxCrashes
  /\ good \in Versions
  /\ kept \in Versions \cup {None}

Init ==
  /\ env \in Envs
  /\ bin = 1
  /\ bak = None
  /\ file = None
  /\ up = TRUE
  /\ running = 1
  /\ pend = None
  /\ wds = [w \in Watchdogs |-> "none"]
  /\ cancel = 0
  /\ op = Idle
  /\ faults = 0
  /\ crashes = 0
  /\ good = 1
  /\ kept = None

-----------------------------------------------------------------------------
Goto(step) == op' = [op EXCEPT !.step = step]

Ok == UNCHANGED <<env, faults, crashes>>

Fault ==
  /\ env = "faulty" /\ faults < MaxFaults
  /\ faults' = faults + 1
  /\ UNCHANGED <<env, crashes>>

CancelWatchdog ==
  IF cancel # 0 /\ wds[cancel] = "waiting" THEN [wds EXCEPT ![cancel] = "cancelled"] ELSE wds

\* go s.watchdog(...): a new goroutine; the previous cancel function, if any, is
\* overwritten without being called.
Fresh(ws) == CHOOSE w \in Watchdogs : ws[w] = "none" /\ \A v \in 1 .. w - 1 : ws[v] # "none"

StartWatchdog(ws) ==
  /\ wds' = [ws EXCEPT ![Fresh(ws)] = "waiting"]
  /\ cancel' = Fresh(ws)

-----------------------------------------------------------------------------
(* ApplyUpdate.                                                              *)

parseSemver(v) == [i \in 1 .. 3 |-> IF i <= Len(Tag[v]) THEN Tag[v][i] ELSE 0]

\* The first of the three numbers that differ decides.
CompareSemver(v, w) ==
  LET a == parseSemver(v)
      b == parseSemver(w)
      at == {i \in 1 .. 3 : a[i] # b[i] /\ \A j \in 1 .. i - 1 : a[j] = b[j]}
  IN  IF at = {} THEN 0 ELSE IF \E i \in at : a[i] > b[i] THEN 1 ELSE -1

\* Is the latest release, v, offered to the running version?
CheckForUpdate(v) == CompareSemver(v, running) > 0

\* HandleApplyUpdate looks the latest release up, and ApplyUpdate takes s.mu; it may
\* or may not come with checksums.  Go's mutex hands itself to a goroutine that
\* waited for the whole previous call, so a watchdog that ConfirmUpdate kept
\* waiting has run before the next release is looked up.
ApplyBegins ==
  /\ up
  /\ op = Idle
  /\ Disciplined => pend = None /\ \A w \in Watchdogs : wds[w] # "expired"
  /\ \E v \in Versions, sums \in BOOLEAN :
       CheckForUpdate(v) /\ op' = [step |-> "download", ver |-> v, sums |-> sums, new |-> None]
  /\ kept' = None
  /\ UNCHANGED <<env, disk, memory, faults, crashes, good>>

\* The files in /tmp are the call's own: removed when it returns, truncated when
\* they are created again.
downloadFile ==
  /\ op.step = "download"
  /\ \/ /\ \E content \in {op.ver} \cup (IF env = "damaged" THEN Versions \cup {Torn} ELSE {}) :
             op' = [op EXCEPT !.step = "verify", !.new = content]
        /\ Ok
     \/ op' = Idle /\ Fault
  /\ UNCHANGED <<disk, memory, history>>

\* A release without a checksum file is taken as it is.
verifyChecksum ==
  /\ op.step = "verify"
  /\ \/ (op.sums => op.new = op.ver) /\ Goto("extract") /\ Ok
     \/ op.sums /\ op.new # op.ver /\ op' = Idle /\ Ok
     \/ op.sums /\ op' = Idle /\ Fault
  /\ UNCHANGED <<disk, memory, history>>

\* Garbage may or may not contain a member named lankeeper.
extractBinary ==
  /\ op.step = "extract"
  /\ \/ Goto("backup") /\ Ok
     \/ op.new = Torn /\ op' = Idle /\ Ok
     \/ op' = Idle /\ Fault
  /\ UNCHANGED <<disk, memory, history>>

\* Mutant: a failed backup does not stop the update.
BackupStartsIgnoresError ==
  /\ op.step = "backup"
  /\ \/ bak' = Torn /\ Goto("backing") /\ Ok
     \/ UNCHANGED bak /\ Goto("install") /\ Fault
  /\ UNCHANGED <<bin, file, memory, history>>

BackupStarts ==
  /\ op.step = "backup"
  /\ \/ bak' = Torn /\ Goto("backing") /\ Ok
     \/ UNCHANGED bak /\ op' = Idle /\ Fault
  /\ UNCHANGED <<bin, file, memory, history>>

BackupEnds ==
  /\ op.step = "backing"
  /\ \/ bak' = bin /\ Goto("install") /\ Ok
     \/ UNCHANGED bak /\ op' = Idle /\ Fault
  /\ UNCHANGED <<bin, file, memory, history>>

InstallStarts ==
  /\ op.step = "install"
  /\ \/ bin' = Torn /\ Goto("installing") /\ Ok
     \/ UNCHANGED bin /\ Goto("undo") /\ Fault
  /\ UNCHANGED <<bak, file, memory, history>>

InstallEnds ==
  /\ op.step = "installing"
  /\ \/ bin' = op.new /\ Goto("check") /\ Ok
     \/ UNCHANGED bin /\ Goto("undo") /\ Fault
  /\ UNCHANGED <<bak, file, memory, history>>

\* What `lankeeper version` prints; garbage does not run.
runBinaryVersion == bin

\* Mutant: the installed binary only has to run.
CheckRuns ==
  /\ op.step = "check"
  /\ \/ runBinaryVersion # Torn /\ Goto("save") /\ Ok
     \/ runBinaryVersion = Torn /\ Goto("undo") /\ Ok
     \/ Goto("undo") /\ Fault
  /\ UNCHANGED <<disk, memory, history>>

\* chmod +x, and what the installed binary says of itself must contain the tag of the
\* release; the tags are taken to be such that none occurs within another.
Check ==
  /\ op.step = "check"
  /\ \/ runBinaryVersion = op.ver /\ Goto("save") /\ Ok
     \/ runBinaryVersion # op.ver /\ Goto("undo") /\ Ok
     \/ Goto("undo") /\ Fault
  /\ UNCHANGED <<disk, memory, history>>

\* Write the state file, record the pending update, start the watchdog.
Save ==
  /\ op.step = "save"
  /\ \/ /\ file' = op.ver
        /\ pend' = op.ver
        /\ StartWatchdog(wds)
        /\ Goto("restart")
        /\ Ok
     \/ Goto("undo") /\ Fault /\ UNCHANGED <<file, pend, wds, cancel>>
  /\ UNCHANGED <<bin, bak, up, running, history>>

\* The best-effort copy back after a failed step.
UndoStarts ==
  /\ op.step = "undo"
  /\ \/ bin' = Torn /\ Goto("undoing") /\ Ok
     \/ UNCHANGED bin /\ op' = Idle /\ Fault
  /\ UNCHANGED <<bak, file, memory, history>>

UndoEnds ==
  /\ op.step = "undoing"
  /\ \/ bin' = bak /\ Ok
     \/ UNCHANGED bin /\ Fault
  /\ op' = Idle
  /\ UNCHANGED <<bak, file, memory, history>>

\* The process is gone: its memory and its goroutines with it.
Stop ==
  /\ up' = FALSE
  /\ pend' = None
  /\ wds' = [w \in Watchdogs |-> "none"]
  /\ cancel' = 0
  /\ op' = Idle

\* systemctl restart lankeeper.target; a failure is only logged.
RestartTarget ==
  /\ op.step = "restart"
  /\ \/ Stop /\ Ok
     \/ op' = Idle /\ Fault /\ UNCHANGED <<up, pend, wds, cancel>>
  /\ UNCHANGED <<disk, running, history>>

-----------------------------------------------------------------------------
(* ConfirmUpdate.                                                            *)

ConfirmBegins ==
  /\ up
  /\ op = Idle
  /\ Disciplined => pend # None /\ bin # Torn
  /\ wds' = CancelWatchdog
  /\ cancel' = 0
  /\ Goto(IF pend # None THEN "rm" ELSE "forget")
  /\ UNCHANGED <<env, disk, up, running, pend, faults, crashes, history>>

\* Mutant: ConfirmUpdate leaves the .bak file in place.
RemoveBackupNot ==
  /\ op.step = "rm"
  /\ Goto("forget")
  /\ UNCHANGED <<env, disk, memory, faults, crashes, history>>

RemoveBackup ==
  /\ op.step = "rm"
  /\ (bak' = None /\ Ok) \/ (UNCHANGED bak /\ Fault)
  /\ Goto("forget")
  /\ UNCHANGED <<bin, file, memory, history>>

ConfirmEnds ==
  /\ op.step = "forget"
  /\ (file' = None /\ Ok) \/ (UNCHANGED file /\ Fault)
  /\ good' = IF pend # None /\ bin # Torn THEN bin ELSE good
  /\ kept' = IF pend # None /\ bin # Torn THEN bin ELSE kept
  /\ pend' = None
  /\ op' = Idle
  /\ UNCHANGED <<bin, bak, up, running, wds, cancel>>

-----------------------------------------------------------------------------
(* Rollback, by the operator or by an expired watchdog.                      *)

RollbackBegins(ws) ==
  /\ up
  /\ op = Idle
  /\ wds' = ws
  /\ cancel' = 0
  /\ op' = IF bak = None THEN Idle ELSE [Idle EXCEPT !.step = "restore"]
  /\ UNCHANGED <<env, disk, up, running, pend, faults, crashes, good>>

OperatorRollback ==
  /\ Disciplined => pend # None
  /\ RollbackBegins(CancelWatchdog)
  /\ kept' = None

WatchdogExpires(w) ==
  /\ wds[w] = "waiting"
  /\ wds' = [wds EXCEPT ![w] = "expired"]
  /\ UNCHANGED <<env, disk, up, running, pend, cancel, op, faults, crashes, history>>

WatchdogRollback(w) ==
  /\ wds[w] = "expired"
  /\ RollbackBegins([CancelWatchdog EXCEPT ![w] = "done"])
  /\ UNCHANGED kept

\* Mutant: Rollback clears the pending update without copying the binary back.
RestoreStartsNot ==
  /\ op.step = "restore"
  /\ Goto("clear")
  /\ UNCHANGED <<env, disk, memory, faults, crashes, history>>

RestoreStarts ==
  /\ op.step = "restore"
  /\ \/ bin' = Torn /\ Goto("restoring") /\ Ok
     \/ UNCHANGED bin /\ op' = Idle /\ Fault
  /\ UNCHANGED <<bak, file, memory, history>>

RestoreEnds ==
  /\ op.step = "restoring"
  /\ \/ bin' = bak /\ Goto("clear") /\ Ok
     \/ UNCHANGED bin /\ op' = Idle /\ Fault
  /\ UNCHANGED <<bak, file, memory, history>>

ClearState ==
  /\ op.step = "clear"
  /\ (file' = None /\ Ok) \/ (UNCHANGED file /\ Fault)
  /\ pend' = None
  /\ Goto("restart")
  /\ UNCHANGED <<bin, bak, up, running, wds, cancel, history>>

-----------------------------------------------------------------------------
Crash ==
  /\ up
  /\ crashes < MaxCrashes
  /\ env = "power" \/ op = Idle
  /\ crashes' = crashes + 1
  /\ Stop
  /\ UNCHANGED <<env, disk, running, faults, history>>

\* systemd starts whatever is installed; NewUpdateService reads the state file
\* and re-arms the watchdog with what is left of the 60 s.
Boot ==
  /\ ~up
  /\ bin \in Versions \ Broken
  /\ up' = TRUE
  /\ running' = bin
  /\ pend' = file
  /\ IF file # None THEN StartWatchdog(wds) ELSE UNCHANGED <<wds, cancel>>
  /\ UNCHANGED <<env, disk, op, faults, crashes, history>>

-----------------------------------------------------------------------------
Progress ==
  \/ downloadFile \/ verifyChecksum \/ extractBinary
  \/ BackupStarts \/ BackupEnds \/ InstallStarts \/ InstallEnds \/ Check \/ Save
  \/ UndoStarts \/ UndoEnds
  \/ RemoveBackup \/ ConfirmEnds
  \/ RestoreStarts \/ RestoreEnds \/ ClearState
  \/ RestartTarget

Watchdog(w) == WatchdogExpires(w) \/ WatchdogRollback(w)

Next ==
  \/ ApplyBegins
  \/ ConfirmBegins
  \/ OperatorRollback
  \/ Progress
  \/ \E w \in Watchdogs : Watchdog(w)
  \/ Crash
  \/ Boot

Spec == Init /\ [][Next]_vars

\* A started call runs on, timers expire, systemd restarts the service
\* (Restart=always), and s.mu is granted to a goroutine that keeps asking.
Fairness ==
  /\ WF_vars(Progress)
  /\ \A w \in Watchdogs : SF_vars(Watchdog(w))
  /\ WF_vars(Boot)

FairSpec == Spec /\ Fairness

-----------------------------------------------------------------------------
(* Properties.                                                               *)

\* While the process runs a version nobody confirmed, a watchdog goroutine is
\* waiting to roll it back.
RollbackArmed ==
  up /\ op = Idle /\ bin # good => \E w \in Watchdogs : wds[w] \in {"waiting", "expired"}

\* Whatever the download held, and whether or not the release had checksums, what
\* is installed once the call is over is the last confirmed version, or the release
\* that waits for confirmation with the last confirmed one in the .bak file: a
\* binary that is not what it should be is put back, and what Rollback copies back
\* is what ran before the update.
OnlyReleasesInstalled ==
  env \in {"calm", "broken", "damaged"} /\ op = Idle =>
    /\ up => bin \in {good, pend}
    /\ bin # good => bak = good

\* A version that ConfirmUpdate accepted stays installed until the next update or
\* an explicit rollback, also when the watchdog had already expired and was
\* waiting for s.mu while ConfirmUpdate ran, and when the power fails.
ConfirmedStays == env \in {"calm", "broken", "damaged", "power"} /\ kept # None => bin = kept

\* Every unconfirmed version that starts is confirmed, or replaced by the last
\* confirmed one.
UnconfirmedReverts == env = "calm" /\ bin # good ~> bin = good

\* A torn binary can be repaired by hand: the .bak file is then complete ("the
\* operator has the .bak file to recover by hand"), after one failed command or
\* a power loss between any two steps.
RecoverableByHand == Disciplined /\ bin = Torn => bak \in Versions
=============================================================================
