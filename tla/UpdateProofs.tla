---------------------------- MODULE UpdateProofs ----------------------------
(***************************************************************************)
(* Proofs about Update, for any number of releases, failed commands and     *)
(* restarts.                                                                *)
(*                                                                          *)
(* None of the properties is inductive: they speak of the binary, and what  *)
(* happens to the binary next depends on the call that holds s.mu, on the   *)
(* .bak file, on the state file and on the watchdogs.  The invariants below *)
(* say what each step of a call may rely on.                                *)
(***************************************************************************)
EXTENDS Update, TLAPS

-----------------------------------------------------------------------------
(* The steps of the calls, grouped by what holds in them.                    *)

\* ApplyUpdate has not completed its backup.
Fetching == {"download", "verify", "extract", "backup", "backing"}

\* ApplyUpdate has the backup that its undo copies back.
Installing == {"install", "installing", "check", "save", "undo", "undoing"}

\* Rollback is about to copy, or copies, the .bak file.
Restoring == {"restore", "restoring"}

Quiet == \A w \in Watchdogs : wds[w] \notin {"waiting", "expired"}

-----------------------------------------------------------------------------
(* The inductive invariant.                                                  *)

\* What a step finds in op, and what a stopped process leaves.
OpInv ==
  /\ op.step = "idle" => op = Idle
  /\ op.step \in Fetching \cup Installing => op.ver \in Versions
  /\ op.step \in (Fetching \ {"download"}) \cup Installing => op.new \in Versions \cup {Torn}
  /\ op.step \in Installing \cup Restoring => bak # None
  /\ ~up => op = Idle /\ pend = None /\ wds = [w \in Watchdogs |-> "none"]
  /\ env # "faulty" => faults = 0

\* The goroutines of a process are numbered as they start: one when the process starts,
\* one per update, and only a restart that failed lets the process see another update.
SlotInv ==
  \E k \in Nat :
    /\ \A w \in Watchdogs : wds[w] # "none" <=> w <= k
    /\ k <= faults + 2
    /\ op.step # "restart" => k <= faults + 1

\* A goroutine that waits is the one s.watchdogCancel stops, and an update is pending;
\* ApplyUpdate runs with no live goroutine, ConfirmUpdate and Rollback with none that waits.
ArmInv ==
  Disciplined =>
    /\ \A w \in Watchdogs : wds[w] = "waiting" => w = cancel /\ pend # None
    /\ op.step \in Fetching \cup Installing => pend = None /\ Quiet
    /\ op.step \in Restoring \cup {"clear", "rm", "forget"} => \A w \in Watchdogs : wds[w] # "waiting"

\* With at most one failed command: which of the two files is complete at which step.
FilesInv ==
  Disciplined /\ faults <= 1 =>
    /\ bin = Torn => bak \in Versions
    /\ op.step \in Fetching \cup {"save", "clear", "restart", "rm", "forget"} => bin # Torn
    /\ op.step \in Installing \cup Restoring => bak # Torn
    /\ op = Idle /\ up /\ bin = Torn => pend # None
    /\ bak = Torn => pend = None /\ Quiet /\ (file = None \/ op.step = "backing")
    /\ env = "faulty" /\ op.step \in {"undo", "undoing"} => faults = 1
    /\ env # "damaged" /\ op.step \in {"verify", "extract", "backup", "backing", "install", "installing", "check"}
         => op.new = op.ver
    /\ op.step = "check" => bin = op.new
    /\ op.step = "save" => bin = op.ver

\* While no command has failed, memory and state file agree, and the .bak file is gone
\* when a goroutine outlives the update it watched.
CalmInv ==
  Disciplined /\ faults = 0 =>
    /\ up => file = pend
    /\ op.step \in Restoring => pend # None
    /\ op.step = "forget" => bak = None
    /\ pend = None /\ op = Idle /\ ~Quiet => bak = None

\* Which version is where, when the download is all that can go wrong.
ReleaseInv ==
  env \in {"calm", "broken", "damaged"} =>
    /\ op.step \in {"idle", "restart"} => IF file = None THEN bin = good ELSE bin = file /\ bak = good
    /\ op.step \in Fetching \cup Installing => file = None
    /\ op.step \in Fetching \cup {"install", "clear"} => bin = good
    /\ op.step \in Installing \cup Restoring => bak = good
    /\ op.step \in {"rm", "forget"} => file # None /\ bin = file

\* After a confirmation nothing is left that a rollback could act on.
KeptInv ==
  env \in {"calm", "broken", "damaged", "power"} /\ kept # None =>
    bin = kept /\ bak = None /\ file = None /\ pend = None /\ op = Idle

Inv ==
  /\ TypeOK /\ OpInv /\ SlotInv
  /\ ArmInv /\ FilesInv /\ CalmInv
  /\ ReleaseInv /\ KeptInv

-----------------------------------------------------------------------------
(* What the operators of Update do to op and to the watchdogs.               *)

\* A call that returned leaves no step.
LEMMA IdleFields == Idle \in Ops /\ Idle.step = "idle"
BY DEF Idle, Ops, Steps

\* Rollback starts with the copy.
LEMMA RestoreFields == [Idle EXCEPT !.step = "restore"] \in Ops /\ [Idle EXCEPT !.step = "restore"].step = "restore"
BY Zenon DEF Idle, Ops, Steps

\* A call moves on: only the step changes.
LEMMA GotoFields ==
  ASSUME op \in Ops, NEW s \in Steps, Goto(s)
  PROVE  op' \in Ops /\ op'.step = s /\ op'.ver = op.ver /\ op'.new = op.new
BY DEF Goto, Ops

\* What downloadFile leaves in op: outside a damaged environment, the release asked for.
LEMMA DownloadFields ==
  ASSUME TypeOK, OpInv, downloadFile
  PROVE  /\ \/ /\ op' \in Ops /\ op'.step = "verify" /\ op'.ver = op.ver /\ op'.new \in Versions \cup {Torn}
               /\ env # "damaged" => op'.new = op.ver
               /\ Ok
            \/ op' = Idle /\ Fault
         /\ op.step = "download"
         /\ UNCHANGED <<disk, memory, history>>
<1>1. op \in Ops /\ op.step = "download" /\ op.ver \in Versions
  BY Zenon DEF TypeOK, OpInv, downloadFile, Fetching
<1>2. ASSUME NEW c \in Versions \cup {Torn}, op' = [op EXCEPT !.step = "verify", !.new = c]
      PROVE  op' \in Ops /\ op'.step = "verify" /\ op'.ver = op.ver /\ op'.new = c
  BY Zenon, <1>1, <1>2 DEF Ops, Steps
<1> QED BY Zenon, <1>1, <1>2 DEF downloadFile

\* What ApplyUpdate starts with.
LEMMA ApplyFields ==
  ASSUME NEW v \in Versions, NEW sums \in BOOLEAN, op' = [step |-> "download", ver |-> v, sums |-> sums, new |-> None]
  PROVE  op' \in Ops /\ op'.step = "download" /\ op'.ver = v
BY DEF Ops, Steps

\* s.watchdogCancel() ends the goroutine it belongs to, if that one still waits, and no other.
LEMMA CancelFields ==
  ASSUME TypeOK
  PROVE  /\ CancelWatchdog \in [Watchdogs -> WdStates]
         /\ \A w \in Watchdogs : /\ CancelWatchdog[w] # wds[w] => wds[w] = "waiting" /\ CancelWatchdog[w] = "cancelled"
                                 /\ CancelWatchdog[w] = "waiting" => w # cancel
BY UpdateAssumption DEF TypeOK, CancelWatchdog, WdStates, Watchdogs

\* A new goroutine takes the next number, and s.watchdogCancel is then its cancel function.
LEMMA StartFields ==
  ASSUME TypeOK, SlotInv, op.step # "restart", StartWatchdog(wds)
  PROVE  /\ cancel' \in Watchdogs
         /\ cancel' <= faults + 2
         /\ wds' = [wds EXCEPT ![cancel'] = "waiting"]
         /\ \A w \in Watchdogs : wds[w] # "none" <=> w < cancel'
<1> USE UpdateAssumption DEF Watchdogs, TypeOK
<1>1. PICK k \in Nat : k <= faults + 1 /\ \A w \in Watchdogs : wds[w] # "none" <=> w <= k
  BY Zenon DEF SlotInv
<1>2. k + 1 \in Watchdogs /\ wds[k + 1] = "none" /\ \A v \in 1 .. (k + 1) - 1 : wds[v] # "none"
  BY <1>1
<1>3. Fresh(wds) \in Watchdogs /\ wds[Fresh(wds)] = "none" /\ \A v \in 1 .. Fresh(wds) - 1 : wds[v] # "none"
  BY Zenon, <1>2 DEF Fresh
<1>4. Fresh(wds) = k + 1
  BY <1>1, <1>2, <1>3
<1> QED BY <1>1, <1>3, <1>4 DEF StartWatchdog

-----------------------------------------------------------------------------
(* One lemma per part of the invariant, one case per step of the service.    *)

\* The variables keep their types; there is always a number left for a new goroutine.
LEMMA TypeOKStep ==
  ASSUME TypeOK, OpInv, SlotInv, [Next]_vars
  PROVE  TypeOK'
<1> USE UpdateAssumption, IdleFields
  DEF TypeOK, OpInv, Fetching, Installing, Restoring, Versions, Torn, None, Steps, WdStates
<1>1. CASE ApplyBegins
  BY <1>1, ApplyFields DEF ApplyBegins, disk, memory
<1>2. CASE downloadFile
  <2>0. op.step = "download" /\ UNCHANGED <<disk, memory, history>>
    BY <1>2, DownloadFields
  <2>1. CASE op' = Idle /\ Fault
    BY <2>0, <2>1 DEF disk, memory, history, Fault
  <2>2. CASE op'.step = "verify" /\ Ok
    BY Zenon, <1>2, <2>2, DownloadFields DEF disk, memory, history, Ok
  <2> QED BY <1>2, <2>1, <2>2, DownloadFields
<1>3. CASE verifyChecksum
  BY <1>3, GotoFields DEF verifyChecksum, disk, memory, history, Ok, Fault
<1>4. CASE extractBinary
  BY <1>4, GotoFields DEF extractBinary, disk, memory, history, Ok, Fault
<1>5. CASE BackupStarts
  BY SMTT(30), <1>5, GotoFields DEF BackupStarts, memory, history, Ok, Fault
<1>6. CASE BackupEnds
  BY SMTT(30), <1>6, GotoFields DEF BackupEnds, memory, history, Ok, Fault
<1>7. CASE InstallStarts
  BY SMTT(30), <1>7, GotoFields DEF InstallStarts, memory, history, Ok, Fault
<1>8. CASE InstallEnds
  BY <1>8, GotoFields DEF InstallEnds, memory, history, Ok, Fault
<1>9. CASE Check
  BY <1>9, GotoFields DEF Check, runBinaryVersion, disk, memory, history, Ok, Fault
<1>10. CASE Save
  <2>1. CASE Goto("undo") /\ Fault /\ UNCHANGED <<file, pend, wds, cancel>>
    BY <1>10, <2>1, GotoFields DEF Save, history, Ok, Fault
  <2>2. CASE file' = op.ver /\ pend' = op.ver /\ StartWatchdog(wds) /\ Goto("restart") /\ Ok
    <3>1. op.step = "save" /\ op'.step = "restart" /\ op' \in Ops BY <1>10, <2>2, GotoFields DEF Save
    <3>2. /\ cancel' \in Watchdogs
          /\ wds' = [wds EXCEPT ![cancel'] = "waiting"] BY <2>2, <3>1, StartFields
    <3> QED BY <1>10, <2>2, <3>1, <3>2 DEF Save, history, Ok, Fault
  <2> QED BY <1>10, <2>1, <2>2 DEF Save
<1>11. CASE UndoStarts
  BY <1>11, GotoFields DEF UndoStarts, memory, history, Ok, Fault
<1>12. CASE UndoEnds
  BY <1>12 DEF UndoEnds, memory, history, Ok, Fault
<1>13. CASE RestartTarget
  <2>1. wds' \in [Watchdogs -> WdStates] BY <1>13 DEF RestartTarget, Stop
  <2>2. /\ up' \in BOOLEAN /\ pend' \in Versions \cup {None} /\ op' \in Ops
        /\ cancel' \in Watchdogs \cup {0}
    BY Zenon, <1>13 DEF RestartTarget, Stop
  <2>3. faults' \in 0 .. MaxFaults /\ crashes' \in 0 .. MaxCrashes
    BY <1>13 DEF RestartTarget, Ok, Fault
  <2>4. UNCHANGED <<env, bin, bak, file, running, good, kept>>
    BY <1>13 DEF RestartTarget, disk, history, Ok, Fault
  <2> QED BY <2>1, <2>2, <2>3, <2>4
<1>14. CASE Crash
  <2>1. wds' \in [Watchdogs -> WdStates] BY <1>14 DEF Crash, Stop
  <2>2. /\ up' \in BOOLEAN /\ pend' \in Versions \cup {None} /\ op' \in Ops
        /\ cancel' \in Watchdogs \cup {0}
    BY Zenon, <1>14 DEF Crash, Stop
  <2>3. faults' \in 0 .. MaxFaults /\ crashes' \in 0 .. MaxCrashes
    BY <1>14 DEF Crash
  <2>4. UNCHANGED <<env, bin, bak, file, running, good, kept>>
    BY <1>14 DEF Crash, disk, history
  <2> QED BY <2>1, <2>2, <2>3, <2>4
<1>15. CASE ConfirmBegins
  BY <1>15, GotoFields, CancelFields DEF ConfirmBegins, disk, history
<1>16. CASE RemoveBackup
  BY <1>16, GotoFields DEF RemoveBackup, memory, history, Ok, Fault
<1>17. CASE ConfirmEnds
  BY <1>17 DEF ConfirmEnds, Ok, Fault
<1>18. CASE OperatorRollback
  BY <1>18, RestoreFields, CancelFields
  DEF OperatorRollback, RollbackBegins, disk, memory, history, Ok, Fault
<1>19. CASE RestoreStarts
  BY <1>19, GotoFields DEF RestoreStarts, memory, history, Ok, Fault
<1>20. CASE RestoreEnds
  BY <1>20, GotoFields DEF RestoreEnds, memory, history, Ok, Fault
<1>21. CASE ClearState
  BY <1>21, GotoFields DEF ClearState, history, Ok, Fault
<1>22. CASE Boot
  BY <1>22, StartFields DEF Boot, disk, history
<1>23. CASE \E w \in Watchdogs : WatchdogExpires(w)
  BY <1>23 DEF WatchdogExpires, disk, history
<1>24. CASE \E w \in Watchdogs : WatchdogRollback(w)
  BY <1>24, RestoreFields, CancelFields
  DEF WatchdogRollback, RollbackBegins, disk, memory, history, Ok, Fault
<1>25. CASE UNCHANGED vars
  BY <1>25 DEF vars
<1> QED BY Zenon, <1>1, <1>2, <1>3, <1>4, <1>5, <1>6, <1>7, <1>8, <1>9, <1>10, <1>11, <1>12, <1>13, <1>14, <1>15, <1>16, <1>17, <1>18, <1>19, <1>20, <1>21, <1>22, <1>23, <1>24, <1>25
DEF Next, Progress, Watchdog

\* Every step of a call finds what the step before it left in op.
LEMMA OpInvStep ==
  ASSUME TypeOK, OpInv, [Next]_vars
  PROVE  OpInv'
<1> USE UpdateAssumption, IdleFields
  DEF TypeOK, OpInv, Fetching, Installing, Restoring, Versions, Torn, None, Steps
<1>1. CASE ApplyBegins
  BY <1>1, ApplyFields DEF ApplyBegins, disk, memory
<1>2. CASE downloadFile
  BY Zenon, <1>2, DownloadFields DEF disk, memory, history, Ok, Fault
<1>3. CASE verifyChecksum \/ extractBinary
  BY Zenon, <1>3, GotoFields DEF verifyChecksum, extractBinary, disk, memory, history, Ok, Fault
<1>4. CASE BackupStarts
  BY SMTT(30), <1>4, GotoFields DEF BackupStarts, memory, history, Ok, Fault
<1>5. CASE BackupEnds
  BY SMTT(30), <1>5, GotoFields DEF BackupEnds, memory, history, Ok, Fault
<1>6. CASE InstallStarts \/ InstallEnds
  BY Zenon, <1>6, GotoFields DEF InstallStarts, InstallEnds, memory, history, Ok, Fault
<1>7. CASE Check
  BY SMTT(30), <1>7, GotoFields DEF Check, runBinaryVersion, disk, memory, history, Ok, Fault
<1>8. CASE Save
  BY SMTT(30), <1>8, GotoFields, StartFields DEF Save, history, Ok, Fault
<1>9. CASE UndoStarts \/ UndoEnds
  BY Zenon, <1>9, GotoFields DEF UndoStarts, UndoEnds, memory, history, Ok, Fault
<1>10. CASE RestartTarget \/ Crash
  BY Zenon, <1>10 DEF RestartTarget, Crash, Stop, disk, history, Ok, Fault
<1>11. CASE ConfirmBegins
  BY <1>11, GotoFields, CancelFields DEF ConfirmBegins, disk, history
<1>12. CASE RemoveBackup
  BY <1>12, GotoFields DEF RemoveBackup, memory, history, Ok, Fault
<1>13. CASE ConfirmEnds
  BY <1>13 DEF ConfirmEnds, Ok, Fault
<1>14. CASE OperatorRollback
  BY <1>14, RestoreFields, CancelFields
  DEF OperatorRollback, RollbackBegins, disk, memory, history, Ok, Fault
<1>15. CASE RestoreStarts \/ RestoreEnds
  BY Zenon, <1>15, GotoFields DEF RestoreStarts, RestoreEnds, memory, history, Ok, Fault
<1>16. CASE ClearState
  BY <1>16, GotoFields DEF ClearState, history, Ok, Fault
<1>17. CASE Boot
  BY <1>17, StartFields DEF Boot, disk, history
<1>18. CASE \E w \in Watchdogs : WatchdogExpires(w)
  BY <1>18 DEF WatchdogExpires, disk, history
<1>19. CASE \E w \in Watchdogs : WatchdogRollback(w)
  BY <1>19, RestoreFields, CancelFields
  DEF WatchdogRollback, RollbackBegins, disk, memory, history, Ok, Fault
<1>20. CASE UNCHANGED vars
  BY <1>20 DEF vars
<1> HIDE UpdateAssumption, IdleFields
  DEF TypeOK, OpInv, Fetching, Installing, Restoring, Versions, Torn, None, Steps
<1> QED BY Zenon, <1>1, <1>2, <1>3, <1>4, <1>5, <1>6, <1>7, <1>8, <1>9, <1>10, <1>11, <1>12, <1>13, <1>14, <1>15, <1>16, <1>17, <1>18, <1>19, <1>20
DEF Next, Progress, Watchdog

\* The goroutines of a process stay numbered from 1.
LEMMA SlotInvStep ==
  ASSUME TypeOK, OpInv, SlotInv, [Next]_vars
  PROVE  SlotInv'
<1> USE UpdateAssumption DEF Watchdogs
<1>a. wds \in [Watchdogs -> WdStates] /\ op \in Ops /\ faults \in Nat /\ cancel \in Watchdogs \cup {0}
  BY DEF TypeOK
<1> DEFINE Same == \A w \in Watchdogs : wds'[w] = "none" <=> wds[w] = "none"
<1>0. PICK k \in Nat :
        /\ \A w \in Watchdogs : wds[w] # "none" <=> w <= k
        /\ k <= faults + 2
        /\ op.step # "restart" => k <= faults + 1
  BY DEF SlotInv
<1>1. CASE Same /\ (faults' = faults \/ faults' = faults + 1) /\ (op.step = "restart" => op'.step = "restart" \/ faults' = faults + 1)
  <2>1. \A w \in Watchdogs : wds'[w] # "none" <=> w <= k BY <1>0, <1>1, <1>a
  <2>2. k <= faults' + 2 /\ (op'.step # "restart" => k <= faults' + 1) BY <1>0, <1>1, <1>a
  <2> QED BY <2>1, <2>2 DEF SlotInv
<1>2. CASE wds' = [w \in Watchdogs |-> "none"] /\ faults' = faults
  <2>1. \A w \in Watchdogs : wds'[w] # "none" <=> w <= 0 BY <1>2
  <2>2. 0 <= faults' + 2 /\ 0 <= faults' + 1 BY <1>2, <1>a
  <2> QED BY <2>1, <2>2 DEF SlotInv
<1>3. CASE Save
  <2>1. CASE Fault /\ UNCHANGED wds
    BY <1>1, <1>3, <2>1, <1>a DEF Save, Fault
  <2>2. CASE StartWatchdog(wds) /\ Goto("restart") /\ Ok
    <3>1. op'.step = "restart" BY <2>2, <1>a, GotoFields DEF Steps
    <3>2. op.step # "restart" BY <1>3 DEF Save
    <3>3. /\ cancel' \in Watchdogs /\ cancel' <= faults' + 2
          /\ \A w \in Watchdogs : wds'[w] # "none" <=> w <= cancel'
      BY <2>2, <3>2, <1>a, StartFields DEF Ok, WdStates
    <3> QED BY <3>1, <3>3 DEF SlotInv
  <2> QED BY <1>3, <2>1, <2>2 DEF Save
<1>4. CASE Boot
  <2>1. CASE file = None
    BY <1>1, <1>4, <2>1 DEF Boot
  <2>2. CASE file # None
    <3>1. op.step = "idle" /\ wds = [w \in Watchdogs |-> "none"] BY <1>4, IdleFields DEF Boot, OpInv
    <3>2. StartWatchdog(wds) /\ faults' = faults BY <1>4, <2>2 DEF Boot
    <3>3. /\ cancel' \in Watchdogs
          /\ wds' = [wds EXCEPT ![cancel'] = "waiting"]
          /\ \A w \in Watchdogs : wds[w] # "none" <=> w < cancel'
      BY <3>1, <3>2, StartFields
    <3>4. cancel' = 1
      <4>1. 1 \in Watchdogs /\ wds[1] = "none" BY <3>1
      <4> QED BY <3>3, <4>1
    <3>5. \A w \in Watchdogs : wds'[w] # "none" <=> w <= 1 BY <3>1, <3>3, <3>4
    <3>6. 1 <= faults' + 1 /\ 1 <= faults' + 2 BY <3>2, <1>a
    <3> QED BY <3>5, <3>6 DEF SlotInv
  <2> QED BY <2>1, <2>2
<1>5. CASE ConfirmBegins \/ OperatorRollback \/ \E w \in Watchdogs : WatchdogRollback(w)
  <2>1. faults' = faults /\ op.step = "idle"
    BY <1>5, IdleFields DEF ConfirmBegins, OperatorRollback, WatchdogRollback, RollbackBegins
  <2>2. wds' = CancelWatchdog \/ \E w \in Watchdogs : wds[w] = "expired" /\ wds' = [CancelWatchdog EXCEPT ![w] = "done"]
    BY <1>5 DEF ConfirmBegins, OperatorRollback, WatchdogRollback, RollbackBegins
  <2>3. Same BY Zenon, <2>2, <1>a, CancelFields
  <2> QED BY <1>1, <2>1, <2>3
<1>6. CASE RestartTarget \/ Crash
  BY <1>1, <1>2, <1>6, <1>a DEF RestartTarget, Crash, Stop, Ok, Fault
<1>7. CASE \E w \in Watchdogs : WatchdogExpires(w)
  BY <1>1, <1>7, <1>a DEF WatchdogExpires, WdStates
<1>8. CASE ApplyBegins \/ downloadFile \/ verifyChecksum \/ extractBinary \/ BackupStarts \/ BackupEnds
  <2>1. UNCHANGED wds /\ (faults' = faults \/ faults' = faults + 1) /\ op.step # "restart"
    BY <1>8, <1>a, IdleFields, DownloadFields
    DEF ApplyBegins, verifyChecksum, extractBinary, BackupStarts, BackupEnds, memory, Ok, Fault
  <2> QED BY <1>1, <2>1
<1>9. CASE InstallStarts \/ InstallEnds \/ Check \/ UndoStarts \/ UndoEnds
  BY <1>1, <1>9, <1>a DEF InstallStarts, InstallEnds, Check, UndoStarts, UndoEnds, memory, Ok, Fault
<1>10. CASE RemoveBackup \/ ConfirmEnds \/ RestoreStarts \/ RestoreEnds \/ ClearState \/ UNCHANGED vars
  BY <1>1, <1>10, <1>a
  DEF RemoveBackup, ConfirmEnds, RestoreStarts, RestoreEnds, ClearState, vars, memory, Ok, Fault
<1> QED BY <1>3, <1>4, <1>5, <1>6, <1>7, <1>8, <1>9, <1>10 DEF Next, Progress, Watchdog

\* Save starts the one goroutine that waits; ConfirmUpdate and Rollback cancel it first.
LEMMA ArmInvStep ==
  ASSUME TypeOK, OpInv, SlotInv, ArmInv, [Next]_vars
  PROVE  ArmInv'
<1> USE UpdateAssumption, IdleFields
  DEF TypeOK, OpInv, ArmInv, Fetching, Installing, Restoring, Quiet, Disciplined, WdStates, Steps, None
<1>1. CASE ApplyBegins
  BY <1>1, ApplyFields DEF ApplyBegins, disk, memory
<1>2. CASE downloadFile
  BY <1>2, DownloadFields DEF disk, memory, history, Ok, Fault
<1>3. CASE verifyChecksum \/ extractBinary
  BY <1>3, GotoFields DEF verifyChecksum, extractBinary, disk, memory, history, Ok, Fault
<1>4. CASE BackupStarts \/ BackupEnds
  BY <1>4, GotoFields DEF BackupStarts, BackupEnds, memory, history, Ok, Fault
<1>5. CASE InstallStarts \/ InstallEnds
  BY <1>5, GotoFields DEF InstallStarts, InstallEnds, memory, history, Ok, Fault
<1>6. CASE Check
  BY <1>6, GotoFields DEF Check, runBinaryVersion, disk, memory, history, Ok, Fault
<1>7. CASE Save
  <2>1. CASE Goto("undo") /\ Fault /\ UNCHANGED <<file, pend, wds, cancel>>
    BY <1>7, <2>1, GotoFields DEF Save, history, Ok, Fault
  <2>2. CASE file' = op.ver /\ pend' = op.ver /\ StartWatchdog(wds) /\ Goto("restart") /\ Ok
    <3>1. op.step = "save" /\ op'.step = "restart" /\ op' \in Ops BY <1>7, <2>2, GotoFields DEF Save
    <3>2. /\ cancel' \in Watchdogs
          /\ wds' = [wds EXCEPT ![cancel'] = "waiting"] BY <2>2, <3>1, StartFields
    <3> QED BY <1>7, <2>2, <3>1, <3>2 DEF Save, Versions, history, Ok, Fault
  <2> QED BY <1>7, <2>1, <2>2 DEF Save
<1>8. CASE UndoStarts \/ UndoEnds
  BY <1>8, GotoFields DEF UndoStarts, UndoEnds, memory, history, Ok, Fault
<1>9. CASE RestartTarget \/ Crash
  BY <1>9 DEF RestartTarget, Crash, Stop, disk, history, Ok, Fault
<1>10. CASE ConfirmBegins
  BY <1>10, GotoFields, CancelFields DEF ConfirmBegins, disk, history
<1>11. CASE RemoveBackup \/ ConfirmEnds
  BY <1>11, GotoFields DEF RemoveBackup, ConfirmEnds, memory, history, Ok, Fault
<1>12. CASE OperatorRollback
  BY <1>12, RestoreFields, CancelFields
  DEF OperatorRollback, RollbackBegins, disk, memory, history, Ok, Fault
<1>13. CASE RestoreStarts \/ RestoreEnds
  BY <1>13, GotoFields DEF RestoreStarts, RestoreEnds, memory, history, Ok, Fault
<1>14. CASE ClearState
  BY <1>14, GotoFields DEF ClearState, history, Ok, Fault
<1>15. CASE Boot
  BY <1>15, StartFields DEF Boot, disk, history
<1>16. CASE \E w \in Watchdogs : WatchdogExpires(w)
  BY <1>16 DEF WatchdogExpires, disk, history
<1>17. CASE \E w \in Watchdogs : WatchdogRollback(w)
  BY <1>17, RestoreFields, CancelFields
  DEF WatchdogRollback, RollbackBegins, disk, memory, history, Ok, Fault
<1>18. CASE UNCHANGED vars
  BY <1>18 DEF vars
<1> HIDE UpdateAssumption, IdleFields
  DEF TypeOK, OpInv, ArmInv, Fetching, Installing, Restoring, Quiet, Disciplined, WdStates, Steps, None
<1> QED BY Zenon, <1>1, <1>2, <1>3, <1>4, <1>5, <1>6, <1>7, <1>8, <1>9, <1>10, <1>11, <1>12, <1>13, <1>14, <1>15, <1>16, <1>17, <1>18
DEF Next, Progress, Watchdog

\* No step damages the .bak file while the binary is torn, after at most one failed command.
LEMMA FilesInvStep ==
  ASSUME TypeOK, OpInv, ArmInv, FilesInv, CalmInv, [Next]_vars
  PROVE  FilesInv'
<1> USE UpdateAssumption, IdleFields
  DEF TypeOK, OpInv, ArmInv, FilesInv, CalmInv, Fetching, Installing, Restoring, Quiet, Disciplined,
      Versions, Torn, None, Steps
<1>1. CASE ApplyBegins
  BY <1>1, ApplyFields DEF ApplyBegins, disk, memory
<1>2. CASE downloadFile
  <2>0. op.step = "download" /\ UNCHANGED <<disk, memory, history>>
    BY <1>2, DownloadFields
  <2>1. CASE op' = Idle /\ Fault
    BY <2>0, <2>1 DEF disk, memory, history, Fault
  <2>2. CASE op'.step = "verify" /\ Ok
    BY ZenonT(40), <1>2, <2>2, DownloadFields DEF disk, memory, history, Ok
  <2> QED BY SMTT(30), <1>2, <2>1, <2>2, DownloadFields
<1>3. CASE verifyChecksum
  BY SMTT(30), <1>3, GotoFields DEF verifyChecksum, disk, memory, history, Ok, Fault
<1>4. CASE extractBinary
  BY <1>4, GotoFields DEF extractBinary, disk, memory, history, Ok, Fault
<1>5. CASE BackupStarts
  BY SMTT(30), <1>5, GotoFields DEF BackupStarts, memory, history, Ok, Fault
<1>6. CASE BackupEnds
  BY SMTT(30), <1>6, GotoFields DEF BackupEnds, memory, history, Ok, Fault
<1>7. CASE InstallStarts
  BY SMTT(30), <1>7, GotoFields DEF InstallStarts, memory, history, Ok, Fault
<1>8. CASE InstallEnds
  BY SMTT(30), <1>8, GotoFields DEF InstallEnds, memory, history, Ok, Fault
<1>9. CASE Check
  BY SMTT(30), <1>9, GotoFields DEF Check, runBinaryVersion, disk, memory, history, Ok, Fault
<1>10. CASE Save
  BY SMTT(30), <1>10, GotoFields, StartFields DEF Save, history, Ok, Fault
<1>11. CASE UndoStarts
  BY SMTT(30), <1>11, GotoFields DEF UndoStarts, memory, history, Ok, Fault
<1>12. CASE UndoEnds
  BY SMTT(30), <1>12 DEF UndoEnds, memory, history, Ok, Fault
<1>13. CASE RestartTarget
  BY <1>13 DEF RestartTarget, Stop, disk, history, Ok, Fault
<1>14. CASE Crash
  BY <1>14 DEF Crash, Stop, disk, history
<1>15. CASE ConfirmBegins
  BY <1>15, GotoFields, CancelFields DEF ConfirmBegins, disk, history
<1>16. CASE RemoveBackup
  BY <1>16, GotoFields DEF RemoveBackup, memory, history, Ok, Fault
<1>17. CASE ConfirmEnds
  BY <1>17 DEF ConfirmEnds, Ok, Fault
<1>18. CASE OperatorRollback
  BY <1>18, RestoreFields, CancelFields
  DEF OperatorRollback, RollbackBegins, disk, memory, history, Ok, Fault
<1>19. CASE RestoreStarts
  BY <1>19, GotoFields DEF RestoreStarts, memory, history, Ok, Fault
<1>20. CASE RestoreEnds
  BY <1>20, GotoFields DEF RestoreEnds, memory, history, Ok, Fault
<1>21. CASE ClearState
  BY SMTT(30), <1>21, GotoFields DEF ClearState, history, Ok, Fault
<1>22. CASE Boot
  BY <1>22, StartFields DEF Boot, disk, history
<1>23. CASE \E w \in Watchdogs : WatchdogExpires(w)
  BY <1>23 DEF WatchdogExpires, disk, history
<1>24. CASE \E w \in Watchdogs : WatchdogRollback(w)
  BY SMTT(30), <1>24, RestoreFields, CancelFields
  DEF WatchdogRollback, RollbackBegins, disk, memory, history, Ok, Fault
<1>25. CASE UNCHANGED vars
  BY <1>25 DEF vars
<1> QED BY Zenon, <1>1, <1>2, <1>3, <1>4, <1>5, <1>6, <1>7, <1>8, <1>9, <1>10, <1>11, <1>12, <1>13, <1>14, <1>15, <1>16, <1>17, <1>18, <1>19, <1>20, <1>21, <1>22, <1>23, <1>24, <1>25
DEF Next, Progress, Watchdog

\* Memory, the state file and the .bak file stay in step while nothing fails.
LEMMA CalmInvStep ==
  ASSUME TypeOK, OpInv, ArmInv, CalmInv, [Next]_vars
  PROVE  CalmInv'
<1> USE UpdateAssumption, IdleFields
  DEF TypeOK, OpInv, ArmInv, CalmInv, Fetching, Installing, Restoring, Quiet, Disciplined, None, Steps
<1>1. CASE ApplyBegins
  BY <1>1, ApplyFields DEF ApplyBegins, disk, memory
<1>2. CASE downloadFile
  BY <1>2, DownloadFields DEF disk, memory, history, Ok, Fault
<1>3. CASE verifyChecksum \/ extractBinary
  BY <1>3, GotoFields DEF verifyChecksum, extractBinary, disk, memory, history, Ok, Fault
<1>4. CASE BackupStarts \/ BackupEnds
  BY <1>4, GotoFields DEF BackupStarts, BackupEnds, memory, history, Ok, Fault
<1>5. CASE InstallStarts \/ InstallEnds
  BY <1>5, GotoFields DEF InstallStarts, InstallEnds, memory, history, Ok, Fault
<1>6. CASE Check
  BY <1>6, GotoFields DEF Check, runBinaryVersion, disk, memory, history, Ok, Fault
<1>7. CASE Save
  BY <1>7, GotoFields, StartFields DEF Save, history, Ok, Fault
<1>8. CASE UndoStarts \/ UndoEnds
  BY <1>8, GotoFields DEF UndoStarts, UndoEnds, memory, history, Ok, Fault
<1>9. CASE RestartTarget \/ Crash
  BY <1>9 DEF RestartTarget, Crash, Stop, disk, history, Ok, Fault
<1>10. CASE ConfirmBegins
  BY <1>10, GotoFields, CancelFields DEF ConfirmBegins, disk, history
<1>11. CASE RemoveBackup \/ ConfirmEnds
  BY <1>11, GotoFields DEF RemoveBackup, ConfirmEnds, memory, history, Ok, Fault
<1>12. CASE OperatorRollback
  BY <1>12, RestoreFields, CancelFields
  DEF OperatorRollback, RollbackBegins, disk, memory, history, Ok, Fault
<1>13. CASE RestoreStarts \/ RestoreEnds
  BY <1>13, GotoFields DEF RestoreStarts, RestoreEnds, memory, history, Ok, Fault
<1>14. CASE ClearState
  BY <1>14, GotoFields DEF ClearState, history, Ok, Fault
<1>15. CASE Boot
  BY <1>15, StartFields DEF Boot, disk, history
<1>16. CASE \E w \in Watchdogs : WatchdogExpires(w)
  BY <1>16 DEF WatchdogExpires, disk, history
<1>17. CASE \E w \in Watchdogs : WatchdogRollback(w)
  BY <1>17, RestoreFields, CancelFields
  DEF WatchdogRollback, RollbackBegins, disk, memory, history, Ok, Fault
<1>18. CASE UNCHANGED vars
  BY <1>18 DEF vars
<1> QED BY Zenon, <1>1, <1>2, <1>3, <1>4, <1>5, <1>6, <1>7, <1>8, <1>9, <1>10, <1>11, <1>12, <1>13, <1>14, <1>15, <1>16, <1>17, <1>18
DEF Next, Progress, Watchdog

\* The binary, the .bak file and the state file name the confirmed and the pending version.
LEMMA ReleaseInvStep ==
  ASSUME TypeOK, OpInv, ArmInv, FilesInv, CalmInv, ReleaseInv, [Next]_vars
  PROVE  ReleaseInv'
<1> USE UpdateAssumption, IdleFields
  DEF TypeOK, OpInv, ArmInv, FilesInv, CalmInv, ReleaseInv, Fetching, Installing, Restoring, Quiet,
      Disciplined, Versions, Torn, None, Steps
<1>1. CASE ApplyBegins
  BY SMTT(30), <1>1, ApplyFields DEF ApplyBegins, disk, memory
<1>2. CASE downloadFile
  BY ZenonT(40), <1>2, DownloadFields DEF disk, memory, history, Ok, Fault
<1>3. CASE verifyChecksum \/ extractBinary
  BY ZenonT(40), <1>3, GotoFields DEF verifyChecksum, extractBinary, disk, memory, history, Ok, Fault
<1>4. CASE BackupStarts \/ BackupEnds
  BY ZenonT(40), <1>4, GotoFields DEF BackupStarts, BackupEnds, memory, history, Ok, Fault
<1>5. CASE InstallStarts \/ InstallEnds
  BY ZenonT(40), <1>5, GotoFields DEF InstallStarts, InstallEnds, memory, history, Ok, Fault
<1>6. CASE Check
  BY SMTT(30), <1>6, GotoFields DEF Check, runBinaryVersion, disk, memory, history, Ok, Fault
<1>7. CASE Save
  BY SMTT(30), <1>7, GotoFields, StartFields DEF Save, history, Ok, Fault
<1>8. CASE UndoStarts \/ UndoEnds
  BY ZenonT(40), <1>8, GotoFields DEF UndoStarts, UndoEnds, memory, history, Ok, Fault
<1>9. CASE RestartTarget \/ Crash
  BY ZenonT(40), <1>9 DEF RestartTarget, Crash, Stop, disk, history, Ok, Fault
<1>10. CASE ConfirmBegins
  BY <1>10, GotoFields, CancelFields DEF ConfirmBegins, disk, history
<1>11. CASE RemoveBackup \/ ConfirmEnds
  <2>1. CASE RemoveBackup BY SMTT(30), <2>1, GotoFields DEF RemoveBackup, memory, history, Ok, Fault
  <2>2. CASE ConfirmEnds BY SMTT(30), <2>2 DEF ConfirmEnds, Ok, Fault
  <2> QED BY <1>11, <2>1, <2>2
<1>12. CASE OperatorRollback
  BY SMTT(30), <1>12, RestoreFields, CancelFields
  DEF OperatorRollback, RollbackBegins, disk, memory, history, Ok, Fault
<1>13. CASE RestoreStarts \/ RestoreEnds
  BY ZenonT(40), <1>13, GotoFields DEF RestoreStarts, RestoreEnds, memory, history, Ok, Fault
<1>14. CASE ClearState
  BY <1>14, GotoFields DEF ClearState, history, Ok, Fault
<1>15. CASE Boot
  BY <1>15, StartFields DEF Boot, disk, history
<1>16. CASE \E w \in Watchdogs : WatchdogExpires(w)
  BY <1>16 DEF WatchdogExpires, disk, history
<1>17. CASE \E w \in Watchdogs : WatchdogRollback(w)
  <2>1. PICK w \in Watchdogs : WatchdogRollback(w)
    BY <1>17
  <2>2. /\ up /\ op = Idle /\ wds[w] = "expired"
        /\ op' = IF bak = None THEN Idle ELSE [Idle EXCEPT !.step = "restore"]
        /\ UNCHANGED <<env, bin, bak, file, good>>
    BY Zenon, <2>1 DEF WatchdogRollback, RollbackBegins, disk
  <2>3. ~Quiet
    BY <2>2
  <2>4. CASE bak = None
    BY <2>2, <2>4
  <2>5. CASE bak # None /\ env \in {"calm", "broken", "damaged"}
    <3>1. faults = 0
      BY <2>5
    <3>2. pend # None /\ file = pend
      BY <2>2, <2>3, <2>5, <3>1
    <3>3. bak = good
      BY <2>2, <2>5, <3>2
    <3> QED BY <2>2, <2>5, <3>3, RestoreFields
  <2> QED BY <2>2, <2>4, <2>5
<1>18. CASE UNCHANGED vars
  BY SMTT(30), <1>18 DEF vars
<1> QED BY Zenon, <1>1, <1>2, <1>3, <1>4, <1>5, <1>6, <1>7, <1>8, <1>9, <1>10, <1>11, <1>12, <1>13, <1>14, <1>15, <1>16, <1>17, <1>18
DEF Next, Progress, Watchdog

\* Only the next ApplyUpdate or an operator's rollback leaves the state ConfirmUpdate reached.
LEMMA KeptInvStep ==
  ASSUME TypeOK, OpInv, ArmInv, CalmInv, KeptInv, [Next]_vars
  PROVE  KeptInv'
<1> USE UpdateAssumption, IdleFields
  DEF TypeOK, OpInv, ArmInv, CalmInv, KeptInv, Quiet, Disciplined, Versions, Torn, None, Steps
<1>1. CASE ApplyBegins
  BY Zenon, <1>1, ApplyFields DEF ApplyBegins, disk, memory
<1>2. CASE downloadFile
  BY ZenonT(40), <1>2, DownloadFields DEF disk, memory, history, Ok, Fault
<1>3. CASE verifyChecksum \/ extractBinary
  BY SMTT(30), <1>3, GotoFields DEF verifyChecksum, extractBinary, disk, memory, history, Ok, Fault
<1>4. CASE BackupStarts \/ BackupEnds
  BY SMTT(30), <1>4, GotoFields DEF BackupStarts, BackupEnds, memory, history, Ok, Fault
<1>5. CASE InstallStarts \/ InstallEnds
  BY SMTT(30), <1>5, GotoFields DEF InstallStarts, InstallEnds, memory, history, Ok, Fault
<1>6. CASE Check
  BY SMTT(30), <1>6, GotoFields DEF Check, runBinaryVersion, disk, memory, history, Ok, Fault
<1>7. CASE Save
  BY SMTT(30), <1>7, GotoFields, StartFields DEF Save, history, Ok, Fault
<1>8. CASE UndoStarts \/ UndoEnds
  BY SMTT(30), <1>8, GotoFields DEF UndoStarts, UndoEnds, memory, history, Ok, Fault
<1>9. CASE RestartTarget \/ Crash
  BY SMTT(30), <1>9 DEF RestartTarget, Crash, Stop, disk, history, Ok, Fault
<1>10. CASE ConfirmBegins
  BY SMTT(30), <1>10, GotoFields, CancelFields DEF ConfirmBegins, disk, history
<1>11. CASE RemoveBackup
  BY SMTT(30), <1>11, GotoFields DEF RemoveBackup, memory, history, Ok, Fault
<1>12. CASE ConfirmEnds
  BY <1>12 DEF ConfirmEnds, Ok, Fault
<1>13. CASE OperatorRollback
  BY <1>13, RestoreFields, CancelFields
  DEF OperatorRollback, RollbackBegins, disk, memory, history, Ok, Fault
<1>14. CASE RestoreStarts \/ RestoreEnds
  BY SMTT(30), <1>14, GotoFields DEF RestoreStarts, RestoreEnds, memory, history, Ok, Fault
<1>15. CASE ClearState
  BY <1>15, GotoFields DEF ClearState, history, Ok, Fault
<1>16. CASE Boot
  BY <1>16, StartFields DEF Boot, disk, history
<1>17. CASE \E w \in Watchdogs : WatchdogExpires(w)
  BY <1>17 DEF WatchdogExpires, disk, history
<1>18. CASE \E w \in Watchdogs : WatchdogRollback(w)
  BY <1>18, RestoreFields, CancelFields
  DEF WatchdogRollback, RollbackBegins, disk, memory, history, Ok, Fault
<1>19. CASE UNCHANGED vars
  BY <1>19 DEF vars
<1> HIDE UpdateAssumption, IdleFields
  DEF TypeOK, OpInv, ArmInv, CalmInv, KeptInv, Quiet, Disciplined, Versions, Torn, None, Steps
<1> QED BY Zenon, <1>1, <1>2, <1>3, <1>4, <1>5, <1>6, <1>7, <1>8, <1>9, <1>10, <1>11, <1>12, <1>13, <1>14, <1>15, <1>16, <1>17, <1>18, <1>19
DEF Next, Progress, Watchdog

-----------------------------------------------------------------------------
\* The service as it is first installed.
LEMMA InvInit == Init => Inv
<1> SUFFICES ASSUME Init PROVE Inv
  OBVIOUS
<1> USE UpdateAssumption, IdleFields DEF Init, Versions, Torn, None
<1>1. wds \in [Watchdogs -> WdStates] /\ \A w \in Watchdogs : wds[w] = "none"
  BY DEF WdStates
<1>2. TypeOK
  BY <1>1 DEF TypeOK
<1>3. OpInv
  BY DEF OpInv, Fetching, Installing, Restoring
<1>4. SlotInv
  <2>1. \A w \in Watchdogs : wds[w] # "none" <=> w <= 0
    BY <1>1 DEF Watchdogs
  <2> QED BY <2>1 DEF SlotInv
<1>5. ArmInv /\ FilesInv /\ CalmInv
  BY <1>1 DEF ArmInv, FilesInv, CalmInv, Quiet, Fetching, Installing, Restoring
<1>6. ReleaseInv /\ KeptInv
  BY DEF ReleaseInv, KeptInv, Fetching, Installing, Restoring
<1> QED BY <1>2, <1>3, <1>4, <1>5, <1>6 DEF Inv

\* The invariant is inductive.
LEMMA InvStep == Inv /\ [Next]_vars => Inv'
BY TypeOKStep, OpInvStep, SlotInvStep, ArmInvStep, FilesInvStep, CalmInvStep, ReleaseInvStep, KeptInvStep
DEF Inv

\* The invariant holds in every reachable state of the update service.
THEOREM Invariance == Spec => []Inv
BY InvInit, InvStep, PTL DEF Spec

\* A binary torn by ApplyUpdate or Rollback always comes with a complete .bak file, for
\* any number of releases and power losses, as long as at most one command failed: what
\* the log message of Rollback ("the operator has the .bak file to recover by hand")
\* promises.
THEOREM TornIsRecoverable == Spec => [](faults <= 1 => RecoverableByHand)
<1>1. Inv => (faults <= 1 => RecoverableByHand)
  BY DEF Inv, FilesInv, RecoverableByHand
<1> QED BY <1>1, Invariance, PTL

\* What ConfirmUpdate accepted stays installed until the next update or an operator's
\* rollback, whatever watchdogs were waiting for s.mu and however often the power fails.
THEOREM ConfirmedVersionStays == Spec => []ConfirmedStays
<1>1. Inv => ConfirmedStays
  BY DEF Inv, KeptInv, ConfirmedStays
<1> QED BY <1>1, Invariance, PTL

\* Whatever a download holds, between two calls the installed binary is the last confirmed
\* version, or the pending one with the last confirmed version in the .bak file.
THEOREM ReleasesAloneInstalled == Spec => []OnlyReleasesInstalled
<1>1. Inv => OnlyReleasesInstalled
  BY IdleFields DEF Inv, OpInv, ReleaseInv, CalmInv, Disciplined, OnlyReleasesInstalled
<1> QED BY <1>1, Invariance, PTL
=============================================================================
